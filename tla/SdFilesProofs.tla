---------------------------- MODULE SdFilesProofs ----------------------------
(***************************************************************************)
(* Theorems about the files of the sd module, for all names, contents and  *)
(* cards and any number of slots: the types, the numbers that programs     *)
(* hold, and that what was reported is stored, whenever the power fails,   *)
(* but for files of which a full card dropped a block.                     *)
(***************************************************************************)
EXTENDS SdFiles, NatFacts, SequenceTheorems

(* Operators. *)

\* An open File object is one of those sd.open makes.
LEMMA OpenIsObject ==
  ASSUME TypeOK, NEW s \in Slots, openFiles[s].open
  PROVE  openFiles[s] \in Opened
<1>1. openFiles[s] \in Opened \union {Closed}
  BY DEF TypeOK
<1>2. openFiles[s] # Closed
  BY DEF Closed
<1> QED BY <1>1, <1>2 DEF Opened

\* A free slot is a slot, and free.
LEMMA FreeSlot ==
  ASSUME TypeOK, get_free_file_slot # -1
  PROVE  get_free_file_slot \in Slots /\ ~openFiles[get_free_file_slot].open
<1> DEFINE free == {s \in Slots : ~openFiles[s].open}
<1>1. free \in SUBSET Nat /\ free # {}
  BY SlotAssumption DEF Slots, get_free_file_slot
<1>2. \E s \in free : \A t \in free : s <= t
  BY <1>1, LeastExists, Zenon
<1>3. get_free_file_slot = CHOOSE s \in free : \A t \in free : s <= t
  BY <1>1 DEF get_free_file_slot
<1> HIDE DEF free
<1>4. get_free_file_slot \in free
  BY <1>2, <1>3
<1> QED BY <1>4 DEF free

\* A picture is only taken to a name that no file has.
LEMMA FreePictureIsNew ==
  ASSUME TypeOK, mounted, FreePicture # 0
  PROVE  Pictures[FreePicture] \in Paths /\ card[Pictures[FreePicture]] = NoFile
<1> DEFINE free == {i \in DOMAIN Pictures : ~Exists(Pictures[i])}
<1>1. DOMAIN Pictures \subseteq Nat
  BY CardAssumption
<1>2. free \in SUBSET Nat /\ free # {}
  BY <1>1 DEF FreePicture
<1>3. \E i \in free : \A j \in free : i <= j
  BY <1>2, LeastExists, Zenon
<1>4. FreePicture = CHOOSE i \in free : \A j \in free : i <= j
  BY <1>2 DEF FreePicture
<1> HIDE DEF free
<1>5. FreePicture \in free
  BY <1>3, <1>4
<1> QED BY <1>5 DEF free, Exists, Paths

\* Writing a block inside a file, or at its end, leaves a file that reaches
\* behind the block.
LEMMA WriteAtType ==
  ASSUME NEW s \in Seq(Blocks), NEW at \in Nat, at <= Len(s), NEW b \in Blocks
  PROVE  WriteAt(s, at, b) \in Seq(Blocks) /\ at + 1 <= Len(WriteAt(s, at, b))
                                          /\ Len(s) <= Len(WriteAt(s, at, b))
BY DEF WriteAt

\* Writing a block where it is already changes nothing.
LEMMA WriteAtAgain ==
  ASSUME NEW s \in Seq(Blocks), NEW at \in Nat, at <= Len(s), NEW b \in Blocks
  PROVE  WriteAt(WriteAt(s, at, b), at, b) = WriteAt(s, at, b)
<1>1. CASE at < Len(s)
  <2> DEFINE w == [s EXCEPT ![at + 1] = b]
  <2>1. w \in Seq(Blocks) /\ Len(w) = Len(s) /\ w[at + 1] = b
    BY <1>1
  <2>2. [w EXCEPT ![at + 1] = b] = w
    BY <1>1, <2>1
  <2> QED BY <1>1, <2>1, <2>2 DEF WriteAt
<1>2. CASE at = Len(s)
  <2> DEFINE w == Append(s, b)
  <2>1. w \in Seq(Blocks) /\ Len(w) = Len(s) + 1 /\ w[at + 1] = b
    BY <1>2
  <2>2. WriteAt(s, at, b) = w
    BY <1>2 DEF WriteAt
  <2> HIDE DEF w
  <2>3. [w EXCEPT ![at + 1] = b] = w
    BY <2>1
  <2>4. at < Len(w)
    BY <1>2, <2>1
  <2> QED BY <2>2, <2>3, <2>4 DEF WriteAt
<1> QED BY <1>1, <1>2

\* Moving a block from the rest of a job to the file keeps what they make up.
LEMMA BlockMoves ==
  ASSUME NEW s \in Seq(Blocks), NEW r \in Seq(Blocks), r # << >>
  PROVE  Append(s, Head(r)) \o Tail(r) = s \o r
<1> DEFINE t == Append(s, Head(r))
<1>1. /\ Head(r) \in Blocks /\ Tail(r) \in Seq(Blocks) /\ Len(Tail(r)) = Len(r) - 1
      /\ \A i \in 1..Len(Tail(r)) : Tail(r)[i] = r[i + 1]
      /\ Head(r) = r[1] /\ Len(r) \in Nat \ {0} /\ Len(s) \in Nat
  BY HeadTailProperties, EmptySeq
<1>2. /\ t \in Seq(Blocks) /\ Len(t) = Len(s) + 1
      /\ \A i \in 1..Len(s) : t[i] = s[i]
      /\ t[Len(s) + 1] = r[1]
  BY <1>1, AppendProperties
<1> HIDE DEF t
<1>3. /\ t \o Tail(r) \in Seq(Blocks) /\ Len(t \o Tail(r)) = Len(t) + Len(Tail(r))
      /\ \A i \in 1..(Len(t) + Len(Tail(r))) :
            (t \o Tail(r))[i] = IF i <= Len(t) THEN t[i] ELSE Tail(r)[i - Len(t)]
  BY <1>1, <1>2, ConcatProperties, Zenon
<1>4. /\ s \o r \in Seq(Blocks) /\ Len(s \o r) = Len(s) + Len(r)
      /\ \A i \in 1..(Len(s) + Len(r)) :
            (s \o r)[i] = IF i <= Len(s) THEN s[i] ELSE r[i - Len(s)]
  BY ConcatProperties, Zenon
<1>5. Len(t) + Len(Tail(r)) = Len(s) + Len(r)
  BY <1>1, <1>2
<1>6. ASSUME NEW i \in 1..(Len(s) + Len(r)) PROVE (t \o Tail(r))[i] = (s \o r)[i]
  <2>1. CASE i <= Len(s)
    BY <1>1, <1>2, <1>3, <1>4, <1>5, <2>1
  <2>2. CASE i = Len(s) + 1
    BY <1>1, <1>2, <1>3, <1>4, <1>5, <2>2
  <2>3. CASE i > Len(s) + 1
    <3> DEFINE k == i - Len(s)
    <3>1. k \in Nat /\ k > 1 /\ k - 1 \in 1..Len(Tail(r)) /\ (k - 1) + 1 = k
      BY <1>1, <2>3
    <3>2. (t \o Tail(r))[i] = Tail(r)[k - 1]
      <4>1. i - Len(t) = k - 1 /\ ~(i <= Len(t))
        BY <1>1, <1>2, <2>3
      <4> QED BY <1>3, <1>5, <4>1, Zenon
    <3>3. Tail(r)[k - 1] = r[k]
      <4> HIDE DEF k
      <4> QED BY <1>1, <3>1
    <3>4. (s \o r)[i] = r[k]
      BY <1>1, <1>4, <2>3
    <3> QED BY <3>2, <3>3, <3>4
  <2>4. i <= Len(s) \/ i = Len(s) + 1 \/ i > Len(s) + 1
    BY <1>1
  <2> QED BY <2>1, <2>2, <2>3, <2>4
<1>7. Append(s, Head(r)) \o Tail(r) = s \o r
  <2>1. Len(t \o Tail(r)) = Len(s \o r)
    BY <1>3, <1>4, <1>5
  <2>2. \A i \in 1..Len(t \o Tail(r)) : (t \o Tail(r))[i] = (s \o r)[i]
    BY <1>4, <1>6, <2>1
  <2>3. t \o Tail(r) = s \o r
    BY <1>3, <1>4, <2>1, <2>2, SeqEqual, Zenon
  <2> QED BY <2>3 DEF t
<1> QED BY <1>7

\* Taking a file from the other objects keeps the types, and leaves an object
\* that is not lost only on another file.
LEMMA LosingType ==
  ASSUME TypeOK, NEW p \in Paths, NEW e \in Slots \union {-1}
  PROVE  /\ Losing(p, e) \in [Slots -> Opened \union {Closed}]
         /\ \A s \in Slots : /\ Losing(p, e)[s].open = openFiles[s].open
                             /\ openFiles[s].open =>
                                  /\ Losing(p, e)[s].path = openFiles[s].path
                                  /\ Losing(p, e)[s].pos = openFiles[s].pos
                                  /\ ~Losing(p, e)[s].lost =>
                                       /\ ~openFiles[s].lost
                                       /\ openFiles[s].path # p \/ s = e
<1>1. ASSUME NEW s \in Slots, openFiles[s].open
      PROVE  /\ openFiles[s] \in Opened
             /\ [openFiles[s] EXCEPT !.lost = TRUE] \in
                   Opened
             /\ [openFiles[s] EXCEPT !.lost = TRUE].path = openFiles[s].path
             /\ [openFiles[s] EXCEPT !.lost = TRUE].pos = openFiles[s].pos
             /\ [openFiles[s] EXCEPT !.lost = TRUE].lost
  <2>1. openFiles[s] \in Opened
    BY <1>1, OpenIsObject
  <2>2. ASSUME NEW o \in Opened
        PROVE  /\ [o EXCEPT !.lost = TRUE] \in Opened
               /\ [o EXCEPT !.lost = TRUE].path = o.path
               /\ [o EXCEPT !.lost = TRUE].pos = o.pos
               /\ [o EXCEPT !.lost = TRUE].lost
    BY DEF Opened
  <2> QED BY <2>1, <2>2 DEF Opened
<1>2. ASSUME NEW s \in Slots
      PROVE  /\ Losing(p, e)[s] \in Opened \union {Closed}
             /\ Losing(p, e)[s].open = openFiles[s].open
             /\ openFiles[s].open =>
                  /\ Losing(p, e)[s].path = openFiles[s].path
                  /\ Losing(p, e)[s].pos = openFiles[s].pos
                  /\ ~Losing(p, e)[s].lost =>
                       /\ ~openFiles[s].lost
                       /\ openFiles[s].path # p \/ s = e
  <2>1. CASE openFiles[s].open /\ openFiles[s].path = p /\ s # e
    <3>1. Losing(p, e)[s] = [openFiles[s] EXCEPT !.lost = TRUE]
      BY <2>1 DEF Losing
    <3>2. [openFiles[s] EXCEPT !.lost = TRUE].open = TRUE
      BY <1>1, <2>1
    <3> QED BY <1>1, <2>1, <3>1, <3>2 DEF TypeOK
  <2>2. CASE ~(openFiles[s].open /\ openFiles[s].path = p /\ s # e)
    BY <2>2 DEF Losing, TypeOK
  <2> QED BY <2>1, <2>2
<1>3. Losing(p, e) = [s \in Slots |-> Losing(p, e)[s]]
  BY DEF Losing
<1> QED BY <1>2, <1>3

\* An operation in progress is one that was started.
LEMMA StartedJob ==
  ASSUME TypeOK, job.op # "none"
  PROVE  /\ job.op # "flush" => job \in Started
         /\ job.op = "flush" => job \in Written
<1>1. job # Idle
  BY DEF Idle
<1>2. job \in Started \union Written
  BY <1>1 DEF TypeOK
<1> QED BY <1>2 DEF Started, Written

\* Objects fit their files when files only grow ...
LEMMA FitGrowing ==
  ASSUME TypeOK, NEW p \in Paths,
         openFiles' \in {openFiles} \union {Losing(p, e) : e \in Slots \union {-1}},
         \A q \in Paths : card[q] # NoFile => card'[q] # NoFile /\ Len(card[q]) <= Len(card'[q])
  PROVE  ObjectsFit'
<1> SUFFICES ASSUME NEW s \in Slots, openFiles'[s].open, ~openFiles'[s].lost
             PROVE  /\ card'[openFiles'[s].path] # NoFile
                    /\ openFiles'[s].pos <= Len(card'[openFiles'[s].path])
  BY DEF ObjectsFit
<1>1. /\ openFiles[s].open /\ ~openFiles[s].lost
      /\ openFiles'[s].path = openFiles[s].path /\ openFiles'[s].pos = openFiles[s].pos
  BY LosingType
<1>2. openFiles[s].path \in Paths /\ openFiles[s].pos \in Nat
  BY <1>1, OpenIsObject DEF Opened
<1>3. card[openFiles[s].path] # NoFile /\ openFiles[s].pos <= Len(card[openFiles[s].path])
  BY <1>1 DEF TypeOK, ObjectsFit
<1>4. card[openFiles[s].path] \in Seq(Blocks)
  BY <1>2, <1>3 DEF TypeOK, File
<1>5. Len(card[openFiles[s].path]) \in Nat
  BY <1>4
<1>6. /\ card'[openFiles[s].path] # NoFile
      /\ Len(card[openFiles[s].path]) <= Len(card'[openFiles[s].path])
  BY <1>2, <1>3
<1> HIDE DEF ObjectsFit
<1> QED BY <1>1, <1>2, <1>3, <1>5, <1>6

\* ... and when the only file that changes is taken from all of them.
LEMMA FitLosing ==
  ASSUME TypeOK, NEW p \in Paths, openFiles' = Losing(p, -1),
         \A q \in Paths \ {p} : card[q] # NoFile => card'[q] = card[q]
  PROVE  ObjectsFit'
<1> SUFFICES ASSUME NEW s \in Slots, openFiles'[s].open, ~openFiles'[s].lost
             PROVE  /\ card'[openFiles'[s].path] # NoFile
                    /\ openFiles'[s].pos <= Len(card'[openFiles'[s].path])
  BY DEF ObjectsFit
<1>1. s # -1
  BY SlotAssumption DEF Slots
<1>2. /\ openFiles[s].open /\ ~openFiles[s].lost /\ openFiles[s].path # p
      /\ openFiles'[s].path = openFiles[s].path /\ openFiles'[s].pos = openFiles[s].pos
  BY <1>1, LosingType
<1>3. openFiles[s].path \in Paths
  BY <1>2, OpenIsObject DEF Opened
<1>4. card[openFiles[s].path] # NoFile /\ openFiles[s].pos <= Len(card[openFiles[s].path])
  BY <1>2 DEF TypeOK, ObjectsFit
<1> QED BY <1>2, <1>3, <1>4

\* The names a program uses are paths on the card.
LEMMA NamesArePaths == Names \subseteq Paths
BY DEF Paths

\* SD.open(..., FILE_WRITE) makes a file where there is none.
LEMMA MadeIfMissing ==
  ASSUME TypeOK, NEW p \in Paths,
         card' = [card EXCEPT ![p] = IF @ = NoFile THEN << >> ELSE @]
  PROVE  /\ card' \in [Paths -> File]
         /\ card'[p] \in Seq(Blocks) /\ card'[p] # NoFile
         /\ \A q \in Paths : card[q] # NoFile => card'[q] = card[q]
         /\ \A q \in Paths \ {p} : card'[q] = card[q]
         /\ card[p] = NoFile => card'[p] = << >>
<1> DEFINE c == IF card[p] = NoFile THEN << >> ELSE card[p]
<1>1. c \in Seq(Blocks) /\ c # NoFile
  <2>1. << >> \in Seq(Blocks) /\ NoFile \notin Seq(Blocks)
    BY NamesAssumption
  <2>2. card[p] \in Seq(Blocks) \union {NoFile}
    BY DEF TypeOK, File
  <2> QED BY <2>1, <2>2
<1>2. card' = [card EXCEPT ![p] = c] /\ (card[p] # NoFile => c = card[p])
  OBVIOUS
<1>3. card[p] = NoFile => c = << >>
  OBVIOUS
<1> HIDE DEF c
<1> QED BY <1>1, <1>2, <1>3 DEF TypeOK, File

-----------------------------------------------------------------------------
(* The types.                                                              *)

\* At power-up every file is what it is, no File object is open.
LEMMA InitType == Init => TypeOK
<1> SUFFICES ASSUME Init PROVE TypeOK
  OBVIOUS
<1>1. card \in [Paths -> File]
  <2>1. {NoFile} \union {<<b>> : b \in Blocks} \subseteq File
    <3>1. \A b \in Blocks : <<b>> \in Seq(Blocks)
      OBVIOUS
    <3> QED BY <3>1 DEF File
  <2> QED BY <2>1 DEF Init
<1>2. openFiles \in [Slots -> Opened \union {Closed}] /\ \A s \in Slots : ~openFiles[s].open
  BY DEF Init, Closed
<1> QED BY <1>1, <1>2 DEF Init, TypeOK, ObjectsFit

\* lua_sd_open() leaves an object inside its file.
LEMMA OpenType ==
  ASSUME TypeOK, NEW p \in Names, NEW m \in {"r", "w"}, lua_sd_open(p, m)
  PROVE  TypeOK'
<1> DEFINE slot == get_free_file_slot
<1>1. slot \in Slots /\ ~openFiles[slot].open /\ p \in Paths
  BY FreeSlot, NamesArePaths DEF lua_sd_open
<1>2. /\ card' \in [Paths -> File] /\ card'[p] \in Seq(Blocks) /\ card'[p] # NoFile
      /\ \A q \in Paths : card[q] # NoFile => card'[q] = card[q]
      /\ told' \in [Paths -> File \union {Unknown}]
  <2>1. CASE m = "r"
    BY <1>1, <2>1 DEF lua_sd_open, Exists, TypeOK, File
  <2>2. CASE m = "w"
    <3> DEFINE t == IF told[p] = NoFile THEN << >> ELSE told[p]
    <3>1. t \in File \union {Unknown} /\ told' = [told EXCEPT ![p] = t]
      BY <1>1, <2>2 DEF lua_sd_open, TypeOK, File
    <3> HIDE DEF t
    <3> QED BY <1>1, <2>2, <3>1, MadeIfMissing DEF lua_sd_open, TypeOK
  <2> QED BY <2>1, <2>2
<1>3. PICK n \in Nat : n <= Len(card'[p]) /\ openFiles' = [openFiles EXCEPT ![slot] = Object(p, n)]
  <2>1. CASE m = "r"
    BY <1>1, <1>2, <2>1 DEF lua_sd_open
  <2>2. CASE m = "w"
    BY <1>1, <1>2, <2>2 DEF lua_sd_open
  <2> QED BY <2>1, <2>2
<1>4. /\ held' = [held EXCEPT ![slot] = p] /\ UNCHANGED <<job, mounted, status, failures, short>>
  BY DEF lua_sd_open
<1>5. Object(p, n) \in Opened /\ Object(p, n).path = p /\ Object(p, n).pos = n
  BY <1>1 DEF Object, Opened
<1>6. openFiles' \in [Slots -> Opened \union {Closed}]
  BY <1>3, <1>5 DEF TypeOK
<1>7. held' \in [Slots -> Paths \union {NoFile}]
  BY <1>1, <1>4 DEF TypeOK
<1>8. ASSUME NEW s \in Slots, openFiles'[s].open, ~openFiles'[s].lost
      PROVE  /\ card'[openFiles'[s].path] # NoFile
             /\ openFiles'[s].pos <= Len(card'[openFiles'[s].path])
  <2>1. CASE s = slot
    BY <1>1, <1>2, <1>3, <1>5, <2>1 DEF TypeOK
  <2>2. CASE s # slot
    <3>1. openFiles'[s] = openFiles[s]
      BY <1>3, <2>2 DEF TypeOK
    <3>2. openFiles[s].path \in Paths
      BY <1>8, <3>1, OpenIsObject DEF Opened
    <3> QED BY <1>2, <1>8, <3>1, <3>2 DEF TypeOK, ObjectsFit
  <2> QED BY <2>1, <2>2
<1> QED BY <1>2, <1>4, <1>6, <1>7, <1>8 DEF TypeOK, ObjectsFit

\* Moving the position of a File object changes nothing else of it.
LEMMA MovedObject ==
  ASSUME NEW o \in Opened, NEW n \in Nat
  PROVE  /\ [o EXCEPT !.pos = n] \in Opened /\ [o EXCEPT !.pos = n].path = o.path
         /\ [o EXCEPT !.pos = n].pos = n /\ [o EXCEPT !.pos = n].lost = o.lost
         /\ [o EXCEPT !.pos = n].open
BY DEF Opened

\* What lua_sd_write() does to a file whose object is good.
LEMMA WriteIs ==
  ASSUME TypeOK, NEW slot \in Slots, NEW b \in Blocks, lua_sd_write(slot, b),
         ~UsesLost(openFiles[slot])
  PROVE  LET o == openFiles[slot]
             p == o.path
             s == WriteAt(card[p], o.pos, b)
         IN  /\ o \in Opened /\ p \in Paths /\ o.pos \in Nat /\ o.open /\ ~o.lost
             /\ card[p] \in Seq(Blocks) /\ card[p] # NoFile /\ o.pos <= Len(card[p])
             /\ s \in Seq(Blocks) /\ s # NoFile /\ Len(card[p]) <= Len(s)
             /\ card' \in {card, [card EXCEPT ![p] = s]}
             /\ openFiles' = Losing(p, slot)
             /\ job' = [op |-> "flush", slot |-> slot, to |-> p, block |-> b,
                        all |-> IF told[p] = Unknown THEN Unknown ELSE s]
             /\ told' = [told EXCEPT ![p] = Unknown] /\ short' = short \ {p}
             /\ UNCHANGED <<mounted, status, failures, held>>
<1> DEFINE o == openFiles[slot]
           p == o.path
           s == WriteAt(card[p], o.pos, b)
<1>1. /\ o \in Opened /\ p \in Paths /\ o.pos \in Nat /\ o.open /\ ~o.lost
      /\ card[p] \in Seq(Blocks) /\ card[p] # NoFile /\ o.pos <= Len(card[p])
  <2>1. o.open /\ ~o.lost
    BY DEF lua_sd_write, UsesLost
  <2>2. o \in Opened
    BY <2>1, OpenIsObject
  <2> QED BY <2>1, <2>2 DEF Opened, TypeOK, ObjectsFit, File
<1>2. s \in Seq(Blocks) /\ s # NoFile /\ Len(card[p]) <= Len(s)
  BY <1>1, WriteAtType, NamesAssumption
<1>3. /\ card' \in {card, [card EXCEPT ![p] = s]}
      /\ openFiles' = Losing(p, slot)
      /\ job' = [op |-> "flush", slot |-> slot, to |-> p, block |-> b,
                 all |-> IF told[p] = Unknown THEN Unknown ELSE s]
      /\ told' = [told EXCEPT ![p] = Unknown] /\ short' = short \ {p}
      /\ UNCHANGED <<mounted, status, failures, held>>
  BY DEF lua_sd_write
<1> QED BY <1>1, <1>2, <1>3

\* lua_sd_write() leaves every object inside its file.
LEMMA WriteType ==
  ASSUME TypeOK, NEW slot \in Slots, NEW b \in Blocks, lua_sd_write(slot, b),
         ~UsesLost(openFiles[slot])
  PROVE  TypeOK'
<1> DEFINE o == openFiles[slot]
           p == o.path
           s == WriteAt(card[p], o.pos, b)
           a == IF told[p] = Unknown THEN Unknown ELSE s
<1>1. /\ p \in Paths /\ card[p] \in Seq(Blocks)
      /\ s \in Seq(Blocks) /\ s # NoFile /\ Len(card[p]) <= Len(s)
      /\ card' \in {card, [card EXCEPT ![p] = s]}
      /\ openFiles' = Losing(p, slot)
      /\ job' = [op |-> "flush", slot |-> slot, to |-> p, block |-> b, all |-> a]
      /\ told' = [told EXCEPT ![p] = Unknown] /\ short' = short \ {p}
      /\ UNCHANGED <<mounted, status, failures, held>>
  BY WriteIs
<1>2. a \in Seq(Blocks) \union {Unknown}
  BY <1>1
<1> HIDE DEF s, a, p
<1>3. card' \in [Paths -> File] /\ told' \in [Paths -> File \union {Unknown}]
  BY <1>1 DEF TypeOK, File
<1>4. \A q \in Paths : card[q] # NoFile => card'[q] # NoFile /\ Len(card[q]) <= Len(card'[q])
  BY <1>1 DEF TypeOK, File
<1>5. job' \in Written
  BY <1>1, <1>2 DEF Written
<1>6. openFiles' \in {openFiles} \union {Losing(p, e) : e \in Slots \union {-1}}
  BY <1>1
<1>7. ObjectsFit'
  BY <1>1, <1>4, <1>6, FitGrowing
<1>8. openFiles' \in [Slots -> Opened \union {Closed}]
  BY <1>1, LosingType
<1> QED BY <1>1, <1>3, <1>5, <1>7, <1>8 DEF TypeOK

\* What the flush at the end of lua_sd_write() finds, and what it does.
LEMMA FlushIs ==
  ASSUME TypeOK, JobTarget, JobFlushes
  PROVE  LET slot == job.slot
             o    == openFiles[slot]
             s    == WriteAt(card[job.to], o.pos, job.block)
         IN  /\ job \in Written /\ slot \in Slots /\ job.to \in Paths
             /\ o \in Opened /\ o.path = job.to /\ o.pos \in Nat /\ ~o.lost
             /\ card[job.to] \in Seq(Blocks) /\ card[job.to] # NoFile
             /\ s \in Seq(Blocks) /\ s # NoFile
             /\ o.pos + 1 <= Len(s) /\ Len(card[job.to]) <= Len(s)
             /\ card' = [card EXCEPT ![job.to] = s]
             /\ openFiles' = [openFiles EXCEPT ![slot].pos = o.pos + 1]
             /\ told' = [told EXCEPT ![job.to] = job.all]
             /\ job' = Idle /\ UNCHANGED <<mounted, status, failures, short, held>>
<1> DEFINE slot == job.slot
           o    == openFiles[slot]
           s    == WriteAt(card[job.to], o.pos, job.block)
<1>1. job.op = "flush" /\ job \in Written
  BY StartedJob DEF JobFlushes
<1>2. slot \in Slots /\ job.to \in Paths /\ job.block \in Blocks
  BY <1>1 DEF Written
<1>3. o.open /\ ~o.lost /\ o.path = job.to
  BY <1>1 DEF JobTarget
<1>4. o \in Opened /\ o.pos \in Nat
  <2>1. o \in Opened
    BY <1>2, <1>3, OpenIsObject
  <2> QED BY <2>1 DEF Opened
<1>5. card[job.to] \in Seq(Blocks) /\ card[job.to] # NoFile /\ o.pos <= Len(card[job.to])
  BY <1>2, <1>3 DEF TypeOK, ObjectsFit, File
<1>6. /\ s \in Seq(Blocks) /\ s # NoFile
      /\ o.pos + 1 <= Len(s) /\ Len(card[job.to]) <= Len(s)
  BY <1>2, <1>4, <1>5, WriteAtType, NamesAssumption
<1>7. /\ card' = [card EXCEPT ![job.to] = s]
      /\ openFiles' = [openFiles EXCEPT ![slot].pos = o.pos + 1]
      /\ told' = [told EXCEPT ![job.to] = job.all]
      /\ job' = Idle /\ UNCHANGED <<mounted, status, failures, short, held>>
  BY DEF JobFlushes
<1> QED BY <1>1, <1>2, <1>3, <1>4, <1>5, <1>6, <1>7

\* The flush leaves its object, and every other one, inside the file.
LEMMA FlushType ==
  ASSUME TypeOK, JobTarget, JobFlushes
  PROVE  TypeOK'
<1> DEFINE slot == job.slot
           o    == openFiles[slot]
           s    == WriteAt(card[job.to], o.pos, job.block)
<1>1. /\ job \in Written /\ slot \in Slots /\ job.to \in Paths
      /\ o \in Opened /\ o.path = job.to /\ o.pos \in Nat
      /\ card[job.to] \in Seq(Blocks) /\ s \in Seq(Blocks) /\ s # NoFile
      /\ o.pos + 1 <= Len(s) /\ Len(card[job.to]) <= Len(s)
      /\ card' = [card EXCEPT ![job.to] = s]
      /\ openFiles' = [openFiles EXCEPT ![slot].pos = o.pos + 1]
      /\ told' = [told EXCEPT ![job.to] = job.all]
      /\ job' = Idle /\ UNCHANGED <<mounted, status, failures, short, held>>
  BY FlushIs
<1> HIDE DEF s
<1>2. card' \in [Paths -> File] /\ card'[job.to] = s /\ \A q \in Paths \ {job.to} : card'[q] = card[q]
  BY <1>1 DEF TypeOK, File
<1>3. told' \in [Paths -> File \union {Unknown}]
  BY <1>1 DEF TypeOK, File, Written
<1>4. /\ [o EXCEPT !.pos = o.pos + 1] \in Opened /\ [o EXCEPT !.pos = o.pos + 1].path = job.to
      /\ [o EXCEPT !.pos = o.pos + 1].pos = o.pos + 1
  <2>1. o.pos + 1 \in Nat
    BY <1>1
  <2> HIDE DEF o
  <2> QED BY <1>1, <2>1, MovedObject
<1>5. /\ openFiles' \in [Slots -> Opened \union {Closed}]
      /\ openFiles'[slot] = [o EXCEPT !.pos = o.pos + 1]
      /\ \A t \in Slots \ {slot} : openFiles'[t] = openFiles[t]
  BY <1>1, <1>4 DEF TypeOK
<1>6. ASSUME NEW t \in Slots, openFiles'[t].open, ~openFiles'[t].lost
      PROVE  /\ card'[openFiles'[t].path] # NoFile
             /\ openFiles'[t].pos <= Len(card'[openFiles'[t].path])
  <2>1. CASE t = slot
    <3>1. openFiles'[t].path = job.to /\ openFiles'[t].pos = o.pos + 1
      BY <1>4, <1>5, <2>1
    <3> QED BY <1>1, <1>2, <3>1
  <2>2. CASE t # slot
    <3>1. openFiles'[t] = openFiles[t] /\ openFiles[t].open /\ ~openFiles[t].lost
      BY <1>5, <1>6, <2>2
    <3>2. openFiles[t].path \in Paths /\ openFiles[t].pos \in Nat
      BY <3>1, OpenIsObject DEF Opened
    <3>3. card[openFiles[t].path] # NoFile /\ openFiles[t].pos <= Len(card[openFiles[t].path])
      BY <3>1 DEF TypeOK, ObjectsFit
    <3>4. CASE openFiles[t].path = job.to
      <4>1. Len(card[job.to]) \in Nat /\ Len(s) \in Nat
        BY <1>1
      <4> HIDE DEF o, slot
      <4> QED BY <1>1, <1>2, <3>1, <3>2, <3>3, <3>4, <4>1
    <3>5. CASE openFiles[t].path # job.to
      BY <1>2, <3>1, <3>2, <3>3, <3>5
    <3> QED BY <3>4, <3>5
  <2> QED BY <2>1, <2>2
<1>7. ObjectsFit'
  BY <1>6 DEF ObjectsFit
<1> QED BY <1>1, <1>2, <1>3, <1>5, <1>7 DEF TypeOK

\* A step of one slot that only moves its position within the file.
LEMMA SeekType ==
  ASSUME TypeOK, NEW slot \in Slots, openFiles[slot].open, NEW n \in Nat,
         n <= Len(card[openFiles[slot].path]),
         openFiles' = [openFiles EXCEPT ![slot].pos = n],
         UNCHANGED <<card, job, mounted, status, failures, told, short, held>>
  PROVE  TypeOK'
<1> DEFINE o == openFiles[slot]
<1>1. o \in Opened
  BY OpenIsObject
<1>2. /\ [o EXCEPT !.pos = n] \in Opened /\ [o EXCEPT !.pos = n].path = o.path
      /\ [o EXCEPT !.pos = n].pos = n /\ [o EXCEPT !.pos = n].lost = o.lost
  BY <1>1, MovedObject
<1>3. /\ openFiles' \in [Slots -> Opened \union {Closed}]
      /\ openFiles'[slot] = [o EXCEPT !.pos = n]
      /\ \A s \in Slots \ {slot} : openFiles'[s] = openFiles[s]
  BY <1>2 DEF TypeOK
<1>4. ObjectsFit'
  BY <1>2, <1>3 DEF TypeOK, ObjectsFit
<1> QED BY <1>3, <1>4 DEF TypeOK

\* A new job of the program.
LEMMA JobType ==
  ASSUME NEW op \in {"create", "write"}, NEW p \in Paths, NEW r \in Seq(Blocks),
         NEW a \in Seq(Blocks)
  PROVE  [op |-> op, to |-> p, rest |-> r, all |-> a] \in Started
BY DEF Started

\* Operations that take a file from all objects.
LEMMA LosingStep ==
  ASSUME TypeOK, NEW p \in Paths, openFiles' = Losing(p, -1),
         card' \in [Paths -> File], told' \in [Paths -> File \union {Unknown}],
         \A q \in Paths \ {p} : card[q] # NoFile => card'[q] = card[q],
         job' \in Started \union Written \union {Idle}, status' \in {"ok", "undefined"},
         short' \subseteq Paths, UNCHANGED <<mounted, failures, held>>
  PROVE  TypeOK'
<1>1. openFiles' \in [Slots -> Opened \union {Closed}] /\ ObjectsFit'
  BY LosingType, FitLosing
<1> QED BY <1>1 DEF TypeOK

\* remove, rename and copy leave no object on a file that is gone.
LEMMA WholeFileType ==
  ASSUME TypeOK, NEW p \in Names,
         \/ lua_sd_remove(p)
         \/ \E q \in Names : lua_sd_rename(p, q) \/ StartCopy(p, q)
         \/ \E b \in Blocks : StartAppend(p, b)
  PROVE  TypeOK'
<1>1. p \in Paths /\ \A q \in Names : q \in Paths
  BY NamesArePaths
<1>2. CASE lua_sd_remove(p)
  <2>1. card' \in [Paths -> File] /\ told' \in [Paths -> File \union {Unknown}]
    BY <1>1, <1>2 DEF lua_sd_remove, TypeOK, File
  <2>2. \A r \in Paths \ {p} : card[r] # NoFile => card'[r] = card[r]
    BY <1>1, <1>2 DEF lua_sd_remove, TypeOK
  <2>3. openFiles' = Losing(p, -1) /\ UNCHANGED <<job, mounted, status, failures, held>>
    BY <1>2 DEF lua_sd_remove
  <2>4. job' \in Started \union Written \union {Idle} /\ status' \in {"ok", "undefined"}
    BY <2>3 DEF TypeOK
  <2>5. short' \subseteq Paths
    BY <1>1, <1>2 DEF lua_sd_remove, TypeOK
  <2> QED BY <1>1, <2>1, <2>2, <2>3, <2>4, <2>5, LosingStep
<1>3. ASSUME NEW q \in Names, lua_sd_rename(p, q) PROVE TypeOK'
  <2>1. card' \in [Paths -> File] /\ told' \in [Paths -> File \union {Unknown}]
    BY <1>1, <1>3 DEF lua_sd_rename, TypeOK, File
  <2>2. \A r \in Paths \ {p} : card[r] # NoFile => card'[r] = card[r]
    BY <1>1, <1>3 DEF lua_sd_rename, TypeOK, Exists
  <2>3. openFiles' = Losing(p, -1) /\ UNCHANGED <<job, mounted, status, failures, held>>
    BY <1>3 DEF lua_sd_rename
  <2>4. job' \in Started \union Written \union {Idle} /\ status' \in {"ok", "undefined"}
    BY <2>3 DEF TypeOK
  <2>5. short' \subseteq Paths
    BY <1>1, <1>3 DEF lua_sd_rename, TypeOK
  <2> QED BY <1>1, <2>1, <2>2, <2>3, <2>4, <2>5, LosingStep
<1>4. ASSUME NEW b \in Blocks, StartAppend(p, b) PROVE TypeOK'
  <2>1. /\ card' \in [Paths -> File] /\ card'[p] \in Seq(Blocks)
        /\ \A r \in Paths \ {p} : card'[r] = card[r]
    BY <1>1, <1>4, MadeIfMissing DEF StartAppend
  <2>2. told' \in [Paths -> File \union {Unknown}]
    BY <1>1, <1>4 DEF StartAppend, TypeOK
  <2>3. job' \in Started
    <3>1. Append(card'[p], b) \in Seq(Blocks) /\ <<b>> \in Seq(Blocks)
      BY <2>1
    <3> QED BY <1>1, <1>4, <3>1, JobType DEF StartAppend
  <2>4. openFiles' = Losing(p, -1) /\ UNCHANGED <<mounted, status, failures, held>>
    BY <1>4 DEF StartAppend
  <2>5. status' \in {"ok", "undefined"} /\ short' \subseteq Paths
    BY <1>4, <2>4 DEF StartAppend, TypeOK
  <2> QED BY <1>1, <2>1, <2>2, <2>3, <2>4, <2>5, LosingStep
<1>5. ASSUME NEW q \in Names, StartCopy(p, q) PROVE TypeOK'
  <2>1. /\ card' \in [Paths -> File]
        /\ \A r \in Paths \ {q} : card'[r] = card[r]
    BY <1>1, <1>5 DEF StartCopy, TypeOK, File
  <2>2. told' \in [Paths -> File \union {Unknown}]
    BY <1>1, <1>5 DEF StartCopy, TypeOK
  <2>3. job' \in Started \union Written \union {Idle}
    <3>1. card[p] \in Seq(Blocks)
      BY <1>1, <1>5 DEF StartCopy, Exists, TypeOK, File
    <3>2. CASE p = q
      BY <1>5, <3>2 DEF StartCopy, TypeOK
    <3>3. CASE p # q
      BY <1>1, <1>5, <3>1, <3>3, JobType DEF StartCopy
    <3> QED BY <3>2, <3>3
  <2>4. openFiles' = Losing(q, -1) /\ UNCHANGED <<mounted, failures, held>>
    BY <1>5 DEF StartCopy
  <2>5. status' \in {"ok", "undefined"} /\ short' \subseteq Paths
    BY <1>5 DEF StartCopy, TypeOK
  <2> QED BY <1>1, <2>1, <2>2, <2>3, <2>4, <2>5, LosingStep
<1> QED BY <1>2, <1>3, <1>4, <1>5

\* The editor's save leaves no object on the file it makes anew.
LEMMA SaveType ==
  ASSUME TypeOK, NEW p \in Names, NEW s \in Contents, StartSave(p, s)
  PROVE  TypeOK'
<1>1. p \in Paths /\ s \in Seq(Blocks)
  <2>1. \A x, y \in Blocks : <<x>> \in Seq(Blocks) /\ <<x, y>> \in Seq(Blocks)
    OBVIOUS
  <2>2. (\E x \in Blocks : s = <<x>>) \/ (\E x, y \in Blocks : s = <<x, y>>)
    BY DEF Contents
  <2> QED BY <2>1, <2>2, NamesArePaths
<1>2. /\ card' \in [Paths -> File] /\ told' \in [Paths -> File \union {Unknown}]
      /\ \A q \in Paths \ {p} : card'[q] = card[q]
  BY <1>1 DEF StartSave, TypeOK, File
<1>3. job' \in Started
  BY <1>1, JobType DEF StartSave
<1>4. openFiles' = Losing(p, -1) /\ status' \in {"ok", "undefined"} /\ short' \subseteq Paths
  BY DEF StartSave, TypeOK
<1> QED BY <1>1, <1>2, <1>3, <1>4, LosingStep DEF StartSave

\* A screenshot starts on a new name and takes no file away.
LEMMA PictureType ==
  ASSUME TypeOK, NEW b \in Blocks, speichere_bildschirm_als_bmp(<<b>>)
  PROVE  TypeOK'
<1>1. Pictures[FreePicture] \in Paths
  BY FreePictureIsNew DEF speichere_bildschirm_als_bmp
<1>2. <<b>> \in Seq(Blocks)
  OBVIOUS
<1>3. job' \in Started /\ told' \in [Paths -> File \union {Unknown}]
  BY <1>1, <1>2, JobType DEF speichere_bildschirm_als_bmp, TypeOK
<1> QED BY <1>3 DEF speichere_bildschirm_als_bmp, TypeOK, ObjectsFit

\* Each step of an operation in progress, its end and its failure.
LEMMA JobStepType ==
  ASSUME TypeOK, JobCreates \/ JobFails \/ JobWrites \/ JobEnds, JobTarget
  PROVE  TypeOK'
<1>1. job \in Started /\ job.to \in Paths /\ job.rest \in Seq(Blocks) /\ job.all \in Seq(Blocks)
  BY StartedJob DEF JobCreates, JobFails, JobWrites, JobEnds, Started
<1>2. CASE JobCreates
  <2>1. /\ card' \in [Paths -> File] /\ \A q \in Paths : card[q] # NoFile => card'[q] = card[q]
    BY <1>1, <1>2, MadeIfMissing DEF JobCreates
  <2>2. job' \in Started
    BY <1>1, <1>2 DEF JobCreates, Started
  <2>3. \A q \in Paths : card[q] # NoFile => card'[q] # NoFile /\ Len(card[q]) <= Len(card'[q])
    BY <2>1 DEF TypeOK, File
  <2>4. ObjectsFit'
    BY <1>1, <1>2, <2>3, FitGrowing DEF JobCreates
  <2> QED BY <1>2, <2>1, <2>2, <2>4 DEF JobCreates, TypeOK
<1>3. CASE JobFails
  BY <1>3 DEF JobFails, TypeOK, ObjectsFit
<1>4. CASE JobWrites
  <2> DEFINE c == IF Full THEN card[job.to] ELSE Append(card[job.to], Head(job.rest))
  <2>1. card[job.to] \in Seq(Blocks) /\ card[job.to] # NoFile
    BY <1>1, <1>4 DEF JobWrites, JobTarget, TypeOK, File
  <2>2. Head(job.rest) \in Blocks /\ Tail(job.rest) \in Seq(Blocks)
    BY <1>1, <1>4 DEF JobWrites
  <2>3. c \in Seq(Blocks) /\ Len(card[job.to]) <= Len(c)
    <3>1. Append(card[job.to], Head(job.rest)) \in Seq(Blocks)
          /\ Len(card[job.to]) <= Len(Append(card[job.to], Head(job.rest)))
      BY <2>1, <2>2
    <3> QED BY <2>1, <3>1
  <2>4. card' = [card EXCEPT ![job.to] = c] /\ c # NoFile
    BY <1>4, <2>3, NamesAssumption DEF JobWrites
  <2> HIDE DEF c
  <2>5. card' \in [Paths -> File]
    BY <1>1, <2>3, <2>4 DEF TypeOK, File
  <2>6. \A q \in Paths : card[q] # NoFile => card'[q] # NoFile /\ Len(card[q]) <= Len(card'[q])
    BY <1>1, <2>3, <2>4 DEF TypeOK, File
  <2>7. ObjectsFit'
    BY <1>1, <1>4, <2>6, FitGrowing DEF JobWrites
  <2>8. job' \in Started
    BY <1>1, <1>4, <2>2 DEF JobWrites, Started
  <2> QED BY <1>4, <2>5, <2>7, <2>8 DEF JobWrites, TypeOK
<1>5. CASE JobEnds
  BY <1>1, <1>5 DEF JobEnds, TypeOK, ObjectsFit, File
<1> QED BY <1>2, <1>3, <1>4, <1>5

\* seek, read, write and close of one File object.
LEMMA SlotType ==
  ASSUME TypeOK, NEW s \in Slots,
         \/ lua_sd_read(s) \/ lua_sd_close(s)
         \/ \E n \in 0..MaxFile : lua_sd_seek(s, n)
         \/ \E b \in Blocks : lua_sd_write(s, b)
  PROVE  TypeOK'
<1>1. CASE lua_sd_read(s)
  <2>1. CASE UsesLost(openFiles[s])
    BY <1>1, <2>1 DEF lua_sd_read, TypeOK, ObjectsFit
  <2>2. CASE ~UsesLost(openFiles[s])
    <3>1. /\ openFiles[s] \in Opened /\ openFiles[s].path \in Paths /\ openFiles[s].pos \in Nat
          /\ card[openFiles[s].path] \in Seq(Blocks)
      <4>1. openFiles[s] \in Opened
        BY <1>1, OpenIsObject DEF lua_sd_read
      <4> QED BY <1>1, <2>2, <4>1 DEF lua_sd_read, UsesLost, Opened, TypeOK, ObjectsFit, File
    <3>2. openFiles[s].pos + 1 \in Nat /\ openFiles[s].pos + 1 <= Len(card[openFiles[s].path])
      BY <1>1, <2>2, <3>1 DEF lua_sd_read
    <3> QED BY <1>1, <2>2, <3>2, SeekType DEF lua_sd_read
  <2> QED BY <2>1, <2>2
<1>2. CASE lua_sd_close(s)
  <2>1. /\ openFiles' \in [Slots -> Opened \union {Closed}] /\ ~Closed.open
        /\ \A t \in Slots : openFiles'[t] = IF t = s THEN Closed ELSE openFiles[t]
    BY <1>2 DEF lua_sd_close, TypeOK, Closed
  <2> QED BY <1>2, <2>1 DEF lua_sd_close, TypeOK, ObjectsFit
<1>3. ASSUME NEW n \in 0..MaxFile, lua_sd_seek(s, n) PROVE TypeOK'
  <2>1. n \in Nat
    BY CardAssumption
  <2> QED BY <1>3, <2>1, SeekType DEF lua_sd_seek
<1>4. ASSUME NEW b \in Blocks, lua_sd_write(s, b) PROVE TypeOK'
  <2>1. CASE UsesLost(openFiles[s])
    BY <1>4, <2>1 DEF lua_sd_write, TypeOK, ObjectsFit
  <2>2. CASE ~UsesLost(openFiles[s])
    BY <1>4, <2>2, WriteType
  <2> QED BY <2>1, <2>2
<1> QED BY <1>1, <1>2, <1>3, <1>4

\* lua_sd_unmount() closes all objects.
LEMMA UnmountType == TypeOK /\ lua_sd_unmount => TypeOK'
<1> SUFFICES ASSUME TypeOK, lua_sd_unmount PROVE TypeOK'
  OBVIOUS
<1>1. ASSUME NEW s \in Slots
      PROVE  /\ openFiles'[s] \in Opened \union {Closed}
             /\ openFiles'[s].open => openFiles'[s].lost
  <2>1. CASE openFiles[s].open
    <3>1. openFiles[s] \in Opened /\ openFiles'[s] = [openFiles[s] EXCEPT !.lost = TRUE]
      BY <2>1, OpenIsObject DEF lua_sd_unmount
    <3>2. \A o \in Opened : [o EXCEPT !.lost = TRUE] \in Opened /\ [o EXCEPT !.lost = TRUE].lost
      BY DEF Opened
    <3> QED BY <3>1, <3>2
  <2>2. CASE ~openFiles[s].open
    BY <2>2 DEF lua_sd_unmount, Closed
  <2> QED BY <2>1, <2>2
<1>2. openFiles' = [s \in Slots |-> openFiles'[s]]
  BY DEF lua_sd_unmount
<1> QED BY <1>1, <1>2 DEF lua_sd_unmount, TypeOK, ObjectsFit

\* Every step keeps the types.
LEMMA TypeStep == TypeOK /\ JobTarget /\ [Next]_vars => TypeOK'
<1> SUFFICES ASSUME TypeOK, JobTarget, [Next]_vars PROVE TypeOK'
  OBVIOUS
<1>1. ASSUME NEW p \in Names, NEW m \in {"r", "w"}, lua_sd_open(p, m) \/ OpenFails(p, m)
      PROVE  TypeOK'
  BY <1>1, OpenType DEF OpenFails, TypeOK, ObjectsFit, vars
<1>2. ASSUME NEW s \in Slots,
             \/ lua_sd_read(s) \/ lua_sd_close(s)
             \/ \E n \in 0..MaxFile : lua_sd_seek(s, n)
             \/ \E b \in Blocks : lua_sd_write(s, b)
      PROVE  TypeOK'
  BY <1>2, SlotType
<1>3. ASSUME NEW p \in Names,
             \/ lua_sd_remove(p)
             \/ \E q \in Names : lua_sd_rename(p, q) \/ StartCopy(p, q)
             \/ \E b \in Blocks : StartAppend(p, b)
      PROVE  TypeOK'
  BY <1>3, WholeFileType
<1>4. CASE lua_sd_unmount \/ lua_sd_mount
  BY <1>4, UnmountType DEF lua_sd_mount, TypeOK, ObjectsFit
<1>5. ASSUME NEW b \in Blocks, speichere_bildschirm_als_bmp(<<b>>) PROVE TypeOK'
  BY <1>5, PictureType
<1>6. ASSUME NEW p \in Names, NEW s \in Contents, StartSave(p, s) PROVE TypeOK'
  BY <1>6, SaveType
<1>7. CASE ProgramEnds \/ ProgramFails
  BY <1>7 DEF ProgramEnds, ProgramFails, TypeOK, ObjectsFit, vars
<1>8. CASE Job
  BY <1>8, JobStepType, FlushType DEF Job
<1>9. CASE Reset
  <2>1. openFiles' \in [Slots -> Opened \union {Closed}] /\ \A s \in Slots : ~openFiles'[s].open
    BY <1>9 DEF Reset, Closed
  <2> QED BY <1>9, <2>1 DEF Reset, TypeOK, ObjectsFit
<1>10. CASE UNCHANGED vars
  BY <1>10 DEF vars, TypeOK, ObjectsFit
<1> QED
  BY <1>1, <1>2, <1>3, <1>4, <1>5, <1>6, <1>7, <1>8, <1>9, <1>10 DEF Next, Program

-----------------------------------------------------------------------------
(* What the target of a job is, and which file a number stands for.        *)

\* Every step keeps what is known of the file an operation works on.
LEMMA TargetStep == TypeOK /\ JobTarget /\ [Next]_vars => JobTarget'
<1> SUFFICES ASSUME TypeOK, JobTarget, [Next]_vars PROVE JobTarget'
  OBVIOUS
<1>1. CASE Program /\ job' = job
  BY <1>1 DEF Program, Idle, JobTarget
<1>2. ASSUME NEW p \in Names, NEW b \in Blocks, StartAppend(p, b) PROVE JobTarget'
  <2>1. p \in Paths /\ job' = [op |-> "write", to |-> p, rest |-> <<b>>, all |-> Append(card'[p], b)]
    BY <1>2, NamesArePaths DEF StartAppend
  <2>2. card'[p] # NoFile
    BY <1>2, <2>1, MadeIfMissing DEF StartAppend
  <2>3. told'[p] = Unknown
    BY <1>2, <2>1 DEF StartAppend, TypeOK
  <2> QED BY <2>1, <2>2, <2>3 DEF JobTarget
<1>3. ASSUME NEW p \in Names, NEW q \in Names, StartCopy(p, q), job' # job PROVE JobTarget'
  <2>1. /\ q \in Paths /\ card' = [card EXCEPT ![q] = NoFile] /\ told' = [told EXCEPT ![q] = Unknown]
        /\ job' = [op |-> "create", to |-> q, rest |-> card[p], all |-> card[p]]
    BY <1>3, NamesArePaths DEF StartCopy
  <2> QED BY <2>1 DEF JobTarget, TypeOK
<1>4. ASSUME NEW p \in Names, NEW s \in Contents, StartSave(p, s) PROVE JobTarget'
  <2>1. /\ p \in Paths /\ card' = [card EXCEPT ![p] = NoFile] /\ told' = [told EXCEPT ![p] = Unknown]
        /\ job' = [op |-> "create", to |-> p, rest |-> s, all |-> s]
    BY <1>4, NamesArePaths DEF StartSave
  <2> QED BY <2>1 DEF JobTarget, TypeOK
<1>5. ASSUME NEW b \in Blocks, speichere_bildschirm_als_bmp(<<b>>) PROVE JobTarget'
  <2> DEFINE p == Pictures[FreePicture]
  <2>1. p \in Paths /\ card[p] = NoFile
    BY <1>5, FreePictureIsNew DEF speichere_bildschirm_als_bmp
  <2>2. /\ card' = card /\ told' = [told EXCEPT ![p] = Unknown]
        /\ job' = [op |-> "create", to |-> p, rest |-> <<b>>, all |-> <<b>>]
    BY <1>5 DEF speichere_bildschirm_als_bmp
  <2> HIDE DEF p
  <2> QED BY <2>1, <2>2 DEF JobTarget, TypeOK
<1>6. CASE JobCreates
  <2>1. job \in Started /\ job.to \in Paths
    BY <1>6, StartedJob DEF JobCreates, Started
  <2>2. card'[job.to] # NoFile
    BY <1>6, <2>1, MadeIfMissing DEF JobCreates
  <2>3. job'.op = "write" /\ job'.to = job.to
    BY <1>6, <2>1 DEF JobCreates, Started
  <2> QED BY <1>6, <2>2, <2>3 DEF JobCreates, JobTarget
<1>7. CASE JobFails \/ JobEnds \/ JobFlushes \/ Reset
  BY <1>7 DEF JobFails, JobEnds, JobFlushes, Reset, Idle, JobTarget
<1>8. CASE JobWrites
  <2>1. job \in Started /\ job.to \in Paths /\ job.op = "write"
    BY <1>8, StartedJob DEF JobWrites, Started
  <2>2. job'.op = "write" /\ job'.to = job.to
    BY <1>8, <2>1 DEF JobWrites, Started
  <2>3. card'[job.to] # NoFile
    <3>1. card[job.to] \in Seq(Blocks) /\ card[job.to] # NoFile
      BY <2>1 DEF JobTarget, TypeOK, File
    <3>2. Append(card[job.to], Head(job.rest)) \in Seq(Blocks)
      BY <1>8, <2>1, <3>1 DEF JobWrites, Started
    <3> QED BY <1>8, <2>1, <3>1, <3>2, NamesAssumption DEF JobWrites, TypeOK
  <2> QED BY <1>8, <2>1, <2>2, <2>3 DEF JobWrites, JobTarget
<1>9. CASE UNCHANGED vars
  BY <1>9 DEF vars, JobTarget
<1>10. ASSUME NEW p \in Names, NEW m \in {"r", "w"}, lua_sd_open(p, m) \/ OpenFails(p, m)
       PROVE  job' = job
  BY <1>10 DEF lua_sd_open, OpenFails, vars
<1>11. ASSUME NEW s \in Slots,
              \/ lua_sd_read(s) \/ lua_sd_close(s)
              \/ \E n \in 0..MaxFile : lua_sd_seek(s, n)
              \/ \E b \in Blocks : lua_sd_write(s, b) /\ UsesLost(openFiles[s])
       PROVE  job' = job
  BY <1>11 DEF lua_sd_read, lua_sd_close, lua_sd_seek, lua_sd_write
<1>12. ASSUME NEW p \in Names, lua_sd_remove(p) \/ \E q \in Names : lua_sd_rename(p, q)
       PROVE  job' = job
  BY <1>12 DEF lua_sd_remove, lua_sd_rename
<1>13. ASSUME lua_sd_unmount \/ lua_sd_mount \/ ProgramEnds \/ ProgramFails
       PROVE  job' = job
  BY <1>13 DEF lua_sd_unmount, lua_sd_mount, ProgramEnds, ProgramFails, vars
<1>14. ASSUME NEW s \in Slots, NEW b \in Blocks, lua_sd_write(s, b), ~UsesLost(openFiles[s])
       PROVE  JobTarget'
  <2> DEFINE o == openFiles[s]
             p == o.path
  <2>1. /\ p \in Paths /\ o.open /\ ~o.lost
        /\ openFiles' = Losing(p, s) /\ told' = [told EXCEPT ![p] = Unknown]
        /\ job'.op = "flush" /\ job'.slot = s /\ job'.to = p
    BY <1>14, WriteIs
  <2>2. openFiles'[s] = o
    BY <2>1 DEF Losing
  <2>3. told'[p] = Unknown
    BY <2>1 DEF TypeOK
  <2> QED BY <2>1, <2>2, <2>3 DEF JobTarget
<1> QED
  BY <1>1, <1>2, <1>3, <1>4, <1>5, <1>6, <1>7, <1>8, <1>9, <1>10, <1>11, <1>12, <1>13, <1>14
  DEF Next, Program, Job

\* Every step keeps the number a program holds for the file it opened.
LEMMA NumberStep == TypeOK /\ JobTarget /\ NumberKeepsItsFile /\ [Next]_vars => NumberKeepsItsFile'
<1> SUFFICES ASSUME TypeOK, JobTarget, NumberKeepsItsFile, [Next]_vars PROVE NumberKeepsItsFile'
  OBVIOUS
\* Whatever happens to the objects of other slots and to their positions.
<1>1. ASSUME \A s \in Slots : held'[s] = held[s] \/ held'[s] = NoFile,
             \A s \in Slots : openFiles[s].open /\ held'[s] # NoFile =>
                              openFiles'[s].open /\ openFiles'[s].path = openFiles[s].path
      PROVE  NumberKeepsItsFile'
  BY <1>1 DEF NumberKeepsItsFile
<1>2. ASSUME NEW p \in Paths, openFiles' = Losing(p, -1), held' = held
      PROVE  NumberKeepsItsFile'
  BY <1>1, <1>2, LosingType
<1>3. ASSUME openFiles' = openFiles, held' = held \/ held' = [s \in Slots |-> NoFile]
      PROVE  NumberKeepsItsFile'
  BY <1>1, <1>3 DEF TypeOK
<1>4. ASSUME NEW s \in Slots, openFiles[s].open, NEW n, held' = held,
             openFiles' = [openFiles EXCEPT ![s].pos = n]
      PROVE  NumberKeepsItsFile'
  <2>1. openFiles[s] \in Opened
    BY <1>4, OpenIsObject
  <2>2. /\ [openFiles[s] EXCEPT !.pos = n].open = openFiles[s].open
        /\ [openFiles[s] EXCEPT !.pos = n].path = openFiles[s].path
    BY <2>1 DEF Opened
  <2> QED BY <1>1, <1>4, <2>2 DEF TypeOK
<1>5. ASSUME NEW p \in Names, NEW m \in {"r", "w"}, lua_sd_open(p, m) PROVE NumberKeepsItsFile'
  <2> DEFINE slot == get_free_file_slot
  <2>1. slot \in Slots
    BY <1>5, FreeSlot DEF lua_sd_open
  <2>2. PICK n : openFiles' = [openFiles EXCEPT ![slot] = Object(p, n)]
    BY <1>5 DEF lua_sd_open
  <2>3. held' = [held EXCEPT ![slot] = p]
    BY <1>5 DEF lua_sd_open
  <2> HIDE DEF slot
  <2>4. openFiles'[slot].open /\ openFiles'[slot].path = p /\ held'[slot] = p
    BY <2>1, <2>2, <2>3 DEF TypeOK, Object
  <2>5. \A s \in Slots \ {slot} : openFiles'[s] = openFiles[s] /\ held'[s] = held[s]
    BY <2>1, <2>2, <2>3 DEF TypeOK
  <2> QED BY <2>4, <2>5 DEF NumberKeepsItsFile
<1>6. ASSUME NEW s \in Slots, lua_sd_read(s) PROVE NumberKeepsItsFile'
  BY <1>3, <1>4, <1>6 DEF lua_sd_read
<1>7. ASSUME NEW s \in Slots, lua_sd_close(s) PROVE NumberKeepsItsFile'
  BY <1>7 DEF lua_sd_close, NumberKeepsItsFile, TypeOK
<1>8. ASSUME NEW s \in Slots, NEW n \in 0..MaxFile, lua_sd_seek(s, n) PROVE NumberKeepsItsFile'
  BY <1>4, <1>8 DEF lua_sd_seek
<1>9. ASSUME NEW s \in Slots, NEW b \in Blocks, lua_sd_write(s, b) PROVE NumberKeepsItsFile'
  <2>1. CASE UsesLost(openFiles[s])
    BY <1>3, <1>9, <2>1 DEF lua_sd_write
  <2>2. CASE ~UsesLost(openFiles[s])
    <3>1. openFiles[s].path \in Paths /\ openFiles' = Losing(openFiles[s].path, s) /\ held' = held
      BY <1>9, <2>2, WriteIs
    <3>2. \A u \in Slots : openFiles[u].open => /\ openFiles'[u].open
                                               /\ openFiles'[u].path = openFiles[u].path
      BY <3>1, LosingType
    <3> QED BY <1>1, <3>1, <3>2
  <2> QED BY <2>1, <2>2
<1>10. ASSUME NEW p \in Names,
              \/ lua_sd_remove(p)
              \/ \E q \in Names : lua_sd_rename(p, q) \/ StartCopy(p, q)
              \/ \E b \in Blocks : StartAppend(p, b)
              \/ \E s \in Contents : StartSave(p, s)
       PROVE  NumberKeepsItsFile'
  BY <1>2, <1>10, NamesArePaths
  DEF lua_sd_remove, lua_sd_rename, StartCopy, StartAppend, StartSave
<1>11. CASE lua_sd_unmount
  <2>1. ASSUME NEW s \in Slots, openFiles[s].open
        PROVE  openFiles'[s].open /\ openFiles'[s].path = openFiles[s].path
    <3>1. openFiles[s] \in Opened /\ openFiles'[s] = [openFiles[s] EXCEPT !.lost = TRUE]
      BY <1>11, <2>1, OpenIsObject DEF lua_sd_unmount
    <3>2. \A o \in Opened : [o EXCEPT !.lost = TRUE].open /\ [o EXCEPT !.lost = TRUE].path = o.path
      BY DEF Opened
    <3> QED BY <3>1, <3>2
  <2> QED BY <1>1, <1>11, <2>1 DEF lua_sd_unmount
<1>12. CASE \/ lua_sd_mount \/ ProgramEnds \/ ProgramFails
            \/ JobCreates \/ JobFails \/ JobWrites \/ JobEnds \/ UNCHANGED vars
  BY <1>3, <1>12
  DEF lua_sd_mount, ProgramEnds, ProgramFails, JobCreates, JobFails, JobWrites, JobEnds, vars
<1>13. ASSUME NEW b \in Blocks, speichere_bildschirm_als_bmp(<<b>>) PROVE NumberKeepsItsFile'
  BY <1>3, <1>13 DEF speichere_bildschirm_als_bmp
<1>14. CASE Reset
  BY <1>14 DEF Reset, NumberKeepsItsFile
<1>15. ASSUME NEW p \in Names, NEW m \in {"r", "w"}, OpenFails(p, m) PROVE NumberKeepsItsFile'
  BY <1>3, <1>15 DEF OpenFails, vars
<1>16. CASE JobTarget /\ JobFlushes
  <2> HIDE DEF NumberKeepsItsFile
  <2>1. /\ job.slot \in Slots /\ openFiles[job.slot] \in Opened /\ held' = held
        /\ openFiles' = [openFiles EXCEPT ![job.slot].pos = openFiles[job.slot].pos + 1]
    BY <1>16, FlushIs
  <2>2. openFiles[job.slot].open
    BY <2>1 DEF Opened
  <2> QED BY <1>4, <2>1, <2>2
<1> QED
  BY <1>5, <1>6, <1>7, <1>8, <1>9, <1>10, <1>11, <1>12, <1>13, <1>14, <1>15, <1>16
  DEF Next, Program, Job

-----------------------------------------------------------------------------
(* What is on the card.                                                    *)

\* Each block written moves from what is still to write to what is there.
LEMMA PromiseStep ==
  TypeOK /\ JobTarget /\ JobKeepsPromise /\ [Next]_vars => JobKeepsPromise'
<1> SUFFICES ASSUME TypeOK, JobTarget, JobKeepsPromise, [Next]_vars
             PROVE  JobKeepsPromise'
  OBVIOUS
<1>1. ASSUME job'.op \notin {"write", "flush"} PROVE JobKeepsPromise'
  BY <1>1 DEF JobKeepsPromise
<1>2. CASE Program /\ job' = job
  BY <1>1, <1>2 DEF Program, Idle
<1>3. ASSUME NEW p \in Names, NEW b \in Blocks, StartAppend(p, b) PROVE JobKeepsPromise'
  <2>1. p \in Paths /\ job' = [op |-> "write", to |-> p, rest |-> <<b>>, all |-> Append(card'[p], b)]
    BY <1>3, NamesArePaths DEF StartAppend
  <2>2. card'[p] \in Seq(Blocks)
    BY <1>3, <2>1, MadeIfMissing DEF StartAppend
  <2>3. Append(card'[p], b) = card'[p] \o <<b>>
    BY <2>2, AppendIsConcat
  <2> QED BY <2>1, <2>3 DEF JobKeepsPromise
<1>4. ASSUME NEW p \in Names, NEW q \in Names, NEW s \in Contents, NEW b \in Blocks,
             \/ StartCopy(p, q) /\ job' # job
             \/ StartSave(p, s)
             \/ speichere_bildschirm_als_bmp(<<b>>)
      PROVE  job'.op \notin {"write", "flush"}
  BY <1>4 DEF StartCopy, StartSave, speichere_bildschirm_als_bmp
<1>5. CASE JobCreates
  <2>1. job \in Started /\ job.to \in Paths /\ job.op = "create" /\ job.all \in Seq(Blocks)
    BY <1>5, StartedJob DEF JobCreates, Started
  <2>2. job'.to = job.to /\ job'.rest = job.rest /\ job'.all = job.all /\ job'.op = "write"
    BY <1>5, <2>1 DEF JobCreates, Started
  <2>3. card[job.to] = NoFile /\ job.rest = job.all
    BY <2>1 DEF JobTarget
  <2>4. card'[job.to] = << >>
    BY <1>5, <2>1, <2>3, MadeIfMissing DEF JobCreates
  <2>5. << >> \o job.all = job.all
    BY <2>1, ConcatEmptySeq
  <2> QED BY <2>2, <2>3, <2>4, <2>5 DEF JobKeepsPromise
<1>6. CASE JobWrites
  <2>1. /\ job \in Started /\ job.to \in Paths /\ job.op = "write"
        /\ job.rest \in Seq(Blocks) /\ job.rest # << >>
    BY <1>6, StartedJob DEF JobWrites, Started
  <2>2. card[job.to] \in Seq(Blocks)
    BY <2>1 DEF JobTarget, TypeOK, File
  <2>3. job'.to = job.to /\ job'.rest = Tail(job.rest) /\ job'.all = job.all /\ job'.op = "write"
    BY <1>6, <2>1 DEF JobWrites, Started
  <2>4. CASE Full
    BY <1>6, <2>3, <2>4 DEF JobWrites, JobKeepsPromise
  <2>5. CASE ~Full
    <3>1. card'[job.to] = Append(card[job.to], Head(job.rest)) /\ short' = short
      BY <1>6, <2>1, <2>5 DEF JobWrites, TypeOK
    <3>2. job.to \notin short => card[job.to] \o job.rest = job.all
      BY <2>1 DEF JobKeepsPromise
    <3>3. Append(card[job.to], Head(job.rest)) \o Tail(job.rest) = card[job.to] \o job.rest
      BY <2>1, <2>2, BlockMoves
    <3> QED BY <2>3, <3>1, <3>2, <3>3 DEF JobKeepsPromise
  <2> QED BY <2>4, <2>5
<1>7. CASE JobFails \/ JobEnds \/ JobFlushes \/ Reset
  BY <1>1, <1>7 DEF JobFails, JobEnds, JobFlushes, Reset, Idle
<1>8. CASE UNCHANGED vars
  BY <1>8 DEF vars, JobKeepsPromise
<1>9. ASSUME Program
      PROVE  \/ job' = job
             \/ \E p \in Names, b \in Blocks : StartAppend(p, b)
             \/ \E p \in Names, q \in Names : StartCopy(p, q)
             \/ \E p \in Names, s \in Contents : StartSave(p, s)
             \/ \E b \in Blocks : speichere_bildschirm_als_bmp(<<b>>)
             \/ \E s \in Slots, b \in Blocks : lua_sd_write(s, b) /\ ~UsesLost(openFiles[s])
  BY <1>9
  DEF Program, lua_sd_open, OpenFails, vars, lua_sd_read, lua_sd_close, lua_sd_seek,
      lua_sd_write, lua_sd_remove, lua_sd_rename, lua_sd_unmount, lua_sd_mount,
      ProgramEnds, ProgramFails
<1>10. CASE Program
  <2>1. ASSUME NEW p \in Names, NEW q \in Names, StartCopy(p, q), job' # job PROVE job'.op \notin {"write", "flush"}
    BY <2>1 DEF StartCopy
  <2>2. ASSUME NEW p \in Names, NEW s \in Contents, StartSave(p, s) PROVE job'.op \notin {"write", "flush"}
    BY <2>2 DEF StartSave
  <2>3. ASSUME NEW b \in Blocks, speichere_bildschirm_als_bmp(<<b>>) PROVE job'.op \notin {"write", "flush"}
    BY <2>3 DEF speichere_bildschirm_als_bmp
  <2>4. ASSUME NEW s \in Slots, NEW b \in Blocks, lua_sd_write(s, b), ~UsesLost(openFiles[s])
        PROVE  JobKeepsPromise'
    <3> DEFINE o == openFiles[s]
               p == o.path
               w == WriteAt(card[p], o.pos, b)
    <3>1. /\ p \in Paths /\ o.pos \in Nat /\ card[p] \in Seq(Blocks) /\ o.pos <= Len(card[p])
          /\ card' \in {card, [card EXCEPT ![p] = w]} /\ openFiles' = Losing(p, s)
          /\ job'.op = "flush" /\ job'.slot = s /\ job'.to = p /\ job'.block = b
          /\ job'.all \in {Unknown, w}
      BY <2>4, WriteIs
    <3>2. openFiles'[s] = o
      BY <3>1 DEF Losing
    <3>3. card'[p] \in {card[p], w}
      BY <3>1 DEF TypeOK
    <3>4. WriteAt(card'[p], o.pos, b) = w
      BY <3>1, <3>3, WriteAtAgain
    <3> QED BY <3>1, <3>2, <3>4 DEF JobKeepsPromise
  <2> QED BY <1>1, <1>2, <1>3, <1>9, <1>10, <2>1, <2>2, <2>3, <2>4
<1> QED BY <1>5, <1>6, <1>7, <1>8, <1>10 DEF Next, Job

\* No step takes from the card what a program was told it wrote there, and no
\* file stops being short of blocks but with the promise about it.
LEMMA StoredStep ==
  TypeOK /\ JobTarget /\ CardInv /\ [Next]_vars => ReportedIsStored'
<1> SUFFICES ASSUME TypeOK, JobTarget, CardInv, [Next]_vars PROVE ReportedIsStored'
  OBVIOUS
<1>0. ReportedIsStored /\ JobKeepsPromise
  BY DEF CardInv
\* What happens to the file q alone, when nothing is promised about it then.
<1>1. ASSUME NEW q \in Paths, told'[q] = Unknown,
             \A r \in Paths \ {q} : card'[r] = card[r] /\ told'[r] = told[r],
             short \ {q} \subseteq short'
      PROVE  ReportedIsStored'
  BY <1>0, <1>1 DEF ReportedIsStored
<1>2. ASSUME UNCHANGED <<card, told, short>> PROVE ReportedIsStored'
  BY <1>0, <1>2 DEF ReportedIsStored
<1>3. ASSUME NEW p \in Names, NEW m \in {"r", "w"}, lua_sd_open(p, m) PROVE ReportedIsStored'
  <2>1. CASE m = "r"
    BY <1>2, <1>3, <2>1 DEF lua_sd_open
  <2>2. CASE m = "w"
    BY <1>0, <1>3, <2>2, NamesArePaths, NamesAssumption DEF lua_sd_open, TypeOK, ReportedIsStored
  <2> QED BY <2>1, <2>2
<1>4. ASSUME NEW s \in Slots,
             lua_sd_read(s) \/ lua_sd_close(s) \/ \E n \in 0..MaxFile : lua_sd_seek(s, n)
      PROVE  ReportedIsStored'
  BY <1>2, <1>4 DEF lua_sd_read, lua_sd_close, lua_sd_seek
<1>5. ASSUME NEW s \in Slots, NEW b \in Blocks, lua_sd_write(s, b) PROVE ReportedIsStored'
  <2>1. CASE UsesLost(openFiles[s])
    BY <1>2, <1>5, <2>1 DEF lua_sd_write
  <2>2. CASE ~UsesLost(openFiles[s])
    <3> DEFINE p == openFiles[s].path
               w == WriteAt(card[p], openFiles[s].pos, b)
    <3>1. /\ p \in Paths /\ card' \in {card, [card EXCEPT ![p] = w]}
          /\ told' = [told EXCEPT ![p] = Unknown] /\ short' = short \ {p}
      BY <1>5, <2>2, WriteIs
    <3> HIDE DEF p, w
    <3>2. told'[p] = Unknown /\ \A q \in Paths \ {p} : card'[q] = card[q] /\ told'[q] = told[q]
      BY <3>1 DEF TypeOK
    <3> QED BY <1>1, <3>1, <3>2
  <2> QED BY <2>1, <2>2
<1>6. ASSUME NEW p \in Names, lua_sd_remove(p) PROVE ReportedIsStored'
  BY <1>0, <1>6, NamesArePaths DEF lua_sd_remove, TypeOK, ReportedIsStored
<1>7. ASSUME NEW p \in Names, NEW q \in Names, lua_sd_rename(p, q) PROVE ReportedIsStored'
  BY <1>0, <1>7, NamesArePaths DEF lua_sd_rename, TypeOK, ReportedIsStored
<1>8. ASSUME NEW p \in Names, NEW q \in Names, StartCopy(p, q) PROVE ReportedIsStored'
  BY <1>1, <1>8, NamesArePaths DEF StartCopy, TypeOK
<1>9. ASSUME NEW p \in Names, NEW b \in Blocks, StartAppend(p, b) PROVE ReportedIsStored'
  <2>1. p \in Paths
    BY NamesArePaths
  <2>2. \A q \in Paths \ {p} : card'[q] = card[q]
    BY <1>9, <2>1, MadeIfMissing DEF StartAppend
  <2> QED BY <1>1, <1>9, <2>1, <2>2 DEF StartAppend, TypeOK
<1>10. ASSUME NEW p \in Names, NEW s \in Contents, StartSave(p, s) PROVE ReportedIsStored'
  BY <1>1, <1>10, NamesArePaths DEF StartSave, TypeOK
<1>11. ASSUME NEW b \in Blocks, speichere_bildschirm_als_bmp(<<b>>) PROVE ReportedIsStored'
  <2>1. Pictures[FreePicture] \in Paths
    BY <1>11, FreePictureIsNew DEF speichere_bildschirm_als_bmp
  <2> QED BY <1>1, <1>11, <2>1 DEF speichere_bildschirm_als_bmp, TypeOK
<1>12. CASE lua_sd_unmount \/ lua_sd_mount \/ ProgramEnds \/ ProgramFails \/ JobFails
             \/ Reset \/ UNCHANGED vars
  BY <1>2, <1>12
  DEF lua_sd_unmount, lua_sd_mount, ProgramEnds, ProgramFails, JobFails, Reset, vars
<1>13. CASE JobCreates \/ JobWrites
  <2>1. job.to \in Paths /\ told[job.to] = Unknown
    BY <1>13, StartedJob DEF JobCreates, JobWrites, Started, JobTarget
  <2> QED BY <1>1, <1>13, <2>1 DEF JobCreates, JobWrites, TypeOK
<1>14. CASE JobEnds
  <2>1. job \in Started /\ job.to \in Paths /\ job.op = "write" /\ job.rest = << >>
    BY <1>14, StartedJob DEF JobEnds, Started
  <2>2. card[job.to] \in Seq(Blocks)
    BY <2>1 DEF JobTarget, TypeOK, File
  <2>3. job.to \notin short => card[job.to] = job.all
    BY <1>0, <2>1, <2>2, ConcatEmptySeq DEF JobKeepsPromise
  <2> QED BY <1>0, <1>14, <2>1, <2>3 DEF JobEnds, TypeOK, ReportedIsStored
<1>15. ASSUME NEW p \in Names, NEW m \in {"r", "w"}, OpenFails(p, m) PROVE ReportedIsStored'
  BY <1>2, <1>15 DEF OpenFails, vars
<1>16. CASE JobFlushes
  <2> DEFINE w == WriteAt(card[job.to], openFiles[job.slot].pos, job.block)
  <2>1. /\ job.to \in Paths /\ card' = [card EXCEPT ![job.to] = w]
        /\ told' = [told EXCEPT ![job.to] = job.all] /\ job.op = "flush" /\ short' = short
    BY <1>16, FlushIs DEF JobFlushes
  <2>2. job.all # Unknown => w = job.all
    BY <1>0, <2>1 DEF JobKeepsPromise
  <2> HIDE DEF w
  <2> QED BY <1>0, <2>1, <2>2 DEF TypeOK, ReportedIsStored
<1> QED
  BY <1>3, <1>4, <1>5, <1>6, <1>7, <1>8, <1>9, <1>10, <1>11, <1>12, <1>13, <1>14, <1>15, <1>16
  DEF Next, Program, Job

-----------------------------------------------------------------------------
\* Every reachable state is well typed, an object that is not lost lies in an
\* existing file, nothing is promised about the target of the operation in
\* progress, each number a program holds stands for its file, and what is on the
\* card, with what is still to write, is what programs were told.
LEMMA Invariant == Spec => []IInv
<1>1. Init => IInv
  <2>1. Init => JobTarget /\ NumberKeepsItsFile
    BY DEF Init, JobTarget, Idle, NumberKeepsItsFile
  <2>2. Init => CardInv
    BY DEF Init, CardInv, JobKeepsPromise, Idle, ReportedIsStored
  <2> QED BY <2>1, <2>2, InitType DEF IInv
<1>2. IInv /\ [Next]_vars => IInv'
  <2>1. IInv /\ [Next]_vars => CardInv'
    BY PromiseStep, StoredStep DEF IInv, CardInv
  <2> QED BY <2>1, TypeStep, TargetStep, NumberStep DEF IInv
<1> QED BY <1>1, <1>2, PTL DEF Spec

\* Every reachable state of the File objects, of the card and of the operation
\* in progress is well typed, an object that is not lost lying in its file.
THEOREM TypeCorrect == Spec => []TypeOK
BY Invariant, PTL DEF IInv

\* The number a program got from sd.open stands for the file it opened, for
\* any number of slots and whatever became of earlier programs.
THEOREM NumberSafety == Spec => []NumberKeepsItsFile
BY Invariant, PTL DEF IInv

\* What a program was told it wrote is on the card, whatever happens in between,
\* the power and other files that fill the card included; only a file of which a
\* full card itself dropped a block has less.
THEOREM StorageSafety == Spec => []ReportedIsStored
BY Invariant, PTL DEF IInv, CardInv
===============================================================================
