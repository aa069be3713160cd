------------------------------- MODULE SdFiles -------------------------------
(***************************************************************************)
(* The sd module of lua.ino: the four file slots behind the numbers that   *)
(* sd.open returns, the operations on whole files, the screenshots and the *)
(* editor's F1, on a card that can fill up, be unmounted, and lose power   *)
(* between any two steps.                                                  *)
(*                                                                         *)
(* A file is a sequence of blocks.  The SD library is external: a File     *)
(* object has a position and blocks written but not yet on the card, and   *)
(* it becomes lost when its file is removed, replaced or written through   *)
(* another object, or when the card is unmounted; what happens when a lost *)
(* object is used is open, so the model stops there (status).              *)
(*                                                                         *)
(* told, short and held are history variables: what programs were told     *)
(* about the files, which files lack blocks that a full card did not take, *)
(* and which number the running program got for which file.                *)
(* Operators named ..._bug are the next definition with a plausible        *)
(* mistake; only the mutants use them.                                     *)
(***************************************************************************)
EXTENDS Integers, Sequences, FiniteSets

CONSTANTS Names,           \* the names programs use
          Pictures,        \* the names screen.bmp, screen_01.bmp, ... in order
          Blocks,          \* contents of a block
          NoFile, Unknown, \* no such file; nothing was promised about it
          MAX_OPEN_FILES,
          Capacity,        \* blocks on the card
          MaxFile,         \* bound: blocks of a file that programs write
          MaxFailures      \* bound: programs that end with an error

Paths == Names \union {Pictures[i] : i \in DOMAIN Pictures}
Slots == 0..(MAX_OPEN_FILES - 1)

ASSUME SlotAssumption  == MAX_OPEN_FILES \in Nat \ {0}
ASSUME CardAssumption  == /\ Capacity \in Nat /\ MaxFile \in Nat /\ MaxFailures \in Nat
                          /\ Pictures \in Seq(Paths)
ASSUME NamesAssumption == NoFile # Unknown /\ {NoFile, Unknown} \intersect Seq(Blocks) = {}

VARIABLES card,       \* per path: what is physically on the card
          openFiles,  \* per slot: a File object or Closed
          job,        \* the operation in progress, or Idle
          mounted, status, failures,
          told,       \* per path: the content programs were told of
          short,      \* paths whose last operation dropped a block
          held        \* per slot: the path the running program opened, or NoFile

vars == <<card, openFiles, job, mounted, status, failures, told, short, held>>

Closed  == [open |-> FALSE]
Idle    == [op |-> "none"]
Object(p, at) == [open |-> TRUE, path |-> p, pos |-> at, lost |-> FALSE]

Exists(p) == mounted /\ card[p] # NoFile

Used == LET size(p) == IF card[p] = NoFile THEN 0 ELSE Len(card[p])
            sum[S \in SUBSET Paths] ==
               IF S = {} THEN 0
               ELSE LET p == CHOOSE q \in S : TRUE IN size(p) + sum[S \ {p}]
        IN  sum[Paths]
Full == Used >= Capacity

\* s with block b at position at (0 is the first).
WriteAt(s, at, b) ==
    IF at < Len(s) THEN [s EXCEPT ![at + 1] = b] ELSE Append(s, b)

\* The slots' objects after the file p was changed by anyone but slot except.
Losing(p, except) ==
    [s \in Slots |-> IF openFiles[s].open /\ openFiles[s].path = p /\ s # except
                     THEN [openFiles[s] EXCEPT !.lost = TRUE] ELSE openFiles[s]]

\* Whether a File object in use is one of a lost file.
UsesLost(o) == o.lost \/ ~mounted

Init == /\ card \in [Paths -> {NoFile} \union {<<b>> : b \in Blocks}]
        /\ \A i \in DOMAIN Pictures : card[Pictures[i]] = NoFile
        /\ openFiles = [s \in Slots |-> Closed]
        /\ job = Idle /\ mounted = TRUE /\ status = "ok" /\ failures = 0
        /\ told = card /\ short = {}
        /\ held = [s \in Slots |-> NoFile]

-----------------------------------------------------------------------------
(* Slots.  An operation that raises a Lua error ends the program.           *)

\* -1 when all slots are taken.
get_free_file_slot ==
    LET free == {s \in Slots : ~openFiles[s].open}
    IN  IF free = {} THEN -1 ELSE CHOOSE s \in free : \A t \in free : s <= t

lua_sd_open(p, mode) ==
    LET slot == get_free_file_slot
    IN  /\ slot # -1
        /\ \/ /\ mode = "r" /\ Exists(p)
              /\ openFiles' = [openFiles EXCEPT ![slot] = Object(p, 0)]
              /\ held' = [held EXCEPT ![slot] = p]
              /\ UNCHANGED <<card, told>>
           \/ /\ mode = "w" /\ mounted              \* FILE_WRITE starts at the end
              /\ card' = [card EXCEPT ![p] = IF @ = NoFile THEN << >> ELSE @]
              /\ told' = [told EXCEPT ![p] = IF @ = NoFile THEN << >> ELSE @]
              /\ openFiles' = [openFiles EXCEPT ![slot] = Object(p, Len(card'[p]))]
              /\ held' = [held EXCEPT ![slot] = p]
    /\ UNCHANGED <<job, mounted, status, failures, short>>

\* nil is returned; the slot stays free.  FILE_WRITE may fail at any time.
OpenFails(p, mode) ==
    /\ get_free_file_slot # -1
    /\ mode = "r" => ~Exists(p)
    /\ UNCHANGED vars

lua_sd_read(slot) ==
    LET o == openFiles[slot]
    IN  /\ o.open
        /\ IF UsesLost(o) THEN status' = "undefined" /\ UNCHANGED openFiles
           ELSE /\ o.pos < Len(card[o.path])
                /\ openFiles' = [openFiles EXCEPT ![slot].pos = @ + 1]
                /\ UNCHANGED status
        /\ UNCHANGED <<card, job, mounted, failures, told, short, held>>

lua_sd_seek_bug(slot, to) ==
    /\ openFiles[slot].open /\ ~UsesLost(openFiles[slot])
    /\ to <= Len(card[openFiles[slot].path]) + 1
    /\ openFiles' = [openFiles EXCEPT ![slot].pos = to]
    /\ UNCHANGED <<card, job, mounted, status, failures, told, short, held>>
lua_sd_seek(slot, to) ==
    /\ openFiles[slot].open /\ ~UsesLost(openFiles[slot])
    /\ to <= Len(card[openFiles[slot].path])
    /\ openFiles' = [openFiles EXCEPT ![slot].pos = to]
    /\ UNCHANGED <<card, job, mounted, status, failures, told, short, held>>

lua_sd_close_bug(slot) ==
    /\ openFiles[slot].open
    /\ openFiles' = [openFiles EXCEPT ![0] = Closed]
    /\ held' = [held EXCEPT ![slot] = NoFile]
    /\ UNCHANGED <<card, job, mounted, status, failures, told, short>>
lua_sd_close(slot) ==
    /\ openFiles[slot].open
    /\ openFiles' = [openFiles EXCEPT ![slot] = Closed]
    /\ held' = [held EXCEPT ![slot] = NoFile]
    /\ UNCHANGED <<card, job, mounted, status, failures, told, short>>

\* sd.write(): the block goes to the library, which may or may not put it on
\* the card at once; only the flush makes sure (JobFlushes).  A full card writes
\* nothing, which the returned number says.
lua_sd_write(slot, b) ==
    LET o == openFiles[slot]
        s == WriteAt(card[o.path], o.pos, b)
    IN  /\ o.open /\ o.pos < MaxFile
        /\ IF UsesLost(o) THEN status' = "undefined" /\ UNCHANGED <<card, openFiles, job, told, short>>
           ELSE /\ ~(Full /\ Len(s) > Len(card[o.path]))
                /\ card' \in {card, [card EXCEPT ![o.path] = s]}
                /\ openFiles' = Losing(o.path, slot)
                /\ job' = [op |-> "flush", slot |-> slot, to |-> o.path, block |-> b,
                           all |-> IF told[o.path] = Unknown THEN Unknown ELSE s]
                /\ told' = [told EXCEPT ![o.path] = Unknown]
                /\ short' = short \ {o.path}
                /\ UNCHANGED status
        /\ UNCHANGED <<mounted, failures, held>>

\* The program ends; with an error it does so before it closes its files.
ProgramEnds ==
    /\ \A s \in Slots : held[s] = NoFile
    /\ UNCHANGED vars
ProgramFails ==
    /\ failures < MaxFailures
    /\ \E s \in Slots : held[s] # NoFile
    /\ failures' = failures + 1
    /\ held' = [s \in Slots |-> NoFile]
    /\ UNCHANGED <<card, openFiles, job, mounted, status, told, short>>

-----------------------------------------------------------------------------
(* Whole files.                                                             *)

lua_sd_remove(p) ==
    /\ Exists(p)
    /\ card' = [card EXCEPT ![p] = NoFile]
    /\ told' = [told EXCEPT ![p] = NoFile]
    /\ openFiles' = Losing(p, -1)
    /\ short' = short \ {p}
    /\ UNCHANGED <<job, mounted, status, failures, held>>

\* The library does not rename onto an existing file.
lua_sd_rename(p, q) ==
    /\ Exists(p) /\ ~Exists(q)
    /\ card' = [card EXCEPT ![p] = NoFile, ![q] = card[p]]
    /\ told' = [told EXCEPT ![p] = NoFile, ![q] = told[p]]
    /\ openFiles' = Losing(p, -1)
    /\ short' = IF p \in short THEN (short \ {p}) \union {q} ELSE short
    /\ UNCHANGED <<job, mounted, status, failures, held>>

lua_sd_unmount ==
    /\ mounted
    /\ mounted' = FALSE
    /\ openFiles' = [s \in Slots |-> IF openFiles[s].open
                                     THEN [openFiles[s] EXCEPT !.lost = TRUE] ELSE Closed]
    /\ UNCHANGED <<card, job, status, failures, told, short, held>>

lua_sd_mount ==
    /\ ~mounted
    /\ mounted' = TRUE
    /\ UNCHANGED <<card, openFiles, job, status, failures, told, short, held>>

-----------------------------------------------------------------------------
(* Operations of several steps, between which the power can fail: append,  *)
(* copy, a screenshot, F1 of the editor.  rest is what is still to write,   *)
(* all what the program is told it wrote; both are contents of the caller. *)

\* sd.append creates the file if need be.
StartAppend(p, b) ==
    /\ mounted
    /\ (IF card[p] = NoFile THEN 0 ELSE Len(card[p])) < MaxFile
    /\ card' = [card EXCEPT ![p] = IF @ = NoFile THEN << >> ELSE @]
    /\ openFiles' = Losing(p, -1)
    /\ job' = [op |-> "write", to |-> p, rest |-> <<b>>, all |-> Append(card'[p], b)]
    /\ told' = [told EXCEPT ![p] = Unknown]
    /\ short' = short \ {p}
    /\ UNCHANGED <<mounted, status, failures, held>>

\* The source is opened, then the target removed; when they are the same file
\* the source is read after it was removed.
StartCopy(p, q) ==
    /\ Exists(p)
    /\ card' = [card EXCEPT ![q] = NoFile]
    /\ openFiles' = Losing(q, -1)
    /\ told' = [told EXCEPT ![q] = Unknown]
    /\ short' = short \ {q}
    /\ IF p = q THEN status' = "undefined" /\ UNCHANGED job
       ELSE /\ job' = [op |-> "create", to |-> q, rest |-> card[p], all |-> card[p]]
            /\ UNCHANGED status
    /\ UNCHANGED <<mounted, failures, held>>

\* F1: the file is removed and then written anew.
StartSave(p, s) ==
    /\ mounted
    /\ card' = [card EXCEPT ![p] = NoFile]
    /\ openFiles' = Losing(p, -1)
    /\ job' = [op |-> "create", to |-> p, rest |-> s, all |-> s]
    /\ told' = [told EXCEPT ![p] = Unknown]
    /\ short' = short \ {p}
    /\ UNCHANGED <<mounted, status, failures, held>>

FreePicture_bug == 1
\* The first picture that does not exist, or 0.
FreePicture ==
    LET free == {i \in DOMAIN Pictures : ~Exists(Pictures[i])}
    IN  IF free = {} THEN 0 ELSE CHOOSE i \in free : \A j \in free : i <= j

speichere_bildschirm_als_bmp(s) ==
    /\ mounted /\ FreePicture # 0
    /\ LET p == Pictures[FreePicture]
       IN  /\ job' = [op |-> "create", to |-> p, rest |-> s, all |-> s]
           /\ told' = [told EXCEPT ![p] = Unknown]
           /\ short' = short \ {p}
    /\ UNCHANGED <<card, openFiles, mounted, status, failures, held>>

\* SD.open(..., FILE_WRITE) succeeds, with a new file or at the end of one ...
JobCreates ==
    /\ job.op = "create"
    /\ card' = [card EXCEPT ![job.to] = IF @ = NoFile THEN << >> ELSE @]
    /\ job' = [job EXCEPT !.op = "write"]
    /\ UNCHANGED <<openFiles, mounted, status, failures, told, short, held>>
\* ... or fails: false is returned (the editor just closes).
JobFails ==
    /\ job.op = "create"
    /\ job' = Idle
    /\ UNCHANGED <<card, openFiles, mounted, status, failures, told, short, held>>

\* A block is written; on a full card it is not, which nothing looks at.
JobWrites ==
    /\ job.op = "write" /\ job.rest # << >>
    /\ card' = [card EXCEPT ![job.to] = IF Full THEN @ ELSE Append(@, Head(job.rest))]
    /\ job' = [job EXCEPT !.rest = Tail(@)]
    /\ short' = IF Full THEN short \union {job.to} ELSE short
    /\ UNCHANGED <<openFiles, mounted, status, failures, told, held>>

\* close, and success is reported.
JobEnds ==
    /\ job.op = "write" /\ job.rest = << >>
    /\ job' = Idle
    /\ told' = [told EXCEPT ![job.to] = job.all]
    /\ UNCHANGED <<card, openFiles, mounted, status, failures, short, held>>

JobFlushes_bug ==
    /\ job.op = "flush"
    /\ job' = Idle
    /\ openFiles' = [openFiles EXCEPT ![job.slot].pos = @ + 1]
    /\ told' = [told EXCEPT ![job.to] = job.all]
    /\ UNCHANGED <<card, mounted, status, failures, short, held>>
\* sd.write() ends: the block is on the card before the program hears of it.
JobFlushes ==
    /\ job.op = "flush"
    /\ job' = Idle
    /\ LET at == openFiles[job.slot].pos
       IN  /\ card' = [card EXCEPT ![job.to] = WriteAt(@, at, job.block)]
           /\ openFiles' = [openFiles EXCEPT ![job.slot].pos = at + 1]
    /\ told' = [told EXCEPT ![job.to] = job.all]
    /\ UNCHANGED <<mounted, status, failures, short, held>>

\* Power off and on, at any time, also between two steps of a job.
Reset == /\ openFiles' = [s \in Slots |-> Closed]
         /\ held' = [s \in Slots |-> NoFile]
         /\ job' = Idle /\ mounted' = TRUE
         /\ UNCHANGED <<card, status, failures, told, short>>

Job == JobCreates \/ JobFails \/ JobWrites \/ JobEnds \/ JobFlushes

Contents == {<<b>> : b \in Blocks} \union {<<b, c>> : b, c \in Blocks}

Program ==
    /\ job = Idle
    /\ \/ \E p \in Names, m \in {"r", "w"} : lua_sd_open(p, m) \/ OpenFails(p, m)
       \/ \E s \in Slots : /\ held[s] # NoFile
                           /\ \/ lua_sd_read(s) \/ lua_sd_close(s)
                              \/ \E n \in 0..MaxFile : lua_sd_seek(s, n)
                              \/ \E b \in Blocks : lua_sd_write(s, b)
       \/ \E p \in Names : \/ lua_sd_remove(p)
                           \/ \E q \in Names : lua_sd_rename(p, q) \/ StartCopy(p, q)
                           \/ \E b \in Blocks : StartAppend(p, b)
       \/ lua_sd_unmount \/ lua_sd_mount
       \/ \E b \in Blocks : speichere_bildschirm_als_bmp(<<b>>)
       \/ \E p \in Names, s \in Contents : StartSave(p, s)
       \/ ProgramEnds \/ ProgramFails

Next == status = "ok" /\ (Program \/ Job \/ Reset)

Spec == Init /\ [][Next]_vars

-----------------------------------------------------------------------------
File     == Seq(Blocks) \union {NoFile}
Opened   == [open : {TRUE}, path : Paths, pos : Nat, lost : BOOLEAN]
Started  == [op : {"create", "write"}, to : Paths, rest : Seq(Blocks), all : Seq(Blocks)]
Written  == [op : {"flush"}, slot : Slots, to : Paths, block : Blocks,
             all : Seq(Blocks) \union {Unknown}]

\* A File object that is not lost is one of a file, and inside it.
ObjectsFit ==
    \A s \in Slots : openFiles[s].open /\ ~openFiles[s].lost =>
        /\ card[openFiles[s].path] # NoFile
        /\ openFiles[s].pos <= Len(card[openFiles[s].path])

TypeOK ==
    /\ card \in [Paths -> File]
    /\ openFiles \in [Slots -> Opened \union {Closed}]
    /\ ObjectsFit
    /\ job \in Started \union Written \union {Idle}
    /\ mounted \in BOOLEAN /\ status \in {"ok", "undefined"} /\ failures \in Nat
    /\ told \in [Paths -> File \union {Unknown}] /\ short \subseteq Paths
    /\ held \in [Slots -> Paths \union {NoFile}]

\* What a program was told it wrote is on the card, whatever is removed,
\* copied, appended or photographed later, and also when the power fails
\* between any two steps: only the target of the interrupted operation may be
\* different from what was promised, and a file of which a full card dropped a
\* block, which append, copy, screenshots and F1 do not look at.
ReportedIsStored ==
    \A p \in Paths : told[p] # Unknown /\ p \notin short => card[p] = told[p]

\* Nothing is promised about the target of an operation of several steps: a
\* file to be created is not there, one to be written is; a block to be flushed
\* was written through an object that is still good.
JobTarget ==
    job.op # "none" => /\ told[job.to] = Unknown
                       /\ job.op = "create" => card[job.to] = NoFile /\ job.rest = job.all
                       /\ job.op = "write"  => card[job.to] # NoFile
                       /\ job.op = "flush"  => LET o == openFiles[job.slot] IN
                                                 o.open /\ ~o.lost /\ o.path = job.to

\* While no block is dropped, what is on the card and what is still to write
\* make up what the program will be told it wrote.
JobKeepsPromise ==
    /\ job.op = "write" /\ job.to \notin short => card[job.to] \o job.rest = job.all
    /\ job.op = "flush" /\ job.all # Unknown =>
          WriteAt(card[job.to], openFiles[job.slot].pos, job.block) = job.all

\* The number a program got from sd.open stands for the file it opened until
\* the program closes it, however many files it opens and closes and whatever
\* earlier programs left open.  That holds because nothing but the program frees
\* a slot, sd.unmount() not either (see UnmountClosesFiles).
NumberKeepsItsFile ==
    \A s \in Slots : held[s] # NoFile => openFiles[s].open /\ openFiles[s].path = held[s]

\* What the first comment in lua_sd_unmount (lua.ino:2575) says it does: it closes
\* all open files.  SD.sdfs.end() knows nothing of the slots.
UnmountClosesFiles == ~mounted => \A s \in Slots : ~openFiles[s].open

\* The inductive invariant.
CardInv == JobKeepsPromise /\ ReportedIsStored
IInv    == TypeOK /\ JobTarget /\ NumberKeepsItsFile /\ CardInv
=============================================================================
