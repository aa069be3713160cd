------------------------------ MODULE Keyboard -------------------------------
(***************************************************************************)
(* The keyboard of the Teensy Lua computer (src/lua/lua.ino): the one-slot *)
(* mailbox lastUsbChar, the USB callbacks OnPress and OnRelease that run   *)
(* inside myusb.Task(), the auto-repeat, and the three readers: loop(),    *)
(* inchar() (Lua's inkey, the editor) and wait_key() (Lua's waitkey, every *)
(* popup and pager).                                                       *)
(*                                                                         *)
(* There is one thread.  What interleaves is the call stack: loop() calls  *)
(* handleIncomingChar, which runs Lua, which calls inchar or wait_key,     *)
(* which call myusb.Task(), whose callback may take a screenshot, whose    *)
(* error popup calls wait_key again, which calls myusb.Task() again.  The  *)
(* stack is explicit: frames[1] is loop(), frames[depth] is running.       *)
(*                                                                         *)
(* A character is a number: the n-th character the driver made is n.  The  *)
(* empty mailbox (-1 in the code) is NoChar.  A key that makes no          *)
(* character still restarts the auto-repeat; PrintScreen is one such key   *)
(* that also empties the mailbox.                                          *)
(*                                                                         *)
(* Operators whose name ends in _bug say what the next definition would be *)
(* with a plausible mistake; nothing uses them but the mutants that show   *)
(* that the properties can fail.                                           *)
(***************************************************************************)
EXTENDS Naturals, Sequences

CONSTANTS CharKeys,     \* keys process_keyboard_logic turns into a character
          DeadKeys,     \* keys it ignores
          ShotKeys,     \* PrintScreen (keycode 70)
          NoKey,        \* lastRepeatKeycode = 0
          RepeatDelay,  \* ticks before the first repetition (300 ms)
          RepeatRate,   \* ticks between repetitions (80 ms)
          MaxMade,      \* bound: characters made in a behaviour
          MaxDepth      \* bound: nested calls

Keys == CharKeys \union DeadKeys \union ShotKeys

ASSUME KeysAssumption ==
    /\ NoKey \notin Keys
    /\ CharKeys \intersect (DeadKeys \union ShotKeys) = {}
    /\ DeadKeys \intersect ShotKeys = {}

ASSUME TimeAssumption ==
    RepeatDelay \in Nat /\ RepeatRate \in Nat /\ RepeatRate <= RepeatDelay

ASSUME BoundAssumption == MaxMade \in Nat /\ MaxDepth \in Nat /\ MaxDepth >= 1

NoChar == 0

VARIABLES
    lastUsbChar,        \* the mailbox
    lastRepeatKeycode,  \* the key that repeats, or NoKey
    repeatPhase,        \* the first repetition has happened
    repeatTimer,        \* elapsedMillis, saturated at RepeatDelay
    frames,             \* the call stack
    depth,              \* its height
    \* history
    made,               \* characters made so far
    auto,               \* those of them that auto-repeat made
    down,               \* per key: 0 when up, n+1 when down for n ticks
    shown,              \* characters handleIncomingChar was called with
    taken               \* characters wait_key and inchar returned

keyVars   == <<lastRepeatKeycode, repeatPhase, repeatTimer>>
stackVars == <<frames, depth>>
readVars  == <<shown, taken>>
vars == <<lastUsbChar, keyVars, stackVars, made, auto, down, readVars>>

Procs == {"none", "loop", "handle", "inchar", "wait"}
PCs   == {"none", "flush", "task", "repeat", "take", "run", "clear"}
Frame == [proc : Procs, pc : PCs, from : 0..MaxMade]

\* from: how many characters existed when the call began.
Call(proc, pc) == [proc |-> proc, pc |-> pc, from |-> made]
NoFrame        == [proc |-> "none", pc |-> "none", from |-> 0]

At(proc, pc) == frames[depth].proc = proc /\ frames[depth].pc = pc

GoTo(pc) == frames' = [frames EXCEPT ![depth].pc = pc] /\ UNCHANGED depth
\* The running call makes the call f and goes on at pc when f returns.
CallFrom(pc, f) ==
    /\ depth < MaxDepth
    /\ depth' = depth + 1
    /\ frames' = [frames EXCEPT ![depth].pc = pc, ![depth + 1] = f]
Return == depth' = depth - 1 /\ frames' = [frames EXCEPT ![depth] = NoFrame]

Init ==
    /\ lastUsbChar = NoChar
    /\ lastRepeatKeycode = NoKey /\ repeatPhase = FALSE /\ repeatTimer = 0
    /\ depth = 1
    /\ frames = [d \in 1..MaxDepth |->
                   IF d = 1 THEN [proc |-> "loop", pc |-> "task", from |-> 0]
                            ELSE NoFrame]
    /\ made = 0 /\ auto = {} /\ down = [k \in Keys |-> 0]
    /\ shown = << >> /\ taken = << >>

-----------------------------------------------------------------------------
(* Making characters.                                                      *)

\* process_keyboard_logic for a key that has a character: the mailbox is
\* overwritten whether or not its old content was read.
MakeChar(isRepeat) ==
    /\ made < MaxMade
    /\ made' = made + 1
    /\ lastUsbChar' = made + 1
    /\ auto' = IF isRepeat THEN auto \union {made + 1} ELSE auto

\* PrintScreen empties the mailbox and saves a screenshot, which returns, or
\* reports an error in a popup that waits for a key.
Screenshot(pc) ==
    /\ lastUsbChar' = NoChar
    /\ GoTo(pc) \/ CallFrom(pc, Call("wait", "flush"))
    /\ UNCHANGED <<made, auto>>

\* The running call goes on at pc once the key is processed.
process_keyboard_logic(k, isRepeat, pc) ==
    \/ k \in CharKeys /\ MakeChar(isRepeat) /\ GoTo(pc)
    \/ k \in DeadKeys /\ GoTo(pc) /\ UNCHANGED <<lastUsbChar, made, auto>>
    \/ k \in ShotKeys /\ Screenshot(pc)

OnPress_bug(k) ==
    /\ frames[depth].pc = "task"
    /\ down[k] = 0
    /\ down' = [down EXCEPT ![k] = 1]
    /\ lastRepeatKeycode' = lastUsbChar /\ repeatPhase' = FALSE /\ repeatTimer' = 0
    /\ process_keyboard_logic(k, FALSE, "task")
    /\ UNCHANGED readVars
\* myusb.Task() calls back for a key that went down ...
OnPress(k) ==
    /\ frames[depth].pc = "task"
    /\ down[k] = 0
    /\ down' = [down EXCEPT ![k] = 1]
    /\ lastRepeatKeycode' = k /\ repeatPhase' = FALSE /\ repeatTimer' = 0
    /\ process_keyboard_logic(k, FALSE, "task")
    /\ UNCHANGED readVars

OnRelease_bug(k) ==
    /\ frames[depth].pc = "task"
    /\ down[k] > 0
    /\ down' = [down EXCEPT ![k] = 0]
    /\ UNCHANGED <<lastUsbChar, keyVars, stackVars, made, auto, readVars>>
\* ... and for one that came up: any release stops the repetition.
OnRelease(k) ==
    /\ frames[depth].pc = "task"
    /\ down[k] > 0
    /\ down' = [down EXCEPT ![k] = 0]
    /\ lastRepeatKeycode' = NoKey
    /\ UNCHANGED <<lastUsbChar, repeatPhase, repeatTimer, stackVars,
                   made, auto, readVars>>

\* myusb.Task() returns.  wait_key goes on without handleRepeat.
TaskEnds ==
    /\ frames[depth].pc = "task"
    /\ GoTo(IF frames[depth].proc = "wait" THEN "take" ELSE "repeat")
    /\ UNCHANGED <<lastUsbChar, keyVars, made, auto, down, readVars>>

RepeatDue ==
    /\ lastRepeatKeycode # NoKey
    /\ repeatTimer >= (IF repeatPhase THEN RepeatRate ELSE RepeatDelay)

handleRepeat ==
    /\ frames[depth].pc = "repeat"
    /\ \/ /\ RepeatDue
          /\ repeatPhase' = TRUE /\ repeatTimer' = 0
          /\ process_keyboard_logic(lastRepeatKeycode, TRUE, "take")
          /\ UNCHANGED <<lastRepeatKeycode, down, readVars>>
       \/ /\ ~RepeatDue
          /\ GoTo("take")
          /\ UNCHANGED <<lastUsbChar, keyVars, made, auto, down, readVars>>

\* A millisecond passes, whatever runs.
Tick ==
    /\ repeatTimer' = IF repeatTimer < RepeatDelay THEN repeatTimer + 1
                                                   ELSE RepeatDelay
    /\ down' = [k \in Keys |->
                  IF down[k] \in 1..RepeatDelay THEN down[k] + 1 ELSE down[k]]
    /\ UNCHANGED <<lastUsbChar, lastRepeatKeycode, repeatPhase, stackVars,
                   made, auto, readVars>>

-----------------------------------------------------------------------------
(* Reading characters.                                                     *)

\* loop() hands the character to handleIncomingChar and leaves it in the
\* mailbox until that returns.
LoopShow ==
    /\ At("loop", "take")
    /\ lastUsbChar # NoChar
    /\ CallFrom("clear", Call("handle", "run"))
    /\ shown' = Append(shown, lastUsbChar)
    /\ UNCHANGED <<lastUsbChar, keyVars, made, auto, down, taken>>

LoopIdle ==
    /\ At("loop", "take")
    /\ lastUsbChar = NoChar
    /\ GoTo("task")
    /\ UNCHANGED <<lastUsbChar, keyVars, made, auto, down, readVars>>

LoopClear ==
    /\ At("loop", "clear")
    /\ lastUsbChar' = NoChar
    /\ GoTo("task")
    /\ UNCHANGED <<keyVars, made, auto, down, readVars>>

\* What handleIncomingChar, or the Lua program it runs, does with the
\* keyboard: poll it, wait for a key, empty the mailbox, or return.
CallInchar ==
    /\ At("handle", "run")
    /\ CallFrom("run", Call("inchar", "task"))
    /\ UNCHANGED <<lastUsbChar, keyVars, made, auto, down, readVars>>

CallWaitKey ==
    /\ At("handle", "run")
    /\ CallFrom("run", Call("wait", "flush"))
    /\ UNCHANGED <<lastUsbChar, keyVars, made, auto, down, readVars>>

HandlerFlush ==
    /\ At("handle", "run")
    /\ lastUsbChar' = NoChar
    /\ UNCHANGED <<keyVars, stackVars, made, auto, down, readVars>>

HandlerReturns ==
    /\ At("handle", "run")
    /\ Return
    /\ UNCHANGED <<lastUsbChar, keyVars, made, auto, down, readVars>>

inchar_bug ==
    /\ At("inchar", "take")
    /\ Return
    /\ taken' = IF lastUsbChar # NoChar THEN Append(taken, lastUsbChar) ELSE taken
    /\ UNCHANGED <<lastUsbChar, keyVars, made, auto, down, shown>>
inchar ==
    /\ At("inchar", "take")
    /\ Return
    /\ \/ /\ lastUsbChar # NoChar
          /\ taken' = Append(taken, lastUsbChar)
          /\ lastUsbChar' = NoChar
       \/ lastUsbChar = NoChar /\ UNCHANGED <<lastUsbChar, taken>>
    /\ UNCHANGED <<keyVars, made, auto, down, shown>>

WaitFlush_bug ==
    /\ At("wait", "flush")
    /\ GoTo("task")
    /\ UNCHANGED <<lastUsbChar, keyVars, made, auto, down, readVars>>
WaitFlush ==
    /\ At("wait", "flush")
    /\ lastUsbChar' = NoChar
    /\ GoTo("task")
    /\ UNCHANGED <<keyVars, made, auto, down, readVars>>

WaitAgain ==
    /\ At("wait", "take")
    /\ lastUsbChar = NoChar
    /\ GoTo("task")
    /\ UNCHANGED <<lastUsbChar, keyVars, made, auto, down, readVars>>

WaitReturns_bug ==
    /\ At("wait", "take")
    /\ lastUsbChar # NoChar
    /\ lastRepeatKeycode = NoKey
    /\ Return
    /\ taken' = Append(taken, lastUsbChar)
    /\ lastUsbChar' = NoChar
    /\ UNCHANGED <<keyVars, made, auto, down, shown>>
WaitReturns ==
    /\ At("wait", "take")
    /\ lastUsbChar # NoChar
    /\ Return
    /\ taken' = Append(taken, lastUsbChar)
    /\ lastUsbChar' = NoChar
    /\ UNCHANGED <<keyVars, made, auto, down, shown>>

-----------------------------------------------------------------------------
Loop    == LoopShow \/ LoopIdle \/ LoopClear
WaitKey == WaitFlush \/ WaitAgain \/ WaitReturns
Handler == CallInchar \/ CallWaitKey \/ HandlerFlush \/ HandlerReturns
Events  == \E k \in Keys : OnPress(k) \/ OnRelease(k)

Next == Events \/ TaskEnds \/ handleRepeat \/ Tick
        \/ Loop \/ Handler \/ inchar \/ WaitKey

Spec == Init /\ [][Next]_vars

\* The firmware keeps running: myusb.Task() returns, and no call stops half
\* way.  Nothing is assumed of the user, of time, or of the Lua program,
\* which may compute forever without looking at the keyboard.
Firmware == TaskEnds \/ handleRepeat \/ Loop \/ inchar \/ WaitKey
Fairness == WF_vars(Firmware)
FairSpec == Spec /\ Fairness

-----------------------------------------------------------------------------
TypeOK ==
    /\ lastUsbChar \in 0..MaxMade
    /\ lastRepeatKeycode \in Keys \union {NoKey}
    /\ repeatPhase \in BOOLEAN
    /\ repeatTimer \in 0..RepeatDelay
    /\ depth \in 1..MaxDepth
    /\ frames \in [1..MaxDepth -> Frame]
    /\ made \in 0..MaxMade
    /\ auto \in SUBSET (1..MaxMade)
    /\ down \in [Keys -> 0..(RepeatDelay + 1)]
    /\ shown \in Seq(1..MaxMade)
    /\ taken \in Seq(1..MaxMade)

\* Auto-repeat only ever repeats a key that has been down for the whole
\* RepeatDelay: a short tap, or a key released while a popup was waiting
\* below, never types a second character (OnPress, OnRelease, handleRepeat).
RepeatsOnlyHeldKey ==
    [][auto' # auto => /\ lastRepeatKeycode # NoKey
                       /\ down[lastRepeatKeycode] > RepeatDelay]_vars

\* wait_key only returns a key that was really pressed after the call began:
\* neither the key that started the program, nor type-ahead, nor an
\* auto-repeat can acknowledge an error popup, even when popups nest.
WaitKeyIsFresh ==
    [][(depth' < depth /\ frames[depth].proc = "wait") =>
          /\ lastUsbChar > frames[depth].from
          /\ lastUsbChar \notin auto]_vars

\* Readers get the newest character only, once each and in order: the slot
\* and the callbacks implement the stream.
Stream == INSTANCE KeyStream WITH made <- made, shown <- shown, taken <- taken
KeepsStream == Stream!StreamSpec

\* A character that a waiting wait_key finds ends that call, or opens no way
\* to lose it but PrintScreen, which empties the mailbox or waits in a popup
\* of its own: the caller of waitkey is never left hanging on a typed key.
WaitKeyAnswers ==
    \A d \in 2..MaxDepth :
        (/\ depth = d
         /\ frames[d].proc = "wait" /\ frames[d].pc # "flush"
         /\ lastUsbChar # NoChar) ~> (depth # d \/ lastUsbChar = NoChar)

-----------------------------------------------------------------------------
(* The invariant behind the proofs (KeyboardProofs).                        *)

\* The points of each procedure.
Fits(proc, pc) ==
    /\ proc = "loop"   => pc \in {"task", "repeat", "take", "clear"}
    /\ proc = "inchar" => pc \in {"task", "repeat", "take"}
    /\ proc = "wait"   => pc \in {"flush", "task", "take"}
    /\ proc = "handle" => pc = "run"

\* loop() is at the bottom and nowhere else, and whatever runs inside a
\* wait_key is another wait_key.
StackShape ==
    /\ \A d \in 1..MaxDepth :
         /\ d <= depth => frames[d].proc # "none"
         /\ frames[d].proc = "loop" <=> d = 1
         /\ Fits(frames[d].proc, frames[d].pc)
         /\ frames[d].from <= made
    /\ \A d, e \in 1..MaxDepth :
         (frames[d].proc = "wait" /\ d <= e /\ e <= depth) => frames[e].proc = "wait"

\* The mailbox holds the newest character or nothing.
SlotIsNewest == lastUsbChar \in {NoChar, made} /\ auto \subseteq 1..made

\* A key that repeats is down, and has been for as long as the timer says.
RepeatIsHeld ==
    lastRepeatKeycode # NoKey =>
        /\ down[lastRepeatKeycode] > repeatTimer
        /\ repeatPhase => down[lastRepeatKeycode] > RepeatDelay

\* What a wait_key past its flush can see was pressed after it began.
WaitSeesFresh ==
    \A d \in 1..MaxDepth :
        (d <= depth /\ frames[d].proc = "wait" /\ frames[d].pc # "flush"
            /\ lastUsbChar # NoChar) =>
                lastUsbChar > frames[d].from /\ lastUsbChar \notin auto

\* A character in the mailbox is new to the readers, except that loop() has
\* shown it while it is being handled.
SlotIsUnread ==
    /\ \A i \in 1..Len(taken) : taken[i] <= made
    /\ \A i \in 1..Len(shown) : shown[i] <= made
    /\ lastUsbChar # NoChar =>
         /\ \A i \in 1..Len(taken) : taken[i] < lastUsbChar
         /\ frames[1].pc # "clear" => \A i \in 1..Len(shown) : shown[i] < lastUsbChar

IInv == TypeOK /\ StackShape /\ SlotIsNewest /\ RepeatIsHeld
               /\ WaitSeesFresh /\ SlotIsUnread
=============================================================================
