--------------------------- MODULE KeyboardProofs ----------------------------
(***************************************************************************)
(* Theorems about the keyboard, for every set of keys, every timing and    *)
(* every bound.  IInv of module Keyboard is inductive; each of its parts   *)
(* has a lemma of its own, and the properties follow from it.              *)
(***************************************************************************)
EXTENDS Keyboard, TLAPS

(* What a step does to the call stack, by the three ways the actions have. *)

LEMMA GoToType ==
  ASSUME TypeOK, NEW pc \in PCs, GoTo(pc)
  PROVE  depth' \in 1..MaxDepth /\ frames' \in [1..MaxDepth -> Frame]
BY DEF TypeOK, GoTo, Frame

LEMMA CallFromType ==
  ASSUME TypeOK, NEW pc \in PCs, NEW f \in Frame, CallFrom(pc, f)
  PROVE  depth' \in 1..MaxDepth /\ frames' \in [1..MaxDepth -> Frame]
<1> DEFINE fr == [frames EXCEPT ![depth].pc = pc]
<1>1. fr \in [1..MaxDepth -> Frame]
  BY DEF TypeOK, Frame
<1>2. depth + 1 \in 1..MaxDepth /\ depth' = depth + 1
  BY BoundAssumption DEF TypeOK, CallFrom
<1>3. frames' = [fr EXCEPT ![depth + 1] = f]
  BY DEF CallFrom
<1> HIDE DEF fr
<1> QED BY <1>1, <1>2, <1>3

LEMMA ReturnType ==
  ASSUME TypeOK, depth > 1, Return
  PROVE  depth' \in 1..MaxDepth /\ frames' \in [1..MaxDepth -> Frame]
BY BoundAssumption DEF TypeOK, Return, Frame, NoFrame, Procs, PCs

\* A call that did not begin in loop() has something to return to.
LEMMA CalledFrom ==
  ASSUME TypeOK, StackShape, frames[depth].proc # "loop"
  PROVE  depth > 1
BY BoundAssumption DEF TypeOK, StackShape

LEMMA CallType ==
  ASSUME TypeOK, NEW p \in Procs, NEW pc \in PCs
  PROVE  Call(p, pc) \in Frame
BY DEF TypeOK, Call, Frame

\* process_keyboard_logic keeps the types, whichever kind of key it gets.
LEMMA ProcessType ==
  ASSUME TypeOK, NEW k \in Keys, NEW r \in BOOLEAN, NEW pc \in PCs,
         process_keyboard_logic(k, r, pc)
  PROVE  /\ lastUsbChar' \in 0..MaxMade
         /\ made' \in 0..MaxMade
         /\ auto' \in SUBSET (1..MaxMade)
         /\ depth' \in 1..MaxDepth /\ frames' \in [1..MaxDepth -> Frame]
<1>1. CASE k \in CharKeys /\ MakeChar(r) /\ GoTo(pc)
  <2>1. depth' \in 1..MaxDepth /\ frames' \in [1..MaxDepth -> Frame]
    BY <1>1, GoToType
  <2> QED BY <1>1, <2>1, BoundAssumption DEF TypeOK, MakeChar
<1>2. CASE k \in DeadKeys /\ GoTo(pc) /\ UNCHANGED <<lastUsbChar, made, auto>>
  <2>1. depth' \in 1..MaxDepth /\ frames' \in [1..MaxDepth -> Frame]
    BY <1>2, GoToType
  <2> QED BY <1>2, <2>1 DEF TypeOK
<1>3. CASE k \in ShotKeys /\ Screenshot(pc)
  <2>1. depth' \in 1..MaxDepth /\ frames' \in [1..MaxDepth -> Frame]
    <3>1. CASE GoTo(pc)
      BY <3>1, GoToType
    <3>2. CASE CallFrom(pc, Call("wait", "flush"))
      <4>1. Call("wait", "flush") \in Frame
        BY CallType DEF Procs, PCs
      <4> QED BY <3>2, <4>1, CallFromType
    <3> QED BY <1>3, <3>1, <3>2 DEF Screenshot
  <2> QED BY <1>3, <2>1, BoundAssumption DEF TypeOK, Screenshot, NoChar
<1> QED BY <1>1, <1>2, <1>3 DEF process_keyboard_logic

-----------------------------------------------------------------------------
LEMMA InitIInv == Init => IInv
<1> SUFFICES ASSUME Init PROVE IInv
  OBVIOUS
<1> USE BoundAssumption, TimeAssumption, KeysAssumption DEF Init, NoFrame, NoChar
<1>1. TypeOK
  <2>1. frames \in [1..MaxDepth -> Frame]
    BY DEF Frame, Procs, PCs
  <2>2. shown \in Seq(1..MaxMade) /\ taken \in Seq(1..MaxMade)
    OBVIOUS
  <2>3. repeatPhase \in BOOLEAN
    OBVIOUS
  <2>7. repeatTimer \in 0..RepeatDelay
    OBVIOUS
  <2>4. down \in [Keys -> 0..(RepeatDelay + 1)]
    OBVIOUS
  <2>5. lastUsbChar \in 0..MaxMade /\ made \in 0..MaxMade /\ auto \in SUBSET (1..MaxMade)
    OBVIOUS
  <2>6. lastRepeatKeycode \in Keys \union {NoKey} /\ depth \in 1..MaxDepth
    OBVIOUS
  <2> QED BY <2>1, <2>2, <2>3, <2>4, <2>5, <2>6, <2>7 DEF TypeOK
<1>2. StackShape
  BY DEF StackShape, Fits
<1>3. SlotIsNewest /\ RepeatIsHeld /\ WaitSeesFresh /\ SlotIsUnread
  BY DEF SlotIsNewest, RepeatIsHeld, WaitSeesFresh, SlotIsUnread
<1> QED BY <1>1, <1>2, <1>3 DEF IInv

LEMMA TypeStep == IInv /\ [Next]_vars => TypeOK'
<1> SUFFICES ASSUME TypeOK, StackShape, SlotIsNewest, [Next]_vars PROVE TypeOK'
  BY DEF IInv
<1> USE BoundAssumption, TimeAssumption
<1>1. ASSUME NEW k \in Keys, OnPress(k) PROVE TypeOK'
  <2>1. process_keyboard_logic(k, FALSE, "task")
    BY <1>1 DEF OnPress
  <2>2. /\ lastUsbChar' \in 0..MaxMade /\ made' \in 0..MaxMade
        /\ auto' \in SUBSET (1..MaxMade)
        /\ depth' \in 1..MaxDepth /\ frames' \in [1..MaxDepth -> Frame]
    BY <2>1, ProcessType DEF PCs
  <2>3. down' \in [Keys -> 0..(RepeatDelay + 1)]
    BY <1>1 DEF TypeOK, OnPress
  <2>4. repeatPhase' \in BOOLEAN
    BY <1>1 DEF OnPress
  <2>7. repeatTimer' \in 0..RepeatDelay
    BY <1>1 DEF OnPress
  <2>5. lastRepeatKeycode' \in Keys \union {NoKey}
    BY <1>1 DEF OnPress
  <2>6. shown' \in Seq(1..MaxMade) /\ taken' \in Seq(1..MaxMade)
    BY <1>1 DEF TypeOK, OnPress, readVars
  <2> QED BY <2>2, <2>3, <2>4, <2>5, <2>6, <2>7 DEF TypeOK
<1>2. ASSUME NEW k \in Keys, OnRelease(k) PROVE TypeOK'
  BY <1>2 DEF TypeOK, OnRelease, stackVars, readVars
<1>3. CASE TaskEnds
  <2>1. depth' \in 1..MaxDepth /\ frames' \in [1..MaxDepth -> Frame]
    BY <1>3, GoToType DEF TaskEnds, PCs
  <2> QED BY <1>3, <2>1 DEF TypeOK, TaskEnds, keyVars, readVars
<1>4. CASE handleRepeat
  <2>1. CASE RepeatDue
    <3>1. /\ process_keyboard_logic(lastRepeatKeycode, TRUE, "take")
          /\ lastRepeatKeycode \in Keys
      BY <1>4, <2>1 DEF handleRepeat, RepeatDue, TypeOK
    <3>2. /\ lastUsbChar' \in 0..MaxMade /\ made' \in 0..MaxMade
          /\ auto' \in SUBSET (1..MaxMade)
          /\ depth' \in 1..MaxDepth /\ frames' \in [1..MaxDepth -> Frame]
      BY <3>1, ProcessType DEF PCs
    <3> QED BY <1>4, <2>1, <3>2 DEF TypeOK, handleRepeat, readVars
  <2>2. CASE ~RepeatDue
    <3>1. depth' \in 1..MaxDepth /\ frames' \in [1..MaxDepth -> Frame]
      BY <1>4, <2>2, GoToType DEF handleRepeat, PCs
    <3> QED BY <1>4, <2>2, <3>1 DEF TypeOK, handleRepeat, keyVars, readVars
  <2> QED BY <2>1, <2>2
<1>5. CASE Tick
  BY <1>5 DEF TypeOK, Tick, stackVars, readVars
<1>6. CASE LoopShow
  <2>1. Call("handle", "run") \in Frame
    BY CallType DEF Procs, PCs
  <2>2. depth' \in 1..MaxDepth /\ frames' \in [1..MaxDepth -> Frame]
    BY <1>6, <2>1, CallFromType DEF LoopShow, PCs
  <2>3. shown' \in Seq(1..MaxMade)
    BY <1>6 DEF LoopShow, TypeOK, NoChar
  <2> QED BY <1>6, <2>2, <2>3 DEF TypeOK, LoopShow, keyVars
<1>7. CASE LoopIdle \/ LoopClear \/ WaitFlush \/ WaitAgain
  <2>1. depth' \in 1..MaxDepth /\ frames' \in [1..MaxDepth -> Frame]
    BY <1>7, GoToType DEF LoopIdle, LoopClear, WaitFlush, WaitAgain, PCs
  <2>2. lastUsbChar' \in 0..MaxMade
    BY <1>7 DEF TypeOK, LoopIdle, LoopClear, WaitFlush, WaitAgain, NoChar
  <2> QED BY <1>7, <2>1, <2>2
          DEF TypeOK, LoopIdle, LoopClear, WaitFlush, WaitAgain, keyVars, readVars
<1>8. CASE CallInchar \/ CallWaitKey
  <2>1. Call("inchar", "task") \in Frame /\ Call("wait", "flush") \in Frame
    BY CallType DEF Procs, PCs
  <2>2. depth' \in 1..MaxDepth /\ frames' \in [1..MaxDepth -> Frame]
    BY <1>8, <2>1, CallFromType DEF CallInchar, CallWaitKey, PCs
  <2> QED BY <1>8, <2>2 DEF TypeOK, CallInchar, CallWaitKey, keyVars, readVars
<1>9. CASE HandlerFlush
  BY <1>9 DEF TypeOK, HandlerFlush, keyVars, stackVars, readVars, NoChar
<1>10. CASE HandlerReturns \/ inchar \/ WaitReturns
  <2>1. depth > 1 /\ Return
    BY <1>10, CalledFrom DEF HandlerReturns, inchar, WaitReturns, At
  <2>2. depth' \in 1..MaxDepth /\ frames' \in [1..MaxDepth -> Frame]
    BY <2>1, ReturnType
  <2>3. lastUsbChar' \in 0..MaxMade
    BY <1>10 DEF HandlerReturns, inchar, WaitReturns, TypeOK, NoChar
  <2>4. CASE taken' = taken
    BY <1>10, <2>2, <2>3, <2>4
    DEF TypeOK, HandlerReturns, inchar, WaitReturns, keyVars, readVars
  <2>5. CASE lastUsbChar # NoChar /\ taken' = Append(taken, lastUsbChar)
    <3>1. taken' \in Seq(1..MaxMade)
      <4>1. lastUsbChar \in 1..MaxMade /\ taken \in Seq(1..MaxMade)
        BY <2>5 DEF TypeOK, NoChar
      <4> QED BY <2>5, <4>1
    <3> QED BY <1>10, <2>2, <2>3, <3>1
            DEF TypeOK, HandlerReturns, inchar, WaitReturns, keyVars, readVars
  <2> QED BY <1>10, <2>4, <2>5 DEF HandlerReturns, inchar, WaitReturns, readVars
<1>11. CASE UNCHANGED vars
  BY <1>11 DEF TypeOK, vars, keyVars, stackVars, readVars
<1> QED
  BY <1>1, <1>2, <1>3, <1>4, <1>5, <1>6, <1>7, <1>8, <1>9, <1>10, <1>11
  DEF Next, Events, Loop, Handler, WaitKey
-----------------------------------------------------------------------------
(* The shape of the call stack.                                            *)

LEMMA GoToShape ==
  ASSUME TypeOK, StackShape, NEW pc \in PCs, GoTo(pc),
         Fits(frames[depth].proc, pc), made' \in Nat, made <= made'
  PROVE  StackShape'
BY SMTT(30), BoundAssumption DEF TypeOK, StackShape, GoTo, Frame, Fits

LEMMA CallShape ==
  ASSUME TypeOK, StackShape, NEW pc \in PCs, NEW f \in Frame, CallFrom(pc, f),
         Fits(frames[depth].proc, pc), Fits(f.proc, f.pc),
         f.proc \notin {"none", "loop"}, f.from <= made,
         frames[depth].proc = "wait" => f.proc = "wait",
         made' = made
  PROVE  StackShape'
<1> DEFINE fr == [frames EXCEPT ![depth].pc = pc]
<1>1. /\ depth \in 1..MaxDepth /\ depth + 1 \in 1..MaxDepth /\ depth' = depth + 1
      /\ frames' = [fr EXCEPT ![depth + 1] = f]
  BY BoundAssumption DEF TypeOK, CallFrom
<1>2. \A d \in 1..MaxDepth :
         /\ fr[d].proc = frames[d].proc
         /\ fr[d].from = frames[d].from
         /\ d # depth => fr[d].pc = frames[d].pc
         /\ d = depth => fr[d].pc = pc
  BY DEF TypeOK, Frame
<1>3. DOMAIN fr = 1..MaxDepth
  BY DEF TypeOK
<1> HIDE DEF fr
<1>4. /\ \A d \in 1..MaxDepth : d # depth + 1 => frames'[d] = fr[d]
      /\ frames'[depth + 1] = f
  BY <1>1, <1>3
<1>5. ASSUME NEW d \in 1..MaxDepth
      PROVE  /\ d <= depth' => frames'[d].proc # "none"
             /\ frames'[d].proc = "loop" <=> d = 1
             /\ Fits(frames'[d].proc, frames'[d].pc)
             /\ frames'[d].from <= made'
  <2>1. CASE d = depth + 1
    BY <1>1, <1>4, <2>1
  <2>2. CASE d # depth + 1
    <3>1. frames'[d] = fr[d] /\ (d <= depth' => d <= depth)
      BY <1>1, <1>4, <2>2
    <3>2. Fits(frames'[d].proc, frames'[d].pc)
      BY <1>2, <3>1 DEF StackShape
    <3> QED BY <1>2, <3>1, <3>2 DEF StackShape
  <2> QED BY <2>1, <2>2
<1>6. ASSUME NEW d \in 1..MaxDepth, NEW e \in 1..MaxDepth,
             frames'[d].proc = "wait", d <= e, e <= depth'
      PROVE  frames'[e].proc = "wait"
  <2>1. CASE d = depth + 1
    BY <1>1, <1>4, <1>6, <2>1
  <2>2. CASE d # depth + 1
    <3>1. frames[d].proc = "wait" /\ d <= depth
      BY <1>1, <1>2, <1>4, <1>6, <2>2
    <3>2. frames[depth].proc = "wait"
      BY <1>1, <3>1 DEF StackShape
    <3>3. CASE e = depth + 1
      BY <1>4, <3>2, <3>3
    <3>4. CASE e # depth + 1
      <4>1. e <= depth /\ frames'[e].proc = frames[e].proc
        BY <1>1, <1>2, <1>4, <1>6, <3>4
      <4> QED BY <1>6, <3>1, <4>1 DEF StackShape
    <3> QED BY <3>3, <3>4
  <2> QED BY <2>1, <2>2
<1> QED BY <1>5, <1>6 DEF StackShape

LEMMA ReturnShape ==
  ASSUME TypeOK, StackShape, depth > 1, Return, made' = made
  PROVE  StackShape'
BY BoundAssumption DEF TypeOK, StackShape, Return, Frame, Fits, NoFrame

LEMMA ShapeStep == IInv /\ [Next]_vars => StackShape'
<1> SUFFICES ASSUME TypeOK, StackShape, [Next]_vars PROVE StackShape'
  BY DEF IInv
<1>0. /\ Fits(frames[depth].proc, frames[depth].pc)
      /\ frames[depth].proc \in Procs /\ frames[depth].pc \in PCs
      /\ frames[depth].proc # "none"
      /\ made \in Nat /\ depth \in 1..MaxDepth
  BY BoundAssumption DEF TypeOK, StackShape, Frame
<1>a. Call("wait", "flush") \in Frame /\ Call("inchar", "task") \in Frame
      /\ Call("handle", "run") \in Frame
  BY CallType DEF Procs, PCs
<1>b. ASSUME NEW k \in Keys, NEW r \in BOOLEAN, NEW pc \in PCs,
             Fits(frames[depth].proc, pc), process_keyboard_logic(k, r, pc)
      PROVE  StackShape'
  <2>1. CASE GoTo(pc) /\ made' \in {made, made + 1}
    BY <1>0, <1>b, <2>1, GoToShape
  <2>2. CASE CallFrom(pc, Call("wait", "flush")) /\ made' = made
    BY <1>0, <1>a, <1>b, <2>2, CallShape DEF Call, Fits
  <2> QED BY <1>b, <2>1, <2>2 DEF process_keyboard_logic, MakeChar, Screenshot
<1>1. ASSUME NEW k \in Keys, OnPress(k) PROVE StackShape'
  BY <1>0, <1>1, <1>b DEF OnPress, PCs
<1>2. CASE Tick \/ HandlerFlush \/ (\E k \in Keys : OnRelease(k)) \/ UNCHANGED vars
  BY <1>2 DEF StackShape, Tick, HandlerFlush, OnRelease, vars, stackVars
<1>3. CASE TaskEnds
  <2>1. PICK pc \in {"take", "repeat"} :
           GoTo(pc) /\ Fits(frames[depth].proc, pc) /\ made' = made
    BY <1>0, <1>3 DEF TaskEnds, Fits
  <2> QED BY <1>0, <2>1, GoToShape DEF PCs
<1>4. CASE handleRepeat
  <2>0. Fits(frames[depth].proc, "take")
    BY <1>0, <1>4 DEF handleRepeat, Fits
  <2>1. CASE RepeatDue
    <3>1. /\ process_keyboard_logic(lastRepeatKeycode, TRUE, "take")
          /\ lastRepeatKeycode \in Keys
      BY <1>4, <2>1 DEF handleRepeat, RepeatDue, TypeOK
    <3> QED BY <2>0, <3>1, <1>b DEF PCs
  <2>2. CASE ~RepeatDue
    <3>1. GoTo("take") /\ made' = made
      BY <1>4, <2>2 DEF handleRepeat
    <3> QED BY <1>0, <2>0, <3>1, GoToShape DEF PCs
  <2> QED BY <2>1, <2>2
<1>5. CASE LoopShow
  <2>1. CallFrom("clear", Call("handle", "run")) /\ made' = made /\ frames[depth].proc = "loop"
    BY <1>5 DEF LoopShow, At
  <2> QED BY <1>0, <1>a, <2>1, CallShape DEF Call, Fits, PCs
<1>6. CASE LoopIdle \/ LoopClear \/ WaitFlush \/ WaitAgain
  <2>1. GoTo("task") /\ made' = made /\ Fits(frames[depth].proc, "task")
    BY <1>6 DEF LoopIdle, LoopClear, WaitFlush, WaitAgain, At, Fits
  <2> QED BY <1>0, <2>1, GoToShape DEF PCs
<1>7. CASE CallInchar \/ CallWaitKey
  <2>1. PICK f \in {Call("wait", "flush"), Call("inchar", "task")} :
           CallFrom("run", f) /\ made' = made /\ frames[depth].proc = "handle"
    BY <1>7 DEF CallInchar, CallWaitKey, At
  <2> QED BY <1>0, <1>a, <2>1, CallShape DEF Call, Fits, PCs
<1>8. CASE HandlerReturns \/ inchar \/ WaitReturns
  <2>1. depth > 1 /\ Return /\ made' = made
    BY <1>8, CalledFrom DEF HandlerReturns, inchar, WaitReturns, At
  <2> QED BY <2>1, ReturnShape
<1> QED
  BY <1>1, <1>2, <1>3, <1>4, <1>5, <1>6, <1>7, <1>8 DEF Next, Events, Loop, Handler, WaitKey
-----------------------------------------------------------------------------
(* The mailbox and the auto-repeat.                                        *)

\* What processing a key can do to the mailbox and to the stack.
LEMMA ProcessEffect ==
  ASSUME NEW k, NEW r, NEW pc, process_keyboard_logic(k, r, pc)
  PROVE  \/ /\ lastUsbChar' = made + 1 /\ made' = made + 1 /\ k \in CharKeys
            /\ auto' = IF r THEN auto \union {made + 1} ELSE auto
            /\ GoTo(pc)
         \/ /\ lastUsbChar' \in {lastUsbChar, NoChar} /\ made' = made /\ auto' = auto
            /\ GoTo(pc)
         \/ /\ lastUsbChar' = NoChar /\ made' = made /\ auto' = auto
            /\ CallFrom(pc, Call("wait", "flush"))
BY DEF process_keyboard_logic, MakeChar, Screenshot

\* A step that is not OnPress or handleRepeat makes no character.
LEMMA Quiet ==
  ASSUME Next, ~handleRepeat, \A k \in Keys : ~OnPress(k)
  PROVE  made' = made /\ auto' = auto /\ lastUsbChar' \in {lastUsbChar, NoChar}
BY DEF Next, Events, OnRelease, TaskEnds, Tick, Loop, LoopShow, LoopIdle, LoopClear,
       Handler, CallInchar, CallWaitKey, HandlerFlush, HandlerReturns, inchar,
       WaitKey, WaitFlush, WaitAgain, WaitReturns

LEMMA SlotStep == IInv /\ [Next]_vars => SlotIsNewest'
<1> SUFFICES ASSUME TypeOK, SlotIsNewest, [Next]_vars PROVE SlotIsNewest'
  BY DEF IInv
<1>0. made \in Nat
  BY BoundAssumption DEF TypeOK
<1>a. ASSUME NEW k \in Keys, NEW r \in BOOLEAN, NEW pc, process_keyboard_logic(k, r, pc)
      PROVE  SlotIsNewest'
  <2>1. CASE /\ lastUsbChar' = made + 1 /\ made' = made + 1
             /\ auto' = IF r THEN auto \union {made + 1} ELSE auto
    BY <1>0, <2>1 DEF SlotIsNewest
  <2>2. CASE lastUsbChar' \in {lastUsbChar, NoChar} /\ made' = made /\ auto' = auto
    BY <2>2 DEF SlotIsNewest
  <2> QED BY <1>a, <2>1, <2>2, ProcessEffect
<1>1. ASSUME NEW k \in Keys, OnPress(k) PROVE SlotIsNewest'
  BY <1>1, <1>a DEF OnPress
<1>2. CASE handleRepeat
  <2>1. CASE RepeatDue
    BY <1>2, <2>1, <1>a DEF handleRepeat, RepeatDue, TypeOK
  <2>2. CASE ~RepeatDue
    BY <1>2, <2>2 DEF handleRepeat, SlotIsNewest
  <2> QED BY <2>1, <2>2
<1>3. CASE Next /\ ~handleRepeat /\ \A k \in Keys : ~OnPress(k)
  BY <1>3, Quiet DEF SlotIsNewest
<1>4. CASE UNCHANGED vars
  BY <1>4 DEF vars, SlotIsNewest
<1> QED BY <1>1, <1>2, <1>3, <1>4

LEMMA RepeatStep == IInv /\ [Next]_vars => RepeatIsHeld'
<1> SUFFICES ASSUME TypeOK, RepeatIsHeld, [Next]_vars PROVE RepeatIsHeld'
  BY DEF IInv
<1> USE TimeAssumption, KeysAssumption
<1>1. ASSUME NEW k \in Keys, OnPress(k) PROVE RepeatIsHeld'
  BY <1>1 DEF OnPress, RepeatIsHeld, TypeOK
<1>2. ASSUME NEW k \in Keys, OnRelease(k) PROVE RepeatIsHeld'
  BY <1>2 DEF OnRelease, RepeatIsHeld
<1>3. CASE Tick
  BY <1>3 DEF Tick, RepeatIsHeld, TypeOK
<1>4. CASE handleRepeat
  <2>1. CASE RepeatDue
    <3>1. /\ repeatPhase' = TRUE /\ repeatTimer' = 0 /\ down' = down
          /\ lastRepeatKeycode' = lastRepeatKeycode
      BY <1>4, <2>1 DEF handleRepeat
    <3>2. down[lastRepeatKeycode] > RepeatDelay
      <4>1. CASE repeatPhase
        BY <2>1, <4>1 DEF RepeatDue, RepeatIsHeld
      <4>2. CASE ~repeatPhase
        BY <2>1, <4>2 DEF RepeatDue, RepeatIsHeld, TypeOK
      <4> QED BY <4>1, <4>2
    <3> QED BY <2>1, <3>1, <3>2 DEF RepeatDue, RepeatIsHeld, TypeOK
  <2>2. CASE ~RepeatDue
    BY <1>4, <2>2 DEF handleRepeat, RepeatIsHeld, keyVars
  <2> QED BY <2>1, <2>2
<1>5. CASE TaskEnds \/ Loop \/ Handler \/ inchar \/ WaitKey \/ UNCHANGED vars
  <2>1. UNCHANGED <<keyVars, down>>
    BY <1>5 DEF TaskEnds, Loop, LoopShow, LoopIdle, LoopClear,
       Handler, CallInchar, CallWaitKey, HandlerFlush, HandlerReturns, inchar,
       WaitKey, WaitFlush, WaitAgain, WaitReturns, vars
  <2> QED BY <2>1 DEF keyVars, RepeatIsHeld
<1> QED BY <1>1, <1>2, <1>3, <1>4, <1>5 DEF Next, Events
-----------------------------------------------------------------------------
(* wait_key sees fresh keys only.                                          *)

\* The stack keeps what the wait_key calls that go on rest on.
LEMMA GoToWaits ==
  ASSUME TypeOK, StackShape, NEW pc, GoTo(pc), NEW d \in 1..MaxDepth, d <= depth'
  PROVE  /\ d <= depth
         /\ frames'[d].proc = frames[d].proc /\ frames'[d].from = frames[d].from
         /\ d # depth => frames'[d].pc = frames[d].pc
         /\ d = depth => frames'[d].pc = pc
BY DEF TypeOK, GoTo, Frame

LEMMA ReturnWaits ==
  ASSUME TypeOK, StackShape, Return, NEW d \in 1..MaxDepth, d <= depth'
  PROVE  d <= depth /\ frames'[d] = frames[d]
BY BoundAssumption DEF TypeOK, Return

LEMMA FreshStep == IInv /\ [Next]_vars => WaitSeesFresh'
<1> SUFFICES ASSUME TypeOK, StackShape, SlotIsNewest, WaitSeesFresh, [Next]_vars,
                    NEW d \in 1..MaxDepth, d <= depth',
                    frames'[d].proc = "wait", frames'[d].pc # "flush",
                    lastUsbChar' # NoChar
             PROVE  lastUsbChar' > frames'[d].from /\ lastUsbChar' \notin auto'
  BY DEF IInv, WaitSeesFresh
<1>a. made \in 0..MaxMade /\ depth \in 1..MaxDepth
  BY DEF TypeOK
<1>b. made \in Nat
  BY <1>a, BoundAssumption
<1>c. auto \subseteq 1..made
  BY DEF SlotIsNewest
<1>d. \A e \in 1..MaxDepth : frames[e].from <= made
  BY DEF StackShape
<1>e. \A e \in 1..MaxDepth : frames[e].from \in 0..MaxMade
  BY DEF TypeOK, Frame
<1>0. made \in Nat /\ depth \in 1..MaxDepth /\ auto \subseteq 1..made
      /\ \A e \in 1..MaxDepth : frames[e].from <= made
  BY <1>a, <1>b, <1>c, <1>d
<1>1. ASSUME NEW k \in Keys, OnPress(k)
      PROVE  lastUsbChar' > frames'[d].from /\ lastUsbChar' \notin auto'
  <2>1. process_keyboard_logic(k, FALSE, "task") /\ frames[depth].pc = "task"
    BY <1>1 DEF OnPress
  <2>2. CASE /\ lastUsbChar' = made + 1 /\ auto' = auto /\ GoTo("task")
    <3>1. frames'[d].from = frames[d].from
      BY <2>2, GoToWaits
    <3>2. frames[d].from \in 0..MaxMade /\ frames[d].from <= made
      BY <1>d, <1>e
    <3>3. made + 1 > frames[d].from
      BY <1>b, <3>2, BoundAssumption
    <3>4. made + 1 \notin auto
      BY <1>b, <1>c
    <3> QED BY <2>2, <3>1, <3>3, <3>4
  <2>3. CASE /\ lastUsbChar' \in {lastUsbChar, NoChar} /\ auto' = auto /\ GoTo("task")
    <3>1. /\ d <= depth /\ frames'[d].proc = frames[d].proc
          /\ frames'[d].from = frames[d].from /\ frames[d].pc # "flush"
      BY <2>1, <2>3, GoToWaits
    <3> QED BY <2>3, <3>1 DEF WaitSeesFresh
  <2> QED BY <2>1, <2>2, <2>3, ProcessEffect
<1>2. CASE handleRepeat
  <2>1. frames[depth].proc # "wait"
    BY <1>0, <1>2 DEF handleRepeat, StackShape, Fits
  <2>2. CASE GoTo("take")
    <3>1. d <= depth /\ frames'[d].proc = frames[d].proc
      BY <2>2, GoToWaits
    <3> QED BY <1>0, <2>1, <3>1 DEF StackShape
  <2>3. CASE ~GoTo("take")
    BY <1>2, <2>3, ProcessEffect DEF handleRepeat
  <2> QED BY <2>2, <2>3
<1>3. CASE /\ UNCHANGED <<lastUsbChar, auto>>
           /\ UNCHANGED stackVars
  BY <1>3 DEF stackVars, WaitSeesFresh
<1>4. CASE /\ UNCHANGED <<lastUsbChar, auto>>
           /\ GoTo("take") \/ GoTo("task") \/ GoTo("repeat")
           /\ frames[depth].pc # "flush"
  <2>1. /\ d <= depth /\ frames'[d].proc = frames[d].proc
        /\ frames'[d].from = frames[d].from /\ frames[d].pc # "flush"
    BY <1>4, GoToWaits
  <2> QED BY <1>4, <2>1 DEF WaitSeesFresh
<1>5. CASE TaskEnds \/ LoopIdle \/ WaitAgain
  BY <1>4, <1>5 DEF TaskEnds, LoopIdle, WaitAgain, At
<1>6. CASE LoopShow \/ CallInchar \/ CallWaitKey
  <2>1. PICK pc \in PCs, f \in {Call("handle", "run"), Call("inchar", "task"), Call("wait", "flush")} :
           CallFrom(pc, f) /\ frames[depth].proc # "wait"
    BY <1>6 DEF LoopShow, CallInchar, CallWaitKey, At, PCs
  <2>2. d = depth + 1 => FALSE
    BY <1>0, <2>1 DEF CallFrom, Call, TypeOK
  <2>3. frames'[d].proc = frames[d].proc /\ d <= depth
    BY <1>0, <2>1, <2>2 DEF CallFrom, TypeOK, Frame
  <2> QED BY <1>0, <2>1, <2>3 DEF StackShape
<1>7. CASE HandlerReturns \/ inchar \/ WaitReturns
  <2>1. d <= depth /\ frames'[d] = frames[d]
    BY <1>7, ReturnWaits DEF HandlerReturns, inchar, WaitReturns
  <2>2. UNCHANGED <<lastUsbChar, auto>>
    BY <1>7 DEF HandlerReturns, inchar, WaitReturns
  <2> QED BY <2>1, <2>2 DEF WaitSeesFresh
<1> QED
  BY <1>1, <1>2, <1>3, <1>5, <1>6, <1>7
  DEF Next, Events, OnRelease, Tick, Loop, LoopClear, Handler, HandlerFlush,
      WaitKey, WaitFlush, vars
-----------------------------------------------------------------------------
(* No reader gets a character twice.                                       *)

\* The program point of loop() moves only when loop() runs.
LEMMA BottomFrame ==
  ASSUME TypeOK, StackShape, NEW pc,
         GoTo(pc) \/ (\E f \in Frame : CallFrom(pc, f)) \/ (Return /\ depth > 1)
  PROVE  frames'[1].pc = frames[1].pc \/ (depth = 1 /\ frames'[1].pc = pc)
<1>0. depth \in 1..MaxDepth /\ 1 \in 1..MaxDepth /\ frames \in [1..MaxDepth -> Frame]
  BY BoundAssumption DEF TypeOK
<1>1. CASE GoTo(pc)
  BY <1>0, <1>1 DEF GoTo, Frame
<1>2. ASSUME NEW f \in Frame, CallFrom(pc, f)
      PROVE  frames'[1].pc = frames[1].pc \/ (depth = 1 /\ frames'[1].pc = pc)
  <2> DEFINE fr == [frames EXCEPT ![depth].pc = pc]
  <2>1. DOMAIN fr = 1..MaxDepth
        /\ (fr[1].pc = frames[1].pc \/ (depth = 1 /\ fr[1].pc = pc))
    BY <1>0 DEF Frame
  <2>2. frames' = [fr EXCEPT ![depth + 1] = f] /\ depth + 1 # 1
    BY <1>0, <1>2 DEF CallFrom
  <2> HIDE DEF fr
  <2>3. frames'[1] = fr[1]
    BY <1>0, <2>1, <2>2
  <2> QED BY <2>1, <2>3
<1>3. CASE Return /\ depth > 1
  BY <1>0, <1>3 DEF Return
<1> QED BY <1>1, <1>2, <1>3

LEMMA AppendNewest ==
  ASSUME NEW S, NEW s \in Seq(S), NEW n \in S, NEW i \in 1..Len(Append(s, n))
  PROVE  (i \in 1..Len(s) /\ Append(s, n)[i] = s[i]) \/ Append(s, n)[i] = n
OBVIOUS

LEMMA UnreadStep == IInv /\ [Next]_vars => SlotIsUnread'
<1> SUFFICES ASSUME IInv, [Next]_vars PROVE SlotIsUnread'
  OBVIOUS
<1> USE DEF IInv
<1>0. /\ made \in Nat /\ lastUsbChar \in {NoChar, made}
      /\ shown \in Seq(1..MaxMade) /\ taken \in Seq(1..MaxMade)
      /\ \A i \in 1..Len(taken) : taken[i] \in Nat
      /\ \A i \in 1..Len(shown) : shown[i] \in Nat
  BY BoundAssumption DEF TypeOK, SlotIsNewest
<1>a. Call("wait", "flush") \in Frame /\ Call("inchar", "task") \in Frame
      /\ Call("handle", "run") \in Frame
  BY CallType DEF Procs, PCs
<1>b. ASSUME NEW k, NEW r, NEW pc \in {"task", "take"},
             process_keyboard_logic(k, r, pc), UNCHANGED readVars,
             frames[depth].pc \in {"task", "repeat"}
      PROVE  SlotIsUnread'
  <2>1. CASE lastUsbChar' = made + 1 /\ made' = made + 1
    BY <1>0, <1>b, <2>1 DEF SlotIsUnread, readVars
  <2>2. CASE lastUsbChar' = NoChar /\ made' = made
    BY <1>b, <2>2 DEF SlotIsUnread, readVars
  <2>3. CASE lastUsbChar' = lastUsbChar /\ made' = made /\ GoTo(pc)
    <3>1. frames'[1].pc # "clear" => frames[1].pc # "clear"
      BY <1>b, <2>3, BottomFrame
    <3> QED BY <1>b, <2>3, <3>1 DEF SlotIsUnread, readVars
  <2> QED BY <1>b, <2>1, <2>2, <2>3, ProcessEffect
<1>1. ASSUME NEW k \in Keys, OnPress(k) PROVE SlotIsUnread'
  BY <1>1, <1>b DEF OnPress
<1>2. CASE TaskEnds \/ (handleRepeat /\ ~RepeatDue)
  <2>1. /\ UNCHANGED <<lastUsbChar, made, readVars>> /\ frames[depth].pc # "clear"
        /\ GoTo("take") \/ GoTo("repeat")
    BY <1>2 DEF TaskEnds, handleRepeat
  <2>2. frames'[1].pc # "clear" => frames[1].pc # "clear"
    BY <2>1, BottomFrame
  <2> QED BY <2>1, <2>2 DEF SlotIsUnread, readVars
<1>3. CASE handleRepeat /\ RepeatDue
  BY <1>3, <1>b DEF handleRepeat
<1>4. CASE (\E k \in Keys : OnRelease(k)) \/ Tick \/ UNCHANGED vars
  BY <1>4 DEF OnRelease, Tick, vars, stackVars, readVars, SlotIsUnread
<1>5. CASE LoopShow
  <2>1. /\ depth = 1 /\ lastUsbChar = made /\ made > 0 /\ made \in 1..MaxMade
        /\ shown' = Append(shown, made) /\ UNCHANGED <<lastUsbChar, made, taken>>
        /\ CallFrom("clear", Call("handle", "run"))
    BY <1>0, <1>5 DEF LoopShow, At, StackShape, TypeOK, NoChar
  <2>2. frames'[1].pc = "clear"
    <3> DEFINE fr == [frames EXCEPT ![1].pc = "clear"]
    <3>1. DOMAIN fr = 1..MaxDepth /\ fr[1].pc = "clear" /\ 1 \in 1..MaxDepth
      BY BoundAssumption DEF TypeOK, Frame
    <3>2. frames' = [fr EXCEPT ![2] = Call("handle", "run")]
      BY <2>1 DEF CallFrom
    <3> HIDE DEF fr
    <3> QED BY <3>1, <3>2
  <2>3. \A i \in 1..Len(shown') : shown'[i] <= made
    BY <1>0, <2>1, AppendNewest DEF SlotIsUnread
  <2> QED BY <2>1, <2>2, <2>3 DEF SlotIsUnread
<1>6. CASE LoopIdle \/ LoopClear \/ HandlerFlush \/ WaitFlush \/ WaitAgain
  <2>1. lastUsbChar' = NoChar /\ UNCHANGED <<made, readVars>>
    BY <1>6 DEF LoopIdle, LoopClear, HandlerFlush, WaitFlush, WaitAgain
  <2> QED BY <2>1 DEF SlotIsUnread, readVars
<1>7. CASE CallInchar \/ CallWaitKey \/ HandlerReturns
  <2>1. frames[depth].proc = "handle" /\ depth > 1
    BY <1>7, CalledFrom DEF CallInchar, CallWaitKey, HandlerReturns, At
  <2>2. frames'[1].pc = frames[1].pc
    <3>1. \/ \E f \in Frame : CallFrom("run", f)
          \/ Return /\ depth > 1
      BY <1>7, <1>a, <2>1 DEF CallInchar, CallWaitKey, HandlerReturns
    <3>2. frames'[1].pc = frames[1].pc \/ depth = 1
      <4>1. ASSUME NEW f \in Frame, CallFrom("run", f)
            PROVE  frames'[1].pc = frames[1].pc \/ depth = 1
        BY <4>1, BottomFrame
      <4>2. CASE Return /\ depth > 1
        BY <4>2, BottomFrame
      <4> QED BY <3>1, <4>1, <4>2
    <3> QED BY <2>1, <3>2
  <2>3. UNCHANGED <<lastUsbChar, made, readVars>>
    BY <1>7 DEF CallInchar, CallWaitKey, HandlerReturns
  <2> QED BY <2>2, <2>3 DEF SlotIsUnread, readVars
<1>8. CASE inchar \/ WaitReturns
  <2>1. lastUsbChar' = NoChar /\ UNCHANGED <<made, shown>>
    BY <1>8 DEF inchar, WaitReturns
  <2>2. CASE taken' = taken
    BY <2>1, <2>2 DEF SlotIsUnread
  <2>3. CASE lastUsbChar # NoChar /\ taken' = Append(taken, lastUsbChar)
    <3>1. taken' = Append(taken, made) /\ made \in 1..MaxMade
      BY <1>0, <2>3 DEF TypeOK, NoChar
    <3>2. \A i \in 1..Len(taken') : taken'[i] <= made
      BY <1>0, <3>1, AppendNewest DEF SlotIsUnread
    <3> QED BY <2>1, <3>2 DEF SlotIsUnread
  <2> QED BY <1>8, <2>2, <2>3 DEF inchar, WaitReturns
<1> QED
  BY <1>1, <1>2, <1>3, <1>4, <1>5, <1>6, <1>7, <1>8 DEF Next, Events, Loop, Handler, WaitKey

-----------------------------------------------------------------------------
\* Every reachable state of the keyboard satisfies IInv: the types, the shape
\* of the call stack, and what the mailbox and the auto-repeat may hold.
THEOREM Invariant == Spec => []IInv
<1>1. Init => IInv
  BY InitIInv
<1>2. IInv /\ [Next]_vars => IInv'
  BY TypeStep, ShapeStep, SlotStep, RepeatStep, FreshStep, UnreadStep DEF IInv
<1> QED BY <1>1, <1>2, PTL DEF Spec

\* Type correctness of lastUsbChar, the repeat variables and the call stack.
THEOREM TypeCorrect == Spec => []TypeOK
<1>1. IInv => TypeOK
  BY DEF IInv
<1> QED BY <1>1, Invariant, PTL

\* OnPress, OnRelease and handleRepeat together: a character that auto-repeat
\* makes comes from a key that has been down for the whole RepeatDelay.
THEOREM RepeatSafety == Spec => RepeatsOnlyHeldKey
<1>1. IInv /\ [Next]_vars =>
        [auto' # auto => /\ lastRepeatKeycode # NoKey
                         /\ down[lastRepeatKeycode] > RepeatDelay]_vars
  <2> SUFFICES ASSUME IInv, Next, auto' # auto
               PROVE  lastRepeatKeycode # NoKey /\ down[lastRepeatKeycode] > RepeatDelay
    BY DEF vars
  <2>1. ASSUME NEW k \in Keys, OnPress(k) PROVE FALSE
    BY <2>1, ProcessEffect DEF OnPress
  <2>2. handleRepeat /\ RepeatDue
    BY <2>1, Quiet DEF handleRepeat
  <2>3. CASE repeatPhase
    BY <2>2, <2>3 DEF RepeatDue, IInv, RepeatIsHeld
  <2>4. CASE ~repeatPhase
    BY <2>2, <2>4, TimeAssumption DEF RepeatDue, IInv, RepeatIsHeld, TypeOK
  <2> QED BY <2>3, <2>4
<1> QED BY <1>1, Invariant, PTL DEF Spec, RepeatsOnlyHeldKey

\* wait_key returns only what was pressed after it was called: type-ahead, the
\* key that started the program and auto-repeat never answer a popup.
THEOREM WaitKeySafety == Spec => WaitKeyIsFresh
<1>1. IInv /\ [Next]_vars =>
        [(depth' < depth /\ frames[depth].proc = "wait") =>
            lastUsbChar > frames[depth].from /\ lastUsbChar \notin auto]_vars
  <2> SUFFICES ASSUME IInv, Next, depth' < depth, frames[depth].proc = "wait"
               PROVE  lastUsbChar > frames[depth].from /\ lastUsbChar \notin auto
    BY DEF vars
  <2>0. depth \in 1..MaxDepth
    BY DEF IInv, TypeOK
  <2>1. WaitReturns
    <3>1. ASSUME NEW k, NEW r, NEW pc, process_keyboard_logic(k, r, pc) PROVE FALSE
      BY <2>0, <3>1, ProcessEffect, BoundAssumption DEF GoTo, CallFrom
    <3>2. ~handleRepeat /\ \A k \in Keys : ~OnPress(k)
      <4>1. ASSUME handleRepeat, ~RepeatDue PROVE FALSE
        <5>1. GoTo("take")
          BY <4>1 DEF handleRepeat
        <5> QED BY <2>0, <5>1 DEF GoTo
      <4> QED BY <3>1, <4>1 DEF handleRepeat, OnPress
    <3> QED BY <2>0, <3>2, BoundAssumption
            DEF Next, Events, OnRelease, TaskEnds, Tick, Loop, LoopShow, LoopIdle, LoopClear,
                Handler, CallInchar, CallWaitKey, HandlerFlush, HandlerReturns, inchar,
                WaitKey, WaitFlush, WaitAgain, At, GoTo, CallFrom, stackVars
  <2> QED BY <2>0, <2>1 DEF WaitReturns, At, IInv, WaitSeesFresh
<1> QED BY <1>1, Invariant, PTL DEF Spec, WaitKeyIsFresh
\* The mailbox, the callbacks and the nested calls implement the stream that
\* KeyStream promises: readers get the newest character, each one at most once
\* by the prompt and at most once by a program, in order.
THEOREM Refinement == Spec => KeepsStream
<1>1. Init => Stream!StreamInit
  BY DEF Init, Stream!StreamInit
<1>2. IInv /\ IInv' /\ [Next]_vars => [Stream!StreamNext]_(Stream!streamVars)
  <2> SUFFICES ASSUME IInv, IInv', [Next]_vars
               PROVE  Stream!StreamNext \/ UNCHANGED <<made, shown, taken>>
    BY DEF Stream!streamVars
  <2>0. made \in 0..MaxMade /\ made' \in 0..MaxMade /\ MaxMade \in Nat
        /\ lastUsbChar \in {NoChar, made}
    BY BoundAssumption DEF IInv, TypeOK, SlotIsNewest
  <2>1. ASSUME NEW k, NEW r, NEW pc, process_keyboard_logic(k, r, pc), UNCHANGED readVars
        PROVE  Stream!StreamNext \/ UNCHANGED <<made, shown, taken>>
    <3>1. made' = made \/ made' = made + 1
      BY <2>1, ProcessEffect
    <3> QED BY <2>0, <2>1, <3>1 DEF Stream!StreamNext, Stream!Make, readVars
  <2>2. ASSUME NEW k \in Keys, OnPress(k)
        PROVE  Stream!StreamNext \/ UNCHANGED <<made, shown, taken>>
    BY <2>1, <2>2 DEF OnPress
  <2>3. CASE handleRepeat
    BY <2>1, <2>3 DEF handleRepeat, readVars
  <2>4. CASE LoopShow
    <3>1. depth = 1 /\ frames[1].pc = "take" /\ lastUsbChar = made /\ made > 0
      BY <2>0, <2>4 DEF LoopShow, At, IInv, StackShape, TypeOK, NoChar
    <3>2. Stream!NewerThan(made, shown) /\ Stream!NewerThan(made, taken)
      BY <3>1 DEF Stream!NewerThan, IInv, SlotIsUnread, NoChar
    <3> QED BY <2>4, <3>1, <3>2 DEF LoopShow, Stream!StreamNext, Stream!Show
  <2>5. CASE inchar \/ WaitReturns
    <3>1. CASE UNCHANGED taken
      BY <2>5, <3>1 DEF inchar, WaitReturns
    <3>2. CASE lastUsbChar # NoChar /\ taken' = Append(taken, lastUsbChar)
      <4>1. lastUsbChar = made /\ made > 0
        BY <2>0, <3>2 DEF NoChar
      <4>2. Stream!NewerThan(made, taken)
        BY <3>2, <4>1 DEF Stream!NewerThan, IInv, SlotIsUnread
      <4> QED BY <2>5, <3>2, <4>1, <4>2
              DEF inchar, WaitReturns, Stream!StreamNext, Stream!Take
    <3> QED BY <2>5, <3>1, <3>2 DEF inchar, WaitReturns
  <2>6. CASE (\E k \in Keys : OnRelease(k)) \/ TaskEnds \/ Tick \/ LoopIdle \/ LoopClear
             \/ Handler \/ WaitFlush \/ WaitAgain \/ UNCHANGED vars
    BY <2>6 DEF OnRelease, TaskEnds, Tick, LoopIdle, LoopClear, Handler, CallInchar,
         CallWaitKey, HandlerFlush, HandlerReturns, WaitFlush, WaitAgain, vars, readVars
  <2> QED BY <2>2, <2>3, <2>4, <2>5, <2>6 DEF Next, Events, Loop, WaitKey
<1> QED BY <1>1, <1>2, Invariant, PTL DEF Spec, KeepsStream, Stream!StreamSpec
=============================================================================
