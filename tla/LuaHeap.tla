------------------------------- MODULE LuaHeap -------------------------------
(***************************************************************************)
(* What the heap of the Lua core promises to programs, with no colours, no *)
(* lists, no phases and no barriers: an object a program can get at stays  *)
(* as it is; an object with a finalizer is picked for it only when nothing *)
(* leads to it any more, is given to its finalizer once, and is there      *)
(* again for the program then; what no one can get at disappears, some     *)
(* time, alone or together with others.  Weak tables are not part of it.   *)
(***************************************************************************)
EXTENDS Naturals, FiniteSets

CONSTANTS Root,     \* the main thread, whose references are the stack
          Fixed,    \* the other objects that are always there
          Pool      \* all objects, the roots included

VARIABLES used,     \* the objects that exist
          refs,     \* what each of them refers to
          waiting,  \* those with a finalizer
          due       \* those picked for it and not yet given to it

heap == <<used, refs, waiting, due>>

\* The objects that references lead to from the set S.
Reach(S) ==
    LET closed == {M \in {S \union X : X \in SUBSET (Pool \ S)} :
                      \A o \in M : refs[o] \subseteq M}
    IN  {o \in Pool : \A M \in closed : o \in M}

InReach == Reach({Root} \union Fixed)

HeapInit == /\ used = {Root} \union Fixed
            /\ refs = [o \in Pool |-> {}]
            /\ waiting = {} /\ due = {}

Create(o) == /\ o \in Pool \ used
             /\ used' = used \union {o}
             /\ refs' = [refs EXCEPT ![Root] = @ \union {o}]
             /\ UNCHANGED <<waiting, due>>

\* The program changes one object it can get at.
Change(o) == /\ o \in InReach
             /\ refs' = [refs EXCEPT ![o] = refs'[o]]
             /\ refs'[o] \subseteq InReach
             /\ UNCHANGED <<used, waiting, due>>

Finalize(o) == /\ o \in due
               /\ due' = due \ {o}
               /\ refs' = [refs EXCEPT ![Root] = @ \union {o}]
               /\ UNCHANGED <<used, waiting>>

\* Garbage, any of it, is removed.
Remove == /\ used' \subseteq used
          /\ used \ used' \subseteq Pool \ Reach({Root} \union Fixed \union waiting \union due)
          /\ refs' = [o \in Pool |-> IF o \in used' THEN refs[o] ELSE {}]

\* setmetatable may take some with it.
SetFinalizer(o) == /\ o \in InReach \ (waiting \union due)
                   /\ waiting' = waiting \union {o}
                   /\ Remove
                   /\ UNCHANGED due

\* The collector also picks objects that only finalizers wait for.
Collect == /\ Remove
           /\ waiting' \subseteq waiting
           /\ waiting \ waiting' \subseteq Pool \ InReach
           /\ due' = due \union (waiting \ waiting')

HeapNext == \/ \E o \in Pool : Create(o) \/ Change(o) \/ SetFinalizer(o) \/ Finalize(o)
            \/ Collect

HeapSpec == HeapInit /\ [][HeapNext]_heap
=============================================================================
