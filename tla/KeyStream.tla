------------------------------ MODULE KeyStream ------------------------------
(***************************************************************************)
(* What the keyboard of the Lua computer promises to the programs that     *)
(* read it, with no mailbox, no callback and no call stack.                *)
(*                                                                         *)
(* Characters are numbered 1, 2, 3, ... in the order the keyboard driver   *)
(* makes them.  Two kinds of readers exist: the prompt (handleIncomingChar *)
(* called by loop()), which is shown a character, and the blocking or      *)
(* polling calls (wait_key, inchar), which take one.  A reader only ever   *)
(* gets the newest character, no character is shown twice or taken twice,  *)
(* and every reader sees them in the order they were made.  Characters may *)
(* be lost: the keyboard has one slot and no queue.                        *)
(***************************************************************************)
EXTENDS Naturals, Sequences

CONSTANT MaxMade     \* bound: how many characters are made in a behaviour

VARIABLES made,      \* number of characters made so far
          shown,     \* the characters shown to the prompt, oldest first
          taken      \* the characters taken by wait_key and inchar

streamVars == <<made, shown, taken>>

\* n is newer than every character of s.
NewerThan(n, s) == \A i \in 1..Len(s) : s[i] < n

StreamInit == made = 0 /\ shown = << >> /\ taken = << >>

Make == /\ made < MaxMade
        /\ made' = made + 1
        /\ UNCHANGED <<shown, taken>>

\* The prompt is shown the newest character, which nobody has had before.
Show == /\ made > 0
        /\ NewerThan(made, shown) /\ NewerThan(made, taken)
        /\ shown' = Append(shown, made)
        /\ UNCHANGED <<made, taken>>

\* A program takes the newest character; the prompt may be handling it.
Take == /\ made > 0
        /\ NewerThan(made, taken)
        /\ taken' = Append(taken, made)
        /\ UNCHANGED <<made, shown>>

StreamNext == Make \/ Show \/ Take

StreamSpec == StreamInit /\ [][StreamNext]_streamVars
=============================================================================
