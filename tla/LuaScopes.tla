------------------------------ MODULE LuaScopes ------------------------------
(***************************************************************************)
(* What calls promise programs: in every thread protected calls and        *)
(* to-be-closed variables are nested.  The innermost one always ends       *)
(* first, so a variable is closed once and before anything around it ends: *)
(* variables are numbered, and no number comes back.  A protected call     *)
(* that fails gives the error that was raised last inside it and not       *)
(* caught by a call nested in it.                                          *)
(***************************************************************************)
EXTENDS Naturals, Sequences

CONSTANTS Threads, NoError

VARIABLES scopes,     \* of each thread: [var |-> 0, err] is a protected call (the
                      \* first one the thread itself), [var |-> n, err] a variable
          variables,  \* how many have been numbered
          result      \* thread and error of the last protected call that failed

vars == <<scopes, variables, result>>

Call == [var |-> 0, err |-> NoError]
Variable(n) == [var |-> n, err |-> NoError]
Outermost(th) == Len(scopes[th]) = 1
Innermost(th) == scopes[th][Len(scopes[th])]
Inner(th) == [scopes EXCEPT ![th] = SubSeq(@, 1, Len(@) - 1)]

\* The innermost protected call, which gets the errors that are raised.
IsCall(e) == e.var = 0
LastCall(sc) == CHOOSE i \in DOMAIN sc : IsCall(sc[i]) /\ \A j \in DOMAIN sc : IsCall(sc[j]) => j <= i

\* Where a step of a thread leads to, errors it raises aside.
Unchanged == <<scopes, result>>
Entered(th, e) == <<[scopes EXCEPT ![th] = Append(@, e)], result>>
Ended(th) == <<Inner(th), result>>
Failed(th) == <<Inner(th), <<th, Innermost(th).err>> >>
Died(th) == <<scopes, <<th, scopes[th][1].err>> >>
\* A thread that is closed drops its protected calls; its variables stay to
\* be closed, in their order.
Dropped(th) == <<[scopes EXCEPT ![th] = <<@[1]>> \o SelectSeq(Tail(@), LAMBDA e : e.var > 0)], result>>

After(th) ==
    {Unchanged, Dropped(th), Entered(th, Call)}
      \union (IF variables' > variables THEN {Entered(th, Variable(variables'))} ELSE {})
      \union (IF Outermost(th) THEN {} ELSE {Ended(th)})
      \union (IF ~Outermost(th) /\ IsCall(Innermost(th)) THEN {Failed(th)} ELSE {})
      \union (IF LastCall(scopes[th]) = 1 THEN {Died(th)} ELSE {})

Raised(sc, th) == LET i == LastCall(sc[th])
                  IN  IF i \in DOMAIN scopes'[th] THEN [sc EXCEPT ![th][i].err = scopes'[th][i].err] ELSE sc

Next == \E th, other \in Threads : \E a \in After(th) :
            /\ variables' \in {variables, variables + 1}
            /\ result' = a[2]
            /\ scopes' \in {a[1], Raised(a[1], th), Raised(a[1], other)}

Init == /\ \A th \in Threads : scopes[th] \in {<<Call>>, <<Call, Call>>}
        /\ variables = 0 /\ result = << >>

ScopesSpec == Init /\ [][Next]_vars
=============================================================================
