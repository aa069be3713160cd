----------------------------- MODULE LuaCallsProofs ----------------------------
(***************************************************************************)
(* Proofs about LuaCalls.  What C code does when what it called has        *)
(* returned or failed keeps the invariant of LuaCallsFacts: closing,       *)
(* protected calls, coroutines, finalizers.  Step puts all of it together, *)
(* one step of the program at a time, and the theorems follow from it.     *)
(***************************************************************************)
EXTENDS LuaCallsFacts

-----------------------------------------------------------------------------
(* What goes on when what it called has returned.                           *)

\* The topmost activation runs.
Runs(s, G, h, b, th) ==
    LET a == s.C[Len(s.C)] IN Body(s, G, h, b) /\ th = a.th /\ Settled(s.L[th], a, G[Len(s.C)])

\* The history does not count.
LEMMA HoldsSame ==
  ASSUME NEW s, NEW h, NEW b, Holds(s, h, b), NEW u, Same(s, u)
  PROVE  Holds(u, h, b)
<1>1. PICK G : Body(s, G, h, b) /\ Running(s, G) /\ Returned(s) BY DEF Holds
<1>2. Body(u, G, h, b) BY <1>1, BodySame
<1>3. u.C = s.C /\ u.L = s.L BY DEF Same, InC
<1>4. Running(u, G) /\ Returned(u) BY <1>1, <1>3 DEF Running, Returned
<1> QED BY <1>2, <1>4 DEF Holds

\* What was called has returned: the activation below goes on as it was.
LEMMA PopsOn ==
  ASSUME NEW s, NEW G, NEW h, NEW b, NEW th, Runs(s, G, h, b, th),
         s.C[Len(s.C)].at \in {"luaF_close", "luaD_pcall", "luaD_pcall_error", "closeprotected", "GCTM"},
         s.C[Len(s.C)].at = "GCTM" => ~s.gcstp
  PROVE  LET u == PopC(s)   l == Len(s.C) - 1   G2 == SubSeq(G, 1, l)
         IN  /\ Pops(s, G, u, G2, h, b) /\ Runs(u, G2, h, b, th)
             /\ u.C[Len(u.C)] = s.C[l] /\ G2[Len(u.C)] = G[l] /\ u.L = s.L
             /\ Link(s.C[l], G[l], s.C[Len(s.C)], G[Len(s.C)])
<1> DEFINE c == s.C   n == Len(c)   z == c[n]   k == G[n]   x == s.L[th]   l == n - 1   u == PopC(s)   G2 == SubSeq(G, 1, l)
           a == c[l]   g == G[l]
<1>0. c = s.C /\ n = Len(c) /\ z = c[n] /\ k = G[n] /\ x = s.L[th] /\ l = n - 1 /\ a = c[l] /\ g = G[l]
  OBVIOUS
<1>1. Body(s, G, h, b) /\ th = z.th /\ Settled(x, z, k)
      /\ z.at \in {"luaF_close", "luaD_pcall", "luaD_pcall_error", "closeprotected", "GCTM"}
  BY DEF Runs
<1>2. Pops(s, G, u, G2, h, b)
  BY <1>1, PopsTop
<1>3. Len(x.ci) \in Nat /\ Sound(x.ci, x.open, z, k)
  BY <1>1, TopFacts, Zenon
<1> HIDE DEF c, n, z, k, x, l, a, g, u, G2
<1>4. /\ n \in Nat /\ n > 1 /\ Body(u, G2, h, b) /\ Len(u.C) = l /\ u.L = s.L
      /\ (\A i \in 1..l : u.C[i] = c[i] /\ G2[i] = G[i])
      /\ Link(a, g, z, k) /\ a \in Acts /\ g \in Ghosts /\ Own(a, g)
  BY <1>0, <1>2 DEF Pops
<1>5. l \in 1..l BY <1>0, <1>4
<1>6. u.C[Len(u.C)] = a /\ G2[Len(u.C)] = g BY <1>0, <1>4, <1>5
<1>7. a.th = th
  <2>1. LinkThreads(a, z) BY <1>4 DEF Link
  <2> QED BY <1>1, <2>1 DEF LinkThreads, Switches
<1>8. k.c = g.c /\ k.e = g.e
  <2>1. LinkCounts(g, z, k) BY <1>4 DEF Link
  <2>2. z.at \notin Switches \union {"ccall", "lua_resume"} BY <1>1 DEF Switches
  <2>3. g.c \in Int /\ g.e \in Nat BY <1>4 DEF Ghosts
  <2> QED BY <2>1, <2>2, <2>3 DEF LinkCounts
<1>9. /\ x.status = "OK" /\ x.nC = g.c /\ x.nny = g.e /\ Len(x.ci) = k.d
  BY <1>1, <1>8 DEF Settled
<1>10. IsRawRun(a) => a.status = "OK"
  BY <1>4 DEF Link, LinkKinds
<1>11. Settled(u.L[th], a, g)
  <2>1. CASE a.at = "unroll"
    <3>1. k.e = 0 BY <1>4, <1>8, <2>1 DEF Own
    <3>2. \A i \in 2..(k.d - 1) : Passes(x.ci[i]) BY <1>3, <3>1 DEF Sound
    <3> QED BY <1>0, <1>4, <1>9, <1>10, <2>1, <3>2 DEF Settled
  <2>2. CASE a.at # "unroll"
    <3>1. LinkFrames(a, g, z, k) BY <1>4 DEF Link
    <3>2. k.d = g.d BY <1>1, <2>2, <3>1 DEF LinkFrames, Callers, CoCallers, PlainCallers, Switches
    <3> QED BY <1>0, <1>4, <1>9, <1>10, <2>2, <3>2 DEF Settled
  <2> QED BY <2>1, <2>2
<1>12. Runs(u, G2, h, b, th) BY <1>4, <1>6, <1>7, <1>11 DEF Runs
<1> QED BY <1>0, <1>2, <1>4, <1>6, <1>12 DEF u, G2

\* ccall returns.
LEMMA CallEnds ==
  ASSUME NEW s, NEW G, NEW h, NEW b, NEW th, Runs(s, G, h, b, th), s.C[Len(s.C)].at = "ccall"
  PROVE  LET a == s.C[Len(s.C)] IN Holds([PopC(s) EXCEPT !.L[th].nC = @ - a.inc, !.L[th].nny = @ - a.nny], h, b)
<1> DEFINE c == s.C   n == Len(c)   z == c[n]   k == G[n]   x == s.L[th]   l == n - 1   y == PopC(s)   G2 == SubSeq(G, 1, l)
           a == c[l]   g == G[l]   cc == y.L[th].nC - z.inc   e == y.L[th].nny - z.nny   u == [y EXCEPT !.L[th].nC = cc, !.L[th].nny = e]
<1>0. c = s.C /\ n = Len(c) /\ z = c[n] /\ k = G[n] /\ x = s.L[th] /\ l = n - 1 /\ a = c[l] /\ g = G[l]
      /\ cc = y.L[th].nC - z.inc /\ e = y.L[th].nny - z.nny
  OBVIOUS
<1>1. Body(s, G, h, b) /\ th = z.th /\ Settled(x, z, k) /\ z.at = "ccall"
  BY DEF Runs
<1>2. Pops(s, G, y, G2, h, b)
  BY <1>1, PopsTop
<1>3. z \in CallActs /\ th \in Threads
  <2>1. z \in Acts /\ th \in Threads BY <1>1, TopFacts, Zenon
  <2> QED BY <1>1, <2>1, Kinds
<1> HIDE DEF c, n, z, k, x, l, a, g, y, G2, u
<1>4. /\ n \in Nat /\ n > 1 /\ Body(y, G2, h, b) /\ State(y) /\ Len(y.C) = l /\ y.L = s.L
      /\ (\A i \in 1..l : y.C[i] = c[i] /\ G2[i] = G[i])
      /\ Link(a, g, z, k) /\ a \in Acts /\ g \in Ghosts
  BY <1>0, <1>2 DEF Pops
<1>5. l \in 1..l BY <1>0, <1>4
<1>6. y.C[Len(y.C)] = a /\ G2[Len(y.C)] = g BY <1>0, <1>4, <1>5
<1>7. a.th = th
  <2>1. LinkThreads(a, z) BY <1>4 DEF Link
  <2> QED BY <1>1, <2>1 DEF LinkThreads, Switches
<1>8. cc = g.c /\ e = g.e
  <2>1. LinkCounts(g, z, k) BY <1>4 DEF Link
  <2>2. z.at \notin Switches BY <1>1 DEF Switches
  <2>3. g.c \in Int /\ g.e \in Nat /\ z.inc \in Int /\ z.nny \in Int BY <1>3, <1>4 DEF Ghosts, CallActs
  <2>4. k.c = g.c + z.inc /\ k.e = g.e + z.nny BY <1>1, <2>1, <2>2 DEF LinkCounts
  <2>5. y.L[th].nC = k.c /\ y.L[th].nny = k.e BY <1>0, <1>1, <1>4, Zenon DEF Settled
  <2>6. cc = k.c - z.inc /\ e = k.e - z.nny BY <1>0, <2>5
  <2> DEFINE gc == g.c   ge == g.e   i == z.inc   j == z.nny
  <2>7. gc \in Int /\ ge \in Int /\ i \in Int /\ j \in Int /\ cc = (gc + i) - i /\ e = (ge + j) - j BY <2>3, <2>4, <2>6
  <2> HIDE DEF gc, ge, i, j, cc, e
  <2>8. cc = gc /\ e = ge BY <2>7
  <2> QED BY <2>8 DEF gc, ge
<1> HIDE DEF cc, e
<1>9. Turns(y, u, th, x.status, x.ci, Len(x.stack), x.open, cc, e)
  <2>1. cc \in Int /\ e \in Int BY <1>4, <1>8 DEF Ghosts
  <2>2. y.L[th] = x BY <1>0, <1>4
  <2>3. Turns(y, u, th, y.L[th].status, y.L[th].ci, Len(y.L[th].stack), y.L[th].open, cc, e)
    BY <1>3, <1>4, <2>1, CountsSet, Zenon DEF u
  <2> QED BY <2>2, <2>3
<1>10. u.C = y.C /\ u.L[th].status = x.status /\ u.L[th].ci = x.ci /\ u.L[th].open = x.open /\ u.L[th].nC = cc /\ u.L[th].nny = e
       /\ Len(u.L[th].stack) = Len(x.stack)
  BY <1>9 DEF Turns, InThread
<1>11. Body(u, G2, h, b)
  <2>1. th = y.C[Len(y.C)].th BY <1>6, <1>7
  <2>2. InThread(y, u, th) BY <1>9 DEF Turns
  <2>3. ThreadInv(u.L[th])
    <3>1. ThreadInv(y.L[th]) BY <1>3, <1>4 DEF Body
    <3> QED BY <1>0, <1>4, <1>10, <3>1, Zenon DEF ThreadInv, Suspended
  <2>4. u.L[th].ci = y.L[th].ci /\ u.L[th].open = y.L[th].open BY <1>0, <1>4, <1>10
  <2> QED BY <1>3, <1>4, <2>1, <2>2, <2>3, <2>4, BodyThread
<1>12. Settled(u.L[th], a, g)
  <2>1. MayCall(a.at, "ccall") /\ (IsRawRun(a) => a.status = "OK") /\ LinkFrames(a, g, z, k)
    BY <1>1, <1>4 DEF Link, LinkKinds
  <2>2. a.at # "unroll" BY <2>1 DEF MayCall, Callers, CoCallers, PlainCallers
  <2>3. k.d = g.d BY <1>1, <2>1, <2>2 DEF LinkFrames, Callers, CoCallers, PlainCallers, Switches
  <2>4. x.status = "OK" /\ Len(x.ci) = k.d BY <1>1 DEF Settled
  <2> QED BY <1>8, <1>10, <2>1, <2>2, <2>3, <2>4 DEF Settled
<1>13. a.at \notin CoCallers
  <2>1. MayCall(a.at, "ccall") BY <1>1, <1>4 DEF Link, LinkKinds
  <2> QED BY <2>1 DEF MayCall, Callers, CoCallers, PlainCallers
<1>14. a = u.C[Len(u.C)] /\ Settled(u.L[a.th], a, G2[Len(u.C)]) BY <1>6, <1>7, <1>10, <1>12
<1> HIDE DEF a, g
<1>15. Holds(u, h, b) BY <1>11, <1>13, <1>14, GoesOn
<1> QED BY <1>15 DEF u, cc, e, y, z, n, c

\* Nothing is left of a stack that was empty.
LEMMA ToppedEmpty ==
  ASSUME NEW s, State(s), NEW th \in Threads, NEW n \in Int, n < 0
  PROVE  LET x == s.L[th]
         IN  Turns(s, settop(s, th, n), th, x.status, x.ci, 0, x.open, x.nC, x.nny)
<1>1. Below(s.L[th].stack, n) \in Seq({}) /\ Len(Below(s.L[th].stack, n)) = 0
  <2>1. 1..n = 1..0 BY SMT
  <2>2. Below(s.L[th].stack, n) \in [1..0 -> {}] BY <2>1 DEF Below
  <2> QED BY <2>2
<1>2. InThread(s, settop(s, th, n), th)
  BY <1>1 DEF settop, InThread, State, IsThread, StateFields, ThreadFields
<1>3. /\ settop(s, th, n).L[th].stack = Below(s.L[th].stack, n)
      /\ \A f \in {"status", "ci", "open", "nC", "nny"} : settop(s, th, n).L[th][f] = s.L[th][f]
  BY DEF settop, State, IsThread, StateFields, ThreadFields
<1> QED BY <1>1, <1>2, <1>3 DEF Turns

\* luaG_errormsg: the handler has returned.
LEMMA HandlerReturns ==
  ASSUME NEW s, NEW G, NEW h, NEW b, NEW th, Runs(s, G, h, b, th), s.C[Len(s.C)].at = "luaG_errormsg"
  PROVE  Holds(AfterHandler(s, th), h, b)
<1>1. Body(s, G, h, b) /\ th = s.C[Len(s.C)].th /\ s.L[th].status = "OK"
  BY DEF Runs, Settled
<1>2. CanThrow(s) BY <1>1 DEF CanThrow
<1>3. ASSUME Len(s.L[th].stack) = 0 PROVE Holds(AfterHandler(s, th), h, b)
  <2> DEFINE x == s.L[th]   n == Len(x.stack)   w == settop(s, th, n - 1)   v == Message("no_error_object")   u == push(w, th, v)   O == x.open
  <2>1. /\ State(s) /\ th \in Threads /\ Stacked(x.ci, n, O) /\ x.ci \in Seq(Frames) /\ O \subseteq 2..n /\ x.status = "OK"
    BY <1>1, TopFacts, Zenon
  <2>2. Len(x.ci) = 1 /\ x.ci[1].func = 1 BY <1>3, <2>1 DEF Stacked
  <2>3. n = 0 /\ n - 1 \in Int /\ n - 1 < 0 /\ O = {}
    <3>1. n = 0 BY <1>3
    <3> HIDE DEF n, O
    <3> QED BY <2>1, <3>1
  <2>4. Turns(s, w, th, x.status, x.ci, 0, x.open, x.nC, x.nny)
    BY <2>1, <2>3, ToppedEmpty
  <2> HIDE DEF w, v
  <2>5. State(w) /\ Len(w.L[th].stack) = 0 BY <2>4 DEF Turns, InThread
  <2>6. Turns(w, u, th, w.L[th].status, w.L[th].ci, Len(w.L[th].stack) + 1, w.L[th].open, w.L[th].nC, w.L[th].nny)
    BY <2>1, <2>5, Pushed
  <2>7. Len(w.L[th].stack) + 1 = 1 BY <2>5
  <2> HIDE DEF u
  <2>8. Turns(s, u, th, x.status, x.ci, 1, O, x.nC, x.nny)
    BY <2>4, <2>6, <2>7 DEF Turns, InThread
  <2>9. Restacks(s, u, th) /\ u.L[th].status = "OK"
    <3>1. O \subseteq 2..1 BY <2>3
    <3>2. /\ InThread(s, u, th) /\ u.L[th].ci = x.ci /\ u.L[th].open = O /\ Len(u.L[th].stack) = 1 /\ u.L[th].status = "OK"
      BY <2>1, <2>8 DEF Turns
    <3>3. x.ci[Len(x.ci)].func <= 1 /\ 1 \in Nat BY <2>2
    <3> HIDE DEF n
    <3> DEFINE r == u.L[th].stack   i == u.L[th].open
    <3>4. Len(r) \in Nat /\ i \subseteq O /\ i \subseteq 2..Len(r) /\ (IF Len(r) = 0 THEN Len(x.ci) = 1 ELSE x.ci[Len(x.ci)].func <= Len(r))
      <4> HIDE DEF r, i, O, x
      <4>1. Len(r) = 1 /\ i = O BY <3>2 DEF r, i
      <4> QED BY <3>1, <3>3, <4>1
    <3> HIDE DEF O, r, i
    <3> QED BY <1>1, <2>1, <3>2, <3>4, Zenon DEF Restacks, r, i, O
  <2>10. Restacks(s, s, th)
    <3> HIDE DEF x, n, O
    <3>1. s.L[th].open = O /\ Len(s.L[th].stack) = 0 /\ Len(s.L[th].ci) = 1 /\ 0 \in Nat BY <2>2, <2>3 DEF x, n, O
    <3> QED BY <1>1, <2>1, <2>3, <3>1 DEF Restacks, InThread
  <2>11. "ERRRUN" \in Failures
    BY DEF Failures
  <2>12. Holds(luaD_throw(s, th, "ERRRUN"), h, b) /\ Holds(luaD_throw(u, th, "ERRRUN"), h, b)
    BY <1>1, <1>2, <2>9, <2>10, <2>11, ThrowAfter
  <2>13. AfterHandler(s, th) = luaD_throw(s, th, "ERRRUN") \/ AfterHandler(s, th) = luaD_throw(u, th, "ERRRUN")
    BY DEF AfterHandler, u, w, v, top
  <2> QED BY <2>12, <2>13
<1>4. ASSUME Len(s.L[th].stack) # 0 PROVE Holds(AfterHandler(s, th), h, b)
  BY <1>1, <1>2, <1>4, HandlerDone
<1> QED BY <1>3, <1>4

-----------------------------------------------------------------------------
(* Closing.                                                                 *)

\* luaF_close: a variable leaves the list, and its method is called ...
LEMMA ClosesVariable ==
  ASSUME NEW s, NEW G, NEW h, NEW b, NEW th, Runs(s, G, h, b, th), s.C[Len(s.C)].at = "luaF_close",
         s.L[th].tbc # << >>, NEW p \in Nat, p >= s.C[Len(s.C)].level
  PROVE  LET a == s.C[Len(s.C)]
         IN  Holds(callclosemethod(prepcallclosemth(CloseVariable(s, th, p), th, p, a.status), th, a.yy), h, b)
<1> DEFINE c == s.C   n == Len(c)   z == c[n]   k == G[n]   x == s.L[th]   q == x.ci   m == Len(q)   f == q[m]   j == Len(x.stack)   O == x.open
           v == poptbclist(s, th)   w == CloseVariable(s, th, p)   y == prepcallclosemth(w, th, p, z.status)   l == z.level
           r == Len(y.L[th].stack)
<1>0. c = s.C /\ n = Len(c) /\ z = c[n] /\ k = G[n] /\ x = s.L[th] /\ q = x.ci /\ m = Len(q) /\ f = q[m] /\ j = Len(x.stack) /\ O = x.open
      /\ l = z.level
  OBVIOUS
<1>1. Body(s, G, h, b) /\ th = z.th /\ Settled(x, z, k) /\ z.at = "luaF_close"
  BY DEF Runs
<1>2. /\ th \in Threads /\ n \in Nat /\ n >= 1 /\ n \in 1..n /\ m \in Nat /\ m >= 1 /\ q \in Seq(Frames) /\ f \in Frames
      /\ z \in Acts /\ k \in Ghosts /\ State(s) /\ Sound(q, O, z, k) /\ IsThread(x) /\ Chain(c, G, h)
      /\ Stacked(q, j, O) /\ j \in Nat /\ O \subseteq 2..j
  BY <1>1, TopFacts, Zenon
<1>3. z \in CloseActs BY <1>1, <1>2, Kinds, Zenon
<1>4. l \in Nat /\ z.status \in Ends \union {"CLOSEKTOP"} /\ z.yy \in BOOLEAN
  BY <1>3 DEF CloseActs
<1>5. k.d = m /\ x.status = "OK" /\ x.nC = k.c /\ x.nny = k.e
  BY <1>0, <1>1 DEF Settled
<1>6. /\ l >= f.func /\ (f.ypcall => l >= f.funcidx) /\ NoneFrom(q, O, m, l) /\ (~z.yy \/ Passes(f))
      /\ (z.status = "CLOSEKTOP" => ~f.ypcall)
  BY <1>0, <1>1, <1>2, <1>5, Zenon DEF Sound, Floored, OpenFrom
<1>7. f.func \in Nat /\ f.func >= 1 /\ f.funcidx \in Nat
  <2>1. q[1].func = 1 /\ 1 \in 1..Len(q) /\ m \in 1..Len(q) /\ 1 <= m BY <1>0, <1>2 DEF Stacked
  <2>2. q[1].func <= q[m].func /\ q[m].func \in Nat BY <1>2, <2>1, FuncsOrdered, Zenon
  <2> DEFINE e == q[m].func
  <2>3. 1 <= e /\ e \in Nat BY <2>1, <2>2
  <2> HIDE DEF e
  <2>4. e = f.func BY <1>0 DEF e
  <2> QED BY <1>2, <2>3, <2>4 DEF Frames
<1>8. \A o \in O : o < l
  <2> SUFFICES ASSUME NEW o \in O, ~(o < l) PROVE FALSE OBVIOUS
  <2>1. o \in Nat /\ o >= l BY <1>2, <1>4
  <2> QED BY <1>0, <2>1, <1>6 DEF NoneFrom
<1> HIDE DEF c, n, z, k, x, q, m, f, j, O, l, r, v, w, y
<1>9. p >= l BY <1>0
<1>10. Turns(s, w, th, x.status, q, j, O, x.nC, x.nny)
  <2>1. Turns(s, v, th, x.status, q, j, O, x.nC, x.nny)
    <3>1. Front(s.L[th].tbc) \in Seq(Nat)
      <4>1. s.L[th].tbc \in Seq(Nat) BY <1>0, <1>2 DEF IsThread
      <4>2. s.L[th].tbc # << >> OBVIOUS
      <4> DEFINE t == s.L[th].tbc   e == Len(t) - 1
      <4>4. t \in Seq(Nat) /\ t # << >> BY <4>1, <4>2
      <4> HIDE DEF t
      <4>3. e \in Nat /\ e <= Len(t)
        <5>1. Len(t) # 0 /\ Len(t) \in Nat BY <4>4
        <5> QED BY <5>1
      <4>5. SubSeq(t, 1, e) \in Seq(Nat)
        <5>1. \A i \in 1..e : i \in 1..Len(t) BY <4>3, <4>4
        <5> HIDE DEF e
        <5> QED BY <4>3, <4>4, <5>1
      <4> QED BY <4>5 DEF Front, t
    <3> QED BY <1>0, <1>2, <3>1, Listed DEF v, poptbclist
  <2>2. State(v) BY <2>1 DEF Turns, InThread
  <2>3. Same(v, w)
    <3> DEFINE left == SelectSeq(s.scopes[th], LAMBDA e : <<"closable", e.var>> # s.L[th].stack[p])
               sc == IF left = v.scopes[th] THEN Append(v.scopes[th], S!Variable(s.L[th].stack[p][2])) ELSE left
    <3>1. w = [v EXCEPT !.scopes[th] = sc] BY DEF w, CloseVariable, v
    <3> HIDE DEF sc
    <3> QED BY <2>2, <3>1, History
  <2> QED BY <2>1, <2>3 DEF Turns, InThread, Same, InC
<1>11. /\ State(w) /\ w.L[th].status = x.status /\ w.L[th].ci = q /\ Len(w.L[th].stack) = j /\ w.L[th].open = O
       /\ w.L[th].nC = x.nC /\ w.L[th].nny = x.nny /\ w.C = c
  BY <1>0, <1>10 DEF Turns, InThread
<1>12. (j # 0 => f.func <= j) /\ (z.status = "CLOSEKTOP" => j # 0)
  <2>1. j # 0 => f.func <= j BY <1>0, <1>2 DEF Stacked
  <2>2. j = 0 => m = 1 BY <1>0, <1>2 DEF Stacked
  <2>3. z.status = "CLOSEKTOP" => m # 1
    <3> SUFFICES ASSUME z.status = "CLOSEKTOP", m = 1 PROVE FALSE OBVIOUS
    <3> DEFINE i == n - 1   a == c[i]   g == G[i]
    <3>1. z.at # "host" BY <1>1
    <3>2. Link(a, g, z, k) /\ i \in 1..n /\ a \in Acts BY <1>0, <1>2, <3>1, Pair
    <3>3. LinkKinds(a, z) /\ LinkFrames(a, g, z, k) BY <3>2 DEF Link
    <3>4. a.at \in {"execute", "C_function", "unroll"}
      BY <1>1, <3>3 DEF LinkKinds, MayCall, Callers, CoCallers, PlainCallers
    <3>5. a.at # "unroll" BY <1>5, <3>3 DEF LinkFrames
    <3>6. g.d = 1 BY <1>1, <1>5, <3>3, <3>5 DEF LinkFrames, Callers, CoCallers, PlainCallers, Switches
    <3>7. a.th = th BY <1>1, <3>2 DEF Link, LinkThreads, Switches
    <3>8. Sound(q, O, a, g)
      <4>1. Live(c, i, n)
        <5>1. \A o \in (i + 1)..n : o = n BY <1>2
        <5>2. c[n].at # "lua_closethread" BY <1>0, <1>1, Zenon
        <5> HIDE DEF i
        <5> QED BY <5>1, <5>2 DEF Live
      <4>2. Sound(s.L[c[i].th].ci, s.L[c[i].th].open, c[i], G[i]) BY <1>0, <1>1, <3>2, <4>1, Zenon DEF Body, Fits
      <4> QED BY <1>0, <3>7, <4>2
    <3>9. ~q[1].lua BY <1>2 DEF Stacked
    <3> QED BY <3>4, <3>5, <3>6, <3>8, <3>9 DEF Sound, Callers, PlainCallers
  <2> QED BY <2>1, <2>2, <2>3
<1>13. PICK i \in Nat : /\ i + 1 >= l \/ z.status = "CLOSEKTOP"
                        /\ Turns(s, y, th, x.status, q, i, O, x.nC, x.nny) /\ i >= f.func /\ O \subseteq 2..i
                        /\ f.ypcall => i + 1 >= f.funcidx
  <2> DEFINE e == f.func   d == f.funcidx
  <2>0. e \in Nat /\ d \in Nat /\ l >= e /\ (f.ypcall => l >= d) /\ l \in Nat /\ p \in Nat /\ p >= l /\ (j # 0 => e <= j)
    BY <1>4, <1>6, <1>7, <1>9, <1>12
  <2> HIDE DEF e, d
  <2>1. CASE z.status = "OK"
    <3>1. y = settop(w, th, p) BY <2>1 DEF y, prepcallclosemth
    <3>2. Turns(w, y, th, w.L[th].status, w.L[th].ci, p, w.L[th].open, w.L[th].nC, w.L[th].nny)
      BY <1>2, <1>11, <3>1, Topped
    <3>3. Turns(s, y, th, x.status, q, p, O, x.nC, x.nny) BY <1>10, <1>11, <3>2, TurnsAgain
    <3>4. p >= e /\ p + 1 >= l /\ O \subseteq 2..p /\ (f.ypcall => p + 1 >= d) BY <1>2, <1>8, <2>0
    <3> QED BY <3>3, <3>4 DEF e, d
  <2>2. CASE z.status = "CLOSEKTOP"
    <3>1. y = w BY <2>2 DEF y, prepcallclosemth
    <3>2. j >= e /\ ~f.ypcall BY <1>2, <1>6, <1>12, <2>0, <2>2
    <3> QED BY <1>2, <1>10, <2>2, <3>1, <3>2 DEF e, d
  <2>3. CASE z.status \notin {"OK", "CLOSEKTOP"}
    <3> DEFINE o == p + 1
    <3>1. y = luaD_seterrorobj(w, th, z.status, o) BY <2>3 DEF y, prepcallclosemth
    <3>2. o \in Nat \ {0} BY <2>0
    <3>4. o >= e /\ o + 1 >= l /\ O \subseteq 2..o /\ (f.ypcall => o + 1 >= d) BY <1>2, <1>8, <2>0
    <3> HIDE DEF o
    <3>3. Turns(w, y, th, w.L[th].status, w.L[th].ci, o, w.L[th].open, w.L[th].nC, w.L[th].nny)
      BY <1>2, <1>11, <3>1, <3>2, ErrorSet
    <3>5. Turns(s, y, th, x.status, q, o, O, x.nC, x.nny) BY <1>10, <1>11, <3>3, TurnsAgain
    <3> QED BY <3>2, <3>4, <3>5 DEF e, d
  <2> QED BY <2>1, <2>2, <2>3
<1> DEFINE t == i + 1   u == push(y, th, Function)
<1>14. t \in Nat /\ t = i + 1 OBVIOUS
<1> HIDE DEF t, u
<1>15. Turns(s, u, th, x.status, q, t, O, x.nC, x.nny)
  <2>1. State(y) /\ y.L[th].status = x.status /\ y.L[th].ci = q /\ Len(y.L[th].stack) = i /\ y.L[th].open = O
        /\ y.L[th].nC = x.nC /\ y.L[th].nny = x.nny
    BY <1>13 DEF Turns, InThread
  <2>2. Turns(y, u, th, y.L[th].status, y.L[th].ci, t, y.L[th].open, y.L[th].nC, y.L[th].nny)
    BY <1>2, <1>14, <2>1, Pushed DEF u
  <2> QED BY <1>13, <2>1, <2>2, TurnsAgain
<1>16. /\ InThread(s, u, th) /\ u.C = c /\ u.L[th].status = x.status /\ u.L[th].ci = q /\ Len(u.L[th].stack) = t /\ u.L[th].open = O
       /\ u.L[th].nC = x.nC /\ u.L[th].nny = x.nny
  BY <1>0, <1>15 DEF Turns, InThread
<1>17. /\ t > f.func /\ (f.ypcall => t >= f.funcidx) /\ (\A o \in O : o < t) /\ O \subseteq 2..t /\ t # 0 /\ f.func <= t
       /\ l <= t \/ z.status = "CLOSEKTOP"
  <2> DEFINE e == f.func   d == f.funcidx
  <2>1. e \in Nat /\ d \in Nat /\ i >= e /\ O \subseteq 2..i /\ (f.ypcall => i + 1 >= d) /\ (i + 1 >= l \/ z.status = "CLOSEKTOP") /\ l \in Nat
    BY <1>4, <1>7, <1>13
  <2> HIDE DEF e, d
  <2>2. t > e /\ (f.ypcall => t >= d) /\ (\A o \in O : o < t) /\ O \subseteq 2..t /\ t # 0 /\ e <= t /\ (l <= t \/ z.status = "CLOSEKTOP")
    BY <1>14, <2>1
  <2> QED BY <2>2 DEF e, d
<1>18. Body(u, G, h, b)
  <2>1. Restacks(s, u, th) BY <1>0, <1>1, <1>2, <1>14, <1>16, <1>17, Zenon DEF Restacks
  <2> QED BY <1>1, <2>1, BodyStack
<1>19. Room(c, G, q, O, t)
  <2> SUFFICES ASSUME NEW o \in 1..n, c[o].th = c[n].th, Live(c, o, n), Levelled(c[o]), G[o].d = m PROVE c[o].level <= t
    BY <1>0, <1>14, <1>17, Zenon DEF Room
  <2>1. o # n BY <1>0, <1>1, Zenon DEF Levelled
  <2>2. o \in 1..(n - 1) BY <1>2, <2>1
  <2>3. Ordered(c, G, n) BY <1>0, <1>2, JumpTarget
  <2>4. c[o].level = z.level /\ z.status # "CLOSEKTOP" BY <1>0, <1>1, <1>5, <2>2, <2>3, Zenon DEF Ordered
  <2> QED BY <1>0, <1>17, <2>4
<1>20. Poised(u, G, h, b, t)
  <2>1. th = z.th /\ z = u.C[Len(u.C)] /\ Len(u.C) = n BY <1>0, <1>1, <1>16, Zenon
  <2>2. Settled(u.L[th], z, G[n]) BY <1>0, <1>1, <1>16, SettledAgain, Zenon
  <2>3. t <= Len(u.L[th].stack) BY <1>14, <1>16
  <2>4. Room(u.C, G, u.L[th].ci, u.L[th].open, t) BY <1>16, <1>19
  <2> QED BY <1>18, <2>1, <2>2, <2>3, <2>4, Zenon DEF Poised
<1>21. th = u.C[Len(u.C)].th /\ u.C[Len(u.C)] = z /\ u.C[Len(u.C)].at = "luaF_close" BY <1>0, <1>1, <1>16, Zenon
<1>22. ASSUME NEW e \in {0, 1}, z.yy => e = 0, ~z.yy => e = 1 PROVE Holds(ccall(u, th, t, 0, 1, e), h, b)
  <2>1. CanCall(u, G, 1, e)
    <3>1. MayCall("luaF_close", "ccall") BY DEF MayCall
    <3>2. e = 1 \/ Passes(q[G[n].d]) BY <1>0, <1>4, <1>5, <1>6, <1>22
    <3>3. n = Len(u.C) BY <1>0, <1>16
    <3> QED BY <1>4, <1>16, <1>21, <1>22, <3>1, <3>2, <3>3 DEF CanCall
  <2> QED BY <1>20, <1>21, <2>1, CCall
<1>23. callclosemethod(y, th, z.yy) = ccall(u, th, t, 0, 1, IF z.yy THEN 0 ELSE 1)
  <2>1. top(u, th) = t BY <1>16 DEF top
  <2> QED BY <2>1 DEF callclosemethod, luaD_call, luaD_callnoyield, u
<1>24. Holds(callclosemethod(y, th, z.yy), h, b)
  BY <1>4, <1>22, <1>23
<1> QED BY <1>24 DEF y, w, z, n, c

\* ... or there are no more.
LEMMA CloseLoops ==
  ASSUME NEW s, NEW G, NEW h, NEW b, NEW th, Runs(s, G, h, b, th), s.C[Len(s.C)].at = "luaF_close"
  PROVE  Holds(CloseLoop(s), h, b)
<1> DEFINE z == s.C[Len(s.C)]   q == s.L[th].tbc   p == Last(q)
<1>1. Body(s, G, h, b) /\ th = z.th /\ z.at = "luaF_close"
  BY DEF Runs
<1>2. Last(s.C) = z /\ q \in Seq(Nat)
  BY <1>1, TopFacts, Zenon DEF IsThread
<1>3. ASSUME Pending(s, th, z.level)
      PROVE  Holds(callclosemethod(prepcallclosemth(CloseVariable(s, th, p), th, p, z.status), th, z.yy), h, b)
  <2>1. q # << >> /\ p >= z.level BY <1>3 DEF Pending
  <2>2. p \in Nat BY <1>2, <2>1 DEF Last
  <2> HIDE DEF p
  <2> QED BY <1>1, <2>1, <2>2, ClosesVariable
<1>4. Holds(PopC(s), h, b)
  <2> DEFINE l == Len(s.C) - 1   u == PopC(s)   G2 == SubSeq(G, 1, l)   a == u.C[Len(u.C)]
  <2>1. /\ Runs(u, G2, h, b, th) /\ a = s.C[l] /\ Link(s.C[l], G[l], z, G[Len(s.C)])
    BY <1>1, PopsOn
  <2>2. a.at \notin CoCallers
    BY <1>1, <2>1 DEF Link, LinkKinds, MayCall, Callers, CoCallers, PlainCallers
  <2> HIDE DEF u, G2
  <2> QED BY <2>1, <2>2, GoesOn, Zenon DEF Runs, u
<1> QED BY <1>1, <1>2, <1>3, <1>4 DEF CloseLoop, Top

\* After an error the frames above frame d are dropped, and the upvalues from
\* a level on are closed.
CutsTo(s, G, th, d, level) ==
    LET x == s.L[th]   q == x.ci
    IN  /\ th = s.C[Len(s.C)].th /\ d \in 1..Len(q) /\ level \in Nat /\ (d < Len(q) => level <= q[d + 1].func)
        /\ \A k \in 1..Len(s.C) : s.C[k].th = th /\ Live(s.C, k, Len(s.C)) => G[k].d <= d
\* The activations rely on nothing that is dropped.
LEMMA CutBack ==
  ASSUME NEW s, NEW G, NEW h, NEW b, Body(s, G, h, b), NEW th, NEW d, NEW level, CutsTo(s, G, th, d, level),
         NEW u, NEW cc, NEW e,
         Turns(s, u, th, "OK", SubSeq(s.L[th].ci, 1, d), Len(s.L[th].stack), {o \in s.L[th].open : o < level}, cc, e)
  PROVE  Body(u, G, h, b)
<1> DEFINE x == s.L[th]   q == x.ci   m == Len(q)   r == SubSeq(q, 1, d)   j == Len(x.stack)   O == {o \in x.open : o < level}   n == Len(s.C)
<1>1. /\ th = s.C[n].th /\ d \in 1..m /\ level \in Nat /\ (d < m => level <= q[d + 1].func)
      /\ \A k \in 1..n : s.C[k].th = th /\ Live(s.C, k, n) => G[k].d <= d
  BY Zenon DEF CutsTo
<1>2. /\ m \in Nat /\ m >= 1 /\ q \in Seq(Frames) /\ Stacked(q, j, x.open) /\ j \in Nat /\ x.open \subseteq 2..j
      /\ G \in Seq(Ghosts) /\ Len(G) = n /\ n \in Nat
  BY <1>1, TopFacts, Zenon
<1>3. /\ InThread(s, u, th) /\ u.L[th].status = "OK" /\ u.L[th].ci = r /\ u.L[th].open = O /\ Len(u.L[th].stack) = j
  BY DEF Turns
<1> HIDE DEF x, q, m, r, j, n
<1>4. d \in Nat /\ d <= m BY <1>1, <1>2
<1>5. r \in Seq(Frames) /\ Len(r) = d /\ \A i \in 1..d : r[i] = q[i]
  <2>1. \A i \in 1..d : i \in 1..Len(q) BY <1>2, <1>4 DEF m
  <2>2. d <= Len(q) BY <1>4 DEF m
  <2>3. SubSeq(q, 1, d) \in Seq(Frames) BY <1>2, <1>4, <2>1
  <2>4. Len(SubSeq(q, 1, d)) = d BY <1>4, <1>2, <2>2
  <2>5. \A i \in 1..d : SubSeq(q, 1, d)[i] = q[i] BY <1>4, <1>2, <2>2
  <2> QED BY <2>3, <2>4, <2>5 DEF r
<1>6. O \in SUBSET x.open /\ O \subseteq 2..j /\ (d < m => \A o \in O : o < q[d + 1].func)
  <2>1. O \in SUBSET x.open /\ O \subseteq 2..j BY <1>2
  <2>2. ASSUME d < m, NEW o \in O PROVE o < q[d + 1].func
    <3>1. o < level /\ o \in Nat /\ level \in Nat /\ level <= q[d + 1].func BY <1>1, <1>2, <2>1, <2>2
    <3>2. q[d + 1].func \in Nat
      <4>1. d + 1 \in 1..Len(q) BY <1>2, <1>4, <2>2 DEF m
      <4> QED BY <1>2, <4>1, FrameTypes
    <3> DEFINE i == q[d + 1].func
    <3>3. o < level /\ o \in Nat /\ level \in Nat /\ level <= i /\ i \in Nat BY <3>1, <3>2
    <3> HIDE DEF i
    <3>4. o < i BY <3>3
    <3> QED BY <3>4 DEF i
  <2> QED BY <2>1, <2>2
<1>7. Stacked(r, j, O)
  <2>1. CASE j = 0
    <3>1. m = 1 BY <1>2, <2>1 DEF Stacked, m
    <3>2. d = 1 BY <1>4, <1>1, <3>1
    <3>3. r = q
      <4>1. Len(r) = Len(q) /\ \A i \in 1..Len(r) : r[i] = q[i] BY <1>5, <3>1, <3>2 DEF m
      <4> QED BY <1>2, <1>5, <4>1, SeqEqual
    <3>4. IF j = 0 THEN Len(q) = 1 ELSE q[Len(q)].func <= j BY <2>1, <3>1 DEF m
    <3> HIDE DEF O
    <3> QED BY <1>2, <1>6, <3>3, <3>4, StackClose
  <2>2. CASE j # 0
    <3>1. q[d].func <= j
      <4>1. d \in 1..Len(q) /\ m \in 1..Len(q) BY <1>1, <1>2 DEF m
      <4>2. q[d].func <= q[m].func /\ q[d].func \in Nat /\ q[m].func \in Nat BY <1>2, <1>4, <4>1, FuncsOrdered
      <4>3. q[m].func <= j BY <1>2, <2>2 DEF Stacked, m
      <4> DEFINE i == q[d].func   l == q[m].func
      <4>4. i <= l /\ i \in Nat /\ l \in Nat /\ l <= j BY <4>2, <4>3
      <4> HIDE DEF i, l
      <4>5. i <= j BY <1>2, <4>4
      <4> QED BY <4>5 DEF i
    <3>2. d \in 1..Len(q) /\ (d < Len(q) => \A o \in O : o < q[d + 1].func) BY <1>1, <1>6, Zenon DEF m
    <3> HIDE DEF O
    <3> QED BY <1>2, <1>5, <1>6, <3>1, <3>2, StackCut
  <2> QED BY <2>1, <2>2
<1>8. ASSUME NEW k \in 1..n, s.C[k].th = th, Live(s.C, k, n), G[k] \in Ghosts, Sound(q, x.open, s.C[k], G[k])
      PROVE  Sound(r, O, s.C[k], G[k])
  <2>1. G[k].d <= d BY <1>1, <1>8, Zenon
  <2>2. d < Len(q) /\ G[k].d = d => \A o \in O : ~(o >= q[d + 1].func)
    <3> SUFFICES ASSUME d < Len(q), NEW o \in O, o >= q[d + 1].func PROVE FALSE OBVIOUS
    <3> DEFINE i == q[d + 1].func
    <3>1. i \in Nat
      <4>1. d + 1 \in 1..Len(q) BY <1>2, <1>4
      <4> QED BY <1>2, <4>1, FrameTypes
    <3>2. o < i /\ o >= i /\ o \in Nat BY <1>2, <1>6 DEF m
    <3> HIDE DEF i
    <3> QED BY <3>1, <3>2
  <2>3. d <= Len(q) BY <1>4 DEF m
  <2> HIDE DEF O
  <2> QED BY <1>2, <1>4, <1>5, <1>6, <1>8, <2>1, <2>2, <2>3, SoundCut, ZenonT(60)
<1>9. Reframes(s, G, u)
  BY <1>1, <1>3, <1>7, <1>8, Zenon DEF Reframes, n, x, q
<1> QED BY <1>9, BodyFrames

\* luaD_closeprotected begins, when nothing is open from the level on.
ProtectsClose(w, G, th, level) ==
    LET n == Len(w.C)   z == w.C[n]   x == w.L[th]   f == x.ci[Len(x.ci)]
    IN  /\ th = z.th /\ z.at \in {"luaD_pcall_error", "lua_closethread"} /\ Settled(x, z, G[n])
        /\ level \in Nat /\ level >= f.func /\ (f.ypcall => level >= f.funcidx)
        /\ z.at = "lua_closethread" => level = 2
        /\ \A o \in x.open : o < level
\* Closing begins.
LEMMA ClosesProtected ==
  ASSUME NEW w, NEW G, NEW h, NEW b, Body(w, G, h, b), NEW th, NEW level, ProtectsClose(w, G, th, level), NEW status \in Ends
  PROVE  Holds(PushC(PushC(w, [RawRun("closeprotected", w, th, level) EXCEPT !.closing = status]),
                     [at |-> "luaF_close", th |-> th, level |-> level, status |-> status, yy |-> FALSE]), h, b)
<1> DEFINE n == Len(w.C)   z == w.C[n]   k == G[n]   x == w.L[th]   q == x.ci   m == Len(q)   f == q[m]   O == x.open
           a == [RawRun("closeprotected", w, th, level) EXCEPT !.closing = status]   u == PushC(w, a)
           g == [d |-> m, b |-> 0, c |-> k.c, e |-> k.e, j |-> n + 1]
<1>0. n = Len(w.C) /\ z = w.C[n] /\ k = G[n] /\ x = w.L[th] /\ q = x.ci /\ m = Len(q) /\ f = q[m] /\ O = x.open
  OBVIOUS
<1>1. /\ th = z.th /\ z.at \in {"luaD_pcall_error", "lua_closethread"} /\ Settled(x, z, k)
      /\ level \in Nat /\ level >= f.func /\ (f.ypcall => level >= f.funcidx)
      /\ (z.at = "lua_closethread" => level = 2)
      /\ \A o \in O : o < level
  BY Zenon DEF ProtectsClose
<1>2. /\ th \in Threads /\ n \in Nat /\ n >= 1 /\ n \in 1..n /\ Len(G) = n /\ m \in Nat /\ m >= 1 /\ q \in Seq(Frames)
      /\ w.C \in Seq(Acts) /\ G \in Seq(Ghosts) /\ z \in Acts /\ k \in Ghosts /\ State(w) /\ Sound(q, O, z, k)
      /\ Stacked(q, Len(x.stack), O) /\ O \subseteq 2..Len(x.stack) /\ IsThread(x)
  BY <1>1, TopFacts, Zenon
<1>3. /\ k.d \in Nat \ {0} /\ k.c \in Int /\ k.e \in Nat /\ k.d = m
      /\ x.status = "OK" /\ x.nC = k.c /\ x.nny = k.e
  BY <1>0, <1>1, <1>2, Zenon DEF Ghosts, Settled
<1>4. /\ a.at = "closeprotected" /\ a.th = th /\ a.status = "OK" /\ a.nC = x.nC /\ a.nny = x.nny /\ a.old_ci = m
      /\ a.level = level /\ a.errfunc = x.errfunc /\ a.closing = status
      /\ DOMAIN a = {"at", "th", "status", "nC", "nny", "old_ci", "level", "errfunc", "closing"}
      /\ a = [at |-> a.at, th |-> a.th, status |-> a.status, nC |-> a.nC, nny |-> a.nny, old_ci |-> a.old_ci,
              level |-> a.level, errfunc |-> a.errfunc, closing |-> a.closing]
  BY DEF RawRun
<1> HIDE DEF n, z, k, x, q, m, f, u, O, a
<1>5. a \in Acts
  <2>1. a \in RawActs
    <3>1. "OK" \in Statuses /\ x.errfunc \in Nat BY <1>2 DEF Statuses, IsThread
    <3>2. a.at \in {"luaD_pcall", "closeprotected", "lua_resume", "luaD_pcall_error"} /\ a.th \in Threads /\ a.status \in Statuses
          /\ a.nC \in Int /\ a.nny \in Nat /\ a.old_ci \in Nat /\ a.level \in Nat /\ a.errfunc \in Nat /\ a.closing \in Ends
      BY <1>1, <1>2, <1>3, <1>4, <3>1
    <3> QED BY <1>4, <3>2 DEF RawActs
  <2> QED BY <2>1 DEF Acts
<1>6. InC(w, u) /\ u.C = Append(w.C, a) /\ u.L = w.L
  <2>1. u = [w EXCEPT !.C = Append(w.C, a)] BY DEF u, PushC
  <2> QED BY <1>2, <2>1 DEF InC, State, StateFields
<1>7. g \in Ghosts /\ g.d = m /\ g.b = 0 /\ g.c = k.c /\ g.e = k.e /\ g.j = n + 1
  BY <1>2, <1>3 DEF Ghosts
<1> HIDE DEF g
<1>8. Calls(w.C, G, a, g)
  <2>1. LinkThreads(z, a) BY <1>1, <1>4 DEF LinkThreads, Switches
  <2>2. LinkKinds(z, a)
    <3>1. MayCall(z.at, a.at) BY <1>1, <1>4 DEF MayCall
    <3>2. ~IsRawRun(z) /\ a.at # "ccall" /\ z.at # "closeprotected" BY <1>1, <1>4 DEF IsRawRun
    <3> QED BY <1>1, <1>4, <3>1, <3>2 DEF LinkKinds
  <2>3. LinkCounts(k, a, g) BY <1>3, <1>4, <1>7 DEF LinkCounts, Switches
  <2>4. LinkFrames(z, k, a, g)
    BY <1>1, <1>3, <1>4, <1>7 DEF LinkFrames, Callers, CoCallers, PlainCallers, Switches
  <2>5. Own(a, g) BY <1>3, <1>4, <1>7 DEF Own, IsRawRun
  <2>6. g.j = Target(a, n + 1, k.j) /\ a.at \notin Switches BY <1>4, <1>7 DEF Target, IsRawRun, Switches
  <2>7. Link(z, k, a, g) BY <2>1, <2>2, <2>3, <2>4 DEF Link
  <2> QED BY <1>0, <1>1, <1>4, <1>5, <1>7, <2>5, <2>6, <2>7, Zenon DEF Calls
<1>9. Sound(q, O, a, g)
  <2>1. g.e = 0 => \A i \in 2..(g.d - 1) : Passes(q[i]) BY <1>2, <1>3, <1>7 DEF Sound
  <2>2. NoneFrom(q, O, g.d, level)
    <3> SUFFICES ASSUME NEW o \in O, o >= level PROVE FALSE BY DEF NoneFrom
    <3>1. o \in Nat /\ o < level BY <1>1, <1>2
    <3> QED BY <1>1, <3>1
  <2>3. g.d <= Len(q) /\ q[g.d] = f /\ ~(g.d < Len(q)) BY <1>0, <1>2, <1>7
  <2> QED BY <1>1, <1>4, <2>1, <2>2, <2>3 DEF Sound, Floored, Levelled, OpenFrom, Callers, CoCallers, PlainCallers
<1> DEFINE G2 == Append(G, g)
<1>10. Body(u, G2, h, b)
  <2>1. Sound(w.L[a.th].ci, w.L[a.th].open, a, g) /\ a.th = w.C[Len(w.C)].th BY <1>0, <1>1, <1>4, <1>9, Zenon
  <2> QED BY <1>6, <1>8, <2>1, BodyPush, Zenon
<1>11. Len(u.C) = n + 1 /\ u.C[Len(u.C)] = a /\ G2[Len(u.C)] = g
  <2>1. w.C \in Seq(Acts) /\ G \in Seq(Ghosts) /\ Len(w.C) = Len(G) /\ n = Len(w.C) BY <1>0, <1>2
  <2>2. Len(Append(w.C, a)) = n + 1 /\ Append(w.C, a)[n + 1] = a /\ Append(G, g)[n + 1] = g
    BY <1>5, <1>7, <2>1, AppendAct
  <2> QED BY <1>6, <2>2
<1> HIDE DEF G2
<1>12. MayClose(u, G2, level, status, FALSE)
  <2>1. Settled(u.L[a.th], a, g) BY <1>0, <1>3, <1>4, <1>6, <1>7 DEF Settled
  <2>2. MayCall("closeprotected", "luaF_close") BY DEF MayCall
  <2>3. status \in Ends \union {"CLOSEKTOP"} /\ status # "CLOSEKTOP" BY DEF Ends, Failures
  <2>4. u.L[a.th].ci = q /\ f = q[Len(q)] BY <1>0, <1>4, <1>6
  <2> QED BY <1>1, <1>4, <1>11, <2>1, <2>2, <2>3, <2>4, Zenon DEF MayClose
<1>13. th = u.C[Len(u.C)].th /\ \A o \in u.L[th].open : o < level
  BY <1>0, <1>1, <1>4, <1>6, <1>11, Zenon
<1>14. Holds(PushC(u, [at |-> "luaF_close", th |-> th, level |-> level, status |-> status, yy |-> FALSE]), h, b)
  BY <1>10, <1>12, <1>13, ClosePushed
<1> QED BY <1>14 DEF u, a

\* The upvalues are closed after luaD_closeprotected is there.
LEMMA ClosingProtected ==
  ASSUME NEW s, State(s), NEW th \in Threads, NEW level,
         NEW G, NEW h, NEW b, Body(luaF_closeupval(s, th, level), G, h, b), ProtectsClose(luaF_closeupval(s, th, level), G, th, level),
         NEW status \in Ends
  PROVE  Holds(luaD_closeprotected(s, th, level, status), h, b)
<1> DEFINE w == luaF_closeupval(s, th, level)   a == [RawRun("closeprotected", w, th, level) EXCEPT !.closing = status]
           a2 == [RawRun("closeprotected", s, th, level) EXCEPT !.closing = status]
           l == [at |-> "luaF_close", th |-> th, level |-> level, status |-> status, yy |-> FALSE]
           y == PushC(PushC(w, a), l)   u == luaD_closeprotected(s, th, level, status)
<1>1. Holds(y, h, b) BY ClosesProtected
<1>2. w = [s EXCEPT !.L[th].open = {p \in s.L[th].open : p < level}] BY DEF luaF_closeupval
<1>3. State(w) /\ w.C = s.C BY Closed DEF Turns, InThread
<1>4. a = a2
  <2>1. w.L[th].nC = s.L[th].nC /\ w.L[th].nny = s.L[th].nny /\ w.L[th].errfunc = s.L[th].errfunc /\ w.L[th].ci = s.L[th].ci
    BY <1>2 DEF State, IsThread, StateFields, ThreadFields
  <2> HIDE DEF w
  <2> QED BY <2>1 DEF RawRun
<1>5. y.L = w.L /\ y.gcstp = w.gcstp /\ y.C = Append(Append(w.C, a), l)
  <2> HIDE DEF w, a, l
  <2> QED BY <1>3 DEF PushC, State, StateFields
<1> HIDE DEF w, a, a2, l, y
<1> DEFINE v == PushC(s, a2)
<1>6. v = [s EXCEPT !.C = Append(s.C, a2)] BY DEF PushC
<1>7. State(v) /\ v.L = s.L /\ v.C = Append(s.C, a2) /\ v.gcstp = s.gcstp
  <2> HIDE DEF v
  <2> QED BY <1>6 DEF State, StateFields
<1> HIDE DEF v
<1> DEFINE r == luaF_closeupval(v, th, level)
<1>8. r = [v EXCEPT !.L[th].open = {p \in v.L[th].open : p < level}] BY DEF luaF_closeupval
<1>9. State(r) /\ r.C = v.C /\ r.gcstp = v.gcstp
  <2> HIDE DEF r
  <2>1. Turns(v, luaF_closeupval(v, th, level), th, v.L[th].status, v.L[th].ci, Len(v.L[th].stack), {o \in v.L[th].open : o < level},
              v.L[th].nC, v.L[th].nny)
    BY <1>7, Closed
  <2> QED BY <2>1 DEF Turns, InThread, r
<1>10. r.L = w.L /\ r.gcstp = w.gcstp
  <2> HIDE DEF r
  <2> QED BY <1>2, <1>7, <1>8 DEF State, StateFields
<1>11. u = PushC(r, l) BY DEF luaD_closeprotected, luaF_close, r, v, a2, l, u
<1> HIDE DEF r, u
<1>12. State(u) /\ u.L = r.L /\ u.gcstp = r.gcstp /\ u.C = Append(r.C, l)
  BY <1>9, <1>11 DEF PushC, State, StateFields
<1>13. Same(y, u)
  BY <1>3, <1>4, <1>5, <1>7, <1>9, <1>10, <1>12 DEF Same, InC
<1> QED BY <1>1, <1>13, HoldsSame DEF u

\* The frames are dropped, and luaD_closeprotected begins.
RecoversAt(s, G, th, level) ==
    LET n == Len(s.C)   z == s.C[n]   x == s.L[th]   q == x.ci   d == G[n].d
    IN  /\ th = z.th /\ z.at \in {"luaD_pcall_error", "lua_closethread"} /\ (z.at = "lua_closethread" => level = 2)
        /\ x.status = "OK" /\ x.nC = G[n].c /\ x.nny = G[n].e
        /\ level \in Nat /\ level >= q[d].func /\ (q[d].ypcall => level >= q[d].funcidx) /\ (d < Len(q) => level <= q[d + 1].func)
\* Nothing that they rely on is dropped.
LEMMA Recovers ==
  ASSUME NEW s, NEW G, NEW h, NEW b, Body(s, G, h, b), NEW th, NEW level, RecoversAt(s, G, th, level), NEW status \in Ends
  PROVE  Holds(luaD_closeprotected([s EXCEPT !.L[th].ci = SubSeq(@, 1, G[Len(s.C)].d)], th, level, status), h, b)
<1> DEFINE n == Len(s.C)   z == s.C[n]   k == G[n]   x == s.L[th]   q == x.ci   d == k.d   r == SubSeq(q, 1, d)
           u == [s EXCEPT !.L[th].ci = r]   w == luaF_closeupval(u, th, level)   O == {o \in x.open : o < level}
<1>0. n = Len(s.C) /\ z = s.C[n] /\ k = G[n] /\ x = s.L[th] /\ q = x.ci /\ d = k.d /\ r = SubSeq(q, 1, d)
  OBVIOUS
<1>1. /\ th = z.th /\ z.at \in {"luaD_pcall_error", "lua_closethread"} /\ (z.at = "lua_closethread" => level = 2)
      /\ x.status = "OK" /\ x.nC = k.c /\ x.nny = k.e
      /\ level \in Nat /\ level >= q[d].func /\ (q[d].ypcall => level >= q[d].funcidx) /\ (d < Len(q) => level <= q[d + 1].func)
  BY Zenon DEF RecoversAt
<1>2. /\ th \in Threads /\ n \in Nat /\ n \in 1..n /\ q \in Seq(Frames) /\ Len(q) \in Nat /\ d \in Nat /\ d >= 1 /\ d <= Len(q) /\ State(s)
      /\ Chain(s.C, G, h)
  BY <1>1, TopFacts, Zenon
<1> HIDE DEF n, z, k, x, q, d, r, u, w
<1>3. r \in Seq(Frames) /\ Len(r) = d /\ \A i \in 1..d : r[i] = q[i]
  <2>1. \A i \in 1..d : i \in 1..Len(q) BY <1>2
  <2> QED BY <1>0, <1>2, <2>1
<1>4. Turns(s, u, th, x.status, r, Len(x.stack), x.open, x.nC, x.nny)
  BY <1>0, <1>2, <1>3, Framed DEF u
<1>5. State(u) /\ u.C = s.C /\ u.L[th].status = x.status /\ u.L[th].ci = r /\ Len(u.L[th].stack) = Len(x.stack) /\ u.L[th].open = x.open
      /\ u.L[th].nC = x.nC /\ u.L[th].nny = x.nny
  BY <1>4 DEF Turns, InThread
<1>6. Turns(s, w, th, "OK", r, Len(x.stack), O, x.nC, x.nny)
  <2>1. Turns(u, w, th, u.L[th].status, u.L[th].ci, Len(u.L[th].stack), {o \in u.L[th].open : o < level}, u.L[th].nC, u.L[th].nny)
    BY <1>2, <1>5, Closed DEF w
  <2>2. {o \in u.L[th].open : o < level} = O BY <1>5
  <2> HIDE DEF O
  <2>3. Turns(u, w, th, "OK", r, Len(x.stack), O, x.nC, x.nny) BY <1>1, <1>5, <2>1, <2>2
  <2>4. Turns(s, u, th, x.status, r, Len(x.stack), x.open, x.nC, x.nny) BY <1>4
  <2> QED BY <2>3, <2>4 DEF Turns, InThread
<1>7. CutsTo(s, G, th, d, level)
  <2>1. \A i \in 1..n : s.C[i].th = th /\ Live(s.C, i, n) => G[i].d <= d
    <3> SUFFICES ASSUME NEW i \in 1..n, s.C[i].th = th, Live(s.C, i, n) PROVE G[i].d <= d OBVIOUS
    <3>1. CASE i = n BY <1>0, <1>2, <3>1
    <3>2. CASE i # n
      <4>1. i \in 1..(n - 1) BY <1>2, <3>2
      <4>2. Ordered(s.C, G, n) BY <1>0, <1>2, JumpTarget
      <4> QED BY <1>0, <1>1, <4>1, <4>2, Zenon DEF Ordered
    <3> QED BY <3>1, <3>2
  <2>2. d \in 1..Len(q) BY <1>2
  <2> QED BY <1>0, <1>1, <2>1, <2>2, Zenon DEF CutsTo
<1>8. Body(w, G, h, b)
  <2>1. Turns(s, w, th, "OK", SubSeq(s.L[th].ci, 1, d), Len(s.L[th].stack), {o \in s.L[th].open : o < level}, x.nC, x.nny)
    BY <1>0, <1>6
  <2> HIDE DEF O
  <2> QED BY <1>7, <2>1, CutBack
<1>9. ProtectsClose(w, G, th, level)
  <2>1. w.C = s.C /\ w.L[th].status = "OK" /\ w.L[th].ci = r /\ w.L[th].open = O /\ w.L[th].nC = x.nC /\ w.L[th].nny = x.nny
    BY <1>6 DEF Turns, InThread
  <2>2. r[Len(r)] = q[d]
    <3>1. d \in 1..d BY <1>2
    <3> QED BY <1>3, <3>1
  <2>3. Settled(w.L[th], z, k) BY <1>0, <1>1, <1>3, <2>1, Zenon DEF Settled, IsRawRun
  <2>4. \A o \in w.L[th].open : o < level BY <2>1
  <2> HIDE DEF O
  <2> QED BY <1>0, <1>1, <2>1, <2>2, <2>3, <2>4, Zenon DEF ProtectsClose
<1>10. Holds(luaD_closeprotected(u, th, level, status), h, b)
  BY <1>2, <1>5, <1>8, <1>9, ClosingProtected DEF w
<1>11. u = [s EXCEPT !.L[th].ci = SubSeq(@, 1, G[Len(s.C)].d)]
  BY DEF u, r, q, x, d, k, n
<1> QED BY <1>10, <1>11

-----------------------------------------------------------------------------
(* Protected calls.                                                         *)

\* A status is given to the topmost activation.
LEMMA Given ==
  ASSUME NEW s, NEW G, NEW h, NEW b, Body(s, G, h, b), NEW z, z = s.C[Len(s.C)], NEW st,
         s.C[Len(s.C)].at \in {"luaD_pcall_error", "lua_closethread", "lua_resume"} \union CoCallers,
         OnlyStatus(z, [z EXCEPT !.status = st])
  PROVE  Gives(s, Give(s, st), [z EXCEPT !.status = st])
<1> DEFINE n == Len(s.C)   c == s.C   m == n - 1   a == [z EXCEPT !.status = st]   u == Give(s, st)   r == [c EXCEPT ![n] = a]   t == Append(SubSeq(c, 1, m), a)
<1>1. n \in Nat /\ n >= 1 /\ n \in 1..n /\ c \in Seq(Acts) /\ State(s) /\ c[n] = z
  BY TopFacts, Zenon
<1>2. s.C[n].at \notin {"host", "ccall", "luaF_close", "GCTM"}
  BY DEF CoCallers
<1>3. u = [s EXCEPT !.C = [s.C EXCEPT ![n] = [s.C[n] EXCEPT !.status = st]]]
  BY <1>1 DEF Give, State, StateFields
<1>4. u = [s EXCEPT !.C = r] BY <1>1, <1>3
<1>5. a \in Acts BY DEF OnlyStatus
<1> HIDE DEF a, u, n, c
<1>6. r = t
  <2>1. /\ SubSeq(c, 1, m) \in Seq(Acts) /\ Len(SubSeq(c, 1, m)) = m
        /\ \A i \in 1..m : SubSeq(c, 1, m)[i] = c[i]
    <3>1. Len(c) = n BY DEF n, c
    <3> QED BY <1>1, <3>1, OneMore
  <2> DEFINE p == SubSeq(c, 1, m)
  <2>2. p \in Seq(Acts) /\ Len(p) = m /\ (\A i \in 1..m : p[i] = c[i]) /\ m \in Nat /\ m + 1 = n /\ m = n - 1 BY <1>1, <2>1
  <2> HIDE DEF p, m
  <2>3. Append(p, a) \in Seq(Acts) /\ Len(Append(p, a)) = n /\ Append(p, a)[n] = a BY <1>5, <2>2
  <2>4. \A i \in 1..m : Append(p, a)[i] = c[i] BY <1>5, <2>2
  <2>5. Len(c) = n BY DEF n, c
  <2>6. r \in Seq(Acts) /\ Len(r) = n BY <1>1, <1>5, <2>5
  <2>7. \A i \in 1..n : r[i] = Append(p, a)[i]
    <3> SUFFICES ASSUME NEW i \in 1..n PROVE r[i] = Append(p, a)[i] OBVIOUS
    <3>1. CASE i = n BY <1>1, <2>3, <2>5, <3>1
    <3>2. CASE i # n
      <4>1. i \in 1..m BY <1>1, <2>2, <3>2
      <4>2. r[i] = c[i] BY <1>1, <2>5, <3>2
      <4> QED BY <2>4, <4>1, <4>2
    <3> QED BY <3>1, <3>2
  <2>8. r = Append(p, a) BY <2>3, <2>6, <2>7, SeqEqual
  <2> QED BY <2>8 DEF p
<1>7. InC(s, u) /\ u.C = t
  <2> HIDE DEF r, t
  <2> QED BY <1>1, <1>4, <1>6 DEF InC, State, StateFields
<1> QED BY <1>1, <1>2, <1>7 DEF Gives, a, u, n, c

\* It goes on with the status.
GivesOn(s, G, h, b, st) ==
    LET z == s.C[Len(s.C)]
    IN  /\ Body(s, G, h, b) /\ Settled(s.L[z.th], z, G[Len(s.C)])
        /\ \/ z.at = "luaD_pcall_error" /\ st \in Statuses
           \/ z.at = "lua_closethread" /\ st \in Ends
           \/ z.at \in CoCallers /\ st \in Statuses \union {"not_resumed"}
        /\ z.at \in CoCallers /\ (st # "OK" \/ z.at = "luaB_auxwrap_closed") => Left(s.L[z.co])
\* The caller has the status of the call.
LEMMA Gave ==
  ASSUME NEW s, NEW G, NEW h, NEW b, NEW st, GivesOn(s, G, h, b, st)
  PROVE  Holds(Give(s, st), h, b)
<1> DEFINE n == Len(s.C)   z == s.C[n]   k == G[n]   a == [z EXCEPT !.status = st]   u == Give(s, st)
<1>1. /\ Body(s, G, h, b) /\ Settled(s.L[z.th], z, k)
      /\ \/ z.at = "luaD_pcall_error" /\ st \in Statuses
         \/ z.at = "lua_closethread" /\ st \in Ends
         \/ z.at \in CoCallers /\ st \in Statuses \union {"not_resumed"}
      /\ z.at \in CoCallers /\ (st # "OK" \/ z.at = "luaB_auxwrap_closed") => Left(s.L[z.co])
  BY DEF GivesOn
<1>2. n \in Nat /\ n \in 1..n /\ z \in Acts BY <1>1, TopFacts, Zenon
<1> HIDE DEF z, k, u, n
<1>3. OnlyStatus(z, a) /\ a.status = st
  BY <1>1, <1>2, Marked
<1>4. z = s.C[Len(s.C)] /\ s.C[Len(s.C)].at \in {"luaD_pcall_error", "lua_closethread", "lua_resume"} \union CoCallers
  BY <1>1 DEF z, n
<1>5. Gives(s, u, a)
  <2>1. Gives(s, Give(s, st), [z EXCEPT !.status = st])
    <3>1. OnlyStatus(z, [z EXCEPT !.status = st]) BY <1>3
    <3> HIDE DEF a
    <3> QED BY <1>1, <1>4, <3>1, Given
  <2> QED BY <2>1 DEF u
<1> HIDE DEF a
<1>6. /\ Body(u, G, h, b) /\ Len(u.C) = n /\ u.C[n] = a /\ u.L = s.L
  <2>1. Body(u, G, h, b) /\ Len(u.C) = Len(s.C) /\ u.C[Len(s.C)] = a BY <1>1, <1>5, BodyStatus
  <2>2. u.L = s.L BY <1>5 DEF Gives, InC
  <2> QED BY <2>1, <2>2 DEF n
<1>7. a.at = z.at /\ a.th = z.th /\ (z.at \in CoCallers => a.co = z.co) BY <1>3 DEF OnlyStatus
<1>8. ~IsRawRun(a) BY <1>1, <1>7 DEF IsRawRun, CoCallers
<1>9. Settled(u.L[a.th], a, k) BY <1>1, <1>6, <1>7, <1>8 DEF Settled
<1>10. Running(u, G) BY <1>6, <1>9 DEF Running, k
<1>11. Returned(u) BY <1>1, <1>3, <1>6, <1>7 DEF Returned
<1> QED BY <1>6, <1>10, <1>11 DEF Holds, u

\* luaD_closeprotected: everything has been closed, or a method has thrown an
\* error and closing goes on with that.
LEMMA ClosedProtected ==
  ASSUME NEW s, NEW G, NEW h, NEW b, Body(s, G, h, b), Running(s, G), s.C[Len(s.C)].at = "closeprotected"
  PROVE  Holds(AfterCloseprotected(s), h, b)
<1> DEFINE c == s.C   n == Len(c)   z == c[n]   k == G[n]   th == z.th   x == s.L[th]   q == x.ci   l == n - 1   a == c[l]   g == G[l]
           y == PopC(s)   G2 == SubSeq(G, 1, l)
<1>0. c = s.C /\ n = Len(c) /\ z = c[n] /\ k = G[n] /\ th = z.th /\ x = s.L[th] /\ q = x.ci /\ l = n - 1 /\ a = c[l] /\ g = G[l]
  OBVIOUS
<1>1. /\ n \in Nat /\ n \in 1..n /\ z \in Acts /\ k \in Ghosts /\ th \in Threads /\ Own(z, k) /\ Sound(q, x.open, z, k) /\ z.at = "closeprotected"
      /\ Last(s.C) = z /\ q \in Seq(Frames) /\ Len(q) \in Nat
  BY TopFacts, Zenon
<1>2. z \in RawActs BY <1>1, Kinds, Zenon DEF IsRawRun
<1>3. z.closing \in Ends /\ z.level \in Nat /\ z.old_ci = k.d
  BY <1>1, <1>2, Zenon DEF RawActs, Own
<1>4. Settled(x, z, k) \/ Thrown(x, z, k)
  BY DEF Running
<1> HIDE DEF c, n, z, k, th, x, q, l, a, g
<1>5. Pops(s, G, y, G2, h, b)
  <2>1. s.C[Len(s.C)].at \notin {"host", "GCTM", "lua_closethread"} OBVIOUS
  <2> QED BY <1>0, <2>1, PopsTop
<1> HIDE DEF y, G2
<1>6. /\ n > 1 /\ State(y) /\ y.L = s.L /\ Body(y, G2, h, b) /\ Len(y.C) = l /\ l \in 1..n
      /\ (\A i \in 1..l : y.C[i] = c[i] /\ G2[i] = G[i])
      /\ Link(a, g, z, k) /\ a \in Acts /\ g \in Ghosts
  BY <1>0, <1>5 DEF Pops
<1>7. y.C[Len(y.C)] = a /\ G2[Len(y.C)] = g
  <2>1. l \in 1..n /\ n \in Nat BY <1>1, <1>6, Zenon
  <2>2. l \in 1..l BY <2>1
  <2> QED BY <1>0, <1>6, <2>2, Zenon
<1>8. /\ a.at \in {"luaD_pcall_error", "lua_closethread"} /\ a.th = th /\ k.c = g.c /\ k.e = g.e /\ k.d = g.d
      /\ a.at = "lua_closethread" => z.level = 2
  <2>1. LinkThreads(a, z) /\ LinkKinds(a, z) /\ LinkCounts(g, z, k) /\ LinkFrames(a, g, z, k) BY <1>6 DEF Link
  <2>2. a.at \in {"luaD_pcall_error", "lua_closethread"} /\ (a.at = "lua_closethread" => z.level = 2)
    BY <1>1, <2>1 DEF LinkKinds, MayCall, Callers, CoCallers, PlainCallers
  <2>3. a.th = th BY <1>0, <1>1, <2>1, Zenon DEF LinkThreads, Switches
  <2>4. g.c \in Int /\ g.e \in Nat BY <1>6 DEF Ghosts
  <2>5. k.c = g.c /\ k.e = g.e BY <1>1, <2>1, <2>4 DEF LinkCounts, Switches
  <2>6. k.d = g.d BY <1>1, <2>1, <2>2 DEF LinkFrames, Callers, CoCallers, PlainCallers, Switches
  <2> QED BY <2>2, <2>3, <2>5, <2>6
<1>9. ASSUME z.status = "OK" PROVE Holds(Give(y, z.closing), h, b)
  <2>1. Settled(x, z, k) BY <1>4, <1>9 DEF Thrown, Failures
  <2>2. Settled(x, a, g)
    BY <1>1, <1>8, <2>1 DEF Settled, IsRawRun
  <2>3. z.closing \in Statuses BY <1>3 DEF Ends, Statuses
  <2>4. a.at \notin CoCallers BY <1>8 DEF CoCallers
  <2>5. GivesOn(y, G2, h, b, z.closing)
    BY <1>0, <1>3, <1>6, <1>7, <1>8, <2>2, <2>3, <2>4, Zenon DEF GivesOn
  <2> QED BY <2>5, Gave
<1>10. ASSUME z.status # "OK"
       PROVE  Holds(luaD_closeprotected([y EXCEPT !.L[th].ci = SubSeq(@, 1, z.old_ci)], th, z.level, z.status), h, b)
  <2>1. Thrown(x, z, k) BY <1>1, <1>4, <1>10 DEF Settled, IsRawRun
  <2>2. z.status \in Ends /\ x.status = "OK" /\ x.nC = g.c /\ x.nny = g.e
    BY <1>1, <1>8, <2>1 DEF Thrown, Ends
  <2>3. z.level >= q[g.d].func /\ (q[g.d].ypcall => z.level >= q[g.d].funcidx) /\ (g.d < Len(q) => z.level <= q[g.d + 1].func)
    BY <1>1, <1>8 DEF Sound, Floored, Levelled
  <2>4. y.L[th] = x BY <1>0, <1>6
  <2>5. RecoversAt(y, G2, th, z.level)
    BY <1>0, <1>3, <1>7, <1>8, <2>2, <2>3, <2>4, Zenon DEF RecoversAt
  <2>6. Holds(luaD_closeprotected([y EXCEPT !.L[th].ci = SubSeq(@, 1, G2[Len(y.C)].d)], th, z.level, z.status), h, b)
    BY <1>6, <2>2, <2>5, Recovers
  <2>7. z.old_ci = G2[Len(y.C)].d BY <1>3, <1>7, <1>8
  <2> QED BY <2>6, <2>7
<1>11. Last(s.C) = z /\ z.th = th BY <1>0, <1>1, Zenon
<1> QED BY <1>9, <1>10, <1>11 DEF AfterCloseprotected, Top, y

\* luaD_pcall: the function has returned.
LEMMA PcallReturns ==
  ASSUME NEW s, NEW G, NEW h, NEW b, NEW th, Runs(s, G, h, b, th), s.C[Len(s.C)].at = "luaD_pcall"
  PROVE  LET a == s.C[Len(s.C)]
         IN  Holds(EndCall([PopC(s) EXCEPT !.L[th].errfunc = a.errfunc, !.L[th].nC = a.nC, !.L[th].nny = a.nny], th), h, b)
<1> DEFINE n == Len(s.C)   z == s.C[n]   k == G[n]   l == n - 1   a == s.C[l]   y == PopC(s)   G2 == SubSeq(G, 1, l)   x == s.L[th]
           v == [y EXCEPT !.L[th].errfunc = z.errfunc]   w == [v EXCEPT !.L[th].nC = z.nC, !.L[th].nny = z.nny]   u == EndCall(w, th)
<1>0. n = Len(s.C) /\ z = s.C[n] /\ k = G[n] /\ l = n - 1 /\ a = s.C[l] /\ x = s.L[th]
  OBVIOUS
<1>1. /\ Body(s, G, h, b) /\ th = z.th /\ Settled(x, z, k) /\ z.at = "luaD_pcall" /\ z \in Acts /\ k \in Ghosts /\ th \in Threads /\ Own(z, k)
  BY TopFacts, Zenon DEF Runs
<1>2. z \in RawActs BY <1>1, Kinds DEF IsRawRun
<1>3. /\ Runs(y, G2, h, b, th) /\ y.C[Len(y.C)] = a /\ y.L = s.L /\ Link(a, G[l], z, k)
  BY PopsOn
<1> HIDE DEF n, z, k, l, a, y, G2, x, v, w, u
<1>4. /\ Body(y, G2, h, b) /\ th = a.th /\ Settled(y.L[th], a, G2[Len(y.C)]) /\ State(y) /\ y.L[th] = x
  <2>1. Body(y, G2, h, b) /\ th = a.th /\ Settled(y.L[th], a, G2[Len(y.C)]) BY <1>3 DEF Runs
  <2>2. State(y) BY <2>1 DEF Body
  <2> QED BY <1>0, <1>3, <2>1, <2>2
<1>5. a.at \in {"host", "luaB_pcall", "GCTM"}
  BY <1>1, <1>3 DEF Link, LinkKinds, MayCall, Callers, CoCallers, PlainCallers
<1>6. z.errfunc \in Nat /\ z.nC = x.nC /\ z.nny = x.nny /\ x.nC \in Int /\ x.nny \in Int
  BY <1>1, <1>2 DEF RawActs, Own, IsRawRun, Settled
<1>7. Turns(y, v, th, x.status, x.ci, Len(x.stack), x.open, x.nC, x.nny)
  BY <1>1, <1>4, <1>6, Handled DEF v
<1>8. State(v) /\ v.L[th].status = x.status /\ v.L[th].ci = x.ci /\ Len(v.L[th].stack) = Len(x.stack) /\ v.L[th].open = x.open
  BY <1>7 DEF Turns, InThread
<1>9. Turns(v, w, th, x.status, x.ci, Len(x.stack), x.open, x.nC, x.nny)
  <2>1. z.nC \in Int /\ z.nny \in Int BY <1>6
  <2>2. Turns(v, w, th, v.L[th].status, v.L[th].ci, Len(v.L[th].stack), v.L[th].open, z.nC, z.nny)
    BY <1>1, <1>8, <2>1, CountsSet, Zenon DEF w
  <2> QED BY <1>6, <1>8, <2>2
<1>10. Turns(y, w, th, x.status, x.ci, Len(x.stack), x.open, x.nC, x.nny)
  BY <1>7, <1>9 DEF Turns, InThread
<1>11. State(w) /\ w.C = y.C /\ w.L[th].status = x.status /\ w.L[th].ci = x.ci /\ w.L[th].nC = x.nC /\ w.L[th].nny = x.nny
  BY <1>10 DEF Turns, InThread
<1>12. Body(w, G2, h, b)
  <2>1. ThreadInv(w.L[th])
    <3>1. ThreadInv(y.L[th]) BY <1>1, <1>4 DEF Body
    <3>2. Len(w.L[th].stack) = Len(x.stack) /\ w.L[th].open = x.open BY <1>10 DEF Turns
    <3> QED BY <1>4, <1>11, <3>1, <3>2 DEF ThreadInv, Suspended
  <2>2. th = y.C[Len(y.C)].th /\ InThread(y, w, th) /\ w.L[th].ci = y.L[th].ci /\ w.L[th].open = y.L[th].open
    BY <1>3, <1>4, <1>10 DEF Turns
  <2> QED BY <1>1, <1>4, <2>1, <2>2, BodyThread
<1>13. Settled(w.L[a.th], a, G2[Len(w.C)]) /\ a = w.C[Len(w.C)] /\ a.at \notin CoCallers
  <2>1. Settled(w.L[th], a, G2[Len(y.C)]) BY <1>4, <1>11, SettledAgain
  <2> QED BY <1>3, <1>4, <1>5, <1>11, <2>1 DEF CoCallers
<1>14. Holds(w, h, b) BY <1>12, <1>13, GoesOn
<1>15. Same(w, u) BY <1>11, CallHistory DEF u
<1>16. Holds(u, h, b) BY <1>14, <1>15, HoldsSame
<1>17. u = EndCall([y EXCEPT !.L[th].errfunc = z.errfunc, !.L[th].nC = z.nC, !.L[th].nny = z.nny], th)
  BY DEF u, w, v
<1> QED BY <1>16, <1>17, Zenon DEF y, z, n

\* It has thrown an error: the frame and the upvalues of the call are closed,
\* above an activation that is no longer protected.
LEMMA PcallFails ==
  ASSUME NEW s, NEW G, NEW h, NEW b, Body(s, G, h, b), s.C[Len(s.C)].at = "luaD_pcall",
         Thrown(s.L[s.C[Len(s.C)].th], s.C[Len(s.C)], G[Len(s.C)])
  PROVE  LET a == s.C[Len(s.C)]
         IN  Holds(luaD_closeprotected([PushC(PopC(s), [a EXCEPT !.at = "luaD_pcall_error"])
                                          EXCEPT !.L[a.th].ci = SubSeq(@, 1, a.old_ci)], a.th, a.level, a.status), h, b)
<1> DEFINE c == s.C   n == Len(c)   z == c[n]   k == G[n]   th == z.th   x == s.L[th]   q == x.ci   l == n - 1   a == c[l]   p == G[l]
           z2 == [z EXCEPT !.at = "luaD_pcall_error"]   g == [d |-> k.d, b |-> k.b, c |-> k.c, e |-> k.e, j |-> p.j]
           u == PushC(PopC(s), z2)   G2 == Append(SubSeq(G, 1, l), g)
<1>0. c = s.C /\ n = Len(c) /\ z = c[n] /\ k = G[n] /\ th = z.th /\ x = s.L[th] /\ q = x.ci /\ l = n - 1 /\ a = c[l] /\ p = G[l]
  OBVIOUS
<1>1. /\ n \in Nat /\ n \in 1..n /\ z \in Acts /\ k \in Ghosts /\ th \in Threads /\ Own(z, k) /\ Sound(q, x.open, z, k) /\ z.at = "luaD_pcall"
      /\ q \in Seq(Frames) /\ Len(q) \in Nat /\ State(s) /\ Chain(c, G, h) /\ Thrown(x, z, k)
  BY TopFacts, Zenon
<1>2. z \in RawActs BY <1>1, Kinds, Zenon DEF IsRawRun
<1>3. z.level \in Nat /\ z.old_ci = k.d
  BY <1>1, <1>2, Zenon DEF RawActs, Own
<1>4. /\ z2 \in Acts /\ z2.at = "luaD_pcall_error" /\ z2.th = th /\ z2.level = z.level
  <2>1. z2 \in RawActs BY <1>2 DEF RawActs
  <2>2. z2.at = "luaD_pcall_error" /\ z2.th = th /\ z2.level = z.level BY <1>2 DEF RawActs
  <2> QED BY <2>1, <2>2 DEF Acts
<1> HIDE DEF c, n, z, k, th, x, q, l, a, p, z2, u
<1>5. Link(a, p, z, k) /\ a \in Acts /\ p \in Ghosts
  <2>1. c[n].at # "host" BY <1>0, <1>1, Zenon
  <2> QED BY <1>0, <1>1, <2>1, Pair, Zenon
<1>6. g \in Ghosts /\ g.d = k.d /\ g.c = k.c /\ g.e = k.e /\ g.j = p.j
  BY <1>1, <1>5 DEF Ghosts
<1> HIDE DEF g
<1>7. Link(a, p, z2, g)
  <2>1. LinkThreads(a, z) /\ LinkKinds(a, z) /\ LinkCounts(p, z, k) /\ LinkFrames(a, p, z, k) BY <1>5 DEF Link
  <2>2. a.at \in {"host", "luaB_pcall", "GCTM"}
    BY <1>1, <2>1 DEF LinkKinds, MayCall, Callers, CoCallers, PlainCallers
  <2>3. LinkThreads(a, z2) BY <1>0, <1>1, <1>4, <2>1, Zenon DEF LinkThreads, Switches
  <2>4. LinkKinds(a, z2)
    <3>1. MayCall(a.at, z2.at) BY <1>4, <2>2 DEF MayCall
    <3>2. ~IsRawRun(a) /\ z2.at # "ccall" BY <1>4, <2>2 DEF IsRawRun
    <3> QED BY <2>2, <3>1, <3>2 DEF LinkKinds
  <2>5. LinkCounts(p, z2, g) BY <1>1, <1>4, <1>6, <2>1 DEF LinkCounts, Switches
  <2>6. LinkFrames(a, p, z2, g)
    BY <1>1, <1>4, <1>6, <2>1, <2>2 DEF LinkFrames, Callers, CoCallers, PlainCallers, Switches
  <2> QED BY <2>3, <2>4, <2>5, <2>6 DEF Link
<1>8. Sound(q, x.open, z2, g)
  BY <1>1, <1>4, <1>6 DEF Sound, Floored, OpenFrom, Levelled, Callers, CoCallers, PlainCallers
<1>9. Replaces(s, G, z2, g)
  <2>1. Own(z2, g) BY <1>4 DEF Own, IsRawRun
  <2>2. g.j = Target(z2, n, G[n - 1].j) BY <1>0, <1>4, <1>6 DEF Target, IsRawRun
  <2>3. z2.at \notin Switches /\ z.at \notin {"host", "GCTM", "lua_closethread"} /\ z2.at # "lua_closethread" BY <1>1, <1>4 DEF Switches
  <2> QED BY <1>0, <1>4, <1>6, <1>7, <1>8, <2>1, <2>2, <2>3, Zenon DEF Replaces
<1>10. InC(s, u) /\ u.C = Append(SubSeq(s.C, 1, Len(s.C) - 1), z2)
  <2>1. PopC(s) = [s EXCEPT !.C = SubSeq(s.C, 1, Len(s.C) - 1)] BY DEF PopC, Front
  <2>2. u = [PopC(s) EXCEPT !.C = Append(PopC(s).C, z2)] BY DEF u, PushC
  <2> QED BY <1>1, <2>1, <2>2 DEF InC, State, StateFields
<1>11. Body(u, G2, h, b) /\ Len(u.C) = n /\ u.C[n] = z2 /\ G2[n] = g
  <2>1. l = Len(s.C) - 1 /\ n = Len(s.C) BY <1>0
  <2> QED BY <1>9, <1>10, <2>1, BodyReplace
<1> HIDE DEF G2
<1>12. u.L[th] = x BY <1>0, <1>10 DEF InC
<1>13. z.status \in Ends /\ x.status = "OK" /\ x.nC = g.c /\ x.nny = g.e
  BY <1>1, <1>6 DEF Thrown, Ends
<1>14. z.level >= q[g.d].func /\ (q[g.d].ypcall => z.level >= q[g.d].funcidx) /\ (g.d < Len(q) => z.level <= q[g.d + 1].func)
  BY <1>1, <1>6 DEF Sound, Floored, Levelled
<1>15. RecoversAt(u, G2, th, z.level)
  BY <1>0, <1>3, <1>4, <1>11, <1>12, <1>13, <1>14, Zenon DEF RecoversAt
<1>16. Holds(luaD_closeprotected([u EXCEPT !.L[th].ci = SubSeq(@, 1, G2[Len(u.C)].d)], th, z.level, z.status), h, b)
  BY <1>11, <1>13, <1>15, Recovers
<1>17. z.old_ci = G2[Len(u.C)].d BY <1>3, <1>6, <1>11
<1> QED BY <1>16, <1>17, Zenon DEF u, z2, th, z, n, c

\* luaD_pcall goes on.
LEMMA PcallEnds ==
  ASSUME NEW s, NEW G, NEW h, NEW b, Body(s, G, h, b), Running(s, G), s.C[Len(s.C)].at = "luaD_pcall"
  PROVE  Holds(AfterPcall(s), h, b)
<1> DEFINE n == Len(s.C)   z == s.C[n]   x == s.L[z.th]
<1>1. Last(s.C) = z /\ IsRawRun(z) BY TopFacts, Zenon DEF IsRawRun
<1>2. Settled(x, z, G[n]) \/ Thrown(x, z, G[n]) BY DEF Running
<1>3. CASE z.status = "OK"
  <2>1. Settled(x, z, G[n]) BY <1>2, <1>3 DEF Thrown, Failures
  <2>2. Runs(s, G, h, b, z.th) BY <2>1 DEF Runs
  <2>3. Holds(EndCall([PopC(s) EXCEPT !.L[z.th].errfunc = z.errfunc, !.L[z.th].nC = z.nC, !.L[z.th].nny = z.nny], z.th), h, b)
    BY <2>2, PcallReturns, Zenon
  <2> QED BY <1>1, <1>3, <2>3, Zenon DEF AfterPcall, Top
<1>4. CASE z.status # "OK"
  <2>1. Thrown(x, z, G[n]) BY <1>1, <1>2, <1>4, Zenon DEF Settled
  <2>2. Holds(luaD_closeprotected([PushC(PopC(s), [z EXCEPT !.at = "luaD_pcall_error"])
                                          EXCEPT !.L[z.th].ci = SubSeq(@, 1, z.old_ci)], z.th, z.level, z.status), h, b)
    BY <2>1, PcallFails, Zenon
  <2> QED BY <1>1, <1>4, <2>2, Zenon DEF AfterPcall, Top
<1> QED BY <1>3, <1>4

\* luaD_pcall after an error, when everything has been closed: the error
\* object is where the function was.
LEMMA PcallErrorEnds ==
  ASSUME NEW s, NEW G, NEW h, NEW b, NEW th, Runs(s, G, h, b, th), s.C[Len(s.C)].at = "luaD_pcall_error"
  PROVE  LET a == s.C[Len(s.C)]   u == luaD_seterrorobj(PopC(s), th, a.status, a.level)
         IN  Holds(FailCall([u EXCEPT !.L[th].errfunc = a.errfunc], th), h, b)
<1> DEFINE n == Len(s.C)   z == s.C[n]   k == G[n]   l == n - 1   a == s.C[l]   y == PopC(s)   G2 == SubSeq(G, 1, l)   x == s.L[th]
           q == x.ci   p == z.level
           v == luaD_seterrorobj(y, th, z.status, p)   w == [v EXCEPT !.L[th].errfunc = z.errfunc]   u == FailCall(w, th)
<1>0. n = Len(s.C) /\ z = s.C[n] /\ k = G[n] /\ l = n - 1 /\ a = s.C[l] /\ x = s.L[th] /\ q = x.ci /\ p = z.level
  OBVIOUS
<1>1. /\ Body(s, G, h, b) /\ th = z.th /\ Settled(x, z, k) /\ z.at = "luaD_pcall_error" /\ z \in Acts /\ k \in Ghosts /\ th \in Threads
      /\ Stacked(q, Len(x.stack), x.open) /\ q \in Seq(Frames) /\ Len(q) \in Nat /\ Len(q) >= 1 /\ Sound(q, x.open, z, k)
      /\ x.open \subseteq 2..Len(x.stack)
  BY TopFacts, Zenon DEF Runs
<1>2. z \in RawActs BY <1>1, Kinds, Zenon
<1>3. /\ Runs(y, G2, h, b, th) /\ y.C[Len(y.C)] = a /\ y.L = s.L /\ Link(a, G[l], z, k)
  BY PopsOn
<1> HIDE DEF n, z, k, l, a, y, G2, x, q, p, v, w, u
<1>4. /\ Body(y, G2, h, b) /\ th = a.th /\ Settled(y.L[th], a, G2[Len(y.C)]) /\ State(y) /\ y.L[th] = x
  <2>1. Body(y, G2, h, b) /\ th = a.th /\ Settled(y.L[th], a, G2[Len(y.C)]) BY <1>3 DEF Runs
  <2>2. State(y) BY <2>1 DEF Body
  <2> QED BY <1>0, <1>3, <2>1, <2>2, Zenon
<1>5. a.at \in {"host", "luaB_pcall", "GCTM"}
  BY <1>1, <1>3 DEF Link, LinkKinds, MayCall, Callers, CoCallers, PlainCallers
<1>6. z.errfunc \in Nat /\ p \in Nat BY <1>0, <1>2 DEF RawActs
<1>7. k.d = Len(q) BY <1>0, <1>1, Zenon DEF Settled
<1>8. /\ p >= 1 /\ p >= q[Len(q)].func /\ \A o \in x.open : o < p
  <2>1. p >= q[Len(q)].func /\ NoneFrom(q, x.open, Len(q), p)
    BY <1>0, <1>1, <1>7, Zenon DEF Sound, Floored, OpenFrom
  <2>2. q[Len(q)].func \in Nat /\ q[1].func <= q[Len(q)].func /\ q[1].func = 1
    <3>1. 1 \in 1..Len(q) /\ Len(q) \in 1..Len(q) BY <1>1
    <3>2. q[1].func = 1 BY <1>1 DEF Stacked
    <3> QED BY <1>1, <3>1, <3>2, FuncsOrdered
  <2>3. p >= 1 BY <1>6, <2>1, <2>2
  <2>4. ASSUME NEW o \in x.open PROVE o < p
    <3>1. o \in Nat BY <1>1
    <3>2. ~(o >= p) BY <1>1, <2>1 DEF NoneFrom
    <3> QED BY <1>6, <3>1, <3>2
  <2> QED BY <2>1, <2>3, <2>4
<1>9. x.open \subseteq 2..p
  <2>1. ASSUME NEW o \in x.open PROVE o \in 2..p
    <3>1. o \in Nat /\ o >= 2 BY <1>1
    <3>2. o < p BY <1>8
    <3> QED BY <1>6, <3>1, <3>2
  <2> QED BY <2>1
<1>10. Turns(y, v, th, x.status, q, p, x.open, x.nC, x.nny)
  <2>1. p \in Nat \ {0} BY <1>6, <1>8
  <2> QED BY <1>0, <1>1, <1>4, <2>1, ErrorSet, Zenon DEF v
<1>11. State(v) /\ v.L[th].status = x.status /\ v.L[th].ci = q /\ Len(v.L[th].stack) = p /\ v.L[th].open = x.open
       /\ v.L[th].nC = x.nC /\ v.L[th].nny = x.nny
  BY <1>10 DEF Turns, InThread
<1>12. Turns(v, w, th, x.status, q, p, x.open, x.nC, x.nny)
  BY <1>1, <1>6, <1>11, Handled DEF w
<1>13. Turns(y, w, th, x.status, q, p, x.open, x.nC, x.nny)
  BY <1>10, <1>12 DEF Turns, InThread
<1>14. Body(w, G2, h, b)
  <2>1. th = y.C[Len(y.C)].th BY <1>3, <1>4
  <2>2. p # 0 /\ y.L[th].ci[Len(y.L[th].ci)].func <= p
    <3>1. y.L[th].ci = q BY <1>0, <1>4, Zenon
    <3>2. q[Len(q)] \in Frames BY <1>1
    <3>3. q[Len(q)].func \in Nat BY <3>2 DEF Frames
    <3> QED BY <1>6, <1>8, <3>1, <3>3
  <2>3. x.open \subseteq y.L[th].open BY <1>4
  <2>4. Turns(y, w, th, y.L[th].status, y.L[th].ci, p, x.open, x.nC, x.nny) BY <1>0, <1>4, <1>13, Zenon
  <2> QED BY <1>4, <1>6, <1>9, <2>1, <2>2, <2>3, <2>4, Restacked
<1>15. State(w) /\ w.C = y.C /\ w.L[th].status = x.status /\ w.L[th].ci = x.ci /\ w.L[th].nC = x.nC /\ w.L[th].nny = x.nny
  BY <1>0, <1>13 DEF Turns, InThread
<1>16. Settled(w.L[a.th], a, G2[Len(w.C)]) /\ a = w.C[Len(w.C)] /\ a.at \notin CoCallers
  <2>1. Settled(w.L[th], a, G2[Len(y.C)]) BY <1>4, <1>15, SettledAgain
  <2> QED BY <1>3, <1>4, <1>5, <1>15, <2>1 DEF CoCallers
<1>17. Holds(w, h, b) BY <1>14, <1>16, GoesOn
<1>18. Same(w, u) BY <1>15, CallHistory DEF u
<1>19. Holds(u, h, b) BY <1>17, <1>18, HoldsSame
<1> QED BY <1>19, Zenon DEF u, w, v, p, y, z, n

\* The call in pcall or xpcall has returned.
LEMMA PcallkEnds ==
  ASSUME NEW s, NEW G, NEW h, NEW b, NEW th, CRuns(s, G, h, b, th), s.C[Len(s.C)].at = "luaB_pcall"
  PROVE  Holds(AfterPcallk(s, th, TRUE), h, b)
<1> DEFINE x == s.L[th]   q == x.ci   m == Len(q)   f == ci(s, th)   g == [f EXCEPT !.ypcall = FALSE]
           v == setci(s, th, g)   w == [v EXCEPT !.L[th].errfunc = f.old_errfunc]   u == EndCall(w, th)   z == s.C[Len(s.C)]   k == G[Len(s.C)]
<1>0. x = s.L[th] /\ q = x.ci /\ m = Len(q) /\ z = s.C[Len(s.C)] /\ k = G[Len(s.C)] /\ f = ci(s, th)
  OBVIOUS
<1>1. Body(s, G, h, b) /\ Calm(s, G) /\ th = z.th /\ RunsIn(s, G, th) /\ State(s)
  <2>1. Body(s, G, h, b) /\ Calm(s, G) /\ th = z.th BY DEF CRuns
  <2>2. RunsIn(s, G, th) BY <2>1, TopFrame
  <2> QED BY <2>1, <2>2, Zenon DEF RunsIn
<1>2. /\ th \in Threads /\ q \in Seq(Frames) /\ m \in Nat /\ m > 1 /\ f = q[m] /\ f \in Frames /\ z.at = "luaB_pcall"
      /\ Len(x.stack) \in Nat /\ f.func <= Len(x.stack) /\ x.open \subseteq 2..Len(x.stack) /\ ~f.lua /\ f.recst = "OK"
      /\ Stacked(q, Len(x.stack), x.open)
  BY <1>1, Zenon DEF RunsIn, ci
<1> HIDE DEF x, q, m, f, g, v, w, u, z, k
<1>3. /\ g \in Frames /\ g.func = f.func /\ g.lua = f.lua /\ g.fresh = f.fresh /\ g.tbc = f.tbc /\ g.recst = f.recst
      /\ ~g.ypcall /\ g.k = f.k /\ g.op = f.op /\ g.level = f.level
  BY <1>2 DEF g, Frames
<1>4. f.op # "OP_CLOSE" /\ f.old_errfunc \in Nat
  <2>1. LuaFrame(q, x.open, m)
    <3>1. m \in 1..m BY <1>2
    <3> QED BY <1>0, <1>2, <3>1, Zenon DEF Stacked, FrameInv
  <2> QED BY <1>2, <2>1 DEF LuaFrame, Frames
<1>5. Turns(s, v, th, x.status, Append(Front(q), g), Len(x.stack), x.open, x.nC, x.nny)
  <2>1. Append(Front(q), g) \in Seq(Frames) BY <1>0, <1>2, <1>3, FrameSet
  <2> QED BY <1>0, <1>1, <1>2, <2>1, Framed, Zenon DEF v, setci
<1>6. Turns(v, w, th, x.status, Append(Front(q), g), Len(x.stack), x.open, x.nC, x.nny)
  <2>1. State(v) /\ v.L[th].status = x.status /\ v.L[th].ci = Append(Front(q), g) /\ Len(v.L[th].stack) = Len(x.stack)
        /\ v.L[th].open = x.open /\ v.L[th].nC = x.nC /\ v.L[th].nny = x.nny
    BY <1>5 DEF Turns, InThread
  <2> QED BY <1>2, <1>4, <2>1, Handled DEF w
<1>7. Turns(s, w, th, x.status, Append(Front(q), g), Len(x.stack), x.open, x.nC, x.nny)
  BY <1>5, <1>6 DEF Turns, InThread
<1>8. Sets(s, w, g, Len(x.stack), x.open)
  BY <1>0, <1>1, <1>2, <1>3, <1>4, <1>7, Zenon DEF Sets, Passes
<1>9. Body(w, G, h, b) /\ Calm(w, G) /\ w.C = s.C
  BY <1>0, <1>1, <1>8, SetsFrame, Zenon
<1>10. Same(w, u) /\ State(w)
  <2>1. State(w) BY <1>9 DEF Body
  <2> QED BY <2>1, CallHistory DEF u
<1>11. CRuns(u, G, h, b, th)
  <2>1. Body(u, G, h, b) BY <1>9, <1>10, BodySame
  <2>2. u.C = s.C /\ u.L = w.L BY <1>9, <1>10 DEF Same, InC
  <2>3. Calm(u, G) BY <1>9, <2>2, Zenon DEF Calm
  <2>4. z.at \in Callers BY <1>2 DEF Callers, PlainCallers
  <2> QED BY <1>0, <1>1, <2>1, <2>2, <2>3, <2>4 DEF CRuns
<1>12. Holds(Returns(u, th, TRUE), h, b) BY <1>11, CReturns
<1>13. Holds(Returns(s, th, TRUE), h, b) BY CReturns
<1>14. AfterPcallk(s, th, TRUE) = Returns(IF f.ypcall THEN u ELSE s, th, TRUE)
  BY DEF AfterPcallk, f, g, v, w, u
<1> QED BY <1>12, <1>13, <1>14

\* unroll runs: nothing but its own frame and what can go on is below.
Unrolls(s, G, h, b, th) == Runs(s, G, h, b, th) /\ s.C[Len(s.C)].at = "unroll"
UnrollsIn(s, G, th) ==
    LET n == Len(s.C)   z == s.C[n]   k == G[n]   x == s.L[th]   q == x.ci   m == Len(q)   f == q[m]
    IN  /\ n \in Nat /\ n \in 1..n /\ z \in Acts /\ th \in Threads /\ z.th = th /\ z.at = "unroll" /\ k \in Ghosts
        /\ k.d = 1 /\ k.e = 0 /\ k.b \in Nat /\ k.c \in Int /\ k.j \in Nat /\ State(s)
        /\ Settled(x, z, k) /\ (\A i \in 2..(m - 1) : Passes(q[i]))
        /\ m \in Nat /\ m >= 1 /\ q \in Seq(Frames) /\ f \in Frames /\ f.func \in Nat /\ f.funcidx \in Nat /\ Last(q) = f
        /\ Stacked(q, Len(x.stack), x.open) /\ x.open \subseteq 2..Len(x.stack) /\ Len(x.stack) \in Nat
        /\ \A l \in 1..n : s.C[l].th = th /\ Live(s.C, l, n) => G[l].d \in Nat /\ G[l].d <= 1
\* What is known when a coroutine goes on.
LEMMA UnrollFacts ==
  ASSUME NEW s, NEW G, NEW h, NEW b, NEW th, Unrolls(s, G, h, b, th)
  PROVE  Body(s, G, h, b) /\ th = s.C[Len(s.C)].th /\ UnrollsIn(s, G, th)
<1> DEFINE n == Len(s.C)   z == s.C[n]   k == G[n]   x == s.L[th]   q == x.ci   m == Len(q)   f == q[m]
<1>0. n = Len(s.C) /\ z = s.C[n] /\ k = G[n] /\ x = s.L[th] /\ q = x.ci /\ m = Len(q) /\ f = q[m]
  OBVIOUS
<1>1. /\ Body(s, G, h, b) /\ z.at = "unroll" /\ z.th = th /\ Settled(x, z, k)
  BY DEF Unrolls, Runs
<1>2. /\ n \in Nat /\ n \in 1..n /\ z \in Acts /\ k \in Ghosts /\ th \in Threads /\ State(s) /\ Chain(s.C, G, h)
      /\ Stacked(q, Len(x.stack), x.open) /\ q \in Seq(Frames) /\ m \in Nat /\ m >= 1 /\ Len(x.stack) \in Nat
      /\ x.open \subseteq 2..Len(x.stack) /\ Last(q) = f /\ f \in Frames /\ Own(z, k)
  BY <1>1, TopFacts, Zenon
<1>3. G \in Seq(Ghosts) /\ Len(G) = n BY <1>1, TopFacts, Zenon
<1> HIDE DEF n, z, k, x, q, m, f
<1>4. k.d = 1 /\ k.e = 0 /\ k.b \in Nat /\ k.c \in Int /\ k.j \in Nat /\ f.func \in Nat /\ f.funcidx \in Nat
  BY <1>1, <1>2 DEF Own, Ghosts, Frames
<1>5. \A i \in 2..(m - 1) : Passes(q[i])
  BY <1>0, <1>1 DEF Settled
<1>6. ASSUME NEW l \in 1..n, s.C[l].th = th, Live(s.C, l, n) PROVE G[l].d \in Nat /\ G[l].d <= 1
  <2>1. G[l] \in Ghosts BY <1>2, <1>3
  <2>2. G[l].d \in Nat BY <2>1 DEF Ghosts
  <2>3. CASE l = n BY <1>0, <1>4, <2>3
  <2>4. CASE l # n
    <3>1. l \in 1..(n - 1) BY <1>2, <2>4
    <3>2. Ordered(s.C, G, n) BY <1>0, <1>2 DEF Chain
    <3>3. G[l].d <= G[n].d BY <1>0, <1>1, <1>6, <3>1, <3>2 DEF Ordered
    <3>4. G[n].d = 1 BY <1>0, <1>4
    <3> QED BY <2>2, <3>3, <3>4
  <2> QED BY <2>3, <2>4
<1>7. \A l \in 1..n : s.C[l].th = th /\ Live(s.C, l, n) => G[l].d \in Nat /\ G[l].d <= 1
  BY <1>6
<1>8. UnrollsIn(s, G, th)
  BY <1>0, <1>1, <1>2, <1>4, <1>5, <1>7, Zenon DEF UnrollsIn
<1> QED BY <1>0, <1>1, <1>8

\* All frames have ended: so does unroll.
LEMMA UnrollEnds ==
  ASSUME NEW s, NEW G, NEW h, NEW b, NEW th, Unrolls(s, G, h, b, th), Len(s.L[th].ci) = 1
  PROVE  Holds(PopC(s), h, b)
<1> DEFINE c == s.C   n == Len(c)   z == c[n]   k == G[n]   x == s.L[th]   l == n - 1   a == c[l]   g == G[l]
           y == PopC(s)   G2 == SubSeq(G, 1, l)
<1>0. c = s.C /\ n = Len(c) /\ z = c[n] /\ k = G[n] /\ x = s.L[th] /\ l = n - 1 /\ a = c[l] /\ g = G[l]
  OBVIOUS
<1>1. /\ Body(s, G, h, b) /\ n \in Nat /\ z \in Acts /\ th \in Threads /\ z.th = th /\ z.at = "unroll" /\ k \in Ghosts
      /\ k.d = 1 /\ k.e = 0 /\ Settled(x, z, k)
  BY UnrollFacts DEF UnrollsIn
<1> HIDE DEF c, n, z, k, x, l, a, g
<1>2. Pops(s, G, y, G2, h, b)
  <2>1. s.C[Len(s.C)].at \notin {"host", "GCTM", "lua_closethread"} BY <1>0, <1>1
  <2> QED BY <1>0, <1>1, <2>1, PopsTop
<1> HIDE DEF y, G2
<1>3. /\ n > 1 /\ State(y) /\ y.L = s.L /\ Body(y, G2, h, b) /\ Len(y.C) = l /\ l \in 1..n
      /\ (\A i \in 1..l : y.C[i] = c[i] /\ G2[i] = G[i])
      /\ Link(a, g, z, k) /\ a \in Acts /\ g \in Ghosts /\ Own(a, g)
  BY <1>0, <1>2 DEF Pops
<1>4. y.C[Len(y.C)] = a /\ G2[Len(y.C)] = g
  <2>1. l \in 1..l BY <1>0, <1>1, <1>3
  <2> QED BY <1>0, <1>3, <2>1
<1>5. /\ a.at = "lua_resume" /\ a.th = th /\ a.status = "OK" /\ k.c = g.c /\ k.e = g.e /\ g.d = 1
  <2>1. LinkThreads(a, z) /\ LinkKinds(a, z) /\ LinkCounts(g, z, k) BY <1>3 DEF Link
  <2>2. a.at = "lua_resume" /\ a.status = "OK"
    BY <1>1, <2>1 DEF LinkKinds, MayCall, Callers, CoCallers, PlainCallers, IsRawRun
  <2>3. a.th = th BY <1>0, <1>1, <2>1 DEF LinkThreads, Switches
  <2>4. g.c \in Int /\ g.e \in Nat BY <1>3 DEF Ghosts
  <2>5. k.c = g.c /\ k.e = g.e BY <1>1, <2>1, <2>4 DEF LinkCounts, Switches
  <2>6. g.d = 1 BY <1>3, <2>2 DEF Own
  <2> QED BY <2>2, <2>3, <2>5, <2>6
<1>6. Settled(x, a, g)
  BY <1>0, <1>1, <1>5 DEF Settled
<1>7. Settled(y.L[a.th], a, G2[Len(y.C)]) /\ a = y.C[Len(y.C)] /\ a.at \notin CoCallers
  BY <1>0, <1>3, <1>4, <1>5, <1>6 DEF CoCallers
<1>8. Holds(y, h, b) BY <1>3, <1>7, GoesOn
<1> QED BY <1>8 DEF y

\* A Lua function goes on.
LEMMA UnrollsLua ==
  ASSUME NEW s, NEW G, NEW h, NEW b, NEW th, Unrolls(s, G, h, b, th), Len(s.L[th].ci) # 1, s.L[th].ci[Len(s.L[th].ci)].lua
  PROVE  Holds(PushC(s, Activation("execute", th)), h, b)
<1> DEFINE n == Len(s.C)   z == s.C[n]   k == G[n]   x == s.L[th]   q == x.ci   m == Len(q)   f == q[m]
           a == Activation("execute", th)   g == [d |-> m, b |-> 0, c |-> k.c, e |-> k.e, j |-> k.j]   u == PushC(s, a)   G2 == Append(G, g)
<1>0. n = Len(s.C) /\ z = s.C[n] /\ k = G[n] /\ x = s.L[th] /\ q = x.ci /\ m = Len(q) /\ f = q[m]
  OBVIOUS
<1>1. Body(s, G, h, b) /\ th = z.th /\ UnrollsIn(s, G, th) BY UnrollFacts
<1>2. /\ n \in Nat /\ z \in Acts /\ th \in Threads /\ z.th = th /\ z.at = "unroll" /\ k \in Ghosts
      /\ k.d = 1 /\ k.e = 0 /\ k.b \in Nat /\ k.c \in Int /\ k.j \in Nat /\ State(s)
      /\ Settled(x, z, k) /\ (\A i \in 2..(m - 1) : Passes(q[i])) /\ m \in Nat /\ m >= 1 /\ f.lua
  BY <1>1, Zenon DEF UnrollsIn
<1>3. s.C \in Seq(Acts) /\ G \in Seq(Ghosts) /\ Len(G) = n BY <1>1, TopFacts, Zenon
<1>4. a.at = "execute" /\ a.th = th /\ a \in Acts
  BY <1>2 DEF Activation, Acts, PlainActs
<1> HIDE DEF n, z, k, x, q, m, f, a
<1>5. g.d = m /\ g.b = 0 /\ g.c = k.c /\ g.e = k.e /\ g.j = k.j /\ g \in Ghosts /\ m >= 2
  <2>1. m # 1 BY <1>0
  <2>2. m \in Nat \ {0} /\ m >= 2 BY <1>2, <2>1
  <2>3. k.c \in Int /\ k.e \in Nat /\ k.j \in Nat BY <1>2
  <2>4. g \in Ghosts BY <2>2, <2>3 DEF Ghosts
  <2> QED BY <2>2, <2>4
<1> HIDE DEF g, u, G2
<1>6. Calls(s.C, G, a, g)
  <2>1. LinkThreads(z, a) BY <1>2, <1>4 DEF LinkThreads, Switches
  <2>2. LinkKinds(z, a) BY <1>2, <1>4 DEF LinkKinds, MayCall, IsRawRun
  <2>3. LinkCounts(k, a, g) BY <1>2, <1>4, <1>5 DEF LinkCounts, Switches
  <2>4. LinkFrames(z, k, a, g) BY <1>2, <1>4, <1>5 DEF LinkFrames, Callers, CoCallers, PlainCallers, Switches
  <2>5. Own(a, g) BY <1>4 DEF Own, IsRawRun
  <2>6. g.j = Target(a, n + 1, k.j) BY <1>4, <1>5 DEF Target, IsRawRun
  <2> QED BY <1>0, <1>1, <1>2, <1>4, <1>5, <2>1, <2>2, <2>3, <2>4, <2>5, <2>6, Zenon DEF Calls, Link, Switches
<1>7. Sound(q, x.open, a, g)
  BY <1>0, <1>2, <1>4, <1>5 DEF Sound, Floored, Levelled, Callers, CoCallers, PlainCallers
<1>8. State(u) /\ u.C = Append(s.C, a) /\ u.L = s.L /\ u.gcstp = s.gcstp
  BY <1>2 DEF u, PushC, State, StateFields
<1>9. Body(u, G2, h, b)
  <2>1. Sound(s.L[a.th].ci, s.L[a.th].open, a, g) /\ a.th = s.C[Len(s.C)].th BY <1>0, <1>1, <1>4, <1>7, Zenon
  <2> QED BY <1>1, <1>6, <1>8, <2>1, BodyPush DEF InC, G2
<1>10. Settled(x, a, g)
  BY <1>0, <1>2, <1>4, <1>5 DEF Settled, IsRawRun
<1>11. Len(u.C) = n + 1 /\ u.C[n + 1] = a /\ G2[n + 1] = g
  BY <1>0, <1>3, <1>4, <1>5, <1>8, AppendAct DEF G2
<1>12. Settled(u.L[a.th], a, G2[Len(u.C)]) /\ a = u.C[Len(u.C)] /\ a.at \notin CoCallers
  BY <1>0, <1>4, <1>8, <1>10, <1>11 DEF CoCallers
<1>13. Holds(u, h, b) BY <1>9, <1>12, GoesOn
<1> QED BY <1>13 DEF u, a

\* unroll sets the frame of a C function.
SetsUnrolled(s, w, th, f, n, O) ==
    LET x == s.L[th]   q == x.ci   e == q[Len(q)]
    IN  /\ Turns(s, w, th, x.status, Append(Front(q), f), n, O, x.nC, x.nny) /\ Len(q) > 1
        /\ f \in Frames /\ f.func = e.func /\ f.lua = e.lua /\ f.fresh = e.fresh /\ f.tbc = e.tbc /\ f.recst = "OK"
        /\ ~f.ypcall /\ ~f.lua /\ f.op # "OP_CLOSE" /\ (Passes(e) => Passes(f))
        /\ O \subseteq x.open /\ n \in Nat /\ O \subseteq 2..n /\ f.func <= n /\ \A o \in O : o < f.func
\* The C stack is not affected.
LEMMA UnrollSets ==
  ASSUME NEW s, NEW G, NEW h, NEW b, NEW th, Unrolls(s, G, h, b, th), NEW w, NEW f, NEW n, NEW O, SetsUnrolled(s, w, th, f, n, O)
  PROVE  /\ Unrolls(w, G, h, b, th) /\ w.C = s.C /\ State(w)
         /\ Len(w.L[th].ci) = Len(s.L[th].ci) /\ w.L[th].ci[Len(s.L[th].ci)] = f
<1> DEFINE m == Len(s.C)   z == s.C[m]   k == G[m]   x == s.L[th]   q == x.ci   i == Len(q)   e == q[i]   r == Append(Front(q), f)
<1>0. m = Len(s.C) /\ z = s.C[m] /\ k = G[m] /\ x = s.L[th] /\ q = x.ci /\ i = Len(q) /\ e = q[i] /\ r = Append(Front(q), f)
  OBVIOUS
<1>1. /\ Turns(s, w, th, x.status, r, n, O, x.nC, x.nny) /\ i > 1
      /\ f \in Frames /\ f.func = e.func /\ f.lua = e.lua /\ f.fresh = e.fresh /\ f.tbc = e.tbc /\ f.recst = "OK"
      /\ ~f.ypcall /\ ~f.lua /\ f.op # "OP_CLOSE" /\ (Passes(e) => Passes(f))
      /\ O \subseteq x.open /\ n \in Nat /\ O \subseteq 2..n /\ f.func <= n /\ \A o \in O : o < f.func
  BY Zenon DEF SetsUnrolled
<1>2. Body(s, G, h, b) /\ th = z.th /\ UnrollsIn(s, G, th) BY UnrollFacts
<1>3. /\ m \in Nat /\ m \in 1..m /\ z \in Acts /\ th \in Threads /\ z.at = "unroll" /\ Settled(x, z, k) /\ (\A l \in 2..(i - 1) : Passes(q[l]))
      /\ i \in Nat /\ q \in Seq(Frames) /\ e \in Frames /\ f.func \in Nat /\ Stacked(q, Len(x.stack), x.open)
      /\ x.open \subseteq 2..Len(x.stack)
      /\ \A l \in 1..m : s.C[l].th = th /\ Live(s.C, l, m) => G[l].d \in Nat /\ G[l].d <= 1
  BY <1>1, <1>2, Zenon DEF UnrollsIn
<1> HIDE DEF m, z, k, x, q, i, e, r
<1>4. x.status = "OK" /\ x.nC = k.c /\ x.nny = k.e BY <1>3 DEF Settled
<1>5. /\ r \in Seq(Frames) /\ Len(r) = i /\ r[i] = f /\ \A l \in 1..(i - 1) : r[l] = q[l]
  <2>1. i = Len(q) /\ i \in Nat /\ i > 1 /\ q \in Seq(Frames) /\ f \in Frames /\ r = Append(Front(q), f) BY <1>0, <1>1, <1>3, Zenon
  <2>2. Len(q) >= 1 BY <2>1
  <2> QED BY <2>1, <2>2, FrameSet
<1>6. Stacked(r, n, O)
  <2>1. \A o \in O : ~(o >= f.func)
    <3> SUFFICES ASSUME NEW o \in O PROVE ~(o >= f.func) OBVIOUS
    <3>1. o < f.func BY <1>1
    <3> DEFINE d == f.func
    <3>2. d \in Nat /\ o \in Nat /\ o < d BY <1>1, <1>3, <3>1
    <3> HIDE DEF d
    <3>3. ~(o >= d) BY <3>2
    <3> QED BY <3>3 DEF d
  <2>2. /\ Len(r) = Len(q) /\ r[Len(q)] = f /\ (\A l \in 1..(Len(q) - 1) : r[l] = q[l])
        /\ f.func = q[Len(q)].func /\ f.lua = q[Len(q)].lua /\ f.fresh = q[Len(q)].fresh
    BY <1>0, <1>1, <1>5, Zenon
  <2>3. f.recst = "OK" /\ f.func <= n /\ O \in SUBSET x.open /\ O \subseteq 2..n /\ ~f.ypcall /\ f.op # "OP_CLOSE" BY <1>1
  <2> QED BY <1>1, <1>3, <1>5, <2>1, <2>2, <2>3, StackSet
<1>7. ASSUME NEW l \in 1..m, s.C[l].th = th, Live(s.C, l, m), G[l] \in Ghosts, Sound(q, x.open, s.C[l], G[l])
      PROVE  Sound(r, O, s.C[l], G[l])
  <2>1. /\ Len(r) = Len(q) /\ r[Len(q)] = f /\ (\A v \in 1..(Len(q) - 1) : r[v] = q[v])
        /\ f.func = q[Len(q)].func /\ f.lua = q[Len(q)].lua /\ f.fresh = q[Len(q)].fresh /\ f.tbc = q[Len(q)].tbc
        /\ Passes(q[Len(q)]) => Passes(f)
    BY <1>0, <1>1, <1>5
  <2>2. f.recst = "OK" /\ O \in SUBSET x.open /\ ~f.ypcall BY <1>1
  <2> QED BY <1>1, <1>3, <1>5, <1>7, <2>1, <2>2, SoundSet
<1>8. InThread(s, w, th) /\ w.L[th].status = "OK" /\ w.L[th].ci = r /\ Len(w.L[th].stack) = n /\ w.L[th].open = O
      /\ w.L[th].nC = x.nC /\ w.L[th].nny = x.nny
  BY <1>1, <1>4 DEF Turns
<1>9. Reframes(s, G, w)
  BY <1>0, <1>2, <1>6, <1>7, <1>8, Zenon DEF Reframes
<1>10. Body(w, G, h, b) BY <1>2, <1>9, BodyFrames
<1>11. w.C = s.C /\ State(w) BY <1>8 DEF InThread
<1>12. Settled(w.L[th], z, k)
  <2>1. \A l \in 2..(Len(r) - 1) : Passes(r[l])
    <3> SUFFICES ASSUME NEW l \in 2..(Len(r) - 1) PROVE Passes(r[l]) OBVIOUS
    <3>1. l \in 2..(i - 1) /\ l \in 1..(i - 1) BY <1>3, <1>5
    <3> QED BY <1>3, <1>5, <3>1
  <2> QED BY <1>3, <1>4, <1>8, <2>1 DEF Settled, IsRawRun
<1> QED BY <1>0, <1>2, <1>3, <1>5, <1>8, <1>10, <1>11, <1>12, Zenon DEF Unrolls, Runs

\* The frame of a C function that has nothing open ends.
LEMMA UnrollDrops ==
  ASSUME NEW s, NEW G, NEW h, NEW b, NEW th, Unrolls(s, G, h, b, th), Len(s.L[th].ci) > 1,
         NEW f, f = s.L[th].ci[Len(s.L[th].ci)], ~f.lua, f.recst = "OK", ~f.ypcall
  PROVE  Holds(luaD_poscall(s, th), h, b)
<1> DEFINE n == Len(s.C)   z == s.C[n]   k == G[n]   x == s.L[th]   q == x.ci   m == Len(q)   u == luaD_poscall(s, th)   y == u.L[th]
<1>0. n = Len(s.C) /\ z = s.C[n] /\ k = G[n] /\ x = s.L[th] /\ q = x.ci /\ m = Len(q) /\ f = q[m] /\ m > 1
  OBVIOUS
<1>1. Body(s, G, h, b) /\ th = z.th /\ UnrollsIn(s, G, th) BY UnrollFacts
<1>2. /\ n \in Nat /\ n \in 1..n /\ z \in Acts /\ th \in Threads /\ z.at = "unroll" /\ Settled(x, z, k) /\ (\A l \in 2..(m - 1) : Passes(q[l]))
      /\ m \in Nat /\ q \in Seq(Frames) /\ f \in Frames /\ f.func \in Nat /\ Stacked(q, Len(x.stack), x.open) /\ Last(q) = f
      /\ x.open \subseteq 2..Len(x.stack) /\ Len(x.stack) \in Nat
      /\ \A l \in 1..n : s.C[l].th = th /\ Live(s.C, l, n) => G[l].d \in Nat /\ G[l].d <= 1
  BY <1>0, <1>1, Zenon DEF UnrollsIn
<1> HIDE DEF n, z, k, x, q, m, u, y
<1>3. x.status = "OK" /\ x.nC = k.c /\ x.nny = k.e BY <1>2 DEF Settled
<1>4. \A o \in x.open : o < f.func
  <2>1. CFrameOf(q, x.open, m)
    <3>1. m \in 1..m BY <1>0, <1>2
    <3> QED BY <1>0, <1>2, <3>1, Zenon DEF Stacked, FrameInv
  <2> SUFFICES ASSUME NEW o \in x.open PROVE o < f.func OBVIOUS
  <2>2. ~(o >= f.func) BY <1>0, <1>2, <2>1 DEF CFrameOf
  <2> DEFINE d == f.func
  <2>3. o \in Nat /\ d \in Nat /\ ~(o >= d) BY <1>2, <2>2
  <2> HIDE DEF d
  <2>4. o < d BY <2>3
  <2> QED BY <2>4 DEF d
<1>5. Holds(u, h, b)
  <2>1. \A l \in 1..n : s.C[l].th = th /\ Live(s.C, l, n) => G[l].d < m
    <3> SUFFICES ASSUME NEW l \in 1..n, s.C[l].th = th, Live(s.C, l, n) PROVE G[l].d < m OBVIOUS
    <3>1. G[l].d \in Nat /\ G[l].d <= 1 BY <1>2
    <3> QED BY <1>0, <1>2, <3>1
  <2>2. Ended(s, G, th) BY <1>0, <1>1, <1>3, <1>4, <2>1, Zenon DEF Ended
  <2>3. Body(u, G, h, b) /\ WithoutFrame(s, u, th) BY <1>1, <2>2, FrameEnds DEF u
  <2>4. /\ u.C = s.C /\ y.status = "OK" /\ y.nC = x.nC /\ y.nny = x.nny /\ Len(y.ci) = m - 1 /\ \A i \in 1..(m - 1) : y.ci[i] = q[i]
    BY <1>0, <2>3, Zenon DEF WithoutFrame, y
  <2>5. \A i \in 2..(Len(y.ci) - 1) : Passes(y.ci[i])
    <3> SUFFICES ASSUME NEW i \in 2..(Len(y.ci) - 1) PROVE Passes(y.ci[i]) OBVIOUS
    <3>1. i \in 2..(m - 1) /\ i \in 1..(m - 1) BY <1>0, <1>2, <2>4
    <3> QED BY <1>2, <2>4, <3>1
  <2>6. Settled(y, z, k) BY <1>2, <1>3, <2>4, <2>5 DEF Settled, IsRawRun
  <2>7. z = u.C[Len(u.C)] /\ Settled(u.L[z.th], z, G[Len(u.C)]) /\ z.at \notin CoCallers
    BY <1>0, <1>1, <1>2, <2>4, <2>6, Zenon DEF CoCallers, y
  <2> QED BY <2>3, <2>7, GoesOn
<1> QED BY <1>5 DEF u

\* The C function that unroll has finished returns.
LEMMA UnrollReturns ==
  ASSUME NEW s, NEW G, NEW h, NEW b, NEW th, Unrolls(s, G, h, b, th), Len(s.L[th].ci) > 1,
         NEW f, f = s.L[th].ci[Len(s.L[th].ci)], ~f.lua, f.recst = "OK", ~f.ypcall
  PROVE  Holds(Returns(s, th, FALSE), h, b)
<1> DEFINE n == Len(s.C)   z == s.C[n]   k == G[n]   x == s.L[th]   q == x.ci   m == Len(q)   u == luaD_poscall(s, th)   y == u.L[th]
<1>0. n = Len(s.C) /\ z = s.C[n] /\ k = G[n] /\ x = s.L[th] /\ q = x.ci /\ m = Len(q) /\ f = q[m] /\ m > 1
  OBVIOUS
<1>1. Body(s, G, h, b) /\ th = z.th /\ UnrollsIn(s, G, th) BY UnrollFacts
<1>2. /\ n \in Nat /\ n \in 1..n /\ z \in Acts /\ th \in Threads /\ z.at = "unroll" /\ Settled(x, z, k) /\ (\A l \in 2..(m - 1) : Passes(q[l]))
      /\ m \in Nat /\ q \in Seq(Frames) /\ f \in Frames /\ f.func \in Nat /\ Stacked(q, Len(x.stack), x.open) /\ Last(q) = f
      /\ x.open \subseteq 2..Len(x.stack) /\ Len(x.stack) \in Nat
      /\ \A l \in 1..n : s.C[l].th = th /\ Live(s.C, l, n) => G[l].d \in Nat /\ G[l].d <= 1
  BY <1>0, <1>1 DEF UnrollsIn
<1> HIDE DEF n, z, k, x, q, m, u, y
<1>3. x.status = "OK" /\ x.nC = k.c /\ x.nny = k.e BY <1>2 DEF Settled
<1>4. Len(x.stack) # 0 BY <1>0, <1>2 DEF Stacked
<1>5. ASSUME f.tbc PROVE Holds(luaF_close(s, th, f.func, "CLOSEKTOP", TRUE), h, b)
  <2>1. ~f.ypcall /\ Passes(f) /\ f.func >= f.func BY <1>2, <1>5 DEF Passes
  <2>2. m >= 2 BY <1>0, <1>2
  <2>3. MayClose(s, G, f.func, "CLOSEKTOP", TRUE)
    BY <1>0, <1>1, <1>2, <2>1, <2>2, Zenon DEF MayClose, MayCall
  <2>4. th = s.C[Len(s.C)].th /\ Len(s.L[th].stack) # 0 BY <1>0, <1>1, <1>4, Zenon
  <2> QED BY <1>1, <2>3, <2>4, CloseBegins, Zenon
<1>6. Holds(u, h, b) BY <1>0, UnrollDrops DEF u
<1>7. ci(s, th) = f BY <1>0, <1>2, Zenon DEF ci
<1> QED BY <1>5, <1>6, <1>7 DEF Returns, u

\* What is open in the last frame, which is that of a C function, is only what
\* recovering from an error closes.
LEMMA OpenInC ==
  ASSUME NEW q, NEW n, NEW O, Stacked(q, n, O), NEW f, f = q[Len(q)], f \in Frames, ~f.lua, NEW o \in O
  PROVE  o < f.func \/ (f.recst # "OK" /\ o >= f.funcidx)
<1>1. Len(q) \in 1..Len(q) /\ n \in Nat /\ O \subseteq 2..n BY DEF Stacked
<1>2. CFrameOf(q, O, Len(q)) BY <1>1 DEF Stacked, FrameInv
<1>3. o >= f.func => f.recst # "OK" /\ o >= f.funcidx BY <1>1, <1>2 DEF CFrameOf
<1> DEFINE d == f.func
<1>4. o \in Nat /\ d \in Nat BY <1>1 DEF Frames
<1>5. o < d \/ o >= d
  <2> HIDE DEF d
  <2> QED BY <1>4
<1> QED BY <1>3, <1>5 DEF d

\* The call of a C function without an error: its continuation runs.
LEMMA UnrollsPcallk ==
  ASSUME NEW s, NEW G, NEW h, NEW b, NEW th, Unrolls(s, G, h, b, th), Len(s.L[th].ci) > 1,
         ~s.L[th].ci[Len(s.L[th].ci)].lua, s.L[th].ci[Len(s.L[th].ci)].recst = "OK"
  PROVE  Holds(AfterPcallk(s, th, FALSE), h, b)
<1> DEFINE x == s.L[th]   q == x.ci   m == Len(q)   f == ci(s, th)   g == [f EXCEPT !.ypcall = FALSE]
           v == setci(s, th, g)   w == [v EXCEPT !.L[th].errfunc = f.old_errfunc]   u == EndCall(w, th)
<1>0. x = s.L[th] /\ q = x.ci /\ m = Len(q) /\ m > 1 /\ f = ci(s, th)
  OBVIOUS
<1>1. Body(s, G, h, b) /\ UnrollsIn(s, G, th) BY UnrollFacts
<1>2. /\ th \in Threads /\ q \in Seq(Frames) /\ m \in Nat /\ f = q[m] /\ f \in Frames /\ State(s) /\ f.func \in Nat
      /\ Len(x.stack) \in Nat /\ x.open \subseteq 2..Len(x.stack) /\ Stacked(q, Len(x.stack), x.open)
  BY <1>1, Zenon DEF UnrollsIn, ci
<1>3. ~f.lua /\ f.recst = "OK" BY <1>2
<1> HIDE DEF x, q, m, f, g, v, w, u
<1>4. /\ g \in Frames /\ g.func = f.func /\ g.lua = f.lua /\ g.fresh = f.fresh /\ g.tbc = f.tbc /\ g.recst = f.recst
      /\ ~g.ypcall /\ g.k = f.k /\ g.op = f.op /\ g.level = f.level
  BY <1>2 DEF g, Frames
<1>5. f.op # "OP_CLOSE" /\ f.old_errfunc \in Nat /\ f.func <= Len(x.stack)
  <2>1. m \in 1..m BY <1>0, <1>2
  <2>2. LuaFrame(q, x.open, m) /\ (IF Len(x.stack) = 0 THEN Len(q) = 1 ELSE q[Len(q)].func <= Len(x.stack))
    BY <1>0, <1>2, <2>1, Zenon DEF Stacked, FrameInv
  <2>3. f.func <= Len(x.stack) BY <1>0, <1>2, <2>2
  <2> QED BY <1>2, <1>3, <2>2, <2>3 DEF LuaFrame, Frames
<1>6. \A o \in x.open : o < f.func BY <1>0, <1>2, <1>3, OpenInC, Zenon
<1>7. Turns(s, v, th, x.status, Append(Front(q), g), Len(x.stack), x.open, x.nC, x.nny)
  <2>1. Append(Front(q), g) \in Seq(Frames) BY <1>0, <1>2, <1>4, FrameSet
  <2> QED BY <1>0, <1>2, <2>1, Framed DEF v, setci
<1>8. Turns(v, w, th, x.status, Append(Front(q), g), Len(x.stack), x.open, x.nC, x.nny)
  <2>1. State(v) /\ v.L[th].status = x.status /\ v.L[th].ci = Append(Front(q), g) /\ Len(v.L[th].stack) = Len(x.stack)
        /\ v.L[th].open = x.open /\ v.L[th].nC = x.nC /\ v.L[th].nny = x.nny
    BY <1>7 DEF Turns, InThread
  <2> QED BY <1>2, <1>5, <2>1, Handled DEF w
<1>9. Turns(s, w, th, x.status, Append(Front(q), g), Len(x.stack), x.open, x.nC, x.nny)
  BY <1>7, <1>8 DEF Turns, InThread
<1>10. SetsUnrolled(s, w, th, g, Len(x.stack), x.open)
  BY <1>0, <1>2, <1>3, <1>4, <1>5, <1>6, <1>9, Zenon DEF SetsUnrolled, Passes
<1>11. Unrolls(w, G, h, b, th) /\ w.C = s.C /\ State(w) /\ Len(w.L[th].ci) = m /\ w.L[th].ci[m] = g
  BY <1>0, <1>10, UnrollSets
<1>12. Same(w, u) BY <1>11, CallHistory DEF u
<1>13. Unrolls(u, G, h, b, th) /\ u.L = w.L
  <2>1. Body(w, G, h, b) BY <1>11, Zenon DEF Unrolls, Runs
  <2>2. Body(u, G, h, b) BY <1>12, <2>1, BodySame
  <2>3. u.C = w.C /\ u.L = w.L BY <1>12 DEF Same, InC
  <2> QED BY <1>11, <2>2, <2>3, Zenon DEF Unrolls, Runs
<1>14. Holds(Returns(u, th, FALSE), h, b)
  <2>1. g = u.L[th].ci[Len(u.L[th].ci)] /\ Len(u.L[th].ci) > 1 BY <1>0, <1>11, <1>13
  <2>2. ~g.lua /\ g.recst = "OK" /\ ~g.ypcall BY <1>3, <1>4
  <2> QED BY <1>13, <2>1, <2>2, UnrollReturns
<1>15. ~f.ypcall => Holds(Returns(s, th, FALSE), h, b)
  BY <1>0, <1>2, <1>3, UnrollReturns
<1>16. AfterPcallk(s, th, FALSE) = Returns(IF f.ypcall THEN u ELSE s, th, FALSE)
  BY DEF AfterPcallk, f, g, v, w, u
<1> QED BY <1>14, <1>15, <1>16

\* The call in pcall with an error, when everything has been closed.
LEMMA UnrollsError ==
  ASSUME NEW s, NEW G, NEW h, NEW b, NEW th, Unrolls(s, G, h, b, th), Len(s.L[th].ci) > 1,
         ~s.L[th].ci[Len(s.L[th].ci)].lua, s.L[th].ci[Len(s.L[th].ci)].ypcall
  PROVE  LET f == ci(s, th)
             u == [luaD_seterrorobj(luaF_closeupval(s, th, f.funcidx), th, f.recst, f.funcidx) EXCEPT !.L[th].errfunc = f.old_errfunc]
             v == setci(u, th, [f EXCEPT !.ypcall = FALSE, !.recst = "OK"])
         IN  Holds(Returns(FailCall(v, th), th, FALSE), h, b)
<1> DEFINE x == s.L[th]   q == x.ci   m == Len(q)   f == ci(s, th)   g == [f EXCEPT !.ypcall = FALSE, !.recst = "OK"]   p == f.funcidx
           O == {o \in x.open : o < p}
           y == luaF_closeupval(s, th, p)   t == luaD_seterrorobj(y, th, f.recst, p)   w == [t EXCEPT !.L[th].errfunc = f.old_errfunc]
           v == setci(w, th, g)   u == FailCall(v, th)
<1>0. x = s.L[th] /\ q = x.ci /\ m = Len(q) /\ m > 1 /\ f = ci(s, th) /\ p = f.funcidx /\ O = {o \in x.open : o < p}
  OBVIOUS
<1>1. Body(s, G, h, b) /\ UnrollsIn(s, G, th) BY UnrollFacts
<1>2. /\ th \in Threads /\ q \in Seq(Frames) /\ m \in Nat /\ f = q[m] /\ f \in Frames /\ State(s) /\ f.func \in Nat /\ p \in Nat
      /\ Len(x.stack) \in Nat /\ x.open \subseteq 2..Len(x.stack) /\ Stacked(q, Len(x.stack), x.open)
  BY <1>1, Zenon DEF UnrollsIn, ci
<1>3. ~f.lua /\ f.ypcall BY <1>2, Zenon
<1> HIDE DEF x, q, m, f, g, v, w, u, p, O, y, t
<1>4. /\ g \in Frames /\ g.func = f.func /\ g.lua = f.lua /\ g.fresh = f.fresh /\ g.tbc = f.tbc /\ g.recst = "OK"
      /\ ~g.ypcall /\ g.k = f.k /\ g.op = f.op /\ g.level = f.level
  BY <1>2 DEF g, Frames, Ends
<1>5. f.op # "OP_CLOSE" /\ f.old_errfunc \in Nat /\ p > f.func
  <2>1. m \in 1..m BY <1>0, <1>2
  <2>2. LuaFrame(q, x.open, m) /\ CFrameOf(q, x.open, m)
    BY <1>0, <1>2, <2>1, Zenon DEF Stacked, FrameInv
  <2>3. p > f.func BY <1>0, <1>2, <1>3, <2>2, Zenon DEF CFrameOf
  <2> QED BY <1>2, <1>3, <2>2, <2>3, Zenon DEF LuaFrame, Frames
<1>6. O \subseteq x.open /\ O \subseteq 2..p /\ p \in Nat \ {0} /\ f.func <= p /\ \A o \in O : o < f.func
  <2>1. p \in Nat \ {0} /\ f.func <= p BY <1>2, <1>5
  <2>2. ASSUME NEW o \in O PROVE o \in x.open /\ o \in 2..p /\ o < f.func
    <3>1. o \in x.open /\ o < p BY <1>0
    <3>2. o \in Nat /\ o >= 2 BY <1>2, <3>1
    <3>3. o \in 2..p BY <2>1, <3>1, <3>2
    <3>4. ~(o >= p) BY <2>1, <3>1, <3>2
    <3>5. o < f.func BY <1>0, <1>2, <1>3, <3>1, <3>4, OpenInC
    <3> QED BY <3>1, <3>3, <3>5
  <2> QED BY <2>1, <2>2
<1>7. Turns(s, y, th, x.status, q, Len(x.stack), O, x.nC, x.nny)
  BY <1>0, <1>2, Closed DEF y
<1>8. Turns(s, t, th, x.status, q, p, O, x.nC, x.nny)
  <2>1. State(y) /\ y.L[th].status = x.status /\ y.L[th].ci = q /\ y.L[th].open = O /\ y.L[th].nC = x.nC /\ y.L[th].nny = x.nny
    BY <1>7 DEF Turns, InThread
  <2>2. Turns(y, t, th, x.status, q, p, O, x.nC, x.nny) BY <1>2, <1>6, <2>1, ErrorSet DEF t
  <2> QED BY <1>7, <2>2, TurnsAgain
<1>9. Turns(s, w, th, x.status, q, p, O, x.nC, x.nny)
  <2>1. State(t) /\ t.L[th].status = x.status /\ t.L[th].ci = q /\ Len(t.L[th].stack) = p /\ t.L[th].open = O
        /\ t.L[th].nC = x.nC /\ t.L[th].nny = x.nny
    BY <1>8 DEF Turns, InThread
  <2>2. Turns(t, w, th, x.status, q, p, O, x.nC, x.nny) BY <1>2, <1>5, <2>1, Handled DEF w
  <2> QED BY <1>8, <2>2, TurnsAgain
<1>10. Turns(s, v, th, x.status, Append(Front(q), g), p, O, x.nC, x.nny)
  <2>1. State(w) /\ w.L[th].status = x.status /\ w.L[th].ci = q /\ Len(w.L[th].stack) = p /\ w.L[th].open = O
        /\ w.L[th].nC = x.nC /\ w.L[th].nny = x.nny
    BY <1>9 DEF Turns, InThread
  <2>2. Append(Front(q), g) \in Seq(Frames) BY <1>0, <1>2, <1>4, FrameSet
  <2>3. v = [w EXCEPT !.L[th].ci = Append(Front(q), g)]
    <3>1. v = [w EXCEPT !.L[th].ci = Append(Front(@), g)] BY DEF v, setci
    <3> QED BY <1>2, <2>1, <3>1 DEF State
  <2>4. Turns(w, v, th, x.status, Append(Front(q), g), p, O, x.nC, x.nny)
    BY <1>2, <2>1, <2>2, <2>3, Framed
  <2> QED BY <1>9, <2>4, TurnsAgain
<1>11. SetsUnrolled(s, v, th, g, p, O)
  BY <1>0, <1>2, <1>3, <1>4, <1>5, <1>6, <1>10, Zenon DEF SetsUnrolled, Passes
<1>12. Unrolls(v, G, h, b, th) /\ v.C = s.C /\ State(v) /\ Len(v.L[th].ci) = m /\ v.L[th].ci[m] = g
  BY <1>0, <1>11, UnrollSets
<1>13. Same(v, u) BY <1>12, CallHistory DEF u
<1>14. Unrolls(u, G, h, b, th) /\ u.L = v.L
  <2>1. Body(v, G, h, b) BY <1>12, Zenon DEF Unrolls, Runs
  <2>2. Body(u, G, h, b) BY <1>13, <2>1, BodySame
  <2>3. u.C = v.C /\ u.L = v.L BY <1>13 DEF Same, InC
  <2> QED BY <1>12, <2>2, <2>3, Zenon DEF Unrolls, Runs
<1>15. Holds(Returns(u, th, FALSE), h, b)
  <2>1. g = u.L[th].ci[Len(u.L[th].ci)] /\ Len(u.L[th].ci) > 1 BY <1>0, <1>12, <1>14, Zenon
  <2>2. ~g.lua /\ g.recst = "OK" /\ ~g.ypcall BY <1>3, <1>4
  <2> QED BY <1>14, <2>1, <2>2, UnrollReturns
<1> QED BY <1>15 DEF u, v, w, t, y, g, p, f

\* unroll: the frame that is on the top is finished.
LEMMA UnrollGoesOn ==
  ASSUME NEW s, NEW G, NEW h, NEW b, NEW th, Unrolls(s, G, h, b, th)
  PROVE  Holds(unroll(s), h, b)
<1> DEFINE x == s.L[th]   q == x.ci   m == Len(q)   f == q[m]
<1>0. x = s.L[th] /\ q = x.ci /\ m = Len(q) /\ f = q[m]
  OBVIOUS
<1>1. Body(s, G, h, b) /\ th = s.C[Len(s.C)].th /\ UnrollsIn(s, G, th) BY UnrollFacts
<1>2. /\ th \in Threads /\ q \in Seq(Frames) /\ m \in Nat /\ m >= 1 /\ Last(q) = f /\ f \in Frames /\ f.func \in Nat /\ f.funcidx \in Nat
      /\ Stacked(q, Len(x.stack), x.open) /\ Settled(x, s.C[Len(s.C)], G[Len(s.C)]) /\ s.C[Len(s.C)].at = "unroll"
  BY <1>1, Zenon DEF UnrollsIn
<1>3. Top(s).th = th /\ ci(s, th) = f
  <2>1. Top(s) = s.C[Len(s.C)] BY <1>1, TopFacts, Zenon
  <2> QED BY <1>1, <1>2, <2>1, Zenon DEF ci
<1> HIDE DEF x, q, m, f
<1>4. CASE m = 1
  <2>1. Holds(PopC(s), h, b) BY <1>0, <1>4, UnrollEnds
  <2> QED BY <1>0, <1>3, <1>4, <2>1 DEF unroll
<1>5. CASE m # 1 /\ f.lua
  <2>1. Holds(PushC(s, Activation("execute", th)), h, b) BY <1>0, <1>5, UnrollsLua
  <2> QED BY <1>0, <1>3, <1>5, <2>1 DEF unroll
<1>6. CASE m # 1 /\ ~f.lua
  <2>1. m > 1 /\ m >= 2 BY <1>2, <1>6
  <2>2. CFrameOf(q, x.open, m)
    <3>1. m \in 1..m BY <1>2
    <3> QED BY <1>0, <1>2, <3>1 DEF Stacked, FrameInv
  <2>3. CASE ~f.ypcall \/ f.recst = "OK"
    <3>1. f.recst = "OK" BY <1>0, <2>2, <2>3, Zenon DEF CFrameOf
    <3>2. Holds(AfterPcallk(s, th, FALSE), h, b) BY <1>0, <1>6, <2>1, <3>1, UnrollsPcallk
    <3>3. finishCcall(s, th) = AfterPcallk(s, th, FALSE) BY <1>3, <2>3 DEF finishCcall
    <3> QED BY <1>0, <1>3, <1>6, <3>2, <3>3 DEF unroll
  <2>4. CASE f.ypcall /\ f.recst # "OK" /\ Pending(s, th, f.funcidx)
    <3>1. f.funcidx > f.func /\ f.k BY <1>0, <2>2, <2>4, Zenon DEF CFrameOf
    <3>2. f.funcidx >= f.func /\ f.funcidx >= f.funcidx /\ Passes(f) BY <1>2, <3>1 DEF Passes
    <3>3. f.recst \in Ends /\ f.recst # "CLOSEKTOP" BY <1>2 DEF Frames, Ends, Failures
    <3>4. MayClose(s, G, f.funcidx, f.recst, TRUE)
      BY <1>0, <1>1, <1>2, <2>1, <3>2, <3>3, Zenon DEF MayClose, MayCall
    <3>5. Len(x.stack) # 0 BY <1>0, <1>2, <2>1 DEF Stacked
    <3>6. Holds(luaF_close(s, th, f.funcidx, f.recst, TRUE), h, b) BY <1>0, <1>1, <3>4, <3>5, CloseBegins, Zenon
    <3>7. finishCcall(s, th) = luaF_close(s, th, f.funcidx, f.recst, TRUE) BY <1>3, <2>4 DEF finishCcall
    <3> QED BY <1>0, <1>3, <1>6, <3>6, <3>7 DEF unroll
  <2>5. CASE f.ypcall /\ f.recst # "OK" /\ ~Pending(s, th, f.funcidx)
    <3>1. Holds(finishCcall(s, th), h, b)
      <4>1. ~s.L[th].ci[Len(s.L[th].ci)].lua /\ s.L[th].ci[Len(s.L[th].ci)].ypcall /\ Len(s.L[th].ci) > 1
        BY <1>0, <1>6, <2>1, <2>5
      <4> QED BY <1>3, <2>5, <4>1, UnrollsError, Zenon DEF finishCcall
    <3> QED BY <1>0, <1>3, <1>6, <3>1 DEF unroll
  <2> QED BY <2>3, <2>4, <2>5
<1> QED BY <1>4, <1>5, <1>6

-----------------------------------------------------------------------------
(* What calls into other threads.                                           *)

\* resume, wrap or close goes on: what the other thread left is taken off its
\* stack.
LEMMA TakesOff ==
  ASSUME NEW s, NEW G, NEW h, NEW b, NEW th, CRuns(s, G, h, b, th), NEW co \in Threads, Left(s.L[co])
  PROVE  LET u == settop(s, co, top(s, co) - 1) IN CRuns(u, G, h, b, th) /\ u.C = s.C
<1> DEFINE x == s.L[co]   q == x.ci   n == Len(x.stack)   m == n - 1   u == settop(s, co, m)   y == u.L[co]   z == s.C[Len(s.C)]
<1>0. x = s.L[co] /\ q = x.ci /\ n = Len(x.stack) /\ m = n - 1 /\ z = s.C[Len(s.C)]
  OBVIOUS
<1>1. Body(s, G, h, b) /\ Calm(s, G) /\ z.at \in Callers /\ z.th = th
  BY DEF CRuns
<1>2. State(s) /\ Stacked(q, n, x.open) /\ IsThread(x)
  BY <1>1 DEF Body, ThreadInv, State
<1>3. n >= 1 /\ n \notin x.open /\ (Len(q) = 1 \/ q[Len(q)].func < n)
  BY DEF Left
<1> HIDE DEF x, q, n, m, u, y, z
<1>4. /\ q \in Seq(Frames) /\ Len(q) >= 1 /\ n \in Nat /\ x.open \subseteq 2..n /\ q[1].func = 1
      /\ Len(q) \in 1..Len(q)
  BY <1>2 DEF Stacked
<1>5. m \in Nat /\ n = m + 1
  BY <1>0, <1>3, <1>4
<1>6. Turns(s, u, co, x.status, q, m, x.open, x.nC, x.nny)
  BY <1>0, <1>2, <1>5, Topped DEF u
<1>7. InThread(s, u, co) /\ y.status = x.status /\ y.ci = q /\ Len(y.stack) = m /\ y.open = x.open /\ y.nC = x.nC /\ y.nny = x.nny
  BY <1>6 DEF Turns, y
<1>8. x.open \subseteq 2..m
  <2> SUFFICES ASSUME NEW o \in x.open PROVE o \in 2..m OBVIOUS
  <2>1. o \in 2..n /\ o # n BY <1>3, <1>4
  <2> QED BY <1>5, <2>1
<1>9. IF m = 0 THEN Len(q) = 1 ELSE q[Len(q)].func <= m
  <2> DEFINE d == q[Len(q)].func
  <2>1. d \in Nat BY <1>4, FrameTypes
  <2>2. Len(q) = 1 => d = 1 BY <1>4
  <2>3. Len(q) = 1 \/ d < n BY <1>3
  <2>4. Len(q) # 1 => d >= 1
    <3>1. 1 \in 1..Len(q) /\ 1 <= Len(q) BY <1>4
    <3> QED BY <1>2, <1>4, <3>1, FuncsOrdered
  <2> HIDE DEF d
  <2>5. m = 0 => Len(q) = 1 BY <1>5, <2>1, <2>3, <2>4
  <2>6. m # 0 => d <= m BY <1>5, <2>1, <2>2, <2>3
  <2> QED BY <2>5, <2>6 DEF d
<1>10. Restacks(s, u, co)
  BY <1>0, <1>5, <1>7, <1>8, <1>9 DEF Restacks, y
<1>11. Body(u, G, h, b) BY <1>1, <1>10, BodyStack
<1>12. u.C = s.C BY <1>7 DEF InThread
<1>13. Settled(u.L[th], z, G[Len(s.C)])
  <2>1. Settled(s.L[th], z, G[Len(s.C)]) BY <1>0, <1>1 DEF Calm
  <2>2. CASE th = co BY <1>0, <1>7, <2>1, <2>2, SettledAgain DEF y
  <2>3. CASE th # co
    <3>1. th \in Threads BY <1>0, <1>1, TopFacts, Zenon
    <3>2. u.L[th] = s.L[th] BY <1>7, <2>3, <3>1 DEF InThread
    <3> QED BY <2>1, <3>2
  <2> QED BY <2>2, <2>3
<1>14. Calm(u, G) BY <1>0, <1>1, <1>12, <1>13 DEF Calm
<1>15. CRuns(u, G, h, b, th) BY <1>0, <1>1, <1>11, <1>12, <1>14 DEF CRuns
<1>16. u = settop(s, co, top(s, co) - 1) BY <1>0 DEF u, top
<1> QED BY <1>12, <1>15, <1>16

\* The history of the error does not count.
LEMMA CRunsSame ==
  ASSUME NEW s, NEW G, NEW h, NEW b, NEW th, CRuns(s, G, h, b, th), NEW u, Same(s, u)
  PROVE  CRuns(u, G, h, b, th)
<1>1. Body(s, G, h, b) /\ Calm(s, G) BY DEF CRuns
<1>2. Body(u, G, h, b) BY <1>1, BodySame
<1>3. u.C = s.C /\ u.L = s.L BY DEF Same, InC
<1>4. Calm(u, G) BY <1>1, <1>3 DEF Calm
<1> QED BY <1>2, <1>3, <1>4 DEF CRuns

\* The error that is delivered.
LEMMA Delivers ==
  ASSUME NEW s, NEW G, NEW h, NEW b, NEW th, CRuns(s, G, h, b, th), NEW co \in Threads, Left(s.L[co])
  PROVE  CRuns(Deliver(s, co), G, h, b, th) /\ Deliver(s, co).C = s.C
<1> DEFINE u == settop(s, co, top(s, co) - 1)   w == Deliver(s, co)
<1>1. CRuns(u, G, h, b, th) /\ u.C = s.C BY TakesOff
<1>2. w = [u EXCEPT !.result = <<co, Last(s.L[co].stack)>>] BY DEF Deliver
<1>3. State(u) BY <1>1 DEF CRuns, Body
<1> HIDE DEF u, w
<1>4. Same(u, w) BY <1>2, <1>3, History
<1>5. CRuns(w, G, h, b, th) BY <1>1, <1>4, CRunsSame
<1>6. w.C = u.C BY <1>4 DEF Same
<1> QED BY <1>1, <1>5, <1>6 DEF w

\* It becomes the caller's.
LEMMA Propagates ==
  ASSUME NEW s, NEW G, NEW h, NEW b, NEW th, CRuns(s, G, h, b, th), s.C[Len(s.C)].at \in CoCallers, NEW e
  PROVE  Holds(luaG_errormsg(push(s, th, e), th), h, b)
<1> DEFINE x == s.L[th]   f == x.ci[Len(x.ci)]   u == push(s, th, e)   p == Len(x.stack) + 1
<1>1. Body(s, G, h, b) /\ Calm(s, G) /\ th = s.C[Len(s.C)].th BY DEF CRuns
<1>2. ~f.ypcall
  <2>1. RunsIn(s, G, th) BY <1>1, TopFrame
  <2>2. f.ypcall => s.C[Len(s.C)].at = "luaB_pcall" BY <2>1, Zenon DEF RunsIn, Callers, CoCallers
  <2> QED BY <2>2 DEF CoCallers
<1>3. Poised(u, G, h, b, p) /\ u.C = s.C /\ Len(u.L[th].stack) = p
  BY <1>1, <1>2, Pushes, ZenonT(60)
<1> HIDE DEF u, p
<1>4. Poised(u, G, h, b, Len(u.L[th].stack)) /\ th = u.C[Len(u.C)].th /\ u.C[Len(u.C)].at \in CoCallers
  BY <1>1, <1>3
<1>5. Holds(luaG_errormsg(u, th), h, b) BY <1>4, ErrorMessage
<1> QED BY <1>5 DEF u

\* What a C function that called into another thread knows of it.
LEMMA CoFacts ==
  ASSUME NEW s, NEW G, NEW h, NEW b, Body(s, G, h, b), Running(s, G), s.C[Len(s.C)].at \in CoCallers
  PROVE  LET a == s.C[Len(s.C)]
         IN  /\ CRuns(s, G, h, b, a.th) /\ Top(s) = a /\ a.co \in Threads /\ a.th \in Threads /\ a.status \in Statuses \union {"not_resumed"}
             /\ a \in CoActs /\ State(s) /\ s.L[a.th].status = "OK"
<1> DEFINE a == s.C[Len(s.C)]
<1>1. a \in Acts /\ Top(s) = a /\ State(s) BY TopFacts, Zenon
<1>2. a \in CoActs BY <1>1, Kinds
<1>3. ~IsRawRun(a) BY DEF IsRawRun, CoCallers
<1>4. Settled(s.L[a.th], a, G[Len(s.C)]) BY <1>3, Zenon DEF Running, Thrown
<1>5. a.at \in Callers BY DEF Callers
<1> HIDE DEF a
<1>6. Calm(s, G) BY <1>4, <1>5 DEF Calm, a
<1>7. CRuns(s, G, h, b, a.th) BY <1>5, <1>6 DEF CRuns, a
<1>8. a.co \in Threads /\ a.th \in Threads /\ a.status \in Statuses \union {"not_resumed"} BY <1>2 DEF CoActs
<1>9. s.L[a.th].status = "OK" BY <1>4 DEF Settled
<1> QED BY <1>1, <1>2, <1>7, <1>8, <1>9 DEF a

\* coroutine.resume goes on.
LEMMA ResumeReturns ==
  ASSUME NEW s, NEW G, NEW h, NEW b, Body(s, G, h, b), Running(s, G), Returned(s), s.C[Len(s.C)].at = "luaB_coresume"
  PROVE  Holds(luaB_coresume(s), h, b)
<1> DEFINE a == s.C[Len(s.C)]   th == a.th   co == a.co
<1>1. /\ CRuns(s, G, h, b, th) /\ Top(s) = a /\ co \in Threads BY CoFacts DEF CoCallers
<1>2. a.status # "OK" => Left(s.L[co]) BY DEF Returned, CoCallers
<1>3. CASE a.status = "not_resumed"
  <2> DEFINE u == settop(s, co, top(s, co) - 1)
  <2>1. Left(s.L[co]) BY <1>2, <1>3
  <2>2. CRuns(u, G, h, b, th) BY <1>1, <2>1, TakesOff
  <2> HIDE DEF u, th, co
  <2>3. Holds(Returns(u, th, TRUE), h, b) BY <2>2, CReturns
  <2> QED BY <1>1, <1>3, <2>3 DEF luaB_coresume, u, th, co, Failures
<1>4. CASE a.status \in Failures
  <2> DEFINE u == Deliver(s, co)
  <2>1. Left(s.L[co]) BY <1>2, <1>4 DEF Failures
  <2>2. CRuns(u, G, h, b, th) BY <1>1, <2>1, Delivers
  <2> HIDE DEF u, th, co
  <2>3. Holds(Returns(u, th, TRUE), h, b) BY <2>2, CReturns
  <2> QED BY <1>1, <1>4, <2>3 DEF luaB_coresume, u, th, co, Failures
<1>5. CASE a.status # "not_resumed" /\ a.status \notin Failures
  <2> HIDE DEF th
  <2>1. Holds(Returns(s, th, TRUE), h, b) BY <1>1, CReturns
  <2> QED BY <1>1, <1>5, <2>1 DEF luaB_coresume, th
<1> QED BY <1>3, <1>4, <1>5

\* coroutine.close goes on.
LEMMA CloseReturns ==
  ASSUME NEW s, NEW G, NEW h, NEW b, Body(s, G, h, b), Running(s, G), Returned(s), s.C[Len(s.C)].at = "luaB_close"
  PROVE  Holds(AfterClose(s), h, b)
<1> DEFINE a == s.C[Len(s.C)]   th == a.th   co == a.co
<1>1. /\ CRuns(s, G, h, b, th) /\ Top(s) = a /\ co \in Threads BY CoFacts DEF CoCallers
<1>2. a.status # "OK" => Left(s.L[co]) BY DEF Returned, CoCallers
<1>3. CASE a.status # "OK"
  <2> DEFINE u == Deliver(s, co)
  <2>1. CRuns(u, G, h, b, th) BY <1>1, <1>2, <1>3, Delivers
  <2> HIDE DEF u, th, co
  <2>2. Holds(Returns(u, th, TRUE), h, b) BY <2>1, CReturns
  <2> QED BY <1>1, <1>3, <2>2 DEF AfterClose, u, th, co
<1>4. CASE a.status = "OK"
  <2> HIDE DEF th
  <2>1. Holds(Returns(s, th, TRUE), h, b) BY <1>1, CReturns
  <2> QED BY <1>1, <1>4, <2>1 DEF AfterClose, th
<1> QED BY <1>3, <1>4

\* The coroutine of a wrap that had an error is closed: the error is thrown.
LEMMA WrapCloses ==
  ASSUME NEW s, NEW G, NEW h, NEW b, Body(s, G, h, b), Running(s, G), Returned(s), s.C[Len(s.C)].at = "luaB_auxwrap_closed"
  PROVE  Holds(AfterAuxwrapCloses(s), h, b)
<1> DEFINE a == s.C[Len(s.C)]   th == a.th   co == a.co   u == Deliver(s, co)   e == Last(s.L[co].stack)
<1>1. /\ CRuns(s, G, h, b, th) /\ Top(s) = a /\ co \in Threads BY CoFacts DEF CoCallers
<1>2. Left(s.L[co]) BY DEF Returned, CoCallers
<1>3. CRuns(u, G, h, b, th) /\ u.C = s.C BY <1>1, <1>2, Delivers
<1>4. u.C[Len(u.C)].at \in CoCallers BY <1>3 DEF CoCallers
<1> HIDE DEF u, th, co, e
<1>5. Holds(luaG_errormsg(push(u, th, e), th), h, b) BY <1>3, <1>4, Propagates
<1> QED BY <1>1, <1>5 DEF AfterAuxwrapCloses, u, e, th, co

\* A thread that has called into another one waits for it.
LEMMA Busy ==
  ASSUME NEW s, NEW G, NEW h, NEW b, Body(s, G, h, b), NEW t, t # s.C[Len(s.C)].th, NEW i0 \in 1..Len(s.C), s.C[i0].th = t
  PROVE  s.L[t].status = "OK" /\ Len(s.L[t].ci) > 1
<1> DEFINE c == s.C   n == Len(c)   P == {i \in 1..n : c[i].th = t}
<1>0. c = s.C /\ n = Len(c)
  OBVIOUS
<1>1. n \in Nat /\ n \in 1..n /\ c \in Seq(Acts) /\ G \in Seq(Ghosts) /\ Len(G) = n /\ Chain(c, G, h) BY TopFacts, Zenon
<1>2. PICK m \in P : \A i \in P : i <= m
  <2>1. P \in SUBSET Int /\ P # {} /\ n \in Int /\ \A i \in P : i <= n BY <1>1
  <2> HIDE DEF P, n, c
  <2> QED BY ONLY <2>1, GreatestExists
<1>3. m \in 1..n /\ c[m].th = t /\ \A i \in 1..n : c[i].th = t => i <= m BY <1>2
<1> HIDE DEF c, n, P
<1>4. m < n /\ m \in 1..(n - 1) /\ m + 1 \in 1..n /\ m \in Nat
  <2>1. m # n BY <1>0, <1>3
  <2> QED BY <1>1, <1>3, <2>1
<1>5. c[m + 1].th # t
  <2>1. ~(m + 1 <= m) BY <1>4
  <2> QED BY <1>3, <1>4, <2>1
<1>6. Settled(s.L[t], c[m], G[m])
  <2>1. Waiting(s.L, c, G) BY <1>0 DEF Body
  <2> QED BY <1>0, <1>3, <1>4, <1>5, <2>1, Zenon DEF Waiting
<1>7. c[m].at \in Callers
  <2>1. Link(c[m], G[m], c[m + 1], G[m + 1]) BY <1>0, <1>1, <1>4 DEF Chain, Chained
  <2>2. LinkThreads(c[m], c[m + 1]) /\ MayCall(c[m].at, c[m + 1].at) BY <2>1 DEF Link, LinkKinds
  <2>3. c[m + 1].at \in Switches BY <1>3, <1>5, <2>2 DEF LinkThreads
  <2> QED BY <2>2, <2>3 DEF MayCall, Switches, Callers, CoCallers, PlainCallers
<1>8. Sound(s.L[t].ci, s.L[t].open, c[m], G[m])
  <2>1. Live(c, m, n)
    <3> SUFFICES ASSUME NEW l \in (m + 1)..n, c[l].th = t PROVE FALSE BY <1>3 DEF Live
    <3>1. l \in 1..n /\ ~(l <= m) BY <1>4
    <3> QED BY <1>3, <3>1
  <2> QED BY <1>0, <1>3, <2>1 DEF Body, Fits
<1>9. G[m].d > 1 /\ c[m].at # "unroll"
  BY <1>7, <1>8, Zenon DEF Sound, Callers, CoCallers, PlainCallers
<1> QED BY <1>6, <1>9 DEF Settled

\* The first element of a sequence changes.
LEMMA FirstSet ==
  ASSUME NEW V, NEW q \in Seq(V), NEW v
  PROVE  \E W : [q EXCEPT ![1] = v] \in Seq(W) /\ Len([q EXCEPT ![1] = v]) = Len(q)
<1> DEFINE r == [q EXCEPT ![1] = v]   W == V \union {v}   n == Len(q)
<1>1. q \in [1..n -> V] /\ n \in Nat OBVIOUS
<1> HIDE DEF n
<1>2. r \in [1..n -> W] BY <1>1
<1> HIDE DEF r, W
<1>3. r \in Seq(W) /\ Len(r) = n BY <1>1, <1>2
<1> QED BY <1>3 DEF r, n

\* The frame that is left of a closed thread.
LEMMA BaseFrame ==
        /\ CFrame(1) \in Frames /\ CFrame(1).func = 1 /\ ~CFrame(1).lua /\ ~CFrame(1).ypcall /\ CFrame(1).recst = "OK" /\ CFrame(1).op = "none"
        /\ <<CFrame(1)>> \in Seq(Frames) /\ Len(<<CFrame(1)>>) = 1 /\ <<CFrame(1)>>[1] = CFrame(1)
<1> DEFINE f == CFrame(1)
<1>1. f \in Frames /\ f.func = 1 /\ ~f.lua /\ ~f.ypcall /\ f.recst = "OK" /\ f.op = "none" BY DEF CFrame, Frame, Frames, Ends
<1> HIDE DEF f
<1> QED BY <1>1 DEF f

\* Nothing is open in it.
LEMMA BaseStacked ==
  ASSUME NEW n \in Nat
  PROVE  Stacked(<<CFrame(1)>>, n, {})
<1> DEFINE q == <<CFrame(1)>>   f == CFrame(1)
<1>1. /\ f \in Frames /\ f.func = 1 /\ ~f.lua /\ ~f.ypcall /\ f.recst = "OK" /\ f.op = "none"
      /\ q \in Seq(Frames) /\ Len(q) = 1 /\ q[1] = f
  BY BaseFrame
<1> HIDE DEF q, f
<1>2. FrameInv(q, {}, 1)
  BY <1>1 DEF FrameInv, LuaFrame, CFrameOf
<1>3. \A i \in 1..Len(q) : i = 1 BY <1>1
<1> QED BY <1>1, <1>2, <1>3 DEF Stacked, q

\* lua_closethread resets a thread.
Resets(s, r, co, cc) ==
    /\ InThread(s, r, co)
    /\ LET y == r.L[co] IN /\ y.status = "OK" /\ y.ci = <<CFrame(1)>> /\ Len(y.stack) = Len(s.L[co].stack) /\ y.open = s.L[co].open
                           /\ y.nC = cc /\ y.nny = 0
\* The frames of a thread that is closed are dropped.
LEMMA ThreadReset ==
  ASSUME NEW s, State(s), NEW co \in Threads, NEW cc \in Int
  PROVE  Resets(s, resetCI([s EXCEPT !.L[co].nC = cc, !.L[co].nny = 0], co), co, cc)
<1> DEFINE u == [s EXCEPT !.L[co].nC = cc, !.L[co].nny = 0]   x == s.L[co]   y == u.L[co]   k == [y.stack EXCEPT ![1] = Nil]
           r == resetCI(u, co)   z == r.L[co]
<1>1. Turns(s, u, co, x.status, x.ci, Len(x.stack), x.open, cc, 0)
  <2>1. 0 \in Int OBVIOUS
  <2> QED BY <2>1, CountsSet, Zenon
<1>2. State(u) /\ InThread(s, u, co) /\ Len(y.stack) = Len(x.stack) /\ y.open = x.open /\ y.nC = cc /\ y.nny = 0
  BY <1>1 DEF Turns, InThread
<1> HIDE DEF u
<1>3. IsThread(y) /\ DOMAIN u = StateFields /\ DOMAIN u.L = Threads /\ DOMAIN y = ThreadFields
  BY <1>2, Zenon DEF State, IsThread
<1>4. /\ DOMAIN r = StateFields /\ DOMAIN r.L = Threads /\ DOMAIN z = ThreadFields /\ (\A t \in Threads : t # co => r.L[t] = u.L[t])
      /\ r.C = u.C /\ r.gcstp = u.gcstp
      /\ z.ci = ResetThread.ci /\ z.stack = k /\ z.status = "OK" /\ z.errfunc = 0
      /\ z.tbc = y.tbc /\ z.open = y.open /\ z.nC = y.nC /\ z.nny = y.nny
  BY <1>3 DEF resetCI, StateFields, ThreadFields
<1> HIDE DEF x, y, k, r, z
<1>5. (\E W : k \in Seq(W)) /\ Len(k) = Len(y.stack)
  <2>1. PICK V : y.stack \in Seq(V) BY <1>3 DEF IsThread
  <2> QED BY <2>1, FirstSet DEF k
<1>6. z.ci = <<CFrame(1)>> BY <1>4 DEF ResetThread
<1>7. IsThread(z)
  <2>1. z.ci \in Seq(Frames) BY <1>6, BaseFrame
  <2>2. "OK" \in Statuses BY DEF Statuses
  <2> QED BY <1>3, <1>4, <1>5, <2>1, <2>2 DEF IsThread
<1>8. InThread(u, r, co)
  <2>1. ASSUME NEW t \in Threads PROVE IsThread(r.L[t])
    <3>1. t # co => r.L[t] = u.L[t] /\ IsThread(u.L[t]) BY <1>2, <1>4 DEF State
    <3> QED BY <1>7, <3>1 DEF z
  <2>2. State(r) BY <1>4, <2>1 DEF State
  <2> QED BY <1>4, <2>2 DEF InThread
<1>9. InThread(s, r, co)
  BY <1>2, <1>8 DEF InThread
<1>10. Resets(s, r, co, cc)
  BY <1>2, <1>4, <1>5, <1>6, <1>9 DEF Resets, x, z
<1> QED BY <1>10 DEF r, u
\* A coroutine that does not run, or the one that runs, can be closed.
ClosesCo(s, G, th, co) ==
    LET z == s.C[Len(s.C)]
    IN  /\ z.at \in {"luaB_auxwrap_closed", "luaB_close"} /\ z.th = th /\ z.co = co /\ co \in Threads /\ co # Main
        /\ Settled(s.L[th], z, G[Len(s.C)])
        /\ co = th \/ \A i \in 1..Len(s.C) : s.C[i].th # co
\* Closing begins in the thread.
LEMMA ClosesThread ==
  ASSUME NEW s, NEW G, NEW h, NEW b, Body(s, G, h, b), NEW th, NEW co, ClosesCo(s, G, th, co)
  PROVE  Holds(lua_closethread(s, co, th), h, b)
<1> DEFINE n == Len(s.C)   z == s.C[n]   k == G[n]   x == s.L[co]   cc == s.L[th].nC
           r == resetCI([s EXCEPT !.L[co].nC = cc, !.L[co].nny = 0], co)
           a == [at |-> "lua_closethread", th |-> co, from |-> th, status |-> "OK"]   g == [d |-> 1, b |-> 0, c |-> k.c, e |-> 0, j |-> 0]
           v == PushC(r, a)   w == luaF_closeupval(v, co, 2)   y == w.L[co]   G2 == Append(G, g)
           st == IF s.L[co].status = "YIELD" THEN "OK" ELSE s.L[co].status
<1>0. n = Len(s.C) /\ z = s.C[n] /\ k = G[n] /\ x = s.L[co] /\ cc = s.L[th].nC
  OBVIOUS
<1>1. /\ z.at \in {"luaB_auxwrap_closed", "luaB_close"} /\ z.th = th /\ z.co = co /\ co \in Threads /\ co # Main
      /\ Settled(s.L[th], z, k)
      /\ co = th \/ \A i \in 1..n : s.C[i].th # co
  BY DEF ClosesCo
<1>2. /\ n \in Nat /\ n \in 1..n /\ z \in Acts /\ k \in Ghosts /\ th \in Threads /\ State(s)
      /\ s.C \in Seq(Acts) /\ G \in Seq(Ghosts) /\ Len(G) = n
  BY <1>1, TopFacts, Zenon
<1>3. a.at = "lua_closethread" /\ a.th = co /\ a.from = th /\ a.status = "OK" /\ a \in Acts
  <2>1. a \in ThreadActs BY <1>1, <1>2 DEF ThreadActs, Ends
  <2> QED BY <2>1 DEF Acts
<1>4. k.c \in Int /\ k.e \in Nat /\ k.d \in Nat BY <1>2 DEF Ghosts
<1>5. g.d = 1 /\ g.b = 0 /\ g.c = k.c /\ g.e = 0 /\ g.j = 0 /\ g \in Ghosts
  BY <1>4 DEF Ghosts
<1>6. IsThread(x) /\ Stacked(x.ci, Len(x.stack), x.open) /\ st \in Ends
  <2>1. IsThread(x) /\ Stacked(x.ci, Len(x.stack), x.open) BY <1>1, <1>2 DEF Body, ThreadInv, State
  <2>2. st \in Ends BY <2>1 DEF IsThread, Ends, Statuses
  <2> QED BY <2>1, <2>2
<1> HIDE DEF n, z, k, x, cc, r, a, g, v, w, y, G2, st
<1>7. cc = k.c BY <1>0, <1>1 DEF Settled
<1>8. Resets(s, r, co, cc)
  <2>1. cc \in Int BY <1>4, <1>7
  <2> QED BY <1>1, <1>2, <2>1, ThreadReset, Zenon DEF r
<1>9. /\ State(r) /\ r.C = s.C /\ r.gcstp = s.gcstp /\ (\A t \in Threads : t # co => r.L[t] = s.L[t])
      /\ r.L[co].status = "OK" /\ r.L[co].ci = <<CFrame(1)>> /\ Len(r.L[co].stack) = Len(x.stack) /\ r.L[co].open = x.open
      /\ r.L[co].nC = k.c /\ r.L[co].nny = 0
  BY <1>0, <1>7, <1>8 DEF Resets, InThread
<1>10. State(v) /\ v.L = r.L /\ v.C = Append(s.C, a) /\ v.gcstp = s.gcstp
  BY <1>9 DEF v, PushC, State, StateFields
<1>11. Turns(v, w, co, "OK", <<CFrame(1)>>, Len(x.stack), {o \in x.open : o < 2}, k.c, 0)
  <2>1. /\ v.L[co].status = "OK" /\ v.L[co].ci = <<CFrame(1)>> /\ Len(v.L[co].stack) = Len(x.stack) /\ v.L[co].open = x.open
        /\ v.L[co].nC = k.c /\ v.L[co].nny = 0
    BY <1>9, <1>10
  <2>2. Turns(v, w, co, v.L[co].status, v.L[co].ci, Len(v.L[co].stack), {o \in v.L[co].open : o < 2}, v.L[co].nC, v.L[co].nny)
    BY <1>1, <1>10, Closed DEF w
  <2> QED BY <2>1, <2>2
<1>12. {o \in x.open : o < 2} = {} /\ Len(x.stack) \in Nat
  <2>1. x.open \subseteq 2..Len(x.stack) /\ Len(x.stack) \in Nat BY <1>6 DEF Stacked
  <2> QED BY <2>1
<1>13. /\ State(w) /\ w.C = Append(s.C, a) /\ w.gcstp = s.gcstp /\ (\A t \in Threads : t # co => w.L[t] = s.L[t])
       /\ y.status = "OK" /\ y.ci = <<CFrame(1)>> /\ Len(y.stack) = Len(x.stack) /\ y.open = {} /\ y.nC = k.c /\ y.nny = 0
  BY <1>9, <1>10, <1>11, <1>12 DEF Turns, InThread, y
<1>14. Calls(s.C, G, a, g)
  <2>1. LinkThreads(z, a) BY <1>1, <1>3 DEF LinkThreads, Switches
  <2>2. LinkKinds(z, a) BY <1>1, <1>3 DEF LinkKinds, MayCall, IsRawRun
  <2>3. LinkCounts(k, a, g) BY <1>3, <1>4, <1>5 DEF LinkCounts, Switches
  <2>4. LinkFrames(z, k, a, g) BY <1>1, <1>3, <1>5 DEF LinkFrames, Callers, CoCallers, PlainCallers, Switches
  <2>5. Own(a, g) BY <1>3, <1>5 DEF Own, IsRawRun
  <2>6. g.j = Target(a, n + 1, k.j) BY <1>3, <1>5 DEF Target, IsRawRun
  <2> QED BY <1>0, <1>1, <1>3, <1>5, <2>1, <2>2, <2>3, <2>4, <2>5, <2>6 DEF Calls, Link
<1>15. Sound(<<CFrame(1)>>, {}, a, g)
  <2> DEFINE q == <<CFrame(1)>>
  <2>1. Len(q) = 1 BY BaseFrame
  <2> HIDE DEF q
  <2>2. Sound(q, {}, a, g)
    BY <1>3, <1>5, <2>1 DEF Sound, Floored, Levelled, NoneFrom, Callers, CoCallers, PlainCallers
  <2> QED BY <2>2 DEF q
<1>16. Body(w, G2, h, b)
  <2>1. ThreadInv(y) BY <1>12, <1>13, BaseStacked DEF ThreadInv, Suspended
  <2>2. ThreadInv(w.L[a.th]) /\ Sound(w.L[a.th].ci, w.L[a.th].open, a, g) /\ a.at \in Switches
        /\ \A t \in Threads : t # a.th => w.L[t] = s.L[t]
    BY <1>3, <1>13, <1>15, <2>1 DEF y, Switches
  <2>3. IF a.th = s.C[Len(s.C)].th THEN a.at = "lua_closethread"
        ELSE Settled(s.L[s.C[Len(s.C)].th], s.C[Len(s.C)], G[Len(G)])
    BY <1>0, <1>1, <1>2, <1>3
  <2> QED BY <1>13, <1>14, <2>2, <2>3, BodySwitch DEF G2
<1>17. Len(w.C) = n + 1 /\ w.C[n + 1] = a /\ G2[n + 1] = g
  BY <1>0, <1>2, <1>3, <1>5, <1>13, AppendAct DEF G2
<1>18. ProtectsClose(w, G2, co, 2)
  <2> DEFINE q == <<CFrame(1)>>   f == CFrame(1)
  <2>1. Len(q) = 1 /\ q[1] = f /\ f.func = 1 /\ ~f.ypcall BY BaseFrame
  <2> HIDE DEF q, f
  <2>2. y.ci = q BY <1>13 DEF q
  <2>3. Settled(y, a, g) BY <1>3, <1>5, <1>13, <2>1, <2>2 DEF Settled, IsRawRun
  <2> QED BY <1>3, <1>13, <1>17, <2>1, <2>2, <2>3 DEF ProtectsClose, y
<1>19. Holds(luaD_closeprotected(v, co, 2, st), h, b)
  BY <1>1, <1>6, <1>10, <1>16, <1>18, ClosingProtected DEF w
<1> QED BY <1>19 DEF lua_closethread, v, r, a, st, cc

\* lua_closethread does the same above another C stack.
ClosedAlike(s, v, co, th) ==
    \E a, p, l : LET r == lua_closethread(s, co, th)   u == lua_closethread(v, co, th)
                 IN  /\ State(r) /\ State(u) /\ u.L = r.L /\ u.gcstp = r.gcstp
                     /\ r.C = Append(Append(Append(s.C, a), p), l) /\ u.C = Append(Append(Append(v.C, a), p), l)
\* Closing does not depend on the history.
LEMMA ClosesAlike ==
  ASSUME NEW s, State(s), NEW v, State(v), v.L = s.L, v.gcstp = s.gcstp, NEW co \in Threads, NEW th, s.L[th].nC \in Int
  PROVE  ClosedAlike(s, v, co, th)
<1> DEFINE cc == s.L[th].nC   st == IF s.L[co].status = "YIELD" THEN "OK" ELSE s.L[co].status
           a == [at |-> "lua_closethread", th |-> co, from |-> th, status |-> "OK"]
           F(t) == resetCI([t EXCEPT !.L[co].nC = cc, !.L[co].nny = 0], co)
           P(t) == [RawRun("closeprotected", t, co, 2) EXCEPT !.closing = st]
           l == [at |-> "luaF_close", th |-> co, level |-> 2, status |-> st, yy |-> FALSE]
           s1 == F(s)   v1 == F(v)   s2 == PushC(s1, a)   v2 == PushC(v1, a)   p == P(s2)
           s3 == PushC(s2, p)   v3 == PushC(v2, p)   s4 == luaF_closeupval(s3, co, 2)   v4 == luaF_closeupval(v3, co, 2)
           r == lua_closethread(s, co, th)   u == lua_closethread(v, co, th)
<1>1. Resets(s, s1, co, cc) /\ Resets(v, v1, co, cc)
  <2> HIDE DEF cc
  <2>1. cc \in Int BY DEF cc
  <2> QED BY <2>1, ThreadReset, Zenon
<1>2. State(s1) /\ State(v1) /\ s1.C = s.C /\ v1.C = v.C /\ s1.gcstp = v1.gcstp
  BY <1>1, Zenon DEF Resets, InThread
<1>3. s1.L = v1.L
  <2> HIDE DEF cc
  <2> DEFINE M1(f) == [[f EXCEPT ![co].nC = cc] EXCEPT ![co].nny = 0]
             M2(f) == [[[[f EXCEPT ![co].ci = ResetThread.ci] EXCEPT ![co].stack[1] = Nil] EXCEPT ![co].status = "OK"]
                          EXCEPT ![co].errfunc = 0]
             M(f) == M2(M1(f))
  <2>1. ASSUME NEW t, State(t) PROVE F(t).L = M(t.L)
    <3> DEFINE t1 == [t EXCEPT !.L[co].nC = cc, !.L[co].nny = 0]
    <3>1. "L" \in DOMAIN t /\ "scopes" \in DOMAIN t /\ DOMAIN t = StateFields BY <2>1 DEF State, StateFields
    <3>2. t1.L = M1(t.L) /\ DOMAIN t1 = StateFields BY <3>1
    <3> HIDE DEF t1, M1
    <3>3. ASSUME NEW w, DOMAIN w = StateFields PROVE resetCI(w, co).L = M2(w.L)
      <4>1. "L" \in DOMAIN w /\ "scopes" \in DOMAIN w BY <3>3 DEF StateFields
      <4> QED BY <4>1 DEF resetCI
    <3> QED BY <3>2, <3>3 DEF t1
  <2> HIDE DEF M, F
  <2> QED BY <2>1
<1>4. r = PushC(s4, l) /\ P(s2) = p
  BY DEF lua_closethread, luaD_closeprotected, luaF_close
<1>5. u = PushC(luaF_closeupval(PushC(v2, P(v2)), co, 2), l)
  BY DEF lua_closethread, luaD_closeprotected, luaF_close
<1> HIDE DEF F, s1, v1, cc, st, a
<1>6. /\ State(s2) /\ State(v2) /\ s2.L = s1.L /\ v2.L = v1.L /\ s2.C = Append(s.C, a) /\ v2.C = Append(v.C, a)
      /\ s2.gcstp = s1.gcstp /\ v2.gcstp = v1.gcstp
  BY <1>2 DEF PushC, State, StateFields
<1> HIDE DEF s2, v2
<1>7. P(v2) = p
  BY <1>3, <1>6 DEF RawRun
<1> HIDE DEF P, p
<1>8. /\ State(s3) /\ State(v3) /\ s3.L = s1.L /\ v3.L = v1.L /\ s3.C = Append(Append(s.C, a), p) /\ v3.C = Append(Append(v.C, a), p)
      /\ s3.gcstp = s1.gcstp /\ v3.gcstp = v1.gcstp
  BY <1>6 DEF PushC, State, StateFields
<1>9. u = PushC(v4, l) BY <1>5, <1>7
<1> HIDE DEF s3, v3
<1>10. State(s4) /\ State(v4) /\ s4.C = s3.C /\ v4.C = v3.C /\ s4.gcstp = s1.gcstp /\ v4.gcstp = v1.gcstp
  BY <1>8, Closed, SMTT(40) DEF Turns, InThread
<1>11. s4.L = v4.L
  BY <1>3, <1>8 DEF luaF_closeupval, State, StateFields
<1> HIDE DEF s4, v4, l, r, u
<1>12. /\ State(r) /\ State(u) /\ r.L = s4.L /\ u.L = v4.L /\ r.gcstp = s4.gcstp /\ u.gcstp = v4.gcstp
       /\ r.C = Append(s4.C, l) /\ u.C = Append(v4.C, l)
  BY <1>4, <1>9, <1>10 DEF PushC, State, StateFields
<1>13. /\ u.L = r.L /\ u.gcstp = r.gcstp
       /\ r.C = Append(Append(Append(s.C, a), p), l) /\ u.C = Append(Append(Append(v.C, a), p), l)
  BY <1>2, <1>8, <1>10, <1>11, <1>12
<1> QED BY <1>12, <1>13 DEF ClosedAlike, r, u

\* An error of a wrapped coroutine that has not been closed closes it.
LEMMA WrapFails ==
  ASSUME NEW s, NEW G, NEW h, NEW b, Body(s, G, h, b), Running(s, G), s.C[Len(s.C)].at = "luaB_auxwrap",
         s.L[s.C[Len(s.C)].co].status \in Failures
  PROVE  LET a == s.C[Len(s.C)]
         IN  Holds([lua_closethread(s, a.co, a.th) EXCEPT !.C[Len(s.C)].at = "luaB_auxwrap_closed"], h, b)
<1> DEFINE n == Len(s.C)   l == n - 1   z == s.C[n]   k == G[n]   th == z.th   co == z.co   x == s.L[th]
           a == [z EXCEPT !.at = "luaB_auxwrap_closed"]   v == [s EXCEPT !.C[n] = a]   G2 == Append(SubSeq(G, 1, l), k)
           w == lua_closethread(v, co, th)   t == lua_closethread(s, co, th)   u == [t EXCEPT !.C[n].at = "luaB_auxwrap_closed"]
<1>0. n = Len(s.C) /\ l = n - 1 /\ z = s.C[n] /\ k = G[n] /\ th = z.th /\ co = z.co /\ x = s.L[th]
  OBVIOUS
<1>1. CRuns(s, G, h, b, th) /\ co \in Threads /\ th \in Threads /\ z \in CoActs /\ State(s) /\ x.status = "OK" /\ z.at = "luaB_auxwrap"
  BY CoFacts DEF CoCallers
<1>2. /\ n \in Nat /\ n \in 1..n /\ z \in Acts /\ k \in Ghosts /\ s.C \in Seq(Acts) /\ G \in Seq(Ghosts) /\ Len(G) = n
      /\ Sound(x.ci, x.open, z, k) /\ Own(z, k) /\ Chain(s.C, G, h)
  BY TopFacts, Zenon
<1>3. s.L[co].status \in Failures OBVIOUS
<1> HIDE DEF n, l, z, k, th, co, x, a, v, G2, w, t, u
<1>4. /\ a \in Acts /\ a.at = "luaB_auxwrap_closed" /\ a.th = th /\ a.co = co /\ a.status = z.status
  <2>1. a \in CoActs /\ a.at = "luaB_auxwrap_closed" /\ a.th = th /\ a.co = co /\ a.status = z.status
    BY <1>0, <1>1, Zenon DEF a, CoActs, CoCallers
  <2> QED BY <2>1 DEF Acts
<1>5. /\ n \in 2..n /\ Link(s.C[l], G[l], z, k) /\ k.j = Target(z, n, G[l].j) /\ s.C[l] \in Acts /\ G[l] \in Ghosts
  <2>1. n \in 1..Len(s.C) /\ s.C[n].at # "host" BY <1>0, <1>1, <1>2, Zenon
  <2>2. /\ n \in 2..Len(s.C) /\ Link(s.C[n - 1], G[n - 1], s.C[n], G[n]) /\ G[n].j = Target(s.C[n], n, G[n - 1].j)
        /\ s.C[n - 1] \in Acts /\ G[n - 1] \in Ghosts
    BY <1>2, <2>1, Pair
  <2> QED BY <1>0, <2>2
<1>6. Link(s.C[l], G[l], a, k)
  <2>1. LinkThreads(s.C[l], z) /\ LinkKinds(s.C[l], z) /\ LinkCounts(G[l], z, k) /\ LinkFrames(s.C[l], G[l], z, k)
    BY <1>5 DEF Link
  <2>2. s.C[l].at = "execute" BY <1>1, <2>1 DEF LinkKinds, MayCall, Callers, CoCallers, PlainCallers
  <2>3. LinkThreads(s.C[l], a) BY <1>0, <1>1, <1>4, <2>1, Zenon DEF LinkThreads, Switches
  <2>4. LinkKinds(s.C[l], a) BY <1>4, <2>2 DEF LinkKinds, MayCall, IsRawRun, Callers, CoCallers
  <2>5. LinkCounts(G[l], a, k) BY <1>1, <1>4, <2>1 DEF LinkCounts, Switches
  <2>6. LinkFrames(s.C[l], G[l], a, k) BY <1>1, <1>4, <2>1, <2>2 DEF LinkFrames, Callers, CoCallers, PlainCallers, Switches
  <2> QED BY <2>3, <2>4, <2>5, <2>6 DEF Link
<1>7. Sound(x.ci, x.open, a, k)
  BY <1>1, <1>2, <1>4 DEF Sound, Floored, Levelled, Callers, CoCallers, PlainCallers
<1>8. Replaces(s, G, a, k)
  <2>1. Own(a, k) BY <1>4 DEF Own, IsRawRun
  <2>2. k.j = Target(a, n, G[l].j) BY <1>1, <1>4, <1>5 DEF Target, IsRawRun
  <2> QED BY <1>0, <1>1, <1>2, <1>4, <1>6, <1>7, <2>1, <2>2, Zenon DEF Replaces, Switches
<1>9. State(v) /\ v.L = s.L /\ v.gcstp = s.gcstp /\ v.C = [s.C EXCEPT ![n] = a]
  BY <1>1 DEF v, State, StateFields
<1>10. v.C = Append(SubSeq(s.C, 1, l), a)
  <2> DEFINE c == s.C   e == SubSeq(c, 1, l)
  <2>1. e \in Seq(Acts) /\ Len(e) = l /\ \A i \in 1..l : e[i] = c[i]
    <3>1. Len(c) >= 1 BY <1>0, <1>2
    <3> QED BY <1>0, <1>2, <3>1, OneMore
  <2>2. l \in Nat /\ n = l + 1
    <3>1. n >= 1 BY <1>2
    <3> QED BY <1>0, <1>2, <3>1
  <2> HIDE DEF e
  <2>3. Len(Append(e, a)) = n /\ Append(e, a) \in Seq(Acts) /\ Append(e, a)[n] = a /\ \A i \in 1..l : Append(e, a)[i] = c[i]
    BY <1>4, <2>1, <2>2
  <2>4. [c EXCEPT ![n] = a] \in Seq(Acts) /\ Len([c EXCEPT ![n] = a]) = n /\ \A i \in 1..n : [c EXCEPT ![n] = a][i] = (IF i = n THEN a ELSE c[i])
    BY <1>0, <1>2, <1>4
  <2>5. \A i \in 1..n : i = n \/ i \in 1..l BY <2>2
  <2> DEFINE r1 == Append(e, a)   r2 == [c EXCEPT ![n] = a]
  <2>6. Len(r1) = Len(r2) /\ \A i \in 1..Len(r1) : r1[i] = r2[i] BY <2>3, <2>4, <2>5
  <2>7. r1 \in Seq(Acts) /\ r2 \in Seq(Acts) BY <2>3, <2>4
  <2> HIDE DEF r1, r2
  <2>8. r1 = r2 BY <2>6, <2>7
  <2> QED BY <1>9, <2>8 DEF r1, r2, e
<1>11. /\ Body(v, G2, h, b) /\ Len(v.C) = n /\ v.C[n] = a /\ G2[n] = k /\ \A i \in 1..l : v.C[i] = s.C[i]
  <2>1. InC(s, v) BY <1>9 DEF InC
  <2>2. v.C = Append(SubSeq(s.C, 1, Len(s.C) - 1), a) BY <1>0, <1>10
  <2>3. Body(s, G, h, b) OBVIOUS
  <2> QED BY <1>0, <1>8, <2>1, <2>2, <2>3, BodyReplace DEF G2
<1>12. Settled(x, z, k) BY <1>0, <1>1, Zenon DEF CRuns, Calm
<1>13. co # th /\ \A i \in 1..n : s.C[i].th # co
  <2>1. co # th BY <1>0, <1>1, <1>3, Zenon DEF Failures
  <2>2. ASSUME NEW i \in 1..n, s.C[i].th = co PROVE FALSE
    <3>1. Body(s, G, h, b) OBVIOUS
    <3>2. s.L[co].status = "OK" BY <1>0, <2>1, <2>2, <3>1, Busy
    <3> QED BY <1>3, <3>2 DEF Failures
  <2> QED BY <2>1, <2>2
<1>14. co # Main
  <2>1. s.C[1].th = Main /\ 1 \in 1..n BY <1>0, <1>2 DEF Chain, Chained
  <2> QED BY <1>13, <2>1
<1>15. \A i \in 1..n : v.C[i].th # co
  <2> SUFFICES ASSUME NEW i \in 1..n PROVE v.C[i].th # co OBVIOUS
  <2>1. i = n \/ i \in 1..l BY <1>0, <1>2
  <2>2. CASE i = n BY <1>4, <1>11, <1>13, <2>2
  <2>3. CASE i \in 1..l BY <1>11, <1>13, <2>3
  <2> QED BY <2>1, <2>2, <2>3
<1>16. ClosesCo(v, G2, th, co)
  <2>1. Settled(x, a, k) BY <1>1, <1>4, <1>12 DEF Settled, IsRawRun
  <2>2. v.L[th] = x BY <1>0, <1>9
  <2> QED BY <1>1, <1>4, <1>11, <1>14, <1>15, <2>1, <2>2 DEF ClosesCo
<1>17. Holds(w, h, b) BY <1>11, <1>16, ClosesThread DEF w
<1>18. Same(w, u)
  <2>1. x.nC \in Int BY <1>0, <1>1, Zenon DEF State, IsThread
  <2>2. PICK d, p, f : /\ State(t) /\ State(w) /\ w.L = t.L /\ w.gcstp = t.gcstp
                       /\ t.C = Append(Append(Append(s.C, d), p), f) /\ w.C = Append(Append(Append(v.C, d), p), f)
    <3>1. State(s) /\ State(v) /\ v.L = s.L /\ v.gcstp = s.gcstp /\ co \in Threads /\ s.L[th].nC \in Int
      BY <1>0, <1>1, <1>9, <2>1, Zenon
    <3>2. ClosedAlike(s, v, co, th) BY <3>1, ClosesAlike
    <3> QED BY <3>2 DEF ClosedAlike, t, w
  <2>3. w.C = [t.C EXCEPT ![n].at = "luaB_auxwrap_closed"]
    <3> DEFINE c == s.C   D == Acts \union {d, p, f}   c2 == [c EXCEPT ![n] = a]   q == Append(Append(Append(c, d), p), f)
               q2 == Append(Append(Append(c2, d), p), f)   r == [q EXCEPT ![n] = a]
    <3>1. c \in Seq(D) /\ Len(c) = n BY <1>0, <1>2
    <3>2. c2 \in Seq(D) /\ Len(c2) = n /\ \A i \in 1..n : c2[i] = (IF i = n THEN a ELSE c[i])
      BY <1>2, <1>4, <3>1
    <3> HIDE DEF c2, c, D
    <3>3. d \in D /\ p \in D /\ f \in D /\ a \in D BY <1>4 DEF D
    <3>4. q \in Seq(D) /\ Len(q) = n + 3 /\ (\A i \in 1..n : q[i] = c[i]) /\ q[n + 1] = d /\ q[n + 2] = p /\ q[n + 3] = f
      BY <1>2, <3>1, <3>3
    <3>5. q2 \in Seq(D) /\ Len(q2) = n + 3 /\ (\A i \in 1..n : q2[i] = c2[i]) /\ q2[n + 1] = d /\ q2[n + 2] = p /\ q2[n + 3] = f
      BY <1>2, <3>2, <3>3
    <3> HIDE DEF q, q2
    <3>6. r \in Seq(D) /\ Len(r) = n + 3 /\ \A i \in 1..(n + 3) : r[i] = (IF i = n THEN a ELSE q[i])
      BY <1>2, <3>3, <3>4
    <3> HIDE DEF r
    <3>7. ASSUME NEW i \in 1..(n + 3) PROVE r[i] = q2[i]
      <4>1. i \in 1..n \/ i = n + 1 \/ i = n + 2 \/ i = n + 3 BY <1>2
      <4>2. ~(n + 1 = n) /\ ~(n + 2 = n) /\ ~(n + 3 = n) BY <1>2
      <4> QED BY <3>2, <3>4, <3>5, <3>6, <4>1, <4>2
    <3>8. r = q2 BY <3>5, <3>6, <3>7
    <3>9. w.C = q2 BY <1>9, <2>2 DEF q2, c2, c
    <3>10. q[n] = z /\ n \in DOMAIN q BY <1>0, <1>2, <3>4 DEF c
    <3>11. t.C = q BY <2>2 DEF q, c
    <3>12. [q EXCEPT ![n].at = "luaB_auxwrap_closed"] = r BY <3>10 DEF r, a
    <3> QED BY <3>8, <3>9, <3>11, <3>12
  <2>4. State(u) /\ u.L = t.L /\ u.gcstp = t.gcstp /\ u.C = [t.C EXCEPT ![n].at = "luaB_auxwrap_closed"]
    BY <2>2 DEF u, State, StateFields
  <2> QED BY <2>2, <2>3, <2>4 DEF Same, InC
<1>19. Holds(u, h, b) BY <1>17, <1>18, HoldsSame
<1> QED BY <1>19, Zenon DEF u, t, n, th, co, z

\* coroutine.wrap goes on.
LEMMA WrapReturns ==
  ASSUME NEW s, NEW G, NEW h, NEW b, Body(s, G, h, b), Running(s, G), Returned(s), s.C[Len(s.C)].at = "luaB_auxwrap"
  PROVE  Holds(luaB_auxwrap(s), h, b)
<1> DEFINE a == s.C[Len(s.C)]   th == a.th   co == a.co   e == Last(s.L[co].stack)
<1>1. /\ CRuns(s, G, h, b, th) /\ Top(s) = a /\ co \in Threads BY CoFacts DEF CoCallers
<1>2. a.status # "OK" => Left(s.L[co]) BY DEF Returned, CoCallers
<1>3. CASE a.status = "OK"
  <2> HIDE DEF th
  <2>1. Holds(Returns(s, th, TRUE), h, b) BY <1>1, CReturns
  <2>2. a.status \notin Failures BY <1>3 DEF Failures
  <2>3. luaB_auxwrap(s) = Returns(s, th, TRUE) BY <1>1, <1>3, <2>2 DEF luaB_auxwrap, th
  <2> QED BY <2>1, <2>3
<1>4. CASE a.status \in Failures /\ s.L[co].status \in Failures
  <2>1. Holds([lua_closethread(s, a.co, a.th) EXCEPT !.C[Len(s.C)].at = "luaB_auxwrap_closed"], h, b) BY <1>4, WrapFails, Zenon
  <2>2. a.status # "OK" BY <1>4 DEF Failures
  <2>3. luaB_auxwrap(s) = [lua_closethread(s, a.co, a.th) EXCEPT !.C[Len(s.C)].at = "luaB_auxwrap_closed"]
    BY <1>1, <1>4, <2>2 DEF luaB_auxwrap
  <2> QED BY <2>1, <2>3, Zenon
<1>5. CASE a.status # "OK" /\ ~(a.status \in Failures /\ s.L[co].status \in Failures)
  <2> DEFINE u == settop(s, co, top(s, co) - 1)
  <2>1. Left(s.L[co]) BY <1>2, <1>5
  <2>2. CRuns(u, G, h, b, th) /\ u.C = s.C BY <1>1, <2>1, TakesOff
  <2>3. u.C[Len(u.C)].at \in CoCallers BY <2>2, Zenon DEF CoCallers
  <2> HIDE DEF u, e, th
  <2>4. Holds(luaG_errormsg(push(u, th, e), th), h, b) BY <2>2, <2>3, Propagates
  <2>5. luaB_auxwrap(s) = luaG_errormsg(push(u, th, e), th)
    BY <1>1, <1>5, Zenon DEF luaB_auxwrap, u, e, th
  <2> QED BY <2>4, <2>5
<1> QED BY <1>3, <1>4, <1>5

-----------------------------------------------------------------------------
(* Threads that are closed.                                                 *)

\* lua_closethread: everything has been closed.
ThreadCloses(s, G, h, b, co) ==
    LET a == s.C[Len(s.C)]
    IN  Body(s, G, h, b) /\ a.at = "lua_closethread" /\ a.th = co /\ Settled(s.L[co], a, G[Len(s.C)])
ThreadClosed(s, G, u, h, b, co) ==
    LET y == u.L[co]
    IN  /\ Body(u, G, h, b) /\ InThread(s, u, co) /\ Settled(y, s.C[Len(s.C)], G[Len(s.C)])
        /\ Len(y.ci) = 1 /\ y.open = {} /\ Len(y.stack) \in {1, 2} /\ y.ci = s.L[co].ci /\ y.nC \in Int /\ y.nny \in Int
\* The caller goes on, with the status of the thread that was closed.
LEMMA LeavesStatus ==
  ASSUME NEW s, NEW G, NEW h, NEW b, NEW co, ThreadCloses(s, G, h, b, co), NEW status
  PROVE  /\ ThreadClosed(s, G, settop(s, co, 1), h, b, co)
         /\ ThreadClosed(s, G, luaD_seterrorobj(s, co, status, 2), h, b, co)
<1> DEFINE n == Len(s.C)   z == s.C[n]   k == G[n]   x == s.L[co]   q == x.ci   v == settop(s, co, 1)   w == luaD_seterrorobj(s, co, status, 2)
<1>0. n = Len(s.C) /\ z = s.C[n] /\ k = G[n] /\ x = s.L[co] /\ q = x.ci
  OBVIOUS
<1>1. Body(s, G, h, b) /\ z.at = "lua_closethread" /\ z.th = co /\ Settled(x, z, k)
  BY DEF ThreadCloses
<1>2. /\ co \in Threads /\ State(s) /\ IsThread(x) /\ Stacked(q, Len(x.stack), x.open) /\ x.open \subseteq 2..Len(x.stack)
      /\ Sound(q, x.open, z, k) /\ Own(z, k)
  BY <1>1, TopFacts, Zenon
<1> HIDE DEF n, z, k, x, q, v, w
<1>3. Len(q) = 1 /\ k.d = 1 BY <1>0, <1>1, <1>2 DEF Own, Settled
<1>4. x.open = {}
  <2>1. NoneFrom(q, x.open, 1, 2) BY <1>1, <1>2, <1>3 DEF Sound, OpenFrom
  <2>2. ASSUME NEW o \in x.open PROVE FALSE
    <3>1. o >= 2 BY <1>2
    <3> QED BY <1>3, <2>1, <3>1 DEF NoneFrom
  <2> QED BY <2>2
<1>5. q[1].func = 1 BY <1>2 DEF Stacked
<1>6. ASSUME NEW u, NEW m \in {1, 2}, Turns(s, u, co, x.status, q, m, x.open, x.nC, x.nny)
      PROVE  ThreadClosed(s, G, u, h, b, co)
  <2>1. Body(u, G, h, b)
    <3>1. co = s.C[Len(s.C)].th BY <1>0, <1>1
    <3>2. x.open \subseteq s.L[co].open /\ x.open \subseteq 2..m BY <1>0, <1>4
    <3>3. m \in Nat /\ m # 0 /\ s.L[co].ci[Len(s.L[co].ci)].func <= m BY <1>0, <1>3, <1>5
    <3>4. Turns(s, u, co, s.L[co].status, s.L[co].ci, m, x.open, x.nC, x.nny) BY <1>0, <1>6
    <3> QED BY <1>1, <3>1, <3>2, <3>3, <3>4, Restacked, Zenon
  <2>2. InThread(s, u, co) /\ u.L[co].status = x.status /\ u.L[co].ci = q /\ Len(u.L[co].stack) = m /\ u.L[co].open = x.open
        /\ u.L[co].nC = x.nC /\ u.L[co].nny = x.nny
    BY <1>6 DEF Turns
  <2>3. Settled(u.L[co], z, k) BY <1>0, <1>1, <2>2, SettledAgain
  <2>4. x.nC \in Int /\ x.nny \in Int BY <1>2 DEF IsThread
  <2> QED BY <1>0, <1>3, <1>4, <2>1, <2>2, <2>3, <2>4 DEF ThreadClosed
<1>7. Turns(s, v, co, x.status, q, 1, x.open, x.nC, x.nny)
  <2>1. 1 \in Nat OBVIOUS
  <2> QED BY <1>0, <1>2, <2>1, Topped DEF v
<1>8. Turns(s, w, co, x.status, q, 2, x.open, x.nC, x.nny)
  <2>1. 2 \in Nat \ {0} OBVIOUS
  <2> QED BY <1>0, <1>2, <2>1, ErrorSet DEF w
<1> QED BY <1>6, <1>7, <1>8 DEF v, w

\* Another thread has closed it, which gets the status.
LEMMA ClosedByOther ==
  ASSUME NEW s, NEW G, NEW h, NEW b, NEW co, ThreadCloses(s, G, h, b, co), s.C[Len(s.C)].from # co,
         NEW u, ThreadClosed(s, G, u, h, b, co)
  PROVE  Holds(Give(PopC(u), s.C[Len(s.C)].status), h, b)
<1> DEFINE c == s.C   n == Len(c)   z == c[n]   k == G[n]   l == n - 1   a == c[l]   g == G[l]
           y == PopC(u)   G2 == SubSeq(G, 1, l)
<1>0. c = s.C /\ n = Len(c) /\ z = c[n] /\ k = G[n] /\ l = n - 1 /\ a = c[l] /\ g = G[l]
  OBVIOUS
<1>1. Body(s, G, h, b) /\ z.at = "lua_closethread" /\ z.th = co /\ z.from # co
  BY DEF ThreadCloses
<1>2. Body(u, G, h, b) /\ u.C = c /\ Len(u.L[co].ci) = 1 /\ u.L[co].open = {} /\ Len(u.L[co].stack) \in {1, 2}
  BY DEF ThreadClosed, InThread
<1>3. n \in Nat /\ z \in Acts BY <1>1, TopFacts, Zenon
<1>4. z.status \in Ends
  <2>1. z \in ThreadActs BY <1>1, <1>3, Kinds
  <2> QED BY <2>1 DEF ThreadActs
<1> HIDE DEF c, n, z, k, l, a, g
<1>5. Pops(u, G, y, G2, h, b)
  <2>1. u.C[Len(u.C)].at \notin {"host", "GCTM"} /\ u.C[Len(u.C)].th # u.C[Len(u.C)].from BY <1>0, <1>1, <1>2
  <2> QED BY <1>0, <1>2, <2>1, PopsTop
<1> HIDE DEF y, G2
<1>6. /\ n > 1 /\ State(y) /\ y.L = u.L /\ Body(y, G2, h, b) /\ Len(y.C) = l /\ l \in 1..n
      /\ (\A i \in 1..l : y.C[i] = c[i] /\ G2[i] = G[i])
      /\ Link(a, g, z, k) /\ a \in Acts /\ g \in Ghosts /\ (a.th # z.th => Settled(y.L[a.th], a, g))
  BY <1>0, <1>2, <1>5 DEF Pops
<1>7. y.C[Len(y.C)] = a /\ G2[Len(y.C)] = g
  <2>1. l \in 1..l BY <1>0, <1>3, <1>6
  <2> QED BY <1>0, <1>6, <2>1
<1>8. a.at \in {"luaB_auxwrap_closed", "luaB_close"} /\ a.th # z.th /\ a.co = co
  <2>1. LinkThreads(a, z) /\ LinkKinds(a, z) BY <1>6 DEF Link
  <2>2. a.at \in {"luaB_auxwrap_closed", "luaB_close"}
    BY <1>1, <2>1 DEF LinkKinds, MayCall, Callers, CoCallers, PlainCallers
  <2> QED BY <1>1, <2>1, <2>2 DEF LinkThreads, Switches
<1>9. Left(y.L[co])
  <2> DEFINE x == y.L[co]   m == Len(x.stack)
  <2>1. x = u.L[co] BY <1>6
  <2>2. m \in {1, 2} BY <1>2, <2>1
  <2>3. Len(x.ci) = 1 /\ x.open = {} BY <1>2, <2>1
  <2> HIDE DEF x, m
  <2>4. m >= 1 /\ m \notin x.open BY <2>2, <2>3
  <2> QED BY <2>3, <2>4 DEF Left, x, m
<1>10. GivesOn(y, G2, h, b, z.status)
  <2>1. a.at \in CoCallers BY <1>8 DEF CoCallers
  <2>2. z.status \in Statuses \union {"not_resumed"} BY <1>4 DEF Ends, Statuses
  <2> QED BY <1>6, <1>7, <1>8, <1>9, <2>1, <2>2 DEF GivesOn
<1>11. Holds(Give(y, z.status), h, b) BY <1>10, Gave
<1> QED BY <1>11 DEF y, z, n, c

\* Where the jump to a thread's base goes: to the activation that the thread
\* began with, or that protects the closing of it.
BaseTo(s, G, co, m) ==
    LET n == Len(s.C)   a == s.C[m]
    IN  /\ m \in 2..n /\ a.at \in {"lua_resume", "closeprotected"} /\ a.th = co
        /\ (a.at = "closeprotected" => a.level = 2) /\ G[m].d = 1 /\ m = Min(errorJmps(s, co))
        /\ \A k \in m..n : s.C[k].th = co
        /\ \A k \in 1..(m - 1) : s.C[k].th = co => k = m - 1 /\ s.C[k].at = "lua_closethread" /\ G[k].d = 1
\* There is one, when the thread closes itself.
LEMMA BaseTarget ==
  ASSUME NEW s, NEW G, NEW h, NEW b, Body(s, G, h, b), NEW co, s.C[Len(s.C)].th = co,
         s.C[Len(s.C)].at = "lua_closethread", s.C[Len(s.C)].from = co
  PROVE  \E m : BaseTo(s, G, co, m)
<1> DEFINE c == s.C   n == Len(c)   P == {i \in 1..n : c[i].th = co}
<1>0. c = s.C /\ n = Len(c)
  OBVIOUS
<1>1. n \in Nat /\ n \in 1..n /\ c \in Seq(Acts) /\ G \in Seq(Ghosts) /\ Len(G) = n /\ Chain(c, G, h) BY TopFacts, Zenon
<1>2. PICK i0 \in P : \A i \in P : i0 <= i
  <2>1. P \in SUBSET Nat /\ P # {} BY <1>1
  <2> HIDE DEF P, n, c
  <2> QED BY ONLY <2>1, LeastExists
<1>3. i0 \in 1..n /\ c[i0].th = co /\ (\A i \in 1..n : c[i].th = co => i0 <= i) /\ c[n].th = co /\ c[n].at = "lua_closethread" /\ c[n].from = co
  BY <1>2
<1> HIDE DEF c, n, P
<1>4. c[1].th = Main /\ co # Main
  <2>1. c[n].at \in Switches BY <1>3 DEF Switches
  <2> QED BY <1>1, <1>3, <2>1 DEF Chain, Chained
<1>5. i0 \in 2..n /\ i0 - 1 \in 1..(n - 1) /\ i0 - 1 \in 1..n /\ (i0 - 1) + 1 = i0 /\ i0 \in Nat
  <2>1. i0 # 1 BY <1>3, <1>4
  <2> QED BY <1>1, <1>3, <2>1
<1>6. c[i0 - 1].th # co
  <2>1. ~(i0 <= i0 - 1) BY <1>5
  <2> QED BY <1>3, <1>5, <2>1
<1>7. Link(c[i0 - 1], G[i0 - 1], c[i0], G[i0])
  BY <1>1, <1>5 DEF Chain, Chained
<1>8. c[i0].at \in Switches /\ (c[i0].at = "lua_closethread" => c[i0].from # co)
  BY <1>3, <1>6, <1>7 DEF Link, LinkThreads
<1>9. \A k \in i0..n : c[k].th = co
  <2>1. \A k \in i0..n : c[k].th = c[i0].th BY <1>0, <1>1, <1>3 DEF Chain, Contiguous
  <2> QED BY <1>3, <2>1
<1>10. Own(c[i0], G[i0]) BY <1>1, <1>3 DEF Chain, Chained
<1>11. G[i0].d = 1 BY <1>8, <1>10 DEF Own, Switches
<1>12. ASSUME NEW m \in i0..n, c[m].at \in {"lua_resume", "closeprotected"}, (c[m].at = "closeprotected" => c[m].level = 2), G[m].d = 1,
              m = i0 \/ (m = i0 + 1 /\ c[i0].at = "lua_closethread")
       PROVE  BaseTo(s, G, co, m)
  <2>1. m \in 2..n /\ m \in Nat /\ m \in 1..n /\ c[m].th = co
    <3>1. n \in Nat /\ i0 \in 2..n BY <1>1, <1>5
    <3> QED BY <1>9, <3>1
  <2>2. \A k \in m..n : c[k].th = co
    <3>1. \A k \in m..n : k \in i0..n BY <1>1, <1>5, <2>1
    <3> QED BY <1>9, <3>1
  <2>3. \A k \in 1..(m - 1) : c[k].th = co => k = m - 1 /\ c[k].at = "lua_closethread" /\ G[k].d = 1
    <3> SUFFICES ASSUME NEW k \in 1..(m - 1), c[k].th = co PROVE k = m - 1 /\ c[k].at = "lua_closethread" /\ G[k].d = 1 OBVIOUS
    <3>1. k \in 1..n /\ i0 <= k BY <1>1, <1>3, <2>1
    <3>2. k = i0 /\ m = i0 + 1 BY <1>5, <1>12, <2>1, <3>1
    <3> QED BY <1>5, <1>11, <1>12, <3>2
  <2>4. m = Min(errorJmps(s, co))
    <3>1. m \in errorJmps(s, co) BY <1>0, <1>1, <1>12, <2>1 DEF errorJmps, IsRawRun
    <3>2. ASSUME NEW i \in errorJmps(s, co) PROVE i \in Nat /\ m <= i
      <4>1. i \in 1..n /\ IsRawRun(c[i]) /\ c[i].th = co BY <1>0, <1>1 DEF errorJmps
      <4>2. SUFFICES ASSUME i < m PROVE FALSE BY <2>1, <4>1
      <4>3. i \in 1..(m - 1) BY <2>1, <4>1, <4>2
      <4> QED BY <2>3, <4>1, <4>3 DEF IsRawRun
    <3>3. \A i \in errorJmps(s, co) : (\A k \in errorJmps(s, co) : i <= k) => i = m
      BY <2>1, <3>1, <3>2
    <3> QED BY <3>1, <3>2, <3>3 DEF Min
  <2> QED BY <1>0, <1>12, <2>1, <2>2, <2>3, <2>4 DEF BaseTo
<1>13. CASE c[i0].at = "lua_resume"
  <2>1. i0 \in i0..n BY <1>1, <1>5
  <2>2. BaseTo(s, G, co, i0) BY <1>11, <1>12, <1>13, <2>1
  <2> QED BY <2>2
<1>14. CASE c[i0].at = "lua_closethread"
  <2>1. i0 # n BY <1>3, <1>8, <1>14
  <2>2. i0 + 1 \in i0..n /\ i0 \in 1..(n - 1) /\ i0 + 1 \in 1..n BY <1>1, <1>5, <2>1
  <2>3. Link(c[i0], G[i0], c[i0 + 1], G[i0 + 1]) BY <1>1, <2>2 DEF Chain, Chained
  <2>4. c[i0 + 1].at = "closeprotected"
    <3>1. MayCall(c[i0].at, c[i0 + 1].at) BY <2>3 DEF Link, LinkKinds
    <3> QED BY <1>14, <3>1 DEF MayCall, Callers, CoCallers, PlainCallers
  <2>5. c[i0 + 1].level = 2
    BY <1>14, <2>3 DEF Link, LinkKinds
  <2>6. G[i0 + 1].d = 1
    BY <1>11, <1>14, <2>3, <2>4 DEF Link, LinkFrames, Callers, CoCallers, PlainCallers, Switches
  <2>7. BaseTo(s, G, co, i0 + 1) BY <1>12, <1>14, <2>2, <2>4, <2>5, <2>6
  <2> QED BY <2>7
<1> QED BY <1>8, <1>13, <1>14 DEF Switches

\* The base frame alone is all that what is at the base relies on.
LEMMA BaseSound ==
  ASSUME NEW q, Len(q) = 1, q[1].func = 1, ~q[1].ypcall, NEW a, NEW g, g.d = 1,
         a.at \in {"lua_resume", "lua_closethread", "closeprotected"}, a.at = "closeprotected" => a.level = 2
  PROVE  Sound(q, {}, a, g)
<1>1. \A i \in 2..(g.d - 1) : Passes(q[i]) OBVIOUS
<1>2. NoneFrom(q, {}, g.d, OpenFrom(a)) BY DEF NoneFrom
<1>3. a.at \notin Callers /\ a.at \notin {"execute", "ccall", "luaF_close"} BY DEF Callers, CoCallers, PlainCallers
<1>4. Floored(a) => a.level = 2 BY DEF Floored
<1> QED BY <1>1, <1>2, <1>3, <1>4 DEF Sound, Levelled

\* A C stack that is cut at m, which gets another activation.
CutAt(c, G, m, a, c2, G2) ==
    /\ m \in Nat /\ Len(c2) = m /\ Len(G2) = m /\ c2[m] = a /\ G2[m] = G[m]
    /\ (\A i \in 1..m : i \in 1..Len(c) /\ G2[i] = G[i]) /\ \A i \in 1..(m - 1) : i \in 1..m /\ i \in 1..Len(c) /\ c2[i] = c[i]
\* What is on the C stack that is cut.
LEMMA CutElements ==
  ASSUME NEW c, NEW G, NEW h, Chain(c, G, h), NEW m \in 2..Len(c), NEW a \in Acts
  PROVE  CutAt(c, G, m, a, Append(SubSeq(c, 1, m - 1), a), SubSeq(G, 1, m))
<1> DEFINE n == Len(c)   d == SubSeq(c, 1, m - 1)   c2 == Append(d, a)   G2 == SubSeq(G, 1, m)
<1>1. n \in Nat /\ m \in Nat /\ m \in 1..n /\ m - 1 \in 1..n /\ m - 1 \in Nat
  <2>1. n \in Nat BY DEF Chain, Chained
  <2> QED BY <2>1
<1> HIDE DEF n
<1>2. d \in Seq(Acts) /\ Len(d) = m - 1 /\ \A i \in 1..(m - 1) : i \in 1..Len(c) /\ d[i] = c[i]
  BY <1>1, Lower DEF n
<1>3. Len(G2) = m /\ \A i \in 1..m : i \in 1..Len(c) /\ G2[i] = G[i]
  BY <1>1, Lower DEF n
<1> HIDE DEF d, G2
<1>4. Len(c2) = m /\ c2[m] = a /\ \A i \in 1..(m - 1) : c2[i] = d[i]
  BY <1>1, <1>2
<1> HIDE DEF c2
<1>5. m \in 1..m /\ \A i \in 1..(m - 1) : i \in 1..m BY <1>1
<1>6. G2[m] = G[m] BY <1>3, <1>5
<1>7. CutAt(c, G, m, a, c2, G2) BY <1>1, <1>2, <1>3, <1>4, <1>5, <1>6 DEF CutAt
<1> QED BY <1>7 DEF c2, d, G2

\* A coroutine that has closed itself: everything of it is gone but its base
\* frame, and the jump leaves it at its base.
ClosedItself(s, G, h, co) ==
    LET a == s.C[Len(s.C)]   x == s.L[co]
    IN  /\ Body(s, G, h, FALSE) /\ a.at = "lua_closethread" /\ a.th = co /\ a.from = co
        /\ x.status = "OK" /\ Len(x.ci) = 1 /\ x.open = {}
\* What is below does not depend on what was above.
LEMMA BaseFits ==
  ASSUME NEW s, NEW G, NEW h, NEW co, ClosedItself(s, G, h, co), NEW m, BaseTo(s, G, co, m),
         NEW a, OnlyStatus(s.C[m], a), NEW w, NEW cc, NEW e, Recounts(s, w, co, cc, e),
         NEW c2, NEW G2, CutAt(s.C, G, m, a, c2, G2)
  PROVE  Fits(w.L, c2, G2) /\ Waiting(w.L, c2, G2)
<1> DEFINE c == s.C   n == Len(c)   x == s.L[co]   q == x.ci
<1>0. c = s.C /\ n = Len(c) /\ x = s.L[co] /\ q = x.ci
  OBVIOUS
<1>1. Body(s, G, h, FALSE) /\ c[n].th = co /\ Len(q) = 1 /\ x.open = {} BY DEF ClosedItself
<1>2. n \in Nat /\ n \in 1..n /\ co \in Threads /\ Stacked(q, Len(x.stack), x.open) /\ c \in Seq(Acts)
  BY <1>0, <1>1, TopFacts, Zenon
<1>3. q[1].func = 1 /\ ~q[1].ypcall BY <1>2, Zenon DEF Stacked
<1>4. /\ m \in 2..n /\ c[m].at \in {"lua_resume", "closeprotected"} /\ c[m].th = co
      /\ (c[m].at = "closeprotected" => c[m].level = 2) /\ G[m].d = 1
      /\ (\A k \in m..n : c[k].th = co)
      /\ \A k \in 1..(m - 1) : c[k].th = co => k = m - 1 /\ c[k].at = "lua_closethread" /\ G[k].d = 1
  BY DEF BaseTo
<1>5. /\ m \in Nat /\ Len(c2) = m /\ c2[m] = a /\ G2[m] = G[m]
      /\ (\A i \in 1..m : i \in 1..n /\ G2[i] = G[i]) /\ \A i \in 1..(m - 1) : i \in 1..m /\ i \in 1..n /\ c2[i] = c[i]
  BY DEF CutAt
<1>6. a.at = c[m].at /\ a.th = co /\ (a.at = "closeprotected" => a.level = 2)
  BY <1>4 DEF OnlyStatus, Floored
<1>7. w.L[co].ci = q /\ w.L[co].open = {} /\ \A t \in Threads : t # co => w.L[t] = s.L[t]
  BY <1>0, <1>1 DEF Recounts, Turns, InThread
<1>8. \A k \in 1..n : c[k].th \in Threads BY <1>2, Kinds
<1> HIDE DEF c, n, x, q
<1>9. ASSUME NEW k \in 1..m PROVE k \in 1..n /\ c2[k].at = c[k].at /\ c2[k].th = c[k].th /\ (k # m => k \in 1..(m - 1) /\ c2[k] = c[k])
  <2>1. k # m => k \in 1..(m - 1) BY <1>5
  <2> QED BY <1>4, <1>5, <1>6, <2>1
<1>10. ASSUME NEW k \in 1..m, Live(c2, k, m) PROVE Sound(w.L[c2[k].th].ci, w.L[c2[k].th].open, c2[k], G2[k])
  <2>1. G2[k] = G[k] BY <1>5
  <2>2. CASE c[k].th = co
    <3>1. c2[k].at \in {"lua_resume", "lua_closethread", "closeprotected"} /\ (c2[k].at = "closeprotected" => c2[k].level = 2) /\ G2[k].d = 1
      <4>1. CASE k = m BY <1>4, <1>5, <1>6, <4>1
      <4>2. CASE k # m BY <1>4, <1>9, <2>1, <2>2, <4>2
      <4> QED BY <4>1, <4>2
    <3>2. Sound(q, {}, c2[k], G2[k]) BY <1>1, <1>3, <3>1, BaseSound
    <3>3. c2[k].th = co BY <1>9, <2>2
    <3> QED BY <1>7, <3>2, <3>3
  <2>3. CASE c[k].th # co
    <3>1. k # m BY <1>4, <2>3
    <3>2. c2[k] = c[k] /\ k \in 1..n /\ k \in Nat BY <1>9, <3>1
    <3>3. Live(c, k, n)
      <4> SUFFICES ASSUME NEW l \in (k + 1)..n PROVE ~(c[l].at = "lua_closethread" /\ c[l].th = c[k].th) BY DEF Live
      <4>1. CASE l \in m..n BY <1>4, <2>3, <4>1
      <4>2. CASE l \notin m..n
        <5>1. l \in (k + 1)..m /\ l \in 1..m BY <1>2, <1>5, <3>2, <4>2
        <5>2. ~(c2[l].at = "lua_closethread" /\ c2[l].th = c2[k].th) BY <1>10, <5>1 DEF Live
        <5> QED BY <1>9, <3>2, <5>1, <5>2
      <4> QED BY <4>1, <4>2
    <3>4. Fits(s.L, c, G) BY <1>0, <1>1 DEF Body
    <3>5. Sound(s.L[c[k].th].ci, s.L[c[k].th].open, c[k], G[k]) BY <1>0, <3>2, <3>3, <3>4 DEF Fits
    <3>6. w.L[c[k].th] = s.L[c[k].th] BY <1>7, <1>8, <2>3, <3>2
    <3> QED BY <2>1, <3>2, <3>5, <3>6
  <2> QED BY <2>2, <2>3
<1>11. Fits(w.L, c2, G2) BY <1>5, <1>10 DEF Fits
<1>12. ASSUME NEW k \in 1..(m - 1), c2[k].th # c2[k + 1].th PROVE Settled(w.L[c2[k].th], c2[k], G2[k])
  <2>1. k \in 1..m /\ k + 1 \in 1..m /\ k \in 1..(n - 1) /\ k \in 1..n /\ k \in Nat /\ k # m BY <1>2, <1>4, <1>5
  <2>2. c2[k] = c[k] /\ G2[k] = G[k] /\ c2[k + 1].th = c[k + 1].th BY <1>5, <1>9, <2>1
  <2>3. c[k].th # co
    <3> SUFFICES ASSUME c[k].th = co PROVE FALSE OBVIOUS
    <3>1. k = m - 1 BY <1>4
    <3>2. k + 1 = m BY <1>5, <3>1
    <3> QED BY <1>4, <1>12, <2>2, <3>2
  <2>4. Waiting(s.L, c, G) BY <1>0, <1>1 DEF Body
  <2>5. Settled(s.L[c[k].th], c[k], G[k]) BY <1>0, <1>12, <2>1, <2>2, <2>4 DEF Waiting
  <2>6. w.L[c[k].th] = s.L[c[k].th] BY <1>7, <1>8, <2>1, <2>3
  <2> QED BY <2>2, <2>5, <2>6
<1>13. Waiting(w.L, c2, G2) BY <1>5, <1>12 DEF Waiting
<1> QED BY <1>11, <1>13

\* The jump.
LEMMA ThrowsToBase ==
  ASSUME NEW s, NEW G, NEW h, NEW co, ClosedItself(s, G, h, co), NEW status \in Ends
  PROVE  Holds(luaD_throwbaselevel(s, co, status), h, FALSE)
<1>1. Body(s, G, h, FALSE) BY DEF ClosedItself
<1>2. PICK m : BaseTo(s, G, co, m)
  <2>1. s.C[Len(s.C)].th = co /\ s.C[Len(s.C)].at = "lua_closethread" /\ s.C[Len(s.C)].from = co BY DEF ClosedItself
  <2> QED BY <1>1, <2>1, BaseTarget
<1> DEFINE c == s.C   n == Len(c)   z == c[m]   g == G[m]   a == [z EXCEPT !.status = status]   u == luaD_throwbaselevel(s, co, status)
           c2 == Append(SubSeq(c, 1, m - 1), a)   G2 == SubSeq(G, 1, m)   cc == g.c   e == g.e   x == s.L[co]
<1>0. c = s.C /\ n = Len(c) /\ z = c[m] /\ g = G[m] /\ cc = g.c /\ e = g.e /\ x = s.L[co]
  OBVIOUS
<1>3. m \in 2..n /\ z.at \in {"lua_resume", "closeprotected"} /\ z.th = co /\ g.d = 1 /\ m = Min(errorJmps(s, co))
  BY <1>2 DEF BaseTo
<1>4. n \in Nat /\ Chain(c, G, h) /\ State(s) /\ co \in Threads /\ m \in 1..n
  <2>1. n \in Nat /\ Chain(c, G, h) /\ State(s) /\ s.C[Len(s.C)].th \in Threads BY <1>1, TopFacts
  <2> QED BY <1>3, <2>1 DEF ClosedItself
<1>5. z \in Acts /\ g \in Ghosts /\ Own(z, g) BY <1>4, JumpTarget
<1> HIDE DEF c, n, z, g, cc, e, x
<1>6. IsRawRun(z) /\ z.nC = cc /\ z.nny = e /\ cc \in Int /\ e \in Int
  <2>1. IsRawRun(z) BY <1>3 DEF IsRawRun
  <2> QED BY <1>0, <1>5, <2>1 DEF Own, Ghosts
<1>7. OnlyStatus(z, a) /\ a.status = status
  <2>1. status \in Statuses BY DEF Ends, Statuses
  <2> QED BY <1>5, <1>6, <2>1, Marked
<1>8. a \in Acts /\ a.at = z.at /\ a.th = co /\ a.nC = z.nC /\ a.nny = z.nny /\ a.old_ci = z.old_ci
      /\ (a.at = "closeprotected" => a.level = z.level) /\ a.at \notin {"lua_closethread", "host", "ccall", "luaF_close", "unroll"}
  BY <1>3, <1>6, <1>7 DEF OnlyStatus, Floored
<1>9. Jumped(s, u, co, m, a, cc, e)
  <2>1. s.C[m].nC = cc /\ s.C[m].nny = e BY <1>0, <1>6
  <2>2. Jumped(s, JumpTo(s, co, m, status), co, m, [s.C[m] EXCEPT !.status = status], cc, e)
    <3> HIDE DEF u, a, c2, G2
    <3> QED BY <1>4, <1>6, <2>1, JumpFields
  <2>3. u = JumpTo(s, co, m, status) BY <1>3 DEF luaD_throwbaselevel
  <2> QED BY <1>0, <2>2, <2>3
<1> HIDE DEF u
<1>10. PICK w : Recounts(s, w, co, cc, e) /\ u.L = w.L
  BY <1>9 DEF Jumped
<1>11. State(u) /\ u.C = c2 /\ u.gcstp = s.gcstp
  BY <1>0, <1>9 DEF Jumped
<1>12. Chain(c2, G2, h)
  <2> HIDE DEF a, c2, G2
  <2>1. a.at # "lua_closethread" /\ z.at # "host" /\ a.at \notin {"ccall", "luaF_close"} BY <1>3, <1>8
  <2>2. /\ c[m].at # "host" /\ a.at = c[m].at /\ a.th = c[m].th
        /\ IsRawRun(a) => a.nC = c[m].nC /\ a.nny = c[m].nny /\ a.old_ci = c[m].old_ci
        /\ a.at = "closeprotected" => a.level = c[m].level
        /\ a.at = "lua_closethread" => a.from = c[m].from
    BY <1>0, <1>3, <1>8, <2>1
  <2>3. m \in 1..Len(c) /\ Chain(c, G, h) /\ a \in Acts BY <1>0, <1>4, <1>8
  <2>4. Chain(Append(SubSeq(c, 1, m - 1), a), SubSeq(G, 1, m), h) BY <2>1, <2>2, <2>3, ChainCut
  <2> QED BY <2>4 DEF c2, G2
<1>13. CutAt(c, G, m, a, c2, G2)
  <2> HIDE DEF a
  <2> QED BY <1>0, <1>3, <1>4, <1>8, CutElements
<1> HIDE DEF a, c2, G2
<1>14. Fits(w.L, c2, G2) /\ Waiting(w.L, c2, G2)
  <2>1. OnlyStatus(s.C[m], a) /\ CutAt(s.C, G, m, a, c2, G2) BY <1>0, <1>7, <1>13
  <2> QED BY <1>2, <1>10, <2>1, BaseFits
<1>15. Turns(s, w, co, x.status, x.ci, Len(x.stack), x.open, cc, e) BY <1>0, <1>10 DEF Recounts
<1>16. ASSUME NEW t \in Threads PROVE ThreadInv(u.L[t])
  <2>1. ThreadInv(s.L[t]) BY <1>1 DEF Body
  <2>2. CASE t # co BY <1>10, <1>15, <2>1, <2>2 DEF Turns, InThread
  <2>3. CASE t = co
    <3>1. ThreadInv(x) BY <1>0, <2>1, <2>3
    <3>2. w.L[co].status = x.status /\ w.L[co].ci = x.ci /\ Len(w.L[co].stack) = Len(x.stack) /\ w.L[co].open = x.open BY <1>15 DEF Turns
    <3>3. ThreadInv(w.L[co]) BY <3>1, <3>2 DEF ThreadInv, Suspended
    <3> QED BY <1>10, <2>3, <3>3
  <2> QED BY <2>2, <2>3
<1>17. Body(u, G2, h, FALSE)
  <2>1. u.gcstp \in BOOLEAN BY <1>1, <1>11 DEF Body, Collects
  <2> QED BY <1>10, <1>11, <1>12, <1>14, <1>16, <2>1 DEF Body, Collects
<1>18. Len(u.C) = m /\ u.C[m] = a /\ G2[m] = g /\ a.th = co
  BY <1>0, <1>8, <1>11, <1>13 DEF CutAt
<1>19. u.L[co].status = "OK" /\ Len(u.L[co].ci) = 1 /\ u.L[co].nC = cc /\ u.L[co].nny = e
  <2>1. x.status = "OK" /\ Len(x.ci) = 1 BY <1>0 DEF ClosedItself
  <2> QED BY <1>10, <1>15, <2>1 DEF Turns
<1>20. IsRawRun(a) BY <1>6, <1>8 DEF IsRawRun
<1>21. Settled(u.L[co], a, g) \/ Thrown(u.L[co], a, g)
  <2>1. CASE status = "OK" BY <1>0, <1>3, <1>7, <1>8, <1>19, <2>1 DEF Settled
  <2>2. CASE status \in Failures
    <3>1. status # "YIELD" BY <2>2 DEF Failures
    <3> QED BY <1>0, <1>7, <1>19, <1>20, <2>2, <3>1 DEF Thrown
  <2> QED BY <2>1, <2>2 DEF Ends
<1>22. Running(u, G2) BY <1>18, <1>21 DEF Running
<1>23. Returned(u)
  <2>1. a.at \notin CoCallers BY <1>20 DEF IsRawRun, CoCallers
  <2> QED BY <1>18, <2>1 DEF Returned
<1> QED BY <1>17, <1>22, <1>23 DEF Holds, u

\* lua_closethread goes on.
LEMMA ThreadCloseEnds ==
  ASSUME NEW s, NEW G, NEW h, NEW b, Body(s, G, h, b), Running(s, G), s.C[Len(s.C)].at = "lua_closethread",
         s.C[Len(s.C)].th = s.C[Len(s.C)].from => b = FALSE
  PROVE  Holds(AfterClosethread(s), h, b)
<1> DEFINE z == s.C[Len(s.C)]   co == z.th   k == G[Len(s.C)]
           u == IF z.status = "OK" THEN settop(s, co, 1) ELSE luaD_seterrorobj(s, co, z.status, 2)
<1>0. z = s.C[Len(s.C)] /\ co = z.th /\ k = G[Len(s.C)]
  OBVIOUS
<1>1. z \in Acts /\ Top(s) = z BY TopFacts, Zenon
<1>2. z.status \in Ends
  <2>1. z \in ThreadActs BY <1>1, Kinds
  <2> QED BY <2>1 DEF ThreadActs
<1>3. Settled(s.L[co], z, k)
  <2>1. ~IsRawRun(z) BY DEF IsRawRun
  <2> QED BY <2>1, Zenon DEF Running, Thrown
<1>4. ThreadCloses(s, G, h, b, co) BY <1>3 DEF ThreadCloses
<1>5. ThreadClosed(s, G, u, h, b, co) BY <1>4, LeavesStatus
<1>6. AfterClosethread(s) = IF co = z.from THEN luaD_throwbaselevel(u, co, z.status) ELSE Give(PopC(u), z.status)
  BY <1>1 DEF AfterClosethread
<1> HIDE DEF z, co, k, u
<1>7. CASE co # z.from
  <2>1. s.C[Len(s.C)].from # co BY <1>0, <1>7
  <2>2. Holds(Give(PopC(u), s.C[Len(s.C)].status), h, b) BY <1>4, <1>5, <2>1, ClosedByOther
  <2> QED BY <1>0, <1>6, <1>7, <2>2
<1>8. CASE co = z.from
  <2>1. b = FALSE BY <1>0, <1>8
  <2>2. u.C = s.C /\ Body(u, G, h, b) /\ Settled(u.L[co], z, k) /\ Len(u.L[co].ci) = 1 /\ u.L[co].open = {}
    BY <1>0, <1>5, Zenon DEF ThreadClosed, InThread
  <2>3. u.L[co].status = "OK" BY <2>2 DEF Settled
  <2>4. u.C[Len(u.C)] = z /\ z.at = "lua_closethread" BY <1>0, <2>2, Zenon
  <2>5. ClosedItself(u, G, h, co) BY <1>0, <1>8, <2>1, <2>2, <2>3, <2>4 DEF ClosedItself
  <2>6. Holds(luaD_throwbaselevel(u, co, z.status), h, FALSE) BY <1>2, <2>5, ThrowsToBase
  <2> QED BY <1>6, <1>8, <2>1, <2>6
<1> QED BY <1>7, <1>8

-----------------------------------------------------------------------------
(* lua_resume.                                                              *)

\* The frames down to that of a protected call that can recover, which gets the
\* status.
RecoversTo(q, q2, i) ==
    /\ i \in 1..Len(q) /\ q[i].ypcall /\ q2 \in Seq(Frames) /\ Len(q2) = i
    /\ (\A l \in 1..(i - 1) : q2[l] = q[l])
    /\ LET e == q[i]   f == q2[i]
       IN  /\ f.func = e.func /\ f.lua = e.lua /\ f.fresh = e.fresh /\ f.op = e.op /\ f.k = e.k /\ f.ypcall = e.ypcall
           /\ f.funcidx = e.funcidx /\ f.tbc = e.tbc /\ f.recst # "OK"
\* The frames above the protected call are dropped.
LEMMA StackRecover ==
  ASSUME NEW q, NEW n, NEW O, Stacked(q, n, O), NEW q2, NEW i, RecoversTo(q, q2, i)
  PROVE  /\ Stacked(q2, n, O) /\ i > 1 /\ i \in Nat
         /\ \A l \in 2..(i - 1) : Passes(q2[l])
<1> DEFINE e == q[i]   f == q2[i]   m == Len(q)
<1>0. e = q[i] /\ f = q2[i] /\ m = Len(q)
  OBVIOUS
<1>1. /\ i \in 1..m /\ e.ypcall /\ q2 \in Seq(Frames) /\ Len(q2) = i
      /\ (\A l \in 1..(i - 1) : q2[l] = q[l])
      /\ f.func = e.func /\ f.lua = e.lua /\ f.fresh = e.fresh /\ f.op = e.op /\ f.k = e.k /\ f.ypcall = e.ypcall
      /\ f.funcidx = e.funcidx /\ f.tbc = e.tbc /\ f.recst # "OK"
  BY DEF RecoversTo
<1>2. /\ q \in Seq(Frames) /\ m \in Nat /\ m >= 1 /\ n \in Nat /\ O \subseteq 2..n
      /\ q[1].func = 1 /\ ~q[1].lua /\ ~q[1].ypcall
      /\ (\A k, l \in 1..m : k < l => q[k].func < q[l].func)
      /\ (IF n = 0 THEN m = 1 ELSE q[m].func <= n)
      /\ \A k \in 1..m : FrameInv(q, O, k)
  BY DEF Stacked
<1>3. \A k \in 1..m : q[k] \in Frames /\ q[k].func \in Nat /\ q[k].funcidx \in Nat BY <1>2, FrameTypes
<1> HIDE DEF e, f, m
<1>4. i > 1 /\ i \in Nat /\ i - 1 \in 1..(i - 1) /\ 1 \in 1..(i - 1) /\ i \in 1..i
  <2>1. i # 1 BY <1>0, <1>1, <1>2
  <2> QED BY <1>1, <1>2, <2>1
<1>5. \A k \in 1..i : k \in 1..m /\ (k # i => k \in 1..(i - 1)) BY <1>1, <1>2, <1>4
<1>6. \A k \in 1..i : q2[k].func = q[k].func /\ q2[k].lua = q[k].lua /\ q2[k].op = q[k].op /\ q2[k].fresh = q[k].fresh /\ q2[k].ypcall = q[k].ypcall /\ q2[k].funcidx = q[k].funcidx
  BY <1>0, <1>1, <1>5
<1>7. FrameInv(q, O, i) BY <1>1, <1>2
<1>8. /\ ~e.lua /\ e.k /\ e.funcidx > e.func /\ (i < m => q[i + 1].func >= e.funcidx) /\ (\A l \in 2..(i - 1) : Passes(q[l]))
      /\ (\A o \in O : o >= e.func => \/ i < m /\ o >= q[i + 1].func
                                      \/ e.recst # "OK" /\ o >= e.funcidx)
  BY <1>0, <1>1, <1>7 DEF FrameInv, CFrameOf
<1>9. e.op # "OP_CLOSE" BY <1>0, <1>7, <1>8 DEF FrameInv, LuaFrame
<1>10. \A l \in 2..(i - 1) : Passes(q2[l])
  <2>1. \A l \in 2..(i - 1) : l \in 1..(i - 1) BY <1>4
  <2> QED BY <1>1, <1>8, <2>1
<1>11. ASSUME NEW k \in 1..(i - 1) PROVE FrameInv(q2, O, k)
  <2>1. k \in 1..i /\ k \in 1..m /\ k \in Nat /\ k < i /\ k < m /\ k + 1 \in 1..i BY <1>1, <1>2, <1>4
  <2>2. FrameInv(q, O, k) /\ q2[k] = q[k] BY <1>1, <1>2, <2>1
  <2>3. q2[k + 1].func = q[k + 1].func BY <1>6, <2>1
  <2>4. LuaFrame(q2, O, k)
    <3>1. k > 1 => q2[k - 1].lua = q[k - 1].lua
      <4>1. k > 1 => k - 1 \in 1..i BY <2>1, <1>4
      <4> QED BY <1>6, <4>1
    <3> QED BY <1>0, <1>1, <2>1, <2>2, <2>3, <3>1 DEF FrameInv, LuaFrame, NoneFrom
  <2>5. CFrameOf(q2, O, k)
    <3>1. \A l \in 2..(k - 1) : q2[l] = q[l]
      <4>1. \A l \in 2..(k - 1) : l \in 1..(i - 1) BY <2>1, <1>4
      <4> QED BY <1>1, <4>1
    <3> QED BY <1>0, <1>1, <2>1, <2>2, <2>3, <3>1 DEF FrameInv, CFrameOf
  <2> QED BY <2>2, <2>4, <2>5 DEF FrameInv
<1>12. FrameInv(q2, O, i)
  <2>1. q2[i].func \notin O BY <1>0, <1>1, <1>7 DEF FrameInv
  <2>2. LuaFrame(q2, O, i) BY <1>0, <1>1, <1>8, <1>9 DEF LuaFrame
  <2>3. ASSUME NEW o \in O, o >= f.func PROVE o >= f.funcidx
    <3> DEFINE r == q[i + 1].func
    <3>1. o \in Int BY <1>2
    <3>2. e.funcidx \in Nat BY <1>0, <1>1, <1>3
    <3>3. CASE i < m /\ o >= r
      <4>1. i + 1 \in 1..m BY <1>2, <1>4, <3>3
      <4>2. r \in Nat /\ r >= e.funcidx BY <1>3, <1>8, <3>3, <4>1
      <4> HIDE DEF r
      <4> QED BY <1>1, <3>1, <3>2, <3>3, <4>2
    <3>4. CASE o >= e.funcidx BY <1>1, <3>4
    <3> QED BY <1>1, <1>8, <2>3, <3>3, <3>4
  <2>4. CFrameOf(q2, O, i)
    <3>1. ~(i < Len(q2)) /\ i > 1 BY <1>1, <1>4
    <3>2. f.ypcall /\ ~f.lua /\ f.k /\ f.funcidx > f.func /\ f.recst # "OK" BY <1>1, <1>8
    <3> QED BY <1>0, <1>10, <2>3, <3>1, <3>2 DEF CFrameOf
  <2> QED BY <2>1, <2>2, <2>4 DEF FrameInv
<1>13. \A k \in 1..i : FrameInv(q2, O, k) BY <1>5, <1>11, <1>12
<1>14. \A k, l \in 1..i : k < l => q2[k].func < q2[l].func BY <1>2, <1>5, <1>6
<1>15. n # 0 /\ q2[i].func <= n
  <2> DEFINE a == q[i].func   c == q[m].func
  <2>1. n # 0 BY <1>1, <1>2, <1>4
  <2>2. c <= n BY <1>2, <2>1
  <2>3. a <= c /\ a \in Nat /\ c \in Nat
    <3>1. m \in 1..m /\ i \in 1..m BY <1>1, <1>2
    <3>2. i < m => a < c BY <1>2, <3>1
    <3>3. a \in Nat /\ c \in Nat BY <1>3, <3>1
    <3>4. i = m => a = c OBVIOUS
    <3> HIDE DEF a, c
    <3> QED BY <1>1, <1>2, <1>4, <3>2, <3>3, <3>4
  <2>4. q2[i].func = a BY <1>4, <1>6
  <2> HIDE DEF a, c
  <2> QED BY <1>2, <2>1, <2>2, <2>3, <2>4
<1>16. q2[1].func = 1 /\ ~q2[1].lua /\ ~q2[1].ypcall BY <1>1, <1>2, <1>4
<1>17. Stacked(q2, n, O) BY <1>1, <1>2, <1>4, <1>13, <1>14, <1>15, <1>16 DEF Stacked
<1> QED BY <1>4, <1>10, <1>17

\* What is at the base of the thread does not rely on what has gone.
LEMMA SoundRecover ==
  ASSUME NEW q, NEW n, NEW O, Stacked(q, n, O), NEW q2, NEW i, RecoversTo(q, q2, i), NEW a, NEW g, g.d = 1, Sound(q, O, a, g)
  PROVE  Sound(q2, O, a, g)
<1>1. i > 1 /\ i \in Nat /\ i \in 1..Len(q) /\ Len(q) \in Nat
  BY StackRecover DEF RecoversTo, Stacked
<1>2. Len(q2) = i /\ q2[1] = q[1] /\ q2[2].func = q[2].func /\ 1 < Len(q) /\ 1 < Len(q2) /\ 1 <= Len(q2)
  <2>1. Len(q2) = i /\ (\A l \in 1..(i - 1) : q2[l] = q[l]) /\ q2[i].func = q[i].func BY DEF RecoversTo
  <2>2. 1 \in 1..(i - 1) /\ (i # 2 => 2 \in 1..(i - 1)) BY <1>1
  <2>3. q2[1] = q[1] /\ q2[2].func = q[2].func BY <2>1, <2>2
  <2> QED BY <1>1, <2>1, <2>3
<1>3. ~q[1].lua BY DEF Stacked
<1>4. a.at \notin Callers /\ a.at # "execute" BY <1>3 DEF Sound
<1>5. \A j \in 2..(g.d - 1) : Passes(q2[j]) OBVIOUS
<1>6. Floored(a) \/ a.at = "lua_closethread" => NoneFrom(q2, O, 1, OpenFrom(a))
  <2>1. Floored(a) \/ a.at = "lua_closethread" => NoneFrom(q, O, 1, OpenFrom(a)) BY DEF Sound
  <2> QED BY <1>2, <2>1 DEF NoneFrom
<1>7. /\ Floored(a) => a.level >= q2[1].func /\ (q2[1].ypcall => a.level >= q2[1].funcidx)
      /\ Levelled(a) => a.level <= q2[2].func
      /\ a.at = "luaF_close" => (~a.yy \/ Passes(q2[1])) /\ (a.status = "CLOSEKTOP" => ~q2[1].ypcall)
  BY <1>2 DEF Sound
<1> QED BY <1>2, <1>4, <1>5, <1>6, <1>7 DEF Sound

\* lua_resume is on the top.
Resumes(s, G, h, b, th) ==
    LET n == Len(s.C)   z == s.C[n]   k == G[n]   x == s.L[th]
    IN  /\ Body(s, G, h, b) /\ z.at = "lua_resume" /\ z.th = th /\ th \in Threads
        /\ x.nC = k.c /\ x.nny = k.e /\ k.e = 0 /\ k.d = 1 /\ k \in Ghosts /\ z \in Acts /\ IsRawRun(z)
        /\ IF z.status = "YIELD" THEN x.status = "YIELD" ELSE x.status = "OK"
        /\ z.status \in Statuses /\ Top(s) = z
        /\ \A l \in 1..n : s.C[l].th = th /\ Live(s.C, l, n) => G[l].d = 1
\* What is known when lua_resume goes on.
LEMMA ResumeFacts ==
  ASSUME NEW s, NEW G, NEW h, NEW b, Body(s, G, h, b), Running(s, G), s.C[Len(s.C)].at = "lua_resume"
  PROVE  Resumes(s, G, h, b, s.C[Len(s.C)].th)
<1> DEFINE c == s.C   n == Len(c)   z == c[n]   k == G[n]   th == z.th   x == s.L[th]
<1>0. c = s.C /\ n = Len(c) /\ z = c[n] /\ k = G[n] /\ th = z.th /\ x = s.L[th]
  OBVIOUS
<1>1. /\ n \in Nat /\ n \in 1..n /\ z \in Acts /\ k \in Ghosts /\ th \in Threads /\ Own(z, k) /\ Top(s) = z /\ Chain(c, G, h)
      /\ c \in Seq(Acts) /\ G \in Seq(Ghosts) /\ Len(G) = n
  BY TopFacts, Zenon
<1>2. Settled(x, z, k) \/ Thrown(x, z, k) BY DEF Running
<1> HIDE DEF c, n, z, k, th, x
<1>3. z.at = "lua_resume" /\ IsRawRun(z) BY <1>0 DEF IsRawRun
<1>4. k.d = 1 /\ k.e = 0 BY <1>1, <1>3 DEF Own
<1>5. z.status \in Statuses
  <2>1. z \in RawActs BY <1>1, <1>3, Kinds
  <2> QED BY <2>1 DEF RawActs
<1>6. x.nC = k.c /\ x.nny = k.e /\ IF z.status = "YIELD" THEN x.status = "YIELD" ELSE x.status = "OK"
  BY <1>2, <1>3 DEF Settled, Thrown
<1>7. ASSUME NEW l \in 1..n, c[l].th = th, Live(c, l, n) PROVE G[l].d = 1
  <2>1. Ordered(c, G, n) BY <1>0, <1>1, JumpTarget
  <2>2. G[l] \in Ghosts BY <1>1
  <2>3. l # n => l \in 1..(n - 1) BY <1>1
  <2>4. l # n => G[l].d <= k.d BY <1>0, <1>7, <2>1, <2>3 DEF Ordered
  <2>5. l = n => G[l].d = 1 BY <1>0, <1>4
  <2>6. G[l].d \in Nat \ {0} BY <2>2 DEF Ghosts
  <2> DEFINE d == G[l].d
  <2>7. d \in Nat \ {0} /\ (d = 1 \/ d <= 1) BY <1>4, <2>4, <2>5, <2>6
  <2> HIDE DEF d
  <2>8. d = 1 BY <2>7
  <2> QED BY <2>8 DEF d
<1> QED BY <1>0, <1>1, <1>3, <1>4, <1>5, <1>6, <1>7 DEF Resumes

\* The function has ended, or yielded.
LEMMA ResumeDone ==
  ASSUME NEW s, NEW G, NEW h, NEW b, Body(s, G, h, b), s.C[Len(s.C)].at = "lua_resume",
         NEW th, th = s.C[Len(s.C)].th, NEW st \in Statuses, st # "OK" => Left(s.L[th])
  PROVE  Holds(Give(PopC(s), st), h, b)
<1> DEFINE n == Len(s.C)   l == n - 1   u == PopC(s)   G2 == SubSeq(G, 1, l)   a == s.C[l]   g == G[l]   z == s.C[n]
<1>0. n = Len(s.C) /\ l = n - 1 /\ a = s.C[l] /\ g = G[l] /\ z = s.C[n]
  OBVIOUS
<1>1. Body(s, G, h, b) /\ z.at = "lua_resume" /\ z.th = th
  OBVIOUS
<1>2. Pops(s, G, u, G2, h, b)
  <2>1. s.C[Len(s.C)].at \notin {"host", "GCTM", "lua_closethread"} BY <1>1
  <2> QED BY <1>1, <2>1, PopsTop
<1> HIDE DEF n, l, u, G2, a, g, z
<1>3. /\ n \in Nat /\ n > 1 /\ u.L = s.L /\ Body(u, G2, h, b) /\ Len(u.C) = l
      /\ (\A i \in 1..l : u.C[i] = s.C[i] /\ G2[i] = G[i])
      /\ Link(a, g, z, G[n]) /\ (a.th # z.th => Settled(u.L[a.th], a, g))
  BY <1>0, <1>2 DEF Pops
<1>4. u.C[Len(u.C)] = a /\ G2[Len(u.C)] = g
  <2>1. l \in 1..l BY <1>0, <1>3
  <2> QED BY <1>0, <1>3, <2>1, Zenon
<1>5. a.at \in {"luaB_coresume", "luaB_auxwrap"} /\ a.th # z.th /\ a.co = th
  <2>1. LinkThreads(a, z) /\ MayCall(a.at, z.at) BY <1>3 DEF Link, LinkKinds
  <2>2. a.at \in {"luaB_coresume", "luaB_auxwrap"} BY <1>1, <2>1 DEF MayCall, Callers, CoCallers, PlainCallers
  <2> QED BY <1>1, <2>1, <2>2 DEF LinkThreads, Switches
<1>6. GivesOn(u, G2, h, b, st)
  <2>1. a.at \in CoCallers /\ a.at # "luaB_auxwrap_closed" BY <1>5 DEF CoCallers
  <2> QED BY <1>3, <1>4, <1>5, <2>1 DEF GivesOn
<1>7. Holds(Give(u, st), h, b) BY <1>6, Gave
<1> QED BY <1>7 DEF u

\* An error has ended it: the thread is dead, and the error object on its stack.
LEMMA ResumeFails ==
  ASSUME NEW s, NEW G, NEW h, NEW b, NEW th, Resumes(s, G, h, b, th), NEW st \in Failures, s.L[th].status = "OK"
  PROVE  Holds(Give(PopC([luaD_seterrorobj(s, th, st, top(s, th) + 1) EXCEPT !.L[th].status = st]), st), h, b)
<1> DEFINE x == s.L[th]   m == Len(x.stack) + 1   u == luaD_seterrorobj(s, th, st, top(s, th) + 1)   w == [u EXCEPT !.L[th].status = st]
<1>0. x = s.L[th] /\ m = Len(x.stack) + 1
  OBVIOUS
<1>1. Body(s, G, h, b) /\ th = s.C[Len(s.C)].th BY DEF Resumes
<1>2. th \in Threads /\ State(s) /\ Stacked(x.ci, Len(x.stack), x.open) /\ Len(x.stack) \in Nat /\ x.open \subseteq 2..Len(x.stack) /\ Len(x.ci) \in Nat
      /\ x.ci \in Seq(Frames) /\ Len(x.ci) >= 1
  BY <1>1, TopFacts, Zenon
<1>3. Turns(s, u, th, x.status, x.ci, m, x.open, x.nC, x.nny)
  <2>1. m \in Nat \ {0} /\ top(s, th) + 1 = m BY <1>0, <1>2 DEF top
  <2> HIDE DEF m, x
  <2>2. Turns(s, luaD_seterrorobj(s, th, st, m), th, x.status, x.ci, m, x.open, x.nC, x.nny) BY <1>0, <1>2, <2>1, ErrorSet
  <2> QED BY <2>1, <2>2
<1> HIDE DEF x, m, u
<1>4. State(u) /\ u.L[th].ci = x.ci /\ Len(u.L[th].stack) = m /\ u.L[th].open = x.open /\ u.L[th].nC = x.nC /\ u.L[th].nny = x.nny
      /\ u.C = s.C
  BY <1>3 DEF Turns, InThread
<1>5. Turns(u, w, th, st, x.ci, m, x.open, x.nC, x.nny)
  <2>1. st \in Statuses BY DEF Statuses
  <2> HIDE DEF w
  <2>2. Turns(u, [u EXCEPT !.L[th].status = st], th, st, u.L[th].ci, Len(u.L[th].stack), u.L[th].open, u.L[th].nC, u.L[th].nny)
    BY <1>2, <1>4, <2>1, StatusSet
  <2> QED BY <1>4, <2>2 DEF w
<1> HIDE DEF w
<1>6. Turns(s, w, th, st, x.ci, m, x.open, x.nC, x.nny) BY <1>3, <1>5, TurnsAgain
<1>7. /\ InThread(s, w, th) /\ w.L[th].status = st /\ w.L[th].ci = x.ci /\ Len(w.L[th].stack) = m /\ w.L[th].open = x.open
      /\ w.L[th].nC = x.nC /\ w.L[th].nny = x.nny
  BY <1>6 DEF Turns
<1>8. m \in Nat /\ m > Len(x.stack) /\ m >= 1 /\ m # 0 BY <1>0, <1>2
<1>9. Len(x.ci) = 1 \/ x.ci[Len(x.ci)].func < m
  <2> DEFINE p == Len(x.ci)   f == x.ci[p].func   r == Len(x.stack)
  <2>1. IF r = 0 THEN p = 1 ELSE f <= r BY <1>2 DEF Stacked
  <2>2. f \in Nat
    <3>1. p \in 1..p BY <1>2
    <3> QED BY <1>2, <3>1, FrameTypes
  <2>3. r \in Nat /\ m > r BY <1>2, <1>8
  <2> HIDE DEF p, f, r
  <2>4. p = 1 \/ f < m BY <1>8, <2>1, <2>2, <2>3
  <2> QED BY <2>4 DEF p, f
<1>10. x.ci[1].func = 1 /\ (Len(x.ci) = 1 => x.ci[Len(x.ci)].func = 1) BY <1>2 DEF Stacked
<1>11. x.open \subseteq 2..m BY <1>2, <1>8
<1>12. Stacked(x.ci, m, x.open)
  <2>1. IF m = 0 THEN Len(x.ci) = 1 ELSE x.ci[Len(x.ci)].func <= m
    <3> DEFINE f == x.ci[Len(x.ci)].func
    <3>1. f \in Nat
      <4>1. Len(x.ci) \in 1..Len(x.ci) BY <1>2
      <4> QED BY <1>2, <4>1, FrameTypes
    <3>2. f = 1 \/ f < m BY <1>9, <1>10
    <3> HIDE DEF f
    <3>3. f <= m BY <1>8, <3>1, <3>2
    <3> QED BY <1>8, <3>3 DEF f
  <2>2. x.open \in SUBSET x.open OBVIOUS
  <2> QED BY <1>2, <1>8, <1>11, <2>1, <2>2, StackClose
<1>13. ThreadInv(w.L[th])
  <2>1. st # "YIELD" BY DEF Failures
  <2> QED BY <1>7, <1>12, <2>1 DEF ThreadInv, Suspended
<1>14. Body(w, G, h, b)
  <2>1. \A k \in 1..Len(s.C) : s.C[k].th = th /\ Live(s.C, k, Len(s.C)) /\ Sound(s.L[th].ci, s.L[th].open, s.C[k], G[k])
           => Sound(w.L[th].ci, w.L[th].open, s.C[k], G[k])
    BY <1>0, <1>7
  <2> QED BY <1>1, <1>2, <1>7, <1>13, <2>1, BodyThread, Zenon
<1>15. w.C = s.C BY <1>7 DEF InThread
<1>16. Left(w.L[th])
  <2>1. m \notin x.open
    <3> SUFFICES ASSUME m \in x.open PROVE FALSE OBVIOUS
    <3>1. m <= Len(x.stack) BY <1>2
    <3> QED BY <1>2, <1>8, <3>1
  <2> QED BY <1>7, <1>8, <1>9, <2>1 DEF Left
<1>17. Body(w, G, h, b) /\ w.C[Len(w.C)] = s.C[Len(s.C)] /\ Len(w.C) = Len(s.C) BY <1>14, <1>15
<1>18. w.C[Len(w.C)].at = "lua_resume" /\ th = w.C[Len(w.C)].th /\ st \in Statuses
  <2>1. s.C[Len(s.C)].at = "lua_resume" /\ s.C[Len(s.C)].th = th BY DEF Resumes
  <2> QED BY <1>17, <2>1 DEF Statuses
<1>19. Holds(Give(PopC(w), st), h, b) BY <1>16, <1>17, <1>18, ResumeDone, Zenon
<1> QED BY <1>19 DEF w, u

\* A protected call of a thread that can recover.
LEMMA FindsPcall ==
  ASSUME NEW s, NEW th, s.L[th].ci \in Seq(Frames), findpcall(s, th) # {}
  PROVE  LET i == Max(findpcall(s, th)) IN i \in 1..Len(s.L[th].ci) /\ s.L[th].ci[i].ypcall
<1> DEFINE P == findpcall(s, th)   n == Len(s.L[th].ci)
<1>1. n \in Nat /\ \A i \in P : i \in 1..n /\ s.L[th].ci[i].ypcall BY DEF findpcall
<1>2. \E m \in P : \A i \in P : i <= m
  <2>1. P \in SUBSET Int /\ P # {} /\ n \in Int /\ \A i \in P : i <= n BY <1>1
  <2> HIDE DEF P, n
  <2> QED BY ONLY <2>1, GreatestExists
<1>3. \E m \in P : \A i \in P : m >= i
  <2>1. \A i \in P : i \in Int BY <1>1
  <2> HIDE DEF P, n
  <2> QED BY ONLY <1>2, <2>1
<1>4. Max(P) \in P
  <2> HIDE DEF P, n
  <2> QED BY <1>3 DEF Max
<1> QED BY <1>1, <1>4

\* The frames above it are dropped.
Recovering(s, th, i, st) ==
    [[s EXCEPT !.L[th].ci = SubSeq(@, 1, i), !.C[Len(s.C)].status = "OK"] EXCEPT !.L[th].ci[i].recst = st]
\* The frames are as RecoversTo says, and only they and a status have changed.
LEMMA RecoveringIs ==
  ASSUME NEW s, State(s), NEW th \in Threads, NEW i \in 1..Len(s.L[th].ci), s.L[th].ci[i].ypcall, NEW st \in Failures
  PROVE  LET x == s.L[th]   r == Recovering(s, th, i, st)   v == [r EXCEPT !.C = s.C]   q2 == r.L[th].ci
         IN  /\ RecoversTo(x.ci, q2, i) /\ Turns(s, v, th, x.status, q2, Len(x.stack), x.open, x.nC, x.nny)
             /\ State(r) /\ r.L = v.L /\ r.gcstp = v.gcstp /\ r.C = Give(v, "OK").C
<1> DEFINE x == s.L[th]   q == x.ci   p == SubSeq(q, 1, i)   q2 == [p EXCEPT ![i].recst = st]   r == Recovering(s, th, i, st)
           v == [r EXCEPT !.C = s.C]   e == q[i]   y == r.L[th]
<1>1. q \in Seq(Frames) /\ IsThread(x) /\ Len(q) \in Nat /\ i \in Nat /\ e \in Frames /\ e.ypcall /\ e = q[i]
  BY DEF State, IsThread
<1>2. p \in Seq(Frames) /\ Len(p) = i /\ \A l \in 1..i : p[l] = q[l]
  <2> HIDE DEF x, q, p
  <2>1. p \in Seq(Frames) /\ Len(p) = i /\ \A l \in 1..i : p[l] = q[1 + l - 1] BY <1>1, SubSeqProperties DEF p, q, x
  <2> QED BY <1>1, <2>1
<1>3. st \in Ends /\ st # "OK" BY DEF Ends, Failures
<1> HIDE DEF p
<1> DEFINE f == [p[i] EXCEPT !.recst = st]
<1>4. i \in 1..i /\ p[i] = e BY <1>1, <1>2
<1>5. /\ f \in Frames /\ f.func = e.func /\ f.lua = e.lua /\ f.fresh = e.fresh /\ f.op = e.op /\ f.k = e.k /\ f.ypcall = e.ypcall
      /\ f.funcidx = e.funcidx /\ f.tbc = e.tbc /\ f.recst = st
  <2> HIDE DEF e
  <2> QED BY <1>1, <1>3, <1>4 DEF Frames
<1>6. q2 = [p EXCEPT ![i] = f] OBVIOUS
<1> HIDE DEF f, q, e
<1>7. q2 \in Seq(Frames) /\ Len(q2) = i /\ q2[i] = f /\ \A l \in 1..(i - 1) : q2[l] = p[l]
  <2> HIDE DEF q2, x
  <2>1. f \in Frames BY <1>5
  <2>2. i \in Nat /\ p \in Seq(Frames) /\ Len(p) = i /\ i \in 1..i BY <1>1, <1>2, <1>4
  <2> QED BY ONLY <1>6, <2>1, <2>2
<1> HIDE DEF q2
<1>8. RecoversTo(q, q2, i)
  <2>1. \A l \in 1..(i - 1) : q2[l] = q[l]
    <3>1. \A l \in 1..(i - 1) : l \in 1..i BY <1>1
    <3> QED BY <1>2, <1>7, <3>1
  <2>2. i \in 1..Len(q) BY DEF q
  <2> QED BY <1>1, <1>3, <1>5, <1>7, <2>1, <2>2 DEF RecoversTo
<1>9. /\ DOMAIN r = StateFields /\ DOMAIN r.L = Threads /\ (\A t \in Threads : t # th => r.L[t] = s.L[t])
      /\ r.gcstp = s.gcstp /\ r.C = [s.C EXCEPT ![Len(s.C)].status = "OK"]
  BY DEF State, StateFields, Recovering
<1>10. /\ DOMAIN y = ThreadFields /\ y.ci = [SubSeq(x.ci, 1, i) EXCEPT ![i].recst = st]
       /\ y.status = x.status /\ y.stack = x.stack /\ y.tbc = x.tbc /\ y.open = x.open /\ y.nC = x.nC /\ y.nny = x.nny /\ y.errfunc = x.errfunc
  <2>1. r.L = [[s.L EXCEPT ![th].ci = SubSeq(@, 1, i)] EXCEPT ![th].ci[i].recst = st]
    BY DEF State, StateFields, Recovering
  <2>2. r.L[th] = [[x EXCEPT !.ci = SubSeq(@, 1, i)] EXCEPT !.ci[i].recst = st]
    BY <2>1 DEF State
  <2> HIDE DEF r, x
  <2> QED BY <1>1, <2>2, Zenon DEF IsThread, ThreadFields
<1>11. y.ci = q2 BY <1>10 DEF q2, p, q
<1> HIDE DEF y, r, x
<1>12. IsThread(y) BY <1>1, <1>7, <1>10, <1>11 DEF IsThread
<1>13. y = r.L[th] /\ x = s.L[th] BY DEF y, x
<1>14. State(r) BY <1>9, <1>12, <1>13 DEF State
<1>15. State(v) /\ v.L = r.L /\ v.C = s.C /\ v.gcstp = r.gcstp
  BY <1>9, <1>14 DEF State, StateFields
<1> HIDE DEF v
<1>16. InThread(s, v, th) BY <1>9, <1>15 DEF InThread
<1>17. Turns(s, v, th, x.status, q2, Len(x.stack), x.open, x.nC, x.nny)
  BY <1>10, <1>11, <1>13, <1>15, <1>16, Zenon DEF Turns
<1>18. r.C = Give(v, "OK").C
  <2>1. "C" \in DOMAIN v BY <1>15 DEF State, StateFields
  <2>2. Give(v, "OK").C = [v.C EXCEPT ![Len(v.C)].status = "OK"] BY <2>1 DEF Give
  <2> QED BY <1>9, <1>15, <2>2
<1>19. r.L[th].ci = q2 BY <1>11, <1>13
<1> QED BY <1>8, <1>14, <1>15, <1>17, <1>18, <1>19 DEF q, x, v, r

\* An error in a protected call that can recover: its frame gets the status,
\* and unroll goes on there.
LEMMA ResumeRecovers ==
  ASSUME NEW s, NEW G, NEW h, NEW b, NEW th, Resumes(s, G, h, b, th), NEW st \in Failures, s.L[th].status = "OK",
         NEW i \in 1..Len(s.L[th].ci), s.L[th].ci[i].ypcall
  PROVE  Holds(PushC(Recovering(s, th, i, st), Activation("unroll", th)), h, b)
<1> DEFINE c == s.C   n == Len(c)   z == c[n]   k == G[n]   x == s.L[th]   q == x.ci   r == Recovering(s, th, i, st)   v == [r EXCEPT !.C = s.C]
           q2 == r.L[th].ci   w == Give(v, "OK")   a == [z EXCEPT !.status = "OK"]
<1>0. c = s.C /\ n = Len(c) /\ z = c[n] /\ k = G[n] /\ x = s.L[th] /\ q = x.ci /\ q2 = r.L[th].ci
  OBVIOUS
<1>1. /\ Body(s, G, h, b) /\ z.at = "lua_resume" /\ z.th = th /\ th \in Threads
      /\ x.nC = k.c /\ x.nny = k.e /\ k.e = 0 /\ k.d = 1 /\ k \in Ghosts /\ z \in Acts /\ IsRawRun(z)
      /\ \A l \in 1..n : c[l].th = th /\ Live(c, l, n) => G[l].d = 1
  BY DEF Resumes
<1>2. n \in Nat /\ n \in 1..n /\ State(s) /\ Stacked(q, Len(x.stack), x.open) /\ Len(G) = n /\ Own(z, k) /\ Chain(c, G, h)
  BY <1>0, <1>1, TopFacts, Zenon
<1>3. /\ RecoversTo(q, q2, i) /\ Turns(s, v, th, x.status, q2, Len(x.stack), x.open, x.nC, x.nny)
      /\ State(r) /\ r.L = v.L /\ r.gcstp = v.gcstp /\ r.C = w.C
  BY <1>1, <1>2, RecoveringIs
<1> HIDE DEF c, n, z, k, x, q, r, v, q2
<1>4. Stacked(q2, Len(x.stack), x.open) /\ i > 1 /\ i \in Nat /\ (\A l \in 2..(i - 1) : Passes(q2[l])) /\ Len(q2) = i
  BY <1>2, <1>3, StackRecover DEF RecoversTo
<1>5. /\ InThread(s, v, th) /\ v.L[th].status = "OK" /\ v.L[th].ci = q2 /\ Len(v.L[th].stack) = Len(x.stack)
      /\ v.L[th].open = x.open /\ v.L[th].nC = x.nC /\ v.L[th].nny = x.nny
  BY <1>0, <1>3 DEF Turns
<1>6. Body(v, G, h, b)
  <2>1. ThreadInv(v.L[th]) BY <1>4, <1>5 DEF ThreadInv, Suspended
  <2>2. ASSUME NEW l \in 1..Len(s.C), s.C[l].th = th, Live(s.C, l, Len(s.C)), Sound(s.L[th].ci, s.L[th].open, s.C[l], G[l])
        PROVE  Sound(v.L[th].ci, v.L[th].open, s.C[l], G[l])
    <3>1. G[l].d = 1 BY <1>0, <1>1, <2>2
    <3>2. Sound(q, x.open, s.C[l], G[l]) BY <1>0, <2>2
    <3>3. Sound(q2, x.open, s.C[l], G[l]) BY <1>2, <1>3, <3>1, <3>2, SoundRecover
    <3> QED BY <1>5, <3>3
  <2>3. th = s.C[Len(s.C)].th BY <1>0, <1>1
  <2> QED BY <1>1, <1>5, <2>1, <2>2, <2>3, BodyThread, Zenon
<1>7. v.C = c BY <1>0, <1>5 DEF InThread
<1>8. OnlyStatus(z, a) /\ a.status = "OK"
  <2>1. "OK" \in Statuses BY DEF Statuses
  <2> QED BY <1>1, <2>1, Marked
<1>9. Gives(v, w, a)
  <2> HIDE DEF w
  <2>1. z = v.C[Len(v.C)] /\ v.C[Len(v.C)].at \in {"luaD_pcall_error", "lua_closethread", "lua_resume"} \union CoCallers
    BY <1>0, <1>1, <1>7
  <2>2. OnlyStatus(z, [z EXCEPT !.status = "OK"]) BY <1>8
  <2>3. Gives(v, Give(v, "OK"), [z EXCEPT !.status = "OK"]) BY <1>6, <2>1, <2>2, Given
  <2> QED BY <2>3 DEF w
<1> HIDE DEF w, a
<1>10. Body(w, G, h, b) /\ Len(w.C) = n /\ w.C[n] = a
  BY <1>0, <1>6, <1>7, <1>9, BodyStatus
<1>11. Body(r, G, h, b)
  <2>1. w.L = v.L /\ w.gcstp = v.gcstp BY <1>9 DEF Gives, InC
  <2>2. Same(w, r) BY <1>3, <2>1 DEF Same, InC
  <2> QED BY <1>10, <2>2, BodySame
<1>12. /\ r.C = w.C /\ Len(r.C) = n /\ r.C[n] = a /\ r.L[th] = v.L[th] BY <1>3, <1>10
<1>13. a.at = "lua_resume" /\ a.th = th /\ a \in Acts BY <1>1, <1>8 DEF OnlyStatus
<1> DEFINE o == Activation("unroll", th)   g == [d |-> 1, b |-> 0, c |-> k.c, e |-> k.e, j |-> k.j]   u == PushC(r, o)
<1>14. o \in Acts /\ o.at = "unroll" /\ o.th = th
  BY <1>1 DEF Activation, Acts, PlainActs
<1>15. g \in Ghosts /\ g.d = 1 /\ g.b = 0 /\ g.c = k.c /\ g.e = k.e /\ g.j = k.j
  BY <1>1 DEF Ghosts
<1> HIDE DEF o, g
<1>16. Calls(r.C, G, o, g)
  <2>1. Link(a, k, o, g)
    <3>1. LinkThreads(a, o) BY <1>13, <1>14 DEF LinkThreads, Switches
    <3>2. LinkKinds(a, o) BY <1>8, <1>13, <1>14 DEF LinkKinds, MayCall
    <3>3. LinkCounts(k, o, g)
      <4>1. k.c + 0 = k.c BY <1>1 DEF Ghosts
      <4> QED BY <1>14, <1>15, <4>1 DEF LinkCounts, Switches
    <3>4. LinkFrames(a, k, o, g) BY <1>13, <1>14 DEF LinkFrames, Callers, CoCallers, PlainCallers
    <3> QED BY <3>1, <3>2, <3>3, <3>4 DEF Link
  <2>2. Own(o, g) BY <1>1, <1>14, <1>15 DEF Own, IsRawRun
  <2>3. g.j = Target(o, n + 1, G[n].j) BY <1>0, <1>14, <1>15 DEF Target, IsRawRun
  <2>4. o.at \notin Switches /\ o.th = r.C[Len(r.C)].th BY <1>12, <1>13, <1>14 DEF Switches
  <2> QED BY <1>0, <1>12, <1>14, <1>15, <2>1, <2>2, <2>3, <2>4, Zenon DEF Calls
<1>17. State(u) /\ u.L = r.L /\ u.gcstp = r.gcstp /\ u.C = Append(r.C, o)
  BY <1>3 DEF State, StateFields, PushC
<1> HIDE DEF u
<1>18. Sound(q2, x.open, o, g)
  <2>1. g.d = 1 /\ 1 <= Len(q2) /\ (\A l \in 2..(g.d - 1) : Passes(q2[l])) BY <1>4, <1>15
  <2>2. ~Floored(o) /\ ~Levelled(o) /\ o.at \notin Callers /\ o.at \notin {"lua_closethread", "execute", "ccall", "luaF_close"}
    BY <1>14 DEF Floored, Levelled, Callers, CoCallers, PlainCallers
  <2> QED BY <2>1, <2>2 DEF Sound
<1>19. Body(u, Append(G, g), h, b)
  <2>1. InC(r, u) BY <1>17 DEF InC
  <2>2. Sound(r.L[o.th].ci, r.L[o.th].open, o, g) BY <1>5, <1>12, <1>14, <1>18
  <2>3. o.th = r.C[Len(r.C)].th BY <1>12, <1>13, <1>14
  <2> QED BY <1>11, <1>16, <1>17, <2>1, <2>2, <2>3, BodyPush, Zenon
<1>20. Len(u.C) = n + 1 /\ u.C[n + 1] = o /\ Append(G, g)[n + 1] = g
  <2>1. r.C \in Seq(Acts) /\ G \in Seq(Ghosts) /\ Len(G) = n BY <1>2, <1>11, TopFacts, Zenon
  <2> QED BY <1>12, <1>14, <1>15, <1>17, <2>1, AppendAct
<1>21. Settled(u.L[th], o, g)
  <2>1. u.L[th].status = "OK" /\ u.L[th].nC = g.c /\ u.L[th].nny = g.e /\ u.L[th].ci = q2 BY <1>1, <1>5, <1>12, <1>15, <1>17
  <2>2. \A l \in 2..(Len(q2) - 1) : Passes(q2[l]) BY <1>4
  <2> QED BY <1>14, <2>1, <2>2 DEF Settled, IsRawRun
<1>22. Holds(u, h, b)
  <2>1. u.C[Len(u.C)] = o /\ Append(G, g)[Len(u.C)] = g BY <1>20
  <2>2. o.at \notin CoCallers BY <1>14 DEF CoCallers
  <2>3. Settled(u.L[o.th], o, g) BY <1>14, <1>21
  <2>4. Settled(u.L[o.th], o, Append(G, g)[Len(u.C)]) /\ o = u.C[Len(u.C)] BY <2>1, <2>3
  <2> QED BY <1>19, <2>2, <2>4, GoesOn
<1> QED BY <1>22 DEF u, o, r

\* lua_resume goes on.
LEMMA ResumeEnds ==
  ASSUME NEW s, NEW G, NEW h, NEW b, Body(s, G, h, b), Running(s, G), s.C[Len(s.C)].at = "lua_resume"
  PROVE  Holds(AfterResume(s), h, b)
<1> DEFINE z == s.C[Len(s.C)]   th == z.th   i == Max(findpcall(s, th))
<1>0. z = s.C[Len(s.C)] /\ th = z.th
  OBVIOUS
<1>1. Resumes(s, G, h, b, th) BY ResumeFacts
<1>2. Top(s) = z /\ z.status \in Statuses /\ th \in Threads /\ State(s) /\ s.L[th].ci \in Seq(Frames)
      /\ (IF z.status = "YIELD" THEN s.L[th].status = "YIELD" ELSE s.L[th].status = "OK")
  <2>1. State(s) /\ s.L[th].ci \in Seq(Frames) BY TopFacts, Zenon
  <2> QED BY <1>0, <1>1, <2>1, Zenon DEF Resumes
<1>3. AfterResume(s) = IF z.status \notin Failures THEN Give(PopC(s), "OK")
                       ELSE IF findpcall(s, th) # {} THEN PushC(Recovering(s, th, i, z.status), Activation("unroll", th))
                       ELSE Give(PopC([luaD_seterrorobj(s, th, z.status, top(s, th) + 1) EXCEPT !.L[th].status = z.status]), z.status)
  BY <1>2 DEF AfterResume, Recovering
<1> HIDE DEF z, th
<1>4. CASE z.status \notin Failures
  <2>1. "OK" \in Statuses BY DEF Statuses
  <2>2. Holds(Give(PopC(s), "OK"), h, b) BY <1>0, <2>1, ResumeDone
  <2> QED BY <1>3, <1>4, <2>2
<1>5. CASE z.status \in Failures /\ findpcall(s, th) # {}
  <2>1. s.L[th].status = "OK"
    <3>1. z.status # "YIELD" BY <1>5 DEF Failures
    <3> QED BY <1>2, <3>1
  <2>2. i \in 1..Len(s.L[th].ci) /\ s.L[th].ci[i].ypcall BY <1>2, <1>5, FindsPcall
  <2> HIDE DEF i
  <2>3. Holds(PushC(Recovering(s, th, i, z.status), Activation("unroll", th)), h, b)
    BY <1>1, <1>5, <2>1, <2>2, ResumeRecovers
  <2> QED BY <1>3, <1>5, <2>3 DEF i
<1>6. CASE z.status \in Failures /\ findpcall(s, th) = {}
  <2>1. s.L[th].status = "OK"
    <3>1. z.status # "YIELD" BY <1>6 DEF Failures
    <3> QED BY <1>2, <3>1
  <2>2. Holds(Give(PopC([luaD_seterrorobj(s, th, z.status, top(s, th) + 1) EXCEPT !.L[th].status = z.status]), z.status), h, b)
    BY <1>1, <1>6, <2>1, ResumeFails
  <2> QED BY <1>3, <1>6, <2>2
<1> QED BY <1>4, <1>5, <1>6

\* GCTM goes on: the collector is no longer stopped.
LEMMA FinalizerEnds ==
  ASSUME NEW s, NEW G, NEW h, NEW b, Body(s, G, h, b), Running(s, G), s.C[Len(s.C)].at = "GCTM"
  PROVE  Holds(AfterGCTM(s), h, b)
<1> DEFINE n == Len(s.C)   z == s.C[n]   th == z.th   k == G[n]   x == s.L[th]   q == x.ci   m == Len(q)   p == q[m].func
           v == [s EXCEPT !.gcstp = FALSE]   y == PopC(v)   l == n - 1   G2 == SubSeq(G, 1, l)   u == settop(y, th, z.level)
           r == AfterGCTM(s)
<1>0. n = Len(s.C) /\ z = s.C[n] /\ th = z.th /\ k = G[n] /\ x = s.L[th] /\ q = x.ci /\ m = Len(q) /\ p = q[m].func /\ l = n - 1
  OBVIOUS
<1>1. /\ Top(s) = z /\ z \in Acts /\ th \in Threads /\ State(s) /\ Stacked(q, Len(x.stack), x.open) /\ Sound(q, x.open, z, k)
      /\ m \in Nat /\ m >= 1 /\ q \in Seq(Frames) /\ x.open \subseteq 2..Len(x.stack)
  BY TopFacts, Zenon
<1>2. Settled(x, z, k)
  <2>1. ~IsRawRun(z) BY DEF IsRawRun
  <2> QED BY <2>1 DEF Running, Thrown
<1>3. z.level \in Nat /\ z.oldgcstp = FALSE
  <2>1. z \in GCActs BY <1>1, Kinds, Zenon
  <2> QED BY <2>1 DEF GCActs
<1>4. State(v) /\ v.L = s.L /\ v.C = s.C /\ v.gcstp = FALSE
  BY <1>1, Zenon DEF State, StateFields
<1>5. r = [settop(PopC(s), th, z.level) EXCEPT !.gcstp = FALSE]
  BY <1>1, <1>3, Zenon DEF AfterGCTM
<1> HIDE DEF r
<1>6. State(r) /\ r.L = u.L /\ r.C = u.C /\ r.gcstp = u.gcstp /\ State(u)
  <2>1. DOMAIN s = StateFields /\ DOMAIN s.L = Threads BY <1>1, Zenon DEF State
  <2>2. u.L = settop(PopC(s), th, z.level).L /\ u.C = PopC(s).C /\ u.gcstp = FALSE
    BY <2>1 DEF settop, PopC, StateFields
  <2>3. DOMAIN r = StateFields /\ r.L = u.L /\ r.C = u.C /\ r.gcstp = u.gcstp
    BY <1>5, <2>1, <2>2 DEF settop, PopC, StateFields
  <2>4. State(y) BY <1>4 DEF State, StateFields, PopC
  <2>5. State(u)
    <3> HIDE DEF y
    <3>1. Turns(y, u, th, y.L[th].status, y.L[th].ci, z.level, y.L[th].open, y.L[th].nC, y.L[th].nny)
      BY <1>1, <1>3, <2>4, Topped, Zenon
    <3> QED BY <3>1, Zenon DEF Turns, InThread
  <2> HIDE DEF u
  <2> QED BY <2>3, <2>5 DEF State
<1> HIDE DEF n, z, th, k, x, q, m, p, v, l, u
<1>7. Body(v, G, h, b)
  <2>1. v.gcstp \in BOOLEAN /\ ~v.gcstp BY <1>4
  <2> QED BY <1>4, <2>1 DEF Body, Collects
<1>8. Runs(v, G, h, b, th) /\ z.at = "GCTM" BY <1>0, <1>2, <1>4, <1>7, Zenon DEF Runs
<1>9. /\ Runs(y, G2, h, b, th) /\ y.C[Len(y.C)] = v.C[l] /\ y.L = v.L /\ Link(v.C[l], G[l], z, k)
  <2> DEFINE l2 == Len(v.C) - 1
  <2>1. v.C[Len(v.C)].at = "GCTM" /\ ~v.gcstp /\ l = l2 /\ v.C[Len(v.C)] = z /\ G[Len(v.C)] = k BY <1>0, <1>4, <1>8, Zenon
  <2>2. Runs(PopC(v), SubSeq(G, 1, l2), h, b, th) /\ PopC(v).C[Len(PopC(v).C)] = v.C[l2] /\ PopC(v).L = v.L
        /\ Link(v.C[l2], G[l2], v.C[Len(v.C)], G[Len(v.C)])
    BY <1>8, <2>1, PopsOn
  <2> HIDE DEF l2
  <2> QED BY <2>1, <2>2
<1> HIDE DEF y, G2
<1>10. LuaRuns(y, G2, h, b, th)
  <2>1. v.C[l].at = "execute"
    <3>1. MayCall(v.C[l].at, z.at) BY <1>9 DEF Link, LinkKinds
    <3> QED BY <1>8, <3>1 DEF MayCall, Callers, CoCallers, PlainCallers
  <2> QED BY <1>9, <2>1 DEF Runs, LuaRuns
<1>11. y.L[th] = x BY <1>0, <1>4, <1>9, Zenon
<1>12. z.level >= p /\ \A o \in x.open : ~(o >= z.level + 1)
  <2>1. k.d = m BY <1>0, <1>2, <1>8, Zenon DEF Settled
  <2>2. z.level >= q[k.d].func /\ NoneFrom(q, x.open, k.d, z.level + 1)
    BY <1>1, <1>8 DEF Sound, Floored, OpenFrom
  <2>3. ~(m < Len(q))
    <3>1. m = Len(q) /\ m \in Nat BY <1>0, <1>1, Zenon
    <3>2. ~(m < m) BY <3>1
    <3> QED BY <3>1, <3>2
  <2>4. \A o \in x.open : ~(o >= z.level + 1) BY <2>1, <2>2, <2>3 DEF NoneFrom
  <2>5. z.level >= p BY <1>0, <2>1, <2>2, Zenon
  <2> QED BY <2>4, <2>5
<1>13. TurnsStack(y, u, th, p, z.level, x.open)
  <2>1. State(y) BY <1>9 DEF Runs, Body
  <2>2. Turns(y, u, th, x.status, q, z.level, x.open, x.nC, x.nny)
    <3>1. Turns(y, settop(y, th, z.level), th, y.L[th].status, y.L[th].ci, z.level, y.L[th].open, y.L[th].nC, y.L[th].nny)
      BY <1>1, <1>3, <2>1, Topped
    <3> QED BY <1>0, <1>11, <3>1, Zenon DEF u
  <2>3. p \in Nat
    <3>1. m \in 1..m BY <1>1
    <3> QED BY <1>0, <1>1, <3>1, FrameTypes, Zenon
  <2>4. x.open \subseteq 2..z.level
    <3> SUFFICES ASSUME NEW o \in x.open PROVE o \in 2..z.level OBVIOUS
    <3>1. o \in Nat /\ o >= 2 BY <1>1
    <3>2. ~(o >= z.level + 1) BY <1>12
    <3> QED BY <1>3, <3>1, <3>2
  <2>5. x.ci = q BY <1>0, Zenon
  <2> QED BY <1>3, <1>11, <1>12, <2>2, <2>3, <2>4, <2>5 DEF TurnsStack
<1>14. LuaRuns(u, G2, h, b, th)
  <2>1. p = y.L[th].ci[Len(y.L[th].ci)].func BY <1>0, <1>11, Zenon
  <2> QED BY <1>10, <1>13, <2>1, LuaTurns
<1>15. Holds(u, h, b) BY <1>14, LuaGoesOn
<1>16. Same(u, r) BY <1>6 DEF Same, InC
<1> QED BY <1>15, <1>16, HoldsSame DEF r

\* The collector is stopped while there is a finalizer.
LEMMA PoisedStops ==
  ASSUME NEW s, NEW G, NEW h, NEW b, NEW p, Poised(s, G, h, b, p), s.C[Len(s.C)].at = "GCTM",
         NEW u, State(u), u.L = s.L, u.C = s.C, u.gcstp = TRUE
  PROVE  Poised(u, G, h, b, p)
<1>1. Body(s, G, h, b) /\ Len(s.C) \in 1..Len(s.C)
  BY TopFacts, Zenon DEF Poised
<1>2. Collects(u, b)
  <2>1. \E i \in 1..Len(u.C) : u.C[i].at = "GCTM" BY <1>1
  <2> QED BY <2>1 DEF Collects
<1>3. Body(u, G, h, b)
  BY <1>1, <1>2 DEF Body
<1> QED BY <1>3, Zenon DEF Poised

\* The state in which the finalizer is called.
LEMMA FinalizerState ==
  ASSUME NEW u, State(u), NEW th \in Threads, NEW p
  PROVE  LET v == BeginCall(PushC(u, RawRun("luaD_pcall", u, th, p)), th)
             r == [v EXCEPT !.gcstp = TRUE, !.L[th].errfunc = 0]
             y == [u EXCEPT !.gcstp = TRUE]
             d == [PushC(y, RawRun("luaD_pcall", y, th, p)) EXCEPT !.L[th].errfunc = 0]
         IN  (State(d) => Same(d, r)) /\ State(y) /\ y.L = u.L /\ y.C = u.C /\ y.gcstp = TRUE
<1> DEFINE a == RawRun("luaD_pcall", u, th, p)   y == [u EXCEPT !.gcstp = TRUE]   a2 == RawRun("luaD_pcall", y, th, p)
           v == BeginCall(PushC(u, a), th)   r == [v EXCEPT !.gcstp = TRUE, !.L[th].errfunc = 0]
           d == [PushC(y, a2) EXCEPT !.L[th].errfunc = 0]
<1>1. DOMAIN u = StateFields /\ DOMAIN u.L = Threads /\ \A t \in Threads : IsThread(u.L[t])
  BY DEF State
<1>2. y.L = u.L /\ y.C = u.C /\ y.gcstp = TRUE /\ DOMAIN y = StateFields
  BY <1>1 DEF StateFields
<1>3. State(y)
  <2> HIDE DEF y
  <2> QED BY <1>1, <1>2 DEF State
<1>4. a2 = a
  <2> HIDE DEF y
  <2> QED BY <1>2 DEF RawRun
<1> HIDE DEF a, a2
<1>5. v.L = u.L /\ v.C = Append(u.C, a) /\ DOMAIN v = StateFields
  BY <1>1 DEF BeginCall, PushC, StateFields
<1> HIDE DEF v
<1>6. r.L = [u.L EXCEPT ![th].errfunc = 0] /\ r.C = Append(u.C, a) /\ r.gcstp = TRUE /\ DOMAIN r = StateFields
  BY <1>1, <1>5 DEF StateFields
<1> HIDE DEF r, y
<1>7. d.L = [u.L EXCEPT ![th].errfunc = 0] /\ d.C = Append(u.C, a) /\ d.gcstp = TRUE
  BY <1>1, <1>2, <1>4 DEF PushC, StateFields
<1> HIDE DEF d
<1>8. State(d) => Same(d, r)
  <2> SUFFICES ASSUME State(d) PROVE Same(d, r) OBVIOUS
  <2>1. State(r) BY <1>6, <1>7 DEF State
  <2> QED BY <1>6, <1>7, <2>1 DEF Same, InC
<1> QED BY <1>2, <1>3, <1>8 DEF r, d, y, v, a, a2

\* A finalizer's activation is on the C stack.
LEMMA FinalizerPushed ==
  ASSUME NEW s, NEW G, NEW h, NEW b, NEW th, LuaRuns(s, G, h, b, th), ~s.gcstp, NEW z,
         z = [at |-> "GCTM", th |-> th, level |-> Len(s.L[th].stack), oldgcstp |-> s.gcstp]
  PROVE  LET u == PushC(push(s, th, Function), z)   p == Len(s.L[th].stack) + 1
         IN  (\E G2 : Poised(u, G2, h, b, p)) /\ u.C[Len(u.C)] = z /\ Len(u.L[th].stack) = p /\ z.th = th /\ z.at = "GCTM"
<1> DEFINE w == push(s, th, Function)   u == PushC(w, z)   x == s.L[th]   l == Len(x.stack)   p == l + 1
           n == Len(s.C)   y == s.C[n]   k == G[n]   q == x.ci   m == Len(q)
           g == [d |-> k.d, b |-> 0, c |-> k.c, e |-> k.e, j |-> k.j]
<1>0. n = Len(s.C) /\ y = s.C[n] /\ k = G[n] /\ x = s.L[th] /\ q = x.ci /\ l = Len(x.stack) /\ p = l + 1 /\ m = Len(q)
  OBVIOUS
<1>1. /\ Body(s, G, h, b) /\ Calm(s, G) /\ th = y.th /\ RunsIn(s, G, th) /\ ~q[m].ypcall /\ y.at = "execute" /\ th \in Threads
  BY LuaFacts
<1>2. Poised(w, G, h, b, p) /\ w.C = s.C /\ Turns(s, w, th, x.status, q, p, x.open, x.nC, x.nny)
  BY <1>1, Pushes, ZenonT(60)
<1>3. s.gcstp = FALSE
  BY <1>1, Zenon DEF Body, Collects
<1>4. /\ l \in Nat /\ p \in Nat /\ p >= p /\ p <= p /\ m \in Nat /\ m > 1 /\ q[m].func \in Nat /\ q[m].func <= l /\ k.d = m
      /\ x.status = "OK" /\ x.nC = k.c /\ x.nny = k.e /\ x.open \subseteq 2..l /\ Sound(q, x.open, y, k) /\ ~q[m].ypcall
  <2>1. /\ l \in Nat /\ m \in Nat /\ m > 1 /\ q[m].func \in Nat /\ q[m].func <= l /\ k.d = m
        /\ x.status = "OK" /\ x.nC = k.c /\ x.nny = k.e /\ x.open \subseteq 2..l /\ Sound(q, x.open, y, k)
    <3>1. RunsIn(s, G, th) BY <1>1, Zenon
    <3> QED BY <3>1, Zenon DEF RunsIn
  <2>2. p \in Nat /\ p >= p /\ p <= p
    <3>1. l \in Nat BY <2>1
    <3> HIDE DEF l
    <3> QED BY <3>1
  <2> QED BY <1>1, <2>1, <2>2, Zenon
<1>5. y \in Acts /\ k \in Ghosts /\ n \in Nat /\ n >= 1 /\ Len(G) = n /\ s.C \in Seq(Acts) /\ Innermost(s.C, G, n)
  <2>1. n \in 1..n BY <1>1, TopFacts, Zenon
  <2> QED BY <1>1, <2>1, TopFacts, JumpTarget, Zenon
<1> HIDE DEF n, y, k, x, q, l, p, m
<1>6. z \in Acts /\ z.at = "GCTM" /\ z.th = th /\ z.level = l
  <2>1. z \in GCActs BY <1>0, <1>1, <1>3, <1>4, Zenon DEF GCActs
  <2> QED BY <1>0, <2>1 DEF Acts
<1>7. g \in Ghosts /\ g.d = k.d /\ g.b = 0 /\ g.c = k.c /\ g.e = k.e /\ g.j = k.j
  BY <1>5 DEF Ghosts
<1> HIDE DEF g, w
<1>8. Calls(s.C, G, z, g)
  <2>1. LinkThreads(y, z) BY <1>1, <1>6 DEF LinkThreads, Switches
  <2>2. LinkKinds(y, z) BY <1>1, <1>6 DEF LinkKinds, MayCall, IsRawRun
  <2>3. LinkCounts(k, z, g)
    <3>1. k.c \in Int BY <1>5 DEF Ghosts
    <3> QED BY <1>6, <1>7, <3>1 DEF LinkCounts, Switches
  <2>4. LinkFrames(y, k, z, g) BY <1>1, <1>6, <1>7 DEF LinkFrames, Switches, Callers, CoCallers, PlainCallers
  <2>5. Own(z, g) /\ g.j = Target(z, n + 1, k.j) /\ z.at \notin Switches
    BY <1>6, <1>7 DEF Own, Target, IsRawRun, Switches
  <2>6. Link(y, k, z, g) BY <2>1, <2>2, <2>3, <2>4 DEF Link
  <2> QED BY <1>0, <1>1, <1>6, <1>7, <2>5, <2>6, Zenon DEF Calls
<1>9. Sound(q, x.open, z, g)
  <2>1. g.e = 0 => \A i \in 2..(g.d - 1) : Passes(q[i]) BY <1>4, <1>7 DEF Sound
  <2>2. g.d = m /\ g.d <= Len(q)
    <3>1. m <= m BY <1>4
    <3> QED BY <1>0, <1>4, <1>7, <3>1
  <2>3. z.level >= q[g.d].func /\ ~q[g.d].ypcall
    <3> DEFINE e == q[m].func
    <3>1. e \in Nat /\ e <= l BY <1>4
    <3> HIDE DEF e
    <3>2. l >= e BY <1>4, <3>1
    <3> QED BY <1>4, <1>6, <2>2, <3>2 DEF e
  <2>4. NoneFrom(q, x.open, g.d, l + 1)
    <3> SUFFICES ASSUME NEW o \in x.open, o >= l + 1 PROVE FALSE BY DEF NoneFrom
    <3>1. o \in 2..l BY <1>4
    <3> QED BY <1>4, <3>1
  <2> QED BY <1>6, <2>1, <2>2, <2>3, <2>4 DEF Sound, Floored, Levelled, OpenFrom, Callers, CoCallers, PlainCallers
<1>10. u.L = w.L /\ u.gcstp = w.gcstp /\ State(u) /\ u.C = Append(w.C, z)
  <2>1. State(w) BY <1>2 DEF Turns, InThread
  <2> QED BY <2>1 DEF PushC, State, StateFields
<1> HIDE DEF u
<1>11. /\ w.L[th].status = x.status /\ w.L[th].ci = q /\ Len(w.L[th].stack) = p /\ w.L[th].open = x.open
       /\ w.L[th].nC = x.nC /\ w.L[th].nny = x.nny
  BY <1>2 DEF Turns
<1>12. Deeper(w, u, z, g, p, p)
  <2>1. w.C[Len(w.C)].th = th /\ z.at # "luaD_pcall" BY <1>0, <1>1, <1>2, <1>6, Zenon
  <2>2. Sound(w.L[th].ci, w.L[th].open, z, g) BY <1>9, <1>11
  <2>3. u.L[th] = w.L[th] /\ \A t \in Threads : u.L[t] = w.L[t] BY <1>10
  <2> QED BY <1>4, <1>6, <1>7, <1>10, <1>11, <2>1, <2>2, <2>3 DEF Deeper
<1>13. Calls(w.C, G, z, g)
  BY <1>2, <1>8
<1>14. Poised(u, Append(G, g), h, b, p) /\ u.C[Len(u.C)] = z
  BY <1>2, <1>4, <1>12, <1>13, Deepen
<1> QED BY <1>0, <1>6, <1>10, <1>11, <1>14, Zenon DEF u, w, p

\* A finalizer runs.
LEMMA Finalizes ==
  ASSUME NEW s, NEW G, NEW h, NEW b, NEW th, LuaRuns(s, G, h, b, th), ~s.gcstp
  PROVE  Holds(GCTM(s, th), h, b)
<1> DEFINE l == Len(s.L[th].stack)   p == l + 1
           z == [at |-> "GCTM", th |-> th, level |-> l, oldgcstp |-> s.gcstp]
           u == PushC(push(s, th, Function), z)
           v == BeginCall(PushC(u, RawRun("luaD_pcall", u, th, p)), th)
           r == [v EXCEPT !.gcstp = TRUE, !.L[th].errfunc = 0]
           y == [u EXCEPT !.gcstp = TRUE]   c == PushC(y, RawRun("luaD_pcall", y, th, p))
           d == [c EXCEPT !.L[th].errfunc = 0]
<1>1. (\E G2 : Poised(u, G2, h, b, p)) /\ u.C[Len(u.C)] = z /\ Len(u.L[th].stack) = p /\ z.th = th /\ z.at = "GCTM"
  <2>1. z = [at |-> "GCTM", th |-> th, level |-> Len(s.L[th].stack), oldgcstp |-> s.gcstp] OBVIOUS
  <2> HIDE DEF z
  <2> QED BY <2>1, FinalizerPushed
<1>2. GCTM(s, th) = luaD_callnoyield(r, th, p)
  <2>1. GCTM(s, th) = luaD_callnoyield([BeginCall(PushC(u, RawRun("luaD_pcall", u, th, top(u, th))), th)
                                          EXCEPT !.gcstp = TRUE, !.L[th].errfunc = 0], th, top(u, th))
    BY DEF GCTM, top
  <2>2. top(u, th) = p BY <1>1 DEF top
  <2> HIDE DEF u, p
  <2> QED BY <2>1, <2>2
<1> HIDE DEF l, p, z, u
<1>3. PICK G2 : Poised(u, G2, h, b, p)
  BY <1>1
<1>4. th = u.C[Len(u.C)].th /\ th \in Threads /\ State(u)
  <2>1. th = u.C[Len(u.C)].th BY <1>1
  <2> QED BY <1>3, <2>1, PoisedFacts
<1>5. (State(d) => Same(d, r)) /\ State(y) /\ y.L = u.L /\ y.C = u.C /\ y.gcstp = TRUE
  BY <1>4, FinalizerState, Zenon
<1> HIDE DEF r, y
<1>6. Poised(y, G2, h, b, p)
  <2>1. u.C[Len(u.C)].at = "GCTM" BY <1>1
  <2> QED BY <1>3, <1>5, <2>1, PoisedStops
<1>7. (\E G3 : Poised(c, G3, h, b, p)) /\ c.C[Len(c.C)] = RawRun("luaD_pcall", y, th, p)
  <2>1. y.C[Len(y.C)].at = "GCTM" /\ th = y.C[Len(y.C)].th BY <1>1, <1>4, <1>5
  <2> QED BY <1>6, <2>1, Protects
<1>8. c.C[Len(c.C)].at = "luaD_pcall" /\ c.C[Len(c.C)].th = th
  BY <1>7 DEF RawRun
<1> HIDE DEF c
<1>9. PICK G3 : Poised(c, G3, h, b, p)
  BY <1>7
<1>10. Poised(d, G3, h, b, p) /\ d.C = c.C
  <2> DEFINE e == 0   d2 == [c EXCEPT !.L[th].errfunc = e]
  <2>1. e \in Nat /\ th = c.C[Len(c.C)].th BY <1>8
  <2> HIDE DEF e, d
  <2>2. Poised(d2, G3, h, b, p) /\ d2.C = c.C BY <1>9, <2>1, PoisedHandled
  <2> QED BY <2>2 DEF d, e
<1> HIDE DEF d
<1>11. State(d)
  <2>1. th = d.C[Len(d.C)].th BY <1>8, <1>10
  <2> QED BY <1>10, <2>1, PoisedFacts
<1>12. Same(d, r)
  BY <1>5, <1>11
<1>13. Poised(r, G3, h, b, p) /\ r.C = d.C
  BY <1>10, <1>12, PoisedSame DEF Same
<1>14. CanCall(r, G3, 1, 1)
  BY <1>8, <1>10, <1>13 DEF CanCall, MayCall
<1>15. Holds(ccall(r, th, p, 0, 1, 1), h, b)
  <2>1. th = r.C[Len(r.C)].th BY <1>8, <1>10, <1>13
  <2> QED BY <1>13, <1>14, <2>1, CCall
<1> QED BY <1>2, <1>15 DEF luaD_callnoyield

-----------------------------------------------------------------------------
(* Lua code calls into another thread.                                      *)

\* A thread that is not there yet gets its function.
Begun == [ResetThread EXCEPT !.stack = <<Nil, Function>>]
\* Nothing else changes.
LEMMA Begins ==
  ASSUME NEW s, NEW G, NEW h, NEW b, NEW th, LuaRuns(s, G, h, b, th), NEW co \in Threads, s.L[co].stack = << >>
  PROVE  LuaRuns([s EXCEPT !.L[co] = Begun], G, h, b, th)
<1> DEFINE u == [s EXCEPT !.L[co] = Begun]   z == s.C[Len(s.C)]
<1>1. /\ Body(s, G, h, b) /\ RunsIn(s, G, th) /\ th \in Threads /\ State(s) /\ z.th = th /\ z.at = "execute"
      /\ Settled(s.L[th], z, G[Len(s.C)]) /\ Len(s.C) \in 1..Len(s.C)
  BY LuaFacts, TopFacts, Zenon DEF LuaRuns
<1>2. /\ Begun.status = "OK" /\ Begun.ci = <<CFrame(1)>> /\ Begun.stack = <<Nil, Function>> /\ Begun.tbc = << >> /\ Begun.open = {}
      /\ Begun.nC = 0 /\ Begun.nny = 0 /\ Begun.errfunc = 0 /\ DOMAIN Begun = ThreadFields
  BY DEF Begun, ResetThread, ThreadFields
<1>3. /\ IsThread(Begun) /\ Len(Begun.stack) = 2
  <2>1. <<CFrame(1)>> \in Seq(Frames) BY BaseFrame
  <2>2. "OK" \in Statuses BY DEF Statuses
  <2>3. <<Nil, Function>> \in Seq({Nil, Function}) /\ Len(<<Nil, Function>>) = 2 OBVIOUS
  <2>4. << >> \in Seq(Nat) /\ {} \in SUBSET Nat /\ 0 \in Int /\ 0 \in Nat OBVIOUS
  <2> QED BY <1>2, <2>1, <2>2, <2>3, <2>4 DEF IsThread
<1>4. ThreadInv(Begun)
  <2>1. Stacked(<<CFrame(1)>>, 2, {}) BY BaseStacked
  <2> QED BY <1>2, <1>3, <2>1 DEF ThreadInv, Suspended
<1> HIDE DEF z
<1>5. u.C = s.C /\ u.gcstp = s.gcstp /\ u.L[co] = Begun /\ (\A t \in Threads : t # co => u.L[t] = s.L[t]) /\ State(u)
  <2>1. DOMAIN s = StateFields /\ DOMAIN s.L = Threads /\ \A t \in Threads : IsThread(s.L[t]) BY <1>1 DEF State
  <2>2. u.C = s.C /\ u.gcstp = s.gcstp /\ u.L[co] = Begun /\ (\A t \in Threads : t # co => u.L[t] = s.L[t]) /\ DOMAIN u = StateFields
        /\ DOMAIN u.L = Threads
    BY <2>1 DEF StateFields
  <2> HIDE DEF u
  <2> QED BY <1>3, <2>1, <2>2 DEF State
<1> HIDE DEF u
<1>6. InThread(s, u, co)
  BY <1>5 DEF InThread
<1>7. co # th
  <2>1. Len(s.L[th].stack) # 0 BY <1>1, Zenon DEF RunsIn
  <2>2. Len(<< >>) = 0 OBVIOUS
  <2> QED BY <2>1, <2>2
<1>8. \A k \in 1..Len(s.C) : s.C[k].th # co
  <2> SUFFICES ASSUME NEW k \in 1..Len(s.C), s.C[k].th = co PROVE FALSE OBVIOUS
  <2>1. Len(s.L[co].ci) > 1 BY <1>1, <1>7, Busy DEF z
  <2>2. Stacked(s.L[co].ci, 0, s.L[co].open)
    <3>1. Len(s.L[co].stack) = 0 OBVIOUS
    <3> QED BY <1>1, <3>1 DEF Body, ThreadInv
  <2>3. Len(s.L[co].ci) = 1 BY <2>2 DEF Stacked
  <2> QED BY <2>1, <2>3
<1>9. Body(u, G, h, b)
  <2>1. ThreadInv(u.L[co]) BY <1>4, <1>5
  <2> QED BY <1>1, <1>6, <1>8, <2>1, BodyThread
<1> QED BY <1>1, <1>5, <1>7, <1>9 DEF LuaRuns, u, z

\* The last element of a sequence changes.
LEMMA LastSet ==
  ASSUME NEW V, NEW c \in Seq(V), NEW y \in V, NEW a \in V
  PROVE  [Append(c, y) EXCEPT ![Len(c) + 1] = a] = Append(c, a)
<1> DEFINE n == Len(c)   e == Append(c, y)   r == [e EXCEPT ![n + 1] = a]   d == Append(c, a)
<1>1. e \in Seq(V) /\ d \in Seq(V) /\ Len(e) = n + 1 /\ Len(d) = n + 1 /\ d[n + 1] = a /\ (\A i \in 1..n : e[i] = c[i] /\ d[i] = c[i]) /\ n \in Nat
  OBVIOUS
<1> HIDE DEF n, e, d
<1>2. n + 1 \in 1..Len(e) BY <1>1
<1>3. r \in Seq(V) /\ Len(r) = n + 1 /\ \A j \in 1..(n + 1) : r[j] = IF j = n + 1 THEN a ELSE e[j]
  BY <1>1, <1>2, ExceptSeq
<1>4. \A j \in 1..(n + 1) : r[j] = d[j]
  <2> SUFFICES ASSUME NEW j \in 1..(n + 1) PROVE r[j] = d[j] OBVIOUS
  <2>1. j = n + 1 \/ j \in 1..n BY <1>1
  <2> QED BY <1>1, <1>3, <2>1
<1> HIDE DEF r
<1>5. r = d BY <1>1, <1>3, <1>4, SeqEqual
<1> QED BY <1>5 DEF r, n, e, d

\* A C function that calls into another thread.
LEMMA CallsInto ==
  ASSUME NEW s, NEW G, NEW h, NEW b, NEW th, LuaRuns(s, G, h, b, th), NEW at \in CoCallers, NEW co \in Threads
  PROVE  LET u == CallCo(s, th, at, co)   a == [at |-> at, th |-> th, co |-> co, status |-> "OK"]
         IN  /\ \E G2 : CRuns(u, G2, h, b, th)
             /\ u.C[Len(u.C)] = a /\ a.at = at /\ a.co = co /\ a.status = "OK" /\ a.th = th
             /\ (\A t \in Threads : t # th => u.L[t] = s.L[t]) /\ Len(u.L[th].stack) # 0 /\ u.L[th].status = "OK"
             /\ Len(u.L[th].ci) > 1
<1> DEFINE r == precallC(s, th, "error")   v == precallC(s, th, at)   u == CallCo(s, th, at, co)
           a == [at |-> at, th |-> th, co |-> co, status |-> "OK"]   p == Len(s.L[th].stack) + 1   f == CFrame(p)
<1>1. th = s.C[Len(s.C)].th /\ RunsIn(s, G, th) /\ State(s) /\ th \in Threads /\ Body(s, G, h, b)
      /\ s.C[Len(s.C)].at = "execute" /\ Settled(s.L[th], s.C[Len(s.C)], G[Len(s.C)])
  BY LuaFacts DEF LuaRuns
<1>2. CallsC(s, r, Activation("error", th), f, p)
  BY CallsPlain DEF PlainCallers
<1>3. a \in Acts /\ a.at = at /\ a.co = co /\ a.status = "OK" /\ a.th = th
  <2>1. a \in CoActs BY <1>1 DEF CoActs, Statuses
  <2> QED BY <2>1 DEF Acts
<1>4. r.L = u.L /\ u.C = Append(s.C, a) /\ u.gcstp = r.gcstp /\ DOMAIN u = DOMAIN r
  <2> DEFINE w == prepCallInfo(push(s, th, Function), th, CFrame(top(push(s, th, Function), th)))
  <2>1. r = PushC(w, Activation("error", th)) /\ v = PushC(w, Activation(at, th)) BY DEF precallC
  <2>2. DOMAIN w = StateFields /\ w.C = s.C BY <1>1 DEF prepCallInfo, push, State, StateFields
  <2> HIDE DEF w, r, v, a
  <2>3. /\ r.L = w.L /\ r.gcstp = w.gcstp /\ DOMAIN r = StateFields
        /\ v.L = w.L /\ v.gcstp = w.gcstp /\ DOMAIN v = StateFields /\ v.C = Append(s.C, Activation(at, th))
    BY <2>1, <2>2 DEF PushC, StateFields
  <2>4. u = [v EXCEPT !.C[Len(v.C)] = a] BY DEF CallCo, v, a
  <2> DEFINE c == s.C   y == Activation(at, th)
  <2>5. c \in Seq(Acts) /\ y \in {y} BY <1>1, TopFacts, Zenon
  <2>6. [v.C EXCEPT ![Len(v.C)] = a] = Append(c, a)
    <3> DEFINE V == Acts \union {y, a}
    <3>1. c \in Seq(V) /\ y \in V /\ a \in V BY <2>5, SeqMonotonic
    <3>2. v.C = Append(c, y) BY <2>3
    <3> HIDE DEF c, y, V
    <3>3. Len(v.C) = Len(c) + 1 BY <3>1, <3>2
    <3>4. [Append(c, y) EXCEPT ![Len(c) + 1] = a] = Append(c, a) BY <3>1, LastSet
    <3> QED BY <3>2, <3>3, <3>4
  <2> HIDE DEF u, c, y
  <2>7. u.L = v.L /\ u.gcstp = v.gcstp /\ DOMAIN u = StateFields /\ u.C = [v.C EXCEPT ![Len(v.C)] = a]
    BY <2>3, <2>4 DEF StateFields
  <2> QED BY <2>3, <2>6, <2>7 DEF c
<1> HIDE DEF r, v, u, a, f, p
<1>5. CallsC(s, u, a, f, p)
  <2>1. State(u) BY <1>2, <1>4, Zenon DEF CallsC, State
  <2>2. ~f.tbc
    BY DEF f, CFrame, Frame
  <2> QED BY <1>1, <1>2, <1>3, <1>4, <2>1, <2>2, Zenon DEF CallsC, Callers
<1>6. PICK G2 : Body(u, G2, h, b) /\ Calm(u, G2) /\ u.C[Len(u.C)] = a
  BY <1>1, <1>5, CalledC
<1>7. CRuns(u, G2, h, b, th)
  BY <1>3, <1>6 DEF CRuns, Callers
<1>8. (\A t \in Threads : t # th => u.L[t] = s.L[t]) /\ Len(u.L[th].stack) # 0 /\ u.L[th].status = "OK" /\ Len(u.L[th].ci) > 1
  <2>1. RunsIn(u, G2, th)
    <3>1. th = u.C[Len(u.C)].th BY <1>3, <1>6
    <3> QED BY <1>6, <3>1, TopFrame
  <2> QED BY <1>1, <1>5, <2>1, Zenon DEF RunsIn, CallsC
<1> QED BY <1>3, <1>6, <1>7, <1>8 DEF u, a

\* lua_resume is called; the coroutine has been created.
Resuming(s, G, h, b, th, co) ==
    LET a == s.C[Len(s.C)]
    IN  /\ CRuns(s, G, h, b, th) /\ a.at \in {"luaB_coresume", "luaB_auxwrap"} /\ a.co = co /\ a.status = "OK"
        /\ co \in Threads /\ Len(s.L[co].stack) # 0
\* What it knows.
LEMMA ResumingFacts ==
  ASSUME NEW s, NEW G, NEW h, NEW b, NEW th, NEW co, Resuming(s, G, h, b, th, co)
  PROVE  LET n == Len(s.C)   z == s.C[n]   x == s.L[co]
         IN  /\ n \in Nat /\ n \in 1..n /\ Len(G) = n /\ s.C \in Seq(Acts) /\ G \in Seq(Ghosts) /\ z \in Acts /\ G[n] \in Ghosts
             /\ Body(s, G, h, b) /\ State(s) /\ z.th = th /\ th \in Threads /\ Settled(s.L[th], z, G[n])
             /\ s.L[th].status = "OK" /\ Len(s.L[th].ci) > 1
             /\ IsThread(x) /\ ThreadInv(x) /\ Stacked(x.ci, Len(x.stack), x.open) /\ Len(x.stack) \in Nat
             /\ z.at \notin {"host", "lua_closethread", "luaD_pcall_error", "GCTM"} /\ ~IsRawRun(z)
<1>1. CRuns(s, G, h, b, th) /\ s.C[Len(s.C)].at \in {"luaB_coresume", "luaB_auxwrap"} /\ co \in Threads
  BY DEF Resuming
<1>2. Body(s, G, h, b) /\ Calm(s, G) /\ s.C[Len(s.C)].th = th
  BY <1>1 DEF CRuns
<1>3. RunsIn(s, G, th) BY <1>2, TopFrame
<1>4. /\ Len(s.C) \in Nat /\ Len(s.C) \in 1..Len(s.C) /\ Len(G) = Len(s.C) /\ s.C \in Seq(Acts) /\ G \in Seq(Ghosts)
      /\ s.C[Len(s.C)] \in Acts /\ G[Len(s.C)] \in Ghosts
  BY <1>2, TopFacts, Zenon
<1>5. State(s) /\ th \in Threads /\ s.L[th].status = "OK" /\ Len(s.L[th].ci) > 1
  BY <1>3, Zenon DEF RunsIn
<1>6. Settled(s.L[th], s.C[Len(s.C)], G[Len(s.C)])
  BY <1>2 DEF Calm
<1>7. IsThread(s.L[co]) /\ ThreadInv(s.L[co])
  BY <1>1, <1>2, <1>5 DEF State, Body
<1>8. Stacked(s.L[co].ci, Len(s.L[co].stack), s.L[co].open)
  BY <1>7 DEF ThreadInv
<1>9. Len(s.L[co].stack) \in Nat BY <1>8 DEF Stacked
<1>10. s.C[Len(s.C)].at \notin {"host", "lua_closethread", "luaD_pcall_error", "GCTM"} /\ ~IsRawRun(s.C[Len(s.C)])
  BY <1>1 DEF IsRawRun
<1> QED BY <1>2, <1>4, <1>5, <1>6, <1>7, <1>8, <1>9, <1>10

\* The coroutine cannot be resumed.
LEMMA ResumeRefused ==
  ASSUME NEW s, NEW G, NEW h, NEW b, NEW th, NEW co, Resuming(s, G, h, b, th, co), NEW text
  PROVE  Holds(resume_error(s, co, text), h, b)
<1> DEFINE n == Len(s.C)   z == s.C[n]   x == s.L[co]   q == x.ci   m == Len(x.stack)   l == m + 1
           u == push(s, co, Message(text))   y == u.L[co]   d == q[Len(q)].func
<1>0. n = Len(s.C) /\ z = s.C[n] /\ x = s.L[co] /\ q = x.ci /\ m = Len(x.stack) /\ l = m + 1 /\ d = q[Len(q)].func
  OBVIOUS
<1>1. /\ Body(s, G, h, b) /\ State(s) /\ z.th = th /\ th \in Threads /\ Settled(s.L[th], z, G[n])
      /\ IsThread(x) /\ Stacked(q, m, x.open) /\ m \in Nat
  BY ResumingFacts
<1>2. z.at \in {"luaB_coresume", "luaB_auxwrap"} /\ z.co = co /\ co \in Threads /\ m # 0
  BY DEF Resuming
<1> HIDE DEF n, z, x, q, m, l, u, y, d
<1>3. /\ q \in Seq(Frames) /\ Len(q) \in 1..Len(q) /\ x.open \subseteq 2..m /\ d <= m
  BY <1>0, <1>1, <1>2 DEF Stacked
<1>4. d \in Nat
  BY <1>0, <1>3, FrameTypes
<1>5. Turns(s, u, co, x.status, q, l, x.open, x.nC, x.nny)
  BY <1>0, <1>1, <1>2, Pushed DEF u
<1>6. InThread(s, u, co) /\ u.C = s.C /\ y.status = x.status /\ y.ci = q /\ Len(y.stack) = l /\ y.open = x.open /\ y.nC = x.nC /\ y.nny = x.nny
  BY <1>5 DEF Turns, InThread, y
<1>7. l \in Nat /\ l >= 1 /\ d <= l /\ d < l /\ x.open \subseteq 2..l /\ l \notin x.open /\ l # 0
  <2>1. l \in Nat /\ l >= 1 /\ l # 0 BY <1>0, <1>1
  <2>2. d < l /\ d <= l BY <1>0, <1>1, <1>3, <1>4
  <2>3. x.open \subseteq 2..l
    <3> SUFFICES ASSUME NEW o \in x.open PROVE o \in 2..l OBVIOUS
    <3>1. o \in 2..m BY <1>3
    <3> QED BY <1>0, <1>1, <3>1
  <2>4. l \notin x.open
    <3>1. l \notin 2..m BY <1>0, <1>1
    <3> QED BY <1>3, <3>1
  <2> QED BY <2>1, <2>2, <2>3, <2>4
<1>8. Restacks(s, u, co)
  <2>1. y.open \subseteq x.open /\ y.open \subseteq 2..Len(y.stack) /\ Len(y.stack) \in Nat /\ Len(y.stack) # 0 /\ q[Len(q)].func <= Len(y.stack)
    BY <1>0, <1>6, <1>7
  <2> QED BY <1>0, <1>2, <1>6, <2>1 DEF Restacks, y
<1>9. Body(u, G, h, b) BY <1>1, <1>8, BodyStack
<1>10. Settled(u.L[th], z, G[n])
  <2>1. CASE th = co BY <1>0, <1>1, <1>6, <2>1, SettledAgain, Zenon DEF y
  <2>2. CASE th # co
    <3>1. u.L[th] = s.L[th] BY <1>1, <1>6, <2>2 DEF InThread
    <3> QED BY <1>1, <3>1
  <2> QED BY <2>1, <2>2
<1>11. Left(y) BY <1>0, <1>6, <1>7 DEF Left
<1>12. GivesOn(u, G, h, b, "not_resumed")
  <2>1. z = u.C[Len(u.C)] /\ Len(u.C) = n BY <1>0, <1>6
  <2>2. z.at \in CoCallers BY <1>2 DEF CoCallers
  <2> QED BY <1>1, <1>2, <1>9, <1>10, <1>11, <2>1, <2>2 DEF GivesOn, y
<1>13. Holds(Give(u, "not_resumed"), h, b) BY <1>12, Gave
<1> QED BY <1>13 DEF resume_error, u

\* A coroutine that does not run and is not waiting.
Idle(s, co) == \A i \in 1..Len(s.C) : s.C[i].th # co
\* One that lua_resume does not refuse is not on the C stack.
LEMMA IsIdle ==
  ASSUME NEW s, NEW G, NEW h, NEW b, NEW th, NEW co, Resuming(s, G, h, b, th, co), ~(s.L[co].status = "OK" /\ Len(s.L[co].ci) # 1)
  PROVE  Idle(s, co) /\ co # th /\ co # Main
<1>1. /\ Body(s, G, h, b) /\ s.C[Len(s.C)].th = th /\ s.L[th].status = "OK" /\ Len(s.L[th].ci) > 1 /\ Len(s.C) \in Nat /\ Len(s.C) \in 1..Len(s.C)
  BY ResumingFacts
<1>2. co # th
  <2> SUFFICES ASSUME co = th PROVE FALSE OBVIOUS
  <2>1. Len(s.L[th].ci) = 1 BY <1>1
  <2>2. ~(1 > 1) OBVIOUS
  <2> QED BY <1>1, <2>1, <2>2
<1>3. Idle(s, co)
  <2> SUFFICES ASSUME NEW i \in 1..Len(s.C), s.C[i].th = co PROVE FALSE BY DEF Idle
  <2>1. s.L[co].status = "OK" /\ Len(s.L[co].ci) > 1 BY <1>1, <1>2, Busy
  <2>2. Len(s.L[co].ci) = 1 BY <2>1
  <2>3. ~(1 > 1) OBVIOUS
  <2> QED BY <2>1, <2>2, <2>3
<1>4. co # Main
  <2>1. s.C[1].th = Main /\ 1 \in 1..Len(s.C)
    <3>1. Chained(s.C, G, h) BY <1>1 DEF Body, Chain
    <3>2. 1 \in 1..Len(s.C) BY <1>1
    <3> QED BY <3>1, <3>2 DEF Chained
  <2> QED BY <1>3, <2>1 DEF Idle
<1> QED BY <1>2, <1>3, <1>4

\* Its counts change.
LEMMA IdleRecounts ==
  ASSUME NEW s, NEW G, NEW h, NEW b, NEW th, NEW co, Resuming(s, G, h, b, th, co), Idle(s, co), co # th, NEW cc \in Int
  PROVE  Resuming([s EXCEPT !.L[co].nC = cc, !.L[co].nny = 0], G, h, b, th, co)
<1> DEFINE u == [s EXCEPT !.L[co].nC = cc, !.L[co].nny = 0]   x == s.L[co]   y == u.L[co]   z == s.C[Len(s.C)]
<1>1. /\ Body(s, G, h, b) /\ State(s) /\ z.th = th /\ th \in Threads /\ Settled(s.L[th], z, G[Len(s.C)])
      /\ Stacked(x.ci, Len(x.stack), x.open) /\ Len(x.stack) \in Nat
  BY ResumingFacts
<1>2. CRuns(s, G, h, b, th) /\ z.at \in {"luaB_coresume", "luaB_auxwrap"} /\ z.co = co /\ z.status = "OK" /\ co \in Threads /\ Len(x.stack) # 0
  BY DEF Resuming
<1>3. Turns(s, u, co, x.status, x.ci, Len(x.stack), x.open, cc, 0)
  <2>1. 0 \in Int OBVIOUS
  <2> DEFINE e == 0
  <2>2. e \in Int OBVIOUS
  <2> HIDE DEF e
  <2>3. Turns(s, [s EXCEPT !.L[co].nC = cc, !.L[co].nny = e], co, x.status, x.ci, Len(x.stack), x.open, cc, e)
    BY <1>1, <1>2, <2>2, CountsSet, Zenon
  <2> QED BY <2>3 DEF e
<1> HIDE DEF u
<1>4. InThread(s, u, co) /\ u.C = s.C /\ y.status = x.status /\ y.ci = x.ci /\ Len(y.stack) = Len(x.stack) /\ y.open = x.open
  BY <1>3 DEF Turns, InThread
<1>5. Restacks(s, u, co)
  <2>1. x.open \subseteq 2..Len(x.stack) /\ x.ci[Len(x.ci)].func <= Len(x.stack)
    BY <1>1, <1>2 DEF Stacked
  <2> HIDE DEF x, y
  <2>2. y.open \subseteq 2..Len(y.stack) /\ Len(y.stack) \in Nat /\ Len(y.stack) # 0 /\ x.ci[Len(x.ci)].func <= Len(y.stack)
    BY <1>1, <1>2, <1>4, <2>1
  <2>3. (\A k \in 1..Len(s.C) : s.C[k].th # co) /\ (y.status = "YIELD" => x.status = "YIELD") /\ y.open \subseteq x.open
    BY <1>4 DEF Idle
  <2> QED BY <1>2, <1>4, <2>2, <2>3 DEF Restacks, x, y
<1>6. Body(u, G, h, b) BY <1>1, <1>5, BodyStack
<1>7. u.L[th] = s.L[th] BY <1>1, <1>4 DEF InThread
<1>8. Calm(u, G)
  <2>1. Calm(s, G) BY <1>2 DEF CRuns
  <2> QED BY <1>1, <1>4, <1>7, <2>1 DEF Calm
<1>9. CRuns(u, G, h, b, th)
  <2>1. z.at \in Callers BY <1>2 DEF Callers, CoCallers
  <2> QED BY <1>1, <1>4, <1>6, <1>8, <2>1 DEF CRuns
<1>10. Len(y.stack) # 0 BY <1>2, <1>4
<1>11. Resuming(u, G, h, b, th, co) BY <1>2, <1>4, <1>9, <1>10 DEF Resuming
<1> QED BY <1>11 DEF u

\* It is about to run.
Woken(s, co, cc) == [s EXCEPT !.L[co].nC = cc, !.L[co].nny = 0, !.L[co].status = "OK"]
\* Its frames and its stack are as they were.
LEMMA Wakes ==
  ASSUME NEW s, State(s), NEW co \in Threads, NEW cc \in Int
  PROVE  LET x == s.L[co] IN Turns(s, Woken(s, co, cc), co, "OK", x.ci, Len(x.stack), x.open, cc, 0)
<1> DEFINE v == [s EXCEPT !.L[co].nC = cc, !.L[co].nny = 0]   u == Woken(s, co, cc)   x == s.L[co]   e == 0
<1>1. e \in Int /\ "OK" \in Statuses BY DEF Statuses
<1>2. Turns(s, v, co, x.status, x.ci, Len(x.stack), x.open, cc, e)
  <2> HIDE DEF e
  <2>1. Turns(s, [s EXCEPT !.L[co].nC = cc, !.L[co].nny = e], co, x.status, x.ci, Len(x.stack), x.open, cc, e)
    BY <1>1, CountsSet, Zenon
  <2> QED BY <2>1 DEF e
<1>3. u = [v EXCEPT !.L[co].status = "OK"]
  BY DEF Woken
<1> HIDE DEF v, u, x, e
<1>4. State(v) /\ v.L[co].ci = x.ci /\ Len(v.L[co].stack) = Len(x.stack) /\ v.L[co].open = x.open /\ v.L[co].nC = cc /\ v.L[co].nny = e
  BY <1>2 DEF Turns, InThread
<1>5. Turns(v, u, co, "OK", x.ci, Len(x.stack), x.open, cc, e)
  <2>1. Turns(v, [v EXCEPT !.L[co].status = "OK"], co, "OK", v.L[co].ci, Len(v.L[co].stack), v.L[co].open, v.L[co].nC, v.L[co].nny)
    BY <1>1, <1>4, StatusSet
  <2> QED BY <1>3, <1>4, <2>1
<1>6. Turns(s, u, co, "OK", x.ci, Len(x.stack), x.open, cc, e)
  BY <1>2, <1>5, TurnsAgain
<1> QED BY <1>6 DEF u, x, e

\* lua_resume is on the C stack above what has called it.
Resumed(s, co, cc) ==
    LET u == Woken(s, co, cc) IN PushC(u, RawRun("lua_resume", u, co, 0))
\* The coroutine is above its lua_resume.
LEMMA ResumeEnters ==
  ASSUME NEW s, NEW G, NEW h, NEW b, NEW th, NEW co, Resuming(s, G, h, b, th, co), Idle(s, co), co # th, co # Main,
         s.L[co].status # "OK" \/ Len(s.L[co].ci) = 1, NEW cc, cc = s.L[th].nC + 1
  PROVE  LET u == Woken(s, co, cc)   v == Resumed(s, co, cc)   x == s.L[co]
         IN  /\ Turns(s, u, co, "OK", x.ci, Len(x.stack), x.open, cc, 0) /\ v.L = u.L /\ State(v)
             /\ v.C = Append(s.C, RawRun("lua_resume", u, co, 0))
             /\ \E G2 : /\ Body(v, G2, h, b) /\ Len(v.C) = Len(s.C) + 1 /\ Len(G2) = Len(v.C)
                        /\ v.C[Len(v.C)] = RawRun("lua_resume", u, co, 0)
                        /\ G2[Len(v.C)] = [d |-> 1, b |-> 0, c |-> cc, e |-> 0, j |-> Len(v.C)]
<1> DEFINE n == Len(s.C)   z == s.C[n]   k == G[n]   x == s.L[co]   q == x.ci   m == Len(x.stack)
           u == Woken(s, co, cc)   a == RawRun("lua_resume", u, co, 0)   v == PushC(u, a)   y == u.L[co]
           g == [d |-> 1, b |-> 0, c |-> cc, e |-> 0, j |-> n + 1]
<1>0. n = Len(s.C) /\ z = s.C[n] /\ k = G[n] /\ x = s.L[co] /\ q = x.ci /\ m = Len(x.stack) /\ y = u.L[co]
  OBVIOUS
<1>1. /\ n \in Nat /\ n \in 1..n /\ Len(G) = n /\ s.C \in Seq(Acts) /\ G \in Seq(Ghosts) /\ z \in Acts /\ k \in Ghosts
      /\ Body(s, G, h, b) /\ State(s) /\ z.th = th /\ th \in Threads /\ Settled(s.L[th], z, k)
      /\ IsThread(x) /\ ThreadInv(x) /\ Stacked(q, m, x.open) /\ m \in Nat
  BY ResumingFacts
<1>2. z.at \in {"luaB_coresume", "luaB_auxwrap"} /\ z.co = co /\ z.status = "OK" /\ co \in Threads /\ m # 0
  BY DEF Resuming
<1> HIDE DEF n, z, k, x, q, m, u, a, v, y, g
<1>3. s.L[th].nC = k.c /\ k.c \in Int /\ k.e \in Nat /\ cc = k.c + 1 /\ cc \in Int
  <2>1. s.L[th].nC = k.c BY <1>1 DEF Settled
  <2>2. k.c \in Int /\ k.e \in Nat BY <1>1 DEF Ghosts
  <2> DEFINE w == k.c
  <2>3. w \in Int /\ cc = w + 1 BY <2>1, <2>2
  <2> HIDE DEF w
  <2>4. cc \in Int BY <2>3
  <2> QED BY <2>1, <2>2, <2>3, <2>4 DEF w
<1>4. Turns(s, u, co, "OK", q, m, x.open, cc, 0)
  BY <1>0, <1>1, <1>2, <1>3, Wakes DEF u
<1>5. /\ InThread(s, u, co) /\ State(u) /\ u.C = s.C /\ u.gcstp = s.gcstp /\ (\A t \in Threads : t # co => u.L[t] = s.L[t])
      /\ y.status = "OK" /\ y.ci = q /\ Len(y.stack) = m /\ y.open = x.open /\ y.nC = cc /\ y.nny = 0 /\ y.errfunc \in Nat
  <2>1. /\ InThread(s, u, co) /\ State(u) /\ u.C = s.C /\ u.gcstp = s.gcstp /\ (\A t \in Threads : t # co => u.L[t] = s.L[t])
        /\ y.status = "OK" /\ y.ci = q /\ Len(y.stack) = m /\ y.open = x.open /\ y.nC = cc /\ y.nny = 0
    BY <1>0, <1>4 DEF Turns, InThread
  <2>2. y.errfunc \in Nat BY <1>0, <1>2, <2>1 DEF State, IsThread
  <2> QED BY <2>1, <2>2
<1>6. q \in Seq(Frames) /\ Len(q) \in Nat /\ Len(q) >= 1
  BY <1>1 DEF Stacked
<1>7. /\ a.at = "lua_resume" /\ a.th = co /\ a.status = "OK" /\ a.nC = cc /\ a.nny = 0 /\ a \in Acts
  <2>1. a = [at |-> "lua_resume", th |-> co, status |-> "OK", nC |-> cc, nny |-> 0, old_ci |-> Len(q), level |-> 0,
             errfunc |-> y.errfunc, closing |-> "OK"]
    BY <1>0, <1>5 DEF RawRun, a
  <2>2. 0 \in Int /\ 0 \in Nat /\ Len(q) \in Nat /\ "OK" \in Statuses /\ "OK" \in Ends BY <1>6 DEF Statuses, Ends
  <2> DEFINE l == Len(q)   f == y.errfunc
  <2>3. l \in Nat /\ f \in Nat BY <1>5, <2>2
  <2> HIDE DEF l, f
  <2>4. [at |-> "lua_resume", th |-> co, status |-> "OK", nC |-> cc, nny |-> 0, old_ci |-> l, level |-> 0,
             errfunc |-> f, closing |-> "OK"] \in RawActs
    BY <1>2, <1>3, <2>2, <2>3 DEF RawActs
  <2>5. a \in Acts BY <2>1, <2>4 DEF Acts, l, f
  <2> QED BY <2>1, <2>5
<1>8. g \in Ghosts /\ g.d = 1 /\ g.b = 0 /\ g.c = cc /\ g.e = 0 /\ g.j = n + 1
  BY <1>1, <1>3 DEF Ghosts, g
<1>9. v.L = u.L /\ v.gcstp = s.gcstp /\ State(v) /\ v.C = Append(s.C, a)
  BY <1>5 DEF PushC, State, StateFields, v
<1>10. Calls(s.C, G, a, g)
  <2>1. LinkThreads(z, a) BY <1>1, <1>2, <1>7 DEF LinkThreads, Switches
  <2>2. LinkKinds(z, a) BY <1>2, <1>7 DEF LinkKinds, MayCall, IsRawRun
  <2>3. LinkCounts(k, a, g) BY <1>3, <1>7, <1>8 DEF LinkCounts, Switches
  <2>4. LinkFrames(z, k, a, g) BY <1>2, <1>7, <1>8 DEF LinkFrames, Switches, Callers, CoCallers, PlainCallers
  <2>5. Own(a, g) /\ g.j = Target(a, n + 1, k.j)
    BY <1>7, <1>8 DEF Own, Target, IsRawRun
  <2>6. Link(z, k, a, g) BY <2>1, <2>2, <2>3, <2>4 DEF Link
  <2>7. a.at \in Switches => a.th # Main BY <1>7
  <2>8. a.th # s.C[n].th => \A i \in 1..n : s.C[i].th # a.th BY <1>0, <1>7 DEF Idle
  <2> QED BY <1>0, <1>7, <1>8, <2>5, <2>6, <2>7, <2>8 DEF Calls
<1>11. Sound(v.L[co].ci, v.L[co].open, a, g)
  <2>1. v.L[co].ci = q BY <1>0, <1>5, <1>9
  <2>2. g.d <= Len(q) BY <1>6, <1>8
  <2>3. g.d - 1 = 0 /\ 2..0 = {} BY <1>8
  <2> QED BY <1>7, <2>1, <2>2, <2>3 DEF Sound, Floored, Levelled, Callers, CoCallers, PlainCallers
<1>12. ThreadInv(v.L[co])
  <2>1. Stacked(y.ci, Len(y.stack), y.open) BY <1>1, <1>5
  <2>2. v.L[co] = y BY <1>0, <1>9
  <2> QED BY <1>5, <2>1, <2>2 DEF ThreadInv, Suspended
<1>13. Body(v, Append(G, g), h, b)
  <2>1. a.at \in Switches BY <1>7 DEF Switches
  <2>2. \A t \in Threads : t # a.th => v.L[t] = s.L[t] BY <1>5, <1>7, <1>9
  <2>3. IF a.th = s.C[Len(s.C)].th THEN a.at = "lua_closethread" ELSE Settled(s.L[s.C[Len(s.C)].th], s.C[Len(s.C)], G[Len(G)])
    BY <1>0, <1>1, <1>7
  <2>4. ThreadInv(v.L[a.th]) /\ Sound(v.L[a.th].ci, v.L[a.th].open, a, g) BY <1>7, <1>11, <1>12
  <2>5. Body(s, G, h, b) /\ State(v) /\ v.C = Append(s.C, a) /\ v.gcstp = s.gcstp /\ Calls(s.C, G, a, g) BY <1>1, <1>9, <1>10
  <2> QED BY <2>1, <2>2, <2>3, <2>4, <2>5, BodySwitch
<1>14. Len(v.C) = n + 1 /\ Len(Append(G, g)) = n + 1 /\ v.C[n + 1] = a /\ Append(G, g)[n + 1] = g
  BY <1>0, <1>1, <1>7, <1>8, <1>9, AppendAct
<1>15. g = [d |-> 1, b |-> 0, c |-> cc, e |-> 0, j |-> Len(v.C)] BY <1>14 DEF g
<1>16. v = Resumed(s, co, cc) BY DEF Resumed, v, u, a
<1> QED BY <1>0, <1>4, <1>9, <1>13, <1>14, <1>15, <1>16, Zenon DEF u, a

\* A coroutine that has not run has nothing open.
LEMMA NothingOpen ==
  ASSUME NEW q, NEW n, NEW O, Stacked(q, n, O), Len(q) = 1
  PROVE  O = {}
<1> SUFFICES ASSUME NEW o \in O PROVE FALSE
  OBVIOUS
<1>1. q \in Seq(Frames) /\ n \in Nat /\ O \subseteq 2..n /\ q[1].func = 1 /\ ~q[1].lua /\ ~q[1].ypcall /\ 1 \in 1..Len(q)
  BY DEF Stacked
<1>2. q[1] \in Frames BY <1>1
<1>3. CFrameOf(q, O, 1) BY <1>1 DEF Stacked, FrameInv
<1>4. q[1].recst = "OK" BY <1>1, <1>3 DEF CFrameOf
<1>5. q[1] = q[Len(q)] OBVIOUS
<1>6. o < q[1].func \/ q[1].recst # "OK"
  BY <1>1, <1>2, <1>5, OpenInC
<1>7. o \in 2..n /\ o < 1 BY <1>1, <1>4, <1>6
<1> QED BY <1>1, <1>7

\* It begins.
LEMMA ResumeBegins ==
  ASSUME NEW s, NEW G, NEW h, NEW b, NEW th, NEW co, Resuming(s, G, h, b, th, co), s.L[co].status = "OK", Len(s.L[co].ci) = 1,
         Len(s.L[co].stack) # 1, NEW cc, cc = s.L[th].nC + 1
  PROVE  LET v == Resumed(s, co, cc) IN Holds(ccall(v, co, top(v, co), 0, 0, 0), h, b)
<1> DEFINE n == Len(s.C)   l == n + 1   x == s.L[co]   q == x.ci   m == Len(x.stack)
           u == Woken(s, co, cc)   a == RawRun("lua_resume", u, co, 0)   v == Resumed(s, co, cc)   y == v.L[co]
           g == [d |-> 1, b |-> 0, c |-> cc, e |-> 0, j |-> Len(v.C)]
<1>0. n = Len(s.C) /\ l = n + 1 /\ x = s.L[co] /\ q = x.ci /\ m = Len(x.stack) /\ Len(q) = 1 /\ m # 1 /\ x.status = "OK" /\ y = v.L[co]
  OBVIOUS
<1>1. Idle(s, co) /\ co # th /\ co # Main
  <2>1. ~(s.L[co].status = "OK" /\ Len(s.L[co].ci) # 1) OBVIOUS
  <2> QED BY <2>1, IsIdle
<1>2. /\ n \in Nat /\ Stacked(q, m, x.open) /\ m \in Nat /\ s.C \in Seq(Acts)
  BY ResumingFacts
<1>3. co \in Threads /\ m # 0 BY DEF Resuming
<1>4. /\ Turns(s, u, co, "OK", q, m, x.open, cc, 0) /\ v.L = u.L /\ v.C = Append(s.C, a)
      /\ \E G2 : /\ Body(v, G2, h, b) /\ Len(v.C) = l /\ Len(G2) = Len(v.C) /\ v.C[Len(v.C)] = a /\ G2[Len(v.C)] = g
  <2>1. s.L[co].status # "OK" \/ Len(s.L[co].ci) = 1 OBVIOUS
  <2> HIDE DEF u, v, a
  <2> QED BY <1>1, <2>1, ResumeEnters DEF u, v, a
<1>5. a.at = "lua_resume" /\ a.th = co /\ a.status = "OK" BY DEF RawRun
<1>6. x.open = {} BY <1>2, NothingOpen
<1> HIDE DEF n, l, x, q, m, u, a, v, y
<1>7. PICK G2 : Body(v, G2, h, b) /\ Len(v.C) = l /\ v.C[Len(v.C)] = a /\ G2[Len(v.C)] = g
  BY <1>4
<1>8. y.status = "OK" /\ y.ci = q /\ Len(y.stack) = m /\ y.open = {} /\ y.nC = cc /\ y.nny = 0
  BY <1>0, <1>4, <1>6 DEF Turns
<1>9. g.d = 1 /\ g.c = cc /\ g.e = 0 OBVIOUS
<1> HIDE DEF g
<1>10. Settled(y, a, g)
  BY <1>0, <1>5, <1>8, <1>9 DEF Settled
<1>11. \A i \in 1..l : v.C[i].th = co => i = l
  <2> SUFFICES ASSUME NEW i \in 1..l, v.C[i].th = co, i # l PROVE FALSE OBVIOUS
  <2>1. i \in 1..n BY <1>0, <1>2
  <2>2. v.C[i] = s.C[i] BY <1>0, <1>2, <1>4, <2>1
  <2> QED BY <1>0, <1>1, <2>1, <2>2 DEF Idle
<1>12. Room(v.C, G2, q, {}, m)
  <2>1. q[1].func = 1 /\ ~q[1].ypcall BY <1>2 DEF Stacked
  <2>2. m > 1
    <3>1. m \in Nat /\ m # 0 /\ m # 1 BY <1>0, <1>2, <1>3
    <3> QED BY <3>1
  <2>3. \A i \in 1..l : v.C[i].th = co => ~Levelled(v.C[i])
    <3>1. v.C[l] = a BY <1>7
    <3> QED BY <1>5, <1>11, <3>1 DEF Levelled
  <2> QED BY <1>0, <1>2, <1>5, <1>7, <2>1, <2>2, <2>3 DEF Room
<1>13. Poised(v, G2, h, b, m)
  <2>1. m <= m BY <1>2
  <2> QED BY <1>0, <1>5, <1>7, <1>8, <1>10, <1>12, <2>1 DEF Poised
<1>14. CanCall(v, G2, 0, 0)
  <2>1. MayCall("lua_resume", "ccall") BY DEF MayCall
  <2> QED BY <1>5, <1>7, <1>9, <2>1 DEF CanCall
<1>15. Holds(ccall(v, co, m, 0, 0, 0), h, b)
  <2>1. co = v.C[Len(v.C)].th BY <1>5, <1>7
  <2> QED BY <1>13, <1>14, <2>1, CCall
<1>16. top(v, co) = m BY <1>0, <1>8 DEF top
<1> QED BY <1>15, <1>16 DEF v

\* unroll is called.
LEMMA UnrollCalled ==
  ASSUME NEW r, NEW G, NEW h, NEW b, Body(r, G, h, b), NEW a, a = r.C[Len(r.C)], a.at = "lua_resume", a.status = "OK",
         NEW k, k = G[Len(r.C)], NEW th, th = a.th,
         r.L[th].status = "OK", r.L[th].nC = k.c, r.L[th].nny = 0, \A i \in 2..(Len(r.L[th].ci) - 1) : Passes(r.L[th].ci[i])
  PROVE  LET u == PushC(r, Activation("unroll", th)) IN (\E G2 : Unrolls(u, G2, h, b, th)) /\ u.L = r.L
<1> DEFINE n == Len(r.C)   o == Activation("unroll", th)   g == [d |-> 1, b |-> 0, c |-> k.c, e |-> k.e, j |-> k.j]   u == PushC(r, o)
           x == r.L[th]   q == x.ci
<1>0. n = Len(r.C) /\ x = r.L[th] /\ q = x.ci
  BY Zenon
<1>1. /\ n \in Nat /\ n \in 1..n /\ State(r) /\ Len(G) = n /\ r.C \in Seq(Acts) /\ G \in Seq(Ghosts) /\ a \in Acts /\ k \in Ghosts /\ th \in Threads
      /\ Own(a, k) /\ q \in Seq(Frames) /\ Len(q) \in Nat /\ Len(q) >= 1
  BY TopFacts, Zenon
<1> HIDE DEF n, x, q
<1>2. k.d = 1 /\ k.e = 0 /\ k.c \in Int /\ k.e \in Nat /\ k.j \in Nat
  BY <1>1, Zenon DEF Own, Ghosts
<1>3. o \in Acts /\ o.at = "unroll" /\ o.th = th
  BY <1>1, Zenon DEF Activation, Acts, PlainActs
<1>4. g \in Ghosts /\ g.d = 1 /\ g.b = 0 /\ g.c = k.c /\ g.e = k.e /\ g.j = k.j
  BY <1>2 DEF Ghosts
<1> HIDE DEF o, g
<1>5. Calls(r.C, G, o, g)
  <2>1. Link(a, k, o, g)
    <3>1. LinkThreads(a, o) BY <1>3, Zenon DEF LinkThreads, Switches
    <3>2. LinkKinds(a, o) BY <1>3, Zenon DEF LinkKinds, MayCall
    <3>3. LinkCounts(k, o, g)
      <4>1. k.c + 0 = k.c BY <1>2
      <4> QED BY <1>3, <1>4, <4>1, Zenon DEF LinkCounts, Switches
    <3>4. LinkFrames(a, k, o, g) BY <1>3, <1>4, Zenon DEF LinkFrames, Callers, CoCallers, PlainCallers
    <3> QED BY <3>1, <3>2, <3>3, <3>4, Zenon DEF Link
  <2>2. Own(o, g) BY <1>2, <1>3, <1>4, Zenon DEF Own, IsRawRun
  <2>3. g.j = Target(o, n + 1, G[n].j) BY <1>0, <1>3, <1>4, Zenon DEF Target, IsRawRun
  <2>4. o.at \notin Switches /\ o.th = r.C[Len(r.C)].th BY <1>3, Zenon DEF Switches
  <2> QED BY <1>0, <1>3, <1>4, <2>1, <2>2, <2>3, <2>4, Zenon DEF Calls
<1>6. State(u) /\ u.L = r.L /\ u.gcstp = r.gcstp /\ u.C = Append(r.C, o)
  BY <1>1, Zenon DEF State, StateFields, PushC
<1> HIDE DEF u
<1>7. Sound(q, x.open, o, g)
  <2>1. g.d = 1 /\ 1 <= Len(q) /\ g.d - 1 = 0 /\ 2..0 = {} BY <1>1, <1>4
  <2>2. ~Floored(o) /\ ~Levelled(o) /\ o.at \notin Callers /\ o.at \notin {"lua_closethread", "execute", "ccall", "luaF_close"}
    BY <1>3, Zenon DEF Floored, Levelled, Callers, CoCallers, PlainCallers
  <2> QED BY <2>1, <2>2, Zenon DEF Sound
<1>8. Body(u, Append(G, g), h, b)
  <2>1. InC(r, u) BY <1>6, Zenon DEF InC
  <2>2. Sound(r.L[o.th].ci, r.L[o.th].open, o, g) BY <1>0, <1>3, <1>7, Zenon
  <2>3. o.th = r.C[Len(r.C)].th BY <1>3, Zenon
  <2> QED BY <1>5, <1>6, <2>1, <2>2, <2>3, BodyPush, Zenon
<1>9. Len(u.C) = n + 1 /\ u.C[n + 1] = o /\ Append(G, g)[n + 1] = g
  BY <1>0, <1>1, <1>3, <1>4, <1>6, AppendAct
<1>10. Settled(u.L[th], o, g)
  <2>1. u.L[th] = x /\ x.status = "OK" /\ x.nC = g.c /\ x.nny = g.e BY <1>0, <1>2, <1>4, <1>6, Zenon
  <2>2. \A i \in 2..(Len(q) - 1) : Passes(q[i]) BY <1>0
  <2> QED BY <1>0, <1>3, <2>1, <2>2, Zenon DEF Settled, IsRawRun
<1>11. Unrolls(u, Append(G, g), h, b, th)
  BY <1>3, <1>8, <1>9, <1>10, Zenon DEF Unrolls, Runs
<1> QED BY <1>6, <1>11, Zenon DEF u, o

\* It goes on after a yield.
LEMMA ResumeContinues ==
  ASSUME NEW s, NEW G, NEW h, NEW b, NEW th, NEW co, Resuming(s, G, h, b, th, co), s.L[co].status = "YIELD",
         NEW cc, cc = s.L[th].nC + 1
  PROVE  Holds(luaD_poscall(PushC(Resumed(s, co, cc), Activation("unroll", co)), co), h, b)
<1> DEFINE n == Len(s.C)   l == n + 1   x == s.L[co]   q == x.ci   m == Len(q)
           u == Woken(s, co, cc)   a == RawRun("lua_resume", u, co, 0)   v == Resumed(s, co, cc)   y == v.L[co]
           g == [d |-> 1, b |-> 0, c |-> cc, e |-> 0, j |-> Len(v.C)]   w == PushC(v, Activation("unroll", co))
<1>0. n = Len(s.C) /\ l = n + 1 /\ x = s.L[co] /\ q = x.ci /\ m = Len(q) /\ x.status = "YIELD" /\ y = v.L[co]
  OBVIOUS
<1>1. Idle(s, co) /\ co # th /\ co # Main
  <2>1. ~(s.L[co].status = "OK" /\ Len(s.L[co].ci) # 1) OBVIOUS
  <2> QED BY <2>1, IsIdle
<1>2. ThreadInv(x) /\ Stacked(q, Len(x.stack), x.open)
  BY ResumingFacts
<1>3. m > 1 /\ ~q[m].lua /\ ~q[m].ypcall /\ \A i \in 2..(m - 1) : Passes(q[i])
  BY <1>0, <1>2 DEF ThreadInv, Suspended
<1>4. /\ Turns(s, u, co, "OK", q, Len(x.stack), x.open, cc, 0) /\ v.L = u.L
      /\ \E G2 : /\ Body(v, G2, h, b) /\ Len(v.C) = l /\ Len(G2) = Len(v.C) /\ v.C[Len(v.C)] = a /\ G2[Len(v.C)] = g
  <2>1. s.L[co].status # "OK" \/ Len(s.L[co].ci) = 1 OBVIOUS
  <2> HIDE DEF u, v, a
  <2> QED BY <1>1, <2>1, ResumeEnters DEF u, v, a
<1>5. a.at = "lua_resume" /\ a.th = co /\ a.status = "OK" BY DEF RawRun
<1> HIDE DEF n, l, x, q, m, u, a, v, y, w
<1>6. PICK G2 : Body(v, G2, h, b) /\ v.C[Len(v.C)] = a /\ G2[Len(v.C)] = g
  BY <1>4
<1>7. y.status = "OK" /\ y.ci = q /\ y.nC = cc /\ y.nny = 0
  BY <1>0, <1>4 DEF Turns
<1>8. g.c = cc OBVIOUS
<1> HIDE DEF g
<1>9. (\E G3 : Unrolls(w, G3, h, b, co)) /\ w.L = v.L
  <2>1. \A i \in 2..(Len(v.L[co].ci) - 1) : Passes(v.L[co].ci[i]) BY <1>0, <1>3, <1>7
  <2>2. a = v.C[Len(v.C)] /\ g = G2[Len(v.C)] /\ co = a.th /\ v.L[co].status = "OK" /\ v.L[co].nC = g.c /\ v.L[co].nny = 0
    BY <1>0, <1>5, <1>6, <1>7, <1>8
  <2>3. LET r == PushC(v, Activation("unroll", co)) IN (\E G3 : Unrolls(r, G3, h, b, co)) /\ r.L = v.L
    BY <1>5, <1>6, <2>1, <2>2, UnrollCalled
  <2> QED BY <2>3 DEF w
<1>10. q[m].recst = "OK"
  <2>1. m \in 1..Len(q)
    <3>1. q \in Seq(Frames) /\ Len(q) >= 1 BY <1>2 DEF Stacked
    <3> QED BY <1>0, <3>1
  <2>2. CFrameOf(q, x.open, m) BY <1>2, <2>1 DEF Stacked, FrameInv
  <2> QED BY <1>3, <2>2 DEF CFrameOf
<1>11. Holds(luaD_poscall(w, co), h, b)
  <2>1. PICK G3 : Unrolls(w, G3, h, b, co) BY <1>9
  <2>2. w.L[co].ci = q BY <1>0, <1>7, <1>9
  <2> DEFINE f == q[m]
  <2>3. f = w.L[co].ci[Len(w.L[co].ci)] /\ ~f.lua /\ f.recst = "OK" /\ ~f.ypcall /\ Len(w.L[co].ci) > 1
    BY <1>0, <1>3, <1>10, <2>2, Zenon
  <2> HIDE DEF f
  <2> QED BY <2>1, <2>3, UnrollDrops
<1> QED BY <1>11 DEF w, v

\* lua_resume.
LEMMA ResumeCalled ==
  ASSUME NEW s, NEW G, NEW h, NEW b, NEW th, NEW co, Resuming(s, G, h, b, th, co)
  PROVE  Holds(lua_resume(s, co, th), h, b)
<1> DEFINE x == s.L[co]   cc == s.L[th].nC   t == [s EXCEPT !.L[co].nC = cc, !.L[co].nny = 0]   v == Resumed(s, co, cc + 1)
           A == x.status = "OK" /\ Len(x.ci) # 1   B == x.status \in Failures \/ (x.status = "OK" /\ Len(x.stack) = 1)
           D == cc >= LUAI_MAXCCALLS
<1>1. lua_resume(s, co, th) = IF A THEN resume_error(s, co, "non_suspended_coroutine")
                              ELSE IF B THEN resume_error(s, co, "dead_coroutine")
                              ELSE IF D THEN resume_error(t, co, "C_stack_overflow")
                              ELSE IF x.status = "OK" THEN ccall(v, co, top(v, co), 0, 0, 0)
                              ELSE luaD_poscall(PushC(v, Activation("unroll", co)), co)
  BY DEF lua_resume, Resumed, Woken, top
<1>2. Holds(resume_error(s, co, "non_suspended_coroutine"), h, b) /\ Holds(resume_error(s, co, "dead_coroutine"), h, b)
  BY ResumeRefused
<1>3. ASSUME ~A PROVE Holds(resume_error(t, co, "C_stack_overflow"), h, b)
  <2>1. Idle(s, co) /\ co # th BY <1>3, IsIdle
  <2>2. cc \in Int
    <3>1. State(s) /\ th \in Threads BY ResumingFacts
    <3> QED BY <3>1 DEF State, IsThread
  <2> HIDE DEF cc
  <2>3. Resuming(t, G, h, b, th, co) BY <2>1, <2>2, IdleRecounts, Zenon
  <2> HIDE DEF t
  <2> QED BY <2>3, ResumeRefused
<1>4. ASSUME ~A, ~B, x.status = "OK" PROVE Holds(ccall(v, co, top(v, co), 0, 0, 0), h, b)
  <2>1. s.L[co].status = "OK" /\ Len(s.L[co].ci) = 1 /\ Len(s.L[co].stack) # 1 BY <1>4
  <2> DEFINE e == cc + 1
  <2>2. e = s.L[th].nC + 1 OBVIOUS
  <2> HIDE DEF e, v
  <2>3. Holds(ccall(Resumed(s, co, e), co, top(Resumed(s, co, e), co), 0, 0, 0), h, b) BY <2>1, <2>2, ResumeBegins
  <2> QED BY <2>3 DEF v, e
<1>5. ASSUME ~B, x.status # "OK" PROVE Holds(luaD_poscall(PushC(v, Activation("unroll", co)), co), h, b)
  <2>1. s.L[co].status = "YIELD"
    <3>1. IsThread(x) BY ResumingFacts
    <3> QED BY <1>5, <3>1 DEF IsThread, Statuses
  <2> DEFINE e == cc + 1
  <2>2. e = s.L[th].nC + 1 OBVIOUS
  <2> HIDE DEF e, v
  <2>3. Holds(luaD_poscall(PushC(Resumed(s, co, e), Activation("unroll", co)), co), h, b) BY <2>1, <2>2, ResumeContinues
  <2> QED BY <2>3 DEF v, e
<1> HIDE DEF A, B, D, v, t
<1> QED BY <1>1, <1>2, <1>3, <1>4, <1>5

\* Lua code resumes a coroutine.
LEMMA CallsResume ==
  ASSUME NEW s, NEW G, NEW h, NEW b, NEW th, LuaRuns(s, G, h, b, th), NEW at \in {"luaB_coresume", "luaB_auxwrap"}, NEW co \in Threads,
         s.L[co].stack # << >>
  PROVE  Holds(lua_resume(CallCo(s, th, at, co), co, th), h, b)
<1> DEFINE u == CallCo(s, th, at, co)   a == [at |-> at, th |-> th, co |-> co, status |-> "OK"]
<1>1. at \in CoCallers BY DEF CoCallers
<1>2. /\ \E G2 : CRuns(u, G2, h, b, th)
      /\ u.C[Len(u.C)] = a /\ a.at = at /\ a.co = co /\ a.status = "OK" /\ a.th = th
      /\ (\A t \in Threads : t # th => u.L[t] = s.L[t]) /\ Len(u.L[th].stack) # 0
  <2> HIDE DEF u, a
  <2>1. LET r == CallCo(s, th, at, co)   e == [at |-> at, th |-> th, co |-> co, status |-> "OK"]
        IN  /\ \E G2 : CRuns(r, G2, h, b, th)
            /\ r.C[Len(r.C)] = e /\ e.at = at /\ e.co = co /\ e.status = "OK" /\ e.th = th
            /\ (\A t \in Threads : t # th => r.L[t] = s.L[t]) /\ Len(r.L[th].stack) # 0
    BY <1>1, CallsInto
  <2> QED BY <2>1 DEF u, a
<1> HIDE DEF u, a
<1>3. PICK G2 : CRuns(u, G2, h, b, th) BY <1>2
<1>4. Len(u.L[co].stack) # 0
  <2>1. CASE co = th BY <1>2, <2>1
  <2>2. CASE co # th
    <3>1. u.L[co] = s.L[co] BY <1>2, <2>2
    <3>2. State(s) BY LuaFacts
    <3>3. PICK V : s.L[co].stack \in Seq(V) BY <3>2 DEF State, IsThread
    <3>4. Len(s.L[co].stack) # 0
      <4> DEFINE q == s.L[co].stack
      <4>1. q \in Seq(V) /\ q # << >> BY <3>3
      <4> HIDE DEF q
      <4>2. Len(q) # 0 BY <4>1
      <4> QED BY <4>2 DEF q
    <3> QED BY <3>1, <3>4
  <2> QED BY <2>1, <2>2
<1>5. Resuming(u, G2, h, b, th, co)
  BY <1>2, <1>3, <1>4 DEF Resuming
<1>6. Holds(lua_resume(u, co, th), h, b) BY <1>5, ResumeCalled
<1> QED BY <1>6 DEF u

\* Lua code closes a coroutine, or may not.
LEMMA CallsClose ==
  ASSUME NEW s, NEW G, NEW h, NEW b, NEW th, LuaRuns(s, G, h, b, th), NEW co \in Threads
  PROVE  Holds(luaB_close(s, th, co), h, b)
<1> DEFINE u == CallCo(s, th, "luaB_close", co)   a == [at |-> "luaB_close", th |-> th, co |-> co, status |-> "OK"]
           st == auxstatus(s, th, co)
<1>1. /\ \E G2 : CRuns(u, G2, h, b, th)
      /\ u.C[Len(u.C)] = a /\ a.at = "luaB_close" /\ a.co = co /\ a.th = th
      /\ (\A t \in Threads : t # th => u.L[t] = s.L[t])
  <2> DEFINE at == "luaB_close"
  <2>1. at \in CoCallers BY DEF CoCallers
  <2> HIDE DEF u, a, at
  <2>2. LET r == CallCo(s, th, at, co)   e == [at |-> at, th |-> th, co |-> co, status |-> "OK"]
        IN  /\ \E G2 : CRuns(r, G2, h, b, th)
            /\ r.C[Len(r.C)] = e /\ e.at = at /\ e.co = co /\ e.th = th
            /\ (\A t \in Threads : t # th => r.L[t] = s.L[t])
    BY <2>1, CallsInto
  <2> QED BY <2>2 DEF u, a, at
<1>2. \A text : Holds(luaG_runerror(u, th, text), h, b)
  <2> SUFFICES ASSUME NEW text PROVE Holds(luaG_runerror(u, th, text), h, b) OBVIOUS
  <2> HIDE DEF u, a
  <2>1. PICK G2 : CRuns(u, G2, h, b, th) BY <1>1
  <2>2. u.C[Len(u.C)].at \in CoCallers BY <1>1 DEF CoCallers
  <2>3. Holds(luaG_errormsg(push(u, th, Message(text)), th), h, b) BY <2>1, <2>2, Propagates
  <2> QED BY <2>3 DEF luaG_runerror
<1>3. ASSUME st \in {"dead", "suspended"} \/ (st = "running" /\ co # Main) PROVE Holds(lua_closethread(u, co, th), h, b)
  <2> HIDE DEF u, a
  <2>1. PICK G2 : CRuns(u, G2, h, b, th) BY <1>1
  <2>2. /\ Body(u, G2, h, b) /\ Settled(u.L[th], u.C[Len(u.C)], G2[Len(u.C)])
    BY <1>1, <2>1 DEF CRuns, Calm
  <2>3. co = th => st = "running" BY DEF auxstatus
  <2>4. co = th \/ \A i \in 1..Len(u.C) : u.C[i].th # co
    <3> SUFFICES ASSUME co # th, NEW i \in 1..Len(u.C), u.C[i].th = co PROVE FALSE OBVIOUS
    <3>1. u.L[co].status = "OK" /\ Len(u.L[co].ci) > 1 BY <1>1, <2>2, Busy
    <3>2. s.L[co].status = "OK" /\ Len(s.L[co].ci) > 1 BY <1>1, <3>1
    <3>3. st = "normal" BY <3>2 DEF auxstatus
    <3> QED BY <1>3, <3>3
  <2>5. co # Main
    <3>1. CASE co = th BY <1>3, <2>3, <3>1
    <3>2. CASE co # th
      <4>1. Chained(u.C, G2, h) /\ Len(u.C) \in Nat /\ Len(u.C) >= 1
        <5>1. Chained(u.C, G2, h) BY <2>2 DEF Body, Chain
        <5> QED BY <2>2, <5>1, TopFacts, Zenon
      <4>2. u.C[1].th = Main /\ 1 \in 1..Len(u.C) BY <4>1 DEF Chained
      <4> QED BY <2>4, <3>2, <4>2
    <3> QED BY <3>1, <3>2
  <2>6. ClosesCo(u, G2, th, co)
    BY <1>1, <2>2, <2>4, <2>5 DEF ClosesCo
  <2> QED BY <2>2, <2>6, ClosesThread
<1> HIDE DEF u, a
<1>4. luaB_close(s, th, co) =
          CASE st \in {"dead", "suspended"} \/ (st = "running" /\ co # Main) -> lua_closethread(u, co, th)
            [] st = "normal" -> luaG_runerror(u, th, "normal_coroutine")
            [] OTHER -> luaG_runerror(u, th, "main_thread")
  BY DEF luaB_close, u
<1> HIDE DEF st
<1>5. CASE st \in {"dead", "suspended"} \/ (st = "running" /\ co # Main)
  <2>1. luaB_close(s, th, co) = lua_closethread(u, co, th) BY <1>4, <1>5
  <2> QED BY <1>3, <1>5, <2>1
<1>6. CASE ~(st \in {"dead", "suspended"} \/ (st = "running" /\ co # Main)) /\ st = "normal"
  <2>1. luaB_close(s, th, co) = luaG_runerror(u, th, "normal_coroutine") BY <1>4, <1>6
  <2> QED BY <1>2, <2>1
<1>7. CASE ~(st \in {"dead", "suspended"} \/ (st = "running" /\ co # Main)) /\ st # "normal"
  <2>1. luaB_close(s, th, co) = luaG_runerror(u, th, "main_thread") BY <1>4, <1>7
  <2> QED BY <1>2, <2>1
<1> QED BY <1>5, <1>6, <1>7

-----------------------------------------------------------------------------
(* The steps of the program.                                                *)

\* Whatever a function of the code gives becomes the state.
LEMMA Becoming ==
  ASSUME NEW u, NEW b, Holds(u, program.host, b), Become(u)
  PROVE  Holds(Now', program.host', b)
<1> DEFINE w == [L |-> u.L, C |-> u.C, gcstp |-> u.gcstp, variables |-> u.variables, errors |-> u.errors,
                 scopes |-> u.scopes, result |-> u.result]
<1>1. Now' = w /\ program' = program BY DEF Become, Now
<1>2. w.L = u.L /\ w.C = u.C /\ w.gcstp = u.gcstp /\ DOMAIN w = StateFields BY DEF StateFields
<1> HIDE DEF w
<1>3. PICK G : Body(u, G, program.host, b) BY DEF Holds
<1>4. State(u) BY <1>3 DEF Body
<1>5. State(w) BY <1>2, <1>4 DEF State
<1>6. Same(u, w) BY <1>2, <1>5 DEF Same, InC
<1>7. Holds(w, program.host, b) BY <1>6, HoldsSame
<1>8. program.host' = program.host BY <1>1
<1> QED BY <1>1, <1>7, <1>8

\* luaV_execute is on the top of the C stack.
LEMMA Executes ==
  ASSUME NEW s, NEW h, NEW b, Holds(s, h, b), Top(s).at = "execute"
  PROVE  \E G : LuaRuns(s, G, h, b, Top(s).th)
<1>1. PICK G : Body(s, G, h, b) /\ Running(s, G) BY DEF Holds
<1>2. Top(s) = s.C[Len(s.C)] /\ Len(G) = Len(s.C) BY <1>1, TopFacts, Zenon
<1>3. s.C[Len(s.C)].at = "execute" BY <1>2
<1>4. ~IsRawRun(s.C[Len(s.C)]) BY <1>3 DEF IsRawRun
<1>5. Settled(s.L[s.C[Len(s.C)].th], s.C[Len(s.C)], G[Len(s.C)]) BY <1>1, <1>4 DEF Running, Thrown
<1> QED BY <1>1, <1>2, <1>3, <1>5 DEF LuaRuns

\* The frame of the function that runs.
LEMMA FrameIs ==
  ASSUME NEW s, NEW G, NEW h, NEW b, NEW th, LuaRuns(s, G, h, b, th)
  PROVE  ci(s, th) = s.L[th].ci[Len(s.L[th].ci)] /\ ci(s, th).func \in Nat
<1>1. Body(s, G, h, b) /\ s.C[Len(s.C)].th = th BY DEF LuaRuns
<1>2. Last(s.L[th].ci) = s.L[th].ci[Len(s.L[th].ci)] /\ s.L[th].ci[Len(s.L[th].ci)] \in Frames BY <1>1, TopFacts, Zenon
<1> QED BY <1>2 DEF ci, Frames

\* A variable to be closed is declared.
LEMMA NewVariableHolds ==
  ASSUME NEW b, Holds(Now, program.host, b), NEW closable \in BOOLEAN, NewVariable(closable)
  PROVE  Holds(Now', program.host', b)
<1> DEFINE u == [push(Now, self, Closable(variables + 1)) EXCEPT !.variables = @ + 1]
           w == luaF_newtbcupval(u, self, top(u, self))
           sc == Append(w.scopes[self], S!Variable(w.variables))
<1>1. Top(Now).at = "execute" BY DEF NewVariable, Op, Executing
<1>2. PICK G : LuaRuns(Now, G, program.host, b, self) BY <1>1, Executes DEF self
<1>3. /\ \A x : Holds([w EXCEPT !.scopes[self] = x], program.host, b)
      /\ \A text : Holds(luaG_runerror(u, self, text), program.host, b)
  BY <1>2, Declares
<1>4. Become(IF closable THEN [w EXCEPT !.scopes[self] = Append(@, S!Variable(w.variables))]
             ELSE luaG_runerror(u, self, "non_closable_value")) BY DEF NewVariable
<1> HIDE DEF u, w
<1>5. CASE closable
  <2>1. Become([w EXCEPT !.scopes[self] = sc]) BY <1>4, <1>5
  <2>2. Holds([w EXCEPT !.scopes[self] = sc], program.host, b) BY <1>3
  <2> QED BY <2>1, <2>2, Becoming
<1>6. CASE ~closable
  <2>1. Become(luaG_runerror(u, self, "non_closable_value")) BY <1>4, <1>6
  <2>2. Holds(luaG_runerror(u, self, "non_closable_value"), program.host, b) BY <1>3
  <2> QED BY <2>1, <2>2, Becoming
<1> QED BY <1>5, <1>6

\* A local variable is captured.
LEMMA CaptureHolds ==
  ASSUME NEW b, Holds(Now, program.host, b), Capture
  PROVE  Holds(Now', program.host', b)
<1> DEFINE u == push(Now, self, Function)
<1>1. Top(Now).at = "execute" /\ frame.op = "none" BY DEF Capture, Op, Executing
<1>2. PICK G : LuaRuns(Now, G, program.host, b, self) BY <1>1, Executes DEF self
<1>3. frame = Now.L[self].ci[Len(Now.L[self].ci)] BY <1>2, FrameIs DEF frame
<1>4. Now.L[self].ci[Len(Now.L[self].ci)].op # "OP_CLOSE" BY <1>1, <1>3
<1>5. Holds(luaF_findupval(u, self, top(u, self)), program.host, b) BY <1>2, <1>4, Captures
<1>6. Become(luaF_findupval(u, self, top(u, self))) BY DEF Capture
<1> HIDE DEF u
<1> QED BY <1>5, <1>6, Becoming

\* A block ends: its variables are closed ...
LEMMA OP_CLOSEHolds ==
  ASSUME NEW b, Holds(Now, program.host, b), NEW level \in Nat, OP_CLOSE(level)
  PROVE  Holds(Now', program.host', b)
<1> DEFINE u == luaF_close(setci(Now, self, [frame EXCEPT !.op = "OP_CLOSE", !.level = level]), self, level, "OK", TRUE)
<1>1. Top(Now).at = "execute" BY DEF OP_CLOSE, Op, Executing
<1>2. PICK G : LuaRuns(Now, G, program.host, b, self) BY <1>1, Executes DEF self
<1>3. frame = ci(Now, self) /\ frame = Now.L[self].ci[Len(Now.L[self].ci)] BY <1>2, FrameIs DEF frame
<1>4. level > frame.func BY DEF OP_CLOSE, Locals
<1>5. level > Now.L[self].ci[Len(Now.L[self].ci)].func BY <1>3, <1>4
<1>6. Holds(u, program.host, b) BY <1>2, <1>5, EndsBlock, Zenon DEF frame
<1>7. Become(u) BY DEF OP_CLOSE
<1> HIDE DEF u
<1> QED BY <1>6, <1>7, Becoming

\* ... one after the other, and it is left when there are no more.
LEMMA FinishCloseHolds ==
  ASSUME NEW b, Holds(Now, program.host, b), FinishClose
  PROVE  Holds(Now', program.host', b)
<1> DEFINE u == luaF_close(Now, self, frame.level, "OK", TRUE)
           v == settop(setci(Now, self, [frame EXCEPT !.op = "none"]), self, frame.level - 1)
<1>1. Top(Now).at = "execute" /\ frame.op = "OP_CLOSE" BY DEF FinishClose
<1>2. PICK G : LuaRuns(Now, G, program.host, b, self) BY <1>1, Executes DEF self
<1>3. frame = Now.L[self].ci[Len(Now.L[self].ci)] BY <1>2, FrameIs DEF frame
<1>4. Now.L[self].ci[Len(Now.L[self].ci)].op = "OP_CLOSE" BY <1>1, <1>3
<1>5. Holds(u, program.host, b) /\ Holds(v, program.host, b) BY <1>2, <1>4, FinishesBlock DEF frame
<1>6. Become(IF Pending(Now, self, frame.level) THEN u ELSE v) BY DEF FinishClose
<1> HIDE DEF u, v
<1> QED BY <1>5, <1>6, Becoming

\* A function returns, when its variables are closed.
LEMMA OP_RETURNHolds ==
  ASSUME NEW b, Holds(Now, program.host, b), OP_RETURN
  PROVE  Holds(Now', program.host', b)
<1> DEFINE u == luaF_closeupval(Now, self, frame.func + 1)
           v == push(u, self, Nil)
           u2 == luaD_poscall(IF frame.fresh THEN PopC(u) ELSE u, self)
           v2 == luaD_poscall(IF frame.fresh THEN PopC(v) ELSE v, self)
           w == luaF_close(setci(Now, self, [frame EXCEPT !.op = "OP_RETURN"]), self, frame.func + 1, "CLOSEKTOP", TRUE)
<1>1. Top(Now).at = "execute" BY DEF OP_RETURN
<1>2. PICK G : LuaRuns(Now, G, program.host, b, self) BY <1>1, Executes DEF self
<1>3. Holds(u2, program.host, b) /\ Holds(v2, program.host, b) BY <1>2, ReturnsFromLua DEF frame
<1>4. Holds(w, program.host, b) BY <1>2, ReturnCloses DEF frame
<1>5. Become(w) \/ Become(u2) \/ Become(v2) BY DEF OP_RETURN
<1> HIDE DEF u2, v2, w
<1> QED BY <1>3, <1>4, <1>5, Becoming

\* Lua code calls a Lua function, in a frame of its own or in its caller's,
\* and a metamethod.
LEMMA CallHolds ==
  ASSUME NEW b, Holds(Now, program.host, b), OP_CALL \/ OP_TAILCALL \/ luaT_callTMres
  PROVE  Holds(Now', program.host', b)
<1> DEFINE u == push(Now, self, Function)
           x == prepCallInfo(u, self, Frame(top(u, self), 0))
           y == settop(luaF_closeupval(Now, self, frame.func + 1), self, frame.func)
           z == luaD_call(u, self, top(u, self))
<1>1. Top(Now).at = "execute" BY DEF OP_CALL, OP_TAILCALL, luaT_callTMres, Op, Executing
<1>2. PICK G : LuaRuns(Now, G, program.host, b, self) BY <1>1, Executes DEF self
<1>3. frame = Now.L[self].ci[Len(Now.L[self].ci)] BY <1>2, FrameIs DEF frame
<1>4. Holds(x, program.host, b) BY <1>2, CallsLua
<1>5. Holds(y, program.host, b)
  <2>1. LET f == Now.L[self].ci[Len(Now.L[self].ci)]
        IN  Holds(settop(luaF_closeupval(Now, self, f.func + 1), self, f.func), program.host, b) BY <1>2, TailCalls
  <2> QED BY <2>1, <1>3, Zenon
<1>6. Holds(z, program.host, b) BY <1>2, CallsMetamethod
<1>7. Become(x) \/ Become(y) \/ Become(z) BY DEF OP_CALL, OP_TAILCALL, luaT_callTMres
<1> HIDE DEF x, y, z
<1> QED BY <1>4, <1>5, <1>6, <1>7, Becoming

\* Lua code calls a C function that calls back, has a variable to be closed,
\* or is pcall.
LEMMA CFunctionHolds ==
  ASSUME NEW b, Holds(Now, program.host, b), Sort \/ DoFile \/ CFunctionWithVariable \/ Pcall \/ Xpcall
  PROVE  Holds(Now', program.host', b)
<1> DEFINE u == [push(precallC(Now, self, "C_function"), self, Closable(variables + 1)) EXCEPT !.variables = @ + 1]
           v == luaF_newtbcupval(setci(u, self, [ci(u, self) EXCEPT !.tbc = TRUE]), self, top(u, self))
           sc == Append(v.scopes[self], S!Variable(v.variables))
           y == luaB_pcall(Now, self)
           z == luaB_xpcall(Now, self)
<1>1. Top(Now).at = "execute" BY DEF Sort, DoFile, CFunctionWithVariable, Pcall, Xpcall, Op, Executing
<1>2. PICK G : LuaRuns(Now, G, program.host, b, self) BY <1>1, Executes DEF self
<1>3. Holds(lua_callk(TRUE), program.host, b) BY <1>2, CallsBack DEF lua_callk
<1>4. Holds(lua_callk(FALSE), program.host, b) BY <1>2, CallsBack DEF lua_callk
<1>5. \A x : Holds([v EXCEPT !.scopes[self] = x], program.host, b) BY <1>2, DeclaresInC
<1>6. Holds(y, program.host, b) /\ Holds(z, program.host, b) BY <1>2, CallsPcall
<1>7. \/ Become(lua_callk(TRUE)) \/ Become(lua_callk(FALSE)) \/ Become(y) \/ Become(z)
      \/ Become([v EXCEPT !.scopes[self] = sc])
  BY DEF Sort, DoFile, CFunctionWithVariable, Pcall, Xpcall
<1> HIDE DEF v, y, z, sc
<1> QED BY <1>3, <1>4, <1>5, <1>6, <1>7, Becoming

\* Lua code raises an error, runs out of memory, yields, or a finalizer is
\* called in it.
LEMMA RaiseHolds ==
  ASSUME NEW b, Holds(Now, program.host, b), Raise \/ RaiseNil \/ NoMemory \/ Yield \/ Finalizer
  PROVE  Holds(Now', program.host', b)
<1> DEFINE u == [precallC(Now, self, "error") EXCEPT !.errors = @ + 1]
           v == luaG_errormsg(push(u, self, Error(u.errors)), self)
           w == luaG_errormsg(push(precallC(Now, self, "error"), self, Nil), self)
           x == luaD_throw(Now, self, "ERRMEM")
           y == lua_yieldk(precallC(Now, self, "yield"), self)
           z == GCTM(Now, self)
<1>1. Top(Now).at = "execute" BY DEF Raise, RaiseNil, NoMemory, Yield, Finalizer, Op, Executing
<1>2. PICK G : LuaRuns(Now, G, program.host, b, self) BY <1>1, Executes DEF self
<1>3. Holds(v, program.host, b) BY <1>2, RaisesError
<1>4. Holds(w, program.host, b) BY <1>2, RaisesError
<1>5. Holds(x, program.host, b) BY <1>2, RunsOutOfMemory
<1>6. Holds(y, program.host, b) BY <1>2, Yields
<1>7. Finalizer => Holds(z, program.host, b) BY <1>2, Finalizes DEF Finalizer, Now
<1>8. \/ Become(v) \/ Become(w) \/ Become(x) \/ Become(y) \/ (Become(z) /\ Finalizer)
  BY DEF Raise, RaiseNil, NoMemory, Yield, Finalizer
<1> HIDE DEF v, w, x, y, z
<1> QED BY <1>3, <1>4, <1>5, <1>6, <1>7, <1>8, Becoming

\* A coroutine that is created has a function to run.
LEMMA CreatedRuns ==
  ASSUME NEW G, NEW b, LuaRuns(Now, G, program.host, b, self), NEW co \in Threads
  PROVE  LuaRuns(Created(co), G, program.host, b, self) /\ Created(co).L[co].stack # << >>
<1>1. Now.L = L BY DEF Now
<1>2. CASE L[co].stack # << >> BY <1>1, <1>2 DEF Created
<1>3. CASE L[co].stack = << >>
  <2>1. Created(co) = [Now EXCEPT !.L[co] = Begun] BY <1>3 DEF Created, Begun
  <2>2. LuaRuns([Now EXCEPT !.L[co] = Begun], G, program.host, b, self) BY <1>1, <1>3, Begins
  <2>3. State(Now) BY LuaFacts
  <2>4. "L" \in DOMAIN Now /\ co \in DOMAIN Now.L BY <2>3 DEF State, StateFields
  <2>5. [Now EXCEPT !.L[co] = Begun].L[co] = Begun BY <2>4
  <2>6. Begun.stack = <<Nil, Function>> BY DEF Begun, ResetThread
  <2>7. <<Nil, Function>> # << >> OBVIOUS
  <2> QED BY <2>1, <2>2, <2>5, <2>6, <2>7
<1> QED BY <1>2, <1>3

\* A coroutine is resumed, through a function of its own or not, or closed.
LEMMA CoroutineHolds ==
  ASSUME NEW b, Holds(Now, program.host, b), NEW co \in Threads, Resume(co) \/ Wrap(co) \/ Close(co)
  PROVE  Holds(Now', program.host', b)
<1> DEFINE s == Created(co)
           u == lua_resume(CallCo(s, self, "luaB_coresume", co), co, self)
           v == lua_resume(CallCo(s, self, "luaB_auxwrap", co), co, self)
           w == luaB_close(Now, self, co)
<1>1. Top(Now).at = "execute" BY DEF Resume, Wrap, Close, Op, Executing
<1>2. PICK G : LuaRuns(Now, G, program.host, b, self) BY <1>1, Executes DEF self
<1>3. LuaRuns(s, G, program.host, b, self) /\ s.L[co].stack # << >> BY <1>2, CreatedRuns
<1>4. Become(u) \/ Become(v) \/ Become(w) BY DEF Resume, Wrap, Close
<1> HIDE DEF s
<1>5. Holds(u, program.host, b) BY <1>3, CallsResume
<1>6. Holds(v, program.host, b) BY <1>3, CallsResume
<1>7. Holds(w, program.host, b) BY <1>2, CallsClose
<1> HIDE DEF u, v, w
<1> QED BY <1>4, <1>5, <1>6, <1>7, Becoming

\* What the topmost activation does when what it called has returned, by what
\* it is.
LEMMA Continues ==
  ASSUME Continue
  PROVE  LET s == Now   a == Top(Now)
         IN  /\ a.at = "ccall" => Become([PopC(s) EXCEPT !.L[a.th].nC = @ - a.inc, !.L[a.th].nny = @ - a.nny])
             /\ a.at = "luaG_errormsg" => Become(AfterHandler(s, a.th))
             /\ a.at = "luaF_close" => Become(CloseLoop(s))
             /\ a.at = "closeprotected" => Become(AfterCloseprotected(s))
             /\ a.at = "luaD_pcall" => Become(AfterPcall(s))
             /\ a.at = "luaD_pcall_error" => Become(AfterPcallError(s))
             /\ a.at = "luaB_pcall" => Become(AfterPcallk(s, a.th, TRUE))
             /\ a.at = "unroll" => Become(unroll(s))
             /\ a.at = "lua_resume" => Become(AfterResume(s))
             /\ a.at = "lua_closethread" => Become(AfterClosethread(s))
             /\ a.at = "luaB_coresume" => Become(luaB_coresume(s))
             /\ a.at = "luaB_auxwrap" => Become(luaB_auxwrap(s))
             /\ a.at = "luaB_auxwrap_closed" => Become(AfterAuxwrapCloses(s))
             /\ a.at = "luaB_close" => Become(AfterClose(s))
             /\ a.at = "GCTM" => Become(AfterGCTM(s))
             /\ a.at \in {"lua_callk", "C_function"} => Become(Returns(s, a.th, TRUE))
             /\ a.at \in {"ccall", "luaG_errormsg", "luaF_close", "closeprotected", "luaD_pcall", "luaD_pcall_error",
                          "luaB_pcall", "unroll", "lua_resume", "lua_closethread", "luaB_coresume", "luaB_auxwrap",
                          "luaB_auxwrap_closed", "luaB_close", "GCTM", "lua_callk", "C_function"}
<1> DEFINE at == Top(Now).at
<1>1. CASE at = "ccall" BY <1>1 DEF Continue
<1>2. CASE at = "luaG_errormsg" BY <1>2 DEF Continue
<1>3. CASE at = "luaF_close" BY <1>3 DEF Continue
<1>4. CASE at = "closeprotected" BY <1>4 DEF Continue
<1>5. CASE at = "luaD_pcall" BY <1>5 DEF Continue
<1>6. CASE at = "luaD_pcall_error" BY <1>6 DEF Continue
<1>7. CASE at = "luaB_pcall" BY <1>7 DEF Continue
<1>8. CASE at = "unroll" BY <1>8 DEF Continue
<1>9. CASE at = "lua_resume" BY <1>9 DEF Continue
<1>10. CASE at = "lua_closethread" BY <1>10 DEF Continue
<1>11. CASE at = "luaB_coresume" BY <1>11 DEF Continue
<1>12. CASE at = "luaB_auxwrap" BY <1>12 DEF Continue
<1>13. CASE at = "luaB_auxwrap_closed" BY <1>13 DEF Continue
<1>14. CASE at = "luaB_close" BY <1>14 DEF Continue
<1>15. CASE at = "GCTM" BY <1>15 DEF Continue
<1>16. CASE at \in {"lua_callk", "C_function"} BY <1>16 DEF Continue
<1>17. CASE at \notin {"ccall", "luaG_errormsg", "luaF_close", "closeprotected", "luaD_pcall", "luaD_pcall_error",
                       "luaB_pcall", "unroll", "lua_resume", "lua_closethread", "luaB_coresume", "luaB_auxwrap",
                       "luaB_auxwrap_closed", "luaB_close", "GCTM", "lua_callk", "C_function"}
  BY <1>17 DEF Continue
<1> QED BY <1>1, <1>2, <1>3, <1>4, <1>5, <1>6, <1>7, <1>8, <1>9, <1>10, <1>11, <1>12, <1>13, <1>14, <1>15, <1>16, <1>17

\* An activation that is not protected goes on in its thread.
LEMMA RunsOn ==
  ASSUME NEW s, NEW G, NEW h, NEW b, Body(s, G, h, b), Running(s, G), ~IsRawRun(s.C[Len(s.C)])
  PROVE  LET th == s.C[Len(s.C)].th
         IN  /\ Runs(s, G, h, b, th)
             /\ s.C[Len(s.C)].at \in Callers => CRuns(s, G, h, b, th)
<1>1. Len(G) = Len(s.C) BY TopFacts, Zenon
<1>2. Settled(s.L[s.C[Len(s.C)].th], s.C[Len(s.C)], G[Len(s.C)]) BY DEF Running, Thrown
<1>3. s.C[Len(s.C)].at \in Callers => Calm(s, G) BY <1>2 DEF Calm
<1> QED BY <1>2, <1>3 DEF Runs, CRuns

\* C code goes on.
LEMMA ContinueHolds ==
  ASSUME NEW b, Holds(Now, program.host, b), Continue, ClosesItself => b = FALSE
  PROVE  Holds(Now', program.host', b)
<1> DEFINE s == Now   h == program.host   a == s.C[Len(s.C)]   th == a.th
<1>1. PICK G : Body(s, G, h, b) /\ Running(s, G) /\ Returned(s) BY DEF Holds
<1>2. Top(s) = a BY <1>1, TopFacts, Zenon
<1>3. ~IsRawRun(a) => /\ Runs(s, G, h, b, th)
                      /\ a.at \in Callers => CRuns(s, G, h, b, th)
  BY <1>1, RunsOn
<1>4. CASE a.at = "ccall"
  <2>1. Become([PopC(s) EXCEPT !.L[th].nC = @ - a.inc, !.L[th].nny = @ - a.nny]) BY <1>2, <1>4, Continues, Zenon
  <2>2. ~IsRawRun(a) BY <1>4 DEF IsRawRun
  <2>3. Holds([PopC(s) EXCEPT !.L[th].nC = @ - a.inc, !.L[th].nny = @ - a.nny], h, b)
    <3>1. LET z == s.C[Len(s.C)] IN Holds([PopC(s) EXCEPT !.L[th].nC = @ - z.inc, !.L[th].nny = @ - z.nny], h, b)
      BY <1>3, <1>4, <2>2, CallEnds, Zenon
    <3> QED BY <3>1, Zenon
  <2> QED BY <2>1, <2>3, Becoming, Zenon
<1>5. CASE a.at = "luaG_errormsg"
  <2>1. Become(AfterHandler(s, th)) BY <1>2, <1>5, Continues
  <2>2. ~IsRawRun(a) BY <1>5 DEF IsRawRun
  <2>3. Holds(AfterHandler(s, th), h, b) BY <1>3, <1>5, <2>2, HandlerReturns
  <2> QED BY <2>1, <2>3, Becoming
<1>6. CASE a.at = "luaF_close"
  <2>1. Become(CloseLoop(s)) BY <1>2, <1>6, Continues
  <2>2. ~IsRawRun(a) BY <1>6 DEF IsRawRun
  <2>3. Holds(CloseLoop(s), h, b) BY <1>3, <1>6, <2>2, CloseLoops
  <2> QED BY <2>1, <2>3, Becoming
<1>7. CASE a.at = "closeprotected"
  <2>1. Become(AfterCloseprotected(s)) BY <1>2, <1>7, Continues
  <2>2. Holds(AfterCloseprotected(s), h, b) BY <1>1, <1>7, ClosedProtected
  <2> QED BY <2>1, <2>2, Becoming
<1>8. CASE a.at = "luaD_pcall"
  <2>1. Become(AfterPcall(s)) BY <1>2, <1>8, Continues
  <2>2. Holds(AfterPcall(s), h, b) BY <1>1, <1>8, PcallEnds
  <2> QED BY <2>1, <2>2, Becoming
<1>9. CASE a.at = "luaD_pcall_error"
  <2>1. Become(AfterPcallError(s)) BY <1>2, <1>9, Continues
  <2>2. ~IsRawRun(a) BY <1>9 DEF IsRawRun
  <2>3. LET z == s.C[Len(s.C)]   u == luaD_seterrorobj(PopC(s), th, z.status, z.level)
        IN  Holds(FailCall([u EXCEPT !.L[th].errfunc = z.errfunc], th), h, b)
    BY <1>3, <1>9, <2>2, PcallErrorEnds, Zenon
  <2>4. Holds(AfterPcallError(s), h, b) BY <1>2, <2>3, Zenon DEF AfterPcallError
  <2> QED BY <2>1, <2>4, Becoming
<1>10. CASE a.at = "luaB_pcall"
  <2>1. Become(AfterPcallk(s, th, TRUE)) BY <1>2, <1>10, Continues
  <2>2. ~IsRawRun(a) /\ a.at \in Callers BY <1>10 DEF IsRawRun, Callers, PlainCallers
  <2>3. Holds(AfterPcallk(s, th, TRUE), h, b) BY <1>3, <1>10, <2>2, PcallkEnds
  <2> QED BY <2>1, <2>3, Becoming
<1>11. CASE a.at = "unroll"
  <2>1. Become(unroll(s)) BY <1>2, <1>11, Continues
  <2>2. ~IsRawRun(a) BY <1>11 DEF IsRawRun
  <2>3. Unrolls(s, G, h, b, th) BY <1>3, <1>11, <2>2 DEF Unrolls
  <2>4. Holds(unroll(s), h, b) BY <2>3, UnrollGoesOn
  <2> QED BY <2>1, <2>4, Becoming
<1>12. CASE a.at = "lua_resume"
  <2>1. Become(AfterResume(s)) BY <1>2, <1>12, Continues
  <2>2. Holds(AfterResume(s), h, b) BY <1>1, <1>12, ResumeEnds
  <2> QED BY <2>1, <2>2, Becoming
<1>13. CASE a.at = "lua_closethread"
  <2>1. Become(AfterClosethread(s)) BY <1>2, <1>13, Continues
  <2>2. a.th = a.from => b = FALSE BY <1>2, <1>13 DEF ClosesItself
  <2>3. Holds(AfterClosethread(s), h, b) BY <1>1, <1>13, <2>2, ThreadCloseEnds
  <2> QED BY <2>1, <2>3, Becoming
<1>14. CASE a.at = "luaB_coresume"
  <2>1. Become(luaB_coresume(s)) BY <1>2, <1>14, Continues
  <2>2. Holds(luaB_coresume(s), h, b) BY <1>1, <1>14, ResumeReturns
  <2> QED BY <2>1, <2>2, Becoming
<1>15. CASE a.at = "luaB_auxwrap"
  <2>1. Become(luaB_auxwrap(s)) BY <1>2, <1>15, Continues
  <2>2. Holds(luaB_auxwrap(s), h, b) BY <1>1, <1>15, WrapReturns
  <2> QED BY <2>1, <2>2, Becoming
<1>16. CASE a.at = "luaB_auxwrap_closed"
  <2>1. Become(AfterAuxwrapCloses(s)) BY <1>2, <1>16, Continues
  <2>2. Holds(AfterAuxwrapCloses(s), h, b) BY <1>1, <1>16, WrapCloses
  <2> QED BY <2>1, <2>2, Becoming
<1>17. CASE a.at = "luaB_close"
  <2>1. Become(AfterClose(s)) BY <1>2, <1>17, Continues
  <2>2. Holds(AfterClose(s), h, b) BY <1>1, <1>17, CloseReturns
  <2> QED BY <2>1, <2>2, Becoming
<1>18. CASE a.at = "GCTM"
  <2>1. Become(AfterGCTM(s)) BY <1>2, <1>18, Continues
  <2>2. Holds(AfterGCTM(s), h, b) BY <1>1, <1>18, FinalizerEnds
  <2> QED BY <2>1, <2>2, Becoming
<1>19. CASE a.at \in {"lua_callk", "C_function"}
  <2>1. Become(Returns(s, th, TRUE)) BY <1>2, <1>19, Continues
  <2>2. ~IsRawRun(a) /\ a.at \in Callers BY <1>19 DEF IsRawRun, Callers, PlainCallers
  <2>3. CRuns(s, G, h, b, th) BY <1>3, <2>2
  <2>4. Holds(Returns(s, th, TRUE), h, b) BY <2>3, CReturns
  <2> QED BY <2>1, <2>4, Becoming
<1>20. a.at \in {"ccall", "luaG_errormsg", "luaF_close", "closeprotected", "luaD_pcall", "luaD_pcall_error",
                 "luaB_pcall", "unroll", "lua_resume", "lua_closethread", "luaB_coresume", "luaB_auxwrap",
                 "luaB_auxwrap_closed", "luaB_close", "GCTM", "lua_callk", "C_function"}
  BY <1>2, Continues, Zenon
<1> HIDE DEF a
<1> QED BY <1>4, <1>5, <1>6, <1>7, <1>8, <1>9, <1>10, <1>11, <1>12, <1>13, <1>14, <1>15, <1>16, <1>17, <1>18, <1>19, <1>20

\* Every step keeps the invariant; that the collector is stopped only in a
\* finalizer is kept by every step that is not the jump of a coroutine that
\* closes itself.
LEMMA Step ==
  ASSUME NEW b, Holds(Now, program.host, b), [Next]_vars, ClosesItself => b = FALSE
  PROVE  Holds(Now', program.host', b)
<1>1. CASE UNCHANGED vars
  <2>1. Now' = Now /\ program' = program BY <1>1 DEF vars, Now
  <2>2. program.host' = program.host BY <2>1
  <2> QED BY <2>1, <2>2
<1>2. CASE \E closable \in BOOLEAN : NewVariable(closable) BY <1>2, NewVariableHolds
<1>3. CASE Capture BY <1>3, CaptureHolds
<1>4. CASE FinishClose BY <1>4, FinishCloseHolds
<1>5. CASE OP_RETURN BY <1>5, OP_RETURNHolds
<1>6. CASE OP_CALL \/ OP_TAILCALL \/ luaT_callTMres BY <1>6, CallHolds
<1>7. CASE \E p \in 1..Len(L[self].stack) : OP_CLOSE(p)
  <2>1. PICK p \in 1..Len(L[self].stack) : OP_CLOSE(p) BY <1>7
  <2>2. p \in Nat BY <2>1
  <2> QED BY <2>1, <2>2, OP_CLOSEHolds
<1>8. CASE Sort \/ DoFile \/ CFunctionWithVariable \/ Pcall \/ Xpcall BY <1>8, CFunctionHolds
<1>9. CASE Raise \/ RaiseNil \/ NoMemory \/ Yield \/ Finalizer BY <1>9, RaiseHolds
<1>10. CASE Continue BY <1>10, ContinueHolds
<1>11. CASE \E co \in Threads : Resume(co) \/ Wrap(co) \/ Close(co) BY <1>11, CoroutineHolds
<1> QED BY <1>1, <1>2, <1>3, <1>4, <1>5, <1>6, <1>7, <1>8, <1>9, <1>10, <1>11 DEF Next

-----------------------------------------------------------------------------
(* The initial state.                                                       *)
HostGhost(h) == [d |-> 1, b |-> 0, c |-> h, e |-> 1, j |-> 0]

\* The C stack of the host.
LEMMA HostChain ==
  ASSUME NEW h \in Nat
  PROVE  Chain(<<Activation("host", Main)>>, <<HostGhost(h)>>, h)
<1> DEFINE a == Activation("host", Main)   g == HostGhost(h)   c == <<a>>   G == <<g>>
<1>1. a.at = "host" /\ a.th = Main /\ a \in Acts
  <2>1. Main \in Threads BY DEF Threads
  <2>2. a = [at |-> "host", th |-> Main] BY DEF Activation
  <2>3. a \in PlainActs BY <2>1, <2>2 DEF PlainActs
  <2> QED BY <2>2, <2>3 DEF Acts
<1>2. g.d = 1 /\ g.b = 0 /\ g.c = h /\ g.e = 1 /\ g.j = 0 /\ g \in Ghosts
  BY DEF HostGhost, Ghosts
<1> HIDE DEF a, g
<1>3. c \in Seq(Acts) /\ G \in Seq(Ghosts) /\ Len(c) = 1 /\ Len(G) = 1 /\ c[1] = a /\ G[1] = g
  BY <1>1, <1>2
<1> HIDE DEF c, G
<1>4. \A k \in 1..Len(c) : k = 1 BY <1>3
<1>5. \A k : k \notin 1..(1 - 1) OBVIOUS
<1>6. Own(a, g) /\ a.at \notin Switches
  BY <1>1 DEF Own, IsRawRun, Switches
<1>7. Chained(c, G, h)
  <2>1. \A k : k \notin 1..(Len(c) - 1) BY <1>3, <1>5
  <2>2. \A k \in 1..Len(c) : Own(c[k], G[k]) /\ (c[k].at \in Switches => c[k].th # Main) BY <1>3, <1>4, <1>6
  <2>3. Len(c) >= 1 /\ Len(c) = Len(G) BY <1>3
  <2> QED BY <1>1, <1>2, <1>3, <2>1, <2>2, <2>3 DEF Chained
<1>8. Contiguous(c)
  <2> SUFFICES ASSUME NEW i \in 1..Len(c), NEW j \in 1..Len(c), NEW k \in i..j PROVE c[k].th = c[i].th BY DEF Contiguous
  <2>1. i = 1 /\ j = 1 BY <1>4
  <2>2. k = 1 BY <2>1
  <2> QED BY <2>1, <2>2
<1>9. Innermost(c, G, 1) /\ Quiet(c, G, 1) /\ Ordered(c, G, 1)
  <2>1. 0 \in 0..1 OBVIOUS
  <2>2. Innermost(c, G, 1) BY <1>1, <1>2, <1>3, <2>1 DEF Innermost
  <2>3. Quiet(c, G, 1) BY <1>2, <1>3 DEF Quiet
  <2>4. Ordered(c, G, 1) BY <1>5 DEF Ordered
  <2> QED BY <2>2, <2>3, <2>4
<1> QED BY <1>4, <1>7, <1>8, <1>9 DEF Chain, c, G, a, g

\* The program's function is on the stack of the main thread, and nothing runs.
Starts(u, h) ==
    LET x == u.L[Main]
    IN  /\ State(u) /\ u.C = <<Activation("host", Main)>> /\ u.gcstp = FALSE /\ \A t \in Threads : ThreadInv(u.L[t])
        /\ x.status = "OK" /\ x.ci = <<CFrame(1)>> /\ Len(x.stack) = 2 /\ x.open = {} /\ x.nC = h /\ x.nny = 1
\* It can be called.
LEMMA StartPoised ==
  ASSUME NEW h \in Nat, NEW u, Starts(u, h), NEW b
  PROVE  Poised(u, <<HostGhost(h)>>, h, b, 2)
<1> DEFINE a == Activation("host", Main)   g == HostGhost(h)   c == <<a>>   G == <<g>>   x == u.L[Main]   f == CFrame(1)   q == <<f>>
<1>1. Chain(c, G, h) BY HostChain
<1>2. a.at = "host" /\ a.th = Main /\ g.d = 1 /\ g.e = 1 /\ g.c = h BY DEF HostGhost, Activation
<1>3. f.func = 1 /\ ~f.ypcall BY DEF CFrame, Frame
<1>4. Len(c) = 1 /\ Len(G) = 1 /\ c[1] = a /\ G[1] = g /\ Len(q) = 1 /\ q[1] = f OBVIOUS
<1>5. /\ State(u) /\ u.C = c /\ u.gcstp = FALSE /\ (\A t \in Threads : ThreadInv(u.L[t]))
      /\ x.status = "OK" /\ x.ci = q /\ Len(x.stack) = 2 /\ x.open = {} /\ x.nC = h /\ x.nny = 1
  BY DEF Starts
<1> HIDE DEF a, g, c, G, x, f, q
<1>6. \A k \in 1..1 : k = 1 OBVIOUS
<1>7. ~IsRawRun(a) /\ a.at \notin Callers /\ ~Floored(a) /\ ~Levelled(a)
  BY <1>2 DEF IsRawRun, Callers, CoCallers, PlainCallers, Floored, Levelled
<1>8. Sound(q, {}, a, g)
  <2>1. 1 <= 1 OBVIOUS
  <2> QED BY <1>2, <1>4, <1>7, <2>1 DEF Sound
<1>9. Fits(u.L, c, G) /\ Waiting(u.L, c, G)
  <2>1. \A k \in 1..Len(c) : k = 1 BY <1>4, <1>6
  <2>2. \A k : k \notin 1..(Len(c) - 1) BY <1>4
  <2>3. Sound(u.L[a.th].ci, u.L[a.th].open, a, g) BY <1>2, <1>5, <1>8 DEF x
  <2>4. Fits(u.L, c, G) BY <1>4, <2>1, <2>3 DEF Fits
  <2> QED BY <2>2, <2>4 DEF Waiting
<1>10. Collects(u, b) BY <1>5 DEF Collects
<1>11. Body(u, G, h, b) BY <1>1, <1>5, <1>9, <1>10 DEF Body
<1>12. Settled(x, a, g) BY <1>2, <1>4, <1>5, <1>7 DEF Settled
<1>13. Room(c, G, q, {}, 2)
  <2>1. 2 \in Nat /\ 2 > 1 OBVIOUS
  <2>2. \A k \in 1..Len(c) : ~Levelled(c[k]) BY <1>4, <1>6, <1>7
  <2> QED BY <1>3, <1>4, <2>1, <2>2 DEF Room
<1>14. 2 <= 2 OBVIOUS
<1> QED BY <1>2, <1>4, <1>5, <1>11, <1>12, <1>13, <1>14 DEF Poised, G, x, g

-----------------------------------------------------------------------------
(* The collector.                                                           *)

\* The collector is as it was.
Keeps(s, u) == DOMAIN u = DOMAIN s /\ u.gcstp = s.gcstp
\* A jump does not change that ...
LEMMA JumpKeeps ==
  ASSUME NEW s, "gcstp" \in DOMAIN s, NEW th, NEW j, NEW status
  PROVE  Keeps(s, JumpTo(s, th, j, status))
<1> DEFINE v == IF status = "ERRMEM" THEN Message("no_memory") ELSE Last(s.L[th].stack)
           u == [s EXCEPT !.C = Append(SubSeq(s.C, 1, j - 1), [s.C[j] EXCEPT !.status = status]),
                          !.L[th].nC = s.C[j].nC, !.L[th].nny = s.C[j].nny]
           w == [u EXCEPT !.scopes[th][LastCall(s.scopes[th])].err = v]
<1>1. Keeps(s, u) BY DEF Keeps
<1>2. JumpTo(s, th, j, status) = u \/ JumpTo(s, th, j, status) = w BY DEF JumpTo
<1> HIDE DEF u, v
<1>3. Keeps(u, w) BY <1>1 DEF Keeps
<1> HIDE DEF w
<1> QED BY <1>1, <1>2, <1>3 DEF Keeps

\* ... nor does what is done to the stacks ...
LEMMA StackKeeps ==
  ASSUME NEW s, "gcstp" \in DOMAIN s, NEW th, NEW v, NEW n, NEW f, NEW a, NEW inc, NEW nny
  PROVE  /\ Keeps(s, push(s, th, v)) /\ Keeps(s, settop(s, th, n)) /\ Keeps(s, prepCallInfo(s, th, f))
         /\ Keeps(s, PushC(s, a)) /\ Keeps(s, BeginCall(s, th)) /\ Keeps(s, Counted(s, th, inc, nny))
<1>1. Keeps(s, push(s, th, v)) BY DEF Keeps, push
<1>2. Keeps(s, settop(s, th, n)) BY DEF Keeps, settop
<1>3. Keeps(s, prepCallInfo(s, th, f)) BY DEF Keeps, prepCallInfo
<1>4. Keeps(s, PushC(s, a)) BY DEF Keeps, PushC
<1>5. Keeps(s, BeginCall(s, th)) BY DEF Keeps, BeginCall
<1>6. Keeps(s, Counted(s, th, inc, nny)) BY DEF Keeps, Counted, PushC
<1> QED BY <1>1, <1>2, <1>3, <1>4, <1>5, <1>6

\* ... the beginning of a call ...
LEMMA EnterKeeps ==
  ASSUME NEW s, "gcstp" \in DOMAIN s, NEW th, NEW func, NEW wanted
  PROVE  Keeps(s, Enter(s, th, func, wanted))
<1> DEFINE u == push(s, th, Message("error_in_handler"))   f == [Frame(func, wanted) EXCEPT !.fresh = TRUE]
           v == prepCallInfo(s, th, f)   w == PushC(v, Activation("execute", th))
<1>1. Keeps(s, u) /\ Keeps(s, v) BY StackKeeps
<1>2. Enter(s, th, func, wanted) = luaD_throw(u, th, "ERRERR") \/ Enter(s, th, func, wanted) = w
  BY DEF Enter, luaD_errerr
<1> HIDE DEF u, v, f
<1>3. "gcstp" \in DOMAIN u /\ "gcstp" \in DOMAIN v BY <1>1 DEF Keeps
<1>4. Keeps(u, luaD_throw(u, th, "ERRERR")) BY <1>3, JumpKeeps DEF luaD_throw
<1>5. Keeps(v, w) BY <1>3, StackKeeps
<1> HIDE DEF w
<1> QED BY <1>1, <1>2, <1>4, <1>5 DEF Keeps

\* ... and the error that it is one too many.
LEMMA OverflowKeeps ==
  ASSUME NEW s, "gcstp" \in DOMAIN s, NEW th
  PROVE  Keeps(s, StackOverflow(s, th))
<1> DEFINE u == push(s, th, Message("C_stack_overflow"))
           t == settop(u, th, top(u, th) - 1)   t2 == push(t, th, Message("no_error_object"))
           r == [u EXCEPT !.L[th].stack = Append(Append(Front(@), Function), Last(@))]
           p == PushC(r, Activation("luaG_errormsg", th))   x == Counted(p, th, 1, 1)
<1>1. Keeps(s, u) BY StackKeeps
<1>2. \/ StackOverflow(s, th) = luaD_throw(u, th, "ERRRUN") \/ StackOverflow(s, th) = luaD_throw(t2, th, "ERRRUN")
      \/ StackOverflow(s, th) = Enter(x, th, top(x, th) - 1, 1)
  BY DEF StackOverflow, AfterHandler, EnterHandler, CallHandler
<1> HIDE DEF u
<1>3. "gcstp" \in DOMAIN u BY <1>1 DEF Keeps
<1>4. Keeps(u, t) /\ Keeps(u, luaD_throw(u, th, "ERRRUN")) BY <1>3, StackKeeps, JumpKeeps DEF luaD_throw
<1>5. Keeps(u, r) BY <1>3 DEF Keeps
<1> HIDE DEF t, r
<1>6. Keeps(t, t2) /\ Keeps(r, p) BY <1>3, <1>4, <1>5, StackKeeps DEF Keeps
<1> HIDE DEF t2, p
<1>7. "gcstp" \in DOMAIN t2 /\ "gcstp" \in DOMAIN p BY <1>3, <1>4, <1>5, <1>6 DEF Keeps
<1>8. Keeps(t2, luaD_throw(t2, th, "ERRRUN")) BY <1>7, JumpKeeps DEF luaD_throw
<1>9. Keeps(p, x) BY <1>7, StackKeeps
<1> HIDE DEF x
<1>10. "gcstp" \in DOMAIN x BY <1>7, <1>9 DEF Keeps
<1>11. Keeps(x, Enter(x, th, top(x, th) - 1, 1)) BY <1>10, EnterKeeps
<1>12. Keeps(s, luaD_throw(u, th, "ERRRUN")) BY <1>1, <1>4 DEF Keeps
<1>13. Keeps(s, luaD_throw(t2, th, "ERRRUN")) BY <1>1, <1>4, <1>6, <1>8 DEF Keeps
<1>14. Keeps(s, Enter(x, th, top(x, th) - 1, 1)) BY <1>1, <1>5, <1>6, <1>9, <1>11 DEF Keeps
<1> QED BY <1>2, <1>12, <1>13, <1>14

\* A call does not change whether the collector is stopped.
LEMMA CallKeeps ==
  ASSUME NEW s, "gcstp" \in DOMAIN s, NEW th, NEW func
  PROVE  Keeps(s, ccall(s, th, func, 0, 1, 1))
<1> DEFINE u == Counted(s, th, 1, 1)
<1>1. Keeps(s, u) BY StackKeeps
<1>2. ccall(s, th, func, 0, 1, 1) = StackOverflow(u, th) \/ ccall(s, th, func, 0, 1, 1) = Enter(u, th, func, 0) BY DEF ccall
<1> HIDE DEF u
<1>3. "gcstp" \in DOMAIN u BY <1>1 DEF Keeps
<1>4. Keeps(u, StackOverflow(u, th)) /\ Keeps(u, Enter(u, th, func, 0)) BY <1>3, OverflowKeeps, EnterKeeps
<1>5. Keeps(s, StackOverflow(u, th)) /\ Keeps(s, Enter(u, th, func, 0)) BY <1>1, <1>4 DEF Keeps
<1> QED BY <1>2, <1>5

\* What the host has done before it calls the program.
Loaded(host) ==
    push([L |-> [t \in Threads |-> IF t # Main THEN [ResetThread EXCEPT !.stack = << >>]
                                   ELSE [ResetThread EXCEPT !.nC = host, !.nny = 1]],
          C |-> <<Activation("host", Main)>>, gcstp |-> FALSE, variables |-> 0, errors |-> 0,
          scopes |-> [t \in Threads |-> <<S!Call>>], result |-> << >>], Main, Function)
\* The threads are empty, but for the program's function.
LEMMA LoadedStarts ==
  ASSUME NEW host \in Nat
  PROVE  Starts(Loaded(host), host)
<1> DEFINE x == [ResetThread EXCEPT !.nC = host, !.nny = 1]   y == [ResetThread EXCEPT !.stack = << >>]
           l == [t \in Threads |-> IF t # Main THEN y ELSE x]
           c == <<Activation("host", Main)>>   sc == [t \in Threads |-> <<S!Call>>]
           s == [L |-> l, C |-> c, gcstp |-> FALSE, variables |-> 0, errors |-> 0, scopes |-> sc, result |-> << >>]
           u == push(s, Main, Function)   z == [x EXCEPT !.stack = Append(@, Function)]
           q == <<CFrame(1)>>
<1>1. /\ x.status = "OK" /\ x.ci = q /\ x.stack = <<Nil>> /\ x.tbc = << >> /\ x.open = {} /\ x.nC = host
      /\ x.nny = 1 /\ x.errfunc = 0 /\ DOMAIN x = ThreadFields
  BY DEF ResetThread, ThreadFields
<1>2. /\ y.status = "OK" /\ y.ci = q /\ y.stack = << >> /\ y.tbc = << >> /\ y.open = {} /\ y.nC = 0
      /\ y.nny = 0 /\ y.errfunc = 0 /\ DOMAIN y = ThreadFields
  BY DEF ResetThread, ThreadFields
<1> HIDE DEF x, y
<1>3. /\ z.status = "OK" /\ z.ci = q /\ z.stack = Append(<<Nil>>, Function) /\ z.tbc = << >> /\ z.open = {} /\ z.nC = host
      /\ z.nny = 1 /\ z.errfunc = 0 /\ DOMAIN z = ThreadFields
  BY <1>1 DEF ThreadFields
<1> HIDE DEF z
<1>4. Append(<<Nil>>, Function) = <<Nil, Function>> /\ <<Nil, Function>> \in Seq({Nil, Function}) /\ Len(<<Nil, Function>>) = 2
  <2>1. <<Nil, Function>> \in Seq({Nil, Function}) /\ Len(<<Nil, Function>>) = 2 OBVIOUS
  <2> DEFINE d == <<Nil, Function>>   e == Append(<<Nil>>, Function)
  <2>2. d[1] = Nil /\ d[2] = Function /\ e[1] = Nil /\ e[2] = Function /\ e \in Seq({Nil, Function}) /\ Len(e) = 2 OBVIOUS
  <2> HIDE DEF e
  <2>3. \A i \in 1..2 : i = 1 \/ i = 2 OBVIOUS
  <2>4. \A i \in 1..2 : e[i] = d[i] BY <2>2, <2>3
  <2>5. d \in Seq({Nil, Function}) /\ Len(d) = 2 BY <2>1
  <2> HIDE DEF d
  <2>6. e = d BY <2>2, <2>4, <2>5, SeqEqual
  <2> QED BY <2>1, <2>6 DEF d, e
<1>5. q \in Seq(Frames) BY BaseFrame
<1>6. IsThread(z) /\ IsThread(y) /\ Len(z.stack) = 2 /\ Len(y.stack) = 0
  <2>1. "OK" \in Statuses BY DEF Statuses
  <2>2. << >> \in Seq(Nat) /\ << >> \in Seq({Nil}) /\ {} \in SUBSET Nat /\ 0 \in Int /\ 0 \in Nat /\ 1 \in Int /\ host \in Int
        /\ Len(<< >>) = 0
    OBVIOUS
  <2>3. IsThread(z) BY <1>3, <1>4, <1>5, <2>1, <2>2 DEF IsThread
  <2>4. IsThread(y) BY <1>2, <1>5, <2>1, <2>2 DEF IsThread
  <2> QED BY <1>2, <1>3, <1>4, <2>2, <2>3, <2>4
<1>7. ThreadInv(z) /\ ThreadInv(y)
  <2>1. 2 \in Nat /\ 0 \in Nat OBVIOUS
  <2>2. Stacked(q, 2, {}) /\ Stacked(q, 0, {}) BY <2>1, BaseStacked
  <2> QED BY <1>2, <1>3, <1>6, <2>2 DEF ThreadInv, Suspended
<1>8. Main \in Threads BY DEF Threads
<1> HIDE DEF sc, c
<1>9. DOMAIN l = Threads /\ l[Main] = x /\ \A t \in Threads : t # Main => l[t] = y BY <1>8
<1> HIDE DEF l
<1>10. s.L = l /\ s.C = c /\ s.gcstp = FALSE /\ DOMAIN s = StateFields BY DEF StateFields
<1> HIDE DEF s
<1>11. u.C = c /\ u.gcstp = FALSE /\ DOMAIN u = StateFields /\ u.L = [l EXCEPT ![Main].stack = Append(@, Function)]
  BY <1>10 DEF push, StateFields
<1> HIDE DEF u
<1>12. DOMAIN u.L = Threads /\ u.L[Main] = z /\ \A t \in Threads : t # Main => u.L[t] = y
  BY <1>8, <1>9, <1>11 DEF z
<1>13. State(u) /\ \A t \in Threads : ThreadInv(u.L[t])
  BY <1>6, <1>7, <1>11, <1>12 DEF State
<1>14. Starts(u, host)
  BY <1>3, <1>6, <1>11, <1>12, <1>13 DEF Starts, c
<1> QED BY <1>14 DEF Loaded, u, s, l, c, sc, x, y

\* The program begins.
LEMMA StartHolds ==
  ASSUME NEW host \in Nat, NEW b
  PROVE  Holds(Start(host), host, b) /\ Start(host).gcstp = FALSE
<1> DEFINE u == Loaded(host)   v == BeginCall(u, Main)   a == RawRun("luaD_pcall", u, Main, 2)
           w == PushC(v, a)   p == 2
<1>1. Start(host) = ccall(w, Main, p, 0, 1, 1)
  <2>1. Start(host) = luaD_callnoyield(PushC(BeginCall(u, Main), RawRun("luaD_pcall", u, Main, 2)), Main, 2)
    BY DEF Start, Loaded
  <2> QED BY <2>1 DEF luaD_callnoyield
<1>2. Starts(u, host) BY LoadedStarts
<1> HIDE DEF u
<1>3. Poised(u, <<HostGhost(host)>>, host, b, p) BY <1>2, StartPoised
<1>4. State(u) /\ u.C = <<Activation("host", Main)>> /\ u.gcstp = FALSE BY <1>2 DEF Starts
<1>5. Same(u, v) /\ DOMAIN v = StateFields
  <2>1. v.L = u.L /\ v.C = u.C /\ v.gcstp = u.gcstp /\ DOMAIN v = StateFields BY <1>4 DEF BeginCall, State, StateFields
  <2> HIDE DEF v
  <2>2. State(v) BY <1>4, <2>1 DEF State
  <2> QED BY <2>1, <2>2 DEF Same, InC
<1> HIDE DEF v
<1>6. v.L = u.L /\ v.C = u.C /\ v.gcstp = FALSE BY <1>4, <1>5 DEF Same, InC
<1>7. Poised(v, <<HostGhost(host)>>, host, b, p) BY <1>3, <1>5, PoisedSame
<1>8. v.C[Len(v.C)].at = "host" /\ Main = v.C[Len(v.C)].th
  <2> DEFINE e == Activation("host", Main)
  <2>1. e.at = "host" /\ e.th = Main BY DEF Activation
  <2> HIDE DEF e
  <2>2. Len(<<e>>) = 1 /\ <<e>>[1] = e OBVIOUS
  <2>3. v.C = <<e>> BY <1>4, <1>6 DEF e
  <2> QED BY <2>1, <2>2, <2>3
<1>9. a = RawRun("luaD_pcall", v, Main, p) BY <1>6 DEF RawRun
<1> HIDE DEF a, p
<1>10. (\E G2 : Poised(w, G2, host, b, p)) /\ w.C[Len(w.C)] = a
  <2>1. LET a1 == RawRun("luaD_pcall", v, Main, p)   u1 == PushC(v, a1)
        IN  (\E G2 : Poised(u1, G2, host, b, p)) /\ u1.C[Len(u1.C)] = a1
    BY <1>7, <1>8, Protects
  <2> QED BY <1>9, <2>1
<1>11. a.at = "luaD_pcall" /\ a.th = Main BY <1>9 DEF RawRun
<1>12. Keeps(v, w) BY <1>5, StackKeeps DEF StateFields
<1> HIDE DEF w
<1>13. PICK G2 : Poised(w, G2, host, b, p) BY <1>10
<1>14. CanCall(w, G2, 1, 1) BY <1>10, <1>11 DEF CanCall, MayCall
<1>15. Holds(ccall(w, Main, p, 0, 1, 1), host, b)
  <2>1. Main = w.C[Len(w.C)].th BY <1>10, <1>11
  <2> QED BY <1>13, <1>14, <2>1, CCall
<1>16. ccall(w, Main, p, 0, 1, 1).gcstp = FALSE
  <2>1. "gcstp" \in DOMAIN w /\ w.gcstp = FALSE BY <1>5, <1>6, <1>12 DEF Keeps, StateFields
  <2>2. Keeps(w, ccall(w, Main, p, 0, 1, 1)) BY <2>1, CallKeeps
  <2> QED BY <2>1, <2>2 DEF Keeps
<1> QED BY <1>1, <1>15, <1>16

-----------------------------------------------------------------------------
(* The invariant and what follows from it.                                  *)
IInv == Holds(Now, program.host, FALSE)

\* It holds when the program begins.
LEMMA InitHolds ==
  ASSUME Init
  PROVE  IInv
<1> DEFINE s == Start(program.host)
<1>1. program.host \in Nat BY CallsAssumption DEF Init
<1>2. Holds(s, program.host, FALSE) /\ s.gcstp = FALSE BY <1>1, StartHolds
<1>3. L = s.L /\ C = s.C /\ gcstp = FALSE BY DEF Init
<1> HIDE DEF s
<1>4. PICK G : Body(s, G, program.host, FALSE) BY <1>2 DEF Holds
<1>5. State(s) BY <1>4 DEF Body
<1>6. Now.L = s.L /\ Now.C = s.C /\ Now.gcstp = s.gcstp /\ DOMAIN Now = StateFields BY <1>2, <1>3 DEF Now, StateFields
<1>7. State(Now) BY <1>5, <1>6 DEF State
<1>8. Same(s, Now) BY <1>6, <1>7 DEF Same, InC
<1>9. Holds(Now, program.host, FALSE) BY <1>2, <1>8, HoldsSame
<1> QED BY <1>9, Zenon DEF IInv

-----------------------------------------------------------------------------
(* The theorems.                                                            *)

\* The C stack and the threads always fit each other, whatever the program
\* does: with errors, yields and variables that are closed anywhere.
THEOREM CallsInvariant == Spec => []IInv
<1>1. Init => IInv BY InitHolds
<1>2. IInv /\ [Next]_vars => IInv'
  <2> SUFFICES ASSUME IInv, [Next]_vars PROVE IInv' OBVIOUS
  <2>1. Holds(Now', program.host', FALSE) BY Step, Zenon DEF IInv
  <2> QED BY <2>1, Zenon DEF IInv
<1> QED BY <1>1, <1>2, PTL DEF Spec

\* While the collector is stopped only in a finalizer, the invariant says so.
LEMMA CollectingHolds ==
  ASSUME IInv, Collecting
  PROVE  Holds(Now, program.host, TRUE)
<1> DEFINE h == program.host
<1>1. Now.gcstp = gcstp /\ Now.C = C BY DEF Now
<1>2. PICK G : Body(Now, G, h, FALSE) /\ Running(Now, G) /\ Returned(Now) BY DEF IInv, Holds
<1>3. C \in Seq(Acts) BY <1>1, <1>2, TopFacts, Zenon
<1>4. DOMAIN C = 1..Len(C) BY <1>3
<1>5. Collects(Now, TRUE) BY <1>1, <1>2, <1>4 DEF Collects, Collecting, Body
<1>6. Body(Now, G, h, TRUE) BY <1>2, <1>5 DEF Body
<1> QED BY <1>2, <1>6 DEF Holds

\* The collector is stopped by itself only while a finalizer runs: no error,
\* yield or closing in one leaves it so, but for a coroutine closing itself.
THEOREM CollectorIsNotLeftStopped == Spec => CollectorRuns
<1>1. IInv /\ [Next]_vars => (Collecting => Collecting' \/ ClosesItself)
  <2> SUFFICES ASSUME IInv, [Next]_vars, Collecting, ~ClosesItself PROVE Collecting' OBVIOUS
  <2>1. Holds(Now, program.host, TRUE) BY CollectingHolds
  <2>2. Holds(Now', program.host', TRUE) BY <2>1, Step
  <2>3. PICK G : Body(Now', G, program.host', TRUE) BY <2>2 DEF Holds
  <2>4. Now'.C \in Seq(Acts) BY <2>3, TopFacts
  <2>5. Collects(Now', TRUE) BY <2>3 DEF Body
  <2>6. Now'.C = C' /\ Now'.gcstp = gcstp' BY DEF Now
  <2>7. DOMAIN C' = 1..Len(C') BY <2>4, <2>6
  <2> QED BY <2>5, <2>6, <2>7 DEF Collects, Collecting
<1>2. IInv /\ [Next]_vars => [Collecting => Collecting' \/ ClosesItself]_vars BY <1>1
<1> QED BY <1>2, CallsInvariant, PTL DEF Spec, CollectorRuns

\* An open upvalue is a live slot of its thread's stack.
THEOREM UpvaluesAreAlive == Spec => []OpenUpvaluesAreAlive
<1>1. IInv => OpenUpvaluesAreAlive
  <2> SUFFICES ASSUME IInv, NEW t \in Threads, NEW p \in L[t].open PROVE p <= Len(L[t].stack) BY DEF OpenUpvaluesAreAlive
  <2>1. PICK G : Body(Now, G, program.host, FALSE) BY DEF IInv, Holds
  <2>2. Now.L = L BY DEF Now
  <2>3. ThreadInv(L[t]) BY <2>1, <2>2 DEF Body
  <2> DEFINE n == Len(L[t].stack)
  <2>4. n \in Nat /\ p \in 2..n BY <2>3 DEF ThreadInv, Stacked
  <2> HIDE DEF n
  <2>5. p <= n BY <2>4
  <2> QED BY <2>5 DEF n
<1> QED BY <1>1, CallsInvariant, PTL

\* A thread that may yield has nothing on the C stack, and one that has yielded
\* nothing in its frames, that could not go on.
THEOREM YieldsCanGoOn == Spec => []YieldsLoseNothing
<1>1. IInv => YieldsLoseNothing
  <2> SUFFICES ASSUME IInv PROVE YieldsLoseNothing OBVIOUS
  <2>1. Now.L = L /\ Now.C = C BY DEF Now
  <2>2. ASSUME Top(Now).at = "execute", yieldable(Now, self)
        PROVE  \A i \in DOMAIN C : C[i].th = self /\ C[i].at = "ccall" => C[i].nny = 0
    <3>1. PICK G : LuaRuns(Now, G, program.host, FALSE, self) BY <2>2, Executes DEF IInv, self
    <3> DEFINE n == Len(C)
    <3>2. /\ Body(Now, G, program.host, FALSE) /\ C[n].at = "execute" /\ C[n].th = self /\ Settled(L[self], C[n], G[n])
      BY <2>1, <3>1 DEF LuaRuns
    <3>3. C \in Seq(Acts) /\ n \in 1..n /\ Chain(C, G, program.host) BY <2>1, <3>2, TopFacts, Zenon
    <3>4. G[n].e = 0 BY <2>1, <2>2, <3>2 DEF Settled, yieldable
    <3>5. Quiet(C, G, n) BY <3>3 DEF Chain
    <3>6. ~Closing(C[n]) BY <3>2 DEF Closing
    <3>7. DOMAIN C = 1..n BY <3>3
    <3> HIDE DEF n
    <3> QED BY <3>2, <3>4, <3>5, <3>6, <3>7 DEF Quiet
  <2>3. ASSUME NEW t \in Coroutines, L[t].status = "YIELD", NEW i \in 2..(Len(L[t].ci) - 1)
        PROVE  LET g == L[t].ci[i] IN g.lua \/ g.k \/ g.tbc
    <3>1. PICK G : Body(Now, G, program.host, FALSE) BY DEF IInv, Holds
    <3>2. t \in Threads BY DEF Threads
    <3>3. Suspended(L[t]) BY <2>1, <3>1, <3>2 DEF Body, ThreadInv
    <3> QED BY <2>3, <3>3 DEF Suspended, Passes
  <2> QED BY <2>2, <2>3 DEF YieldsLoseNothing
<1> QED BY <1>1, CallsInvariant, PTL

\* The calls that count, up to k.
CountedCalls(c, k) == {i \in 1..k : \/ c[i].at = "ccall" /\ c[i].inc = 1
                                    \/ c[i].at = "lua_resume"}
\* One activation more counts as its ghost says.
LEMMA CountsOneMore ==
  ASSUME NEW c, NEW G, NEW h \in Nat, Chain(c, G, h), NEW k \in Nat \ {0}, k < Len(c), G[k].c = h + Cardinality(CountedCalls(c, k))
  PROVE  G[k + 1].c = h + Cardinality(CountedCalls(c, k + 1))
<1> DEFINE A == CountedCalls(c, k)   B == CountedCalls(c, k + 1)   b == c[k + 1]   l == k + 1   n == Len(c)
<1>1. c \in Seq(Acts) /\ G \in Seq(Ghosts) /\ n \in Nat /\ Len(G) = n BY DEF Chain, Chained
<1>2. k \in 1..(n - 1) /\ l \in 1..n
  <2> HIDE DEF n
  <2> QED BY <1>1 DEF n
<1>3. LinkCounts(G[k], b, G[l]) /\ LinkKinds(c[k], b) BY <1>2 DEF Chain, Chained, Link
<1>4. b \in Acts BY <1>1, <1>2
<1>5. b.at = "ccall" => b.inc \in {0, 1} BY <1>4, Kinds DEF CallActs
<1>6. IsFiniteSet(A) /\ Cardinality(A) \in Nat
  <2>1. A \subseteq 1..k BY DEF CountedCalls
  <2>2. IsFiniteSet(1..k)
    <3>1. 1 \in Int /\ k \in Int OBVIOUS
    <3> QED BY <3>1, FS_Interval
  <2> QED BY <2>1, <2>2, FS_Subset, FS_CardinalityType
<1>7. l \notin A
  <2>1. A \subseteq 1..k BY DEF CountedCalls
  <2>2. l \notin 1..k OBVIOUS
  <2> QED BY <2>1, <2>2
<1>8. \A i : i \in 1..l <=> (i \in 1..k \/ i = l) OBVIOUS
<1> HIDE DEF l, n
<1>9. CASE (b.at = "ccall" /\ b.inc = 1) \/ b.at = "lua_resume"
  <2>1. B = A \union {l} BY <1>8, <1>9 DEF CountedCalls, l
  <2> HIDE DEF A, B
  <2>2. Cardinality(B) = Cardinality(A) + 1 BY <1>6, <1>7, <2>1, FS_AddElement
  <2>3. G[l].c = G[k].c + 1 BY <1>3, <1>9 DEF LinkCounts
  <2>4. G[l].c = h + Cardinality(A) + 1 BY <2>3 DEF A
  <2>5. G[l].c = h + Cardinality(B) BY <1>6, <2>2, <2>4
  <2> QED BY <2>5 DEF B, l
<1>10. CASE ~((b.at = "ccall" /\ b.inc = 1) \/ b.at = "lua_resume")
  <2>1. B = A BY <1>8, <1>10 DEF CountedCalls, l
  <2>2. G[l].c = G[k].c + 0
    <3>1. b.at # "lua_resume" /\ (b.at = "ccall" => b.inc = 0) BY <1>5, <1>10
    <3> QED BY <1>3, <3>1 DEF LinkCounts
  <2>3. G[l].c = h + Cardinality(A) BY <1>6, <2>2 DEF A
  <2> QED BY <2>1, <2>3 DEF B, l
<1> QED BY <1>9, <1>10

\* The count of C calls is what is on the C stack.
THEOREM CCallsCounted == Spec => []CCallsAreCounted
<1>1. ASSUME NEW c, NEW G, NEW h \in Nat, Chain(c, G, h)
      PROVE  \A k \in 1..Len(c) : G[k].c = h + Cardinality(CountedCalls(c, k))
  <2> DEFINE n == Len(c)   P(k) == G[k].c = h + Cardinality(CountedCalls(c, k))
             T == {i \in Nat : i + 1 <= n => P(i + 1)}
  <2>1. n \in Nat /\ n >= 1 /\ G[1].c = h /\ c[1].at = "host" BY <1>1 DEF Chain, Chained
  <2>2. P(1)
    <3>1. \A i \in 1..1 : i = 1 OBVIOUS
    <3>2. CountedCalls(c, 1) = {} BY <2>1, <3>1 DEF CountedCalls
    <3>3. Cardinality(CountedCalls(c, 1)) = 0 BY <3>2, FS_EmptySet
    <3>4. h + 0 = h OBVIOUS
    <3> QED BY <2>1, <3>3, <3>4
  <2>3. 0 \in T
    <3>1. P(0 + 1) BY <2>2
    <3> HIDE DEF P
    <3> QED BY <3>1
  <2>4. ASSUME NEW i \in T PROVE i + 1 \in T
    <3>1. i \in Nat /\ (i + 1 <= n => P(i + 1)) OBVIOUS
    <3> DEFINE k == i + 1
    <3>2. k \in Nat \ {0} /\ (k <= n => P(k)) BY <3>1
    <3> HIDE DEF k, n
    <3> SUFFICES ASSUME k + 1 <= n PROVE P(k + 1) BY <3>2 DEF k
    <3>3. k <= n /\ k < n BY <2>1, <3>2
    <3>4. P(k) BY <3>2, <3>3
    <3> QED BY <1>1, <3>2, <3>3, <3>4, CountsOneMore DEF n
  <2>5. T = Nat
    <3>1. T \in SUBSET Nat OBVIOUS
    <3> HIDE DEF T
    <3> QED BY <2>3, <2>4, <3>1, SetInduction
  <2> SUFFICES ASSUME NEW k \in 1..n PROVE P(k) OBVIOUS
  <2>6. k - 1 \in Nat /\ (k - 1) + 1 = k /\ k <= n
    <3> HIDE DEF n, P, T
    <3> QED BY <2>1
  <2>7. k - 1 \in T BY <2>5, <2>6
  <2> HIDE DEF P, n
  <2> QED BY <2>6, <2>7
<1>2. IInv /\ program \in Repertoires => CCallsAreCounted
  <2> SUFFICES ASSUME IInv, program \in Repertoires, Top(Now).at = "execute"
               PROVE  L[self].nC = program.host + Cardinality({i \in DOMAIN C : \/ C[i].at = "ccall" /\ C[i].inc = 1
                                                                            \/ C[i].at = "lua_resume"})
    BY DEF CCallsAreCounted
  <2>1. Now.L = L /\ Now.C = C BY DEF Now
  <2> DEFINE n == Len(C)   h == program.host
  <2>0. h \in Nat BY CallsAssumption
  <2>2. PICK G : LuaRuns(Now, G, h, FALSE, self) BY Executes DEF IInv, self
  <2>3. Body(Now, G, h, FALSE) /\ Settled(L[self], C[n], G[n]) BY <2>1, <2>2 DEF LuaRuns
  <2>4. C \in Seq(Acts) /\ n \in 1..n /\ Chain(C, G, h) BY <2>1, <2>3, TopFacts
  <2>5. G[n].c = h + Cardinality(CountedCalls(C, n)) BY <1>1, <2>0, <2>4
  <2>6. L[self].nC = G[n].c BY <2>3 DEF Settled
  <2>7. CountedCalls(C, n) = {i \in DOMAIN C : \/ C[i].at = "ccall" /\ C[i].inc = 1
                                               \/ C[i].at = "lua_resume"}
    BY <2>4 DEF CountedCalls
  <2> QED BY <2>5, <2>6, <2>7
<1>3. Spec => []IInv BY CallsInvariant
<1>4. Spec => [](program \in Repertoires)
  <2>1. Init => program \in Repertoires BY DEF Init
  <2>2. [Next]_vars => UNCHANGED program
    BY Zenon DEF vars, Next, NewVariable, Capture, FinishClose, OP_RETURN, OP_CALL, OP_TAILCALL, luaT_callTMres, OP_CLOSE,
           Sort, DoFile, CFunctionWithVariable, Pcall, Xpcall, Raise, RaiseNil, NoMemory, Yield, Finalizer, Continue,
           Resume, Wrap, Close, Become
  <2>3. program \in Repertoires /\ [Next]_vars => (program \in Repertoires)' BY <2>2
  <2> QED BY <2>1, <2>3, PTL DEF Spec
<1> QED BY <1>2, <1>3, <1>4, PTL
==============================================================================
