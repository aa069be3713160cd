----------------------------- MODULE LuaCallsFacts -----------------------------
(***************************************************************************)
(* Facts about LuaCalls.  The inductive invariant describes the C stack:   *)
(* which activation calls which (Link), and what each knows of its         *)
(* thread's frames, upvalues and counts (Fits).  What an activation        *)
(* depends on but does not hold itself is in a second sequence that runs   *)
(* along the C stack, of which the invariant says only that there is one:  *)
(*   d  how many frames the thread has when the activation is on the top   *)
(*   b  luaV_execute above ccall: its first frame; otherwise 0             *)
(*   c, e  the thread's nC and nny when the activation is on the top       *)
(*   j  where the protected activation is that an error would go to        *)
(* It is stated here, with what it says of the C stack, the frames and the *)
(* upvalues, and with what Lua code and the calls it makes do to it; what C*)
(* code does and the theorems are in LuaCallsProofs.                       *)
(***************************************************************************)
EXTENDS LuaCalls, NatFacts, FiniteSetTheorems, SequenceTheorems

Statuses == {"OK", "YIELD"} \union Failures
Ends == {"OK"} \union Failures
CoCallers == {"luaB_coresume", "luaB_auxwrap", "luaB_auxwrap_closed", "luaB_close"}
PlainCallers == {"luaB_pcall", "lua_callk", "C_function", "error", "yield"}
Callers == PlainCallers \union CoCallers             \* C functions that Lua code calls
Switches == {"lua_resume", "lua_closethread"}        \* they go on in another thread

PlainActs == [at : {"host", "execute", "unroll", "luaG_errormsg"} \union PlainCallers, th : Threads]
CoActs == [at : CoCallers, th : Threads, co : Threads, status : Statuses \union {"not_resumed"}]
CallActs == [at : {"ccall"}, th : Threads, inc : {0, 1}, nny : {0, 1}]
RawActs == [at : {"luaD_pcall", "closeprotected", "lua_resume", "luaD_pcall_error"}, th : Threads,
            status : Statuses, nC : Int, nny : Int, old_ci : Nat, level : Nat, errfunc : Nat, closing : Ends]
CloseActs == [at : {"luaF_close"}, th : Threads, level : Nat, status : Ends \union {"CLOSEKTOP"}, yy : BOOLEAN]
ThreadActs == [at : {"lua_closethread"}, th : Threads, from : Threads, status : Ends]
GCActs == [at : {"GCTM"}, th : Threads, level : Nat, oldgcstp : {FALSE}]
Acts == UNION {PlainActs, CoActs, CallActs, RawActs, CloseActs, ThreadActs, GCActs}

Ghosts == [d : Nat \ {0}, b : Nat, c : Int, e : Nat, j : Nat]

-----------------------------------------------------------------------------
(* The C stack.                                                             *)

\* Which activations call which.
MayCall(x, y) ==
    \/ y = "execute" /\ x \in {"ccall", "unroll"}
    \/ y \in Callers \union {"GCTM"} /\ x = "execute"
    \/ y = "ccall" /\ x \in {"luaD_pcall", "luaG_errormsg", "execute", "luaB_pcall", "lua_callk", "lua_resume", "luaF_close"}
    \/ y \in {"luaD_pcall", "luaD_pcall_error"} /\ x \in {"host", "luaB_pcall", "GCTM"}
    \/ y = "closeprotected" /\ x \in {"luaD_pcall_error", "lua_closethread"}
    \/ y = "luaF_close" /\ x \in {"execute", "C_function", "unroll", "closeprotected"}
    \/ y = "luaG_errormsg" /\ x \in {"execute", "ccall", "error", "yield"} \union CoCallers
    \/ y = "lua_resume" /\ x \in {"luaB_coresume", "luaB_auxwrap"}
    \/ y = "lua_closethread" /\ x \in {"luaB_auxwrap_closed", "luaB_close"}
    \/ y = "unroll" /\ x = "lua_resume"

\* b with ghost h directly above a with ghost g.
LinkThreads(a, b) ==
    /\ IF b.at \in Switches THEN a.co = b.th ELSE a.th = b.th
    /\ b.at = "lua_resume" => a.th # b.th
    /\ b.at = "lua_closethread" => b.from = a.th
LinkKinds(a, b) ==
    /\ MayCall(a.at, b.at)
    /\ IsRawRun(a) => a.status = "OK"
    /\ b.at = "ccall" => /\ b.inc = IF a.at = "lua_resume" THEN 0 ELSE 1
                         /\ a.at \in {"luaD_pcall", "luaG_errormsg"} => b.nny = 1
                         /\ a.at = "luaF_close" /\ ~a.yy => b.nny = 1
    /\ a.at = "closeprotected" => b.level = a.level /\ ~b.yy /\ b.status # "CLOSEKTOP"
    /\ a.at = "lua_closethread" => b.level = 2
LinkCounts(g, b, h) ==
    /\ h.c = g.c + (IF b.at = "ccall" THEN b.inc ELSE IF b.at = "lua_resume" THEN 1 ELSE 0)
    /\ h.e = IF b.at \in Switches THEN 0 ELSE IF b.at = "ccall" THEN g.e + b.nny ELSE g.e
LinkFrames(a, g, b, h) ==
    /\ b.at \in Callers => h.d = g.d + 1
    /\ b.at = "execute" => IF a.at = "ccall" THEN h.b = g.d + 1 /\ h.b <= h.d ELSE h.b = 0
    /\ a.at = "unroll" => h.d >= 2
    /\ b.at \notin Callers \union Switches \union {"execute", "unroll"} /\ a.at # "unroll" => h.d = g.d
Link(a, g, b, h) == LinkThreads(a, b) /\ LinkKinds(a, b) /\ LinkCounts(g, b, h) /\ LinkFrames(a, g, b, h)

\* What an activation holds of its own ghost.
Own(a, g) ==
    /\ IsRawRun(a) => a.nC = g.c /\ a.nny = g.e
    /\ a.at \in {"luaD_pcall", "closeprotected"} => a.old_ci = g.d
    /\ a.at \in {"lua_resume", "unroll", "lua_closethread"} => g.d = 1 /\ g.e = 0

\* A thread that closes itself cuts off the frames of its activations below.
Live(c, i, k) == \A l \in (i + 1)..k : ~(c[l].at = "lua_closethread" /\ c[l].th = c[i].th)

\* Where an error goes to from activation k, whose ghost is g.
Target(a, k, below) ==
    IF IsRawRun(a) THEN k ELSE IF a.at = "lua_closethread" THEN 0 ELSE below
Innermost(c, G, k) ==
    /\ G[k].j \in 0..k
    /\ G[k].j = 0 => c[k].at \in {"host", "lua_closethread", "luaD_pcall_error"}
    /\ G[k].j # 0 => /\ IsRawRun(c[G[k].j])
                     /\ \A i \in G[k].j..k : c[i].th = c[k].th
                     /\ \A i \in (G[k].j + 1)..k : ~IsRawRun(c[i])

\* Where yielding is not counted as impossible nothing is in its way.
Closing(a) == \/ a.at \in {"luaD_pcall", "luaD_pcall_error", "closeprotected", "lua_closethread"}
              \/ a.at = "luaF_close" /\ ~a.yy
Quiet(c, G, k) ==
    G[k].e = 0 /\ ~Closing(c[k]) =>
        /\ c[G[k].j].at = "lua_resume"
        /\ \A i \in 1..k : c[i].th = c[k].th /\ c[i].at = "ccall" => c[i].nny = 0

Levelled(a) == a.at \in {"luaD_pcall", "closeprotected"}
\* Activations of a thread have no fewer frames than those below, and only
\* some share theirs with a protected activation.
Ordered(c, G, k) ==
    \A i \in 1..(k - 1) : c[i].th = c[k].th /\ Live(c, i, k) =>
        /\ G[i].d <= G[k].d
        /\ Levelled(c[i]) /\ G[i].d = G[k].d =>
              \/ c[k].at \in {"ccall", "luaG_errormsg"}
              \/ c[k].at = "luaF_close" /\ c[i].level = c[k].level /\ c[k].status # "CLOSEKTOP"

Chained(c, G, h) ==
    /\ c \in Seq(Acts) /\ G \in Seq(Ghosts) /\ Len(c) = Len(G) /\ Len(c) >= 1
    /\ c[1].at = "host" /\ c[1].th = Main /\ G[1].d = 1 /\ G[1].c = h /\ G[1].e = 1 /\ G[1].j = 0
    /\ \A k \in 1..(Len(c) - 1) : /\ Link(c[k], G[k], c[k + 1], G[k + 1])
                                  /\ G[k + 1].j = Target(c[k + 1], k + 1, G[k].j)
    /\ \A k \in 1..Len(c) : Own(c[k], G[k]) /\ (c[k].at \in Switches => c[k].th # Main)
Contiguous(c) ==
    \A i, j \in 1..Len(c) : c[i].th = c[j].th => \A k \in i..j : c[k].th = c[i].th
Chain(c, G, h) ==
    /\ Chained(c, G, h) /\ Contiguous(c)
    /\ \A k \in 1..Len(c) : Innermost(c, G, k) /\ Quiet(c, G, k) /\ Ordered(c, G, k)

\* The kinds of activations and what they consist of.
LEMMA Kinds ==
  ASSUME NEW a \in Acts
  PROVE  /\ a.th \in Threads
         /\ a.at = "ccall" => a \in CallActs
         /\ a.at = "luaF_close" => a \in CloseActs
         /\ a.at = "lua_closethread" => a \in ThreadActs
         /\ a.at = "GCTM" => a \in GCActs
         /\ a.at \in CoCallers => a \in CoActs
         /\ IsRawRun(a) \/ a.at = "luaD_pcall_error" => a \in RawActs
         /\ a.at \in {"host", "execute", "unroll", "luaG_errormsg"} \union PlainCallers => a \in PlainActs
<1>1. CASE a \in PlainActs BY <1>1 DEF PlainActs, PlainCallers, CoCallers, IsRawRun
<1>2. CASE a \in CoActs BY <1>2 DEF CoActs, PlainCallers, CoCallers, IsRawRun
<1>3. CASE a \in CallActs BY <1>3 DEF CallActs, PlainCallers, CoCallers, IsRawRun
<1>4. CASE a \in RawActs BY <1>4 DEF RawActs, PlainCallers, CoCallers, IsRawRun
<1>5. CASE a \in CloseActs BY <1>5 DEF CloseActs, PlainCallers, CoCallers, IsRawRun
<1>6. CASE a \in ThreadActs BY <1>6 DEF ThreadActs, PlainCallers, CoCallers, IsRawRun
<1>7. CASE a \in GCActs BY <1>7 DEF GCActs, PlainCallers, CoCallers, IsRawRun
<1> QED BY <1>1, <1>2, <1>3, <1>4, <1>5, <1>6, <1>7 DEF Acts

\* One activation more, and its ghost.
LEMMA AppendAct ==
  ASSUME NEW c \in Seq(Acts), NEW G \in Seq(Ghosts), Len(c) = Len(G), NEW a \in Acts, NEW g \in Ghosts
  PROVE  /\ Append(c, a) \in Seq(Acts) /\ Append(G, g) \in Seq(Ghosts)
         /\ Len(c) \in Nat /\ Len(Append(c, a)) = Len(c) + 1 /\ Len(Append(G, g)) = Len(c) + 1
         /\ \A i \in 1..Len(c) : Append(c, a)[i] = c[i] /\ Append(G, g)[i] = G[i] /\ c[i] \in Acts /\ G[i] \in Ghosts
         /\ Append(c, a)[Len(c) + 1] = a /\ Append(G, g)[Len(c) + 1] = g
<1> QED OBVIOUS

\* The host is at the bottom, and everything else may jump somewhere.
LEMMA HostFirst ==
  ASSUME NEW c, NEW G, NEW h, Chained(c, G, h), NEW k \in 1..Len(c), c[k].at = "host"
  PROVE  k = 1
<1> SUFFICES ASSUME k # 1 PROVE FALSE
  OBVIOUS
<1>1. Len(c) \in Nat BY DEF Chained
<1>2. k - 1 \in 1..(Len(c) - 1) /\ (k - 1) + 1 = k BY <1>1
<1>3. Link(c[k - 1], G[k - 1], c[k], G[k]) BY <1>2 DEF Chained
<1> QED BY <1>3 DEF Link, LinkKinds, MayCall, Callers, CoCallers, PlainCallers

\* What is known of an activation and of where an error in it goes to.
LEMMA JumpTarget ==
  ASSUME NEW c, NEW G, NEW h, Chain(c, G, h), NEW k \in 1..Len(c)
  PROVE  /\ c \in Seq(Acts) /\ G \in Seq(Ghosts) /\ Len(c) = Len(G) /\ Len(c) \in Nat
         /\ k \in Nat /\ c[k] \in Acts /\ G[k] \in Ghosts
         /\ Own(c[k], G[k]) /\ Innermost(c, G, k) /\ Quiet(c, G, k) /\ Ordered(c, G, k)
         /\ G[k].j = 0 \/ G[k].j \in 1..k
         /\ c[k].at \notin {"host", "lua_closethread", "luaD_pcall_error"} => G[k].j \in 1..k
         /\ G[k].e = 0 /\ ~Closing(c[k]) => G[k].j \in 1..k
<1>1. c \in Seq(Acts) /\ G \in Seq(Ghosts) /\ Len(c) = Len(G) /\ Len(c) \in Nat /\ Chained(c, G, h)
  BY DEF Chain, Chained
<1>2. k \in Nat /\ c[k] \in Acts /\ G[k] \in Ghosts
  BY <1>1
<1>3. Own(c[k], G[k]) /\ Innermost(c, G, k) /\ Quiet(c, G, k) /\ Ordered(c, G, k)
  BY DEF Chain, Chained
<1>4. /\ G[k].j \in 0..k
      /\ G[k].j = 0 => c[k].at \in {"host", "lua_closethread", "luaD_pcall_error"}
  BY <1>3 DEF Innermost
<1>5. G[k].j = 0 \/ G[k].j \in 1..k
  <2>1. G[k].j \in 0..k /\ k \in Nat BY <1>2, <1>4
  <2> QED BY <2>1
<1>6. c[k].at = "host" => G[k].e # 0
  BY <1>1, HostFirst DEF Chained
<1>7. G[k].e = 0 /\ ~Closing(c[k]) => G[k].j # 0
  BY <1>4, <1>6 DEF Closing
<1> QED BY <1>1, <1>2, <1>3, <1>4, <1>5, <1>7

\* A call makes the C stack longer.
Calls(c, G, a, g) ==
    LET n == Len(c)
    IN  /\ a \in Acts /\ g \in Ghosts /\ Link(c[n], G[n], a, g) /\ Own(a, g)
        /\ a.at \in Switches => a.th # Main
        /\ a.th # c[n].th => \A i \in 1..n : c[i].th # a.th
        /\ g.j = Target(a, n + 1, G[n].j)
\* The C stack stays as it should be.
LEMMA ChainPush ==
  ASSUME NEW c, NEW G, NEW h, NEW a, NEW g, Chain(c, G, h), Calls(c, G, a, g)
  PROVE  Chain(Append(c, a), Append(G, g), h)
<1> DEFINE n == Len(c)   c2 == Append(c, a)   G2 == Append(G, g)
<1>1. /\ c \in Seq(Acts) /\ G \in Seq(Ghosts) /\ Len(c) = Len(G) /\ n \in Nat /\ n >= 1 /\ a \in Acts /\ g \in Ghosts
  BY DEF Chain, Chained, Calls
<1>2. /\ c2 \in Seq(Acts) /\ G2 \in Seq(Ghosts) /\ Len(c2) = n + 1 /\ Len(G2) = n + 1
      /\ \A i \in 1..n : c2[i] = c[i] /\ G2[i] = G[i] /\ c[i] \in Acts /\ G[i] \in Ghosts
      /\ c2[n + 1] = a /\ G2[n + 1] = g
  BY <1>1, AppendAct
<1>3. Link(c[n], G[n], a, g) /\ Own(a, g) /\ (a.at \in Switches => a.th # Main) /\ g.j = Target(a, n + 1, G[n].j)
  BY DEF Calls
<1> HIDE DEF c2, G2
<1>4. Chained(c2, G2, h)
  <2>1. /\ c[1].at = "host" /\ c[1].th = Main /\ G[1].d = 1 /\ G[1].c = h /\ G[1].e = 1 /\ G[1].j = 0
        /\ \A k \in 1..(n - 1) : Link(c[k], G[k], c[k + 1], G[k + 1]) /\ G[k + 1].j = Target(c[k + 1], k + 1, G[k].j)
        /\ \A k \in 1..n : Own(c[k], G[k]) /\ (c[k].at \in Switches => c[k].th # Main)
    BY DEF Chain, Chained
  <2>2. ASSUME NEW k \in 1..((n + 1) - 1)
        PROVE  Link(c2[k], G2[k], c2[k + 1], G2[k + 1]) /\ G2[k + 1].j = Target(c2[k + 1], k + 1, G2[k].j)
    <3>1. CASE k = n BY <1>1, <1>2, <1>3, <3>1
    <3>2. CASE k # n
      <4>1. k \in 1..(n - 1) /\ k \in 1..n /\ k + 1 \in 1..n BY <1>1, <3>2
      <4> QED BY <1>2, <2>1, <4>1
    <3> QED BY <3>1, <3>2
  <2>3. ASSUME NEW k \in 1..(n + 1) PROVE Own(c2[k], G2[k]) /\ (c2[k].at \in Switches => c2[k].th # Main)
    <3>1. CASE k = n + 1 BY <1>2, <1>3, <3>1
    <3>2. CASE k # n + 1
      <4>1. k \in 1..n BY <1>1, <3>2
      <4> QED BY <1>2, <2>1, <4>1
    <3> QED BY <3>1, <3>2
  <2>4. 1 \in 1..n BY <1>1
  <2> QED BY <1>1, <1>2, <2>1, <2>2, <2>3, <2>4 DEF Chained
<1>5. Contiguous(c) /\ (a.th # c[n].th => \A i \in 1..n : c[i].th # a.th)
  BY DEF Chain, Calls
<1>6. Contiguous(c2)
  <2> SUFFICES ASSUME NEW i \in 1..(n + 1), NEW l \in 1..(n + 1), c2[i].th = c2[l].th, NEW k \in i..l
               PROVE  c2[k].th = c2[i].th
    BY <1>2 DEF Contiguous
  <2>1. CASE l # n + 1
    <3>1. i \in 1..n /\ l \in 1..n /\ k \in 1..n BY <1>1, <2>1
    <3> QED BY <1>2, <1>5, <3>1 DEF Contiguous
  <2>2. CASE l = n + 1 /\ i # n + 1 /\ k # n + 1
    <3>1. i \in 1..n /\ n \in 1..n /\ k \in 1..n /\ k \in i..n BY <1>1, <2>2
    <3>2. c[i].th = c[n].th BY <1>2, <1>5, <2>2, <3>1
    <3> QED BY <1>2, <1>5, <3>1, <3>2 DEF Contiguous
  <2>3. CASE i = n + 1 \/ k = n + 1
    <3>1. k = i \/ (k = n + 1 /\ l = n + 1) BY <1>1, <2>3
    <3> QED BY <3>1
  <2> QED BY <2>1, <2>2, <2>3
<1>7. ASSUME NEW k \in 1..n PROVE Innermost(c2, G2, k) /\ Quiet(c2, G2, k) /\ Ordered(c2, G2, k)
  <2>1. /\ Innermost(c, G, k) /\ Quiet(c, G, k) /\ Ordered(c, G, k)
        /\ G[k].j = 0 \/ G[k].j \in 1..k
        /\ G[k].e = 0 /\ ~Closing(c[k]) => G[k].j \in 1..k
    BY JumpTarget
  <2>2. k \in Nat /\ c2[k] = c[k] /\ G2[k] = G[k] /\ \A i \in 1..k : i \in 1..n /\ c2[i] = c[i] /\ G2[i] = G[i]
    BY <1>1, <1>2
  <2>3. Innermost(c2, G2, k)
    <3>1. \A i \in G[k].j..k : G[k].j # 0 => i \in 1..k BY <2>1, <2>2
    <3>2. \A i \in (G[k].j + 1)..k : G[k].j # 0 => i \in 1..k BY <2>1, <2>2
    <3> QED BY <2>1, <2>2, <3>1, <3>2 DEF Innermost
  <2>4. Quiet(c2, G2, k)
    BY <2>1, <2>2 DEF Quiet
  <2>5. Ordered(c2, G2, k)
    <3>1. \A i \in 1..(k - 1) : i \in 1..k /\ (Live(c2, i, k) => Live(c, i, k))
      BY <1>1, <2>2 DEF Live
    <3> QED BY <2>1, <2>2, <3>1 DEF Ordered
  <2> QED BY <2>3, <2>4, <2>5
<1>8. /\ n \in 1..n /\ Innermost(c, G, n) /\ Quiet(c, G, n) /\ Ordered(c, G, n) /\ Own(c[n], G[n])
      /\ c[n] \in Acts /\ G[n] \in Ghosts /\ (G[n].j = 0 \/ G[n].j \in 1..n)
      /\ c[n].at \notin {"host", "lua_closethread", "luaD_pcall_error"} => G[n].j \in 1..n
      /\ G[n].e = 0 /\ ~Closing(c[n]) => G[n].j \in 1..n
  BY <1>1, JumpTarget
<1>9. g.j = IF IsRawRun(a) THEN n + 1 ELSE IF a.at = "lua_closethread" THEN 0 ELSE G[n].j
  BY <1>3 DEF Target
<1>10. a.at \notin Switches => a.th = c[n].th
  BY <1>3 DEF Link, LinkThreads
<1>11. Innermost(c2, G2, n + 1)
  <2>1. CASE IsRawRun(a)
    <3>1. g.j = n + 1 /\ n + 1 \in 0..(n + 1) /\ n + 1 # 0 BY <1>1, <1>9, <2>1
    <3>2. \A i \in (n + 1)..(n + 1) : i = n + 1 BY <1>1
    <3>3. \A i \in (n + 1 + 1)..(n + 1) : FALSE BY <1>1
    <3> QED BY <1>2, <2>1, <3>1, <3>2, <3>3 DEF Innermost
  <2>2. CASE a.at = "lua_closethread"
    <3>1. g.j = 0 /\ 0 \in 0..(n + 1) BY <1>1, <1>9, <2>2 DEF IsRawRun
    <3> QED BY <1>2, <2>2, <3>1 DEF Innermost
  <2>3. CASE ~IsRawRun(a) /\ a.at # "lua_closethread"
    <3>1. g.j = G[n].j /\ a.th = c[n].th BY <1>9, <1>10, <2>3 DEF Switches, IsRawRun
    <3>2. g.j \in 0..(n + 1) /\ (g.j # 0 => g.j \in 1..n) BY <1>1, <1>8, <3>1
    <3>3. g.j = 0 => a.at = "luaD_pcall_error"
      <4>1. g.j = 0 => c[n].at \in {"host", "lua_closethread", "luaD_pcall_error"} BY <1>8, <3>1, <3>2
      <4> QED BY <1>3, <2>3, <4>1 DEF Link, LinkKinds, MayCall, Callers, CoCallers, PlainCallers, IsRawRun
    <3>4. ASSUME g.j # 0 PROVE /\ IsRawRun(c2[g.j])
                              /\ \A i \in g.j..(n + 1) : c2[i].th = a.th
                              /\ \A k \in (g.j + 1)..(n + 1) : ~IsRawRun(c2[k])
      <4>1. /\ IsRawRun(c[g.j]) /\ \A i \in g.j..n : c[i].th = c[n].th
            /\ \A i \in (g.j + 1)..n : ~IsRawRun(c[i])
        BY <1>8, <3>1, <3>4 DEF Innermost
      <4>2. \A i \in g.j..(n + 1) : i = n + 1 \/ (i \in g.j..n /\ i \in 1..n) BY <1>1, <3>2, <3>4
      <4>3. \A i \in (g.j + 1)..(n + 1) : i = n + 1 \/ (i \in (g.j + 1)..n /\ i \in 1..n) BY <1>1, <3>2, <3>4
      <4> QED BY <1>2, <2>3, <3>1, <3>2, <3>4, <4>1, <4>2, <4>3, Zenon
    <3> QED BY <1>2, <3>2, <3>3, <3>4 DEF Innermost
  <2> QED BY <2>1, <2>2, <2>3
<1>12. Quiet(c2, G2, n + 1)
  <2> SUFFICES ASSUME g.e = 0, ~Closing(a)
               PROVE  /\ c2[g.j].at = "lua_resume"
                      /\ \A i \in 1..(n + 1) : c2[i].th = a.th /\ c2[i].at = "ccall" => c2[i].nny = 0
    BY <1>2 DEF Quiet
  <2>1. CASE a.at = "lua_resume"
    <3>1. g.j = n + 1 /\ a.th # c[n].th BY <1>3, <1>9, <2>1 DEF IsRawRun, Link, LinkThreads
    <3>2. \A i \in 1..n : c[i].th # a.th BY <1>5, <3>1
    <3>3. \A i \in 1..(n + 1) : i = n + 1 \/ i \in 1..n BY <1>1
    <3> QED BY <1>2, <2>1, <3>1, <3>2, <3>3
  <2>2. CASE a.at # "lua_resume"
    <3>1. ~IsRawRun(a) /\ a.at \notin Switches BY <2>2 DEF Closing, IsRawRun, Switches
    <3>2. g.j = G[n].j /\ a.th = c[n].th BY <1>9, <1>10, <3>1 DEF Switches
    <3>3. G[n].e = 0 /\ (a.at = "ccall" => a.nny = 0)
      <4>1. g.e = IF a.at = "ccall" THEN G[n].e + a.nny ELSE G[n].e BY <1>3, <3>1 DEF Link, LinkCounts
      <4>2. a.at = "ccall" => a.nny \in {0, 1} BY <1>1, Kinds DEF CallActs
      <4>3. G[n].e \in Nat BY <1>8 DEF Ghosts
      <4> QED BY <4>1, <4>2, <4>3
    <3>4. ~Closing(c[n])
      <4>1. c[n].at = "luaF_close" /\ ~c[n].yy => a.at = "ccall" /\ a.nny = 1
        BY <1>3 DEF Link, LinkKinds, MayCall, Callers, CoCallers, PlainCallers
      <4>2. c[n].at = "luaD_pcall" => a.at = "ccall" /\ a.nny = 1
        BY <1>3 DEF Link, LinkKinds, MayCall, Callers, CoCallers, PlainCallers
      <4>3. c[n].at # "luaD_pcall_error" /\ c[n].at # "lua_closethread"
        BY <1>3, <3>1 DEF Link, LinkKinds, MayCall, Callers, CoCallers, PlainCallers, IsRawRun
      <4>4. c[n].at # "closeprotected"
        <5>1. c[n].at = "closeprotected" => a.at = "luaF_close" /\ ~a.yy
          BY <1>3 DEF Link, LinkKinds, MayCall, Callers, CoCallers, PlainCallers
        <5> QED BY <5>1 DEF Closing
      <4> QED BY <3>3, <4>1, <4>2, <4>3, <4>4 DEF Closing
    <3>5. /\ c[G[n].j].at = "lua_resume" /\ G[n].j \in 1..n
          /\ \A i \in 1..n : c[i].th = c[n].th /\ c[i].at = "ccall" => c[i].nny = 0
      BY <1>8, <3>3, <3>4 DEF Quiet
    <3>6. \A i \in 1..(n + 1) : i = n + 1 \/ i \in 1..n BY <1>1
    <3> QED BY <1>2, <3>2, <3>3, <3>5, <3>6, Zenon
  <2> QED BY <2>1, <2>2
<1>13. Ordered(c2, G2, n + 1)
  <2> SUFFICES ASSUME NEW i \in 1..n, c[i].th = a.th, Live(c2, i, n + 1)
               PROVE  /\ G[i].d <= g.d
                      /\ Levelled(c[i]) /\ G[i].d = g.d =>
                            \/ a.at \in {"ccall", "luaG_errormsg"}
                            \/ a.at = "luaF_close" /\ c[i].level = a.level /\ a.status # "CLOSEKTOP"
    BY <1>1, <1>2 DEF Ordered
  <2>1. n + 1 \in (i + 1)..(n + 1) /\ i \in Nat
    BY <1>1
  <2>2. a.at # "lua_closethread"
    BY <1>2, <2>1 DEF Live
  <2>3. a.at # "lua_resume"
    BY <1>3, <1>5 DEF Link, LinkThreads
  <2>4. a.th = c[n].th
    BY <1>10, <2>2, <2>3 DEF Switches
  <2>5. Live(c, i, n)
    <3>1. \A l \in (i + 1)..n : l \in (i + 1)..(n + 1) /\ l \in 1..n BY <1>1
    <3> QED BY <1>2, <3>1 DEF Live
  <2>6. i < n => /\ G[i].d <= G[n].d
                 /\ Levelled(c[i]) /\ G[i].d = G[n].d =>
                       \/ c[n].at \in {"ccall", "luaG_errormsg"}
                       \/ c[n].at = "luaF_close" /\ c[i].level = c[n].level /\ c[n].status # "CLOSEKTOP"
    <3>1. i < n => i \in 1..(n - 1) BY <1>1
    <3> QED BY <1>8, <2>4, <2>5, <3>1 DEF Ordered
  <2>7. i < n \/ i = n
    BY <1>1
  <2>8. G[i].d \in Nat /\ G[n].d \in Nat /\ g.d \in Nat
    BY <1>1, <1>2, <1>8 DEF Ghosts
  <2>9. G[i].d <= G[n].d
    BY <2>6, <2>7, <2>8
  <2>10. /\ MayCall(c[n].at, a.at) /\ LinkFrames(c[n], G[n], a, g)
         /\ c[n].at = "closeprotected" => a.level = c[n].level /\ a.status # "CLOSEKTOP"
    BY <1>3 DEF Link, LinkKinds
  <2>11. CASE a.at \in Callers \/ (a.at = "execute" /\ c[n].at = "ccall")
    <3>1. a.at \in Callers => g.d = G[n].d + 1 BY <2>10 DEF LinkFrames
    <3>2. a.at = "execute" /\ c[n].at = "ccall" => g.b = G[n].d + 1 /\ g.b <= g.d BY <2>10 DEF LinkFrames
    <3>3. g.d > G[n].d BY <2>8, <2>11, <3>1, <3>2
    <3> QED BY <2>8, <2>9, <3>3
  <2>12. CASE c[n].at = "unroll"
    <3>1. g.d >= 2 /\ G[n].d = 1 BY <1>8, <2>10, <2>12 DEF LinkFrames, Own
    <3> QED BY <2>8, <2>9, <3>1
  <2>13. CASE a.at = "unroll"
    <3>1. c[n].at = "lua_resume" BY <2>10, <2>13 DEF MayCall, Callers, CoCallers, PlainCallers
    <3>2. g.d = 1 /\ G[n].d = 1 BY <1>3, <1>8, <2>13, <3>1 DEF Own
    <3>3. i = n => ~Levelled(c[i]) BY <3>1 DEF Levelled
    <3> QED BY <2>6, <2>7, <2>9, <3>1, <3>2, <3>3
  <2>14. CASE a.at \notin Callers \union {"execute", "unroll"} /\ c[n].at # "unroll"
    <3>1. g.d = G[n].d BY <2>2, <2>3, <2>10, <2>14 DEF LinkFrames, Switches
    <3>2. CASE a.at \in {"ccall", "luaG_errormsg"} BY <2>9, <3>1, <3>2
    <3>3. CASE a.at \notin {"ccall", "luaG_errormsg"}
      <4>1. /\ c[n].at \notin {"ccall", "luaG_errormsg", "luaF_close", "luaD_pcall"}
            /\ c[n].at = "closeprotected" => a.at = "luaF_close"
        BY <2>2, <2>3, <2>10, <2>14, <3>3 DEF MayCall, Callers, CoCallers, PlainCallers
      <4>2. i < n => ~(Levelled(c[i]) /\ G[i].d = G[n].d) BY <2>6, <4>1
      <4>3. i = n /\ Levelled(c[i]) => a.at = "luaF_close" /\ c[i].level = a.level /\ a.status # "CLOSEKTOP"
        BY <2>10, <4>1 DEF Levelled
      <4> QED BY <2>7, <2>9, <3>1, <4>2, <4>3
    <3> QED BY <3>2, <3>3
  <2>15. a.at = "execute" => c[n].at \in {"ccall", "unroll"}
    BY <2>10 DEF MayCall, Callers, CoCallers, PlainCallers
  <2> QED BY <2>11, <2>12, <2>13, <2>14, <2>15
<1>14. ASSUME NEW k \in 1..(n + 1) PROVE Innermost(c2, G2, k) /\ Quiet(c2, G2, k) /\ Ordered(c2, G2, k)
  <2>1. k \in 1..n \/ k = n + 1 BY <1>1
  <2> QED BY <1>7, <1>11, <1>12, <1>13, <2>1
<1>15. Chain(c2, G2, h) BY <1>2, <1>4, <1>6, <1>14 DEF Chain
<1> QED BY <1>15 DEF c2, G2

\* The lower part of the C stack.
LEMMA Lower ==
  ASSUME NEW c, NEW G, NEW h, Chain(c, G, h), NEW m \in 1..Len(c)
  PROVE  /\ SubSeq(c, 1, m) \in Seq(Acts) /\ SubSeq(G, 1, m) \in Seq(Ghosts) /\ m \in Nat
         /\ Len(SubSeq(c, 1, m)) = m /\ Len(SubSeq(G, 1, m)) = m
         /\ \A i \in 1..m : i \in 1..Len(c) /\ SubSeq(c, 1, m)[i] = c[i] /\ SubSeq(G, 1, m)[i] = G[i]
<1>1. c \in Seq(Acts) /\ G \in Seq(Ghosts) /\ Len(c) = Len(G) /\ Len(c) \in Nat
  BY DEF Chain, Chained
<1>2. \A i \in 1..m : i \in 1..Len(c) /\ c[i] \in Acts /\ G[i] \in Ghosts
  BY <1>1
<1>3. SubSeq(c, 1, m) \in Seq(Acts) /\ Len(SubSeq(c, 1, m)) = m /\ \A i \in 1..m : SubSeq(c, 1, m)[i] = c[i]
  BY <1>1, <1>2, SubSeqProperties
<1>4. SubSeq(G, 1, m) \in Seq(Ghosts) /\ Len(SubSeq(G, 1, m)) = m /\ \A i \in 1..m : SubSeq(G, 1, m)[i] = G[i]
  BY <1>1, <1>2, SubSeqProperties
<1> QED BY <1>1, <1>2, <1>3, <1>4

\* It is as it should be too.
LEMMA ChainLower ==
  ASSUME NEW c, NEW G, NEW h, Chain(c, G, h), NEW m \in 1..Len(c)
  PROVE  Chain(SubSeq(c, 1, m), SubSeq(G, 1, m), h)
<1> DEFINE c2 == SubSeq(c, 1, m)   G2 == SubSeq(G, 1, m)
<1>1. /\ c2 \in Seq(Acts) /\ G2 \in Seq(Ghosts) /\ m \in Nat /\ Len(c2) = m /\ Len(G2) = m
      /\ \A i \in 1..m : i \in 1..Len(c) /\ c2[i] = c[i] /\ G2[i] = G[i]
  BY Lower
<1> HIDE DEF c2, G2
<1>2. Chained(c, G, h) /\ Contiguous(c) /\ Len(c) \in Nat
  BY DEF Chain, Chained
<1>3. Chained(c2, G2, h)
  <2>1. \A k \in 1..(m - 1) : k \in 1..m /\ k + 1 \in 1..m /\ k \in 1..(Len(c) - 1)
    BY <1>1, <1>2
  <2>2. 1 \in 1..m /\ m >= 1
    BY <1>1
  <2>3. ASSUME NEW k \in 1..(m - 1)
        PROVE  Link(c2[k], G2[k], c2[k + 1], G2[k + 1]) /\ G2[k + 1].j = Target(c2[k + 1], k + 1, G2[k].j)
    <3>1. Link(c[k], G[k], c[k + 1], G[k + 1]) /\ G[k + 1].j = Target(c[k + 1], k + 1, G[k].j)
      BY <1>2, <2>1 DEF Chained
    <3> QED BY <1>1, <2>1, <3>1
  <2>4. ASSUME NEW k \in 1..m PROVE Own(c2[k], G2[k]) /\ (c2[k].at \in Switches => c2[k].th # Main)
    <3>1. Own(c[k], G[k]) /\ (c[k].at \in Switches => c[k].th # Main)
      BY <1>1, <1>2 DEF Chained
    <3> QED BY <1>1, <3>1
  <2>5. /\ c2[1].at = "host" /\ c2[1].th = Main /\ G2[1].d = 1 /\ G2[1].c = h /\ G2[1].e = 1 /\ G2[1].j = 0
    BY <1>1, <1>2, <2>2 DEF Chained
  <2> QED BY <1>1, <2>2, <2>3, <2>4, <2>5 DEF Chained
<1>4. Contiguous(c2)
  <2>1. \A i, j \in 1..m : \A k \in i..j : k \in 1..m
    BY <1>1
  <2> QED BY <1>1, <1>2, <2>1 DEF Contiguous
<1>5. ASSUME NEW k \in 1..m PROVE Innermost(c2, G2, k) /\ Quiet(c2, G2, k) /\ Ordered(c2, G2, k)
  <2>1. /\ Innermost(c, G, k) /\ Quiet(c, G, k) /\ Ordered(c, G, k)
        /\ G[k].j = 0 \/ G[k].j \in 1..k
        /\ G[k].e = 0 /\ ~Closing(c[k]) => G[k].j \in 1..k
    BY <1>1, JumpTarget
  <2>2. k \in Nat /\ c2[k] = c[k] /\ G2[k] = G[k] /\ \A i \in 1..k : c2[i] = c[i] /\ G2[i] = G[i]
    BY <1>1
  <2>3. Innermost(c2, G2, k)
    <3>1. \A i \in G[k].j..k : G[k].j # 0 => i \in 1..k BY <2>1, <2>2
    <3>2. \A i \in (G[k].j + 1)..k : G[k].j # 0 => i \in 1..k BY <2>1, <2>2
    <3> QED BY <2>1, <2>2, <3>1, <3>2 DEF Innermost
  <2>4. Quiet(c2, G2, k)
    BY <2>1, <2>2 DEF Quiet
  <2>5. Ordered(c2, G2, k)
    <3>1. \A i \in 1..(k - 1) : i \in 1..k /\ \A l \in (i + 1)..k : l \in 1..k
      BY <2>2
    <3>2. \A i \in 1..(k - 1) : Live(c2, i, k) => Live(c, i, k)
      BY <2>2, <3>1, Zenon DEF Live
    <3> QED BY <2>1, <2>2, <3>1, <3>2 DEF Ordered
  <2> QED BY <2>3, <2>4, <2>5
<1>6. Chain(c2, G2, h)
  BY <1>1, <1>3, <1>4, <1>5 DEF Chain
<1> QED BY <1>6 DEF c2, G2

\* The activation at m and its ghost give way to others in the same place.
LEMMA ChainReplace ==
  ASSUME NEW c, NEW G, NEW h, Chain(c, G, h), NEW m \in 2..Len(c), NEW a \in Acts, NEW g \in Ghosts,
         Link(c[m - 1], G[m - 1], a, g), Own(a, g), a.th = c[m].th, a.at \in Switches => c[m].at \in Switches,
         g.j = Target(a, m, G[m - 1].j)
  PROVE  /\ Calls(SubSeq(c, 1, m - 1), SubSeq(G, 1, m - 1), a, g)
         /\ Chain(Append(SubSeq(c, 1, m - 1), a), Append(SubSeq(G, 1, m - 1), g), h)
<1>1. Len(c) \in Nat /\ Chained(c, G, h) /\ Contiguous(c)
  BY DEF Chain, Chained
<1>2. m - 1 \in 1..Len(c) /\ m \in Nat /\ m \in 1..Len(c) /\ (m - 1) + 1 = m /\ m - 1 \in 1..(m - 1)
  BY <1>1
<1> DEFINE c2 == SubSeq(c, 1, m - 1)   G2 == SubSeq(G, 1, m - 1)
<1>3. /\ Len(c2) = m - 1 /\ \A i \in 1..(m - 1) : i \in 1..Len(c) /\ c2[i] = c[i] /\ G2[i] = G[i]
      /\ Chain(c2, G2, h)
  BY <1>2, Lower, ChainLower
<1> HIDE DEF c2, G2
<1>4. a.at \in Switches => a.th # Main
  BY <1>1, <1>2 DEF Chained
<1>5. ASSUME a.th # c[m - 1].th, NEW i \in 1..(m - 1), c[i].th = a.th PROVE FALSE
  <2>1. i \in 1..Len(c) /\ m - 1 \in i..m BY <1>1, <1>2
  <2> QED BY <1>1, <1>2, <1>5, <2>1 DEF Contiguous
<1>6. Calls(c2, G2, a, g)
  BY <1>2, <1>3, <1>4, <1>5 DEF Calls
<1>7. Chain(Append(c2, a), Append(G2, g), h)
  BY <1>3, <1>6, ChainPush
<1> QED BY <1>6, <1>7 DEF c2, G2

\* What is known of an activation and the one below it.
LEMMA Pair ==
  ASSUME NEW c, NEW G, NEW h, Chain(c, G, h), NEW m \in 1..Len(c), c[m].at # "host"
  PROVE  /\ m \in 2..Len(c) /\ m - 1 \in 1..Len(c) /\ m - 1 \in Nat /\ Len(c) \in Nat
         /\ Link(c[m - 1], G[m - 1], c[m], G[m]) /\ Own(c[m], G[m])
         /\ G[m].j = Target(c[m], m, G[m - 1].j)
         /\ c[m] \in Acts /\ G[m] \in Ghosts /\ c[m - 1] \in Acts /\ G[m - 1] \in Ghosts
<1>1. Len(c) \in Nat /\ Chained(c, G, h)
  BY DEF Chain, Chained
<1>2. m # 1
  BY <1>1 DEF Chained
<1>3. m \in 2..Len(c) /\ m - 1 \in 1..(Len(c) - 1) /\ (m - 1) + 1 = m /\ m - 1 \in 1..Len(c)
  BY <1>1, <1>2
<1>4. Link(c[m - 1], G[m - 1], c[m], G[m]) /\ G[m].j = Target(c[m], m, G[m - 1].j)
  BY <1>1, <1>3 DEF Chained
<1> QED BY <1>1, <1>3, <1>4, JumpTarget

\* A long jump to activation m, or a status given to it: only statuses change.
LEMMA ChainCut ==
  ASSUME NEW c, NEW G, NEW h, Chain(c, G, h), NEW m \in 1..Len(c), c[m].at # "host", NEW a \in Acts,
         a.at = c[m].at, a.th = c[m].th, IsRawRun(a) => a.nC = c[m].nC /\ a.nny = c[m].nny /\ a.old_ci = c[m].old_ci,
         a.at = "closeprotected" => a.level = c[m].level, a.at = "lua_closethread" => a.from = c[m].from,
         a.at \notin {"ccall", "luaF_close"}
  PROVE  Chain(Append(SubSeq(c, 1, m - 1), a), SubSeq(G, 1, m), h)
<1>1. /\ m \in 2..Len(c) /\ m - 1 \in 1..Len(c) /\ Len(c) \in Nat
      /\ Link(c[m - 1], G[m - 1], c[m], G[m]) /\ Own(c[m], G[m])
      /\ G[m].j = Target(c[m], m, G[m - 1].j) /\ G[m] \in Ghosts
  BY Pair
<1>2. Own(a, G[m])
  BY <1>1 DEF Own, IsRawRun
<1>3. Link(c[m - 1], G[m - 1], a, G[m])
  BY <1>1 DEF Link, LinkThreads, LinkKinds, LinkCounts, LinkFrames, Switches, MayCall, Callers, CoCallers, PlainCallers
<1>4. G[m].j = Target(a, m, G[m - 1].j)
  BY <1>1 DEF Target, IsRawRun
<1>5. Chain(Append(SubSeq(c, 1, m - 1), a), Append(SubSeq(G, 1, m - 1), G[m]), h)
  BY <1>1, <1>2, <1>3, <1>4, ChainReplace
<1>6. Append(SubSeq(G, 1, m - 1), G[m]) = SubSeq(G, 1, m)
  <2>1. G \in Seq(Ghosts) /\ Len(c) = Len(G) BY DEF Chain, Chained
  <2>2. Append(SubSeq(G, 1, m - 1), G[m]) \in Seq(Ghosts) /\ SubSeq(G, 1, m) \in Seq(Ghosts)
    BY <1>1, <1>5, Lower DEF Chain, Chained
  <2>3. /\ Len(SubSeq(G, 1, m - 1)) = m - 1 /\ Len(SubSeq(G, 1, m)) = m
        /\ \A i \in 1..(m - 1) : SubSeq(G, 1, m - 1)[i] = G[i]
        /\ \A i \in 1..m : SubSeq(G, 1, m)[i] = G[i]
        /\ SubSeq(G, 1, m - 1) \in Seq(Ghosts)
    BY <1>1, Lower
  <2>4. Len(Append(SubSeq(G, 1, m - 1), G[m])) = m
    BY <1>1, <2>3
  <2>5. \A i \in 1..m : Append(SubSeq(G, 1, m - 1), G[m])[i] = SubSeq(G, 1, m)[i]
    BY <1>1, <2>3
  <2> QED BY <2>2, <2>3, <2>4, <2>5, SeqEqual
<1> QED BY <1>5, <1>6

-----------------------------------------------------------------------------
(* The frames of a thread, with the length n of its stack and its open     *)
(* upvalues.                                                                *)
Frames == [func : Nat, lua : BOOLEAN, fresh : BOOLEAN, wanted : {0, 1}, op : {"none", "OP_CLOSE", "OP_RETURN"},
           level : Nat, k : BOOLEAN, ypcall : BOOLEAN, recst : Ends, funcidx : Nat, old_errfunc : Nat, tbc : BOOLEAN]

\* A yield can pass the frame.
Passes(f) == f.lua \/ f.k \/ f.tbc
\* No open upvalue at or above p belongs to frame i.
NoneFrom(q, O, i, p) == \A o \in O : o >= p => i < Len(q) /\ o >= q[i + 1].func

LuaFrame(q, O, i) ==
    /\ q[i].lua /\ ~q[i].fresh => i > 1 /\ q[i - 1].lua
    /\ q[i].op = "OP_CLOSE" => q[i].lua /\ q[i].level > q[i].func /\ NoneFrom(q, O, i, q[i].level)
\* A C function has no open upvalues, but what it called may leave some that
\* recovering from an error closes.
CFrameOf(q, O, i) ==
    /\ q[i].ypcall => /\ i > 1 /\ ~q[i].lua /\ q[i].k /\ q[i].funcidx > q[i].func
                      /\ i < Len(q) => q[i + 1].func >= q[i].funcidx
                      /\ \A l \in 2..(i - 1) : Passes(q[l])
    /\ q[i].recst # "OK" => q[i].ypcall
    /\ ~q[i].lua => \A o \in O : o >= q[i].func =>
                        \/ i < Len(q) /\ o >= q[i + 1].func
                        \/ q[i].recst # "OK" /\ o >= q[i].funcidx
FrameInv(q, O, i) == q[i].func \notin O /\ LuaFrame(q, O, i) /\ CFrameOf(q, O, i)

Stacked(q, n, O) ==
    /\ q \in Seq(Frames) /\ Len(q) >= 1 /\ n \in Nat /\ O \subseteq 2..n
    /\ q[1].func = 1 /\ ~q[1].lua /\ ~q[1].ypcall
    /\ \A i, l \in 1..Len(q) : i < l => q[i].func < q[l].func
    /\ IF n = 0 THEN Len(q) = 1 ELSE q[Len(q)].func <= n
    /\ \A i \in 1..Len(q) : FrameInv(q, O, i)

\* What an activation relies on in its thread.
Floored(a) == a.at \in {"luaF_close", "luaD_pcall", "closeprotected", "luaD_pcall_error", "GCTM"}
OpenFrom(a) == IF a.at = "lua_closethread" THEN 2 ELSE IF a.at = "GCTM" THEN a.level + 1 ELSE a.level
Sound(q, O, a, g) ==
    /\ g.d <= Len(q)
    /\ g.e = 0 => \A i \in 2..(g.d - 1) : Passes(q[i])
    /\ Floored(a) => a.level >= q[g.d].func /\ (q[g.d].ypcall => a.level >= q[g.d].funcidx)
    /\ Floored(a) \/ a.at = "lua_closethread" => NoneFrom(q, O, g.d, OpenFrom(a))
    /\ Levelled(a) => (g.d < Len(q) => a.level <= q[g.d + 1].func)
    /\ a.at \in Callers => /\ g.d > 1 /\ ~q[g.d].lua /\ (q[g.d].tbc => a.at = "C_function")
                           /\ q[g.d].ypcall => a.at = "luaB_pcall"
                           /\ q[g.d].recst = "OK"
    /\ a.at = "execute" => /\ q[g.d].lua
                           /\ g.b # 0 => /\ g.b \in 2..g.d /\ q[g.b].fresh
                                         /\ \A i \in (g.b + 1)..g.d : q[i].lua /\ ~q[i].fresh
    /\ a.at = "ccall" => a.nny = 1 \/ g.d = 1 \/ Passes(q[g.d])
    /\ a.at = "luaF_close" => /\ ~a.yy \/ Passes(q[g.d])
                              /\ a.status = "CLOSEKTOP" => ~q[g.d].ypcall

\* The facts of a frame.
LEMMA FrameTypes ==
  ASSUME NEW q \in Seq(Frames), NEW i \in 1..Len(q)
  PROVE  /\ i \in Nat /\ Len(q) \in Nat /\ q[i] \in Frames
         /\ q[i].func \in Nat /\ q[i].level \in Nat /\ q[i].funcidx \in Nat
<1>1. q[i] \in Frames
  OBVIOUS
<1> QED BY <1>1 DEF Frames

\* Frames are one above the other.
LEMMA FuncsOrdered ==
  ASSUME NEW q, NEW n, NEW O, Stacked(q, n, O)
  PROVE  \A i, l \in 1..Len(q) : /\ q[i].func \in Nat /\ q[l].func \in Nat
                                 /\ i < l => q[i].func < q[l].func
                                 /\ i <= l => q[i].func <= q[l].func
<1> SUFFICES ASSUME NEW i \in 1..Len(q), NEW l \in 1..Len(q)
             PROVE  /\ q[i].func \in Nat /\ q[l].func \in Nat
                    /\ i < l => q[i].func < q[l].func
                    /\ i <= l => q[i].func <= q[l].func
  OBVIOUS
<1>1. q[i].func \in Nat /\ q[l].func \in Nat /\ i \in Nat /\ l \in Nat
  BY FrameTypes DEF Stacked
<1>2. i < l => q[i].func < q[l].func
  BY DEF Stacked
<1>3. i <= l => i < l \/ i = l
  BY <1>1
<1> QED BY <1>1, <1>2, <1>3

\* Upvalues are closed, and the stack is cut or extended above its last frame.
LEMMA StackClose ==
  ASSUME NEW q, NEW n, NEW O, Stacked(q, n, O), NEW O2 \in SUBSET O, NEW n2 \in Nat, O2 \subseteq 2..n2,
         IF n2 = 0 THEN Len(q) = 1 ELSE q[Len(q)].func <= n2
  PROVE  Stacked(q, n2, O2)
<1>1. ASSUME NEW i \in 1..Len(q) PROVE FrameInv(q, O2, i)
  <2>1. FrameInv(q, O, i) BY DEF Stacked
  <2> QED BY <2>1 DEF FrameInv, LuaFrame, CFrameOf, NoneFrom
<1> QED BY <1>1 DEF Stacked

\* A local variable of the running Lua function is captured.
LEMMA StackOpen ==
  ASSUME NEW q, NEW n, NEW O, Stacked(q, n, O), NEW p \in 2..n, p > q[Len(q)].func,
         q[Len(q)].lua, q[Len(q)].op # "OP_CLOSE"
  PROVE  Stacked(q, n, O \union {p})
<1>1. q \in Seq(Frames) /\ Len(q) \in Nat /\ Len(q) >= 1 /\ n \in Nat
  BY DEF Stacked
<1>2. ASSUME NEW i \in 1..Len(q) PROVE FrameInv(q, O \union {p}, i)
  <2>1. FrameInv(q, O, i) BY DEF Stacked
  <2>2. i = Len(q) \/ i < Len(q)
    BY <1>1
  <2>3. q[i].func < p
    <3>1. i < Len(q) => q[i].func < q[Len(q)].func
      BY <1>1 DEF Stacked
    <3>2. q[i].func \in Nat /\ q[Len(q)].func \in Nat /\ p \in Nat BY <1>1, FrameTypes
    <3> QED BY <2>2, <3>1, <3>2
  <2>4. i < Len(q) => p >= q[i + 1].func
    <3>1. i < Len(q) => i + 1 \in 1..Len(q) /\ (i + 1 = Len(q) \/ i + 1 < Len(q)) /\ Len(q) \in 1..Len(q)
      BY <1>1
    <3>2. i < Len(q) => q[i + 1].func <= q[Len(q)].func
      BY <1>1, <3>1, FuncsOrdered
    <3>3. i < Len(q) => q[i + 1].func \in Nat BY <1>1, <3>1, FrameTypes
    <3>4. q[Len(q)].func \in Nat /\ p \in Nat BY <1>1, FrameTypes
    <3> QED BY <3>2, <3>3, <3>4
  <2>5. \A x : NoneFrom(q, O, i, x) /\ i < Len(q) => NoneFrom(q, O \union {p}, i, x)
    BY <2>4 DEF NoneFrom
  <2>6. LuaFrame(q, O \union {p}, i)
    BY <2>1, <2>2, <2>5 DEF FrameInv, LuaFrame
  <2>7. CFrameOf(q, O \union {p}, i)
    BY <2>1, <2>2, <2>4 DEF FrameInv, CFrameOf
  <2>8. q[i].func \notin O \union {p}
    <3>1. q[i].func \in Nat /\ p \in Nat BY <1>1, FrameTypes
    <3> QED BY <2>1, <2>3, <3>1 DEF FrameInv
  <2> QED BY <2>6, <2>7, <2>8 DEF FrameInv
<1> QED BY <1>2 DEF Stacked

\* A function is called: its frame is above everything that is open.
LEMMA StackFrame ==
  ASSUME NEW q, NEW n, NEW O, Stacked(q, n, O), NEW f \in Frames, f.func > q[Len(q)].func, f.func <= n,
         \A o \in O : o < f.func, q[Len(q)].ypcall => f.func >= q[Len(q)].funcidx,
         f.lua /\ ~f.fresh => q[Len(q)].lua, f.op = "none", ~f.ypcall, f.recst = "OK"
  PROVE  Stacked(Append(q, f), n, O)
<1> DEFINE m == Len(q)   q2 == Append(q, f)
<1>1. /\ q \in Seq(Frames) /\ m \in Nat /\ m >= 1 /\ n \in Nat /\ O \subseteq 2..n /\ m \in 1..m
      /\ q[1].func = 1 /\ ~q[1].lua /\ ~q[1].ypcall
  BY DEF Stacked
<1>2. /\ q2 \in Seq(Frames) /\ Len(q2) = m + 1 /\ q2[m + 1] = f /\ \A i \in 1..m : q2[i] = q[i]
  BY <1>1
<1>3. \A i \in 1..m : \A l \in 1..m : q[i].func \in Nat /\ (i < l => q[i].func < q[l].func) /\ (i <= l => q[i].func <= q[l].func)
  BY FuncsOrdered
<1>4. f.func \in Nat /\ f.func # 0 /\ n # 0
  BY <1>1, <1>3, SMTT(40) DEF Frames
<1> HIDE DEF q2
<1>5. ASSUME NEW i \in 1..(m + 1), NEW l \in 1..(m + 1), i < l PROVE q2[i].func < q2[l].func
  <2>1. CASE l = m + 1
    <3>1. i \in 1..m /\ i <= m BY <1>1, <1>5, <2>1
    <3>2. q[i].func <= q[m].func /\ q[i].func \in Nat /\ q[m].func \in Nat BY <1>1, <1>3, <3>1
    <3> QED BY <1>2, <1>4, <2>1, <3>1, <3>2
  <2>2. CASE l # m + 1
    <3>1. i \in 1..m /\ l \in 1..m BY <1>1, <1>5, <2>2
    <3> QED BY <1>2, <1>3, <1>5, <3>1
  <2> QED BY <2>1, <2>2
<1>6. ASSUME NEW i \in 1..m PROVE FrameInv(q2, O, i)
  <2>1. FrameInv(q, O, i) BY DEF Stacked
  <2>2. q2[i] = q[i] /\ (i > 1 => q2[i - 1] = q[i - 1]) /\ i < m + 1 /\ \A l \in 2..(i - 1) : q2[l] = q[l]
    <3>1. (i > 1 => i - 1 \in 1..m) /\ i < m + 1 /\ \A l \in 2..(i - 1) : l \in 1..m BY <1>1
    <3> QED BY <1>2, <3>1
  <2>3. CASE i < m
    <3>1. i + 1 \in 1..m /\ q2[i + 1] = q[i + 1] BY <1>1, <1>2, <2>3
    <3> QED BY <1>1, <1>2, <2>1, <2>2, <2>3, <3>1, Zenon DEF FrameInv, LuaFrame, CFrameOf, NoneFrom
  <2>4. CASE i = m
    <3>1. q2[i + 1] = f BY <1>2, <2>4
    <3>2. LuaFrame(q2, O, i)
      <4>1. q[i].op = "OP_CLOSE" => q[i].lua /\ q[i].level > q[i].func /\ \A o \in O : ~(o >= q[i].level)
        BY <2>1, <2>4, <1>1 DEF FrameInv, LuaFrame, NoneFrom
      <4> QED BY <2>1, <2>2, <4>1 DEF FrameInv, LuaFrame, NoneFrom
    <3>3. CFrameOf(q2, O, i)
      <4>1. ~q[i].lua => \A o \in O : o >= q[i].func => q[i].recst # "OK" /\ o >= q[i].funcidx
        BY <2>1, <2>4, <1>1 DEF FrameInv, CFrameOf
      <4>2. q2[i].ypcall => /\ i > 1 /\ ~q2[i].lua /\ q2[i].k /\ q2[i].funcidx > q2[i].func
                            /\ \A l \in 2..(i - 1) : Passes(q2[l])
        BY <2>1, <2>2 DEF FrameInv, CFrameOf
      <4>3. q2[i].ypcall => q2[i + 1].func >= q2[i].funcidx
        BY <2>2, <2>4, <3>1
      <4>4. q2[i].recst # "OK" => q2[i].ypcall
        BY <2>1, <2>2 DEF FrameInv, CFrameOf
      <4> QED BY <2>2, <4>1, <4>2, <4>3, <4>4 DEF CFrameOf
    <3> QED BY <2>1, <2>2, <3>2, <3>3 DEF FrameInv
  <2> QED BY <1>1, <2>3, <2>4
<1>7. FrameInv(q2, O, m + 1)
  <2>1. f.func \notin O BY <1>1, <1>4
  <2>2. \A o \in O : ~(o >= f.func)
    <3>1. \A o \in O : o \in Nat BY <1>1
    <3> QED BY <1>4, <3>1
  <2>3. (m + 1) - 1 = m /\ m + 1 > 1 /\ q2[m] = q[m] BY <1>1, <1>2
  <2> QED BY <1>2, <2>1, <2>2, <2>3 DEF FrameInv, LuaFrame, CFrameOf
<1>8. \A i \in 1..(m + 1) : FrameInv(q2, O, i)
  <2>1. \A i \in 1..(m + 1) : i \in 1..m \/ i = m + 1 BY <1>1
  <2> QED BY <1>6, <1>7, <2>1
<1>9. Stacked(q2, n, O)
  <2>1. m + 1 >= 1 /\ q2[1] = q[1] BY <1>1, <1>2
  <2> QED BY <1>1, <1>2, <1>4, <1>5, <1>8, <2>1 DEF Stacked
<1> QED BY <1>9 DEF q2

\* Frames are dropped down to frame m, whose part of the stack stays: nothing
\* is open in what is dropped.
LEMMA StackCut ==
  ASSUME NEW q, NEW n, NEW O, Stacked(q, n, O), NEW m \in 1..Len(q), NEW q2 \in Seq(Frames), Len(q2) = m,
         \A i \in 1..m : q2[i] = q[i], NEW O2 \in SUBSET O, NEW n2 \in Nat, O2 \subseteq 2..n2,
         q[m].func <= n2, m < Len(q) => \A o \in O2 : o < q[m + 1].func
  PROVE  Stacked(q2, n2, O2)
<1>1. q \in Seq(Frames) /\ Len(q) \in Nat /\ m \in Nat /\ m >= 1 /\ q[1].func = 1 /\ ~q[1].lua /\ ~q[1].ypcall
      /\ 1 \in 1..m /\ n \in Nat /\ O \subseteq 2..n
  BY DEF Stacked
<1>2. \A i \in 1..m : i \in 1..Len(q)
  BY <1>1
<1>3. \A i, l \in 1..m : i < l => q2[i].func < q2[l].func
  BY <1>2, FuncsOrdered
<1>4. ASSUME NEW i \in 1..m PROVE FrameInv(q2, O2, i)
  <2>1. FrameInv(q, O, i) BY <1>2 DEF Stacked
  <2>2. q2[i] = q[i] /\ (i > 1 => q2[i - 1] = q[i - 1]) /\ i <= m /\ m <= Len(q) /\ \A l \in 2..(i - 1) : q2[l] = q[l]
    <3>1. (i > 1 => i - 1 \in 1..m) /\ i <= m /\ m <= Len(q) /\ \A l \in 2..(i - 1) : l \in 1..m BY <1>1
    <3> QED BY <3>1
  <2>3. CASE i < m
    <3>1. i + 1 \in 1..m /\ q2[i + 1] = q[i + 1] /\ i < Len(q) BY <1>1, <2>2, <2>3
    <3> QED BY <1>1, <2>1, <2>2, <2>3, <3>1 DEF FrameInv, LuaFrame, CFrameOf, NoneFrom
  <2>4. CASE i = m
    <3>1. \A o \in O2 : i < Len(q) => ~(o >= q[i + 1].func)
      <4>1. i < Len(q) => i + 1 \in 1..Len(q) /\ q[i + 1].func \in Nat BY <1>1, FrameTypes
      <4>2. \A o \in O2 : o \in Nat BY <1>1
      <4> QED BY <2>4, <4>1, <4>2
    <3>2. LuaFrame(q2, O2, i)
      BY <2>1, <2>2, <3>1 DEF FrameInv, LuaFrame, NoneFrom
    <3>3. CFrameOf(q2, O2, i)
      BY <2>1, <2>2, <2>4, <3>1 DEF FrameInv, CFrameOf
    <3> QED BY <2>1, <2>2, <3>2, <3>3 DEF FrameInv
  <2> QED BY <1>1, <2>3, <2>4
<1>5. n2 # 0
  <2>1. q[1].func <= q[m].func /\ q[m].func \in Nat BY <1>1, <1>2, FuncsOrdered
  <2> QED BY <1>1, <2>1
<1> QED BY <1>1, <1>3, <1>4, <1>5 DEF Stacked

\* The running function changes its frame.
LEMMA StackSet ==
  ASSUME NEW q, NEW n, NEW O, Stacked(q, n, O), NEW f \in Frames, NEW q2 \in Seq(Frames), Len(q2) = Len(q),
         \A i \in 1..(Len(q) - 1) : q2[i] = q[i], q2[Len(q)] = f,
         f.func = q[Len(q)].func, f.lua = q[Len(q)].lua, f.fresh = q[Len(q)].fresh,
         NEW O2 \in SUBSET O, NEW n2 \in Nat, O2 \subseteq 2..n2, f.func <= n2,
         f.op = "OP_CLOSE" => f.lua /\ f.level > f.func /\ \A o \in O2 : o < f.level,
         f.ypcall => Len(q) > 1 /\ ~f.lua /\ f.k /\ f.funcidx > f.func /\ \A l \in 2..(Len(q) - 1) : Passes(q[l]),
         f.recst # "OK" => f.ypcall,
         ~f.lua => \A o \in O2 : o >= f.func => f.recst # "OK" /\ o >= f.funcidx
  PROVE  Stacked(q2, n2, O2)
<1> DEFINE m == Len(q)
<1>1. q \in Seq(Frames) /\ m \in Nat /\ m >= 1 /\ q[1].func = 1 /\ ~q[1].lua /\ ~q[1].ypcall
      /\ n \in Nat /\ O \subseteq 2..n /\ m \in 1..m
  BY DEF Stacked
<1>2. \A i \in 1..m : q2[i] = (IF i = m THEN f ELSE q[i])
  BY <1>1
<1>3. \A i \in 1..m : q2[i].func = q[i].func /\ q2[i].lua = q[i].lua /\ q2[i].fresh = q[i].fresh
  BY <1>2
<1>4. \A i, l \in 1..m : i < l => q2[i].func < q2[l].func
  BY <1>3, FuncsOrdered
<1>5. ASSUME NEW i \in 1..m PROVE FrameInv(q2, O2, i)
  <2>1. FrameInv(q, O, i) BY DEF Stacked
  <2>2. (i > 1 => i - 1 \in 1..m) /\ \A l \in 2..(i - 1) : q2[l] = q[l]
    <3>1. (i > 1 => i - 1 \in 1..m) /\ \A l \in 2..(i - 1) : l \in 1..(m - 1) BY <1>1
    <3> QED BY <3>1
  <2>3. CASE i < m
    <3>1. i + 1 \in 1..m /\ q2[i] = q[i] BY <1>1, <1>2, <2>3
    <3>2. q2[i + 1].func = q[i + 1].func /\ (i > 1 => q2[i - 1].lua = q[i - 1].lua) BY <1>3, <2>2, <3>1
    <3> QED BY <1>1, <2>1, <2>2, <2>3, <3>1, <3>2 DEF FrameInv, LuaFrame, CFrameOf, NoneFrom
  <2>4. CASE i = m
    <3>1. q2[i] = f /\ f.func = q[i].func /\ f.lua = q[i].lua /\ f.fresh = q[i].fresh BY <2>4
    <3>2. LuaFrame(q2, O2, i)
      <4>1. q2[i].lua /\ ~q2[i].fresh => i > 1 /\ q2[i - 1].lua
        <5>1. q[i].lua /\ ~q[i].fresh => i > 1 /\ q[i - 1].lua BY <2>1 DEF FrameInv, LuaFrame
        <5>2. i > 1 => q2[i - 1].lua = q[i - 1].lua BY <1>3, <2>2
        <5> QED BY <3>1, <5>1, <5>2
      <4>2. \A o \in O2 : o \in Nat BY <1>1
      <4>3. f.level \in Nat BY DEF Frames
      <4> QED BY <3>1, <4>1, <4>2, <4>3 DEF LuaFrame, NoneFrom
    <3>3. CFrameOf(q2, O2, i)
      BY <1>1, <2>2, <2>4, <3>1 DEF CFrameOf
    <3> QED BY <2>1, <3>1, <3>2, <3>3 DEF FrameInv
  <2> QED BY <1>1, <2>3, <2>4
<1>6. n2 # 0
  <2>1. q[1].func <= q[m].func /\ q[m].func \in Nat BY <1>1, FuncsOrdered
  <2> QED BY <1>1, <2>1
<1>7. q2[1].func = 1 /\ ~q2[1].lua /\ ~q2[1].ypcall
  <2>1. 1 \in 1..m BY <1>1
  <2>2. q2[1].ypcall => m > 1 BY <1>2, <2>1
  <2> QED BY <1>1, <1>2, <1>3, <2>1, <2>2
<1> QED BY <1>1, <1>3, <1>4, <1>5, <1>6, <1>7 DEF Stacked

\* What activations rely on when upvalues are closed ...
LEMMA SoundClose ==
  ASSUME NEW q, NEW O, NEW a, NEW g, Sound(q, O, a, g), NEW O2 \in SUBSET O
  PROVE  Sound(q, O2, a, g)
<1> QED BY DEF Sound, NoneFrom

\* ... when one is opened ...
LEMMA SoundOpen ==
  ASSUME NEW q, NEW n, NEW O, Stacked(q, n, O), NEW a, NEW g \in Ghosts, Sound(q, O, a, g),
         NEW p \in Nat, p > q[Len(q)].func,
         g.d < Len(q) \/ (~Floored(a) /\ a.at # "lua_closethread")
  PROVE  Sound(q, O \union {p}, a, g)
<1>1. g.d \in Nat /\ g.d >= 1 /\ Len(q) \in Nat
  BY DEF Ghosts, Stacked
<1>2. g.d < Len(q) => p >= q[g.d + 1].func
  <2>1. g.d < Len(q) => g.d + 1 \in 1..Len(q) /\ Len(q) \in 1..Len(q) /\ g.d + 1 <= Len(q) BY <1>1
  <2>2. g.d < Len(q) => q[g.d + 1].func <= q[Len(q)].func /\ q[g.d + 1].func \in Nat /\ q[Len(q)].func \in Nat
    BY <2>1, FuncsOrdered
  <2> QED BY <2>2
<1>3. \A x : NoneFrom(q, O, g.d, x) /\ g.d < Len(q) => NoneFrom(q, O \union {p}, g.d, x)
  BY <1>2 DEF NoneFrom
<1> QED BY <1>3 DEF Sound

\* ... when a function is called ...
LEMMA SoundFrame ==
  ASSUME NEW q \in Seq(Frames), NEW O, NEW a, NEW g \in Ghosts, Sound(q, O, a, g), NEW f \in Frames,
         Levelled(a) /\ g.d = Len(q) => a.level <= f.func
  PROVE  Sound(Append(q, f), O, a, g)
<1> DEFINE q2 == Append(q, f)
<1>1. g.d \in Nat /\ g.d >= 1 /\ Len(q) \in Nat /\ g.d <= Len(q)
  BY DEF Ghosts, Sound
<1>2. Len(q2) = Len(q) + 1 /\ q2[Len(q) + 1] = f /\ \A i \in 1..Len(q) : q2[i] = q[i]
  OBVIOUS
<1> HIDE DEF q2
<1>3. q2[g.d] = q[g.d] /\ \A i \in 2..g.d : q2[i] = q[i]
  <2>1. \A i \in 2..g.d : i \in 1..Len(q) BY <1>1
  <2>2. g.d \in 1..Len(q) BY <1>1
  <2> QED BY <1>2, <2>1, <2>2
<1>4. \A x : NoneFrom(q, O, g.d, x) => NoneFrom(q2, O, g.d, x)
  <2>1. CASE g.d < Len(q)
    <3>1. q2[g.d + 1] = q[g.d + 1] BY <1>1, <1>2, <2>1
    <3> QED BY <1>1, <1>2, <2>1, <3>1 DEF NoneFrom
  <2>2. CASE ~(g.d < Len(q)) BY <2>2 DEF NoneFrom
  <2> QED BY <2>1, <2>2
<1>5. Levelled(a) => a.level <= q2[g.d + 1].func
  <2>1. CASE g.d < Len(q)
    <3>1. q2[g.d + 1] = q[g.d + 1] BY <1>1, <1>2, <2>1
    <3> QED BY <2>1, <3>1 DEF Sound
  <2>2. CASE g.d = Len(q) BY <1>2, <2>2
  <2> QED BY <1>1, <2>1, <2>2
<1>6. g.d <= Len(q2) BY <1>1, <1>2
<1>7. \A i \in 2..(g.d - 1) : i \in 2..g.d
  BY <1>1
<1>8. g.b # 0 /\ g.b \in 2..g.d => \A i \in (g.b + 1)..g.d : i \in 2..g.d
  BY <1>1
<1>9. Sound(q2, O, a, g)
  BY <1>3, <1>4, <1>5, <1>6, <1>7, <1>8, Zenon DEF Sound
<1> QED BY <1>9 DEF q2

\* ... and when frames are dropped.
LEMMA SoundCut ==
  ASSUME NEW q \in Seq(Frames), NEW O, NEW a, NEW g \in Ghosts, Sound(q, O, a, g), NEW m \in Nat,
         g.d <= m, m <= Len(q), NEW q2 \in Seq(Frames), Len(q2) = m, \A i \in 1..m : q2[i] = q[i], NEW O2 \in SUBSET O,
         m < Len(q) /\ g.d = m => \A o \in O2 : ~(o >= q[m + 1].func)
  PROVE  Sound(q2, O2, a, g)
<1>1. g.d \in Nat /\ g.d >= 1 /\ Len(q) \in Nat
  BY DEF Ghosts
<1>2. q2[g.d] = q[g.d] /\ \A i \in 2..g.d : q2[i] = q[i]
  <2>1. \A i \in 2..g.d : i \in 1..m BY <1>1
  <2>2. g.d \in 1..m BY <1>1
  <2> QED BY <2>1, <2>2
<1>3. g.d < m => q2[g.d + 1] = q[g.d + 1] /\ g.d < Len(q)
  BY <1>1
<1>4. g.d < m \/ g.d = m
  BY <1>1
<1>5. \A x : NoneFrom(q, O, g.d, x) => NoneFrom(q2, O2, g.d, x)
  <2>1. CASE g.d < m BY <1>3, <2>1 DEF NoneFrom
  <2>2. CASE g.d = m
    <3>1. m < Len(q) \/ ~(g.d < Len(q)) BY <1>1, <2>2
    <3> QED BY <2>2, <3>1 DEF NoneFrom
  <2> QED BY <1>4, <2>1, <2>2
<1>6. Levelled(a) /\ g.d < m => a.level <= q2[g.d + 1].func
  BY <1>3 DEF Sound
<1>7. \A i \in 2..(g.d - 1) : i \in 2..g.d
  BY <1>1
<1>8. g.b # 0 /\ g.b \in 2..g.d => \A i \in (g.b + 1)..g.d : i \in 2..g.d
  BY <1>1
<1> QED BY <1>2, <1>5, <1>6, <1>7, <1>8 DEF Sound

\* The running function changes its frame.
LEMMA SoundSet ==
  ASSUME NEW q \in Seq(Frames), NEW O, NEW a, NEW g \in Ghosts, Sound(q, O, a, g),
         NEW f \in Frames, NEW q2 \in Seq(Frames), Len(q2) = Len(q),
         \A i \in 1..(Len(q) - 1) : q2[i] = q[i], q2[Len(q)] = f,
         f.func = q[Len(q)].func, f.lua = q[Len(q)].lua, f.fresh = q[Len(q)].fresh, f.tbc = q[Len(q)].tbc,
         Passes(q[Len(q)]) => Passes(f), q[Len(q)].recst = "OK" => f.recst = "OK", NEW O2 \in SUBSET O,
         \/ ~f.ypcall
         \/ q[Len(q)].ypcall /\ f.funcidx = q[Len(q)].funcidx
         \/ g.d < Len(q) \/ a.at = "luaB_pcall" \/ (~Floored(a) /\ a.at \notin Callers)
  PROVE  Sound(q2, O2, a, g)
<1>1. g.d \in Nat /\ g.d >= 1 /\ Len(q) \in Nat /\ g.d <= Len(q) /\ g.d \in 1..Len(q)
  BY DEF Ghosts, Sound
<1>2. \A i \in 1..Len(q) : /\ q2[i].func = q[i].func /\ q2[i].lua = q[i].lua /\ q2[i].fresh = q[i].fresh
                           /\ q2[i].tbc = q[i].tbc /\ (Passes(q[i]) => Passes(q2[i]))
                           /\ (q[i].recst = "OK" => q2[i].recst = "OK")
                           /\ i < Len(q) => q2[i] = q[i]
  <2>1. \A i \in 1..Len(q) : i \in 1..(Len(q) - 1) \/ i = Len(q) BY <1>1
  <2> QED BY <2>1
<1>3. g.d < Len(q) => q2[g.d + 1].func = q[g.d + 1].func
  BY <1>1, <1>2
<1>4. \A x : NoneFrom(q, O, g.d, x) => NoneFrom(q2, O2, g.d, x)
  BY <1>3 DEF NoneFrom
<1>5. g.e = 0 => \A i \in 2..(g.d - 1) : Passes(q2[i])
  <2>1. \A i \in 2..(g.d - 1) : i \in 1..Len(q) BY <1>1
  <2> QED BY <1>2, <2>1 DEF Sound
<1>6. Floored(a) => a.level >= q2[g.d].func
  BY <1>1, <1>2 DEF Sound
<1>7. /\ Floored(a) /\ q2[g.d].ypcall => a.level >= q2[g.d].funcidx
      /\ a.at \in Callers /\ q2[g.d].ypcall => a.at = "luaB_pcall"
      /\ a.at = "luaF_close" /\ a.status = "CLOSEKTOP" => ~q2[g.d].ypcall
  <2>1. CASE g.d < Len(q) BY <1>1, <1>2, <2>1 DEF Sound
  <2>2. CASE g.d = Len(q)
    <3>1. q2[g.d] = f BY <2>2
    <3>2. (a.at = "luaB_pcall" => ~Floored(a)) /\ (a.at = "luaF_close" => Floored(a)) BY DEF Floored
    <3> QED BY <2>2, <3>1, <3>2, <1>1 DEF Sound
  <2> QED BY <1>1, <2>1, <2>2
<1>8. Levelled(a) /\ g.d < Len(q) => a.level <= q2[g.d + 1].func
  BY <1>3 DEF Sound
<1>9. a.at \in Callers => g.d > 1 /\ ~q2[g.d].lua /\ (q2[g.d].tbc => a.at = "C_function") /\ q2[g.d].recst = "OK"
  BY <1>1, <1>2 DEF Sound
<1>10. a.at = "execute" => /\ q2[g.d].lua
                           /\ g.b # 0 => /\ g.b \in 2..g.d /\ q2[g.b].fresh
                                         /\ \A i \in (g.b + 1)..g.d : q2[i].lua /\ ~q2[i].fresh
  <2>1. g.b \in 2..g.d => g.b \in 1..Len(q) /\ \A i \in (g.b + 1)..g.d : i \in 1..Len(q) BY <1>1
  <2> QED BY <1>1, <1>2, <2>1 DEF Sound
<1>11. (a.at = "ccall" => a.nny = 1 \/ g.d = 1 \/ Passes(q2[g.d])) /\ (a.at = "luaF_close" => ~a.yy \/ Passes(q2[g.d]))
  BY <1>1, <1>2 DEF Sound
<1>12. Floored(a) \/ a.at = "lua_closethread" => NoneFrom(q2, O2, g.d, OpenFrom(a))
  BY <1>4 DEF Sound
<1>13. g.d <= Len(q2)
  BY <1>1
<1> QED BY <1>5, <1>6, <1>7, <1>8, <1>9, <1>10, <1>11, <1>12, <1>13 DEF Sound

-----------------------------------------------------------------------------
(* The state.                                                               *)
StateFields == {"L", "C", "gcstp", "variables", "errors", "scopes", "result"}
ThreadFields == {"status", "ci", "stack", "tbc", "open", "nC", "nny", "errfunc"}
IsThread(x) ==
    /\ DOMAIN x = ThreadFields
    /\ x.status \in Statuses /\ x.ci \in Seq(Frames) /\ (\E V : x.stack \in Seq(V)) /\ x.tbc \in Seq(Nat)
    /\ x.open \in SUBSET Nat /\ x.nC \in Int /\ x.nny \in Int /\ x.errfunc \in Nat
State(s) == /\ DOMAIN s = StateFields /\ DOMAIN s.L = Threads
            /\ \A t \in Threads : IsThread(s.L[t])

\* A thread that has yielded can go on.
Suspended(x) ==
    x.status = "YIELD" => LET n == Len(x.ci)
                          IN  n > 1 /\ ~x.ci[n].lua /\ ~x.ci[n].ypcall /\ \A i \in 2..(n - 1) : Passes(x.ci[i])
ThreadInv(x) == Stacked(x.ci, Len(x.stack), x.open) /\ Suspended(x)

\* The thread is as its topmost activation expects it.
Settled(x, a, g) ==
    /\ x.status = "OK" /\ x.nC = g.c /\ x.nny = g.e
    /\ IF a.at = "unroll" THEN \A i \in 2..(Len(x.ci) - 1) : Passes(x.ci[i]) ELSE Len(x.ci) = g.d
    /\ IsRawRun(a) => a.status = "OK"

Fits(l, c, G) ==
    \A k \in 1..Len(c) : Live(c, k, Len(c)) => Sound(l[c[k].th].ci, l[c[k].th].open, c[k], G[k])
Waiting(l, c, G) ==
    \A k \in 1..(Len(c) - 1) : c[k].th # c[k + 1].th => Settled(l[c[k].th], c[k], G[k])

\* If b, the collector is stopped only while a finalizer runs.
Collects(s, b) ==
    /\ s.gcstp \in BOOLEAN
    /\ b /\ s.gcstp => \E i \in 1..Len(s.C) : s.C[i].at = "GCTM"

Body(s, G, h, b) ==
    /\ State(s) /\ Chain(s.C, G, h) /\ Fits(s.L, s.C, G) /\ Waiting(s.L, s.C, G)
    /\ \A t \in Threads : ThreadInv(s.L[t])
    /\ Collects(s, b)
Ready(s, G, h, b) == /\ Body(s, G, h, b)
                     /\ Settled(s.L[s.C[Len(s.C)].th], s.C[Len(s.C)], G[Len(G)])

\* u differs from s in a thread alone.
InThread(s, u, th) ==
    /\ State(u) /\ u.C = s.C /\ u.gcstp = s.gcstp
    /\ \A t \in Threads : t # th => u.L[t] = s.L[t]

\* Nothing else is affected when what the activations of the thread rely on stays.
LEMMA BodyThread ==
  ASSUME NEW s, NEW G, NEW h, NEW b, Body(s, G, h, b), NEW th \in Threads, NEW u, InThread(s, u, th), ThreadInv(u.L[th]),
         \A k \in 1..Len(s.C) : s.C[k].th = th /\ Live(s.C, k, Len(s.C)) /\ Sound(s.L[th].ci, s.L[th].open, s.C[k], G[k])
                                    => Sound(u.L[th].ci, u.L[th].open, s.C[k], G[k]),
         \/ th = s.C[Len(s.C)].th
         \/ \A k \in 1..Len(s.C) : s.C[k].th # th
         \/ /\ u.L[th].ci = s.L[th].ci /\ u.L[th].status = s.L[th].status
            /\ u.L[th].nC = s.L[th].nC /\ u.L[th].nny = s.L[th].nny
  PROVE  Body(u, G, h, b)
<1> DEFINE c == s.C
<1>1. Chain(c, G, h) /\ u.C = c /\ State(u)
  BY DEF Body, InThread
<1>2. \A k \in 1..Len(c) : c[k].th \in Threads
  <2>1. \A k \in 1..Len(c) : c[k] \in Acts BY <1>1, JumpTarget
  <2> QED BY <2>1, Kinds
<1>3. Fits(u.L, c, G)
  <2> SUFFICES ASSUME NEW k \in 1..Len(c), Live(c, k, Len(c))
               PROVE  Sound(u.L[c[k].th].ci, u.L[c[k].th].open, c[k], G[k])
    BY DEF Fits
  <2>1. Sound(s.L[c[k].th].ci, s.L[c[k].th].open, c[k], G[k])
    BY DEF Body, Fits
  <2> QED BY <1>2, <2>1, Zenon DEF InThread
<1>4. Waiting(u.L, c, G)
  <2> SUFFICES ASSUME NEW k \in 1..(Len(c) - 1), c[k].th # c[k + 1].th
               PROVE  Settled(u.L[c[k].th], c[k], G[k])
    BY DEF Waiting
  <2>1. Settled(s.L[c[k].th], c[k], G[k])
    BY DEF Body, Waiting
  <2>2. Len(c) \in Nat /\ Contiguous(c) BY <1>1 DEF Chain, Chained
  <2>3. k \in 1..Len(c) /\ k + 1 \in 1..Len(c) /\ k + 1 \in k..Len(c) /\ Len(c) \in 1..Len(c) BY <2>2
  <2>4. c[k].th # c[Len(c)].th
    BY <2>2, <2>3 DEF Contiguous
  <2>5. CASE c[k].th # th BY <1>2, <2>1, <2>3, <2>5 DEF InThread
  <2>6. CASE c[k].th = th
    <3>1. /\ u.L[th].ci = s.L[th].ci /\ u.L[th].status = s.L[th].status
          /\ u.L[th].nC = s.L[th].nC /\ u.L[th].nny = s.L[th].nny
      BY <2>3, <2>4, <2>6
    <3> QED BY <2>1, <2>6, <3>1 DEF Settled
  <2> QED BY <2>5, <2>6
<1>5. \A t \in Threads : ThreadInv(u.L[t])
  BY DEF Body, InThread
<1>6. Collects(u, b)
  BY DEF Body, Collects, InThread
<1> QED BY <1>1, <1>3, <1>4, <1>5, <1>6 DEF Body

\* The C stack alone changes.
InC(s, u) == State(u) /\ u.L = s.L /\ u.gcstp = s.gcstp

\* The activation that is called finds what it relies on.
LEMMA BodyPush ==
  ASSUME NEW s, NEW G, NEW h, NEW b, Body(s, G, h, b), NEW a, NEW g, Calls(s.C, G, a, g),
         NEW u, InC(s, u), u.C = Append(s.C, a),
         Sound(s.L[a.th].ci, s.L[a.th].open, a, g),
         a.th # s.C[Len(s.C)].th => Settled(s.L[s.C[Len(s.C)].th], s.C[Len(s.C)], G[Len(G)])
  PROVE  Body(u, Append(G, g), h, b)
<1> DEFINE c == s.C   n == Len(c)   c2 == Append(c, a)   G2 == Append(G, g)
<1>1. Chain(c, G, h) /\ c \in Seq(Acts) /\ G \in Seq(Ghosts) /\ Len(G) = n /\ a \in Acts /\ g \in Ghosts /\ n \in Nat /\ n >= 1
  BY DEF Body, Chain, Chained, Calls
<1>2. /\ Len(c2) = n + 1 /\ c2[n + 1] = a /\ G2[n + 1] = g
      /\ \A i \in 1..n : c2[i] = c[i] /\ G2[i] = G[i]
  BY <1>1, AppendAct
<1>3. Chain(c2, G2, h)
  BY <1>1, ChainPush
<1> HIDE DEF c2, G2
<1>4. Fits(u.L, c2, G2)
  <2> SUFFICES ASSUME NEW k \in 1..(n + 1), Live(c2, k, n + 1)
               PROVE  Sound(u.L[c2[k].th].ci, u.L[c2[k].th].open, c2[k], G2[k])
    BY <1>2 DEF Fits
  <2>1. CASE k = n + 1 BY <1>2, <2>1, Zenon DEF InC
  <2>2. CASE k # n + 1
    <3>1. k \in 1..n BY <1>1, <2>2
    <3>2. \A l \in (k + 1)..n : l \in 1..n /\ l \in (k + 1)..(n + 1) BY <1>1, <3>1
    <3>3. Live(c, k, n) BY <1>2, <3>1, <3>2 DEF Live
    <3> QED BY <1>2, <3>1, <3>3, Zenon DEF InC, Body, Fits
  <2> QED BY <2>1, <2>2
<1>5. Waiting(u.L, c2, G2)
  <2> SUFFICES ASSUME NEW k \in 1..((n + 1) - 1), c2[k].th # c2[k + 1].th
               PROVE  Settled(u.L[c2[k].th], c2[k], G2[k])
    BY <1>2 DEF Waiting
  <2>1. CASE k = n BY <1>1, <1>2, <2>1 DEF InC
  <2>2. CASE k # n
    <3>1. k \in 1..(n - 1) /\ k \in 1..n /\ k + 1 \in 1..n BY <1>1, <2>2
    <3> QED BY <1>2, <3>1, Zenon DEF InC, Body, Waiting
  <2> QED BY <2>1, <2>2
<1>6. Collects(u, b)
  <2>1. \A i \in 1..n : i \in 1..(n + 1) /\ c2[i] = c[i] BY <1>1, <1>2
  <2> QED BY <1>2, <2>1 DEF Body, Collects, InC, c2
<1>7. Body(u, G2, h, b)
  BY <1>3, <1>4, <1>5, <1>6 DEF Body, InC, c2
<1> QED BY <1>7 DEF G2

\* What is left when activations above m are gone.
LEMMA BodyLower ==
  ASSUME NEW s, NEW G, NEW h, NEW b, Body(s, G, h, b), NEW m \in 1..Len(s.C),
         NEW u, State(u), u.L = s.L, u.C = SubSeq(s.C, 1, m), u.gcstp = s.gcstp,
         b /\ u.gcstp => s.gcstp /\ \E i \in 1..m : s.C[i].at = "GCTM",
         \A k \in 1..m : \A l \in (m + 1)..Len(s.C) : ~(s.C[l].at = "lua_closethread" /\ s.C[l].th = s.C[k].th)
  PROVE  /\ Body(u, SubSeq(G, 1, m), h, b)
         /\ Len(u.C) = m /\ u.C[m] = s.C[m] /\ SubSeq(G, 1, m)[m] = G[m] /\ Len(SubSeq(G, 1, m)) = m
         /\ m < Len(s.C) /\ s.C[m].th # s.C[m + 1].th => Ready(u, SubSeq(G, 1, m), h, b)
<1> DEFINE c == s.C   n == Len(c)   c2 == SubSeq(c, 1, m)   G2 == SubSeq(G, 1, m)
<1>1. Chain(c, G, h) /\ n \in Nat /\ m \in Nat /\ m >= 1
  BY DEF Body, Chain, Chained
<1>2. /\ Chain(c2, G2, h) /\ Len(c2) = m /\ Len(G2) = m /\ \A i \in 1..m : i \in 1..n /\ c2[i] = c[i] /\ G2[i] = G[i]
  BY <1>1, Lower, ChainLower
<1> HIDE DEF c2, G2
<1>3. Fits(u.L, c2, G2)
  <2> SUFFICES ASSUME NEW k \in 1..m, Live(c2, k, m)
               PROVE  Sound(u.L[c2[k].th].ci, u.L[c2[k].th].open, c2[k], G2[k])
    BY <1>2 DEF Fits
  <2>1. \A l \in (k + 1)..n : (l \in (k + 1)..m /\ l \in 1..m) \/ l \in (m + 1)..n BY <1>1
  <2>2. Live(c, k, n) BY <1>2, <2>1 DEF Live
  <2> QED BY <1>2, <2>2 DEF Body, Fits
<1>4. Waiting(u.L, c2, G2)
  <2> SUFFICES ASSUME NEW k \in 1..(m - 1), c2[k].th # c2[k + 1].th
               PROVE  Settled(u.L[c2[k].th], c2[k], G2[k])
    BY <1>2 DEF Waiting
  <2>1. k \in 1..(n - 1) /\ k \in 1..m /\ k + 1 \in 1..m BY <1>1
  <2> QED BY <1>2, <2>1, Zenon DEF Body, Waiting
<1>5. Collects(u, b)
  <2>3. u.gcstp \in BOOLEAN BY DEF Body, Collects
  <2> SUFFICES ASSUME b, u.gcstp PROVE \E i \in 1..Len(u.C) : u.C[i].at = "GCTM"
    BY <2>3 DEF Collects
  <2>1. PICK i \in 1..m : s.C[i].at = "GCTM"
    OBVIOUS
  <2>2. u.C[i] = c[i] /\ Len(u.C) = m
    BY <1>2 DEF c2
  <2> QED BY <2>1, <2>2
<1>6. Body(u, G2, h, b)
  BY <1>2, <1>3, <1>4, <1>5 DEF Body, c2
<1>7. m \in 1..m
  BY <1>1
<1>8. m < n /\ c[m].th # c[m + 1].th => Settled(u.L[c2[m].th], c2[m], G2[m])
  <2>1. m < n => m \in 1..(n - 1) BY <1>1
  <2> QED BY <1>2, <1>7, <2>1 DEF Body, Waiting
<1>9. u.C = c2
  BY DEF c2
<1>10. m < n /\ c[m].th # c[m + 1].th => Ready(u, G2, h, b)
  BY <1>2, <1>6, <1>8, <1>9 DEF Ready
<1> QED BY <1>2, <1>6, <1>7, <1>9, <1>10 DEF G2

-----------------------------------------------------------------------------
(* What the operators of the model do to the state.                         *)

\* A thread's status, frames, stack size, open upvalues and counts in u, where
\* everything else but the history is as in s.
Turns(s, u, th, st, q, n, O, cc, e) ==
    /\ InThread(s, u, th)
    /\ u.L[th].status = st /\ u.L[th].ci = q /\ Len(u.L[th].stack) = n /\ u.L[th].open = O
    /\ u.L[th].nC = cc /\ u.L[th].nny = e

\* Values are pushed.
LEMMA Pushed ==
  ASSUME NEW s, State(s), NEW th \in Threads, NEW v
  PROVE  LET x == s.L[th]
         IN  Turns(s, push(s, th, v), th, x.status, x.ci, Len(x.stack) + 1, x.open, x.nC, x.nny)
<1>1. PICK V : s.L[th].stack \in Seq(V)
  BY DEF State, IsThread
<1>2. /\ Append(s.L[th].stack, v) \in Seq(V \union {v})
      /\ Len(Append(s.L[th].stack, v)) = Len(s.L[th].stack) + 1
  <2>1. s.L[th].stack \in Seq(V \union {v}) BY <1>1
  <2> QED BY <2>1
<1>3. InThread(s, push(s, th, v), th)
  BY <1>1, <1>2 DEF push, InThread, State, IsThread, StateFields, ThreadFields
<1>4. /\ push(s, th, v).L[th].stack = Append(s.L[th].stack, v)
      /\ \A f \in {"status", "ci", "open", "nC", "nny"} : push(s, th, v).L[th][f] = s.L[th][f]
  BY DEF push, State, IsThread, StateFields, ThreadFields
<1> QED BY <1>2, <1>3, <1>4 DEF Turns

\* The part of the stack below a position.
LEMMA BelowIs ==
  ASSUME NEW V, NEW q \in Seq(V), NEW n \in Nat
  PROVE  \E W : Below(q, n) \in Seq(W) /\ Len(Below(q, n)) = n
<1> DEFINE W == {q[i] : i \in 1..n}
<1>1. Below(q, n) \in [1..n -> W]
  BY DEF Below
<1> HIDE DEF W
<1>2. Below(q, n) \in Seq(W) /\ Len(Below(q, n)) = n
  BY <1>1
<1> QED BY <1>2

\* The stack is cut ...
LEMMA Topped ==
  ASSUME NEW s, State(s), NEW th \in Threads, NEW n \in Nat
  PROVE  LET x == s.L[th]
         IN  Turns(s, settop(s, th, n), th, x.status, x.ci, n, x.open, x.nC, x.nny)
<1>1. PICK W : Below(s.L[th].stack, n) \in Seq(W) /\ Len(Below(s.L[th].stack, n)) = n
  BY BelowIs DEF State, IsThread
<1>2. InThread(s, settop(s, th, n), th)
  BY <1>1 DEF settop, InThread, State, IsThread, StateFields, ThreadFields
<1>3. /\ settop(s, th, n).L[th].stack = Below(s.L[th].stack, n)
      /\ \A f \in {"status", "ci", "open", "nC", "nny"} : settop(s, th, n).L[th][f] = s.L[th][f]
  BY DEF settop, State, IsThread, StateFields, ThreadFields
<1> QED BY <1>1, <1>2, <1>3 DEF Turns

\* ... or an error object is put on it.
LEMMA ErrorSet ==
  ASSUME NEW s, State(s), NEW th \in Threads, NEW n \in Nat \ {0}, NEW status
  PROVE  LET x == s.L[th]
         IN  Turns(s, luaD_seterrorobj(s, th, status, n), th, x.status, x.ci, n, x.open, x.nC, x.nny)
<1> DEFINE v == IF status = "ERRMEM" THEN Message("no_memory") ELSE Last(s.L[th].stack)
           w == Append(Below(s.L[th].stack, n - 1), v)
           u == [s EXCEPT !.L[th].stack = w]
<1>1. luaD_seterrorobj(s, th, status, n) = u
  BY DEF luaD_seterrorobj
<1>2. PICK W : Below(s.L[th].stack, n - 1) \in Seq(W) /\ Len(Below(s.L[th].stack, n - 1)) = n - 1
  <2>1. n - 1 \in Nat OBVIOUS
  <2> QED BY <2>1, BelowIs DEF State, IsThread
<1> HIDE DEF v
<1>3. w \in Seq(W \union {v}) /\ Len(w) = n
  <2>1. Below(s.L[th].stack, n - 1) \in Seq(W \union {v}) BY <1>2
  <2> QED BY <1>2, <2>1
<1> HIDE DEF w
<1>4. InThread(s, u, th)
  BY <1>3, Zenon DEF InThread, State, IsThread, StateFields, ThreadFields
<1>5. /\ u.L[th].stack = w
      /\ \A f \in {"status", "ci", "open", "nC", "nny"} : u.L[th][f] = s.L[th][f]
  BY DEF State, IsThread, StateFields, ThreadFields
<1> QED BY <1>1, <1>3, <1>4, <1>5 DEF Turns

\* Upvalues are opened and closed.
LEMMA Opened ==
  ASSUME NEW s, State(s), NEW th \in Threads, NEW p \in Nat
  PROVE  LET x == s.L[th]
         IN  Turns(s, luaF_findupval(s, th, p), th, x.status, x.ci, Len(x.stack), x.open \union {p}, x.nC, x.nny)
<1> DEFINE u == luaF_findupval(s, th, p)
<1>1. InThread(s, u, th)
  BY DEF luaF_findupval, InThread, State, IsThread, StateFields, ThreadFields
<1>2. /\ u.L[th].open = s.L[th].open \union {p}
      /\ \A f \in {"status", "ci", "stack", "nC", "nny"} : u.L[th][f] = s.L[th][f]
  BY DEF luaF_findupval, State, IsThread, StateFields, ThreadFields
<1> QED BY <1>1, <1>2 DEF Turns
\* Those from a level on are closed.
LEMMA Closed ==
  ASSUME NEW s, State(s), NEW th \in Threads, NEW p
  PROVE  LET x == s.L[th]
         IN  Turns(s, luaF_closeupval(s, th, p), th, x.status, x.ci, Len(x.stack), {o \in x.open : o < p}, x.nC, x.nny)
<1> DEFINE u == luaF_closeupval(s, th, p)
<1>1. InThread(s, u, th)
  BY DEF luaF_closeupval, InThread, State, IsThread, StateFields, ThreadFields
<1>2. /\ u.L[th].open = {o \in s.L[th].open : o < p}
      /\ \A f \in {"status", "ci", "stack", "nC", "nny"} : u.L[th][f] = s.L[th][f]
  BY DEF luaF_closeupval, State, IsThread, StateFields, ThreadFields
<1> QED BY <1>1, <1>2 DEF Turns

\* Variables to be closed come and go.
LEMMA Listed ==
  ASSUME NEW s, State(s), NEW th \in Threads, NEW t \in Seq(Nat)
  PROVE  LET x == s.L[th]   u == [s EXCEPT !.L[th].tbc = t]
         IN  Turns(s, u, th, x.status, x.ci, Len(x.stack), x.open, x.nC, x.nny)
<1> DEFINE u == [s EXCEPT !.L[th].tbc = t]
<1>1. InThread(s, u, th)
  BY DEF InThread, State, IsThread, StateFields, ThreadFields
<1>2. \A f \in {"status", "ci", "stack", "open", "nC", "nny"} : u.L[th][f] = s.L[th][f]
  BY DEF State, IsThread, StateFields, ThreadFields
<1> QED BY <1>1, <1>2 DEF Turns

\* The message handler changes.
LEMMA Handled ==
  ASSUME NEW s, State(s), NEW th \in Threads, NEW e \in Nat
  PROVE  LET x == s.L[th]   u == [s EXCEPT !.L[th].errfunc = e]
         IN  Turns(s, u, th, x.status, x.ci, Len(x.stack), x.open, x.nC, x.nny)
<1> DEFINE u == [s EXCEPT !.L[th].errfunc = e]
<1>1. InThread(s, u, th)
  BY DEF InThread, State, IsThread, StateFields, ThreadFields
<1>2. \A f \in {"status", "ci", "stack", "open", "nC", "nny"} : u.L[th][f] = s.L[th][f]
  BY DEF State, IsThread, StateFields, ThreadFields
<1> QED BY <1>1, <1>2 DEF Turns

\* The frames change.
LEMMA Framed ==
  ASSUME NEW s, State(s), NEW th \in Threads, NEW q \in Seq(Frames)
  PROVE  LET x == s.L[th]   u == [s EXCEPT !.L[th].ci = q]
         IN  Turns(s, u, th, x.status, q, Len(x.stack), x.open, x.nC, x.nny)
<1> DEFINE u == [s EXCEPT !.L[th].ci = q]
<1>1. InThread(s, u, th)
  BY DEF InThread, State, IsThread, StateFields, ThreadFields
<1>2. u.L[th].ci = q /\ \A f \in {"status", "stack", "open", "nC", "nny"} : u.L[th][f] = s.L[th][f]
  BY DEF State, IsThread, StateFields, ThreadFields
<1> QED BY <1>1, <1>2 DEF Turns

\* The counts change.
LEMMA CountsSet ==
  ASSUME NEW s, State(s), NEW th \in Threads, NEW cc \in Int, NEW e \in Int
  PROVE  LET x == s.L[th]   u == [s EXCEPT !.L[th].nC = cc, !.L[th].nny = e]
         IN  Turns(s, u, th, x.status, x.ci, Len(x.stack), x.open, cc, e)
<1> DEFINE u == [s EXCEPT !.L[th].nC = cc, !.L[th].nny = e]
<1>1. InThread(s, u, th)
  BY SMTT(40) DEF InThread, State, IsThread, StateFields, ThreadFields
<1>2. u.L[th].nC = cc /\ u.L[th].nny = e /\ \A f \in {"status", "ci", "stack", "open"} : u.L[th][f] = s.L[th][f]
  BY DEF State, IsThread, StateFields, ThreadFields
<1> QED BY <1>1, <1>2 DEF Turns

\* The status changes.
LEMMA StatusSet ==
  ASSUME NEW s, State(s), NEW th \in Threads, NEW st \in Statuses
  PROVE  LET x == s.L[th]   u == [s EXCEPT !.L[th].status = st]
         IN  Turns(s, u, th, st, x.ci, Len(x.stack), x.open, x.nC, x.nny)
<1> DEFINE u == [s EXCEPT !.L[th].status = st]
<1>1. InThread(s, u, th)
  BY DEF InThread, State, IsThread, StateFields, ThreadFields
<1>2. u.L[th].status = st /\ \A f \in {"ci", "stack", "open", "nC", "nny"} : u.L[th][f] = s.L[th][f]
  BY DEF State, IsThread, StateFields, ThreadFields
<1> QED BY <1>1, <1>2 DEF Turns

\* The last frame gives way to another, and to none.
LEMMA FrameSet ==
  ASSUME NEW q \in Seq(Frames), Len(q) >= 1, NEW f \in Frames
  PROVE  /\ Append(Front(q), f) \in Seq(Frames) /\ Len(Append(Front(q), f)) = Len(q)
         /\ \A i \in 1..(Len(q) - 1) : Append(Front(q), f)[i] = q[i]
         /\ Append(Front(q), f)[Len(q)] = f
         /\ Front(q) \in Seq(Frames) /\ Len(Front(q)) = Len(q) - 1 /\ \A i \in 1..(Len(q) - 1) : Front(q)[i] = q[i]
         /\ Last(q) = q[Len(q)] /\ q[Len(q)] \in Frames
<1>1. Len(q) \in Nat /\ Len(q) - 1 \in 0..Len(q)
  OBVIOUS
<1>2. /\ Front(q) \in Seq(Frames) /\ Len(Front(q)) = Len(q) - 1
      /\ \A i \in 1..(Len(q) - 1) : Front(q)[i] = q[i]
  <2> DEFINE k == Len(q) - 1
  <2>1. k \in Nat /\ \A i \in 1..k : q[i] \in Frames BY <1>1
  <2> HIDE DEF k
  <2>2. /\ SubSeq(q, 1, k) \in Seq(Frames) /\ Len(SubSeq(q, 1, k)) = IF 1 <= k THEN k - 1 + 1 ELSE 0
        /\ \A i \in 1..(k - 1 + 1) : SubSeq(q, 1, k)[i] = q[1 + i - 1]
    BY <2>1, SubSeqProperties
  <2>3. Len(SubSeq(q, 1, k)) = k BY <2>1, <2>2
  <2>4. \A i \in 1..k : i \in 1..(k - 1 + 1) /\ 1 + i - 1 = i BY <2>1
  <2>5. \A i \in 1..k : SubSeq(q, 1, k)[i] = q[i] BY <2>2, <2>4
  <2> QED BY <2>2, <2>3, <2>5 DEF Front, k
<1> QED BY <1>1, <1>2 DEF Last

\* What is known of the running thread.
LEMMA TopFacts ==
  ASSUME NEW s, NEW G, NEW h, NEW b, Body(s, G, h, b)
  PROVE  LET n == Len(s.C)   a == s.C[n]   th == a.th   x == s.L[th]   g == G[n]
         IN  /\ n \in Nat /\ n >= 1 /\ n \in 1..n /\ Len(G) = n /\ a \in Acts /\ g \in Ghosts /\ th \in Threads
             /\ s.C \in Seq(Acts) /\ G \in Seq(Ghosts) /\ Chain(s.C, G, h)
             /\ State(s) /\ IsThread(x) /\ Stacked(x.ci, Len(x.stack), x.open) /\ Suspended(x)
             /\ x.ci \in Seq(Frames) /\ Len(x.ci) \in Nat /\ Len(x.ci) >= 1 /\ Len(x.stack) \in Nat
             /\ x.open \subseteq 2..Len(x.stack) /\ Last(x.ci) = x.ci[Len(x.ci)] /\ x.ci[Len(x.ci)] \in Frames
             /\ Sound(x.ci, x.open, a, g) /\ g.d \in Nat /\ g.d >= 1 /\ g.d <= Len(x.ci)
             /\ g.c \in Int /\ g.e \in Nat /\ g.b \in Nat /\ Own(a, g)
             /\ Top(s) = a /\ Last(s.C) = a
<1> DEFINE n == Len(s.C)   a == s.C[n]   th == a.th   x == s.L[th]   g == G[n]
<1>1. /\ n \in Nat /\ n >= 1 /\ n \in 1..n /\ Len(G) = n /\ s.C \in Seq(Acts) /\ G \in Seq(Ghosts)
      /\ Chain(s.C, G, h) /\ State(s)
  BY DEF Body, Chain, Chained
<1>2. a \in Acts /\ g \in Ghosts /\ th \in Threads
  BY <1>1, Kinds
<1>3. IsThread(x) /\ Stacked(x.ci, Len(x.stack), x.open) /\ Suspended(x)
  BY <1>2 DEF Body, State, ThreadInv
<1>4. /\ x.ci \in Seq(Frames) /\ Len(x.ci) \in Nat /\ Len(x.ci) >= 1 /\ Len(x.stack) \in Nat
      /\ x.open \subseteq 2..Len(x.stack) /\ Last(x.ci) = x.ci[Len(x.ci)] /\ x.ci[Len(x.ci)] \in Frames
  <2> HIDE DEF x
  <2>1. x.ci \in Seq(Frames) /\ Len(x.ci) >= 1 /\ Len(x.stack) \in Nat /\ x.open \subseteq 2..Len(x.stack)
    BY <1>3 DEF Stacked
  <2> QED BY <2>1 DEF Last
<1>5. Live(s.C, n, n)
  <2>1. \A l \in (n + 1)..n : FALSE BY <1>1
  <2> QED BY <2>1 DEF Live
<1>6. Sound(x.ci, x.open, a, g)
  BY <1>1, <1>5 DEF Body, Fits
<1>7. g.d \in Nat /\ g.d >= 1 /\ g.d <= Len(x.ci) /\ g.c \in Int /\ g.e \in Nat /\ g.b \in Nat
  <2> HIDE DEF g, x, a
  <2>1. g.d <= Len(x.ci) BY <1>6 DEF Sound
  <2>2. g.d \in Nat /\ g.d >= 1 /\ g.c \in Int /\ g.e \in Nat /\ g.b \in Nat BY <1>2 DEF Ghosts
  <2> QED BY <2>1, <2>2
<1>8. Own(a, g)
  BY <1>1 DEF Chain, Chained
<1> QED BY <1>1, <1>2, <1>3, <1>4, <1>6, <1>7, <1>8, Zenon DEF Top, Last

\* Only the history changes.
Same(s, u) == InC(s, u) /\ u.C = s.C
\* That is of no consequence to the threads and the C stack.
LEMMA BodySame ==
  ASSUME NEW s, NEW G, NEW h, NEW b, Body(s, G, h, b), NEW u, Same(s, u)
  PROVE  Body(u, G, h, b)
<1> QED BY DEF Body, Collects, Same, InC

\* A thread's stack changes above its frames, and upvalues are closed.
Restacks(s, u, th) ==
    LET x == s.L[th]   y == u.L[th]
    IN  /\ th \in Threads /\ InThread(s, u, th) /\ y.ci = x.ci
        /\ y.open \subseteq x.open /\ y.open \subseteq 2..Len(y.stack) /\ (y.status = "YIELD" => x.status = "YIELD")
        /\ Len(y.stack) \in Nat /\ IF Len(y.stack) = 0 THEN Len(x.ci) = 1 ELSE x.ci[Len(x.ci)].func <= Len(y.stack)
        /\ \/ th = s.C[Len(s.C)].th
           \/ \A k \in 1..Len(s.C) : s.C[k].th # th
           \/ y.status = x.status /\ y.nC = x.nC /\ y.nny = x.nny
\* No activation relied on what has changed.
LEMMA BodyStack ==
  ASSUME NEW s, NEW G, NEW h, NEW b, Body(s, G, h, b), NEW th, NEW u, Restacks(s, u, th)
  PROVE  Body(u, G, h, b)
<1> DEFINE x == s.L[th]   y == u.L[th]   n == Len(y.stack)
<1>1. ThreadInv(x) /\ Stacked(x.ci, Len(x.stack), x.open) /\ th \in Threads
  BY DEF Body, Restacks, ThreadInv
<1>2. /\ y.ci = x.ci /\ y.open \in SUBSET x.open /\ y.open \subseteq 2..n /\ n \in Nat /\ InThread(s, u, th)
      /\ IF n = 0 THEN Len(x.ci) = 1 ELSE x.ci[Len(x.ci)].func <= n
  BY DEF Restacks
<1>3. Stacked(x.ci, n, y.open)
  <2> HIDE DEF x, y, n
  <2> QED BY <1>1, <1>2, StackClose
<1>4. Suspended(y)
  BY <1>1, <1>2, Zenon DEF ThreadInv, Suspended, Restacks
<1>5. \A k \in 1..Len(s.C) : Sound(x.ci, x.open, s.C[k], G[k]) => Sound(y.ci, y.open, s.C[k], G[k])
  <2> HIDE DEF x, y, n
  <2> QED BY <1>2, SoundClose
<1>6. ThreadInv(y)
  BY <1>2, <1>3, <1>4 DEF ThreadInv
<1> QED BY <1>1, <1>2, <1>5, <1>6, BodyThread, Zenon DEF Restacks

\* The frames of the running thread change.
Reframes(s, G, u) ==
    LET th == s.C[Len(s.C)].th   x == s.L[th]   y == u.L[th]
    IN  /\ InThread(s, u, th) /\ y.status = "OK" /\ Stacked(y.ci, Len(y.stack), y.open)
        /\ \A k \in 1..Len(s.C) : s.C[k].th = th /\ Live(s.C, k, Len(s.C)) /\ G[k] \in Ghosts
              /\ Sound(x.ci, x.open, s.C[k], G[k]) => Sound(y.ci, y.open, s.C[k], G[k])
\* What the activations below rely on stays.
LEMMA BodyFrames ==
  ASSUME NEW s, NEW G, NEW h, NEW b, Body(s, G, h, b), NEW u, Reframes(s, G, u)
  PROVE  Body(u, G, h, b)
<1> DEFINE n == Len(s.C)   th == s.C[n].th   x == s.L[th]   y == u.L[th]
<1>1. n \in 1..n /\ th \in Threads /\ \A k \in 1..n : G[k] \in Ghosts
  BY TopFacts
<1>2. /\ InThread(s, u, th) /\ y.status = "OK" /\ Stacked(y.ci, Len(y.stack), y.open)
      /\ \A k \in 1..n : s.C[k].th = th /\ Live(s.C, k, n) /\ G[k] \in Ghosts
              /\ Sound(x.ci, x.open, s.C[k], G[k]) => Sound(y.ci, y.open, s.C[k], G[k])
  BY Zenon DEF Reframes
<1>3. ThreadInv(y)
  BY <1>2, Zenon DEF ThreadInv, Suspended
<1> QED BY <1>1, <1>2, <1>3, BodyThread, Zenon

\* A function that runs has a frame that nothing below it has.
LEMMA BelowTop ==
  ASSUME NEW s, NEW G, NEW h, NEW b, Body(s, G, h, b), s.C[Len(s.C)].at \in {"execute"} \union Callers,
         NEW k \in 1..(Len(s.C) - 1), s.C[k].th = s.C[Len(s.C)].th, Live(s.C, k, Len(s.C))
  PROVE  /\ G[k].d < G[Len(s.C)].d /\ G[k].d \in Nat
         /\ k \in 1..Len(s.C) /\ Sound(s.L[s.C[k].th].ci, s.L[s.C[k].th].open, s.C[k], G[k])
<1> DEFINE c == s.C   n == Len(c)   a == c[n]
<1>1. n \in Nat /\ n \in 1..n /\ Chain(c, G, h) /\ k \in 1..n /\ k \in Nat /\ k < n
  BY TopFacts
<1>2. a.at # "host"
  <2> DEFINE at == a.at
  <2>1. at \in {"execute"} \union Callers OBVIOUS
  <2> HIDE DEF at
  <2>2. at # "host" BY <2>1 DEF Callers, CoCallers, PlainCallers
  <2> QED BY <2>2 DEF at
<1>3. /\ n - 1 \in 1..n /\ Link(c[n - 1], G[n - 1], a, G[n]) /\ G[n] \in Ghosts /\ G[n - 1] \in Ghosts /\ c[n - 1] \in Acts
  BY <1>1, <1>2, Pair
<1>4. c[n - 1].th = a.th
  BY <1>3 DEF Link, LinkThreads, Switches, Callers, CoCallers, PlainCallers
<1>5. G[n - 1].d \in Nat /\ G[n].d \in Nat /\ G[k] \in Ghosts /\ Own(c[n - 1], G[n - 1])
  BY <1>1, <1>3, JumpTarget DEF Ghosts
<1>6. G[n - 1].d < G[n].d
  <2>1. MayCall(c[n - 1].at, a.at) /\ LinkFrames(c[n - 1], G[n - 1], a, G[n])
    BY <1>3 DEF Link, LinkKinds
  <2>2. CASE a.at \in Callers
    <3>1. G[n].d = G[n - 1].d + 1 BY <2>1, <2>2 DEF LinkFrames
    <3> QED BY <1>5, <3>1
  <2>3. CASE a.at = "execute" /\ c[n - 1].at = "ccall"
    <3>1. G[n].b = G[n - 1].d + 1 /\ G[n].b <= G[n].d BY <2>1, <2>3 DEF LinkFrames
    <3> QED BY <1>5, <3>1
  <2>4. CASE c[n - 1].at = "unroll"
    <3>1. G[n].d >= 2 /\ G[n - 1].d = 1 BY <1>5, <2>1, <2>4 DEF LinkFrames, Own
    <3> QED BY <1>5, <3>1
  <2>5. a.at = "execute" => c[n - 1].at \in {"ccall", "unroll"}
    BY <2>1 DEF MayCall, Callers, CoCallers, PlainCallers
  <2> QED BY <2>2, <2>3, <2>4, <2>5
<1>7. G[k].d <= G[n - 1].d /\ G[k].d \in Nat
  <2>1. CASE k = n - 1 BY <1>5, <2>1
  <2>2. CASE k # n - 1
    <3>1. k \in 1..((n - 1) - 1) BY <1>1, <2>2
    <3>2. \A l \in (k + 1)..(n - 1) : l \in (k + 1)..n BY <1>1
    <3>3. Live(c, k, n - 1) BY <3>2 DEF Live
    <3>4. Ordered(c, G, n - 1) BY <1>1, <1>3, JumpTarget, Zenon
    <3>5. G[k].d <= G[n - 1].d BY <1>4, <3>1, <3>3, <3>4 DEF Ordered
    <3> QED BY <1>5, <3>5 DEF Ghosts
  <2> QED BY <2>1, <2>2
<1>8. Sound(s.L[c[k].th].ci, s.L[c[k].th].open, c[k], G[k])
  BY <1>1, Zenon DEF Body, Fits
<1> QED BY <1>1, <1>5, <1>6, <1>7, <1>8

\* The topmost activation and its ghost give way to others.
Replaces(s, G, a, g) ==
    LET n == Len(s.C)
    IN  /\ s.C[n].at \notin {"host", "GCTM"} /\ a \in Acts /\ g \in Ghosts
        /\ Link(s.C[n - 1], G[n - 1], a, g) /\ Own(a, g) /\ a.th = s.C[n].th
        /\ a.at \in Switches => s.C[n].at \in Switches
        /\ g.j = Target(a, n, G[n - 1].j)
        /\ a.at = "lua_closethread" <=> s.C[n].at = "lua_closethread"
        /\ Sound(s.L[a.th].ci, s.L[a.th].open, a, g)
\* Those below rely on what they relied on.
LEMMA BodyReplace ==
  ASSUME NEW s, NEW G, NEW h, NEW b, Body(s, G, h, b), NEW a, NEW g, Replaces(s, G, a, g),
         NEW u, InC(s, u), u.C = Append(SubSeq(s.C, 1, Len(s.C) - 1), a)
  PROVE  /\ Body(u, Append(SubSeq(G, 1, Len(s.C) - 1), g), h, b)
         /\ Len(u.C) = Len(s.C) /\ u.C[Len(s.C)] = a /\ Append(SubSeq(G, 1, Len(s.C) - 1), g)[Len(s.C)] = g
         /\ \A i \in 1..(Len(s.C) - 1) : u.C[i] = s.C[i]
<1> DEFINE c == s.C   n == Len(c)   c2 == Append(SubSeq(c, 1, n - 1), a)   G2 == Append(SubSeq(G, 1, n - 1), g)
<1>1. Chain(c, G, h) /\ n \in Nat /\ n \in 1..n
  BY DEF Body, Chain, Chained
<1>0. /\ c[n].at \notin {"host", "GCTM"} /\ a \in Acts /\ g \in Ghosts
      /\ Link(c[n - 1], G[n - 1], a, g) /\ Own(a, g) /\ a.th = c[n].th
      /\ a.at \in Switches => c[n].at \in Switches
      /\ g.j = Target(a, n, G[n - 1].j)
      /\ a.at = "lua_closethread" <=> c[n].at = "lua_closethread"
      /\ Sound(s.L[a.th].ci, s.L[a.th].open, a, g)
  BY Zenon DEF Replaces
<1>2. n \in 2..n /\ n - 1 \in 1..n /\ (n - 1) + 1 = n
  BY <1>0, <1>1, Pair
<1>3. Chain(c2, G2, h)
  BY <1>0, <1>2, <1>1, ChainReplace
<1>4. /\ SubSeq(c, 1, n - 1) \in Seq(Acts) /\ SubSeq(G, 1, n - 1) \in Seq(Ghosts)
      /\ Len(SubSeq(c, 1, n - 1)) = n - 1 /\ Len(SubSeq(G, 1, n - 1)) = n - 1
      /\ \A i \in 1..(n - 1) : SubSeq(c, 1, n - 1)[i] = c[i] /\ SubSeq(G, 1, n - 1)[i] = G[i]
  BY <1>1, <1>2, Lower
<1>5. /\ Len(c2) = n /\ Len(G2) = n /\ c2[n] = a /\ G2[n] = g
      /\ \A i \in 1..(n - 1) : c2[i] = c[i] /\ G2[i] = G[i]
  BY <1>0, <1>2, <1>4, AppendAct
<1> HIDE DEF c2, G2
<1>6. \A k \in 1..n : /\ k \in 1..(n - 1) \/ k = n
                      /\ c2[k].th = c[k].th /\ (c2[k].at = "lua_closethread" <=> c[k].at = "lua_closethread")
  BY <1>0, <1>1, <1>5
<1>7. Fits(u.L, c2, G2)
  <2> SUFFICES ASSUME NEW k \in 1..n, Live(c2, k, n)
               PROVE  Sound(s.L[c2[k].th].ci, s.L[c2[k].th].open, c2[k], G2[k])
    BY <1>5 DEF Fits, InC
  <2>1. CASE k = n BY <1>0, <1>5, <2>1, Zenon
  <2>2. CASE k # n
    <3>1. \A l \in (k + 1)..n : l \in 1..n BY <1>1
    <3>2. Live(c, k, n) BY <1>6, <3>1 DEF Live
    <3> QED BY <1>5, <1>6, <2>2, <3>2, Zenon DEF Body, Fits
  <2> QED BY <2>1, <2>2
<1>8. Waiting(u.L, c2, G2)
  <2> SUFFICES ASSUME NEW k \in 1..(n - 1), c2[k].th # c2[k + 1].th
               PROVE  Settled(s.L[c2[k].th], c2[k], G2[k])
    BY <1>5 DEF Waiting, InC
  <2>1. k \in 1..n /\ k + 1 \in 1..n BY <1>1
  <2> QED BY <1>5, <1>6, <2>1 DEF Body, Waiting
<1>9. Collects(u, b)
  <2>1. \A i \in 1..n : c[i].at = "GCTM" => i \in 1..(n - 1) BY <1>0, <1>6, Zenon
  <2>2. u.C = c2 BY DEF c2
  <2>3. \A i \in 1..(n - 1) : i \in 1..n BY <1>1
  <2> QED BY <1>5, <2>1, <2>2, <2>3 DEF Collects, InC, Body
<1>10. u.C = c2
  BY DEF c2
<1>11. Body(u, G2, h, b)
  BY <1>3, <1>7, <1>8, <1>9, <1>10 DEF Body, InC
<1> QED BY <1>5, <1>10, <1>11 DEF G2

\* A jump to activation m, which gets a status: only the C stack is cut.
OnlyStatus(a, a2) ==
    /\ a2 \in Acts /\ a2.at = a.at /\ a2.th = a.th
    /\ IsRawRun(a) => a2.nC = a.nC /\ a2.nny = a.nny /\ a2.old_ci = a.old_ci
    /\ Floored(a) => a2.level = a.level
    /\ a.at = "lua_closethread" => a2.from = a.from
    /\ a.at \in CoCallers => a2.co = a.co
    /\ a.at \in {"luaD_pcall", "luaD_pcall_error", "closeprotected"} => a2.errfunc = a.errfunc /\ a2.closing = a.closing
\* An activation does not rely on its status.
LEMMA SoundStatus ==
  ASSUME NEW q, NEW O, NEW a, NEW g, Sound(q, O, a, g), NEW a2, OnlyStatus(a, a2), a.at \notin {"ccall", "luaF_close"}
  PROVE  Sound(q, O, a2, g)
<1>1. a2.at = a.at /\ (Floored(a) => a2.level = a.level) /\ a2.at \notin {"ccall", "luaF_close"}
  BY DEF OnlyStatus
<1>2. /\ Floored(a2) = Floored(a) /\ Levelled(a2) = Levelled(a) /\ (Levelled(a) => Floored(a))
      /\ Floored(a) \/ a.at = "lua_closethread" => OpenFrom(a2) = OpenFrom(a)
  BY <1>1 DEF Floored, Levelled, OpenFrom
<1>3. /\ g.d <= Len(q) /\ (g.e = 0 => \A i \in 2..(g.d - 1) : Passes(q[i]))
      /\ Floored(a2) => a2.level >= q[g.d].func /\ (q[g.d].ypcall => a2.level >= q[g.d].funcidx)
      /\ Levelled(a2) => (g.d < Len(q) => a2.level <= q[g.d + 1].func)
  BY <1>1, <1>2 DEF Sound
<1>5. Floored(a2) \/ a2.at = "lua_closethread" => NoneFrom(q, O, g.d, OpenFrom(a2))
  <2>1. Floored(a) \/ a.at = "lua_closethread" => NoneFrom(q, O, g.d, OpenFrom(a)) BY DEF Sound
  <2> QED BY <1>1, <1>2, <2>1
<1>4. /\ a2.at \in Callers => /\ g.d > 1 /\ ~q[g.d].lua /\ (q[g.d].tbc => a2.at = "C_function")
                              /\ q[g.d].ypcall => a2.at = "luaB_pcall"
                              /\ q[g.d].recst = "OK"
      /\ a2.at = "execute" => /\ q[g.d].lua
                              /\ g.b # 0 => /\ g.b \in 2..g.d /\ q[g.b].fresh
                                            /\ \A i \in (g.b + 1)..g.d : q[i].lua /\ ~q[i].fresh
  BY <1>1 DEF Sound
<1> QED BY <1>1, <1>3, <1>4, <1>5 DEF Sound

\* The topmost activation gets a status.
Gives(s, u, a) ==
    LET n == Len(s.C)
    IN  /\ s.C[n].at \notin {"host", "ccall", "luaF_close", "GCTM"} /\ OnlyStatus(s.C[n], a)
        /\ InC(s, u) /\ u.C = Append(SubSeq(s.C, 1, n - 1), a)
\* That changes nothing else.
LEMMA BodyStatus ==
  ASSUME NEW s, NEW G, NEW h, NEW b, Body(s, G, h, b), NEW a, NEW u, Gives(s, u, a)
  PROVE  /\ Body(u, G, h, b)
         /\ Len(u.C) = Len(s.C) /\ u.C[Len(s.C)] = a /\ \A i \in 1..(Len(s.C) - 1) : u.C[i] = s.C[i]
<1> DEFINE c == s.C   m == Len(c)   G2 == Append(SubSeq(G, 1, m - 1), G[m])
<1>1. Chain(c, G, h) /\ m \in Nat /\ m \in 1..m /\ G \in Seq(Ghosts) /\ Len(G) = m
  BY DEF Body, Chain, Chained
<1>0. /\ c[m].at \notin {"host", "ccall", "luaF_close", "GCTM"} /\ OnlyStatus(c[m], a)
      /\ InC(s, u) /\ u.C = Append(SubSeq(c, 1, m - 1), a)
  BY DEF Gives
<1>2. /\ m \in 2..m /\ m - 1 \in 1..m /\ Own(c[m], G[m]) /\ G[m] \in Ghosts
      /\ Link(c[m - 1], G[m - 1], c[m], G[m]) /\ G[m].j = Target(c[m], m, G[m - 1].j)
  BY <1>0, <1>1, Pair
<1>3. a.at = c[m].at /\ a.th = c[m].th /\ a \in Acts
  BY <1>0 DEF OnlyStatus
<1>4. Own(a, G[m])
  BY <1>0, <1>2 DEF Own, IsRawRun, OnlyStatus
<1>5. Link(c[m - 1], G[m - 1], a, G[m])
  <2>1. LinkThreads(c[m - 1], a) BY <1>0, <1>2 DEF Link, LinkThreads, OnlyStatus
  <2>2. LinkKinds(c[m - 1], a)
    <3>1. a.at = "closeprotected" => a.level = c[m].level BY <1>0 DEF OnlyStatus, Floored
    <3> QED BY <1>0, <1>2, <3>1, Zenon DEF Link, LinkKinds, OnlyStatus, MayCall, Callers, CoCallers, PlainCallers
  <2>3. LinkCounts(G[m - 1], a, G[m]) /\ LinkFrames(c[m - 1], G[m - 1], a, G[m])
    BY <1>0, <1>2, Zenon DEF Link, LinkCounts, LinkFrames, OnlyStatus
  <2> QED BY <2>1, <2>2, <2>3 DEF Link
<1>6. G[m].j = Target(a, m, G[m - 1].j)
  BY <1>2, <1>3 DEF Target, IsRawRun
<1>7. Sound(s.L[a.th].ci, s.L[a.th].open, a, G[m])
  <2>1. Live(c, m, m) BY <1>1 DEF Live
  <2>2. Sound(s.L[c[m].th].ci, s.L[c[m].th].open, c[m], G[m]) BY <1>1, <2>1 DEF Body, Fits
  <2>3. Sound(s.L[c[m].th].ci, s.L[c[m].th].open, a, G[m]) BY <1>0, <2>2, SoundStatus, Zenon
  <2> QED BY <1>3, <2>3
<1>8. Replaces(s, G, a, G[m])
  BY <1>0, <1>2, <1>3, <1>4, <1>5, <1>6, <1>7, Zenon DEF Replaces
<1>9. Body(u, G2, h, b) /\ Len(u.C) = m /\ u.C[m] = a /\ \A i \in 1..(m - 1) : u.C[i] = c[i]
  BY <1>0, <1>8, BodyReplace
<1>10. G2 = G
  <2>1. /\ SubSeq(G, 1, m - 1) \in Seq(Ghosts) /\ Len(SubSeq(G, 1, m - 1)) = m - 1
        /\ \A i \in 1..(m - 1) : SubSeq(G, 1, m - 1)[i] = G[i]
    BY <1>1, <1>2, Lower
  <2>2. G2 \in Seq(Ghosts) /\ Len(G2) = m
    BY <1>2, <2>1
  <2>3. \A i \in 1..m : G2[i] = G[i]
    <3>1. \A i \in 1..m : i \in 1..(m - 1) \/ i = m BY <1>1
    <3> QED BY <1>1, <1>2, <2>1, <3>1
  <2> QED BY <1>1, <2>2, <2>3, SeqEqual
<1> HIDE DEF G2
<1> QED BY <1>9, <1>10

\* A jump to activation m, which gets a status.
JumpsTo(s, u, m, a, b) ==
    /\ m \in 1..Len(s.C) /\ s.C[m].at \notin {"host", "ccall", "luaF_close", "GCTM"}
    /\ OnlyStatus(s.C[m], a) /\ State(u) /\ u.L = s.L /\ u.C = Append(SubSeq(s.C, 1, m - 1), a) /\ u.gcstp = s.gcstp
    /\ b /\ u.gcstp => s.gcstp /\ \E i \in 1..m : s.C[i].at = "GCTM"
    /\ \A k \in 1..m : \A l \in (m + 1)..Len(s.C) : ~(s.C[l].at = "lua_closethread" /\ s.C[l].th = s.C[k].th)
\* What was below the target stays as it was.
LEMMA BodyJump ==
  ASSUME NEW s, NEW G, NEW h, NEW b, Body(s, G, h, b), NEW m, NEW a, NEW u, JumpsTo(s, u, m, a, b)
  PROVE  /\ Body(u, SubSeq(G, 1, m), h, b)
         /\ Len(u.C) = m /\ u.C[m] = a /\ SubSeq(G, 1, m)[m] = G[m] /\ Len(SubSeq(G, 1, m)) = m
         /\ m > 1
<1>0. /\ m \in 1..Len(s.C) /\ s.C[m].at \notin {"host", "ccall", "luaF_close", "GCTM"}
      /\ OnlyStatus(s.C[m], a) /\ State(u) /\ u.L = s.L /\ u.C = Append(SubSeq(s.C, 1, m - 1), a) /\ u.gcstp = s.gcstp
      /\ b /\ u.gcstp => s.gcstp /\ \E i \in 1..m : s.C[i].at = "GCTM"
      /\ \A k \in 1..m : \A l \in (m + 1)..Len(s.C) : ~(s.C[l].at = "lua_closethread" /\ s.C[l].th = s.C[k].th)
  BY DEF JumpsTo
<1> USE <1>0
<1> DEFINE c == s.C   w == [s EXCEPT !.C = SubSeq(c, 1, m)]   G2 == SubSeq(G, 1, m)
           v == [w EXCEPT !.gcstp = u.gcstp]
<1>1. Chain(c, G, h) /\ Len(c) \in Nat /\ m \in Nat /\ State(s)
  BY DEF Body, Chain, Chained
<1>2. m > 1 /\ m - 1 \in 1..m /\ m - 1 \in 1..Len(c)
  BY <1>1, Pair
<1>3. State(v) /\ v.L = s.L /\ v.C = SubSeq(c, 1, m) /\ v.gcstp = u.gcstp
  BY <1>1 DEF State, StateFields
<1> HIDE DEF v, w
<1>4. Body(v, G2, h, b) /\ Len(v.C) = m /\ v.C[m] = c[m] /\ G2[m] = G[m] /\ Len(G2) = m
  BY <1>3, BodyLower
<1>5. \A i \in 1..m : v.C[i] = c[i] /\ G2[i] = G[i]
  BY <1>1, <1>3, Lower
<1> HIDE DEF G2
<1>6. SubSeq(v.C, 1, m - 1) = SubSeq(c, 1, m - 1)
  <2>1. /\ SubSeq(c, 1, m - 1) \in Seq(Acts) /\ Len(SubSeq(c, 1, m - 1)) = m - 1
        /\ \A i \in 1..(m - 1) : SubSeq(c, 1, m - 1)[i] = c[i]
    BY <1>1, <1>2, Lower
  <2>2. Chain(v.C, G2, h) /\ m - 1 \in 1..Len(v.C)
    BY <1>2, <1>4 DEF Body
  <2>3. /\ SubSeq(v.C, 1, m - 1) \in Seq(Acts) /\ Len(SubSeq(v.C, 1, m - 1)) = m - 1
        /\ \A i \in 1..(m - 1) : SubSeq(v.C, 1, m - 1)[i] = v.C[i]
    BY <2>2, Lower
  <2>4. \A i \in 1..(m - 1) : SubSeq(v.C, 1, m - 1)[i] = SubSeq(c, 1, m - 1)[i]
    <3>1. \A i \in 1..(m - 1) : i \in 1..m BY <1>1
    <3> QED BY <1>5, <2>1, <2>3, <3>1
  <2> QED BY <2>1, <2>3, <2>4, SeqEqual
<1>7. InC(v, u) /\ u.C = Append(SubSeq(v.C, 1, Len(v.C) - 1), a)
  BY <1>3, <1>4, <1>6 DEF InC
<1>8. Body(u, G2, h, b) /\ Len(u.C) = m /\ u.C[m] = a
  <2>1. v.C[Len(v.C)].at \notin {"host", "ccall", "luaF_close", "GCTM"} /\ OnlyStatus(v.C[Len(v.C)], a)
    BY <1>4
  <2>3. Gives(v, u, a)
    BY <1>7, <2>1 DEF Gives
  <2>4. Body(v, G2, h, b) BY <1>4
  <2>5. Body(u, G2, h, b) BY <2>4, <2>3, BodyStatus
  <2>6. Len(u.C) = Len(v.C) /\ u.C[Len(v.C)] = a BY <2>4, <2>3, BodyStatus
  <2> QED BY <1>4, <2>5, <2>6
<1>9. Len(u.C) = m /\ u.C[m] = a /\ G2[m] = G[m] /\ Len(G2) = m /\ m > 1 /\ Body(u, G2, h, b)
  BY <1>2, <1>4, <1>8
<1> QED BY <1>9 DEF G2

\* A thread goes on in place of another, or anew in place of itself.
LEMMA BodySwitch ==
  ASSUME NEW s, NEW G, NEW h, NEW b, Body(s, G, h, b), NEW a, NEW g, Calls(s.C, G, a, g), a.at \in Switches,
         NEW u, State(u), u.C = Append(s.C, a), u.gcstp = s.gcstp, \A t \in Threads : t # a.th => u.L[t] = s.L[t],
         ThreadInv(u.L[a.th]), Sound(u.L[a.th].ci, u.L[a.th].open, a, g),
         IF a.th = s.C[Len(s.C)].th THEN a.at = "lua_closethread"
         ELSE Settled(s.L[s.C[Len(s.C)].th], s.C[Len(s.C)], G[Len(G)])
  PROVE  Body(u, Append(G, g), h, b)
<1> DEFINE c == s.C   n == Len(c)   c2 == Append(c, a)   G2 == Append(G, g)
<1>1. Chain(c, G, h) /\ c \in Seq(Acts) /\ G \in Seq(Ghosts) /\ Len(G) = n /\ a \in Acts /\ g \in Ghosts /\ n \in Nat /\ n >= 1
  BY DEF Body, Chain, Chained, Calls
<1>2. /\ Len(c2) = n + 1 /\ c2[n + 1] = a /\ G2[n + 1] = g
      /\ \A i \in 1..n : c2[i] = c[i] /\ G2[i] = G[i] /\ c[i] \in Acts
  BY <1>1, AppendAct
<1>3. Chain(c2, G2, h)
  BY <1>1, ChainPush
<1> HIDE DEF c2, G2
<1>4. \A i \in 1..n : c[i].th \in Threads
  BY <1>2, Kinds
<1>5. ASSUME NEW i \in 1..n, c[i].th = a.th PROVE a.at = "lua_closethread"
  BY <1>5, Zenon DEF Calls
<1>6. Fits(u.L, c2, G2)
  <2> SUFFICES ASSUME NEW k \in 1..(n + 1), Live(c2, k, n + 1)
               PROVE  Sound(u.L[c2[k].th].ci, u.L[c2[k].th].open, c2[k], G2[k])
    BY <1>2 DEF Fits
  <2>1. CASE k = n + 1 BY <1>2, <2>1
  <2>2. CASE k # n + 1
    <3>1. k \in 1..n BY <1>1, <2>2
    <3>2. \A l \in (k + 1)..n : l \in 1..n /\ l \in (k + 1)..(n + 1) BY <1>1, <3>1
    <3>3. Live(c, k, n) BY <1>2, <3>1, <3>2 DEF Live
    <3>4. c[k].th # a.th
      <4>1. n + 1 \in (k + 1)..(n + 1) BY <1>1, <3>1
      <4> QED BY <1>2, <1>5, <3>1, <4>1 DEF Live
    <3> QED BY <1>2, <1>4, <3>1, <3>3, <3>4, Zenon DEF Body, Fits
  <2> QED BY <2>1, <2>2, Zenon
<1>7. Waiting(u.L, c2, G2)
  <2> SUFFICES ASSUME NEW k \in 1..((n + 1) - 1), c2[k].th # c2[k + 1].th
               PROVE  Settled(u.L[c2[k].th], c2[k], G2[k])
    BY <1>2 DEF Waiting
  <2>1. CASE k = n
    <3>1. c[n].th # a.th /\ n \in 1..n BY <1>1, <1>2, <2>1
    <3> QED BY <1>1, <1>2, <1>4, <2>1, <3>1, Zenon
  <2>2. CASE k # n
    <3>1. k \in 1..(n - 1) /\ k \in 1..n /\ k + 1 \in 1..n /\ k + 1 \in k..n /\ n \in 1..n BY <1>1, <2>2
    <3>2. c[k].th # c[k + 1].th BY <1>2, <3>1
    <3>3. c[k].th # c[n].th BY <1>1, <3>1, <3>2, Zenon DEF Chain, Contiguous
    <3>4. c[k].th # a.th BY <3>1, <3>3 DEF Calls
    <3> QED BY <1>2, <1>4, <3>1, <3>2, <3>4, Zenon DEF Body, Waiting
  <2> QED BY <2>1, <2>2
<1>8. Collects(u, b)
  <2>1. \A i \in 1..n : i \in 1..(n + 1) /\ c2[i] = c[i] BY <1>1, <1>2
  <2> QED BY <1>2, <2>1 DEF Body, Collects, c2
<1>9. \A t \in Threads : ThreadInv(u.L[t])
  <2>1. \A t \in Threads : t = a.th \/ u.L[t] = s.L[t] OBVIOUS
  <2> QED BY <2>1 DEF Body
<1>10. Body(u, G2, h, b)
  BY <1>3, <1>6, <1>7, <1>8, <1>9 DEF Body, c2
<1> QED BY <1>10 DEF G2

-----------------------------------------------------------------------------
(* Errors.                                                                  *)

\* After a long jump.
Thrown(x, a, g) ==
    /\ IsRawRun(a) /\ a.status \in Failures \union {"YIELD"} /\ (a.status = "YIELD" => a.at = "lua_resume")
    /\ x.status = (IF a.status = "YIELD" THEN "YIELD" ELSE "OK")
    /\ x.nC = g.c /\ x.nny = g.e
\* What the other thread left on its stack is above its frames.
Left(x) == /\ Len(x.stack) >= 1 /\ Len(x.stack) \notin x.open
           /\ Len(x.ci) = 1 \/ x.ci[Len(x.ci)].func < Len(x.stack)
Returned(s) ==
    LET a == s.C[Len(s.C)]
    IN  a.at \in CoCallers /\ (a.status # "OK" \/ a.at = "luaB_auxwrap_closed") => Left(s.L[a.co])
Running(s, G) ==
    LET n == Len(s.C)   a == s.C[n]   x == s.L[a.th]
    IN  Settled(x, a, G[n]) \/ Thrown(x, a, G[n])
Holds(s, h, b) == \E G : Body(s, G, h, b) /\ Running(s, G) /\ Returned(s)

\* A status is given.
LEMMA Marked ==
  ASSUME NEW a \in Acts, NEW st,
         \/ (IsRawRun(a) \/ a.at = "luaD_pcall_error") /\ st \in Statuses
         \/ a.at = "lua_closethread" /\ st \in Ends
         \/ a.at \in CoCallers /\ st \in Statuses \union {"not_resumed"}
  PROVE  OnlyStatus(a, [a EXCEPT !.status = st]) /\ [a EXCEPT !.status = st].status = st
<1>1. CASE (IsRawRun(a) \/ a.at = "luaD_pcall_error") /\ st \in Statuses
  <2>1. a \in RawActs BY <1>1, Kinds
  <2>2. [a EXCEPT !.status = st] \in RawActs BY <1>1, <2>1 DEF RawActs
  <2>3. [a EXCEPT !.status = st] \in Acts BY <2>2 DEF Acts
  <2> QED BY <1>1, <2>1, <2>3 DEF RawActs, OnlyStatus, CoCallers
<1>2. CASE a.at = "lua_closethread" /\ st \in Ends
  <2>1. a \in ThreadActs BY <1>2, Kinds
  <2>2. [a EXCEPT !.status = st] \in ThreadActs BY <1>2, <2>1 DEF ThreadActs
  <2>3. [a EXCEPT !.status = st] \in Acts BY <2>2 DEF Acts
  <2> QED BY <1>2, <2>1, <2>3 DEF ThreadActs, OnlyStatus, CoCallers, IsRawRun, Floored
<1>3. CASE a.at \in CoCallers /\ st \in Statuses \union {"not_resumed"}
  <2>1. a \in CoActs BY <1>3, Kinds
  <2>2. [a EXCEPT !.status = st] \in CoActs BY <1>3, <2>1 DEF CoActs
  <2>3. [a EXCEPT !.status = st] \in Acts BY <2>2 DEF Acts
  <2> QED BY <1>3, <2>1, <2>3 DEF CoActs, OnlyStatus, CoCallers, IsRawRun, Floored
<1> QED BY <1>1, <1>2, <1>3

\* Where an error goes: nothing is jumped over that may not be.
LEMMA ThrowTarget ==
  ASSUME NEW s, NEW G, NEW h, NEW b, Body(s, G, h, b),
         s.C[Len(s.C)].at \notin {"host", "lua_closethread", "luaD_pcall_error", "GCTM"}
  PROVE  LET n == Len(s.C)   j == G[n].j   th == s.C[n].th
         IN  /\ j \in 1..n /\ IsRawRun(s.C[j]) /\ s.C[j].th = th /\ Max(errorJmps(s, th)) = j
             /\ \A k \in 1..j : \A l \in (j + 1)..n : ~(s.C[l].at = "lua_closethread" /\ s.C[l].th = s.C[k].th)
             /\ b /\ s.gcstp => \E i \in 1..j : s.C[i].at = "GCTM"
<1> DEFINE c == s.C   n == Len(c)   j == G[n].j   th == c[n].th
<1>1. Chain(c, G, h) /\ n \in Nat /\ n \in 1..n /\ c \in Seq(Acts)
  BY DEF Body, Chain, Chained
<1>2. j \in 1..n /\ Innermost(c, G, n)
  BY <1>1, JumpTarget
<1> HIDE DEF j
<1>3. /\ IsRawRun(c[j]) /\ (\A i \in j..n : c[i].th = th) /\ \A i \in (j + 1)..n : ~IsRawRun(c[i])
  BY <1>1, <1>2 DEF Innermost, j
<1>4. j \in Nat /\ j \in j..n /\ c[j].th = th
  <2>1. j \in Nat /\ j \in j..n BY <1>1, <1>2
  <2> QED BY <1>3, <2>1
<1>5. Max(errorJmps(s, th)) = j
  <2>1. j \in errorJmps(s, th) BY <1>1, <1>2, <1>3, <1>4 DEF errorJmps
  <2>2. ASSUME NEW i \in errorJmps(s, th) PROVE i \in 1..n /\ j >= i
    <3>1. i \in 1..n /\ IsRawRun(c[i]) BY <1>1 DEF errorJmps
    <3>2. ~(i \in (j + 1)..n) BY <1>3, <3>1
    <3> QED BY <1>1, <1>4, <3>1, <3>2
  <2>3. \A i \in errorJmps(s, th) : (\A k \in errorJmps(s, th) : i >= k) => i = j
    BY <1>4, <2>1, <2>2
  <2> QED BY <2>1, <2>2, <2>3 DEF Max
<1>6. ASSUME NEW l \in (j + 1)..n PROVE c[l].at # "lua_closethread"
  <2>1. SUFFICES ASSUME c[l].at = "lua_closethread" PROVE FALSE OBVIOUS
  <2>2. l # n BY <2>1
  <2>3. l \in 1..(n - 1) /\ l + 1 \in (j + 1)..n BY <1>1, <1>4, <2>2
  <2>4. MayCall(c[l].at, c[l + 1].at) BY <1>1, <2>3 DEF Chain, Chained, Link, LinkKinds
  <2>5. IsRawRun(c[l + 1]) BY <2>1, <2>4 DEF MayCall, Callers, CoCallers, PlainCallers, IsRawRun
  <2> QED BY <1>3, <2>3, <2>5
<1>7. ASSUME NEW i \in 1..n, c[i].at = "GCTM" PROVE i \in 1..j
  <2>1. SUFFICES ASSUME i \in (j + 1)..n PROVE FALSE BY <1>1, <1>4
  <2>2. i # n BY <1>7
  <2>3. i \in 1..(n - 1) /\ i + 1 \in (j + 1)..n /\ i + 1 \in 1..n BY <1>1, <1>4, <2>1, <2>2
  <2>4. MayCall(c[i].at, c[i + 1].at) BY <1>1, <2>3 DEF Chain, Chained, Link, LinkKinds
  <2>5. c[i + 1].at \in {"luaD_pcall", "luaD_pcall_error"}
    BY <1>7, <2>4 DEF MayCall, Callers, CoCallers, PlainCallers
  <2>6. c[i + 1].at = "luaD_pcall_error" BY <1>3, <2>3, <2>5 DEF IsRawRun
  <2>7. i + 1 # n BY <2>6
  <2>8. i + 1 \in 1..(n - 1) /\ (i + 1) + 1 \in (j + 1)..n BY <1>1, <1>4, <2>3, <2>7
  <2>9. MayCall(c[i + 1].at, c[(i + 1) + 1].at) BY <1>1, <2>8 DEF Chain, Chained, Link, LinkKinds
  <2>10. IsRawRun(c[(i + 1) + 1]) BY <2>6, <2>9 DEF MayCall, Callers, CoCallers, PlainCallers, IsRawRun
  <2> QED BY <1>3, <2>8, <2>10
<1>8. b /\ s.gcstp => \E i \in 1..j : c[i].at = "GCTM"
  <2>1. b /\ s.gcstp => \E i \in 1..n : c[i].at = "GCTM" BY DEF Body, Collects
  <2> QED BY <1>7, <2>1
<1> QED BY <1>2, <1>3, <1>4, <1>5, <1>6, <1>8, Zenon DEF j

\* A jump changes the C stack and the counts.
Recounts(s, w, th, cc, e) ==
    LET x == s.L[th] IN Turns(s, w, th, x.status, x.ci, Len(x.stack), x.open, cc, e)
Jumped(s, u, th, j, a, cc, e) ==
    /\ \E w : Recounts(s, w, th, cc, e) /\ u.L = w.L
    /\ State(u) /\ u.gcstp = s.gcstp /\ u.C = Append(SubSeq(s.C, 1, j - 1), a)
\* Everything else but the history is as it was.
LEMMA JumpFields ==
  ASSUME NEW s, State(s), NEW th \in Threads, NEW j, NEW cc \in Int, NEW e \in Int, s.C[j].nC = cc, s.C[j].nny = e, NEW status
  PROVE  Jumped(s, JumpTo(s, th, j, status), th, j, [s.C[j] EXCEPT !.status = status], cc, e)
<1> DEFINE w == [s EXCEPT !.L[th].nC = cc, !.L[th].nny = e]
           a == [s.C[j] EXCEPT !.status = status]   c == Append(SubSeq(s.C, 1, j - 1), a)
           u1 == [s EXCEPT !.C = Append(SubSeq(@, 1, j - 1), [@[j] EXCEPT !.status = status]),
                           !.L[th].nC = s.C[j].nC, !.L[th].nny = s.C[j].nny]
           v == IF status = "ERRMEM" THEN Message("no_memory") ELSE Last(s.L[th].stack)
           u2 == [u1 EXCEPT !.scopes[th][LastCall(s.scopes[th])].err = v]
           x == s.L[th]
<1>1. Turns(s, w, th, x.status, x.ci, Len(x.stack), x.open, cc, e) /\ Recounts(s, w, th, cc, e)
  BY CountsSet, Zenon DEF Recounts
<1>2. DOMAIN u1 = StateFields /\ u1.L = w.L /\ u1.gcstp = s.gcstp /\ u1.C = c
  BY DEF State, StateFields
<1>3. DOMAIN u2 = StateFields /\ u2.L = u1.L /\ u2.gcstp = u1.gcstp /\ u2.C = u1.C
  BY <1>2 DEF StateFields
<1>4. JumpTo(s, th, j, status) = u1 \/ JumpTo(s, th, j, status) = u2
  BY DEF JumpTo
<1> HIDE DEF u1, u2, w
<1>5. State(u1) /\ State(u2)
  BY <1>1, <1>2, <1>3 DEF Turns, InThread, State
<1>6. u1.L = w.L /\ u1.gcstp = s.gcstp /\ u1.C = c /\ u2.L = w.L /\ u2.gcstp = s.gcstp /\ u2.C = c
  BY <1>2, <1>3
<1> HIDE DEF a
<1>7. ASSUME NEW u, u \in {u1, u2} PROVE Jumped(s, u, th, j, a, cc, e)
  <2>1. u.L = w.L /\ u.gcstp = s.gcstp /\ u.C = Append(SubSeq(s.C, 1, j - 1), a) /\ State(u)
    BY <1>5, <1>6, <1>7
  <2>2. \E v1 : Recounts(s, v1, th, cc, e) /\ u.L = v1.L
    BY <1>1, <2>1
  <2> QED BY <2>1, <2>2 DEF Jumped
<1>8. Jumped(s, JumpTo(s, th, j, status), th, j, a, cc, e)
  BY <1>4, <1>7
<1> QED BY <1>8 DEF a

\* An error, or a yield where it is possible.
Throws(s, status) ==
    LET a == s.C[Len(s.C)]
    IN  /\ a.at \notin {"host", "lua_closethread", "luaD_pcall_error", "GCTM"}
        /\ s.L[a.th].status = (IF status = "YIELD" THEN "YIELD" ELSE "OK")
        /\ status \in Failures \union {"YIELD"}
\* A long jump leaves the C stack at its target.
LEMMA Throw ==
  ASSUME NEW s, NEW h, NEW b, NEW status, Throws(s, status),
         \E G : Body(s, G, h, b) /\ (status = "YIELD" => s.C[G[Len(s.C)].j].at = "lua_resume")
  PROVE  Holds(luaD_throw(s, s.C[Len(s.C)].th, status), h, b)
<1>1. PICK G : Body(s, G, h, b) /\ (status = "YIELD" => s.C[G[Len(s.C)].j].at = "lua_resume")
  OBVIOUS
<1> DEFINE n == Len(s.C)   th == s.C[n].th   j == G[n].j   u == luaD_throw(s, th, status)   x == s.L[th]
           a == [s.C[j] EXCEPT !.status = status]
<1>2. s.C[n].at \notin {"host", "lua_closethread", "luaD_pcall_error", "GCTM"} /\ status \in Statuses
  BY DEF Throws, Statuses
<1>3. /\ j \in 1..n /\ IsRawRun(s.C[j]) /\ s.C[j].th = th /\ Max(errorJmps(s, th)) = j
      /\ \A k \in 1..j : \A l \in (j + 1)..n : ~(s.C[l].at = "lua_closethread" /\ s.C[l].th = s.C[k].th)
      /\ b /\ s.gcstp => \E i \in 1..j : s.C[i].at = "GCTM"
  BY <1>1, <1>2, ThrowTarget
<1>4. Chain(s.C, G, h) /\ n \in Nat /\ n \in 1..n /\ State(s) /\ s.C \in Seq(Acts)
  BY <1>1 DEF Body, Chain, Chained
<1>5. th \in Threads
  BY <1>4, Kinds
<1>6. s.C[j] \in Acts /\ G[j] \in Ghosts /\ Own(s.C[j], G[j])
  BY <1>3, <1>4, JumpTarget
<1>7. s.C[j].nC = G[j].c /\ s.C[j].nny = G[j].e /\ G[j].c \in Int /\ G[j].e \in Int
  BY <1>3, <1>6 DEF Own, Ghosts
<1>8. u = JumpTo(s, th, j, status)
  BY <1>3 DEF luaD_throw
<1>9. Jumped(s, u, th, j, a, G[j].c, G[j].e)
  <2> DEFINE cc == G[j].c   e == G[j].e
  <2>1. cc \in Int /\ e \in Int /\ s.C[j].nC = cc /\ s.C[j].nny = e BY <1>7
  <2> HIDE DEF j, th, cc, e
  <2>2. Jumped(s, JumpTo(s, th, j, status), th, j, a, cc, e)
    BY <1>4, <1>5, <2>1, JumpFields
  <2> HIDE DEF u, a
  <2> QED BY <1>8, <2>2 DEF cc, e
<1> HIDE DEF u, a
<1>10. /\ State(u) /\ u.gcstp = s.gcstp /\ u.C = Append(SubSeq(s.C, 1, j - 1), a)
       /\ \E w : Recounts(s, w, th, G[j].c, G[j].e) /\ u.L = w.L
  BY <1>9, Zenon DEF Jumped
<1>20. PICK w : Recounts(s, w, th, G[j].c, G[j].e) /\ u.L = w.L
  BY <1>10, Zenon
<1>21. Turns(s, w, th, x.status, x.ci, Len(x.stack), x.open, G[j].c, G[j].e) /\ u.L = w.L
  BY <1>20, Zenon DEF Recounts
<1>11. Body(w, G, h, b)
  <2>1. /\ Len(x.stack) \in Nat /\ x.open \subseteq 2..Len(x.stack)
        /\ IF Len(x.stack) = 0 THEN Len(x.ci) = 1 ELSE x.ci[Len(x.ci)].func <= Len(x.stack)
    BY <1>1, <1>5, Zenon DEF Body, ThreadInv, Stacked
  <2>2. Restacks(s, w, th)
    BY <1>5, <1>21, <2>1, Zenon DEF Turns, Restacks
  <2> HIDE DEF n, th, x
  <2> QED BY <1>1, <2>2, BodyStack
<1>12. w.C = s.C /\ w.gcstp = s.gcstp
  BY <1>21, Zenon DEF Turns, InThread
<1>13. OnlyStatus(s.C[j], a) /\ a.status = status
  BY <1>2, <1>3, <1>6, Marked, Zenon DEF a
<1>14. Body(u, SubSeq(G, 1, j), h, b) /\ Len(u.C) = j /\ u.C[j] = a /\ SubSeq(G, 1, j)[j] = G[j]
  <2>1. JumpsTo(w, u, j, a, b)
    BY <1>3, <1>10, <1>21, <1>12, <1>13, Zenon DEF IsRawRun, JumpsTo
  <2> HIDE DEF j, th, n
  <2> QED BY <1>11, <2>1, BodyJump
<1>15. a.th = th /\ IsRawRun(a) /\ a.at = s.C[j].at /\ a.at \notin CoCallers
  BY <1>3, <1>13, Zenon DEF OnlyStatus, IsRawRun, CoCallers
<1>16. Thrown(u.L[th], a, G[j])
  <2>1. u.L[th].status = s.L[th].status /\ u.L[th].nC = G[j].c /\ u.L[th].nny = G[j].e
    BY <1>21, Zenon DEF Turns
  <2> QED BY <1>1, <1>13, <1>15, <2>1, Zenon DEF Thrown, Throws
<1>17. Running(u, SubSeq(G, 1, j))
  BY <1>14, <1>15, <1>16 DEF Running
<1>18. Returned(u)
  BY <1>14, <1>15 DEF Returned
<1> QED BY <1>14, <1>17, <1>18 DEF Holds, u

-----------------------------------------------------------------------------
(* Calls.                                                                   *)

\* A function at p can be called: nothing is in its way.
Room(c, G, q, O, p) ==
    LET n == Len(c)   f == q[Len(q)]
    IN  /\ p \in Nat /\ p > f.func /\ (f.ypcall => p >= f.funcidx)
        /\ \A o \in O : o < p
        /\ \A k \in 1..n : c[k].th = c[n].th /\ Live(c, k, n) /\ Levelled(c[k]) /\ G[k].d = Len(q) => c[k].level <= p
Poised(s, G, h, b, p) ==
    LET n == Len(s.C)   a == s.C[n]   x == s.L[a.th]
    IN  /\ Body(s, G, h, b) /\ Settled(x, a, G[n]) /\ Room(s.C, G, x.ci, x.open, p) /\ p <= Len(x.stack)

\* There is room above it too.
LEMMA RoomUp ==
  ASSUME NEW c \in Seq(Acts), NEW G, NEW q \in Seq(Frames), Len(q) >= 1, NEW O \in SUBSET Nat,
         NEW p, NEW r \in Nat, Room(c, G, q, O, p), r >= p
  PROVE  Room(c, G, q, O, r)
<1> DEFINE n == Len(c)   f == q[Len(q)]
<1>1. /\ p \in Nat /\ p > f.func /\ (f.ypcall => p >= f.funcidx) /\ \A o \in O : o < p
      /\ \A k \in 1..n : c[k].th = c[n].th /\ Live(c, k, n) /\ Levelled(c[k]) /\ G[k].d = Len(q) => c[k].level <= p
  BY DEF Room
<1>2. f.func \in Nat /\ f.funcidx \in Nat
  <2>1. Len(q) \in 1..Len(q) OBVIOUS
  <2> QED BY <2>1, FrameTypes
<1>3. \A k \in 1..n : Levelled(c[k]) => c[k].level \in Nat
  <2> SUFFICES ASSUME NEW k \in 1..n, Levelled(c[k]) PROVE c[k].level \in Nat OBVIOUS
  <2>1. c[k] \in Acts OBVIOUS
  <2>2. c[k] \in RawActs BY <2>1, Kinds DEF Levelled, IsRawRun
  <2> QED BY <2>2 DEF RawActs
<1>4. r > f.func /\ (f.ypcall => r >= f.funcidx) /\ \A o \in O : o < r
  BY <1>1, <1>2
<1>5. ASSUME NEW k \in 1..n, c[k].th = c[n].th, Live(c, k, n), Levelled(c[k]), G[k].d = Len(q) PROVE c[k].level <= r
  <2>1. c[k].level <= p /\ c[k].level \in Nat BY <1>1, <1>3, <1>5
  <2> QED BY <1>1, <2>1
<1> QED BY <1>4, <1>5 DEF Room

\* One call more that protects nothing leaves room.
LEMMA RoomCall ==
  ASSUME NEW c \in Seq(Acts), NEW G \in Seq(Ghosts), Len(c) = Len(G), Len(c) >= 1, NEW q, NEW O, NEW p,
         Room(c, G, q, O, p), NEW a \in Acts, NEW g \in Ghosts, a.th = c[Len(c)].th,
         a.at # "lua_closethread", ~Levelled(a)
  PROVE  Room(Append(c, a), Append(G, g), q, O, p)
<1> DEFINE n == Len(c)   c2 == Append(c, a)   G2 == Append(G, g)
<1>1. /\ n \in Nat /\ Len(c2) = n + 1 /\ c2[n + 1] = a /\ n \in 1..n
      /\ \A i \in 1..n : c2[i] = c[i] /\ G2[i] = G[i]
  BY AppendAct
<1> HIDE DEF c2, G2
<1>2. ASSUME NEW k \in 1..(n + 1), c2[k].th = c2[n + 1].th, Live(c2, k, n + 1), Levelled(c2[k]), G2[k].d = Len(q)
      PROVE  c2[k].level <= p
  <2>1. k # n + 1 BY <1>1, <1>2
  <2>2. k \in 1..n BY <1>1, <2>1
  <2>3. Live(c, k, n)
    <3>1. \A l \in (k + 1)..n : l \in (k + 1)..(n + 1) /\ l \in 1..n BY <1>1, <2>2
    <3> QED BY <1>1, <1>2, <2>2, <3>1 DEF Live
  <2>4. c[k].th = c[n].th /\ Levelled(c[k]) /\ G[k].d = Len(q) /\ c2[k].level = c[k].level
    BY <1>1, <1>2, <2>2
  <2> QED BY <2>2, <2>3, <2>4 DEF Room
<1>3. Room(c2, G2, q, O, p)
  BY <1>1, <1>2 DEF Room
<1> QED BY <1>3 DEF c2, G2

\* So does one that protects what is called.
LEMMA RoomProtected ==
  ASSUME NEW c \in Seq(Acts), NEW G \in Seq(Ghosts), Len(c) = Len(G), Len(c) >= 1, NEW q, NEW O, NEW p,
         Room(c, G, q, O, p), NEW a \in Acts, NEW g \in Ghosts, a.th = c[Len(c)].th,
         a.at # "lua_closethread", a.level = p
  PROVE  Room(Append(c, a), Append(G, g), q, O, p)
<1> DEFINE n == Len(c)   c2 == Append(c, a)   G2 == Append(G, g)
<1>1. /\ n \in Nat /\ n >= 1 /\ Len(c2) = n + 1 /\ c2[n + 1] = a /\ G2[n + 1] = g
      /\ \A i \in 1..n : c2[i] = c[i] /\ G2[i] = G[i]
  BY AppendAct
<1>2. /\ p \in Nat /\ p > q[Len(q)].func /\ (q[Len(q)].ypcall => p >= q[Len(q)].funcidx) /\ \A o \in O : o < p
      /\ \A k \in 1..n : c[k].th = c[n].th /\ Live(c, k, n) /\ Levelled(c[k]) /\ G[k].d = Len(q) => c[k].level <= p
  BY DEF Room
<1> HIDE DEF c2, G2
<1>3. ASSUME NEW k \in 1..(n + 1), c2[k].th = c2[n + 1].th, Live(c2, k, n + 1), Levelled(c2[k]), G2[k].d = Len(q)
      PROVE  c2[k].level <= p
  <2>1. CASE k = n + 1
    <3>1. p <= p BY <1>2
    <3> QED BY <1>1, <2>1, <3>1
  <2>2. CASE k # n + 1
    <3>1. k \in 1..n BY <1>1, <2>2
    <3>2. \A l \in (k + 1)..n : l \in 1..n /\ l \in (k + 1)..(n + 1) BY <1>1, <3>1
    <3>3. Live(c, k, n) BY <1>1, <1>3, <3>1, <3>2 DEF Live
    <3> QED BY <1>1, <1>2, <1>3, <3>1, <3>3
  <2> QED BY <2>1, <2>2
<1>4. Room(c2, G2, q, O, p)
  <2>1. \A k \in 1..Len(c2) : c2[k].th = c2[Len(c2)].th /\ Live(c2, k, Len(c2)) /\ Levelled(c2[k]) /\ G2[k].d = Len(q) => c2[k].level <= p
    BY <1>1, <1>3
  <2> QED BY <1>2, <2>1 DEF Room
<1> QED BY <1>4 DEF c2, G2

\* The stack changes above p.
TurnsStack(s, u, th, p, n, O) ==
    LET x == s.L[th]
    IN  /\ Turns(s, u, th, x.status, x.ci, n, O, x.nC, x.nny)
        /\ n \in Nat /\ p <= n /\ O \subseteq x.open /\ O \subseteq 2..n
\* The function at p can still be called.
LEMMA PoisedStack ==
  ASSUME NEW s, NEW G, NEW h, NEW b, NEW p, Poised(s, G, h, b, p), NEW th, th = s.C[Len(s.C)].th,
         NEW u, NEW n, NEW O, TurnsStack(s, u, th, p, n, O)
  PROVE  Poised(u, G, h, b, p) /\ u.C = s.C
<1> DEFINE m == Len(s.C)   a == s.C[m]   x == s.L[th]   y == u.L[th]   q == x.ci   cc == x.nC   e == x.nny   st == x.status
<1>0. /\ Turns(s, u, th, x.status, x.ci, n, O, x.nC, x.nny)
      /\ n \in Nat /\ p <= n /\ O \subseteq x.open /\ O \subseteq 2..n
  BY Zenon DEF TurnsStack
<1>1. /\ Body(s, G, h, b) /\ Settled(x, a, G[m]) /\ Room(s.C, G, x.ci, x.open, p) /\ p <= Len(x.stack)
  BY Zenon DEF Poised
<1>2. /\ th \in Threads /\ Len(q) \in Nat /\ Len(q) >= 1 /\ q \in Seq(Frames) /\ x.open \subseteq 2..Len(x.stack)
      /\ Len(x.stack) \in Nat /\ q[Len(q)] \in Frames
  BY <1>1, TopFacts, Zenon
<1>3. /\ y.status = st /\ y.ci = q /\ Len(y.stack) = n /\ y.open = O /\ y.nC = cc /\ y.nny = e /\ u.C = s.C
  BY <1>0, Zenon DEF Turns, InThread
<1>4. p \in Nat /\ p > q[Len(q)].func /\ st = "OK" /\ q[Len(q)].func \in Nat
  BY <1>1, <1>2, Zenon DEF Room, Settled, Frames
<1>5. n # 0 /\ q[Len(q)].func <= n
  <2> DEFINE f == q[Len(q)].func
  <2>1. p \in Nat /\ p > f /\ f \in Nat /\ p <= n /\ n \in Nat BY <1>0, <1>4, Zenon
  <2> HIDE DEF f
  <2>2. n # 0 /\ f <= n BY <2>1
  <2> QED BY <2>2, Zenon DEF f
<1>6. Body(u, G, h, b)
  <2>1. Restacks(s, u, th) BY <1>0, <1>2, <1>4, <1>5, Zenon DEF Turns, Restacks
  <2> HIDE DEF st, cc, e, m, x, y, a, q
  <2> QED BY <1>1, <2>1, BodyStack
<1>7. Settled(y, a, G[m])
  BY <1>1, <1>3, Zenon DEF Settled
<1>8. Room(u.C, G, y.ci, y.open, p)
  BY <1>0, <1>1, <1>3, Zenon DEF Room
<1> QED BY <1>0, <1>3, <1>6, <1>7, <1>8, Zenon DEF Poised

\* The thread that runs calls something, or protects what it calls at p.
Deeper(s, u, a, g, m, p) ==
    LET th == s.C[Len(s.C)].th   x == s.L[th]   y == u.L[th]
    IN  /\ State(u) /\ u.C = Append(s.C, a) /\ u.gcstp = s.gcstp /\ \A t \in Threads : t # th => u.L[t] = s.L[t]
        /\ y.status = "OK" /\ y.ci = x.ci /\ Len(y.stack) = m /\ y.open = x.open /\ y.nC = g.c /\ y.nny = g.e
        /\ a.th = th /\ a.at \in {"ccall", "luaG_errormsg", "GCTM", "luaD_pcall"}
        /\ a.at = "luaD_pcall" => a.level = p /\ a.status = "OK"
        /\ Sound(x.ci, x.open, a, g)
\* There is still room.
LEMMA Deepen ==
  ASSUME NEW s, NEW G, NEW h, NEW b, NEW p, Poised(s, G, h, b, p), NEW u, NEW a, NEW g, NEW m \in Nat, p <= m,
         Calls(s.C, G, a, g), Deeper(s, u, a, g, m, p)
  PROVE  /\ Poised(u, Append(G, g), h, b, p)
         /\ Len(u.C) = Len(s.C) + 1 /\ u.C[Len(u.C)] = a /\ Append(G, g)[Len(u.C)] = g
<1> DEFINE n == Len(s.C)   th == s.C[n].th   x == s.L[th]   q == x.ci   w == [u EXCEPT !.C = s.C]   y == u.L[th]
           G2 == Append(G, g)
<1>1. /\ Body(s, G, h, b) /\ Settled(x, s.C[n], G[n]) /\ Room(s.C, G, q, x.open, p) /\ p <= Len(x.stack)
  BY Zenon DEF Poised
<1>2. /\ th \in Threads /\ Len(q) \in Nat /\ Len(q) >= 1 /\ q \in Seq(Frames) /\ x.open \subseteq 2..Len(x.stack)
      /\ Len(x.stack) \in Nat /\ q[Len(q)] \in Frames /\ n \in Nat /\ n >= 1 /\ Len(G) = n
      /\ s.C \in Seq(Acts) /\ G \in Seq(Ghosts)
  BY <1>1, TopFacts, Zenon
<1>3. a \in Acts /\ g \in Ghosts /\ Link(s.C[n], G[n], a, g)
  BY DEF Calls
<1>4. /\ State(u) /\ u.C = Append(s.C, a) /\ u.gcstp = s.gcstp /\ \A t \in Threads : t # th => u.L[t] = s.L[t]
      /\ y.status = "OK" /\ y.ci = q /\ Len(y.stack) = m /\ y.open = x.open /\ y.nC = g.c /\ y.nny = g.e
      /\ a.th = th /\ a.at \in {"ccall", "luaG_errormsg", "GCTM", "luaD_pcall"} /\ Sound(q, x.open, a, g)
      /\ a.at = "luaD_pcall" => a.level = p /\ a.status = "OK"
  BY Zenon DEF Deeper
<1>5. State(w) /\ w.L = u.L /\ w.C = s.C /\ w.gcstp = s.gcstp
  BY <1>4, Zenon DEF State, StateFields
<1>6. Turns(s, w, th, "OK", q, m, x.open, g.c, g.e)
  BY <1>4, <1>5, Zenon DEF Turns, InThread
<1> HIDE DEF w
<1>7. x.open \subseteq 2..m /\ m # 0 /\ q[Len(q)].func <= m
  <2> DEFINE f == q[Len(q)].func
  <2>1. p \in Nat /\ p > f /\ f \in Nat /\ \A o \in x.open : o < p BY <1>1, <1>2, Zenon DEF Room, Frames
  <2> HIDE DEF f
  <2>2. m # 0 /\ f <= m BY <2>1
  <2>3. x.open \subseteq 2..m BY <1>2, <2>1
  <2> QED BY <2>2, <2>3, Zenon DEF f
<1>8. Body(w, G, h, b)
  <2>1. Restacks(s, w, th) BY <1>2, <1>6, <1>7, Zenon DEF Turns, Restacks
  <2> HIDE DEF x, y, q, n, th
  <2> QED BY <1>1, <2>1, BodyStack
<1>9. Body(u, G2, h, b)
  <2>1. InC(w, u) /\ u.C = Append(w.C, a) /\ Calls(w.C, G, a, g)
    BY <1>4, <1>5, Zenon DEF InC
  <2>2. Sound(w.L[a.th].ci, w.L[a.th].open, a, g) /\ a.th = w.C[Len(w.C)].th
    BY <1>4, <1>5, Zenon
  <2> HIDE DEF x, y, q, n, th
  <2> QED BY <1>8, <2>1, <2>2, BodyPush, Zenon
<1>10. Len(u.C) = n + 1 /\ u.C[n + 1] = a /\ G2[n + 1] = g
  <2> HIDE DEF x, y, q, th
  <2>1. s.C \in Seq(Acts) /\ G \in Seq(Ghosts) /\ Len(s.C) = Len(G) BY <1>2
  <2>2. Len(Append(s.C, a)) = n + 1 /\ Append(s.C, a)[n + 1] = a /\ G2[n + 1] = g BY <1>3, <2>1, AppendAct
  <2> QED BY <1>4, <2>2
<1>11. g.d = G[n].d /\ G[n].d = Len(q)
  <2>1. s.C[n].at # "unroll" BY <1>3, <1>4, Zenon DEF Link, LinkKinds, MayCall, Callers, CoCallers, PlainCallers
  <2>2. g.d = G[n].d
    BY <1>3, <1>4, <2>1, Zenon DEF Link, LinkFrames, Callers, CoCallers, PlainCallers, Switches
  <2> QED BY <1>1, <2>1, <2>2, Zenon DEF Settled
<1>12. Settled(y, a, g)
  BY <1>4, <1>11, Zenon DEF Settled, IsRawRun
<1>13. Room(u.C, G2, y.ci, y.open, p)
  <2>1. a.th = s.C[Len(s.C)].th /\ a.at # "lua_closethread" /\ (~Levelled(a) \/ a.level = p) BY <1>4, Zenon DEF Levelled
  <2>2. Len(s.C) = Len(G) /\ Len(s.C) >= 1 /\ Room(s.C, G, y.ci, y.open, p) BY <1>1, <1>2, <1>4, Zenon
  <2>3. Room(Append(s.C, a), Append(G, g), y.ci, y.open, p) BY <1>2, <1>3, <2>1, <2>2, RoomCall, RoomProtected, Zenon
  <2> QED BY <1>4, <2>3, Zenon
<1>14. p <= Len(y.stack)
  BY <1>4, Zenon
<1>15. Poised(u, G2, h, b, p)
  BY <1>4, <1>9, <1>10, <1>12, <1>13, <1>14, Zenon DEF Poised
<1> QED BY <1>10, <1>15

\* A Lua function is entered: its frame and its luaV_execute are there.
LEMMA EnterLua ==
  ASSUME NEW s, NEW G, NEW h, NEW b, NEW p, Poised(s, G, h, b, p), s.C[Len(s.C)].at = "ccall", NEW f \in Frames,
         f.func = p, f.lua, f.fresh, f.op = "none", ~f.ypcall, f.recst = "OK"
  PROVE  Holds(PushC(prepCallInfo(s, s.C[Len(s.C)].th, f), Activation("execute", s.C[Len(s.C)].th)), h, b)
<1> DEFINE n == Len(s.C)   th == s.C[n].th   x == s.L[th]   q == x.ci   r == Append(q, f)
           w == prepCallInfo(s, th, f)   a == Activation("execute", th)   u == PushC(w, a)
           g == [d |-> Len(q) + 1, b |-> Len(q) + 1, c |-> G[n].c, e |-> G[n].e, j |-> G[n].j]
<1>1. /\ Body(s, G, h, b) /\ Settled(x, s.C[n], G[n]) /\ Room(s.C, G, q, x.open, p) /\ p <= Len(x.stack)
  BY Zenon DEF Poised
<1>2. /\ th \in Threads /\ Len(q) \in Nat /\ Len(q) >= 1 /\ q \in Seq(Frames) /\ x.open \subseteq 2..Len(x.stack)
      /\ Len(x.stack) \in Nat /\ q[Len(q)] \in Frames /\ n \in Nat /\ n >= 1 /\ n \in 1..n /\ Len(G) = n
      /\ s.C \in Seq(Acts) /\ G \in Seq(Ghosts) /\ s.C[n] \in Acts /\ G[n] \in Ghosts /\ State(s)
      /\ Stacked(q, Len(x.stack), x.open)
  BY <1>1, TopFacts, Zenon
<1>3. /\ x.status = "OK" /\ x.nC = G[n].c /\ x.nny = G[n].e /\ Len(q) = G[n].d
  BY <1>1, Zenon DEF Settled
<1>0. n = Len(s.C) /\ th = s.C[n].th /\ x = s.L[th] /\ q = x.ci
  OBVIOUS
<1> HIDE DEF n, th, x, q
<1>4. r \in Seq(Frames) /\ Len(r) = Len(q) + 1 /\ r[Len(q) + 1] = f /\ \A i \in 1..Len(q) : r[i] = q[i]
  BY <1>2
<1>5. Turns(s, w, th, "OK", r, Len(x.stack), x.open, x.nC, x.nny)
  <2>1. w = [s EXCEPT !.L[th].ci = r] BY <1>0 DEF prepCallInfo
  <2> HIDE DEF r
  <2> DEFINE v == [s EXCEPT !.L[th].ci = r]
  <2>2. Turns(s, v, th, x.status, r, Len(x.stack), x.open, x.nC, x.nny)
    BY <1>0, <1>2, <1>4, Framed, Zenon
  <2> HIDE DEF w, v
  <2>3. w = v BY <2>1 DEF v
  <2> QED BY <1>3, <2>2, <2>3
<1> HIDE DEF w
<1>6. Stacked(r, Len(x.stack), x.open)
  <2>1. /\ f.func > q[Len(q)].func /\ f.func <= Len(x.stack) /\ (\A o \in x.open : o < f.func)
        /\ (q[Len(q)].ypcall => f.func >= q[Len(q)].funcidx)
    BY <1>1 DEF Room
  <2>2. Stacked(Append(q, f), Len(x.stack), x.open) BY <1>2, <2>1, StackFrame
  <2> QED BY <2>2
<1>7. Body(w, G, h, b)
  <2>1. \A k \in 1..n : s.C[k].th = th /\ Live(s.C, k, n) /\ Levelled(s.C[k]) /\ G[k].d = Len(q) => s.C[k].level <= f.func
    BY <1>0, <1>1, Zenon DEF Room
  <2>2. \A k \in 1..n : s.C[k].th = th /\ Live(s.C, k, n) /\ G[k] \in Ghosts /\ Sound(q, x.open, s.C[k], G[k])
                           => Sound(r, x.open, s.C[k], G[k])
    BY <1>2, <2>1, SoundFrame
  <2>3. Reframes(s, G, w)
    BY <1>0, <1>5, <1>6, <2>2, Zenon DEF Reframes, Turns
  <2> QED BY <1>1, <2>3, BodyFrames
<1>8. /\ w.C = s.C /\ State(w) /\ w.L[th].status = "OK" /\ w.L[th].ci = r /\ w.L[th].open = x.open
      /\ w.L[th].nC = x.nC /\ w.L[th].nny = x.nny
  BY <1>5 DEF Turns, InThread
<1>9. State(u) /\ InC(w, u) /\ u.C = Append(w.C, a)
  BY <1>8 DEF PushC, InC, State, StateFields
<1>10. a \in Acts /\ a.at = "execute" /\ a.th = th
  BY <1>2 DEF Activation, Acts, PlainActs
<1>11. /\ g \in Ghosts /\ g.d = Len(q) + 1 /\ g.b = Len(q) + 1 /\ g.c = G[n].c /\ g.e = G[n].e /\ g.j = G[n].j
  BY <1>2 DEF Ghosts
<1> HIDE DEF g, a, u
<1>12. Calls(w.C, G, a, g)
  <2>0. G[n].d \in Nat /\ G[n].c \in Int /\ G[n].e \in Nat BY <1>2 DEF Ghosts
  <2>1. Link(s.C[n], G[n], a, g)
    <3>1. LinkThreads(s.C[n], a) /\ LinkKinds(s.C[n], a)
      BY <1>0, <1>10 DEF LinkThreads, LinkKinds, MayCall, Callers, CoCallers, PlainCallers, Switches, IsRawRun
    <3>2. LinkCounts(G[n], a, g)
      BY <1>10, <1>11, <2>0 DEF LinkCounts, Switches
    <3>3. LinkFrames(s.C[n], G[n], a, g)
      BY <1>0, <1>3, <1>10, <1>11, <2>0 DEF LinkFrames, Callers, CoCallers, PlainCallers, Switches
    <3> QED BY <3>1, <3>2, <3>3 DEF Link
  <2>2. Own(a, g) /\ g.j = Target(a, n + 1, G[n].j) /\ a.at \notin Switches
    BY <1>10, <1>11 DEF Own, Target, IsRawRun, Switches
  <2> QED BY <1>0, <1>8, <1>10, <1>11, <2>1, <2>2, Zenon DEF Calls
<1>13. Sound(r, x.open, a, g)
  <2>1. r[Len(q) + 1].lua /\ r[Len(q) + 1].fresh BY <1>4
  <2>2. g.e = 0 => \A i \in 2..(g.d - 1) : Passes(r[i])
    <3> SUFFICES ASSUME G[n].e = 0, NEW i \in 2..Len(q) PROVE Passes(q[i])
      BY <1>2, <1>4, <1>11
    <3>1. Sound(q, x.open, s.C[n], G[n]) /\ Own(s.C[n], G[n]) BY <1>0, <1>1, TopFacts, Zenon
    <3>2. CASE i = Len(q)
      <4>1. s.C[n].nny = 1 \/ G[n].d = 1 \/ Passes(q[G[n].d]) BY <1>0, <3>1, Zenon DEF Sound
      <4>2. s.C[n].nny # 1
        <5>1. Quiet(s.C, G, n) BY <1>0, <1>1, <1>2, TopFacts, JumpTarget, Zenon
        <5>2. ~Closing(s.C[n]) BY <1>0, Zenon DEF Closing
        <5>3. s.C[n].nny = 0 BY <1>0, <1>2, <5>1, <5>2, Zenon DEF Quiet
        <5> QED BY <5>3
      <4> QED BY <1>2, <1>3, <3>2, <4>1, <4>2
    <3>3. CASE i # Len(q)
      <4>1. i \in 2..(G[n].d - 1) BY <1>2, <1>3, <3>3
      <4> QED BY <3>1, <4>1 DEF Sound
    <3> QED BY <3>2, <3>3
  <2>3. \A i \in (g.b + 1)..g.d : FALSE BY <1>2, <1>11
  <2>4. g.b \in 2..g.d /\ g.d <= Len(r) /\ g.d = Len(q) + 1 /\ g.b = Len(q) + 1 BY <1>2, <1>4, <1>11
  <2> QED BY <1>10, <2>1, <2>2, <2>3, <2>4 DEF Sound, Floored, Levelled, Callers, CoCallers, PlainCallers
<1>14. Body(u, Append(G, g), h, b)
  <2>1. Sound(w.L[a.th].ci, w.L[a.th].open, a, g) /\ a.th = w.C[Len(w.C)].th BY <1>0, <1>8, <1>10, <1>13, Zenon
  <2> QED BY <1>7, <1>9, <1>12, <2>1, BodyPush, Zenon
<1>15. Len(u.C) = n + 1 /\ u.C[n + 1] = a /\ Append(G, g)[n + 1] = g
  <2>1. s.C \in Seq(Acts) /\ G \in Seq(Ghosts) /\ Len(s.C) = Len(G) BY <1>0, <1>2, Zenon
  <2>2. Len(Append(s.C, a)) = n + 1 /\ Append(s.C, a)[n + 1] = a /\ Append(G, g)[n + 1] = g
    BY <1>0, <1>10, <1>11, <2>1, AppendAct
  <2> QED BY <1>8, <1>9, <2>2
<1>16. Settled(u.L[th], a, g)
  BY <1>3, <1>4, <1>8, <1>9, <1>10, <1>11 DEF Settled, InC, IsRawRun
<1>17. Running(u, Append(G, g))
  BY <1>10, <1>15, <1>16 DEF Running
<1>18. Returned(u)
  BY <1>10, <1>15 DEF Returned, CoCallers
<1> QED BY <1>0, <1>14, <1>17, <1>18 DEF Holds, u, w, a, th, n

\* An error can be thrown, whatever is put on the stack first.
CanThrow(s) ==
    LET a == s.C[Len(s.C)]
    IN  a.at \notin {"host", "lua_closethread", "luaD_pcall_error", "GCTM"} /\ s.L[a.th].status = "OK"
\* It gets to the innermost protected activation.
LEMMA ThrowAfter ==
  ASSUME NEW s, NEW G, NEW h, NEW b, Body(s, G, h, b), CanThrow(s), NEW th, th = s.C[Len(s.C)].th,
         NEW u, Restacks(s, u, th), u.L[th].status = "OK", NEW status \in Failures
  PROVE  Holds(luaD_throw(u, th, status), h, b)
<1>1. Body(u, G, h, b)
  BY BodyStack
<1>2. u.C = s.C
  BY Zenon DEF Restacks, InThread
<1>3. Throws(u, status) /\ status # "YIELD"
  BY <1>2 DEF Throws, CanThrow, Failures
<1> QED BY <1>1, <1>2, <1>3, Throw

\* What is pushed on the running thread.
LEMMA PushRestacks ==
  ASSUME NEW s, NEW G, NEW h, NEW b, Body(s, G, h, b), NEW th, th = s.C[Len(s.C)].th, NEW v
  PROVE  /\ Len(s.L[th].stack) # 0 => Restacks(s, push(s, th, v), th)
         /\ push(s, th, v).L[th].status = s.L[th].status /\ push(s, th, v).C = s.C
         /\ Turns(s, push(s, th, v), th, s.L[th].status, s.L[th].ci, Len(s.L[th].stack) + 1, s.L[th].open, s.L[th].nC, s.L[th].nny)
<1> DEFINE x == s.L[th]   u == push(s, th, v)
<1>1. State(s) /\ th \in Threads /\ Stacked(x.ci, Len(x.stack), x.open)
  BY TopFacts, Zenon
<1>2. Turns(s, u, th, x.status, x.ci, Len(x.stack) + 1, x.open, x.nC, x.nny)
  BY <1>1, Pushed, Zenon
<1>3. x.ci \in Seq(Frames) /\ Len(x.ci) >= 1 /\ Len(x.stack) \in Nat /\ x.open \subseteq 2..Len(x.stack)
  BY <1>1, Zenon DEF Stacked
<1>4. /\ Len(x.stack) # 0 => x.ci[Len(x.ci)].func <= Len(x.stack) + 1
      /\ Len(x.stack) + 1 # 0 /\ Len(x.stack) + 1 \in Nat /\ x.open \subseteq 2..(Len(x.stack) + 1)
  <2> DEFINE f == x.ci[Len(x.ci)].func   n == Len(x.stack)   O == x.open
  <2>1. f \in Nat
    <3>1. x.ci[Len(x.ci)] \in Frames BY TopFacts, Zenon
    <3> QED BY <3>1, Zenon DEF Frames
  <2>2. n # 0 => f <= n BY <1>1, Zenon DEF Stacked
  <2>3. n \in Nat /\ O \subseteq 2..n BY <1>3, Zenon
  <2> HIDE DEF f, n, O
  <2>4. /\ n # 0 => f <= n + 1
        /\ n + 1 # 0 /\ n + 1 \in Nat /\ O \subseteq 2..(n + 1)
    BY <2>1, <2>2, <2>3
  <2> QED BY <2>4, Zenon DEF f, n, O
<1> HIDE DEF u
<1>5. Len(x.stack) # 0 => Restacks(s, u, th)
  BY <1>1, <1>2, <1>3, <1>4, Zenon DEF Restacks, Turns
<1>6. u.L[th].status = x.status /\ u.C = s.C
  BY <1>2, Zenon DEF Turns, InThread
<1> QED BY <1>2, <1>5, <1>6, Zenon DEF u

\* The handler has returned, or there is none.
LEMMA HandlerDone ==
  ASSUME NEW s, NEW G, NEW h, NEW b, Body(s, G, h, b), CanThrow(s), NEW th, th = s.C[Len(s.C)].th, Len(s.L[th].stack) # 0
  PROVE  Holds(AfterHandler(s, th), h, b)
<1> DEFINE x == s.L[th]   n == Len(x.stack)   w == settop(s, th, n - 1)   v == Message("no_error_object")   u == push(w, th, v)
<1>1. /\ State(s) /\ th \in Threads /\ Stacked(x.ci, n, x.open) /\ x.ci \in Seq(Frames) /\ Len(x.ci) >= 1
      /\ n \in Nat /\ x.open \subseteq 2..n /\ x.status = "OK"
  BY TopFacts, Zenon DEF CanThrow
<1>2. x.ci[Len(x.ci)].func <= n
  BY <1>1, Zenon DEF Stacked
<1>20. n - 1 \in Nat /\ (n - 1) + 1 = n
  <2>1. n \in Nat /\ n # 0 BY <1>1, Zenon
  <2> HIDE DEF n
  <2> QED BY <2>1
<1>3. Restacks(s, s, th)
  BY <1>1, <1>2, Zenon DEF Restacks, InThread
<1>4. Turns(s, w, th, x.status, x.ci, n - 1, x.open, x.nC, x.nny)
  BY <1>1, <1>20, Topped, Zenon
<1>5. State(w) /\ Len(w.L[th].stack) = n - 1
  BY <1>4, Zenon DEF Turns, InThread
<1> HIDE DEF w, v
<1>6. Turns(w, u, th, w.L[th].status, w.L[th].ci, Len(w.L[th].stack) + 1, w.L[th].open, w.L[th].nC, w.L[th].nny)
  BY <1>1, <1>5, Pushed, Zenon
<1>7. Len(w.L[th].stack) + 1 = n
  BY <1>20, <1>5
<1> HIDE DEF u
<1>8. Restacks(s, u, th) /\ u.L[th].status = "OK"
  BY <1>1, <1>2, <1>4, <1>6, <1>7, Zenon DEF Restacks, Turns, InThread
<1>9. "ERRRUN" \in Failures
  BY DEF Failures
<1>10. Holds(luaD_throw(s, th, "ERRRUN"), h, b) /\ Holds(luaD_throw(u, th, "ERRRUN"), h, b)
  BY <1>1, <1>3, <1>8, <1>9, ThrowAfter, Zenon
<1>11. AfterHandler(s, th) = luaD_throw(s, th, "ERRRUN") \/ AfterHandler(s, th) = luaD_throw(u, th, "ERRRUN")
  BY Zenon DEF AfterHandler, u, w, v, top
<1> QED BY <1>10, <1>11

\* A ccall is on the top.
Entering(s, h, b, p, th) ==
    LET a == s.C[Len(s.C)] IN (\E G : Poised(s, G, h, b, p)) /\ a.at = "ccall" /\ a.th = th
\* What holds when a thread has room.
LEMMA PoisedFacts ==
  ASSUME NEW s, NEW G, NEW h, NEW b, NEW p, Poised(s, G, h, b, p), NEW th, th = s.C[Len(s.C)].th
  PROVE  /\ Body(s, G, h, b) /\ State(s) /\ th \in Threads /\ s.L[th].status = "OK" /\ IsThread(s.L[th])
         /\ Len(s.L[th].stack) \in Nat /\ Len(s.L[th].stack) # 0 /\ p \in Nat /\ p # 0 /\ p <= Len(s.L[th].stack)
<1>1. /\ Body(s, G, h, b) /\ State(s) /\ th \in Threads /\ s.L[th].status = "OK" /\ IsThread(s.L[th])
      /\ Len(s.L[th].stack) \in Nat /\ p \in Nat /\ p <= Len(s.L[th].stack)
      /\ p > s.L[th].ci[Len(s.L[th].ci)].func
  BY TopFacts, Zenon DEF Poised, Settled, Room
<1>2. s.L[th].ci[Len(s.L[th].ci)].func \in Nat
  BY <1>1, TopFacts, Zenon DEF Frames
<1> DEFINE f == s.L[th].ci[Len(s.L[th].ci)].func   n == Len(s.L[th].stack)
<1>3. f \in Nat /\ n \in Nat /\ p \in Nat /\ p > f /\ p <= n
  BY <1>1, <1>2, Zenon
<1> HIDE DEF f, n
<1>4. p # 0 /\ n # 0
  BY <1>3
<1> QED BY <1>1, <1>4, Zenon DEF n

\* The function begins, or there are too many C calls.
LEMMA Enters ==
  ASSUME NEW s, NEW h, NEW b, NEW p, NEW th, Entering(s, h, b, p, th), NEW wanted \in {0, 1}
  PROVE  Holds(Enter(s, th, p, wanted), h, b)
<1>1. PICK G : Poised(s, G, h, b, p)
  BY DEF Entering
<1>2. s.C[Len(s.C)].at = "ccall" /\ s.C[Len(s.C)].th = th
  BY DEF Entering
<1>3. /\ Body(s, G, h, b) /\ s.L[th].status = "OK" /\ Len(s.L[th].stack) # 0 /\ p \in Nat
  BY <1>1, <1>2, PoisedFacts
<1>4. Holds(luaD_errerr(s, th), h, b)
  <2> DEFINE v == Message("error_in_handler")   u == push(s, th, v)
  <2> HIDE DEF v
  <2>1. Restacks(s, u, th) /\ u.L[th].status = "OK" BY <1>2, <1>3, PushRestacks
  <2>2. CanThrow(s) /\ "ERRERR" \in Failures BY <1>2, <1>3 DEF CanThrow, Failures
  <2>3. luaD_errerr(s, th) = luaD_throw(u, th, "ERRERR") BY DEF luaD_errerr, v
  <2> HIDE DEF u
  <2> QED BY <1>2, <1>3, <2>1, <2>2, <2>3, ThrowAfter
<1> DEFINE f == [Frame(p, wanted) EXCEPT !.fresh = TRUE]
<1>5. /\ f \in Frames /\ f.func = p /\ f.lua /\ f.fresh /\ f.op = "none" /\ ~f.ypcall /\ f.recst = "OK"
  BY <1>3 DEF Frame, Frames, Ends
<1>6. Holds(PushC(prepCallInfo(s, th, f), Activation("execute", th)), h, b)
  <2> HIDE DEF f
  <2> QED BY <1>1, <1>2, <1>5, EnterLua
<1> QED BY <1>4, <1>6 DEF Enter

\* A C function or luaV_execute counts a call.
CanCall(s, G, inc, nny) ==
    LET n == Len(s.C)   a == s.C[n]   q == s.L[a.th].ci
    IN  /\ MayCall(a.at, "ccall") /\ inc = (IF a.at = "lua_resume" THEN 0 ELSE 1) /\ nny \in {0, 1}
        /\ a.at \in {"luaD_pcall", "luaG_errormsg"} => nny = 1
        /\ a.at = "luaF_close" /\ ~a.yy => nny = 1
        /\ nny = 1 \/ G[n].d = 1 \/ Passes(q[G[n].d])
\* The call is on the C stack.
LEMMA CountedCall ==
  ASSUME NEW s, NEW G, NEW h, NEW b, NEW p, Poised(s, G, h, b, p), NEW th, th = s.C[Len(s.C)].th,
         NEW inc, NEW nny, CanCall(s, G, inc, nny)
  PROVE  LET u == Counted(s, th, inc, nny)
         IN  Entering(u, h, b, p, th) /\ Len(u.L[th].stack) = Len(s.L[th].stack)
<1> DEFINE n == Len(s.C)   z == s.C[n]   x == s.L[th]   k == G[n]   a == [at |-> "ccall", th |-> th, inc |-> inc, nny |-> nny]
           g == [d |-> k.d, b |-> 0, c |-> k.c + inc, e |-> k.e + nny, j |-> k.j]
           cc == x.nC + inc   e == x.nny + nny   w == [s EXCEPT !.L[th].nC = cc, !.L[th].nny = e]
           u == Counted(s, th, inc, nny)
<1>1. /\ Body(s, G, h, b) /\ Settled(x, z, k) /\ Room(s.C, G, x.ci, x.open, p) /\ p <= Len(x.stack)
  BY Zenon DEF Poised
<1>2. /\ th \in Threads /\ n \in Nat /\ n >= 1 /\ n \in 1..n /\ Len(G) = n /\ Len(x.stack) \in Nat
      /\ s.C \in Seq(Acts) /\ G \in Seq(Ghosts) /\ z \in Acts /\ k \in Ghosts /\ State(s)
      /\ Sound(x.ci, x.open, z, k) /\ Own(z, k)
  BY <1>1, TopFacts, Zenon
<1>3. /\ MayCall(z.at, "ccall") /\ inc = (IF z.at = "lua_resume" THEN 0 ELSE 1) /\ nny \in {0, 1} /\ inc \in {0, 1}
      /\ z.at \in {"luaD_pcall", "luaG_errormsg"} => nny = 1
      /\ z.at = "luaF_close" /\ ~z.yy => nny = 1
      /\ nny = 1 \/ k.d = 1 \/ Passes(x.ci[k.d])
  BY Zenon DEF CanCall
<1>0. n = Len(s.C) /\ th = z.th /\ x = s.L[th] /\ k = G[n] /\ z = s.C[n]
  OBVIOUS
<1>4. /\ k.d \in Nat \ {0} /\ k.c \in Int /\ k.e \in Nat /\ k.j \in Nat
      /\ x.status = "OK" /\ x.nC = k.c /\ x.nny = k.e /\ (IsRawRun(z) => z.status = "OK")
  BY <1>1, <1>2, Zenon DEF Ghosts, Settled
<1> HIDE DEF n, z, x, k
<1>5. /\ inc \in Int /\ nny \in Int /\ k.c + inc \in Int /\ k.e + nny \in Nat
      /\ (nny = 0 => k.e + nny = k.e) /\ (k.e + nny = 0 => k.e = 0)
  BY <1>3, <1>4
<1>6. cc \in Int /\ e \in Int /\ cc = k.c + inc /\ e = k.e + nny
  BY <1>4, <1>5
<1> HIDE DEF cc, e
<1>7. Turns(s, w, th, x.status, x.ci, Len(x.stack), x.open, cc, e)
  BY <1>0, <1>2, <1>6, CountsSet, Zenon
<1>8. u = [w EXCEPT !.C = Append(s.C, a)]
  <2>1. u = [w EXCEPT !.C = Append(w.C, a)] BY <1>0 DEF Counted, PushC, cc, e
  <2>2. w.C = s.C BY <1>7, Zenon DEF Turns, InThread
  <2> HIDE DEF u, w, a
  <2> QED BY <2>1, <2>2
<1> HIDE DEF u, w
<1>9. /\ DOMAIN w = StateFields /\ State(w) /\ w.gcstp = s.gcstp /\ \A t \in Threads : t # th => w.L[t] = s.L[t]
      /\ w.L[th].status = "OK" /\ w.L[th].ci = x.ci /\ Len(w.L[th].stack) = Len(x.stack) /\ w.L[th].open = x.open
      /\ w.L[th].nC = k.c + inc /\ w.L[th].nny = k.e + nny
  BY <1>4, <1>6, <1>7, Zenon DEF Turns, InThread, State
<1>10. u.L = w.L /\ u.gcstp = w.gcstp /\ State(u) /\ u.C = Append(s.C, a)
  <2> HIDE DEF a
  <2> QED BY <1>8, <1>9, Zenon DEF State, StateFields
<1>11. a \in Acts /\ a.at = "ccall" /\ a.th = th /\ a.inc = inc /\ a.nny = nny
  BY <1>2, <1>3 DEF Acts, CallActs
<1>12. g \in Ghosts /\ g.d = k.d /\ g.b = 0 /\ g.c = k.c + inc /\ g.e = k.e + nny /\ g.j = k.j
  BY <1>4, <1>5 DEF Ghosts
<1> HIDE DEF a, g
<1>13. Link(z, k, a, g)
  <2>1. LinkThreads(z, a)
    BY <1>0, <1>11 DEF LinkThreads, Switches
  <2>2. LinkKinds(z, a)
    BY <1>3, <1>4, <1>11 DEF LinkKinds, MayCall, Callers, CoCallers, PlainCallers
  <2>3. LinkCounts(k, a, g)
    BY <1>11, <1>12 DEF LinkCounts, Switches
  <2>4. LinkFrames(z, k, a, g)
    BY <1>3, <1>11, <1>12 DEF LinkFrames, MayCall, Callers, CoCallers, PlainCallers, Switches
  <2> QED BY <2>1, <2>2, <2>3, <2>4 DEF Link
<1>14. Calls(s.C, G, a, g)
  <2>1. Own(a, g) /\ g.j = Target(a, n + 1, k.j) /\ a.at \notin Switches
    BY <1>11, <1>12 DEF Own, Target, IsRawRun, Switches
  <2> QED BY <1>0, <1>11, <1>12, <1>13, <2>1 DEF Calls
<1>15. Sound(x.ci, x.open, a, g)
  <2>1. g.e = 0 => \A i \in 2..(g.d - 1) : Passes(x.ci[i])
    BY <1>2, <1>5, <1>12 DEF Sound
  <2>2. g.d <= Len(x.ci)
    BY <1>2, <1>12 DEF Sound
  <2> QED BY <1>3, <1>11, <1>12, <2>1, <2>2 DEF Sound, Floored, Levelled, Callers, CoCallers, PlainCallers
<1>16. Deeper(s, u, a, g, Len(x.stack), p)
  BY <1>0, <1>9, <1>10, <1>11, <1>12, <1>15, Zenon DEF Deeper
<1> DEFINE m == Len(x.stack)
<1>17. m \in Nat /\ p <= m /\ Deeper(s, u, a, g, m, p)
  BY <1>1, <1>2, <1>16
<1> HIDE DEF m
<1>18. Poised(u, Append(G, g), h, b, p) /\ u.C[Len(u.C)] = a
  BY <1>14, <1>17, Deepen
<1>19. Entering(u, h, b, p, th)
  BY <1>11, <1>18 DEF Entering
<1>20. Len(u.L[th].stack) = Len(s.L[th].stack)
  BY <1>0, <1>9, <1>10, Zenon
<1> QED BY <1>19, <1>20 DEF u

\* The error object is on the top of the stack, above everything.
LEMMA Handler ==
  ASSUME NEW s, NEW G, NEW h, NEW b, NEW th, th = s.C[Len(s.C)].th, Poised(s, G, h, b, Len(s.L[th].stack)),
         MayCall(s.C[Len(s.C)].at, "luaG_errormsg"), s.C[Len(s.C)].at # "unroll"
  PROVE  LET u == CallHandler(s, th)   n == Len(s.L[th].stack)
         IN  Entering(u, h, b, n, th) /\ top(u, th) - 1 = n
<1> DEFINE n == Len(s.C)   z == s.C[n]   x == s.L[th]   k == G[n]   m == Len(x.stack)
           r == Append(Append(Front(x.stack), Function), Last(x.stack))
           a == Activation("luaG_errormsg", th)   g == [k EXCEPT !.b = 0]
           w == [s EXCEPT !.L[th].stack = r]   v == PushC(w, a)
<1>1. /\ Body(s, G, h, b) /\ Settled(x, z, k) /\ Room(s.C, G, x.ci, x.open, m)
  BY Zenon DEF Poised
<1>2. /\ th \in Threads /\ n \in Nat /\ n >= 1 /\ n \in 1..n /\ Len(G) = n
      /\ s.C \in Seq(Acts) /\ G \in Seq(Ghosts) /\ z \in Acts /\ k \in Ghosts /\ State(s)
      /\ Sound(x.ci, x.open, z, k) /\ Own(z, k) /\ m \in Nat /\ m # 0
  BY <1>1, TopFacts, PoisedFacts, Zenon
<1>0. n = Len(s.C) /\ th = z.th /\ x = s.L[th] /\ k = G[n] /\ z = s.C[n] /\ m = Len(x.stack)
  OBVIOUS
<1>3. /\ k.d \in Nat \ {0} /\ k.c \in Int /\ k.e \in Nat /\ k.j \in Nat
      /\ x.status = "OK" /\ x.nC = k.c /\ x.nny = k.e /\ (IsRawRun(z) => z.status = "OK")
  BY <1>1, <1>2, Zenon DEF Ghosts, Settled
<1>4. MayCall(z.at, "luaG_errormsg") /\ z.at # "unroll"
  OBVIOUS
<1>5. (\E W : r \in Seq(W)) /\ Len(r) = m + 1
  <2> HIDE DEF x, m
  <2>1. PICK V : x.stack \in Seq(V) BY <1>0, <1>2, Zenon DEF State, IsThread
  <2>2. Front(x.stack) \in Seq(V) /\ Len(Front(x.stack)) = m - 1
    <3> DEFINE j == m - 1   y == x.stack
    <3>1. m \in Nat /\ m # 0 /\ Len(y) = m BY <1>0, <1>2, Zenon
    <3>2. j \in Nat /\ j <= m BY <3>1
    <3> HIDE DEF j, y
    <3>3. y \in Seq(V) BY <2>1 DEF y
    <3>4. \A i \in 1..j : y[i] \in V BY <3>1, <3>2, <3>3
    <3>5. SubSeq(y, 1, j) \in Seq(V) /\ Len(SubSeq(y, 1, j)) = IF 1 <= j THEN j - 1 + 1 ELSE 0
      BY <3>2, <3>4, SubSeqProperties
    <3>6. Len(SubSeq(y, 1, j)) = j BY <3>2, <3>5
    <3> QED BY <3>1, <3>5, <3>6 DEF Front, j, y
  <2>3. Front(x.stack) \in Seq(V \union {Function, Last(x.stack)}) BY <2>2
  <2>4. /\ Append(Front(x.stack), Function) \in Seq(V \union {Function, Last(x.stack)})
        /\ Len(Append(Front(x.stack), Function)) = m
    BY <1>2, <2>2, <2>3
  <2>5. r \in Seq(V \union {Function, Last(x.stack)}) /\ Len(r) = m + 1
    BY <1>2, <2>4
  <2> QED BY <2>5
<1> HIDE DEF n, z, x, k, m, r
<1>6. /\ DOMAIN w = StateFields /\ State(w) /\ w.gcstp = s.gcstp /\ w.C = s.C
      /\ \A t \in Threads : t # th => w.L[t] = s.L[t]
      /\ w.L[th].status = "OK" /\ w.L[th].ci = x.ci /\ w.L[th].stack = r /\ w.L[th].open = x.open
      /\ w.L[th].nC = k.c /\ w.L[th].nny = k.e
  BY <1>0, <1>2, <1>3, <1>5, ZenonT(60) DEF State, IsThread, StateFields, ThreadFields
<1>7. v.C = Append(s.C, a) /\ State(v) /\ v.L = w.L /\ v.gcstp = s.gcstp
  <2> HIDE DEF w, a
  <2> QED BY <1>6, Zenon DEF PushC, State, StateFields
<1>8. a \in Acts /\ a.at = "luaG_errormsg" /\ a.th = th
  BY <1>2, Zenon DEF Activation, Acts, PlainActs
<1>9. g \in Ghosts /\ g.d = k.d /\ g.b = 0 /\ g.c = k.c /\ g.e = k.e /\ g.j = k.j
  BY <1>2 DEF Ghosts
<1> HIDE DEF w, v, a, g
<1>10. Link(z, k, a, g)
  <2>1. LinkThreads(z, a)
    BY <1>0, <1>8, Zenon DEF LinkThreads, Switches
  <2>2. LinkKinds(z, a)
    BY <1>3, <1>4, <1>8, Zenon DEF LinkKinds, MayCall, Callers, CoCallers, PlainCallers
  <2>3. LinkCounts(k, a, g)
    BY <1>3, <1>8, <1>9 DEF LinkCounts, Switches
  <2>4. LinkFrames(z, k, a, g)
    BY <1>4, <1>8, <1>9 DEF LinkFrames, Callers, CoCallers, PlainCallers, Switches
  <2> QED BY <2>1, <2>2, <2>3, <2>4 DEF Link
<1>11. Calls(s.C, G, a, g)
  <2>1. Own(a, g) /\ g.j = Target(a, n + 1, k.j) /\ a.at \notin Switches
    BY <1>8, <1>9 DEF Own, Target, IsRawRun, Switches
  <2> QED BY <1>0, <1>8, <1>9, <1>10, <2>1, Zenon DEF Calls
<1>12. Sound(x.ci, x.open, a, g)
  <2>1. g.d <= Len(x.ci) /\ (g.e = 0 => \A i \in 2..(g.d - 1) : Passes(x.ci[i]))
    BY <1>2, <1>9, Zenon DEF Sound
  <2> QED BY <1>8, <2>1 DEF Sound, Floored, Levelled, Callers, CoCallers, PlainCallers
<1> DEFINE m2 == m + 1
<1>13. m2 \in Nat /\ m <= m2 /\ Len(r) = m2
  BY <1>2, <1>5
<1> HIDE DEF m2
<1>20. Deeper(s, v, a, g, m2, m)
  <2>1. th = s.C[Len(s.C)].th /\ x = s.L[th] BY <1>0, Zenon
  <2>2. /\ v.L[th].status = "OK" /\ v.L[th].ci = x.ci /\ Len(v.L[th].stack) = m2 /\ v.L[th].open = x.open
        /\ v.L[th].nC = g.c /\ v.L[th].nny = g.e /\ \A t \in Threads : t # th => v.L[t] = s.L[t]
    BY <1>6, <1>7, <1>9, <1>13, Zenon
  <2> QED BY <1>7, <1>8, <1>12, <2>1, <2>2, Zenon DEF Deeper
<1>14. Poised(v, Append(G, g), h, b, m) /\ v.C[Len(v.C)] = a
  <2>1. Poised(s, G, h, b, m) BY <1>0, Zenon
  <2> QED BY <1>11, <1>13, <1>20, <2>1, Deepen
<1>15. CanCall(v, Append(G, g), 1, 1)
  BY <1>8, <1>14 DEF CanCall, MayCall
<1> DEFINE u == Counted(v, th, 1, 1)
<1>16. Entering(u, h, b, m, th) /\ Len(u.L[th].stack) = Len(v.L[th].stack)
  <2> DEFINE G2 == Append(G, g)
  <2>1. th = v.C[Len(v.C)].th /\ Poised(v, G2, h, b, m) /\ CanCall(v, G2, 1, 1) BY <1>8, <1>14, <1>15
  <2> HIDE DEF G2
  <2> QED BY <2>1, CountedCall
<1>17. u = CallHandler(s, th)
  BY <1>0, Zenon DEF CallHandler, v, w, r, a
<1>18. top(u, th) - 1 = m
  <2> DEFINE j == Len(u.L[th].stack)
  <2>1. j = m + 1 BY <1>5, <1>6, <1>7, <1>16, Zenon
  <2>2. top(u, th) = j BY DEF top
  <2> HIDE DEF u, j
  <2>3. j - 1 = m BY <1>2, <2>1
  <2> QED BY <2>2, <2>3, Zenon
<1> QED BY <1>0, <1>16, <1>17, <1>18

\* Pushing leaves room, and makes some.
LEMMA PushPoised ==
  ASSUME NEW s, NEW G, NEW h, NEW b, NEW p, Poised(s, G, h, b, p), NEW th, th = s.C[Len(s.C)].th, NEW v
  PROVE  LET u == push(s, th, v)
         IN  /\ Poised(u, G, h, b, p) /\ Poised(u, G, h, b, Len(u.L[th].stack))
             /\ u.C = s.C /\ Len(u.L[th].stack) = Len(s.L[th].stack) + 1
             /\ Turns(s, u, th, s.L[th].status, s.L[th].ci, Len(u.L[th].stack), s.L[th].open, s.L[th].nC, s.L[th].nny)
<1> DEFINE u == push(s, th, v)   x == s.L[th]   m == Len(x.stack)   r == m + 1   O == x.open   q == x.ci
<1>1. Body(s, G, h, b) /\ m \in Nat /\ p \in Nat /\ p <= m
  BY PoisedFacts
<1>2. O \subseteq 2..m /\ s.C \in Seq(Acts) /\ q \in Seq(Frames) /\ Len(q) >= 1
  BY <1>1, TopFacts, Zenon
<1>3. r \in Nat /\ p <= r /\ O \subseteq 2..r /\ O \in SUBSET Nat
  <2> HIDE DEF x, m, O
  <2> QED BY <1>1, <1>2
<1>4. Turns(s, u, th, x.status, q, r, O, x.nC, x.nny)
  BY <1>1, PushRestacks
<1>5. /\ Len(u.L[th].stack) = r /\ u.C = s.C /\ u.L[th].ci = q /\ u.L[th].open = O /\ State(u)
  BY <1>4, Zenon DEF Turns, InThread
<1>6. Poised(u, G, h, b, p)
  <2>1. TurnsStack(s, u, th, p, r, O)
    <3> HIDE DEF r, u
    <3> QED BY <1>3, <1>4, Zenon DEF TurnsStack
  <2> HIDE DEF u, r, O, m, x, q
  <2> QED BY <2>1, PoisedStack
<1> HIDE DEF u, r, O, m, q
<1>7. Room(u.C, G, q, O, p)
  BY <1>5, <1>6, Zenon DEF Poised
<1>8. Room(u.C, G, q, O, r)
  BY <1>2, <1>3, <1>5, <1>7, RoomUp
<1>9. Poised(u, G, h, b, r)
  <2>1. r <= Len(u.L[th].stack) BY <1>3, <1>5
  <2> QED BY <1>5, <1>6, <1>8, <2>1, Zenon DEF Poised
<1> QED BY <1>4, <1>5, <1>6, <1>9, Zenon DEF u, r, O, m, q

\* The limit has been reached.
LEMMA Overflows ==
  ASSUME NEW s, NEW h, NEW b, NEW p, NEW th, Entering(s, h, b, p, th)
  PROVE  Holds(StackOverflow(s, th), h, b)
<1>1. PICK G : Poised(s, G, h, b, p)
  BY DEF Entering
<1> DEFINE v == Message("C_stack_overflow")   u == push(s, th, v)   n == Len(u.L[th].stack)   w == CallHandler(u, th)
<1>2. s.C[Len(s.C)].at = "ccall" /\ th = s.C[Len(s.C)].th
  BY DEF Entering
<1> HIDE DEF v
<1>3. Poised(u, G, h, b, n) /\ u.C = s.C
  BY <1>1, <1>2, PushPoised
<1>4. th = u.C[Len(u.C)].th /\ u.C[Len(u.C)].at = "ccall"
  BY <1>2, <1>3
<1> HIDE DEF u
<1>5. Body(u, G, h, b) /\ u.L[th].status = "OK" /\ Len(u.L[th].stack) # 0
  BY <1>3, <1>4, PoisedFacts, Zenon
<1>6. Holds(AfterHandler(u, th), h, b)
  <2>1. CanThrow(u) BY <1>4, <1>5 DEF CanThrow
  <2> QED BY <1>4, <1>5, <2>1, HandlerDone
<1>7. Entering(w, h, b, n, th) /\ top(w, th) - 1 = n
  <2>1. MayCall(u.C[Len(u.C)].at, "luaG_errormsg") /\ u.C[Len(u.C)].at # "unroll" BY <1>4 DEF MayCall
  <2> QED BY <1>3, <1>4, <2>1, Handler
<1> HIDE DEF w, n
<1>8. Holds(Enter(w, th, n, 1), h, b)
  BY <1>7, Enters
<1>9. StackOverflow(s, th) = AfterHandler(u, th) \/ StackOverflow(s, th) = Enter(w, th, n, 1)
  BY <1>7 DEF StackOverflow, EnterHandler, u, v, w
<1> QED BY <1>6, <1>8, <1>9

\* ccall: the function is entered, or an error is thrown.
LEMMA CCall ==
  ASSUME NEW s, NEW G, NEW h, NEW b, NEW func, Poised(s, G, h, b, func), NEW th, th = s.C[Len(s.C)].th,
         NEW inc, NEW nny, CanCall(s, G, inc, nny), NEW wanted \in {0, 1}
  PROVE  Holds(ccall(s, th, func, wanted, inc, nny), h, b)
<1> DEFINE u == Counted(s, th, inc, nny)
<1>1. Entering(u, h, b, func, th)
  BY CountedCall
<1> HIDE DEF u
<1>2. Holds(Enter(u, th, func, wanted), h, b) /\ Holds(StackOverflow(u, th), h, b)
  BY <1>1, Enters, Overflows
<1>3. \/ ccall(s, th, func, wanted, inc, nny) = Enter(u, th, func, wanted)
      \/ ccall(s, th, func, wanted, inc, nny) = StackOverflow(u, th)
  BY DEF ccall, u
<1> QED BY <1>2, <1>3

\* luaG_errormsg: the handler is entered, or the error is thrown.
LEMMA ErrorMessage ==
  ASSUME NEW s, NEW G, NEW h, NEW b, NEW th, th = s.C[Len(s.C)].th, Poised(s, G, h, b, Len(s.L[th].stack)),
         s.C[Len(s.C)].at \in {"execute", "ccall", "error", "yield"} \union CoCallers
  PROVE  Holds(luaG_errormsg(s, th), h, b)
<1> DEFINE n == Len(s.L[th].stack)   u == CallHandler(s, th)
<1>1. Body(s, G, h, b) /\ s.L[th].status = "OK" /\ Len(s.L[th].stack) # 0
  BY PoisedFacts, Zenon
<1>2. Holds(AfterHandler(s, th), h, b)
  <2>1. CanThrow(s) BY <1>1, Zenon DEF CanThrow, CoCallers
  <2> QED BY <1>1, <2>1, HandlerDone, Zenon
<1>3. Entering(u, h, b, n, th) /\ top(u, th) - 1 = n
  <2>1. MayCall(s.C[Len(s.C)].at, "luaG_errormsg") /\ s.C[Len(s.C)].at # "unroll" BY DEF MayCall, CoCallers
  <2> QED BY <2>1, Handler
<1> HIDE DEF u, n
<1>4. Holds(Enter(u, th, n, 1), h, b) /\ Holds(StackOverflow(u, th), h, b)
  BY <1>3, Enters, Overflows
<1>5. \/ luaG_errormsg(s, th) = AfterHandler(s, th) \/ luaG_errormsg(s, th) = StackOverflow(u, th)
      \/ luaG_errormsg(s, th) = Enter(u, th, n, 1)
  BY <1>3, Zenon DEF luaG_errormsg, EnterHandler, u
<1> QED BY <1>2, <1>4, <1>5

-----------------------------------------------------------------------------
(* What runs.                                                               *)

\* A state that goes on as it is.
LEMMA GoesOn ==
  ASSUME NEW s, NEW G, NEW h, NEW b, Body(s, G, h, b), NEW a, a = s.C[Len(s.C)], Settled(s.L[a.th], a, G[Len(s.C)]),
         a.at \notin CoCallers
  PROVE  Holds(s, h, b)
<1>1. Running(s, G) /\ Returned(s)
  BY DEF Running, Returned
<1> QED BY <1>1 DEF Holds

\* The history changes.
LEMMA PoisedSame ==
  ASSUME NEW s, NEW G, NEW h, NEW b, NEW p, Poised(s, G, h, b, p), NEW u, Same(s, u)
  PROVE  Poised(u, G, h, b, p)
<1>1. Body(u, G, h, b)
  BY BodySame, Zenon DEF Poised
<1> QED BY <1>1, Zenon DEF Poised, Same, InC

\* A thread's fields but its stack's size stay.
LEMMA SettledAgain ==
  ASSUME NEW x, NEW a, NEW g, Settled(x, a, g), NEW y, y.status = x.status, y.ci = x.ci, y.nC = x.nC, y.nny = x.nny
  PROVE  Settled(y, a, g)
<1> QED BY DEF Settled

\* Where a function runs, there is room above what it has.
Above(s, p) ==
    LET x == s.L[s.C[Len(s.C)].th]   f == x.ci[Len(x.ci)]
    IN  p \in Nat /\ p > f.func /\ (f.ypcall => p >= f.funcidx) /\ (\A o \in x.open : o < p) /\ p <= Len(x.stack)
Calm(s, G) ==
    LET a == s.C[Len(s.C)]
    IN  a.at \in {"execute"} \union Callers /\ Settled(s.L[a.th], a, G[Len(s.C)])
\* Nothing below has as many frames.
LEMMA Topmost ==
  ASSUME NEW s, NEW G, NEW h, NEW b, Body(s, G, h, b), Calm(s, G), NEW p, Above(s, p)
  PROVE  Poised(s, G, h, b, p)
<1> DEFINE n == Len(s.C)   a == s.C[n]   x == s.L[a.th]   m == Len(x.ci)
<1>0. n = Len(s.C) /\ a = s.C[n] /\ x = s.L[a.th] /\ m = Len(x.ci)
  OBVIOUS
<1>1. n \in Nat /\ s.C \in Seq(Acts) /\ n \in 1..n /\ G[n].d = m /\ a.at \in {"execute"} \union Callers /\ Settled(x, a, G[n])
  BY TopFacts, Zenon DEF Settled, Callers, CoCallers, PlainCallers, Calm
<1> HIDE DEF n, a, x, m
<1>2. ASSUME NEW k \in 1..n, s.C[k].th = a.th, Live(s.C, k, n), Levelled(s.C[k]), G[k].d = m
      PROVE  FALSE
  <2>1. k # n BY <1>0, <1>1, <1>2, Zenon DEF Levelled, Callers, CoCallers, PlainCallers
  <2>2. k \in 1..(n - 1) BY <1>1, <2>1
  <2>3. G[k].d < G[n].d /\ G[k].d \in Nat BY <1>0, <1>1, <1>2, <2>2, BelowTop, Zenon
  <2> DEFINE d == G[k].d   e == G[n].d
  <2>4. d < e /\ d \in Nat /\ d = e BY <1>1, <1>2, <2>3
  <2> HIDE DEF d, e
  <2> QED BY <2>4
<1>3. Room(s.C, G, x.ci, x.open, p)
  BY <1>0, <1>2, Zenon DEF Room, Above
<1>4. p <= Len(x.stack)
  BY <1>0, Zenon DEF Above
<1> QED BY <1>0, <1>1, <1>3, <1>4, Zenon DEF Poised

\* luaF_close begins.
MayClose(s, G, level, status, yy) ==
    LET n == Len(s.C)   a == s.C[n]   x == s.L[a.th]   q == x.ci   f == q[Len(q)]
    IN  /\ Settled(x, a, G[n]) /\ MayCall(a.at, "luaF_close") /\ (a.at = "unroll" => Len(q) >= 2)
        /\ level \in Nat /\ level >= f.func /\ (f.ypcall => level >= f.funcidx)
        /\ status \in Ends \union {"CLOSEKTOP"} /\ yy \in BOOLEAN /\ (~yy \/ Passes(f))
        /\ status = "CLOSEKTOP" => ~f.ypcall
        /\ a.at = "closeprotected" => level = a.level /\ ~yy /\ status # "CLOSEKTOP"
\* What is at the level and above has been closed.
LEMMA ClosePushed ==
  ASSUME NEW w, NEW G, NEW h, NEW b, Body(w, G, h, b), NEW th, th = w.C[Len(w.C)].th,
         NEW level, NEW status, NEW yy, MayClose(w, G, level, status, yy), \A o \in w.L[th].open : o < level
  PROVE  Holds(PushC(w, [at |-> "luaF_close", th |-> th, level |-> level, status |-> status, yy |-> yy]), h, b)
<1> DEFINE n == Len(w.C)   z == w.C[n]   k == G[n]   x == w.L[th]   q == x.ci   m == Len(q)   f == q[m]
           a == [at |-> "luaF_close", th |-> th, level |-> level, status |-> status, yy |-> yy]   u == PushC(w, a)
           g == [d |-> m, b |-> 0, c |-> k.c, e |-> k.e, j |-> k.j]   O == x.open
<1>0. n = Len(w.C) /\ z = w.C[n] /\ k = G[n] /\ th = z.th /\ x = w.L[th] /\ q = x.ci /\ m = Len(q) /\ f = q[m] /\ O = x.open
  OBVIOUS
<1>1. /\ th \in Threads /\ n \in Nat /\ n >= 1 /\ n \in 1..n /\ Len(G) = n /\ m \in Nat /\ m >= 1 /\ q \in Seq(Frames)
      /\ w.C \in Seq(Acts) /\ G \in Seq(Ghosts) /\ z \in Acts /\ k \in Ghosts /\ State(w) /\ Sound(q, x.open, z, k) /\ Own(z, k)
      /\ Stacked(q, Len(x.stack), x.open) /\ Len(x.stack) \in Nat /\ x.open \subseteq 2..Len(x.stack)
  BY TopFacts, Zenon
<1>2. /\ Settled(x, z, k) /\ MayCall(z.at, "luaF_close") /\ (z.at = "unroll" => m >= 2)
      /\ level \in Nat /\ level >= f.func /\ (f.ypcall => level >= f.funcidx)
      /\ status \in Ends \union {"CLOSEKTOP"} /\ yy \in BOOLEAN /\ (~yy \/ Passes(f))
      /\ status = "CLOSEKTOP" => ~f.ypcall
      /\ z.at = "closeprotected" => level = z.level /\ ~yy /\ status # "CLOSEKTOP"
      /\ \A o \in O : o < level
  BY Zenon DEF MayClose
<1>3. /\ k.d \in Nat \ {0} /\ k.c \in Int /\ k.e \in Nat /\ k.j \in Nat
      /\ x.status = "OK" /\ x.nC = k.c /\ x.nny = k.e /\ (IsRawRun(z) => z.status = "OK")
      /\ z.at # "unroll" => k.d = m
  BY <1>0, <1>1, <1>2, Zenon DEF Ghosts, Settled
<1> HIDE DEF n, z, k, x, q, m, f, u, O
<1>8. InC(w, u) /\ u.C = Append(w.C, a) /\ u.L = w.L
  <2> HIDE DEF a
  <2>1. u = [w EXCEPT !.C = Append(w.C, a)] BY DEF u, PushC
  <2> QED BY <1>1, <2>1 DEF InC, State, StateFields
<1>9. /\ a \in Acts /\ a.at = "luaF_close" /\ a.th = th /\ a.level = level /\ a.status = status /\ a.yy = yy
  BY <1>1, <1>2 DEF Acts, CloseActs
<1>10. g \in Ghosts /\ g.d = m /\ g.b = 0 /\ g.c = k.c /\ g.e = k.e /\ g.j = k.j
  BY <1>1, <1>3 DEF Ghosts
<1> HIDE DEF a, g
<1>11. Calls(w.C, G, a, g)
  <2>1. LinkThreads(z, a) BY <1>0, <1>9, Zenon DEF LinkThreads, Switches
  <2>2. LinkKinds(z, a)
    <3>1. MayCall(z.at, a.at) /\ a.at # "ccall" /\ z.at # "lua_closethread" BY <1>2, <1>9 DEF MayCall, Callers, CoCallers, PlainCallers
    <3>2. z.at = "closeprotected" => a.level = z.level /\ ~a.yy /\ a.status # "CLOSEKTOP" BY <1>2, <1>9
    <3>3. IsRawRun(z) => z.status = "OK" BY <1>3
    <3> QED BY <3>1, <3>2, <3>3 DEF LinkKinds
  <2>3. LinkCounts(k, a, g) BY <1>3, <1>9, <1>10 DEF LinkCounts, Switches
  <2>4. LinkFrames(z, k, a, g)
    BY <1>2, <1>3, <1>9, <1>10 DEF LinkFrames, Callers, CoCallers, PlainCallers, Switches
  <2>5. Own(a, g) /\ g.j = Target(a, n + 1, k.j) /\ a.at \notin Switches
    BY <1>9, <1>10 DEF Own, Target, IsRawRun, Switches
  <2>6. Link(z, k, a, g) BY <2>1, <2>2, <2>3, <2>4 DEF Link
  <2> QED BY <1>0, <1>9, <1>10, <2>5, <2>6, Zenon DEF Calls
<1>12. Sound(q, O, a, g)
  <2>1. g.e = 0 => \A i \in 2..(g.d - 1) : Passes(q[i])
    <3>1. CASE z.at = "unroll" BY <1>0, <1>2, <1>10, <3>1, Zenon DEF Settled
    <3>2. CASE z.at # "unroll" BY <1>1, <1>3, <1>10, <3>2 DEF Sound
    <3> QED BY <3>1, <3>2
  <2>2. NoneFrom(q, O, g.d, level)
    <3> SUFFICES ASSUME NEW o \in O, o >= level PROVE FALSE BY DEF NoneFrom
    <3>1. o \in x.open BY <1>0, Zenon
    <3>2. o \in Nat /\ o < level BY <1>1, <1>2, <3>1
    <3> QED BY <1>2, <3>2
  <2>3. g.d <= Len(q) /\ q[g.d] = f
    <3>1. g.d = m /\ m = Len(q) /\ m \in Nat /\ f = q[m] BY <1>0, <1>1, <1>10, Zenon
    <3> QED BY <3>1
  <2> QED BY <1>2, <1>9, <2>1, <2>2, <2>3 DEF Sound, Floored, Levelled, OpenFrom, Callers, CoCallers, PlainCallers
<1>13. Body(u, Append(G, g), h, b)
  <2>1. Sound(w.L[a.th].ci, w.L[a.th].open, a, g) /\ a.th = w.C[Len(w.C)].th BY <1>0, <1>9, <1>12, Zenon
  <2> QED BY <1>8, <1>11, <2>1, BodyPush
<1>14. Len(u.C) = n + 1 /\ u.C[n + 1] = a /\ Append(G, g)[n + 1] = g
  <2>1. w.C \in Seq(Acts) /\ G \in Seq(Ghosts) /\ Len(w.C) = Len(G) /\ n = Len(w.C) BY <1>0, <1>1, Zenon
  <2>2. Len(Append(w.C, a)) = n + 1 /\ Append(w.C, a)[n + 1] = a /\ Append(G, g)[n + 1] = g
    BY <1>9, <1>10, <2>1, AppendAct
  <2> QED BY <1>8, <2>2
<1>15. Settled(u.L[a.th], a, g)
  BY <1>0, <1>3, <1>8, <1>9, <1>10, Zenon DEF Settled, IsRawRun
<1> DEFINE G2 == Append(G, g)
<1>16. Body(u, G2, h, b) /\ a = u.C[Len(u.C)] /\ Settled(u.L[a.th], a, G2[Len(u.C)]) /\ a.at \notin CoCallers
  BY <1>9, <1>13, <1>14, <1>15 DEF CoCallers
<1> HIDE DEF G2
<1>17. Holds(u, h, b)
  BY <1>16, GoesOn
<1> QED BY <1>17 DEF u, a

\* Upvalues are closed, and the loop begins.
LEMMA CloseBegins ==
  ASSUME NEW s, NEW G, NEW h, NEW b, Body(s, G, h, b), NEW th, th = s.C[Len(s.C)].th,
         NEW level, NEW status, NEW yy, MayClose(s, G, level, status, yy), Len(s.L[th].stack) # 0
  PROVE  Holds(luaF_close(s, th, level, status, yy), h, b)
<1> DEFINE x == s.L[th]   q == x.ci   w == luaF_closeupval(s, th, level)   O == {o \in x.open : o < level}
<1>1. /\ th \in Threads /\ State(s) /\ Stacked(q, Len(x.stack), x.open) /\ Len(x.stack) \in Nat /\ x.open \subseteq 2..Len(x.stack)
  BY TopFacts, Zenon
<1>2. x.status = "OK"
  BY Zenon DEF MayClose, Settled
<1>3. Turns(s, w, th, x.status, q, Len(x.stack), O, x.nC, x.nny)
  BY <1>1, Closed, Zenon
<1> HIDE DEF w
<1>4. /\ w.L[th].status = x.status /\ w.L[th].ci = q /\ Len(w.L[th].stack) = Len(x.stack) /\ w.L[th].open = O
      /\ w.L[th].nC = x.nC /\ w.L[th].nny = x.nny /\ State(w) /\ w.C = s.C
  BY <1>3, Zenon DEF Turns, InThread
<1>5. Body(w, G, h, b)
  <2>1. x.ci[Len(x.ci)].func <= Len(x.stack) /\ O \subseteq x.open /\ O \subseteq 2..Len(x.stack)
    BY <1>1, Zenon DEF Stacked
  <2>2. Restacks(s, w, th)
    BY <1>1, <1>2, <1>3, <1>4, <2>1, Zenon DEF Restacks, Turns
  <2> QED BY <2>2, BodyStack
<1>6. MayClose(w, G, level, status, yy)
  BY <1>4, Zenon DEF MayClose, Settled
<1>7. \A o \in w.L[th].open : o < level
  BY <1>4, Zenon
<1>8. th = w.C[Len(w.C)].th
  BY <1>4, Zenon
<1> QED BY <1>5, <1>6, <1>7, <1>8, ClosePushed, Zenon DEF w, luaF_close

\* Lua code calls a C function.
CallsC(s, u, a, f, m) ==
    LET th == s.C[Len(s.C)].th   x == s.L[th]   y == u.L[th]
    IN  /\ State(u) /\ u.C = Append(s.C, a) /\ u.gcstp = s.gcstp /\ \A t \in Threads : t # th => u.L[t] = s.L[t]
        /\ y.status = x.status /\ y.ci = Append(x.ci, f) /\ Len(y.stack) = m /\ y.open = x.open /\ y.nC = x.nC /\ y.nny = x.nny
        /\ a \in Acts /\ a.at \in Callers /\ a.th = th
        /\ f \in Frames /\ f.func = Len(x.stack) + 1 /\ m \in Nat /\ f.func <= m
        /\ ~f.lua /\ ~f.ypcall /\ f.recst = "OK" /\ f.op = "none" /\ (f.tbc => a.at = "C_function")
\* The C function runs.
LEMMA CalledC ==
  ASSUME NEW s, NEW G, NEW h, NEW b, Body(s, G, h, b), s.C[Len(s.C)].at = "execute",
         Settled(s.L[s.C[Len(s.C)].th], s.C[Len(s.C)], G[Len(s.C)]),
         NEW u, NEW a, NEW f, NEW m, CallsC(s, u, a, f, m)
  PROVE  \E G2 : Body(u, G2, h, b) /\ Calm(u, G2) /\ u.C[Len(u.C)] = a
<1> DEFINE n == Len(s.C)   z == s.C[n]   k == G[n]   th == z.th   x == s.L[th]   q == x.ci   i == Len(q)   j == Len(x.stack)
           r == Append(q, f)   w == [u EXCEPT !.C = s.C]   O == x.open
           g == [d |-> i + 1, b |-> 0, c |-> k.c, e |-> k.e, j |-> k.j]
<1>0. n = Len(s.C) /\ z = s.C[n] /\ k = G[n] /\ th = z.th /\ x = s.L[th] /\ q = x.ci /\ i = Len(q) /\ j = Len(x.stack) /\ O = x.open
  OBVIOUS
<1>1. /\ th \in Threads /\ n \in Nat /\ n >= 1 /\ n \in 1..n /\ Len(G) = n /\ i \in Nat /\ i >= 1 /\ q \in Seq(Frames)
      /\ s.C \in Seq(Acts) /\ G \in Seq(Ghosts) /\ z \in Acts /\ k \in Ghosts /\ State(s) /\ Sound(q, O, z, k)
      /\ Stacked(q, j, O) /\ j \in Nat /\ O \subseteq 2..j /\ q[i] \in Frames
  BY TopFacts, Zenon
<1>2. /\ z.at = "execute" /\ Settled(x, z, k)
  OBVIOUS
<1>3. /\ k.d \in Nat \ {0} /\ k.c \in Int /\ k.e \in Nat /\ k.j \in Nat /\ k.d = i
      /\ x.status = "OK" /\ x.nC = k.c /\ x.nny = k.e
  BY <1>1, <1>2, Zenon DEF Ghosts, Settled
<1>4. /\ State(u) /\ u.C = Append(s.C, a) /\ u.gcstp = s.gcstp /\ \A t \in Threads : t # th => u.L[t] = s.L[t]
      /\ u.L[th].status = x.status /\ u.L[th].ci = r /\ Len(u.L[th].stack) = m /\ u.L[th].open = O
      /\ u.L[th].nC = x.nC /\ u.L[th].nny = x.nny
      /\ a \in Acts /\ a.at \in Callers /\ a.th = th
  BY Zenon DEF CallsC
<1>5. /\ f \in Frames /\ f.func = j + 1 /\ m \in Nat /\ f.func <= m
      /\ ~f.lua /\ ~f.ypcall /\ f.recst = "OK" /\ f.op = "none" /\ (f.tbc => a.at = "C_function")
  BY Zenon DEF CallsC
<1> HIDE DEF n, z, k, th, x, q, i, j, O
<1>6. q[i].lua /\ ~q[i].ypcall /\ q[i].func \in Nat /\ q[i].func <= j
  <2>1. q[i].lua BY <1>2, <1>3, <1>1 DEF Sound
  <2>2. FrameInv(q, O, i)
    <3>2. i = Len(q) /\ i \in Nat /\ i >= 1 BY <1>0, <1>1, Zenon
    <3>1. i \in 1..Len(q) BY <3>2
    <3> QED BY <1>1, <3>1 DEF Stacked
  <2>3. ~q[i].ypcall BY <2>1, <2>2 DEF FrameInv, CFrameOf
  <2>4. q[i].func \in Nat BY <1>1 DEF Frames
  <2>5. q[i].func <= j
    <3>1. IF j = 0 THEN i = 1 ELSE q[i].func <= j BY <1>0, <1>1, Zenon DEF Stacked
    <3>2. j # 0
      <4>1. i # 1 BY <1>0, <1>1, <2>1, Zenon DEF Stacked
      <4> QED BY <3>1, <4>1
    <3> QED BY <3>1, <3>2
  <2> QED BY <2>1, <2>3, <2>4, <2>5
<1>7. /\ f.func > q[i].func /\ f.func \in Nat /\ (\A o \in O : o < f.func) /\ O \subseteq 2..m
  <2>1. f.func \in Nat /\ f.func = j + 1 /\ f.func <= m /\ m \in Nat BY <1>1, <1>5
  <2> QED BY <1>1, <1>6, <2>1
<1>8. r \in Seq(Frames) /\ Len(r) = i + 1 /\ r[i + 1] = f /\ \A l \in 1..i : r[l] = q[l]
  <2>1. q \in Seq(Frames) /\ f \in Frames /\ i = Len(q) BY <1>0, <1>1, <1>5, Zenon
  <2> QED BY <2>1
<1>9. Stacked(r, m, O)
  <2>1. Stacked(q, m, O)
    <3> DEFINE e == q[i].func   d == f.func
    <3>0. e \in Nat /\ d \in Nat /\ d > e /\ d <= m /\ m \in Nat BY <1>5, <1>6, <1>7
    <3> HIDE DEF e, d
    <3>2. m # 0 /\ e <= m BY <3>0
    <3>1. m # 0 /\ q[Len(q)].func <= m BY <1>0, <3>2, Zenon DEF e
    <3> QED BY <1>0, <1>1, <1>5, <1>7, <3>1, StackClose, Zenon
  <2> QED BY <1>0, <1>1, <1>5, <1>6, <1>7, <2>1, StackFrame, Zenon
<1>10. /\ State(w) /\ w.L = u.L /\ w.C = s.C /\ w.gcstp = s.gcstp
  BY <1>4 DEF State, StateFields
<1> HIDE DEF w, r
<1>11. Body(w, G, h, b)
  <2>1. ASSUME NEW l \in 1..n, s.C[l].th = th, Live(s.C, l, n), G[l] \in Ghosts, Sound(q, O, s.C[l], G[l])
        PROVE  Sound(r, O, s.C[l], G[l])
    <3>1. Levelled(s.C[l]) /\ G[l].d = Len(q) => s.C[l].level <= f.func
      <4>1. l = n => ~Levelled(s.C[l]) BY <1>0, <1>2, Zenon DEF Levelled
      <4>2. l # n => l \in 1..(n - 1) BY <1>1
      <4>3. l # n => G[l].d < k.d /\ G[l].d \in Nat BY <1>0, <1>2, <2>1, <4>2, BelowTop, Zenon
      <4> DEFINE d == G[l].d   e == k.d
      <4>4. e = i /\ (l # n => d < e /\ d \in Nat) BY <1>3, <4>3
      <4> HIDE DEF d, e
      <4>5. l # n => d # i BY <4>4
      <4> QED BY <1>0, <4>1, <4>5, Zenon DEF d
    <3> QED BY <1>0, <1>1, <1>5, <2>1, <3>1, SoundFrame, Zenon DEF r
  <2>2. Reframes(s, G, w)
    BY <1>0, <1>3, <1>4, <1>9, <1>10, <2>1, Zenon DEF Reframes, InThread
  <2> QED BY <2>2, BodyFrames
<1>12. InC(w, u) /\ u.C = Append(w.C, a)
  BY <1>4, <1>10 DEF InC
<1>13. g \in Ghosts /\ g.d = i + 1 /\ g.b = 0 /\ g.c = k.c /\ g.e = k.e /\ g.j = k.j
  BY <1>1, <1>3 DEF Ghosts
<1> HIDE DEF g
<1>14. Calls(w.C, G, a, g)
  <2>1. LinkThreads(z, a) BY <1>0, <1>4, Zenon DEF LinkThreads, Switches, Callers, CoCallers, PlainCallers
  <2>2. LinkKinds(z, a) BY <1>2, <1>4 DEF LinkKinds, MayCall, IsRawRun, Callers, CoCallers, PlainCallers
  <2>3. LinkCounts(k, a, g) BY <1>3, <1>4, <1>13 DEF LinkCounts, Switches, Callers, CoCallers, PlainCallers
  <2>4. LinkFrames(z, k, a, g) BY <1>2, <1>3, <1>4, <1>13, Zenon DEF LinkFrames, Switches, Callers, CoCallers, PlainCallers
  <2>5. Own(a, g) /\ g.j = Target(a, n + 1, k.j) /\ a.at \notin Switches
    BY <1>4, <1>13 DEF Own, Target, IsRawRun, Switches, Callers, CoCallers, PlainCallers
  <2>6. Link(z, k, a, g) BY <2>1, <2>2, <2>3, <2>4 DEF Link
  <2> QED BY <1>0, <1>4, <1>10, <1>13, <2>5, <2>6, Zenon DEF Calls
<1>15. Sound(r, O, a, g)
  <2>1. g.e = 0 => \A l \in 2..(g.d - 1) : Passes(r[l])
    <3> SUFFICES ASSUME k.e = 0, NEW l \in 2..i PROVE Passes(q[l])
      BY <1>1, <1>8, <1>13
    <3>1. CASE l = i BY <1>6, <3>1 DEF Passes
    <3>2. CASE l # i
      <4>1. l \in 2..(k.d - 1) BY <1>1, <1>3, <3>2
      <4> QED BY <1>1, <4>1 DEF Sound
    <3> QED BY <3>1, <3>2
  <2>2. g.d <= Len(r) /\ g.d > 1 /\ r[g.d] = f BY <1>1, <1>8, <1>13
  <2> QED BY <1>4, <1>5, <2>1, <2>2, Zenon DEF Sound, Floored, Levelled, Callers, CoCallers, PlainCallers
<1> DEFINE G2 == Append(G, g)
<1>16. Body(u, G2, h, b)
  <2>1. Sound(w.L[a.th].ci, w.L[a.th].open, a, g) /\ a.th = w.C[Len(w.C)].th BY <1>0, <1>4, <1>10, <1>15, Zenon
  <2> QED BY <1>11, <1>12, <1>14, <2>1, BodyPush
<1>17. Len(u.C) = n + 1 /\ u.C[n + 1] = a /\ G2[n + 1] = g
  <2>1. s.C \in Seq(Acts) /\ G \in Seq(Ghosts) /\ Len(s.C) = Len(G) /\ n = Len(s.C) BY <1>0, <1>1, Zenon
  <2>2. Len(Append(s.C, a)) = n + 1 /\ Append(s.C, a)[n + 1] = a /\ Append(G, g)[n + 1] = g
    BY <1>4, <1>13, <2>1, AppendAct
  <2> QED BY <1>4, <2>2
<1>18. Settled(u.L[a.th], a, g)
  BY <1>3, <1>4, <1>8, <1>13 DEF Settled, IsRawRun, Callers, CoCallers, PlainCallers
<1> HIDE DEF G2
<1>19. Calm(u, G2)
  BY <1>4, <1>17, <1>18 DEF Calm
<1> QED BY <1>16, <1>17, <1>19

\* One change of a thread after another.
LEMMA TurnsAgain ==
  ASSUME NEW s, NEW u, NEW w, NEW th, NEW st, NEW q, NEW n, NEW O, NEW cc, NEW e, Turns(s, u, th, st, q, n, O, cc, e),
         NEW st2, NEW q2, NEW n2, NEW O2, NEW cc2, NEW e2, Turns(u, w, th, st2, q2, n2, O2, cc2, e2)
  PROVE  Turns(s, w, th, st2, q2, n2, O2, cc2, e2)
<1> QED BY DEF Turns, InThread

\* The history is not part of a thread.
LEMMA Stays ==
  ASSUME NEW s, NEW u, Same(s, u), NEW th \in Threads
  PROVE  LET x == s.L[th] IN Turns(s, u, th, x.status, x.ci, Len(x.stack), x.open, x.nC, x.nny)
<1> QED BY DEF Turns, InThread, Same, InC

\* What changes the history alone.
LEMMA History ==
  ASSUME NEW s, State(s), NEW v, NEW th
  PROVE  /\ Same(s, [s EXCEPT !.variables = v]) /\ Same(s, [s EXCEPT !.errors = v])
         /\ Same(s, [s EXCEPT !.scopes = v]) /\ Same(s, [s EXCEPT !.scopes[th] = v]) /\ Same(s, [s EXCEPT !.result = v])
<1>1. Same(s, [s EXCEPT !.variables = v]) BY DEF Same, InC, State, StateFields
<1>2. Same(s, [s EXCEPT !.errors = v]) BY DEF Same, InC, State, StateFields
<1>3. Same(s, [s EXCEPT !.scopes = v]) BY DEF Same, InC, State, StateFields
<1>4. Same(s, [s EXCEPT !.scopes[th] = v]) BY DEF Same, InC, State, StateFields
<1>5. Same(s, [s EXCEPT !.result = v]) BY DEF Same, InC, State, StateFields
<1> QED BY <1>1, <1>2, <1>3, <1>4, <1>5

\* The history of protected calls.
LEMMA CallHistory ==
  ASSUME NEW s, State(s), NEW th
  PROVE  /\ Same(s, BeginCall(s, th)) /\ Same(s, EndCall(s, th)) /\ Same(s, FailCall(s, th))
<1>1. Same(s, BeginCall(s, th)) BY History DEF BeginCall
<1>2. Same(s, EndCall(s, th)) BY History DEF EndCall
<1>3. Same(EndCall(s, th), FailCall(s, th))
  <2>1. State(EndCall(s, th)) BY <1>2 DEF Same, InC
  <2> QED BY <2>1, History DEF FailCall
<1> QED BY <1>1, <1>2, <1>3 DEF Same, InC

\* The frame of the function that runs.
RunsIn(s, G, th) ==
    LET z == s.C[Len(s.C)]   k == G[Len(s.C)]   x == s.L[th]   q == x.ci   m == Len(q)   f == q[m]   j == Len(x.stack)
    IN  /\ th \in Threads /\ State(s) /\ z \in Acts /\ z.at \in {"execute"} \union Callers /\ z.th = th
        /\ m \in Nat /\ m > 1 /\ q \in Seq(Frames) /\ f \in Frames /\ f.func \in Nat /\ f.func > 1
        /\ j \in Nat /\ j # 0 /\ f.func <= j /\ k.d = m /\ x.status = "OK" /\ x.nC = k.c /\ x.nny = k.e
        /\ Stacked(q, j, x.open) /\ x.open \subseteq 2..j /\ Sound(q, x.open, z, k) /\ Last(q) = f
        /\ z.at = "execute" => f.lua /\ ~f.ypcall /\ f.recst = "OK"
        /\ z.at \in Callers => /\ ~f.lua /\ f.recst = "OK" /\ (\A o \in x.open : o < f.func)
                               /\ f.tbc => z.at = "C_function"
                               /\ f.ypcall => z.at = "luaB_pcall"
\* What is known of the frame that runs.
LEMMA TopFrame ==
  ASSUME NEW s, NEW G, NEW h, NEW b, Body(s, G, h, b), Calm(s, G), NEW th, th = s.C[Len(s.C)].th
  PROVE  RunsIn(s, G, th)
<1> DEFINE n == Len(s.C)   z == s.C[n]   k == G[n]   x == s.L[th]   q == x.ci   m == Len(q)   f == q[m]   j == Len(x.stack)   O == x.open
<1>0. n = Len(s.C) /\ z = s.C[n] /\ k = G[n] /\ th = z.th /\ x = s.L[th] /\ q = x.ci /\ m = Len(q) /\ f = q[m] /\ j = Len(x.stack) /\ O = x.open
  OBVIOUS
<1>1. /\ th \in Threads /\ m \in Nat /\ m >= 1 /\ q \in Seq(Frames) /\ z \in Acts /\ k \in Ghosts /\ State(s) /\ Sound(q, O, z, k)
      /\ Stacked(q, j, O) /\ j \in Nat /\ O \subseteq 2..j /\ q[m] \in Frames /\ Last(q) = f
  BY TopFacts, Zenon
<1>2. Settled(x, z, k) /\ z.at \in {"execute"} \union Callers
  BY DEF Calm
<1>3. k.d \in Nat \ {0} /\ k.d = m /\ x.status = "OK" /\ x.nC = k.c /\ x.nny = k.e
  BY <1>0, <1>1, <1>2, Zenon DEF Ghosts, Settled, Callers, CoCallers, PlainCallers
<1> HIDE DEF n, z, k, x, q, m, j, O, f
<1>4. z.at = "execute" => f.lua BY <1>0, <1>1, <1>3, Zenon DEF Sound
<1>5. z.at \in Callers => /\ m > 1 /\ ~f.lua /\ f.recst = "OK" /\ (f.tbc => z.at = "C_function") /\ (f.ypcall => z.at = "luaB_pcall")
  BY <1>0, <1>1, <1>3, Zenon DEF Sound
<1>6. m > 1
  <2>1. z.at = "execute" => m # 1 BY <1>0, <1>1, <1>4, Zenon DEF Stacked
  <2> QED BY <1>1, <1>2, <1>5, <2>1
<1>7. f \in Frames /\ f.func \in Nat BY <1>0, <1>1, Zenon DEF Frames
<1>8. f.func > 1
  <2>1. m = Len(q) /\ m \in Nat /\ m > 1 /\ Stacked(q, j, O) BY <1>0, <1>1, <1>6, Zenon
  <2>2. 1 \in 1..Len(q) /\ Len(q) \in 1..Len(q) /\ 1 < Len(q) BY <2>1
  <2>3. q[1].func = 1 /\ q[1].func < q[Len(q)].func BY <2>1, <2>2 DEF Stacked
  <2> QED BY <1>0, <1>7, <2>1, <2>3, Zenon
<1>9. j # 0 /\ f.func <= j
  <2>1. IF j = 0 THEN Len(q) = 1 ELSE q[Len(q)].func <= j BY <1>1 DEF Stacked
  <2>2. Len(q) = m /\ q[Len(q)] = f BY <1>0, Zenon
  <2>3. j # 0
    <3>1. m # 1 BY <1>1, <1>6
    <3> QED BY <2>1, <2>2, <3>1
  <2> QED BY <2>1, <2>2, <2>3
<1>10. FrameInv(q, O, m)
  <2>1. m = Len(q) /\ m \in Nat /\ m > 1 BY <1>0, <1>1, <1>6, Zenon
  <2>2. m \in 1..Len(q) BY <2>1
  <2> QED BY <1>1, <2>2 DEF Stacked
<1>11. z.at = "execute" => ~f.ypcall /\ f.recst = "OK"
  BY <1>0, <1>4, <1>10, Zenon DEF FrameInv, CFrameOf
<1>12. z.at \in Callers => \A o \in O : o < f.func
  <2> SUFFICES ASSUME z.at \in Callers, NEW o \in O PROVE o < f.func OBVIOUS
  <2>1. o \in Nat BY <1>1
  <2>2. ~(o >= f.func)
    <3>1. m = Len(q) /\ m \in Nat BY <1>0, <1>1, Zenon
    <3>2. ~(m < Len(q)) BY <3>1
    <3> QED BY <1>0, <1>5, <1>10, <3>2, Zenon DEF FrameInv, CFrameOf
  <2> QED BY <1>7, <2>1, <2>2
<1> QED BY <1>0, <1>1, <1>2, <1>3, <1>4, <1>5, <1>6, <1>7, <1>8, <1>9, <1>11, <1>12, Zenon DEF RunsIn

\* A function that runs pushes a value.
LEMMA Pushes ==
  ASSUME NEW s, NEW G, NEW h, NEW b, Body(s, G, h, b), Calm(s, G), NEW th, th = s.C[Len(s.C)].th,
         ~s.L[th].ci[Len(s.L[th].ci)].ypcall, NEW v
  PROVE  LET u == push(s, th, v)   x == s.L[th]   p == Len(x.stack) + 1
         IN  /\ Poised(u, G, h, b, p) /\ Calm(u, G) /\ u.C = s.C /\ Len(u.L[th].stack) = p
             /\ Turns(s, u, th, x.status, x.ci, p, x.open, x.nC, x.nny)
<1> DEFINE u == push(s, th, v)   x == s.L[th]   q == x.ci   f == q[Len(q)]   j == Len(x.stack)   p == j + 1   O == x.open
           n == Len(s.C)   z == s.C[n]
<1>0. x = s.L[th] /\ q = x.ci /\ f = q[Len(q)] /\ j = Len(x.stack) /\ O = x.open /\ n = Len(s.C) /\ z = s.C[n] /\ p = j + 1
  BY Zenon
<1>1. /\ th \in Threads /\ State(s) /\ f.func \in Nat /\ j \in Nat /\ j # 0 /\ f.func <= j /\ O \subseteq 2..j
  BY TopFrame, Zenon DEF RunsIn
<1>2. ~f.ypcall /\ th = z.th
  BY Zenon
<1> HIDE DEF x, q, f, j, O, n, z, p
<1>3. Turns(s, u, th, x.status, q, p, O, x.nC, x.nny) /\ Restacks(s, u, th)
  BY <1>0, <1>1, PushRestacks, Zenon
<1> HIDE DEF u
<1>4. /\ u.L[th].status = x.status /\ u.L[th].ci = q /\ Len(u.L[th].stack) = p /\ u.L[th].open = O
      /\ u.L[th].nC = x.nC /\ u.L[th].nny = x.nny /\ u.C = s.C
  BY <1>3, Zenon DEF Turns, InThread
<1>5. Body(u, G, h, b) BY <1>3, BodyStack, Zenon
<1>6. Calm(u, G)
  <2>1. Settled(x, z, G[n]) /\ z.at \in {"execute"} \union Callers BY <1>0, <1>2, Zenon DEF Calm
  <2>2. Settled(u.L[th], z, G[n]) BY <1>0, <1>4, <2>1, SettledAgain, Zenon
  <2> QED BY <1>0, <1>2, <1>4, <2>1, <2>2, Zenon DEF Calm
<1>7. Above(u, p)
  <2> DEFINE e == f.func
  <2>1. j \in Nat /\ e \in Nat /\ e <= j /\ p = j + 1 /\ O \subseteq 2..j BY <1>0, <1>1, Zenon
  <2> HIDE DEF e
  <2>2. p \in Nat /\ p > e /\ (\A o \in O : o < p) /\ p <= p BY <2>1
  <2> QED BY <1>0, <1>2, <1>4, <2>2, Zenon DEF Above, e
<1>8. Poised(u, G, h, b, p) BY <1>5, <1>6, <1>7, Topmost, Zenon
<1> QED BY <1>0, <1>3, <1>4, <1>6, <1>8, Zenon DEF u

-----------------------------------------------------------------------------
(* What Lua code does.                                                      *)

\* Lua code runs.
LuaRuns(s, G, h, b, th) ==
    LET a == s.C[Len(s.C)]
    IN  Body(s, G, h, b) /\ a.at = "execute" /\ a.th = th /\ Settled(s.L[th], a, G[Len(s.C)])
\* What is known when Lua code runs.
LEMMA LuaFacts ==
  ASSUME NEW s, NEW G, NEW h, NEW b, NEW th, LuaRuns(s, G, h, b, th)
  PROVE  /\ Body(s, G, h, b) /\ Calm(s, G) /\ th = s.C[Len(s.C)].th /\ RunsIn(s, G, th) /\ th \in Threads /\ State(s)
         /\ ~s.L[th].ci[Len(s.L[th].ci)].ypcall /\ s.C[Len(s.C)].at = "execute"
         /\ CanThrow(s) /\ Holds(s, h, b) /\ Last(s.C) = s.C[Len(s.C)]
<1>1. Body(s, G, h, b) /\ s.C[Len(s.C)].at = "execute" /\ s.C[Len(s.C)].th = th /\ Settled(s.L[th], s.C[Len(s.C)], G[Len(s.C)])
  BY DEF LuaRuns
<1>2. Calm(s, G) BY <1>1 DEF Calm
<1>3. RunsIn(s, G, th) BY <1>1, <1>2, TopFrame
<1>4. CanThrow(s) BY <1>1 DEF CanThrow, Settled
<1>5. Holds(s, h, b) BY <1>1, GoesOn DEF CoCallers
<1>6. Last(s.C) = s.C[Len(s.C)] BY <1>1, TopFacts, Zenon
<1> QED BY <1>1, <1>2, <1>3, <1>4, <1>5, <1>6, Zenon DEF RunsIn

\* A metamethod.
LEMMA CallsMetamethod ==
  ASSUME NEW s, NEW G, NEW h, NEW b, NEW th, LuaRuns(s, G, h, b, th)
  PROVE  LET u == push(s, th, Function) IN Holds(luaD_call(u, th, top(u, th)), h, b)
<1> DEFINE u == push(s, th, Function)   p == Len(s.L[th].stack) + 1
<1>1. /\ Body(s, G, h, b) /\ Calm(s, G) /\ th = s.C[Len(s.C)].th /\ RunsIn(s, G, th)
      /\ ~s.L[th].ci[Len(s.L[th].ci)].ypcall /\ s.C[Len(s.C)].at = "execute"
  BY LuaFacts
<1>2. /\ Poised(u, G, h, b, p) /\ u.C = s.C /\ Len(u.L[th].stack) = p
      /\ Turns(s, u, th, s.L[th].status, s.L[th].ci, p, s.L[th].open, s.L[th].nC, s.L[th].nny)
  BY <1>1, Pushes, ZenonT(60)
<1> HIDE DEF u, p
<1>3. CanCall(u, G, 1, 0)
  <2>1. MayCall("execute", "ccall") BY DEF MayCall
  <2>2. u.L[th].ci = s.L[th].ci BY <1>2 DEF Turns
  <2>3. G[Len(s.C)].d = Len(s.L[th].ci) /\ s.L[th].ci[Len(s.L[th].ci)].lua BY <1>1, Zenon DEF RunsIn
  <2> QED BY <1>1, <1>2, <2>1, <2>2, <2>3, Zenon DEF CanCall, Passes
<1>4. Holds(ccall(u, th, p, 0, 1, 0), h, b)
  BY <1>1, <1>2, <1>3, CCall, Zenon
<1> QED BY <1>2, <1>4 DEF luaD_call, top, u

\* A new local variable that is captured.
LEMMA Captures ==
  ASSUME NEW s, NEW G, NEW h, NEW b, NEW th, LuaRuns(s, G, h, b, th), s.L[th].ci[Len(s.L[th].ci)].op # "OP_CLOSE"
  PROVE  LET u == push(s, th, Function) IN Holds(luaF_findupval(u, th, top(u, th)), h, b)
<1> DEFINE u == push(s, th, Function)   x == s.L[th]   q == x.ci   p == Len(x.stack) + 1   w == luaF_findupval(u, th, p)
           n == Len(s.C)   O == x.open   z == s.C[n]   f == q[Len(q)]
<1>0. x = s.L[th] /\ q = x.ci /\ p = Len(x.stack) + 1 /\ n = Len(s.C) /\ O = x.open /\ z = s.C[n] /\ f = q[Len(q)]
  OBVIOUS
<1>1. /\ Body(s, G, h, b) /\ Calm(s, G) /\ th = z.th /\ RunsIn(s, G, th) /\ th \in Threads
      /\ ~f.ypcall /\ z.at = "execute" /\ f.op # "OP_CLOSE"
  BY LuaFacts
<1>2. /\ Poised(u, G, h, b, p) /\ Calm(u, G) /\ u.C = s.C /\ Len(u.L[th].stack) = p
      /\ Turns(s, u, th, x.status, q, p, O, x.nC, x.nny)
  BY <1>1, Pushes, ZenonT(60)
<1>3. /\ Len(q) \in Nat /\ Len(q) > 1 /\ q \in Seq(Frames) /\ f.func \in Nat /\ f.func < p /\ p \in Nat /\ p >= 2
      /\ G[n].d = Len(q) /\ f.lua
  <2> DEFINE e == f.func   j == Len(x.stack)
  <2>1. /\ Len(q) \in Nat /\ Len(q) > 1 /\ q \in Seq(Frames) /\ e \in Nat /\ e <= j /\ j \in Nat /\ j # 0 /\ e > 1
        /\ G[n].d = Len(q) /\ f.lua
    BY <1>1, Zenon DEF RunsIn
  <2> HIDE DEF e
  <2>2. p = j + 1 OBVIOUS
  <2> HIDE DEF j, p
  <2>3. e < p /\ p \in Nat /\ p >= 2 BY <2>1, <2>2
  <2> QED BY <2>1, <2>3, Zenon DEF e
<1> HIDE DEF x, q, n, O, z, f, p
<1>4. /\ u.L[th].status = x.status /\ u.L[th].ci = q /\ Len(u.L[th].stack) = p /\ u.L[th].open = O
      /\ u.L[th].nC = x.nC /\ u.L[th].nny = x.nny /\ State(u) /\ Body(u, G, h, b) /\ Settled(u.L[th], z, G[n])
  BY <1>0, <1>1, <1>2, Zenon DEF Turns, InThread, Poised, Calm
<1> HIDE DEF u
<1>5. Turns(u, w, th, x.status, q, p, O \union {p}, x.nC, x.nny)
  BY <1>1, <1>3, <1>4, Opened
<1> HIDE DEF w
<1>6. Stacked(q, p, O \union {p})
  <2>1. Stacked(q, p, O)
    <3>1. \A t \in Threads : ThreadInv(u.L[t]) BY <1>4 DEF Body
    <3> QED BY <1>1, <1>4, <3>1 DEF ThreadInv
  <2>2. p \in 2..p BY <1>3
  <2> QED BY <1>0, <1>1, <1>3, <2>1, <2>2, StackOpen, Zenon
<1>7. Body(w, G, h, b)
  <2>1. ASSUME NEW l \in 1..n, s.C[l].th = th, Live(s.C, l, n), G[l] \in Ghosts, Sound(q, O, s.C[l], G[l])
        PROVE  Sound(q, O \union {p}, s.C[l], G[l])
    <3>1. l # n => G[l].d < Len(q) /\ G[l].d \in Nat
      <4>0. n \in Nat BY <1>0, <1>1, TopFacts, Zenon
      <4>1. l # n => l \in 1..(n - 1) BY <4>0
      <4>2. l # n => G[l].d < G[n].d /\ G[l].d \in Nat BY <1>0, <1>1, <2>1, <4>1, BelowTop, Zenon
      <4> QED BY <1>3, <4>2
    <3>2. l = n => ~Floored(s.C[l]) /\ s.C[l].at # "lua_closethread" BY <1>0, <1>1, Zenon DEF Floored
    <3>3. Stacked(q, Len(x.stack), O) BY <1>0, <1>1, Zenon DEF RunsIn
    <3> QED BY <1>0, <1>3, <2>1, <3>1, <3>2, <3>3, SoundOpen
  <2>2. w.L[th].status = "OK" /\ w.L[th].ci = q /\ Len(w.L[th].stack) = p /\ w.L[th].open = O \union {p} /\ InThread(u, w, th)
    BY <1>0, <1>1, <1>5, Zenon DEF Turns, RunsIn
  <2>3. Reframes(u, G, w)
    BY <1>0, <1>1, <1>2, <1>4, <1>6, <2>1, <2>2, ZenonT(60) DEF Reframes
  <2> QED BY <1>4, <2>3, BodyFrames
<1>8. Holds(w, h, b)
  <2>1. w.C = s.C BY <1>2, <1>5 DEF Turns, InThread
  <2>2. Settled(w.L[th], z, G[n]) BY <1>4, <1>5, SettledAgain DEF Turns
  <2>3. z.at \notin CoCallers BY <1>1 DEF CoCallers
  <2> QED BY <1>0, <1>1, <1>7, <2>1, <2>2, <2>3, GoesOn, Zenon
<1> QED BY <1>2, <1>8 DEF w, u, top

\* A new local variable to be closed.
LEMMA Declares ==
  ASSUME NEW s, NEW G, NEW h, NEW b, NEW th, LuaRuns(s, G, h, b, th), NEW v, NEW e
  PROVE  LET u == [push(s, th, v) EXCEPT !.variables = e]
             w == luaF_newtbcupval(u, th, top(u, th))
         IN  /\ \A sc : Holds([w EXCEPT !.scopes[th] = sc], h, b)
             /\ \A text : Holds(luaG_runerror(u, th, text), h, b)
<1> DEFINE y == push(s, th, v)   u == [y EXCEPT !.variables = e]   x == s.L[th]   q == x.ci   p == Len(x.stack) + 1
           w == luaF_newtbcupval(u, th, top(u, th))
<1>0. x = s.L[th] /\ q = x.ci /\ p = Len(x.stack) + 1
  OBVIOUS
<1>1. /\ Body(s, G, h, b) /\ Calm(s, G) /\ th = s.C[Len(s.C)].th /\ RunsIn(s, G, th) /\ th \in Threads
      /\ ~q[Len(q)].ypcall /\ s.C[Len(s.C)].at = "execute"
  BY LuaFacts
<1>2. /\ Poised(y, G, h, b, p) /\ Calm(y, G) /\ y.C = s.C /\ Len(y.L[th].stack) = p
      /\ Turns(s, y, th, x.status, q, p, x.open, x.nC, x.nny)
  BY <1>1, Pushes, ZenonT(60)
<1>3. p \in Nat
  <2>1. Len(s.L[th].stack) \in Nat BY <1>1, Zenon DEF RunsIn
  <2> QED BY <2>1
<1> HIDE DEF x, q, p
<1>4. State(y) BY <1>2 DEF Turns, InThread
<1> HIDE DEF y
<1>5. Same(y, u) BY <1>4, History
<1> HIDE DEF u
<1>6. Poised(u, G, h, b, p) /\ u.C = s.C /\ u.L = y.L /\ State(u)
  BY <1>2, <1>5, PoisedSame DEF Same, InC
<1>7. ASSUME NEW sc PROVE Holds([w EXCEPT !.scopes[th] = sc], h, b)
  <2> DEFINE t == Append(u.L[th].tbc, p)   r == [w EXCEPT !.scopes[th] = sc]
  <2>1. t \in Seq(Nat)
    <3>1. IsThread(u.L[th]) BY <1>1, <1>6 DEF State
    <3>2. u.L[th].tbc \in Seq(Nat) BY <3>1 DEF IsThread
    <3> QED BY <1>3, <3>2
  <2>2. w = [u EXCEPT !.L[th].tbc = t]
    <3>1. top(u, th) = p BY <1>2, <1>6 DEF top
    <3> QED BY <3>1 DEF luaF_newtbcupval
  <2> HIDE DEF t, w
  <2>3. Turns(u, w, th, u.L[th].status, u.L[th].ci, Len(u.L[th].stack), u.L[th].open, u.L[th].nC, u.L[th].nny)
    BY <1>1, <1>6, <2>1, <2>2, Listed
  <2>4. Restacks(u, w, th)
    <3>1. Body(u, G, h, b) /\ th = u.C[Len(u.C)].th BY <1>1, <1>6, Zenon DEF Poised
    <3>2. u.L[th].open \subseteq 2..Len(u.L[th].stack) /\ Len(u.L[th].stack) \in Nat BY <3>1, TopFacts, Zenon
    <3>3. IF Len(u.L[th].stack) = 0 THEN Len(u.L[th].ci) = 1 ELSE u.L[th].ci[Len(u.L[th].ci)].func <= Len(u.L[th].stack)
      <4>1. Stacked(u.L[th].ci, Len(u.L[th].stack), u.L[th].open) BY <3>1, TopFacts, Zenon
      <4> QED BY <4>1 DEF Stacked
    <3> QED BY <1>1, <2>3, <3>1, <3>2, <3>3, Zenon DEF Restacks, Turns
  <2>5. Body(w, G, h, b) /\ w.C = s.C /\ State(w)
    BY <1>6, <2>3, <2>4, BodyStack, Zenon DEF Poised, Turns, InThread
  <2>6. Same(w, r) BY <2>5, History
  <2> HIDE DEF r
  <2>7. Body(r, G, h, b) /\ r.C = s.C /\ r.L = w.L BY <2>5, <2>6, BodySame DEF Same, InC
  <2>8. Settled(r.L[th], s.C[Len(s.C)], G[Len(s.C)])
    <3>1. Settled(u.L[th], s.C[Len(s.C)], G[Len(s.C)]) BY <1>1, <1>2, <1>6, Zenon DEF Calm
    <3> QED BY <2>3, <2>7, <3>1, SettledAgain DEF Turns
  <2>9. Holds(r, h, b) BY <1>1, <2>7, <2>8, GoesOn, Zenon DEF CoCallers
  <2> QED BY <2>9 DEF r
<1>8. ASSUME NEW text PROVE Holds(luaG_runerror(u, th, text), h, b)
  <2> DEFINE r == push(u, th, Message(text))
  <2>1. th = u.C[Len(u.C)].th BY <1>1, <1>6
  <2>2. Poised(r, G, h, b, Len(r.L[th].stack)) /\ r.C = u.C BY <1>6, <2>1, PushPoised
  <2> HIDE DEF r
  <2>3. th = r.C[Len(r.C)].th /\ r.C[Len(r.C)].at = "execute" BY <1>1, <1>6, <2>2
  <2>4. Holds(luaG_errormsg(r, th), h, b) BY <2>2, <2>3, ErrorMessage
  <2> QED BY <2>4 DEF luaG_runerror, r
<1> QED BY <1>7, <1>8 DEF w, u, y

\* The stack of the running thread changes above its last frame.
LEMMA Restacked ==
  ASSUME NEW s, NEW G, NEW h, NEW b, Body(s, G, h, b), NEW th, th = s.C[Len(s.C)].th, NEW u, NEW n \in Nat, NEW O, NEW cc, NEW e,
         Turns(s, u, th, s.L[th].status, s.L[th].ci, n, O, cc, e), O \subseteq s.L[th].open, O \subseteq 2..n,
         n # 0, s.L[th].ci[Len(s.L[th].ci)].func <= n
  PROVE  Restacks(s, u, th) /\ Body(u, G, h, b)
<1>1. th \in Threads BY TopFacts, Zenon
<1>2. Restacks(s, u, th) BY <1>1, Zenon DEF Restacks, Turns
<1> QED BY <1>2, BodyStack, Zenon

\* There is no memory: the error is thrown at once.
LEMMA RunsOutOfMemory ==
  ASSUME NEW s, NEW G, NEW h, NEW b, NEW th, LuaRuns(s, G, h, b, th)
  PROVE  Holds(luaD_throw(s, th, "ERRMEM"), h, b)
<1> DEFINE x == s.L[th]
<1>1. /\ Body(s, G, h, b) /\ CanThrow(s) /\ th = s.C[Len(s.C)].th /\ RunsIn(s, G, th) /\ State(s)
  BY LuaFacts
<1>2. /\ Len(x.stack) \in Nat /\ Len(x.stack) # 0 /\ x.open \subseteq 2..Len(x.stack) /\ x.ci[Len(x.ci)].func <= Len(x.stack)
      /\ x.status = "OK"
  BY <1>1, Zenon DEF RunsIn
<1>3. Turns(s, s, th, x.status, x.ci, Len(x.stack), x.open, x.nC, x.nny)
  BY <1>1 DEF Turns, InThread
<1>4. Restacks(s, s, th) BY <1>1, <1>2, <1>3, Restacked, ZenonT(60)
<1>5. "ERRMEM" \in Failures BY DEF Failures
<1> QED BY <1>1, <1>2, <1>4, <1>5, ThrowAfter, Zenon

\* The frame stays in a tail call: its function is called anew.
LEMMA TailCalls ==
  ASSUME NEW s, NEW G, NEW h, NEW b, NEW th, LuaRuns(s, G, h, b, th)
  PROVE  LET f == s.L[th].ci[Len(s.L[th].ci)] IN Holds(settop(luaF_closeupval(s, th, f.func + 1), th, f.func), h, b)
<1> DEFINE x == s.L[th]   q == x.ci   f == q[Len(q)]   e == f.func   O == {o \in x.open : o < e + 1}
           w == luaF_closeupval(s, th, e + 1)   u == settop(w, th, e)   a == s.C[Len(s.C)]
<1>0. x = s.L[th] /\ q = x.ci /\ f = q[Len(q)] /\ e = f.func /\ a = s.C[Len(s.C)]
  OBVIOUS
<1>1. /\ Body(s, G, h, b) /\ th = a.th /\ RunsIn(s, G, th) /\ State(s) /\ th \in Threads /\ a.at = "execute"
  BY LuaFacts
<1>2. /\ e \in Nat /\ e > 1 /\ Stacked(q, Len(x.stack), x.open) /\ Len(q) \in Nat /\ Len(q) > 1 /\ x.open \subseteq 2..Len(x.stack)
  BY <1>1, Zenon DEF RunsIn
<1>3. Turns(s, w, th, x.status, q, Len(x.stack), O, x.nC, x.nny)
  BY <1>1, Closed, Zenon
<1> HIDE DEF w, x, q, f, a, e
<1>4. State(w) /\ w.L[th].status = x.status /\ w.L[th].ci = q /\ w.L[th].open = O /\ w.L[th].nC = x.nC /\ w.L[th].nny = x.nny
  BY <1>3 DEF Turns, InThread
<1> HIDE DEF O
<1>5. Turns(w, u, th, x.status, q, e, O, x.nC, x.nny)
  BY <1>1, <1>2, <1>4, Topped
<1> HIDE DEF u
<1>6. Turns(s, u, th, x.status, q, e, O, x.nC, x.nny)
  BY <1>3, <1>5, TurnsAgain
<1>7. O \subseteq x.open /\ O \subseteq 2..e
  <2> SUFFICES ASSUME NEW o \in O PROVE o \in x.open /\ o \in 2..e OBVIOUS
  <2>1. o \in x.open /\ o < e + 1 BY DEF O
  <2>2. o \in Nat /\ o >= 2 BY <1>2, <2>1
  <2>3. o <= e BY <1>2, <2>1, <2>2
  <2> QED BY <1>2, <2>1, <2>2, <2>3
<1>8. e # 0 /\ q[Len(q)].func <= e
  BY <1>0, <1>2
<1>9. Body(u, G, h, b)
  BY <1>0, <1>1, <1>2, <1>6, <1>7, <1>8, Restacked, Zenon
<1>10. Settled(x, a, G[Len(s.C)])
  BY <1>0, <1>1 DEF LuaRuns
<1>11. Settled(u.L[th], a, G[Len(s.C)]) /\ u.C = s.C
  <2>1. /\ u.C = s.C /\ u.L[th].status = x.status /\ u.L[th].ci = x.ci /\ u.L[th].nC = x.nC /\ u.L[th].nny = x.nny
    BY <1>0, <1>6 DEF Turns, InThread
  <2> QED BY <1>10, <2>1, SettledAgain
<1>12. Holds(u, h, b)
  BY <1>0, <1>1, <1>9, <1>11, GoesOn, Zenon DEF CoCallers
<1> QED BY <1>0, <1>12, Zenon DEF u, w

\* A frame is added to the running thread's.
Adds(s, w, f, m) ==
    LET th == s.C[Len(s.C)].th   x == s.L[th]   y == w.L[th]
    IN  /\ InThread(s, w, th)
        /\ y.status = x.status /\ y.ci = Append(x.ci, f) /\ Len(y.stack) = m /\ y.open = x.open /\ y.nC = x.nC /\ y.nny = x.nny
        /\ f \in Frames /\ f.func = Len(x.stack) + 1 /\ m \in Nat /\ f.func <= m
        /\ ~f.ypcall /\ f.recst = "OK" /\ f.op = "none"
\* What is below does not rely on there being none.
LEMMA AddFrame ==
  ASSUME NEW s, NEW G, NEW h, NEW b, NEW th, LuaRuns(s, G, h, b, th), NEW w, NEW f, NEW m, Adds(s, w, f, m)
  PROVE  Body(w, G, h, b)
<1> DEFINE n == Len(s.C)   z == s.C[n]   k == G[n]   x == s.L[th]   q == x.ci   i == Len(q)   j == Len(x.stack)
           r == Append(q, f)   O == x.open   e == q[i].func   d == f.func
<1>0. n = Len(s.C) /\ z = s.C[n] /\ k = G[n] /\ x = s.L[th] /\ q = x.ci /\ i = Len(q) /\ j = Len(x.stack) /\ O = x.open /\ e = q[i].func /\ d = f.func
  OBVIOUS
<1>1. /\ Body(s, G, h, b) /\ th = z.th /\ RunsIn(s, G, th) /\ State(s) /\ th \in Threads /\ z.at = "execute" /\ ~q[i].ypcall
  BY LuaFacts
<1>2. /\ InThread(s, w, th)
      /\ w.L[th].status = x.status /\ w.L[th].ci = r /\ Len(w.L[th].stack) = m /\ w.L[th].open = O
      /\ f \in Frames /\ d = j + 1 /\ m \in Nat /\ d <= m
      /\ ~f.ypcall /\ f.recst = "OK" /\ f.op = "none"
  BY <1>1, Zenon DEF Adds
<1>3. /\ n \in Nat /\ n \in 1..n BY <1>1, TopFacts, Zenon
<1> HIDE DEF n, z, k, x, q, i, j, O, e, d
<1>4. /\ i \in Nat /\ i > 1 /\ q \in Seq(Frames) /\ e \in Nat /\ j \in Nat /\ j # 0 /\ e <= j /\ k.d = i /\ x.status = "OK"
      /\ Stacked(q, j, O) /\ O \subseteq 2..j /\ q[i].lua
  BY <1>0, <1>1, Zenon DEF RunsIn
<1>5. d \in Nat /\ d > e /\ (\A o \in O : o < d) /\ O \subseteq 2..m /\ m # 0 /\ e <= m
  BY <1>2, <1>4
<1>6. Stacked(r, m, O)
  <2>1. q[Len(q)].func <= m BY <1>0, <1>5
  <2>2. Stacked(q, m, O) BY <1>2, <1>4, <1>5, <2>1, StackClose
  <2>3. f.func > q[Len(q)].func /\ f.func <= m /\ (\A o \in O : o < f.func) /\ ~q[Len(q)].ypcall /\ q[Len(q)].lua BY <1>0, <1>1, <1>2, <1>4, <1>5, Zenon
  <2> QED BY <1>2, <2>2, <2>3, StackFrame
<1>7. ASSUME NEW l \in 1..n, s.C[l].th = th, Live(s.C, l, n), G[l] \in Ghosts, Sound(q, O, s.C[l], G[l])
      PROVE  Sound(r, O, s.C[l], G[l])
  <2>1. Levelled(s.C[l]) /\ G[l].d = Len(q) => s.C[l].level <= f.func
    <3>1. l = n => ~Levelled(s.C[l]) BY <1>0, <1>1, Zenon DEF Levelled
    <3>2. l # n => l \in 1..(n - 1) BY <1>3
    <3>3. l # n => G[l].d < k.d /\ G[l].d \in Nat BY <1>0, <1>1, <1>7, <3>2, BelowTop, Zenon
    <3> DEFINE u == G[l].d   v == k.d
    <3>4. v = i /\ (l # n => u < v /\ u \in Nat) BY <1>4, <3>3
    <3> HIDE DEF u, v
    <3>5. l # n => u # i BY <3>4
    <3> QED BY <1>0, <3>1, <3>5 DEF u
  <2> QED BY <1>2, <1>4, <1>7, <2>1, SoundFrame DEF r
<1> HIDE DEF r
<1>8. Reframes(s, G, w)
  BY <1>0, <1>1, <1>2, <1>4, <1>6, <1>7, Zenon DEF Reframes
<1> QED BY <1>1, <1>8, BodyFrames

\* A sequence is what is below its last element, and that.
LEMMA OneMore ==
  ASSUME NEW V, NEW c \in Seq(V), Len(c) >= 1
  PROVE  /\ SubSeq(c, 1, Len(c) - 1) \in Seq(V) /\ Len(SubSeq(c, 1, Len(c) - 1)) = Len(c) - 1
         /\ \A i \in 1..(Len(c) - 1) : SubSeq(c, 1, Len(c) - 1)[i] = c[i]
         /\ Append(SubSeq(c, 1, Len(c) - 1), c[Len(c)]) = c
<1> DEFINE n == Len(c)   r == SubSeq(c, 1, n - 1)   v == c[n]   t == Append(r, v)
<1>1. n \in Nat /\ n >= 1 /\ n - 1 \in Nat OBVIOUS
<1>2. \A i \in 1..(n - 1) : c[i] \in V OBVIOUS
<1>3. v \in V OBVIOUS
<1>4. /\ r \in Seq(V) /\ Len(r) = IF 1 <= n - 1 THEN (n - 1) - 1 + 1 ELSE 0
      /\ \A i \in 1..((n - 1) - 1 + 1) : r[i] = c[1 + i - 1]
  <2> HIDE DEF n
  <2> QED BY <1>1, <1>2, SubSeqProperties
<1> HIDE DEF r, n, v
<1>5. Len(r) = n - 1 /\ \A i \in 1..(n - 1) : r[i] = c[i]
  BY <1>1, <1>4
<1>6. t \in Seq(V) /\ Len(t) = n /\ \A i \in 1..n : t[i] = c[i]
  <2>1. t \in Seq(V) /\ Len(t) = n BY <1>1, <1>3, <1>4, <1>5
  <2>2. \A i \in 1..(n - 1) : t[i] = r[i] BY <1>1, <1>3, <1>4, <1>5
  <2>3. t[n] = v BY <1>1, <1>3, <1>4, <1>5
  <2>4. \A i \in 1..n : i = n \/ i \in 1..(n - 1) BY <1>1
  <2> QED BY <1>5, <2>1, <2>2, <2>3, <2>4 DEF v
<1>7. t = c BY <1>6, SeqEqual DEF n
<1> QED BY <1>4, <1>5, <1>7 DEF r, n, v

\* luaV_execute goes on in another frame of its thread.
GoesIn(s, G, d) ==
    LET n == Len(s.C)   th == s.C[n].th   q == s.L[th].ci
    IN  /\ s.C[n].at = "execute" /\ d \in Nat /\ d >= 2 /\ d <= Len(q) /\ q[d].lua
        /\ G[n].e = 0 => \A i \in 2..(d - 1) : Passes(q[i])
        /\ G[n].b # 0 => G[n].b <= d /\ \A i \in (G[n].b + 1)..d : q[i].lua /\ ~q[i].fresh
InFrame(s, G, d) ==
    LET n == Len(s.C)   k == G[n]
    IN  Append(SubSeq(G, 1, n - 1), [d |-> d, b |-> k.b, c |-> k.c, e |-> k.e, j |-> k.j])
\* Lua code goes on in the frame that is the last now.
LEMMA GoesInto ==
  ASSUME NEW s, NEW G, NEW h, NEW b, Body(s, G, h, b), NEW d, GoesIn(s, G, d)
  PROVE  /\ Body(s, InFrame(s, G, d), h, b)
         /\ InFrame(s, G, d)[Len(s.C)] = [d |-> d, b |-> G[Len(s.C)].b, c |-> G[Len(s.C)].c, e |-> G[Len(s.C)].e, j |-> G[Len(s.C)].j]
<1> DEFINE n == Len(s.C)   z == s.C[n]   k == G[n]   th == z.th   x == s.L[th]   q == x.ci   O == x.open   y == s.C[n - 1]   l == G[n - 1]
           g == [d |-> d, b |-> k.b, c |-> k.c, e |-> k.e, j |-> k.j]   G2 == Append(SubSeq(G, 1, n - 1), g)
<1>0. n = Len(s.C) /\ z = s.C[n] /\ k = G[n] /\ th = z.th /\ x = s.L[th] /\ q = x.ci /\ O = x.open /\ y = s.C[n - 1] /\ l = G[n - 1]
  OBVIOUS
<1>1. /\ n \in Nat /\ n \in 1..n /\ z \in Acts /\ k \in Ghosts /\ Chain(s.C, G, h) /\ State(s) /\ Sound(q, O, z, k) /\ Own(z, k)
      /\ s.C \in Seq(Acts) /\ G \in Seq(Ghosts)
  BY TopFacts, Zenon
<1>2. /\ z.at = "execute" /\ d \in Nat /\ d >= 2 /\ d <= Len(q) /\ q[d].lua
      /\ k.e = 0 => \A i \in 2..(d - 1) : Passes(q[i])
      /\ k.b # 0 => k.b <= d /\ \A i \in (k.b + 1)..d : q[i].lua /\ ~q[i].fresh
  BY Zenon DEF GoesIn
<1> HIDE DEF n, z, k, th, x, q, O, y, l
<1>3. g \in Ghosts /\ g.d = d /\ g.b = k.b /\ g.c = k.c /\ g.e = k.e /\ g.j = k.j
  BY <1>1, <1>2 DEF Ghosts
<1> HIDE DEF g
<1>4. Link(y, l, z, k) /\ k.j = Target(z, n, l.j) /\ n - 1 \in 1..n
  <2>1. n \in 1..Len(s.C) /\ s.C[n].at # "host" BY <1>0, <1>1, <1>2, Zenon
  <2> QED BY <1>0, <1>1, <2>1, Pair
<1>5. Link(y, l, z, g)
  <2>1. LinkThreads(y, z) /\ LinkKinds(y, z) BY <1>4 DEF Link
  <2>2. LinkCounts(l, z, g) BY <1>3, <1>4 DEF Link, LinkCounts
  <2>3. LinkFrames(y, l, z, g)
    <3>1. LinkFrames(y, l, z, k) BY <1>4 DEF Link
    <3>2. z.at = "execute" /\ MayCall(y.at, z.at) BY <1>2, <2>1 DEF LinkKinds
    <3>3. y.at = "ccall" => k.b = l.d + 1 /\ k.b # 0 /\ k.b <= d
      <4>1. y.at = "ccall" => k.b = l.d + 1 BY <3>1, <3>2 DEF LinkFrames
      <4>2. l.d \in Nat
        <5>1. n - 1 \in 1..Len(s.C) BY <1>0, <1>4
        <5>2. l \in Ghosts BY <1>0, <1>1, <5>1, JumpTarget, Zenon
        <5> QED BY <5>2 DEF Ghosts
      <4>3. y.at = "ccall" => k.b # 0 BY <4>1, <4>2
      <4> QED BY <1>2, <4>1, <4>3
    <3>4. y.at # "ccall" => k.b = 0 BY <3>1, <3>2 DEF LinkFrames
    <3> QED BY <1>2, <1>3, <3>2, <3>3, <3>4 DEF LinkFrames, Callers, CoCallers, PlainCallers
  <2> QED BY <2>1, <2>2, <2>3 DEF Link
<1>6. Own(z, g) BY <1>2 DEF Own, IsRawRun
<1>7. Sound(q, O, z, g)
  <2>1. g.b # 0 => g.b \in 2..g.d /\ q[g.b].fresh
    <3>1. k.b # 0 => k.b \in 2..k.d /\ q[k.b].fresh BY <1>1, <1>2 DEF Sound
    <3>2. k.b # 0 => k.b <= d BY <1>2
    <3>3. k.b \in Nat BY <1>1 DEF Ghosts
    <3>4. k.b # 0 => k.b >= 2
      <4>1. k.d \in Nat BY <1>1 DEF Ghosts
      <4> QED BY <3>1, <3>3, <4>1
    <3>5. k.b # 0 => k.b \in 2..d BY <1>2, <3>2, <3>3, <3>4
    <3> QED BY <1>3, <3>1, <3>5
  <2>2. g.d <= Len(q) /\ q[g.d].lua BY <1>2, <1>3
  <2>3. g.e = 0 => \A i \in 2..(g.d - 1) : Passes(q[i]) BY <1>2, <1>3
  <2>4. g.b # 0 => \A i \in (g.b + 1)..g.d : q[i].lua /\ ~q[i].fresh BY <1>2, <1>3
  <2> QED BY <1>2, <2>1, <2>2, <2>3, <2>4 DEF Sound, Floored, Levelled, Callers, CoCallers, PlainCallers
<1>8. Replaces(s, G, z, g)
  <2>1. g.j = Target(z, n, l.j) BY <1>3, <1>4
  <2>2. z.at \notin {"host", "GCTM"} /\ z.at # "lua_closethread" /\ z.at \notin Switches BY <1>2 DEF Switches
  <2> QED BY <1>0, <1>1, <1>3, <1>5, <1>6, <1>7, <2>1, <2>2, Zenon DEF Replaces
<1>9. s.C = Append(SubSeq(s.C, 1, n - 1), z) /\ InC(s, s)
  <2>1. s.C \in Seq(Acts) /\ Len(s.C) >= 1 BY <1>0, <1>1
  <2>2. s.C = Append(SubSeq(s.C, 1, Len(s.C) - 1), s.C[Len(s.C)]) BY <2>1, OneMore
  <2> QED BY <1>0, <1>1, <2>2, Zenon DEF InC
<1> HIDE DEF G2
<1>10. Body(s, G2, h, b) /\ G2[n] = g
  BY <1>0, <1>8, <1>9, BodyReplace DEF G2
<1>11. G2 = InFrame(s, G, d) BY <1>0 DEF G2, g, InFrame
<1> QED BY <1>0, <1>10, <1>11, Zenon DEF g

\* A Lua function is called.
LEMMA CallsLua ==
  ASSUME NEW s, NEW G, NEW h, NEW b, NEW th, LuaRuns(s, G, h, b, th)
  PROVE  LET u == push(s, th, Function) IN Holds(prepCallInfo(u, th, Frame(top(u, th), 0)), h, b)
<1> DEFINE n == Len(s.C)   z == s.C[n]   k == G[n]   x == s.L[th]   q == x.ci   i == Len(q)   j == Len(x.stack)   p == j + 1
           u == push(s, th, Function)   f == Frame(p, 0)   r == Append(q, f)   w == prepCallInfo(u, th, f)
<1>0. n = Len(s.C) /\ z = s.C[n] /\ k = G[n] /\ x = s.L[th] /\ q = x.ci /\ i = Len(q) /\ j = Len(x.stack) /\ p = j + 1 /\ r = Append(q, f)
  OBVIOUS
<1>1. /\ Body(s, G, h, b) /\ th = z.th /\ RunsIn(s, G, th) /\ State(s) /\ th \in Threads /\ z.at = "execute"
  BY LuaFacts
<1> HIDE DEF n, z, k, x, q, i, j, r
<1>2. /\ i \in Nat /\ i > 1 /\ q \in Seq(Frames) /\ j \in Nat /\ k.d = i /\ x.status = "OK" /\ x.nC = k.c /\ x.nny = k.e /\ q[i].lua
      /\ Sound(q, x.open, z, k) /\ Last(q) = q[i]
  BY <1>0, <1>1, Zenon DEF RunsIn
<1>3. p \in Nat BY <1>2 DEF p
<1> HIDE DEF p
<1>4. /\ f \in Frames /\ f.func = p /\ f.lua /\ ~f.fresh /\ ~f.ypcall /\ f.recst = "OK" /\ f.op = "none"
  BY <1>3 DEF Frame, Frames, Ends
<1>5. Turns(s, u, th, x.status, q, p, x.open, x.nC, x.nny)
  BY <1>0, <1>1, Pushed, Zenon
<1> HIDE DEF u, f
<1>6. /\ State(u) /\ u.L[th].status = x.status /\ u.L[th].ci = q /\ Len(u.L[th].stack) = p /\ u.L[th].open = x.open
      /\ u.L[th].nC = x.nC /\ u.L[th].nny = x.nny
  BY <1>5 DEF Turns, InThread
<1>7. r \in Seq(Frames) /\ Len(r) = i + 1 /\ r[i + 1] = f /\ \A l \in 1..i : r[l] = q[l]
  <2>1. q \in Seq(Frames) /\ f \in Frames /\ i = Len(q) /\ r = Append(q, f) BY <1>0, <1>2, <1>4
  <2> QED BY <2>1
<1>8. Turns(u, w, th, x.status, r, p, x.open, x.nC, x.nny)
  <2>1. w = [u EXCEPT !.L[th].ci = r] BY <1>0, <1>6 DEF prepCallInfo
  <2> HIDE DEF w
  <2> QED BY <1>1, <1>6, <1>7, <2>1, Framed
<1> HIDE DEF w
<1>9. Turns(s, w, th, x.status, r, p, x.open, x.nC, x.nny)
  BY <1>5, <1>8, TurnsAgain
<1>10. /\ w.L[th].status = x.status /\ w.L[th].ci = r /\ Len(w.L[th].stack) = p /\ w.L[th].open = x.open
       /\ w.L[th].nC = x.nC /\ w.L[th].nny = x.nny /\ InThread(s, w, th) /\ w.C = s.C
  BY <1>9 DEF Turns, InThread
<1>11. Body(w, G, h, b)
  <2>1. p <= p BY <1>3
  <2>2. Adds(s, w, f, p) BY <1>0, <1>1, <1>3, <1>4, <1>10, <2>1, Zenon DEF Adds
  <2> QED BY <2>2, AddFrame
<1>12. GoesIn(w, G, i + 1)
  <2>1. i + 1 \in Nat /\ i + 1 >= 2 /\ i + 1 <= Len(r) /\ r[i + 1].lua BY <1>2, <1>4, <1>7
  <2>2. k.e = 0 => \A l \in 2..((i + 1) - 1) : Passes(r[l])
    <3> SUFFICES ASSUME k.e = 0, NEW l \in 2..i PROVE Passes(q[l])
      BY <1>2, <1>7
    <3>1. CASE l = i BY <1>2, <3>1 DEF Passes
    <3>2. CASE l # i
      <4>1. l \in 2..(k.d - 1) BY <1>2, <3>2
      <4> QED BY <1>2, <4>1 DEF Sound
    <3> QED BY <3>1, <3>2
  <2>3. k.b # 0 => k.b <= i + 1 /\ \A l \in (k.b + 1)..(i + 1) : r[l].lua /\ ~r[l].fresh
    <3> SUFFICES ASSUME k.b # 0 PROVE k.b <= i + 1 /\ \A l \in (k.b + 1)..(i + 1) : r[l].lua /\ ~r[l].fresh
      OBVIOUS
    <3>1. k.b \in 2..i /\ \A l \in (k.b + 1)..i : q[l].lua /\ ~q[l].fresh BY <1>1, <1>2 DEF Sound
    <3>2. \A l \in (k.b + 1)..(i + 1) : l = i + 1 \/ (l \in (k.b + 1)..i /\ l \in 1..i) BY <1>2, <3>1
    <3> QED BY <1>2, <1>4, <1>7, <3>1, <3>2
  <2>4. w.C[Len(w.C)] = z /\ z.th = th /\ w.L[th].ci = r /\ G[Len(w.C)] = k BY <1>0, <1>1, <1>10, Zenon
  <2> QED BY <1>1, <2>1, <2>2, <2>3, <2>4 DEF GoesIn
<1> DEFINE G2 == InFrame(w, G, i + 1)
<1>13. /\ Body(w, G2, h, b)
       /\ G2[Len(w.C)] = [d |-> i + 1, b |-> G[Len(w.C)].b, c |-> G[Len(w.C)].c, e |-> G[Len(w.C)].e, j |-> G[Len(w.C)].j]
  BY <1>11, <1>12, GoesInto
<1> HIDE DEF G2
<1>14. G2[n].d = i + 1 /\ G2[n].c = k.c /\ G2[n].e = k.e
  BY <1>0, <1>10, <1>13
<1>15. Settled(w.L[th], z, G2[n])
  BY <1>1, <1>2, <1>7, <1>10, <1>14 DEF Settled, IsRawRun
<1>16. Holds(w, h, b)
  BY <1>0, <1>1, <1>10, <1>13, <1>15, GoesOn, Zenon DEF CoCallers
<1> QED BY <1>0, <1>6, <1>16 DEF w, f, u, top

\* A C function's frame may change before it runs on.
LEMMA CallsCTurn ==
  ASSUME NEW s, NEW u, NEW a, NEW f, NEW m, CallsC(s, u, a, f, m), NEW th, th = s.C[Len(s.C)].th,
         NEW w, NEW f2 \in Frames, NEW m2 \in Nat,
         Turns(u, w, th, s.L[th].status, Append(s.L[th].ci, f2), m2, s.L[th].open, s.L[th].nC, s.L[th].nny),
         f2.func = f.func, f.func <= m2, ~f2.lua, ~f2.ypcall, f2.recst = "OK", f2.op = "none", f2.tbc => a.at = "C_function"
  PROVE  CallsC(s, w, a, f2, m2)
<1> QED BY Zenon DEF CallsC, Turns, InThread

\* What it pushes and what it does to the history.
LEMMA CallsCPush ==
  ASSUME NEW s, NEW u, NEW a, NEW f, NEW m, CallsC(s, u, a, f, m), NEW th, th = s.C[Len(s.C)].th, th \in Threads
  PROVE  /\ \A v : CallsC(s, push(u, th, v), a, f, m + 1)
         /\ \A w : Same(u, w) => CallsC(s, w, a, f, m)
<1>1. /\ State(u) /\ m \in Nat /\ f \in Frames /\ f.func <= m /\ f.func \in Nat
      /\ u.L[th].status = s.L[th].status /\ u.L[th].ci = Append(s.L[th].ci, f) /\ Len(u.L[th].stack) = m
      /\ u.L[th].open = s.L[th].open /\ u.L[th].nC = s.L[th].nC /\ u.L[th].nny = s.L[th].nny
      /\ ~f.lua /\ ~f.ypcall /\ f.recst = "OK" /\ f.op = "none" /\ (f.tbc => a.at = "C_function")
  BY Zenon DEF CallsC, Frames
<1>2. ASSUME NEW v PROVE CallsC(s, push(u, th, v), a, f, m + 1)
  <2>1. Turns(u, push(u, th, v), th, s.L[th].status, Append(s.L[th].ci, f), m + 1, s.L[th].open, s.L[th].nC, s.L[th].nny)
    BY <1>1, Pushed, Zenon
  <2> DEFINE e == f.func
  <2>2. m + 1 \in Nat /\ e <= m + 1
    <3>1. e \in Nat /\ m \in Nat /\ e <= m BY <1>1, Zenon
    <3> HIDE DEF e
    <3> QED BY <3>1
  <2> QED BY <1>1, <2>1, <2>2, CallsCTurn, Zenon
<1>3. ASSUME NEW w, Same(u, w) PROVE CallsC(s, w, a, f, m)
  <2>1. Turns(u, w, th, s.L[th].status, Append(s.L[th].ci, f), m, s.L[th].open, s.L[th].nC, s.L[th].nny)
    BY <1>1, <1>3, Stays, Zenon
  <2> QED BY <1>1, <2>1, CallsCTurn, Zenon
<1> QED BY <1>2, <1>3

\* It is called.
LEMMA CallsPlain ==
  ASSUME NEW s, NEW G, NEW h, NEW b, NEW th, LuaRuns(s, G, h, b, th), NEW at \in PlainCallers
  PROVE  LET p == Len(s.L[th].stack) + 1 IN CallsC(s, precallC(s, th, at), Activation(at, th), CFrame(p), p)
<1> DEFINE x == s.L[th]   q == x.ci   p == Len(x.stack) + 1   u == push(s, th, Function)   f == CFrame(p)   r == Append(q, f)
           w == prepCallInfo(u, th, f)   a == Activation(at, th)   y == PushC(w, a)
<1>0. x = s.L[th] /\ q = x.ci /\ r = Append(q, f) /\ p = Len(x.stack) + 1
  OBVIOUS
<1>1. /\ th = s.C[Len(s.C)].th /\ RunsIn(s, G, th) /\ State(s) /\ th \in Threads
  BY LuaFacts
<1>2. Len(x.stack) \in Nat /\ q \in Seq(Frames) BY <1>1, Zenon DEF RunsIn
<1>3. p \in Nat /\ p <= p BY <1>2
<1> HIDE DEF p, x, q, r
<1>4. /\ f \in Frames /\ f.func = p /\ ~f.lua /\ ~f.ypcall /\ f.recst = "OK" /\ f.op = "none" /\ ~f.tbc
  BY <1>3 DEF CFrame, Frame, Frames, Ends
<1>5. Turns(s, u, th, x.status, q, p, x.open, x.nC, x.nny)
  BY <1>0, <1>1, Pushed, Zenon
<1> HIDE DEF u, f
<1>6. /\ State(u) /\ u.L[th].status = x.status /\ u.L[th].ci = q /\ Len(u.L[th].stack) = p /\ u.L[th].open = x.open
      /\ u.L[th].nC = x.nC /\ u.L[th].nny = x.nny
  BY <1>5 DEF Turns, InThread
<1>7. r \in Seq(Frames) BY <1>0, <1>2, <1>4
<1>8. Turns(u, w, th, x.status, r, p, x.open, x.nC, x.nny)
  <2>1. w = [u EXCEPT !.L[th].ci = r] BY <1>0, <1>6 DEF prepCallInfo
  <2> HIDE DEF w
  <2> QED BY <1>1, <1>6, <1>7, <2>1, Framed, Zenon
<1> HIDE DEF w
<1>9. Turns(s, w, th, x.status, r, p, x.open, x.nC, x.nny)
  BY <1>5, <1>8, TurnsAgain
<1>10. /\ State(y) /\ y.C = Append(s.C, a) /\ y.L = w.L /\ y.gcstp = s.gcstp /\ \A t \in Threads : t # th => y.L[t] = s.L[t]
  <2>1. State(w) /\ w.C = s.C /\ w.gcstp = s.gcstp /\ \A t \in Threads : t # th => w.L[t] = s.L[t] BY <1>9 DEF Turns, InThread
  <2> HIDE DEF a
  <2>2. y = [w EXCEPT !.C = Append(w.C, a)] BY DEF PushC
  <2> HIDE DEF y
  <2> QED BY <2>1, <2>2 DEF State, StateFields
<1>11. a \in Acts /\ a.at = at /\ a.th = th
  BY <1>1 DEF Acts, PlainActs, Activation
<1> HIDE DEF a, y
<1>12. CallsC(s, y, a, f, p)
  <2>1. /\ y.L[th].status = x.status /\ y.L[th].ci = r /\ Len(y.L[th].stack) = p /\ y.L[th].open = x.open
        /\ y.L[th].nC = x.nC /\ y.L[th].nny = x.nny
    BY <1>9, <1>10 DEF Turns
  <2> QED BY <1>0, <1>1, <1>3, <1>4, <1>10, <1>11, <2>1, Zenon DEF CallsC, Callers
<1>13. y = precallC(s, th, at)
  <2>1. top(u, th) = p BY <1>6 DEF top
  <2> QED BY <2>1 DEF y, a, w, u, f, precallC
<1> QED BY <1>0, <1>12, <1>13 DEF a, f

\* The C function runs with room above what it has pushed.
LEMMA CalledWithRoom ==
  ASSUME NEW s, NEW G, NEW h, NEW b, NEW th, LuaRuns(s, G, h, b, th),
         NEW u, NEW a, NEW f, NEW m, CallsC(s, u, a, f, m), m > f.func
  PROVE  \E G2 : /\ Poised(u, G2, h, b, m) /\ Calm(u, G2) /\ u.C[Len(u.C)] = a
                 /\ G2[Len(u.C)].d = Len(u.L[th].ci) /\ u.L[th].ci[Len(u.L[th].ci)] = f
<1>1. /\ Body(s, G, h, b) /\ Calm(s, G) /\ th = s.C[Len(s.C)].th /\ RunsIn(s, G, th) /\ s.C[Len(s.C)].at = "execute" /\ th \in Threads
      /\ Settled(s.L[s.C[Len(s.C)].th], s.C[Len(s.C)], G[Len(s.C)])
  BY LuaFacts DEF LuaRuns
<1>2. PICK G2 : Body(u, G2, h, b) /\ Calm(u, G2) /\ u.C[Len(u.C)] = a
  BY <1>1, CalledC, Zenon
<1>3. /\ u.L[th].ci = Append(s.L[th].ci, f) /\ Len(u.L[th].stack) = m /\ u.L[th].open = s.L[th].open /\ a.th = th
      /\ f \in Frames /\ f.func = Len(s.L[th].stack) + 1 /\ m \in Nat /\ ~f.ypcall
  BY <1>1, Zenon DEF CallsC
<1>4. RunsIn(u, G2, th) BY <1>2, <1>3, TopFrame
<1>5. G2[Len(u.C)].d = Len(u.L[th].ci) BY <1>4, Zenon DEF RunsIn
<1>6. u.L[th].ci[Len(u.L[th].ci)] = f
  <2>1. s.L[th].ci \in Seq(Frames) BY <1>1, Zenon DEF RunsIn
  <2> QED BY <1>3, <2>1
<1>7. Above(u, m)
  <2>1. Len(s.L[th].stack) \in Nat /\ s.L[th].open \subseteq 2..Len(s.L[th].stack) BY <1>1, Zenon DEF RunsIn
  <2> DEFINE j == Len(s.L[th].stack)   O == s.L[th].open   e == f.func
  <2>2. j \in Nat /\ O \subseteq 2..j /\ e = j + 1 /\ m > e /\ m \in Nat BY <1>3, <2>1
  <2> HIDE DEF j, O, e
  <2>3. \A o \in O : o < m BY <2>2
  <2>4. m <= m BY <2>2
  <2>5. u.L[th].open = O /\ m > f.func BY <1>3, <2>2 DEF O, e
  <2> QED BY <1>2, <1>3, <1>6, <2>3, <2>4, <2>5 DEF Above
<1>8. Poised(u, G2, h, b, m) BY <1>2, <1>7, Topmost
<1> QED BY <1>2, <1>5, <1>6, <1>8

\* The function that runs sets its frame.
Sets(s, w, f, n, O) ==
    LET z == s.C[Len(s.C)]   th == z.th   x == s.L[th]   q == x.ci   e == q[Len(q)]
    IN  /\ Turns(s, w, th, x.status, Append(Front(q), f), n, O, x.nC, x.nny)
        /\ f \in Frames /\ f.func = e.func /\ f.lua = e.lua /\ f.fresh = e.fresh /\ f.tbc = e.tbc /\ f.recst = "OK"
        /\ Passes(e) => Passes(f)
        /\ O \subseteq x.open /\ n \in Nat /\ O \subseteq 2..n /\ f.func <= n
        /\ f.op = "OP_CLOSE" => f.lua /\ f.level > f.func /\ \A o \in O : o < f.level
        /\ f.ypcall => /\ z.at = "luaB_pcall" /\ f.k /\ f.funcidx > f.func
                       /\ \A l \in 2..(Len(q) - 1) : Passes(q[l])
\* The function at p can still be called.
LEMMA SetsFrame ==
  ASSUME NEW s, NEW G, NEW h, NEW b, Body(s, G, h, b), Calm(s, G), NEW th, th = s.C[Len(s.C)].th,
         NEW w, NEW f, NEW n, NEW O, Sets(s, w, f, n, O)
  PROVE  Body(w, G, h, b) /\ Calm(w, G) /\ w.C = s.C
<1> DEFINE m == Len(s.C)   z == s.C[m]   k == G[m]   x == s.L[th]   q == x.ci   i == Len(q)   e == q[i]   r == Append(Front(q), f)
<1>0. m = Len(s.C) /\ z = s.C[m] /\ k = G[m] /\ x = s.L[th] /\ q = x.ci /\ i = Len(q) /\ e = q[i] /\ r = Append(Front(q), f)
  OBVIOUS
<1>1. /\ Turns(s, w, th, x.status, r, n, O, x.nC, x.nny)
      /\ f \in Frames /\ f.func = e.func /\ f.lua = e.lua /\ f.fresh = e.fresh /\ f.tbc = e.tbc /\ f.recst = "OK"
      /\ Passes(e) => Passes(f)
      /\ O \subseteq x.open /\ n \in Nat /\ O \subseteq 2..n /\ f.func <= n
      /\ f.op = "OP_CLOSE" => f.lua /\ f.level > f.func /\ \A o \in O : o < f.level
      /\ f.ypcall => /\ z.at = "luaB_pcall" /\ f.k /\ f.funcidx > f.func
                     /\ \A l \in 2..(i - 1) : Passes(q[l])
  BY Zenon DEF Sets
<1>2. RunsIn(s, G, th) BY TopFrame
<1>3. Settled(x, z, k) /\ z.at \in {"execute"} \union Callers /\ th = z.th
  BY Zenon DEF Calm
<1>4. m \in Nat /\ m \in 1..m BY TopFacts, Zenon
<1> HIDE DEF m, z, k, x, q, i, e, r
<1>5. /\ i \in Nat /\ i > 1 /\ q \in Seq(Frames) /\ e \in Frames /\ k.d = i /\ x.status = "OK"
      /\ Stacked(q, Len(x.stack), x.open) /\ e.recst = "OK" /\ th \in Threads
      /\ z.at \in Callers => ~e.lua /\ \A o \in x.open : o < e.func
      /\ z.at = "execute" => e.lua
  BY <1>0, <1>2, <1>3, Zenon DEF RunsIn
<1>6. /\ r \in Seq(Frames) /\ Len(r) = i /\ r[i] = f /\ \A l \in 1..(i - 1) : r[l] = q[l]
  <2>1. i = Len(q) /\ i \in Nat /\ i > 1 /\ q \in Seq(Frames) /\ f \in Frames /\ r = Append(Front(q), f) BY <1>0, <1>1, <1>5, Zenon
  <2>2. Len(q) >= 1 BY <2>1
  <2> QED BY <2>1, <2>2, FrameSet
<1>7. Stacked(r, n, O)
  <2>1. ~f.lua => \A o \in O : ~(o >= f.func)
    <3> SUFFICES ASSUME ~f.lua, NEW o \in O PROVE ~(o >= f.func) OBVIOUS
    <3>1. o < e.func BY <1>1, <1>3, <1>5
    <3> DEFINE d == e.func
    <3>2. d \in Nat /\ o \in Nat /\ o < d /\ f.func = d BY <1>1, <1>5, <3>1 DEF Frames
    <3> HIDE DEF d
    <3> QED BY <3>2
  <2>2. f.ypcall => i > 1 /\ ~f.lua /\ f.k /\ f.funcidx > f.func /\ \A l \in 2..(i - 1) : Passes(q[l])
    BY <1>1, <1>5 DEF Callers, PlainCallers
  <2>3. /\ Len(r) = Len(q) /\ r[Len(q)] = f /\ (\A l \in 1..(Len(q) - 1) : r[l] = q[l])
        /\ f.func = q[Len(q)].func /\ f.lua = q[Len(q)].lua /\ f.fresh = q[Len(q)].fresh
        /\ f.ypcall => Len(q) > 1 /\ ~f.lua /\ f.k /\ f.funcidx > f.func /\ \A l \in 2..(Len(q) - 1) : Passes(q[l])
    BY <1>0, <1>1, <1>6, <2>2, Zenon
  <2>4. f.op = "OP_CLOSE" => f.lua /\ f.level > f.func /\ \A o \in O : o < f.level BY <1>1
  <2>5. f.recst = "OK" /\ f.func <= n /\ O \in SUBSET x.open /\ O \subseteq 2..n BY <1>1
  <2> QED BY <1>1, <1>5, <1>6, <2>1, <2>3, <2>4, <2>5, StackSet, Zenon
<1>8. ASSUME NEW l \in 1..m, s.C[l].th = th, Live(s.C, l, m), G[l] \in Ghosts, Sound(q, x.open, s.C[l], G[l])
      PROVE  Sound(r, O, s.C[l], G[l])
  <2>1. \/ ~f.ypcall
        \/ G[l].d < Len(q) \/ s.C[l].at = "luaB_pcall"
    <3>1. l = m \/ l \in 1..(m - 1) BY <1>4
    <3>2. l \in 1..(m - 1) => G[l].d < k.d /\ G[l].d \in Nat BY <1>0, <1>3, <1>8, BelowTop, Zenon
    <3>3. l = m => ~f.ypcall \/ s.C[l].at = "luaB_pcall" BY <1>0, <1>1, Zenon
    <3> QED BY <1>0, <1>5, <3>1, <3>2, <3>3, Zenon
  <2>2. /\ Len(r) = Len(q) /\ r[Len(q)] = f /\ (\A v \in 1..(Len(q) - 1) : r[v] = q[v])
        /\ f.func = q[Len(q)].func /\ f.lua = q[Len(q)].lua /\ f.fresh = q[Len(q)].fresh /\ f.tbc = q[Len(q)].tbc
        /\ Passes(q[Len(q)]) => Passes(f)
    BY <1>0, <1>1, <1>6, Zenon
  <2>3. f.recst = "OK" /\ O \in SUBSET x.open BY <1>1
  <2> QED BY <1>1, <1>5, <1>6, <1>8, <2>1, <2>2, <2>3, SoundSet
<1>9. InThread(s, w, th) /\ w.L[th].status = "OK" /\ w.L[th].ci = r /\ Len(w.L[th].stack) = n /\ w.L[th].open = O
      /\ w.L[th].nC = x.nC /\ w.L[th].nny = x.nny
  BY <1>1, <1>5, Zenon DEF Turns
<1>10. Reframes(s, G, w)
  BY <1>0, <1>3, <1>7, <1>8, <1>9, Zenon DEF Reframes
<1>11. Body(w, G, h, b) BY <1>10, BodyFrames
<1>12. w.C = s.C BY <1>9, Zenon DEF InThread
<1>13. Settled(w.L[th], z, k)
  BY <1>0, <1>3, <1>5, <1>6, <1>9, Zenon DEF Settled, Callers, PlainCallers, CoCallers, IsRawRun
<1> QED BY <1>0, <1>3, <1>11, <1>12, <1>13, Zenon DEF Calm

\* What runs protects what it calls at p.
LEMMA Protects ==
  ASSUME NEW s, NEW G, NEW h, NEW b, NEW p, Poised(s, G, h, b, p), NEW th, th = s.C[Len(s.C)].th,
         s.C[Len(s.C)].at \in {"host", "luaB_pcall", "GCTM"}
  PROVE  LET a == RawRun("luaD_pcall", s, th, p)   u == PushC(s, a)
         IN  /\ \E G2 : Poised(u, G2, h, b, p)
             /\ u.C[Len(u.C)] = a /\ u.L = s.L
<1> DEFINE n == Len(s.C)   z == s.C[n]   x == s.L[th]   q == x.ci   k == G[n]   O == x.open
           a == RawRun("luaD_pcall", s, th, p)   u == PushC(s, a)   m == Len(x.stack)
           g == [d |-> k.d, b |-> 0, c |-> k.c, e |-> k.e, j |-> n + 1]
<1>0. n = Len(s.C) /\ th = z.th /\ x = s.L[th] /\ k = G[n] /\ z = s.C[n] /\ q = x.ci /\ m = Len(x.stack) /\ O = x.open
  OBVIOUS
<1>1. /\ Body(s, G, h, b) /\ Settled(x, z, k) /\ Room(s.C, G, q, O, p) /\ p <= m
  BY Zenon DEF Poised
<1>2. /\ th \in Threads /\ n \in Nat /\ n >= 1 /\ n \in 1..n /\ Len(G) = n /\ m \in Nat /\ q \in Seq(Frames) /\ Len(q) \in Nat
      /\ s.C \in Seq(Acts) /\ G \in Seq(Ghosts) /\ z \in Acts /\ k \in Ghosts /\ State(s) /\ IsThread(x)
      /\ Sound(q, O, z, k) /\ Own(z, k)
  BY <1>1, TopFacts, Zenon
<1>3. z.at \in {"host", "luaB_pcall", "GCTM"}
  OBVIOUS
<1> HIDE DEF n, z, x, q, k, m, O
<1>4. /\ k.d \in Nat \ {0} /\ k.c \in Int /\ k.e \in Nat /\ k.j \in Nat /\ k.d = Len(q)
      /\ x.status = "OK" /\ x.nC = k.c /\ x.nny = k.e /\ x.errfunc \in Nat /\ p \in Nat
  <2>1. k.d \in Nat \ {0} /\ k.c \in Int /\ k.e \in Nat /\ k.j \in Nat BY <1>2 DEF Ghosts
  <2>2. k.d = Len(q) /\ x.status = "OK" /\ x.nC = k.c /\ x.nny = k.e BY <1>0, <1>1, <1>3, Zenon DEF Settled
  <2>3. x.errfunc \in Nat BY <1>2 DEF IsThread
  <2>4. p \in Nat BY <1>1 DEF Room
  <2> QED BY <2>1, <2>2, <2>3, <2>4
<1>5. /\ a.at = "luaD_pcall" /\ a.th = th /\ a.status = "OK" /\ a.nC = k.c /\ a.nny = k.e /\ a.old_ci = k.d /\ a.level = p /\ a \in Acts
  <2>1. a = [at |-> "luaD_pcall", th |-> th, status |-> "OK", nC |-> k.c, nny |-> k.e, old_ci |-> k.d, level |-> p,
             errfunc |-> x.errfunc, closing |-> "OK"]
    BY <1>0, <1>4 DEF RawRun
  <2>2. k.e \in Int /\ k.d \in Nat BY <1>4
  <2>3. [at |-> "luaD_pcall", th |-> th, status |-> "OK", nC |-> k.c, nny |-> k.e, old_ci |-> k.d, level |-> p,
             errfunc |-> x.errfunc, closing |-> "OK"] \in RawActs
    BY <1>2, <1>4, <2>2 DEF RawActs, Statuses, Ends
  <2>4. a \in Acts BY <2>1, <2>3 DEF Acts
  <2> QED BY <2>1, <2>4
<1>6. g \in Ghosts /\ g.d = k.d /\ g.b = 0 /\ g.c = k.c /\ g.e = k.e /\ g.j = n + 1
  BY <1>2, <1>4 DEF Ghosts
<1>7. u.L = s.L /\ u.gcstp = s.gcstp /\ State(u) /\ u.C = Append(s.C, a)
  <2> HIDE DEF a
  <2> QED BY <1>2 DEF PushC, State, StateFields
<1> HIDE DEF a, g, u
<1>8. Calls(s.C, G, a, g)
  <2>1. LinkThreads(z, a) BY <1>0, <1>5 DEF LinkThreads, Switches
  <2>2. LinkKinds(z, a) BY <1>3, <1>5 DEF LinkKinds, MayCall, IsRawRun
  <2>3. LinkCounts(k, a, g) BY <1>4, <1>5, <1>6 DEF LinkCounts, Switches
  <2>4. LinkFrames(z, k, a, g) BY <1>3, <1>5, <1>6 DEF LinkFrames, Switches, Callers, CoCallers, PlainCallers
  <2>5. Own(a, g) /\ g.j = Target(a, n + 1, k.j) /\ a.at \notin Switches
    BY <1>5, <1>6 DEF Own, Target, IsRawRun, Switches
  <2>6. Link(z, k, a, g) BY <2>1, <2>2, <2>3, <2>4 DEF Link
  <2> QED BY <1>0, <1>5, <1>6, <2>5, <2>6 DEF Calls
<1>9. Sound(q, O, a, g)
  <2>1. g.e = 0 => \A i \in 2..(g.d - 1) : Passes(q[i]) BY <1>2, <1>6 DEF Sound
  <2>2. g.d = Len(q) /\ g.d <= Len(q) /\ ~(g.d < Len(q)) BY <1>4, <1>6
  <2>3. a.level >= q[g.d].func /\ (q[g.d].ypcall => a.level >= q[g.d].funcidx)
    <3>1. p > q[Len(q)].func /\ (q[Len(q)].ypcall => p >= q[Len(q)].funcidx) BY <1>1 DEF Room
    <3> DEFINE e == q[Len(q)].func
    <3>2. e \in Nat
      <4>1. Len(q) \in 1..Len(q) BY <1>2, <2>2, <1>4
      <4>2. q[Len(q)] \in Frames BY <1>2, <4>1
      <4> QED BY <4>2 DEF Frames
    <3>3. e < p BY <3>1
    <3> HIDE DEF e
    <3>4. p >= e BY <1>4, <3>2, <3>3
    <3> QED BY <1>5, <2>2, <3>1, <3>4 DEF e
  <2>4. NoneFrom(q, O, g.d, a.level)
    <3> SUFFICES ASSUME NEW o \in O, o >= p PROVE FALSE BY <1>5 DEF NoneFrom
    <3>1. o < p BY <1>1 DEF Room
    <3>2. o \in Nat BY <1>0, <1>2, Zenon DEF IsThread
    <3> QED BY <1>4, <3>1, <3>2
  <2> QED BY <1>5, <2>1, <2>2, <2>3, <2>4 DEF Sound, Floored, Levelled, OpenFrom, Callers, CoCallers, PlainCallers
<1>10. Deeper(s, u, a, g, m, p)
  BY <1>0, <1>4, <1>5, <1>6, <1>7, <1>9 DEF Deeper
<1>11. Poised(u, Append(G, g), h, b, p) /\ u.C[Len(u.C)] = a
  BY <1>1, <1>2, <1>8, <1>10, Deepen
<1> QED BY <1>7, <1>11, Zenon DEF u, a

\* The frame of the C function that is called, which it may set.
LEMMA CallsCFrame ==
  ASSUME NEW s, NEW G, NEW h, NEW b, NEW th, LuaRuns(s, G, h, b, th),
         NEW u, NEW a, NEW f, NEW m, CallsC(s, u, a, f, m), NEW f2 \in Frames,
         f2.func = f.func, ~f2.lua, ~f2.ypcall, f2.recst = "OK", f2.op = "none", f2.tbc => a.at = "C_function"
  PROVE  /\ ci(u, th) = f /\ Front(u.L[th].ci) = s.L[th].ci /\ top(u, th) = m /\ u.L[th].nny = s.L[th].nny
         /\ CallsC(s, setci(u, th, f2), a, f2, m)
<1> DEFINE q == s.L[th].ci   r == Append(q, f)   w == setci(u, th, f2)
<1>1. th = s.C[Len(s.C)].th /\ RunsIn(s, G, th) /\ th \in Threads
  BY LuaFacts
<1>2. q \in Seq(Frames) BY <1>1, Zenon DEF RunsIn
<1>3. /\ State(u) /\ u.L[th].ci = r /\ Len(u.L[th].stack) = m /\ u.L[th].open = s.L[th].open /\ u.L[th].status = s.L[th].status
      /\ u.L[th].nC = s.L[th].nC /\ u.L[th].nny = s.L[th].nny /\ f \in Frames /\ m \in Nat /\ f.func <= m
  BY <1>1, Zenon DEF CallsC
<1> HIDE DEF q
<1>4. Last(r) = f /\ Front(r) = q
  <2>1. r \in Seq(Frames) /\ Len(r) = Len(q) + 1 /\ Len(q) \in Nat BY <1>2, <1>3
  <2>2. Last(r) = f BY <1>2, <1>3, <2>1 DEF Last
  <2>3. Len(r) >= 1 BY <2>1
  <2>4. Front(r) \in Seq(Frames) /\ Len(Front(r)) = Len(r) - 1 /\ \A i \in 1..(Len(r) - 1) : Front(r)[i] = r[i]
    BY <1>3, <2>1, <2>3, FrameSet
  <2>5. \A i \in 1..Len(q) : r[i] = q[i] BY <1>2, <1>3
  <2>6. Len(Front(r)) = Len(q) /\ \A i \in 1..Len(Front(r)) : Front(r)[i] = q[i] BY <2>1, <2>4, <2>5
  <2> QED BY <1>2, <2>2, <2>4, <2>6, SeqEqual
<1>5. ci(u, th) = f /\ Front(u.L[th].ci) = q BY <1>3, <1>4 DEF ci
<1>6. w = [u EXCEPT !.L[th].ci = Append(q, f2)] BY <1>5 DEF setci
<1> HIDE DEF w, r
<1>7. Append(q, f2) \in Seq(Frames) BY <1>2
<1>8. Turns(u, w, th, s.L[th].status, Append(q, f2), m, s.L[th].open, s.L[th].nC, s.L[th].nny)
  BY <1>1, <1>3, <1>6, <1>7, Framed, Zenon
<1>9. CallsC(s, w, a, f2, m)
  BY <1>1, <1>3, <1>8, CallsCTurn, ZenonT(60) DEF q
<1> QED BY <1>3, <1>5, <1>9 DEF q, w, top

\* A C function calls back.
LEMMA CallsBack ==
  ASSUME NEW s, NEW G, NEW h, NEW b, NEW th, LuaRuns(s, G, h, b, th), NEW k
  PROVE  LET u == push(precallC(s, th, "lua_callk"), th, Function)
         IN  Holds(IF k /\ yieldable(u, th) THEN luaD_call(setci(u, th, [ci(u, th) EXCEPT !.k = TRUE]), th, top(u, th))
                   ELSE luaD_callnoyield(u, th, top(u, th)), h, b)
<1> DEFINE p == Len(s.L[th].stack) + 1   v == precallC(s, th, "lua_callk")   u == push(v, th, Function)
           a == Activation("lua_callk", th)   f == CFrame(p)   f2 == [f EXCEPT !.k = TRUE]   w == setci(u, th, f2)   m == p + 1
<1>1. th = s.C[Len(s.C)].th /\ RunsIn(s, G, th) /\ th \in Threads
  BY LuaFacts
<1>2. p \in Nat /\ m \in Nat /\ m > p
  <2>1. Len(s.L[th].stack) \in Nat BY <1>1, Zenon DEF RunsIn
  <2>2. p \in Nat BY <2>1
  <2> HIDE DEF p
  <2> QED BY <2>2
<1>3. CallsC(s, v, a, f, p)
  BY CallsPlain DEF PlainCallers
<1> HIDE DEF p, v
<1>4. CallsC(s, u, a, f, m)
  BY <1>1, <1>3, CallsCPush
<1>5. /\ f2 \in Frames /\ f2.func = p /\ f.func = p /\ ~f2.lua /\ ~f2.ypcall /\ f2.recst = "OK" /\ f2.op = "none" /\ ~f2.tbc /\ f2.k
  BY <1>2 DEF CFrame, Frame, Frames, Ends
<1>6. a.at = "lua_callk" /\ a.th = th
  BY DEF Activation
<1> HIDE DEF u, a, f, f2, m
<1>7. ci(u, th) = f /\ top(u, th) = m /\ CallsC(s, w, a, f2, m)
  BY <1>4, <1>5, CallsCFrame
<1> HIDE DEF w
<1>8. Holds(ccall(u, th, m, 0, 1, 1), h, b)
  <2>1. PICK G2 : Poised(u, G2, h, b, m) /\ u.C[Len(u.C)] = a
    BY <1>2, <1>4, <1>5, CalledWithRoom
  <2>2. CanCall(u, G2, 1, 1) BY <1>6, <2>1 DEF CanCall, MayCall
  <2> QED BY <1>6, <2>1, <2>2, CCall
<1>9. Holds(ccall(w, th, m, 0, 1, 0), h, b)
  <2>1. PICK G2 : /\ Poised(w, G2, h, b, m) /\ w.C[Len(w.C)] = a
                  /\ G2[Len(w.C)].d = Len(w.L[th].ci) /\ w.L[th].ci[Len(w.L[th].ci)] = f2
    BY <1>2, <1>5, <1>7, CalledWithRoom
  <2>2. Passes(w.L[th].ci[G2[Len(w.C)].d]) BY <1>5, <2>1 DEF Passes
  <2>3. CanCall(w, G2, 1, 0) BY <1>6, <2>1, <2>2 DEF CanCall, MayCall
  <2> QED BY <1>6, <2>1, <2>3, CCall
<1>10. top(w, th) = m
  BY <1>1, <1>7, Zenon DEF CallsC, top
<1> DEFINE t == IF k /\ yieldable(u, th) THEN luaD_call(w, th, m) ELSE luaD_callnoyield(u, th, m)
<1>11. Holds(t, h, b) BY <1>8, <1>9 DEF luaD_call, luaD_callnoyield
<1> QED BY <1>7, <1>11 DEF w, f2, u, v

\* A C function with a variable to be closed.
LEMMA DeclaresInC ==
  ASSUME NEW s, NEW G, NEW h, NEW b, NEW th, LuaRuns(s, G, h, b, th), NEW x, NEW e
  PROVE  LET u == [push(precallC(s, th, "C_function"), th, x) EXCEPT !.variables = e]
             v == luaF_newtbcupval(setci(u, th, [ci(u, th) EXCEPT !.tbc = TRUE]), th, top(u, th))
         IN  \A sc : Holds([v EXCEPT !.scopes[th] = sc], h, b)
<1> DEFINE p == Len(s.L[th].stack) + 1   r == precallC(s, th, "C_function")   t == push(r, th, x)   u == [t EXCEPT !.variables = e]
           a == Activation("C_function", th)   f == CFrame(p)   f2 == [f EXCEPT !.tbc = TRUE]   w == setci(u, th, f2)   m == p + 1
           v == luaF_newtbcupval(w, th, m)
<1>1. th = s.C[Len(s.C)].th /\ RunsIn(s, G, th) /\ th \in Threads
  BY LuaFacts
<1>2. p \in Nat /\ m \in Nat /\ m > p
  <2>1. Len(s.L[th].stack) \in Nat BY <1>1 DEF RunsIn
  <2>2. p \in Nat BY <2>1
  <2> HIDE DEF p
  <2> QED BY <2>2
<1>3. CallsC(s, r, a, f, p)
  BY CallsPlain DEF PlainCallers
<1> HIDE DEF p, r
<1>4. CallsC(s, t, a, f, m)
  BY <1>1, <1>3, CallsCPush
<1> HIDE DEF t, m
<1>5. CallsC(s, u, a, f, m)
  <2>1. State(t) BY <1>4, Zenon DEF CallsC
  <2>2. Same(t, u) BY <2>1, History
  <2> HIDE DEF u
  <2> QED BY <1>1, <1>4, <2>2, CallsCPush
<1>6. /\ f2 \in Frames /\ f2.func = p /\ f.func = p /\ ~f2.lua /\ ~f2.ypcall /\ f2.recst = "OK" /\ f2.op = "none" /\ f2.tbc
  BY <1>2 DEF CFrame, Frame, Frames, Ends
<1>7. a.at = "C_function" /\ a.th = th
  BY DEF Activation
<1> HIDE DEF u, a, f, f2
<1>8. ci(u, th) = f /\ top(u, th) = m /\ CallsC(s, w, a, f2, m)
  BY <1>5, <1>6, <1>7, CallsCFrame
<1> HIDE DEF w
<1>9. /\ State(w) /\ w.L[th].status = s.L[th].status /\ w.L[th].ci = Append(s.L[th].ci, f2) /\ Len(w.L[th].stack) = m
      /\ w.L[th].open = s.L[th].open /\ w.L[th].nC = s.L[th].nC /\ w.L[th].nny = s.L[th].nny /\ f2.func <= m
  BY <1>1, <1>8, Zenon DEF CallsC
<1>10. CallsC(s, v, a, f2, m)
  <2> DEFINE y == Append(w.L[th].tbc, m)
  <2>1. y \in Seq(Nat)
    <3>1. w.L[th].tbc \in Seq(Nat) BY <1>1, <1>9, Zenon DEF State, IsThread
    <3> QED BY <1>2, <3>1
  <2>2. v = [w EXCEPT !.L[th].tbc = y] BY DEF luaF_newtbcupval
  <2> HIDE DEF y, v
  <2>3. Turns(w, v, th, w.L[th].status, w.L[th].ci, Len(w.L[th].stack), w.L[th].open, w.L[th].nC, w.L[th].nny)
    BY <1>1, <1>9, <2>1, <2>2, Listed, Zenon
  <2>4. Turns(w, v, th, s.L[th].status, Append(s.L[th].ci, f2), m, s.L[th].open, s.L[th].nC, s.L[th].nny)
    BY <1>9, <2>3
  <2> QED BY <1>1, <1>2, <1>6, <1>7, <1>8, <1>9, <2>4, CallsCTurn, Zenon
<1> HIDE DEF v
<1>11. ASSUME NEW sc PROVE Holds([v EXCEPT !.scopes[th] = sc], h, b)
  <2> DEFINE y == [v EXCEPT !.scopes[th] = sc]
  <2>1. State(v) BY <1>10, Zenon DEF CallsC
  <2>2. Same(v, y) BY <2>1, History
  <2> HIDE DEF y
  <2>3. CallsC(s, y, a, f2, m) BY <1>1, <1>10, <2>2, CallsCPush
  <2>4. PICK G2 : Poised(y, G2, h, b, m) /\ Calm(y, G2) /\ y.C[Len(y.C)] = a
    BY <1>2, <1>6, <2>3, CalledWithRoom
  <2>5. Body(y, G2, h, b) /\ Settled(y.L[a.th], a, G2[Len(y.C)]) BY <2>4 DEF Calm, Poised
  <2>6. Holds(y, h, b) BY <1>7, <2>4, <2>5, GoesOn DEF CoCallers
  <2> QED BY <2>6 DEF y
<1> QED BY <1>8, <1>11 DEF v, w, f2, u, t, r

\* An error is raised.
LEMMA RaisesError ==
  ASSUME NEW s, NEW G, NEW h, NEW b, NEW th, LuaRuns(s, G, h, b, th), NEW v, NEW e
  PROVE  /\ Holds(luaG_errormsg(push([precallC(s, th, "error") EXCEPT !.errors = e], th, v), th), h, b)
         /\ Holds(luaG_errormsg(push(precallC(s, th, "error"), th, v), th), h, b)
<1> DEFINE p == Len(s.L[th].stack) + 1   r == precallC(s, th, "error")   t == [r EXCEPT !.errors = e]
           a == Activation("error", th)   f == CFrame(p)
<1>1. th = s.C[Len(s.C)].th /\ RunsIn(s, G, th) /\ th \in Threads
  BY LuaFacts
<1>2. p \in Nat /\ p + 1 \in Nat /\ p + 1 > p
  <2> DEFINE j == Len(s.L[th].stack)
  <2>1. j \in Nat BY <1>1 DEF RunsIn
  <2>2. p = j + 1 OBVIOUS
  <2> HIDE DEF j, p
  <2> QED BY <2>1, <2>2
<1>3. CallsC(s, r, a, f, p)
  BY CallsPlain DEF PlainCallers
<1> HIDE DEF p, r
<1>4. CallsC(s, t, a, f, p)
  <2>1. State(r) BY <1>3, Zenon DEF CallsC
  <2>2. Same(r, t) BY <2>1, History
  <2> HIDE DEF t
  <2> QED BY <1>1, <1>3, <2>2, CallsCPush
<1>5. f.func = p /\ a.at = "error" /\ a.th = th
  BY DEF CFrame, Frame, Activation
<1> HIDE DEF t, a, f
<1>6. ASSUME NEW w, CallsC(s, w, a, f, p) PROVE Holds(luaG_errormsg(push(w, th, v), th), h, b)
  <2> DEFINE y == push(w, th, v)   m == p + 1
  <2>1. CallsC(s, y, a, f, m) BY <1>1, <1>6, CallsCPush
  <2>2. m \in Nat /\ m > f.func BY <1>2, <1>5
  <2> HIDE DEF y, m
  <2>3. PICK G2 : Poised(y, G2, h, b, m) /\ y.C[Len(y.C)] = a
    BY <2>1, <2>2, CalledWithRoom
  <2>4. Len(y.L[th].stack) = m BY <1>1, <2>1, Zenon DEF CallsC
  <2>5. Holds(luaG_errormsg(y, th), h, b) BY <1>5, <2>3, <2>4, ErrorMessage
  <2> QED BY <2>5 DEF y
<1> QED BY <1>3, <1>4, <1>6 DEF t, r

\* A coroutine yields, or may not.
LEMMA Yields ==
  ASSUME NEW s, NEW G, NEW h, NEW b, NEW th, LuaRuns(s, G, h, b, th)
  PROVE  Holds(lua_yieldk(precallC(s, th, "yield"), th), h, b)
<1> DEFINE p == Len(s.L[th].stack) + 1   u == precallC(s, th, "yield")
           a == Activation("yield", th)   f == CFrame(p)   w == [u EXCEPT !.L[th].status = "YIELD"]
<1>1. /\ Body(s, G, h, b) /\ s.C[Len(s.C)].at = "execute"
      /\ Settled(s.L[s.C[Len(s.C)].th], s.C[Len(s.C)], G[Len(s.C)])
      /\ th = s.C[Len(s.C)].th /\ RunsIn(s, G, th) /\ th \in Threads
  BY LuaFacts DEF LuaRuns
<1>2. p \in Nat /\ p + 1 \in Nat /\ p + 1 > p
  <2> DEFINE j == Len(s.L[th].stack)
  <2>1. j \in Nat BY <1>1, Zenon DEF RunsIn
  <2>2. p = j + 1 OBVIOUS
  <2> HIDE DEF j, p
  <2> QED BY <2>1, <2>2
<1>3. CallsC(s, u, a, f, p)
  BY CallsPlain DEF PlainCallers
<1> HIDE DEF p, u
<1>4. f.func = p /\ a.at = "yield" /\ a.th = th
  BY DEF CFrame, Frame, Activation
<1> HIDE DEF a, f
<1>5. ASSUME NEW text PROVE Holds(luaG_runerror(u, th, text), h, b)
  <2> DEFINE y == push(u, th, Message(text))   m == p + 1
  <2>1. CallsC(s, y, a, f, m) BY <1>1, <1>3, CallsCPush
  <2>2. m \in Nat /\ m > f.func BY <1>2, <1>4
  <2> HIDE DEF y, m
  <2>3. PICK G2 : Poised(y, G2, h, b, m) /\ y.C[Len(y.C)] = a
    BY <2>1, <2>2, CalledWithRoom
  <2>4. Len(y.L[th].stack) = m BY <1>1, <2>1, Zenon DEF CallsC
  <2>5. Holds(luaG_errormsg(y, th), h, b) BY <1>4, <2>3, <2>4, ErrorMessage
  <2> QED BY <2>5 DEF y, luaG_runerror
<1>6. ASSUME yieldable(u, th) PROVE Holds(luaD_throw(w, th, "YIELD"), h, b)
  <2>1. PICK G2 : Body(u, G2, h, b) /\ Calm(u, G2) /\ u.C[Len(u.C)] = a
    BY <1>1, <1>3, CalledC, Zenon
  <2> DEFINE n == Len(u.C)   x == u.L[th]   q == x.ci   m == Len(q)   k == G2[n]
  <2>2. /\ Stacked(q, Len(x.stack), x.open) /\ Sound(q, x.open, a, k) /\ m \in Nat /\ m > 1 /\ ~q[m].lua /\ k.d = m
        /\ (q[m].ypcall => a.at = "luaB_pcall") /\ x.nny = k.e /\ State(u) /\ x.status = "OK"
    <3>1. RunsIn(u, G2, th) BY <1>4, <2>1, TopFrame
    <3> QED BY <1>4, <2>1, <3>1, Zenon DEF RunsIn, Callers, PlainCallers
  <2>3. k.e = 0 BY <1>6, <2>2 DEF yieldable
  <2>4. n \in Nat /\ n \in 1..n /\ Chain(u.C, G2, h) BY <2>1, TopFacts, Zenon
  <2>5. Turns(u, w, th, "YIELD", q, Len(x.stack), x.open, x.nC, x.nny)
    BY <1>1, <2>2, StatusSet, Zenon DEF Statuses
  <2> HIDE DEF w
  <2>6. w.L[th].status = "YIELD" /\ w.L[th].ci = q /\ Len(w.L[th].stack) = Len(x.stack) /\ w.L[th].open = x.open
        /\ InThread(u, w, th) /\ w.C = u.C
    BY <2>5 DEF Turns, InThread
  <2>7. ThreadInv(w.L[th])
    <3>1. ~q[m].ypcall BY <1>4, <2>2, Zenon
    <3>2. \A i \in 2..(m - 1) : Passes(q[i]) BY <2>2, <2>3, Zenon DEF Sound
    <3> QED BY <2>2, <2>6, <3>1, <3>2, Zenon DEF ThreadInv, Suspended
  <2>8. Body(w, G2, h, b)
    <3>1. th = u.C[Len(u.C)].th BY <1>4, <2>1
    <3>2. \A l \in 1..Len(u.C) : u.C[l].th = th /\ Live(u.C, l, Len(u.C)) /\ Sound(u.L[th].ci, u.L[th].open, u.C[l], G2[l])
                                     => Sound(w.L[th].ci, w.L[th].open, u.C[l], G2[l])
      BY <2>6
    <3> HIDE DEF n, x, q, m, k
    <3> QED BY <1>1, <2>1, <2>6, <2>7, <3>1, <3>2, BodyThread
  <2>9. Throws(w, "YIELD")
    BY <1>4, <2>1, <2>6 DEF Throws
  <2>10. w.C[G2[Len(w.C)].j].at = "lua_resume"
    <3>1. Quiet(u.C, G2, n) BY <2>4, JumpTarget
    <3>2. ~Closing(u.C[n]) BY <1>4, <2>1 DEF Closing
    <3> QED BY <2>3, <2>6, <3>1, <3>2 DEF Quiet
  <2>11. w.C[Len(w.C)].th = th BY <1>4, <2>1, <2>6
  <2> HIDE DEF n, x, q, m, k
  <2> QED BY <2>8, <2>9, <2>10, <2>11, Throw
<1> QED BY <1>5, <1>6 DEF lua_yieldk, w, u

\* The message handler of the running thread changes.
LEMMA PoisedHandled ==
  ASSUME NEW s, NEW G, NEW h, NEW b, NEW p, Poised(s, G, h, b, p), NEW th, th = s.C[Len(s.C)].th, NEW e \in Nat
  PROVE  LET u == [s EXCEPT !.L[th].errfunc = e] IN Poised(u, G, h, b, p) /\ u.C = s.C
<1> DEFINE u == [s EXCEPT !.L[th].errfunc = e]   n == Len(s.L[th].stack)   O == s.L[th].open
<1>1. State(s) /\ th \in Threads /\ n \in Nat /\ p <= n /\ IsThread(s.L[th]) /\ Body(s, G, h, b)
  BY PoisedFacts, Zenon
<1>2. Turns(s, u, th, s.L[th].status, s.L[th].ci, n, O, s.L[th].nC, s.L[th].nny)
  BY <1>1, Handled, Zenon
<1>3. O \subseteq s.L[th].open /\ O \subseteq 2..n
  BY <1>1, TopFacts, Zenon
<1> HIDE DEF u
<1>4. TurnsStack(s, u, th, p, n, O)
  BY <1>1, <1>2, <1>3, Zenon DEF TurnsStack
<1> HIDE DEF n, O
<1>5. Poised(u, G, h, b, p) /\ u.C = s.C
  BY <1>4, PoisedStack, SMTT(40)
<1> QED BY <1>5, Zenon DEF u

\* The call that pcall and xpcall make.
LEMMA ProtectsCall ==
  ASSUME NEW s, NEW G, NEW h, NEW b, NEW th, LuaRuns(s, G, h, b, th), NEW r, NEW m, NEW p,
         CallsC(s, r, Activation("luaB_pcall", th), CFrame(p), m), NEW errfunc \in Nat, p \in Nat
  PROVE  Holds(lua_pcallk(r, th, errfunc, TRUE), h, b)
<1> DEFINE a == Activation("luaB_pcall", th)   f == CFrame(p)   u == push(r, th, Function)   v == BeginCall(u, th)   t == m + 1
           x == u.L[th]
           f2 == [f EXCEPT !.k = TRUE, !.ypcall = TRUE, !.funcidx = t, !.old_errfunc = x.errfunc]
           y == setci(v, th, f2)   w == [y EXCEPT !.L[th].errfunc = errfunc]
           c == PushC(v, RawRun("luaD_pcall", v, th, t))   d == [c EXCEPT !.L[th].errfunc = errfunc]
<1>1. th = s.C[Len(s.C)].th /\ RunsIn(s, G, th) /\ th \in Threads
  BY LuaFacts
<1>2. CallsC(s, r, a, f, m) OBVIOUS
<1>3. f.func = p /\ a.at = "luaB_pcall" /\ a.th = th /\ f \in Frames /\ ~f.lua
  BY DEF CFrame, Frame, Activation, Frames, Ends
<1>4. m \in Nat /\ t \in Nat /\ t > p /\ t # 0
  <2>1. m \in Nat /\ f.func <= m BY <1>2, Zenon DEF CallsC
  <2>2. m \in Nat /\ p <= m BY <1>3, <2>1
  <2> QED BY <2>2
<1>5. CallsC(s, u, a, f, t)
  BY <1>1, <1>2, CallsCPush
<1> HIDE DEF a, f, t, u
<1>6. State(u) /\ x.errfunc \in Nat /\ ci(u, th) = f /\ top(u, th) = t
  <2>1. State(u) BY <1>5, Zenon DEF CallsC
  <2>2. x.errfunc \in Nat BY <1>1, <2>1, Zenon DEF State, IsThread
  <2>3. /\ f.func = f.func /\ ~f.lua /\ ~f.ypcall /\ f.recst = "OK" /\ f.op = "none" /\ ~f.tbc
    BY DEF f, CFrame, Frame
  <2>4. ci(u, th) = f /\ top(u, th) = t BY <1>3, <1>5, <2>3, CallsCFrame
  <2> QED BY <2>1, <2>2, <2>4
<1>7. Same(u, v) BY <1>6, CallHistory
<1> HIDE DEF v
<1>8. CallsC(s, v, a, f, t) /\ v.L = u.L /\ v.C = u.C /\ State(v)
  BY <1>1, <1>5, <1>7, CallsCPush DEF Same, InC
<1>9. PICK G2 : /\ Poised(v, G2, h, b, t) /\ Calm(v, G2) /\ v.C[Len(v.C)] = a
                /\ G2[Len(v.C)].d = Len(v.L[th].ci) /\ v.L[th].ci[Len(v.L[th].ci)] = f
  BY <1>3, <1>4, <1>8, CalledWithRoom
<1>10. Body(v, G2, h, b) /\ th = v.C[Len(v.C)].th BY <1>3, <1>9 DEF Poised
<1>11. /\ v.L[th].ci \in Seq(Frames) /\ Len(v.L[th].ci) \in Nat /\ Len(v.L[th].ci) > 1
       /\ v.L[th].open \subseteq 2..Len(v.L[th].stack) /\ Len(v.L[th].stack) = t
       /\ Sound(v.L[th].ci, v.L[th].open, a, G2[Len(v.C)]) /\ v.L[th].nny = G2[Len(v.C)].e
  <2>1. RunsIn(v, G2, th) BY <1>9, <1>10, TopFrame
  <2>2. Len(v.L[th].stack) = t BY <1>1, <1>8, Zenon DEF CallsC
  <2> QED BY <1>9, <2>1, <2>2 DEF RunsIn
<1>12. ASSUME yieldable(r, th) PROVE Holds(luaD_call(w, th, t), h, b)
  <2>1. v.L[th].nny = 0
    <3>1. r.L[th].nny = s.L[th].nny /\ v.L[th].nny = s.L[th].nny BY <1>1, <1>2, <1>8, Zenon DEF CallsC
    <3> QED BY <1>12, <3>1 DEF yieldable
  <2>2. /\ f2 \in Frames /\ f2.func = f.func /\ f2.lua = f.lua /\ f2.fresh = f.fresh /\ f2.tbc = f.tbc /\ f2.recst = "OK"
        /\ f2.op = "none" /\ f2.k /\ f2.ypcall /\ f2.funcidx = t
    BY <1>3, <1>4, <1>6, Zenon DEF Frames, f, CFrame, Frame
  <2> HIDE DEF f2
  <2> DEFINE q == v.L[th].ci   r2 == Append(Front(q), f2)
  <2>3. r2 \in Seq(Frames)
    <3>1. q \in Seq(Frames) /\ Len(q) >= 1 BY <1>11
    <3> HIDE DEF q
    <3> QED BY <2>2, <3>1, FrameSet
  <2>4. Turns(v, y, th, v.L[th].status, r2, t, v.L[th].open, v.L[th].nC, v.L[th].nny)
    <3>1. y = [v EXCEPT !.L[th].ci = r2] BY DEF setci
    <3> HIDE DEF y, r2, q
    <3> QED BY <1>1, <1>8, <1>11, <2>3, <3>1, Framed, Zenon
  <2> HIDE DEF y
  <2>5. Turns(v, w, th, v.L[th].status, r2, t, v.L[th].open, v.L[th].nC, v.L[th].nny)
    <3>1. /\ State(y) /\ y.L[th].status = v.L[th].status /\ y.L[th].ci = r2 /\ Len(y.L[th].stack) = t /\ y.L[th].open = v.L[th].open
          /\ y.L[th].nC = v.L[th].nC /\ y.L[th].nny = v.L[th].nny
      BY <2>4 DEF Turns, InThread
    <3> HIDE DEF w, r2, q
    <3>2. Turns(y, [y EXCEPT !.L[th].errfunc = errfunc], th, v.L[th].status, r2, t, v.L[th].open, v.L[th].nC, v.L[th].nny)
      BY <1>1, <3>1, Handled, Zenon
    <3>3. Turns(v, [y EXCEPT !.L[th].errfunc = errfunc], th, v.L[th].status, r2, t, v.L[th].open, v.L[th].nC, v.L[th].nny)
      BY <2>4, <3>2, TurnsAgain
    <3> QED BY <3>3 DEF w
  <2> HIDE DEF w
  <2>6. Sets(v, w, f2, t, v.L[th].open)
    <3>1. f.func < t /\ f.func <= t /\ t > f.func BY <1>3, <1>4
    <3>2. \A l \in 2..(Len(q) - 1) : Passes(q[l]) BY <1>9, <1>11, <2>1, Zenon DEF Sound
    <3> QED BY <1>3, <1>4, <1>9, <1>10, <1>11, <2>2, <2>5, <3>1, <3>2 DEF Sets, Passes
  <2>7. Body(w, G2, h, b) /\ Calm(w, G2) /\ w.C = v.C
    BY <1>9, <1>10, <2>6, SetsFrame
  <2>8. w.L[th].ci = r2 /\ Len(w.L[th].stack) = t /\ w.L[th].open = v.L[th].open BY <2>5 DEF Turns
  <2>9. Len(r2) = Len(q) /\ r2[Len(r2)] = f2
    <3>1. q \in Seq(Frames) /\ Len(q) >= 1 BY <1>11
    <3> HIDE DEF q
    <3> QED BY <2>2, <3>1, FrameSet
  <2>10. Above(w, t)
    <3>1. Room(v.C, G2, v.L[th].ci, v.L[th].open, t) BY <1>9, <1>10 DEF Poised
    <3>2. t > f2.func /\ (\A o \in v.L[th].open : o < t) /\ t <= t /\ t >= t BY <1>3, <1>4, <2>2, <3>1 DEF Room
    <3> QED BY <1>4, <1>10, <2>2, <2>7, <2>8, <2>9, <3>2, Zenon DEF Above
  <2>11. Poised(w, G2, h, b, t) BY <2>7, <2>10, Topmost
  <2>12. CanCall(w, G2, 1, 0)
    <3>1. w.L[th].ci[G2[Len(w.C)].d] = f2 BY <1>9, <2>7, <2>8, <2>9, Zenon
    <3> QED BY <1>3, <1>9, <2>2, <2>7, <3>1, Zenon DEF CanCall, MayCall, Passes
  <2>13. Holds(ccall(w, th, t, 0, 1, 0), h, b)
    BY <1>10, <2>7, <2>11, <2>12, CCall
  <2> QED BY <2>13 DEF luaD_call
<1>13. Holds(luaD_callnoyield(d, th, t), h, b)
  <2>1. /\ \E G3 : Poised(c, G3, h, b, t)
        /\ c.C[Len(c.C)] = RawRun("luaD_pcall", v, th, t) /\ c.L = v.L
    BY <1>3, <1>9, <1>10, Protects
  <2>2. PICK G3 : Poised(c, G3, h, b, t) BY <2>1
  <2>3. c.C[Len(c.C)].at = "luaD_pcall" /\ c.C[Len(c.C)].th = th BY <2>1 DEF RawRun
  <2> HIDE DEF c
  <2> HIDE DEF d
  <2>6. Poised(d, G3, h, b, t) /\ d.C = c.C
    <3>1. th = c.C[Len(c.C)].th BY <2>3
    <3> QED BY <2>2, <3>1, PoisedHandled DEF d
  <2>7. CanCall(d, G3, 1, 1) BY <2>3, <2>6 DEF CanCall, MayCall
  <2>8. Holds(ccall(d, th, t, 0, 1, 1), h, b) BY <2>3, <2>6, <2>7, CCall
  <2> QED BY <2>8 DEF luaD_callnoyield
<1>14. ASSUME yieldable(r, th) PROVE yieldable(v, th)
  <2>1. r.L[th].nny = s.L[th].nny /\ v.L[th].nny = s.L[th].nny BY <1>1, <1>2, <1>8 DEF CallsC
  <2> QED BY <1>14, <2>1 DEF yieldable
<1>15. top(v, th) = t BY <1>11 DEF top
<1>16. IF yieldable(r, th) THEN Holds(luaD_call(w, th, t), h, b) ELSE Holds(luaD_callnoyield(d, th, t), h, b)
  BY <1>12, <1>13
<1>17. lua_pcallk(r, th, errfunc, TRUE) = IF yieldable(r, th) THEN luaD_call(w, th, t) ELSE luaD_callnoyield(d, th, t)
  BY <1>6, <1>15 DEF lua_pcallk, w, y, f2, d, c, v, u
<1> QED BY <1>16, <1>17

\* pcall and xpcall.
LEMMA CallsPcall ==
  ASSUME NEW s, NEW G, NEW h, NEW b, NEW th, LuaRuns(s, G, h, b, th)
  PROVE  Holds(luaB_pcall(s, th), h, b) /\ Holds(luaB_xpcall(s, th), h, b)
<1> DEFINE p == Len(s.L[th].stack) + 1   r == precallC(s, th, "luaB_pcall")   v == <<"true", 0>>
           x == push(r, th, Function)   t == top(x, th)   a == Activation("luaB_pcall", th)   f == CFrame(p)
<1>1. th = s.C[Len(s.C)].th /\ RunsIn(s, G, th) /\ th \in Threads
  BY LuaFacts
<1>2. p \in Nat
  <2>1. Len(s.L[th].stack) \in Nat BY <1>1 DEF RunsIn
  <2> QED BY <2>1
<1>3. CallsC(s, r, a, f, p)
  BY CallsPlain DEF PlainCallers
<1> HIDE DEF p, r, v, a, f
<1>4. CallsC(s, push(r, th, v), a, f, p + 1) /\ CallsC(s, x, a, f, p + 1)
  BY <1>1, <1>3, CallsCPush
<1> HIDE DEF x
<1>5. CallsC(s, push(x, th, v), a, f, p + 1 + 1)
  BY <1>1, <1>4, CallsCPush
<1>6. t \in Nat
  <2>1. State(x) BY <1>4, Zenon DEF CallsC
  <2> QED BY <1>1, <2>1 DEF State, IsThread, top
<1>7. Holds(lua_pcallk(push(r, th, v), th, 0, TRUE), h, b)
  <2> DEFINE y == push(r, th, v)   m == p + 1
  <2>1. CallsC(s, y, Activation("luaB_pcall", th), CFrame(p), m) BY <1>4 DEF a, f
  <2> HIDE DEF y, m
  <2>2. 0 \in Nat OBVIOUS
  <2>3. Holds(lua_pcallk(y, th, 0, TRUE), h, b) BY <1>2, <2>1, <2>2, ProtectsCall
  <2> QED BY <2>3 DEF y
<1>8. Holds(lua_pcallk(push(x, th, v), th, t, TRUE), h, b)
  <2> DEFINE y == push(x, th, v)   m == p + 1 + 1
  <2>1. CallsC(s, y, Activation("luaB_pcall", th), CFrame(p), m) BY <1>5 DEF a, f
  <2> HIDE DEF y, m, t
  <2>2. Holds(lua_pcallk(y, th, t, TRUE), h, b) BY <1>2, <1>6, <2>1, ProtectsCall
  <2> QED BY <2>2, Zenon DEF y
<1> QED BY <1>7, <1>8 DEF luaB_pcall, luaB_xpcall, r, v, x

\* Lua code sets its frame.
SetsLua(s, w, th, f, n, O) ==
    LET x == s.L[th]   e == x.ci[Len(x.ci)]
    IN  /\ Turns(s, w, th, x.status, Append(Front(x.ci), f), n, O, x.nC, x.nny)
        /\ f \in Frames /\ f.func = e.func /\ f.lua = e.lua /\ f.fresh = e.fresh /\ f.tbc = e.tbc /\ f.recst = "OK" /\ ~f.ypcall
        /\ n \in Nat /\ O \subseteq x.open /\ O \subseteq 2..n /\ f.func <= n
        /\ f.op = "OP_CLOSE" => f.level > f.func /\ \A o \in O : o < f.level
\* Lua code goes on in the changed frame.
LEMMA SetsOp ==
  ASSUME NEW s, NEW G, NEW h, NEW b, NEW th, LuaRuns(s, G, h, b, th), NEW w, NEW f2, NEW n, NEW O, SetsLua(s, w, th, f2, n, O)
  PROVE  /\ LuaRuns(w, G, h, b, th) /\ w.C = s.C /\ Len(w.L[th].ci) = Len(s.L[th].ci)
         /\ w.L[th].ci[Len(w.L[th].ci)] = f2 /\ w.L[th].open = O /\ Len(w.L[th].stack) = n
<1> DEFINE x == s.L[th]   q == x.ci   m == Len(q)   e == q[m]   r == Append(Front(q), f2)   y == w.L[th]
<1>1. /\ Body(s, G, h, b) /\ Calm(s, G) /\ th = s.C[Len(s.C)].th /\ RunsIn(s, G, th) /\ s.C[Len(s.C)].at = "execute"
  BY LuaFacts
<1>0. /\ Turns(s, w, th, x.status, r, n, O, x.nC, x.nny)
      /\ f2 \in Frames /\ f2.func = e.func /\ f2.lua = e.lua /\ f2.fresh = e.fresh /\ f2.tbc = e.tbc /\ f2.recst = "OK" /\ ~f2.ypcall
      /\ n \in Nat /\ O \subseteq x.open /\ O \subseteq 2..n /\ f2.func <= n
      /\ f2.op = "OP_CLOSE" => f2.level > f2.func /\ \A o \in O : o < f2.level
  BY Zenon DEF SetsLua
<1>2. q \in Seq(Frames) /\ m \in Nat /\ m >= 1 /\ e.lua
  <2>1. m \in Nat /\ m > 1 /\ q \in Seq(Frames) /\ e.lua BY <1>1, Zenon DEF RunsIn
  <2> QED BY <2>1
<1>3. Passes(f2) BY <1>0, <1>2 DEF Passes
<1>4. Sets(s, w, f2, n, O)
  BY <1>0, <1>1, <1>2, <1>3, Zenon DEF Sets
<1>5. Body(w, G, h, b) /\ Calm(w, G) /\ w.C = s.C
  BY <1>1, <1>4, SetsFrame
<1>6. y.ci = r /\ y.open = O /\ Len(y.stack) = n
  BY <1>0, Zenon DEF Turns
<1>7. Len(r) = m /\ r[m] = f2
  <2> HIDE DEF q
  <2> QED BY <1>0, <1>2, FrameSet
<1> QED BY <1>1, <1>5, <1>6, <1>7, Zenon DEF LuaRuns, Calm

\* A block ends.
LEMMA EndsBlock ==
  ASSUME NEW s, NEW G, NEW h, NEW b, NEW th, LuaRuns(s, G, h, b, th), NEW level \in Nat,
         level > s.L[th].ci[Len(s.L[th].ci)].func
  PROVE  LET f == ci(s, th)
         IN  Holds(luaF_close(setci(s, th, [f EXCEPT !.op = "OP_CLOSE", !.level = level]), th, level, "OK", TRUE), h, b)
<1> DEFINE x == s.L[th]   q == x.ci   m == Len(q)   f == q[m]   f2 == [f EXCEPT !.op = "OP_CLOSE", !.level = level]
           r == Append(Front(q), f2)   y == setci(s, th, f2)   w == luaF_closeupval(y, th, level)   O == {o \in x.open : o < level}
           n == Len(x.stack)
<1>1. /\ Body(s, G, h, b) /\ Calm(s, G) /\ th = s.C[Len(s.C)].th /\ RunsIn(s, G, th) /\ s.C[Len(s.C)].at = "execute"
      /\ State(s) /\ th \in Threads
  BY LuaFacts
<1>2. /\ q \in Seq(Frames) /\ m \in Nat /\ m >= 1 /\ f.lua /\ ~f.ypcall /\ f.recst = "OK" /\ f \in Frames /\ f.func <= n
      /\ n \in Nat /\ x.open \subseteq 2..n /\ ci(s, th) = f /\ x.status = "OK"
  <2>1. m \in Nat /\ m > 1 BY <1>1, Zenon DEF RunsIn
  <2>2. m >= 1 BY <2>1
  <2> QED BY <1>1, <2>2, Zenon DEF RunsIn, ci
<1>3. /\ f2 \in Frames /\ f2.func = f.func /\ f2.lua = f.lua /\ f2.fresh = f.fresh /\ f2.tbc = f.tbc /\ f2.recst = "OK"
      /\ ~f2.ypcall /\ f2.op = "OP_CLOSE" /\ f2.level = level
  <2> HIDE DEF q, m, f
  <2> QED BY <1>2 DEF Frames, f2
<1> HIDE DEF f2
<1>4. r \in Seq(Frames)
  <2> HIDE DEF q
  <2> QED BY <1>2, <1>3, FrameSet
<1>5. Turns(s, y, th, x.status, r, n, x.open, x.nC, x.nny)
  <2>1. y = [s EXCEPT !.L[th].ci = r] BY DEF setci
  <2> HIDE DEF y, r
  <2> QED BY <1>1, <1>4, <2>1, Framed, Zenon
<1> HIDE DEF y, r
<1>6. /\ State(y) /\ y.L[th].status = x.status /\ y.L[th].ci = r /\ Len(y.L[th].stack) = n /\ y.L[th].open = x.open
      /\ y.L[th].nC = x.nC /\ y.L[th].nny = x.nny
  BY <1>5 DEF Turns, InThread
<1>7. Turns(s, w, th, x.status, r, n, O, x.nC, x.nny)
  <2>1. Turns(y, w, th, x.status, r, n, O, x.nC, x.nny)
    BY <1>1, <1>6, Closed, Zenon
  <2> HIDE DEF w, O, x, q, m, f, n
  <2> QED BY <1>5, <2>1, TurnsAgain
<1> HIDE DEF w
<1>8. O \subseteq x.open /\ O \subseteq 2..n /\ \A o \in O : o < level
  BY <1>2
<1> DEFINE v == w.L[th]
<1>9. /\ LuaRuns(w, G, h, b, th) /\ w.C = s.C /\ Len(v.ci) = Len(s.L[th].ci) /\ v.ci[Len(v.ci)] = f2 /\ v.open = O
      /\ Len(v.stack) = n
  <2> HIDE DEF O
  <2>1. Turns(s, w, th, s.L[th].status, Append(Front(s.L[th].ci), f2), n, O, s.L[th].nC, s.L[th].nny)
    BY <1>7 DEF r
  <2>2. SetsLua(s, w, th, f2, n, O)
    BY <1>2, <1>3, <1>8, <2>1, Zenon DEF SetsLua
  <2> HIDE DEF n, v
  <2> QED BY <2>2, SetsOp DEF v
<1>10. Body(w, G, h, b) /\ Calm(w, G) /\ th = w.C[Len(w.C)].th /\ w.C[Len(w.C)].at = "execute"
  BY <1>9, LuaFacts, Zenon
<1>11. MayClose(w, G, level, "OK", TRUE)
  <2>1. level >= f2.func
    <3> DEFINE d == f.func
    <3>1. d \in Nat /\ level > d BY <1>2 DEF Frames
    <3> HIDE DEF d
    <3>2. level >= d BY <3>1
    <3> QED BY <1>3, <3>2 DEF d
  <2>2. MayCall("execute", "luaF_close") BY DEF MayCall
  <2>3. Passes(f2) BY <1>2, <1>3 DEF Passes
  <2> HIDE DEF q, x, m, f, n, O
  <2> QED BY <1>3, <1>9, <1>10, <2>1, <2>2, <2>3, Zenon DEF MayClose, Calm, Ends
<1>12. \A o \in w.L[th].open : o < level BY <1>8, <1>9
<1>13. Holds(PushC(w, [at |-> "luaF_close", th |-> th, level |-> level, status |-> "OK", yy |-> TRUE]), h, b)
  BY <1>10, <1>11, <1>12, ClosePushed
<1> QED BY <1>2, <1>13, Zenon DEF w, y, f2, luaF_close

\* Its frame gets another op.
LEMMA SetsOpTo ==
  ASSUME NEW s, NEW G, NEW h, NEW b, NEW th, LuaRuns(s, G, h, b, th), NEW op \in {"none", "OP_RETURN"},
         NEW n \in Nat, s.L[th].ci[Len(s.L[th].ci)].func <= n, s.L[th].open \subseteq 2..n
  PROVE  LET f == ci(s, th)   f2 == [f EXCEPT !.op = op]   y == setci(s, th, f2)
         IN  /\ Len(s.L[th].stack) = n => SetsLua(s, y, th, f2, n, s.L[th].open)
             /\ SetsLua(s, settop(y, th, n), th, f2, n, s.L[th].open)
             /\ ci(s, th) = s.L[th].ci[Len(s.L[th].ci)] /\ State(y)
<1> DEFINE x == s.L[th]   q == x.ci   m == Len(q)   f == q[m]   f2 == [f EXCEPT !.op = op]
           r == Append(Front(q), f2)   y == setci(s, th, f2)   w == settop(y, th, n)   O == x.open
<1>1. /\ RunsIn(s, G, th) /\ State(s) /\ th \in Threads
  BY LuaFacts
<1>2. /\ q \in Seq(Frames) /\ m \in Nat /\ m >= 1 /\ f.lua /\ ~f.ypcall /\ f.recst = "OK" /\ f \in Frames
      /\ ci(s, th) = f
  <2>1. m \in Nat /\ m > 1 BY <1>1, Zenon DEF RunsIn
  <2>2. m >= 1 BY <2>1
  <2>3. th = s.C[Len(s.C)].th /\ s.C[Len(s.C)].at = "execute" BY DEF LuaRuns
  <2> QED BY <1>1, <2>2, <2>3, Zenon DEF RunsIn, ci
<1>3. /\ f2 \in Frames /\ f2.func = f.func /\ f2.lua = f.lua /\ f2.fresh = f.fresh /\ f2.tbc = f.tbc /\ f2.recst = "OK"
      /\ ~f2.ypcall /\ f2.op # "OP_CLOSE"
  <2> HIDE DEF q, m, f
  <2> QED BY <1>2 DEF Frames, f2
<1> HIDE DEF f2
<1>4. r \in Seq(Frames)
  <2> HIDE DEF q
  <2> QED BY <1>2, <1>3, FrameSet
<1>5. Turns(s, y, th, x.status, r, Len(x.stack), O, x.nC, x.nny)
  <2>1. y = [s EXCEPT !.L[th].ci = r] BY DEF setci
  <2> HIDE DEF y, r
  <2> QED BY <1>1, <1>4, <2>1, Framed
<1> HIDE DEF y, r
<1>6. /\ State(y) /\ y.L[th].status = x.status /\ y.L[th].ci = r /\ y.L[th].open = O
      /\ y.L[th].nC = x.nC /\ y.L[th].nny = x.nny
  BY <1>5 DEF Turns, InThread
<1>7. Turns(s, w, th, x.status, r, n, O, x.nC, x.nny)
  <2>1. Turns(y, w, th, x.status, r, n, O, x.nC, x.nny)
    BY <1>1, <1>6, Topped
  <2> HIDE DEF w, O, x, q, m, f
  <2> QED BY <1>5, <2>1, TurnsAgain
<1> HIDE DEF w
<1>8. O \subseteq x.open /\ O \subseteq 2..n /\ f2.func <= n /\ n \in Nat
  BY <1>3
<1>9. Len(x.stack) = n => SetsLua(s, y, th, f2, n, O)
  BY <1>3, <1>5, <1>8, Zenon DEF SetsLua, r
<1>10. SetsLua(s, w, th, f2, n, O)
  BY <1>3, <1>7, <1>8, Zenon DEF SetsLua, r
<1> QED BY <1>2, <1>6, <1>9, <1>10, Zenon DEF w, y, f2

\* Lua code goes on.
LEMMA LuaGoesOn ==
  ASSUME NEW s, NEW G, NEW h, NEW b, NEW th, LuaRuns(s, G, h, b, th)
  PROVE  Holds(s, h, b)
<1> QED BY LuaFacts

\* OP_CLOSE goes on, and when all is closed the block has ended.
LEMMA FinishesBlock ==
  ASSUME NEW s, NEW G, NEW h, NEW b, NEW th, LuaRuns(s, G, h, b, th), s.L[th].ci[Len(s.L[th].ci)].op = "OP_CLOSE"
  PROVE  LET f == ci(s, th)
         IN  /\ Holds(luaF_close(s, th, f.level, "OK", TRUE), h, b)
             /\ Holds(settop(setci(s, th, [f EXCEPT !.op = "none"]), th, f.level - 1), h, b)
<1> DEFINE x == s.L[th]   q == x.ci   m == Len(q)   f == q[m]   p == f.level   n == p - 1   l == f.func   O == x.open
<1>1. /\ Body(s, G, h, b) /\ Calm(s, G) /\ th = s.C[Len(s.C)].th /\ RunsIn(s, G, th) /\ s.C[Len(s.C)].at = "execute"
  BY LuaFacts
<1>2. /\ m \in Nat /\ m > 1 /\ f.lua /\ ~f.ypcall /\ f \in Frames /\ Stacked(q, Len(x.stack), O) /\ O \subseteq 2..Len(x.stack)
      /\ Len(x.stack) # 0
  BY <1>1, Zenon DEF RunsIn
<1>3. m \in 1..m /\ LuaFrame(q, O, m)
  <2>1. m \in 1..m
    <3> HIDE DEF m
    <3> QED BY <1>2
  <2> QED BY <1>2, <2>1, Zenon DEF Stacked, FrameInv
<1>4. p \in Nat /\ l \in Nat /\ p > l /\ (\A o \in O : o < p /\ o \in Nat /\ o >= 2)
  <2>1. p \in Nat /\ l \in Nat BY <1>2, Zenon DEF Frames
  <2>2. p > l /\ NoneFrom(q, O, m, p) BY <1>3, Zenon DEF LuaFrame
  <2>3. ASSUME NEW o \in O PROVE o < p /\ o \in Nat /\ o >= 2
    <3>1. o \in Nat /\ o >= 2 BY <1>2
    <3>2. ~(o >= p)
      <4>1. o >= p => m < Len(q) BY <2>2 DEF NoneFrom
      <4>2. m = Len(q) OBVIOUS
      <4> HIDE DEF m
      <4> QED BY <1>2, <4>1, <4>2
    <3> HIDE DEF p
    <3> QED BY <2>1, <3>1, <3>2
  <2> QED BY <2>1, <2>2, <2>3, Zenon
<1>5. n \in Nat /\ l <= n /\ O \subseteq 2..n /\ p >= l
  <2>1. n = p - 1 OBVIOUS
  <2> HIDE DEF n, p, l, O
  <2> QED BY <1>4, <2>1
<1>6. f = ci(s, th)
  <2>1. f.func <= n /\ x.open \subseteq 2..n BY <1>5, Zenon
  <2> HIDE DEF n
  <2> QED BY <1>5, <2>1, SetsOpTo, ZenonT(60)
<1>7. Holds(luaF_close(s, th, p, "OK", TRUE), h, b)
  <2>1. MayClose(s, G, p, "OK", TRUE)
    <3>1. MayCall("execute", "luaF_close") BY DEF MayCall
    <3>2. Passes(f) BY <1>2 DEF Passes
    <3>3. p >= f.func BY <1>5
    <3> QED BY <1>1, <1>2, <1>4, <3>1, <3>2, <3>3, Zenon DEF MayClose, Calm, Ends
  <2> QED BY <1>1, <1>2, <2>1, CloseBegins, Zenon
<1>8. Holds(settop(setci(s, th, [f EXCEPT !.op = "none"]), th, n), h, b)
  <2> DEFINE f2 == [f EXCEPT !.op = "none"]   w == settop(setci(s, th, f2), th, n)
  <2>1. f.func <= n /\ x.open \subseteq 2..n BY <1>5
  <2>2. SetsLua(s, w, th, f2, n, O)
    <3> HIDE DEF n, w, f2, O
    <3> QED BY <1>5, <1>6, <2>1, SetsOpTo DEF w, f2, O
  <2> HIDE DEF w, f2, n
  <2>3. LuaRuns(w, G, h, b, th) BY <2>2, SetsOp
  <2>4. Holds(w, h, b) BY <2>3, LuaGoesOn
  <2> QED BY <2>4 DEF w, f2
<1> QED BY <1>6, <1>7, <1>8

\* Before a function returns its variables are closed.
LEMMA ReturnCloses ==
  ASSUME NEW s, NEW G, NEW h, NEW b, NEW th, LuaRuns(s, G, h, b, th)
  PROVE  LET f == ci(s, th)
         IN  Holds(luaF_close(setci(s, th, [f EXCEPT !.op = "OP_RETURN"]), th, f.func + 1, "CLOSEKTOP", TRUE), h, b)
<1> DEFINE x == s.L[th]   q == x.ci   f == q[Len(q)]   n == Len(x.stack)   f2 == [f EXCEPT !.op = "OP_RETURN"]
           w == setci(s, th, f2)   y == w.L[th]   p == f.func + 1
<1>1. RunsIn(s, G, th) BY LuaFacts
<1>2. n \in Nat /\ n # 0 /\ f.func <= n /\ x.open \subseteq 2..n /\ f.lua /\ ~f.ypcall /\ f \in Frames
  <2>1. th = s.C[Len(s.C)].th /\ s.C[Len(s.C)].at = "execute" BY DEF LuaRuns
  <2> QED BY <1>1, <2>1, Zenon DEF RunsIn
<1>3. f = ci(s, th) /\ SetsLua(s, w, th, f2, n, x.open)
  <2>1. n = Len(s.L[th].stack) /\ f = s.L[th].ci[Len(s.L[th].ci)] OBVIOUS
  <2>2. s.L[th].ci[Len(s.L[th].ci)].func <= n /\ s.L[th].open \subseteq 2..n BY <1>2
  <2> HIDE DEF n, w, f2, f
  <2>3. f = ci(s, th) BY <1>1, <2>1, Zenon DEF RunsIn, ci
  <2>4. w = setci(s, th, [ci(s, th) EXCEPT !.op = "OP_RETURN"]) /\ f2 = [ci(s, th) EXCEPT !.op = "OP_RETURN"]
    BY <2>3 DEF w, f2
  <2>5. "OP_RETURN" \in {"none", "OP_RETURN"} OBVIOUS
  <2>6. n = Len(s.L[th].stack) => SetsLua(s, w, th, f2, n, s.L[th].open)
    BY <1>2, <2>2, <2>4, <2>5, SetsOpTo
  <2> QED BY <2>1, <2>3, <2>6
<1>4. f2.func = f.func /\ f2.lua /\ ~f2.ypcall
  <2> HIDE DEF f
  <2> QED BY <1>2 DEF Frames
<1> HIDE DEF w, f2
<1>5. /\ LuaRuns(w, G, h, b, th) /\ y.ci[Len(y.ci)] = f2 /\ Len(y.stack) = n
  BY <1>3, SetsOp
<1>6. Body(w, G, h, b) /\ Calm(w, G) /\ th = w.C[Len(w.C)].th /\ w.C[Len(w.C)].at = "execute"
  BY <1>5, LuaFacts
<1>7. p \in Nat /\ p >= f2.func
  <2>1. f2.func \in Nat /\ p = f2.func + 1 BY <1>2, <1>4, Zenon DEF Frames
  <2> HIDE DEF p
  <2> QED BY <2>1
<1>8. MayClose(w, G, p, "CLOSEKTOP", TRUE)
  <2>1. MayCall("execute", "luaF_close") BY DEF MayCall
  <2>2. Passes(f2) BY <1>4 DEF Passes
  <2> HIDE DEF p
  <2> QED BY <1>4, <1>5, <1>6, <1>7, <2>1, <2>2, Zenon DEF MayClose, Calm
<1>9. Holds(luaF_close(w, th, p, "CLOSEKTOP", TRUE), h, b)
  <2> HIDE DEF p
  <2> QED BY <1>2, <1>5, <1>6, <1>8, CloseBegins, Zenon
<1> QED BY <1>3, <1>9 DEF w, f2

-----------------------------------------------------------------------------
(* What returns.                                                            *)

\* The topmost activation is gone.
Pops(s, G, u, G2, h, b) ==
    LET n == Len(s.C)
    IN  /\ n \in Nat /\ n > 1 /\ State(u) /\ u.L = s.L /\ u.gcstp = s.gcstp
        /\ Body(u, G2, h, b) /\ Len(u.C) = n - 1 /\ Len(G2) = n - 1
        /\ \A i \in 1..(n - 1) : i \in 1..n /\ u.C[i] = s.C[i] /\ G2[i] = G[i]
        /\ Link(s.C[n - 1], G[n - 1], s.C[n], G[n]) /\ n - 1 \in 1..n
        /\ s.C[n - 1] \in Acts /\ G[n - 1] \in Ghosts /\ Own(s.C[n - 1], G[n - 1])
        /\ s.C[n - 1].th # s.C[n].th => Settled(u.L[s.C[n - 1].th], s.C[n - 1], G[n - 1])
\* The activation below goes on.
LEMMA PopsTop ==
  ASSUME NEW s, NEW G, NEW h, NEW b, Body(s, G, h, b), s.C[Len(s.C)].at # "host",
         s.C[Len(s.C)].at = "GCTM" => ~s.gcstp,
         s.C[Len(s.C)].at = "lua_closethread" => s.C[Len(s.C)].th # s.C[Len(s.C)].from
  PROVE  Pops(s, G, PopC(s), SubSeq(G, 1, Len(s.C) - 1), h, b)
<1> DEFINE n == Len(s.C)   m == n - 1   u == PopC(s)   G2 == SubSeq(G, 1, m)   z == s.C[n]
<1>1. n \in Nat /\ n \in 1..n /\ Chain(s.C, G, h) /\ State(s) /\ s.C \in Seq(Acts) /\ G \in Seq(Ghosts) /\ Collects(s, b)
  BY TopFacts, Zenon DEF Body
<1>2. /\ m \in 1..n /\ m \in Nat /\ n \in 2..n /\ Link(s.C[m], G[m], z, G[n])
      /\ s.C[m] \in Acts /\ G[m] \in Ghosts
  BY <1>1, Pair
<1>3. n > 1 /\ m < n /\ m + 1 = n /\ \A i \in 1..m : i \in 1..n
  BY <1>1, <1>2
<1>4. Own(s.C[m], G[m]) BY <1>1, <1>2, JumpTarget
<1>5. u = [s EXCEPT !.C = SubSeq(s.C, 1, m)]
  BY DEF PopC, Front
<1> HIDE DEF u
<1>6. State(u) /\ u.L = s.L /\ u.C = SubSeq(s.C, 1, m) /\ u.gcstp = s.gcstp
  <2> HIDE DEF m
  <2> QED BY <1>1, <1>5 DEF State, StateFields
<1>7. \A i \in 1..m : u.C[i] = s.C[i] /\ G2[i] = G[i]
  <2> HIDE DEF m, n
  <2> QED BY <1>1, <1>2, <1>6, Lower DEF n
<1> HIDE DEF G2
<1>8. b /\ u.gcstp => s.gcstp /\ \E i \in 1..m : s.C[i].at = "GCTM"
  <2> SUFFICES ASSUME b, u.gcstp PROVE s.gcstp /\ \E i \in 1..m : s.C[i].at = "GCTM"
    OBVIOUS
  <2>1. s.gcstp BY <1>6
  <2>2. PICK i \in 1..n : s.C[i].at = "GCTM" BY <1>1, <2>1 DEF Collects
  <2>3. i # n BY <2>1, <2>2
  <2>4. i \in 1..m BY <1>1, <2>3
  <2> QED BY <2>1, <2>2, <2>4
<1>9. \A k \in 1..m : \A l \in (m + 1)..n : ~(s.C[l].at = "lua_closethread" /\ s.C[l].th = s.C[k].th)
  <2> SUFFICES ASSUME NEW k \in 1..m, z.at = "lua_closethread", z.th = s.C[k].th PROVE FALSE
    BY <1>1, <1>3
  <2>1. z.th # s.C[m].th
    <3>1. z.from = s.C[m].th BY <1>2 DEF Link, LinkThreads
    <3> QED BY <3>1
  <2>2. \A i \in k..n : s.C[i].th = s.C[k].th
    <3>1. Contiguous(s.C) BY <1>1 DEF Chain
    <3>2. k \in 1..n BY <1>3
    <3> QED BY <1>1, <3>1, <3>2 DEF Contiguous
  <2>3. m \in k..n BY <1>1, <1>2
  <2> QED BY <2>1, <2>2, <2>3
<1>10. /\ Body(u, G2, h, b) /\ Len(u.C) = m /\ Len(G2) = m
       /\ m < n /\ s.C[m].th # s.C[m + 1].th => Ready(u, G2, h, b)
  <2>1. m \in 1..Len(s.C) BY <1>2
  <2> HIDE DEF m
  <2> QED BY <1>6, <1>8, <1>9, <2>1, BodyLower DEF G2, n
<1>11. s.C[m].th # z.th => Settled(u.L[s.C[m].th], s.C[m], G[m])
  <2> SUFFICES ASSUME s.C[m].th # z.th PROVE Settled(u.L[s.C[m].th], s.C[m], G[m])
    OBVIOUS
  <2>1. Ready(u, G2, h, b) BY <1>3, <1>10
  <2>2. Settled(u.L[u.C[m].th], u.C[m], G2[m]) BY <1>10, <2>1 DEF Ready
  <2>3. m \in 1..m BY <1>2
  <2> QED BY <1>7, <2>2, <2>3, Zenon
<1> QED BY <1>1, <1>2, <1>3, <1>4, <1>6, <1>7, <1>10, <1>11, Zenon DEF Pops, u, G2

\* The last frame is dropped, which no activation needs.
Drops(s, G, w, n, O) ==
    LET th == s.C[Len(s.C)].th   x == s.L[th]   q == x.ci   m == Len(q)
    IN  /\ Turns(s, w, th, "OK", Front(q), n, O, x.nC, x.nny)
        /\ m > 1 /\ n \in Nat /\ O \subseteq x.open /\ O \subseteq 2..n /\ q[m - 1].func <= n /\ (\A o \in O : o < q[m].func)
        /\ \A k \in 1..Len(s.C) : s.C[k].th = th /\ Live(s.C, k, Len(s.C)) => G[k].d < m
\* What the activations rely on is not in the frame that is dropped.
LEMMA DropsFrame ==
  ASSUME NEW s, NEW G, NEW h, NEW b, Body(s, G, h, b), NEW w, NEW n, NEW O, Drops(s, G, w, n, O)
  PROVE  Body(w, G, h, b)
<1> DEFINE c == s.C   th == c[Len(c)].th   x == s.L[th]   q == x.ci   m == Len(q)   l == m - 1   r == Front(q)
<1>1. /\ Turns(s, w, th, "OK", r, n, O, x.nC, x.nny)
      /\ m > 1 /\ n \in Nat /\ O \subseteq x.open /\ O \subseteq 2..n /\ q[l].func <= n /\ (\A o \in O : o < q[m].func)
      /\ \A k \in 1..Len(c) : c[k].th = th /\ Live(c, k, Len(c)) => G[k].d < m
  BY Zenon DEF Drops
<1>2. /\ q \in Seq(Frames) /\ m \in Nat /\ Stacked(q, Len(x.stack), x.open) /\ x.open \subseteq 2..Len(x.stack)
  BY TopFacts, Zenon
<1>0. m > 1 /\ m \in Nat /\ m = Len(q) /\ l = m - 1 BY <1>1, <1>2, Zenon
<1>3. l \in 1..m /\ l \in Nat /\ l <= m /\ l + 1 = m /\ l < m /\ m \in 1..m /\ m >= 1
  <2> HIDE DEF l, m
  <2>1. m > 1 /\ m \in Nat /\ l = m - 1 BY <1>0, Zenon
  <2>2. l \in Nat /\ l >= 1 /\ l <= m /\ m >= 1 BY <2>1
  <2> QED BY <2>1, <2>2
<1>4. r \in Seq(Frames) /\ Len(r) = l /\ \A i \in 1..l : r[i] = q[i]
  <2>1. q \in Seq(Frames) /\ Len(q) >= 1 BY <1>2, <1>3, Zenon
  <2> HIDE DEF q
  <2>2. q[Len(q)] \in Frames BY <2>1
  <2> QED BY <2>1, <2>2, FrameSet
<1> HIDE DEF r
<1>5. InThread(s, w, th) /\ w.L[th].status = "OK" /\ w.L[th].ci = r /\ Len(w.L[th].stack) = n /\ w.L[th].open = O
  BY <1>1, Zenon DEF Turns
<1>6. \A o \in O : o < q[l + 1].func /\ ~(o >= q[l + 1].func)
  <2> SUFFICES ASSUME NEW o \in O PROVE o < q[l + 1].func /\ ~(o >= q[l + 1].func)
    BY Zenon
  <2> DEFINE e == q[m].func
  <2>1. o \in Nat /\ e \in Nat /\ o < e
    <3>1. m \in 1..Len(q) BY <1>3, Zenon
    <3>2. e \in Nat BY <1>2, <3>1, FrameTypes, Zenon
    <3>3. o \in 2..Len(x.stack) /\ Len(x.stack) \in Nat BY <1>1, <1>2, Zenon DEF Stacked
    <3>4. o \in Nat BY <3>3
    <3>5. o < e BY <1>1, Zenon
    <3> QED BY <3>2, <3>4, <3>5, Zenon
  <2> HIDE DEF e
  <2>2. ~(o >= e) BY <2>1
  <2> QED BY <1>3, <2>1, <2>2, Zenon DEF e
<1>7. Stacked(r, n, O)
  <2> HIDE DEF l
  <2>1. l \in 1..Len(q) /\ O \in SUBSET x.open BY <1>1, <1>3, Zenon
  <2> HIDE DEF q, x, m
  <2> QED BY <1>1, <1>2, <1>3, <1>4, <1>6, <2>1, StackCut
<1>8. ASSUME NEW k \in 1..Len(c), c[k].th = th, Live(c, k, Len(c)), G[k] \in Ghosts, Sound(q, x.open, c[k], G[k])
      PROVE  Sound(r, O, c[k], G[k])
  <2>1. G[k].d <= l
    <3>1. G[k].d \in Nat /\ G[k].d < m BY <1>1, <1>8, Zenon DEF Ghosts
    <3> DEFINE d == G[k].d
    <3>3. d \in Nat /\ d < m BY <3>1
    <3> HIDE DEF l, m, d
    <3>4. d <= l BY <1>0, <3>3
    <3> QED BY <3>4 DEF d
  <2>2. O \in SUBSET x.open /\ l <= Len(q) BY <1>1, <1>3, Zenon
  <2> DEFINE a == c[k]   g == G[k]
  <2>3. g \in Ghosts /\ Sound(q, x.open, a, g) /\ g.d <= l BY <1>8, <2>1, Zenon
  <2> HIDE DEF q, x, m, l, a, g
  <2>4. Sound(r, O, a, g) BY <1>2, <1>3, <1>4, <1>6, <2>2, <2>3, SoundCut, Zenon
  <2> QED BY <2>4 DEF a, g
<1>9. Reframes(s, G, w)
  BY <1>5, <1>7, <1>8, Zenon DEF Reframes
<1> QED BY <1>9, BodyFrames

\* A function's frame and stack are dropped.
LEMMA Poscalled ==
  ASSUME NEW s, State(s), NEW th \in Threads, Len(s.L[th].ci) >= 1, NEW p \in Nat, p >= 1, p = s.L[th].ci[Len(s.L[th].ci)].func
  PROVE  LET x == s.L[th]
         IN  \E n \in {p - 1, p} : Turns(s, luaD_poscall(s, th), th, x.status, Front(x.ci), n, x.open, x.nC, x.nny)
<1> DEFINE x == s.L[th]   q == x.ci   f == ci(s, th)   t == IF f.wanted = 1 THEN <<Last(x.stack)>> ELSE << >>
           v == Below(x.stack, p - 1)   st == v \o t   r == Front(q)   y == [s EXCEPT !.L[th].stack = st]
           u == [y EXCEPT !.L[th].ci = r]
<1>1. q \in Seq(Frames) /\ Len(q) >= 1 /\ Len(q) \in Nat BY DEF State, IsThread
<1>2. f = q[Len(q)] /\ r \in Seq(Frames)
  <2> HIDE DEF q
  <2>1. q[Len(q)] \in Frames BY <1>1
  <2>2. f = Last(q) BY DEF ci, q
  <2> QED BY <1>1, <2>1, <2>2, FrameSet
<1>3. luaD_poscall(s, th) = u
  <2>1. luaD_poscall(s, th) = [s EXCEPT !.L[th].stack = st, !.L[th].ci = r] BY <1>2 DEF luaD_poscall
  <2>2. s.L[th].ci = y.L[th].ci BY DEF State, IsThread, StateFields, ThreadFields
  <2> HIDE DEF st, f, r
  <2> QED BY <2>1 DEF State, IsThread, StateFields, ThreadFields
<1>4. PICK W : v \in Seq(W) /\ Len(v) = p - 1
  <2>1. p - 1 \in Nat OBVIOUS
  <2> QED BY <2>1, BelowIs DEF State, IsThread
<1> HIDE DEF v
<1>5. (\E V : st \in Seq(V)) /\ Len(st) \in {p - 1, p}
  <2> DEFINE e == Last(x.stack)
  <2>1. v \in Seq(W \union {e}) BY <1>4
  <2> HIDE DEF e
  <2>2. v \o <<e>> \in Seq(W \union {e}) /\ Len(v \o <<e>>) = p
    <3>1. <<e>> \in Seq(W \union {e}) /\ Len(<<e>>) = 1 OBVIOUS
    <3> QED BY <1>4, <2>1, <3>1
  <2>3. v \o << >> \in Seq(W) /\ Len(v \o << >>) = p - 1
    <3>1. << >> \in Seq(W) /\ Len(<< >>) = 0 OBVIOUS
    <3> QED BY <1>4, <3>1
  <2>4. st = v \o <<e>> \/ st = v \o << >> BY DEF e
  <2> QED BY <2>2, <2>3, <2>4, Zenon
<1> HIDE DEF st, r, f
<1>6. Turns(s, y, th, x.status, q, Len(st), x.open, x.nC, x.nny)
  <2>1. InThread(s, y, th)
    BY <1>5 DEF InThread, State, IsThread, StateFields, ThreadFields
  <2>2. y.L[th].stack = st /\ \A i \in {"status", "ci", "open", "nC", "nny"} : y.L[th][i] = s.L[th][i]
    BY DEF State, IsThread, StateFields, ThreadFields
  <2> HIDE DEF y
  <2> QED BY <2>1, <2>2 DEF Turns
<1> HIDE DEF y
<1>7. Turns(s, u, th, x.status, r, Len(st), x.open, x.nC, x.nny)
  <2>1. /\ State(y) /\ y.L[th].status = x.status /\ Len(y.L[th].stack) = Len(st) /\ y.L[th].open = x.open
        /\ y.L[th].nC = x.nC /\ y.L[th].nny = x.nny
    BY <1>6 DEF Turns, InThread
  <2>2. Turns(y, u, th, x.status, r, Len(st), x.open, x.nC, x.nny)
    BY <1>2, <2>1, Framed
  <2> HIDE DEF u, q, x
  <2> QED BY <1>6, <2>2, TurnsAgain DEF x
<1> DEFINE n == Len(st)
<1>8. n \in {p - 1, p} /\ Turns(s, luaD_poscall(s, th), th, x.status, r, n, x.open, x.nC, x.nny)
  BY <1>3, <1>5, <1>7, Zenon
<1> HIDE DEF n
<1> QED BY <1>8 DEF r

\* A function ends that no activation needs.
Ended(s, G, th) ==
    LET x == s.L[th]   q == x.ci   m == Len(q)
    IN  /\ th = s.C[Len(s.C)].th /\ m > 1 /\ x.status = "OK" /\ (\A o \in x.open : o < q[m].func)
        /\ \A k \in 1..Len(s.C) : s.C[k].th = th /\ Live(s.C, k, Len(s.C)) => G[k].d < m
WithoutFrame(s, u, th) ==
    LET x == s.L[th]   y == u.L[th]   m == Len(x.ci) - 1
    IN  /\ InThread(s, u, th) /\ u.C = s.C /\ y.status = "OK" /\ y.ci = Front(x.ci) /\ y.open = x.open /\ y.nC = x.nC /\ y.nny = x.nny
        /\ y.ci \in Seq(Frames) /\ m \in Nat /\ Len(y.ci) = m /\ (\A i \in 1..m : y.ci[i] = x.ci[i])
        /\ Len(y.stack) \in {x.ci[m + 1].func - 1, x.ci[m + 1].func}
\* The C stack still fits the frames.
LEMMA FrameEnds ==
  ASSUME NEW s, NEW G, NEW h, NEW b, Body(s, G, h, b), NEW th, Ended(s, G, th)
  PROVE  LET u == luaD_poscall(s, th) IN Body(u, G, h, b) /\ WithoutFrame(s, u, th)
<1> DEFINE x == s.L[th]   q == x.ci   m == Len(q)   l == m - 1   p == q[m].func   u == luaD_poscall(s, th)   r == Front(q)   O == x.open
<1>1. /\ th = s.C[Len(s.C)].th /\ m > 1 /\ x.status = "OK" /\ (\A o \in O : o < p)
      /\ \A k \in 1..Len(s.C) : s.C[k].th = th /\ Live(s.C, k, Len(s.C)) => G[k].d < m
  BY Zenon DEF Ended
<1>2. /\ q \in Seq(Frames) /\ m \in Nat /\ Stacked(q, Len(x.stack), O) /\ O \subseteq 2..Len(x.stack) /\ Len(x.stack) \in Nat
      /\ th \in Threads /\ State(s)
  BY <1>1, TopFacts, Zenon
<1>3. l \in 1..m /\ l \in Nat /\ l <= m /\ l + 1 = m /\ l < m /\ m \in 1..m /\ m >= 1
  <2>1. m > 1 /\ m \in Nat /\ l = m - 1 BY <1>1, <1>2, Zenon
  <2> HIDE DEF l, m
  <2>2. l \in Nat /\ l >= 1 /\ l <= m /\ m >= 1 BY <2>1
  <2> QED BY <2>1, <2>2
<1>4. r \in Seq(Frames) /\ Len(r) = l /\ \A i \in 1..l : r[i] = q[i]
  <2>1. q \in Seq(Frames) /\ Len(q) >= 1 BY <1>2, <1>3
  <2> HIDE DEF q
  <2>2. q[Len(q)] \in Frames BY <2>1
  <2> QED BY <2>1, <2>2, FrameSet
<1>5. /\ p \in Nat /\ q[l].func \in Nat /\ q[l].func < p
  <2>1. l \in 1..Len(q) /\ m \in 1..Len(q) /\ l < m BY <1>3
  <2> HIDE DEF l, m
  <2>2. q[m].func \in Nat /\ q[l].func \in Nat /\ q[l].func < q[m].func BY <1>2, <2>1, FuncsOrdered
  <2> QED BY <2>2
<1>6. PICK n \in {p - 1, p} : Turns(s, u, th, x.status, r, n, O, x.nC, x.nny)
  <2>1. Len(s.L[th].ci) >= 1 /\ p \in Nat /\ p >= 1 /\ p = s.L[th].ci[Len(s.L[th].ci)].func
    <3> DEFINE e == q[l].func
    <3>1. e \in Nat /\ e < p /\ p \in Nat BY <1>5
    <3>2. m >= 1 BY <1>3
    <3> HIDE DEF e, p, m
    <3>3. p >= 1 BY <3>1
    <3> QED BY <3>1, <3>2, <3>3 DEF m, p
  <2> HIDE DEF p, u, r, O, m
  <2> QED BY <1>2, <2>1, Poscalled, Zenon DEF u, r, O
<1> HIDE DEF u, r
<1>7. n \in Nat /\ q[l].func <= n /\ O \subseteq 2..n
  <2> DEFINE e == q[l].func
  <2>1. e \in Nat /\ e < p /\ p \in Nat /\ (n = p - 1 \/ n = p) BY <1>5, <1>6, Zenon
  <2>2. ASSUME NEW o \in O PROVE o \in Nat /\ o >= 2 /\ o < p
    <3>1. o < p BY <1>1, Zenon
    <3> DEFINE j == Len(x.stack)
    <3>2. o \in 2..j /\ j \in Nat BY <1>2
    <3> HIDE DEF p, j
    <3>3. o \in Nat /\ o >= 2 BY <3>2
    <3> QED BY <3>1, <3>3
  <2> HIDE DEF e, p, O
  <2>3. n \in Nat /\ e <= n BY <2>1
  <2>4. ASSUME NEW o \in O PROVE o \in 2..n BY <2>1, <2>2, <2>3
  <2> QED BY <2>3, <2>4 DEF e
<1>8. Drops(s, G, u, n, O)
  <2>1. O \subseteq x.open OBVIOUS
  <2> QED BY <1>1, <1>6, <1>7, <2>1, Zenon DEF Drops, r
<1>9. Body(u, G, h, b) BY <1>8, DropsFrame
<1>10. WithoutFrame(s, u, th)
  <2>1. /\ InThread(s, u, th) /\ u.C = s.C /\ u.L[th].status = "OK" /\ u.L[th].ci = r /\ u.L[th].open = O
        /\ u.L[th].nC = x.nC /\ u.L[th].nny = x.nny /\ Len(u.L[th].stack) = n
    BY <1>1, <1>6, Zenon DEF Turns, InThread
  <2>2. n \in {q[l + 1].func - 1, q[l + 1].func} BY <1>3, <1>6
  <2> HIDE DEF p, m
  <2> QED BY <1>3, <1>4, <2>1, <2>2, Zenon DEF WithoutFrame, r, m
<1> QED BY <1>9, <1>10 DEF u

\* A function ends, and its activation.
PopsFrame(s, G, u, G2, th, h, b) ==
    /\ \E y : Pops(s, G, y, G2, h, b) /\ WithoutFrame(y, u, th) /\ y.L = s.L
    /\ Body(u, G2, h, b)
    /\ LET l == Len(s.C) - 1
       IN  /\ s.C[l].th = th /\ u.C[Len(u.C)] = s.C[l] /\ G2[Len(u.C)] = G[l]
           /\ G[Len(s.C)].c = G[l].c /\ G[Len(s.C)].e = G[l].e
\* The caller goes on.
LEMMA FramePops ==
  ASSUME NEW s, NEW G, NEW h, NEW b, Body(s, G, h, b), Calm(s, G), NEW th, th = s.C[Len(s.C)].th,
         \A o \in s.L[th].open : o < s.L[th].ci[Len(s.L[th].ci)].func
  PROVE  PopsFrame(s, G, luaD_poscall(PopC(s), th), SubSeq(G, 1, Len(s.C) - 1), th, h, b)
<1> DEFINE c == s.C   n == Len(c)   z == c[n]   k == G[n]   x == s.L[th]   q == x.ci   m == Len(q)   l == n - 1
           y == PopC(s)   G2 == SubSeq(G, 1, l)   u == luaD_poscall(y, th)
<1>0. c = s.C /\ n = Len(c) /\ z = c[n] /\ k = G[n] /\ x = s.L[th] /\ q = x.ci /\ m = Len(q) /\ l = n - 1
  BY Zenon
<1>1. /\ th = z.th /\ RunsIn(s, G, th) /\ z.at \in {"execute"} \union Callers /\ th \in Threads /\ State(s)
  <2>1. RunsIn(s, G, th) BY TopFrame, Zenon
  <2>2. s.C[Len(s.C)].at \in {"execute"} \union Callers BY Zenon DEF Calm
  <2> QED BY <1>0, <2>1, <2>2, Zenon DEF RunsIn, Body
<1>2. n \in Nat /\ n >= 1 /\ n \in 1..n /\ z \in Acts /\ k \in Ghosts /\ Chain(c, G, h) /\ G \in Seq(Ghosts) /\ Len(G) = n
  BY <1>1, TopFacts, Zenon
<1>3. m \in Nat /\ m > 1 /\ k.d = m /\ x.status = "OK"
  BY <1>1, Zenon DEF RunsIn
<1>4. \A o \in x.open : o < q[m].func
  BY Zenon
<1>5. \A i \in 1..(n - 1) : c[i].th = th /\ Live(c, i, n) => G[i].d < m
  BY <1>1, <1>3, BelowTop, Zenon
<1> HIDE DEF c, n, z, k, x, q, m, l
<1>6. Pops(s, G, y, G2, h, b)
  <2>1. s.C[Len(s.C)].at \notin {"host", "GCTM", "lua_closethread"} BY <1>0, <1>1, Zenon DEF Callers, PlainCallers, CoCallers
  <2> QED BY <1>0, <2>1, PopsTop, Zenon
<1> HIDE DEF y, G2
<1>7. /\ n > 1 /\ State(y) /\ y.L = s.L /\ Body(y, G2, h, b) /\ Len(y.C) = l
      /\ \A i \in 1..l : i \in 1..n /\ y.C[i] = c[i] /\ G2[i] = G[i]
      /\ Link(c[l], G[l], z, k) /\ l \in 1..n /\ c[l] \in Acts /\ G[l] \in Ghosts
  BY <1>0, <1>6 DEF Pops
<1>8. l \in 1..l /\ l + 1 = n /\ l \in Nat BY <1>0, <1>2, <1>7
<1>9. c[l].th = th /\ k.c = G[l].c /\ k.e = G[l].e
  <2>1. LinkThreads(c[l], z) /\ LinkCounts(G[l], z, k) BY <1>7, Zenon DEF Link
  <2>2. z.at \notin Switches \union {"ccall", "lua_resume"} BY <1>1 DEF Callers, PlainCallers, CoCallers, Switches
  <2>3. c[l].th = th BY <1>1, <2>1, <2>2 DEF LinkThreads
  <2>4. G[l].c \in Int /\ G[l].e \in Nat BY <1>7, Zenon DEF Ghosts
  <2>5. k.c = G[l].c /\ k.e = G[l].e BY <2>1, <2>2, <2>4 DEF LinkCounts
  <2> QED BY <2>3, <2>5, Zenon
<1>10. Ended(y, G2, th)
  <2>1. ASSUME NEW i \in 1..l, y.C[i].th = th, Live(y.C, i, l) PROVE G2[i].d < m
    <3>1. c[i].th = th /\ G2[i] = G[i] /\ i \in 1..(n - 1) BY <1>0, <1>7, <2>1
    <3>2. Live(c, i, n)
      <4>1. \A j \in (i + 1)..n : j = n \/ (j \in (i + 1)..l /\ j \in 1..l) BY <1>2, <1>8
      <4>2. z.at # "lua_closethread" BY <1>1 DEF Callers, PlainCallers, CoCallers
      <4> QED BY <1>0, <1>7, <2>1, <3>1, <4>1, <4>2 DEF Live
    <3> QED BY <1>5, <3>1, <3>2, Zenon
  <2>2. y.C[Len(y.C)].th = th BY <1>7, <1>8, <1>9, Zenon
  <2> QED BY <1>0, <1>3, <1>4, <1>7, <2>1, <2>2, Zenon DEF Ended
<1>11. Body(u, G2, h, b) /\ WithoutFrame(y, u, th)
  BY <1>7, <1>10, FrameEnds, Zenon
<1> HIDE DEF u
<1>12. u.C = y.C BY <1>11, Zenon DEF WithoutFrame
<1>13. u.C[Len(u.C)] = c[l] /\ G2[Len(u.C)] = G[l]
  BY <1>7, <1>8, <1>12, Zenon
<1> QED BY <1>0, <1>6, <1>7, <1>9, <1>11, <1>13, Zenon DEF PopsFrame, y, u, G2

\* A Lua function returns: to the Lua function that called it, or to C.
LEMMA LuaReturns ==
  ASSUME NEW s, NEW G, NEW h, NEW b, NEW th, LuaRuns(s, G, h, b, th),
         \A o \in s.L[th].open : o < s.L[th].ci[Len(s.L[th].ci)].func
  PROVE  Holds(luaD_poscall(IF s.L[th].ci[Len(s.L[th].ci)].fresh THEN PopC(s) ELSE s, th), h, b)
<1> DEFINE c == s.C   n == Len(c)   z == c[n]   k == G[n]   x == s.L[th]   q == x.ci   m == Len(q)   f == q[m]   d == m - 1
<1>0. c = s.C /\ n = Len(c) /\ z = c[n] /\ k = G[n] /\ x = s.L[th] /\ q = x.ci /\ m = Len(q) /\ f = q[m] /\ d = m - 1
  OBVIOUS
<1>1. /\ Body(s, G, h, b) /\ Calm(s, G) /\ th = z.th /\ RunsIn(s, G, th) /\ z.at = "execute" /\ th \in Threads /\ State(s)
  BY LuaFacts
<1>2. n \in Nat /\ n >= 1 /\ n \in 1..n /\ z \in Acts /\ k \in Ghosts /\ Chain(c, G, h) /\ G \in Seq(Ghosts) /\ Len(G) = n
  BY <1>1, TopFacts, Zenon
<1>3. /\ m \in Nat /\ m > 1 /\ q \in Seq(Frames) /\ f \in Frames /\ k.d = m /\ x.status = "OK" /\ x.nC = k.c /\ x.nny = k.e
      /\ Stacked(q, Len(x.stack), x.open) /\ Sound(q, x.open, z, k) /\ f.lua
  BY <1>1, Zenon DEF RunsIn
<1>4. \A o \in x.open : o < f.func
  OBVIOUS
<1>5. \A i \in 1..(n - 1) : c[i].th = th /\ Live(c, i, n) => G[i].d < m
  BY <1>1, <1>3, BelowTop, Zenon
<1>6. k.b \in Nat /\ (k.b # 0 => /\ k.b \in 2..m /\ q[k.b].fresh /\ \A i \in (k.b + 1)..m : q[i].lua /\ ~q[i].fresh)
      /\ (k.e = 0 => \A i \in 2..(m - 1) : Passes(q[i]))
  BY <1>1, <1>2, <1>3, Zenon DEF Sound, Ghosts
<1> HIDE DEF c, n, z, k, x, q, m, f, d
<1>7. m \in 1..m /\ d \in Nat /\ d >= 1 /\ d \in 1..m /\ d <= m /\ d < m /\ d + 1 = m
  BY <1>0, <1>3
<1>8. ASSUME ~f.fresh PROVE Holds(luaD_poscall(s, th), h, b)
  <2>1. q[d].lua /\ d >= 2
    <3>1. LuaFrame(q, x.open, m)
      <4>1. m \in 1..Len(q) BY <1>0, <1>7
      <4> QED BY <1>3, <4>1 DEF Stacked, FrameInv
    <3>2. q[d].lua BY <1>0, <1>3, <1>8, <3>1, Zenon DEF LuaFrame
    <3>3. d # 1 BY <1>3, <3>2 DEF Stacked
    <3> QED BY <1>7, <3>2, <3>3
  <2>2. GoesIn(s, G, d)
    <3>1. k.e = 0 => \A i \in 2..(d - 1) : Passes(q[i])
      <4>1. \A i \in 2..(d - 1) : i \in 2..(m - 1) BY <1>3, <1>7
      <4> QED BY <1>6, <4>1
    <3>2. k.b # 0 => k.b <= d /\ \A i \in (k.b + 1)..d : q[i].lua /\ ~q[i].fresh
      <4> SUFFICES ASSUME k.b # 0 PROVE k.b <= d /\ \A i \in (k.b + 1)..d : q[i].lua /\ ~q[i].fresh
        OBVIOUS
      <4> DEFINE e == k.b
      <4>1. e \in Nat /\ e \in 2..m /\ q[e].fresh /\ \A i \in (e + 1)..m : q[i].lua /\ ~q[i].fresh BY <1>6
      <4> HIDE DEF e
      <4>2. e # m BY <1>0, <1>8, <4>1
      <4>3. e <= d BY <1>3, <1>7, <4>1, <4>2
      <4>4. \A i \in (e + 1)..d : i \in (e + 1)..m BY <1>3, <1>7, <4>1
      <4> QED BY <4>1, <4>3, <4>4 DEF e
    <3>3. d <= Len(q) BY <1>0, <1>7
    <3> QED BY <1>0, <1>1, <1>7, <2>1, <3>1, <3>2, <3>3, ZenonT(60) DEF GoesIn
  <2> DEFINE G2 == InFrame(s, G, d)
  <2>3. Body(s, G2, h, b) /\ G2[n] = [d |-> d, b |-> k.b, c |-> k.c, e |-> k.e, j |-> k.j]
    <3>1. Body(s, InFrame(s, G, d), h, b)
          /\ InFrame(s, G, d)[Len(s.C)] = [d |-> d, b |-> G[Len(s.C)].b, c |-> G[Len(s.C)].c, e |-> G[Len(s.C)].e, j |-> G[Len(s.C)].j]
      BY <1>1, <2>2, GoesInto
    <3>2. n = Len(s.C) /\ k = G[Len(s.C)] BY <1>0
    <3> QED BY <3>1, <3>2
  <2>4. \A i \in 1..(n - 1) : G2[i] = G[i]
    <3> DEFINE t == SubSeq(G, 1, n - 1)   g == [d |-> d, b |-> k.b, c |-> k.c, e |-> k.e, j |-> k.j]
    <3>1. t \in Seq(Ghosts) /\ Len(t) = n - 1 /\ \A i \in 1..(n - 1) : t[i] = G[i]
      <4>1. Len(G) >= 1 /\ Len(G) = n BY <1>2
      <4> QED BY <1>2, <4>1, OneMore
    <3>2. G2 = Append(t, g) BY <1>0 DEF InFrame
    <3> HIDE DEF t, g, G2
    <3> QED BY <1>2, <3>1, <3>2
  <2> HIDE DEF G2
  <2>5. Ended(s, G2, th)
    <3>1. \A i \in 1..n : c[i].th = th /\ Live(c, i, n) => G2[i].d < m
      <4> SUFFICES ASSUME NEW i \in 1..n, c[i].th = th, Live(c, i, n) PROVE G2[i].d < m
        OBVIOUS
      <4>1. CASE i = n BY <1>7, <2>3, <4>1
      <4>2. CASE i # n
        <5>1. i \in 1..(n - 1) BY <1>2, <4>2
        <5> QED BY <1>5, <2>4, <5>1
      <4> QED BY <4>1, <4>2
    <3> QED BY <1>0, <1>1, <1>3, <1>4, <3>1, Zenon DEF Ended
  <2> DEFINE u == luaD_poscall(s, th)
  <2>6. Body(u, G2, h, b) /\ WithoutFrame(s, u, th)
    BY <2>3, <2>5, FrameEnds
  <2> HIDE DEF u
  <2>7. u.C = c /\ u.L[th].status = "OK" /\ Len(u.L[th].ci) = d /\ u.L[th].nC = k.c /\ u.L[th].nny = k.e
    BY <1>0, <1>3, <2>6, Zenon DEF WithoutFrame
  <2>8. z = u.C[Len(u.C)] /\ Settled(u.L[z.th], z, G2[Len(u.C)]) /\ z.at \notin CoCallers
    <3>1. u.C = s.C /\ n = Len(u.C) /\ z = u.C[n] BY <1>0, <2>7
    <3>2. G2[n].d = d /\ G2[n].c = k.c /\ G2[n].e = k.e BY <2>3
    <3>3. Settled(u.L[th], z, G2[n]) BY <1>1, <2>7, <3>2 DEF Settled, IsRawRun
    <3> QED BY <1>1, <3>1, <3>3, Zenon DEF CoCallers
  <2>9. Holds(u, h, b) BY <2>6, <2>8, GoesOn
  <2> QED BY <2>9 DEF u
<1>9. ASSUME f.fresh PROVE Holds(luaD_poscall(PopC(s), th), h, b)
  <2> DEFINE l == n - 1   G2 == SubSeq(G, 1, l)   u == luaD_poscall(PopC(s), th)   a == c[l]   g == G[l]   r == u.L[th]
  <2>1. PopsFrame(s, G, u, G2, th, h, b)
    BY <1>0, <1>1, FramePops, Zenon
  <2> HIDE DEF u, G2
  <2>2. PICK y : Pops(s, G, y, G2, h, b) /\ WithoutFrame(y, u, th) /\ y.L = s.L
    BY <2>1 DEF PopsFrame
  <2>3. Link(a, g, z, k) /\ a \in Acts /\ g \in Ghosts /\ Own(a, g)
    BY <1>0, <2>2 DEF Pops
  <2>4. /\ Body(u, G2, h, b) /\ a.th = th /\ u.C[Len(u.C)] = a /\ G2[Len(u.C)] = g /\ k.c = g.c /\ k.e = g.e
    BY <1>0, <2>1 DEF PopsFrame
  <2>5. a.at \in {"ccall", "unroll"}
    BY <1>1, <2>3 DEF Link, LinkKinds, MayCall, Callers, CoCallers, PlainCallers
  <2>7. r.status = "OK" /\ Len(r.ci) = d /\ r.nC = g.c /\ r.nny = g.e /\ (\A i \in 1..d : r.ci[i] = q[i])
    <3>1. y.L[th] = x /\ Len(y.L[th].ci) - 1 = d BY <1>0, <2>2
    <3>2. r.status = "OK" /\ Len(r.ci) = Len(y.L[th].ci) - 1 /\ r.nC = y.L[th].nC /\ r.nny = y.L[th].nny
      BY <2>2, Zenon DEF WithoutFrame
    <3>3. r.status = "OK" /\ Len(r.ci) = d /\ r.nC = g.c /\ r.nny = g.e
      BY <1>3, <2>4, <3>1, <3>2, Zenon
    <3>4. \A i \in 1..d : u.L[th].ci[i] = y.L[th].ci[i]
      BY <2>2, <3>1 DEF WithoutFrame
    <3> QED BY <1>0, <3>1, <3>3, <3>4
  <2>9. Settled(r, a, g)
    <3>1. CASE a.at = "ccall"
      <4>1. LinkFrames(c[l], G[l], z, k) BY <2>3 DEF Link
      <4>2. k.b = g.d + 1 BY <1>1, <3>1, <4>1 DEF LinkFrames
      <4> DEFINE e == k.b   j == g.d
      <4>3. e \in Nat /\ j \in Nat /\ e = j + 1 BY <1>6, <2>3, <4>2 DEF Ghosts
      <4>4. e # 0 => e \in 2..m /\ \A i \in (e + 1)..m : ~q[i].fresh BY <1>6
      <4>5. q[m].fresh BY <1>0, <1>9
      <4> HIDE DEF e, j
      <4>6. e = m
        <5>1. e # 0 BY <4>3
        <5>2. e # m => m \in (e + 1)..m BY <1>3, <4>3, <4>4, <5>1
        <5> QED BY <4>4, <4>5, <5>1, <5>2
      <4>7. d = j BY <1>3, <1>7, <4>3, <4>6
      <4>8. d = g.d BY <4>7 DEF j
      <4> QED BY <2>7, <3>1, <4>8 DEF Settled, IsRawRun
    <3>2. CASE a.at = "unroll"
      <4>1. k.e = 0 BY <2>3, <2>4, <3>2 DEF Own
      <4>2. \A i \in 2..(d - 1) : i \in 2..(m - 1) /\ i \in 1..d BY <1>3, <1>7
      <4>3. \A i \in 2..(d - 1) : Passes(r.ci[i]) BY <1>6, <2>7, <4>1, <4>2
      <4> QED BY <2>7, <3>2, <4>3 DEF Settled, IsRawRun
    <3> QED BY <2>5, <3>1, <3>2
  <2>10. a.at \notin CoCallers BY <2>5 DEF CoCallers
  <2>11. a = u.C[Len(u.C)] /\ Settled(u.L[a.th], a, G2[Len(u.C)]) BY <2>4, <2>9
  <2> HIDE DEF a, g, r, l
  <2>12. Holds(u, h, b) BY <2>4, <2>10, <2>11, GoesOn
  <2> QED BY <2>12 DEF u
<1> QED BY <1>0, <1>8, <1>9

\* The stack of Lua code changes above its frame.
LEMMA LuaTurns ==
  ASSUME NEW s, NEW G, NEW h, NEW b, NEW th, LuaRuns(s, G, h, b, th), NEW u, NEW p, NEW n, NEW O,
         TurnsStack(s, u, th, p, n, O), p = s.L[th].ci[Len(s.L[th].ci)].func
  PROVE  LuaRuns(u, G, h, b, th)
<1> DEFINE x == s.L[th]   q == x.ci   y == u.L[th]
<1>1. Body(s, G, h, b) /\ th = s.C[Len(s.C)].th /\ RunsIn(s, G, th) /\ s.C[Len(s.C)].at = "execute" /\ Settled(x, s.C[Len(s.C)], G[Len(s.C)])
  BY LuaFacts DEF LuaRuns
<1>2. /\ Turns(s, u, th, x.status, q, n, O, x.nC, x.nny)
      /\ n \in Nat /\ p <= n /\ O \subseteq x.open /\ O \subseteq 2..n
  BY DEF TurnsStack
<1>3. n # 0
  <2>1. p \in Nat /\ p > 1 BY <1>1, Zenon DEF RunsIn
  <2> QED BY <1>2, <2>1
<1>4. Body(u, G, h, b)
  <2>1. s.L[th].ci[Len(s.L[th].ci)].func <= n BY <1>2
  <2> DEFINE cc == x.nC   e == x.nny
  <2>2. Turns(s, u, th, s.L[th].status, s.L[th].ci, n, O, cc, e) /\ O \subseteq s.L[th].open BY <1>2
  <2> HIDE DEF cc, e, x, q, y
  <2> QED BY <1>1, <1>2, <1>3, <2>1, <2>2, Restacked, Zenon
<1>5. /\ u.C = s.C /\ y.status = x.status /\ y.ci = q /\ y.open = O /\ Len(y.stack) = n /\ y.nC = x.nC /\ y.nny = x.nny
  BY <1>2 DEF Turns, InThread
<1>6. Settled(y, s.C[Len(s.C)], G[Len(s.C)])
  BY <1>1, <1>5, SettledAgain, Zenon
<1> QED BY <1>1, <1>4, <1>5, <1>6 DEF LuaRuns

\* OP_RETURN when nothing is to be closed; a message handler returns nil if it
\* does not return its argument.
LEMMA ReturnsFromLua ==
  ASSUME NEW s, NEW G, NEW h, NEW b, NEW th, LuaRuns(s, G, h, b, th)
  PROVE  LET f == ci(s, th)   u == luaF_closeupval(s, th, f.func + 1)   v == push(u, th, Nil)
         IN  /\ Holds(luaD_poscall(IF f.fresh THEN PopC(u) ELSE u, th), h, b)
             /\ Holds(luaD_poscall(IF f.fresh THEN PopC(v) ELSE v, th), h, b)
<1> DEFINE x == s.L[th]   q == x.ci   f == q[Len(q)]   p == f.func   l == p + 1   u == luaF_closeupval(s, th, l)   v == push(u, th, Nil)
           O == {o \in x.open : o < l}   n == Len(x.stack)
<1>1. RunsIn(s, G, th) /\ th \in Threads /\ State(s) BY LuaFacts
<1>2. /\ n \in Nat /\ p <= n /\ p \in Nat /\ x.open \subseteq 2..n /\ Stacked(q, n, x.open) /\ Len(q) \in Nat /\ Len(q) > 1 /\ Last(q) = f
  BY <1>1, Zenon DEF RunsIn
<1>3. p \notin x.open
  <2>1. Len(q) \in 1..Len(q) BY <1>2
  <2> QED BY <1>2, <2>1, Zenon DEF Stacked, FrameInv
<1>4. \A o \in O : o < p
  <2> SUFFICES ASSUME NEW o \in O PROVE o < p OBVIOUS
  <2>1. o \in 2..n /\ o < l /\ l = p + 1 /\ o # p BY <1>2, <1>3, Zenon
  <2> HIDE DEF p, n, l
  <2> QED BY <1>2, <2>1
<1>5. O \subseteq x.open /\ O \subseteq 2..n
  BY <1>2
<1>6. TurnsStack(s, u, th, p, n, O)
  <2>1. Turns(s, u, th, x.status, q, n, O, x.nC, x.nny)
    <3> HIDE DEF l, u
    <3> QED BY <1>1, Closed DEF u
  <2> HIDE DEF u, O, p, n
  <2> QED BY <1>2, <1>5, <2>1 DEF TurnsStack
<1> HIDE DEF u, O
<1>7. LuaRuns(u, G, h, b, th) /\ u.L[th].ci = q /\ u.L[th].open = O /\ Len(u.L[th].stack) = n
  <2>1. TurnsStack(s, u, th, p, n, O) /\ p = s.L[th].ci[Len(s.L[th].ci)].func BY <1>6
  <2> HIDE DEF n, x, p, q, f
  <2>2. LuaRuns(u, G, h, b, th) BY <2>1, LuaTurns
  <2> QED BY <2>1, <2>2 DEF TurnsStack, Turns, x, q
<1>8. LuaRuns(v, G, h, b, th) /\ v.L[th].ci = q /\ v.L[th].open = O
  <2> DEFINE m == n + 1   y == u.L[th]
  <2>1. th \in Threads /\ State(u) BY <1>7, LuaFacts
  <2>2. Turns(u, v, th, y.status, y.ci, m, y.open, y.nC, y.nny)
    BY <1>7, <2>1, Pushed
  <2>3. m \in Nat /\ p <= m /\ O \subseteq 2..m
    <3> HIDE DEF n, p
    <3> QED BY <1>2, <1>5
  <2> HIDE DEF m, v
  <2>4. TurnsStack(u, v, th, p, m, O) /\ p = u.L[th].ci[Len(u.L[th].ci)].func
    BY <1>7, <2>2, <2>3 DEF TurnsStack
  <2>5. LuaRuns(v, G, h, b, th)
    BY <1>7, <2>4, LuaTurns
  <2> QED BY <1>7, <2>4, <2>5 DEF TurnsStack, Turns
<1> HIDE DEF v
<1>9. \A w \in {u, v} : Holds(luaD_poscall(IF f.fresh THEN PopC(w) ELSE w, th), h, b)
  <2> SUFFICES ASSUME NEW w, LuaRuns(w, G, h, b, th), w.L[th].ci = q, w.L[th].open = O
               PROVE  Holds(luaD_poscall(IF f.fresh THEN PopC(w) ELSE w, th), h, b)
    BY <1>7, <1>8
  <2>1. \A o \in w.L[th].open : o < w.L[th].ci[Len(w.L[th].ci)].func BY <1>4
  <2>2. w.L[th].ci[Len(w.L[th].ci)] = f OBVIOUS
  <2>3. Holds(luaD_poscall(IF w.L[th].ci[Len(w.L[th].ci)].fresh THEN PopC(w) ELSE w, th), h, b)
    <3> HIDE DEF x, q, f
    <3> QED BY <2>1, LuaReturns
  <2> QED BY <2>2, <2>3
<1>10. ci(s, th) = f BY <1>2 DEF ci
<1> QED BY <1>9, <1>10, Zenon DEF u, v

\* A C function returns to the Lua code that called it, or closes its
\* variables first.
CRuns(s, G, h, b, th) ==
    LET a == s.C[Len(s.C)]
    IN  Body(s, G, h, b) /\ Calm(s, G) /\ a.at \in Callers /\ a.th = th
\* It returns, or its own variables are closed first.
LEMMA CReturns ==
  ASSUME NEW s, NEW G, NEW h, NEW b, NEW th, CRuns(s, G, h, b, th)
  PROVE  Holds(Returns(s, th, TRUE), h, b)
<1> DEFINE c == s.C   n == Len(c)   z == c[n]   k == G[n]   x == s.L[th]   q == x.ci   m == Len(q)   f == q[m]   d == m - 1
<1>0. c = s.C /\ n = Len(c) /\ z = c[n] /\ k = G[n] /\ x = s.L[th] /\ q = x.ci /\ m = Len(q) /\ f = q[m] /\ d = m - 1
  OBVIOUS
<1>1. /\ Body(s, G, h, b) /\ Calm(s, G) /\ z.at \in Callers /\ z.th = th
  BY DEF CRuns
<1>2. RunsIn(s, G, th) BY <1>1, TopFrame
<1>3. /\ m \in Nat /\ m > 1 /\ f \in Frames /\ k.d = m /\ x.status = "OK" /\ x.nC = k.c /\ x.nny = k.e
      /\ (\A o \in x.open : o < f.func) /\ (f.tbc => z.at = "C_function") /\ (f.ypcall => z.at = "luaB_pcall")
      /\ Last(q) = f /\ Len(x.stack) # 0
  BY <1>1, <1>2, Zenon DEF RunsIn
<1> HIDE DEF c, n, z, k, x, q, m, f, d
<1>4. ASSUME f.tbc PROVE Holds(luaF_close(s, th, f.func, "CLOSEKTOP", TRUE), h, b)
  <2>1. z.at = "C_function" /\ ~f.ypcall /\ Passes(f) BY <1>3, <1>4 DEF Passes
  <2>2. f.func \in Nat /\ f.func >= f.func BY <1>3 DEF Frames
  <2>3. MayClose(s, G, f.func, "CLOSEKTOP", TRUE)
    BY <1>0, <1>1, <2>1, <2>2, Zenon DEF MayClose, Calm, MayCall
  <2>4. th = s.C[Len(s.C)].th /\ Len(s.L[th].stack) # 0 BY <1>0, <1>1, <1>3
  <2> QED BY <1>1, <2>3, <2>4, CloseBegins
<1>5. Holds(luaD_poscall(PopC(s), th), h, b)
  <2> DEFINE l == n - 1   G2 == SubSeq(G, 1, l)   u == luaD_poscall(PopC(s), th)   a == c[l]   g == G[l]   r == u.L[th]
  <2>1. PopsFrame(s, G, u, G2, th, h, b)
    <3>1. th = s.C[Len(s.C)].th /\ \A o \in s.L[th].open : o < s.L[th].ci[Len(s.L[th].ci)].func BY <1>0, <1>1, <1>3
    <3> QED BY <1>0, <1>1, <3>1, FramePops, Zenon
  <2> HIDE DEF u, G2
  <2>2. PICK y : Pops(s, G, y, G2, h, b) /\ WithoutFrame(y, u, th) /\ y.L = s.L
    BY <2>1 DEF PopsFrame
  <2>3. Link(a, g, z, k) /\ a \in Acts /\ g \in Ghosts
    BY <1>0, <2>2 DEF Pops
  <2>4. /\ Body(u, G2, h, b) /\ a.th = th /\ u.C[Len(u.C)] = a /\ G2[Len(u.C)] = g /\ k.c = g.c /\ k.e = g.e
    BY <1>0, <2>1 DEF PopsFrame
  <2>5. a.at = "execute" /\ k.d = g.d + 1
    <3>1. MayCall(a.at, z.at) /\ LinkFrames(a, g, z, k) BY <2>3 DEF Link, LinkKinds
    <3> QED BY <1>1, <3>1 DEF LinkFrames, MayCall, Callers, CoCallers, PlainCallers
  <2>6. d = g.d
    <3> DEFINE e == g.d
    <3>1. e \in Nat /\ m = e + 1 BY <1>3, <2>3, <2>5 DEF Ghosts
    <3> HIDE DEF e
    <3>2. d = e BY <1>0, <3>1
    <3> QED BY <3>2 DEF e
  <2>7. r.status = "OK" /\ Len(r.ci) = d /\ r.nC = g.c /\ r.nny = g.e
    BY <1>0, <1>3, <2>2, <2>4 DEF WithoutFrame
  <2>8. Settled(r, a, g) BY <2>5, <2>6, <2>7 DEF Settled, IsRawRun
  <2>9. a.at \notin CoCallers /\ a = u.C[Len(u.C)] /\ Settled(u.L[a.th], a, G2[Len(u.C)])
    BY <2>4, <2>5, <2>8 DEF CoCallers
  <2> HIDE DEF a, g, r, l
  <2>10. Holds(u, h, b) BY <2>4, <2>9, GoesOn
  <2> QED BY <2>10 DEF u
<1>6. ci(s, th) = f BY <1>0, <1>3 DEF ci
<1> QED BY <1>4, <1>5, <1>6 DEF Returns

=============================================================================
