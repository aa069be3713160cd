------------------------------- MODULE LuaCalls ------------------------------
(***************************************************************************)
(* Calls, protected calls, to-be-closed variables and coroutines: ldo.c,   *)
(* lfunc.c, lcorolib.c and what they use of lapi.c, lvm.c and lstate.c.    *)
(* The C stack is explicit: a sequence of activations, the last of which   *)
(* runs.  "at" is the C function, or the point in it, that goes on when    *)
(* the activation above it returns; luaV_execute is at "execute".  Errors  *)
(* and yields cut the C stack down to the last protected activation of     *)
(* their thread, as the long jump does.                                    *)
(* Programs are arbitrary: wherever Lua code runs it may do anything in    *)
(* its repertoire next.  Functions take no arguments and give no results,  *)
(* message handlers excepted.  Operators named _bug are broken variants    *)
(* that no definition uses.                                                *)
(***************************************************************************)
EXTENDS Integers, Sequences, SequencesExt, FiniteSetsExt

CONSTANTS Main, Coroutines,
          LUAI_MAXCCALLS,
          Repertoires           \* the kinds of programs: what they do (ops, of AllOps), coroutines
                                \* they create (co), C calls in use when they start (host);
                                \* bound: how many operations (max)

AllOps == {"tbc", "capture", "close_block", "call", "metamethod", "callback", "dofile",
           "C_tbc", "pcall", "xpcall", "error", "memory", "yield", "resume", "wrap",
           "close", "close_self", "finalizer"}
ASSUME CallsAssumption ==
    /\ Main \notin Coroutines /\ LUAI_MAXCCALLS \in Nat
    /\ \A r \in Repertoires : r.ops \subseteq AllOps /\ r.co \subseteq Coroutines /\ r.max \in Nat /\ r.host \in Nat

VARIABLES program,  \* of Repertoires
          L,        \* the threads
          C,        \* the C stack
          gcstp,    \* whether the collector is stopped by itself
          ops, variables, errors,    \* how many operations, variables, errors so far
          scopes, result             \* see LuaScopes (history)

vars == <<program, L, C, gcstp, ops, variables, errors, scopes, result>>

Threads == Coroutines \union {Main}
NoError == <<"no_error", 0>>
S == INSTANCE LuaScopes

\* The state as one value, which the functions of the code take and give.
Now == [L |-> L, C |-> C, gcstp |-> gcstp, variables |-> variables, errors |-> errors,
        scopes |-> scopes, result |-> result]
Become(s) == /\ L' = s.L /\ C' = s.C /\ gcstp' = s.gcstp /\ variables' = s.variables
             /\ errors' = s.errors /\ scopes' = s.scopes /\ result' = s.result
             /\ UNCHANGED program

-----------------------------------------------------------------------------
(* Values, stacks, frames.  Stack positions count from 1, where the base    *)
(* frame's function entry is.                                               *)
Nil == <<"nil", 0>>
Function == <<"function", 0>>
Closable(n) == <<"closable", n>>
Error(n) == <<"error", n>>
Message(text) == <<"message", text>>      \* abridged

Failures == {"ERRRUN", "ERRMEM", "ERRERR"}       \* errorstatus

top(s, th) == Len(s.L[th].stack)
push(s, th, v) == [s EXCEPT !.L[th].stack = Append(@, v)]
Below(q, n) == [i \in 1..n |-> q[i]]
settop(s, th, n) == [s EXCEPT !.L[th].stack = Below(@, n)]

ci(s, th) == Last(s.L[th].ci)
Frame(func, wanted) ==
    [func |-> func, lua |-> TRUE, fresh |-> FALSE, wanted |-> wanted, op |-> "none", level |-> 0,
     k |-> FALSE, ypcall |-> FALSE, recst |-> "OK", funcidx |-> 0, old_errfunc |-> 0, tbc |-> FALSE]
CFrame(func) == [Frame(func, 0) EXCEPT !.lua = FALSE]
prepCallInfo(s, th, f) == [s EXCEPT !.L[th].ci = Append(@, f)]

Activation(at, th) == [at |-> at, th |-> th]
Top(s) == Last(s.C)
PushC(s, a) == [s EXCEPT !.C = Append(@, a)]
PopC(s) == [s EXCEPT !.C = Front(@)]

\* Protected activations, which long jumps go to.
RawRun(at, s, th, level) ==
    [at |-> at, th |-> th, status |-> "OK", nC |-> s.L[th].nC, nny |-> s.L[th].nny,
     old_ci |-> Len(s.L[th].ci), level |-> level, errfunc |-> s.L[th].errfunc, closing |-> "OK"]
IsRawRun(a) == a.at \in {"luaD_pcall", "closeprotected", "lua_resume"}
errorJmps(s, th) == {i \in DOMAIN s.C : s.C[i].th = th /\ IsRawRun(s.C[i])}

ResetThread == [status |-> "OK", ci |-> <<CFrame(1)>>, stack |-> <<Nil>>, tbc |-> << >>,
                open |-> {}, nC |-> 0, nny |-> 0, errfunc |-> 0]

-----------------------------------------------------------------------------
(* Errors.                                                                  *)
LastCall(sc) == Max({i \in DOMAIN sc : sc[i].var = 0})      \* history

luaD_seterrorobj(s, th, status, oldtop) ==
    LET v == IF status = "ERRMEM" THEN Message("no_memory") ELSE Last(s.L[th].stack)
    IN  [s EXCEPT !.L[th].stack = Append(Below(@, oldtop - 1), v)]

\* A jump to one protected activation; history: the error belongs to the
\* innermost protected call.
JumpTo_bug(s, th, j, status) ==
    LET u == [s EXCEPT !.C = Append(SubSeq(@, 1, j - 1), [@[j] EXCEPT !.status = status])]
    IN  IF status \notin Failures THEN u
        ELSE [u EXCEPT !.scopes[th][LastCall(s.scopes[th])].err = Last(s.L[th].stack)]
JumpTo(s, th, j, status) ==
    LET v == IF status = "ERRMEM" THEN Message("no_memory") ELSE Last(s.L[th].stack)
        u == [s EXCEPT !.C = Append(SubSeq(@, 1, j - 1), [@[j] EXCEPT !.status = status]),
                       !.L[th].nC = s.C[j].nC, !.L[th].nny = s.C[j].nny]
    IN  IF status \notin Failures THEN u
        ELSE [u EXCEPT !.scopes[th][LastCall(s.scopes[th])].err = v]

luaD_throw(s, th, status) == JumpTo(s, th, Max(errorJmps(s, th)), status)
luaD_throwbaselevel(s, th, status) == JumpTo(s, th, Min(errorJmps(s, th)), status)

luaD_errerr(s, th) == luaD_throw(push(s, th, Message("error_in_handler")), th, "ERRERR")

\* What luaG_errormsg does when the handler, if there is one, has returned.
AfterHandler(s, th) ==
    LET u == IF Last(s.L[th].stack) # Nil THEN s
             ELSE push(settop(s, th, top(s, th) - 1), th, Message("no_error_object"))
    IN  luaD_throw(u, th, "ERRRUN")

\* Counts a call of the function at func and begins it: a fresh luaV_execute
\* above a ccall.  Only the message handler's result is wanted.
Counted(s, th, inc, nny) ==
    PushC([s EXCEPT !.L[th].nC = @ + inc, !.L[th].nny = @ + nny],
          [at |-> "ccall", th |-> th, inc |-> inc, nny |-> nny])
Enter(s, th, func, wanted) ==
    IF s.L[th].nC >= (LUAI_MAXCCALLS \div 10) * 11 THEN luaD_errerr(s, th)
    ELSE PushC(prepCallInfo(s, th, [Frame(func, wanted) EXCEPT !.fresh = TRUE]), Activation("execute", th))

\* The error object is on the top; the handler's position goes below it.
CallHandler(s, th) ==
    Counted(PushC([s EXCEPT !.L[th].stack = Append(Append(Front(@), Function), Last(@))],
                  Activation("luaG_errormsg", th)), th, 1, 1)
EnterHandler(s, th) == Enter(s, th, top(s, th) - 1, 1)

\* The error that the count has reached its limit: its handler, if there is
\* one, is beyond the limit.
StackOverflow(s, th) ==
    LET u == push(s, th, Message("C_stack_overflow"))
    IN  IF s.L[th].errfunc = 0 THEN AfterHandler(u, th) ELSE EnterHandler(CallHandler(u, th), th)

ccall(s, th, func, wanted, inc, nny) ==
    LET u == Counted(s, th, inc, nny)
    IN  IF u.L[th].nC = LUAI_MAXCCALLS THEN StackOverflow(u, th) ELSE Enter(u, th, func, wanted)

luaG_errormsg(s, th) ==
    LET u == CallHandler(s, th)
    IN  IF s.L[th].errfunc = 0 THEN AfterHandler(s, th)
        ELSE IF u.L[th].nC = LUAI_MAXCCALLS THEN StackOverflow(u, th) ELSE EnterHandler(u, th)

luaD_call(s, th, func) == ccall(s, th, func, 0, 1, 0)
luaD_callnoyield_bug(s, th, func) == ccall(s, th, func, 0, 1, 0)
luaD_callnoyield(s, th, func) == ccall(s, th, func, 0, 1, 1)

luaG_runerror(s, th, text) == luaG_errormsg(push(s, th, Message(text)), th)

-----------------------------------------------------------------------------
(* Upvalues and to-be-closed variables (lfunc.c).                           *)
luaF_findupval(s, th, level) == [s EXCEPT !.L[th].open = @ \union {level}]
luaF_closeupval(s, th, level) == [s EXCEPT !.L[th].open = {p \in @ : p < level}]

luaF_newtbcupval(s, th, level) == [s EXCEPT !.L[th].tbc = Append(@, level)]
poptbclist_bug(s, th) == s
poptbclist(s, th) == [s EXCEPT !.L[th].tbc = Front(@)]
Pending(s, th, level) == s.L[th].tbc # << >> /\ Last(s.L[th].tbc) >= level

\* The loop of luaF_close is an activation: it closes one variable at a time.
luaF_close_bug(s, th, level, status, yy) ==
    PushC(s, [at |-> "luaF_close", th |-> th, level |-> level, status |-> status, yy |-> yy])
luaF_close(s, th, level, status, yy) ==
    PushC(luaF_closeupval(s, th, level),
          [at |-> "luaF_close", th |-> th, level |-> level, status |-> status, yy |-> yy])

prepcallclosemth(s, th, level, status) ==
    CASE status = "OK" -> settop(s, th, level)
      [] status = "CLOSEKTOP" -> s
      [] OTHER -> luaD_seterrorobj(s, th, status, level + 1)

callclosemethod(s, th, yy) ==
    LET u == push(s, th, Function)
    IN  IF yy THEN luaD_call(u, th, top(u, th)) ELSE luaD_callnoyield(u, th, top(u, th))

\* History: a variable is no longer open when its method is called, and one
\* that was not open comes back.
CloseVariable(s, th, level) ==
    LET v    == s.L[th].stack[level]
        left == SelectSeq(s.scopes[th], LAMBDA e : <<"closable", e.var>> # v)
    IN  [poptbclist(s, th) EXCEPT !.scopes[th] = IF left = @ THEN Append(@, S!Variable(v[2])) ELSE left]

CloseLoop(s) ==
    LET a == Top(s)   th == a.th   p == Last(s.L[th].tbc)
    IN  IF Pending(s, th, a.level)
        THEN callclosemethod(prepcallclosemth(CloseVariable(s, th, p), th, p, a.status), th, a.yy)
        ELSE PopC(s)

-----------------------------------------------------------------------------
(* Returning and protected calls (ldo.c, lapi.c, lbaselib.c).               *)
luaD_poscall(s, th) ==
    LET f == ci(s, th)
        results == IF f.wanted = 1 THEN <<Last(s.L[th].stack)>> ELSE << >>
    IN  [s EXCEPT !.L[th].stack = Below(@, f.func - 1) \o results, !.L[th].ci = Front(@)]

\* A C function returns; its own variables are closed first, and when they
\* are it goes on here (moveresults, CIST_CLSRET).
Returns(s, th, popped) ==
    LET f == ci(s, th)
    IN  IF f.tbc /\ Pending(s, th, f.func) THEN luaF_close(s, th, f.func, "CLOSEKTOP", TRUE)
        ELSE luaD_poscall(IF popped THEN PopC(s) ELSE s, th)

\* History: the protected call that is innermost ends.
EndCall(s, th) == [s EXCEPT !.scopes[th] = LET i == LastCall(@) IN SubSeq(@, 1, i - 1) \o SubSeq(@, i + 1, Len(@))]
FailCall(s, th) == [EndCall(s, th) EXCEPT !.result = <<th, Last(s.L[th].stack)>>]
BeginCall(s, th) == [s EXCEPT !.scopes[th] = Append(@, S!Call)]

\* A C function called from Lua code.
precallC(s, th, at) ==
    LET u == push(s, th, Function)
    IN  PushC(prepCallInfo(u, th, CFrame(top(u, th))), Activation(at, th))

setci(s, th, f) == [s EXCEPT !.L[th].ci = Append(Front(@), f)]
yieldable(s, th) == s.L[th].nny = 0

\* lua_pcallk with a continuation, or luaD_pcall.  xpcall's handler is where
\* the function's first argument was.
lua_pcallk(s, th, errfunc, k) ==
    LET u == push(s, th, Function)
        f == [ci(u, th) EXCEPT !.k = TRUE, !.ypcall = TRUE, !.funcidx = top(u, th),
                               !.old_errfunc = u.L[th].errfunc]
        v == BeginCall(u, th)
    IN  IF k /\ yieldable(s, th)
        THEN luaD_call([setci(v, th, f) EXCEPT !.L[th].errfunc = errfunc], th, top(u, th))
        ELSE luaD_callnoyield([PushC(v, RawRun("luaD_pcall", v, th, top(v, th))) EXCEPT !.L[th].errfunc = errfunc],
                              th, top(u, th))

luaB_pcall(s, th) == lua_pcallk(push(precallC(s, th, "luaB_pcall"), th, <<"true", 0>>), th, 0, TRUE)
luaB_xpcall(s, th) ==
    LET u == push(precallC(s, th, "luaB_pcall"), th, Function)
    IN  lua_pcallk(push(u, th, <<"true", 0>>), th, top(u, th), TRUE)

\* The call in lua_pcallk has returned without an error: the continuation and
\* the function that called it do the same.
AfterPcallk(s, th, popped) ==
    LET f == ci(s, th)
        u == [setci(s, th, [f EXCEPT !.ypcall = FALSE]) EXCEPT !.L[th].errfunc = f.old_errfunc]
    IN  Returns(IF f.ypcall THEN EndCall(u, th) ELSE s, th, popped)

Give(s, status) == [s EXCEPT !.C[Len(s.C)].status = status]     \* to the caller

luaD_closeprotected(s, th, level, status) ==
    luaF_close(PushC(s, [RawRun("closeprotected", s, th, level) EXCEPT !.closing = status]),
               th, level, status, FALSE)
AfterCloseprotected(s) ==
    LET a == Top(s)   th == a.th
    IN  IF a.status = "OK" THEN Give(PopC(s), a.closing)
        ELSE luaD_closeprotected([PopC(s) EXCEPT !.L[th].ci = SubSeq(@, 1, a.old_ci)], th, a.level, a.status)

\* luaD_pcall after its function has returned or thrown; closing goes on
\* above an activation that is no longer protected.
AfterPcall(s) ==
    LET a == Top(s)   th == a.th
    IN  IF a.status = "OK"
        THEN EndCall([PopC(s) EXCEPT !.L[th].errfunc = a.errfunc, !.L[th].nC = a.nC, !.L[th].nny = a.nny], th)
        ELSE luaD_closeprotected([PushC(PopC(s), [a EXCEPT !.at = "luaD_pcall_error"])
                                    EXCEPT !.L[th].ci = SubSeq(@, 1, a.old_ci)], th, a.level, a.status)
AfterPcallError(s) ==
    LET a == Top(s)   th == a.th
        u == luaD_seterrorobj(PopC(s), th, a.status, a.level)
    IN  FailCall([u EXCEPT !.L[th].errfunc = a.errfunc], th)

-----------------------------------------------------------------------------
(* Coroutines (ldo.c, lstate.c, lcorolib.c).                                *)
finishCcall_bug(s, th) ==
    LET f == ci(s, th)
        u == [luaD_seterrorobj(s, th, f.recst, f.funcidx) EXCEPT !.L[th].errfunc = f.old_errfunc]
        v == setci(u, th, [f EXCEPT !.ypcall = FALSE, !.recst = "OK"])
    IN  IF ~f.ypcall \/ f.recst = "OK" THEN AfterPcallk(s, th, FALSE) ELSE Returns(FailCall(v, th), th, FALSE)
finishCcall(s, th) ==
    LET f == ci(s, th)
        u == [luaD_seterrorobj(luaF_closeupval(s, th, f.funcidx), th, f.recst, f.funcidx)
                EXCEPT !.L[th].errfunc = f.old_errfunc]
        v == setci(u, th, [f EXCEPT !.ypcall = FALSE, !.recst = "OK"])
    IN  IF ~f.ypcall \/ f.recst = "OK" THEN AfterPcallk(s, th, FALSE)
        ELSE IF Pending(s, th, f.funcidx) THEN luaF_close(s, th, f.funcidx, f.recst, TRUE)
        ELSE Returns(FailCall(v, th), th, FALSE)

unroll(s) ==
    LET th == Top(s).th
    IN  IF Len(s.L[th].ci) = 1 THEN PopC(s)
        ELSE IF ci(s, th).lua THEN PushC(s, Activation("execute", th))
        ELSE finishCcall(s, th)

findpcall(s, th) == {i \in DOMAIN s.L[th].ci : s.L[th].ci[i].ypcall}

\* The error of a call of lua_resume itself.
resume_error(s, co, text) == Give(push(s, co, Message(text)), "not_resumed")

lua_resume(s, co, from) ==
    LET u == [s EXCEPT !.L[co].nC = s.L[from].nC + 1, !.L[co].nny = 0, !.L[co].status = "OK"]
        v == PushC(u, RawRun("lua_resume", u, co, 0))
    IN  IF s.L[co].status = "OK" /\ Len(s.L[co].ci) # 1
        THEN resume_error(s, co, "non_suspended_coroutine")
        ELSE IF s.L[co].status \in Failures \/ (s.L[co].status = "OK" /\ top(s, co) = 1)
        THEN resume_error(s, co, "dead_coroutine")
        ELSE IF s.L[from].nC >= LUAI_MAXCCALLS
        THEN resume_error([s EXCEPT !.L[co].nC = s.L[from].nC, !.L[co].nny = 0], co, "C_stack_overflow")
        ELSE IF s.L[co].status = "OK" THEN ccall(v, co, top(v, co), 0, 0, 0)
        ELSE luaD_poscall(PushC(v, Activation("unroll", co)), co)

\* lua_resume after resume or unroll has ended: precover, and the end.
AfterResume(s) ==
    LET a == Top(s)   th == a.th
        i == Max(findpcall(s, th))
        recovering == [[s EXCEPT !.L[th].ci = SubSeq(@, 1, i), !.C[Len(s.C)].status = "OK"]
                          EXCEPT !.L[th].ci[i].recst = a.status]
    IN  IF a.status \notin Failures THEN Give(PopC(s), "OK")
        ELSE IF findpcall(s, th) # {} THEN PushC(recovering, Activation("unroll", th))
        ELSE Give(PopC([luaD_seterrorobj(s, th, a.status, top(s, th) + 1) EXCEPT !.L[th].status = a.status]), a.status)

lua_yieldk(s, th) ==
    IF ~yieldable(s, th) THEN luaG_runerror(s, th, "yield_across_C_call")
    ELSE luaD_throw([s EXCEPT !.L[th].status = "YIELD"], th, "YIELD")

\* History: the thread's protected calls are dropped.
resetCI(s, th) ==
    [s EXCEPT !.L[th].ci = ResetThread.ci, !.L[th].stack[1] = Nil, !.L[th].status = "OK", !.L[th].errfunc = 0,
              !.scopes[th] = <<@[1]>> \o SelectSeq(Tail(@), LAMBDA e : e.var > 0)]

lua_closethread(s, co, from) ==
    LET u == resetCI([s EXCEPT !.L[co].nC = s.L[from].nC, !.L[co].nny = 0], co)
        status == IF s.L[co].status = "YIELD" THEN "OK" ELSE s.L[co].status
    IN  luaD_closeprotected(PushC(u, [at |-> "lua_closethread", th |-> co, from |-> from, status |-> "OK"]),
                            co, 2, status)

AfterClosethread(s) ==
    LET a == Top(s)   co == a.th
        u == IF a.status = "OK" THEN settop(s, co, 1) ELSE luaD_seterrorobj(s, co, a.status, 2)
    IN  IF co = a.from THEN luaD_throwbaselevel(u, co, a.status) ELSE Give(PopC(u), a.status)

\* The coroutine's error goes to the other thread; history: it is delivered.
Deliver(s, co) == [settop(s, co, top(s, co) - 1) EXCEPT !.result = <<co, Last(s.L[co].stack)>>]

CallCo(s, th, at, co) ==
    LET u == precallC(s, th, at)
    IN  [u EXCEPT !.C[Len(u.C)] = [at |-> at, th |-> th, co |-> co, status |-> "OK"]]

luaB_coresume(s) ==
    LET a == Top(s)
    IN  CASE a.status = "not_resumed" -> Returns(settop(s, a.co, top(s, a.co) - 1), a.th, TRUE)
          [] a.status \in Failures    -> Returns(Deliver(s, a.co), a.th, TRUE)
          [] OTHER                    -> Returns(s, a.th, TRUE)

\* An error of the coroutine closes it and then becomes the caller's.
luaB_auxwrap(s) ==
    LET a == Top(s)   e == Last(s.L[a.co].stack)
    IN  CASE a.status = "OK" -> Returns(s, a.th, TRUE)
          [] a.status \in Failures /\ s.L[a.co].status \in Failures ->
                 [lua_closethread(s, a.co, a.th) EXCEPT !.C[Len(s.C)].at = "luaB_auxwrap_closed"]
          [] OTHER -> luaG_errormsg(push(settop(s, a.co, top(s, a.co) - 1), a.th, e), a.th)
AfterAuxwrapCloses(s) ==
    LET a == Top(s)   e == Last(s.L[a.co].stack)
    IN  luaG_errormsg(push(Deliver(s, a.co), a.th, e), a.th)

auxstatus(s, th, co) ==
    CASE co = th -> "running"
      [] co # th /\ s.L[co].status = "YIELD" -> "suspended"
      [] co # th /\ s.L[co].status = "OK" ->
            (IF Len(s.L[co].ci) > 1 THEN "normal" ELSE IF top(s, co) = 1 THEN "dead" ELSE "suspended")
      [] OTHER -> "dead"

luaB_close(s, th, co) ==
    LET status == auxstatus(s, th, co)
        u == CallCo(s, th, "luaB_close", co)
    IN  CASE status \in {"dead", "suspended"} \/ (status = "running" /\ co # Main) -> lua_closethread(u, co, th)
          [] status = "normal" -> luaG_runerror(u, th, "normal_coroutine")
          [] OTHER             -> luaG_runerror(u, th, "main_thread")
AfterClose(s) ==
    LET a == Top(s) IN Returns(IF a.status = "OK" THEN s ELSE Deliver(s, a.co), a.th, TRUE)

-----------------------------------------------------------------------------
(* A finalizer runs when the collector takes a step (lgc.c).                *)
GCTM(s, th) ==
    LET u == PushC(push(s, th, Function), [at |-> "GCTM", th |-> th, level |-> top(s, th), oldgcstp |-> s.gcstp])
        v == BeginCall(PushC(u, RawRun("luaD_pcall", u, th, top(u, th))), th)
    IN  luaD_callnoyield([v EXCEPT !.gcstp = TRUE, !.L[th].errfunc = 0], th, top(u, th))
AfterGCTM_bug(s) == settop(PopC(s), Top(s).th, Top(s).level)
AfterGCTM(s) ==
    LET a == Top(s) IN [settop(PopC(s), a.th, a.level) EXCEPT !.gcstp = a.oldgcstp]

-----------------------------------------------------------------------------
(* Lua code (lvm.c): what the function on the top may do.                   *)
self == Top(Now).th
frame == ci(Now, self)
Executing == Top(Now).at = "execute" /\ frame.op = "none"
Op(name) == name \in program.ops /\ ops < program.max /\ Executing /\ ops' = ops + 1

\* OP_TBC on a new local; some values cannot be closed.
NewVariable(closable) ==
    LET u == [push(Now, self, Closable(variables + 1)) EXCEPT !.variables = @ + 1]
        v == luaF_newtbcupval(u, self, top(u, self))
    IN  /\ Op("tbc") /\ (closable \/ "error" \in program.ops)
        /\ Become(IF closable THEN [v EXCEPT !.scopes[self] = Append(@, S!Variable(v.variables))]
                  ELSE luaG_runerror(u, self, "non_closable_value"))

Capture == /\ Op("capture")
           /\ LET u == push(Now, self, Function) IN Become(luaF_findupval(u, self, top(u, self)))

Locals == {p \in L[self].open \union ToSet(L[self].tbc) : p > frame.func}

\* The end of a block: OP_CLOSE, which a yield makes luaV_execute repeat.
OP_CLOSE(level) ==
    /\ Op("close_block") /\ level \in Locals
    /\ Become(luaF_close(setci(Now, self, [frame EXCEPT !.op = "OP_CLOSE", !.level = level]), self, level, "OK", TRUE))

FinishClose ==
    /\ Top(Now).at = "execute" /\ frame.op = "OP_CLOSE" /\ UNCHANGED ops
    /\ Become(IF Pending(Now, self, frame.level) THEN luaF_close(Now, self, frame.level, "OK", TRUE)
              ELSE settop(setci(Now, self, [frame EXCEPT !.op = "none"]), self, frame.level - 1))

\* A message handler returns its argument or nil.
OP_RETURN ==
    LET u == luaF_closeupval(Now, self, frame.func + 1)
        end(w) == luaD_poscall(IF frame.fresh THEN PopC(w) ELSE w, self)
    IN  /\ Top(Now).at = "execute" /\ frame.op \in {"none", "OP_RETURN"} /\ UNCHANGED ops
        /\ IF Pending(Now, self, frame.func + 1)
           THEN Become(luaF_close(setci(Now, self, [frame EXCEPT !.op = "OP_RETURN"]), self, frame.func + 1, "CLOSEKTOP", TRUE))
           ELSE \/ Become(end(u))
                \/ frame.wanted = 1 /\ Become(end(push(u, self, Nil)))

OP_CALL == /\ Op("call")
           /\ LET u == push(Now, self, Function) IN Become(prepCallInfo(u, self, Frame(top(u, self), 0)))

OP_TAILCALL == /\ Op("call") /\ ~Pending(Now, self, frame.func + 1) /\ frame.wanted = 0
               /\ Become(settop(luaF_closeupval(Now, self, frame.func + 1), self, frame.func))

\* A metamethod of an operation.
luaT_callTMres == /\ Op("metamethod")
                  /\ LET u == push(Now, self, Function) IN Become(luaD_call(u, self, top(u, self)))

\* C functions that call back: without a continuation, as table.sort does, or
\* with one, as dofile does.
lua_callk(k) ==
    LET u == push(precallC(Now, self, "lua_callk"), self, Function)
    IN  IF k /\ yieldable(u, self) THEN luaD_call(setci(u, self, [ci(u, self) EXCEPT !.k = TRUE]), self, top(u, self))
        ELSE luaD_callnoyield(u, self, top(u, self))
Sort   == Op("callback") /\ Become(lua_callk(FALSE))
DoFile == Op("dofile") /\ Become(lua_callk(TRUE))

\* A C function with a variable to be closed (lua_toclose), which returns.
CFunctionWithVariable ==
    LET u == [push(precallC(Now, self, "C_function"), self, Closable(variables + 1)) EXCEPT !.variables = @ + 1]
        v == luaF_newtbcupval(setci(u, self, [ci(u, self) EXCEPT !.tbc = TRUE]), self, top(u, self))
    IN  /\ Op("C_tbc")
        /\ Become([v EXCEPT !.scopes[self] = Append(@, S!Variable(v.variables))])

Pcall  == Op("pcall") /\ Become(luaB_pcall(Now, self))
Xpcall == Op("xpcall") /\ Become(luaB_xpcall(Now, self))

Raise == /\ Op("error")
         /\ LET u == [precallC(Now, self, "error") EXCEPT !.errors = @ + 1]
            IN  Become(luaG_errormsg(push(u, self, Error(u.errors)), self))
RaiseNil == Op("error") /\ Become(luaG_errormsg(push(precallC(Now, self, "error"), self, Nil), self))
NoMemory == Op("memory") /\ Become(luaD_throw(Now, self, "ERRMEM"))

Yield == Op("yield") /\ Become(lua_yieldk(precallC(Now, self, "yield"), self))

\* A coroutine that is not there yet gets its function.
Created(co) == IF L[co].stack # << >> THEN Now ELSE [Now EXCEPT !.L[co] = [ResetThread EXCEPT !.stack = <<Nil, Function>>]]
Known(co) == L[co].stack # << >>
Resume(co) == /\ Op("resume") /\ (Known(co) \/ co \in program.co)
              /\ Become(lua_resume(CallCo(Created(co), self, "luaB_coresume", co), co, self))
Wrap(co)   == /\ Op("wrap") /\ co \in program.co
              /\ Become(lua_resume(CallCo(Created(co), self, "luaB_auxwrap", co), co, self))
Close(co)  == /\ Op(IF co = self THEN "close_self" ELSE "close") /\ Known(co)
              /\ Become(luaB_close(Now, self, co))

Finalizer == Op("finalizer") /\ ~gcstp /\ Become(GCTM(Now, self))

\* C code goes on when what it called has returned.
Continue ==
    /\ UNCHANGED ops
    /\ LET s == Now   a == Top(Now)
       IN  CASE a.at = "ccall" -> Become([PopC(s) EXCEPT !.L[a.th].nC = @ - a.inc, !.L[a.th].nny = @ - a.nny])
             [] a.at = "luaG_errormsg"        -> Become(AfterHandler(s, a.th))
             [] a.at = "luaF_close"           -> Become(CloseLoop(s))
             [] a.at = "closeprotected"       -> Become(AfterCloseprotected(s))
             [] a.at = "luaD_pcall"           -> Become(AfterPcall(s))
             [] a.at = "luaD_pcall_error"    -> Become(AfterPcallError(s))
             [] a.at = "luaB_pcall"           -> Become(AfterPcallk(s, a.th, TRUE))
             [] a.at = "unroll"               -> Become(unroll(s))
             [] a.at = "lua_resume"           -> Become(AfterResume(s))
             [] a.at = "lua_closethread"      -> Become(AfterClosethread(s))
             [] a.at = "luaB_coresume"        -> Become(luaB_coresume(s))
             [] a.at = "luaB_auxwrap"         -> Become(luaB_auxwrap(s))
             [] a.at = "luaB_auxwrap_closed" -> Become(AfterAuxwrapCloses(s))
             [] a.at = "luaB_close"           -> Become(AfterClose(s))
             [] a.at = "GCTM"                 -> Become(AfterGCTM(s))
             [] a.at \in {"lua_callk", "C_function"} -> Become(Returns(s, a.th, TRUE))
             [] OTHER                         -> FALSE

\* The host calls the program (executeLuaFile).
Start(host) ==
    LET t == [L |-> [t \in Threads |-> IF t # Main THEN [ResetThread EXCEPT !.stack = << >>]
                                       ELSE [ResetThread EXCEPT !.nC = host, !.nny = 1]],
              C |-> <<Activation("host", Main)>>, gcstp |-> FALSE, variables |-> 0, errors |-> 0,
              scopes |-> [t \in Threads |-> <<S!Call>>], result |-> << >>]
        u == push(t, Main, Function)
    IN  luaD_callnoyield(PushC(BeginCall(u, Main), RawRun("luaD_pcall", u, Main, 2)), Main, 2)

Init == /\ program \in Repertoires
        /\ L = Start(program.host).L /\ C = Start(program.host).C
        /\ gcstp = FALSE /\ ops = 0 /\ variables = 0 /\ errors = 0
        /\ scopes = Start(program.host).scopes /\ result = << >>

Next == \/ \E closable \in BOOLEAN : NewVariable(closable)
        \/ Capture \/ FinishClose \/ OP_RETURN \/ OP_CALL \/ OP_TAILCALL \/ luaT_callTMres
        \/ \E p \in 1..Len(L[self].stack) : OP_CLOSE(p)
        \/ Sort \/ DoFile \/ CFunctionWithVariable \/ Pcall \/ Xpcall \/ Raise \/ RaiseNil \/ NoMemory
        \/ Yield \/ Finalizer \/ Continue
        \/ \E co \in Threads : Resume(co) \/ Wrap(co) \/ Close(co)

Spec == Init /\ [][Next]_vars

-----------------------------------------------------------------------------
\* ldo.c and lfunc.c: variables are closed once, innermost first, before
\* anything around them ends, and a protected call that fails gives the error
\* that was raised last in it: with errors, yields, coroutines and closing in
\* any order.
ImplementsScopes == S!ScopesSpec

\* lstate.h: the count of C calls is the number of calls on the C stack,
\* however many were cut off by errors and yields.
CCallsAreCounted ==
    Top(Now).at = "execute" =>
        L[self].nC = program.host + Cardinality({i \in DOMAIN C : \/ C[i].at = "ccall" /\ C[i].inc = 1
                                                             \/ C[i].at = "lua_resume"})

\* lstate.h, ldo.c: a thread that may yield has nothing on the C stack, and
\* nothing in its frames when it has yielded, that could not go on.
YieldsLoseNothing ==
    /\ Top(Now).at = "execute" /\ yieldable(Now, self) =>
          \A i \in DOMAIN C : C[i].th = self /\ C[i].at = "ccall" => C[i].nny = 0
    /\ \A t \in Coroutines : L[t].status = "YIELD" =>
          \A i \in 2..(Len(L[t].ci) - 1) : LET g == L[t].ci[i] IN g.lua \/ g.k \/ g.tbc

\* lfunc.c: an open upvalue is a live slot of the stack.
OpenUpvaluesAreAlive == \A t \in Threads : \A p \in L[t].open : p <= Len(L[t].stack)

\* lgc.c: the collector is stopped by itself only while a finalizer runs, and
\* nothing but a coroutine that closes itself in one can leave it so: the jump
\* to the coroutine's base passes over GCTM, which restores gcstp.
Collecting   == gcstp => \E i \in DOMAIN C : C[i].at = "GCTM"
ClosesItself == Top(Now).at = "lua_closethread" /\ Top(Now).th = Top(Now).from
CollectorRuns == [][Collecting => Collecting' \/ ClosesItself]_vars
=============================================================================
