------------------------------ MODULE MCLuaCalls ------------------------------
(* Programs in the main thread and two coroutines, with a handful of          *)
(* operations each.                                                           *)
EXTENDS LuaCalls

CONSTANTS co1, co2
Program(do, n, host) == [ops |-> do, co |-> {co1}, max |-> n, host |-> host]

MCRepertoires ==
    {\* everything, with yields across all of it
     Program({"tbc", "capture", "call", "metamethod", "callback", "dofile", "C_tbc",
              "pcall", "error", "yield", "resume", "close_block"}, 5, 0),
     \* coroutines closed from outside and by errors
     Program({"tbc", "error", "memory", "wrap", "close", "yield", "pcall"}, 6, 0),
     \* coroutines that close themselves
     [Program({"tbc", "close_self", "callback", "pcall", "resume", "capture"}, 5, 0)
        EXCEPT !.co = {co1, co2}],
     \* near the limit of C calls
     Program({"pcall", "xpcall", "error", "metamethod", "callback", "resume", "tbc"}, 5, 16),
     \* finalizers
     Program({"finalizer", "tbc", "error", "yield", "resume", "close"}, 5, 0),
     \* finalizers in coroutines that close themselves
     Program({"finalizer", "close_self", "tbc", "pcall", "resume"}, 4, 0)}
===============================================================================
