------------------------------- MODULE LuaMap --------------------------------
(***************************************************************************)
(* What a Lua table promises to programs: it is a set of entries, at most  *)
(* one for a key; an assignment changes one entry or, when it fails, none; *)
(* and a traversal during which fields are only changed or cleared meets   *)
(* every field that stays, once.                                           *)
(***************************************************************************)
CONSTANTS Keys, Vals, Nil

VARIABLES weak,       \* whether values that are collected disappear from it
          entries,    \* pairs of a key and its value
          at,         \* key the traversal stands at, Nil before the first
          visited,    \* keys it has met
          traversing

map == <<weak, entries, at, visited, traversing>>

MapInit == weak \in BOOLEAN /\ entries = {} /\ at = Nil /\ visited = {} /\ traversing = FALSE

Gone == IF weak THEN SUBSET Vals ELSE {{}}

Present == {e[1] : e \in entries}

Assign(k, v, gone) ==
    /\ UNCHANGED <<at, visited, traversing>>
    /\ entries' = {e \in entries : e[1] # k /\ e[2] \notin gone}
                     \union IF v = Nil THEN {} ELSE {<<k, v>>}
    /\ traversing => k \in Present

\* The items of a constructor.
SetList ==
    /\ UNCHANGED <<at, visited, traversing>> /\ ~traversing
    /\ {e \in entries' : e[1][1] # "int"} = {e \in entries : e[1][1] # "int"}

\* Values that are collected.
Forget(gone) == /\ UNCHANGED <<at, visited, traversing>>
                /\ entries' = {e \in entries : e[2] \notin gone}

Begin == /\ ~traversing /\ traversing' = TRUE
         /\ UNCHANGED <<entries, at, visited>>

Step == /\ traversing /\ traversing'
        /\ at' \in Present \ visited /\ visited' = visited \union {at'}
        /\ UNCHANGED entries

Finish == /\ traversing /\ ~traversing' /\ at' = Nil /\ visited' = {}
          /\ Present \subseteq visited
          /\ UNCHANGED entries

MapNext == /\ UNCHANGED weak
           /\ \/ Begin \/ Step \/ Finish \/ SetList
              \/ \E gone \in Gone : \/ Forget(gone)
                                    \/ \E k \in Keys, v \in Vals \union {Nil} : Assign(k, v, gone)

MapSpec == MapInit /\ [][MapNext]_map
=============================================================================
