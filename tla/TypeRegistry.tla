---------------------------- MODULE TypeRegistry ----------------------------
(***************************************************************************)
(* What a type table promises to the code that compares type ids instead   *)
(* of types: every type that has been asked for has one id, no two types   *)
(* share an id, and an id once given out never changes its type.           *)
(***************************************************************************)
VARIABLES
    ids,    \* the id of each type asked for so far, builtin types included
    asked,  \* the type asked for last
    answer  \* the id it was given

(* One to one before anything is asked for.                                *)
Init ==
    /\ \A s, u \in DOMAIN ids : ids[s] = ids[u] => s = u
    /\ asked \in DOMAIN ids
    /\ answer = ids[asked]

Known == asked' \in DOMAIN ids /\ UNCHANGED ids

New ==
    /\ asked' \notin DOMAIN ids
    /\ DOMAIN ids' = DOMAIN ids \union {asked'}
    /\ \A s \in DOMAIN ids : ids'[s] = ids[s] /\ ids'[asked'] # ids[s]

Next == (Known \/ New) /\ answer' = ids'[asked']

Spec == Init /\ [][Next]_<<ids, asked, answer>>

=============================================================================
