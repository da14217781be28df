---------------------------- MODULE ContextStack ----------------------------
(***************************************************************************)
(* What the handling of ctx_ promises, without syntax trees, values or     *)
(* statements: every activity in progress (a visit, in the interpreter)    *)
(* has begun in some environment, and when it ends, alone or together with *)
(* the activities it started, that environment is the current one again.   *)
(*                                                                         *)
(* An activity is begun in the current environment, in a new scope below   *)
(* it (a block), or in a new scope below the global one (a function).      *)
(* When everything is given up at once (an error reported by main), the    *)
(* environment is the one of the activity that failed or of one around it. *)
(***************************************************************************)
EXTENDS Naturals, Sequences

VARIABLES
    env,    \* the current environment, a path of scopes
    saves,  \* where each activity in progress began, innermost last
    made    \* how many scopes have been made; they are numbered from 1

Init == env = <<1>> /\ saves = <<>> /\ made = 1

Begin(e) == env' = e /\ saves' = Append(saves, e)

BeginHere == Begin(env) /\ UNCHANGED made

BeginInBlock == Begin(Append(env, made + 1)) /\ made' = made + 1

BeginInFunction == Begin(<<1, made + 1>>) /\ made' = made + 1

(* All activities from number i on end.                                    *)
End(i) ==
    /\ env' = saves[i]
    /\ saves' = SubSeq(saves, 1, i - 1)
    /\ UNCHANGED made

GiveUp ==
    /\ saves' = <<>>
    /\ env' = env \/ \E i \in 1 .. Len(saves) : env' = saves[i]
    /\ UNCHANGED made

Next ==
    \/ BeginHere \/ BeginInBlock \/ BeginInFunction
    \/ \E i \in 1 .. Len(saves) : End(i)
    \/ GiveUp

Spec == Init /\ [][Next]_<<env, saves, made>>

=============================================================================
