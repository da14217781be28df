------------------------------- MODULE Symtab -------------------------------
(***************************************************************************)
(* Scope<T> of include/symtab.hpp: a map of bindings with a link to the    *)
(* scope around it.  The interpreter keeps its values in such scopes, the  *)
(* semantic pass its symbols and the LLVM pass its slots.                  *)
(*                                                                         *)
(* A heap H is a sequence of scopes: H[s] holds the bindings of scope s,   *)
(* as a function whose domain is the names it declares.  A parent link     *)
(* never changes once the scope is built, so a pointer to a scope is       *)
(* modelled by its environment: the path of scope numbers from the         *)
(* outermost scope down to the one pointed to.  Scope 1 is the global one. *)
(* Scopes whose last owner is gone stay in H and are never read again.     *)
(***************************************************************************)
EXTENDS Naturals, Sequences

Global == 1

GlobalEnv == <<Global>>

NoBindings == [x \in {} |-> x]

Bind(b, x, v) == [y \in DOMAIN b \union {x} |-> IF y = x THEN v ELSE b[y]]

(* The scope a new Scope(parent) object becomes, and the environment that  *)
(* points to it.                                                           *)
Extend(H, b) == Append(H, b)

Child(H, env) == Append(env, Len(H) + 1)

Parent(env) == SubSeq(env, 1, Len(env) - 1)

Declares(H, env, i, x) == x \in DOMAIN H[env[i]]

(* resolve and resolveMut walk from the innermost scope outwards and stop  *)
(* at the first scope that declares the name.                              *)
IsHolder(H, env, i, x) ==
    /\ Declares(H, env, i, x)
    /\ \A j \in (i + 1) .. Len(env) : ~ Declares(H, env, j, x)

IsBound(H, env, x) == \E i \in 1 .. Len(env) : IsHolder(H, env, i, x)

Holder(H, env, x) ==
    env[CHOOSE i \in 1 .. Len(env) : IsHolder(H, env, i, x)]

Resolve(H, env, x) == H[Holder(H, env, x)][x]

(* The write through the pointer resolveMut returns.                       *)
Update(H, env, x, v) == [H EXCEPT ![Holder(H, env, x)] = Bind(@, x, v)]

(* MUTANT: a declaration overwrites the variable it should shadow.         *)
DefineOverwrites(H, env, x, v) ==
    IF IsBound(H, env, x) THEN Update(H, env, x, v)
    ELSE [H EXCEPT ![env[Len(env)]] = Bind(@, x, v)]

(* define writes in the innermost scope, whatever the outer ones hold.     *)
Define(H, env, x, v) == [H EXCEPT ![env[Len(env)]] = Bind(@, x, v)]

=============================================================================
