------------------------------ MODULE Programs ------------------------------
(***************************************************************************)
(* Programs for the model checker, put together from a menu of statements: *)
(* a program is a sequence of numbers of the menu, and its root the path   *)
(* that begins with 0.  The programs share the nodes of the statements; no *)
(* program has a statement twice.                                          *)
(***************************************************************************)
EXTENDS Syntax

ProgramRoot(s) == <<0>> \o s

ProgramRoots(programs) == {ProgramRoot(s) : s \in programs}

ProgramNodes(menu, programs) == NodesOf(menu) \union ProgramRoots(programs)

ProgramAst(menu, programs) ==
    AstOf(menu)
    @@ [r \in ProgramRoots(programs) |->
            [kind |-> "StmtList", kids |-> [i \in 1 .. Len(r) - 1 |-> <<r[i + 1]>>]]]

(* The sequences of n different choices.                                  *)
Arrangements(choices, n) ==
    {s \in [1 .. n -> choices] : \A i, j \in 1 .. n : i # j => s[i] # s[j]}

(* Everything up to n of them, after the statements of prefix.             *)
Menu(prefix, choices, n) ==
    {prefix \o s : s \in UNION {Arrangements(choices, k) : k \in 0 .. n}}

=============================================================================
