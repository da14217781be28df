------------------------------ MODULE Pipeline ------------------------------
(***************************************************************************)
(* monkey -c (main.cpp) and the Compiler it runs (compiler.hpp): the file  *)
(* is parsed, and the passes run over its tree in the order they were      *)
(* added, handing over through the tree's annotations and the Compiler's   *)
(* members: the semantic pass (module Semantic), the IR generator (module  *)
(* IRGen) and mem2reg, which asks for a module and leaves it as it is.  An *)
(* exception of a pass is caught in main; the module is printed otherwise. *)
(*                                                                         *)
(* The passes' variables are those of their modules, the generator's with  *)
(* gen in front where the names meet.                                      *)
(***************************************************************************)
EXTENDS Trees

VARIABLES
    phase,      \* main: "parse", "compile" or "exit"
    status,     \* what main returns
    tree,       \* the tree that was parsed
    pass,       \* the number of the pass that runs
    verdict, stk, curType, declared, scope, syms,           \* semanticAnalysis
    notes,                                                  \* the annotations
    genVerdict, genStk, ir, fun, val, genScope, genSyms     \* llvmIRGen

main     == <<phase, status, tree>>
semantic == <<verdict, stk, curType, declared, scope, syms>>
gen      == <<genVerdict, genStk, ir, fun, val, genScope, genSyms>>
vars     == <<main, pass, semantic, notes, gen>>

Sem == INSTANCE Semantic

Gen == INSTANCE IRGen
       WITH verdict <- genVerdict, stk <- genStk, scope <- genScope, syms <- genSyms

Init ==
    /\ phase = "parse" /\ status = 0 /\ tree = <<>> /\ pass = 0
    /\ Sem!Init
    /\ Gen!Init

-----------------------------------------------------------------------------
(* MUTANT: the generator is added first.                                   *)
PassesIRFirst == <<"llvm-ir-gen", "semantic", "mem2reg">>

Passes == <<"semantic", "llvm-ir-gen", "mem2reg">>

Running(name) == phase = "compile" /\ pass \in DOMAIN Passes /\ Passes[pass] = name

Exit(code) ==
    /\ phase' = "exit"
    /\ status' = code
    /\ UNCHANGED <<tree, pass, semantic, notes, gen>>

(* The status of a process that std::terminate ends.                       *)
Aborted == 134

(* Parsing yields a tree or none, or it throws (grammar.y:158), outside of *)
(* main's try.                                                             *)
Parse ==
    /\ phase = "parse"
    /\ \/ /\ phase' = "compile" /\ tree' \in Roots /\ pass' = 1
          /\ UNCHANGED <<status, semantic, notes, gen>>
       \/ Exit(1)
       \/ Exit(Aborted)

SemanticAnalysis ==
    /\ Running("semantic")
    /\ Sem!Start(tree) \/ Sem!Visit
    /\ UNCHANGED <<main, pass, gen>>

LLVMIRGen ==
    /\ Running("llvm-ir-gen")
    /\ Gen!Start(tree) \/ Gen!Step
    /\ UNCHANGED <<main, pass, semantic>>

NoModule == genVerdict = "idle"

(* The pass has returned, or it has thrown.                                *)
Returned == \/ Running("semantic") /\ verdict = "ok"
            \/ Running("llvm-ir-gen") /\ genVerdict = "ok"
            \/ Running("mem2reg") /\ ~ NoModule

Thrown == \/ Running("semantic") /\ verdict = "error"
          \/ Running("llvm-ir-gen") /\ genVerdict = "error"
          \/ Running("mem2reg") /\ NoModule

NextPass == Returned /\ pass' = pass + 1 /\ UNCHANGED <<main, semantic, notes, gen>>

Catch == Thrown /\ Exit(1)

Output == phase = "compile" /\ pass > Len(Passes) /\ Exit(0)

Compile == SemanticAnalysis \/ LLVMIRGen \/ NextPass \/ Catch \/ Output

(* What follows an undefined operation of LLVM's is anybody's guess.       *)
Ended == phase = "exit" \/ genVerdict = "undefined"

Next == Parse \/ Compile \/ (Ended /\ UNCHANGED vars)

(* One thread of plain code: main goes on as long as it can.  This is weak *)
(* fairness of Compile, with its ENABLED written out: where Goes holds,    *)
(* Compile is all that Next allows, so a state without a step of it would  *)
(* be a deadlock.                                                          *)
Goes == phase = "compile" /\ genVerdict # "undefined"

Fairness == []<>(~ Goes) \/ []<><<Compile>>_vars

Spec == Init /\ [][Next]_vars /\ Fairness

-----------------------------------------------------------------------------
(* Properties.                                                             *)

(* Each member has a value of its kind, and a pass that has not had its    *)
(* turn has not begun.                                                     *)
TypeOK ==
    /\ phase \in {"parse", "compile", "exit"}
    /\ status \in {0, 1, Aborted}
    /\ pass \in 0 .. Len(Passes) + 1
    /\ Sem!TypeOK
    /\ genVerdict \in {"idle", "run", "ok", "error", "undefined"}
    /\ genVerdict # "idle" => verdict = "ok"

(* WellFormed and Dominated (module IRGen), of every program the semantic  *)
(* pass lets through.                                                      *)
WellFormed == Gen!WellFormed

Dominated == Gen!Dominated

(* NoSurprises: the two passes keep scopes of their own, pushed and popped *)
(* in different places, and the second relies on annotations and checks of *)
(* the first: it throws for a name that is not bound, for an annotation    *)
(* that is missing, for a let of a type's name and for a literal with a    *)
(* type that does not exist.  Of what the semantic pass accepts it throws  *)
(* for two reasons only, a call of what is not the name of a function and  *)
(* an integer that is too large.                                           *)
RefusedCall ==
    LET call   == Ast[genStk[Len(genStk)].node]
        callee == Ast[call.kids[1]]
    IN  /\ call.kind = "Call"
        /\ callee.kind = "Ident" => Gen!IsBound(genSyms, genScope, callee.name)

RefusedLiteral ==
    LET lit == Ast[genStk[Len(genStk)].node]
    IN  lit.kind = "Lit" /\ IsInt(lit.lit) /\ Data(lit.lit) > MaxInt

NoSurprises ==
    [][genVerdict # "error" /\ genVerdict' = "error" => RefusedCall \/ RefusedLiteral]_vars

(* Compiles: every compilation comes to an end, whatever it is given.      *)
Compiles == Goes ~> ~ Goes

(* ValidModule: "-c output is a valid LLVM module with a callable main"    *)
(* (COMPILER_DESIGN.md:312).                                               *)
ValidModule ==
    phase = "exit" /\ status = 0 =>
        Gen!WellFormed /\ Gen!Dominated /\ Gen!UsesAreLocal /\ Gen!ReturnsFit

=============================================================================
