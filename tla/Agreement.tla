----------------------------- MODULE Agreement -----------------------------
(***************************************************************************)
(* One program, two implementations: monkey -c compiles it and monkey -f   *)
(* interprets it, two processes that share the source file only.  "The     *)
(* compiler is a parallel implementation - same visitor pattern, different *)
(* visit() bodies" (COMPILER_DESIGN.md:37).                                *)
(*                                                                         *)
(* The compilation is module Pipeline; the module it prints, if any, is    *)
(* executed (module Machine), if it is a valid one; the interpreter gets   *)
(* the program as the one input of a session (module Interpreter).  The    *)
(* three share no state, so they are run one after the other.              *)
(*                                                                         *)
(* misled and failed are history variables, which no step depends on.      *)
(***************************************************************************)
EXTENDS Pipeline

CONSTANT NoBody    \* as in module Interpreter

VARIABLES
    mode, outcome, seen, runStk, result, ctx, heap, fns, moved,    \* Interpreter
    running, frames, answer,                                       \* Machine
    misled,     \* an expression took a value of another type than it is given
    failed      \* what the interpreter's error was about, or "none"

compiler    == vars
interpreter == <<mode, outcome, seen, runStk, result, ctx, heap, fns, moved>>
machine     == <<running, frames, answer>>
history     == <<misled, failed>>
all         == <<compiler, interpreter, machine, history>>

Run == INSTANCE Interpreter WITH stk <- runStk, MaxInputs <- 1

Exe == INSTANCE Machine

InitAll == Init /\ Run!Init /\ Exe!Init /\ misled = FALSE /\ failed = "none"

-----------------------------------------------------------------------------
(* What the semantic pass said, and what comes of it when the program is   *)
(* interpreted.                                                            *)

Accepted == verdict = "ok"

(* The node whose visitor returns in the interpreter's step, a call for    *)
(* the return statement that ends it.                                      *)
Evaluated == runStk[Len(runStk')+ 1].node

Returning == Len(runStk') < Len(runStk) /\ outcome' # "error" /\ mode' = "run"

(* What the semantic pass knows of a value: of a function the type it      *)
(* returns, of a void call that there is none.                             *)
Fits(v, type) ==
    \/ type = Sem!UNKNOWN
    \/ IF IsFn(v) THEN FnRet(v) = type
       ELSE IF type = Sem!VOID THEN v = Null ELSE Tid(v) = type

Misleads == /\ Accepted /\ Returning /\ Evaluated \in DOMAIN notes
            /\ ~ Fits(result', notes[Evaluated])

(* Errors that depend on values only.                                      *)
Dynamic ==
    \/ Run!Visiting("BinOp") /\ Run!N.op \in {"/", "%"} /\ IsNumber(result) /\ Data(result) = 0
    \/ Run!Visiting("Deref") /\ IsArray(Run!Vals[1]) /\ IsInt(result)

(* Errors that depend on types which the pass does not look at: of ordered *)
(* operands, of functions used as values, of callees that are not known to *)
(* be functions, of bodies that end in a statement, of a top-level return  *)
(* (all but the first are on the list of TODO.md: SEM-009, 004, 007, 006). *)
InFunction == \E i \in 1 .. Run!Depth : Run!ActiveCall(i)

FunctionAsValue ==
    \E i \in DOMAIN Run!Vals : IsFn(Run!Vals[i]) /\ (Run!N.kind = "Call" => i > 1)

EndsInStatement(lit) ==
    LET body == Sem!Statements(lit.body)
    IN  body = <<>> \/ Ast[body[Len(body)]].kind \notin Sem!Expressions

Unchecked ==
    \/ Run!Visiting("BinOp") /\ Run!N.op \in {"<", ">", "<=", ">="}
    \/ FunctionAsValue
    \/ Run!Visiting("Call") /\ notes[Run!Top.node] = Sem!UNKNOWN
    \/ /\ Run!ActiveCall(Run!Depth)
       /\ EndsInStatement(Run!Literal(Run!Top.vals[1]))
    \/ Run!Visiting("Return") /\ ~ InFunction

(* A name whose entry may not be the one the pass knew: a global one in a  *)
(* function, and one that a right operand of and/or defines, or does not.  *)
DefinedOnTheRight(x) ==
    \E n \in DOMAIN notes :
        /\ Ast[n].kind = "BinOp" /\ Ast[n].op \in {"and", "or"}
        /\ LET right == Ast[Ast[n].kids[2]] IN right.kind = "Let" /\ right.name = x

Unsettled(x) ==
    \/ DefinedOnTheRight(x)
    \/ InFunction /\ Run!IsBound(heap, ctx, x) /\ Run!Holder(heap, ctx, x) = Run!Global

Reason ==
    IF ~ Accepted THEN "refused"
    ELSE IF Dynamic THEN "dynamic"
    ELSE IF Unchecked THEN "unchecked"
    ELSE IF misled \/ (Run!Visiting("Assign") /\ Unsettled(Run!N.name)) THEN "misled"
    ELSE "typing"

-----------------------------------------------------------------------------
Interpret ==
    /\ Ended /\ tree \in Roots
    /\ Run!Submit(tree) \/ Run!Visit
    /\ misled' = (misled \/ Misleads)
    /\ failed' = IF outcome' = "error" THEN Reason ELSE failed
    /\ UNCHANGED <<compiler, machine>>

Interpreted == Ended /\ (tree \in Roots => seen # {} /\ runStk = <<>>)

(* A module that LLVM's verifier lets pass is printed.                     *)
Printed == phase = "exit" /\ status = 0 /\ Gen!UsesAreLocal /\ Gen!ReturnsFit

Execute ==
    /\ Interpreted /\ Printed
    /\ Exe!Start \/ Exe!Exec
    /\ UNCHANGED <<compiler, interpreter, history>>

Over == /\ Interpreted
        /\ Printed => running \in {"ok", "trap", "beyond"}
        /\ UNCHANGED all

NextAll ==
    \/ (Parse \/ Compile) /\ UNCHANGED <<interpreter, machine, history>>
    \/ Interpret \/ Execute \/ Over

SpecAll == InitAll /\ [][NextAll]_all

-----------------------------------------------------------------------------
(* Properties.                                                             *)

(* AnnotationsHold: one pass over the text, with one entry per name, gives *)
(* an expression the type of each value it ever takes, in loops, branches, *)
(* calls and shadowing blocks, in whatever order the program runs.  It is  *)
(* wrong first, if ever, of an and/or of two types ("or rhs type",         *)
(* semantic_pass.cpp:63) or of the use of an unsettled name.               *)
AnnotationsHold ==
    [][misled' /\ ~ misled =>
          LET n == Ast[Evaluated]
          IN  \/ /\ n.kind = "BinOp" /\ n.op \in {"and", "or"}
                 /\ notes[n.kids[1]] # notes[n.kids[2]]
              \/ n.kind = "Ident" /\ Unsettled(n.name)]_all

(* NothingElseFails: what the semantic pass accepts fails in the           *)
(* interpreter for the reasons above only, although the interpreter checks *)
(* every operation of its own accord.                                      *)
NothingElseFails == failed # "typing"

(* SameAnswer: the compiled program traps, or comes to an infinity or a    *)
(* NaN, when the interpreter reports a dynamic error; otherwise main()     *)
(* returns the program's value, if it is an integer, and 0 if the program  *)
(* ends in an expression of another type.                                  *)
(* Of a program that the interpreter refuses for a type the pass does not  *)
(* look at, and of one whose annotations are wrong, nothing is said.       *)
EndsInExpression ==
    LET body == Ast[tree].kids
    IN  body # <<>> /\ Ast[body[Len(body)]].kind \in Sem!Expressions

SameAnswer ==
    ~ misled /\ failed \notin {"unchecked", "misled"} =>
        /\ running \in {"trap", "beyond"} => failed = "dynamic"
        /\ running = "ok" =>
              /\ outcome = "ok"
              /\ EndsInExpression => answer = (IF IsInt(result) THEN Data(result) ELSE 0)

=============================================================================
