------------------------------ MODULE Semantic ------------------------------
(***************************************************************************)
(* The semantic pass (src/passes/semantic_pass.cpp): SemanticVisitor walks *)
(* a program once, gives every expression a type and throws at the first   *)
(* error.                                                                  *)
(*                                                                         *)
(* The C++ stack is the variable stk, as in module Interpreter: a frame    *)
(* per visit() that has not returned, with the child it is visiting (pc),  *)
(* what it keeps in its locals meanwhile (own), and, as a history that no  *)
(* action reads, the scope_ it began in (saved).  A step runs the visitor  *)
(* on top up to its next accept(), its return or its throw.                *)
(*                                                                         *)
(* A type id is the structure it stands for (module TypeTable).  There is  *)
(* no type of functions here: the type of a function is its return type.   *)
(***************************************************************************)
EXTENDS Trees, Symtab

VARIABLES
    verdict,    \* "idle" before the pass, "run", then "ok" or "error"
    stk,        \* the visitors that have not returned, innermost last
    curType,    \* curType_
    declared,   \* declaredReturnType_
    scope,      \* scope_, as an environment of Symtab
    syms,       \* the symbols of every scope ever made
    notes       \* the nodes' annotations

vars == <<verdict, stk, curType, declared, scope, syms, notes>>

UNKNOWN == PrimType("unknown")

VOID == PrimType("void")

(* Of a name it knows; it throws for any other (UnknownTypes below).       *)
resolveTypeName(name) == PrimType(name)

Init ==
    /\ verdict = "idle"
    /\ stk = <<>>
    /\ curType = UNKNOWN
    /\ declared = UNKNOWN
    /\ scope = GlobalEnv
    /\ syms = <<NoBindings>>
    /\ notes = NoBindings

-----------------------------------------------------------------------------
(* The machinery of visit() and accept().                                  *)

Frame(n, k, locals, env) == [node |-> n, pc |-> k, own |-> locals, saved |-> env]

Entry(n, env) == Frame(n, 0, <<>>, env)

Depth == Len(stk)

Top == stk[Depth]

N == Ast[Top.node]

Arity == Len(N.kids)

Visiting(kind) == verdict = "run" /\ stk # <<>> /\ N.kind = kind

Start(root) ==
    /\ verdict = "idle"
    /\ verdict' = "run"
    /\ stk' = <<Entry(root, scope)>>
    /\ UNCHANGED <<curType, declared, scope, syms, notes>>

(* Visit node n, as child k, in env; the locals are kept meanwhile.        *)
Accept(n, k, locals, env) ==
    /\ stk' = Append([stk EXCEPT ![Depth] = Frame(Top.node, k, locals, Top.saved)],
                     Entry(n, env))
    /\ UNCHANGED <<verdict, notes>>

Go(k, locals) == Accept(N.kids[k], k, locals, scope) /\ UNCHANGED curType

Leave ==
    /\ stk' = SubSeq(stk, 1, Depth - 1)
    /\ verdict' = IF Depth = 1 THEN "ok" ELSE verdict

(* The end of an expression's visitor: curType_ and the annotation.        *)
Typed(t) ==
    /\ Leave
    /\ curType' = t
    /\ notes' = Bind(notes, Top.node, t)

(* No handler before main's: the pass is over.                             *)
Throw ==
    /\ verdict' = "error"
    /\ stk' = <<>>
    /\ UNCHANGED <<curType, notes>>

Context == <<declared, scope, syms>>

-----------------------------------------------------------------------------
(* Symbols.                                                                *)

Sym(t, isFn, ptypes) == [type |-> t, isFunction |-> isFn, params |-> ptypes]

Variable(t) == Sym(t, FALSE, <<>>)

ParamTypes(lit) == [i \in DOMAIN lit.params |-> resolveTypeName(lit.params[i].type)]

(* Of two parameters of one name the later define() counts.                *)
LastParam(lit, x) ==
    CHOOSE i \in DOMAIN lit.params :
        /\ lit.params[i].name = x
        /\ \A j \in DOMAIN lit.params : lit.params[j].name = x => j <= i

ParamScope(lit) ==
    [x \in {lit.params[i].name : i \in DOMAIN lit.params} |->
        Variable(ParamTypes(lit)[LastParam(lit, x)])]

-----------------------------------------------------------------------------
(* Expressions.                                                            *)

VisitLiteral == Visiting("Lit") /\ Typed(Tid(N.lit)) /\ UNCHANGED Context

VisitIdent ==
    /\ Visiting("Ident")
    /\ IF IsBound(syms, scope, N.name) THEN Typed(Resolve(syms, scope, N.name).type)
                                       ELSE Throw
    /\ UNCHANGED Context

Numeric(t) == t \in {PrimType("int"), PrimType("float")}

VisitUnary ==
    /\ Visiting("Unary")
    /\ \/ Top.pc = 0 /\ Go(1, <<>>)
       \/ Top.pc = 1 /\ N.op = "-" /\ Numeric(curType) /\ Typed(curType)
       \/ Top.pc = 1 /\ N.op = "-" /\ ~ Numeric(curType) /\ Throw
       \/ Top.pc = 1 /\ N.op = "not" /\ Typed(PrimType("bool"))
    /\ UNCHANGED Context

Logical == N.op \in {"and", "or"}

(* MUTANT: only the left operand's type is looked at.                      *)
ArithmeticTypeOfLeft(r) == Top.own

(* The left operand's type is kept in own.                                 *)
ArithmeticType(r) ==
    IF PrimType("float") \in {Top.own, r} THEN PrimType("float") ELSE PrimType("int")

VisitBinOp ==
    /\ Visiting("BinOp")
    /\ \/ Top.pc = 0 /\ Go(1, <<>>)
       \/ Top.pc = 1 /\ Go(2, curType)
       \/ Top.pc = 2 /\ Logical /\ Typed(Top.own)
       \/ /\ Top.pc = 2 /\ N.op \in ArithmeticOps
          /\ IF Numeric(Top.own) /\ Numeric(curType)
             THEN Typed(ArithmeticType(curType)) ELSE Throw
       \/ /\ Top.pc = 2 /\ ~ Logical /\ N.op \notin ArithmeticOps
          /\ Typed(PrimType("bool"))
    /\ UNCHANGED Context

(* The array's element type so far is kept in own.                         *)
ElementType == IF Top.pc <= 1 \/ Top.own = UNKNOWN THEN curType ELSE Top.own

BadElement == curType = VOID \/ curType # ElementType

VisitArray ==
    /\ Visiting("Array")
    /\ \/ Arity = 0 /\ Typed(<<"array", UNKNOWN, 0>>)
       \/ Arity > 0 /\ Top.pc = 0 /\ Go(1, <<>>)
       \/ Top.pc > 0 /\ BadElement /\ Throw
       \/ /\ Top.pc > 0 /\ ~ BadElement
          /\ IF Top.pc < Arity THEN Go(Top.pc + 1, ElementType)
                               ELSE Typed(<<"array", ElementType, Arity>>)
    /\ UNCHANGED Context

(* constantInteger: a literal or a negated literal.                        *)
IsIntLit(n) == Ast[n].kind = "Lit" /\ IsInt(Ast[n].lit)

ConstantInteger(n) ==
    IF IsIntLit(n) THEN {Data(Ast[n].lit)}
    ELSE IF Ast[n].kind = "Unary" /\ Ast[n].op = "-" /\ IsIntLit(Ast[n].kids[1])
    THEN {-Data(Ast[Ast[n].kids[1]].lit)} ELSE {}

(* MUTANT: an index equal to the length passes.                            *)
OutOfBoundsByOne(arr) ==
    \E i \in ConstantInteger(N.kids[2]) : i < 0 \/ i > arr[3]

OutOfBounds(arr) == \E i \in ConstantInteger(N.kids[2]) : i < 0 \/ i >= arr[3]

VisitArrayDeref ==
    /\ Visiting("Deref")
    /\ \/ Top.pc = 0 /\ Go(1, <<>>)
       \/ Top.pc = 1 /\ curType[1] = "array" /\ Go(2, curType)
       \/ Top.pc = 1 /\ curType[1] # "array" /\ Throw
       \/ /\ Top.pc = 2
          /\ IF curType = PrimType("int") /\ ~ OutOfBounds(Top.own)
             THEN Typed(Top.own[2]) ELSE Throw
    /\ UNCHANGED Context

(* The symbol is defined after its value has been visited.                 *)
Bound(value) ==
    IF Ast[value].kind = "FnLit" THEN Sym(curType, TRUE, ParamTypes(Ast[value]))
                                 ELSE Variable(curType)

BindsVoid == curType = VOID /\ Ast[N.kids[1]].kind # "FnLit"

VisitLet ==
    /\ Visiting("Let")
    /\ \/ N.name \in TypeNames /\ Throw /\ UNCHANGED syms
       \/ N.name \notin TypeNames /\ Top.pc = 0 /\ Go(1, <<>>) /\ UNCHANGED syms
       \/ Top.pc = 1 /\ BindsVoid /\ Throw /\ UNCHANGED syms
       \/ /\ Top.pc = 1 /\ ~ BindsVoid
          /\ syms' = Define(syms, scope, N.name, Bound(N.kids[1]))
          /\ Typed(curType)
    /\ UNCHANGED <<declared, scope>>

(* The symbol is found before the value is visited, and read after it: own *)
(* is the scope the symbol is in.                                          *)
VisitAssign ==
    /\ Visiting("Assign")
    /\ \/ /\ Top.pc = 0
          /\ IF IsBound(syms, scope, N.name)
             THEN Go(1, Holder(syms, scope, N.name)) ELSE Throw
       \/ /\ Top.pc = 1
          /\ IF curType = syms[Top.own][N.name].type THEN Typed(curType) ELSE Throw
    /\ UNCHANGED Context

-----------------------------------------------------------------------------
(* Functions.                                                              *)

Statements(block) == Ast[Ast[block].kids[1]].kids

(* The type of a trailing expression is the function's result; that of any *)
(* other last statement is not looked at.                                  *)
TrailingMismatch(lit) ==
    LET body == Statements(lit.body)
        ret  == resolveTypeName(lit.ret)
    IN  /\ ret # VOID /\ body # <<>>
        /\ Ast[body[Len(body)]].kind \in Expressions
        /\ curType \notin {UNKNOWN, ret}

(* MUTANT: of the types a literal names only the last is resolved.         *)
UnknownReturnType(lit) == lit.ret \notin TypeNames

(* resolveTypeName throws, for one of the types that the literal names.    *)
UnknownTypes(lit) == ~ KnownTypes(lit)

(* The enclosing function's return type is kept in own.                    *)
EnterFunction ==
    /\ Top.pc = 0
    /\ ~ UnknownTypes(N)
    /\ declared' = resolveTypeName(N.ret)
    /\ syms' = Extend(syms, ParamScope(N))
    /\ scope' = Child(syms, scope)
    /\ curType' = UNKNOWN
    /\ Accept(N.body, 1, declared, scope')

(* MUTANT: the enclosing function's return type is forgotten.              *)
LeaveFunctionUnrestored ==
    /\ Top.pc = 1
    /\ scope' = Parent(scope)
    /\ IF TrailingMismatch(N) THEN Throw ELSE Typed(resolveTypeName(N.ret))
    /\ UNCHANGED <<syms, declared>>

LeaveFunction ==
    /\ Top.pc = 1
    /\ scope' = Parent(scope)
    /\ declared' = Top.own
    /\ IF TrailingMismatch(N) THEN Throw ELSE Typed(resolveTypeName(N.ret))
    /\ UNCHANGED syms

(* Whatever reads the types of a literal once more has visited it before.  *)
VisitFnLit ==
    /\ Visiting("FnLit")
    /\ \/ Top.pc = 0 /\ UnknownTypes(N) /\ Throw /\ UNCHANGED Context
       \/ EnterFunction
       \/ LeaveFunction

(* What is known of the function called: of a name bound to a literal, and *)
(* of a literal called on the spot.                                        *)
Signature ==
    LET callee == Ast[N.kids[1]]
        named  == callee.kind = "Ident" /\ Resolve(syms, scope, callee.name).isFunction
    IN  CASE named ->
               [known  |-> TRUE,
                params |-> Resolve(syms, scope, callee.name).params,
                ret    |-> Resolve(syms, scope, callee.name).type]
          [] callee.kind = "FnLit" ->
               [known  |-> TRUE, params |-> ParamTypes(callee),
                ret    |-> resolveTypeName(callee.ret)]
          [] OTHER -> [known |-> FALSE, params |-> <<>>, ret |-> UNKNOWN]

(* The next argument, or the call's own type.                              *)
NextArgument(sig) == IF Top.pc < Arity THEN Go(Top.pc + 1, sig) ELSE Typed(sig.ret)

(* MUTANT: the signature is read after the argument has been walked.       *)
BadArgumentLate ==
    LET i == Top.pc - 1
    IN  i <= Len(Signature.params) /\ curType # Signature.params[i]

BadArgument ==
    LET i == Top.pc - 1
    IN  i <= Len(Top.own.params) /\ curType # Top.own.params[i]

BadCount(sig) == sig.known /\ Arity - 1 # Len(sig.params)

(* The signature, taken before the arguments are visited, is kept in own.  *)
VisitCall ==
    /\ Visiting("Call")
    /\ \/ Top.pc = 0 /\ Go(1, <<>>)
       \/ /\ Top.pc = 1
          /\ IF BadCount(Signature) THEN Throw ELSE NextArgument(Signature)
       \/ /\ Top.pc > 1
          /\ IF BadArgument THEN Throw ELSE NextArgument(Top.own)
    /\ UNCHANGED Context

ReturnMismatch(t) == UNKNOWN \notin {declared, t} /\ t # declared

VisitReturn ==
    /\ Visiting("Return")
    /\ \/ Top.pc < Arity /\ Go(1, <<>>)
       \/ /\ Top.pc = Arity
          /\ LET actual == IF Arity = 0 THEN VOID ELSE curType
             IN  IF ReturnMismatch(actual) THEN Throw
                 ELSE curType' = actual /\ Leave /\ UNCHANGED notes
    /\ UNCHANGED Context

-----------------------------------------------------------------------------
(* Statements.                                                             *)

EnterBlock ==
    /\ Top.pc = 0
    /\ syms' = Extend(syms, NoBindings)
    /\ scope' = Child(syms, scope)
    /\ Accept(N.kids[1], 1, <<>>, scope')

(* MUTANT: two scopes are left.                                            *)
LeaveBlockTwice ==
    /\ Top.pc = 1
    /\ scope' = Parent(Parent(scope))
    /\ Leave
    /\ UNCHANGED <<syms, notes>>

(* MUTANT: the block's scope stays.                                        *)
LeaveBlockUnpopped ==
    /\ Top.pc = 1
    /\ Leave
    /\ UNCHANGED <<scope, syms, notes>>

LeaveBlock ==
    /\ Top.pc = 1
    /\ scope' = Parent(scope)
    /\ Leave
    /\ UNCHANGED <<syms, notes>>

VisitBlock ==
    /\ Visiting("Block")
    /\ EnterBlock \/ LeaveBlock
    /\ UNCHANGED <<curType, declared>>

(* MUTANT: a condition is visited over and over.                           *)
NextChildAgain ==
    IF Top.pc < Arity THEN Go(IF N.kind = "While" THEN 1 ELSE Top.pc + 1, <<>>)
    ELSE Leave /\ UNCHANGED <<curType, notes>>

NextChild ==
    IF Top.pc < Arity THEN Go(Top.pc + 1, <<>>)
    ELSE Leave /\ UNCHANGED <<curType, notes>>

(* Conditions, branches and bodies are visited in the order of the text,   *)
(* each once; the type a condition has is not looked at.                   *)
VisitInOrder(kind) == Visiting(kind) /\ NextChild /\ UNCHANGED Context

VisitIf == VisitInOrder("If")

VisitWhile == VisitInOrder("While")

VisitStmtList == VisitInOrder("StmtList")

-----------------------------------------------------------------------------
Visit ==
    \/ VisitLiteral \/ VisitIdent \/ VisitUnary \/ VisitBinOp
    \/ VisitArray \/ VisitArrayDeref \/ VisitLet \/ VisitAssign
    \/ VisitFnLit \/ VisitCall \/ VisitReturn
    \/ VisitBlock \/ VisitIf \/ VisitWhile \/ VisitStmtList

Finished == verdict \in {"ok", "error"} /\ UNCHANGED vars

Next == (\E root \in Roots : Start(root)) \/ Visit \/ Finished

(* One thread of plain code: a visitor that can step does.                 *)
Spec == Init /\ [][Next]_vars /\ WF_vars(Visit)

-----------------------------------------------------------------------------
(* Properties.                                                             *)

IsEnv(env) == /\ env \in Seq(1 .. Len(syms))
              /\ Len(env) >= 1
              /\ env[1] = Global

(* Every member has a value of its kind; every environment in use is a     *)
(* path of existing scopes from the outermost one.                         *)
TypeOK ==
    /\ verdict \in {"idle", "run", "ok", "error"}
    /\ \A i \in 1 .. Depth : /\ stk[i].node \in Node
                             /\ stk[i].pc \in 0 .. Len(Ast[stk[i].node].kids) + 1
                             /\ IsEnv(stk[i].saved)
    /\ IsEnv(scope)
    /\ DOMAIN notes \subseteq Node

(* The function literals being walked, outermost first, as frame numbers.  *)
InFunction(i) == Ast[stk[i].node].kind = "FnLit" /\ stk[i].pc = 1

(* ReturnsMatchTheirFunction: declaredReturnType_ is one member for all    *)
(* functions, saved and put back by hand.  Whatever functions are nested   *)
(* in bodies, arguments and conditions, it is the declaration of the       *)
(* innermost one the walk is in, and nothing outside of all of them.       *)
ReturnsMatchTheirFunction ==
    verdict = "run" =>
        declared = IF \E i \in 1 .. Depth : InFunction(i)
                   THEN LET i == CHOOSE i \in 1 .. Depth :
                                    /\ InFunction(i)
                                    /\ \A j \in (i + 1) .. Depth : ~ InFunction(j)
                        IN  resolveTypeName(Ast[stk[i].node].ret)
                   ELSE UNKNOWN

(* ImplementsContextStack: scopes of functions and blocks alike are left   *)
(* through parent(), and every visitor that returns leaves scope_ where it *)
(* began, the promise of ContextStack.                                     *)
Contexts == INSTANCE ContextStack
            WITH env   <- scope,
                 saves <- [i \in 1 .. Depth |-> stk[i].saved],
                 made  <- Len(syms)

ImplementsContextStack == Contexts!Spec

(* Decides: every program is accepted or refused: no visitor is left       *)
(* waiting, in any nesting.                                                *)
Decides == (verdict = "run") ~> (verdict \in {"ok", "error"})

=============================================================================
