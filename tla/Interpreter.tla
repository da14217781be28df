---------------------------- MODULE Interpreter ----------------------------
(***************************************************************************)
(* The tree-walking interpreter (src/interpreter.cpp) as the REPL drives   *)
(* it: one Interpreter object evaluates the inputs one after the other.    *)
(*                                                                         *)
(* The C++ call stack is the variable stk: a frame per visit() that has    *)
(* not returned.  pc is the child being visited (0: none yet), vals the    *)
(* values its locals hold, and saved the ctx_ to come back to: savedCtx    *)
(* of a call; in the other visitors, which keep no copy of ctx_, saved     *)
(* is a history variable that is never read by an action.                  *)
(*                                                                         *)
(* A step runs the visitor on top of the stack up to its next accept(), to *)
(* its return, or to a throw.  A runtime_error has no handler below main:  *)
(* it empties the stack and leaves every other member as it is.            *)
(***************************************************************************)
EXTENDS Trees, Symtab, FiniteSets

CONSTANTS
    MaxInputs,  \* how many of the Roots a session types
    NoBody      \* a null unique_ptr<BlockStmt>

ASSUME SessionAssumption == NoBody \notin Node /\ MaxInputs \in Nat

VARIABLES
    mode,     \* the process: "run", "exit" at end of input, or a signal
    outcome,  \* of the last input: "none" yet, "ok", or "error" reported
    seen,     \* the inputs typed so far
    stk,      \* the visitors that have not returned, innermost last
    result,   \* result_
    ctx,      \* ctx_, as an environment of Symtab
    heap,     \* the bindings of every scope ever made
    fns,      \* every FunctionObject made so far
    moved     \* the FnLitExpr nodes whose body has been moved away

session == <<mode, seen>>
storage == <<ctx, heap, fns, moved>>
vars == <<mode, outcome, seen, stk, result, ctx, heap, fns, moved>>

Init ==
    /\ mode = "run"
    /\ outcome = "ok"
    /\ seen = {}
    /\ stk = <<>>
    /\ result = Null
    /\ ctx = GlobalEnv
    /\ heap = <<NoBindings>>
    /\ fns = <<>>
    /\ moved = {}

-----------------------------------------------------------------------------
(* The machinery of visit() and accept().                                  *)

Frame(n, k, vs, env) == [node |-> n, pc |-> k, vals |-> vs, saved |-> env]

(* The frame of a visitor that begins with ctx_ = env.                     *)
Entry(n, env) == Frame(n, 0, <<>>, env)

Depth == Len(stk)

Top == stk[Depth]

N == Ast[Top.node]

Arity == Len(N.kids)

Visiting(kind) == mode = "run" /\ stk # <<>> /\ N.kind = kind

(* The operand values so far, the one just evaluated included.             *)
Vals == IF Top.pc = 0 THEN <<>> ELSE Append(Top.vals, result)

(* Visit node n, as the child number k of the visitor on top, in env.      *)
Accept(n, k, vs, env) ==
    /\ stk' = Append([stk EXCEPT ![Depth] = Frame(Top.node, k, vs, Top.saved)],
                     Entry(n, env))
    /\ UNCHANGED outcome

Evaluate(k) == Accept(N.kids[k], k, Vals, ctx) /\ UNCHANGED result

(* Return to depth d, with result_ = v.                                    *)
ReturnTo(d, v) ==
    /\ result' = v
    /\ stk' = SubSeq(stk, 1, d)
    /\ outcome' = IF d = 0 THEN "ok" ELSE outcome

Finish(v) == ReturnTo(Depth - 1, v)

(* main's handler prints the message; ctx_ stays where the throw left it.  *)
Throw ==
    /\ stk' = <<>>
    /\ outcome' = "error"
    /\ UNCHANGED result

(* The process dies of a signal.                                           *)
Die(signal) ==
    /\ mode' = signal
    /\ stk' = <<>>
    /\ UNCHANGED <<outcome, seen, result, storage>>

-----------------------------------------------------------------------------
(* The REPL's end of it.                                                   *)

Submit(root) ==
    /\ mode = "run" /\ stk = <<>>
    /\ root \notin seen
    /\ Cardinality(seen) < MaxInputs
    /\ stk' = <<Entry(root, ctx)>>
    /\ seen' = seen \union {root}
    /\ outcome' = "none"
    /\ UNCHANGED <<mode, result, storage>>

EndOfInput ==
    /\ mode = "run" /\ stk = <<>>
    /\ mode' = "exit"
    /\ UNCHANGED <<outcome, seen, stk, result, storage>>

-----------------------------------------------------------------------------
(* Expressions.                                                            *)

(* stoll throws when the digits do not fit.                                *)
VisitLiteral ==
    /\ Visiting("Lit")
    /\ IF IsInt(N.lit) /\ Data(N.lit) > MaxInt THEN Throw ELSE Finish(N.lit)
    /\ UNCHANGED <<session, storage>>

VisitIdent ==
    /\ Visiting("Ident")
    /\ IF IsBound(heap, ctx, N.name) THEN Finish(Resolve(heap, ctx, N.name))
                                     ELSE Throw
    /\ UNCHANGED <<session, storage>>

VisitUnary ==
    /\ Visiting("Unary")
    /\ \/ Top.pc = 0 /\ Evaluate(1)
       \/ Top.pc = 1 /\ \E v \in UnaryOp(N.op, result) : Finish(v)
       \/ Top.pc = 1 /\ UnaryOp(N.op, result) = {} /\ Throw
    /\ UNCHANGED <<session, storage>>

(* and, or: the left operand is the result when it decides.                *)
ShortCircuits == \/ N.op = "and" /\ ~ Truthy(result)
                 \/ N.op = "or" /\ Truthy(result)

Logical == N.op \in {"and", "or"}

Trapping == ~ Logical /\ Traps(N.op, Vals[1], Vals[2])

ApplyBinOp ==
    IF BinaryOp(N.op, Vals[1], Vals[2]) = {} THEN Throw
    ELSE \E v \in BinaryOp(N.op, Vals[1], Vals[2]) : Finish(v)

VisitBinOp ==
    /\ Visiting("BinOp")
    /\ \/ Top.pc = 0 /\ Evaluate(1) /\ UNCHANGED <<session, storage>>
       \/ /\ Top.pc = 1
          /\ IF ShortCircuits THEN Finish(result) ELSE Evaluate(2)
          /\ UNCHANGED <<session, storage>>
       \/ /\ Top.pc = 2 /\ ~ Trapping
          /\ IF Logical THEN Finish(result) ELSE ApplyBinOp
          /\ UNCHANGED <<session, storage>>
       \/ Top.pc = 2 /\ Trapping /\ Die("SIGFPE")

(* The elements' types are compared as each one arrives.                   *)
VisitArray ==
    /\ Visiting("Array")
    /\ IF \E i \in 1 .. Len(Vals) : Tid(Vals[i]) # Tid(Vals[1]) THEN Throw
       ELSE IF Top.pc < Arity THEN Evaluate(Top.pc + 1)
       ELSE Finish(Arr(IF Vals = <<>> THEN PrimType("unknown") ELSE Tid(Vals[1]),
                       Vals))
    /\ UNCHANGED <<session, storage>>

InBounds(arr, i) == i \in 0 .. Len(Data(arr)) - 1

VisitArrayDeref ==
    /\ Visiting("Deref")
    /\ \/ Top.pc < 2 /\ Evaluate(Top.pc + 1)
       \/ /\ Top.pc = 2
          /\ IF IsArray(Vals[1]) /\ IsInt(result) /\ InBounds(Vals[1], Data(result))
             THEN Finish(Data(Vals[1])[Data(result) + 1]) ELSE Throw
    /\ UNCHANGED <<session, storage>>

VisitLet ==
    /\ Visiting("Let")
    /\ \/ /\ N.name \in TypeNames /\ Throw
          /\ UNCHANGED heap
       \/ /\ N.name \notin TypeNames /\ Top.pc = 0 /\ Evaluate(1)
          /\ UNCHANGED heap
       \/ /\ N.name \notin TypeNames /\ Top.pc = 1
          /\ heap' = Define(heap, ctx, N.name, result)
          /\ Finish(result)
    /\ UNCHANGED <<session, ctx, fns, moved>>

(* MUTANT: assignment changes a variable's type.                           *)
CanAssignAnyType == IsBound(heap, ctx, N.name)

(* The value first, then the target: the value may itself bind the name.   *)
CanAssign == /\ IsBound(heap, ctx, N.name)
             /\ Tid(Resolve(heap, ctx, N.name)) = Tid(result)

VisitAssign ==
    /\ Visiting("Assign")
    /\ \/ Top.pc = 0 /\ Evaluate(1) /\ UNCHANGED heap
       \/ Top.pc = 1 /\ ~ CanAssign /\ Throw /\ UNCHANGED heap
       \/ /\ Top.pc = 1 /\ CanAssign
          /\ heap' = Update(heap, ctx, N.name, result)
          /\ Finish(result)
    /\ UNCHANGED <<session, ctx, fns, moved>>

-----------------------------------------------------------------------------
(* Statements.                                                             *)

EnterBlock ==
    /\ Top.pc = 0
    /\ heap' = Extend(heap, NoBindings)
    /\ ctx' = Child(heap, ctx)
    /\ Accept(N.kids[1], 1, <<>>, ctx')
    /\ UNCHANGED result

(* MUTANT: the block's scope is popped twice.                              *)
LeaveBlockTwice ==
    /\ Top.pc = 1
    /\ ctx' = Parent(Parent(ctx))
    /\ Finish(result)
    /\ UNCHANGED heap

(* MUTANT: the block's scope is not popped.                                *)
LeaveBlockUnpopped ==
    /\ Top.pc = 1
    /\ Finish(result)
    /\ UNCHANGED <<ctx, heap>>

LeaveBlock ==
    /\ Top.pc = 1
    /\ ctx' = Parent(ctx)
    /\ Finish(result)
    /\ UNCHANGED heap

VisitBlock ==
    /\ Visiting("Block")
    /\ EnterBlock \/ LeaveBlock
    /\ UNCHANGED <<session, fns, moved>>

VisitStmtList ==
    /\ Visiting("StmtList")
    /\ LET kept == IF Top.pc = 0 THEN Null ELSE result
       IN  \/ Top.pc = Arity /\ Finish(kept)
           \/ /\ Top.pc < Arity
              /\ Accept(N.kids[Top.pc + 1], Top.pc + 1, <<>>, ctx)
              /\ result' = kept
    /\ UNCHANGED <<session, storage>>

(* The children are condition, branch, condition, branch, ..., and at the  *)
(* end, when there is an else, its branch.                                 *)
Condition(k) == k % 2 = 1 /\ k < Arity

(* MUTANT: an if without an else tests its condition again.                *)
NextBranchLoops ==
    IF Top.pc + 2 <= Arity THEN Evaluate(Top.pc + 2)
    ELSE Accept(N.kids[1], 1, <<>>, ctx) /\ UNCHANGED result

(* The next condition, or the else branch, or nothing to do.               *)
NextBranch ==
    IF Top.pc + 2 <= Arity THEN Evaluate(Top.pc + 2) ELSE Finish(Null)

VisitIf ==
    /\ Visiting("If")
    /\ \/ Top.pc = 0 /\ Evaluate(1)
       \/ Condition(Top.pc) /\ Truthy(result) /\ Evaluate(Top.pc + 1)
       \/ Condition(Top.pc) /\ ~ Truthy(result) /\ NextBranch
       \/ Top.pc > 0 /\ ~ Condition(Top.pc) /\ Finish(result)
    /\ UNCHANGED <<session, storage>>

VisitWhile ==
    /\ Visiting("While")
    /\ \/ Top.pc = 0 /\ Accept(N.kids[1], 1, <<>>, ctx) /\ result' = Null
       \/ Top.pc = 1 /\ Truthy(result) /\ Evaluate(2)
       \/ Top.pc = 1 /\ ~ Truthy(result) /\ Finish(result)
       \/ Top.pc = 2 /\ Accept(N.kids[1], 1, <<>>, ctx) /\ UNCHANGED result
    /\ UNCHANGED <<session, storage>>

-----------------------------------------------------------------------------
(* Functions.                                                              *)

ParamTypes(n) ==
    [i \in DOMAIN Ast[n].params |-> PrimType(Ast[n].params[i].type)]

(* MUTANT: the new object is built after the body has been moved away.     *)
TakenBodyLost == NoBody

(* Evaluating the literal moves its body into the new object.              *)
TakenBody == IF Top.node \in moved THEN NoBody ELSE N.body

VisitFnLit ==
    /\ Visiting("FnLit")
    /\ \/ ~ KnownTypes(N) /\ Throw /\ UNCHANGED <<fns, moved>>
       \/ /\ KnownTypes(N)
          /\ fns' = Append(fns, [lit |-> Top.node, body |-> TakenBody])
          /\ moved' = moved \union {Top.node}
          /\ Finish(Fn(Len(fns) + 1, ParamTypes(Top.node), PrimType(N.ret)))
    /\ UNCHANGED <<session, ctx, heap>>

Literal(fn) == Ast[fns[Data(fn)].lit]

(* Parameters are defined in order: of two with one name the last stays.   *)
LastParam(params, x) ==
    CHOOSE i \in DOMAIN params :
        /\ params[i].name = x
        /\ \A j \in DOMAIN params : params[j].name = x => j <= i

ParamScope(params, args) ==
    [x \in {params[i].name : i \in DOMAIN params} |->
        args[LastParam(params, x)]]

(* Frame i has swapped ctx_ for the callee's scope and runs its body.      *)
ActiveCall(i) ==
    LET call == Ast[stk[i].node]
    IN  call.kind = "Call" /\ stk[i].pc = Len(call.kids) + 1

(* as<FunctionObject>() yields an object.                                  *)
Callable(v) == IsFn(v) /\ Data(v) \in 1 .. Len(fns)

EvaluateOperand ==
    /\ Top.pc < Arity
    /\ Top.pc > 0 => Callable(Vals[1])
    /\ Evaluate(Top.pc + 1)
    /\ UNCHANGED <<mode, seen, ctx, heap>>

CalleeNotFn ==
    /\ Top.pc = 1 /\ ~ Callable(Vals[1])
    /\ Throw
    /\ UNCHANGED <<mode, seen, ctx, heap>>

Accepts(fn, args) ==
    /\ Len(args) = Len(FnParams(fn))
    /\ \A i \in DOMAIN args : Tid(args[i]) = FnParams(fn)[i]

(* MUTANT: the callee sees its caller's scopes (dynamic scoping).          *)
FunctionEnvDynamic == Child(heap, ctx)

(* There are no closures: a function's scope is under the global one.      *)
FunctionEnv == Child(heap, GlobalEnv)

(* All operands are there: bind the parameters in a new scope under the    *)
(* global one, save ctx_ and run the body.                                 *)
EnterCall ==
    /\ Top.pc = Arity /\ Callable(Vals[1])
    /\ LET fn == Vals[1]
           args == Tail(Vals)
           body == fns[Data(fn)].body
       IN  \/ /\ ~ Accepts(fn, args)
              /\ Throw
              /\ UNCHANGED <<mode, seen, ctx, heap>>
           \/ /\ Accepts(fn, args) /\ body = NoBody
              /\ Die("SIGSEGV")
           \/ /\ Accepts(fn, args) /\ body # NoBody
              /\ heap' = Extend(heap, ParamScope(Literal(fn).params, args))
              /\ ctx' = FunctionEnv
              /\ stk' = Append([stk EXCEPT
                                   ![Depth] = Frame(Top.node, Arity + 1,
                                                    Vals, ctx)],
                               Entry(body, ctx'))
              /\ UNCHANGED <<mode, outcome, seen, result>>

(* MUTANT: ctx_ stays in the callee's scope.                               *)
LeaveCallUnrestored(i, rv) ==
    /\ UNCHANGED ctx
    /\ ReturnTo(i - 1, rv)

(* MUTANT: every call comes back to the global scope.                      *)
LeaveCallToGlobal(i, rv) ==
    /\ ctx' = GlobalEnv
    /\ ReturnTo(i - 1, rv)

(* Frame i's call is over, with value rv: restore ctx_, check the type.    *)
LeaveCall(i, rv) ==
    LET ret == FnRet(stk[i].vals[1])
        void == ret = PrimType("void")
    IN  /\ ctx' = stk[i].saved
        /\ IF Tid(rv) = (IF void THEN Tid(Null) ELSE ret) THEN ReturnTo(i - 1, rv)
                                                    ELSE Throw

(* The body ran to its end: result_ is the value, unless the function is   *)
(* void.                                                                   *)
ReturnFromCall ==
    /\ ActiveCall(Depth)
    /\ LeaveCall(Depth, IF FnRet(Top.vals[1]) = PrimType("void") THEN Null
                                                               ELSE result)
    /\ UNCHANGED <<mode, seen, heap>>

VisitCall ==
    /\ Visiting("Call")
    /\ EvaluateOperand \/ CalleeNotFn \/ EnterCall \/ ReturnFromCall
    /\ UNCHANGED <<fns, moved>>

(* ReturnException unwinds to the innermost running call, or to main.      *)
Innermost(i) == /\ ActiveCall(i)
                /\ \A j \in (i + 1) .. Depth : ~ ActiveCall(j)

VisitReturn ==
    /\ Visiting("Return")
    /\ \/ Top.pc < Arity /\ Evaluate(1) /\ UNCHANGED ctx
       \/ /\ Top.pc = Arity
          /\ \E i \in 1 .. Depth :
                Innermost(i) /\ LeaveCall(i, IF Arity = 0 THEN Null ELSE result)
       \/ /\ Top.pc = Arity
          /\ \A i \in 1 .. Depth : ~ ActiveCall(i)
          /\ Throw /\ UNCHANGED ctx
    /\ UNCHANGED <<session, heap, fns, moved>>

-----------------------------------------------------------------------------
Visit ==
    \/ VisitLiteral \/ VisitIdent \/ VisitUnary \/ VisitBinOp
    \/ VisitArray \/ VisitArrayDeref \/ VisitLet \/ VisitAssign
    \/ VisitBlock \/ VisitStmtList \/ VisitIf \/ VisitWhile
    \/ VisitFnLit \/ VisitCall \/ VisitReturn

(* The process has ended.                                                  *)
Ended == mode # "run" /\ UNCHANGED vars

Next == (\E root \in Roots : Submit(root)) \/ EndOfInput \/ Visit \/ Ended

(* The interpreter is never preempted for good: a visit that can step      *)
(* does.  Nothing obliges the user to type.                                *)
Spec == Init /\ [][Next]_vars /\ WF_vars(Visit)

-----------------------------------------------------------------------------
(* Properties.                                                             *)

IsEnv(env) == /\ env \in Seq(1 .. Len(heap))
              /\ Len(env) >= 1
              /\ env[1] = Global

IsFrame(f) == /\ f.node \in Node
              /\ f.pc \in 0 .. Len(Ast[f.node].kids) + 1
              /\ IsEnv(f.saved)

(* Every member has a value of its kind; in particular each environment    *)
(* is a path that starts at the global scope and names existing scopes.    *)
TypeOK ==
    /\ mode \in {"run", "exit", "SIGSEGV", "SIGFPE"}
    /\ outcome \in {"none", "ok", "error"}
    /\ seen \subseteq Roots
    /\ \A i \in 1 .. Depth : IsFrame(stk[i])
    /\ IsEnv(ctx)
    /\ moved \subseteq Node
    /\ \A k \in 1 .. Len(fns) : /\ fns[k].lit \in Node
                                /\ fns[k].body \in Node \union {NoBody}

(* The ctx_ in force inside visitor i, that is, when its child is visited. *)
Inner(i) == IF i = Depth THEN ctx ELSE stk[i + 1].saved

InBlock(i) == Ast[stk[i].node].kind = "Block" /\ stk[i].pc = 1

(* ScopeBalance: BlockStmt pushes and pops with ctx_->parent(), CallExpr   *)
(* with a saved pointer, and returns unwind any mix of them; whatever the  *)
(* nesting, a visitor that returns leaves ctx_ as it found it.  Inside a   *)
(* block ctx_ is one scope below the block's own, inside a call one scope  *)
(* below the global scope, and elsewhere it has not moved.                 *)
ScopeBalance ==
    \A i \in 1 .. Depth :
        IF InBlock(i) THEN /\ Len(Inner(i)) = Len(stk[i].saved) + 1
                           /\ Parent(Inner(i)) = stk[i].saved
        ELSE IF ActiveCall(i) THEN Len(Inner(i)) = 2
        ELSE Inner(i) = stk[i].saved

(* NoClosures: a running function reaches, besides the global scope, no    *)
(* scope its callers can reach, however deep the calls and blocks are      *)
(* nested ("function scope isolation", tests/test_interpreter.cpp:557).    *)
NoClosures ==
    \A i \in 1 .. Depth : \A k \in i .. Depth :
        ActiveCall(i) =>
            \A a \in 2 .. Len(stk[i].saved) : \A b \in 2 .. Len(Inner(k)) :
                stk[i].saved[a] # Inner(k)[b]

(* ParamsKeepTypes: as long as a call runs, its parameters, assigned to or *)
(* not, hold values of the declared types, and its parameter scope         *)
(* declares nothing else: assignment is the only way into that scope.      *)
ParamsKeepTypes ==
    \A i \in 1 .. Depth : ActiveCall(i) =>
        LET params == Literal(stk[i].vals[1]).params
            scope  == heap[Inner(i)[2]]
        IN  /\ DOMAIN scope = {params[p].name : p \in DOMAIN params}
            /\ \A x \in DOMAIN scope :
                  Tid(scope[x]) = PrimType(params[LastParam(params, x)].type)

(* CrashNeedsReuse: a null body is dereferenced only when one function     *)
(* literal has been evaluated twice (line 325 moves the body away).        *)
CrashNeedsReuse ==
    mode = "SIGSEGV" =>
        \E j, k \in 1 .. Len(fns) : j # k /\ fns[j].lit = fns[k].lit

(* CallersUntouched: while a function runs, no step changes a scope of its *)
(* callers other than the global one, nor does one that enters or leaves a *)
(* call ("function does not modify caller scope", test_interpreter:570).   *)
CallersUntouched ==
    [][\A i \in 1 .. Depth : ActiveCall(i) =>
          \A a \in 2 .. Len(stk[i].saved) :
              heap'[stk[i].saved[a]] = heap[stk[i].saved[a]]]_vars

(* CleanInput: an input that ends without an error, by whatever mix of     *)
(* returns and nested blocks, leaves ctx_ where it was when it was typed.  *)
CleanInput ==
    [][stk # <<>> /\ stk' = <<>> /\ outcome' = "ok" => ctx' = stk[1].saved]_vars

(* ImplementsContextStack: the interpreter's handling of ctx_ is the stack *)
(* discipline of ContextStack, although blocks come back through a parent  *)
(* link, calls through a saved pointer and returns past any mix of both.   *)
Contexts == INSTANCE ContextStack
            WITH env   <- ctx,
                 saves <- [i \in 1 .. Depth |-> stk[i].saved],
                 made  <- Len(heap)

ImplementsContextStack == Contexts!Spec

(* IdleAtGlobal: symtab.hpp:10 says scopes are "Pushed/popped when         *)
(* entering/leaving blocks and functions": between two inputs, with every  *)
(* block and function left, the interpreter is in the global scope.        *)
IdleAtGlobal == mode = "run" /\ stk = <<>> => ctx = GlobalEnv

(* NodesStay: "Visitors operate on existing nodes; they do not manage node *)
(* lifetimes" (Memory Management and RAII.md:187): a call always finds the *)
(* body of the function literal in place.                                  *)
NodesStay == mode # "SIGSEGV"

(* InputsEnd: every input typed is eventually answered, with a result, an  *)
(* error message or the end of the process: no visitor gets stuck and no   *)
(* unwinding loses the REPL.  For inputs whose loops and recursions end.   *)
InputsEnd == (stk # <<>>) ~> (stk = <<>>)

=============================================================================
