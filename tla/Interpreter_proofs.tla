------------------------- MODULE Interpreter_proofs -------------------------
(***************************************************************************)
(* Proofs about the interpreter, for every set of inputs: TypeOK,          *)
(* ScopeBalance, CrashNeedsReuse, that it implements ContextStack, and     *)
(* what a running function can reach and change: CleanInput, NoClosures,   *)
(* CallersUntouched and ParamsKeepTypes.                                   *)
(***************************************************************************)
EXTENDS Interpreter, SeqFacts, WellFoundedInduction

Tables == IsSeq(stk) /\ IsSeq(heap) /\ IsSeq(fns) /\ Len(heap) >= 1

-----------------------------------------------------------------------------
(* The node and frame on top of the stack.                                 *)
LEMMA TopFacts ==
    ASSUME TypeOK, Tables, stk # <<>>
    PROVE  /\ Depth \in Nat \ {0}
           /\ Depth \in 1 .. Depth
           /\ Top.node \in Node
           /\ N.kind \in Kinds
           /\ Arity \in Nat
           /\ Arity \in Arities(N.kind)
           /\ \A k \in 1 .. Arity : N.kids[k] \in Node
           /\ N.kind = "FnLit" => N.body \in Node
           /\ Top.pc \in 0 .. Arity + 1
           /\ IsEnv(Top.saved)
<1>1. Depth \in Nat \ {0}
  BY EmptySeq DEF Tables, IsSeq, Depth
<1>2. IsFrame(Top)
  BY <1>1 DEF TypeOK, Top
<1>3. Top.node \in Node /\ IsEnv(Top.saved) /\ Top.pc \in 0 .. Arity + 1
  BY <1>2 DEF IsFrame, Arity, N
<1>4. /\ N.kind \in Kinds
      /\ N.kids \in Seq(Node)
      /\ Arity \in Arities(N.kind)
      /\ N.kind = "FnLit" => N.body \in Node
  BY <1>3, SyntaxAssumption DEF N, Arity, IsFunctionLiteral
<1>5. Arity \in Nat /\ \A k \in 1 .. Arity : N.kids[k] \in Node
  BY <1>4, LenProperties, ElementOfSeq DEF Arity
<1> QED
  BY <1>1, <1>3, <1>4, <1>5

-----------------------------------------------------------------------------
(* What a visit's step does to the stack and to ctx_: one of seven things. *)

SameScopes == ctx' = ctx /\ IsSeq(heap') /\ Len(heap') = Len(heap)

NewScope == IsSeq(heap') /\ Len(heap') = Len(heap) + 1

Push(f, n, env) == stk' = Append([stk EXCEPT ![Depth] = f], Entry(n, env))

(* Visit a child in the same scope.                                        *)
Down ==
    /\ N.kind # "Block" /\ ~ ActiveCall(Depth)
    /\ \E n \in Node, k \in 0 .. Arity , vs \in {<<>>, Vals} :
          Push(Frame(Top.node, k, vs, Top.saved), n, ctx)
    /\ SameScopes

BlockIn ==
    /\ N.kind = "Block" /\ Top.pc = 0
    /\ \E n \in Node : Push(Frame(Top.node, 1, <<>>, Top.saved), n, ctx')
    /\ ctx' = Append(ctx, Len(heap) + 1)
    /\ heap' = Append(heap, NoBindings) /\ NewScope

CallIn ==
    /\ N.kind = "Call" /\ Top.pc = Arity
    /\ Callable(Vals[1]) /\ Accepts(Vals[1], Tail(Vals))
    /\ fns[Data(Vals[1])].body \in Node
    /\ Push(Frame(Top.node, Arity + 1, Vals, ctx), fns[Data(Vals[1])].body, ctx')
    /\ ctx' = <<Global, Len(heap) + 1>>
    /\ heap' = Append(heap, ParamScope(Literal(Vals[1]).params, Tail(Vals)))
    /\ NewScope

Up ==
    /\ ~ InBlock(Depth) /\ ~ ActiveCall(Depth)
    /\ stk' = SubSeq(stk, 1, Depth - 1)
    /\ SameScopes

BlockOut ==
    /\ InBlock(Depth)
    /\ stk' = SubSeq(stk, 1, Depth - 1)
    /\ ctx' = Parent(ctx)
    /\ IsSeq(heap') /\ Len(heap') = Len(heap)

CallOut ==
    \E i \in 1 .. Depth :
        /\ ActiveCall(i)
        /\ stk' = SubSeq(stk, 1, i - 1)
        /\ ctx' = stk[i].saved
        /\ IsSeq(heap') /\ Len(heap') = Len(heap)

Fail ==
    /\ stk' = <<>> /\ outcome' \in {"error", outcome}
    /\ ctx' = ctx \/ \E i \in 1 .. Depth : ctx' = stk[i].saved
    /\ IsSeq(heap') /\ Len(heap') = Len(heap)

Step == Down \/ BlockIn \/ CallIn \/ Up \/ BlockOut \/ CallOut \/ Fail

(* What a visitor of a node other than a block or a call does to the stack.*)
StackStep ==
    \/ \E n \in Node, k \in 0 .. Arity , vs \in {<<>>, Vals} :
          Push(Frame(Top.node, k, vs, Top.saved), n, ctx)
    \/ stk' = SubSeq(stk, 1, Depth - 1)
    \/ stk' = <<>> /\ outcome' \in {"error", outcome}

(* Accept, called from the visitor on top, pushes one frame.               *)
LEMMA Pushes ==
    ASSUME TypeOK, Tables, stk # <<>>, NEW k \in 1 .. Arity,
           NEW j \in 0 .. Arity, NEW vs \in {<<>>, Vals},
           stk' = Append([stk EXCEPT ![Depth] = Frame(Top.node, j, vs, Top.saved)],
                         Entry(N.kids[k], ctx))
    PROVE  StackStep
<1>1. N.kids[k] \in Node
  BY TopFacts
<1> QED
  BY <1>1 DEF StackStep, Push

(* The shapes that need nothing said about scopes.                         *)
LEMMA SmallSteps ==
    ASSUME TypeOK, Tables, stk # <<>>, SameScopes, N.kind # "Block",
           ~ ActiveCall(Depth), StackStep
    PROVE  Step
<1>1. ~ InBlock(Depth)
  BY DEF InBlock, N, Top
<1>2. CASE stk' = SubSeq(stk, 1, Depth - 1)
  BY <1>1, <1>2 DEF Up, Step
<1>3. CASE stk' = <<>> /\ outcome' \in {"error", outcome}
  BY <1>3 DEF Fail, Step, SameScopes
<1>4. CASE \E n \in Node, k \in 0 .. Arity, vs \in {<<>>, Vals} :
              Push(Frame(Top.node, k, vs, Top.saved), n, ctx)
  BY <1>4 DEF Down, Step
<1> QED
  BY <1>2, <1>3, <1>4 DEF StackStep

(* A step that leaves ctx_ and the scopes alone.                           *)
LEMMA QuietScopes ==
    ASSUME Tables, UNCHANGED <<ctx, heap>>
    PROVE  SameScopes
BY DEF Tables, SameScopes

(* A let or an assignment changes bindings, never the scopes in use.       *)
LEMMA WriteScopes ==
    ASSUME Tables, TypeOK, ctx' = ctx, NEW x, NEW v,
           \/ heap' = Define(heap, ctx, x, v)
           \/ IsBound(heap, ctx, x) /\ heap' = Update(heap, ctx, x, v)
    PROVE  SameScopes
<1>1. IsEnv(ctx) /\ IsSeq(heap)
  BY DEF TypeOK, Tables
<1>2. Len(ctx) \in 1 .. Len(ctx) /\ \A i \in 1 .. Len(ctx) : ctx[i] \in 1 .. Len(heap)
  BY <1>1, LenProperties, ElementOfSeq DEF IsEnv
<1>3. ASSUME heap' = Define(heap, ctx, x, v)
      PROVE  SameScopes
  BY <1>1, <1>2, <1>3, ExceptFacts DEF Define, SameScopes
<1>4. ASSUME IsBound(heap, ctx, x), heap' = Update(heap, ctx, x, v)
      PROVE  SameScopes
  <2>1. Holder(heap, ctx, x) \in 1 .. Len(heap)
    BY <1>2, <1>4 DEF IsBound, Holder
  <2> QED
    BY <1>1, <1>4, <2>1, ExceptFacts DEF Update, SameScopes
<1> QED
  BY <1>3, <1>4

(* A visitor of a block or of a call is not one of the others.             *)
LEMMA OtherKinds ==
    ASSUME mode = "run", stk # <<>>, N.kind \notin {"Block", "Call"}
    PROVE  N.kind # "Block" /\ ~ ActiveCall(Depth)
BY DEF ActiveCall, N, Top

(* The visitors that evaluate at most one child a step and make no scope.  *)
LEMMA ExpressionSteps ==
    ASSUME TypeOK, Tables,
           \/ VisitLiteral \/ VisitIdent \/ VisitUnary \/ VisitBinOp
           \/ VisitArray \/ VisitArrayDeref \/ VisitLet \/ VisitAssign
           \/ VisitFnLit
    PROVE  stk # <<>> /\ Step
<1>1. /\ stk # <<>>
      /\ N.kind \in {"Lit", "Ident", "Unary", "BinOp", "Array", "Deref",
                     "Let", "Assign", "FnLit"}
      /\ N.kind # "Block" /\ ~ ActiveCall(Depth)
  BY OtherKinds DEF VisitLiteral, VisitIdent, VisitUnary, VisitBinOp,
     VisitArray, VisitArrayDeref, VisitLet, VisitAssign, VisitFnLit, Visiting
<1>2. /\ Arity \in Nat
      /\ Arity \in Arities(N.kind)
      /\ Top.pc \in 0 .. Arity + 1
  BY <1>1, TopFacts
<1>3. SameScopes
  <2>1. CASE UNCHANGED <<ctx, heap>>
    BY <2>1, QuietScopes
  <2>2. CASE VisitLet /\ heap' = Define(heap, ctx, N.name, result)
    BY <2>2, WriteScopes DEF VisitLet
  <2>3. CASE VisitAssign /\ CanAssign /\ heap' = Update(heap, ctx, N.name, result)
    BY <2>3, WriteScopes DEF VisitAssign, CanAssign
  <2> QED
    BY <2>1, <2>2, <2>3 DEF VisitLiteral, VisitIdent, VisitUnary, VisitBinOp,
       VisitArray, VisitArrayDeref, VisitLet, VisitAssign, VisitFnLit, Die,
       storage
<1>4. ASSUME NEW k \in 1 .. Arity, NEW vs \in {<<>>, Vals},
             stk' = Append([stk EXCEPT ![Depth] = Frame(Top.node, k, vs, Top.saved)],
                           Entry(N.kids[k], ctx))
      PROVE  StackStep
  <2>1. k \in 0 .. Arity
    BY <1>2
  <2> QED
    BY <1>1, <1>4, <2>1, Pushes
<1>5. \/ stk' = SubSeq(stk, 1, Depth - 1)
      \/ stk' = <<>> /\ outcome' \in {"error", outcome}
      => StackStep
  BY DEF StackStep
<1>6. StackStep
  <2> USE DEF Evaluate, Accept, Finish, ReturnTo, Throw, Die
  <2>1. CASE VisitLiteral
    BY <1>5, <2>1 DEF VisitLiteral
  <2>2. CASE VisitIdent
    BY <1>5, <2>2 DEF VisitIdent
  <2>3. CASE VisitUnary
    <3>1. 1 \in 1 .. Arity
      BY <1>2, <2>3 DEF VisitUnary, Visiting, Arities
    <3> QED
      BY <1>4, <1>5, <2>3, <3>1 DEF VisitUnary
  <2>4. CASE VisitBinOp
    <3>1. 1 \in 1 .. Arity /\ 2 \in 1 .. Arity
      BY <1>2, <2>4 DEF VisitBinOp, Visiting, Arities
    <3> QED
      BY <1>4, <1>5, <2>4, <3>1 DEF VisitBinOp, ApplyBinOp
  <2>5. CASE VisitArray
    <3>1. Top.pc < Arity => Top.pc + 1 \in 1 .. Arity
      BY <1>2
    <3> QED
      BY <1>4, <1>5, <2>5, <3>1 DEF VisitArray
  <2>6. CASE VisitArrayDeref
    <3>1. Top.pc < 2 => Top.pc + 1 \in 1 .. Arity
      BY <1>2, <2>6 DEF VisitArrayDeref, Visiting, Arities
    <3> QED
      BY <1>4, <1>5, <2>6, <3>1 DEF VisitArrayDeref
  <2>7. CASE VisitLet
    <3>1. 1 \in 1 .. Arity
      BY <1>2, <2>7 DEF VisitLet, Visiting, Arities
    <3> QED
      BY <1>4, <1>5, <2>7, <3>1 DEF VisitLet
  <2>8. CASE VisitAssign
    <3>1. 1 \in 1 .. Arity
      BY <1>2, <2>8 DEF VisitAssign, Visiting, Arities
    <3> QED
      BY <1>4, <1>5, <2>8, <3>1 DEF VisitAssign
  <2>9. CASE VisitFnLit
    BY <1>5, <2>9 DEF VisitFnLit
  <2> QED
    BY <2>1, <2>2, <2>3, <2>4, <2>5, <2>6, <2>7, <2>8, <2>9
<1> QED
  BY <1>1, <1>3, <1>6, SmallSteps

(* Statements other than a block.                                          *)
LEMMA Statements ==
    ASSUME TypeOK, Tables, VisitStmtList \/ VisitIf \/ VisitWhile
    PROVE  stk # <<>> /\ Step
<1>1. /\ stk # <<>>
      /\ N.kind \in {"StmtList", "If", "While"}
      /\ N.kind # "Block" /\ ~ ActiveCall(Depth)
  BY OtherKinds DEF VisitStmtList, VisitIf, VisitWhile, Visiting
<1>2. /\ Arity \in Nat
      /\ Arity \in Arities(N.kind)
      /\ Top.pc \in 0 .. Arity + 1
  BY <1>1, TopFacts
<1>3. SameScopes
  BY QuietScopes DEF VisitStmtList, VisitIf, VisitWhile, storage
<1>4. ASSUME NEW k \in 1 .. Arity, NEW vs \in {<<>>, Vals},
             stk' = Append([stk EXCEPT ![Depth] = Frame(Top.node, k, vs, Top.saved)],
                           Entry(N.kids[k], ctx))
      PROVE  StackStep
  <2>1. k \in 0 .. Arity
    BY <1>2
  <2> QED
    BY <1>1, <1>4, <2>1, Pushes
<1>5. \/ stk' = SubSeq(stk, 1, Depth - 1)
      \/ stk' = <<>> /\ outcome' \in {"error", outcome}
      => StackStep
  BY DEF StackStep
<1>6. StackStep
  <2> USE DEF Evaluate, Accept, Finish, ReturnTo
  <2>1. CASE VisitStmtList
    <3>1. Top.pc < Arity => Top.pc + 1 \in 1 .. Arity
      BY <1>2
    <3> QED
      BY <1>4, <1>5, <2>1, <3>1 DEF VisitStmtList
  <2>2. CASE VisitIf
    <3>1. 1 \in 1 .. Arity
      BY <1>2, <2>2 DEF VisitIf, Visiting, Arities
    <3>2. Condition(Top.pc) => Top.pc + 1 \in 1 .. Arity
      BY <1>2 DEF Condition
    <3>3. Top.pc + 2 <= Arity => Top.pc + 2 \in 1 .. Arity
      BY <1>2
    <3> QED
      BY <1>4, <1>5, <2>2, <3>1, <3>2, <3>3 DEF VisitIf, NextBranch
  <2>3. CASE VisitWhile
    <3>1. 1 \in 1 .. Arity /\ 2 \in 1 .. Arity
      BY <1>2, <2>3 DEF VisitWhile, Visiting, Arities
    <3> QED
      BY <1>4, <1>5, <2>3, <3>1 DEF VisitWhile
  <2> QED
    BY <2>1, <2>2, <2>3
<1> QED
  BY <1>1, <1>3, <1>6, SmallSteps

(* A block pushes its scope or comes back through the parent link.         *)
LEMMA Blocks ==
    ASSUME TypeOK, Tables, VisitBlock
    PROVE  stk # <<>> /\ Step
<1>1. /\ stk # <<>> /\ N.kind = "Block"
      /\ Arity \in Arities("Block") /\ Arity \in Nat
      /\ \A k \in 1 .. Arity : N.kids[k] \in Node
  BY TopFacts DEF VisitBlock, Visiting
<1>2. 1 \in 0 .. Arity /\ N.kids[1] \in Node
  BY <1>1 DEF Arities
<1>3. CASE EnterBlock
  <2>1. NewScope
    BY <1>3, AppendFacts DEF EnterBlock, Extend, NewScope, Tables
  <2>2. \E n \in Node : Push(Frame(Top.node, 1, <<>>, Top.saved), n, ctx')
    BY <1>2, <1>3 DEF EnterBlock, Accept, Push
  <2> QED
    BY <1>1, <1>3, <2>1, <2>2 DEF EnterBlock, Extend, Child, BlockIn, Step
<1>4. CASE LeaveBlock
  BY <1>1, <1>4 DEF LeaveBlock, Finish, ReturnTo, InBlock, N, Top, BlockOut,
     Step, Tables
<1> QED
  BY <1>1, <1>3, <1>4 DEF VisitBlock

(* The end of the running call number i.                                   *)
LEMMA CallEnds ==
    ASSUME Tables, UNCHANGED heap, NEW i \in 1 .. Depth, ActiveCall(i),
           \/ stk' = SubSeq(stk, 1, i - 1)
           \/ stk' = <<>> /\ outcome' = "error",
           ctx' = stk[i].saved
    PROVE  Step
<1>1. IsSeq(heap') /\ Len(heap') = Len(heap)
  BY DEF Tables
<1>2. CASE stk' = SubSeq(stk, 1, i - 1)
  BY <1>1, <1>2 DEF CallOut, Step
<1>3. CASE stk' = <<>> /\ outcome' = "error"
  BY <1>1, <1>3 DEF Fail, Step
<1> QED
  BY <1>2, <1>3

(* A return ends a visit, a running call with all above it, or the input.  *)
LEMMA Returns ==
    ASSUME TypeOK, Tables, VisitReturn
    PROVE  stk # <<>> /\ Step
<1>1. /\ stk # <<>>
      /\ N.kind = "Return" /\ UNCHANGED heap
      /\ N.kind # "Block" /\ ~ ActiveCall(Depth)
  BY OtherKinds DEF VisitReturn, Visiting
<1>2. Arity \in Nat /\ Arity \in Arities("Return") /\ Top.pc \in 0 .. Arity + 1
  BY <1>1, TopFacts
<1>3. CASE Top.pc < Arity /\ Evaluate(1) /\ UNCHANGED ctx
  <2>1. 1 \in 1 .. Arity /\ 1 \in 0 .. Arity
    BY <1>2, <1>3 DEF Arities
  <2>2. StackStep
    BY <1>1, <1>3, <2>1, Pushes DEF Evaluate, Accept
  <2> QED
    BY <1>1, <1>3, <2>2, QuietScopes, SmallSteps
<1>4. CASE \E i \in 1 .. Depth :
              Innermost(i) /\ LeaveCall(i, IF Arity = 0 THEN Null ELSE result)
  <2>1. PICK i \in 1 .. Depth :
              Innermost(i) /\ LeaveCall(i, IF Arity = 0 THEN Null ELSE result)
    BY <1>4
  <2>2. /\ ActiveCall(i)
        /\ ctx' = stk[i].saved
        /\ \/ stk' = SubSeq(stk, 1, i - 1)
           \/ stk' = <<>> /\ outcome' = "error"
    BY <2>1 DEF Innermost, LeaveCall, ReturnTo, Throw
  <2> QED
    BY <1>1, <2>2, CallEnds
<1>5. CASE Throw /\ UNCHANGED ctx
  <2>1. StackStep
    BY <1>5 DEF Throw, StackStep
  <2> QED
    BY <1>1, <1>5, <2>1, QuietScopes, SmallSteps
<1> QED
  BY <1>1, <1>3, <1>4, <1>5 DEF VisitReturn

(* Entering a function's body.                                             *)
LEMMA Entering ==
    ASSUME TypeOK, Tables, VisitCall, EnterCall, stk # <<>>
    PROVE  \/ /\ stk' = <<>> /\ outcome' \in {"error", outcome}
              /\ UNCHANGED <<ctx, heap>>
           \/ CallIn
<1> DEFINE body  == fns[Data(Vals[1])].body
           scope == ParamScope(Literal(Vals[1]).params, Tail(Vals))
<1>1. Callable(Vals[1]) /\ Top.pc = Arity /\ N.kind = "Call"
  BY DEF VisitCall, Visiting, EnterCall
<1>2. body # NoBody => body \in Node
  BY <1>1 DEF TypeOK, Callable
<1>3. CASE Throw /\ UNCHANGED <<ctx, heap>>
  BY <1>3 DEF Throw
<1>4. CASE Die("SIGSEGV")
  BY <1>4 DEF Die, storage
<1>5. CASE /\ body # NoBody /\ Accepts(Vals[1], Tail(Vals))
           /\ heap' = Extend(heap, scope)
           /\ ctx' = FunctionEnv
           /\ stk' = Append([stk EXCEPT
                                ![Depth] = Frame(Top.node, Arity + 1, Vals, ctx)],
                            Entry(body, ctx'))
  <2>1. heap' = Append(heap, scope) /\ NewScope
    BY <1>5, AppendFacts DEF Extend, NewScope, Tables
  <2>2. ctx' = <<Global, Len(heap) + 1>>
    BY <1>5, PairFacts DEF Child, GlobalEnv, FunctionEnv
  <2>3. Push(Frame(Top.node, Arity + 1, Vals, ctx), body, ctx')
    BY <1>5 DEF Push
  <2> QED
    BY <1>1, <1>2, <1>5, <2>1, <2>2, <2>3 DEF CallIn
<1> QED
  BY <1>3, <1>4, <1>5 DEF EnterCall

(* A call evaluates an operand, enters its body, comes back, or fails.     *)
LEMMA Calls ==
    ASSUME TypeOK, Tables, VisitCall
    PROVE  stk # <<>> /\ Step
<1>1. /\ stk # <<>> /\ N.kind = "Call"
      /\ Depth \in 1 .. Depth
      /\ Arity \in Nat \ {0} /\ Top.pc \in 0 .. Arity + 1
  BY TopFacts DEF VisitCall, Visiting, Arities
<1>2. ActiveCall(Depth) <=> Top.pc = Arity + 1
  BY <1>1 DEF ActiveCall, N, Top, Arity
<1>3. ASSUME stk' = <<>>, outcome' \in {"error", outcome}, UNCHANGED ctx,
             UNCHANGED heap
      PROVE  Step
  <2>1. SameScopes
    BY <1>3, QuietScopes
  <2> QED
    BY <1>3, <2>1 DEF Step, Fail, SameScopes
<1>4. CASE EvaluateOperand
  <2>1. Top.pc + 1 \in 1 .. Arity /\ Top.pc + 1 \in 0 .. Arity
    BY <1>1, <1>4 DEF EvaluateOperand
  <2>2. StackStep
    BY <1>1, <1>4, <2>1, Pushes DEF EvaluateOperand, Evaluate, Accept
  <2>3. ~ ActiveCall(Depth)
    BY <1>1, <1>2, <2>1
  <2> QED
    BY <1>1, <1>4, <2>2, <2>3, QuietScopes, SmallSteps DEF EvaluateOperand
<1>5. CASE CalleeNotFn
  BY <1>1, <1>3, <1>5 DEF CalleeNotFn, Throw
<1>6. CASE EnterCall
  BY <1>1, <1>3, <1>6, Entering DEF Step
<1>7. CASE ReturnFromCall
  <2>1. /\ ActiveCall(Depth) /\ UNCHANGED heap
        /\ ctx' = stk[Depth].saved
        /\ \/ stk' = SubSeq(stk, 1, Depth - 1)
           \/ stk' = <<>> /\ outcome' = "error"
    BY <1>7 DEF ReturnFromCall, LeaveCall, ReturnTo, Throw
  <2> QED
    BY <1>1, <2>1, CallEnds
<1> QED
  BY <1>1, <1>4, <1>5, <1>6, <1>7 DEF VisitCall

(* Every step of a visitor has one of the seven shapes.                    *)
LEMMA Shapes ==
    ASSUME TypeOK, Tables, Visit
    PROVE  stk # <<>> /\ Step
BY ExpressionSteps, Statements, Blocks, Calls, Returns DEF Visit

-----------------------------------------------------------------------------
(* The environments of a stack s with ctx_ = c and m scopes, all at once:  *)
(* each exists, and between two neighbours on the stack it has moved the   *)
(* way the lower one's visitor moves it.                                   *)

FrameIn(f, m) == /\ f.node \in Node
                 /\ f.pc \in 0 .. Len(Ast[f.node].kids) + 1
                 /\ EnvIn(f.saved, m)

Fits(f, inner) ==
    LET node == Ast[f.node]
    IN  IF node.kind = "Block" /\ f.pc = 1
        THEN Len(inner) = Len(f.saved) + 1 /\ Parent(inner) = f.saved
        ELSE IF node.kind = "Call" /\ f.pc = Len(node.kids) + 1
        THEN Len(inner) = 2
        ELSE inner = f.saved

Sound(s, c, m) ==
    /\ IsSeq(s)
    /\ m \in Nat
    /\ EnvIn(c, m)
    /\ \A i \in 1 .. Len(s) : FrameIn(s[i], m) /\ Fits(s[i], Level(s, c, i))

(* Visiting a child, with whatever environment the visitor hands to it.    *)
LEMMA PushSound ==
    ASSUME NEW s, s # <<>>, NEW c, NEW m, Sound(s, c, m),
           NEW m2 \in Nat, m <= m2, NEW c2, EnvIn(c2, m2),
           NEW f, FrameIn(f, m2), f.saved = s[Len(s)].saved, Fits(f, c2),
           NEW n \in Node
    PROVE  Sound(PushOver(s, f, Entry(n, c2)), c2, m2)
<1> DEFINE g == Entry(n, c2)
           t == PushOver(s, f, g)
<1>1. /\ g.node = n /\ g.pc = 0 /\ g.saved = c2
      /\ Len(Ast[n].kids) \in Nat
  <2>1. Len(Ast[n].kids) \in Nat
    BY SyntaxAssumption, LenProperties
  <2> QED
    BY <2>1 DEF Frame, Entry
<1>2. t = PushOver(s, f, g)
  OBVIOUS
<1> HIDE DEF g, t
<1>3. /\ IsSeq(s)
      /\ m \in Nat
      /\ \A i \in 1 .. Len(s) : FrameIn(s[i], m) /\ Fits(s[i], Level(s, c, i))
  BY DEF Sound
<1>4. /\ IsSeq(t)
      /\ Len(s) \in Nat \ {0}
      /\ Len(t) = Len(s) + 1
      /\ \A i \in 1 .. Len(s) - 1 : t[i] = s[i]
      /\ t[Len(s)] = f
      /\ t[Len(s) + 1] = g
  <2>1. IsSeq(s)
    BY <1>3
  <2>2. IsSeq(t)
    <3>1. IsSeq(PushOver(s, f, g))
      BY <2>1, PushFacts, Zenon
    <3> QED
      BY <1>2, <3>1, Zenon
  <2>3. Len(s) \in Nat \ {0} /\ Len(t) = Len(s) + 1
    BY <1>2, <2>1, PushFacts
  <2>4. \A i \in 1 .. Len(s) - 1 : t[i] = s[i]
    BY <1>2, <2>1, PushFacts
  <2>5. t[Len(s)] = f
    BY <1>2, <2>1, PushFacts
  <2>6. t[Len(s) + 1] = g
    BY <1>2, <2>1, PushFacts
  <2> QED
    BY <2>2, <2>3, <2>4, <2>5, <2>6
<1>5. /\ \A i \in 1 .. Len(s) - 1 : Level(t, c2, i) = Level(s, c, i)
      /\ Level(t, c2, Len(s)) = c2
      /\ Level(t, c2, Len(s) + 1) = c2
  BY <1>1, <1>2, <1>3, LevelPushed
<1>6. ASSUME NEW i \in 1 .. Len(t)
      PROVE  FrameIn(t[i], m2) /\ Fits(t[i], Level(t, c2, i))
  <2>1. CASE i \in 1 .. Len(s) - 1
    <3>1. i \in 1 .. Len(s) /\ t[i] = s[i] /\ Level(t, c2, i) = Level(s, c, i)
      BY <1>4, <1>5, <2>1
    <3>2. FrameIn(s[i], m) /\ Fits(s[i], Level(s, c, i))
      BY <1>3, <3>1
    <3>3. FrameIn(s[i], m2)
      BY <1>3, <3>2, EnvStays DEF FrameIn
    <3> QED
      BY <3>1, <3>2, <3>3
  <2>2. CASE i = Len(s)
    BY <1>4, <1>5, <2>2
  <2>3. CASE i = Len(s) + 1
    <3>1. FrameIn(g, m2)
      BY <1>1 DEF FrameIn
    <3>2. Fits(g, c2)
      BY <1>1 DEF Fits
    <3> QED
      BY <1>4, <1>5, <2>3, <3>1, <3>2
  <2> QED
    BY <1>4, <2>1, <2>2, <2>3
<1>7. Sound(t, c2, m2)
  BY <1>4, <1>6 DEF Sound
<1> QED
  BY <1>7 DEF t, g

(* Coming back to where visitor d + 1 began.                               *)
LEMMA PopSound ==
    ASSUME NEW s, s # <<>>, NEW c, NEW m, Sound(s, c, m),
           NEW d \in 0 .. Len(s) - 1
    PROVE  Sound(SubSeq(s, 1, d), s[d + 1].saved, m)
<1> DEFINE t == SubSeq(s, 1, d)
<1>1. /\ IsSeq(s)
      /\ m \in Nat
      /\ \A i \in 1 .. Len(s) : FrameIn(s[i], m) /\ Fits(s[i], Level(s, c, i))
  BY DEF Sound
<1>2. Len(s) \in Nat
  BY <1>1, LenProperties DEF IsSeq
<1>3. /\ IsSeq(t)
      /\ Len(t) = d
      /\ \A i \in 1 .. d : t[i] = s[i]
  BY <1>1, <1>2, PopFacts
<1>4. EnvIn(s[d + 1].saved, m)
  BY <1>1, <1>2 DEF FrameIn
<1> HIDE DEF t
<1>5. ASSUME NEW i \in 1 .. d
      PROVE  FrameIn(t[i], m) /\ Fits(t[i], Level(t, s[d + 1].saved, i))
  <2>1. i \in 1 .. Len(s) /\ t[i] = s[i]
    BY <1>2, <1>3
  <2>2. Level(t, s[d + 1].saved, i) = Level(s, c, i)
    BY <1>1, LevelPopped DEF t
  <2> QED
    BY <1>1, <2>1, <2>2
<1>6. Sound(t, s[d + 1].saved, m)
  BY <1>1, <1>3, <1>4, <1>5 DEF Sound
<1> QED
  BY <1>6 DEF t

-----------------------------------------------------------------------------
(* The inductive invariant: what TypeOK says of the other variables, and   *)
(* Sound, which carries the environments through every nesting.            *)

Members ==
    /\ mode \in {"run", "exit", "SIGSEGV", "SIGFPE"}
    /\ outcome \in {"none", "ok", "error"}
    /\ seen \subseteq Roots
    /\ moved \subseteq Node
    /\ \A k \in 1 .. Len(fns) : /\ fns[k].lit \in Node
                                /\ fns[k].body \in Node \union {NoBody}
    /\ IsSeq(fns)
    /\ IsSeq(heap) /\ Len(heap) >= 1

IInv == Members /\ Sound(stk, ctx, Len(heap))

(* What the invariant says in the terms of the properties.                 *)
LEMMA InvImplies ==
    ASSUME IInv
    PROVE  TypeOK /\ Tables /\ ScopeBalance
<1>1. /\ IsSeq(stk) /\ EnvIn(ctx, Len(heap))
      /\ \A i \in 1 .. Depth : /\ FrameIn(stk[i], Len(heap))
                               /\ Fits(stk[i], Level(stk, ctx, i))
  BY DEF IInv, Sound, Depth
<1>2. TypeOK
  BY <1>1 DEF TypeOK, IInv, Members, IsEnv, IsFrame, EnvIn, FrameIn
<1>3. Tables
  BY <1>1 DEF Tables, IInv, Members
<1>4. ASSUME NEW i \in 1 .. Depth
      PROVE  IF InBlock(i) THEN /\ Len(Inner(i)) = Len(stk[i].saved) + 1
                                /\ Parent(Inner(i)) = stk[i].saved
             ELSE IF ActiveCall(i) THEN Len(Inner(i)) = 2
             ELSE Inner(i) = stk[i].saved
  <2>1. Inner(i) = Level(stk, ctx, i)
    BY DEF Inner, Level, Depth
  <2>2. Fits(stk[i], Inner(i))
    BY <1>1, <2>1
  <2> QED
    BY <2>2 DEF Fits, InBlock, ActiveCall
<1> QED
  BY <1>2, <1>3, <1>4 DEF ScopeBalance

(* The invariant holds of a fresh interpreter.                             *)
LEMMA InitSound == Init => IInv
<1> SUFFICES ASSUME Init PROVE IInv
  OBVIOUS
<1>1. /\ IsSeq(<<>>) /\ Len(<<>>) = 0
      /\ \A e : IsSeq(<<e>>) /\ Len(<<e>>) = 1
  BY DEF IsSeq, Elements
<1>2. Members
  BY <1>1 DEF Init, Members
<1>3. EnvIn(GlobalEnv, 1)
  BY <1>1 DEF EnvIn, GlobalEnv, Global
<1>4. Len(heap) = 1
  BY <1>1 DEF Init
<1>5. Sound(<<>>, GlobalEnv, 1)
  BY <1>1, <1>3 DEF Sound
<1> QED
  BY <1>2, <1>4, <1>5 DEF IInv, Init

(* Every shape of a visitor's step.                                        *)
LEMMA StepSound ==
    ASSUME IInv, stk # <<>>, Step
    PROVE  Sound(stk', ctx', Len(heap'))
<1>1. TypeOK /\ Tables /\ Sound(stk, ctx, Len(heap))
  BY InvImplies DEF IInv
<1>2. /\ Depth \in Nat \ {0} /\ Depth = Len(stk)
      /\ Top = stk[Len(stk)] /\ N = Ast[Top.node]
      /\ Top.node \in Node
      /\ Arity \in Nat /\ Arity = Len(Ast[Top.node].kids)
      /\ Top.pc \in 0 .. Arity + 1
  BY <1>1, TopFacts DEF Depth, Top, N, Arity
<1>3. /\ EnvIn(ctx, Len(heap))
      /\ FrameIn(Top, Len(heap))
      /\ Fits(Top, ctx)
      /\ Len(heap) \in Nat
  BY <1>1, <1>2 DEF Sound, Level
<1>4. ASSUME IsSeq(heap'), NEW d \in 0 .. Depth - 1,
             stk' = SubSeq(stk, 1, d), ctx' = stk[d + 1].saved,
             Len(heap') = Len(heap)
      PROVE  Sound(stk', ctx', Len(heap'))
  BY <1>1, <1>2, <1>4, PopSound
<1>5. CASE Down
  <2>1. PICK n \in Node, k \in 0 .. Arity, vs \in {<<>>, Vals} :
           Push(Frame(Top.node, k, vs, Top.saved), n, ctx)
    BY <1>5 DEF Down
  <2> DEFINE f == Frame(Top.node, k, vs, Top.saved)
  <2>3. f.node = Top.node /\ f.pc = k /\ f.saved = Top.saved
    BY DEF Frame
  <2>4. stk' = PushOver(stk, f, Entry(n, ctx))
    BY <2>1 DEF Push, PushOver, Depth
  <2> HIDE DEF f
  <2>5. FrameIn(f, Len(heap))
    BY <1>2, <1>3, <2>3 DEF FrameIn
  <2>6. ctx = Top.saved
    BY <1>2, <1>3, <1>5 DEF Down, ActiveCall, Fits
  <2>7. k # Arity + 1
    BY <1>2
  <2>8. Fits(f, ctx)
    BY <1>2, <1>5, <2>3, <2>6, <2>7 DEF Down, Fits
  <2>9. Sound(PushOver(stk, f, Entry(n, ctx)), ctx, Len(heap))
    BY <1>1, <1>2, <1>3, <2>3, <2>5, <2>8, PushSound
  <2> QED
    BY <1>5, <2>4, <2>9 DEF Down, SameScopes
<1>6. CASE BlockIn
  <2>1. PICK n \in Node : Push(Frame(Top.node, 1, <<>>, Top.saved), n, ctx')
    BY <1>6 DEF BlockIn
  <2> DEFINE f == Frame(Top.node, 1, <<>>, Top.saved)
  <2>3. f.node = Top.node /\ f.pc = 1 /\ f.saved = Top.saved
    BY DEF Frame
  <2>4. stk' = PushOver(stk, f, Entry(n, ctx'))
    BY <2>1 DEF Push, PushOver, Depth
  <2> HIDE DEF f
  <2>5. Len(heap') \in Nat /\ Len(heap) <= Len(heap') /\ Len(heap) + 1 = Len(heap')
    BY <1>3, <1>6 DEF BlockIn, NewScope
  <2>6. FrameIn(f, Len(heap'))
    <3>1. EnvIn(Top.saved, Len(heap'))
      BY <1>3, <2>5, EnvStays DEF FrameIn
    <3> QED
      BY <1>2, <2>3, <3>1 DEF FrameIn
  <2>7. ctx = Top.saved
    BY <1>2, <1>3, <1>6 DEF BlockIn, Fits
  <2>8. EnvIn(ctx', Len(heap')) /\ Len(ctx') = Len(ctx) + 1 /\ Parent(ctx') = ctx
    BY <1>3, <1>6, <2>5, EnvGrows DEF BlockIn
  <2>9. Fits(f, ctx')
    BY <1>2, <1>6, <2>3, <2>7, <2>8 DEF BlockIn, Fits
  <2>10. Sound(PushOver(stk, f, Entry(n, ctx')), ctx', Len(heap'))
    BY <1>1, <1>2, <1>3, <2>3, <2>5, <2>6, <2>8, <2>9, PushSound
  <2> QED
    BY <2>4, <2>10
<1>7. CASE CallIn
  <2> DEFINE n == fns[Data(Vals[1])].body
             f == Frame(Top.node, Arity + 1, Vals, ctx)
  <2>1. n \in Node /\ Push(Frame(Top.node, Arity + 1, Vals, ctx), n, ctx')
    BY <1>7 DEF CallIn
  <2>3. f.node = Top.node /\ f.pc = Arity + 1 /\ f.saved = ctx
    BY DEF Frame
  <2>4. stk' = PushOver(stk, f, Entry(n, ctx'))
    BY <2>1 DEF Push, PushOver, Depth
  <2> HIDE DEF n, f
  <2>5. Len(heap') \in Nat /\ Len(heap) <= Len(heap') /\ Len(heap) + 1 = Len(heap')
    BY <1>3, <1>7 DEF CallIn, NewScope
  <2>6. ctx = Top.saved
    BY <1>2, <1>3, <1>7 DEF CallIn, Fits
  <2>7. FrameIn(f, Len(heap'))
    <3>1. EnvIn(ctx, Len(heap'))
      BY <1>3, <2>5, EnvStays
    <3> QED
      BY <1>2, <2>3, <3>1 DEF FrameIn
  <2>8. EnvIn(ctx', Len(heap')) /\ Len(ctx') = 2
    <3>1. Len(heap) \in Nat \ {0}
      BY <1>1, <1>3 DEF Tables
    <3> QED
      BY <1>7, <2>5, <3>1, CallEnv DEF CallIn
  <2>9. Fits(f, ctx')
    BY <1>2, <1>7, <2>3, <2>8 DEF CallIn, Fits
  <2>10. Sound(PushOver(stk, f, Entry(n, ctx')), ctx', Len(heap'))
    BY <1>1, <1>2, <1>3, <2>1, <2>3, <2>5, <2>6, <2>7, <2>8, <2>9, PushSound
  <2> QED
    BY <2>4, <2>10
<1>8. CASE Up
  <2>1. ctx = Top.saved
    BY <1>2, <1>3, <1>8 DEF Up, InBlock, ActiveCall, Fits
  <2>2. Depth - 1 \in 0 .. Depth - 1 /\ stk[Depth - 1 + 1] = Top
    BY <1>2
  <2> QED
    BY <1>4, <1>8, <2>1, <2>2 DEF Up, SameScopes
<1>9. CASE BlockOut
  <2>1. ctx' = Top.saved
    BY <1>2, <1>3, <1>9 DEF BlockOut, InBlock, Fits
  <2>2. Depth - 1 \in 0 .. Depth - 1 /\ stk[Depth - 1 + 1] = Top
    BY <1>2
  <2> QED
    BY <1>4, <1>9, <2>1, <2>2 DEF BlockOut
<1>10. CASE CallOut
  <2>1. PICK i \in 1 .. Depth : /\ stk' = SubSeq(stk, 1, i - 1)
                                /\ ctx' = stk[i].saved
    BY <1>10 DEF CallOut
  <2>2. i - 1 \in 0 .. Depth - 1 /\ i - 1 + 1 = i
    BY <1>2
  <2> QED
    BY <1>4, <1>10, <2>1, <2>2 DEF CallOut
<1>11. CASE Fail
  <2>1. \A i \in 1 .. Depth : EnvIn(stk[i].saved, Len(heap))
    BY <1>1, <1>2 DEF Sound, FrameIn
  <2>2. EnvIn(ctx', Len(heap')) /\ Len(heap') \in Nat
    BY <1>3, <1>11, <2>1 DEF Fail
  <2>3. IsSeq(<<>>) /\ Len(<<>>) = 0
    BY DEF IsSeq, Elements
  <2>4. Sound(<<>>, ctx', Len(heap'))
    BY <2>2, <2>3 DEF Sound
  <2> QED
    BY <1>11, <2>4 DEF Fail
<1> QED
  BY <1>5, <1>6, <1>7, <1>8, <1>9, <1>10, <1>11 DEF Step

-----------------------------------------------------------------------------
(* The other variables, and the invariant itself.                          *)

(* What a visit does to them: only a function literal adds an object.      *)
LEMMA VisitMembers ==
    ASSUME IInv, Visit
    PROVE  /\ mode' \in {"run", "exit", "SIGSEGV", "SIGFPE"}
           /\ outcome' \in {"none", "ok", "error"}
           /\ seen' = seen
           /\ \/ UNCHANGED <<fns, moved>>
              \/ /\ N.kind = "FnLit"
                 /\ fns' = Append(fns, [lit  |-> Top.node,
                                        body |-> IF Top.node \in moved
                                                 THEN NoBody ELSE N.body])
                 /\ moved' = moved \union {Top.node}
<1>1. mode = "run"
  BY DEF Visit, Visiting, VisitLiteral, VisitIdent, VisitUnary, VisitBinOp,
     VisitArray, VisitArrayDeref, VisitLet, VisitAssign, VisitBlock,
     VisitStmtList, VisitIf, VisitWhile, VisitFnLit, VisitCall, VisitReturn
<1>2. outcome \in {"none", "ok", "error"}
  BY DEF IInv, Members
<1> USE DEF session, storage, Evaluate, Accept, Finish, ReturnTo, Throw, Die
<1>3. CASE VisitLiteral \/ VisitIdent \/ VisitUnary \/ VisitBinOp
  BY <1>1, <1>2, <1>3
     DEF VisitLiteral, VisitIdent, VisitUnary, VisitBinOp, ApplyBinOp
<1>4. CASE VisitArray \/ VisitArrayDeref \/ VisitLet \/ VisitAssign
  BY <1>1, <1>2, <1>4 DEF VisitArray, VisitArrayDeref, VisitLet, VisitAssign
<1>5. CASE VisitBlock \/ VisitStmtList \/ VisitIf \/ VisitWhile
  BY <1>1, <1>2, <1>5
     DEF VisitBlock, EnterBlock, LeaveBlock, VisitStmtList, VisitIf,
     NextBranch, VisitWhile
<1>6. CASE VisitFnLit
  BY <1>1, <1>2, <1>6 DEF VisitFnLit, Visiting, TakenBody
<1>7. CASE VisitCall
  BY <1>1, <1>2, <1>7 DEF VisitCall, EvaluateOperand, CalleeNotFn, EnterCall,
     ReturnFromCall, LeaveCall
<1>8. CASE VisitReturn
  BY <1>1, <1>2, <1>8 DEF VisitReturn, LeaveCall
<1> QED
  BY <1>3, <1>4, <1>5, <1>6, <1>7, <1>8 DEF Visit

(* A new object, and the literals evaluated so far.                        *)
LEMMA NewObject ==
    ASSUME IInv, stk # <<>>, N.kind = "FnLit",
           fns' = Append(fns, [lit  |-> Top.node,
                               body |-> IF Top.node \in moved
                                        THEN NoBody ELSE N.body])
    PROVE  /\ IsSeq(fns') /\ Len(fns') = Len(fns) + 1 /\ Len(fns) \in Nat
           /\ Top.node \in Node
           /\ \A k \in 1 .. Len(fns) : fns'[k] = fns[k]
           /\ fns'[Len(fns) + 1].lit = Top.node
           /\ fns'[Len(fns) + 1].body = IF Top.node \in moved THEN NoBody
                                                             ELSE N.body
           /\ N.body \in Node
<1> DEFINE e == [lit  |-> Top.node,
                 body |-> IF Top.node \in moved THEN NoBody ELSE N.body]
<1>1. e.lit = Top.node /\ e.body = IF Top.node \in moved THEN NoBody ELSE N.body
  OBVIOUS
<1>2. IsSeq(fns) /\ TypeOK /\ Tables
  BY InvImplies DEF IInv, Members
<1>3. Top.node \in Node /\ N.body \in Node
  BY <1>2, TopFacts
<1>4. fns' = Append(fns, e)
  OBVIOUS
<1> HIDE DEF e
<1>5. /\ IsSeq(fns') /\ Len(fns') = Len(fns) + 1 /\ Len(fns) \in Nat
      /\ \A k \in 1 .. Len(fns) : fns'[k] = fns[k]
      /\ fns'[Len(fns) + 1] = e
  BY <1>2, <1>4, AppendFacts
<1> QED
  BY <1>1, <1>3, <1>5

(* Every step, of the interpreter or of the REPL, keeps the invariant.     *)
LEMMA NextInv == IInv /\ [Next]_vars => IInv'
<1> SUFFICES ASSUME IInv, [Next]_vars PROVE IInv'
  OBVIOUS
<1>1. CASE Visit
  <2>1. TypeOK /\ Tables
    BY InvImplies
  <2>2. stk # <<>> /\ Step
    BY <1>1, <2>1, Shapes
  <2>3. Sound(stk', ctx', Len(heap'))
    BY <2>2, StepSound
  <2>4. IsSeq(heap') /\ Len(heap') >= 1
    <3>1. IsSeq(heap') /\ (Len(heap') = Len(heap) \/ Len(heap') = Len(heap) + 1)
      BY <2>2 DEF Step, Down, BlockIn, CallIn, Up, BlockOut, CallOut, Fail,
         SameScopes, NewScope
    <3>2. Len(heap) \in Nat /\ Len(heap) >= 1
      BY DEF IInv, Members, Sound
    <3> QED
      BY <3>1, <3>2
  <2>5. /\ moved' \subseteq Node
        /\ \A k \in 1 .. Len(fns') : /\ fns'[k].lit \in Node
                                     /\ fns'[k].body \in Node \union {NoBody}
        /\ IsSeq(fns')
    <3>1. /\ moved \subseteq Node
          /\ \A k \in 1 .. Len(fns) : /\ fns[k].lit \in Node
                                      /\ fns[k].body \in Node \union {NoBody}
          /\ IsSeq(fns)
      BY DEF IInv, Members
    <3>2. CASE UNCHANGED <<fns, moved>>
      BY <3>1, <3>2
    <3>3. CASE ~ UNCHANGED <<fns, moved>>
      <4>1. /\ N.kind = "FnLit"
            /\ fns' = Append(fns, [lit  |-> Top.node,
                                   body |-> IF Top.node \in moved
                                            THEN NoBody ELSE N.body])
            /\ moved' = moved \union {Top.node}
        BY <1>1, <3>3, VisitMembers
      <4>2. /\ IsSeq(fns') /\ Len(fns') = Len(fns) + 1 /\ Len(fns) \in Nat
            /\ Top.node \in Node
            /\ \A k \in 1 .. Len(fns) : fns'[k] = fns[k]
            /\ fns'[Len(fns) + 1].lit = Top.node
            /\ fns'[Len(fns) + 1].body \in {NoBody, N.body}
            /\ N.body \in Node
        BY <2>2, <4>1, NewObject
      <4> QED
        BY <3>1, <4>1, <4>2
    <3> QED
      BY <3>2, <3>3
  <2>6. /\ mode' \in {"run", "exit", "SIGSEGV", "SIGFPE"}
        /\ outcome' \in {"none", "ok", "error"}
        /\ seen' \subseteq Roots
    BY <1>1, VisitMembers DEF IInv, Members
  <2> QED
    BY <2>3, <2>4, <2>5, <2>6 DEF IInv, Members
<1>2. ASSUME NEW root \in Roots, Submit(root)
      PROVE  IInv'
  <2> DEFINE s == <<Entry(root, ctx)>>
  <2>1. /\ root \in Node
        /\ Len(Ast[root].kids) \in Nat
    BY SyntaxAssumption, LenProperties
  <2>2. /\ IsSeq(s) /\ Len(s) = 1
        /\ s[1].node = root /\ s[1].pc = 0 /\ s[1].saved = ctx
    BY DEF IsSeq, Elements, Entry, Frame
  <2>3. EnvIn(ctx, Len(heap)) /\ Len(heap) \in Nat
    BY DEF IInv, Sound
  <2> HIDE DEF s
  <2>4. FrameIn(s[1], Len(heap)) /\ Fits(s[1], ctx) /\ Level(s, ctx, 1) = ctx
    BY <2>1, <2>2, <2>3 DEF FrameIn, Fits, Level
  <2>5. Sound(s, ctx, Len(heap))
    BY <2>2, <2>3, <2>4 DEF Sound
  <2>6. Members'
    BY <1>2 DEF IInv, Members, Submit, storage
  <2> QED
    BY <1>2, <2>5, <2>6 DEF IInv, Submit, storage, s
<1>3. CASE EndOfInput
  BY <1>3 DEF EndOfInput, IInv, Members, storage
<1>4. CASE Ended \/ UNCHANGED vars
  BY <1>4 DEF Ended, vars, IInv, Members
<1> QED
  BY <1>1, <1>2, <1>3, <1>4 DEF Next

(* Invariance: for every set of syntax trees and every session.            *)
THEOREM Invariance == Spec => []IInv
BY InitSound, NextInv, PTL DEF Spec

(* TypeOK holds of every session: every environment that ctx_, or a        *)
(* visitor on the stack, points to is a path of existing scopes that       *)
(* starts at the global one.                                               *)
THEOREM TypeCorrect == Spec => []TypeOK
<1>1. IInv => TypeOK
  BY InvImplies
<1> QED
  BY <1>1, Invariance, PTL

(* ScopeBalance holds of every session: whatever mix of blocks, calls and  *)
(* returns, a visitor that returns leaves ctx_ as it found it.             *)
THEOREM ScopesBalanced == Spec => []ScopeBalance
<1>1. IInv => ScopeBalance
  BY InvImplies
<1> QED
  BY <1>1, Invariance, PTL

-----------------------------------------------------------------------------
(* Where null bodies come from.                                            *)

NullBody(k) == fns[k].body = NoBody

Evaluated(n) == \E j \in 1 .. Len(fns) : fns[j].lit = n

Twice(k) == \E j \in 1 .. Len(fns) : j # k /\ fns[j].lit = fns[k].lit

(* A literal without its body has been evaluated, an object without a body *)
(* came from a literal evaluated before, and only such an object crashes.  *)
Reuse ==
    /\ \A n \in moved : Evaluated(n)
    /\ \A k \in 1 .. Len(fns) : NullBody(k) => Twice(k)
    /\ mode = "SIGSEGV" => \E k \in 1 .. Len(fns) : NullBody(k)

(* The signal of a null body is raised by a call of it and nothing else.   *)
LEMMA NullCall ==
    ASSUME Visit, mode' = "SIGSEGV"
    PROVE  \E k \in 1 .. Len(fns) : NullBody(k) /\ UNCHANGED <<fns, moved>>
<1>1. mode = "run"
  BY DEF Visit, Visiting, VisitLiteral, VisitIdent, VisitUnary, VisitBinOp,
     VisitArray, VisitArrayDeref, VisitLet, VisitAssign, VisitBlock,
     VisitStmtList, VisitIf, VisitWhile, VisitFnLit, VisitCall, VisitReturn
<1>2. VisitCall
  <2> USE DEF session, Die
  <2>1. ~ (VisitLiteral \/ VisitIdent \/ VisitUnary \/ VisitBinOp)
    BY <1>1 DEF VisitLiteral, VisitIdent, VisitUnary, VisitBinOp
  <2>2. ~ (VisitArray \/ VisitArrayDeref \/ VisitLet \/ VisitAssign)
    BY <1>1 DEF VisitArray, VisitArrayDeref, VisitLet, VisitAssign
  <2>3. ~ (VisitBlock \/ VisitStmtList \/ VisitIf \/ VisitWhile)
    BY <1>1 DEF VisitBlock, VisitStmtList, VisitIf, VisitWhile
  <2>4. ~ (VisitFnLit \/ VisitReturn)
    BY <1>1 DEF VisitFnLit, VisitReturn
  <2> QED
    BY <2>1, <2>2, <2>3, <2>4 DEF Visit
<1>3. EnterCall /\ UNCHANGED <<fns, moved>>
  BY <1>1, <1>2 DEF VisitCall, EvaluateOperand, CalleeNotFn, ReturnFromCall
<1>4. Data(Vals[1]) \in 1 .. Len(fns) /\ NullBody(Data(Vals[1]))
  BY <1>1, <1>3 DEF EnterCall, Callable, NullBody
<1> QED
  BY <1>3, <1>4

(* Only a literal evaluated a second time makes an object without a body.  *)
LEMMA ReuseNext == IInv /\ Reuse /\ [Next]_vars => Reuse'
<1> SUFFICES ASSUME IInv, Reuse, [Next]_vars PROVE Reuse'
  OBVIOUS
<1>1. CASE Visit
  <2>1. mode # "SIGSEGV"
    BY <1>1
     DEF Visit, Visiting, VisitLiteral, VisitIdent, VisitUnary, VisitBinOp,
     VisitArray, VisitArrayDeref, VisitLet, VisitAssign, VisitBlock,
     VisitStmtList, VisitIf, VisitWhile, VisitFnLit, VisitCall, VisitReturn
  <2>2. CASE UNCHANGED <<fns, moved>>
    <3>1. mode' = "SIGSEGV" => \E k \in 1 .. Len(fns) : NullBody(k)
      BY <1>1, NullCall
    <3> QED
      BY <2>2, <3>1 DEF Reuse, Evaluated, NullBody, Twice
  <2>3. CASE ~ UNCHANGED <<fns, moved>>
    <3>1. /\ N.kind = "FnLit"
          /\ fns' = Append(fns, [lit  |-> Top.node,
                                 body |-> IF Top.node \in moved
                                          THEN NoBody ELSE N.body])
          /\ moved' = moved \union {Top.node}
      BY <1>1, <2>3, VisitMembers
    <3>2. stk # <<>>
      BY <1>1, InvImplies, Shapes
    <3>3. /\ Len(fns') = Len(fns) + 1 /\ Len(fns) \in Nat
          /\ \A k \in 1 .. Len(fns) : fns'[k] = fns[k]
          /\ fns'[Len(fns) + 1].lit = Top.node
          /\ fns'[Len(fns) + 1].body = IF Top.node \in moved THEN NoBody
                                                            ELSE N.body
          /\ N.body # NoBody
      BY <3>1, <3>2, NewObject, SessionAssumption
    <3>4. mode' # "SIGSEGV"
      BY <1>1, <2>3, NullCall
    <3>5. \A n \in moved' : Evaluated(n)'
      <4>1. ASSUME NEW n, n = Top.node PROVE Evaluated(n)'
        BY <3>3, <4>1 DEF Evaluated
      <4>2. ASSUME NEW n \in moved PROVE Evaluated(n)'
        BY <3>3 DEF Evaluated, Reuse
      <4> QED
        BY <3>1, <4>1, <4>2
    <3>6. ASSUME NEW k \in 1 .. Len(fns'), NullBody(k)' PROVE Twice(k)'
      <4>1. CASE k \in 1 .. Len(fns)
        <5>1. Twice(k)
          BY <3>3, <3>6, <4>1 DEF Reuse, NullBody
        <5> QED
          BY <3>3, <4>1, <5>1 DEF Twice
      <4>2. CASE k = Len(fns) + 1
        <5>1. Top.node \in moved
          BY <3>3, <3>6, <4>2 DEF NullBody
        <5>2. PICK j \in 1 .. Len(fns) : fns[j].lit = Top.node
          BY <5>1 DEF Reuse, Evaluated
        <5> QED
          BY <3>3, <4>2, <5>2 DEF Twice
      <4> QED
        BY <3>3, <4>1, <4>2
    <3> QED
      BY <3>4, <3>5, <3>6 DEF Reuse
  <2> QED
    BY <2>2, <2>3
<1>2. CASE (\E root \in Roots : Submit(root)) \/ EndOfInput
  BY <1>2 DEF Submit, EndOfInput, storage, Reuse, Evaluated, NullBody, Twice
<1>3. CASE Ended \/ UNCHANGED vars
  BY <1>3 DEF Ended, vars, Reuse, Evaluated, NullBody, Twice
<1> QED
  BY <1>1, <1>2, <1>3 DEF Next

(* CrashNeedsReuse holds of every session: the process dereferences a null *)
(* body only after some function literal has been evaluated twice, so a    *)
(* program that evaluates each of its literals once never crashes there.   *)
THEOREM CrashesExplained == Spec => []CrashNeedsReuse
<1>1. Init => Reuse
  <2>1. Len(<<>>) = 0
    OBVIOUS
  <2> QED
    BY <2>1 DEF Init, Reuse
<1>2. Reuse => CrashNeedsReuse
  BY DEF Reuse, CrashNeedsReuse, Twice
<1> QED
  BY <1>1, <1>2, ReuseNext, Invariance, PTL DEF Spec

-----------------------------------------------------------------------------
(* The interpreter implements ContextStack: each shape of a visitor's step *)
(* is one of the abstract actions.                                         *)

(* Each shape of step is a step of the abstract stack.                     *)
LEMMA StepMaps ==
    ASSUME IInv, stk # <<>>, Step
    PROVE  \/ Beginning(stk, ctx, Len(heap), stk', ctx', Len(heap'))
           \/ Ending(stk, ctx, Len(heap), stk', ctx', Len(heap'))
           \/ GivingUp(stk, ctx, Len(heap), stk', ctx', Len(heap'))
<1>1. /\ TypeOK /\ Tables /\ IsSeq(stk)
      /\ Fits(Top, ctx)
      /\ Depth \in Nat \ {0} /\ Depth = Len(stk) /\ Top = stk[Len(stk)]
      /\ Arity \in Nat /\ Arity = Len(Ast[Top.node].kids) /\ N = Ast[Top.node]
  <2>1. TypeOK /\ Tables
    BY InvImplies
  <2>2. Depth \in Nat \ {0} /\ Depth \in 1 .. Depth /\ Arity \in Nat
    BY <2>1, TopFacts
  <2> QED
    BY <2>1, <2>2 DEF IInv, Sound, Level, Tables, Depth, Top, N, Arity
<1>2. /\ Len(Saves(stk)) = Len(stk)
      /\ \A i \in 1 .. Len(stk) : Saves(stk)[i] = stk[i].saved
  BY <1>1, SavesSeq
<1>3. ASSUME NEW f, NEW n, NEW env, f.saved = Top.saved,
             stk' = Append([stk EXCEPT ![Depth] = f], Entry(n, env))
      PROVE  Saves(stk') = Append(Saves(stk), env)
  <2>1. stk' = PushOver(stk, f, Entry(n, env))
    BY <1>1, <1>3 DEF PushOver
  <2>2. Entry(n, env).saved = env
    BY DEF Entry, Frame
  <2>3. Saves(PushOver(stk, f, Entry(n, env))) = Append(Saves(stk), Entry(n, env).saved)
    BY <1>1, <1>3, SavesPushed
  <2> QED
    BY <2>1, <2>2, <2>3
<1>4. ASSUME NEW i \in 1 .. Depth, stk' = SubSeq(stk, 1, i - 1),
             ctx' = stk[i].saved, Len(heap') = Len(heap)
      PROVE  Ending(stk, ctx, Len(heap), stk', ctx', Len(heap'))
  <2>1. i - 1 \in 0 .. Len(stk)
    BY <1>1
  <2>2. Saves(stk') = SubSeq(Saves(stk), 1, i - 1)
    BY <1>1, <1>4, <2>1, SavesPopped
  <2> QED
    BY <1>1, <1>2, <1>4, <2>2 DEF Ending
<1>5. CASE Down
  <2>1. PICK n, k, vs :
           stk' = Append([stk EXCEPT ![Depth] = Frame(Top.node, k, vs, Top.saved)],
                         Entry(n, ctx))
    BY <1>5 DEF Down, Push
  <2>2. Saves(stk') = Append(Saves(stk), ctx)
    <3> DEFINE f == Frame(Top.node, k, vs, Top.saved)
    <3>1. f.saved = Top.saved
      BY DEF Frame
    <3>2. stk' = Append([stk EXCEPT ![Depth] = f], Entry(n, ctx))
      BY <2>1
    <3> HIDE DEF f
    <3> QED
      BY <1>3, <3>1, <3>2
  <2> QED
    BY <1>5, <2>2 DEF Down, SameScopes, Beginning
<1>6. CASE BlockIn
  <2>1. PICK n :
           stk' = Append([stk EXCEPT ![Depth] = Frame(Top.node, 1, <<>>, Top.saved)],
                         Entry(n, ctx'))
    BY <1>6 DEF BlockIn, Push
  <2>2. Saves(stk') = Append(Saves(stk), ctx')
    <3> DEFINE f == Frame(Top.node, 1, <<>>, Top.saved)
    <3>1. f.saved = Top.saved
      BY DEF Frame
    <3>2. stk' = Append([stk EXCEPT ![Depth] = f], Entry(n, ctx'))
      BY <2>1
    <3> HIDE DEF f
    <3> QED
      BY <1>3, <3>1, <3>2
  <2> QED
    BY <1>6, <2>2 DEF BlockIn, NewScope, Beginning
<1>7. CASE CallIn
  <2>1. PICK n :
           stk' = Append([stk EXCEPT ![Depth] = Frame(Top.node, Arity + 1, Vals, ctx)],
                         Entry(n, ctx'))
    BY <1>7 DEF CallIn, Push
  <2>2. ctx = Top.saved
    <3>1. N.kind = "Call" /\ Top.pc = Arity
      BY <1>7 DEF CallIn
    <3> QED
      BY <1>1, <3>1 DEF Fits
  <2>3. Saves(stk') = Append(Saves(stk), ctx')
    <3> DEFINE f == Frame(Top.node, Arity + 1, Vals, ctx)
    <3>1. f.saved = Top.saved
      BY <2>2 DEF Frame
    <3>2. stk' = Append([stk EXCEPT ![Depth] = f], Entry(n, ctx'))
      BY <2>1
    <3> HIDE DEF f
    <3> QED
      BY <1>3, <3>1, <3>2
  <2> QED
    BY <1>7, <2>3 DEF CallIn, NewScope, Beginning, Global
<1>8. CASE Up
  <2>1. ctx = Top.saved
    BY <1>1, <1>8 DEF Up, InBlock, ActiveCall, Fits
  <2> QED
    BY <1>1, <1>4, <1>8, <2>1 DEF Up, SameScopes
<1>9. CASE BlockOut
  <2>1. ctx' = Top.saved
    BY <1>1, <1>9 DEF BlockOut, InBlock, Fits
  <2> QED
    BY <1>1, <1>4, <1>9, <2>1 DEF BlockOut
<1>10. CASE CallOut
  BY <1>4, <1>10 DEF CallOut
<1>11. CASE Fail
  <2>1. Saves(stk') = <<>>
    BY <1>11 DEF Fail, Saves
  <2> QED
    BY <1>1, <1>2, <1>11, <2>1 DEF Fail, GivingUp
<1> QED
  BY <1>5, <1>6, <1>7, <1>8, <1>9, <1>10, <1>11 DEF Step

(* ContextStack's actions, in terms of Saves.                              *)
LEMMA ContextsNext ==
    ASSUME \/ Beginning(stk, ctx, Len(heap), stk', ctx', Len(heap'))
           \/ Ending(stk, ctx, Len(heap), stk', ctx', Len(heap'))
           \/ GivingUp(stk, ctx, Len(heap), stk', ctx', Len(heap')),
           IsSeq(stk)
    PROVE  Contexts!Next
<1>1. /\ Saves(stk) = [i \in 1 .. Depth |-> stk[i].saved]
      /\ Saves(stk') = [i \in 1 .. Depth |-> stk[i].saved]'
      /\ Len(Saves(stk)) = Len(stk)
  BY SavesSeq DEF Saves, Depth
<1>2. CASE Beginning(stk, ctx, Len(heap), stk', ctx', Len(heap'))
  BY <1>1, <1>2 DEF Beginning, Contexts!Next, Contexts!Begin, Contexts!BeginHere,
     Contexts!BeginInBlock, Contexts!BeginInFunction
<1>3. CASE Ending(stk, ctx, Len(heap), stk', ctx', Len(heap'))
  BY <1>1, <1>3 DEF Ending, Contexts!Next, Contexts!End
<1>4. CASE GivingUp(stk, ctx, Len(heap), stk', ctx', Len(heap'))
  BY <1>1, <1>4 DEF GivingUp, Contexts!Next, Contexts!GiveUp
<1> QED
  BY <1>2, <1>3, <1>4

(* The interpreter's handling of ctx_ is the stack discipline that         *)
(* ContextStack states, for every set of inputs.                           *)
THEOREM Refinement == Spec => ImplementsContextStack
<1> DEFINE AbsVars == <<ctx, [i \in 1 .. Depth |-> stk[i].saved], Len(heap)>>
<1>1. Init => Contexts!Init
  <2> SUFFICES ASSUME Init PROVE Contexts!Init
    OBVIOUS
  <2>1. Len(<<>>) = 0 /\ Len(<<NoBindings>>) = 1
    OBVIOUS
  <2>2. [i \in 1 .. Depth |-> stk[i].saved] = <<>>
    BY <2>1 DEF Init, Depth
  <2> QED
    BY <2>1, <2>2 DEF Init, GlobalEnv, Global, Contexts!Init
<1>2. IInv /\ [Next]_vars => [Contexts!Next]_AbsVars
  <2> SUFFICES ASSUME IInv, [Next]_vars
               PROVE  Contexts!Next \/ UNCHANGED AbsVars
    OBVIOUS
  <2>1. IsSeq(stk)
    BY DEF IInv, Sound
  <2>2. CASE Visit
    <3>1. stk # <<>> /\ Step
      BY <2>2, InvImplies, Shapes
    <3> QED
      BY <2>1, <3>1, StepMaps, ContextsNext
  <2>3. ASSUME NEW root \in Roots, Submit(root)
        PROVE  Contexts!Next
    <3>1. Entry(root, ctx).saved = ctx
      BY DEF Entry, Frame
    <3>2. /\ Len(<<>>) = 0 /\ Len(<<Entry(root, ctx)>>) = 1
          /\ <<Entry(root, ctx)>>[1] = Entry(root, ctx)
      OBVIOUS
    <3>3. Saves(<<>>) = <<>> /\ Saves(<<Entry(root, ctx)>>) = <<ctx>>
      BY <3>1, <3>2 DEF Saves
    <3>4. Append(<<>>, ctx) = <<ctx>>
      OBVIOUS
    <3>5. Beginning(stk, ctx, Len(heap), stk', ctx', Len(heap'))
      BY <2>3, <3>3, <3>4 DEF Submit, storage, Beginning
    <3> QED
      BY <2>1, <3>5, ContextsNext
  <2>4. CASE EndOfInput \/ Ended \/ UNCHANGED vars
    BY <2>4 DEF EndOfInput, Ended, vars, storage, Depth
  <2> QED
    BY <2>2, <2>3, <2>4 DEF Next
<1> QED
  BY <1>1, <1>2, Invariance, PTL DEF Spec, ImplementsContextStack, Contexts!Spec

-----------------------------------------------------------------------------
(* The end of an input.                                                    *)

(* An answer is given when the last visitor is gone, and not before.       *)
Unanswered == stk # <<>> => outcome = "none"

(* A visit leaves the answer open, or it leaves no visitor.                *)
LEMMA AnswerAtEnd ==
    ASSUME Visit
    PROVE  stk' = <<>> \/ UNCHANGED outcome
<1>1. SubSeq(stk, 1, 0) = <<>>
  OBVIOUS
<1> USE DEF Evaluate, Accept, Finish, ReturnTo, Throw, Die
<1>2. CASE VisitLiteral \/ VisitIdent \/ VisitUnary \/ VisitBinOp
  BY <1>1, <1>2 DEF VisitLiteral, VisitIdent, VisitUnary, VisitBinOp, ApplyBinOp
<1>3. CASE VisitArray \/ VisitArrayDeref \/ VisitLet \/ VisitAssign
  BY <1>1, <1>3 DEF VisitArray, VisitArrayDeref, VisitLet, VisitAssign
<1>4. CASE VisitBlock \/ VisitStmtList \/ VisitIf \/ VisitWhile
  BY <1>1, <1>4 DEF VisitBlock, EnterBlock, LeaveBlock, VisitStmtList, VisitIf,
     NextBranch, VisitWhile
<1>5. CASE VisitFnLit \/ VisitReturn
  BY <1>1, <1>5 DEF VisitFnLit, VisitReturn, LeaveCall
<1>6. CASE VisitCall
  BY <1>1, <1>6 DEF VisitCall, EvaluateOperand, CalleeNotFn, EnterCall,
     ReturnFromCall, LeaveCall
<1> QED
  BY <1>2, <1>3, <1>4, <1>5, <1>6 DEF Visit

(* Between two inputs there is an answer; while one runs there is none.    *)
LEMMA UnansweredNext == Unanswered /\ [Next]_vars => Unanswered'
<1> SUFFICES ASSUME Unanswered, [Next]_vars PROVE Unanswered'
  OBVIOUS
<1>1. Visit => stk # <<>>
  BY DEF Visit, Visiting, VisitLiteral, VisitIdent, VisitUnary, VisitBinOp,
     VisitArray, VisitArrayDeref, VisitLet, VisitAssign, VisitBlock,
     VisitStmtList, VisitIf, VisitWhile, VisitFnLit, VisitCall, VisitReturn
<1>2. CASE Visit
  BY <1>1, <1>2, AnswerAtEnd DEF Unanswered
<1>3. CASE (\E root \in Roots : Submit(root)) \/ EndOfInput \/ Ended \/ UNCHANGED vars
  BY <1>3 DEF Submit, EndOfInput, Ended, vars, Unanswered
<1> QED
  BY <1>2, <1>3 DEF Next

(* A step that leaves no visitor and answers "ok" restores ctx_.           *)
LEMMA EndsClean ==
    ASSUME IInv, Unanswered, [Next]_vars,
           stk # <<>>, stk' = <<>>, outcome' = "ok"
    PROVE  ctx' = stk[1].saved
<1>1. IsSeq(stk) /\ TypeOK /\ Tables
  BY InvImplies DEF IInv, Sound
<1>2. /\ Depth \in Nat \ {0} /\ Depth = Len(stk)
      /\ Top = stk[Depth] /\ N = Ast[Top.node] /\ Arity = Len(N.kids)
      /\ Fits(Top, ctx)
  BY <1>1, TopFacts DEF Depth, Top, N, Arity, IInv, Sound, Level
<1>3. Visit
  BY DEF Next, Submit, EndOfInput, Ended, vars
<1>4. Step
  BY <1>1, <1>3, Shapes
<1>5. ASSUME NEW d \in 0 .. Depth, SubSeq(stk, 1, d) = <<>>
      PROVE  d = 0
  BY <1>1, <1>2, <1>5, PopFacts
<1>6. ASSUME NEW f, NEW g, stk' = PushOver(stk, f, g)
      PROVE  FALSE
  <2>1. Len(PushOver(stk, f, g)) = Depth + 1
    BY <1>1, <1>2, PushFacts
  <2> QED
    BY <1>2, <1>6, <2>1
<1>7. ~ (Down \/ BlockIn \/ CallIn)
  BY <1>6 DEF Down, BlockIn, CallIn, Push, PushOver, Depth
<1>8. CASE Up \/ BlockOut
  <2>1. SubSeq(stk, 1, Depth - 1) = <<>> /\ Depth - 1 \in 0 .. Depth
    BY <1>2, <1>8 DEF Up, BlockOut
  <2>2. Depth \in Nat \ {0}
    BY <1>2
  <2>3. Depth = 1
    <3>1. Depth - 1 = 0
      BY <1>5, <2>1
    <3> QED
      BY <2>2, <3>1
  <2>4. CASE Up
    BY <1>2, <2>3, <2>4 DEF Up, InBlock, ActiveCall, Fits, SameScopes
  <2>5. CASE BlockOut
    BY <1>2, <2>3, <2>5 DEF BlockOut, InBlock, Fits
  <2> QED
    BY <1>8, <2>4, <2>5
<1>9. CASE CallOut
  <2>1. PICK i \in 1 .. Depth : stk' = SubSeq(stk, 1, i - 1) /\ ctx' = stk[i].saved
    BY <1>9 DEF CallOut
  <2>2. i - 1 \in 0 .. Depth
    BY <1>2
  <2>3. i = 1
    BY <1>2, <1>5, <2>1, <2>2
  <2> QED
    BY <2>1, <2>3
<1>10. ~ Fail
  BY DEF Fail, Unanswered
<1> QED
  BY <1>4, <1>7, <1>8, <1>9, <1>10 DEF Step

(* CleanInput holds of every session: an input that ends without an error  *)
(* leaves ctx_ where it was, whatever returns and blocks it went through.  *)
THEOREM InputsEndClean == Spec => CleanInput
<1>1. Init => Unanswered
  BY DEF Init, Unanswered
<1>2. IInv /\ Unanswered /\ [Next]_vars
      => [stk # <<>> /\ stk' = <<>> /\ outcome' = "ok" => ctx' = stk[1].saved]_vars
  BY EndsClean
<1> QED
  BY <1>1, <1>2, UnansweredNext, Invariance, PTL DEF Spec, CleanInput

-----------------------------------------------------------------------------
(* The running functions and the environments of the stack above them.     *)

Running(f) == Ast[f.node].kind = "Call" /\ f.pc = Len(Ast[f.node].kids) + 1

Apart(e, e2) == \A a \in 2 .. Len(e) : \A b \in 2 .. Len(e2) : e[a] # e2[b]

LastScope(e) == e[Len(e)]

(* Of a running call in a stack s, with c at the top: no environment from  *)
(* the call on up shares a scope with the caller's, but for the global     *)
(* one; its body is a block, and whatever runs inside that block is in an  *)
(* inner scope than the one of the parameters.                             *)
Nested(s, c) ==
    \A i \in 1 .. Len(s) : Running(s[i]) =>
        /\ \A k \in i .. Len(s) : Apart(s[i].saved, Level(s, c, k))
        /\ i < Len(s) => Ast[s[i + 1].node].kind = "Block"
        /\ \A k \in i + 2 .. Len(s) : LastScope(s[k].saved) # Level(s, c, i)[2]

(* The environment inside any visitor of a sound stack is one.             *)
LEMMA LevelEnv ==
    ASSUME NEW s, NEW c, NEW m, Sound(s, c, m)
    PROVE  \A i \in 1 .. Len(s) : EnvIn(Level(s, c, i), m)
<1>1. Len(s) \in Nat /\ EnvIn(c, m) /\ \A i \in 1 .. Len(s) : EnvIn(s[i].saved, m)
  BY LenProperties DEF Sound, IsSeq, FrameIn
<1> QED
  BY <1>1 DEF Level

(* A new scope is apart from every environment there was.                  *)
LEMMA ApartNew ==
    ASSUME NEW m \in Nat \ {0}, NEW e, EnvIn(e, m)
    PROVE  /\ Apart(e, <<Global, m + 1>>)
           /\ \A c : EnvIn(c, m) /\ Apart(e, c) => Apart(e, Append(c, m + 1))
<1>1. \A a \in 2 .. Len(e) : e[a] \in 1 .. m
  BY ElementOfSeq, LenProperties DEF EnvIn
<1>2. Apart(e, <<Global, m + 1>>)
  <2>1. Len(<<Global, m + 1>>) = 2 /\ <<Global, m + 1>>[2] = m + 1
    OBVIOUS
  <2> QED
    BY <1>1, <2>1 DEF Apart
<1>3. ASSUME NEW c, EnvIn(c, m), Apart(e, c)
      PROVE  Apart(e, Append(c, m + 1))
  <2> DEFINE d == Append(c, m + 1)
  <2>1. /\ Len(c) \in Nat /\ Len(c) >= 1 /\ Len(d) = Len(c) + 1
        /\ \A i \in 1 .. Len(c) : d[i] = c[i]
        /\ d[Len(c) + 1] = m + 1
    BY <1>3, EnvGrows, LenProperties DEF EnvIn
  <2> HIDE DEF d
  <2>2. ASSUME NEW a \in 2 .. Len(e), NEW b \in 2 .. Len(d) PROVE e[a] # d[b]
    <3>1. CASE b = Len(c) + 1
      BY <1>1, <2>1, <3>1
    <3>2. CASE b \in 2 .. Len(c)
      <4>1. d[b] = c[b]
        BY <2>1, <3>2
      <4> QED
        BY <1>3, <3>2, <4>1 DEF Apart
    <3> QED
      BY <2>1, <3>1, <3>2
  <2> QED
    BY <2>2 DEF Apart, d
<1> QED
  BY <1>2, <1>3

(* Visiting a child, in whatever environment.                              *)
LEMMA NestedPush ==
    ASSUME NEW s, IsSeq(s), s # <<>>, NEW c, Nested(s, c), NEW c2,
           NEW f, f.saved = s[Len(s)].saved, f.node = s[Len(s)].node,
           NEW g, g.saved = c2, ~ Running(g),
           \A i \in 1 .. Len(s) - 1 : Running(s[i]) =>
               Apart(s[i].saved, c2) /\ LastScope(c2) # Level(s, c, i)[2],
           Running(f) => Apart(f.saved, c2) /\ Ast[g.node].kind = "Block"
    PROVE  Nested(PushOver(s, f, g), c2)
<1> DEFINE t == PushOver(s, f, g)
<1>1. /\ Len(s) \in Nat \ {0} /\ Len(t) = Len(s) + 1
      /\ \A i \in 1 .. Len(s) - 1 : t[i] = s[i]
      /\ t[Len(s)] = f /\ t[Len(s) + 1] = g
  BY PushFacts
<1>2. /\ \A i \in 1 .. Len(s) - 1 : Level(t, c2, i) = Level(s, c, i)
      /\ Level(t, c2, Len(s)) = c2
      /\ Level(t, c2, Len(s) + 1) = c2
  <2>1. s[Len(s)].saved = f.saved
    OBVIOUS
  <2>2. t = PushOver(s, f, g)
    OBVIOUS
  <2> HIDE DEF t
  <2> QED
    BY <2>1, <2>2, LevelPushed
<1> HIDE DEF t
<1>3. ASSUME NEW i \in 1 .. Len(t), Running(t[i])
      PROVE  /\ \A k \in i .. Len(t) : Apart(t[i].saved, Level(t, c2, k))
             /\ i < Len(t) => Ast[t[i + 1].node].kind = "Block"
             /\ \A k \in i + 2 .. Len(t) : LastScope(t[k].saved) # Level(t, c2, i)[2]
  <2>1. i \in 1 .. Len(s) - 1 \/ i = Len(s)
    BY <1>1, <1>3
  <2>2. CASE i \in 1 .. Len(s) - 1
    <3>1. /\ i \in 1 .. Len(s) /\ t[i] = s[i] /\ Running(s[i])
          /\ Level(t, c2, i) = Level(s, c, i)
      BY <1>1, <1>2, <1>3, <2>2
    <3>2. /\ \A k \in i .. Len(s) : Apart(s[i].saved, Level(s, c, k))
          /\ i < Len(s) => Ast[s[i + 1].node].kind = "Block"
          /\ \A k \in i + 2 .. Len(s) : LastScope(s[k].saved) # Level(s, c, i)[2]
      BY <3>1 DEF Nested
    <3>3. ASSUME NEW k \in i .. Len(t) PROVE Apart(t[i].saved, Level(t, c2, k))
      <4>1. CASE k \in i .. Len(s) - 1
        BY <1>1, <1>2, <2>2, <3>1, <3>2, <4>1
      <4>2. CASE k = Len(s) \/ k = Len(s) + 1
        BY <1>2, <2>2, <3>1, <4>2
      <4> QED
        BY <1>1, <4>1, <4>2
    <3>4. t[i + 1].node = s[i + 1].node
      BY <1>1, <2>2
    <3>5. ASSUME NEW k \in i + 2 .. Len(t)
          PROVE  LastScope(t[k].saved) # Level(t, c2, i)[2]
      <4>1. CASE k = Len(s) + 1
        BY <1>1, <2>2, <3>1, <4>1
      <4>2. CASE k \in i + 2 .. Len(s)
        <5>1. t[k].saved = s[k].saved
          BY <1>1, <2>2, <4>2
        <5> QED
          BY <3>1, <3>2, <4>2, <5>1
      <4> QED
        BY <1>1, <4>1, <4>2
    <3>6. i < Len(s)
      BY <1>1, <2>2
    <3> QED
      BY <3>2, <3>3, <3>4, <3>5, <3>6
  <2>3. CASE i = Len(s)
    <3>1. t[i] = f /\ t[i + 1] = g /\ Running(f)
      BY <1>1, <1>3, <2>3
    <3>2. \A k \in i .. Len(t) : Level(t, c2, k) = c2
      BY <1>1, <1>2, <2>3
    <3>3. i + 2 .. Len(t) = {}
      BY <1>1, <2>3
    <3> QED
      BY <3>1, <3>2, <3>3
  <2> QED
    BY <2>1, <2>2, <2>3
<1> QED
  BY <1>3 DEF Nested, t

(* Coming back to where visitor d + 1 began.                               *)
LEMMA NestedPop ==
    ASSUME NEW s, IsSeq(s), NEW c, Nested(s, c), NEW d \in 0 .. Len(s) - 1
    PROVE  Nested(SubSeq(s, 1, d), s[d + 1].saved)
<1> DEFINE t == SubSeq(s, 1, d)
           c2 == s[d + 1].saved
<1>1. /\ Len(s) \in Nat /\ Len(t) = d /\ \A i \in 1 .. d : t[i] = s[i]
      /\ \A i \in 1 .. d : Level(t, c2, i) = Level(s, c, i)
  BY LenProperties, PopFacts, LevelPopped DEF IsSeq
<1> HIDE DEF t, c2
<1>2. ASSUME NEW i \in 1 .. Len(t), Running(t[i])
      PROVE  /\ \A k \in i .. Len(t) : Apart(t[i].saved, Level(t, c2, k))
             /\ i < Len(t) => Ast[t[i + 1].node].kind = "Block"
             /\ \A k \in i + 2 .. Len(t) : LastScope(t[k].saved) # Level(t, c2, i)[2]
  <2>1. i \in 1 .. Len(s) /\ t[i] = s[i] /\ Running(s[i])
    BY <1>1, <1>2
  <2>2. /\ \A k \in i .. Len(s) : Apart(s[i].saved, Level(s, c, k))
        /\ i < Len(s) => Ast[s[i + 1].node].kind = "Block"
        /\ \A k \in i + 2 .. Len(s) : LastScope(s[k].saved) # Level(s, c, i)[2]
    BY <2>1 DEF Nested
  <2>3. \A k \in i .. Len(t) : /\ k \in i .. Len(s) /\ k \in 1 .. d
                               /\ t[k] = s[k]
    BY <1>1
  <2>4. i < Len(t) => t[i + 1] = s[i + 1] /\ i < Len(s)
    BY <1>1
  <2>5. \A k \in i + 2 .. Len(t) : k \in i + 2 .. Len(s) /\ k \in i .. Len(t)
    BY <1>1
  <2>6. Level(t, c2, i) = Level(s, c, i)
    BY <1>1
  <2> QED
    BY <1>1, <2>1, <2>2, <2>3, <2>4, <2>5, <2>6
<1> QED
  BY <1>2 DEF Nested, t, c2

-----------------------------------------------------------------------------
(* The function objects: what they were made from, and what they run.      *)
Objects ==
    \A k \in 1 .. Len(fns) :
        /\ Ast[fns[k].lit].kind = "FnLit"
        /\ fns[k].body # NoBody => Ast[fns[k].body].kind = "Block"

(* Only a function literal makes an object, of its own body.               *)
LEMMA ObjectsNext == IInv /\ Objects /\ [Next]_vars => Objects'
<1> SUFFICES ASSUME IInv, Objects, [Next]_vars PROVE Objects'
  OBVIOUS
<1>1. CASE Visit
  <2>1. CASE UNCHANGED fns
    BY <2>1 DEF Objects
  <2>2. CASE ~ UNCHANGED fns
    <3>1. /\ N.kind = "FnLit"
          /\ fns' = Append(fns, [lit  |-> Top.node,
                                 body |-> IF Top.node \in moved
                                          THEN NoBody ELSE N.body])
      BY <1>1, <2>2, VisitMembers
    <3>2. stk # <<>>
      BY <1>1, InvImplies, Shapes
    <3>3. /\ Len(fns') = Len(fns) + 1 /\ Len(fns) \in Nat
          /\ Top.node \in Node
          /\ \A k \in 1 .. Len(fns) : fns'[k] = fns[k]
          /\ fns'[Len(fns) + 1].lit = Top.node
          /\ fns'[Len(fns) + 1].body \in {NoBody, N.body}
      BY <3>1, <3>2, NewObject
    <3>4. Ast[N.body].kind = "Block" /\ Ast[Top.node].kind = "FnLit"
      BY <3>1, <3>3, SyntaxAssumption DEF N, IsFunctionLiteral
    <3>5. ASSUME NEW k \in 1 .. Len(fns')
          PROVE  /\ Ast[fns'[k].lit].kind = "FnLit"
                 /\ fns'[k].body # NoBody => Ast[fns'[k].body].kind = "Block"
      <4>1. CASE k \in 1 .. Len(fns)
        BY <3>3, <4>1 DEF Objects
      <4>2. CASE k = Len(fns) + 1
        BY <3>3, <3>4, <4>2
      <4> QED
        BY <3>3, <4>1, <4>2
    <3> QED
      BY <3>5 DEF Objects
  <2> QED
    BY <2>1, <2>2
<1>2. CASE (\E root \in Roots : Submit(root)) \/ EndOfInput \/ Ended \/ UNCHANGED vars
  BY <1>2 DEF Submit, EndOfInput, Ended, vars, storage, Objects
<1> QED
  BY <1>1, <1>2 DEF Next

(* Every shape of a visitor's step keeps the nesting.                      *)
LEMMA NestedStep ==
    ASSUME IInv, Objects, Nested(stk, ctx), stk # <<>>, Step
    PROVE  Nested(stk', ctx')
<1> DEFINE m == Len(heap)
<1>1. TypeOK /\ Tables /\ Sound(stk, ctx, m) /\ IsSeq(stk) /\ m \in Nat \ {0}
  <2>1. TypeOK /\ Tables /\ Sound(stk, ctx, m)
    BY InvImplies DEF IInv
  <2> QED
    BY <2>1 DEF Sound, Tables
<1>2. /\ Depth \in Nat \ {0} /\ Depth = Len(stk)
      /\ Top = stk[Len(stk)] /\ N = Ast[Top.node] /\ Arity = Len(Ast[Top.node].kids)
      /\ Arity \in Nat
  BY <1>1, TopFacts DEF Depth, Top, N, Arity
<1>3. EnvIn(ctx, m) /\ Fits(Top, ctx)
  BY <1>1, <1>2 DEF Sound, Level
<1>4. ASSUME NEW n, NEW env PROVE ~ Running(Entry(n, env)) /\ Entry(n, env).saved = env
  BY DEF Running, Entry, Frame
<1> HIDE DEF m
<1>5. ASSUME NEW i \in 1 .. Len(stk) - 1, Running(stk[i])
      PROVE  /\ Apart(stk[i].saved, ctx)
             /\ EnvIn(stk[i].saved, m)
             /\ Level(stk, ctx, i)[2] \in 1 .. m
             /\ i + 1 = Len(stk) => N.kind = "Block"
             /\ i + 1 # Len(stk) => LastScope(Top.saved) # Level(stk, ctx, i)[2]
  <2>1. i \in 1 .. Len(stk) /\ Len(stk) \in i .. Len(stk) /\ i < Len(stk)
    BY <1>2
  <2>2. /\ \A k \in i .. Len(stk) : Apart(stk[i].saved, Level(stk, ctx, k))
        /\ Ast[stk[i + 1].node].kind = "Block"
        /\ \A k \in i + 2 .. Len(stk) : LastScope(stk[k].saved) # Level(stk, ctx, i)[2]
    BY <1>5, <2>1 DEF Nested
  <2>3. Level(stk, ctx, Len(stk)) = ctx
    BY DEF Level
  <2>4. FrameIn(stk[i], m) /\ Fits(stk[i], Level(stk, ctx, i)) /\ EnvIn(Level(stk, ctx, i), m)
    BY <1>1, <2>1, LevelEnv DEF Sound
  <2>5. Len(Level(stk, ctx, i)) = 2
    BY <1>5, <2>4 DEF Fits, Running
  <2>6. Level(stk, ctx, i)[2] \in 1 .. m
    <3>1. ASSUME NEW e \in Seq(1 .. m), Len(e) = 2 PROVE e[2] \in 1 .. m
      <4>1. 2 \in 1 .. Len(e)
        BY <3>1
      <4> QED
        BY <4>1, ElementOfSeq
    <3> QED
      BY <2>4, <2>5, <3>1 DEF EnvIn
  <2>7. i + 1 # Len(stk) => Len(stk) \in i + 2 .. Len(stk)
    BY <1>2
  <2> QED
    BY <1>2, <2>1, <2>2, <2>3, <2>4, <2>6, <2>7 DEF FrameIn
<1>6. CASE Down
  <2>1. PICK n \in Node, k \in 0 .. Arity, vs \in {<<>>, Vals} :
           Push(Frame(Top.node, k, vs, Top.saved), n, ctx)
    BY <1>6 DEF Down
  <2> DEFINE f == Frame(Top.node, k, vs, Top.saved)
             g == Entry(n, ctx)
  <2>2. f.node = Top.node /\ f.saved = Top.saved /\ f.pc = k
    BY DEF Frame
  <2>3. stk' = PushOver(stk, f, g)
    BY <2>1 DEF Push, PushOver, Depth
  <2>4. g.saved = ctx /\ ~ Running(g)
    BY <1>4
  <2> HIDE DEF f, g
  <2>5. ctx = Top.saved
    BY <1>2, <1>3, <1>6 DEF Down, ActiveCall, Fits
  <2>6. ~ Running(f)
    BY <1>2, <2>2 DEF Running
  <2>7. \A i \in 1 .. Len(stk) - 1 : Running(stk[i]) =>
           Apart(stk[i].saved, ctx) /\ LastScope(ctx) # Level(stk, ctx, i)[2]
    BY <1>5, <1>6, <2>5 DEF Down
  <2>8. Nested(PushOver(stk, f, g), ctx)
    BY <1>1, <1>2, <2>2, <2>4, <2>6, <2>7, NestedPush
  <2> QED
    BY <1>6, <2>3, <2>8 DEF Down, SameScopes
<1>7. CASE BlockIn
  <2>1. PICK n \in Node : Push(Frame(Top.node, 1, <<>>, Top.saved), n, ctx')
    BY <1>7 DEF BlockIn
  <2> DEFINE f == Frame(Top.node, 1, <<>>, Top.saved)
             g == Entry(n, ctx')
  <2>2. f.node = Top.node /\ f.saved = Top.saved
    BY DEF Frame
  <2>3. stk' = PushOver(stk, f, g)
    BY <2>1 DEF Push, PushOver, Depth
  <2>4. g.saved = ctx' /\ ~ Running(g)
    BY <1>4
  <2> HIDE DEF f, g
  <2>5. ctx' = Append(ctx, m + 1) /\ LastScope(ctx') = m + 1
    <3>1. ctx' = Append(ctx, m + 1)
      BY <1>7 DEF BlockIn, m
    <3> QED
      BY <1>1, <1>3, <3>1, EnvGrows DEF LastScope
  <2>6. ~ Running(f)
    BY <1>2, <1>7, <2>2 DEF Running, BlockIn
  <2>7. ASSUME NEW i \in 1 .. Len(stk) - 1, Running(stk[i])
        PROVE  Apart(stk[i].saved, ctx') /\ LastScope(ctx') # Level(stk, ctx, i)[2]
    <3>1. /\ Apart(stk[i].saved, ctx) /\ EnvIn(stk[i].saved, m)
          /\ Level(stk, ctx, i)[2] \in 1 .. m
      BY <1>5, <2>7
    <3>2. Apart(stk[i].saved, Append(ctx, m + 1))
      BY <1>1, <1>3, <3>1, ApartNew
    <3>3. m + 1 # Level(stk, ctx, i)[2]
      BY <1>1, <3>1
    <3> QED
      BY <2>5, <3>2, <3>3
  <2> QED
    BY <1>1, <1>2, <2>2, <2>3, <2>4, <2>6, <2>7, NestedPush
<1>8. CASE CallIn
  <2> DEFINE n == fns[Data(Vals[1])].body
             f == Frame(Top.node, Arity + 1, Vals, ctx)
             g == Entry(n, ctx')
  <2>1. /\ n \in Node /\ Data(Vals[1]) \in 1 .. Len(fns)
        /\ Push(f, n, ctx')
        /\ N.kind = "Call" /\ Top.pc = Arity
    BY <1>8 DEF CallIn, Callable
  <2>2. f.node = Top.node /\ f.saved = ctx
    BY DEF Frame
  <2>3. stk' = PushOver(stk, f, g)
    BY <2>1 DEF Push, PushOver, Depth
  <2>4. g.saved = ctx' /\ ~ Running(g) /\ g.node = n
    BY <1>4 DEF Entry, Frame
  <2>5. Ast[n].kind = "Block"
    BY <2>1, SessionAssumption DEF Objects
  <2> HIDE DEF f, g, n
  <2>6. ctx' = <<Global, m + 1>> /\ LastScope(ctx') = m + 1
    <3>1. ctx' = <<Global, m + 1>>
      BY <1>8 DEF CallIn, m
    <3> QED
      BY <3>1, PairFacts DEF LastScope
  <2>7. ctx = Top.saved
    <3>1. Arity \in Nat
      BY <1>2
    <3>2. N.kind = "Call" /\ Top.pc = Arity
      BY <2>1
    <3>3. Top.pc # Arity + 1
      BY <3>1, <3>2
    <3> QED
      BY <1>2, <1>3, <3>2, <3>3 DEF Fits
  <2>8. ASSUME NEW i \in 1 .. Len(stk) - 1, Running(stk[i])
        PROVE  Apart(stk[i].saved, ctx') /\ LastScope(ctx') # Level(stk, ctx, i)[2]
    <3>1. EnvIn(stk[i].saved, m) /\ Level(stk, ctx, i)[2] \in 1 .. m
      BY <1>5, <2>8
    <3>2. Apart(stk[i].saved, <<Global, m + 1>>)
      BY <1>1, <3>1, ApartNew
    <3>3. m + 1 # Level(stk, ctx, i)[2]
      BY <1>1, <3>1
    <3> QED
      BY <2>6, <3>2, <3>3
  <2>9. Apart(f.saved, ctx')
    BY <1>1, <1>3, <2>2, <2>6, ApartNew
  <2> QED
    BY <1>1, <1>2, <2>2, <2>3, <2>4, <2>5, <2>7, <2>8, <2>9, NestedPush
<1>9. ASSUME NEW d \in 0 .. Depth - 1,
             stk' = SubSeq(stk, 1, d), ctx' = stk[d + 1].saved
      PROVE  Nested(stk', ctx')
  BY <1>1, <1>2, <1>9, NestedPop
<1>10. CASE Up \/ BlockOut
  <2>1. ctx' = Top.saved /\ stk' = SubSeq(stk, 1, Depth - 1)
    BY <1>2, <1>3, <1>10 DEF Up, BlockOut, InBlock, ActiveCall, Fits, SameScopes
  <2>2. Depth - 1 \in 0 .. Depth - 1 /\ stk[Depth - 1 + 1] = Top
    BY <1>2
  <2> QED
    BY <1>9, <2>1, <2>2
<1>11. CASE CallOut
  <2>1. PICK i \in 1 .. Depth : stk' = SubSeq(stk, 1, i - 1) /\ ctx' = stk[i].saved
    BY <1>11 DEF CallOut
  <2>2. i - 1 \in 0 .. Depth - 1 /\ i - 1 + 1 = i
    BY <1>2
  <2> QED
    BY <1>9, <2>1, <2>2
<1>12. CASE Fail
  <2>1. Len(<<>>) = 0 /\ stk' = <<>>
    BY <1>12 DEF Fail
  <2> QED
    BY <2>1 DEF Nested
<1> QED
  BY <1>6, <1>7, <1>8, <1>10, <1>11, <1>12 DEF Step

(* With Sound, the invariant of the isolation of functions.                *)
Deep == Objects /\ Nested(stk, ctx)

(* Every step keeps it.                                                    *)
LEMMA DeepNext == IInv /\ Deep /\ [Next]_vars => Deep'
<1> SUFFICES ASSUME IInv, Objects, Nested(stk, ctx), [Next]_vars
             PROVE  Objects' /\ Nested(stk', ctx')
  BY DEF Deep
<1>1. Objects'
  BY ObjectsNext
<1>2. CASE Visit
  BY <1>1, <1>2, InvImplies, Shapes, NestedStep
<1>3. ASSUME NEW root \in Roots, Submit(root)
      PROVE  Nested(stk', ctx')
  <2> DEFINE s == <<Entry(root, ctx)>>
  <2>1. Len(Ast[root].kids) \in Nat
    BY SyntaxAssumption, LenProperties
  <2>2. Len(s) = 1 /\ s[1].node = root /\ s[1].pc = 0
    BY DEF Entry, Frame
  <2>3. stk' = s
    BY <1>3 DEF Submit
  <2> HIDE DEF s
  <2>4. ~ Running(s[1])
    BY <2>1, <2>2 DEF Running
  <2>5. \A i \in 1 .. Len(s) : ~ Running(s[i])
    BY <2>2, <2>4
  <2> QED
    BY <2>3, <2>5 DEF Nested
<1>4. CASE EndOfInput \/ Ended \/ UNCHANGED vars
  <2>1. UNCHANGED <<stk, ctx>>
    BY <1>4 DEF EndOfInput, Ended, vars, storage
  <2> QED
    BY <1>1, <2>1
<1> QED
  BY <1>1, <1>2, <1>3, <1>4 DEF Next

(* It holds of every session.                                              *)
LEMMA DeepInvariant == Spec => []Deep
<1>1. Init => Deep
  <2>1. Len(<<>>) = 0
    OBVIOUS
  <2> QED
    BY <2>1 DEF Init, Deep, Objects, Nested
<1> QED
  BY <1>1, DeepNext, Invariance, PTL DEF Spec

(* NoClosures holds of every session: whatever is nested in what, a        *)
(* running function reaches no scope of its callers but the global one.    *)
THEOREM FunctionsIsolated == Spec => []NoClosures
<1>1. IInv /\ Deep => NoClosures
  <2> SUFFICES ASSUME IInv, Nested(stk, ctx),
                      NEW i \in 1 .. Depth, NEW k \in i .. Depth, ActiveCall(i)
               PROVE  Apart(stk[i].saved, Inner(k))
    BY DEF Deep, NoClosures, Apart
  <2>1. Running(stk[i]) /\ Inner(k) = Level(stk, ctx, k)
    BY DEF ActiveCall, Running, Inner, Level, Depth
  <2> QED
    BY <2>1 DEF Nested, Depth
<1> QED
  BY <1>1, Invariance, DeepInvariant, PTL

-----------------------------------------------------------------------------
(* What a step does to the bindings of the scopes.                         *)

Adds(b) == heap' = Append(heap, b)

Declaration == N.kind = "Let" /\ heap' = Define(heap, ctx, N.name, result)

Assignment == CanAssign /\ heap' = Update(heap, ctx, N.name, result)

HeapStep ==
    \/ UNCHANGED heap
    \/ Adds(NoBindings)
    \/ CallIn
    \/ Declaration
    \/ Assignment

(* A visit adds a scope, or writes one variable, or neither.               *)
LEMMA HeapSteps ==
    ASSUME TypeOK, Tables, Visit
    PROVE  HeapStep
<1>1. CASE VisitLiteral \/ VisitIdent \/ VisitUnary \/ VisitBinOp \/ VisitArray
  BY <1>1 DEF VisitLiteral, VisitIdent, VisitUnary, VisitBinOp, VisitArray,
     storage, Die, HeapStep
<1>2. CASE VisitArrayDeref \/ VisitStmtList \/ VisitIf \/ VisitWhile
  BY <1>2 DEF VisitArrayDeref, VisitStmtList, VisitIf, VisitWhile, storage, HeapStep
<1>3. CASE VisitFnLit \/ VisitReturn
  BY <1>3 DEF VisitFnLit, VisitReturn, HeapStep
<1>4. CASE VisitLet
  BY <1>4 DEF VisitLet, Visiting, Declaration, HeapStep
<1>5. CASE VisitAssign
  BY <1>5 DEF VisitAssign, Assignment, HeapStep
<1>6. CASE VisitBlock
  BY <1>6 DEF VisitBlock, EnterBlock, LeaveBlock, Extend, Adds, HeapStep
<1>7. CASE VisitCall
  <2>1. stk # <<>>
    BY <1>7 DEF VisitCall, Visiting
  <2>2. EnterCall => UNCHANGED heap \/ CallIn
    BY <1>7, <2>1, Entering
  <2> QED
    BY <1>7, <2>2 DEF VisitCall, EvaluateOperand, CalleeNotFn, ReturnFromCall,
       HeapStep
<1> QED
  BY <1>1, <1>2, <1>3, <1>4, <1>5, <1>6, <1>7 DEF Visit

(* The scope a declaration or an assignment writes is one of ctx_.         *)
LEMMA Written ==
    ASSUME NEW m, EnvIn(ctx, m), Declaration \/ Assignment
    PROVE  \E b \in 1 .. Len(ctx) : \E new : heap' = [heap EXCEPT ![ctx[b]] = new]
<1>1. CASE Declaration
  <2>1. Len(ctx) \in 1 .. Len(ctx)
    BY LenProperties DEF EnvIn
  <2> QED
    BY <1>1, <2>1 DEF Declaration, Define
<1>2. CASE Assignment
  <2>1. \E b \in 1 .. Len(ctx) : Holder(heap, ctx, N.name) = ctx[b]
    BY <1>2 DEF Assignment, CanAssign, IsBound, Holder
  <2> QED
    BY <1>2, <2>1 DEF Assignment, Update
<1> QED
  BY <1>1, <1>2

(* A step changes no scope that a caller, but not the callee, can reach.   *)
LEMMA Untouched ==
    ASSUME IInv, Deep, Visit, NEW i \in 1 .. Depth, ActiveCall(i),
           NEW a \in 2 .. Len(stk[i].saved)
    PROVE  heap'[stk[i].saved[a]] = heap[stk[i].saved[a]]
<1> DEFINE e == stk[i].saved
           m == Len(heap)
<1>1. TypeOK /\ Tables /\ Sound(stk, ctx, m) /\ IsSeq(heap) /\ Nested(stk, ctx)
  BY InvImplies DEF IInv, Members, Deep
<1>2. EnvIn(e, m) /\ EnvIn(ctx, m)
  BY <1>1 DEF Sound, FrameIn, Depth
<1>3. Apart(e, ctx)
  <2>1. i \in 1 .. Len(stk) /\ Len(stk) \in i .. Len(stk) /\ Running(stk[i])
    BY <1>1, LenProperties DEF ActiveCall, Running, Depth, Sound, IsSeq
  <2>2. Level(stk, ctx, Len(stk)) = ctx
    BY DEF Level
  <2> QED
    BY <1>1, <2>1, <2>2 DEF Nested
<1> HIDE DEF e, m
<1>4. a \in 2 .. Len(e)
  BY DEF e
<1>5. e[a] \in 1 .. m /\ e[a] # Global
  <2>1. a \in 1 .. Len(e) /\ e[a] # Global
    BY <1>2, <1>4 DEF EnvIn
  <2> QED
    BY <1>2, <2>1, ElementOfSeq DEF EnvIn
<1>6. HeapStep
  BY <1>1, HeapSteps
<1>7. ASSUME NEW b, heap' = Append(heap, b) PROVE heap'[e[a]] = heap[e[a]]
  BY <1>1, <1>5, <1>7, AppendFacts DEF m
<1>8. CASE Declaration \/ Assignment
  <2>1. PICK b \in 1 .. Len(ctx) : \E new : heap' = [heap EXCEPT ![ctx[b]] = new]
    BY <1>2, <1>8, Written
  <2>2. e[a] # ctx[b]
    <3>1. CASE b = 1
      BY <1>2, <1>5, <3>1 DEF EnvIn
    <3>2. CASE b # 1
      <4>1. b \in 2 .. Len(ctx)
        BY <1>2, <3>2, LenProperties DEF EnvIn
      <4> QED
        BY <1>3, <1>4, <4>1 DEF Apart
    <3> QED
      BY <3>1, <3>2
  <2>3. e[a] \in DOMAIN heap
    BY <1>1, <1>5, LenProperties DEF IsSeq, m
  <2>4. heap'[e[a]] = heap[e[a]]
    BY <2>1, <2>2, <2>3
  <2> QED
    BY <2>4 DEF e
<1>9. CASE CallIn
  <2>1. \E b : heap' = Append(heap, b)
    BY <1>9 DEF CallIn
  <2> QED
    BY <1>7, <2>1 DEF e
<1>10. CASE UNCHANGED heap \/ Adds(NoBindings)
  BY <1>7, <1>10 DEF Adds, e
<1> QED
  BY <1>6, <1>8, <1>9, <1>10 DEF HeapStep

(* CallersUntouched holds of every session: while a function runs, and     *)
(* when it begins and ends, no step changes a local variable of its        *)
(* callers.                                                                *)
THEOREM CallersSafe == Spec => CallersUntouched
<1>1. IInv /\ Deep /\ [Next]_vars
      => [\A i \in 1 .. Depth : ActiveCall(i) =>
             \A a \in 2 .. Len(stk[i].saved) :
                 heap'[stk[i].saved[a]] = heap[stk[i].saved[a]]]_vars
  <2> SUFFICES ASSUME IInv, Deep, [Next]_vars,
                      NEW i \in 1 .. Depth, ActiveCall(i),
                      NEW a \in 2 .. Len(stk[i].saved)
               PROVE  heap'[stk[i].saved[a]] = heap[stk[i].saved[a]]
    OBVIOUS
  <2>1. CASE Visit
    BY <2>1, Untouched
  <2>2. CASE (\E root \in Roots : Submit(root)) \/ EndOfInput \/ Ended \/ UNCHANGED vars
    BY <2>2 DEF Submit, EndOfInput, Ended, vars, storage
  <2> QED
    BY <2>1, <2>2 DEF Next
<1> QED
  BY <1>1, Invariance, DeepInvariant, PTL DEF Spec, CallersUntouched

-----------------------------------------------------------------------------
(* The values in use: what a function value says of its object, and what   *)
(* an array holds.                                                         *)

ObjectOf(v, f) == /\ Data(v) \in 1 .. Len(f)
                  /\ FnParams(v) = ParamTypes(f[Data(v)].lit)

(* A set of values that is closed: the elements of its arrays are in it.   *)
Sane(S, f) == \A v \in S : /\ IsFn(v) => ObjectOf(v, f)
                           /\ IsArray(v) => Data(v) \in Seq(S)

(* The visitors' locals, and the variables of every scope.                 *)
LocalsIn(S, s) == \A i \in 1 .. Len(s) : s[i].vals \in Seq(S)

VariablesIn(S, h) == \A k \in 1 .. Len(h) : \A x \in DOMAIN h[k] : h[k][x] \in S

AllIn(S) ==
    Sane(S, fns) /\ result \in S /\ LocalsIn(S, stk) /\ VariablesIn(S, heap)

ValuesOK == \E S : AllIn(S)

Plain(v) == ~ IsFn(v) /\ ~ IsArray(v)

(* Of the parameters of one name there is a last.                          *)
LEMMA LastParamFacts ==
    ASSUME NEW params, Len(params) \in Nat, DOMAIN params = 1 .. Len(params),
           NEW x, x \in {params[i].name : i \in DOMAIN params}
    PROVE  LastParam(params, x) \in DOMAIN params /\ params[LastParam(params, x)].name = x
<1> DEFINE T == {Len(params) - i : i \in {j \in DOMAIN params : params[j].name = x}}
<1>1. T \subseteq Nat /\ T # {}
  OBVIOUS
<1>2. PICK t \in T : \A u \in T : ~ (<<u, t>> \in OpToRel(<, Nat))
  BY <1>1, NatLessThanWellFounded, WFMin
<1>3. PICK i \in DOMAIN params : params[i].name = x /\ t = Len(params) - i
  BY <1>2
<1>4. ASSUME NEW j \in DOMAIN params, params[j].name = x
      PROVE  j <= i
  <2>1. Len(params) - j \in T
    BY <1>4
  <2>2. Len(params) - j \in Nat /\ t \in Nat
    BY <1>1, <2>1
  <2>3. ~ (Len(params) - j < t)
    BY <1>2, <2>1, <2>2 DEF OpToRel
  <2> QED
    BY <1>3, <2>2, <2>3
<1> QED
  BY <1>3, <1>4 DEF LastParam

(* Objects are only added: a function value keeps naming the same one.     *)
LEMMA ObjectsStay ==
    ASSUME IInv, [Next]_vars
    PROVE  /\ Len(fns) \in Nat /\ Len(fns') \in Nat /\ Len(fns) <= Len(fns')
           /\ \A k \in 1 .. Len(fns) : fns'[k] = fns[k]
<1>1. Len(fns) \in Nat
  BY LenProperties DEF IInv, Members, IsSeq
<1>2. CASE UNCHANGED fns
  BY <1>1, <1>2
<1>3. CASE ~ UNCHANGED fns
  <2>1. Visit
    BY <1>3 DEF Next, Submit, EndOfInput, Ended, vars, storage
  <2>2. stk # <<>>
    BY <2>1, InvImplies, Shapes
  <2>3. /\ Len(fns') = Len(fns) + 1
        /\ \A k \in 1 .. Len(fns) : fns'[k] = fns[k]
    BY <1>3, <2>1, <2>2, VisitMembers, NewObject
  <2> QED
    BY <1>1, <2>3
<1> QED
  BY <1>2, <1>3

(* The operands so far are values in use.                                  *)
LEMMA OperandsIn ==
    ASSUME IInv, stk # <<>>, NEW S, AllIn(S)
    PROVE  /\ Vals \in Seq(S) /\ Top.vals \in Seq(S)
           /\ Top.pc # 0 => Len(Vals) \in Nat \ {0} /\ Vals[1] \in S
<1>1. Depth \in 1 .. Len(stk)
  BY InvImplies, TopFacts DEF Depth
<1>2. Top.vals \in Seq(S) /\ result \in S
  BY <1>1 DEF AllIn, LocalsIn, Top
<1>3. /\ Append(Top.vals, result) \in Seq(S)
      /\ Len(Append(Top.vals, result)) \in Nat \ {0}
  BY <1>2, AppendProperties, LenProperties
<1>4. Append(Top.vals, result)[1] \in S
  <2>1. 1 \in 1 .. Len(Append(Top.vals, result))
    BY <1>3
  <2> QED
    BY <1>3, <2>1, ElementOfSeq
<1> QED
  BY <1>2, <1>3, <1>4 DEF Vals

(* So are the function and the arguments of a call.                        *)
LEMMA CallOperands ==
    ASSUME IInv, stk # <<>>, NEW S, AllIn(S), CallIn
    PROVE  Vals[1] \in S /\ Tail(Vals) \in Seq(S)
<1>1. Top.pc # 0
  <2>1. N.kind = "Call" /\ Top.pc = Arity
    BY DEF CallIn
  <2>2. Arity \in Nat \ {0}
    BY <2>1, InvImplies, TopFacts DEF Arities
  <2> QED
    BY <2>1, <2>2
<1>2. Vals \in Seq(S) /\ Vals # <<>> /\ Vals[1] \in S
  BY <1>1, OperandsIn, EmptySeq
<1> QED
  BY <1>2, HeadTailProperties

(* What an operator yields is no object.                                   *)
LEMMA OperatorsPlain ==
    ASSUME NEW op, NEW l, NEW r
    PROVE  /\ \A v \in BinaryOp(op, l, r) : Plain(v)
           /\ op \in UnaryOps => \A v \in UnaryOp(op, l) : Plain(v)
<1>1. \A i : Plain(Int64(i)) /\ Plain(Float(i)) /\ Plain(Bool(i))
  BY DEF Plain, Int64, Float, Bool, Value, PrimType, IsFn, IsArray, Tid
<1>2. \A v \in Arithmetic(op, l, r) : Plain(v)
  <2>1. CASE ~ (IsNumber(l) /\ IsNumber(r))
    BY <2>1 DEF Arithmetic, IsNumber
  <2>2. CASE IsNumber(l) /\ IsNumber(r) /\ IsInt(l) /\ IsInt(r)
    BY <1>1, <2>2 DEF Arithmetic
  <2>3. CASE IsNumber(l) /\ IsNumber(r) /\ ~ (IsInt(l) /\ IsInt(r))
    BY <1>1, <2>3 DEF Arithmetic
  <2> QED
    BY <2>1, <2>2, <2>3
<1>3. \A v \in Comparison(op, l, r) : Plain(v)
  BY <1>1 DEF Comparison
<1>4. op \in UnaryOps => \A v \in UnaryOp(op, l) : Plain(v)
  BY <1>1 DEF UnaryOps, UnaryOp
<1> QED
  BY <1>2, <1>3, <1>4 DEF BinaryOp

(* What result_ can be after a step: a value there was, one without parts, *)
(* an array of values there were, or a new function.                       *)
NewFunction ==
    /\ IsSeq(fns') /\ Len(fns') = Len(fns) + 1
    /\ fns'[Len(fns) + 1].lit = Top.node
    /\ \E r : result' = Fn(Len(fns) + 1, ParamTypes(Top.node), r)

Yields(S) ==
    \/ result' \in S
    \/ Plain(result')
    \/ IsArray(result') /\ ~ IsFn(result') /\ Data(result') \in Seq(S)
    \/ NewFunction

(* The visitors of expressions that compute a value of their own.          *)
LEMMA ExpressionsYield ==
    ASSUME IInv, NEW S, AllIn(S),
           \/ VisitLiteral \/ VisitIdent \/ VisitUnary \/ VisitBinOp
           \/ VisitArray \/ VisitArrayDeref \/ VisitFnLit
    PROVE  Yields(S)
<1>1. stk # <<>> /\ TypeOK /\ Tables /\ IsSeq(heap) /\ EnvIn(ctx, Len(heap))
  BY InvImplies DEF IInv, Sound, Members, Visiting, VisitLiteral, VisitIdent,
     VisitUnary, VisitBinOp, VisitArray, VisitArrayDeref, VisitFnLit
<1>2. /\ result \in S /\ Sane(S, fns) /\ VariablesIn(S, heap)
      /\ Vals \in Seq(S)
      /\ Top.pc # 0 => Len(Vals) \in Nat \ {0} /\ Vals[1] \in S
  BY <1>1, OperandsIn DEF AllIn
<1>3. Top.node \in Node /\ N.kind \in Kinds
  BY <1>1, TopFacts
<1>4. ASSUME result' = result PROVE Yields(S)
  BY <1>2, <1>4 DEF Yields
<1> USE DEF Evaluate, Accept, Finish, ReturnTo, Throw, Die
<1>5. CASE VisitLiteral
  <2>1. Plain(N.lit)
    <3>1. PICK t \in LiteralTypes : Tid(N.lit) = PrimType(t)
      BY <1>3, <1>5, SyntaxAssumption DEF VisitLiteral, Visiting, N
    <3> QED
      BY <3>1 DEF Plain, IsFn, IsArray, PrimType, LiteralTypes
  <2> QED
    BY <1>4, <1>5, <2>1 DEF VisitLiteral, Yields
<1>6. CASE VisitIdent
  <2>1. IsBound(heap, ctx, N.name) => Resolve(heap, ctx, N.name) \in S
    <3> SUFFICES ASSUME IsBound(heap, ctx, N.name)
                 PROVE  Resolve(heap, ctx, N.name) \in S
      OBVIOUS
    <3> DEFINE h == Holder(heap, ctx, N.name)
    <3>1. PICK b \in 1 .. Len(ctx) : h = ctx[b] /\ N.name \in DOMAIN heap[ctx[b]]
      BY DEF IsBound, Holder, IsHolder, Declares
    <3>2. h \in 1 .. Len(heap)
      BY <1>1, <3>1, ElementOfSeq DEF EnvIn
    <3> QED
      BY <1>2, <3>1, <3>2 DEF VariablesIn, Resolve
  <2> QED
    BY <1>4, <1>6, <2>1 DEF VisitIdent, Yields
<1>7. CASE VisitUnary
  <2>1. N.op \in UnaryOps
    BY <1>3, <1>7, SyntaxAssumption DEF VisitUnary, Visiting, N
  <2>2. \A v \in UnaryOp(N.op, result) : Plain(v)
    BY <2>1, OperatorsPlain
  <2> QED
    BY <1>4, <1>7, <2>2 DEF VisitUnary, Yields
<1>8. CASE VisitBinOp
  <2>1. \A v \in BinaryOp(N.op, Vals[1], Vals[2]) : Plain(v)
    BY OperatorsPlain
  <2> QED
    BY <1>4, <1>8, <2>1 DEF VisitBinOp, ApplyBinOp, Yields
<1>9. CASE VisitArray
  <2>1. ASSUME NEW t, result' = Arr(t, Vals) PROVE Yields(S)
    BY <1>2, <2>1 DEF Yields, Arr, Value, Tid, Data, IsArray, IsFn
  <2> QED
    BY <1>4, <1>9, <2>1 DEF VisitArray
<1>10. CASE VisitArrayDeref
  <2>1. ASSUME Top.pc = 2, IsArray(Vals[1]), InBounds(Vals[1], Data(result))
        PROVE  Data(Vals[1])[Data(result) + 1] \in S
    <3>1. Data(Vals[1]) \in Seq(S)
      BY <1>2, <2>1 DEF Sane
    <3>2. Data(result) + 1 \in 1 .. Len(Data(Vals[1]))
      BY <2>1, <3>1, LenProperties DEF InBounds
    <3> QED
      BY <3>1, <3>2, ElementOfSeq
  <2> QED
    BY <1>4, <1>10, <2>1 DEF VisitArrayDeref, Yields
<1>11. CASE VisitFnLit
  <2>1. CASE Throw
    BY <1>4, <2>1
  <2>2. CASE ~ Throw
    <3>1. /\ N.kind = "FnLit"
          /\ fns' = Append(fns, [lit  |-> Top.node,
                                 body |-> IF Top.node \in moved
                                          THEN NoBody ELSE N.body])
          /\ result' = Fn(Len(fns) + 1, ParamTypes(Top.node), PrimType(N.ret))
      BY <1>11, <2>2 DEF VisitFnLit, Visiting, TakenBody
    <3>2. /\ IsSeq(fns') /\ Len(fns') = Len(fns) + 1
          /\ fns'[Len(fns) + 1].lit = Top.node
      BY <1>1, <3>1, NewObject
    <3> QED
      BY <3>1, <3>2 DEF Yields, NewFunction
  <2> QED
    BY <2>1, <2>2
<1> QED
  BY <1>5, <1>6, <1>7, <1>8, <1>9, <1>10, <1>11

(* Every visitor.                                                          *)
LEMMA VisitsYield ==
    ASSUME IInv, NEW S, AllIn(S), Visit
    PROVE  Yields(S)
<1>1. result \in S
  BY DEF AllIn
<1>2. Plain(Null)
  BY DEF Plain, Null, Value, Tid, IsFn, IsArray, PrimType
<1> USE DEF Evaluate, Accept, Finish, ReturnTo, Throw, Die
<1>3. CASE \/ VisitLiteral \/ VisitIdent \/ VisitUnary \/ VisitBinOp
           \/ VisitArray \/ VisitArrayDeref \/ VisitFnLit
  BY <1>3, ExpressionsYield
<1>4. CASE VisitLet \/ VisitAssign \/ VisitBlock
  BY <1>1, <1>4 DEF VisitLet, VisitAssign, VisitBlock, EnterBlock, LeaveBlock, Yields
<1>5. CASE VisitStmtList \/ VisitIf \/ VisitWhile
  BY <1>1, <1>2, <1>5 DEF VisitStmtList, VisitIf, NextBranch, VisitWhile, Yields
<1>6. CASE VisitCall \/ VisitReturn
  BY <1>1, <1>2, <1>6 DEF VisitCall, EvaluateOperand, CalleeNotFn, EnterCall,
     ReturnFromCall, VisitReturn, LeaveCall, Yields
<1> QED
  BY <1>3, <1>4, <1>5, <1>6 DEF Visit

(* The values in use and the new one are a closed set again.               *)
LEMMA SaneGrows ==
    ASSUME IInv, [Next]_vars, NEW S, Sane(S, fns), stk # <<>>, Yields(S)
    PROVE  Sane(S \union {result'}, fns')
<1> DEFINE R == S \union {result'}
<1>1. Seq(S) \subseteq Seq(R)
  BY SeqMonotonic
<1>2. /\ Len(fns) \in Nat /\ Len(fns') \in Nat /\ Len(fns) <= Len(fns')
      /\ \A k \in 1 .. Len(fns) : fns'[k] = fns[k]
  BY ObjectsStay
<1>3. ASSUME NEW v \in S
      PROVE  (IsFn(v) => ObjectOf(v, fns')) /\ (IsArray(v) => Data(v) \in Seq(R))
  <2>1. (IsFn(v) => ObjectOf(v, fns)) /\ (IsArray(v) => Data(v) \in Seq(S))
    BY DEF Sane
  <2>2. ObjectOf(v, fns) => ObjectOf(v, fns')
    BY <1>2 DEF ObjectOf, ParamTypes
  <2> QED
    BY <1>1, <2>1, <2>2
<1>4. /\ IsFn(result') => ObjectOf(result', fns')
      /\ IsArray(result') => Data(result') \in Seq(R)
  <2>1. CASE result' \in S
    BY <1>3, <2>1
  <2>2. CASE Plain(result')
    BY <2>2 DEF Plain
  <2>3. CASE IsArray(result') /\ ~ IsFn(result') /\ Data(result') \in Seq(S)
    BY <1>1, <2>3
  <2>4. CASE NewFunction
    <3>1. PICK r : result' = Fn(Len(fns) + 1, ParamTypes(Top.node), r)
      BY <2>4 DEF NewFunction
    <3>2. /\ Data(result') = Len(fns) + 1
          /\ FnParams(result') = ParamTypes(Top.node)
          /\ ~ IsArray(result')
      BY <3>1 DEF Fn, Value, Data, FnParams, Tid, IsArray
    <3>3. fns'[Len(fns) + 1].lit = Top.node /\ Len(fns) + 1 \in 1 .. Len(fns')
      BY <1>2, <2>4 DEF NewFunction
    <3> QED
      BY <3>2, <3>3 DEF ObjectOf, ParamTypes
  <2> QED
    BY <2>1, <2>2, <2>3, <2>4 DEF Yields
<1> QED
  BY <1>3, <1>4 DEF Sane

(* The locals of the visitors after a step are values there were.          *)
LEMMA LocalsStay ==
    ASSUME IInv, NEW S, AllIn(S), stk # <<>>, Step
    PROVE  \A i \in 1 .. Len(stk') : stk'[i].vals \in Seq(S)
<1>1. IsSeq(stk) /\ (\A i \in 1 .. Len(stk) : stk[i].vals \in Seq(S))
  BY DEF IInv, Sound, AllIn, LocalsIn
<1>2. Vals \in Seq(S) /\ <<>> \in Seq(S)
  BY OperandsIn
<1>3. ASSUME NEW f, f.vals \in Seq(S), NEW n, NEW env, Push(f, n, env)
      PROVE  \A i \in 1 .. Len(stk') : stk'[i].vals \in Seq(S)
  <2> DEFINE g == Entry(n, env)
  <2>1. stk' = PushOver(stk, f, g)
    BY <1>3 DEF Push, PushOver, Depth
  <2>2. g.vals \in Seq(S)
    BY <1>2 DEF Entry, Frame
  <2> HIDE DEF g
  <2>3. /\ Len(stk) \in Nat \ {0} /\ Len(stk') = Len(stk) + 1
        /\ \A i \in 1 .. Len(stk) - 1 : stk'[i] = stk[i]
        /\ stk'[Len(stk)] = f /\ stk'[Len(stk) + 1] = g
    BY <1>1, <2>1, PushFacts
  <2>4. ASSUME NEW i \in 1 .. Len(stk') PROVE stk'[i].vals \in Seq(S)
    <3>1. i \in 1 .. Len(stk) - 1 \/ i = Len(stk) \/ i = Len(stk) + 1
      BY <2>3
    <3> QED
      BY <1>1, <1>3, <2>2, <2>3, <3>1
  <2> QED
    BY <2>4
<1>4. ASSUME NEW d \in 0 .. Depth, stk' = SubSeq(stk, 1, d)
      PROVE  \A i \in 1 .. Len(stk') : stk'[i].vals \in Seq(S)
  <2>1. /\ Len(stk) \in Nat /\ Len(stk') = d
        /\ \A i \in 1 .. d : stk'[i] = stk[i]
    BY <1>1, <1>4, PopFacts, LenProperties DEF Depth, IsSeq
  <2> QED
    BY <1>1, <2>1 DEF Depth
<1>5. Depth \in Nat \ {0}
  BY InvImplies, TopFacts
<1>6. \A n, k, vs, env : Frame(n, k, vs, env).vals = vs
  BY DEF Frame
<1>7. CASE Down \/ BlockIn \/ CallIn
  <2>1. CASE Down
    <3>1. PICK n \in Node, k \in 0 .. Arity, vs \in {<<>>, Vals} :
             Push(Frame(Top.node, k, vs, Top.saved), n, ctx)
      BY <2>1 DEF Down
    <3> DEFINE f == Frame(Top.node, k, vs, Top.saved)
    <3>2. vs \in Seq(S)
      BY <1>2
    <3>3. f.vals \in Seq(S) /\ Push(f, n, ctx)
      BY <1>6, <3>1, <3>2
    <3> HIDE DEF f
    <3> QED
      BY <1>3, <3>3
  <2>2. CASE BlockIn
    <3>1. PICK n \in Node : Push(Frame(Top.node, 1, <<>>, Top.saved), n, ctx')
      BY <2>2 DEF BlockIn
    <3> DEFINE f == Frame(Top.node, 1, <<>>, Top.saved)
    <3>2. f.vals = <<>> /\ Push(f, n, ctx')
      BY <1>6, <3>1
    <3> HIDE DEF f
    <3>3. f.vals \in Seq(S)
      BY <1>2, <3>2
    <3> QED
      BY <1>3, <3>2, <3>3
  <2>3. CASE CallIn
    BY <1>2, <1>3, <1>6, <2>3 DEF CallIn
  <2> QED
    BY <1>7, <2>1, <2>2, <2>3
<1>8. CASE Up \/ BlockOut
  <2>1. Depth - 1 \in 0 .. Depth
    BY <1>5
  <2> QED
    BY <1>4, <1>8, <2>1 DEF Up, BlockOut
<1>9. CASE CallOut
  <2>1. PICK i \in 1 .. Depth : stk' = SubSeq(stk, 1, i - 1)
    BY <1>9 DEF CallOut
  <2>2. i - 1 \in 0 .. Depth
    BY <1>5
  <2> QED
    BY <1>4, <2>1, <2>2
<1>10. CASE Fail
  BY <1>10, EmptySeq DEF Fail
<1> QED
  BY <1>7, <1>8, <1>9, <1>10 DEF Step

(* The parameters an accepted call binds, one operand to each.             *)
LEMMA ParamsBound ==
    ASSUME IInv, Objects, NEW S, Sane(S, fns), NEW fn \in S, Callable(fn),
           NEW args \in Seq(S), Accepts(fn, args)
    PROVE  LET params == Literal(fn).params
               scope  == ParamScope(params, args)
           IN  /\ DOMAIN scope = {params[p].name : p \in DOMAIN params}
               /\ \A x \in DOMAIN scope :
                     /\ scope[x] \in S
                     /\ Tid(scope[x]) = PrimType(params[LastParam(params, x)].type)
<1> DEFINE lit    == fns[Data(fn)].lit
           params == Literal(fn).params
           scope  == ParamScope(params, args)
<1>1. params = Ast[lit].params
  BY DEF Literal
<1>2. /\ lit \in Node /\ Ast[lit].kind = "FnLit"
      /\ FnParams(fn) = ParamTypes(lit)
  BY DEF Callable, Objects, IInv, Members, Sane, ObjectOf
<1>3. Len(params) \in Nat /\ DOMAIN params = 1 .. Len(params)
  BY <1>1, <1>2, SyntaxAssumption DEF IsFunctionLiteral
<1>4. /\ DOMAIN FnParams(fn) = DOMAIN params
      /\ \A p \in DOMAIN params : FnParams(fn)[p] = PrimType(params[p].type)
  BY <1>1, <1>2 DEF ParamTypes
<1> HIDE DEF params, lit
<1>5. /\ DOMAIN scope = {params[p].name : p \in DOMAIN params}
      /\ \A x \in DOMAIN scope : scope[x] = args[LastParam(params, x)]
  BY DEF ParamScope
<1>6. Len(FnParams(fn)) = Len(params)
  <2> DEFINE T == {PrimType(params[p].type) : p \in DOMAIN params}
  <2>1. ParamTypes(lit) \in [1 .. Len(params) -> T]
    BY <1>1, <1>3 DEF ParamTypes
  <2>2. ParamTypes(lit) \in Seq(T)
    BY <1>3, <2>1, SeqDef
  <2> QED
    BY <1>2, <1>3, <2>1, <2>2, LenProperties
<1>7. /\ DOMAIN args = DOMAIN params
      /\ \A p \in DOMAIN params : Tid(args[p]) = FnParams(fn)[p] /\ args[p] \in S
  <2>1. DOMAIN args = 1 .. Len(args) /\ Len(args) = Len(params)
    BY <1>6, LenProperties DEF Accepts
  <2> QED
    BY <1>3, <2>1, ElementOfSeq DEF Accepts
<1>8. ASSUME NEW x \in DOMAIN scope
      PROVE  /\ scope[x] \in S
             /\ Tid(scope[x]) = PrimType(params[LastParam(params, x)].type)
  <2>1. LastParam(params, x) \in DOMAIN params
    BY <1>3, <1>5, LastParamFacts
  <2> QED
    BY <1>4, <1>5, <1>7, <2>1
<1> QED
  BY <1>5, <1>8 DEF params

(* The variables after a step hold values there were.                      *)
LEMMA VariablesStay ==
    ASSUME IInv, Objects, NEW S, AllIn(S), Visit
    PROVE  VariablesIn(S, heap')
<1>1. TypeOK /\ Tables /\ IsSeq(heap) /\ stk # <<>>
  BY InvImplies, Shapes DEF Tables
<1>2. HeapStep
  BY <1>1, HeapSteps
<1>3. VariablesIn(S, heap) /\ result \in S /\ Sane(S, fns)
  BY DEF AllIn
<1>4. ASSUME NEW b, heap' = Append(heap, b), \A x \in DOMAIN b : b[x] \in S
      PROVE  VariablesIn(S, heap')
  <2>1. /\ Len(heap) \in Nat /\ Len(heap') = Len(heap) + 1
        /\ \A k \in 1 .. Len(heap) : heap'[k] = heap[k]
        /\ heap'[Len(heap) + 1] = b
    BY <1>1, <1>4, AppendFacts
  <2>2. ASSUME NEW k \in 1 .. Len(heap') PROVE \A x \in DOMAIN heap'[k] : heap'[k][x] \in S
    <3>1. k \in 1 .. Len(heap) \/ k = Len(heap) + 1
      BY <2>1
    <3> QED
      BY <1>3, <1>4, <2>1, <3>1 DEF VariablesIn
  <2> QED
    BY <2>2 DEF VariablesIn
<1>5. ASSUME NEW k \in 1 .. Len(heap), NEW x,
             heap' = [heap EXCEPT ![k] = Bind(@, x, result)]
      PROVE  VariablesIn(S, heap')
  <2>1. Len(heap') = Len(heap)
    BY <1>1, <1>5, ExceptFacts
  <2>2. DOMAIN heap = 1 .. Len(heap)
    BY <1>1, LenProperties DEF IsSeq
  <2>3. ASSUME NEW j \in 1 .. Len(heap) PROVE \A y \in DOMAIN heap'[j] : heap'[j][y] \in S
    <3>1. CASE j # k
      BY <1>3, <1>5, <2>2, <3>1 DEF VariablesIn
    <3>2. CASE j = k
      <4>1. heap'[j] = Bind(heap[j], x, result)
        BY <1>5, <2>2, <3>2
      <4> QED
        BY <1>3, <4>1 DEF Bind, VariablesIn
    <3> QED
      BY <3>1, <3>2
  <2> QED
    BY <2>1, <2>3 DEF VariablesIn
<1>6. CASE Declaration \/ Assignment
  <2>1. EnvIn(ctx, Len(heap))
    BY DEF IInv, Sound
  <2>2. \A b \in 1 .. Len(ctx) : ctx[b] \in 1 .. Len(heap)
    BY <2>1, ElementOfSeq DEF EnvIn
  <2>3. Len(ctx) \in 1 .. Len(ctx)
    BY <2>1, LenProperties DEF EnvIn
  <2>4. Assignment => Holder(heap, ctx, N.name) \in 1 .. Len(heap)
    BY <2>2 DEF Assignment, CanAssign, IsBound, Holder
  <2> QED
    BY <1>5, <1>6, <2>2, <2>3, <2>4 DEF Declaration, Define, Assignment, Update
<1>7. CASE CallIn
  <2> DEFINE fn   == Vals[1]
             args == Tail(Vals)
             b    == ParamScope(Literal(fn).params, args)
  <2>1. Callable(fn) /\ Accepts(fn, args) /\ heap' = Append(heap, b)
    BY <1>7 DEF CallIn
  <2>2. fn \in S /\ args \in Seq(S)
    BY <1>1, <1>7, CallOperands
  <2> HIDE DEF fn, args
  <2>3. \A x \in DOMAIN b : b[x] \in S
    BY <1>3, <2>1, <2>2, ParamsBound
  <2> HIDE DEF b
  <2> QED
    BY <1>4, <2>1, <2>3
<1>8. CASE UNCHANGED heap
  BY <1>3, <1>8
<1>9. CASE Adds(NoBindings)
  <2>1. DOMAIN NoBindings = {}
    BY DEF NoBindings
  <2> QED
    BY <1>4, <1>9, <2>1 DEF Adds
<1> QED
  BY <1>2, <1>6, <1>7, <1>8, <1>9 DEF HeapStep

(* Every step keeps the values in use sane.                                *)
LEMMA ValuesNext == IInv /\ Objects /\ ValuesOK /\ [Next]_vars => ValuesOK'
<1> SUFFICES ASSUME IInv, Objects, [Next]_vars, NEW S, AllIn(S)
             PROVE  \E R : /\ Sane(R, fns') /\ result' \in R
                           /\ LocalsIn(R, stk') /\ VariablesIn(R, heap')
  BY DEF ValuesOK, AllIn, Sane, ObjectOf, LocalsIn, VariablesIn
<1>1. Sane(S, fns) /\ result \in S /\ LocalsIn(S, stk) /\ VariablesIn(S, heap)
  BY DEF AllIn
<1>2. CASE Visit
  <2> DEFINE R == S \union {result'}
  <2>1. stk # <<>> /\ Step
    BY <1>2, InvImplies, Shapes
  <2>2. Sane(R, fns')
    BY <1>1, <1>2, <2>1, VisitsYield, SaneGrows
  <2>3. S \subseteq R /\ Seq(S) \subseteq Seq(R) /\ result' \in R
    BY SeqMonotonic
  <2>4. LocalsIn(R, stk')
    BY <2>1, <2>3, LocalsStay DEF LocalsIn
  <2>5. VariablesIn(R, heap')
    BY <1>2, <2>3, VariablesStay DEF VariablesIn
  <2> QED
    BY <2>2, <2>3, <2>4, <2>5
<1>3. ASSUME NEW root \in Roots, Submit(root)
      PROVE  LocalsIn(S, stk') /\ UNCHANGED <<fns, result, heap>>
  <2>1. UNCHANGED <<fns, result, heap>> /\ stk' = <<Entry(root, ctx)>>
    BY <1>3 DEF Submit, storage
  <2>2. Entry(root, ctx).vals \in Seq(S)
    BY EmptySeq DEF Entry, Frame
  <2>3. Len(stk') = 1 /\ stk'[1].vals \in Seq(S)
    BY <2>1, <2>2
  <2> QED
    BY <2>1, <2>3 DEF LocalsIn
<1>4. CASE EndOfInput \/ Ended \/ UNCHANGED vars
  BY <1>1, <1>4 DEF EndOfInput, Ended, vars, storage
<1> QED
  BY <1>1, <1>2, <1>3, <1>4 DEF Next

(* They are in every session.                                              *)
LEMMA ValuesSane == Spec => []ValuesOK
<1>1. Init => ValuesOK
  <2> SUFFICES ASSUME Init PROVE AllIn({Null})
    BY DEF ValuesOK
  <2>1. ~ IsFn(Null) /\ ~ IsArray(Null)
    BY DEF Null, Value, Tid, IsFn, IsArray, PrimType
  <2>2. Len(<<>>) = 0 /\ DOMAIN NoBindings = {}
    BY DEF NoBindings
  <2>3. Len(heap) = 1 /\ heap[1] = NoBindings
    BY DEF Init
  <2> QED
    BY <2>1, <2>2, <2>3 DEF Init, AllIn, Sane, LocalsIn, VariablesIn
<1>2. Deep => Objects
  BY DEF Deep
<1> QED
  BY <1>1, <1>2, ValuesNext, Invariance, DeepInvariant, PTL DEF Spec

-----------------------------------------------------------------------------
(* The parameters of the running calls.                                    *)

(* A scope binds these parameters, each to a value of the declared type.   *)
Typed(params, scope) ==
    /\ DOMAIN scope = {params[p].name : p \in DOMAIN params}
    /\ \A x \in DOMAIN scope :
          Tid(scope[x]) = PrimType(params[LastParam(params, x)].type)

(* The number of the scope that holds the parameters of call i.            *)
ParamScopeOf(i) == Level(stk, ctx, i)[2]

(* With the function objects objs, v is a function, and the scope holds    *)
(* its parameters.                                                         *)
Binds(v, objs, scope) ==
    /\ IsFn(v)
    /\ Data(v) \in 1 .. Len(objs)
    /\ Typed(Ast[objs[Data(v)].lit].params, scope)

Parameters ==
    \A i \in 1 .. Len(stk) :
        Running(stk[i]) => Binds(stk[i].vals[1], fns, heap[ParamScopeOf(i)])

(* The scope of the parameters exists.                                     *)
LEMMA ParamScopeExists ==
    ASSUME IInv, NEW i \in 1 .. Len(stk), Running(stk[i])
    PROVE  ParamScopeOf(i) \in 1 .. Len(heap)
<1> DEFINE e == Level(stk, ctx, i)
<1>1. EnvIn(e, Len(heap)) /\ Len(e) = 2
  <2>1. Sound(stk, ctx, Len(heap))
    BY DEF IInv
  <2>2. Fits(stk[i], e) /\ EnvIn(e, Len(heap))
    BY <2>1, LevelEnv DEF Sound
  <2> QED
    BY <2>2 DEF Fits, Running
<1> HIDE DEF e
<1>2. 2 \in 1 .. Len(e)
  BY <1>1
<1>3. e[2] \in 1 .. Len(heap)
  BY <1>1, <1>2, ElementOfSeq DEF EnvIn
<1> QED
  BY <1>3 DEF ParamScopeOf, e

(* A call that runs after a step ran before it, deeper on the stack than   *)
(* nothing new, or is the one that the step entered.                       *)
LEMMA RunningCalls ==
    ASSUME IInv, stk # <<>>, Step, NEW j \in 1 .. Len(stk'), Running(stk'[j])
    PROVE  \/ /\ j \in 1 .. Len(stk) /\ stk'[j] = stk[j]
              /\ Level(stk', ctx', j) = Level(stk, ctx, j)
           \/ /\ CallIn
              /\ stk'[j].vals = Vals
              /\ Level(stk', ctx', j) = <<Global, Len(heap) + 1>>
<1>1. IsSeq(stk) /\ TypeOK /\ Tables
  BY InvImplies DEF IInv, Sound
<1>2. /\ Depth \in Nat \ {0} /\ Depth = Len(stk)
      /\ Top = stk[Len(stk)] /\ N = Ast[Top.node] /\ Arity = Len(Ast[Top.node].kids)
      /\ Arity \in Nat
  BY <1>1, TopFacts DEF Depth, Top, N, Arity
<1>3. Fits(Top, ctx)
  BY <1>2 DEF IInv, Sound, Level
<1>4. \A n, env : ~ Running(Entry(n, env))
  BY SyntaxAssumption DEF Running, Entry, Frame
<1> DEFINE Goal == \/ /\ j \in 1 .. Len(stk) /\ stk'[j] = stk[j]
                      /\ Level(stk', ctx', j) = Level(stk, ctx, j)
                   \/ /\ CallIn
                      /\ stk'[j].vals = Vals
                      /\ Level(stk', ctx', j) = <<Global, Len(heap) + 1>>
<1> SUFFICES Goal
  OBVIOUS
<1>5. ASSUME NEW f, NEW n, NEW env, Push(f, n, env), env = ctx',
             f.saved = Top.saved
      PROVE  Goal \/ (j = Len(stk) /\ stk'[j] = f /\ Level(stk', ctx', j) = ctx')
  <2> DEFINE g == Entry(n, env)
  <2>1. stk' = PushOver(stk, f, g)
    BY <1>5 DEF Push, PushOver, Depth
  <2>2. g.saved = ctx' /\ ~ Running(g)
    BY <1>4, <1>5 DEF Entry, Frame
  <2> HIDE DEF g
  <2>3. /\ Len(stk') = Len(stk) + 1
        /\ \A i \in 1 .. Len(stk) - 1 : stk'[i] = stk[i]
        /\ stk'[Len(stk)] = f /\ stk'[Len(stk) + 1] = g
    BY <1>1, <2>1, PushFacts
  <2>4. /\ \A i \in 1 .. Len(stk) - 1 : Level(stk', ctx', i) = Level(stk, ctx, i)
        /\ Level(stk', ctx', Len(stk)) = ctx'
    <3>1. stk[Len(stk)].saved = f.saved
      BY <1>2, <1>5
    <3>2. /\ \A i \in 1 .. Len(stk) - 1 :
                  Level(PushOver(stk, f, g), ctx', i) = Level(stk, ctx, i)
          /\ Level(PushOver(stk, f, g), ctx', Len(stk)) = ctx'
      BY <1>1, <2>2, <3>1, LevelPushed
    <3> QED
      BY <2>1, <3>2
  <2>5. j # Len(stk) + 1
    BY <2>2, <2>3
  <2>6. j \in 1 .. Len(stk) - 1 \/ j = Len(stk)
    BY <1>2, <2>3, <2>5
  <2> QED
    BY <1>2, <2>3, <2>4, <2>6
<1>6. ASSUME NEW d \in 0 .. Depth - 1,
             stk' = SubSeq(stk, 1, d), ctx' = stk[d + 1].saved
      PROVE  Goal
  <2>1. d \in 0 .. Len(stk) /\ d \in 0 .. Len(stk) - 1
    BY <1>2
  <2>2. Len(stk') = d /\ \A i \in 1 .. d : stk'[i] = stk[i]
    BY <1>1, <1>6, <2>1, PopFacts
  <2>3. \A i \in 1 .. d : Level(stk', ctx', i) = Level(stk, ctx, i)
    BY <1>1, <1>6, <2>1, LevelPopped
  <2> QED
    BY <1>2, <2>2, <2>3
<1> HIDE DEF Goal
<1>7. CASE Down
  <2>1. PICK n \in Node, k \in 0 .. Arity, vs \in {<<>>, Vals} :
           Push(Frame(Top.node, k, vs, Top.saved), n, ctx)
    BY <1>7 DEF Down
  <2> DEFINE f == Frame(Top.node, k, vs, Top.saved)
  <2>2. f.node = Top.node /\ f.saved = Top.saved /\ f.pc = k /\ Push(f, n, ctx)
    BY <2>1 DEF Frame
  <2> HIDE DEF f
  <2>3. ~ Running(f)
    BY <1>2, <2>2 DEF Running
  <2>4. ctx' = ctx
    BY <1>7 DEF Down, SameScopes
  <2> QED
    BY <1>5, <2>2, <2>3, <2>4
<1>8. CASE BlockIn
  <2>1. PICK n \in Node : Push(Frame(Top.node, 1, <<>>, Top.saved), n, ctx')
    BY <1>8 DEF BlockIn
  <2> DEFINE f == Frame(Top.node, 1, <<>>, Top.saved)
  <2>2. f.node = Top.node /\ f.saved = Top.saved /\ Push(f, n, ctx')
    BY <2>1 DEF Frame
  <2> HIDE DEF f
  <2>3. ~ Running(f)
    BY <1>2, <1>8, <2>2 DEF Running, BlockIn
  <2> QED
    BY <1>5, <2>2, <2>3
<1>9. CASE CallIn
  <2> DEFINE f == Frame(Top.node, Arity + 1, Vals, ctx)
             n == fns[Data(Vals[1])].body
  <2>1. /\ f.saved = ctx /\ f.vals = Vals /\ Push(f, n, ctx')
        /\ N.kind = "Call" /\ Top.pc = Arity
        /\ ctx' = <<Global, Len(heap) + 1>>
    BY <1>9 DEF CallIn, Frame
  <2> HIDE DEF f, n
  <2>2. ctx = Top.saved
    <3>1. Arity \in Nat
      BY <1>2
    <3>2. Top.pc # Arity + 1
      BY <2>1, <3>1
    <3> QED
      BY <1>2, <1>3, <2>1, <3>2 DEF Fits
  <2> QED
    BY <1>5, <1>9, <2>1, <2>2 DEF Goal
<1>10. CASE Up \/ BlockOut
  <2>1. ctx' = Top.saved /\ stk' = SubSeq(stk, 1, Depth - 1)
    BY <1>2, <1>3, <1>10 DEF Up, BlockOut, InBlock, ActiveCall, Fits, SameScopes
  <2>2. Depth - 1 \in 0 .. Depth - 1 /\ stk[Depth - 1 + 1] = Top
    BY <1>2
  <2> QED
    BY <1>6, <2>1, <2>2
<1>11. CASE CallOut
  <2>1. PICK i \in 1 .. Depth : stk' = SubSeq(stk, 1, i - 1) /\ ctx' = stk[i].saved
    BY <1>11 DEF CallOut
  <2>2. i - 1 \in 0 .. Depth - 1 /\ i - 1 + 1 = i
    BY <1>2
  <2> QED
    BY <1>6, <2>1, <2>2
<1>12. ~ Fail
  BY DEF Fail
<1> QED
  BY <1>7, <1>8, <1>9, <1>10, <1>11, <1>12 DEF Step

(* No step declares anything in the scope of a running call's parameters,  *)
(* and an assignment there keeps the type of what it assigns to.           *)
LEMMA ParametersStay ==
    ASSUME IInv, Nested(stk, ctx), Visit,
           NEW j \in 1 .. Len(stk), Running(stk[j]),
           NEW params, Typed(params, heap[ParamScopeOf(j)])
    PROVE  Typed(params, heap'[ParamScopeOf(j)])
<1> DEFINE p == ParamScopeOf(j)
<1>1. /\ TypeOK /\ Tables /\ IsSeq(heap) /\ stk # <<>> /\ HeapStep
      /\ Sound(stk, ctx, Len(heap)) /\ EnvIn(ctx, Len(heap))
  BY InvImplies, Shapes, HeapSteps DEF Tables, IInv, Sound
<1>2. /\ Depth \in Nat \ {0} /\ Depth = Len(stk)
      /\ Top = stk[Len(stk)] /\ N = Ast[Top.node]
  BY <1>1, TopFacts DEF Depth, Top, N
<1>3. p \in 1 .. Len(heap) /\ DOMAIN heap = 1 .. Len(heap)
  BY <1>1, ParamScopeExists, LenProperties DEF IsSeq
<1>4. ASSUME NEW b, heap' = Append(heap, b)
      PROVE  heap'[p] = heap[p]
  BY <1>1, <1>3, <1>4, AppendFacts
<1>5. CASE UNCHANGED heap \/ Adds(NoBindings) \/ CallIn
  <2>1. heap'[p] = heap[p]
    BY <1>4, <1>5 DEF Adds, CallIn
  <2> QED
    BY <2>1
<1>6. CASE Declaration
  <2>1. ctx = Top.saved
    <3>1. Fits(Top, ctx)
      BY <1>1, <1>2 DEF Sound, Level
    <3> QED
      BY <1>2, <1>6, <3>1 DEF Fits, Declaration
  <2>2. j # Len(stk) /\ j + 1 # Len(stk)
    <3>1. Ast[stk[j].node].kind = "Call"
      BY DEF Running
    <3>2. N.kind = "Let"
      BY <1>6 DEF Declaration
    <3>3. j + 1 = Len(stk) => Ast[stk[Len(stk)].node].kind = "Block"
      BY <1>2 DEF Nested
    <3> QED
      BY <1>2, <3>1, <3>2, <3>3
  <2>3. Len(stk) \in j + 2 .. Len(stk)
    BY <1>2, <2>2
  <2>4. LastScope(ctx) # p
    BY <1>2, <2>1, <2>3 DEF Nested, ParamScopeOf
  <2>5. heap'[p] = heap[p]
    BY <1>3, <1>6, <2>4 DEF Declaration, Define, LastScope
  <2> QED
    BY <2>5
<1>7. CASE Assignment
  <2> DEFINE h == Holder(heap, ctx, N.name)
  <2>1. /\ heap' = [heap EXCEPT ![h] = Bind(@, N.name, result)]
        /\ Tid(heap[h][N.name]) = Tid(result)
        /\ IsBound(heap, ctx, N.name)
    BY <1>7 DEF Assignment, CanAssign, Update, Resolve
  <2>2. N.name \in DOMAIN heap[h]
    BY <2>1 DEF IsBound, Holder, IsHolder, Declares
  <2> HIDE DEF h, p
  <2>3. CASE h # p
    <3>1. heap'[p] = heap[p]
      BY <1>3, <2>1, <2>3
    <3> QED
      BY <3>1 DEF p
  <2>4. CASE h = p
    <3>1. heap'[p] = Bind(heap[p], N.name, result)
      BY <1>3, <2>1, <2>4
    <3>2. /\ DOMAIN heap'[p] = DOMAIN heap[p]
          /\ \A x \in DOMAIN heap[p] : Tid(heap'[p][x]) = Tid(heap[p][x])
      BY <2>1, <2>2, <2>4, <3>1 DEF Bind
    <3> QED
      BY <3>2 DEF Typed, p
  <2> QED
    BY <2>3, <2>4
<1> QED
  BY <1>1, <1>5, <1>6, <1>7 DEF HeapStep

(* Every step keeps the parameters.                                        *)
LEMMA ParametersNext ==
    IInv /\ Deep /\ ValuesOK /\ Parameters /\ [Next]_vars => Parameters'
<1> SUFFICES ASSUME IInv, Objects, Nested(stk, ctx), [Next]_vars, Parameters,
                    NEW S, AllIn(S)
             PROVE  Parameters'
  BY DEF Deep, ValuesOK
<1>1. CASE Visit
  <2>1. TypeOK /\ Tables /\ IsSeq(heap) /\ stk # <<>> /\ Step
    BY <1>1, InvImplies, Shapes DEF Tables
  <2>2. /\ Len(fns) \in Nat /\ Len(fns') \in Nat /\ Len(fns) <= Len(fns')
        /\ \A k \in 1 .. Len(fns) : fns'[k] = fns[k]
    BY ObjectsStay
  <2>3. ASSUME NEW j \in 1 .. Len(stk'), Running(stk'[j])
        PROVE  Binds(stk'[j].vals[1], fns', heap'[Level(stk', ctx', j)[2]])
    <3>1. CASE /\ j \in 1 .. Len(stk) /\ stk'[j] = stk[j]
               /\ Level(stk', ctx', j) = Level(stk, ctx, j)
      <4> DEFINE v == stk[j].vals[1]
                 params == Ast[fns[Data(v)].lit].params
      <4>1. IsFn(v) /\ Data(v) \in 1 .. Len(fns) /\ Typed(params, heap[ParamScopeOf(j)])
        BY <2>3, <3>1 DEF Parameters, Binds
      <4>2. Typed(params, heap'[ParamScopeOf(j)])
        BY <1>1, <2>3, <3>1, <4>1, ParametersStay
      <4>3. fns'[Data(v)] = fns[Data(v)] /\ Data(v) \in 1 .. Len(fns')
        BY <2>2, <4>1
      <4> QED
        BY <3>1, <4>1, <4>2, <4>3 DEF Binds, ParamScopeOf
    <3>2. CASE /\ CallIn
               /\ stk'[j].vals = Vals
               /\ Level(stk', ctx', j) = <<Global, Len(heap) + 1>>
      <4> DEFINE fn   == Vals[1]
                 args == Tail(Vals)
                 lit  == Literal(fn)
                 b    == ParamScope(lit.params, args)
      <4>1. Callable(fn) /\ Accepts(fn, args) /\ heap' = Append(heap, b)
        BY <3>2 DEF CallIn
      <4>2. fn \in S /\ args \in Seq(S)
        BY <2>1, <3>2, CallOperands
      <4>3. Sane(S, fns)
        BY DEF AllIn
      <4>4. lit = Ast[fns[Data(fn)].lit]
        BY DEF Literal
      <4> HIDE DEF fn, args, lit
      <4>5. Typed(lit.params, b)
        BY <4>1, <4>2, <4>3, ParamsBound DEF Typed, lit
      <4> HIDE DEF b
      <4>6. heap'[Len(heap) + 1] = b
        BY <2>1, <4>1, AppendFacts
      <4>7. Level(stk', ctx', j)[2] = Len(heap) + 1
        BY <3>2
      <4>8. /\ IsFn(fn) /\ Data(fn) \in 1 .. Len(fns)
            /\ Data(fn) \in 1 .. Len(fns') /\ fns'[Data(fn)] = fns[Data(fn)]
        BY <2>2, <4>1 DEF Callable
      <4>9. stk'[j].vals[1] = fn
        BY <3>2 DEF fn
      <4> QED
        BY <4>4, <4>5, <4>6, <4>7, <4>8, <4>9 DEF Binds
    <3> QED
      BY <2>1, <2>3, <3>1, <3>2, RunningCalls
  <2> QED
    BY <2>3 DEF Parameters, ParamScopeOf, Binds, Typed
<1>2. ASSUME NEW root \in Roots, Submit(root)
      PROVE  Parameters'
  <2>1. stk' = <<Entry(root, ctx)>>
    BY <1>2 DEF Submit
  <2>2. ~ Running(Entry(root, ctx))
    BY SyntaxAssumption DEF Running, Entry, Frame
  <2>3. \A i \in 1 .. Len(stk') : ~ Running(stk'[i])
    BY <2>1, <2>2
  <2> QED
    BY <2>3 DEF Parameters
<1>3. CASE EndOfInput \/ Ended \/ UNCHANGED vars
  <2>1. UNCHANGED <<stk, ctx, heap, fns>>
    BY <1>3 DEF EndOfInput, Ended, vars, storage
  <2> QED
    BY <2>1 DEF Parameters, ParamScopeOf
<1> QED
  BY <1>1, <1>2, <1>3 DEF Next

(* ParamsKeepTypes holds of every session: as long as a function runs,     *)
(* whatever it and the functions it calls declare and assign to, each of   *)
(* its parameters has a value of the declared type, and the scope that     *)
(* holds them holds nothing else.                                          *)
THEOREM ParametersTyped == Spec => []ParamsKeepTypes
<1>1. Init => Parameters
  <2>1. Len(<<>>) = 0
    OBVIOUS
  <2> QED
    BY <2>1 DEF Init, Parameters
<1>2. Parameters => ParamsKeepTypes
  <2> SUFFICES ASSUME Parameters, NEW i \in 1 .. Depth, ActiveCall(i)
               PROVE  Typed(Literal(stk[i].vals[1]).params, heap[Inner(i)[2]])
    BY DEF ParamsKeepTypes, Typed
  <2>1. Running(stk[i]) /\ Inner(i) = Level(stk, ctx, i) /\ i \in 1 .. Len(stk)
    BY DEF ActiveCall, Running, Inner, Level, Depth
  <2> QED
    BY <2>1 DEF Parameters, ParamScopeOf, Binds, Literal
<1> QED
  BY <1>1, <1>2, ParametersNext, Invariance, DeepInvariant, ValuesSane, PTL DEF Spec

=============================================================================
