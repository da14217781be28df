-------------------------- MODULE Semantic_proofs --------------------------
(***************************************************************************)
(* Proofs about the semantic pass, for every program: TypeOK,              *)
(* ReturnsMatchTheirFunction, and that it implements ContextStack.         *)
(***************************************************************************)
EXTENDS Semantic, SeqFacts

Tables == IsSeq(stk) /\ IsSeq(syms) /\ Len(syms) >= 1

-----------------------------------------------------------------------------
(* The node and frame on top of the stack.                                 *)
LEMMA TopFacts ==
    ASSUME TypeOK, Tables, stk # <<>>
    PROVE  /\ Depth \in Nat \ {0}
           /\ Depth \in 1 .. Depth
           /\ Top.node \in Node
           /\ Arity \in Nat
           /\ Arity \in Arities(N.kind)
           /\ \A k \in 1 .. Arity : N.kids[k] \in Node
           /\ N.kind = "FnLit" => N.body \in Node
           /\ Top.pc \in 0 .. Arity + 1
<1>1. Depth \in Nat \ {0}
  BY EmptySeq DEF Tables, IsSeq, Depth
<1>2. Top.node \in Node /\ Top.pc \in 0 .. Arity + 1
  BY <1>1 DEF TypeOK, Top, Arity, N
<1>3. /\ N.kids \in Seq(Node)
      /\ Arity \in Arities(N.kind)
      /\ N.kind = "FnLit" => N.body \in Node
  BY <1>2, SyntaxAssumption DEF N, Arity, IsFunctionLiteral
<1>4. Arity \in Nat /\ \A k \in 1 .. Arity : N.kids[k] \in Node
  BY <1>3, LenProperties, ElementOfSeq DEF Arity
<1> QED
  BY <1>1, <1>2, <1>3, <1>4

-----------------------------------------------------------------------------
(* What a visit's step does to the stack, to scope_ and to                 *)
(* declaredReturnType_: one of five things.                                *)

(* The visitors that make a scope, and the frames that are inside theirs.  *)
Scoped(kind) == kind \in {"Block", "FnLit"}

Inside(f) == Scoped(Ast[f.node].kind) /\ f.pc = 1

SameScopes == scope' = scope /\ IsSeq(syms') /\ Len(syms') = Len(syms)

NewScope == /\ scope' = Append(scope, Len(syms) + 1)
            /\ IsSeq(syms') /\ Len(syms') = Len(syms) + 1

Push(f, n, env) == stk' = Append([stk EXCEPT ![Depth] = f], Entry(n, env))

Down ==
    /\ ~ Scoped(N.kind)
    /\ \E n, k, own :
          /\ n \in Node /\ k \in 0 .. Arity
          /\ Push(Frame(Top.node, k, own, Top.saved), n, scope)
    /\ SameScopes
    /\ UNCHANGED declared

In ==
    /\ Scoped(N.kind) /\ Top.pc = 0
    /\ \E n, own :
          /\ n \in Node /\ Push(Frame(Top.node, 1, own, Top.saved), n, scope')
          /\ N.kind = "FnLit" => own = declared
    /\ NewScope
    /\ declared' = IF N.kind = "FnLit" THEN resolveTypeName(N.ret) ELSE declared

Up ==
    /\ ~ Scoped(N.kind)
    /\ stk' = SubSeq(stk, 1, Depth - 1)
    /\ SameScopes
    /\ UNCHANGED declared

Out ==
    /\ Inside(Top)
    /\ stk' = SubSeq(stk, 1, Depth - 1)
    /\ scope' = Parent(scope)
    /\ IsSeq(syms') /\ Len(syms') = Len(syms)
    /\ declared' = IF N.kind = "FnLit" THEN Top.own ELSE declared

Fail ==
    /\ stk' = <<>> /\ verdict' = "error"
    /\ scope' = scope \/ (Inside(Top) /\ scope' = Parent(scope))
    /\ IsSeq(syms') /\ Len(syms') = Len(syms)

Step == Down \/ In \/ Up \/ Out \/ Fail

(* What a visitor that makes no scope does to the stack.                   *)
StackStep ==
    \/ \E n, k, own :
          /\ n \in Node /\ k \in 0 .. Arity
          /\ Push(Frame(Top.node, k, own, Top.saved), n, scope)
    \/ stk' = SubSeq(stk, 1, Depth - 1)
    \/ stk' = <<>> /\ verdict' = "error"

(* Accept, called from the visitor on top, pushes one frame.               *)
LEMMA Pushes ==
    ASSUME TypeOK, Tables, stk # <<>>, NEW k \in 1 .. Arity, NEW own,
           Go(k, own)
    PROVE  StackStep
<1>1. N.kids[k] \in Node /\ k \in 0 .. Arity
  BY TopFacts
<1> QED
  BY <1>1 DEF StackStep, Push, Go, Accept

(* The shapes that need nothing said about scopes.                         *)
LEMMA SmallSteps ==
    ASSUME SameScopes, UNCHANGED declared, ~ Scoped(N.kind), StackStep
    PROVE  Step
<1>1. CASE stk' = SubSeq(stk, 1, Depth - 1)
  BY <1>1 DEF Up, Step
<1>2. CASE stk' = <<>> /\ verdict' = "error"
  BY <1>2 DEF Fail, Step, SameScopes
<1>3. CASE \E n, k, own :
              /\ n \in Node /\ k \in 0 .. Arity
              /\ Push(Frame(Top.node, k, own, Top.saved), n, scope)
  BY <1>3 DEF Down, Step
<1> QED
  BY <1>1, <1>2, <1>3 DEF StackStep

(* The visitors of expressions and statements that make no scope.          *)
LEMMA Unscoped ==
    ASSUME TypeOK, Tables,
           \/ VisitLiteral \/ VisitIdent \/ VisitUnary \/ VisitBinOp
           \/ VisitArray \/ VisitArrayDeref \/ VisitLet \/ VisitAssign
           \/ VisitCall \/ VisitReturn \/ VisitIf \/ VisitWhile \/ VisitStmtList
    PROVE  stk # <<>> /\ Step
<1>1. /\ stk # <<>> /\ ~ Scoped(N.kind)
      /\ UNCHANGED <<declared, scope>>
  BY DEF VisitLiteral, VisitIdent, VisitUnary, VisitBinOp, VisitArray,
     VisitArrayDeref, VisitLet, VisitAssign, VisitCall, VisitReturn, VisitIf,
     VisitWhile, VisitStmtList, VisitInOrder, Visiting, Scoped, Context
<1>2. /\ Arity \in Nat
      /\ Arity \in Arities(N.kind)
      /\ Top.pc \in 0 .. Arity + 1
  BY <1>1, TopFacts
<1>3. SameScopes
  <2>1. CASE UNCHANGED syms
    BY <1>1, <2>1 DEF SameScopes, Tables
  <2>2. CASE VisitLet /\ syms' = Define(syms, scope, N.name, Bound(N.kids[1]))
    <3>1. scope[Len(scope)] \in 1 .. Len(syms)
      <4>1. Len(scope) \in 1 .. Len(scope)
        BY LenProperties DEF TypeOK, IsEnv
      <4> QED
        BY <4>1, ElementOfSeq DEF TypeOK, IsEnv
    <3> QED
      BY <1>1, <2>2, <3>1, ExceptFacts DEF Define, SameScopes, Tables
  <2> QED
    BY <2>1, <2>2 DEF VisitLiteral, VisitIdent, VisitUnary, VisitBinOp,
       VisitArray, VisitArrayDeref, VisitLet, VisitAssign, VisitCall,
       VisitReturn, VisitIf, VisitWhile, VisitStmtList, VisitInOrder, Context
<1>4. ASSUME NEW k \in 1 .. Arity, NEW own, Go(k, own)
      PROVE  StackStep
  BY <1>1, <1>4, Pushes
<1>5. ASSUME Leave \/ Throw
      PROVE  StackStep
  BY <1>5 DEF StackStep, Leave, Throw
<1>6. StackStep
  <2> USE DEF Typed
  <2>1. CASE VisitLiteral \/ VisitIdent
    BY <1>5, <2>1 DEF VisitLiteral, VisitIdent
  <2>2. CASE VisitUnary
    <3>1. 1 \in 1 .. Arity
      BY <1>2, <2>2 DEF VisitUnary, Visiting, Arities
    <3> QED
      BY <1>4, <1>5, <2>2, <3>1 DEF VisitUnary
  <2>3. CASE VisitBinOp
    <3>1. 1 \in 1 .. Arity /\ 2 \in 1 .. Arity
      BY <1>2, <2>3 DEF VisitBinOp, Visiting, Arities
    <3> QED
      BY <1>4, <1>5, <2>3, <3>1 DEF VisitBinOp
  <2>4. CASE VisitArray
    <3>1. /\ Arity > 0 => 1 \in 1 .. Arity
          /\ Top.pc < Arity => Top.pc + 1 \in 1 .. Arity
      BY <1>2
    <3> QED
      BY <1>4, <1>5, <2>4, <3>1 DEF VisitArray
  <2>5. CASE VisitArrayDeref
    <3>1. 1 \in 1 .. Arity /\ 2 \in 1 .. Arity
      BY <1>2, <2>5 DEF VisitArrayDeref, Visiting, Arities
    <3> QED
      BY <1>4, <1>5, <2>5, <3>1 DEF VisitArrayDeref
  <2>6. CASE VisitLet
    <3>1. 1 \in 1 .. Arity
      BY <1>2, <2>6 DEF VisitLet, Visiting, Arities
    <3> QED
      BY <1>4, <1>5, <2>6, <3>1 DEF VisitLet
  <2>7. CASE VisitAssign
    <3>1. 1 \in 1 .. Arity
      BY <1>2, <2>7 DEF VisitAssign, Visiting, Arities
    <3> QED
      BY <1>4, <1>5, <2>7, <3>1 DEF VisitAssign
  <2>8. CASE VisitCall
    <3>1. 1 \in 1 .. Arity
      BY <1>2, <2>8 DEF VisitCall, Visiting, Arities
    <3>2. Top.pc < Arity => Top.pc + 1 \in 1 .. Arity
      BY <1>2
    <3> QED
      BY <1>4, <1>5, <2>8, <3>1, <3>2 DEF VisitCall, NextArgument
  <2>9. CASE VisitReturn
    <3>1. Top.pc < Arity => 1 \in 1 .. Arity
      BY <1>2
    <3> QED
      BY <1>4, <1>5, <2>9, <3>1 DEF VisitReturn
  <2>10. CASE VisitIf \/ VisitWhile \/ VisitStmtList
    <3>1. Top.pc < Arity => Top.pc + 1 \in 1 .. Arity
      BY <1>2
    <3> QED
      BY <1>4, <1>5, <2>10, <3>1 DEF VisitIf, VisitWhile, VisitStmtList,
         VisitInOrder, NextChild
  <2> QED
    BY <2>1, <2>2, <2>3, <2>4, <2>5, <2>6, <2>7, <2>8, <2>9, <2>10
<1> QED
  BY <1>1, <1>3, <1>6, SmallSteps

(* A block and a function's body: their scope, in and out.                 *)
LEMMA ScopedVisits ==
    ASSUME TypeOK, Tables, VisitBlock \/ VisitFnLit
    PROVE  stk # <<>> /\ Step
<1>1. stk # <<>> /\ N = Ast[Top.node]
  BY DEF VisitBlock, VisitFnLit, Visiting, N
<1> SUFFICES Step
  BY <1>1
<1>2. /\ Arity \in Arities(N.kind) /\ Top.pc \in 0 .. Arity + 1
      /\ \A k \in 1 .. Arity : N.kids[k] \in Node
      /\ N.kind = "FnLit" => N.body \in Node
  BY <1>1, TopFacts
<1>3. IsSeq(syms) /\ \A b : /\ IsSeq(Append(syms, b))
                           /\ Len(Append(syms, b)) = Len(syms) + 1
  BY AppendFacts DEF Tables
<1>4. CASE VisitBlock
  <2>1. N.kind = "Block" /\ N.kids[1] \in Node
    BY <1>2, <1>4 DEF VisitBlock, Visiting, Arities
  <2>2. CASE EnterBlock
    <3>1. Push(Frame(Top.node, 1, <<>>, Top.saved), N.kids[1], scope')
      BY <2>2 DEF EnterBlock, Accept, Push
    <3>2. NewScope /\ Top.pc = 0 /\ UNCHANGED declared
      BY <1>3, <1>4, <2>2 DEF EnterBlock, VisitBlock, Extend, Child, NewScope
    <3> QED
      BY <2>1, <3>1, <3>2 DEF In, Scoped, Step
  <2>3. CASE LeaveBlock
    BY <1>1, <1>3, <1>4, <2>1, <2>3 DEF LeaveBlock, VisitBlock, Leave, Inside,
       Scoped, Out, Step
  <2> QED
    BY <1>4, <2>2, <2>3 DEF VisitBlock
<1>5. CASE VisitFnLit
  <2>1. N.kind = "FnLit" /\ N.body \in Node
    BY <1>2, <1>5 DEF VisitFnLit, Visiting
  <2>2. CASE EnterFunction
    <3>1. Push(Frame(Top.node, 1, declared, Top.saved), N.body, scope')
      BY <2>2 DEF EnterFunction, Accept, Push
    <3>2. NewScope /\ Top.pc = 0 /\ declared' = resolveTypeName(N.ret)
      BY <1>3, <2>2 DEF EnterFunction, Extend, Child, NewScope
    <3> QED
      BY <2>1, <3>1, <3>2 DEF In, Scoped, Step
  <2>3. CASE LeaveFunction
    <3>1. Inside(Top) /\ UNCHANGED syms /\ scope' = Parent(scope)
      BY <1>1, <2>1, <2>3 DEF LeaveFunction, Inside, Scoped
    <3>2. CASE Throw
      BY <1>3, <3>1, <3>2 DEF Throw, Fail, Step
    <3>3. CASE Leave
      BY <1>3, <2>1, <2>3, <3>1, <3>3 DEF Leave, LeaveFunction, Out, Step
    <3> QED
      BY <2>3, <3>2, <3>3 DEF LeaveFunction, Typed
  <2>4. CASE Throw /\ UNCHANGED Context
    BY <1>3, <2>4 DEF Throw, Fail, Step, Context
  <2> QED
    BY <1>5, <2>2, <2>3, <2>4 DEF VisitFnLit
<1> QED
  BY <1>4, <1>5

(* Every step of a visitor has one of the five shapes.                     *)
LEMMA Shapes ==
    ASSUME TypeOK, Tables, Visit
    PROVE  stk # <<>> /\ Step
BY Unscoped, ScopedVisits DEF Visit

-----------------------------------------------------------------------------
(* The environments of a stack s with scope_ = c and m scopes: each        *)
(* exists, and it is one scope deeper above a visitor that made one.       *)

FrameIn(f, m) == /\ f.node \in Node
                 /\ f.pc \in 0 .. Len(Ast[f.node].kids) + 1
                 /\ EnvIn(f.saved, m)

Fits(f, inner) == IF Inside(f) THEN Parent(inner) = f.saved ELSE inner = f.saved

Sound(s, c, m) ==
    /\ IsSeq(s)
    /\ m \in Nat
    /\ EnvIn(c, m)
    /\ \A i \in 1 .. Len(s) : FrameIn(s[i], m) /\ Fits(s[i], Level(s, c, i))

(* Visiting a child, with whatever environment the visitor hands to it.    *)
LEMMA PushSound ==
    ASSUME NEW s, s # <<>>, NEW c, NEW m, Sound(s, c, m),
           NEW m2 \in Nat, m <= m2, NEW c2, EnvIn(c2, m2),
           NEW f, FrameIn(f, m2), f.saved = s[Len(s)].saved, Fits(f, c2),
           NEW n \in Node
    PROVE  Sound(PushOver(s, f, Entry(n, c2)), c2, m2)
<1> DEFINE g == Entry(n, c2)
           t == PushOver(s, f, g)
<1>1. /\ g.node = n /\ g.pc = 0 /\ g.saved = c2
      /\ Len(Ast[n].kids) \in Nat
  <2>1. Len(Ast[n].kids) \in Nat
    BY SyntaxAssumption, LenProperties
  <2> QED
    BY <2>1 DEF Frame, Entry
<1>2. t = PushOver(s, f, g)
  OBVIOUS
<1> HIDE DEF g, t
<1>3. /\ IsSeq(s)
      /\ m \in Nat
      /\ \A i \in 1 .. Len(s) : FrameIn(s[i], m) /\ Fits(s[i], Level(s, c, i))
  BY DEF Sound
<1>4. IsSeq(t)
  BY <1>2, <1>3, PushFacts, Zenon
<1>5. /\ Len(s) \in Nat \ {0}
      /\ Len(t) = Len(s) + 1
      /\ \A i \in 1 .. Len(s) - 1 : t[i] = s[i]
      /\ t[Len(s)] = f
      /\ t[Len(s) + 1] = g
  BY <1>2, <1>3, PushFacts
<1>6. /\ \A i \in 1 .. Len(s) - 1 : Level(t, c2, i) = Level(s, c, i)
      /\ Level(t, c2, Len(s)) = c2
      /\ Level(t, c2, Len(s) + 1) = c2
  BY <1>1, <1>2, <1>3, LevelPushed
<1>7. ASSUME NEW i \in 1 .. Len(t)
      PROVE  FrameIn(t[i], m2) /\ Fits(t[i], Level(t, c2, i))
  <2>1. CASE i \in 1 .. Len(s) - 1
    <3>1. i \in 1 .. Len(s) /\ t[i] = s[i] /\ Level(t, c2, i) = Level(s, c, i)
      BY <1>5, <1>6, <2>1
    <3>2. FrameIn(s[i], m) /\ Fits(s[i], Level(s, c, i))
      BY <1>3, <3>1
    <3>3. FrameIn(s[i], m2)
      BY <1>3, <3>2, EnvStays DEF FrameIn
    <3> QED
      BY <3>1, <3>2, <3>3
  <2>2. CASE i = Len(s)
    BY <1>5, <1>6, <2>2
  <2>3. CASE i = Len(s) + 1
    <3>1. FrameIn(g, m2) /\ Fits(g, c2)
      BY <1>1 DEF FrameIn, Fits, Inside
    <3> QED
      BY <1>5, <1>6, <2>3, <3>1
  <2> QED
    BY <1>5, <2>1, <2>2, <2>3
<1>8. Sound(t, c2, m2)
  BY <1>4, <1>7 DEF Sound
<1> QED
  BY <1>8 DEF t, g

(* The end of the visitor on top.                                          *)
LEMMA PopSound ==
    ASSUME NEW s, s # <<>>, NEW c, NEW m, Sound(s, c, m)
    PROVE  Sound(SubSeq(s, 1, Len(s) - 1), s[Len(s)].saved, m)
<1> DEFINE d == Len(s) - 1
           t == SubSeq(s, 1, d)
<1>1. /\ IsSeq(s)
      /\ m \in Nat
      /\ \A i \in 1 .. Len(s) : FrameIn(s[i], m) /\ Fits(s[i], Level(s, c, i))
  BY DEF Sound
<1>2. Len(s) \in Nat \ {0} /\ d \in 0 .. Len(s) /\ d \in 0 .. Len(s) - 1 /\ d + 1 = Len(s)
  BY <1>1, EmptySeq DEF IsSeq
<1> HIDE DEF d
<1>3. /\ IsSeq(t)
      /\ Len(t) = d
      /\ \A i \in 1 .. d : t[i] = s[i]
  BY <1>1, <1>2, PopFacts
<1>4. EnvIn(s[d + 1].saved, m)
  BY <1>1, <1>2 DEF FrameIn
<1>5. \A i \in 1 .. d : Level(t, s[d + 1].saved, i) = Level(s, c, i)
  BY <1>1, <1>2, LevelPopped
<1> HIDE DEF t
<1>6. ASSUME NEW i \in 1 .. d
      PROVE  FrameIn(t[i], m) /\ Fits(t[i], Level(t, s[d + 1].saved, i))
  BY <1>1, <1>2, <1>3, <1>5
<1>7. Sound(t, s[d + 1].saved, m)
  BY <1>1, <1>3, <1>4, <1>6 DEF Sound
<1> QED
  BY <1>2, <1>7 DEF t, d

-----------------------------------------------------------------------------
(* The invariant of the environments, and what TypeOK says of the rest.    *)

Members ==
    /\ verdict \in {"idle", "run", "ok", "error"}
    /\ DOMAIN notes \subseteq Node
    /\ IsSeq(syms) /\ Len(syms) >= 1

IInv == Members /\ Sound(stk, scope, Len(syms))

(* What the invariant says in the terms of the properties.                 *)
LEMMA InvImplies ==
    ASSUME IInv
    PROVE  TypeOK /\ Tables
<1>1. /\ IsSeq(stk) /\ EnvIn(scope, Len(syms))
      /\ \A i \in 1 .. Depth : FrameIn(stk[i], Len(syms))
  BY DEF IInv, Sound, Depth
<1>2. TypeOK
  BY <1>1 DEF TypeOK, IInv, Members, IsEnv, EnvIn, FrameIn
<1> QED
  BY <1>1, <1>2 DEF Tables, IInv, Members

(* What is known of the top of a sound stack.                              *)
LEMMA SoundTop ==
    ASSUME IInv, stk # <<>>
    PROVE  /\ IsSeq(stk) /\ Depth \in Nat \ {0} /\ Depth = Len(stk)
           /\ Top = stk[Len(stk)] /\ N = Ast[Top.node]
           /\ Arity \in Nat /\ Arity = Len(Ast[Top.node].kids)
           /\ Len(syms) \in Nat \ {0}
           /\ FrameIn(Top, Len(syms))
           /\ Fits(Top, scope)
           /\ EnvIn(scope, Len(syms))
<1>1. TypeOK /\ Tables /\ Sound(stk, scope, Len(syms))
  BY InvImplies DEF IInv
<1>2. Depth \in Nat \ {0} /\ Arity \in Nat
  BY <1>1, TopFacts
<1>3. Len(syms) \in Nat \ {0}
  BY <1>1 DEF Tables, Sound
<1> QED
  BY <1>1, <1>2, <1>3 DEF Sound, Level, Depth, Top, N, Arity

(* Every shape of a visitor's step.                                        *)
LEMMA StepSound ==
    ASSUME IInv, stk # <<>>, Step
    PROVE  Sound(stk', scope', Len(syms'))
<1>1. Sound(stk, scope, Len(syms))
  BY DEF IInv
<1>2. /\ IsSeq(stk) /\ Depth \in Nat \ {0} /\ Depth = Len(stk)
      /\ Top = stk[Len(stk)] /\ N = Ast[Top.node]
      /\ Arity \in Nat /\ Arity = Len(Ast[Top.node].kids)
      /\ Len(syms) \in Nat \ {0}
      /\ FrameIn(Top, Len(syms)) /\ Fits(Top, scope) /\ EnvIn(scope, Len(syms))
  BY SoundTop
<1>3. ASSUME stk' = SubSeq(stk, 1, Depth - 1), scope' = Top.saved,
             Len(syms') = Len(syms)
      PROVE  Sound(stk', scope', Len(syms'))
  BY <1>1, <1>2, <1>3, PopSound
<1>4. CASE Down
  <2>1. PICK n, k, own :
           /\ n \in Node /\ k \in 0 .. Arity
           /\ Push(Frame(Top.node, k, own, Top.saved), n, scope)
    BY <1>4 DEF Down
  <2> DEFINE f == Frame(Top.node, k, own, Top.saved)
  <2>2. f.node = Top.node /\ f.pc = k /\ f.saved = Top.saved
    BY DEF Frame
  <2>3. stk' = PushOver(stk, f, Entry(n, scope))
    BY <2>1 DEF Push, PushOver, Depth
  <2> HIDE DEF f
  <2>4. FrameIn(f, Len(syms))
    BY <1>2, <2>1, <2>2 DEF FrameIn
  <2>5. Fits(f, scope)
    BY <1>2, <1>4, <2>2 DEF Down, Fits, Inside
  <2>6. Sound(PushOver(stk, f, Entry(n, scope)), scope, Len(syms))
    BY <1>1, <1>2, <2>1, <2>2, <2>4, <2>5, PushSound
  <2> QED
    BY <1>4, <2>3, <2>6 DEF Down, SameScopes
<1>5. CASE In
  <2>1. PICK n, own :
           n \in Node /\ Push(Frame(Top.node, 1, own, Top.saved), n, scope')
    BY <1>5 DEF In
  <2> DEFINE f == Frame(Top.node, 1, own, Top.saved)
  <2>2. f.node = Top.node /\ f.pc = 1 /\ f.saved = Top.saved
    BY DEF Frame
  <2>3. stk' = PushOver(stk, f, Entry(n, scope'))
    BY <2>1 DEF Push, PushOver, Depth
  <2> HIDE DEF f
  <2>4. Len(syms') \in Nat /\ Len(syms) <= Len(syms') /\ Len(syms') = Len(syms) + 1
    BY <1>2, <1>5 DEF In, NewScope
  <2>5. FrameIn(f, Len(syms'))
    <3>1. EnvIn(Top.saved, Len(syms'))
      BY <1>2, <2>4, EnvStays DEF FrameIn
    <3> QED
      BY <1>2, <2>2, <3>1 DEF FrameIn
  <2>6. EnvIn(scope', Len(syms')) /\ Parent(scope') = scope
    BY <1>2, <1>5, <2>4, EnvGrows DEF In, NewScope
  <2>7. Fits(f, scope')
    BY <1>2, <1>5, <2>2, <2>6 DEF In, Fits, Inside
  <2>8. Sound(PushOver(stk, f, Entry(n, scope')), scope', Len(syms'))
    BY <1>1, <1>2, <2>1, <2>2, <2>4, <2>5, <2>6, <2>7, PushSound
  <2> QED
    BY <2>3, <2>8
<1>6. CASE Up
  <2>1. scope' = Top.saved /\ Len(syms') = Len(syms)
    BY <1>2, <1>6 DEF Up, SameScopes, Fits, Inside
  <2> QED
    BY <1>3, <1>6, <2>1 DEF Up
<1>7. CASE Out
  <2>1. scope' = Top.saved
    BY <1>2, <1>7 DEF Out, Fits
  <2> QED
    BY <1>3, <1>7, <2>1 DEF Out
<1>8. CASE Fail
  <2>1. EnvIn(scope', Len(syms)) /\ Len(syms') = Len(syms)
    BY <1>2, <1>8 DEF Fail, Fits, FrameIn
  <2>2. IsSeq(<<>>) /\ Len(<<>>) = 0
    BY DEF IsSeq, Elements
  <2> QED
    BY <1>2, <1>8, <2>1, <2>2 DEF Fail, Sound
<1> QED
  BY <1>4, <1>5, <1>6, <1>7, <1>8 DEF Step

(* A visit's verdict and annotations.                                      *)
LEMMA VisitMembers ==
    ASSUME TypeOK, Tables, Visit
    PROVE  /\ verdict = "run" /\ verdict' \in {"run", "ok", "error"}
           /\ DOMAIN notes' \subseteq Node
<1>1. verdict = "run" /\ stk # <<>>
  BY DEF Visit, VisitLiteral, VisitIdent, VisitUnary, VisitBinOp, VisitArray,
     VisitArrayDeref, VisitLet, VisitAssign, VisitFnLit, VisitCall, VisitReturn,
     VisitBlock, VisitIf, VisitWhile, VisitStmtList, VisitInOrder, Visiting
<1>2. Top.node \in Node /\ DOMAIN notes \subseteq Node
  BY <1>1, TopFacts DEF TypeOK
<1> DEFINE Goal == verdict' \in {"run", "ok", "error"} /\ DOMAIN notes' \subseteq Node
<1> SUFFICES Goal
  BY <1>1
<1>3. \A t : Typed(t) => Goal
  BY <1>1, <1>2 DEF Typed, Leave, Bind
<1>4. \A k, own : Go(k, own) => Goal
  BY <1>1, <1>2 DEF Go, Accept
<1>5. Throw => Goal
  BY <1>2 DEF Throw
<1>6. Leave /\ UNCHANGED notes => Goal
  BY <1>1, <1>2 DEF Leave
<1> HIDE DEF Goal
<1>7. CASE VisitLiteral \/ VisitIdent \/ VisitUnary \/ VisitBinOp
  BY <1>3, <1>4, <1>5, <1>7 DEF VisitLiteral, VisitIdent, VisitUnary, VisitBinOp
<1>8. CASE VisitArray \/ VisitArrayDeref \/ VisitLet \/ VisitAssign
  BY <1>3, <1>4, <1>5, <1>8 DEF VisitArray, VisitArrayDeref, VisitLet, VisitAssign
<1>9. CASE VisitCall \/ VisitReturn
  BY <1>3, <1>4, <1>5, <1>6, <1>9 DEF VisitCall, NextArgument, VisitReturn
<1>10. CASE VisitIf \/ VisitWhile \/ VisitStmtList
  BY <1>4, <1>6, <1>10 DEF VisitIf, VisitWhile, VisitStmtList, VisitInOrder, NextChild
<1>11. CASE VisitBlock
  <2>1. EnterBlock => Goal
    BY <1>1, <1>2 DEF EnterBlock, Accept, Goal
  <2> QED
    BY <1>6, <1>11, <2>1 DEF VisitBlock, LeaveBlock
<1>12. CASE VisitFnLit
  <2>1. EnterFunction => Goal
    BY <1>1, <1>2 DEF EnterFunction, Accept, Goal
  <2> QED
    BY <1>3, <1>5, <1>12, <2>1 DEF VisitFnLit, LeaveFunction
<1> QED
  BY <1>7, <1>8, <1>9, <1>10, <1>11, <1>12 DEF Visit

(* The invariant holds before the pass.                                    *)
LEMMA InitSound == Init => IInv
<1> SUFFICES ASSUME Init PROVE IInv
  OBVIOUS
<1>1. /\ IsSeq(<<>>) /\ Len(<<>>) = 0
      /\ \A e : IsSeq(<<e>>) /\ Len(<<e>>) = 1
  BY DEF IsSeq, Elements
<1>2. Members
  BY <1>1 DEF Init, Members, NoBindings
<1>3. EnvIn(GlobalEnv, 1)
  BY <1>1 DEF EnvIn, GlobalEnv, Global
<1>4. Len(syms) = 1
  BY <1>1 DEF Init
<1>5. Sound(<<>>, GlobalEnv, 1)
  BY <1>1, <1>3 DEF Sound
<1> QED
  BY <1>2, <1>4, <1>5 DEF IInv, Init

(* Every step keeps it.                                                    *)
LEMMA NextInv == IInv /\ [Next]_vars => IInv'
<1> SUFFICES ASSUME IInv, [Next]_vars PROVE IInv'
  OBVIOUS
<1>1. CASE Visit
  <2>1. TypeOK /\ Tables
    BY InvImplies
  <2>2. stk # <<>> /\ Step
    BY <1>1, <2>1, Shapes
  <2>3. Sound(stk', scope', Len(syms'))
    BY <2>2, StepSound
  <2>4. IsSeq(syms') /\ Len(syms') >= 1
    <3>1. IsSeq(syms') /\ (Len(syms') = Len(syms) \/ Len(syms') = Len(syms) + 1)
      BY <2>2 DEF Step, Down, In, Up, Out, Fail, SameScopes, NewScope
    <3>2. Len(syms) \in Nat /\ Len(syms) >= 1
      BY DEF IInv, Members, Sound
    <3> QED
      BY <3>1, <3>2
  <2> QED
    BY <1>1, <2>1, <2>3, <2>4, VisitMembers DEF IInv, Members
<1>2. ASSUME NEW root \in Roots, Start(root)
      PROVE  IInv'
  <2> DEFINE s == <<Entry(root, scope)>>
  <2>1. /\ root \in Node
        /\ Len(Ast[root].kids) \in Nat
    BY SyntaxAssumption, LenProperties
  <2>2. /\ IsSeq(s) /\ Len(s) = 1
        /\ s[1].node = root /\ s[1].pc = 0 /\ s[1].saved = scope
    BY DEF IsSeq, Elements, Entry, Frame
  <2>3. EnvIn(scope, Len(syms)) /\ Len(syms) \in Nat
    BY DEF IInv, Sound
  <2> HIDE DEF s
  <2>4. FrameIn(s[1], Len(syms)) /\ Fits(s[1], scope) /\ Level(s, scope, 1) = scope
    BY <2>1, <2>2, <2>3 DEF FrameIn, Fits, Inside, Level
  <2>5. Sound(s, scope, Len(syms))
    BY <2>2, <2>3, <2>4 DEF Sound
  <2>6. Members'
    BY <1>2 DEF IInv, Members, Start
  <2> QED
    BY <1>2, <2>5, <2>6 DEF IInv, Start, s
<1>3. CASE Finished \/ UNCHANGED vars
  BY <1>3 DEF Finished, vars, IInv, Members
<1> QED
  BY <1>1, <1>2, <1>3 DEF Next

(* Invariance: for every program.                                          *)
THEOREM Invariance == Spec => []IInv
BY InitSound, NextInv, PTL DEF Spec

(* TypeOK holds of every walk: scope_, and every visitor's idea of where   *)
(* it began, is a path of existing scopes from the global one, and only    *)
(* nodes are annotated.                                                    *)
THEOREM TypeCorrect == Spec => []TypeOK
<1>1. IInv => TypeOK
  BY InvImplies
<1> QED
  BY <1>1, Invariance, PTL

-----------------------------------------------------------------------------
(* declaredReturnType_ is saved by each function literal and put back: what *)
(* a literal being walked has saved is the declaration of the one around   *)
(* it, and so on outwards.                                                 *)

(* A function literal whose body is being walked, and its declaration.     *)
InFn(f) == Ast[f.node].kind = "FnLit" /\ f.pc = 1

Ret(f) == resolveTypeName(Ast[f.node].ret)

(* t is the declaration of the innermost literal among the first d frames. *)
Governs(s, d, t) ==
    \/ \E i \in 1 .. d : /\ InFn(s[i]) /\ t = Ret(s[i])
                         /\ \A j \in (i + 1) .. d : ~ InFn(s[j])
    \/ (\A i \in 1 .. d : ~ InFn(s[i])) /\ t = UNKNOWN

Nesting(s, t) ==
    /\ Governs(s, Len(s), t)
    /\ \A i \in 1 .. Len(s) : InFn(s[i]) => Governs(s, i - 1, s[i].own)

NestingKept ==
    /\ verdict = "idle" => stk = <<>> /\ declared = UNKNOWN
    /\ verdict = "run" => Nesting(stk, declared)

(* Governs looks at the first d frames only.                               *)
LEMMA GovernsSame ==
    ASSUME NEW s, NEW u, NEW d \in Nat, NEW t, Governs(s, d, t),
           \A i \in 1 .. d : u[i] = s[i]
    PROVE  Governs(u, d, t)
<1>1. CASE \E i \in 1 .. d : /\ InFn(s[i]) /\ t = Ret(s[i])
                             /\ \A j \in (i + 1) .. d : ~ InFn(s[j])
  <2>1. PICK i \in 1 .. d : /\ InFn(s[i]) /\ t = Ret(s[i])
                            /\ \A j \in (i + 1) .. d : ~ InFn(s[j])
    BY <1>1
  <2>2. \A j \in (i + 1) .. d : ~ InFn(u[j])
    BY <2>1
  <2> QED
    BY <2>1, <2>2 DEF Governs
<1>2. CASE (\A i \in 1 .. d : ~ InFn(s[i])) /\ t = UNKNOWN
  BY <1>2 DEF Governs
<1> QED
  BY <1>1, <1>2 DEF Governs

(* A frame that is no literal's changes nothing.                           *)
LEMMA GovernsPast ==
    ASSUME NEW s, NEW d \in Nat, NEW t, ~ InFn(s[d + 1])
    PROVE  Governs(s, d, t) <=> Governs(s, d + 1, t)
<1>1. ASSUME Governs(s, d, t)
      PROVE  Governs(s, d + 1, t)
  <2>1. CASE \E i \in 1 .. d : /\ InFn(s[i]) /\ t = Ret(s[i])
                               /\ \A j \in (i + 1) .. d : ~ InFn(s[j])
    <3>1. PICK i \in 1 .. d : /\ InFn(s[i]) /\ t = Ret(s[i])
                              /\ \A j \in (i + 1) .. d : ~ InFn(s[j])
      BY <2>1
    <3>2. i \in 1 .. d + 1 /\ \A j \in (i + 1) .. d + 1 : ~ InFn(s[j])
      BY <3>1
    <3> QED
      BY <3>1, <3>2 DEF Governs
  <2>2. CASE (\A i \in 1 .. d : ~ InFn(s[i])) /\ t = UNKNOWN
    <3>1. \A i \in 1 .. d + 1 : ~ InFn(s[i])
      BY <2>2
    <3> QED
      BY <2>2, <3>1 DEF Governs
  <2> QED
    BY <1>1, <2>1, <2>2 DEF Governs
<1>2. ASSUME Governs(s, d + 1, t)
      PROVE  Governs(s, d, t)
  <2>1. CASE \E i \in 1 .. d + 1 : /\ InFn(s[i]) /\ t = Ret(s[i])
                                   /\ \A j \in (i + 1) .. d + 1 : ~ InFn(s[j])
    <3>1. PICK i \in 1 .. d + 1 : /\ InFn(s[i]) /\ t = Ret(s[i])
                                  /\ \A j \in (i + 1) .. d + 1 : ~ InFn(s[j])
      BY <2>1
    <3>2. i \in 1 .. d
      BY <3>1
    <3>3. \A j \in (i + 1) .. d : ~ InFn(s[j])
      BY <3>1
    <3> QED
      BY <3>1, <3>2, <3>3 DEF Governs
  <2>2. CASE (\A i \in 1 .. d + 1 : ~ InFn(s[i])) /\ t = UNKNOWN
    <3>1. \A i \in 1 .. d : ~ InFn(s[i])
      BY <2>2
    <3> QED
      BY <2>2, <3>1 DEF Governs
  <2> QED
    BY <1>2, <2>1, <2>2 DEF Governs
<1> QED
  BY <1>1, <1>2

(* Inside a literal its own declaration counts.                            *)
LEMMA GovernsOwn ==
    ASSUME NEW s, NEW d \in Nat \ {0}, InFn(s[d])
    PROVE  Governs(s, d, Ret(s[d]))
<1>1. d \in 1 .. d /\ \A j \in (d + 1) .. d : ~ InFn(s[j])
  OBVIOUS
<1> QED
  BY <1>1 DEF Governs

(* A visitor that is in no body of a literal visits a child: it may be a   *)
(* literal that goes into its body, and replaces the declaration.          *)
LEMMA PushNesting ==
    ASSUME NEW s, IsSeq(s), s # <<>>, NEW t, Nesting(s, t), ~ InFn(s[Len(s)]),
           NEW f, NEW g, ~ InFn(g), NEW t2,
           IF InFn(f) THEN f.own = t /\ t2 = Ret(f) ELSE t2 = t
    PROVE  Nesting(PushOver(s, f, g), t2)
<1> DEFINE u == PushOver(s, f, g)
           d == Len(s) - 1
<1>1. /\ d \in Nat /\ Len(s) = d + 1 /\ Len(u) = d + 2
      /\ \A i \in 1 .. d : u[i] = s[i]
      /\ u[d + 1] = f /\ u[d + 2] = g
  BY PushFacts
<1> HIDE DEF u, d
<1>2. Governs(s, d, t)
  BY <1>1, GovernsPast DEF Nesting
<1>3. Governs(u, d, t)
  BY <1>1, <1>2, GovernsSame
<1>4. Governs(u, d + 1, t2)
  <2>1. CASE InFn(f)
    BY <1>1, <2>1, GovernsOwn
  <2>2. CASE ~ InFn(f)
    BY <1>1, <1>3, <2>2, GovernsPast
  <2> QED
    BY <2>1, <2>2
<1>5. Governs(u, d + 2, t2)
  <2>1. d + 1 \in Nat /\ (d + 1) + 1 = d + 2
    BY <1>1
  <2>2. ~ InFn(u[(d + 1) + 1])
    BY <1>1, <2>1
  <2>3. Governs(u, (d + 1) + 1, t2)
    BY <1>4, <2>1, <2>2, GovernsPast
  <2> QED
    BY <2>1, <2>3
<1>6. ASSUME NEW i \in 1 .. Len(u), InFn(u[i])
      PROVE  Governs(u, i - 1, u[i].own)
  <2>1. CASE i \in 1 .. d
    <3>1. i \in 1 .. Len(s) /\ u[i] = s[i] /\ i - 1 \in Nat
          /\ \A j \in 1 .. i - 1 : u[j] = s[j]
      BY <1>1, <2>1
    <3>2. Governs(s, i - 1, s[i].own)
      BY <1>6, <3>1 DEF Nesting
    <3> QED
      BY <3>1, <3>2, GovernsSame
  <2>2. CASE i = d + 1
    BY <1>1, <1>3, <1>6, <2>2
  <2>3. CASE i = d + 2
    BY <1>1, <1>6, <2>3
  <2> QED
    BY <1>1, <2>1, <2>2, <2>3
<1> QED
  BY <1>1, <1>5, <1>6 DEF Nesting, u

(* A visitor ends: a literal puts back what it has saved.                  *)
LEMMA PopNesting ==
    ASSUME NEW s, IsSeq(s), s # <<>>, NEW t, Nesting(s, t)
    PROVE  Nesting(SubSeq(s, 1, Len(s) - 1),
                   IF InFn(s[Len(s)]) THEN s[Len(s)].own ELSE t)
<1> DEFINE d == Len(s) - 1
           u == SubSeq(s, 1, d)
           t2 == IF InFn(s[Len(s)]) THEN s[Len(s)].own ELSE t
<1>1. Len(s) \in Nat \ {0} /\ d \in Nat /\ Len(s) = d + 1 /\ d \in 0 .. Len(s)
  BY EmptySeq DEF IsSeq
<1> HIDE DEF d
<1>2. Len(u) = d /\ \A i \in 1 .. d : u[i] = s[i]
  BY <1>1, PopFacts
<1>3. Governs(s, d, t2)
  <2>1. CASE InFn(s[d + 1])
    <3>1. Governs(s, (d + 1) - 1, s[d + 1].own) /\ (d + 1) - 1 = d
      BY <1>1, <2>1 DEF Nesting
    <3> QED
      BY <1>1, <2>1, <3>1
  <2>2. CASE ~ InFn(s[d + 1])
    BY <1>1, <2>2, GovernsPast DEF Nesting
  <2> QED
    BY <2>1, <2>2
<1> HIDE DEF u, t2
<1>4. Governs(u, d, t2)
  BY <1>1, <1>2, <1>3, GovernsSame
<1>5. ASSUME NEW i \in 1 .. d, InFn(u[i])
      PROVE  Governs(u, i - 1, u[i].own)
  <2>1. i \in 1 .. Len(s) /\ u[i] = s[i] /\ i - 1 \in Nat
        /\ \A j \in 1 .. i - 1 : u[j] = s[j]
    BY <1>1, <1>2
  <2>2. Governs(s, i - 1, s[i].own)
    BY <1>5, <2>1 DEF Nesting
  <2> QED
    BY <2>1, <2>2, GovernsSame
<1>6. Nesting(u, t2)
  BY <1>2, <1>4, <1>5 DEF Nesting
<1> QED
  BY <1>6 DEF u, t2, d

(* Each shape of step keeps the nesting, as long as the pass runs.         *)
LEMMA StepNesting ==
    ASSUME IInv, stk # <<>>, Step, verdict' = "run", Nesting(stk, declared)
    PROVE  Nesting(stk', declared')
<1>1. IsSeq(stk) /\ Top = stk[Len(stk)] /\ N = Ast[Top.node]
  BY DEF IInv, Sound, Top, Depth, N
<1>2. \A n, env : ~ InFn(Entry(n, env))
  BY DEF InFn, Entry, Frame
<1>3. CASE Down
  <2>1. PICK n, k, own :
           /\ n \in Node /\ k \in 0 .. Arity
           /\ Push(Frame(Top.node, k, own, Top.saved), n, scope)
    BY <1>3 DEF Down
  <2> DEFINE f == Frame(Top.node, k, own, Top.saved)
  <2>2. stk' = PushOver(stk, f, Entry(n, scope))
    BY <2>1 DEF Push, PushOver, Depth
  <2>3. ~ InFn(f) /\ ~ InFn(stk[Len(stk)])
    BY <1>1, <1>3 DEF Down, Scoped, InFn, Frame
  <2> HIDE DEF f
  <2>4. Nesting(PushOver(stk, f, Entry(n, scope)), declared)
    BY <1>1, <1>2, <2>3, PushNesting
  <2> QED
    BY <1>3, <2>2, <2>4 DEF Down
<1>4. CASE In
  <2>1. PICK n, own :
           /\ n \in Node /\ Push(Frame(Top.node, 1, own, Top.saved), n, scope')
           /\ N.kind = "FnLit" => own = declared
    BY <1>4 DEF In
  <2> DEFINE f == Frame(Top.node, 1, own, Top.saved)
  <2>2. stk' = PushOver(stk, f, Entry(n, scope'))
    BY <2>1 DEF Push, PushOver, Depth
  <2>3. ~ InFn(stk[Len(stk)])
    BY <1>1, <1>4 DEF In, InFn
  <2>4. IF InFn(f) THEN f.own = declared /\ declared' = Ret(f)
                   ELSE declared' = declared
    BY <1>1, <1>4, <2>1 DEF In, InFn, Ret, Frame
  <2> HIDE DEF f
  <2> DEFINE g == Entry(n, scope')
             t2 == declared'
  <2>5. ~ InFn(g) /\ stk' = PushOver(stk, f, g)
    BY <1>2, <2>2
  <2>6. IF InFn(f) THEN f.own = declared /\ t2 = Ret(f) ELSE t2 = declared
    BY <2>4
  <2> HIDE DEF g, t2
  <2>7. Nesting(PushOver(stk, f, g), t2)
    BY <1>1, <2>3, <2>5, <2>6, PushNesting
  <2> QED
    BY <2>5, <2>7 DEF t2
<1>5. CASE Up \/ Out
  <2>1. stk' = SubSeq(stk, 1, Len(stk) - 1)
    BY <1>5 DEF Up, Out, Depth
  <2>2. declared' = IF InFn(stk[Len(stk)]) THEN stk[Len(stk)].own ELSE declared
    BY <1>1, <1>5 DEF Up, Out, Scoped, Inside, InFn
  <2> QED
    BY <1>1, <2>1, <2>2, PopNesting
<1>6. CASE Fail
  BY <1>6 DEF Fail
<1> QED
  BY <1>3, <1>4, <1>5, <1>6 DEF Step

(* The nesting is an invariant.                                            *)
LEMMA NestingNext == IInv /\ NestingKept /\ [Next]_vars => NestingKept'
<1> SUFFICES ASSUME IInv, NestingKept, [Next]_vars PROVE NestingKept'
  OBVIOUS
<1>1. CASE Visit
  <2>1. TypeOK /\ Tables
    BY InvImplies
  <2>2. stk # <<>> /\ Step
    BY <1>1, <2>1, Shapes
  <2>3. verdict = "run" /\ verdict' # "idle"
    BY <1>1, <2>1, VisitMembers
  <2>4. verdict' = "run" => Nesting(stk', declared')
    BY <2>2, <2>3, StepNesting DEF NestingKept
  <2> QED
    BY <2>3, <2>4 DEF NestingKept
<1>2. ASSUME NEW root \in Roots, Start(root)
      PROVE  NestingKept'
  <2> DEFINE s == <<Entry(root, scope)>>
  <2>1. Len(s) = 1 /\ s[1].pc = 0 /\ stk' = s
    BY <1>2 DEF Start, Entry, Frame
  <2>2. declared' = UNKNOWN /\ verdict' = "run"
    BY <1>2 DEF Start, NestingKept
  <2> HIDE DEF s
  <2>3. \A i \in 1 .. 1 : ~ InFn(s[i])
    BY <2>1 DEF InFn
  <2>4. Nesting(s, UNKNOWN)
    BY <2>1, <2>3 DEF Nesting, Governs
  <2> QED
    BY <2>1, <2>2, <2>4 DEF NestingKept
<1>3. CASE Finished \/ UNCHANGED vars
  BY <1>3 DEF Finished, vars, NestingKept
<1> QED
  BY <1>1, <1>2, <1>3 DEF Next

(* ReturnsMatchTheirFunction: for every program, a return statement is     *)
(* compared with the declaration of the innermost function literal around  *)
(* it, however the literals are nested.                                    *)
THEOREM ReturnsMatched == Spec => []ReturnsMatchTheirFunction
<1>1. Init => NestingKept
  BY DEF Init, NestingKept
<1>2. IInv /\ NestingKept => ReturnsMatchTheirFunction
  <2> SUFFICES ASSUME IInv, verdict = "run", Nesting(stk, declared)
               PROVE  ReturnsMatchTheirFunction
    BY DEF NestingKept, ReturnsMatchTheirFunction
  <2> DEFINE Innermost(i) == /\ InFunction(i)
                             /\ \A j \in (i + 1) .. Depth : ~ InFunction(j)
             Outcome(i) == resolveTypeName(Ast[stk[i].node].ret)
             c == CHOOSE i \in 1 .. Depth : Innermost(i)
  <2>1. /\ Depth \in Nat /\ Depth = Len(stk)
        /\ \A i : InFn(stk[i]) <=> InFunction(i)
        /\ \A i : Ret(stk[i]) = Outcome(i)
    BY LenProperties DEF IInv, Sound, IsSeq, Depth, InFn, InFunction, Ret
  <2>2. CASE \E i \in 1 .. Depth : InFunction(i)
    <3>1. PICK i \in 1 .. Depth : Innermost(i) /\ declared = Outcome(i)
      BY <2>1, <2>2 DEF Nesting, Governs
    <3>2. c \in 1 .. Depth /\ Innermost(c)
      BY <3>1
    <3>3. c = i
      <4> HIDE DEF c
      <4>1. ~ (c < i) /\ ~ (i < c)
        BY <2>1, <3>1, <3>2
      <4> QED
        BY <2>1, <3>2, <4>1
    <3>4. declared = Outcome(c)
      BY <3>1, <3>3
    <3> QED
      BY <2>2, <3>4 DEF ReturnsMatchTheirFunction
  <2>3. CASE ~ \E i \in 1 .. Depth : InFunction(i)
    <3>1. declared = UNKNOWN
      BY <2>1, <2>3 DEF Nesting, Governs
    <3> QED
      BY <2>3, <3>1 DEF ReturnsMatchTheirFunction
  <2> QED
    BY <2>2, <2>3
<1> QED
  BY <1>1, <1>2, Invariance, NestingNext, PTL DEF Spec

-----------------------------------------------------------------------------
(* The pass implements ContextStack.                                       *)

(* Each shape of step is a step of the abstract stack.                     *)
LEMMA StepMaps ==
    ASSUME IInv, stk # <<>>, Step
    PROVE  \/ Beginning(stk, scope, Len(syms), stk', scope', Len(syms'))
           \/ Ending(stk, scope, Len(syms), stk', scope', Len(syms'))
           \/ GivingUp(stk, scope, Len(syms), stk', scope', Len(syms'))
<1>1. /\ IsSeq(stk) /\ Fits(Top, scope)
      /\ Depth \in Nat \ {0} /\ Depth = Len(stk) /\ Top = stk[Len(stk)]
      /\ Depth \in 1 .. Len(stk)
      /\ N = Ast[Top.node]
  <2>1. Depth \in Nat \ {0} /\ Depth \in 1 .. Depth
    BY InvImplies, TopFacts
  <2> QED
    BY <2>1 DEF IInv, Sound, Level, Depth, Top, N
<1>2. /\ Len(Saves(stk)) = Len(stk)
      /\ \A i \in 1 .. Len(stk) : Saves(stk)[i] = stk[i].saved
  BY <1>1, SavesSeq
<1>3. ASSUME NEW f, NEW n, NEW env, f.saved = Top.saved,
             stk' = Append([stk EXCEPT ![Depth] = f], Entry(n, env))
      PROVE  Saves(stk') = Append(Saves(stk), env)
  <2>1. stk' = PushOver(stk, f, Entry(n, env))
    BY <1>1, <1>3 DEF PushOver
  <2>2. Entry(n, env).saved = env
    BY DEF Entry, Frame
  <2>3. Saves(PushOver(stk, f, Entry(n, env))) = Append(Saves(stk), Entry(n, env).saved)
    BY <1>1, <1>3, SavesPushed
  <2> QED
    BY <2>1, <2>2, <2>3
<1>4. ASSUME stk' = SubSeq(stk, 1, Depth - 1), scope' = Top.saved,
             Len(syms') = Len(syms)
      PROVE  Ending(stk, scope, Len(syms), stk', scope', Len(syms'))
  <2>1. Depth - 1 \in 0 .. Len(stk)
    BY <1>1
  <2>2. Saves(stk') = SubSeq(Saves(stk), 1, Depth - 1)
    BY <1>1, <1>4, <2>1, SavesPopped
  <2>3. scope' = Saves(stk)[Depth]
    BY <1>1, <1>2, <1>4
  <2> QED
    BY <1>1, <1>4, <2>2, <2>3 DEF Ending
<1>5. CASE Down
  <2>1. PICK n, k, own :
           /\ n \in Node /\ k \in 0 .. Arity
           /\ Push(Frame(Top.node, k, own, Top.saved), n, scope)
    BY <1>5 DEF Down
  <2> DEFINE f == Frame(Top.node, k, own, Top.saved)
  <2>2. f.saved = Top.saved
    BY DEF Frame
  <2>3. stk' = Append([stk EXCEPT ![Depth] = f], Entry(n, scope))
    BY <2>1 DEF Push
  <2> HIDE DEF f
  <2>4. Saves(stk') = Append(Saves(stk), scope)
    BY <1>3, <2>2, <2>3
  <2> QED
    BY <1>5, <2>4 DEF Down, SameScopes, Beginning
<1>6. CASE In
  <2>1. PICK n, own :
           n \in Node /\ Push(Frame(Top.node, 1, own, Top.saved), n, scope')
    BY <1>6 DEF In
  <2> DEFINE f == Frame(Top.node, 1, own, Top.saved)
  <2>2. f.saved = Top.saved
    BY DEF Frame
  <2>3. stk' = Append([stk EXCEPT ![Depth] = f], Entry(n, scope'))
    BY <2>1 DEF Push
  <2> HIDE DEF f
  <2>4. Saves(stk') = Append(Saves(stk), scope')
    BY <1>3, <2>2, <2>3
  <2> QED
    BY <1>6, <2>4 DEF In, NewScope, Beginning
<1>7. CASE Up
  <2>1. scope' = Top.saved
    BY <1>1, <1>7 DEF Up, SameScopes, Inside, Fits
  <2> QED
    BY <1>4, <1>7, <2>1 DEF Up, SameScopes
<1>8. CASE Out
  <2>1. scope' = Top.saved
    BY <1>1, <1>8 DEF Out, Fits
  <2> QED
    BY <1>4, <1>8, <2>1 DEF Out
<1>9. CASE Fail
  <2>1. Saves(stk') = <<>>
    BY <1>9 DEF Fail, Saves
  <2>2. Inside(Top) => Parent(scope) = Saves(stk)[Depth]
    BY <1>1, <1>2 DEF Fits
  <2> QED
    BY <1>1, <1>9, <2>1, <2>2 DEF Fail, GivingUp
<1> QED
  BY <1>5, <1>6, <1>7, <1>8, <1>9 DEF Step

(* ContextStack's actions, in terms of Saves.                              *)
LEMMA ContextsNext ==
    ASSUME \/ Beginning(stk, scope, Len(syms), stk', scope', Len(syms'))
           \/ Ending(stk, scope, Len(syms), stk', scope', Len(syms'))
           \/ GivingUp(stk, scope, Len(syms), stk', scope', Len(syms')),
           IsSeq(stk)
    PROVE  Contexts!Next
<1>1. /\ Saves(stk) = [i \in 1 .. Depth |-> stk[i].saved]
      /\ Saves(stk') = [i \in 1 .. Depth |-> stk[i].saved]'
      /\ Len(Saves(stk)) = Len(stk)
  BY SavesSeq DEF Saves, Depth
<1>2. CASE Beginning(stk, scope, Len(syms), stk', scope', Len(syms'))
  BY <1>1, <1>2 DEF Beginning, Contexts!Next, Contexts!Begin, Contexts!BeginHere,
     Contexts!BeginInBlock, Contexts!BeginInFunction
<1>3. CASE Ending(stk, scope, Len(syms), stk', scope', Len(syms'))
  BY <1>1, <1>3 DEF Ending, Contexts!Next, Contexts!End
<1>4. CASE GivingUp(stk, scope, Len(syms), stk', scope', Len(syms'))
  BY <1>1, <1>4 DEF GivingUp, Contexts!Next, Contexts!GiveUp
<1> QED
  BY <1>2, <1>3, <1>4

(* ImplementsContextStack: the pass leaves every scope it enters, functions*)
(* nested in blocks and blocks in functions, as ContextStack states.       *)
THEOREM Refinement == Spec => ImplementsContextStack
<1> DEFINE AbsVars == <<scope, [i \in 1 .. Depth |-> stk[i].saved], Len(syms)>>
<1>1. Init => Contexts!Init
  <2> SUFFICES ASSUME Init PROVE Contexts!Init
    OBVIOUS
  <2>1. Len(<<>>) = 0 /\ Len(<<NoBindings>>) = 1
    OBVIOUS
  <2>2. [i \in 1 .. Depth |-> stk[i].saved] = <<>>
    BY <2>1 DEF Init, Depth
  <2> QED
    BY <2>1, <2>2 DEF Init, GlobalEnv, Global, Contexts!Init
<1>2. IInv /\ NestingKept /\ [Next]_vars => [Contexts!Next]_AbsVars
  <2> SUFFICES ASSUME IInv, NestingKept, [Next]_vars
               PROVE  Contexts!Next \/ UNCHANGED AbsVars
    OBVIOUS
  <2>1. IsSeq(stk)
    BY DEF IInv, Sound
  <2>2. CASE Visit
    <3>1. stk # <<>> /\ Step
      BY <2>2, InvImplies, Shapes
    <3> QED
      BY <2>1, <3>1, StepMaps, ContextsNext
  <2>3. ASSUME NEW root \in Roots, Start(root)
        PROVE  Contexts!Next
    <3>1. Entry(root, scope).saved = scope
      BY DEF Entry, Frame
    <3>2. /\ Len(<<>>) = 0 /\ Len(<<Entry(root, scope)>>) = 1
          /\ <<Entry(root, scope)>>[1] = Entry(root, scope)
      OBVIOUS
    <3>3. Saves(<<>>) = <<>> /\ Saves(<<Entry(root, scope)>>) = <<scope>>
      BY <3>1, <3>2 DEF Saves
    <3>4. Append(<<>>, scope) = <<scope>> /\ stk = <<>>
      BY <2>3 DEF Start, NestingKept
    <3>5. Beginning(stk, scope, Len(syms), stk', scope', Len(syms'))
      BY <2>3, <3>3, <3>4 DEF Start, Beginning
    <3> QED
      BY <2>1, <3>5, ContextsNext
  <2>4. CASE Finished \/ UNCHANGED vars
    BY <2>4 DEF Finished, vars, Depth
  <2> QED
    BY <2>2, <2>3, <2>4 DEF Next
<1>3. Init => NestingKept
  BY DEF Init, NestingKept
<1> QED
  BY <1>1, <1>2, <1>3, Invariance, NestingNext,
     PTL DEF Spec, ImplementsContextStack, Contexts!Spec

-----------------------------------------------------------------------------
(* The names in scope while a tree is walked, from its shape alone: what   *)
(* the children of a node are, and what is bound in front of the first and *)
(* behind the node if so much is in front of it, or behind its last child. *)

Kid(n, k) == IF Ast[n].kind = "FnLit" THEN Ast[n].body ELSE Ast[n].kids[k]

Count(n) == IF Ast[n].kind \in {"Lit", "Ident"} THEN 0
            ELSE IF Ast[n].kind = "FnLit" THEN 1 ELSE Len(Ast[n].kids)

Params(n) == {Ast[n].params[i].name : i \in DOMAIN Ast[n].params}

Opened(n, before) ==
    IF Ast[n].kind = "FnLit" THEN before \union Params(n) ELSE before

Closed(n, before, last) ==
    IF Scoped(Ast[n].kind) THEN before
    ELSE IF Ast[n].kind = "Let" THEN last \union {Ast[n].name} ELSE last

(* What the pass asks of a node and of the names in front of it.           *)
Heeded(n, before) ==
    /\ Ast[n].kind \in {"Ident", "Assign"} => Ast[n].name \in before
    /\ Ast[n].kind = "Let" => Ast[n].name \notin TypeNames
    /\ Ast[n].kind = "FnLit" => KnownTypes(Ast[n])

(* A record L of a walk has the nodes walked, each with the names in front *)
(* of it and the names behind it, s has the names between the first k      *)
(* children of a node, and every line of a lawful record rests on others.  *)
Chain(L, n, k, s) == \A j \in 1 .. k : <<Kid(n, j), s[j - 1], s[j]>> \in L

Rests(L, n, before, after) ==
    /\ n \in Node
    /\ Heeded(n, before)
    /\ \E s : /\ s[0] = Opened(n, before)
              /\ Chain(L, n, Count(n), s)
              /\ after = Closed(n, before, s[Count(n)])

Lawful(L) == \A n, b, a : <<n, b, a>> \in L => Rests(L, n, b, a)

(* The names that can be resolved in an environment.                       *)
Names(H, env) == UNION {DOMAIN H[env[i]] : i \in 1 .. Len(env)}

(* An environment that a longer one begins with, and one in which no scope *)
(* comes twice.                                                            *)
Outer(e, c) == Len(e) < Len(c) /\ \A i \in 1 .. Len(e) : c[i] = e[i]

Distinct(c) == \A i, j \in 1 .. Len(c) : c[i] = c[j] => i = j

-----------------------------------------------------------------------------
(* A record that has more lines is as lawful.                              *)
LEMMA MoreChained ==
    ASSUME NEW L, NEW L2, L \subseteq L2, NEW n, NEW k, NEW s, Chain(L, n, k, s)
    PROVE  Chain(L2, n, k, s)
BY DEF Chain

(* A line that rests on a lawful record can be added to it.                *)
LEMMA LineAdded ==
    ASSUME NEW L, Lawful(L), NEW n, NEW b, NEW a, Rests(L, n, b, a)
    PROVE  Lawful(L \union {<<n, b, a>>})
<1> DEFINE L2 == L \union {<<n, b, a>>}
<1>1. L \subseteq L2
  OBVIOUS
<1>2. ASSUME NEW m, NEW d, NEW e, Rests(L, m, d, e)
      PROVE  Rests(L2, m, d, e)
  BY <1>1, <1>2, MoreChained DEF Rests
<1>3. ASSUME NEW m, NEW d, NEW e, <<m, d, e>> \in L2
      PROVE  Rests(L, m, d, e)
  BY <1>3 DEF Lawful
<1> HIDE DEF L2
<1>4. Lawful(L2)
  BY <1>2, <1>3 DEF Lawful
<1> QED
  BY <1>4 DEF L2

(* What is asked of fewer names is asked of more.                          *)
LEMMA HeededMore ==
    ASSUME NEW n, NEW b, NEW c, b \subseteq c, Heeded(n, b)
    PROVE  Heeded(n, c)
BY DEF Heeded

(* A name that is bound is one of the names.                               *)
LEMMA BoundIsNamed ==
    ASSUME NEW H, NEW e, NEW x, IsBound(H, e, x)
    PROVE  x \in Names(H, e)
BY DEF IsBound, IsHolder, Declares, Names

(* The names of an environment's scopes are all that counts.               *)
LEMMA SameNames ==
    ASSUME NEW H, NEW H2, NEW e, \A i \in 1 .. Len(e) : DOMAIN H2[e[i]] = DOMAIN H[e[i]]
    PROVE  Names(H2, e) = Names(H, e)
BY DEF Names

(* A new scope: the names of the old ones stay, its own come to those of   *)
(* the environment it was made in.                                         *)
LEMMA NamesExtended ==
    ASSUME NEW H, IsSeq(H), NEW e, EnvIn(e, Len(H)), NEW b
    PROVE  /\ Names(Append(H, b), e) = Names(H, e)
           /\ Names(Append(H, b), Append(e, Len(H) + 1)) = Names(H, e) \union DOMAIN b
           /\ Outer(e, Append(e, Len(H) + 1))
           /\ Distinct(e) => Distinct(Append(e, Len(H) + 1))
           /\ \A d : Outer(d, e) => Outer(d, Append(e, Len(H) + 1))
<1> DEFINE G == Append(H, b)
           c == Append(e, Len(H) + 1)
<1>1. /\ Len(H) \in Nat /\ Len(G) = Len(H) + 1
      /\ \A i \in 1 .. Len(H) : G[i] = H[i]
      /\ G[Len(H) + 1] = b
  BY AppendFacts
<1>2. /\ Len(c) = Len(e) + 1
      /\ \A i \in 1 .. Len(e) : c[i] = e[i]
      /\ c[Len(e) + 1] = Len(H) + 1
  BY <1>1, EnvGrows
<1>3. Len(e) \in Nat /\ \A i \in 1 .. Len(e) : e[i] \in 1 .. Len(H)
  BY LenProperties, ElementOfSeq DEF EnvIn
<1> HIDE DEF G, c
<1>4. Names(G, e) = Names(H, e)
  BY <1>1, <1>3, SameNames
<1>5. Names(G, c) = Names(H, e) \union DOMAIN b
  <2>1. \A i \in 1 .. Len(e) : i \in 1 .. Len(c) /\ G[c[i]] = H[e[i]]
    BY <1>1, <1>2, <1>3
  <2>2. Len(e) + 1 \in 1 .. Len(c) /\ G[c[Len(e) + 1]] = b
    BY <1>1, <1>2, <1>3
  <2>3. \A i \in 1 .. Len(c) : i \in 1 .. Len(e) \/ i = Len(e) + 1
    BY <1>2, <1>3
  <2>4. \A x : x \in Names(G, c) <=> x \in Names(H, e) \/ x \in DOMAIN b
    BY <2>1, <2>2, <2>3 DEF Names
  <2> QED
    BY <2>4
<1>6. Outer(e, c)
  BY <1>2, <1>3 DEF Outer
<1>7. ASSUME Distinct(e) PROVE Distinct(c)
  <2>1. \A i \in 1 .. Len(c) : i \in 1 .. Len(e) \/ i = Len(e) + 1
    BY <1>2, <1>3
  <2>2. \A i \in 1 .. Len(e) : c[i] # c[Len(e) + 1]
    BY <1>1, <1>2, <1>3
  <2> QED
    BY <1>2, <1>3, <1>7, <2>1, <2>2 DEF Distinct
<1>8. ASSUME NEW d, Outer(d, e) PROVE Outer(d, c)
  BY <1>2, <1>3, <1>8 DEF Outer
<1> QED
  BY <1>4, <1>5, <1>6, <1>7, <1>8 DEF G, c

(* One more name in some scope of an environment.                          *)
LEMMA OneMoreName ==
    ASSUME NEW G, NEW H, NEW e, NEW x, NEW k \in 1 .. Len(e), x \in DOMAIN G[e[k]],
           \A i \in 1 .. Len(e) : /\ DOMAIN G[e[i]] \subseteq DOMAIN H[e[i]] \union {x}
                                 /\ DOMAIN H[e[i]] \subseteq DOMAIN G[e[i]]
    PROVE  Names(G, e) = Names(H, e) \union {x}
<1>1. ASSUME NEW y, y \in Names(G, e) PROVE y \in Names(H, e) \union {x}
  <2>1. PICK i \in 1 .. Len(e) : y \in DOMAIN G[e[i]]
    BY <1>1 DEF Names
  <2> QED
    BY <2>1 DEF Names
<1>2. ASSUME NEW y, y \in Names(H, e) PROVE y \in Names(G, e)
  <2>1. PICK i \in 1 .. Len(e) : y \in DOMAIN H[e[i]]
    BY <1>2 DEF Names
  <2> QED
    BY <2>1 DEF Names
<1>3. x \in Names(G, e)
  BY DEF Names
<1> QED
  BY <1>1, <1>2, <1>3

(* A definition adds its name, and to the environment's last scope only.   *)
LEMMA NamesDefined ==
    ASSUME NEW H, IsSeq(H), NEW e, EnvIn(e, Len(H)), NEW x, NEW v
    PROVE  /\ Names(Define(H, e, x, v), e) = Names(H, e) \union {x}
           /\ \A d : Outer(d, e) /\ Distinct(e) /\ EnvIn(d, Len(H))
                         => Names(Define(H, e, x, v), d) = Names(H, d)
<1> DEFINE G == Define(H, e, x, v)
           l == e[Len(e)]
<1>1. /\ Len(e) \in Nat /\ Len(e) \in 1 .. Len(e)
      /\ \A i \in 1 .. Len(e) : e[i] \in 1 .. Len(H)
  BY LenProperties, ElementOfSeq DEF EnvIn
<1>2. /\ \A i \in 1 .. Len(H) : i # l => DOMAIN G[i] = DOMAIN H[i]
      /\ DOMAIN G[l] = DOMAIN H[l] \union {x}
  <2>1. l \in 1 .. Len(H) /\ DOMAIN H = 1 .. Len(H)
    BY <1>1, LenProperties DEF IsSeq
  <2>2. /\ \A i \in 1 .. Len(H) : i # l => G[i] = H[i]
        /\ G[l] = Bind(H[l], x, v)
    BY <2>1 DEF Define
  <2>3. DOMAIN Bind(H[l], x, v) = DOMAIN H[l] \union {x}
    BY DEF Bind
  <2> HIDE DEF G, l
  <2> QED
    BY <2>1, <2>2, <2>3
<1> HIDE DEF G
<1>3. Names(G, e) = Names(H, e) \union {x}
  <2>1. ASSUME NEW i \in 1 .. Len(e)
        PROVE  DOMAIN G[e[i]] = IF e[i] = l THEN DOMAIN H[e[i]] \union {x} ELSE DOMAIN H[e[i]]
    BY <1>1, <1>2
  <2>2. x \in DOMAIN G[e[Len(e)]]
    BY <1>1, <2>1
  <2>3. \A i \in 1 .. Len(e) : /\ DOMAIN G[e[i]] \subseteq DOMAIN H[e[i]] \union {x}
                              /\ DOMAIN H[e[i]] \subseteq DOMAIN G[e[i]]
    BY <2>1
  <2> QED
    BY <1>1, <2>2, <2>3, OneMoreName
<1>4. ASSUME NEW d, Outer(d, e), Distinct(e), EnvIn(d, Len(H))
      PROVE  Names(G, d) = Names(H, d)
  <2>1. /\ Len(d) \in Nat /\ Len(d) < Len(e)
        /\ \A i \in 1 .. Len(d) : d[i] \in 1 .. Len(H) /\ d[i] = e[i]
    BY <1>4, LenProperties, ElementOfSeq DEF EnvIn, Outer
  <2>2. ASSUME NEW i \in 1 .. Len(d) PROVE d[i] # l
    <3>1. i \in 1 .. Len(e) /\ i # Len(e) /\ d[i] = e[i]
      BY <1>1, <2>1
    <3> QED
      BY <1>1, <1>4, <3>1 DEF Distinct
  <2>3. \A i \in 1 .. Len(d) : DOMAIN G[d[i]] = DOMAIN H[d[i]]
    BY <1>2, <2>1, <2>2
  <2> QED
    BY <2>3, SameNames
<1> QED
  BY <1>3, <1>4 DEF G

-----------------------------------------------------------------------------
(* A walk in progress: the visitors of stack s stand below one another, B  *)
(* has the names in front of each one's node, and S those between its      *)
(* children.  The names of all nodes left are in the record L.             *)

At(L, f, b, s, k) ==
    /\ f.pc \in 0 .. Count(f.node)
    /\ s[0] = Opened(f.node, b)
    /\ Chain(L, f.node, k, s)
    /\ f.pc # 0 => Heeded(f.node, b)

Hangs(f, s, g, b) == f.pc # 0 /\ g.node = Kid(f.node, f.pc) /\ b = s[f.pc - 1]

Walk(L, s, B, S) ==
    /\ IsSeq(s)
    /\ \A i \in 1 .. Len(s) :
          /\ s[i].node \in Node
          /\ At(L, s[i], B[i], S[i], IF i = Len(s) THEN s[i].pc ELSE s[i].pc - 1)
    /\ \A i \in 1 .. Len(s) - 1 : Hangs(s[i], S[i], s[i + 1], B[i + 1])

(* The scopes outside of a visitor's own have no names but those in front  *)
(* of its node, and all that runs inside of it runs inside of its scope.   *)
Covers(f, b, s, i, c, H) ==
    /\ Names(H, f.saved) \subseteq b
    /\ Outer(f.saved, c)
    /\ \A j \in i + 1 .. Len(s) : Outer(f.saved, s[j].saved)

Covered(s, B, c, H) ==
    \A i \in 1 .. Len(s) : Inside(s[i]) => Covers(s[i], B[i], s, i, c, H)

Put(F, k, x) == [i \in Nat |-> IF i = k THEN x ELSE F[i]]

(* The children of a node are nodes, and there are so many of them.        *)
LEMMA Kids ==
    ASSUME NEW n \in Node
    PROVE  Count(n) \in Nat /\ \A k \in 1 .. Count(n) : Kid(n, k) \in Node
<1>1. /\ Ast[n].kids \in Seq(Node)
      /\ Ast[n].kind = "FnLit" => Ast[n].body \in Node
  BY SyntaxAssumption DEF IsFunctionLiteral
<1>2. Len(Ast[n].kids) \in Nat /\ \A k \in 1 .. Len(Ast[n].kids) : Ast[n].kids[k] \in Node
  BY <1>1, LenProperties, ElementOfSeq
<1> QED
  BY <1>1, <1>2 DEF Count, Kid

(* The visitor on top visits its next child.                               *)
LEMMA WalkPushed ==
    ASSUME NEW L, NEW s, NEW B, NEW S, Walk(L, s, B, S), s # <<>>,
           NEW t, t = s[Len(s)], NEW f, f.node = t.node, f.pc = t.pc + 1,
           f.pc <= Count(t.node), Heeded(t.node, B[Len(s)]),
           NEW g, g.node = Kid(f.node, f.pc), g.pc = 0,
           NEW b, b = S[Len(s)][t.pc], NEW r, r[0] = Opened(g.node, b)
    PROVE  Walk(L, PushOver(s, f, g), Put(B, Len(s) + 1, b), Put(S, Len(s) + 1, r))
<1> DEFINE m  == Len(s)
           u  == PushOver(s, f, g)
           B2 == Put(B, m + 1, b)
           S2 == Put(S, m + 1, r)
<1>1. /\ IsSeq(u) /\ m \in Nat \ {0} /\ Len(u) = m + 1
      /\ \A i \in 1 .. m - 1 : u[i] = s[i]
      /\ u[m] = f /\ u[m + 1] = g
  <2>1. IsSeq(s)
    BY DEF Walk
  <2>2. IsSeq(u)
    BY <2>1, PushFacts, Zenon
  <2> QED
    BY <2>1, <2>2, PushFacts
<1>2. r[0] = Opened(g.node, b) /\ b = S[m][t.pc]
  OBVIOUS
<1>3. /\ \A i \in 1 .. m : B2[i] = B[i] /\ S2[i] = S[i]
      /\ B2[m + 1] = b /\ S2[m + 1] = r
  BY <1>1 DEF Put
<1> HIDE DEF u, B2, S2
<1>4. /\ t.node \in Node /\ At(L, t, B[m], S[m], t.pc)
      /\ Count(t.node) \in Nat /\ t.pc \in 0 .. Count(t.node)
      /\ f.pc \in 1 .. Count(t.node) /\ g.node \in Node /\ Count(g.node) \in Nat
  <2>1. t.node \in Node /\ At(L, t, B[m], S[m], t.pc)
    BY <1>1 DEF Walk
  <2>2. Count(t.node) \in Nat
    BY <2>1, Kids
  <2>3. t.pc \in 0 .. Count(t.node)
    BY <2>1 DEF At
  <2>4. f.pc \in 1 .. Count(t.node)
    BY <2>2, <2>3
  <2>5. g.node \in Node
    BY <2>1, <2>4, Kids
  <2> QED
    BY <2>1, <2>2, <2>3, <2>4, <2>5, Kids
<1>5. At(L, f, B[m], S[m], f.pc - 1)
  <2>1. f.pc - 1 = t.pc
    BY <1>4
  <2> QED
    BY <1>4, <2>1 DEF At
<1>6. At(L, g, b, r, 0)
  <2>1. Chain(L, g.node, 0, r)
    BY DEF Chain
  <2> QED
    BY <1>2, <1>4, <2>1 DEF At
<1>7. Hangs(f, S[m], g, b)
  <2>1. f.pc - 1 = t.pc
    BY <1>4
  <2> QED
    BY <1>2, <1>4, <2>1 DEF Hangs
<1>8. ASSUME NEW i \in 1 .. Len(u)
      PROVE  /\ u[i].node \in Node
             /\ At(L, u[i], B2[i], S2[i], IF i = Len(u) THEN u[i].pc ELSE u[i].pc - 1)
  <2>1. CASE i \in 1 .. m - 1
    <3>1. i \in 1 .. m /\ i # m /\ i # Len(u)
      BY <1>1, <2>1
    <3>2. s[i].node \in Node /\ At(L, s[i], B[i], S[i], s[i].pc - 1)
      BY <3>1 DEF Walk
    <3> QED
      BY <1>1, <1>3, <2>1, <3>1, <3>2
  <2>2. CASE i = m
    <3>1. i # Len(u) /\ i \in 1 .. m
      BY <1>1, <2>2
    <3> QED
      BY <1>1, <1>3, <1>4, <1>5, <2>2, <3>1
  <2>3. CASE i = m + 1
    BY <1>1, <1>3, <1>4, <1>6, <2>3
  <2> QED
    BY <1>1, <2>1, <2>2, <2>3
<1>9. ASSUME NEW i \in 1 .. Len(u) - 1
      PROVE  Hangs(u[i], S2[i], u[i + 1], B2[i + 1])
  <2>1. CASE i \in 1 .. m - 1
    <3>1. Hangs(s[i], S[i], s[i + 1], B[i + 1]) /\ i \in 1 .. m /\ i + 1 \in 1 .. m
      BY <1>1, <2>1 DEF Walk
    <3>2. CASE i + 1 = m
      BY <1>1, <1>3, <2>1, <3>1, <3>2 DEF Hangs
    <3>3. CASE i + 1 # m
      <4>1. i + 1 \in 1 .. m - 1
        BY <1>1, <2>1, <3>3
      <4> QED
        BY <1>1, <1>3, <2>1, <3>1, <4>1
    <3> QED
      BY <3>2, <3>3
  <2>2. CASE i = m
    BY <1>1, <1>3, <1>7, <2>2
  <2> QED
    BY <1>1, <2>1, <2>2
<1>10. Walk(L, u, B2, S2)
  BY <1>1, <1>8, <1>9 DEF Walk
<1> QED
  BY <1>10 DEF u, B2, S2, m

(* The visitor on top, t, has visited its last child: its line is added.   *)
Pops(L, s, B, S, t, a, L2, d, u, S2) ==
    /\ Lawful(L) /\ Walk(L, s, B, S) /\ s # <<>>
    /\ t = s[Len(s)] /\ t.pc = Count(t.node) /\ Heeded(t.node, B[Len(s)])
    /\ a = Closed(t.node, B[Len(s)], S[Len(s)][t.pc])
    /\ L2 = L \union {<<t.node, B[Len(s)], a>>}
    /\ d = Len(s) - 1 /\ u = SubSeq(s, 1, d)
    /\ S2 = Put(S, d, Put(S[d], s[d].pc, a))

(* The walk without the visitor on top, whose line the record now has.     *)
LEMMA WalkPopped ==
    ASSUME NEW L, NEW s, NEW B, NEW S, NEW t, NEW a, NEW L2, NEW d, NEW u, NEW S2,
           Pops(L, s, B, S, t, a, L2, d, u, S2)
    PROVE  /\ Lawful(L2)
           /\ Walk(L2, u, B, S2)
<1> DEFINE m == d + 1
<1>0. /\ Lawful(L) /\ Walk(L, s, B, S) /\ s # <<>>
      /\ t = s[Len(s)] /\ t.pc = Count(t.node) /\ Heeded(t.node, B[Len(s)])
      /\ a = Closed(t.node, B[Len(s)], S[Len(s)][t.pc])
      /\ L2 = L \union {<<t.node, B[Len(s)], a>>}
      /\ d = Len(s) - 1 /\ u = SubSeq(s, 1, d)
      /\ S2 = Put(S, d, Put(S[d], s[d].pc, a))
  BY DEF Pops
<1>1. /\ IsSeq(s) /\ Len(s) \in Nat \ {0} /\ d \in Nat /\ m = Len(s)
      /\ IsSeq(u) /\ Len(u) = d /\ \A i \in 1 .. d : u[i] = s[i]
  <2>1. IsSeq(s) /\ Len(s) \in Nat \ {0}
    BY <1>0, EmptySeq DEF Walk, IsSeq
  <2>2. d \in 0 .. Len(s) /\ d \in Nat /\ m = Len(s)
    BY <1>0, <2>1
  <2> QED
    BY <1>0, <2>1, <2>2, PopFacts
<1>2. t.node \in Node /\ At(L, t, B[m], S[m], t.pc)
  BY <1>0, <1>1 DEF Walk
<1>3. Rests(L, t.node, B[m], a)
  <2>1. S[m][0] = Opened(t.node, B[m]) /\ Chain(L, t.node, Count(t.node), S[m])
    BY <1>0, <1>2 DEF At
  <2>2. Heeded(t.node, B[m]) /\ a = Closed(t.node, B[m], S[m][Count(t.node)])
    BY <1>0, <1>1
  <2> QED
    BY <1>2, <2>1, <2>2 DEF Rests
<1>4. Lawful(L2) /\ L \subseteq L2 /\ <<t.node, B[m], a>> \in L2
  BY <1>0, <1>1, <1>3, LineAdded
<1>5. \A i \in 1 .. d : /\ s[i].node \in Node
                        /\ At(L, s[i], B[i], S[i], s[i].pc - 1)
                        /\ s[i].pc \in Nat
                        /\ Hangs(s[i], S[i], s[i + 1], B[i + 1])
  <2> SUFFICES ASSUME NEW i \in 1 .. d
               PROVE  /\ s[i].node \in Node
                      /\ At(L, s[i], B[i], S[i], s[i].pc - 1)
                      /\ s[i].pc \in Nat
                      /\ Hangs(s[i], S[i], s[i + 1], B[i + 1])
    OBVIOUS
  <2>1. i \in 1 .. Len(s) /\ i # Len(s) /\ i \in 1 .. Len(s) - 1
    BY <1>1
  <2>2. /\ s[i].node \in Node
        /\ At(L, s[i], B[i], S[i], s[i].pc - 1)
        /\ Hangs(s[i], S[i], s[i + 1], B[i + 1])
    BY <1>0, <2>1 DEF Walk
  <2>3. s[i].pc \in Nat
    BY <2>2, Kids DEF At
  <2> QED
    BY <2>2, <2>3
<1>6. /\ \A i \in 1 .. d - 1 : S2[i] = S[i]
      /\ d # 0 => \A j \in Nat : S2[d][j] = IF j = s[d].pc THEN a ELSE S[d][j]
  <2> DEFINE r == Put(S[d], s[d].pc, a)
  <2>1. \A j \in Nat : r[j] = IF j = s[d].pc THEN a ELSE S[d][j]
    BY DEF Put
  <2> HIDE DEF r
  <2>2. \A i \in Nat : S2[i] = IF i = d THEN r ELSE S[i]
    BY <1>0 DEF Put, r
  <2>3. \A i \in 1 .. d - 1 : i \in Nat /\ i # d
    BY <1>1
  <2>4. \A i \in 1 .. d - 1 : S2[i] = S[i]
    BY ONLY <2>2, <2>3
  <2>5. d \in Nat
    BY <1>1
  <2>6. S2[d] = r
    BY ONLY <2>2, <2>5
  <2> QED
    BY ONLY <2>1, <2>4, <2>6
<1>7. ASSUME d # 0
      PROVE  /\ At(L2, s[d], B[d], S2[d], s[d].pc)
             /\ S2[d][s[d].pc] = a
  <2> DEFINE k == s[d].pc
             n == s[d].node
  <2>1. /\ d \in 1 .. d /\ n \in Node /\ At(L, s[d], B[d], S[d], k - 1)
        /\ k \in Nat /\ Hangs(s[d], S[d], s[d + 1], B[d + 1])
    BY <1>1, <1>5, <1>7
  <2>2. /\ k \in Nat \ {0} /\ t.node = Kid(n, k) /\ B[m] = S[d][k - 1] /\ k - 1 \in Nat
    BY <1>0, <1>1, <2>1 DEF Hangs
  <2> HIDE DEF k, n
  <2>3. \A j \in Nat : S2[d][j] = IF j = k THEN a ELSE S[d][j]
    BY <1>6, <1>7 DEF k
  <2>4. /\ k \in 0 .. Count(n) /\ S[d][0] = Opened(n, B[d])
        /\ Chain(L, n, k - 1, S[d]) /\ Heeded(n, B[d])
    BY <2>1, <2>2 DEF At, k, n
  <2>5. S2[d][0] = Opened(n, B[d]) /\ S2[d][k] = a /\ S2[d][k - 1] = B[m]
    BY <2>2, <2>3, <2>4
  <2>6. ASSUME NEW j \in 1 .. k
        PROVE  <<Kid(n, j), S2[d][j - 1], S2[d][j]>> \in L2
    <3>1. CASE j = k
      BY <1>4, <2>2, <2>5, <3>1
    <3>2. CASE j # k
      <4>1. j \in 1 .. k - 1 /\ j - 1 # k /\ j - 1 \in Nat /\ j \in Nat
        BY <2>2, <3>2
      <4>2. S2[d][j] = S[d][j] /\ S2[d][j - 1] = S[d][j - 1]
        BY <2>3, <3>2, <4>1
      <4>3. <<Kid(n, j), S[d][j - 1], S[d][j]>> \in L
        BY <2>4, <4>1 DEF Chain
      <4> QED
        BY <1>4, <4>2, <4>3
    <3> QED
      BY <3>1, <3>2
  <2>7. Chain(L2, n, k, S2[d])
    BY <2>6 DEF Chain
  <2> QED
    BY <2>4, <2>5, <2>7 DEF At, k, n
<1>8. ASSUME NEW i \in 1 .. Len(u)
      PROVE  /\ u[i].node \in Node
             /\ At(L2, u[i], B[i], S2[i], IF i = Len(u) THEN u[i].pc ELSE u[i].pc - 1)
  <2>1. i \in 1 .. d /\ u[i] = s[i] /\ s[i].node \in Node
    BY <1>1, <1>5
  <2>2. CASE i = d
    BY <1>1, <1>7, <2>1, <2>2
  <2>3. CASE i # d
    <3>1. i \in 1 .. d - 1 /\ At(L, s[i], B[i], S[i], s[i].pc - 1)
      BY <1>1, <1>5, <2>1, <2>3
    <3>2. At(L2, s[i], B[i], S2[i], s[i].pc - 1)
      BY <1>4, <1>6, <3>1, MoreChained DEF At
    <3> QED
      BY <1>1, <2>1, <2>3, <3>2
  <2> QED
    BY <2>2, <2>3
<1>9. ASSUME NEW i \in 1 .. Len(u) - 1
      PROVE  Hangs(u[i], S2[i], u[i + 1], B[i + 1])
  <2>1. i \in 1 .. d - 1 /\ i \in 1 .. d /\ i + 1 \in 1 .. d
    BY <1>1
  <2> QED
    BY <1>1, <1>5, <1>6, <2>1
<1>10. Walk(L2, u, B, S2)
  BY <1>1, <1>8, <1>9 DEF Walk
<1> QED
  BY <1>4, <1>7, <1>10

(* A visitor is added, in an environment all scopes in use are outside of. *)
LEMMA CoveredPushed ==
    ASSUME NEW s, IsSeq(s), s # <<>>, NEW B, NEW c, NEW H, Covered(s, B, c, H),
           NEW t, t = s[Len(s)], NEW f, f.saved = t.saved,
           NEW c2, NEW g, g.saved = c2, ~ Inside(g),
           NEW B2, \A i \in 1 .. Len(s) : B2[i] = B[i],
           NEW H2,
           \A i \in 1 .. Len(s) - 1 : Inside(s[i]) =>
               /\ Names(H2, s[i].saved) \subseteq B[i]
               /\ Outer(s[i].saved, c2),
           Inside(f) => Names(H2, f.saved) \subseteq B[Len(s)] /\ Outer(f.saved, c2)
    PROVE  Covered(PushOver(s, f, g), B2, c2, H2)
<1> DEFINE m == Len(s)
           u == PushOver(s, f, g)
<1>1. /\ m \in Nat \ {0} /\ Len(u) = m + 1
      /\ \A i \in 1 .. m - 1 : u[i] = s[i]
      /\ u[m] = f /\ u[m + 1] = g
  BY PushFacts
<1> HIDE DEF u
<1>2. ASSUME NEW i \in 1 .. Len(u), Inside(u[i])
      PROVE  Covers(u[i], B2[i], u, i, c2, H2)
  <2>1. CASE i \in 1 .. m - 1
    <3>1. i \in 1 .. m /\ Inside(s[i]) /\ u[i] = s[i] /\ B2[i] = B[i]
      BY <1>1, <1>2, <2>1
    <3>2. Covers(s[i], B[i], s, i, c, H)
      BY <3>1 DEF Covered
    <3>3. ASSUME NEW j \in i + 1 .. Len(u) PROVE Outer(s[i].saved, u[j].saved)
      <4>1. CASE j \in i + 1 .. m - 1
        <5>1. j \in i + 1 .. m /\ u[j] = s[j]
          BY <1>1, <2>1, <4>1
        <5> QED
          BY <3>2, <5>1 DEF Covers
      <4>2. CASE j = m
        <5>1. j \in i + 1 .. m
          BY <1>1, <2>1, <4>2
        <5>2. u[j] = f /\ s[j] = t
          BY <1>1, <4>2
        <5> QED
          BY <3>2, <5>1, <5>2 DEF Covers
      <4>3. CASE j = m + 1
        BY <1>1, <2>1, <3>1, <4>3
      <4>4. j \in i + 1 .. m - 1 \/ j = m \/ j = m + 1
        <5>1. Len(u) \in Nat /\ Len(u) = m + 1 /\ m \in Nat /\ i \in Nat
          BY <1>1, <2>1
        <5> HIDE DEF m
        <5> QED
          BY <5>1
      <4> QED
        BY <4>1, <4>2, <4>3, <4>4
    <3>4. Names(H2, s[i].saved) \subseteq B[i] /\ Outer(s[i].saved, c2)
      BY <2>1, <3>1
    <3> QED
      BY <3>1, <3>3, <3>4 DEF Covers
  <2>2. CASE i = m
    <3>1. /\ u[i] = f /\ B2[i] = B[m] /\ Inside(f)
          /\ \A j \in i + 1 .. Len(u) : u[j].saved = c2
      BY <1>1, <1>2, <2>2
    <3> QED
      BY <3>1 DEF Covers
  <2>3. CASE i = m + 1
    BY <1>1, <1>2, <2>3
  <2> QED
    BY <1>1, <2>1, <2>2, <2>3
<1>3. Covered(u, B2, c2, H2)
  BY <1>2 DEF Covered
<1> QED
  BY <1>3 DEF u

(* The visitor on top is gone, and its environment is in force again.      *)
LEMMA CoveredPopped ==
    ASSUME NEW s, IsSeq(s), s # <<>>, NEW B, NEW c, NEW H, Covered(s, B, c, H),
           NEW d, d = Len(s) - 1, NEW c2, c2 = s[Len(s)].saved,
           NEW H2,
           \A i \in 1 .. d : Inside(s[i]) => Names(H2, s[i].saved) \subseteq B[i]
    PROVE  Covered(SubSeq(s, 1, d), B, c2, H2)
<1> DEFINE u == SubSeq(s, 1, d)
<1>1. /\ Len(s) \in Nat \ {0} /\ d \in 0 .. Len(s) /\ d \in Nat
      /\ Len(u) = d /\ \A i \in 1 .. d : u[i] = s[i]
  <2>1. Len(s) \in Nat \ {0}
    BY EmptySeq DEF IsSeq
  <2>2. d \in 0 .. Len(s) /\ d \in Nat
    BY <2>1
  <2> QED
    BY <2>1, <2>2, PopFacts
<1> HIDE DEF u
<1>2. ASSUME NEW i \in 1 .. Len(u), Inside(u[i])
      PROVE  Covers(u[i], B[i], u, i, c2, H2)
  <2>1. i \in 1 .. d /\ i \in 1 .. Len(s) /\ u[i] = s[i] /\ Inside(s[i])
    BY <1>1, <1>2
  <2>2. Covers(s[i], B[i], s, i, c, H)
    BY <2>1 DEF Covered
  <2>3. Len(s) \in i + 1 .. Len(s)
    BY <1>1, <2>1
  <2>4. Outer(s[i].saved, c2)
    BY <2>2, <2>3 DEF Covers
  <2>5. \A j \in i + 1 .. Len(u) : u[j] = s[j] /\ j \in i + 1 .. Len(s)
    BY <1>1, <2>1
  <2>6. \A j \in i + 1 .. Len(u) : Outer(s[i].saved, u[j].saved)
    BY <2>2, <2>5 DEF Covers
  <2> QED
    BY <2>1, <2>4, <2>6 DEF Covers
<1>3. Covered(u, B, c2, H2)
  BY <1>2 DEF Covered
<1> QED
  BY <1>3 DEF u

-----------------------------------------------------------------------------
(* What a step of a visitor is to the walk: it goes on to the next child,  *)
(* it is done after its last one, or it throws.                            *)

NamesHeeded == Top.pc = 0 => Heeded(Top.node, Names(syms, scope))

Descends ==
    /\ Top.pc < Count(Top.node)
    /\ \E own : stk' = PushOver(stk, Frame(Top.node, Top.pc + 1, own, Top.saved),
                                Entry(Kid(Top.node, Top.pc + 1), scope'))
    /\ UNCHANGED <<verdict, notes>>
    /\ NamesHeeded
    /\ N.kind = "Deref" /\ Top.pc = 1 => curType[1] = "array"
    /\ IF Scoped(N.kind)
       THEN /\ Top.pc = 0
            /\ \E b : syms' = Append(syms, b) /\ DOMAIN b \subseteq Opened(Top.node, {})
            /\ scope' = Append(scope, Len(syms) + 1)
       ELSE UNCHANGED <<syms, scope>>

Ascends ==
    /\ Top.pc = Count(Top.node)
    /\ Leave
    /\ NamesHeeded
    /\ notes' = IF N.kind \in Expressions THEN Bind(notes, Top.node, curType') ELSE notes
    /\ IF N.kind = "Let" THEN \E v : syms' = Define(syms, scope, N.name, v)
                         ELSE UNCHANGED syms
    /\ scope' = IF Scoped(N.kind) THEN Parent(scope) ELSE scope

Moves == Descends \/ Ascends \/ verdict' = "error"

(* A visitor of a simple kind goes on to a child.                          *)
LEMMA GoesDown ==
    ASSUME ~ Scoped(N.kind), N.kind \notin {"Lit", "Ident"}, UNCHANGED <<syms, scope>>,
           NEW k, k = Top.pc + 1, Top.pc < Arity, NEW own, Go(k, own), NamesHeeded,
           N.kind = "Deref" /\ Top.pc = 1 => curType[1] = "array"
    PROVE  Moves
<1>1. Kid(Top.node, k) = N.kids[k] /\ Count(Top.node) = Arity
  BY DEF Kid, Count, Scoped, N, Arity
<1>2. stk' = PushOver(stk, Frame(Top.node, k, own, Top.saved), Entry(Kid(Top.node, k), scope'))
  BY <1>1 DEF Go, Accept, PushOver, Depth
<1> QED
  BY <1>1, <1>2 DEF Go, Accept, Descends, Moves

(* A visitor of a simple kind is done.                                     *)
LEMMA GoesUp ==
    ASSUME ~ Scoped(N.kind), UNCHANGED scope, Top.pc = Count(Top.node), NamesHeeded,
           \/ \E t : Typed(t) /\ N.kind \in Expressions
           \/ Leave /\ UNCHANGED notes /\ N.kind \notin Expressions,
           IF N.kind = "Let" THEN \E v : syms' = Define(syms, scope, N.name, v)
                             ELSE UNCHANGED syms
    PROVE  Moves
<1>1. Leave /\ notes' = IF N.kind \in Expressions THEN Bind(notes, Top.node, curType') ELSE notes
  BY DEF Typed
<1> QED
  BY <1>1 DEF Ascends, Moves

(* Every step of a visitor is one of the three.                            *)
LEMMA VisitMoves ==
    ASSUME IInv, Visit, Top.pc \in 0 .. Count(Top.node)
    PROVE  verdict = "run" /\ stk # <<>> /\ Moves
<1>1. verdict = "run" /\ stk # <<>>
  BY DEF Visit, VisitLiteral, VisitIdent, VisitUnary, VisitBinOp, VisitArray,
     VisitArrayDeref, VisitLet, VisitAssign, VisitFnLit, VisitCall, VisitReturn,
     VisitBlock, VisitIf, VisitWhile, VisitStmtList, VisitInOrder, Visiting
<1> SUFFICES Moves
  BY <1>1
<1>2. /\ Arity \in Nat /\ Arity \in Arities(N.kind) /\ N = Ast[Top.node]
      /\ \A k \in 1 .. Arity : N.kids[k] \in Node
  BY <1>1, InvImplies, TopFacts DEF N
<1>3. /\ Count(Top.node) = IF N.kind \in {"Lit", "Ident"} THEN 0
                           ELSE IF N.kind = "FnLit" THEN 1 ELSE Arity
      /\ Top.pc \in Nat
  BY <1>2 DEF Count, Arity, N
<1>4. Throw => Moves
  BY DEF Throw, Moves
<1>5. N.kind \notin {"Ident", "Assign", "Let", "FnLit"} => NamesHeeded
  BY <1>2 DEF NamesHeeded, Heeded
<1>6. Top.pc # 0 => NamesHeeded
  BY DEF NamesHeeded
<1> HIDE DEF Moves
<1>7. CASE VisitLiteral
  <2>1. /\ N.kind = "Lit" /\ ~ Scoped(N.kind) /\ N.kind \in Expressions
        /\ UNCHANGED <<scope, syms>> /\ \E t : Typed(t)
    BY <1>7 DEF VisitLiteral, Visiting, Scoped, Expressions, Context
  <2> QED
    BY <1>3, <1>5, <2>1, GoesUp
<1>8. CASE VisitIdent
  <2>1. /\ N.kind = "Ident" /\ ~ Scoped(N.kind) /\ N.kind \in Expressions
        /\ UNCHANGED <<scope, syms>>
        /\ Throw \/ (IsBound(syms, scope, N.name) /\ \E t : Typed(t))
    BY <1>8 DEF VisitIdent, Visiting, Scoped, Expressions, Context
  <2>2. IsBound(syms, scope, N.name) => NamesHeeded
    BY <1>2, <2>1, BoundIsNamed DEF NamesHeeded, Heeded
  <2> QED
    BY <1>3, <1>4, <2>1, <2>2, GoesUp
<1>9. CASE VisitUnary
  <2>1. /\ N.kind = "Unary" /\ ~ Scoped(N.kind) /\ N.kind \in Expressions
        /\ UNCHANGED <<scope, syms>> /\ Arity = 1
    BY <1>2, <1>9 DEF VisitUnary, Visiting, Scoped, Expressions, Context, Arities
  <2>2. \/ Top.pc = 0 /\ Go(1, <<>>)
        \/ Throw
        \/ (Top.pc = 1 /\ \E t : Typed(t))
    BY <1>9 DEF VisitUnary
  <2> QED
    BY <1>3, <1>4, <1>5, <2>1, <2>2, GoesUp, GoesDown
<1>10. CASE VisitBinOp
  <2>1. /\ N.kind = "BinOp" /\ ~ Scoped(N.kind) /\ N.kind \in Expressions
        /\ UNCHANGED <<scope, syms>> /\ Arity = 2
    BY <1>2, <1>10 DEF VisitBinOp, Visiting, Scoped, Expressions, Context, Arities
  <2>2. \/ Top.pc = 0 /\ Go(1, <<>>)
        \/ Top.pc = 1 /\ Go(2, curType)
        \/ Throw
        \/ (Top.pc = 2 /\ \E t : Typed(t))
    BY <1>10 DEF VisitBinOp
  <2> QED
    BY <1>3, <1>4, <1>5, <2>1, <2>2, GoesUp, GoesDown
<1>11. CASE VisitArray
  <2>1. /\ N.kind = "Array" /\ ~ Scoped(N.kind) /\ N.kind \in Expressions
        /\ UNCHANGED <<scope, syms>>
    BY <1>11 DEF VisitArray, Visiting, Scoped, Expressions, Context
  <2>2. \/ \E own : Go(Top.pc + 1, own) /\ Top.pc < Arity
        \/ Throw \/ (Top.pc = Arity /\ \E t : Typed(t))
    <3>1. \/ Arity = 0 /\ \E t : Typed(t)
          \/ Arity > 0 /\ Top.pc = 0 /\ Go(1, <<>>)
          \/ Throw
          \/ Top.pc < Arity /\ Go(Top.pc + 1, ElementType)
          \/ ~ (Top.pc < Arity) /\ \E t : Typed(t)
      BY <1>11 DEF VisitArray
    <3>2. Top.pc \in 0 .. Arity
      BY <1>3, <2>1
    <3> QED
      BY <1>2, <3>1, <3>2
  <2> QED
    BY <1>3, <1>4, <1>5, <2>1, <2>2, GoesUp, GoesDown
<1>12. CASE VisitArrayDeref
  <2>1. /\ N.kind = "Deref" /\ ~ Scoped(N.kind) /\ N.kind \in Expressions
        /\ UNCHANGED <<scope, syms>> /\ Arity = 2
    BY <1>2, <1>12 DEF VisitArrayDeref, Visiting, Scoped, Expressions, Context, Arities
  <2>2. \/ Top.pc = 0 /\ Go(1, <<>>)
        \/ Top.pc = 1 /\ curType[1] = "array" /\ Go(2, curType)
        \/ Throw
        \/ (Top.pc = 2 /\ \E t : Typed(t))
    BY <1>12 DEF VisitArrayDeref
  <2> QED
    BY <1>3, <1>4, <1>5, <2>1, <2>2, GoesUp, GoesDown
<1>13. CASE VisitLet
  <2>1. /\ N.kind = "Let" /\ ~ Scoped(N.kind) /\ N.kind \in Expressions
        /\ UNCHANGED scope /\ Arity = 1
    BY <1>2, <1>13 DEF VisitLet, Visiting, Scoped, Expressions, Arities
  <2>2. \/ Throw
        \/ N.name \notin TypeNames /\ Top.pc = 0 /\ Go(1, <<>>) /\ UNCHANGED syms
        \/ /\ Top.pc = 1 /\ \E t : Typed(t)
           /\ \E v : syms' = Define(syms, scope, N.name, v)
    BY <1>13 DEF VisitLet
  <2>3. N.name \notin TypeNames => NamesHeeded
    BY <1>2, <2>1 DEF NamesHeeded, Heeded
  <2> QED
    BY <1>3, <1>4, <1>6, <2>1, <2>2, <2>3, GoesUp, GoesDown
<1>14. CASE VisitAssign
  <2>1. /\ N.kind = "Assign" /\ ~ Scoped(N.kind) /\ N.kind \in Expressions
        /\ UNCHANGED <<scope, syms>> /\ Arity = 1
    BY <1>2, <1>14 DEF VisitAssign, Visiting, Scoped, Expressions, Arities, Context
  <2>2. \/ Throw
        \/ /\ Top.pc = 0 /\ IsBound(syms, scope, N.name)
           /\ Go(1, Holder(syms, scope, N.name))
        \/ Top.pc = 1 /\ \E t : Typed(t)
    BY <1>14 DEF VisitAssign
  <2>3. IsBound(syms, scope, N.name) => NamesHeeded
    BY <1>2, <2>1, BoundIsNamed DEF NamesHeeded, Heeded
  <2> QED
    BY <1>3, <1>4, <1>6, <2>1, <2>2, <2>3, GoesUp, GoesDown
<1>15. CASE VisitCall
  <2>1. /\ N.kind = "Call" /\ ~ Scoped(N.kind) /\ N.kind \in Expressions
        /\ UNCHANGED <<scope, syms>> /\ Arity \in Nat \ {0}
    BY <1>2, <1>15 DEF VisitCall, Visiting, Scoped, Expressions, Arities, Context
  <2>2. \A sig : NextArgument(sig) => \/ Top.pc < Arity /\ \E own : Go(Top.pc + 1, own)
                                      \/ ~ (Top.pc < Arity) /\ \E t : Typed(t)
    BY DEF NextArgument
  <2>3. \/ Top.pc = 0 /\ Go(1, <<>>)
        \/ Throw
        \/ \E sig : NextArgument(sig)
    BY <1>15 DEF VisitCall
  <2>4. Top.pc \in 0 .. Arity
    BY <1>3, <2>1
  <2>5. \/ Top.pc < Arity /\ \E own : Go(Top.pc + 1, own)
        \/ Throw
        \/ Top.pc = Arity /\ \E t : Typed(t)
    BY <2>1, <2>2, <2>3, <2>4
  <2> QED
    BY <1>3, <1>4, <1>5, <2>1, <2>5, GoesUp, GoesDown
<1>16. CASE VisitReturn
  <2>1. /\ N.kind = "Return" /\ ~ Scoped(N.kind) /\ N.kind \notin Expressions
        /\ UNCHANGED <<scope, syms>> /\ Arity \in {0, 1}
    BY <1>2, <1>16 DEF VisitReturn, Visiting, Scoped, Expressions, Arities, Context
  <2>2. \/ Top.pc < Arity /\ Go(1, <<>>)
        \/ Throw
        \/ Top.pc = Arity /\ Leave /\ UNCHANGED notes
    BY <1>16 DEF VisitReturn
  <2>3. Top.pc < Arity => 1 = Top.pc + 1
    BY <1>3, <2>1
  <2> QED
    BY <1>3, <1>4, <1>5, <2>1, <2>2, <2>3, GoesUp, GoesDown
<1>17. CASE VisitIf \/ VisitWhile \/ VisitStmtList
  <2>1. /\ N.kind \in {"If", "While", "StmtList"}
        /\ UNCHANGED <<scope, syms>> /\ NextChild
    BY <1>17 DEF VisitIf, VisitWhile, VisitStmtList, VisitInOrder, Visiting, Context
  <2>2. ~ Scoped(N.kind) /\ N.kind \notin Expressions
    BY <2>1 DEF Scoped, Expressions
  <2>3. \/ Top.pc < Arity /\ Go(Top.pc + 1, <<>>)
        \/ ~ (Top.pc < Arity) /\ Leave /\ UNCHANGED notes
    BY <2>1 DEF NextChild
  <2>4. Top.pc \in 0 .. Arity
    BY <1>3, <2>1
  <2>5. \/ Top.pc < Arity /\ Go(Top.pc + 1, <<>>)
        \/ Top.pc = Arity /\ Leave /\ UNCHANGED notes
    BY <1>2, <2>3, <2>4
  <2> QED
    BY <1>3, <1>5, <2>1, <2>2, <2>5, GoesUp, GoesDown
<1>18. CASE VisitBlock
  <2>1. /\ N.kind = "Block" /\ Scoped(N.kind) /\ N.kind \notin Expressions /\ Arity = 1
    BY <1>2, <1>18 DEF VisitBlock, Visiting, Scoped, Expressions, Arities
  <2>2. NamesHeeded /\ Count(Top.node) = 1
    BY <1>3, <1>5, <2>1
  <2>3. CASE EnterBlock
    <3>1. /\ Top.pc = 0 /\ Kid(Top.node, Top.pc + 1) = N.kids[1]
          /\ Accept(N.kids[1], 1, <<>>, scope')
      BY <2>1, <2>3 DEF EnterBlock, Kid, N
    <3>2. stk' = PushOver(stk, Frame(Top.node, Top.pc + 1, <<>>, Top.saved),
                          Entry(Kid(Top.node, Top.pc + 1), scope'))
      BY <3>1 DEF Accept, PushOver, Depth
    <3>3. /\ syms' = Append(syms, NoBindings) /\ DOMAIN NoBindings \subseteq Opened(Top.node, {})
          /\ scope' = Append(scope, Len(syms) + 1)
      BY <2>3 DEF EnterBlock, Extend, Child, NoBindings
    <3>4. UNCHANGED <<verdict, notes>> /\ Top.pc < Count(Top.node)
      BY <2>2, <3>1 DEF Accept
    <3>5. Descends
      BY <2>1, <2>2, <3>1, <3>2, <3>3, <3>4, Zenon DEF Descends
    <3> QED
      BY <3>5 DEF Moves
  <2>4. CASE LeaveBlock
    BY <2>1, <2>2, <2>4 DEF LeaveBlock, Ascends, Moves
  <2> QED
    BY <1>18, <2>3, <2>4 DEF VisitBlock
<1>19. CASE VisitFnLit
  <2>1. N.kind = "FnLit" /\ Scoped(N.kind) /\ N.kind \in Expressions
    BY <1>19 DEF VisitFnLit, Visiting, Scoped, Expressions
  <2>2. /\ Count(Top.node) = 1
        /\ ~ UnknownTypes(N) => NamesHeeded
        /\ Top.pc = 1 => NamesHeeded
    BY <1>2, <1>3, <1>6, <2>1 DEF NamesHeeded, Heeded, UnknownTypes
  <2>3. CASE EnterFunction
    <3>0. NamesHeeded
      BY <2>2, <2>3 DEF EnterFunction
    <3>1. /\ Top.pc = 0 /\ Kid(Top.node, Top.pc + 1) = N.body
          /\ Accept(N.body, 1, declared, scope')
      BY <2>1, <2>3 DEF EnterFunction, Kid, N
    <3>2. stk' = PushOver(stk, Frame(Top.node, Top.pc + 1, declared, Top.saved),
                          Entry(Kid(Top.node, Top.pc + 1), scope'))
      BY <3>1 DEF Accept, PushOver, Depth
    <3>3. DOMAIN ParamScope(N) \subseteq Opened(Top.node, {})
      BY <1>2, <2>1 DEF ParamScope, Opened, Params
    <3>4. /\ syms' = Append(syms, ParamScope(N))
          /\ scope' = Append(scope, Len(syms) + 1)
      BY <2>3 DEF EnterFunction, Extend, Child
    <3>5. UNCHANGED <<verdict, notes>> /\ Top.pc < Count(Top.node)
      BY <2>2, <3>1 DEF Accept
    <3>6. Descends
      BY <2>1, <2>2, <3>0, <3>1, <3>2, <3>3, <3>4, <3>5, Zenon DEF Descends
    <3> QED
      BY <3>6 DEF Moves
  <2>4. CASE LeaveFunction
    BY <1>4, <2>1, <2>2, <2>4 DEF LeaveFunction, Typed, Ascends, Moves
  <2> QED
    BY <1>4, <1>19, <2>3, <2>4 DEF VisitFnLit
<1> QED
  BY <1>7, <1>8, <1>9, <1>10, <1>11, <1>12, <1>13, <1>14, <1>15, <1>16, <1>17, <1>18,
     <1>19 DEF Visit

-----------------------------------------------------------------------------
(* The annotations: every expression walked has one, and the one of an     *)
(* array that is indexed is an array's, but for the one just made.         *)

Annotated(L, noted) ==
    \A n, b, a : <<n, b, a>> \in L /\ Ast[n].kind \in Expressions => n \in DOMAIN noted

JustTyped(t) ==
    /\ stk # <<>> /\ N.kind = "Deref" /\ Top.pc = 1
    /\ t = N.kids[1] /\ notes[t] = curType

ArraysKept ==
    \A t \in IndexedBy(Node) :
        t \in DOMAIN notes => notes[t][1] = "array" \/ JustTyped(t)

(* What is known of the names and annotations in the middle of the walk of *)
(* a root, and what after it.                                              *)
Front(b, s) == IF Top.pc = 0 THEN b ELSE s[Top.pc]

Known(root, L, B, S) ==
    /\ stk # <<>> /\ stk[1].node = root /\ B[1] = {}
    /\ Lawful(L) /\ Annotated(L, notes)
    /\ Walk(L, stk, B, S)
    /\ Covered(stk, B, scope, syms)
    /\ Distinct(scope)
    /\ Names(syms, scope) \subseteq Front(B[Depth], S[Depth])
    /\ ArraysKept

Passed(root) ==
    \E L, a : /\ Lawful(L) /\ Annotated(L, notes)
              /\ <<root, {}, a>> \in L
              /\ \A t \in IndexedBy(Node) : t \in DOMAIN notes => notes[t][1] = "array"

Progress(root) ==
    /\ verdict = "idle" => /\ scope = GlobalEnv /\ syms = <<NoBindings>>
                           /\ notes = NoBindings
    /\ verdict = "run" => \E L, B, S : Known(root, L, B, S)
    /\ verdict = "ok" => Passed(root)

-----------------------------------------------------------------------------
(* An environment without its last scope has none twice either.            *)
LEMMA DistinctParent ==
    ASSUME NEW c, NEW m, EnvIn(c, m), Distinct(c), EnvIn(Parent(c), m)
    PROVE  Distinct(Parent(c))
<1>1. IsSeq(c) /\ Len(c) \in Nat \ {0}
  BY SeqIsSeq, LenProperties DEF EnvIn
<1>2. Len(c) - 1 \in 0 .. Len(c)
  BY <1>1
<1>3. /\ Len(Parent(c)) = Len(c) - 1
      /\ \A i \in 1 .. Len(c) - 1 : Parent(c)[i] = c[i]
  BY <1>1, <1>2, PopFacts DEF Parent
<1>4. \A i \in 1 .. Len(c) - 1 : i \in 1 .. Len(c)
  BY <1>1
<1> QED
  BY <1>3, <1>4 DEF Distinct

(* What is asked of the names in front is asked of those of the walk.      *)
LEMMA TopHeeded ==
    ASSUME NEW root, NEW L, NEW B, NEW S, Known(root, L, B, S), NamesHeeded, IInv
    PROVE  /\ Depth \in Nat \ {0} /\ Depth = Len(stk) /\ Top = stk[Len(stk)]
           /\ Top.node \in Node /\ Top.pc \in 0 .. Count(Top.node)
           /\ Heeded(Top.node, B[Depth])
           /\ At(L, Top, B[Depth], S[Depth], Top.pc)
           /\ Names(syms, scope) \subseteq S[Depth][Top.pc]
<1>1. Depth \in Nat \ {0} /\ Depth = Len(stk) /\ Top = stk[Len(stk)]
  BY SoundTop DEF Known
<1>2. Top.node \in Node /\ At(L, Top, B[Depth], S[Depth], Top.pc)
  BY <1>1 DEF Known, Walk
<1>3. Top.pc \in 0 .. Count(Top.node)
  BY <1>2 DEF At
<1>4. Heeded(Top.node, B[Depth])
  <2>1. CASE Top.pc = 0
    <3>1. Names(syms, scope) \subseteq B[Depth]
      BY <2>1 DEF Known, Front
    <3> QED
      BY <2>1, <3>1, HeededMore DEF NamesHeeded
  <2>2. CASE Top.pc # 0
    BY <1>2, <2>2 DEF At
  <2> QED
    BY <2>1, <2>2
<1>5. Names(syms, scope) \subseteq S[Depth][Top.pc]
  <2>1. CASE Top.pc = 0
    BY <1>2, <2>1 DEF Known, Front, At, Opened
  <2>2. CASE Top.pc # 0
    BY <2>2 DEF Known, Front
  <2> QED
    BY <2>1, <2>2
<1> QED
  BY <1>1, <1>2, <1>3, <1>4, <1>5

(* What is indexed is an expression.                                       *)
LEMMA IndexedIsExpression ==
    ASSUME NEW t \in IndexedBy(Node)
    PROVE  t \in Node /\ Ast[t].kind \in Expressions
<1>1. PICK n \in Node : Ast[n].kind = "Deref" /\ t = Ast[n].kids[1]
  BY DEF IndexedBy
<1>2. /\ Ast[n].kids \in Seq(Node) /\ Len(Ast[n].kids) \in Arities("Deref")
      /\ \A k \in ValuePlaces(n) : Ast[Ast[n].kids[k]].kind \in Expressions
  BY <1>1, SyntaxAssumption
<1>3. Len(Ast[n].kids) = 2 /\ DOMAIN Ast[n].kids = 1 .. 2
  BY <1>2, LenProperties DEF Arities
<1>4. 1 \in ValuePlaces(n)
  BY <1>1, <1>3 DEF ValuePlaces, Expressions
<1>5. t \in Node
  BY <1>1, <1>2, <1>3, ElementOfSeq
<1> QED
  BY <1>1, <1>2, <1>4, <1>5

(* A child that is indexed is the first one of an indexing.                *)
LEMMA IndexedKid ==
    ASSUME NEW n \in Node, NEW k \in 1 .. Count(n), Kid(n, k) \in IndexedBy(Node)
    PROVE  Ast[n].kind = "Deref" /\ k = 1 /\ Kid(n, k) = Ast[n].kids[1]
<1>1. Ast[n].kind # "FnLit"
  <2> SUFFICES ASSUME Ast[n].kind = "FnLit" PROVE FALSE
    OBVIOUS
  <2>1. Kid(n, k) = Ast[n].body /\ Ast[Ast[n].body].kind = "Block"
    BY SyntaxAssumption DEF Kid, IsFunctionLiteral
  <2> QED
    BY <2>1, IndexedIsExpression DEF Expressions
<1>2. Ast[n].kids \in Seq(Node)
  BY SyntaxAssumption
<1>3. k \in DOMAIN Ast[n].kids /\ Kid(n, k) = Ast[n].kids[k]
  BY <1>1, <1>2, LenProperties DEF Count, Kid
<1> QED
  BY <1>3, OwnershipAssumption

-----------------------------------------------------------------------------
(* Going down to a child: what is known of the scopes.                     *)
LEMMA CoveredDown ==
    ASSUME NEW root, NEW L, NEW B, NEW S, Known(root, L, B, S), IInv, Descends,
           NEW f, f.node = Top.node, f.pc = Top.pc + 1, f.saved = Top.saved,
           NEW n, NEW B2, \A i \in 1 .. Depth : B2[i] = B[i]
    PROVE  /\ Covered(PushOver(stk, f, Entry(n, scope')), B2, scope', syms')
           /\ Distinct(scope')
           /\ Names(syms', scope') \subseteq
                 Names(syms, scope) \union IF Top.pc = 0 THEN Opened(Top.node, {}) ELSE {}
<1> DEFINE g == Entry(n, scope')
<1>1. g.saved = scope' /\ ~ Inside(g)
  BY DEF Entry, Frame, Inside
<1> HIDE DEF g
<1>2. /\ IsSeq(stk) /\ stk # <<>> /\ Depth \in Nat \ {0} /\ Depth = Len(stk)
      /\ Top = stk[Len(stk)] /\ N = Ast[Top.node]
      /\ IsSeq(syms) /\ EnvIn(scope, Len(syms)) /\ Fits(Top, scope)
      /\ \A i \in 1 .. Len(stk) : EnvIn(stk[i].saved, Len(syms))
      /\ Top.pc \in 0 .. Count(Top.node)
  BY SoundTop, TopHeeded DEF Known, IInv, Members, Sound, FrameIn, Descends
<1>3. Covered(stk, B, scope, syms) /\ Distinct(scope)
  BY DEF Known
<1>4. \A i \in 1 .. Len(stk) : Inside(stk[i]) =>
         Names(syms, stk[i].saved) \subseteq B[i] /\ Outer(stk[i].saved, scope)
  BY <1>3 DEF Covered, Covers
<1>5. CASE ~ Scoped(N.kind)
  <2>1. UNCHANGED <<syms, scope>> /\ ~ Inside(f)
    BY <1>2, <1>5 DEF Descends, Inside
  <2>2. \A i \in 1 .. Len(stk) - 1 : Inside(stk[i]) =>
           /\ Names(syms', stk[i].saved) \subseteq B[i]
           /\ Outer(stk[i].saved, scope')
    BY <1>2, <1>4, <2>1
  <2>3. Covered(PushOver(stk, f, g), B2, scope', syms')
    BY <1>1, <1>2, <1>3, <2>1, <2>2, CoveredPushed
  <2> QED
    BY <1>3, <2>1, <2>3 DEF g
<1>6. CASE Scoped(N.kind)
  <2>1. PICK b : syms' = Append(syms, b) /\ DOMAIN b \subseteq Opened(Top.node, {})
    BY <1>6 DEF Descends
  <2>2. Top.pc = 0 /\ scope' = Append(scope, Len(syms) + 1)
    BY <1>6 DEF Descends
  <2>3. /\ Names(syms', scope') = Names(syms, scope) \union DOMAIN b
        /\ Outer(scope, scope') /\ Distinct(scope')
        /\ \A d : Outer(d, scope) => Outer(d, scope')
    BY <1>2, <1>3, <2>1, <2>2, NamesExtended
  <2>4. \A e : EnvIn(e, Len(syms)) => Names(syms', e) = Names(syms, e)
    BY <1>2, <2>1, NamesExtended
  <2>5. \A i \in 1 .. Len(stk) - 1 : Inside(stk[i]) =>
           /\ Names(syms', stk[i].saved) \subseteq B[i]
           /\ Outer(stk[i].saved, scope')
    BY <1>2, <1>4, <2>3, <2>4
  <2>6. Names(syms', f.saved) \subseteq B[Len(stk)] /\ Outer(f.saved, scope')
    <3>1. f.saved = scope
      BY <1>2, <2>2 DEF Fits, Inside
    <3>2. Names(syms, scope) \subseteq B[Depth]
      BY <2>2 DEF Known, Front
    <3> QED
      BY <1>2, <2>3, <2>4, <3>1, <3>2
  <2>7. Covered(PushOver(stk, f, g), B2, scope', syms')
    BY <1>1, <1>2, <1>3, <2>5, <2>6, CoveredPushed
  <2> QED
    BY <2>1, <2>2, <2>3, <2>7 DEF g
<1> QED
  BY <1>5, <1>6

(* Going down to a child: all of it.                                       *)
LEMMA KnownDown ==
    ASSUME NEW root, NEW L, NEW B, NEW S, Known(root, L, B, S), IInv, Descends
    PROVE  \E B2, S2 : Known(root, L, B2, S2)'
<1>1. PICK own : stk' = PushOver(stk, Frame(Top.node, Top.pc + 1, own, Top.saved),
                                 Entry(Kid(Top.node, Top.pc + 1), scope'))
  BY DEF Descends
<1> DEFINE m == Len(stk)
           f == Frame(Top.node, Top.pc + 1, own, Top.saved)
           g == Entry(Kid(Top.node, Top.pc + 1), scope')
<1> PICK b : b = S[m][Top.pc]
  OBVIOUS
<1> PICK r : r[0] = Opened(g.node, b)
  <2> DEFINE q == [j \in Nat |-> Opened(g.node, b)]
  <2>1. q[0] = Opened(g.node, b)
    OBVIOUS
  <2> QED
    BY <2>1
<1> PICK B2 : B2 = Put(B, m + 1, b)
  OBVIOUS
<1> PICK S2 : S2 = Put(S, m + 1, r)
  OBVIOUS
<1>2. /\ f.node = Top.node /\ f.pc = Top.pc + 1 /\ f.saved = Top.saved
      /\ g.node = Kid(f.node, f.pc) /\ g.pc = 0
  BY DEF Frame, Entry
<1>3. stk' = PushOver(stk, f, g)
  BY <1>1
<1>4. /\ NamesHeeded /\ IsSeq(stk) /\ stk # <<>>
      /\ m \in Nat \ {0} /\ Depth = m /\ Top = stk[m] /\ N = Ast[Top.node]
      /\ Top.pc \in 0 .. Count(Top.node) /\ Count(Top.node) \in Nat
      /\ Heeded(Top.node, B[m])
      /\ At(L, Top, B[m], S[m], Top.pc)
      /\ Names(syms, scope) \subseteq b
      /\ Top.pc < Count(Top.node)
      /\ Walk(L, stk, B, S)
  <2>1. NamesHeeded /\ Top.pc < Count(Top.node)
    BY DEF Descends
  <2>2. IsSeq(stk) /\ stk # <<>> /\ Walk(L, stk, B, S)
    BY DEF Known, Walk
  <2>3. Top.node \in Node
    BY <2>1, TopHeeded
  <2> QED
    BY <2>1, <2>2, <2>3, TopHeeded, Kids DEF N
<1>5. /\ \A i \in 1 .. m : B2[i] = B[i]
      /\ B2[m + 1] = b /\ S2[m + 1] = r /\ r[0] = Opened(g.node, b)
  BY <1>4 DEF Put
<1> HIDE DEF f
<1>6. Walk(L, PushOver(stk, f, g), B2, S2)
  <2>1. f.pc <= Count(Top.node)
    BY <1>2, <1>4
  <2>2. Top = stk[Len(stk)] /\ Heeded(Top.node, B[Len(stk)])
    BY <1>4
  <2> HIDE DEF g
  <2>3. Walk(L, PushOver(stk, f, g), Put(B, Len(stk) + 1, b), Put(S, Len(stk) + 1, r))
    BY <1>2, <1>4, <2>1, <2>2, WalkPushed
  <2> QED
    BY <2>3
<1>7. /\ Covered(PushOver(stk, f, g), B2, scope', syms')
      /\ Distinct(scope')
      /\ Names(syms', scope') \subseteq
            Names(syms, scope) \union IF Top.pc = 0 THEN Opened(Top.node, {}) ELSE {}
  <2>1. \A i \in 1 .. Depth : B2[i] = B[i]
    BY <1>4, <1>5
  <2> PICK n : n = Kid(Top.node, Top.pc + 1)
    OBVIOUS
  <2> PICK h : h = f
    OBVIOUS
  <2>2. g = Entry(n, scope')
    OBVIOUS
  <2>3. h.node = Top.node /\ h.pc = Top.pc + 1 /\ h.saved = Top.saved
    BY <1>2
  <2>4. /\ Covered(PushOver(stk, h, Entry(n, scope')), B2, scope', syms')
        /\ Distinct(scope')
        /\ Names(syms', scope') \subseteq
              Names(syms, scope) \union IF Top.pc = 0 THEN Opened(Top.node, {}) ELSE {}
    BY <2>1, <2>3, CoveredDown, Z3T(60)
  <2> HIDE DEF g
  <2> QED
    BY <2>2, <2>4
<1> HIDE DEF g
<1>8. /\ Len(stk') = m + 1 /\ stk'[m + 1] = g /\ stk'[m] = f
      /\ \A i \in 1 .. m - 1 : stk'[i] = stk[i]
      /\ stk' # <<>>
  <2>1. /\ Len(stk') = m + 1 /\ stk'[m + 1] = g /\ stk'[m] = f
        /\ \A i \in 1 .. m - 1 : stk'[i] = stk[i]
    BY <1>3, <1>4, PushFacts
  <2>2. Len(stk') # 0
    BY <1>4, <2>1
  <2> QED
    BY <2>1, <2>2
<1>9. stk'[1].node = root /\ B2[1] = {}
  <2>1. CASE m = 1
    BY <1>2, <1>4, <1>5, <1>8, <2>1 DEF Known
  <2>2. CASE m # 1
    BY <1>4, <1>5, <1>8, <2>2 DEF Known
  <2> QED
    BY <2>1, <2>2
<1>10. Names(syms', scope') \subseteq b
  <2>1. Top.pc = 0 => b = Opened(Top.node, B[m])
    BY <1>4 DEF At
  <2>2. Opened(Top.node, {}) \subseteq Opened(Top.node, B[m])
    BY DEF Opened
  <2> QED
    BY <1>4, <1>7, <2>1, <2>2
<1>11. ArraysKept'
  <2> SUFFICES ASSUME NEW t \in IndexedBy(Node), t \in DOMAIN notes'
               PROVE  notes'[t][1] = "array"
    BY DEF ArraysKept
  <2>1. UNCHANGED notes
    BY DEF Descends
  <2>2. notes[t][1] = "array" \/ JustTyped(t)
    BY <2>1 DEF Known, ArraysKept
  <2>3. JustTyped(t) => notes[t] = curType /\ curType[1] = "array"
    BY DEF JustTyped, Descends
  <2> QED
    BY <2>1, <2>2, <2>3
<1>12. Known(root, L, B2, S2)'
  <2>1. Lawful(L) /\ Annotated(L, notes)' /\ Walk(L, stk', B2, S2)
    BY <1>3, <1>6 DEF Known, Descends
  <2>2. Covered(stk', B2, scope', syms')
    BY <1>3, <1>7
  <2>3. Top' = g /\ Depth' = m + 1
    BY <1>8 DEF Top, Depth
  <2>4. Front(B2[Depth], S2[Depth])' = b
    BY <1>2, <1>5, <2>3 DEF Front
  <2> QED
    BY <1>7, <1>8, <1>9, <1>10, <1>11, <2>1, <2>2, <2>4 DEF Known
<1> QED
  BY <1>12

(* Returning: the names that are left, in every environment in use.        *)
LEMMA NamesUp ==
    ASSUME NEW root, NEW L, NEW B, NEW S, Known(root, L, B, S), IInv, Ascends,
           NEW a, a = Closed(Top.node, B[Depth], S[Depth][Top.pc])
    PROVE  /\ scope' = Top.saved /\ Distinct(scope')
           /\ Names(syms', scope') \subseteq a
           /\ Covered(stk', B, scope', syms')
<1>1. /\ IsSeq(stk) /\ stk # <<>> /\ Depth \in Nat \ {0} /\ Depth = Len(stk)
      /\ Top = stk[Len(stk)] /\ N = Ast[Top.node] /\ Top.node \in Node
      /\ IsSeq(syms) /\ EnvIn(scope, Len(syms)) /\ Fits(Top, scope)
      /\ \A i \in 1 .. Len(stk) : EnvIn(stk[i].saved, Len(syms))
      /\ Names(syms, scope) \subseteq S[Depth][Top.pc]
      /\ Top.pc = Count(Top.node)
      /\ stk' = SubSeq(stk, 1, Depth - 1)
  BY SoundTop, TopHeeded DEF Known, IInv, Members, Sound, FrameIn, Ascends, Leave
<1>2. Covered(stk, B, scope, syms) /\ Distinct(scope)
  BY DEF Known
<1>3. \A i \in 1 .. Len(stk) : Inside(stk[i]) =>
         Names(syms, stk[i].saved) \subseteq B[i] /\ Outer(stk[i].saved, scope)
  BY <1>2 DEF Covered, Covers
<1>4. scope' = Top.saved /\ Distinct(scope')
  <2>1. CASE Scoped(N.kind)
    <3>1. Top.pc = 1
      <4>1. N.kind = "Block" => Arity \in Arities(N.kind) /\ Arity = Len(N.kids)
        BY <1>1, InvImplies, TopFacts DEF Arity
      <4> QED
        BY <1>1, <2>1, <4>1 DEF Scoped, Count, Arities
    <3>2. scope' = Parent(scope) /\ Inside(Top)
      BY <1>1, <2>1, <3>1 DEF Ascends, Inside
    <3>3. Parent(scope) = Top.saved /\ EnvIn(Top.saved, Len(syms))
      BY <1>1, <3>2 DEF Fits
    <3> QED
      BY <1>1, <1>2, <3>2, <3>3, DistinctParent
  <2>2. CASE ~ Scoped(N.kind)
    BY <1>1, <1>2, <2>2 DEF Ascends, Fits, Inside
  <2> QED
    BY <2>1, <2>2
<1>5. /\ Names(syms', scope') \subseteq a
      /\ \A i \in 1 .. Depth - 1 :
            Inside(stk[i]) => Names(syms', stk[i].saved) \subseteq B[i]
  <2>1. CASE N.kind = "Let"
    <3>1. PICK v : syms' = Define(syms, scope, N.name, v)
      BY <2>1 DEF Ascends
    <3>2. /\ Names(syms', scope) = Names(syms, scope) \union {N.name}
          /\ \A d : Outer(d, scope) /\ Distinct(scope) /\ EnvIn(d, Len(syms))
                        => Names(syms', d) = Names(syms, d)
      BY <1>1, <3>1, NamesDefined
    <3>3. scope' = scope
      BY <2>1 DEF Ascends, Scoped
    <3>4. a = S[Depth][Top.pc] \union {N.name}
      BY <1>1, <2>1 DEF Closed, Scoped
    <3>5. \A i \in 1 .. Depth - 1 : i \in 1 .. Len(stk)
      BY <1>1
    <3> QED
      BY <1>1, <1>2, <1>3, <3>2, <3>3, <3>4, <3>5
  <2>2. CASE N.kind # "Let"
    <3>1. UNCHANGED syms
      BY <2>2 DEF Ascends
    <3>2. CASE Scoped(N.kind)
      <4>1. Inside(Top)
        <5>1. N.kind = "Block" => Arity \in Arities(N.kind) /\ Arity = Len(N.kids)
          BY <1>1, InvImplies, TopFacts DEF Arity
        <5> QED
          BY <1>1, <3>2, <5>1 DEF Scoped, Count, Arities, Inside
      <4>2. Names(syms, Top.saved) \subseteq B[Depth]
        BY <1>1, <1>3, <4>1
      <4>3. a = B[Depth]
        BY <1>1, <3>2 DEF Closed
      <4>4. \A i \in 1 .. Depth - 1 : i \in 1 .. Len(stk)
        BY <1>1
      <4> QED
        BY <1>3, <1>4, <3>1, <4>2, <4>3, <4>4
    <3>3. CASE ~ Scoped(N.kind)
      <4>1. a = S[Depth][Top.pc]
        BY <1>1, <2>2, <3>3 DEF Closed
      <4>2. scope' = scope
        BY <3>3 DEF Ascends
      <4>3. \A i \in 1 .. Depth - 1 : i \in 1 .. Len(stk)
        BY <1>1
      <4> QED
        BY <1>1, <1>3, <3>1, <4>1, <4>2, <4>3
    <3> QED
      BY <3>2, <3>3
  <2> QED
    BY <2>1, <2>2
<1>6. Covered(stk', B, scope', syms')
  <2>1. Covered(SubSeq(stk, 1, Depth - 1), B, scope', syms')
    BY <1>1, <1>2, <1>4, <1>5, CoveredPopped
  <2> QED
    BY <1>1, <2>1
<1> QED
  BY <1>4, <1>5, <1>6

(* Returning: the annotations.                                             *)
LEMMA ArraysUp ==
    ASSUME NEW root \in Roots, NEW L, NEW B, NEW S, Known(root, L, B, S), IInv, Ascends
    PROVE  /\ ArraysKept'
           /\ Depth = 1 => \A t \in IndexedBy(Node) : t \in DOMAIN notes' => notes'[t][1] = "array"
<1>1. /\ IsSeq(stk) /\ stk # <<>> /\ Depth \in Nat \ {0} /\ Depth = Len(stk)
      /\ Top = stk[Len(stk)] /\ N = Ast[Top.node] /\ Top.node \in Node
      /\ Top.pc = Count(Top.node) /\ Walk(L, stk, B, S)
      /\ stk' = SubSeq(stk, 1, Depth - 1)
  BY SoundTop, TopHeeded DEF Known, Ascends, Leave
<1>2. ~ (N.kind = "Deref" /\ Top.pc = 1)
  <2>1. Arity \in Arities(N.kind) /\ Arity = Len(N.kids)
    BY <1>1, InvImplies, TopFacts DEF Arity
  <2> SUFFICES ASSUME N.kind = "Deref" PROVE Top.pc # 1
    OBVIOUS
  <2>2. Arity = 2
    BY <2>1 DEF Arities
  <2>3. Count(Top.node) = Arity
    BY <1>1, <2>1 DEF Count
  <2> QED
    BY <1>1, <2>2, <2>3
<1>3. \A t \in IndexedBy(Node) : t \in DOMAIN notes => notes[t][1] = "array"
  BY <1>2 DEF Known, ArraysKept, JustTyped
<1>4. ASSUME NEW t \in IndexedBy(Node), t \in DOMAIN notes', notes'[t][1] # "array"
      PROVE  t = Top.node /\ notes'[t] = curType'
  <2>1. CASE N.kind \in Expressions
    <3>1. notes' = Bind(notes, Top.node, curType')
      BY <2>1 DEF Ascends
    <3> QED
      BY <1>3, <1>4, <3>1 DEF Bind
  <2>2. CASE N.kind \notin Expressions
    BY <1>3, <1>4, <2>2 DEF Ascends
  <2> QED
    BY <2>1, <2>2
<1>5. CASE Depth = 1
  <2>1. Top.node \notin IndexedBy(Node)
    BY <1>1, <1>5, OwnershipAssumption DEF Known
  <2> QED
    BY <1>4, <2>1 DEF ArraysKept
<1>6. CASE Depth # 1
  <2> DEFINE d == Depth - 1
  <2>1. /\ d \in Nat \ {0} /\ d \in 1 .. Len(stk) - 1 /\ d \in 1 .. Len(stk) /\ d # Len(stk)
        /\ d + 1 = Len(stk) /\ d \in 0 .. Len(stk)
    BY <1>1, <1>6
  <2>2. /\ Hangs(stk[d], S[d], stk[d + 1], B[d + 1])
        /\ stk[d].node \in Node /\ stk[d].pc \in 0 .. Count(stk[d].node)
    BY <1>1, <2>1 DEF Walk, At
  <2>3. stk' # <<>> /\ Top' = stk[d]
    <3>1. Len(stk') = d /\ stk'[d] = stk[d]
      BY <1>1, <2>1, PopFacts
    <3> QED
      BY <2>1, <3>1 DEF Top, Depth
  <2> HIDE DEF d
  <2>4. ASSUME NEW t \in IndexedBy(Node), t = Top.node, notes'[t] = curType'
        PROVE  JustTyped(t)'
    <3>1. /\ stk[d].pc \in 1 .. Count(stk[d].node)
          /\ t = Kid(stk[d].node, stk[d].pc)
      BY <1>1, <2>1, <2>2, <2>4, Kids DEF Hangs
    <3>2. Ast[stk[d].node].kind = "Deref" /\ stk[d].pc = 1 /\ t = Ast[stk[d].node].kids[1]
      BY <2>2, <3>1, IndexedKid
    <3> QED
      BY <2>3, <2>4, <3>2 DEF JustTyped, N
  <2>5. ArraysKept'
    BY <1>4, <2>4 DEF ArraysKept
  <2> QED
    BY <1>6, <2>5
<1> QED
  BY <1>5, <1>6

(* Returning: all of it.                                                   *)
LEMMA KnownUp ==
    ASSUME NEW root \in Roots, NEW L, NEW B, NEW S, Known(root, L, B, S), IInv, Ascends
    PROVE  /\ Depth = 1 => Passed(root)'
           /\ Depth # 1 => \E L2, S2 : Known(root, L2, B, S2)'
<1> DEFINE m == Len(stk)
<1> PICK a : a = Closed(Top.node, B[Depth], S[Depth][Top.pc])
  OBVIOUS
<1> PICK n : n = Top.node
  OBVIOUS
<1> PICK L2 : L2 = L \union {<<n, B[Depth], a>>}
  OBVIOUS
<1> PICK d : d = Len(stk) - 1
  OBVIOUS
<1> PICK S2 : S2 = Put(S, d, Put(S[d], stk[d].pc, a))
  OBVIOUS
<1>1. /\ IsSeq(stk) /\ stk # <<>> /\ m \in Nat \ {0} /\ Depth = m
      /\ Top = stk[Len(stk)] /\ N = Ast[Top.node]
      /\ Top.pc = Count(Top.node) /\ Walk(L, stk, B, S) /\ Lawful(L)
      /\ Heeded(Top.node, B[Len(stk)])
      /\ d \in Nat /\ d + 1 = m
      /\ stk' = SubSeq(stk, 1, d)
  <2>1. NamesHeeded /\ Top.pc = Count(Top.node) /\ stk' = SubSeq(stk, 1, Depth - 1)
    BY DEF Ascends, Leave
  <2>2. IsSeq(stk) /\ stk # <<>> /\ Walk(L, stk, B, S) /\ Lawful(L)
    BY DEF Known, Walk
  <2> QED
    BY <2>1, <2>2, TopHeeded DEF N
<1>2. /\ Lawful(L2)
      /\ Walk(L2, SubSeq(stk, 1, d), B, S2)
  <2> PICK t : t = Top
    OBVIOUS
  <2>1. t = stk[Len(stk)] /\ t.pc = Count(t.node) /\ Heeded(t.node, B[Len(stk)])
    BY <1>1
  <2>2. a = Closed(t.node, B[Len(stk)], S[Len(stk)][t.pc])
    BY <1>1
  <2>3. L2 = L \union {<<t.node, B[Len(stk)], a>>}
    BY <1>1
  <2> PICK u : u = SubSeq(stk, 1, d)
    OBVIOUS
  <2>4. Pops(L, stk, B, S, t, a, L2, d, u, S2)
    BY <1>1, <2>1, <2>2, <2>3 DEF Pops
  <2>5. Lawful(L2) /\ Walk(L2, u, B, S2)
    BY <2>4, WalkPopped
  <2> QED
    BY <2>5
<1>3. /\ Distinct(scope') /\ Names(syms', scope') \subseteq a
      /\ Covered(stk', B, scope', syms')
  BY NamesUp
<1>4. Annotated(L2, notes')
  <2> SUFFICES ASSUME NEW p, NEW b, NEW e, <<p, b, e>> \in L2, Ast[p].kind \in Expressions
               PROVE  p \in DOMAIN notes'
    BY DEF Annotated
  <2>1. DOMAIN notes \subseteq DOMAIN notes'
    BY DEF Ascends, Bind
  <2>2. CASE <<p, b, e>> \in L
    BY <2>1, <2>2 DEF Known, Annotated
  <2>3. CASE p = Top.node
    BY <1>1, <2>3 DEF Ascends, Bind
  <2> QED
    BY <2>2, <2>3
<1>5. ASSUME Depth = 1 PROVE Passed(root)'
  <2>1. <<root, {}, a>> \in L2
    BY <1>1, <1>5 DEF Known
  <2>2. \A t \in IndexedBy(Node) : t \in DOMAIN notes' => notes'[t][1] = "array"
    BY <1>5, ArraysUp
  <2> QED
    BY <1>2, <1>4, <2>1, <2>2 DEF Passed
<1>6. ASSUME Depth # 1 PROVE Known(root, L2, B, S2)'
  <2>1. /\ d \in 1 .. d /\ 1 \in 1 .. d /\ d \in 0 .. Len(stk) /\ d # 0
        /\ d \in 1 .. Len(stk) - 1
    BY <1>1, <1>6
  <2>2. Len(stk') = d /\ \A i \in 1 .. d : stk'[i] = stk[i]
    BY <1>1, <2>1, PopFacts
  <2>3. stk' # <<>> /\ stk'[1].node = root /\ Top' = stk[d] /\ Depth' = d
    BY <2>1, <2>2 DEF Known, Top, Depth
  <2>4. stk[d].pc # 0 /\ stk[d].pc \in 0 .. Count(stk[d].node) /\ stk[d].node \in Node
    BY <1>1, <2>1 DEF Walk, Hangs, At
  <2>5. stk[d].pc \in Nat /\ d \in Nat
    BY <2>1, <2>4, Kids
  <2>6. S2[d] = Put(S[d], stk[d].pc, a) /\ Put(S[d], stk[d].pc, a)[stk[d].pc] = a
    BY <2>5 DEF Put
  <2>7. Front(B[Depth], S2[Depth])' = a
    BY <2>3, <2>4, <2>6 DEF Front
  <2> QED
    BY <1>1, <1>2, <1>3, <1>4, <2>3, <2>7, ArraysUp DEF Known
<1> QED
  BY <1>5, <1>6

-----------------------------------------------------------------------------
(* Of the walk of a root the names and annotations are known all along.    *)
LEMMA ProgressStart ==
    ASSUME NEW root \in Roots, Progress(root), IInv, Start(root)
    PROVE  Progress(root)'
<1>1. /\ verdict = "idle" /\ verdict' = "run"
      /\ stk' = <<Entry(root, scope)>> /\ UNCHANGED <<syms, scope, notes>>
      /\ scope = GlobalEnv /\ syms = <<NoBindings>> /\ notes = NoBindings
  BY DEF Start, Progress
<1> PICK B : B = [i \in Nat |-> {}]
  OBVIOUS
<1> PICK r : r = [i \in Nat |-> Opened(root, {})]
  OBVIOUS
<1> PICK S : S = [i \in Nat |-> r]
  OBVIOUS
<1>2. B[1] = {} /\ r[0] = Opened(root, {}) /\ S[1] = r
  OBVIOUS
<1>3. /\ stk' # <<>> /\ IsSeq(stk') /\ Len(stk') = 1 /\ stk'[1].node = root /\ stk'[1].pc = 0
      /\ Depth' = 1 /\ Top' = stk'[1] /\ root \in Node
  <2>1. \A e : IsSeq(<<e>>) /\ Len(<<e>>) = 1 /\ <<e>>[1] = e /\ <<e>> # <<>>
    BY DEF IsSeq, Elements
  <2>2. root \in Node
    BY SyntaxAssumption
  <2> QED
    BY <1>1, <2>1, <2>2 DEF Entry, Frame, Top, Depth
<1>4. Walk({}, stk', B, S)
  <2>1. At({}, stk'[1], B[1], S[1], 0)
    BY <1>2, <1>3, Kids DEF At, Chain
  <2> QED
    BY <1>3, <2>1 DEF Walk
<1>5. Covered(stk', B, scope', syms')
  <2>1. \A i \in 1 .. Len(stk') : ~ Inside(stk'[i])
    BY <1>3 DEF Inside
  <2> QED
    BY <2>1 DEF Covered
<1>6. Distinct(scope') /\ Names(syms', scope') = {}
  <2>1. Len(GlobalEnv) = 1 /\ GlobalEnv[1] = 1 /\ <<NoBindings>>[1] = NoBindings
    BY DEF GlobalEnv, Global
  <2>2. DOMAIN NoBindings = {}
    BY DEF NoBindings
  <2> QED
    BY <1>1, <2>1, <2>2 DEF Distinct, Names
<1>7. Lawful({}) /\ Annotated({}, notes)'
  BY DEF Lawful, Annotated
<1>8. ArraysKept'
  BY <1>1 DEF ArraysKept, NoBindings
<1>9. Known(root, {}, B, S)'
  BY <1>2, <1>3, <1>4, <1>5, <1>6, <1>7, <1>8 DEF Known, Front
<1> QED
  BY <1>1, <1>9 DEF Progress

(* Every step of the walk adds what it has shown to the record.            *)
LEMMA ProgressVisit ==
    ASSUME NEW root \in Roots, Progress(root), IInv, Visit
    PROVE  Progress(root)'
<1>1. verdict = "run"
  BY InvImplies, VisitMembers
<1>2. PICK L, B, S : Known(root, L, B, S)
  BY <1>1 DEF Progress
<1>3. Top.pc \in 0 .. Count(Top.node)
  <2>1. Depth \in Nat \ {0} /\ Depth = Len(stk) /\ Top = stk[Depth]
    BY <1>2, SoundTop DEF Known
  <2> QED
    BY <1>2, <2>1 DEF Known, Walk, At
<1>4. Moves
  BY <1>3, VisitMoves
<1>5. CASE Descends
  <2>1. verdict' = "run"
    BY <1>1, <1>5 DEF Descends
  <2> QED
    BY <1>2, <1>5, <2>1, KnownDown DEF Progress
<1>6. CASE Ascends
  <2>1. verdict' = IF Depth = 1 THEN "ok" ELSE "run"
    BY <1>1, <1>6 DEF Ascends, Leave
  <2>2. /\ Depth = 1 => Passed(root)'
        /\ Depth # 1 => \E L2, S2 : Known(root, L2, B, S2)'
    BY <1>2, <1>6, KnownUp
  <2> QED
    BY <2>1, <2>2 DEF Progress
<1>7. CASE verdict' = "error"
  BY <1>7 DEF Progress
<1> QED
  BY <1>4, <1>5, <1>6, <1>7 DEF Moves

=============================================================================
