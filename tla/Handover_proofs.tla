--------------------------- MODULE Handover_proofs ---------------------------
(***************************************************************************)
(* NoSurprises, for every program: what the semantic pass accepts the IR   *)
(* generator refuses for a call of what is not the name of a function or   *)
(* for an integer that is too large, and for nothing else.                 *)
(*                                                                         *)
(* The record the semantic pass's walk leaves (Passed, Semantic_proofs)    *)
(* has, for every node, the names in front of it and behind it.  The       *)
(* generator's walk follows it: at every node it comes to, the names of    *)
(* the record are bound in its own scopes, which are made and left in      *)
(* other places than those of the semantic pass.                           *)
(*                                                                         *)
(* TypeOK of the pipeline comes first; it rests, as the record does, on    *)
(* what is proved of the semantic pass alone.                              *)
(***************************************************************************)
EXTENDS Pipeline_proofs

-----------------------------------------------------------------------------
(* The semantic pass in the pipeline keeps the invariant proved of it      *)
(* alone.  Proved is the pass with its theorems; what Sem and Proved mean  *)
(* by a name is the same.                                                  *)
Proved == INSTANCE Semantic_proofs

(* The assumptions those theorems make.                                    *)
LEMMA SyntaxAssumed ==
    /\ Proved!SyntaxAssumption /\ Proved!OwnershipAssumption
    /\ Proved!IntWidthAssumption
BY SyntaxAssumption, OwnershipAssumption, IntWidthAssumption DEF SyntaxAssumption,
   Proved!SyntaxAssumption, OwnershipAssumption, Proved!OwnershipAssumption,
   IndexedBy, Proved!IndexedBy, IntWidthAssumption, Proved!IntWidthAssumption,
   Kinds, Proved!Kinds, Arities, Proved!Arities, LiteralTypes,
   Proved!LiteralTypes, UnaryOps, Proved!UnaryOps, BinaryOps,
   Proved!BinaryOps, Expressions, Proved!Expressions, ValuePlaces,
   Proved!ValuePlaces, ArithmeticOps, Proved!ArithmeticOps, IsFunctionLiteral,
   Proved!IsFunctionLiteral, Tid, Proved!Tid, PrimType, Proved!PrimType

(* The visitor of the literals.                                            *)
LEMMA AlikeLiteral == Sem!VisitLiteral <=> Proved!VisitLiteral
BY DEF Sem!VisitLiteral, Proved!VisitLiteral, Sem!Visiting, Proved!Visiting,
   Sem!N, Proved!N, Sem!Top, Proved!Top, Sem!Depth, Proved!Depth, Sem!Typed,
   Proved!Typed, Sem!Leave, Proved!Leave, Sem!Bind, Proved!Bind, Sem!Context,
   Proved!Context, Sem!Tid, Proved!Tid

(* The visitor of IdentExpr.                                               *)
LEMMA AlikeIdent == Sem!VisitIdent <=> Proved!VisitIdent
BY DEF Sem!VisitIdent, Proved!VisitIdent, Sem!Visiting, Proved!Visiting,
   Sem!N, Proved!N, Sem!Top, Proved!Top, Sem!Depth, Proved!Depth, Sem!IsBound,
   Proved!IsBound, Sem!IsHolder, Proved!IsHolder, Sem!Declares,
   Proved!Declares, Sem!Typed, Proved!Typed, Sem!Leave, Proved!Leave,
   Sem!Bind, Proved!Bind, Sem!Resolve, Proved!Resolve, Sem!Holder,
   Proved!Holder, Sem!Throw, Proved!Throw, Sem!Context, Proved!Context

(* The visitor of UnaryExpr.                                               *)
LEMMA AlikeUnary == Sem!VisitUnary <=> Proved!VisitUnary
BY DEF Sem!VisitUnary, Proved!VisitUnary, Sem!Visiting, Proved!Visiting,
   Sem!N, Proved!N, Sem!Top, Proved!Top, Sem!Depth, Proved!Depth, Sem!Go,
   Proved!Go, Sem!Accept, Proved!Accept, Sem!Frame, Proved!Frame, Sem!Entry,
   Proved!Entry, Sem!Numeric, Proved!Numeric, Sem!PrimType, Proved!PrimType,
   Sem!Typed, Proved!Typed, Sem!Leave, Proved!Leave, Sem!Bind, Proved!Bind,
   Sem!Throw, Proved!Throw, Sem!Context, Proved!Context

(* The visitor of BinOpExpr.                                               *)
LEMMA AlikeBinOp == Sem!VisitBinOp <=> Proved!VisitBinOp
BY DEF Sem!VisitBinOp, Proved!VisitBinOp, Sem!Visiting, Proved!Visiting,
   Sem!N, Proved!N, Sem!Top, Proved!Top, Sem!Depth, Proved!Depth, Sem!Go,
   Proved!Go, Sem!Accept, Proved!Accept, Sem!Frame, Proved!Frame, Sem!Entry,
   Proved!Entry, Sem!Logical, Proved!Logical, Sem!Typed, Proved!Typed,
   Sem!Leave, Proved!Leave, Sem!Bind, Proved!Bind, Sem!ArithmeticOps,
   Proved!ArithmeticOps, Sem!Numeric, Proved!Numeric, Sem!PrimType,
   Proved!PrimType, Sem!ArithmeticType, Proved!ArithmeticType, Sem!Throw,
   Proved!Throw, Sem!Context, Proved!Context

(* The visitor of ArrayExpr.                                               *)
LEMMA AlikeArray == Sem!VisitArray <=> Proved!VisitArray
BY DEF Sem!VisitArray, Proved!VisitArray, Sem!Visiting, Proved!Visiting,
   Sem!N, Proved!N, Sem!Top, Proved!Top, Sem!Depth, Proved!Depth, Sem!Arity,
   Proved!Arity, Sem!Typed, Proved!Typed, Sem!Leave, Proved!Leave, Sem!Bind,
   Proved!Bind, Sem!UNKNOWN, Proved!UNKNOWN, Sem!PrimType, Proved!PrimType,
   Sem!Go, Proved!Go, Sem!Accept, Proved!Accept, Sem!Frame, Proved!Frame,
   Sem!Entry, Proved!Entry, Sem!BadElement, Proved!BadElement, Sem!VOID,
   Proved!VOID, Sem!ElementType, Proved!ElementType, Sem!Throw, Proved!Throw,
   Sem!Context, Proved!Context

(* The visitor of ArrayDerefExpr.                                          *)
LEMMA AlikeDeref == Sem!VisitArrayDeref <=> Proved!VisitArrayDeref
BY DEF Sem!VisitArrayDeref, Proved!VisitArrayDeref, Sem!Visiting,
   Proved!Visiting, Sem!N, Proved!N, Sem!Top, Proved!Top, Sem!Depth,
   Proved!Depth, Sem!Go, Proved!Go, Sem!Accept, Proved!Accept, Sem!Frame,
   Proved!Frame, Sem!Entry, Proved!Entry, Sem!Throw, Proved!Throw,
   Sem!PrimType, Proved!PrimType, Sem!OutOfBounds, Proved!OutOfBounds,
   Sem!ConstantInteger, Proved!ConstantInteger, Sem!IsIntLit, Proved!IsIntLit,
   Sem!Typed, Proved!Typed, Sem!Leave, Proved!Leave, Sem!Bind, Proved!Bind,
   Sem!Context, Proved!Context, Sem!IsInt, Proved!IsInt, Sem!Tid, Proved!Tid,
   Sem!Data, Proved!Data

(* The visitor of LetExpr.                                                 *)
LEMMA AlikeLet == Sem!VisitLet <=> Proved!VisitLet
BY DEF Sem!VisitLet, Proved!VisitLet, Sem!Visiting, Proved!Visiting, Sem!N,
   Proved!N, Sem!Top, Proved!Top, Sem!Depth, Proved!Depth, Sem!TypeNames,
   Proved!TypeNames, Sem!Throw, Proved!Throw, Sem!Go, Proved!Go, Sem!Accept,
   Proved!Accept, Sem!Frame, Proved!Frame, Sem!Entry, Proved!Entry,
   Sem!BindsVoid, Proved!BindsVoid, Sem!VOID, Proved!VOID, Sem!PrimType,
   Proved!PrimType, Sem!Define, Proved!Define, Sem!Bind, Proved!Bind,
   Sem!Bound, Proved!Bound, Sem!Sym, Proved!Sym, Sem!ParamTypes,
   Proved!ParamTypes, Sem!resolveTypeName, Proved!resolveTypeName,
   Sem!UNKNOWN, Proved!UNKNOWN, Sem!Variable, Proved!Variable, Sem!Typed,
   Proved!Typed, Sem!Leave, Proved!Leave

(* The visitor of AssignExpr.                                              *)
LEMMA AlikeAssign == Sem!VisitAssign <=> Proved!VisitAssign
BY DEF Sem!VisitAssign, Proved!VisitAssign, Sem!Visiting, Proved!Visiting,
   Sem!N, Proved!N, Sem!Top, Proved!Top, Sem!Depth, Proved!Depth, Sem!IsBound,
   Proved!IsBound, Sem!IsHolder, Proved!IsHolder, Sem!Declares,
   Proved!Declares, Sem!Go, Proved!Go, Sem!Accept, Proved!Accept, Sem!Frame,
   Proved!Frame, Sem!Entry, Proved!Entry, Sem!Holder, Proved!Holder,
   Sem!Throw, Proved!Throw, Sem!Typed, Proved!Typed, Sem!Leave, Proved!Leave,
   Sem!Bind, Proved!Bind, Sem!Context, Proved!Context

(* The visitor of FnLitExpr.                                               *)
LEMMA AlikeFnLit == Sem!VisitFnLit <=> Proved!VisitFnLit
BY DEF Sem!VisitFnLit, Proved!VisitFnLit, Sem!Visiting, Proved!Visiting,
   Sem!N, Proved!N, Sem!Top, Proved!Top, Sem!Depth, Proved!Depth,
   Sem!EnterFunction, Proved!EnterFunction, Sem!resolveTypeName,
   Proved!resolveTypeName, Sem!UnknownTypes, Proved!UnknownTypes,
   Sem!KnownTypes, Proved!KnownTypes, Sem!TypeNames, Proved!TypeNames,
   Sem!Context, Proved!Context, Sem!PrimType,
   Proved!PrimType, Sem!UNKNOWN, Proved!UNKNOWN, Sem!Extend, Proved!Extend,
   Sem!ParamScope, Proved!ParamScope, Sem!Variable, Proved!Variable, Sem!Sym,
   Proved!Sym, Sem!ParamTypes, Proved!ParamTypes, Sem!LastParam,
   Proved!LastParam, Sem!Child, Proved!Child, Sem!Accept, Proved!Accept,
   Sem!Frame, Proved!Frame, Sem!Entry, Proved!Entry, Sem!LeaveFunction,
   Proved!LeaveFunction, Sem!Parent, Proved!Parent, Sem!TrailingMismatch,
   Proved!TrailingMismatch, Sem!Statements, Proved!Statements, Sem!VOID,
   Proved!VOID, Sem!Expressions, Proved!Expressions, Sem!Throw, Proved!Throw,
   Sem!Typed, Proved!Typed, Sem!Leave, Proved!Leave, Sem!Bind, Proved!Bind

(* The visitor of CallExpr.                                                *)
LEMMA AlikeCall == Sem!VisitCall <=> Proved!VisitCall
BY DEF Sem!VisitCall, Proved!VisitCall, Sem!Visiting, Proved!Visiting, Sem!N,
   Proved!N, Sem!Top, Proved!Top, Sem!Depth, Proved!Depth, Sem!Go, Proved!Go,
   Sem!Accept, Proved!Accept, Sem!Frame, Proved!Frame, Sem!Entry,
   Proved!Entry, Sem!BadCount, Proved!BadCount, Sem!Arity, Proved!Arity,
   Sem!Signature, Proved!Signature, Sem!Resolve, Proved!Resolve, Sem!Holder,
   Proved!Holder, Sem!IsHolder, Proved!IsHolder, Sem!Declares,
   Proved!Declares, Sem!ParamTypes, Proved!ParamTypes, Sem!resolveTypeName,
   Proved!resolveTypeName, Sem!PrimType, Proved!PrimType, Sem!UNKNOWN, Proved!UNKNOWN, Sem!Throw, Proved!Throw,
   Sem!NextArgument, Proved!NextArgument, Sem!Typed, Proved!Typed, Sem!Leave,
   Proved!Leave, Sem!Bind, Proved!Bind, Sem!BadArgument, Proved!BadArgument,
   Sem!Context, Proved!Context

(* The visitor of ReturnStmt.                                              *)
LEMMA AlikeReturn == Sem!VisitReturn <=> Proved!VisitReturn
BY DEF Sem!VisitReturn, Proved!VisitReturn, Sem!Visiting, Proved!Visiting,
   Sem!N, Proved!N, Sem!Top, Proved!Top, Sem!Depth, Proved!Depth, Sem!Arity,
   Proved!Arity, Sem!Go, Proved!Go, Sem!Accept, Proved!Accept, Sem!Frame,
   Proved!Frame, Sem!Entry, Proved!Entry, Sem!VOID, Proved!VOID, Sem!PrimType,
   Proved!PrimType, Sem!ReturnMismatch, Proved!ReturnMismatch, Sem!UNKNOWN,
   Proved!UNKNOWN, Sem!Throw, Proved!Throw, Sem!Leave, Proved!Leave,
   Sem!Context, Proved!Context

(* The visitor of BlockStmt.                                               *)
LEMMA AlikeBlock == Sem!VisitBlock <=> Proved!VisitBlock
BY DEF Sem!VisitBlock, Proved!VisitBlock, Sem!Visiting, Proved!Visiting,
   Sem!N, Proved!N, Sem!Top, Proved!Top, Sem!Depth, Proved!Depth,
   Sem!EnterBlock, Proved!EnterBlock, Sem!Extend, Proved!Extend,
   Sem!NoBindings, Proved!NoBindings, Sem!Child, Proved!Child, Sem!Accept,
   Proved!Accept, Sem!Frame, Proved!Frame, Sem!Entry, Proved!Entry,
   Sem!LeaveBlock, Proved!LeaveBlock, Sem!Parent, Proved!Parent, Sem!Leave,
   Proved!Leave

(* The visitor of IfStmt.                                                  *)
LEMMA AlikeIf == Sem!VisitIf <=> Proved!VisitIf
BY DEF Sem!VisitIf, Proved!VisitIf, Sem!VisitInOrder, Proved!VisitInOrder,
   Sem!Visiting, Proved!Visiting, Sem!N, Proved!N, Sem!Top, Proved!Top,
   Sem!Depth, Proved!Depth, Sem!NextChild, Proved!NextChild, Sem!Arity,
   Proved!Arity, Sem!Go, Proved!Go, Sem!Accept, Proved!Accept, Sem!Frame,
   Proved!Frame, Sem!Entry, Proved!Entry, Sem!Leave, Proved!Leave,
   Sem!Context, Proved!Context

(* The visitor of WhileStmt.                                               *)
LEMMA AlikeWhile == Sem!VisitWhile <=> Proved!VisitWhile
BY DEF Sem!VisitWhile, Proved!VisitWhile, Sem!VisitInOrder,
   Proved!VisitInOrder, Sem!Visiting, Proved!Visiting, Sem!N, Proved!N,
   Sem!Top, Proved!Top, Sem!Depth, Proved!Depth, Sem!NextChild,
   Proved!NextChild, Sem!Arity, Proved!Arity, Sem!Go, Proved!Go, Sem!Accept,
   Proved!Accept, Sem!Frame, Proved!Frame, Sem!Entry, Proved!Entry, Sem!Leave,
   Proved!Leave, Sem!Context, Proved!Context

(* The visitor of StmtList.                                                *)
LEMMA AlikeStmtList == Sem!VisitStmtList <=> Proved!VisitStmtList
BY DEF Sem!VisitStmtList, Proved!VisitStmtList, Sem!VisitInOrder,
   Proved!VisitInOrder, Sem!Visiting, Proved!Visiting, Sem!N, Proved!N,
   Sem!Top, Proved!Top, Sem!Depth, Proved!Depth, Sem!NextChild,
   Proved!NextChild, Sem!Arity, Proved!Arity, Sem!Go, Proved!Go, Sem!Accept,
   Proved!Accept, Sem!Frame, Proved!Frame, Sem!Entry, Proved!Entry, Sem!Leave,
   Proved!Leave, Sem!Context, Proved!Context

(* A step of the pass.                                                     *)
LEMMA AlikeVisit == Sem!Visit <=> Proved!Visit
BY AlikeLiteral, AlikeIdent, AlikeUnary, AlikeBinOp, AlikeArray, AlikeDeref,
   AlikeLet, AlikeAssign, AlikeFnLit, AlikeCall, AlikeReturn, AlikeBlock,
   AlikeIf, AlikeWhile, AlikeStmtList DEF Sem!Visit, Proved!Visit

(* Its beginning.                                                          *)
LEMMA AlikeInit == Sem!Init <=> Proved!Init
BY DEF Sem!Init, Proved!Init, Sem!UNKNOWN, Proved!UNKNOWN, Sem!PrimType,
   Proved!PrimType, Sem!GlobalEnv, Proved!GlobalEnv, Sem!Global,
   Proved!Global, Sem!NoBindings, Proved!NoBindings

(* Its types.                                                              *)
LEMMA AlikeType == Sem!TypeOK <=> Proved!TypeOK
BY DEF Sem!TypeOK, Proved!TypeOK, Sem!Depth, Proved!Depth, Sem!IsEnv,
   Proved!IsEnv, Sem!Global, Proved!Global

(* What the theorems say, of the pipeline's pass.                          *)
LEMMA PassKeeps ==
    /\ Sem!Init => Proved!IInv
    /\ Proved!IInv => Sem!TypeOK
    /\ Proved!IInv /\ [(\E root \in Roots : Sem!Start(root)) \/ Sem!Visit]_<<semantic, notes>>
           => Proved!IInv'
<1>1. Sem!Init => Proved!IInv
  BY SyntaxAssumed, AlikeInit, Proved!InitSound
<1>2. Proved!IInv => Sem!TypeOK
  <2>1. Proved!IInv => Proved!TypeOK
    BY SyntaxAssumed, Proved!InvImplies
  <2> QED
    BY <2>1, AlikeType
<1>3. \A root : Sem!Start(root) <=> Proved!Start(root)
  BY DEF Sem!Start, Proved!Start, Sem!Entry, Proved!Entry, Sem!Frame, Proved!Frame
<1>4. Proved!IInv /\ [Proved!Next]_Proved!vars => Proved!IInv'
  BY SyntaxAssumed, Proved!NextInv
<1>5. (\E root \in Roots : Sem!Start(root)) \/ Sem!Visit => Proved!Next
  BY <1>3, AlikeVisit DEF Proved!Next
<1>6. UNCHANGED <<semantic, notes>> => UNCHANGED Proved!vars
  BY DEF semantic, Proved!vars
<1> QED
  BY <1>1, <1>2, <1>4, <1>5, <1>6

(* The generator reads annotations and makes none.                         *)
LEMMA NotesRead ==
    ASSUME Gen!Visit
    PROVE  UNCHANGED notes
<1>1. CASE Gen!VisitLiteral \/ Gen!VisitIdent \/ Gen!VisitUnary \/ Gen!VisitBinOp
           \/ Gen!VisitArray \/ Gen!VisitArrayDeref \/ Gen!VisitAssign
           \/ Gen!VisitCall \/ Gen!VisitReturn \/ Gen!VisitIf \/ Gen!VisitWhile
           \/ Gen!VisitStmtList
  BY <1>1 DEF Gen!VisitLiteral, Gen!VisitIdent, Gen!VisitUnary, Gen!VisitBinOp,
     Gen!VisitArray, Gen!VisitArrayDeref, Gen!VisitAssign, Gen!VisitCall,
     Gen!VisitReturn, Gen!VisitIf, Gen!VisitWhile, Gen!VisitStmtList, Gen!Context
<1>2. CASE Gen!VisitBlock
  BY <1>2 DEF Gen!VisitBlock
<1>3. \A lit, m, H : Gen!EnterFunction(lit, m, H) => UNCHANGED notes
  BY DEF Gen!EnterFunction
<1>4. \A lit : Gen!LeaveFunction(lit) => UNCHANGED notes
  BY DEF Gen!LeaveFunction
<1>5. CASE Gen!VisitFnLit \/ Gen!VisitLet
  BY <1>3, <1>4, <1>5 DEF Gen!VisitFnLit, Gen!VisitLet, Gen!LetFunction, Gen!Context
<1> QED
  BY <1>1, <1>2, <1>5 DEF Gen!Visit

(* Who has had its turn.                                                   *)
OnTurn ==
    /\ phase \in {"parse", "compile", "exit"}
    /\ status \in {0, 1, Aborted}
    /\ pass \in 0 .. Len(Passes) + 1
    /\ pass >= 2 => verdict = "ok"
    /\ genVerdict \in {"idle", "run", "ok", "error", "undefined"}
    /\ genVerdict # "idle" => verdict = "ok"

InTurn == Books /\ OnTurn /\ Proved!IInv

(* A step of the semantic pass, which has not come to its verdict.         *)
LEMMA TurnOfSemantic ==
    ASSUME InTurn, SemanticAnalysis
    PROVE  OnTurn' /\ Proved!IInv'
<1>1. tree \in Roots /\ pass = 1
  BY DEF InTurn, Books, SemanticAnalysis, Running, Passes
<1>2. verdict # "ok"
  BY DEF SemanticAnalysis, Sem!Start, Sem!Visit, Sem!VisitLiteral, Sem!VisitIdent,
     Sem!VisitUnary, Sem!VisitBinOp, Sem!VisitArray, Sem!VisitArrayDeref, Sem!VisitLet,
     Sem!VisitAssign, Sem!VisitFnLit, Sem!VisitCall, Sem!VisitReturn, Sem!VisitBlock,
     Sem!VisitIf, Sem!VisitWhile, Sem!VisitStmtList, Sem!VisitInOrder, Sem!Visiting
<1>3. OnTurn'
  BY <1>1, <1>2 DEF InTurn, OnTurn, SemanticAnalysis, main, gen
<1>4. Proved!IInv'
  BY <1>1, PassKeeps DEF InTurn, SemanticAnalysis
<1> QED
  BY <1>3, <1>4

(* A step of the generator, which runs when the semantic pass is done.     *)
LEMMA TurnOfGenerator ==
    ASSUME InTurn, LLVMIRGen
    PROVE  OnTurn' /\ Proved!IInv'
<1>1. UNCHANGED <<main, pass, semantic>> /\ pass = 2
  BY DEF LLVMIRGen, Running, Passes, InTurn, OnTurn
<1>2. UNCHANGED notes
  BY NotesRead DEF LLVMIRGen, Gen!Start, Gen!Step, Gen!FinishMain
<1>3. Proved!IInv'
  BY <1>1, <1>2, PassKeeps DEF InTurn
<1>4. genVerdict' \in {"run", "ok", "error", "undefined"}
  <2>1. CASE Gen!Start(tree)
    BY <2>1 DEF Gen!Start
  <2>2. CASE Gen!FinishMain
    BY <2>2 DEF Gen!FinishMain
  <2>3. CASE Gen!Visit
    <3>1. genVerdict = "run"
      BY <2>3 DEF Gen!Visit, Gen!VisitLiteral, Gen!VisitIdent, Gen!VisitUnary,
         Gen!VisitBinOp, Gen!VisitArray, Gen!VisitArrayDeref, Gen!VisitLet,
         Gen!VisitAssign, Gen!VisitFnLit, Gen!VisitCall, Gen!VisitReturn,
         Gen!VisitBlock, Gen!VisitIf, Gen!VisitWhile, Gen!VisitStmtList, Gen!Visiting
    <3>2. After
      BY <2>3, <3>1, StepVisit DEF InTurn, Books
    <3> QED
      BY <3>2 DEF After
  <2> QED
    BY <2>1, <2>2, <2>3 DEF LLVMIRGen, Gen!Step
<1>5. OnTurn'
  BY <1>1, <1>4 DEF InTurn, OnTurn, main, semantic, Passes
<1> QED
  BY <1>3, <1>5

(* main takes the passes in turn.                                          *)
LEMMA TurnsNext == InTurn /\ [Next]_vars => InTurn'
<1> SUFFICES ASSUME InTurn, [Next]_vars PROVE InTurn'
  OBVIOUS
<1>1. Books'
  BY BooksNext DEF InTurn
<1>2. SUFFICES OnTurn' /\ Proved!IInv'
  BY <1>1 DEF InTurn
<1>3. ASSUME UNCHANGED <<semantic, notes>>
      PROVE  Proved!IInv'
  BY <1>3, PassKeeps DEF InTurn
<1>4. ASSUME UNCHANGED gen, UNCHANGED semantic
      PROVE  UNCHANGED <<genVerdict, verdict>>
  BY <1>4 DEF gen, semantic
<1>5. CASE Parse
  BY <1>3, <1>4, <1>5 DEF InTurn, OnTurn, Parse, Exit, Passes
<1>6. CASE SemanticAnalysis
  BY <1>6, TurnOfSemantic
<1>7. CASE LLVMIRGen
  BY <1>7, TurnOfGenerator
<1>8. CASE NextPass
  <2>1. UNCHANGED <<genVerdict, verdict, main>> /\ Proved!IInv'
    BY <1>3, <1>4, <1>8 DEF NextPass
  <2>2. pass \in 1 .. 3 /\ pass' = pass + 1 /\ Len(Passes) = 3
    BY <1>8 DEF NextPass, Returned, Running, Passes
  <2>3. verdict = "ok"
    BY <1>8 DEF InTurn, OnTurn, NextPass, Returned, NoModule
  <2> QED
    BY <2>1, <2>2, <2>3 DEF InTurn, OnTurn, main
<1>9. CASE Catch \/ Output
  BY <1>3, <1>4, <1>9 DEF InTurn, OnTurn, Catch, Output, Exit, Passes
<1>10. CASE UNCHANGED vars
  BY <1>3, <1>4, <1>10 DEF InTurn, OnTurn, vars, main, Passes
<1> QED
  BY <1>5, <1>6, <1>7, <1>8, <1>9, <1>10 DEF Next, Compile

(* TypeOK: whatever is compiled, each pass has its turn when the ones      *)
(* before it have accepted the program (Compiler::run, compiler.hpp), and  *)
(* the semantic pass's scopes are paths of existing ones.                  *)
THEOREM TypeCorrect == Spec => []TypeOK
<1>1. Init => InTurn
  <2> SUFFICES ASSUME Init PROVE InTurn
    OBVIOUS
  <2>1. Books /\ Proved!IInv
    BY BooksInit, PassKeeps DEF Init
  <2>2. OnTurn
    BY DEF Init, Gen!Init, OnTurn, Passes
  <2> QED
    BY <2>1, <2>2 DEF InTurn
<1>2. InTurn => TypeOK
  BY PassKeeps DEF InTurn, OnTurn, TypeOK
<1> QED
  BY <1>1, <1>2, TurnsNext, PTL DEF Spec

-----------------------------------------------------------------------------
(* The scopes of the generator.                                            *)

(* The names bound in an environment.                                      *)
NamesIn(H, env) == UNION {DOMAIN H[env[i]] : i \in 1 .. Len(env)}

(* Scopes that have all the names they had.                                *)
Grown(H, H2) ==
    /\ IsSeq(H2)
    /\ Len(H) <= Len(H2)
    /\ \A i \in 1 .. Len(H) : DOMAIN H[i] \subseteq DOMAIN H2[i]

(* No environment loses a name by it.                                      *)
LEMMA NamesKept ==
    ASSUME NEW H, IsSeq(H), NEW H2, Grown(H, H2), NEW env, EnvIn(env, Len(H))
    PROVE  /\ NamesIn(H, env) \subseteq NamesIn(H2, env)
           /\ EnvIn(env, Len(H2))
           /\ Len(H) \in Nat /\ Len(H2) \in Nat
<1>1. Len(H) \in Nat /\ Len(H2) \in Nat /\ Len(H) <= Len(H2)
  BY LenProperties DEF Grown, IsSeq
<1>2. \A i \in 1 .. Len(env) : env[i] \in 1 .. Len(H)
  BY ElementOfSeq DEF EnvIn
<1>3. \A i \in 1 .. Len(env) : DOMAIN H[env[i]] \subseteq DOMAIN H2[env[i]]
  BY <1>2 DEF Grown
<1>4. NamesIn(H, env) \subseteq NamesIn(H2, env)
  BY <1>3 DEF NamesIn
<1>5. EnvIn(env, Len(H2))
  BY <1>1, EnvStays
<1> QED
  BY <1>1, <1>4, <1>5

(* It holds of one step after the other.                                   *)
LEMMA GrownOn ==
    ASSUME NEW H, IsSeq(H), NEW H2, Grown(H, H2), NEW H3, Grown(H2, H3)
    PROVE  Grown(H, H3)
<1>1. Len(H) \in Nat /\ Len(H2) \in Nat /\ Len(H3) \in Nat
  BY LenProperties DEF Grown, IsSeq
<1>2. \A i \in 1 .. Len(H) : i \in 1 .. Len(H2)
  BY <1>1 DEF Grown
<1> QED
  BY <1>1, <1>2 DEF Grown

(* And of scopes that stay as they are.                                    *)
LEMMA GrownSame ==
    ASSUME NEW H, IsSeq(H)
    PROVE  Grown(H, H)
BY LenProperties DEF Grown, IsSeq

(* A definition adds its name to the innermost scope.                      *)
LEMMA NameAdded ==
    ASSUME NEW H, IsSeq(H), NEW env, EnvIn(env, Len(H)), NEW x, NEW v
    PROVE  /\ Grown(H, Gen!Define(H, env, x, v))
           /\ Len(Gen!Define(H, env, x, v)) = Len(H)
           /\ x \in DOMAIN Gen!Define(H, env, x, v)[env[Len(env)]]
<1> DEFINE G == Gen!Define(H, env, x, v)
           l == env[Len(env)]
<1>1. Len(env) \in Nat \ {0} /\ l \in 1 .. Len(H) /\ Len(H) \in Nat
  BY LenProperties, ElementOfSeq DEF EnvIn, IsSeq
<1>2. IsSeq(G) /\ Len(G) = Len(H)
  BY <1>1, ExceptFacts DEF Gen!Define
<1>3. DOMAIN H = 1 .. Len(H)
  BY LenProperties DEF IsSeq
<1>4. /\ \A i \in 1 .. Len(H) : i # l => G[i] = H[i]
      /\ G[l] = Gen!Bind(H[l], x, v)
  BY <1>1, <1>3 DEF Gen!Define
<1>5. DOMAIN Gen!Bind(H[l], x, v) = DOMAIN H[l] \union {x}
  BY DEF Gen!Bind
<1> HIDE DEF G, l
<1>6. Grown(H, G)
  BY <1>1, <1>2, <1>4, <1>5 DEF Grown
<1>7. x \in DOMAIN G[l]
  BY <1>4, <1>5
<1> QED
  BY <1>2, <1>6, <1>7 DEF G, l

(* What the innermost scope has, the environment has.                      *)
LEMMA InnermostNamed ==
    ASSUME NEW H, NEW env, NEW m, EnvIn(env, m), NEW x, x \in DOMAIN H[env[Len(env)]]
    PROVE  x \in NamesIn(H, env)
<1>1. Len(env) \in 1 .. Len(env)
  BY LenProperties DEF EnvIn
<1> QED
  BY <1>1 DEF NamesIn

(* A new scope inside an environment.                                      *)
LEMMA ScopeMade ==
    ASSUME NEW H, IsSeq(H), NEW env, EnvIn(env, Len(H)), NEW H2, Grown(H, H2),
           Len(H2) = Len(H), NEW b
    PROVE  /\ Grown(H, Append(H2, b))
           /\ EnvIn(Append(env, Len(H) + 1), Len(Append(H2, b)))
           /\ Gen!Parent(Append(env, Len(H) + 1)) = env
           /\ NamesIn(H2, env) \subseteq NamesIn(Append(H2, b), Append(env, Len(H) + 1))
           /\ NamesIn(H2, env) \subseteq NamesIn(Append(H2, b), env)
<1> DEFINE G == Append(H2, b)
           c == Append(env, Len(H) + 1)
<1>1. /\ IsSeq(G) /\ Len(H2) \in Nat /\ Len(G) = Len(H2) + 1
      /\ \A i \in 1 .. Len(H2) : G[i] = H2[i]
  BY AppendFacts DEF Grown
<1>2. /\ EnvIn(c, Len(H) + 1) /\ Len(c) = Len(env) + 1
      /\ \A i \in 1 .. Len(env) : c[i] = env[i]
      /\ Parent(c) = env
  BY <1>1, EnvGrows
<1>3. Gen!Parent(c) = Parent(c)
  BY DEF Gen!Parent, Parent
<1>4. Len(env) \in Nat /\ \A i \in 1 .. Len(env) : env[i] \in 1 .. Len(H)
  BY LenProperties, ElementOfSeq DEF EnvIn
<1> HIDE DEF G, c
<1>5. Grown(H, G)
  BY <1>1 DEF Grown
<1>6. \A i \in 1 .. Len(env) : i \in 1 .. Len(c) /\ G[c[i]] = H2[env[i]] /\ G[env[i]] = H2[env[i]]
  BY <1>1, <1>2, <1>4
<1>7. /\ NamesIn(H2, env) \subseteq NamesIn(G, c)
      /\ NamesIn(H2, env) \subseteq NamesIn(G, env)
  BY <1>6 DEF NamesIn
<1> QED
  BY <1>1, <1>2, <1>3, <1>5, <1>7 DEF G, c

(* A name in scope is bound: the innermost scope that has it holds it.     *)
LEMMA NamedIsBound ==
    ASSUME NEW H, NEW m, NEW env, EnvIn(env, m), NEW x, x \in NamesIn(H, env)
    PROVE  Gen!IsBound(H, env, x)
<1> DEFINE T == {k \in Nat : \E i \in 1 .. Len(env) :
                               k = Len(env) - i /\ x \in DOMAIN H[env[i]]}
<1>1. Len(env) \in Nat
  BY LenProperties DEF EnvIn
<1>2. PICK i \in 1 .. Len(env) : x \in DOMAIN H[env[i]]
  BY DEF NamesIn
<1>3. Len(env) - i \in T
  BY <1>1, <1>2
<1>4. PICK k \in T : \A y \in T : k <= y
  <2>1. T \subseteq Nat /\ T # {}
    BY <1>3
  <2> HIDE DEF T
  <2> QED
    BY <2>1, LeastNumber
<1>5. PICK h \in 1 .. Len(env) : k = Len(env) - h /\ x \in DOMAIN H[env[h]]
  BY <1>4
<1>6. ASSUME NEW j \in h + 1 .. Len(env), x \in DOMAIN H[env[j]] PROVE FALSE
  <2>1. Len(env) - j \in T /\ Len(env) - j < k
    BY <1>1, <1>5, <1>6
  <2>2. k <= Len(env) - j /\ k \in Int
    BY <1>4, <2>1
  <2> QED
    BY <1>1, <2>1, <2>2
<1>7. Gen!IsHolder(H, env, h, x)
  BY <1>5, <1>6 DEF Gen!IsHolder, Gen!Declares
<1> QED
  BY <1>7 DEF Gen!IsBound

-----------------------------------------------------------------------------
(* The generator's walk along the record.                                  *)

(* A line of the record: the names in front of node n and behind it, and   *)
(* those between its children.                                             *)
Line(L, n, b, a, r) ==
    /\ <<n, b, a>> \in L
    /\ Proved!Heeded(n, b)
    /\ r[0] = Proved!Opened(n, b)
    /\ Proved!Chain(L, n, Proved!Count(n), r)
    /\ a = Proved!Closed(n, b, r[Proved!Count(n)])

(* Every node of the record has its line.                                  *)
LEMMA LineFound ==
    ASSUME NEW L, Proved!Lawful(L), NEW n, NEW b, NEW a, <<n, b, a>> \in L
    PROVE  n \in Node /\ \E r : Line(L, n, b, a, r)
<1>1. Proved!Rests(L, n, b, a)
  BY DEF Proved!Lawful
<1> QED
  BY <1>1 DEF Proved!Rests, Line

(* So has every child of a node.                                           *)
LEMMA KidLine ==
    ASSUME NEW L, Proved!Lawful(L), NEW n, NEW b, NEW a, NEW r, Line(L, n, b, a, r),
           NEW k \in 1 .. Proved!Count(n)
    PROVE  /\ <<Proved!Kid(n, k), r[k - 1], r[k]>> \in L
           /\ Proved!Kid(n, k) \in Node
           /\ \E q : Line(L, Proved!Kid(n, k), r[k - 1], r[k], q)
<1>1. <<Proved!Kid(n, k), r[k - 1], r[k]>> \in L
  BY DEF Line, Proved!Chain
<1> QED
  BY <1>1, LineFound

(* A let of a function literal visits the literal itself.                  *)
LetOfFunction(n) == Ast[n].kind = "Let" /\ Ast[Ast[n].kids[1]].kind = "FnLit"

(* The nodes whose visitors make a scope.                                  *)
MakesScope(n) == Ast[n].kind \in {"Block", "FnLit"} \/ LetOfFunction(n)

(* A visitor that has made its scope, and is in it.                        *)
Open(f) == f.pc = 1 /\ MakesScope(f.node)

(* The names at the place a visitor has come to.                           *)
Reached(f, b, r) == IF f.pc = 0 THEN b ELSE r[f.pc]

(* Visitor f is at its place in the record, inner the environment it works *)
(* in and named the names that are going to be bound there when its child  *)
(* has returned.                                                           *)
InPlace(L, f, H, b, a, r, inner, named) ==
    /\ f.node \in Node
    /\ f.pc \in 0 .. Proved!Count(f.node)
    /\ EnvIn(f.saved, Len(H))
    /\ Line(L, f.node, b, a, r)
    /\ IF Open(f)
       THEN Gen!Parent(inner) = f.saved /\ a \subseteq NamesIn(H, f.saved)
       ELSE inner = f.saved /\ Reached(f, b, r) \subseteq named

(* The walk on stack s in environment c follows the record L: every        *)
(* visitor is at its place, with the names B, A and S before, behind and   *)
(* between its children.                                                   *)
Follows(L, s, c, H, B, A, S) ==
    /\ IsSeq(s)
    /\ IsSeq(H)
    /\ EnvIn(c, Len(H))
    /\ \A i \in 1 .. Len(s) :
          InPlace(L, s[i], H, B[i], A[i], S[i], Level(s, c, i),
                  IF i = Len(s) THEN NamesIn(H, c) ELSE A[i + 1])

(* A function on the numbers with one value changed.                       *)
Put(F, k, x) == [i \in Nat |-> IF i = k THEN x ELSE F[i]]

(* A visitor stays in its place while scopes grow.                         *)
LEMMA PlaceKept ==
    ASSUME NEW L, NEW f, NEW H, IsSeq(H), NEW H2, Grown(H, H2), NEW b, NEW a, NEW r,
           NEW inner, NEW named, InPlace(L, f, H, b, a, r, inner, named),
           NEW named2, named \subseteq named2
    PROVE  InPlace(L, f, H2, b, a, r, inner, named2)
<1>1. EnvIn(f.saved, Len(H))
  BY DEF InPlace
<1>2. /\ NamesIn(H, f.saved) \subseteq NamesIn(H2, f.saved)
      /\ EnvIn(f.saved, Len(H2))
  BY <1>1, NamesKept
<1> QED
  BY <1>2 DEF InPlace

(* The visitor on top, now f, visits its next child, g.                    *)
Pushes(L, s, c, H, B, A, S, f, g, c2, H2, b, a, r) ==
    /\ Follows(L, s, c, H, B, A, S) /\ s # <<>>
    /\ f.saved = s[Len(s)].saved /\ g.saved = c2
    /\ Grown(H, H2) /\ EnvIn(c2, Len(H2))
    /\ InPlace(L, f, H2, B[Len(s)], A[Len(s)], S[Len(s)], c2, a)
    /\ InPlace(L, g, H2, b, a, r, c2, NamesIn(H2, c2))

(* The walk that visits a child follows the record.                        *)
LEMMA FollowsPushed ==
    ASSUME NEW L, NEW s, NEW c, NEW H, NEW B, NEW A, NEW S, NEW f, NEW g, NEW c2, NEW H2,
           NEW b, NEW a, NEW r, Pushes(L, s, c, H, B, A, S, f, g, c2, H2, b, a, r)
    PROVE  \E B2, A2, S2 : Follows(L, PushOver(s, f, g), c2, H2, B2, A2, S2)
<1> DEFINE m == Len(s)
           u == PushOver(s, f, g)
           B2 == Put(B, m + 1, b)
           A2 == Put(A, m + 1, a)
           S2 == Put(S, m + 1, r)
<1>0. /\ Follows(L, s, c, H, B, A, S) /\ s # <<>>
      /\ f.saved = s[m].saved /\ g.saved = c2
      /\ Grown(H, H2) /\ EnvIn(c2, Len(H2))
      /\ InPlace(L, f, H2, B[m], A[m], S[m], c2, a)
      /\ InPlace(L, g, H2, b, a, r, c2, NamesIn(H2, c2))
  BY DEF Pushes
<1>1. /\ IsSeq(s) /\ IsSeq(H) /\ EnvIn(c, Len(H))
      /\ \A i \in 1 .. m : InPlace(L, s[i], H, B[i], A[i], S[i], Level(s, c, i),
                                  IF i = m THEN NamesIn(H, c) ELSE A[i + 1])
  BY <1>0 DEF Follows
<1>2. IsSeq(u)
  BY <1>0, <1>1, PushFacts, Zenon
<1>3. /\ m \in Nat \ {0} /\ Len(u) = m + 1
      /\ \A i \in 1 .. m - 1 : u[i] = s[i]
      /\ u[m] = f /\ u[m + 1] = g
  BY <1>0, <1>1, PushFacts
<1>4. /\ \A i \in 1 .. m - 1 : Level(u, c2, i) = Level(s, c, i)
      /\ Level(u, c2, m) = c2 /\ Level(u, c2, m + 1) = c2
  BY <1>0, <1>1, LevelPushed
<1>5. /\ \A i \in 1 .. m : B2[i] = B[i] /\ A2[i] = A[i] /\ S2[i] = S[i]
      /\ B2[m + 1] = b /\ A2[m + 1] = a /\ S2[m + 1] = r
  BY <1>3 DEF Put
<1> HIDE DEF u, B2, A2, S2, m
<1>6. ASSUME NEW i \in 1 .. Len(u)
      PROVE  InPlace(L, u[i], H2, B2[i], A2[i], S2[i], Level(u, c2, i),
                     IF i = Len(u) THEN NamesIn(H2, c2) ELSE A2[i + 1])
  <2>1. CASE i = m + 1
    BY <1>0, <1>3, <1>4, <1>5, <2>1
  <2>2. CASE i = m
    <3>1. i # Len(u) /\ A2[i + 1] = a
      BY <1>3, <1>5, <2>2
    <3>2. i \in 1 .. m
      BY <1>3, <2>2
    <3> QED
      BY <1>0, <1>3, <1>4, <1>5, <2>2, <3>1, <3>2
  <2>3. CASE i \in 1 .. m - 1
    <3>1. i # Len(u) /\ i # m /\ i \in 1 .. m /\ i + 1 \in 1 .. m /\ A2[i + 1] = A[i + 1]
      BY <1>3, <1>5, <2>3
    <3>2. InPlace(L, s[i], H, B[i], A[i], S[i], Level(s, c, i), A[i + 1])
      BY <1>1, <3>1
    <3>3. InPlace(L, s[i], H2, B[i], A[i], S[i], Level(s, c, i), A[i + 1])
      BY <1>0, <1>1, <3>2, PlaceKept
    <3> QED
      BY <1>3, <1>4, <1>5, <2>3, <3>1, <3>3
  <2> QED
    BY <1>3, <2>1, <2>2, <2>3
<1>7. IsSeq(H2)
  BY <1>0 DEF Grown
<1>8. Follows(L, u, c2, H2, B2, A2, S2)
  BY <1>0, <1>2, <1>6, <1>7 DEF Follows
<1> QED
  BY <1>8 DEF u

(* The visitor on top returns.                                             *)
LEMMA FollowsPopped ==
    ASSUME NEW L, NEW s, NEW c, NEW H, NEW B, NEW A, NEW S, Follows(L, s, c, H, B, A, S),
           s # <<>>, NEW H2, Grown(H, H2),
           A[Len(s)] \subseteq NamesIn(H2, s[Len(s)].saved)
    PROVE  Follows(L, SubSeq(s, 1, Len(s) - 1), s[Len(s)].saved, H2, B, A, S)
<1> DEFINE m == Len(s)
           d == m - 1
           u == SubSeq(s, 1, d)
           c2 == s[m].saved
<1>1. /\ IsSeq(s) /\ IsSeq(H) /\ EnvIn(c, Len(H))
      /\ \A i \in 1 .. m : InPlace(L, s[i], H, B[i], A[i], S[i], Level(s, c, i),
                                  IF i = m THEN NamesIn(H, c) ELSE A[i + 1])
  BY DEF Follows
<1>2. m \in Nat \ {0}
  BY <1>1, EmptySeq, LenProperties DEF IsSeq
<1>3. d \in Nat /\ d + 1 = m /\ d \in 0 .. Len(s) - 1 /\ d \in 0 .. Len(s)
  BY <1>2
<1>4. /\ IsSeq(u) /\ Len(u) = d /\ \A i \in 1 .. d : u[i] = s[i]
      /\ \A i \in 1 .. d : Level(u, c2, i) = Level(s, c, i)
  <2>1. IsSeq(u) /\ Len(u) = d /\ \A i \in 1 .. d : u[i] = s[i]
    BY <1>1, <1>3, PopFacts
  <2>2. \A i \in 1 .. d : Level(SubSeq(s, 1, d), s[d + 1].saved, i) = Level(s, c, i)
    BY <1>1, <1>3, LevelPopped
  <2> QED
    BY <1>3, <2>1, <2>2
<1>5. EnvIn(c2, Len(H2))
  <2>1. EnvIn(c2, Len(H))
    BY <1>1, <1>2 DEF InPlace
  <2> QED
    BY <1>1, <2>1, NamesKept
<1>6. A[d + 1] \subseteq NamesIn(H2, c2)
  BY <1>3
<1> HIDE DEF u, c2, m
<1>7. ASSUME NEW i \in 1 .. Len(u)
      PROVE  InPlace(L, u[i], H2, B[i], A[i], S[i], Level(u, c2, i),
                     IF i = Len(u) THEN NamesIn(H2, c2) ELSE A[i + 1])
  <2>1. i \in 1 .. d /\ i \in 1 .. m /\ i # m
    BY <1>2, <1>4
  <2>2. InPlace(L, s[i], H, B[i], A[i], S[i], Level(s, c, i), A[i + 1])
    BY <1>1, <2>1
  <2>3. A[i + 1] \subseteq IF i = Len(u) THEN NamesIn(H2, c2) ELSE A[i + 1]
    BY <1>4, <1>6
  <2>4. InPlace(L, s[i], H2, B[i], A[i], S[i], Level(s, c, i),
                IF i = Len(u) THEN NamesIn(H2, c2) ELSE A[i + 1])
    BY <1>1, <2>2, <2>3, PlaceKept
  <2> QED
    BY <1>4, <2>1, <2>4
<1>8. Follows(L, u, c2, H2, B, A, S)
  BY <1>4, <1>5, <1>7 DEF Follows, Grown
<1> QED
  BY <1>8 DEF u, c2, m

-----------------------------------------------------------------------------
(* The parameters of a function.                                           *)

(* The pass has resolved the types that a literal names.                   *)
LEMMA Understood ==
    ASSUME NEW n, NEW b, Proved!Heeded(n, b), Ast[n].kind = "FnLit"
    PROVE  Gen!KnownTypes(Ast[n])
BY DEF Proved!Heeded, Proved!KnownTypes, Gen!KnownTypes, Proved!TypeNames, Gen!TypeNames

(* b is what the first i arguments have left: they are all among the names *)
(* LLVM knows, and what it knows has a symbol in the scope of the function.*)
ParamsIn(b, H, params, i) ==
    /\ Grown(H, b.syms)
    /\ Len(b.syms) = Len(H)
    /\ b.names \subseteq DOMAIN b.syms[genScope[Len(genScope)]]
    /\ \A j \in 1 .. i : params[j].name \in b.names

(* The next one gets its name, or another if that is taken.                *)
LEMMA ParamNamed ==
    ASSUME NEW H, IsSeq(H), EnvIn(genScope, Len(H)), NEW params, NEW i \in Nat \ {0},
           NEW b, ParamsIn(b, H, params, i - 1), NEW f
    PROVE  ParamsIn(NextSlot(b, i, f, params), H, params, i)
<1> DEFINE c == NextSlot(b, i, f, params)
           x == params[i].name
           l == genScope[Len(genScope)]
<1>1. PICK y, v : /\ c.syms = Gen!Define(b.syms, genScope, y, v)
                  /\ c.names = b.names \union {y}
                  /\ x \in b.names \/ y = x
  BY DEF NextSlot, Gen!Slot
<1>2. /\ IsSeq(b.syms) /\ Grown(H, b.syms) /\ Len(b.syms) = Len(H)
      /\ b.names \subseteq DOMAIN b.syms[l]
      /\ \A j \in 1 .. i - 1 : params[j].name \in b.names
  BY DEF ParamsIn, Grown
<1> HIDE DEF c
<1>3. l \in 1 .. Len(H)
  BY LenProperties, ElementOfSeq DEF EnvIn
<1> DEFINE G == Gen!Define(b.syms, genScope, y, v)
<1>4. EnvIn(genScope, Len(b.syms))
  BY <1>2
<1>5. Grown(b.syms, G) /\ Len(G) = Len(b.syms) /\ y \in DOMAIN G[l]
  BY <1>2, <1>4, NameAdded
<1>6. c.syms = G
  BY <1>1
<1> HIDE DEF G
<1>7. Grown(H, G) /\ Len(G) = Len(H)
  BY <1>2, <1>5, GrownOn
<1>8. DOMAIN b.syms[l] \subseteq DOMAIN G[l]
  BY <1>2, <1>3, <1>5 DEF Grown
<1>9. c.names \subseteq DOMAIN G[l]
  BY <1>1, <1>2, <1>5, <1>8
<1>10. ASSUME NEW j \in 1 .. i PROVE params[j].name \in c.names
  <2>1. CASE j = i
    BY <1>1, <2>1
  <2>2. CASE j # i
    <3>1. j \in 1 .. i - 1
      BY <2>2
    <3> QED
      BY <1>1, <1>2, <3>1
  <2> QED
    BY <2>1, <2>2
<1>11. ParamsIn(c, H, params, i)
  BY <1>6, <1>7, <1>9, <1>10 DEF ParamsIn
<1> QED
  BY <1>11 DEF c

AllNamed(G, H, params) ==
    /\ Grown(H, G)
    /\ Len(G) = Len(H)
    /\ \A j \in 1 .. Len(params) : params[j].name \in DOMAIN G[genScope[Len(genScope)]]

(* All have names when the function has begun, by the first that has none. *)
LEMMA ParametersNamed ==
    ASSUME NEW m, NEW f, NEW H, IsSeq(H), EnvIn(genScope, Len(H)),
           NEW params, Len(params) \in Nat, NEW ret
    PROVE  AllNamed(Gen!beginFn(m, H, f, ret, params).syms, H, params)
<1> PICK mm : mm = Gen!SetInsertPoint(Gen!NewBlock(m, f), Gen!LastBlock(Gen!NewBlock(m, f)))
  OBVIOUS
<1> DEFINE k == Len(params)
           g == CHOOSE g : Slots(g, k, mm, f, H, params)
           T == {i \in 0 .. k : ~ ParamsIn(g[i], H, params, i)}
<1>1. Slots(g, k, mm, f, H, params)
  BY SlotsExist
<1>2. Gen!ParamSlots(mm, f, H, params) = g[k]
  BY SlotsChosen
<1>3. Gen!beginFn(m, H, f, ret, params).syms = g[k].syms
  BY <1>2 DEF Gen!beginFn
<1> HIDE DEF g, k
<1>4. k \in Nat
  BY DEF k
<1>5. g[0].syms = H /\ g[0].names = {}
  BY <1>1, <1>4 DEF Slots, NoSlot
<1>6. \A i \in 1 .. k : g[i] = NextSlot(g[i - 1], i, f, params)
  BY <1>1, <1>4 DEF Slots
<1>7. ParamsIn(g[0], H, params, 0)
  BY <1>5, GrownSame DEF ParamsIn
<1>8. ASSUME T # {} PROVE FALSE
  <2>1. PICK x \in T : \A y \in T : x <= y
    <3>1. T \subseteq Nat
      BY <1>4
    <3> HIDE DEF T
    <3> QED
      BY <1>8, <3>1, LeastNumber
  <2>2. x # 0 /\ x \in 0 .. k /\ ~ ParamsIn(g[x], H, params, x)
    BY <1>7, <2>1
  <2>3. x \in 1 .. k /\ x \in Nat \ {0} /\ x - 1 \in 0 .. k /\ ~ (x <= x - 1)
    BY <1>4, <2>2
  <2>4. ParamsIn(g[x - 1], H, params, x - 1)
    BY <2>1, <2>3
  <2> HIDE DEF T
  <2>5. ParamsIn(NextSlot(g[x - 1], x, f, params), H, params, x)
    BY <2>3, <2>4, ParamNamed
  <2> QED
    BY <1>6, <2>2, <2>3, <2>5
<1>9. ParamsIn(g[k], H, params, k)
  BY <1>4, <1>8
<1>10. AllNamed(g[k].syms, H, params)
  BY <1>9 DEF ParamsIn, AllNamed, k
<1> QED
  BY <1>3, <1>10 DEF k

-----------------------------------------------------------------------------
(* The steps of the generator's visitors, as far as scopes and names are   *)
(* concerned.                                                              *)

(* What the semantic pass hands over, and the visitor on top at its place. *)
Handed(L) ==
    /\ Proved!Lawful(L)
    /\ Proved!Annotated(L, notes)
    /\ \A t \in Proved!IndexedBy(Node) : t \in DOMAIN notes => notes[t][1] = "array"

(* The visitor on top.                                                     *)
Visitor == genStk[Len(genStk)]

(* And its node.                                                           *)
Visited == Ast[Visitor.node]

(* The visitor on top is at its place in the record.                       *)
Stands(L, b, a, r) ==
    /\ genStk # <<>> /\ IsSeq(genStk)
    /\ IsSeq(genSyms) /\ EnvIn(genScope, Len(genSyms))
    /\ Handed(L)
    /\ InPlace(L, Visitor, genSyms, b, a, r, genScope, NamesIn(genSyms, genScope))

(* A name that is called is not visited.                                   *)
Skips == Visitor.pc = 0 /\ Visited.kind = "Call" /\ Ast[Visited.kids[1]].kind = "Ident"

(* To a child, in the same scope.                                          *)
Descends ==
    \E k \in 1 .. Proved!Count(Visitor.node) : \E o :
        /\ k = Visitor.pc + 1 \/ (k = 2 /\ Skips)
        /\ ~ MakesScope(Visitor.node)
        /\ genStk' = PushOver(genStk, Gen!Frame(Visitor.node, k, o, Visitor.saved),
                              Gen!Entry(Proved!Kid(Visitor.node, k), genScope))
        /\ UNCHANGED <<genScope, genSyms>>

(* Back from the last child; a let binds its name.                         *)
Ascends ==
    /\ \/ Visitor.pc = Proved!Count(Visitor.node)
       \/ Skips /\ Proved!Count(Visitor.node) = 1
    /\ ~ MakesScope(Visitor.node)
    /\ genStk' = SubSeq(genStk, 1, Len(genStk) - 1)
    /\ UNCHANGED genScope
    /\ \/ Visited.kind # "Let" /\ UNCHANGED genSyms
       \/ /\ Visited.kind = "Let"
          /\ \E v : genSyms' = Gen!Define(genSyms, genScope, Visited.name, v)

(* The names a function has before its body, and its body; a block's.      *)
Prepared(H, body) ==
    \/ Visited.kind = "Block" /\ body = Visited.kids[1]
    \/ /\ Visited.kind = "FnLit" /\ body = Visited.body
       /\ Proved!Params(Visitor.node) \subseteq NamesIn(H, genScope)
    \/ /\ Visited.kind = "Let" /\ body = Ast[Visited.kids[1]].body
       /\ Proved!Params(Visited.kids[1]) \union {Visited.name} \subseteq NamesIn(H, genScope)

(* Into a new scope.                                                       *)
Opens ==
    \E body, o, H :
        /\ Visitor.pc = 0 /\ MakesScope(Visitor.node)
        /\ Grown(genSyms, H) /\ Len(H) = Len(genSyms)
        /\ Prepared(H, body)
        /\ genScope' = Append(genScope, Len(genSyms) + 1)
        /\ genSyms' = Append(H, Gen!NoBindings)
        /\ genStk' = PushOver(genStk, Gen!Frame(Visitor.node, 1, o, Visitor.saved),
                              Gen!Entry(body, genScope'))

(* And out of it.                                                          *)
Closes ==
    /\ Visitor.pc = 1 /\ MakesScope(Visitor.node)
    /\ genStk' = SubSeq(genStk, 1, Len(genStk) - 1)
    /\ genScope' = Gen!Parent(genScope)
    /\ UNCHANGED genSyms

(* A step of the generator: an error of the two kinds, or a move.          *)
Moves ==
    /\ genVerdict' = "error" => RefusedCall \/ RefusedLiteral
    /\ genVerdict' = "run" => Descends \/ Ascends \/ Opens \/ Closes

(* A step to child k, whatever is kept and built.                          *)
GoesTo(k) == \E o, m : Gen!Go(k, o, m)

(* A return, whatever is built and left in val.                            *)
Finishes == \E m, v : Gen!Finish(m, v)

(* What is known of the visitor on top.                                    *)
LEMMA Standing ==
    ASSUME NEW L, NEW b, NEW a, NEW r, Stands(L, b, a, r)
    PROVE  /\ Gen!Depth = Len(genStk) /\ Gen!Top = Visitor /\ Gen!N = Visited
           /\ Gen!Arity = Len(Visited.kids)
           /\ Visitor.node \in Node /\ Visited.kind \in Kinds
           /\ Visited.kids \in Seq(Node) /\ DOMAIN Visited.kids = 1 .. Len(Visited.kids)
           /\ Len(Visited.kids) \in Nat /\ Len(Visited.kids) \in Arities(Visited.kind)
           /\ \A k \in 1 .. Len(Visited.kids) : Visited.kids[k] \in Node
           /\ Proved!Count(Visitor.node) \in Nat
           /\ Visitor.pc \in 0 .. Proved!Count(Visitor.node)
           /\ Visited.kind \notin {"Lit", "Ident", "FnLit"}
                  => /\ Proved!Count(Visitor.node) = Len(Visited.kids)
                     /\ \A k \in 1 .. Len(Visited.kids) :
                            Proved!Kid(Visitor.node, k) = Visited.kids[k]
           /\ Visited.kind \in {"Lit", "Ident"} => Proved!Count(Visitor.node) = 0
           /\ Visited.kind = "FnLit" => Proved!Count(Visitor.node) = 1
           /\ Line(L, Visitor.node, b, a, r) /\ Proved!Heeded(Visitor.node, b)
           /\ <<Visitor.node, b, a>> \in L
<1>1. Gen!Depth = Len(genStk) /\ Gen!Top = Visitor /\ Gen!N = Visited
  BY DEF Gen!Depth, Gen!Top, Gen!N, Visitor, Visited
<1>2. Gen!Arity = Len(Visited.kids)
  BY <1>1 DEF Gen!Arity
<1>3. /\ Visitor.node \in Node /\ Visitor.pc \in 0 .. Proved!Count(Visitor.node)
      /\ Line(L, Visitor.node, b, a, r) /\ Proved!Heeded(Visitor.node, b)
      /\ <<Visitor.node, b, a>> \in L
  BY DEF Stands, InPlace, Line
<1>4. /\ Visited.kids \in Seq(Node) /\ Visited.kind \in Kinds
      /\ Len(Visited.kids) \in Arities(Visited.kind)
  BY <1>3, SyntaxAssumption DEF Visited
<1>5. /\ Len(Visited.kids) \in Nat /\ DOMAIN Visited.kids = 1 .. Len(Visited.kids)
      /\ \A k \in 1 .. Len(Visited.kids) : Visited.kids[k] \in Node
  BY <1>4, LenProperties, ElementOfSeq
<1>6. /\ Visited.kind \notin {"Lit", "Ident", "FnLit"}
             => /\ Proved!Count(Visitor.node) = Len(Visited.kids)
                /\ \A k \in 1 .. Len(Visited.kids) :
                       Proved!Kid(Visitor.node, k) = Visited.kids[k]
      /\ Visited.kind \in {"Lit", "Ident"} => Proved!Count(Visitor.node) = 0
      /\ Visited.kind = "FnLit" => Proved!Count(Visitor.node) = 1
  BY DEF Proved!Count, Proved!Kid, Visited
<1>7. Proved!Count(Visitor.node) \in Nat
  BY <1>5, <1>6
<1> QED
  BY <1>1, <1>2, <1>3, <1>4, <1>5, <1>6, <1>7

(* A visitor that visits child after child in the scope it is called in.   *)
LEMMA PlainMoves ==
    ASSUME NEW L, NEW b, NEW a, NEW r, Stands(L, b, a, r),
           ~ MakesScope(Visitor.node), Visited.kind \notin {"Let", "FnLit"},
           UNCHANGED <<genScope, genSyms>>,
           \/ \E k \in 1 .. Proved!Count(Visitor.node) :
                  (k = Visitor.pc + 1 \/ (k = 2 /\ Skips)) /\ GoesTo(k)
           \/ /\ \/ Visitor.pc = Proved!Count(Visitor.node)
                 \/ Skips /\ Proved!Count(Visitor.node) = 1
              /\ Finishes
    PROVE  Moves
<1>1. /\ Gen!Depth = Len(genStk) /\ Gen!Top = Visitor /\ Gen!N = Visited
      /\ Visited.kind \notin {"Lit", "Ident", "FnLit"}
             => /\ Proved!Count(Visitor.node) = Len(Visited.kids)
                /\ \A k \in 1 .. Len(Visited.kids) :
                       Proved!Kid(Visitor.node, k) = Visited.kids[k]
      /\ Visited.kind \in {"Lit", "Ident"} => Proved!Count(Visitor.node) = 0
  BY Standing
<1>2. CASE \E k \in 1 .. Proved!Count(Visitor.node) :
              (k = Visitor.pc + 1 \/ (k = 2 /\ Skips)) /\ GoesTo(k)
  <2>1. PICK k \in 1 .. Proved!Count(Visitor.node) :
            (k = Visitor.pc + 1 \/ (k = 2 /\ Skips)) /\ GoesTo(k)
    BY <1>2
  <2>2. PICK o, m : Gen!Go(k, o, m)
    BY <2>1 DEF GoesTo
  <2>3. Proved!Kid(Visitor.node, k) = Visited.kids[k]
    BY <1>1, <2>1
  <2>4. genStk' = PushOver(genStk, Gen!Frame(Visitor.node, k, o, Visitor.saved),
                           Gen!Entry(Proved!Kid(Visitor.node, k), genScope))
    BY <1>1, <2>2, <2>3 DEF Gen!Go, Gen!Accept, PushOver
  <2>5. genVerdict' # "error"
    BY <2>2 DEF Gen!Go, Gen!Accept, Gen!Built
  <2>6. Descends
    BY <2>1, <2>4 DEF Descends
  <2> QED
    BY <2>5, <2>6 DEF Moves
<1>3. CASE /\ \/ Visitor.pc = Proved!Count(Visitor.node)
              \/ Skips /\ Proved!Count(Visitor.node) = 1
           /\ Finishes
  <2>1. genStk' = SubSeq(genStk, 1, Len(genStk) - 1) /\ genVerdict' # "error"
    BY <1>1, <1>3 DEF Finishes, Gen!Finish, Gen!Built
  <2>2. Ascends
    BY <1>3, <2>1 DEF Ascends
  <2> QED
    BY <2>1, <2>2 DEF Moves
<1> QED
  BY <1>2, <1>3

-----------------------------------------------------------------------------
(* The visitors that stay in the scope they are called in.                 *)

(* A literal: only an integer that is too large is refused.                *)
LEMMA MovesLiteral ==
    ASSUME NEW L, NEW b, NEW a, NEW r, Stands(L, b, a, r), Gen!VisitLiteral
    PROVE  Moves
<1>1. /\ Gen!Depth = Len(genStk) /\ Gen!Top = Visitor /\ Gen!N = Visited
      /\ Proved!Count(Visitor.node) \in Nat /\ Visitor.pc \in 0 .. Proved!Count(Visitor.node)
      /\ Visited.kind \in {"Lit", "Ident"} => Proved!Count(Visitor.node) = 0
  BY Standing
<1>2. Visited.kind = "Lit" /\ UNCHANGED <<genScope, genSyms>>
  BY <1>1 DEF Gen!VisitLiteral, Gen!Visiting, Gen!Context
<1>3. CASE Gen!IsInt(Visited.lit) /\ Gen!Data(Visited.lit) > Gen!MaxInt
  <2>1. genVerdict' = "error"
    BY <1>1, <1>3 DEF Gen!VisitLiteral, Gen!Throw
  <2>2. RefusedLiteral
    BY <1>2, <1>3 DEF RefusedLiteral, Visitor, Visited, Gen!IsInt, IsInt, Gen!Data, Data,
       Gen!Tid, Tid, Gen!PrimType, PrimType, Gen!MaxInt, MaxInt
  <2> QED
    BY <2>1, <2>2 DEF Moves
<1>4. CASE ~ (Gen!IsInt(Visited.lit) /\ Gen!Data(Visited.lit) > Gen!MaxInt)
  <2>1. Finishes
    BY <1>1, <1>4 DEF Gen!VisitLiteral, Finishes
  <2>2. ~ MakesScope(Visitor.node) /\ Visitor.pc = Proved!Count(Visitor.node)
    BY <1>1, <1>2 DEF MakesScope, LetOfFunction, Visited
  <2> QED
    BY <1>2, <2>1, <2>2, PlainMoves
<1> QED
  BY <1>3, <1>4

(* A name: the semantic pass has found it, so it is bound here too.        *)
LEMMA MovesIdent ==
    ASSUME NEW L, NEW b, NEW a, NEW r, Stands(L, b, a, r), Gen!VisitIdent
    PROVE  Moves
<1>1. /\ Gen!Depth = Len(genStk) /\ Gen!Top = Visitor /\ Gen!N = Visited
      /\ Proved!Count(Visitor.node) \in Nat /\ Visitor.pc \in 0 .. Proved!Count(Visitor.node)
      /\ Visited.kind \in {"Lit", "Ident"} => Proved!Count(Visitor.node) = 0
      /\ Proved!Heeded(Visitor.node, b)
  BY Standing
<1>2. Visited.kind = "Ident" /\ UNCHANGED <<genScope, genSyms>>
  BY <1>1 DEF Gen!VisitIdent, Gen!Visiting, Gen!Context
<1>3. /\ ~ MakesScope(Visitor.node) /\ Visitor.pc = Proved!Count(Visitor.node)
      /\ Visitor.pc = 0
  BY <1>1, <1>2 DEF MakesScope, LetOfFunction, Visited
<1>4. Gen!IsBound(genSyms, genScope, Visited.name)
  <2>1. Visited.name \in b
    BY <1>2, <1>1 DEF Proved!Heeded, Visited
  <2>2. b \subseteq NamesIn(genSyms, genScope) /\ EnvIn(genScope, Len(genSyms))
    BY <1>3 DEF Stands, InPlace, Open, Reached
  <2> QED
    BY <2>1, <2>2, NamedIsBound
<1>5. Finishes
  BY <1>1, <1>4 DEF Gen!VisitIdent, Finishes, Gen!FinishWith
<1> QED
  BY <1>2, <1>3, <1>5, PlainMoves

(* An operation on one operand.                                            *)
LEMMA MovesUnary ==
    ASSUME NEW L, NEW b, NEW a, NEW r, Stands(L, b, a, r), Gen!VisitUnary
    PROVE  Moves
<1>1. /\ Gen!Top = Visitor /\ Gen!N = Visited
      /\ Len(Visited.kids) \in Arities(Visited.kind)
      /\ Visited.kind \notin {"Lit", "Ident", "FnLit"}
             => Proved!Count(Visitor.node) = Len(Visited.kids)
  BY Standing
<1>2. Visited.kind = "Unary" /\ UNCHANGED <<genScope, genSyms>>
  BY <1>1 DEF Gen!VisitUnary, Gen!Visiting, Gen!Context
<1>3. Proved!Count(Visitor.node) = 1 /\ ~ MakesScope(Visitor.node)
  BY <1>1, <1>2 DEF Arities, MakesScope, LetOfFunction, Visited
<1>4. \/ Visitor.pc = 0 /\ GoesTo(1)
      \/ Visitor.pc = 1 /\ Finishes
  BY <1>1 DEF Gen!VisitUnary, GoesTo, Finishes, Gen!FinishWith
<1> QED
  BY <1>2, <1>3, <1>4, PlainMoves

(* An operation on two.                                                    *)
LEMMA MovesBinOp ==
    ASSUME NEW L, NEW b, NEW a, NEW r, Stands(L, b, a, r), Gen!VisitBinOp
    PROVE  Moves
<1>1. /\ Gen!Top = Visitor /\ Gen!N = Visited
      /\ Len(Visited.kids) \in Arities(Visited.kind)
      /\ Visited.kind \notin {"Lit", "Ident", "FnLit"}
             => Proved!Count(Visitor.node) = Len(Visited.kids)
  BY Standing
<1>2. Visited.kind = "BinOp" /\ UNCHANGED <<genScope, genSyms>>
  BY <1>1 DEF Gen!VisitBinOp, Gen!Visiting, Gen!Context
<1>3. Proved!Count(Visitor.node) = 2 /\ ~ MakesScope(Visitor.node)
  BY <1>1, <1>2 DEF Arities, MakesScope, LetOfFunction, Visited
<1>4. Gen!EvaluateRight => GoesTo(2)
  BY DEF Gen!EvaluateRight, GoesTo
<1>5. Gen!MergeOperands => Finishes
  BY DEF Gen!MergeOperands, Gen!FinishWith, Finishes
<1>6. \/ Visitor.pc = 0 /\ GoesTo(1)
      \/ Visitor.pc = 1 /\ GoesTo(2)
      \/ Visitor.pc = 2 /\ Finishes
  BY <1>1, <1>4, <1>5 DEF Gen!VisitBinOp, GoesTo, Finishes, Gen!FinishWith
<1> QED
  BY <1>2, <1>3, <1>6, PlainMoves

(* A child that is an expression has an annotation.                        *)
LEMMA KidAnnotated ==
    ASSUME NEW L, NEW b, NEW a, NEW r, Stands(L, b, a, r),
           Visited.kind \notin {"Lit", "Ident", "FnLit"},
           NEW k \in ValuePlaces(Visitor.node)
    PROVE  /\ Visited.kids[k] \in DOMAIN notes
           /\ k \in 1 .. Proved!Count(Visitor.node)
           /\ <<Visited.kids[k], r[k - 1], r[k]>> \in L
<1>1. /\ Visitor.node \in Node /\ Line(L, Visitor.node, b, a, r)
      /\ DOMAIN Visited.kids = 1 .. Len(Visited.kids) /\ Visited.kind \in Kinds
      /\ Visited.kids \in Seq(Node)
      /\ Len(Visited.kids) \in Nat /\ Len(Visited.kids) \in Arities(Visited.kind)
      /\ Visited.kind \notin {"Lit", "Ident", "FnLit"}
             => /\ Proved!Count(Visitor.node) = Len(Visited.kids)
                /\ \A j \in 1 .. Len(Visited.kids) :
                       Proved!Kid(Visitor.node, j) = Visited.kids[j]
  BY Standing
<1>2. /\ k \in DOMAIN Visited.kids
      /\ Ast[Visited.kids[k]].kind \in Expressions
  <2>1. \A j \in ValuePlaces(Visitor.node) : Ast[Ast[Visitor.node].kids[j]].kind \in Expressions
    BY <1>1, SyntaxAssumption
  <2>2. k \in DOMAIN Visited.kids
    BY <1>1 DEF ValuePlaces, Visited, Arities
  <2> QED
    BY <2>1, <2>2 DEF Visited
<1>3. k \in 1 .. Proved!Count(Visitor.node) /\ Proved!Kid(Visitor.node, k) = Visited.kids[k]
  BY <1>1, <1>2
<1>4. <<Visited.kids[k], r[k - 1], r[k]>> \in L
  BY <1>1, <1>3 DEF Line, Proved!Chain
<1>5. Proved!Annotated(L, notes)
  BY DEF Stands, Handed
<1>6. Ast[Visited.kids[k]].kind \in Proved!Expressions
  BY <1>2 DEF Expressions, Proved!Expressions
<1>7. Visited.kids[k] \in DOMAIN notes
  BY <1>4, <1>5, <1>6 DEF Proved!Annotated
<1> QED
  BY <1>3, <1>4, <1>7

(* An array: it has an annotation, as every expression the pass has seen.  *)
LEMMA MovesArray ==
    ASSUME NEW L, NEW b, NEW a, NEW r, Stands(L, b, a, r), Gen!VisitArray
    PROVE  Moves
<1>1. /\ Gen!Top = Visitor /\ Gen!N = Visited /\ Gen!Arity = Len(Visited.kids)
      /\ Len(Visited.kids) \in Nat /\ Visitor.pc \in 0 .. Proved!Count(Visitor.node)
      /\ Visited.kind \notin {"Lit", "Ident", "FnLit"}
             => Proved!Count(Visitor.node) = Len(Visited.kids)
      /\ <<Visitor.node, b, a>> \in L
  BY Standing
<1>2. Visited.kind = "Array" /\ UNCHANGED <<genScope, genSyms>>
  BY <1>1 DEF Gen!VisitArray, Gen!Visiting, Gen!Context
<1>3. Proved!Count(Visitor.node) = Len(Visited.kids) /\ ~ MakesScope(Visitor.node)
  BY <1>1, <1>2 DEF MakesScope, LetOfFunction, Visited
<1>4. Visitor.node \in DOMAIN notes
  BY <1>1, <1>2 DEF Stands, Handed, Proved!Annotated, Proved!Expressions, Visited
<1>5. \/ Visitor.pc = 0 /\ Len(Visited.kids) = 0 /\ Finishes
      \/ Visitor.pc = 0 /\ Len(Visited.kids) # 0 /\ GoesTo(1)
      \/ Visitor.pc > 0 /\ Visitor.pc < Len(Visited.kids) /\ GoesTo(Visitor.pc + 1)
      \/ Visitor.pc > 0 /\ ~ (Visitor.pc < Len(Visited.kids)) /\ Finishes
  BY <1>1, <1>4 DEF Gen!VisitArray, Gen!Annotated, GoesTo, Finishes, Gen!FinishWith
<1>6. \/ \E k \in 1 .. Proved!Count(Visitor.node) : k = Visitor.pc + 1 /\ GoesTo(k)
      \/ Visitor.pc = Proved!Count(Visitor.node) /\ Finishes
  BY <1>1, <1>3, <1>5
<1> QED
  BY <1>2, <1>3, <1>6, PlainMoves

(* An indexing: what is indexed has an annotation, and it is an array's.   *)
LEMMA MovesDeref ==
    ASSUME NEW L, NEW b, NEW a, NEW r, Stands(L, b, a, r), Gen!VisitArrayDeref
    PROVE  Moves
<1>1. /\ Gen!Top = Visitor /\ Gen!N = Visited /\ Visitor.node \in Node
      /\ DOMAIN Visited.kids = 1 .. Len(Visited.kids)
      /\ Len(Visited.kids) \in Arities(Visited.kind)
      /\ Visited.kind \notin {"Lit", "Ident", "FnLit"}
             => Proved!Count(Visitor.node) = Len(Visited.kids)
  BY Standing
<1>2. Visited.kind = "Deref" /\ UNCHANGED <<genScope, genSyms>>
  BY <1>1 DEF Gen!VisitArrayDeref, Gen!Visiting, Gen!Context
<1>3. /\ Proved!Count(Visitor.node) = 2 /\ Len(Visited.kids) = 2
      /\ ~ MakesScope(Visitor.node)
  BY <1>1, <1>2 DEF Arities, MakesScope, LetOfFunction, Visited
<1>4. 1 \in ValuePlaces(Visitor.node)
  BY <1>1, <1>2, <1>3 DEF ValuePlaces, Expressions, Visited
<1>5. Visited.kids[1] \in DOMAIN notes
  BY <1>2, <1>4, KidAnnotated
<1>6. Visited.kids[1] \in Proved!IndexedBy(Node)
  BY <1>1, <1>2 DEF Proved!IndexedBy, Visited
<1>7. notes[Visited.kids[1]][1] = "array"
  BY <1>5, <1>6 DEF Stands, Handed
<1>8. \/ Visitor.pc = 0 /\ GoesTo(1)
      \/ Visitor.pc = 1 /\ GoesTo(2)
      \/ Visitor.pc = 2 /\ Finishes
  BY <1>1, <1>5, <1>7 DEF Gen!VisitArrayDeref, Gen!Annotated, Gen!IsArrayType,
     GoesTo, Finishes, Gen!FinishWith
<1> QED
  BY <1>2, <1>3, <1>8, PlainMoves

(* An assignment: the semantic pass has found the variable.                *)
LEMMA MovesAssign ==
    ASSUME NEW L, NEW b, NEW a, NEW r, Stands(L, b, a, r), Gen!VisitAssign
    PROVE  Moves
<1>1. /\ Gen!Top = Visitor /\ Gen!N = Visited
      /\ Len(Visited.kids) \in Arities(Visited.kind)
      /\ Visited.kind \notin {"Lit", "Ident", "FnLit"}
             => Proved!Count(Visitor.node) = Len(Visited.kids)
      /\ Proved!Heeded(Visitor.node, b)
  BY Standing
<1>2. Visited.kind = "Assign" /\ UNCHANGED <<genScope, genSyms>>
  BY <1>1 DEF Gen!VisitAssign, Gen!Visiting, Gen!Context
<1>3. Proved!Count(Visitor.node) = 1 /\ ~ MakesScope(Visitor.node)
  BY <1>1, <1>2 DEF Arities, MakesScope, LetOfFunction, Visited
<1>4. ASSUME Visitor.pc = 0 PROVE Gen!IsBound(genSyms, genScope, Visited.name)
  <2>1. Visited.name \in b
    BY <1>2, <1>1 DEF Proved!Heeded, Visited
  <2>2. b \subseteq NamesIn(genSyms, genScope) /\ EnvIn(genScope, Len(genSyms))
    BY <1>4 DEF Stands, InPlace, Open, Reached
  <2> QED
    BY <2>1, <2>2, NamedIsBound
<1>5. \/ Visitor.pc = 0 /\ GoesTo(1)
      \/ Visitor.pc = 1 /\ Finishes
  BY <1>1, <1>4 DEF Gen!VisitAssign, GoesTo, Finishes
<1> QED
  BY <1>2, <1>3, <1>5, PlainMoves

(* A return.                                                               *)
LEMMA MovesReturn ==
    ASSUME NEW L, NEW b, NEW a, NEW r, Stands(L, b, a, r), Gen!VisitReturn
    PROVE  Moves
<1>1. /\ Gen!Top = Visitor /\ Gen!N = Visited /\ Gen!Arity = Len(Visited.kids)
      /\ Len(Visited.kids) \in Arities(Visited.kind)
      /\ Visited.kind \notin {"Lit", "Ident", "FnLit"}
             => Proved!Count(Visitor.node) = Len(Visited.kids)
      /\ Visitor.pc \in 0 .. Proved!Count(Visitor.node)
  BY Standing
<1>2. Visited.kind = "Return" /\ UNCHANGED <<genScope, genSyms>>
  BY <1>1 DEF Gen!VisitReturn, Gen!Visiting, Gen!Context
<1>3. Proved!Count(Visitor.node) = Len(Visited.kids) /\ ~ MakesScope(Visitor.node)
  BY <1>1, <1>2 DEF MakesScope, LetOfFunction, Visited
<1>4. \/ Len(Visited.kids) = 0 /\ Finishes
      \/ Len(Visited.kids) = 1 /\ Visitor.pc = 0 /\ GoesTo(1)
      \/ Len(Visited.kids) = 1 /\ Visitor.pc = 1 /\ Finishes
  BY <1>1 DEF Gen!VisitReturn, GoesTo, Finishes
<1>5. \/ \E k \in 1 .. Proved!Count(Visitor.node) : k = Visitor.pc + 1 /\ GoesTo(k)
      \/ Visitor.pc = Proved!Count(Visitor.node) /\ Finishes
  <2>1. CASE Len(Visited.kids) = 0 /\ Finishes
    BY <1>1, <1>3, <2>1
  <2>2. CASE Len(Visited.kids) = 1 /\ Visitor.pc = 0 /\ GoesTo(1)
    BY <1>3, <2>2
  <2>3. CASE Len(Visited.kids) = 1 /\ Visitor.pc = 1 /\ Finishes
    BY <1>3, <2>3
  <2> QED
    BY <1>4, <2>1, <2>2, <2>3
<1> QED
  BY <1>2, <1>3, <1>5, PlainMoves

(* The statements of a list.                                               *)
LEMMA MovesStmtList ==
    ASSUME NEW L, NEW b, NEW a, NEW r, Stands(L, b, a, r), Gen!VisitStmtList
    PROVE  Moves
<1>1. /\ Gen!Top = Visitor /\ Gen!N = Visited /\ Gen!Arity = Len(Visited.kids)
      /\ Len(Visited.kids) \in Nat
      /\ Visited.kind \notin {"Lit", "Ident", "FnLit"}
             => Proved!Count(Visitor.node) = Len(Visited.kids)
      /\ Visitor.pc \in 0 .. Proved!Count(Visitor.node)
  BY Standing
<1>2. Visited.kind = "StmtList" /\ UNCHANGED <<genScope, genSyms>>
  BY <1>1 DEF Gen!VisitStmtList, Gen!Visiting, Gen!Context
<1>3. Proved!Count(Visitor.node) = Len(Visited.kids) /\ ~ MakesScope(Visitor.node)
  BY <1>1, <1>2 DEF MakesScope, LetOfFunction, Visited
<1>4. IF Visitor.pc < Len(Visited.kids) THEN GoesTo(Visitor.pc + 1) ELSE Finishes
  BY <1>1 DEF Gen!VisitStmtList, GoesTo, Finishes
<1>5. \/ \E k \in 1 .. Proved!Count(Visitor.node) : k = Visitor.pc + 1 /\ GoesTo(k)
      \/ Visitor.pc = Proved!Count(Visitor.node) /\ Finishes
  BY <1>1, <1>3, <1>4
<1> QED
  BY <1>2, <1>3, <1>5, PlainMoves

(* The conditions and branches of an if, in the order of the text.         *)
LEMMA MovesIf ==
    ASSUME NEW L, NEW b, NEW a, NEW r, Stands(L, b, a, r), Gen!VisitIf
    PROVE  Moves
<1>1. /\ Gen!Top = Visitor /\ Gen!N = Visited /\ Gen!Arity = Len(Visited.kids)
      /\ Len(Visited.kids) \in Arities(Visited.kind)
      /\ Visited.kind \notin {"Lit", "Ident", "FnLit"}
             => Proved!Count(Visitor.node) = Len(Visited.kids)
      /\ Visitor.pc \in 0 .. Proved!Count(Visitor.node)
  BY Standing
<1>2. Visited.kind = "If" /\ UNCHANGED <<genScope, genSyms>>
  BY <1>1 DEF Gen!VisitIf, Gen!Visiting, Gen!Context
<1>3. /\ Proved!Count(Visitor.node) = Len(Visited.kids) /\ ~ MakesScope(Visitor.node)
      /\ Len(Visited.kids) \in Nat \ {0, 1}
  BY <1>1, <1>2 DEF MakesScope, LetOfFunction, Visited, Arities
<1>4. Gen!EnterBranch => GoesTo(Visitor.pc + 1)
  BY <1>1 DEF Gen!EnterBranch, GoesTo
<1>5. Gen!LeaveBranch => IF Visitor.pc < Len(Visited.kids) THEN GoesTo(Visitor.pc + 1)
                                                            ELSE Finishes
  BY <1>1 DEF Gen!LeaveBranch, GoesTo, Finishes
<1>6. Gen!LeaveElse => Finishes
  BY DEF Gen!LeaveElse, Finishes
<1>7. \/ Visitor.pc = 0 /\ GoesTo(1)
      \/ Visitor.pc < Len(Visited.kids) /\ GoesTo(Visitor.pc + 1)
      \/ ~ (Visitor.pc < Len(Visited.kids)) /\ Finishes
  <2>1. CASE Visitor.pc = 0 /\ Gen!Go(1, <<>>, ir)
    BY <2>1 DEF GoesTo
  <2>2. CASE Gen!IsCondition(Visitor.pc) /\ Gen!EnterBranch
    BY <1>1, <1>4, <2>2 DEF Gen!IsCondition
  <2>3. CASE Gen!LeaveBranch
    BY <1>5, <2>3
  <2>4. CASE Visitor.pc = Len(Visited.kids) /\ Gen!LeaveElse
    BY <1>3, <1>6, <2>4
  <2> QED
    BY <1>1, <2>1, <2>2, <2>3, <2>4 DEF Gen!VisitIf
<1>8. \/ \E k \in 1 .. Proved!Count(Visitor.node) : k = Visitor.pc + 1 /\ GoesTo(k)
      \/ Visitor.pc = Proved!Count(Visitor.node) /\ Finishes
  BY <1>1, <1>3, <1>7
<1> QED
  BY <1>2, <1>3, <1>8, PlainMoves

(* A loop's condition and its body.                                        *)
LEMMA MovesWhile ==
    ASSUME NEW L, NEW b, NEW a, NEW r, Stands(L, b, a, r), Gen!VisitWhile
    PROVE  Moves
<1>1. /\ Gen!Top = Visitor /\ Gen!N = Visited
      /\ Len(Visited.kids) \in Arities(Visited.kind)
      /\ Visited.kind \notin {"Lit", "Ident", "FnLit"}
             => Proved!Count(Visitor.node) = Len(Visited.kids)
  BY Standing
<1>2. Visited.kind = "While" /\ UNCHANGED <<genScope, genSyms>>
  BY <1>1 DEF Gen!VisitWhile, Gen!Visiting, Gen!Context
<1>3. Proved!Count(Visitor.node) = 2 /\ ~ MakesScope(Visitor.node)
  BY <1>1, <1>2 DEF Arities, MakesScope, LetOfFunction, Visited
<1>4. /\ Gen!EnterLoop => GoesTo(1)
      /\ Gen!EnterLoopBody => GoesTo(2)
      /\ Gen!LeaveLoop => Finishes
  BY DEF Gen!EnterLoop, Gen!EnterLoopBody, Gen!LeaveLoop, GoesTo, Finishes
<1>5. \/ Visitor.pc = 0 /\ GoesTo(1)
      \/ Visitor.pc = 1 /\ GoesTo(2)
      \/ Visitor.pc = 2 /\ Finishes
  BY <1>1, <1>4 DEF Gen!VisitWhile
<1> QED
  BY <1>2, <1>3, <1>5, PlainMoves

(* A call: refused if the callee is not a name, or not one of a function.  *)
LEMMA MovesCall ==
    ASSUME NEW L, NEW b, NEW a, NEW r, Stands(L, b, a, r), Gen!VisitCall
    PROVE  Moves
<1>1. /\ Gen!Top = Visitor /\ Gen!N = Visited /\ Gen!Arity = Len(Visited.kids)
      /\ Visitor.node \in Node
      /\ DOMAIN Visited.kids = 1 .. Len(Visited.kids)
      /\ Len(Visited.kids) \in Arities(Visited.kind)
      /\ Visited.kind \notin {"Lit", "Ident", "FnLit"}
             => Proved!Count(Visitor.node) = Len(Visited.kids)
      /\ Visitor.pc \in 0 .. Proved!Count(Visitor.node)
      /\ Line(L, Visitor.node, b, a, r)
  BY Standing
<1>2. Visited.kind = "Call" /\ UNCHANGED <<genScope, genSyms>>
  BY <1>1 DEF Gen!VisitCall, Gen!Visiting, Gen!Context
<1>3. /\ Proved!Count(Visitor.node) = Len(Visited.kids) /\ ~ MakesScope(Visitor.node)
      /\ Len(Visited.kids) \in Nat \ {0}
  BY <1>1, <1>2 DEF MakesScope, LetOfFunction, Visited, Arities
<1> DEFINE callee == Ast[Visited.kids[1]]
<1>4. CASE Visitor.pc = 0 /\ Gen!Callee = 0
  <2>1. ASSUME callee.kind = "Ident"
        PROVE  Gen!IsBound(genSyms, genScope, callee.name)
    <3>1. 1 \in ValuePlaces(Visitor.node)
      BY <1>1, <1>2, <1>3 DEF ValuePlaces, Expressions, Visited
    <3>2. <<Visited.kids[1], r[1 - 1], r[1]>> \in L
      BY <1>2, <3>1, KidAnnotated
    <3>3. Proved!Heeded(Visited.kids[1], r[0])
      BY <3>2 DEF Stands, Handed, Proved!Lawful, Proved!Rests
    <3>4. r[0] = b
      BY <1>1, <1>2 DEF Line, Proved!Opened, Visited
    <3>5. callee.name \in b
      BY <2>1, <3>3, <3>4 DEF Proved!Heeded
    <3>6. b \subseteq NamesIn(genSyms, genScope) /\ EnvIn(genScope, Len(genSyms))
      BY <1>4 DEF Stands, InPlace, Open, Reached
    <3> QED
      BY <3>5, <3>6, NamedIsBound
  <2>2. genVerdict' = "error"
    BY <1>1, <1>4 DEF Gen!VisitCall, Gen!Throw
  <2>3. RefusedCall
    BY <1>2, <2>1 DEF RefusedCall, Visitor, Visited
  <2> QED
    BY <2>2, <2>3 DEF Moves
<1>5. CASE ~ (Visitor.pc = 0 /\ Gen!Callee = 0)
  <2>1. Visitor.pc = 0 => Skips
    BY <1>1, <1>2, <1>5 DEF Gen!Callee, Skips
  <2>2. IF Visitor.pc = 0 /\ Len(Visited.kids) > 1 THEN GoesTo(2)
        ELSE IF 0 < Visitor.pc /\ Visitor.pc < Len(Visited.kids) THEN GoesTo(Visitor.pc + 1)
        ELSE Finishes
    BY <1>1, <1>5 DEF Gen!VisitCall, GoesTo, Finishes, Gen!FinishWith
  <2>3. \/ \E k \in 1 .. Proved!Count(Visitor.node) :
               (k = Visitor.pc + 1 \/ (k = 2 /\ Skips)) /\ GoesTo(k)
        \/ /\ \/ Visitor.pc = Proved!Count(Visitor.node)
              \/ Skips /\ Proved!Count(Visitor.node) = 1
           /\ Finishes
    <3>1. CASE Visitor.pc = 0 /\ Len(Visited.kids) > 1
      <4>1. 2 \in 1 .. Proved!Count(Visitor.node) /\ Skips /\ GoesTo(2)
        BY <1>3, <2>1, <2>2, <3>1
      <4> QED
        BY <4>1
    <3>2. CASE 0 < Visitor.pc /\ Visitor.pc < Len(Visited.kids)
      <4>1. Visitor.pc + 1 \in 1 .. Proved!Count(Visitor.node) /\ GoesTo(Visitor.pc + 1)
        BY <1>1, <1>3, <2>2, <3>2
      <4> QED
        BY <4>1
    <3>3. CASE Visitor.pc = 0 /\ ~ (Len(Visited.kids) > 1)
      <4>1. Len(Visited.kids) = 1
        <5>1. PICK n \in Nat \ {0} : n = Len(Visited.kids)
          BY <1>3
        <5>2. ~ (n > 1)
          BY <3>3, <5>1
        <5>3. n = 1
          BY <5>2
        <5> QED
          BY <5>1, <5>3
      <4>2. ~ (0 < Visitor.pc)
        BY <3>3
      <4> QED
        BY <1>3, <2>1, <2>2, <3>3, <4>1, <4>2
    <3>4. CASE 0 < Visitor.pc /\ ~ (Visitor.pc < Len(Visited.kids))
      <4>1. Visitor.pc = Proved!Count(Visitor.node) /\ Finishes
        BY <1>1, <1>3, <2>2, <3>4
      <4> QED
        BY <4>1
    <3>5. Visitor.pc = 0 \/ 0 < Visitor.pc
      BY <1>1, <1>3
    <3> QED
      BY <3>1, <3>2, <3>3, <3>4, <3>5
  <2> QED
    BY <1>2, <1>3, <2>3, PlainMoves
<1> QED
  BY <1>4, <1>5

-----------------------------------------------------------------------------
(* The visitors that make a scope, and the let.                            *)

(* Into a function's body: the parameters are bound around it.             *)
LEMMA FunctionOpens ==
    ASSUME NEW L, NEW b, NEW a, NEW r, Stands(L, b, a, r),
           Visitor.pc = 0, MakesScope(Visitor.node),
           NEW n \in Node, Ast[n].kind = "FnLit",
           NEW H, Grown(genSyms, H), Len(H) = Len(genSyms),
           \E m : Gen!EnterFunction(Ast[n], m, H)
    PROVE  /\ genVerdict' # "error"
           /\ \E G : /\ Grown(H, G)
                     /\ Proved!Params(n) \subseteq NamesIn(G, genScope)
                     /\ Prepared(G, Ast[n].body) => Opens
<1>1. Gen!Depth = Len(genStk) /\ Gen!Top = Visitor
  BY Standing
<1>2. IsSeq(H) /\ EnvIn(genScope, Len(H)) /\ IsSeq(genSyms)
  BY DEF Stands, Grown
<1>3. PICK m : Gen!EnterFunction(Ast[n], m, H)
  OBVIOUS
<1> DEFINE lit == Ast[n]
<1>4. /\ Len(lit.params) \in Nat /\ DOMAIN lit.params = 1 .. Len(lit.params)
  BY SyntaxAssumption DEF IsFunctionLiteral
<1>5. PICK ret, f, body : /\ body = Gen!beginFn(m, H, f, ret, lit.params)
                          /\ genSyms' = Gen!Extend(body.syms, Gen!NoBindings)
                          /\ genScope' = Gen!Child(genSyms, genScope)
                          /\ \E o : Gen!Accept(lit.body, 1, o, genScope', body.ir)
  BY <1>3 DEF Gen!EnterFunction
<1>6. AllNamed(body.syms, H, lit.params)
  BY <1>2, <1>4, <1>5, ParametersNamed
<1>7. Grown(H, body.syms) /\ Len(body.syms) = Len(genSyms)
  BY <1>6 DEF AllNamed
<1>8. Proved!Params(n) \subseteq NamesIn(body.syms, genScope)
  <2> SUFFICES ASSUME NEW j \in DOMAIN lit.params
               PROVE  lit.params[j].name \in NamesIn(body.syms, genScope)
    BY DEF Proved!Params
  <2>1. lit.params[j].name \in DOMAIN body.syms[genScope[Len(genScope)]]
    BY <1>4, <1>6 DEF AllNamed
  <2> QED
    BY <1>2, <2>1, InnermostNamed
<1>9. PICK o : Gen!Accept(lit.body, 1, o, genScope', body.ir)
  BY <1>5
<1>10. genVerdict' # "error"
  BY <1>9 DEF Gen!Accept, Gen!Built
<1>11. ASSUME Prepared(body.syms, lit.body) PROVE Opens
  <2>1. Grown(genSyms, body.syms)
    BY <1>2, <1>7, GrownOn
  <2>2. /\ genScope' = Append(genScope, Len(genSyms) + 1)
        /\ genSyms' = Append(body.syms, Gen!NoBindings)
    BY <1>5 DEF Gen!Child, Gen!Extend
  <2>3. genStk' = PushOver(genStk, Gen!Frame(Visitor.node, 1, o, Visitor.saved),
                           Gen!Entry(lit.body, genScope'))
    BY <1>1, <1>9 DEF Gen!Accept, PushOver
  <2> QED
    BY <1>7, <1>11, <2>1, <2>2, <2>3 DEF Opens
<1> QED
  BY <1>7, <1>8, <1>10, <1>11

(* Out of it.                                                              *)
LEMMA FunctionLeaves ==
    ASSUME NEW L, NEW b, NEW a, NEW r, Stands(L, b, a, r),
           Visitor.pc = 1, MakesScope(Visitor.node), NEW lit, Gen!LeaveFunction(lit)
    PROVE  Moves
<1>1. Gen!Depth = Len(genStk) /\ Gen!Top = Visitor
  BY Standing
<1>2. /\ genStk' = SubSeq(genStk, 1, Len(genStk) - 1) /\ genVerdict' # "error"
      /\ genScope' = Gen!Parent(genScope) /\ UNCHANGED genSyms
  BY <1>1 DEF Gen!LeaveFunction, Gen!Finish, Gen!Built
<1>3. Closes
  BY <1>2 DEF Closes
<1> QED
  BY <1>2, <1>3 DEF Moves

(* A function literal.                                                     *)
LEMMA MovesFnLit ==
    ASSUME NEW L, NEW b, NEW a, NEW r, Stands(L, b, a, r), Gen!VisitFnLit
    PROVE  Moves
<1>1. Gen!Top = Visitor /\ Gen!N = Visited /\ Visitor.node \in Node
      /\ Proved!Heeded(Visitor.node, b)
  BY Standing
<1>2. Visited.kind = "FnLit" /\ MakesScope(Visitor.node)
  BY <1>1 DEF Gen!VisitFnLit, Gen!Visiting, MakesScope, Visited
<1>3. CASE Visitor.pc = 0 /\ Gen!EnterFunction(Visited, Gen!declareFn(ir, Visited), genSyms)
  <2>1. \E m : Gen!EnterFunction(Ast[Visitor.node], m, genSyms)
    BY <1>3 DEF Visited
  <2>2. Grown(genSyms, genSyms) /\ IsSeq(genSyms)
    BY GrownSame DEF Stands
  <2>3. PICK n \in Node : n = Visitor.node
    BY <1>1
  <2>4. PICK H : H = genSyms
    OBVIOUS
  <2>5. /\ genVerdict' # "error"
        /\ \E G : /\ Grown(H, G)
                  /\ Proved!Params(n) \subseteq NamesIn(G, genScope)
                  /\ Prepared(G, Ast[n].body) => Opens
    BY <1>2, <1>3, <2>1, <2>2, <2>3, <2>4, FunctionOpens DEF Visited
  <2>6. PICK G : /\ Grown(H, G)
                 /\ Proved!Params(n) \subseteq NamesIn(G, genScope)
                 /\ Prepared(G, Ast[n].body) => Opens
    BY <2>5
  <2>7. Prepared(G, Ast[n].body)
    BY <1>2, <2>3, <2>6 DEF Prepared, Visited
  <2> QED
    BY <2>5, <2>6, <2>7 DEF Moves
<1>4. CASE Visitor.pc = 1 /\ Gen!LeaveFunction(Visited)
  BY <1>2, <1>4, FunctionLeaves
<1>5. Gen!KnownTypes(Visited)
  BY <1>1, <1>2, Understood DEF Visited
<1> QED
  BY <1>1, <1>3, <1>4, <1>5 DEF Gen!VisitFnLit

(* A block.                                                                *)
LEMMA MovesBlock ==
    ASSUME NEW L, NEW b, NEW a, NEW r, Stands(L, b, a, r), Gen!VisitBlock
    PROVE  Moves
<1>1. Gen!Depth = Len(genStk) /\ Gen!Top = Visitor /\ Gen!N = Visited
  BY Standing
<1>2. Visited.kind = "Block" /\ MakesScope(Visitor.node) /\ IsSeq(genSyms)
  BY <1>1 DEF Gen!VisitBlock, Gen!Visiting, MakesScope, Visited, Stands
<1>3. CASE Gen!EnterBlock
  <2>1. /\ Visitor.pc = 0
        /\ genSyms' = Append(genSyms, Gen!NoBindings)
        /\ genScope' = Append(genScope, Len(genSyms) + 1)
        /\ Gen!Accept(Visited.kids[1], 1, <<>>, genScope', ir)
    BY <1>1, <1>3 DEF Gen!EnterBlock, Gen!Extend, Gen!Child
  <2>2. /\ genStk' = PushOver(genStk, Gen!Frame(Visitor.node, 1, <<>>, Visitor.saved),
                              Gen!Entry(Visited.kids[1], genScope'))
        /\ genVerdict' # "error"
    BY <1>1, <2>1 DEF Gen!Accept, PushOver, Gen!Built
  <2>3. Prepared(genSyms, Visited.kids[1])
    BY <1>2 DEF Prepared
  <2>4. Grown(genSyms, genSyms)
    BY <1>2, GrownSame
  <2>5. Opens
    BY <1>2, <2>1, <2>2, <2>3, <2>4 DEF Opens
  <2> QED
    BY <2>2, <2>5 DEF Moves
<1>4. CASE Gen!LeaveBlock
  <2>1. /\ Visitor.pc = 1
        /\ genStk' = SubSeq(genStk, 1, Len(genStk) - 1) /\ genVerdict' # "error"
        /\ genScope' = Gen!Parent(genScope) /\ UNCHANGED genSyms
    BY <1>1, <1>4 DEF Gen!LeaveBlock, Gen!Finish, Gen!Built
  <2>2. Closes
    BY <1>2, <2>1 DEF Closes
  <2> QED
    BY <2>1, <2>2 DEF Moves
<1> QED
  BY <1>3, <1>4 DEF Gen!VisitBlock

(* A let: of a function, whose name is bound before its body is walked, or *)
(* of a value, which has an annotation.                                    *)
LEMMA MovesLet ==
    ASSUME NEW L, NEW b, NEW a, NEW r, Stands(L, b, a, r), Gen!VisitLet
    PROVE  Moves
<1>1. /\ Gen!Depth = Len(genStk) /\ Gen!Top = Visitor /\ Gen!N = Visited
      /\ Visitor.node \in Node
      /\ DOMAIN Visited.kids = 1 .. Len(Visited.kids)
      /\ \A k \in 1 .. Len(Visited.kids) : Visited.kids[k] \in Node
      /\ Len(Visited.kids) \in Arities(Visited.kind)
      /\ Visited.kind \notin {"Lit", "Ident", "FnLit"}
             => /\ Proved!Count(Visitor.node) = Len(Visited.kids)
                /\ \A k \in 1 .. Len(Visited.kids) :
                       Proved!Kid(Visitor.node, k) = Visited.kids[k]
      /\ Proved!Heeded(Visitor.node, b) /\ Line(L, Visitor.node, b, a, r)
  BY Standing
<1>2. Visited.kind = "Let"
  BY <1>1 DEF Gen!VisitLet, Gen!Visiting
<1>3. /\ Proved!Count(Visitor.node) = 1 /\ Len(Visited.kids) = 1 /\ Visited.kids[1] \in Node
      /\ Proved!Kid(Visitor.node, 1) = Visited.kids[1]
      /\ MakesScope(Visitor.node) <=> Ast[Visited.kids[1]].kind = "FnLit"
  <2>1. Len(Visited.kids) = 1
    BY <1>1, <1>2 DEF Arities
  <2>2. MakesScope(Visitor.node) <=> Ast[Visited.kids[1]].kind = "FnLit"
    BY <1>2 DEF MakesScope, LetOfFunction, Visited
  <2> QED
    BY <1>1, <1>2, <2>1, <2>2
<1>4. Visited.name \notin Gen!TypeNames
  BY <1>1, <1>2 DEF Proved!Heeded, Visited, Proved!TypeNames, Gen!TypeNames
<1>5. IsSeq(genSyms) /\ EnvIn(genScope, Len(genSyms))
  BY DEF Stands
<1>6. CASE Ast[Visited.kids[1]].kind = "FnLit"
  <2>1. CASE Visitor.pc = 0 /\ Gen!LetFunction(Ast[Visited.kids[1]])
    <3>1. PICK v, m : Gen!EnterFunction(Ast[Visited.kids[1]], m,
                                        Gen!Define(genSyms, genScope, Visited.name, v))
      BY <1>1, <2>1 DEF Gen!LetFunction
    <3>2. PICK H : H = Gen!Define(genSyms, genScope, Visited.name, v)
      OBVIOUS
    <3>3. PICK n \in Node : n = Visited.kids[1]
      BY <1>3
    <3>4. /\ Grown(genSyms, H) /\ Len(H) = Len(genSyms)
          /\ Visited.name \in DOMAIN H[genScope[Len(genScope)]]
      BY <1>5, <3>2, NameAdded
    <3>5. \E mm : Gen!EnterFunction(Ast[n], mm, H)
      BY <3>1, <3>2, <3>3
    <3>6. /\ genVerdict' # "error"
          /\ \E G : /\ Grown(H, G)
                    /\ Proved!Params(n) \subseteq NamesIn(G, genScope)
                    /\ Prepared(G, Ast[n].body) => Opens
      BY <1>3, <1>6, <2>1, <3>3, <3>4, <3>5, FunctionOpens
    <3>7. PICK G : /\ Grown(H, G)
                   /\ Proved!Params(n) \subseteq NamesIn(G, genScope)
                   /\ Prepared(G, Ast[n].body) => Opens
      BY <3>6
    <3>8. Visited.name \in NamesIn(G, genScope)
      <4>1. IsSeq(H) /\ EnvIn(genScope, Len(H))
        BY <1>5, <3>4 DEF Grown
      <4>2. Visited.name \in NamesIn(H, genScope)
        BY <3>4, <4>1, InnermostNamed
      <4> QED
        BY <3>7, <4>1, <4>2, NamesKept
    <3>9. Prepared(G, Ast[n].body)
      BY <1>2, <3>3, <3>7, <3>8 DEF Prepared
    <3> QED
      BY <3>6, <3>7, <3>9 DEF Moves
  <2>2. CASE Visitor.pc = 1 /\ Gen!LeaveFunction(Ast[Visited.kids[1]])
    BY <1>3, <1>6, <2>2, FunctionLeaves
  <2>3. Gen!KnownTypes(Ast[Visited.kids[1]])
    <3>1. Proved!Lawful(L)
      BY DEF Stands, Handed
    <3>2. PICK kid \in Node : kid = Visited.kids[1]
      BY <1>3
    <3>3. <<kid, r[1 - 1], r[1]>> \in L
      BY <1>1, <1>3, <3>2 DEF Line, Proved!Chain
    <3>4. Proved!Heeded(kid, r[1 - 1])
      BY <3>1, <3>3 DEF Proved!Lawful, Proved!Rests
    <3> QED
      BY <1>6, <3>2, <3>4, Understood
  <2> QED
    BY <1>1, <1>4, <1>6, <2>1, <2>2, <2>3 DEF Gen!VisitLet
<1>7. CASE Ast[Visited.kids[1]].kind # "FnLit"
  <2>1. CASE Visitor.pc = 0 /\ Gen!Go(1, <<>>, ir) /\ UNCHANGED Gen!Context
    <3>1. genStk' = PushOver(genStk, Gen!Frame(Visitor.node, 1, <<>>, Visitor.saved),
                             Gen!Entry(Visited.kids[1], genScope))
      BY <1>1, <2>1 DEF Gen!Go, Gen!Accept, PushOver
    <3>2. genVerdict' # "error" /\ UNCHANGED <<genScope, genSyms>>
      BY <2>1 DEF Gen!Go, Gen!Accept, Gen!Built, Gen!Context
    <3>3. Descends
      BY <1>3, <1>7, <2>1, <3>1, <3>2 DEF Descends
    <3> QED
      BY <3>2, <3>3 DEF Moves
  <2>2. CASE Visitor.pc = 1 /\ Gen!LetVariable /\ UNCHANGED genScope
    <3>1. /\ genStk' = SubSeq(genStk, 1, Len(genStk) - 1) /\ genVerdict' # "error"
          /\ \E v : genSyms' = Gen!Define(genSyms, genScope, Visited.name, v)
      BY <1>1, <2>2 DEF Gen!LetVariable, Gen!Finish, Gen!Built
    <3>2. Ascends
      BY <1>2, <1>3, <1>7, <2>2, <3>1 DEF Ascends
    <3> QED
      BY <3>1, <3>2 DEF Moves
  <2>3. 1 \in ValuePlaces(Visitor.node)
    BY <1>1, <1>2, <1>3 DEF ValuePlaces, Expressions, Visited
  <2>4. Gen!Annotated(Visited.kids[1])
    BY <1>2, <2>3, KidAnnotated DEF Gen!Annotated
  <2> QED
    BY <1>1, <1>4, <1>7, <2>1, <2>2, <2>4 DEF Gen!VisitLet
<1> QED
  BY <1>6, <1>7

(* A step of the generator's walk.                                         *)
LEMMA VisitorMoves ==
    ASSUME NEW L, NEW b, NEW a, NEW r, Stands(L, b, a, r), Gen!Visit
    PROVE  Moves
BY MovesLiteral, MovesIdent, MovesUnary, MovesBinOp, MovesArray, MovesDeref, MovesLet,
   MovesAssign, MovesFnLit, MovesCall, MovesReturn, MovesBlock, MovesIf, MovesWhile,
   MovesStmtList DEF Gen!Visit

-----------------------------------------------------------------------------
(* Every step keeps to the record.                                         *)

(* The visitor on top of a walk that follows the record.                   *)
LEMMA FollowsTop ==
    ASSUME NEW L, Handed(L), NEW B, NEW A, NEW S, genStk # <<>>,
           Follows(L, genStk, genScope, genSyms, B, A, S)
    PROVE  /\ Stands(L, B[Len(genStk)], A[Len(genStk)], S[Len(genStk)])
           /\ Len(genStk) \in Nat \ {0}
<1>1. IsSeq(genStk) /\ IsSeq(genSyms) /\ EnvIn(genScope, Len(genSyms))
  BY DEF Follows
<1>2. Len(genStk) \in Nat \ {0}
  BY <1>1, EmptySeq, LenProperties DEF IsSeq
<1>3. Len(genStk) \in 1 .. Len(genStk) /\ Level(genStk, genScope, Len(genStk)) = genScope
  BY <1>2 DEF Level
<1>4. InPlace(L, Visitor, genSyms, B[Len(genStk)], A[Len(genStk)], S[Len(genStk)], genScope,
              NamesIn(genSyms, genScope))
  BY <1>3 DEF Follows, Visitor
<1> QED
  BY <1>1, <1>2, <1>4 DEF Stands

(* The names in front of the child a visitor goes to in its own scope.     *)
LEMMA NamesReached ==
    ASSUME NEW L, NEW b, NEW a, NEW r, Stands(L, b, a, r), ~ MakesScope(Visitor.node)
    PROVE  /\ Visitor.saved = genScope /\ r[0] = b
           /\ r[Visitor.pc] \subseteq NamesIn(genSyms, genScope)
           /\ Skips => r[1] = r[0] /\ r[1] \subseteq NamesIn(genSyms, genScope)
<1>1. /\ Line(L, Visitor.node, b, a, r) /\ Visitor.node \in Node
      /\ Proved!Count(Visitor.node) \in Nat
      /\ Visited.kids \in Seq(Node)
      /\ Len(Visited.kids) \in Arities(Visited.kind)
      /\ Visited.kind \notin {"Lit", "Ident", "FnLit"}
             => /\ Proved!Count(Visitor.node) = Len(Visited.kids)
                /\ \A k \in 1 .. Len(Visited.kids) :
                       Proved!Kid(Visitor.node, k) = Visited.kids[k]
  BY Standing
<1>2. Visited.kind \notin {"FnLit", "Block"}
  BY DEF MakesScope, Visited
<1>3. r[0] = b
  BY <1>1, <1>2 DEF Line, Proved!Opened, Visited
<1>4. /\ Visitor.saved = genScope
      /\ Reached(Visitor, b, r) \subseteq NamesIn(genSyms, genScope)
  BY DEF Stands, InPlace, Open
<1>5. r[Visitor.pc] \subseteq NamesIn(genSyms, genScope)
  BY <1>3, <1>4 DEF Reached
<1>6. ASSUME Skips PROVE r[1] = r[0] /\ Visitor.pc = 0
  <2>1. 1 \in 1 .. Proved!Count(Visitor.node) /\ Proved!Kid(Visitor.node, 1) = Visited.kids[1]
    BY <1>1, <1>6 DEF Skips, Arities
  <2>2. PICK q : Line(L, Visited.kids[1], r[0], r[1], q)
    <3>1. Proved!Lawful(L)
      BY DEF Stands, Handed
    <3>2. \E q : Line(L, Proved!Kid(Visitor.node, 1), r[1 - 1], r[1], q)
      BY <1>1, <2>1, <3>1, KidLine
    <3> QED
      BY <2>1, <3>2
  <2>3. Ast[Visited.kids[1]].kind = "Ident"
    BY <1>6 DEF Skips
  <2>4. /\ q[0] = Proved!Opened(Visited.kids[1], r[0])
        /\ r[1] = Proved!Closed(Visited.kids[1], r[0], q[0])
    BY <2>2, <2>3 DEF Line, Proved!Count
  <2> QED
    BY <1>6, <2>3, <2>4 DEF Skips, Proved!Opened, Proved!Closed, Proved!Scoped
<1> QED
  BY <1>3, <1>4, <1>5, <1>6

(* To a child.                                                             *)
LEMMA FollowsDescends ==
    ASSUME NEW L, Handed(L), NEW B, NEW A, NEW S, genStk # <<>>,
           Follows(L, genStk, genScope, genSyms, B, A, S), Descends
    PROVE  \E B2, A2, S2 : Follows(L, genStk', genScope', genSyms', B2, A2, S2)
<1> PICK m, c, H, s, t : /\ m = Len(genStk) /\ c = genScope /\ H = genSyms /\ s = genStk
                         /\ t = Visitor
  OBVIOUS
<1>1. Stands(L, B[m], A[m], S[m]) /\ m \in Nat \ {0}
  BY FollowsTop
<1>2. /\ Line(L, t.node, B[m], A[m], S[m]) /\ t.node \in Node
      /\ Proved!Count(t.node) \in Nat /\ t.pc \in 0 .. Proved!Count(t.node)
  BY <1>1, Standing
<1>3. PICK k \in 1 .. Proved!Count(t.node) : \E o :
          /\ k = t.pc + 1 \/ (k = 2 /\ Skips)
          /\ ~ MakesScope(t.node)
          /\ genStk' = PushOver(s, Gen!Frame(t.node, k, o, t.saved),
                                Gen!Entry(Proved!Kid(t.node, k), c))
          /\ UNCHANGED <<genScope, genSyms>>
  BY DEF Descends
<1>4. PICK o : /\ k = t.pc + 1 \/ (k = 2 /\ Skips)
               /\ ~ MakesScope(t.node)
               /\ genStk' = PushOver(s, Gen!Frame(t.node, k, o, t.saved),
                                     Gen!Entry(Proved!Kid(t.node, k), c))
               /\ UNCHANGED <<genScope, genSyms>>
  BY <1>3
<1> DEFINE f == Gen!Frame(t.node, k, o, t.saved)
           g == Gen!Entry(Proved!Kid(t.node, k), c)
<1>5. /\ f.node = t.node /\ f.pc = k /\ f.saved = t.saved
      /\ g.node = Proved!Kid(t.node, k) /\ g.pc = 0 /\ g.saved = c
  BY DEF Gen!Frame, Gen!Entry
<1> HIDE DEF f, g
<1>6. /\ t.saved = c /\ EnvIn(c, Len(H)) /\ IsSeq(H)
      /\ S[m][k - 1] \subseteq NamesIn(H, c)
  <2>1. /\ t.saved = c
        /\ S[m][t.pc] \subseteq NamesIn(H, c)
        /\ Skips => S[m][1] \subseteq NamesIn(H, c)
    BY <1>1, <1>4, NamesReached
  <2>2. CASE k = t.pc + 1
    <3>1. k - 1 = t.pc
      BY <1>2, <2>2
    <3> QED
      BY <1>1, <2>1, <3>1 DEF Stands
  <2>3. CASE k = 2 /\ Skips
    <3>1. k - 1 = 1
      BY <2>3
    <3> QED
      BY <1>1, <2>1, <2>3, <3>1 DEF Stands
  <2> QED
    BY <1>4, <2>2, <2>3
<1>7. Proved!Lawful(L)
  BY DEF Handed
<1>8. PICK q : Line(L, g.node, S[m][k - 1], S[m][k], q)
  <2>1. \E q : Line(L, Proved!Kid(t.node, k), S[m][k - 1], S[m][k], q)
    BY <1>2, <1>3, <1>7, KidLine
  <2> QED
    BY <1>5, <2>1
<1>9. g.node \in Node
  <2>1. Proved!Kid(t.node, k) \in Node
    BY <1>2, <1>3, <1>7, KidLine
  <2> QED
    BY <1>5, <2>1
<1>10. Proved!Count(g.node) \in Nat
  BY <1>9, SyntaxAssumed, Proved!Kids
<1>11. k # 0 /\ k \in 0 .. Proved!Count(t.node)
  BY <1>2
<1>12. InPlace(L, f, H, B[m], A[m], S[m], c, S[m][k])
  BY <1>2, <1>4, <1>5, <1>6, <1>11 DEF InPlace, Open, Reached
<1>13. InPlace(L, g, H, S[m][k - 1], S[m][k], q, c, NamesIn(H, c))
  BY <1>5, <1>6, <1>8, <1>9, <1>10 DEF InPlace, Open, Reached
<1>14. Grown(H, H)
  BY <1>6, GrownSame
<1>15. Pushes(L, s, c, H, B, A, S, f, g, c, H, S[m][k - 1], S[m][k], q)
  BY <1>5, <1>6, <1>12, <1>13, <1>14 DEF Pushes, Visitor
<1>16. \E B2, A2, S2 : Follows(L, PushOver(s, f, g), c, H, B2, A2, S2)
  BY <1>15, FollowsPushed
<1>17. genStk' = PushOver(s, f, g) /\ genScope' = c /\ genSyms' = H
  BY <1>4 DEF f, g
<1> QED
  BY <1>16, <1>17

(* Back to the visitor below.                                              *)
LEMMA FollowsReturns ==
    ASSUME NEW L, Handed(L), NEW B, NEW A, NEW S, genStk # <<>>,
           Follows(L, genStk, genScope, genSyms, B, A, S), Ascends
    PROVE  \E B2, A2, S2 : Follows(L, genStk', genScope', genSyms', B2, A2, S2)
<1> PICK m, c, H, s, t, H2 : /\ m = Len(genStk) /\ c = genScope /\ H = genSyms /\ s = genStk
                             /\ t = Visitor /\ H2 = genSyms'
  OBVIOUS
<1>1. Stands(L, B[m], A[m], S[m]) /\ m \in Nat \ {0}
  BY FollowsTop
<1>2. /\ Line(L, t.node, B[m], A[m], S[m]) /\ Visited.kind \in Kinds
      /\ Visited.kind \notin {"Lit", "Ident", "FnLit"}
             => Proved!Count(t.node) = Len(Visited.kids)
      /\ Len(Visited.kids) \in Arities(Visited.kind)
  BY <1>1, Standing
<1>3. /\ t.pc = Proved!Count(t.node) \/ (Skips /\ Proved!Count(t.node) = 1)
      /\ ~ MakesScope(t.node)
      /\ genStk' = SubSeq(s, 1, m - 1)
      /\ genScope' = c
      /\ \/ Visited.kind # "Let" /\ H2 = H
         \/ Visited.kind = "Let" /\ \E v : H2 = Gen!Define(H, c, Visited.name, v)
  BY DEF Ascends
<1>4. /\ t.saved = c /\ S[m][Proved!Count(t.node)] \subseteq NamesIn(H, c)
      /\ EnvIn(c, Len(H)) /\ IsSeq(H)
  <2>1. /\ t.saved = c
        /\ S[m][t.pc] \subseteq NamesIn(H, c)
        /\ Skips => S[m][1] \subseteq NamesIn(H, c)
    BY <1>1, <1>3, NamesReached
  <2> QED
    BY <1>1, <1>3, <2>1 DEF Stands
<1>5. Grown(H, H2) /\ A[m] \subseteq NamesIn(H2, c)
  <2>1. A[m] = Proved!Closed(t.node, B[m], S[m][Proved!Count(t.node)])
    BY <1>2 DEF Line
  <2>2. Visited.kind \notin {"Block", "FnLit"} /\ Visited = Ast[t.node]
    BY <1>3 DEF MakesScope, Visited
  <2>3. CASE Visited.kind # "Let" /\ H2 = H
    BY <1>4, <2>1, <2>2, <2>3, GrownSame DEF Proved!Closed, Proved!Scoped
  <2>4. CASE Visited.kind = "Let" /\ \E v : H2 = Gen!Define(H, c, Visited.name, v)
    <3>1. PICK v : H2 = Gen!Define(H, c, Visited.name, v)
      BY <2>4
    <3>2. PICK x : x = Visited.name
      OBVIOUS
    <3>3. Grown(H, H2) /\ Len(H2) = Len(H) /\ x \in DOMAIN H2[c[Len(c)]]
      BY <1>4, <3>1, <3>2, NameAdded
    <3>4. x \in NamesIn(H2, c)
      BY <1>4, <3>3, InnermostNamed
    <3>5. NamesIn(H, c) \subseteq NamesIn(H2, c)
      BY <1>4, <3>3, NamesKept
    <3>6. A[m] = S[m][Proved!Count(t.node)] \union {x}
      BY <2>1, <2>2, <2>4, <3>2 DEF Proved!Closed, Proved!Scoped
    <3> QED
      BY <1>4, <3>3, <3>4, <3>5, <3>6
  <2> QED
    BY <1>3, <2>3, <2>4
<1>6. t = s[m] /\ s[m].saved = c
  BY <1>4 DEF Visitor
<1>7. Follows(L, SubSeq(s, 1, m - 1), c, H2, B, A, S)
  BY <1>5, <1>6, FollowsPopped
<1> QED
  BY <1>3, <1>7

(* Into a new scope.                                                       *)
LEMMA FollowsOpens ==
    ASSUME NEW L, Handed(L), NEW B, NEW A, NEW S, genStk # <<>>,
           Follows(L, genStk, genScope, genSyms, B, A, S), Opens
    PROVE  \E B2, A2, S2 : Follows(L, genStk', genScope', genSyms', B2, A2, S2)
<1> PICK m, c, H, s, t : /\ m = Len(genStk) /\ c = genScope /\ H = genSyms /\ s = genStk
                         /\ t = Visitor
  OBVIOUS
<1>1. Stands(L, B[m], A[m], S[m]) /\ m \in Nat \ {0}
  BY FollowsTop
<1>2. PICK body, o, H2 :
        /\ t.pc = 0 /\ MakesScope(t.node)
        /\ Grown(H, H2) /\ Len(H2) = Len(H)
        /\ Prepared(H2, body)
        /\ genScope' = Append(c, Len(H) + 1)
        /\ genSyms' = Append(H2, Gen!NoBindings)
        /\ genStk' = PushOver(s, Gen!Frame(t.node, 1, o, t.saved),
                              Gen!Entry(body, genScope'))
  BY DEF Opens
<1> DEFINE c2 == Append(c, Len(H) + 1)
           G == Append(H2, Gen!NoBindings)
           f == Gen!Frame(t.node, 1, o, t.saved)
           g == Gen!Entry(body, c2)
           n == t.node
           b == B[m]
<1>3. /\ f.node = n /\ f.pc = 1 /\ f.saved = t.saved
      /\ g.node = body /\ g.pc = 0 /\ g.saved = c2
  BY DEF Gen!Frame, Gen!Entry
<1>4. /\ Line(L, n, b, A[m], S[m]) /\ n \in Node /\ Visited = Ast[n]
      /\ Visited.kids \in Seq(Node)
      /\ Len(Visited.kids) \in Arities(Visited.kind)
      /\ Visited.kind \notin {"Lit", "Ident", "FnLit"}
             => /\ Proved!Count(n) = Len(Visited.kids)
                /\ \A k \in 1 .. Len(Visited.kids) : Proved!Kid(n, k) = Visited.kids[k]
      /\ Visited.kind = "FnLit" => Proved!Count(n) = 1
  BY <1>1, Standing DEF Visited
<1>5. /\ IsSeq(H) /\ EnvIn(c, Len(H)) /\ EnvIn(t.saved, Len(H))
      /\ t.saved = c /\ b \subseteq NamesIn(H, c)
  BY <1>1, <1>2 DEF Stands, InPlace, Open, Reached
<1>6. b \subseteq NamesIn(H2, c)
  BY <1>2, <1>5, NamesKept
<1>7. /\ Grown(H, G) /\ EnvIn(c2, Len(G)) /\ Gen!Parent(c2) = c
      /\ NamesIn(H2, c) \subseteq NamesIn(G, c2)
      /\ NamesIn(H2, c) \subseteq NamesIn(G, c)
  BY <1>2, <1>5, ScopeMade
<1>8. EnvIn(c, Len(G))
  BY <1>5, <1>7, NamesKept
<1> HIDE DEF c2, G, f, g, n, b
<1>9. Proved!Lawful(L)
  BY DEF Handed
<1>10. Proved!Count(n) = 1
  <2>1. CASE Visited.kind = "FnLit"
    BY <1>4, <2>1
  <2>2. CASE Visited.kind \in {"Block", "Let"}
    BY <1>4, <2>2 DEF Arities
  <2> QED
    BY <1>2, <1>4, <2>1, <2>2 DEF MakesScope, LetOfFunction, n
<1>11. PICK q : Line(L, Proved!Kid(n, 1), S[m][0], S[m][1], q)
  <2>1. 1 \in 1 .. Proved!Count(n)
    BY <1>10
  <2>2. \E q : Line(L, Proved!Kid(n, 1), S[m][1 - 1], S[m][1], q)
    BY <1>4, <1>9, <2>1, KidLine
  <2> QED
    BY <2>2
<1>12. /\ S[m][0] = Proved!Opened(n, b)
       /\ A[m] = Proved!Closed(n, b, S[m][1])
  BY <1>4, <1>10 DEF Line
<1>13. \E b1, a1, q1 : /\ Line(L, body, b1, a1, q1) /\ body \in Node
                       /\ b1 \subseteq NamesIn(H2, c) /\ A[m] \subseteq NamesIn(H2, c)
  <2>0. Proved!Kid(n, 1) \in Node
    <3>1. 1 \in 1 .. Proved!Count(n)
      BY <1>10
    <3> QED
      BY <1>4, <1>9, <3>1, KidLine
  <2>1. CASE Visited.kind = "Block" /\ body = Visited.kids[1]
    <3>1. Proved!Kid(n, 1) = body
      BY <1>4, <1>10, <2>1 DEF Proved!Kid
    <3>2. S[m][0] = b /\ A[m] = b
      BY <1>4, <1>12, <2>1 DEF Proved!Opened, Proved!Closed, Proved!Scoped
    <3> QED
      BY <1>6, <1>11, <2>0, <3>1, <3>2
  <2>2. CASE /\ Visited.kind = "FnLit" /\ body = Visited.body
             /\ Proved!Params(n) \subseteq NamesIn(H2, c)
    <3>1. Proved!Kid(n, 1) = body
      BY <1>4, <2>2 DEF Proved!Kid
    <3>2. S[m][0] = b \union Proved!Params(n) /\ A[m] = b
      BY <1>4, <1>12, <2>2 DEF Proved!Opened, Proved!Closed, Proved!Scoped
    <3> QED
      BY <1>6, <1>11, <2>0, <2>2, <3>1, <3>2
  <2>3. CASE /\ Visited.kind = "Let" /\ body = Ast[Visited.kids[1]].body
             /\ Proved!Params(Visited.kids[1]) \union {Visited.name} \subseteq NamesIn(H2, c)
    <3> DEFINE lit == Visited.kids[1]
    <3>1. Proved!Kid(n, 1) = lit /\ lit \in Node
      BY <1>4, <1>10, <2>0, <2>3 DEF Proved!Kid
    <3>2. Ast[lit].kind = "FnLit"
      BY <1>2, <1>4, <2>3 DEF MakesScope, LetOfFunction, n
    <3> HIDE DEF lit
    <3>3. Proved!Count(lit) = 1 /\ Proved!Kid(lit, 1) = body
      BY <2>3, <3>2 DEF Proved!Count, Proved!Kid, lit
    <3>4. S[m][0] = b /\ A[m] = S[m][1] \union {Visited.name}
      BY <1>4, <1>12, <2>3 DEF Proved!Opened, Proved!Closed, Proved!Scoped
    <3>5. Line(L, lit, b, S[m][1], q)
      BY <1>11, <3>1, <3>4
    <3>6. q[0] = b \union Proved!Params(lit) /\ S[m][1] = b
      BY <3>2, <3>3, <3>5 DEF Line, Proved!Opened, Proved!Closed, Proved!Scoped
    <3>7. body \in Node /\ \E q1 : Line(L, body, q[0], q[1], q1)
      <4>1. 1 \in 1 .. Proved!Count(lit)
        BY <3>3
      <4>2. /\ Proved!Kid(lit, 1) \in Node
            /\ \E q1 : Line(L, Proved!Kid(lit, 1), q[1 - 1], q[1], q1)
        BY <1>9, <3>5, <4>1, KidLine
      <4> QED
        BY <3>3, <4>2
    <3>8. q[0] \subseteq NamesIn(H2, c) /\ A[m] \subseteq NamesIn(H2, c)
      BY <1>6, <2>3, <3>4, <3>6 DEF lit
    <3> QED
      BY <3>7, <3>8
  <2> QED
    BY <1>2, <2>1, <2>2, <2>3 DEF Prepared, n
<1>14. PICK b1, a1, q1 : /\ Line(L, body, b1, a1, q1) /\ body \in Node
                         /\ b1 \subseteq NamesIn(H2, c) /\ A[m] \subseteq NamesIn(H2, c)
  BY <1>13
<1>15. InPlace(L, f, G, b, A[m], S[m], c2, a1)
  <2>1. Open(f)
    BY <1>2, <1>3 DEF Open, n
  <2>2. f.pc \in 0 .. Proved!Count(f.node)
    BY <1>3, <1>10
  <2> QED
    BY <1>3, <1>4, <1>5, <1>7, <1>8, <1>14, <2>1, <2>2 DEF InPlace
<1>16. InPlace(L, g, G, b1, a1, q1, c2, NamesIn(G, c2))
  <2>1. Proved!Count(body) \in Nat
    BY <1>14, SyntaxAssumed, Proved!Kids
  <2> QED
    BY <1>3, <1>7, <1>14, <2>1 DEF InPlace, Open, Reached
<1>17. Pushes(L, s, c, H, B, A, S, f, g, c2, G, b1, a1, q1)
  BY <1>3, <1>7, <1>15, <1>16 DEF Pushes, Visitor, b
<1>18. \E B2, A2, S2 : Follows(L, PushOver(s, f, g), c2, G, B2, A2, S2)
  BY <1>17, FollowsPushed
<1>19. genStk' = PushOver(s, f, g) /\ genScope' = c2 /\ genSyms' = G
  BY <1>2 DEF f, g, c2, G
<1> QED
  BY <1>18, <1>19

(* And out of it.                                                          *)
LEMMA FollowsLeaves ==
    ASSUME NEW L, Handed(L), NEW B, NEW A, NEW S, genStk # <<>>,
           Follows(L, genStk, genScope, genSyms, B, A, S), Closes
    PROVE  \E B2, A2, S2 : Follows(L, genStk', genScope', genSyms', B2, A2, S2)
<1> PICK m, c, H, s, t : /\ m = Len(genStk) /\ c = genScope /\ H = genSyms /\ s = genStk
                         /\ t = Visitor
  OBVIOUS
<1>1. Stands(L, B[m], A[m], S[m])
  BY FollowsTop
<1>2. /\ genStk' = SubSeq(s, 1, m - 1) /\ genScope' = Gen!Parent(c) /\ genSyms' = H
      /\ Open(t)
  BY DEF Closes, Open
<1>3. /\ IsSeq(H) /\ Gen!Parent(c) = t.saved
      /\ A[m] \subseteq NamesIn(H, t.saved)
  BY <1>1, <1>2 DEF Stands, InPlace
<1>4. t = s[m] /\ Grown(H, H)
  BY <1>3, GrownSame DEF Visitor
<1>5. Follows(L, SubSeq(s, 1, m - 1), t.saved, H, B, A, S)
  BY <1>3, <1>4, FollowsPopped
<1> QED
  BY <1>2, <1>3, <1>5

-----------------------------------------------------------------------------
(* The passes in turn.                                                     *)

(* The generator follows the record that the semantic pass has left.       *)
Follow ==
    \E L : Handed(L) /\ \E B, A, S : Follows(L, genStk, genScope, genSyms, B, A, S)

(* Before the semantic pass nothing is known, while it walks and after it  *)
(* what Progress says, and the generator follows its record.               *)
HandedOver ==
    /\ phase = "parse" => Proved!Init
    /\ phase = "compile" => Proved!Progress(tree)
    /\ genVerdict = "idle" => genScope = Gen!GlobalEnv /\ genSyms = <<Gen!NoBindings>>
    /\ genVerdict = "run" => Follow

(* What is known of the walk stays known while the pass rests.             *)
LEMMA ProgressStays ==
    ASSUME NEW root, Proved!Progress(root), UNCHANGED <<semantic, notes>>
    PROVE  Proved!Progress(root)'
<1>1. UNCHANGED <<verdict, stk, curType, scope, syms, notes>>
  BY DEF semantic
<1>2. \A L, B, S : Proved!Known(root, L, B, S) => Proved!Known(root, L, B, S)'
  BY <1>1 DEF Proved!Known, Proved!Annotated, Proved!ArraysKept, Proved!JustTyped,
     Proved!Front, Proved!N, Proved!Top, Proved!Depth
<1>3. Proved!Passed(root) => Proved!Passed(root)'
  BY <1>1 DEF Proved!Passed, Proved!Annotated
<1> QED
  BY <1>1, <1>2, <1>3 DEF Proved!Progress

(* A step of the semantic pass.                                            *)
LEMMA ProgressMade ==
    ASSUME InTurn, HandedOver, SemanticAnalysis
    PROVE  Proved!Progress(tree)'
<1>1. /\ tree \in Roots /\ Proved!Progress(tree) /\ Proved!IInv /\ tree' = tree
      /\ Sem!Start(tree) \/ Sem!Visit
  BY DEF InTurn, Books, HandedOver, SemanticAnalysis, Running, main
<1>2. PICK root \in Roots : root = tree
  BY <1>1
<1>3. CASE Sem!Start(tree)
  <2>1. Proved!Start(root)
    BY <1>2, <1>3 DEF Sem!Start, Proved!Start, Sem!Entry, Proved!Entry, Sem!Frame,
       Proved!Frame
  <2>2. Proved!Progress(root)'
    BY <1>1, <1>2, <2>1, SyntaxAssumed, Proved!ProgressStart
  <2> QED
    BY <1>1, <1>2, <2>2
<1>4. CASE Sem!Visit
  <2>1. Proved!Progress(root)'
    BY <1>1, <1>2, <1>4, AlikeVisit, SyntaxAssumed, Proved!ProgressVisit
  <2> QED
    BY <1>1, <1>2, <2>1
<1> QED
  BY <1>1, <1>3, <1>4

(* The generator begins, at the root, where no name is bound.              *)
LEMMA FollowBegins ==
    ASSUME InTurn, HandedOver, LLVMIRGen, Gen!Start(tree)
    PROVE  Follow'
<1>1. /\ genVerdict = "idle" /\ tree \in Roots /\ verdict = "ok" /\ Proved!Progress(tree)
      /\ genScope = Gen!GlobalEnv /\ genSyms = <<Gen!NoBindings>> /\ UNCHANGED notes
  BY DEF Gen!Start, InTurn, OnTurn, Books, HandedOver, LLVMIRGen, Running, Passes
<1>2. PICK root \in Roots : root = tree
  BY <1>1
<1>3. PICK L, a : /\ Proved!Lawful(L) /\ Proved!Annotated(L, notes)
                  /\ <<root, {}, a>> \in L
                  /\ \A t \in Proved!IndexedBy(Node) :
                        t \in DOMAIN notes => notes[t][1] = "array"
  BY <1>1, <1>2 DEF Proved!Progress, Proved!Passed
<1>4. Handed(L)'
  BY <1>1, <1>3 DEF Handed, Proved!Annotated
<1>5. PICK r : Line(L, root, {}, a, r)
  BY <1>3, LineFound
<1> DEFINE c == Append(<<1>>, 2)
           H == Append(<<Gen!NoBindings>>, Gen!NoBindings)
           f == Gen!Entry(root, c)
           s == <<f>>
<1>6. genScope' = c /\ genSyms' = H /\ genStk' = s
  BY <1>1, <1>2 DEF Gen!Start, Gen!Child, Gen!Extend, Gen!GlobalEnv, Gen!Global
<1>7. EnvIn(<<1>>, 1)
  BY DEF EnvIn, Global
<1>8. IsSeq(H) /\ Len(H) = 2
  BY AppendFacts DEF IsSeq, Elements
<1>9. EnvIn(c, 2)
  <2>1. EnvIn(Append(<<1>>, 1 + 1), 1 + 1)
    BY <1>7, EnvGrows
  <2> QED
    BY <2>1
<1>10. /\ IsSeq(s) /\ Len(s) = 1 /\ s[1] = f
       /\ f.node = root /\ f.pc = 0 /\ f.saved = c
  BY DEF Gen!Entry, Gen!Frame, IsSeq, Elements
<1> HIDE DEF c, H, s, f
<1>11. root \in Node /\ Proved!Count(root) \in Nat
  BY SyntaxAssumption, SyntaxAssumed, Proved!Kids
<1>12. InPlace(L, f, H, {}, a, r, c, NamesIn(H, c))
  BY <1>5, <1>8, <1>9, <1>10, <1>11 DEF InPlace, Open, Reached
<1>13. /\ \E B : B[1] = {}
       /\ \E A : A[1] = a
       /\ \E S : S[1] = r
  <2>1. /\ [i \in {1} |-> {}][1] = {}
        /\ [i \in {1} |-> a][1] = a
        /\ [i \in {1} |-> r][1] = r
    OBVIOUS
  <2> QED
    BY <2>1, Zenon
<1> PICK B : B[1] = {}
  BY <1>13
<1> PICK A : A[1] = a
  BY <1>13
<1> PICK S : S[1] = r
  BY <1>13
<1>14. Follows(L, s, c, H, B, A, S)
  BY <1>8, <1>9, <1>10, <1>12 DEF Follows, Level
<1> QED
  BY <1>4, <1>6, <1>14 DEF Follow

(* It goes on, or it is over.                                              *)
LEMMA FollowGoes ==
    ASSUME InTurn, HandedOver, LLVMIRGen, Gen!Visit
    PROVE  /\ genVerdict' = "error" => RefusedCall \/ RefusedLiteral
           /\ genVerdict' = "run" => Follow'
<1>1. genVerdict = "run" /\ genStk # <<>>
  BY DEF Gen!Visit, Gen!VisitLiteral, Gen!VisitIdent, Gen!VisitUnary,
     Gen!VisitBinOp, Gen!VisitArray, Gen!VisitArrayDeref, Gen!VisitLet,
     Gen!VisitAssign, Gen!VisitFnLit, Gen!VisitCall, Gen!VisitReturn,
     Gen!VisitBlock, Gen!VisitIf, Gen!VisitWhile, Gen!VisitStmtList, Gen!Visiting
<1>2. PICK L : Handed(L) /\ \E B, A, S : Follows(L, genStk, genScope, genSyms, B, A, S)
  BY <1>1 DEF HandedOver, Follow
<1>3. PICK B, A, S : Follows(L, genStk, genScope, genSyms, B, A, S)
  BY <1>2
<1>4. Moves
  <2>1. Stands(L, B[Len(genStk)], A[Len(genStk)], S[Len(genStk)])
    BY <1>1, <1>2, <1>3, FollowsTop
  <2> QED
    BY <2>1, VisitorMoves
<1>5. ASSUME genVerdict' = "run" PROVE Follow'
  <2>1. \E B2, A2, S2 : Follows(L, genStk', genScope', genSyms', B2, A2, S2)
    <3>1. CASE Descends
      BY <1>1, <1>2, <1>3, <3>1, FollowsDescends
    <3>2. CASE Ascends
      BY <1>1, <1>2, <1>3, <3>2, FollowsReturns
    <3>3. CASE Opens
      BY <1>1, <1>2, <1>3, <3>3, FollowsOpens
    <3>4. CASE Closes
      BY <1>1, <1>2, <1>3, <3>4, FollowsLeaves
    <3> QED
      BY <1>4, <1>5, <3>1, <3>2, <3>3, <3>4 DEF Moves
  <2>2. Handed(L)'
    BY <1>2, NotesRead DEF Handed, Proved!Annotated
  <2> QED
    BY <2>1, <2>2 DEF Follow
<1> QED
  BY <1>4, <1>5 DEF Moves

(* A step of the generator.                                                *)
LEMMA GeneratorHanded ==
    ASSUME InTurn, HandedOver, LLVMIRGen
    PROVE  /\ genVerdict # "error" /\ genVerdict' = "error" => RefusedCall \/ RefusedLiteral
           /\ HandedOver'
<1>1. UNCHANGED <<main, semantic>> /\ phase = "compile"
  BY DEF LLVMIRGen, Running
<1>2. UNCHANGED notes
  BY NotesRead DEF LLVMIRGen, Gen!Start, Gen!Step, Gen!FinishMain
<1>3. Proved!Progress(tree)'
  <2>1. PICK root : root = tree
    OBVIOUS
  <2>2. Proved!Progress(root)'
    BY <1>1, <1>2, <2>1, ProgressStays DEF HandedOver
  <2> QED
    BY <1>1, <2>1, <2>2 DEF main
<1>4. phase' = "compile"
  BY <1>1 DEF main
<1>5. CASE Gen!Start(tree)
  <2>1. Follow' /\ genVerdict' = "run"
    BY <1>5, FollowBegins DEF Gen!Start
  <2> QED
    BY <1>3, <1>4, <2>1 DEF HandedOver
<1>6. CASE Gen!FinishMain
  <2>1. genVerdict' \in {"undefined", "ok"}
    BY <1>6 DEF Gen!FinishMain
  <2> QED
    BY <1>3, <1>4, <2>1 DEF HandedOver
<1>7. CASE Gen!Visit
  <2>1. genVerdict' # "idle"
    <3>1. genVerdict = "run"
      BY <1>7 DEF Gen!Visit, Gen!VisitLiteral, Gen!VisitIdent, Gen!VisitUnary,
         Gen!VisitBinOp, Gen!VisitArray, Gen!VisitArrayDeref, Gen!VisitLet,
         Gen!VisitAssign, Gen!VisitFnLit, Gen!VisitCall, Gen!VisitReturn,
         Gen!VisitBlock, Gen!VisitIf, Gen!VisitWhile, Gen!VisitStmtList, Gen!Visiting
    <3>2. After
      BY <1>7, <3>1, StepVisit DEF InTurn, Books
    <3> QED
      BY <3>2 DEF After
  <2> QED
    BY <1>3, <1>4, <1>7, <2>1, FollowGoes DEF HandedOver
<1> QED
  BY <1>5, <1>6, <1>7 DEF LLVMIRGen, Gen!Step

(* main hands over what the passes have left.                              *)
LEMMA HandoverNext ==
    ASSUME InTurn, HandedOver, [Next]_vars
    PROVE  /\ HandedOver'
           /\ genVerdict # "error" /\ genVerdict' = "error" => RefusedCall \/ RefusedLiteral
<1>1. ASSUME UNCHANGED gen, UNCHANGED notes
      PROVE  /\ genVerdict' = genVerdict
             /\ genVerdict = "idle" => (genScope = Gen!GlobalEnv /\ genSyms = <<Gen!NoBindings>>)'
             /\ genVerdict = "run" => Follow'
  <2>1. UNCHANGED <<genVerdict, genStk, genScope, genSyms>>
    BY <1>1 DEF gen
  <2>2. \A L : Handed(L) => Handed(L)'
    BY <1>1 DEF Handed, Proved!Annotated
  <2>3. Follow => Follow'
    BY <2>1, <2>2 DEF Follow
  <2> QED
    BY <2>1, <2>3 DEF HandedOver
<1>2. CASE Parse
  <2>1. UNCHANGED gen /\ UNCHANGED notes /\ UNCHANGED semantic /\ phase = "parse"
    BY <1>2 DEF Parse, Exit
  <2>2. Proved!Init
    BY <2>1 DEF HandedOver
  <2>3. \A root : Proved!Progress(root)'
    BY <2>1, <2>2 DEF Proved!Init, Proved!Progress, semantic
  <2>4. phase' \in {"compile", "exit"}
    BY <1>2 DEF Parse, Exit
  <2>5. PICK r : r = tree'
    OBVIOUS
  <2>6. Proved!Progress(tree)'
    BY <2>3, <2>5 DEF Proved!Progress
  <2> QED
    BY <1>1, <2>1, <2>4, <2>6 DEF HandedOver
<1>3. CASE SemanticAnalysis
  <2>1. /\ UNCHANGED <<main, gen>> /\ phase = "compile" /\ phase' = "compile"
        /\ genVerdict = "idle"
    <3>1. UNCHANGED <<main, gen>> /\ phase = "compile"
      BY <1>3 DEF SemanticAnalysis, Running
    <3>2. verdict # "ok"
      BY <1>3 DEF SemanticAnalysis, Sem!Start, Sem!Visit, Sem!VisitLiteral, Sem!VisitIdent,
         Sem!VisitUnary, Sem!VisitBinOp, Sem!VisitArray, Sem!VisitArrayDeref, Sem!VisitLet,
         Sem!VisitAssign, Sem!VisitFnLit, Sem!VisitCall, Sem!VisitReturn, Sem!VisitBlock,
         Sem!VisitIf, Sem!VisitWhile, Sem!VisitStmtList, Sem!VisitInOrder, Sem!Visiting
    <3> QED
      BY <3>1, <3>2 DEF main, InTurn, OnTurn
  <2>2. genVerdict' = "idle" /\ genScope' = genScope /\ genSyms' = genSyms
    BY <2>1 DEF gen
  <2>3. Proved!Progress(tree)'
    BY <1>3, ProgressMade
  <2> QED
    BY <2>1, <2>2, <2>3 DEF HandedOver
<1>4. CASE LLVMIRGen
  BY <1>4, GeneratorHanded
<1>5. CASE NextPass \/ Catch \/ Output \/ UNCHANGED vars
  <2>1. /\ UNCHANGED gen /\ UNCHANGED notes /\ UNCHANGED semantic /\ tree' = tree
        /\ phase' = phase \/ phase' = "exit"
    BY <1>5 DEF NextPass, Catch, Output, Exit, vars, main
  <2>2. CASE phase' = "parse"
    <3>1. Proved!Init
      BY <2>1, <2>2 DEF HandedOver
    <3>2. Proved!Init'
      BY <2>1, <3>1 DEF Proved!Init, semantic
    <3> QED
      BY <1>1, <2>1, <2>2, <3>2 DEF HandedOver
  <2>3. CASE phase' = "compile"
    <3>1. PICK root : root = tree
      OBVIOUS
    <3>2. Proved!Progress(root)'
      BY <2>1, <2>3, <3>1, ProgressStays DEF HandedOver
    <3>3. Proved!Progress(tree)'
      BY <2>1, <3>1, <3>2
    <3> QED
      BY <1>1, <2>1, <2>3, <3>3 DEF HandedOver
  <2>4. CASE phase' \notin {"parse", "compile"}
    BY <1>1, <2>1, <2>4 DEF HandedOver
  <2> QED
    BY <2>2, <2>3, <2>4
<1> QED
  BY <1>2, <1>3, <1>4, <1>5 DEF Next, Compile

(* NoSurprises: of a program the semantic pass accepts the IR generator    *)
(* finds every name bound and every annotation it asks for made, through   *)
(* whatever nesting of functions, blocks and calls; it throws for a callee *)
(* that is not the name of a function and for an integer that is too       *)
(* large, and for nothing else (llvm_ir_pass.cpp, semantic_pass.cpp).      *)
THEOREM HandoverWorks == Spec => NoSurprises
<1>1. Init => InTurn /\ HandedOver
  <2> SUFFICES ASSUME Init PROVE InTurn /\ HandedOver
    OBVIOUS
  <2>1. InTurn
    <3>1. Books /\ Proved!IInv
      BY BooksInit, PassKeeps DEF Init
    <3>2. OnTurn
      BY DEF Init, Gen!Init, OnTurn, Passes
    <3> QED
      BY <3>1, <3>2 DEF InTurn
  <2>2. HandedOver
    BY AlikeInit DEF Init, Gen!Init, HandedOver
  <2> QED
    BY <2>1, <2>2
<1>2. (InTurn /\ HandedOver) /\ [Next]_vars => (InTurn /\ HandedOver)'
  BY TurnsNext, HandoverNext
<1>3. (InTurn /\ HandedOver) /\ [Next]_vars
          => [genVerdict # "error" /\ genVerdict' = "error" => RefusedCall \/ RefusedLiteral]_vars
  BY HandoverNext
<1> QED
  BY <1>1, <1>2, <1>3, PTL DEF Spec, NoSurprises

=============================================================================
