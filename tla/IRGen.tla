-------------------------------- MODULE IRGen --------------------------------
(***************************************************************************)
(* LLVM IR generation (src/passes/llvm_ir_pass.cpp): LLVMGen walks an      *)
(* annotated program and builds a module, with IRBuilder.                  *)
(*                                                                         *)
(* The C++ stack is the variable stk, as in modules Interpreter and        *)
(* Semantic: own holds what a visitor keeps in its locals while a child is *)
(* visited.  A step runs the visitor on top up to its next accept(), its   *)
(* return or its throw, all it builds on the way included.                 *)
(*                                                                         *)
(* When LLVM is asked for what it does not define (a load of type void, an *)
(* operation on operands of the wrong type), an assertion fails, memory is *)
(* misused or the module is invalid, depending on LLVM's build: the        *)
(* generator's verdict is "undefined" and it goes no further.              *)
(***************************************************************************)
EXTENDS Trees, IRBuilder, Symtab, FiniteSets, TLC

VARIABLES
    notes,     \* the annotations the semantic pass has left
    verdict,   \* "idle", "run", "ok", "error" or "undefined"
    stk,       \* the visitors that have not returned, innermost last
    ir,        \* the module and the builder
    fun,       \* curFn_, retBlock_ and retAlloca_
    val,       \* val_
    scope,     \* scope_, as an environment of Symtab
    syms       \* the bindings of every scope ever made

vars == <<notes, verdict, stk, ir, fun, val, scope, syms>>

(* Of a name it knows; for any other it throws, which the visitors of      *)
(* functions check when they declare one.                                  *)
resolveTypeName(name) == PrimType(name)

(* toLLVMType: strings are pointers, and what is not known is void.        *)
LLVMType(tid) == IF tid = PrimType("unknown") THEN Void ELSE tid

NoFunction == [fn |-> 0, retBlock |-> 0, retAlloca |-> NullValue]

(* A generator that has not begun; c.module is null.                       *)
Init ==
    /\ notes = NoBindings
    /\ verdict = "idle"
    /\ stk = <<>>
    /\ ir = EmptyModule
    /\ fun = NoFunction
    /\ val = NullValue
    /\ scope = GlobalEnv
    /\ syms = <<NoBindings>>

-----------------------------------------------------------------------------
(* The machinery of visit() and accept().                                  *)

Frame(n, k, locals, env) == [node |-> n, pc |-> k, own |-> locals, saved |-> env]

Entry(n, env) == Frame(n, 0, <<>>, env)

Depth == Len(stk)

Top == stk[Depth]

N == Ast[Top.node]

Arity == Len(N.kids)

Visiting(kind) == verdict = "run" /\ stk # <<>> /\ N.kind = kind

(* The module built so far is m; LLVM may have been asked too much.        *)
Built(m) ==
    /\ ir' = m
    /\ verdict' = IF m.undef THEN "undefined" ELSE "run"

(* Visit node n, as child k, in env; the locals are kept meanwhile.        *)
Accept(n, k, locals, env, m) ==
    /\ stk' = Append([stk EXCEPT ![Depth] = Frame(Top.node, k, locals, Top.saved)],
                     Entry(n, env))
    /\ Built(m)

Go(k, locals, m) == Accept(N.kids[k], k, locals, scope, m) /\ UNCHANGED val

(* The visitor returns with val_ = v.                                      *)
Finish(m, v) ==
    /\ stk' = SubSeq(stk, 1, Depth - 1)
    /\ val' = v
    /\ Built(m)

(* visitExpr: the value the builder has made last.                         *)
FinishWith(m) == Finish(m, m.last)

Throw ==
    /\ verdict' = "error"
    /\ stk' = <<>>
    /\ UNCHANGED <<ir, val>>

Context == <<notes, fun, scope, syms>>

-----------------------------------------------------------------------------
(* Symbols and functions.                                                  *)

Sym(type, slot, f) == [type |-> type, slot |-> slot, func |-> f]

(* Two arguments of one name do not go together: LLVM puts a number behind *)
(* the second, the next one that makes a name no argument has.             *)
Numbered(name, k) == name \o ToString(k)

NextNumber(b, name) ==
    CHOOSE k \in (b.number + 1) .. (b.number + 1 + Cardinality(b.names)) :
        /\ Numbered(name, k) \notin b.names
        /\ \A j \in (b.number + 1) .. (k - 1) : Numbered(name, j) \in b.names

(* beginFn tells a parameter's type from its LLVM type.                    *)
ParamTid(t) == IF t \in Scalars THEN t ELSE PrimType("unknown")

(* b is what the arguments so far have left: the module, the bindings, the *)
(* names, and the last number put behind one.                              *)
Slot(b, f, param, i) ==
    LET taken     == param.name \in b.names
        number    == IF taken THEN NextNumber(b, param.name) ELSE b.number
        name      == IF taken THEN Numbered(param.name, number) ELSE param.name
        t         == LLVMType(resolveTypeName(param.type))
        allocated == Alloca(b.ir, f, t)
    IN  [ir     |-> Store(allocated, Argument(t, i), allocated.last),
         syms   |-> Define(b.syms, scope, name, Sym(ParamTid(t), allocated.last, 0)),
         names  |-> b.names \union {name},
         number |-> number]

(* A slot per argument, bound in the scope the function is begun in.       *)
ParamSlots(m, f, H, params) ==
    LET after[i \in 0 .. Len(params)] ==
            IF i = 0 THEN [ir |-> m, syms |-> H, names |-> {}, number |-> 0]
            ELSE Slot(after[i - 1], f, params[i], i)
    IN  after[Len(params)]

NullConstant(t) ==
    IF t = Ptr THEN NullPtr(Ptr) ELSE Constant(t, IF t = PrimType("bool") THEN FALSE ELSE 0)

(* retval and its block, for a function that returns a value.              *)
ReturnSlot(m, f, ret) ==
    IF ret = Void THEN [ir |-> m, fun |-> [NoFunction EXCEPT !.fn = f]]
    ELSE LET t     == LLVMType(ret)
             slot  == Alloca(m, f, t)
             built == NewBlock(Store(slot, NullConstant(t), slot.last), f)
         IN  [ir  |-> built,
              fun |-> [fn |-> f, retBlock |-> LastBlock(built),
                       retAlloca |-> slot.last]]

beginFn(m, H, f, ret, params) ==
    LET entry == NewBlock(m, f)
        slots == ParamSlots(SetInsertPoint(entry, LastBlock(entry)), f, H, params)
        body  == ReturnSlot(slots.ir, f, ret)
    IN  [ir |-> body.ir, fun |-> body.fun, syms |-> slots.syms]

(* The last value is the result, if its type fits.                         *)
ImplicitReturn(m, v, ret) ==
    IF ret = Void THEN Emit(m, "ret", Void, <<>>, <<>>)
    ELSE Br(IF v # NullValue /\ Tid(v) = LLVMType(ret)
            THEN Store(m, v, fun.retAlloca) ELSE m, fun.retBlock)

finishFn(m, v, ret) ==
    LET done == IF Terminated(m, m.at) THEN m ELSE ImplicitReturn(m, v, ret)
        load == Load(SetInsertPoint(done, fun.retBlock), LLVMType(ret), fun.retAlloca)
    IN  IF fun.retBlock = 0 THEN done
        ELSE Emit(load, "ret", Void, <<load.last>>, <<>>)

(* llvmIRGen: a module with a function main() of type i64.                 *)
Start(root) ==
    /\ verdict = "idle"
    /\ LET int  == PrimType("int")
           body == beginFn(NewFunction(ir, int, <<>>), syms, 1, int, <<>>)
       IN  ir' = body.ir /\ fun' = body.fun
    /\ verdict' = "run"
    /\ scope' = Child(syms, scope)
    /\ syms' = Extend(syms, NoBindings)
    /\ stk' = <<Entry(root, scope')>>
    /\ UNCHANGED <<notes, val>>

FinishMain ==
    /\ verdict = "run" /\ stk = <<>>
    /\ LET done == finishFn(ir, val, PrimType("int"))
       IN  /\ verdict' = IF done.undef THEN "undefined" ELSE "ok"
           /\ ir' = done
    /\ scope' = Parent(scope)
    /\ UNCHANGED <<notes, stk, fun, val, syms>>

declareFn(m, lit) ==
    NewFunction(m, LLVMType(resolveTypeName(lit.ret)),
                [i \in DOMAIN lit.params |-> LLVMType(resolveTypeName(lit.params[i].type))])

(* The function's members and the insertion point are kept in own.         *)
EnterFunction(lit, m, H) ==
    LET f    == LastFunction(m)
        body == beginFn(m, H, f, resolveTypeName(lit.ret), lit.params)
    IN  /\ fun' = body.fun
        /\ syms' = Extend(body.syms, NoBindings)
        /\ scope' = Child(syms, scope)
        /\ Accept(lit.body, 1, [fun |-> fun, at |-> m.at], scope', body.ir)
        /\ UNCHANGED <<notes, val>>

(* MUTANT: the insertion point stays in the function just finished.        *)
LeaveFunctionThere(lit) ==
    LET done == finishFn(ir, val, resolveTypeName(lit.ret))
    IN  /\ Finish(done, FunctionPtr(fun.fn))
        /\ fun' = Top.own.fun
        /\ scope' = Parent(scope)
        /\ UNCHANGED <<notes, syms>>

LeaveFunction(lit) ==
    LET done == finishFn(ir, val, resolveTypeName(lit.ret))
    IN  /\ Finish(SetInsertPoint(done, Top.own.at), FunctionPtr(fun.fn))
        /\ fun' = Top.own.fun
        /\ scope' = Parent(scope)
        /\ UNCHANGED <<notes, syms>>

-----------------------------------------------------------------------------
(* Expressions.                                                            *)

(* A string is a global of its own.  stoll throws when the digits do not   *)
(* fit.                                                                    *)
LiteralValue ==
    IF Tid(N.lit) = Ptr THEN StringPtr(Top.node)
                        ELSE Constant(Tid(N.lit), Data(N.lit))

VisitLiteral ==
    /\ Visiting("Lit")
    /\ IF IsInt(N.lit) /\ Data(N.lit) > MaxInt THEN Throw ELSE Finish(ir, LiteralValue)
    /\ UNCHANGED Context

VisitIdent ==
    /\ Visiting("Ident")
    /\ IF IsBound(syms, scope, N.name)
       THEN LET s == Resolve(syms, scope, N.name)
            IN  FinishWith(Load(ir, LLVMType(s.type), s.slot))
       ELSE Throw
    /\ UNCHANGED Context

VisitUnary ==
    /\ Visiting("Unary")
    /\ \/ Top.pc = 0 /\ Go(1, <<>>, ir)
       \/ /\ Top.pc = 1
          /\ FinishWith(Build(ir, IF N.op = "-" THEN "neg" ELSE "not", Tid(val), <<val>>))
    /\ UNCHANGED Context

Logical == N.op \in {"and", "or"}

(* MUTANT: or is compiled as and.                                          *)
EvaluateRightIfTrue ==
    LET rhs    == LastBlock(ir) + 1
        merge  == rhs + 1
        blocks == NewBlock(NewBlock(ir, fun.fn), fun.fn)
        branch == CondBr(blocks, val, rhs, merge)
    IN  Go(2, [left |-> ir.at, merge |-> merge], SetInsertPoint(branch, rhs))

(* The right operand in a block of its own, and a merge block after it.    *)
EvaluateRight ==
    LET rhs    == LastBlock(ir) + 1
        merge  == rhs + 1
        blocks == NewBlock(NewBlock(ir, fun.fn), fun.fn)
        branch == IF N.op = "and" THEN CondBr(blocks, val, rhs, merge)
                                  ELSE CondBr(blocks, val, merge, rhs)
    IN  Go(2, [left |-> ir.at, merge |-> merge], SetInsertPoint(branch, rhs))

MergeOperands ==
    LET bool   == PrimType("bool")
        merged == SetInsertPoint(Br(ir, Top.own.merge), Top.own.merge)
    IN  FinishWith(Emit(merged, "phi", bool, <<Constant(bool, N.op = "or"), val>>,
                        <<Top.own.left, ir.at>>))

(* An integer operand of a floating-point operation is converted.          *)
Promoted(m, v, fp) ==
    IF fp /\ IsInt(v) THEN Build(m, "tofloat", PrimType("float"), <<v>>)
                               ELSE [m EXCEPT !.last = v]

(* A zero divisor leads to a trap.                                         *)
GuardDivision(m, r) ==
    LET zero   == Build(m, "==", PrimType("bool"), <<r, Constant(Tid(r), 0)>>)
        ok     == LastBlock(m) + 1
        trap   == ok + 1
        blocks == NewBlock(NewBlock(zero, fun.fn), fun.fn)
        branch == CondBr(blocks, zero.last, trap, ok)
    IN  SetInsertPoint(Trap(SetInsertPoint(branch, trap)), ok)

ResultType(op, fp) ==
    IF op \notin ArithmeticOps THEN PrimType("bool")
    ELSE IF fp THEN PrimType("float") ELSE PrimType("int")

ApplyBinOp(l, r) ==
    LET fp   == PrimType("float") \in {Tid(l), Tid(r)}
        left == Promoted(ir, l, fp)
        both == Promoted(left, r, fp)
        m    == IF N.op \in {"/", "%"} /\ ~ fp THEN GuardDivision(both, r) ELSE both
    IN  Build(m, N.op, ResultType(N.op, fp), <<left.last, both.last>>)

VisitBinOp ==
    /\ Visiting("BinOp")
    /\ \/ Top.pc = 0 /\ Go(1, <<>>, ir)
       \/ Top.pc = 1 /\ Logical /\ EvaluateRight
       \/ Top.pc = 1 /\ ~ Logical /\ Go(2, val, ir)
       \/ Top.pc = 2 /\ Logical /\ MergeOperands
       \/ Top.pc = 2 /\ ~ Logical /\ FinishWith(ApplyBinOp(Top.own, val))
    /\ UNCHANGED Context

(* insertvalue, one element after the other, into an undefined array.      *)
InsertElement ==
    Build(ir, "insert", Tid(Top.own), <<Top.own, val>>)

Annotated(n) == n \in DOMAIN notes

VisitArray ==
    /\ Visiting("Array")
    /\ \/ ~ Annotated(Top.node) /\ Throw
       \/ /\ Annotated(Top.node) /\ Top.pc = 0
          /\ LET undef == Constant(notes[Top.node], <<>>)
             IN  IF Arity = 0 THEN Finish(ir, undef) ELSE Go(1, undef, ir)
       \/ /\ Annotated(Top.node) /\ Top.pc > 0
          /\ IF Top.pc < Arity THEN Go(Top.pc + 1, InsertElement.last, InsertElement)
                               ELSE FinishWith(InsertElement)
    /\ UNCHANGED Context

(* The bounds check, the trap, and the element through a slot of the array *)
(* ("inrange" stands for the two comparisons and their conjunction).       *)
Indexed(array, index) ==
    LET type    == notes[N.kids[1]]
        inRange == Build(ir, "inrange", PrimType("bool"),
                         <<index, Constant(PrimType("int"), type[3])>>)
        valid   == LastBlock(ir) + 1
        invalid == valid + 1
        blocks  == NewBlock(NewBlock(inRange, fun.fn), fun.fn)
        branch  == CondBr(blocks, inRange.last, valid, invalid)
        trapped == Trap(SetInsertPoint(branch, invalid))
        slot    == Alloca(SetInsertPoint(trapped, valid), fun.fn, type)
        element == Build(Store(slot, array, slot.last), "gep", Ptr, <<slot.last, index>>)
    IN  Load(element, LLVMType(type[2]), element.last)

IsArrayType(t) == t[1] = "array"

VisitArrayDeref ==
    /\ Visiting("Deref")
    /\ LET target == N.kids[1]
       IN  \/ ~ (Annotated(target) /\ IsArrayType(notes[target])) /\ Throw
           \/ /\ Annotated(target) /\ IsArrayType(notes[target])
              /\ \/ Top.pc = 0 /\ Go(1, <<>>, ir)
                 \/ Top.pc = 1 /\ Go(2, val, ir)
                 \/ Top.pc = 2 /\ FinishWith(Indexed(Top.own, val))
    /\ UNCHANGED Context

(* A function is bound to its name before its body is walked.              *)
LetFunction(lit) ==
    LET slot   == Alloca(declareFn(ir, lit), fun.fn, Ptr)
        f      == LastFunction(slot)
        symbol == Sym(PrimType("unknown"), slot.last, f)
    IN  EnterFunction(lit, Store(slot, FunctionPtr(f), slot.last),
                      Define(syms, scope, N.name, symbol))

LetVariable ==
    LET slot == Alloca(ir, fun.fn, Tid(val))
    IN  /\ syms' = Define(syms, scope, N.name, Sym(notes[N.kids[1]], slot.last, 0))
        /\ Finish(Store(slot, val, slot.last), val)

VisitLet ==
    /\ Visiting("Let")
    /\ LET value == Ast[N.kids[1]]
       IN  \/ N.name \in TypeNames /\ Throw /\ UNCHANGED Context
           \/ /\ N.name \notin TypeNames /\ value.kind = "FnLit"
              /\ \/ Top.pc = 0 /\ ~ KnownTypes(value) /\ Throw /\ UNCHANGED Context
                 \/ Top.pc = 0 /\ KnownTypes(value) /\ LetFunction(value)
                 \/ Top.pc = 1 /\ LeaveFunction(value)
           \/ /\ N.name \notin TypeNames /\ value.kind # "FnLit"
              /\ \/ Top.pc = 0 /\ Go(1, <<>>, ir) /\ UNCHANGED Context
                 \/ /\ Top.pc = 1 /\ Annotated(N.kids[1])
                    /\ LetVariable /\ UNCHANGED <<notes, fun, scope>>
                 \/ /\ Top.pc = 1 /\ ~ Annotated(N.kids[1])
                    /\ Throw /\ UNCHANGED Context

(* The symbol is found before its value is walked, and read after it: own  *)
(* is the scope the symbol is in.                                          *)
VisitAssign ==
    /\ Visiting("Assign")
    /\ \/ /\ Top.pc = 0
          /\ IF IsBound(syms, scope, N.name)
             THEN Go(1, Holder(syms, scope, N.name), ir) ELSE Throw
       \/ /\ Top.pc = 1
          /\ Finish(Store(ir, val, syms[Top.own][N.name].slot), val)
    /\ UNCHANGED Context

VisitFnLit ==
    /\ Visiting("FnLit")
    /\ \/ Top.pc = 0 /\ ~ KnownTypes(N) /\ Throw /\ UNCHANGED Context
       \/ Top.pc = 0 /\ KnownTypes(N) /\ EnterFunction(N, declareFn(ir, N), syms)
       \/ Top.pc = 1 /\ LeaveFunction(N)

(* The function a name is bound to; none for any other callee.             *)
Callee ==
    LET n == Ast[N.kids[1]]
    IN  IF n.kind = "Ident" /\ IsBound(syms, scope, n.name)
        THEN Resolve(syms, scope, n.name).func ELSE 0

(* The function called and the arguments so far are kept in own.           *)
Operands == IF Top.pc = 0 THEN <<FunctionPtr(Callee)>> ELSE Append(Top.own, val)

BuildCall ==
    Emit(ir, "call", ir.funs[Detail(Operands[1])].ret, Operands, <<>>)

VisitCall ==
    /\ Visiting("Call")
    /\ IF Top.pc = 0 /\ Callee = 0 THEN Throw
       ELSE IF Top.pc = 0 /\ Arity > 1 THEN Go(2, Operands, ir)
       ELSE IF 0 < Top.pc /\ Top.pc < Arity THEN Go(Top.pc + 1, Operands, ir)
       ELSE FinishWith(BuildCall)
    /\ UNCHANGED Context

-----------------------------------------------------------------------------
(* Statements.                                                             *)

EnterBlock ==
    /\ Top.pc = 0
    /\ syms' = Extend(syms, NoBindings)
    /\ scope' = Child(syms, scope)
    /\ Accept(N.kids[1], 1, <<>>, scope', ir)
    /\ UNCHANGED val

LeaveBlock ==
    /\ Top.pc = 1
    /\ scope' = Parent(scope)
    /\ Finish(ir, val)
    /\ UNCHANGED syms

VisitBlock ==
    /\ Visiting("Block")
    /\ EnterBlock \/ LeaveBlock
    /\ UNCHANGED <<notes, fun>>

VisitStmtList ==
    /\ Visiting("StmtList")
    /\ IF Top.pc < Arity THEN Go(Top.pc + 1, <<>>, ir) ELSE Finish(ir, val)
    /\ UNCHANGED Context

(* A condition that is not an i1 is compared with zero.                    *)
ToBool(v) ==
    IF Tid(v) = PrimType("bool") THEN [ir EXCEPT !.last = v]
    ELSE Build(ir, "nonnull", PrimType("bool"), <<v>>)

IsCondition(k) == k % 2 = 1 /\ k < Arity

(* From a condition to its branch: own is the block to merge in, and the   *)
(* block of what comes next.  The first condition makes the merge block.   *)
EnterBranch ==
    LET cond   == ToBool(val)
        merge  == IF Top.pc = 1 THEN LastBlock(cond) + 1 ELSE Top.own.merge
        begun  == IF Top.pc = 1 THEN NewBlock(cond, fun.fn) ELSE cond
        then   == LastBlock(begun) + 1
        blocks == NewBlock(NewBlock(begun, fun.fn), fun.fn)
        branch == CondBr(blocks, cond.last, then, then + 1)
    IN  Go(Top.pc + 1, [merge |-> merge, next |-> then + 1],
           SetInsertPoint(branch, then))

(* From a branch to the next condition, to the else branch, or, where      *)
(* there is none, to the merge block.                                      *)
LeaveBranch ==
    LET done == BrUnlessTerminated(ir, Top.own.merge)
        next == SetInsertPoint(done, Top.own.next)
    IN  IF Top.pc < Arity THEN Go(Top.pc + 1, Top.own, next)
        ELSE Finish(SetInsertPoint(Br(next, Top.own.merge), Top.own.merge), NullValue)

LeaveElse ==
    Finish(SetInsertPoint(BrUnlessTerminated(ir, Top.own.merge), Top.own.merge),
           NullValue)

VisitIf ==
    /\ Visiting("If")
    /\ \/ Top.pc = 0 /\ Go(1, <<>>, ir)
       \/ IsCondition(Top.pc) /\ EnterBranch
       \/ Top.pc > 0 /\ Top.pc % 2 = 0 /\ LeaveBranch
       \/ Top.pc % 2 = 1 /\ Top.pc = Arity /\ LeaveElse
    /\ UNCHANGED Context

EnterLoop ==
    LET cond   == LastBlock(ir) + 1
        blocks == NewBlock(NewBlock(NewBlock(ir, fun.fn), fun.fn), fun.fn)
    IN  Go(1, [cond |-> cond], SetInsertPoint(Br(blocks, cond), cond))

EnterLoopBody ==
    LET c    == Top.own.cond
        cond == ToBool(val)
    IN  Go(2, Top.own, SetInsertPoint(CondBr(cond, cond.last, c + 1, c + 2), c + 1))

(* MUTANT: the loop's value is the last one of its body.                   *)
LeaveLoopWithValue ==
    LET c == Top.own.cond
    IN  Finish(SetInsertPoint(BrUnlessTerminated(ir, c), c + 2), val)

LeaveLoop ==
    LET c == Top.own.cond
    IN  Finish(SetInsertPoint(BrUnlessTerminated(ir, c), c + 2), NullValue)

VisitWhile ==
    /\ Visiting("While")
    /\ \/ Top.pc = 0 /\ EnterLoop
       \/ Top.pc = 1 /\ EnterLoopBody
       \/ Top.pc = 2 /\ LeaveLoop
    /\ UNCHANGED Context

(* What follows a return goes to a block that nothing leads to.            *)
Unreachable(m) == LET b == NewBlock(m, fun.fn) IN SetInsertPoint(b, LastBlock(b))

ReturnValue(v) ==
    IF fun.retBlock = 0 THEN Emit(ir, "ret", Void, <<v>>, <<>>)
    ELSE Br(Store(ir, v, fun.retAlloca), fun.retBlock)

VisitReturn ==
    /\ Visiting("Return")
    /\ \/ Arity = 0 /\ Finish(Unreachable(Emit(ir, "ret", Void, <<>>, <<>>)), val)
       \/ Arity = 1 /\ Top.pc = 0 /\ Go(1, <<>>, ir)
       \/ Arity = 1 /\ Top.pc = 1 /\ Finish(Unreachable(ReturnValue(val)), val)
    /\ UNCHANGED Context

-----------------------------------------------------------------------------
Visit ==
    \/ VisitLiteral \/ VisitIdent \/ VisitUnary \/ VisitBinOp
    \/ VisitArray \/ VisitArrayDeref \/ VisitLet \/ VisitAssign
    \/ VisitFnLit \/ VisitCall \/ VisitReturn
    \/ VisitBlock \/ VisitIf \/ VisitWhile \/ VisitStmtList

Step == Visit \/ FinishMain

-----------------------------------------------------------------------------
(* Properties of the module built.                                         *)

BlockOf(id) ==
    CHOOSE b \in DOMAIN ir.blocks :
        \E k \in DOMAIN ir.blocks[b].code : ir.blocks[b].code[k].id = id

FunctionOf(b) == ir.blocks[b].fn

(* WellFormed: blocks are made in an order that is not that of the control *)
(* flow, and the insertion point, the function and its return block are    *)
(* set and put back by hand around nested functions.  Whatever is nested   *)
(* in whatever, nothing is ever added behind a terminator, the generator   *)
(* stays in the function it says it is in, no branch leads into another    *)
(* function, and no block of a finished module is without a terminator.    *)
NothingBehindTerminators ==
    /\ verdict = "run" => ~ Terminated(ir, ir.at)
    /\ \A b \in DOMAIN ir.blocks : \A k \in 1 .. Len(ir.blocks[b].code) - 1 :
           ir.blocks[b].code[k].op \notin Terminators

StaysInFunction ==
    /\ verdict = "run" => FunctionOf(ir.at) = fun.fn
    /\ \A b \in DOMAIN ir.blocks : \A c \in Targets(ir, b) : FunctionOf(c) = FunctionOf(b)

AllTerminated == verdict = "ok" => \A b \in DOMAIN ir.blocks : Terminated(ir, b)

WellFormed == NothingBehindTerminators /\ StaysInFunction /\ AllTerminated

(* Where an instruction's value must have been computed: the instruction's *)
(* own block, or, for a phi, the end of the block control comes from.      *)
UsedIn(b, ins, i) == IF ins.op = "phi" THEN ins.to[i] ELSE b

ComputedBefore(b, ins, id) ==
    LET d == BlockOf(id)
    IN  \/ d = b /\ (ins.op = "phi" \/
                     \E j, k \in DOMAIN ir.blocks[b].code :
                        /\ j < k
                        /\ ir.blocks[b].code[j].id = id
                        /\ ir.blocks[b].code[k].id = ins.id)
        \/ d # b /\ b \notin ReachedAvoiding(ir, FunctionOf(b), d)

(* Dominated: val_ and the locals of the visitors carry values across      *)
(* branches, loops and the blocks made for checks.  In a finished module   *)
(* an instruction uses a value of its own function only where every path   *)
(* has computed it.                                                        *)
Dominated ==
    verdict = "ok" =>
        \A b \in DOMAIN ir.blocks : \A k \in DOMAIN ir.blocks[b].code :
            LET ins == ir.blocks[b].code[k]
            IN  \A i \in DOMAIN ins.args :
                    /\ Kind(ins.args[i]) = "inst"
                    /\ FunctionOf(BlockOf(Detail(ins.args[i]))) = FunctionOf(b)
                    => ComputedBefore(UsedIn(b, ins, i), ins, Detail(ins.args[i]))

(* What LLVM's verifier asks of a module besides: values are used in the   *)
(* function that computes them, and a function returns what it declares.   *)
UsesAreLocal ==
    \A b \in DOMAIN ir.blocks : \A k \in DOMAIN ir.blocks[b].code :
        LET args == ir.blocks[b].code[k].args
        IN  \A i \in DOMAIN args :
                Kind(args[i]) = "inst" => FunctionOf(BlockOf(Detail(args[i]))) = FunctionOf(b)

ReturnsFit ==
    \A b \in DOMAIN ir.blocks : \A k \in DOMAIN ir.blocks[b].code :
        ir.blocks[b].code[k].op = "ret" =>
            LET args == ir.blocks[b].code[k].args
                ret  == ir.funs[FunctionOf(b)].ret
            IN  [i \in DOMAIN args |-> Tid(args[i])] =
                    IF ret = Void THEN <<>> ELSE <<ret>>

=============================================================================
