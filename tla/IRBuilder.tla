------------------------------ MODULE IRBuilder ------------------------------
(***************************************************************************)
(* The part of LLVM the IR generator uses: a module under construction and *)
(* the builder that appends instructions at its insertion point.  LLVM is  *)
(* external; these operators say of each call in llvm_ir_pass.cpp what it  *)
(* leaves behind.                                                          *)
(*                                                                         *)
(* A module is a record: its functions, its basic blocks (each with the    *)
(* function it belongs to and its code), the block the builder is at, how  *)
(* many instructions were made, the value built last, and whether LLVM was *)
(* asked for something it does not define.                                 *)
(*                                                                         *)
(* A value is a pair of a type and what it is: a constant, the address of  *)
(* a function or of a string, an argument, the result of an instruction,   *)
(* or null.  Types are those of module Values; LLVM's one pointer type is  *)
(* the type of strings, and i8, the element of an empty array, "unknown".  *)
(***************************************************************************)
EXTENDS Values

Void == PrimType("void")

Ptr == PrimType("string")

Constant(type, data) == Value(type, <<"const", data>>)

Argument(type, i) == Value(type, <<"arg", i>>)

Result(type, id) == Value(type, <<"inst", id>>)

FunctionPtr(f) == Value(Ptr, <<"fn", f>>)

StringPtr(s) == Value(Ptr, <<"str", s>>)

NullPtr(type) == Value(type, <<"null">>)

NullValue == NullPtr(Void)

Kind(v) == Data(v)[1]

Detail(v) == Data(v)[2]

EmptyModule == [funs |-> <<>>, blocks |-> <<>>, at |-> 0, made |-> 0,
                last |-> NullValue, undef |-> FALSE]

-----------------------------------------------------------------------------
(* Functions and blocks.                                                   *)

NewFunction(m, ret, params) ==
    [m EXCEPT !.funs = Append(@, [ret |-> ret, params |-> params])]

LastFunction(m) == Len(m.funs)

NewBlock(m, f) == [m EXCEPT !.blocks = Append(@, [fn |-> f, code |-> <<>>])]

LastBlock(m) == Len(m.blocks)

SetInsertPoint(m, b) == [m EXCEPT !.at = b]

(* getEntryBlock: the first block made in the function.                    *)
EntryBlock(m, f) ==
    CHOOSE b \in DOMAIN m.blocks :
        m.blocks[b].fn = f /\ \A c \in 1 .. (b - 1) : m.blocks[c].fn # f

Terminators == {"br", "condbr", "ret", "unreachable"}

Terminated(m, b) ==
    \E k \in DOMAIN m.blocks[b].code : m.blocks[b].code[k].op \in Terminators

-----------------------------------------------------------------------------
(* Instructions: an operation, the type of its result, its operands, and   *)
(* the blocks it refers to.                                                *)

Scalars == {PrimType("int"), PrimType("float"), PrimType("bool")}

Sized(type) == type # Void

(* What an operation accepts; beyond it the builder fails an assertion or, *)
(* built without them, reads what is not there.  What only LLVM's verifier *)
(* would notice is built as it is asked for.                               *)
Defined(m, op, type, args) ==
    LET t == Tid(args[1])
        same == \A i \in DOMAIN args : Tid(args[i]) = t
    IN  CASE op \in {"alloca", "load"} -> Sized(type)
          [] op \in {"store", "gep"} -> Sized(t)
          [] op \in ArithmeticOps -> same /\ t \in Scalars \ {PrimType("bool")}
          [] op \in {"==", "!=", "<", ">", "<=", ">="} -> same /\ t \in Scalars \union {Ptr}
          [] op = "nonnull" -> t \in {PrimType("int"), Ptr}
          [] op = "neg" -> t \in {PrimType("int"), PrimType("float")}
          [] op = "not" -> t \in {PrimType("int"), PrimType("bool")}
          [] op = "tofloat" -> t = PrimType("int")
          [] op = "phi" -> same
          [] op = "insert" -> Tid(args[2]) = type[2]
          [] op = "condbr" -> t = PrimType("bool")
          [] op = "call" -> LET f == Detail(args[1])
                            IN  [i \in 1 .. Len(args) - 1 |-> Tid(args[i + 1])] =
                                    m.funs[f].params
          [] OTHER -> TRUE

Emit(m, op, type, args, to) ==
    LET id == m.made + 1
        ins == [id |-> id, op |-> op, type |-> type, args |-> args, to |-> to]
    IN  [m EXCEPT !.blocks[m.at].code = Append(@, ins), !.made = id,
                  !.last = Result(type, id),
                  !.undef = @ \/ ~ Defined(m, op, type, args)]

(* entryAlloca puts its instruction in front of the entry block.           *)
Alloca(m, f, type) ==
    LET id == m.made + 1
        ins == [id |-> id, op |-> "alloca", type |-> type, args |-> <<>>, to |-> <<>>]
    IN  [m EXCEPT !.blocks[EntryBlock(m, f)].code = <<ins>> \o @, !.made = id,
                  !.last = Result(Ptr, id),
                  !.undef = @ \/ ~ Sized(type)]

Store(m, v, slot) == Emit(m, "store", Void, <<v, slot>>, <<>>)

Load(m, type, slot) == Emit(m, "load", type, <<slot>>, <<>>)

Br(m, b) == Emit(m, "br", Void, <<>>, <<b>>)

CondBr(m, c, yes, no) == Emit(m, "condbr", Void, <<c>>, <<yes, no>>)

(* if (!getTerminator()) CreateBr(b)                                       *)
BrUnlessTerminated(m, b) == IF Terminated(m, m.at) THEN m ELSE Br(m, b)

(* CreateCall(trap); CreateUnreachable()                                   *)
Trap(m) == Emit(Emit(m, "trap", Void, <<>>, <<>>), "unreachable", Void, <<>>, <<>>)

Targets(m, b) ==
    UNION {{m.blocks[b].code[k].to[i] : i \in DOMAIN m.blocks[b].code[k].to} :
             k \in {k \in DOMAIN m.blocks[b].code :
                       m.blocks[b].code[k].op \in Terminators}}

(* The blocks of f that control can come to without passing through block  *)
(* d, by paths of up to as many edges as there are blocks.                 *)
ReachedAvoiding(m, f, d) ==
    LET entry == {EntryBlock(m, f)} \ {d}
        after[n \in 0 .. LastBlock(m)] ==
            IF n = 0 THEN entry
            ELSE LET before == after[n - 1]
                 IN  before \union ((UNION {Targets(m, b) : b \in before}) \ {d})
    IN  after[LastBlock(m)]

-----------------------------------------------------------------------------
(* Operations on constants alone are folded: no instruction is made.       *)

AsValue(v) == Value(Tid(v), Detail(v))

(* Comparisons are signed, and an i1 that is true is -1.                   *)
SignedBit(b) == IF b THEN -1 ELSE 0

OrderedBits(op, a, b) == Ordered(op, SignedBit(a), SignedBit(b))

(* "not" is an exclusive or with all ones, so -x - 1 on integers.          *)
Compute(op, type, args) ==
    LET l == AsValue(args[1])
        r == AsValue(args[Len(args)])
    IN  CASE op = "tofloat" -> {Data(l)}
          [] op = "nonnull" -> {Data(l) # 0}
          [] op = "neg" -> {Data(v) : v \in UnaryOp("-", l)}
          [] op = "not" -> IF IsInt(l) THEN {-Data(l) - 1} ELSE {~ Data(l)}
          [] op = "inrange" -> {0 <= Data(l) /\ Data(l) < Data(r)}
          [] op = "insert" -> {Append(Data(l), Data(r))}
          [] op \in {"<", ">", "<=", ">="} /\ Tid(l) = PrimType("bool") ->
               {OrderedBits(op, Data(l), Data(r))}
          [] OTHER -> IF Traps(op, l, r) THEN {}
                      ELSE {Data(v) : v \in BinaryOp(op, l, r)}

(* An infinity or a NaN, which a constant is not here, is left to be       *)
(* computed when the module runs.                                          *)
Folds(op, type, args) ==
    /\ op \notin {"^", "gep"}
    /\ \A i \in DOMAIN args : Kind(args[i]) = "const"
    /\ type = PrimType("float") => Compute(op, type, args) # {}

(* An integer that cannot be computed is poison, any value: 0 is taken.    *)
Build(m, op, type, args) ==
    IF Defined(m, op, type, args) /\ Folds(op, type, args)
    THEN [m EXCEPT !.last =
            Constant(type, IF Compute(op, type, args) = {} THEN 0
                           ELSE CHOOSE d \in Compute(op, type, args) : TRUE)]
    ELSE Emit(m, op, type, args, <<>>)

=============================================================================
