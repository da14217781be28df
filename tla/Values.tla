------------------------------- MODULE Values -------------------------------
(***************************************************************************)
(* The runtime values of include/value.hpp and the operators of            *)
(* Interpreter::applyArithmetic and applyComparison.                       *)
(*                                                                         *)
(* A value is a pair of its type and its payload.    Types are structural  *)
(* (module TypeTable shows that type ids stand for them one to one): a     *)
(* tuple that starts with the type's name, e.g. <<"int">>, or              *)
(* <<"array", <<"int">>, 2>>, or <<"fn", <<<<"int">>>>, <<"void">>>>.      *)
(* The payload of a function is the number of its FunctionObject, so       *)
(* equality of payloads is pointer identity.  A float's payload is an      *)
(* integer: the doubles of the checked programs are integral.              *)
(*                                                                         *)
(* An operator that can throw yields a set: of the value it returns, or,   *)
(* when it throws, empty.                                                  *)
(***************************************************************************)
EXTENDS Integers, Sequences

CONSTANT IntWidth    \* the width of int64_t, made small for TLC

ASSUME IntWidthAssumption == IntWidth \in Nat \ {0, 1}

TypeNames == {"int", "float", "string", "bool", "void"}

PrimType(name) == <<name>>

Value(tid, data) == <<tid, data>>
Tid(v)      == v[1]
Data(v)     == v[2]
Null        == Value(PrimType("null"), 0)
Bool(b)     == Value(PrimType("bool"), b)
Int64(i)    == Value(PrimType("int"), i)
Float(i)    == Value(PrimType("float"), i)
Str(s)      == Value(PrimType("string"), s)
Arr(t, els) == Value(<<"array", t, Len(els)>>, els)
Fn(obj, ptypes, ret) == Value(<<"fn", ptypes, ret>>, obj)

IsInt(v)    == Tid(v) = PrimType("int")
IsFloat(v)  == Tid(v) = PrimType("float")
IsNumber(v) == IsInt(v) \/ IsFloat(v)
IsArray(v)  == Tid(v)[1] = "array"
FnParams(v) == Tid(v)[2]
FnRet(v)    == Tid(v)[3]
IsFn(v)     == Tid(v)[1] = "fn"

(* isTruthy: null is false, numbers are compared with zero, and every      *)
(* object is true, the empty string and the empty array included.          *)
Truthy(v) == CASE Tid(v) = PrimType("null") -> FALSE
               [] Tid(v) = PrimType("bool") -> Data(v)
               [] IsNumber(v)            -> Data(v) # 0
               [] OTHER                  -> TRUE

(* operator==: the variant's alternative first (so 1 == 1.0 is false),     *)
(* then the contents; a function equals only itself.                       *)
Same(l, r) == Tid(l) = Tid(r) /\ Data(l) = Data(r)

-----------------------------------------------------------------------------
MaxInt == 2 ^ (IntWidth - 1) - 1
MinInt == -(2 ^ (IntWidth - 1))

(* Overflow of int64_t is undefined; what the compiler's add, sub and imul *)
(* instructions produce is the wrapped result.                             *)
Wrap(i) == MinInt + ((i - MinInt) % (2 ^ IntWidth))

Abs(a) == IF a < 0 THEN -a ELSE a

(* C++ division truncates towards zero; % takes the dividend's sign.       *)
Quotient(a, b) == IF (a < 0) = (b < 0) THEN Abs(a) \div Abs(b)
                                       ELSE -(Abs(a) \div Abs(b))
Remainder(a, b) == a - b * Quotient(a, b)

(* static_cast<int64_t>(std::pow(a, b)): fractions are cut off and what    *)
(* does not fit, 0 to a negative power included, converts to MinInt.       *)
Power(a, b) ==
    LET p == IF b >= 0 THEN a ^ b
             ELSE IF a = 0 THEN MaxInt + 1
             ELSE IF Abs(a) = 1 THEN a ^ (-b) ELSE 0
    IN  IF p \in MinInt .. MaxInt THEN p ELSE MinInt

(* INT64_MIN / -1 and INT64_MIN % -1 trap: the process gets SIGFPE.        *)
Traps(op, l, r) == /\ op \in {"/", "%"}
                   /\ IsInt(l) /\ IsInt(r)
                   /\ Data(l) = MinInt /\ Data(r) = -1

FloatArithmetic(op, a, b) ==
    CASE op = "+" -> {a + b}
      [] op = "-" -> {a - b}
      [] op = "*" -> {a * b}
      [] op = "/" -> IF b = 0 THEN {} ELSE {Quotient(a, b)}
      [] op = "%" -> IF b = 0 THEN {} ELSE {Remainder(a, b)}
      [] op = "^" -> {a ^ b}

IntArithmetic(op, a, b) ==
    CASE op = "+" -> {Wrap(a + b)}
      [] op = "-" -> {Wrap(a - b)}
      [] op = "*" -> {Wrap(a * b)}
      [] op = "/" -> IF b = 0 THEN {} ELSE {Quotient(a, b)}
      [] op = "%" -> IF b = 0 THEN {} ELSE {Remainder(a, b)}
      [] op = "^" -> {Power(a, b)}

ArithmeticOps == {"+", "-", "*", "/", "%", "^"}

Arithmetic(op, l, r) ==
    CASE ~ (IsNumber(l) /\ IsNumber(r)) -> {}
      [] IsInt(l) /\ IsInt(r) -> {Int64(i) : i \in IntArithmetic(op, Data(l), Data(r))}
      [] OTHER -> {Float(i) : i \in FloatArithmetic(op, Data(l), Data(r))}

Ordered(op, a, b) == CASE op = ">"  -> a > b
                       [] op = "<"  -> a < b
                       [] op = ">=" -> a >= b
                       [] op = "<=" -> a <= b

Comparison(op, l, r) ==
    CASE op = "==" -> {Bool(Same(l, r))}
      [] op = "!=" -> {Bool(~ Same(l, r))}
      [] OTHER -> IF IsNumber(l) /\ IsNumber(r)
                  THEN {Bool(Ordered(op, Data(l), Data(r)))} ELSE {}

BinaryOp(op, l, r) == IF op \in ArithmeticOps THEN Arithmetic(op, l, r)
                                              ELSE Comparison(op, l, r)

UnaryOp(op, v) ==
    CASE op = "not" -> {Bool(~ Truthy(v))}
      [] op = "-"   -> IF IsInt(v) THEN {Int64(Wrap(-Data(v)))}
                       ELSE IF IsFloat(v) THEN {Float(-Data(v))} ELSE {}

=============================================================================
