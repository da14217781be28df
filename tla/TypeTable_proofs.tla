-------------------------- MODULE TypeTable_proofs --------------------------
(***************************************************************************)
(* Proofs about the type table, for all lengths, signatures and bounds.    *)
(* First its invariants: the three together are inductive.  Then what type *)
(* ids stand for and the names they are given.  The type and the name of   *)
(* an id are described by recursion over smaller ids, so each fact about   *)
(* them is shown by the least id for which it fails.                       *)
(***************************************************************************)
EXTENDS TypeNaming, SeqFacts, TLAPS

IInv == TypeOK /\ Canonical /\ Grounded

(* Entering a type that is not there keeps a table free of duplicates.     *)
LEMMA AddedDiffer ==
    ASSUME NEW table, NEW tid, tid \notin DOMAIN table, NEW type,
           Found(table, type) = {},
           \A t, u \in DOMAIN table : table[t] = table[u] => t = u
    PROVE  \A t, u \in DOMAIN Added(table, tid, type) :
              Added(table, tid, type)[t] = Added(table, tid, type)[u] => t = u
<1> DEFINE new == Added(table, tid, type)
<1>1. /\ DOMAIN new = DOMAIN table \union {tid}
      /\ new[tid] = type
      /\ \A t \in DOMAIN table : new[t] = table[t]
  BY DEF Added
<1>2. \A t \in DOMAIN table : table[t] # type
  BY DEF Found
<1> HIDE DEF new
<1>3. ASSUME NEW t \in DOMAIN new, NEW u \in DOMAIN new, new[t] = new[u]
      PROVE  t = u
  <2>1. CASE t \in DOMAIN table /\ u \in DOMAIN table
    BY <1>1, <1>3, <2>1
  <2>2. CASE t = tid \/ u = tid
    BY <1>1, <1>2, <1>3, <2>2
  <2> QED
    BY <1>1, <2>1, <2>2
<1> QED
  BY <1>3 DEF new

(* The ids of a signature are builtin ones.                                *)
LEMMA SignatureIds ==
    ASSUME NEW sig \in Signatures
    PROVE  /\ resolveTypeName(sig.ret) \in BuiltinIds
           /\ \A i \in DOMAIN ParamTids(sig) : ParamTids(sig)[i] \in BuiltinIds
           /\ ParamTids(sig) \in Seq(BuiltinIds)
<1>1. /\ sig.params \in Seq(TypeNames) /\ sig.ret \in TypeNames
  BY TypeTableAssumption
<1>2. ASSUME NEW name \in TypeNames
      PROVE  resolveTypeName(name) \in BuiltinIds
  BY DEF TypeNames, resolveTypeName, BuiltinIds, TYPE_UNKNOWN, TYPE_INT,
     TYPE_FLOAT, TYPE_STRING, TYPE_BOOL, TYPE_VOID
<1>3. DOMAIN ParamTids(sig) = 1 .. Len(sig.params)
  BY DEF ParamTids
<1>4. ASSUME NEW i \in 1 .. Len(sig.params)
      PROVE  ParamTids(sig)[i] \in BuiltinIds
  <2>1. sig.params[i] \in TypeNames
    BY <1>1
  <2> QED
    BY <1>2, <2>1 DEF ParamTids
<1>5. ParamTids(sig) \in Seq(BuiltinIds)
  <2>1. Len(sig.params) \in Nat
    BY <1>1
  <2>2. ParamTids(sig) \in [1 .. Len(sig.params) -> BuiltinIds]
    BY <1>4 DEF ParamTids
  <2> QED
    BY <2>1, <2>2
<1> QED
  BY <1>1, <1>2, <1>3, <1>4, <1>5

(* The builtin types alone satisfy the invariant.                          *)
LEMMA InitInv == Init => IInv
BY DEF Init, IInv, TypeOK, Canonical, Grounded, Interned, Empty, FirstUserId,
   TypeIds, BuiltinIds, TYPE_UNKNOWN, TYPE_INT

(* The next id is not in use, and larger than all that are.                *)
LEMMA NextIdFree ==
    ASSUME TypeOK
    PROVE  /\ nextTypeId \in Nat
           /\ nextTypeId \notin Interned
           /\ \A t \in TypeIds : t \in Nat /\ t < nextTypeId
BY DEF TypeOK, TypeIds, BuiltinIds, FirstUserId, TYPE_UNKNOWN, TYPE_INT

(* An array type, found or new, is built from an id already there.         *)
LEMMA MakeArrayInv ==
    ASSUME IInv, MakeArray
    PROVE  IInv'
<1>a. PICK len \in Lengths :
           \E elem \in IF len = 0 THEN {TYPE_UNKNOWN} ELSE ValueTypeIds :
              getArrayTypeId(elem, len)
  BY DEF MakeArray
<1>1. PICK elem \in IF len = 0 THEN {TYPE_UNKNOWN} ELSE ValueTypeIds :
              getArrayTypeId(elem, len)
  BY <1>a
<1>2. UNCHANGED functionTypes /\ elem \in TypeIds
  BY DEF MakeArray, ValueTypeIds, TypeIds, BuiltinIds, Interned, TYPE_UNKNOWN,
     TYPE_NULL, TYPE_STRING, TYPE_BOOL, TYPE_FLOAT, TYPE_INT
<1> DEFINE type == ArrayType(elem, len)
<1>3. CASE answer' \in Found(arrayTypes, type) /\ UNCHANGED <<arrayTypes, nextTypeId>>
  <2>1. answer' \in TypeIds
    BY <1>3 DEF Found, TypeIds, Interned
  <2> QED
    BY <1>2, <1>3, <2>1 DEF IInv, TypeOK, Canonical, Grounded, Interned, TypeIds
<1>4. CASE /\ Found(arrayTypes, type) = {}
           /\ FreshId
           /\ arrayTypes' = Added(arrayTypes, nextTypeId, type)
  <2>1. /\ nextTypeId \in Nat
        /\ nextTypeId \notin Interned
        /\ \A t \in TypeIds : t \in Nat /\ t < nextTypeId
    BY NextIdFree DEF IInv
  <2>2. nextTypeId \notin DOMAIN arrayTypes /\ nextTypeId \notin DOMAIN functionTypes
    BY <2>1 DEF Interned
  <2>3. /\ DOMAIN arrayTypes' = DOMAIN arrayTypes \union {nextTypeId}
        /\ arrayTypes'[nextTypeId] = type
        /\ \A t \in DOMAIN arrayTypes : arrayTypes'[t] = arrayTypes[t]
    <3> HIDE DEF type
    <3>1. /\ DOMAIN Added(arrayTypes, nextTypeId, type) = DOMAIN arrayTypes \union {nextTypeId}
          /\ Added(arrayTypes, nextTypeId, type)[nextTypeId] = type
          /\ \A t \in DOMAIN arrayTypes : Added(arrayTypes, nextTypeId, type)[t] = arrayTypes[t]
      BY <2>2 DEF Added
    <3> QED
      BY <1>4, <3>1
  <2>4. Interned' = Interned \union {nextTypeId} /\ nextTypeId' = nextTypeId + 1
    BY <1>2, <1>4, <2>3 DEF Interned, FreshId
  <2>5. type.element_tid = elem /\ type.length = len
    BY DEF ArrayType
  <2>6. TypeIds' = TypeIds \union {nextTypeId}
    BY <2>4 DEF TypeIds
  <2>7. TypeOK'
    <3>1. Interned' = FirstUserId .. (nextTypeId' - 1)
      BY <2>1, <2>4 DEF IInv, TypeOK, FirstUserId
    <3>2. answer' \in TypeIds'
      BY <1>4, <2>6 DEF FreshId
    <3>3. \A t \in DOMAIN arrayTypes' :
             /\ arrayTypes'[t] = ArrayType(arrayTypes'[t].element_tid,
                                           arrayTypes'[t].length)
             /\ arrayTypes'[t].length \in Lengths
      <4>1. ASSUME NEW t \in DOMAIN arrayTypes
            PROVE  /\ arrayTypes[t] = ArrayType(arrayTypes[t].element_tid,
                                                arrayTypes[t].length)
                   /\ arrayTypes[t].length \in Lengths
        BY DEF IInv, TypeOK
      <4>2. type = ArrayType(type.element_tid, type.length) /\ type.length \in Lengths
        BY <2>5
      <4> HIDE DEF type
      <4> QED
        BY <2>3, <4>1, <4>2
    <3>4. DOMAIN arrayTypes' \intersect DOMAIN functionTypes' = {}
      BY <1>2, <2>2, <2>3 DEF IInv, TypeOK
    <3>5. nextTypeId' \in Nat /\ nextTypeId' >= FirstUserId
      BY <2>1, <2>4 DEF IInv, TypeOK, FirstUserId
    <3>6. \A t \in DOMAIN functionTypes' :
             /\ functionTypes'[t] = FunctionType(functionTypes'[t].param_tids,
                                                 functionTypes'[t].return_tid)
             /\ functionTypes'[t].param_tids \in Seq(BuiltinIds)
      BY <1>2 DEF IInv, TypeOK
    <3> QED
      BY <3>1, <3>2, <3>3, <3>4, <3>5, <3>6 DEF TypeOK
  <2>8. Canonical'
    <3>1. \A t, u \in DOMAIN arrayTypes : arrayTypes[t] = arrayTypes[u] => t = u
      BY DEF IInv, Canonical
    <3> HIDE DEF type
    <3>2. \A t, u \in DOMAIN Added(arrayTypes, nextTypeId, type) :
             Added(arrayTypes, nextTypeId, type)[t]
                = Added(arrayTypes, nextTypeId, type)[u] => t = u
      BY <1>4, <2>2, <3>1, AddedDiffer
    <3> QED
      BY <1>2, <1>4, <3>2 DEF IInv, Canonical
  <2>9. Grounded'
    BY <1>2, <2>1, <2>3, <2>5, <2>6 DEF IInv, Grounded
  <2> QED
    BY <2>7, <2>8, <2>9 DEF IInv
<1> QED
  BY <1>1, <1>3, <1>4 DEF getArrayTypeId

(* A function type, found or new, is built from builtin ids.               *)
LEMMA TypeOfFunctionInv ==
    ASSUME IInv, TypeOfFunction
    PROVE  IInv'
<1>1. PICK sig \in Signatures :
              getFunctionTypeId(ParamTids(sig), resolveTypeName(sig.ret))
  BY DEF TypeOfFunction
<1>2. UNCHANGED arrayTypes
  BY DEF TypeOfFunction
<1> DEFINE type == FunctionType(ParamTids(sig), resolveTypeName(sig.ret))
<1>3. CASE /\ answer' \in Found(functionTypes, type)
           /\ UNCHANGED <<functionTypes, nextTypeId>>
  <2>1. answer' \in TypeIds
    BY <1>3 DEF Found, TypeIds, Interned
  <2> QED
    BY <1>2, <1>3, <2>1 DEF IInv, TypeOK, Canonical, Grounded, Interned, TypeIds
<1>4. CASE /\ Found(functionTypes, type) = {}
           /\ FreshId
           /\ functionTypes' = Added(functionTypes, nextTypeId, type)
  <2>1. /\ nextTypeId \in Nat
        /\ nextTypeId \notin Interned
        /\ \A t \in TypeIds : t \in Nat /\ t < nextTypeId
    BY NextIdFree DEF IInv
  <2>2. nextTypeId \notin DOMAIN arrayTypes /\ nextTypeId \notin DOMAIN functionTypes
    BY <2>1 DEF Interned
  <2>3. /\ DOMAIN functionTypes' = DOMAIN functionTypes \union {nextTypeId}
        /\ functionTypes'[nextTypeId] = type
        /\ \A t \in DOMAIN functionTypes : functionTypes'[t] = functionTypes[t]
    <3> HIDE DEF type
    <3>1. /\ DOMAIN Added(functionTypes, nextTypeId, type) = DOMAIN functionTypes \union {nextTypeId}
          /\ Added(functionTypes, nextTypeId, type)[nextTypeId] = type
          /\ \A t \in DOMAIN functionTypes : Added(functionTypes, nextTypeId, type)[t] = functionTypes[t]
      BY <2>2 DEF Added
    <3> QED
      BY <1>4, <3>1
  <2>4. Interned' = Interned \union {nextTypeId} /\ nextTypeId' = nextTypeId + 1
    BY <1>2, <1>4, <2>3 DEF Interned, FreshId
  <2>5. /\ type.param_tids = ParamTids(sig)
        /\ type.return_tid = resolveTypeName(sig.ret)
    BY DEF FunctionType
  <2>6. TypeIds' = TypeIds \union {nextTypeId}
    BY <2>4 DEF TypeIds
  <2>7. TypeOK'
    <3>1. Interned' = FirstUserId .. (nextTypeId' - 1)
      BY <2>1, <2>4 DEF IInv, TypeOK, FirstUserId
    <3>2. answer' \in TypeIds'
      BY <1>4, <2>6 DEF FreshId
    <3>3. DOMAIN arrayTypes' \intersect DOMAIN functionTypes' = {}
      BY <1>2, <2>2, <2>3 DEF IInv, TypeOK
    <3>4. nextTypeId' \in Nat /\ nextTypeId' >= FirstUserId
      BY <2>1, <2>4 DEF IInv, TypeOK, FirstUserId
    <3>5. \A t \in DOMAIN functionTypes' :
             /\ functionTypes'[t] = FunctionType(functionTypes'[t].param_tids,
                                                 functionTypes'[t].return_tid)
             /\ functionTypes'[t].param_tids \in Seq(BuiltinIds)
      <4>1. ASSUME NEW t \in DOMAIN functionTypes
            PROVE  /\ functionTypes[t] = FunctionType(functionTypes[t].param_tids,
                                                      functionTypes[t].return_tid)
                   /\ functionTypes[t].param_tids \in Seq(BuiltinIds)
        BY DEF IInv, TypeOK
      <4>2. /\ type = FunctionType(type.param_tids, type.return_tid)
            /\ type.param_tids \in Seq(BuiltinIds)
        BY <2>5, SignatureIds
      <4> HIDE DEF type
      <4> QED
        BY <2>3, <4>1, <4>2
    <3>6. \A t \in DOMAIN arrayTypes' :
             /\ arrayTypes'[t] = ArrayType(arrayTypes'[t].element_tid,
                                           arrayTypes'[t].length)
             /\ arrayTypes'[t].length \in Lengths
      BY <1>2 DEF IInv, TypeOK
    <3> QED
      BY <3>1, <3>2, <3>3, <3>4, <3>5, <3>6 DEF TypeOK
  <2>8. Canonical'
    <3>1. \A t, u \in DOMAIN functionTypes : functionTypes[t] = functionTypes[u] => t = u
      BY DEF IInv, Canonical
    <3> HIDE DEF type
    <3>2. \A t, u \in DOMAIN Added(functionTypes, nextTypeId, type) :
             Added(functionTypes, nextTypeId, type)[t]
                = Added(functionTypes, nextTypeId, type)[u] => t = u
      BY <1>4, <2>2, <3>1, AddedDiffer
    <3> QED
      BY <1>2, <1>4, <3>2 DEF IInv, Canonical
  <2>9. Grounded'
    <3>1. /\ \A i \in DOMAIN type.param_tids : type.param_tids[i] \in BuiltinIds
          /\ type.return_tid \in BuiltinIds
      BY <2>5, SignatureIds
    <3> HIDE DEF type
    <3>2. \A t \in DOMAIN functionTypes' :
             /\ \A i \in DOMAIN functionTypes'[t].param_tids :
                   functionTypes'[t].param_tids[i] \in BuiltinIds
             /\ functionTypes'[t].return_tid \in BuiltinIds
      BY <2>3, <3>1 DEF IInv, Grounded
    <3> QED
      BY <1>2, <2>6, <3>2 DEF IInv, Grounded
  <2> QED
    BY <2>7, <2>8, <2>9 DEF IInv
<1> QED
  BY <1>1, <1>3, <1>4 DEF getFunctionTypeId

(* Every step keeps the invariant.                                         *)
LEMMA NextInv == IInv /\ [Next]_vars => IInv'
<1>1. IInv /\ UNCHANGED vars => IInv'
  BY DEF vars, IInv, TypeOK, Canonical, Grounded, Interned, TypeIds
<1> QED
  BY <1>1, MakeArrayInv, TypeOfFunctionInv DEF Next

(* The invariant holds of every table a process can build.                 *)
THEOREM Invariance == Spec => []IInv
BY InitInv, NextInv, PTL DEF Spec

(* TypeOK holds of every table: both maps draw their ids from one counter  *)
(* and no id is skipped or used in both.                                   *)
THEOREM TypeCorrect == Spec => []TypeOK
<1>1. IInv => TypeOK
  BY DEF IInv
<1> QED
  BY <1>1, Invariance, PTL

(* Canonical holds however many types, of whatever lengths and signatures, *)
(* a process interns: equal ids mean equal entries.                        *)
THEOREM IdsCanonical == Spec => []Canonical
<1>1. IInv => Canonical
  BY DEF IInv
<1> QED
  BY <1>1, Invariance, PTL

(* Grounded holds of every table: getTypeName's recursion goes to smaller  *)
(* ids at each level, so it ends.                                          *)
THEOREM IdsGrounded == Spec => []Grounded
<1>1. IInv => Grounded
  BY DEF IInv
<1> QED
  BY <1>1, Invariance, PTL

-----------------------------------------------------------------------------

(* The two recursive descriptions, one level of each, over any tables of   *)
(* array types A and function types F.                                     *)
Ids(A, F) == BuiltinIds \union (DOMAIN A \union DOMAIN F)

TypeOf(f, A, F, t) ==
    IF t \in DOMAIN A
    THEN <<"array", f[A[t].element_tid], A[t].length>>
    ELSE IF t \in DOMAIN F
    THEN <<"fn", [i \in DOMAIN F[t].param_tids |-> f[F[t].param_tids[i]]],
           f[F[t].return_tid]>>
    ELSE <<BasicName(t)>>

NameOf(f, A, F, t) ==
    IF t \in DOMAIN A
    THEN f[A[t].element_tid] \o <<"[", A[t].length, "]">>
    ELSE IF t \in DOMAIN F
    THEN <<"fn(">> \o Joined([i \in DOMAIN F[t].param_tids |-> f[F[t].param_tids[i]]])
            \o <<") -> ">> \o f[F[t].return_tid]
    ELSE <<BasicName(t)>>

Level1(w, f, A, F, t) ==
    IF w = "type" THEN TypeOf(f, A, F, t) ELSE NameOf(f, A, F, t)

Describes(w, f, A, F) == f = [t \in Ids(A, F) |-> Level1(w, f, A, F, t)]

(* Tables whose entries are built from smaller ids.                        *)
Ordered(A, F) ==
    /\ \A t \in DOMAIN A \union DOMAIN F : t \in Nat /\ t >= FirstUserId
    /\ DOMAIN A \intersect DOMAIN F = {}
    /\ \A t \in DOMAIN A : A[t].element_tid \in Ids(A, F) /\ A[t].element_tid < t
    /\ \A t \in DOMAIN F : /\ F[t].param_tids \in Seq(BuiltinIds)
                           /\ F[t].return_tid \in BuiltinIds

(* The builtin types have the ids below those of the table.                *)
LEMMA BuiltinsSmall == BuiltinIds \subseteq Nat /\ \A t \in BuiltinIds : t < FirstUserId
BY DEF BuiltinIds, TYPE_UNKNOWN, TYPE_INT, FirstUserId

(* One level looks at smaller ids only.                                    *)
LEMMA LevelLocal ==
    ASSUME NEW w, NEW A, NEW F, NEW A2, NEW F2, Ordered(A, F),
           NEW t \in Ids(A, F),
           t \in DOMAIN A <=> t \in DOMAIN A2, t \in DOMAIN A => A2[t] = A[t],
           t \in DOMAIN F <=> t \in DOMAIN F2, t \in DOMAIN F => F2[t] = F[t],
           NEW f, NEW g, \A u \in Ids(A, F) : u < t => g[u] = f[u]
    PROVE  Level1(w, g, A2, F2, t) = Level1(w, f, A, F, t)
<1>1. CASE t \in DOMAIN A
  <2>1. A[t].element_tid \in Ids(A, F) /\ A[t].element_tid < t
    BY <1>1 DEF Ordered
  <2>2. g[A[t].element_tid] = f[A[t].element_tid]
    BY <2>1
  <2> QED
    BY <1>1, <2>2 DEF Level1, TypeOf, NameOf
<1>2. CASE t \notin DOMAIN A /\ t \in DOMAIN F
  <2> DEFINE ps == F[t].param_tids
  <2>1. ps \in Seq(BuiltinIds) /\ F[t].return_tid \in BuiltinIds
        /\ t \in Nat /\ t >= FirstUserId
    BY <1>2 DEF Ordered
  <2>2. \A u \in BuiltinIds : u \in Ids(A, F) /\ u < t
    BY <2>1, BuiltinsSmall DEF Ids, FirstUserId
  <2>3. \A i \in DOMAIN ps : ps[i] \in BuiltinIds
    BY <2>1, LenProperties
  <2>4. /\ [i \in DOMAIN ps |-> g[ps[i]]] = [i \in DOMAIN ps |-> f[ps[i]]]
        /\ g[F[t].return_tid] = f[F[t].return_tid]
    <3> HIDE DEF ps
    <3>1. \A i \in DOMAIN ps : g[ps[i]] = f[ps[i]]
      BY <2>2, <2>3
    <3> QED
      BY <2>1, <2>2, <3>1
  <2>5. F2[t] = F[t] /\ t \notin DOMAIN A2 /\ t \in DOMAIN F2
    BY <1>2
  <2> QED
    BY <1>2, <2>4, <2>5 DEF Level1, TypeOf, NameOf
<1>3. CASE t \notin DOMAIN A /\ t \notin DOMAIN F
  BY <1>3 DEF Level1, TypeOf, NameOf
<1> QED
  BY <1>1, <1>2, <1>3

(* There is a description of the ids below k, for every k.                 *)
Below(k, w, f, A, F) == \A t \in Ids(A, F) : t < k => f[t] = Level1(w, f, A, F, t)

(* Every id is a number, so there is a least id among any.                 *)
LEMMA IdsNatural ==
    ASSUME NEW A, NEW F, Ordered(A, F)
    PROVE  Ids(A, F) \subseteq Nat
BY BuiltinsSmall DEF Ordered, Ids

(* A description exists below every bound, by the least bound for which    *)
(* none does.                                                              *)
LEMMA BelowExists ==
    ASSUME NEW w, NEW A, NEW F, Ordered(A, F), NEW k \in Nat
    PROVE  \E f : Below(k, w, f, A, F)
<1> DEFINE T == {i \in Nat : ~ \E f : Below(i, w, f, A, F)}
<1>1. SUFFICES ASSUME T # {} PROVE FALSE
  OBVIOUS
<1>2. PICK x \in T : \A y \in T : x <= y
  BY <1>1, LeastNumber
<1>3. x \in Nat /\ ~ \E f : Below(x, w, f, A, F)
  BY <1>2
<1>4. Ids(A, F) \subseteq Nat
  BY IdsNatural
<1>5. x # 0
  <2>1. Below(0, w, <<>>, A, F)
    BY <1>4 DEF Below
  <2> QED
    BY <1>3, <2>1
<1>6. x - 1 \in Nat /\ ~ (x <= x - 1)
  BY <1>3, <1>5
<1>7. PICK f : Below(x - 1, w, f, A, F)
  <2>1. x - 1 \notin T
    BY <1>2, <1>6
  <2> QED
    BY <1>6, <2>1
<1> HIDE DEF T
<1> DEFINE g == [t \in Nat |-> IF t = x - 1 THEN Level1(w, f, A, F, t) ELSE f[t]]
<1>8. \A t \in Nat : g[t] = IF t = x - 1 THEN Level1(w, f, A, F, t) ELSE f[t]
  OBVIOUS
<1> HIDE DEF g
<1>9. ASSUME NEW t \in Ids(A, F), t < x
      PROVE  g[t] = Level1(w, g, A, F, t)
  <2>1. t \in Nat /\ t <= x - 1
    BY <1>3, <1>4, <1>9
  <2>2. \A u \in Ids(A, F) : u < t => g[u] = f[u]
    BY <1>3, <1>4, <1>8, <2>1
  <2>3. Level1(w, g, A, F, t) = Level1(w, f, A, F, t)
    BY <2>2, LevelLocal
  <2>4. CASE t = x - 1
    BY <1>8, <2>1, <2>3, <2>4
  <2>5. CASE t # x - 1
    <3>1. t < x - 1
      BY <1>3, <2>1, <2>5
    <3> QED
      BY <1>7, <1>8, <2>1, <2>3, <2>5, <3>1 DEF Below
  <2> QED
    BY <2>4, <2>5
<1>10. Below(x, w, g, A, F)
  BY <1>9 DEF Below
<1> QED
  BY <1>3, <1>10

(* So there is one of all ids.                                             *)
LEMMA Described ==
    ASSUME NEW w, NEW A, NEW F, Ordered(A, F),
           NEW n \in Nat, \A t \in Ids(A, F) : t < n
    PROVE  Describes(w, CHOOSE f : Describes(w, f, A, F), A, F)
<1>1. PICK f : Below(n, w, f, A, F)
  BY BelowExists
<1> DEFINE g == [t \in Ids(A, F) |-> f[t]]
<1>2. \A t \in Ids(A, F) : g[t] = f[t]
  OBVIOUS
<1>3. g = [t \in Ids(A, F) |-> g[t]]
  OBVIOUS
<1> HIDE DEF g
<1>4. \A t \in Ids(A, F) : g[t] = Level1(w, g, A, F, t)
  <2> TAKE t \in Ids(A, F)
  <2>1. Level1(w, g, A, F, t) = Level1(w, f, A, F, t)
    BY <1>2, LevelLocal
  <2> QED
    BY <1>1, <1>2, <2>1 DEF Below
<1>5. Describes(w, g, A, F)
  BY <1>3, <1>4 DEF Describes
<1> QED
  BY <1>5

(* A larger table describes the ids of a smaller one as that does.         *)
LEMMA SameDescription ==
    ASSUME NEW w, NEW A, NEW F, NEW f, Ordered(A, F), Describes(w, f, A, F),
           NEW A2, NEW F2, NEW g, Describes(w, g, A2, F2),
           Ids(A, F) \subseteq Ids(A2, F2),
           \A t \in Ids(A, F) :
              /\ t \in DOMAIN A <=> t \in DOMAIN A2
              /\ t \in DOMAIN A => A2[t] = A[t]
              /\ t \in DOMAIN F <=> t \in DOMAIN F2
              /\ t \in DOMAIN F => F2[t] = F[t]
    PROVE  \A t \in Ids(A, F) : g[t] = f[t]
<1> DEFINE T == {t \in Ids(A, F) : g[t] # f[t]}
<1>1. SUFFICES ASSUME T # {} PROVE FALSE
  OBVIOUS
<1>2. Ids(A, F) \subseteq Nat
  BY IdsNatural
<1>3. PICK x \in T : \A y \in T : x <= y
  BY <1>1, <1>2, LeastNumber
<1>4. x \in Ids(A, F) /\ x \in Ids(A2, F2) /\ x \in Nat
  BY <1>2, <1>3
<1>5. \A u \in Ids(A, F) : u < x => g[u] = f[u]
  <2> TAKE u \in Ids(A, F)
  <2>1. u \in Nat
    BY <1>2
  <2> QED
    BY <1>3, <1>4, <2>1
<1>6. Level1(w, g, A2, F2, x) = Level1(w, f, A, F, x)
  BY <1>4, <1>5, LevelLocal
<1>7. f[x] = Level1(w, f, A, F, x) /\ g[x] = Level1(w, g, A2, F2, x)
  BY <1>4, Zenon DEF Describes
<1> QED
  BY <1>3, <1>6, <1>7

-----------------------------------------------------------------------------
(* No two ids stand for one type.                                          *)

(* The components of a triple.                                             *)
LEMMA Parts ==
    ASSUME NEW a, NEW b, NEW c
    PROVE  <<a, b, c>>[1] = a /\ <<a, b, c>>[2] = b /\ <<a, b, c>>[3] = c
OBVIOUS

(* No builtin type has the name of another, or one of the words that mark  *)
(* an array or a function.                                                 *)
LEMMA BasicNames ==
    /\ \A t \in BuiltinIds : BasicName(t) \notin {"array", "fn", "]"}
    /\ \A t, u \in BuiltinIds : BasicName(t) = BasicName(u) => t = u
<1>1. ASSUME NEW t \in BuiltinIds
      PROVE  \/ t = 0 /\ BasicName(t) = "unknown"
             \/ t = 1 /\ BasicName(t) = "null"
             \/ t = 2 /\ BasicName(t) = "string"
             \/ t = 3 /\ BasicName(t) = "bool"
             \/ t = 4 /\ BasicName(t) = "float"
             \/ t = 5 /\ BasicName(t) = "void"
             \/ t = 6 /\ BasicName(t) = "int"
  <2>1. t \in 0 .. 6
    BY DEF BuiltinIds, TYPE_UNKNOWN, TYPE_INT
  <2> QED
    BY <2>1 DEF BasicName, TYPE_NULL, TYPE_STRING, TYPE_BOOL, TYPE_FLOAT, TYPE_VOID,
       TYPE_INT
<1>2. \A t \in BuiltinIds : BasicName(t) \notin {"array", "fn", "]"}
  BY <1>1
<1>3. \A t, u \in BuiltinIds : BasicName(t) = BasicName(u) => t = u
  BY <1>1
<1> QED
  BY <1>2, <1>3

(* The tables: no entry twice, and entries of the right kind.              *)
Entered(A, F) ==
    /\ \A t \in DOMAIN A : A[t] = ArrayType(A[t].element_tid, A[t].length)
                           /\ A[t].length \in Nat
    /\ \A t \in DOMAIN F : F[t] = FunctionType(F[t].param_tids, F[t].return_tid)
    /\ \A t, u \in DOMAIN A : A[t] = A[u] => t = u
    /\ \A t, u \in DOMAIN F : F[t] = F[u] => t = u

(* One array type has one entry.                                           *)
LEMMA SameArray ==
    ASSUME NEW A, NEW F, Entered(A, F), NEW t \in DOMAIN A, NEW u \in DOMAIN A,
           A[t].element_tid = A[u].element_tid, A[t].length = A[u].length
    PROVE  t = u
BY DEF Entered

(* One function type has one entry, its types told apart by their names.   *)
LEMMA SameFunction ==
    ASSUME NEW A, NEW F, Ordered(A, F), Entered(A, F),
           NEW t \in DOMAIN F, NEW u \in DOMAIN F,
           Len(F[t].param_tids) = Len(F[u].param_tids),
           \A i \in 1 .. Len(F[t].param_tids) :
              BasicName(F[t].param_tids[i]) = BasicName(F[u].param_tids[i]),
           BasicName(F[t].return_tid) = BasicName(F[u].return_tid)
    PROVE  t = u
<1> DEFINE ps == F[t].param_tids
           qs == F[u].param_tids
<1>1. /\ ps \in Seq(BuiltinIds) /\ qs \in Seq(BuiltinIds)
      /\ F[t].return_tid \in BuiltinIds /\ F[u].return_tid \in BuiltinIds
  BY DEF Ordered
<1>2. F[t].return_tid = F[u].return_tid
  BY <1>1, BasicNames
<1>3. ps = qs
  <2>1. Len(ps) = Len(qs) /\ \A i \in 1 .. Len(ps) : BasicName(ps[i]) = BasicName(qs[i])
    OBVIOUS
  <2> HIDE DEF ps, qs
  <2>2. \A i \in 1 .. Len(ps) : ps[i] \in BuiltinIds /\ qs[i] \in BuiltinIds
    BY <1>1, <2>1, ElementOfSeq
  <2>3. \A i \in 1 .. Len(ps) : ps[i] = qs[i]
    BY <2>1, <2>2, BasicNames
  <2> QED
    BY <1>1, <2>1, <2>3, SeqEqual
<1> QED
  BY <1>2, <1>3 DEF Entered

(* What two ids stand for differs, by the least id that stands for what    *)
(* another does.                                                           *)
LEMMA TypesDiffer ==
    ASSUME NEW A, NEW F, NEW f, Ordered(A, F), Entered(A, F), Describes("type", f, A, F)
    PROVE  \A t, u \in Ids(A, F) : f[t] = f[u] => t = u
<1> DEFINE T == {t \in Ids(A, F) : \E u \in Ids(A, F) : f[t] = f[u] /\ t # u}
<1>1. SUFFICES ASSUME T # {} PROVE FALSE
  OBVIOUS
<1>2. Ids(A, F) \subseteq Nat
  BY IdsNatural
<1>3. PICK x \in T : \A y \in T : x <= y
  BY <1>1, <1>2, LeastNumber
<1>4. PICK u \in Ids(A, F) : f[x] = f[u] /\ x # u
  BY <1>3
<1>5. x \in Ids(A, F)
  BY <1>3
<1>6. ASSUME NEW e \in Ids(A, F), e < x, NEW d \in Ids(A, F), f[e] = f[d]
      PROVE  e = d
  BY <1>2, <1>3, <1>5, <1>6
<1> HIDE DEF T
<1>7. ASSUME NEW t \in Ids(A, F)
      PROVE  f[t] = TypeOf(f, A, F, t)
  BY <1>7 DEF Describes, Level1
<1>8. ASSUME NEW t \in DOMAIN A
      PROVE  /\ f[t] = <<"array", f[A[t].element_tid], A[t].length>>
             /\ A[t].element_tid \in Ids(A, F) /\ A[t].element_tid < t
  <2>1. t \in Ids(A, F)
    BY DEF Ids
  <2> QED
    BY <1>7, <2>1 DEF TypeOf, Ordered
<1>9. ASSUME NEW t \in BuiltinIds
      PROVE  f[t] = <<BasicName(t)>>
  <2>1. t \in Ids(A, F) /\ t \notin DOMAIN A /\ t \notin DOMAIN F
    BY BuiltinsSmall DEF Ids, Ordered, FirstUserId
  <2> QED
    BY <1>7, <2>1 DEF TypeOf
<1>10. ASSUME NEW t \in DOMAIN F
       PROVE  /\ f[t][1] = "fn"
              /\ f[t][2] = [i \in 1 .. Len(F[t].param_tids) |->
                                <<BasicName(F[t].param_tids[i])>>]
              /\ f[t][3] = <<BasicName(F[t].return_tid)>>
  <2>1. t \in Ids(A, F) /\ t \notin DOMAIN A
    BY DEF Ids, Ordered
  <2>2. F[t].param_tids \in Seq(BuiltinIds) /\ F[t].return_tid \in BuiltinIds
    BY DEF Ordered
  <2> DEFINE ps == F[t].param_tids
  <2>3. DOMAIN ps = 1 .. Len(ps) /\ \A i \in 1 .. Len(ps) : ps[i] \in BuiltinIds
    BY <2>2, LenProperties, ElementOfSeq
  <2>4. f[t] = <<"fn", [i \in DOMAIN ps |-> f[ps[i]]], f[F[t].return_tid]>>
    BY <1>7, <2>1 DEF TypeOf
  <2> HIDE DEF ps
  <2>5. [i \in DOMAIN ps |-> f[ps[i]]] = [i \in 1 .. Len(ps) |-> <<BasicName(ps[i])>>]
    BY <1>9, <2>3
  <2>6. /\ f[t][1] = "fn"
        /\ f[t][2] = [i \in DOMAIN ps |-> f[ps[i]]]
        /\ f[t][3] = f[F[t].return_tid]
    BY <2>4, Parts
  <2> QED
    BY <1>9, <2>2, <2>5, <2>6 DEF ps
<1>11. CASE x \in DOMAIN A
  <2>1. f[x][1] = "array"
    BY <1>8, <1>11
  <2>2. u \in DOMAIN A
    <3>1. u \in BuiltinIds => FALSE
      BY <1>4, <1>9, <2>1, BasicNames
    <3>2. u \in DOMAIN F => FALSE
      <4>1. ASSUME u \in DOMAIN F PROVE f[u][1] = "fn"
        BY <1>10, <4>1
      <4> QED
        BY <1>4, <2>1, <4>1
    <3> QED
      BY <3>1, <3>2 DEF Ids
  <2>3. /\ f[A[x].element_tid] = f[A[u].element_tid]
        /\ A[x].length = A[u].length
    BY <1>4, <1>8, <1>11, <2>2
  <2>4. A[x].element_tid = A[u].element_tid
    BY <1>6, <1>8, <1>11, <2>2, <2>3
  <2> QED
    BY <1>4, <1>11, <2>2, <2>3, <2>4, SameArray
<1>12. CASE x \in DOMAIN F
  <2>1. f[x][1] = "fn"
    BY <1>10, <1>12
  <2>2. u \in DOMAIN F
    <3>1. u \in BuiltinIds => FALSE
      BY <1>4, <1>9, <2>1, BasicNames
    <3>2. u \in DOMAIN A => FALSE
      BY <1>4, <1>8, <2>1
    <3> QED
      BY <3>1, <3>2 DEF Ids
  <2> DEFINE ps == F[x].param_tids
             qs == F[u].param_tids
             p  == [i \in 1 .. Len(ps) |-> <<BasicName(ps[i])>>]
             q  == [i \in 1 .. Len(qs) |-> <<BasicName(qs[i])>>]
  <2>3. /\ f[x][2] = p /\ f[x][3] = <<BasicName(F[x].return_tid)>>
        /\ f[u][2] = q /\ f[u][3] = <<BasicName(F[u].return_tid)>>
    BY <1>10, <1>12, <2>2
  <2>4. p = q /\ BasicName(F[x].return_tid) = BasicName(F[u].return_tid)
    <3> HIDE DEF p, q
    <3> QED
      BY <1>4, <2>3
  <2>5. Len(ps) \in Nat /\ Len(qs) \in Nat
    <3>1. ps \in Seq(BuiltinIds) /\ qs \in Seq(BuiltinIds)
      BY <1>12, <2>2 DEF Ordered
    <3> QED
      BY <3>1, LenProperties
  <2> HIDE DEF ps, qs
  <2>6. 1 .. Len(ps) = 1 .. Len(qs)
    BY <2>4
  <2>7. Len(ps) = Len(qs)
    BY ONLY <2>5, <2>6
  <2>8. \A i \in 1 .. Len(ps) : BasicName(ps[i]) = BasicName(qs[i])
    <3> TAKE i \in 1 .. Len(ps)
    <3>1. p[i] = <<BasicName(ps[i])>> /\ q[i] = <<BasicName(qs[i])>>
      BY <2>7
    <3> HIDE DEF p, q
    <3> QED
      BY <2>4, <3>1
  <2> QED
    BY <1>4, <1>12, <2>2, <2>4, <2>7, <2>8, SameFunction DEF ps, qs
<1>13. CASE x \in BuiltinIds
  <2>1. u \in DOMAIN A => FALSE
    BY <1>4, <1>8, <1>9, <1>13, BasicNames
  <2>2. u \in DOMAIN F => FALSE
    <3>1. ASSUME u \in DOMAIN F PROVE f[u][1] = "fn"
      BY <1>10, <3>1
    <3>2. f[x][1] = BasicName(x)
      BY <1>9, <1>13
    <3> QED
      BY <1>4, <1>13, <3>1, <3>2, BasicNames
  <2>3. u \in BuiltinIds
    BY <2>1, <2>2 DEF Ids
  <2> QED
    BY <1>4, <1>9, <1>13, <2>3, BasicNames
<1> QED
  BY <1>5, <1>11, <1>12, <1>13 DEF Ids

-----------------------------------------------------------------------------
(* The words of a list of parameters.                                      *)

Words == {BasicName(t) : t \in BuiltinIds}
            \union {"fn(", ") -> ", "[", "]", ", "} \union Nat

(* A word is a sequence of words.                                          *)
LEMMA OneWord ==
    ASSUME NEW S, NEW a \in S
    PROVE  <<a>> \in Seq(S) /\ Len(<<a>>) = 1 /\ <<a>>[1] = a
OBVIOUS

Comma(i) == IF i > 1 THEN <<", ">> ELSE <<>>

NextJoined(b, i, names) == b \o Comma(i) \o names[i]

Joins(g, k, names) ==
    g = [i \in 0 .. k |-> IF i = 0 THEN <<>> ELSE NextJoined(g[i - 1], i, names)]

(* The loop over the parameters yields something after every turn, by the  *)
(* least turn for which it does not.                                       *)
LEMMA JoinsExist ==
    ASSUME NEW names, NEW k \in Nat
    PROVE  \E g : Joins(g, k, names)
<1> DEFINE T == {i \in Nat : ~ \E g : Joins(g, i, names)}
<1>1. SUFFICES ASSUME T # {} PROVE FALSE
  OBVIOUS
<1>2. PICK x \in T : \A y \in T : x <= y
  BY <1>1, LeastNumber
<1>3. x \in Nat /\ ~ \E g : Joins(g, x, names)
  BY <1>2
<1>4. CASE x = 0
  <2> DEFINE g == [i \in 0 .. 0 |-> <<>>]
  <2>1. g = [i \in 0 .. 0 |-> IF i = 0 THEN <<>> ELSE NextJoined(g[i - 1], i, names)]
    OBVIOUS
  <2>2. Joins(g, 0, names)
    BY <2>1 DEF Joins
  <2> QED
    BY <1>3, <1>4, <2>2
<1>5. CASE x # 0
  <2>1. x - 1 \in Nat /\ ~ (x <= x - 1)
    BY <1>3, <1>5
  <2>2. x - 1 \notin T
    BY <1>2, <2>1
  <2>3. PICK h : Joins(h, x - 1, names)
    BY <2>1, <2>2
  <2> HIDE DEF T
  <2> DEFINE g == [i \in 0 .. x |-> IF i < x THEN h[i] ELSE NextJoined(h[x - 1], x, names)]
             step(e, i) == IF i = 0 THEN <<>> ELSE NextJoined(e, i, names)
  <2>4. \A i \in 0 .. x - 1 : h[i] = step(h[i - 1], i)
    BY <2>3 DEF Joins
  <2>5. \A i \in 0 .. x : g[i] = IF i < x THEN h[i] ELSE NextJoined(h[x - 1], x, names)
    OBVIOUS
  <2>6. \A i \in 0 .. x : g[i] = step(g[i - 1], i)
    <3> TAKE i \in 0 .. x
    <3>1. CASE i = 0
      BY <1>3, <1>5, <2>4, <2>5, <3>1
    <3>2. CASE i \in 1 .. x - 1
      <4>1. i \in 0 .. x - 1 /\ i < x /\ i - 1 \in 0 .. x /\ i - 1 < x /\ i # 0
        BY <1>3, <3>2
      <4>2. g[i] = h[i] /\ g[i - 1] = h[i - 1]
        BY <2>5, <4>1
      <4> HIDE DEF g
      <4> QED
        BY <2>4, <4>1, <4>2
    <3>3. CASE i = x
      <4>1. x - 1 \in 0 .. x /\ x - 1 < x /\ ~ (x < x) /\ x \in 0 .. x
        BY <1>3, <1>5
      <4>2. g[x] = NextJoined(h[x - 1], x, names) /\ g[x - 1] = h[x - 1]
        BY <2>5, <4>1
      <4> HIDE DEF g
      <4> QED
        BY <1>5, <3>3, <4>2
    <3> QED
      BY <1>3, <3>1, <3>2, <3>3
  <2>7. g = [i \in 0 .. x |-> g[i]]
    OBVIOUS
  <2> HIDE DEF g
  <2>8. g = [i \in 0 .. x |-> step(g[i - 1], i)]
    BY <2>6, <2>7
  <2>9. Joins(g, x, names)
    BY <2>8 DEF Joins
  <2> QED
    BY <1>3, <2>9
<1> QED
  BY <1>4, <1>5

(* What getTypeName joins is what that loop yields in the end.             *)
LEMMA JoinedChosen ==
    ASSUME NEW names
    PROVE  Joined(names) = (CHOOSE g : Joins(g, Len(names), names))[Len(names)]
BY DEF Joined, Joins, NextJoined, Comma

(* One more parameter is one or two more words.                            *)
Width(i) == IF i = 0 THEN 0 ELSE 2 * i - 1

(* A turn of the loop adds one name, behind a comma unless it is the       *)
(* first.                                                                  *)
LEMMA OneMore ==
    ASSUME NEW i \in Nat, i > 0, NEW b \in Seq(Words), Len(b) = Width(i - 1),
           NEW w \in Words, NEW names, names[i] = <<w>>
    PROVE  /\ NextJoined(b, i, names) \in Seq(Words)
           /\ Len(NextJoined(b, i, names)) = Width(i)
           /\ \A j \in 1 .. Len(b) : NextJoined(b, i, names)[j] = b[j]
           /\ NextJoined(b, i, names)[2 * i - 1] = w
<1>1. /\ Comma(i) \in Seq(Words)
      /\ Len(Comma(i)) = IF i > 1 THEN 1 ELSE 0
  <2>1. ", " \in Words
    BY DEF Words
  <2>2. <<", ">> \in Seq(Words) /\ Len(<<", ">>) = 1
    BY <2>1, OneWord
  <2> QED
    BY <2>2, EmptySeq DEF Comma
<1>2. <<w>> \in Seq(Words) /\ Len(<<w>>) = 1 /\ <<w>>[1] = w
  BY OneWord
<1> DEFINE c == Comma(i)
           d == b \o c
           e == d \o <<w>>
<1>3. /\ d \in Seq(Words)
      /\ Len(d) = Len(b) + Len(c)
      /\ \A j \in 1 .. Len(b) + Len(c) : d[j] = IF j <= Len(b) THEN b[j] ELSE c[j - Len(b)]
  BY <1>1, ConcatProperties
<1> HIDE DEF d
<1>4. /\ e \in Seq(Words)
      /\ Len(e) = Len(d) + Len(<<w>>)
      /\ \A j \in 1 .. Len(d) + Len(<<w>>) :
            e[j] = IF j <= Len(d) THEN d[j] ELSE <<w>>[j - Len(d)]
  BY <1>2, <1>3, ConcatProperties
<1> HIDE DEF c, e
<1>5. Len(b) \in Nat /\ Len(c) \in Nat
  BY <1>1, LenProperties DEF c
<1>6. Len(d) = 2 * i - 2
  BY <1>1, <1>3 DEF Width, c
<1>7. Len(e) = 2 * i - 1
  BY <1>2, <1>4, <1>6
<1>8. \A j \in 1 .. Len(b) : e[j] = b[j]
  <2> TAKE j \in 1 .. Len(b)
  <2>1. j \in 1 .. Len(b) + Len(c) /\ j <= Len(b)
    BY <1>5
  <2>2. d[j] = b[j]
    BY <1>3, <2>1
  <2>3. j \in 1 .. Len(d) + Len(<<w>>) /\ j <= Len(d)
    BY <1>2, <1>3, <1>5
  <2> QED
    BY <1>4, <2>2, <2>3
<1>9. e[2 * i - 1] = w
  <2>1. 2 * i - 1 \in 1 .. Len(d) + Len(<<w>>) /\ ~ (2 * i - 1 <= Len(d))
        /\ 2 * i - 1 - Len(d) = 1
    BY <1>2, <1>6
  <2> QED
    BY <1>2, <1>4, <2>1
<1>10. NextJoined(b, i, names) = e
  BY DEF NextJoined, e, d, c
<1> QED
  BY <1>4, <1>7, <1>8, <1>9, <1>10 DEF Width

(* The parameters can be read off their list.                              *)
LEMMA JoinedFacts ==
    ASSUME NEW n \in Nat, NEW w \in [1 .. n -> Words]
    PROVE  /\ Joined([i \in 1 .. n |-> <<w[i]>>]) \in Seq(Words)
           /\ Len(Joined([i \in 1 .. n |-> <<w[i]>>])) = Width(n)
           /\ \A j \in 1 .. n : Joined([i \in 1 .. n |-> <<w[i]>>])[2 * j - 1] = w[j]
<1> DEFINE names == [i \in 1 .. n |-> <<w[i]>>]
           g == CHOOSE g : Joins(g, n, names)
           Good(i) == /\ g[i] \in Seq(Words)
                      /\ Len(g[i]) = Width(i)
                      /\ \A j \in 1 .. i : g[i][2 * j - 1] = w[j]
           T == {i \in 0 .. n : ~ Good(i)}
<1>1. Len(names) = n /\ \A i \in 1 .. n : names[i] = <<w[i]>>
  OBVIOUS
<1> HIDE DEF names
<1>2. Joins(g, n, names)
  BY JoinsExist
<1>3. Joined(names) = g[n]
  BY <1>1, JoinedChosen
<1> HIDE DEF g
<1>4. g[0] = <<>>
  BY <1>2 DEF Joins
<1>5. \A i \in 1 .. n : g[i] = NextJoined(g[i - 1], i, names)
  BY <1>2 DEF Joins
<1>6. Good(0)
  BY <1>4, EmptySeq DEF Width
<1>7. ASSUME T # {} PROVE FALSE
  <2>1. T \subseteq Nat
    OBVIOUS
  <2>2. PICK x \in T : \A y \in T : x <= y
    <3> HIDE DEF T
    <3> QED
      BY <1>7, <2>1, LeastNumber
  <2>3. x \in 0 .. n /\ ~ Good(x)
    BY <2>2
  <2>4. x # 0
    <3> HIDE DEF Good
    <3> QED
      BY <1>6, <2>3
  <2>5. x \in 1 .. n /\ x - 1 \in 0 .. n /\ ~ (x <= x - 1) /\ x > 0 /\ x \in Nat
    BY <2>3, <2>4
  <2>6. Good(x - 1)
    <3>1. x - 1 \notin T
      <4> HIDE DEF T
      <4> QED
        BY <2>2, <2>5
    <3> HIDE DEF Good
    <3> QED
      BY <2>5, <3>1
  <2> HIDE DEF T
  <2> DEFINE b == g[x - 1]
  <2>7. names[x] = <<w[x]>> /\ w[x] \in Words
    BY <1>1, <2>5
  <2>8. /\ g[x] \in Seq(Words)
        /\ Len(g[x]) = Width(x)
        /\ \A j \in 1 .. Len(b) : g[x][j] = b[j]
        /\ g[x][2 * x - 1] = w[x]
    <3>1. b \in Seq(Words) /\ Len(b) = Width(x - 1)
      BY <2>6
    <3>2. g[x] = NextJoined(b, x, names)
      BY <1>5, <2>5
    <3> HIDE DEF b
    <3> QED
      BY <2>5, <2>7, <3>1, <3>2, OneMore
  <2>9. \A j \in 1 .. x : g[x][2 * j - 1] = w[j]
    <3> TAKE j \in 1 .. x
    <3>1. CASE j = x
      BY <2>8, <3>1
    <3>2. CASE j # x
      <4>1. j \in 1 .. x - 1 /\ 2 * j - 1 \in 1 .. 2 * (x - 1) - 1 /\ x - 1 # 0
        BY <2>5, <3>2
      <4>2. Len(b) = 2 * (x - 1) - 1 /\ b[2 * j - 1] = w[j]
        BY <2>6, <4>1 DEF Width
      <4> HIDE DEF b, Good
      <4> QED
        BY <2>8, <4>1, <4>2
    <3> QED
      BY <3>1, <3>2
  <2> QED
    BY <2>3, <2>8, <2>9
<1>8. Good(n)
  BY <1>7
<1> QED
  BY <1>3, <1>8 DEF names

-----------------------------------------------------------------------------
(* No two ids have one name: the last word tells an array from a function, *)
(* whose last word is a builtin type's, and the words in front are those   *)
(* of what it is made of.                                                  *)

(* Three words are a sequence of words.                                    *)
LEMMA ThreeWords ==
    ASSUME NEW a \in Words, NEW b \in Words, NEW c \in Words
    PROVE  /\ <<a, b, c>> \in Seq(Words) /\ Len(<<a, b, c>>) = 3
           /\ <<a, b, c>>[1] = a /\ <<a, b, c>>[2] = b /\ <<a, b, c>>[3] = c
OBVIOUS

(* An array's name is that of its elements and three words.                *)
LEMMA ArrayWords ==
    ASSUME NEW s \in Seq(Words), NEW l \in Nat
    PROVE  LET v == s \o <<"[", l, "]">>
           IN  /\ v \in Seq(Words)
               /\ Len(s) \in Nat
               /\ Len(v) = Len(s) + 3
               /\ \A i \in 1 .. Len(s) : v[i] = s[i]
               /\ v[Len(s) + 2] = l
               /\ v[Len(s) + 3] = "]"
<1> DEFINE u == <<"[", l, "]">>
           v == s \o u
<1>1. /\ u \in Seq(Words) /\ Len(u) = 3
      /\ u[2] = l /\ u[3] = "]"
  <2>1. "[" \in Words /\ l \in Words /\ "]" \in Words
    BY DEF Words
  <2> QED
    BY <2>1, ThreeWords
<1>2. Len(s) \in Nat
  BY LenProperties
<1> HIDE DEF u
<1>3. /\ v \in Seq(Words)
      /\ Len(v) = Len(s) + Len(u)
      /\ \A i \in 1 .. Len(s) + Len(u) : v[i] = IF i <= Len(s) THEN s[i] ELSE u[i - Len(s)]
  BY <1>1, ConcatProperties
<1> HIDE DEF v
<1>4. Len(v) = Len(s) + 3
  BY <1>1, <1>3
<1>5. \A i \in 1 .. Len(s) : v[i] = s[i]
  BY <1>1, <1>2, <1>3
<1>6. v[Len(s) + 2] = l
  <2>1. Len(s) + 2 \in 1 .. Len(s) + Len(u) /\ ~ (Len(s) + 2 <= Len(s))
        /\ Len(s) + 2 - Len(s) = 2
    BY <1>1, <1>2
  <2> QED
    BY <1>1, <1>3, <2>1
<1>7. v[Len(s) + 3] = "]"
  <2>1. Len(s) + 3 \in 1 .. Len(s) + Len(u) /\ ~ (Len(s) + 3 <= Len(s))
        /\ Len(s) + 3 - Len(s) = 3
    BY <1>1, <1>2
  <2> QED
    BY <1>1, <1>3, <2>1
<1> QED
  BY <1>2, <1>3, <1>4, <1>5, <1>6, <1>7 DEF v, u

(* A function's name is three words and those of its parameters.           *)
LEMMA FunctionWords ==
    ASSUME NEW s \in Seq(Words), NEW w \in Words
    PROVE  LET v == <<"fn(">> \o s \o <<") -> ">> \o <<w>>
           IN  /\ v \in Seq(Words)
               /\ Len(s) \in Nat
               /\ Len(v) = Len(s) + 3
               /\ \A i \in 1 .. Len(s) : v[i + 1] = s[i]
               /\ v[Len(s) + 3] = w
<1> DEFINE a == <<"fn(">>
           b == <<") -> ">>
           c == <<w>>
           d == a \o s
           e == d \o b
           v == e \o c
<1>1. /\ a \in Seq(Words) /\ Len(a) = 1
      /\ b \in Seq(Words) /\ Len(b) = 1
      /\ c \in Seq(Words) /\ Len(c) = 1 /\ c[1] = w
  <2>1. "fn(" \in Words /\ ") -> " \in Words
    BY DEF Words
  <2> QED
    BY <2>1, OneWord
<1>2. Len(s) \in Nat
  BY LenProperties
<1> HIDE DEF a, b, c
<1>3. /\ d \in Seq(Words)
      /\ Len(d) = Len(a) + Len(s)
      /\ \A i \in 1 .. Len(a) + Len(s) : d[i] = IF i <= Len(a) THEN a[i] ELSE s[i - Len(a)]
  BY <1>1, ConcatProperties
<1> HIDE DEF d
<1>4. /\ e \in Seq(Words)
      /\ Len(e) = Len(d) + Len(b)
      /\ \A i \in 1 .. Len(d) + Len(b) : e[i] = IF i <= Len(d) THEN d[i] ELSE b[i - Len(d)]
  <2>1. d \in Seq(Words) /\ b \in Seq(Words)
    BY <1>1, <1>3
  <2> QED
    BY <2>1, ConcatProperties, Zenon
<1> HIDE DEF e
<1>5. /\ v \in Seq(Words)
      /\ Len(v) = Len(e) + Len(c)
      /\ \A i \in 1 .. Len(e) + Len(c) : v[i] = IF i <= Len(e) THEN e[i] ELSE c[i - Len(e)]
  <2>1. e \in Seq(Words) /\ c \in Seq(Words)
    BY <1>1, <1>4
  <2> QED
    BY <2>1, ConcatProperties, Zenon
<1> HIDE DEF v
<1>6. Len(d) = Len(s) + 1 /\ Len(e) = Len(s) + 2 /\ Len(v) = Len(s) + 3
  BY <1>1, <1>2, <1>3, <1>4, <1>5
<1>7. \A i \in 1 .. Len(s) : v[i + 1] = s[i]
  <2> TAKE i \in 1 .. Len(s)
  <2>1. /\ i + 1 \in 1 .. Len(a) + Len(s) /\ ~ (i + 1 <= Len(a)) /\ i + 1 - Len(a) = i
        /\ i + 1 \in 1 .. Len(d) + Len(b) /\ i + 1 <= Len(d)
        /\ i + 1 \in 1 .. Len(e) + Len(c) /\ i + 1 <= Len(e)
    BY <1>1, <1>2, <1>6
  <2> QED
    BY <1>3, <1>4, <1>5, <2>1
<1>8. v[Len(s) + 3] = w
  <2>1. Len(s) + 3 \in 1 .. Len(e) + Len(c) /\ ~ (Len(s) + 3 <= Len(e))
        /\ Len(s) + 3 - Len(e) = 1
    BY <1>1, <1>2, <1>6
  <2> QED
    BY <1>1, <1>5, <2>1
<1> QED
  BY <1>2, <1>5, <1>6, <1>7, <1>8 DEF v, e, d, c, b, a

(* What a name says of a builtin type, of an array and of a function.      *)
LEMMA BuiltinName ==
    ASSUME NEW A, NEW F, NEW f, Ordered(A, F), Describes("name", f, A, F),
           NEW t \in BuiltinIds
    PROVE  f[t] = <<BasicName(t)>>
<1>1. t \in Ids(A, F) /\ t \notin DOMAIN A /\ t \notin DOMAIN F
  BY BuiltinsSmall DEF Ids, Ordered, FirstUserId
<1>2. f[t] = NameOf(f, A, F, t)
  BY <1>1 DEF Describes, Level1
<1> QED
  BY <1>1, <1>2 DEF NameOf

(* An array's name is its element's and the length in brackets.            *)
LEMMA ArrayName ==
    ASSUME NEW A, NEW F, NEW f, Describes("name", f, A, F), NEW t \in DOMAIN A
    PROVE  f[t] = f[A[t].element_tid] \o <<"[", A[t].length, "]">>
<1>1. t \in Ids(A, F)
  BY DEF Ids
<1>2. f[t] = NameOf(f, A, F, t)
  BY <1>1 DEF Describes, Level1
<1> QED
  BY <1>2 DEF NameOf

(* A function's name has the parameters' names at its even places and the  *)
(* return type's at its end.                                               *)
LEMMA FunctionName ==
    ASSUME NEW A, NEW F, NEW f, Ordered(A, F), Describes("name", f, A, F),
           NEW t \in DOMAIN F
    PROVE  LET ps == F[t].param_tids
           IN  /\ f[t] \in Seq(Words)
               /\ Len(ps) \in Nat
               /\ Len(f[t]) = Width(Len(ps)) + 3
               /\ \A j \in 1 .. Len(ps) : f[t][2 * j] = BasicName(ps[j])
               /\ f[t][Width(Len(ps)) + 3] = BasicName(F[t].return_tid)
<1> DEFINE ps == F[t].param_tids
           r  == F[t].return_tid
           n  == Len(ps)
           w  == [i \in 1 .. n |-> BasicName(ps[i])]
           s  == Joined([i \in 1 .. n |-> <<w[i]>>])
<1>1. t \in Ids(A, F) /\ t \notin DOMAIN A
  BY DEF Ids, Ordered
<1>2. ps \in Seq(BuiltinIds) /\ r \in BuiltinIds
  BY DEF Ordered
<1>3. f[t] = <<"fn(">> \o Joined([i \in DOMAIN ps |-> f[ps[i]]]) \o <<") -> ">> \o f[r]
  <2>1. f[t] = NameOf(f, A, F, t)
    BY <1>1 DEF Describes, Level1
  <2> QED
    BY <1>1, <2>1 DEF NameOf
<1> HIDE DEF ps, r
<1>4. n \in Nat /\ DOMAIN ps = 1 .. n /\ \A i \in 1 .. n : ps[i] \in BuiltinIds
  BY <1>2, LenProperties, ElementOfSeq
<1> HIDE DEF n
<1>5. \A i \in 1 .. n : w[i] = BasicName(ps[i])
  OBVIOUS
<1>6. w \in [1 .. n -> Words]
  BY <1>4 DEF Words
<1> HIDE DEF w
<1>7. [i \in DOMAIN ps |-> f[ps[i]]] = [i \in 1 .. n |-> <<w[i]>>]
  <2>1. \A i \in 1 .. n : f[ps[i]] = <<w[i]>>
    BY <1>4, <1>5, BuiltinName
  <2> QED
    BY <1>4, <2>1
<1>8. f[r] = <<BasicName(r)>> /\ BasicName(r) \in Words
  BY <1>2, BuiltinName DEF Words
<1>9. /\ s \in Seq(Words)
      /\ Len(s) = Width(n)
      /\ \A j \in 1 .. n : s[2 * j - 1] = w[j]
  BY <1>4, <1>6, JoinedFacts
<1>10. f[t] = <<"fn(">> \o s \o <<") -> ">> \o <<BasicName(r)>>
  BY <1>3, <1>7, <1>8
<1> HIDE DEF s
<1>11. /\ f[t] \in Seq(Words)
       /\ Len(f[t]) = Len(s) + 3
       /\ \A i \in 1 .. Len(s) : f[t][i + 1] = s[i]
       /\ f[t][Len(s) + 3] = BasicName(r)
  <2> DEFINE z == BasicName(r)
             v == <<"fn(">> \o s \o <<") -> ">> \o <<z>>
  <2>1. s \in Seq(Words) /\ z \in Words
    BY <1>8, <1>9
  <2>2. f[t] = v
    BY <1>10
  <2> HIDE DEF z
  <2>3. /\ v \in Seq(Words)
        /\ Len(v) = Len(s) + 3
        /\ \A i \in 1 .. Len(s) : v[i + 1] = s[i]
        /\ v[Len(s) + 3] = z
    BY <2>1, FunctionWords, Zenon
  <2> HIDE DEF v
  <2> QED
    BY <2>2, <2>3 DEF z
<1>12. \A j \in 1 .. n : f[t][2 * j] = BasicName(ps[j])
  <2> TAKE j \in 1 .. n
  <2>1. 2 * j - 1 \in 1 .. Len(s) /\ 2 * j - 1 + 1 = 2 * j
    BY <1>4, <1>9 DEF Width
  <2> QED
    BY <1>5, <1>9, <1>11, <2>1
<1> QED
  BY <1>4, <1>9, <1>11, <1>12 DEF n, ps, r

(* Every name is a sequence of words.                                      *)
LEMMA NamesAreWords ==
    ASSUME NEW A, NEW F, NEW f, Ordered(A, F), Entered(A, F), Describes("name", f, A, F)
    PROVE  \A t \in Ids(A, F) : f[t] \in Seq(Words) /\ Len(f[t]) > 0
<1> DEFINE T == {t \in Ids(A, F) : ~ (f[t] \in Seq(Words) /\ Len(f[t]) > 0)}
<1>1. SUFFICES ASSUME T # {} PROVE FALSE
  OBVIOUS
<1>2. Ids(A, F) \subseteq Nat
  BY IdsNatural
<1>3. PICK x \in T : \A y \in T : x <= y
  BY <1>1, <1>2, LeastNumber
<1>4. x \in Ids(A, F) /\ ~ (f[x] \in Seq(Words) /\ Len(f[x]) > 0)
  BY <1>3
<1>5. CASE x \in DOMAIN A
  <2> DEFINE e == A[x].element_tid
  <2>1. e \in Ids(A, F) /\ e < x /\ A[x].length \in Nat
    BY <1>5 DEF Ordered, Entered
  <2>2. f[e] \in Seq(Words)
    BY <1>2, <1>3, <1>4, <2>1
  <2>3. f[x] = f[e] \o <<"[", A[x].length, "]">>
    BY <1>5, ArrayName
  <2> HIDE DEF e, T
  <2>4. f[x] \in Seq(Words) /\ Len(f[e]) \in Nat /\ Len(f[x]) = Len(f[e]) + 3
    BY <2>1, <2>2, <2>3, ArrayWords
  <2> QED
    BY <1>4, <2>4
<1>6. CASE x \in DOMAIN F
  <2>1. /\ f[x] \in Seq(Words)
        /\ Len(F[x].param_tids) \in Nat
        /\ Len(f[x]) = Width(Len(F[x].param_tids)) + 3
    BY <1>6, FunctionName
  <2> QED
    BY <1>4, <2>1 DEF Width
<1>7. CASE x \in BuiltinIds
  <2>1. f[x] = <<BasicName(x)>> /\ BasicName(x) \in Words
    BY <1>7, BuiltinName DEF Words
  <2> QED
    BY <1>4, <2>1, OneWord
<1> QED
  BY <1>4, <1>5, <1>6, <1>7 DEF Ids

(* Two ids have two names, by the least id that shares its name: the last  *)
(* word tells an array from the others, and the words before it what it    *)
(* was put together from.                                                  *)
LEMMA NamesTell ==
    ASSUME NEW A, NEW F, NEW f, Ordered(A, F), Entered(A, F), Describes("name", f, A, F)
    PROVE  \A t, u \in Ids(A, F) : f[t] = f[u] => t = u
<1> DEFINE T == {t \in Ids(A, F) : \E u \in Ids(A, F) : f[t] = f[u] /\ t # u}
<1>1. SUFFICES ASSUME T # {} PROVE FALSE
  OBVIOUS
<1>2. Ids(A, F) \subseteq Nat
  BY IdsNatural
<1>3. PICK x \in T : \A y \in T : x <= y
  BY <1>1, <1>2, LeastNumber
<1>4. PICK u \in Ids(A, F) : f[x] = f[u] /\ x # u
  BY <1>3
<1>5. x \in Ids(A, F)
  BY <1>3
<1>6. ASSUME NEW e \in Ids(A, F), e < x, NEW d \in Ids(A, F), f[e] = f[d]
      PROVE  e = d
  BY <1>2, <1>3, <1>5, <1>6
<1> HIDE DEF T
<1>7. ASSUME NEW t \in DOMAIN A
      PROVE  LET e == A[t].element_tid
             IN  /\ e \in Ids(A, F) /\ e < t
                 /\ f[e] \in Seq(Words)
                 /\ Len(f[e]) \in Nat /\ Len(f[e]) > 0
                 /\ Len(f[t]) = Len(f[e]) + 3
                 /\ \A i \in 1 .. Len(f[e]) : f[t][i] = f[e][i]
                 /\ f[t][Len(f[e]) + 2] = A[t].length
                 /\ f[t][Len(f[t])] = "]"
  <2> DEFINE e == A[t].element_tid
  <2>1. e \in Ids(A, F) /\ e < t /\ A[t].length \in Nat
    BY DEF Ordered, Entered
  <2>2. f[e] \in Seq(Words) /\ Len(f[e]) > 0
    BY <2>1, NamesAreWords
  <2>3. f[t] = f[e] \o <<"[", A[t].length, "]">>
    BY ArrayName
  <2> HIDE DEF e
  <2> QED
    BY <2>1, <2>2, <2>3, ArrayWords DEF e
<1>8. ASSUME NEW t \in BuiltinIds
      PROVE  Len(f[t]) = 1 /\ f[t][1] = BasicName(t)
  <2>1. f[t] = <<BasicName(t)>>
    BY BuiltinName
  <2> QED
    BY <2>1
<1>9. ASSUME NEW t \in DOMAIN F
      PROVE  /\ Len(F[t].param_tids) \in Nat
             /\ Len(f[t]) = Width(Len(F[t].param_tids)) + 3
             /\ Len(f[t]) > 2
             /\ f[t][Len(f[t])] = BasicName(F[t].return_tid)
             /\ F[t].return_tid \in BuiltinIds
  <2>1. F[t].return_tid \in BuiltinIds
    BY DEF Ordered
  <2> QED
    BY <2>1, FunctionName DEF Width
<1>10. CASE x \in DOMAIN A
  <2>1. u \in DOMAIN A
    <3>1. u \in BuiltinIds => FALSE
      BY <1>4, <1>7, <1>8, <1>10
    <3>2. u \in DOMAIN F => FALSE
      BY <1>4, <1>7, <1>9, <1>10, BasicNames
    <3> QED
      BY <3>1, <3>2 DEF Ids
  <2> DEFINE d == A[x].element_tid
             e == A[u].element_tid
  <2>2. /\ d \in Ids(A, F) /\ d < x /\ f[d] \in Seq(Words) /\ Len(f[d]) \in Nat
        /\ Len(f[x]) = Len(f[d]) + 3
        /\ \A i \in 1 .. Len(f[d]) : f[x][i] = f[d][i]
        /\ f[x][Len(f[d]) + 2] = A[x].length
    BY <1>7, <1>10
  <2>3. /\ e \in Ids(A, F) /\ f[e] \in Seq(Words) /\ Len(f[e]) \in Nat
        /\ Len(f[u]) = Len(f[e]) + 3
        /\ \A i \in 1 .. Len(f[e]) : f[u][i] = f[e][i]
        /\ f[u][Len(f[e]) + 2] = A[u].length
    BY <1>7, <2>1
  <2> HIDE DEF d, e
  <2>4. Len(f[d]) = Len(f[e])
    BY <1>4, <2>2, <2>3
  <2>5. f[d] = f[e] /\ A[x].length = A[u].length
    <3>1. \A i \in 1 .. Len(f[d]) : f[d][i] = f[e][i]
      BY <1>4, <2>2, <2>3, <2>4
    <3>2. f[d] = f[e]
      BY <2>2, <2>3, <2>4, <3>1, SeqEqual
    <3> QED
      BY <1>4, <2>2, <2>3, <2>4, <3>2
  <2>6. d = e
    BY <1>6, <2>2, <2>3, <2>5
  <2> QED
    BY <1>4, <1>10, <2>1, <2>5, <2>6, SameArray DEF d, e
<1>11. CASE x \in DOMAIN F
  <2>1. u \in DOMAIN F
    <3>1. u \in BuiltinIds => FALSE
      BY <1>4, <1>8, <1>9, <1>11
    <3>2. u \in DOMAIN A => FALSE
      BY <1>4, <1>7, <1>9, <1>11, BasicNames
    <3> QED
      BY <3>1, <3>2 DEF Ids
  <2> DEFINE ps == F[x].param_tids
             qs == F[u].param_tids
  <2>2. /\ Len(ps) \in Nat
        /\ Len(f[x]) = Width(Len(ps)) + 3
        /\ \A j \in 1 .. Len(ps) : f[x][2 * j] = BasicName(ps[j])
    BY <1>11, FunctionName
  <2>3. /\ Len(qs) \in Nat
        /\ Len(f[u]) = Width(Len(qs)) + 3
        /\ \A j \in 1 .. Len(qs) : f[u][2 * j] = BasicName(qs[j])
    BY <2>1, FunctionName
  <2>4. BasicName(F[x].return_tid) = BasicName(F[u].return_tid)
    BY <1>4, <1>9, <1>11, <2>1
  <2> HIDE DEF ps, qs
  <2>5. Len(ps) = Len(qs)
    BY <1>4, <2>2, <2>3 DEF Width
  <2>6. \A j \in 1 .. Len(ps) : BasicName(ps[j]) = BasicName(qs[j])
    BY <1>4, <2>2, <2>3, <2>5
  <2> QED
    BY <1>4, <1>11, <2>1, <2>4, <2>5, <2>6, SameFunction DEF ps, qs
<1>12. CASE x \in BuiltinIds
  <2>1. u \in DOMAIN A => FALSE
    BY <1>4, <1>7, <1>8, <1>12
  <2>2. u \in DOMAIN F => FALSE
    BY <1>4, <1>8, <1>9, <1>12
  <2>3. u \in BuiltinIds
    BY <2>1, <2>2 DEF Ids
  <2> QED
    BY <1>4, <1>8, <1>12, <2>3, BasicNames
<1> QED
  BY <1>5, <1>10, <1>11, <1>12 DEF Ids

-----------------------------------------------------------------------------
(* The tables a process builds are of this kind, and its ids are described *)
(* as above.                                                               *)

Fit ==
    /\ Ordered(arrayTypes, functionTypes)
    /\ Entered(arrayTypes, functionTypes)
    /\ Ids(arrayTypes, functionTypes) = TypeIds
    /\ Describes("type", Structure, arrayTypes, functionTypes)
    /\ Describes("name", getTypeName, arrayTypes, functionTypes)

(* The tables of a state of the type table are such tables.                *)
LEMMA TablesFit == IInv => Fit
<1> SUFFICES ASSUME IInv PROVE Fit
  OBVIOUS
<1>1. /\ nextTypeId \in Nat
      /\ \A t \in TypeIds : t \in Nat /\ t < nextTypeId
  BY NextIdFree DEF IInv
<1>2. Ids(arrayTypes, functionTypes) = TypeIds
  BY DEF Ids, TypeIds, Interned
<1>3. \A t \in DOMAIN arrayTypes \union DOMAIN functionTypes :
         t \in Nat /\ t >= FirstUserId
  BY DEF IInv, TypeOK, Interned, FirstUserId
<1>4. Ordered(arrayTypes, functionTypes)
  BY <1>2, <1>3 DEF Ordered, IInv, TypeOK, Grounded
<1>5. \A t \in DOMAIN arrayTypes : arrayTypes[t].length \in Nat
  BY TypeTableAssumption DEF IInv, TypeOK
<1>6. Entered(arrayTypes, functionTypes)
  BY <1>5 DEF Entered, IInv, TypeOK, Canonical
<1>7. Structure = CHOOSE f : Describes("type", f, arrayTypes, functionTypes)
  BY DEF Structure, Describes, Level1, TypeOf, Ids, TypeIds, Interned
<1>8. getTypeName = CHOOSE f : Describes("name", f, arrayTypes, functionTypes)
  BY DEF getTypeName, Describes, Level1, NameOf, Ids, TypeIds, Interned
<1> QED
  BY <1>1, <1>2, <1>4, <1>6, <1>7, <1>8, Described DEF Fit

(* NamesDiffer holds of every table, however many types, of whatever       *)
(* lengths and signatures, have been interned.                             *)
THEOREM NamesUnique == Spec => []NamesDiffer
<1>1. IInv => NamesDiffer
  BY TablesFit, NamesTell DEF Fit, NamesDiffer
<1> QED
  BY <1>1, Invariance, PTL

-----------------------------------------------------------------------------
(* The refinement.  The mapping gives each type in use its id.             *)

IdOf == [s \in {Structure[t] : t \in TypeIds} |->
            CHOOSE t \in TypeIds : Structure[t] = s]

OneToOne ==
    /\ DOMAIN IdOf = {Structure[t] : t \in TypeIds}
    /\ \A t \in TypeIds : IdOf[Structure[t]] = t

(* The mapping to the registry gives each type its one id.                 *)
LEMMA IdsOneToOne == IInv => OneToOne
<1> SUFFICES ASSUME IInv PROVE OneToOne
  OBVIOUS
<1>1. \A t, u \in TypeIds : Structure[t] = Structure[u] => t = u
  BY TablesFit, TypesDiffer DEF Fit
<1>2. ASSUME NEW t \in TypeIds
      PROVE  IdOf[Structure[t]] = t
  <2> DEFINE s == Structure[t]
  <2>1. IdOf[s] = CHOOSE u \in TypeIds : Structure[u] = s
    BY DEF IdOf
  <2>2. \A u \in TypeIds : Structure[u] = s => u = t
    BY <1>1
  <2> QED
    BY <2>1, <2>2
<1> QED
  BY <1>2 DEF OneToOne, IdOf

(* What the type of an array and of a function is.                         *)
LEMMA ArrayStructure ==
    ASSUME NEW A, NEW F, NEW f, Describes("type", f, A, F), NEW t \in DOMAIN A
    PROVE  f[t] = <<"array", f[A[t].element_tid], A[t].length>>
<1>1. t \in Ids(A, F)
  BY DEF Ids
<1>2. f[t] = TypeOf(f, A, F, t)
  BY <1>1 DEF Describes, Level1
<1> QED
  BY <1>2 DEF TypeOf

(* A function stands for its parameters' types and its return type's.      *)
LEMMA FunctionStructure ==
    ASSUME NEW A, NEW F, NEW f, Ordered(A, F), Describes("type", f, A, F),
           NEW t \in DOMAIN F
    PROVE  f[t] = <<"fn", [i \in DOMAIN F[t].param_tids |-> f[F[t].param_tids[i]]],
                    f[F[t].return_tid]>>
<1>1. t \in Ids(A, F) /\ t \notin DOMAIN A
  BY DEF Ids, Ordered
<1>2. f[t] = TypeOf(f, A, F, t)
  BY <1>1 DEF Describes, Level1
<1> QED
  BY <1>1, <1>2 DEF TypeOf

(* An answer from the table is what the abstract specification gives for a *)
(* type it knows.                                                          *)
LEMMA AnsweredFromTable ==
    ASSUME IInv, UNCHANGED <<arrayTypes, functionTypes>>,
           answer' \in TypeIds, AskedStructure' = Structure[answer']
    PROVE  Registry!Next
<1>1. TypeIds' = TypeIds /\ Structure' = Structure
  BY DEF TypeIds, Interned, Structure
<1>2. IdOf' = IdOf
  BY <1>1 DEF IdOf
<1>3. OneToOne
  BY IdsOneToOne
<1>4. /\ AskedStructure' \in DOMAIN IdOf
      /\ IdOf[AskedStructure'] = answer'
  BY <1>3 DEF OneToOne
<1> QED
  BY <1>2, <1>4 DEF Registry!Next, Registry!Known, IdOf

(* A new entry is a type it does not know, and leaves the others alone.    *)
LEMMA AnsweredAnew ==
    ASSUME IInv, Fit', OneToOne',
           TypeIds' = TypeIds \union {nextTypeId},
           \A t \in TypeIds : /\ t \in DOMAIN arrayTypes' <=> t \in DOMAIN arrayTypes
                              /\ t \in DOMAIN arrayTypes => arrayTypes'[t] = arrayTypes[t]
                              /\ t \in DOMAIN functionTypes' <=> t \in DOMAIN functionTypes
                              /\ t \in DOMAIN functionTypes =>
                                    functionTypes'[t] = functionTypes[t],
           answer' = nextTypeId, AskedStructure' = Structure'[nextTypeId]
    PROVE  Registry!Next
<1>1. Fit /\ OneToOne
  BY TablesFit, IdsOneToOne
<1>2. \A t \in TypeIds : Structure'[t] = Structure[t]
  <2>1. /\ Ids(arrayTypes, functionTypes) = TypeIds
        /\ Ids(arrayTypes', functionTypes') = TypeIds'
        /\ Ordered(arrayTypes, functionTypes)
        /\ Describes("type", Structure, arrayTypes, functionTypes)
        /\ Describes("type", Structure', arrayTypes', functionTypes')
    BY <1>1 DEF Fit
  <2> QED
    BY <2>1, SameDescription
<1>3. nextTypeId \notin TypeIds /\ nextTypeId \in TypeIds' /\ TypeIds \subseteq TypeIds'
  <2>1. \A t \in TypeIds : t \in Nat /\ t < nextTypeId
    BY NextIdFree DEF IInv
  <2> QED
    BY <2>1
<1>4. /\ DOMAIN IdOf = {Structure[t] : t \in TypeIds}
      /\ \A t \in TypeIds : IdOf[Structure[t]] = t
      /\ DOMAIN IdOf' = {Structure'[t] : t \in TypeIds'}
      /\ \A t \in TypeIds' : IdOf'[Structure'[t]] = t
  BY <1>1 DEF OneToOne
<1> DEFINE s == Structure'[nextTypeId]
<1>5. IdOf'[s] = nextTypeId
  BY <1>3, <1>4
<1>6. \A t \in TypeIds : IdOf'[Structure[t]] = t
  BY <1>2, <1>3, <1>4
<1>7. s \notin DOMAIN IdOf
  BY <1>3, <1>4, <1>5, <1>6
<1>8. DOMAIN IdOf' = DOMAIN IdOf \union {s}
  BY <1>2, <1>3, <1>4
<1>9. \A r \in DOMAIN IdOf : IdOf'[r] = IdOf[r] /\ IdOf'[s] # IdOf[r]
  BY <1>3, <1>4, <1>5, <1>6
<1>10. /\ AskedStructure' \notin DOMAIN IdOf
       /\ DOMAIN IdOf' = DOMAIN IdOf \union {AskedStructure'}
       /\ \A r \in DOMAIN IdOf : IdOf'[r] = IdOf[r] /\ IdOf'[AskedStructure'] # IdOf[r]
       /\ answer' = IdOf'[AskedStructure']
  BY <1>5, <1>7, <1>8, <1>9
<1> QED
  BY <1>10 DEF Registry!Next, Registry!New, IdOf

(* The builtin types alone are a registry.                                 *)
LEMMA RegistryInit == Init => Registry!Init
<1> SUFFICES ASSUME Init PROVE Registry!Init
  OBVIOUS
<1>1. IInv
  BY InitInv
<1>2. OneToOne
  BY <1>1, IdsOneToOne
<1>3. \A s, u \in DOMAIN IdOf : IdOf[s] = IdOf[u] => s = u
  BY <1>2 DEF OneToOne
<1>4. TYPE_UNKNOWN \in TypeIds /\ TYPE_UNKNOWN \in BuiltinIds
  BY DEF TypeIds, BuiltinIds, TYPE_UNKNOWN, TYPE_INT
<1>5. Structure[TYPE_UNKNOWN] = <<"unknown">>
  <2>1. Describes("type", Structure, arrayTypes, functionTypes)
    BY <1>1, TablesFit DEF Fit
  <2>2. TYPE_UNKNOWN \in Ids(arrayTypes, functionTypes)
    BY <1>4 DEF Ids
  <2>3. Structure[TYPE_UNKNOWN] = TypeOf(Structure, arrayTypes, functionTypes, TYPE_UNKNOWN)
    BY <2>1, <2>2 DEF Describes, Level1
  <2>4. TYPE_UNKNOWN \notin DOMAIN arrayTypes /\ TYPE_UNKNOWN \notin DOMAIN functionTypes
    BY DEF Init, Empty
  <2>5. BasicName(TYPE_UNKNOWN) = "unknown"
    BY DEF BasicName, TYPE_UNKNOWN, TYPE_NULL, TYPE_STRING, TYPE_BOOL, TYPE_FLOAT,
       TYPE_VOID, TYPE_INT
  <2> QED
    BY <2>3, <2>4, <2>5 DEF TypeOf
<1>6. AskedStructure = <<"unknown">>
  <2>1. asked = <<"unknown">>
    BY DEF Init
  <2>2. asked[1] = "unknown"
    BY <2>1
  <2> QED
    BY <2>1, <2>2 DEF AskedStructure
<1>7. /\ AskedStructure \in DOMAIN IdOf
      /\ answer = IdOf[AskedStructure]
  BY <1>2, <1>4, <1>5, <1>6 DEF OneToOne, Init
<1> QED
  BY <1>3, <1>7 DEF Registry!Init, IdOf

(* An array's type is looked up or registered.                             *)
LEMMA MakeArrayRegisters ==
    ASSUME IInv, Fit', OneToOne', MakeArray
    PROVE  Registry!Next
<1>a. PICK len \in Lengths :
           \E elem \in IF len = 0 THEN {TYPE_UNKNOWN} ELSE ValueTypeIds :
              getArrayTypeId(elem, len)
  BY DEF MakeArray
<1>1. PICK elem \in IF len = 0 THEN {TYPE_UNKNOWN} ELSE ValueTypeIds :
              getArrayTypeId(elem, len)
  BY <1>a
<1>2. UNCHANGED functionTypes
  BY DEF MakeArray
<1>3. AskedStructure' = <<"array", Structure'[elem], len>>
  <2>1. asked' = <<"array", elem, len>>
    BY <1>1 DEF getArrayTypeId
  <2>2. asked'[1] = "array" /\ asked'[2] = elem /\ asked'[3] = len
    BY <2>1, Parts
  <2> QED
    BY <2>2 DEF AskedStructure
<1> DEFINE type == ArrayType(elem, len)
<1>4. type.element_tid = elem /\ type.length = len
  BY DEF ArrayType
<1>5. CASE answer' \in Found(arrayTypes, type) /\ UNCHANGED <<arrayTypes, nextTypeId>>
  <2>1. answer' \in DOMAIN arrayTypes /\ arrayTypes[answer'] = type
    BY <1>5 DEF Found
  <2>2. Structure' = Structure
    BY <1>2, <1>5 DEF TypeIds, Interned, Structure
  <2> HIDE DEF type
  <2>3. Structure[answer'] = <<"array", Structure[elem], len>>
    BY <1>4, <2>1, TablesFit, ArrayStructure DEF Fit
  <2>4. answer' \in TypeIds
    BY <2>1 DEF TypeIds, Interned
  <2> QED
    BY <1>2, <1>3, <1>5, <2>2, <2>3, <2>4, AnsweredFromTable
<1>6. CASE /\ Found(arrayTypes, type) = {}
           /\ FreshId
           /\ arrayTypes' = Added(arrayTypes, nextTypeId, type)
  <2> HIDE DEF type
  <2>1. \A t \in TypeIds : t \in Nat /\ t < nextTypeId
    BY NextIdFree DEF IInv
  <2>2. nextTypeId \notin TypeIds
    BY <2>1
  <2>3. /\ DOMAIN arrayTypes' = DOMAIN arrayTypes \union {nextTypeId}
        /\ arrayTypes'[nextTypeId] = type
        /\ \A t \in DOMAIN arrayTypes : t # nextTypeId => arrayTypes'[t] = arrayTypes[t]
    BY <1>6 DEF Added
  <2>4. TypeIds' = TypeIds \union {nextTypeId}
    BY <1>2, <2>3 DEF TypeIds, Interned
  <2>5. Structure'[nextTypeId] = <<"array", Structure'[elem], len>>
    <3>1. Describes("type", Structure', arrayTypes', functionTypes')
      BY DEF Fit
    <3>2. nextTypeId \in DOMAIN arrayTypes'
      BY <2>3
    <3>3. Structure'[nextTypeId] =
             <<"array", Structure'[arrayTypes'[nextTypeId].element_tid],
               arrayTypes'[nextTypeId].length>>
      BY <3>1, <3>2, ArrayStructure
    <3> QED
      BY <1>4, <2>3, <3>3
  <2>6. answer' = nextTypeId
    BY <1>6 DEF FreshId
  <2> QED
    BY <1>2, <1>3, <2>2, <2>3, <2>4, <2>5, <2>6, AnsweredAnew
<1> QED
  BY <1>1, <1>5, <1>6 DEF getArrayTypeId

(* A function's type is looked up or registered.                           *)
LEMMA TypeOfFunctionRegisters ==
    ASSUME IInv, Fit', OneToOne', TypeOfFunction
    PROVE  Registry!Next
<1>1. PICK sig \in Signatures :
              getFunctionTypeId(ParamTids(sig), resolveTypeName(sig.ret))
  BY DEF TypeOfFunction
<1>2. UNCHANGED arrayTypes
  BY DEF TypeOfFunction
<1> DEFINE ps   == ParamTids(sig)
           ret  == resolveTypeName(sig.ret)
           type == FunctionType(ps, ret)
<1>3. asked' = <<"fn", ps, ret>>
  BY <1>1 DEF getFunctionTypeId
<1>4. \/ answer' \in Found(functionTypes, type) /\ UNCHANGED <<functionTypes, nextTypeId>>
      \/ /\ Found(functionTypes, type) = {}
         /\ FreshId
         /\ functionTypes' = Added(functionTypes, nextTypeId, type)
  BY <1>1 DEF getFunctionTypeId
<1> HIDE DEF ps, ret
<1>5. AskedStructure' = <<"fn", [i \in DOMAIN ps |-> Structure'[ps[i]]], Structure'[ret]>>
  <2>1. asked'[1] = "fn" /\ asked'[2] = ps /\ asked'[3] = ret
    BY <1>3, Parts
  <2> QED
    BY <2>1 DEF AskedStructure
<1>6. type.param_tids = ps /\ type.return_tid = ret
  BY DEF FunctionType
<1> HIDE DEF type
<1>7. CASE /\ answer' \in Found(functionTypes, type)
           /\ UNCHANGED <<functionTypes, nextTypeId>>
  <2>1. answer' \in DOMAIN functionTypes /\ functionTypes[answer'] = type
    BY <1>7 DEF Found
  <2>2. Structure' = Structure
    BY <1>2, <1>7 DEF TypeIds, Interned, Structure
  <2>3. Structure[answer'] = <<"fn", [i \in DOMAIN ps |-> Structure[ps[i]]], Structure[ret]>>
    BY <1>6, <2>1, TablesFit, FunctionStructure DEF Fit
  <2>4. answer' \in TypeIds
    BY <2>1 DEF TypeIds, Interned
  <2> QED
    BY <1>2, <1>5, <1>7, <2>2, <2>3, <2>4, AnsweredFromTable
<1>8. CASE /\ Found(functionTypes, type) = {}
           /\ FreshId
           /\ functionTypes' = Added(functionTypes, nextTypeId, type)
  <2>1. \A t \in TypeIds : t \in Nat /\ t < nextTypeId
    BY NextIdFree DEF IInv
  <2>2. nextTypeId \notin TypeIds
    BY <2>1
  <2>3. /\ DOMAIN functionTypes' = DOMAIN functionTypes \union {nextTypeId}
        /\ functionTypes'[nextTypeId] = type
        /\ \A t \in DOMAIN functionTypes :
              t # nextTypeId => functionTypes'[t] = functionTypes[t]
    BY <1>8 DEF Added
  <2>4. TypeIds' = TypeIds \union {nextTypeId}
    BY <1>2, <2>3 DEF TypeIds, Interned
  <2>5. Structure'[nextTypeId] =
           <<"fn", [i \in DOMAIN ps |-> Structure'[ps[i]]], Structure'[ret]>>
    <3>1. /\ Ordered(arrayTypes', functionTypes')
          /\ Describes("type", Structure', arrayTypes', functionTypes')
      BY DEF Fit
    <3>2. nextTypeId \in DOMAIN functionTypes'
      BY <2>3
    <3> DEFINE qs == functionTypes'[nextTypeId].param_tids
               r  == functionTypes'[nextTypeId].return_tid
    <3>3. Structure'[nextTypeId] =
             <<"fn", [i \in DOMAIN qs |-> Structure'[qs[i]]], Structure'[r]>>
      BY <3>1, <3>2, FunctionStructure
    <3>4. qs = ps /\ r = ret
      BY <1>6, <2>3
    <3> HIDE DEF qs, r
    <3> QED
      BY <3>3, <3>4
  <2>6. answer' = nextTypeId
    BY <1>8 DEF FreshId
  <2> QED
    BY <1>2, <1>5, <2>2, <2>3, <2>4, <2>5, <2>6, AnsweredAnew
<1> QED
  BY <1>4, <1>7, <1>8

(* Each step of the table is a step of the registry.                       *)
LEMMA RegistryStep ==
    IInv /\ Fit' /\ OneToOne' /\ [Next]_vars
        => [Registry!Next]_<<IdOf, AskedStructure, answer>>
<1> SUFFICES ASSUME IInv, Fit', OneToOne', [Next]_vars
             PROVE  [Registry!Next]_<<IdOf, AskedStructure, answer>>
  OBVIOUS
<1>1. ASSUME UNCHANGED vars
      PROVE  UNCHANGED <<IdOf, AskedStructure, answer>>
  <2>1. TypeIds' = TypeIds /\ Structure' = Structure
    BY <1>1 DEF TypeIds, Interned, Structure, vars
  <2> QED
    BY <1>1, <2>1 DEF IdOf, AskedStructure, vars
<1> QED
  BY <1>1, MakeArrayRegisters, TypeOfFunctionRegisters DEF Next

(* ImplementsRegistry: whatever is interned, in whatever order, ids and    *)
(* the whole types they stand for correspond one to one and for good.      *)
THEOREM Refinement == Spec => ImplementsRegistry
<1>1. IInv' => Fit' /\ OneToOne'
  BY TablesFit, IdsOneToOne, PTL
<1>2. IInv /\ IInv' /\ [Next]_vars =>
          [Registry!Next]_<<[s \in {Structure[t] : t \in TypeIds} |->
                               CHOOSE t \in TypeIds : Structure[t] = s],
                            AskedStructure, answer>>
  BY <1>1, RegistryStep DEF IdOf
<1> QED
  BY <1>2, RegistryInit, Invariance, PTL DEF Spec, ImplementsRegistry, Registry!Spec

=============================================================================
