----------------------------- MODULE TypeTable -----------------------------
(***************************************************************************)
(* The TypeTable singleton of include/type_table.hpp: the builtin types    *)
(* have fixed ids, and array and function types are interned, that is,     *)
(* entered the first time they are asked for.                              *)
(*                                                                         *)
(* ArrayObject's constructor asks for an array type, with the type id of   *)
(* the elements; FunctionObject::getTypeId asks for a function type each   *)
(* time, with ids that came from the type names of the function literal.   *)
(***************************************************************************)
EXTENDS Naturals, Sequences

CONSTANTS
    Lengths,      \* the lengths of the arrays that programs make
    Signatures,   \* the functions' parameter and return type names
    MaxTypes      \* how many types a program may intern

TYPE_UNKNOWN == 0
TYPE_NULL    == 1
TYPE_STRING  == 2
TYPE_BOOL    == 3
TYPE_FLOAT   == 4
TYPE_VOID    == 5
TYPE_INT     == 6

FirstUserId == 100

TypeNames == {"int", "float", "string", "bool", "void"}

ASSUME TypeTableAssumption ==
    /\ Lengths \subseteq Nat
    /\ MaxTypes \in Nat
    /\ Signatures \subseteq [params : Seq(TypeNames), ret : TypeNames]

(* For the other names it throws; Interpreter's visitor asks only for the  *)
(* names in a literal's signature, whose types become the object's.        *)
resolveTypeName(name) ==
    CASE name = "int"    -> TYPE_INT
      [] name = "float"  -> TYPE_FLOAT
      [] name = "string" -> TYPE_STRING
      [] name = "bool"   -> TYPE_BOOL
      [] name = "void"   -> TYPE_VOID

VARIABLES
    arrayTypes,     \* arrayTypes_
    functionTypes,  \* functionTypes_
    nextTypeId,     \* nextTypeId_
    asked,          \* what the last request was for (history)
    answer          \* the id it returned

vars == <<arrayTypes, functionTypes, nextTypeId, asked, answer>>

Empty == [t \in {} |-> t]

Init ==
    /\ arrayTypes = Empty
    /\ functionTypes = Empty
    /\ nextTypeId = FirstUserId
    /\ asked = <<"unknown">>
    /\ answer = TYPE_UNKNOWN

Added(table, tid, type) ==
    [t \in DOMAIN table \union {tid} |-> IF t = tid THEN type ELSE table[t]]

(* MUTANT: the scan is left out.                                           *)
FoundNothing(table, type) == {}

(* The scan of an unordered_map finds any one of the equal entries.        *)
Found(table, type) == {t \in DOMAIN table : table[t] = type}

ArrayType(elem, len) == [element_tid |-> elem, length |-> len]

FunctionType(ps, ret) == [param_tids |-> ps, return_tid |-> ret]

(* MUTANT: the counter is not advanced.                                    *)
SameId ==
    /\ nextTypeId < FirstUserId + MaxTypes
    /\ answer' = nextTypeId
    /\ UNCHANGED nextTypeId

FreshId ==
    /\ nextTypeId < FirstUserId + MaxTypes
    /\ nextTypeId' = nextTypeId + 1
    /\ answer' = nextTypeId

(* MUTANT: the scan compares the element types only.                       *)
getArrayTypeIdAnyLength(elem, len) ==
    LET sameElem == {t \in DOMAIN arrayTypes : arrayTypes[t].element_tid = elem}
    IN  /\ asked' = <<"array", elem, len>>
        /\ \/ answer' \in sameElem /\ UNCHANGED <<arrayTypes, nextTypeId>>
           \/ /\ sameElem = {}
              /\ FreshId
              /\ arrayTypes' = Added(arrayTypes, nextTypeId, ArrayType(elem, len))

getArrayTypeId(elem, len) ==
    LET type == ArrayType(elem, len)
    IN  /\ asked' = <<"array", elem, len>>
        /\ \/ answer' \in Found(arrayTypes, type) /\ UNCHANGED <<arrayTypes, nextTypeId>>
           \/ /\ Found(arrayTypes, type) = {}
              /\ FreshId
              /\ arrayTypes' = Added(arrayTypes, nextTypeId, type)

getFunctionTypeId(ps, ret) ==
    LET type == FunctionType(ps, ret)
    IN  /\ asked' = <<"fn", ps, ret>>
        /\ \/ answer' \in Found(functionTypes, type) /\ UNCHANGED <<functionTypes, nextTypeId>>
           \/ /\ Found(functionTypes, type) = {}
              /\ FreshId
              /\ functionTypes' = Added(functionTypes, nextTypeId, type)

-----------------------------------------------------------------------------
(* MUTANT: the elements' type gets its id after the array's.               *)
ValueTypeIdsLate ==
    {TYPE_NULL, TYPE_STRING, TYPE_BOOL, TYPE_FLOAT, TYPE_INT, nextTypeId}
        \union DOMAIN arrayTypes \union DOMAIN functionTypes

(* The ids Value::typeId can yield: there is no value of type void, and an *)
(* unknown element type is that of an empty array.                         *)
ValueTypeIds ==
    {TYPE_NULL, TYPE_STRING, TYPE_BOOL, TYPE_FLOAT, TYPE_INT}
        \union DOMAIN arrayTypes \union DOMAIN functionTypes

MakeArray ==
    /\ \E len \in Lengths :
          \E elem \in IF len = 0 THEN {TYPE_UNKNOWN} ELSE ValueTypeIds :
             getArrayTypeId(elem, len)
    /\ UNCHANGED functionTypes

ParamTids(sig) == [i \in 1 .. Len(sig.params) |-> resolveTypeName(sig.params[i])]

TypeOfFunction ==
    /\ \E sig \in Signatures :
          getFunctionTypeId(ParamTids(sig), resolveTypeName(sig.ret))
    /\ UNCHANGED arrayTypes

Next == MakeArray \/ TypeOfFunction

Spec == Init /\ [][Next]_vars

-----------------------------------------------------------------------------
(* Properties.                                                             *)

BuiltinIds == TYPE_UNKNOWN .. TYPE_INT

Interned == DOMAIN arrayTypes \union DOMAIN functionTypes

TypeIds == BuiltinIds \union Interned

(* The two maps share one supply of ids, from 100 up to nextTypeId, and    *)
(* together use every one of them exactly once.                            *)
TypeOK ==
    /\ nextTypeId \in Nat /\ nextTypeId >= FirstUserId
    /\ Interned = FirstUserId .. (nextTypeId - 1)
    /\ DOMAIN arrayTypes \intersect DOMAIN functionTypes = {}
    /\ \A t \in DOMAIN arrayTypes :
          /\ arrayTypes[t] = ArrayType(arrayTypes[t].element_tid, arrayTypes[t].length)
          /\ arrayTypes[t].length \in Lengths
    /\ \A t \in DOMAIN functionTypes :
          /\ functionTypes[t] = FunctionType(functionTypes[t].param_tids,
                                              functionTypes[t].return_tid)
          /\ functionTypes[t].param_tids \in Seq(BuiltinIds)
    /\ answer \in TypeIds

(* Canonical: no type is entered twice, so that comparing two type ids is  *)
(* comparing what they stand for one level down.                           *)
Canonical ==
    /\ \A t, u \in DOMAIN arrayTypes : arrayTypes[t] = arrayTypes[u] => t = u
    /\ \A t, u \in DOMAIN functionTypes :
          functionTypes[t] = functionTypes[u] => t = u

(* Grounded: a type is built from types with smaller ids, builtin at the   *)
(* bottom; getTypeName, which descends through them, always comes to an    *)
(* end and never meets an id that is not there.                            *)
Grounded ==
    /\ \A t \in DOMAIN arrayTypes :
          arrayTypes[t].element_tid \in TypeIds /\ arrayTypes[t].element_tid < t
    /\ \A t \in DOMAIN functionTypes :
          /\ \A i \in DOMAIN functionTypes[t].param_tids :
                functionTypes[t].param_tids[i] \in BuiltinIds
          /\ functionTypes[t].return_tid \in BuiltinIds

=============================================================================
