----------------------------- MODULE TypeNaming -----------------------------
(***************************************************************************)
(* The type table seen from outside: the type an id stands for, unfolded   *)
(* down to the builtin types, and the name getTypeName gives it.           *)
(***************************************************************************)
EXTENDS TypeTable

(* MUTANT: void is not registered.                                         *)
BasicNameNoVoid(t) ==
    CASE t = TYPE_NULL   -> "null"
      [] t = TYPE_STRING -> "string"
      [] t = TYPE_BOOL   -> "bool"
      [] t = TYPE_FLOAT  -> "float"
      [] t = TYPE_INT    -> "int"
      [] OTHER           -> "unknown"

BasicName(t) ==
    CASE t = TYPE_NULL   -> "null"
      [] t = TYPE_STRING -> "string"
      [] t = TYPE_BOOL   -> "bool"
      [] t = TYPE_FLOAT  -> "float"
      [] t = TYPE_VOID   -> "void"
      [] t = TYPE_INT    -> "int"
      [] OTHER           -> "unknown"

(* The types of module Values.                                             *)
Structure[t \in TypeIds] ==
    IF t \in DOMAIN arrayTypes
    THEN <<"array", Structure[arrayTypes[t].element_tid], arrayTypes[t].length>>
    ELSE IF t \in DOMAIN functionTypes
    THEN <<"fn",
           [i \in DOMAIN functionTypes[t].param_tids |->
               Structure[functionTypes[t].param_tids[i]]],
           Structure[functionTypes[t].return_tid]>>
    ELSE <<BasicName(t)>>

(* The names of the parameters, joined as the loop of getTypeName does.    *)
Joined(names) ==
    LET joined[i \in 0 .. Len(names)] ==
            IF i = 0 THEN <<>>
            ELSE joined[i - 1] \o (IF i > 1 THEN <<", ">> ELSE <<>>) \o names[i]
    IN  joined[Len(names)]

(* The name as the sequence of its words.                                  *)
getTypeName[t \in TypeIds] ==
    IF t \in DOMAIN arrayTypes
    THEN getTypeName[arrayTypes[t].element_tid]
            \o <<"[", arrayTypes[t].length, "]">>
    ELSE IF t \in DOMAIN functionTypes
    THEN <<"fn(">>
            \o Joined([i \in DOMAIN functionTypes[t].param_tids |->
                          getTypeName[functionTypes[t].param_tids[i]]])
            \o <<") -> ">> \o getTypeName[functionTypes[t].return_tid]
    ELSE <<BasicName(t)>>

(* NamesDiffer: two types never share a name, so that "cannot assign X to  *)
(* variable of type Y" never says X twice.  What keeps "fn() -> int[2]"    *)
(* from being both an array of functions and a function that returns an    *)
(* array is that a function's types come from type names.                  *)
NamesDiffer ==
    \A t, u \in TypeIds : getTypeName[t] = getTypeName[u] => t = u

(* The type the last request was for.                                      *)
AskedStructure ==
    CASE asked[1] = "array" -> <<"array", Structure[asked[2]], asked[3]>>
      [] asked[1] = "fn"    -> <<"fn",
                                 [i \in DOMAIN asked[2] |-> Structure[asked[2][i]]],
                                 Structure[asked[3]]>>
      [] OTHER              -> asked

(* ImplementsRegistry: the ids stand for whole types one to one and for    *)
(* good, which is what lets the interpreter and the semantic pass compare  *)
(* ids, and module Values compare types.                                   *)
Registry == INSTANCE TypeRegistry
            WITH ids <- [s \in {Structure[t] : t \in TypeIds} |->
                            CHOOSE t \in TypeIds : Structure[t] = s],
                 asked <- AskedStructure

ImplementsRegistry == Registry!Spec

=============================================================================
