---------------------------- MODULE MCTypeTable ----------------------------
(***************************************************************************)
(* Arrays of up to two elements, nested as deep as MaxTypes allows, and    *)
(* functions that differ in the number, the order and the types of their   *)
(* parameters, and in what they return.                                    *)
(***************************************************************************)
EXTENDS TypeNaming

MCSignatures == {
    [params |-> <<>>,                ret |-> "int"],
    [params |-> <<"int">>,           ret |-> "int"],
    [params |-> <<"int">>,           ret |-> "void"],
    [params |-> <<"int", "bool">>,   ret |-> "int"],
    [params |-> <<"bool", "int">>,   ret |-> "int"]}

=============================================================================
