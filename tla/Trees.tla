------------------------------- MODULE Trees -------------------------------
(***************************************************************************)
(* The syntax trees of include/ast.hpp as the visitors meet them: a table  *)
(* of nodes, a record per node with its kind, its children and the         *)
(* attributes of that kind.  An ExprStmt, whose visit only forwards, is    *)
(* its expression.  A function literal's body is an attribute, and no      *)
(* child: no visitor visits it as one.                                     *)
(***************************************************************************)
EXTENDS Values

CONSTANTS
    Node,    \* the nodes of the syntax trees
    Ast,     \* what each node is
    Roots    \* the StmtLists a parse can yield

Kinds == {"Lit", "Ident", "Unary", "BinOp", "Array", "Deref", "Let",
          "Assign", "Block", "StmtList", "If", "While", "FnLit",
          "Return", "Call"}

(* The shapes the grammar gives the nodes: so many children of each kind.  *)
Arities(kind) ==
    CASE kind \in {"Unary", "Let", "Assign", "Block"} -> {1}
      [] kind \in {"BinOp", "Deref", "While"} -> {2}
      [] kind = "Call" -> Nat \ {0}
      [] kind = "If" -> Nat \ {0, 1}
      [] kind = "Return" -> {0, 1}
      [] OTHER -> Nat

(* What grammar.y derives from expr, and an assignment, whose ExprStmt is  *)
(* left out.                                                               *)
Expressions == {"Lit", "Ident", "Unary", "BinOp", "Array", "Deref", "Let",
                "Assign", "FnLit", "Call"}

(* The children of a node that the grammar derives from expr: the operands *)
(* of an expression and the conditions and results of a statement.         *)
ValuePlaces(n) ==
    CASE Ast[n].kind \in Expressions \union {"Return"} -> DOMAIN Ast[n].kids
      [] Ast[n].kind = "If" ->
            {k \in DOMAIN Ast[n].kids : k % 2 = 1 /\ k < Len(Ast[n].kids)}
      [] Ast[n].kind = "While" -> {1}
      [] OTHER -> {}

LiteralTypes == {"int", "float", "string", "bool"}

UnaryOps == {"not", "-"}

BinaryOps == ArithmeticOps \union {"==", "!=", "<", ">", "<=", ">=", "and", "or"}

(* A parameter list, a std::vector, and a body that is a BlockStmt.        *)
IsFunctionLiteral(lit) ==
    /\ Len(lit.params) \in Nat
    /\ DOMAIN lit.params = 1 .. Len(lit.params)
    /\ lit.body \in Node
    /\ Ast[lit.body].kind = "Block"

ASSUME SyntaxAssumption ==
    /\ Roots \subseteq Node
    /\ \A n \in Node :
          /\ Ast[n].kind \in Kinds
          /\ Ast[n].kids \in Seq(Node)
          /\ Len(Ast[n].kids) \in Arities(Ast[n].kind)
          /\ \A k \in ValuePlaces(n) : Ast[Ast[n].kids[k]].kind \in Expressions
          /\ Ast[n].kind = "Lit" => \E t \in LiteralTypes : Tid(Ast[n].lit) = PrimType(t)
          /\ Ast[n].kind = "Unary" => Ast[n].op \in UnaryOps
          /\ Ast[n].kind = "BinOp" => Ast[n].op \in BinaryOps
          /\ Ast[n].kind = "FnLit" => IsFunctionLiteral(Ast[n])

(* A type name is any identifier; resolveTypeName throws unless it is one  *)
(* of TypeNames.                                                           *)
KnownTypes(lit) ==
    /\ \A i \in DOMAIN lit.params : lit.params[i].type \in TypeNames
    /\ lit.ret \in TypeNames

(* The arrays that the indexings among some nodes take an element from.    *)
IndexedBy(nodes) == {Ast[n].kids[1] : n \in {m \in nodes : Ast[m].kind = "Deref"}}

(* A node has one owner, through a std::unique_ptr: what an indexing owns  *)
(* is the child of no other kind of node, and no root.                     *)
ASSUME OwnershipAssumption ==
    LET arrays == IndexedBy(Node)
    IN  /\ Roots \intersect arrays = {}
        /\ \A n \in Node : \A k \in DOMAIN Ast[n].kids :
              Ast[n].kids[k] \in arrays => Ast[n].kind = "Deref" /\ k = 1

=============================================================================
