------------------------------- MODULE Syntax -------------------------------
(***************************************************************************)
(* Inputs for the model checker: syntax trees written as nested terms,     *)
(* with the constructors of grammar.y, and their flattening into the node  *)
(* tables the specifications take as constants.  A node is its path: the   *)
(* number of the input, then the child to take at each level.              *)
(***************************************************************************)
EXTENDS Values, TLC

Tree(kind, kids)    == [kind |-> kind, kids |-> kids]
Lit(v)              == [kind |-> "Lit", kids |-> <<>>, lit |-> v]
I(i)                == Lit(Int64(i))
F(i)                == Lit(Float(i))
B(b)                == Lit(Bool(b))
S(s)                == Lit(Str(s))
Id(x)               == [kind |-> "Ident", kids |-> <<>>, name |-> x]
Un(op, e)           == [kind |-> "Unary", kids |-> <<e>>, op |-> op]
Op(l, op, r)        == [kind |-> "BinOp", kids |-> <<l, r>>, op |-> op]
Array(es)           == Tree("Array", es)
Deref(a, i)         == Tree("Deref", <<a, i>>)
Let(x, e)           == [kind |-> "Let", kids |-> <<e>>, name |-> x]
Assign(x, e)        == [kind |-> "Assign", kids |-> <<e>>, name |-> x]
StmtList(ss)        == Tree("StmtList", ss)
Block(ss)           == Tree("Block", <<StmtList(ss)>>)
If(c, b)            == Tree("If", <<c, Block(b)>>)
IfElse(c, b, e)     == Tree("If", <<c, Block(b), Block(e)>>)
IfElif(c, b, d, g)  == Tree("If", <<c, Block(b), d, Block(g)>>)
While(c, b)         == Tree("While", <<c, Block(b)>>)
Return(e)           == Tree("Return", <<e>>)
ReturnVoid          == Tree("Return", <<>>)
Call(f, args)       == Tree("Call", <<f>> \o args)
Param(x, t)         == [name |-> x, type |-> t]
FnLit(ps, ret, b)   == [kind |-> "FnLit", kids |-> <<>>, params |-> ps,
                        ret |-> ret, body |-> Block(b)]

(* The children of a tree that are trees, a literal's body included.       *)
Subtrees(t) == IF t.kind = "FnLit" THEN <<t.body>> ELSE t.kids

RECURSIVE Paths(_, _), Subtree(_, _)

Paths(t, p) ==
    {p} \union UNION {Paths(Subtrees(t)[i], Append(p, i)) :
                        i \in DOMAIN Subtrees(t)}

Subtree(t, p) == IF p = <<>> THEN t
                 ELSE Subtree(Subtrees(t)[Head(p)], Tail(p))

(* The table of the inputs ps, a sequence of trees.                        *)
NodesOf(ps) == UNION {Paths(ps[i], <<i>>) : i \in DOMAIN ps}

RootsOf(ps) == {<<i>> : i \in DOMAIN ps}

(* (@@ and \o with <<>> only make TLC compute the table once.)             *)
AstOf(ps) ==
    [p \in NodesOf(ps) |->
        LET t == Subtree(ps[Head(p)], Tail(p))
        IN  IF t.kind = "FnLit" THEN [t EXCEPT !.body = Append(p, 1)]
            ELSE [t EXCEPT !.kids =
                     [i \in DOMAIN t.kids |-> Append(p, i)] \o <<>>]]
    @@ <<>>

=============================================================================
