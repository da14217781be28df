------------------------------- MODULE Grammar -------------------------------
(***************************************************************************)
(* The rules of grammar.y on the tokens of module Lexer: "x" is an         *)
(* identifier, "str" a string, which stands for every other literal, "-"   *)
(* and "/" are themselves and "+" is every other operator with two sides   *)
(* that can be chained.  Precedences choose one tree of several and refuse *)
(* only a chain of comparisons, which is not among the tokens.             *)
(*                                                                         *)
(* A rule yields the positions where what it derives, begun at position i  *)
(* of the tokens t, can end.  No rule comes back to itself before it has   *)
(* taken a token, so it refers to what begins behind i by the table later. *)
(***************************************************************************)
EXTENDS Naturals, Sequences

At(t, i, token) == i <= Len(t) /\ t[i] = token

(* The positions behind a token that stands at one of the positions P.     *)
Past(t, P, token) == {i + 1 : i \in {p \in P : At(t, p, token)}}

(* From the positions P on, what the nonterminal derives.                  *)
Then(P, later, nonterminal) == UNION {later[p][nonterminal] : p \in P}

(* A list may begin with a comma: an empty one is followed by its rest.    *)
Param(t, P) == Past(t, Past(t, P, "x"), "x")

Params(t, i, later) == {i} \union Then(Param(t, Past(t, {i}, ",")), later, "params")

Exprs(t, i, later) ==
    {i} \union Then(Then(Past(t, {i}, ","), later, "expr"), later, "exprs")

ExprSeq(P, later) == Then(P \union Then(P, later, "expr"), later, "exprs")

(* FUNCTION LPAREN typed_param_list RPAREN.                                *)
FnHead(t, i, later) ==
    LET open == Past(t, Past(t, {i}, "fn"), "(")
    IN  Past(t, Then(open \union Param(t, open), later, "params"), ")")

(* A function literal without a type_name is a rule too: its action throws *)
(* std::runtime_error.                                                     *)
UntypedFn(t, i, later) == Then(FnHead(t, i, later), later, "block")

TypedFn(t, i, later) == Then(Past(t, FnHead(t, i, later), "x"), later, "block")

Primary(t, i, later) ==
    Past(t, {i}, "x") \union Past(t, {i}, "str")
        \union Past(t, Then(Past(t, {i}, "("), later, "expr"), ")")
        \union Past(t, ExprSeq(Past(t, {i}, "["), later), "]")
        \union TypedFn(t, i, later) \union UntypedFn(t, i, later)

(* Calls and indexing after an expression.                                 *)
Postfixes(t, i, later) ==
    LET call  == Past(t, ExprSeq(Past(t, {i}, "("), later), ")")
        deref == Past(t, Then(Past(t, {i}, "["), later, "expr"), "]")
    IN  {i} \union Then(call \union deref, later, "postfixes")

(* A sign, not, and let with its name.                                     *)
Prefix(t, i) ==
    Past(t, {i}, "-") \union Past(t, {i}, "not")
        \union Past(t, Past(t, Past(t, {i}, "let"), "x"), "=")

Infix(t, P) == Past(t, P, "-") \union Past(t, P, "/") \union Past(t, P, "+")

Expr(t, i, later) ==
    LET operand == Then(Primary(t, i, later), later, "postfixes")
    IN  operand \union Then(Prefix(t, i) \union Infix(t, operand), later, "expr")

Block(t, i, later) == Past(t, Then(Past(t, {i}, "{"), later, "stmts"), "}")

(* A condition and its block, after the words at the positions P.          *)
Branch(P, later) == Then(Then(P, later, "expr"), later, "block")

Elifs(t, i, later) == {i} \union Then(Branch(Past(t, {i}, "elif"), later), later, "elifs")

IfStmt(t, i, later) ==
    LET tested == Then(Branch(Past(t, {i}, "if"), later), later, "elifs")
    IN  tested \union Then(Past(t, tested, "else"), later, "block")

WhileStmt(t, i, later) == Branch(Past(t, {i}, "while"), later)

Assignment(t, i, later) == Then(Past(t, Past(t, {i}, "x"), "="), later, "expr")

Return(t, i, later) ==
    LET word == Past(t, {i}, "return")
    IN  word \union Then(word, later, "expr")

Stmt(t, i, later) ==
    Past(t, Expr(t, i, later) \union Assignment(t, i, later) \union Return(t, i, later), ";")
        \union Block(t, i, later) \union IfStmt(t, i, later) \union WhileStmt(t, i, later)

StmtList(t, i, later) == {i} \union Then(Stmt(t, i, later), later, "stmts")

Rules(t, i, later) ==
    [expr      |-> Expr(t, i, later),
     postfixes |-> Postfixes(t, i, later),
     exprs     |-> Exprs(t, i, later),
     params    |-> Params(t, i, later),
     block     |-> Block(t, i, later),
     elifs     |-> Elifs(t, i, later),
     stmts     |-> StmtList(t, i, later)]

(* One more position, the i-th from the end, is added to the table.        *)
AddPosition(t, later, i) ==
    LET first == Len(t) + 2 - i
    IN  [p \in first .. Len(t) + 1 |->
            IF p = first THEN Rules(t, p, later) ELSE later[p]]

Derived(t) ==
    LET table[i \in 0 .. Len(t) + 1] ==
            IF i = 0 THEN <<>> ELSE AddPosition(t, table[i - 1], i)
    IN  table[Len(t) + 1]

(* The tokens are a program, and no error rule is needed to parse them.    *)
Derives(t) == Len(t) + 1 \in Derived(t)[1].stmts

(* The parser may get to the rule of UntypedFn.  Its header has to be in   *)
(* order, but error recovery may have mended what is inside the braces: in *)
(* a program this is exact, in any other text it is an upper bound.        *)
HasUntypedFn(t) ==
    LET table == Derived(t)
    IN  \E i \in DOMAIN t : \E p \in FnHead(t, i, table) :
            At(t, p, "{") /\ \E j \in p .. Len(t) : At(t, j, "}")

=============================================================================
