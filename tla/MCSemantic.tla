----------------------------- MODULE MCSemantic -----------------------------
(***************************************************************************)
(* Programs for the semantic pass: every sequence of up to three           *)
(* statements out of a menu, after  let x = 1; let b = true; let f = ...;  *)
(* and the programs of its tests.                                          *)
(***************************************************************************)
EXTENDS Semantic, Programs

X == Id("x")

IntParam(x) == Param(x, "int")

WalkMenu == <<
    Let("x", I(1)),
    Let("b", B(TRUE)),
    \* let f = fn(x int) int { let h = fn() bool { return true; }; return x; };
    Let("f", FnLit(<<IntParam("x")>>, "int",
              <<Let("h", FnLit(<<>>, "bool", <<Return(B(TRUE))>>)), Return(X)>>)),
    \* { let x = f(f(x)); { x = x + 1; } }
    Block(<<Let("x", Call(Id("f"), <<Call(Id("f"), <<X>>)>>)),
            Block(<<Assign("x", Op(X, "+", I(1)))>>)>>),
    \* x = f(fn(x int) int { return x; }(b));
    Assign("x", Call(Id("f"), <<Call(FnLit(<<IntParam("x")>>, "int",
                                           <<Return(X)>>), <<Id("b")>>)>>)),
    \* if b { return 1; } elif x { let x = b; x = false; } else { f(x); }
    Tree("If", <<Id("b"), Block(<<Return(I(1))>>),
                 X, Block(<<Let("x", Id("b")), Assign("x", B(FALSE))>>),
                 Block(<<Call(Id("f"), <<X>>)>>)>>),
    \* while not b { let a = [x, f(x)]; x = a[x] and a[1]; }
    While(Un("not", Id("b")),
          <<Let("a", Array(<<X, Call(Id("f"), <<X>>)>>)),
            Assign("x", Op(Deref(Id("a"), X), "and", Deref(Id("a"), I(1))))>>),
    \* x = let x = b;      (the assignment's target is redefined by its value)
    Assign("x", Let("x", Id("b"))),
    \* let b = 2.0 - x;
    Let("b", Op(F(2), "-", X)),
    \* let f = fn(x bool, y int) void { f(y); };
    Let("f", FnLit(<<Param("x", "bool"), IntParam("y")>>, "void",
                   <<Call(Id("f"), <<Id("y")>>)>>)),
    \* f(b, x);
    Call(Id("f"), <<Id("b"), X>>),
    \* let f = f;
    Let("f", Id("f")),
    \* let g = fn(b bool) bool { if b { return f(1); } b; };
    Let("g", FnLit(<<Param("b", "bool")>>, "bool",
                   <<If(Id("b"), <<Return(Call(Id("f"), <<I(1)>>))>>), Id("b")>>)),
    \* -b;
    Un("-", Id("b")),
    \* x = fn(y int) number { y; }(x);      (there is no type number)
    Assign("x", Call(FnLit(<<IntParam("y")>>, "number", <<Id("y")>>), <<X>>)) >>

WalkPrograms == Menu(<<1, 2, 3>>, 4 .. 15, 3)

-----------------------------------------------------------------------------
(* Programs of tests/test_semantic.cpp and, from 101 on, test_llvm_ir.cpp, *)
(* with the line of the test and whether it requires acceptance.           *)
Test(verd, prog) == [input |-> StmtList(prog), verdict |-> verd]

Accepted(prog) == Test("ok", prog)
Refused(prog)  == Test("error", prog)

Add == Let("add", FnLit(<<IntParam("a"), IntParam("b")>>, "int",
                        <<Op(Id("a"), "+", Id("b"))>>))

Value1(ret, b) == FnLit(<<IntParam("value")>>, ret, b)

Noop(ret, b) == FnLit(<<>>, ret, b)

Values12 == Let("values", Array(<<I(1), I(2)>>))

At(i) == Deref(Id("values"), i)

Numbers == Let("numbers", Array(<<I(10), I(20), I(30)>>))

Tests == <<
    Accepted(<<Add, Call(Id("add"), <<I(1), I(2)>>)>>),                  \* 31
    Refused(<<Add, Call(Id("add"), <<I(1)>>)>>),                         \* 37
    Refused(<<Let("identity", Value1("int", <<Id("value")>>)),           \* 45
              Call(Id("identity"), <<I(1), I(2)>>)>>),
    Refused(<<Call(Value1("int", <<Id("value")>>), <<>>)>>),             \* 53
    Accepted(<<Let("convert", FnLit(<<IntParam("count"), Param("ratio", "float"),
                                      Param("enabled", "bool"),
                                      Param("label", "string")>>, "int",
                                    <<Id("count")>>)),                   \* 59
               Call(Id("convert"), <<I(2), F(1), B(TRUE), S("ready")>>)>>),
    Refused(<<Add, Call(Id("add"), <<I(1), B(FALSE)>>)>>),               \* 65
    Refused(<<Call(FnLit(<<Param("value", "float")>>, "float",           \* 73
                         <<Id("value")>>), <<S("wrong")>>)>>),
    Accepted(<<Let("increment", Value1("int",                            \* 79
                   <<Op(Id("value"), "+", I(1))>>))>>),
    Accepted(<<Let("positive", Value1("bool",                            \* 81
                   <<Return(Op(Id("value"), ">", I(0)))>>))>>),
    Accepted(<<Let("outer", Noop("bool",                                 \* 82
                   <<Let("inner", Noop("int", <<Return(I(1))>>)),
                     Return(B(TRUE))>>))>>),
    Refused(<<Let("increment", Value1("bool",                            \* 89
                  <<Op(Id("value"), "+", I(1))>>))>>),
    Refused(<<Let("label", Noop("string", <<Return(B(FALSE))>>))>>),     \* 95
    Accepted(<<Let("noop", Noop("void", <<ReturnVoid>>)),                \* 107
               Call(Id("noop"), <<>>)>>),
    Accepted(<<Let("noop", Noop("void", <<>>)), Call(Id("noop"), <<>>)>>),
    Refused(<<Let("invalid", Noop("void", <<Return(I(1))>>))>>),         \* 112
    Refused(<<Let("invalid", Noop("int", <<ReturnVoid>>))>>),            \* 118
    Accepted(<<Array(<<I(10), I(20), I(30)>>)>>),                        \* 68
    Accepted(<<Numbers, Deref(Id("numbers"), I(0))>>),                   \* 70
    Accepted(<<Numbers, Let("index", I(1)),                              \* 76
               Deref(Id("numbers"), Id("index"))>>),
    Accepted(<<Let("matrix", Array(<<Array(<<I(1), I(2)>>),              \* 84
                                     Array(<<I(3), I(4)>>)>>)),
               Deref(Deref(Id("matrix"), I(1)), I(0))>>),
    Accepted(<<Let("empty", Array(<<>>)), I(0)>>),                       \* 87
    Refused(<<Values12, At(I(2))>>),                                     \* 104
    Refused(<<Values12, At(Un("-", I(1)))>>),                            \* 107
    Refused(<<Values12, At(F(1))>>),                                     \* 113
    Refused(<<Let("value", I(1)), Deref(Id("value"), I(0))>>) >>         \* 116

TestInputs == [i \in DOMAIN Tests |-> Tests[i].input]

(* The tests' programs follow the menu's statements.                       *)
TestRoot(i) == <<Len(WalkMenu) + i>>

WalkTable == ProgramAst(WalkMenu \o TestInputs, WalkPrograms)
WalkAst   == WalkTable
WalkNode  == DOMAIN WalkTable
WalkRoots == ProgramRoots(WalkPrograms) \union {TestRoot(i) : i \in DOMAIN Tests}

(* AgreesWithTests: the pass accepts and refuses the programs its tests    *)
(* (tests/test_semantic.cpp, tests/test_llvm_ir.cpp) say it accepts and    *)
(* refuses.                                                                *)
AgreesWithTests ==
    [][\A i \in DOMAIN Tests :
          verdict = "run" /\ stk[1].node = TestRoot(i)
              => verdict' \in {"run", Tests[i].verdict}]_vars

-----------------------------------------------------------------------------
(* RecursionResolves: a function bound by let is "registered before the    *)
(* body compiles - enabling recursion" (COMPILER_DESIGN.md:131): no        *)
(* program is refused for a name whose own function is being walked.       *)
RecursionResolves ==
    [][verdict' = "error" /\ Visiting("Ident") =>
          \A i \in 1 .. Depth - 1 :
              Ast[stk[i].node].kind = "Let" /\ InFunction(i + 1)
                  => Ast[stk[i].node].name # N.name]_vars

(* let fact = fn(value int) int {                                          *)
(*     if value <= 1 { return 1; }  value * fact(value - 1); };            *)
Factorial ==
    Let("fact", Value1("int",
        <<If(Op(Id("value"), "<=", I(1)), <<Return(I(1))>>),
          Op(Id("value"), "*", Call(Id("fact"), <<Op(Id("value"), "-", I(1))>>))>>))

RecursionTable == ProgramAst(<<Factorial>>, {<<1>>})
RecursionAst   == RecursionTable
RecursionNode  == DOMAIN RecursionTable
RecursionRoots == ProgramRoots({<<1>>})

=============================================================================
