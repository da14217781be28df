----------------------------- MODULE MCPipeline -----------------------------
(***************************************************************************)
(* Programs for monkey -c: every sequence of up to two statements out of a *)
(* menu, after  let x = 2; let b = x < 1; let f = ...;                     *)
(***************************************************************************)
EXTENDS Pipeline, Programs

X == Id("x")
Y == Id("y")
Fx(e) == Call(Id("f"), <<e>>)
IntParam(x) == Param(x, "int")

CompileMenu == <<
    Let("x", I(2)),
    Let("b", Op(X, "<", I(1))),
    \* let f = fn(y int) int { while y < 1 { y = y + 1; } };
    Let("f", FnLit(<<IntParam("y")>>, "int",
                   <<While(Op(Y, "<", I(1)), <<Assign("y", Op(Y, "+", I(1)))>>)>>)),
    \* { let x = f(x / (x - 2)); { x = -x; } }
    Block(<<Let("x", Fx(Op(X, "/", Op(X, "-", I(2))))), Block(<<Assign("x", Un("-", X))>>)>>),
    \* x = f(f(x)) % x;
    Assign("x", Op(Fx(Fx(X)), "%", X)),
    \* if b { return x; x + 1; } elif x { let x = b; } else { f(x); }
    Tree("If", <<Id("b"), Block(<<Return(X), Op(X, "+", I(1))>>),
                 X, Block(<<Let("x", Id("b"))>>), Block(<<Fx(X)>>)>>),
    \* while not b { let a = [x, f(x)]; x = a[x]; }
    While(Un("not", Id("b")),
          <<Let("a", Array(<<X, Fx(X)>>)), Assign("x", Deref(Id("a"), X))>>),
    \* b = b or x < f(x) and b;
    Assign("b", Op(Id("b"), "or", Op(Op(X, "<", Fx(X)), "and", Id("b")))),
    \* let g = fn(x bool) bool { if x { return f(1) < 1; } x or not x; };
    Let("g", FnLit(<<Param("x", "bool")>>, "bool",
                   <<If(X, <<Return(Op(Fx(I(1)), "<", I(1)))>>), Op(X, "or", Un("not", X))>>)),
    \* let g = fn(x bool) int { let h = fn() void { return; }; h(); if x { return 1; } };
    Let("g", FnLit(<<Param("x", "bool")>>, "int",
                   <<Let("h", FnLit(<<>>, "void", <<ReturnVoid>>)), Call(Id("h"), <<>>),
                     If(X, <<Return(I(1))>>)>>)),
    \* g(b);
    Call(Id("g"), <<Id("b")>>),
    \* let f = fn(x int, x int) int { };
    Let("f", FnLit(<<IntParam("x"), IntParam("x")>>, "int", <<>>)),
    \* let f = fn(y int) int { x; };
    Let("f", FnLit(<<IntParam("y")>>, "int", <<X>>)),
    ReturnVoid,
    \* let s = "a"; and s == fn(s string) void { };
    Let("s", S("a")),
    Op(Id("s"), "==", FnLit(<<Param("s", "string")>>, "void", <<>>)),
    \* fn() int { 1; }();
    Call(FnLit(<<>>, "int", <<I(1)>>), <<>>),
    \* b = b and 1;
    Assign("b", Op(Id("b"), "and", I(1))),
    \* 200;             (does not fit)
    I(200),
    \* let b = 2.0 ^ 3 - x / 0;
    Let("b", Op(Op(F(2), "^", I(3)), "-", Op(X, "/", I(0)))),
    \* let b = let x = f;
    Let("b", Let("x", Id("f"))),
    \* let h = fn(s str) int { return 1; };      (there is no type str)
    Let("h", FnLit(<<Param("s", "str")>>, "int", <<Return(I(1))>>)) >>

CompilePrograms == Menu(<<1, 2, 3>>, 4 .. 22, 2)
CompileTable == ProgramAst(CompileMenu, CompilePrograms)
CompileAst   == CompileTable
CompileNode  == DOMAIN CompileTable
CompileRoots == ProgramRoots(CompilePrograms)

(* None of them returns outside a function or leaves a function without a  *)
(* result, which TODO.md lists as not yet refused.                         *)
ValidPrograms == Menu(<<1, 2, 3>>, (4 .. 11) \union {13}, 1)
ValidRoots    == ProgramRoots(ValidPrograms)

=============================================================================
