---------------------------- MODULE MCAgreement ----------------------------
(***************************************************************************)
(* Programs that the compiler and the interpreter both run: every sequence *)
(* of up to two statements out of a menu, after                            *)
(*   let x = 2; let b = x < 3; let a = [x, 5, 7]; let f = ...;             *)
(* Parameters have names that nothing else has, since they leak            *)
(* (llvm_ir_pass.cpp:126).                                                 *)
(***************************************************************************)
EXTENDS Agreement, Programs

X == Id("x")
P == Id("p")
Fxb(e, c) == Call(Id("f"), <<e, c>>)
FnOf(ret, body) == FnLit(<<Param("p", "int"), Param("c", "bool")>>, ret, body)

BothMenu == <<
    Let("x", I(2)),
    Let("b", Op(X, "<", I(3))),
    Let("a", Array(<<X, I(5), I(7)>>)),
    \* let f = fn(p int, c bool) int { let q = p - 1; if c { let q = q * 2; p = q; } p + q; };
    Let("f", FnOf("int", <<Let("q", Op(P, "-", I(1))),
                           If(Id("c"), <<Let("q", Op(Id("q"), "*", I(2))),
                                         Assign("p", Id("q"))>>),
                           Op(P, "+", Id("q"))>>)),
    \* x = f(f(x, b), not b);
    Assign("x", Fxb(Fxb(X, Id("b")), Un("not", Id("b")))),
    \* while b and x < 5 { x = x + 1; if x == 4 { b = false; } }
    While(Op(Id("b"), "and", Op(X, "<", I(5))),
          <<Assign("x", Op(X, "+", I(1))),
            If(Op(X, "==", I(4)), <<Assign("b", B(FALSE))>>)>>),
    \* { let b = x; let x = b > 3; { b = -b; } a = [b, b, 1]; }
    Block(<<Let("b", X), Let("x", Op(Id("b"), ">", I(3))), Block(<<Assign("b", Un("-", Id("b")))>>),
            Assign("a", Array(<<Id("b"), Id("b"), I(1)>>))>>),
    \* b = b or (x = x - 2) < 0;
    Assign("b", Op(Id("b"), "or", Op(Assign("x", Op(X, "-", I(2))), "<", I(0)))),
    \* x = a[x];
    Assign("x", Deref(Id("a"), X)),
    \* if x == 2 { x = 0; } elif b { x = x * 60; } else { b = not b; }
    Tree("If", <<Op(X, "==", I(2)), Block(<<Assign("x", I(0))>>),
                 Id("b"), Block(<<Assign("x", Op(X, "*", I(60)))>>),
                 Block(<<Assign("b", Un("not", Id("b")))>>)>>),
    \* x = 7 / x % 4;
    Assign("x", Op(Op(I(7), "/", X), "%", I(4))),
    \* b = x - 2.0 ^ x < -4;
    Assign("b", Op(Op(X, "-", Op(F(2), "^", X)), "<", Un("-", I(4)))),
    \* let f = fn(p int, c bool) int { while c { p = p + 7; if p > 20 { return p; } } return -p; };
    Let("f", FnOf("int", <<While(Id("c"), <<Assign("p", Op(P, "+", I(7))),
                                            If(Op(P, ">", I(20)), <<Return(P)>>)>>),
                           Return(Un("-", P))>>)),
    \* { let g = fn(p int) int { let h = fn(d int) bool { return d > 1; };
    \*                           if h(p) { return p ^ 2; } return p; };  x = g(x); }
    Block(<<Let("g", FnLit(<<Param("p", "int")>>, "int",
               <<Let("h", FnLit(<<Param("d", "int")>>, "bool", <<Return(Op(Id("d"), ">", I(1)))>>)),
                 If(Call(Id("h"), <<P>>), <<Return(Op(P, "^", I(2)))>>), Return(P)>>)),
            Assign("x", Call(Id("g"), <<X>>))>>),
    \* let n = fn(p int, c bool) void { if c { return; } p / 0; };
    Let("n", FnOf("void", <<If(Id("c"), <<ReturnVoid>>), Op(P, "/", I(0))>>)),
    Call(Id("n"), <<X, Id("b")>>),
    \* let b = [a, [x, 1, 0]][1];
    Let("b", Deref(Array(<<Id("a"), Array(<<X, I(1), I(0)>>)>>), I(1))),
    \* f(b, b) + x;
    Op(Fxb(Id("b"), Id("b")), "+", X),
    \* x = (x - 2) or b;
    Assign("x", Op(Op(X, "-", I(2)), "or", Id("b"))),
    \* b or (let x = b);
    Op(Id("b"), "or", Let("x", Id("b"))),
    \* x = b;      (refused, but after the one before)
    Assign("x", Id("b")),
    \* let f = fn(p int, c bool) int { p = p + x; return p; };
    Let("f", FnOf("int", <<Assign("p", Op(P, "+", X)), Return(P)>>)),
    \* f(1, let x = b);
    Fxb(I(1), Let("x", Id("b"))),
    \* let f = fn(p int, c bool) int { if c { x = p; } return p; };
    Let("f", FnOf("int", <<If(Id("c"), <<Assign("x", P)>>), Return(P)>>)),
    \* b = (x > 2) < b;
    Assign("b", Op(Op(X, ">", I(2)), "<", Id("b"))),
    \* x = f;
    Assign("x", Id("f")),
    \* x();
    Call(X, <<>>),
    \* let f = fn(p int, c bool) int { if c { return p; } };
    Let("f", FnOf("int", <<If(Id("c"), <<Return(P)>>)>>)),
    \* if b { return x; }
    If(Id("b"), <<Return(X)>>),
    \* while x - 1 { x = x - 1; }
    While(Op(X, "-", I(1)), <<Assign("x", Op(X, "-", I(1)))>>),
    \* x = let x = b;
    Assign("x", Let("x", Id("b"))),
    \* x = f(1, let x = b);      (refused: x is a bool when it is assigned to)
    Assign("x", Fxb(I(1), Let("x", Id("b")))),
    \* x = f(let f = 3, b);
    Assign("x", Fxb(Let("f", I(3)), Id("b"))),
    \* f(let f = 3, 1);      (refused, although f is no function by then)
    Fxb(Let("f", I(3)), I(1)),
    \* b = x / 0.0 < x;
    Assign("b", Op(Op(X, "/", F(0)), "<", X)) >>

BothPrograms == Menu(<<1, 2, 3, 4>>, 5 .. 35, 2)
BothTable == ProgramAst(BothMenu, BothPrograms)
BothAst   == BothTable
BothNode  == DOMAIN BothTable
BothRoots == ProgramRoots(BothPrograms)

=============================================================================
