--------------------------- MODULE MCInterpreter ---------------------------
(***************************************************************************)
(* Inputs for the interpreter.  Each table is a menu from which a session  *)
(* types a few inputs, in any order and each at most once; the comment     *)
(* beside an input is its source text.                                     *)
(***************************************************************************)
EXTENDS Interpreter, Syntax

(* let f = fn(y int) int { let x = 7; if y > 0 { return y; } x; };         *)
DefF == Let("f", FnLit(<<Param("y", "int")>>, "int",
          <<Let("x", I(7)),
            If(Op(Id("y"), ">", I(0)), <<Return(Id("y"))>>),
            Id("x")>>))

(* let g = fn(n int) int {                                                 *)
(*   while n > 0 { let x = n; n = n - 1; if n == 1 { return f(x); } } n; };*)
DefG == Let("g", FnLit(<<Param("n", "int")>>, "int",
          <<While(Op(Id("n"), ">", I(0)),
              <<Let("x", Id("n")),
                Assign("n", Op(Id("n"), "-", I(1))),
                If(Op(Id("n"), "==", I(1)),
                   <<Return(Call(Id("f"), <<Id("x")>>))>>)>>),
            Id("n")>>))

(* let mk = fn() bool { let k = fn(b bool) bool { not b; }; k(true); };    *)
DefMk == Let("mk", FnLit(<<>>, "bool",
           <<Let("k", FnLit(<<Param("b", "bool")>>, "bool",
                            <<Un("not", Id("b"))>>)),
             Call(Id("k"), <<B(TRUE)>>)>>))

(* let d = fn(a int, a bool) bool {                                        *)
(*   a = not a; { a = let a = 1; a = 2; } a; };                            *)
DefD == Let("d", FnLit(<<Param("a", "int"), Param("a", "bool")>>, "bool",
          <<Assign("a", Un("not", Id("a"))),
            Block(<<Assign("a", Let("a", I(1))), Assign("a", I(2))>>),
            Id("a")>>))

(* let h = fn() int { x = x + 1; x; };                                     *)
DefH == Let("h", FnLit(<<>>, "int",
          <<Assign("x", Op(Id("x"), "+", I(1))), Id("x")>>))

SessionInputs == <<
    \* let x = 1; let f = ...;
    StmtList(<<Let("x", I(1)), DefF>>),
    \* let g = ...;  g(2);
    StmtList(<<DefG, Call(Id("g"), <<I(2)>>)>>),
    \* { let x = 5; let g = 1; { x = g(3); } }
    StmtList(<<Block(<<Let("x", I(5)), Let("z", I(1)),
                       Block(<<Assign("x", Call(Id("g"), <<I(3)>>))>>)>>)>>),
    \* let mk = ...;  mk();
    StmtList(<<DefMk, Call(Id("mk"), <<>>)>>),
    \* { mk(); }
    StmtList(<<Block(<<Call(Id("mk"), <<>>)>>)>>),
    \* let d = ...;  if d(1, true) { 1; } elif d(1, false) { return 2; }
    StmtList(<<DefD, IfElif(Call(Id("d"), <<I(1), B(TRUE)>>), <<I(1)>>,
                            Call(Id("d"), <<I(1), B(FALSE)>>),
                            <<Return(I(2))>>)>>),
    \* { x = f(0) + f(x); x = true; }
    StmtList(<<Block(<<Assign("x", Op(Call(Id("f"), <<I(0)>>), "+",
                                      Call(Id("f"), <<Id("x")>>))),
                       Assign("x", B(TRUE))>>)>>),
    \* { let a = [x, 2]; { a[x] and a[x + 1]; } }
    StmtList(<<Block(<<Let("a", Array(<<Id("x"), I(2)>>)),
                       Block(<<Op(Deref(Id("a"), Id("x")), "and",
                                  Deref(Id("a"), Op(Id("x"), "+", I(1))))>>)
                     >>)>>),
    \* let h = ...;  { let x = 5; h(); }
    StmtList(<<DefH, Block(<<Let("x", I(5)), Call(Id("h"), <<>>)>>)>>),
    \* { let m = -127 - 1; m / -1; }     (INT64_MIN / -1)
    StmtList(<<Block(<<Let("m", Op(Un("-", I(127)), "-", I(1))),
                       Op(Id("m"), "/", Un("-", I(1)))>>)>>),
    \* { 200; }                          (stoll: out of range)
    StmtList(<<Block(<<I(200)>>)>>),
    \* { -[]; }
    StmtList(<<Block(<<Un("-", Array(<<>>))>>)>>),
    \* { let int = 1; }
    StmtList(<<Block(<<Let("int", I(1))>>)>>),
    \* let f = fn(q num) int { q; };
    StmtList(<<Let("f", FnLit(<<Param("q", "num")>>, "int", <<Id("q")>>))>>)
    >>

(* The tables are definitions of their own so that TLC computes them once. *)
SessionTable == AstOf(SessionInputs)
SessionAst   == SessionTable
SessionNode  == DOMAIN SessionTable
SessionRoots == RootsOf(SessionInputs)

-----------------------------------------------------------------------------
(* Programs of tests/test_interpreter.cpp, each with the value its test    *)
(* requires, or Throws; the comment gives the line of the test.            *)
Throws == <<"throws">>

Test(prog, v) == [input |-> StmtList(prog), result |-> v]

IntFn(ps, b) == FnLit(ps, "int", b)

Grade == IfElif(Op(Id("x"), ">", I(5)), <<I(1)>>,
                Op(Id("x"), ">", I(3)), <<I(2)>>)

Tests == <<
    Test(<<Op(Op(I(2), "-", I(4)), "*",                              \* 108
              Op(I(1), "+", Op(Op(I(3), "*", I(1)), "*", I(2))))>>, Int64(-14)),
    Test(<<Op(I(2), "<", I(1))>>, Bool(FALSE)),                      \* 146
    Test(<<Op(I(1), "and", I(2))>>, Int64(2)),                       \* 154
    Test(<<Op(I(0), "and", I(2))>>, Int64(0)),                       \* 160
    Test(<<Op(I(0), "or", I(5))>>, Int64(5)),                        \* 166
    Test(<<Op(I(1), "or", I(5))>>, Int64(1)),                        \* 172
    Test(<<Let("x", I(42))>>, Int64(42)),                            \* 180
    Test(<<Let("x", I(10)), Block(<<Let("x", I(20))>>), Id("x")>>,
         Int64(10)),                                                 \* 186
    Test(<<Id("y")>>, Throws),                                       \* 207
    Test(<<Op(I(1), "/", I(0))>>, Throws),                           \* 213
    Test(<<Op(I(1), "%", I(0))>>, Throws),                           \* 217
    Test(<<Op(S("hello"), "==", S("hello"))>>, Bool(TRUE)),          \* 236
    Test(<<Op(S("hello"), "!=", S("hello"))>>, Bool(FALSE)),         \* 254
    Test(<<Op(S("hello"), "and", I(42))>>, Int64(42)),               \* 288
    Test(<<If(I(0), <<I(42)>>)>>, Null),                             \* 308
    Test(<<IfElse(I(0), <<I(42)>>, <<I(99)>>)>>, Int64(99)),         \* 319
    Test(<<Let("x", I(4)), Grade>>, Int64(2)),                       \* 331
    Test(<<Let("x", I(0)), Grade>>, Null),                           \* 349
    Test(<<Array(<<I(1), F(2)>>)>>, Throws),                         \* 396
    Test(<<Let("arr", Array(<<I(10), I(20), I(30)>>)),               \* 414
           Let("i", I(1)), Deref(Id("arr"), Op(Id("i"), "+", I(1)))>>,
         Int64(30)),
    Test(<<Let("arr", Array(<<I(1), I(2)>>)), Deref(Id("arr"), I(5))>>,
         Throws),                                                    \* 426
    Test(<<Let("arr", Array(<<I(1), I(2)>>)),                        \* 430
           Deref(Id("arr"), Un("-", I(1)))>>, Throws),
    Test(<<Let("x", I(5)), Deref(Id("x"), I(0))>>, Throws),          \* 438
    Test(<<Let("inner", Array(<<I(1), I(2)>>)),                      \* 442
           Let("outer", Array(<<Id("inner"), Array(<<I(3), I(4)>>)>>)),
           Deref(Deref(Id("outer"), I(0)), I(1))>>, Int64(2)),
    Test(<<Let("mul", FnLit(<<Param("x", "float"), Param("y", "float")>>,
                            "float", <<Op(Id("x"), "*", Id("y"))>>)),
           Call(Id("mul"), <<F(2), F(4)>>)>>, Float(8)),             \* 473
    Test(<<Let("noop", FnLit(<<>>, "void", <<ReturnVoid>>)),         \* 491
           Call(Id("noop"), <<>>)>>, Null),
    Test(<<Let("noop", FnLit(<<>>, "void", <<>>)),                   \* 496
           Call(Id("noop"), <<>>)>>, Null),
    Test(<<Let("invalid", FnLit(<<>>, "void", <<Return(I(1))>>)),    \* 501
           Call(Id("invalid"), <<>>)>>, Throws),
    Test(<<Let("f", IntFn(<<Param("x", "int")>>,                     \* 513
                          <<Return(Id("x")), Op(Id("x"), "+", I(100))>>)),
           Call(Id("f"), <<I(7)>>)>>, Int64(7)),
    Test(<<Let("f", IntFn(<<Param("x", "int")>>, <<Id("x")>>)),      \* 526
           Call(Id("f"), <<I(1), I(2)>>)>>, Throws),
    Test(<<Let("f", IntFn(<<Param("x", "int")>>, <<Id("x")>>)),      \* 532
           Call(Id("f"), <<F(1)>>)>>, Throws),
    Test(<<Let("f", FnLit(<<Param("x", "int")>>, "bool",             \* 538
                          <<Op(Id("x"), "+", I(1))>>)),
           Call(Id("f"), <<I(1)>>)>>, Throws),
    Test(<<Let("x", I(5)), Call(Id("x"), <<I(1)>>)>>, Throws),       \* 544
    Test(<<Let("x", I(10)), Let("f", IntFn(<<>>, <<Id("x")>>)),      \* 557
           Call(Id("f"), <<>>)>>, Int64(10)),
    Test(<<Let("x", I(10)),                                          \* 570
           Let("f", IntFn(<<Param("y", "int")>>,
                          <<Let("x", I(99)), Id("y")>>)),
           Call(Id("f"), <<I(1)>>), Id("x")>>, Int64(10)),
    Test(<<Let("x", I(1)), Assign("x", F(1))>>, Throws),             \* 673
    Test(<<Assign("y", I(5))>>, Throws),                             \* 669
    Test(<<Let("x", I(10)), Block(<<Assign("x", I(20))>>), Id("x")>>,
         Int64(20)),                                                 \* 677
    Test(<<Let("i", I(0)),                                           \* 722
           While(Op(Id("i"), "<", I(3)),
                 <<Let("tmp", Op(Id("i"), "*", I(2))),
                   Assign("i", Op(Id("i"), "+", I(1)))>>),
           Id("tmp")>>, Throws),
    Test(<<Let("findFirst", IntFn(<<Param("target", "int")>>,        \* 772
              <<Let("i", I(0)),
                While(Op(Id("i"), "<", I(10)),
                      <<If(Op(Id("i"), "==", Id("target")),
                           <<Return(Id("i"))>>),
                        Assign("i", Op(Id("i"), "+", I(1)))>>),
                Return(Un("-", I(1)))>>)),
           Call(Id("findFirst"), <<I(7)>>)>>, Int64(7)) >>

TestInputs == [i \in DOMAIN Tests |-> Tests[i].input]

TestTable == AstOf(TestInputs)
TestAst   == TestTable
TestNode  == DOMAIN TestTable
TestRoots == RootsOf(TestInputs)

(* AgreesWithTests: run on a fresh interpreter, each of these programs     *)
(* gives the value, or the error, its test in test_interpreter.cpp         *)
(* requires.                                                               *)
AgreesWithTests ==
    \A root \in seen :
        stk = <<>> =>
            LET expected == Tests[root[1]].result
            IN  /\ mode \in {"run", "exit"}
                /\ IF expected = Throws THEN outcome = "error"
                   ELSE outcome = "ok" /\ result = expected

=============================================================================
