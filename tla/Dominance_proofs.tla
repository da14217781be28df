-------------------------- MODULE Dominance_proofs --------------------------
(***************************************************************************)
(* Dominated, for every program: in a finished module a value of a         *)
(* function is used in it only where every path has computed it.           *)
(*                                                                         *)
(* The proof labels each block with blocks that every path to it passes    *)
(* through.  A new block gets the label of the insertion point, which is   *)
(* never changed again: whoever leads control to the block later, a branch *)
(* back to a loop or on to a merge block, has passed what the label says.  *)
(* The visitors on the stack vouch for that, and for the values they keep. *)
(***************************************************************************)
EXTENDS Pipeline_proofs

-----------------------------------------------------------------------------
(* A module under construction.  A[b] are blocks control has to pass       *)
(* through on its way to block b, and Past(A, b) those it has passed in b; *)
(* W[id] is the block of the instruction id.                               *)

Past(A, b) == A[b] \union {b}

Of(m, b) == m.blocks[b].fn

(* The first block made in its function.                                   *)
First(m, e) == /\ e \in 1 .. Len(m.blocks)
               /\ \A c \in 1 .. (e - 1) : Of(m, c) # Of(m, e)

Known(m, v) == Gen!Kind(v) = "inst" => Gen!Detail(v) \in 1 .. m.made

(* In function f, value v is computed in one of the blocks S.              *)
Within(m, W, v, S, f) ==
    Gen!Kind(v) = "inst" =>
        /\ Gen!Detail(v) \in 1 .. m.made
        /\ Of(m, W[Gen!Detail(v)]) = f => W[Gen!Detail(v)] \in S

(* Value v is computed in the entry block of its function.                 *)
Fixed(m, W, v) ==
    Gen!Kind(v) = "inst" =>
        Gen!Detail(v) \in 1 .. m.made /\ First(m, W[Gen!Detail(v)])

(* Operand i of the k-th instruction of block b.                           *)
Fed(m, A, W, b, k, i) ==
    LET code == m.blocks[b].code
        v    == code[k].args[i]
        d    == W[Gen!Detail(v)]
    IN  Gen!Kind(v) = "inst" =>
            /\ Gen!Detail(v) \in 1 .. m.made
            /\ IF code[k].op = "phi"
               THEN /\ code[k].to[i] \in 1 .. Len(m.blocks)
                    /\ Of(m, d) = Of(m, b) => d \in Past(A, code[k].to[i])
               ELSE Of(m, d) = Of(m, b) =>
                        \/ d \in A[b] \ {b}
                        \/ d = b /\ \E j \in DOMAIN code :
                                        j < k /\ code[j].id = Gen!Detail(v)

SoundBlock(m, A, W, b) ==
    LET code == m.blocks[b].code
    IN  /\ DOMAIN m.blocks[b] = {"fn", "code"}
        /\ IsSeq(code)
        /\ Of(m, b) \in 1 .. Len(m.funs)
        /\ \E e \in Past(A, b) : First(m, e) /\ Of(m, e) = Of(m, b)
        /\ First(m, b) => A[b] = {}
        /\ \A c \in Goals(code) : c \in 1 .. Len(m.blocks) /\ A[c] \subseteq Past(A, b)
        /\ \A k \in DOMAIN code :
               /\ code[k].id \in 1 .. m.made
               /\ W[code[k].id] = b
               /\ \A j \in DOMAIN code : code[j].id = code[k].id => j = k
               /\ \A i \in DOMAIN code[k].args : Fed(m, A, W, b, k, i)

Placed(m, W, id) ==
    /\ W[id] \in 1 .. Len(m.blocks)
    /\ \E k \in DOMAIN m.blocks[W[id]].code : m.blocks[W[id]].code[k].id = id

Sound(m, A, W) ==
    /\ DOMAIN m = {"funs", "blocks", "at", "made", "last", "undef"}
    /\ IsSeq(m.blocks) /\ IsSeq(m.funs) /\ m.made \in Nat
    /\ \A b \in 1 .. Len(m.blocks) : SoundBlock(m, A, W, b)
    /\ \A id \in 1 .. m.made : Placed(m, W, id)

(* The insertion point is in function f.                                   *)
Here(m, A, W, f) ==
    /\ Sound(m, A, W)
    /\ m.at \in 1 .. Len(m.blocks) /\ Of(m, m.at) = f

(* A module that has grown.                                                *)
Grows(m, A, W, m2, A2, W2) ==
    /\ Len(m.blocks) <= Len(m2.blocks) /\ m.made <= m2.made
    /\ \A b \in 1 .. Len(m.blocks) : Of(m2, b) = Of(m, b) /\ A2[b] = A[b]
    /\ \A id \in 1 .. m.made : W2[id] = W[id]

-----------------------------------------------------------------------------
(* The visitors.  E[i] are blocks control has passed when visitor i begins,*)
(* and G[i] is the function it begins in.                                  *)

(* The blocks a visitor will go to later, or may send control back to.     *)
Dues(f) ==
    IF Joins(f) \/ Chooses(f) THEN {f.own.merge}
    ELSE IF Branches(f) THEN {f.own.merge, f.own.next}
    ELSE IF Tests(f) THEN {f.own.cond, f.own.cond + 1, f.own.cond + 2}
    ELSE IF Repeats(f) THEN {f.own.cond, f.own.cond + 2}
    ELSE {}

(* The values a visitor keeps in its locals.                               *)
Held(f) ==
    LET kind == Ast[f.node].kind
    IN  IF f.pc > 0 /\ kind = "Call" THEN {f.own[i] : i \in DOMAIN f.own}
        ELSE IF \/ kind = "Array" /\ f.pc > 0
                \/ kind = "Deref" /\ f.pc = 2
                \/ kind = "BinOp" /\ ~ Connects(f.node) /\ f.pc = 2
        THEN {f.own} ELSE {}

(* What a function's members hold.                                         *)
Returning(m, A, W, fu) ==
    fu.retBlock # 0 =>
        /\ fu.retBlock \in 1 .. Len(m.blocks)
        /\ Of(m, fu.retBlock) = fu.fn
        /\ \A d \in A[fu.retBlock] : First(m, d) /\ Of(m, d) = fu.fn
        /\ Fixed(m, W, fu.retAlloca)

(* The locals of visitor f, begun behind the blocks S in function g, while *)
(* its child, begun behind S2 in g2, is visited.                           *)
Locals(f, S, g, S2, g2, m, A, W) ==
    /\ \A b \in Dues(f) : /\ b \in 1 .. Len(m.blocks) /\ Of(m, b) = g
                          /\ S \subseteq A[b] /\ A[b] \subseteq S2
    /\ Branches(f) => A[f.own.merge] \subseteq A[f.own.next]
    /\ Tests(f) => /\ A[f.own.cond] \subseteq A[f.own.cond + 1]
                   /\ A[f.own.cond + 2] \subseteq A[f.own.cond + 1]
    /\ Ast[f.node].kind = "Call" /\ f.pc > 0 => IsSeq(f.own)
    /\ \A v \in Held(f) : Within(m, W, v, S2, g2)

(* What it has behind it and keeps.                                        *)
Keeps(f, S, g, S2, g2, m, A, W) ==
    /\ f.node \in Node /\ f.pc \in Nat
    /\ IF Generates(f)
       THEN /\ f.own.fun.fn = g
            /\ f.own.at \in 1 .. Len(m.blocks) /\ Of(m, f.own.at) = g
            /\ S \subseteq Past(A, f.own.at)
            /\ Returning(m, A, W, f.own.fun)
       ELSE g2 = g /\ S \subseteq S2 /\ f.pc <= Len(Ast[f.node].kids)
    /\ Locals(f, S, g, S2, g2, m, A, W)

(* An assignment has found its symbol.                                     *)
Assigns(f, H) ==
    Ast[f.node].kind = "Assign" /\ f.pc = 1 =>
        f.own \in 1 .. Len(H) /\ Ast[f.node].name \in DOMAIN H[f.own]

(* The child a visitor waits for.                                          *)
Follows(f, g) == ~ Generates(f) => g.node = Ast[f.node].kids[f.pc]

(* Behind the branch of an if, and in the body of a loop, val_ is a value  *)
(* that may not have been computed, until an expression has been visited.  *)
Lags(f) == Chooses(f) \/ Repeats(f)

Stale(s) == \E i \in 1 .. Len(s) : Lags(s[i]) /\ \A j \in i .. Len(s) : ~ Generates(s[j])

Awaits(f) == ~ Generates(f) /\ f.pc \in ValuePlaces(f.node)

Awaiting(s) == Len(s) # 0 /\ Awaits(s[Len(s)])

Bindings(H, m, W) ==
    /\ IsSeq(H)
    /\ \A s \in 1 .. Len(H) : \A x \in DOMAIN H[s] : Fixed(m, W, H[s][x].slot)

Trail(s, E, G, H, m, A, W) ==
    /\ IsSeq(s)
    /\ \A i \in 1 .. Len(s) : Keeps(s[i], E[i], G[i], E[i + 1], G[i + 1], m, A, W)
    /\ \A i \in 1 .. Len(s) : Assigns(s[i], H)
    /\ \A i \in 1 .. Len(s) - 1 : Follows(s[i], s[i + 1])

(* val_ has been computed, or is stale and not awaited.                    *)
Current(s, m, A, W, fu, v) ==
    \/ Stale(s) /\ ~ Awaiting(s)
    \/ Within(m, W, v, Past(A, m.at), fu.fn)

Flow(s, E, G, m, A, W, fu, v, env, H) ==
    /\ Here(m, A, W, fu.fn)
    /\ Trail(s, E, G, H, m, A, W)
    /\ E[Len(s) + 1] \subseteq Past(A, m.at)
    /\ G[Len(s) + 1] = fu.fn
    /\ Returning(m, A, W, fu)
    /\ Bindings(H, m, W)
    /\ env \in Seq(1 .. Len(H))
    /\ Known(m, v)
    /\ Current(s, m, A, W, fu, v)

Vouches(s, m, fu, v, env, H) == \E A, W, E, G : Flow(s, E, G, m, A, W, fu, v, env, H)

(* The symbols only grow.                                                  *)
Widens(H, H2) ==
    /\ Len(H) \in Nat /\ Len(H2) \in Nat /\ Len(H) <= Len(H2)
    /\ \A s \in 1 .. Len(H) : DOMAIN H[s] \subseteq DOMAIN H2[s]

-----------------------------------------------------------------------------
(* What growing keeps.                                                     *)

(* A function has one first block.                                         *)
LEMMA OneFirst ==
    ASSUME NEW m, Len(m.blocks) \in Nat, NEW d, NEW e,
           First(m, d), First(m, e), Of(m, d) = Of(m, e)
    PROVE  d = e
<1>1. d \in 1 .. Len(m.blocks) /\ e \in 1 .. Len(m.blocks)
  BY DEF First
<1>2. ~ (d < e)
  <2> SUFFICES ASSUME d < e PROVE FALSE
    OBVIOUS
  <2>1. d \in 1 .. (e - 1)
    BY <1>1
  <2> QED
    BY <2>1 DEF First
<1>3. ~ (e < d)
  <2> SUFFICES ASSUME e < d PROVE FALSE
    OBVIOUS
  <2>1. e \in 1 .. (d - 1)
    BY <1>1
  <2> QED
    BY <2>1 DEF First
<1> QED
  BY <1>1, <1>2, <1>3

(* The numbers of a sound module.                                          *)
LEMMA SoundNumbers ==
    ASSUME NEW m, NEW A, NEW W, Sound(m, A, W)
    PROVE  Len(m.blocks) \in Nat /\ m.made \in Nat /\ Len(m.funs) \in Nat
BY LenProperties DEF Sound, IsSeq

(* A value of the entry block has been computed wherever control is.       *)
LEMMA FixedWithin ==
    ASSUME NEW m, NEW A, NEW W, Sound(m, A, W),
           NEW v, Fixed(m, W, v), NEW b \in 1 .. Len(m.blocks)
    PROVE  Within(m, W, v, Past(A, b), Of(m, b))
<1> SUFFICES ASSUME Gen!Kind(v) = "inst",
                    Of(m, W[Gen!Detail(v)]) = Of(m, b)
             PROVE  W[Gen!Detail(v)] \in Past(A, b)
  BY DEF Within, Fixed
<1>1. PICK e \in Past(A, b) : First(m, e) /\ Of(m, e) = Of(m, b)
  BY DEF Sound, SoundBlock
<1>2. First(m, W[Gen!Detail(v)])
  BY DEF Fixed
<1>3. W[Gen!Detail(v)] = e
  BY <1>1, <1>2, OneFirst, SoundNumbers
<1> QED
  BY <1>1, <1>3

(* The return block has passed the entry block at the most.                *)
LEMMA ReturnPast ==
    ASSUME NEW m, NEW A, NEW W, Sound(m, A, W), NEW fu, fu.retBlock # 0,
           Returning(m, A, W, fu), NEW b \in 1 .. Len(m.blocks), Of(m, b) = fu.fn
    PROVE  A[fu.retBlock] \subseteq Past(A, b)
<1> SUFFICES ASSUME NEW d \in A[fu.retBlock] PROVE d \in Past(A, b)
  OBVIOUS
<1>1. PICK e \in Past(A, b) : First(m, e) /\ Of(m, e) = Of(m, b)
  BY DEF Sound, SoundBlock
<1>2. First(m, d) /\ Of(m, d) = fu.fn
  BY DEF Returning
<1>3. d = e
  BY <1>1, <1>2, OneFirst, SoundNumbers
<1> QED
  BY <1>1, <1>3

(* A module grows into itself.                                             *)
LEMMA GrowsNot ==
    ASSUME NEW m, NEW A, NEW W, Sound(m, A, W)
    PROVE  Grows(m, A, W, m, A, W)
BY SoundNumbers DEF Grows

(* Growing twice is growing.                                               *)
LEMMA GrowsOn ==
    ASSUME NEW m, NEW A, NEW W, Sound(m, A, W),
           NEW m2, NEW A2, NEW W2, Sound(m2, A2, W2),
           NEW m3, NEW A3, NEW W3, Sound(m3, A3, W3),
           Grows(m, A, W, m2, A2, W2), Grows(m2, A2, W2, m3, A3, W3)
    PROVE  Grows(m, A, W, m3, A3, W3)
<1>1. /\ Len(m.blocks) \in Nat /\ m.made \in Nat
      /\ Len(m2.blocks) \in Nat /\ m2.made \in Nat
      /\ Len(m3.blocks) \in Nat /\ m3.made \in Nat
  BY SoundNumbers
<1>2. /\ \A b \in 1 .. Len(m.blocks) : b \in 1 .. Len(m2.blocks)
      /\ \A id \in 1 .. m.made : id \in 1 .. m2.made
  BY <1>1 DEF Grows
<1> QED
  BY <1>1, <1>2 DEF Grows

(* The first block of a function stays the first.                          *)
LEMMA FirstKept ==
    ASSUME NEW m, NEW A, NEW W, Sound(m, A, W),
           NEW m2, NEW A2, NEW W2, Sound(m2, A2, W2), Grows(m, A, W, m2, A2, W2),
           NEW e, First(m, e)
    PROVE  First(m2, e) /\ Of(m2, e) = Of(m, e)
<1>1. /\ Len(m.blocks) \in Nat /\ Len(m2.blocks) \in Nat
      /\ e \in 1 .. Len(m.blocks) /\ Len(m.blocks) <= Len(m2.blocks)
  BY SoundNumbers DEF First, Grows
<1>2. e \in 1 .. Len(m2.blocks) /\ \A c \in 1 .. (e - 1) : c \in 1 .. Len(m.blocks)
  BY <1>1
<1> QED
  BY <1>1, <1>2 DEF First, Grows

(* A value stays computed where it was, and more blocks may be allowed.    *)
LEMMA WithinKept ==
    ASSUME NEW m, NEW A, NEW W, Sound(m, A, W),
           NEW m2, NEW A2, NEW W2, Sound(m2, A2, W2), Grows(m, A, W, m2, A2, W2),
           NEW v, NEW S, NEW f, Within(m, W, v, S, f), NEW S2, S \subseteq S2
    PROVE  Within(m2, W2, v, S2, f)
<1> SUFFICES ASSUME Gen!Kind(v) = "inst"
             PROVE  /\ Gen!Detail(v) \in 1 .. m2.made
                    /\ Of(m2, W2[Gen!Detail(v)]) = f => W2[Gen!Detail(v)] \in S2
  BY DEF Within
<1> DEFINE id == Gen!Detail(v)
<1>1. id \in 1 .. m.made /\ (Of(m, W[id]) = f => W[id] \in S)
  BY DEF Within
<1> HIDE DEF id
<1>2. id \in 1 .. m2.made
  BY <1>1, SoundNumbers DEF Grows
<1>3. W2[id] = W[id] /\ W[id] \in 1 .. Len(m.blocks)
  BY <1>1 DEF Grows, Sound, Placed
<1>4. Of(m2, W2[id]) = Of(m, W[id])
  BY <1>3 DEF Grows
<1> QED
  BY <1>1, <1>2, <1>3, <1>4 DEF id

(* A value of an entry block stays one.                                    *)
LEMMA FixedKept ==
    ASSUME NEW m, NEW A, NEW W, Sound(m, A, W),
           NEW m2, NEW A2, NEW W2, Sound(m2, A2, W2), Grows(m, A, W, m2, A2, W2),
           NEW v, Fixed(m, W, v)
    PROVE  Fixed(m2, W2, v)
<1> SUFFICES ASSUME Gen!Kind(v) = "inst"
             PROVE  Gen!Detail(v) \in 1 .. m2.made /\ First(m2, W2[Gen!Detail(v)])
  BY DEF Fixed
<1> DEFINE id == Gen!Detail(v)
<1>1. id \in 1 .. m.made /\ First(m, W[id])
  BY DEF Fixed
<1> HIDE DEF id
<1>2. id \in 1 .. m2.made /\ W2[id] = W[id]
  BY <1>1, SoundNumbers DEF Grows
<1> QED
  BY <1>1, <1>2, FirstKept DEF id

(* The block a function returns from stays where it was.                   *)
LEMMA ReturningKept ==
    ASSUME NEW m, NEW A, NEW W, Sound(m, A, W),
           NEW m2, NEW A2, NEW W2, Sound(m2, A2, W2), Grows(m, A, W, m2, A2, W2),
           NEW fu, Returning(m, A, W, fu)
    PROVE  Returning(m2, A2, W2, fu)
<1> SUFFICES ASSUME fu.retBlock # 0
             PROVE  /\ fu.retBlock \in 1 .. Len(m2.blocks)
                    /\ Of(m2, fu.retBlock) = fu.fn
                    /\ \A d \in A2[fu.retBlock] : First(m2, d) /\ Of(m2, d) = fu.fn
                    /\ Fixed(m2, W2, fu.retAlloca)
  BY DEF Returning
<1>1. /\ fu.retBlock \in 1 .. Len(m.blocks)
      /\ Of(m, fu.retBlock) = fu.fn
      /\ \A d \in A[fu.retBlock] : First(m, d) /\ Of(m, d) = fu.fn
      /\ Fixed(m, W, fu.retAlloca)
  BY DEF Returning
<1>2. /\ fu.retBlock \in 1 .. Len(m2.blocks)
      /\ Of(m2, fu.retBlock) = fu.fn
      /\ A2[fu.retBlock] = A[fu.retBlock]
  BY <1>1, SoundNumbers DEF Grows
<1>3. \A d \in A[fu.retBlock] : First(m2, d) /\ Of(m2, d) = fu.fn
  BY <1>1, FirstKept
<1> QED
  BY <1>1, <1>2, <1>3, FixedKept

-----------------------------------------------------------------------------
(* One more instruction in a block: behind its code, where s is 0, or in   *)
(* front of it, where s is 1.                                              *)

Goal(ins) == {ins.to[i] : i \in DOMAIN ins.to}

OneMore(code, ins, s, code2) ==
    /\ s \in {0, 1}
    /\ IsSeq(code) /\ IsSeq(code2) /\ Len(code2) = Len(code) + 1
    /\ \A k \in 1 .. Len(code) : code2[k + s] = code[k]
    /\ code2[IF s = 0 THEN Len(code) + 1 ELSE 1] = ins

(* Appending an instruction puts it behind.                                *)
LEMMA OneBehind ==
    ASSUME NEW code, IsSeq(code), NEW ins
    PROVE  OneMore(code, ins, 0, Append(code, ins))
<1> DEFINE c == Append(code, ins)
<1>1. /\ IsSeq(c) /\ Len(c) = Len(code) + 1 /\ Len(code) \in Nat
      /\ \A i \in 1 .. Len(code) : c[i] = code[i]
      /\ c[Len(code) + 1] = ins
  BY AppendFacts
<1> HIDE DEF c
<1>2. \A i \in 1 .. Len(code) : i + 0 = i
  BY <1>1
<1>3. OneMore(code, ins, 0, c)
  BY <1>1, <1>2 DEF OneMore
<1> QED
  BY <1>3 DEF c

(* Prepending an instruction, as an alloca is, puts it in front.           *)
LEMMA OneInFront ==
    ASSUME NEW code, IsSeq(code), NEW ins
    PROVE  OneMore(code, ins, 1, <<ins>> \o code)
<1> DEFINE c == <<ins>> \o code
           R == Elements(code) \union {ins}
<1>1. code \in Seq(R) /\ <<ins>> \in Seq(R) /\ Len(code) \in Nat
  <2>1. code \in Seq(Elements(code)) /\ Elements(code) \subseteq R
    BY DEF IsSeq
  <2>2. code \in Seq(R)
    BY <2>1, SeqMonotonic, Zenon
  <2> QED
    BY <2>2, LenProperties
<1> HIDE DEF R
<1>2. /\ c \in Seq(R) /\ Len(c) = Len(code) + 1
      /\ c[1] = ins
      /\ \A i \in 1 .. Len(code) : c[i + 1] = code[i]
  BY <1>1, ConcatProperties
<1>3. IsSeq(c)
  BY <1>2, SeqIsSeq
<1> HIDE DEF c
<1>4. OneMore(code, ins, 1, c)
  BY <1>2, <1>3 DEF OneMore
<1> QED
  BY <1>4 DEF c

(* Where the instructions of the longer code come from.                    *)
LEMMA OneMoreFacts ==
    ASSUME NEW code, NEW ins, NEW s, NEW code2, OneMore(code, ins, s, code2)
    PROVE  /\ Len(code) \in Nat
           /\ DOMAIN code = 1 .. Len(code) /\ DOMAIN code2 = 1 .. Len(code) + 1
           /\ \A k \in DOMAIN code : k + s \in DOMAIN code2 /\ code2[k + s] = code[k]
           /\ \E p \in DOMAIN code2 :
                  /\ code2[p] = ins
                  /\ s = 0 => \A k \in DOMAIN code2 : k # p => k < p
                  /\ \A k \in DOMAIN code2 :
                         k # p => k - s \in DOMAIN code /\ code2[k] = code[k - s]
<1> DEFINE p == IF s = 0 THEN Len(code) + 1 ELSE 1
<1>1. /\ Len(code) \in Nat
      /\ DOMAIN code = 1 .. Len(code) /\ DOMAIN code2 = 1 .. Len(code) + 1
  BY LenProperties DEF OneMore, IsSeq
<1>2. \A k \in DOMAIN code : k + s \in DOMAIN code2 /\ code2[k + s] = code[k]
  BY <1>1 DEF OneMore
<1>3. p \in DOMAIN code2 /\ code2[p] = ins
  BY <1>1 DEF OneMore
<1>4. s = 0 => \A k \in DOMAIN code2 : k # p => k < p
  BY <1>1
<1>5. ASSUME NEW k \in DOMAIN code2, k # p
      PROVE  k - s \in DOMAIN code /\ code2[k] = code[k - s]
  <2>1. s \in {0, 1} /\ k \in 1 .. Len(code) + 1
    BY <1>1 DEF OneMore
  <2>2. k - s \in DOMAIN code /\ (k - s) + s = k
    BY <1>1, <1>5, <2>1
  <2> QED
    BY <1>2, <2>2
<1> HIDE DEF p
<1> QED
  BY <1>1, <1>2, <1>3, <1>4, <1>5

Add(W, id, b) == [i \in Nat |-> IF i < id THEN W[i] ELSE b]

(* What an operand of a new instruction at the end of block b must be.     *)
Feeds(m, A, W, ins, b) ==
    \A i \in DOMAIN ins.args :
        IF ins.op = "phi"
        THEN /\ Gen!Kind(ins.args[i]) = "inst" => ins.to[i] \in 1 .. Len(m.blocks)
             /\ Within(m, W, ins.args[i], Past(A, ins.to[i]), Of(m, b))
        ELSE Within(m, W, ins.args[i], Past(A, b), Of(m, b))

(* m2 is m with the instruction ins in block b, whose code is then code2.  *)
Insertion(m, A, W, b, ins, s, code2, m2) ==
    /\ b \in 1 .. Len(m.blocks)
    /\ OneMore(m.blocks[b].code, ins, s, code2)
    /\ ins.id = m.made + 1
    /\ DOMAIN ins.args # {} => s = 0
    /\ Feeds(m, A, W, ins, b)
    /\ ins.op \in Gen!Terminators =>
           \A c \in Goal(ins) : c \in 1 .. Len(m.blocks) /\ A[c] \subseteq Past(A, b)
    /\ DOMAIN m2 = DOMAIN m /\ m2.funs = m.funs /\ m2.made = m.made + 1
    /\ m2.blocks = [m.blocks EXCEPT ![b].code = code2]

(* It keeps the module sound.                                              *)
LEMMA Inserted ==
    ASSUME NEW m, NEW A, NEW W, Sound(m, A, W), NEW b, NEW ins, NEW s, NEW code2, NEW m2,
           Insertion(m, A, W, b, ins, s, code2, m2)
    PROVE  /\ Sound(m2, A, Add(W, m.made + 1, b))
           /\ Grows(m, A, W, m2, A, Add(W, m.made + 1, b))
<1> USE DEF Insertion
<1> DEFINE W2 == Add(W, m.made + 1, b)
           x == [m.blocks[b] EXCEPT !.code = code2]
           code == m.blocks[b].code
           n == Len(m.blocks)
<1>1. n \in Nat /\ m.made \in Nat /\ IsSeq(m.blocks) /\ DOMAIN m.blocks = 1 .. n
  BY LenProperties DEF Sound, IsSeq
<1>2. SoundBlock(m, A, W, b)
  BY DEF Sound
<1>3. /\ m2.blocks = [m.blocks EXCEPT ![b] = x]
      /\ x.code = code2 /\ x.fn = Of(m, b) /\ DOMAIN x = {"fn", "code"}
  BY <1>2 DEF SoundBlock, Of
<1> HIDE DEF x
<1>4. IsSeq(m2.blocks) /\ Len(m2.blocks) = n
  <2>1. b \in 1 .. Len(m.blocks)
    OBVIOUS
  <2> DEFINE q == m.blocks
  <2>2. IsSeq(q) /\ b \in 1 .. Len(q)
    BY <1>1, <2>1
  <2> HIDE DEF q, n, code, W2, Insertion
  <2>3. IsSeq([q EXCEPT ![b] = x]) /\ Len([q EXCEPT ![b] = x]) = Len(q)
    BY ONLY <2>2, ExceptFacts
  <2> QED
    BY <1>3, <2>3 DEF q, n
<1>5. \A c \in 1 .. n : m2.blocks[c] = IF c = b THEN x ELSE m.blocks[c]
  BY <1>1, <1>3
<1>6. \A c \in 1 .. n : Of(m2, c) = Of(m, c)
  BY <1>3, <1>5 DEF Of
<1>7. \A c \in 1 .. n : First(m2, c) <=> First(m, c)
  <2> TAKE c \in 1 .. n
  <2>1. \A d \in 1 .. (c - 1) : d \in 1 .. n
    BY <1>1
  <2> QED
    BY <1>4, <1>6, <2>1 DEF First
<1>8. /\ \A id \in 1 .. m.made : W2[id] = W[id] /\ id \in 1 .. m2.made
      /\ W2[m.made + 1] = b /\ m.made + 1 \in 1 .. m2.made /\ m2.made \in Nat
      /\ \A id \in 1 .. m2.made : id \in 1 .. m.made \/ id = m.made + 1
  BY <1>1 DEF Add
<1> HIDE DEF W2
<1>9. Grows(m, A, W, m2, A, W2)
  BY <1>1, <1>4, <1>6, <1>8 DEF Grows
<1>10. /\ Len(code) \in Nat
       /\ DOMAIN code = 1 .. Len(code) /\ DOMAIN code2 = 1 .. Len(code) + 1
       /\ \A k \in DOMAIN code : k + s \in DOMAIN code2 /\ code2[k + s] = code[k]
  BY OneMoreFacts
<1>11. PICK p \in DOMAIN code2 :
          /\ code2[p] = ins
          /\ s = 0 => \A k \in DOMAIN code2 : k # p => k < p
          /\ \A k \in DOMAIN code2 :
                 k # p => k - s \in DOMAIN code /\ code2[k] = code[k - s]
  BY OneMoreFacts
<1>12. IsSeq(code2) /\ s \in {0, 1}
  BY DEF OneMore
<1>13. \A d \in 1 .. n : \A id \in 1 .. m.made : Of(m, W[id]) = Of(m2, W2[id])
  BY <1>6, <1>8 DEF Sound, Placed
<1>14. ASSUME NEW id \in 1 .. m2.made PROVE Placed(m2, W2, id)
  <2>1. CASE id = m.made + 1
    BY <1>3, <1>4, <1>5, <1>8, <1>11, <2>1 DEF Placed
  <2>2. CASE id \in 1 .. m.made /\ W[id] # b
    BY <1>4, <1>5, <1>8, <2>2 DEF Sound, Placed
  <2>3. CASE id \in 1 .. m.made /\ W[id] = b
    <3>1. PICK k \in DOMAIN code : code[k].id = id
      BY <2>3 DEF Sound, Placed
    <3> QED
      BY <1>3, <1>4, <1>5, <1>8, <1>10, <2>3, <3>1 DEF Placed
  <2> QED
    BY <1>8, <2>1, <2>2, <2>3
<1>15. ASSUME NEW c \in 1 .. n, c # b PROVE SoundBlock(m2, A, W2, c)
  <2>1. SoundBlock(m, A, W, c) /\ m2.blocks[c] = m.blocks[c]
    BY <1>5, <1>15 DEF Sound
  <2>2. \E e \in Past(A, c) : First(m2, e) /\ Of(m2, e) = Of(m2, c)
    <3>1. PICK e \in Past(A, c) : First(m, e) /\ Of(m, e) = Of(m, c)
      BY <2>1 DEF SoundBlock
    <3> QED
      BY <1>6, <1>7, <3>1 DEF First
  <2>3. ASSUME NEW k \in DOMAIN m.blocks[c].code, NEW i \in DOMAIN m.blocks[c].code[k].args
        PROVE  Fed(m2, A, W2, c, k, i)
    <3>1. Fed(m, A, W, c, k, i)
      BY <2>1 DEF SoundBlock
    <3> QED
      BY <1>4, <1>6, <1>8, <1>13, <2>1, <3>1 DEF Fed
  <2> QED
    BY <1>4, <1>6, <1>7, <1>8, <2>1, <2>2, <2>3 DEF SoundBlock
<1>16. SoundBlock(m2, A, W2, b)
  <2>1. m2.blocks[b].code = code2 /\ DOMAIN m2.blocks[b] = {"fn", "code"}
    BY <1>3, <1>5
  <2>2. \E e \in Past(A, b) : First(m2, e) /\ Of(m2, e) = Of(m2, b)
    <3>1. PICK e \in Past(A, b) : First(m, e) /\ Of(m, e) = Of(m, b)
      BY <1>2 DEF SoundBlock
    <3> QED
      BY <1>6, <1>7, <3>1 DEF First
  <2>3. ASSUME NEW c \in Goals(code2)
        PROVE  c \in 1 .. n /\ A[c] \subseteq Past(A, b)
    <3>1. PICK k \in DOMAIN code2 : code2[k].op \in Gen!Terminators
                                    /\ c \in {code2[k].to[i] : i \in DOMAIN code2[k].to}
      BY <2>3 DEF Goals
    <3>2. CASE k = p
      BY <1>11, <3>1, <3>2 DEF Goal
    <3>3. CASE k # p
      <4>1. k - s \in DOMAIN code /\ code2[k] = code[k - s]
        BY <1>11, <3>3
      <4>2. c \in Goals(code)
        BY <3>1, <4>1 DEF Goals
      <4> QED
        BY <1>2, <4>2 DEF SoundBlock
    <3> QED
      BY <3>2, <3>3
  <2>4. ASSUME NEW k \in DOMAIN code2
        PROVE  /\ code2[k].id \in 1 .. m2.made
               /\ W2[code2[k].id] = b
               /\ k = p \/ code2[k].id \in 1 .. m.made
    <3>1. CASE k = p
      BY <1>8, <1>11, <3>1
    <3>2. CASE k # p
      <4>1. k - s \in DOMAIN code /\ code2[k] = code[k - s]
        BY <1>11, <3>2
      <4>2. code2[k].id \in 1 .. m.made /\ W[code2[k].id] = b
        BY <1>2, <4>1 DEF SoundBlock
      <4> QED
        BY <1>8, <4>2
    <3> QED
      BY <3>1, <3>2
  <2>5. ASSUME NEW k \in DOMAIN code2, NEW j \in DOMAIN code2, code2[j].id = code2[k].id
        PROVE  j = k
    <3>1. CASE j # p /\ k # p
      <4>1. /\ k - s \in DOMAIN code /\ code2[k] = code[k - s]
            /\ j - s \in DOMAIN code /\ code2[j] = code[j - s]
        BY <1>11, <3>1
      <4>2. j - s = k - s
        BY <1>2, <2>5, <4>1 DEF SoundBlock
      <4> QED
        BY <1>10, <1>12, <4>2
    <3>2. CASE (j = p /\ k # p) \/ (j # p /\ k = p)
      <4>1. code2[p].id = m.made + 1 /\ m.made + 1 \notin 1 .. m.made
        BY <1>1, <1>11
      <4> QED
        BY <2>4, <2>5, <3>2, <4>1
    <3> QED
      BY <3>1, <3>2
  <2>6. ASSUME NEW k \in DOMAIN code2, NEW i \in DOMAIN code2[k].args
        PROVE  Fed(m2, A, W2, b, k, i)
    <3>1. CASE k # p
      <4>1. k - s \in DOMAIN code /\ code2[k] = code[k - s]
        BY <1>11, <3>1
      <4>2. Fed(m, A, W, b, k - s, i)
        BY <1>2, <2>6, <4>1 DEF SoundBlock
      <4>3. ASSUME NEW j \in DOMAIN code, j < k - s
            PROVE  j + s \in DOMAIN code2 /\ j + s < k /\ code2[j + s] = code[j]
        <5>1. j + s \in DOMAIN code2 /\ code2[j + s] = code[j]
          BY <1>10
        <5>2. j \in Int /\ k \in Int /\ s \in Int
          BY <1>10, <1>12
        <5>3. j + s < k
          BY ONLY j < k - s, <5>2
        <5> QED
          BY <5>1, <5>3
      <4> DEFINE v == code2[k].args[i]
      <4>4. CASE Gen!Kind(v) # "inst"
        BY <2>1, <4>4 DEF Fed
      <4>5. CASE Gen!Kind(v) = "inst"
        <5> DEFINE id == Gen!Detail(v)
                   d == W[id]
        <5>1. /\ id \in 1 .. m.made
              /\ IF code2[k].op = "phi"
                 THEN /\ code2[k].to[i] \in 1 .. n
                      /\ Of(m, d) = Of(m, b) => d \in Past(A, code2[k].to[i])
                 ELSE Of(m, d) = Of(m, b) =>
                          \/ d \in A[b] \ {b}
                          \/ d = b /\ \E j \in DOMAIN code : j < k - s /\ code[j].id = id
          BY <4>1, <4>2, <4>5 DEF Fed
        <5>2. id \in 1 .. m2.made /\ W2[id] = d /\ Of(m2, d) = Of(m, d) /\ Of(m2, b) = Of(m, b)
          <6>1. W2[id] = d /\ id \in 1 .. m2.made
            BY <1>8, <5>1
          <6>2. d \in 1 .. n
            BY <5>1 DEF Sound, Placed
          <6> QED
            BY <1>6, <6>1, <6>2
        <5>3. (\E j \in DOMAIN code : j < k - s /\ code[j].id = id) =>
                  \E j \in DOMAIN code2 : j < k /\ code2[j].id = id
          BY <4>3
        <5> HIDE DEF id, d
        <5>4. IF code2[k].op = "phi"
              THEN /\ code2[k].to[i] \in 1 .. Len(m2.blocks)
                   /\ Of(m2, W2[id]) = Of(m2, b) => W2[id] \in Past(A, code2[k].to[i])
              ELSE Of(m2, W2[id]) = Of(m2, b) =>
                       \/ W2[id] \in A[b] \ {b}
                       \/ W2[id] = b /\ \E j \in DOMAIN code2 : j < k /\ code2[j].id = id
          BY <1>4, <5>1, <5>2, <5>3
        <5> QED
          BY <2>1, <5>2, <5>4 DEF Fed, id
      <4> QED
        BY <4>4, <4>5
    <3>2. CASE k = p
      <4> DEFINE v == ins.args[i]
                 id == Gen!Detail(v)
                 d == W[id]
      <4>1. code2[k] = ins /\ s = 0 /\ i \in DOMAIN ins.args
        BY <1>11, <2>6, <3>2
      <4>2. CASE Gen!Kind(v) # "inst"
        BY <2>1, <4>1, <4>2 DEF Fed
      <4>3. CASE Gen!Kind(v) = "inst"
        <5>1. /\ id \in 1 .. m.made
              /\ IF ins.op = "phi"
                 THEN /\ ins.to[i] \in 1 .. n
                      /\ Of(m, d) = Of(m, b) => d \in Past(A, ins.to[i])
                 ELSE Of(m, d) = Of(m, b) => d \in Past(A, b)
          BY <4>1, <4>3 DEF Feeds, Within
        <5>2. id \in 1 .. m2.made /\ W2[id] = d /\ Of(m2, d) = Of(m, d) /\ Of(m2, b) = Of(m, b)
          <6>1. W2[id] = d /\ id \in 1 .. m2.made
            BY <1>8, <5>1
          <6>2. d \in 1 .. n
            BY <5>1 DEF Sound, Placed
          <6> QED
            BY <1>6, <6>1, <6>2
        <5>3. d = b => \E j \in DOMAIN code2 : j < k /\ code2[j].id = id
          <6> SUFFICES ASSUME d = b PROVE \E j \in DOMAIN code2 : j < k /\ code2[j].id = id
            OBVIOUS
          <6>1. PICK j \in DOMAIN code : code[j].id = id
            BY <5>1 DEF Sound, Placed
          <6>2. j + s \in DOMAIN code2 /\ code2[j + s] = code[j] /\ j + s = j
            BY <1>10, <4>1, <6>1
          <6>3. j # p
            BY <1>1, <1>11, <5>1, <6>1, <6>2
          <6> QED
            BY <1>11, <3>2, <4>1, <6>1, <6>2, <6>3
        <5> HIDE DEF id, d, v
        <5>4. IF ins.op = "phi"
              THEN /\ ins.to[i] \in 1 .. Len(m2.blocks)
                   /\ Of(m2, W2[id]) = Of(m2, b) => W2[id] \in Past(A, ins.to[i])
              ELSE Of(m2, W2[id]) = Of(m2, b) =>
                       \/ W2[id] \in A[b] \ {b}
                       \/ W2[id] = b /\ \E j \in DOMAIN code2 : j < k /\ code2[j].id = id
          BY <1>4, <5>1, <5>2, <5>3 DEF Past
        <5> QED
          BY <2>1, <4>1, <5>2, <5>4 DEF Fed, id, v
      <4> QED
        BY <4>2, <4>3
    <3> QED
      BY <3>1, <3>2
  <2>7. Of(m2, b) \in 1 .. Len(m2.funs) /\ (First(m2, b) => A[b] = {})
    BY <1>2, <1>6, <1>7 DEF SoundBlock
  <2> QED
    BY <1>4, <1>12, <2>1, <2>2, <2>3, <2>4, <2>5, <2>6, <2>7 DEF SoundBlock
<1>17. Sound(m2, A, W2)
  BY <1>4, <1>8, <1>14, <1>15, <1>16 DEF Sound
<1> QED
  BY <1>9, <1>17 DEF W2

-----------------------------------------------------------------------------
(* The other changes of a module.                                          *)

(* The empty sequence.                                                     *)
LEMMA EmptyIsSeq == IsSeq(<<>>) /\ DOMAIN <<>> = {} /\ Len(<<>>) = 0
<1>1. <<>> \in Seq({}) /\ Len(<<>>) = 0
  BY EmptySeq
<1> DEFINE none == <<>>
<1>2. none \in Seq({}) /\ Len(none) = 0
  BY <1>1
<1> HIDE DEF none
<1>3. IsSeq(none) /\ DOMAIN none = 1 .. 0
  BY <1>2, SeqIsSeq, LenProperties
<1> QED
  BY <1>2, <1>3 DEF none

(* What does not touch the blocks keeps the module sound.                  *)
LEMMA BlocksAlone ==
    ASSUME NEW m, NEW A, NEW W, Sound(m, A, W),
           NEW m2, DOMAIN m2 = DOMAIN m, m2.blocks = m.blocks, m2.made = m.made,
           IsSeq(m2.funs), Len(m.funs) <= Len(m2.funs)
    PROVE  Sound(m2, A, W) /\ Grows(m, A, W, m2, A, W)
<1>1. Len(m.funs) \in Nat /\ Len(m2.funs) \in Nat
  BY LenProperties DEF Sound, IsSeq
<1>2. \A b : Of(m2, b) = Of(m, b)
  BY DEF Of
<1>3. \A e : First(m2, e) <=> First(m, e)
  BY <1>2 DEF First
<1>4. ASSUME NEW b, NEW k, NEW i PROVE Fed(m2, A, W, b, k, i) <=> Fed(m, A, W, b, k, i)
  BY DEF Fed, Of
<1>5. ASSUME NEW b \in 1 .. Len(m.blocks) PROVE SoundBlock(m2, A, W, b)
  <2>1. SoundBlock(m, A, W, b)
    BY DEF Sound
  <2>2. Of(m2, b) \in 1 .. Len(m2.funs)
    BY <1>1, <1>2, <2>1 DEF SoundBlock
  <2> QED
    BY <1>2, <1>3, <1>4, <2>1, <2>2 DEF SoundBlock
<1>6. \A id \in 1 .. m.made : Placed(m2, W, id)
  BY DEF Sound, Placed
<1>7. Sound(m2, A, W)
  BY <1>5, <1>6 DEF Sound
<1>8. Grows(m, A, W, m2, A, W)
  BY <1>2, SoundNumbers DEF Grows
<1> QED
  BY <1>7, <1>8

(* A[b] for the blocks up to n, and T for those to come.                   *)
Label(A, n, T) == [b \in Nat |-> IF b <= n THEN A[b] ELSE T]

(* m2 is m with a new block of function f behind the blocks T.             *)
Opened(m, A, W, f, T, m2, A2) ==
    /\ Sound(m2, A2, W) /\ Grows(m, A, W, m2, A2, W)
    /\ Len(m2.blocks) = Len(m.blocks) + 1
    /\ A2[Len(m.blocks) + 1] = T /\ Of(m2, Len(m.blocks) + 1) = f
    /\ m2.at = m.at /\ m2.funs = m.funs /\ m2.last = m.last
    /\ T = {} => First(m2, Len(m.blocks) + 1)

(* It may be the first block of its function, or one behind another.       *)
MayOpen(m, A, f, T) ==
    /\ f \in 1 .. Len(m.funs)
    /\ \/ T = {} /\ \A b \in 1 .. Len(m.blocks) : Of(m, b) # f
       \/ \E b \in 1 .. Len(m.blocks) : Of(m, b) = f /\ Past(A, b) \subseteq T

(* NewBlock makes it.                                                      *)
LEMMA BlockSound ==
    ASSUME NEW m, NEW A, NEW W, Sound(m, A, W), NEW f, NEW T, MayOpen(m, A, f, T)
    PROVE  Opened(m, A, W, f, T, Gen!NewBlock(m, f), Label(A, Len(m.blocks), T))
<1> DEFINE m2 == Gen!NewBlock(m, f)
           n  == Len(m.blocks)
           A2 == Label(A, n, T)
           x  == [fn |-> f, code |-> <<>>]
<1>0. /\ f \in 1 .. Len(m.funs)
      /\ \/ T = {} /\ \A b \in 1 .. n : Of(m, b) # f
         \/ \E b \in 1 .. n : Of(m, b) = f /\ Past(A, b) \subseteq T
  BY DEF MayOpen
<1>1. n \in Nat /\ m.made \in Nat /\ IsSeq(m.blocks)
      /\ DOMAIN m = {"funs", "blocks", "at", "made", "last", "undef"}
  BY SoundNumbers DEF Sound
<1>2. /\ m2.blocks = Append(m.blocks, x) /\ m2.at = m.at /\ m2.funs = m.funs
      /\ m2.last = m.last /\ m2.made = m.made /\ DOMAIN m2 = DOMAIN m
  BY <1>1 DEF Gen!NewBlock
<1>3. x.fn = f /\ x.code = <<>> /\ DOMAIN x = {"fn", "code"}
  OBVIOUS
<1> HIDE DEF m2, x
<1>4. /\ IsSeq(m2.blocks) /\ Len(m2.blocks) = n + 1
      /\ \A b \in 1 .. n : m2.blocks[b] = m.blocks[b]
      /\ m2.blocks[n + 1] = x
  BY <1>1, <1>2, AppendFacts
<1>5. (\A b \in 1 .. n : Of(m2, b) = Of(m, b)) /\ Of(m2, n + 1) = f
  BY <1>3, <1>4 DEF Of
<1>6. (\A b \in 1 .. n : A2[b] = A[b]) /\ A2[n + 1] = T
  BY <1>1 DEF Label
<1> HIDE DEF A2
<1>7. \A b \in 1 .. n : b \in 1 .. n + 1
  BY <1>1
<1>8. \A e \in 1 .. n : First(m2, e) <=> First(m, e)
  <2> TAKE e \in 1 .. n
  <2>1. \A d \in 1 .. (e - 1) : d \in 1 .. n
    BY <1>1
  <2> QED
    BY <1>4, <1>5, <1>7, <2>1 DEF First
<1>9. Grows(m, A, W, m2, A2, W)
  BY <1>1, <1>2, <1>4, <1>5, <1>6 DEF Grows
<1>10. \A id \in 1 .. m.made : Placed(m2, W, id) /\ W[id] \in 1 .. n
  BY <1>4, <1>7 DEF Sound, Placed
<1>11. ASSUME NEW b \in 1 .. n PROVE SoundBlock(m2, A2, W, b)
  <2>1. SoundBlock(m, A, W, b) /\ m2.blocks[b] = m.blocks[b]
    BY <1>4 DEF Sound
  <2>2. \E e \in Past(A2, b) : First(m2, e) /\ Of(m2, e) = Of(m2, b)
    <3>1. PICK e \in Past(A, b) : First(m, e) /\ Of(m, e) = Of(m, b)
      BY <2>1 DEF SoundBlock
    <3>2. e \in 1 .. n /\ e \in Past(A2, b)
      BY <1>6, <3>1 DEF First, Past
    <3> QED
      BY <1>5, <1>8, <3>1, <3>2
  <2>3. ASSUME NEW k \in DOMAIN m.blocks[b].code, NEW i \in DOMAIN m.blocks[b].code[k].args
        PROVE  Fed(m2, A2, W, b, k, i)
    <3>1. Fed(m, A, W, b, k, i)
      BY <2>1 DEF SoundBlock
    <3>2. \A c \in 1 .. n : Past(A2, c) = Past(A, c)
      BY <1>6 DEF Past
    <3>3. \A id \in 1 .. m.made : Of(m2, W[id]) = Of(m, W[id])
      BY <1>5, <1>10
    <3> QED
      BY <1>2, <1>4, <1>5, <1>6, <1>7, <2>1, <3>1, <3>2, <3>3 DEF Fed
  <2>4. \A c \in Goals(m2.blocks[b].code) :
            c \in 1 .. Len(m2.blocks) /\ A2[c] \subseteq Past(A2, b)
    <3> TAKE c \in Goals(m2.blocks[b].code)
    <3>1. c \in 1 .. n /\ A[c] \subseteq Past(A, b)
      BY <2>1 DEF SoundBlock
    <3> QED
      BY <1>4, <1>6, <1>7, <3>1 DEF Past
  <2>5. First(m2, b) => A2[b] = {}
    BY <1>6, <1>8, <2>1 DEF SoundBlock
  <2>6. Of(m2, b) \in 1 .. Len(m2.funs)
    BY <1>2, <1>5, <2>1 DEF SoundBlock
  <2> QED
    BY <1>2, <2>1, <2>2, <2>3, <2>4, <2>5, <2>6 DEF SoundBlock
<1>12. /\ \E e \in Past(A2, n + 1) : First(m2, e) /\ Of(m2, e) = Of(m2, n + 1)
       /\ First(m2, n + 1) => A2[n + 1] = {}
       /\ T = {} => First(m2, n + 1)
  <2>1. CASE T = {} /\ \A b \in 1 .. n : Of(m, b) # f
    <3>1. n + 1 \in 1 .. n + 1 /\ \A c \in 1 .. ((n + 1) - 1) : c \in 1 .. n
      BY <1>1
    <3>2. First(m2, n + 1)
      BY <1>4, <1>5, <2>1, <3>1 DEF First
    <3> QED
      BY <1>6, <2>1, <3>2 DEF Past
  <2>2. CASE \E b \in 1 .. n : Of(m, b) = f /\ Past(A, b) \subseteq T
    <3>1. PICK b \in 1 .. n : Of(m, b) = f /\ Past(A, b) \subseteq T
      BY <2>2
    <3>2. PICK e \in Past(A, b) : First(m, e) /\ Of(m, e) = Of(m, b)
      BY DEF Sound, SoundBlock
    <3>3. e \in 1 .. n /\ e \in T /\ e \in Past(A2, n + 1)
      BY <1>6, <3>1, <3>2 DEF First, Past
    <3>4. First(m2, e) /\ Of(m2, e) = Of(m2, n + 1)
      BY <1>5, <1>8, <3>1, <3>2, <3>3
    <3>5. e \in 1 .. ((n + 1) - 1)
      BY <1>1, <3>3
    <3>6. ~ First(m2, n + 1)
      BY <3>4, <3>5 DEF First
    <3> QED
      BY <3>3, <3>4, <3>6
  <2> QED
    BY <1>0, <2>1, <2>2
<1>13. SoundBlock(m2, A2, W, n + 1)
  <2> DEFINE none == <<>>
  <2>1. IsSeq(none) /\ DOMAIN none = {}
    BY EmptyIsSeq
  <2>2. m2.blocks[n + 1].code = none /\ DOMAIN m2.blocks[n + 1] = {"fn", "code"}
    BY <1>3, <1>4
  <2> HIDE DEF none
  <2>3. Goals(none) = {}
    BY <2>1 DEF Goals
  <2>4. Of(m2, n + 1) \in 1 .. Len(m2.funs)
    BY <1>0, <1>2, <1>5
  <2> QED
    BY <1>12, <2>1, <2>2, <2>3, <2>4 DEF SoundBlock
<1>14. \A b \in 1 .. Len(m2.blocks) : b \in 1 .. n \/ b = n + 1
  BY <1>1, <1>4
<1>15. Sound(m2, A2, W)
  BY <1>1, <1>2, <1>4, <1>10, <1>11, <1>13, <1>14 DEF Sound
<1> QED
  BY <1>2, <1>4, <1>5, <1>6, <1>9, <1>12, <1>15 DEF Opened, m2, A2

-----------------------------------------------------------------------------
(* Building in a block.                                                    *)

(* The same block goes on.                                                 *)
Runs(m, A, W, f, m2, W2) ==
    /\ Here(m2, A, W2, f)
    /\ Grows(m, A, W, m2, A, W2)
    /\ m2.at = m.at /\ Len(m2.blocks) = Len(m.blocks) /\ m2.funs = m.funs

(* ... and goes on again.                                                  *)
LEMMA RunsOn ==
    ASSUME NEW m, NEW A, NEW W, NEW f, Here(m, A, W, f),
           NEW m2, NEW W2, Runs(m, A, W, f, m2, W2),
           NEW m3, NEW W3, Runs(m2, A, W2, f, m3, W3)
    PROVE  Runs(m, A, W, f, m3, W3)
<1>1. Grows(m, A, W, m3, A, W3)
  BY GrowsOn DEF Runs, Here
<1> QED
  BY <1>1 DEF Runs

(* A value that was computed where the block is is still computed there.   *)
LEMMA RunsWithin ==
    ASSUME NEW m, NEW A, NEW W, NEW f, Here(m, A, W, f),
           NEW m2, NEW W2, Runs(m, A, W, f, m2, W2),
           NEW v, NEW S, NEW g, Within(m, W, v, S, g)
    PROVE  Within(m2, W2, v, S, g)
BY WithinKept DEF Runs, Here

(* An instruction at the insertion point.                                  *)
LEMMA EmitSound ==
    ASSUME NEW m, NEW A, NEW W, NEW f, Here(m, A, W, f),
           NEW op, NEW type, NEW args, NEW to,
           \A i \in DOMAIN args :
               IF op = "phi"
               THEN /\ Gen!Kind(args[i]) = "inst" => to[i] \in 1 .. Len(m.blocks)
                    /\ Within(m, W, args[i], Past(A, to[i]), f)
               ELSE Within(m, W, args[i], Past(A, m.at), f),
           op \in Gen!Terminators =>
               \A i \in DOMAIN to :
                   to[i] \in 1 .. Len(m.blocks) /\ A[to[i]] \subseteq Past(A, m.at)
    PROVE  \E W2 : /\ Runs(m, A, W, f, Gen!Emit(m, op, type, args, to), W2)
                   /\ Within(Gen!Emit(m, op, type, args, to), W2,
                             Gen!Emit(m, op, type, args, to).last, Past(A, m.at), f)
<1> DEFINE ins == [id |-> m.made + 1, op |-> op, type |-> type, args |-> args, to |-> to]
           m2 == Gen!Emit(m, op, type, args, to)
           a == m.at
           code == m.blocks[a].code
           code2 == Append(code, ins)
           W2 == Add(W, m.made + 1, a)
<1>1. /\ Sound(m, A, W) /\ a \in 1 .. Len(m.blocks) /\ Of(m, a) = f
      /\ DOMAIN m = {"funs", "blocks", "at", "made", "last", "undef"}
      /\ SoundBlock(m, A, W, a) /\ m.made \in Nat
  BY DEF Here, Sound
<1>2. /\ ins.id = m.made + 1 /\ ins.op = op /\ ins.args = args /\ ins.to = to
  OBVIOUS
<1>3. /\ DOMAIN m2 = DOMAIN m
      /\ m2.blocks = [m.blocks EXCEPT ![a].code = code2]
      /\ m2.at = m.at /\ m2.made = m.made + 1 /\ m2.funs = m.funs
      /\ m2.last = Gen!Result(type, m.made + 1)
  BY <1>1 DEF Gen!Emit
<1> HIDE DEF ins, m2
<1>4. OneMore(code, ins, 0, code2)
  BY <1>1, OneBehind DEF SoundBlock
<1>5. Feeds(m, A, W, ins, a)
  BY <1>1, <1>2 DEF Feeds
<1>6. ins.op \in Gen!Terminators =>
          \A c \in Goal(ins) : c \in 1 .. Len(m.blocks) /\ A[c] \subseteq Past(A, a)
  BY <1>2 DEF Goal
<1> HIDE DEF code2, code, a
<1>7. Sound(m2, A, W2) /\ Grows(m, A, W, m2, A, W2)
  <2>1. OneMore(m.blocks[a].code, ins, 0, code2)
    BY <1>4 DEF code
  <2>2. DOMAIN ins.args # {} => 0 = 0
    OBVIOUS
  <2>3. Sound(m, A, W) /\ a \in 1 .. Len(m.blocks)
    BY <1>1 DEF a
  <2> HIDE DEF W2
  <2>4. Insertion(m, A, W, a, ins, 0, code2, m2)
    BY <1>2, <1>3, <1>5, <1>6, <2>1, <2>2, <2>3 DEF Insertion
  <2>5. Sound(m2, A, Add(W, m.made + 1, a)) /\ Grows(m, A, W, m2, A, Add(W, m.made + 1, a))
    BY <2>3, <2>4, Inserted
  <2> QED
    BY <2>5 DEF W2
<1>8. W2[m.made + 1] = a /\ m.made + 1 \in 1 .. m2.made
  BY <1>1, <1>3 DEF Add
<1> HIDE DEF W2
<1>9. Len(m2.blocks) = Len(m.blocks)
  <2>1. m2.blocks = [m.blocks EXCEPT ![a] = [m.blocks[a] EXCEPT !.code = code2]]
    BY <1>3
  <2> QED
    BY <1>1, <2>1, ExceptFacts DEF Sound
<1>10. Runs(m, A, W, f, m2, W2)
  <2>1. m2.at \in 1 .. Len(m2.blocks) /\ Of(m2, m2.at) = f
    BY <1>1, <1>3, <1>7, <1>9 DEF Grows, a
  <2> QED
    BY <1>3, <1>7, <1>9, <2>1 DEF Runs, Here
<1>11. Gen!Detail(m2.last) = m.made + 1
  BY <1>3 DEF Gen!Detail, Gen!Result, Value, Data, Gen!Value, Gen!Data
<1>12. Within(m2, W2, m2.last, Past(A, a), f)
  BY <1>8, <1>11 DEF Within, Past
<1> QED
  BY <1>10, <1>12 DEF m2, a

(* Constants, arguments and addresses are not computed.                    *)
LEMMA NotComputed ==
    /\ \A t, d : Gen!Kind(Gen!Constant(t, d)) # "inst"
    /\ \A t, i : Gen!Kind(Gen!Argument(t, i)) # "inst"
    /\ \A f : Gen!Kind(Gen!FunctionPtr(f)) # "inst"
    /\ \A s : Gen!Kind(Gen!StringPtr(s)) # "inst"
    /\ \A t : Gen!Kind(Gen!NullPtr(t)) # "inst"
    /\ Gen!Kind(Gen!NullValue) # "inst"
BY DEF Gen!Kind, Gen!Constant, Gen!Argument, Gen!FunctionPtr, Gen!StringPtr,
       Gen!NullPtr, Gen!NullValue, Gen!Value, Gen!Data, Value, Data

(* Anywhere a value that is not computed will do.                          *)
LEMMA WithinAlways ==
    ASSUME NEW v, Gen!Kind(v) # "inst", NEW m, NEW W, NEW S, NEW f
    PROVE  Within(m, W, v, S, f) /\ Fixed(m, W, v) /\ Known(m, v)
BY DEF Within, Fixed, Known

(* Operations that are not folded are instructions.                        *)
LEMMA BuildSound ==
    ASSUME NEW m, NEW A, NEW W, NEW f, Here(m, A, W, f),
           NEW op, op # "phi", op \notin Gen!Terminators, NEW type, NEW args,
           \A i \in DOMAIN args : Within(m, W, args[i], Past(A, m.at), f)
    PROVE  \E W2 : /\ Runs(m, A, W, f, Gen!Build(m, op, type, args), W2)
                   /\ Within(Gen!Build(m, op, type, args), W2,
                             Gen!Build(m, op, type, args).last, Past(A, m.at), f)
<1> DEFINE d  == IF Gen!Compute(op, type, args) = {} THEN 0
                 ELSE CHOOSE d \in Gen!Compute(op, type, args) : TRUE
           m2 == [m EXCEPT !.last = Gen!Constant(type, d)]
           folds == Gen!Defined(m, op, type, args) /\ Gen!Folds(op, type, args)
           none == <<>>
<1>1. Gen!Build(m, op, type, args) = IF folds THEN m2 ELSE Gen!Emit(m, op, type, args, none)
  BY DEF Gen!Build
<1> HIDE DEF d, folds
<1>2. CASE folds
  <2>1. /\ DOMAIN m2 = DOMAIN m /\ m2.blocks = m.blocks /\ m2.made = m.made
        /\ m2.funs = m.funs /\ m2.at = m.at /\ m2.last = Gen!Constant(type, d)
    BY DEF Here, Sound
  <2> HIDE DEF m2
  <2>2. Sound(m, A, W) /\ IsSeq(m2.funs) /\ Len(m.funs) <= Len(m2.funs)
    BY <2>1, SoundNumbers DEF Here, Sound
  <2>3. Sound(m2, A, W) /\ Grows(m, A, W, m2, A, W)
    BY <2>1, <2>2, BlocksAlone
  <2>4. Runs(m, A, W, f, m2, W)
    BY <2>1, <2>3 DEF Runs, Here, Of
  <2>5. Within(m2, W, m2.last, Past(A, m.at), f)
    BY <2>1, NotComputed, WithinAlways
  <2> QED
    BY <1>1, <1>2, <2>4, <2>5
<1>3. CASE ~ folds
  <2> HIDE DEF none, m2
  <2>1. \E W2 : /\ Runs(m, A, W, f, Gen!Emit(m, op, type, args, none), W2)
                /\ Within(Gen!Emit(m, op, type, args, none), W2,
                          Gen!Emit(m, op, type, args, none).last, Past(A, m.at), f)
    BY EmitSound
  <2> QED
    BY <1>1, <1>3, <2>1
<1> QED
  BY <1>2, <1>3

(* The entry block of a function is the first one made in it.              *)
LEMMA EntryFirst ==
    ASSUME NEW m, NEW A, NEW W, Sound(m, A, W), NEW b \in 1 .. Len(m.blocks)
    PROVE  /\ First(m, Gen!EntryBlock(m, Of(m, b)))
           /\ Of(m, Gen!EntryBlock(m, Of(m, b))) = Of(m, b)
<1> DEFINE f == Of(m, b)
<1>1. DOMAIN m.blocks = 1 .. Len(m.blocks)
  BY LenProperties DEF Sound, IsSeq
<1>2. PICK e : First(m, e) /\ Of(m, e) = f
  BY DEF Sound, SoundBlock
<1>3. e \in DOMAIN m.blocks /\ m.blocks[e].fn = f /\ \A c \in 1 .. (e - 1) : m.blocks[c].fn # f
  BY <1>1, <1>2 DEF First, Of
<1> DEFINE x == Gen!EntryBlock(m, f)
<1> HIDE DEF f
<1>4. x \in DOMAIN m.blocks /\ m.blocks[x].fn = f /\ \A c \in 1 .. (x - 1) : m.blocks[c].fn # f
  BY <1>3 DEF Gen!EntryBlock
<1> HIDE DEF x
<1>5. First(m, x) /\ Of(m, x) = f
  BY <1>1, <1>4 DEF First, Of
<1> QED
  BY <1>5 DEF x, f

(* A slot is made in the entry block.                                      *)
LEMMA AllocaSound ==
    ASSUME NEW m, NEW A, NEW W, NEW f, Here(m, A, W, f), NEW type
    PROVE  \E W2 : /\ Runs(m, A, W, f, Gen!Alloca(m, f, type), W2)
                   /\ Fixed(Gen!Alloca(m, f, type), W2, Gen!Alloca(m, f, type).last)
<1> DEFINE ins == [id |-> m.made + 1, op |-> "alloca", type |-> type,
                   args |-> <<>>, to |-> <<>>]
           m2 == Gen!Alloca(m, f, type)
           a == Gen!EntryBlock(m, f)
           code == m.blocks[a].code
           code2 == <<ins>> \o code
           W2 == Add(W, m.made + 1, a)
<1>1. /\ Sound(m, A, W) /\ m.at \in 1 .. Len(m.blocks) /\ Of(m, m.at) = f
      /\ DOMAIN m = {"funs", "blocks", "at", "made", "last", "undef"}
      /\ m.made \in Nat
  BY DEF Here, Sound
<1>2. First(m, a) /\ a \in 1 .. Len(m.blocks)
  BY <1>1, EntryFirst DEF First
<1>3. /\ ins.id = m.made + 1 /\ ins.op = "alloca" /\ ins.args = <<>>
  OBVIOUS
<1>4. /\ DOMAIN m2 = DOMAIN m
      /\ m2.blocks = [m.blocks EXCEPT ![a].code = code2]
      /\ m2.at = m.at /\ m2.made = m.made + 1 /\ m2.funs = m.funs
      /\ m2.last = Gen!Result(Gen!Ptr, m.made + 1)
  BY <1>1 DEF Gen!Alloca
<1> HIDE DEF ins, m2, a
<1>5. SoundBlock(m, A, W, a)
  BY <1>1, <1>2 DEF Sound
<1>6. OneMore(code, ins, 1, code2)
  BY <1>5, OneInFront DEF SoundBlock
<1>7. DOMAIN ins.args = {}
  BY <1>3, EmptyIsSeq
<1>8. Feeds(m, A, W, ins, a) /\ ins.op \notin Gen!Terminators
  BY <1>3, <1>7 DEF Feeds, Gen!Terminators
<1> HIDE DEF code2, code
<1>9. Sound(m2, A, W2) /\ Grows(m, A, W, m2, A, W2)
  <2>1. OneMore(m.blocks[a].code, ins, 1, code2)
    BY <1>6 DEF code
  <2>2. DOMAIN ins.args # {} => 1 = 0
    BY <1>7
  <2>3. ins.op \in Gen!Terminators =>
            \A c \in Goal(ins) : c \in 1 .. Len(m.blocks) /\ A[c] \subseteq Past(A, a)
    BY <1>8
  <2> HIDE DEF W2
  <2>4. Insertion(m, A, W, a, ins, 1, code2, m2)
    BY <1>2, <1>3, <1>4, <1>8, <2>1, <2>2, <2>3 DEF Insertion
  <2>5. Sound(m2, A, Add(W, m.made + 1, a)) /\ Grows(m, A, W, m2, A, Add(W, m.made + 1, a))
    BY <1>1, <2>4, Inserted
  <2> QED
    BY <2>5 DEF W2
<1>10. W2[m.made + 1] = a /\ m.made + 1 \in 1 .. m2.made
  BY <1>1, <1>4 DEF Add
<1> HIDE DEF W2
<1>11. Len(m2.blocks) = Len(m.blocks)
  <2>1. m2.blocks = [m.blocks EXCEPT ![a] = [m.blocks[a] EXCEPT !.code = code2]]
    BY <1>4
  <2> QED
    BY <1>1, <1>2, <2>1, ExceptFacts DEF Sound
<1>12. Runs(m, A, W, f, m2, W2)
  <2>1. m2.at \in 1 .. Len(m2.blocks) /\ Of(m2, m2.at) = f
    BY <1>1, <1>4, <1>9, <1>11 DEF Grows
  <2> QED
    BY <1>4, <1>9, <1>11, <2>1 DEF Runs, Here
<1>13. Gen!Detail(m2.last) = m.made + 1
  BY <1>4 DEF Gen!Detail, Gen!Result, Value, Data, Gen!Value, Gen!Data
<1>14. Fixed(m2, W2, m2.last)
  BY <1>1, <1>2, <1>9, <1>10, <1>13, FirstKept DEF Fixed
<1> QED
  BY <1>12, <1>14 DEF m2

-----------------------------------------------------------------------------
(* Building on, in this block or in one behind it.                         *)

(* The generator goes on behind all it has passed.                         *)
Leads(m, A, W, f, m2, A2, W2) ==
    /\ Here(m2, A2, W2, f)
    /\ Grows(m, A, W, m2, A2, W2)
    /\ Past(A, m.at) \subseteq Past(A2, m2.at)

(* Value v has been computed at the insertion point.                       *)
Ready(m, A, W, f, v) == Within(m, W, v, Past(A, m.at), f)

(* In the same block it does.                                              *)
LEMMA RunsLeads ==
    ASSUME NEW m, NEW A, NEW W, NEW f, NEW m2, NEW W2, Runs(m, A, W, f, m2, W2)
    PROVE  Leads(m, A, W, f, m2, A, W2)
BY DEF Runs, Leads

(* Where nothing is built it does.                                         *)
LEMMA LeadsNot ==
    ASSUME NEW m, NEW A, NEW W, NEW f, Here(m, A, W, f)
    PROVE  Leads(m, A, W, f, m, A, W)
BY GrowsNot DEF Leads, Here

(* ... and it goes on again.                                               *)
LEMMA LeadsOn ==
    ASSUME NEW m, NEW A, NEW W, NEW f, Here(m, A, W, f),
           NEW m2, NEW A2, NEW W2, Leads(m, A, W, f, m2, A2, W2),
           NEW m3, NEW A3, NEW W3, Leads(m2, A2, W2, f, m3, A3, W3)
    PROVE  Leads(m, A, W, f, m3, A3, W3)
<1>1. Grows(m, A, W, m3, A3, W3)
  BY GrowsOn DEF Leads, Here
<1> QED
  BY <1>1 DEF Leads

(* What has been computed has been computed.                               *)
LEMMA LeadsReady ==
    ASSUME NEW m, NEW A, NEW W, NEW f, Here(m, A, W, f),
           NEW m2, NEW A2, NEW W2, Leads(m, A, W, f, m2, A2, W2),
           NEW v, Ready(m, A, W, f, v)
    PROVE  Ready(m2, A2, W2, f, v)
BY WithinKept DEF Leads, Here, Ready

(* A value of the entry block has.                                         *)
LEMMA FixedReady ==
    ASSUME NEW m, NEW A, NEW W, NEW f, Here(m, A, W, f), NEW v, Fixed(m, W, v)
    PROVE  Ready(m, A, W, f, v)
BY FixedWithin DEF Here, Ready

(* The insertion point is set.                                             *)
LEMMA PointSound ==
    ASSUME NEW m, NEW A, NEW W, Sound(m, A, W), NEW b \in 1 .. Len(m.blocks)
    PROVE  LET m2 == Gen!SetInsertPoint(m, b)
           IN  /\ Here(m2, A, W, Of(m, b)) /\ Grows(m, A, W, m2, A, W)
               /\ m2.at = b /\ Len(m2.blocks) = Len(m.blocks) /\ m2.funs = m.funs
               /\ \A c : Of(m2, c) = Of(m, c)
<1> DEFINE m2 == Gen!SetInsertPoint(m, b)
<1>1. /\ DOMAIN m2 = DOMAIN m /\ m2.blocks = m.blocks /\ m2.made = m.made
      /\ m2.funs = m.funs /\ m2.at = b
  BY DEF Gen!SetInsertPoint, Sound
<1> HIDE DEF m2
<1>2. IsSeq(m2.funs) /\ Len(m.funs) <= Len(m2.funs)
  BY <1>1, SoundNumbers DEF Sound
<1>3. Sound(m2, A, W) /\ Grows(m, A, W, m2, A, W)
  BY <1>1, <1>2, BlocksAlone
<1>4. Here(m2, A, W, Of(m, b)) /\ \A c : Of(m2, c) = Of(m, c)
  BY <1>1, <1>3 DEF Here, Of
<1> QED
  BY <1>1, <1>3, <1>4 DEF m2

(* The builder is asked for a value that is there.                         *)
LEMMA LastSound ==
    ASSUME NEW m, NEW A, NEW W, NEW f, Here(m, A, W, f), NEW v
    PROVE  /\ Runs(m, A, W, f, [m EXCEPT !.last = v], W)
           /\ [m EXCEPT !.last = v].last = v
<1> DEFINE m2 == [m EXCEPT !.last = v]
<1>1. /\ DOMAIN m2 = DOMAIN m /\ m2.blocks = m.blocks /\ m2.made = m.made
      /\ m2.funs = m.funs /\ m2.at = m.at /\ m2.last = v
  BY DEF Here, Sound
<1> HIDE DEF m2
<1>2. Sound(m, A, W) /\ IsSeq(m2.funs) /\ Len(m.funs) <= Len(m2.funs)
  BY <1>1, SoundNumbers DEF Here, Sound
<1>3. Sound(m2, A, W) /\ Grows(m, A, W, m2, A, W)
  BY <1>1, <1>2, BlocksAlone
<1>4. Runs(m, A, W, f, m2, W)
  BY <1>1, <1>3 DEF Runs, Here, Of
<1> QED
  BY <1>1, <1>4 DEF m2

(* An instruction that is neither a phi nor a terminator.                  *)
LEMMA PlainSound ==
    ASSUME NEW m, NEW A, NEW W, NEW f, Here(m, A, W, f),
           NEW op, op # "phi", op \notin Gen!Terminators, NEW type, NEW args,
           \A i \in DOMAIN args : Ready(m, A, W, f, args[i]), NEW to
    PROVE  \E W2 : /\ Runs(m, A, W, f, Gen!Emit(m, op, type, args, to), W2)
                   /\ Ready(Gen!Emit(m, op, type, args, to), A, W2, f,
                            Gen!Emit(m, op, type, args, to).last)
<1> DEFINE m2 == Gen!Emit(m, op, type, args, to)
<1>1. PICK W2 : Runs(m, A, W, f, m2, W2) /\ Within(m2, W2, m2.last, Past(A, m.at), f)
  BY EmitSound DEF Ready
<1> HIDE DEF m2
<1>2. Ready(m2, A, W2, f, m2.last)
  BY <1>1 DEF Ready, Runs
<1> QED
  BY <1>1, <1>2 DEF m2

(* The result of an operation.                                             *)
LEMMA BuildReady ==
    ASSUME NEW m, NEW A, NEW W, NEW f, Here(m, A, W, f),
           NEW op, op # "phi", op \notin Gen!Terminators, NEW type, NEW args,
           \A i \in DOMAIN args : Ready(m, A, W, f, args[i])
    PROVE  \E W2 : /\ Runs(m, A, W, f, Gen!Build(m, op, type, args), W2)
                   /\ Ready(Gen!Build(m, op, type, args), A, W2, f,
                            Gen!Build(m, op, type, args).last)
<1> DEFINE m2 == Gen!Build(m, op, type, args)
<1>1. PICK W2 : Runs(m, A, W, f, m2, W2) /\ Within(m2, W2, m2.last, Past(A, m.at), f)
  BY BuildSound DEF Ready
<1> HIDE DEF m2
<1>2. Ready(m2, A, W2, f, m2.last)
  BY <1>1 DEF Ready, Runs
<1> QED
  BY <1>1, <1>2 DEF m2

(* A store, and a load.                                                    *)
LEMMA StoreSound ==
    ASSUME NEW m, NEW A, NEW W, NEW f, Here(m, A, W, f),
           NEW v, Ready(m, A, W, f, v), NEW slot, Ready(m, A, W, f, slot)
    PROVE  \E W2 : Runs(m, A, W, f, Gen!Store(m, v, slot), W2)
<1> DEFINE args == <<v, slot>>
<1>1. \A i \in DOMAIN args : Ready(m, A, W, f, args[i])
  OBVIOUS
<1>2. "store" # "phi" /\ "store" \notin Gen!Terminators
  BY DEF Gen!Terminators
<1>3. Gen!Store(m, v, slot) = Gen!Emit(m, "store", Gen!Void, args, <<>>)
  BY DEF Gen!Store
<1> HIDE DEF args
<1> DEFINE none == <<>>
<1> HIDE DEF none
<1>4. \E W2 : Runs(m, A, W, f, Gen!Emit(m, "store", Gen!Void, args, none), W2)
  BY <1>1, <1>2, PlainSound
<1> QED
  BY <1>3, <1>4 DEF none

(* A load may use any slot that is ready, and its result is ready.         *)
LEMMA LoadSound ==
    ASSUME NEW m, NEW A, NEW W, NEW f, Here(m, A, W, f),
           NEW slot, Ready(m, A, W, f, slot), NEW type
    PROVE  \E W2 : /\ Runs(m, A, W, f, Gen!Load(m, type, slot), W2)
                   /\ Ready(Gen!Load(m, type, slot), A, W2, f, Gen!Load(m, type, slot).last)
<1> DEFINE args == <<slot>>
           none == <<>>
<1>1. \A i \in DOMAIN args : Ready(m, A, W, f, args[i])
  OBVIOUS
<1>2. "load" # "phi" /\ "load" \notin Gen!Terminators
  BY DEF Gen!Terminators
<1>3. Gen!Load(m, type, slot) = Gen!Emit(m, "load", type, args, none)
  BY DEF Gen!Load
<1> HIDE DEF args, none
<1> QED
  BY <1>1, <1>2, <1>3, PlainSound

(* Terminators: a branch, a conditional one, and a return.                 *)
LEMMA BrSound ==
    ASSUME NEW m, NEW A, NEW W, NEW f, Here(m, A, W, f),
           NEW b \in 1 .. Len(m.blocks), A[b] \subseteq Past(A, m.at)
    PROVE  \E W2 : Runs(m, A, W, f, Gen!Br(m, b), W2)
<1> DEFINE none == <<>>
           to == <<b>>
<1>1. DOMAIN none = {}
  BY EmptyIsSeq
<1>2. \A i \in DOMAIN to : to[i] = b
  OBVIOUS
<1>3. Gen!Br(m, b) = Gen!Emit(m, "br", Gen!Void, none, to)
  BY DEF Gen!Br
<1> HIDE DEF none, to
<1>4. \A i \in DOMAIN to : to[i] \in 1 .. Len(m.blocks) /\ A[to[i]] \subseteq Past(A, m.at)
  BY <1>2
<1>5. \E W2 : Runs(m, A, W, f, Gen!Emit(m, "br", Gen!Void, none, to), W2)
  BY <1>1, <1>4, EmitSound
<1> QED
  BY <1>3, <1>5

(* A conditional branch, to two blocks like that.                          *)
LEMMA CondBrSound ==
    ASSUME NEW m, NEW A, NEW W, NEW f, Here(m, A, W, f), NEW v, Ready(m, A, W, f, v),
           NEW b \in 1 .. Len(m.blocks), A[b] \subseteq Past(A, m.at),
           NEW c \in 1 .. Len(m.blocks), A[c] \subseteq Past(A, m.at)
    PROVE  \E W2 : Runs(m, A, W, f, Gen!CondBr(m, v, b, c), W2)
<1> DEFINE args == <<v>>
           to == <<b, c>>
<1>1. \A i \in DOMAIN args : Ready(m, A, W, f, args[i])
  OBVIOUS
<1>2. \A i \in DOMAIN to : to[i] = b \/ to[i] = c
  OBVIOUS
<1>3. Gen!CondBr(m, v, b, c) = Gen!Emit(m, "condbr", Gen!Void, args, to)
  BY DEF Gen!CondBr
<1> HIDE DEF args, to
<1>4. \A i \in DOMAIN to : to[i] \in 1 .. Len(m.blocks) /\ A[to[i]] \subseteq Past(A, m.at)
  BY <1>2
<1>5. \E W2 : Runs(m, A, W, f, Gen!Emit(m, "condbr", Gen!Void, args, to), W2)
  BY <1>1, <1>4, EmitSound DEF Ready
<1> QED
  BY <1>3, <1>5

(* A return, of any values that are ready.                                 *)
LEMMA RetSound ==
    ASSUME NEW m, NEW A, NEW W, NEW f, Here(m, A, W, f), NEW args,
           \A i \in DOMAIN args : Ready(m, A, W, f, args[i])
    PROVE  \E W2 : Runs(m, A, W, f, Gen!Emit(m, "ret", Gen!Void, args, <<>>), W2)
<1> DEFINE none == <<>>
<1>1. DOMAIN none = {}
  BY EmptyIsSeq
<1> HIDE DEF none
<1>2. \E W2 : Runs(m, A, W, f, Gen!Emit(m, "ret", Gen!Void, args, none), W2)
  BY <1>1, EmitSound DEF Ready
<1> QED
  BY <1>2 DEF none

(* A trap.                                                                 *)
LEMMA TrapSound ==
    ASSUME NEW m, NEW A, NEW W, NEW f, Here(m, A, W, f)
    PROVE  \E W2 : Runs(m, A, W, f, Gen!Trap(m), W2)
<1> DEFINE none == <<>>
           m1 == Gen!Emit(m, "trap", Gen!Void, none, none)
           m2 == Gen!Emit(m1, "unreachable", Gen!Void, none, none)
<1>1. Gen!Trap(m) = m2
  BY DEF Gen!Trap
<1>2. DOMAIN none = {}
  BY EmptyIsSeq
<1> HIDE DEF none
<1>3. PICK W1 : Runs(m, A, W, f, m1, W1)
  BY <1>2, EmitSound
<1> HIDE DEF m1
<1>4. Here(m1, A, W1, f)
  BY <1>3 DEF Runs
<1>5. PICK W2 : Runs(m1, A, W1, f, m2, W2)
  BY <1>2, <1>4, EmitSound
<1> HIDE DEF m2
<1> QED
  BY <1>1, <1>3, <1>5, RunsOn

-----------------------------------------------------------------------------
(* Opening blocks.                                                         *)

(* m2 has k more blocks of f, each behind what has been passed.            *)
Opens(m, A, W, f, k, m2, A2) ==
    /\ Here(m2, A2, W, f)
    /\ Grows(m, A, W, m2, A2, W)
    /\ Len(m2.blocks) = Len(m.blocks) + k
    /\ m2.at = m.at /\ m2.last = m.last
    /\ \A b \in Len(m.blocks) + 1 .. Len(m.blocks) + k :
           A2[b] = Past(A, m.at) /\ Of(m2, b) = f

(* None yet.                                                               *)
LEMMA OpensNone ==
    ASSUME NEW m, NEW A, NEW W, NEW f, Here(m, A, W, f)
    PROVE  Opens(m, A, W, f, 0, m, A)
<1>1. Len(m.blocks) \in Nat /\ Grows(m, A, W, m, A, W)
  BY SoundNumbers, GrowsNot DEF Here
<1> QED
  BY <1>1 DEF Opens

(* One more.                                                               *)
LEMMA OpensMore ==
    ASSUME NEW m, NEW A, NEW W, NEW f, Here(m, A, W, f),
           NEW k \in Nat, NEW m2, NEW A2, Opens(m, A, W, f, k, m2, A2)
    PROVE  /\ Gen!LastBlock(m2) = Len(m.blocks) + k
           /\ \E A3 : Opens(m, A, W, f, k + 1, Gen!NewBlock(m2, f), A3)
<1> DEFINE n  == Len(m.blocks)
           n2 == Len(m2.blocks)
           m3 == Gen!NewBlock(m2, f)
           T  == Past(A, m.at)
           A3 == Label(A2, n2, T)
<1>1. /\ Sound(m2, A2, W) /\ m2.at = m.at /\ Of(m2, m.at) = f /\ Grows(m, A, W, m2, A2, W)
      /\ n \in Nat /\ n2 = n + k /\ m.at \in 1 .. n /\ m.at \in 1 .. n2
      /\ m2.last = m.last
      /\ \A b \in n + 1 .. n + k : A2[b] = T /\ Of(m2, b) = f
  BY SoundNumbers DEF Here, Opens
<1>2. Past(A2, m.at) = T
  BY <1>1 DEF Grows, Past
<1>3. f \in 1 .. Len(m2.funs)
  BY <1>1 DEF Sound, SoundBlock
<1>4. \E b \in 1 .. n2 : Of(m2, b) = f /\ Past(A2, b) \subseteq T
  BY <1>1, <1>2
<1>12. MayOpen(m2, A2, f, T)
  BY <1>3, <1>4 DEF MayOpen
<1>13. Opened(m2, A2, W, f, T, m3, A3)
  BY <1>1, <1>12, BlockSound
<1> HIDE DEF m3, A3, T
<1>5. /\ Sound(m3, A3, W) /\ Grows(m2, A2, W, m3, A3, W)
      /\ Len(m3.blocks) = n2 + 1
      /\ A3[n2 + 1] = T /\ Of(m3, n2 + 1) = f
      /\ m3.at = m2.at /\ m3.last = m2.last
  BY <1>13 DEF Opened
<1> HIDE DEF n
<1>6. Grows(m, A, W, m3, A3, W)
  BY <1>1, <1>5, GrowsOn DEF Here
<1>14. k \in Nat /\ n \in Nat /\ n2 = n + k /\ Len(m3.blocks) = n2 + 1
  BY <1>1, <1>5
<1> HIDE DEF n2
<1>7. Len(m3.blocks) = n + (k + 1) /\ n2 + 1 = n + (k + 1)
  BY <1>14
<1>8. ASSUME NEW b \in n + 1 .. n + (k + 1) PROVE A3[b] = T /\ Of(m3, b) = f
  <2>1. CASE b = n2 + 1
    BY <1>5, <2>1
  <2>2. CASE b # n2 + 1
    <3>1. b \in n + 1 .. n + k /\ b \in 1 .. n2
      BY <1>14, <2>2
    <3>2. A3[b] = A2[b] /\ Of(m3, b) = Of(m2, b)
      BY <1>5, <3>1 DEF Grows, n2
    <3> QED
      BY <1>1, <3>1, <3>2
  <2> QED
    BY <2>1, <2>2
<1>9. Here(m3, A3, W, f)
  <2>1. m3.at \in 1 .. n2 /\ m3.at \in 1 .. Len(m3.blocks)
    BY <1>1, <1>5, <1>14
  <2>2. Of(m3, m3.at) = f
    BY <1>1, <1>5, <2>1 DEF Grows, n2
  <2> QED
    BY <1>5, <2>1, <2>2 DEF Here
<1>10. Opens(m, A, W, f, k + 1, m3, A3)
  BY <1>1, <1>5, <1>6, <1>7, <1>8, <1>9 DEF Opens, T, n
<1>11. Gen!LastBlock(m2) = n + k
  BY <1>1 DEF Gen!LastBlock, n2
<1> QED
  BY <1>10, <1>11 DEF m3, n

(* Two blocks.                                                             *)
LEMMA OpensTwo ==
    ASSUME NEW m, NEW A, NEW W, NEW f, Here(m, A, W, f)
    PROVE  \E A2 : Opens(m, A, W, f, 2, Gen!NewBlock(Gen!NewBlock(m, f), f), A2)
<1>1. \E A1 : Opens(m, A, W, f, 0 + 1, Gen!NewBlock(m, f), A1)
  BY OpensNone, OpensMore
<1>2. PICK A1 : Opens(m, A, W, f, 1, Gen!NewBlock(m, f), A1)
  BY <1>1
<1> DEFINE m1 == Gen!NewBlock(m, f)
<1> HIDE DEF m1
<1>3. Opens(m, A, W, f, 1, m1, A1)
  BY <1>2 DEF m1
<1>4. \E A2 : Opens(m, A, W, f, 1 + 1, Gen!NewBlock(m1, f), A2)
  BY <1>3, OpensMore
<1> QED
  BY <1>4 DEF m1

(* What has been computed before a block was opened has been at its point. *)
LEMMA OpensFacts ==
    ASSUME NEW m, NEW A, NEW W, NEW f, Here(m, A, W, f),
           NEW k \in Nat, NEW m2, NEW A2, Opens(m, A, W, f, k, m2, A2)
    PROVE  /\ Leads(m, A, W, f, m2, A2, W)
           /\ Past(A2, m2.at) = Past(A, m.at)
           /\ Len(m.blocks) \in Nat
           /\ \A b \in Len(m.blocks) + 1 .. Len(m.blocks) + k :
                  b \in 1 .. Len(m2.blocks) /\ A2[b] \subseteq Past(A2, m2.at)
<1>1. Past(A2, m2.at) = Past(A, m.at)
  BY DEF Opens, Grows, Past, Here
<1>2. Leads(m, A, W, f, m2, A2, W)
  BY <1>1 DEF Opens, Leads
<1>3. Len(m.blocks) \in Nat
  BY SoundNumbers DEF Here
<1> QED
  BY <1>1, <1>2, <1>3 DEF Opens

(* The insertion point moves to a block behind this one.                   *)
LEMMA PointLeads ==
    ASSUME NEW m, NEW A, NEW W, NEW f, Here(m, A, W, f),
           NEW b \in 1 .. Len(m.blocks), Of(m, b) = f,
           NEW P, P \subseteq Past(A, b)
    PROVE  /\ Here(Gen!SetInsertPoint(m, b), A, W, f)
           /\ Grows(m, A, W, Gen!SetInsertPoint(m, b), A, W)
           /\ P \subseteq Past(A, Gen!SetInsertPoint(m, b).at)
           /\ Gen!SetInsertPoint(m, b).at = b
           /\ Len(Gen!SetInsertPoint(m, b).blocks) = Len(m.blocks)
           /\ \A c : Of(Gen!SetInsertPoint(m, b), c) = Of(m, c)
BY PointSound DEF Here

(* A check goes on behind it, in the first of two new blocks.              *)
LEMMA CheckSound ==
    ASSUME NEW m, NEW A, NEW W, NEW f, Here(m, A, W, f), NEW n, n = Len(m.blocks),
           NEW v, Ready(m, A, W, f, v),
           NEW x \in {n + 1, n + 2}, NEW y \in {n + 1, n + 2}
    PROVE  \E A2, W2 :
               Leads(m, A, W, f,
                     Gen!SetInsertPoint(
                         Gen!Trap(Gen!SetInsertPoint(
                             Gen!CondBr(Gen!NewBlock(Gen!NewBlock(m, f), f), v, x, y),
                             n + 2)),
                         n + 1), A2, W2)
<1> DEFINE m1 == Gen!NewBlock(Gen!NewBlock(m, f), f)
           m2 == Gen!CondBr(m1, v, x, y)
           m3 == Gen!SetInsertPoint(m2, n + 2)
           m4 == Gen!Trap(m3)
           m5 == Gen!SetInsertPoint(m4, n + 1)
<1>1. PICK A2 : Opens(m, A, W, f, 2, m1, A2)
  BY OpensTwo
<1> HIDE DEF m1
<1>2. /\ Leads(m, A, W, f, m1, A2, W) /\ n \in Nat /\ Len(m1.blocks) = n + 2
      /\ \A b \in n + 1 .. n + 2 :
             /\ b \in 1 .. Len(m1.blocks) /\ A2[b] \subseteq Past(A2, m1.at)
             /\ A2[b] = Past(A, m.at) /\ Of(m1, b) = f
  BY <1>1, OpensFacts DEF Opens
<1>3. Here(m1, A2, W, f) /\ Ready(m1, A2, W, f, v)
  BY <1>2, LeadsReady DEF Leads
<1>4. n + 1 \in n + 1 .. n + 2 /\ n + 2 \in n + 1 .. n + 2
      /\ x \in n + 1 .. n + 2 /\ y \in n + 1 .. n + 2
  BY <1>2
<1>5. PICK W2 : Runs(m1, A2, W, f, m2, W2)
  BY <1>2, <1>3, <1>4, CondBrSound
<1> HIDE DEF m2
<1>6. /\ Here(m2, A2, W2, f) /\ Len(m2.blocks) = n + 2
      /\ \A b \in n + 1 .. n + 2 : b \in 1 .. Len(m2.blocks) /\ Of(m2, b) = f
      /\ Grows(m1, A2, W, m2, A2, W2)
  BY <1>2, <1>5 DEF Runs, Grows
<1>7. Here(m3, A2, W2, f) /\ Grows(m2, A2, W2, m3, A2, W2) /\ Len(m3.blocks) = n + 2
      /\ \A c : Of(m3, c) = Of(m2, c)
  BY <1>4, <1>6, PointLeads
<1> HIDE DEF m3
<1>8. PICK W4 : Runs(m3, A2, W2, f, m4, W4)
  BY <1>7, TrapSound
<1> HIDE DEF m4
<1>9. /\ Here(m4, A2, W4, f) /\ Grows(m3, A2, W2, m4, A2, W4)
      /\ n + 1 \in 1 .. Len(m4.blocks) /\ Of(m4, n + 1) = f
  BY <1>2, <1>4, <1>6, <1>7, <1>8 DEF Runs, Grows
<1>10. Past(A, m.at) \subseteq Past(A2, n + 1)
  BY <1>2, <1>4 DEF Past
<1>11. /\ Here(m5, A2, W4, f) /\ Grows(m4, A2, W4, m5, A2, W4)
       /\ Past(A, m.at) \subseteq Past(A2, m5.at)
  BY <1>9, <1>10, PointLeads
<1> HIDE DEF m5
<1>12. Grows(m, A, W, m5, A2, W4)
  <2>1. Sound(m, A, W) /\ Sound(m1, A2, W) /\ Sound(m2, A2, W2) /\ Sound(m3, A2, W2)
        /\ Sound(m4, A2, W4) /\ Sound(m5, A2, W4)
    BY <1>3, <1>6, <1>7, <1>9, <1>11 DEF Here
  <2>2. Grows(m, A, W, m2, A2, W2)
    BY <1>2, <1>6, <2>1, GrowsOn DEF Leads
  <2>3. Grows(m, A, W, m3, A2, W2)
    BY <1>7, <2>1, <2>2, GrowsOn
  <2>4. Grows(m, A, W, m4, A2, W4)
    BY <1>9, <2>1, <2>3, GrowsOn
  <2> QED
    BY <1>11, <2>1, <2>4, GrowsOn
<1>13. Leads(m, A, W, f, m5, A2, W4)
  BY <1>11, <1>12 DEF Leads
<1> QED
  BY <1>13 DEF m5, m4, m3, m2, m1

(* What follows a return is behind it, whatever leads there.               *)
LEMMA UnreachableSound ==
    ASSUME NEW m, NEW A, NEW W, Here(m, A, W, fun.fn)
    PROVE  \E A2 : Leads(m, A, W, fun.fn, Gen!Unreachable(m), A2, W)
<1> DEFINE b == Gen!NewBlock(m, fun.fn)
           n == Len(m.blocks)
           m2 == Gen!SetInsertPoint(b, n + 1)
<1>1. \E A2 : Opens(m, A, W, fun.fn, 0 + 1, b, A2)
  BY OpensNone, OpensMore
<1>2. PICK A2 : Opens(m, A, W, fun.fn, 1, b, A2)
  BY <1>1
<1>3. /\ Here(b, A2, W, fun.fn) /\ Grows(m, A, W, b, A2, W) /\ n \in Nat
      /\ Len(b.blocks) = n + 1 /\ A2[n + 1] = Past(A, m.at) /\ Of(b, n + 1) = fun.fn
  <2>1. n \in Nat
    BY SoundNumbers DEF Here
  <2>2. n + 1 \in n + 1 .. n + 1
    BY <2>1
  <2> HIDE DEF b
  <2> QED
    BY <1>2, <2>1, <2>2 DEF Opens
<1>4. Gen!Unreachable(m) = m2
  BY <1>3 DEF Gen!Unreachable, Gen!LastBlock
<1> HIDE DEF b
<1>5. n + 1 \in 1 .. Len(b.blocks) /\ Past(A, m.at) \subseteq Past(A2, n + 1)
  BY <1>3 DEF Past
<1>6. /\ Here(m2, A2, W, fun.fn) /\ Grows(b, A2, W, m2, A2, W)
      /\ Past(A, m.at) \subseteq Past(A2, m2.at)
  BY <1>3, <1>5, PointLeads
<1> HIDE DEF m2
<1>7. Grows(m, A, W, m2, A2, W)
  BY <1>3, <1>6, GrowsOn DEF Here
<1> QED
  BY <1>4, <1>6, <1>7 DEF Leads

-----------------------------------------------------------------------------
(* What the visitors of expressions build.                                 *)

(* An operand is converted, or taken as it is.                             *)
LEMMA PromotedSound ==
    ASSUME NEW m, NEW A, NEW W, NEW f, Here(m, A, W, f),
           NEW v, Ready(m, A, W, f, v), NEW fp
    PROVE  \E W2 : /\ Runs(m, A, W, f, Gen!Promoted(m, v, fp), W2)
                   /\ Ready(Gen!Promoted(m, v, fp), A, W2, f, Gen!Promoted(m, v, fp).last)
<1> DEFINE m1 == [m EXCEPT !.last = v]
           args == <<v>>
           type == Gen!PrimType("float")
           m2 == Gen!Build(m, "tofloat", type, args)
<1>1. Gen!Promoted(m, v, fp) = m1 \/ Gen!Promoted(m, v, fp) = m2
  BY DEF Gen!Promoted
<1>2. "tofloat" # "phi" /\ "tofloat" \notin Gen!Terminators
  BY DEF Gen!Terminators
<1>3. \A i \in DOMAIN args : Ready(m, A, W, f, args[i])
  OBVIOUS
<1>4. Runs(m, A, W, f, m1, W) /\ m1.last = v
  BY LastSound
<1> HIDE DEF m1, args, type
<1>5. Ready(m1, A, W, f, m1.last)
  BY <1>4, RunsLeads, LeadsReady
<1>6. \E W2 : Runs(m, A, W, f, m2, W2) /\ Ready(m2, A, W2, f, m2.last)
  BY <1>2, <1>3, BuildReady
<1> HIDE DEF m2
<1> QED
  BY <1>1, <1>4, <1>5, <1>6

(* The check of a divisor.                                                 *)
LEMMA GuardSound ==
    ASSUME NEW m, NEW A, NEW W, Here(m, A, W, fun.fn),
           NEW r, Ready(m, A, W, fun.fn, r)
    PROVE  \E A2, W2 : Leads(m, A, W, fun.fn, Gen!GuardDivision(m, r), A2, W2)
<1> DEFINE n    == Len(m.blocks)
           type == Gen!PrimType("bool")
           zero0 == Gen!Constant(Gen!Tid(r), 0)
           args == <<r, zero0>>
           zero == Gen!Build(m, "==", type, args)
           v    == zero.last
           m2   == Gen!SetInsertPoint(
                       Gen!Trap(Gen!SetInsertPoint(
                           Gen!CondBr(Gen!NewBlock(Gen!NewBlock(zero, fun.fn), fun.fn),
                                      v, n + 2, n + 1),
                           n + 2)),
                       n + 1)
<1>1. "==" # "phi" /\ "==" \notin Gen!Terminators
  BY DEF Gen!Terminators
<1>2. Ready(m, A, W, fun.fn, zero0)
  BY NotComputed, WithinAlways DEF Ready
<1>3. n \in Nat /\ (n + 1) + 1 = n + 2 /\ Gen!LastBlock(m) = n
  BY SoundNumbers DEF Here, Gen!LastBlock
<1>4. Gen!GuardDivision(m, r) = m2
  BY <1>3 DEF Gen!GuardDivision
<1> HIDE DEF zero0
<1>5. \A i \in DOMAIN args : Ready(m, A, W, fun.fn, args[i])
  BY <1>2
<1> HIDE DEF args, type
<1>6. PICK W1 : Runs(m, A, W, fun.fn, zero, W1) /\ Ready(zero, A, W1, fun.fn, v)
  BY <1>1, <1>5, BuildReady
<1> HIDE DEF v, zero
<1>7. Here(zero, A, W1, fun.fn) /\ Len(zero.blocks) = n
  BY <1>6 DEF Runs
<1> HIDE DEF n
<1>8. n + 1 \in {n + 1, n + 2} /\ n + 2 \in {n + 1, n + 2}
  OBVIOUS
<1>9. PICK A2, W2 : Leads(zero, A, W1, fun.fn, m2, A2, W2)
  BY <1>6, <1>7, <1>8, CheckSound
<1> HIDE DEF m2
<1> QED
  BY <1>4, <1>6, <1>9, RunsLeads, LeadsOn

(* An operator on two values.                                              *)
LEMMA OperatorSound ==
    ASSUME NEW A, NEW W, Here(ir, A, W, fun.fn), Gen!N.op \in BinaryOps,
           NEW l, Ready(ir, A, W, fun.fn, l), NEW r, Ready(ir, A, W, fun.fn, r)
    PROVE  \E A2, W2 :
               /\ Leads(ir, A, W, fun.fn, Gen!ApplyBinOp(l, r), A2, W2)
               /\ Ready(Gen!ApplyBinOp(l, r), A2, W2, fun.fn, Gen!ApplyBinOp(l, r).last)
<1> DEFINE f    == fun.fn
           fp   == Gen!PrimType("float") \in {Gen!Tid(l), Gen!Tid(r)}
           left == Gen!Promoted(ir, l, fp)
           both == Gen!Promoted(left, r, fp)
           div  == Gen!GuardDivision(both, r)
           args == <<left.last, both.last>>
           type == Gen!ResultType(Gen!N.op, fp)
           mine == IF Gen!N.op \in {"/", "%"} /\ ~ fp THEN div ELSE both
           m    == Gen!Build(mine, Gen!N.op, type, args)
<1>1. Gen!N.op \notin Gen!Terminators /\ Gen!N.op # "phi"
  BY DEF BinaryOps, ArithmeticOps, Gen!Terminators
<1>2. Gen!ApplyBinOp(l, r) = m
  BY DEF Gen!ApplyBinOp
<1> HIDE DEF fp, type
<1>3. PICK W1 : Runs(ir, A, W, f, left, W1) /\ Ready(left, A, W1, f, left.last)
  BY PromotedSound
<1> HIDE DEF left
<1>4. Leads(ir, A, W, f, left, A, W1) /\ Here(left, A, W1, f) /\ Ready(left, A, W1, f, r)
  <2>1. Leads(ir, A, W, f, left, A, W1)
    BY <1>3, RunsLeads
  <2> QED
    BY <2>1, LeadsReady DEF Leads
<1>5. PICK W2 : Runs(left, A, W1, f, both, W2) /\ Ready(both, A, W2, f, both.last)
  BY <1>4, PromotedSound
<1> HIDE DEF both
<1>6. /\ Leads(ir, A, W, f, both, A, W2) /\ Here(both, A, W2, f)
      /\ Ready(both, A, W2, f, r) /\ Ready(both, A, W2, f, left.last)
  <2>1. Leads(left, A, W1, f, both, A, W2)
    BY <1>5, RunsLeads
  <2> QED
    BY <1>3, <1>4, <2>1, LeadsOn, LeadsReady DEF Leads
<1>7. PICK A3, W3 : Leads(both, A, W2, f, mine, A3, W3)
  <2>1. \E A3, W3 : Leads(both, A, W2, f, div, A3, W3)
    BY <1>6, GuardSound
  <2>2. Leads(both, A, W2, f, both, A, W2)
    BY <1>6, LeadsNot
  <2> HIDE DEF div
  <2> QED
    BY <2>1, <2>2
<1> HIDE DEF mine
<1>8. /\ Here(mine, A3, W3, f) /\ Leads(ir, A, W, f, mine, A3, W3)
      /\ Ready(mine, A3, W3, f, left.last) /\ Ready(mine, A3, W3, f, both.last)
  BY <1>5, <1>6, <1>7, LeadsOn, LeadsReady DEF Leads
<1>9. \A i \in DOMAIN args : Ready(mine, A3, W3, f, args[i])
  BY <1>8
<1> HIDE DEF args
<1> DEFINE op == Gen!N.op
<1>10. op \notin Gen!Terminators /\ op # "phi" /\ m = Gen!Build(mine, op, type, args)
  BY <1>1
<1> HIDE DEF op, m
<1>11. PICK W4 : Runs(mine, A3, W3, f, m, W4) /\ Ready(m, A3, W4, f, m.last)
  <2>1. \E W4 : /\ Runs(mine, A3, W3, f, Gen!Build(mine, op, type, args), W4)
                /\ Ready(Gen!Build(mine, op, type, args), A3, W4, f,
                         Gen!Build(mine, op, type, args).last)
    BY <1>8, <1>9, <1>10, BuildReady
  <2> QED
    BY <1>10, <2>1
<1>12. Leads(ir, A, W, f, m, A3, W4)
  BY <1>8, <1>11, RunsLeads, LeadsOn
<1> QED
  BY <1>2, <1>11, <1>12

(* An element of an array, behind the check of its index.                  *)
LEMMA ElementSound ==
    ASSUME NEW A, NEW W, Here(ir, A, W, fun.fn),
           NEW array, Ready(ir, A, W, fun.fn, array),
           NEW index, Ready(ir, A, W, fun.fn, index)
    PROVE  \E A2, W2 :
               /\ Leads(ir, A, W, fun.fn, Gen!Indexed(array, index), A2, W2)
               /\ Ready(Gen!Indexed(array, index), A2, W2, fun.fn,
                        Gen!Indexed(array, index).last)
<1> DEFINE f     == fun.fn
           n     == Len(ir.blocks)
           type  == notes[Gen!N.kids[1]]
           int1  == Gen!PrimType("bool")
           limit == Gen!Constant(Gen!PrimType("int"), type[3])
           range == <<index, limit>>
           m1    == Gen!Build(ir, "inrange", int1, range)
           v     == m1.last
           m2    == Gen!SetInsertPoint(
                        Gen!Trap(Gen!SetInsertPoint(
                            Gen!CondBr(Gen!NewBlock(Gen!NewBlock(m1, fun.fn), fun.fn),
                                       v, n + 1, n + 2),
                            n + 2)),
                        n + 1)
           m3    == Gen!Alloca(m2, fun.fn, type)
           slot  == m3.last
           m4    == Gen!Store(m3, array, slot)
           place == <<slot, index>>
           m5    == Gen!Build(m4, "gep", Gen!Ptr, place)
           elem  == Gen!LLVMType(type[2])
           m6    == Gen!Load(m5, elem, m5.last)
<1>1. /\ "inrange" \notin Gen!Terminators /\ "gep" \notin Gen!Terminators
      /\ "inrange" # "phi" /\ "gep" # "phi"
  BY DEF Gen!Terminators
<1>2. n \in Nat /\ (n + 1) + 1 = n + 2 /\ Gen!LastBlock(ir) = n
  BY SoundNumbers DEF Here, Gen!LastBlock
<1>3. Gen!Indexed(array, index) = m6
  BY <1>2 DEF Gen!Indexed
<1>4. Ready(ir, A, W, f, limit)
  BY NotComputed, WithinAlways DEF Ready
<1> HIDE DEF limit
<1>5. \A i \in DOMAIN range : Ready(ir, A, W, f, range[i])
  BY <1>4
<1> HIDE DEF type, range, int1, elem
<1>6. PICK W1 : Runs(ir, A, W, f, m1, W1) /\ Ready(m1, A, W1, f, v)
  BY <1>1, <1>5, BuildReady
<1> HIDE DEF v, m1
<1>7. /\ Here(m1, A, W1, f) /\ Len(m1.blocks) = n /\ Leads(ir, A, W, f, m1, A, W1)
      /\ n + 1 \in {n + 1, n + 2} /\ n + 2 \in {n + 1, n + 2}
  BY <1>6, RunsLeads DEF Runs
<1> HIDE DEF n
<1>8. PICK A2, W2 : Leads(m1, A, W1, f, m2, A2, W2)
  BY <1>6, <1>7, CheckSound
<1> HIDE DEF m2
<1>9. Leads(ir, A, W, f, m2, A2, W2) /\ Here(m2, A2, W2, f)
  BY <1>7, <1>8, LeadsOn DEF Leads
<1>10. PICK W3 : Runs(m2, A2, W2, f, m3, W3) /\ Fixed(m3, W3, slot)
  BY <1>9, AllocaSound
<1> HIDE DEF m3, slot
<1>11. /\ Leads(ir, A, W, f, m3, A2, W3) /\ Here(m3, A2, W3, f)
       /\ Ready(m3, A2, W3, f, array) /\ Ready(m3, A2, W3, f, slot)
  <2>1. Leads(ir, A, W, f, m3, A2, W3)
    BY <1>9, <1>10, RunsLeads, LeadsOn
  <2> QED
    BY <1>10, <2>1, LeadsReady, FixedReady DEF Leads
<1>12. PICK W4 : Runs(m3, A2, W3, f, m4, W4)
  BY <1>11, StoreSound
<1> HIDE DEF m4
<1>13. /\ Leads(ir, A, W, f, m4, A2, W4) /\ Here(m4, A2, W4, f)
       /\ Ready(m4, A2, W4, f, index) /\ Ready(m4, A2, W4, f, slot)
  <2>1. Leads(m3, A2, W3, f, m4, A2, W4)
    BY <1>12, RunsLeads
  <2>2. Leads(ir, A, W, f, m4, A2, W4)
    BY <1>11, <2>1, LeadsOn
  <2> QED
    BY <1>11, <2>1, <2>2, LeadsReady DEF Leads
<1>14. \A i \in DOMAIN place : Ready(m4, A2, W4, f, place[i])
  BY <1>13
<1> HIDE DEF place
<1>15. PICK W5 : Runs(m4, A2, W4, f, m5, W5) /\ Ready(m5, A2, W5, f, m5.last)
  BY <1>1, <1>13, <1>14, BuildReady
<1> HIDE DEF m5
<1>16. Leads(ir, A, W, f, m5, A2, W5) /\ Here(m5, A2, W5, f)
  BY <1>13, <1>15, RunsLeads, LeadsOn DEF Leads
<1>17. PICK W6 : Runs(m5, A2, W5, f, m6, W6) /\ Ready(m6, A2, W6, f, m6.last)
  BY <1>15, <1>16, LoadSound
<1> HIDE DEF m6
<1>18. Leads(ir, A, W, f, m6, A2, W6)
  BY <1>16, <1>17, RunsLeads, LeadsOn
<1> QED
  BY <1>3, <1>17, <1>18

(* A condition.                                                            *)
LEMMA ConditionSound ==
    ASSUME NEW A, NEW W, Here(ir, A, W, fun.fn), NEW v, Ready(ir, A, W, fun.fn, v)
    PROVE  \E W2 : /\ Runs(ir, A, W, fun.fn, Gen!ToBool(v), W2)
                   /\ Ready(Gen!ToBool(v), A, W2, fun.fn, Gen!ToBool(v).last)
<1> DEFINE m1 == [ir EXCEPT !.last = v]
           args == <<v>>
           type == Gen!PrimType("bool")
           m2 == Gen!Build(ir, "nonnull", type, args)
<1>1. Gen!ToBool(v) = m1 \/ Gen!ToBool(v) = m2
  BY DEF Gen!ToBool
<1>2. "nonnull" # "phi" /\ "nonnull" \notin Gen!Terminators
  BY DEF Gen!Terminators
<1>3. \A i \in DOMAIN args : Ready(ir, A, W, fun.fn, args[i])
  OBVIOUS
<1>4. Runs(ir, A, W, fun.fn, m1, W) /\ m1.last = v
  BY LastSound
<1> HIDE DEF m1, args, type
<1>5. Ready(m1, A, W, fun.fn, m1.last)
  BY <1>4, RunsLeads, LeadsReady
<1>6. \E W2 : Runs(ir, A, W, fun.fn, m2, W2) /\ Ready(m2, A, W2, fun.fn, m2.last)
  BY <1>2, <1>3, BuildReady
<1> HIDE DEF m2
<1> QED
  BY <1>1, <1>4, <1>5, <1>6

-----------------------------------------------------------------------------
(* What a growing module means for the visitors on the stack.              *)

(* What a visitor keeps it keeps.                                          *)
LEMMA KeepsKept ==
    ASSUME NEW m, NEW A, NEW W, Sound(m, A, W),
           NEW m2, NEW A2, NEW W2, Sound(m2, A2, W2), Grows(m, A, W, m2, A2, W2),
           NEW f, NEW S, NEW g, NEW S2, NEW g2, Keeps(f, S, g, S2, g2, m, A, W)
    PROVE  Keeps(f, S, g, S2, g2, m2, A2, W2)
<1>1. \A b \in 1 .. Len(m.blocks) :
          b \in 1 .. Len(m2.blocks) /\ Of(m2, b) = Of(m, b) /\ A2[b] = A[b]
  BY SoundNumbers DEF Grows
<1>2. \A b \in Dues(f) : /\ b \in 1 .. Len(m2.blocks) /\ Of(m2, b) = g
                         /\ S \subseteq A2[b] /\ A2[b] \subseteq S2
  BY <1>1 DEF Keeps, Locals
<1>3. Branches(f) => A2[f.own.merge] \subseteq A2[f.own.next]
  <2> SUFFICES ASSUME Branches(f) PROVE A2[f.own.merge] \subseteq A2[f.own.next]
    OBVIOUS
  <2>1. ~ Joins(f) /\ ~ Chooses(f)
    BY DEF Branches, Joins, Chooses, Connects, Keeps
  <2>2. f.own.merge \in Dues(f) /\ f.own.next \in Dues(f)
    BY <2>1 DEF Dues
  <2> QED
    BY <1>1, <2>2 DEF Keeps, Locals
<1>4. Tests(f) => /\ A2[f.own.cond] \subseteq A2[f.own.cond + 1]
                  /\ A2[f.own.cond + 2] \subseteq A2[f.own.cond + 1]
  <2> SUFFICES ASSUME Tests(f)
               PROVE  /\ A2[f.own.cond] \subseteq A2[f.own.cond + 1]
                      /\ A2[f.own.cond + 2] \subseteq A2[f.own.cond + 1]
    OBVIOUS
  <2>1. ~ Joins(f) /\ ~ Chooses(f) /\ ~ Branches(f)
    BY DEF Branches, Joins, Chooses, Connects, Tests
  <2>2. f.own.cond \in Dues(f) /\ f.own.cond + 1 \in Dues(f) /\ f.own.cond + 2 \in Dues(f)
    BY <2>1 DEF Dues
  <2>3. \A b \in Dues(f) : A2[b] = A[b]
    BY <1>1 DEF Keeps, Locals
  <2>4. /\ A2[f.own.cond] = A[f.own.cond] /\ A2[f.own.cond + 1] = A[f.own.cond + 1]
        /\ A2[f.own.cond + 2] = A[f.own.cond + 2]
    BY <2>2, <2>3
  <2> QED
    BY <2>4 DEF Keeps, Locals
<1>5. \A v \in Held(f) : Within(m2, W2, v, S2, g2)
  <2> TAKE v \in Held(f)
  <2>1. Within(m, W, v, S2, g2) /\ S2 \subseteq S2
    BY DEF Keeps, Locals
  <2> QED
    BY <2>1, WithinKept
<1>6. Locals(f, S, g, S2, g2, m2, A2, W2)
  BY <1>2, <1>3, <1>4, <1>5 DEF Keeps, Locals
<1>7. CASE Generates(f)
  <2>1. f.own.at \in 1 .. Len(m.blocks) /\ Returning(m, A, W, f.own.fun)
    BY <1>7 DEF Keeps
  <2>2. Returning(m2, A2, W2, f.own.fun)
    BY <2>1, ReturningKept
  <2>3. Past(A2, f.own.at) = Past(A, f.own.at)
    BY <1>1, <2>1 DEF Past
  <2> QED
    BY <1>1, <1>6, <1>7, <2>1, <2>2, <2>3 DEF Keeps
<1>8. CASE ~ Generates(f)
  BY <1>6, <1>8 DEF Keeps
<1> QED
  BY <1>7, <1>8

(* So do all that are on the stack.                                        *)
LEMMA TrailKept ==
    ASSUME NEW m, NEW A, NEW W, Sound(m, A, W),
           NEW m2, NEW A2, NEW W2, Sound(m2, A2, W2), Grows(m, A, W, m2, A2, W2),
           NEW s, NEW E, NEW G, NEW H, NEW H2, Widens(H, H2), Trail(s, E, G, H, m, A, W)
    PROVE  Trail(s, E, G, H2, m2, A2, W2)
<1>1. ASSUME NEW i \in 1 .. Len(s)
      PROVE  Keeps(s[i], E[i], G[i], E[i + 1], G[i + 1], m2, A2, W2)
  <2>1. Keeps(s[i], E[i], G[i], E[i + 1], G[i + 1], m, A, W)
    BY DEF Trail
  <2> QED
    BY <2>1, KeepsKept
<1>2. ASSUME NEW i \in 1 .. Len(s)
      PROVE  Assigns(s[i], H2)
  BY DEF Trail, Assigns, Widens
<1> QED
  BY <1>1, <1>2 DEF Trail

(* The stack t has a trail that ends behind the blocks P in function h.     *)
Tracked(t, P, h, H, m, A, W) ==
    \E E, G : /\ Trail(t, E, G, H, m, A, W)
              /\ E[Len(t) + 1] = P
              /\ G[Len(t) + 1] = h

(* A visitor waits for one that begins.                                    *)
LEMMA TrailPushed ==
    ASSUME NEW s, s # <<>>, NEW E, NEW G, NEW H, NEW m, NEW A, NEW W,
           Trail(s, E, G, H, m, A, W),
           NEW f, NEW g, NEW P, NEW h,
           Keeps(f, E[Len(s)], G[Len(s)], P, h, m, A, W), Assigns(f, H), Follows(f, g),
           f.node = s[Len(s)].node, g.node \in Node, g.pc = 0
    PROVE  Tracked(PushOver(s, f, g), P, h, H, m, A, W)
<1> DEFINE L  == Len(s)
           t  == PushOver(s, f, g)
           E2 == [i \in Nat |-> IF i <= L THEN E[i] ELSE P]
           G2 == [i \in Nat |-> IF i <= L THEN G[i] ELSE h]
<1>1. IsSeq(s)
  BY DEF Trail
<1>2. /\ L \in Nat \ {0} /\ IsSeq(t) /\ Len(t) = L + 1
      /\ \A i \in 1 .. L - 1 : t[i] = s[i]
      /\ t[L] = f /\ t[L + 1] = g
  BY <1>1, PushFacts
<1> HIDE DEF t
<1>3. /\ \A i \in 1 .. L : E2[i] = E[i] /\ G2[i] = G[i]
      /\ E2[L + 1] = P /\ G2[L + 1] = h /\ E2[L + 2] = P /\ G2[L + 2] = h
  BY <1>2
<1> HIDE DEF E2, G2
<1>4. Keeps(g, P, h, P, h, m, A, W)
  <2>1. /\ ~ Generates(g) /\ ~ Joins(g) /\ ~ Branches(g) /\ ~ Chooses(g)
        /\ ~ Tests(g) /\ ~ Repeats(g)
    BY DEF Generates, Joins, Branches, Chooses, Tests, Repeats
  <2>2. Dues(g) = {} /\ Held(g) = {}
    BY <2>1 DEF Dues, Held
  <2>3. g.pc \in Nat /\ g.pc <= Len(Ast[g.node].kids)
    BY SyntaxAssumption, LenProperties
  <2> QED
    BY <2>1, <2>2, <2>3 DEF Keeps, Locals
<1>5. Assigns(g, H)
  BY DEF Assigns
<1>6. /\ \A i \in 1 .. L : Keeps(s[i], E[i], G[i], E[i + 1], G[i + 1], m, A, W)
      /\ \A i \in 1 .. L : Assigns(s[i], H)
      /\ \A i \in 1 .. L - 1 : Follows(s[i], s[i + 1])
  BY DEF Trail
<1>7. Keeps(f, E[L], G[L], P, h, m, A, W) /\ f.node = s[L].node
  OBVIOUS
<1> HIDE DEF L
<1>8. \A i \in 1 .. L - 1 : i \in 1 .. L /\ i + 1 \in 1 .. L
  BY <1>2
<1>9. \A i \in 1 .. L + 1 : i \in 1 .. L - 1 \/ i = L \/ i = L + 1
  BY <1>2
<1>10. ASSUME NEW i \in 1 .. Len(t)
       PROVE  Keeps(t[i], E2[i], G2[i], E2[i + 1], G2[i + 1], m, A, W) /\ Assigns(t[i], H)
  <2>1. CASE i \in 1 .. L - 1
    <3>1. /\ t[i] = s[i] /\ E2[i] = E[i] /\ E2[i + 1] = E[i + 1]
          /\ G2[i] = G[i] /\ G2[i + 1] = G[i + 1]
      BY <1>2, <1>3, <1>8, <2>1
    <3> QED
      BY <1>6, <1>8, <2>1, <3>1
  <2>2. CASE i = L
    <3>1. /\ t[i] = f /\ E2[i] = E[L] /\ E2[i + 1] = P
          /\ G2[i] = G[L] /\ G2[i + 1] = h
      BY <1>2, <1>3, <2>2
    <3> QED
      BY <1>7, <3>1
  <2>3. CASE i = L + 1
    <3>1. /\ t[i] = g /\ E2[i] = P /\ E2[i + 1] = P
          /\ G2[i] = h /\ G2[i + 1] = h
      BY <1>2, <1>3, <2>3
    <3> QED
      BY <1>4, <1>5, <3>1
  <2> QED
    BY <1>2, <1>9, <2>1, <2>2, <2>3
<1>11. ASSUME NEW i \in 1 .. Len(t) - 1
       PROVE  Follows(t[i], t[i + 1])
  <2>1. i \in 1 .. L
    BY <1>2
  <2>2. CASE i = L
    BY <1>2, <2>2
  <2>3. CASE i \in 1 .. L - 1 /\ i + 1 # L
    <3>1. i + 1 \in 1 .. L - 1
      BY <1>2, <2>3
    <3> QED
      BY <1>2, <1>6, <2>3, <3>1
  <2>4. CASE i + 1 = L
    <3>1. i \in 1 .. L - 1 /\ t[i] = s[i] /\ t[i + 1] = f
      BY <1>2, <2>1, <2>4
    <3>2. Follows(s[i], s[L])
      BY <1>6, <2>4, <3>1
    <3> QED
      BY <1>7, <3>1, <3>2 DEF Follows
  <2> QED
    BY <1>2, <2>1, <2>2, <2>3, <2>4
<1>12. Trail(t, E2, G2, H, m, A, W)
  BY <1>2, <1>10, <1>11 DEF Trail
<1>13. E2[Len(t) + 1] = P /\ G2[Len(t) + 1] = h
  BY <1>2, <1>3
<1> QED
  BY <1>12, <1>13 DEF t, Tracked

(* Where a visitor returns.                                                *)
LEMMA TrailPopped ==
    ASSUME NEW s, s # <<>>, NEW E, NEW G, NEW H, NEW m, NEW A, NEW W,
           Trail(s, E, G, H, m, A, W)
    PROVE  LET t == SubSeq(s, 1, Len(s) - 1)
           IN  Trail(t, E, G, H, m, A, W) /\ Len(t) + 1 = Len(s)
<1> DEFINE L == Len(s)
           t == SubSeq(s, 1, L - 1)
<1>1. IsSeq(s) /\ L \in Nat \ {0} /\ L - 1 \in 0 .. L
  BY EmptySeq, LenProperties DEF Trail, IsSeq
<1>2. IsSeq(t) /\ Len(t) = L - 1 /\ \A i \in 1 .. L - 1 : t[i] = s[i]
  BY <1>1, PopFacts
<1> HIDE DEF t
<1>3. /\ \A i \in 1 .. L : Keeps(s[i], E[i], G[i], E[i + 1], G[i + 1], m, A, W)
      /\ \A i \in 1 .. L : Assigns(s[i], H)
      /\ \A i \in 1 .. L - 1 : Follows(s[i], s[i + 1])
  BY DEF Trail
<1> HIDE DEF L
<1>4. \A i \in 1 .. L - 1 : i \in 1 .. L
  BY <1>1
<1>5. \A i \in 1 .. (L - 1) - 1 : i \in 1 .. L - 1 /\ i + 1 \in 1 .. L - 1
  BY <1>1
<1>6. /\ \A i \in 1 .. Len(t) : Keeps(t[i], E[i], G[i], E[i + 1], G[i + 1], m, A, W)
      /\ \A i \in 1 .. Len(t) : Assigns(t[i], H)
      /\ \A i \in 1 .. Len(t) - 1 : Follows(t[i], t[i + 1])
  BY <1>2, <1>3, <1>4, <1>5
<1>7. Trail(t, E, G, H, m, A, W) /\ Len(t) + 1 = L
  BY <1>1, <1>2, <1>6 DEF Trail
<1> QED
  BY <1>7 DEF t, L

-----------------------------------------------------------------------------
(* What is current.                                                        *)

(* The child begins with what its parent had, or behind a branch.          *)
LEMMA CurrentPushed ==
    ASSUME NEW s, IsSeq(s), s # <<>>, NEW f, NEW g, g.node \in Node, g.pc = 0,
           NEW m, NEW A, NEW W, NEW fu, NEW v,
           \/ Lags(f)
           \/ Stale(s) /\ ~ Lags(s[Len(s)]) /\ ~ Generates(f)
           \/ Within(m, W, v, Past(A, m.at), fu.fn)
    PROVE  Current(PushOver(s, f, g), m, A, W, fu, v)
<1> DEFINE L == Len(s)
           t == PushOver(s, f, g)
<1>1. /\ L \in Nat \ {0} /\ Len(t) = L + 1
      /\ \A i \in 1 .. L - 1 : t[i] = s[i]
      /\ t[L] = f /\ t[L + 1] = g
  BY PushFacts
<1>2. ~ Generates(g)
  BY DEF Generates
<1>3. ~ Awaiting(t)
  <2>1. Ast[g.node].kids \in Seq(Node)
    BY SyntaxAssumption
  <2>2. DOMAIN Ast[g.node].kids = 1 .. Len(Ast[g.node].kids) /\ Len(Ast[g.node].kids) \in Nat
    BY <2>1, LenProperties
  <2>3. 0 \notin ValuePlaces(g.node)
    BY <2>2 DEF ValuePlaces
  <2> HIDE DEF t
  <2> QED
    BY <1>1, <2>3 DEF Awaiting, Awaits
<1>4. CASE Lags(f)
  <2>1. ~ Generates(f)
    <3>1. Ast[f.node].kind \in {"If", "While"}
      BY <1>4 DEF Lags, Chooses, Repeats
    <3> QED
      BY <3>1 DEF Generates, HoldsFunction
  <2>2. L \in 1 .. Len(t) /\ \A j \in L .. Len(t) : j = L \/ j = L + 1
    BY <1>1
  <2> HIDE DEF t, L
  <2>3. Stale(t)
    BY <1>1, <1>2, <1>4, <2>1, <2>2 DEF Stale
  <2> QED
    BY <1>3, <2>3 DEF Current, t
<1>5. CASE Stale(s) /\ ~ Lags(s[L]) /\ ~ Generates(f)
  <2>1. PICK i \in 1 .. L : Lags(s[i]) /\ \A j \in i .. L : ~ Generates(s[j])
    BY <1>5 DEF Stale
  <2>2. i \in 1 .. L - 1
    BY <1>1, <1>5, <2>1
  <2> HIDE DEF t, L
  <2>3. /\ i \in 1 .. Len(t)
        /\ \A j \in i .. Len(t) : (j \in i .. L /\ j \in 1 .. L - 1) \/ j = L \/ j = L + 1
    <3>1. L \in Nat /\ Len(t) = L + 1 /\ i \in 1 .. L - 1
      BY <1>1, <2>2
    <3> QED
      BY <3>1
  <2>4. \A j \in i .. Len(t) : ~ Generates(t[j])
    BY <1>1, <1>2, <1>5, <2>1, <2>3
  <2>5. Stale(t)
    BY <1>1, <2>1, <2>2, <2>3, <2>4 DEF Stale
  <2> QED
    BY <1>3, <2>5 DEF Current, t
<1>6. CASE Within(m, W, v, Past(A, m.at), fu.fn)
  BY <1>6 DEF Current
<1> QED
  BY <1>4, <1>5, <1>6

(* Nobody waits for the value of a statement.                              *)
LEMMA StalePopped ==
    ASSUME NEW s, s # <<>>, NEW E, NEW G, NEW H, NEW m, NEW A, NEW W,
           Trail(s, E, G, H, m, A, W),
           Stale(s), ~ Lags(s[Len(s)]), Ast[s[Len(s)].node].kind \notin Expressions
    PROVE  LET t == SubSeq(s, 1, Len(s) - 1)
           IN  Stale(t) /\ ~ Awaiting(t)
<1> DEFINE L == Len(s)
           t == SubSeq(s, 1, L - 1)
<1>1. IsSeq(s) /\ L \in Nat \ {0} /\ L - 1 \in 0 .. L
  BY EmptySeq, LenProperties DEF Trail, IsSeq
<1>2. IsSeq(t) /\ Len(t) = L - 1 /\ \A i \in 1 .. L - 1 : t[i] = s[i]
  BY <1>1, PopFacts
<1> HIDE DEF t
<1>3. Stale(t)
  <2>1. PICK i \in 1 .. L : Lags(s[i]) /\ \A j \in i .. L : ~ Generates(s[j])
    BY DEF Stale
  <2>2. i \in 1 .. L - 1
    BY <1>1, <2>1
  <2>3. \A j \in i .. L - 1 : j \in i .. L /\ j \in 1 .. L - 1
    BY <1>1, <2>2
  <2> HIDE DEF L
  <2> QED
    BY <1>2, <2>1, <2>2, <2>3 DEF Stale
<1>4. ASSUME Awaiting(t) PROVE FALSE
  <2>1. L - 1 \in 1 .. L - 1 /\ (L - 1) + 1 = L /\ L - 1 \in 1 .. L
    BY <1>1, <1>2, <1>4 DEF Awaiting
  <2>2. Awaits(s[L - 1])
    BY <1>2, <1>4, <2>1 DEF Awaiting
  <2>3. Follows(s[L - 1], s[L]) /\ s[L - 1].node \in Node
    BY <2>1 DEF Trail, Keeps
  <2>4. Ast[s[L].node].kind \in Expressions
    <3> DEFINE p == s[L - 1]
    <3>1. p.pc \in ValuePlaces(p.node) /\ s[L].node = Ast[p.node].kids[p.pc] /\ p.node \in Node
      BY <2>2, <2>3 DEF Awaits, Follows
    <3> HIDE DEF p
    <3> QED
      BY <3>1, SyntaxAssumption
  <2> QED
    BY <2>4
<1> QED
  BY <1>3, <1>4 DEF t

-----------------------------------------------------------------------------
(* The symbols.                                                            *)

(* A symbol that is found has its slot in an entry block.                  *)
LEMMA SymbolFound ==
    ASSUME NEW H, NEW m, NEW W, Bindings(H, m, W), NEW env \in Seq(1 .. Len(H)),
           NEW x, Gen!IsBound(H, env, x)
    PROVE  /\ Gen!Holder(H, env, x) \in 1 .. Len(H)
           /\ x \in DOMAIN H[Gen!Holder(H, env, x)]
           /\ Fixed(m, W, Gen!Resolve(H, env, x).slot)
<1> DEFINE i == CHOOSE i \in 1 .. Len(env) : Gen!IsHolder(H, env, i, x)
<1>1. i \in 1 .. Len(env) /\ Gen!IsHolder(H, env, i, x)
  BY DEF Gen!IsBound
<1>2. Gen!Holder(H, env, x) = env[i]
  BY DEF Gen!Holder
<1> HIDE DEF i
<1>3. env[i] \in 1 .. Len(H)
  BY <1>1, ElementOfSeq
<1>4. x \in DOMAIN H[env[i]]
  BY <1>1 DEF Gen!IsHolder, Gen!Declares
<1> QED
  BY <1>2, <1>3, <1>4 DEF Bindings, Gen!Resolve

(* A symbol is declared, in whatever scope.                                *)
LEMMA SymbolDefined ==
    ASSUME NEW H, NEW m, NEW W, Bindings(H, m, W),
           NEW env, NEW x, NEW v, Fixed(m, W, v.slot)
    PROVE  /\ Bindings(Gen!Define(H, env, x, v), m, W)
           /\ Widens(H, Gen!Define(H, env, x, v))
           /\ Len(Gen!Define(H, env, x, v)) = Len(H)
<1> DEFINE i  == env[Len(env)]
           b  == Gen!Bind(H[i], x, v)
           H2 == [H EXCEPT ![i] = b]
<1>1. Gen!Define(H, env, x, v) = H2
  BY DEF Gen!Define
<1>2. IsSeq(H) /\ Len(H) \in Nat /\ DOMAIN H = 1 .. Len(H)
  BY LenProperties DEF Bindings, IsSeq
<1>3. DOMAIN b = DOMAIN H[i] \union {x} /\ \A y \in DOMAIN b : b[y] = IF y = x THEN v ELSE H[i][y]
  BY DEF Gen!Bind
<1> HIDE DEF i
<1>4. IsSeq(H2) /\ Len(H2) = Len(H)
  <2>1. CASE i \in 1 .. Len(H)
    <3> HIDE DEF b
    <3> QED
      BY <1>2, <2>1, ExceptFacts
  <2>2. CASE i \notin 1 .. Len(H)
    <3>1. H2 = H
      <4>1. H = [j \in 1 .. Len(H) |-> H[j]]
        BY <1>2 DEF IsSeq
      <4> QED
        BY <1>2, <2>2, <4>1
    <3> QED
      BY <1>2, <3>1
  <2> QED
    BY <2>1, <2>2
<1>5. \A j \in 1 .. Len(H) : H2[j] = IF j = i THEN b ELSE H[j]
  BY <1>2
<1> HIDE DEF b, H2
<1>6. ASSUME NEW s \in 1 .. Len(H), NEW y \in DOMAIN H2[s]
      PROVE  Fixed(m, W, H2[s][y].slot)
  <2>1. \A z \in DOMAIN H[s] : Fixed(m, W, H[s][z].slot)
    BY DEF Bindings
  <2>2. CASE s = i
    BY <1>3, <1>5, <1>6, <2>1, <2>2
  <2>3. CASE s # i
    BY <1>5, <1>6, <2>1, <2>3
  <2> QED
    BY <2>2, <2>3
<1>7. Bindings(H2, m, W)
  BY <1>4, <1>6 DEF Bindings
<1>8. Widens(H, H2)
  BY <1>2, <1>3, <1>4, <1>5 DEF Widens
<1> QED
  BY <1>1, <1>4, <1>7, <1>8

(* A scope is added, and left.                                             *)
LEMMA ScopeAdded ==
    ASSUME NEW H, NEW m, NEW W, Bindings(H, m, W), NEW env \in Seq(1 .. Len(H))
    PROVE  /\ Bindings(Gen!Extend(H, Gen!NoBindings), m, W)
           /\ Widens(H, Gen!Extend(H, Gen!NoBindings))
           /\ Gen!Child(H, env) \in Seq(1 .. Len(Gen!Extend(H, Gen!NoBindings)))
           /\ Gen!Parent(env) \in Seq(1 .. Len(H))
<1> DEFINE H2 == Append(H, Gen!NoBindings)
<1>1. /\ IsSeq(H2) /\ Len(H) \in Nat /\ Len(H2) = Len(H) + 1
      /\ \A i \in 1 .. Len(H) : H2[i] = H[i]
      /\ H2[Len(H) + 1] = Gen!NoBindings
  BY AppendFacts DEF Bindings
<1>2. Gen!Extend(H, Gen!NoBindings) = H2
  BY DEF Gen!Extend
<1> HIDE DEF H2
<1>3. DOMAIN Gen!NoBindings = {}
  BY DEF Gen!NoBindings
<1>4. ASSUME NEW s \in 1 .. Len(H2), NEW y \in DOMAIN H2[s]
      PROVE  Fixed(m, W, H2[s][y].slot)
  <2>1. s \in 1 .. Len(H)
    BY <1>1, <1>3, <1>4
  <2> QED
    BY <1>1, <1>4, <2>1 DEF Bindings
<1>5. Bindings(H2, m, W) /\ Widens(H, H2)
  BY <1>1, <1>4 DEF Bindings, Widens
<1>6. Append(env, Len(H) + 1) \in Seq(1 .. Len(H2))
  <2>1. env \in Seq(1 .. Len(H2))
    <3>1. 1 .. Len(H) \subseteq 1 .. Len(H2)
      BY <1>1
    <3> QED
      BY <3>1, SeqMonotonic
  <2>2. Len(H) + 1 \in 1 .. Len(H2)
    BY <1>1
  <2> QED
    BY <2>1, <2>2, AppendProperties
<1>7. Gen!Parent(env) \in Seq(1 .. Len(H))
  <2>1. Len(env) \in Nat /\ \A i \in 1 .. Len(env) : env[i] \in 1 .. Len(H)
    BY LenProperties, ElementOfSeq
  <2>2. SubSeq(env, 1, Len(env) - 1) \in Seq(1 .. Len(H))
    BY <2>1, SubSeqProperties
  <2> QED
    BY <2>2 DEF Gen!Parent
<1> QED
  BY <1>2, <1>5, <1>6, <1>7 DEF Gen!Child

(* The slots stay in the entry blocks.                                     *)
LEMMA BindingsKept ==
    ASSUME NEW m, NEW A, NEW W, Sound(m, A, W),
           NEW m2, NEW A2, NEW W2, Sound(m2, A2, W2), Grows(m, A, W, m2, A2, W2),
           NEW H, Bindings(H, m, W)
    PROVE  Bindings(H, m2, W2) /\ Widens(H, H)
<1>1. Len(H) \in Nat
  BY LenProperties DEF Bindings, IsSeq
<1> QED
  BY <1>1, FixedKept DEF Bindings, Widens

-----------------------------------------------------------------------------
(* A step of the visitor on top.  L is the height of the stack, so E[L]    *)
(* are the blocks behind which that visitor began.                         *)

(* The state as that visitor finds it.                                     *)
LEMMA Standing ==
    ASSUME NEW A, NEW W, NEW E, NEW G,
           Flow(genStk, E, G, ir, A, W, fun, val, genScope, genSyms), genStk # <<>>
    PROVE  LET L == Len(genStk)
           IN  /\ L \in Nat \ {0} /\ IsSeq(genStk)
               /\ Gen!Top = genStk[L] /\ Gen!N = Ast[Gen!Top.node]
               /\ Gen!Top.node \in Node /\ Gen!Top.pc \in Nat
               /\ Len(Gen!N.kids) \in Nat /\ Gen!Arity = Len(Gen!N.kids)
               /\ Here(ir, A, W, fun.fn)
               /\ E[L + 1] \subseteq Past(A, ir.at) /\ G[L + 1] = fun.fn
               /\ Keeps(Gen!Top, E[L], G[L], E[L + 1], G[L + 1], ir, A, W)
               /\ Assigns(Gen!Top, genSyms)
<1> DEFINE L == Len(genStk)
<1>1. IsSeq(genStk) /\ L \in Nat \ {0}
  BY EmptySeq, LenProperties DEF Flow, Trail, IsSeq
<1>2. Gen!Top = genStk[L] /\ Gen!N = Ast[Gen!Top.node]
  BY DEF Gen!Top, Gen!Depth, Gen!N
<1>3. L \in 1 .. L
  BY <1>1
<1> HIDE DEF L
<1>4. Keeps(genStk[L], E[L], G[L], E[L + 1], G[L + 1], ir, A, W) /\ Assigns(genStk[L], genSyms)
  BY <1>3 DEF Flow, Trail, L
<1>5. Gen!Top.node \in Node /\ Gen!Top.pc \in Nat
  BY <1>2, <1>4 DEF Keeps
<1>6. Len(Gen!N.kids) \in Nat
  BY <1>2, <1>5, SyntaxAssumption, LenProperties
<1> QED
  BY <1>1, <1>2, <1>4, <1>5, <1>6 DEF L, Flow, Gen!Arity

(* The state as a visitor finds it that generates no function: it has      *)
(* passed what it began behind, and has its values and its blocks.         *)
LEMMA Working ==
    ASSUME NEW A, NEW W, NEW E, NEW G,
           Flow(genStk, E, G, ir, A, W, fun, val, genScope, genSyms), genStk # <<>>,
           ~ Generates(Gen!Top)
    PROVE  /\ E[Len(genStk)] \subseteq Past(A, ir.at) /\ G[Len(genStk)] = fun.fn
           /\ Gen!Top.pc <= Gen!Arity
           /\ Locals(Gen!Top, E[Len(genStk)], fun.fn, Past(A, ir.at), fun.fn, ir, A, W)
           /\ \A v \in Held(Gen!Top) : Ready(ir, A, W, fun.fn, v)
           /\ Gen!Top.pc \in ValuePlaces(Gen!Top.node) => Ready(ir, A, W, fun.fn, val)
<1> DEFINE L == Len(genStk)
           f == Gen!Top
<1>1. /\ L \in Nat \ {0} /\ f = genStk[L] /\ Here(ir, A, W, fun.fn)
      /\ E[L + 1] \subseteq Past(A, ir.at) /\ G[L + 1] = fun.fn
      /\ Keeps(f, E[L], G[L], E[L + 1], G[L + 1], ir, A, W)
      /\ Gen!Arity = Len(Gen!N.kids) /\ Gen!N = Ast[f.node]
  BY Standing
<1>2. ~ Generates(f)
  OBVIOUS
<1> HIDE DEF f
<1>3. /\ G[L] = fun.fn /\ E[L] \subseteq E[L + 1] /\ f.pc <= Len(Ast[f.node].kids)
      /\ Locals(f, E[L], G[L], E[L + 1], G[L + 1], ir, A, W)
  BY <1>1, <1>2 DEF Keeps
<1> HIDE DEF L
<1>4. ASSUME NEW v, Within(ir, W, v, E[L + 1], fun.fn)
      PROVE  Within(ir, W, v, Past(A, ir.at), fun.fn)
  BY <1>1, <1>4 DEF Within
<1>5. Locals(f, E[L], fun.fn, Past(A, ir.at), fun.fn, ir, A, W)
  <2>1. \A b \in Dues(f) : A[b] \subseteq Past(A, ir.at)
    BY <1>1, <1>3 DEF Locals
  <2> QED
    BY <1>1, <1>3, <1>4, <2>1 DEF Locals
<1>6. ASSUME f.pc \in ValuePlaces(f.node)
      PROVE  Ready(ir, A, W, fun.fn, val)
  <2>1. Awaiting(genStk)
    BY <1>1, <1>2, <1>6 DEF Awaiting, Awaits, L
  <2> QED
    BY <2>1 DEF Flow, Current, Ready
<1> QED
  BY <1>1, <1>3, <1>4, <1>5, <1>6 DEF f, L, Ready, Locals

(* It waits for a visitor that begins.                                     *)
LEMMA Pushes ==
    ASSUME NEW A, NEW W, NEW E, NEW G,
           Flow(genStk, E, G, ir, A, W, fun, val, genScope, genSyms), genStk # <<>>,
           NEW m, NEW A2, NEW W2, NEW fu2, NEW H2, NEW env2, NEW f, NEW g,
           Here(m, A2, W2, fu2.fn), Grows(ir, A, W, m, A2, W2),
           Keeps(f, E[Len(genStk)], G[Len(genStk)], Past(A2, m.at), fu2.fn, m, A2, W2),
           Assigns(f, H2), Follows(f, g), f.node = Gen!Top.node,
           g.node \in Node, g.pc = 0,
           Returning(m, A2, W2, fu2), Bindings(H2, m, W2), Widens(genSyms, H2),
           env2 \in Seq(1 .. Len(H2)),
           \/ Lags(f)
           \/ Stale(genStk) /\ ~ Lags(Gen!Top) /\ ~ Generates(f)
           \/ Within(m, W2, val, Past(A2, m.at), fu2.fn)
    PROVE  Vouches(PushOver(genStk, f, g), m, fu2, val, env2, H2)
<1> DEFINE L == Len(genStk)
           t == PushOver(genStk, f, g)
<1>1. /\ L \in Nat \ {0} /\ IsSeq(genStk) /\ Gen!Top = genStk[L]
      /\ Sound(ir, A, W) /\ Sound(m, A2, W2)
  BY Standing DEF Here
<1>2. Trail(genStk, E, G, H2, m, A2, W2)
  BY <1>1, TrailKept DEF Flow
<1>3. PICK E2, G2 : /\ Trail(t, E2, G2, H2, m, A2, W2)
                    /\ E2[Len(t) + 1] = Past(A2, m.at)
                    /\ G2[Len(t) + 1] = fu2.fn
  <2>1. /\ genStk # <<>> /\ Trail(genStk, E, G, H2, m, A2, W2)
        /\ Keeps(f, E[Len(genStk)], G[Len(genStk)], Past(A2, m.at), fu2.fn, m, A2, W2)
        /\ Assigns(f, H2) /\ Follows(f, g) /\ f.node = genStk[Len(genStk)].node
        /\ g.node \in Node /\ g.pc = 0
    BY <1>1, <1>2
  <2> DEFINE P == Past(A2, m.at)
             h == fu2.fn
  <2> HIDE DEF P, h
  <2>2. Keeps(f, E[Len(genStk)], G[Len(genStk)], P, h, m, A2, W2)
    BY <2>1 DEF P, h
  <2>3. Tracked(PushOver(genStk, f, g), P, h, H2, m, A2, W2)
    BY <2>1, <2>2, TrailPushed
  <2> QED
    BY <2>3 DEF P, h, Tracked
<1>4. Current(t, m, A2, W2, fu2, val)
  BY <1>1, CurrentPushed
<1>5. Known(m, val)
  BY <1>1, SoundNumbers DEF Flow, Known, Grows
<1> HIDE DEF t
<1>6. Flow(t, E2, G2, m, A2, W2, fu2, val, env2, H2)
  BY <1>3, <1>4, <1>5 DEF Flow
<1> QED
  BY <1>6 DEF Vouches, t

(* It returns.                                                             *)
LEMMA Pops ==
    ASSUME NEW A, NEW W, NEW E, NEW G,
           Flow(genStk, E, G, ir, A, W, fun, val, genScope, genSyms), genStk # <<>>,
           NEW m, NEW A2, NEW W2, NEW fu2, NEW H2, NEW env2, NEW v,
           Here(m, A2, W2, fu2.fn), Grows(ir, A, W, m, A2, W2),
           E[Len(genStk)] \subseteq Past(A2, m.at), G[Len(genStk)] = fu2.fn,
           Returning(m, A2, W2, fu2), Bindings(H2, m, W2), Widens(genSyms, H2),
           env2 \in Seq(1 .. Len(H2)), Known(m, v),
           Current(SubSeq(genStk, 1, Len(genStk) - 1), m, A2, W2, fu2, v)
    PROVE  Vouches(SubSeq(genStk, 1, Len(genStk) - 1), m, fu2, v, env2, H2)
<1> DEFINE t == SubSeq(genStk, 1, Len(genStk) - 1)
<1>1. Sound(ir, A, W) /\ Sound(m, A2, W2)
  BY DEF Flow, Here
<1>2. Trail(genStk, E, G, H2, m, A2, W2)
  BY <1>1, TrailKept DEF Flow
<1>3. Trail(t, E, G, H2, m, A2, W2) /\ Len(t) + 1 = Len(genStk)
  BY <1>2, TrailPopped
<1> HIDE DEF t
<1>4. Current(t, m, A2, W2, fu2, v)
  BY DEF t
<1>5. Flow(t, E, G, m, A2, W2, fu2, v, env2, H2)
  BY <1>3, <1>4 DEF Flow
<1> QED
  BY <1>5 DEF Vouches, t

(* After a step the visitors vouch for the module, unless one has thrown.  *)
Upheld == \/ genVerdict' = "error"
          \/ Vouches(genStk', ir', fun', val', genScope', genSyms')

(* The visitor on top has child k visited, in the same function.           *)
LEMMA GoesDown ==
    ASSUME NEW A, NEW W, NEW E, NEW G,
           Flow(genStk, E, G, ir, A, W, fun, val, genScope, genSyms), genStk # <<>>,
           ~ Generates(Gen!Top), UNCHANGED <<fun, genScope, genSyms>>,
           NEW k \in 1 .. Gen!Arity, NEW locals, NEW m, Gen!Go(k, locals, m),
           NEW f, f = Gen!Frame(Gen!Top.node, k, locals, Gen!Top.saved), ~ Generates(f),
           NEW A2, NEW W2, Here(m, A2, W2, fun.fn), Grows(ir, A, W, m, A2, W2),
           E[Len(genStk)] \subseteq Past(A2, m.at),
           Locals(f, E[Len(genStk)], fun.fn, Past(A2, m.at), fun.fn, m, A2, W2),
           Assigns(f, genSyms),
           \/ Lags(f)
           \/ ~ Lags(Gen!Top) /\ Past(A, ir.at) \subseteq Past(A2, m.at)
           \/ Ready(m, A2, W2, fun.fn, val)
    PROVE  Upheld
<1> DEFINE L == Len(genStk)
           c == Gen!N.kids[k]
           g == Gen!Entry(c, genScope)
<1>1. /\ L \in Nat \ {0} /\ Gen!Top.node \in Node /\ Gen!N = Ast[Gen!Top.node]
      /\ Gen!Arity = Len(Gen!N.kids) /\ Gen!Arity \in Nat /\ Here(ir, A, W, fun.fn)
      /\ Gen!Top = genStk[L]
  BY Standing
<1>2. G[L] = fun.fn
  BY Working
<1>3. f.node = Gen!Top.node /\ f.pc = k /\ k \in Nat
  BY <1>1 DEF Gen!Frame
<1>4. c \in Node
  BY <1>1, ChildNode
<1>5. genStk' = PushOver(genStk, f, g) /\ ir' = m /\ val' = val
  BY DEF Gen!Go, Gen!Accept, Gen!Built, Gen!Depth, PushOver
<1>6. g.node = c /\ g.pc = 0
  BY DEF Gen!Entry, Gen!Frame
<1>7. Follows(f, g)
  BY <1>1, <1>3, <1>6 DEF Follows
<1> HIDE DEF g, c, L
<1>8. Keeps(f, E[L], G[L], Past(A2, m.at), fun.fn, m, A2, W2)
  BY <1>1, <1>2, <1>3 DEF Keeps, L
<1>9. /\ Sound(ir, A, W) /\ Sound(m, A2, W2)
      /\ Returning(ir, A, W, fun) /\ Bindings(genSyms, ir, W)
      /\ genScope \in Seq(1 .. Len(genSyms))
  BY DEF Flow, Here
<1>10. Returning(m, A2, W2, fun) /\ Bindings(genSyms, m, W2) /\ Widens(genSyms, genSyms)
  BY <1>9, ReturningKept, BindingsKept
<1>11. \/ Lags(f)
       \/ Stale(genStk) /\ ~ Lags(Gen!Top) /\ ~ Generates(f)
       \/ Within(m, W2, val, Past(A2, m.at), fun.fn)
  <2>1. ASSUME ~ Lags(Gen!Top), Past(A, ir.at) \subseteq Past(A2, m.at), ~ Stale(genStk)
        PROVE  Within(m, W2, val, Past(A2, m.at), fun.fn)
    <3>1. Within(ir, W, val, Past(A, ir.at), fun.fn)
      BY <2>1 DEF Flow, Current
    <3> QED
      BY <1>9, <2>1, <3>1, WithinKept
  <2> QED
    BY <2>1 DEF Ready
<1>12. g.node \in Node
  BY <1>4, <1>6
<1>13. Vouches(PushOver(genStk, f, g), m, fun, val, genScope, genSyms)
  BY <1>3, <1>6, <1>7, <1>8, <1>9, <1>10, <1>11, <1>12, Pushes DEF L
<1>14. fun' = fun /\ genScope' = genScope /\ genSyms' = genSyms
  OBVIOUS
<1> DEFINE t == PushOver(genStk, f, g)
<1>15. genStk' = t /\ Vouches(t, m, fun, val, genScope, genSyms)
  BY <1>5, <1>13
<1> HIDE DEF t
<1> QED
  BY <1>5, <1>14, <1>15 DEF Upheld

(* The visitor on top returns v, in the same function.                     *)
LEMMA ComesBack ==
    ASSUME NEW A, NEW W, NEW E, NEW G,
           Flow(genStk, E, G, ir, A, W, fun, val, genScope, genSyms), genStk # <<>>,
           ~ Generates(Gen!Top), UNCHANGED <<fun, genScope, genSyms>>,
           NEW m, NEW v, Gen!Finish(m, v),
           NEW A2, NEW W2, Here(m, A2, W2, fun.fn), Grows(ir, A, W, m, A2, W2),
           E[Len(genStk)] \subseteq Past(A2, m.at),
           \/ Ready(m, A2, W2, fun.fn, v)
           \/ /\ v = val /\ ~ Lags(Gen!Top) /\ Gen!N.kind \notin Expressions
              /\ Past(A, ir.at) \subseteq Past(A2, m.at)
    PROVE  Upheld
<1> DEFINE t == SubSeq(genStk, 1, Len(genStk) - 1)
<1>1. /\ Gen!N = Ast[Gen!Top.node] /\ Gen!Top = genStk[Len(genStk)]
      /\ G[Len(genStk)] = fun.fn
  BY Standing, Working
<1>2. genStk' = t /\ ir' = m /\ val' = v
  BY DEF Gen!Finish, Gen!Built, Gen!Depth
<1>3. /\ Sound(ir, A, W) /\ Sound(m, A2, W2) /\ Trail(genStk, E, G, genSyms, ir, A, W)
      /\ Returning(ir, A, W, fun) /\ Bindings(genSyms, ir, W)
      /\ genScope \in Seq(1 .. Len(genSyms))
      /\ Known(ir, val) /\ Current(genStk, ir, A, W, fun, val)
  BY DEF Flow, Here
<1>4. Returning(m, A2, W2, fun) /\ Bindings(genSyms, m, W2) /\ Widens(genSyms, genSyms)
  BY <1>3, ReturningKept, BindingsKept
<1>5. Current(t, m, A2, W2, fun, v) /\ Known(m, v)
  <2>1. CASE Ready(m, A2, W2, fun.fn, v)
    BY <2>1 DEF Ready, Current, Within, Known
  <2>2. CASE /\ v = val /\ ~ Lags(Gen!Top) /\ Gen!N.kind \notin Expressions
             /\ Past(A, ir.at) \subseteq Past(A2, m.at)
    <3>1. Known(m, val)
      BY <1>3, SoundNumbers DEF Known, Grows
    <3>2. CASE Stale(genStk)
      <4>1. Stale(t) /\ ~ Awaiting(t)
        BY <1>1, <1>3, <2>2, <3>2, StalePopped
      <4> HIDE DEF t
      <4> QED
        BY <2>2, <3>1, <4>1 DEF Current
    <3>3. CASE Within(ir, W, val, Past(A, ir.at), fun.fn)
      <4>1. Within(m, W2, val, Past(A2, m.at), fun.fn)
        BY <1>3, <2>2, <3>3, WithinKept
      <4> QED
        BY <2>2, <3>1, <4>1 DEF Current
    <3> QED
      BY <1>3, <3>2, <3>3 DEF Current
  <2> QED
    BY <2>1, <2>2
<1>6. Vouches(t, m, fun, v, genScope, genSyms)
  BY <1>1, <1>3, <1>4, <1>5, Pops
<1> HIDE DEF t
<1> QED
  BY <1>2, <1>6 DEF Upheld

-----------------------------------------------------------------------------
(* The visitors that go on where they are, or behind a check.              *)

(* An idle visitor has a child visited, having built m.                    *)
LEMMA IdleGoesDown ==
    ASSUME NEW A, NEW W, NEW E, NEW G,
           Flow(genStk, E, G, ir, A, W, fun, val, genScope, genSyms), genStk # <<>>,
           Idle(Gen!Top), UNCHANGED <<fun, genScope, genSyms>>,
           NEW k \in 1 .. Gen!Arity, NEW locals, NEW m, Gen!Go(k, locals, m),
           NEW f, f = Gen!Frame(Gen!Top.node, k, locals, Gen!Top.saved), Idle(f),
           NEW A2, NEW W2, Leads(ir, A, W, fun.fn, m, A2, W2),
           \A v \in Held(f) : Ready(m, A2, W2, fun.fn, v),
           Gen!N.kind = "Call" => IsSeq(locals), Assigns(f, genSyms)
    PROVE  Upheld
<1>1. ~ Generates(Gen!Top) /\ ~ Lags(Gen!Top)
  BY DEF Idle, Lags
<1>2. /\ ~ Generates(f) /\ ~ Joins(f) /\ ~ Branches(f) /\ ~ Chooses(f)
      /\ ~ Tests(f) /\ ~ Repeats(f)
  BY DEF Idle
<1>3. Dues(f) = {}
  BY <1>2 DEF Dues
<1>4. f.node = Gen!Top.node /\ f.own = locals /\ Gen!N = Ast[Gen!Top.node]
  BY Standing DEF Gen!Frame
<1>5. \A v \in Held(f) : Within(m, W2, v, Past(A2, m.at), fun.fn)
  BY DEF Ready
<1>6. Locals(f, E[Len(genStk)], fun.fn, Past(A2, m.at), fun.fn, m, A2, W2)
  BY <1>2, <1>3, <1>4, <1>5 DEF Locals
<1>7. E[Len(genStk)] \subseteq Past(A, ir.at)
  BY <1>1, Working
<1>8. /\ Here(m, A2, W2, fun.fn) /\ Grows(ir, A, W, m, A2, W2)
      /\ Past(A, ir.at) \subseteq Past(A2, m.at)
  BY DEF Leads
<1>9. E[Len(genStk)] \subseteq Past(A2, m.at)
  BY <1>7, <1>8
<1> QED
  BY <1>1, <1>2, <1>6, <1>8, <1>9, GoesDown

(* A visitor returns from where it leads.                                  *)
LEMMA LeadsBack ==
    ASSUME NEW A, NEW W, NEW E, NEW G,
           Flow(genStk, E, G, ir, A, W, fun, val, genScope, genSyms), genStk # <<>>,
           ~ Generates(Gen!Top), UNCHANGED <<fun, genScope, genSyms>>,
           NEW m, NEW v, Gen!Finish(m, v),
           NEW A2, NEW W2, Leads(ir, A, W, fun.fn, m, A2, W2),
           \/ Ready(m, A2, W2, fun.fn, v)
           \/ v = val /\ ~ Lags(Gen!Top) /\ Gen!N.kind \notin Expressions
    PROVE  Upheld
<1>1. E[Len(genStk)] \subseteq Past(A, ir.at)
  BY Working
<1>2. /\ Here(m, A2, W2, fun.fn) /\ Grows(ir, A, W, m, A2, W2)
      /\ Past(A, ir.at) \subseteq Past(A2, m.at)
  BY DEF Leads
<1>3. E[Len(genStk)] \subseteq Past(A2, m.at)
  BY <1>1, <1>2
<1> QED
  BY <1>2, <1>3, ComesBack

(* An exception ends the generator.                                        *)
LEMMA ThrowUpheld ==
    ASSUME Gen!Throw PROVE Upheld
BY DEF Gen!Throw, Upheld

(* The value of an operand or a result is there.                           *)
LEMMA OperandReady ==
    ASSUME NEW A, NEW W, NEW E, NEW G,
           Flow(genStk, E, G, ir, A, W, fun, val, genScope, genSyms), genStk # <<>>,
           ~ Generates(Gen!Top), Gen!N.kind \in Expressions \union {"Return"},
           Gen!Top.pc # 0
    PROVE  Ready(ir, A, W, fun.fn, val)
<1>1. /\ Gen!N = Ast[Gen!Top.node] /\ Gen!Top.node \in Node /\ Gen!Top.pc \in Nat
      /\ Gen!Arity = Len(Gen!N.kids) /\ Gen!Arity \in Nat
  BY Standing
<1>2. Gen!Top.pc <= Gen!Arity
  BY Working
<1>3. DOMAIN Gen!N.kids = 1 .. Gen!Arity
  BY <1>1, SyntaxAssumption, LenProperties
<1>4. Gen!Top.pc \in DOMAIN Gen!N.kids
  BY <1>1, <1>2, <1>3
<1>5. Gen!Top.pc \in ValuePlaces(Gen!Top.node)
  BY <1>1, <1>4 DEF ValuePlaces, Expressions
<1> QED
  BY <1>5, Working

(* A visitor that never owes anything is idle while its child is visited.  *)
LEMMA PlainVisitor ==
    ASSUME Plain(Gen!Top.node), NEW k, NEW locals
    PROVE  /\ Idle(Gen!Top)
           /\ Idle(Gen!Frame(Gen!Top.node, k, locals, Gen!Top.saved))
<1>1. Gen!Frame(Gen!Top.node, k, locals, Gen!Top.saved).node = Gen!Top.node
  BY DEF Gen!Frame
<1> QED
  BY <1>1, PlainIdle

(* Where nothing is built the generator is where it was.                   *)
LEMMA FlowStays ==
    ASSUME NEW A, NEW W, NEW E, NEW G,
           Flow(genStk, E, G, ir, A, W, fun, val, genScope, genSyms)
    PROVE  Here(ir, A, W, fun.fn) /\ Leads(ir, A, W, fun.fn, ir, A, W)
BY LeadsNot DEF Flow

(* visit of the literals.                                                  *)
LEMMA FlowLiteral ==
    ASSUME Vouches(genStk, ir, fun, val, genScope, genSyms), Gen!VisitLiteral
    PROVE  Upheld
<1>1. PICK A, W, E, G : Flow(genStk, E, G, ir, A, W, fun, val, genScope, genSyms)
  BY DEF Vouches
<1>2. /\ genStk # <<>> /\ Gen!N.kind = "Lit" /\ UNCHANGED <<fun, genScope, genSyms>>
      /\ Gen!Throw \/ Gen!Finish(ir, Gen!LiteralValue)
  BY DEF Gen!VisitLiteral, Gen!Visiting, Gen!Context
<1>3. Gen!N = Ast[Gen!Top.node]
  BY <1>1, <1>2, Standing
<1>4. Plain(Gen!Top.node)
  BY <1>2, <1>3 DEF Plain, HoldsFunction, Connects
<1>5. ~ Generates(Gen!Top)
  BY <1>4, PlainIdle DEF Idle
<1>6. Gen!Kind(Gen!LiteralValue) # "inst"
  BY NotComputed DEF Gen!LiteralValue
<1> DEFINE v == Gen!LiteralValue
<1> HIDE DEF v
<1>7. Ready(ir, A, W, fun.fn, v)
  BY <1>6, WithinAlways DEF Ready, v
<1>8. CASE Gen!Finish(ir, v)
  BY <1>1, <1>2, <1>5, <1>7, <1>8, FlowStays, LeadsBack
<1> QED
  BY <1>2, <1>8, ThrowUpheld DEF v

(* visit(IdentExpr).                                                       *)
LEMMA FlowIdent ==
    ASSUME Vouches(genStk, ir, fun, val, genScope, genSyms), Gen!VisitIdent
    PROVE  Upheld
<1>1. PICK A, W, E, G : Flow(genStk, E, G, ir, A, W, fun, val, genScope, genSyms)
  BY DEF Vouches
<1>2. /\ genStk # <<>> /\ Gen!N.kind = "Ident" /\ UNCHANGED <<fun, genScope, genSyms>>
  BY DEF Gen!VisitIdent, Gen!Visiting, Gen!Context
<1>3. Gen!N = Ast[Gen!Top.node]
  BY <1>1, <1>2, Standing
<1>4. Plain(Gen!Top.node)
  BY <1>2, <1>3 DEF Plain, HoldsFunction, Connects
<1>5. ~ Generates(Gen!Top)
  BY <1>4, PlainIdle DEF Idle
<1> DEFINE s    == Gen!Resolve(genSyms, genScope, Gen!N.name)
           type == Gen!LLVMType(s.type)
           slot == s.slot
           m    == Gen!Load(ir, type, slot)
<1>6. \/ Gen!Throw
      \/ Gen!IsBound(genSyms, genScope, Gen!N.name) /\ Gen!Finish(m, m.last)
  BY DEF Gen!VisitIdent, Gen!FinishWith
<1>7. CASE Gen!IsBound(genSyms, genScope, Gen!N.name) /\ Gen!Finish(m, m.last)
  <2>1. Fixed(ir, W, slot)
    BY <1>1, <1>7, SymbolFound DEF Flow
  <2> HIDE DEF type, slot
  <2>2. Here(ir, A, W, fun.fn) /\ Ready(ir, A, W, fun.fn, slot)
    BY <1>1, <2>1, FlowStays, FixedReady
  <2>3. PICK W2 : Runs(ir, A, W, fun.fn, m, W2) /\ Ready(m, A, W2, fun.fn, m.last)
    BY <2>2, LoadSound
  <2> DEFINE v == m.last
  <2> HIDE DEF m, v
  <2>4. Leads(ir, A, W, fun.fn, m, A, W2) /\ Ready(m, A, W2, fun.fn, v) /\ Gen!Finish(m, v)
    BY <1>7, <2>3, RunsLeads DEF v
  <2> QED
    BY <1>1, <1>2, <1>5, <2>4, LeadsBack
<1> QED
  BY <1>6, <1>7, ThrowUpheld

(* visit(UnaryExpr).                                                       *)
LEMMA FlowUnary ==
    ASSUME Vouches(genStk, ir, fun, val, genScope, genSyms), Gen!VisitUnary
    PROVE  Upheld
<1>1. PICK A, W, E, G : Flow(genStk, E, G, ir, A, W, fun, val, genScope, genSyms)
  BY DEF Vouches
<1>2. genStk # <<>> /\ Gen!N.kind = "Unary" /\ UNCHANGED <<fun, genScope, genSyms>>
  BY DEF Gen!VisitUnary, Gen!Visiting, Gen!Context
<1>3. /\ Gen!N = Ast[Gen!Top.node] /\ Gen!Top.node \in Node /\ Gen!Arity = Len(Gen!N.kids)
      /\ Here(ir, A, W, fun.fn) /\ Leads(ir, A, W, fun.fn, ir, A, W)
  BY <1>1, <1>2, Standing, FlowStays
<1>4. Plain(Gen!Top.node)
  BY <1>2, <1>3 DEF Plain, HoldsFunction, Connects
<1>5. Idle(Gen!Top) /\ ~ Generates(Gen!Top)
  BY <1>4, PlainIdle DEF Idle
<1> DEFINE op   == IF Gen!N.op = "-" THEN "neg" ELSE "not"
           type == Gen!Tid(val)
           args == <<val>>
           m    == Gen!Build(ir, op, type, args)
           none == <<>>
           f    == Gen!Frame(Gen!Top.node, 1, none, Gen!Top.saved)
<1>6. \/ Gen!Go(1, none, ir)
      \/ Gen!Top.pc = 1 /\ Gen!Finish(m, m.last)
  BY DEF Gen!VisitUnary, Gen!FinishWith
<1>7. CASE Gen!Go(1, none, ir)
  <2>1. 1 \in 1 .. Gen!Arity
    BY <1>2, <1>3, SyntaxAssumption DEF Arities
  <2>2. f.node = Gen!Top.node
    BY DEF Gen!Frame
  <2> HIDE DEF f
  <2>3. Idle(f) /\ Held(f) = {} /\ Assigns(f, genSyms)
    BY <1>2, <1>3, <1>4, <2>2, PlainIdle DEF Held, Assigns
  <2> HIDE DEF none
  <2> QED
    BY <1>1, <1>2, <1>3, <1>5, <1>7, <2>1, <2>3, IdleGoesDown DEF f
<1>8. CASE Gen!Top.pc = 1 /\ Gen!Finish(m, m.last)
  <2>1. op # "phi" /\ op \notin Gen!Terminators
    BY DEF Gen!Terminators
  <2>2. Ready(ir, A, W, fun.fn, val)
    BY <1>1, <1>2, <1>5, <1>8, OperandReady DEF Expressions
  <2>3. \A i \in DOMAIN args : Ready(ir, A, W, fun.fn, args[i])
    BY <2>2
  <2> HIDE DEF op, type, args
  <2>4. PICK W2 : Runs(ir, A, W, fun.fn, m, W2) /\ Ready(m, A, W2, fun.fn, m.last)
    BY <1>3, <2>1, <2>3, BuildReady
  <2> DEFINE v == m.last
  <2> HIDE DEF m, v
  <2>5. Leads(ir, A, W, fun.fn, m, A, W2) /\ Ready(m, A, W2, fun.fn, v) /\ Gen!Finish(m, v)
    BY <1>8, <2>4, RunsLeads DEF v
  <2> QED
    BY <1>1, <1>2, <1>5, <2>5, LeadsBack
<1> QED
  BY <1>6, <1>7, <1>8

(* The elements of an array are inserted.                                  *)
LEMMA InsertSound ==
    ASSUME NEW A, NEW W, Here(ir, A, W, fun.fn),
           Ready(ir, A, W, fun.fn, Gen!Top.own), Ready(ir, A, W, fun.fn, val)
    PROVE  \E W2 : /\ Runs(ir, A, W, fun.fn, Gen!InsertElement, W2)
                   /\ Ready(Gen!InsertElement, A, W2, fun.fn, Gen!InsertElement.last)
<1> DEFINE own  == Gen!Top.own
           type == Gen!Tid(own)
           args == <<own, val>>
<1>1. "insert" # "phi" /\ "insert" \notin Gen!Terminators
  BY DEF Gen!Terminators
<1>2. Gen!InsertElement = Gen!Build(ir, "insert", type, args)
  BY DEF Gen!InsertElement
<1>3. \A i \in DOMAIN args : Ready(ir, A, W, fun.fn, args[i])
  OBVIOUS
<1> HIDE DEF type, args
<1> QED
  BY <1>1, <1>2, <1>3, BuildReady

(* visit(ArrayExpr).                                                       *)
LEMMA FlowArray ==
    ASSUME Vouches(genStk, ir, fun, val, genScope, genSyms), Gen!VisitArray
    PROVE  Upheld
<1>1. PICK A, W, E, G : Flow(genStk, E, G, ir, A, W, fun, val, genScope, genSyms)
  BY DEF Vouches
<1>2. genStk # <<>> /\ Gen!N.kind = "Array" /\ UNCHANGED <<fun, genScope, genSyms>>
  BY DEF Gen!VisitArray, Gen!Visiting, Gen!Context
<1>3. /\ Gen!N = Ast[Gen!Top.node] /\ Gen!Top.node \in Node /\ Gen!Arity = Len(Gen!N.kids)
      /\ Gen!Arity \in Nat /\ Gen!Top.pc \in Nat
      /\ Here(ir, A, W, fun.fn) /\ Leads(ir, A, W, fun.fn, ir, A, W)
  BY <1>1, <1>2, Standing, FlowStays
<1>4. Plain(Gen!Top.node)
  BY <1>2, <1>3 DEF Plain, HoldsFunction, Connects
<1>5. Idle(Gen!Top) /\ ~ Generates(Gen!Top)
  BY <1>4, PlainIdle DEF Idle
<1> DEFINE undef == Gen!Constant(notes[Gen!Top.node], <<>>)
           m == Gen!InsertElement
<1>6. \/ Gen!Throw
      \/ Gen!Finish(ir, undef)
      \/ Gen!Top.pc = 0 /\ Gen!Arity # 0 /\ Gen!Go(1, undef, ir)
      \/ Gen!Top.pc > 0 /\ Gen!Top.pc < Gen!Arity /\ Gen!Go(Gen!Top.pc + 1, m.last, m)
      \/ Gen!Top.pc > 0 /\ Gen!Finish(m, m.last)
  BY DEF Gen!VisitArray, Gen!FinishWith
<1>7. Ready(ir, A, W, fun.fn, undef)
  BY NotComputed, WithinAlways DEF Ready
<1> HIDE DEF undef
<1>8. ASSUME NEW k \in 1 .. Gen!Arity, NEW v, NEW m1, NEW W1,
             Gen!Go(k, v, m1), Leads(ir, A, W, fun.fn, m1, A, W1),
             Ready(m1, A, W1, fun.fn, v)
      PROVE  Upheld
  <2> DEFINE f == Gen!Frame(Gen!Top.node, k, v, Gen!Top.saved)
  <2>1. f.node = Gen!Top.node /\ f.own = v
    BY DEF Gen!Frame
  <2> HIDE DEF f
  <2>2. Idle(f)
    BY <1>4, PlainVisitor DEF f
  <2>3. Held(f) \subseteq {v} /\ Assigns(f, genSyms)
    BY <1>2, <1>3, <2>1 DEF Held, Assigns
  <2>4. \A u \in Held(f) : Ready(m1, A, W1, fun.fn, u)
    BY <1>8, <2>3
  <2>5. Gen!N.kind # "Call"
    BY <1>2
  <2> QED
    BY <1>1, <1>2, <1>5, <1>8, <2>2, <2>3, <2>4, <2>5, IdleGoesDown DEF f
<1>9. CASE Gen!Finish(ir, undef)
  BY <1>1, <1>2, <1>3, <1>5, <1>7, <1>9, LeadsBack
<1>10. CASE Gen!Top.pc = 0 /\ Gen!Arity # 0 /\ Gen!Go(1, undef, ir)
  <2>1. 1 \in 1 .. Gen!Arity
    BY <1>3, <1>10
  <2> QED
    BY <1>3, <1>7, <1>8, <1>10, <2>1
<1>11. ASSUME Gen!Top.pc > 0
       PROVE  \E W2 : /\ Leads(ir, A, W, fun.fn, m, A, W2)
                      /\ Ready(m, A, W2, fun.fn, m.last)
  <2>1. Held(Gen!Top) = {Gen!Top.own}
    BY <1>2, <1>3, <1>11 DEF Held
  <2>2. Ready(ir, A, W, fun.fn, Gen!Top.own)
    BY <1>1, <1>2, <1>5, <2>1, Working
  <2>3. Gen!Top.pc # 0
    BY <1>11
  <2>4. Ready(ir, A, W, fun.fn, val)
    BY <1>1, <1>2, <1>5, <2>3, OperandReady DEF Expressions
  <2>5. PICK W2 : Runs(ir, A, W, fun.fn, m, W2) /\ Ready(m, A, W2, fun.fn, m.last)
    BY <1>3, <2>2, <2>4, InsertSound
  <2> QED
    BY <2>5, RunsLeads
<1> DEFINE v == m.last
<1> HIDE DEF m, v
<1>12. CASE Gen!Top.pc > 0 /\ Gen!Top.pc < Gen!Arity /\ Gen!Go(Gen!Top.pc + 1, m.last, m)
  <2>1. PICK W2 : Leads(ir, A, W, fun.fn, m, A, W2) /\ Ready(m, A, W2, fun.fn, m.last)
    BY <1>11, <1>12
  <2>2. Gen!Top.pc + 1 \in 1 .. Gen!Arity
    BY <1>3, <1>12
  <2> QED
    BY <1>8, <1>12, <2>1, <2>2
<1>13. CASE Gen!Top.pc > 0 /\ Gen!Finish(m, m.last)
  <2>1. PICK W2 : Leads(ir, A, W, fun.fn, m, A, W2) /\ Ready(m, A, W2, fun.fn, m.last)
    BY <1>11, <1>13
  <2>2. Gen!Finish(m, v) /\ Ready(m, A, W2, fun.fn, v)
    BY <1>13, <2>1 DEF v
  <2> QED
    BY <1>1, <1>2, <1>5, <2>1, <2>2, LeadsBack
<1> QED
  BY <1>6, <1>9, <1>10, <1>12, <1>13, ThrowUpheld

(* visit(ArrayDerefExpr).                                                  *)
LEMMA FlowDeref ==
    ASSUME Vouches(genStk, ir, fun, val, genScope, genSyms), Gen!VisitArrayDeref
    PROVE  Upheld
<1>1. PICK A, W, E, G : Flow(genStk, E, G, ir, A, W, fun, val, genScope, genSyms)
  BY DEF Vouches
<1>2. genStk # <<>> /\ Gen!N.kind = "Deref" /\ UNCHANGED <<fun, genScope, genSyms>>
  BY DEF Gen!VisitArrayDeref, Gen!Visiting, Gen!Context
<1>3. /\ Gen!N = Ast[Gen!Top.node] /\ Gen!Top.node \in Node /\ Gen!Arity = Len(Gen!N.kids)
      /\ Here(ir, A, W, fun.fn) /\ Leads(ir, A, W, fun.fn, ir, A, W)
  BY <1>1, <1>2, Standing, FlowStays
<1>4. Plain(Gen!Top.node)
  BY <1>2, <1>3 DEF Plain, HoldsFunction, Connects
<1>5. Idle(Gen!Top) /\ ~ Generates(Gen!Top) /\ Gen!N.kind # "Call"
  BY <1>2, <1>4, PlainIdle DEF Idle
<1>6. 1 \in 1 .. Gen!Arity /\ 2 \in 1 .. Gen!Arity
  BY <1>2, <1>3, SyntaxAssumption DEF Arities
<1> DEFINE none == <<>>
           own  == Gen!Top.own
           m    == Gen!Indexed(own, val)
<1>7. \/ Gen!Throw
      \/ Gen!Go(1, none, ir)
      \/ Gen!Top.pc = 1 /\ Gen!Go(2, val, ir)
      \/ Gen!Top.pc = 2 /\ Gen!Finish(m, m.last)
  BY DEF Gen!VisitArrayDeref, Gen!FinishWith
<1> HIDE DEF none, own
<1>8. ASSUME Gen!Top.pc # 0
      PROVE  Ready(ir, A, W, fun.fn, val)
  BY <1>1, <1>2, <1>5, <1>8, OperandReady DEF Expressions
<1>9. CASE Gen!Go(1, none, ir)
  <2> DEFINE f == Gen!Frame(Gen!Top.node, 1, none, Gen!Top.saved)
  <2>1. f.node = Gen!Top.node /\ f.pc = 1
    BY DEF Gen!Frame
  <2> HIDE DEF f
  <2>2. Idle(f)
    BY <1>4, PlainVisitor DEF f
  <2>3. Held(f) = {} /\ Assigns(f, genSyms)
    BY <1>2, <1>3, <2>1 DEF Held, Assigns
  <2> QED
    BY <1>1, <1>2, <1>3, <1>5, <1>6, <1>9, <2>2, <2>3, IdleGoesDown DEF f
<1>10. CASE Gen!Top.pc = 1 /\ Gen!Go(2, val, ir)
  <2> DEFINE f == Gen!Frame(Gen!Top.node, 2, val, Gen!Top.saved)
  <2>1. f.node = Gen!Top.node /\ f.pc = 2 /\ f.own = val
    BY DEF Gen!Frame
  <2> HIDE DEF f
  <2>2. Idle(f)
    BY <1>4, PlainVisitor DEF f
  <2>3. Held(f) = {val} /\ Assigns(f, genSyms)
    BY <1>2, <1>3, <2>1 DEF Held, Assigns
  <2>4. \A u \in Held(f) : Ready(ir, A, W, fun.fn, u)
    BY <1>8, <1>10, <2>3
  <2> QED
    BY <1>1, <1>2, <1>3, <1>5, <1>6, <1>10, <2>2, <2>3, <2>4, IdleGoesDown DEF f
<1>11. CASE Gen!Top.pc = 2 /\ Gen!Finish(m, m.last)
  <2>1. Held(Gen!Top) = {own}
    BY <1>2, <1>3, <1>11 DEF Held, own
  <2>2. Ready(ir, A, W, fun.fn, own)
    BY <1>1, <1>2, <1>5, <2>1, Working
  <2>3. PICK A2, W2 : /\ Leads(ir, A, W, fun.fn, m, A2, W2)
                      /\ Ready(m, A2, W2, fun.fn, m.last)
    BY <1>3, <1>8, <1>11, <2>2, ElementSound
  <2> DEFINE v == m.last
  <2> HIDE DEF m, v
  <2>4. Gen!Finish(m, v) /\ Ready(m, A2, W2, fun.fn, v)
    BY <1>11, <2>3 DEF v
  <2> QED
    BY <1>1, <1>2, <1>5, <2>3, <2>4, LeadsBack
<1> QED
  BY <1>7, <1>9, <1>10, <1>11, ThrowUpheld

(* visit(AssignExpr): the slot is in an entry block.                       *)
LEMMA FlowAssign ==
    ASSUME Vouches(genStk, ir, fun, val, genScope, genSyms), Gen!VisitAssign
    PROVE  Upheld
<1>1. PICK A, W, E, G : Flow(genStk, E, G, ir, A, W, fun, val, genScope, genSyms)
  BY DEF Vouches
<1>2. genStk # <<>> /\ Gen!N.kind = "Assign" /\ UNCHANGED <<fun, genScope, genSyms>>
  BY DEF Gen!VisitAssign, Gen!Visiting, Gen!Context
<1>3. /\ Gen!N = Ast[Gen!Top.node] /\ Gen!Top.node \in Node /\ Gen!Arity = Len(Gen!N.kids)
      /\ Here(ir, A, W, fun.fn) /\ Leads(ir, A, W, fun.fn, ir, A, W)
      /\ Assigns(Gen!Top, genSyms)
  BY <1>1, <1>2, Standing, FlowStays
<1>4. Plain(Gen!Top.node)
  BY <1>2, <1>3 DEF Plain, HoldsFunction, Connects
<1>5. Idle(Gen!Top) /\ ~ Generates(Gen!Top) /\ Gen!N.kind # "Call"
  BY <1>2, <1>4, PlainIdle DEF Idle
<1> DEFINE holder == Gen!Holder(genSyms, genScope, Gen!N.name)
           slot   == genSyms[Gen!Top.own][Gen!N.name].slot
           m      == Gen!Store(ir, val, slot)
<1>6. \/ Gen!Throw
      \/ Gen!IsBound(genSyms, genScope, Gen!N.name) /\ Gen!Go(1, holder, ir)
      \/ Gen!Top.pc = 1 /\ Gen!Finish(m, val)
  BY DEF Gen!VisitAssign
<1>7. CASE Gen!IsBound(genSyms, genScope, Gen!N.name) /\ Gen!Go(1, holder, ir)
  <2> DEFINE f == Gen!Frame(Gen!Top.node, 1, holder, Gen!Top.saved)
  <2>1. holder \in 1 .. Len(genSyms) /\ Gen!N.name \in DOMAIN genSyms[holder]
    BY <1>1, <1>7, SymbolFound DEF Flow
  <2> HIDE DEF holder
  <2>2. f.node = Gen!Top.node /\ f.own = holder
    BY DEF Gen!Frame
  <2> HIDE DEF f
  <2>3. Idle(f)
    BY <1>4, PlainVisitor DEF f
  <2>4. Held(f) = {} /\ Assigns(f, genSyms)
    BY <1>2, <1>3, <2>1, <2>2 DEF Held, Assigns
  <2>5. 1 \in 1 .. Gen!Arity
    BY <1>2, <1>3, SyntaxAssumption DEF Arities
  <2> QED
    BY <1>1, <1>2, <1>3, <1>5, <1>7, <2>3, <2>4, <2>5, IdleGoesDown DEF f
<1>8. CASE Gen!Top.pc = 1 /\ Gen!Finish(m, val)
  <2>1. Fixed(ir, W, slot)
    BY <1>1, <1>2, <1>3, <1>8 DEF Flow, Bindings, Assigns
  <2> HIDE DEF slot
  <2>2. Ready(ir, A, W, fun.fn, slot)
    BY <1>3, <2>1, FixedReady
  <2>3. Ready(ir, A, W, fun.fn, val)
    BY <1>1, <1>2, <1>5, <1>8, OperandReady DEF Expressions
  <2>4. PICK W2 : Runs(ir, A, W, fun.fn, m, W2)
    BY <1>3, <2>2, <2>3, StoreSound
  <2> HIDE DEF m
  <2>5. Leads(ir, A, W, fun.fn, m, A, W2)
    BY <2>4, RunsLeads
  <2>6. Ready(m, A, W2, fun.fn, val)
    BY <1>3, <2>3, <2>5, LeadsReady
  <2> QED
    BY <1>1, <1>2, <1>5, <1>8, <2>5, <2>6, LeadsBack
<1> QED
  BY <1>6, <1>7, <1>8, ThrowUpheld

(* visit(CallExpr): the function called, and the arguments so far.         *)
LEMMA OperandsReady ==
    ASSUME NEW A, NEW W, NEW E, NEW G,
           Flow(genStk, E, G, ir, A, W, fun, val, genScope, genSyms), genStk # <<>>,
           Gen!N.kind = "Call"
    PROVE  /\ IsSeq(Gen!Operands)
           /\ \A i \in DOMAIN Gen!Operands : Ready(ir, A, W, fun.fn, Gen!Operands[i])
<1>1. Gen!N = Ast[Gen!Top.node] /\ Gen!Top.pc \in Nat
  BY Standing
<1>2. ~ Generates(Gen!Top)
  BY <1>1 DEF Generates, HoldsFunction
<1>3. CASE Gen!Top.pc = 0
  <2> DEFINE first == Gen!FunctionPtr(Gen!Callee)
  <2>1. Gen!Operands = Append(<<>>, first)
    BY <1>3 DEF Gen!Operands
  <2>2. Ready(ir, A, W, fun.fn, first)
    BY NotComputed, WithinAlways DEF Ready
  <2> HIDE DEF first
  <2> DEFINE none == <<>>
             L    == Append(none, first)
  <2>3. IsSeq(none) /\ Len(none) = 0
    BY EmptyIsSeq
  <2>4. Gen!Operands = L
    BY <2>1
  <2> HIDE DEF none
  <2>5. IsSeq(L) /\ Len(L) = 0 + 1 /\ L[0 + 1] = first
    BY <2>3, AppendFacts
  <2> HIDE DEF L
  <2>6. DOMAIN L = 1 .. 1 /\ L[1] = first
    BY <2>5, LenProperties DEF IsSeq
  <2> QED
    BY <2>2, <2>4, <2>5, <2>6
<1>4. CASE Gen!Top.pc > 0
  <2> DEFINE own == Gen!Top.own
  <2>1. Gen!Operands = Append(own, val)
    BY <1>1, <1>4 DEF Gen!Operands
  <2>2. IsSeq(own) /\ \A i \in DOMAIN own : Ready(ir, A, W, fun.fn, own[i])
    <3>1. Held(Gen!Top) = {own[i] : i \in DOMAIN own}
      BY <1>1, <1>4 DEF Held
    <3>2. Locals(Gen!Top, E[Len(genStk)], fun.fn, Past(A, ir.at), fun.fn, ir, A, W)
      BY <1>2, Working
    <3>3. \A v \in Held(Gen!Top) : Ready(ir, A, W, fun.fn, v)
      BY <1>2, Working
    <3>4. IsSeq(own)
      BY <1>1, <1>4, <3>2 DEF Locals
    <3> QED
      BY <3>1, <3>3, <3>4
  <2>3. Gen!Top.pc # 0
    BY <1>4
  <2>4. Ready(ir, A, W, fun.fn, val)
    BY <1>2, <2>3, OperandReady DEF Expressions
  <2> HIDE DEF own
  <2>5. /\ IsSeq(Append(own, val)) /\ Len(own) \in Nat
        /\ Len(Append(own, val)) = Len(own) + 1
        /\ \A i \in 1 .. Len(own) : Append(own, val)[i] = own[i]
        /\ Append(own, val)[Len(own) + 1] = val
    BY <2>2, AppendFacts
  <2>6. DOMAIN own = 1 .. Len(own) /\ DOMAIN Append(own, val) = 1 .. Len(own) + 1
    BY <2>2, <2>5, LenProperties DEF IsSeq
  <2>7. \A i \in 1 .. Len(own) + 1 : i \in 1 .. Len(own) \/ i = Len(own) + 1
    BY <2>5
  <2> QED
    BY <2>1, <2>2, <2>4, <2>5, <2>6, <2>7
<1> QED
  BY <1>1, <1>3, <1>4

(* visit(CallExpr): each operand is kept until the call is made.           *)
LEMMA FlowCall ==
    ASSUME Vouches(genStk, ir, fun, val, genScope, genSyms), Gen!VisitCall
    PROVE  Upheld
<1>1. PICK A, W, E, G : Flow(genStk, E, G, ir, A, W, fun, val, genScope, genSyms)
  BY DEF Vouches
<1>2. genStk # <<>> /\ Gen!N.kind = "Call" /\ UNCHANGED <<fun, genScope, genSyms>>
  BY DEF Gen!VisitCall, Gen!Visiting, Gen!Context
<1>3. /\ Gen!N = Ast[Gen!Top.node] /\ Gen!Top.node \in Node /\ Gen!Arity = Len(Gen!N.kids)
      /\ Gen!Arity \in Nat /\ Gen!Top.pc \in Nat
      /\ Here(ir, A, W, fun.fn) /\ Leads(ir, A, W, fun.fn, ir, A, W)
  BY <1>1, <1>2, Standing, FlowStays
<1>4. Plain(Gen!Top.node)
  BY <1>2, <1>3 DEF Plain, HoldsFunction, Connects
<1>5. Idle(Gen!Top) /\ ~ Generates(Gen!Top)
  BY <1>4, PlainIdle DEF Idle
<1> DEFINE m == Gen!BuildCall
           L == Gen!Operands
<1>6. IsSeq(L) /\ \A i \in DOMAIN L : Ready(ir, A, W, fun.fn, L[i])
  BY <1>1, <1>2, OperandsReady
<1>7. \/ Gen!Throw
      \/ Gen!Arity > 1 /\ Gen!Go(2, L, ir)
      \/ Gen!Top.pc < Gen!Arity /\ Gen!Go(Gen!Top.pc + 1, L, ir)
      \/ Gen!Finish(m, m.last)
  BY DEF Gen!VisitCall, Gen!FinishWith
<1>8. \E W2 : Runs(ir, A, W, fun.fn, m, W2) /\ Ready(m, A, W2, fun.fn, m.last)
  <2> DEFINE type == ir.funs[Gen!Detail(L[1])].ret
             none == <<>>
  <2>1. "call" # "phi" /\ "call" \notin Gen!Terminators
    BY DEF Gen!Terminators
  <2>2. m = Gen!Emit(ir, "call", type, L, none)
    BY DEF Gen!BuildCall
  <2> HIDE DEF type, none, L, m
  <2> QED
    BY <1>3, <1>6, <2>1, <2>2, PlainSound
<1> HIDE DEF m, L
<1>9. ASSUME NEW k \in 1 .. Gen!Arity, Gen!Go(k, L, ir)
      PROVE  Upheld
  <2> DEFINE f == Gen!Frame(Gen!Top.node, k, L, Gen!Top.saved)
  <2>1. f.node = Gen!Top.node /\ f.own = L /\ f.pc = k
    BY DEF Gen!Frame
  <2> HIDE DEF f
  <2>2. Idle(f)
    BY <1>4, PlainVisitor DEF f
  <2>3. Held(f) = {L[i] : i \in DOMAIN L} /\ Assigns(f, genSyms)
    BY <1>2, <1>3, <1>9, <2>1 DEF Held, Assigns
  <2>4. \A u \in Held(f) : Ready(ir, A, W, fun.fn, u)
    BY <1>6, <2>3
  <2> QED
    BY <1>1, <1>2, <1>3, <1>5, <1>6, <1>9, <2>2, <2>3, <2>4, IdleGoesDown DEF f
<1>10. CASE Gen!Arity > 1 /\ Gen!Go(2, L, ir)
  <2>1. 2 \in 1 .. Gen!Arity
    BY <1>3, <1>10
  <2> QED
    BY <1>9, <1>10, <2>1
<1>11. CASE Gen!Top.pc < Gen!Arity /\ Gen!Go(Gen!Top.pc + 1, L, ir)
  <2>1. Gen!Top.pc + 1 \in 1 .. Gen!Arity
    BY <1>3, <1>11
  <2> QED
    BY <1>9, <1>11, <2>1
<1>12. CASE Gen!Finish(m, m.last)
  <2>1. PICK W2 : Runs(ir, A, W, fun.fn, m, W2) /\ Ready(m, A, W2, fun.fn, m.last)
    BY <1>8
  <2> DEFINE v == m.last
  <2> HIDE DEF v
  <2>2. Leads(ir, A, W, fun.fn, m, A, W2) /\ Ready(m, A, W2, fun.fn, v) /\ Gen!Finish(m, v)
    BY <1>12, <2>1, RunsLeads DEF v
  <2> QED
    BY <1>1, <1>2, <1>5, <2>2, LeadsBack
<1> QED
  BY <1>7, <1>10, <1>11, <1>12, ThrowUpheld

(* visit(StmtList).                                                        *)
LEMMA FlowStmtList ==
    ASSUME Vouches(genStk, ir, fun, val, genScope, genSyms), Gen!VisitStmtList
    PROVE  Upheld
<1>1. PICK A, W, E, G : Flow(genStk, E, G, ir, A, W, fun, val, genScope, genSyms)
  BY DEF Vouches
<1>2. genStk # <<>> /\ Gen!N.kind = "StmtList" /\ UNCHANGED <<fun, genScope, genSyms>>
  BY DEF Gen!VisitStmtList, Gen!Visiting, Gen!Context
<1>3. /\ Gen!N = Ast[Gen!Top.node] /\ Gen!Top.node \in Node /\ Gen!Arity = Len(Gen!N.kids)
      /\ Gen!Arity \in Nat /\ Gen!Top.pc \in Nat
      /\ Here(ir, A, W, fun.fn) /\ Leads(ir, A, W, fun.fn, ir, A, W)
  BY <1>1, <1>2, Standing, FlowStays
<1>4. Plain(Gen!Top.node)
  BY <1>2, <1>3 DEF Plain, HoldsFunction, Connects
<1>5. Idle(Gen!Top) /\ ~ Generates(Gen!Top) /\ ~ Lags(Gen!Top) /\ Gen!N.kind # "Call"
  BY <1>2, <1>4, PlainIdle DEF Idle, Lags
<1> DEFINE none == <<>>
<1>6. \/ Gen!Top.pc < Gen!Arity /\ Gen!Go(Gen!Top.pc + 1, none, ir)
      \/ Gen!Finish(ir, val)
  BY DEF Gen!VisitStmtList
<1> HIDE DEF none
<1>7. CASE Gen!Top.pc < Gen!Arity /\ Gen!Go(Gen!Top.pc + 1, none, ir)
  <2> DEFINE k == Gen!Top.pc + 1
             f == Gen!Frame(Gen!Top.node, k, none, Gen!Top.saved)
  <2>1. f.node = Gen!Top.node
    BY DEF Gen!Frame
  <2>2. k \in 1 .. Gen!Arity /\ Gen!Go(k, none, ir)
    BY <1>3, <1>7
  <2> HIDE DEF f, k
  <2>3. Idle(f)
    BY <1>4, PlainVisitor DEF f
  <2>4. Held(f) = {} /\ Assigns(f, genSyms)
    BY <1>2, <1>3, <2>1 DEF Held, Assigns
  <2> QED
    BY <1>1, <1>2, <1>3, <1>5, <2>2, <2>3, <2>4, IdleGoesDown DEF f
<1>8. CASE Gen!Finish(ir, val)
  <2>1. Gen!N.kind \notin Expressions
    BY <1>2 DEF Expressions
  <2> QED
    BY <1>1, <1>2, <1>3, <1>5, <1>8, <2>1, LeadsBack
<1> QED
  BY <1>6, <1>7, <1>8

(* visit(LetStmt) of a variable: its slot is in the entry block.           *)
LEMMA FlowVariable ==
    ASSUME Vouches(genStk, ir, fun, val, genScope, genSyms), genStk # <<>>,
           Gen!N.kind = "Let", ~ Generates(Gen!Top), Gen!Top.pc = 1,
           Gen!LetVariable, UNCHANGED <<fun, genScope>>
    PROVE  Upheld
<1>1. PICK A, W, E, G : Flow(genStk, E, G, ir, A, W, fun, val, genScope, genSyms)
  BY DEF Vouches
<1> DEFINE type == Gen!Tid(val)
           m1   == Gen!Alloca(ir, fun.fn, type)
           slot == m1.last
           m2   == Gen!Store(m1, val, slot)
           sym  == Gen!Sym(notes[Gen!N.kids[1]], slot, 0)
           H    == Gen!Define(genSyms, genScope, Gen!N.name, sym)
<1>2. genSyms' = H /\ Gen!Finish(m2, val)
  BY DEF Gen!LetVariable
<1>3. sym.slot = slot
  BY DEF Gen!Sym
<1> HIDE DEF type, sym
<1>4. Here(ir, A, W, fun.fn) /\ Ready(ir, A, W, fun.fn, val)
  BY <1>1, FlowStays, OperandReady DEF Expressions
<1>5. PICK W1 : Runs(ir, A, W, fun.fn, m1, W1) /\ Fixed(m1, W1, m1.last)
  BY <1>4, AllocaSound
<1> HIDE DEF m1
<1>6. /\ Here(m1, A, W1, fun.fn) /\ Leads(ir, A, W, fun.fn, m1, A, W1)
      /\ Ready(m1, A, W1, fun.fn, val)
  BY <1>4, <1>5, RunsLeads, LeadsReady DEF Runs
<1>7. Ready(m1, A, W1, fun.fn, slot)
  BY <1>5, <1>6, FixedReady
<1>8. PICK W2 : Runs(m1, A, W1, fun.fn, m2, W2)
  BY <1>6, <1>7, StoreSound
<1>9. Fixed(m1, W1, slot)
  BY <1>5
<1> HIDE DEF m2, slot
<1>10. /\ Leads(m1, A, W1, fun.fn, m2, A, W2) /\ Ready(m2, A, W2, fun.fn, val)
       /\ Leads(ir, A, W, fun.fn, m2, A, W2)
  <2>1. Leads(m1, A, W1, fun.fn, m2, A, W2)
    BY <1>8, RunsLeads
  <2> QED
    BY <1>4, <1>6, <2>1, LeadsReady, LeadsOn
<1>11. /\ Here(m2, A, W2, fun.fn) /\ Grows(ir, A, W, m2, A, W2)
       /\ Sound(ir, A, W) /\ Sound(m1, A, W1) /\ Sound(m2, A, W2)
       /\ Grows(m1, A, W1, m2, A, W2)
  BY <1>4, <1>6, <1>10 DEF Leads, Here
<1>12. Fixed(m2, W2, slot)
  BY <1>9, <1>11, FixedKept
<1>13. /\ Returning(ir, A, W, fun) /\ Bindings(genSyms, ir, W)
       /\ genScope \in Seq(1 .. Len(genSyms))
  BY <1>1 DEF Flow
<1>14. Returning(m2, A, W2, fun) /\ Bindings(genSyms, m2, W2)
  BY <1>11, <1>13, ReturningKept, BindingsKept
<1>15. /\ Bindings(H, m2, W2) /\ Widens(genSyms, H) /\ Len(H) = Len(genSyms)
  BY <1>3, <1>12, <1>14, SymbolDefined
<1> HIDE DEF H
<1>16. E[Len(genStk)] \subseteq Past(A, m2.at) /\ G[Len(genStk)] = fun.fn
  <2>1. E[Len(genStk)] \subseteq Past(A, ir.at) /\ G[Len(genStk)] = fun.fn
    BY <1>1, Working
  <2> QED
    BY <1>10, <2>1 DEF Leads
<1> DEFINE t == SubSeq(genStk, 1, Len(genStk) - 1)
<1>17. Current(t, m2, A, W2, fun, val) /\ Known(m2, val)
  BY <1>10 DEF Current, Ready, Within, Known
<1>18. Vouches(t, m2, fun, val, genScope, H)
  BY <1>1, <1>11, <1>13, <1>14, <1>15, <1>16, <1>17, Pops
<1>19. genStk' = t /\ ir' = m2 /\ val' = val /\ fun' = fun /\ genScope' = genScope
  BY <1>2 DEF Gen!Finish, Gen!Built, Gen!Depth
<1> HIDE DEF t
<1> QED
  BY <1>2, <1>18, <1>19 DEF Upheld

(* visit(BinOpExpr): from the left operand of and and or to the right one, *)
(* in a block of its own; the merge block lies behind what has been passed.*)
LEMMA FlowRight ==
    ASSUME Vouches(genStk, ir, fun, val, genScope, genSyms), genStk # <<>>,
           UNCHANGED <<fun, genScope, genSyms>>,
           Connects(Gen!Top.node), Gen!Top.pc = 1, 2 \in 1 .. Gen!Arity,
           Gen!EvaluateRight
    PROVE  Upheld
<1>1. PICK A, W, E, G : Flow(genStk, E, G, ir, A, W, fun, val, genScope, genSyms)
  BY DEF Vouches
<1> DEFINE n  == Len(ir.blocks)
           x  == IF Gen!N.op = "and" THEN n + 1 ELSE n + 2
           y  == IF Gen!N.op = "and" THEN n + 2 ELSE n + 1
           m1 == Gen!NewBlock(Gen!NewBlock(ir, fun.fn), fun.fn)
           m2 == Gen!CondBr(m1, val, x, y)
           m3 == Gen!SetInsertPoint(m2, n + 1)
           locals == [left |-> ir.at, merge |-> n + 2]
           f  == Gen!Frame(Gen!Top.node, 2, locals, Gen!Top.saved)
<1>2. /\ Gen!N = Ast[Gen!Top.node] /\ Here(ir, A, W, fun.fn)
      /\ ~ Generates(Gen!Top) /\ ~ Lags(Gen!Top) /\ Gen!N.kind = "BinOp"
  <2>1. Gen!N = Ast[Gen!Top.node] /\ Here(ir, A, W, fun.fn)
    BY <1>1, Standing
  <2> QED
    BY <2>1 DEF Connects, Generates, HoldsFunction, Lags, Chooses, Repeats
<1>3. Gen!LastBlock(ir) = n /\ n \in Nat
  BY <1>2, SoundNumbers DEF Gen!LastBlock, Here
<1>4. Gen!Go(2, locals, m3)
  <2>1. (n + 1) + 1 = n + 2
    BY <1>3
  <2> QED
    BY <1>3, <2>1 DEF Gen!EvaluateRight
<1>5. Ready(ir, A, W, fun.fn, val)
  <2>1. Gen!N.kind \in Expressions \union {"Return"} /\ Gen!Top.pc # 0
    BY <1>2 DEF Expressions
  <2> QED
    BY <1>1, <1>2, <2>1, OperandReady
<1>6. PICK A2 : Opens(ir, A, W, fun.fn, 2, m1, A2)
  BY <1>2, OpensTwo
<1>7. x \in n + 1 .. n + 2 /\ y \in n + 1 .. n + 2
  BY <1>3
<1> HIDE DEF m1, x, y
<1>8. /\ Leads(ir, A, W, fun.fn, m1, A2, W) /\ Past(A2, m1.at) = Past(A, ir.at)
      /\ \A b \in n + 1 .. n + 2 : /\ b \in 1 .. Len(m1.blocks)
                                   /\ A2[b] = Past(A, ir.at) /\ Of(m1, b) = fun.fn
      /\ Here(m1, A2, W, fun.fn)
  BY <1>2, <1>6, OpensFacts DEF Opens
<1>9. Ready(m1, A2, W, fun.fn, val)
  BY <1>2, <1>5, <1>8, LeadsReady
<1>10. PICK W2 : Runs(m1, A2, W, fun.fn, m2, W2)
  <2>1. /\ x \in 1 .. Len(m1.blocks) /\ A2[x] \subseteq Past(A2, m1.at)
        /\ y \in 1 .. Len(m1.blocks) /\ A2[y] \subseteq Past(A2, m1.at)
    BY <1>7, <1>8
  <2> QED
    BY <1>8, <1>9, <2>1, CondBrSound
<1> HIDE DEF m2
<1>11. /\ Here(m2, A2, W2, fun.fn) /\ Leads(ir, A, W, fun.fn, m2, A2, W2)
       /\ Grows(m1, A2, W, m2, A2, W2) /\ Len(m2.blocks) = Len(m1.blocks)
  <2>1. Leads(m1, A2, W, fun.fn, m2, A2, W2)
    BY <1>10, RunsLeads
  <2> QED
    BY <1>2, <1>8, <1>10, <2>1, LeadsOn DEF Runs
<1>12. /\ n + 1 \in n + 1 .. n + 2 /\ n + 2 \in n + 1 .. n + 2
  BY <1>3
<1> HIDE DEF n
<1>13. n + 1 \in 1 .. Len(m2.blocks) /\ Of(m2, n + 1) = fun.fn
  BY <1>8, <1>11, <1>12 DEF Grows
<1>14. /\ Here(m3, A2, W2, fun.fn) /\ Grows(m2, A2, W2, m3, A2, W2) /\ m3.at = n + 1
       /\ Len(m3.blocks) = Len(m2.blocks) /\ \A c : Of(m3, c) = Of(m2, c)
  <2> DEFINE P == {}
  <2>1. P \subseteq Past(A2, n + 1)
    OBVIOUS
  <2> QED
    BY <1>11, <1>13, <2>1, PointLeads
<1> HIDE DEF m3
<1>15. Here(m3, A2, W2, fun.fn) /\ Grows(ir, A, W, m3, A2, W2)
  <2>1. Sound(ir, A, W) /\ Sound(m2, A2, W2) /\ Sound(m3, A2, W2) /\ Grows(ir, A, W, m2, A2, W2)
    BY <1>2, <1>11, <1>14 DEF Here, Leads
  <2> QED
    BY <1>14, <2>1, GrowsOn
<1>16. /\ Past(A, ir.at) \subseteq Past(A2, m3.at)
       /\ A2[n + 2] = Past(A, ir.at) /\ n + 2 \in 1 .. Len(m3.blocks)
       /\ Of(m3, n + 2) = fun.fn
  BY <1>8, <1>11, <1>12, <1>14 DEF Past, Grows
<1>17. E[Len(genStk)] \subseteq Past(A, ir.at)
  BY <1>1, <1>2, Working
<1>18. f.node = Gen!Top.node /\ f.pc = 2 /\ f.own.merge = n + 2
  BY DEF Gen!Frame
<1> HIDE DEF f, locals
<1>19. /\ Joins(f) /\ ~ Generates(f) /\ ~ Branches(f) /\ ~ Tests(f)
       /\ Held(f) = {} /\ Assigns(f, genSyms) /\ Ast[f.node].kind # "Call"
  BY <1>18 DEF Connects, Joins, Generates, HoldsFunction, Branches, Tests, Held, Assigns
<1>20. Dues(f) = {n + 2}
  BY <1>18, <1>19 DEF Dues
<1>21. Locals(f, E[Len(genStk)], fun.fn, Past(A2, m3.at), fun.fn, m3, A2, W2)
  <2>1. E[Len(genStk)] \subseteq A2[n + 2] /\ A2[n + 2] \subseteq Past(A2, m3.at)
    BY <1>16, <1>17
  <2> QED
    BY <1>16, <1>19, <1>20, <2>1 DEF Locals
<1>22. E[Len(genStk)] \subseteq Past(A2, m3.at)
  BY <1>16, <1>17
<1> QED
  BY <1>1, <1>2, <1>4, <1>15, <1>16, <1>19, <1>21, <1>22, GoesDown DEF f

(* From the right operand to the merge block, and its phi.                 *)
LEMMA FlowMerge ==
    ASSUME Vouches(genStk, ir, fun, val, genScope, genSyms), genStk # <<>>,
           UNCHANGED <<fun, genScope, genSyms>>,
           Joins(Gen!Top), Gen!MergeOperands
    PROVE  Upheld
<1>1. PICK A, W, E, G : Flow(genStk, E, G, ir, A, W, fun, val, genScope, genSyms)
  BY DEF Vouches
<1> DEFINE g    == Gen!Top.own.merge
           bool == Gen!PrimType("bool")
           c    == Gen!Constant(bool, Gen!N.op = "or")
           args == <<c, val>>
           to   == <<Gen!Top.own.left, ir.at>>
           m1   == Gen!Br(ir, g)
           m2   == Gen!SetInsertPoint(m1, g)
           m3   == Gen!Emit(m2, "phi", bool, args, to)
           L    == Len(genStk)
<1>2. /\ Gen!N = Ast[Gen!Top.node] /\ Here(ir, A, W, fun.fn)
      /\ ~ Generates(Gen!Top) /\ Gen!N.kind = "BinOp" /\ Gen!Top.pc = 2
  <2>1. Gen!N = Ast[Gen!Top.node] /\ Here(ir, A, W, fun.fn)
    BY <1>1, Standing
  <2> QED
    BY <2>1 DEF Joins, Connects, Generates, HoldsFunction
<1>3. Gen!Finish(m3, m3.last)
  BY DEF Gen!MergeOperands, Gen!FinishWith
<1>4. Ready(ir, A, W, fun.fn, val)
  <2>1. Gen!N.kind \in Expressions \union {"Return"} /\ Gen!Top.pc # 0
    BY <1>2 DEF Expressions
  <2> QED
    BY <1>1, <1>2, <2>1, OperandReady
<1>5. g \in 1 .. Len(ir.blocks) /\ Of(ir, g) = fun.fn /\ E[L] \subseteq A[g] /\ A[g] \subseteq Past(A, ir.at)
  <2>1. Dues(Gen!Top) = {g}
    BY DEF Dues
  <2>2. Locals(Gen!Top, E[L], fun.fn, Past(A, ir.at), fun.fn, ir, A, W)
    BY <1>1, <1>2, Working
  <2> QED
    BY <2>1, <2>2 DEF Locals
<1>6. /\ DOMAIN args = {1, 2} /\ args[1] = c /\ args[2] = val /\ to[2] = ir.at
      /\ Gen!Kind(c) # "inst"
  BY NotComputed
<1> HIDE DEF g, c, args, to, L, bool
<1>7. PICK W1 : Runs(ir, A, W, fun.fn, m1, W1)
  BY <1>2, <1>5, BrSound
<1> HIDE DEF m1
<1>8. /\ Here(m1, A, W1, fun.fn) /\ Grows(ir, A, W, m1, A, W1)
      /\ Len(m1.blocks) = Len(ir.blocks) /\ ir.at \in 1 .. Len(ir.blocks)
  BY <1>2, <1>7 DEF Runs, Here
<1>9. g \in 1 .. Len(m1.blocks) /\ Of(m1, g) = fun.fn
  BY <1>5, <1>8 DEF Grows
<1>10. /\ Here(m2, A, W1, fun.fn) /\ Grows(m1, A, W1, m2, A, W1) /\ m2.at = g
       /\ Len(m2.blocks) = Len(m1.blocks)
  <2> DEFINE P == {}
  <2>1. P \subseteq Past(A, g)
    OBVIOUS
  <2> QED
    BY <1>8, <1>9, <2>1, PointLeads
<1> HIDE DEF m2
<1>11. /\ Sound(ir, A, W) /\ Sound(m1, A, W1) /\ Sound(m2, A, W1)
       /\ Grows(ir, A, W, m2, A, W1)
  <2>1. Sound(ir, A, W) /\ Sound(m1, A, W1) /\ Sound(m2, A, W1)
    BY <1>2, <1>8, <1>10 DEF Here
  <2> QED
    BY <1>8, <1>10, <2>1, GrowsOn
<1>12. Within(m2, W1, val, Past(A, ir.at), fun.fn)
  BY <1>4, <1>11, WithinKept DEF Ready
<1>13. \A i \in DOMAIN args :
           /\ Gen!Kind(args[i]) = "inst" => to[i] \in 1 .. Len(m2.blocks)
           /\ Within(m2, W1, args[i], Past(A, to[i]), fun.fn)
  <2>1. Within(m2, W1, c, Past(A, to[1]), fun.fn)
    BY <1>6, WithinAlways
  <2> QED
    BY <1>6, <1>8, <1>10, <1>12, <2>1
<1>14. PICK W2 : /\ Runs(m2, A, W1, fun.fn, m3, W2)
                 /\ Within(m3, W2, m3.last, Past(A, m2.at), fun.fn)
  <2> DEFINE op == "phi"
  <2>1. op = "phi" /\ op \notin Gen!Terminators
    BY DEF Gen!Terminators
  <2> HIDE DEF op
  <2>2. \A i \in DOMAIN args :
            IF op = "phi"
            THEN /\ Gen!Kind(args[i]) = "inst" => to[i] \in 1 .. Len(m2.blocks)
                 /\ Within(m2, W1, args[i], Past(A, to[i]), fun.fn)
            ELSE Within(m2, W1, args[i], Past(A, m2.at), fun.fn)
    BY <1>13, <2>1
  <2>3. m3 = Gen!Emit(m2, op, bool, args, to)
    BY <2>1
  <2> HIDE DEF m3
  <2>4. \E W2 : /\ Runs(m2, A, W1, fun.fn, Gen!Emit(m2, op, bool, args, to), W2)
                /\ Within(Gen!Emit(m2, op, bool, args, to), W2,
                          Gen!Emit(m2, op, bool, args, to).last, Past(A, m2.at), fun.fn)
    BY <1>10, <2>1, <2>2, EmitSound
  <2> QED
    BY <2>3, <2>4
<1> DEFINE v == m3.last
<1> HIDE DEF m3, v
<1>15. /\ Here(m3, A, W2, fun.fn) /\ Grows(ir, A, W, m3, A, W2) /\ m3.at = g
       /\ Ready(m3, A, W2, fun.fn, v) /\ Gen!Finish(m3, v)
  <2>1. /\ Here(m3, A, W2, fun.fn) /\ Grows(m2, A, W1, m3, A, W2) /\ m3.at = g
        /\ Sound(m3, A, W2)
    BY <1>10, <1>14 DEF Runs, Here
  <2> QED
    BY <1>3, <1>10, <1>11, <1>14, <2>1, GrowsOn DEF v, Ready
<1>16. E[Len(genStk)] \subseteq Past(A, m3.at)
  BY <1>5, <1>15 DEF Past, L
<1> QED
  BY <1>1, <1>2, <1>15, <1>16, ComesBack

(* All of it.                                                              *)
LEMMA FlowBinOp ==
    ASSUME Vouches(genStk, ir, fun, val, genScope, genSyms), Gen!VisitBinOp
    PROVE  Upheld
<1>1. PICK A, W, E, G : Flow(genStk, E, G, ir, A, W, fun, val, genScope, genSyms)
  BY DEF Vouches
<1>2. genStk # <<>> /\ Gen!N.kind = "BinOp" /\ UNCHANGED <<fun, genScope, genSyms>>
  BY DEF Gen!VisitBinOp, Gen!Visiting, Gen!Context
<1>3. /\ Gen!N = Ast[Gen!Top.node] /\ Gen!Top.node \in Node /\ Gen!Arity = Len(Gen!N.kids)
      /\ Here(ir, A, W, fun.fn) /\ Leads(ir, A, W, fun.fn, ir, A, W)
  BY <1>1, <1>2, Standing, FlowStays
<1>4. /\ 1 \in 1 .. Gen!Arity /\ 2 \in 1 .. Gen!Arity /\ Gen!N.op \in BinaryOps
  BY <1>2, <1>3, SyntaxAssumption DEF Arities
<1>5. /\ Gen!Logical <=> Connects(Gen!Top.node)
      /\ Ast[Gen!Top.node].kind \notin {"If", "While"} /\ ~ HoldsFunction(Gen!Top.node)
      /\ Gen!N.kind # "Call" /\ ~ Generates(Gen!Top)
  BY <1>2, <1>3 DEF Gen!Logical, Connects, HoldsFunction, Generates
<1> DEFINE none == <<>>
           own  == Gen!Top.own
           m    == Gen!ApplyBinOp(own, val)
<1>6. \/ Gen!Top.pc = 0 /\ Gen!Go(1, none, ir)
      \/ Gen!Top.pc = 1 /\ Gen!Logical /\ Gen!EvaluateRight
      \/ Gen!Top.pc = 1 /\ ~ Gen!Logical /\ Gen!Go(2, val, ir)
      \/ Gen!Top.pc = 2 /\ Gen!Logical /\ Gen!MergeOperands
      \/ Gen!Top.pc = 2 /\ ~ Gen!Logical /\ Gen!Finish(m, m.last)
  BY DEF Gen!VisitBinOp, Gen!FinishWith
<1> HIDE DEF none, own
<1>7. ASSUME Gen!Top.pc # 0
      PROVE  Ready(ir, A, W, fun.fn, val)
  BY <1>1, <1>2, <1>5, <1>7, OperandReady DEF Expressions
<1>8. CASE Gen!Top.pc = 0 /\ Gen!Go(1, none, ir)
  <2> DEFINE f == Gen!Frame(Gen!Top.node, 1, none, Gen!Top.saved)
  <2>1. f.node = Gen!Top.node /\ f.pc = 1
    BY DEF Gen!Frame
  <2> HIDE DEF f
  <2>2. Idle(f) /\ Idle(Gen!Top)
    BY <1>5, <1>8, <2>1, PlainIdle DEF Idle, Generates, Joins, Branches, Chooses, Tests, Repeats
  <2>3. Held(f) = {} /\ Assigns(f, genSyms)
    BY <1>2, <1>3, <2>1 DEF Held, Assigns
  <2> QED
    BY <1>1, <1>2, <1>3, <1>4, <1>5, <1>8, <2>2, <2>3, IdleGoesDown DEF f
<1>9. CASE Gen!Top.pc = 1 /\ Gen!Logical /\ Gen!EvaluateRight
  BY <1>2, <1>4, <1>5, <1>9, FlowRight
<1>10. CASE Gen!Top.pc = 1 /\ ~ Gen!Logical /\ Gen!Go(2, val, ir)
  <2> DEFINE f == Gen!Frame(Gen!Top.node, 2, val, Gen!Top.saved)
  <2>1. f.node = Gen!Top.node /\ f.pc = 2 /\ f.own = val
    BY DEF Gen!Frame
  <2> HIDE DEF f
  <2>2. Plain(Gen!Top.node)
    BY <1>5, <1>10 DEF Plain
  <2>3. Idle(f) /\ Idle(Gen!Top)
    BY <2>2, PlainVisitor DEF f
  <2>4. Held(f) \subseteq {val} /\ Assigns(f, genSyms)
    BY <1>2, <1>3, <2>1 DEF Held, Assigns
  <2>5. \A u \in Held(f) : Ready(ir, A, W, fun.fn, u)
    BY <1>7, <1>10, <2>4
  <2> QED
    BY <1>1, <1>2, <1>3, <1>4, <1>5, <1>10, <2>3, <2>4, <2>5, IdleGoesDown DEF f
<1>11. CASE Gen!Top.pc = 2 /\ Gen!Logical /\ Gen!MergeOperands
  BY <1>2, <1>5, <1>11, FlowMerge DEF Joins
<1>12. CASE Gen!Top.pc = 2 /\ ~ Gen!Logical /\ Gen!Finish(m, m.last)
  <2>1. Held(Gen!Top) = {own}
    BY <1>2, <1>3, <1>5, <1>12 DEF Held, own
  <2>2. Ready(ir, A, W, fun.fn, own)
    BY <1>1, <1>2, <1>5, <2>1, Working
  <2>3. PICK A2, W2 : /\ Leads(ir, A, W, fun.fn, m, A2, W2)
                      /\ Ready(m, A2, W2, fun.fn, m.last)
    BY <1>3, <1>4, <1>7, <1>12, <2>2, OperatorSound
  <2> DEFINE v == m.last
  <2> HIDE DEF m, v
  <2>4. Gen!Finish(m, v) /\ Ready(m, A2, W2, fun.fn, v)
    BY <1>12, <2>3 DEF v
  <2> QED
    BY <1>1, <1>2, <1>5, <2>3, <2>4, LeadsBack
<1> QED
  BY <1>6, <1>8, <1>9, <1>10, <1>11, <1>12

-----------------------------------------------------------------------------
(* Statements.                                                             *)

(* visit(BlockStmt): a scope more, and one less.                           *)
LEMMA FlowEnterBlock ==
    ASSUME Vouches(genStk, ir, fun, val, genScope, genSyms), genStk # <<>>,
           Gen!N.kind = "Block", UNCHANGED fun, Gen!EnterBlock
    PROVE  Upheld
<1>1. PICK A, W, E, G : Flow(genStk, E, G, ir, A, W, fun, val, genScope, genSyms)
  BY DEF Vouches
<1>2. /\ Gen!N = Ast[Gen!Top.node] /\ Gen!Top.node \in Node /\ Gen!Arity = Len(Gen!N.kids)
      /\ Gen!Top.pc \in Nat /\ Here(ir, A, W, fun.fn) /\ Leads(ir, A, W, fun.fn, ir, A, W)
  BY <1>1, Standing, FlowStays
<1>3. Plain(Gen!Top.node)
  BY <1>2 DEF Plain, HoldsFunction, Connects
<1>4. ~ Generates(Gen!Top) /\ ~ Lags(Gen!Top)
  BY <1>3, PlainIdle DEF Idle, Lags
<1> DEFINE none == <<>>
           c    == Gen!N.kids[1]
           H    == Gen!Extend(genSyms, Gen!NoBindings)
           env  == Gen!Child(genSyms, genScope)
           f    == Gen!Frame(Gen!Top.node, 1, none, Gen!Top.saved)
           g    == Gen!Entry(c, env)
           t    == PushOver(genStk, f, g)
<1>5. genStk' = t /\ ir' = ir /\ val' = val /\ genScope' = env /\ genSyms' = H
  BY DEF Gen!EnterBlock, Gen!Accept, Gen!Built, Gen!Depth, PushOver
<1>6. 1 \in 1 .. Gen!Arity
  BY <1>2, SyntaxAssumption DEF Arities
<1>7. c \in Node
  BY <1>2, <1>6, ChildNode
<1>8. f.node = Gen!Top.node /\ f.pc = 1 /\ g.node = c /\ g.pc = 0
  BY DEF Gen!Frame, Gen!Entry
<1>9. Follows(f, g)
  BY <1>2, <1>8 DEF Follows
<1> HIDE DEF f
<1>10. Idle(f) /\ ~ Generates(f)
  BY <1>3, PlainVisitor DEF f, Idle
<1>11. Held(f) = {} /\ Assigns(f, H) /\ Dues(f) = {} /\ ~ Branches(f) /\ ~ Tests(f)
  BY <1>2, <1>8, <1>10 DEF Held, Assigns, Dues, Idle
<1> HIDE DEF g, c, H, env, t
<1>12. /\ Bindings(genSyms, ir, W) /\ genScope \in Seq(1 .. Len(genSyms))
       /\ Returning(ir, A, W, fun) /\ Current(genStk, ir, A, W, fun, val)
       /\ Sound(ir, A, W)
  BY <1>1, <1>2 DEF Flow, Here
<1>13. Bindings(H, ir, W) /\ Widens(genSyms, H) /\ env \in Seq(1 .. Len(H))
  BY <1>12, ScopeAdded DEF H, env
<1>14. Grows(ir, A, W, ir, A, W)
  BY <1>2 DEF Leads
<1>15. Keeps(f, E[Len(genStk)], G[Len(genStk)], Past(A, ir.at), fun.fn, ir, A, W)
  <2>1. E[Len(genStk)] \subseteq Past(A, ir.at) /\ G[Len(genStk)] = fun.fn
    BY <1>1, <1>4, Working
  <2>2. f.pc <= Len(Ast[f.node].kids)
    BY <1>2, <1>6, <1>8
  <2>3. Ast[f.node].kind # "Call"
    BY <1>2, <1>8
  <2> QED
    BY <1>2, <1>8, <1>10, <1>11, <2>1, <2>2, <2>3 DEF Keeps, Locals
<1>16. \/ Stale(genStk) /\ ~ Lags(Gen!Top) /\ ~ Generates(f)
       \/ Within(ir, W, val, Past(A, ir.at), fun.fn)
  BY <1>4, <1>10, <1>12 DEF Current
<1>17. Vouches(PushOver(genStk, f, g), ir, fun, val, env, H)
  BY <1>1, <1>2, <1>7, <1>8, <1>9, <1>11, <1>12, <1>13, <1>14, <1>15, <1>16, Pushes
<1> QED
  BY <1>5, <1>17 DEF Upheld, t

(* visit(BlockExpr) behind its last statement: the scope is popped.        *)
LEMMA FlowLeaveBlock ==
    ASSUME Vouches(genStk, ir, fun, val, genScope, genSyms), genStk # <<>>,
           Gen!N.kind = "Block", UNCHANGED fun, Gen!LeaveBlock
    PROVE  Upheld
<1>1. PICK A, W, E, G : Flow(genStk, E, G, ir, A, W, fun, val, genScope, genSyms)
  BY DEF Vouches
<1>2. /\ Gen!N = Ast[Gen!Top.node] /\ Gen!Top = genStk[Len(genStk)]
      /\ Here(ir, A, W, fun.fn) /\ Leads(ir, A, W, fun.fn, ir, A, W)
  BY <1>1, Standing, FlowStays
<1>3. Plain(Gen!Top.node)
  BY <1>2 DEF Plain, HoldsFunction, Connects
<1>4. ~ Generates(Gen!Top) /\ ~ Lags(Gen!Top)
  BY <1>3, PlainIdle DEF Idle, Lags
<1> DEFINE t   == SubSeq(genStk, 1, Len(genStk) - 1)
           env == Gen!Parent(genScope)
<1>5. genStk' = t /\ ir' = ir /\ val' = val /\ genScope' = env /\ genSyms' = genSyms
  BY DEF Gen!LeaveBlock, Gen!Finish, Gen!Built, Gen!Depth
<1>6. /\ Bindings(genSyms, ir, W) /\ genScope \in Seq(1 .. Len(genSyms))
      /\ Returning(ir, A, W, fun) /\ Current(genStk, ir, A, W, fun, val)
      /\ Known(ir, val) /\ Sound(ir, A, W) /\ Trail(genStk, E, G, genSyms, ir, A, W)
  BY <1>1, <1>2 DEF Flow, Here
<1>7. Widens(genSyms, genSyms) /\ env \in Seq(1 .. Len(genSyms)) /\ Grows(ir, A, W, ir, A, W)
  BY <1>2, <1>6, ScopeAdded, BindingsKept DEF Leads
<1>8. Current(t, ir, A, W, fun, val)
  <2>1. CASE Stale(genStk)
    <3>1. Ast[genStk[Len(genStk)].node].kind \notin Expressions /\ ~ Lags(genStk[Len(genStk)])
      BY <1>2, <1>4 DEF Expressions
    <3>2. Stale(t) /\ ~ Awaiting(t)
      BY <1>6, <2>1, <3>1, StalePopped
    <3> HIDE DEF t
    <3> QED
      BY <3>2 DEF Current
  <2> QED
    BY <1>6, <2>1 DEF Current
<1>9. E[Len(genStk)] \subseteq Past(A, ir.at) /\ G[Len(genStk)] = fun.fn
  BY <1>1, <1>4, Working
<1> HIDE DEF env
<1>10. Vouches(t, ir, fun, val, env, genSyms)
  BY <1>1, <1>2, <1>6, <1>7, <1>8, <1>9, Pops
<1> HIDE DEF t
<1> QED
  BY <1>5, <1>10 DEF Upheld

(* All of it.                                                              *)
LEMMA FlowBlock ==
    ASSUME Vouches(genStk, ir, fun, val, genScope, genSyms), Gen!VisitBlock
    PROVE  Upheld
<1>1. /\ genStk # <<>> /\ Gen!N.kind = "Block" /\ UNCHANGED fun
      /\ Gen!EnterBlock \/ Gen!LeaveBlock
  BY DEF Gen!VisitBlock, Gen!Visiting
<1> QED
  BY <1>1, FlowEnterBlock, FlowLeaveBlock

(* A result is stored in the slot of the entry block, and every block of   *)
(* the function has passed what the return block lies behind.              *)
LEMMA ReturnSound ==
    ASSUME NEW A, NEW W, Here(ir, A, W, fun.fn), Returning(ir, A, W, fun),
           NEW v, Ready(ir, A, W, fun.fn, v)
    PROVE  \E W2 : Runs(ir, A, W, fun.fn, Gen!ReturnValue(v), W2)
<1>1. CASE fun.retBlock = 0
  <2> DEFINE args == <<v>>
  <2>1. Gen!ReturnValue(v) = Gen!Emit(ir, "ret", Gen!Void, args, <<>>)
    BY <1>1 DEF Gen!ReturnValue
  <2>2. \A i \in DOMAIN args : Ready(ir, A, W, fun.fn, args[i])
    OBVIOUS
  <2> HIDE DEF args
  <2> QED
    BY <2>1, <2>2, RetSound
<1>2. CASE fun.retBlock # 0
  <2> DEFINE m1 == Gen!Store(ir, v, fun.retAlloca)
             m2 == Gen!Br(m1, fun.retBlock)
  <2>1. Gen!ReturnValue(v) = m2
    BY <1>2 DEF Gen!ReturnValue
  <2>2. /\ fun.retBlock \in 1 .. Len(ir.blocks) /\ Fixed(ir, W, fun.retAlloca)
    BY <1>2 DEF Returning
  <2>3. Ready(ir, A, W, fun.fn, fun.retAlloca)
    BY <2>2, FixedReady
  <2>4. PICK W1 : Runs(ir, A, W, fun.fn, m1, W1)
    BY <2>3, StoreSound
  <2>5. A[fun.retBlock] \subseteq Past(A, ir.at)
    BY <1>2, ReturnPast DEF Here
  <2> HIDE DEF m1
  <2>6. /\ Here(m1, A, W1, fun.fn) /\ fun.retBlock \in 1 .. Len(m1.blocks)
        /\ A[fun.retBlock] \subseteq Past(A, m1.at)
    BY <2>2, <2>4, <2>5 DEF Runs
  <2>7. PICK W2 : Runs(m1, A, W1, fun.fn, m2, W2)
    BY <2>6, BrSound
  <2> HIDE DEF m2
  <2>8. Runs(ir, A, W, fun.fn, m2, W2)
    BY <2>4, <2>7, RunsOn
  <2> QED
    BY <2>1, <2>8
<1> QED
  BY <1>1, <1>2

(* visit(ReturnStmt).                                                      *)
LEMMA FlowReturn ==
    ASSUME Vouches(genStk, ir, fun, val, genScope, genSyms), Gen!VisitReturn
    PROVE  Upheld
<1>1. PICK A, W, E, G : Flow(genStk, E, G, ir, A, W, fun, val, genScope, genSyms)
  BY DEF Vouches
<1>2. genStk # <<>> /\ Gen!N.kind = "Return" /\ UNCHANGED <<fun, genScope, genSyms>>
  BY DEF Gen!VisitReturn, Gen!Visiting, Gen!Context
<1>3. /\ Gen!N = Ast[Gen!Top.node] /\ Gen!Top.node \in Node /\ Gen!Arity = Len(Gen!N.kids)
      /\ Here(ir, A, W, fun.fn) /\ Leads(ir, A, W, fun.fn, ir, A, W)
      /\ Returning(ir, A, W, fun)
  BY <1>1, <1>2, Standing, FlowStays DEF Flow
<1>4. Plain(Gen!Top.node)
  BY <1>2, <1>3 DEF Plain, HoldsFunction, Connects
<1>5. Idle(Gen!Top) /\ ~ Generates(Gen!Top) /\ ~ Lags(Gen!Top) /\ Gen!N.kind # "Call"
  BY <1>2, <1>4, PlainIdle DEF Idle, Lags
<1> DEFINE none == <<>>
           r1   == Gen!Emit(ir, "ret", Gen!Void, none, <<>>)
           r2   == Gen!ReturnValue(val)
           m1   == Gen!Unreachable(r1)
           m2   == Gen!Unreachable(r2)
<1>6. \/ Gen!Arity = 1 /\ Gen!Go(1, none, ir)
      \/ Gen!Finish(m1, val)
      \/ Gen!Top.pc = 1 /\ Gen!Finish(m2, val)
  BY DEF Gen!VisitReturn
<1>7. DOMAIN none = {}
  BY EmptyIsSeq
<1> HIDE DEF none
<1>8. \E W1 : Runs(ir, A, W, fun.fn, r1, W1)
  BY <1>3, <1>7, RetSound
<1>9. ASSUME Gen!Top.pc = 1
      PROVE  \E W1 : Runs(ir, A, W, fun.fn, r2, W1)
  <2>1. Ready(ir, A, W, fun.fn, val)
    BY <1>1, <1>2, <1>5, <1>9, OperandReady
  <2> QED
    BY <1>3, <2>1, ReturnSound
<1> HIDE DEF r1, r2
<1>10. ASSUME NEW r, NEW W1, Runs(ir, A, W, fun.fn, r, W1), Gen!Finish(Gen!Unreachable(r), val)
       PROVE  Upheld
  <2> DEFINE m == Gen!Unreachable(r)
  <2>1. Here(r, A, W1, fun.fn) /\ Leads(ir, A, W, fun.fn, r, A, W1)
    BY <1>10, RunsLeads DEF Runs
  <2>2. PICK A2 : Leads(r, A, W1, fun.fn, m, A2, W1)
    BY <2>1, UnreachableSound
  <2>3. Gen!Finish(m, val)
    BY <1>10
  <2> HIDE DEF m
  <2>4. Leads(ir, A, W, fun.fn, m, A2, W1)
    BY <1>3, <2>1, <2>2, LeadsOn
  <2>5. Gen!N.kind \notin Expressions
    BY <1>2 DEF Expressions
  <2> QED
    BY <1>1, <1>2, <1>5, <2>3, <2>4, <2>5, LeadsBack
<1>11. CASE Gen!Arity = 1 /\ Gen!Go(1, none, ir)
  <2> DEFINE f == Gen!Frame(Gen!Top.node, 1, none, Gen!Top.saved)
  <2>1. f.node = Gen!Top.node
    BY DEF Gen!Frame
  <2>2. 1 \in 1 .. Gen!Arity
    BY <1>11
  <2> HIDE DEF f
  <2>3. Idle(f)
    BY <1>4, PlainVisitor DEF f
  <2>4. Held(f) = {} /\ Assigns(f, genSyms)
    BY <1>2, <1>3, <2>1 DEF Held, Assigns
  <2> QED
    BY <1>1, <1>2, <1>3, <1>5, <1>11, <2>2, <2>3, <2>4, IdleGoesDown DEF f
<1>12. CASE Gen!Finish(m1, val)
  BY <1>8, <1>10, <1>12
<1>13. CASE Gen!Top.pc = 1 /\ Gen!Finish(m2, val)
  BY <1>9, <1>10, <1>13
<1> QED
  BY <1>6, <1>11, <1>12, <1>13

-----------------------------------------------------------------------------
(* Branches and loops.                                                     *)

(* What has grown, with the insertion point in block b.                    *)
Points(m, A, W, f, m2, m3, A2, W2, b) ==
    /\ Here(m3, A2, W2, f) /\ Grows(m, A, W, m3, A2, W2)
    /\ m3.at = b /\ Len(m3.blocks) = Len(m2.blocks)
    /\ \A c : Of(m3, c) = Of(m2, c)

(* The insertion point is set in a module that has grown.                  *)
LEMMA PointAfter ==
    ASSUME NEW m, NEW A, NEW W, NEW f, Here(m, A, W, f),
           NEW m2, NEW A2, NEW W2, Here(m2, A2, W2, f), Grows(m, A, W, m2, A2, W2),
           NEW b \in 1 .. Len(m2.blocks), Of(m2, b) = f
    PROVE  Points(m, A, W, f, m2, Gen!SetInsertPoint(m2, b), A2, W2, b)
<1> DEFINE m3 == Gen!SetInsertPoint(m2, b)
           P  == {}
<1>1. P \subseteq Past(A2, b)
  OBVIOUS
<1>2. /\ Here(m3, A2, W2, f) /\ Grows(m2, A2, W2, m3, A2, W2) /\ m3.at = b
      /\ Len(m3.blocks) = Len(m2.blocks) /\ \A c : Of(m3, c) = Of(m2, c)
  BY <1>1, PointLeads
<1> HIDE DEF m3
<1>3. Grows(m, A, W, m3, A2, W2)
  BY <1>2, GrowsOn DEF Here
<1> QED
  BY <1>2, <1>3 DEF Points, m3

(* A branch where there is none yet.                                       *)
LEMMA BrUnlessSound ==
    ASSUME NEW m, NEW A, NEW W, NEW f, Here(m, A, W, f),
           NEW b \in 1 .. Len(m.blocks), A[b] \subseteq Past(A, m.at)
    PROVE  \E W2 : Runs(m, A, W, f, Gen!BrUnlessTerminated(m, b), W2)
<1>1. Runs(m, A, W, f, m, W)
  <2>1. Grows(m, A, W, m, A, W)
    BY GrowsNot DEF Here
  <2> QED
    BY <2>1 DEF Runs
<1>2. \E W2 : Runs(m, A, W, f, Gen!Br(m, b), W2)
  BY BrSound
<1> QED
  BY <1>1, <1>2 DEF Gen!BrUnlessTerminated

(* Three blocks more.                                                      *)
LEMMA OpensThree ==
    ASSUME NEW m, NEW A, NEW W, NEW f, Here(m, A, W, f)
    PROVE  \E A2 : Opens(m, A, W, f, 3,
                         Gen!NewBlock(Gen!NewBlock(Gen!NewBlock(m, f), f), f), A2)
<1>1. PICK A1 : Opens(m, A, W, f, 2, Gen!NewBlock(Gen!NewBlock(m, f), f), A1)
  BY OpensTwo
<1> DEFINE m1 == Gen!NewBlock(Gen!NewBlock(m, f), f)
<1> HIDE DEF m1
<1>2. Opens(m, A, W, f, 2, m1, A1)
  BY <1>1 DEF m1
<1>3. \E A2 : Opens(m, A, W, f, 2 + 1, Gen!NewBlock(m1, f), A2)
  BY <1>2, OpensMore
<1> QED
  BY <1>3 DEF m1

(* visit(WhileStmt): the condition, the body and what follows lie behind   *)
(* what has been passed so far.                                            *)
LEMMA FlowEnterLoop ==
    ASSUME Vouches(genStk, ir, fun, val, genScope, genSyms), genStk # <<>>,
           UNCHANGED <<fun, genScope, genSyms>>,
           Gen!N.kind = "While", Gen!Top.pc = 0, 1 \in 1 .. Gen!Arity, Gen!EnterLoop
    PROVE  Upheld
<1>1. PICK A, W, E, G : Flow(genStk, E, G, ir, A, W, fun, val, genScope, genSyms)
  BY DEF Vouches
<1> DEFINE n  == Len(ir.blocks)
           m1 == Gen!NewBlock(Gen!NewBlock(Gen!NewBlock(ir, fun.fn), fun.fn), fun.fn)
           m2 == Gen!Br(m1, n + 1)
           m3 == Gen!SetInsertPoint(m2, n + 1)
           locals == [cond |-> n + 1]
           f  == Gen!Frame(Gen!Top.node, 1, locals, Gen!Top.saved)
           P  == Past(A, ir.at)
<1>2. /\ Gen!N = Ast[Gen!Top.node] /\ Here(ir, A, W, fun.fn)
      /\ ~ Generates(Gen!Top) /\ ~ Lags(Gen!Top)
  <2>1. Gen!N = Ast[Gen!Top.node] /\ Here(ir, A, W, fun.fn)
    BY <1>1, Standing
  <2> QED
    BY <2>1 DEF Generates, HoldsFunction, Lags, Chooses, Repeats
<1>3. Gen!LastBlock(ir) = n /\ n \in Nat
  BY <1>2, SoundNumbers DEF Gen!LastBlock, Here
<1>4. Gen!Go(1, locals, m3)
  BY <1>3 DEF Gen!EnterLoop
<1>5. PICK A2 : Opens(ir, A, W, fun.fn, 3, m1, A2)
  BY <1>2, OpensThree
<1> HIDE DEF m1
<1>6. /\ Leads(ir, A, W, fun.fn, m1, A2, W) /\ Past(A2, m1.at) = P
      /\ \A b \in n + 1 .. n + 3 : /\ b \in 1 .. Len(m1.blocks)
                                   /\ A2[b] = P /\ Of(m1, b) = fun.fn
      /\ Here(m1, A2, W, fun.fn)
  BY <1>2, <1>5, OpensFacts DEF Opens
<1>7. /\ n + 1 \in n + 1 .. n + 3 /\ n + 2 \in n + 1 .. n + 3 /\ n + 3 \in n + 1 .. n + 3
      /\ (n + 1) + 1 = n + 2 /\ (n + 1) + 2 = n + 3
  BY <1>3
<1> HIDE DEF n
<1>8. PICK W2 : Runs(m1, A2, W, fun.fn, m2, W2)
  <2>1. n + 1 \in 1 .. Len(m1.blocks) /\ A2[n + 1] \subseteq Past(A2, m1.at)
    BY <1>6, <1>7
  <2> QED
    BY <1>6, <2>1, BrSound
<1> HIDE DEF m2
<1>9. /\ Here(m2, A2, W2, fun.fn) /\ Grows(ir, A, W, m2, A2, W2)
      /\ Grows(m1, A2, W, m2, A2, W2) /\ Len(m2.blocks) = Len(m1.blocks)
  <2>1. Leads(m1, A2, W, fun.fn, m2, A2, W2)
    BY <1>8, RunsLeads
  <2>2. Leads(ir, A, W, fun.fn, m2, A2, W2)
    BY <1>2, <1>6, <2>1, LeadsOn
  <2> QED
    BY <1>8, <2>2 DEF Runs, Leads
<1>10. \A b \in n + 1 .. n + 3 : b \in 1 .. Len(m2.blocks) /\ Of(m2, b) = fun.fn
  BY <1>6, <1>9 DEF Grows
<1>11. Points(ir, A, W, fun.fn, m2, m3, A2, W2, n + 1)
  BY <1>2, <1>7, <1>9, <1>10, PointAfter
<1> HIDE DEF m3
<1>12. /\ Here(m3, A2, W2, fun.fn) /\ Grows(ir, A, W, m3, A2, W2)
       /\ P \subseteq Past(A2, m3.at)
       /\ \A b \in n + 1 .. n + 3 : /\ b \in 1 .. Len(m3.blocks) /\ Of(m3, b) = fun.fn
                                    /\ A2[b] = P
  BY <1>6, <1>7, <1>10, <1>11 DEF Points, Past
<1>13. E[Len(genStk)] \subseteq P
  BY <1>1, <1>2, Working
<1>14. f.node = Gen!Top.node /\ f.pc = 1 /\ f.own.cond = n + 1
  BY DEF Gen!Frame
<1> HIDE DEF f, locals, P
<1>15. /\ Tests(f) /\ ~ Generates(f) /\ ~ Branches(f) /\ ~ Joins(f) /\ ~ Chooses(f)
       /\ Held(f) = {} /\ Assigns(f, genSyms) /\ Ast[f.node].kind # "Call"
  BY <1>2, <1>14 DEF Tests, Connects, Joins, Chooses, Generates, HoldsFunction, Branches, Held, Assigns
<1>16. Dues(f) = {n + 1, n + 2, n + 3}
  BY <1>7, <1>14, <1>15 DEF Dues
<1>17. Locals(f, E[Len(genStk)], fun.fn, Past(A2, m3.at), fun.fn, m3, A2, W2)
  BY <1>7, <1>12, <1>13, <1>14, <1>15, <1>16 DEF Locals
<1>18. E[Len(genStk)] \subseteq Past(A2, m3.at)
  BY <1>12, <1>13
<1> QED
  BY <1>1, <1>2, <1>4, <1>12, <1>15, <1>17, <1>18, GoesDown DEF f, P

(* From the condition to the body, or on.                                  *)
LEMMA FlowLoopBody ==
    ASSUME Vouches(genStk, ir, fun, val, genScope, genSyms), genStk # <<>>,
           UNCHANGED <<fun, genScope, genSyms>>,
           Tests(Gen!Top), 2 \in 1 .. Gen!Arity, Gen!EnterLoopBody
    PROVE  Upheld
<1>1. PICK A, W, E, G : Flow(genStk, E, G, ir, A, W, fun, val, genScope, genSyms)
  BY DEF Vouches
<1> DEFINE c  == Gen!Top.own.cond
           own == Gen!Top.own
           m1 == Gen!ToBool(val)
           v  == m1.last
           m2 == Gen!CondBr(m1, v, c + 1, c + 2)
           m3 == Gen!SetInsertPoint(m2, c + 1)
           f  == Gen!Frame(Gen!Top.node, 2, own, Gen!Top.saved)
           P  == Past(A, ir.at)
<1>2. /\ Gen!N = Ast[Gen!Top.node] /\ Here(ir, A, W, fun.fn)
      /\ ~ Generates(Gen!Top) /\ Gen!N.kind = "While" /\ Gen!Top.pc = 1
      /\ ~ Branches(Gen!Top) /\ ~ Joins(Gen!Top) /\ ~ Chooses(Gen!Top)
  <2>1. Gen!N = Ast[Gen!Top.node] /\ Here(ir, A, W, fun.fn)
    BY <1>1, Standing
  <2> QED
    BY <2>1 DEF Tests, Generates, HoldsFunction, Branches, Joins, Connects, Chooses
<1>3. Gen!Go(2, own, m3)
  BY DEF Gen!EnterLoopBody
<1>4. Ready(ir, A, W, fun.fn, val)
  <2>1. Gen!Top.pc \in ValuePlaces(Gen!Top.node)
    BY <1>2 DEF ValuePlaces, Expressions
  <2> QED
    BY <1>1, <1>2, <2>1, Working
<1>5. /\ \A b \in {c, c + 1, c + 2} : /\ b \in 1 .. Len(ir.blocks) /\ Of(ir, b) = fun.fn
                                      /\ E[Len(genStk)] \subseteq A[b] /\ A[b] \subseteq P
      /\ A[c] \subseteq A[c + 1] /\ A[c + 2] \subseteq A[c + 1]
  <2>1. Dues(Gen!Top) = {c, c + 1, c + 2}
    BY <1>2 DEF Dues
  <2>2. Locals(Gen!Top, E[Len(genStk)], fun.fn, P, fun.fn, ir, A, W)
    BY <1>1, <1>2, Working
  <2> HIDE DEF P
  <2> QED
    BY <2>1, <2>2 DEF Locals
<1>6. PICK W1 : Runs(ir, A, W, fun.fn, m1, W1) /\ Ready(m1, A, W1, fun.fn, v)
  BY <1>2, <1>4, ConditionSound
<1> HIDE DEF m1, v, c, P
<1>7. /\ Here(m1, A, W1, fun.fn) /\ Leads(ir, A, W, fun.fn, m1, A, W1)
      /\ Past(A, m1.at) = P /\ Len(m1.blocks) = Len(ir.blocks)
  BY <1>6, RunsLeads DEF Runs, P
<1>8. PICK W2 : Runs(m1, A, W1, fun.fn, m2, W2)
  <2>1. /\ c + 1 \in 1 .. Len(m1.blocks) /\ A[c + 1] \subseteq Past(A, m1.at)
        /\ c + 2 \in 1 .. Len(m1.blocks) /\ A[c + 2] \subseteq Past(A, m1.at)
    BY <1>5, <1>7
  <2> QED
    BY <1>6, <1>7, <2>1, CondBrSound
<1> HIDE DEF m2
<1>9. /\ Here(m2, A, W2, fun.fn) /\ Grows(ir, A, W, m2, A, W2)
      /\ Len(m2.blocks) = Len(ir.blocks)
  <2>1. Leads(m1, A, W1, fun.fn, m2, A, W2)
    BY <1>8, RunsLeads
  <2>2. Leads(ir, A, W, fun.fn, m2, A, W2)
    BY <1>2, <1>7, <2>1, LeadsOn
  <2> QED
    BY <1>7, <1>8, <2>2 DEF Runs, Leads
<1>10. \A b \in {c, c + 1, c + 2} : b \in 1 .. Len(m2.blocks) /\ Of(m2, b) = fun.fn
  BY <1>5, <1>9 DEF Grows
<1>11. Points(ir, A, W, fun.fn, m2, m3, A, W2, c + 1)
  BY <1>2, <1>9, <1>10, PointAfter
<1> HIDE DEF m3
<1>12. /\ Here(m3, A, W2, fun.fn) /\ Grows(ir, A, W, m3, A, W2)
       /\ A[c + 1] \subseteq Past(A, m3.at)
       /\ \A b \in {c, c + 2} : /\ b \in 1 .. Len(m3.blocks) /\ Of(m3, b) = fun.fn
                                /\ A[b] \subseteq A[c + 1]
  BY <1>5, <1>10, <1>11 DEF Points, Past
<1>13. f.node = Gen!Top.node /\ f.pc = 2 /\ f.own.cond = c
  BY DEF Gen!Frame, c
<1> HIDE DEF f, own
<1>14. /\ Repeats(f) /\ ~ Tests(f) /\ ~ Generates(f) /\ ~ Branches(f)
       /\ ~ Joins(f) /\ ~ Chooses(f)
       /\ Held(f) = {} /\ Assigns(f, genSyms) /\ Ast[f.node].kind # "Call"
  BY <1>2, <1>13 DEF Repeats, Tests, Connects, Joins, Chooses, Generates, HoldsFunction,
                     Branches, Held, Assigns
<1>15. Dues(f) = {c, c + 2}
  BY <1>13, <1>14 DEF Dues
<1>16. Locals(f, E[Len(genStk)], fun.fn, Past(A, m3.at), fun.fn, m3, A, W2)
  BY <1>5, <1>12, <1>14, <1>15 DEF Locals
<1>17. E[Len(genStk)] \subseteq Past(A, m3.at)
  BY <1>5, <1>12
<1>18. Lags(f)
  BY <1>14 DEF Lags
<1> QED
  BY <1>1, <1>2, <1>3, <1>12, <1>14, <1>16, <1>17, <1>18, GoesDown DEF f

(* From the body back to the condition; the loop's value is null.          *)
LEMMA FlowLeaveLoop ==
    ASSUME Vouches(genStk, ir, fun, val, genScope, genSyms), genStk # <<>>,
           UNCHANGED <<fun, genScope, genSyms>>,
           Repeats(Gen!Top), Gen!LeaveLoop
    PROVE  Upheld
<1>1. PICK A, W, E, G : Flow(genStk, E, G, ir, A, W, fun, val, genScope, genSyms)
  BY DEF Vouches
<1> DEFINE c  == Gen!Top.own.cond
           m1 == Gen!BrUnlessTerminated(ir, c)
           m2 == Gen!SetInsertPoint(m1, c + 2)
           v  == Gen!NullValue
<1>2. /\ Here(ir, A, W, fun.fn) /\ ~ Generates(Gen!Top) /\ ~ Tests(Gen!Top)
      /\ ~ Branches(Gen!Top) /\ ~ Joins(Gen!Top) /\ ~ Chooses(Gen!Top)
  <2>1. Here(ir, A, W, fun.fn)
    BY <1>1, Standing
  <2> QED
    BY <2>1 DEF Repeats, Tests, Generates, HoldsFunction, Branches, Joins, Connects, Chooses
<1>3. Gen!Finish(m2, v)
  BY DEF Gen!LeaveLoop
<1>4. \A b \in {c, c + 2} : /\ b \in 1 .. Len(ir.blocks) /\ Of(ir, b) = fun.fn
                            /\ E[Len(genStk)] \subseteq A[b]
                            /\ A[b] \subseteq Past(A, ir.at)
  <2>1. Dues(Gen!Top) = {c, c + 2}
    BY <1>2 DEF Dues
  <2>2. Locals(Gen!Top, E[Len(genStk)], fun.fn, Past(A, ir.at), fun.fn, ir, A, W)
    BY <1>1, <1>2, Working
  <2> QED
    BY <2>1, <2>2 DEF Locals
<1> HIDE DEF c
<1>5. PICK W1 : Runs(ir, A, W, fun.fn, m1, W1)
  BY <1>2, <1>4, BrUnlessSound
<1> HIDE DEF m1
<1>6. /\ Here(m1, A, W1, fun.fn) /\ Grows(ir, A, W, m1, A, W1)
      /\ c + 2 \in 1 .. Len(m1.blocks) /\ Of(m1, c + 2) = fun.fn
  BY <1>4, <1>5 DEF Runs, Grows
<1>7. Points(ir, A, W, fun.fn, m1, m2, A, W1, c + 2)
  BY <1>2, <1>6, PointAfter
<1>8. Ready(m2, A, W1, fun.fn, v)
  BY NotComputed, WithinAlways DEF Ready
<1> HIDE DEF m2, v
<1>9. /\ Here(m2, A, W1, fun.fn) /\ Grows(ir, A, W, m2, A, W1)
      /\ E[Len(genStk)] \subseteq Past(A, m2.at)
  BY <1>4, <1>7 DEF Points, Past
<1> QED
  BY <1>1, <1>2, <1>3, <1>8, <1>9, ComesBack

(* All of it.                                                              *)
LEMMA FlowWhile ==
    ASSUME Vouches(genStk, ir, fun, val, genScope, genSyms), Gen!VisitWhile
    PROVE  Upheld
<1>1. PICK A, W, E, G : Flow(genStk, E, G, ir, A, W, fun, val, genScope, genSyms)
  BY DEF Vouches
<1>2. genStk # <<>> /\ Gen!N.kind = "While" /\ UNCHANGED <<fun, genScope, genSyms>>
  BY DEF Gen!VisitWhile, Gen!Visiting, Gen!Context
<1>3. /\ Gen!N = Ast[Gen!Top.node] /\ Gen!Top.node \in Node /\ Gen!Arity = Len(Gen!N.kids)
  BY <1>1, <1>2, Standing
<1>4. 1 \in 1 .. Gen!Arity /\ 2 \in 1 .. Gen!Arity
  BY <1>2, <1>3, SyntaxAssumption DEF Arities
<1>5. \/ Gen!Top.pc = 0 /\ Gen!EnterLoop
      \/ Tests(Gen!Top) /\ Gen!EnterLoopBody
      \/ Repeats(Gen!Top) /\ Gen!LeaveLoop
  BY <1>2, <1>3 DEF Gen!VisitWhile, Tests, Repeats
<1> QED
  BY <1>2, <1>4, <1>5, FlowEnterLoop, FlowLoopBody, FlowLeaveLoop

(* visit(IfStmt).  A branch may be made from module m, grown to where the  *)
(* condition v is: to the new block x, to y where it does not hold, and on *)
(* to the merge block g, which lies behind the blocks S.                   *)
MayFork(S, A, W, m, A2, W2, v, x, y, g) ==
    /\ Here(m, A2, W2, fun.fn) /\ Grows(ir, A, W, m, A2, W2)
    /\ Past(A2, m.at) = Past(A, ir.at)
    /\ Ready(m, A2, W2, fun.fn, v)
    /\ \A b \in {x, y} : /\ b \in 1 .. Len(m.blocks) /\ Of(m, b) = fun.fn
                         /\ A2[b] = Past(A, ir.at)
    /\ g \in 1 .. Len(m.blocks) /\ Of(m, g) = fun.fn
    /\ S \subseteq A2[g] /\ A2[g] \subseteq Past(A, ir.at)

(* It is made, and the branch is visited.                                  *)
LEMMA FlowFork ==
    ASSUME NEW A, NEW W, NEW E, NEW G,
           Flow(genStk, E, G, ir, A, W, fun, val, genScope, genSyms), genStk # <<>>,
           UNCHANGED <<fun, genScope, genSyms>>,
           Gen!N.kind = "If", ~ Generates(Gen!Top), Ready(ir, A, W, fun.fn, val),
           NEW k \in 1 .. Gen!Arity, k > 0, k % 2 = 0,
           NEW m, NEW A2, NEW W2, NEW v, NEW x, NEW y, NEW g,
           MayFork(E[Len(genStk)], A, W, m, A2, W2, v, x, y, g),
           NEW locals, locals = [merge |-> g, next |-> y],
           Gen!Go(k, locals, Gen!SetInsertPoint(Gen!CondBr(m, v, x, y), x))
    PROVE  Upheld
<1> DEFINE m2 == Gen!CondBr(m, v, x, y)
           m3 == Gen!SetInsertPoint(m2, x)
           f  == Gen!Frame(Gen!Top.node, k, locals, Gen!Top.saved)
           P  == Past(A, ir.at)
           S  == E[Len(genStk)]
<1>1. Gen!N = Ast[Gen!Top.node] /\ Here(ir, A, W, fun.fn) /\ S \subseteq P
  BY Standing, Working
<1>2. /\ Here(m, A2, W2, fun.fn) /\ Grows(ir, A, W, m, A2, W2)
      /\ Past(A2, m.at) = P /\ Ready(m, A2, W2, fun.fn, v)
      /\ \A b \in {x, y} : /\ b \in 1 .. Len(m.blocks) /\ Of(m, b) = fun.fn /\ A2[b] = P
      /\ g \in 1 .. Len(m.blocks) /\ Of(m, g) = fun.fn
      /\ S \subseteq A2[g] /\ A2[g] \subseteq P
  BY DEF MayFork
<1>3. Gen!Go(k, locals, m3) /\ Ready(ir, A, W, fun.fn, val)
  OBVIOUS
<1> HIDE DEF m2, P, S
<1>4. PICK W3 : Runs(m, A2, W2, fun.fn, m2, W3)
  <2>1. /\ x \in 1 .. Len(m.blocks) /\ A2[x] \subseteq Past(A2, m.at)
        /\ y \in 1 .. Len(m.blocks) /\ A2[y] \subseteq Past(A2, m.at)
    BY <1>2
  <2> QED
    BY <1>2, <2>1, CondBrSound DEF m2
<1>5. /\ Here(m2, A2, W3, fun.fn) /\ Grows(ir, A, W, m2, A2, W3)
      /\ Grows(m, A2, W2, m2, A2, W3) /\ Len(m2.blocks) = Len(m.blocks)
  <2>1. Here(m2, A2, W3, fun.fn) /\ Grows(m, A2, W2, m2, A2, W3)
    BY <1>4 DEF Runs
  <2>2. Grows(ir, A, W, m2, A2, W3)
    BY <1>1, <1>2, <2>1, GrowsOn DEF Here
  <2> QED
    BY <1>4, <2>1, <2>2 DEF Runs
<1>6. \A b \in {x, y, g} : b \in 1 .. Len(m2.blocks) /\ Of(m2, b) = fun.fn
  BY <1>2, <1>5 DEF Grows
<1>7. Points(ir, A, W, fun.fn, m2, m3, A2, W3, x)
  BY <1>1, <1>5, <1>6, PointAfter
<1> HIDE DEF m3
<1>8. /\ Here(m3, A2, W3, fun.fn) /\ Grows(ir, A, W, m3, A2, W3)
      /\ P \subseteq Past(A2, m3.at)
      /\ \A b \in {y, g} : b \in 1 .. Len(m3.blocks) /\ Of(m3, b) = fun.fn
  BY <1>2, <1>6, <1>7 DEF Points, Past
<1>9. f.node = Gen!Top.node /\ f.pc = k /\ f.own.merge = g /\ f.own.next = y
  BY DEF Gen!Frame
<1> HIDE DEF f
<1>10. /\ Branches(f) /\ ~ Tests(f) /\ ~ Generates(f) /\ ~ Joins(f) /\ ~ Chooses(f)
       /\ Held(f) = {} /\ Assigns(f, genSyms) /\ Ast[f.node].kind # "Call"
  BY <1>1, <1>9 DEF Tests, Connects, Joins, Chooses, Generates, HoldsFunction,
                    Branches, Held, Assigns
<1>11. Dues(f) = {g, y}
  BY <1>9, <1>10 DEF Dues
<1>12. Locals(f, S, fun.fn, Past(A2, m3.at), fun.fn, m3, A2, W3)
  <2>1. \A b \in {g, y} : A2[b] \subseteq Past(A2, m3.at) /\ S \subseteq A2[b]
    BY <1>1, <1>2, <1>8
  <2> QED
    BY <1>2, <1>8, <1>9, <1>10, <1>11, <2>1 DEF Locals
<1>13. S \subseteq Past(A2, m3.at)
  BY <1>1, <1>8
<1>14. Ready(m3, A2, W3, fun.fn, val)
  <2>1. Sound(ir, A, W) /\ Sound(m3, A2, W3)
    BY <1>1, <1>8 DEF Here
  <2> QED
    BY <1>3, <1>8, <2>1, WithinKept DEF Ready, P
<1> QED
  BY <1>3, <1>8, <1>10, <1>12, <1>13, <1>14, GoesDown DEF f, S

(* The condition of an if.                                                 *)
LEMMA FlowCondition ==
    ASSUME NEW A, NEW W, NEW E, NEW G,
           Flow(genStk, E, G, ir, A, W, fun, val, genScope, genSyms), genStk # <<>>,
           Gen!N.kind = "If", ~ Generates(Gen!Top), Gen!Top.pc % 2 = 1, Gen!Top.pc < Gen!Arity
    PROVE  /\ Ready(ir, A, W, fun.fn, val)
           /\ \E W2 : /\ Runs(ir, A, W, fun.fn, Gen!ToBool(val), W2)
                      /\ Ready(Gen!ToBool(val), A, W2, fun.fn, Gen!ToBool(val).last)
<1>1. /\ Gen!N = Ast[Gen!Top.node] /\ Here(ir, A, W, fun.fn) /\ Gen!Top.node \in Node
      /\ Gen!Arity = Len(Gen!N.kids) /\ Gen!Arity \in Nat /\ Gen!Top.pc \in Nat
  BY Standing
<1>2. Gen!Top.pc \in 1 .. Gen!Arity
  <2>1. Gen!Top.pc # 0
    OBVIOUS
  <2> QED
    BY <1>1, <2>1
<1>3. DOMAIN Gen!N.kids = 1 .. Gen!Arity
  BY <1>1, SyntaxAssumption, LenProperties
<1>4. Gen!Top.pc \in ValuePlaces(Gen!Top.node)
  BY <1>1, <1>2, <1>3 DEF ValuePlaces, Expressions
<1>5. Ready(ir, A, W, fun.fn, val)
  BY <1>4, Working
<1> QED
  BY <1>1, <1>5, ConditionSound

(* The first condition: the merge block is made before the branch.         *)
LEMMA FlowFirstBranch ==
    ASSUME Vouches(genStk, ir, fun, val, genScope, genSyms), genStk # <<>>,
           UNCHANGED <<fun, genScope, genSyms>>,
           Gen!N.kind = "If", Gen!Top.pc = 1, Gen!Arity > 1, Gen!EnterBranch
    PROVE  Upheld
<1>1. PICK A, W, E, G : Flow(genStk, E, G, ir, A, W, fun, val, genScope, genSyms)
  BY DEF Vouches
<1> DEFINE m1 == Gen!ToBool(val)
           v  == m1.last
           n  == Len(m1.blocks)
           m2 == Gen!NewBlock(m1, fun.fn)
           m3 == Gen!NewBlock(Gen!NewBlock(m2, fun.fn), fun.fn)
           S  == E[Len(genStk)]
           locals == [merge |-> n + 1, next |-> n + 3]
           k  == 2
<1>2. /\ Gen!N = Ast[Gen!Top.node] /\ Here(ir, A, W, fun.fn) /\ Gen!Arity \in Nat
  BY <1>1, Standing
<1>3. ~ Generates(Gen!Top)
  BY <1>2 DEF Generates, HoldsFunction
<1>4. /\ Ready(ir, A, W, fun.fn, val)
      /\ \E W2 : Runs(ir, A, W, fun.fn, m1, W2) /\ Ready(m1, A, W2, fun.fn, v)
  <2>1. Gen!Top.pc % 2 = 1 /\ Gen!Top.pc < Gen!Arity
    BY <1>2
  <2> QED
    BY <1>1, <1>3, <2>1, FlowCondition
<1>5. PICK W1 : Runs(ir, A, W, fun.fn, m1, W1) /\ Ready(m1, A, W1, fun.fn, v)
  BY <1>4
<1>6. /\ Here(m1, A, W1, fun.fn) /\ Leads(ir, A, W, fun.fn, m1, A, W1)
      /\ Past(A, m1.at) = Past(A, ir.at)
  BY <1>5, RunsLeads DEF Runs
<1>7. n \in Nat
  BY <1>6, SoundNumbers DEF Here
<1>8. Gen!Go(k, locals, Gen!SetInsertPoint(Gen!CondBr(m3, v, n + 2, n + 3), n + 2))
  <2> DEFINE then == Gen!LastBlock(m2) + 1
  <2>1. Gen!LastBlock(m1) = n
    BY DEF Gen!LastBlock
  <2>2. then = n + 2 /\ then + 1 = n + 3
    <3>1. Opens(m1, A, W1, fun.fn, 0, m1, A)
      BY <1>6, OpensNone
    <3>2. \E A3 : Opens(m1, A, W1, fun.fn, 0 + 1, m2, A3)
      BY <1>6, <3>1, OpensMore
    <3>3. Len(m2.blocks) = n + 1
      BY <3>2 DEF Opens
    <3> QED
      BY <1>7, <3>3 DEF Gen!LastBlock
  <2>3. Gen!Top.pc + 1 = k
    OBVIOUS
  <2> HIDE DEF k
  <2> QED
    BY <2>1, <2>2, <2>3 DEF Gen!EnterBranch
<1>9. PICK A2 : Opens(m1, A, W1, fun.fn, 3, m3, A2)
  BY <1>6, OpensThree
<1> HIDE DEF m1, m2, m3, v
<1>10. /\ Leads(m1, A, W1, fun.fn, m3, A2, W1) /\ Past(A2, m3.at) = Past(A, m1.at)
       /\ \A b \in n + 1 .. n + 3 : /\ b \in 1 .. Len(m3.blocks)
                                    /\ A2[b] = Past(A, m1.at) /\ Of(m3, b) = fun.fn
       /\ Here(m3, A2, W1, fun.fn)
  BY <1>6, <1>9, OpensFacts DEF Opens
<1>11. Ready(m3, A2, W1, fun.fn, v) /\ Grows(ir, A, W, m3, A2, W1)
  <2>1. Leads(ir, A, W, fun.fn, m3, A2, W1)
    BY <1>2, <1>6, <1>10, LeadsOn
  <2> QED
    BY <1>5, <1>6, <1>10, <2>1, LeadsReady DEF Leads
<1>12. n + 1 \in n + 1 .. n + 3 /\ n + 2 \in n + 1 .. n + 3 /\ n + 3 \in n + 1 .. n + 3
  BY <1>7
<1>13. S \subseteq Past(A, ir.at)
  BY <1>1, <1>3, Working
<1> HIDE DEF n, S
<1>14. MayFork(S, A, W, m3, A2, W1, v, n + 2, n + 3, n + 1)
  BY <1>6, <1>10, <1>11, <1>12, <1>13 DEF MayFork
<1>15. k \in 1 .. Gen!Arity /\ k > 0 /\ k % 2 = 0
  BY <1>2
<1>16. locals = [merge |-> n + 1, next |-> n + 3]
  OBVIOUS
<1> HIDE DEF k, locals
<1> QED
  BY <1>1, <1>3, <1>4, <1>8, <1>14, <1>15, <1>16, FlowFork DEF S

(* A further condition, in the block that was kept for it.                 *)
LEMMA FlowNextBranch ==
    ASSUME Vouches(genStk, ir, fun, val, genScope, genSyms), genStk # <<>>,
           UNCHANGED <<fun, genScope, genSyms>>,
           Gen!N.kind = "If", Chooses(Gen!Top), Gen!Top.pc < Gen!Arity, Gen!EnterBranch
    PROVE  Upheld
<1>1. PICK A, W, E, G : Flow(genStk, E, G, ir, A, W, fun, val, genScope, genSyms)
  BY DEF Vouches
<1> DEFINE m1 == Gen!ToBool(val)
           v  == m1.last
           n  == Len(m1.blocks)
           g  == Gen!Top.own.merge
           m3 == Gen!NewBlock(Gen!NewBlock(m1, fun.fn), fun.fn)
           S  == E[Len(genStk)]
           locals == [merge |-> g, next |-> n + 2]
           k  == Gen!Top.pc + 1
<1>2. /\ Gen!N = Ast[Gen!Top.node] /\ Here(ir, A, W, fun.fn)
      /\ Gen!Arity \in Nat /\ Gen!Top.pc \in Nat
  BY <1>1, Standing
<1>3. ~ Generates(Gen!Top) /\ Gen!Top.pc > 1 /\ Gen!Top.pc % 2 = 1
  BY <1>2 DEF Generates, HoldsFunction, Chooses
<1>4. PICK W1 : /\ Ready(ir, A, W, fun.fn, val)
                /\ Runs(ir, A, W, fun.fn, m1, W1) /\ Ready(m1, A, W1, fun.fn, v)
  BY <1>1, <1>3, FlowCondition
<1>5. /\ Here(m1, A, W1, fun.fn) /\ Leads(ir, A, W, fun.fn, m1, A, W1)
      /\ Past(A, m1.at) = Past(A, ir.at)
  BY <1>4, RunsLeads DEF Runs
<1>6. n \in Nat
  BY <1>5, SoundNumbers DEF Here
<1>7. Gen!Go(k, locals, Gen!SetInsertPoint(Gen!CondBr(m3, v, n + 1, n + 2), n + 1))
  <2>1. Gen!LastBlock(m1) = n /\ Gen!Top.pc # 1 /\ (n + 1) + 1 = n + 2
    BY <1>3, <1>6 DEF Gen!LastBlock
  <2> QED
    BY <2>1 DEF Gen!EnterBranch
<1>8. PICK A2 : Opens(m1, A, W1, fun.fn, 2, m3, A2)
  BY <1>5, OpensTwo
<1>9. /\ S \subseteq Past(A, ir.at)
      /\ g \in 1 .. Len(ir.blocks) /\ Of(ir, g) = fun.fn
      /\ S \subseteq A[g] /\ A[g] \subseteq Past(A, ir.at)
  <2>1. Dues(Gen!Top) = {g}
    BY DEF Dues
  <2>2. Locals(Gen!Top, S, fun.fn, Past(A, ir.at), fun.fn, ir, A, W)
    BY <1>1, <1>3, Working
  <2>3. S \subseteq Past(A, ir.at)
    BY <1>1, <1>3, Working
  <2> QED
    BY <2>1, <2>2, <2>3 DEF Locals
<1> HIDE DEF m1, m3, v, g, S
<1>10. /\ Leads(m1, A, W1, fun.fn, m3, A2, W1) /\ Past(A2, m3.at) = Past(A, m1.at)
       /\ \A b \in n + 1 .. n + 2 : /\ b \in 1 .. Len(m3.blocks)
                                    /\ A2[b] = Past(A, m1.at) /\ Of(m3, b) = fun.fn
       /\ Here(m3, A2, W1, fun.fn)
  BY <1>5, <1>8, OpensFacts DEF Opens
<1>11. Ready(m3, A2, W1, fun.fn, v) /\ Grows(ir, A, W, m3, A2, W1)
  <2>1. Leads(ir, A, W, fun.fn, m3, A2, W1)
    BY <1>2, <1>5, <1>10, LeadsOn
  <2> QED
    BY <1>4, <1>5, <1>10, <2>1, LeadsReady DEF Leads
<1>12. n + 1 \in n + 1 .. n + 2 /\ n + 2 \in n + 1 .. n + 2
  BY <1>6
<1>13. g \in 1 .. Len(m3.blocks) /\ Of(m3, g) = fun.fn /\ A2[g] = A[g]
  <2>1. Len(ir.blocks) \in Nat /\ Len(m3.blocks) \in Nat
    BY <1>2, <1>10, SoundNumbers DEF Here
  <2> QED
    BY <1>9, <1>11, <2>1 DEF Grows
<1> HIDE DEF n
<1>14. MayFork(S, A, W, m3, A2, W1, v, n + 1, n + 2, g)
  BY <1>5, <1>9, <1>10, <1>11, <1>12, <1>13 DEF MayFork
<1>15. k \in 1 .. Gen!Arity /\ k > 0 /\ k % 2 = 0
  BY <1>2, <1>3
<1>16. locals = [merge |-> g, next |-> n + 2]
  OBVIOUS
<1> HIDE DEF k, locals
<1> QED
  BY <1>1, <1>3, <1>4, <1>7, <1>14, <1>15, <1>16, FlowFork DEF S

(* From a branch to what comes next, where the merge block is still ahead, *)
(* or to the merge block.                                                  *)
LEMMA FlowLeaveBranch ==
    ASSUME Vouches(genStk, ir, fun, val, genScope, genSyms), genStk # <<>>,
           UNCHANGED <<fun, genScope, genSyms>>,
           Branches(Gen!Top), Gen!LeaveBranch
    PROVE  Upheld
<1>1. PICK A, W, E, G : Flow(genStk, E, G, ir, A, W, fun, val, genScope, genSyms)
  BY DEF Vouches
<1> DEFINE own == Gen!Top.own
           g   == own.merge
           x   == own.next
           m1  == Gen!BrUnlessTerminated(ir, g)
           m2  == Gen!SetInsertPoint(m1, x)
           m3  == Gen!Br(m2, g)
           m4  == Gen!SetInsertPoint(m3, g)
           k   == Gen!Top.pc + 1
           S   == E[Len(genStk)]
           v   == Gen!NullValue
<1>2. /\ Gen!N = Ast[Gen!Top.node] /\ Here(ir, A, W, fun.fn) /\ Gen!N.kind = "If"
      /\ Gen!Arity \in Nat /\ Gen!Top.pc \in Nat /\ Gen!Top.pc > 0 /\ Gen!Top.pc % 2 = 0
      /\ ~ Generates(Gen!Top) /\ ~ Joins(Gen!Top) /\ ~ Chooses(Gen!Top)
  <2>1. /\ Gen!N = Ast[Gen!Top.node] /\ Here(ir, A, W, fun.fn)
        /\ Gen!Arity \in Nat /\ Gen!Top.pc \in Nat
    BY <1>1, Standing
  <2> QED
    BY <2>1 DEF Branches, Generates, HoldsFunction, Joins, Connects, Chooses
<1>3. \/ Gen!Top.pc < Gen!Arity /\ Gen!Go(k, own, m2)
      \/ Gen!Finish(m4, v)
  BY DEF Gen!LeaveBranch
<1>4. /\ \A b \in {g, x} : /\ b \in 1 .. Len(ir.blocks) /\ Of(ir, b) = fun.fn
                           /\ S \subseteq A[b] /\ A[b] \subseteq Past(A, ir.at)
      /\ A[g] \subseteq A[x]
  <2>1. Dues(Gen!Top) = {g, x}
    BY <1>2 DEF Dues
  <2>2. Locals(Gen!Top, S, fun.fn, Past(A, ir.at), fun.fn, ir, A, W)
    BY <1>1, <1>2, Working
  <2> QED
    BY <2>1, <2>2 DEF Locals
<1> HIDE DEF g, x, S
<1>5. PICK W1 : Runs(ir, A, W, fun.fn, m1, W1)
  BY <1>2, <1>4, BrUnlessSound
<1> HIDE DEF m1
<1>6. /\ Here(m1, A, W1, fun.fn) /\ Grows(ir, A, W, m1, A, W1)
      /\ \A b \in {g, x} : b \in 1 .. Len(m1.blocks) /\ Of(m1, b) = fun.fn
  BY <1>4, <1>5 DEF Runs, Grows
<1>7. Points(ir, A, W, fun.fn, m1, m2, A, W1, x)
  BY <1>2, <1>6, PointAfter
<1> HIDE DEF m2
<1>8. /\ Here(m2, A, W1, fun.fn) /\ Grows(ir, A, W, m2, A, W1) /\ m2.at = x
      /\ \A b \in {g, x} : b \in 1 .. Len(m2.blocks) /\ Of(m2, b) = fun.fn
      /\ S \subseteq Past(A, m2.at) /\ A[g] \subseteq Past(A, m2.at)
  BY <1>4, <1>6, <1>7 DEF Points, Past
<1>9. CASE Gen!Top.pc < Gen!Arity /\ Gen!Go(k, own, m2)
  <2> DEFINE f == Gen!Frame(Gen!Top.node, k, own, Gen!Top.saved)
  <2>1. f.node = Gen!Top.node /\ f.pc = k /\ f.own.merge = g
    BY DEF Gen!Frame, g
  <2>2. k \in 1 .. Gen!Arity /\ k > 1 /\ k % 2 = 1
    BY <1>2, <1>9
  <2> HIDE DEF f, k, own
  <2>3. /\ Chooses(f) /\ ~ Generates(f) /\ ~ Joins(f) /\ ~ Branches(f) /\ ~ Tests(f)
        /\ Held(f) = {} /\ Assigns(f, genSyms) /\ Ast[f.node].kind # "Call"
    BY <1>2, <2>1, <2>2 DEF Chooses, Tests, Joins, Connects, Generates, HoldsFunction,
                            Branches, Held, Assigns
  <2>4. Dues(f) = {g}
    BY <2>1, <2>3 DEF Dues
  <2>5. Locals(f, S, fun.fn, Past(A, m2.at), fun.fn, m2, A, W1)
    BY <1>4, <1>8, <2>3, <2>4 DEF Locals
  <2>6. Lags(f)
    BY <2>3 DEF Lags
  <2> QED
    BY <1>1, <1>2, <1>8, <1>9, <2>2, <2>3, <2>5, <2>6, GoesDown DEF f, S
<1>10. CASE Gen!Finish(m4, v)
  <2>1. PICK W2 : Runs(m2, A, W1, fun.fn, m3, W2)
    BY <1>8, BrSound
  <2> HIDE DEF m3
  <2>2. /\ Here(m3, A, W2, fun.fn) /\ Grows(ir, A, W, m3, A, W2)
        /\ g \in 1 .. Len(m3.blocks) /\ Of(m3, g) = fun.fn
    <3>1. Here(m3, A, W2, fun.fn) /\ Grows(m2, A, W1, m3, A, W2)
      BY <2>1 DEF Runs
    <3>2. Grows(ir, A, W, m3, A, W2)
      BY <1>2, <1>8, <3>1, GrowsOn DEF Here
    <3> QED
      BY <1>8, <2>1, <3>1, <3>2 DEF Runs, Grows
  <2>3. Points(ir, A, W, fun.fn, m3, m4, A, W2, g)
    BY <1>2, <2>2, PointAfter
  <2>4. Ready(m4, A, W2, fun.fn, v)
    BY NotComputed, WithinAlways DEF Ready
  <2> HIDE DEF m4, v
  <2>5. /\ Here(m4, A, W2, fun.fn) /\ Grows(ir, A, W, m4, A, W2)
        /\ S \subseteq Past(A, m4.at)
    BY <1>4, <2>3 DEF Points, Past
  <2> QED
    BY <1>1, <1>2, <1>10, <2>4, <2>5, ComesBack DEF S
<1> QED
  BY <1>3, <1>9, <1>10

(* From an else part to the merge block.                                   *)
LEMMA FlowLeaveElse ==
    ASSUME Vouches(genStk, ir, fun, val, genScope, genSyms), genStk # <<>>,
           UNCHANGED <<fun, genScope, genSyms>>,
           Chooses(Gen!Top), Gen!LeaveElse
    PROVE  Upheld
<1>1. PICK A, W, E, G : Flow(genStk, E, G, ir, A, W, fun, val, genScope, genSyms)
  BY DEF Vouches
<1> DEFINE g  == Gen!Top.own.merge
           m1 == Gen!BrUnlessTerminated(ir, g)
           m2 == Gen!SetInsertPoint(m1, g)
           v  == Gen!NullValue
<1>2. Here(ir, A, W, fun.fn) /\ ~ Generates(Gen!Top)
  <2>1. Here(ir, A, W, fun.fn)
    BY <1>1, Standing
  <2> QED
    BY <2>1 DEF Chooses, Generates, HoldsFunction
<1>3. Gen!Finish(m2, v)
  BY DEF Gen!LeaveElse
<1>4. /\ g \in 1 .. Len(ir.blocks) /\ Of(ir, g) = fun.fn
      /\ E[Len(genStk)] \subseteq A[g] /\ A[g] \subseteq Past(A, ir.at)
  <2>1. Dues(Gen!Top) = {g}
    BY DEF Dues
  <2>2. Locals(Gen!Top, E[Len(genStk)], fun.fn, Past(A, ir.at), fun.fn, ir, A, W)
    BY <1>1, <1>2, Working
  <2> QED
    BY <2>1, <2>2 DEF Locals
<1> HIDE DEF g
<1>5. PICK W1 : Runs(ir, A, W, fun.fn, m1, W1)
  BY <1>2, <1>4, BrUnlessSound
<1> HIDE DEF m1
<1>6. /\ Here(m1, A, W1, fun.fn) /\ Grows(ir, A, W, m1, A, W1)
      /\ g \in 1 .. Len(m1.blocks) /\ Of(m1, g) = fun.fn
  BY <1>4, <1>5 DEF Runs, Grows
<1>7. Points(ir, A, W, fun.fn, m1, m2, A, W1, g)
  BY <1>2, <1>6, PointAfter
<1>8. Ready(m2, A, W1, fun.fn, v)
  BY NotComputed, WithinAlways DEF Ready
<1> HIDE DEF m2, v
<1>9. /\ Here(m2, A, W1, fun.fn) /\ Grows(ir, A, W, m2, A, W1)
      /\ E[Len(genStk)] \subseteq Past(A, m2.at)
  BY <1>4, <1>7 DEF Points, Past
<1> QED
  BY <1>1, <1>2, <1>3, <1>8, <1>9, ComesBack

(* All of it.                                                              *)
LEMMA FlowIf ==
    ASSUME Vouches(genStk, ir, fun, val, genScope, genSyms), Gen!VisitIf
    PROVE  Upheld
<1>1. PICK A, W, E, G : Flow(genStk, E, G, ir, A, W, fun, val, genScope, genSyms)
  BY DEF Vouches
<1>2. genStk # <<>> /\ Gen!N.kind = "If" /\ UNCHANGED <<fun, genScope, genSyms>>
  BY DEF Gen!VisitIf, Gen!Visiting, Gen!Context
<1>3. /\ Gen!N = Ast[Gen!Top.node] /\ Gen!Top.node \in Node /\ Gen!Arity = Len(Gen!N.kids)
      /\ Gen!Top.pc \in Nat /\ Here(ir, A, W, fun.fn) /\ Leads(ir, A, W, fun.fn, ir, A, W)
  BY <1>1, <1>2, Standing, FlowStays
<1>4. Gen!Arity \in Nat \ {0, 1}
  BY <1>2, <1>3, SyntaxAssumption DEF Arities
<1> DEFINE none == <<>>
<1>5. \/ Gen!Top.pc = 0 /\ Gen!Go(1, none, ir)
      \/ Gen!Top.pc % 2 = 1 /\ Gen!Top.pc < Gen!Arity /\ Gen!EnterBranch
      \/ Gen!Top.pc > 0 /\ Gen!Top.pc % 2 = 0 /\ Gen!LeaveBranch
      \/ Gen!Top.pc % 2 = 1 /\ Gen!Top.pc = Gen!Arity /\ Gen!LeaveElse
  BY DEF Gen!VisitIf, Gen!IsCondition
<1> HIDE DEF none
<1>6. CASE Gen!Top.pc = 0 /\ Gen!Go(1, none, ir)
  <2> DEFINE f == Gen!Frame(Gen!Top.node, 1, none, Gen!Top.saved)
  <2>1. f.node = Gen!Top.node /\ f.pc = 1
    BY DEF Gen!Frame
  <2> HIDE DEF f
  <2>2. Idle(f)
    BY <1>2, <1>3, <2>1 DEF Idle, Generates, HoldsFunction, Joins, Connects, Branches,
                            Chooses, Tests, Repeats
  <2>3. Idle(Gen!Top)
    BY <1>6, PlainIdle
  <2>4. 1 \in 1 .. Gen!Arity /\ Gen!N.kind # "Call"
    BY <1>2, <1>4
  <2>5. Held(f) = {} /\ Assigns(f, genSyms)
    BY <1>2, <1>3, <2>1 DEF Held, Assigns
  <2> QED
    BY <1>1, <1>2, <1>3, <1>6, <2>2, <2>3, <2>4, <2>5, IdleGoesDown DEF f
<1>7. CASE Gen!Top.pc % 2 = 1 /\ Gen!Top.pc < Gen!Arity /\ Gen!EnterBranch
  <2>1. CASE Gen!Top.pc = 1
    <3>1. Gen!Arity > 1
      BY <1>4
    <3> QED
      BY <1>2, <1>7, <2>1, <3>1, FlowFirstBranch
  <2>2. CASE Gen!Top.pc # 1
    <3>1. Gen!Top.pc > 1
      BY <1>3, <1>7, <2>2
    <3>2. Chooses(Gen!Top)
      BY <1>2, <1>3, <1>7, <3>1 DEF Chooses
    <3> QED
      BY <1>2, <1>7, <3>2, FlowNextBranch
  <2> QED
    BY <2>1, <2>2
<1>8. CASE Gen!Top.pc > 0 /\ Gen!Top.pc % 2 = 0 /\ Gen!LeaveBranch
  <2>1. Branches(Gen!Top)
    BY <1>2, <1>3, <1>8 DEF Branches
  <2> QED
    BY <1>2, <1>8, <2>1, FlowLeaveBranch
<1>9. CASE Gen!Top.pc % 2 = 1 /\ Gen!Top.pc = Gen!Arity /\ Gen!LeaveElse
  <2>1. Gen!Top.pc > 1
    BY <1>4, <1>9
  <2>2. Chooses(Gen!Top)
    BY <1>2, <1>3, <1>9, <2>1 DEF Chooses
  <2> QED
    BY <1>2, <1>9, <2>2, FlowLeaveElse
<1> QED
  BY <1>5, <1>6, <1>7, <1>8, <1>9

-----------------------------------------------------------------------------
(* Functions.  A new one has no blocks yet: its entry block is labelled    *)
(* with nothing.                                                           *)
Fresh(m, f) == /\ f \in 1 .. Len(m.funs)
               /\ \A b \in 1 .. Len(m.blocks) : Of(m, b) # f

(* A function is declared.                                                 *)
LEMMA FunctionDeclared ==
    ASSUME NEW m, NEW A, NEW W, Sound(m, A, W), NEW ret, NEW params
    PROVE  LET m2 == Gen!NewFunction(m, ret, params)
           IN  /\ Sound(m2, A, W) /\ Grows(m, A, W, m2, A, W)
               /\ m2.at = m.at /\ m2.blocks = m.blocks
               /\ Fresh(m2, Gen!LastFunction(m2))
<1> DEFINE x  == [ret |-> ret, params |-> params]
           m2 == Gen!NewFunction(m, ret, params)
<1>1. /\ DOMAIN m = {"funs", "blocks", "at", "made", "last", "undef"}
      /\ IsSeq(m.funs) /\ m.made \in Nat
      /\ \A b \in 1 .. Len(m.blocks) : Of(m, b) \in 1 .. Len(m.funs)
  BY DEF Sound, SoundBlock
<1> HIDE DEF x
<1>2. /\ DOMAIN m2 = DOMAIN m /\ m2.blocks = m.blocks /\ m2.made = m.made
      /\ m2.at = m.at /\ m2.funs = Append(m.funs, x)
  BY <1>1 DEF Gen!NewFunction, x
<1> HIDE DEF m2
<1>3. /\ IsSeq(m2.funs) /\ Len(m.funs) \in Nat /\ Len(m2.funs) = Len(m.funs) + 1
      /\ Len(m.funs) <= Len(m2.funs)
  <2>1. IsSeq(m2.funs) /\ Len(m.funs) \in Nat /\ Len(m2.funs) = Len(m.funs) + 1
    BY <1>1, <1>2, AppendFacts
  <2> QED
    BY <2>1
<1>4. Sound(m2, A, W) /\ Grows(m, A, W, m2, A, W)
  BY <1>2, <1>3, BlocksAlone
<1>5. Fresh(m2, Len(m2.funs))
  <2>1. \A b \in 1 .. Len(m2.blocks) : Of(m2, b) = Of(m, b) /\ Of(m, b) \in 1 .. Len(m.funs)
    BY <1>1, <1>2 DEF Of
  <2> QED
    BY <1>3, <2>1 DEF Fresh
<1> QED
  BY <1>2, <1>4, <1>5 DEF m2, Gen!LastFunction

(* The slots of the parameters so far, stored in the entry block, and the  *)
(* symbols bound to them.                                                  *)
Parametered(b, m, A, W, f, H) ==
    \E W2 : /\ Runs(m, A, W, f, b.ir, W2)
            /\ Bindings(b.syms, b.ir, W2)
            /\ Widens(H, b.syms) /\ Len(b.syms) = Len(H)

(* Symbols that have grown twice have grown.                               *)
LEMMA WidensOn ==
    ASSUME NEW H, NEW H2, NEW H3, Widens(H, H2), Widens(H2, H3)
    PROVE  Widens(H, H3)
<1>1. /\ Len(H) \in Nat /\ Len(H2) \in Nat /\ Len(H3) \in Nat
      /\ Len(H) <= Len(H2) /\ Len(H2) <= Len(H3)
  BY DEF Widens
<1>2. ASSUME NEW s \in 1 .. Len(H)
      PROVE  DOMAIN H[s] \subseteq DOMAIN H3[s]
  <2>1. s \in 1 .. Len(H2)
    BY <1>1
  <2> QED
    BY <2>1 DEF Widens
<1> QED
  BY <1>1, <1>2 DEF Widens

(* A slot for the next parameter, bound to the name LLVM has given it.     *)
LEMMA SlotSound ==
    ASSUME NEW m, NEW A, NEW W, NEW f, Here(m, A, W, f), NEW H,
           NEW b, Parametered(b, m, A, W, f, H), NEW i, NEW params
    PROVE  Parametered(NextSlot(b, i, f, params), m, A, W, f, H)
<1> DEFINE t    == Gen!LLVMType(Gen!resolveTypeName(params[i].type))
           slot == Gen!Alloca(b.ir, f, t)
           x    == slot.last
           arg  == Gen!Argument(t, i)
           m2   == Gen!Store(slot, arg, x)
           tid  == Gen!ParamTid(t)
           sym  == Gen!Sym(tid, x, 0)
           c    == NextSlot(b, i, f, params)
<1>1. PICK y : c.syms = Gen!Define(b.syms, genScope, y, sym)
  BY DEF NextSlot, Gen!Slot
<1> DEFINE H2   == Gen!Define(b.syms, genScope, y, sym)
<1>2. c.ir = m2 /\ c.syms = H2
  BY <1>1 DEF NextSlot, Gen!Slot
<1>3. sym.slot = x
  BY DEF Gen!Sym
<1>4. Gen!Kind(arg) # "inst"
  BY NotComputed
<1> HIDE DEF c, sym, tid, arg, t
<1>5. PICK W2 : /\ Runs(m, A, W, f, b.ir, W2) /\ Bindings(b.syms, b.ir, W2)
                /\ Widens(H, b.syms) /\ Len(b.syms) = Len(H)
  BY DEF Parametered
<1>6. Here(b.ir, A, W2, f)
  BY <1>5 DEF Runs
<1>7. PICK W3 : Runs(b.ir, A, W2, f, slot, W3) /\ Fixed(slot, W3, slot.last)
  BY <1>6, AllocaSound
<1> HIDE DEF slot
<1>8. Here(slot, A, W3, f) /\ Fixed(slot, W3, x)
  BY <1>7 DEF Runs
<1>9. Ready(slot, A, W3, f, x) /\ Ready(slot, A, W3, f, arg)
  BY <1>4, <1>8, FixedReady, WithinAlways DEF Ready
<1> HIDE DEF x
<1>10. PICK W4 : Runs(slot, A, W3, f, m2, W4)
  BY <1>8, <1>9, StoreSound
<1> HIDE DEF m2
<1>11. Runs(b.ir, A, W2, f, m2, W4)
  BY <1>6, <1>7, <1>10, RunsOn
<1>12. Runs(m, A, W, f, m2, W4)
  BY <1>5, <1>11, RunsOn
<1>13. /\ Sound(b.ir, A, W2) /\ Sound(slot, A, W3) /\ Sound(m2, A, W4)
       /\ Grows(b.ir, A, W2, m2, A, W4) /\ Grows(slot, A, W3, m2, A, W4)
  BY <1>6, <1>8, <1>10, <1>11 DEF Runs, Here
<1>14. Fixed(m2, W4, x)
  BY <1>8, <1>13, FixedKept
<1>15. Bindings(b.syms, m2, W4)
  BY <1>5, <1>13, BindingsKept
<1>16. Bindings(H2, m2, W4) /\ Widens(b.syms, H2) /\ Len(H2) = Len(b.syms)
  BY <1>3, <1>14, <1>15, SymbolDefined
<1> HIDE DEF H2
<1>17. Widens(H, H2)
  BY <1>5, <1>16, WidensOn
<1>18. Parametered(c, m, A, W, f, H)
  BY <1>2, <1>5, <1>12, <1>16, <1>17 DEF Parametered
<1> QED
  BY <1>18 DEF c

(* All parameters have slots, by the first that has none.                  *)
LEMMA ParametersSound ==
    ASSUME NEW m, NEW A, NEW W, NEW f, Here(m, A, W, f), NEW H, Bindings(H, m, W),
           NEW params, Len(params) \in Nat
    PROVE  Parametered(Gen!ParamSlots(m, f, H, params), m, A, W, f, H)
<1> DEFINE k == Len(params)
           g == CHOOSE g : Slots(g, k, m, f, H, params)
           T == {i \in 0 .. k : ~ Parametered(g[i], m, A, W, f, H)}
<1>1. Slots(g, k, m, f, H, params)
  BY SlotsExist
<1>2. Gen!ParamSlots(m, f, H, params) = g[k]
  BY SlotsChosen
<1> HIDE DEF g, k
<1>3. k \in Nat
  BY DEF k
<1>4. g[0] = NoSlot(m, H)
  BY <1>1, <1>3 DEF Slots
<1>5. \A i \in 1 .. k : g[i] = NextSlot(g[i - 1], i, f, params)
  BY <1>1, <1>3 DEF Slots
<1>6. Parametered(g[0], m, A, W, f, H)
  <2>1. g[0].ir = m /\ g[0].syms = H
    BY <1>4 DEF NoSlot
  <2>2. Sound(m, A, W)
    BY DEF Here
  <2>3. Grows(m, A, W, m, A, W) /\ Widens(H, H)
    BY <2>2, GrowsNot, BindingsKept
  <2>4. Runs(m, A, W, f, m, W)
    BY <2>3 DEF Runs
  <2> QED
    BY <2>1, <2>3, <2>4 DEF Parametered
<1>7. ASSUME T # {} PROVE FALSE
  <2>1. PICK x \in T : \A y \in T : x <= y
    <3>1. T \subseteq Nat
      BY <1>3
    <3> HIDE DEF T
    <3> QED
      BY <1>7, <3>1, LeastNumber
  <2>2. x # 0 /\ x \in 0 .. k /\ ~ Parametered(g[x], m, A, W, f, H)
    BY <1>6, <2>1
  <2>3. x \in 1 .. k /\ x - 1 \in 0 .. k /\ ~ (x <= x - 1)
    BY <1>3, <2>2
  <2>4. Parametered(g[x - 1], m, A, W, f, H)
    BY <2>1, <2>3
  <2> HIDE DEF T
  <2>5. Parametered(NextSlot(g[x - 1], x, f, params), m, A, W, f, H)
    BY <2>4, SlotSound
  <2> QED
    BY <1>5, <2>2, <2>3, <2>5
<1>8. k \in 0 .. k
  BY <1>3
<1> QED
  BY <1>2, <1>7, <1>8

(* A function has been begun.                                              *)
Underway(m, A, W, f, H, body) ==
    \E A2, W2 : /\ Here(body.ir, A2, W2, f) /\ Grows(m, A, W, body.ir, A2, W2)
                /\ body.fun.fn = f /\ Returning(body.ir, A2, W2, body.fun)
                /\ Bindings(body.syms, body.ir, W2)
                /\ Widens(H, body.syms) /\ Len(body.syms) = Len(H)

(* The slot for the result, and the return block, labelled with the entry  *)
(* block alone: whoever returns has passed that.                           *)
LEMMA ReturnSlotSound ==
    ASSUME NEW m, NEW A, NEW W, NEW f, Here(m, A, W, f), First(m, m.at), NEW ret
    PROVE  LET body == Gen!ReturnSlot(m, f, ret)
           IN  \E A2, W2 : /\ Leads(m, A, W, f, body.ir, A2, W2)
                           /\ body.fun.fn = f
                           /\ Returning(body.ir, A2, W2, body.fun)
<1> DEFINE body == Gen!ReturnSlot(m, f, ret)
<1>1. CASE ret = Gen!Void
  <2>1. body.ir = m /\ body.fun.fn = f /\ body.fun.retBlock = 0
    BY <1>1 DEF Gen!ReturnSlot, Gen!NoFunction
  <2> HIDE DEF body
  <2>2. Returning(body.ir, A, W, body.fun)
    BY <2>1 DEF Returning
  <2>3. Leads(m, A, W, f, body.ir, A, W)
    BY <2>1, LeadsNot
  <2> QED
    BY <2>1, <2>2, <2>3 DEF body
<1>2. CASE ret # Gen!Void
  <2> DEFINE t    == Gen!LLVMType(ret)
             slot == Gen!Alloca(m, f, t)
             x    == slot.last
             null == Gen!NullConstant(t)
             m1   == Gen!Store(slot, null, x)
             m2   == Gen!NewBlock(m1, f)
  <2>1. /\ body.ir = m2 /\ body.fun.fn = f /\ body.fun.retBlock = Gen!LastBlock(m2)
        /\ body.fun.retAlloca = x
    <3>1. body = [ir |-> m2, fun |-> [fn |-> f, retBlock |-> Gen!LastBlock(m2),
                                      retAlloca |-> x]]
      BY <1>2 DEF Gen!ReturnSlot
    <3> HIDE DEF body, m2, x
    <3> QED
      BY <3>1
  <2>2. Gen!Kind(null) # "inst"
    BY NotComputed DEF Gen!NullConstant
  <2> HIDE DEF body, null, t
  <2>3. PICK W1 : Runs(m, A, W, f, slot, W1) /\ Fixed(slot, W1, slot.last)
    BY AllocaSound
  <2> HIDE DEF slot
  <2>4. Here(slot, A, W1, f) /\ Fixed(slot, W1, x)
    BY <2>3 DEF Runs
  <2>5. Ready(slot, A, W1, f, x) /\ Ready(slot, A, W1, f, null)
    BY <2>2, <2>4, FixedReady, WithinAlways DEF Ready
  <2> HIDE DEF x
  <2>6. PICK W2 : Runs(slot, A, W1, f, m1, W2)
    BY <2>4, <2>5, StoreSound
  <2> HIDE DEF m1
  <2>7. Runs(m, A, W, f, m1, W2)
    BY <2>3, <2>6, RunsOn
  <2>8. Here(m1, A, W2, f) /\ m1.at = m.at
    BY <2>7 DEF Runs
  <2>9. \E A3 : Opens(m1, A, W2, f, 1, m2, A3)
    <3>1. Opens(m1, A, W2, f, 0, m1, A) /\ 0 \in Nat /\ 0 + 1 = 1
      BY <2>8, OpensNone
    <3>2. \E A3 : Opens(m1, A, W2, f, 0 + 1, m2, A3)
      BY <2>8, <3>1, OpensMore
    <3> QED
      BY <3>1, <3>2
  <2>10. PICK A3 : Opens(m1, A, W2, f, 1, m2, A3)
    BY <2>9
  <2> HIDE DEF m2
  <2>11. /\ Len(m1.blocks) \in Nat /\ Len(m2.blocks) = Len(m1.blocks) + 1
         /\ A3[Len(m2.blocks)] = Past(A, m1.at) /\ Of(m2, Len(m2.blocks)) = f
         /\ Leads(m1, A, W2, f, m2, A3, W2)
    <3>1. Leads(m1, A, W2, f, m2, A3, W2) /\ Len(m1.blocks) \in Nat
      BY <2>8, <2>10, OpensFacts
    <3> QED
      BY <2>10, <3>1 DEF Opens
  <2>12. Leads(m, A, W, f, m2, A3, W2)
    <3>1. Leads(m, A, W, f, m1, A, W2)
      BY <2>7, RunsLeads
    <3> QED
      BY <2>11, <3>1, LeadsOn
  <2>13. /\ Sound(m, A, W) /\ Sound(slot, A, W1) /\ Sound(m1, A, W2) /\ Sound(m2, A3, W2)
         /\ Grows(m, A, W, m2, A3, W2) /\ Grows(slot, A, W1, m1, A, W2)
         /\ Grows(m1, A, W2, m2, A3, W2)
    BY <2>4, <2>6, <2>8, <2>11, <2>12 DEF Leads, Runs, Here
  <2>14. Fixed(m2, W2, x)
    <3>1. Fixed(m1, W2, x)
      BY <2>4, <2>13, FixedKept
    <3> QED
      BY <2>13, <3>1, FixedKept
  <2>15. A[m.at] = {} /\ Of(m, m.at) = f
    BY DEF Here, Sound, SoundBlock
  <2>16. First(m2, m.at) /\ Of(m2, m.at) = f
    BY <2>13, <2>15, FirstKept
  <2>17. Returning(m2, A3, W2, body.fun)
    <3>1. \A d \in A3[Len(m2.blocks)] : First(m2, d) /\ Of(m2, d) = f
      BY <2>8, <2>11, <2>15, <2>16 DEF Past
    <3>2. Len(m2.blocks) \in 1 .. Len(m2.blocks)
      BY <2>11
    <3> QED
      BY <2>1, <2>11, <2>14, <3>1, <3>2 DEF Returning, Gen!LastBlock
  <2> QED
    BY <2>1, <2>12, <2>17 DEF body
<1> QED
  BY <1>1, <1>2

(* beginFn: the new function has an entry block, in which its parameters   *)
(* and its result have slots.                                              *)
LEMMA BeginSound ==
    ASSUME NEW m, NEW A, NEW W, Sound(m, A, W), NEW f, Fresh(m, f),
           NEW H, Bindings(H, m, W), NEW ret, NEW params, Len(params) \in Nat
    PROVE  Underway(m, A, W, f, H, Gen!beginFn(m, H, f, ret, params))
<1> DEFINE n     == Len(m.blocks)
           entry == Gen!NewBlock(m, f)
           A1    == Label(A, n, {})
           m1    == Gen!SetInsertPoint(entry, Gen!LastBlock(entry))
           slots == Gen!ParamSlots(m1, f, H, params)
           body  == Gen!ReturnSlot(slots.ir, f, ret)
           begun == Gen!beginFn(m, H, f, ret, params)
<1>1. begun.ir = body.ir /\ begun.fun = body.fun /\ begun.syms = slots.syms
  <2>1. begun = [ir |-> body.ir, fun |-> body.fun, syms |-> slots.syms]
    BY DEF Gen!beginFn
  <2> HIDE DEF begun, body, slots
  <2> QED
    BY <2>1
<1> DEFINE none == {}
<1>2. Opened(m, A, W, f, none, entry, Label(A, n, none))
  <2>1. MayOpen(m, A, f, none)
    BY DEF MayOpen, Fresh
  <2> HIDE DEF none
  <2> QED
    BY <2>1, BlockSound
<1> HIDE DEF entry, begun
<1>3. /\ Sound(entry, A1, W) /\ Grows(m, A, W, entry, A1, W)
      /\ Len(entry.blocks) = n + 1 /\ Of(entry, n + 1) = f /\ First(entry, n + 1)
      /\ n \in Nat
  BY <1>2, SoundNumbers DEF Opened
<1> HIDE DEF A1
<1>4. Gen!LastBlock(entry) = n + 1 /\ n + 1 \in 1 .. Len(entry.blocks)
  BY <1>3 DEF Gen!LastBlock
<1>5. /\ Here(m1, A1, W, f) /\ Grows(entry, A1, W, m1, A1, W)
      /\ m1.at = n + 1
  BY <1>3, <1>4, PointSound
<1> HIDE DEF m1
<1>6. Sound(m1, A1, W)
  BY <1>5 DEF Here
<1>7. First(m1, m1.at) /\ Grows(m, A, W, m1, A1, W)
  BY <1>3, <1>5, <1>6, FirstKept, GrowsOn
<1>8. Bindings(H, m1, W)
  BY <1>6, <1>7, BindingsKept
<1>9. PICK W2 : /\ Runs(m1, A1, W, f, slots.ir, W2)
                /\ Bindings(slots.syms, slots.ir, W2)
                /\ Widens(H, slots.syms) /\ Len(slots.syms) = Len(H)
  BY <1>5, <1>8, ParametersSound DEF Parametered
<1> HIDE DEF slots
<1>10. /\ Here(slots.ir, A1, W2, f) /\ slots.ir.at = m1.at
       /\ Grows(m1, A1, W, slots.ir, A1, W2) /\ Sound(slots.ir, A1, W2)
  BY <1>9 DEF Runs, Here
<1>11. First(slots.ir, slots.ir.at)
  BY <1>6, <1>7, <1>10, FirstKept
<1>12. PICK A3, W3 : /\ Leads(slots.ir, A1, W2, f, body.ir, A3, W3)
                     /\ body.fun.fn = f /\ Returning(body.ir, A3, W3, body.fun)
  BY <1>10, <1>11, ReturnSlotSound
<1> HIDE DEF body
<1>13. /\ Here(body.ir, A3, W3, f) /\ Sound(body.ir, A3, W3)
       /\ Grows(slots.ir, A1, W2, body.ir, A3, W3)
  BY <1>12 DEF Leads, Here
<1>14. Grows(m, A, W, body.ir, A3, W3)
  <2>1. Grows(m1, A1, W, body.ir, A3, W3)
    BY <1>6, <1>10, <1>13, GrowsOn
  <2> QED
    BY <1>6, <1>7, <1>13, <2>1, GrowsOn
<1>15. Bindings(slots.syms, body.ir, W3)
  BY <1>9, <1>10, <1>13, BindingsKept
<1>16. Underway(m, A, W, f, H, begun)
  BY <1>1, <1>9, <1>12, <1>13, <1>14, <1>15 DEF Underway
<1> QED
  BY <1>16 DEF begun

(* A nested function: its visitor keeps where the generator was.  val_ is  *)
(* of another function, whichever it is.                                   *)
LEMMA FlowEnterFunction ==
    ASSUME NEW A, NEW W, NEW E, NEW G,
           Flow(genStk, E, G, ir, A, W, fun, val, genScope, genSyms), genStk # <<>>,
           HoldsFunction(Gen!Top.node), Gen!Top.pc = 0,
           NEW lit, IsFunctionLiteral(lit),
           NEW m, NEW W1, Sound(m, A, W1), Grows(ir, A, W, m, A, W1), m.at = ir.at,
           Fresh(m, Gen!LastFunction(m)),
           NEW H, Bindings(H, m, W1), Widens(genSyms, H), Len(H) = Len(genSyms),
           Gen!EnterFunction(lit, m, H)
    PROVE  Upheld
<1> DEFINE L      == Len(genStk)
           new    == Gen!LastFunction(m)
           ret    == Gen!resolveTypeName(lit.ret)
           body   == Gen!beginFn(m, H, new, ret, lit.params)
           env    == Gen!Child(genSyms, genScope)
           H2     == Gen!Extend(body.syms, Gen!NoBindings)
           locals == [fun |-> fun, at |-> m.at]
           f      == Gen!Frame(Gen!Top.node, 1, locals, Gen!Top.saved)
           g      == Gen!Entry(lit.body, env)
           t      == PushOver(genStk, f, g)
<1>1. /\ genStk' = t /\ ir' = body.ir /\ fun' = body.fun /\ val' = val
      /\ genScope' = env /\ genSyms' = H2
  BY DEF Gen!EnterFunction, Gen!Accept, Gen!Built, Gen!Depth, PushOver
<1>2. /\ f.node = Gen!Top.node /\ f.pc = 1 /\ f.own.fun = fun /\ f.own.at = m.at
      /\ g.node = lit.body /\ g.pc = 0
  BY DEF Gen!Entry, Gen!Frame
<1>3. Len(lit.params) \in Nat /\ lit.body \in Node
  BY DEF IsFunctionLiteral
<1> HIDE DEF f, g, t
<1>4. Underway(m, A, W1, new, H, body)
  <2> HIDE DEF ret, new, body
  <2>1. Fresh(m, new)
    BY DEF new
  <2> QED
    BY <1>3, <2>1, BeginSound DEF body
<1> HIDE DEF new, body
<1>5. PICK A2, W2 : /\ Here(body.ir, A2, W2, new) /\ Grows(m, A, W1, body.ir, A2, W2)
                    /\ body.fun.fn = new /\ Returning(body.ir, A2, W2, body.fun)
                    /\ Bindings(body.syms, body.ir, W2)
                    /\ Widens(H, body.syms) /\ Len(body.syms) = Len(H)
  BY <1>4 DEF Underway
<1>6. /\ Gen!Top.node \in Node /\ Here(ir, A, W, fun.fn) /\ Sound(ir, A, W)
      /\ Sound(body.ir, A2, W2) /\ Gen!Top = genStk[L]
  BY <1>5, Standing DEF Here
<1>7. Grows(ir, A, W, body.ir, A2, W2)
  BY <1>5, <1>6, GrowsOn
<1>8. /\ Returning(ir, A, W, fun) /\ Bindings(genSyms, ir, W)
      /\ genScope \in Seq(1 .. Len(genSyms)) /\ Known(ir, val)
  BY DEF Flow
<1>9. Idle(Gen!Top)
  BY PlainIdle
<1>10. E[L] \subseteq Past(A, ir.at) /\ G[L] = fun.fn
  BY <1>9, Working DEF Idle
<1>11. Generates(f)
  BY <1>2 DEF Generates
<1>12. Ast[f.node].kind \in {"FnLit", "Let"}
  BY <1>2 DEF HoldsFunction
<1>13. /\ ~ Joins(f) /\ ~ Branches(f) /\ ~ Chooses(f) /\ ~ Tests(f) /\ ~ Repeats(f)
  BY <1>12 DEF Joins, Branches, Chooses, Tests, Repeats, Connects
<1>14. Dues(f) = {} /\ Held(f) = {} /\ Assigns(f, H2) /\ Follows(f, g)
  BY <1>11, <1>12, <1>13 DEF Dues, Held, Assigns, Follows
<1>15. /\ ir.at \in 1 .. Len(body.ir.blocks) /\ Of(body.ir, ir.at) = fun.fn
       /\ A2[ir.at] = A[ir.at]
  <2>1. ir.at \in 1 .. Len(ir.blocks) /\ Of(ir, ir.at) = fun.fn
    BY <1>6 DEF Here
  <2>2. Len(ir.blocks) \in Nat /\ Len(body.ir.blocks) \in Nat
    BY <1>6, SoundNumbers
  <2> QED
    BY <1>7, <2>1, <2>2 DEF Grows
<1>16. Returning(body.ir, A2, W2, fun)
  BY <1>6, <1>7, <1>8, ReturningKept
<1>17. Keeps(f, E[L], G[L], Past(A2, body.ir.at), new, body.ir, A2, W2)
  <2>1. Locals(f, E[L], G[L], Past(A2, body.ir.at), new, body.ir, A2, W2)
    BY <1>12, <1>13, <1>14 DEF Locals
  <2>2. E[L] \subseteq Past(A2, ir.at)
    BY <1>10, <1>15 DEF Past
  <2> HIDE DEF L
  <2> QED
    BY <1>2, <1>6, <1>10, <1>11, <1>15, <1>16, <2>1, <2>2 DEF Keeps
<1>18. /\ Bindings(H2, body.ir, W2) /\ Widens(genSyms, H2)
       /\ env \in Seq(1 .. Len(H2))
  <2> DEFINE X == Gen!Extend(genSyms, Gen!NoBindings)
             none == <<>>
  <2>1. env \in Seq(1 .. Len(X))
    BY <1>8, ScopeAdded
  <2>2. none \in Seq(1 .. Len(body.syms))
    OBVIOUS
  <2> HIDE DEF none
  <2>3. Bindings(H2, body.ir, W2) /\ Widens(body.syms, H2)
    BY <1>5, <2>2, ScopeAdded
  <2>4. Widens(genSyms, H2)
    BY <1>5, <2>3, WidensOn
  <2>5. Len(X) = Len(H2)
    <3>1. IsSeq(genSyms) /\ IsSeq(body.syms) /\ Len(body.syms) = Len(genSyms)
      BY <1>5, <1>8 DEF Bindings
    <3>2. Len(X) = Len(genSyms) + 1 /\ Len(H2) = Len(body.syms) + 1
      BY <3>1, AppendFacts DEF Gen!Extend
    <3> QED
      BY <3>1, <3>2
  <2> HIDE DEF X, H2, env
  <2> QED
    BY <2>1, <2>3, <2>4, <2>5
<1>19. Within(body.ir, W2, val, Past(A2, body.ir.at), new)
  <2>1. SUFFICES ASSUME Gen!Kind(val) = "inst"
                 PROVE  /\ Gen!Detail(val) \in 1 .. body.ir.made
                        /\ Of(body.ir, W2[Gen!Detail(val)]) # new
    BY DEF Within
  <2> DEFINE id == Gen!Detail(val)
  <2>2. id \in 1 .. ir.made
    BY <1>8, <2>1 DEF Known
  <2> HIDE DEF id
  <2>3. ir.made \in Nat /\ m.made \in Nat /\ body.ir.made \in Nat
    BY <1>6, SoundNumbers
  <2>4. id \in 1 .. m.made /\ id \in 1 .. body.ir.made
    BY <1>5, <1>7, <2>2, <2>3 DEF Grows
  <2>5. W1[id] \in 1 .. Len(m.blocks) /\ W2[id] = W1[id]
    BY <1>5, <2>4 DEF Sound, Placed, Grows
  <2>6. Of(m, W1[id]) # new
    BY <2>5 DEF Fresh, new
  <2>7. Of(body.ir, W1[id]) = Of(m, W1[id])
    BY <1>5, <2>5 DEF Grows
  <2> QED
    BY <2>4, <2>5, <2>6, <2>7 DEF id
<1> HIDE DEF env, H2
<1>20. Vouches(PushOver(genStk, f, g), body.ir, body.fun, val, env, H2)
  <2>1. /\ Here(body.ir, A2, W2, body.fun.fn)
        /\ Keeps(f, E[Len(genStk)], G[Len(genStk)], Past(A2, body.ir.at), body.fun.fn,
                 body.ir, A2, W2)
        /\ Within(body.ir, W2, val, Past(A2, body.ir.at), body.fun.fn)
        /\ g.node \in Node
    BY <1>2, <1>3, <1>5, <1>17, <1>19
  <2> QED
    BY <1>2, <1>5, <1>7, <1>14, <1>18, <2>1, Pushes
<1> QED
  BY <1>1, <1>20 DEF Upheld, t

(* finishFn: the result is stored where it has been computed, and read     *)
(* back in the return block.                                               *)
LEMMA FinishSound ==
    ASSUME NEW A, NEW W, Here(ir, A, W, fun.fn), Returning(ir, A, W, fun),
           Ready(ir, A, W, fun.fn, val), NEW ret, fun.retBlock = 0 => ret = Gen!Void
    PROVE  \E W2 : /\ Sound(Gen!finishFn(ir, val, ret), A, W2)
                   /\ Grows(ir, A, W, Gen!finishFn(ir, val, ret), A, W2)
<1> DEFINE rb   == fun.retBlock
           x    == fun.retAlloca
           fn   == fun.fn
           w    == IF val # Gen!NullValue /\ Gen!Tid(val) = Gen!LLVMType(ret)
                   THEN Gen!Store(ir, val, x) ELSE ir
           imp  == Gen!ImplicitReturn(ir, val, ret)
           done == IF Gen!Terminated(ir, ir.at) THEN ir ELSE imp
           t    == Gen!LLVMType(ret)
           m1   == Gen!SetInsertPoint(done, rb)
           m2   == Gen!Load(m1, t, x)
           args == <<m2.last>>
           m3   == Gen!Emit(m2, "ret", Gen!Void, args, <<>>)
<1>1. Gen!finishFn(ir, val, ret) = IF rb = 0 THEN done ELSE m3
  BY DEF Gen!finishFn
<1>2. rb # 0 => Fixed(ir, W, x)
  BY DEF Returning
<1>3. /\ Sound(ir, A, W) /\ Runs(ir, A, W, fn, ir, W)
  <2>1. Sound(ir, A, W)
    BY DEF Here
  <2> QED
    BY <2>1, GrowsNot DEF Runs
<1>4. \E W2 : Runs(ir, A, W, fn, imp, W2)
  <2>1. CASE ret = Gen!Void
    <3> DEFINE none == <<>>
    <3>1. imp = Gen!Emit(ir, "ret", Gen!Void, none, <<>>)
      BY <2>1 DEF Gen!ImplicitReturn
    <3>2. DOMAIN none = {}
      BY EmptyIsSeq
    <3> HIDE DEF imp, none, fn
    <3>3. Here(ir, A, W, fn)
      BY DEF fn
    <3> QED
      BY <3>1, <3>2, <3>3, RetSound
  <2>2. CASE ret # Gen!Void
    <3>1. imp = Gen!Br(w, rb)
      BY <2>2 DEF Gen!ImplicitReturn
    <3>2. rb # 0 /\ Ready(ir, A, W, fn, x)
      BY <1>2, <2>2, FixedReady
    <3>3. PICK W1 : Runs(ir, A, W, fn, w, W1)
      <4>1. \E W1 : Runs(ir, A, W, fn, Gen!Store(ir, val, x), W1)
        BY <3>2, StoreSound
      <4> QED
        BY <1>3, <4>1
    <3> HIDE DEF imp, w
    <3>4. /\ Here(w, A, W1, fn) /\ Sound(w, A, W1) /\ Grows(ir, A, W, w, A, W1)
      BY <3>3 DEF Runs, Here
    <3>5. Returning(w, A, W1, fun)
      BY <1>3, <3>4, ReturningKept
    <3>6. /\ rb \in 1 .. Len(w.blocks)
          /\ w.at \in 1 .. Len(w.blocks) /\ Of(w, w.at) = fn
      BY <3>2, <3>4, <3>5 DEF Returning, Here
    <3>7. A[rb] \subseteq Past(A, w.at)
      BY <3>2, <3>4, <3>5, <3>6, ReturnPast
    <3> HIDE DEF rb, fn
    <3>8. PICK W2 : Runs(w, A, W1, fn, imp, W2)
      BY <3>1, <3>4, <3>6, <3>7, BrSound
    <3>9. Here(ir, A, W, fn)
      BY DEF fn
    <3> QED
      BY <3>3, <3>8, <3>9, RunsOn
  <2> QED
    BY <2>1, <2>2
<1> HIDE DEF imp
<1>5. PICK W1 : Runs(ir, A, W, fn, done, W1)
  BY <1>3, <1>4
<1> HIDE DEF done
<1>6. /\ Sound(done, A, W1) /\ Grows(ir, A, W, done, A, W1)
  BY <1>5 DEF Runs, Here
<1>7. CASE rb = 0
  BY <1>1, <1>6, <1>7
<1>8. CASE rb # 0
  <2>1. Returning(done, A, W1, fun)
    BY <1>3, <1>6, ReturningKept
  <2>2. rb \in 1 .. Len(done.blocks) /\ Of(done, rb) = fn /\ Fixed(done, W1, x)
    BY <1>8, <2>1 DEF Returning
  <2> HIDE DEF rb, fn, x, t
  <2>3. Here(m1, A, W1, fn) /\ Grows(done, A, W1, m1, A, W1)
    BY <1>6, <2>2, PointSound
  <2> HIDE DEF m1
  <2>4. Sound(m1, A, W1)
    BY <2>3 DEF Here
  <2>5. Ready(m1, A, W1, fn, x)
    BY <1>6, <2>2, <2>3, <2>4, FixedKept, FixedReady
  <2>6. PICK W2 : Runs(m1, A, W1, fn, m2, W2) /\ Ready(m2, A, W2, fn, m2.last)
    BY <2>3, <2>5, LoadSound
  <2> HIDE DEF m2
  <2>7. Here(m2, A, W2, fn) /\ Sound(m2, A, W2) /\ Grows(m1, A, W1, m2, A, W2)
    BY <2>6 DEF Runs, Here
  <2>8. \A i \in DOMAIN args : Ready(m2, A, W2, fn, args[i])
    BY <2>6
  <2> HIDE DEF args
  <2>9. PICK W3 : Runs(m2, A, W2, fn, m3, W3)
    BY <2>7, <2>8, RetSound
  <2> HIDE DEF m3
  <2>10. Sound(m3, A, W3) /\ Grows(m2, A, W2, m3, A, W3)
    BY <2>9 DEF Runs, Here
  <2>11. Grows(done, A, W1, m2, A, W2)
    BY <1>6, <2>3, <2>4, <2>7, GrowsOn
  <2>12. Grows(done, A, W1, m3, A, W3)
    BY <1>6, <2>7, <2>10, <2>11, GrowsOn
  <2>13. Grows(ir, A, W, m3, A, W3)
    BY <1>3, <1>6, <2>10, <2>12, GrowsOn
  <2> QED
    BY <1>1, <1>8, <2>10, <2>13
<1> QED
  BY <1>7, <1>8

(* At the end of a function val_ is not stale: whatever the blocks around  *)
(* it have left belongs to another function.                               *)
LEMMA FlowLeaveFunction ==
    ASSUME NEW A, NEW W, NEW E, NEW G,
           Flow(genStk, E, G, ir, A, W, fun, val, genScope, genSyms), genStk # <<>>,
           Generates(Gen!Top),
           fun.retBlock = 0 =>
               Gen!resolveTypeName(Literal(Gen!Top.node).ret) = Gen!Void,
           Gen!LeaveFunction(Literal(Gen!Top.node))
    PROVE  Upheld
<1> DEFINE L    == Len(genStk)
           b    == Gen!Top.own.at
           fu   == Gen!Top.own.fun
           ret  == Gen!resolveTypeName(Literal(Gen!Top.node).ret)
           done == Gen!finishFn(ir, val, ret)
           m    == Gen!SetInsertPoint(done, b)
           v    == Gen!FunctionPtr(fun.fn)
           t    == SubSeq(genStk, 1, Len(genStk) - 1)
           env  == Gen!Parent(genScope)
<1>1. /\ genStk' = t /\ ir' = m /\ val' = v /\ fun' = fu
      /\ genScope' = env /\ genSyms' = genSyms
  BY DEF Gen!LeaveFunction, Gen!Finish, Gen!Built, Gen!Depth
<1>2. /\ L \in Nat \ {0} /\ Gen!Top = genStk[L]
      /\ Here(ir, A, W, fun.fn) /\ Sound(ir, A, W)
      /\ Keeps(Gen!Top, E[L], G[L], E[L + 1], G[L + 1], ir, A, W)
  BY Standing DEF Here
<1>3. /\ fu.fn = G[L] /\ b \in 1 .. Len(ir.blocks) /\ Of(ir, b) = G[L]
      /\ E[L] \subseteq Past(A, b) /\ Returning(ir, A, W, fu)
  BY <1>2 DEF Keeps
<1>4. /\ Returning(ir, A, W, fun) /\ Bindings(genSyms, ir, W)
      /\ genScope \in Seq(1 .. Len(genSyms)) /\ Current(genStk, ir, A, W, fun, val)
  BY DEF Flow
<1>5. ~ Stale(genStk)
  <2>1. SUFFICES ASSUME NEW i \in 1 .. L, \A j \in i .. L : ~ Generates(genStk[j])
                 PROVE  FALSE
    BY DEF Stale
  <2>2. L \in i .. L
    BY <1>2
  <2> QED
    BY <1>2, <2>1, <2>2
<1>6. Ready(ir, A, W, fun.fn, val)
  BY <1>4, <1>5 DEF Current, Ready
<1>7. PICK W2 : Sound(done, A, W2) /\ Grows(ir, A, W, done, A, W2)
  BY <1>2, <1>4, <1>6, FinishSound
<1> HIDE DEF done, fu, b, L
<1>8. b \in 1 .. Len(done.blocks) /\ Of(done, b) = fu.fn
  <2>1. Len(ir.blocks) \in Nat /\ Len(done.blocks) \in Nat
    BY <1>2, <1>7, SoundNumbers
  <2> QED
    BY <1>3, <1>7, <2>1 DEF Grows
<1>9. Here(m, A, W2, fu.fn) /\ Grows(done, A, W2, m, A, W2) /\ m.at = b
  BY <1>7, <1>8, PointSound
<1> HIDE DEF m
<1>10. Sound(m, A, W2)
  BY <1>9 DEF Here
<1>11. Grows(ir, A, W, m, A, W2)
  BY <1>2, <1>7, <1>9, <1>10, GrowsOn
<1>12. Returning(m, A, W2, fu) /\ Bindings(genSyms, m, W2) /\ Widens(genSyms, genSyms)
  BY <1>2, <1>3, <1>4, <1>10, <1>11, ReturningKept, BindingsKept
<1>13. env \in Seq(1 .. Len(genSyms))
  BY <1>4, ScopeAdded
<1>14. Gen!Kind(v) # "inst"
  BY NotComputed
<1> HIDE DEF v, t, env
<1>15. Known(m, v) /\ Current(t, m, A, W2, fu, v)
  BY <1>14, WithinAlways DEF Current
<1>16. E[Len(genStk)] \subseteq Past(A, m.at) /\ G[Len(genStk)] = fu.fn
  BY <1>3, <1>9 DEF L
<1>17. Vouches(SubSeq(genStk, 1, Len(genStk) - 1), m, fu, v, env, genSyms)
  <2>1. Current(SubSeq(genStk, 1, Len(genStk) - 1), m, A, W2, fu, v)
    BY <1>15 DEF t
  <2> QED
    BY <1>9, <1>11, <1>12, <1>13, <1>15, <1>16, <2>1, Pops
<1> QED
  BY <1>1, <1>17 DEF Upheld, t

(* The result of a function that is being generated: where it has none it  *)
(* returns nothing (proved of the accounts of the open blocks).            *)
LEMMA NoResult ==
    ASSUME Accounts(genStk, ir, fun), genStk # <<>>, Generates(Gen!Top),
           fun.retBlock = 0
    PROVE  Gen!resolveTypeName(Literal(Gen!Top.node).ret) = Gen!Void
<1>1. PICK F, FN, n, O : Looks(ir, FN, n, O, ir.at) /\ Ledger(genStk, F, FN, n, O, ir.at, fun)
  BY DEF Accounts
<1>2. Account(Gen!Top, F[Len(genStk)], fun, n, FN, O)
  BY <1>1, OnTop
<1> QED
  BY <1>2 DEF Account

(* visit(FnLitExpr).                                                       *)
LEMMA FlowFnLit ==
    ASSUME Vouches(genStk, ir, fun, val, genScope, genSyms),
           Accounts(genStk, ir, fun), Gen!VisitFnLit
    PROVE  Upheld
<1>1. PICK A, W, E, G : Flow(genStk, E, G, ir, A, W, fun, val, genScope, genSyms)
  BY DEF Vouches
<1>2. genStk # <<>> /\ Gen!N.kind = "FnLit"
  BY DEF Gen!VisitFnLit, Gen!Visiting
<1>3. Gen!N = Ast[Gen!Top.node] /\ Gen!Top.node \in Node /\ Sound(ir, A, W)
  BY <1>1, <1>2, Standing DEF Here
<1>4. /\ HoldsFunction(Gen!Top.node) /\ Gen!N = Literal(Gen!Top.node)
      /\ IsFunctionLiteral(Gen!N)
  BY <1>2, <1>3, SyntaxAssumption DEF HoldsFunction, Literal
<1>5. CASE Gen!Top.pc = 0 /\ Gen!EnterFunction(Gen!N, Gen!declareFn(ir, Gen!N), genSyms)
  <2> DEFINE m == Gen!declareFn(ir, Gen!N)
  <2>1. /\ Sound(m, A, W) /\ Grows(ir, A, W, m, A, W) /\ m.at = ir.at
        /\ Fresh(m, Gen!LastFunction(m))
    BY <1>3, FunctionDeclared DEF Gen!declareFn
  <2>2. Gen!EnterFunction(Gen!N, m, genSyms)
    BY <1>5
  <2> HIDE DEF m
  <2>3. Bindings(genSyms, ir, W)
    BY <1>1 DEF Flow
  <2>4. Bindings(genSyms, m, W) /\ Widens(genSyms, genSyms)
    BY <1>3, <2>1, <2>3, BindingsKept
  <2> QED
    BY <1>1, <1>2, <1>4, <1>5, <2>1, <2>2, <2>4, FlowEnterFunction
<1>6. CASE Gen!Top.pc = 1 /\ Gen!LeaveFunction(Gen!N)
  <2>1. Generates(Gen!Top)
    BY <1>4, <1>6 DEF Generates
  <2> QED
    BY <1>1, <1>2, <1>4, <1>6, <2>1, NoResult, FlowLeaveFunction
<1> QED
  BY <1>5, <1>6, ThrowUpheld DEF Gen!VisitFnLit

(* A function that is bound to a name: the slot of the name is in the      *)
(* entry block of the function around it.                                  *)
LEMMA FlowLetFunction ==
    ASSUME NEW A, NEW W, NEW E, NEW G,
           Flow(genStk, E, G, ir, A, W, fun, val, genScope, genSyms), genStk # <<>>,
           HoldsFunction(Gen!Top.node), Gen!Top.pc = 0,
           NEW lit, IsFunctionLiteral(lit), Gen!LetFunction(lit)
    PROVE  Upheld
<1> DEFINE decl == Gen!declareFn(ir, lit)
           type == Gen!Ptr
           fn   == fun.fn
           slot == Gen!Alloca(decl, fn, type)
           x    == slot.last
           new  == Gen!LastFunction(slot)
           p    == Gen!FunctionPtr(new)
           m    == Gen!Store(slot, p, x)
           sym  == Gen!Sym(Gen!PrimType("unknown"), x, new)
           H    == Gen!Define(genSyms, genScope, Gen!N.name, sym)
<1>1. Gen!EnterFunction(lit, m, H)
  BY DEF Gen!LetFunction
<1>2. sym.slot = x
  BY DEF Gen!Sym
<1>3. Gen!Kind(p) # "inst"
  BY NotComputed
<1> HIDE DEF sym, p, type
<1>4. Here(ir, A, W, fun.fn) /\ Sound(ir, A, W)
  BY Standing DEF Here
<1>5. /\ Sound(decl, A, W) /\ Grows(ir, A, W, decl, A, W)
      /\ decl.at = ir.at /\ decl.blocks = ir.blocks
      /\ Fresh(decl, Gen!LastFunction(decl))
  BY <1>4, FunctionDeclared DEF Gen!declareFn
<1> HIDE DEF decl
<1>6. Here(decl, A, W, fn)
  BY <1>4, <1>5 DEF Here, Of
<1> HIDE DEF fn
<1>7. PICK W1 : Runs(decl, A, W, fn, slot, W1) /\ Fixed(slot, W1, slot.last)
  BY <1>6, AllocaSound
<1> HIDE DEF slot
<1>8. Here(slot, A, W1, fn) /\ Fixed(slot, W1, x)
  BY <1>7 DEF Runs
<1>9. Ready(slot, A, W1, fn, x) /\ Ready(slot, A, W1, fn, p)
  BY <1>3, <1>8, FixedReady, WithinAlways DEF Ready
<1> HIDE DEF x, new
<1>10. PICK W2 : Runs(slot, A, W1, fn, m, W2)
  BY <1>8, <1>9, StoreSound
<1> HIDE DEF m
<1>11. Runs(decl, A, W, fn, m, W2)
  BY <1>6, <1>7, <1>10, RunsOn
<1>12. /\ Sound(slot, A, W1) /\ Sound(m, A, W2) /\ Grows(slot, A, W1, m, A, W2)
       /\ Grows(decl, A, W, m, A, W2) /\ m.at = ir.at
       /\ m.funs = decl.funs /\ Len(m.blocks) = Len(decl.blocks)
  BY <1>5, <1>8, <1>10, <1>11 DEF Runs, Here
<1>13. Grows(ir, A, W, m, A, W2)
  BY <1>4, <1>5, <1>12, GrowsOn
<1>14. Fresh(m, Gen!LastFunction(m))
  BY <1>5, <1>12 DEF Fresh, Gen!LastFunction, Grows
<1>15. Fixed(m, W2, x)
  BY <1>8, <1>12, FixedKept
<1>16. Bindings(genSyms, m, W2)
  <2>1. Bindings(genSyms, ir, W)
    BY DEF Flow
  <2> QED
    BY <1>4, <1>12, <1>13, <2>1, BindingsKept
<1>17. Bindings(H, m, W2) /\ Widens(genSyms, H) /\ Len(H) = Len(genSyms)
  BY <1>2, <1>15, <1>16, SymbolDefined
<1> HIDE DEF H
<1> QED
  BY <1>1, <1>12, <1>13, <1>14, <1>17, FlowEnterFunction

(* visit(LetExpr), with compileLetFn.                                      *)
LEMMA FlowLet ==
    ASSUME Vouches(genStk, ir, fun, val, genScope, genSyms),
           Accounts(genStk, ir, fun), Gen!VisitLet
    PROVE  Upheld
<1>1. PICK A, W, E, G : Flow(genStk, E, G, ir, A, W, fun, val, genScope, genSyms)
  BY DEF Vouches
<1>2. genStk # <<>> /\ Gen!N.kind = "Let"
  BY DEF Gen!VisitLet, Gen!Visiting
<1>3. /\ Gen!N = Ast[Gen!Top.node] /\ Gen!Top.node \in Node /\ Gen!Arity = Len(Gen!N.kids)
      /\ Leads(ir, A, W, fun.fn, ir, A, W)
  BY <1>1, <1>2, Standing, FlowStays
<1> DEFINE lit  == Ast[Gen!N.kids[1]]
           none == <<>>
<1>4. 1 \in 1 .. Gen!Arity /\ Gen!N.kids[1] \in Node
  <2>1. Gen!Arity = 1
    BY <1>2, <1>3, SyntaxAssumption DEF Arities
  <2>2. 1 \in 1 .. Len(Ast[Gen!Top.node].kids)
    BY <1>3, <2>1
  <2> QED
    BY <1>3, <2>1, <2>2, ChildNode
<1>5. \/ Gen!Throw
      \/ lit.kind = "FnLit" /\ Gen!Top.pc = 0 /\ Gen!LetFunction(lit)
      \/ lit.kind = "FnLit" /\ Gen!Top.pc = 1 /\ Gen!LeaveFunction(lit)
      \/ lit.kind # "FnLit" /\ UNCHANGED <<fun, genScope, genSyms>> /\ Gen!Go(1, none, ir)
      \/ /\ lit.kind # "FnLit" /\ Gen!Top.pc = 1
         /\ UNCHANGED <<fun, genScope>> /\ Gen!LetVariable
  BY DEF Gen!VisitLet, Gen!Context
<1>6. lit.kind = "FnLit" =>
          /\ HoldsFunction(Gen!Top.node) /\ lit = Literal(Gen!Top.node)
          /\ IsFunctionLiteral(lit)
  BY <1>2, <1>3, <1>4, SyntaxAssumption DEF HoldsFunction, Literal
<1>7. lit.kind # "FnLit" => Plain(Gen!Top.node)
  BY <1>2, <1>3 DEF Plain, HoldsFunction, Connects
<1> HIDE DEF lit, none
<1>8. CASE lit.kind = "FnLit" /\ Gen!Top.pc = 0 /\ Gen!LetFunction(lit)
  BY <1>1, <1>2, <1>6, <1>8, FlowLetFunction
<1>9. CASE lit.kind = "FnLit" /\ Gen!Top.pc = 1 /\ Gen!LeaveFunction(lit)
  <2>1. Generates(Gen!Top)
    BY <1>6, <1>9 DEF Generates
  <2> QED
    BY <1>1, <1>2, <1>6, <1>9, <2>1, NoResult, FlowLeaveFunction
<1>10. CASE /\ lit.kind # "FnLit" /\ UNCHANGED <<fun, genScope, genSyms>>
            /\ Gen!Go(1, none, ir)
  <2> DEFINE f == Gen!Frame(Gen!Top.node, 1, none, Gen!Top.saved)
  <2>1. f.node = Gen!Top.node
    BY DEF Gen!Frame
  <2>2. Idle(Gen!Top) /\ Idle(f)
    BY <1>7, <1>10, PlainVisitor
  <2> HIDE DEF f
  <2>3. Held(f) = {} /\ Assigns(f, genSyms)
    BY <1>2, <1>3, <2>1 DEF Held, Assigns
  <2> QED
    BY <1>1, <1>2, <1>3, <1>4, <1>10, <2>2, <2>3, IdleGoesDown DEF f
<1>11. CASE /\ lit.kind # "FnLit" /\ Gen!Top.pc = 1
            /\ UNCHANGED <<fun, genScope>> /\ Gen!LetVariable
  <2>1. ~ Generates(Gen!Top)
    BY <1>7, <1>11 DEF Plain, Generates
  <2> QED
    BY <1>1, <1>2, <1>11, <2>1, FlowVariable DEF Vouches
<1> QED
  BY <1>5, <1>8, <1>9, <1>10, <1>11, ThrowUpheld

-----------------------------------------------------------------------------
(* The beginning and the end of the program.                               *)

(* A module without functions is sound, however labelled.                  *)
LEMMA EmptySound ==
    ASSUME NEW A, NEW W
    PROVE  Sound(Gen!EmptyModule, A, W)
<1> DEFINE m    == Gen!EmptyModule
           none == <<>>
<1>1. /\ DOMAIN m = {"funs", "blocks", "at", "made", "last", "undef"}
      /\ m.blocks = none /\ m.funs = none /\ m.made = 0
  BY DEF Gen!EmptyModule
<1>2. IsSeq(none) /\ Len(none) = 0
  BY EmptyIsSeq
<1> HIDE DEF m, none
<1>3. 1 .. Len(m.blocks) = {} /\ 1 .. m.made = {} /\ m.made \in Nat
  BY <1>1, <1>2
<1>4. Sound(m, A, W)
  BY <1>1, <1>2, <1>3 DEF Sound
<1> QED
  BY <1>4 DEF m

(* The trail of a generator that has just entered main().                  *)
LEMMA TrailBegun ==
    ASSUME NEW e, e.node \in Node, e.pc = 0,
           NEW P, NEW h, NEW H, NEW m, NEW A, NEW W
    PROVE  Tracked(<<e>>, P, h, H, m, A, W)
<1> DEFINE E == [i \in Nat |-> P]
           G == [i \in Nat |-> h]
           s == <<e>>
<1>1. s \in Seq({e}) /\ Len(s) = 1 /\ s[1] = e
  OBVIOUS
<1>2. IsSeq(s)
  BY <1>1, SeqIsSeq
<1>3. E[1] = P /\ E[1 + 1] = P /\ G[1] = h /\ G[1 + 1] = h
  OBVIOUS
<1> HIDE DEF s, E, G
<1>4. Keeps(e, P, h, P, h, m, A, W)
  <2>1. /\ ~ Generates(e) /\ ~ Joins(e) /\ ~ Branches(e) /\ ~ Chooses(e)
        /\ ~ Tests(e) /\ ~ Repeats(e)
    BY DEF Generates, Joins, Branches, Chooses, Tests, Repeats
  <2>2. Dues(e) = {} /\ Held(e) = {}
    BY <2>1 DEF Dues, Held
  <2>3. e.pc \in Nat /\ e.pc <= Len(Ast[e.node].kids)
    BY SyntaxAssumption, LenProperties
  <2> QED
    BY <2>1, <2>2, <2>3 DEF Keeps, Locals
<1>5. Assigns(e, H)
  BY DEF Assigns
<1>6. \A i \in 1 .. Len(s) : i = 1 /\ s[i] = e
  BY <1>1
<1>7. /\ \A i \in 1 .. Len(s) : Keeps(s[i], E[i], G[i], E[i + 1], G[i + 1], m, A, W)
      /\ \A i \in 1 .. Len(s) : Assigns(s[i], H)
  BY <1>3, <1>4, <1>5, <1>6
<1>8. 1 .. Len(s) - 1 = {}
  BY <1>1
<1>9. Trail(s, E, G, H, m, A, W)
  BY <1>2, <1>7, <1>8 DEF Trail
<1>10. E[Len(s) + 1] = P /\ G[Len(s) + 1] = h
  BY <1>1, <1>3
<1> QED
  BY <1>9, <1>10 DEF s, Tracked

(* A generator that has not begun.                                         *)
Unbegun == /\ ir = Gen!EmptyModule /\ val = Gen!NullValue
           /\ genScope = Gen!GlobalEnv /\ genSyms = <<Gen!NoBindings>>

(* llvmIRGen() up to the walk of the tree: main() is begun.                *)
LEMMA FlowStart ==
    ASSUME Unbegun, NEW root \in Node, Gen!Start(root)
    PROVE  Vouches(genStk', ir', fun', val', genScope', genSyms')
<1> DEFINE int  == Gen!PrimType("int")
           none == <<>>
           m    == Gen!NewFunction(ir, int, none)
           body == Gen!beginFn(m, genSyms, 1, int, none)
           A    == [b \in Nat |-> {}]
           W    == [id \in Nat |-> 1]
           env  == Gen!Child(genSyms, genScope)
           e    == Gen!Entry(root, env)
           H2   == Gen!Extend(genSyms, Gen!NoBindings)
           t    == <<e>>
<1>1. /\ genStk' = t /\ ir' = body.ir /\ fun' = body.fun /\ val' = val
      /\ genScope' = env /\ genSyms' = H2
  BY DEF Gen!Start
<1>2. e.node \in Node /\ e.pc = 0
  BY DEF Gen!Entry, Gen!Frame
<1>3. Sound(ir, A, W)
  <2> HIDE DEF A, W
  <2> QED
    BY EmptySound DEF Unbegun
<1> HIDE DEF A, W, e, t
<1>4. Len(none) \in Nat
  OBVIOUS
<1> HIDE DEF none, int
<1>5. /\ Sound(m, A, W) /\ Grows(ir, A, W, m, A, W) /\ Fresh(m, Gen!LastFunction(m))
  BY <1>3, FunctionDeclared
<1>6. Gen!LastFunction(m) = 1
  <2> DEFINE x == [ret |-> int, params |-> none]
             s == ir.funs
  <2>1. DOMAIN ir = {"funs", "blocks", "at", "made", "last", "undef"} /\ s = <<>>
    BY DEF Unbegun, Gen!EmptyModule
  <2>2. m.funs = Append(s, x)
    BY <2>1 DEF Gen!NewFunction
  <2>3. IsSeq(s) /\ Len(s) = 0
    BY <2>1, EmptyIsSeq
  <2> HIDE DEF m, x, s
  <2>4. Len(m.funs) = 0 + 1
    BY <2>2, <2>3, AppendFacts
  <2> QED
    BY <2>4 DEF Gen!LastFunction
<1> HIDE DEF m
<1>7. Bindings(genSyms, m, W) /\ genScope \in Seq(1 .. Len(genSyms))
  <2> DEFINE x == Gen!NoBindings
             s == <<x>>
  <2>1. DOMAIN x = {}
    BY DEF Gen!NoBindings
  <2> HIDE DEF x
  <2>2. s \in Seq({x}) /\ Len(s) = 1 /\ s[1] = x
    OBVIOUS
  <2>3. genSyms = s /\ genScope = <<1>>
    BY DEF Unbegun, Gen!GlobalEnv, Gen!Global, x
  <2> HIDE DEF s
  <2>4. IsSeq(s) /\ \A i \in 1 .. Len(s) : s[i] = x
    BY <2>2, SeqIsSeq
  <2>5. Bindings(s, m, W)
    BY <2>1, <2>4 DEF Bindings
  <2>6. 1 \in 1 .. Len(s)
    BY <2>2
  <2>7. <<1>> \in Seq(1 .. Len(s))
    BY <2>6
  <2> QED
    BY <2>3, <2>5, <2>7
<1>8. Underway(m, A, W, 1, genSyms, body)
  BY <1>4, <1>5, <1>6, <1>7, BeginSound
<1> HIDE DEF body
<1>9. PICK A2, W2 : /\ Here(body.ir, A2, W2, 1) /\ Grows(m, A, W, body.ir, A2, W2)
                    /\ body.fun.fn = 1 /\ Returning(body.ir, A2, W2, body.fun)
  BY <1>8 DEF Underway
<1>10. Sound(body.ir, A2, W2)
  BY <1>9 DEF Here
<1>11. Bindings(genSyms, body.ir, W2)
  BY <1>5, <1>7, <1>9, <1>10, BindingsKept
<1>12. Bindings(H2, body.ir, W2) /\ env \in Seq(1 .. Len(H2))
  BY <1>7, <1>11, ScopeAdded
<1> HIDE DEF H2, env
<1>13. Known(body.ir, val) /\ Current(t, body.ir, A2, W2, body.fun, val)
  <2>1. Gen!Kind(val) # "inst"
    BY NotComputed DEF Unbegun
  <2> QED
    BY <2>1, WithinAlways DEF Current
<1> DEFINE P == Past(A2, body.ir.at)
           h == body.fun.fn
<1> HIDE DEF P, h
<1>14. PICK E, G : /\ Trail(t, E, G, H2, body.ir, A2, W2)
                   /\ E[Len(t) + 1] = P /\ G[Len(t) + 1] = h
  <2>1. Tracked(<<e>>, P, h, H2, body.ir, A2, W2)
    BY <1>2, TrailBegun
  <2> QED
    BY <2>1 DEF Tracked, t
<1>15. Flow(t, E, G, body.ir, A2, W2, body.fun, val, env, H2)
  BY <1>9, <1>11, <1>12, <1>13, <1>14 DEF Flow, P, h
<1>16. Vouches(t, body.ir, body.fun, val, env, H2)
  BY <1>15 DEF Vouches
<1> QED
  BY <1>1, <1>16

(* llvmIRGen() behind the walk: val_ is not stale, and is the result.      *)
LEMMA FlowFinish ==
    ASSUME Vouches(genStk, ir, fun, val, genScope, genSyms),
           Accounts(genStk, ir, fun), Gen!FinishMain
    PROVE  \E A, W : Sound(ir', A, W)
<1> DEFINE int  == Gen!PrimType("int")
           done == Gen!finishFn(ir, val, int)
<1>1. genStk = <<>> /\ ir' = done
  BY DEF Gen!FinishMain
<1>2. Len(genStk) = 0
  BY <1>1
<1>3. fun.retBlock # 0
  <2>1. PICK F, FN, n, O : Ledger(genStk, F, FN, n, O, ir.at, fun)
    BY DEF Accounts
  <2> QED
    BY <1>2, <2>1 DEF Ledger
<1>4. PICK A, W, E, G : Flow(genStk, E, G, ir, A, W, fun, val, genScope, genSyms)
  BY DEF Vouches
<1>5. ~ Stale(genStk)
  BY <1>2 DEF Stale
<1>6. /\ Here(ir, A, W, fun.fn) /\ Returning(ir, A, W, fun)
      /\ Ready(ir, A, W, fun.fn, val)
  BY <1>4, <1>5 DEF Flow, Current, Ready
<1> HIDE DEF int
<1>7. \E W2 : Sound(done, A, W2)
  BY <1>3, <1>6, FinishSound
<1> QED
  BY <1>1, <1>7

(* Every visitor's step.                                                   *)
LEMMA FlowVisit ==
    ASSUME Vouches(genStk, ir, fun, val, genScope, genSyms),
           Accounts(genStk, ir, fun), Gen!Visit
    PROVE  Upheld
BY FlowLiteral, FlowIdent, FlowUnary, FlowBinOp, FlowArray, FlowDeref, FlowLet,
   FlowAssign, FlowFnLit, FlowCall, FlowReturn, FlowBlock, FlowIf, FlowWhile,
   FlowStmtList DEF Gen!Visit

-----------------------------------------------------------------------------
(* What the labels say: the blocks control comes to without passing block  *)
(* d are labelled with blocks other than d.  ReachedAvoiding is recursive; *)
(* as for the parameters' slots, what it is after each number of edges is  *)
(* shown by the least number for which that fails.                         *)

NextReached(m, before, d) ==
    before \union ((UNION {Gen!Targets(m, b) : b \in before}) \ {d})

Reaching(g, k, m, f, d) ==
    g = [i \in 0 .. k |-> IF i = 0 THEN {Gen!EntryBlock(m, f)} \ {d}
                          ELSE NextReached(m, g[i - 1], d)]

(* ReachedAvoiding is what that yields after as many edges as there are    *)
(* blocks.                                                                 *)
LEMMA ReachedChosen ==
    ASSUME NEW m, NEW f, NEW d
    PROVE  Gen!ReachedAvoiding(m, f, d) =
               (CHOOSE g : Reaching(g, Gen!LastBlock(m), m, f, d))[Gen!LastBlock(m)]
BY DEF Gen!ReachedAvoiding, Reaching, NextReached

(* It yields something after every number of edges.                        *)
LEMMA ReachedExists ==
    ASSUME NEW m, NEW f, NEW d, NEW k \in Nat
    PROVE  \E g : Reaching(g, k, m, f, d)
<1> DEFINE T == {i \in Nat : ~ \E g : Reaching(g, i, m, f, d)}
           start == {Gen!EntryBlock(m, f)} \ {d}
<1>1. SUFFICES ASSUME T # {} PROVE FALSE
  OBVIOUS
<1>2. PICK x \in T : \A y \in T : x <= y
  BY <1>1, LeastNumber
<1>3. x \in Nat /\ ~ \E g : Reaching(g, x, m, f, d)
  BY <1>2
<1>4. CASE x = 0
  <2> DEFINE g == [i \in 0 .. 0 |-> start]
  <2>1. g = [i \in 0 .. 0 |-> IF i = 0 THEN start ELSE NextReached(m, g[i - 1], d)]
    OBVIOUS
  <2>2. Reaching(g, 0, m, f, d)
    BY <2>1 DEF Reaching
  <2> QED
    BY <1>3, <1>4, <2>2
<1>5. CASE x # 0
  <2>1. x - 1 \in Nat /\ ~ (x <= x - 1)
    BY <1>3, <1>5
  <2>2. x - 1 \notin T
    BY <1>2, <2>1
  <2>3. PICK h : Reaching(h, x - 1, m, f, d)
    BY <2>1, <2>2
  <2> DEFINE step(e, i) == IF i = 0 THEN start ELSE NextReached(m, e, d)
             g == [i \in 0 .. x |-> IF i < x THEN h[i] ELSE NextReached(m, h[x - 1], d)]
  <2> HIDE DEF T
  <2>4. \A i \in 0 .. x - 1 : h[i] = step(h[i - 1], i)
    BY <2>3 DEF Reaching
  <2> HIDE DEF start
  <2>5. \A i \in 0 .. x : g[i] = IF i < x THEN h[i] ELSE NextReached(m, h[x - 1], d)
    OBVIOUS
  <2>6. \A i \in 0 .. x : g[i] = step(g[i - 1], i)
    <3> TAKE i \in 0 .. x
    <3>1. CASE i = 0
      BY <1>3, <1>5, <2>4, <2>5, <3>1
    <3>2. CASE i \in 1 .. x - 1
      <4>1. i \in 0 .. x - 1 /\ i < x /\ i - 1 \in 0 .. x /\ i - 1 < x /\ i # 0
        BY <1>3, <3>2
      <4>2. g[i] = h[i] /\ g[i - 1] = h[i - 1]
        BY <2>5, <4>1
      <4> HIDE DEF g
      <4> QED
        BY <2>4, <4>1, <4>2
    <3>3. CASE i = x
      <4>1. x - 1 \in 0 .. x /\ x - 1 < x /\ ~ (x < x) /\ x \in 0 .. x
        BY <1>3, <1>5
      <4>2. g[x] = NextReached(m, h[x - 1], d) /\ g[x - 1] = h[x - 1]
        BY <2>5, <4>1
      <4> HIDE DEF g
      <4> QED
        BY <1>5, <3>3, <4>2
    <3> QED
      BY <1>3, <3>1, <3>2, <3>3
  <2>7. g = [i \in 0 .. x |-> g[i]]
    OBVIOUS
  <2> HIDE DEF g
  <2>8. g = [i \in 0 .. x |-> step(g[i - 1], i)]
    BY <2>6, <2>7
  <2>9. Reaching(g, x, m, f, d)
    BY <2>8 DEF Reaching, start
  <2> QED
    BY <1>3, <2>9
<1> QED
  BY <1>4, <1>5

(* Blocks whose labels do not name d, and that are not d.                  *)
Clear(m, A, d, s) == \A b \in s : b \in 1 .. Len(m.blocks) /\ d \notin Past(A, b)

(* What control comes to from clear blocks, but for d, is clear.           *)
LEMMA ClearOn ==
    ASSUME NEW m, NEW A, NEW W, Sound(m, A, W), NEW d, NEW s, Clear(m, A, d, s)
    PROVE  Clear(m, A, d, NextReached(m, s, d))
<1>1. SUFFICES ASSUME NEW b \in s, NEW c \in Gen!Targets(m, b), c # d
               PROVE  c \in 1 .. Len(m.blocks) /\ d \notin Past(A, c)
  BY DEF Clear, NextReached
<1>2. b \in 1 .. Len(m.blocks) /\ d \notin Past(A, b)
  BY <1>1 DEF Clear
<1>3. c \in Goals(m.blocks[b].code)
  BY <1>1 DEF Gen!Targets, Goals
<1>4. c \in 1 .. Len(m.blocks) /\ A[c] \subseteq Past(A, b)
  BY <1>2, <1>3 DEF Sound, SoundBlock
<1> QED
  BY <1>1, <1>2, <1>4 DEF Past

(* So a block labelled with d is not reached without passing d.            *)
LEMMA LabelsAreTrue ==
    ASSUME NEW m, NEW A, NEW W, Sound(m, A, W),
           NEW b \in 1 .. Len(m.blocks), NEW d \in A[b]
    PROVE  b \notin Gen!ReachedAvoiding(m, Of(m, b), d)
<1> DEFINE f == Of(m, b)
           k == Gen!LastBlock(m)
           g == CHOOSE g : Reaching(g, k, m, f, d)
           T == {i \in 0 .. k : ~ Clear(m, A, d, g[i])}
<1>1. k \in Nat
  BY SoundNumbers DEF Gen!LastBlock
<1>2. Reaching(g, k, m, f, d)
  BY <1>1, ReachedExists
<1>3. Gen!ReachedAvoiding(m, f, d) = g[k]
  BY ReachedChosen
<1> HIDE DEF g, k
<1>4. g[0] = {Gen!EntryBlock(m, f)} \ {d}
  BY <1>1, <1>2 DEF Reaching
<1>5. \A i \in 1 .. k : g[i] = NextReached(m, g[i - 1], d)
  <2> DEFINE start == {Gen!EntryBlock(m, f)} \ {d}
  <2>1. g = [i \in 0 .. k |-> IF i = 0 THEN start ELSE NextReached(m, g[i - 1], d)]
    BY <1>2 DEF Reaching
  <2> HIDE DEF start
  <2>2. \A i \in 0 .. k :
            g[i] = IF i = 0 THEN start ELSE NextReached(m, g[i - 1], d)
    BY <2>1
  <2>3. \A i \in 1 .. k : i \in 0 .. k /\ i # 0
    BY <1>1
  <2> QED
    BY <2>2, <2>3
<1>6. Clear(m, A, d, g[0])
  <2> DEFINE e == Gen!EntryBlock(m, f)
  <2>1. First(m, e)
    BY EntryFirst
  <2> HIDE DEF e
  <2>2. e \in 1 .. Len(m.blocks) /\ A[e] = {}
    BY <2>1 DEF First, Sound, SoundBlock
  <2> QED
    BY <1>4, <2>2 DEF Clear, Past, e
<1>7. ASSUME T # {} PROVE FALSE
  <2>1. PICK x \in T : \A y \in T : x <= y
    <3>1. T \subseteq Nat
      BY <1>1
    <3> HIDE DEF T
    <3> QED
      BY <1>7, <3>1, LeastNumber
  <2>2. x # 0 /\ x \in 0 .. k /\ ~ Clear(m, A, d, g[x])
    BY <1>6, <2>1
  <2>3. x \in 1 .. k /\ x - 1 \in 0 .. k /\ ~ (x <= x - 1)
    BY <1>1, <2>2
  <2>4. Clear(m, A, d, g[x - 1])
    BY <2>1, <2>3
  <2> HIDE DEF T
  <2> QED
    BY <1>5, <2>2, <2>3, <2>4, ClearOn
<1>8. Clear(m, A, d, g[k])
  BY <1>1, <1>7
<1> QED
  BY <1>3, <1>8 DEF Clear, Past

(* An instruction is in the block W says.                                  *)
LEMMA BlockFound ==
    ASSUME NEW A, NEW W, Sound(ir, A, W), NEW id \in 1 .. ir.made
    PROVE  Gen!BlockOf(id) = W[id] /\ W[id] \in 1 .. Len(ir.blocks)
<1> DEFINE In(b) == \E k \in DOMAIN ir.blocks[b].code : ir.blocks[b].code[k].id = id
<1>1. DOMAIN ir.blocks = 1 .. Len(ir.blocks)
  BY LenProperties DEF Sound, IsSeq
<1>2. W[id] \in DOMAIN ir.blocks /\ In(W[id])
  BY <1>1 DEF Sound, Placed
<1>3. \A b \in DOMAIN ir.blocks : In(b) => b = W[id]
  BY <1>1 DEF Sound, SoundBlock
<1>4. Gen!BlockOf(id) = CHOOSE b \in DOMAIN ir.blocks : In(b)
  BY DEF Gen!BlockOf
<1> HIDE DEF In
<1> QED
  BY <1>1, <1>2, <1>3, <1>4

(* In a sound module values are computed before they are used.             *)
LEMMA SoundDominated ==
    ASSUME NEW A, NEW W, Sound(ir, A, W)
    PROVE  Dominated
<1>1. SUFFICES ASSUME NEW b \in DOMAIN ir.blocks, NEW k \in DOMAIN ir.blocks[b].code,
                      NEW i \in DOMAIN ir.blocks[b].code[k].args,
                      Gen!Kind(ir.blocks[b].code[k].args[i]) = "inst",
                      Gen!FunctionOf(Gen!BlockOf(Gen!Detail(ir.blocks[b].code[k].args[i])))
                          = Gen!FunctionOf(b)
               PROVE  Gen!ComputedBefore(Gen!UsedIn(b, ir.blocks[b].code[k], i),
                                         ir.blocks[b].code[k],
                                         Gen!Detail(ir.blocks[b].code[k].args[i]))
  BY DEF Dominated, Gen!Dominated
<1> DEFINE code == ir.blocks[b].code
           ins  == code[k]
           v    == ins.args[i]
           id   == Gen!Detail(v)
           d    == W[id]
           c    == Gen!UsedIn(b, ins, i)
<1>2. b \in 1 .. Len(ir.blocks)
  BY LenProperties DEF Sound, IsSeq
<1>3. Fed(ir, A, W, b, k, i)
  BY <1>1, <1>2 DEF Sound, SoundBlock
<1>4. /\ id \in 1 .. ir.made
      /\ IF ins.op = "phi"
         THEN /\ ins.to[i] \in 1 .. Len(ir.blocks)
              /\ Of(ir, d) = Of(ir, b) => d \in Past(A, ins.to[i])
         ELSE Of(ir, d) = Of(ir, b) =>
                  \/ d \in A[b] \ {b}
                  \/ d = b /\ \E j \in DOMAIN code : j < k /\ code[j].id = id
  BY <1>1, <1>3 DEF Fed
<1>5. Gen!BlockOf(id) = d
  BY <1>4, BlockFound
<1>6. Of(ir, d) = Of(ir, b)
  BY <1>1, <1>5 DEF Gen!FunctionOf, Of
<1>7. c = IF ins.op = "phi" THEN ins.to[i] ELSE b
  BY DEF Gen!UsedIn
<1> HIDE DEF c, d, id
<1>8. CASE ins.op = "phi"
  <2>1. c \in 1 .. Len(ir.blocks) /\ d \in Past(A, c)
    BY <1>4, <1>6, <1>7, <1>8
  <2>2. CASE d = c
    BY <1>5, <1>8, <2>2 DEF Gen!ComputedBefore, c, id
  <2>3. CASE d # c
    <3>1. c \notin Gen!ReachedAvoiding(ir, Of(ir, c), d)
      BY <2>1, <2>3, LabelsAreTrue DEF Past
    <3> QED
      BY <1>5, <2>3, <3>1 DEF Gen!ComputedBefore, Gen!FunctionOf, Of, c, id
  <2> QED
    BY <2>2, <2>3
<1>9. CASE ins.op # "phi" /\ d \in A[b] \ {b}
  <2>1. c = b
    BY <1>7, <1>9
  <2>2. b \notin Gen!ReachedAvoiding(ir, Of(ir, b), d)
    BY <1>2, <1>9, LabelsAreTrue
  <2> QED
    BY <1>5, <1>9, <2>1, <2>2 DEF Gen!ComputedBefore, Gen!FunctionOf, Of, c, id
<1>10. CASE /\ ins.op # "phi" /\ d = b
            /\ \E j \in DOMAIN code : j < k /\ code[j].id = id
  <2>1. c = b
    BY <1>7, <1>10
  <2> QED
    BY <1>5, <1>10, <2>1 DEF Gen!ComputedBefore, c, id
<1> QED
  BY <1>4, <1>6, <1>8, <1>9, <1>10

-----------------------------------------------------------------------------
(* The inductive invariant, beside Books.                                  *)

Vouched ==
    /\ genVerdict = "idle" => Unbegun
    /\ genVerdict = "run" => Vouches(genStk, ir, fun, val, genScope, genSyms)
    /\ genVerdict = "ok" => \E A, W : Sound(ir, A, W)

(* It holds before the passes run.                                         *)
LEMMA VouchedInit == Init => Vouched
BY DEF Init, Gen!Init, Vouched, Unbegun

(* A step of the generator keeps it.                                       *)
LEMMA VouchedGenerated ==
    ASSUME Books, Vouched, LLVMIRGen
    PROVE  Vouched'
<1>1. tree \in Node
  BY SyntaxAssumption DEF Books, LLVMIRGen, Running
<1>2. CASE Gen!Start(tree)
  <2>1. Unbegun /\ genVerdict' = "run"
    BY <1>2 DEF Vouched, Gen!Start
  <2>2. Vouches(genStk', ir', fun', val', genScope', genSyms')
    BY <1>1, <1>2, <2>1, FlowStart
  <2> QED
    BY <2>1, <2>2 DEF Vouched
<1>3. CASE Gen!Visit
  <2>1. genVerdict = "run"
    BY <1>3 DEF Gen!Visit, Gen!VisitLiteral, Gen!VisitIdent, Gen!VisitUnary, Gen!VisitBinOp,
       Gen!VisitArray, Gen!VisitArrayDeref, Gen!VisitLet, Gen!VisitAssign, Gen!VisitFnLit,
       Gen!VisitCall, Gen!VisitReturn, Gen!VisitBlock, Gen!VisitIf, Gen!VisitWhile,
       Gen!VisitStmtList, Gen!Visiting
  <2>2. After
    BY <1>3, <2>1, StepVisit DEF Books
  <2>3. Upheld
    BY <1>3, <2>1, FlowVisit DEF Books, Vouched
  <2>4. genVerdict' \in {"error", "run", "undefined"}
    BY <2>2 DEF After
  <2> QED
    BY <2>3, <2>4 DEF Upheld, Vouched
<1>4. CASE Gen!FinishMain
  <2>1. /\ Vouches(genStk, ir, fun, val, genScope, genSyms)
        /\ Accounts(genStk, ir, fun)
    BY <1>4 DEF Books, Vouched, Gen!FinishMain
  <2>2. \E A, W : Sound(ir', A, W)
    BY <1>4, <2>1, FlowFinish
  <2>3. genVerdict' \in {"ok", "undefined"}
    BY <1>4 DEF Gen!FinishMain
  <2> QED
    BY <2>2, <2>3 DEF Vouched
<1> QED
  BY <1>2, <1>3, <1>4 DEF LLVMIRGen, Gen!Step

(* And so does every step of the compiler.                                 *)
LEMMA VouchedNext == Books /\ Vouched /\ [Next]_vars => Vouched'
<1> SUFFICES ASSUME Books, Vouched, [Next]_vars PROVE Vouched'
  OBVIOUS
<1>1. ASSUME UNCHANGED gen PROVE Vouched'
  BY <1>1 DEF Vouched, Unbegun, gen
<1>2. CASE Parse
  BY <1>1, <1>2 DEF Parse, Exit
<1>3. CASE SemanticAnalysis
  BY <1>1, <1>3 DEF SemanticAnalysis
<1>4. CASE LLVMIRGen
  BY <1>4, VouchedGenerated
<1>5. CASE NextPass
  BY <1>1, <1>5 DEF NextPass
<1>6. CASE Catch \/ Output
  BY <1>1, <1>6 DEF Catch, Output, Exit
<1>7. CASE UNCHANGED vars
  BY <1>1, <1>7 DEF vars
<1> QED
  BY <1>2, <1>3, <1>4, <1>5, <1>6, <1>7 DEF Next, Compile

(* A module that is vouched for is dominated, once it is finished.         *)
LEMMA VouchedDominated == Vouched => Dominated
<1>1. CASE genVerdict = "ok"
  BY <1>1, SoundDominated DEF Vouched
<1>2. CASE genVerdict # "ok"
  BY <1>2 DEF Dominated, Gen!Dominated
<1> QED
  BY <1>1, <1>2

(* Dominated: whatever program is compiled, in the finished module an      *)
(* instruction uses a value of its own function only where every path from *)
(* the function's entry has computed it: val_ and the visitors' locals     *)
(* never carry a value past the blocks in which it is known                *)
(* (LLVMGen, llvm_ir_pass.cpp).                                            *)
THEOREM ModuleDominated == Spec => []Dominated
<1>1. Init => Books /\ Vouched
  BY BooksInit, VouchedInit
<1>2. (Books /\ Vouched) /\ [Next]_vars => (Books /\ Vouched)'
  BY BooksNext, VouchedNext
<1>3. Spec => [](Books /\ Vouched)
  BY <1>1, <1>2, PTL DEF Spec
<1>4. Books /\ Vouched => Dominated
  BY VouchedDominated
<1> QED
  BY <1>3, <1>4, PTL

=============================================================================
