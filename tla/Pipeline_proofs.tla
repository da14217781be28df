-------------------------- MODULE Pipeline_proofs --------------------------
(***************************************************************************)
(* WellFormed, for every program: the module the IR generator builds has   *)
(* nothing behind a terminator, no branch from one function into another   *)
(* and, when it is finished, no block without a terminator.                *)
(*                                                                         *)
(* The proof keeps accounts of the blocks that are still open, those       *)
(* without a terminator: each is the insertion point, the return block of  *)
(* a function being generated, or owed by exactly one of the visitors on   *)
(* the stack, which will go there later.                                   *)
(***************************************************************************)
EXTENDS Pipeline, SeqFacts

-----------------------------------------------------------------------------
(* The code of one block.                                                  *)

Ends(code) == \E k \in DOMAIN code : code[k].op \in Gen!Terminators

(* The blocks that the terminators of the code lead to.                    *)
Goals(code) ==
    UNION {{code[k].to[i] : i \in DOMAIN code[k].to} :
             k \in {k \in DOMAIN code : code[k].op \in Gen!Terminators}}

IsCode(code) ==
    /\ IsSeq(code)
    /\ \A k \in 1 .. Len(code) - 1 : code[k].op \notin Gen!Terminators

(* An instruction behind code that has no terminator.                      *)
LEMMA CodeAppended ==
    ASSUME NEW code, IsCode(code), ~ Ends(code), NEW ins
    PROVE  /\ IsCode(Append(code, ins))
           /\ Ends(Append(code, ins)) <=> ins.op \in Gen!Terminators
           /\ \A b \in Goals(Append(code, ins)) :
                  /\ ins.op \in Gen!Terminators
                  /\ \E i \in DOMAIN ins.to : b = ins.to[i]
<1> DEFINE c == Append(code, ins)
<1>1. IsSeq(code) /\ Len(code) \in Nat
  BY LenProperties DEF IsCode, IsSeq
<1>2. /\ IsSeq(c) /\ Len(c) = Len(code) + 1
      /\ \A i \in 1 .. Len(code) : c[i] = code[i]
      /\ c[Len(code) + 1] = ins
  BY <1>1, AppendFacts
<1>3. DOMAIN code = 1 .. Len(code) /\ DOMAIN c = 1 .. Len(code) + 1
  BY <1>1, <1>2, LenProperties DEF IsSeq
<1> HIDE DEF c
<1>4. \A k \in 1 .. Len(code) : c[k].op \notin Gen!Terminators
  BY <1>2, <1>3 DEF Ends
<1>5. IsCode(c)
  BY <1>1, <1>2, <1>4 DEF IsCode
<1>6. Ends(c) <=> ins.op \in Gen!Terminators
  BY <1>1, <1>2, <1>3, <1>4 DEF Ends
<1>7. ASSUME NEW b \in Goals(c)
      PROVE  ins.op \in Gen!Terminators /\ \E i \in DOMAIN ins.to : b = ins.to[i]
  <2>1. PICK k \in DOMAIN c : c[k].op \in Gen!Terminators
                              /\ b \in {c[k].to[i] : i \in DOMAIN c[k].to}
    BY <1>7 DEF Goals
  <2>2. k = Len(code) + 1
    BY <1>1, <1>3, <1>4, <2>1
  <2> QED
    BY <1>2, <2>1, <2>2
<1> QED
  BY <1>5, <1>6, <1>7 DEF c

(* An instruction in front of any code.                                    *)
LEMMA CodePrepended ==
    ASSUME NEW code, IsCode(code), NEW ins, ins.op \notin Gen!Terminators
    PROVE  /\ IsCode(<<ins>> \o code)
           /\ Ends(<<ins>> \o code) <=> Ends(code)
           /\ Goals(<<ins>> \o code) = Goals(code)
<1> DEFINE c == <<ins>> \o code
           R == Elements(code) \union {ins}
<1>1. code \in Seq(R) /\ <<ins>> \in Seq(R) /\ Len(code) \in Nat
  <2>1. code \in Seq(Elements(code)) /\ Elements(code) \subseteq R
    BY DEF IsCode, IsSeq
  <2>2. code \in Seq(R)
    BY <2>1, SeqMonotonic, Zenon
  <2> QED
    BY <2>2, LenProperties
<1> HIDE DEF R
<1>2. /\ c \in Seq(R) /\ Len(c) = Len(code) + 1
      /\ c[1] = ins
      /\ \A i \in 1 .. Len(code) : c[i + 1] = code[i]
  BY <1>1, ConcatProperties
<1>3. DOMAIN code = 1 .. Len(code) /\ DOMAIN c = 1 .. Len(code) + 1
  BY <1>1, <1>2, LenProperties
<1>4. IsSeq(c)
  BY <1>2, SeqIsSeq
<1> HIDE DEF c
<1>5. \A i \in 2 .. Len(code) + 1 : i - 1 \in 1 .. Len(code) /\ c[i] = code[i - 1]
  <2> TAKE i \in 2 .. Len(code) + 1
  <2>1. i - 1 \in 1 .. Len(code) /\ (i - 1) + 1 = i
    BY <1>1
  <2> QED
    BY <1>2, <2>1
<1>6. IsCode(c)
  <2>1. ASSUME NEW k \in 1 .. Len(c) - 1
        PROVE  c[k].op \notin Gen!Terminators
    <3>1. CASE k = 1
      BY <1>2, <3>1
    <3>2. CASE k \in 2 .. Len(c) - 1
      <4>1. k \in 2 .. Len(code) + 1 /\ k - 1 \in 1 .. Len(code) - 1
        BY <1>1, <1>2, <3>2
      <4> QED
        BY <1>5, <4>1 DEF IsCode
    <3> QED
      BY <1>1, <1>2, <2>1, <3>1, <3>2
  <2> QED
    BY <1>4, <2>1 DEF IsCode
<1>7. \A k \in DOMAIN code : k + 1 \in DOMAIN c /\ c[k + 1] = code[k]
  BY <1>1, <1>2, <1>3
<1>8. \A k \in DOMAIN c : c[k].op \in Gen!Terminators =>
          k - 1 \in DOMAIN code /\ c[k] = code[k - 1]
  <2> TAKE k \in DOMAIN c
  <2>1. k = 1 \/ k \in 2 .. Len(code) + 1
    BY <1>1, <1>3
  <2> QED
    BY <1>2, <1>3, <1>5, <2>1
<1>9. Ends(c) <=> Ends(code)
  BY <1>7, <1>8 DEF Ends
<1>10. Goals(c) = Goals(code)
  <2>1. ASSUME NEW b \in Goals(c) PROVE b \in Goals(code)
    <3>1. PICK k \in DOMAIN c : c[k].op \in Gen!Terminators
                                /\ b \in {c[k].to[i] : i \in DOMAIN c[k].to}
      BY <2>1 DEF Goals
    <3> QED
      BY <1>8, <3>1 DEF Goals
  <2>2. ASSUME NEW b \in Goals(code) PROVE b \in Goals(c)
    <3>1. PICK k \in DOMAIN code : code[k].op \in Gen!Terminators
                                   /\ b \in {code[k].to[i] : i \in DOMAIN code[k].to}
      BY <2>2 DEF Goals
    <3> QED
      BY <1>7, <3>1 DEF Goals
  <2> QED
    BY <2>1, <2>2
<1> QED
  BY <1>6, <1>9, <1>10 DEF c

-----------------------------------------------------------------------------
(* A module under construction.  FN[b] is the function block b belongs to, *)
(* or, where n < b, the one it will belong to; O is the open blocks.       *)

IsBlock(block, f, n, FN) ==
    /\ DOMAIN block = {"fn", "code"}
    /\ block.fn = f
    /\ IsCode(block.code)
    /\ \A c \in Goals(block.code) : c \in 1 .. n /\ FN[c] = f

Looks(m, FN, n, O, a) ==
    /\ DOMAIN m = {"funs", "blocks", "at", "made", "last", "undef"}
    /\ m.at = a
    /\ IsSeq(m.blocks) /\ Len(m.blocks) = n
    /\ O \subseteq 1 .. n
    /\ \A b \in 1 .. n : /\ IsBlock(m.blocks[b], FN[b], n, FN)
                         /\ b \in O <=> ~ Ends(m.blocks[b].code)

(* The code of one block is replaced.                                      *)
LEMMA Recoded ==
    ASSUME NEW m, NEW FN, NEW n, NEW O, NEW a, Looks(m, FN, n, O, a),
           NEW b \in 1 .. n, NEW code, IsCode(code),
           \A c \in Goals(code) : c \in 1 .. n /\ FN[c] = FN[b],
           NEW m2, DOMAIN m2 = DOMAIN m, m2.at = m.at,
           m2.blocks = [m.blocks EXCEPT ![b].code = code]
    PROVE  Looks(m2, FN, n, IF Ends(code) THEN O \ {b} ELSE O \union {b}, a)
<1> DEFINE x == [m.blocks[b] EXCEPT !.code = code]
           O2 == IF Ends(code) THEN O \ {b} ELSE O \union {b}
<1>1. /\ IsSeq(m.blocks) /\ Len(m.blocks) = n /\ O \subseteq 1 .. n
      /\ \A c \in 1 .. n : /\ IsBlock(m.blocks[c], FN[c], n, FN)
                           /\ c \in O <=> ~ Ends(m.blocks[c].code)
  BY DEF Looks
<1>2. m2.blocks = [m.blocks EXCEPT ![b] = x]
  OBVIOUS
<1>3. x.code = code /\ IsBlock(x, FN[b], n, FN)
  BY <1>1 DEF IsBlock
<1> HIDE DEF x
<1>4. IsSeq(m2.blocks) /\ Len(m2.blocks) = n
  BY <1>1, <1>2, ExceptFacts
<1>5. DOMAIN m.blocks = 1 .. n
  BY <1>1, LenProperties DEF IsSeq
<1>6. \A c \in 1 .. n : m2.blocks[c] = IF c = b THEN x ELSE m.blocks[c]
  BY <1>2, <1>5
<1>7. O2 \subseteq 1 .. n /\ \A c \in 1 .. n : c # b => (c \in O2 <=> c \in O)
  BY <1>1
<1>8. b \in O2 <=> ~ Ends(code)
  OBVIOUS
<1> HIDE DEF O2
<1>9. \A c \in 1 .. n : /\ IsBlock(m2.blocks[c], FN[c], n, FN)
                        /\ c \in O2 <=> ~ Ends(m2.blocks[c].code)
  BY <1>1, <1>3, <1>6, <1>7, <1>8
<1>10. Looks(m2, FN, n, O2, a)
  BY <1>4, <1>7, <1>9 DEF Looks
<1> QED
  BY <1>10 DEF O2

(* What does not touch the blocks.                                         *)
LEMMA Untouched ==
    ASSUME NEW m, NEW FN, NEW n, NEW O, NEW a, Looks(m, FN, n, O, a),
           NEW m2, DOMAIN m2 = DOMAIN m, m2.blocks = m.blocks
    PROVE  Looks(m2, FN, n, O, m2.at)
BY DEF Looks

(* Moving the insertion point.                                             *)
LEMMA PointSet ==
    ASSUME NEW m, NEW FN, NEW n, NEW O, NEW a, Looks(m, FN, n, O, a), NEW b
    PROVE  Looks(Gen!SetInsertPoint(m, b), FN, n, O, b)
<1> DEFINE m2 == Gen!SetInsertPoint(m, b)
<1>1. DOMAIN m2 = DOMAIN m /\ m2.blocks = m.blocks /\ m2.at = b
  BY DEF Gen!SetInsertPoint, Looks
<1> HIDE DEF m2
<1> QED
  BY <1>1, Untouched DEF m2

(* Noting the last instruction.                                            *)
LEMMA LastSet ==
    ASSUME NEW m, NEW FN, NEW n, NEW O, NEW a, Looks(m, FN, n, O, a), NEW v
    PROVE  Looks([m EXCEPT !.last = v], FN, n, O, a)
<1> DEFINE m2 == [m EXCEPT !.last = v]
<1>1. DOMAIN m2 = DOMAIN m /\ m2.blocks = m.blocks /\ m2.at = a
  BY DEF Looks
<1> HIDE DEF m2
<1> QED
  BY <1>1, Untouched DEF m2

(* A new function, without blocks.                                         *)
LEMMA FunctionAdded ==
    ASSUME NEW m, NEW FN, NEW n, NEW O, NEW a, Looks(m, FN, n, O, a),
           NEW ret, NEW params
    PROVE  Looks(Gen!NewFunction(m, ret, params), FN, n, O, a)
<1> DEFINE m2 == Gen!NewFunction(m, ret, params)
<1>1. DOMAIN m2 = DOMAIN m /\ m2.blocks = m.blocks /\ m2.at = a
  BY DEF Gen!NewFunction, Looks
<1> HIDE DEF m2
<1> QED
  BY <1>1, Untouched DEF m2

(* An instruction at an insertion point that is open.                      *)
LEMMA Emitted ==
    ASSUME NEW m, NEW FN, NEW n, NEW O, NEW a, Looks(m, FN, n, O, a), a \in O,
           NEW op, NEW type, NEW args, NEW to,
           op \in Gen!Terminators =>
               \A i \in DOMAIN to : to[i] \in 1 .. n /\ FN[to[i]] = FN[a]
    PROVE  Looks(Gen!Emit(m, op, type, args, to), FN, n,
                 IF op \in Gen!Terminators THEN O \ {a} ELSE O, a)
<1> DEFINE ins == [id |-> m.made + 1, op |-> op, type |-> type, args |-> args, to |-> to]
           m2 == Gen!Emit(m, op, type, args, to)
           code == m.blocks[a].code
           code2 == Append(code, ins)
<1>1. a \in 1 .. n /\ IsCode(code) /\ ~ Ends(code) /\ m.at = a
  BY DEF Looks, IsBlock
<1>2. ins.op = op /\ ins.to = to
  OBVIOUS
<1>3. /\ DOMAIN m2 = DOMAIN m
      /\ m2.blocks = [m.blocks EXCEPT ![a].code = code2]
      /\ m2.at = m.at
  BY <1>1 DEF Gen!Emit, Looks
<1> HIDE DEF ins, m2
<1>4. /\ IsCode(code2)
      /\ Ends(code2) <=> op \in Gen!Terminators
      /\ \A b \in Goals(code2) : op \in Gen!Terminators /\ \E i \in DOMAIN to : b = to[i]
  BY <1>1, <1>2, CodeAppended
<1> HIDE DEF code2, code
<1>5. /\ a \in 1 .. n /\ IsCode(code2)
      /\ \A c \in Goals(code2) : c \in 1 .. n /\ FN[c] = FN[a]
  BY <1>1, <1>4
<1>6. Looks(m2, FN, n, IF Ends(code2) THEN O \ {a} ELSE O \union {a}, a)
  BY <1>3, <1>5, Recoded
<1>7. (IF Ends(code2) THEN O \ {a} ELSE O \union {a}) =
          IF op \in Gen!Terminators THEN O \ {a} ELSE O
  BY <1>4
<1> QED
  BY <1>6, <1>7 DEF m2

(* The slot that entryAlloca makes, wherever the insertion point is.       *)
LEMMA Allocated ==
    ASSUME NEW m, NEW FN, NEW n, NEW O, NEW a, Looks(m, FN, n, O, a),
           NEW f, NEW type
    PROVE  Looks(Gen!Alloca(m, f, type), FN, n, O, a)
<1> DEFINE e == Gen!EntryBlock(m, f)
           ins == [id |-> m.made + 1, op |-> "alloca", type |-> type,
                   args |-> <<>>, to |-> <<>>]
           m2 == Gen!Alloca(m, f, type)
           code2 == <<ins>> \o m.blocks[e].code
<1>1. ins.op \notin Gen!Terminators
  BY DEF Gen!Terminators
<1>2. /\ DOMAIN m2 = DOMAIN m
      /\ m2.blocks = [m.blocks EXCEPT ![e].code = code2]
      /\ m2.at = m.at /\ m.at = a
  BY DEF Gen!Alloca, Looks
<1> HIDE DEF ins, m2, e
<1>3. CASE e \in 1 .. n
  <2>1. /\ IsCode(m.blocks[e].code)
        /\ \A c \in Goals(m.blocks[e].code) : c \in 1 .. n /\ FN[c] = FN[e]
        /\ e \in O <=> ~ Ends(m.blocks[e].code)
    BY <1>3 DEF Looks, IsBlock
  <2>2. /\ IsCode(code2)
        /\ Ends(code2) <=> Ends(m.blocks[e].code)
        /\ Goals(code2) = Goals(m.blocks[e].code)
    BY <1>1, <2>1, CodePrepended
  <2> HIDE DEF code2
  <2>3. Looks(m2, FN, n, IF Ends(code2) THEN O \ {e} ELSE O \union {e}, a)
    BY <1>2, <1>3, <2>1, <2>2, Recoded
  <2>4. (IF Ends(code2) THEN O \ {e} ELSE O \union {e}) = O
    BY <2>1, <2>2
  <2> QED
    BY <2>3, <2>4 DEF m2
<1>4. CASE e \notin 1 .. n
  <2>1. m.blocks \in [1 .. n -> Elements(m.blocks)]
    BY LenProperties DEF Looks, IsSeq
  <2>2. m2.blocks = m.blocks
    BY <1>2, <1>4, <2>1
  <2> QED
    BY <1>2, <2>2, Untouched DEF m2
<1> QED
  BY <1>3, <1>4

(* A new block.                                                            *)
LEMMA BlockAdded ==
    ASSUME NEW m, NEW FN, NEW n, NEW O, NEW a, Looks(m, FN, n, O, a),
           NEW f, FN[n + 1] = f
    PROVE  /\ n \in Nat
           /\ Gen!LastBlock(m) = n
           /\ Looks(Gen!NewBlock(m, f), FN, n + 1, O \union {n + 1}, a)
<1> DEFINE x == [fn |-> f, code |-> <<>>]
           m2 == Gen!NewBlock(m, f)
<1>1. /\ DOMAIN m2 = DOMAIN m /\ m2.at = a
      /\ m2.blocks = Append(m.blocks, x)
  BY DEF Gen!NewBlock, Looks
<1>2. IsCode(<<>>) /\ ~ Ends(<<>>) /\ Goals(<<>>) = {}
  BY DEF IsCode, Ends, Goals, IsSeq, Elements
<1>3. x.code = <<>> /\ x.fn = f /\ DOMAIN x = {"fn", "code"}
  OBVIOUS
<1> HIDE DEF m2, x
<1>4. /\ n \in Nat
      /\ IsSeq(m2.blocks) /\ Len(m2.blocks) = n + 1
      /\ \A b \in 1 .. n : m2.blocks[b] = m.blocks[b]
      /\ m2.blocks[n + 1] = x
  BY <1>1, AppendFacts DEF Looks
<1>5. ASSUME NEW b \in 1 .. n
      PROVE  /\ IsBlock(m2.blocks[b], FN[b], n + 1, FN)
             /\ b \in O \union {n + 1} <=> ~ Ends(m2.blocks[b].code)
  <2>1. IsBlock(m.blocks[b], FN[b], n, FN) /\ (b \in O <=> ~ Ends(m.blocks[b].code))
    BY DEF Looks
  <2>2. IsBlock(m.blocks[b], FN[b], n + 1, FN)
    BY <1>4, <2>1 DEF IsBlock
  <2>3. b # n + 1
    BY <1>4
  <2> QED
    BY <1>4, <2>1, <2>2, <2>3
<1>6. IsBlock(x, f, n + 1, FN) /\ ~ Ends(x.code)
  BY <1>2, <1>3 DEF IsBlock
<1>7. ASSUME NEW b \in 1 .. n + 1
      PROVE  /\ IsBlock(m2.blocks[b], FN[b], n + 1, FN)
             /\ b \in O \union {n + 1} <=> ~ Ends(m2.blocks[b].code)
  <2>1. b \in 1 .. n \/ b = n + 1
    BY <1>4
  <2> QED
    BY <1>4, <1>5, <1>6, <2>1
<1>8. O \union {n + 1} \subseteq 1 .. n + 1
  BY <1>4 DEF Looks
<1>9. Looks(m2, FN, n + 1, O \union {n + 1}, a)
  BY <1>1, <1>4, <1>7, <1>8 DEF Looks
<1> QED
  BY <1>4, <1>9 DEF m2, Looks, Gen!LastBlock

-----------------------------------------------------------------------------
(* The builder's operations, at an insertion point that is open.           *)

(* An instruction with a result.                                           *)
LEMMA Computed ==
    ASSUME NEW m, NEW FN, NEW n, NEW O, NEW a, Looks(m, FN, n, O, a), a \in O,
           NEW op, op \notin Gen!Terminators, NEW type, NEW args
    PROVE  Looks(Gen!Build(m, op, type, args), FN, n, O, a)
<1>1. Looks(Gen!Emit(m, op, type, args, <<>>), FN, n, O, a)
  <2>1. Looks(Gen!Emit(m, op, type, args, <<>>), FN, n,
              IF op \in Gen!Terminators THEN O \ {a} ELSE O, a)
    BY Emitted
  <2> QED
    BY <2>1
<1>2. \A v : Looks([m EXCEPT !.last = v], FN, n, O, a)
  BY LastSet
<1> QED
  BY <1>1, <1>2 DEF Gen!Build

(* Any instruction but a terminator.                                       *)
LEMMA Appended ==
    ASSUME NEW m, NEW FN, NEW n, NEW O, NEW a, Looks(m, FN, n, O, a), a \in O,
           NEW op, op \notin Gen!Terminators, NEW type, NEW args, NEW to
    PROVE  Looks(Gen!Emit(m, op, type, args, to), FN, n, O, a)
<1>1. Looks(Gen!Emit(m, op, type, args, to), FN, n,
            IF op \in Gen!Terminators THEN O \ {a} ELSE O, a)
  BY Emitted
<1> QED
  BY <1>1

(* A store.                                                                *)
LEMMA Stored ==
    ASSUME NEW m, NEW FN, NEW n, NEW O, NEW a, Looks(m, FN, n, O, a), a \in O,
           NEW v, NEW slot
    PROVE  Looks(Gen!Store(m, v, slot), FN, n, O, a)
<1>1. "store" \notin Gen!Terminators
  BY DEF Gen!Terminators
<1> QED
  BY <1>1, Appended DEF Gen!Store

(* A load.                                                                 *)
LEMMA Loaded ==
    ASSUME NEW m, NEW FN, NEW n, NEW O, NEW a, Looks(m, FN, n, O, a), a \in O,
           NEW type, NEW slot
    PROVE  Looks(Gen!Load(m, type, slot), FN, n, O, a)
<1>1. "load" \notin Gen!Terminators
  BY DEF Gen!Terminators
<1> QED
  BY <1>1, Appended DEF Gen!Load

(* A terminator closes the block the builder is at.                        *)
LEMMA Terminating ==
    ASSUME NEW m, NEW FN, NEW n, NEW O, NEW a, Looks(m, FN, n, O, a), a \in O,
           NEW op \in Gen!Terminators, NEW type, NEW args, NEW to,
           \A i \in DOMAIN to : to[i] \in 1 .. n /\ FN[to[i]] = FN[a]
    PROVE  Looks(Gen!Emit(m, op, type, args, to), FN, n, O \ {a}, a)
<1>1. Looks(Gen!Emit(m, op, type, args, to), FN, n,
            IF op \in Gen!Terminators THEN O \ {a} ELSE O, a)
  BY Emitted
<1> QED
  BY <1>1

(* A branch; BrUnlessTerminated finds no terminator and makes it.          *)
LEMMA Branched ==
    ASSUME NEW m, NEW FN, NEW n, NEW O, NEW a, Looks(m, FN, n, O, a), a \in O,
           NEW b \in 1 .. n, FN[b] = FN[a]
    PROVE  /\ Looks(Gen!Br(m, b), FN, n, O \ {a}, a)
           /\ Gen!BrUnlessTerminated(m, b) = Gen!Br(m, b)
<1>1. "br" \in Gen!Terminators
  BY DEF Gen!Terminators
<1>2. \A i \in DOMAIN <<b>> : <<b>>[i] \in 1 .. n /\ FN[<<b>>[i]] = FN[a]
  OBVIOUS
<1>3. Looks(Gen!Br(m, b), FN, n, O \ {a}, a)
  BY <1>1, <1>2, Terminating DEF Gen!Br
<1>4. ~ Gen!Terminated(m, m.at)
  BY DEF Looks, Gen!Terminated, Ends
<1> QED
  BY <1>3, <1>4 DEF Gen!BrUnlessTerminated

(* A conditional branch.                                                   *)
LEMMA Forked ==
    ASSUME NEW m, NEW FN, NEW n, NEW O, NEW a, Looks(m, FN, n, O, a), a \in O,
           NEW b \in 1 .. n, FN[b] = FN[a], NEW c \in 1 .. n, FN[c] = FN[a],
           NEW v
    PROVE  Looks(Gen!CondBr(m, v, b, c), FN, n, O \ {a}, a)
<1>1. "condbr" \in Gen!Terminators
  BY DEF Gen!Terminators
<1>2. \A i \in DOMAIN <<b, c>> : <<b, c>>[i] \in 1 .. n /\ FN[<<b, c>>[i]] = FN[a]
  OBVIOUS
<1> QED
  BY <1>1, <1>2, Terminating DEF Gen!CondBr

(* A return.                                                               *)
LEMMA Returns ==
    ASSUME NEW m, NEW FN, NEW n, NEW O, NEW a, Looks(m, FN, n, O, a), a \in O,
           NEW args
    PROVE  Looks(Gen!Emit(m, "ret", Gen!Void, args, <<>>), FN, n, O \ {a}, a)
<1>1. "ret" \in Gen!Terminators
  BY DEF Gen!Terminators
<1>2. \A i \in DOMAIN <<>> : <<>>[i] \in 1 .. n /\ FN[<<>>[i]] = FN[a]
  OBVIOUS
<1> QED
  BY <1>1, <1>2, Terminating

(* A trap and what follows it.                                             *)
LEMMA Trapped ==
    ASSUME NEW m, NEW FN, NEW n, NEW O, NEW a, Looks(m, FN, n, O, a), a \in O
    PROVE  Looks(Gen!Trap(m), FN, n, O \ {a}, a)
<1>1. "trap" \notin Gen!Terminators /\ "unreachable" \in Gen!Terminators
  BY DEF Gen!Terminators
<1> DEFINE m2 == Gen!Emit(m, "trap", Gen!Void, <<>>, <<>>)
<1>2. Looks(m2, FN, n, O, a)
  BY <1>1, Appended
<1>3. \A i \in DOMAIN <<>> : <<>>[i] \in 1 .. n /\ FN[<<>>[i]] = FN[a]
  OBVIOUS
<1> HIDE DEF m2
<1>4. Looks(Gen!Emit(m2, "unreachable", Gen!Void, <<>>, <<>>), FN, n, O \ {a}, a)
  BY <1>1, <1>2, <1>3, Terminating
<1> QED
  BY <1>4 DEF Gen!Trap, m2

-----------------------------------------------------------------------------
(* The accounts.  fu is the generator's members curFn_, retBlock_ and      *)
(* retAlloca_; Cur the open blocks it is at work in.                       *)

Ret(fu) == IF fu.retBlock = 0 THEN {} ELSE {fu.retBlock}

Cur(a, fu) == {a} \union Ret(fu)

HoldsFunction(n) ==
    \/ Ast[n].kind = "FnLit"
    \/ Ast[n].kind = "Let" /\ Ast[Ast[n].kids[1]].kind = "FnLit"

Literal(n) == IF Ast[n].kind = "FnLit" THEN Ast[n] ELSE Ast[Ast[n].kids[1]]

Connects(n) == Ast[n].kind = "BinOp" /\ Ast[n].op \in {"and", "or"}

(* What a visitor is doing while its child is visited.                     *)
Generates(f) == HoldsFunction(f.node) /\ f.pc = 1
Joins(f)     == Connects(f.node) /\ f.pc = 2
Branches(f)  == Ast[f.node].kind = "If" /\ f.pc > 0 /\ f.pc % 2 = 0
Chooses(f)   == Ast[f.node].kind = "If" /\ f.pc > 1 /\ f.pc % 2 = 1
Tests(f)     == Ast[f.node].kind = "While" /\ f.pc = 1
Repeats(f)   == Ast[f.node].kind = "While" /\ f.pc = 2

(* The open blocks a visitor will go to later.                             *)
Owes(f) ==
    IF Generates(f) THEN {f.own.at} \union Ret(f.own.fun)
    ELSE IF Joins(f) \/ Chooses(f) THEN {f.own.merge}
    ELSE IF Branches(f) THEN {f.own.merge, f.own.next}
    ELSE IF Tests(f) THEN {f.own.cond + 1, f.own.cond + 2}
    ELSE IF Repeats(f) THEN {f.own.cond + 2}
    ELSE {}

(* What it needs of its locals besides.                                    *)
Minds(f, fu, n, FN) ==
    /\ Branches(f) => f.own.merge # f.own.next
    /\ Tests(f) \/ Repeats(f) => f.own.cond \in 1 .. n /\ FN[f.own.cond] = fu.fn

(* What visitor f, begun in the function of fu, knows, where inner is what *)
(* the generator's members are while its child is visited.                 *)
Account(f, fu, inner, n, FN, O) ==
    /\ f.node \in Node /\ f.pc \in Nat
    /\ \A b \in Owes(f) : b \in O /\ FN[b] = fu.fn
    /\ IF Generates(f)
       THEN /\ f.own.fun = fu
            /\ f.own.at \notin Ret(fu)
            /\ inner.retBlock = 0 =>
                   Gen!resolveTypeName(Literal(f.node).ret) = Gen!Void
       ELSE inner = fu
    /\ Minds(f, fu, n, FN)

AtWork(a, fu, FN, O) ==
    /\ a \notin Ret(fu)
    /\ \A b \in Cur(a, fu) : b \in O /\ FN[b] = fu.fn

(* F[i] is what the members were when visitor i began.                     *)
Ledger(s, F, FN, n, O, a, fu) ==
    /\ IsSeq(s)
    /\ F[1].retBlock # 0
    /\ F[Len(s) + 1] = fu
    /\ AtWork(a, fu, FN, O)
    /\ \A i \in 1 .. Len(s) : Account(s[i], F[i], F[i + 1], n, FN, O)
    /\ \A i, j \in 1 .. Len(s) : \A b \in Owes(s[i]) : b \in Owes(s[j]) => i = j
    /\ \A i \in 1 .. Len(s) : \A b \in Owes(s[i]) : b \notin Cur(a, fu)
    /\ \A b \in O : b \in Cur(a, fu) \/ \E i \in 1 .. Len(s) : b \in Owes(s[i])

(* A step of the visitor on top hands the open blocks it and the generator *)
(* had, H, on: K to the visitor, C to the generator, new blocks among them.*)
Hands(n, FN, O, H, n2, FN2, O2, K, C) ==
    /\ n \in Nat /\ n2 \in Nat /\ n <= n2
    /\ \A b \in 1 .. n : FN2[b] = FN[b]
    /\ O \subseteq 1 .. n
    /\ \A b \in K : b \notin C
    /\ \A b \in K \union C : b \in H \/ b \in n + 1 .. n2
    /\ O2 = (O \ H) \union K \union C

(* The other visitors keep what they have.                                 *)
LEMMA OthersKeep ==
    ASSUME NEW s, NEW F, NEW FN, NEW n, NEW O, NEW a, NEW fu,
           Ledger(s, F, FN, n, O, a, fu), s # <<>>,
           NEW n2, NEW FN2, NEW O2, NEW K, NEW C,
           Hands(n, FN, O, Owes(s[Len(s)]) \union Cur(a, fu), n2, FN2, O2, K, C)
    PROVE  /\ \A i \in 1 .. Len(s) - 1 :
                  /\ Account(s[i], F[i], F[i + 1], n2, FN2, O2)
                  /\ \A b \in Owes(s[i]) : b \notin K /\ b \notin C
           /\ \A b \in O2 : \/ b \in K \union C
                            \/ \E i \in 1 .. Len(s) - 1 : b \in Owes(s[i])
<1> DEFINE H == Owes(s[Len(s)]) \union Cur(a, fu)
<1>1. Len(s) \in Nat \ {0}
  BY EmptySeq, LenProperties DEF Ledger, IsSeq
<1>2. ASSUME NEW i \in 1 .. Len(s) - 1, NEW b \in Owes(s[i])
      PROVE  b \in 1 .. n /\ b \in O2 /\ FN2[b] = F[i].fn /\ b \notin K /\ b \notin C
  <2>1. i \in 1 .. Len(s) /\ Len(s) \in 1 .. Len(s) /\ i # Len(s)
    BY <1>1
  <2>2. Account(s[i], F[i], F[i + 1], n, FN, O)
    BY <2>1 DEF Ledger
  <2>3. b \in O /\ FN[b] = F[i].fn
    BY <1>2, <2>2 DEF Account
  <2>4. b \notin Owes(s[Len(s)]) /\ b \notin Cur(a, fu)
    BY <1>2, <2>1 DEF Ledger
  <2>5. n \in Nat /\ n2 \in Nat /\ b \in 1 .. n
    <3>1. n \in Nat /\ n2 \in Nat /\ O \subseteq 1 .. n
      BY DEF Hands
    <3> QED
      BY ONLY <2>3, <3>1
  <2>6. b \notin n + 1 .. n2
    BY ONLY <2>5
  <2> QED
    BY <2>3, <2>4, <2>5, <2>6 DEF Hands
<1>3. ASSUME NEW i \in 1 .. Len(s) - 1
      PROVE  Account(s[i], F[i], F[i + 1], n2, FN2, O2)
  <2>1. Account(s[i], F[i], F[i + 1], n, FN, O)
    BY <1>1 DEF Ledger
  <2>2. \A c \in 1 .. n : c \in 1 .. n2 /\ FN2[c] = FN[c]
    BY DEF Hands
  <2> QED
    BY <1>2, <2>1, <2>2 DEF Account, Minds
<1>4. ASSUME NEW b \in O2
      PROVE  b \in K \union C \/ \E i \in 1 .. Len(s) - 1 : b \in Owes(s[i])
  <2>1. b \in K \union C \/ (b \in O /\ b \notin Cur(a, fu) /\ b \notin Owes(s[Len(s)]))
    BY <1>4 DEF Hands
  <2>2. ASSUME b \in O, b \notin Cur(a, fu), b \notin Owes(s[Len(s)])
        PROVE  \E i \in 1 .. Len(s) - 1 : b \in Owes(s[i])
    <3>1. PICK i \in 1 .. Len(s) : b \in Owes(s[i])
      BY <2>2 DEF Ledger
    <3>2. i # Len(s)
      BY <2>2, <3>1
    <3>3. i \in 1 .. Len(s) - 1
      BY <1>1, <3>2
    <3> QED
      BY <3>1, <3>3
  <2> QED
    BY <2>1, <2>2
<1> QED
  BY <1>2, <1>3, <1>4

(* The visitor on top, now f, has a child visited by g.                    *)
LEMMA LedgerPushed ==
    ASSUME NEW s, NEW F, NEW FN, NEW n, NEW O, NEW a, NEW fu,
           Ledger(s, F, FN, n, O, a, fu), s # <<>>,
           NEW n2, NEW FN2, NEW O2, NEW a2, NEW fu2, NEW f, NEW g,
           Hands(n, FN, O, Owes(s[Len(s)]) \union Cur(a, fu),
                 n2, FN2, O2, Owes(f), Cur(a2, fu2)),
           Account(f, F[Len(s)], fu2, n2, FN2, O2),
           AtWork(a2, fu2, FN2, O2),
           g.node \in Node, g.pc = 0
    PROVE  \E F2 : Ledger(PushOver(s, f, g), F2, FN2, n2, O2, a2, fu2)
<1> DEFINE t  == PushOver(s, f, g)
           F2 == [i \in Nat |-> IF i <= Len(s) THEN F[i] ELSE fu2]
           K  == Owes(f)
           C  == Cur(a2, fu2)
           L  == Len(s)
<1>1. IsSeq(s)
  BY DEF Ledger
<1>2. /\ L \in Nat \ {0} /\ IsSeq(t) /\ Len(t) = L + 1
      /\ \A i \in 1 .. L - 1 : t[i] = s[i]
      /\ t[L] = f /\ t[L + 1] = g
  BY <1>1, PushFacts
<1>3. /\ \A i \in 1 .. L : F2[i] = F[i]
      /\ F2[L + 1] = fu2 /\ F2[L + 2] = fu2
  BY <1>2
<1> HIDE DEF t, F2
<1>4. /\ \A i \in 1 .. L - 1 :
             /\ Account(s[i], F[i], F[i + 1], n2, FN2, O2)
             /\ \A b \in Owes(s[i]) : b \notin K /\ b \notin C
      /\ \A b \in O2 : \/ b \in K \union C
                       \/ \E i \in 1 .. L - 1 : b \in Owes(s[i])
  <2> HIDE DEF K, C
  <2> QED
    BY OthersKeep DEF K, C
<1>5. Owes(g) = {} /\ Account(g, fu2, fu2, n2, FN2, O2)
  <2>1. ~ Generates(g) /\ ~ Joins(g) /\ ~ Branches(g) /\ ~ Chooses(g)
        /\ ~ Tests(g) /\ ~ Repeats(g)
    BY DEF Generates, Joins, Branches, Chooses, Tests, Repeats
  <2>2. Owes(g) = {}
    BY <2>1 DEF Owes
  <2> QED
    BY <2>1, <2>2 DEF Account, Minds
<1>6. \A b \in K : b \notin C
  BY DEF Hands
<1> HIDE DEF K, C, L
<1>7. \A i \in 1 .. L - 1 : Owes(t[i]) = Owes(s[i]) /\ i \in 1 .. L /\ i + 1 \in 1 .. L
  BY <1>2
<1>8. Owes(t[L]) = K /\ Owes(t[L + 1]) = {}
  BY <1>2, <1>5 DEF K
<1>9. \A i \in 1 .. Len(t) : i \in 1 .. L - 1 \/ i = L \/ i = L + 1
  BY <1>2
<1>10. ASSUME NEW i \in 1 .. Len(t) PROVE Account(t[i], F2[i], F2[i + 1], n2, FN2, O2)
  <2>1. CASE i \in 1 .. L - 1
    <3>1. t[i] = s[i] /\ F2[i] = F[i] /\ F2[i + 1] = F[i + 1]
      BY <1>2, <1>3, <1>7, <2>1
    <3> QED
      BY <1>4, <2>1, <3>1
  <2>2. CASE i = L
    <3>1. t[i] = f /\ F2[i] = F[L] /\ F2[i + 1] = fu2
      BY <1>2, <1>3, <2>2
    <3> QED
      BY <3>1 DEF L
  <2>3. CASE i = L + 1
    <3>1. t[i] = g /\ F2[i] = fu2 /\ F2[i + 1] = fu2
      BY <1>2, <1>3, <2>3
    <3> QED
      BY <1>5, <3>1
  <2> QED
    BY <1>9, <2>1, <2>2, <2>3
<1>11. ASSUME NEW i \in 1 .. Len(t), NEW j \in 1 .. Len(t),
              NEW b \in Owes(t[i]), b \in Owes(t[j])
       PROVE  i = j
  <2>1. CASE i \in 1 .. L - 1 /\ j \in 1 .. L - 1
    <3>1. b \in Owes(s[i]) /\ b \in Owes(s[j])
      BY <1>7, <1>11, <2>1
    <3> QED
      BY <1>7, <2>1, <3>1 DEF Ledger, L
  <2>2. CASE i \in 1 .. L - 1 /\ j = L
    BY <1>4, <1>7, <1>8, <1>11, <2>2
  <2>3. CASE i = L /\ j \in 1 .. L - 1
    BY <1>4, <1>7, <1>8, <1>11, <2>3
  <2> QED
    BY <1>8, <1>9, <1>11, <2>1, <2>2, <2>3
<1>12. ASSUME NEW i \in 1 .. Len(t), NEW b \in Owes(t[i])
       PROVE  b \notin C
  BY <1>4, <1>6, <1>7, <1>8, <1>9, <1>12
<1>13. ASSUME NEW b \in O2
       PROVE  b \in C \/ \E i \in 1 .. Len(t) : b \in Owes(t[i])
  <2>1. CASE b \in K
    BY <1>2, <1>8, <2>1
  <2>2. CASE b \in C
    BY <2>2
  <2>3. CASE \E i \in 1 .. L - 1 : b \in Owes(s[i])
    <3>1. PICK i \in 1 .. L - 1 : b \in Owes(s[i])
      BY <2>3
    <3>2. i \in 1 .. Len(t) /\ b \in Owes(t[i])
      BY <1>2, <1>7, <3>1
    <3> QED
      BY <3>2
  <2> QED
    BY <1>4, <1>13, <2>1, <2>2, <2>3
<1>14. F2[1].retBlock # 0 /\ F2[Len(t) + 1] = fu2
  <2>1. F2[1] = F[1] /\ Len(t) + 1 = L + 2
    BY <1>2, <1>3
  <2> QED
    BY <1>3, <2>1 DEF Ledger
<1>15. Ledger(t, F2, FN2, n2, O2, a2, fu2)
  BY <1>2, <1>10, <1>11, <1>12, <1>13, <1>14 DEF Ledger, C
<1> QED
  BY <1>15 DEF t

(* The visitor on top returns.                                             *)
LEMMA LedgerPopped ==
    ASSUME NEW s, NEW F, NEW FN, NEW n, NEW O, NEW a, NEW fu,
           Ledger(s, F, FN, n, O, a, fu), s # <<>>,
           NEW n2, NEW FN2, NEW O2, NEW a2,
           Hands(n, FN, O, Owes(s[Len(s)]) \union Cur(a, fu),
                 n2, FN2, O2, {}, Cur(a2, F[Len(s)])),
           AtWork(a2, F[Len(s)], FN2, O2)
    PROVE  Ledger(SubSeq(s, 1, Len(s) - 1), F, FN2, n2, O2, a2, F[Len(s)])
<1> DEFINE L == Len(s)
           t == SubSeq(s, 1, L - 1)
           C == Cur(a2, F[L])
           K == {}
<1>1. IsSeq(s) /\ L \in Nat \ {0} /\ L - 1 \in 0 .. L
  BY EmptySeq, LenProperties DEF Ledger, IsSeq
<1>2. IsSeq(t) /\ Len(t) = L - 1 /\ \A i \in 1 .. L - 1 : t[i] = s[i]
  BY <1>1, PopFacts
<1>3. /\ \A i \in 1 .. L - 1 :
             /\ Account(s[i], F[i], F[i + 1], n2, FN2, O2)
             /\ \A b \in Owes(s[i]) : b \notin K /\ b \notin C
      /\ \A b \in O2 : \/ b \in K \union C
                       \/ \E i \in 1 .. L - 1 : b \in Owes(s[i])
  <2>1. Hands(n, FN, O, Owes(s[L]) \union Cur(a, fu), n2, FN2, O2, K, C)
    OBVIOUS
  <2> HIDE DEF C, K, t, L
  <2>2. Hands(n, FN, O, Owes(s[Len(s)]) \union Cur(a, fu), n2, FN2, O2, K, C)
    BY <2>1 DEF L
  <2>3. \A b \in O2 : \/ b \in K \union C
                      \/ \E i \in 1 .. Len(s) - 1 : b \in Owes(s[i])
    BY <2>2, OthersKeep
  <2>4. \A i \in 1 .. Len(s) - 1 :
            /\ Account(s[i], F[i], F[i + 1], n2, FN2, O2)
            /\ \A b \in Owes(s[i]) : b \notin K /\ b \notin C
    BY <2>2, OthersKeep
  <2> QED
    BY <2>3, <2>4 DEF L
<1> HIDE DEF t, C
<1>4. F[Len(t) + 1] = F[L]
  BY <1>1, <1>2
<1> HIDE DEF L
<1>5. \A i \in 1 .. L - 1 : t[i] = s[i] /\ i \in 1 .. L
  BY <1>1, <1>2
<1>6. \A i, j \in 1 .. L - 1 : \A b \in Owes(s[i]) : b \in Owes(s[j]) => i = j
  BY <1>5 DEF Ledger, L
<1>7. F[1].retBlock # 0 /\ AtWork(a2, F[L], FN2, O2)
  BY DEF Ledger, L
<1>8. Ledger(t, F, FN2, n2, O2, a2, F[L])
  BY <1>2, <1>3, <1>4, <1>5, <1>6, <1>7 DEF Ledger, C
<1> QED
  BY <1>8 DEF t, L

-----------------------------------------------------------------------------
(* The pieces of code that the visitors build.                             *)

(* The function the next blocks will belong to is free to choose.          *)
Belongs(FN, n, f) == [b \in Nat |-> IF b <= n THEN FN[b] ELSE f]

(* The blocks that will be made next are given to a function beforehand.   *)
LEMMA Assigned ==
    ASSUME NEW m, NEW FN, NEW n, NEW O, NEW a, Looks(m, FN, n, O, a), NEW f
    PROVE  /\ n \in Nat /\ O \subseteq 1 .. n
           /\ \A b \in 1 .. n : Belongs(FN, n, f)[b] = FN[b]
           /\ Belongs(FN, n, f)[n + 1] = f
           /\ Belongs(FN, n, f)[n + 2] = f
           /\ Belongs(FN, n, f)[n + 3] = f
           /\ Looks(m, Belongs(FN, n, f), n, O, a)
<1> DEFINE FN2 == Belongs(FN, n, f)
<1>1. n \in Nat
  BY LenProperties DEF Looks, IsSeq
<1>2. /\ \A b \in 1 .. n : FN2[b] = FN[b]
      /\ FN2[n + 1] = f /\ FN2[n + 2] = f /\ FN2[n + 3] = f
  BY <1>1 DEF Belongs
<1> HIDE DEF FN2
<1>3. ASSUME NEW b \in 1 .. n PROVE IsBlock(m.blocks[b], FN2[b], n, FN2)
  <2>1. IsBlock(m.blocks[b], FN[b], n, FN)
    BY DEF Looks
  <2> QED
    BY <1>2, <2>1 DEF IsBlock
<1>4. Looks(m, FN2, n, O, a)
  BY <1>3 DEF Looks
<1> QED
  BY <1>1, <1>2, <1>4 DEF Looks, FN2

(* Two new blocks of one function.                                         *)
LEMMA TwoBlocks ==
    ASSUME NEW m, NEW FN, NEW n, NEW O, NEW a, Looks(m, FN, n, O, a),
           NEW f, FN[n + 1] = f, FN[n + 2] = f
    PROVE  Looks(Gen!NewBlock(Gen!NewBlock(m, f), f), FN, n + 2,
                 O \union {n + 1, n + 2}, a)
<1> DEFINE m1 == Gen!NewBlock(m, f)
           m2 == Gen!NewBlock(m1, f)
<1>1. n \in Nat /\ Looks(m1, FN, n + 1, O \union {n + 1}, a)
  BY BlockAdded
<1> HIDE DEF m1
<1>2. FN[(n + 1) + 1] = f
  BY <1>1
<1>3. Looks(m2, FN, (n + 1) + 1, (O \union {n + 1}) \union {(n + 1) + 1}, a)
  BY <1>1, <1>2, BlockAdded
<1> HIDE DEF m2
<1>4. /\ (n + 1) + 1 = n + 2
      /\ (O \union {n + 1}) \union {n + 2} = O \union {n + 1, n + 2}
  BY <1>1
<1> QED
  BY <1>3, <1>4 DEF m1, m2

(* A check: to block n + 1 if it holds, to a trap if it fails.             *)
LEMMA Checked ==
    ASSUME NEW m, NEW FN, NEW n, NEW O, NEW a, Looks(m, FN, n, O, a), a \in O,
           NEW f, FN[a] = f, FN[n + 1] = f, FN[n + 2] = f,
           NEW v, NEW x \in {n + 1, n + 2}, NEW y \in {n + 1, n + 2}
    PROVE  Looks(Gen!SetInsertPoint(
                     Gen!Trap(Gen!SetInsertPoint(
                         Gen!CondBr(Gen!NewBlock(Gen!NewBlock(m, f), f), v, x, y),
                         n + 2)),
                     n + 1),
                 FN, n + 2, (O \ {a}) \union {n + 1}, n + 1)
<1> DEFINE m1 == Gen!NewBlock(Gen!NewBlock(m, f), f)
           m2 == Gen!CondBr(m1, v, x, y)
           m3 == Gen!SetInsertPoint(m2, n + 2)
           m4 == Gen!Trap(m3)
           m5 == Gen!SetInsertPoint(m4, n + 1)
           O1 == O \union {n + 1, n + 2}
<1>1. Looks(m1, FN, n + 2, O1, a)
  BY TwoBlocks
<1>2. n \in Nat /\ O \subseteq 1 .. n
  BY Assigned
<1>3. a \in O1 /\ x \in 1 .. n + 2 /\ y \in 1 .. n + 2 /\ FN[x] = FN[a] /\ FN[y] = FN[a]
  BY <1>2
<1>4. /\ n + 2 \in O1 \ {a}
      /\ (O1 \ {a}) \ {n + 2} = (O \ {a}) \union {n + 1}
  BY <1>2
<1> HIDE DEF m1, O1
<1>5. Looks(m2, FN, n + 2, O1 \ {a}, a)
  BY <1>1, <1>3, Forked
<1> HIDE DEF m2
<1>6. Looks(m3, FN, n + 2, O1 \ {a}, n + 2)
  BY <1>5, PointSet
<1> HIDE DEF m3
<1>7. Looks(m4, FN, n + 2, (O1 \ {a}) \ {n + 2}, n + 2)
  BY <1>4, <1>6, Trapped
<1> HIDE DEF m4
<1>8. Looks(m5, FN, n + 2, (O1 \ {a}) \ {n + 2}, n + 1)
  BY <1>7, PointSet
<1> HIDE DEF m5
<1>9. Looks(m5, FN, n + 2, (O \ {a}) \union {n + 1}, n + 1)
  BY <1>4, <1>8
<1> QED
  BY <1>9 DEF m1, m2, m3, m4, m5

(* The check of a divisor goes on in the first of two new blocks.          *)
LEMMA DivisionGuarded ==
    ASSUME NEW m, NEW FN, NEW n, NEW O, NEW a, Looks(m, FN, n, O, a), a \in O,
           FN[a] = fun.fn, FN[n + 1] = fun.fn, FN[n + 2] = fun.fn, NEW r
    PROVE  Looks(Gen!GuardDivision(m, r), FN, n + 2, (O \ {a}) \union {n + 1}, n + 1)
<1> DEFINE type == Gen!PrimType("bool")
           args == <<r, Gen!Constant(Gen!Tid(r), 0)>>
           zero == Gen!Build(m, "==", type, args)
           v    == zero.last
<1>1. "==" \notin Gen!Terminators
  BY DEF Gen!Terminators
<1> HIDE DEF type, args
<1>2. Looks(zero, FN, n, O, a)
  BY <1>1, Computed
<1>3. n \in Nat /\ Gen!LastBlock(m) = n /\ (n + 1) + 1 = n + 2
  BY Assigned DEF Looks, Gen!LastBlock
<1>4. n + 1 \in {n + 1, n + 2} /\ n + 2 \in {n + 1, n + 2}
  OBVIOUS
<1>5. Gen!GuardDivision(m, r) =
          Gen!SetInsertPoint(
              Gen!Trap(Gen!SetInsertPoint(
                  Gen!CondBr(Gen!NewBlock(Gen!NewBlock(zero, fun.fn), fun.fn),
                             v, n + 2, n + 1),
                  n + 2)),
              n + 1)
  BY <1>3 DEF Gen!GuardDivision, type, args
<1> HIDE DEF zero, v
<1> QED
  BY <1>2, <1>4, <1>5, Checked

(* The check of an index goes on in the first of two new blocks.           *)
LEMMA ElementLoaded ==
    ASSUME NEW FN, NEW n, NEW O, NEW a, Looks(ir, FN, n, O, a), a \in O,
           FN[a] = fun.fn, FN[n + 1] = fun.fn, FN[n + 2] = fun.fn,
           NEW array, NEW index
    PROVE  Looks(Gen!Indexed(array, index), FN, n + 2, (O \ {a}) \union {n + 1}, n + 1)
<1> DEFINE type  == notes[Gen!N.kids[1]]
           int1  == Gen!PrimType("bool")
           range == <<index, Gen!Constant(Gen!PrimType("int"), type[3])>>
           m1    == Gen!Build(ir, "inrange", int1, range)
           v     == m1.last
           m2    == Gen!SetInsertPoint(
                        Gen!Trap(Gen!SetInsertPoint(
                            Gen!CondBr(Gen!NewBlock(Gen!NewBlock(m1, fun.fn), fun.fn),
                                       v, n + 1, n + 2),
                            n + 2)),
                        n + 1)
           m3    == Gen!Alloca(m2, fun.fn, type)
           slot  == m3.last
           m4    == Gen!Store(m3, array, slot)
           m5    == Gen!Build(m4, "gep", Gen!Ptr, <<slot, index>>)
           elem  == Gen!LLVMType(type[2])
           m6    == Gen!Load(m5, elem, m5.last)
           O2    == (O \ {a}) \union {n + 1}
<1>1. "inrange" \notin Gen!Terminators /\ "gep" \notin Gen!Terminators
  BY DEF Gen!Terminators
<1>2. n \in Nat /\ Gen!LastBlock(ir) = n /\ (n + 1) + 1 = n + 2
  BY Assigned DEF Looks, Gen!LastBlock
<1>3. Gen!Indexed(array, index) = m6
  BY <1>2 DEF Gen!Indexed
<1>4. n + 1 \in {n + 1, n + 2} /\ n + 2 \in {n + 1, n + 2} /\ n + 1 \in O2
  OBVIOUS
<1> HIDE DEF type, range, int1, elem
<1>5. Looks(m1, FN, n, O, a)
  BY <1>1, Computed
<1> HIDE DEF m1, v
<1>6. Looks(m2, FN, n + 2, O2, n + 1)
  BY <1>4, <1>5, Checked
<1> HIDE DEF m2, O2
<1>7. Looks(m3, FN, n + 2, O2, n + 1)
  BY <1>6, Allocated
<1> HIDE DEF m3, slot
<1>8. Looks(m4, FN, n + 2, O2, n + 1)
  BY <1>4, <1>7, Stored
<1> HIDE DEF m4
<1>9. Looks(m5, FN, n + 2, O2, n + 1)
  BY <1>1, <1>4, <1>8, Computed
<1> HIDE DEF m5
<1>10. Looks(m6, FN, n + 2, O2, n + 1)
  BY <1>4, <1>9, Loaded
<1> HIDE DEF m6
<1> QED
  BY <1>3, <1>10 DEF O2

(* The conversion of a value to a condition.                               *)
LEMMA ConditionMade ==
    ASSUME NEW FN, NEW n, NEW O, NEW a, Looks(ir, FN, n, O, a), a \in O, NEW v
    PROVE  Looks(Gen!ToBool(v), FN, n, O, a)
<1>1. "nonnull" \notin Gen!Terminators
  BY DEF Gen!Terminators
<1> DEFINE type == Gen!PrimType("bool")
<1>2. Looks([ir EXCEPT !.last = v], FN, n, O, a)
  BY LastSet
<1>3. Looks(Gen!Build(ir, "nonnull", type, <<v>>), FN, n, O, a)
  <2> HIDE DEF type
  <2> QED
    BY <1>1, Computed
<1> QED
  BY <1>2, <1>3 DEF Gen!ToBool

(* What follows a return.                                                  *)
LEMMA MadeUnreachable ==
    ASSUME NEW m, NEW FN, NEW n, NEW O, NEW a, Looks(m, FN, n, O, a),
           FN[n + 1] = fun.fn
    PROVE  Looks(Gen!Unreachable(m), FN, n + 1, O \union {n + 1}, n + 1)
<1> DEFINE b == Gen!NewBlock(m, fun.fn)
<1>1. Looks(b, FN, n + 1, O \union {n + 1}, a)
  BY BlockAdded
<1>2. Gen!Unreachable(m) = Gen!SetInsertPoint(b, Gen!LastBlock(b))
  BY DEF Gen!Unreachable
<1>3. Gen!LastBlock(b) = n + 1
  BY <1>1 DEF Looks, Gen!LastBlock
<1> HIDE DEF b
<1> QED
  BY <1>1, <1>2, <1>3, PointSet

-----------------------------------------------------------------------------
(* The accounts of a state of the generator.                               *)

Accounts(s, m, fu) ==
    \E F, FN, n, O : /\ Looks(m, FN, n, O, m.at)
                     /\ Ledger(s, F, FN, n, O, m.at, fu)

(* The accounts while a visitor runs, read for the one on top.             *)
LEMMA OnTop ==
    ASSUME NEW F, NEW FN, NEW n, NEW O,
           Looks(ir, FN, n, O, ir.at), Ledger(genStk, F, FN, n, O, ir.at, fun),
           genStk # <<>>
    PROVE  /\ n \in Nat /\ O \subseteq 1 .. n
           /\ Gen!Top = genStk[Len(genStk)]
           /\ Account(Gen!Top, F[Len(genStk)], fun, n, FN, O)
           /\ ~ Generates(Gen!Top) => F[Len(genStk)] = fun
           /\ AtWork(ir.at, fun, FN, O)
           /\ \A b \in Owes(Gen!Top) : b \notin Cur(ir.at, fun)
           /\ Gen!N = Ast[Gen!Top.node]
           /\ Gen!Top.node \in Node /\ Gen!Top.pc \in Nat
<1> DEFINE L == Len(genStk)
<1>1. n \in Nat /\ O \subseteq 1 .. n
  BY Assigned
<1>2. L \in Nat \ {0}
  BY EmptySeq, LenProperties DEF Ledger, IsSeq
<1>3. L \in 1 .. L
  BY <1>2
<1>4. Gen!Top = genStk[L] /\ Gen!N = Ast[Gen!Top.node]
  BY DEF Gen!Top, Gen!Depth, Gen!N
<1>5. Account(genStk[L], F[L], F[L + 1], n, FN, O) /\ F[L + 1] = fun
  BY <1>3 DEF Ledger
<1>6. \A b \in Owes(genStk[L]) : b \notin Cur(ir.at, fun)
  BY <1>3 DEF Ledger
<1> HIDE DEF L
<1>7. Account(Gen!Top, F[L], fun, n, FN, O)
  BY <1>4, <1>5
<1> QED
  BY <1>1, <1>4, <1>6, <1>7 DEF L, Ledger, Account

(* Visitor f waits for its child k, the node c, with m built so far.       *)
Enters(c, k, locals, env, m, f) ==
    /\ c \in Node /\ k \in Nat
    /\ Gen!Accept(c, k, locals, env, m)
    /\ f = Gen!Frame(Gen!Top.node, k, locals, Gen!Top.saved)

(* The visitor on top has a child visited; the function stays the same.    *)
LEMMA Visits ==
    ASSUME NEW F, NEW FN, NEW n, NEW O,
           Looks(ir, FN, n, O, ir.at), Ledger(genStk, F, FN, n, O, ir.at, fun),
           genStk # <<>>, ~ Generates(Gen!Top), fun' = fun,
           NEW c, NEW k, NEW locals, NEW env, NEW m, NEW f,
           Enters(c, k, locals, env, m, f), ~ Generates(f),
           NEW FN2, NEW n2, NEW O2, NEW a2, Looks(m, FN2, n2, O2, a2),
           Minds(f, fun, n2, FN2),
           Hands(n, FN, O, Owes(Gen!Top) \union Cur(ir.at, fun),
                 n2, FN2, O2, Owes(f), Cur(a2, fun)),
           AtWork(a2, fun, FN2, O2),
           \A b \in Owes(f) : FN2[b] = fun.fn
    PROVE  Accounts(genStk', ir', fun')
<1> DEFINE g == Gen!Entry(c, env)
           L == Len(genStk)
<1>1. /\ Gen!Top = genStk[L] /\ F[L] = fun
      /\ Gen!Top.node \in Node
  BY OnTop
<1>2. genStk' = PushOver(genStk, f, g) /\ ir' = m /\ ir'.at = a2
  BY DEF Enters, Gen!Accept, Gen!Built, Gen!Depth, PushOver, Looks
<1>3. g.node \in Node /\ g.pc = 0
  BY DEF Enters, Gen!Entry, Gen!Frame
<1>4. f.node = Gen!Top.node /\ f.pc = k /\ f.own = locals /\ k \in Nat
  BY DEF Enters, Gen!Frame
<1>5. \A b \in Owes(f) : b \in O2
  BY DEF Hands
<1>6. Account(f, F[L], fun, n2, FN2, O2)
  BY <1>1, <1>4, <1>5 DEF Account
<1>7. Hands(n, FN, O, Owes(genStk[L]) \union Cur(ir.at, fun),
            n2, FN2, O2, Owes(f), Cur(a2, fun))
  BY <1>1
<1> HIDE DEF g
<1>8. \E F2 : Ledger(PushOver(genStk, f, g), F2, FN2, n2, O2, a2, fun)
  <2>1. /\ Ledger(genStk, F, FN, n, O, ir.at, fun) /\ genStk # <<>>
        /\ Account(f, F[Len(genStk)], fun, n2, FN2, O2)
        /\ Hands(n, FN, O, Owes(genStk[Len(genStk)]) \union Cur(ir.at, fun),
                 n2, FN2, O2, Owes(f), Cur(a2, fun))
        /\ AtWork(a2, fun, FN2, O2)
        /\ g.node \in Node /\ g.pc = 0
    BY <1>3, <1>6, <1>7
  <2> QED
    BY <2>1, LedgerPushed
<1> QED
  BY <1>2, <1>8 DEF Accounts

(* The visitor on top returns; the function stays the same.                *)
LEMMA Leaves ==
    ASSUME NEW F, NEW FN, NEW n, NEW O,
           Looks(ir, FN, n, O, ir.at), Ledger(genStk, F, FN, n, O, ir.at, fun),
           genStk # <<>>, NEW fu, F[Len(genStk)] = fu, fun' = fu,
           NEW m, NEW v, Gen!Finish(m, v),
           NEW FN2, NEW n2, NEW O2, NEW a2, Looks(m, FN2, n2, O2, a2),
           Hands(n, FN, O, Owes(Gen!Top) \union Cur(ir.at, fun),
                 n2, FN2, O2, {}, Cur(a2, fu)),
           AtWork(a2, fu, FN2, O2)
    PROVE  Accounts(genStk', ir', fun')
<1> DEFINE L == Len(genStk)
<1>1. Gen!Top = genStk[L]
  BY OnTop
<1>2. genStk' = SubSeq(genStk, 1, L - 1) /\ ir' = m /\ ir'.at = a2
  BY DEF Gen!Finish, Gen!Built, Gen!Depth, Looks
<1>3. Ledger(SubSeq(genStk, 1, L - 1), F, FN2, n2, O2, a2, F[L])
  <2>1. /\ Ledger(genStk, F, FN, n, O, ir.at, fun) /\ genStk # <<>>
        /\ Hands(n, FN, O, Owes(genStk[Len(genStk)]) \union Cur(ir.at, fun),
                 n2, FN2, O2, {}, Cur(a2, F[Len(genStk)]))
        /\ AtWork(a2, F[Len(genStk)], FN2, O2)
    BY <1>1
  <2> QED
    BY <2>1, LedgerPopped
<1>4. fun' = F[L]
  OBVIOUS
<1> QED
  BY <1>2, <1>3, <1>4 DEF Accounts

(* Between visits most visitors owe nothing: the generator goes on in its  *)
(* block, or, after a check or a return, in a new one.                     *)
Idle(f) == ~ (\/ Generates(f) \/ Joins(f) \/ Branches(f)
              \/ Chooses(f) \/ Tests(f) \/ Repeats(f))

GoesOn(FN, n, O, a, m, FN2, n2, O2, a2) ==
    /\ Looks(m, FN2, n2, O2, a2)
    /\ n <= n2 /\ \A b \in 1 .. n : FN2[b] = FN[b]
    /\ a2 = a \/ a2 \in n + 1 .. n2
    /\ FN2[a2] = fun.fn
    /\ O2 = (O \ {a}) \union {a2}

(* Nothing changes hands, but for the block the generator is in.           *)
LEMMA IdleHands ==
    ASSUME NEW F, NEW FN, NEW n, NEW O,
           Looks(ir, FN, n, O, ir.at), Ledger(genStk, F, FN, n, O, ir.at, fun),
           genStk # <<>>, Idle(Gen!Top),
           NEW m, NEW FN2, NEW n2, NEW O2, NEW a2,
           GoesOn(FN, n, O, ir.at, m, FN2, n2, O2, a2)
    PROVE  /\ Owes(Gen!Top) = {} /\ ~ Generates(Gen!Top)
           /\ Hands(n, FN, O, Owes(Gen!Top) \union Cur(ir.at, fun),
                    n2, FN2, O2, {}, Cur(a2, fun))
           /\ AtWork(a2, fun, FN2, O2)
<1>1. Owes(Gen!Top) = {} /\ ~ Generates(Gen!Top)
  BY DEF Idle, Owes
<1>2. n \in Nat /\ O \subseteq 1 .. n /\ AtWork(ir.at, fun, FN, O)
  BY OnTop
<1>3. n2 \in Nat
  BY Assigned DEF GoesOn
<1>4. \A b \in Ret(fun) : b \in O /\ b # ir.at /\ b \in 1 .. n /\ FN[b] = fun.fn
  BY <1>2 DEF AtWork, Cur
<1>5. ir.at \in O /\ ir.at \in 1 .. n
  BY <1>2 DEF AtWork, Cur
<1>6. a2 \notin Ret(fun)
  BY <1>2, <1>3, <1>4, <1>5 DEF GoesOn
<1>7. \A b \in Cur(a2, fun) : b \in O2 /\ FN2[b] = fun.fn
  BY <1>2, <1>4 DEF Cur, GoesOn
<1>8. \A b \in Cur(a2, fun) : b \in Cur(ir.at, fun) \/ b \in n + 1 .. n2
  BY DEF Cur, GoesOn
<1>9. O2 = (O \ Cur(ir.at, fun)) \union Cur(a2, fun)
  <2>1. O2 = (O \ {ir.at}) \union {a2}
    BY DEF GoesOn
  <2>2. \A b \in O : b \in Ret(fun) \/ b \notin Ret(fun)
    OBVIOUS
  <2>3. ASSUME NEW b PROVE b \in O2 <=> b \in (O \ Cur(ir.at, fun)) \union Cur(a2, fun)
    BY <2>1, <1>4 DEF Cur
  <2> QED
    BY <2>3
<1>10. \A b \in 1 .. n : FN2[b] = FN[b]
  BY DEF GoesOn
<1>11. n <= n2
  BY DEF GoesOn
<1>12. Hands(n, FN, O, Cur(ir.at, fun), n2, FN2, O2, {}, Cur(a2, fun))
  BY <1>2, <1>3, <1>8, <1>9, <1>10, <1>11 DEF Hands
<1> QED
  BY <1>1, <1>6, <1>7, <1>12 DEF AtWork

(* An idle visitor visits a child, in the block it has come to.            *)
LEMMA IdleVisits ==
    ASSUME NEW F, NEW FN, NEW n, NEW O,
           Looks(ir, FN, n, O, ir.at), Ledger(genStk, F, FN, n, O, ir.at, fun),
           genStk # <<>>, Idle(Gen!Top), fun' = fun,
           NEW c \in Node, NEW k \in Nat, NEW locals, NEW env, NEW m,
           Gen!Accept(c, k, locals, env, m),
           Idle(Gen!Frame(Gen!Top.node, k, locals, Gen!Top.saved)),
           NEW FN2, NEW n2, NEW O2, NEW a2,
           GoesOn(FN, n, O, ir.at, m, FN2, n2, O2, a2)
    PROVE  Accounts(genStk', ir', fun')
<1> DEFINE f == Gen!Frame(Gen!Top.node, k, locals, Gen!Top.saved)
<1>1. /\ Owes(Gen!Top) = {} /\ ~ Generates(Gen!Top)
      /\ Hands(n, FN, O, Owes(Gen!Top) \union Cur(ir.at, fun),
               n2, FN2, O2, {}, Cur(a2, fun))
      /\ AtWork(a2, fun, FN2, O2)
  BY IdleHands
<1> HIDE DEF f
<1>2. Idle(f)
  BY DEF f
<1>3. Owes(f) = {} /\ ~ Generates(f) /\ Minds(f, fun, n2, FN2)
  BY <1>2 DEF Idle, Owes, Minds
<1>4. Looks(m, FN2, n2, O2, a2)
  BY DEF GoesOn
<1>5. Hands(n, FN, O, Owes(Gen!Top) \union Cur(ir.at, fun),
            n2, FN2, O2, Owes(f), Cur(a2, fun))
  BY <1>1, <1>3
<1>6. Enters(c, k, locals, env, m, f)
  BY DEF Enters, f
<1>7. \A b \in Owes(f) : FN2[b] = fun.fn
  BY <1>3
<1> QED
  BY <1>1, <1>3, <1>4, <1>5, <1>6, <1>7, Visits

(* An idle visitor returns, in the block it has come to.                   *)
LEMMA IdleLeaves ==
    ASSUME NEW F, NEW FN, NEW n, NEW O,
           Looks(ir, FN, n, O, ir.at), Ledger(genStk, F, FN, n, O, ir.at, fun),
           genStk # <<>>, Idle(Gen!Top), fun' = fun,
           NEW m, NEW v, Gen!Finish(m, v),
           NEW FN2, NEW n2, NEW O2, NEW a2,
           GoesOn(FN, n, O, ir.at, m, FN2, n2, O2, a2)
    PROVE  Accounts(genStk', ir', fun')
<1>1. /\ Owes(Gen!Top) = {} /\ ~ Generates(Gen!Top)
      /\ Hands(n, FN, O, Owes(Gen!Top) \union Cur(ir.at, fun),
               n2, FN2, O2, {}, Cur(a2, fun))
      /\ AtWork(a2, fun, FN2, O2)
  BY IdleHands
<1>2. F[Len(genStk)] = fun
  BY <1>1, OnTop
<1>3. Looks(m, FN2, n2, O2, a2)
  BY DEF GoesOn
<1> QED
  BY <1>1, <1>2, <1>3, Leaves

(* The same block goes on.                                                 *)
LEMMA SameBlock ==
    ASSUME NEW F, NEW FN, NEW n, NEW O,
           Looks(ir, FN, n, O, ir.at), Ledger(genStk, F, FN, n, O, ir.at, fun),
           genStk # <<>>,
           NEW m, Looks(m, FN, n, O, ir.at)
    PROVE  GoesOn(FN, n, O, ir.at, m, FN, n, O, ir.at)
<1>1. n \in Nat /\ AtWork(ir.at, fun, FN, O)
  BY OnTop
<1>2. ir.at \in O /\ FN[ir.at] = fun.fn
  BY <1>1 DEF AtWork, Cur
<1> QED
  BY <1>1, <1>2 DEF GoesOn

-----------------------------------------------------------------------------
(* The visitors.  After a step the accounts are in order, unless the       *)
(* visitor has thrown and left the module as it is.                        *)

After == \/ genVerdict' = "error" /\ ir' = ir
         \/ genVerdict' \in {"run", "undefined"} /\ Accounts(genStk', ir', fun')

(* A visitor whose kind of node never owes anything.                       *)
Plain(n) == /\ Ast[n].kind \notin {"If", "While"}
            /\ ~ HoldsFunction(n) /\ ~ Connects(n)

(* Visitors that open no blocks of their own, and all that have not begun, *)
(* are idle.                                                               *)
LEMMA PlainIdle ==
    ASSUME NEW f, Plain(f.node) \/ f.pc = 0
    PROVE  Idle(f)
BY DEF Idle, Plain, Generates, Joins, Branches, Chooses, Tests, Repeats

(* Children are nodes.                                                     *)
LEMMA ChildNode ==
    ASSUME NEW n \in Node, NEW k \in 1 .. Len(Ast[n].kids)
    PROVE  Ast[n].kids[k] \in Node
<1>1. Ast[n].kids \in Seq(Node)
  BY SyntaxAssumption
<1> QED
  BY <1>1, ElementOfSeq

(* An exception ends the generator.                                        *)
LEMMA Throws ==
    ASSUME Gen!Throw PROVE After
BY DEF Gen!Throw, After

(* An idle visitor visits child k, having built m, and owes nothing.        *)
LEMMA IdleGo ==
    ASSUME NEW F, NEW FN, NEW n, NEW O,
           Looks(ir, FN, n, O, ir.at), Ledger(genStk, F, FN, n, O, ir.at, fun),
           genStk # <<>>, Idle(Gen!Top), fun' = fun,
           NEW m, Looks(m, FN, n, O, ir.at),
           NEW k \in 1 .. Gen!Arity, NEW locals, Gen!Go(k, locals, m),
           Idle(Gen!Frame(Gen!Top.node, k, locals, Gen!Top.saved))
    PROVE  After
<1> DEFINE c == Gen!N.kids[k]
<1>1. Gen!Top.node \in Node /\ Gen!N = Ast[Gen!Top.node]
  BY OnTop
<1>2. k \in 1 .. Len(Ast[Gen!Top.node].kids)
  BY <1>1 DEF Gen!Arity
<1>3. c \in Node
  BY <1>1, <1>2, ChildNode
<1>4. Len(Ast[Gen!Top.node].kids) \in Nat
  BY <1>1, SyntaxAssumption, LenProperties
<1>5. k \in Nat
  BY <1>2, <1>4
<1>6. GoesOn(FN, n, O, ir.at, m, FN, n, O, ir.at)
  BY SameBlock
<1>7. Gen!Accept(c, k, locals, genScope, m)
  BY DEF Gen!Go
<1> HIDE DEF c
<1>8. Accounts(genStk', ir', fun')
  BY <1>3, <1>5, <1>6, <1>7, IdleVisits
<1>9. genVerdict' \in {"run", "undefined"}
  BY <1>7 DEF Gen!Accept, Gen!Built
<1> QED
  BY <1>8, <1>9 DEF After

(* A visitor that opens no blocks visits child k, having built m.          *)
LEMMA PlainGo ==
    ASSUME NEW F, NEW FN, NEW n, NEW O,
           Looks(ir, FN, n, O, ir.at), Ledger(genStk, F, FN, n, O, ir.at, fun),
           genStk # <<>>, Plain(Gen!Top.node), fun' = fun,
           NEW m, Looks(m, FN, n, O, ir.at),
           NEW k \in 1 .. Gen!Arity, NEW locals, Gen!Go(k, locals, m)
    PROVE  After
<1>1. Gen!Frame(Gen!Top.node, k, locals, Gen!Top.saved).node = Gen!Top.node
  BY DEF Gen!Frame
<1>2. /\ Idle(Gen!Frame(Gen!Top.node, k, locals, Gen!Top.saved))
      /\ Idle(Gen!Top)
  BY <1>1, PlainIdle
<1> QED
  BY <1>2, IdleGo

(* A visitor that owes nothing returns, having built m.                    *)
LEMMA PlainFinish ==
    ASSUME NEW F, NEW FN, NEW n, NEW O,
           Looks(ir, FN, n, O, ir.at), Ledger(genStk, F, FN, n, O, ir.at, fun),
           genStk # <<>>, Idle(Gen!Top), fun' = fun,
           NEW m, NEW FN2, NEW n2, NEW O2, NEW a2,
           GoesOn(FN, n, O, ir.at, m, FN2, n2, O2, a2),
           NEW v, Gen!Finish(m, v)
    PROVE  After
<1>1. Accounts(genStk', ir', fun')
  BY IdleLeaves
<1>2. genVerdict' \in {"run", "undefined"}
  BY DEF Gen!Finish, Gen!Built
<1> QED
  BY <1>1, <1>2 DEF After

(* An idle visitor returns from the block it began in.                     *)
LEMMA PlainReturns ==
    ASSUME NEW F, NEW FN, NEW n, NEW O,
           Looks(ir, FN, n, O, ir.at), Ledger(genStk, F, FN, n, O, ir.at, fun),
           genStk # <<>>, Idle(Gen!Top), fun' = fun,
           NEW m, Looks(m, FN, n, O, ir.at),
           NEW v, Gen!Finish(m, v)
    PROVE  After
<1>1. GoesOn(FN, n, O, ir.at, m, FN, n, O, ir.at)
  BY SameBlock
<1> QED
  BY <1>1, PlainFinish

(* visit of the literals.                                                  *)
LEMMA StepLiteral ==
    ASSUME Accounts(genStk, ir, fun), Gen!VisitLiteral
    PROVE  After
<1>1. PICK F, FN, n, O : Looks(ir, FN, n, O, ir.at) /\ Ledger(genStk, F, FN, n, O, ir.at, fun)
  BY DEF Accounts
<1>2. genStk # <<>> /\ Gen!N.kind = "Lit" /\ fun' = fun
  BY DEF Gen!VisitLiteral, Gen!Visiting, Gen!Context
<1>3. Plain(Gen!Top.node)
  <2>1. Gen!N = Ast[Gen!Top.node]
    BY <1>1, <1>2, OnTop
  <2> QED
    BY <1>2, <2>1 DEF Plain, HoldsFunction, Connects
<1>4. Gen!Throw \/ Gen!Finish(ir, Gen!LiteralValue)
  BY DEF Gen!VisitLiteral
<1>5. Idle(Gen!Top)
  BY <1>3, PlainIdle
<1> QED
  BY <1>1, <1>2, <1>4, <1>5, PlainReturns, Throws

(* visit(IdentExpr).                                                       *)
LEMMA StepIdent ==
    ASSUME Accounts(genStk, ir, fun), Gen!VisitIdent
    PROVE  After
<1>1. PICK F, FN, n, O : Looks(ir, FN, n, O, ir.at) /\ Ledger(genStk, F, FN, n, O, ir.at, fun)
  BY DEF Accounts
<1>2. genStk # <<>> /\ Gen!N.kind = "Ident" /\ fun' = fun
  BY DEF Gen!VisitIdent, Gen!Visiting, Gen!Context
<1>3. Plain(Gen!Top.node) /\ ir.at \in O
  <2>1. Gen!N = Ast[Gen!Top.node] /\ AtWork(ir.at, fun, FN, O)
    BY <1>1, <1>2, OnTop
  <2> QED
    BY <1>2, <2>1 DEF Plain, HoldsFunction, Connects, AtWork, Cur
<1>4. Gen!Throw \/ \E type, slot : Gen!Finish(Gen!Load(ir, type, slot),
                                            Gen!Load(ir, type, slot).last)
  BY DEF Gen!VisitIdent, Gen!FinishWith
<1>5. Idle(Gen!Top)
  BY <1>3, PlainIdle
<1>6. ASSUME NEW type, NEW slot, Gen!Finish(Gen!Load(ir, type, slot),
                                           Gen!Load(ir, type, slot).last)
      PROVE  After
  <2>1. Looks(Gen!Load(ir, type, slot), FN, n, O, ir.at)
    BY <1>1, <1>3, Loaded
  <2> QED
    BY <1>1, <1>2, <1>5, <1>6, <2>1, PlainReturns
<1> QED
  BY <1>4, <1>6, Throws

(* visit(UnaryExpr).                                                       *)
LEMMA StepUnary ==
    ASSUME Accounts(genStk, ir, fun), Gen!VisitUnary
    PROVE  After
<1>1. PICK F, FN, n, O : Looks(ir, FN, n, O, ir.at) /\ Ledger(genStk, F, FN, n, O, ir.at, fun)
  BY DEF Accounts
<1>2. genStk # <<>> /\ Gen!N.kind = "Unary" /\ fun' = fun
  BY DEF Gen!VisitUnary, Gen!Visiting, Gen!Context
<1>3. Plain(Gen!Top.node) /\ ir.at \in O /\ 1 \in 1 .. Gen!Arity
  <2>1. Gen!N = Ast[Gen!Top.node] /\ AtWork(ir.at, fun, FN, O) /\ Gen!Top.node \in Node
    BY <1>1, <1>2, OnTop
  <2>2. Gen!Arity = 1
    BY <1>2, <2>1, SyntaxAssumption DEF Arities, Gen!Arity
  <2> QED
    BY <1>2, <2>1, <2>2 DEF Plain, HoldsFunction, Connects, AtWork, Cur
<1>4. Idle(Gen!Top)
  BY <1>3, PlainIdle
<1> DEFINE op == IF Gen!N.op = "-" THEN "neg" ELSE "not"
           m  == Gen!Build(ir, op, Gen!Tid(val), <<val>>)
<1>5. Gen!Go(1, <<>>, ir) \/ Gen!Finish(m, m.last)
  BY DEF Gen!VisitUnary, Gen!FinishWith
<1>6. op \notin Gen!Terminators
  BY DEF Gen!Terminators
<1> HIDE DEF op
<1>7. Looks(m, FN, n, O, ir.at)
  BY <1>1, <1>3, <1>6, Computed
<1> HIDE DEF m
<1>8. CASE Gen!Go(1, <<>>, ir)
  BY <1>1, <1>2, <1>3, <1>8, PlainGo
<1>9. CASE Gen!Finish(m, m.last)
  BY <1>1, <1>2, <1>4, <1>7, <1>9, PlainReturns
<1> QED
  BY <1>5, <1>8, <1>9

(* The conversion of an operand to double.                                 *)
LEMMA PromotedLooks ==
    ASSUME NEW m, NEW FN, NEW n, NEW O, NEW a, Looks(m, FN, n, O, a), a \in O,
           NEW v, NEW fp
    PROVE  Looks(Gen!Promoted(m, v, fp), FN, n, O, a)
<1>1. "tofloat" \notin Gen!Terminators
  BY DEF Gen!Terminators
<1>2. Looks([m EXCEPT !.last = v], FN, n, O, a)
  BY LastSet
<1> DEFINE type == Gen!PrimType("float")
<1>3. Looks(Gen!Build(m, "tofloat", type, <<v>>), FN, n, O, a)
  <2> HIDE DEF type
  <2> QED
    BY <1>1, Computed
<1> QED
  BY <1>2, <1>3 DEF Gen!Promoted

(* An operator on two values: some open new blocks to check an operand.    *)
LEMMA OperatorApplied ==
    ASSUME NEW FN, NEW n, NEW O, Looks(ir, FN, n, O, ir.at), AtWork(ir.at, fun, FN, O),
           Gen!N.op \in BinaryOps, NEW l, NEW r
    PROVE  \E FN2, n2, O2, a2 :
               GoesOn(FN, n, O, ir.at, Gen!ApplyBinOp(l, r), FN2, n2, O2, a2)
<1> DEFINE a    == ir.at
           G    == Belongs(FN, n, fun.fn)
           fp   == Gen!PrimType("float") \in {Gen!Tid(l), Gen!Tid(r)}
           left == Gen!Promoted(ir, l, fp)
           both == Gen!Promoted(left, r, fp)
           div  == Gen!GuardDivision(both, r)
           args == <<left.last, both.last>>
           type == Gen!ResultType(Gen!N.op, fp)
           mine == IF Gen!N.op \in {"/", "%"} /\ ~ fp THEN div ELSE both
           m    == Gen!Build(mine, Gen!N.op, type, args)
           On(FN2, n2, O2, a2) == GoesOn(FN, n, O, a, m, FN2, n2, O2, a2)
<1>1. /\ n \in Nat /\ O \subseteq 1 .. n
      /\ \A b \in 1 .. n : G[b] = FN[b]
      /\ G[n + 1] = fun.fn /\ G[n + 2] = fun.fn
      /\ Looks(ir, G, n, O, a)
  BY Assigned
<1>2. a \in O /\ a \in 1 .. n /\ FN[a] = fun.fn /\ G[a] = fun.fn
  BY <1>1 DEF AtWork, Cur
<1>3. Gen!N.op \notin Gen!Terminators
  BY DEF BinaryOps, ArithmeticOps, Gen!Terminators
<1>4. Gen!ApplyBinOp(l, r) = m
  BY DEF Gen!ApplyBinOp
<1> HIDE DEF fp, args, type, G
<1>5. Looks(left, G, n, O, a)
  BY <1>1, <1>2, PromotedLooks
<1> HIDE DEF left
<1>6. Looks(both, G, n, O, a)
  BY <1>2, <1>5, PromotedLooks
<1> HIDE DEF both
<1>7. Looks(div, G, n + 2, (O \ {a}) \union {n + 1}, n + 1)
  BY <1>1, <1>2, <1>6, DivisionGuarded
<1> HIDE DEF div
<1> SUFFICES \E FN2, n2, O2, a2 : On(FN2, n2, O2, a2)
  BY <1>4
<1>8. CASE mine = both
  <2>1. Looks(mine, G, n, O, a)
    BY <1>6, <1>8
  <2> HIDE DEF mine
  <2>2. Looks(m, G, n, O, a)
    BY <1>2, <1>3, <2>1, Computed
  <2>3. O = (O \ {a}) \union {a}
    BY <1>2
  <2>4. On(G, n, O, a)
    BY <1>1, <1>2, <2>2, <2>3 DEF GoesOn
  <2> QED
    BY <2>4
<1>9. CASE mine = div
  <2>1. Looks(mine, G, n + 2, (O \ {a}) \union {n + 1}, n + 1)
    BY <1>7, <1>9
  <2> HIDE DEF mine
  <2>2. n + 1 \in (O \ {a}) \union {n + 1}
    OBVIOUS
  <2>3. Looks(m, G, n + 2, (O \ {a}) \union {n + 1}, n + 1)
    BY <1>3, <2>1, <2>2, Computed
  <2>4. n <= n + 2 /\ n + 1 \in n + 1 .. n + 2
    BY <1>1
  <2>5. On(G, n + 2, (O \ {a}) \union {n + 1}, n + 1)
    BY <1>1, <2>3, <2>4 DEF GoesOn
  <2> QED
    BY <2>5
<1> QED
  BY <1>8, <1>9

(* The generator goes from the open blocks H on to block b, K are left for *)
(* later, and the others of H are done with.                               *)
Turn(n, FN, O, H, n2, FN2, O2, K, b) ==
    /\ n <= n2 /\ \A c \in 1 .. n : FN2[c] = FN[c]
    /\ O2 = (O \ H) \union K \union {b}
    /\ b \notin K
    /\ \A c \in K \union {b} : FN2[c] = fun.fn /\ (c \in H \/ c \in n + 1 .. n2)

(* A visitor that has child k visited in block b and owes others then.     *)
LEMMA Turns ==
    ASSUME NEW F, NEW FN, NEW n, NEW O,
           Looks(ir, FN, n, O, ir.at), Ledger(genStk, F, FN, n, O, ir.at, fun),
           genStk # <<>>, ~ Generates(Gen!Top), fun' = fun,
           NEW k \in 1 .. Gen!Arity, NEW locals, NEW m, Gen!Go(k, locals, m),
           NEW f, f = Gen!Frame(Gen!Top.node, k, locals, Gen!Top.saved),
           ~ Generates(f),
           NEW FN2, NEW n2, n2 \in Nat, NEW O2, NEW b, Looks(m, FN2, n2, O2, b),
           Minds(f, fun, n2, FN2),
           Turn(n, FN, O, Owes(Gen!Top) \union {ir.at}, n2, FN2, O2, Owes(f), b)
    PROVE  After
<1> DEFINE H == Owes(Gen!Top) \union Cur(ir.at, fun)
           d == Gen!N.kids[k]
<1>1. /\ n \in Nat /\ O \subseteq 1 .. n
      /\ Account(Gen!Top, F[Len(genStk)], fun, n, FN, O)
      /\ F[Len(genStk)] = fun
      /\ AtWork(ir.at, fun, FN, O)
      /\ \A c \in Owes(Gen!Top) : c \notin Cur(ir.at, fun)
      /\ Gen!Top.node \in Node /\ Gen!N = Ast[Gen!Top.node]
  BY OnTop
<1>2. \A c \in Owes(Gen!Top) : c \in O /\ c # ir.at /\ c \notin Ret(fun)
  BY <1>1 DEF Account, Cur
<1>3. \A c \in Ret(fun) : c \in O /\ c \in 1 .. n /\ FN2[c] = fun.fn /\ c # ir.at
  BY <1>1 DEF AtWork, Cur, Turn
<1>4. \A c \in Owes(f) \union {b} : c \notin Ret(fun)
  <2> TAKE c \in Owes(f) \union {b}
  <2>1. c \in Owes(Gen!Top) \/ c = ir.at \/ c \in n + 1 .. n2
    BY DEF Turn
  <2>2. c \in n + 1 .. n2 => c \notin 1 .. n
    BY <1>1
  <2> QED
    BY <1>2, <1>3, <2>1, <2>2
<1>5. AtWork(b, fun, FN2, O2)
  BY <1>2, <1>3, <1>4 DEF AtWork, Cur, Turn
<1>6. Hands(n, FN, O, H, n2, FN2, O2, Owes(f), Cur(b, fun))
  <2>1. O2 = (O \ H) \union Owes(f) \union Cur(b, fun)
    <3>1. ASSUME NEW c PROVE c \in O2 <=> c \in (O \ H) \union Owes(f) \union Cur(b, fun)
      BY <1>2, <1>3 DEF Cur, Turn
    <3> QED
      BY <3>1
  <2>2. \A c \in Owes(f) \union Cur(b, fun) : c \in H \/ c \in n + 1 .. n2
    BY DEF Cur, Turn
  <2>3. \A c \in Owes(f) : c \notin Cur(b, fun)
    BY <1>4 DEF Cur, Turn
  <2> HIDE DEF H
  <2> QED
    BY <1>1, <2>1, <2>2, <2>3 DEF Hands, Turn
<1>7. d \in Node /\ k \in Nat
  <2>1. k \in 1 .. Len(Ast[Gen!Top.node].kids)
    BY <1>1 DEF Gen!Arity
  <2>2. Len(Ast[Gen!Top.node].kids) \in Nat
    BY <1>1, SyntaxAssumption, LenProperties
  <2> QED
    BY <1>1, <2>1, <2>2, ChildNode
<1>8. Gen!Accept(d, k, locals, genScope, m)
  BY DEF Gen!Go
<1> HIDE DEF d
<1>9. \A c \in Owes(f) : FN2[c] = fun.fn
  BY DEF Turn
<1>10. Accounts(genStk', ir', fun')
  <2>1. /\ ~ Generates(Gen!Top) /\ fun' = fun
        /\ Enters(d, k, locals, genScope, m, f)
        /\ ~ Generates(f) /\ Minds(f, fun, n2, FN2)
        /\ Looks(m, FN2, n2, O2, b)
        /\ Hands(n, FN, O, Owes(Gen!Top) \union Cur(ir.at, fun),
                 n2, FN2, O2, Owes(f), Cur(b, fun))
        /\ AtWork(b, fun, FN2, O2)
        /\ \A c \in Owes(f) : FN2[c] = fun.fn
    BY <1>5, <1>6, <1>7, <1>8, <1>9 DEF Enters
  <2>2. /\ Looks(ir, FN, n, O, ir.at) /\ Ledger(genStk, F, FN, n, O, ir.at, fun)
        /\ genStk # <<>>
    OBVIOUS
  <2> HIDE DEF H
  <2> QED
    BY <2>1, <2>2, Visits
<1>11. genVerdict' \in {"run", "undefined"}
  BY <1>8 DEF Gen!Accept, Gen!Built
<1> QED
  BY <1>10, <1>11 DEF After

(* The right operand of and and or: a block for it, and one to merge in.   *)
LEMMA StepRight ==
    ASSUME NEW F, NEW FN, NEW n, NEW O,
           Looks(ir, FN, n, O, ir.at), Ledger(genStk, F, FN, n, O, ir.at, fun),
           genStk # <<>>, Connects(Gen!Top.node), Gen!Top.pc = 1, fun' = fun,
           2 \in 1 .. Gen!Arity, Gen!EvaluateRight
    PROVE  After
<1> DEFINE a      == ir.at
           G      == Belongs(FN, n, fun.fn)
           locals == [left |-> ir.at, merge |-> n + 2]
           f      == Gen!Frame(Gen!Top.node, 2, locals, Gen!Top.saved)
           x      == IF Gen!N.op = "and" THEN n + 1 ELSE n + 2
           y      == IF Gen!N.op = "and" THEN n + 2 ELSE n + 1
           m1     == Gen!NewBlock(Gen!NewBlock(ir, fun.fn), fun.fn)
           m2     == Gen!CondBr(m1, val, x, y)
           m3     == Gen!SetInsertPoint(m2, n + 1)
           O1     == O \union {n + 1, n + 2}
           O2     == O1 \ {a}
<1>1. /\ n \in Nat /\ O \subseteq 1 .. n
      /\ \A b \in 1 .. n : G[b] = FN[b]
      /\ G[n + 1] = fun.fn /\ G[n + 2] = fun.fn
      /\ Looks(ir, G, n, O, a)
  BY Assigned
<1>2. /\ AtWork(a, fun, FN, O)
      /\ Gen!Top.node \in Node /\ Gen!N = Ast[Gen!Top.node]
  BY OnTop
<1>3. /\ a \in O /\ a \in 1 .. n /\ G[a] = fun.fn
      /\ \A b \in Ret(fun) : b \in O /\ b # a /\ b \in 1 .. n /\ G[b] = fun.fn
  BY <1>1, <1>2 DEF AtWork, Cur
<1>4. Gen!LastBlock(ir) = n /\ (n + 1) + 1 = n + 2
  BY <1>1 DEF Looks, Gen!LastBlock
<1>5. Gen!Go(2, locals, m3)
  BY <1>4 DEF Gen!EvaluateRight
<1> HIDE DEF G
<1>6. Looks(m1, G, n + 2, O1, a)
  BY <1>1, TwoBlocks
<1>7. a \in O1 /\ x \in 1 .. n + 2 /\ y \in 1 .. n + 2 /\ G[x] = G[a] /\ G[y] = G[a]
  BY <1>1, <1>3
<1> HIDE DEF m1, O1, x, y
<1>8. Looks(m2, G, n + 2, O1 \ {a}, a)
  BY <1>6, <1>7, Forked
<1> HIDE DEF m2
<1>9. Looks(m3, G, n + 2, O2, n + 1)
  BY <1>8, PointSet
<1> HIDE DEF m3
<1>10. /\ Owes(Gen!Top) = {} /\ ~ Generates(Gen!Top)
  BY DEF Connects, Owes, Generates, HoldsFunction, Joins, Branches, Chooses, Tests, Repeats
<1>11. f.node = Gen!Top.node /\ f.pc = 2 /\ f.own = locals /\ locals.merge = n + 2
  BY DEF Gen!Frame
<1> HIDE DEF f, locals
<1>12. /\ ~ Generates(f) /\ Minds(f, fun, n + 2, G)
       /\ Owes(f) = {n + 2}
  BY <1>11 DEF Minds, Connects, Owes, Generates, HoldsFunction, Joins, Branches, Chooses, Tests, Repeats
<1>13. O2 = (O \ (Owes(Gen!Top) \union {a})) \union Owes(f) \union {n + 1}
  <2>1. O2 = (O \ {a}) \union {n + 2} \union {n + 1}
    BY <1>1, <1>3 DEF O1
  <2> QED
    BY <1>10, <1>12, <2>1
<1>14. n + 1 \notin Owes(f)
  BY <1>1, <1>12
<1>15. \A b \in Owes(f) \union {n + 1} :
           /\ G[b] = fun.fn
           /\ b \in Owes(Gen!Top) \/ b = a \/ b \in n + 1 .. n + 2
  BY <1>1, <1>12
<1>16. n + 2 \in Nat /\ n <= n + 2
  BY <1>1
<1> HIDE DEF O2
<1>17. Turn(n, FN, O, Owes(Gen!Top) \union {a}, n + 2, G, O2, Owes(f), n + 1)
  BY <1>1, <1>13, <1>14, <1>15, <1>16 DEF Turn
<1>18. f = Gen!Frame(Gen!Top.node, 2, locals, Gen!Top.saved)
  BY DEF f
<1> QED
  BY <1>5, <1>9, <1>10, <1>12, <1>16, <1>17, <1>18, Turns

(* A visitor that returns to a block it owed, behind a branch to it or to  *)
(* one that is owed as well; the other debts are paid.                     *)
LEMMA Settles ==
    ASSUME NEW F, NEW FN, NEW n, NEW O,
           Looks(ir, FN, n, O, ir.at), Ledger(genStk, F, FN, n, O, ir.at, fun),
           genStk # <<>>, ~ Generates(Gen!Top), fun' = fun,
           NEW b \in Owes(Gen!Top), NEW O2, O2 = (O \ (Owes(Gen!Top) \union {ir.at})) \union {b},
           NEW m, NEW v, Looks(m, FN, n, O2, b), Gen!Finish(m, v)
    PROVE  After
<1> DEFINE H == Owes(Gen!Top) \union Cur(ir.at, fun)
<1>1. /\ n \in Nat /\ O \subseteq 1 .. n
      /\ Account(Gen!Top, F[Len(genStk)], fun, n, FN, O)
      /\ F[Len(genStk)] = fun
      /\ AtWork(ir.at, fun, FN, O)
      /\ \A c \in Owes(Gen!Top) : c \notin Cur(ir.at, fun)
  BY OnTop
<1>2. \A c \in Owes(Gen!Top) : c \in O /\ FN[c] = fun.fn /\ c # ir.at /\ c \notin Ret(fun)
  BY <1>1 DEF Account, Cur
<1>3. \A c \in Ret(fun) : c \in O /\ FN[c] = fun.fn /\ c # ir.at
  BY <1>1 DEF AtWork, Cur
<1>4. AtWork(b, fun, FN, O2)
  BY <1>2, <1>3 DEF AtWork, Cur
<1>5. Hands(n, FN, O, H, n, FN, O2, {}, Cur(b, fun))
  <2>1. O2 = (O \ H) \union Cur(b, fun)
    <3>1. ASSUME NEW c PROVE c \in O2 <=> c \in (O \ H) \union Cur(b, fun)
      BY <1>2, <1>3 DEF Cur
    <3> QED
      BY <3>1
  <2>2. \A c \in Cur(b, fun) : c \in H
    BY DEF Cur
  <2>3. n <= n
    BY <1>1
  <2> HIDE DEF H
  <2> QED
    BY <1>1, <2>1, <2>2, <2>3 DEF Hands
<1>6. Accounts(genStk', ir', fun')
  BY <1>1, <1>4, <1>5, Leaves
<1>7. genVerdict' \in {"run", "undefined"}
  BY DEF Gen!Finish, Gen!Built
<1> QED
  BY <1>6, <1>7 DEF After

(* The operands of and and or meet in the block that was owed for it.      *)
LEMMA StepMerge ==
    ASSUME NEW F, NEW FN, NEW n, NEW O,
           Looks(ir, FN, n, O, ir.at), Ledger(genStk, F, FN, n, O, ir.at, fun),
           genStk # <<>>, Joins(Gen!Top), fun' = fun, Gen!MergeOperands
    PROVE  After
<1> DEFINE g    == Gen!Top.own.merge
           bool == Gen!PrimType("bool")
           args == <<Gen!Constant(bool, Gen!N.op = "or"), val>>
           to   == <<Gen!Top.own.left, ir.at>>
           m1   == Gen!Br(ir, g)
           m2   == Gen!SetInsertPoint(m1, g)
           m3   == Gen!Emit(m2, "phi", bool, args, to)
           O2   == O \ {ir.at}
<1>1. /\ ~ Generates(Gen!Top) /\ Owes(Gen!Top) = {g}
  BY DEF Joins, Connects, Generates, HoldsFunction, Owes
<1>2. /\ n \in Nat /\ O \subseteq 1 .. n
      /\ Account(Gen!Top, F[Len(genStk)], fun, n, FN, O)
      /\ F[Len(genStk)] = fun
      /\ AtWork(ir.at, fun, FN, O)
      /\ \A c \in Owes(Gen!Top) : c \notin Cur(ir.at, fun)
  BY <1>1, OnTop
<1>3. /\ g \in O /\ g \in 1 .. n /\ FN[g] = fun.fn /\ g # ir.at
      /\ ir.at \in O /\ FN[ir.at] = fun.fn
  BY <1>1, <1>2 DEF Account, Cur, AtWork
<1>4. Gen!Finish(m3, m3.last)
  BY DEF Gen!MergeOperands, Gen!FinishWith
<1> HIDE DEF g, bool, args, to
<1>5. Looks(m1, FN, n, O2, ir.at)
  BY <1>3, Branched
<1> HIDE DEF m1
<1>6. Looks(m2, FN, n, O2, g)
  BY <1>5, PointSet
<1>7. g \in O2 /\ O2 = (O \ ({g} \union {ir.at})) \union {g}
  BY <1>3
<1>8. "phi" \notin Gen!Terminators
  BY DEF Gen!Terminators
<1> HIDE DEF m2, O2
<1>9. Looks(m3, FN, n, O2, g)
  BY <1>6, <1>7, <1>8, Appended
<1> HIDE DEF m3
<1>10. g \in Owes(Gen!Top) /\ O2 = (O \ (Owes(Gen!Top) \union {ir.at})) \union {g}
  BY <1>1, <1>7
<1> QED
  BY <1>1, <1>4, <1>9, <1>10, Settles

(* visit(BinOpExpr).                                                       *)
LEMMA StepBinOp ==
    ASSUME Accounts(genStk, ir, fun), Gen!VisitBinOp
    PROVE  After
<1>1. PICK F, FN, n, O : Looks(ir, FN, n, O, ir.at) /\ Ledger(genStk, F, FN, n, O, ir.at, fun)
  BY DEF Accounts
<1>2. genStk # <<>> /\ Gen!N.kind = "BinOp" /\ fun' = fun
  BY DEF Gen!VisitBinOp, Gen!Visiting, Gen!Context
<1>3. /\ Gen!N = Ast[Gen!Top.node] /\ AtWork(ir.at, fun, FN, O)
      /\ Gen!Top.node \in Node
  BY <1>1, <1>2, OnTop
<1>4. /\ 1 \in 1 .. Gen!Arity /\ 2 \in 1 .. Gen!Arity /\ Gen!N.op \in BinaryOps
  <2>1. Gen!Arity = 2
    BY <1>2, <1>3, SyntaxAssumption DEF Arities, Gen!Arity
  <2> QED
    BY <1>2, <1>3, <2>1, SyntaxAssumption
<1>5. /\ Gen!Logical <=> Connects(Gen!Top.node)
      /\ Ast[Gen!Top.node].kind \notin {"If", "While"} /\ ~ HoldsFunction(Gen!Top.node)
  BY <1>2, <1>3 DEF Gen!Logical, Connects, HoldsFunction
<1>6. CASE Gen!Top.pc = 0 /\ Gen!Go(1, <<>>, ir)
  <2> DEFINE f == Gen!Frame(Gen!Top.node, 1, <<>>, Gen!Top.saved)
  <2>1. f.node = Gen!Top.node /\ f.pc = 1
    BY DEF Gen!Frame
  <2>2. Idle(f)
    BY <1>5, <2>1 DEF Idle, Generates, Joins, Branches, Chooses, Tests, Repeats
  <2>3. Idle(Gen!Top)
    BY <1>6, PlainIdle
  <2> QED
    BY <1>1, <1>2, <1>4, <1>6, <2>2, <2>3, IdleGo
<1>7. CASE Gen!Top.pc = 1 /\ Gen!Logical /\ Gen!EvaluateRight
  BY <1>1, <1>2, <1>4, <1>5, <1>7, StepRight
<1>8. CASE Gen!Top.pc = 1 /\ ~ Gen!Logical /\ Gen!Go(2, val, ir)
  <2>1. Plain(Gen!Top.node)
    BY <1>5, <1>8 DEF Plain
  <2> QED
    BY <1>1, <1>2, <1>4, <1>8, <2>1, PlainGo
<1>9. CASE Gen!Top.pc = 2 /\ Gen!Logical /\ Gen!MergeOperands
  <2>1. Joins(Gen!Top)
    BY <1>5, <1>9 DEF Joins
  <2> QED
    BY <1>1, <1>2, <1>9, <2>1, StepMerge
<1>10. CASE Gen!Top.pc = 2 /\ ~ Gen!Logical /\ Gen!FinishWith(Gen!ApplyBinOp(Gen!Top.own, val))
  <2> DEFINE m == Gen!ApplyBinOp(Gen!Top.own, val)
  <2>1. Idle(Gen!Top)
    BY <1>5, <1>10, PlainIdle DEF Plain
  <2>2. PICK FN2, n2, O2, a2 : GoesOn(FN, n, O, ir.at, m, FN2, n2, O2, a2)
    BY <1>1, <1>3, <1>4, OperatorApplied
  <2>3. Gen!Finish(m, m.last)
    BY <1>10 DEF Gen!FinishWith
  <2> HIDE DEF m
  <2> QED
    BY <1>1, <1>2, <2>1, <2>2, <2>3, PlainFinish
<1> QED
  BY <1>6, <1>7, <1>8, <1>9, <1>10 DEF Gen!VisitBinOp

(* visit(ArrayExpr).                                                       *)
LEMMA StepArray ==
    ASSUME Accounts(genStk, ir, fun), Gen!VisitArray
    PROVE  After
<1>1. PICK F, FN, n, O : Looks(ir, FN, n, O, ir.at) /\ Ledger(genStk, F, FN, n, O, ir.at, fun)
  BY DEF Accounts
<1>2. genStk # <<>> /\ Gen!N.kind = "Array" /\ fun' = fun
  BY DEF Gen!VisitArray, Gen!Visiting, Gen!Context
<1>3. /\ Plain(Gen!Top.node) /\ ir.at \in O /\ Gen!Arity \in Nat /\ Gen!Top.pc \in Nat
  <2>1. /\ Gen!N = Ast[Gen!Top.node] /\ AtWork(ir.at, fun, FN, O)
        /\ Gen!Top.node \in Node /\ Gen!Top.pc \in Nat
    BY <1>1, <1>2, OnTop
  <2>2. Gen!Arity \in Nat
    BY <2>1, SyntaxAssumption, LenProperties DEF Gen!Arity
  <2> QED
    BY <1>2, <2>1, <2>2 DEF Plain, HoldsFunction, Connects, AtWork, Cur
<1>4. Idle(Gen!Top)
  BY <1>3, PlainIdle
<1> DEFINE m    == Gen!InsertElement
           none == Gen!Constant(notes[Gen!Top.node], <<>>)
<1>5. Looks(m, FN, n, O, ir.at)
  <2> DEFINE type == Gen!Tid(Gen!Top.own)
             args == <<Gen!Top.own, val>>
  <2>1. "insert" \notin Gen!Terminators
    BY DEF Gen!Terminators
  <2>2. m = Gen!Build(ir, "insert", type, args)
    BY DEF Gen!InsertElement
  <2> HIDE DEF type, args, m
  <2> QED
    BY <1>1, <1>3, <2>1, <2>2, Computed
<1>6. \/ Gen!Throw
      \/ Gen!Top.pc = 0 /\ Gen!Arity = 0 /\ Gen!Finish(ir, none)
      \/ Gen!Top.pc = 0 /\ Gen!Arity # 0 /\ Gen!Go(1, none, ir)
      \/ Gen!Top.pc < Gen!Arity /\ Gen!Go(Gen!Top.pc + 1, m.last, m)
      \/ Gen!Finish(m, m.last)
  BY DEF Gen!VisitArray, Gen!FinishWith
<1> HIDE DEF m, none
<1>7. CASE Gen!Finish(ir, none)
  BY <1>1, <1>2, <1>4, <1>7, PlainReturns
<1>8. CASE Gen!Arity # 0 /\ Gen!Go(1, none, ir)
  <2>1. 1 \in 1 .. Gen!Arity
    BY <1>3, <1>8
  <2> QED
    BY <1>1, <1>2, <1>3, <1>8, <2>1, PlainGo
<1>9. CASE Gen!Top.pc < Gen!Arity /\ Gen!Go(Gen!Top.pc + 1, m.last, m)
  <2> DEFINE k == Gen!Top.pc + 1
  <2>1. k \in 1 .. Gen!Arity
    BY <1>3, <1>9
  <2>2. Gen!Go(k, m.last, m)
    BY <1>9
  <2> HIDE DEF k
  <2> QED
    BY <1>1, <1>2, <1>3, <1>5, <2>1, <2>2, PlainGo
<1>10. CASE Gen!Finish(m, m.last)
  BY <1>1, <1>2, <1>4, <1>5, <1>10, PlainReturns
<1> QED
  BY <1>6, <1>7, <1>8, <1>9, <1>10, Throws

(* visit(ArrayDerefExpr).                                                  *)
LEMMA StepDeref ==
    ASSUME Accounts(genStk, ir, fun), Gen!VisitArrayDeref
    PROVE  After
<1>1. PICK F, FN, n, O : Looks(ir, FN, n, O, ir.at) /\ Ledger(genStk, F, FN, n, O, ir.at, fun)
  BY DEF Accounts
<1>2. genStk # <<>> /\ Gen!N.kind = "Deref" /\ fun' = fun
  BY DEF Gen!VisitArrayDeref, Gen!Visiting, Gen!Context
<1>3. /\ Plain(Gen!Top.node) /\ AtWork(ir.at, fun, FN, O)
      /\ 1 \in 1 .. Gen!Arity /\ 2 \in 1 .. Gen!Arity
  <2>1. Gen!N = Ast[Gen!Top.node] /\ AtWork(ir.at, fun, FN, O) /\ Gen!Top.node \in Node
    BY <1>1, <1>2, OnTop
  <2>2. Gen!Arity = 2
    BY <1>2, <2>1, SyntaxAssumption DEF Arities, Gen!Arity
  <2> QED
    BY <1>2, <2>1, <2>2 DEF Plain, HoldsFunction, Connects
<1>4. Idle(Gen!Top)
  BY <1>3, PlainIdle
<1> DEFINE m == Gen!Indexed(Gen!Top.own, val)
<1>5. Gen!Throw \/ Gen!Go(1, <<>>, ir) \/ Gen!Go(2, val, ir) \/ Gen!Finish(m, m.last)
  BY DEF Gen!VisitArrayDeref, Gen!FinishWith
<1>6. CASE Gen!Go(1, <<>>, ir)
  BY <1>1, <1>2, <1>3, <1>6, PlainGo
<1>7. CASE Gen!Go(2, val, ir)
  BY <1>1, <1>2, <1>3, <1>7, PlainGo
<1>8. CASE Gen!Finish(m, m.last)
  <2> DEFINE G == Belongs(FN, n, fun.fn)
  <2>1. /\ n \in Nat /\ O \subseteq 1 .. n
        /\ \A b \in 1 .. n : G[b] = FN[b]
        /\ G[n + 1] = fun.fn /\ G[n + 2] = fun.fn
        /\ Looks(ir, G, n, O, ir.at)
    BY <1>1, Assigned
  <2>2. ir.at \in O /\ G[ir.at] = fun.fn
    BY <1>3, <2>1 DEF AtWork, Cur
  <2> HIDE DEF G
  <2>3. Looks(m, G, n + 2, (O \ {ir.at}) \union {n + 1}, n + 1)
    BY <2>1, <2>2, ElementLoaded
  <2> HIDE DEF m
  <2>4. n <= n + 2 /\ n + 1 \in n + 1 .. n + 2
    BY <2>1
  <2>5. GoesOn(FN, n, O, ir.at, m, G, n + 2, (O \ {ir.at}) \union {n + 1}, n + 1)
    BY <2>1, <2>3, <2>4 DEF GoesOn
  <2> QED
    BY <1>1, <1>2, <1>4, <1>8, <2>5, PlainFinish
<1> QED
  BY <1>5, <1>6, <1>7, <1>8, Throws

(* visit(LetExpr), of what is no function literal.                         *)
LEMMA StepVariable ==
    ASSUME NEW F, NEW FN, NEW n, NEW O,
           Looks(ir, FN, n, O, ir.at), Ledger(genStk, F, FN, n, O, ir.at, fun),
           genStk # <<>>, Plain(Gen!Top.node), fun' = fun, Gen!LetVariable
    PROVE  After
<1> DEFINE type == Gen!Tid(val)
           slot == Gen!Alloca(ir, fun.fn, type)
           m    == Gen!Store(slot, val, slot.last)
<1>1. ir.at \in O /\ Idle(Gen!Top)
  BY OnTop, PlainIdle DEF AtWork, Cur
<1>2. Gen!Finish(m, val)
  BY DEF Gen!LetVariable
<1> HIDE DEF type
<1>3. Looks(slot, FN, n, O, ir.at)
  BY Allocated
<1> HIDE DEF slot
<1>4. Looks(m, FN, n, O, ir.at)
  BY <1>1, <1>3, Stored
<1> HIDE DEF m
<1> QED
  BY <1>1, <1>2, <1>4, PlainReturns

(* visit(AssignExpr).                                                      *)
LEMMA StepAssign ==
    ASSUME Accounts(genStk, ir, fun), Gen!VisitAssign
    PROVE  After
<1>1. PICK F, FN, n, O : Looks(ir, FN, n, O, ir.at) /\ Ledger(genStk, F, FN, n, O, ir.at, fun)
  BY DEF Accounts
<1>2. genStk # <<>> /\ Gen!N.kind = "Assign" /\ fun' = fun
  BY DEF Gen!VisitAssign, Gen!Visiting, Gen!Context
<1>3. Plain(Gen!Top.node) /\ ir.at \in O /\ 1 \in 1 .. Gen!Arity
  <2>1. Gen!N = Ast[Gen!Top.node] /\ AtWork(ir.at, fun, FN, O) /\ Gen!Top.node \in Node
    BY <1>1, <1>2, OnTop
  <2>2. Gen!Arity = 1
    BY <1>2, <2>1, SyntaxAssumption DEF Arities, Gen!Arity
  <2> QED
    BY <1>2, <2>1, <2>2 DEF Plain, HoldsFunction, Connects, AtWork, Cur
<1>4. Idle(Gen!Top)
  BY <1>3, PlainIdle
<1>5. \/ Gen!Throw
      \/ \E h : Gen!Go(1, h, ir)
      \/ \E slot : Gen!Finish(Gen!Store(ir, val, slot), val)
  BY DEF Gen!VisitAssign
<1>6. ASSUME NEW h, Gen!Go(1, h, ir) PROVE After
  BY <1>1, <1>2, <1>3, <1>6, PlainGo
<1>7. ASSUME NEW slot, Gen!Finish(Gen!Store(ir, val, slot), val) PROVE After
  <2> DEFINE m == Gen!Store(ir, val, slot)
  <2>1. Looks(m, FN, n, O, ir.at)
    BY <1>1, <1>3, Stored
  <2>2. Gen!Finish(m, val)
    BY <1>7
  <2> HIDE DEF m
  <2> QED
    BY <1>1, <1>2, <1>4, <2>1, <2>2, PlainReturns
<1> QED
  BY <1>5, <1>6, <1>7, Throws

(* visit(CallExpr).                                                        *)
LEMMA StepCall ==
    ASSUME Accounts(genStk, ir, fun), Gen!VisitCall
    PROVE  After
<1>1. PICK F, FN, n, O : Looks(ir, FN, n, O, ir.at) /\ Ledger(genStk, F, FN, n, O, ir.at, fun)
  BY DEF Accounts
<1>2. genStk # <<>> /\ Gen!N.kind = "Call" /\ fun' = fun
  BY DEF Gen!VisitCall, Gen!Visiting, Gen!Context
<1>3. /\ Plain(Gen!Top.node) /\ ir.at \in O /\ Gen!Arity \in Nat /\ Gen!Top.pc \in Nat
  <2>1. /\ Gen!N = Ast[Gen!Top.node] /\ AtWork(ir.at, fun, FN, O)
        /\ Gen!Top.node \in Node /\ Gen!Top.pc \in Nat
    BY <1>1, <1>2, OnTop
  <2>2. Gen!Arity \in Nat
    BY <2>1, SyntaxAssumption, LenProperties DEF Gen!Arity
  <2> QED
    BY <1>2, <2>1, <2>2 DEF Plain, HoldsFunction, Connects, AtWork, Cur
<1>4. Idle(Gen!Top)
  BY <1>3, PlainIdle
<1> DEFINE m == Gen!BuildCall
           L == Gen!Operands
<1>5. Looks(m, FN, n, O, ir.at)
  <2> DEFINE type == ir.funs[Gen!Detail(L[1])].ret
             none == <<>>
  <2>1. "call" \notin Gen!Terminators
    BY DEF Gen!Terminators
  <2>2. m = Gen!Emit(ir, "call", type, L, none)
    BY DEF Gen!BuildCall
  <2> HIDE DEF type, none, L, m
  <2> QED
    BY <1>1, <1>3, <2>1, <2>2, Appended
<1>6. \/ Gen!Throw
      \/ Gen!Arity > 1 /\ Gen!Go(2, L, ir)
      \/ Gen!Top.pc < Gen!Arity /\ Gen!Go(Gen!Top.pc + 1, L, ir)
      \/ Gen!Finish(m, m.last)
  BY DEF Gen!VisitCall, Gen!FinishWith
<1> HIDE DEF m, L
<1>7. CASE Gen!Arity > 1 /\ Gen!Go(2, L, ir)
  <2>1. 2 \in 1 .. Gen!Arity
    BY <1>3, <1>7
  <2> QED
    BY <1>1, <1>2, <1>3, <1>7, <2>1, PlainGo
<1>8. CASE Gen!Top.pc < Gen!Arity /\ Gen!Go(Gen!Top.pc + 1, L, ir)
  <2> DEFINE k == Gen!Top.pc + 1
  <2>1. k \in 1 .. Gen!Arity
    BY <1>3, <1>8
  <2>2. Gen!Go(k, L, ir)
    BY <1>8
  <2> HIDE DEF k
  <2> QED
    BY <1>1, <1>2, <1>3, <2>1, <2>2, PlainGo
<1>9. CASE Gen!Finish(m, m.last)
  BY <1>1, <1>2, <1>4, <1>5, <1>9, PlainReturns
<1> QED
  BY <1>6, <1>7, <1>8, <1>9, Throws

(* visit(BlockStmt).                                                       *)
LEMMA StepBlock ==
    ASSUME Accounts(genStk, ir, fun), Gen!VisitBlock
    PROVE  After
<1>1. PICK F, FN, n, O : Looks(ir, FN, n, O, ir.at) /\ Ledger(genStk, F, FN, n, O, ir.at, fun)
  BY DEF Accounts
<1>2. genStk # <<>> /\ Gen!N.kind = "Block" /\ fun' = fun
  BY DEF Gen!VisitBlock, Gen!Visiting
<1>3. Plain(Gen!Top.node) /\ Gen!N.kids[1] \in Node
  <2>1. Gen!N = Ast[Gen!Top.node] /\ Gen!Top.node \in Node
    BY <1>1, <1>2, OnTop
  <2>2. 1 \in 1 .. Len(Ast[Gen!Top.node].kids)
    BY <1>2, <2>1, SyntaxAssumption DEF Arities
  <2> QED
    BY <1>2, <2>1, <2>2, ChildNode DEF Plain, HoldsFunction, Connects
<1>4. Idle(Gen!Top)
  BY <1>3, PlainIdle
<1>5. \/ \E env : Gen!Accept(Gen!N.kids[1], 1, <<>>, env, ir)
      \/ Gen!Finish(ir, val)
  BY DEF Gen!VisitBlock, Gen!EnterBlock, Gen!LeaveBlock
<1>6. ASSUME NEW env, Gen!Accept(Gen!N.kids[1], 1, <<>>, env, ir) PROVE After
  <2> DEFINE f == Gen!Frame(Gen!Top.node, 1, <<>>, Gen!Top.saved)
             c == Gen!N.kids[1]
  <2>1. f.node = Gen!Top.node
    BY DEF Gen!Frame
  <2>2. Idle(f)
    BY <1>3, <2>1, PlainIdle
  <2>3. GoesOn(FN, n, O, ir.at, ir, FN, n, O, ir.at)
    BY <1>1, <1>2, SameBlock
  <2>4. c \in Node /\ Gen!Accept(c, 1, <<>>, env, ir)
    BY <1>3, <1>6
  <2> HIDE DEF c
  <2>5. Accounts(genStk', ir', fun')
    BY <1>1, <1>2, <1>4, <2>2, <2>3, <2>4, IdleVisits
  <2> QED
    BY <2>4, <2>5 DEF Gen!Accept, Gen!Built, After
<1>7. CASE Gen!Finish(ir, val)
  BY <1>1, <1>2, <1>4, <1>7, PlainReturns
<1> QED
  BY <1>5, <1>6, <1>7

(* visit(StmtList).                                                        *)
LEMMA StepStmtList ==
    ASSUME Accounts(genStk, ir, fun), Gen!VisitStmtList
    PROVE  After
<1>1. PICK F, FN, n, O : Looks(ir, FN, n, O, ir.at) /\ Ledger(genStk, F, FN, n, O, ir.at, fun)
  BY DEF Accounts
<1>2. genStk # <<>> /\ Gen!N.kind = "StmtList" /\ fun' = fun
  BY DEF Gen!VisitStmtList, Gen!Visiting, Gen!Context
<1>3. /\ Plain(Gen!Top.node) /\ Gen!Arity \in Nat /\ Gen!Top.pc \in Nat
  <2>1. Gen!N = Ast[Gen!Top.node] /\ Gen!Top.node \in Node /\ Gen!Top.pc \in Nat
    BY <1>1, <1>2, OnTop
  <2>2. Gen!Arity \in Nat
    BY <2>1, SyntaxAssumption, LenProperties DEF Gen!Arity
  <2> QED
    BY <1>2, <2>1, <2>2 DEF Plain, HoldsFunction, Connects
<1>4. Idle(Gen!Top)
  BY <1>3, PlainIdle
<1>5. \/ Gen!Top.pc < Gen!Arity /\ Gen!Go(Gen!Top.pc + 1, <<>>, ir)
      \/ Gen!Finish(ir, val)
  BY DEF Gen!VisitStmtList
<1>6. CASE Gen!Top.pc < Gen!Arity /\ Gen!Go(Gen!Top.pc + 1, <<>>, ir)
  <2> DEFINE k == Gen!Top.pc + 1
  <2>1. k \in 1 .. Gen!Arity
    BY <1>3, <1>6
  <2>2. Gen!Go(k, <<>>, ir)
    BY <1>6
  <2> HIDE DEF k
  <2> QED
    BY <1>1, <1>2, <1>3, <2>1, <2>2, PlainGo
<1>7. CASE Gen!Finish(ir, val)
  BY <1>1, <1>2, <1>4, <1>7, PlainReturns
<1> QED
  BY <1>5, <1>6, <1>7

(* visit(ReturnStmt): a branch to the return block, and a new block for    *)
(* what follows.                                                           *)
LEMMA StepReturn ==
    ASSUME Accounts(genStk, ir, fun), Gen!VisitReturn
    PROVE  After
<1>1. PICK F, FN, n, O : Looks(ir, FN, n, O, ir.at) /\ Ledger(genStk, F, FN, n, O, ir.at, fun)
  BY DEF Accounts
<1>2. genStk # <<>> /\ Gen!N.kind = "Return" /\ fun' = fun
  BY DEF Gen!VisitReturn, Gen!Visiting, Gen!Context
<1>3. Plain(Gen!Top.node) /\ AtWork(ir.at, fun, FN, O)
  <2>1. Gen!N = Ast[Gen!Top.node] /\ AtWork(ir.at, fun, FN, O) /\ Gen!Top.node \in Node
    BY <1>1, <1>2, OnTop
  <2> QED
    BY <1>2, <2>1 DEF Plain, HoldsFunction, Connects
<1>4. Idle(Gen!Top)
  BY <1>3, PlainIdle
<1> DEFINE a  == ir.at
           G  == Belongs(FN, n, fun.fn)
           r1 == Gen!Emit(ir, "ret", Gen!Void, <<>>, <<>>)
           r2 == Gen!ReturnValue(val)
           m1 == Gen!Unreachable(r1)
           m2 == Gen!Unreachable(r2)
<1>5. \/ Gen!Arity = 1 /\ Gen!Go(1, <<>>, ir)
      \/ Gen!Finish(m1, val)
      \/ Gen!Finish(m2, val)
  BY DEF Gen!VisitReturn
<1>6. /\ n \in Nat /\ O \subseteq 1 .. n
      /\ \A b \in 1 .. n : G[b] = FN[b]
      /\ G[n + 1] = fun.fn
      /\ Looks(ir, G, n, O, a)
  BY <1>1, Assigned
<1>7. /\ a \in O /\ G[a] = fun.fn
      /\ \A b \in Ret(fun) : b \in O /\ b # a /\ b \in 1 .. n /\ G[b] = fun.fn
  BY <1>3, <1>6 DEF AtWork, Cur
<1> HIDE DEF G
<1>8. Looks(r1, G, n, O \ {a}, a)
  <2> DEFINE none == <<>>
  <2>1. Looks(Gen!Emit(ir, "ret", Gen!Void, none, <<>>), G, n, O \ {a}, a)
    <3> HIDE DEF none
    <3> QED
      BY <1>6, <1>7, Returns
  <2> QED
    BY <2>1
<1>9. Looks(r2, G, n, O \ {a}, a)
  <2>1. CASE fun.retBlock = 0
    <3> DEFINE args == <<val>>
    <3>1. r2 = Gen!Emit(ir, "ret", Gen!Void, args, <<>>)
      BY <2>1 DEF Gen!ReturnValue
    <3> HIDE DEF r2, args
    <3> QED
      BY <1>6, <1>7, <3>1, Returns
  <2>2. CASE fun.retBlock # 0
    <3> DEFINE s == Gen!Store(ir, val, fun.retAlloca)
    <3>1. r2 = Gen!Br(s, fun.retBlock)
      BY <2>2 DEF Gen!ReturnValue
    <3>2. Looks(s, G, n, O, a)
      BY <1>6, <1>7, Stored
    <3>3. fun.retBlock \in 1 .. n /\ G[fun.retBlock] = G[a]
      BY <1>7, <2>2 DEF Ret
    <3> HIDE DEF r2, s
    <3> QED
      BY <1>7, <3>1, <3>2, <3>3, Branched
  <2> QED
    BY <2>1, <2>2
<1> HIDE DEF r1, r2
<1>10. /\ Looks(m1, G, n + 1, (O \ {a}) \union {n + 1}, n + 1)
       /\ Looks(m2, G, n + 1, (O \ {a}) \union {n + 1}, n + 1)
  BY <1>6, <1>8, <1>9, MadeUnreachable
<1> HIDE DEF m1, m2
<1>11. n <= n + 1 /\ n + 1 \in n + 1 .. n + 1
  BY <1>6
<1>12. /\ GoesOn(FN, n, O, a, m1, G, n + 1, (O \ {a}) \union {n + 1}, n + 1)
       /\ GoesOn(FN, n, O, a, m2, G, n + 1, (O \ {a}) \union {n + 1}, n + 1)
  BY <1>6, <1>10, <1>11 DEF GoesOn
<1>13. CASE Gen!Arity = 1 /\ Gen!Go(1, <<>>, ir)
  <2>1. 1 \in 1 .. Gen!Arity
    BY <1>13
  <2> QED
    BY <1>1, <1>2, <1>3, <1>13, <2>1, PlainGo
<1>14. CASE Gen!Finish(m1, val)
  BY <1>1, <1>2, <1>4, <1>12, <1>14, PlainFinish
<1>15. CASE Gen!Finish(m2, val)
  BY <1>1, <1>2, <1>4, <1>12, <1>15, PlainFinish
<1> QED
  BY <1>5, <1>13, <1>14, <1>15

(* visit(WhileStmt): three blocks, and a branch to the condition.          *)
LEMMA StepEnterLoop ==
    ASSUME NEW F, NEW FN, NEW n, NEW O,
           Looks(ir, FN, n, O, ir.at), Ledger(genStk, F, FN, n, O, ir.at, fun),
           genStk # <<>>, Gen!N.kind = "While", Gen!Top.pc = 0, fun' = fun,
           1 \in 1 .. Gen!Arity, Gen!EnterLoop
    PROVE  After
<1> DEFINE a      == ir.at
           G      == Belongs(FN, n, fun.fn)
           locals == [cond |-> n + 1]
           f      == Gen!Frame(Gen!Top.node, 1, locals, Gen!Top.saved)
           m1     == Gen!NewBlock(Gen!NewBlock(ir, fun.fn), fun.fn)
           m2     == Gen!NewBlock(m1, fun.fn)
           m3     == Gen!Br(m2, n + 1)
           m4     == Gen!SetInsertPoint(m3, n + 1)
           O1     == O \union {n + 1, n + 2}
           O2     == O1 \union {n + 3}
           O3     == O2 \ {a}
<1>1. /\ n \in Nat /\ O \subseteq 1 .. n
      /\ \A c \in 1 .. n : G[c] = FN[c]
      /\ G[n + 1] = fun.fn /\ G[n + 2] = fun.fn /\ G[n + 3] = fun.fn
      /\ Looks(ir, G, n, O, a)
  BY Assigned
<1>2. a \in O /\ a \in 1 .. n /\ G[a] = fun.fn /\ Gen!N = Ast[Gen!Top.node]
  BY <1>1, OnTop DEF AtWork, Cur
<1>3. Gen!LastBlock(ir) = n
  BY <1>1 DEF Looks, Gen!LastBlock
<1>4. Gen!Go(1, locals, m4)
  BY <1>3 DEF Gen!EnterLoop
<1> HIDE DEF G
<1>5. Looks(m1, G, n + 2, O1, a)
  BY <1>1, TwoBlocks
<1>6. (n + 2) + 1 = n + 3
  BY <1>1
<1>7. O1 \union {n + 3} = O2
  OBVIOUS
<1> HIDE DEF m1, O1
<1>8. Looks(m2, G, n + 3, O2, a)
  <2>1. G[(n + 2) + 1] = fun.fn
    BY <1>1, <1>6
  <2>2. Looks(m2, G, (n + 2) + 1, O1 \union {(n + 2) + 1}, a)
    BY <1>5, <2>1, BlockAdded
  <2> QED
    BY <1>6, <2>2
<1>9. a \in O2 /\ n + 1 \in 1 .. n + 3 /\ G[n + 1] = G[a]
  BY <1>1, <1>2 DEF O1
<1>10. n + 3 \in Nat /\ n <= n + 3
  BY <1>1
<1> HIDE DEF m2, O2
<1>11. Looks(m3, G, n + 3, O3, a)
  BY <1>8, <1>9, Branched
<1> HIDE DEF m3
<1>12. Looks(m4, G, n + 3, O3, n + 1)
  BY <1>11, PointSet
<1> HIDE DEF m4
<1>13. f.node = Gen!Top.node /\ f.pc = 1 /\ f.own.cond = n + 1
  BY DEF Gen!Frame
<1>14. f = Gen!Frame(Gen!Top.node, 1, locals, Gen!Top.saved)
  OBVIOUS
<1> HIDE DEF f, locals
<1>15. /\ ~ Generates(f) /\ ~ Branches(f) /\ Owes(f) = {n + 2, n + 3}
  <2>1. /\ ~ Generates(f) /\ ~ Joins(f) /\ ~ Branches(f) /\ ~ Chooses(f) /\ Tests(f)
    BY <1>2, <1>13 DEF Generates, HoldsFunction, Joins, Connects, Branches, Chooses, Tests
  <2>2. (n + 1) + 1 = n + 2 /\ (n + 1) + 2 = n + 3
    BY <1>1
  <2> QED
    BY <1>13, <2>1, <2>2 DEF Owes
<1>16. Owes(Gen!Top) = {} /\ ~ Generates(Gen!Top)
  BY PlainIdle DEF Idle, Owes
<1>17. O3 = (O \ (Owes(Gen!Top) \union {a})) \union Owes(f) \union {n + 1}
  <2>1. ASSUME NEW c
        PROVE  c \in O3 <=> c \in (O \ {a}) \union {n + 2, n + 3} \union {n + 1}
    BY <1>1, <1>2 DEF O2, O1
  <2>2. O3 = (O \ {a}) \union {n + 2, n + 3} \union {n + 1}
    BY <2>1
  <2> QED
    BY <1>15, <1>16, <2>2
<1>18. n + 1 \notin Owes(f)
  BY <1>1, <1>15
<1>19. \A c \in Owes(f) \union {n + 1} :
           /\ G[c] = fun.fn
           /\ c \in Owes(Gen!Top) \/ c = a \/ c \in n + 1 .. n + 3
  BY <1>1, <1>15
<1>20. Minds(f, fun, n + 3, G)
  BY <1>1, <1>13, <1>15 DEF Minds
<1>21. Turn(n, FN, O, Owes(Gen!Top) \union {a}, n + 3, G, O3, Owes(f), n + 1)
  <2> HIDE DEF O3
  <2> QED
    BY <1>1, <1>10, <1>17, <1>18, <1>19 DEF Turn
<1> HIDE DEF O3
<1> QED
  BY <1>4, <1>10, <1>12, <1>14, <1>15, <1>16, <1>20, <1>21, Turns

(* The body of a loop, behind its condition.                               *)
LEMMA StepLoopBody ==
    ASSUME NEW F, NEW FN, NEW n, NEW O,
           Looks(ir, FN, n, O, ir.at), Ledger(genStk, F, FN, n, O, ir.at, fun),
           genStk # <<>>, Gen!N.kind = "While", Gen!Top.pc = 1, fun' = fun,
           2 \in 1 .. Gen!Arity, Gen!EnterLoopBody
    PROVE  After
<1> DEFINE a      == ir.at
           c      == Gen!Top.own.cond
           locals == Gen!Top.own
           f      == Gen!Frame(Gen!Top.node, 2, locals, Gen!Top.saved)
           m1     == Gen!ToBool(val)
           m2     == Gen!CondBr(m1, m1.last, c + 1, c + 2)
           m3     == Gen!SetInsertPoint(m2, c + 1)
           O2     == O \ {a}
<1>1. /\ n \in Nat /\ O \subseteq 1 .. n
      /\ Account(Gen!Top, F[Len(genStk)], fun, n, FN, O)
      /\ ~ Generates(Gen!Top) => F[Len(genStk)] = fun
      /\ AtWork(a, fun, FN, O)
      /\ \A b \in Owes(Gen!Top) : b \notin Cur(a, fun)
      /\ Gen!N = Ast[Gen!Top.node]
  BY OnTop
<1>2. /\ ~ Generates(Gen!Top) /\ Tests(Gen!Top)
      /\ Owes(Gen!Top) = {c + 1, c + 2}
  BY <1>1 DEF Generates, HoldsFunction, Joins, Connects, Branches, Chooses, Tests, Owes
<1>3. c \in 1 .. n /\ FN[c] = fun.fn
  BY <1>1, <1>2 DEF Account, Minds
<1>4. /\ c + 1 \in O /\ FN[c + 1] = fun.fn /\ c + 1 # a
      /\ c + 2 \in O /\ FN[c + 2] = fun.fn /\ c + 2 # a
      /\ a \in O /\ FN[a] = fun.fn
  BY <1>1, <1>2 DEF Account, Cur, AtWork
<1>5. Gen!Go(2, locals, m3)
  BY DEF Gen!EnterLoopBody
<1>6. Looks(m1, FN, n, O, a)
  BY <1>4, ConditionMade
<1>7. c + 1 \in 1 .. n /\ c + 2 \in 1 .. n
  BY <1>1, <1>4
<1> HIDE DEF m1
<1>8. Looks(m2, FN, n, O2, a)
  BY <1>4, <1>6, <1>7, Forked
<1> HIDE DEF m2
<1>9. Looks(m3, FN, n, O2, c + 1)
  BY <1>8, PointSet
<1> HIDE DEF m3
<1>10. f.node = Gen!Top.node /\ f.pc = 2 /\ f.own = locals
  BY DEF Gen!Frame
<1>11. f = Gen!Frame(Gen!Top.node, 2, locals, Gen!Top.saved)
  OBVIOUS
<1> HIDE DEF f
<1>12. ~ Generates(f) /\ ~ Branches(f) /\ Owes(f) = {c + 2}
  BY <1>1, <1>10
     DEF Generates, HoldsFunction, Joins, Connects, Branches, Chooses, Tests, Repeats, Owes
<1>13. c + 1 # c + 2 /\ n <= n
  BY <1>1, <1>3
<1> HIDE DEF c
<1>14. O2 = (O \ (Owes(Gen!Top) \union {a})) \union Owes(f) \union {c + 1}
  <2>1. O2 = (O \ ({c + 1, c + 2} \union {a})) \union {c + 2} \union {c + 1}
    BY <1>4
  <2> QED
    BY <1>2, <1>12, <2>1
<1>15. c + 1 \notin Owes(f)
  BY <1>12, <1>13
<1>16. \A b \in Owes(f) \union {c + 1} :
           /\ FN[b] = fun.fn
           /\ b \in Owes(Gen!Top) \/ b = a \/ b \in n + 1 .. n
  BY <1>2, <1>4, <1>12
<1>17. Minds(f, fun, n, FN)
  BY <1>3, <1>10, <1>12 DEF Minds, c
<1> HIDE DEF O2, locals
<1>18. Turn(n, FN, O, Owes(Gen!Top) \union {a}, n, FN, O2, Owes(f), c + 1)
  BY <1>13, <1>14, <1>15, <1>16 DEF Turn
<1>19. n \in Nat
  BY <1>1
<1> QED
  BY <1>2, <1>5, <1>9, <1>11, <1>12, <1>17, <1>18, <1>19, Turns

(* Back to the condition, and on behind the loop.                          *)
LEMMA StepLeaveLoop ==
    ASSUME NEW F, NEW FN, NEW n, NEW O,
           Looks(ir, FN, n, O, ir.at), Ledger(genStk, F, FN, n, O, ir.at, fun),
           genStk # <<>>, Gen!N.kind = "While", Gen!Top.pc = 2, fun' = fun,
           Gen!LeaveLoop
    PROVE  After
<1> DEFINE a      == ir.at
           c      == Gen!Top.own.cond
           m1     == Gen!Br(ir, c)
           m2     == Gen!SetInsertPoint(m1, c + 2)
           O2     == O \ {a}
<1>1. /\ n \in Nat /\ O \subseteq 1 .. n
      /\ Account(Gen!Top, F[Len(genStk)], fun, n, FN, O)
      /\ ~ Generates(Gen!Top) => F[Len(genStk)] = fun
      /\ AtWork(a, fun, FN, O)
      /\ \A b \in Owes(Gen!Top) : b \notin Cur(a, fun)
      /\ Gen!N = Ast[Gen!Top.node]
  BY OnTop
<1>2. /\ ~ Generates(Gen!Top) /\ Repeats(Gen!Top)
      /\ Owes(Gen!Top) = {c + 2}
  BY <1>1 DEF Generates, HoldsFunction, Joins, Connects, Branches, Chooses, Tests, Repeats, Owes
<1>3. c \in 1 .. n /\ FN[c] = fun.fn
  BY <1>1, <1>2 DEF Account, Minds
<1>4. c + 2 \in O /\ c + 2 # a /\ a \in O /\ FN[a] = fun.fn
  BY <1>1, <1>2 DEF Account, Cur, AtWork
<1>5. Looks(m1, FN, n, O2, a) /\ Gen!BrUnlessTerminated(ir, c) = m1
  BY <1>3, <1>4, Branched
<1>6. Gen!Finish(m2, Gen!NullValue)
  BY <1>5 DEF Gen!LeaveLoop
<1> HIDE DEF m1, c
<1>7. Looks(m2, FN, n, O2, c + 2)
  BY <1>5, PointSet
<1>8. c + 2 \in Owes(Gen!Top) /\ O2 = (O \ (Owes(Gen!Top) \union {a})) \union {c + 2}
  BY <1>2, <1>4
<1> HIDE DEF m2, O2
<1> QED
  BY <1>2, <1>6, <1>7, <1>8, Settles

(* visit(WhileStmt).                                                       *)
LEMMA StepWhile ==
    ASSUME Accounts(genStk, ir, fun), Gen!VisitWhile
    PROVE  After
<1>1. PICK F, FN, n, O : Looks(ir, FN, n, O, ir.at) /\ Ledger(genStk, F, FN, n, O, ir.at, fun)
  BY DEF Accounts
<1>2. genStk # <<>> /\ Gen!N.kind = "While" /\ fun' = fun
  BY DEF Gen!VisitWhile, Gen!Visiting, Gen!Context
<1>3. 1 \in 1 .. Gen!Arity /\ 2 \in 1 .. Gen!Arity
  <2>1. Gen!N = Ast[Gen!Top.node] /\ Gen!Top.node \in Node
    BY <1>1, <1>2, OnTop
  <2>2. Gen!Arity = 2
    BY <1>2, <2>1, SyntaxAssumption DEF Arities, Gen!Arity
  <2> QED
    BY <2>2
<1>4. \/ Gen!Top.pc = 0 /\ Gen!EnterLoop
      \/ Gen!Top.pc = 1 /\ Gen!EnterLoopBody
      \/ Gen!Top.pc = 2 /\ Gen!LeaveLoop
  BY DEF Gen!VisitWhile
<1> QED
  BY <1>1, <1>2, <1>3, <1>4, StepEnterLoop, StepLoopBody, StepLeaveLoop

(* Two blocks more and a branch to either; the first of them is next.      *)
LEMMA BranchMade ==
    ASSUME NEW m, NEW FN, NEW n, NEW O, NEW a, Looks(m, FN, n, O, a), a \in O,
           NEW f, FN[a] = f, FN[n + 1] = f, FN[n + 2] = f, NEW v
    PROVE  /\ n \in Nat
           /\ Looks(Gen!SetInsertPoint(
                        Gen!CondBr(Gen!NewBlock(Gen!NewBlock(m, f), f), v, n + 1, n + 2),
                        n + 1),
                    FN, n + 2, (O \ {a}) \union {n + 1, n + 2}, n + 1)
<1> DEFINE m1 == Gen!NewBlock(Gen!NewBlock(m, f), f)
           m2 == Gen!CondBr(m1, v, n + 1, n + 2)
           m3 == Gen!SetInsertPoint(m2, n + 1)
           O1 == O \union {n + 1, n + 2}
<1>1. Looks(m1, FN, n + 2, O1, a)
  BY TwoBlocks
<1>2. n \in Nat /\ O \subseteq 1 .. n
  BY Assigned
<1>3. /\ a \in O1 /\ n + 1 \in 1 .. n + 2 /\ n + 2 \in 1 .. n + 2
      /\ FN[n + 1] = FN[a] /\ FN[n + 2] = FN[a]
  BY <1>2
<1>4. O1 \ {a} = (O \ {a}) \union {n + 1, n + 2}
  BY <1>2
<1> HIDE DEF m1, O1
<1>5. Looks(m2, FN, n + 2, O1 \ {a}, a)
  BY <1>1, <1>3, Forked
<1> HIDE DEF m2
<1>6. Looks(m3, FN, n + 2, O1 \ {a}, n + 1)
  BY <1>5, PointSet
<1> HIDE DEF m3
<1>7. Looks(m3, FN, n + 2, (O \ {a}) \union {n + 1, n + 2}, n + 1)
  BY <1>4, <1>6
<1> QED
  BY <1>2, <1>7 DEF m1, m2, m3

(* The first condition: the merge block is made before the branch.         *)
LEMMA StepFirstBranch ==
    ASSUME NEW F, NEW FN, NEW n, NEW O,
           Looks(ir, FN, n, O, ir.at), Ledger(genStk, F, FN, n, O, ir.at, fun),
           genStk # <<>>, Gen!N.kind = "If", Gen!Top.pc = 1, fun' = fun,
           2 \in 1 .. Gen!Arity, Gen!EnterBranch
    PROVE  After
<1> DEFINE a      == ir.at
           G      == Belongs(FN, n, fun.fn)
           locals == [merge |-> n + 1, next |-> n + 3]
           f      == Gen!Frame(Gen!Top.node, 2, locals, Gen!Top.saved)
           m1     == Gen!ToBool(val)
           v      == m1.last
           m2     == Gen!NewBlock(m1, fun.fn)
           m3     == Gen!SetInsertPoint(
                         Gen!CondBr(Gen!NewBlock(Gen!NewBlock(m2, fun.fn), fun.fn),
                                    v, n + 2, n + 3),
                         n + 2)
           O1     == O \union {n + 1}
           O2     == (O1 \ {a}) \union {n + 2, n + 3}
<1>1. /\ n \in Nat /\ O \subseteq 1 .. n
      /\ \A c \in 1 .. n : G[c] = FN[c]
      /\ G[n + 1] = fun.fn /\ G[n + 2] = fun.fn /\ G[n + 3] = fun.fn
      /\ Looks(ir, G, n, O, a)
  BY Assigned
<1>2. a \in O /\ a \in 1 .. n /\ G[a] = fun.fn /\ Gen!N = Ast[Gen!Top.node]
  BY <1>1, OnTop DEF AtWork, Cur
<1> HIDE DEF G
<1>3. Looks(m1, G, n, O, a)
  BY <1>1, <1>2, ConditionMade
<1>4. Looks(m2, G, n + 1, O1, a) /\ Gen!LastBlock(m1) = n
  <2> HIDE DEF m1
  <2> QED
    BY <1>1, <1>3, BlockAdded
<1>5. Gen!LastBlock(m2) = n + 1 /\ (n + 1) + 1 = n + 2 /\ (n + 1) + 2 = n + 3
      /\ (n + 2) + 1 = n + 3
  BY <1>1, <1>4 DEF Looks, Gen!LastBlock
<1>6. Gen!Go(2, locals, m3)
  BY <1>4, <1>5 DEF Gen!EnterBranch
<1>7. a \in O1
  BY <1>2
<1> HIDE DEF m1, m2, O1, v
<1>8. Looks(m3, G, n + 3, O2, n + 2)
  <2> DEFINE p == n + 1
  <2>1. p + 1 = n + 2 /\ p + 2 = n + 3
    BY <1>5
  <2>2. Looks(m2, G, p, O1, a) /\ G[p + 1] = fun.fn /\ G[p + 2] = fun.fn
    BY <1>1, <1>4, <2>1
  <2> HIDE DEF p
  <2>3. Looks(Gen!SetInsertPoint(
                  Gen!CondBr(Gen!NewBlock(Gen!NewBlock(m2, fun.fn), fun.fn),
                             v, p + 1, p + 2),
                  p + 1),
              G, p + 2, (O1 \ {a}) \union {p + 1, p + 2}, p + 1)
    BY <1>2, <1>7, <2>2, BranchMade
  <2> QED
    BY <2>1, <2>3
<1> HIDE DEF m3
<1>9. f.node = Gen!Top.node /\ f.pc = 2 /\ f.own = locals
      /\ locals.merge = n + 1 /\ locals.next = n + 3
  BY DEF Gen!Frame
<1>10. f = Gen!Frame(Gen!Top.node, 2, locals, Gen!Top.saved)
  OBVIOUS
<1> HIDE DEF f, locals
<1>11. /\ ~ Generates(f) /\ ~ Tests(f) /\ ~ Repeats(f)
       /\ Owes(f) = {n + 1, n + 3}
  BY <1>2, <1>9 DEF Generates, HoldsFunction, Joins, Connects, Branches, Chooses,
                    Tests, Repeats, Owes
<1>12. Owes(Gen!Top) = {} /\ ~ Generates(Gen!Top)
  BY <1>2 DEF Generates, HoldsFunction, Joins, Connects, Branches, Chooses,
              Tests, Repeats, Owes
<1>13. O2 = (O \ (Owes(Gen!Top) \union {a})) \union Owes(f) \union {n + 2}
  <2>1. O2 = (O \ {a}) \union {n + 1, n + 3} \union {n + 2}
    BY <1>1, <1>2 DEF O1
  <2> QED
    BY <1>11, <1>12, <2>1
<1>14. n + 2 \notin Owes(f)
  BY <1>1, <1>11
<1>15. \A c \in Owes(f) \union {n + 2} :
           /\ G[c] = fun.fn
           /\ c \in Owes(Gen!Top) \/ c = a \/ c \in n + 1 .. n + 3
  BY <1>1, <1>11
<1>16. Minds(f, fun, n + 3, G)
  BY <1>1, <1>9, <1>11 DEF Minds
<1>17. n + 3 \in Nat /\ n <= n + 3
  BY <1>1
<1> HIDE DEF O2
<1>18. Turn(n, FN, O, Owes(Gen!Top) \union {a}, n + 3, G, O2, Owes(f), n + 2)
  BY <1>1, <1>13, <1>14, <1>15, <1>17 DEF Turn
<1> QED
  BY <1>6, <1>8, <1>10, <1>11, <1>12, <1>16, <1>17, <1>18, Turns

(* A further condition, in the block that was kept for it.                 *)
LEMMA StepNextBranch ==
    ASSUME NEW F, NEW FN, NEW n, NEW O,
           Looks(ir, FN, n, O, ir.at), Ledger(genStk, F, FN, n, O, ir.at, fun),
           genStk # <<>>, Chooses(Gen!Top), fun' = fun,
           Gen!Top.pc + 1 \in 1 .. Gen!Arity, Gen!EnterBranch
    PROVE  After
<1> DEFINE a      == ir.at
           g      == Gen!Top.own.merge
           k      == Gen!Top.pc + 1
           G      == Belongs(FN, n, fun.fn)
           locals == [merge |-> g, next |-> n + 2]
           f      == Gen!Frame(Gen!Top.node, k, locals, Gen!Top.saved)
           m1     == Gen!ToBool(val)
           v      == m1.last
           m2     == Gen!SetInsertPoint(
                         Gen!CondBr(Gen!NewBlock(Gen!NewBlock(m1, fun.fn), fun.fn),
                                    v, n + 1, n + 2),
                         n + 1)
           O2     == (O \ {a}) \union {n + 1, n + 2}
<1>1. /\ n \in Nat /\ O \subseteq 1 .. n
      /\ \A c \in 1 .. n : G[c] = FN[c]
      /\ G[n + 1] = fun.fn /\ G[n + 2] = fun.fn
      /\ Looks(ir, G, n, O, a)
  BY Assigned
<1>2. /\ ~ Generates(Gen!Top) /\ Owes(Gen!Top) = {g}
      /\ Ast[Gen!Top.node].kind = "If" /\ Gen!Top.pc > 1 /\ Gen!Top.pc % 2 = 1
  BY DEF Generates, HoldsFunction, Joins, Connects, Branches, Chooses, Owes
<1>3. /\ Account(Gen!Top, F[Len(genStk)], fun, n, FN, O)
      /\ F[Len(genStk)] = fun
      /\ AtWork(a, fun, FN, O) /\ Gen!Top.pc \in Nat
      /\ \A c \in Owes(Gen!Top) : c \notin Cur(a, fun)
  BY <1>2, OnTop
<1>4. /\ a \in O /\ a \in 1 .. n /\ G[a] = fun.fn
      /\ g \in O /\ g \in 1 .. n /\ G[g] = fun.fn /\ g # a
  BY <1>1, <1>2, <1>3 DEF Account, AtWork, Cur
<1>5. Looks(m1, G, n, O, a)
  BY <1>1, <1>4, ConditionMade
<1>6. Gen!LastBlock(m1) = n /\ (n + 1) + 1 = n + 2
  BY <1>1, <1>5 DEF Looks, Gen!LastBlock
<1>7. Gen!Go(k, locals, m2)
  BY <1>2, <1>6 DEF Gen!EnterBranch
<1> HIDE DEF G, m1, v
<1>8. Looks(m2, G, n + 2, O2, n + 1)
  BY <1>1, <1>4, <1>5, BranchMade
<1> HIDE DEF m2
<1>9. /\ f.node = Gen!Top.node /\ f.pc = k /\ f.own = locals
      /\ locals.merge = g /\ locals.next = n + 2
  BY DEF Gen!Frame
<1>10. f = Gen!Frame(Gen!Top.node, k, locals, Gen!Top.saved)
  OBVIOUS
<1>11. k > 0 /\ k % 2 = 0
  BY <1>2, <1>3
<1>12. k \in 1 .. Gen!Arity
  OBVIOUS
<1> HIDE DEF f, locals, k, g
<1>13. /\ ~ Generates(f) /\ ~ Tests(f) /\ ~ Repeats(f)
       /\ Owes(f) = {g, n + 2}
  BY <1>2, <1>9, <1>11 DEF Generates, HoldsFunction, Joins, Connects, Branches, Chooses,
                           Tests, Repeats, Owes
<1>14. O2 = (O \ (Owes(Gen!Top) \union {a})) \union Owes(f) \union {n + 1}
  <2>1. O2 = (O \ ({g} \union {a})) \union {g, n + 2} \union {n + 1}
    BY <1>4
  <2> QED
    BY <1>2, <1>13, <2>1
<1>15. n + 1 \notin Owes(f)
  BY <1>1, <1>4, <1>13
<1>16. \A c \in Owes(f) \union {n + 1} :
           /\ G[c] = fun.fn
           /\ c \in Owes(Gen!Top) \/ c = a \/ c \in n + 1 .. n + 2
  BY <1>1, <1>2, <1>4, <1>13
<1>17. Minds(f, fun, n + 2, G)
  BY <1>1, <1>4, <1>9, <1>13 DEF Minds
<1>18. n + 2 \in Nat /\ n <= n + 2
  BY <1>1
<1> HIDE DEF O2
<1>19. Turn(n, FN, O, Owes(Gen!Top) \union {a}, n + 2, G, O2, Owes(f), n + 1)
  BY <1>1, <1>14, <1>15, <1>16, <1>18 DEF Turn
<1> QED
  BY <1>2, <1>7, <1>8, <1>10, <1>12, <1>13, <1>17, <1>18, <1>19, Turns

(* The end of a branch: to the merge block, and on in the block kept for   *)
(* what comes next.                                                        *)
LEMMA StepLeaveBranch ==
    ASSUME NEW F, NEW FN, NEW n, NEW O,
           Looks(ir, FN, n, O, ir.at), Ledger(genStk, F, FN, n, O, ir.at, fun),
           genStk # <<>>, Branches(Gen!Top), fun' = fun, Gen!LeaveBranch
    PROVE  After
<1> DEFINE a  == ir.at
           g  == Gen!Top.own.merge
           x  == Gen!Top.own.next
           k  == Gen!Top.pc + 1
           m1 == Gen!Br(ir, g)
           m2 == Gen!SetInsertPoint(m1, x)
           m3 == Gen!Br(m2, g)
           m4 == Gen!SetInsertPoint(m3, g)
           O2 == O \ {a}
           O3 == O2 \ {x}
<1>1. /\ ~ Generates(Gen!Top) /\ Owes(Gen!Top) = {g, x}
      /\ Ast[Gen!Top.node].kind = "If" /\ Gen!Top.pc > 0 /\ Gen!Top.pc % 2 = 0
  BY DEF Generates, HoldsFunction, Joins, Connects, Branches, Chooses, Owes
<1>2. /\ Account(Gen!Top, F[Len(genStk)], fun, n, FN, O)
      /\ F[Len(genStk)] = fun /\ n \in Nat /\ O \subseteq 1 .. n
      /\ AtWork(a, fun, FN, O) /\ Gen!Top.pc \in Nat
      /\ \A c \in Owes(Gen!Top) : c \notin Cur(a, fun)
      /\ Gen!Top.node \in Node /\ Gen!N = Ast[Gen!Top.node]
  BY <1>1, OnTop
<1>3. g # x
  BY <1>2 DEF Account, Minds
<1>4. /\ a \in O /\ FN[a] = fun.fn
      /\ g \in O /\ g \in 1 .. n /\ FN[g] = fun.fn /\ g # a
      /\ x \in O /\ x \in 1 .. n /\ FN[x] = fun.fn /\ x # a
  BY <1>1, <1>2 DEF Account, AtWork, Cur
<1>5. \/ Gen!Top.pc < Gen!Arity /\ Gen!Go(k, Gen!Top.own, Gen!SetInsertPoint(
             Gen!BrUnlessTerminated(ir, g), x))
      \/ Gen!Finish(Gen!SetInsertPoint(Gen!Br(Gen!SetInsertPoint(
             Gen!BrUnlessTerminated(ir, g), x), g), g), Gen!NullValue)
  BY DEF Gen!LeaveBranch
<1> HIDE DEF g, x
<1>6. Looks(m1, FN, n, O2, a) /\ Gen!BrUnlessTerminated(ir, g) = m1
  BY <1>4, Branched
<1>7. \/ Gen!Top.pc < Gen!Arity /\ Gen!Go(k, Gen!Top.own, m2)
      \/ Gen!Finish(m4, Gen!NullValue)
  BY <1>5, <1>6
<1> HIDE DEF m1
<1>8. Looks(m2, FN, n, O2, x)
  BY <1>6, PointSet
<1>9. x \in O2 /\ FN[x] = FN[g]
  BY <1>4
<1> HIDE DEF m2, O2
<1>10. Looks(m3, FN, n, O3, x)
  BY <1>4, <1>8, <1>9, Branched
<1> HIDE DEF m3
<1>11. Looks(m4, FN, n, O3, g)
  BY <1>10, PointSet
<1> HIDE DEF m4
<1>12. CASE Gen!Top.pc < Gen!Arity /\ Gen!Go(k, Gen!Top.own, m2)
  <2> DEFINE locals == Gen!Top.own
             f == Gen!Frame(Gen!Top.node, k, locals, Gen!Top.saved)
  <2>1. f.node = Gen!Top.node /\ f.pc = k /\ f.own = locals /\ locals.merge = g
    BY DEF Gen!Frame, g
  <2>2. f = Gen!Frame(Gen!Top.node, k, locals, Gen!Top.saved)
    OBVIOUS
  <2>3. k > 1 /\ k % 2 = 1
    BY <1>1, <1>2
  <2>4. k \in 1 .. Gen!Arity
    <3>1. Gen!Arity \in Nat
      BY <1>2, SyntaxAssumption, LenProperties DEF Gen!Arity
    <3> QED
      BY <1>2, <1>12, <3>1
  <2>5. Gen!Go(k, locals, m2)
    BY <1>12
  <2> HIDE DEF f, locals, k
  <2>6. /\ ~ Generates(f) /\ ~ Branches(f) /\ ~ Tests(f) /\ ~ Repeats(f)
        /\ Owes(f) = {g}
    BY <1>1, <2>1, <2>3 DEF Generates, HoldsFunction, Joins, Connects, Branches,
                            Chooses, Tests, Repeats, Owes
  <2>7. O2 = (O \ (Owes(Gen!Top) \union {a})) \union Owes(f) \union {x}
    <3>1. O2 = (O \ ({g, x} \union {a})) \union {g} \union {x}
      BY <1>4 DEF O2
    <3> QED
      BY <1>1, <2>6, <3>1
  <2>8. x \notin Owes(f)
    BY <1>3, <2>6
  <2>9. \A c \in Owes(f) \union {x} :
            /\ FN[c] = fun.fn
            /\ c \in Owes(Gen!Top) \/ c = a \/ c \in n + 1 .. n
    BY <1>1, <1>4, <2>6
  <2>10. Minds(f, fun, n, FN)
    BY <2>6 DEF Minds
  <2>11. n <= n
    BY <1>2
  <2>12. Turn(n, FN, O, Owes(Gen!Top) \union {a}, n, FN, O2, Owes(f), x)
    BY <2>7, <2>8, <2>9, <2>11 DEF Turn
  <2> QED
    BY <1>1, <1>2, <1>8, <2>2, <2>4, <2>5, <2>6, <2>10, <2>12, Turns
<1>13. CASE Gen!Finish(m4, Gen!NullValue)
  <2>1. g \in Owes(Gen!Top) /\ O3 = (O \ (Owes(Gen!Top) \union {a})) \union {g}
    <3>1. O3 = (O \ ({g, x} \union {a})) \union {g}
      BY <1>3, <1>4 DEF O2
    <3> QED
      BY <1>1, <3>1
  <2> HIDE DEF O3
  <2> QED
    BY <1>1, <1>11, <1>13, <2>1, Settles
<1> QED
  BY <1>7, <1>12, <1>13

(* The end of an else part.                                                *)
LEMMA StepLeaveElse ==
    ASSUME NEW F, NEW FN, NEW n, NEW O,
           Looks(ir, FN, n, O, ir.at), Ledger(genStk, F, FN, n, O, ir.at, fun),
           genStk # <<>>, Chooses(Gen!Top), fun' = fun, Gen!LeaveElse
    PROVE  After
<1> DEFINE a  == ir.at
           g  == Gen!Top.own.merge
           m1 == Gen!Br(ir, g)
           m2 == Gen!SetInsertPoint(m1, g)
           O2 == O \ {a}
<1>1. ~ Generates(Gen!Top) /\ Owes(Gen!Top) = {g}
  BY DEF Generates, HoldsFunction, Joins, Connects, Branches, Chooses, Owes
<1>2. /\ Account(Gen!Top, F[Len(genStk)], fun, n, FN, O)
      /\ F[Len(genStk)] = fun /\ n \in Nat /\ O \subseteq 1 .. n
      /\ AtWork(a, fun, FN, O)
      /\ \A c \in Owes(Gen!Top) : c \notin Cur(a, fun)
  BY <1>1, OnTop
<1>3. /\ a \in O /\ FN[a] = fun.fn
      /\ g \in O /\ g \in 1 .. n /\ FN[g] = fun.fn /\ g # a
  BY <1>1, <1>2 DEF Account, AtWork, Cur
<1>4. Looks(m1, FN, n, O2, a) /\ Gen!BrUnlessTerminated(ir, g) = m1
  BY <1>3, Branched
<1>5. Gen!Finish(m2, Gen!NullValue)
  BY <1>4 DEF Gen!LeaveElse
<1> HIDE DEF m1, g
<1>6. Looks(m2, FN, n, O2, g)
  BY <1>4, PointSet
<1>7. g \in Owes(Gen!Top) /\ O2 = (O \ (Owes(Gen!Top) \union {a})) \union {g}
  BY <1>1, <1>3
<1> HIDE DEF m2, O2
<1> QED
  BY <1>1, <1>5, <1>6, <1>7, Settles

(* visit(IfStmt).                                                          *)
LEMMA StepIf ==
    ASSUME Accounts(genStk, ir, fun), Gen!VisitIf
    PROVE  After
<1>1. PICK F, FN, n, O : Looks(ir, FN, n, O, ir.at) /\ Ledger(genStk, F, FN, n, O, ir.at, fun)
  BY DEF Accounts
<1>2. genStk # <<>> /\ Gen!N.kind = "If" /\ fun' = fun
  BY DEF Gen!VisitIf, Gen!Visiting, Gen!Context
<1>3. Gen!N = Ast[Gen!Top.node] /\ Gen!Top.node \in Node /\ Gen!Top.pc \in Nat
  BY <1>1, <1>2, OnTop
<1>4. Gen!Arity \in Nat \ {0, 1}
  BY <1>2, <1>3, SyntaxAssumption DEF Arities, Gen!Arity
<1>5. \/ Gen!Top.pc = 0 /\ Gen!Go(1, <<>>, ir)
      \/ Gen!Top.pc % 2 = 1 /\ Gen!Top.pc < Gen!Arity /\ Gen!EnterBranch
      \/ Gen!Top.pc > 0 /\ Gen!Top.pc % 2 = 0 /\ Gen!LeaveBranch
      \/ Gen!Top.pc % 2 = 1 /\ Gen!Top.pc = Gen!Arity /\ Gen!LeaveElse
  BY DEF Gen!VisitIf, Gen!IsCondition
<1>6. CASE Gen!Top.pc = 0 /\ Gen!Go(1, <<>>, ir)
  <2> DEFINE f == Gen!Frame(Gen!Top.node, 1, <<>>, Gen!Top.saved)
  <2>1. f.node = Gen!Top.node /\ f.pc = 1
    BY DEF Gen!Frame
  <2>2. Idle(f)
    BY <1>2, <1>3, <2>1 DEF Idle, Generates, HoldsFunction, Joins, Connects, Branches,
                            Chooses, Tests, Repeats
  <2>3. Idle(Gen!Top)
    BY <1>6, PlainIdle
  <2>4. 1 \in 1 .. Gen!Arity
    BY <1>4
  <2> QED
    BY <1>1, <1>2, <1>6, <2>2, <2>3, <2>4, IdleGo
<1>7. CASE Gen!Top.pc % 2 = 1 /\ Gen!Top.pc < Gen!Arity /\ Gen!EnterBranch
  <2>1. CASE Gen!Top.pc = 1
    <3>1. 2 \in 1 .. Gen!Arity
      BY <1>4
    <3> QED
      BY <1>1, <1>2, <1>7, <2>1, <3>1, StepFirstBranch
  <2>2. CASE Gen!Top.pc # 1
    <3>1. Gen!Top.pc + 1 \in 1 .. Gen!Arity /\ Gen!Top.pc > 1
      BY <1>3, <1>4, <1>7, <2>2
    <3>2. Chooses(Gen!Top)
      BY <1>2, <1>3, <1>7, <3>1 DEF Chooses
    <3> QED
      BY <1>1, <1>2, <1>7, <3>1, <3>2, StepNextBranch
  <2> QED
    BY <2>1, <2>2
<1>8. CASE Gen!Top.pc > 0 /\ Gen!Top.pc % 2 = 0 /\ Gen!LeaveBranch
  <2>1. Branches(Gen!Top)
    BY <1>2, <1>3, <1>8 DEF Branches
  <2> QED
    BY <1>1, <1>2, <1>8, <2>1, StepLeaveBranch
<1>9. CASE Gen!Top.pc % 2 = 1 /\ Gen!Top.pc = Gen!Arity /\ Gen!LeaveElse
  <2>1. Chooses(Gen!Top)
    BY <1>2, <1>3, <1>4, <1>9 DEF Chooses
  <2> QED
    BY <1>1, <1>2, <1>9, <2>1, StepLeaveElse
<1> QED
  BY <1>5, <1>6, <1>7, <1>8, <1>9

-----------------------------------------------------------------------------
(* The slots of a function's parameters, one after the other.  What a      *)
(* recursive function on 0 .. k is, and that each of its values keeps the  *)
(* module in order, is shown by the least number for which it fails.       *)

NoSlot(m, H) == [ir |-> m, syms |-> H, names |-> {}, number |-> 0]

NextSlot(b, i, f, params) == Gen!Slot(b, f, params[i], i)

Slots(g, k, m, f, H, params) ==
    g = [i \in 0 .. k |-> IF i = 0 THEN NoSlot(m, H)
                          ELSE NextSlot(g[i - 1], i, f, params)]

(* beginFn has what the loop over the parameters yields in the end.        *)
LEMMA SlotsChosen ==
    ASSUME NEW m, NEW f, NEW H, NEW params
    PROVE  Gen!ParamSlots(m, f, H, params) =
               (CHOOSE g : Slots(g, Len(params), m, f, H, params))[Len(params)]
BY DEF Gen!ParamSlots, Slots, NextSlot, NoSlot

(* That loop yields something after every turn, by the least turn for      *)
(* which it does not.                                                      *)
LEMMA SlotsExist ==
    ASSUME NEW m, NEW f, NEW H, NEW params, NEW k \in Nat
    PROVE  \E g : Slots(g, k, m, f, H, params)
<1> DEFINE T == {i \in Nat : ~ \E g : Slots(g, i, m, f, H, params)}
<1>1. SUFFICES ASSUME T # {} PROVE FALSE
  OBVIOUS
<1>2. PICK x \in T : \A y \in T : x <= y
  BY <1>1, LeastNumber
<1>3. x \in Nat /\ ~ \E g : Slots(g, x, m, f, H, params)
  BY <1>2
<1>4. CASE x = 0
  <2> DEFINE g == [i \in 0 .. 0 |-> NoSlot(m, H)]
  <2>1. g = [i \in 0 .. 0 |-> IF i = 0 THEN NoSlot(m, H)
                              ELSE NextSlot(g[i - 1], i, f, params)]
    OBVIOUS
  <2>2. Slots(g, 0, m, f, H, params)
    BY <2>1 DEF Slots
  <2> QED
    BY <1>3, <1>4, <2>2
<1>5. CASE x # 0
  <2>1. x - 1 \in Nat /\ ~ (x <= x - 1)
    BY <1>3, <1>5
  <2>2. x - 1 \notin T
    BY <1>2, <2>1
  <2>3. PICK h : Slots(h, x - 1, m, f, H, params)
    BY <2>1, <2>2
  <2> HIDE DEF T
  <2> DEFINE g == [i \in 0 .. x |-> IF i < x THEN h[i] ELSE NextSlot(h[x - 1], x, f, params)]
             step(e, i) == IF i = 0 THEN NoSlot(m, H)
                           ELSE NextSlot(e, i, f, params)
  <2>4. \A i \in 0 .. x - 1 : h[i] = step(h[i - 1], i)
    BY <2>3 DEF Slots
  <2>5. \A i \in 0 .. x : g[i] = IF i < x THEN h[i] ELSE NextSlot(h[x - 1], x, f, params)
    OBVIOUS
  <2>6. \A i \in 0 .. x : g[i] = step(g[i - 1], i)
    <3> TAKE i \in 0 .. x
    <3>1. CASE i = 0
      BY <1>3, <1>5, <2>4, <2>5, <3>1
    <3>2. CASE i \in 1 .. x - 1
      <4>1. i \in 0 .. x - 1 /\ i < x /\ i - 1 \in 0 .. x /\ i - 1 < x /\ i # 0
        BY <1>3, <3>2
      <4>2. g[i] = h[i] /\ g[i - 1] = h[i - 1]
        BY <2>5, <4>1
      <4> HIDE DEF g
      <4> QED
        BY <2>4, <4>1, <4>2
    <3>3. CASE i = x
      <4>1. x - 1 \in 0 .. x /\ x - 1 < x /\ ~ (x < x) /\ x \in 0 .. x
        BY <1>3, <1>5
      <4>2. g[x] = NextSlot(h[x - 1], x, f, params) /\ g[x - 1] = h[x - 1]
        BY <2>5, <4>1
      <4> HIDE DEF g
      <4> QED
        BY <1>5, <3>3, <4>2
    <3> QED
      BY <1>3, <3>1, <3>2, <3>3
  <2>7. g = [i \in 0 .. x |-> g[i]]
    OBVIOUS
  <2> HIDE DEF g
  <2>8. g = [i \in 0 .. x |-> step(g[i - 1], i)]
    BY <2>6, <2>7
  <2>9. Slots(g, x, m, f, H, params)
    BY <2>8 DEF Slots
  <2> QED
    BY <1>3, <2>9
<1> QED
  BY <1>4, <1>5

(* A slot for a parameter, and the store of its argument.                  *)
LEMMA SlotMade ==
    ASSUME NEW b, NEW FN, NEW n, NEW O, NEW a, Looks(b.ir, FN, n, O, a), a \in O,
           NEW i, NEW f, NEW params
    PROVE  Looks(NextSlot(b, i, f, params).ir, FN, n, O, a)
<1> DEFINE t    == Gen!LLVMType(Gen!resolveTypeName(params[i].type))
           slot == Gen!Alloca(b.ir, f, t)
           m    == Gen!Store(slot, Gen!Argument(t, i), slot.last)
<1>1. NextSlot(b, i, f, params).ir = m
  BY DEF NextSlot, Gen!Slot
<1> HIDE DEF t
<1>3. Looks(slot, FN, n, O, a)
  BY Allocated
<1> HIDE DEF slot
<1>4. Looks(m, FN, n, O, a)
  BY <1>3, Stored
<1> QED
  BY <1>1, <1>4

(* All parameters have slots, by the first that has none.                  *)
LEMMA ParametersStored ==
    ASSUME NEW m, NEW FN, NEW n, NEW O, NEW a, Looks(m, FN, n, O, a), a \in O,
           NEW f, NEW H, NEW params, Len(params) \in Nat
    PROVE  Looks(Gen!ParamSlots(m, f, H, params).ir, FN, n, O, a)
<1> DEFINE k == Len(params)
           g == CHOOSE g : Slots(g, k, m, f, H, params)
           T == {i \in 0 .. k : ~ Looks(g[i].ir, FN, n, O, a)}
<1>1. Slots(g, k, m, f, H, params)
  BY SlotsExist
<1>2. Gen!ParamSlots(m, f, H, params) = g[k]
  BY SlotsChosen
<1> HIDE DEF g, k
<1>3. k \in Nat
  BY DEF k
<1>4. g[0].ir = m
  BY <1>1, <1>3 DEF Slots, NoSlot
<1>5. \A i \in 1 .. k : g[i] = NextSlot(g[i - 1], i, f, params)
  BY <1>1, <1>3 DEF Slots
<1>6. ASSUME T # {} PROVE FALSE
  <2>1. PICK x \in T : \A y \in T : x <= y
    <3>1. T \subseteq Nat
      BY <1>3
    <3> HIDE DEF T
    <3> QED
      BY <1>6, <3>1, LeastNumber
  <2>2. x # 0 /\ x \in 0 .. k /\ ~ Looks(g[x].ir, FN, n, O, a)
    BY <1>4, <2>1
  <2>3. x \in 1 .. k /\ x - 1 \in 0 .. k /\ ~ (x <= x - 1)
    BY <1>3, <2>2
  <2>4. Looks(g[x - 1].ir, FN, n, O, a)
    BY <2>1, <2>3
  <2> HIDE DEF T
  <2>5. Looks(NextSlot(g[x - 1], x, f, params).ir, FN, n, O, a)
    BY <2>4, SlotMade
  <2> QED
    BY <1>5, <2>2, <2>3, <2>5
<1>7. k \in 0 .. k
  BY <1>3
<1> QED
  BY <1>2, <1>6, <1>7

-----------------------------------------------------------------------------
(* The beginning and the end of a function.                                *)

(* An entry block, and a return block unless the function returns nothing: *)
(* new blocks, in which the generator is then at work.                     *)
Begun(body, ret, f, FN, n, O, n2) ==
    /\ n2 \in Nat /\ n <= n2
    /\ Looks(body.ir, FN, n2, O \union Cur(n + 1, body.fun), n + 1)
    /\ body.fun.fn = f
    /\ n + 1 \notin Ret(body.fun)
    /\ \A b \in Cur(n + 1, body.fun) : b \in n + 1 .. n2 /\ FN[b] = f
    /\ body.fun.retBlock = 0 => ret = Gen!Void

(* The slot for the result, and the return block.                          *)
LEMMA ReturnSlotMade ==
    ASSUME NEW m, NEW FN, NEW n \in Nat, NEW O, Looks(m, FN, n + 1, O \union {n + 1}, n + 1),
           NEW f, FN[n + 1] = f, FN[n + 2] = f, NEW ret
    PROVE  \E n2 : Begun(Gen!ReturnSlot(m, f, ret), ret, f, FN, n, O, n2)
<1> DEFINE body == Gen!ReturnSlot(m, f, ret)
           O1   == O \union {n + 1}
<1>1. CASE ret = Gen!Void
  <2>1. body.ir = m /\ body.fun.fn = f /\ body.fun.retBlock = 0
    BY <1>1 DEF Gen!ReturnSlot, Gen!NoFunction
  <2> HIDE DEF body
  <2>2. Ret(body.fun) = {} /\ Cur(n + 1, body.fun) = {n + 1}
    BY <2>1 DEF Ret, Cur
  <2>3. n + 1 \in Nat /\ n <= n + 1 /\ n + 1 \in n + 1 .. n + 1
    OBVIOUS
  <2>4. Begun(body, ret, f, FN, n, O, n + 1)
    BY <1>1, <2>1, <2>2, <2>3 DEF Begun
  <2> QED
    BY <2>4 DEF body
<1>2. CASE ret # Gen!Void
  <2> DEFINE t    == Gen!LLVMType(ret)
             slot == Gen!Alloca(m, f, t)
             m1   == Gen!Store(slot, Gen!NullConstant(t), slot.last)
             m2   == Gen!NewBlock(m1, f)
  <2>1. body = [ir |-> m2, fun |-> [fn |-> f, retBlock |-> Gen!LastBlock(m2),
                                    retAlloca |-> slot.last]]
    BY <1>2 DEF Gen!ReturnSlot
  <2>2. body.ir = m2 /\ body.fun.fn = f /\ body.fun.retBlock = Gen!LastBlock(m2)
    BY <2>1
  <2> HIDE DEF t, body
  <2>3. Looks(slot, FN, n + 1, O1, n + 1)
    BY Allocated
  <2>4. n + 1 \in O1
    OBVIOUS
  <2> HIDE DEF slot, O1
  <2>5. Looks(m1, FN, n + 1, O1, n + 1)
    BY <2>3, <2>4, Stored
  <2> HIDE DEF m1
  <2>6. Looks(m2, FN, n + 2, O1 \union {n + 2}, n + 1)
    <3>1. (n + 1) + 1 = n + 2
      OBVIOUS
    <3>2. FN[(n + 1) + 1] = f
      BY <3>1
    <3>3. Looks(m2, FN, (n + 1) + 1, O1 \union {(n + 1) + 1}, n + 1)
      BY <2>5, <3>2, BlockAdded
    <3> QED
      BY <3>1, <3>3
  <2>7. Gen!LastBlock(m2) = n + 2
    BY <2>6 DEF Looks, Gen!LastBlock
  <2> HIDE DEF m2
  <2>8. Ret(body.fun) = {n + 2} /\ Cur(n + 1, body.fun) = {n + 1, n + 2}
    BY <2>2, <2>7 DEF Ret, Cur
  <2>9. O1 \union {n + 2} = O \union {n + 1, n + 2}
    BY DEF O1
  <2>10. Looks(body.ir, FN, n + 2, O \union Cur(n + 1, body.fun), n + 1)
    BY <2>2, <2>6, <2>8, <2>9
  <2>11. n + 1 \notin Ret(body.fun) /\ body.fun.retBlock # 0
    BY <2>2, <2>7, <2>8
  <2>12. \A b \in Cur(n + 1, body.fun) : b \in n + 1 .. n + 2 /\ FN[b] = f
    BY <2>8
  <2>13. n + 2 \in Nat /\ n <= n + 2
    OBVIOUS
  <2>14. Begun(body, ret, f, FN, n, O, n + 2)
    BY <2>2, <2>10, <2>11, <2>12, <2>13 DEF Begun
  <2> QED
    BY <2>14 DEF body
<1> QED
  BY <1>1, <1>2

(* beginFn: a new function with an open entry block and an open return     *)
(* block.                                                                  *)
LEMMA FunctionBegun ==
    ASSUME NEW m, NEW FN, NEW n, NEW O, NEW a, Looks(m, FN, n, O, a),
           NEW f, FN[n + 1] = f, FN[n + 2] = f,
           NEW H, NEW ret, NEW params, Len(params) \in Nat
    PROVE  \E n2 : Begun(Gen!beginFn(m, H, f, ret, params), ret, f, FN, n, O, n2)
<1> DEFINE entry == Gen!NewBlock(m, f)
           m1    == Gen!SetInsertPoint(entry, n + 1)
           slots == Gen!ParamSlots(m1, f, H, params)
           body  == Gen!ReturnSlot(slots.ir, f, ret)
           begun == Gen!beginFn(m, H, f, ret, params)
           O1    == O \union {n + 1}
<1>1. n \in Nat /\ Looks(entry, FN, n + 1, O1, a)
  BY BlockAdded
<1>2. Gen!LastBlock(entry) = n + 1
  BY <1>1 DEF Looks, Gen!LastBlock
<1>3. begun.ir = body.ir /\ begun.fun = body.fun
  <2>1. begun = [ir |-> body.ir, fun |-> body.fun, syms |-> slots.syms]
    BY <1>2 DEF Gen!beginFn
  <2> HIDE DEF begun, body, slots
  <2> QED
    BY <2>1
<1>4. n + 1 \in O1
  OBVIOUS
<1> HIDE DEF entry, begun
<1>5. Looks(m1, FN, n + 1, O1, n + 1)
  BY <1>1, PointSet
<1> HIDE DEF m1, O1
<1>6. Looks(slots.ir, FN, n + 1, O1, n + 1)
  BY <1>4, <1>5, ParametersStored
<1> HIDE DEF slots
<1>7. Looks(slots.ir, FN, n + 1, O \union {n + 1}, n + 1)
  BY <1>6 DEF O1
<1>8. \E n2 : Begun(body, ret, f, FN, n, O, n2)
  BY <1>1, <1>7, ReturnSlotMade
<1> HIDE DEF body
<1>9. \E n2 : Begun(begun, ret, f, FN, n, O, n2)
  BY <1>3, <1>8 DEF Begun
<1> QED
  BY <1>9 DEF begun

(* The block the generator is in and the return block are both closed.     *)
LEMMA FunctionFinished ==
    ASSUME NEW FN, NEW n, NEW O, Looks(ir, FN, n, O, ir.at),
           AtWork(ir.at, fun, FN, O), NEW v, NEW ret,
           fun.retBlock = 0 => ret = Gen!Void
    PROVE  \E b : Looks(Gen!finishFn(ir, v, ret), FN, n, O \ Cur(ir.at, fun), b)
<1> DEFINE a    == ir.at
           rb   == fun.retBlock
           w    == IF v # Gen!NullValue /\ Gen!Tid(v) = Gen!LLVMType(ret)
                   THEN Gen!Store(ir, v, fun.retAlloca) ELSE ir
           done == Gen!ImplicitReturn(ir, v, ret)
           t    == Gen!LLVMType(ret)
           m1   == Gen!SetInsertPoint(done, rb)
           m2   == Gen!Load(m1, t, fun.retAlloca)
           m3   == Gen!Emit(m2, "ret", Gen!Void, <<m2.last>>, <<>>)
           O1   == O \ {a}
<1>1. O \subseteq 1 .. n
  BY Assigned
<1>2. /\ a \in O /\ FN[a] = fun.fn
      /\ \A b \in Ret(fun) : b \in O /\ b # a /\ b \in 1 .. n /\ FN[b] = fun.fn
  BY <1>1 DEF AtWork, Cur
<1>3. ~ Gen!Terminated(ir, ir.at)
  BY <1>1, <1>2 DEF Looks, Gen!Terminated, Ends
<1>4. Gen!finishFn(ir, v, ret) = IF rb = 0 THEN done ELSE m3
  BY <1>3 DEF Gen!finishFn
<1>5. Looks(w, FN, n, O, a)
  BY <1>2, Stored
<1>6. Looks(done, FN, n, O1, a)
  <2>1. CASE ret = Gen!Void
    <3> DEFINE none == <<>>
    <3>1. done = Gen!Emit(ir, "ret", Gen!Void, none, <<>>)
      BY <2>1 DEF Gen!ImplicitReturn
    <3> HIDE DEF done, none
    <3> QED
      BY <1>2, <3>1, Returns
  <2>2. CASE ret # Gen!Void
    <3>1. done = Gen!Br(w, rb)
      BY <2>2 DEF Gen!ImplicitReturn
    <3>2. rb \in 1 .. n /\ FN[rb] = FN[a]
      BY <1>2, <2>2 DEF Ret
    <3> HIDE DEF done, w, rb
    <3> QED
      BY <1>2, <1>5, <3>1, <3>2, Branched
  <2> QED
    BY <2>1, <2>2
<1> HIDE DEF done, w
<1>7. CASE rb = 0
  <2>1. O1 = O \ Cur(a, fun)
    BY <1>7 DEF Cur, Ret
  <2> HIDE DEF O1
  <2> QED
    BY <1>4, <1>6, <1>7, <2>1
<1>8. CASE rb # 0
  <2>1. rb \in O1 /\ O1 \ {rb} = O \ Cur(a, fun)
    BY <1>2, <1>8 DEF Cur, Ret
  <2> HIDE DEF O1, t, rb
  <2>2. Looks(m1, FN, n, O1, rb)
    BY <1>6, PointSet
  <2> HIDE DEF m1
  <2>3. Looks(m2, FN, n, O1, rb)
    BY <2>1, <2>2, Loaded
  <2> DEFINE args == <<m2.last>>
  <2>4. m3 = Gen!Emit(m2, "ret", Gen!Void, args, <<>>)
    OBVIOUS
  <2> HIDE DEF m2, m3, args
  <2>5. Looks(m3, FN, n, O1 \ {rb}, rb)
    BY <2>1, <2>3, <2>4, Returns
  <2> QED
    BY <1>4, <1>8, <2>1, <2>5
<1> QED
  BY <1>7, <1>8

(* A nested function: its visitor keeps the block and the function the     *)
(* generator was in.                                                       *)
LEMMA StepEnterFunction ==
    ASSUME NEW F, NEW FN, NEW n, NEW O,
           Looks(ir, FN, n, O, ir.at), Ledger(genStk, F, FN, n, O, ir.at, fun),
           genStk # <<>>, HoldsFunction(Gen!Top.node), Gen!Top.pc = 0,
           NEW lit, lit = Literal(Gen!Top.node), IsFunctionLiteral(lit),
           NEW m, NEW H, \A G : Looks(ir, G, n, O, ir.at) => Looks(m, G, n, O, ir.at),
           Gen!EnterFunction(lit, m, H)
    PROVE  After
<1> DEFINE a      == ir.at
           new    == Gen!LastFunction(m)
           ret    == Gen!resolveTypeName(lit.ret)
           G      == Belongs(FN, n, new)
           body   == Gen!beginFn(m, H, new, ret, lit.params)
           locals == [fun |-> fun, at |-> m.at]
           f      == Gen!Frame(Gen!Top.node, 1, locals, Gen!Top.saved)
           g      == Gen!Entry(lit.body, genScope')
           C      == Cur(n + 1, body.fun)
           O2     == O \union C
<1>1. /\ n \in Nat /\ O \subseteq 1 .. n
      /\ \A c \in 1 .. n : G[c] = FN[c]
      /\ G[n + 1] = new /\ G[n + 2] = new
      /\ Looks(ir, G, n, O, a)
  BY Assigned
<1>2. /\ Gen!Top = genStk[Len(genStk)] /\ Gen!Top.node \in Node
      /\ AtWork(a, fun, FN, O)
      /\ ~ Generates(Gen!Top) => F[Len(genStk)] = fun
  BY OnTop
<1>3. Owes(Gen!Top) = {} /\ F[Len(genStk)] = fun
  BY <1>2, PlainIdle DEF Idle, Owes
<1>4. m.at = a /\ Looks(m, G, n, O, a)
  BY <1>1 DEF Looks
<1>5. /\ fun' = body.fun /\ ir' = body.ir
      /\ genStk' = PushOver(genStk, f, g)
      /\ genVerdict' \in {"run", "undefined"}
  BY DEF Gen!EnterFunction, Gen!Accept, Gen!Built, Gen!Depth, PushOver
<1>6. Len(lit.params) \in Nat /\ lit.body \in Node
  BY DEF IsFunctionLiteral
<1>7. g.node \in Node /\ g.pc = 0
  BY <1>6 DEF Gen!Entry, Gen!Frame
<1>8. f.node = Gen!Top.node /\ f.pc = 1 /\ f.own.fun = fun /\ f.own.at = a
  BY <1>4 DEF Gen!Frame
<1> HIDE DEF G, new, ret, f, g
<1>9. PICK n2 : Begun(body, ret, new, G, n, O, n2)
  BY <1>1, <1>4, <1>6, FunctionBegun
<1> HIDE DEF body
<1>10. Generates(f) /\ Owes(f) = Cur(a, fun)
  BY <1>8 DEF Generates, Owes, Cur
<1>11. \A b \in Cur(a, fun) : b \in O /\ b \in 1 .. n /\ G[b] = fun.fn
  BY <1>1, <1>2 DEF AtWork
<1>12. /\ n2 \in Nat /\ n <= n2
       /\ Looks(body.ir, G, n2, O2, n + 1)
       /\ body.fun.fn = new
       /\ n + 1 \notin Ret(body.fun)
       /\ \A b \in C : b \in n + 1 .. n2 /\ G[b] = new
       /\ body.fun.retBlock = 0 => ret = Gen!Void
  BY <1>9 DEF Begun
<1>13. AtWork(n + 1, body.fun, G, O2)
  BY <1>12 DEF AtWork
<1>14. Account(f, F[Len(genStk)], body.fun, n2, G, O2)
  <2>1. f.node \in Node /\ f.pc \in Nat
    BY <1>2, <1>8
  <2>2. \A b \in Owes(f) : b \in O2 /\ G[b] = fun.fn
    BY <1>10, <1>11
  <2>3. f.own.fun = fun /\ f.own.at \notin Ret(fun)
    BY <1>2, <1>8 DEF AtWork
  <2>4. body.fun.retBlock = 0 =>
            Gen!resolveTypeName(Literal(f.node).ret) = Gen!Void
    BY <1>8, <1>12 DEF ret
  <2>5. Minds(f, fun, n2, G)
    BY <1>8 DEF Minds, HoldsFunction, Branches, Tests, Repeats
  <2> QED
    BY <1>3, <1>10, <2>1, <2>2, <2>3, <2>4, <2>5 DEF Account
<1>15. Hands(n, FN, O, Owes(genStk[Len(genStk)]) \union Cur(a, fun),
             n2, G, O2, Owes(f), Cur(n + 1, body.fun))
  <2>1. Owes(genStk[Len(genStk)]) \union Cur(a, fun) = Cur(a, fun)
    BY <1>2, <1>3
  <2>2. O2 = (O \ Cur(a, fun)) \union Cur(a, fun) \union C
    BY <1>11
  <2>3. \A b \in Cur(a, fun) : b \notin C
    BY <1>1, <1>11, <1>12
  <2>4. \A b \in Cur(a, fun) \union C : b \in Cur(a, fun) \/ b \in n + 1 .. n2
    BY <1>12
  <2> HIDE DEF O2, C
  <2>5. Hands(n, FN, O, Cur(a, fun), n2, G, O2, Cur(a, fun), C)
    BY <1>1, <1>12, <2>2, <2>3, <2>4 DEF Hands
  <2> QED
    BY <1>10, <2>1, <2>5 DEF C
<1> HIDE DEF O2
<1>16. \E F2 : Ledger(PushOver(genStk, f, g), F2, G, n2, O2, n + 1, body.fun)
  BY <1>7, <1>13, <1>14, <1>15, LedgerPushed
<1>17. ir'.at = n + 1
  BY <1>5, <1>12 DEF Looks
<1>18. Accounts(genStk', ir', fun')
  BY <1>5, <1>12, <1>16, <1>17 DEF Accounts
<1> QED
  BY <1>5, <1>18 DEF After

(* The end of a nested function: back to where the generator was.          *)
LEMMA StepLeaveFunction ==
    ASSUME NEW F, NEW FN, NEW n, NEW O,
           Looks(ir, FN, n, O, ir.at), Ledger(genStk, F, FN, n, O, ir.at, fun),
           genStk # <<>>, Generates(Gen!Top),
           Gen!LeaveFunction(Literal(Gen!Top.node))
    PROVE  After
<1> DEFINE a    == ir.at
           b    == Gen!Top.own.at
           fu   == Gen!Top.own.fun
           ret  == Gen!resolveTypeName(Literal(Gen!Top.node).ret)
           done == Gen!finishFn(ir, val, ret)
           m    == Gen!SetInsertPoint(done, b)
           v    == Gen!FunctionPtr(fun.fn)
           O2   == O \ Cur(a, fun)
           H    == Owes(Gen!Top) \union Cur(a, fun)
<1>1. /\ n \in Nat /\ O \subseteq 1 .. n
      /\ Account(Gen!Top, F[Len(genStk)], fun, n, FN, O)
      /\ AtWork(a, fun, FN, O)
      /\ \A c \in Owes(Gen!Top) : c \notin Cur(a, fun)
  BY OnTop
<1>2. /\ F[Len(genStk)] = fu /\ b \notin Ret(fu)
      /\ fun.retBlock = 0 => ret = Gen!Void
      /\ \A c \in Owes(Gen!Top) : c \in O /\ FN[c] = fu.fn
  BY <1>1 DEF Account
<1>3. Owes(Gen!Top) = Cur(b, fu)
  BY DEF Owes, Cur
<1>4. Gen!Finish(m, v) /\ fun' = fu
  BY DEF Gen!LeaveFunction
<1> HIDE DEF ret, v, fu, b
<1>5. PICK x : Looks(done, FN, n, O2, x)
  BY <1>1, <1>2, FunctionFinished
<1> HIDE DEF done
<1>6. Looks(m, FN, n, O2, b)
  BY <1>5, PointSet
<1> HIDE DEF m
<1>7. \A c \in Cur(b, fu) : c \in O2 /\ c \in O /\ FN[c] = fu.fn
  BY <1>1, <1>2, <1>3
<1>8. AtWork(b, fu, FN, O2)
  BY <1>2, <1>7 DEF AtWork
<1>9. Hands(n, FN, O, H, n, FN, O2, {}, Cur(b, fu))
  <2>1. O2 = (O \ H) \union Cur(b, fu)
    <3>1. ASSUME NEW c PROVE c \in O2 <=> c \in (O \ H) \union Cur(b, fu)
      BY <1>3, <1>7
    <3> QED
      BY <3>1
  <2>2. \A c \in Cur(b, fu) : c \in H
    BY <1>3
  <2>3. n <= n
    BY <1>1
  <2> HIDE DEF H, O2
  <2> QED
    BY <1>1, <2>1, <2>2, <2>3 DEF Hands
<1> HIDE DEF O2
<1>10. Accounts(genStk', ir', fun')
  BY <1>2, <1>4, <1>6, <1>8, <1>9, Leaves
<1>11. genVerdict' \in {"run", "undefined"}
  BY <1>4 DEF Gen!Finish, Gen!Built
<1> QED
  BY <1>10, <1>11 DEF After

(* visit(FnLitExpr).                                                       *)
LEMMA StepFnLit ==
    ASSUME Accounts(genStk, ir, fun), Gen!VisitFnLit
    PROVE  After
<1>1. PICK F, FN, n, O : Looks(ir, FN, n, O, ir.at) /\ Ledger(genStk, F, FN, n, O, ir.at, fun)
  BY DEF Accounts
<1>2. genStk # <<>> /\ Gen!N.kind = "FnLit"
  BY DEF Gen!VisitFnLit, Gen!Visiting
<1>3. /\ Gen!N = Ast[Gen!Top.node] /\ Gen!Top.node \in Node
  BY <1>1, <1>2, OnTop
<1>4. /\ HoldsFunction(Gen!Top.node) /\ Gen!N = Literal(Gen!Top.node)
      /\ IsFunctionLiteral(Gen!N)
  BY <1>2, <1>3, SyntaxAssumption DEF HoldsFunction, Literal
<1>5. CASE Gen!Top.pc = 0 /\ Gen!EnterFunction(Gen!N, Gen!declareFn(ir, Gen!N), genSyms)
  <2> DEFINE m == Gen!declareFn(ir, Gen!N)
  <2>1. \A G : Looks(ir, G, n, O, ir.at) => Looks(m, G, n, O, ir.at)
    BY FunctionAdded DEF Gen!declareFn
  <2>2. Gen!EnterFunction(Gen!N, m, genSyms)
    BY <1>5
  <2> HIDE DEF m
  <2> QED
    BY <1>1, <1>2, <1>4, <1>5, <2>1, <2>2, StepEnterFunction
<1>6. CASE Gen!Top.pc = 1 /\ Gen!LeaveFunction(Gen!N)
  <2>1. Generates(Gen!Top)
    BY <1>4, <1>6 DEF Generates
  <2> QED
    BY <1>1, <1>2, <1>4, <1>6, <2>1, StepLeaveFunction
<1> QED
  BY <1>5, <1>6, Throws DEF Gen!VisitFnLit

(* visit(LetExpr), with compileLetFn.                                      *)
LEMMA StepLet ==
    ASSUME Accounts(genStk, ir, fun), Gen!VisitLet
    PROVE  After
<1>1. PICK F, FN, n, O : Looks(ir, FN, n, O, ir.at) /\ Ledger(genStk, F, FN, n, O, ir.at, fun)
  BY DEF Accounts
<1>2. genStk # <<>> /\ Gen!N.kind = "Let"
  BY DEF Gen!VisitLet, Gen!Visiting
<1>3. /\ Gen!N = Ast[Gen!Top.node] /\ Gen!Top.node \in Node
  BY <1>1, <1>2, OnTop
<1> DEFINE lit == Ast[Gen!N.kids[1]]
<1>4. 1 \in 1 .. Gen!Arity /\ Gen!N.kids[1] \in Node
  <2>1. Gen!Arity = 1
    BY <1>2, <1>3, SyntaxAssumption DEF Arities, Gen!Arity
  <2>2. 1 \in 1 .. Len(Ast[Gen!Top.node].kids)
    BY <1>3, <2>1 DEF Gen!Arity
  <2> QED
    BY <1>3, <2>1, <2>2, ChildNode
<1>5. \/ Gen!Throw
      \/ lit.kind = "FnLit" /\ Gen!Top.pc = 0 /\ Gen!LetFunction(lit)
      \/ lit.kind = "FnLit" /\ Gen!Top.pc = 1 /\ Gen!LeaveFunction(lit)
      \/ lit.kind # "FnLit" /\ fun' = fun /\ Gen!Go(1, <<>>, ir)
      \/ lit.kind # "FnLit" /\ fun' = fun /\ Gen!LetVariable
  BY DEF Gen!VisitLet, Gen!Context
<1>6. lit.kind = "FnLit" =>
          /\ HoldsFunction(Gen!Top.node) /\ lit = Literal(Gen!Top.node)
          /\ IsFunctionLiteral(lit)
  BY <1>2, <1>3, <1>4, SyntaxAssumption DEF HoldsFunction, Literal
<1>7. lit.kind # "FnLit" => Plain(Gen!Top.node)
  BY <1>2, <1>3 DEF Plain, HoldsFunction, Connects
<1> HIDE DEF lit
<1>8. CASE lit.kind = "FnLit" /\ Gen!Top.pc = 0 /\ Gen!LetFunction(lit)
  <2> DEFINE decl == Gen!declareFn(ir, lit)
             slot == Gen!Alloca(decl, fun.fn, Gen!Ptr)
             p    == Gen!FunctionPtr(Gen!LastFunction(slot))
             m    == Gen!Store(slot, p, slot.last)
  <2>1. PICK H : Gen!EnterFunction(lit, m, H)
    BY <1>8 DEF Gen!LetFunction
  <2>2. ASSUME NEW G, Looks(ir, G, n, O, ir.at)
        PROVE  Looks(m, G, n, O, ir.at)
    <3>1. ir.at \in O
      BY <1>1, <1>2, OnTop DEF AtWork, Cur
    <3>2. Looks(decl, G, n, O, ir.at)
      BY <2>2, FunctionAdded DEF Gen!declareFn
    <3> DEFINE type == Gen!Ptr
    <3> HIDE DEF decl, p
    <3>3. Looks(slot, G, n, O, ir.at)
      <4>1. slot = Gen!Alloca(decl, fun.fn, type)
        OBVIOUS
      <4> HIDE DEF type, slot
      <4> QED
        BY <3>2, <4>1, Allocated
    <3> HIDE DEF slot
    <3> QED
      BY <3>1, <3>3, Stored
  <2> HIDE DEF m
  <2> QED
    BY <1>1, <1>2, <1>6, <1>8, <2>1, <2>2, StepEnterFunction
<1>9. CASE lit.kind = "FnLit" /\ Gen!Top.pc = 1 /\ Gen!LeaveFunction(lit)
  <2>1. Generates(Gen!Top)
    BY <1>6, <1>9 DEF Generates
  <2> QED
    BY <1>1, <1>2, <1>6, <1>9, <2>1, StepLeaveFunction
<1>10. CASE lit.kind # "FnLit" /\ fun' = fun /\ Gen!Go(1, <<>>, ir)
  BY <1>1, <1>2, <1>4, <1>7, <1>10, PlainGo
<1>11. CASE lit.kind # "FnLit" /\ fun' = fun /\ Gen!LetVariable
  BY <1>1, <1>2, <1>7, <1>11, StepVariable
<1> QED
  BY <1>5, <1>8, <1>9, <1>10, <1>11, Throws

-----------------------------------------------------------------------------
(* The beginning and the end of the program.                               *)

(* A module without functions.                                             *)
LEMMA EmptyLooks ==
    ASSUME NEW FN
    PROVE  Looks(Gen!EmptyModule, FN, 0, {}, 0)
<1> DEFINE m == Gen!EmptyModule
<1>1. /\ DOMAIN m = {"funs", "blocks", "at", "made", "last", "undef"}
      /\ m.at = 0 /\ m.blocks = <<>>
  BY DEF Gen!EmptyModule
<1> HIDE DEF m
<1>2. <<>> \in Seq({}) /\ Len(<<>>) = 0
  OBVIOUS
<1>3. IsSeq(m.blocks) /\ Len(m.blocks) = 0
  BY <1>1, <1>2, SeqIsSeq
<1> QED
  BY <1>1, <1>3 DEF Looks, m

(* The accounts of a generator that has just entered main().               *)
LEMMA LedgerOpened ==
    ASSUME NEW e, e.node \in Node, e.pc = 0,
           NEW FN, NEW n, NEW O, NEW a, NEW fu, fu.retBlock # 0,
           AtWork(a, fu, FN, O), O = Cur(a, fu)
    PROVE  \E F : Ledger(<<e>>, F, FN, n, O, a, fu)
<1> DEFINE F == [i \in Nat |-> fu]
           s == <<e>>
<1>1. s \in Seq({e}) /\ Len(s) = 1 /\ s[1] = e
  OBVIOUS
<1>2. IsSeq(s)
  BY <1>1, SeqIsSeq
<1>3. F[1] = fu /\ F[2] = fu /\ F[1 + 1] = fu
  OBVIOUS
<1> HIDE DEF F, s
<1>4. Idle(e)
  BY PlainIdle
<1>5. Owes(e) = {} /\ Account(e, fu, fu, n, FN, O)
  BY <1>4 DEF Idle, Owes, Account, Minds
<1>6. \A i \in 1 .. Len(s) : i = 1 /\ s[i] = e
  BY <1>1
<1>7. /\ \A i \in 1 .. Len(s) : Account(s[i], F[i], F[i + 1], n, FN, O)
      /\ \A i \in 1 .. Len(s) : Owes(s[i]) = {}
  BY <1>3, <1>5, <1>6
<1>8. F[Len(s) + 1] = fu
  BY <1>1, <1>3
<1>9. Ledger(s, F, FN, n, O, a, fu)
  BY <1>2, <1>3, <1>7, <1>8 DEF Ledger
<1> QED
  BY <1>9 DEF s

(* llvmIRGen() up to the walk of the tree: main() is begun.                *)
LEMMA StepStart ==
    ASSUME ir = Gen!EmptyModule, NEW root \in Node, Gen!Start(root)
    PROVE  genVerdict' = "run" /\ Accounts(genStk', ir', fun')
<1> DEFINE int  == Gen!PrimType("int")
           none == <<>>
           m    == Gen!NewFunction(ir, int, none)
           body == Gen!beginFn(m, genSyms, 1, int, none)
           FN   == [b \in Nat |-> 1]
           e    == Gen!Entry(root, genScope')
           C    == Cur(1, body.fun)
<1>1. ir' = body.ir /\ fun' = body.fun /\ genVerdict' = "run" /\ genStk' = <<e>>
  BY DEF Gen!Start
<1>2. e.node \in Node /\ e.pc = 0
  BY DEF Gen!Entry, Gen!Frame
<1>3. FN[0 + 1] = 1 /\ FN[0 + 2] = 1 /\ \A b \in Nat : FN[b] = 1
  OBVIOUS
<1>4. Len(none) \in Nat /\ int # Gen!Void
  BY DEF Gen!Void, Gen!PrimType
<1> HIDE DEF FN, e, none, int
<1>5. Looks(m, FN, 0, {}, 0)
  BY EmptyLooks, FunctionAdded
<1> HIDE DEF m
<1>6. PICK n2 : Begun(body, int, 1, FN, 0, {}, n2)
  BY <1>3, <1>4, <1>5, FunctionBegun
<1> HIDE DEF body
<1>7. /\ Looks(body.ir, FN, n2, C, 1)
      /\ 1 \notin Ret(body.fun) /\ body.fun.fn = 1
      /\ \A b \in C : FN[b] = 1
      /\ body.fun.retBlock # 0
  <2>1. 0 + 1 = 1 /\ {} \union C = C
    OBVIOUS
  <2> HIDE DEF C
  <2>2. {} \union Cur(0 + 1, body.fun) = C
    BY <2>1 DEF C
  <2> QED
    BY <1>4, <1>6, <2>1, <2>2 DEF Begun, C
<1>8. AtWork(1, body.fun, FN, C)
  BY <1>7 DEF AtWork
<1>9. \E F : Ledger(<<e>>, F, FN, n2, C, 1, body.fun)
  BY <1>2, <1>7, <1>8, LedgerOpened
<1>10. ir'.at = 1
  BY <1>1, <1>7 DEF Looks
<1> HIDE DEF C
<1>11. Accounts(genStk', ir', fun')
  BY <1>1, <1>7, <1>9, <1>10 DEF Accounts
<1> QED
  BY <1>1, <1>11

(* llvmIRGen() behind the walk: nothing is left open.                      *)
LEMMA StepFinish ==
    ASSUME Accounts(genStk, ir, fun), Gen!FinishMain
    PROVE  /\ genVerdict' \in {"ok", "undefined"}
           /\ \E FN, n : Looks(ir', FN, n, {}, ir'.at)
<1> DEFINE int  == Gen!PrimType("int")
           done == Gen!finishFn(ir, val, int)
<1>1. PICK F, FN, n, O : Looks(ir, FN, n, O, ir.at) /\ Ledger(genStk, F, FN, n, O, ir.at, fun)
  BY DEF Accounts
<1>2. genStk = <<>> /\ ir' = done /\ genVerdict' \in {"ok", "undefined"}
  BY DEF Gen!FinishMain
<1>3. Len(genStk) = 0
  BY <1>2
<1>4. F[1] = fun /\ fun.retBlock # 0 /\ AtWork(ir.at, fun, FN, O)
  BY <1>1, <1>3 DEF Ledger
<1>5. O \ Cur(ir.at, fun) = {}
  BY <1>1, <1>3 DEF Ledger
<1> HIDE DEF int
<1>6. PICK b : Looks(done, FN, n, O \ Cur(ir.at, fun), b)
  BY <1>1, <1>4, FunctionFinished
<1> HIDE DEF done
<1>7. Looks(ir', FN, n, {}, b) /\ ir'.at = b
  BY <1>2, <1>5, <1>6 DEF Looks
<1> QED
  BY <1>2, <1>7

(* Every visitor's step.                                                   *)
LEMMA StepVisit ==
    ASSUME Accounts(genStk, ir, fun), Gen!Visit
    PROVE  After
BY StepLiteral, StepIdent, StepUnary, StepBinOp, StepArray, StepDeref, StepLet,
   StepAssign, StepFnLit, StepCall, StepReturn, StepBlock, StepIf, StepWhile,
   StepStmtList DEF Gen!Visit

-----------------------------------------------------------------------------
(* The inductive invariant.                                                *)

InOrder == \E FN, n, O : Looks(ir, FN, n, O, ir.at)

Books ==
    /\ phase = "compile" => tree \in Roots
    /\ genVerdict = "idle" => ir = Gen!EmptyModule
    /\ genVerdict = "run" => Accounts(genStk, ir, fun)
    /\ genVerdict = "ok" => \E FN, n : Looks(ir, FN, n, {}, ir.at)
    /\ InOrder

(* The accounts are in order before the passes run.                        *)
LEMMA BooksInit == Init => Books
<1> SUFFICES ASSUME Init PROVE Books
  OBVIOUS
<1>1. phase = "parse" /\ genVerdict = "idle" /\ ir = Gen!EmptyModule
  BY DEF Init, Gen!Init
<1>2. \A FN : Looks(ir, FN, 0, {}, 0)
  BY <1>1, EmptyLooks
<1>3. ir.at = 0
  BY <1>2 DEF Looks
<1>4. InOrder
  BY <1>2, <1>3 DEF InOrder
<1> QED
  BY <1>1, <1>4 DEF Books

(* A step of the generator keeps them in order.                            *)
LEMMA BooksGenerated ==
    ASSUME Books, LLVMIRGen
    PROVE  Books'
<1>1. tree \in Node /\ (phase' = "compile" => tree' \in Roots)
  BY SyntaxAssumption DEF Books, LLVMIRGen, Running, main
<1>2. CASE Gen!Start(tree)
  <2>1. ir = Gen!EmptyModule
    BY <1>2 DEF Books, Gen!Start
  <2>2. genVerdict' = "run" /\ Accounts(genStk', ir', fun')
    BY <1>1, <1>2, <2>1, StepStart
  <2>3. \E FN, n, O : Looks(ir', FN, n, O, ir'.at)
    BY <2>2 DEF Accounts
  <2> QED
    BY <1>1, <2>2, <2>3 DEF Books, InOrder
<1>3. CASE Gen!Visit
  <2>1. genVerdict = "run"
    BY <1>3 DEF Gen!Visit, Gen!VisitLiteral, Gen!VisitIdent, Gen!VisitUnary, Gen!VisitBinOp,
       Gen!VisitArray, Gen!VisitArrayDeref, Gen!VisitLet, Gen!VisitAssign, Gen!VisitFnLit,
       Gen!VisitCall, Gen!VisitReturn, Gen!VisitBlock, Gen!VisitIf, Gen!VisitWhile,
       Gen!VisitStmtList, Gen!Visiting
  <2>2. After
    BY <1>3, <2>1, StepVisit DEF Books
  <2>3. CASE genVerdict' = "error" /\ ir' = ir
    BY <1>1, <2>3 DEF Books, InOrder
  <2>4. CASE genVerdict' \in {"run", "undefined"} /\ Accounts(genStk', ir', fun')
    <3>1. \E FN, n, O : Looks(ir', FN, n, O, ir'.at)
      BY <2>4 DEF Accounts
    <3> QED
      BY <1>1, <2>4, <3>1 DEF Books, InOrder
  <2> QED
    BY <2>2, <2>3, <2>4 DEF After
<1>4. CASE Gen!FinishMain
  <2>1. Accounts(genStk, ir, fun)
    BY <1>4 DEF Books, Gen!FinishMain
  <2>2. /\ genVerdict' \in {"ok", "undefined"}
        /\ \E FN, n : Looks(ir', FN, n, {}, ir'.at)
    BY <1>4, <2>1, StepFinish
  <2>3. \E FN, n, O : Looks(ir', FN, n, O, ir'.at)
    BY <2>2
  <2> QED
    BY <1>1, <2>2, <2>3 DEF Books, InOrder
<1> QED
  BY <1>2, <1>3, <1>4 DEF LLVMIRGen, Gen!Step

(* And so does every step of the compiler.                                 *)
LEMMA BooksNext == Books /\ [Next]_vars => Books'
<1> SUFFICES ASSUME Books, [Next]_vars PROVE Books'
  OBVIOUS
<1>1. ASSUME UNCHANGED gen, phase' = "compile" => tree' \in Roots
      PROVE  Books'
  BY <1>1 DEF Books, InOrder, gen
<1>2. CASE Parse
  BY <1>1, <1>2 DEF Parse, Exit
<1>3. CASE SemanticAnalysis
  BY <1>1, <1>3 DEF SemanticAnalysis, main, Books
<1>4. CASE LLVMIRGen
  BY <1>4, BooksGenerated
<1>5. CASE NextPass
  BY <1>1, <1>5 DEF NextPass, main, Books
<1>6. CASE Catch \/ Output
  BY <1>1, <1>6 DEF Catch, Output, Exit
<1>7. CASE UNCHANGED vars
  BY <1>1, <1>7 DEF vars, main, Books
<1> QED
  BY <1>2, <1>3, <1>4, <1>5, <1>6, <1>7 DEF Next, Compile

(* In a module that is in order no terminator is followed by anything, and *)
(* no branch leads into another function.                                  *)
LEMMA BooksWellFormed == Books => WellFormed
<1> SUFFICES ASSUME Books PROVE WellFormed
  OBVIOUS
<1>1. PICK FN, n, O : Looks(ir, FN, n, O, ir.at)
  BY DEF Books, InOrder
<1>2. DOMAIN ir.blocks = 1 .. n
  BY <1>1, LenProperties DEF Looks, IsSeq
<1>3. \A b \in 1 .. n : IsBlock(ir.blocks[b], FN[b], n, FN)
  BY <1>1 DEF Looks
<1>4. \A b : Gen!Targets(ir, b) = Goals(ir.blocks[b].code)
  BY DEF Gen!Targets, Goals
<1>5. \A b \in DOMAIN ir.blocks : \A k \in 1 .. Len(ir.blocks[b].code) - 1 :
          ir.blocks[b].code[k].op \notin Gen!Terminators
  BY <1>2, <1>3 DEF IsBlock, IsCode
<1>6. \A b \in DOMAIN ir.blocks : \A c \in Gen!Targets(ir, b) :
          Gen!FunctionOf(c) = Gen!FunctionOf(b)
  BY <1>2, <1>3, <1>4 DEF IsBlock, Gen!FunctionOf
<1>7. ASSUME genVerdict = "run"
      PROVE  ~ Gen!Terminated(ir, ir.at) /\ Gen!FunctionOf(ir.at) = fun.fn
  <2>1. PICK F, GN, k, P : /\ Looks(ir, GN, k, P, ir.at)
                           /\ Ledger(genStk, F, GN, k, P, ir.at, fun)
    BY <1>7 DEF Books, Accounts
  <2>2. ir.at \in P /\ GN[ir.at] = fun.fn
    BY <2>1 DEF Ledger, AtWork, Cur
  <2>3. ir.at \in 1 .. k
    BY <2>1, <2>2 DEF Looks
  <2> QED
    BY <2>1, <2>2, <2>3 DEF Looks, IsBlock, Gen!Terminated, Ends, Gen!FunctionOf
<1>8. ASSUME genVerdict = "ok", NEW b \in DOMAIN ir.blocks
      PROVE  Gen!Terminated(ir, b)
  <2>1. PICK GN, k : Looks(ir, GN, k, {}, ir.at)
    BY <1>8 DEF Books
  <2>2. b \in 1 .. k
    BY <1>8, <2>1, LenProperties DEF Looks, IsSeq
  <2> QED
    BY <2>1, <2>2 DEF Looks, Gen!Terminated, Ends
<1>9. Gen!NothingBehindTerminators
  BY <1>5, <1>7 DEF Gen!NothingBehindTerminators
<1>10. Gen!StaysInFunction
  BY <1>6, <1>7 DEF Gen!StaysInFunction
<1>11. Gen!AllTerminated
  BY <1>8 DEF Gen!AllTerminated
<1> QED
  BY <1>9, <1>10, <1>11 DEF WellFormed, Gen!WellFormed

(* WellFormed: whatever program is compiled, nothing is ever added behind  *)
(* a terminator, the insertion point stays in the function being           *)
(* generated, no branch leads into another function, and a finished module *)
(* has no block without a terminator (LLVMGen, llvm_ir_pass.cpp).          *)
THEOREM ModuleWellFormed == Spec => []WellFormed
<1>1. Spec => []Books
  BY BooksInit, BooksNext, PTL DEF Spec
<1> QED
  BY <1>1, BooksWellFormed, PTL

=============================================================================
