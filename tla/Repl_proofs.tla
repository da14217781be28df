----------------------------- MODULE Repl_proofs -----------------------------
(***************************************************************************)
(* The interactive loop hands balanced texts to the parser and never       *)
(* withholds a program, whatever lines are typed.  isInputComplete and     *)
(* lexer.l, two scanners with rules of their own, are shown to stay in     *)
(* step with each other piece by piece, and what grammar.y derives is      *)
(* shown to be balanced and to end in a semicolon or a closing brace.      *)
(***************************************************************************)
EXTENDS Repl, SeqFacts, FiniteSetTheorems

-----------------------------------------------------------------------------
(* What the three loops over a text compute.                               *)

(* Induction, with a set in the place of the property.                     *)
LEMMA SetInduction ==
    ASSUME NEW T, 0 \in T, \A i \in Nat : i \in T => i + 1 \in T
    PROVE  \A i \in Nat : i \in T
<1> DEFINE U == {i \in Nat : i \notin T}
<1>1. SUFFICES ASSUME U # {} PROVE FALSE
  OBVIOUS
<1>2. PICK x \in U : \A y \in U : x <= y
  BY <1>1, LeastNumber
<1>3. x \in Nat /\ x # 0 /\ x - 1 \in Nat /\ ~ (x <= x - 1) /\ (x - 1) + 1 = x
  BY <1>2
<1>4. x - 1 \in T
  BY <1>2, <1>3
<1> QED
  BY <1>2, <1>3, <1>4

(* The scanner, isInputComplete and the table of the grammar.              *)
First(w) ==
    CASE w = "lex" -> Start [] w = "scan" -> ScanStart [] OTHER -> <<>>

Turn(w, text, e, i) ==
    CASE w = "lex" -> Take(e, text[i])
      [] w = "scan" -> ScanChar(text, e, i)
      [] OTHER -> AddPosition(text, e, i)

Loops(g, k, w, text) ==
    g = [i \in 0 .. k |-> IF i = 0 THEN First(w) ELSE Turn(w, text, g[i - 1], i)]

(* A loop yields something after every turn.                               *)
LEMMA LoopsExist ==
    ASSUME NEW w, NEW text, NEW k \in Nat
    PROVE  \E g : Loops(g, k, w, text)
<1> DEFINE T == {i \in Nat : \E g : Loops(g, i, w, text)}
<1>1. 0 \in T
  <2> DEFINE g == [i \in 0 .. 0 |-> First(w)]
  <2>1. g = [i \in 0 .. 0 |-> IF i = 0 THEN First(w) ELSE Turn(w, text, g[i - 1], i)]
    OBVIOUS
  <2>2. Loops(g, 0, w, text)
    BY <2>1 DEF Loops
  <2> QED
    BY <2>2
<1>2. ASSUME NEW n \in Nat, n \in T
      PROVE  n + 1 \in T
  <2>1. PICK h : Loops(h, n, w, text)
    BY <1>2
  <2> HIDE DEF T
  <2> DEFINE step(e, i) == IF i = 0 THEN First(w) ELSE Turn(w, text, e, i)
             g == [i \in 0 .. n + 1 |-> IF i <= n THEN h[i] ELSE step(h[n], i)]
  <2>2. \A i \in 0 .. n : h[i] = step(h[i - 1], i)
    BY <2>1 DEF Loops
  <2>3. \A i \in 0 .. n + 1 : g[i] = IF i <= n THEN h[i] ELSE step(h[n], i)
    OBVIOUS
  <2>4. \A i \in 0 .. n + 1 : g[i] = step(g[i - 1], i)
    <3> TAKE i \in 0 .. n + 1
    <3>1. CASE i = 0
      BY <2>2, <2>3, <3>1
    <3>2. CASE i \in 1 .. n
      <4>1. i \in 0 .. n /\ i <= n /\ i - 1 \in 0 .. n + 1 /\ i - 1 <= n
        BY <3>2
      <4>2. g[i] = h[i] /\ g[i - 1] = h[i - 1]
        BY <2>3, <4>1
      <4> HIDE DEF g, step
      <4> QED
        BY <2>2, <4>1, <4>2
    <3>3. CASE i = n + 1
      <4>1. n \in 0 .. n + 1 /\ n <= n /\ ~ (n + 1 <= n) /\ (n + 1) - 1 = n
        OBVIOUS
      <4>2. g[n + 1] = step(h[n], n + 1) /\ g[n] = h[n]
        BY <2>3, <4>1
      <4> HIDE DEF g, step
      <4> QED
        BY <3>3, <4>1, <4>2
    <3> QED
      BY <3>1, <3>2, <3>3
  <2>5. g = [i \in 0 .. n + 1 |-> g[i]]
    OBVIOUS
  <2> HIDE DEF g
  <2>6. g = [i \in 0 .. n + 1 |-> step(g[i - 1], i)]
    BY <2>4, <2>5
  <2>7. Loops(g, n + 1, w, text)
    BY <2>6 DEF Loops
  <2> QED
    BY <2>7 DEF T
<1> HIDE DEF T
<1>3. k \in T
  BY <1>1, <1>2, SetInduction
<1> QED
  BY <1>3 DEF T

(* What a loop yields in the end, by its turns.                            *)
LEMMA LoopTurns ==
    ASSUME NEW w, NEW text, NEW k \in Nat
    PROVE  LET g == CHOOSE f : Loops(f, k, w, text)
           IN  /\ g[0] = First(w)
               /\ \A i \in 1 .. k : g[i] = Turn(w, text, g[i - 1], i)
<1> DEFINE g == CHOOSE f : Loops(f, k, w, text)
<1>1. Loops(g, k, w, text)
  BY LoopsExist
<1> HIDE DEF g
<1>2. /\ g[0] = First(w)
      /\ \A i \in 1 .. k : g[i] = Turn(w, text, g[i - 1], i)
  BY <1>1 DEF Loops
<1> QED
  BY <1>2 DEF g

(* The states of the scanner.                                              *)
Lexes(g, text) ==
    /\ g[0] = Start
    /\ \A i \in 1 .. Len(text) : g[i] = Take(g[i - 1], text[i])
    /\ Lex(text) = g[Len(text)]

(* Lex has such states.                                                    *)
LEMMA LexTurns ==
    ASSUME NEW text, Len(text) \in Nat
    PROVE  \E g : Lexes(g, text)
<1> DEFINE g == CHOOSE f : Loops(f, Len(text), "lex", text)
<1>1. Lex(text) = g[Len(text)]
  BY DEF Lex, Loops, First, Turn
<1>2. /\ g[0] = First("lex")
      /\ \A i \in 1 .. Len(text) : g[i] = Turn("lex", text, g[i - 1], i)
  BY LoopTurns
<1> HIDE DEF g
<1>3. Lexes(g, text)
  BY <1>1, <1>2 DEF Lexes, First, Turn
<1> QED
  BY <1>3

(* The states of isInputComplete.                                          *)
Scans(g, text) ==
    /\ g[0] = ScanStart
    /\ \A i \in 1 .. Len(text) : g[i] = ScanChar(text, g[i - 1], i)
    /\ Scan(text) = g[Len(text)]

(* Scan has such states.                                                   *)
LEMMA ScanTurns ==
    ASSUME NEW text, Len(text) \in Nat
    PROVE  \E g : Scans(g, text)
<1> DEFINE g == CHOOSE f : Loops(f, Len(text), "scan", text)
<1>1. Scan(text) = g[Len(text)]
  BY DEF Scan, Loops, First, Turn
<1>2. /\ g[0] = First("scan")
      /\ \A i \in 1 .. Len(text) : g[i] = Turn("scan", text, g[i - 1], i)
  BY LoopTurns
<1> HIDE DEF g
<1>3. Scans(g, text)
  BY <1>1, <1>2 DEF Scans, First, Turn
<1> QED
  BY <1>3

(* The tables of the grammar.                                              *)
Tables(g, t) ==
    /\ g[0] = <<>>
    /\ \A i \in 1 .. Len(t) + 1 : g[i] = AddPosition(t, g[i - 1], i)
    /\ Derived(t) = g[Len(t) + 1]

(* Derived has such tables.                                                *)
LEMMA TableTurns ==
    ASSUME NEW t, Len(t) \in Nat
    PROVE  \E g : Tables(g, t)
<1> DEFINE g == CHOOSE f : Loops(f, Len(t) + 1, "table", t)
<1>1. Derived(t) = g[Len(t) + 1]
  BY DEF Derived, Loops, First, Turn
<1>2. /\ g[0] = First("table")
      /\ \A i \in 1 .. Len(t) + 1 : g[i] = Turn("table", t, g[i - 1], i)
  BY LoopTurns
<1> HIDE DEF g
<1>3. Tables(g, t)
  BY <1>1, <1>2 DEF Tables, First, Turn
<1> QED
  BY <1>3

-----------------------------------------------------------------------------
(* Counting tokens.                                                        *)

Openings == DOMAIN Closing

(* The brackets and what closes them.                                      *)
LEMMA BracketFacts ==
    /\ Openings = {"{", "[", "("}
    /\ Closing["{"] = "}" /\ Closing["["] = "]" /\ Closing["("] = ")"
BY DEF Openings, Closing

(* No bracket both opens and closes, or closes two.                        *)
LEMMA BracketsDiffer ==
    \A b, c \in Openings :
        b # "none" /\ c # Closing[b] /\ (Closing[b] = Closing[c] <=> b = c)
BY DEF Openings, Closing

Hits(t, k, p) == Cardinality({i \in 1 .. p : t[i] = k})

(* One more token is at most one more hit.                                 *)
LEMMA HitsFacts ==
    ASSUME NEW t, NEW k, NEW p \in Nat
    PROVE  /\ Hits(t, k, p) \in Nat
           /\ Hits(t, k, 0) = 0
           /\ Hits(t, k, p + 1) = Hits(t, k, p) + (IF t[p + 1] = k THEN 1 ELSE 0)
<1> DEFINE S(m) == {i \in 1 .. m : t[i] = k}
<1>1. \A m \in Nat : IsFiniteSet(S(m))
  <2> TAKE m \in Nat
  <2>1. IsFiniteSet(1 .. m) /\ S(m) \subseteq 1 .. m
    BY FS_Interval
  <2> QED
    BY <2>1, FS_Subset, Zenon
<1>2. S(0) = {}
  OBVIOUS
<1>3. Cardinality(S(p)) \in Nat
  BY <1>1, FS_CardinalityType
<1>4. Cardinality(S(p + 1)) = Cardinality(S(p)) + (IF t[p + 1] = k THEN 1 ELSE 0)
  <2>1. CASE t[p + 1] = k
    <3>1. S(p + 1) = S(p) \union {p + 1} /\ p + 1 \notin S(p)
      BY <2>1
    <3> HIDE DEF S
    <3> QED
      BY <1>1, <2>1, <3>1, FS_AddElement
  <2>2. CASE t[p + 1] # k
    <3>1. S(p + 1) = S(p)
      BY <2>2
    <3> HIDE DEF S
    <3> QED
      BY <1>3, <2>2, <3>1
  <2> QED
    BY <2>1, <2>2
<1>5. Hits(t, k, p) = Cardinality(S(p)) /\ Hits(t, k, 0) = Cardinality(S(0))
      /\ Hits(t, k, p + 1) = Cardinality(S(p + 1))
  BY DEF Hits
<1> HIDE DEF S
<1> QED
  BY <1>2, <1>3, <1>4, <1>5, FS_EmptySet

(* The opening brackets b in front of place p that are not closed there.   *)
Open(t, b, p) == Hits(t, b, p - 1) - Hits(t, Closing[b], p - 1)

Opened(b, c) == (IF c = b THEN 1 ELSE 0) - (IF c = Closing[b] THEN 1 ELSE 0)

(* One more token opens or closes what it opens or closes.                 *)
LEMMA OpenFacts ==
    ASSUME NEW t, NEW b \in Openings, NEW p \in Nat, p > 0
    PROVE  /\ Open(t, b, p) \in Int
           /\ Open(t, b, 1) = 0
           /\ Open(t, b, p + 1) = Open(t, b, p) + Opened(b, t[p])
<1>1. p - 1 \in Nat /\ (p - 1) + 1 = p /\ (p + 1) - 1 = p /\ 1 - 1 = 0
  OBVIOUS
<1> DEFINE k == Closing[b]
<1>2. /\ Hits(t, b, p - 1) \in Nat /\ Hits(t, b, 0) = 0
      /\ Hits(t, b, p) = Hits(t, b, p - 1) + (IF t[p] = b THEN 1 ELSE 0)
  BY <1>1, HitsFacts
<1>3. /\ Hits(t, k, p - 1) \in Nat /\ Hits(t, k, 0) = 0
      /\ Hits(t, k, p) = Hits(t, k, p - 1) + (IF t[p] = k THEN 1 ELSE 0)
  BY <1>1, HitsFacts
<1>4. /\ Open(t, b, p) = Hits(t, b, p - 1) - Hits(t, k, p - 1)
      /\ Open(t, b, 1) = Hits(t, b, 0) - Hits(t, k, 0)
      /\ Open(t, b, p + 1) = Hits(t, b, p) - Hits(t, k, p)
      /\ Opened(b, t[p]) = (IF t[p] = b THEN 1 ELSE 0) - (IF t[p] = k THEN 1 ELSE 0)
  BY <1>1 DEF Open, Opened
<1> HIDE DEF k
<1> QED
  BY <1>2, <1>3, <1>4

(* The surplus of all the tokens.                                          *)
Surplus(t, b) == Open(t, b, Len(t) + 1)

(* What Append does to the surplus, and the surplus by Occurrences.        *)
LEMMA SurplusFacts ==
    ASSUME NEW t, IsSeq(t), NEW b \in Openings
    PROVE  /\ Surplus(t, b) \in Int
           /\ Surplus(<<>>, b) = 0
           /\ \A c : Surplus(Append(t, c), b) = Surplus(t, b) + Opened(b, c)
           /\ Surplus(t, b) = Occurrences(t, b) - Occurrences(t, Closing[b])
<1>1. Len(t) \in Nat /\ DOMAIN t = 1 .. Len(t)
  BY LenProperties DEF IsSeq
<1>6. PICK m \in Nat : m > 0 /\ m = Len(t) + 1
  BY <1>1
<1>2. Surplus(t, b) \in Int
  <2>1. Open(t, b, m) \in Int
    BY <1>6, OpenFacts
  <2> QED
    BY <1>6, <2>1 DEF Surplus
<1>3. Surplus(<<>>, b) = 0
  <2>1. Len(<<>>) + 1 = 1
    BY EmptySeq
  <2> QED
    BY <2>1, OpenFacts DEF Surplus
<1>4. ASSUME NEW c
      PROVE  Surplus(Append(t, c), b) = Surplus(t, b) + Opened(b, c)
  <2> DEFINE u == Append(t, c)
  <2>1. Len(u) = Len(t) + 1 /\ (\A i \in 1 .. Len(t) : u[i] = t[i]) /\ u[Len(t) + 1] = c
    BY AppendFacts
  <2> HIDE DEF u
  <2>2. \A k : Hits(u, k, Len(t)) = Hits(t, k, Len(t))
    <3> TAKE k
    <3>1. {i \in 1 .. Len(t) : u[i] = k} = {i \in 1 .. Len(t) : t[i] = k}
      BY <2>1
    <3> QED
      BY <3>1 DEF Hits
  <2>3. Open(u, b, Len(t) + 1) = Open(t, b, Len(t) + 1)
    <3>1. (Len(t) + 1) - 1 = Len(t)
      BY <1>1
    <3> QED
      BY <2>2, <3>1 DEF Open
  <2>4. Open(u, b, (Len(t) + 1) + 1) = Open(u, b, Len(t) + 1) + Opened(b, u[Len(t) + 1])
    <3>1. Open(u, b, m + 1) = Open(u, b, m) + Opened(b, u[m])
      BY <1>6, OpenFacts
    <3> QED
      BY <1>6, <3>1
  <2>5. Surplus(u, b) = Surplus(t, b) + Opened(b, c)
    BY <2>1, <2>3, <2>4 DEF Surplus
  <2> QED
    BY <2>5 DEF u
<1>5. Surplus(t, b) = Occurrences(t, b) - Occurrences(t, Closing[b])
  <2>1. (Len(t) + 1) - 1 = Len(t)
    BY <1>1
  <2> QED
    BY <1>1, <2>1 DEF Surplus, Open, Hits, Occurrences
<1> QED
  BY <1>2, <1>3, <1>4, <1>5

-----------------------------------------------------------------------------
(* What the grammar derives is balanced.                                   *)

(* The positions at least d tokens behind i before which, counted from i,  *)
(* the bracket o is the only one open.                                     *)
Zone(t, i, o, d) ==
    {q \in i + d .. Len(t) + 1 :
        \A b \in Openings : Open(t, b, q) = Open(t, b, i) + (IF b = o THEN 1 ELSE 0)}

Plain(c) == \A b \in Openings : c # b /\ c # Closing[b]

(* A token leads from zone to zone: one that is no bracket, one that opens *)
(* a bracket, and the one that closes it.                                  *)
LEMMA PastZone ==
    ASSUME NEW t, Len(t) \in Nat, NEW i \in Nat, i > 0, NEW o, NEW d \in {0, 1},
           NEW P, P \subseteq Zone(t, i, o, d), NEW c
    PROVE  /\ Plain(c) => Past(t, P, c) \subseteq Zone(t, i, o, 1)
           /\ c \in Openings /\ o \notin Openings => Past(t, P, c) \subseteq Zone(t, i, c, 1)
           /\ o \in Openings /\ c = Closing[o] => Past(t, P, c) \subseteq Zone(t, i, "none", 1)
<1>1. ASSUME NEW q \in Past(t, P, c)
      PROVE  /\ q \in i + 1 .. Len(t) + 1
             /\ \A b \in Openings :
                    /\ Open(t, b, i) \in Int
                    /\ Open(t, b, q) = Open(t, b, i) + (IF b = o THEN 1 ELSE 0) + Opened(b, c)
  <2>1. PICK p \in P : q = p + 1 /\ p <= Len(t) /\ t[p] = c
    BY DEF Past, At
  <2>2. /\ p \in i + d .. Len(t) + 1
        /\ \A b \in Openings : Open(t, b, p) = Open(t, b, i) + (IF b = o THEN 1 ELSE 0)
    BY DEF Zone
  <2>3. p \in Nat /\ p > 0 /\ q \in i + 1 .. Len(t) + 1
    BY <2>1, <2>2
  <2>4. ASSUME NEW b \in Openings
        PROVE  /\ Open(t, b, i) \in Int
               /\ Open(t, b, p + 1) = Open(t, b, p) + Opened(b, t[p])
    BY <2>3, OpenFacts
  <2> QED
    BY <2>1, <2>2, <2>3, <2>4
<1>2. ASSUME Plain(c), NEW q \in Past(t, P, c)
      PROVE  q \in Zone(t, i, o, 1)
  <2>1. \A b \in Openings : Opened(b, c) = 0
    BY <1>2 DEF Plain, Opened
  <2> QED
    BY <1>1, <2>1 DEF Zone
<1>3. ASSUME c \in Openings, o \notin Openings, NEW q \in Past(t, P, c)
      PROVE  q \in Zone(t, i, c, 1)
  <2>1. ASSUME NEW b \in Openings
        PROVE  Opened(b, c) = (IF b = c THEN 1 ELSE 0) /\ b # o
    <3>1. c # Closing[b] /\ b # o
      BY <1>3, BracketsDiffer
    <3> QED
      BY <3>1 DEF Opened
  <2> QED
    BY <1>1, <2>1 DEF Zone
<1>4. ASSUME o \in Openings, c = Closing[o], NEW q \in Past(t, P, c)
      PROVE  q \in Zone(t, i, "none", 1)
  <2>1. ASSUME NEW b \in Openings
        PROVE  Opened(b, c) = (IF b = o THEN 0 - 1 ELSE 0) /\ b # "none"
    <3>1. b # "none" /\ c # b /\ (c = Closing[b] <=> b = o)
      BY <1>4, BracketsDiffer
    <3> QED
      BY <3>1 DEF Opened
  <2> QED
    BY <1>1, <2>1 DEF Zone
<1> QED
  BY <1>2, <1>3, <1>4

(* What is known of a place in the table of the grammar.                   *)
Good(t, p, r) ==
    /\ r["expr"] \subseteq Zone(t, p, "none", 0)
    /\ r["postfixes"] \subseteq Zone(t, p, "none", 0)
    /\ r["exprs"] \subseteq Zone(t, p, "none", 0)
    /\ r["params"] \subseteq Zone(t, p, "none", 0)
    /\ r["block"] \subseteq {q \in Zone(t, p, "none", 1) : t[q - 1] = "}"}
    /\ r["elifs"] \subseteq {q \in Zone(t, p, "none", 0) : q = p \/ t[q - 1] = "}"}
    /\ r["stmts"] \subseteq {q \in Zone(t, p, "none", 0) : q = p \/ t[q - 1] \in Ends}

GoodBehind(t, later, i) == \A p \in i + 1 .. Len(t) + 1 : Good(t, p, later[p])

Nonterminals == {"expr", "postfixes", "exprs", "params", "block", "elifs", "stmts"}

(* A nonterminal stays in its zone.                                        *)
LEMMA ThenZone ==
    ASSUME NEW t, Len(t) \in Nat, NEW i \in Nat, i > 0, NEW o,
           NEW P, P \subseteq Zone(t, i, o, 1), NEW later, GoodBehind(t, later, i),
           NEW nonterminal \in Nonterminals
    PROVE  Then(P, later, nonterminal) \subseteq Zone(t, i, o, 1)
<1> SUFFICES ASSUME NEW q \in Then(P, later, nonterminal)
             PROVE  q \in Zone(t, i, o, 1)
  OBVIOUS
<1>1. PICK p \in P : q \in later[p][nonterminal]
  BY DEF Then
<1>2. /\ p \in i + 1 .. Len(t) + 1
      /\ \A b \in Openings : Open(t, b, p) = Open(t, b, i) + (IF b = o THEN 1 ELSE 0)
  BY DEF Zone
<1>3. Good(t, p, later[p])
  BY <1>2 DEF GoodBehind
<1>4. q \in Zone(t, p, "none", 0) \union Zone(t, p, "none", 1)
  BY <1>1, <1>3 DEF Good, Nonterminals
<1>5. /\ q \in p .. Len(t) + 1
      /\ \A b \in Openings : Open(t, b, q) = Open(t, b, p) + (IF b = "none" THEN 1 ELSE 0)
  BY <1>2, <1>4 DEF Zone
<1>6. ASSUME NEW b \in Openings
      PROVE  b # "none" /\ Open(t, b, p) \in Int
  BY <1>2, BracketsDiffer, OpenFacts
<1> QED
  BY <1>2, <1>5, <1>6 DEF Zone

(* A position is in its own zone.                                          *)
LEMMA HereZone ==
    ASSUME NEW t, Len(t) \in Nat, NEW i \in 1 .. Len(t) + 1
    PROVE  {i} \subseteq Zone(t, i, "none", 0)
<1>1. i \in Nat /\ i > 0 /\ i \in i + 0 .. Len(t) + 1
  OBVIOUS
<1>2. ASSUME NEW b \in Openings
      PROVE  b # "none" /\ Open(t, b, i) \in Int
  BY <1>1, BracketsDiffer, OpenFacts
<1> QED
  BY <1>1, <1>2 DEF Zone

PlainTokens == {"x", "str", "fn", "let", "not", "if", "elif", "else", "while", "return",
                ";", ",", "=", "-", "+", "/"}

(* The tokens of the rules: the zones are left by no token but a bracket.   *)
LEMMA TokenFacts ==
    /\ 0 \in {0, 1} /\ 1 \in {0, 1}
    /\ "none" \notin Openings
    /\ "(" \in Openings /\ Closing["("] = ")"
    /\ "[" \in Openings /\ Closing["["] = "]"
    /\ "{" \in Openings /\ Closing["{"] = "}"
    /\ \A c \in PlainTokens : Plain(c)
    /\ "expr" \in Nonterminals /\ "postfixes" \in Nonterminals
    /\ "exprs" \in Nonterminals /\ "params" \in Nonterminals
    /\ "block" \in Nonterminals /\ "elifs" \in Nonterminals /\ "stmts" \in Nonterminals
    /\ ";" \in Ends /\ "}" \in Ends
<1>1. \A c \in PlainTokens : Plain(c)
  BY BracketFacts DEF Plain, PlainTokens
<1>2. /\ "expr" \in Nonterminals /\ "postfixes" \in Nonterminals
      /\ "exprs" \in Nonterminals /\ "params" \in Nonterminals
      /\ "block" \in Nonterminals /\ "elifs" \in Nonterminals /\ "stmts" \in Nonterminals
  BY DEF Nonterminals
<1>3. ";" \in Ends /\ "}" \in Ends
  BY DEF Ends
<1>4. "none" \notin Openings
  BY BracketFacts
<1>5. 0 \in {0, 1} /\ 1 \in {0, 1}
  OBVIOUS
<1> QED
  BY <1>1, <1>2, <1>3, <1>4, <1>5, BracketFacts

(* A token of a rule leaves no zone.                                       *)
LEMMA PlainZone ==
    ASSUME NEW t, Len(t) \in Nat, NEW i \in Nat, i > 0, NEW o, NEW d \in {0, 1},
           NEW P, P \subseteq Zone(t, i, o, d), NEW c \in PlainTokens
    PROVE  Past(t, P, c) \subseteq Zone(t, i, o, 1)
BY PastZone, TokenFacts

(* Positions are numbers.                                                  *)
LEMMA ZoneType ==
    ASSUME NEW t, Len(t) \in Nat, NEW i \in 1 .. Len(t) + 1, NEW o
    PROVE  Zone(t, i, o, 1) \subseteq Int
BY DEF Zone

(* What stands in front of a place a token leads to.                       *)
LEMMA PastBefore ==
    ASSUME NEW t, NEW P, P \subseteq Int, NEW c, NEW q \in Past(t, P, c)
    PROVE  t[q - 1] = c
<1>1. \E p \in P : q = p + 1 /\ t[p] = c
  BY DEF Past, At
<1>2. PICK p \in Int : q = p + 1 /\ t[p] = c
  BY <1>1
<1>3. q - 1 = p
  BY <1>2
<1> QED
  BY <1>2, <1>3

(* A sequence of expressions keeps to its zone.                            *)
LEMMA SeqZone ==
    ASSUME NEW t, Len(t) \in Nat, NEW i \in Nat, i > 0, NEW o,
           NEW P, P \subseteq Zone(t, i, o, 1), NEW later, GoodBehind(t, later, i)
    PROVE  ExprSeq(P, later) \subseteq Zone(t, i, o, 1)
<1> DEFINE begun == P \union Then(P, later, "expr")
<1>1. Then(P, later, "expr") \subseteq Zone(t, i, o, 1)
  BY TokenFacts, ThenZone
<1>2. begun \subseteq Zone(t, i, o, 1)
  BY <1>1
<1> HIDE DEF begun
<1>3. Then(begun, later, "exprs") \subseteq Zone(t, i, o, 1)
  BY <1>2, TokenFacts, ThenZone
<1> QED
  BY <1>3 DEF ExprSeq, begun

(* The names of a parameter, and what follows in either list.              *)
LEMMA ParamZone ==
    ASSUME NEW t, Len(t) \in Nat, NEW i \in Nat, i > 0, NEW o,
           NEW P, P \subseteq Zone(t, i, o, 1)
    PROVE  Param(t, P) \subseteq Zone(t, i, o, 1)
<1> DEFINE name == Past(t, P, "x")
<1>0. "x" \in PlainTokens /\ 1 \in {0, 1}
  BY DEF PlainTokens
<1>1. name \subseteq Zone(t, i, o, 1)
  BY <1>0, PlainZone
<1> HIDE DEF name
<1>2. Past(t, name, "x") \subseteq Zone(t, i, o, 1)
  BY <1>0, <1>1, PlainZone
<1> QED
  BY <1>2 DEF Param, name

LEMMA ListsZone ==
    ASSUME NEW t, Len(t) \in Nat, NEW i \in 1 .. Len(t) + 1,
           NEW later, GoodBehind(t, later, i)
    PROVE  /\ Params(t, i, later) \subseteq Zone(t, i, "none", 0)
           /\ Exprs(t, i, later) \subseteq Zone(t, i, "none", 0)
<1> DEFINE comma == Past(t, {i}, ",")
           param == Param(t, comma)
           expr  == Then(comma, later, "expr")
<1>1. i \in Nat /\ i > 0 /\ "," \in PlainTokens /\ 0 \in {0, 1}
  BY DEF PlainTokens
<1>2. {i} \subseteq Zone(t, i, "none", 0)
  BY HereZone
<1>3. comma \subseteq Zone(t, i, "none", 1)
  BY <1>1, <1>2, PlainZone
<1> HIDE DEF comma
<1>4. param \subseteq Zone(t, i, "none", 1)
  BY <1>1, <1>3, ParamZone
<1>5. expr \subseteq Zone(t, i, "none", 1)
  BY <1>1, <1>3, TokenFacts, ThenZone
<1> HIDE DEF param, expr
<1>6. Then(param, later, "params") \subseteq Zone(t, i, "none", 1)
  BY <1>1, <1>4, TokenFacts, ThenZone
<1>7. Then(expr, later, "exprs") \subseteq Zone(t, i, "none", 1)
  BY <1>1, <1>5, TokenFacts, ThenZone
<1>8. Zone(t, i, "none", 1) \subseteq Zone(t, i, "none", 0)
  BY DEF Zone
<1>9. /\ Params(t, i, later) = {i} \union Then(param, later, "params")
      /\ Exprs(t, i, later) = {i} \union Then(expr, later, "exprs")
  BY DEF Params, Exprs, param, expr, comma
<1> QED
  BY <1>2, <1>6, <1>7, <1>8, <1>9

(* The parentheses of a function header are balanced.                      *)
LEMMA FnHeadZone ==
    ASSUME NEW t, Len(t) \in Nat, NEW i \in 1 .. Len(t) + 1,
           NEW later, GoodBehind(t, later, i)
    PROVE  FnHead(t, i, later) \subseteq Zone(t, i, "none", 1)
<1> DEFINE head == Past(t, {i}, "fn")
           open == Past(t, head, "(")
           begun == open \union Param(t, open)
           params == Then(begun, later, "params")
<1>1. i \in Nat /\ i > 0 /\ "fn" \in PlainTokens
  BY DEF PlainTokens
<1>2. {i} \subseteq Zone(t, i, "none", 0)
  BY HereZone
<1>3. head \subseteq Zone(t, i, "none", 1)
  BY <1>1, <1>2, TokenFacts, PlainZone
<1> HIDE DEF head
<1>4. open \subseteq Zone(t, i, "(", 1)
  BY <1>1, <1>3, TokenFacts, PastZone
<1> HIDE DEF open
<1>5. begun \subseteq Zone(t, i, "(", 1)
  BY <1>1, <1>4, ParamZone
<1> HIDE DEF begun
<1>6. params \subseteq Zone(t, i, "(", 1)
  BY <1>1, <1>5, TokenFacts, ThenZone
<1> HIDE DEF params
<1>7. Past(t, params, ")") \subseteq Zone(t, i, "none", 1)
  BY <1>1, <1>6, TokenFacts, PastZone
<1> QED
  BY <1>7 DEF FnHead, head, open, begun, params

(* Every rule keeps to its zone: operands and function literals,           *)
LEMMA PrimaryZone ==
    ASSUME NEW t, Len(t) \in Nat, NEW i \in 1 .. Len(t) + 1,
           NEW later, GoodBehind(t, later, i)
    PROVE  Primary(t, i, later) \subseteq Zone(t, i, "none", 1)
<1> DEFINE Z(o) == Zone(t, i, o, 1)
           paren == Past(t, {i}, "(")
           square == Past(t, {i}, "[")
           typed == Past(t, FnHead(t, i, later), "x")
<1>1. i \in Nat /\ i > 0 /\ "x" \in PlainTokens /\ "str" \in PlainTokens
  BY DEF PlainTokens
<1>2. {i} \subseteq Zone(t, i, "none", 0)
  BY HereZone
<1>3. Past(t, {i}, "x") \subseteq Z("none") /\ Past(t, {i}, "str") \subseteq Z("none")
  BY <1>1, <1>2, TokenFacts, PlainZone
<1>4. paren \subseteq Z("(") /\ square \subseteq Z("[")
  BY <1>1, <1>2, TokenFacts, PastZone
<1> HIDE DEF paren, square
<1>5. Past(t, Then(paren, later, "expr"), ")") \subseteq Z("none")
  <2>1. Then(paren, later, "expr") \subseteq Z("(")
    BY <1>1, <1>4, TokenFacts, ThenZone
  <2> QED
    BY <1>1, <2>1, TokenFacts, PastZone
<1>6. Past(t, ExprSeq(square, later), "]") \subseteq Z("none")
  <2>1. ExprSeq(square, later) \subseteq Z("[")
    BY <1>1, <1>4, TokenFacts, SeqZone
  <2> QED
    BY <1>1, <2>1, TokenFacts, PastZone
<1>7. FnHead(t, i, later) \subseteq Z("none")
  BY FnHeadZone
<1>8. typed \subseteq Z("none")
  BY <1>1, <1>7, TokenFacts, PlainZone
<1> HIDE DEF typed
<1>9. Then(typed, later, "block") \subseteq Z("none")
      /\ Then(FnHead(t, i, later), later, "block") \subseteq Z("none")
  BY <1>1, <1>7, <1>8, TokenFacts, ThenZone
<1> HIDE DEF Z
<1>10. UntypedFn(t, i, later) \subseteq Z("none") /\ TypedFn(t, i, later) \subseteq Z("none")
  BY <1>9 DEF UntypedFn, TypedFn, typed
<1>11. Primary(t, i, later) \subseteq Z("none")
  BY <1>3, <1>5, <1>6, <1>10 DEF Primary, paren, square
<1> QED
  BY <1>11 DEF Z

(* calls and indexing,                                                     *)
LEMMA PostfixesZone ==
    ASSUME NEW t, Len(t) \in Nat, NEW i \in 1 .. Len(t) + 1,
           NEW later, GoodBehind(t, later, i)
    PROVE  Postfixes(t, i, later) \subseteq Zone(t, i, "none", 0)
<1> DEFINE Z(o) == Zone(t, i, o, 1)
           paren == Past(t, {i}, "(")
           square == Past(t, {i}, "[")
           call == Past(t, ExprSeq(paren, later), ")")
           deref == Past(t, Then(square, later, "expr"), "]")
<1>1. i \in Nat /\ i > 0
  OBVIOUS
<1>2. {i} \subseteq Zone(t, i, "none", 0)
  BY HereZone
<1>3. paren \subseteq Z("(") /\ square \subseteq Z("[")
  BY <1>1, <1>2, TokenFacts, PastZone
<1> HIDE DEF paren, square
<1>4. call \subseteq Z("none")
  <2>1. ExprSeq(paren, later) \subseteq Z("(")
    BY <1>1, <1>3, TokenFacts, SeqZone
  <2> QED
    BY <1>1, <2>1, TokenFacts, PastZone
<1>5. deref \subseteq Z("none")
  <2>1. Then(square, later, "expr") \subseteq Z("[")
    BY <1>1, <1>3, TokenFacts, ThenZone
  <2> QED
    BY <1>1, <2>1, TokenFacts, PastZone
<1> HIDE DEF call, deref
<1>6. Then(call \union deref, later, "postfixes") \subseteq Z("none")
  <2>1. call \union deref \subseteq Z("none")
    BY <1>4, <1>5
  <2> HIDE DEF Z
  <2> DEFINE both == call \union deref
  <2> HIDE DEF both
  <2>2. both \subseteq Zone(t, i, "none", 1)
    BY <2>1 DEF both, Z
  <2>3. Then(both, later, "postfixes") \subseteq Zone(t, i, "none", 1)
    BY <1>1, <2>2, TokenFacts, ThenZone
  <2> QED
    BY <2>3 DEF both, Z
<1>7. Z("none") \subseteq Zone(t, i, "none", 0)
  BY <1>1 DEF Zone
<1> HIDE DEF Z
<1>8. Postfixes(t, i, later) = {i} \union Then(call \union deref, later, "postfixes")
  BY DEF Postfixes, call, deref, paren, square
<1> QED
  BY <1>2, <1>6, <1>7, <1>8

(* what begins an expression, and what joins two,                          *)
LEMMA PrefixZone ==
    ASSUME NEW t, Len(t) \in Nat, NEW i \in 1 .. Len(t) + 1
    PROVE  Prefix(t, i) \subseteq Zone(t, i, "none", 1)
<1> DEFINE word == Past(t, {i}, "let")
           name == Past(t, word, "x")
<1>1. i \in Nat /\ i > 0 /\ {"-", "not", "let", "x", "="} \subseteq PlainTokens
  BY DEF PlainTokens
<1>2. {i} \subseteq Zone(t, i, "none", 0)
  BY HereZone
<1>3. /\ Past(t, {i}, "-") \subseteq Zone(t, i, "none", 1)
      /\ Past(t, {i}, "not") \subseteq Zone(t, i, "none", 1)
      /\ word \subseteq Zone(t, i, "none", 1)
  BY <1>1, <1>2, TokenFacts, PlainZone
<1> HIDE DEF word
<1>4. name \subseteq Zone(t, i, "none", 1)
  BY <1>1, <1>3, TokenFacts, PlainZone
<1> HIDE DEF name
<1>5. Past(t, name, "=") \subseteq Zone(t, i, "none", 1)
  BY <1>1, <1>4, TokenFacts, PlainZone
<1> QED
  BY <1>3, <1>5 DEF Prefix, name, word

LEMMA InfixZone ==
    ASSUME NEW t, Len(t) \in Nat, NEW i \in Nat, i > 0, NEW o,
           NEW P, P \subseteq Zone(t, i, o, 1)
    PROVE  Infix(t, P) \subseteq Zone(t, i, o, 1)
<1>1. {"-", "/", "+"} \subseteq PlainTokens /\ 1 \in {0, 1}
  BY DEF PlainTokens
<1>2. /\ Past(t, P, "-") \subseteq Zone(t, i, o, 1)
      /\ Past(t, P, "/") \subseteq Zone(t, i, o, 1)
      /\ Past(t, P, "+") \subseteq Zone(t, i, o, 1)
  BY <1>1, PlainZone
<1> QED
  BY <1>2 DEF Infix

(* expressions,                                                            *)
LEMMA ExprZone ==
    ASSUME NEW t, Len(t) \in Nat, NEW i \in 1 .. Len(t) + 1,
           NEW later, GoodBehind(t, later, i)
    PROVE  Expr(t, i, later) \subseteq Zone(t, i, "none", 1)
<1> DEFINE operand == Then(Primary(t, i, later), later, "postfixes")
           begun == Prefix(t, i) \union Infix(t, operand)
<1>1. i \in Nat /\ i > 0
  OBVIOUS
<1>2. operand \subseteq Zone(t, i, "none", 1)
  BY <1>1, TokenFacts, PrimaryZone, ThenZone
<1> HIDE DEF operand
<1>3. begun \subseteq Zone(t, i, "none", 1)
  BY <1>1, <1>2, PrefixZone, InfixZone
<1> HIDE DEF begun
<1>4. Then(begun, later, "expr") \subseteq Zone(t, i, "none", 1)
  BY <1>1, <1>3, TokenFacts, ThenZone
<1>5. Expr(t, i, later) = operand \union Then(begun, later, "expr")
  BY DEF Expr, operand, begun
<1> QED
  BY <1>2, <1>4, <1>5

(* blocks, which end in a closing brace,                                   *)
LEMMA BlockZone ==
    ASSUME NEW t, Len(t) \in Nat, NEW i \in 1 .. Len(t) + 1,
           NEW later, GoodBehind(t, later, i)
    PROVE  Block(t, i, later) \subseteq {q \in Zone(t, i, "none", 1) : t[q - 1] = "}"}
<1> DEFINE brace == Past(t, {i}, "{")
           body == Then(brace, later, "stmts")
<1>1. i \in Nat /\ i > 0
  OBVIOUS
<1>2. {i} \subseteq Zone(t, i, "none", 0)
  BY HereZone
<1>3. brace \subseteq Zone(t, i, "{", 1)
  BY <1>1, <1>2, TokenFacts, PastZone
<1> HIDE DEF brace
<1>4. body \subseteq Zone(t, i, "{", 1)
  BY <1>1, <1>3, TokenFacts, ThenZone
<1> HIDE DEF body
<1>5. Past(t, body, "}") \subseteq Zone(t, i, "none", 1)
  BY <1>1, <1>4, TokenFacts, PastZone
<1>6. ASSUME NEW q \in Past(t, body, "}")
      PROVE  t[q - 1] = "}"
  BY <1>4, ZoneType, PastBefore
<1>7. Block(t, i, later) = Past(t, body, "}")
  BY DEF Block, body, brace
<1> QED
  BY <1>5, <1>6, <1>7

(* a condition with its block,                                             *)
LEMMA BlockBehind ==
    ASSUME NEW t, Len(t) \in Nat, NEW i \in Nat, i > 0,
           NEW P, P \subseteq Zone(t, i, "none", 1), NEW later, GoodBehind(t, later, i)
    PROVE  Then(P, later, "block") \subseteq {q \in Zone(t, i, "none", 1) : t[q - 1] = "}"}
<1>1. Then(P, later, "block") \subseteq Zone(t, i, "none", 1)
  BY TokenFacts, ThenZone
<1>2. ASSUME NEW q \in Then(P, later, "block")
      PROVE  t[q - 1] = "}"
  <2>1. PICK p \in P : q \in later[p]["block"]
    BY DEF Then
  <2>2. p \in i + 1 .. Len(t) + 1
    BY DEF Zone
  <2>3. Good(t, p, later[p])
    BY <2>2 DEF GoodBehind
  <2> QED
    BY <2>1, <2>3 DEF Good
<1> QED
  BY <1>1, <1>2

LEMMA BranchZone ==
    ASSUME NEW t, Len(t) \in Nat, NEW i \in 1 .. Len(t) + 1,
           NEW later, GoodBehind(t, later, i), NEW c \in PlainTokens
    PROVE  Branch(Past(t, {i}, c), later)
               \subseteq {q \in Zone(t, i, "none", 1) : t[q - 1] = "}"}
<1> DEFINE word == Past(t, {i}, c)
           cond == Then(word, later, "expr")
<1>1. i \in Nat /\ i > 0
  OBVIOUS
<1>2. {i} \subseteq Zone(t, i, "none", 0)
  BY HereZone
<1>3. word \subseteq Zone(t, i, "none", 1)
  BY <1>1, <1>2, TokenFacts, PlainZone
<1> HIDE DEF word
<1>4. cond \subseteq Zone(t, i, "none", 1)
  BY <1>1, <1>3, TokenFacts, ThenZone
<1> HIDE DEF cond
<1>5. Then(cond, later, "block") \subseteq {q \in Zone(t, i, "none", 1) : t[q - 1] = "}"}
  BY <1>1, <1>4, BlockBehind
<1> QED
  BY <1>5 DEF Branch, cond, word

(* and more of them,                                                       *)
LEMMA ElifsBehind ==
    ASSUME NEW t, Len(t) \in Nat, NEW i \in Nat, i > 0, NEW later, GoodBehind(t, later, i),
           NEW P, P \subseteq {q \in Zone(t, i, "none", 1) : t[q - 1] = "}"}
    PROVE  Then(P, later, "elifs") \subseteq {q \in Zone(t, i, "none", 1) : t[q - 1] = "}"}
<1>1. Then(P, later, "elifs") \subseteq Zone(t, i, "none", 1)
  <2>1. P \subseteq Zone(t, i, "none", 1)
    OBVIOUS
  <2> QED
    BY <2>1, TokenFacts, ThenZone
<1>2. ASSUME NEW q \in Then(P, later, "elifs")
      PROVE  t[q - 1] = "}"
  <2>1. PICK p \in P : q \in later[p]["elifs"]
    BY DEF Then
  <2>2. p \in i + 1 .. Len(t) + 1 /\ t[p - 1] = "}"
    BY DEF Zone
  <2>3. Good(t, p, later[p])
    BY <2>2 DEF GoodBehind
  <2>4. q = p \/ t[q - 1] = "}"
    BY <2>1, <2>3 DEF Good
  <2> QED
    BY <2>2, <2>4
<1> QED
  BY <1>1, <1>2

LEMMA ElifsZone ==
    ASSUME NEW t, Len(t) \in Nat, NEW i \in 1 .. Len(t) + 1,
           NEW later, GoodBehind(t, later, i)
    PROVE  Elifs(t, i, later) \subseteq {q \in Zone(t, i, "none", 0) : q = i \/ t[q - 1] = "}"}
<1> DEFINE one == Branch(Past(t, {i}, "elif"), later)
<1>1. i \in Nat /\ i > 0 /\ "elif" \in PlainTokens
  BY DEF PlainTokens
<1>2. one \subseteq {q \in Zone(t, i, "none", 1) : t[q - 1] = "}"}
  BY <1>1, BranchZone
<1> HIDE DEF one
<1>3. Then(one, later, "elifs") \subseteq {q \in Zone(t, i, "none", 1) : t[q - 1] = "}"}
  BY <1>1, <1>2, ElifsBehind
<1>4. {i} \subseteq Zone(t, i, "none", 0)
  BY HereZone
<1>5. Zone(t, i, "none", 1) \subseteq Zone(t, i, "none", 0)
  BY <1>1 DEF Zone
<1>6. Elifs(t, i, later) = {i} \union Then(one, later, "elifs")
  BY DEF Elifs, one
<1> QED
  BY <1>3, <1>4, <1>5, <1>6

LEMMA IfZone ==
    ASSUME NEW t, Len(t) \in Nat, NEW i \in 1 .. Len(t) + 1,
           NEW later, GoodBehind(t, later, i)
    PROVE  IfStmt(t, i, later) \subseteq {q \in Zone(t, i, "none", 1) : t[q - 1] = "}"}
<1> DEFINE one == Branch(Past(t, {i}, "if"), later)
           tested == Then(one, later, "elifs")
           word == Past(t, tested, "else")
<1>1. i \in Nat /\ i > 0 /\ "if" \in PlainTokens /\ "else" \in PlainTokens
  BY DEF PlainTokens
<1>2. one \subseteq {q \in Zone(t, i, "none", 1) : t[q - 1] = "}"}
  BY <1>1, BranchZone
<1> HIDE DEF one
<1>3. tested \subseteq {q \in Zone(t, i, "none", 1) : t[q - 1] = "}"}
  BY <1>1, <1>2, ElifsBehind
<1> HIDE DEF tested
<1>4. word \subseteq Zone(t, i, "none", 1)
  <2>1. tested \subseteq Zone(t, i, "none", 1)
    BY <1>3
  <2> QED
    BY <1>1, <2>1, TokenFacts, PlainZone
<1> HIDE DEF word
<1>5. Then(word, later, "block") \subseteq {q \in Zone(t, i, "none", 1) : t[q - 1] = "}"}
  BY <1>1, <1>4, BlockBehind
<1>6. IfStmt(t, i, later) = tested \union Then(word, later, "block")
  BY DEF IfStmt, word, tested, one
<1> QED
  BY <1>3, <1>5, <1>6

(* what a semicolon ends,                                                  *)
LEMMA SimpleZone ==
    ASSUME NEW t, Len(t) \in Nat, NEW i \in 1 .. Len(t) + 1,
           NEW later, GoodBehind(t, later, i)
    PROVE  /\ Assignment(t, i, later) \subseteq Zone(t, i, "none", 1)
           /\ Return(t, i, later) \subseteq Zone(t, i, "none", 1)
<1> DEFINE name == Past(t, {i}, "x")
           mark == Past(t, name, "=")
           word == Past(t, {i}, "return")
<1>1. i \in Nat /\ i > 0 /\ {"x", "=", "return"} \subseteq PlainTokens
  BY DEF PlainTokens
<1>2. {i} \subseteq Zone(t, i, "none", 0)
  BY HereZone
<1>3. name \subseteq Zone(t, i, "none", 1) /\ word \subseteq Zone(t, i, "none", 1)
  BY <1>1, <1>2, TokenFacts, PlainZone
<1> HIDE DEF name, word
<1>4. mark \subseteq Zone(t, i, "none", 1)
  BY <1>1, <1>3, TokenFacts, PlainZone
<1> HIDE DEF mark
<1>5. /\ Then(mark, later, "expr") \subseteq Zone(t, i, "none", 1)
      /\ Then(word, later, "expr") \subseteq Zone(t, i, "none", 1)
  BY <1>1, <1>3, <1>4, TokenFacts, ThenZone
<1>6. /\ Assignment(t, i, later) = Then(mark, later, "expr")
      /\ Return(t, i, later) = word \union Then(word, later, "expr")
  BY DEF Assignment, Return, mark, name, word
<1> QED
  BY <1>3, <1>5, <1>6

(* statements, which end in a semicolon or a closing brace,                *)
LEMMA StmtZone ==
    ASSUME NEW t, Len(t) \in Nat, NEW i \in 1 .. Len(t) + 1,
           NEW later, GoodBehind(t, later, i)
    PROVE  Stmt(t, i, later) \subseteq {q \in Zone(t, i, "none", 1) : t[q - 1] \in Ends}
<1> DEFINE open == Expr(t, i, later) \union Assignment(t, i, later) \union Return(t, i, later)
           simple == Past(t, open, ";")
<1>1. i \in Nat /\ i > 0 /\ ";" \in PlainTokens /\ "while" \in PlainTokens
  BY DEF PlainTokens
<1>2. open \subseteq Zone(t, i, "none", 1)
  BY ExprZone, SimpleZone
<1> HIDE DEF open
<1>3. simple \subseteq Zone(t, i, "none", 1)
  BY <1>1, <1>2, TokenFacts, PlainZone
<1>4. ASSUME NEW q \in simple
      PROVE  t[q - 1] \in Ends
  <2>1. open \subseteq Int
    BY <1>2, ZoneType
  <2>2. t[q - 1] = ";"
    BY <2>1, PastBefore
  <2> QED
    BY <2>2, TokenFacts
<1> HIDE DEF simple
<1>5. Stmt(t, i, later) = simple \union Block(t, i, later)
                              \union IfStmt(t, i, later) \union WhileStmt(t, i, later)
  BY DEF Stmt, simple, open
<1>6. Block(t, i, later) \subseteq {q \in Zone(t, i, "none", 1) : t[q - 1] = "}"}
  BY BlockZone
<1>7. IfStmt(t, i, later) \subseteq {q \in Zone(t, i, "none", 1) : t[q - 1] = "}"}
  BY IfZone
<1>8. WhileStmt(t, i, later) \subseteq {q \in Zone(t, i, "none", 1) : t[q - 1] = "}"}
  BY <1>1, BranchZone DEF WhileStmt
<1> QED
  BY <1>3, <1>4, <1>5, <1>6, <1>7, <1>8, TokenFacts

(* and programs.                                                           *)
LEMMA StmtListZone ==
    ASSUME NEW t, Len(t) \in Nat, NEW i \in 1 .. Len(t) + 1,
           NEW later, GoodBehind(t, later, i)
    PROVE  StmtList(t, i, later)
               \subseteq {q \in Zone(t, i, "none", 0) : q = i \/ t[q - 1] \in Ends}
<1> DEFINE one == Stmt(t, i, later)
<1>1. i \in Nat /\ i > 0
  OBVIOUS
<1>2. one \subseteq {q \in Zone(t, i, "none", 1) : t[q - 1] \in Ends}
  BY StmtZone
<1> HIDE DEF one
<1>3. Then(one, later, "stmts") \subseteq Zone(t, i, "none", 1)
  <2>1. one \subseteq Zone(t, i, "none", 1)
    BY <1>2
  <2> QED
    BY <1>1, <2>1, TokenFacts, ThenZone
<1>4. ASSUME NEW q \in Then(one, later, "stmts")
      PROVE  t[q - 1] \in Ends
  <2>1. PICK p \in one : q \in later[p]["stmts"]
    BY DEF Then
  <2>2. p \in i + 1 .. Len(t) + 1 /\ t[p - 1] \in Ends
    BY <1>2 DEF Zone
  <2>3. Good(t, p, later[p])
    BY <2>2 DEF GoodBehind
  <2>4. q = p \/ t[q - 1] \in Ends
    BY <2>1, <2>3 DEF Good
  <2> QED
    BY <2>2, <2>4
<1>5. {i} \subseteq Zone(t, i, "none", 0) /\ Zone(t, i, "none", 1) \subseteq Zone(t, i, "none", 0)
  <2>1. {i} \subseteq Zone(t, i, "none", 0)
    BY HereZone
  <2>2. Zone(t, i, "none", 1) \subseteq Zone(t, i, "none", 0)
    BY <1>1 DEF Zone
  <2> QED
    BY <2>1, <2>2
<1>6. StmtList(t, i, later) = {i} \union Then(one, later, "stmts")
  BY DEF StmtList, one
<1> QED
  BY <1>3, <1>4, <1>5, <1>6

(* What is added to the table is good, and so is the finished table.       *)
LEMMA RulesGood ==
    ASSUME NEW t, Len(t) \in Nat, NEW i \in 1 .. Len(t) + 1,
           NEW later, GoodBehind(t, later, i)
    PROVE  Good(t, i, Rules(t, i, later))
<1> DEFINE r == Rules(t, i, later)
<1>1. /\ r["expr"] = Expr(t, i, later)
      /\ r["postfixes"] = Postfixes(t, i, later)
      /\ r["exprs"] = Exprs(t, i, later)
      /\ r["params"] = Params(t, i, later)
      /\ r["block"] = Block(t, i, later)
      /\ r["elifs"] = Elifs(t, i, later)
      /\ r["stmts"] = StmtList(t, i, later)
  BY DEF Rules
<1> HIDE DEF r
<1>2. Zone(t, i, "none", 1) \subseteq Zone(t, i, "none", 0)
  BY DEF Zone
<1>3. r["expr"] \subseteq Zone(t, i, "none", 0) /\ r["postfixes"] \subseteq Zone(t, i, "none", 0)
  BY <1>1, <1>2, ExprZone, PostfixesZone
<1>4. r["exprs"] \subseteq Zone(t, i, "none", 0) /\ r["params"] \subseteq Zone(t, i, "none", 0)
  BY <1>1, ListsZone
<1>5. r["block"] \subseteq {q \in Zone(t, i, "none", 1) : t[q - 1] = "}"}
  BY <1>1, BlockZone
<1>6. r["elifs"] \subseteq {q \in Zone(t, i, "none", 0) : q = i \/ t[q - 1] = "}"}
  BY <1>1, ElifsZone
<1>7. r["stmts"] \subseteq {q \in Zone(t, i, "none", 0) : q = i \/ t[q - 1] \in Ends}
  BY <1>1, StmtListZone
<1>8. Good(t, i, r)
  BY <1>3, <1>4, <1>5, <1>6, <1>7 DEF Good
<1> QED
  BY <1>8 DEF r

(* The table is good from the end to the first token.                      *)
LEMMA TableGood ==
    ASSUME NEW t, Len(t) \in Nat
    PROVE  Good(t, 1, Derived(t)[1])
<1> DEFINE n == Len(t) + 1
<1>1. PICK g : Tables(g, t)
  BY TableTurns
<1> DEFINE P(k) == k <= n => GoodBehind(t, g[k], n - k)
           T == {k \in Nat : P(k)}
<1>2. 0 \in T
  <2>1. (Len(t) + 1) - 0 + 1 .. Len(t) + 1 = {}
    OBVIOUS
  <2>2. GoodBehind(t, g[0], n - 0)
    BY <2>1 DEF GoodBehind
  <2> QED
    BY <2>2
<1>3. ASSUME NEW k \in Nat, k \in T
      PROVE  k + 1 \in T
  <2>1. SUFFICES ASSUME k + 1 <= n PROVE GoodBehind(t, g[k + 1], n - (k + 1))
    OBVIOUS
  <2> DEFINE i == n - k
             later == g[k]
  <2>2. /\ i \in 1 .. Len(t) + 1 /\ k + 1 \in 1 .. Len(t) + 1 /\ (k + 1) - 1 = k
        /\ Len(t) + 2 - (k + 1) = i /\ n - (k + 1) + 1 = i
    BY <2>1
  <2>3. GoodBehind(t, later, i)
    BY <1>3, <2>1
  <2>4. g[k + 1] = AddPosition(t, later, k + 1)
    BY <1>1, <2>2 DEF Tables
  <2> HIDE DEF i, later, n
  <2>5. g[k + 1] = [p \in i .. Len(t) + 1 |-> IF p = i THEN Rules(t, p, later) ELSE later[p]]
    BY <2>2, <2>4 DEF AddPosition
  <2>6. ASSUME NEW p \in i .. Len(t) + 1
        PROVE  Good(t, p, g[k + 1][p])
    <3>1. CASE p = i
      <4>1. g[k + 1][p] = Rules(t, i, later)
        BY <2>5, <3>1
      <4> QED
        BY <2>2, <2>3, <3>1, <4>1, RulesGood
    <3>2. CASE p # i
      <4>1. g[k + 1][p] = later[p] /\ p \in i + 1 .. Len(t) + 1
        BY <2>2, <2>5, <3>2
      <4> QED
        BY <2>3, <4>1 DEF GoodBehind
    <3> QED
      BY <3>1, <3>2
  <2> QED
    BY <2>2, <2>6 DEF GoodBehind
<1> HIDE DEF T
<1>4. n \in T
  BY <1>2, <1>3, SetInduction
<1>5. GoodBehind(t, g[n], 0)
  BY <1>4 DEF T
<1>6. 1 \in 0 + 1 .. Len(t) + 1
  OBVIOUS
<1>7. Derived(t) = g[n]
  BY <1>1 DEF Tables
<1> QED
  BY <1>5, <1>6, <1>7 DEF GoodBehind

(* A program has as many closing brackets of each kind as opening ones,    *)
(* and unless it is empty it ends in a semicolon or a closing brace.       *)
LEMMA ProgramFacts ==
    ASSUME NEW t, IsSeq(t), Derives(t)
    PROVE  /\ \A b \in Openings : Surplus(t, b) = 0
           /\ Len(t) > 0 => t[Len(t)] \in Ends
<1>1. Len(t) \in Nat
  BY LenProperties DEF IsSeq
<1> DEFINE q == Len(t) + 1
<1>2. q \in Derived(t)[1]["stmts"]
  BY DEF Derives
<1>3. Good(t, 1, Derived(t)[1])
  BY <1>1, TableGood
<1>4. q \in Zone(t, 1, "none", 0) /\ (q = 1 \/ t[q - 1] \in Ends)
  BY <1>2, <1>3 DEF Good
<1>5. ASSUME NEW b \in Openings
      PROVE  Surplus(t, b) = 0
  <2>1. Open(t, b, 1) = 0
    BY OpenFacts
  <2>2. Open(t, b, q) = Open(t, b, 1) + (IF b = "none" THEN 1 ELSE 0)
    BY <1>4 DEF Zone
  <2>3. b # "none"
    BY BracketsDiffer
  <2> QED
    BY <2>1, <2>2, <2>3 DEF Surplus
<1>6. ASSUME Len(t) > 0
      PROVE  t[Len(t)] \in Ends
  <2>1. q # 1 /\ q - 1 = Len(t)
    BY <1>1, <1>6
  <2> HIDE DEF q
  <2> QED
    BY <1>4, <2>1
<1> QED
  BY <1>5, <1>6

-----------------------------------------------------------------------------
(* The two scanners, state by state.                                       *)

Solid == Brackets \union Words \union Marks

Silent == Blanks \union Unmatched

LexStates == [mode    : {"INITIAL", "slash", "comment", "STR", "escape"},
              tokens  : Seq(Pieces \union {"str"}),
              ignored : BOOLEAN]

ScanStates == [balance : [Openings -> Int], in_string : BOOLEAN,
               in_comment : BOOLEAN, skip : BOOLEAN]

(* Every piece is one of these.                                            *)
LEMMA PieceFacts ==
    /\ \A c \in Pieces : c \in Solid \union Silent \union {"quote", "/"}
    /\ \A c \in Solid : c \notin Silent \union {"quote", "/"} /\ c \in Pieces
    /\ \A c \in Silent : c \notin {"quote", "/"}
    /\ "/" \in Pieces
    /\ "quote" \notin Blanks \union Unmatched /\ "/" \notin Blanks \union Unmatched
    /\ "backslash" \notin Blanks /\ "backslash" \in Unmatched /\ "nl" \in Blanks
BY DEF Pieces, Solid, Silent, Blanks, Unmatched, Brackets, Words, Marks

(* Only brackets count.                                                    *)
LEMMA OpenedFacts ==
    \A b \in Openings : \A c :
        /\ Opened(b, c) \in Int
        /\ c \in Silent \union {"quote", "/", "str"} => Opened(b, c) = 0
<1> SUFFICES ASSUME NEW b \in Openings, NEW c
             PROVE  /\ Opened(b, c) \in Int
                    /\ c \in Silent \union {"quote", "/", "str"} => Opened(b, c) = 0
  OBVIOUS
<1>1. Opened(b, c) \in Int
  BY DEF Opened
<1>2. ASSUME c \in Silent \union {"quote", "/", "str"}
      PROVE  c # b /\ c # Closing[b]
  BY <1>2, BracketFacts DEF Silent, Blanks, Unmatched
<1> QED
  BY <1>1, <1>2 DEF Opened

(* The rules outside of strings and comments.                              *)
LEMMA InitialFacts ==
    ASSUME NEW h \in LexStates, NEW c \in Pieces
    PROVE  /\ Initial(h, c) \in LexStates
           /\ Initial(h, c).ignored = h.ignored
           /\ c = "quote" => Initial(h, c).mode = "STR" /\ Initial(h, c).tokens = h.tokens
           /\ c = "/" => Initial(h, c).mode = "slash" /\ Initial(h, c).tokens = h.tokens
           /\ c \in Solid => /\ Initial(h, c).mode = h.mode
                             /\ Initial(h, c).tokens = Append(h.tokens, c)
           /\ c \in Silent => Initial(h, c) = h
<1>1. CASE c = "quote"
  <2>1. c \notin Solid /\ c \notin Silent
    BY <1>1, PieceFacts
  <2>2. Initial(h, c) = [h EXCEPT !.mode = "STR"]
    BY <1>1, <2>1 DEF Initial, In, Solid
  <2> QED
    BY <1>1, <2>1, <2>2 DEF LexStates
<1>2. CASE c = "/"
  <2>1. c \notin Solid /\ c \notin Silent
    BY <1>2, PieceFacts
  <2>2. Initial(h, c) = [h EXCEPT !.mode = "slash"]
    BY <1>2, <2>1 DEF Initial, In, Solid
  <2> QED
    BY <1>2, <2>1, <2>2 DEF LexStates
<1>3. CASE c \in Solid
  <2>1. c # "quote" /\ c # "/" /\ c \notin Silent
    BY <1>3, PieceFacts
  <2>2. Initial(h, c) = [h EXCEPT !.tokens = Append(h.tokens, c)]
    BY <1>3, <2>1 DEF Initial, Emit, Solid
  <2>3. Append(h.tokens, c) \in Seq(Pieces \union {"str"})
    <3>1. h.tokens \in Seq(Pieces \union {"str"}) /\ c \in Pieces \union {"str"}
      BY DEF LexStates
    <3> QED
      BY <3>1, AppendProperties
  <2> QED
    BY <2>1, <2>2, <2>3 DEF LexStates
<1>4. CASE c \in Silent
  <2>1. c # "quote" /\ c # "/" /\ c \notin Solid
    BY <1>4, PieceFacts
  <2>2. Initial(h, c) = h
    BY <2>1 DEF Initial, Solid
  <2> QED
    BY <2>1, <2>2
<1> QED
  BY <1>1, <1>2, <1>3, <1>4, PieceFacts

(* The rest of a turn of the scanner only sets ignored.                    *)
LEMMA TakeFacts ==
    ASSUME NEW h \in LexStates, NEW c, Match(h, c) \in LexStates,
           Match(h, c).ignored = h.ignored
    PROVE  /\ Take(h, c) \in LexStates
           /\ Take(h, c).mode = Match(h, c).mode
           /\ Take(h, c).tokens = Match(h, c).tokens
           /\ c \in Blanks => Take(h, c).ignored = h.ignored
           /\ c \notin Blanks => Take(h, c).ignored
                                     = (Match(h, c).mode = "comment" \/ c \in Unmatched)
<1> DEFINE next == Match(h, c)
<1>1. Take(h, c) = IF c \in Blanks THEN next
                   ELSE [next EXCEPT !.ignored = next.mode = "comment" \/ c \in Unmatched]
  BY DEF Take
<1>2. next \in LexStates /\ next.ignored = h.ignored
  OBVIOUS
<1> HIDE DEF next
<1>3. CASE c \in Blanks
  BY <1>1, <1>2, <1>3 DEF next
<1>4. CASE c \notin Blanks
  <2> DEFINE flag == next.mode = "comment" \/ c \in Unmatched
  <2>1. flag \in BOOLEAN /\ Take(h, c) = [next EXCEPT !.ignored = flag]
    BY <1>1, <1>4
  <2> HIDE DEF flag
  <2>2. Take(h, c) \in LexStates /\ Take(h, c).mode = next.mode
        /\ Take(h, c).tokens = next.tokens /\ Take(h, c).ignored = flag
    BY <1>2, <2>1 DEF LexStates
  <2> QED
    BY <1>4, <2>2 DEF next, flag
<1> QED
  BY <1>3, <1>4

(* The scanner after a slash that begins no comment.                       *)
Slashed(h) == In(Emit(h, "/"), "INITIAL")

(* That slash has become a token.                                          *)
LEMMA SlashedFacts ==
    ASSUME NEW h \in LexStates
    PROVE  /\ Slashed(h) \in LexStates
           /\ Slashed(h).mode = "INITIAL"
           /\ Slashed(h).tokens = Append(h.tokens, "/")
           /\ Slashed(h).ignored = h.ignored
<1>1. Append(h.tokens, "/") \in Seq(Pieces \union {"str"})
  <2>1. h.tokens \in Seq(Pieces \union {"str"}) /\ "/" \in Pieces \union {"str"}
    BY PieceFacts DEF LexStates
  <2> QED
    BY <2>1, AppendProperties
<1>2. Slashed(h) = [[h EXCEPT !.tokens = Append(h.tokens, "/")] EXCEPT !.mode = "INITIAL"]
  BY DEF Slashed, Emit, In
<1> QED
  BY <1>1, <1>2 DEF LexStates

(* A turn, start condition by start condition.                             *)
Cut(h, c, m) ==
    /\ m \in LexStates /\ m.ignored = h.ignored
    /\ h.mode = "INITIAL" => m = Initial(h, c)
    /\ h.mode = "slash" /\ c # "/" => m = Initial(Slashed(h), c)
    /\ h.mode = "slash" /\ c = "/" => m.mode = "comment" /\ m.tokens = h.tokens
    /\ h.mode = "comment" =>
           m.mode = (IF c = "nl" THEN "INITIAL" ELSE "comment") /\ m.tokens = h.tokens
    /\ h.mode = "STR" /\ c = "quote" =>
           m.mode = "INITIAL" /\ m.tokens = Append(h.tokens, "str")
    /\ h.mode = "STR" /\ c # "quote" =>
           m.mode = (IF c = "backslash" THEN "escape" ELSE "STR") /\ m.tokens = h.tokens
    /\ h.mode = "escape" => m.mode = "STR" /\ m.tokens = h.tokens

(* Every turn of the scanner is one of these.                              *)
LEMMA MatchFacts ==
    ASSUME NEW h \in LexStates, NEW c \in Pieces
    PROVE  Cut(h, c, Match(h, c))
<1> DEFINE m == Match(h, c)
<1>0. SUFFICES Cut(h, c, m)
  OBVIOUS
<1>1. CASE h.mode = "INITIAL"
  <2>1. Match(h, c) = Initial(h, c)
    BY <1>1 DEF Match
  <2> QED
    BY <1>1, <2>1, InitialFacts DEF Cut
<1>2. CASE h.mode = "slash" /\ c # "/"
  <2>1. Match(h, c) = Initial(Slashed(h), c)
    BY <1>2 DEF Match, Slashed
  <2> QED
    BY <1>2, <2>1, SlashedFacts, InitialFacts DEF Cut
<1>3. CASE h.mode = "slash" /\ c = "/"
  <2>1. Match(h, c) = [h EXCEPT !.mode = "comment"]
    BY <1>3 DEF Match, In
  <2> QED
    BY <1>3, <2>1 DEF LexStates, Cut
<1>4. CASE h.mode = "comment"
  <2>1. Match(h, c) = IF c = "nl" THEN [h EXCEPT !.mode = "INITIAL"] ELSE h
    BY <1>4 DEF Match, In
  <2> QED
    BY <1>4, <2>1 DEF LexStates, Cut
<1>5. CASE h.mode = "STR" /\ c = "quote"
  <2>1. Match(h, c) = [[h EXCEPT !.tokens = Append(h.tokens, "str")] EXCEPT !.mode = "INITIAL"]
    BY <1>5 DEF Match, In, Emit
  <2>2. Append(h.tokens, "str") \in Seq(Pieces \union {"str"})
    <3>1. h.tokens \in Seq(Pieces \union {"str"}) /\ "str" \in Pieces \union {"str"}
      BY DEF LexStates
    <3> QED
      BY <3>1, AppendProperties
  <2> QED
    BY <1>5, <2>1, <2>2 DEF LexStates, Cut
<1>6. CASE h.mode = "STR" /\ c # "quote"
  <2>1. Match(h, c) = IF c = "backslash" THEN [h EXCEPT !.mode = "escape"] ELSE h
    BY <1>6 DEF Match, In
  <2> QED
    BY <1>6, <2>1 DEF LexStates, Cut
<1>7. CASE h.mode = "escape"
  <2>1. Match(h, c) = [h EXCEPT !.mode = "STR"]
    BY <1>7 DEF Match, In
  <2> QED
    BY <1>7, <2>1 DEF LexStates, Cut
<1> QED
  BY <1>1, <1>2, <1>3, <1>4, <1>5, <1>6, <1>7 DEF LexStates

(* A turn of isInputComplete.                                              *)
Doubled(text, n) == text[n] = "/" /\ n < Len(text) /\ text[n + 1] = "/"

Inside(s, c, u) ==
    /\ u \in ScanStates /\ u.balance = s.balance
    /\ s.skip => ~ u.skip /\ u.in_comment = s.in_comment /\ u.in_string = s.in_string
    /\ ~ s.skip /\ s.in_comment =>
           ~ u.skip /\ u.in_comment = (c # "nl") /\ u.in_string = s.in_string
    /\ ~ s.skip /\ ~ s.in_comment =>
           u.skip = (c = "backslash") /\ ~ u.in_comment /\ u.in_string = (c # "quote")

(* A turn inside of strings and comments does not count brackets.          *)
LEMMA ScanInside ==
    ASSUME NEW s \in ScanStates, NEW text, NEW n, s.skip \/ s.in_comment \/ s.in_string
    PROVE  Inside(s, text[n], ScanChar(text, s, n))
<1>1. CASE s.skip
  <2>1. ScanChar(text, s, n) = [s EXCEPT !.skip = FALSE]
    BY <1>1 DEF ScanChar
  <2> QED
    BY <1>1, <2>1 DEF ScanStates, Inside
<1>2. CASE ~ s.skip /\ s.in_comment
  <2>1. ScanChar(text, s, n) = [s EXCEPT !.in_comment = text[n] # "nl"]
    BY <1>2 DEF ScanChar
  <2> QED
    BY <1>2, <2>1 DEF ScanStates, Inside
<1>3. CASE ~ s.skip /\ ~ s.in_comment /\ s.in_string
  <2>1. SkipsNext(text, n, s) = (text[n] = "backslash")
    BY <1>3 DEF SkipsNext
  <2>2. ScanChar(text, s, n) = [s EXCEPT !.in_string = text[n] # "quote",
                                         !.skip = text[n] = "backslash"]
    BY <1>3, <2>1 DEF ScanChar, Escaped
  <2> QED
    BY <1>3, <2>2 DEF ScanStates, Inside
<1> QED
  BY <1>1, <1>2, <1>3

(* A turn outside of them counts brackets and looks ahead of a slash.      *)
LEMMA ScanOutside ==
    ASSUME NEW s \in ScanStates, NEW text, NEW n,
           ~ s.skip, ~ s.in_comment, ~ s.in_string
    PROVE  /\ ScanChar(text, s, n) \in ScanStates
           /\ ScanChar(text, s, n).in_string = (text[n] = "quote")
           /\ ScanChar(text, s, n).in_comment = Doubled(text, n)
           /\ ScanChar(text, s, n).skip = Doubled(text, n)
           /\ \A b \in Openings : ScanChar(text, s, n).balance[b]
                                      = s.balance[b] + Opened(b, text[n])
<1> DEFINE quoted == text[n] = "quote"
           doubled == Doubled(text, n)
           counted == Count(s.balance, text[n])
<1>1. SkipsNext(text, n, s) = doubled
  BY DEF SkipsNext, Doubled
<1>2. ScanChar(text, s, n) = [s EXCEPT !.in_string = quoted, !.in_comment = doubled,
                                       !.skip = doubled, !.balance = counted]
  BY <1>1 DEF ScanChar, Counted
<1>3. quoted \in BOOLEAN /\ doubled \in BOOLEAN
  BY DEF Doubled
<1>4. /\ counted \in [Openings -> Int]
      /\ \A b \in Openings : counted[b] = s.balance[b] + Opened(b, text[n])
  <2>1. \A b \in Openings : s.balance[b] \in Int
    BY DEF ScanStates
  <2>2. counted = [b \in Openings |-> s.balance[b] + (IF text[n] = b THEN 1 ELSE 0)
                                          - (IF text[n] = Closing[b] THEN 1 ELSE 0)]
    BY DEF Count, Openings
  <2> HIDE DEF counted
  <2> QED
    BY <2>1, <2>2 DEF Opened
<1> HIDE DEF quoted, doubled, counted
<1>5. LET u == ScanChar(text, s, n)
      IN  /\ u \in ScanStates /\ u.in_string = quoted /\ u.in_comment = doubled
          /\ u.skip = doubled /\ u.balance = counted
  BY <1>2, <1>3, <1>4 DEF ScanStates
<1> QED
  BY <1>4, <1>5 DEF quoted, doubled

-----------------------------------------------------------------------------
(* The two scanners in step.                                               *)

(* The same place in the same text, by the scanner's start condition.  A   *)
(* slash is only known to begin a comment when the next piece is read,     *)
(* where isInputComplete has looked ahead.                                 *)
SamePlace(text, i, s, h) ==
    /\ h.mode = "INITIAL" => ~ s.in_string /\ ~ s.in_comment /\ ~ s.skip
    /\ h.mode = "slash"   => /\ ~ s.in_string /\ s.skip = s.in_comment
                             /\ s.in_comment = (i < Len(text) /\ text[i + 1] = "/")
    /\ h.mode = "comment" => ~ s.in_string /\ s.in_comment /\ ~ s.skip /\ h.ignored
    /\ h.mode = "STR"     => s.in_string /\ ~ s.in_comment /\ ~ s.skip
    /\ h.mode = "escape"  => s.in_string /\ ~ s.in_comment /\ s.skip

SameCount(s, h) == \A b \in Openings : s.balance[b] = Surplus(h.tokens, b)

(* The last piece with ink among the first i.                              *)
LastInked(text, i, last) ==
    /\ last \in 1 .. i /\ text[last] \notin Blanks
    /\ \A j \in 1 .. i : text[j] \notin Blanks => j <= last

(* A piece that is not ignored and ends no input leaves a token that ends  *)
(* none.                                                                   *)
LastToken(text, i, h) ==
    \A last \in 1 .. i :
        /\ LastInked(text, i, last) /\ text[last] \notin Ends
        /\ h.mode = "INITIAL" /\ ~ h.ignored
        => Len(h.tokens) > 0 /\ h.tokens[Len(h.tokens)] \notin Ends

InStep(text, i, s, h) ==
    /\ s \in ScanStates /\ h \in LexStates
    /\ SamePlace(text, i, s, h)
    /\ SameCount(s, h)
    /\ LastToken(text, i, h)

(* What a new token adds.                                                  *)
LEMMA TokenAdded ==
    ASSUME NEW tokens \in Seq(Pieces \union {"str"}), NEW c
    PROVE  /\ \A b \in Openings : /\ Surplus(tokens, b) \in Int
                                  /\ Surplus(Append(tokens, c), b)
                                         = Surplus(tokens, b) + Opened(b, c)
           /\ Len(Append(tokens, c)) > 0
           /\ Append(tokens, c)[Len(Append(tokens, c))] = c
<1>1. IsSeq(tokens)
  BY SeqIsSeq
<1>2. \A b \in Openings : /\ Surplus(tokens, b) \in Int
                          /\ Surplus(Append(tokens, c), b) = Surplus(tokens, b) + Opened(b, c)
  BY <1>1, SurplusFacts
<1>3. Len(tokens) \in Nat /\ Len(Append(tokens, c)) = Len(tokens) + 1
      /\ Append(tokens, c)[Len(tokens) + 1] = c
  BY <1>1, AppendFacts
<1> QED
  BY <1>2, <1>3

(* Outside of strings and comments.                                        *)
LEMMA StepOutside ==
    ASSUME NEW s \in ScanStates, NEW k \in LexStates, NEW text, NEW n \in Nat,
           text[n] \in Pieces,
           k.mode = "INITIAL", ~ s.in_string, ~ s.in_comment, ~ s.skip, SameCount(s, k)
    PROVE  LET u == ScanChar(text, s, n)
               g == Initial(k, text[n])
           IN  /\ u \in ScanStates /\ SameCount(u, g)
               /\ g.mode \in {"INITIAL", "slash", "STR"}
               /\ g.mode = "INITIAL" => ~ u.in_string /\ ~ u.in_comment /\ ~ u.skip
               /\ g.mode = "slash" => /\ ~ u.in_string /\ u.skip = u.in_comment
                                      /\ u.in_comment = (n < Len(text) /\ text[n + 1] = "/")
               /\ g.mode = "STR" => u.in_string /\ ~ u.in_comment /\ ~ u.skip
               /\ text[n] \in Blanks => g = k
               /\ g.mode = "INITIAL" /\ text[n] \notin Silent =>
                      g.tokens = Append(k.tokens, text[n])
<1> DEFINE u == ScanChar(text, s, n)
           g == Initial(k, text[n])
           c == text[n]
<1>1. /\ u \in ScanStates /\ u.in_string = (c = "quote")
      /\ u.in_comment = Doubled(text, n) /\ u.skip = Doubled(text, n)
      /\ \A b \in Openings : u.balance[b] = s.balance[b] + Opened(b, c)
  <2>1. /\ ScanChar(text, s, n) \in ScanStates
        /\ ScanChar(text, s, n).in_string = (text[n] = "quote")
        /\ ScanChar(text, s, n).in_comment = Doubled(text, n)
        /\ ScanChar(text, s, n).skip = Doubled(text, n)
        /\ \A b \in Openings : ScanChar(text, s, n).balance[b]
                                   = s.balance[b] + Opened(b, text[n])
    BY ScanOutside, Zenon
  <2> QED
    BY <2>1
<1>2. /\ g \in LexStates
      /\ c = "quote" => g.mode = "STR" /\ g.tokens = k.tokens
      /\ c = "/" => g.mode = "slash" /\ g.tokens = k.tokens
      /\ c \in Solid => g.mode = "INITIAL" /\ g.tokens = Append(k.tokens, c)
      /\ c \in Silent => g = k
  BY InitialFacts
<1>3. /\ c \in Solid \union Silent \union {"quote", "/"}
      /\ Blanks \subseteq Silent
      /\ c \in Solid \union Silent => c # "quote" /\ c # "/"
      /\ c \in Solid => c \notin Silent
  BY PieceFacts DEF Silent
<1>4. ASSUME NEW b \in Openings
      PROVE  u.balance[b] = Surplus(g.tokens, b)
  <2>1. k.tokens \in Seq(Pieces \union {"str"})
    BY DEF LexStates
  <2>2. /\ Surplus(k.tokens, b) \in Int
        /\ Surplus(Append(k.tokens, c), b) = Surplus(k.tokens, b) + Opened(b, c)
    BY <2>1, TokenAdded
  <2>3. s.balance[b] = Surplus(k.tokens, b)
    BY DEF SameCount
  <2>4. CASE c \in Solid
    BY <1>1, <1>2, <2>2, <2>3, <2>4
  <2>5. CASE c \in Silent \union {"quote", "/"}
    <3>1. Opened(b, c) = 0
      BY <2>5, OpenedFacts
    <3>2. g.tokens = k.tokens
      BY <1>2, <2>5
    <3> QED
      BY <1>1, <2>2, <2>3, <3>1, <3>2
  <2> QED
    BY <1>3, <2>4, <2>5
<1> HIDE DEF u, g, c
<1>5. c # "/" => ~ Doubled(text, n)
  BY DEF Doubled, c
<1>6. c = "/" => Doubled(text, n) = (n < Len(text) /\ text[n + 1] = "/")
  BY DEF Doubled, c
<1>7. SameCount(u, g)
  BY <1>4 DEF SameCount
<1>8. /\ u \in ScanStates /\ SameCount(u, g)
      /\ g.mode \in {"INITIAL", "slash", "STR"}
      /\ g.mode = "INITIAL" => ~ u.in_string /\ ~ u.in_comment /\ ~ u.skip
      /\ g.mode = "slash" => /\ ~ u.in_string /\ u.skip = u.in_comment
                             /\ u.in_comment = (n < Len(text) /\ text[n + 1] = "/")
      /\ g.mode = "STR" => u.in_string /\ ~ u.in_comment /\ ~ u.skip
      /\ c \in Blanks => g = k
      /\ g.mode = "INITIAL" /\ c \notin Silent => g.tokens = Append(k.tokens, c)
  <2>1. CASE c = "quote"
    BY <1>1, <1>2, <1>3, <1>5, <1>7, <2>1
  <2>2. CASE c = "/"
    BY <1>1, <1>2, <1>3, <1>6, <1>7, <2>2
  <2>3. CASE c \in Solid
    BY <1>1, <1>2, <1>3, <1>5, <1>7, <2>3
  <2>4. CASE c \in Silent
    BY <1>1, <1>2, <1>3, <1>5, <1>7, <2>4
  <2> QED
    BY <1>3, <2>1, <2>2, <2>3, <2>4
<1> QED
  BY <1>8 DEF u, g, c

(* Inside of strings and comments, and where a comment begins.             *)
LEMMA StepInside ==
    ASSUME NEW s \in ScanStates, NEW h \in LexStates, NEW text, NEW i \in Nat,
           text[i + 1] \in Pieces, i < Len(text), SamePlace(text, i, s, h), SameCount(s, h),
           \/ h.mode \in {"comment", "STR", "escape"}
           \/ h.mode = "slash" /\ text[i + 1] = "/"
    PROVE  LET u == ScanChar(text, s, i + 1)
               m == Match(h, text[i + 1])
           IN  /\ u \in ScanStates /\ SameCount(u, m)
               /\ m.mode \in {"INITIAL", "comment", "STR", "escape"}
               /\ m.mode = "INITIAL" => ~ u.in_string /\ ~ u.in_comment /\ ~ u.skip
               /\ m.mode = "comment" => ~ u.in_string /\ u.in_comment /\ ~ u.skip
               /\ m.mode = "STR" => u.in_string /\ ~ u.in_comment /\ ~ u.skip
               /\ m.mode = "escape" => u.in_string /\ ~ u.in_comment /\ u.skip
<1> DEFINE u == ScanChar(text, s, i + 1)
           m == Match(h, text[i + 1])
           c == text[i + 1]
<1>1. /\ h.mode = "slash" => c = "/" /\ ~ s.in_string /\ s.skip /\ s.in_comment
      /\ h.mode = "comment" => ~ s.in_string /\ s.in_comment /\ ~ s.skip
      /\ h.mode = "STR"     => s.in_string /\ ~ s.in_comment /\ ~ s.skip
      /\ h.mode = "escape"  => s.in_string /\ ~ s.in_comment /\ s.skip
  BY DEF SamePlace
<1>2. s.skip \/ s.in_comment \/ s.in_string
  BY <1>1
<1>3. Inside(s, c, u)
  BY <1>2, ScanInside
<1>4. Cut(h, c, m)
  BY MatchFacts
<1>5. h.tokens \in Seq(Pieces \union {"str"})
  BY DEF LexStates
<1>9. \/ h.mode \in {"comment", "STR", "escape"}
      \/ h.mode = "slash" /\ c = "/"
  OBVIOUS
<1> HIDE DEF u, m, c
<1>6. ASSUME NEW b \in Openings
      PROVE  u.balance[b] = Surplus(m.tokens, b)
  <2>1. u.balance[b] = Surplus(h.tokens, b)
    BY <1>3 DEF SameCount, Inside
  <2>2. CASE m.tokens = h.tokens
    BY <2>1, <2>2
  <2>3. CASE m.tokens = Append(h.tokens, "str")
    <3>1. Opened(b, "str") = 0
      BY OpenedFacts
    <3>2. /\ Surplus(h.tokens, b) \in Int
          /\ Surplus(Append(h.tokens, "str"), b) = Surplus(h.tokens, b) + Opened(b, "str")
      BY <1>5, TokenAdded
    <3> QED
      BY <2>1, <2>3, <3>1, <3>2
  <2> QED
    BY <1>4, <1>9, <2>2, <2>3 DEF Cut
<1>7. SameCount(u, m)
  BY <1>6 DEF SameCount
<1>8. /\ u \in ScanStates /\ SameCount(u, m)
      /\ m.mode \in {"INITIAL", "comment", "STR", "escape"}
      /\ m.mode = "INITIAL" => ~ u.in_string /\ ~ u.in_comment /\ ~ u.skip
      /\ m.mode = "comment" => ~ u.in_string /\ u.in_comment /\ ~ u.skip
      /\ m.mode = "STR" => u.in_string /\ ~ u.in_comment /\ ~ u.skip
      /\ m.mode = "escape" => u.in_string /\ ~ u.in_comment /\ u.skip
  <2>1. CASE h.mode = "slash"
    BY <1>1, <1>3, <1>4, <1>7, <2>1 DEF Inside, Cut
  <2>2. CASE h.mode = "comment"
    BY <1>1, <1>3, <1>4, <1>7, <2>2 DEF Inside, Cut
  <2>3. CASE h.mode = "STR" /\ c = "quote"
    <3>1. c # "backslash"
      BY <2>3
    <3> QED
      BY <1>1, <1>3, <1>4, <1>7, <2>3, <3>1 DEF Inside, Cut
  <2>4. CASE h.mode = "STR" /\ c # "quote"
    BY <1>1, <1>3, <1>4, <1>7, <2>4 DEF Inside, Cut
  <2>5. CASE h.mode = "escape"
    BY <1>1, <1>3, <1>4, <1>7, <2>5 DEF Inside, Cut
  <2> QED
    BY <1>9, <2>1, <2>2, <2>3, <2>4, <2>5
<1> QED
  BY <1>8 DEF u, m

(* The token a piece leaves.                                               *)
LEMMA StepLast ==
    ASSUME NEW h \in LexStates, NEW text, NEW i \in Nat, text[i + 1] \in Pieces,
           h.mode = "comment" => h.ignored, LastToken(text, i, h)
    PROVE  LastToken(text, i + 1, Take(h, text[i + 1]))
<1> DEFINE c == text[i + 1]
           m == Match(h, c)
           g == Take(h, c)
<1>1. Cut(h, c, m)
  BY MatchFacts
<1>2. /\ g.mode = m.mode /\ g.tokens = m.tokens
      /\ c \in Blanks => g.ignored = h.ignored
      /\ c \notin Blanks => g.ignored = (m.mode = "comment" \/ c \in Unmatched)
  <2>1. Match(h, c) \in LexStates /\ Match(h, c).ignored = h.ignored
    BY <1>1 DEF Cut
  <2> QED
    BY <2>1, TakeFacts
<1> HIDE DEF g, m
<1>3. SUFFICES ASSUME NEW last \in 1 .. i + 1, LastInked(text, i + 1, last),
                      text[last] \notin Ends, m.mode = "INITIAL", ~ g.ignored
               PROVE  Len(m.tokens) > 0 /\ m.tokens[Len(m.tokens)] \notin Ends
  BY <1>2 DEF LastToken, g, c
<1>4. h.mode \in {"INITIAL", "slash", "comment", "STR", "escape"}
      /\ h.tokens \in Seq(Pieces \union {"str"})
  BY DEF LexStates
<1>5. /\ Slashed(h) \in LexStates /\ Slashed(h).mode = "INITIAL"
      /\ Slashed(h).tokens = Append(h.tokens, "/")
  BY SlashedFacts
<1>6. "str" \notin Ends /\ "/" \notin Ends
  BY DEF Ends
<1>7. CASE c \in Blanks
  <2>1. c # "quote" /\ c # "/" /\ c \in Silent
    BY <1>7, PieceFacts DEF Silent
  <2>2. last \in 1 .. i /\ LastInked(text, i, last)
    <3>1. last # i + 1 /\ 1 .. i \subseteq 1 .. i + 1
      BY <1>3, <1>7 DEF LastInked
    <3>2. last \in 1 .. i
      BY <1>3, <3>1
    <3> QED
      BY <1>3, <3>1, <3>2 DEF LastInked
  <2>3. ~ h.ignored
    BY <1>2, <1>3, <1>7
  <2>4. CASE h.mode = "INITIAL"
    <3>1. m = h
      BY <1>1, <2>1, <2>4, InitialFacts DEF Cut
    <3> QED
      BY <1>3, <2>2, <2>3, <2>4, <3>1 DEF LastToken
  <2>5. CASE h.mode = "slash"
    <3>1. m = Slashed(h)
      BY <1>1, <1>5, <2>1, <2>5, InitialFacts DEF Cut
    <3>2. m.tokens = Append(h.tokens, "/")
      BY <1>5, <3>1
    <3> QED
      BY <1>4, <1>6, <3>2, TokenAdded
  <2> QED
    BY <1>1, <1>3, <1>4, <2>1, <2>3, <2>4, <2>5 DEF Cut
<1>8. CASE c \notin Blanks
  <2>1. last = i + 1 /\ c \notin Ends
    <3>1. i + 1 <= last
      BY <1>3, <1>8 DEF LastInked
    <3>2. last = i + 1
      BY <1>3, <3>1
    <3> QED
      BY <1>3, <3>2
  <2>2. c \notin Unmatched /\ c \notin Silent
    BY <1>2, <1>3, <1>8 DEF Silent
  <2>3. ASSUME NEW k \in LexStates, k.mode = "INITIAL", m = Initial(k, c)
        PROVE  m.tokens = Append(k.tokens, c)
    <3>1. /\ c = "quote" => m.mode = "STR"
          /\ c = "/" => m.mode = "slash"
          /\ c \in Solid => m.tokens = Append(k.tokens, c)
      BY <2>3, InitialFacts
    <3>2. c \in Solid
      BY <1>3, <2>2, <3>1, PieceFacts
    <3> QED
      BY <3>1, <3>2
  <2>4. CASE h.mode = "INITIAL"
    <3>1. m.tokens = Append(h.tokens, c)
      BY <1>1, <2>3, <2>4 DEF Cut
    <3> QED
      BY <1>4, <2>1, <3>1, TokenAdded
  <2>5. CASE h.mode = "slash" /\ c # "/"
    <3>1. m.tokens = Append(Slashed(h).tokens, c) /\ Slashed(h).tokens \in Seq(Pieces \union {"str"})
      BY <1>1, <1>5, <2>3, <2>5 DEF LexStates, Cut
    <3> QED
      BY <2>1, <3>1, TokenAdded
  <2>6. CASE h.mode = "STR" /\ c = "quote"
    BY <1>1, <1>4, <1>6, <2>6, TokenAdded DEF Cut
  <2>7. h.mode # "comment"
    <3>1. c # "nl"
      BY <1>8 DEF Blanks
    <3> QED
      BY <1>1, <1>3, <3>1 DEF Cut
  <2> QED
    BY <1>1, <1>3, <1>4, <2>4, <2>5, <2>6, <2>7 DEF Cut
<1> QED
  BY <1>7, <1>8

(* A piece keeps the scanners in step.                                     *)
LEMMA StepInSync ==
    ASSUME NEW text \in Seq(Pieces), NEW i \in Nat, i < Len(text),
           NEW s, NEW h, InStep(text, i, s, h)
    PROVE  InStep(text, i + 1, ScanChar(text, s, i + 1), Take(h, text[i + 1]))
<1> DEFINE c == text[i + 1]
           u == ScanChar(text, s, i + 1)
           m == Match(h, c)
           g == Take(h, c)
<1>1. Len(text) \in Nat /\ i + 1 \in 1 .. Len(text) /\ c \in Pieces
  <2>1. Len(text) \in Nat
    BY LenProperties
  <2>2. i + 1 \in 1 .. Len(text)
    BY <2>1
  <2> QED
    BY <2>1, <2>2, ElementOfSeq
<1>2. /\ s \in ScanStates /\ h \in LexStates /\ SamePlace(text, i, s, h)
      /\ SameCount(s, h) /\ LastToken(text, i, h)
  BY DEF InStep
<1>3. h.mode \in {"INITIAL", "slash", "comment", "STR", "escape"}
  BY <1>2 DEF LexStates
<1>4. Cut(h, c, m)
  BY <1>1, <1>2, MatchFacts
<1>5. /\ g \in LexStates /\ g.mode = m.mode /\ g.tokens = m.tokens
      /\ c \in Blanks => g.ignored = h.ignored
      /\ c \notin Blanks => g.ignored = (m.mode = "comment" \/ c \in Unmatched)
  <2>1. m \in LexStates /\ m.ignored = h.ignored
    BY <1>4 DEF Cut
  <2> QED
    BY <1>2, <2>1, TakeFacts
<1>6. LastToken(text, i + 1, g)
  <2>1. h.mode = "comment" => h.ignored
    BY <1>2 DEF SamePlace
  <2> QED
    BY <1>1, <1>2, <2>1, StepLast
<1> DEFINE Here == /\ u \in ScanStates /\ SameCount(u, m)
                   /\ m.mode = "INITIAL" => ~ u.in_string /\ ~ u.in_comment /\ ~ u.skip
                   /\ m.mode = "slash" =>
                          /\ ~ u.in_string /\ u.skip = u.in_comment
                          /\ u.in_comment = (i + 1 < Len(text) /\ text[(i + 1) + 1] = "/")
                   /\ m.mode = "comment" => ~ u.in_string /\ u.in_comment /\ ~ u.skip
                   /\ m.mode = "STR" => u.in_string /\ ~ u.in_comment /\ ~ u.skip
                   /\ m.mode = "escape" => u.in_string /\ ~ u.in_comment /\ u.skip
                   /\ m.mode = "comment" => h.mode \in {"slash", "comment"}
<1>7. ASSUME h.mode = "INITIAL" \/ (h.mode = "slash" /\ c # "/")
      PROVE  Here
  <2> DEFINE k == IF h.mode = "INITIAL" THEN h ELSE Slashed(h)
  <2>1. k \in LexStates /\ k.mode = "INITIAL" /\ m = Initial(k, c)
    BY <1>2, <1>4, <1>7, SlashedFacts DEF Cut
  <2>2. SameCount(s, k)
    <3>1. CASE h.mode = "INITIAL"
      BY <1>2, <3>1
    <3>2. CASE h.mode = "slash"
      <4>1. k.tokens = Append(h.tokens, "/") /\ h.tokens \in Seq(Pieces \union {"str"})
        BY <1>2, <3>2, SlashedFacts DEF LexStates
      <4> HIDE DEF k
      <4>2. ASSUME NEW b \in Openings
            PROVE  s.balance[b] = Surplus(k.tokens, b)
        <5>1. Opened(b, "/") = 0
          BY OpenedFacts
        <5>2. /\ Surplus(h.tokens, b) \in Int
              /\ Surplus(Append(h.tokens, "/"), b) = Surplus(h.tokens, b) + Opened(b, "/")
          BY <4>1, TokenAdded
        <5>3. s.balance[b] = Surplus(h.tokens, b)
          BY <1>2 DEF SameCount
        <5> QED
          BY <4>1, <5>1, <5>2, <5>3
      <4> QED
        BY <4>2 DEF SameCount
    <3> QED
      BY <1>7, <3>1, <3>2
  <2>3. ~ s.in_string /\ ~ s.in_comment /\ ~ s.skip
    <3>1. h.mode = "INITIAL" => ~ s.in_string /\ ~ s.in_comment /\ ~ s.skip
      BY <1>2 DEF SamePlace
    <3>2. h.mode = "slash" /\ c # "/" => ~ s.in_string /\ ~ s.in_comment /\ ~ s.skip
      BY <1>2 DEF SamePlace
    <3> QED
      BY <1>7, <3>1, <3>2
  <2>4. LET v == Initial(k, text[i + 1])
        IN  /\ u \in ScanStates /\ SameCount(u, v)
            /\ v.mode \in {"INITIAL", "slash", "STR"}
            /\ v.mode = "INITIAL" => ~ u.in_string /\ ~ u.in_comment /\ ~ u.skip
            /\ v.mode = "slash" =>
                   /\ ~ u.in_string /\ u.skip = u.in_comment
                   /\ u.in_comment = (i + 1 < Len(text) /\ text[(i + 1) + 1] = "/")
            /\ v.mode = "STR" => u.in_string /\ ~ u.in_comment /\ ~ u.skip
    <3> HIDE DEF k
    <3>1. i + 1 \in Nat
      OBVIOUS
    <3> QED
      BY <1>1, <1>2, <2>1, <2>2, <2>3, <3>1, StepOutside
  <2> HIDE DEF u, k, m
  <2>5. Here
    BY <2>1, <2>4
  <2> QED
    BY <2>5
<1>8. ASSUME h.mode \in {"comment", "STR", "escape"} \/ (h.mode = "slash" /\ c = "/")
      PROVE  Here
  <2>1. /\ u \in ScanStates /\ SameCount(u, m)
        /\ m.mode \in {"INITIAL", "comment", "STR", "escape"}
        /\ m.mode = "INITIAL" => ~ u.in_string /\ ~ u.in_comment /\ ~ u.skip
        /\ m.mode = "comment" => ~ u.in_string /\ u.in_comment /\ ~ u.skip
        /\ m.mode = "STR" => u.in_string /\ ~ u.in_comment /\ ~ u.skip
        /\ m.mode = "escape" => u.in_string /\ ~ u.in_comment /\ u.skip
    BY <1>1, <1>2, <1>8, StepInside
  <2>2. m.mode = "comment" => h.mode \in {"slash", "comment"}
    <3> HIDE DEF m, c
    <3> QED
      BY <1>4, <1>8 DEF Cut
  <2> HIDE DEF u, m
  <2> QED
    BY <2>1, <2>2
<1>9. Here
  <2> HIDE DEF Here
  <2> QED
    BY <1>3, <1>7, <1>8
<1>10. g.mode = "comment" => g.ignored
  <2>1. h.mode = "comment" => h.ignored
    BY <1>2 DEF SamePlace
  <2>2. c \in Blanks => c # "/"
    BY PieceFacts
  <2>3. h.mode = "slash" /\ m.mode = "comment" => c = "/"
    <3>1. SUFFICES ASSUME h.mode = "slash", c # "/" PROVE m.mode # "comment"
      OBVIOUS
    <3>2. m = Initial(Slashed(h), c)
      BY <1>4, <3>1 DEF Cut
    <3>3. Slashed(h) \in LexStates /\ Slashed(h).mode = "INITIAL" /\ c \in Pieces
      BY <1>1, <1>2, SlashedFacts
    <3> HIDE DEF m, c, g, u
    <3>4. /\ c = "quote" => m.mode = "STR"
          /\ c \in Solid => m.mode = "INITIAL"
          /\ c \in Silent => m.mode = "INITIAL"
      BY <3>2, <3>3, InitialFacts
    <3> QED
      BY <3>1, <3>3, <3>4, PieceFacts
  <2> HIDE DEF g, m, c, u
  <2> QED
    BY <1>5, <1>9, <2>1, <2>2, <2>3
<1> HIDE DEF g, m, u, c
<1>11. SamePlace(text, i + 1, u, g)
  BY <1>5, <1>9, <1>10 DEF SamePlace
<1>12. SameCount(u, g)
  BY <1>5, <1>9 DEF SameCount
<1> QED
  BY <1>5, <1>6, <1>9, <1>11, <1>12 DEF InStep, u, g, c

(* They are in step at the end of every text.                              *)
LEMMA InSync ==
    ASSUME NEW text \in Seq(Pieces)
    PROVE  InStep(text, Len(text), Scan(text), Lex(text))
<1>1. Len(text) \in Nat
  BY LenProperties
<1>2. PICK f : Scans(f, text)
  BY <1>1, ScanTurns
<1>3. PICK g : Lexes(g, text)
  BY <1>1, LexTurns
<1> DEFINE T == {i \in Nat : i <= Len(text) => InStep(text, i, f[i], g[i])}
<1>4. 0 \in T
  <2>1. f[0] = ScanStart /\ g[0] = Start
    BY <1>2, <1>3 DEF Scans, Lexes
  <2>2. ScanStart \in ScanStates /\ \A b \in Openings : ScanStart.balance[b] = 0
    BY DEF ScanStart, ScanStates, NoBalance, Openings
  <2>3. Start \in LexStates /\ Start.tokens = <<>> /\ Start.mode = "INITIAL"
    <3>1. <<>> \in Seq(Pieces \union {"str"})
      BY EmptySeq
    <3> QED
      BY <3>1 DEF Start, LexStates
  <2>4. SamePlace(text, 0, ScanStart, Start)
    BY <2>3 DEF SamePlace, ScanStart
  <2>5. SameCount(ScanStart, Start)
    <3>1. IsSeq(<<>>)
      BY EmptySeq, SeqIsSeq
    <3>2. \A b \in Openings : Surplus(<<>>, b) = 0
      BY <3>1, SurplusFacts
    <3> QED
      BY <2>2, <2>3, <3>2 DEF SameCount
  <2>6. LastToken(text, 0, Start)
    BY DEF LastToken
  <2> QED
    BY <2>1, <2>2, <2>3, <2>4, <2>5, <2>6 DEF InStep
<1>5. ASSUME NEW i \in Nat, i \in T
      PROVE  i + 1 \in T
  <2>1. SUFFICES ASSUME i + 1 <= Len(text) PROVE InStep(text, i + 1, f[i + 1], g[i + 1])
    OBVIOUS
  <2>2. i < Len(text) /\ i <= Len(text) /\ i + 1 \in 1 .. Len(text) /\ (i + 1) - 1 = i
    BY <1>1, <2>1
  <2>3. f[i + 1] = ScanChar(text, f[i], i + 1)
    BY <1>2, <2>2 DEF Scans
  <2>4. g[i + 1] = Take(g[i], text[i + 1])
    BY <1>3, <2>2 DEF Lexes
  <2>5. InStep(text, i, f[i], g[i])
    BY <1>5, <2>2
  <2> HIDE DEF T
  <2>6. InStep(text, i + 1, ScanChar(text, f[i], i + 1), Take(g[i], text[i + 1]))
    BY <2>2, <2>5, StepInSync
  <2> QED
    BY <2>3, <2>4, <2>6
<1> HIDE DEF T
<1>6. Len(text) \in T
  BY <1>1, <1>4, <1>5, SetInduction
<1>7. InStep(text, Len(text), f[Len(text)], g[Len(text)])
  BY <1>1, <1>6 DEF T
<1> QED
  BY <1>2, <1>3, <1>7 DEF Scans, Lexes

-----------------------------------------------------------------------------
(* What isInputComplete accepts is balanced, by the scanner's tokens.      *)
LEMMA CompleteBalanced ==
    ASSUME NEW text \in Seq(Pieces), isInputComplete(text), NEW b \in Openings
    PROVE  Occurrences(Tokens(text), b) = Occurrences(Tokens(text), Closing[b])
<1> DEFINE tokens == Lex(text).tokens
<1>1. /\ Scan(text).balance = NoBalance
      /\ Lex(text) \in LexStates /\ SameCount(Scan(text), Lex(text))
  BY InSync DEF isInputComplete, InStep
<1>2. IsSeq(tokens)
  <2>1. tokens \in Seq(Pieces \union {"str"})
    BY <1>1 DEF LexStates
  <2> QED
    BY <2>1, SeqIsSeq
<1>3. Surplus(tokens, b) = 0
  BY <1>1 DEF SameCount, NoBalance, Openings
<1> HIDE DEF tokens
<1>4. Surplus(tokens, b) = Occurrences(tokens, b) - Occurrences(tokens, Closing[b])
  BY <1>2, SurplusFacts
<1>5. \A k : Occurrences(tokens, k) \in Nat
  <2> TAKE k
  <2>1. Len(tokens) \in Nat /\ DOMAIN tokens = 1 .. Len(tokens)
    BY <1>2, LenProperties DEF IsSeq
  <2>2. Hits(tokens, k, Len(tokens)) \in Nat
    BY <2>1, HitsFacts
  <2> QED
    BY <2>1, <2>2 DEF Occurrences, Hits
<1>6. Occurrences(tokens, b) = Occurrences(tokens, Closing[b])
  BY <1>3, <1>4, <1>5
<1> QED
  BY <1>6 DEF Tokens, tokens

(* What it does not accept is no program, unless the scanner is not done   *)
(* with the text or ignores its end.                                       *)
LEMMA IncompleteNoProgram ==
    ASSUME NEW text \in Seq(Pieces), ~ isInputComplete(text), Settled(text)
    PROVE  ~ Derives(Tokens(text))
<1> DEFINE h == Lex(text)
           n == Len(text)
           inked == {i \in DOMAIN text : text[i] \notin Blanks}
<1>1. n \in Nat /\ DOMAIN text = 1 .. n
  BY LenProperties
<1>2. /\ h \in LexStates /\ SameCount(Scan(text), h)
      /\ Scan(text) \in ScanStates /\ LastToken(text, n, h)
  BY InSync DEF InStep
<1>3. h.mode = "INITIAL" /\ ~ h.ignored
  BY DEF Settled
<1>4. IsSeq(h.tokens)
  <2>1. h.tokens \in Seq(Pieces \union {"str"})
    BY <1>2 DEF LexStates
  <2> QED
    BY <2>1, SeqIsSeq
<1>5. SUFFICES ASSUME Derives(h.tokens) PROVE FALSE
  BY DEF Tokens
<1>6. /\ \A b \in Openings : Surplus(h.tokens, b) = 0
      /\ Len(h.tokens) > 0 => h.tokens[Len(h.tokens)] \in Ends
  BY <1>4, <1>5, ProgramFacts
<1>7. Scan(text).balance = NoBalance
  <2>1. \A b \in Openings : Scan(text).balance[b] = 0
    BY <1>2, <1>6 DEF SameCount
  <2>2. Scan(text).balance = [b \in Openings |-> Scan(text).balance[b]]
    BY <1>2 DEF ScanStates
  <2>3. NoBalance = [b \in Openings |-> 0]
    BY DEF NoBalance, Openings
  <2> QED
    BY <2>1, <2>2, <2>3
<1>8. PICK last \in inked : (\A j \in inked : j <= last) /\ text[last] \notin Ends
  BY <1>7 DEF isInputComplete
<1> HIDE DEF h
<1>9. last \in 1 .. n /\ LastInked(text, n, last)
  BY <1>1, <1>8 DEF LastInked
<1>10. Len(h.tokens) > 0 /\ h.tokens[Len(h.tokens)] \notin Ends
  BY <1>2, <1>3, <1>8, <1>9 DEF LastToken
<1> QED
  BY <1>6, <1>10

-----------------------------------------------------------------------------
(* The loop.                                                               *)

(* A line break after a line is one more piece.                            *)
LEMMA ReadBuffer ==
    ASSUME NEW line \in Lines, buffer \in Seq(Pieces)
    PROVE  Append(buffer \o line, "nl") \in Seq(Pieces) /\ Append(buffer \o line, "nl") # <<>>
<1>1. line \in Seq(Pieces)
  BY LinesAssumption
<1>2. buffer \o line \in Seq(Pieces)
  BY <1>1, ConcatProperties
<1>3. "nl" \in Pieces
  BY DEF Pieces, Blanks
<1>4. /\ Append(buffer \o line, "nl") \in Seq(Pieces)
      /\ Len(Append(buffer \o line, "nl")) = Len(buffer \o line) + 1
      /\ Len(buffer \o line) \in Nat
  BY <1>2, <1>3, AppendProperties, LenProperties
<1>5. Append(buffer \o line, "nl") # <<>>
  BY <1>4, EmptySeq
<1> QED
  BY <1>4, <1>5

(* What isInputComplete has said of the buffer.                            *)
Asked ==
    /\ phase = "parse" => isInputComplete(buffer)
    /\ phase = "read" /\ continuation => ~ isInputComplete(buffer)

IInv == TypeOK /\ Asked

(* The loop starts with an empty buffer.                                   *)
LEMMA InitIInv ==
    ASSUME Init
    PROVE  IInv
<1>1. <<>> \in Seq(Pieces)
  BY EmptySeq
<1> QED
  BY <1>1 DEF Init, IInv, TypeOK, Asked

(* Every step of the loop keeps what is known of the buffer.               *)
LEMMA NextIInv ==
    ASSUME IInv, [Next]_vars
    PROVE  IInv'
<1>1. TypeOK /\ Asked
  BY DEF IInv
<1>2. ASSUME NEW line \in Lines, Cancel(line)
      PROVE  IInv'
  <2>1. <<>> \in Seq(Pieces)
    BY EmptySeq
  <2> QED
    BY <1>1, <1>2, <2>1 DEF Cancel, Reading, IInv, TypeOK, Asked
<1>3. ASSUME NEW line \in Lines, ReadLine(line)
      PROVE  IInv'
  <2>1. buffer' = Append(buffer \o line, "nl")
    BY <1>3 DEF ReadLine
  <2>2. buffer' \in Seq(Pieces) /\ buffer' # <<>>
    BY <1>1, <2>1, ReadBuffer DEF TypeOK
  <2>3. CASE isInputComplete(buffer')
    <3>1. phase' = "parse" /\ mode' = mode
      BY <1>3, <2>3 DEF ReadLine
    <3> QED
      BY <1>1, <2>2, <2>3, <3>1 DEF IInv, TypeOK, Asked
  <2>4. CASE ~ isInputComplete(buffer')
    <3>1. phase' = "read" /\ continuation' = TRUE /\ mode' = mode
      BY <1>3, <2>4 DEF ReadLine, Reading
    <3> QED
      BY <1>1, <2>2, <2>4, <3>1 DEF IInv, TypeOK, Asked
  <2> QED
    BY <2>3, <2>4
<1>4. CASE EndOfInput
  BY <1>1, <1>4 DEF EndOfInput, IInv, TypeOK, Asked
<1>5. CASE ParseSucceeds
  BY <1>1, <1>5 DEF ParseSucceeds, IInv, TypeOK, Asked
<1>6. CASE ParseFails \/ AcceptReturns
  <2>1. <<>> \in Seq(Pieces)
    BY EmptySeq
  <2> QED
    BY <1>1, <1>6, <2>1 DEF ParseFails, AcceptReturns, Answered, IInv, TypeOK, Asked
<1>7. CASE ParseThrows
  BY <1>1, <1>7 DEF ParseThrows, IInv, TypeOK, Asked
<1>8. CASE UNCHANGED vars
  BY <1>1, <1>8 DEF vars, IInv, TypeOK, Asked
<1> QED
  BY <1>2, <1>3, <1>4, <1>5, <1>6, <1>7, <1>8 DEF Next, Ended

(* IInv is an invariant.                                                   *)
LEMMA AlwaysIInv == Spec => []IInv
<1>1. Init => IInv
  BY InitIInv
<1>2. IInv /\ [Next]_vars => IInv'
  BY NextIInv
<1> QED
  BY <1>1, <1>2, PTL DEF Spec

(* The prompt "..." stands exactly for an unfinished buffer, and the       *)
(* buffer holds pieces of a text, whatever lines are typed.                *)
THEOREM TypeCorrect == Spec => []TypeOK
<1>1. IInv => TypeOK
  BY DEF IInv
<1> QED
  BY <1>1, AlwaysIInv, PTL

(* Whatever is typed, and whatever strings, escapes and comments do to     *)
(* isInputComplete and to lexer.l: the tokens of a buffer that goes to the *)
(* parser have as many closing brackets of each kind as opening ones.      *)
THEOREM AlwaysBalanced == Spec => []Balanced
<1>1. ASSUME IInv
      PROVE  Balanced
  <2>1. SUFFICES ASSUME phase = "parse", NEW b \in DOMAIN Closing
                 PROVE  Occurrences(Program, b) = Occurrences(Program, Closing[b])
    BY DEF Balanced
  <2>2. buffer \in Seq(Pieces) /\ isInputComplete(buffer) /\ b \in Openings
    BY <1>1, <2>1 DEF IInv, TypeOK, Asked, Openings
  <2> QED
    BY <2>2, CompleteBalanced DEF Program
<1> QED
  BY <1>1, AlwaysIInv, PTL

(* The REPL never asks for more when it holds a program of grammar.y,      *)
(* unless the end of what was typed is ignored by the scanner or an open   *)
(* string: what isInputComplete refuses, grammar.y does not derive.        *)
THEOREM NeverWithheld == Spec => []NothingWithheld
<1>1. ASSUME IInv
      PROVE  NothingWithheld
  <2>1. SUFFICES ASSUME Reading, continuation, Settled(buffer)
                 PROVE  ~ Derives(Program)
    BY DEF NothingWithheld
  <2>2. buffer \in Seq(Pieces) /\ ~ isInputComplete(buffer)
    BY <1>1, <2>1 DEF IInv, TypeOK, Asked, Reading
  <2> QED
    BY <2>1, <2>2, IncompleteNoProgram DEF Program
<1> QED
  BY <1>1, AlwaysIInv, PTL

=============================================================================
