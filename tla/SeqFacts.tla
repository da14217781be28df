------------------------------ MODULE SeqFacts ------------------------------
(***************************************************************************)
(* Lemmas about the sequences the specifications keep their stacks and     *)
(* tables in, for sequences whose elements have no common type to name,    *)
(* about the environments of Symtab, and the least number with a property, *)
(* which takes the place of an induction.                                  *)
(***************************************************************************)
EXTENDS Integers, Symtab, SequenceTheorems, WellFoundedInduction, TLAPS

Elements(s) == {s[i] : i \in 1 .. Len(s)}

IsSeq(s) == s \in Seq(Elements(s))

(* A sequence over any set is a sequence.                                  *)
LEMMA SeqIsSeq ==
    ASSUME NEW S, NEW s \in Seq(S)
    PROVE  IsSeq(s)
<1>1. /\ Len(s) \in Nat
      /\ s \in [1 .. Len(s) -> S]
  BY LenProperties
<1>2. s \in [1 .. Len(s) -> Elements(s)]
  BY <1>1 DEF Elements
<1> QED
  BY <1>1, <1>2, SeqDef DEF IsSeq

(* Sequences are equal that have the same elements at the same places.     *)
LEMMA IsSeqEqual ==
    ASSUME NEW s, NEW t, IsSeq(s), IsSeq(t), Len(s) = Len(t),
           \A i \in 1 .. Len(s) : s[i] = t[i]
    PROVE  s = t
<1>1. Elements(s) = Elements(t)
  BY DEF Elements
<1>2. s \in Seq(Elements(t)) /\ t \in Seq(Elements(t))
  BY <1>1 DEF IsSeq
<1> QED
  BY <1>2, SeqEqual

-----------------------------------------------------------------------------
(* The order of the naturals as a well-founded relation.                   *)
LEMMA NaturalOrder ==
    \E R : IsWellFoundedOn(R, Nat) /\ \A x, y \in Nat : <<y, x>> \in R <=> y < x
<1>1. \A x, y \in Nat : <<y, x>> \in OpToRel(<, Nat) <=> y < x
  BY DEF OpToRel
<1> QED
  BY <1>1, NatLessThanWellFounded, Zenon

(* A set of naturals that is not empty has a least member.                 *)
LEMMA LeastNumber ==
    ASSUME NEW T, T \subseteq Nat, T # {}
    PROVE  \E x \in T : \A y \in T : x <= y
<1>1. PICK R : IsWellFoundedOn(R, Nat) /\ \A x, y \in Nat : <<y, x>> \in R <=> y < x
  BY NaturalOrder
<1>2. PICK x \in T : \A y \in T : ~ (<<y, x>> \in R)
  BY <1>1, WFMin
<1>3. \A y \in T : ~ (y < x)
  BY <1>1, <1>2
<1> QED
  BY <1>3

-----------------------------------------------------------------------------
(* Pushing g after replacing the last element by f.                        *)
PushOver(s, f, g) == Append([s EXCEPT ![Len(s)] = f], g)

(* What PushOver keeps, replaces and adds.                                 *)
LEMMA PushFacts ==
    ASSUME NEW s, IsSeq(s), s # <<>>, NEW f, NEW g
    PROVE  /\ IsSeq(PushOver(s, f, g))
           /\ Len(s) \in Nat \ {0}
           /\ Len(PushOver(s, f, g)) = Len(s) + 1
           /\ \A i \in 1 .. Len(s) - 1 : PushOver(s, f, g)[i] = s[i]
           /\ PushOver(s, f, g)[Len(s)] = f
           /\ PushOver(s, f, g)[Len(s) + 1] = g
<1> DEFINE R == Elements(s) \union {f, g}
           u == [s EXCEPT ![Len(s)] = f]
           t == PushOver(s, f, g)
<1>1. s \in Seq(R) /\ Len(s) \in Nat \ {0}
  <2>1. s \in Seq(Elements(s)) /\ Elements(s) \subseteq R
    BY DEF IsSeq
  <2>2. s \in Seq(R)
    BY <2>1, SeqMonotonic, Zenon
  <2> QED
    BY <2>2, EmptySeq
<1>2. /\ u \in Seq(R)
      /\ Len(u) = Len(s)
      /\ \A j \in 1 .. Len(s) : u[j] = IF j = Len(s) THEN f ELSE s[j]
  BY <1>1, ExceptSeq
<1>3. g \in R /\ t = Append(u, g)
  BY DEF PushOver
<1> HIDE DEF u, R, t
<1>4. /\ Append(u, g) \in Seq(R)
      /\ Len(Append(u, g)) = Len(u) + 1
      /\ \A j \in 1 .. Len(u) : Append(u, g)[j] = u[j]
      /\ Append(u, g)[Len(u) + 1] = g
  <2>1. u \in Seq(R) /\ g \in R
    BY <1>2, <1>3
  <2> QED
    BY <2>1, AppendProperties
<1>5. /\ t \in Seq(R)
      /\ Len(t) = Len(u) + 1
      /\ \A j \in 1 .. Len(u) : t[j] = u[j]
      /\ t[Len(u) + 1] = g
  BY <1>3, <1>4, Zenon
<1>6. /\ IsSeq(t)
      /\ Len(t) = Len(s) + 1
      /\ \A i \in 1 .. Len(s) - 1 : t[i] = s[i]
      /\ t[Len(s)] = f
      /\ t[Len(s) + 1] = g
  <2>1. IsSeq(t)
    BY <1>5, SeqIsSeq
  <2> QED
    BY <1>1, <1>2, <1>5, <2>1
<1> QED
  BY <1>1, <1>6 DEF t

(* Popping down to depth d.                                                *)
LEMMA PopFacts ==
    ASSUME NEW s, IsSeq(s), NEW d \in 0 .. Len(s)
    PROVE  /\ IsSeq(SubSeq(s, 1, d))
           /\ Len(SubSeq(s, 1, d)) = d
           /\ \A i \in 1 .. d : SubSeq(s, 1, d)[i] = s[i]
<1>1. Len(s) \in Nat
  BY LenProperties DEF IsSeq
<1>2. \A i \in 1 .. d : s[i] \in Elements(s)
  BY <1>1 DEF Elements
<1>3. /\ SubSeq(s, 1, d) \in Seq(Elements(s))
      /\ Len(SubSeq(s, 1, d)) = IF 1 <= d THEN d - 1 + 1 ELSE 0
      /\ \A i \in 1 .. d - 1 + 1 : SubSeq(s, 1, d)[i] = s[1 + i - 1]
  BY <1>1, <1>2, SubSeqProperties
<1>4. IsSeq(SubSeq(s, 1, d))
  BY <1>3, SeqIsSeq
<1>5. Len(SubSeq(s, 1, d)) = d
  BY <1>1, <1>3
<1>6. ASSUME NEW i \in 1 .. d
      PROVE  SubSeq(s, 1, d)[i] = s[i]
  <2>1. i \in 1 .. d - 1 + 1 /\ 1 + i - 1 = i
    BY <1>1
  <2> QED
    BY <2>1, <1>3
<1> QED
  BY <1>4, <1>5, <1>6

(* Appending keeps a sequence and adds one place to it.                    *)
LEMMA AppendFacts ==
    ASSUME NEW s, IsSeq(s), NEW e
    PROVE  /\ IsSeq(Append(s, e))
           /\ Len(s) \in Nat
           /\ Len(Append(s, e)) = Len(s) + 1
           /\ \A i \in 1 .. Len(s) : Append(s, e)[i] = s[i]
           /\ Append(s, e)[Len(s) + 1] = e
<1> DEFINE R == Elements(s) \union {e}
<1>1. s \in Seq(R)
  <2>1. s \in Seq(Elements(s)) /\ Elements(s) \subseteq R
    BY DEF IsSeq
  <2> QED
    BY <2>1, SeqMonotonic, Zenon
<1>2. e \in R
  OBVIOUS
<1> HIDE DEF R
<1>3. /\ Append(s, e) \in Seq(R)
      /\ Len(Append(s, e)) = Len(s) + 1
      /\ \A i \in 1 .. Len(s) : Append(s, e)[i] = s[i]
      /\ Append(s, e)[Len(s) + 1] = e
  BY <1>1, <1>2, AppendProperties
<1> QED
  BY <1>1, <1>3, SeqIsSeq, LenProperties

(* Replacing an element keeps the length and the other elements.           *)
LEMMA ExceptFacts ==
    ASSUME NEW s, IsSeq(s), NEW i \in 1 .. Len(s), NEW e
    PROVE  /\ IsSeq([s EXCEPT ![i] = e])
           /\ Len([s EXCEPT ![i] = e]) = Len(s)
<1> DEFINE R == Elements(s) \union {e}
<1>1. s \in Seq(R)
  <2>1. s \in Seq(Elements(s)) /\ Elements(s) \subseteq R
    BY DEF IsSeq
  <2> QED
    BY <2>1, SeqMonotonic, Zenon
<1>2. e \in R
  OBVIOUS
<1> HIDE DEF R
<1>3. /\ [s EXCEPT ![i] = e] \in Seq(R)
      /\ Len([s EXCEPT ![i] = e]) = Len(s)
  BY <1>1, <1>2, ExceptSeq
<1> QED
  BY <1>3, SeqIsSeq

(* The sequences of length two.                                            *)
LEMMA PairFacts ==
    ASSUME NEW a, NEW b
    PROVE  /\ Append(<<a>>, b) = <<a, b>>
           /\ Len(<<a, b>>) = 2
           /\ <<a, b>> \in Seq({a, b})
<1>1. /\ <<a, b>> \in Seq({a, b})
      /\ Len(<<a, b>>) = 2
      /\ <<a, b>>[1] = a /\ <<a, b>>[2] = b
  OBVIOUS
<1>2. /\ <<a>> \in Seq({a, b})
      /\ Len(<<a>>) = 1
      /\ <<a>>[1] = a
  OBVIOUS
<1>3. /\ Append(<<a>>, b) \in Seq({a, b})
      /\ Len(Append(<<a>>, b)) = 2
      /\ Append(<<a>>, b)[1] = a /\ Append(<<a>>, b)[2] = b
  <2>1. b \in {a, b}
    OBVIOUS
  <2>2. /\ Append(<<a>>, b) \in Seq({a, b})
        /\ Len(Append(<<a>>, b)) = Len(<<a>>) + 1
        /\ \A i \in 1 .. Len(<<a>>) : Append(<<a>>, b)[i] = <<a>>[i]
        /\ Append(<<a>>, b)[Len(<<a>>) + 1] = b
    BY <1>2, <2>1, AppendProperties
  <2> QED
    BY <1>2, <2>2
<1>4. \A i \in 1 .. 2 : Append(<<a>>, b)[i] = <<a, b>>[i]
  BY <1>1, <1>3
<1>5. Append(<<a>>, b) = <<a, b>>
  BY <1>1, <1>3, <1>4, SeqEqual
<1> QED
  BY <1>1, <1>5

-----------------------------------------------------------------------------
(* Environments of Symtab, of a heap of m scopes: the global scope comes    *)
(* first and only there.                                                   *)

EnvIn(e, m) == /\ e \in Seq(1 .. m)
               /\ Len(e) >= 1
               /\ e[1] = Global
               /\ \A a \in 2 .. Len(e) : e[a] # Global

(* Environments stay environments while scopes are added.                  *)
LEMMA EnvStays ==
    ASSUME NEW m \in Nat, NEW m2 \in Nat, m <= m2, NEW e, EnvIn(e, m)
    PROVE  EnvIn(e, m2)
<1>1. e \in Seq(1 .. m) /\ 1 .. m \subseteq 1 .. m2
  BY DEF EnvIn
<1>2. e \in Seq(1 .. m2)
  BY <1>1, SeqMonotonic, Zenon
<1> QED
  BY <1>2 DEF EnvIn

(* A block's scope, and a function's.                                      *)
LEMMA EnvGrows ==
    ASSUME NEW m \in Nat, NEW e, EnvIn(e, m)
    PROVE  /\ EnvIn(Append(e, m + 1), m + 1)
           /\ Len(Append(e, m + 1)) = Len(e) + 1
           /\ \A i \in 1 .. Len(e) : Append(e, m + 1)[i] = e[i]
           /\ Append(e, m + 1)[Len(e) + 1] = m + 1
           /\ Parent(Append(e, m + 1)) = e
<1> DEFINE c == Append(e, m + 1)
<1>1. EnvIn(e, m + 1)
  BY EnvStays
<1>2. e \in Seq(1 .. m + 1) /\ Len(e) >= 1 /\ e[1] = Global /\ Len(e) \in Nat
  BY <1>1, LenProperties DEF EnvIn
<1>3. m + 1 \in 1 .. m + 1
  OBVIOUS
<1>4. /\ c \in Seq(1 .. m + 1)
      /\ Len(c) = Len(e) + 1
      /\ \A i \in 1 .. Len(e) : c[i] = e[i]
      /\ c[Len(e) + 1] = m + 1
  BY <1>2, <1>3, AppendProperties
<1>5. IsSeq(c)
  BY <1>4, SeqIsSeq
<1> HIDE DEF c
<1>6. Len(c) - 1 = Len(e) /\ Len(e) \in 0 .. Len(c)
  BY <1>2, <1>4
<1>7. /\ IsSeq(SubSeq(c, 1, Len(e))) /\ Len(SubSeq(c, 1, Len(e))) = Len(e)
      /\ \A i \in 1 .. Len(e) : SubSeq(c, 1, Len(e))[i] = e[i]
  BY <1>4, <1>5, <1>6, PopFacts
<1>8. SubSeq(c, 1, Len(e)) = e
  BY <1>2, <1>7, SeqIsSeq, IsSeqEqual
<1>9. Parent(c) = e
  BY <1>6, <1>8 DEF Parent
<1>10. EnvIn(c, m + 1)
  <2>1. m >= 1
    BY ElementOfSeq DEF EnvIn
  <2>2. ASSUME NEW a \in 2 .. Len(c) PROVE c[a] # Global
    <3>1. a \in 2 .. Len(e) \/ a = Len(e) + 1
      BY <1>2, <1>4
    <3>2. CASE a \in 2 .. Len(e)
      <4>1. e[a] # Global
        BY <3>2 DEF EnvIn
      <4>2. a \in 1 .. Len(e)
        BY <1>2, <3>2
      <4> QED
        BY <1>4, <4>1, <4>2
    <3>3. CASE a = Len(e) + 1
      BY <1>4, <2>1, <3>3 DEF Global
    <3> QED
      BY <3>1, <3>2, <3>3
  <2> QED
    BY <1>2, <1>4, <2>2 DEF EnvIn
<1> QED
  BY <1>4, <1>9, <1>10 DEF c

(* The environment a function's body runs in.                              *)
LEMMA CallEnv ==
    ASSUME NEW m \in Nat \ {0}
    PROVE  EnvIn(<<Global, m + 1>>, m + 1) /\ Len(<<Global, m + 1>>) = 2
<1>1. 1 \in 1 .. m + 1 /\ m + 1 \in 1 .. m + 1
  OBVIOUS
<1>2. <<1, m + 1>> \in Seq({1, m + 1}) /\ Len(<<1, m + 1>>) = 2
  BY PairFacts
<1>3. <<1, m + 1>> \in Seq(1 .. m + 1)
  BY <1>1
<1> QED
  BY <1>2, <1>3 DEF EnvIn, Global

-----------------------------------------------------------------------------
(* The environments a stack's visitors began in.                           *)
Saves(s) == [i \in 1 .. Len(s) |-> s[i].saved]

(* Saves of a stack is a sequence as long as the stack.                    *)
LEMMA SavesSeq ==
    ASSUME NEW s, IsSeq(s)
    PROVE  /\ IsSeq(Saves(s))
           /\ Len(s) \in Nat
           /\ Len(Saves(s)) = Len(s)
           /\ \A i \in 1 .. Len(s) : Saves(s)[i] = s[i].saved
<1> DEFINE R == {s[i].saved : i \in 1 .. Len(s)}
<1>1. Len(s) \in Nat
  BY LenProperties DEF IsSeq
<1>2. Saves(s) \in [1 .. Len(s) -> R]
  BY DEF Saves
<1> HIDE DEF R
<1>3. Saves(s) \in Seq(R)
  BY <1>1, <1>2, SeqDef
<1>4. IsSeq(Saves(s))
  BY <1>3, SeqIsSeq
<1>5. Len(Saves(s)) = Len(s)
  BY <1>1, <1>2, <1>3, LenProperties DEF Saves
<1> QED
  BY <1>1, <1>4, <1>5 DEF Saves

(* Pushing a frame appends the environment it begins in.                   *)
LEMMA SavesPushed ==
    ASSUME NEW s, IsSeq(s), s # <<>>, NEW f, f.saved = s[Len(s)].saved, NEW g
    PROVE  Saves(PushOver(s, f, g)) = Append(Saves(s), g.saved)
<1> DEFINE t == PushOver(s, f, g)
           u == Append(Saves(s), g.saved)
<1>1. IsSeq(t)
  BY PushFacts, Zenon
<1>2. /\ Len(s) \in Nat \ {0} /\ Len(t) = Len(s) + 1
      /\ \A i \in 1 .. Len(s) - 1 : t[i] = s[i]
      /\ t[Len(s)] = f /\ t[Len(s) + 1] = g
  BY PushFacts
<1>3. /\ IsSeq(Saves(s)) /\ Len(Saves(s)) = Len(s)
      /\ \A i \in 1 .. Len(s) : Saves(s)[i] = s[i].saved
  BY SavesSeq
<1>4. /\ IsSeq(u) /\ Len(u) = Len(s) + 1
      /\ \A i \in 1 .. Len(s) : u[i] = Saves(s)[i]
      /\ u[Len(s) + 1] = g.saved
  BY <1>3, AppendFacts
<1> HIDE DEF t, u
<1>5. /\ IsSeq(Saves(t)) /\ Len(Saves(t)) = Len(t)
      /\ \A i \in 1 .. Len(t) : Saves(t)[i] = t[i].saved
  BY <1>1, SavesSeq
<1>6. ASSUME NEW i \in 1 .. Len(t)
      PROVE  Saves(t)[i] = u[i]
  <2>1. CASE i \in 1 .. Len(s) - 1
    BY <1>2, <1>3, <1>4, <1>5, <2>1
  <2>2. CASE i = Len(s)
    BY <1>2, <1>3, <1>4, <1>5, <2>2
  <2>3. CASE i = Len(s) + 1
    BY <1>2, <1>4, <1>5, <2>3
  <2> QED
    BY <1>2, <2>1, <2>2, <2>3
<1>7. Saves(t) = u
  BY <1>2, <1>4, <1>5, <1>6, IsSeqEqual
<1> QED
  BY <1>7 DEF t, u

(* Popping frames drops their environments.                                *)
LEMMA SavesPopped ==
    ASSUME NEW s, IsSeq(s), NEW d \in 0 .. Len(s)
    PROVE  Saves(SubSeq(s, 1, d)) = SubSeq(Saves(s), 1, d)
<1> DEFINE t == SubSeq(s, 1, d)
           u == SubSeq(Saves(s), 1, d)
<1>1. IsSeq(t) /\ Len(t) = d /\ \A i \in 1 .. d : t[i] = s[i]
  BY PopFacts
<1>2. /\ IsSeq(Saves(s)) /\ Len(Saves(s)) = Len(s) /\ Len(s) \in Nat
      /\ \A i \in 1 .. Len(s) : Saves(s)[i] = s[i].saved
  BY SavesSeq
<1>3. IsSeq(u) /\ Len(u) = d /\ \A i \in 1 .. d : u[i] = Saves(s)[i]
  BY <1>2, PopFacts
<1> HIDE DEF t, u
<1>4. /\ IsSeq(Saves(t)) /\ Len(Saves(t)) = d
      /\ \A i \in 1 .. d : Saves(t)[i] = t[i].saved
  BY <1>1, SavesSeq
<1>5. \A i \in 1 .. d : Saves(t)[i] = u[i]
  BY <1>1, <1>2, <1>3, <1>4
<1>6. Saves(t) = u
  BY <1>3, <1>4, <1>5, IsSeqEqual
<1> QED
  BY <1>6 DEF t, u

-----------------------------------------------------------------------------
(* The environment in force inside visitor i of a stack s, c at the top.   *)
Level(s, c, i) == IF i = Len(s) THEN c ELSE s[i + 1].saved

(* Pushing a frame that begins in c2 changes it for the last visitor only. *)
LEMMA LevelPushed ==
    ASSUME NEW s, IsSeq(s), s # <<>>, NEW f, NEW g, NEW c, NEW c2, g.saved = c2,
           s[Len(s)].saved = f.saved
    PROVE  /\ \A i \in 1 .. Len(s) - 1 :
                  Level(PushOver(s, f, g), c2, i) = Level(s, c, i)
           /\ Level(PushOver(s, f, g), c2, Len(s)) = c2
           /\ Level(PushOver(s, f, g), c2, Len(s) + 1) = c2
<1> DEFINE t == PushOver(s, f, g)
<1>1. /\ Len(s) \in Nat \ {0} /\ Len(t) = Len(s) + 1
      /\ \A i \in 1 .. Len(s) - 1 : t[i] = s[i]
      /\ t[Len(s)] = f /\ t[Len(s) + 1] = g
  BY PushFacts
<1> HIDE DEF t
<1>2. \A i \in 2 .. Len(s) : t[i].saved = s[i].saved
  BY <1>1
<1>3. ASSUME NEW i \in 1 .. Len(s) - 1 PROVE Level(t, c2, i) = Level(s, c, i)
  BY <1>1, <1>2 DEF Level
<1>4. Level(t, c2, Len(s)) = c2 /\ Level(t, c2, Len(s) + 1) = c2
  BY <1>1 DEF Level
<1> QED
  BY <1>3, <1>4 DEF t

(* Coming back to where visitor d + 1 began changes it for none that stays.*)
LEMMA LevelPopped ==
    ASSUME NEW s, IsSeq(s), NEW c, NEW d \in 0 .. Len(s) - 1
    PROVE  \A i \in 1 .. d :
               Level(SubSeq(s, 1, d), s[d + 1].saved, i) = Level(s, c, i)
<1> DEFINE t == SubSeq(s, 1, d)
<1>1. Len(s) \in Nat /\ Len(t) = d /\ \A i \in 1 .. d : t[i] = s[i]
  BY LenProperties, PopFacts DEF IsSeq
<1> HIDE DEF t
<1>2. ASSUME NEW i \in 1 .. d PROVE Level(t, s[d + 1].saved, i) = Level(s, c, i)
  <2>1. i < d => t[i + 1] = s[i + 1]
    BY <1>1
  <2> QED
    BY <1>1, <2>1 DEF Level
<1> QED
  BY <1>2 DEF t

-----------------------------------------------------------------------------
(* The stack s, current environment c and number of scopes m, and the same *)
(* after a step, as ContextStack sees them.                                *)
Beginning(s, c, m, s2, c2, m2) ==
    /\ Saves(s2) = Append(Saves(s), c2)
    /\ \/ c2 = c /\ m2 = m
       \/ c2 = Append(c, m + 1) /\ m2 = m + 1
       \/ c2 = <<1, m + 1>> /\ m2 = m + 1

Ending(s, c, m, s2, c2, m2) ==
    /\ m2 = m
    /\ \E i \in 1 .. Len(s) : /\ c2 = Saves(s)[i]
                             /\ Saves(s2) = SubSeq(Saves(s), 1, i - 1)

GivingUp(s, c, m, s2, c2, m2) ==
    /\ m2 = m
    /\ Saves(s2) = <<>>
    /\ c2 = c \/ \E i \in 1 .. Len(s) : c2 = Saves(s)[i]

=============================================================================
