-------------------------- MODULE SelectionProofs ---------------------------
(***************************************************************************)
(* Lemmas about Select.  Induction over the naturals is used in the form   *)
(* of NatSetInduction, with a set for what is to be shown, which the       *)
(* provers can instantiate.                                                *)
(***************************************************************************)
EXTENDS Selections, Integers, SequenceTheorems, WellFoundedInduction, TLAPS

\* A set that has 0, and with every number the next one, has all natural numbers.
LEMMA NatSetInduction ==
  ASSUME NEW S, 0 \in S, \A n \in Nat : n \in S => n + 1 \in S
  PROVE  Nat \subseteq S
<1> DEFINE Less == OpToRel(<, Nat)
           T    == Nat \ S
<1> SUFFICES ASSUME T # {} PROVE FALSE
  OBVIOUS
<1>1. PICK n \in T : \A m \in T : <<m, n>> \notin Less
  <2>1. IsWellFoundedOn(Less, Nat)
    BY NatLessThanWellFounded
  <2>2. T \subseteq Nat
    OBVIOUS
  <2> HIDE DEF Less, T
  <2> QED
    BY <2>1, <2>2, WFMin
<1>2. n - 1 \in Nat /\ <<n - 1, n>> \in Less
  BY DEF OpToRel
<1>3. n - 1 \in S
  BY <1>1, <1>2
<1> HIDE DEF Less
<1> QED
  BY <1>2, <1>3

-----------------------------------------------------------------------------
\* f[n] is what is selected of the first n elements.
Selects(f, s, S, n) ==
  f[n] = IF n = 0 THEN <<>>
         ELSE IF s[n] \in S THEN Append(f[n - 1], s[n])
         ELSE f[n - 1]

Selection(f, s, S, m) == \A n \in 0 .. m : Selects(f, s, S, n)

\* The first m elements of s are those of t, and S and U select the same of them.
Alike(s, S, t, U, m) == \A n \in 1 .. m : s[n] = t[n] /\ (s[n] \in S <=> t[n] \in U)

\* There is such a function, and what it selects are elements of s that are in S.
LEMMA SelectExists ==
  ASSUME NEW T, NEW s \in Seq(T), NEW S
  PROVE  \E f \in [0 .. Len(s) -> Seq(T \cap S)] : Selection(f, s, S, Len(s))
<1> DEFINE Up(m) == \E f \in [0 .. m -> Seq(T \cap S)] : Selection(f, s, S, m)
           G     == {m \in Nat : m <= Len(s) => Up(m)}
<1>1. 0 \in G
  <2>1. [n \in 0 .. 0 |-> <<>>] \in [0 .. 0 -> Seq(T \cap S)]
    OBVIOUS
  <2>2. Selection([n \in 0 .. 0 |-> <<>>], s, S, 0)
    BY DEF Selection, Selects
  <2> QED
    BY <2>1, <2>2
<1>2. ASSUME NEW m \in Nat, m \in G
      PROVE  m + 1 \in G
  <2> SUFFICES ASSUME m + 1 <= Len(s) PROVE Up(m + 1)
    OBVIOUS
  <2>1. PICK f \in [0 .. m -> Seq(T \cap S)] : Selection(f, s, S, m)
    BY <1>2
  <2> DEFINE next == IF s[m + 1] \in S THEN Append(f[m], s[m + 1]) ELSE f[m]
             g    == [n \in 0 .. m + 1 |-> IF n = m + 1 THEN next ELSE f[n]]
  <2>2. next \in Seq(T \cap S)
    BY AppendProperties
  <2>3. g \in [0 .. m + 1 -> Seq(T \cap S)]
    BY <2>2
  <2>4. ASSUME NEW n \in 0 .. m + 1
        PROVE  Selects(g, s, S, n)
    <3>1. CASE n = m + 1
      BY <3>1 DEF Selects
    <3>2. CASE n \in 0 .. m
      <4>1. g[n] = f[n] /\ (n # 0 => g[n - 1] = f[n - 1])
        BY <3>2
      <4> HIDE DEF g
      <4> QED
        BY <2>1, <3>2, <4>1 DEF Selection, Selects
    <3> QED
      BY <3>1, <3>2
  <2> QED
    BY <2>3, <2>4 DEF Selection
<1>3. Nat \subseteq G
  <2> HIDE DEF G
  <2> QED
    BY <1>1, <1>2, NatSetInduction
<1>4. Len(s) \in G
  BY <1>3, LenProperties
<1> HIDE DEF Up
<1> QED
  BY <1>4 DEF Up

\* Two such functions agree as far as the sequences and what is selected of them do.
LEMMA SelectUnique ==
  ASSUME NEW s, NEW S, NEW t, NEW U, NEW m \in Nat,
         Alike(s, S, t, U, m),
         NEW f, Selection(f, s, S, m),
         NEW g, Selection(g, t, U, m)
  PROVE  f[m] = g[m]
<1> DEFINE G == {n \in Nat : n <= m => f[n] = g[n]}
<1>1. 0 \in G
  BY DEF Selection, Selects
<1>2. ASSUME NEW n \in Nat, n \in G
      PROVE  n + 1 \in G
  BY <1>2 DEF Alike, Selection, Selects
<1>3. Nat \subseteq G
  <2> HIDE DEF G
  <2> QED
    BY <1>1, <1>2, NatSetInduction
<1> QED
  BY <1>3

\* Select is the value of such a function.
LEMMA SelectIs ==
  ASSUME NEW T, NEW s \in Seq(T), NEW S
  PROVE  \E f \in [0 .. Len(s) -> Seq(T \cap S)] :
            Selection(f, s, S, Len(s)) /\ Select(s, S) = f[Len(s)]
<1> DEFINE Def(f) == f = [n \in 0 .. Len(s) |->
                            IF n = 0 THEN <<>>
                            ELSE IF s[n] \in S THEN Append(f[n - 1], s[n])
                            ELSE f[n - 1]]
           first  == CHOOSE f : Def(f)
<1>1. PICK f \in [0 .. Len(s) -> Seq(T \cap S)] : Selection(f, s, S, Len(s))
  BY SelectExists
<1>2. Def(f)
  BY <1>1 DEF Selection, Selects
<1>3. Def(first)
  <2> HIDE DEF Def
  <2> QED
    BY <1>2
<1>4. Select(s, S) = first[Len(s)]
  BY DEF Select
<1>5. Selection(first, s, S, Len(s))
  BY <1>3 DEF Selection, Selects
<1>6. Len(s) \in Nat
  BY LenProperties
<1>7. Alike(s, S, s, S, Len(s))
  BY DEF Alike
<1> HIDE DEF first
<1>8. first[Len(s)] = f[Len(s)]
  BY <1>1, <1>5, <1>6, <1>7, SelectUnique
<1> QED
  BY <1>1, <1>4, <1>8

\* What is selected are elements of the sequence that are in the set.
LEMMA SelectType ==
  ASSUME NEW T, NEW s \in Seq(T), NEW S
  PROVE  Select(s, S) \in Seq(T \cap S)
<1>1. PICK f \in [0 .. Len(s) -> Seq(T \cap S)] :
         Selection(f, s, S, Len(s)) /\ Select(s, S) = f[Len(s)]
  BY SelectIs
<1> QED
  BY <1>1, LenProperties

\* Nothing is selected of an empty sequence.
LEMMA SelectEmpty == ASSUME NEW S PROVE Select(<<>>, S) = <<>>
<1>1. <<>> \in Seq({}) /\ Len(<<>>) = 0
  OBVIOUS
<1>2. PICK f \in [0 .. Len(<<>>) -> Seq({} \cap S)] :
         Selection(f, <<>>, S, Len(<<>>)) /\ Select(<<>>, S) = f[Len(<<>>)]
  BY <1>1, SelectIs
<1> QED
  BY <1>1, <1>2 DEF Selection, Selects

\* Only what is in the set counts, and only for the elements of the sequence.
LEMMA SelectSame ==
  ASSUME NEW T, NEW s \in Seq(T), NEW S, NEW U,
         \A n \in 1 .. Len(s) : s[n] \in S <=> s[n] \in U
  PROVE  Select(s, S) = Select(s, U)
<1>1. PICK f \in [0 .. Len(s) -> Seq(T \cap S)] :
         Selection(f, s, S, Len(s)) /\ Select(s, S) = f[Len(s)]
  BY SelectIs
<1>2. PICK g \in [0 .. Len(s) -> Seq(T \cap U)] :
         Selection(g, s, U, Len(s)) /\ Select(s, U) = g[Len(s)]
  BY SelectIs
<1>3. Len(s) \in Nat
  BY LenProperties
<1>4. Alike(s, S, s, U, Len(s))
  BY DEF Alike
<1>5. f[Len(s)] = g[Len(s)]
  BY <1>1, <1>2, <1>3, <1>4, SelectUnique
<1> QED
  BY <1>1, <1>2, <1>5

\* A last element is selected after all others.
LEMMA SelectAppend ==
  ASSUME NEW T, NEW s \in Seq(T), NEW e \in T, NEW S
  PROVE  Select(Append(s, e), S) = IF e \in S THEN Append(Select(s, S), e) ELSE Select(s, S)
<1> DEFINE t == Append(s, e)
           m == Len(s)
<1>1. m \in Nat /\ t \in Seq(T) /\ Len(t) = m + 1 /\ t[m + 1] = e
      /\ \A n \in 1 .. m : t[n] = s[n]
  BY LenProperties, AppendProperties
<1> HIDE DEF t, m
<1>2. PICK f : Selection(f, s, S, m) /\ Select(s, S) = f[m]
  BY SelectIs DEF m
<1>3. PICK g : Selection(g, t, S, m + 1) /\ Select(t, S) = g[m + 1]
  <2>1. \E g : Selection(g, t, S, Len(t)) /\ Select(t, S) = g[Len(t)]
    BY <1>1, SelectIs
  <2> QED
    BY <1>1, <2>1
<1>4. f[m] = g[m]
  <2>1. Selection(g, t, S, m)
    BY <1>1, <1>3 DEF Selection
  <2>2. Alike(s, S, t, S, m)
    BY <1>1 DEF Alike
  <2>3. m \in Nat /\ Selection(f, s, S, m)
    BY <1>1, <1>2
  <2> QED
    BY <2>1, <2>2, <2>3, SelectUnique
<1>5. Selects(g, t, S, m + 1)
  BY <1>1, <1>3 DEF Selection
<1>6. g[m + 1] = IF e \in S THEN Append(g[m], e) ELSE g[m]
  BY <1>1, <1>5 DEF Selects
<1> QED
  BY <1>2, <1>3, <1>4, <1>6 DEF t
=============================================================================
