----------------------------- MODULE TallyProofs -----------------------------
(***************************************************************************)
(* Sums over finite sets, and theorems about the parts of BackOffice that  *)
(* keep a tally: the scores of buyers and sellers, and the days a seller   *)
(* streamed.  For every value of the constants.                            *)
(***************************************************************************)
EXTENDS BackOffice, FiniteSetsExt, FiniteSetTheorems, FunctionTheorems, SequenceTheorems,
        WellFoundedInduction, TLAPS

-----------------------------------------------------------------------------
(***************************************************************************)
(* Induction over numbers, and sums over finite sets.                      *)
(***************************************************************************)
\* Complete induction, of a set of numbers.
LEMMA Least ==
    ASSUME NEW B, B \subseteq Nat, B # {}
    PROVE  \E n \in B : \A m \in B : n <= m
<1>1. \E n \in B : \A m \in B : ~(<<m, n>> \in OpToRel(<, Nat))
  BY WFMin, NatLessThanWellFounded, Zenon
<1>2. \E n \in B : \A m \in B : ~(m < n)
  BY <1>1 DEF OpToRel
<1>. QED
  BY <1>2

LEMMA IntervalSize ==
    ASSUME NEW a \in Int, NEW b \in Int, a <= b + 1
    PROVE  IsFiniteSet(a..b) /\ Cardinality(a..b) = b - a + 1
BY FS_Interval

LEMMA DivMod ==
    ASSUME NEW n \in Nat, NEW d \in Nat, d > 0
    PROVE  /\ n \div d \in Nat /\ n % d \in Nat /\ n % d < d
           /\ d * (n \div d) + (n % d) = n
BY SMT

\* A set of numbers that has 0, and with a number the next, has them all.
LEMMA Induction ==
    ASSUME NEW G, 0 \in G, \A n \in Nat : n \in G => n + 1 \in G
    PROVE  Nat \subseteq G
<1>. SUFFICES ASSUME Nat \ G # {} PROVE FALSE
  OBVIOUS
<1>1. PICK n \in Nat \ G : \A m \in Nat \ G : n <= m
  BY Least
<1>2. n # 0 /\ n - 1 \in Nat /\ n - 1 \in G
  BY <1>1
<1>. QED
  BY <1>1, <1>2

Chosen(s) == CHOOSE x \in s : TRUE
SumOf(f, S) == MapThenSumSet(LAMBDA x : f[x], S)

\* g sums f over some sets, each from the set without one of its members.
Part(f, g, s) == IF s = {} THEN 0 ELSE f[Chosen(s)] + g[s \ {Chosen(s)}]
Sums(f, D, g) == g = [s \in D |-> Part(f, g, s)]

LEMMA SumIs ==
    ASSUME NEW f, NEW S
    PROVE  SumOf(f, S) = (CHOOSE g : Sums(f, SUBSET S, g))[S]
BY DEF SumOf, MapThenSumSet, MapThenFoldSet, Sums, Part, Chosen

UpTo(S, n) == {s \in SUBSET S : Cardinality(s) <= n}

LEMMA SumsExist ==
    ASSUME NEW f, NEW S, IsFiniteSet(S)
    PROVE  \E g : Sums(f, SUBSET S, g)
<1>. DEFINE G == {n \in Nat : \E g : Sums(f, UpTo(S, n), g)}
<1>0. \A s \in SUBSET S : IsFiniteSet(s) /\ Cardinality(s) \in Nat
  BY FS_Subset, FS_CardinalityType
<1>1. 0 \in G
  <2>. DEFINE g == [s \in UpTo(S, 0) |-> 0]
  <2>1. \A s \in UpTo(S, 0) : s = {}
    BY <1>0, FS_EmptySet DEF UpTo
  <2>2. Sums(f, UpTo(S, 0), g)
    BY <2>1 DEF Sums, Part
  <2>. QED
    BY <2>2
<1>2. ASSUME NEW n \in Nat, n \in G
      PROVE  n + 1 \in G
  <2>1. PICK g : Sums(f, UpTo(S, n), g)
    BY <1>2
  <2>. DEFINE h == [s \in UpTo(S, n + 1) |-> IF s \in UpTo(S, n) THEN g[s] ELSE Part(f, g, s)]
  <2>2. \A s \in UpTo(S, n) : g[s] = Part(f, g, s)
    BY <2>1 DEF Sums
  <2>3. \A s \in UpTo(S, n + 1) : s # {} =>
           /\ s \ {Chosen(s)} \in UpTo(S, n) /\ s \ {Chosen(s)} \in UpTo(S, n + 1)
    <3>1. ASSUME NEW s \in UpTo(S, n + 1), s # {}
          PROVE  /\ s \ {Chosen(s)} \in UpTo(S, n) /\ s \ {Chosen(s)} \in UpTo(S, n + 1)
      <4>1. Chosen(s) \in s
        BY <3>1 DEF Chosen
      <4>2. s \in SUBSET S /\ Cardinality(s) <= n + 1
        BY DEF UpTo
      <4>3. Cardinality(s \ {Chosen(s)}) = Cardinality(s) - 1
        BY <1>0, <4>1, <4>2, FS_RemoveElement
      <4>4. Cardinality(s \ {Chosen(s)}) <= n /\ Cardinality(s \ {Chosen(s)}) <= n + 1
        BY <1>0, <4>2, <4>3
      <4>. QED
        BY <4>2, <4>4 DEF UpTo
    <3>. QED
      BY <3>1
  <2>4. \A s \in UpTo(S, n + 1) : Part(f, h, s) = Part(f, g, s)
    BY <2>3 DEF Part
  <2>5. Sums(f, UpTo(S, n + 1), h)
    BY <2>2, <2>4 DEF Sums
  <2>. QED
    BY <2>5
<1>3. Cardinality(S) \in G
  <2>. HIDE DEF G
  <2>. QED
    BY <1>0, <1>1, <1>2, Induction
<1>4. UpTo(S, Cardinality(S)) = SUBSET S
  BY <1>0, FS_Subset DEF UpTo
<1>. QED
  BY <1>3, <1>4

\* They agree where they meet.
LEMMA SumsAgree ==
    ASSUME NEW f, NEW S, IsFiniteSet(S), NEW T \in SUBSET S, NEW g, NEW h,
           Sums(f, SUBSET S, g), Sums(f, SUBSET T, h)
    PROVE  \A s \in SUBSET T : g[s] = h[s]
<1>. DEFINE G == {n \in Nat : \A s \in SUBSET T : Cardinality(s) = n => g[s] = h[s]}
<1>0. \A s \in SUBSET T : IsFiniteSet(s) /\ Cardinality(s) \in Nat
  BY FS_Subset, FS_CardinalityType
<1>1. \A s \in SUBSET T : g[s] = Part(f, g, s) /\ h[s] = Part(f, h, s)
  BY DEF Sums
<1>2. 0 \in G
  BY <1>0, <1>1, FS_EmptySet DEF Part
<1>3. ASSUME NEW n \in Nat, n \in G
      PROVE  n + 1 \in G
  <2>1. ASSUME NEW s \in SUBSET T, Cardinality(s) = n + 1
        PROVE  g[s] = h[s]
    <3>1. s # {}
      BY <2>1, FS_EmptySet
    <3>2. Chosen(s) \in s /\ s \ {Chosen(s)} \in SUBSET T
      BY <3>1 DEF Chosen
    <3>3. Cardinality(s \ {Chosen(s)}) = n
      BY <1>0, <2>1, <3>2, FS_RemoveElement
    <3>4. g[s \ {Chosen(s)}] = h[s \ {Chosen(s)}]
      BY <1>3, <3>2, <3>3
    <3>. QED
      BY <1>1, <3>1, <3>4 DEF Part
  <2>. QED
    BY <2>1
<1>4. Nat \subseteq G
  <2>. HIDE DEF G
  <2>. QED
    BY <1>2, <1>3, Induction
<1>. QED
  BY <1>0, <1>4

\* The sum over a set takes one of its members, and the sum of the rest.
LEMMA SumTakes ==
    ASSUME NEW f, NEW S, IsFiniteSet(S)
    PROVE  /\ SumOf(f, {}) = 0
           /\ S # {} => SumOf(f, S) = f[Chosen(S)] + SumOf(f, S \ {Chosen(S)})
<1>1. ASSUME NEW T \in SUBSET S
      PROVE  IsFiniteSet(T) /\ \E g : Sums(f, SUBSET T, g) /\ SumOf(f, T) = g[T]
  <2>1. IsFiniteSet(T)
    BY FS_Subset
  <2>. QED
    BY <2>1, SumsExist, SumIs
<1>2. SumOf(f, {}) = 0
  <2>1. PICK g : Sums(f, SUBSET {}, g) /\ SumOf(f, {}) = g[{}]
    BY <1>1
  <2>. QED
    BY <2>1 DEF Sums, Part
<1>3. ASSUME S # {}
      PROVE  SumOf(f, S) = f[Chosen(S)] + SumOf(f, S \ {Chosen(S)})
  <2>. DEFINE T == S \ {Chosen(S)}
  <2>1. PICK g : Sums(f, SUBSET S, g) /\ SumOf(f, S) = g[S]
    BY <1>1
  <2>2. PICK h : Sums(f, SUBSET T, h) /\ SumOf(f, T) = h[T]
    BY <1>1
  <2>3. g[T] = h[T]
    <3>1. T \in SUBSET S /\ T \in SUBSET T
      OBVIOUS
    <3>. HIDE DEF T
    <3>. QED
      BY <2>1, <2>2, <3>1, SumsAgree, SMTT(30)
  <2>4. g[S] = Part(f, g, S)
    BY <2>1 DEF Sums
  <2>. QED
    BY <1>3, <2>1, <2>2, <2>3, <2>4 DEF Part
<1>. QED
  BY <1>2, <1>3

\* It may take any of them first.
Summed(f, T) ==
    SumOf(f, T) \in Int /\ \A x \in T : SumOf(f, T) = f[x] + SumOf(f, T \ {x})

LEMMA SumParts ==
    ASSUME NEW S, IsFiniteSet(S), NEW f, \A x \in S : f[x] \in Int
    PROVE  Summed(f, S)
<1>. DEFINE G == {n \in Nat : \A T \in SUBSET S : Cardinality(T) <= n => Summed(f, T)}
<1>0. \A T \in SUBSET S : IsFiniteSet(T) /\ Cardinality(T) \in Nat
  BY FS_Subset, FS_CardinalityType
<1>1. 0 \in G
  <2>1. \A T \in SUBSET S : Cardinality(T) <= 0 => T = {}
    BY <1>0, FS_EmptySet
  <2>2. Summed(f, {})
    <3>1. SumOf(f, {}) = 0
      BY SumTakes
    <3>. QED
      BY <3>1 DEF Summed
  <2>3. ASSUME NEW T \in SUBSET S, Cardinality(T) <= 0
        PROVE  Summed(f, T)
    <3>1. T = {}
      BY <2>1, <2>3
    <3>. QED
      BY <2>2, <3>1, Zenon
  <2>. QED
    BY <2>3
<1>2. ASSUME NEW n \in Nat, n \in G
      PROVE  n + 1 \in G
  <2>1. ASSUME NEW T \in SUBSET S, Cardinality(T) = n + 1
        PROVE  Summed(f, T)
    <3>. DEFINE c == Chosen(T)
    <3>1. T # {} /\ IsFiniteSet(T)
      BY <1>0, <2>1, FS_EmptySet
    <3>2. c \in T /\ SumOf(f, T) = f[c] + SumOf(f, T \ {c})
      BY <3>1, SumTakes DEF Chosen
    <3>3. ASSUME NEW x \in T
          PROVE  T \ {x} \in SUBSET S /\ IsFiniteSet(T \ {x}) /\ Summed(f, T \ {x})
      <4>1. Cardinality(T \ {x}) = n /\ IsFiniteSet(T \ {x}) /\ T \ {x} \in SUBSET S
        <5>1. IsFiniteSet(T \ {x}) /\ Cardinality(T \ {x}) = Cardinality(T) - 1
          BY <3>1, FS_RemoveElement
        <5>. QED
          BY <2>1, <5>1
      <4>. QED
        BY <1>2, <4>1
    <3>4. SumOf(f, T) \in Int
      <4>1. SumOf(f, T \ {c}) \in Int /\ f[c] \in Int
        BY <3>2, <3>3 DEF Summed
      <4>. QED
        BY <3>2, <4>1
    <3>5. ASSUME NEW x \in T, x # c
          PROVE  SumOf(f, T) = f[x] + SumOf(f, T \ {x})
      <4>. DEFINE U == (T \ {c}) \ {x}
      <4>1. SumOf(f, T \ {c}) = f[x] + SumOf(f, U)
        BY <3>2, <3>3, <3>5 DEF Summed
      <4>2. U = (T \ {x}) \ {c}
        OBVIOUS
      <4>3. SumOf(f, T \ {x}) = f[c] + SumOf(f, U)
        BY <3>2, <3>3, <3>5, <4>2 DEF Summed
      <4>4. SumOf(f, U) \in Int
        <5>1. U \in SUBSET S /\ Cardinality(U) <= n
          <6>1. IsFiniteSet(T \ {c}) /\ x \in T \ {c} /\ IsFiniteSet(T)
            BY <3>1, <3>2, <3>3, <3>5
          <6>2. Cardinality(U) = Cardinality(T \ {c}) - 1
            BY <6>1, FS_RemoveElement
          <6>3. Cardinality(T \ {c}) = Cardinality(T) - 1
            BY <3>1, <3>2, FS_RemoveElement
          <6>. QED
            BY <2>1, <6>2, <6>3
        <5>. QED
          BY <1>2, <5>1 DEF Summed
      <4>5. f[c] \in Int /\ f[x] \in Int
        BY <3>2
      <4>. HIDE DEF U, c
      <4>. QED
        BY <3>2, <4>1, <4>3, <4>4, <4>5
    <3>. QED
      BY <3>2, <3>4, <3>5 DEF Summed
  <2>2. ASSUME NEW T \in SUBSET S, Cardinality(T) <= n + 1
        PROVE  Summed(f, T)
    <3>1. Cardinality(T) <= n \/ Cardinality(T) = n + 1
      BY <1>0, <2>2
    <3>. QED
      BY <1>2, <2>1, <3>1
  <2>. QED
    BY <2>2
<1>3. Nat \subseteq G
  <2>. HIDE DEF G
  <2>. QED
    BY <1>1, <1>2, Induction
<1>. QED
  BY <1>0, <1>3

LEMMA SumOfNumbers ==
    ASSUME NEW S, IsFiniteSet(S), NEW f, \A x \in S : f[x] \in Nat
    PROVE  SumOf(f, S) \in Nat
<1>. DEFINE G == {n \in Nat : \A T \in SUBSET S : Cardinality(T) = n => SumOf(f, T) \in Nat}
<1>0. \A T \in SUBSET S : IsFiniteSet(T) /\ Cardinality(T) \in Nat
  BY FS_Subset, FS_CardinalityType
<1>1. 0 \in G
  <2>1. SumOf(f, {}) = 0
    BY SumTakes
  <2>. QED
    BY <1>0, <2>1, FS_EmptySet
<1>2. ASSUME NEW n \in Nat, n \in G
      PROVE  n + 1 \in G
  <2>1. ASSUME NEW T \in SUBSET S, Cardinality(T) = n + 1
        PROVE  SumOf(f, T) \in Nat
    <3>. DEFINE c == Chosen(T)
    <3>1. T # {} /\ IsFiniteSet(T)
      BY <1>0, <2>1, FS_EmptySet
    <3>2. c \in T /\ SumOf(f, T) = f[c] + SumOf(f, T \ {c})
      BY <3>1, SumTakes DEF Chosen
    <3>3. Cardinality(T \ {c}) = n /\ T \ {c} \in SUBSET S
      <4>1. Cardinality(T \ {c}) = Cardinality(T) - 1
        BY <3>1, <3>2, FS_RemoveElement
      <4>. QED
        BY <2>1, <4>1
    <3>. HIDE DEF c
    <3>4. SumOf(f, T \ {c}) \in Nat
      BY <1>2, <3>3
    <3>. QED
      BY <3>2, <3>4
  <2>. QED
    BY <2>1
<1>3. Nat \subseteq G
  <2>. HIDE DEF G
  <2>. QED
    BY <1>1, <1>2, Induction
<1>. QED
  BY <1>0, <1>3

\* Induction over the subsets of a finite set, each from what is left without one of its
\* members.
LEMMA SetInduction ==
    ASSUME NEW S, IsFiniteSet(S), NEW G, {} \in G,
           \A T \in SUBSET S : \A x \in T : T \ {x} \in G => T \in G
    PROVE  SUBSET S \subseteq G
<1>. DEFINE H == {n \in Nat : \A T \in SUBSET S : Cardinality(T) = n => T \in G}
<1>0. \A T \in SUBSET S : IsFiniteSet(T) /\ Cardinality(T) \in Nat
  BY FS_Subset, FS_CardinalityType
<1>1. 0 \in H
  BY <1>0, FS_EmptySet
<1>2. ASSUME NEW n \in Nat, n \in H
      PROVE  n + 1 \in H
  <2>1. ASSUME NEW T \in SUBSET S, Cardinality(T) = n + 1
        PROVE  T \in G
    <3>1. IsFiniteSet(T) /\ T # {}
      BY <1>0, <2>1, FS_EmptySet
    <3>2. PICK x \in T : TRUE
      BY <3>1
    <3>3. Cardinality(T \ {x}) = Cardinality(T) - 1
      BY <3>1, FS_RemoveElement
    <3>4. T \ {x} \in SUBSET S /\ Cardinality(T \ {x}) = n
      BY <2>1, <3>3
    <3>. QED
      BY <1>2, <3>4
  <2>. QED
    BY <2>1
<1>3. Nat \subseteq H
  <2>. HIDE DEF H
  <2>. QED
    BY <1>1, <1>2, Induction
<1>. QED
  BY <1>0, <1>3

LEMMA SumPartsOf ==
    ASSUME NEW S, IsFiniteSet(S), NEW f, \A x \in S : f[x] \in Int
    PROVE  SumOf(f, {}) = 0 /\ \A T \in SUBSET S : Summed(f, T)
<1>1. \A T \in SUBSET S : IsFiniteSet(T)
  BY FS_Subset
<1>2. \A T \in SUBSET S : Summed(f, T)
  BY <1>1, SumParts
<1>. QED
  BY <1>2, SumTakes

\* The sum of sums.
LEMMA SumAdds ==
    ASSUME NEW S, IsFiniteSet(S), NEW f, NEW g, NEW h,
           \A x \in S : f[x] \in Int /\ g[x] \in Int /\ h[x] = f[x] + g[x]
    PROVE  SumOf(h, S) = SumOf(f, S) + SumOf(g, S)
<1>. DEFINE G == {T \in SUBSET S : SumOf(h, T) = SumOf(f, T) + SumOf(g, T)}
<1>1. \A x \in S : f[x] \in Int /\ g[x] \in Int /\ h[x] \in Int
  OBVIOUS
<1>2. /\ SumOf(f, {}) = 0 /\ SumOf(g, {}) = 0 /\ SumOf(h, {}) = 0
      /\ \A T \in SUBSET S : Summed(f, T) /\ Summed(g, T) /\ Summed(h, T)
  BY <1>1, SumPartsOf
<1>3. {} \in G
  BY <1>2
<1>4. ASSUME NEW T \in SUBSET S, NEW x \in T, T \ {x} \in G
      PROVE  T \in G
  <2>1. /\ SumOf(f, T) = f[x] + SumOf(f, T \ {x}) /\ SumOf(g, T) = g[x] + SumOf(g, T \ {x})
        /\ SumOf(h, T) = h[x] + SumOf(h, T \ {x})
        /\ SumOf(f, T \ {x}) \in Int /\ SumOf(g, T \ {x}) \in Int
    BY <1>2 DEF Summed
  <2>2. SumOf(h, T \ {x}) = SumOf(f, T \ {x}) + SumOf(g, T \ {x})
    BY <1>4
  <2>3. x \in S
    OBVIOUS
  <2>. QED
    BY <1>1, <2>1, <2>2, <2>3
<1>. HIDE DEF G
<1>5. SUBSET S \subseteq G
  BY <1>3, <1>4, SetInduction
<1>. QED
  BY <1>5 DEF G

\* Sums of the same numbers are the same.
LEMMA SumSame ==
    ASSUME NEW S, IsFiniteSet(S), NEW f, NEW g, \A x \in S : f[x] \in Int /\ g[x] = f[x]
    PROVE  SumOf(f, S) = SumOf(g, S)
<1>. DEFINE z == [x \in S |-> 0]
<1>1. \A x \in S : f[x] \in Int /\ z[x] \in Int /\ f[x] = f[x] + z[x] /\ g[x] = f[x] + z[x]
  OBVIOUS
<1>. HIDE DEF z
<1>2. SumOf(f, S) = SumOf(f, S) + SumOf(z, S)
  BY <1>1, SumAdds
<1>3. SumOf(g, S) = SumOf(f, S) + SumOf(z, S)
  BY <1>1, SumAdds
<1>. QED
  BY <1>2, <1>3

\* A factor in front of a sum.
LEMMA SumScales ==
    ASSUME NEW S, IsFiniteSet(S), NEW f, NEW g, NEW c \in Int,
           \A x \in S : f[x] \in Int /\ g[x] = c * f[x]
    PROVE  SumOf(g, S) = c * SumOf(f, S)
<1>. DEFINE G == {T \in SUBSET S : SumOf(g, T) = c * SumOf(f, T)}
<1>1. \A x \in S : f[x] \in Int /\ g[x] \in Int
  OBVIOUS
<1>2. /\ SumOf(f, {}) = 0 /\ SumOf(g, {}) = 0
      /\ \A T \in SUBSET S : Summed(f, T) /\ Summed(g, T)
  BY <1>1, SumPartsOf
<1>3. {} \in G
  BY <1>2
<1>4. ASSUME NEW T \in SUBSET S, NEW x \in T, T \ {x} \in G
      PROVE  T \in G
  <2>. DEFINE a == f[x]
              b == SumOf(f, T \ {x})
  <2>1. /\ SumOf(f, T) = a + b /\ SumOf(g, T) = g[x] + SumOf(g, T \ {x})
        /\ b \in Int /\ a \in Int /\ g[x] = c * a
    BY <1>1, <1>2 DEF Summed
  <2>2. SumOf(g, T \ {x}) = c * b
    BY <1>4
  <2>. HIDE DEF a, b
  <2>3. c * a + c * b = c * (a + b)
    BY <2>1
  <2>. QED
    BY <2>1, <2>2, <2>3
<1>. HIDE DEF G
<1>5. SUBSET S \subseteq G
  BY <1>3, <1>4, SetInduction
<1>. QED
  BY <1>5 DEF G

\* Where each number is at most c more than another, so are the sums, times their size.
LEMMA SumWithin ==
    ASSUME NEW S, IsFiniteSet(S), NEW f, NEW g, NEW c \in Int,
           \A x \in S : f[x] \in Int /\ g[x] \in Int /\ f[x] <= g[x] + c
    PROVE  SumOf(f, S) <= SumOf(g, S) + c * Cardinality(S)
<1>. DEFINE G == {T \in SUBSET S : SumOf(f, T) <= SumOf(g, T) + c * Cardinality(T)}
<1>1. /\ SumOf(f, {}) = 0 /\ SumOf(g, {}) = 0
      /\ \A T \in SUBSET S : Summed(f, T) /\ Summed(g, T)
  BY SumPartsOf
<1>2. {} \in G
  BY <1>1, FS_EmptySet
<1>3. ASSUME NEW T \in SUBSET S, NEW x \in T, T \ {x} \in G
      PROVE  T \in G
  <2>. DEFINE n == Cardinality(T \ {x})
  <2>1. /\ SumOf(f, T) = f[x] + SumOf(f, T \ {x}) /\ SumOf(g, T) = g[x] + SumOf(g, T \ {x})
        /\ SumOf(f, T \ {x}) \in Int /\ SumOf(g, T \ {x}) \in Int
    BY <1>1 DEF Summed
  <2>2. f[x] \in Int /\ g[x] \in Int /\ f[x] <= g[x] + c
    OBVIOUS
  <2>3. IsFiniteSet(T)
    BY FS_Subset
  <2>4. Cardinality(T) = n + 1 /\ n \in Nat
    <3>1. n = Cardinality(T) - 1 /\ Cardinality(T) \in Nat /\ IsFiniteSet(T \ {x})
      BY <2>3, FS_RemoveElement, FS_CardinalityType
    <3>2. n \in Nat
      BY <3>1, FS_CardinalityType
    <3>. HIDE DEF n
    <3>. QED
      BY <3>1, <3>2
  <2>5. SumOf(f, T \ {x}) <= SumOf(g, T \ {x}) + c * n
    BY <1>3
  <2>. HIDE DEF n
  <2>6. c * (n + 1) = c * n + c
    BY <2>4
  <2>7. c * n \in Int
    BY <2>4
  <2>8. SumOf(f, T) <= SumOf(g, T) + c * Cardinality(T)
    BY <2>1, <2>2, <2>4, <2>5, <2>6, <2>7
  <2>. QED
    BY <2>8
<1>. HIDE DEF G
<1>4. SUBSET S \subseteq G
  BY <1>2, <1>3, SetInduction
<1>. QED
  BY <1>4 DEF G

\* A sum is that of its parts: F sums amt over the members of D of each kind.
OfKind(D, kind, k) == {i \in D : kind[i] = k}

LEMMA SumByKind ==
    ASSUME NEW D, IsFiniteSet(D), NEW S, IsFiniteSet(S),
           NEW amt, \A i \in D : amt[i] \in Int,
           NEW kind, \A i \in D : kind[i] \in S,
           NEW F, \A s \in S : F[s] = SumOf(amt, OfKind(D, kind, s))
    PROVE  SumOf(F, S) = SumOf(amt, D) /\ \A s \in S : F[s] \in Int
<1>. DEFINE Kin(E, s) == OfKind(E, kind, s)
            Fs(E) == [s \in S |-> SumOf(amt, Kin(E, s))]
            G == {E \in SUBSET D : SumOf(Fs(E), S) = SumOf(amt, E)}
<1>1. SumOf(amt, {}) = 0 /\ \A E \in SUBSET D : Summed(amt, E)
  BY SumPartsOf
<1>2. \A E \in SUBSET D : \A s \in S : Kin(E, s) \in SUBSET D /\ Fs(E)[s] = SumOf(amt, Kin(E, s))
  BY DEF OfKind
<1>3. \A E \in SUBSET D : \A s \in S : Fs(E)[s] \in Int
  BY <1>1, <1>2 DEF Summed
<1>4. {} \in G
  <2>1. \A s \in S : Kin({}, s) = {}
    BY DEF OfKind
  <2>2. \A s \in S : Fs({})[s] = 0
    BY <1>1, <2>1
  <2>. DEFINE z == Fs({})
  <2>3. \A s \in S : z[s] \in Int /\ z[s] = 0 * z[s]
    BY <2>2
  <2>. HIDE DEF z
  <2>4. SumOf(z, S) = 0 * SumOf(z, S)
    BY <2>3, SumScales
  <2>5. SumOf(z, S) \in Int
    BY <2>3, SumPartsOf DEF Summed
  <2>6. SumOf(z, S) = 0
    BY <2>4, <2>5
  <2>. QED
    BY <1>1, <2>6 DEF z
<1>5. ASSUME NEW E \in SUBSET D, NEW x \in E, E \ {x} \in G
      PROVE  E \in G
  <2>. DEFINE k == kind[x]
              less == Fs(E \ {x})
              more == Fs(E)
              others == S \ {k}
  <2>1. k \in S /\ x \in D /\ amt[x] \in Int
    OBVIOUS
  <2>2. \A s \in others : more[s] = less[s]
    <3>1. \A s \in others : Kin(E, s) = Kin(E \ {x}, s)
      BY DEF OfKind
    <3>. QED
      BY <3>1
  <2>3. more[k] = amt[x] + less[k]
    <3>1. Kin(E, k) \ {x} = Kin(E \ {x}, k) /\ x \in Kin(E, k) /\ Kin(E, k) \in SUBSET D
      BY DEF OfKind
    <3>2. SumOf(amt, Kin(E, k)) = amt[x] + SumOf(amt, Kin(E, k) \ {x})
      BY <1>1, <3>1 DEF Summed
    <3>. QED
      BY <2>1, <3>1, <3>2
  <2>4. \A s \in S : more[s] \in Int /\ less[s] \in Int
    BY <1>3
  <2>. HIDE DEF more, less, k
  <2>5. SumOf(more, S) = more[k] + SumOf(more, others)
        /\ SumOf(less, S) = less[k] + SumOf(less, others)
        /\ SumOf(less, others) \in Int
    <3>1. S \in SUBSET S /\ others \in SUBSET S
      OBVIOUS
    <3>2. Summed(more, S)
      BY <2>4, <3>1, SumPartsOf
    <3>3. Summed(less, S) /\ Summed(less, others)
      BY <2>4, <3>1, SumPartsOf
    <3>. HIDE DEF others
    <3>. QED
      BY <2>1, <3>2, <3>3 DEF Summed, others
  <2>6. SumOf(less, others) = SumOf(more, others)
    <3>1. IsFiniteSet(others)
      BY FS_Subset
    <3>. QED
      BY <2>2, <2>4, <3>1, SumSame
  <2>7. SumOf(less, S) = SumOf(amt, E \ {x})
    BY <1>5 DEF less
  <2>8. SumOf(amt, E) = amt[x] + SumOf(amt, E \ {x})
    BY <1>1 DEF Summed
  <2>9. SumOf(more, S) = SumOf(amt, E)
    <3>1. less[k] \in Int /\ amt[x] \in Int
      BY <2>1, <2>4
    <3>. QED
      BY <2>3, <2>5, <2>6, <2>7, <2>8, <3>1
  <2>. QED
    BY <2>9 DEF more
<1>6. SumOf(Fs(D), S) = SumOf(amt, D)
  <2>. HIDE DEF G
  <2>1. SUBSET D \subseteq G
    BY <1>4, <1>5, SetInduction
  <2>. QED
    BY <2>1 DEF G
<1>7. \A s \in S : F[s] = Fs(D)[s] /\ Fs(D)[s] \in Int
  BY <1>2, <1>3
<1>. HIDE DEF Fs
<1>8. SumOf(Fs(D), S) = SumOf(F, S)
  <2>. DEFINE g == Fs(D)
  <2>1. \A s \in S : g[s] \in Int /\ F[s] = g[s]
    BY <1>7
  <2>. HIDE DEF g
  <2>2. SumOf(g, S) = SumOf(F, S)
    BY <2>1, SumSame
  <2>. QED
    BY <2>2 DEF g
<1>. QED
  BY <1>6, <1>7, <1>8

-----------------------------------------------------------------------------
(***************************************************************************)
(* Ratings: what requests, overrides and ratings do to scores.             *)
(***************************************************************************)
LEMMA RatingsStart ==
    ASSUME PartInit, part = "ratings"
    PROVE  Rating!Init
BY DEF PartInit

LEMMA RatingsStep ==
    ASSUME [PartNext]_<<vars, store>>, part = "ratings"
    PROVE  [Rating!Next]_Rating!vars
BY DEF PartNext, vars, store, Rating!vars, Rating!slot

LEMMA RatingCardinality ==
    ASSUME NEW S
    PROVE  /\ Rating!Cardinality(S) = Cardinality(S)
           /\ Rating!IsFiniteSet(S) <=> IsFiniteSet(S)
BY DEF Rating!Cardinality, Cardinality, Rating!IsFiniteSet, IsFiniteSet

LEMMA RatingFacts ==
    /\ IsFiniteSet(RatedBuyers) /\ IsFiniteSet(RatedSellers)
    /\ RatedBuyers \cap RatedSellers = {}
    /\ BuyerLimit \in Nat /\ BuyerLimit > 0 /\ SellerLimit \in Nat /\ SellerLimit > 0
    /\ PointsGiven \subseteq Rating!Points
BY RatingConstants, RatingCardinality DEF Rating!RatingsAssumption

LEMMA RatingSum ==
    ASSUME NEW f, NEW S
    PROVE  Rating!SumFunctionOnSet(f, S) = SumOf(f, S)
BY DEF SumOf, MapThenSumSet, MapThenFoldSet, Rating!SumFunctionOnSet,
   Rating!FoldFunctionOnSet, Rating!MapThenFoldSet

\* A sum with one of its numbers changed.
LEMMA SumChanges ==
    ASSUME NEW S, IsFiniteSet(S), NEW f, NEW g, NEW k,
           \A x \in S : f[x] \in Int /\ g[x] \in Int /\ (x # k => g[x] = f[x])
    PROVE  /\ SumOf(f, S) \in Int
           /\ SumOf(g, S) = SumOf(f, S) + (IF k \in S THEN g[k] - f[k] ELSE 0)
<1>1. Summed(f, S) /\ Summed(g, S)
  <2>1. S \in SUBSET S /\ (\A x \in S : f[x] \in Int) /\ (\A x \in S : g[x] \in Int)
    OBVIOUS
  <2>. QED
    BY <2>1, SumPartsOf
<1>2. CASE k \notin S
  <2>1. \A x \in S : f[x] \in Int /\ g[x] = f[x]
    BY <1>2
  <2>2. SumOf(f, S) = SumOf(g, S)
    BY <2>1, SumSame
  <2>. QED
    BY <1>1, <1>2, <2>2 DEF Summed
<1>3. CASE k \in S
  <2>. DEFINE T == S \ {k}
  <2>1. IsFiniteSet(T) /\ T \in SUBSET S /\ \A x \in T : f[x] \in Int /\ g[x] = f[x]
    BY FS_Subset
  <2>2. SumOf(f, S) = f[k] + SumOf(f, T) /\ SumOf(g, S) = g[k] + SumOf(g, T)
    BY <1>1, <1>3 DEF Summed
  <2>3. SumOf(f, T) \in Int
    BY <2>1, SumPartsOf DEF Summed
  <2>. HIDE DEF T
  <2>4. SumOf(f, T) = SumOf(g, T)
    BY <2>1, SumSame
  <2>5. f[k] \in Int /\ g[k] \in Int
    BY <1>3
  <2>. QED
    BY <1>1, <1>3, <2>2, <2>3, <2>4, <2>5 DEF Summed
<1>. QED
  BY <1>2, <1>3

LEMMA KindsFinite == IsFiniteSet(Rating!Kinds)
<1>. DEFINE A == {"month", "quarter", "old"}
            BS == RatedBuyers \X RatedSellers
            D == BS \X A
            K == Rating!Kinds
            f == [p \in D |-> <<p[1][1], p[1][2], p[2]>>]
<1>1. IsFiniteSet(A)
  <2>1. IsFiniteSet({}) /\ A = (({} \cup {"month"}) \cup {"quarter"}) \cup {"old"}
    BY FS_EmptySet
  <2>2. IsFiniteSet({} \cup {"month"})
    BY <2>1, FS_AddElement
  <2>3. IsFiniteSet(({} \cup {"month"}) \cup {"quarter"})
    BY <2>2, FS_AddElement
  <2>4. IsFiniteSet((({} \cup {"month"}) \cup {"quarter"}) \cup {"old"})
    BY <2>3, FS_AddElement
  <2>. QED
    BY <2>1, <2>4
<1>2. IsFiniteSet(D)
  <2>1. IsFiniteSet(BS)
    BY RatingFacts, FS_Product
  <2>. HIDE DEF A, BS
  <2>. QED
    BY <1>1, <2>1, FS_Product
<1>3. \A p \in D : f[p] \in K
  BY DEF Rating!Kinds, Rating!Ages
<1>4. \A k \in K : \E p \in D : f[p] = k
  <2>1. ASSUME NEW k \in K
        PROVE  \E p \in D : f[p] = k
    <3>1. PICK b \in RatedBuyers, s \in RatedSellers, a \in A : k = <<b, s, a>>
      BY DEF Rating!Kinds, Rating!Ages
    <3>2. <<<<b, s>>, a>> \in D /\ f[<<<<b, s>>, a>>] = k
      BY <3>1
    <3>. QED
      BY <3>2
  <2>. QED
    BY <2>1
<1>5. f \in [D -> K]
  BY <1>3
<1>. HIDE DEF D, K, f
<1>6. f \in Surjection(D, K)
  BY <1>4, <1>5 DEF Surjection
<1>7. IsFiniteSet(K)
  BY <1>2, <1>6, FS_Surjection
<1>. QED
  BY <1>7 DEF K

\* The requests of a buyer or to a seller.
AskedKinds(x) == {k \in Rating!Kinds : x \in {k[1], k[2]}}
AskedOf(rows, x) == SumOf(rows, AskedKinds(x))

LEMMA AskedIs == \A x : Rating!Asked(x) = AskedOf(t3, x)
BY RatingSum DEF Rating!Asked, Rating!Rows, AskedOf, AskedKinds

LEMMA KindOf ==
    ASSUME NEW b \in RatedBuyers, NEW s \in RatedSellers, NEW age \in Rating!Ages
    PROVE  /\ <<b, s, age>> \in Rating!Kinds
           /\ \A x : <<b, s, age>> \in AskedKinds(x) <=> x \in {b, s}
BY DEF Rating!Kinds, AskedKinds

LEMMA AskedTypes ==
    ASSUME NEW rows \in [Rating!Kinds -> Nat], NEW x
    PROVE  IsFiniteSet(AskedKinds(x)) /\ AskedOf(rows, x) \in Nat
<1>1. IsFiniteSet(AskedKinds(x)) /\ AskedKinds(x) \subseteq Rating!Kinds
  BY KindsFinite, FS_Subset DEF AskedKinds
<1>2. \A k \in AskedKinds(x) : rows[k] \in Nat
  BY <1>1
<1>. QED
  BY <1>1, <1>2, SumOfNumbers DEF AskedOf

\* A request is asked of its buyer and its seller.
LEMMA AskedOnce ==
    ASSUME NEW b \in RatedBuyers, NEW s \in RatedSellers, NEW age \in Rating!Ages,
           NEW rows \in [Rating!Kinds -> Nat], NEW after \in [Rating!Kinds -> Nat],
           \A y \in Rating!Kinds : y # <<b, s, age>> => after[y] = rows[y], NEW x
    PROVE  AskedOf(after, x) =
             AskedOf(rows, x) +
               (IF x \in {b, s} THEN after[<<b, s, age>>] - rows[<<b, s, age>>] ELSE 0)
<1>. DEFINE k == <<b, s, age>>
            S == AskedKinds(x)
<1>1. k \in Rating!Kinds /\ (k \in S <=> x \in {b, s})
  BY KindOf
<1>2. IsFiniteSet(S) /\ S \subseteq Rating!Kinds /\ AskedOf(rows, x) \in Nat
  BY AskedTypes DEF AskedKinds
<1>3. \A y \in Rating!Kinds : y # k => after[y] = rows[y]
  OBVIOUS
<1>. HIDE DEF k, S
<1>5. \A y \in S : rows[y] \in Int /\ after[y] \in Int /\ (y # k => after[y] = rows[y])
  BY <1>2, <1>3
<1>6. SumOf(after, S) = SumOf(rows, S) + (IF k \in S THEN after[k] - rows[k] ELSE 0)
  BY <1>2, <1>5, SumChanges
<1>7. AskedOf(after, x) = AskedOf(rows, x) + (IF x \in {b, s} THEN after[k] - rows[k] ELSE 0)
  BY <1>1, <1>6 DEF AskedOf, S
<1>. QED
  BY <1>7 DEF k

\* A sum over some members is the sum over all with nothing for the others.
LEMMA SumOfPart ==
    ASSUME NEW S, IsFiniteSet(S), NEW T \in SUBSET S, NEW f, NEW g,
           \A x \in S : f[x] \in Int /\ g[x] = IF x \in T THEN f[x] ELSE 0
    PROVE  SumOf(g, S) = SumOf(f, T)
<1>. DEFINE G == {E \in SUBSET S : SumOf(g, E) = SumOf(f, E \cap T)}
<1>1. \A x \in S : f[x] \in Int /\ g[x] \in Int
  OBVIOUS
<1>2. /\ SumOf(f, {}) = 0 /\ SumOf(g, {}) = 0
      /\ \A E \in SUBSET S : Summed(f, E) /\ Summed(g, E)
  BY <1>1, SumPartsOf
<1>3. {} \in G
  <2>1. {} \cap T = {}
    OBVIOUS
  <2>. QED
    BY <1>2, <2>1
<1>4. ASSUME NEW E \in SUBSET S, NEW x \in E, E \ {x} \in G
      PROVE  E \in G
  <2>1. SumOf(g, E) = g[x] + SumOf(g, E \ {x}) /\ SumOf(g, E \ {x}) = SumOf(f, (E \ {x}) \cap T)
    BY <1>2, <1>4 DEF Summed
  <2>2. SumOf(f, (E \ {x}) \cap T) \in Int
    <3>1. (E \ {x}) \cap T \in SUBSET S
      OBVIOUS
    <3>. QED
      BY <1>2, <3>1 DEF Summed
  <2>3. CASE x \in T
    <3>. DEFINE V == E \cap T
                W == (E \ {x}) \cap T
    <3>1. V \in SUBSET S /\ x \in V /\ V \ {x} = W /\ g[x] = f[x]
      BY <2>3
    <3>2. SumOf(g, E) = g[x] + SumOf(f, W)
      BY <2>1
    <3>. HIDE DEF V, W
    <3>3. Summed(f, V)
      BY <1>2, <3>1
    <3>4. SumOf(f, V) = f[x] + SumOf(f, W)
      BY <3>1, <3>3 DEF Summed
    <3>. QED
      BY <3>1, <3>2, <3>4 DEF V
  <2>4. CASE x \notin T
    <3>. DEFINE W == (E \ {x}) \cap T
    <3>1. E \cap T = W /\ g[x] = 0
      BY <2>4
    <3>2. SumOf(g, E) = g[x] + SumOf(f, W) /\ SumOf(f, W) \in Int
      BY <2>1, <2>2
    <3>. HIDE DEF W
    <3>3. SumOf(g, E) = SumOf(f, W)
      BY <3>1, <3>2
    <3>. QED
      BY <3>1, <3>3
  <2>5. SumOf(g, E) = SumOf(f, E \cap T)
    BY <2>3, <2>4
  <2>. QED
    BY <2>5
<1>. HIDE DEF G
<1>5. S \in G
  BY <1>3, <1>4, SetInduction
<1>6. S \cap T = T
  OBVIOUS
<1>. QED
  BY <1>5, <1>6 DEF G

\* Some of several numbers sum to no more than all.
LEMMA SumOfFewer ==
    ASSUME NEW S, IsFiniteSet(S), NEW T \in SUBSET S, NEW f, \A x \in S : f[x] \in Nat
    PROVE  SumOf(f, T) <= SumOf(f, S)
<1>. DEFINE g == [x \in S |-> IF x \in T THEN f[x] ELSE 0]
<1>1. \A x \in S : /\ f[x] \in Int /\ g[x] = (IF x \in T THEN f[x] ELSE 0)
                   /\ g[x] \in Int /\ g[x] <= f[x] + 0
  OBVIOUS
<1>. HIDE DEF g
<1>2. SumOf(g, S) = SumOf(f, T)
  BY <1>1, SumOfPart
<1>3. SumOf(g, S) <= SumOf(f, S) + 0 * Cardinality(S)
  <2>1. 0 \in Int
    OBVIOUS
  <2>. QED
    BY <1>1, <2>1, SumWithin
<1>4. Cardinality(S) \in Nat /\ SumOf(f, S) \in Nat
  BY FS_CardinalityType, SumOfNumbers
<1>. QED
  BY <1>2, <1>3, <1>4

LEMMA WindowIsAsked ==
    ASSUME t3 \in [Rating!Kinds -> Nat]
    PROVE  /\ \A b \in RatedBuyers : Rating!OfBuyer(b) <= Rating!Asked(b)
           /\ \A s \in RatedSellers : Rating!OfSeller(s) <= Rating!Asked(s)
<1>1. ASSUME NEW x, NEW T \in SUBSET AskedKinds(x)
      PROVE  SumOf(t3, T) <= Rating!Asked(x)
  <2>1. \A k \in AskedKinds(x) : t3[k] \in Nat
    BY DEF AskedKinds
  <2>2. IsFiniteSet(AskedKinds(x))
    BY AskedTypes
  <2>3. SumOf(t3, T) <= SumOf(t3, AskedKinds(x))
    BY <2>1, <2>2, SumOfFewer
  <2>. QED
    BY <2>3, AskedIs DEF AskedOf
<1>2. ASSUME NEW b \in RatedBuyers
      PROVE  Rating!OfBuyer(b) <= Rating!Asked(b)
  <2>1. {b} \X RatedSellers \X {"month", "quarter"} \in SUBSET AskedKinds(b)
    BY DEF AskedKinds, Rating!Kinds, Rating!Ages
  <2>. QED
    BY <1>1, <2>1, RatingSum DEF Rating!OfBuyer, Rating!Rows
<1>3. ASSUME NEW s \in RatedSellers
      PROVE  Rating!OfSeller(s) <= Rating!Asked(s)
  <2>1. RatedBuyers \X {s} \X {"month"} \in SUBSET AskedKinds(s)
    BY DEF AskedKinds, Rating!Kinds, Rating!Ages
  <2>. QED
    BY <1>1, <2>1, RatingSum DEF Rating!OfSeller, Rating!Rows
<1>. QED
  BY <1>2, <1>3

LEMMA WindowTypes ==
    ASSUME t3 \in [Rating!Kinds -> Nat]
    PROVE  /\ \A b \in RatedBuyers : Rating!OfBuyer(b) \in Nat
           /\ \A s \in RatedSellers : Rating!OfSeller(s) \in Nat
<1>1. ASSUME NEW T \in SUBSET Rating!Kinds
      PROVE  SumOf(t3, T) \in Nat
  <2>1. IsFiniteSet(T) /\ \A k \in T : t3[k] \in Nat
    BY KindsFinite, FS_Subset
  <2>. QED
    BY <2>1, SumOfNumbers
<1>2. ASSUME NEW b \in RatedBuyers
      PROVE  Rating!OfBuyer(b) \in Nat
  <2>1. {b} \X RatedSellers \X {"month", "quarter"} \in SUBSET Rating!Kinds
    BY DEF Rating!Kinds, Rating!Ages
  <2>. QED
    BY <1>1, <2>1, RatingSum DEF Rating!OfBuyer, Rating!Rows
<1>3. ASSUME NEW s \in RatedSellers
      PROVE  Rating!OfSeller(s) \in Nat
  <2>1. RatedBuyers \X {s} \X {"month"} \in SUBSET Rating!Kinds
    BY DEF Rating!Kinds, Rating!Ages
  <2>. QED
    BY <1>1, <2>1, RatingSum DEF Rating!OfSeller, Rating!Rows
<1>. QED
  BY <1>2, <1>3

\* Which places of a handler are open requests that may still lower x, or are not counted.
MayLower(at, has, x) ==
    IF x \in RatedBuyers THEN at \in Rating!BuyerSteps /\ has.buyer = x
    ELSE at \in Rating!RequestSteps /\ has.seller = x
NotCounted(at, has, b) == at \in {"read", "count"} /\ has.buyer = b

LEMMA OpenSets ==
    /\ \A x : Rating!Pending(x) = {r \in Slots : MayLower(step[r], task[r], x)}
    /\ \A b : Rating!Uncounted(b) = {r \in Slots : NotCounted(step[r], task[r], b)}
BY DEF Rating!Pending, Rating!Uncounted, MayLower, NotCounted

\* Two sets that differ in one place.
LEMMA OnePlace ==
    ASSUME NEW S, NEW T, NEW r, IsFiniteSet(S), S \ {r} = T \ {r}
    PROVE  /\ IsFiniteSet(T) /\ Cardinality(S) \in Nat /\ Cardinality(T) \in Nat
           /\ r \in S /\ r \in T => Cardinality(T) = Cardinality(S)
           /\ r \in S /\ r \notin T => Cardinality(T) = Cardinality(S) - 1
           /\ r \notin S /\ r \in T => Cardinality(T) = Cardinality(S) + 1
           /\ r \notin S /\ r \notin T => Cardinality(T) = Cardinality(S)
<1>. DEFINE U == S \ {r}
<1>1. IsFiniteSet(U) /\ r \notin U
  BY FS_Subset
<1>2. Cardinality(U) \in Nat
  BY <1>1, FS_CardinalityType
<1>3. IsFiniteSet(U \cup {r}) /\ Cardinality(U \cup {r}) = Cardinality(U) + 1
  BY <1>1, FS_AddElement
<1>4. (r \in S => S = U \cup {r}) /\ (r \notin S => S = U)
      /\ (r \in T => T = U \cup {r}) /\ (r \notin T => T = U)
  OBVIOUS
<1>. HIDE DEF U
<1>5. CASE r \in S /\ r \in T
  <2>1. S = U \cup {r} /\ T = S
    BY <1>4, <1>5
  <2>. QED
    BY <1>2, <1>3, <1>5, <2>1
<1>6. CASE r \in S /\ r \notin T
  <2>1. T = U /\ S = U \cup {r}
    BY <1>4, <1>6
  <2>. QED
    BY <1>1, <1>2, <1>3, <1>6, <2>1
<1>7. CASE r \notin S /\ r \in T
  <2>1. S = U /\ T = U \cup {r}
    BY <1>4, <1>7
  <2>. QED
    BY <1>1, <1>2, <1>3, <1>7, <2>1
<1>8. CASE r \notin S /\ r \notin T
  BY <1>1, <1>2, <1>4, <1>8
<1>. QED
  BY <1>5, <1>6, <1>7, <1>8

\* A step of one handler.
Moves(r, at, has) ==
    /\ step' \in [Slots -> Rating!Steps] /\ DOMAIN task' = Slots
    /\ step'[r] = at /\ task'[r] = has
    /\ \A q \in Slots : q # r => step'[q] = step[q] /\ task'[q] = task[q]

LEMMA SetsMove ==
    ASSUME NEW r \in Slots, NEW at, NEW has, Moves(r, at, has)
    PROVE  /\ \A x : /\ Rating!Pending(x) \ {r} = Rating!Pending(x)' \ {r}
                     /\ r \in Rating!Pending(x) <=> MayLower(step[r], task[r], x)
                     /\ r \in Rating!Pending(x)' <=> MayLower(at, has, x)
           /\ \A b : /\ Rating!Uncounted(b) \ {r} = Rating!Uncounted(b)' \ {r}
                     /\ r \in Rating!Uncounted(b) <=> NotCounted(step[r], task[r], b)
                     /\ r \in Rating!Uncounted(b)' <=> NotCounted(at, has, b)
<1>1. /\ \A x : Rating!Pending(x)' = {q \in Slots : MayLower(step'[q], task'[q], x)}
      /\ \A b : Rating!Uncounted(b)' = {q \in Slots : NotCounted(step'[q], task'[q], b)}
  BY DEF Rating!Pending, Rating!Uncounted, MayLower, NotCounted
<1>2. step'[r] = at /\ task'[r] = has
      /\ \A q \in Slots : q # r => step'[q] = step[q] /\ task'[q] = task[q]
  BY DEF Moves
<1>. QED
  BY <1>1, <1>2, OpenSets

-----------------------------------------------------------------------------
\* Explanations: what n requests may have cost, more may have; one more costs two points.
LEMMA MoreExplains ==
    ASSUME NEW points, NEW from, NEW n \in Int, NEW m \in Int, n <= m,
           Rating!Explained(points, from, n)
    PROVE  Rating!Explained(points, from, m)
BY DEF Rating!Explained

LEMMA NoneExplains ==
    ASSUME NEW from \in Rating!Points, NEW n \in Nat
    PROVE  Rating!Explained(from, from, n)
<1>1. 0 \in 0 .. n
  OBVIOUS
<1>2. from = IF from > 2 * 0 THEN from - 2 * 0 ELSE 0
  BY DEF Rating!Points, Rating!Default
<1>. QED
  BY <1>1, <1>2 DEF Rating!Explained

LEMMA OneExplains ==
    ASSUME NEW points, NEW from \in Rating!Points, NEW n \in Int,
           Rating!Explained(points, from, n)
    PROVE  Rating!Explained(Rating!Lowered(points), from, n + 1)
<1>1. PICK k \in 0 .. n : points = IF from > 2 * k THEN from - 2 * k ELSE 0
  BY DEF Rating!Explained
<1>2. from \in Int /\ k + 1 \in 0 .. (n + 1)
  BY DEF Rating!Points, Rating!Default
<1>3. Rating!Lowered(points) = IF from > 2 * (k + 1) THEN from - 2 * (k + 1) ELSE 0
  <2>1. CASE from > 2 * k
    BY <1>1, <1>2, <2>1 DEF Rating!Lowered
  <2>2. CASE ~(from > 2 * k)
    BY <1>1, <1>2, <2>2 DEF Rating!Lowered
  <2>. QED
    BY <2>1, <2>2
<1>. QED
  BY <1>2, <1>3 DEF Rating!Explained

\* What asked requests have cost, with so many of them pending.
SpentFor(alone, asked, limit, pending) ==
    (IF asked < limit THEN 0 ELSE IF alone THEN asked - limit + 1 ELSE asked)
    - (IF asked < limit THEN 0 ELSE pending)

LEMMA SpentIs ==
    \A x : Rating!Spent(x) =
              SpentFor(serial, Rating!Asked(x), Rating!Limit(x), Cardinality(Rating!Pending(x)))
BY RatingCardinality DEF Rating!Spent, Rating!Penalties, SpentFor

LEMMA SpentGrows ==
    ASSUME NEW alone \in BOOLEAN, NEW limit \in Nat, limit > 0, NEW asked \in Nat,
           NEW pending \in Nat, pending <= asked, alone => pending <= 1
    PROVE  /\ SpentFor(alone, asked, limit, pending) \in Nat
           /\ pending > 0 =>
                 LET after == SpentFor(alone, asked, limit, pending - 1) IN
                 /\ after \in Nat /\ after >= SpentFor(alone, asked, limit, pending)
                 /\ asked >= limit => after = SpentFor(alone, asked, limit, pending) + 1
           /\ (alone => pending = 0) =>
                 LET after == SpentFor(alone, asked + 1, limit, pending + 1) IN
                 after \in Nat /\ after >= SpentFor(alone, asked, limit, pending)
<1>1. CASE asked + 1 < limit
  BY <1>1 DEF SpentFor
<1>2. CASE asked + 1 = limit
  BY <1>2 DEF SpentFor
<1>3. CASE asked >= limit
  BY <1>3 DEF SpentFor
<1>. QED
  BY <1>1, <1>2, <1>3

\* What there is to say of every score.
LEMMA LimitTypes ==
    \A x : Rating!Limit(x) \in Nat /\ Rating!Limit(x) > 0
BY RatingFacts DEF Rating!Limit

LEMMA PendingFew ==
    ASSUME Rating!Alone, serial, NEW x, IsFiniteSet(Rating!Pending(x))
    PROVE  Cardinality(Rating!Pending(x)) <= 1
<1>. DEFINE P == Rating!Pending(x)
<1>1. \A r, q \in P : r = q
  BY DEF Rating!Pending, Rating!Alone, Rating!BuyerSteps, Rating!RequestSteps
<1>. HIDE DEF P
<1>2. CASE P = {}
  BY <1>2, FS_EmptySet DEF P
<1>3. CASE P # {}
  <2>1. PICK r : r \in P
    BY <1>3
  <2>2. P = {r}
    BY <1>1, <2>1
  <2>3. Cardinality({r}) = 1
    BY FS_Singleton
  <2>. QED
    BY <2>2, <2>3 DEF P
<1>. QED
  BY <1>2, <1>3

LEMMA PendingTypes ==
    ASSUME Rating!TypeOK, Rating!Alone, Rating!PendingAsked, NEW x \in Rating!Rated
    PROVE  /\ IsFiniteSet(Rating!Pending(x)) /\ Cardinality(Rating!Pending(x)) \in Nat
           /\ Cardinality(Rating!Pending(x)) <= Rating!Asked(x)
           /\ serial => Cardinality(Rating!Pending(x)) <= 1
           /\ Rating!Asked(x) \in Nat /\ Rating!Spent(x) \in Nat
<1>1. IsFiniteSet(Rating!Pending(x)) /\ Cardinality(Rating!Pending(x)) <= Rating!Asked(x)
  BY RatingCardinality DEF Rating!PendingAsked
<1>2. Cardinality(Rating!Pending(x)) \in Nat
  BY <1>1, FS_CardinalityType
<1>3. Rating!Asked(x) \in Nat /\ serial \in BOOLEAN
  BY AskedTypes, AskedIs DEF Rating!TypeOK
<1>4. serial => Cardinality(Rating!Pending(x)) <= 1
  BY <1>1, PendingFew
<1>5. Rating!Limit(x) \in Nat /\ Rating!Limit(x) > 0
  BY LimitTypes
<1>6. Rating!Spent(x) \in Nat
  BY <1>1, <1>2, <1>3, <1>4, <1>5, SpentGrows, SpentIs
<1>. QED
  BY <1>1, <1>2, <1>3, <1>4, <1>6

-----------------------------------------------------------------------------
\* A step of an open request that does not open one anew: nothing is asked, and when a
\* request that could still lower x can no longer do so, one more is spent.
LEMMA RatingMoves ==
    ASSUME Rating!TypeOK, Rating!Alone, Rating!PendingAsked, UNCHANGED <<serial, t3>>,
           NEW r \in Slots, NEW at, NEW has, Moves(r, at, has),
           \A x : MayLower(at, has, x) => MayLower(step[r], task[r], x)
    PROVE  /\ Rating!PendingAsked' /\ \A x : Rating!Asked(x)' = Rating!Asked(x)
           /\ \A x \in Rating!Rated :
                 /\ Rating!Spent(x)' \in Nat /\ Rating!Spent(x)' >= Rating!Spent(x)
                 /\ Rating!Asked(x) >= Rating!Limit(x) /\ MayLower(step[r], task[r], x)
                       /\ ~MayLower(at, has, x) => Rating!Spent(x)' = Rating!Spent(x) + 1
<1>1. \A x : Rating!Asked(x)' = Rating!Asked(x)
  <2>1. \A x : Rating!Asked(x)' = AskedOf(t3', x)
    BY RatingSum DEF Rating!Asked, Rating!Rows, AskedOf, AskedKinds
  <2>. QED
    BY <2>1, AskedIs
<1>2. ASSUME NEW x \in Rating!Rated
      PROVE  /\ IsFiniteSet(Rating!Pending(x))'
             /\ Cardinality(Rating!Pending(x))' <= Rating!Asked(x)'
             /\ Rating!Spent(x)' \in Nat /\ Rating!Spent(x)' >= Rating!Spent(x)
             /\ Rating!Asked(x) >= Rating!Limit(x) /\ MayLower(step[r], task[r], x)
                   /\ ~MayLower(at, has, x) => Rating!Spent(x)' = Rating!Spent(x) + 1
  <2>. DEFINE P == Rating!Pending(x)
              Q == Rating!Pending(x)'
              a == Rating!Asked(x)
              l == Rating!Limit(x)
  <2>1. /\ IsFiniteSet(P) /\ Cardinality(P) \in Nat /\ Cardinality(P) <= a /\ a \in Nat
        /\ (serial => Cardinality(P) <= 1)
    BY PendingTypes
  <2>2. l \in Nat /\ l > 0 /\ serial \in BOOLEAN
    BY LimitTypes DEF Rating!TypeOK
  <2>3. /\ P \ {r} = Q \ {r} /\ (r \in P <=> MayLower(step[r], task[r], x))
        /\ (r \in Q <=> MayLower(at, has, x))
    BY SetsMove
  <2>4. r \in Q => r \in P
    BY <2>3
  <2>5. Rating!Spent(x) = SpentFor(serial, a, l, Cardinality(P))
    BY SpentIs
  <2>6. Rating!Spent(x)' = SpentFor(serial, a, l, Cardinality(Q))
    <3>1. Rating!Spent(x)' = SpentFor(serial, Rating!Asked(x), Rating!Limit(x),
                                      Cardinality(Rating!Pending(x)))'
      BY RatingCardinality DEF Rating!Spent, Rating!Penalties, SpentFor
    <3>2. Rating!Limit(x)' = Rating!Limit(x)
      BY DEF Rating!Limit
    <3>. QED
      BY <1>1, <3>1, <3>2 DEF SpentFor
  <2>7. CASE r \in P /\ r \notin Q
    <3>1. IsFiniteSet(Q) /\ Cardinality(Q) = Cardinality(P) - 1 /\ Cardinality(Q) \in Nat
      BY <2>1, <2>3, <2>7, OnePlace
    <3>. HIDE DEF P, Q, a, l
    <3>2. Cardinality(P) > 0
      BY <2>1, <3>1
    <3>3. /\ Rating!Spent(x)' \in Nat /\ Rating!Spent(x)' >= Rating!Spent(x)
          /\ a >= l => Rating!Spent(x)' = Rating!Spent(x) + 1
      <4>. DEFINE p == Cardinality(P)
                  now == SpentFor(serial, a, l, p)
                  then == SpentFor(serial, a, l, p - 1)
      <4>1. p \in Nat /\ p <= a /\ a \in Nat /\ (serial => p <= 1) /\ p > 0
        BY <2>1, <3>2
      <4>2. Rating!Spent(x) = now /\ Rating!Spent(x)' = then
        BY <2>5, <2>6, <3>1
      <4>. HIDE DEF p
      <4>3. then \in Nat /\ then >= now /\ (a >= l => then = now + 1)
        BY <2>2, <4>1, SpentGrows
      <4>. QED
        BY <4>2, <4>3
    <3>4. Cardinality(Q) <= a
      BY <2>1, <3>1
    <3>. QED
      BY <1>1, <3>1, <3>3, <3>4 DEF Q, a, l
  <2>8. CASE ~(r \in P /\ r \notin Q)
    <3>1. IsFiniteSet(Q) /\ Cardinality(Q) = Cardinality(P)
      BY <2>1, <2>3, <2>4, <2>8, OnePlace
    <3>2. Rating!Spent(x)' = Rating!Spent(x) /\ Rating!Spent(x) \in Nat
      BY <2>5, <2>6, <3>1, PendingTypes
    <3>3. ~(MayLower(step[r], task[r], x) /\ ~MayLower(at, has, x))
      BY <2>3, <2>8
    <3>4. Rating!Spent(x)' >= Rating!Spent(x)
      BY <3>2
    <3>. QED
      BY <1>1, <2>1, <3>1, <3>2, <3>3, <3>4
  <2>. QED
    BY <2>7, <2>8
<1>3. Rating!PendingAsked'
  BY <1>2, RatingCardinality DEF Rating!PendingAsked
<1>. QED
  BY <1>1, <1>2, <1>3

\* Requests get older: as many are asked of each buyer and seller.
LEMMA AgeAsks ==
    ASSUME Rating!TypeOK, NEW b \in RatedBuyers, NEW s \in RatedSellers,
           NEW from \in Rating!Ages, NEW to \in Rating!Ages, from # to,
           Rating!Age(b, s, from, to)
    PROVE  /\ t3' \in [Rating!Kinds -> Nat]
           /\ \A x : Rating!Asked(x)' = Rating!Asked(x)
<1>. DEFINE k == <<b, s, from>>
            m == <<b, s, to>>
            mid == [t3 EXCEPT ![k] = @ - 1]
<1>1. t3 \in [Rating!Kinds -> Nat] /\ t3[k] > 0
  BY DEF Rating!TypeOK, Rating!Age
<1>2. k \in Rating!Kinds /\ m \in Rating!Kinds /\ k # m
  BY KindOf
<1>3. t3' = [t3 EXCEPT ![k] = @ - 1, ![m] = @ + 1]
  BY DEF Rating!Age
<1>. HIDE DEF k, m
<1>4. t3[k] - 1 \in Nat /\ t3[m] + 1 \in Nat
  BY <1>1, <1>2
<1>5. /\ mid \in [Rating!Kinds -> Nat] /\ mid[k] = t3[k] - 1 /\ mid[m] = t3[m]
      /\ \A y \in Rating!Kinds : y # k => mid[y] = t3[y]
  BY <1>1, <1>2, <1>4
<1>6. t3' = [mid EXCEPT ![m] = @ + 1]
  BY <1>1, <1>2, <1>3
<1>. HIDE DEF mid
<1>7. /\ t3' \in [Rating!Kinds -> Nat] /\ t3'[m] = mid[m] + 1
      /\ \A y \in Rating!Kinds : y # m => t3'[y] = mid[y]
  BY <1>2, <1>4, <1>5, <1>6
<1>8. \A x : AskedOf(t3', x) = AskedOf(t3, x)
  <2>1. ASSUME NEW x
        PROVE  AskedOf(t3', x) = AskedOf(t3, x)
    <3>1. AskedOf(t3, x) \in Nat
      BY <1>1, AskedTypes
    <3>2. AskedOf(mid, x) = AskedOf(t3, x) + (IF x \in {b, s} THEN mid[k] - t3[k] ELSE 0)
      BY <1>1, <1>5, AskedOnce DEF k
    <3>3. AskedOf(t3', x) = AskedOf(mid, x) + (IF x \in {b, s} THEN t3'[m] - mid[m] ELSE 0)
      BY <1>5, <1>7, AskedOnce DEF m
    <3>4. t3[k] \in Nat /\ mid[m] \in Nat
      BY <1>1, <1>2, <1>5
    <3>5. CASE x \in {b, s}
      BY <1>5, <1>7, <3>1, <3>2, <3>3, <3>4, <3>5
    <3>6. CASE x \notin {b, s}
      BY <3>1, <3>2, <3>3, <3>6
    <3>. QED
      BY <3>5, <3>6
  <2>. QED
    BY <2>1
<1>9. \A x : Rating!Asked(x)' = AskedOf(t3', x)
  BY RatingSum DEF Rating!Asked, Rating!Rows, AskedOf, AskedKinds
<1>. QED
  BY <1>7, <1>8, <1>9, AskedIs

\* A request that comes is asked of its buyer and its seller, and may lower both.
LEMMA RequestAsks ==
    ASSUME Rating!TypeOK, Rating!Alone, Rating!PendingAsked, NEW r \in Slots,
           NEW b \in RatedBuyers, NEW s \in RatedSellers, Rating!RequestReplacement(r, b, s)
    PROVE  /\ t3' \in [Rating!Kinds -> Nat] /\ Rating!PendingAsked'
           /\ Moves(r, "read", [buyer |-> b, seller |-> s, old |-> 0])
           /\ \A x : Rating!Asked(x)' = Rating!Asked(x) + (IF x \in {b, s} THEN 1 ELSE 0)
           /\ \A x \in Rating!Rated :
                 Rating!Spent(x)' \in Nat /\ Rating!Spent(x)' >= Rating!Spent(x)
<1>. DEFINE k == <<b, s, "month">>
            has == [buyer |-> b, seller |-> s, old |-> 0]
<1>1. t3 \in [Rating!Kinds -> Nat] /\ k \in Rating!Kinds /\ "month" \in Rating!Ages
  BY KindOf DEF Rating!TypeOK, Rating!Ages
<1>2. t3' = [t3 EXCEPT ![k] = @ + 1] /\ UNCHANGED serial /\ step[r] = "idle"
      /\ (serial => \A q \in Slots : step[q] = "idle")
  BY DEF Rating!RequestReplacement, Rating!Idle
<1>3. Moves(r, "read", has)
  <2>1. /\ step' = [step EXCEPT ![r] = "read"] /\ task' = [task EXCEPT ![r] = has]
        /\ step \in [Slots -> Rating!Steps] /\ DOMAIN task = Slots
    BY DEF Rating!RequestReplacement, Rating!Keep, Rating!TypeOK
  <2>2. "read" \in Rating!Steps
    BY DEF Rating!Steps, Rating!RequestSteps, Rating!BuyerSteps
  <2>. HIDE DEF has
  <2>. QED
    BY <2>1, <2>2 DEF Moves
<1>. HIDE DEF k
<1>4. /\ t3' \in [Rating!Kinds -> Nat] /\ t3'[k] = t3[k] + 1 /\ t3[k] \in Nat
      /\ \A y \in Rating!Kinds : y # k => t3'[y] = t3[y]
  <2>1. t3[k] \in Nat /\ t3[k] + 1 \in Nat
    BY <1>1
  <2>. QED
    BY <1>1, <1>2, <2>1
<1>5. \A x : Rating!Asked(x)' = Rating!Asked(x) + (IF x \in {b, s} THEN 1 ELSE 0)
  <2>1. ASSUME NEW x
        PROVE  Rating!Asked(x)' = Rating!Asked(x) + (IF x \in {b, s} THEN 1 ELSE 0)
    <3>1. AskedOf(t3', x) = AskedOf(t3, x) + (IF x \in {b, s} THEN t3'[k] - t3[k] ELSE 0)
      BY <1>1, <1>4, AskedOnce DEF k
    <3>2. Rating!Asked(x)' = AskedOf(t3', x)
      BY RatingSum DEF Rating!Asked, Rating!Rows, AskedOf, AskedKinds
    <3>3. CASE x \in {b, s}
      BY <1>4, <3>1, <3>2, <3>3, AskedIs
    <3>4. CASE x \notin {b, s}
      BY <3>1, <3>2, <3>4, AskedIs
    <3>. QED
      BY <3>3, <3>4
  <2>. QED
    BY <2>1
<1>6. ASSUME NEW x \in Rating!Rated
      PROVE  /\ IsFiniteSet(Rating!Pending(x))'
             /\ Cardinality(Rating!Pending(x))' <= Rating!Asked(x)'
             /\ Rating!Spent(x)' \in Nat /\ Rating!Spent(x)' >= Rating!Spent(x)
  <2>. DEFINE P == Rating!Pending(x)
              Q == Rating!Pending(x)'
              a == Rating!Asked(x)
              l == Rating!Limit(x)
  <2>1. /\ IsFiniteSet(P) /\ Cardinality(P) \in Nat /\ Cardinality(P) <= a /\ a \in Nat
        /\ (serial => Cardinality(P) <= 1) /\ Rating!Spent(x) \in Nat
    BY PendingTypes
  <2>2. l \in Nat /\ l > 0 /\ serial \in BOOLEAN
    BY LimitTypes DEF Rating!TypeOK
  <2>3. /\ P \ {r} = Q \ {r} /\ (r \in P <=> MayLower(step[r], task[r], x))
        /\ (r \in Q <=> MayLower("read", has, x))
    BY <1>3, SetsMove
  <2>4. r \notin P /\ (r \in Q <=> x \in {b, s})
    BY <1>2, <2>3, RatingFacts
       DEF MayLower, Rating!Rated, Rating!RequestSteps, Rating!BuyerSteps
  <2>5. serial => Cardinality(P) = 0
    <3>1. serial => P = {}
      BY <1>2 DEF Rating!Pending, Rating!RequestSteps, Rating!BuyerSteps
    <3>. QED
      BY <3>1, FS_EmptySet
  <2>6. Rating!Spent(x) = SpentFor(serial, a, l, Cardinality(P))
    BY SpentIs
  <2>7. Rating!Spent(x)' = SpentFor(serial, Rating!Asked(x)', l, Cardinality(Q))
    <3>1. Rating!Spent(x)' = SpentFor(serial, Rating!Asked(x), Rating!Limit(x),
                                      Cardinality(Rating!Pending(x)))'
      BY RatingCardinality DEF Rating!Spent, Rating!Penalties, SpentFor
    <3>2. Rating!Limit(x)' = Rating!Limit(x)
      BY DEF Rating!Limit
    <3>. QED
      BY <1>2, <3>1, <3>2 DEF SpentFor
  <2>8. CASE x \in {b, s}
    <3>1. IsFiniteSet(Q) /\ Cardinality(Q) = Cardinality(P) + 1 /\ Cardinality(Q) \in Nat
      BY <2>1, <2>3, <2>4, <2>8, OnePlace
    <3>2. Rating!Asked(x)' = a + 1
      BY <1>5, <2>8
    <3>. DEFINE p == Cardinality(P)
                now == SpentFor(serial, a, l, p)
                then == SpentFor(serial, a + 1, l, p + 1)
    <3>3. /\ p \in Nat /\ p <= a /\ a \in Nat /\ (serial => p <= 1) /\ (serial => p = 0)
          /\ Rating!Spent(x) = now /\ Rating!Spent(x)' = then
      BY <2>1, <2>5, <2>6, <2>7, <3>1, <3>2
    <3>. HIDE DEF p, P, a, l
    <3>4. then \in Nat /\ then >= now
      BY <2>2, <3>3, SpentGrows
    <3>5. Cardinality(Q) <= Rating!Asked(x)'
      BY <3>1, <3>2, <3>3 DEF p
    <3>. QED
      BY <3>1, <3>3, <3>4, <3>5
  <2>9. CASE x \notin {b, s}
    <3>1. IsFiniteSet(Q) /\ Cardinality(Q) = Cardinality(P)
      BY <2>1, <2>3, <2>4, <2>9, OnePlace
    <3>2. Rating!Asked(x)' = a
      BY <1>5, <2>1, <2>9
    <3>3. Rating!Spent(x)' = Rating!Spent(x)
      BY <2>6, <2>7, <3>1, <3>2
    <3>. QED
      BY <2>1, <3>1, <3>2, <3>3
  <2>. QED
    BY <2>8, <2>9
<1>7. Rating!PendingAsked'
  BY <1>6, RatingCardinality DEF Rating!PendingAsked
<1>. QED
  BY <1>3, <1>4, <1>5, <1>6, <1>7

-----------------------------------------------------------------------------
\* What is true of an open handler: its kind of job, and what it has found out.
JobTyped(at, has) ==
    /\ at = "idle" => has = Rating!Free
    /\ at \in {"log", "patch"} => has \in Rating!PatchJob
    /\ at \in Rating!RequestSteps => has \in Rating!RequestJob
FoundOut(at, has) ==
    /\ at = "penalty" => Rating!Asked(has.buyer) >= BuyerLimit
    /\ at \in {"overall", "demote"} => Rating!Asked(has.seller) >= SellerLimit
    /\ at \in {"count", "window", "penalty"} => Rating!FromSource(has.buyer, has.old)
    /\ at = "demote" => Rating!FromSource(has.seller, has.old)
    /\ at = "patch" => has.new \in Rating!News(has.of)
RatedTyped ==
    /\ serial \in BOOLEAN /\ t6 \in BOOLEAN
    /\ t1 \in [Rating!Rated -> Rating!Points]
    /\ t2 \in [RatedBuyers -> Nat]
    /\ t3 \in [Rating!Kinds -> Nat]
    /\ t4 \in [Rating!Rated -> Seq(Rating!Override)]
    /\ t5 \in [RatedSellers -> SUBSET Rating!Points]
    /\ step \in [Slots -> Rating!Steps] /\ DOMAIN task = Slots
ScoresExplained == \A x \in Rating!Rated : Rating!FromSource(x, t1[x])

HandlersTrue == \A r \in Slots : JobTyped(step[r], task[r]) /\ FoundOut(step[r], task[r])

LEMMA RatingsInvIs ==
    Rating!RatingsInv <=>
        /\ RatedTyped /\ ScoresExplained /\ Rating!Alone /\ Rating!RequestsCounted
        /\ Rating!PendingAsked /\ Rating!HistoryKept
        /\ HandlersTrue
BY DEF Rating!RatingsInv, RatedTyped, ScoresExplained, HandlersTrue, JobTyped, FoundOut, Rating!TypeOK,
       Rating!LimitReached, Rating!ReadExplained

LEMMA JobBuyer ==
    ASSUME NEW at, NEW has, JobTyped(at, has)
    PROVE  /\ at \in Rating!RequestSteps =>
                 /\ has.buyer \in RatedBuyers /\ has.buyer \in Rating!Rated
                 /\ has.seller \in RatedSellers /\ has.seller \in Rating!Rated
                 /\ has.old \in Rating!Points
           /\ at \in {"log", "patch"} =>
                 /\ has.of \in Rating!Rated /\ has.old \in Rating!Points
                 /\ has.new \in Rating!Points
BY DEF JobTyped, Rating!RequestJob, Rating!PatchJob, Rating!Rated

\* What a handler found out stays so while requests, logs and ratings only come on top.
LEMMA FoundStays ==
    ASSUME \A x \in Rating!Rated :
              /\ Rating!Asked(x) \in Nat /\ Rating!Asked(x)' \in Nat
              /\ Rating!Asked(x) <= Rating!Asked(x)'
              /\ Rating!Spent(x) \in Nat /\ Rating!Spent(x)' \in Nat
              /\ Rating!Spent(x) <= Rating!Spent(x)'
              /\ Rating!News(x) \subseteq Rating!News(x)'
              /\ Rating!Sources(x) \subseteq Rating!Sources(x)'
    PROVE  /\ \A x \in Rating!Rated : \A points :
                 Rating!FromSource(x, points) => Rating!FromSource(x, points)'
           /\ \A at, has :
                 JobTyped(at, has) /\ FoundOut(at, has) => FoundOut(at, has)'
<1>1. ASSUME NEW x \in Rating!Rated, NEW points, Rating!FromSource(x, points)
      PROVE  Rating!FromSource(x, points)'
  <2>1. PICK from \in Rating!Sources(x) : Rating!Explained(points, from, Rating!Spent(x))
    BY <1>1 DEF Rating!FromSource
  <2>2. Rating!Explained(points, from, Rating!Spent(x)')
    <3>1. Rating!Spent(x) \in Int /\ Rating!Spent(x)' \in Int
      OBVIOUS
    <3>. QED
      BY <2>1, <3>1, MoreExplains
  <2>3. from \in Rating!Sources(x)'
    BY <2>1
  <2>. QED
    BY <2>2, <2>3 DEF Rating!FromSource
<1>2. ASSUME NEW at, NEW has, JobTyped(at, has), FoundOut(at, has)
      PROVE  FoundOut(at, has)'
  <2>1. CASE at \in Rating!RequestSteps
    <3>1. has.buyer \in Rating!Rated /\ has.seller \in Rating!Rated
      BY <1>2, <2>1, JobBuyer
    <3>2. at # "patch"
      BY <2>1 DEF Rating!RequestSteps, Rating!BuyerSteps
    <3>3. /\ (at \in {"count", "window", "penalty"} => Rating!FromSource(has.buyer, has.old)')
          /\ (at = "demote" => Rating!FromSource(has.seller, has.old)')
      BY <1>1, <1>2, <3>1 DEF FoundOut
    <3>4. BuyerLimit \in Nat /\ SellerLimit \in Nat
      BY RatingFacts
    <3>5. /\ (at = "penalty" => Rating!Asked(has.buyer)' >= BuyerLimit)
          /\ (at \in {"overall", "demote"} => Rating!Asked(has.seller)' >= SellerLimit)
      BY <1>2, <3>1, <3>4 DEF FoundOut
    <3>. QED
      BY <3>2, <3>3, <3>5 DEF FoundOut
  <2>2. CASE at \notin Rating!RequestSteps
    <3>1. at \notin {"count", "window", "penalty", "overall", "demote"}
      BY <2>2 DEF Rating!RequestSteps, Rating!BuyerSteps
    <3>2. at = "patch" => has.new \in Rating!News(has.of)'
      BY <1>2, JobBuyer DEF FoundOut
    <3>. QED
      BY <3>1, <3>2 DEF FoundOut
  <2>. QED
    BY <2>1, <2>2
<1>. QED
  BY <1>1, <1>2

\* A handler that moves alone leaves the others as they are.
LEMMA SlotsMove ==
    ASSUME RatedTyped, NEW r \in Slots, NEW at \in Rating!Steps, NEW has,
           step' = [step EXCEPT ![r] = at], task' = [task EXCEPT ![r] = has]
    PROVE  Moves(r, at, has)
BY DEF RatedTyped, Moves

LEMMA GoesMove ==
    ASSUME RatedTyped, NEW r \in Slots, NEW at \in Rating!Steps, Rating!Goto(r, at)
    PROVE  Moves(r, at, task[r])
BY DEF RatedTyped, Moves, Rating!Goto

LEMMA AloneMoves ==
    ASSUME Rating!Alone, UNCHANGED serial, NEW r \in Slots, NEW at, NEW has, Moves(r, at, has),
           step[r] # "idle" \/ (serial => \A q \in Slots : step[q] = "idle")
    PROVE  /\ Rating!Alone'
           /\ serial => \A q \in Slots : q # r => step[q] = "idle" /\ step'[q] = "idle"
BY DEF Rating!Alone, Moves

\* The history of a buyer's score as handlers that never overlap leave it.
Told(b, entries) ==
    \A i \in DOMAIN entries :
        Rating!Explained(entries[i].old, Rating!Before(entries, i), Rating!Spent(b))
Tells(b, at, has) ==
    /\ at \in {"count", "window", "penalty"} /\ has.buyer = b =>
          Rating!Explained(has.old, Rating!LeftBy(t4[b]), Rating!Spent(b))
    /\ at = "log" /\ has.of = b => has.old = t1[b]
    /\ at = "patch" /\ has.of = b => has.new = Rating!LeftBy(t4[b])
Stands(b) == Rating!Explained(t1[b], Rating!LeftBy(t4[b]), Rating!Spent(b))

LEMMA HistoryIs ==
    Rating!HistoryKept <=>
        (serial /\ ~t6 => \A b \in RatedBuyers :
            /\ Told(b, t4[b])
            /\ Stands(b) \/ \E r \in Slots : step[r] = "patch" /\ task[r].of = b
            /\ \A r \in Slots : Tells(b, step[r], task[r]))
BY DEF Rating!HistoryKept, Told, Tells, Stands

\* Before a step of the only open handler, the score stands unless it is to write it.
LEMMA HistoryNow ==
    ASSUME Rating!HistoryKept, serial, ~t6, NEW r \in Slots, step[r] # "patch",
           \A q \in Slots : q # r => step[q] = "idle", NEW b \in RatedBuyers
    PROVE  Told(b, t4[b]) /\ Stands(b) /\ Tells(b, step[r], task[r])
BY HistoryIs

LEMMA HistoryMoves ==
    ASSUME Rating!HistoryKept, UNCHANGED <<serial, t6>>, NEW r \in Slots, NEW at, NEW has,
           Moves(r, at, has),
           serial => \A q \in Slots : q # r => step'[q] = "idle",
           serial /\ ~t6 => \A b \in RatedBuyers :
               /\ Told(b, t4[b])' /\ (Stands(b)' \/ (at = "patch" /\ has.of = b))
               /\ Tells(b, at, has)'
    PROVE  Rating!HistoryKept'
<1>1. SUFFICES ASSUME serial', ~t6', NEW b \in RatedBuyers
               PROVE  /\ Told(b, t4[b])'
                      /\ Stands(b)' \/ \E q \in Slots : step'[q] = "patch" /\ task'[q].of = b
                      /\ \A q \in Slots : Tells(b, step[q], task[q])'
  BY DEF Rating!HistoryKept, Told, Tells, Stands
<1>2. /\ Told(b, t4[b])' /\ (Stands(b)' \/ (at = "patch" /\ has.of = b))
      /\ Tells(b, at, has)' /\ step'[r] = at /\ task'[r] = has
      /\ \A q \in Slots : q # r => step'[q] = "idle"
  BY <1>1 DEF Moves
<1>3. ASSUME NEW q \in Slots
      PROVE  Tells(b, step[q], task[q])'
  <2>1. CASE q = r
    BY <1>2, <2>1 DEF Tells
  <2>2. CASE q # r
    <3>1. step'[q] = "idle"
      BY <1>2, <2>2
    <3>. QED
      BY <3>1 DEF Tells
  <2>. QED
    BY <2>1, <2>2
<1>. QED
  BY <1>2, <1>3

LEMMA RatingTypes ==
    Rating!TypeOK /\ Rating!Alone /\ Rating!PendingAsked =>
        \A x \in Rating!Rated : Rating!Asked(x) \in Nat /\ Rating!Spent(x) \in Nat
BY PendingTypes

LEMMA RatingsKeep ==
    ASSUME Rating!RatingsInv, RatedTyped', Rating!Alone', Rating!RequestsCounted',
           Rating!PendingAsked', Rating!HistoryKept',
           \A x \in Rating!Rated :
              /\ Rating!Asked(x) <= Rating!Asked(x)'
              /\ Rating!Spent(x) <= Rating!Spent(x)'
              /\ Rating!News(x) \subseteq Rating!News(x)'
              /\ Rating!Sources(x) \subseteq Rating!Sources(x)'
              /\ t1'[x] = t1[x] \/ Rating!FromSource(x, t1[x])',
           \A q \in Slots :
              \/ step'[q] = step[q] /\ task'[q] = task[q]
              \/ JobTyped(step'[q], task'[q]) /\ FoundOut(step[q], task[q])'
    PROVE  Rating!RatingsInv'
<1>1. /\ RatedTyped /\ ScoresExplained /\ Rating!Alone /\ Rating!PendingAsked
      /\ HandlersTrue
  BY RatingsInvIs
<1>2. Rating!TypeOK
  BY DEF Rating!RatingsInv
<1>3. ASSUME NEW q \in Slots
      PROVE  JobTyped(step'[q], task'[q])
  BY <1>1 DEF HandlersTrue
<1>4. Rating!TypeOK'
  BY <1>3 DEF RatedTyped, JobTyped, Rating!TypeOK
<1>5. \A x \in Rating!Rated : /\ Rating!Asked(x) \in Nat /\ Rating!Spent(x) \in Nat
                              /\ Rating!Asked(x)' \in Nat /\ Rating!Spent(x)' \in Nat
  <2>1. \A x \in Rating!Rated : Rating!Asked(x) \in Nat /\ Rating!Spent(x) \in Nat
    BY <1>1, <1>2, PendingTypes
  <2>2. (Rating!TypeOK /\ Rating!Alone /\ Rating!PendingAsked =>
          \A x \in Rating!Rated : Rating!Asked(x) \in Nat /\ Rating!Spent(x) \in Nat)'
    BY RatingTypes, PTL
  <2>. QED
    BY <1>4, <2>1, <2>2
<1>6. /\ \A x \in Rating!Rated : \A points :
             Rating!FromSource(x, points) => Rating!FromSource(x, points)'
      /\ \A at, has : JobTyped(at, has) /\ FoundOut(at, has) => FoundOut(at, has)'
  BY <1>5, FoundStays
<1>7. ScoresExplained'
  <2>1. ASSUME NEW x \in Rating!Rated
        PROVE  Rating!FromSource(x, t1[x])'
    <3>1. CASE t1'[x] = t1[x]
      <4>1. Rating!FromSource(x, t1[x])
        BY <1>1 DEF ScoresExplained
      <4>. QED
        BY <1>6, <3>1, <4>1 DEF Rating!FromSource
    <3>. QED
      BY <3>1
  <2>. QED
    BY <2>1 DEF ScoresExplained
<1>8. ASSUME NEW q \in Slots
      PROVE  FoundOut(step[q], task[q])'
  BY <1>1, <1>6 DEF FoundOut, HandlersTrue
<1>9. HandlersTrue'
  BY <1>3, <1>8 DEF JobTyped, HandlersTrue
<1>. QED
  BY <1>7, <1>9, RatingsInvIs, PTL

LEMMA LogTypes ==
    ASSUME RatedTyped, NEW x \in Rating!Rated
    PROVE  /\ Len(t4[x]) \in Nat /\ DOMAIN t4[x] = 1 .. Len(t4[x])
           /\ \A i \in DOMAIN t4[x] : t4[x][i] \in Rating!Override
           /\ \A i \in 1 .. Len(t4[x]) + 1 : Rating!Before(t4[x], i) \in Rating!Points
           /\ Rating!LeftBy(t4[x]) \in Rating!Points
<1>. DEFINE entries == t4[x]
<1>1. entries \in Seq(Rating!Override)
  BY DEF RatedTyped
<1>. HIDE DEF entries
<1>2. /\ Len(entries) \in Nat /\ DOMAIN entries = 1 .. Len(entries)
      /\ \A i \in 1 .. Len(entries) : entries[i] \in Rating!Override
  BY <1>1
<1>3. ASSUME NEW i \in 1 .. Len(entries) + 1
      PROVE  Rating!Before(entries, i) \in Rating!Points
  <2>1. CASE i = 1
    BY <2>1 DEF Rating!Before, Rating!Points, Rating!Default
  <2>2. CASE i # 1
    <3>1. i - 1 \in 1 .. Len(entries)
      BY <1>2, <2>2
    <3>. QED
      BY <1>2, <2>2, <3>1 DEF Rating!Before, Rating!Override
  <2>. QED
    BY <2>1, <2>2
<1>4. Rating!LeftBy(entries) \in Rating!Points
  <2>1. Len(entries) + 1 \in 1 .. Len(entries) + 1
    BY <1>2
  <2>. QED
    BY <1>3, <2>1 DEF Rating!LeftBy
<1>. QED
  BY <1>2, <1>3, <1>4 DEF entries

LEMMA RatingSources ==
    ASSUME RatedTyped, NEW x \in Rating!Rated
    PROVE  Rating!Sources(x) \subseteq Rating!Points /\ Rating!News(x) \subseteq Rating!Sources(x)
<1>1. Rating!News(x) \subseteq Rating!Points
  BY LogTypes DEF Rating!News, Rating!Override
<1>2. Rating!Default \in Rating!Points
  BY DEF Rating!Points, Rating!Default
<1>3. x \in RatedSellers => t5[x] \subseteq Rating!Points
  BY DEF RatedTyped
<1>. QED
  BY <1>1, <1>2, <1>3 DEF Rating!Sources

LEMMA CountedMoves ==
    ASSUME Rating!RequestsCounted, UNCHANGED <<t2, t6>>,
           NEW r \in Slots, NEW at, NEW has, Moves(r, at, has),
           \A x : Rating!Asked(x)' = Rating!Asked(x),
           \A b : NotCounted(at, has, b) <=> NotCounted(step[r], task[r], b)
    PROVE  Rating!RequestsCounted'
<1>1. ASSUME NEW b \in RatedBuyers
      PROVE  Rating!Uncounted(b)' = Rating!Uncounted(b)
  <2>. DEFINE P == Rating!Uncounted(b)
              Q == Rating!Uncounted(b)'
  <2>1. P \ {r} = Q \ {r} /\ (r \in P <=> r \in Q)
    BY SetsMove
  <2>. HIDE DEF P, Q
  <2>2. P = Q
    BY <2>1
  <2>. QED
    BY <2>2 DEF P, Q
<1>. QED
  BY <1>1, RatingCardinality DEF Rating!RequestsCounted

\* Whose score the next step of a handler lowers.
Lowers(r, x) ==
    \/ step[r] = "penalty" /\ x = task[r].buyer
    \/ step[r] = "demote" /\ x = task[r].seller

LEMMA LowersPaid ==
    ASSUME NEW r \in Slots, JobTyped(step[r], task[r]), FoundOut(step[r], task[r]),
           NEW x, Lowers(r, x)
    PROVE  /\ x \in Rating!Rated /\ Rating!FromSource(x, task[r].old)
           /\ MayLower(step[r], task[r], x) /\ Rating!Asked(x) >= Rating!Limit(x)
           /\ x \in RatedBuyers => step[r] = "penalty" /\ x = task[r].buyer
<1>1. CASE step[r] = "penalty" /\ x = task[r].buyer
  <2>1. step[r] \in Rating!RequestSteps /\ step[r] \in Rating!BuyerSteps
    BY <1>1 DEF Rating!RequestSteps, Rating!BuyerSteps
  <2>2. x \in RatedBuyers /\ x \in Rating!Rated
    BY <1>1, <2>1, JobBuyer
  <2>3. Rating!FromSource(x, task[r].old) /\ Rating!Asked(x) >= Rating!Limit(x)
    BY <1>1, <2>2 DEF FoundOut, Rating!Limit
  <2>. QED
    BY <1>1, <2>1, <2>2, <2>3 DEF MayLower
<1>2. CASE step[r] = "demote" /\ x = task[r].seller
  <2>1. step[r] \in Rating!RequestSteps
    BY <1>2 DEF Rating!RequestSteps, Rating!BuyerSteps
  <2>2. x \in RatedSellers /\ x \in Rating!Rated /\ x \notin RatedBuyers
    BY <1>2, <2>1, JobBuyer, RatingFacts
  <2>3. Rating!FromSource(x, task[r].old) /\ Rating!Asked(x) >= Rating!Limit(x)
    BY <1>2, <2>2 DEF FoundOut, Rating!Limit
  <2>. QED
    BY <1>2, <2>1, <2>2, <2>3 DEF MayLower
<1>. QED
  BY <1>1, <1>2 DEF Lowers

\* A step of an open request, by which it may read, find out or lower a score.
LEMMA RequestMoves ==
    ASSUME Rating!RatingsInv, UNCHANGED <<serial, t3, t4, t5, t6>>, NEW r \in Slots,
           NEW at \in Rating!Steps \ {"log", "patch"}, NEW has, Moves(r, at, has),
           step[r] \in Rating!RequestSteps, JobTyped(at, has), FoundOut(at, has),
           \A x : MayLower(at, has, x) => MayLower(step[r], task[r], x),
           t1' \in [Rating!Rated -> Rating!Points], t2' \in [RatedBuyers -> Nat],
           Rating!RequestsCounted',
           \A x \in Rating!Rated :
              \/ t1'[x] = t1[x]
              \/ /\ Lowers(r, x) /\ ~MayLower(at, has, x)
                 /\ t1'[x] = Rating!Lowered(task[r].old),
           \A b \in RatedBuyers :
              Stands(b) /\ Tells(b, step[r], task[r]) =>
                 (at \in {"count", "window", "penalty"} /\ has.buyer = b =>
                     Rating!Explained(has.old, Rating!LeftBy(t4[b]), Rating!Spent(b)))
    PROVE  Rating!RatingsInv'
<1>1. /\ RatedTyped /\ ScoresExplained /\ Rating!Alone /\ Rating!PendingAsked
      /\ HandlersTrue /\ Rating!HistoryKept /\ Rating!TypeOK
  BY RatingsInvIs DEF Rating!RatingsInv
<1>2. step[r] # "idle" /\ step[r] # "patch"
  BY DEF Rating!RequestSteps, Rating!BuyerSteps
<1>3. /\ Rating!PendingAsked' /\ \A x : Rating!Asked(x)' = Rating!Asked(x)
      /\ \A x \in Rating!Rated :
            /\ Rating!Spent(x)' \in Nat /\ Rating!Spent(x)' >= Rating!Spent(x)
            /\ Rating!Asked(x) >= Rating!Limit(x) /\ MayLower(step[r], task[r], x)
                  /\ ~MayLower(at, has, x) => Rating!Spent(x)' = Rating!Spent(x) + 1
  BY <1>1, <1>2, RatingMoves
<1>4. \A x \in Rating!Rated : Rating!Asked(x) \in Nat /\ Rating!Spent(x) \in Nat
  BY <1>1, RatingTypes
<1>5. \A x : Rating!News(x)' = Rating!News(x) /\ Rating!Sources(x)' = Rating!Sources(x)
  BY DEF Rating!News, Rating!Sources
<1>6. \A x \in Rating!Rated :
         /\ Rating!Asked(x) <= Rating!Asked(x)' /\ Rating!Spent(x) <= Rating!Spent(x)'
         /\ Rating!News(x) \subseteq Rating!News(x)'
         /\ Rating!Sources(x) \subseteq Rating!Sources(x)'
         /\ Rating!Asked(x)' \in Nat /\ Rating!Spent(x)' \in Nat
  BY <1>3, <1>4, <1>5
<1>7. RatedTyped'
  <2>1. step' \in [Slots -> Rating!Steps] /\ DOMAIN task' = Slots
    BY <1>2 DEF Moves
  <2>. QED
    BY <1>1, <2>1 DEF RatedTyped
<1>8. /\ Rating!Alone'
      /\ serial => \A q \in Slots : q # r => step[q] = "idle" /\ step'[q] = "idle"
  BY <1>1, <1>2, AloneMoves
<1>9. JobTyped(step[r], task[r]) /\ FoundOut(step[r], task[r])
  BY <1>1 DEF HandlersTrue
<1>10. ASSUME NEW x \in Rating!Rated, Lowers(r, x), ~MayLower(at, has, x)
       PROVE  Rating!Spent(x)' = Rating!Spent(x) + 1
  BY <1>3, <1>9, <1>10, LowersPaid
<1>11. \A x \in Rating!Rated : t1'[x] = t1[x] \/ Rating!FromSource(x, t1[x])'
  <2>1. ASSUME NEW x \in Rating!Rated, t1'[x] # t1[x]
        PROVE  Rating!FromSource(x, t1[x])'
    <3>1. Lowers(r, x) /\ ~MayLower(at, has, x) /\ t1'[x] = Rating!Lowered(task[r].old)
      BY <2>1
    <3>2. PICK from \in Rating!Sources(x) :
             Rating!Explained(task[r].old, from, Rating!Spent(x))
      BY <1>9, <3>1, LowersPaid DEF Rating!FromSource
    <3>3. from \in Rating!Points
      BY <1>1, <3>2, RatingSources
    <3>4. Rating!Explained(Rating!Lowered(task[r].old), from, Rating!Spent(x) + 1)
      <4>1. Rating!Spent(x) \in Int
        BY <1>4
      <4>. QED
        BY <3>2, <3>3, <4>1, OneExplains
    <3>. QED
      BY <1>5, <1>10, <3>1, <3>2, <3>4 DEF Rating!FromSource
  <2>. QED
    BY <2>1
<1>12. FoundOut(at, has)'
  BY <1>4, <1>6, FoundStays
<1>13. \A q \in Slots : \/ step'[q] = step[q] /\ task'[q] = task[q]
                        \/ JobTyped(step'[q], task'[q]) /\ FoundOut(step[q], task[q])'
  <2>1. step'[r] = at /\ task'[r] = has
        /\ \A q \in Slots : q # r => step'[q] = step[q] /\ task'[q] = task[q]
    BY <1>2 DEF Moves
  <2>2. FoundOut(step[r], task[r])'
    BY <1>12, <2>1 DEF FoundOut
  <2>. QED
    BY <2>1, <2>2
<1>14. Rating!HistoryKept'
  <2>1. ASSUME serial, ~t6, NEW b \in RatedBuyers
        PROVE  Told(b, t4[b])' /\ Stands(b)' /\ Tells(b, at, has)'
    <3>1. Told(b, t4[b]) /\ Stands(b) /\ Tells(b, step[r], task[r])
      BY <1>1, <1>2, <1>8, <2>1, HistoryNow
    <3>2. /\ Rating!Spent(b) \in Int /\ Rating!Spent(b)' \in Int
          /\ Rating!Spent(b) <= Rating!Spent(b)' /\ b \in Rating!Rated
      BY <1>4, <1>6 DEF Rating!Rated
    <3>3. \A points, from : Rating!Explained(points, from, Rating!Spent(b)) =>
                               Rating!Explained(points, from, Rating!Spent(b)')
      BY <3>2, MoreExplains
    <3>4. Told(b, t4[b])'
      BY <3>1, <3>3 DEF Told
    <3>5. Tells(b, at, has)'
      BY <3>1, <3>3 DEF Tells
    <3>6. CASE t1'[b] = t1[b]
      BY <3>1, <3>3, <3>4, <3>5, <3>6 DEF Stands
    <3>7. CASE t1'[b] # t1[b]
      <4>1. Lowers(r, b) /\ ~MayLower(at, has, b) /\ t1'[b] = Rating!Lowered(task[r].old)
        BY <3>2, <3>7
      <4>2. Rating!Spent(b)' = Rating!Spent(b) + 1 /\ step[r] = "penalty" /\ task[r].buyer = b
        BY <1>9, <1>10, <3>2, <4>1, LowersPaid
      <4>3. Rating!Explained(task[r].old, Rating!LeftBy(t4[b]), Rating!Spent(b))
        BY <3>1, <4>2 DEF Tells
      <4>4. Rating!LeftBy(t4[b]) \in Rating!Points
        BY <1>1, <3>2, LogTypes
      <4>5. Rating!Explained(Rating!Lowered(task[r].old), Rating!LeftBy(t4[b]),
                             Rating!Spent(b) + 1)
        BY <3>2, <4>3, <4>4, OneExplains
      <4>. QED
        BY <3>4, <3>5, <4>1, <4>2, <4>5 DEF Stands
    <3>. QED
      BY <3>6, <3>7
  <2>. QED
    BY <1>1, <1>2, <1>8, <2>1, HistoryMoves
<1>. QED
  BY <1>3, <1>6, <1>7, <1>8, <1>11, <1>13, <1>14, RatingsKeep

LEMMA RequestSlot ==
    ASSUME Rating!RatingsInv, NEW r \in Slots, step[r] \in Rating!RequestSteps
    PROVE  /\ RatedTyped /\ Rating!TypeOK /\ ScoresExplained /\ Rating!RequestsCounted
           /\ JobTyped(step[r], task[r]) /\ FoundOut(step[r], task[r])
           /\ task[r] \in Rating!RequestJob
           /\ task[r].buyer \in RatedBuyers /\ task[r].buyer \in Rating!Rated
           /\ task[r].seller \in RatedSellers /\ task[r].seller \in Rating!Rated
           /\ task[r].old \in Rating!Points
<1>1. RatedTyped /\ Rating!TypeOK /\ ScoresExplained /\ Rating!RequestsCounted /\ HandlersTrue
  BY RatingsInvIs DEF Rating!RatingsInv
<1>2. JobTyped(step[r], task[r]) /\ FoundOut(step[r], task[r])
  BY <1>1 DEF HandlersTrue
<1>3. task[r] \in Rating!RequestJob
  BY <1>2 DEF JobTyped
<1>. QED
  BY <1>1, <1>2, <1>3, JobBuyer

LEMMA OldPut ==
    ASSUME NEW open \in Rating!RequestJob, NEW points \in Rating!Points
    PROVE  LET has == [open EXCEPT !.old = points] IN
           /\ has \in Rating!RequestJob /\ has.buyer = open.buyer /\ has.seller = open.seller
           /\ has.old = points
BY DEF Rating!RequestJob

LEMMA RatingsReadBuyer ==
    ASSUME Rating!RatingsInv, NEW r \in Slots, Rating!ReadBuyer(r)
    PROVE  Rating!RatingsInv'
<1>. DEFINE has == [task[r] EXCEPT !.old = t1[task[r].buyer]]
<1>1. /\ step[r] = "read" /\ UNCHANGED <<serial, t1, t2, t3, t4, t5, t6>>
      /\ step' = [step EXCEPT ![r] = "count"] /\ task' = [task EXCEPT ![r] = has]
  BY DEF Rating!ReadBuyer, Rating!Keep
<1>2. /\ {"read", "count"} \subseteq Rating!RequestSteps /\ "count" \in Rating!Steps
      /\ {"read", "count"} \subseteq Rating!BuyerSteps
  BY DEF Rating!Steps, Rating!RequestSteps, Rating!BuyerSteps
<1>3. /\ RatedTyped /\ ScoresExplained /\ Rating!RequestsCounted
      /\ task[r] \in Rating!RequestJob /\ task[r].buyer \in Rating!Rated
  BY <1>1, <1>2, RequestSlot
<1>4. t1[task[r].buyer] \in Rating!Points
  BY <1>3 DEF RatedTyped
<1>5. /\ has \in Rating!RequestJob /\ has.buyer = task[r].buyer /\ has.seller = task[r].seller
      /\ has.old = t1[task[r].buyer]
  BY <1>3, <1>4, OldPut
<1>. HIDE DEF has
<1>6. JobTyped("count", has)
  BY <1>5 DEF JobTyped
<1>7. FoundOut("count", has)
  BY <1>3, <1>5 DEF FoundOut, ScoresExplained
<1>8. \A x : MayLower("count", has, x) <=> MayLower(step[r], task[r], x)
  BY <1>1, <1>2, <1>5 DEF MayLower
<1>14. Moves(r, "count", has)
  BY <1>1, <1>2, <1>3, SlotsMove
<1>9. Rating!RequestsCounted'
  <2>1. \A x : Rating!Asked(x)' = Rating!Asked(x)
    BY <1>1 DEF Rating!Asked, Rating!Rows
  <2>2. \A b : NotCounted("count", has, b) <=> NotCounted(step[r], task[r], b)
    BY <1>1, <1>5 DEF NotCounted
  <2>. QED
    BY <1>1, <1>3, <1>14, <2>1, <2>2, CountedMoves
<1>10. t1' \in [Rating!Rated -> Rating!Points] /\ t2' \in [RatedBuyers -> Nat]
  BY <1>1, <1>3 DEF RatedTyped
<1>11. ASSUME NEW b \in RatedBuyers, Stands(b), has.buyer = b
       PROVE  Rating!Explained(has.old, Rating!LeftBy(t4[b]), Rating!Spent(b))
  BY <1>5, <1>11 DEF Stands
<1>12. "count" \in Rating!Steps \ {"log", "patch"} /\ step[r] \in Rating!RequestSteps
  BY <1>1, <1>2
<1>13. \A x \in Rating!Rated : t1'[x] = t1[x]
  BY <1>1
<1>. QED
  BY <1>1, <1>6, <1>7, <1>8, <1>9, <1>10, <1>11, <1>12, <1>13, <1>14, RequestMoves

LEMMA RatingsCount ==
    ASSUME Rating!RatingsInv, NEW r \in Slots, Rating!CountRequest(r)
    PROVE  Rating!RatingsInv'
<1>. DEFINE b == task[r].buyer
            has == task[r]
<1>1. /\ step[r] = "count" /\ UNCHANGED <<serial, t1, t3, t4, t5, t6>>
      /\ t2' = [t2 EXCEPT ![b] = @ + 1] /\ Rating!Goto(r, "window")
  BY DEF Rating!CountRequest
<1>2. /\ {"count", "window"} \subseteq Rating!RequestSteps /\ "window" \in Rating!Steps
      /\ {"count", "window"} \subseteq Rating!BuyerSteps
  BY DEF Rating!Steps, Rating!RequestSteps, Rating!BuyerSteps
<1>3. /\ RatedTyped /\ Rating!RequestsCounted /\ b \in RatedBuyers
      /\ has \in Rating!RequestJob /\ FoundOut("count", has)
  BY <1>1, <1>2, RequestSlot
<1>4. JobTyped("window", has) /\ FoundOut("window", has)
  BY <1>3 DEF JobTyped, FoundOut
<1>5. Moves(r, "window", has)
  BY <1>1, <1>2, <1>3, GoesMove
<1>6. \A x : MayLower("window", has, x) <=> MayLower(step[r], task[r], x)
  BY <1>1, <1>2 DEF MayLower
<1>7. t2 \in [RatedBuyers -> Nat] /\ t2[b] \in Nat
  BY <1>3 DEF RatedTyped
<1>. HIDE DEF b
<1>8. /\ t2' \in [RatedBuyers -> Nat] /\ t2'[b] = t2[b] + 1
      /\ \A c \in RatedBuyers : c # b => t2'[c] = t2[c]
  <2>1. t2[b] + 1 \in Nat
    BY <1>7
  <2>. QED
    BY <1>1, <1>3, <1>7, <2>1
<1>9. Rating!RequestsCounted'
  <2>1. ASSUME NEW c \in RatedBuyers
        PROVE  /\ IsFiniteSet(Rating!Uncounted(c))'
               /\ t2'[c] + Cardinality(Rating!Uncounted(c))' <= Rating!Asked(c)'
               /\ ~t6' => t2'[c] + Cardinality(Rating!Uncounted(c))' = Rating!Asked(c)'
    <3>. DEFINE P == Rating!Uncounted(c)
                Q == Rating!Uncounted(c)'
    <3>1. P \ {r} = Q \ {r} /\ (r \in P <=> c = b) /\ r \notin Q
      <4>1. NotCounted(step[r], task[r], c) <=> c = b
        BY <1>1 DEF NotCounted, b
      <4>2. ~NotCounted("window", has, c)
        BY DEF NotCounted
      <4>. QED
        BY <1>5, <4>1, <4>2, SetsMove
    <3>2. Rating!Asked(c)' = Rating!Asked(c)
      BY <1>1 DEF Rating!Asked, Rating!Rows
    <3>3. /\ IsFiniteSet(P) /\ t2[c] + Cardinality(P) <= Rating!Asked(c)
          /\ ~t6 => t2[c] + Cardinality(P) = Rating!Asked(c)
      BY <1>3, RatingCardinality DEF Rating!RequestsCounted
    <3>4. t2[c] \in Nat /\ Cardinality(P) \in Nat
      BY <1>7, <3>3, FS_CardinalityType
    <3>5. CASE c = b
      <4>1. IsFiniteSet(Q) /\ Cardinality(Q) = Cardinality(P) - 1
        BY <3>1, <3>3, <3>5, OnePlace
      <4>2. t2'[c] + Cardinality(Q) = t2[c] + Cardinality(P)
        BY <1>8, <3>4, <3>5, <4>1
      <4>. QED
        BY <1>1, <3>2, <3>3, <4>1, <4>2
    <3>6. CASE c # b
      <4>1. IsFiniteSet(Q) /\ Cardinality(Q) = Cardinality(P)
        BY <3>1, <3>3, <3>6, OnePlace
      <4>2. t2'[c] = t2[c]
        BY <1>8, <3>6
      <4>. QED
        BY <1>1, <3>2, <3>3, <4>1, <4>2
    <3>. QED
      BY <3>5, <3>6
  <2>. QED
    BY <2>1, RatingCardinality DEF Rating!RequestsCounted
<1>10. t1' \in [Rating!Rated -> Rating!Points]
  BY <1>1, <1>3 DEF RatedTyped
<1>11. ASSUME NEW c \in RatedBuyers, Tells(c, step[r], task[r]), has.buyer = c
       PROVE  Rating!Explained(has.old, Rating!LeftBy(t4[c]), Rating!Spent(c))
  BY <1>1, <1>11 DEF Tells
<1>12. "window" \in Rating!Steps \ {"log", "patch"} /\ step[r] \in Rating!RequestSteps
  BY <1>1, <1>2
<1>13. \A x \in Rating!Rated : t1'[x] = t1[x]
  BY <1>1
<1>. HIDE DEF has
<1>. QED
  BY <1>1, <1>4, <1>5, <1>6, <1>8, <1>9, <1>10, <1>11, <1>12, <1>13, RequestMoves
     DEF has

\* A step that neither counts a request nor changes a score.
LEMMA RequestGoes ==
    ASSUME Rating!RatingsInv, UNCHANGED <<serial, t1, t2, t3, t4, t5, t6>>, NEW r \in Slots,
           NEW at \in Rating!Steps \ {"log", "patch", "read", "count"}, NEW has,
           Moves(r, at, has), step[r] \in Rating!RequestSteps \ {"read", "count"},
           JobTyped(at, has), FoundOut(at, has),
           \A x : MayLower(at, has, x) => MayLower(step[r], task[r], x),
           at \in {"window", "penalty"} => step[r] = "window" /\ has = task[r]
    PROVE  Rating!RatingsInv'
<1>1. RatedTyped /\ Rating!RequestsCounted
  BY RequestSlot
<1>2. Rating!RequestsCounted'
  <2>1. \A x : Rating!Asked(x)' = Rating!Asked(x)
    BY DEF Rating!Asked, Rating!Rows
  <2>2. \A b : NotCounted(at, has, b) <=> NotCounted(step[r], task[r], b)
    BY DEF NotCounted
  <2>. QED
    BY <1>1, <2>1, <2>2, CountedMoves
<1>3. t1' \in [Rating!Rated -> Rating!Points] /\ t2' \in [RatedBuyers -> Nat]
  BY <1>1 DEF RatedTyped
<1>4. ASSUME NEW b \in RatedBuyers, Tells(b, step[r], task[r]),
             at \in {"count", "window", "penalty"}, has.buyer = b
      PROVE  Rating!Explained(has.old, Rating!LeftBy(t4[b]), Rating!Spent(b))
  <2>1. step[r] = "window" /\ has = task[r]
    BY <1>4
  <2>. QED
    BY <1>4, <2>1 DEF Tells
<1>5. \A x \in Rating!Rated : t1'[x] = t1[x]
  OBVIOUS
<1>6. at \in Rating!Steps \ {"log", "patch"} /\ step[r] \in Rating!RequestSteps
  OBVIOUS
<1>. QED
  BY <1>2, <1>3, <1>4, <1>5, <1>6, RequestMoves

\* Which steps are a request's, and which of them may lower the buyer.
LEMMA RequestPlaces ==
    /\ {"read", "count", "window", "penalty", "seller", "overall", "demote"}
          \subseteq Rating!RequestSteps
    /\ \A at \in Rating!RequestSteps :
          at \in Rating!BuyerSteps <=> at \in {"read", "count", "window", "penalty"}
    /\ {"idle", "log", "patch"} \cap Rating!RequestSteps = {}
    /\ {"idle", "log", "patch"} \cap Rating!BuyerSteps = {}
    /\ {"idle", "log", "patch"} \subseteq Rating!Steps
    /\ Rating!RequestSteps \subseteq Rating!Steps
BY DEF Rating!Steps, Rating!RequestSteps, Rating!BuyerSteps

LEMMA ToSeller ==
    ASSUME RatedTyped, NEW r \in Slots, step[r] \in Rating!RequestSteps,
           task[r] \in Rating!RequestJob, Rating!Keep(r, "seller", [task[r] EXCEPT !.old = 0])
    PROVE  LET has == [task[r] EXCEPT !.old = 0] IN
           /\ Moves(r, "seller", has) /\ JobTyped("seller", has) /\ FoundOut("seller", has)
           /\ \A x : MayLower("seller", has, x) => MayLower(step[r], task[r], x)
           /\ \A x \in RatedBuyers : ~MayLower("seller", has, x)
<1>. DEFINE has == [task[r] EXCEPT !.old = 0]
<1>1. 0 \in Rating!Points
  BY DEF Rating!Points, Rating!Default
<1>2. has \in Rating!RequestJob /\ has.seller = task[r].seller
  BY <1>1, OldPut
<1>3. step' = [step EXCEPT ![r] = "seller"] /\ task' = [task EXCEPT ![r] = has]
  BY DEF Rating!Keep
<1>4. "seller" \in Rating!Steps /\ "seller" \in Rating!RequestSteps
      /\ "seller" \notin Rating!BuyerSteps
  BY RequestPlaces
<1>. HIDE DEF has
<1>5. Moves(r, "seller", has)
  BY <1>3, <1>4, SlotsMove
<1>6. JobTyped("seller", has) /\ FoundOut("seller", has)
  BY <1>2, <1>4 DEF JobTyped, FoundOut
<1>7. /\ \A x : MayLower("seller", has, x) => MayLower(step[r], task[r], x)
      /\ \A x \in RatedBuyers : ~MayLower("seller", has, x)
  BY <1>2, <1>4 DEF MayLower
<1>. QED
  BY <1>5, <1>6, <1>7 DEF has

LEMMA Closes ==
    ASSUME RatedTyped, NEW r \in Slots, Rating!Close(r)
    PROVE  /\ Moves(r, "idle", Rating!Free)
           /\ JobTyped("idle", Rating!Free) /\ FoundOut("idle", Rating!Free)
           /\ \A x : ~MayLower("idle", Rating!Free, x)
<1>1. /\ step' = [step EXCEPT ![r] = "idle"] /\ task' = [task EXCEPT ![r] = Rating!Free]
      /\ "idle" \in Rating!Steps
  BY RequestPlaces DEF Rating!Close, Rating!Keep
<1>2. Moves(r, "idle", Rating!Free)
  BY <1>1, SlotsMove
<1>3. JobTyped("idle", Rating!Free) /\ FoundOut("idle", Rating!Free)
  BY RequestPlaces DEF JobTyped, FoundOut
<1>4. \A x : ~MayLower("idle", Rating!Free, x)
  BY RequestPlaces DEF MayLower
<1>. QED
  BY <1>2, <1>3, <1>4

LEMMA RatingsWindow ==
    ASSUME Rating!RatingsInv, NEW r \in Slots, Rating!CountWindow(r)
    PROVE  Rating!RatingsInv'
<1>1. step[r] = "window" /\ UNCHANGED <<serial, t1, t2, t3, t4, t5, t6>>
  BY DEF Rating!CountWindow
<1>2. step[r] \in Rating!RequestSteps \ {"read", "count"}
  BY <1>1, RequestPlaces
<1>3. /\ RatedTyped /\ task[r] \in Rating!RequestJob /\ task[r].buyer \in RatedBuyers
      /\ FoundOut("window", task[r]) /\ t3 \in [Rating!Kinds -> Nat]
  BY <1>1, <1>2, RequestSlot DEF RatedTyped
<1>4. CASE Rating!OfBuyer(task[r].buyer) >= BuyerLimit /\ Rating!Goto(r, "penalty")
  <2>1. Moves(r, "penalty", task[r])
    BY <1>3, <1>4, RequestPlaces, GoesMove
  <2>2. Rating!Asked(task[r].buyer) >= BuyerLimit
    <3>. DEFINE of == Rating!OfBuyer(task[r].buyer)
                a == Rating!Asked(task[r].buyer)
    <3>1. of <= a
      BY <1>3, WindowIsAsked
    <3>2. a \in Nat /\ BuyerLimit \in Nat /\ of \in Nat
      BY <1>3, AskedTypes, AskedIs, RatingFacts, WindowTypes
    <3>3. of >= BuyerLimit
      BY <1>4
    <3>. HIDE DEF of, a
    <3>4. a >= BuyerLimit
      BY <3>1, <3>2, <3>3
    <3>. QED
      BY <3>4 DEF a
  <2>3. JobTyped("penalty", task[r]) /\ FoundOut("penalty", task[r])
    BY <1>3, <2>2 DEF JobTyped, FoundOut
  <2>4. \A x : MayLower("penalty", task[r], x) <=> MayLower(step[r], task[r], x)
    BY <1>1, RequestPlaces DEF MayLower
  <2>5. "penalty" \in Rating!Steps \ {"log", "patch", "read", "count"}
    BY RequestPlaces
  <2>. QED
    BY <1>1, <1>2, <2>1, <2>3, <2>4, <2>5, RequestGoes
<1>5. CASE Rating!Keep(r, "seller", [task[r] EXCEPT !.old = 0])
  <2>. DEFINE has == [task[r] EXCEPT !.old = 0]
  <2>1. /\ Moves(r, "seller", has) /\ JobTyped("seller", has) /\ FoundOut("seller", has)
        /\ \A x : MayLower("seller", has, x) => MayLower(step[r], task[r], x)
    BY <1>2, <1>3, <1>5, ToSeller
  <2>2. "seller" \in Rating!Steps \ {"log", "patch", "read", "count"}
    BY RequestPlaces
  <2>. HIDE DEF has
  <2>. QED
    BY <1>1, <1>2, <2>1, <2>2, RequestGoes
<1>. QED
  BY <1>4, <1>5 DEF Rating!CountWindow

LEMMA RatingsSeller ==
    ASSUME Rating!RatingsInv, NEW r \in Slots, Rating!CountSeller(r)
    PROVE  Rating!RatingsInv'
<1>1. step[r] = "seller" /\ UNCHANGED <<serial, t1, t2, t3, t4, t5, t6>>
  BY DEF Rating!CountSeller
<1>2. step[r] \in Rating!RequestSteps \ {"read", "count"}
  BY <1>1, RequestPlaces
<1>3. /\ RatedTyped /\ task[r] \in Rating!RequestJob /\ task[r].seller \in RatedSellers
      /\ t3 \in [Rating!Kinds -> Nat]
  BY <1>1, <1>2, RequestSlot DEF RatedTyped
<1>4. CASE Rating!OfSeller(task[r].seller) >= SellerLimit /\ Rating!Goto(r, "overall")
  <2>1. Moves(r, "overall", task[r])
    BY <1>3, <1>4, RequestPlaces, GoesMove
  <2>2. Rating!Asked(task[r].seller) >= SellerLimit
    <3>. DEFINE of == Rating!OfSeller(task[r].seller)
                a == Rating!Asked(task[r].seller)
    <3>1. of <= a
      BY <1>3, WindowIsAsked
    <3>2. a \in Nat /\ SellerLimit \in Nat /\ of \in Nat
      BY <1>3, AskedTypes, AskedIs, RatingFacts, WindowTypes
    <3>3. of >= SellerLimit
      BY <1>4
    <3>. HIDE DEF of, a
    <3>4. a >= SellerLimit
      BY <3>1, <3>2, <3>3
    <3>. QED
      BY <3>4 DEF a
  <2>3. JobTyped("overall", task[r]) /\ FoundOut("overall", task[r])
    BY <1>3, <2>2 DEF JobTyped, FoundOut
  <2>4. \A x : MayLower("overall", task[r], x) => MayLower(step[r], task[r], x)
    BY <1>1, <1>2, RequestPlaces DEF MayLower
  <2>5. "overall" \in Rating!Steps \ {"log", "patch", "read", "count"}
    BY RequestPlaces
  <2>. QED
    BY <1>1, <1>2, <2>1, <2>3, <2>4, <2>5, RequestGoes
<1>5. CASE Rating!Close(r)
  <2>1. "idle" \in Rating!Steps \ {"log", "patch", "read", "count"}
    BY RequestPlaces
  <2>. QED
    BY <1>1, <1>2, <1>3, <1>5, <2>1, Closes, RequestGoes
<1>. QED
  BY <1>4, <1>5 DEF Rating!CountSeller

LEMMA RatingsReadSeller ==
    ASSUME Rating!RatingsInv, NEW r \in Slots, Rating!ReadSeller(r)
    PROVE  Rating!RatingsInv'
<1>. DEFINE has == [task[r] EXCEPT !.old = t1[task[r].seller]]
<1>1. /\ step[r] = "overall" /\ UNCHANGED <<serial, t1, t2, t3, t4, t5, t6>>
      /\ step' = [step EXCEPT ![r] = "demote"] /\ task' = [task EXCEPT ![r] = has]
  BY DEF Rating!ReadSeller, Rating!Keep
<1>2. step[r] \in Rating!RequestSteps \ {"read", "count"} /\ "demote" \in Rating!RequestSteps
      /\ "demote" \in Rating!Steps \ {"log", "patch", "read", "count"}
      /\ "demote" \notin Rating!BuyerSteps
  BY <1>1, RequestPlaces
<1>3. /\ RatedTyped /\ ScoresExplained /\ FoundOut("overall", task[r])
      /\ task[r] \in Rating!RequestJob /\ task[r].seller \in Rating!Rated
  BY <1>1, <1>2, RequestSlot
<1>4. t1[task[r].seller] \in Rating!Points
  BY <1>3 DEF RatedTyped
<1>5. /\ has \in Rating!RequestJob /\ has.seller = task[r].seller
      /\ has.old = t1[task[r].seller]
  BY <1>3, <1>4, OldPut
<1>. HIDE DEF has
<1>6. JobTyped("demote", has)
  BY <1>5 DEF JobTyped
<1>7. FoundOut("demote", has)
  BY <1>3, <1>5 DEF FoundOut, ScoresExplained
<1>8. \A x : MayLower("demote", has, x) => MayLower(step[r], task[r], x)
  BY <1>2, <1>5 DEF MayLower
<1>9. Moves(r, "demote", has)
  BY <1>1, <1>2, <1>3, SlotsMove
<1>. QED
  BY <1>1, <1>2, <1>6, <1>7, <1>8, <1>9, RequestGoes

LEMMA LoweredPoints ==
    ASSUME NEW points \in Rating!Points
    PROVE  Rating!Lowered(points) \in Rating!Points
BY DEF Rating!Lowered, Rating!Points, Rating!Default

LEMMA RatingsPenalise ==
    ASSUME Rating!RatingsInv, NEW r \in Slots, Rating!PenaliseBuyer(r)
    PROVE  Rating!RatingsInv'
<1>. DEFINE has == [task[r] EXCEPT !.old = 0]
            b == task[r].buyer
<1>1. /\ step[r] = "penalty" /\ UNCHANGED <<serial, t2, t3, t4, t5, t6>>
      /\ t1' = [t1 EXCEPT ![b] = Rating!Lowered(task[r].old)]
      /\ Rating!Keep(r, "seller", has)
  BY DEF Rating!PenaliseBuyer
<1>2. step[r] \in Rating!RequestSteps /\ "seller" \in Rating!Steps \ {"log", "patch"}
  BY <1>1, RequestPlaces
<1>3. /\ RatedTyped /\ task[r] \in Rating!RequestJob /\ b \in RatedBuyers
      /\ b \in Rating!Rated /\ Rating!RequestsCounted
      /\ Rating!Lowered(task[r].old) \in Rating!Points
  BY <1>2, RequestSlot, LoweredPoints
<1>4. /\ Moves(r, "seller", has) /\ JobTyped("seller", has) /\ FoundOut("seller", has)
      /\ \A x : MayLower("seller", has, x) => MayLower(step[r], task[r], x)
      /\ \A x \in RatedBuyers : ~MayLower("seller", has, x)
  BY <1>1, <1>2, <1>3, ToSeller
<1>. HIDE DEF has
<1>5. Rating!RequestsCounted'
  <2>1. \A x : Rating!Asked(x)' = Rating!Asked(x)
    BY <1>1 DEF Rating!Asked, Rating!Rows
  <2>2. \A c : NotCounted("seller", has, c) <=> NotCounted(step[r], task[r], c)
    BY <1>1 DEF NotCounted
  <2>. QED
    BY <1>1, <1>3, <1>4, <2>1, <2>2, CountedMoves
<1>6. t1 \in [Rating!Rated -> Rating!Points] /\ t2' \in [RatedBuyers -> Nat]
  BY <1>1, <1>3 DEF RatedTyped
<1>7. t1' \in [Rating!Rated -> Rating!Points]
  BY <1>1, <1>3, <1>6
<1>8. ASSUME NEW x \in Rating!Rated
      PROVE  \/ t1'[x] = t1[x]
             \/ /\ Lowers(r, x) /\ ~MayLower("seller", has, x)
                /\ t1'[x] = Rating!Lowered(task[r].old)
  <2>1. CASE x = b
    BY <1>1, <1>3, <1>4, <1>6, <2>1 DEF Lowers
  <2>2. CASE x # b
    BY <1>1, <1>6, <2>2
  <2>. QED
    BY <2>1, <2>2
<1>. QED
  BY <1>1, <1>2, <1>4, <1>5, <1>6, <1>7, <1>8, RequestMoves

LEMMA RatingsDemote ==
    ASSUME Rating!RatingsInv, NEW r \in Slots, Rating!DemoteSeller(r)
    PROVE  Rating!RatingsInv'
<1>. DEFINE has == Rating!Free
            s == task[r].seller
<1>1. /\ step[r] = "demote" /\ UNCHANGED <<serial, t2, t3, t4, t5, t6>>
      /\ t1' = [t1 EXCEPT ![s] = Rating!Lowered(task[r].old)]
      /\ Rating!Close(r)
  BY DEF Rating!DemoteSeller
<1>2. step[r] \in Rating!RequestSteps /\ "idle" \in Rating!Steps \ {"log", "patch"}
  BY <1>1, RequestPlaces
<1>3. /\ RatedTyped /\ s \in Rating!Rated /\ Rating!RequestsCounted
      /\ Rating!Lowered(task[r].old) \in Rating!Points
  BY <1>2, RequestSlot, LoweredPoints
<1>4. /\ Moves(r, "idle", has) /\ JobTyped("idle", has) /\ FoundOut("idle", has)
      /\ \A x : ~MayLower("idle", has, x)
  BY <1>1, <1>2, <1>3, Closes
<1>. HIDE DEF has
<1>5. Rating!RequestsCounted'
  <2>1. \A x : Rating!Asked(x)' = Rating!Asked(x)
    BY <1>1 DEF Rating!Asked, Rating!Rows
  <2>2. \A c : NotCounted("idle", has, c) <=> NotCounted(step[r], task[r], c)
    BY <1>1 DEF NotCounted
  <2>. QED
    BY <1>1, <1>3, <1>4, <2>1, <2>2, CountedMoves
<1>6. t1 \in [Rating!Rated -> Rating!Points] /\ t2' \in [RatedBuyers -> Nat]
  BY <1>1, <1>3 DEF RatedTyped
<1>7. t1' \in [Rating!Rated -> Rating!Points]
  BY <1>1, <1>3, <1>6
<1>8. ASSUME NEW x \in Rating!Rated
      PROVE  \/ t1'[x] = t1[x]
             \/ /\ Lowers(r, x) /\ ~MayLower("idle", has, x)
                /\ t1'[x] = Rating!Lowered(task[r].old)
  <2>1. CASE x = s
    BY <1>1, <1>3, <1>4, <1>6, <2>1 DEF Lowers
  <2>2. CASE x # s
    BY <1>1, <1>6, <2>2
  <2>. QED
    BY <2>1, <2>2
<1>. QED
  BY <1>1, <1>2, <1>4, <1>5, <1>6, <1>7, <1>8, RequestMoves

LEMMA RatingsRequest ==
    ASSUME Rating!RatingsInv, NEW r \in Slots, NEW b \in RatedBuyers, NEW s \in RatedSellers,
           Rating!RequestReplacement(r, b, s)
    PROVE  Rating!RatingsInv'
<1>. DEFINE has == [buyer |-> b, seller |-> s, old |-> 0]
<1>1. /\ RatedTyped /\ Rating!Alone /\ Rating!PendingAsked /\ Rating!RequestsCounted
      /\ Rating!HistoryKept /\ Rating!TypeOK
  BY RatingsInvIs DEF Rating!RatingsInv
<1>2. /\ UNCHANGED <<serial, t1, t2, t4, t5, t6>> /\ step[r] = "idle"
      /\ (serial => \A q \in Slots : step[q] = "idle")
  BY DEF Rating!RequestReplacement, Rating!Idle
<1>3. /\ t3' \in [Rating!Kinds -> Nat] /\ Rating!PendingAsked'
      /\ Moves(r, "read", has)
      /\ \A x : Rating!Asked(x)' = Rating!Asked(x) + (IF x \in {b, s} THEN 1 ELSE 0)
      /\ \A x \in Rating!Rated :
            Rating!Spent(x)' \in Nat /\ Rating!Spent(x)' >= Rating!Spent(x)
  BY <1>1, RequestAsks
<1>4. has \in Rating!RequestJob /\ has.buyer = b
  BY DEF Rating!RequestJob, Rating!Points, Rating!Default
<1>. HIDE DEF has
<1>5. JobTyped("read", has) /\ FoundOut("read", has)'
  BY <1>4, RequestPlaces DEF JobTyped, FoundOut
<1>6. \A x \in Rating!Rated : Rating!Asked(x) \in Nat /\ Rating!Spent(x) \in Nat
  BY <1>1, RatingTypes
<1>7. /\ Rating!Alone'
      /\ serial => \A q \in Slots : q # r => step[q] = "idle" /\ step'[q] = "idle"
  BY <1>1, <1>2, <1>3, AloneMoves
<1>8. RatedTyped'
  <2>1. step' \in [Slots -> Rating!Steps] /\ DOMAIN task' = Slots
    BY <1>3 DEF Moves
  <2>. QED
    BY <1>1, <1>2, <1>3, <2>1 DEF RatedTyped
<1>9. Rating!RequestsCounted'
  <2>1. ASSUME NEW c \in RatedBuyers
        PROVE  /\ IsFiniteSet(Rating!Uncounted(c))'
               /\ t2'[c] + Cardinality(Rating!Uncounted(c))' <= Rating!Asked(c)'
               /\ ~t6' => t2'[c] + Cardinality(Rating!Uncounted(c))' = Rating!Asked(c)'
    <3>. DEFINE P == Rating!Uncounted(c)
                Q == Rating!Uncounted(c)'
    <3>1. P \ {r} = Q \ {r} /\ r \notin P /\ (r \in Q <=> c = b)
      <4>1. ~NotCounted(step[r], task[r], c)
        BY <1>2 DEF NotCounted
      <4>2. NotCounted("read", has, c) <=> c = b
        BY <1>4 DEF NotCounted
      <4>. QED
        BY <1>3, <4>1, <4>2, SetsMove
    <3>2. c \in {b, s} <=> c = b
      BY RatingFacts
    <3>3. /\ IsFiniteSet(P) /\ t2[c] + Cardinality(P) <= Rating!Asked(c)
          /\ ~t6 => t2[c] + Cardinality(P) = Rating!Asked(c)
      BY <1>1, RatingCardinality DEF Rating!RequestsCounted
    <3>4. t2[c] \in Nat /\ Cardinality(P) \in Nat /\ Rating!Asked(c) \in Nat
      <4>1. c \in Rating!Rated
        BY DEF Rating!Rated
      <4>. QED
        BY <1>1, <1>6, <3>3, <4>1, FS_CardinalityType DEF RatedTyped
    <3>5. CASE c = b
      <4>1. IsFiniteSet(Q) /\ Cardinality(Q) = Cardinality(P) + 1
        BY <3>1, <3>3, <3>5, OnePlace
      <4>2. Rating!Asked(c)' = Rating!Asked(c) + 1
        BY <1>3, <3>2, <3>5
      <4>. HIDE DEF P, Q
      <4>3. t2'[c] + Cardinality(Q) <= Rating!Asked(c)'
        BY <1>2, <3>3, <3>4, <4>1, <4>2
      <4>4. ~t6' => t2'[c] + Cardinality(Q) = Rating!Asked(c)'
        BY <1>2, <3>3, <3>4, <4>1, <4>2
      <4>. QED
        BY <4>1, <4>3, <4>4 DEF Q
    <3>6. CASE c # b
      <4>1. IsFiniteSet(Q) /\ Cardinality(Q) = Cardinality(P)
        BY <3>1, <3>3, <3>6, OnePlace
      <4>2. Rating!Asked(c)' = Rating!Asked(c)
        BY <1>3, <3>2, <3>4, <3>6
      <4>. QED
        BY <1>2, <3>3, <4>1, <4>2
    <3>. QED
      BY <3>5, <3>6
  <2>. QED
    BY <2>1, RatingCardinality DEF Rating!RequestsCounted
<1>10. \A x \in Rating!Rated :
          /\ Rating!Asked(x) <= Rating!Asked(x)' /\ Rating!Spent(x) <= Rating!Spent(x)'
          /\ Rating!News(x) \subseteq Rating!News(x)'
          /\ Rating!Sources(x) \subseteq Rating!Sources(x)'
          /\ t1'[x] = t1[x]
  <2>1. ASSUME NEW x \in Rating!Rated
        PROVE  Rating!Asked(x) <= Rating!Asked(x)' /\ Rating!Spent(x) <= Rating!Spent(x)'
    <3>1. Rating!Asked(x)' = Rating!Asked(x) + 1 \/ Rating!Asked(x)' = Rating!Asked(x) + 0
      BY <1>3
    <3>. QED
      BY <1>3, <1>6, <3>1
  <2>2. \A x : Rating!News(x)' = Rating!News(x) /\ Rating!Sources(x)' = Rating!Sources(x)
    BY <1>2 DEF Rating!News, Rating!Sources
  <2>. QED
    BY <1>2, <2>1, <2>2
<1>11. Rating!HistoryKept'
  <2>1. ASSUME serial, ~t6, NEW c \in RatedBuyers
        PROVE  Told(c, t4[c])' /\ Stands(c)' /\ Tells(c, "read", has)'
    <3>1. Told(c, t4[c]) /\ Stands(c)
      BY <1>1, <1>2, <1>7, <2>1, HistoryNow
    <3>2. /\ Rating!Spent(c) \in Int /\ Rating!Spent(c)' \in Int
          /\ Rating!Spent(c) <= Rating!Spent(c)' /\ c \in Rating!Rated
      BY <1>3, <1>6, <1>10 DEF Rating!Rated
    <3>3. \A points, from : Rating!Explained(points, from, Rating!Spent(c)) =>
                               Rating!Explained(points, from, Rating!Spent(c)')
      BY <3>2, MoreExplains
    <3>. QED
      BY <1>2, <3>1, <3>3 DEF Told, Stands, Tells
  <2>. QED
    BY <1>1, <1>2, <1>3, <1>7, <2>1, HistoryMoves
<1>12. \A q \in Slots : \/ step'[q] = step[q] /\ task'[q] = task[q]
                        \/ JobTyped(step'[q], task'[q]) /\ FoundOut(step[q], task[q])'
  <2>1. step'[r] = "read" /\ task'[r] = has
        /\ \A q \in Slots : q # r => step'[q] = step[q] /\ task'[q] = task[q]
    BY <1>3 DEF Moves
  <2>2. FoundOut(step[r], task[r])'
    BY <2>1 DEF FoundOut
  <2>. QED
    BY <1>5, <2>1, <2>2
<1>. QED
  BY <1>3, <1>7, <1>8, <1>9, <1>10, <1>11, <1>12, RatingsKeep

\* A step that no handler takes, and that asks nothing.
LEMMA RatingsAside ==
    ASSUME Rating!RatingsInv, UNCHANGED <<serial, t2, t4, t6, step, task>>,
           t3' \in [Rating!Kinds -> Nat], \A x : Rating!Asked(x)' = Rating!Asked(x),
           t1' \in [Rating!Rated -> Rating!Points],
           t5' \in [RatedSellers -> SUBSET Rating!Points],
           \A s \in RatedSellers : t5[s] \subseteq t5'[s],
           \A x \in Rating!Rated :
              t1'[x] = t1[x] \/ (x \in RatedSellers /\ t1'[x] \in t5'[x])
    PROVE  Rating!RatingsInv'
<1>1. /\ RatedTyped /\ Rating!Alone /\ Rating!PendingAsked /\ Rating!RequestsCounted
      /\ Rating!HistoryKept /\ Rating!TypeOK
  BY RatingsInvIs DEF Rating!RatingsInv
<1>2. /\ \A x : Rating!Pending(x)' = Rating!Pending(x)
      /\ \A b : Rating!Uncounted(b)' = Rating!Uncounted(b)
  BY DEF Rating!Pending, Rating!Uncounted
<1>3. RatedTyped' /\ Rating!Alone' /\ Rating!PendingAsked' /\ Rating!RequestsCounted'
  BY <1>1, <1>2, RatingCardinality
     DEF RatedTyped, Rating!Alone, Rating!PendingAsked, Rating!RequestsCounted
<1>4. \A x : Rating!Spent(x)' = Rating!Spent(x)
  <2>1. \A x : Rating!Limit(x)' = Rating!Limit(x)
    BY DEF Rating!Limit
  <2>. QED
    BY <1>2, <2>1 DEF Rating!Spent, Rating!Penalties
<1>5. \A x \in Rating!Rated : Rating!Asked(x) \in Nat /\ Rating!Spent(x) \in Nat
  BY <1>1, RatingTypes
<1>6. \A x \in Rating!Rated : Rating!News(x) \subseteq Rating!News(x)'
                              /\ Rating!Sources(x) \subseteq Rating!Sources(x)'
  BY DEF Rating!News, Rating!Sources
<1>7. \A x \in Rating!Rated : t1'[x] = t1[x] \/ Rating!FromSource(x, t1[x])'
  <2>1. ASSUME NEW x \in Rating!Rated, t1'[x] # t1[x]
        PROVE  Rating!FromSource(x, t1[x])'
    <3>1. x \in RatedSellers /\ t1'[x] \in t5'[x] /\ t1'[x] \in Rating!Points
      BY <2>1
    <3>2. t1'[x] \in Rating!Sources(x)'
      BY <3>1 DEF Rating!Sources
    <3>3. Rating!Explained(t1'[x], t1'[x], Rating!Spent(x))
      BY <1>5, <3>1, NoneExplains
    <3>. QED
      BY <1>4, <3>2, <3>3 DEF Rating!FromSource
  <2>. QED
    BY <2>1
<1>8. \A b \in RatedBuyers : t1'[b] = t1[b]
  BY RatingFacts DEF Rating!Rated
<1>9. Rating!HistoryKept'
  <2>1. SUFFICES ASSUME serial', ~t6', NEW b \in RatedBuyers
                 PROVE  /\ Told(b, t4[b])'
                        /\ Stands(b)' \/ \E r \in Slots : step'[r] = "patch" /\ task'[r].of = b
                        /\ \A r \in Slots : Tells(b, step[r], task[r])'
    BY DEF Rating!HistoryKept, Told, Tells, Stands
  <2>2. /\ Told(b, t4[b])
        /\ Stands(b) \/ \E r \in Slots : step[r] = "patch" /\ task[r].of = b
        /\ \A r \in Slots : Tells(b, step[r], task[r])
    BY <1>1, <2>1, HistoryIs
  <2>. QED
    BY <1>4, <1>8, <2>2 DEF Told, Stands, Tells
<1>10. \A x \in Rating!Rated :
          Rating!Asked(x) <= Rating!Asked(x)' /\ Rating!Spent(x) <= Rating!Spent(x)'
  BY <1>4, <1>5
<1>. QED
  BY <1>3, <1>6, <1>7, <1>9, <1>10, RatingsKeep

LEMMA RatingsAge ==
    ASSUME Rating!RatingsInv, NEW b \in RatedBuyers, NEW s \in RatedSellers,
           NEW from \in Rating!Ages, NEW to \in Rating!Ages, from # to,
           Rating!Age(b, s, from, to)
    PROVE  Rating!RatingsInv'
<1>1. RatedTyped /\ Rating!TypeOK
  BY RatingsInvIs DEF Rating!RatingsInv
<1>2. t3' \in [Rating!Kinds -> Nat] /\ \A x : Rating!Asked(x)' = Rating!Asked(x)
  BY <1>1, AgeAsks
<1>3. UNCHANGED <<serial, t1, t2, t4, t5, t6, step, task>>
  BY DEF Rating!Age, Rating!slot
<1>4. /\ t1' \in [Rating!Rated -> Rating!Points]
      /\ t5' \in [RatedSellers -> SUBSET Rating!Points]
      /\ \A x \in RatedSellers : t5[x] \subseteq t5'[x]
  BY <1>1, <1>3 DEF RatedTyped
<1>5. \A x \in Rating!Rated : t1'[x] = t1[x] \/ (x \in RatedSellers /\ t1'[x] \in t5'[x])
  BY <1>3
<1>6. UNCHANGED <<serial, t2, t4, t6, step, task>>
  BY <1>3
<1>. QED
  BY <1>2, <1>4, <1>5, <1>6, RatingsAside

LEMMA RatingsSubmit ==
    ASSUME Rating!RatingsInv, NEW s \in RatedSellers, NEW to \in PointsGiven,
           Rating!SubmitSellerRating(s, to)
    PROVE  Rating!RatingsInv'
<1>1. RatedTyped
  BY RatingsInvIs
<1>2. /\ t1' = [t1 EXCEPT ![s] = to] /\ t5' = [t5 EXCEPT ![s] = @ \cup {to}]
      /\ UNCHANGED <<serial, t2, t3, t4, t6, step, task>>
  BY DEF Rating!SubmitSellerRating, Rating!slot
<1>3. t3' \in [Rating!Kinds -> Nat] /\ \A x : Rating!Asked(x)' = Rating!Asked(x)
  BY <1>1, <1>2 DEF RatedTyped, Rating!Asked, Rating!Rows
<1>4. /\ t1 \in [Rating!Rated -> Rating!Points] /\ to \in Rating!Points
      /\ t5 \in [RatedSellers -> SUBSET Rating!Points] /\ s \in Rating!Rated
  BY <1>1, RatingFacts DEF RatedTyped, Rating!Rated
<1>5. t1' \in [Rating!Rated -> Rating!Points] /\ t1'[s] = to
      /\ \A x \in Rating!Rated : x # s => t1'[x] = t1[x]
  BY <1>2, <1>4
<1>7. /\ t5'[s] = t5[s] \cup {to} /\ t5'[s] \in SUBSET Rating!Points
      /\ \A x \in RatedSellers : x # s => t5'[x] = t5[x]
  BY <1>2, <1>4
<1>8. \A x \in RatedSellers : t5'[x] \in SUBSET Rating!Points /\ t5[x] \subseteq t5'[x]
  BY <1>4, <1>7
<1>9. t5' \in [RatedSellers -> SUBSET Rating!Points]
  <2>1. t5' = [x \in RatedSellers |-> t5'[x]]
    BY <1>2, <1>4
  <2>. QED
    BY <1>8, <2>1
<1>6. \A x \in Rating!Rated : t1'[x] = t1[x] \/ (x \in RatedSellers /\ t1'[x] \in t5'[x])
  BY <1>5, <1>7
<1>. QED
  BY <1>2, <1>3, <1>5, <1>6, <1>8, <1>9, RatingsAside

\* A step by which an override goes on, or a handler ends half-way.
LEMMA HandlerMoves ==
    ASSUME Rating!RatingsInv, UNCHANGED <<serial, t2, t3, t5>>,
           NEW r \in Slots, NEW at, NEW has, Moves(r, at, has),
           JobTyped(at, has), at \notin Rating!RequestSteps,
           step[r] # "idle" \/ (serial => \A q \in Slots : step[q] = "idle"),
           t1' \in [Rating!Rated -> Rating!Points],
           t4' \in [Rating!Rated -> Seq(Rating!Override)], t6' \in BOOLEAN,
           t6' \/ (UNCHANGED t6 /\ step[r] \notin Rating!RequestSteps),
           \A x \in Rating!Rated : Rating!News(x) \subseteq Rating!News(x)',
           \A x \in Rating!Rated : t1'[x] = t1[x] \/ t1'[x] \in Rating!News(x)',
           at = "patch" => has.new \in Rating!News(has.of)', Rating!HistoryKept'
    PROVE  Rating!RatingsInv'
<1>1. /\ RatedTyped /\ Rating!Alone /\ Rating!PendingAsked /\ Rating!RequestsCounted
      /\ Rating!TypeOK
  BY RatingsInvIs DEF Rating!RatingsInv
<1>2. /\ \A x : ~MayLower(at, has, x)
      /\ \A b : ~NotCounted(at, has, b)
      /\ step[r] \notin Rating!RequestSteps => \A b : ~NotCounted(step[r], task[r], b)
  BY RequestPlaces DEF MayLower, NotCounted, Rating!RequestSteps
<1>3. /\ Rating!PendingAsked' /\ \A x : Rating!Asked(x)' = Rating!Asked(x)
      /\ \A x \in Rating!Rated :
            Rating!Spent(x)' \in Nat /\ Rating!Spent(x)' >= Rating!Spent(x)
  BY <1>1, <1>2, RatingMoves
<1>4. \A x \in Rating!Rated : Rating!Asked(x) \in Nat /\ Rating!Spent(x) \in Nat
  BY <1>1, RatingTypes
<1>5. Rating!Alone'
  BY <1>1, AloneMoves
<1>6. RatedTyped'
  <2>1. step' \in [Slots -> Rating!Steps] /\ DOMAIN task' = Slots
    BY DEF Moves
  <2>. QED
    BY <1>1, <2>1 DEF RatedTyped
<1>7. Rating!RequestsCounted'
  <2>1. CASE ~t6'
    <3>1. UNCHANGED t6 /\ step[r] \notin Rating!RequestSteps
      BY <2>1
    <3>. QED
      BY <1>1, <1>2, <1>3, <3>1, CountedMoves
  <2>2. CASE t6'
    <3>1. ASSUME NEW b \in RatedBuyers
          PROVE  /\ IsFiniteSet(Rating!Uncounted(b))'
                 /\ t2'[b] + Cardinality(Rating!Uncounted(b))' <= Rating!Asked(b)'
      <4>. DEFINE P == Rating!Uncounted(b)
                  Q == Rating!Uncounted(b)'
      <4>1. P \ {r} = Q \ {r} /\ r \notin Q
        BY <1>2, SetsMove
      <4>2. IsFiniteSet(P) /\ t2[b] + Cardinality(P) <= Rating!Asked(b)
        BY <1>1, RatingCardinality DEF Rating!RequestsCounted
      <4>3. t2[b] \in Nat /\ t2'[b] = t2[b] /\ Rating!Asked(b) \in Nat
            /\ Rating!Asked(b)' = Rating!Asked(b)
        <5>1. b \in Rating!Rated
          BY DEF Rating!Rated
        <5>. QED
          BY <1>1, <1>3, <1>4, <5>1 DEF RatedTyped
      <4>4. /\ IsFiniteSet(Q) /\ Cardinality(P) \in Nat /\ Cardinality(Q) \in Nat
            /\ Cardinality(Q) = Cardinality(P) \/ Cardinality(Q) = Cardinality(P) - 1
        BY <4>1, <4>2, OnePlace
      <4>. HIDE DEF P, Q
      <4>5. t2'[b] + Cardinality(Q) <= Rating!Asked(b)'
        BY <4>2, <4>3, <4>4
      <4>. QED
        BY <4>4, <4>5 DEF Q
    <3>. QED
      BY <2>2, <3>1, RatingCardinality DEF Rating!RequestsCounted
  <2>. QED
    BY <2>1, <2>2
<1>8. \A x \in Rating!Rated : Rating!Sources(x) \subseteq Rating!Sources(x)'
  BY DEF Rating!Sources
<1>9. \A x \in Rating!Rated : t1'[x] = t1[x] \/ Rating!FromSource(x, t1[x])'
  <2>1. ASSUME NEW x \in Rating!Rated, t1'[x] # t1[x]
        PROVE  Rating!FromSource(x, t1[x])'
    <3>1. t1'[x] \in Rating!Sources(x)' /\ t1'[x] \in Rating!Points
      BY <2>1 DEF Rating!Sources
    <3>2. Rating!Explained(t1'[x], t1'[x], Rating!Spent(x)')
      BY <1>3, <3>1, NoneExplains
    <3>. QED
      BY <3>1, <3>2 DEF Rating!FromSource
  <2>. QED
    BY <2>1
<1>10. \A q \in Slots : \/ step'[q] = step[q] /\ task'[q] = task[q]
                        \/ JobTyped(step'[q], task'[q]) /\ FoundOut(step[q], task[q])'
  <2>1. step'[r] = at /\ task'[r] = has
        /\ \A q \in Slots : q # r => step'[q] = step[q] /\ task'[q] = task[q]
    BY DEF Moves
  <2>2. FoundOut(step[r], task[r])'
    BY <2>1, RequestPlaces DEF FoundOut
  <2>. QED
    BY <2>1, <2>2
<1>11. \A x \in Rating!Rated :
          Rating!Asked(x) <= Rating!Asked(x)' /\ Rating!Spent(x) <= Rating!Spent(x)'
  BY <1>3, <1>4
<1>. QED
  BY <1>3, <1>5, <1>6, <1>7, <1>8, <1>9, <1>10, <1>11, RatingsKeep

LEMMA RatingsFail ==
    ASSUME Rating!RatingsInv, NEW r \in Slots, Rating!Fail(r)
    PROVE  Rating!RatingsInv'
<1>1. /\ UNCHANGED <<serial, t1, t2, t3, t4, t5>> /\ step[r] # "idle" /\ t6' = TRUE
      /\ Rating!Close(r)
  BY DEF Rating!Fail
<1>2. RatedTyped
  BY RatingsInvIs
<1>3. Moves(r, "idle", Rating!Free) /\ JobTyped("idle", Rating!Free)
  BY <1>1, <1>2, Closes
<1>4. /\ t1' \in [Rating!Rated -> Rating!Points]
      /\ t4' \in [Rating!Rated -> Seq(Rating!Override)]
      /\ t6' \in BOOLEAN /\ t6'
      /\ \A x \in Rating!Rated : Rating!News(x) \subseteq Rating!News(x)'
      /\ \A x \in Rating!Rated : t1'[x] = t1[x]
  BY <1>1, <1>2 DEF RatedTyped, Rating!News
<1>5. Rating!HistoryKept'
  BY <1>4 DEF Rating!HistoryKept
<1>6. "idle" \notin Rating!RequestSteps
  BY RequestPlaces
<1>. QED
  BY <1>1, <1>3, <1>4, <1>5, <1>6, HandlerMoves

LEMMA RatingsPatch ==
    ASSUME Rating!RatingsInv, NEW r \in Slots, NEW x \in Rating!Rated, NEW to \in PointsGiven,
           Rating!PatchRating(r, x, to)
    PROVE  Rating!RatingsInv'
<1>. PICK has : has = [of |-> x, old |-> t1[x], new |-> to]
  OBVIOUS
<1>1. /\ UNCHANGED <<serial, t1, t2, t3, t4, t5, t6>> /\ step[r] = "idle"
      /\ (serial => \A q \in Slots : step[q] = "idle")
      /\ step' = [step EXCEPT ![r] = "log"] /\ task' = [task EXCEPT ![r] = has]
  BY DEF Rating!PatchRating, Rating!Idle, Rating!Keep
<1>2. /\ RatedTyped /\ Rating!Alone /\ Rating!HistoryKept /\ Rating!TypeOK
      /\ Rating!PendingAsked
  BY RatingsInvIs DEF Rating!RatingsInv
<1>3. has \in Rating!PatchJob /\ has.of = x /\ has.old = t1[x]
  <2>1. t1[x] \in Rating!Points /\ to \in Rating!Points
    BY <1>2, RatingFacts DEF RatedTyped
  <2>. QED
    BY <2>1 DEF Rating!PatchJob
<1>4. "log" \in Rating!Steps /\ "log" \notin Rating!RequestSteps
  BY RequestPlaces
<1>5. Moves(r, "log", has) /\ JobTyped("log", has)
  BY <1>1, <1>2, <1>3, <1>4, SlotsMove DEF JobTyped
<1>6. /\ t1' \in [Rating!Rated -> Rating!Points]
      /\ t4' \in [Rating!Rated -> Seq(Rating!Override)] /\ t6' \in BOOLEAN
      /\ \A y \in Rating!Rated : Rating!News(y) \subseteq Rating!News(y)'
      /\ \A y \in Rating!Rated : t1'[y] = t1[y]
  BY <1>1, <1>2 DEF RatedTyped, Rating!News
<1>7. serial => \A q \in Slots : q # r => step[q] = "idle" /\ step'[q] = "idle"
  BY <1>1, <1>2, <1>5, AloneMoves
<1>8. \A y \in Rating!Rated : /\ Rating!Spent(y) \in Nat /\ Rating!Spent(y)' \in Nat
                              /\ Rating!Spent(y)' >= Rating!Spent(y)
  <2>1. \A y : ~MayLower("log", has, y)
    BY RequestPlaces DEF MayLower
  <2>. QED
    BY <1>1, <1>2, <1>5, <2>1, RatingMoves, RatingTypes
<1>9. Rating!HistoryKept'
  <2>1. ASSUME serial, ~t6, NEW b \in RatedBuyers
        PROVE  Told(b, t4[b])' /\ Stands(b)' /\ Tells(b, "log", has)'
    <3>1. Told(b, t4[b]) /\ Stands(b)
      BY <1>1, <1>2, <1>7, <2>1, HistoryNow
    <3>2. \A points, from : Rating!Explained(points, from, Rating!Spent(b)) =>
                               Rating!Explained(points, from, Rating!Spent(b)')
      <4>1. Rating!Spent(b) \in Int /\ Rating!Spent(b)' \in Int
            /\ Rating!Spent(b) <= Rating!Spent(b)'
        BY <1>8 DEF Rating!Rated
      <4>. QED
        BY <4>1, MoreExplains
    <3>3. Told(b, t4[b])'
      BY <1>1, <3>1, <3>2 DEF Told
    <3>4. Stands(b)'
      BY <1>1, <3>1, <3>2 DEF Stands
    <3>5. Tells(b, "log", has)'
      BY <1>1, <1>3 DEF Tells
    <3>. QED
      BY <3>3, <3>4, <3>5
  <2>2. UNCHANGED <<serial, t6>> /\ (serial => \A q \in Slots : q # r => step'[q] = "idle")
    BY <1>1, <1>7
  <2>. QED
    BY <1>2, <1>5, <2>1, <2>2, HistoryMoves
<1>10. "log" # "patch" /\ step[r] \notin Rating!RequestSteps
  BY <1>1, RequestPlaces
<1>. QED
  BY <1>1, <1>4, <1>5, <1>6, <1>9, <1>10, HandlerMoves

LEMMA PatchSlot ==
    ASSUME Rating!RatingsInv, NEW r \in Slots, step[r] \in {"log", "patch"}
    PROVE  /\ RatedTyped /\ Rating!Alone /\ Rating!HistoryKept /\ Rating!TypeOK
           /\ Rating!PendingAsked /\ step[r] \notin Rating!RequestSteps /\ step[r] # "idle"
           /\ task[r] \in Rating!PatchJob /\ task[r].of \in Rating!Rated
           /\ task[r].old \in Rating!Points /\ task[r].new \in Rating!Points
           /\ step[r] = "patch" => task[r].new \in Rating!News(task[r].of)
           /\ \A x \in Rating!Rated : Rating!Spent(x) \in Nat
<1>1. /\ RatedTyped /\ Rating!Alone /\ Rating!HistoryKept /\ Rating!TypeOK
      /\ Rating!PendingAsked /\ HandlersTrue
  BY RatingsInvIs DEF Rating!RatingsInv
<1>2. JobTyped(step[r], task[r]) /\ FoundOut(step[r], task[r])
  BY <1>1 DEF HandlersTrue
<1>3. step[r] \notin Rating!RequestSteps /\ task[r] \in Rating!PatchJob
  BY <1>2, RequestPlaces DEF JobTyped
<1>4. step[r] = "patch" => task[r].new \in Rating!News(task[r].of)
  BY <1>2 DEF FoundOut
<1>. QED
  BY <1>1, <1>2, <1>3, <1>4, JobBuyer, RatingTypes

LEMMA RatingsWrite ==
    ASSUME Rating!RatingsInv, NEW r \in Slots, Rating!WriteOverride(r)
    PROVE  Rating!RatingsInv'
<1>. DEFINE has == Rating!Free
            x == task[r].of
            new == task[r].new
<1>1. /\ step[r] = "patch" /\ UNCHANGED <<serial, t2, t3, t4, t5, t6>>
      /\ t1' = [t1 EXCEPT ![x] = new] /\ Rating!Close(r)
  BY DEF Rating!WriteOverride
<1>2. /\ RatedTyped /\ Rating!Alone /\ Rating!HistoryKept /\ Rating!TypeOK
      /\ Rating!PendingAsked /\ step[r] \notin Rating!RequestSteps /\ step[r] # "idle"
      /\ x \in Rating!Rated /\ new \in Rating!Points /\ new \in Rating!News(x)
      /\ \A y \in Rating!Rated : Rating!Spent(y) \in Nat
  BY <1>1, PatchSlot
<1>3. Moves(r, "idle", has) /\ JobTyped("idle", has) /\ \A y : ~MayLower("idle", has, y)
  BY <1>1, <1>2, Closes
<1>4. serial => \A q \in Slots : q # r => step[q] = "idle" /\ step'[q] = "idle"
  BY <1>1, <1>2, <1>3, AloneMoves
<1>5. \A y \in Rating!Rated :
         Rating!Spent(y)' \in Nat /\ Rating!Spent(y)' >= Rating!Spent(y)
  BY <1>1, <1>2, <1>3, RatingMoves
<1>6. t1 \in [Rating!Rated -> Rating!Points] /\ t4' \in [Rating!Rated -> Seq(Rating!Override)]
      /\ t6' \in BOOLEAN
  BY <1>1, <1>2 DEF RatedTyped
<1>7. /\ t1' \in [Rating!Rated -> Rating!Points] /\ t1'[x] = new
      /\ \A y \in Rating!Rated : y # x => t1'[y] = t1[y]
  <2>. HIDE DEF x, new
  <2>. QED
    BY <1>1, <1>2, <1>6
<1>8. \A y \in Rating!Rated : Rating!News(y)' = Rating!News(y)
  BY <1>1 DEF Rating!News
<1>9. \A y \in Rating!Rated : t1'[y] = t1[y] \/ t1'[y] \in Rating!News(y)'
  <2>1. ASSUME NEW y \in Rating!Rated, t1'[y] # t1[y]
        PROVE  t1'[y] \in Rating!News(y)'
    <3>1. y = x /\ t1'[y] = new
      BY <1>7, <2>1
    <3>2. t1'[y] \in Rating!News(y)
      BY <1>2, <3>1
    <3>. QED
      BY <1>8, <3>2
  <2>. QED
    BY <2>1
<1>10. Rating!HistoryKept'
  <2>1. ASSUME serial, ~t6, NEW b \in RatedBuyers
        PROVE  Told(b, t4[b])' /\ Stands(b)' /\ Tells(b, "idle", has)'
    <3>1. /\ Told(b, t4[b]) /\ Tells(b, step[r], task[r])
          /\ Stands(b) \/ \E q \in Slots : step[q] = "patch" /\ task[q].of = b
      BY <1>2, <2>1, HistoryIs
    <3>2. /\ Rating!Spent(b) \in Int /\ Rating!Spent(b)' \in Nat
          /\ Rating!Spent(b) <= Rating!Spent(b)' /\ b \in Rating!Rated
      BY <1>2, <1>5 DEF Rating!Rated
    <3>3. \A points, from : Rating!Explained(points, from, Rating!Spent(b)) =>
                               Rating!Explained(points, from, Rating!Spent(b)')
      BY <3>2, MoreExplains
    <3>4. Told(b, t4[b])' /\ Tells(b, "idle", has)'
      BY <1>1, <3>1, <3>3 DEF Told, Tells
    <3>5. CASE b = x
      <4>1. t1'[b] = new /\ new = Rating!LeftBy(t4[b])
        BY <1>1, <1>7, <3>1, <3>5 DEF Tells
      <4>2. Rating!Explained(new, new, Rating!Spent(b)')
        BY <1>2, <3>2, NoneExplains
      <4>3. Stands(b)'
        BY <1>1, <4>1, <4>2 DEF Stands
      <4>. QED
        BY <3>4, <4>3
    <3>6. CASE b # x
      <4>1. Stands(b)
        BY <1>4, <2>1, <3>1, <3>6
      <4>2. Stands(b)'
        BY <1>1, <1>7, <3>2, <3>3, <3>6, <4>1 DEF Stands
      <4>. QED
        BY <3>4, <4>2
    <3>. QED
      BY <3>5, <3>6
  <2>. QED
    BY <1>1, <1>2, <1>3, <1>4, <2>1, HistoryMoves
<1>11. "idle" \notin Rating!RequestSteps /\ "idle" # "patch"
  BY RequestPlaces
<1>. HIDE DEF has, x, new
<1>. QED
  BY <1>1, <1>2, <1>3, <1>6, <1>7, <1>8, <1>9, <1>10, <1>11, HandlerMoves

LEMMA LogAppends ==
    ASSUME NEW entries \in Seq(Rating!Override), NEW entry \in Rating!Override
    PROVE  LET after == Append(entries, entry) IN
           /\ after \in Seq(Rating!Override) /\ Len(entries) \in Nat
           /\ DOMAIN entries = 1 .. Len(entries) /\ DOMAIN after = 1 .. Len(entries) + 1
           /\ after[Len(entries) + 1] = entry
           /\ \A i \in DOMAIN entries : after[i] = entries[i]
           /\ \A i \in DOMAIN after : Rating!Before(after, i) = Rating!Before(entries, i)
           /\ Rating!LeftBy(after) = entry.new
<1>. DEFINE after == Append(entries, entry)
            n == Len(entries)
<1>1. /\ after \in Seq(Rating!Override) /\ n \in Nat /\ DOMAIN entries = 1 .. n
      /\ DOMAIN after = 1 .. n + 1 /\ Len(after) = n + 1
      /\ after[n + 1] = entry /\ \A i \in 1 .. n : after[i] = entries[i]
  OBVIOUS
<1>. HIDE DEF after, n
<1>2. ASSUME NEW i \in 1 .. n + 1
      PROVE  Rating!Before(after, i) = Rating!Before(entries, i)
  <2>1. CASE i = 1
    BY <2>1 DEF Rating!Before
  <2>2. CASE i # 1
    <3>1. i - 1 \in 1 .. n
      BY <1>1, <2>2
    <3>2. after[i - 1] = entries[i - 1]
      BY <1>1, <3>1
    <3>. QED
      BY <2>2, <3>2 DEF Rating!Before
  <2>. QED
    BY <2>1, <2>2
<1>3. Rating!LeftBy(after) = entry.new
  <2>1. n + 1 + 1 # 1 /\ n + 1 + 1 - 1 = n + 1
    BY <1>1
  <2>. QED
    BY <1>1, <2>1 DEF Rating!LeftBy, Rating!Before
<1>. QED
  BY <1>1, <1>2, <1>3 DEF after, n

LEMMA RatingsLog ==
    ASSUME Rating!RatingsInv, NEW r \in Slots, Rating!LogOverride(r)
    PROVE  Rating!RatingsInv'
<1>0. PICK has : has = task[r]
  OBVIOUS
<1>. DEFINE x == has.of
            entry == [old |-> has.old, new |-> has.new]
<1>1. /\ step[r] = "log" /\ UNCHANGED <<serial, t1, t2, t3, t5, t6>>
      /\ t4' = [t4 EXCEPT ![x] = Append(@, entry)] /\ Rating!Goto(r, "patch")
  BY <1>0 DEF Rating!LogOverride
<1>2. /\ RatedTyped /\ Rating!Alone /\ Rating!HistoryKept /\ Rating!TypeOK
      /\ Rating!PendingAsked /\ step[r] \notin Rating!RequestSteps /\ step[r] # "idle"
      /\ has \in Rating!PatchJob /\ x \in Rating!Rated
      /\ has.old \in Rating!Points /\ has.new \in Rating!Points
      /\ \A y \in Rating!Rated : Rating!Spent(y) \in Nat
  BY <1>0, <1>1, PatchSlot
<1>3. "patch" \in Rating!Steps /\ "patch" \notin Rating!RequestSteps
      /\ "patch" \notin Rating!BuyerSteps
  BY RequestPlaces
<1>4. Moves(r, "patch", has) /\ JobTyped("patch", has) /\ \A y : ~MayLower("patch", has, y)
  <2>1. Moves(r, "patch", has)
    BY <1>0, <1>1, <1>2, <1>3, GoesMove
  <2>. QED
    BY <1>2, <1>3, <2>1 DEF JobTyped, MayLower
<1>5. serial => \A q \in Slots : q # r => step[q] = "idle" /\ step'[q] = "idle"
  BY <1>1, <1>2, <1>4, AloneMoves
<1>6. \A y \in Rating!Rated :
         Rating!Spent(y)' \in Nat /\ Rating!Spent(y)' >= Rating!Spent(y)
  BY <1>1, <1>2, <1>4, RatingMoves
<1>7. /\ t1' \in [Rating!Rated -> Rating!Points] /\ t6' \in BOOLEAN
      /\ t4 \in [Rating!Rated -> Seq(Rating!Override)] /\ t4[x] \in Seq(Rating!Override)
  BY <1>1, <1>2 DEF RatedTyped
<1>8. entry \in Rating!Override /\ entry.old = has.old /\ entry.new = has.new
  BY <1>2 DEF Rating!Override
<1>. DEFINE after == Append(t4[x], entry)
            n == Len(t4[x])
<1>9. /\ after \in Seq(Rating!Override) /\ n \in Nat
      /\ DOMAIN t4[x] = 1 .. n /\ DOMAIN after = 1 .. n + 1
      /\ after[n + 1] = entry /\ \A i \in DOMAIN t4[x] : after[i] = t4[x][i]
      /\ \A i \in DOMAIN after : Rating!Before(after, i) = Rating!Before(t4[x], i)
      /\ Rating!LeftBy(after) = entry.new
  BY <1>7, <1>8, LogAppends
<1>. HIDE DEF x, entry, after, n
<1>10. /\ t4' \in [Rating!Rated -> Seq(Rating!Override)] /\ t4'[x] = after
       /\ \A y \in Rating!Rated : y # x => t4'[y] = t4[y]
  <2>1. t4' = [t4 EXCEPT ![x] = after]
    BY <1>1 DEF after
  <2>. QED
    BY <1>2, <1>7, <1>9, <2>1
<1>11. ASSUME NEW y \in Rating!Rated
       PROVE  /\ Rating!News(y) \subseteq Rating!News(y)'
              /\ y = x => has.new \in Rating!News(y)'
  <2>1. Rating!News(y) = {t4[y][i].new : i \in DOMAIN t4[y]}
        /\ Rating!News(y)' = {t4'[y][i].new : i \in DOMAIN t4'[y]}
    BY DEF Rating!News
  <2>2. CASE y # x
    BY <1>10, <2>1, <2>2
  <2>3. CASE y = x
    <3>1. \A i \in DOMAIN t4[x] : i \in DOMAIN after /\ after[i] = t4[x][i]
      BY <1>9
    <3>2. n + 1 \in DOMAIN after /\ after[n + 1].new = has.new
      BY <1>8, <1>9
    <3>3. Rating!News(y)' = {after[i].new : i \in DOMAIN after}
      BY <1>10, <2>1, <2>3
    <3>. QED
      BY <2>1, <2>3, <3>1, <3>2, <3>3
  <2>. QED
    BY <2>2, <2>3
<1>12. Rating!HistoryKept'
  <2>1. ASSUME serial, ~t6, NEW b \in RatedBuyers
        PROVE  /\ Told(b, t4[b])' /\ (Stands(b)' \/ ("patch" = "patch" /\ has.of = b))
               /\ Tells(b, "patch", has)'
    <3>1. Told(b, t4[b]) /\ Stands(b) /\ Tells(b, step[r], task[r])
      BY <1>1, <1>2, <1>5, <2>1, HistoryNow
    <3>2. /\ Rating!Spent(b) \in Int /\ Rating!Spent(b)' \in Int
          /\ Rating!Spent(b) <= Rating!Spent(b)' /\ b \in Rating!Rated
      BY <1>2, <1>6 DEF Rating!Rated
    <3>3. \A points, from : Rating!Explained(points, from, Rating!Spent(b)) =>
                               Rating!Explained(points, from, Rating!Spent(b)')
      BY <3>2, MoreExplains
    <3>4. CASE b = x
      <4>1. has.old = t1[b]
        BY <1>0, <1>1, <3>1, <3>4 DEF Tells, x
      <4>2. ASSUME NEW i \in DOMAIN after
            PROVE  Rating!Explained(after[i].old, Rating!Before(after, i), Rating!Spent(b)')
        <5>1. CASE i \in DOMAIN t4[x]
          <6>1. Rating!Explained(t4[x][i].old, Rating!Before(t4[x], i), Rating!Spent(b))
            BY <3>1, <3>4, <5>1 DEF Told
          <6>. QED
            BY <1>9, <3>3, <5>1, <6>1
        <5>2. CASE i \notin DOMAIN t4[x]
          <6>1. i = n + 1
            BY <1>9, <5>2
          <6>2. after[i].old = t1[b]
            BY <1>8, <1>9, <4>1, <6>1
          <6>3. Rating!Before(after, i) = Rating!LeftBy(t4[b])
            BY <1>9, <3>4, <6>1 DEF Rating!LeftBy, n
          <6>. QED
            BY <3>1, <3>3, <6>2, <6>3 DEF Stands
        <5>. QED
          BY <5>1, <5>2
      <4>3. Told(b, t4[b])'
        BY <1>10, <3>4, <4>2 DEF Told
      <4>4. Tells(b, "patch", has)'
        BY <1>8, <1>9, <1>10, <3>4 DEF Tells
      <4>. QED
        BY <3>4, <4>3, <4>4 DEF x
    <3>5. CASE b # x
      <4>1. t4'[b] = t4[b] /\ has.of # b /\ t1' = t1
        BY <1>1, <1>10, <3>2, <3>5 DEF x
      <4>2. Told(b, t4[b])'
        BY <3>1, <3>3, <4>1 DEF Told
      <4>3. Stands(b)'
        BY <3>1, <3>3, <4>1 DEF Stands
      <4>4. Tells(b, "patch", has)'
        BY <4>1 DEF Tells
      <4>. QED
        BY <4>2, <4>3, <4>4
    <3>. QED
      BY <3>4, <3>5
  <2>2. UNCHANGED <<serial, t6>> /\ (serial => \A q \in Slots : q # r => step'[q] = "idle")
    BY <1>1, <1>5
  <2>. QED
    BY <1>2, <1>4, <2>1, <2>2, HistoryMoves
<1>13. has.new \in Rating!News(has.of)'
  BY <1>2, <1>11 DEF x
<1>14. UNCHANGED <<serial, t2, t3, t5, t6>> /\ \A y \in Rating!Rated : t1'[y] = t1[y]
  BY <1>1
<1>. QED
  BY <1>2, <1>3, <1>4, <1>7, <1>10, <1>11, <1>12, <1>13, <1>14, HandlerMoves

LEMMA RatingsStill ==
    ASSUME Rating!RatingsInv, UNCHANGED Rating!vars
    PROVE  Rating!RatingsInv'
<1>1. RatedTyped
  BY RatingsInvIs
<1>2. UNCHANGED <<serial, t1, t2, t3, t4, t5, t6, step, task>>
  BY DEF Rating!vars, Rating!slot
<1>3. /\ t3' \in [Rating!Kinds -> Nat] /\ t1' \in [Rating!Rated -> Rating!Points]
      /\ t5' \in [RatedSellers -> SUBSET Rating!Points]
      /\ \A x \in RatedSellers : t5[x] \subseteq t5'[x]
      /\ \A x : Rating!Asked(x)' = Rating!Asked(x)
  BY <1>1, <1>2 DEF RatedTyped, Rating!Asked, Rating!Rows
<1>4. UNCHANGED <<serial, t2, t4, t6, step, task>> /\ t1' = t1
  BY <1>2
<1>. QED
  BY <1>3, <1>4, RatingsAside

LEMMA RatingsKept ==
    ASSUME Rating!RatingsInv, [Rating!Next]_Rating!vars
    PROVE  Rating!RatingsInv'
<1>1. CASE \E r \in Slots, b \in RatedBuyers, s \in RatedSellers :
              Rating!RequestReplacement(r, b, s)
  BY <1>1, RatingsRequest
<1>2. CASE \E b \in RatedBuyers, s \in RatedSellers :
              Rating!Age(b, s, "month", "quarter") \/ Rating!Age(b, s, "quarter", "old")
  <2>1. {"month", "quarter", "old"} \subseteq Rating!Ages
    BY DEF Rating!Ages
  <2>. QED
    BY <1>2, <2>1, RatingsAge
<1>3. CASE \E r \in Slots : Rating!ReadBuyer(r) \/ Rating!CountRequest(r)
                            \/ Rating!CountWindow(r) \/ Rating!PenaliseBuyer(r)
  BY <1>3, RatingsReadBuyer, RatingsCount, RatingsWindow, RatingsPenalise
<1>4. CASE \E r \in Slots :
              Rating!CountSeller(r) \/ Rating!ReadSeller(r) \/ Rating!DemoteSeller(r)
  BY <1>4, RatingsSeller, RatingsReadSeller, RatingsDemote
<1>5. CASE \E r \in Slots, x \in Rating!Rated, to \in PointsGiven :
              Rating!PatchRating(r, x, to)
  BY <1>5, RatingsPatch
<1>6. CASE \E r \in Slots :
              Rating!LogOverride(r) \/ Rating!WriteOverride(r) \/ Rating!Fail(r)
  BY <1>6, RatingsLog, RatingsWrite, RatingsFail
<1>7. CASE \E s \in RatedSellers, to \in PointsGiven : Rating!SubmitSellerRating(s, to)
  BY <1>7, RatingsSubmit
<1>8. CASE UNCHANGED Rating!vars
  BY <1>8, RatingsStill
<1>. QED
  BY <1>1, <1>2, <1>3, <1>4, <1>5, <1>6, <1>7, <1>8 DEF Rating!Next

LEMMA RatingsInit ==
    ASSUME Rating!Init
    PROVE  Rating!RatingsInv
<1>1. /\ serial \in BOOLEAN /\ t1 = [x \in Rating!Rated |-> Rating!Default]
      /\ t2 = [b \in RatedBuyers |-> 0] /\ t3 = [k \in Rating!Kinds |-> 0]
      /\ t4 = [x \in Rating!Rated |-> <<>>] /\ t5 = [s \in RatedSellers |-> {}] /\ t6 = FALSE
      /\ step = [r \in Slots |-> "idle"] /\ task = [r \in Slots |-> Rating!Free]
  BY DEF Rating!Init
<1>2. Rating!Default \in Rating!Points /\ 0 \in Nat
  BY DEF Rating!Default, Rating!Points
<1>3. RatedTyped
  <2>1. t1 \in [Rating!Rated -> Rating!Points] /\ t2 \in [RatedBuyers -> Nat]
        /\ t3 \in [Rating!Kinds -> Nat] /\ t5 \in [RatedSellers -> SUBSET Rating!Points]
    BY <1>1, <1>2
  <2>2. t4 \in [Rating!Rated -> Seq(Rating!Override)]
    <3>1. <<>> \in Seq(Rating!Override)
      OBVIOUS
    <3>. QED
      BY <1>1, <3>1
  <2>3. step \in [Slots -> Rating!Steps] /\ DOMAIN task = Slots
    BY <1>1, RequestPlaces
  <2>. QED
    BY <1>1, <2>1, <2>2, <2>3 DEF RatedTyped
<1>4. HandlersTrue
  <2>1. ASSUME NEW r \in Slots
        PROVE  JobTyped(step[r], task[r]) /\ FoundOut(step[r], task[r])
    <3>1. step[r] = "idle" /\ task[r] = Rating!Free
      BY <1>1
    <3>. QED
      BY <3>1, RequestPlaces DEF JobTyped, FoundOut
  <2>. QED
    BY <2>1 DEF HandlersTrue
<1>5. Rating!Alone
  BY <1>1 DEF Rating!Alone
<1>6. \A x : Rating!Asked(x) = 0
  <2>1. ASSUME NEW x
        PROVE  SumOf(t3, AskedKinds(x)) = 0
    <3>. DEFINE S == AskedKinds(x)
    <3>1. IsFiniteSet(S)
      BY <1>3, AskedTypes DEF RatedTyped
    <3>2. \A k \in S : t3[k] = 0
      BY <1>1 DEF AskedKinds
    <3>. HIDE DEF S
    <3>3. /\ \A k \in S : t3[k] \in Int /\ t3[k] = (IF k \in {} THEN t3[k] ELSE 0)
          /\ \A k \in S : t3[k] \in Int
      BY <3>2
    <3>4. SumOf(t3, S) = SumOf(t3, {})
      BY <3>1, <3>3, SumOfPart
    <3>5. SumOf(t3, {}) = 0
      BY <3>1, <3>3, SumPartsOf
    <3>. QED
      BY <3>4, <3>5 DEF S
  <2>. QED
    BY <2>1, AskedIs DEF AskedOf
<1>7. /\ \A x : Rating!Pending(x) = {} /\ Rating!Uncounted(x) = {}
  BY <1>1, RequestPlaces DEF Rating!Pending, Rating!Uncounted
<1>8. IsFiniteSet({}) /\ Cardinality({}) = 0
  BY FS_EmptySet
<1>9. Rating!PendingAsked
  BY <1>6, <1>7, <1>8, RatingCardinality DEF Rating!PendingAsked
<1>10. Rating!RequestsCounted
  <2>1. ASSUME NEW b \in RatedBuyers
        PROVE  t2[b] + Cardinality(Rating!Uncounted(b)) = 0
    <3>1. t2[b] = 0
      BY <1>1
    <3>2. Cardinality(Rating!Uncounted(b)) = 0
      BY <1>7, <1>8
    <3>. QED
      BY <3>1, <3>2
  <2>. QED
    BY <1>6, <1>7, <1>8, <2>1, RatingCardinality DEF Rating!RequestsCounted
<1>11. \A x \in Rating!Rated :
          Rating!Explained(Rating!Default, Rating!Default, Rating!Spent(x))
  <2>1. Rating!TypeOK
    BY <1>3, <1>4 DEF RatedTyped, HandlersTrue, JobTyped, Rating!TypeOK
  <2>2. \A x \in Rating!Rated : Rating!Spent(x) \in Nat
    BY <1>5, <1>9, <2>1, RatingTypes
  <2>. QED
    BY <1>2, <2>2, NoneExplains
<1>12. ScoresExplained
  <2>1. \A x \in Rating!Rated : Rating!Default \in Rating!Sources(x) /\ t1[x] = Rating!Default
    BY <1>1 DEF Rating!Sources
  <2>. QED
    BY <1>11, <2>1 DEF ScoresExplained, Rating!FromSource
<1>13. Rating!HistoryKept
  <2>1. ASSUME NEW b \in RatedBuyers
        PROVE  /\ Told(b, t4[b]) /\ Stands(b)
               /\ \A r \in Slots : Tells(b, step[r], task[r])
    <3>1. b \in Rating!Rated
      BY DEF Rating!Rated
    <3>2. t4[b] = <<>> /\ t1[b] = Rating!Default
      BY <1>1, <3>1
    <3>3. Rating!LeftBy(<<>>) = Rating!Default
      <4>1. Len(<<>>) + 1 = 1
        OBVIOUS
      <4>. QED
        BY <4>1 DEF Rating!LeftBy, Rating!Before
    <3>4. Told(b, t4[b])
      BY <3>2 DEF Told
    <3>5. Stands(b)
      BY <1>11, <3>1, <3>2, <3>3 DEF Stands
    <3>6. \A r \in Slots : step[r] = "idle"
      BY <1>1
    <3>7. \A r \in Slots : Tells(b, step[r], task[r])
      BY <3>6 DEF Tells
    <3>. QED
      BY <3>4, <3>5, <3>7
  <2>. QED
    BY <2>1, HistoryIs
<1>. QED
  BY <1>3, <1>4, <1>5, <1>9, <1>10, <1>12, <1>13, RatingsInvIs

\* What the rows and the log say of scores.
LEMMA RatingsSay ==
    Rating!RatingsInv =>
        /\ Rating!TypeOK /\ Rating!EveryRequestCounted /\ Rating!ScoreExplained
        /\ Rating!LogIsHistory
<1>. SUFFICES ASSUME Rating!RatingsInv
              PROVE  /\ Rating!TypeOK /\ Rating!EveryRequestCounted /\ Rating!ScoreExplained
                     /\ Rating!LogIsHistory
  OBVIOUS
<1>1. /\ RatedTyped /\ ScoresExplained /\ Rating!Alone /\ Rating!PendingAsked
      /\ Rating!RequestsCounted /\ Rating!HistoryKept /\ Rating!TypeOK
  BY RatingsInvIs DEF Rating!RatingsInv
<1>2. ASSUME NEW x \in Rating!Rated
      PROVE  /\ Rating!Spent(x) \in Int /\ Rating!Penalties(x) \in Int
             /\ Rating!Spent(x) <= Rating!Penalties(x)
  <2>. DEFINE a == Rating!Asked(x)
              l == Rating!Limit(x)
              p == Cardinality(Rating!Pending(x))
  <2>1. a \in Nat /\ l \in Nat /\ p \in Nat
    BY <1>1, PendingTypes, LimitTypes
  <2>2. /\ Rating!Spent(x) = Rating!Penalties(x) - (IF a < l THEN 0 ELSE p)
        /\ Rating!Penalties(x) = IF a < l THEN 0 ELSE IF serial THEN a - l + 1 ELSE a
    BY RatingCardinality DEF Rating!Spent, Rating!Penalties
  <2>. HIDE DEF a, l, p
  <2>3. Rating!Penalties(x) \in Int
    BY <2>1, <2>2
  <2>. QED
    BY <2>1, <2>2, <2>3
<1>3. \A x \in Rating!Rated : \A points, from :
         Rating!Explained(points, from, Rating!Spent(x)) =>
             Rating!Explained(points, from, Rating!Penalties(x))
  BY <1>2, MoreExplains
<1>4. Rating!ScoreExplained
  BY <1>1, <1>3 DEF Rating!ScoreExplained, ScoresExplained, Rating!FromSource
<1>5. Rating!EveryRequestCounted
  <2>1. ASSUME NEW b \in RatedBuyers
        PROVE  /\ t2[b] <= Rating!Asked(b)
               /\ ~t6 /\ Rating!Quiet => t2[b] = Rating!Asked(b)
    <3>. DEFINE p == Cardinality(Rating!Uncounted(b))
    <3>1. /\ IsFiniteSet(Rating!Uncounted(b)) /\ t2[b] + p <= Rating!Asked(b)
          /\ ~t6 => t2[b] + p = Rating!Asked(b)
      BY <1>1, RatingCardinality DEF Rating!RequestsCounted
    <3>2. p \in Nat /\ t2[b] \in Nat
      BY <1>1, <3>1, FS_CardinalityType DEF RatedTyped
    <3>3. Rating!Quiet => p = 0
      <4>1. Rating!Quiet => Rating!Uncounted(b) = {}
        BY DEF Rating!Quiet, Rating!Uncounted
      <4>. QED
        BY <4>1, FS_EmptySet
    <3>4. Rating!Asked(b) \in Nat
      BY <1>1, AskedTypes, AskedIs DEF RatedTyped
    <3>. HIDE DEF p
    <3>. QED
      BY <3>1, <3>2, <3>3, <3>4
  <2>. QED
    BY <2>1 DEF Rating!EveryRequestCounted
<1>6. Rating!LogIsHistory
  <2>1. SUFFICES ASSUME serial, ~t6, Rating!Quiet, NEW b \in RatedBuyers
                 PROVE  LET told == <<Rating!Default>> \o [i \in DOMAIN t4[b] |-> t4[b][i].new]
                        IN  /\ \A i \in DOMAIN t4[b] :
                                   Rating!Explained(t4[b][i].old, told[i], Rating!Penalties(b))
                            /\ Rating!Explained(t1[b], told[Len(told)], Rating!Penalties(b))
    BY DEF Rating!LogIsHistory
  <2>. DEFINE entries == t4[b]
              n == Len(entries)
              news == [i \in DOMAIN entries |-> entries[i].new]
              told == <<Rating!Default>> \o news
  <2>2. b \in Rating!Rated
    BY DEF Rating!Rated
  <2>3. Told(b, entries) /\ Stands(b)
    <3>1. \A r \in Slots : step[r] # "patch"
      BY <2>1 DEF Rating!Quiet
    <3>. QED
      BY <1>1, <2>1, <3>1, HistoryIs
  <2>4. /\ n \in Nat /\ DOMAIN entries = 1 .. n
        /\ \A i \in 1 .. n : entries[i].new \in Rating!Points
    BY <1>1, <2>2, LogTypes DEF Rating!Override
  <2>5. Len(told) = n + 1 /\ \A i \in 1 .. n + 1 : told[i] = Rating!Before(entries, i)
    <3>1. news \in Seq(Rating!Points) /\ Len(news) = n
      <4>. HIDE DEF entries, n
      <4>1. news \in [1 .. n -> Rating!Points]
        BY <2>4
      <4>. HIDE DEF news
      <4>. QED
        BY <2>4, <4>1
    <3>2. \A i \in 1 .. n : news[i] = entries[i].new
      BY <2>4
    <3>3. Rating!Default \in Rating!Points
      BY DEF Rating!Default, Rating!Points
    <3>. DEFINE first == <<Rating!Default>>
    <3>4. first \in Seq(Rating!Points) /\ Len(first) = 1 /\ first[1] = Rating!Default
      BY <3>3
    <3>. HIDE DEF entries, n, news, first
    <3>5. /\ Len(first \o news) = n + 1
          /\ (first \o news)[1] = Rating!Default
          /\ \A i \in 2 .. n + 1 : (first \o news)[i] = news[i - 1]
      <4>1. /\ Len(first \o news) = Len(first) + Len(news)
            /\ \A i \in 1 .. Len(first) + Len(news) :
                  (first \o news)[i] =
                      IF i <= Len(first) THEN first[i] ELSE news[i - Len(first)]
        BY <3>1, <3>4, ConcatProperties
      <4>2. Len(first) + Len(news) = n + 1 /\ 1 \in 1 .. n + 1 /\ 2 .. n + 1 \subseteq 1 .. n + 1
        BY <2>4, <3>1, <3>4
      <4>. QED
        BY <2>4, <3>4, <4>1, <4>2
    <3>6. ASSUME NEW i \in 1 .. n + 1
          PROVE  (first \o news)[i] = Rating!Before(entries, i)
      <4>1. CASE i = 1
        BY <3>5, <4>1 DEF Rating!Before
      <4>2. CASE i # 1
        <5>1. i \in 2 .. n + 1 /\ i - 1 \in 1 .. n
          BY <2>4, <4>2
        <5>. QED
          BY <3>2, <3>5, <4>2, <5>1 DEF Rating!Before
      <4>. QED
        BY <4>1, <4>2
    <3>. QED
      BY <3>5, <3>6 DEF first
  <2>6. \A i \in DOMAIN entries :
           Rating!Explained(entries[i].old, told[i], Rating!Penalties(b))
    <3>1. \A i \in DOMAIN entries : told[i] = Rating!Before(entries, i)
      BY <2>4, <2>5
    <3>. QED
      BY <1>3, <2>2, <2>3, <3>1 DEF Told
  <2>7. Rating!Explained(t1[b], told[Len(told)], Rating!Penalties(b))
    <3>1. told[Len(told)] = Rating!LeftBy(entries)
      <4>1. n + 1 \in 1 .. n + 1
        BY <2>4
      <4>. QED
        BY <2>5, <4>1 DEF Rating!LeftBy
    <3>2. Rating!Explained(t1[b], Rating!LeftBy(entries), Rating!Spent(b))
      BY <2>3 DEF Stands
    <3>. QED
      BY <1>3, <2>2, <3>1, <3>2
  <2>. QED
    BY <2>6, <2>7
<1>. QED
  BY <1>1, <1>4, <1>5, <1>6

-----------------------------------------------------------------------------
(***************************************************************************)
(* LiveReward: the time streamed, by day, and the flag derived from it.    *)
(***************************************************************************)
LEMMA RewardStart ==
    ASSUME PartInit, part = "reward"
    PROVE  Reward!Init
BY DEF PartInit

LEMMA RewardStep ==
    ASSUME [PartNext]_<<vars, store>>, part = "reward"
    PROVE  [Reward!Next]_Reward!vars
BY DEF PartNext, vars, store, Reward!vars, Reward!slot, Reward!stored, Reward!ghosts

LEMMA RewardCardinality ==
    ASSUME NEW S
    PROVE  /\ Reward!Cardinality(S) = Cardinality(S)
           /\ Reward!IsFiniteSet(S) <=> IsFiniteSet(S)
BY DEF Reward!Cardinality, Cardinality, Reward!IsFiniteSet, IsFiniteSet

LEMMA RewardSum ==
    ASSUME NEW f, NEW S
    PROVE  /\ Reward!SumFunctionOnSet(f, S) = SumOf(f, S)
           /\ Reward!SumFunction(f) = SumOf(f, DOMAIN f)
BY DEF SumOf, MapThenSumSet, MapThenFoldSet, Reward!SumFunctionOnSet, Reward!SumFunction,
   Reward!FoldFunctionOnSet, Reward!MapThenFoldSet, Reward!FoldFunction

LEMMA RewardFacts ==
    /\ IsFiniteSet(Pair) /\ DayUnits \in Nat /\ DayUnits > 0
    /\ DayOffset \in Nat /\ QualifiedTime \in Nat /\ QualifiedTime > 0
    /\ RequiredDays \in Nat /\ RequiredDays > 0 /\ WindowDays \in Nat
    /\ LastUnit \in Nat /\ LastUnit > 0
BY RewardConstants, RewardCardinality DEF Reward!RewardAssumption

LEMMA DivMonotone ==
    ASSUME NEW m \in Nat, NEW n \in Nat, m <= n, NEW d \in Nat, d > 0
    PROVE  m \div d <= n \div d
<1>. DEFINE p == m \div d
            q == n \div d
            e == n % d
<1>1. p \in Nat /\ d * p <= m
  BY DivMod
<1>2. q \in Nat /\ e \in Nat /\ e < d /\ d * q + e = n
  BY DivMod
<1>. HIDE DEF p, q, e
<1>3. d * p < d * (q + 1)
  <2>1. d * (q + 1) = d * q + d /\ d * q \in Int /\ d * p \in Int
    BY <1>1, <1>2
  <2>. QED
    BY <1>1, <1>2, <2>1
<1>4. p < q + 1
  BY <1>1, <1>2, <1>3
<1>5. p <= q
  BY <1>1, <1>2, <1>4
<1>. QED
  BY <1>5 DEF p, q

LEMMA RewardDays ==
    /\ IsFiniteSet(Reward!Days) /\ \A d \in Reward!Days : d \in Nat
    /\ t1 \in 0 .. LastUnit =>
          /\ Reward!Today \in Reward!Days
          /\ Reward!Today * DayUnits <= t1 + DayOffset
<1>. DEFINE n == (LastUnit + DayOffset) \div DayUnits
<1>1. LastUnit + DayOffset \in Nat /\ DayUnits \in Nat /\ DayUnits > 0
  BY RewardFacts
<1>2. n \in Nat
  BY <1>1, DivMod
<1>3. Reward!Days = 0 .. n
  BY DEF Reward!Days
<1>. HIDE DEF n
<1>4. IsFiniteSet(0 .. n)
  <2>1. 0 \in Int /\ n \in Int /\ 0 <= n + 1
    BY <1>2
  <2>. QED
    BY <2>1, IntervalSize
<1>5. ASSUME t1 \in 0 .. LastUnit
      PROVE  /\ Reward!Today \in Reward!Days
             /\ Reward!Today * DayUnits <= t1 + DayOffset
  <2>. DEFINE m == t1 + DayOffset
              q == m \div DayUnits
  <2>1. m \in Nat /\ m <= LastUnit + DayOffset
    BY <1>5, RewardFacts
  <2>. HIDE DEF m
  <2>2. q \in Nat /\ m % DayUnits \in Nat /\ DayUnits * q + (m % DayUnits) = m
    BY <1>1, <2>1, DivMod
  <2>3. q <= n
    BY <1>1, <2>1, DivMonotone DEF n
  <2>. HIDE DEF q
  <2>4. q \in 0 .. n /\ q * DayUnits <= m
    <3>1. DayUnits * q = q * DayUnits /\ DayUnits * q \in Int
      BY <1>1, <2>2
    <3>. QED
      BY <1>2, <2>1, <2>2, <2>3, <3>1
  <2>5. Reward!Today = q
    BY DEF Reward!Today, q, m
  <2>. QED
    BY <1>3, <2>4, <2>5 DEF m
<1>. QED
  BY <1>2, <1>3, <1>4, <1>5

\* What is true of an open stop, and of the rows.
StopTyped(at, has) ==
    /\ IF at = "idle" THEN has = Reward!Free ELSE has \in Reward!Job
    /\ at # "idle" => has.since <= t1
    /\ at \in {"session", "read"} => has.time <= LastUnit
RewardTyped ==
    /\ serial \in BOOLEAN /\ t5 \in BOOLEAN /\ t9 \in BOOLEAN
    /\ t1 \in 0 .. LastUnit /\ t8 \in 0 .. LastUnit + 1
    /\ t2 \in [Pair -> 0 .. LastUnit + 1]
    /\ t3 \in [Pair -> 0 .. LastUnit + 1]
    /\ t4 \in [Reward!Days -> [total : Nat, qualified : BOOLEAN]]
    /\ t6 \in [Pair -> Nat] /\ t7 \in [Reward!Days -> Nat]
    /\ step \in [Slots -> Reward!Steps] /\ DOMAIN task = Slots
RowsPast ==
    /\ \A s \in Pair : t2[s] # Reward!Never => t2[s] <= t1
    /\ t8 # Reward!Never => t8 <= t1
    /\ \A d \in Reward!Days : t7[d] > 0 => d * DayUnits <= t1 + DayOffset
StopsTyped == \A r \in Slots : StopTyped(step[r], task[r])

LEMMA RewardInvIs ==
    Reward!RewardInv <=>
        /\ RewardTyped /\ StopsTyped /\ RowsPast /\ Reward!Alone /\ Reward!OneSession
        /\ Reward!SessionsPassed /\ Reward!DaysRecorded /\ Reward!FlagDerived
BY DEF Reward!RewardInv, RewardTyped, StopsTyped, StopTyped, RowsPast, Reward!TypeOK,
       Reward!Past, Reward!Never

\* A step of one stop.
Turns(r, at, has) ==
    /\ step' \in [Slots -> Reward!Steps] /\ DOMAIN task' = Slots
    /\ step'[r] = at /\ task'[r] = has
    /\ \A q \in Slots : q # r => step'[q] = step[q] /\ task'[q] = task[q]

LEMMA StopTurns ==
    ASSUME RewardTyped, NEW r \in Slots, NEW at \in Reward!Steps
    PROVE  /\ \A has : step' = [step EXCEPT ![r] = at] /\ task' = [task EXCEPT ![r] = has] =>
                 Turns(r, at, has)
           /\ Reward!Goto(r, at) => Turns(r, at, task[r])
BY DEF RewardTyped, Turns, Reward!Goto

LEMMA AloneTurns ==
    ASSUME Reward!Alone, UNCHANGED serial, NEW r \in Slots, NEW at, NEW has, Turns(r, at, has),
           step[r] # "idle" \/ (serial => \A q \in Slots : step[q] = "idle")
    PROVE  /\ Reward!Alone'
           /\ serial => \A q \in Slots : q # r => step[q] = "idle" /\ step'[q] = "idle"
BY DEF Reward!Alone, Turns

LEMMA StopsTurn ==
    ASSUME StopsTyped, UNCHANGED t1, NEW r \in Slots, NEW at, NEW has, Turns(r, at, has),
           StopTyped(at, has)
    PROVE  StopsTyped'
BY DEF StopsTyped, StopTyped, Turns

\* A stop that does not have the session of its stream on its way leaves those alone.
LEMMA OneSessionTurns ==
    ASSUME Reward!OneSession, UNCHANGED <<t3, t6>>, NEW r \in Slots, NEW at, NEW has,
           Turns(r, at, has), at \notin {"session", "read"}
    PROVE  Reward!OneSession'
BY DEF Reward!OneSession, Turns

LEMMA SumGrows ==
    ASSUME NEW S, IsFiniteSet(S), NEW f, NEW g,
           \A x \in S : f[x] \in Int /\ g[x] \in Int /\ f[x] <= g[x]
    PROVE  SumOf(f, S) <= SumOf(g, S)
<1>1. 0 \in Int /\ \A x \in S : f[x] \in Int /\ g[x] \in Int /\ f[x] <= g[x] + 0
  OBVIOUS
<1>2. SumOf(f, S) <= SumOf(g, S) + 0 * Cardinality(S)
  BY <1>1, SumWithin
<1>3. SumOf(g, S) \in Int /\ SumOf(f, S) \in Int /\ Cardinality(S) \in Nat
  <2>1. Summed(f, S) /\ Summed(g, S)
    <3>1. S \in SUBSET S /\ (\A x \in S : f[x] \in Int) /\ (\A x \in S : g[x] \in Int)
      OBVIOUS
    <3>. QED
      BY <3>1, SumPartsOf
  <2>. QED
    BY <2>1, FS_CardinalityType DEF Summed
<1>. QED
  BY <1>2, <1>3

\* What all sessions have passed on, and what the days were given.
PassedAll == [s \in Pair |-> Reward!Passed(s)]
PassedIs(given, passed, lost) == given <= passed /\ (~lost => given = passed)

SessionsEven == PassedIs(SumOf(t7, Reward!Days), SumOf(PassedAll, Pair), t9)

LEMMA SessionsAre ==
    RewardTyped => (Reward!SessionsPassed <=> (Reward!StoppedOnce => SessionsEven))
<1>. SUFFICES ASSUME RewardTyped
              PROVE  Reward!SessionsPassed <=> (Reward!StoppedOnce => SessionsEven)
  OBVIOUS
<1>1. Reward!SumFunction(t7) = SumOf(t7, Reward!Days)
  BY RewardSum DEF RewardTyped
<1>2. Reward!SumFunction(PassedAll) = SumOf(PassedAll, Pair)
  <2>1. DOMAIN PassedAll = Pair
    BY DEF PassedAll
  <2>. QED
    BY <2>1, RewardSum
<1>. QED
  BY <1>1, <1>2 DEF Reward!SessionsPassed, SessionsEven, PassedIs, PassedAll

LEMMA PassedTypes ==
    RewardTyped =>
        /\ \A s \in Pair : Reward!Passed(s) \in Nat /\ PassedAll[s] = Reward!Passed(s)
        /\ SumOf(PassedAll, Pair) \in Nat /\ SumOf(t7, Reward!Days) \in Nat
<1>. SUFFICES ASSUME RewardTyped
              PROVE  /\ \A s \in Pair : /\ Reward!Passed(s) \in Nat
                                        /\ PassedAll[s] = Reward!Passed(s)
                     /\ SumOf(PassedAll, Pair) \in Nat /\ SumOf(t7, Reward!Days) \in Nat
  OBVIOUS
<1>1. \A s \in Pair : Reward!Passed(s) \in Nat /\ PassedAll[s] = Reward!Passed(s)
  BY RewardFacts DEF RewardTyped, Reward!Passed, PassedAll
<1>2. \A s \in Pair : PassedAll[s] \in Nat
  BY <1>1
<1>3. \A d \in Reward!Days : t7[d] \in Nat
  BY DEF RewardTyped
<1>4. IsFiniteSet(Pair) /\ IsFiniteSet(Reward!Days)
  BY RewardFacts, RewardDays
<1>. QED
  BY <1>1, <1>2, <1>3, <1>4, SumOfNumbers

LEMMA PassedLater ==
    ASSUME RewardTyped'
    PROVE  (/\ \A s \in Pair : Reward!Passed(s) \in Nat /\ PassedAll[s] = Reward!Passed(s)
            /\ SumOf(PassedAll, Pair) \in Nat /\ SumOf(t7, Reward!Days) \in Nat)'
BY PassedTypes, PTL

LEMMA SessionsStay ==
    ASSUME RewardTyped, RewardTyped', Reward!SessionsPassed, UNCHANGED t7,
           Reward!StoppedOnce' => Reward!StoppedOnce,
           \/ t9' /\ \A s \in Pair : Reward!Passed(s) <= Reward!Passed(s)'
           \/ /\ UNCHANGED t9
              /\ Reward!StoppedOnce' => \A s \in Pair : Reward!Passed(s)' = Reward!Passed(s)
    PROVE  Reward!SessionsPassed'
<1>1. SUFFICES ASSUME Reward!StoppedOnce'
               PROVE  SessionsEven'
  BY SessionsAre, PTL
<1>2. SessionsEven
  BY <1>1, SessionsAre
<1>3. /\ \A s \in Pair : Reward!Passed(s) \in Nat /\ PassedAll[s] = Reward!Passed(s)
      /\ SumOf(PassedAll, Pair) \in Nat /\ SumOf(t7, Reward!Days) \in Nat
  BY PassedTypes
<1>4. (/\ \A s \in Pair : Reward!Passed(s) \in Nat /\ PassedAll[s] = Reward!Passed(s)
       /\ SumOf(PassedAll, Pair) \in Nat /\ SumOf(t7, Reward!Days) \in Nat)'
  BY PassedLater
<1>. DEFINE before == PassedAll
            after == PassedAll'
<1>5. SessionsEven' <=> PassedIs(SumOf(t7, Reward!Days), SumOf(after, Pair), t9')
  BY DEF SessionsEven
<1>6. \A s \in Pair : before[s] = Reward!Passed(s) /\ after[s] = Reward!Passed(s)'
  BY <1>3, <1>4
<1>7. CASE /\ UNCHANGED t9
           /\ Reward!StoppedOnce' => \A s \in Pair : Reward!Passed(s)' = Reward!Passed(s)
  <2>1. after = before
    <3>1. \A s \in Pair : Reward!Passed(s)' = Reward!Passed(s)
      BY <1>1, <1>7
    <3>. QED
      BY <3>1 DEF PassedAll
  <2>. QED
    BY <1>2, <1>5, <1>7, <2>1 DEF SessionsEven
<1>8. CASE t9' /\ \A s \in Pair : Reward!Passed(s) <= Reward!Passed(s)'
  <2>1. \A s \in Pair : before[s] \in Int /\ after[s] \in Int /\ before[s] <= after[s]
    BY <1>3, <1>4, <1>6, <1>8
  <2>2. IsFiniteSet(Pair) /\ SumOf(after, Pair) \in Nat /\ SumOf(before, Pair) \in Nat
    BY <1>3, <1>4, RewardFacts
  <2>3. SumOf(t7, Reward!Days) <= SumOf(before, Pair)
    BY <1>2 DEF SessionsEven, PassedIs
  <2>. HIDE DEF before, after
  <2>4. SumOf(before, Pair) <= SumOf(after, Pair)
    BY <2>1, <2>2, SumGrows
  <2>5. SumOf(t7, Reward!Days) <= SumOf(after, Pair)
    BY <1>3, <2>2, <2>3, <2>4
  <2>. QED
    BY <1>5, <1>8, <2>5 DEF PassedIs
<1>. QED
  BY <1>7, <1>8

\* The streams whose session a handler is about to add to a day.
Adding(s) == \E q \in Slots : step[q] = "read" /\ task[q].stream = s

LEMMA AddingTurns ==
    ASSUME NEW r \in Slots, NEW at, NEW has, Turns(r, at, has), NEW s
    PROVE  /\ at # "read" /\ Adding(s)' => Adding(s)
           /\ step[r] # "read" /\ Adding(s) => Adding(s)'
           /\ step[r] = "read" /\ task[r].stream # s /\ Adding(s) => Adding(s)'
           /\ at = "read" /\ has.stream # s /\ Adding(s)' => Adding(s)
BY DEF Turns, Adding

LEMMA PassedAre ==
    \A s : Reward!Passed(s) = IF t3[s] = Reward!Never \/ Adding(s) THEN 0 ELSE t3[s]
BY DEF Reward!Passed, Adding

LEMMA SessionsTurn ==
    ASSUME RewardTyped, RewardTyped', Reward!SessionsPassed, UNCHANGED <<t3, t7>>,
           NEW r \in Slots, NEW at, NEW has, Turns(r, at, has), at # "read",
           Reward!StoppedOnce' => Reward!StoppedOnce,
           t9' \/ (step[r] # "read" /\ UNCHANGED t9)
    PROVE  Reward!SessionsPassed'
<1>1. \A s : Adding(s)' => Adding(s)
  BY AddingTurns
<1>2. \A s : Reward!Passed(s)' = IF t3[s] = Reward!Never \/ Adding(s)' THEN 0 ELSE t3[s]
  BY DEF Reward!Passed, Adding, Reward!Never
<1>3. CASE step[r] # "read" /\ UNCHANGED t9
  <2>1. \A s : Adding(s)' <=> Adding(s)
    BY <1>1, <1>3, AddingTurns
  <2>2. \A s \in Pair : Reward!Passed(s)' = Reward!Passed(s)
    BY <1>2, <2>1, PassedAre
  <2>. QED
    BY <1>3, <2>2, SessionsStay
<1>4. CASE t9'
  <2>1. ASSUME NEW s \in Pair
        PROVE  Reward!Passed(s) <= Reward!Passed(s)'
    <3>1. Reward!Passed(s) = 0 \/ Reward!Passed(s) = Reward!Passed(s)'
      BY <1>1, <1>2, PassedAre
    <3>2. Reward!Passed(s) \in Nat /\ Reward!Passed(s)' \in Nat
      <4>1. t3[s] \in Nat
        BY RewardFacts DEF RewardTyped
      <4>. QED
        BY <1>2, <4>1, PassedAre
    <3>. QED
      BY <3>1, <3>2
  <2>. QED
    BY <1>4, <2>1, SessionsStay
<1>. QED
  BY <1>3, <1>4

\* A stop that is not writing a day leaves what the days hold as it is.
LEMMA DaysTurn ==
    ASSUME Reward!DaysRecorded, UNCHANGED <<serial, t4, t7>>,
           NEW r \in Slots, NEW at, NEW has, Turns(r, at, has), at # "total",
           t9' \/ (step[r] # "total" /\ UNCHANGED t9)
    PROVE  Reward!DaysRecorded'
<1>1. /\ \A d \in Reward!Days : /\ t4[d].total <= t7[d]
                                /\ t4[d].qualified => t7[d] >= QualifiedTime
      /\ \A q \in Slots : step[q] = "total" => task[q].time <= t7[task[q].day]
  BY DEF Reward!DaysRecorded
<1>2. /\ step'[r] = at /\ task'[r] = has
      /\ \A q \in Slots : q # r => step'[q] = step[q] /\ task'[q] = task[q]
  BY DEF Turns
<1>3. \A q \in Slots : step'[q] = "total" =>
         step[q] = "total" /\ task'[q] = task[q]
  BY <1>2
<1>4. CASE t9'
  BY <1>1, <1>3, <1>4 DEF Reward!DaysRecorded
<1>5. CASE step[r] # "total" /\ UNCHANGED t9
  <2>1. \A q \in Slots : step[q] = "total" => step'[q] = "total" /\ task'[q] = task[q]
    BY <1>2, <1>5
  <2>2. serial /\ ~t9 =>
          /\ \A d \in Reward!Days :
                t4[d].total = t7[d] \/ \E q \in Slots : step'[q] = "total" /\ task'[q].day = d
          /\ \A q \in Slots : step'[q] = "total" => task'[q].time = t7[task'[q].day]
    BY <1>3, <2>1 DEF Reward!DaysRecorded
  <2>. QED
    BY <1>1, <1>3, <1>5, <2>2 DEF Reward!DaysRecorded
<1>. QED
  BY <1>4, <1>5

\* What was earned stays so as time passes and more of it is recorded.
InWindow(t) == {d \in Reward!Days : /\ t7[d] >= QualifiedTime
                                    /\ (d + WindowDays) * DayUnits >= t
                                    /\ d * DayUnits <= t + DayOffset}

LEMMA EarnedIs ==
    Reward!Earned <=> \E t \in 0 .. t1 : RequiredDays <= Cardinality(InWindow(t))
BY RewardCardinality DEF Reward!Earned, InWindow

LEMMA EarnedStays ==
    ASSUME RewardTyped, RewardTyped', t1 <= t1', \A d \in Reward!Days : t7[d] <= t7'[d],
           Reward!Earned
    PROVE  Reward!Earned'
<1>1. PICK t \in 0 .. t1 : RequiredDays <= Cardinality(InWindow(t))
  BY EarnedIs
<1>. DEFINE S == InWindow(t)
            T == InWindow(t)'
<1>2. S \subseteq T /\ T \subseteq Reward!Days
  <2>1. ASSUME NEW d \in Reward!Days, t7[d] >= QualifiedTime
        PROVE  t7'[d] >= QualifiedTime
    <3>1. t7[d] \in Nat /\ t7'[d] \in Nat /\ t7[d] <= t7'[d] /\ QualifiedTime \in Nat
      BY RewardFacts DEF RewardTyped
    <3>. QED
      BY <2>1, <3>1
  <2>. QED
    BY <2>1 DEF InWindow
<1>. HIDE DEF S, T
<1>3. IsFiniteSet(T)
  BY <1>2, RewardDays, FS_Subset
<1>4. Cardinality(S) <= Cardinality(T) /\ IsFiniteSet(S)
  BY <1>2, <1>3, FS_Subset
<1>5. RequiredDays <= Cardinality(T)
  <2>1. Cardinality(S) \in Nat /\ Cardinality(T) \in Nat /\ RequiredDays \in Nat
    BY <1>3, <1>4, FS_CardinalityType, RewardFacts
  <2>. QED
    BY <1>1, <1>4, <2>1 DEF S
<1>6. t \in 0 .. t1'
  BY DEF RewardTyped
<1>7. Reward!Earned' <=> \E u \in 0 .. t1' : RequiredDays <= Cardinality(InWindow(u)')
  BY RewardCardinality DEF Reward!Earned, InWindow
<1>. QED
  BY <1>5, <1>6, <1>7 DEF T

\* A stop that neither counts the days nor writes the flag leaves the flag as it is.
LEMMA FlagTurns ==
    ASSUME Reward!FlagDerived, UNCHANGED <<serial, t1, t4, t5, t8>>,
           Reward!Earned => Reward!Earned',
           NEW r \in Slots, NEW at, NEW has, Turns(r, at, has), at # "waiver",
           t9' \/ (step[r] \notin {"count", "waiver"} /\ UNCHANGED t9)
    PROVE  Reward!FlagDerived'
<1>1. /\ t5 => Reward!Earned
      /\ \A q \in Slots : step[q] = "waiver" /\ task[q].reward => Reward!Earned
  BY DEF Reward!FlagDerived
<1>2. /\ step'[r] = at /\ task'[r] = has
      /\ \A q \in Slots : q # r => step'[q] = step[q] /\ task'[q] = task[q]
  BY DEF Turns
<1>3. \A q \in Slots : step'[q] = "waiver" => step[q] = "waiver" /\ task'[q] = task[q]
  BY <1>2
<1>4. Reward!RewardActive' = Reward!RewardActive
  BY DEF Reward!RewardActive, Reward!QualifiedDays
<1>5. CASE t9'
  BY <1>1, <1>3, <1>5 DEF Reward!FlagDerived
<1>6. CASE step[r] \notin {"count", "waiver"} /\ UNCHANGED t9
  <2>1. \A q \in Slots : step[q] \in {"count", "waiver"} => step'[q] = step[q]
    BY <1>2, <1>6
  <2>2. serial /\ ~t9 /\ t8 = t1 =>
          /\ t5 = Reward!RewardActive \/ \E q \in Slots : step'[q] \in {"count", "waiver"}
          /\ \A q \in Slots : step'[q] = "waiver" => task'[q].reward = Reward!RewardActive
    BY <1>3, <2>1 DEF Reward!FlagDerived
  <2>. QED
    BY <1>1, <1>3, <1>4, <1>6, <2>2 DEF Reward!FlagDerived
<1>. QED
  BY <1>5, <1>6

LEMMA StopMoves ==
    ASSUME Reward!RewardInv, UNCHANGED <<serial, t1>>, RewardTyped', RowsPast',
           NEW r \in Slots, NEW at, NEW has, Turns(r, at, has), StopTyped(at, has),
           step[r] # "idle" \/ (serial => \A q \in Slots : step[q] = "idle"),
           Reward!OneSession', Reward!SessionsPassed', Reward!DaysRecorded',
           Reward!FlagDerived'
    PROVE  Reward!RewardInv'
<1>1. StopsTyped /\ Reward!Alone
  BY RewardInvIs
<1>2. StopsTyped' /\ Reward!Alone'
  BY <1>1, StopsTurn, AloneTurns
<1>. QED
  BY <1>2, RewardInvIs, PTL

LEMMA RowsStill ==
    ASSUME RowsPast, UNCHANGED <<t1, t2, t7, t8>>
    PROVE  RowsPast'
BY DEF RowsPast, Reward!Never

LEMMA StopPlaces ==
    {"idle", "write", "session", "read", "total", "count", "waiver"} = Reward!Steps
BY DEF Reward!Steps

\* A stop that is opened, or given up.
LEMMA StopGoes ==
    ASSUME Reward!RewardInv, UNCHANGED <<serial, t1, t2, t3, t4, t5, t6, t7, t8>>,
           t9' \in BOOLEAN, NEW r \in Slots, NEW at \in {"idle", "write"}, NEW has,
           Turns(r, at, has), StopTyped(at, has),
           step[r] # "idle" \/ (serial => \A q \in Slots : step[q] = "idle"),
           t9' \/ (step[r] = "idle" /\ UNCHANGED t9)
    PROVE  Reward!RewardInv'
<1>1. /\ RewardTyped /\ RowsPast /\ Reward!OneSession /\ Reward!SessionsPassed
      /\ Reward!DaysRecorded /\ Reward!FlagDerived
  BY RewardInvIs
<1>2. RewardTyped'
  <2>1. step' \in [Slots -> Reward!Steps] /\ DOMAIN task' = Slots
    BY DEF Turns
  <2>. QED
    BY <1>1, <2>1 DEF RewardTyped
<1>3. Reward!OneSession'
  BY <1>1, OneSessionTurns
<1>4. Reward!SessionsPassed'
  <2>1. Reward!StoppedOnce' => Reward!StoppedOnce
    BY DEF Reward!StoppedOnce
  <2>2. at # "read" /\ (t9' \/ (step[r] # "read" /\ UNCHANGED t9))
    OBVIOUS
  <2>. QED
    BY <1>1, <1>2, <2>1, <2>2, SessionsTurn
<1>5. Reward!DaysRecorded'
  <2>1. at # "total" /\ (t9' \/ (step[r] # "total" /\ UNCHANGED t9))
    OBVIOUS
  <2>. QED
    BY <1>1, <2>1, DaysTurn
<1>6. Reward!FlagDerived'
  <2>1. at # "waiver" /\ (t9' \/ (step[r] \notin {"count", "waiver"} /\ UNCHANGED t9))
    OBVIOUS
  <2>2. Reward!Earned => Reward!Earned'
    BY DEF Reward!Earned
  <2>. QED
    BY <1>1, <2>1, <2>2, FlagTurns
<1>7. RowsPast'
  BY <1>1, RowsStill
<1>. QED
  BY <1>2, <1>3, <1>4, <1>5, <1>6, <1>7, StopMoves

LEMMA RewardOpen ==
    ASSUME Reward!RewardInv, NEW r \in Slots, NEW s \in Pair, Reward!StopStream(r, s)
    PROVE  Reward!RewardInv'
<1>1. PICK has : has = [stream |-> s, since |-> t2[s], time |-> 0, day |-> 0,
                        reward |-> FALSE]
  OBVIOUS
<1>2. /\ UNCHANGED <<serial, t1, t2, t3, t4, t5, t6, t7, t8, t9>> /\ step[r] = "idle"
      /\ (serial => \A q \in Slots : step[q] = "idle") /\ t2[s] # Reward!Never
      /\ step' = [step EXCEPT ![r] = "write"] /\ task' = [task EXCEPT ![r] = has]
  BY <1>1 DEF Reward!StopStream, Reward!Keep, Reward!stored, Reward!ghosts
<1>3. RewardTyped /\ RowsPast
  BY RewardInvIs
<1>4. t2[s] \in 0 .. LastUnit /\ t2[s] <= t1
  <2>1. t2[s] \in 0 .. LastUnit + 1 /\ t2[s] # LastUnit + 1
    BY <1>2, <1>3 DEF RewardTyped, Reward!Never
  <2>. QED
    BY <1>2, <1>3, <2>1, RewardFacts DEF RowsPast
<1>5. 0 \in Reward!Days
  <2>1. Reward!Today \in Reward!Days /\ Reward!Days = 0 .. (LastUnit + DayOffset) \div DayUnits
    BY <1>3, RewardDays DEF RewardTyped, Reward!Days
  <2>2. (LastUnit + DayOffset) \div DayUnits \in Nat
    BY RewardFacts, DivMod
  <2>. QED
    BY <2>1, <2>2
<1>6. has \in Reward!Job /\ has.since <= t1
  BY <1>1, <1>4, <1>5 DEF Reward!Job
<1>7. StopTyped("write", has)
  BY <1>6 DEF StopTyped
<1>8. Turns(r, "write", has) /\ t9' \in BOOLEAN
  BY <1>2, <1>3, StopPlaces, StopTurns DEF RewardTyped
<1>. QED
  BY <1>2, <1>7, <1>8, StopGoes

LEMMA RewardCloses ==
    ASSUME RewardTyped, NEW r \in Slots, Reward!Close(r)
    PROVE  Turns(r, "idle", Reward!Free) /\ StopTyped("idle", Reward!Free)
<1>1. /\ step' = [step EXCEPT ![r] = "idle"] /\ task' = [task EXCEPT ![r] = Reward!Free]
      /\ "idle" \in Reward!Steps
  BY StopPlaces DEF Reward!Close, Reward!Keep
<1>. QED
  BY <1>1, StopTurns DEF StopTyped

LEMMA RewardFails ==
    ASSUME Reward!RewardInv, NEW r \in Slots, Reward!Fail(r)
    PROVE  Reward!RewardInv'
<1>1. /\ UNCHANGED <<serial, t1, t2, t3, t4, t5, t6, t7, t8>> /\ step[r] # "idle"
      /\ t9' = TRUE /\ Reward!Close(r)
  BY DEF Reward!Fail, Reward!stored
<1>2. Turns(r, "idle", Reward!Free) /\ StopTyped("idle", Reward!Free)
  BY <1>1, RewardInvIs, RewardCloses
<1>. QED
  BY <1>1, <1>2, StopGoes

\* The row of the stream is written: its session is on the way.
LEMMA RewardWrites ==
    ASSUME Reward!RewardInv, NEW r \in Slots, Reward!WriteStop(r)
    PROVE  Reward!RewardInv'
<1>1. PICK has : has = [task[r] EXCEPT !.time = t1 - task[r].since]
  OBVIOUS
<1>2. PICK s : s = task[r].stream
  OBVIOUS
<1>3. /\ UNCHANGED <<serial, t1, t2, t3, t4, t5, t7, t8, t9>> /\ step[r] = "write"
      /\ step' = [step EXCEPT ![r] = "session"] /\ task' = [task EXCEPT ![r] = has]
      /\ t6' = [t6 EXCEPT ![s] = @ + 1]
  BY <1>1, <1>2 DEF Reward!WriteStop, Reward!Keep, Reward!stored
<1>4. /\ RewardTyped /\ RowsPast /\ Reward!OneSession /\ Reward!SessionsPassed
      /\ Reward!DaysRecorded /\ Reward!FlagDerived /\ StopsTyped
  BY RewardInvIs
<1>5. task[r] \in Reward!Job /\ task[r].since <= t1
  BY <1>3, <1>4 DEF StopsTyped, StopTyped
<1>6. has \in Reward!Job /\ has.since <= t1 /\ has.stream = s /\ has.time <= LastUnit
  <2>1. t1 \in 0 .. LastUnit /\ task[r].since \in 0 .. LastUnit /\ LastUnit \in Nat
    BY <1>4, <1>5, RewardFacts DEF RewardTyped, Reward!Job
  <2>2. t1 - task[r].since \in Nat /\ t1 - task[r].since <= LastUnit
    BY <1>5, <2>1
  <2>. QED
    BY <1>1, <1>2, <1>5, <2>2 DEF Reward!Job
<1>7. StopTyped("session", has)
  BY <1>6 DEF StopTyped
<1>8. Turns(r, "session", has)
  BY <1>3, <1>4, StopPlaces, StopTurns
<1>9. s \in Pair /\ t6[s] \in Nat /\ t6'[s] = t6[s] + 1
      /\ \A u \in Pair : u # s => t6'[u] = t6[u]
  BY <1>2, <1>3, <1>4, <1>5 DEF Reward!Job, RewardTyped
<1>10. RewardTyped'
  <2>1. step' \in [Slots -> Reward!Steps] /\ DOMAIN task' = Slots
    BY <1>8 DEF Turns
  <2>2. t6' \in [Pair -> Nat]
    BY <1>3, <1>4, <1>9 DEF RewardTyped
  <2>. QED
    BY <1>3, <1>4, <2>1, <2>2 DEF RewardTyped
<1>11. Reward!OneSession'
  <2>. DEFINE Has(q, u) == step[q] \in {"session", "read"} /\ task[q].stream = u
              Then(q, u) == step'[q] \in {"session", "read"} /\ task'[q].stream = u
  <2>1. \A u \in Pair : t6[u] <= 1 =>
           /\ t6[u] = 0 => t3[u] = Reward!Never
           /\ \A p, q \in Slots : Has(p, u) /\ Has(q, u) => p = q
           /\ \A q \in Slots : Has(q, u) =>
                 t6[u] = 1 /\ t3[u] = IF step[q] = "read" THEN task[q].time ELSE Reward!Never
    BY <1>4 DEF Reward!OneSession
  <2>2. \A q \in Slots : q # r => step'[q] = step[q] /\ task'[q] = task[q]
    BY <1>8 DEF Turns
  <2>3. step'[r] = "session" /\ task'[r] = has
    BY <1>8 DEF Turns
  <2>4. \A u \in Pair, q \in Slots : Then(q, u) => Has(q, u) \/ (q = r /\ u = s)
    BY <1>6, <2>2, <2>3
  <2>. HIDE DEF Has
  <2>5. ASSUME NEW u \in Pair, t6'[u] <= 1
        PROVE  /\ t6'[u] = 0 => t3[u] = Reward!Never
               /\ \A p, q \in Slots : Then(p, u) /\ Then(q, u) => p = q
               /\ \A q \in Slots : Then(q, u) =>
                     t6'[u] = 1 /\ t3[u] = IF step'[q] = "read" THEN task'[q].time
                                                              ELSE Reward!Never
    <3>1. CASE u # s
      <4>1. t6'[u] = t6[u] /\ \A q \in Slots : Then(q, u) => Has(q, u) /\ q # r
        <5>1. \A q \in Slots : Then(q, u) => Has(q, u)
          BY <2>4, <3>1
        <5>2. ~ Then(r, u)
          BY <1>6, <2>3, <3>1
        <5>. QED
          BY <1>9, <3>1, <5>1, <5>2
      <4>. HIDE DEF Then
      <4>. QED
        BY <2>1, <2>2, <2>5, <4>1
    <3>2. CASE u = s
      <4>1. t6[u] = 0 /\ t6'[u] = 1
        BY <1>9, <2>5, <3>2
      <4>2. t3[u] = Reward!Never /\ \A q \in Slots : ~ Has(q, u)
        BY <2>1, <4>1
      <4>3. \A q \in Slots : Then(q, u) => q = r
        BY <2>4, <4>2
      <4>. HIDE DEF Then
      <4>. QED
        BY <2>3, <4>1, <4>2, <4>3
    <3>. QED
      BY <3>1, <3>2
  <2>6. \A u \in Pair : t6'[u] <= 1 =>
           /\ t6'[u] = 0 => t3'[u] = Reward!Never
           /\ \A p, q \in Slots : Then(p, u) /\ Then(q, u) => p = q
           /\ \A q \in Slots : Then(q, u) =>
                 t6'[u] = 1 /\ t3'[u] = IF step'[q] = "read" THEN task'[q].time
                                                           ELSE Reward!Never
    BY <1>3, <2>5
  <2>. QED
    BY <2>6 DEF Reward!OneSession, Reward!Never
<1>12. Reward!SessionsPassed'
  <2>1. Reward!StoppedOnce' => Reward!StoppedOnce
    <3>1. \A u \in Pair : t6[u] \in Nat /\ t6'[u] \in Nat /\ t6[u] <= t6'[u]
      BY <1>4, <1>9, <1>10 DEF RewardTyped
    <3>. QED
      BY <3>1 DEF Reward!StoppedOnce
  <2>. QED
    BY <1>3, <1>4, <1>8, <1>10, <2>1, SessionsTurn
<1>13. Reward!DaysRecorded'
  BY <1>3, <1>4, <1>8, DaysTurn
<1>14. Reward!FlagDerived'
  <2>1. Reward!Earned => Reward!Earned'
    BY <1>3 DEF Reward!Earned
  <2>. QED
    BY <1>3, <1>4, <1>8, <2>1, FlagTurns
<1>15. RowsPast'
  BY <1>3, <1>4, RowsStill
<1>. QED
  BY <1>3, <1>7, <1>8, <1>10, <1>11, <1>12, <1>13, <1>14, <1>15, StopMoves

\* The session is saved; an empty one has no day to be added to.
LEMMA RewardSaves ==
    ASSUME Reward!RewardInv, NEW r \in Slots, Reward!SaveSession(r)
    PROVE  Reward!RewardInv'
<1>1. PICK s, time : s = task[r].stream /\ time = task[r].time
  OBVIOUS
<1>2. /\ UNCHANGED <<serial, t1, t2, t4, t5, t6, t7, t8, t9>> /\ step[r] = "session"
      /\ t3' = [t3 EXCEPT ![s] = time]
      /\ IF time > 0 THEN Reward!Goto(r, "read") ELSE Reward!Close(r)
  BY <1>1 DEF Reward!SaveSession, Reward!ghosts
<1>3. /\ RewardTyped /\ RowsPast /\ Reward!OneSession /\ Reward!SessionsPassed
      /\ Reward!DaysRecorded /\ Reward!FlagDerived /\ StopsTyped
  BY RewardInvIs
<1>4. /\ task[r] \in Reward!Job /\ task[r].since <= t1 /\ task[r].time <= LastUnit
      /\ s \in Pair /\ time \in Nat /\ time <= LastUnit
  BY <1>1, <1>2, <1>3 DEF StopsTyped, StopTyped, Reward!Job
<1>5. \E at, has : /\ Turns(r, at, has) /\ StopTyped(at, has)
                   /\ \/ at = "read" /\ has = task[r]
                      \/ at = "idle" /\ has = Reward!Free /\ time = 0
  <2>1. CASE time > 0
    <3>1. Turns(r, "read", task[r])
      BY <1>2, <1>3, <2>1, StopPlaces, StopTurns
    <3>2. StopTyped("read", task[r])
      BY <1>4 DEF StopTyped
    <3>. QED
      BY <3>1, <3>2
  <2>2. CASE ~ (time > 0)
    <3>1. Turns(r, "idle", Reward!Free) /\ StopTyped("idle", Reward!Free)
      BY <1>2, <1>3, <2>2, RewardCloses
    <3>2. time = 0
      BY <1>4, <2>2
    <3>. QED
      BY <3>1, <3>2
  <2>. QED
    BY <2>1, <2>2
<1>6. PICK at, has : /\ Turns(r, at, has) /\ StopTyped(at, has)
                     /\ \/ at = "read" /\ has = task[r]
                        \/ at = "idle" /\ has = Reward!Free /\ time = 0
  BY <1>5
<1>7. /\ step'[r] = at /\ task'[r] = has
      /\ \A q \in Slots : q # r => step'[q] = step[q] /\ task'[q] = task[q]
  BY <1>6 DEF Turns
<1>8. t3'[s] = time /\ \A u \in Pair : u # s => t3'[u] = t3[u]
  BY <1>2, <1>3, <1>4 DEF RewardTyped
<1>9. RewardTyped'
  <2>1. step' \in [Slots -> Reward!Steps] /\ DOMAIN task' = Slots
    BY <1>6 DEF Turns
  <2>2. time \in 0 .. LastUnit + 1
    BY <1>4, RewardFacts
  <2>3. t3' \in [Pair -> 0 .. LastUnit + 1]
    BY <1>2, <1>3, <1>4, <2>2 DEF RewardTyped
  <2>. QED
    BY <1>2, <1>3, <2>1, <2>3 DEF RewardTyped
<1>. DEFINE Has(q, u) == step[q] \in {"session", "read"} /\ task[q].stream = u
            Then(q, u) == step'[q] \in {"session", "read"} /\ task'[q].stream = u
<1>10. \A u \in Pair : t6[u] <= 1 =>
         /\ t6[u] = 0 => t3[u] = Reward!Never
         /\ \A p, q \in Slots : Has(p, u) /\ Has(q, u) => p = q
         /\ \A q \in Slots : Has(q, u) =>
               t6[u] = 1 /\ t3[u] = IF step[q] = "read" THEN task[q].time ELSE Reward!Never
  BY <1>3 DEF Reward!OneSession
<1>11. Has(r, s) /\ \A u \in Pair, q \in Slots : Then(q, u) => Has(q, u)
  BY <1>1, <1>2, <1>6, <1>7
<1>12. Reward!OneSession'
  <2>. HIDE DEF Has
  <2>1. ASSUME NEW u \in Pair, t6[u] <= 1
        PROVE  /\ t6[u] = 0 => t3'[u] = Reward!Never
               /\ \A p, q \in Slots : Then(p, u) /\ Then(q, u) => p = q
               /\ \A q \in Slots : Then(q, u) =>
                     t6[u] = 1 /\ t3'[u] = IF step'[q] = "read" THEN task'[q].time
                                                              ELSE Reward!Never
    <3>1. \A p, q \in Slots : Then(p, u) /\ Then(q, u) => p = q
      BY <1>10, <1>11, <2>1
    <3>2. CASE u # s
      <4>1. t3'[u] = t3[u] /\ \A q \in Slots : Then(q, u) => Has(q, u) /\ q # r
        <5>1. Then(r, u) => u = s
          BY <1>1, <1>6, <1>7
        <5>. QED
          BY <1>8, <1>11, <3>2, <5>1
      <4>. HIDE DEF Then
      <4>. QED
        BY <1>7, <1>10, <2>1, <3>1, <4>1
    <3>3. CASE u = s
      <4>1. t6[u] = 1 /\ t3'[u] = time
        BY <1>8, <1>10, <1>11, <2>1, <3>3
      <4>2. \A q \in Slots : Then(q, u) => q = r
        BY <1>10, <1>11, <2>1, <3>3
      <4>3. Then(r, u) => step'[r] = "read" /\ task'[r].time = time
        BY <1>1, <1>6, <1>7
      <4>. HIDE DEF Then
      <4>. QED
        BY <3>1, <4>1, <4>2, <4>3
    <3>. QED
      BY <3>2, <3>3
  <2>2. \A u \in Pair : t6'[u] <= 1 =>
           /\ t6'[u] = 0 => t3'[u] = Reward!Never
           /\ \A p, q \in Slots : Then(p, u) /\ Then(q, u) => p = q
           /\ \A q \in Slots : Then(q, u) =>
                 t6'[u] = 1 /\ t3'[u] = IF step'[q] = "read" THEN task'[q].time
                                                           ELSE Reward!Never
    BY <1>2, <2>1
  <2>. QED
    BY <2>2 DEF Reward!OneSession, Reward!Never
<1>13. Reward!SessionsPassed'
  <2>1. ASSUME Reward!StoppedOnce', NEW u \in Pair
        PROVE  Reward!Passed(u)' = Reward!Passed(u)
    <3>1. Reward!Passed(u)' = IF t3'[u] = Reward!Never \/ Adding(u)' THEN 0 ELSE t3'[u]
      BY DEF Reward!Passed, Adding, Reward!Never
    <3>2. CASE u # s
      <4>1. Adding(u)' <=> Adding(u)
        BY <1>1, <1>2, <1>6, <1>7, <3>2 DEF Adding
      <4>. QED
        BY <1>8, <3>1, <3>2, <4>1, PassedAre
    <3>3. CASE u = s
      <4>1. t6[u] <= 1
        BY <1>2, <2>1 DEF Reward!StoppedOnce
      <4>2. t3[u] = Reward!Never
        BY <1>2, <1>10, <1>11, <3>3, <4>1
      <4>3. Adding(u)' \/ time = 0
        BY <1>1, <1>6, <1>7, <3>3 DEF Adding
      <4>. QED
        BY <1>8, <3>1, <3>3, <4>2, <4>3, PassedAre
    <3>. QED
      BY <3>2, <3>3
  <2>2. Reward!StoppedOnce' => Reward!StoppedOnce
    BY <1>2 DEF Reward!StoppedOnce
  <2>. QED
    BY <1>2, <1>3, <1>9, <2>1, <2>2, SessionsStay
<1>14. Reward!DaysRecorded'
  BY <1>2, <1>3, <1>6, DaysTurn
<1>15. Reward!FlagDerived'
  <2>1. Reward!Earned => Reward!Earned'
    BY <1>2 DEF Reward!Earned
  <2>. QED
    BY <1>2, <1>3, <1>6, <2>1, FlagTurns
<1>16. RowsPast'
  BY <1>2, <1>3, RowsStill
<1>. QED
  BY <1>2, <1>6, <1>9, <1>12, <1>13, <1>14, <1>15, <1>16, StopMoves

\* The session is added to what the day had when it was read.
LEMMA RewardReads ==
    ASSUME Reward!RewardInv, NEW r \in Slots, Reward!ReadDay(r)
    PROVE  Reward!RewardInv'
<1>1. PICK x, time, d : x = task[r].stream /\ time = task[r].time /\ d = Reward!Today
  OBVIOUS
<1>2. PICK had : had = t4[d].total
  OBVIOUS
<1>3. PICK has : has = [task[r] EXCEPT !.day = d, !.time = time + had]
  OBVIOUS
<1>4. /\ UNCHANGED <<serial, t1, t2, t3, t4, t5, t6, t8, t9>> /\ step[r] = "read"
      /\ t7' = [t7 EXCEPT ![d] = @ + time]
      /\ step' = [step EXCEPT ![r] = "total"] /\ task' = [task EXCEPT ![r] = has]
  BY <1>1, <1>2, <1>3 DEF Reward!ReadDay, Reward!Keep, Reward!stored
<1>5. /\ RewardTyped /\ RowsPast /\ Reward!OneSession /\ Reward!SessionsPassed /\ Reward!Alone
      /\ Reward!DaysRecorded /\ Reward!FlagDerived /\ StopsTyped
  BY RewardInvIs
<1>6. /\ task[r] \in Reward!Job /\ task[r].since <= t1
      /\ x \in Pair /\ time \in Nat /\ time <= LastUnit
  BY <1>1, <1>4, <1>5 DEF StopsTyped, StopTyped, Reward!Job
<1>7. d \in Reward!Days /\ d * DayUnits <= t1 + DayOffset /\ had \in Nat
  <2>1. d \in Reward!Days /\ d * DayUnits <= t1 + DayOffset
    BY <1>1, <1>5, RewardDays DEF RewardTyped
  <2>. QED
    BY <1>2, <1>5, <2>1 DEF RewardTyped
<1>8. has \in Reward!Job /\ has.since <= t1 /\ has.time = time + had /\ has.day = d
  <2>1. time + had \in Nat
    BY <1>6, <1>7
  <2>. QED
    BY <1>3, <1>6, <1>7, <2>1 DEF Reward!Job
<1>9. Turns(r, "total", has) /\ StopTyped("total", has)
  <2>1. StopTyped("total", has)
    BY <1>8 DEF StopTyped
  <2>. QED
    BY <1>4, <1>5, <2>1, StopPlaces, StopTurns
<1>10. /\ step'[r] = "total" /\ task'[r] = has
       /\ \A q \in Slots : q # r => step'[q] = step[q] /\ task'[q] = task[q]
  BY <1>9 DEF Turns
<1>11. /\ t7'[d] = t7[d] + time /\ \A e \in Reward!Days : e # d => t7'[e] = t7[e]
       /\ \A e \in Reward!Days : t7[e] \in Nat
  BY <1>4, <1>5, <1>7 DEF RewardTyped
<1>12. \A e \in Reward!Days : t7[e] \in Nat /\ t7'[e] \in Nat /\ t7[e] <= t7'[e]
  BY <1>6, <1>7, <1>11
<1>13. RewardTyped'
  <2>1. step' \in [Slots -> Reward!Steps] /\ DOMAIN task' = Slots
    BY <1>9 DEF Turns
  <2>2. t7' \in [Reward!Days -> Nat]
    BY <1>4, <1>5, <1>6, <1>7 DEF RewardTyped
  <2>. QED
    BY <1>4, <1>5, <2>1, <2>2 DEF RewardTyped
<1>14. RowsPast'
  <2>1. \A e \in Reward!Days : t7'[e] > 0 => e * DayUnits <= t1 + DayOffset
    BY <1>5, <1>7, <1>11 DEF RowsPast
  <2>. QED
    BY <1>4, <1>5, <2>1 DEF RowsPast, Reward!Never
<1>15. Reward!OneSession'
  BY <1>4, <1>5, <1>9, OneSessionTurns
<1>16. Reward!SessionsPassed'
  <2>1. SUFFICES ASSUME Reward!StoppedOnce'
                 PROVE  SessionsEven'
    BY <1>13, SessionsAre, PTL
  <2>2. Reward!StoppedOnce
    BY <1>4, <2>1 DEF Reward!StoppedOnce
  <2>3. PassedIs(SumOf(t7, Reward!Days), SumOf(PassedAll, Pair), t9)
    BY <1>5, <2>2, SessionsAre DEF SessionsEven
  <2>4. /\ \A s \in Pair : Reward!Passed(s) \in Nat /\ PassedAll[s] = Reward!Passed(s)
        /\ SumOf(PassedAll, Pair) \in Nat /\ SumOf(t7, Reward!Days) \in Nat
    BY <1>5, PassedTypes
  <2>5. (/\ \A s \in Pair : Reward!Passed(s) \in Nat /\ PassedAll[s] = Reward!Passed(s)
         /\ SumOf(PassedAll, Pair) \in Nat /\ SumOf(t7, Reward!Days) \in Nat)'
    BY <1>13, PassedLater
  <2>. DEFINE before == PassedAll
              after == PassedAll'
  <2>6. \A u \in Pair : Reward!Passed(u)' =
           IF t3[u] = Reward!Never \/ Adding(u)' THEN 0 ELSE t3[u]
    BY <1>4 DEF Reward!Passed, Adding, Reward!Never
  <2>7. t3[x] = time /\ \A q \in Slots : step[q] = "read" /\ task[q].stream = x => q = r
    <3>1. t6[x] <= 1
      BY <1>6, <2>2 DEF Reward!StoppedOnce
    <3>. QED
      BY <1>1, <1>4, <1>5, <1>6, <3>1 DEF Reward!OneSession
  <2>8. before[x] = 0 /\ after[x] = time
    <3>1. Adding(x) /\ ~ Adding(x)'
      BY <1>1, <1>4, <1>10, <2>7 DEF Adding
    <3>2. time # Reward!Never
      BY <1>6, RewardFacts DEF Reward!Never
    <3>. QED
      BY <1>6, <2>4, <2>5, <2>6, <2>7, <3>1, <3>2, PassedAre
  <2>9. \A u \in Pair : u # x => after[u] = before[u]
    <3>1. \A u \in Pair : u # x => (Adding(u)' <=> Adding(u))
      BY <1>1, <1>4, <1>10 DEF Adding
    <3>. QED
      BY <2>4, <2>5, <2>6, <3>1, PassedAre
  <2>10. \A u \in Pair : before[u] \in Int /\ after[u] \in Int
    BY <2>4, <2>5
  <2>. HIDE DEF before, after
  <2>11. SumOf(after, Pair) = SumOf(before, Pair) + time
    <3>1. SumOf(after, Pair) = SumOf(before, Pair)
                               + (IF x \in Pair THEN after[x] - before[x] ELSE 0)
      <4>1. IsFiniteSet(Pair)
        BY RewardFacts
      <4>2. \A u \in Pair : /\ before[u] \in Int /\ after[u] \in Int
                            /\ (u # x => after[u] = before[u])
        BY <2>9, <2>10
      <4>. QED
        BY <4>1, <4>2, SumChanges
    <3>. QED
      BY <1>6, <2>8, <3>1
  <2>12. SumOf(t7', Reward!Days) = SumOf(t7, Reward!Days) + time
    <3>1. SumOf(t7', Reward!Days) = SumOf(t7, Reward!Days)
                               + (IF d \in Reward!Days THEN t7'[d] - t7[d] ELSE 0)
      <4>1. IsFiniteSet(Reward!Days)
        BY RewardDays
      <4>2. \A e \in Reward!Days : /\ t7[e] \in Int /\ t7'[e] \in Int
                                   /\ (e # d => t7'[e] = t7[e])
        BY <1>11, <1>12
      <4>. QED
        BY <4>1, <4>2, SumChanges
    <3>. QED
      BY <1>6, <1>7, <1>11, <3>1
  <2>13. PassedIs(SumOf(t7', Reward!Days), SumOf(after, Pair), t9)
    <3>1. SumOf(before, Pair) \in Nat /\ SumOf(t7, Reward!Days) \in Nat
      BY <2>4 DEF before
    <3>2. PassedIs(SumOf(t7, Reward!Days), SumOf(before, Pair), t9)
      BY <2>3 DEF before
    <3>. QED
      BY <1>6, <2>11, <2>12, <3>1, <3>2 DEF PassedIs
  <2>. QED
    BY <1>4, <2>13 DEF SessionsEven, after, Reward!Days
<1>17. Reward!DaysRecorded'
  <2>1. /\ \A e \in Reward!Days : /\ t4[e].total <= t7[e]
                                  /\ t4[e].qualified => t7[e] >= QualifiedTime
        /\ \A q \in Slots : step[q] = "total" => task[q].time <= t7[task[q].day]
        /\ serial /\ ~t9 => \A e \in Reward!Days :
              t4[e].total = t7[e] \/ \E q \in Slots : step[q] = "total" /\ task[q].day = e
    BY <1>5 DEF Reward!DaysRecorded
  <2>2. \A e \in Reward!Days : t4[e].total \in Nat
    BY <1>5 DEF RewardTyped
  <2>3. \A e \in Reward!Days : t4[e].total <= t7'[e]
    BY <1>12, <2>1, <2>2
  <2>4. \A e \in Reward!Days : t4[e].qualified => t7'[e] >= QualifiedTime
    BY <1>12, <2>1, RewardFacts
  <2>5. \A q \in Slots : step'[q] = "total" => task'[q].time <= t7'[task'[q].day]
    <3>1. task'[r].time <= t7'[task'[r].day]
      BY <1>2, <1>6, <1>7, <1>8, <1>10, <1>11, <2>1
    <3>2. ASSUME NEW q \in Slots, q # r, step'[q] = "total"
          PROVE  task'[q].time <= t7'[task'[q].day]
      <4>1. step[q] = "total" /\ task'[q] = task[q]
        BY <1>10, <3>2
      <4>2. task[q].time \in Nat /\ task[q].day \in Reward!Days
        BY <1>5, <4>1 DEF StopsTyped, StopTyped, Reward!Job
      <4>3. task[q].time <= t7[task[q].day]
        BY <2>1, <4>1
      <4>. QED
        BY <1>12, <4>1, <4>2, <4>3
    <3>. QED
      BY <3>1, <3>2
  <2>6. ASSUME serial, ~t9
        PROVE  /\ \A e \in Reward!Days : \/ t4[e].total = t7'[e]
                                         \/ \E q \in Slots : /\ step'[q] = "total"
                                                             /\ task'[q].day = e
               /\ \A q \in Slots : step'[q] = "total" => task'[q].time = t7'[task'[q].day]
    <3>1. \A q \in Slots : q # r => step[q] = "idle" /\ step'[q] = "idle"
      <4>1. step[r] # "idle" /\ UNCHANGED serial
        BY <1>4
      <4>. QED
        BY <1>5, <1>9, <2>6, <4>1, AloneTurns
    <3>2. \A e \in Reward!Days : t4[e].total = t7[e]
      BY <1>4, <2>1, <2>6, <3>1
    <3>3. \A e \in Reward!Days : \/ t4[e].total = t7'[e]
                                 \/ \E q \in Slots : step'[q] = "total" /\ task'[q].day = e
      BY <1>8, <1>10, <1>11, <3>2
    <3>4. task'[r].time = t7'[task'[r].day]
      BY <1>2, <1>6, <1>7, <1>8, <1>10, <1>11, <3>2
    <3>. QED
      BY <3>1, <3>3, <3>4
  <2>. QED
    BY <1>4, <2>3, <2>4, <2>5, <2>6 DEF Reward!DaysRecorded, Reward!Days
<1>18. Reward!FlagDerived'
  <2>1. Reward!Earned => Reward!Earned'
    <3>1. t1 <= t1'
      BY <1>4, <1>5 DEF RewardTyped
    <3>. QED
      BY <1>5, <1>12, <1>13, <3>1, EarnedStays
  <2>. QED
    BY <1>4, <1>5, <1>9, <2>1, FlagTurns
<1>. QED
  BY <1>4, <1>9, <1>13, <1>14, <1>15, <1>16, <1>17, <1>18, StopMoves

\* The total of the day is written.
LEMMA RewardWritesDay ==
    ASSUME Reward!RewardInv, NEW r \in Slots, Reward!WriteDay(r)
    PROVE  Reward!RewardInv'
<1>1. PICK d, sum : d = task[r].day /\ sum = task[r].time
  OBVIOUS
<1>2. /\ UNCHANGED <<serial, t1, t2, t3, t5, t6, t7, t8, t9>> /\ step[r] = "total"
      /\ t4' = [t4 EXCEPT ![d] = [total |-> sum, qualified |-> sum >= QualifiedTime]]
      /\ Reward!Goto(r, "count")
  BY <1>1 DEF Reward!WriteDay, Reward!ghosts
<1>3. /\ RewardTyped /\ RowsPast /\ Reward!OneSession /\ Reward!SessionsPassed /\ Reward!Alone
      /\ Reward!DaysRecorded /\ Reward!FlagDerived /\ StopsTyped
  BY RewardInvIs
<1>4. task[r] \in Reward!Job /\ task[r].since <= t1 /\ d \in Reward!Days /\ sum \in Nat
  BY <1>1, <1>2, <1>3 DEF StopsTyped, StopTyped, Reward!Job
<1>5. Turns(r, "count", task[r]) /\ StopTyped("count", task[r])
  <2>1. StopTyped("count", task[r])
    BY <1>4 DEF StopTyped
  <2>. QED
    BY <1>2, <1>3, <2>1, StopPlaces, StopTurns
<1>6. /\ step'[r] = "count"
      /\ \A q \in Slots : q # r => step'[q] = step[q] /\ task'[q] = task[q]
  BY <1>5 DEF Turns
<1>7. /\ t4'[d].total = sum /\ t4'[d].qualified = (sum >= QualifiedTime)
      /\ \A e \in Reward!Days : e # d => t4'[e] = t4[e]
  BY <1>2, <1>3, <1>4 DEF RewardTyped
<1>8. RewardTyped'
  <2>1. step' \in [Slots -> Reward!Steps] /\ DOMAIN task' = Slots
    BY <1>5 DEF Turns
  <2>2. t4' \in [Reward!Days -> [total : Nat, qualified : BOOLEAN]]
    BY <1>2, <1>3, <1>4 DEF RewardTyped
  <2>. QED
    BY <1>2, <1>3, <2>1, <2>2 DEF RewardTyped
<1>9. Reward!OneSession'
  BY <1>2, <1>3, <1>5, OneSessionTurns
<1>10. Reward!SessionsPassed'
  <2>1. Reward!StoppedOnce' => Reward!StoppedOnce
    BY <1>2 DEF Reward!StoppedOnce
  <2>. QED
    BY <1>2, <1>3, <1>5, <1>8, <2>1, SessionsTurn
<1>11. serial => \A q \in Slots : q # r => step[q] = "idle" /\ step'[q] = "idle"
  <2>1. step[r] # "idle" /\ UNCHANGED serial
    BY <1>2
  <2>. QED
    BY <1>3, <1>5, <2>1, AloneTurns
<1>12. Reward!DaysRecorded'
  <2>1. /\ \A e \in Reward!Days : /\ t4[e].total <= t7[e]
                                  /\ t4[e].qualified => t7[e] >= QualifiedTime
        /\ \A q \in Slots : step[q] = "total" => task[q].time <= t7[task[q].day]
        /\ serial /\ ~t9 =>
              /\ \A e \in Reward!Days :
                    t4[e].total = t7[e] \/ \E q \in Slots : step[q] = "total" /\ task[q].day = e
              /\ \A q \in Slots : step[q] = "total" => task[q].time = t7[task[q].day]
    BY <1>3 DEF Reward!DaysRecorded
  <2>2. sum <= t7[d] /\ t7[d] \in Nat
    BY <1>1, <1>2, <1>3, <1>4, <2>1 DEF RewardTyped
  <2>3. \A e \in Reward!Days : /\ t4'[e].total <= t7[e]
                               /\ t4'[e].qualified => t7[e] >= QualifiedTime
    <3>1. t4'[d].qualified => t7[d] >= QualifiedTime
      <4>1. t4'[d].qualified => sum >= QualifiedTime
        BY <1>7
      <4>2. sum >= QualifiedTime => t7[d] >= QualifiedTime
        BY <1>4, <2>2, RewardFacts
      <4>. QED
        BY <4>1, <4>2
    <3>2. t4'[d].total <= t7[d]
      BY <1>7, <2>2
    <3>. QED
      BY <1>7, <2>1, <3>1, <3>2
  <2>4. \A q \in Slots : step'[q] = "total" => task'[q].time <= t7[task'[q].day]
    BY <1>6, <2>1
  <2>5. ASSUME serial, ~t9
        PROVE  /\ \A e \in Reward!Days : t4'[e].total = t7[e]
               /\ \A q \in Slots : step'[q] # "total"
    <3>1. sum = t7[d]
      BY <1>1, <1>2, <2>1, <2>5
    <3>2. \A e \in Reward!Days : e # d => t4[e].total = t7[e]
      BY <1>1, <1>11, <2>1, <2>5
    <3>. QED
      BY <1>6, <1>7, <1>11, <2>5, <3>1, <3>2
  <2>. QED
    BY <1>2, <2>3, <2>4, <2>5 DEF Reward!DaysRecorded, Reward!Days
<1>13. Reward!FlagDerived'
  <2>1. /\ t5 => Reward!Earned
        /\ \A q \in Slots : step[q] = "waiver" /\ task[q].reward => Reward!Earned
    BY <1>3 DEF Reward!FlagDerived
  <2>2. Reward!Earned => Reward!Earned'
    BY <1>2 DEF Reward!Earned
  <2>3. \A q \in Slots : step'[q] = "waiver" /\ task'[q].reward => Reward!Earned'
    BY <1>6, <2>1, <2>2
  <2>4. (\E q \in Slots : step'[q] \in {"count", "waiver"})
        /\ (serial => \A q \in Slots : step'[q] # "waiver")
    BY <1>6, <1>11
  <2>. QED
    BY <1>2, <2>1, <2>2, <2>3, <2>4 DEF Reward!FlagDerived
<1>14. RowsPast'
  BY <1>2, <1>3, RowsStill
<1>. QED
  BY <1>2, <1>5, <1>8, <1>9, <1>10, <1>12, <1>13, <1>14, StopMoves

\* The days that qualify were streamed, and are counted in the window they lie in.
LEMMA ActiveIsEarned ==
    ASSUME RewardTyped, RowsPast, Reward!DaysRecorded, Reward!RewardActive
    PROVE  Reward!Earned
<1>. DEFINE S == {d \in Reward!Days : /\ t4[d].qualified
                                      /\ d * DayUnits + WindowDays * DayUnits >= t1}
            T == InWindow(t1)
<1>1. RequiredDays <= Cardinality(S)
  <2>1. Reward!QualifiedDays = Cardinality(S)
    BY RewardCardinality DEF Reward!QualifiedDays
  <2>2. S \subseteq Reward!Days
    OBVIOUS
  <2>. HIDE DEF S
  <2>3. Cardinality(S) \in Nat /\ RequiredDays \in Nat
    BY <2>2, RewardDays, RewardFacts, FS_Subset, FS_CardinalityType
  <2>. QED
    BY <2>1, <2>3 DEF Reward!RewardActive
<1>2. S \subseteq T /\ T \subseteq Reward!Days
  <2>1. ASSUME NEW d \in Reward!Days, t4[d].qualified,
               d * DayUnits + WindowDays * DayUnits >= t1
        PROVE  d \in T
    <3>1. t7[d] >= QualifiedTime
      BY <2>1 DEF Reward!DaysRecorded
    <3>2. t7[d] > 0
      BY <3>1, RewardFacts DEF RewardTyped
    <3>3. d * DayUnits <= t1 + DayOffset
      BY <3>2 DEF RowsPast
    <3>4. (d + WindowDays) * DayUnits = d * DayUnits + WindowDays * DayUnits
      <4>1. d \in Nat /\ WindowDays \in Nat /\ DayUnits \in Nat
        BY RewardDays, RewardFacts
      <4>. QED
        BY <4>1
    <3>. QED
      BY <2>1, <3>1, <3>3, <3>4 DEF InWindow
  <2>. QED
    BY <2>1 DEF InWindow
<1>. HIDE DEF S, T
<1>3. IsFiniteSet(T) /\ IsFiniteSet(S) /\ Cardinality(S) <= Cardinality(T)
  BY <1>2, RewardDays, FS_Subset
<1>4. RequiredDays <= Cardinality(T)
  <2>1. Cardinality(S) \in Nat /\ Cardinality(T) \in Nat /\ RequiredDays \in Nat
    BY <1>3, FS_CardinalityType, RewardFacts
  <2>. QED
    BY <1>1, <1>3, <2>1
<1>5. t1 \in 0 .. t1
  BY DEF RewardTyped
<1>. QED
  BY <1>4, <1>5, EarnedIs DEF T

\* The days are counted for the flag.
LEMMA RewardCounts ==
    ASSUME Reward!RewardInv, NEW r \in Slots, Reward!CountDays(r)
    PROVE  Reward!RewardInv'
<1>1. PICK active : active = Reward!RewardActive
  OBVIOUS
<1>2. PICK has : has = [task[r] EXCEPT !.reward = active]
  OBVIOUS
<1>3. /\ UNCHANGED <<serial, t1, t2, t3, t4, t5, t6, t7, t9>> /\ step[r] = "count"
      /\ step' = [step EXCEPT ![r] = "waiver"] /\ task' = [task EXCEPT ![r] = has]
      /\ t8' = t1
  BY <1>1, <1>2 DEF Reward!CountDays, Reward!Keep, Reward!stored
<1>4. /\ RewardTyped /\ RowsPast /\ Reward!OneSession /\ Reward!SessionsPassed /\ Reward!Alone
      /\ Reward!DaysRecorded /\ Reward!FlagDerived /\ StopsTyped
  BY RewardInvIs
<1>5. active \in BOOLEAN
  BY <1>1 DEF Reward!RewardActive
<1>6. task[r] \in Reward!Job /\ task[r].since <= t1
  BY <1>3, <1>4 DEF StopsTyped, StopTyped
<1>7. has \in Reward!Job /\ has.since <= t1 /\ has.reward = active
  BY <1>2, <1>5, <1>6 DEF Reward!Job
<1>8. Turns(r, "waiver", has) /\ StopTyped("waiver", has)
  <2>1. StopTyped("waiver", has)
    BY <1>7 DEF StopTyped
  <2>. QED
    BY <1>3, <1>4, <2>1, StopPlaces, StopTurns
<1>9. /\ step'[r] = "waiver" /\ task'[r] = has
      /\ \A q \in Slots : q # r => step'[q] = step[q] /\ task'[q] = task[q]
  BY <1>8 DEF Turns
<1>10. RewardTyped'
  <2>1. step' \in [Slots -> Reward!Steps] /\ DOMAIN task' = Slots
    BY <1>8 DEF Turns
  <2>2. t8' \in 0 .. LastUnit + 1
    BY <1>3, <1>4, RewardFacts DEF RewardTyped
  <2>. QED
    BY <1>3, <1>4, <2>1, <2>2 DEF RewardTyped
<1>11. RowsPast'
  <2>1. t1 <= t1
    BY <1>4 DEF RewardTyped
  <2>. QED
    BY <1>3, <1>4, <2>1 DEF RowsPast, Reward!Never, Reward!Days
<1>12. Reward!OneSession'
  BY <1>3, <1>4, <1>8, OneSessionTurns
<1>13. Reward!SessionsPassed'
  <2>1. Reward!StoppedOnce' => Reward!StoppedOnce
    BY <1>3 DEF Reward!StoppedOnce
  <2>. QED
    BY <1>3, <1>4, <1>8, <1>10, <2>1, SessionsTurn
<1>14. Reward!DaysRecorded'
  BY <1>3, <1>4, <1>8, DaysTurn
<1>15. Reward!FlagDerived'
  <2>1. /\ t5 => Reward!Earned
        /\ \A q \in Slots : step[q] = "waiver" /\ task[q].reward => Reward!Earned
    BY <1>4 DEF Reward!FlagDerived
  <2>2. Reward!Earned => Reward!Earned'
    BY <1>3 DEF Reward!Earned
  <2>3. active => Reward!Earned
    BY <1>1, <1>4, ActiveIsEarned
  <2>4. \A q \in Slots : step'[q] = "waiver" /\ task'[q].reward => Reward!Earned'
    BY <1>7, <1>9, <2>1, <2>2, <2>3
  <2>5. Reward!RewardActive' = active
    BY <1>1, <1>3 DEF Reward!RewardActive, Reward!QualifiedDays, Reward!Days
  <2>6. serial => \A q \in Slots : q # r => step'[q] = "idle"
    <3>1. step[r] # "idle" /\ UNCHANGED serial
      BY <1>3
    <3>. QED
      BY <1>4, <1>8, <3>1, AloneTurns
  <2>7. (\E q \in Slots : step'[q] \in {"count", "waiver"})
        /\ (serial => \A q \in Slots :
               step'[q] = "waiver" => task'[q].reward = Reward!RewardActive')
    BY <1>7, <1>9, <2>5, <2>6
  <2>. QED
    BY <1>3, <2>1, <2>2, <2>4, <2>7 DEF Reward!FlagDerived
<1>. QED
  BY <1>3, <1>8, <1>10, <1>11, <1>12, <1>13, <1>14, <1>15, StopMoves

\* The flag of the seller is written.
LEMMA RewardWaives ==
    ASSUME Reward!RewardInv, NEW r \in Slots, Reward!WriteWaiver(r)
    PROVE  Reward!RewardInv'
<1>1. /\ UNCHANGED <<serial, t1, t2, t3, t4, t6, t7, t8, t9>> /\ step[r] = "waiver"
      /\ t5' = task[r].reward /\ Reward!Close(r)
  BY DEF Reward!WriteWaiver, Reward!ghosts
<1>2. /\ RewardTyped /\ RowsPast /\ Reward!OneSession /\ Reward!SessionsPassed
      /\ Reward!DaysRecorded /\ Reward!FlagDerived /\ StopsTyped
  BY RewardInvIs
<1>3. Turns(r, "idle", Reward!Free) /\ StopTyped("idle", Reward!Free)
  BY <1>1, <1>2, RewardCloses
<1>4. /\ step'[r] = "idle"
      /\ \A q \in Slots : q # r => step'[q] = step[q] /\ task'[q] = task[q]
  BY <1>3 DEF Turns
<1>5. RewardTyped'
  <2>1. step' \in [Slots -> Reward!Steps] /\ DOMAIN task' = Slots
    BY <1>3 DEF Turns
  <2>2. t5' \in BOOLEAN
    BY <1>1, <1>2 DEF StopsTyped, StopTyped, Reward!Job
  <2>. QED
    BY <1>1, <1>2, <2>1, <2>2 DEF RewardTyped
<1>6. RowsPast'
  BY <1>1, <1>2, RowsStill
<1>7. Reward!OneSession'
  BY <1>1, <1>2, <1>3, OneSessionTurns
<1>8. Reward!SessionsPassed'
  <2>1. Reward!StoppedOnce' => Reward!StoppedOnce
    BY <1>1 DEF Reward!StoppedOnce
  <2>. QED
    BY <1>1, <1>2, <1>3, <1>5, <2>1, SessionsTurn
<1>9. Reward!DaysRecorded'
  BY <1>1, <1>2, <1>3, DaysTurn
<1>10. Reward!FlagDerived'
  <2>1. /\ \A q \in Slots : step[q] = "waiver" /\ task[q].reward => Reward!Earned
        /\ serial /\ ~t9 /\ t8 = t1 => \A q \in Slots :
              step[q] = "waiver" => task[q].reward = Reward!RewardActive
    BY <1>2 DEF Reward!FlagDerived
  <2>2. Reward!Earned => Reward!Earned'
    BY <1>1 DEF Reward!Earned
  <2>3. Reward!RewardActive' = Reward!RewardActive
    BY <1>1 DEF Reward!RewardActive, Reward!QualifiedDays, Reward!Days
  <2>4. \A q \in Slots : step'[q] = "waiver" => step[q] = "waiver" /\ task'[q] = task[q]
    BY <1>4
  <2>5. t5' => Reward!Earned'
    BY <1>1, <2>1, <2>2
  <2>6. \A q \in Slots : step'[q] = "waiver" /\ task'[q].reward => Reward!Earned'
    BY <2>1, <2>2, <2>4
  <2>7. serial /\ ~t9 /\ t8 = t1 =>
           /\ t5' = Reward!RewardActive
           /\ \A q \in Slots : step'[q] = "waiver" => task'[q].reward = Reward!RewardActive
    BY <1>1, <2>1, <2>4
  <2>. QED
    BY <1>1, <2>3, <2>5, <2>6, <2>7 DEF Reward!FlagDerived
<1>. QED
  BY <1>1, <1>3, <1>5, <1>6, <1>7, <1>8, <1>9, <1>10, StopMoves

\* Time passes, a stream starts, or nothing does.
LEMMA RewardTicks ==
    ASSUME Reward!RewardInv, Reward!Tick
    PROVE  Reward!RewardInv'
<1>1. /\ UNCHANGED <<serial, t2, t3, t4, t5, t6, t7, t8, t9, step, task>>
      /\ t1 < LastUnit /\ t1' = t1 + 1
  BY DEF Reward!Tick, Reward!stored, Reward!ghosts, Reward!slot
<1>2. /\ RewardTyped /\ StopsTyped /\ RowsPast /\ Reward!Alone /\ Reward!OneSession
      /\ Reward!SessionsPassed /\ Reward!DaysRecorded /\ Reward!FlagDerived
  BY RewardInvIs
<1>3. t1 \in Nat /\ LastUnit \in Nat /\ t1 + 1 \in 0 .. LastUnit
  BY <1>1, <1>2, RewardFacts DEF RewardTyped
<1>4. RewardTyped'
  BY <1>1, <1>2, <1>3 DEF RewardTyped, Reward!Days
<1>5. StopsTyped'
  <2>1. ASSUME NEW r \in Slots
        PROVE  StopTyped(step[r], task[r])'
    <3>1. StopTyped(step[r], task[r])
      BY <1>2 DEF StopsTyped
    <3>2. step[r] # "idle" => task[r].since <= t1 + 1
      <4>1. step[r] # "idle" => task[r].since \in Nat
        BY <3>1, RewardFacts DEF StopTyped, Reward!Job
      <4>. QED
        BY <1>3, <3>1, <4>1 DEF StopTyped
    <3>. QED
      BY <1>1, <3>1, <3>2 DEF StopTyped, Reward!Free, Reward!Job, Reward!Days
  <2>. QED
    BY <2>1 DEF StopsTyped
<1>6. RowsPast'
  <2>1. \A s \in Pair : t2[s] # Reward!Never => t2[s] <= t1 + 1
    <3>1. \A s \in Pair : t2[s] \in Nat
      BY <1>2, <1>3 DEF RewardTyped
    <3>. QED
      BY <1>2, <1>3, <3>1 DEF RowsPast
  <2>2. t8 # Reward!Never => t8 <= t1 + 1
    <3>1. t8 \in Nat
      BY <1>2, <1>3 DEF RewardTyped
    <3>. QED
      BY <1>2, <1>3, <3>1 DEF RowsPast
  <2>3. ASSUME NEW d \in Reward!Days, t7[d] > 0
        PROVE  d * DayUnits <= (t1 + 1) + DayOffset
    <3>. DEFINE from == d * DayUnits
    <3>1. from \in Nat
      BY RewardDays, RewardFacts
    <3>2. from <= t1 + DayOffset
      BY <1>2, <2>3 DEF RowsPast
    <3>. HIDE DEF from
    <3>3. from <= (t1 + 1) + DayOffset
      BY <1>3, <3>1, <3>2, RewardFacts
    <3>. QED
      BY <3>3 DEF from
  <2>. QED
    BY <1>1, <2>1, <2>2, <2>3 DEF RowsPast, Reward!Never, Reward!Days
<1>7. Reward!Alone' /\ Reward!OneSession'
  BY <1>1, <1>2 DEF Reward!Alone, Reward!OneSession, Reward!Never
<1>8. Reward!SessionsPassed'
  <2>1. \A s : Reward!Passed(s)' = Reward!Passed(s)
    BY <1>1 DEF Reward!Passed, Reward!Never
  <2>2. Reward!StoppedOnce' => Reward!StoppedOnce
    BY <1>1 DEF Reward!StoppedOnce
  <2>. QED
    BY <1>1, <1>2, <1>4, <2>1, <2>2, SessionsStay
<1>9. Reward!DaysRecorded'
  BY <1>1, <1>2 DEF Reward!DaysRecorded, Reward!Days
<1>10. Reward!FlagDerived'
  <2>1. /\ t5 => Reward!Earned
        /\ \A r \in Slots : step[r] = "waiver" /\ task[r].reward => Reward!Earned
    BY <1>2 DEF Reward!FlagDerived
  <2>2. Reward!Earned => Reward!Earned'
    <3>1. \A d \in Reward!Days : t7[d] <= t7'[d]
      BY <1>1, <1>2 DEF RewardTyped
    <3>2. t1 <= t1'
      BY <1>1, <1>3
    <3>. QED
      BY <1>2, <1>4, <3>1, <3>2, EarnedStays
  <2>3. t8 # t1 + 1
    <3>1. CASE t8 = Reward!Never
      BY <1>3, <3>1 DEF Reward!Never
    <3>2. CASE t8 # Reward!Never
      <4>1. t8 <= t1 /\ t8 \in Nat
        BY <1>2, <1>3, <3>2 DEF RowsPast, RewardTyped
      <4>. QED
        BY <1>3, <4>1
    <3>. QED
      BY <3>1, <3>2
  <2>. QED
    BY <1>1, <2>1, <2>2, <2>3 DEF Reward!FlagDerived
<1>. QED
  BY <1>4, <1>5, <1>6, <1>7, <1>8, <1>9, <1>10, RewardInvIs, PTL

LEMMA RewardStill ==
    ASSUME Reward!RewardInv, UNCHANGED <<serial, t1, t3, t4, t5, t6, t7, t8, t9, step, task>>,
           t2' \in [Pair -> 0 .. LastUnit + 1],
           \A s \in Pair : t2'[s] # Reward!Never => t2'[s] <= t1
    PROVE  Reward!RewardInv'
<1>1. /\ RewardTyped /\ StopsTyped /\ RowsPast /\ Reward!Alone /\ Reward!OneSession
      /\ Reward!SessionsPassed /\ Reward!DaysRecorded /\ Reward!FlagDerived
  BY RewardInvIs
<1>2. RewardTyped'
  BY <1>1 DEF RewardTyped, Reward!Days
<1>3. StopsTyped' /\ RowsPast'
  BY <1>1 DEF StopsTyped, StopTyped, RowsPast, Reward!Never, Reward!Days
<1>4. Reward!Alone' /\ Reward!OneSession'
  BY <1>1 DEF Reward!Alone, Reward!OneSession, Reward!Never
<1>5. Reward!SessionsPassed'
  <2>1. \A s : Reward!Passed(s)' = Reward!Passed(s)
    BY DEF Reward!Passed, Reward!Never
  <2>2. Reward!StoppedOnce' => Reward!StoppedOnce
    BY DEF Reward!StoppedOnce
  <2>. QED
    BY <1>1, <1>2, <2>1, <2>2, SessionsStay
<1>6. Reward!DaysRecorded'
  BY <1>1 DEF Reward!DaysRecorded, Reward!Days
<1>7. Reward!FlagDerived'
  <2>1. Reward!RewardActive' = Reward!RewardActive
    BY DEF Reward!RewardActive, Reward!QualifiedDays, Reward!Days
  <2>2. Reward!Earned' = Reward!Earned
    BY DEF Reward!Earned, Reward!Days
  <2>. QED
    BY <1>1, <2>1, <2>2 DEF Reward!FlagDerived
<1>. QED
  BY <1>2, <1>3, <1>4, <1>5, <1>6, <1>7, RewardInvIs, PTL

LEMMA RewardGoes ==
    ASSUME Reward!RewardInv, NEW s \in Pair, Reward!GoLive(s)
    PROVE  Reward!RewardInv'
<1>1. /\ UNCHANGED <<serial, t1, t3, t4, t5, t6, t7, t8, t9, step, task>>
      /\ t2' = [t2 EXCEPT ![s] = t1]
  BY DEF Reward!GoLive, Reward!ghosts, Reward!slot
<1>2. RewardTyped /\ RowsPast
  BY RewardInvIs
<1>3. t1 \in 0 .. LastUnit + 1 /\ t1 <= t1
  BY <1>2, RewardFacts DEF RewardTyped
<1>4. t2' \in [Pair -> 0 .. LastUnit + 1]
  BY <1>1, <1>2, <1>3 DEF RewardTyped
<1>5. \A u \in Pair : t2'[u] # Reward!Never => t2'[u] <= t1
  BY <1>1, <1>2, <1>3 DEF RowsPast, RewardTyped
<1>. QED
  BY <1>1, <1>4, <1>5, RewardStill

LEMMA RewardKept ==
    ASSUME Reward!RewardInv, [Reward!Next]_Reward!vars
    PROVE  Reward!RewardInv'
<1>1. CASE Reward!Tick
  BY <1>1, RewardTicks
<1>2. CASE \E s \in Pair : Reward!GoLive(s)
  BY <1>2, RewardGoes
<1>3. CASE \E r \in Slots, s \in Pair : Reward!StopStream(r, s)
  BY <1>3, RewardOpen
<1>4. CASE \E r \in Slots : \/ Reward!WriteStop(r) \/ Reward!SaveSession(r)
                            \/ Reward!ReadDay(r) \/ Reward!WriteDay(r)
  BY <1>4, RewardWrites, RewardSaves, RewardReads, RewardWritesDay
<1>5. CASE \E r \in Slots : \/ Reward!CountDays(r) \/ Reward!WriteWaiver(r)
                            \/ Reward!Fail(r)
  BY <1>5, RewardCounts, RewardWaives, RewardFails
<1>6. CASE UNCHANGED Reward!vars
  <2>1. UNCHANGED <<serial, t1, t2, t3, t4, t5, t6, t7, t8, t9, step, task>>
    BY <1>6 DEF Reward!vars, Reward!stored, Reward!ghosts, Reward!slot
  <2>2. RewardTyped /\ RowsPast
    BY RewardInvIs
  <2>3. /\ t2' \in [Pair -> 0 .. LastUnit + 1]
        /\ \A s \in Pair : t2'[s] # Reward!Never => t2'[s] <= t1
    BY <2>1, <2>2 DEF RewardTyped, RowsPast
  <2>. QED
    BY <2>1, <2>3, RewardStill
<1>. QED
  BY <1>1, <1>2, <1>3, <1>4, <1>5, <1>6 DEF Reward!Next

LEMMA SumOfNothing ==
    ASSUME NEW S, IsFiniteSet(S), NEW f, \A x \in S : f[x] = 0
    PROVE  SumOf(f, S) = 0
<1>1. \A x \in S : f[x] \in Int /\ f[x] = (IF x \in {} THEN f[x] ELSE 0)
  OBVIOUS
<1>2. SumOf(f, S) = SumOf(f, {})
  BY <1>1, SumOfPart
<1>3. SumOf(f, {}) = 0
  BY <1>1, SumPartsOf
<1>. QED
  BY <1>2, <1>3

LEMMA RewardInit ==
    ASSUME Reward!Init
    PROVE  Reward!RewardInv
<1>1. /\ serial \in BOOLEAN /\ t1 = 0 /\ t2 = [s \in Pair |-> Reward!Never]
      /\ t3 = [s \in Pair |-> Reward!Never] /\ t4 = [d \in Reward!Days |-> Reward!NoDay]
      /\ t5 = FALSE /\ t6 = [s \in Pair |-> 0] /\ t7 = [d \in Reward!Days |-> 0]
      /\ t8 = Reward!Never /\ t9 = FALSE
      /\ step = [r \in Slots |-> "idle"] /\ task = [r \in Slots |-> Reward!Free]
  BY DEF Reward!Init
<1>2. 0 \in 0 .. LastUnit /\ Reward!Never \in 0 .. LastUnit + 1 /\ Reward!Never # 0
  BY RewardFacts DEF Reward!Never
<1>3. RewardTyped
  <2>1. t4 \in [Reward!Days -> [total : Nat, qualified : BOOLEAN]]
    BY <1>1 DEF Reward!NoDay
  <2>2. step \in [Slots -> Reward!Steps] /\ DOMAIN task = Slots
    BY <1>1, StopPlaces
  <2>. QED
    BY <1>1, <1>2, <2>1, <2>2 DEF RewardTyped
<1>4. StopsTyped /\ RowsPast /\ Reward!Alone
  BY <1>1 DEF StopsTyped, StopTyped, RowsPast, Reward!Alone
<1>5. Reward!OneSession
  BY <1>1 DEF Reward!OneSession
<1>6. Reward!SessionsPassed
  <2>1. \A s \in Pair : PassedAll[s] = 0
    BY <1>1 DEF PassedAll, Reward!Passed
  <2>2. \A d \in Reward!Days : t7[d] = 0
    BY <1>1
  <2>3. IsFiniteSet(Pair) /\ IsFiniteSet(Reward!Days)
    BY RewardFacts, RewardDays
  <2>4. SumOf(PassedAll, Pair) = 0
    BY <2>1, <2>3, SumOfNothing
  <2>5. SumOf(t7, Reward!Days) = 0
    BY <2>2, <2>3, SumOfNothing
  <2>. QED
    BY <1>3, <2>4, <2>5, SessionsAre DEF SessionsEven, PassedIs
<1>7. Reward!DaysRecorded
  BY <1>1 DEF Reward!DaysRecorded, Reward!NoDay
<1>8. Reward!FlagDerived
  BY <1>1, <1>2 DEF Reward!FlagDerived
<1>. QED
  BY <1>3, <1>4, <1>5, <1>6, <1>7, <1>8, RewardInvIs

LEMMA DaysWithin ==
    ASSUME Reward!RewardInv, Reward!StoppedOnce
    PROVE  /\ Reward!DaysTotal <= Reward!SessionsTotal
           /\ serial /\ ~t9 /\ Reward!Quiet => Reward!DaysTotal = Reward!SessionsTotal
<1>. DEFINE total == [d \in Reward!Days |-> t4[d].total]
            kept == [s \in Pair |-> IF t3[s] = Reward!Never THEN 0 ELSE t3[s]]
            passed == PassedAll
            saved == {s \in Pair : t3[s] # Reward!Never}
<1>1. RewardTyped /\ Reward!DaysRecorded /\ Reward!SessionsPassed
  BY RewardInvIs
<1>2. IsFiniteSet(Pair) /\ IsFiniteSet(Reward!Days)
  BY RewardFacts, RewardDays
<1>3. Reward!DaysTotal = SumOf(total, Reward!Days)
  BY RewardSum DEF Reward!DaysTotal
<1>4. \A s \in Pair : t3[s] \in Nat
  BY <1>1, RewardFacts DEF RewardTyped
<1>5. Reward!SessionsTotal = SumOf(kept, Pair)
  <2>1. Reward!SessionsTotal = SumOf(t3, saved)
    BY RewardSum DEF Reward!SessionsTotal
  <2>2. \A s \in Pair : t3[s] \in Int /\ kept[s] = IF s \in saved THEN t3[s] ELSE 0
    BY <1>4
  <2>3. saved \in SUBSET Pair
    OBVIOUS
  <2>. HIDE DEF kept, saved
  <2>4. SumOf(kept, Pair) = SumOf(t3, saved)
    BY <1>2, <2>2, <2>3, SumOfPart
  <2>. QED
    BY <2>1, <2>4
<1>6. /\ \A s \in Pair : Reward!Passed(s) \in Nat /\ passed[s] = Reward!Passed(s)
      /\ SumOf(passed, Pair) \in Nat /\ SumOf(t7, Reward!Days) \in Nat
  BY <1>1, PassedTypes
<1>7. PassedIs(SumOf(t7, Reward!Days), SumOf(passed, Pair), t9)
  BY <1>1, SessionsAre DEF SessionsEven
<1>8. \A d \in Reward!Days : /\ total[d] \in Nat /\ t7[d] \in Nat /\ total[d] <= t7[d]
                             /\ total[d] = t4[d].total
  BY <1>1 DEF RewardTyped, Reward!DaysRecorded
<1>9. \A s \in Pair : /\ passed[s] \in Nat /\ kept[s] \in Nat /\ passed[s] <= kept[s]
                      /\ Reward!Quiet => passed[s] = kept[s]
  <2>1. ASSUME NEW s \in Pair
        PROVE  /\ passed[s] \in Nat /\ kept[s] \in Nat /\ passed[s] <= kept[s]
               /\ Reward!Quiet => passed[s] = kept[s]
    <3>1. passed[s] = IF t3[s] = Reward!Never \/ Adding(s) THEN 0 ELSE t3[s]
      BY <1>6, PassedAre
    <3>2. kept[s] = IF t3[s] = Reward!Never THEN 0 ELSE t3[s]
      OBVIOUS
    <3>3. Reward!Quiet => ~ Adding(s)
      BY DEF Reward!Quiet, Adding
    <3>. HIDE DEF passed, kept
    <3>. QED
      BY <1>4, <3>1, <3>2, <3>3
  <2>. QED
    BY <2>1
<1>. HIDE DEF total, kept, passed
<1>10. /\ SumOf(total, Reward!Days) <= SumOf(t7, Reward!Days)
       /\ SumOf(passed, Pair) <= SumOf(kept, Pair)
  <2>1. /\ \A d \in Reward!Days : total[d] \in Int /\ t7[d] \in Int /\ total[d] <= t7[d]
        /\ \A s \in Pair : passed[s] \in Int /\ kept[s] \in Int /\ passed[s] <= kept[s]
    BY <1>8, <1>9
  <2>. QED
    BY <1>2, <2>1, SumGrows
<1>11. SumOf(total, Reward!Days) \in Nat /\ SumOf(kept, Pair) \in Nat
  BY <1>2, <1>8, <1>9, SumOfNumbers
<1>12. SumOf(total, Reward!Days) <= SumOf(kept, Pair)
  BY <1>6, <1>7, <1>10, <1>11 DEF PassedIs
<1>13. ASSUME serial, ~t9, Reward!Quiet
       PROVE  SumOf(total, Reward!Days) = SumOf(kept, Pair)
  <2>1. \A d \in Reward!Days : total[d] \in Int /\ t7[d] = total[d]
    <3>1. \A r \in Slots : step[r] # "total"
      BY <1>13 DEF Reward!Quiet
    <3>2. \A d \in Reward!Days : t4[d].total = t7[d]
      BY <1>1, <1>13, <3>1 DEF Reward!DaysRecorded
    <3>. QED
      BY <1>8, <3>2
  <2>2. SumOf(total, Reward!Days) = SumOf(t7, Reward!Days)
    BY <1>2, <2>1, SumSame
  <2>3. \A s \in Pair : passed[s] \in Int /\ kept[s] = passed[s]
    BY <1>9, <1>13
  <2>4. SumOf(passed, Pair) = SumOf(kept, Pair)
    BY <1>2, <2>3, SumSame
  <2>. QED
    BY <1>7, <1>13, <2>2, <2>4 DEF PassedIs
<1>. QED
  BY <1>3, <1>5, <1>12, <1>13

LEMMA RewardSays ==
    ASSUME Reward!RewardInv
    PROVE  Reward!TypeOK /\ Reward!TimeIsStreamed /\ Reward!WaiverEarned /\ Reward!FlagFresh
<1>1. Reward!TypeOK /\ Reward!FlagDerived
  BY DEF Reward!RewardInv
<1>2. Reward!TimeIsStreamed
  BY DaysWithin DEF Reward!TimeIsStreamed
<1>3. Reward!WaiverEarned
  BY <1>1 DEF Reward!FlagDerived, Reward!WaiverEarned
<1>4. Reward!FlagFresh
  BY <1>1 DEF Reward!FlagDerived, Reward!FlagFresh, Reward!Quiet
<1>. QED
  BY <1>1, <1>2, <1>3, <1>4

\* Scores follow from the requests, overrides and ratings that were made, the days hold the
\* time that was streamed, and commission is waived only for days that were earned, whatever
\* requests overlap or fail (ratings.service.ts:128-230, 269-320, streams.service.ts:783-793).
THEOREM ScoresAreEarned == PartSpec => []ScoresEarned
<1>. DEFINE IInv == /\ part = "ratings" => Rating!RatingsInv
                    /\ part = "reward" => Reward!RewardInv
<1>1. PartInit => IInv
  BY RatingsStart, RatingsInit, RewardStart, RewardInit
<1>2. IInv /\ [PartNext]_<<vars, store>> => IInv'
  <2>. SUFFICES ASSUME IInv, [PartNext]_<<vars, store>>
                PROVE  /\ part' = "ratings" => Rating!RatingsInv'
                       /\ part' = "reward" => Reward!RewardInv'
    OBVIOUS
  <2>1. part' = part
    BY DEF PartNext, store
  <2>2. CASE part = "ratings"
    <3>1. [Rating!Next]_Rating!vars
      BY <2>2, RatingsStep
    <3>. QED
      BY <2>1, <2>2, <3>1, RatingsKept
  <2>3. CASE part = "reward"
    <3>1. [Reward!Next]_Reward!vars
      BY <2>3, RewardStep
    <3>. QED
      BY <2>1, <2>3, <3>1, RewardKept
  <2>. QED
    BY <2>1, <2>2, <2>3
<1>3. IInv => ScoresEarned
  BY RatingsSay, RewardSays DEF ScoresEarned
<1>. HIDE DEF IInv
<1>. QED
  BY <1>1, <1>2, <1>3, PTL DEF PartSpec
=============================================================================
