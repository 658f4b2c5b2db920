---------------------------- MODULE ReadingsProofs ----------------------------
(***************************************************************************)
(* What holds of the pure parts of the backend for any bars, markets,       *)
(* weights, plans and results.  Most of what they compute is computed by a  *)
(* loop, so most of the proofs are by induction along a chart or a list:    *)
(* the library's induction theorems take an operator, which is stated here  *)
(* as membership of a set instead (NatSet, Through, SubsetInduction), and a *)
(* recursive function is the one that Iterates or Unfolding finds.          *)
(***************************************************************************)
EXTENDS Readings, FiniteSetTheorems, SequenceTheorems, WellFoundedInduction, TLAPS

-----------------------------------------------------------------------------
(* Induction over sets of numbers, extremes and ranks.                      *)

(* Induction, over a set of numbers. *)
LEMMA NatSet ==
    ASSUME NEW S \in SUBSET Nat, 0 \in S, \A n \in S : n + 1 \in S
    PROVE  \A n \in Nat : n \in S
  <1> DEFINE less == OpToRel(<, Nat)
             rest == Nat \ S
  <1>1. SUFFICES ASSUME rest # {} PROVE FALSE
    OBVIOUS
  <1>2. \E x \in rest : \A y \in rest : <<y, x>> \notin less
    <2>1. IsWellFoundedOn(less, Nat)
      BY NatLessThanWellFounded
    <2>2. rest \in SUBSET Nat
      OBVIOUS
    <2> HIDE DEF less, rest
    <2> QED
      BY <1>1, <2>1, <2>2, WFMin
  <1>3. PICK x \in rest : \A y \in rest : <<y, x>> \notin less
    BY <1>2
  <1>4. x # 0 /\ x \in Nat
    BY <1>3
  <1>5. x - 1 \in S
    <2>1. x - 1 \in Nat /\ x - 1 < x
      BY <1>4
    <2>2. <<x - 1, x>> \in less
      BY <1>4, <2>1 DEF OpToRel
    <2> QED
      BY <1>3, <2>1, <2>2
  <1>6. (x - 1) + 1 \in S
    BY <1>5
  <1>7. (x - 1) + 1 = x
    BY <1>4
  <1> QED
    BY <1>3, <1>6, <1>7

(* A step repeated from a base. *)
Repeats(f, base, step) == f[0] = base /\ \A n \in Nat : f[n + 1] = step[<<f[n], n + 1>>]

(* A step can be repeated from any base. *)
LEMMA Iterates ==
    ASSUME NEW S, NEW base \in S, NEW step \in [S \X Nat -> S]
    PROVE  \E f \in [Nat -> S] : Repeats(f, base, step)
  <1> DEFINE Part(n, g) == /\ g \in [0..n -> S] /\ g[0] = base
                           /\ \A i \in 1..n : g[i] = step[<<g[i - 1], i>>]
             P == {n \in Nat : \E g \in [0..n -> S] : Part(n, g)}
             Q == {n \in Nat : \A m \in Nat : m >= n =>
                      \A g \in [0..n -> S], h \in [0..m -> S] : Part(n, g) /\ Part(m, h) => g[n] = h[n]}
  <1>1. \A n \in Nat : n \in P
    <2>1. 0 \in P
      <3>1. Part(0, [i \in 0..0 |-> base])
        OBVIOUS
      <3> QED
        BY <3>1
    <2>2. ASSUME NEW n \in P PROVE n + 1 \in P
      <3>1. PICK g \in [0..n -> S] : Part(n, g)
        OBVIOUS
      <3> DEFINE h == [i \in 0..(n + 1) |-> IF i <= n THEN g[i] ELSE step[<<g[n], n + 1>>]]
      <3>2. /\ h \in [0..(n + 1) -> S] /\ h[0] = base
        BY <3>1
      <3>3. ASSUME NEW i \in 1..(n + 1) PROVE h[i] = step[<<h[i - 1], i>>]
        <4>1. CASE i <= n
          BY <3>1, <4>1
        <4>2. CASE i = n + 1
          BY <3>1, <4>2
        <4> QED
          BY <4>1, <4>2
      <3>4. Part(n + 1, h)
        BY <3>2, <3>3
      <3>5. n + 1 \in Nat
        OBVIOUS
      <3> HIDE DEF Part, h
      <3> QED
        BY <3>2, <3>4, <3>5
    <2> HIDE DEF P
    <2>3. P \in SUBSET Nat
      BY DEF P
    <2> QED
      BY <2>1, <2>2, <2>3, NatSet
  <1>2. \A n \in Nat : n \in Q
    <2>1. 0 \in Q
      OBVIOUS
    <2>2. ASSUME NEW n \in Q PROVE n + 1 \in Q
      <3>1. SUFFICES ASSUME NEW m \in Nat, m >= n + 1,
                            NEW g \in [0..(n + 1) -> S], NEW h \in [0..m -> S],
                            Part(n + 1, g), Part(m, h)
                     PROVE  g[n + 1] = h[n + 1]
        OBVIOUS
      <3> DEFINE k == [i \in 0..n |-> g[i]]
      <3>2. k \in [0..n -> S] /\ Part(n, k) /\ m >= n
        BY <3>1
      <3>3. k[n] = h[n]
        BY <3>1, <3>2
      <3>4. g[n] = h[n]
        BY <3>3
      <3>5. g[n + 1] = step[<<g[(n + 1) - 1], n + 1>>] /\ h[n + 1] = step[<<h[(n + 1) - 1], n + 1>>]
        BY <3>1
      <3>6. (n + 1) - 1 = n
        OBVIOUS
      <3> QED
        BY <3>4, <3>5, <3>6
    <2> HIDE DEF Q
    <2>3. Q \in SUBSET Nat
      BY DEF Q
    <2> QED
      BY <2>1, <2>2, <2>3, NatSet
  <1> DEFINE part == [n \in Nat |-> CHOOSE g \in [0..n -> S] : Part(n, g)]
             f == [n \in Nat |-> part[n][n]]
  <1>3. ASSUME NEW n \in Nat PROVE part[n] \in [0..n -> S] /\ Part(n, part[n])
    <2>1. \E g \in [0..n -> S] : Part(n, g)
      BY <1>1
    <2> HIDE DEF Part
    <2> QED
      BY <2>1
  <1> HIDE DEF part
  <1>4. f \in [Nat -> S] /\ f[0] = base
    BY <1>3
  <1>5. ASSUME NEW n \in Nat PROVE f[n + 1] = step[<<f[n], n + 1>>]
    <2>1. part[n + 1][n + 1] = step[<<part[n + 1][(n + 1) - 1], n + 1>>]
      BY <1>3
    <2>2. part[n][n] = part[n + 1][n]
      <3>1. n + 1 \in Nat /\ n + 1 >= n
        OBVIOUS
      <3>3. n \in Q
        BY ONLY <1>2, n \in Nat
      <3>2. /\ part[n] \in [0..n -> S] /\ Part(n, part[n])
            /\ part[n + 1] \in [0..(n + 1) -> S] /\ Part(n + 1, part[n + 1])
        BY <1>3, <3>1
      <3> HIDE DEF Part
      <3> QED
        BY <3>1, <3>2, <3>3
    <2>3. (n + 1) - 1 = n /\ f[n + 1] = part[n + 1][n + 1] /\ f[n] = part[n][n]
      OBVIOUS
    <2> HIDE DEF f
    <2> QED
      BY <2>1, <2>2, <2>3
  <1>6. Repeats(f, base, step)
    BY <1>4, <1>5 DEF Repeats
  <1> HIDE DEF f
  <1> QED
    BY <1>4, <1>6

-----------------------------------------------------------------------------
(* A finite set of numbers has a greatest one. *)
LEMMA MaxOf ==
    ASSUME NEW S \in SUBSET Int, IsFiniteSet(S), S # {}
    PROVE  Max(S) \in S /\ \A y \in S : y <= Max(S)
  <1> DEFINE P == {n \in Nat : \A T \in SUBSET Int :
                      IsFiniteSet(T) /\ Cardinality(T) = n + 1 =>
                         \E x \in T : \A y \in T : y <= x}
  <1>1. 0 \in P
    <2>1. ASSUME NEW T \in SUBSET Int, IsFiniteSet(T), Cardinality(T) = 0 + 1
          PROVE  \E x \in T : \A y \in T : y <= x
      <3>1. T # {}
        BY <2>1, FS_EmptySet
      <3>2. PICK x \in T : TRUE
        BY <3>1
      <3>3. Cardinality(T \ {x}) = 0 /\ IsFiniteSet(T \ {x})
        BY <2>1, FS_RemoveElement
      <3>4. T \ {x} = {}
        BY <3>3, FS_EmptySet
      <3> QED
        BY <3>4
    <2> QED
      BY <2>1
  <1>2. ASSUME NEW n \in P PROVE n + 1 \in P
    <2>1. ASSUME NEW T \in SUBSET Int, IsFiniteSet(T), Cardinality(T) = n + 1 + 1
          PROVE  \E x \in T : \A y \in T : y <= x
      <3>1. n \in Nat
        OBVIOUS
      <3>2. T # {}
        BY <2>1, <3>1, FS_EmptySet
      <3>3. PICK e \in T : TRUE
        BY <3>2
      <3>4. Cardinality(T \ {e}) = n + 1 /\ IsFiniteSet(T \ {e})
        BY <2>1, <3>1, FS_RemoveElement
      <3>5. PICK x \in T \ {e} : \A y \in T \ {e} : y <= x
        BY <3>4
      <3>6. CASE e <= x
        BY <3>5, <3>6
      <3>7. CASE ~(e <= x)
        <4>1. \A y \in T : y <= e
          BY <3>5, <3>7
        <4> QED
          BY <4>1
      <3> QED
        BY <3>6, <3>7
    <2>2. n + 1 \in Nat
      OBVIOUS
    <2> QED
      BY <2>1, <2>2
  <1> HIDE DEF P
  <1>3. \A n \in Nat : n \in P
    BY <1>1, <1>2, NatSet DEF P
  <1>4. Cardinality(S) \in Nat /\ Cardinality(S) # 0
    BY FS_CardinalityType, FS_EmptySet
  <1>5. Cardinality(S) - 1 \in P /\ Cardinality(S) = (Cardinality(S) - 1) + 1
    BY <1>3, <1>4
  <1>6. \E x \in S : \A y \in S : y <= x
    BY <1>5 DEF P
  <1>7. \E x \in S : \A y \in S : x >= y
    BY <1>6
  <1>8. Max(S) \in S /\ \A y \in S : Max(S) >= y
    BY <1>7 DEF Max
  <1> QED
    BY <1>8

(* What lies below a number; it grows with the number, so a rank has one    *)
(* owner.                                                                   *)
Below(S, x) == {y \in S : y < x}

(* A finite set of numbers has an n-th smallest, and only one. *)
LEMMA NthIs ==
    ASSUME NEW S \in SUBSET Int, IsFiniteSet(S), NEW n \in 1..Cardinality(S)
    PROVE  Nth(S, n) \in S /\ Cardinality(Below(S, Nth(S, n))) = n - 1
  <1> DEFINE P == {c \in Nat : \A T \in SUBSET Int :
                      IsFiniteSet(T) /\ Cardinality(T) = c =>
                         \A k \in 1..c : \E x \in T : Cardinality(Below(T, x)) = k - 1}
  <1>1. 0 \in P
    OBVIOUS
  <1>2. ASSUME NEW c \in P PROVE c + 1 \in P
    <2>1. ASSUME NEW T \in SUBSET Int, IsFiniteSet(T), Cardinality(T) = c + 1,
                 NEW k \in 1..(c + 1)
          PROVE  \E x \in T : Cardinality(Below(T, x)) = k - 1
      <3>1. c \in Nat
        OBVIOUS
      <3>2. T # {}
        BY <2>1, <3>1, FS_EmptySet
      <3> DEFINE top == Max(T)
      <3>3. top \in T /\ \A y \in T : y <= top
        BY <2>1, <3>2, MaxOf
      <3> HIDE DEF top
      <3>4. Cardinality(T \ {top}) = c /\ IsFiniteSet(T \ {top})
        <4>1. Cardinality(T \ {top}) = Cardinality(T) - 1 /\ IsFiniteSet(T \ {top})
          BY <2>1, <3>3, FS_RemoveElement
        <4> QED
          BY <2>1, <3>1, <4>1
      <3>5. CASE k = c + 1
        <4>1. \A y \in T : y < top <=> y # top
          BY <3>3
        <4>2. Below(T, top) = T \ {top}
          BY <4>1, Zenon DEF Below
        <4>3. k - 1 = c
          BY <3>1, <3>5
        <4> QED
          BY <3>3, <3>4, <4>2, <4>3
      <3>6. CASE k # c + 1
        <4>1. k \in 1..c
          BY <3>1, <3>6
        <4>2. PICK x \in T \ {top} : Cardinality(Below(T \ {top}, x)) = k - 1
          BY <3>4, <4>1
        <4>3. Below(T, x) = Below(T \ {top}, x)
          <5>1. ~(top < x)
            BY <3>3, <4>2
          <5> QED
            BY <5>1, Zenon DEF Below
        <4> QED
          BY <4>2, <4>3
      <3> QED
        BY <3>5, <3>6
    <2>2. c + 1 \in Nat
      OBVIOUS
    <2> QED
      BY <2>1, <2>2
  <1> HIDE DEF P
  <1>3. \A c \in Nat : c \in P
    BY <1>1, <1>2, NatSet DEF P
  <1>4. Cardinality(S) \in P
    BY <1>3, FS_CardinalityType
  <1>5. \E x \in S : Cardinality(Below(S, x)) = n - 1
    BY <1>4 DEF P
  <1> QED
    BY <1>5 DEF Nth, Below

LEMMA BelowGrows ==
    ASSUME NEW S \in SUBSET Int, IsFiniteSet(S), NEW x \in S, NEW z \in S, x < z
    PROVE  /\ Cardinality(Below(S, x)) \in Nat /\ Cardinality(Below(S, z)) \in Nat
           /\ Cardinality(Below(S, x)) < Cardinality(Below(S, z))
  <1>1. /\ Below(S, x) \in SUBSET S /\ Below(S, z) \in SUBSET S
        /\ Below(S, x) \cup {x} \in SUBSET Below(S, z) /\ x \notin Below(S, x)
    <2>1. \A y \in S : y < x => y < z
      OBVIOUS
    <2>2. x \in Int /\ ~(x < x)
      OBVIOUS
    <2> QED
      BY <2>1, <2>2, Zenon DEF Below
  <1>2. IsFiniteSet(Below(S, x)) /\ IsFiniteSet(Below(S, z))
    BY <1>1, FS_Subset
  <1>3. Cardinality(Below(S, x)) \in Nat /\ Cardinality(Below(S, z)) \in Nat
    BY <1>2, FS_CardinalityType
  <1>4. Cardinality(Below(S, x) \cup {x}) = Cardinality(Below(S, x)) + 1
    BY <1>1, <1>2, FS_AddElement
  <1>5. Cardinality(Below(S, x) \cup {x}) <= Cardinality(Below(S, z))
    BY <1>1, <1>2, FS_Subset
  <1> QED
    BY <1>3, <1>4, <1>5

LEMMA NthOnly ==
    ASSUME NEW S \in SUBSET Int, IsFiniteSet(S), NEW n \in 1..Cardinality(S),
           NEW x \in S, Cardinality(Below(S, x)) = n - 1
    PROVE  Nth(S, n) = x
  <1>1. Nth(S, n) \in S /\ Cardinality(Below(S, Nth(S, n))) = n - 1
    BY NthIs
  <1>2. ~(x < Nth(S, n)) /\ ~(Nth(S, n) < x)
    <2> DEFINE z == Nth(S, n)
    <2>1. z \in S /\ Cardinality(Below(S, z)) = Cardinality(Below(S, x))
      BY <1>1
    <2> HIDE DEF z
    <2>2. ASSUME x < z PROVE FALSE
      BY <2>1, <2>2, BelowGrows
    <2>3. ASSUME z < x PROVE FALSE
      BY <2>1, <2>3, BelowGrows
    <2> QED
      BY <2>2, <2>3 DEF z
  <1>3. x \in Int /\ Nth(S, n) \in Int
    BY <1>1
  <1> QED
    BY <1>2, <1>3

(* A number beyond all of a set comes after them. *)
LEMMA NthOfMore ==
    ASSUME NEW S \in SUBSET Int, IsFiniteSet(S), NEW top \in Int, \A y \in S : y < top
    PROVE  /\ IsFiniteSet(S \cup {top})
           /\ Cardinality(S) \in Nat
           /\ Cardinality(S \cup {top}) = Cardinality(S) + 1
           /\ Nth(S \cup {top}, Cardinality(S) + 1) = top
           /\ \A n \in 1..Cardinality(S) :
                 Nth(S, n) \in S /\ Nth(S \cup {top}, n) = Nth(S, n)
  <1>1. top \notin S
    OBVIOUS
  <1>2. /\ IsFiniteSet(S \cup {top}) /\ Cardinality(S) \in Nat
        /\ Cardinality(S \cup {top}) = Cardinality(S) + 1
    BY <1>1, FS_AddElement, FS_CardinalityType
  <1>3. Nth(S \cup {top}, Cardinality(S) + 1) = top
    <2>1. Below(S \cup {top}, top) = S
      <3>1. ~(top < top)
        OBVIOUS
      <3> QED
        BY <3>1, Zenon DEF Below
    <2>2. /\ S \cup {top} \in SUBSET Int /\ top \in S \cup {top}
          /\ Cardinality(S) + 1 \in 1..Cardinality(S \cup {top})
          /\ Cardinality(Below(S \cup {top}, top)) = (Cardinality(S) + 1) - 1
      BY <1>2, <2>1
    <2> QED
      BY <1>2, <2>2, NthOnly
  <1>4. ASSUME NEW n \in 1..Cardinality(S)
        PROVE  Nth(S, n) \in S /\ Nth(S \cup {top}, n) = Nth(S, n)
    <2> DEFINE z == Nth(S, n)
    <2>1. z \in S /\ Cardinality(Below(S, z)) = n - 1
      BY NthIs
    <2> HIDE DEF z
    <2>2. Below(S \cup {top}, z) = Below(S, z)
      <3>1. z < top /\ ~(top < z)
        BY <2>1
      <3> QED
        BY <3>1, Zenon DEF Below
    <2>3. /\ S \cup {top} \in SUBSET Int /\ z \in S \cup {top}
          /\ n \in 1..Cardinality(S \cup {top})
      BY <1>2, <2>1
    <2>4. Nth(S \cup {top}, n) = z
      BY <1>2, <2>1, <2>2, <2>3, NthOnly
    <2> QED
      BY <2>1, <2>4 DEF z
  <1> QED
    BY <1>2, <1>3, <1>4

(* Induction, up to a number. *)
LEMMA Through ==
    ASSUME NEW n \in Nat, NEW P, 0 \in P, \A k \in 1..n : k - 1 \in P => k \in P
    PROVE  \A k \in 0..n : k \in P
  <1> DEFINE S == {k \in Nat : k <= n => k \in P}
  <1>1. 0 \in S
    OBVIOUS
  <1>2. ASSUME NEW k \in S PROVE k + 1 \in S
    <2>1. SUFFICES ASSUME k + 1 <= n PROVE k + 1 \in P
      OBVIOUS
    <2>2. k + 1 \in 1..n /\ (k + 1) - 1 = k /\ k \in P
      BY <2>1
    <2> QED
      BY <2>2
  <1> HIDE DEF S
  <1>3. S \in SUBSET Nat
    BY DEF S
  <1>4. \A k \in Nat : k \in S
    BY <1>1, <1>2, <1>3, NatSet
  <1> QED
    BY <1>4 DEF S

(* A step repeated from a base, as far as a number. *)
Unfolds(f, n, base, step) ==
    /\ f[0] = base
    /\ \A k \in 1..n : k - 1 \in 0..n /\ f[k] = step[<<f[k - 1], k>>]

(* A step can be repeated as far as any number. *)
LEMMA Unfolding ==
    ASSUME NEW S, NEW n \in Nat, NEW base \in S, NEW step \in [S \X Nat -> S]
    PROVE  \E f \in [0..n -> S] : Unfolds(f, n, base, step)
  <1>1. PICK g \in [Nat -> S] : Repeats(g, base, step)
    BY Iterates
  <1> DEFINE f == [k \in 0..n |-> g[k]]
  <1>2. f \in [0..n -> S] /\ f[0] = base
    BY <1>1 DEF Repeats
  <1>3. ASSUME NEW k \in 1..n PROVE k - 1 \in 0..n /\ f[k] = step[<<f[k - 1], k>>]
    <2>1. k - 1 \in Nat /\ (k - 1) + 1 = k /\ k - 1 \in 0..n /\ k \in 0..n
      OBVIOUS
    <2>2. g[(k - 1) + 1] = step[<<g[k - 1], (k - 1) + 1>>]
      BY <1>1, <2>1 DEF Repeats
    <2>3. f[k] = g[k] /\ f[k - 1] = g[k - 1]
      BY <2>1
    <2> HIDE DEF f
    <2> QED
      BY <2>1, <2>2, <2>3
  <1>4. Unfolds(f, n, base, step)
    BY <1>2, <1>3 DEF Unfolds
  <1> HIDE DEF f
  <1> QED
    BY <1>2, <1>4

(* An order is that of the products with a positive number. *)
LEMMA ProductOrder ==
    ASSUME NEW a \in Int, NEW b \in Int, NEW d \in Nat \ {0}
    PROVE  /\ a * d <= b * d => a <= b
           /\ a <= b => a * d <= b * d
  <1>1. ASSUME a * d <= b * d, ~(a <= b) PROVE FALSE
    <2>1. a - b \in Nat /\ a - b >= 1
      BY <1>1
    <2>2. (a - b) * d >= d
      BY <2>1
    <2>3. (a - b) * d = a * d - b * d
      OBVIOUS
    <2> QED
      BY <1>1, <2>2, <2>3
  <1>2. ASSUME a <= b PROVE a * d <= b * d
    <2>1. (b - a) * d >= 0
      BY <1>2
    <2>2. (b - a) * d = b * d - a * d
      OBVIOUS
    <2> QED
      BY <2>1, <2>2
  <1> QED
    BY <1>1, <1>2

-----------------------------------------------------------------------------
(* Sums over finite sets.                                                   *)

(* Induction on the subsets of a finite set, over a set of them. *)
LEMMA SubsetInduction ==
    ASSUME NEW S, IsFiniteSet(S), NEW P \in SUBSET (SUBSET S), {} \in P,
           \A T \in P : \A x \in S \ T : T \cup {x} \in P
    PROVE  \A T \in SUBSET S : T \in P
  <1> DEFINE Q == {n \in Nat : \A T \in SUBSET S : Cardinality(T) = n => T \in P}
  <1>1. \A T \in SUBSET S : IsFiniteSet(T) /\ Cardinality(T) \in Nat
    BY FS_Subset, FS_CardinalityType
  <1>2. 0 \in Q
    BY <1>1, FS_EmptySet
  <1>3. ASSUME NEW n \in Q PROVE n + 1 \in Q
    <2>1. ASSUME NEW T \in SUBSET S, Cardinality(T) = n + 1 PROVE T \in P
      <3>1. n \in Nat /\ IsFiniteSet(T)
        BY <1>1
      <3>2. T # {}
        BY <2>1, <3>1, FS_EmptySet
      <3>3. PICK x \in T : TRUE
        BY <3>2
      <3>4. Cardinality(T \ {x}) = n
        <4>1. Cardinality(T \ {x}) = Cardinality(T) - 1
          BY <3>1, FS_RemoveElement
        <4> QED
          BY <2>1, <3>1, <4>1
      <3>5. T \ {x} \in P /\ x \in S \ (T \ {x})
        BY <3>4
      <3>6. (T \ {x}) \cup {x} = T
        BY <3>3
      <3>7. (T \ {x}) \cup {x} \in P
        BY <3>5
      <3> QED
        BY <3>6, <3>7
    <2> QED
      BY <2>1
  <1> HIDE DEF Q
  <1>4. \A n \in Nat : n \in Q
    <2>1. Q \in SUBSET Nat
      BY DEF Q
    <2> QED
      BY <1>2, <1>3, <2>1, NatSet
  <1> QED
    BY <1>1, <1>4 DEF Q

(* The element that a fold over a set takes first. *)
Pick(T) == CHOOSE x \in T : TRUE

(* What SumFunctionOnSet computes: the sum over a set, taken in any order. *)
IsSum(sum, f, S) ==
    /\ sum[{}] = 0
    /\ \A T \in SUBSET S : \A x \in T : sum[T] = f[x] + sum[T \ {x}]
    /\ \A T \in SUBSET S : SumFunctionOnSet(f, T) = sum[T]

(* Whatever the order of the fold, SumFunctionOnSet is that sum. *)
LEMMA SumIs ==
    ASSUME NEW S, IsFiniteSet(S), NEW f, \A x \in S : f[x] \in Int
    PROVE  \E sum \in [SUBSET S -> Int] : IsSum(sum, f, S)
  <1> DEFINE Sums == [SUBSET S -> Int]
             turn(g, s) == IF s = {} THEN 0 ELSE f[Pick(s)] + g[s \ {Pick(s)}]
             step == [p \in Sums \X Nat |-> [s \in SUBSET S |-> turn(p[1], s)]]
             base == [s \in SUBSET S |-> 0]
  <1>1. \A T \in SUBSET S : IsFiniteSet(T) /\ Cardinality(T) \in Nat
    BY FS_Subset, FS_CardinalityType
  <1>2. ASSUME NEW T \in SUBSET S, T # {}
        PROVE  /\ Pick(T) \in T /\ Pick(T) \in S /\ T \ {Pick(T)} \in SUBSET S
               /\ Cardinality(T \ {Pick(T)}) = Cardinality(T) - 1
    <2>1. Pick(T) \in T
      BY <1>2 DEF Pick
    <2> QED
      BY <1>1, <2>1, FS_RemoveElement
  <1>3. ASSUME NEW g \in Sums, NEW s \in SUBSET S PROVE turn(g, s) \in Int
    <2>1. s # {} => f[Pick(s)] \in Int /\ g[s \ {Pick(s)}] \in Int
      BY <1>2
    <2> QED
      BY <2>1
  <1> HIDE DEF turn
  <1>4. step \in [Sums \X Nat -> Sums] /\ base \in Sums
    <2>1. ASSUME NEW g \in Sums PROVE [s \in SUBSET S |-> turn(g, s)] \in Sums
      BY <1>3
    <2>2. base \in Sums
      OBVIOUS
    <2> HIDE DEF Sums
    <2> QED
      BY <2>1, <2>2
  <1> HIDE DEF base, Sums
  <1>5. PICK f0 \in [Nat -> Sums] : Repeats(f0, base, step)
    BY <1>4, Iterates
  <1>6. /\ f0[0] = base
        /\ \A n \in Nat : f0[n] \in Sums /\ f0[n + 1] = [s \in SUBSET S |-> turn(f0[n], s)]
    <2>1. \A g \in Sums : \A n \in Nat : step[<<g, n>>] = [s \in SUBSET S |-> turn(g, s)]
      OBVIOUS
    <2> HIDE DEF step
    <2>2. ASSUME NEW n \in Nat
          PROVE  f0[n] \in Sums /\ f0[n + 1] = [s \in SUBSET S |-> turn(f0[n], s)]
      <3>1. f0[n] \in Sums /\ f0[n + 1] = step[<<f0[n], n + 1>>] /\ n + 1 \in Nat
        BY <1>5 DEF Repeats
      <3> QED
        BY <2>1, <3>1
    <2> QED
      BY <1>5, <2>2 DEF Repeats
  <1> HIDE DEF step
  <1> DEFINE Q == {n \in Nat : \A s \in SUBSET S :
                      Cardinality(s) <= n => f0[n + 1][s] = f0[n][s]}
  <1>7. \A n \in Nat : n \in Q
    <2>1. 0 \in Q
      <3>1. ASSUME NEW s \in SUBSET S, Cardinality(s) <= 0 PROVE f0[0 + 1][s] = f0[0][s]
        <4>1. s = {}
          BY <1>1, <3>1, FS_EmptySet
        <4> QED
          BY <1>6, <4>1 DEF turn, base
      <3> QED
        BY <3>1
    <2>2. ASSUME NEW n \in Q PROVE n + 1 \in Q
      <3>1. ASSUME NEW s \in SUBSET S, Cardinality(s) <= n + 1
            PROVE  f0[n + 1 + 1][s] = f0[n + 1][s]
        <4>1. n \in Nat /\ n + 1 \in Nat
          OBVIOUS
        <4>2. f0[n + 1 + 1][s] = turn(f0[n + 1], s) /\ f0[n + 1][s] = turn(f0[n], s)
          BY <1>6, <4>1
        <4>3. CASE s = {}
          BY <4>2, <4>3 DEF turn
        <4>4. CASE s # {}
          <5>1. s \ {Pick(s)} \in SUBSET S /\ Cardinality(s \ {Pick(s)}) <= n
            BY <1>1, <1>2, <3>1, <4>1, <4>4
          <5>2. f0[n + 1][s \ {Pick(s)}] = f0[n][s \ {Pick(s)}]
            BY <5>1
          <5> QED
            BY <4>2, <5>2 DEF turn
        <4> QED
          BY <4>3, <4>4
      <3> QED
        BY <3>1
    <2> HIDE DEF Q
    <2>3. Q \in SUBSET Nat
      BY DEF Q
    <2> QED
      BY <2>1, <2>2, <2>3, NatSet
  <1> DEFINE sum == f0[Cardinality(S)]
  <1>8. sum \in Sums /\ \A s \in SUBSET S : sum[s] = turn(sum, s)
    <2>1. Cardinality(S) \in Nat /\ \A s \in SUBSET S : Cardinality(s) <= Cardinality(S)
      BY <1>1, FS_Subset
    <2>2. \A s \in SUBSET S : f0[Cardinality(S) + 1][s] = f0[Cardinality(S)][s]
      BY <1>7, <2>1
    <2> QED
      BY <1>6, <2>1, <2>2
  <1> HIDE DEF sum, Q
  <1>9. ASSUME NEW T \in SUBSET S PROVE SumFunctionOnSet(f, T) = sum[T]
    <2> DEFINE g == [s \in SUBSET T |-> sum[s]]
               h == CHOOSE iter : iter = [s \in SUBSET T |-> turn(iter, s)]
    <2>1. SumFunctionOnSet(f, T) = h[T]
      BY DEF SumFunctionOnSet, FoldFunctionOnSet, MapThenFoldSet, turn, Pick
    <2>2. g = [s \in SUBSET T |-> turn(g, s)]
      <3>1. ASSUME NEW s \in SUBSET T PROVE sum[s] = turn(g, s)
        <4>1. s # {} => s \ {Pick(s)} \in SUBSET T
          OBVIOUS
        <4> QED
          BY <1>8, <4>1 DEF turn
      <3> QED
        BY <3>1
    <2>3. h = [s \in SUBSET T |-> turn(h, s)]
      <3> HIDE DEF g
      <3> QED
        BY <2>2
    <2> HIDE DEF h
    <2> DEFINE P == {s \in SUBSET T : h[s] = sum[s]}
               R == {n \in Nat : \A s \in SUBSET T : Cardinality(s) = n => h[s] = sum[s]}
    <2>4. 0 \in R
      <3>1. ASSUME NEW s \in SUBSET T, Cardinality(s) = 0 PROVE h[s] = sum[s]
        <4>1. s = {}
          BY <1>1, <3>1, FS_EmptySet
        <4> QED
          BY <1>8, <2>3, <4>1 DEF turn
      <3> QED
        BY <3>1
    <2>5. ASSUME NEW n \in R PROVE n + 1 \in R
      <3>1. ASSUME NEW s \in SUBSET T, Cardinality(s) = n + 1 PROVE h[s] = sum[s]
        <4>1. n \in Nat /\ s \in SUBSET S
          OBVIOUS
        <4>2. s # {}
          <5>1. Cardinality(s) # 0
            BY <3>1, <4>1
          <5> QED
            BY <5>1, FS_EmptySet
        <4>3. Cardinality(s \ {Pick(s)}) = n /\ s \ {Pick(s)} \in SUBSET T
          BY <1>1, <1>2, <3>1, <4>1, <4>2
        <4>4. h[s \ {Pick(s)}] = sum[s \ {Pick(s)}]
          BY <4>3
        <4> QED
          BY <1>8, <2>3, <4>1, <4>4 DEF turn
      <3> QED
        BY <3>1
    <2> HIDE DEF R
    <2>6. \A n \in Nat : n \in R
      <3>1. R \in SUBSET Nat
        BY DEF R
      <3> QED
        BY <2>4, <2>5, <3>1, NatSet
    <2>7. h[T] = sum[T]
      BY <1>1, <2>6 DEF R
    <2> QED
      BY <2>1, <2>7
  <1>10. IsSum(sum, f, S)
    <2>1. sum[{}] = 0
      BY <1>8 DEF turn
    <2> DEFINE R == {n \in Nat : \A T \in SUBSET S : Cardinality(T) = n =>
                        \A x \in T : sum[T] = f[x] + sum[T \ {x}]}
    <2>2. 0 \in R
      BY <1>1, FS_EmptySet
    <2>3. ASSUME NEW n \in R PROVE n + 1 \in R
      <3>1. ASSUME NEW T \in SUBSET S, Cardinality(T) = n + 1, NEW x \in T
            PROVE  sum[T] = f[x] + sum[T \ {x}]
        <4> DEFINE y == Pick(T)
        <4>1. /\ y \in T /\ y \in S /\ n \in Nat /\ x \in S
              /\ sum[T] = f[y] + sum[T \ {y}]
          BY <1>2, <1>8, <3>1 DEF turn
        <4> HIDE DEF y
        <4>2. CASE x = y
          BY <4>1, <4>2
        <4>3. CASE x # y
          <5>1. Cardinality(T \ {y}) = n /\ Cardinality(T \ {x}) = n
            <6>1. /\ Cardinality(T \ {y}) = Cardinality(T) - 1
                  /\ Cardinality(T \ {x}) = Cardinality(T) - 1
              BY <1>1, <4>1, FS_RemoveElement
            <6> QED
              BY <3>1, <4>1, <6>1
          <5>2. x \in T \ {y} /\ y \in T \ {x} /\ (T \ {y}) \ {x} = (T \ {x}) \ {y}
            BY <4>1, <4>3
          <5>3. /\ sum[T \ {y}] = f[x] + sum[(T \ {y}) \ {x}]
                /\ sum[T \ {x}] = f[y] + sum[(T \ {x}) \ {y}]
            <6>1. T \ {y} \in SUBSET S /\ T \ {x} \in SUBSET S
              OBVIOUS
            <6> QED
              BY <5>1, <5>2, <6>1
          <5>4. f[x] \in Int /\ f[y] \in Int /\ sum[(T \ {x}) \ {y}] \in Int
            BY <1>8, <4>1 DEF Sums
          <5> DEFINE rest == sum[(T \ {x}) \ {y}]
          <5>5. sum[T] = f[y] + (f[x] + rest) /\ sum[T \ {x}] = f[y] + rest
            BY <4>1, <5>2, <5>3
          <5> HIDE DEF rest
          <5> QED
            BY <5>4, <5>5 DEF rest
        <4> QED
          BY <4>2, <4>3
      <3> QED
        BY <3>1
    <2> HIDE DEF R
    <2>4. \A n \in Nat : n \in R
      <3>1. R \in SUBSET Nat
        BY DEF R
      <3> QED
        BY <2>2, <2>3, <3>1, NatSet
    <2>5. ASSUME NEW T \in SUBSET S, NEW x \in T PROVE sum[T] = f[x] + sum[T \ {x}]
      BY <1>1, <2>4 DEF R
    <2> QED
      BY <1>9, <2>1, <2>5 DEF IsSum
  <1> QED
    BY <1>8, <1>10 DEF Sums

(* A sum is one value and the sum of the others; a sum of nothing is 0. *)
LEMMA SumSplit ==
    ASSUME NEW S, IsFiniteSet(S), NEW f, \A y \in S : f[y] \in Int, NEW x \in S
    PROVE  /\ SumFunctionOnSet(f, S) \in Int /\ SumFunctionOnSet(f, S \ {x}) \in Int
           /\ SumFunctionOnSet(f, S) = f[x] + SumFunctionOnSet(f, S \ {x})
  <1>1. PICK sum \in [SUBSET S -> Int] : IsSum(sum, f, S)
    BY SumIs
  <1>2. S \in SUBSET S /\ S \ {x} \in SUBSET S
    OBVIOUS
  <1>3. /\ sum[S] \in Int /\ sum[S \ {x}] \in Int
        /\ SumFunctionOnSet(f, S) = sum[S] /\ SumFunctionOnSet(f, S \ {x}) = sum[S \ {x}]
        /\ sum[S] = f[x] + sum[S \ {x}]
    BY <1>1, <1>2 DEF IsSum
  <1> QED
    BY <1>3

LEMMA SumOfNone ==
    ASSUME NEW f
    PROVE  SumFunctionOnSet(f, {}) = 0
  <1>1. IsFiniteSet({}) /\ \A x \in {} : f[x] \in Int
    BY FS_EmptySet
  <1>2. PICK sum \in [SUBSET {} -> Int] : IsSum(sum, f, {})
    BY <1>1, SumIs
  <1> QED
    BY <1>2 DEF IsSum

(* Finitely many indices have finitely many values. *)
LEMMA ImageFinite ==
    ASSUME NEW n \in Nat, NEW f, DOMAIN f = 1..n
    PROVE  IsFiniteSet(Range(f))
  <1> DEFINE T == Range(f)
             g == [k \in 1..n |-> f[k]]
  <1>1. g \in Surjection(1..n, T)
    BY DEF Surjection, Range
  <1>2. IsFiniteSet(1..n)
    <2>1. 1 \in Int /\ n \in Int
      OBVIOUS
    <2> QED
      BY ONLY <2>1, FS_Interval
  <1> HIDE DEF g, T
  <1> QED
    BY <1>1, <1>2, FS_Surjection DEF T

(* A finite set of numbers has a least one. *)
LEMMA MinOf ==
    ASSUME NEW S \in SUBSET Int, IsFiniteSet(S), S # {}
    PROVE  Min(S) \in S /\ \A y \in S : Min(S) <= y
  <1> DEFINE T == {-y : y \in S}
             f == [y \in S |-> -y]
  <1>1. f \in Surjection(S, T)
    BY DEF Surjection
  <1>2. IsFiniteSet(T)
    <2> HIDE DEF f, T
    <2> QED
      BY <1>1, FS_Surjection
  <1>3. T \in SUBSET Int /\ T # {}
    OBVIOUS
  <1>4. Max(T) \in T /\ \A y \in T : y <= Max(T)
    <2> HIDE DEF T
    <2> QED
      BY <1>2, <1>3, MaxOf
  <1>5. PICK x \in S : Max(T) = -x
    BY <1>4
  <1>6. \A y \in S : x <= y
    <2>1. ASSUME NEW y \in S PROVE x <= y
      <3>1. -y \in T /\ -y <= -x
        BY <1>4, <1>5
      <3> QED
        BY <3>1
    <2> QED
      BY <2>1
  <1> QED
    BY <1>6 DEF Min

-----------------------------------------------------------------------------
(* Swings do not repaint, and what a plan opens.                            *)

(* A bar is a swing of a chart exactly if it is one of every longer chart    *)
(* in which the bars within Strength of it are there. *)
LEMMA SwingsOfMore ==
    ASSUME NEW values, NEW more, Len(values) \in Nat, Len(more) \in Nat,
           Len(values) <= Len(more),
           \A k \in 1..Len(values) : more[k] = values[k]
    PROVE  Swings(values) = Swings(more) \cap (1 .. Len(values) - Strength)
  <1> USE AnalysisAssumption
  <1>1. ASSUME NEW i \in 1 + Strength .. Len(values) - Strength
        PROVE  /\ i \in 1 + Strength .. Len(more) - Strength
               /\ i \in 1 .. Len(values) - Strength
               /\ \A j \in i - Strength .. i + Strength :
                     more[j] = values[j] /\ more[i] = values[i]
    <2>1. i \in 1..Len(values) /\ \A j \in i - Strength .. i + Strength : j \in 1..Len(values)
      OBVIOUS
    <2> QED
      BY <2>1
  <1>2. ASSUME NEW i \in 1 + Strength .. Len(more) - Strength,
               i \in 1 .. Len(values) - Strength
        PROVE  i \in 1 + Strength .. Len(values) - Strength
    BY <1>2
  <1>3. ASSUME NEW i \in Swings(values)
        PROVE  i \in Swings(more) /\ i \in 1 .. Len(values) - Strength
    <2>1. i \in 1 + Strength .. Len(values) - Strength
      BY DEF Swings
    <2>2. \A j \in i - Strength .. i - 1 : j \in i - Strength .. i + Strength
      BY <2>1
    <2> QED
      BY <1>1, <2>1, <2>2 DEF Swings
  <1>4. ASSUME NEW i \in Swings(more), i \in 1 .. Len(values) - Strength
        PROVE  i \in Swings(values)
    <2>1. i \in 1 + Strength .. Len(values) - Strength
      BY <1>2, <1>4 DEF Swings
    <2>2. \A j \in i - Strength .. i - 1 : j \in i - Strength .. i + Strength
      BY <2>1
    <2> QED
      BY <1>1, <2>1, <2>2 DEF Swings
  <1> QED
    BY <1>3, <1>4

(* The swings of a chart among those of a chart that continues it. *)
LEMMA SwingsOfLongerChart ==
    ASSUME NEW bars, NEW more, Len(bars) \in Nat, Len(more) \in Nat,
           Len(bars) <= Len(more),
           DOMAIN bars = 1..Len(bars), DOMAIN more = 1..Len(more),
           \A k \in 1..Len(bars) : more[k] = bars[k]
    PROVE  /\ SwingHighs(bars) = SwingHighs(more) \cap (1 .. Len(bars) - Strength)
           /\ SwingLows(bars) = SwingLows(more) \cap (1 .. Len(bars) - Strength)
  <1> DEFINE highs(b) == [k \in DOMAIN b |-> b[k].high]
             lows(b) == [k \in DOMAIN b |-> -b[k].low]
  <1>1. /\ Len(highs(bars)) = Len(bars) /\ Len(highs(more)) = Len(more)
        /\ Len(lows(bars)) = Len(bars) /\ Len(lows(more)) = Len(more)
    <2>1. ASSUME NEW f, NEW n \in Nat, f = [k \in 1..n |-> f[k]]
          PROVE  Len(f) = n
      <3> DEFINE S == {f[k] : k \in 1..n}
      <3>1. f \in [1..n -> S]
        BY <2>1
      <3>2. f \in Seq(S)
        BY <3>1, SeqDef
      <3>3. DOMAIN f = 1..Len(f) /\ Len(f) \in Nat
        BY <3>2, LenProperties
      <3> QED
        BY <3>1, <3>3
    <2> QED
      BY <2>1
  <1>2. Swings(highs(bars)) = Swings(highs(more)) \cap (1 .. Len(bars) - Strength)
    <2>1. \A k \in 1..Len(bars) : highs(more)[k] = highs(bars)[k]
      OBVIOUS
    <2> HIDE DEF highs
    <2> QED
      BY <1>1, <2>1, SwingsOfMore
  <1>3. Swings(lows(bars)) = Swings(lows(more)) \cap (1 .. Len(bars) - Strength)
    <2>1. \A k \in 1..Len(bars) : lows(more)[k] = lows(bars)[k]
      OBVIOUS
    <2> HIDE DEF lows
    <2> QED
      BY <1>1, <2>1, SwingsOfMore
  <1> QED
    BY <1>2, <1>3 DEF SwingHighs, SwingLows, Highs

-----------------------------------------------------------------------------
(* What was asked is an input of that question. *)
ReadingsInv ==
    /\ question = "history" => input \in Seq(Observations)
    /\ question = "plan" => input \in [signal : Setups, quote : PlanQuotes, equity : Equities]

(* What the store takes in keeps a history a sequence of observations. *)
LEMMA NextBarType ==
    ASSUME input \in Seq(Observations), NextBar
    PROVE  /\ input' \in Seq(Observations)
           /\ \E bar \in Observations : input' = Append(input, bar)
  <1>1. PICK shape \in Shapes, complete \in BOOLEAN :
           input' = Append(input, Candle(shape, IF input = <<>> THEN 1 ELSE Newest.time + 1,
                                         complete))
    BY DEF NextBar
  <1>2. input # <<>> => Newest \in Observations
    BY DEF Newest
  <1>3. (IF input = <<>> THEN 1 ELSE Newest.time + 1) \in Nat
    BY <1>2 DEF Observations
  <1>4. \A time \in Nat : Candle(shape, time, complete) \in Observations
    BY HistoriesAssumption DEF Candle, Prices, Observations
  <1>5. PICK bar \in Observations : input' = Append(input, bar)
    BY <1>1, <1>3, <1>4
  <1> QED
    BY <1>5, AppendProperties

LEMMA SameBarType ==
    ASSUME input \in Seq(Observations), SameBar
    PROVE  \E bar \in Observations :
              /\ input # <<>> /\ input' = [input EXCEPT ![Len(input)] = bar]
              /\ bar.time = Newest.time /\ bar.complete
              /\ input' \in Seq(Observations) /\ Len(input') = Len(input)
  <1>1. PICK shape \in Shapes :
           input' = [input EXCEPT ![Len(input)] = Candle(shape, Newest.time, TRUE)]
    BY DEF SameBar
  <1>2. input # <<>> /\ Newest \in Observations
    BY DEF SameBar, Newest
  <1> DEFINE bar == Candle(shape, Newest.time, TRUE)
  <1>3. bar \in Observations /\ bar.time = Newest.time /\ bar.complete
    BY <1>2, HistoriesAssumption DEF Candle, Prices, Observations
  <1> HIDE DEF bar
  <1>4. input' = [input EXCEPT ![Len(input)] = bar]
    BY <1>1 DEF bar
  <1>5. input' \in Seq(Observations) /\ Len(input') = Len(input)
    BY <1>2, <1>3, <1>4, ExceptSeq
  <1> QED
    BY <1>2, <1>3, <1>4, <1>5

(* ReadingsInv is inductive. *)
LEMMA ReadingsStep == ReadingsInv /\ [Next]_vars => ReadingsInv'
  <1> SUFFICES ASSUME ReadingsInv, [Next]_vars PROVE ReadingsInv'
    OBVIOUS
  <1>1. CASE AskHistory
    BY <1>1, HistoriesAssumption DEF AskHistory, Ask, ReadingsInv
  <1>2. CASE AskPlan
    BY <1>2 DEF AskPlan, Ask, ReadingsInv
  <1>3. CASE AskSignal \/ AskTimeframes \/ AskMetrics \/ Answered
    BY <1>3 DEF AskSignal, AskTimeframes, AskMetrics, Ask, Answered, ReadingsInv
  <1>4. CASE NextBar
    BY <1>4, NextBarType DEF ReadingsInv, NextBar
  <1>5. CASE SameBar
    BY <1>5, SameBarType DEF ReadingsInv, SameBar
  <1>6. CASE UNCHANGED vars
    BY <1>6 DEF vars, ReadingsInv
  <1> QED
    BY <1>1, <1>2, <1>3, <1>4, <1>5, <1>6 DEF Next

LEMMA ReadingsInvariance == Spec => []ReadingsInv
  <1>1. Init => ReadingsInv
    BY DEF Init, ReadingsInv
  <1> QED
    BY <1>1, ReadingsStep, PTL DEF Spec

-----------------------------------------------------------------------------
(* The times of the complete bars, and a frame's length. *)
Times(candles) == {candles[k].time : k \in {n \in DOMAIN candles : candles[n].complete}}

(* A frame is a sequence, of one bar for each time. *)
LEMMA FrameLength ==
    ASSUME NEW candles \in Seq(Observations)
    PROVE  /\ Times(candles) \in SUBSET Nat /\ IsFiniteSet(Times(candles))
           /\ Len(Frame(candles)) = Cardinality(Times(candles))
           /\ Len(Frame(candles)) \in Nat
           /\ DOMAIN Frame(candles) = 1..Len(Frame(candles))
  <1> DEFINE usable == {n \in DOMAIN candles : candles[n].complete}
             count == Cardinality(Times(candles))
             frame == Frame(candles)
             S == {frame[n] : n \in 1..count}
  <1>1. DOMAIN candles = 1..Len(candles) /\ Len(candles) \in Nat
    BY LenProperties
  <1>2. IsFiniteSet(usable)
    <2>1. IsFiniteSet(1..Len(candles))
      BY <1>1, FS_Interval
    <2>2. usable \in SUBSET (1..Len(candles))
      BY <1>1
    <2> QED
      BY <2>1, <2>2, FS_Subset
  <1>3. Times(candles) = {candles[k].time : k \in usable}
    BY DEF Times
  <1>4. IsFiniteSet(Times(candles))
    <2> DEFINE time == [k \in usable |-> candles[k].time]
    <2>1. time \in Surjection(usable, Times(candles))
      BY <1>3 DEF Surjection
    <2> HIDE DEF usable, time
    <2> QED
      BY <1>2, <2>1, FS_Surjection
  <1>5. Times(candles) \in SUBSET Nat
    <2>1. \A k \in usable : candles[k] \in Observations
      BY <1>1, ElementOfSeq
    <2> QED
      BY <1>3, <2>1 DEF Observations
  <1>6. count \in Nat
    BY <1>4, FS_CardinalityType
  <1>7. frame = [n \in 1..count |-> frame[n]]
    BY <1>3 DEF Frame
  <1>8. frame \in Seq(S)
    <2>1. frame \in [1..count -> S]
      BY <1>7
    <2> QED
      BY <1>6, <2>1, SeqDef
  <1>9. DOMAIN frame = 1..Len(frame) /\ Len(frame) \in Nat /\ DOMAIN frame = 1..count
    BY <1>7, <1>8, LenProperties
  <1>10. Len(frame) = count
    BY <1>6, <1>9
  <1> QED
    BY <1>4, <1>5, <1>9, <1>10

(* No bar that was complete is lost from the frame. *)
LEMMA HistoryGrows ==
    ASSUME input \in Seq(Observations), NextBar \/ SameBar
    PROVE  input' \in Seq(Observations) /\ Times(input) \subseteq Times(input')
  <1>1. DOMAIN input = 1..Len(input) /\ Len(input) \in Nat
    BY LenProperties
  <1>2. CASE NextBar
    <2>1. PICK bar \in Observations : input' = Append(input, bar)
      BY <1>2, NextBarType
    <2>2. /\ input' \in Seq(Observations) /\ Len(input') = Len(input) + 1
          /\ \A k \in 1..Len(input) : input'[k] = input[k]
      BY <2>1, AppendProperties
    <2>3. DOMAIN input' = 1..Len(input')
      BY <2>2, LenProperties
    <2> QED
      BY <1>1, <2>2, <2>3 DEF Times
  <1>3. CASE SameBar
    <2>1. PICK bar \in Observations :
             /\ input # <<>> /\ input' = [input EXCEPT ![Len(input)] = bar]
             /\ bar.time = Newest.time /\ bar.complete
             /\ input' \in Seq(Observations) /\ Len(input') = Len(input)
      BY <1>3, SameBarType
    <2>2. DOMAIN input' = 1..Len(input)
      BY <2>1, LenProperties
    <2>3. ASSUME NEW k \in 1..Len(input), input[k].complete
          PROVE  input'[k].complete /\ input'[k].time = input[k].time
      <3>1. CASE k = Len(input)
        BY <1>1, <2>1, <3>1 DEF Newest
      <3>2. CASE k # Len(input)
        BY <1>1, <2>1, <2>3, <3>2
      <3> QED
        BY <3>1, <3>2
    <2>4. ASSUME NEW time \in Times(input) PROVE time \in Times(input')
      <3>1. PICK k \in 1..Len(input) : input[k].complete /\ time = input[k].time
        BY <1>1 DEF Times
      <3>2. k \in DOMAIN input' /\ input'[k].complete /\ time = input'[k].time
        BY <2>2, <2>3, <3>1
      <3> QED
        BY <3>2 DEF Times
    <2> QED
      BY <2>1, <2>4
  <1> QED
    BY <1>2, <1>3

-----------------------------------------------------------------------------
(* Whatever bars come, in any number and of any shape, a swing that enough   *)
(* bars confirm stays one and none appears among those already decided      *)
(* (find_swings).                                                            *)
THEOREM SwingsDoNotRepaint == Spec => SwingsStay
  <1> DEFINE Kept ==
        question = "history" /\ question' = "history"
          /\ SubSeq(Bars', 1, Len(Bars)) = Bars =>
            /\ SwingHighs(Bars) = SwingHighs(Bars') \cap (1 .. Len(Bars) - Strength)
            /\ SwingLows(Bars) = SwingLows(Bars') \cap (1 .. Len(Bars) - Strength)
  <1>1. ASSUME ReadingsInv, Next, question = "history", question' = "history",
               SubSeq(Bars', 1, Len(Bars)) = Bars
        PROVE  /\ SwingHighs(Bars) = SwingHighs(Bars') \cap (1 .. Len(Bars) - Strength)
               /\ SwingLows(Bars) = SwingLows(Bars') \cap (1 .. Len(Bars) - Strength)
    <2>1. NextBar \/ SameBar
      BY <1>1 DEF Next, AskHistory, AskSignal, AskTimeframes, AskPlan, AskMetrics,
                  Ask, Answered
    <2>2. /\ input \in Seq(Observations) /\ input' \in Seq(Observations)
          /\ Times(input) \subseteq Times(input')
      BY <1>1, <2>1, HistoryGrows DEF ReadingsInv
    <2>3. /\ Len(Bars) \in Nat /\ Len(Bars') \in Nat
          /\ DOMAIN Bars = 1..Len(Bars) /\ DOMAIN Bars' = 1..Len(Bars')
          /\ Len(Bars) = Cardinality(Times(input))
          /\ Len(Bars') = Cardinality(Times(input'))
          /\ IsFiniteSet(Times(input'))
      BY <2>2, FrameLength DEF Bars
    <2>4. Len(Bars) <= Len(Bars')
      BY <2>2, <2>3, FS_Subset
    <2>5. ASSUME NEW k \in 1..Len(Bars) PROVE Bars'[k] = Bars[k]
      <3> DEFINE S == {Bars'[n] : n \in 1..Len(Bars)}
      <3>1. \A i \in 1..Len(Bars) : SubSeq(Bars', 1, Len(Bars))[i] = Bars'[1 + i - 1]
        BY <2>3, SubSeqProperties, \A i \in 1..Len(Bars) : Bars'[i] \in S
      <3> QED
        BY <1>1, <2>3, <3>1
    <2> QED
      BY <2>3, <2>4, <2>5, SwingsOfLongerChart
  <1>2. ReadingsInv /\ [Next]_vars => [Kept]_vars
    BY <1>1
  <1>3. [Kept]_vars => [question = "history" /\ question' = "history"
          /\ SubSeq(Bars', 1, Len(Bars)) = Bars =>
       LET decided == 1 .. Len(Bars) - Strength
       IN  /\ SwingHighs(Bars) = SwingHighs(Bars') \cap decided
           /\ SwingLows(Bars) = SwingLows(Bars') \cap decided]_vars
    OBVIOUS
  <1> HIDE DEF Kept
  <1> QED
    BY <1>2, <1>3, ReadingsInvariance, PTL DEF Spec, SwingsStay

(* For every signal and quote, and any configuration in which the two have   *)
(* the same multiples, what opens is what is planned as viable and reaches   *)
(* the paper engine's score (build_plan, plan_trade).                        *)
THEOREM PlansOpen == Spec => []PlanIsWhatOpens
  <1>1. ASSUME ReadingsInv, SameMultiples, question = "plan", input.quote # None
        PROVE  PlanIsWhatOpens
    <2> DEFINE asked == input.signal
               quote == input.quote
               atr == IF asked.atr = None THEN 0 ELSE asked.atr
               signal == [bias |-> asked.bias, score |-> asked.score, atr |-> atr]
               plan == Plan!BuildPlan(asked, quote, input.equity)
               spread == quote.buy - quote.sell
               stop == atr * PlanStopAtr
    <2>1. /\ asked.bias \in {"LONG", "SHORT", "WAIT"} /\ asked.score \in Int
          /\ asked.bars \in Nat /\ asked.atr \in Int \cup {None} /\ atr \in Int
          /\ quote.sell \in Int /\ quote.buy \in Int /\ spread \in Int
          /\ quote # None /\ None \notin Int
          /\ asked.bars = 0 => asked.bias = "WAIT"
      BY <1>1, PlansAssumption, NothingAssumption, ParamsAssumption DEF ReadingsInv
    <2>0. /\ PaperStopAtr = PlanStopAtr /\ PaperTargetAtr = PlanTargetAtr
          /\ PaperSpreadMultiple = MinStopSpreadMultiple
      BY <1>1 DEF SameMultiples
    <2>2. Paper!Qualifies(signal, quote)
             <=> /\ asked.bias # "WAIT" /\ atr > 0
                 /\ spread > 0 => stop >= spread * MinStopSpreadMultiple
                 /\ asked.score >= PaperMinScore
      BY <2>0 DEF Paper!Qualifies, Paper!Spread, Paper!RiskPerUnit
    <2>3. asked.atr # None => asked.atr = atr
      OBVIOUS
    <2>4. Plan!TooWide(asked, quote)
             <=> spread > 0 /\ asked.atr * PlanStopAtr < spread * MinStopSpreadMultiple
      BY <2>1 DEF Plan!TooWide
    <2>5. stop \in Int /\ spread * MinStopSpreadMultiple \in Int /\ atr * PlanTargetAtr \in Int
      BY <2>1, PlansAssumption
    <2>6. Plan!Entry(asked, quote) = (IF asked.bias = "LONG" THEN quote.buy ELSE quote.sell)
      BY <2>1 DEF Plan!Entry
    <2>7. CASE asked.bias = "WAIT" \/ ~(atr > 0) \/ Plan!TooWide(asked, quote)
      <3>1. plan.viable = FALSE
        BY <1>1, <2>1, <2>6, <2>7 DEF Plan!BuildPlan, Plan!Refused
      <3>2. ~Paper!Qualifies(signal, quote)
        BY <2>1, <2>2, <2>3, <2>4, <2>5, <2>7
      <3> HIDE DEF plan, signal
      <3>3. /\ Paper!Qualifies(signal, quote) <=> plan.viable /\ asked.score >= PaperMinScore
            /\ ~plan.viable
        BY <3>1, <3>2
      <3> QED
        BY <3>3 DEF PlanIsWhatOpens, plan, signal
    <2>8. CASE asked.bias # "WAIT" /\ atr > 0 /\ ~Plan!TooWide(asked, quote)
      <3>1. Paper!Qualifies(signal, quote) <=> asked.score >= PaperMinScore
        BY <2>1, <2>2, <2>3, <2>4, <2>5, <2>8
      <3>2. asked.atr = atr /\ asked.bars # 0
        BY <1>1, <2>1, <2>8
      <3>3. /\ plan.viable = TRUE
            /\ plan.entry = Plan!Entry(asked, quote)
            /\ plan.stop = plan.entry - (IF asked.bias = "LONG" THEN 1 ELSE -1) * atr * PlanStopAtr
            /\ plan.target = plan.entry + (IF asked.bias = "LONG" THEN 1 ELSE -1) * atr * PlanTargetAtr
        BY <2>1, <2>6, <2>8, <3>2 DEF Plan!BuildPlan
      <3> DEFINE terms == Paper!PlanTrade(signal, quote)
      <3>4. /\ terms.entry = Plan!Entry(asked, quote)
            /\ asked.bias = "LONG" => terms.stop = terms.entry - stop
                                      /\ terms.target = terms.entry + atr * PlanTargetAtr
            /\ asked.bias # "LONG" => terms.stop = terms.entry + stop
                                      /\ terms.target = terms.entry - atr * PlanTargetAtr
        BY <2>6, <2>0 DEF Paper!PlanTrade, Paper!EntryPrice, Paper!RiskPerUnit
      <3>5. terms.entry \in Int
        BY <2>1, <2>6, <3>4
      <3> HIDE DEF terms, plan
      <3>6. plan.stop = terms.stop /\ plan.target = terms.target
        <4>1. CASE asked.bias = "LONG"
          BY <2>1, <2>5, <3>3, <3>4, <3>5, <4>1, PlansAssumption
        <4>2. CASE asked.bias # "LONG"
          BY <2>1, <2>5, <3>3, <3>4, <3>5, <4>2, PlansAssumption
        <4> QED
          BY <4>1, <4>2
      <3>7. /\ Paper!Qualifies(signal, quote) <=> plan.viable /\ asked.score >= PaperMinScore
            /\ plan.entry = terms.entry /\ plan.stop = terms.stop /\ plan.target = terms.target
        BY <3>1, <3>3, <3>4, <3>6
      <3> QED
        BY <3>7 DEF PlanIsWhatOpens, plan, terms
    <2> QED
      BY <2>7, <2>8
  <1>2. ReadingsInv => PlanIsWhatOpens
    BY <1>1 DEF PlanIsWhatOpens
  <1> QED
    BY <1>2, ReadingsInvariance, PTL

-----------------------------------------------------------------------------
(* The frame of bars, as a history grows.                                   *)

(* The observations of a bar, and the one a frame takes. *)
Seen(candles, time) == {k \in DOMAIN candles : candles[k].complete /\ candles[k].time = time}
(* The bar of a frame at one of its times: the last complete observation. *)
At(candles, time) == candles[Max(Seen(candles, time))]

LEMMA AtIs ==
    ASSUME NEW candles \in Seq(Observations), NEW time \in Times(candles)
    PROVE  \E k \in 1..Len(candles) :
              /\ At(candles, time) = candles[k]
              /\ candles[k] \in Observations /\ candles[k].complete /\ candles[k].time = time
              /\ \A n \in Seen(candles, time) : n <= k
  <1>1. DOMAIN candles = 1..Len(candles) /\ Len(candles) \in Nat
    BY LenProperties
  <1>2. Seen(candles, time) # {}
    BY DEF Times, Seen
  <1>3. Seen(candles, time) \in SUBSET (1..Len(candles))
    BY <1>1 DEF Seen
  <1>4. IsFiniteSet(Seen(candles, time)) /\ Seen(candles, time) \in SUBSET Int
    <2>1. IsFiniteSet(1..Len(candles))
      BY <1>1, FS_Interval
    <2> QED
      BY <1>3, <2>1, FS_Subset
  <1> DEFINE k == Max(Seen(candles, time))
  <1>5. k \in Seen(candles, time) /\ \A n \in Seen(candles, time) : n <= k
    BY <1>2, <1>4, MaxOf
  <1>6. At(candles, time) = candles[k]
    BY DEF At
  <1> HIDE DEF k
  <1>7. k \in 1..Len(candles) /\ candles[k].complete /\ candles[k].time = time
    BY <1>1, <1>5 DEF Seen
  <1>8. candles[k] \in Observations
    BY <1>7, ElementOfSeq
  <1> QED
    BY <1>5, <1>6, <1>7, <1>8

(* A frame is the bars at the times in order, each one observed. *)
LEMMA FrameIs ==
    ASSUME NEW candles \in Seq(Observations)
    PROVE  /\ Frame(candles) \in Seq(Observations)
           /\ Len(Frame(candles)) = Cardinality(Times(candles))
           /\ \A n \in 1..Len(Frame(candles)) :
                 /\ Nth(Times(candles), n) \in Times(candles)
                 /\ Frame(candles)[n] = At(candles, Nth(Times(candles), n))
                 /\ \E k \in 1..Len(candles) : Frame(candles)[n] = candles[k]
  <1> DEFINE count == Cardinality(Times(candles))
             bar(n) == At(candles, Nth(Times(candles), n))
  <1>1. /\ Times(candles) \in SUBSET Int /\ IsFiniteSet(Times(candles))
        /\ Len(Frame(candles)) = count /\ count \in Nat
    BY FrameLength, FS_CardinalityType
  <1>2. Frame(candles) = [n \in 1..count |-> bar(n)]
    <2>1. Times(candles) = {candles[k].time : k \in {k \in DOMAIN candles : candles[k].complete}}
      BY DEF Times
    <2>2. \A time : {k \in {k \in DOMAIN candles : candles[k].complete} : candles[k].time = time}
                       = Seen(candles, time)
      BY DEF Seen
    <2> QED
      BY <2>1, <2>2 DEF Frame, At
  <1>3. ASSUME NEW n \in 1..count
        PROVE  /\ Nth(Times(candles), n) \in Times(candles)
               /\ Frame(candles)[n] = bar(n)
               /\ \E k \in 1..Len(candles) : bar(n) = candles[k]
               /\ bar(n) \in Observations
    <2>1. Nth(Times(candles), n) \in Times(candles)
      BY <1>1, NthIs
    <2>2. Frame(candles)[n] = bar(n)
      BY <1>2
    <2>3. PICK k \in 1..Len(candles) :
             bar(n) = candles[k] /\ candles[k] \in Observations
      BY <2>1, AtIs
    <2> QED
      BY <2>1, <2>2, <2>3
  <1> HIDE DEF bar
  <1>4. Frame(candles) \in [1..count -> Observations]
    BY <1>2, <1>3
  <1>5. Frame(candles) \in Seq(Observations)
    BY <1>1, <1>4, SeqDef
  <1> QED
    BY <1>1, <1>3, <1>5 DEF bar

(* The newest observation, when it is complete, is the last bar of the      *)
(* frame, and the others are before it. *)
LEMMA FrameTop ==
    ASSUME NEW candles \in Seq(Observations), candles # <<>>,
           candles[Len(candles)].complete,
           \A time \in Times(candles) : time <= candles[Len(candles)].time,
           NEW old, old = Times(candles) \ {candles[Len(candles)].time}
    PROVE  /\ old \in SUBSET Int /\ IsFiniteSet(old) /\ Cardinality(old) \in Nat
           /\ Len(Frame(candles)) = Cardinality(old) + 1
           /\ Frame(candles)[Cardinality(old) + 1] = candles[Len(candles)]
           /\ \A k \in 1..Cardinality(old) :
                 Nth(old, k) \in old /\ Frame(candles)[k] = At(candles, Nth(old, k))
  <1> DEFINE last == Len(candles)
             top == candles[last].time
  <1>1. DOMAIN candles = 1..last /\ last \in 1..last /\ last \in Nat
    BY LenProperties, EmptySeq
  <1>2. top \in Times(candles)
    BY <1>1 DEF Times
  <1>3. Times(candles) \in SUBSET Int /\ IsFiniteSet(Times(candles))
    BY FrameLength
  <1>4. /\ top \in Int /\ old \in SUBSET Int /\ IsFiniteSet(old)
        /\ Times(candles) = old \cup {top} /\ \A y \in old : y < top
    <2>1. IsFiniteSet(old)
      BY <1>3, FS_RemoveElement
    <2> QED
      BY <1>2, <1>3, <2>1
  <1> DEFINE count == Cardinality(old)
  <1>8. /\ count \in Nat /\ Cardinality(Times(candles)) = count + 1
        /\ Nth(Times(candles), count + 1) = top
        /\ \A k \in 1..count : Nth(old, k) \in old /\ Nth(Times(candles), k) = Nth(old, k)
    <2> HIDE DEF top
    <2>1. /\ Cardinality(old) \in Nat
          /\ Cardinality(old \cup {top}) = Cardinality(old) + 1
          /\ Nth(old \cup {top}, Cardinality(old) + 1) = top
          /\ \A n \in 1..Cardinality(old) :
                Nth(old, n) \in old /\ Nth(old \cup {top}, n) = Nth(old, n)
      BY <1>4, NthOfMore
    <2> QED
      BY <1>4, <2>1
  <1>5. Frame(candles)[Cardinality(old) + 1] = candles[last]
    <2>1. Nth(Times(candles), Cardinality(old) + 1) = top
      BY <1>8
    <2>2. At(candles, top) = candles[last]
      <3>1. PICK k \in 1..last : /\ At(candles, top) = candles[k]
                                 /\ \A n \in Seen(candles, top) : n <= k
        BY <1>2, AtIs
      <3>2. last \in Seen(candles, top)
        BY <1>1 DEF Seen
      <3>3. k = last
        <4> HIDE DEF last
        <4> QED
          BY <1>1, <3>1, <3>2
      <3> QED
        BY <3>1, <3>3
    <2>3. Len(Frame(candles)) = Cardinality(old) + 1 /\ Cardinality(old) \in Nat
      BY <1>8, FrameIs
    <2> QED
      BY <2>1, <2>2, <2>3, FrameIs
  <1>6. /\ Len(Frame(candles)) = Cardinality(old) + 1 /\ Cardinality(old) \in Nat
        /\ \A k \in 1..Cardinality(old) :
              Nth(old, k) \in old /\ Nth(Times(candles), k) = Nth(old, k)
    BY <1>8, FrameIs
  <1>7. ASSUME NEW k \in 1..Cardinality(old)
        PROVE  Nth(old, k) \in old /\ Frame(candles)[k] = At(candles, Nth(old, k))
    <2>1. k \in 1..Len(Frame(candles))
      BY <1>6
    <2>2. Frame(candles)[k] = At(candles, Nth(Times(candles), k))
      BY <2>1, FrameIs
    <2> QED
      BY <1>6, <2>2
  <1> QED
    BY <1>4, <1>5, <1>6, <1>7

(* Where the observations of a time are the same, so is its bar. *)
LEMMA AtKept ==
    ASSUME NEW c \in Seq(Observations), NEW d, NEW time \in Times(c),
           \A k \in DOMAIN c :
              c[k].complete /\ c[k].time = time => k \in DOMAIN d /\ d[k] = c[k],
           \A k \in DOMAIN d :
              d[k].complete /\ d[k].time = time => k \in DOMAIN c /\ d[k] = c[k]
    PROVE  At(d, time) = At(c, time)
  <1>1. Seen(d, time) = Seen(c, time)
    BY DEF Seen
  <1>2. PICK k \in 1..Len(c) : /\ At(c, time) = c[k] /\ c[k].complete /\ c[k].time = time
                               /\ \A n \in Seen(c, time) : n <= k
    BY AtIs
  <1>3. Seen(c, time) \in SUBSET Int /\ IsFiniteSet(Seen(c, time)) /\ Seen(c, time) # {}
    <2>1. DOMAIN c = 1..Len(c) /\ IsFiniteSet(1..Len(c))
      BY LenProperties, FS_Interval
    <2>2. Seen(c, time) \in SUBSET (1..Len(c)) /\ k \in Seen(c, time)
      BY <1>2, <2>1 DEF Seen
    <2> QED
      BY <2>1, <2>2, FS_Subset
  <1>4. Max(Seen(c, time)) \in Seen(c, time)
    BY <1>3, MaxOf
  <1>5. d[Max(Seen(c, time))] = c[Max(Seen(c, time))]
    BY <1>4 DEF Seen
  <1> QED
    BY <1>1, <1>5 DEF At

-----------------------------------------------------------------------------
(* A history ends with its newest bar, which alone may be forming, and       *)
(* every bar of it is sound. *)
HistorySound(candles) ==
    /\ candles \in Seq(Observations)
    /\ \A k \in 1..Len(candles) : Sound(candles[k])
    /\ \A k \in 1..Len(candles) :
          /\ candles[k].time <= candles[Len(candles)].time
          /\ k # Len(candles) =>
                /\ candles[k].complete
                /\ ~candles[Len(candles)].complete =>
                      candles[k].time < candles[Len(candles)].time

(* What the store does keeps its history sound: the bars sound, in the      *)
(* order of their times, and only the newest forming.                       *)
HistoryInv == question = "history" => HistorySound(input)

LEMMA SoundSteps ==
    ASSUME HistorySound(input), NextBar \/ SameBar
    PROVE  HistorySound(input')
  <1>1. /\ input \in Seq(Observations) /\ Len(input) \in Nat /\ DOMAIN input = 1..Len(input)
        /\ \A k \in 1..Len(input) : input[k] \in Observations /\ input[k].time \in Nat
    <2>1. input \in Seq(Observations)
      BY DEF HistorySound
    <2>2. \A k \in 1..Len(input) : input[k] \in Observations
      BY <2>1, ElementOfSeq
    <2> QED
      BY <2>1, <2>2, LenProperties DEF Observations
  <1>2. CASE NextBar
    <2> DEFINE time == IF input = <<>> THEN 1 ELSE Newest.time + 1
    <2>1. PICK shape \in Shapes, complete \in BOOLEAN :
             /\ input' = Append(input, Candle(shape, time, complete))
             /\ input # <<>> => Newest.complete
      BY <1>2 DEF NextBar
    <2> DEFINE bar == Candle(shape, time, complete)
    <2>2. input # <<>> => /\ Len(input) \in 1..Len(input)
                          /\ Newest = input[Len(input)]
      BY <1>1, EmptySeq DEF Newest
    <2>3. /\ bar \in Observations /\ bar.time = time /\ Sound(bar) /\ time \in Nat
      <3>1. time \in Nat
        BY <1>1, <2>2
      <3> QED
        BY <3>1, HistoriesAssumption DEF Candle, Prices, Observations, Sound
    <2>4. \A k \in 1..Len(input) : input[k].time < time
      <3>1. CASE input = <<>>
        BY <3>1, EmptySeq
      <3>2. ASSUME input # <<>>, NEW k \in 1..Len(input) PROVE input[k].time < time
        <4>1. input[k].time <= input[Len(input)].time /\ time = input[Len(input)].time + 1
          BY <2>2, <3>2 DEF HistorySound
        <4>2. input[k].time \in Nat /\ input[Len(input)].time \in Nat
          BY <1>1, <2>2, <3>2
        <4> HIDE DEF time
        <4> QED
          BY <4>1, <4>2
      <3> QED
        BY <3>1, <3>2
    <2>5. \A k \in 1..Len(input) : input[k].complete
      <3>1. CASE input = <<>>
        BY <3>1, EmptySeq
      <3>2. CASE input # <<>>
        BY <1>1, <2>1, <2>2, <3>2 DEF HistorySound
      <3> QED
        BY <3>1, <3>2
    <2> HIDE DEF bar, time
    <2>6. /\ input' \in Seq(Observations) /\ Len(input') = Len(input) + 1
          /\ input'[Len(input) + 1] = bar
          /\ \A k \in 1..Len(input) : input'[k] = input[k]
      BY <1>1, <2>1, <2>3, AppendProperties DEF bar
    <2>7. ASSUME NEW k \in 1..Len(input')
          PROVE  /\ Sound(input'[k])
                 /\ input'[k].time <= input'[Len(input')].time
                 /\ k # Len(input') => /\ input'[k].complete
                                       /\ input'[k].time < input'[Len(input')].time
      <3>1. CASE k \in 1..Len(input)
        <4>1. Sound(input[k]) /\ input[k].complete /\ input[k].time < bar.time
          BY <2>3, <2>4, <2>5, <3>1 DEF HistorySound
        <4> QED
          BY <1>1, <2>3, <2>6, <3>1, <4>1
      <3>2. CASE k = Len(input) + 1
        BY <1>1, <2>3, <2>6, <3>2
      <3> QED
        BY <1>1, <2>6, <3>1, <3>2
    <2> QED
      BY <2>6, <2>7 DEF HistorySound
  <1>3. CASE SameBar
    <2>1. PICK shape \in Shapes :
             /\ input # <<>>
             /\ input' = [input EXCEPT ![Len(input)] = Candle(shape, Newest.time, TRUE)]
      BY <1>3 DEF SameBar
    <2> DEFINE bar == Candle(shape, Newest.time, TRUE)
    <2>2. Newest = input[Len(input)] /\ Newest.time \in Nat /\ Len(input) \in 1..Len(input)
      BY <1>1, <2>1, EmptySeq DEF Newest
    <2>3. bar \in Observations /\ Sound(bar) /\ bar.complete /\ bar.time = Newest.time
      BY <2>2, HistoriesAssumption DEF Candle, Prices, Observations, Sound
    <2> HIDE DEF bar
    <2>4. /\ input' \in Seq(Observations) /\ Len(input') = Len(input)
          /\ input'[Len(input)] = bar
          /\ \A k \in 1..Len(input) : k # Len(input) => input'[k] = input[k]
      <3>1. input' = [input EXCEPT ![Len(input)] = bar]
        BY <2>1 DEF bar
      <3> QED
        BY <1>1, <2>2, <2>3, <3>1, ExceptSeq
    <2>5. ASSUME NEW k \in 1..Len(input)
          PROVE  /\ Sound(input'[k])
                 /\ input'[k].time <= bar.time
                 /\ k # Len(input) => input'[k].complete
      <3>1. CASE k = Len(input)
        <4>1. input'[k] = bar /\ bar.time <= bar.time
          BY <2>2, <2>3, <2>4, <3>1
        <4> QED
          BY <2>3, <3>1, <4>1
      <3>2. CASE k # Len(input)
        <4>1. Sound(input[k]) /\ input[k].time <= input[Len(input)].time /\ input[k].complete
          BY <3>2 DEF HistorySound
        <4>2. input'[k] = input[k]
          BY <2>4, <3>2
        <4> QED
          BY <2>2, <2>3, <4>1, <4>2
      <3> QED
        BY <3>1, <3>2
    <2> QED
      BY <2>3, <2>4, <2>5 DEF HistorySound
  <1> QED
    BY <1>2, <1>3

LEMMA HistoryInvariance == Spec => []HistoryInv
  <1>1. Init => HistoryInv
    BY DEF Init, HistoryInv
  <1>2. HistoryInv /\ [Next]_vars => HistoryInv'
    <2> SUFFICES ASSUME HistoryInv, [Next]_vars PROVE HistoryInv'
      OBVIOUS
    <2>1. CASE AskHistory
      <3>1. input' \in Starts
        BY <2>1 DEF AskHistory, Ask
      <3>2. input' \in Seq(Observations) /\ DOMAIN input' = 1..Len(input')
        BY <3>1, HistoriesAssumption, LenProperties
      <3>3. ASSUME NEW k \in 1..Len(input')
            PROVE  /\ Sound(input'[k]) /\ input'[k].complete
                   /\ input'[k].time <= input'[Len(input')].time
                   /\ input'[Len(input')].complete
        <4>1. k \in DOMAIN input' /\ Len(input') \in DOMAIN input'
          BY <3>2, LenProperties
        <4> QED
          BY <3>1, <4>1, HistoriesAssumption
      <3>4. HistorySound(input')
        BY <3>2, <3>3 DEF HistorySound
      <3> QED
        BY <3>4 DEF HistoryInv
    <2>2. CASE AskPlan \/ AskSignal \/ AskTimeframes \/ AskMetrics \/ Answered
      BY <2>2 DEF AskPlan, AskSignal, AskTimeframes, AskMetrics, Ask, Answered, HistoryInv
    <2>3. CASE NextBar \/ SameBar
      <3>1. HistorySound(input')
        BY <2>3, SoundSteps DEF HistoryInv, NextBar, SameBar
      <3> QED
        BY <3>1 DEF HistoryInv
    <2>4. CASE UNCHANGED vars
      BY <2>4 DEF vars, HistoryInv
    <2> QED
      BY <2>1, <2>2, <2>3, <2>4 DEF Next
  <1> QED
    BY <1>1, <1>2, PTL DEF Spec

(* Of what has been decided an observation changes nothing but the newest   *)
(* bar, and not its open; it adds one bar at most. *)
Continues(bars, more) ==
    /\ bars \in Seq(Observations) /\ more \in Seq(Observations)
    /\ Len(more) \in {Len(bars), Len(bars) + 1}
    /\ \A k \in 1..Len(bars) :
          /\ more[k].open = bars[k].open
          /\ k # Len(bars) => more[k] = bars[k]

(* A frame goes on from the one before: only its last bar may change, but   *)
(* for its open, and one may come.                                          *)
LEMMA FrameContinues ==
    ASSUME HistorySound(input), NextBar \/ SameBar
    PROVE  Continues(Bars, Bars')
  <1> DEFINE frame == Frame(input)
             next == Frame(input')
             last == Len(input)
  <1>1. HistorySound(input')
    BY SoundSteps
  <1>2. /\ input \in Seq(Observations) /\ input' \in Seq(Observations)
        /\ DOMAIN input = 1..last /\ last \in Nat
        /\ \A k \in 1..last : input[k] \in Observations /\ input[k].time \in Nat
    <2>1. input \in Seq(Observations) /\ input' \in Seq(Observations)
      BY <1>1 DEF HistorySound
    <2>2. \A k \in 1..last : input[k] \in Observations
      BY <2>1, ElementOfSeq
    <2> QED
      BY <2>1, <2>2, LenProperties DEF Observations
  <1>3. /\ frame \in Seq(Observations) /\ next \in Seq(Observations)
        /\ Len(frame) \in Nat /\ Len(next) \in Nat
        /\ Len(frame) = Cardinality(Times(input))
        /\ Len(next) = Cardinality(Times(input'))
    BY <1>2, FrameIs, LenProperties
  <1>4. /\ \A t : t \in Times(input) <=> \E k \in DOMAIN input : input[k].complete /\ input[k].time = t
        /\ \A t : t \in Times(input') <=>
                \E k \in DOMAIN input' : input'[k].complete /\ input'[k].time = t
    BY Zenon DEF Times
  <1>5. CASE NextBar
    <2> DEFINE time == IF input = <<>> THEN 1 ELSE Newest.time + 1
    <2>1. PICK bar \in Observations : input' = Append(input, bar)
      BY <1>2, <1>5, NextBarType
    <2>2. /\ Len(input') = last + 1 /\ DOMAIN input' = 1..(last + 1)
          /\ input'[last + 1] = bar /\ \A k \in 1..last : input'[k] = input[k]
      BY <1>2, <2>1, AppendProperties, LenProperties
    <2>3. \A k \in 1..last : input[k].time < bar.time
      <3>1. ASSUME NEW k \in 1..last PROVE input[k].time < bar.time
        <4>1. PICK shape \in Shapes, complete \in BOOLEAN :
                 /\ input' = Append(input, Candle(shape, Newest.time + 1, complete))
                 /\ Newest.complete
          BY <1>2, <1>5, EmptySeq DEF NextBar
        <4>2. Candle(shape, Newest.time + 1, complete).time = Newest.time + 1
          BY DEF Candle
        <4>3. input'[last + 1] = Candle(shape, Newest.time + 1, complete)
          BY <1>2, <4>1
        <4>4. Newest = input[last] /\ last \in 1..last
          BY <1>2 DEF Newest
        <4>5. input[k].time <= input[last].time
          BY DEF HistorySound
        <4> QED
          BY <1>2, <2>2, <4>2, <4>3, <4>4, <4>5
      <3> QED
        BY <3>1
    <2>4. ASSUME NEW t \in Times(input), t # bar.time \/ ~bar.complete
          PROVE  At(input', t) = At(input, t)
      BY <1>2, <2>2, <2>4, AtKept
    <2>5. \A t \in Times(input) : t # bar.time
      BY <1>2, <2>3 DEF Times
    <2>6. CASE bar.complete
      <3>1. Times(input) = Times(input') \ {bar.time}
        BY <1>2, <1>4, <2>2, <2>5, <2>6
      <3>2. /\ input' # <<>> /\ input'[Len(input')].complete /\ input'[Len(input')].time = bar.time
        BY <1>2, <2>2, <2>6, EmptySeq
      <3>3. \A t \in Times(input') : t <= input'[Len(input')].time
        BY <1>1, <1>2, <2>2 DEF HistorySound, Times
      <3>4. /\ Len(next) = Cardinality(Times(input)) + 1
            /\ \A k \in 1..Cardinality(Times(input)) :
                  /\ Nth(Times(input), k) \in Times(input)
                  /\ next[k] = At(input', Nth(Times(input), k))
        BY <1>2, <3>1, <3>2, <3>3, FrameTop
      <3>5. ASSUME NEW k \in 1..Len(frame) PROVE next[k] = frame[k]
        BY <1>2, <1>3, <2>4, <2>5, <3>4, FrameIs
      <3> HIDE DEF frame, next
      <3> QED
        BY <1>3, <3>4, <3>5 DEF Continues, frame, next, Bars
    <2>7. CASE ~bar.complete
      <3>1. Times(input) = Times(input')
        <4>1. ASSUME NEW k \in 1..(last + 1), input'[k].complete
              PROVE  k \in 1..last /\ input[k] = input'[k]
          BY <1>2, <2>2, <2>7, <4>1
        <4>2. ASSUME NEW k \in 1..last
              PROVE  k \in 1..(last + 1) /\ input[k] = input'[k]
          BY <1>2, <2>2
        <4> HIDE DEF last
        <4>3. \A t : t \in Times(input) <=> t \in Times(input')
          BY <1>2, <1>4, <2>2, <4>1, <4>2
        <4> QED
          BY <4>3
      <3>2. ASSUME NEW k \in 1..Len(frame) PROVE next[k] = frame[k]
        BY <1>2, <1>3, <2>4, <2>7, <3>1, FrameIs
      <3> HIDE DEF frame, next
      <3> QED
        BY <1>3, <3>1, <3>2 DEF Continues, frame, next, Bars
    <2> QED
      BY <2>6, <2>7
  <1>6. CASE SameBar
    <2>1. PICK shape \in Shapes :
             /\ input # <<>> /\ shape.open = input[last].open
             /\ input' = [input EXCEPT ![last] = Candle(shape, input[last].time, TRUE)]
      BY <1>6 DEF SameBar, Newest
    <2> DEFINE bar == Candle(shape, input[last].time, TRUE)
    <2>2. last \in 1..last
      BY <1>2, <2>1, EmptySeq
    <2>3. /\ bar \in Observations /\ bar.complete
          /\ bar.time = input[last].time /\ bar.open = input[last].open
      BY <1>2, <2>1, <2>2, HistoriesAssumption DEF Candle, Prices, Observations
    <2> HIDE DEF bar
    <2>4. /\ Len(input') = last /\ DOMAIN input' = 1..last
          /\ input'[last] = bar
          /\ \A k \in 1..last : k # last => input'[k] = input[k]
      <3>1. input' = [input EXCEPT ![last] = bar]
        BY <2>1 DEF bar
      <3> QED
        BY <1>2, <2>2, <2>3, <3>1, ExceptSeq
    <2>5. ASSUME NEW t \in Times(input), t # bar.time
          PROVE  At(input', t) = At(input, t)
      BY <1>2, <2>2, <2>3, <2>4, <2>5, AtKept
    <2> DEFINE old == Times(input) \ {bar.time}
    <2>6. old = Times(input') \ {bar.time}
      <3>1. \A k \in 1..last : k # last => input'[k] = input[k]
        BY <2>4
      <3>2. input[last].time = bar.time /\ input'[last].time = bar.time
        BY <2>3, <2>4
      <3> HIDE DEF last
      <3>3. \A t : t # bar.time => (t \in Times(input) <=> t \in Times(input'))
        BY <1>2, <1>4, <2>4, <3>1, <3>2
      <3> QED
        BY <3>3
    <2>7. /\ input' # <<>> /\ input'[Len(input')] = bar
          /\ input'[Len(input')].complete /\ input'[Len(input')].time = bar.time
      <3>1. input'[Len(input')] = bar /\ Len(input') \in 1..Len(input')
        BY <2>2, <2>4
      <3>2. input' # <<>>
        BY <3>1, EmptySeq
      <3> QED
        BY <2>3, <3>1, <3>2
    <2>8. \A t \in Times(input') : t <= input'[Len(input')].time
      BY <1>1, <1>2, <2>4 DEF HistorySound, Times
    <2>9. /\ Cardinality(old) \in Nat
          /\ Len(next) = Cardinality(old) + 1
          /\ next[Cardinality(old) + 1] = bar
          /\ \A k \in 1..Cardinality(old) :
                Nth(old, k) \in old /\ next[k] = At(input', Nth(old, k))
      <3>1. old = Times(input') \ {input'[Len(input')].time}
        BY <2>6, <2>7
      <3> HIDE DEF old
      <3>2. /\ Cardinality(old) \in Nat
            /\ Len(Frame(input')) = Cardinality(old) + 1
            /\ Frame(input')[Cardinality(old) + 1] = input'[Len(input')]
            /\ \A k \in 1..Cardinality(old) :
                  Nth(old, k) \in old /\ Frame(input')[k] = At(input', Nth(old, k))
        BY <1>2, <2>7, <2>8, <3>1, FrameTop
      <3> QED
        BY <2>7, <3>2
    <2>10. CASE input[last].complete
      <3>1. \A t \in Times(input) : t <= input[last].time
        BY <1>2 DEF HistorySound, Times
      <3>2. /\ Len(frame) = Cardinality(old) + 1
            /\ frame[Cardinality(old) + 1] = input[last]
            /\ \A k \in 1..Cardinality(old) : frame[k] = At(input, Nth(old, k))
        <4>1. old = Times(input) \ {input[Len(input)].time}
          BY <2>3
        <4>2. input # <<>> /\ input[Len(input)].complete
              /\ \A t \in Times(input) : t <= input[Len(input)].time
          BY <2>1, <2>10, <3>1
        <4> HIDE DEF old, last, frame, next
        <4>4. input \in Seq(Observations)
          BY <1>2
        <4>3. /\ Len(Frame(input)) = Cardinality(old) + 1
              /\ Frame(input)[Cardinality(old) + 1] = input[Len(input)]
              /\ \A k \in 1..Cardinality(old) : Frame(input)[k] = At(input, Nth(old, k))
          BY ONLY <4>1, <4>2, <4>4, FrameTop
        <4> QED
          BY <4>3 DEF frame, last
      <3>3. \A k \in 1..Cardinality(old) : next[k] = frame[k]
        BY <2>5, <2>9, <3>2
      <3> HIDE DEF frame, next, old
      <3> QED
        BY <1>3, <2>3, <2>9, <3>2, <3>3 DEF Continues, frame, next, Bars
    <2>11. CASE ~input[last].complete
      <3>1. old = Times(input)
        <4>1. bar.time \notin Times(input)
          <5>1. SUFFICES ASSUME bar.time \in Times(input) PROVE FALSE
            OBVIOUS
          <5>2. PICK k \in 1..last : input[k].complete /\ input[k].time = bar.time
            BY <1>2, <5>1 DEF Times
          <5>3. k # last
            BY <2>11, <5>2
          <5>4. input[k].time < input[last].time
            BY <1>2, <2>11, <5>3 DEF HistorySound
          <5>5. input[last].time \in Int
            BY <2>3 DEF Observations
          <5> QED
            BY <2>3, <5>2, <5>4, <5>5
        <4> HIDE DEF last
        <4> QED
          BY <4>1
      <3>2. ASSUME NEW k \in 1..Len(frame) PROVE next[k] = frame[k]
        <4> DEFINE t == Nth(Times(input), k)
        <4>1. t \in Times(input) /\ frame[k] = At(input, t)
          BY <1>2, FrameIs
        <4>2. k \in 1..Cardinality(old) /\ Nth(old, k) = t
          BY <1>3, <3>1
        <4>3. next[k] = At(input', t)
          BY <2>9, <4>2
        <4>4. t # bar.time
          BY <3>1, <4>1
        <4> HIDE DEF t, old, next, frame
        <4> QED
          BY <2>5, <4>1, <4>3, <4>4
      <3> HIDE DEF frame, next, old
      <3> QED
        BY <1>3, <2>9, <3>1, <3>2 DEF Continues, frame, next, Bars
    <2> QED
      BY <2>10, <2>11
  <1> QED
    BY <1>5, <1>6

-----------------------------------------------------------------------------
(* The backtest sees nothing ahead.                                         *)

(* What generate_signal returns. *)
SignalsTyped ==
    \A window \in Seq(Observations) :
        SignalOn(window) \in [bias : {"LONG", "SHORT", "WAIT"}, score : Int, atr : Int]

(* The states of the walk over a chart. *)
Trade == [position : Position, exit_index : Nat, exit : Exit, move : Int]
Walks == [open : Position \cup {None}, trades : Seq(Trade)]
Idle == [open |-> None, trades |-> <<>>]

(* What a signal opens, and how a trade closes, are positions and exits. *)
LEMMA EntryType ==
    ASSUME SignalsTyped, NEW bars \in Seq(Observations), NEW i \in 1..Len(bars),
           i + 1 <= Len(bars)
    PROVE  /\ EntryAfter(bars, i) \in Position \cup {None}
           /\ EntryAfter(bars, i) # None => EntryAfter(bars, i).entry_index = i + 1
  <1>1. Len(bars) \in Nat /\ i \in Nat
    BY LenProperties
  <1>2. bars[i + 1] \in Observations
    <2>1. i + 1 \in 1..Len(bars)
      BY <1>1
    <2> QED
      BY <2>1, ElementOfSeq
  <1>3. SubSeq(bars, 1, i) \in Seq(Observations)
    <2>1. \A k \in 1..i : bars[k] \in Observations
      BY <1>1, ElementOfSeq
    <2> QED
      BY <1>1, <2>1, SubSeqProperties
  <1> DEFINE signal == SignalOn(SubSeq(bars, 1, i))
             price == bars[i + 1].open
             risk == signal.atr * StopMultiple
             far == signal.atr * TargetMultiple
             side == Side(signal.bias)
  <1>4. signal \in [bias : {"LONG", "SHORT", "WAIT"}, score : Int, atr : Int]
    BY <1>3 DEF SignalsTyped
  <1>5. price \in Int /\ risk \in Int /\ far \in Int /\ side \in {1, -1}
    <2>1. signal.atr \in Int /\ StopMultiple \in Int /\ TargetMultiple \in Int
      BY <1>4, ParamsAssumption
    <2>2. price \in Int
      BY <1>2 DEF Observations
    <2> HIDE DEF signal
    <2> QED
      BY <2>1, <2>2 DEF Side
  <1>6. price - side * risk \in Int /\ price + side * far \in Int
    <2> HIDE DEF price, side, risk, far
    <2> QED
      BY <1>5
  <1>7. CASE signal.bias = "WAIT" \/ signal.score < LeastScore \/ signal.atr <= 0
    BY <1>7, Zenon DEF EntryAfter
  <1>8. CASE ~(signal.bias = "WAIT" \/ signal.score < LeastScore \/ signal.atr <= 0)
    <2>1. signal.bias \in {"LONG", "SHORT"}
      BY <1>4, <1>8
    <2>2. EntryAfter(bars, i) =
             [direction |-> signal.bias, entry_index |-> i + 1, entry |-> price,
              stop |-> price - side * risk, target |-> price + side * far, risk |-> risk]
      <3>1. side * signal.atr * TargetMultiple = side * far
        <4>1. signal.atr \in Int /\ TargetMultiple \in Int
          BY <1>4, ParamsAssumption
        <4> HIDE DEF signal, side
        <4> QED
          BY <1>5, <4>1
      <3> QED
        BY <1>8, <3>1 DEF EntryAfter
    <2> HIDE DEF signal, price, side, risk, far
    <2>3. EntryAfter(bars, i) \in Position /\ EntryAfter(bars, i).entry_index = i + 1
      BY <1>1, <1>5, <1>6, <2>1, <2>2 DEF Position
    <2> QED
      BY <2>3
  <1> QED
    BY <1>7, <1>8

LEMMA OutcomeType ==
    ASSUME NEW open \in Position, NEW bar \in Observations, NEW held \in Int
    PROVE  Outcome(open, bar, held) \in Exit \cup {None}
  BY DEF Outcome, Exit, Closed, Position, Observations

(* What one turn of the loop does to a walk. *)
LEMMA VisitIs ==
    ASSUME SignalsTyped, NEW bars \in Seq(Observations), NEW w \in Walks,
           NEW i \in 1..Len(bars)
    PROVE  /\ Visit(bars, w, i) \in Walks
           /\ w.open = None =>
                 Visit(bars, w, i) = IF i + 1 > Len(bars) THEN w
                                     ELSE [open |-> EntryAfter(bars, i), trades |-> w.trades]
           /\ w.open # None =>
                 LET outcome == Outcome(w.open, bars[i], i - w.open.entry_index)
                 IN  /\ w.open \in Position
                     /\ outcome = None => Visit(bars, w, i) = w
                     /\ outcome # None =>
                           /\ outcome \in Exit
                           /\ \E trade \in Trade :
                                 /\ trade.position = w.open /\ trade.exit_index = i
                                 /\ trade.exit = outcome
                                 /\ trade.move = Side(w.open.direction)
                                        * (outcome.price - w.open.entry) - RoundTrip
                                 /\ Visit(bars, w, i) =
                                       [open |-> None, trades |-> Append(w.trades, trade)]
  <1>1. /\ Len(bars) \in Nat /\ i \in Nat /\ bars[i] \in Observations
    BY LenProperties, ElementOfSeq
  <1>2. /\ w = [open |-> w.open, trades |-> w.trades]
        /\ w.open \in Position \cup {None} /\ w.trades \in Seq(Trade)
    BY DEF Walks
  <1>3. CASE w.open = None
    <2>1. Visit(bars, w, i) = IF i + 1 > Len(bars) THEN w
                              ELSE [open |-> EntryAfter(bars, i), trades |-> w.trades]
      <3>1. [w EXCEPT !.open = EntryAfter(bars, i)]
              = [open |-> EntryAfter(bars, i), trades |-> w.trades]
        BY DEF Walks
      <3> QED
        BY <1>3, <3>1, Zenon DEF Visit
    <2>2. i + 1 <= Len(bars) => EntryAfter(bars, i) \in Position \cup {None}
      BY EntryType
    <2>3. Visit(bars, w, i) \in Walks
      BY <1>1, <1>2, <2>1, <2>2 DEF Walks
    <2> QED
      BY <1>3, <2>1, <2>3
  <1>4. CASE w.open # None
    <2> DEFINE outcome == Outcome(w.open, bars[i], i - w.open.entry_index)
               move == Side(w.open.direction) * (outcome.price - w.open.entry) - RoundTrip
               trade == [position |-> w.open, exit_index |-> i, exit |-> outcome, move |-> move]
    <2>1. w.open \in Position /\ w.open.entry_index \in Nat /\ w.open.entry \in Int
          /\ i - w.open.entry_index \in Int
      BY <1>1, <1>2, <1>4 DEF Position
    <2>2. outcome \in Exit \cup {None}
      BY <1>1, <2>1, OutcomeType
    <2>3. Visit(bars, w, i) = IF outcome = None THEN w
                              ELSE [open |-> None, trades |-> Append(w.trades, trade)]
      BY <1>4, Zenon DEF Visit
    <2> HIDE DEF outcome
    <2>4. ASSUME outcome # None
          PROVE  trade \in Trade /\ Append(w.trades, trade) \in Seq(Trade)
      <3>1. outcome \in Exit
        BY <2>2, <2>4
      <3>2. move \in Int
        <4>1. outcome.price \in Int /\ RoundTrip \in Int
          BY <3>1, ParamsAssumption DEF Exit
        <4>2. Side(w.open.direction) \in {1, -1}
          BY DEF Side
        <4> QED
          BY <2>1, <4>1, <4>2
      <3>3. trade \in Trade
        <4> HIDE DEF move
        <4> QED
          BY <1>1, <2>1, <3>1, <3>2 DEF Trade
      <3> HIDE DEF trade
      <3> QED
        BY <1>2, <3>3, AppendProperties
    <2> HIDE DEF move
    <2>5. CASE outcome = None
      BY <1>4, <2>1, <2>3, <2>5 DEF outcome
    <2>6. CASE outcome # None
      <3>1. /\ trade.position = w.open /\ trade.exit_index = i
            /\ trade.exit = outcome /\ trade.move = move
        OBVIOUS
      <3> HIDE DEF trade
      <3>2. Visit(bars, w, i) = [open |-> None, trades |-> Append(w.trades, trade)]
        BY <2>3, <2>6
      <3>3. Visit(bars, w, i) \in Walks
        BY <2>4, <2>6, <3>2 DEF Walks
      <3>4. outcome \in Exit
        BY <2>2, <2>6
      <3> QED
        BY <1>4, <2>1, <2>4, <2>6, <3>1, <3>2, <3>3, <3>4 DEF outcome, move
    <2> QED
      BY <2>5, <2>6
  <1> QED
    BY <1>3, <1>4

(* The loop is defined on the bars there are. *)
LEMMA WalkIs ==
    ASSUME SignalsTyped, NEW bars \in Seq(Observations)
    PROVE  \A i \in 0..Len(bars) :
              /\ Walk(bars)[i] \in Walks
              /\ i <= Warmup => Walk(bars)[i] = Idle
              /\ i > Warmup =>
                    /\ i - 1 \in 0..Len(bars) /\ i \in 1..Len(bars)
                    /\ Walk(bars)[i] = Visit(bars, Walk(bars)[i - 1], i)
  <1> DEFINE n == Len(bars)
             turn(w, i) == IF i <= Warmup THEN Idle ELSE Visit(bars, w, i)
             step == [p \in Walks \X Nat |-> IF p[2] <= n THEN turn(p[1], p[2]) ELSE p[1]]
  <1>1. n \in Nat /\ Warmup \in Nat /\ Warmup > 0
    BY LenProperties, ParamsAssumption
  <1>2. Idle \in Walks
    BY EmptySeq DEF Idle, Walks
  <1>3. ASSUME NEW w \in Walks, NEW i \in Nat, i <= n
        PROVE  turn(w, i) \in Walks
    <2>1. CASE i <= Warmup
      BY <1>2, <2>1
    <2>2. CASE i > Warmup
      <3>1. i \in 1..Len(bars)
        BY <1>1, <1>3, <2>2
      <3>2. Visit(bars, w, i) \in Walks
        BY <3>1, VisitIs
      <3> QED
        BY <1>1, <2>2, <3>2
    <2> QED
      BY <1>1, <2>1, <2>2
  <1> HIDE DEF turn
  <1>4. step \in [Walks \X Nat -> Walks]
    BY <1>3
  <1>5. PICK f \in [Nat -> Walks] : Repeats(f, Idle, step)
    <2> HIDE DEF step
    <2>1. step \in [Walks \X Nat -> Walks] /\ Idle \in Walks
      BY <1>2, <1>4
    <2> QED
      BY <2>1, Iterates
  <1>11. f[0] = Idle /\ \A k \in Nat : f[k + 1] = step[<<f[k], k + 1>>]
    BY <1>5 DEF Repeats
  <1> DEFINE walk == Walk(bars)
             g == [i \in 0..n |-> f[i]]
  <1>6. g = [i \in 0..n |-> turn(g[i - 1], i)]
    <2>1. ASSUME NEW i \in 0..n PROVE f[i] = turn(g[i - 1], i)
      <3>1. CASE i = 0
        BY <1>1, <1>11, <3>1 DEF turn
      <3>2. CASE i # 0
        <4>1. i - 1 \in Nat /\ (i - 1) + 1 = i /\ i - 1 \in 0..n /\ i \in Nat /\ i <= n
          BY <1>1, <3>2
        <4>2. f[i] = step[<<f[i - 1], i>>] /\ f[i - 1] \in Walks
          BY <1>11, <4>1
        <4>3. g[i - 1] = f[i - 1]
          BY <4>1
        <4> QED
          BY <4>1, <4>2, <4>3
      <3> QED
        BY <3>1, <3>2
    <2> QED
      BY <2>1
  <1>7. walk = CHOOSE h : h = [i \in 0..n |-> turn(h[i - 1], i)]
    BY DEF Walk, turn, Idle
  <1>8. walk = [i \in 0..n |-> turn(walk[i - 1], i)]
    <2> HIDE DEF g, walk, n
    <2> QED
      BY <1>6, <1>7
  <1> HIDE DEF walk
  <1> DEFINE P == {i \in Nat : i <= n => walk[i] \in Walks}
  <1>9. \A i \in Nat : i \in P
    <2>1. 0 \in P
      BY <1>1, <1>2, <1>8 DEF turn
    <2>2. ASSUME NEW i \in P PROVE i + 1 \in P
      <3>1. SUFFICES ASSUME i + 1 <= n PROVE walk[i + 1] \in Walks
        OBVIOUS
      <3>2. walk[i] \in Walks /\ i \in Nat /\ (i + 1) - 1 = i
        BY <1>1, <3>1
      <3>3. walk[i + 1] = turn(walk[i], i + 1)
        BY <1>1, <1>8, <3>1, <3>2
      <3> QED
        BY <1>3, <3>1, <3>2, <3>3
    <2> HIDE DEF P
    <2>3. P \in SUBSET Nat
      BY DEF P
    <2> QED
      BY <2>1, <2>2, <2>3, NatSet
  <1>10. ASSUME NEW i \in 0..Len(bars)
         PROVE  /\ walk[i] \in Walks
                /\ i <= Warmup => walk[i] = Idle
                /\ i > Warmup =>
                      /\ i - 1 \in 0..Len(bars) /\ i \in 1..Len(bars)
                      /\ walk[i] = Visit(bars, walk[i - 1], i)
    <2>1. walk[i] \in Walks
      BY <1>1, <1>9
    <2>2. walk[i] = turn(walk[i - 1], i)
      BY <1>8
    <2> QED
      BY <1>1, <2>1, <2>2 DEF turn
  <1> QED
    BY <1>10 DEF walk

-----------------------------------------------------------------------------
(* The positions a walk has taken: a visit takes one at most, and closes    *)
(* one at most.                                                             *)
Taken(w) == {w.trades[k].position : k \in DOMAIN w.trades} \cup ({w.open} \ {None})

LEMMA TakenBy ==
    ASSUME SignalsTyped, NEW bars \in Seq(Observations), NEW w \in Walks,
           NEW i \in 1..Len(bars)
    PROVE  /\ Taken(Visit(bars, w, i)) =
                 Taken(w) \cup
                    (IF w.open = None /\ i + 1 <= Len(bars) THEN {EntryAfter(bars, i)} \ {None}
                                                            ELSE {})
           /\ \/ Visit(bars, w, i).trades = w.trades
              \/ \E trade \in Trade : Visit(bars, w, i).trades = Append(w.trades, trade)
  <1>1. /\ Len(bars) \in Nat /\ w.trades \in Seq(Trade)
        /\ w.open \in Position \cup {None}
    BY LenProperties DEF Walks
  <1>2. CASE w.open = None
    <2>1. CASE i + 1 > Len(bars)
      <3>1. Visit(bars, w, i) = w /\ ~(i + 1 <= Len(bars))
        BY <1>1, <1>2, <2>1, VisitIs
      <3> QED
        BY <3>1
    <2>2. CASE ~(i + 1 > Len(bars))
      <3>1. /\ Visit(bars, w, i) = [open |-> EntryAfter(bars, i), trades |-> w.trades]
            /\ i + 1 <= Len(bars)
        BY <1>1, <1>2, <2>2, VisitIs
      <3> DEFINE made == Visit(bars, w, i)
      <3>2. made.open = EntryAfter(bars, i) /\ made.trades = w.trades
        BY <3>1
      <3> HIDE DEF made
      <3>3. Taken(made) = Taken(w) \cup ({EntryAfter(bars, i)} \ {None})
        BY <1>2, <3>2, Zenon DEF Taken
      <3> QED
        BY <1>2, <3>1, <3>2, <3>3 DEF made
    <2> QED
      BY <2>1, <2>2
  <1>3. CASE w.open # None
    <2> DEFINE outcome == Outcome(w.open, bars[i], i - w.open.entry_index)
    <2>1. CASE outcome = None
      <3>1. Visit(bars, w, i) = w
        BY <1>3, <2>1, VisitIs
      <3> QED
        BY <1>3, <3>1
    <2>2. CASE outcome # None
      <3>1. PICK trade \in Trade :
               /\ trade.position = w.open
               /\ Visit(bars, w, i) = [open |-> None, trades |-> Append(w.trades, trade)]
        BY <1>3, <2>2, VisitIs
      <3> DEFINE made == Visit(bars, w, i)
      <3>2. made.open = None /\ made.trades = Append(w.trades, trade)
        BY <3>1
      <3> HIDE DEF made
      <3>3. /\ DOMAIN w.trades = 1..Len(w.trades) /\ Len(w.trades) \in Nat
            /\ DOMAIN made.trades = 1..(Len(w.trades) + 1)
            /\ made.trades[Len(w.trades) + 1] = trade
            /\ \A k \in 1..Len(w.trades) : made.trades[k] = w.trades[k]
        BY <1>1, <3>2, AppendProperties, LenProperties
      <3>4. \A p : p \in Taken(made) <=> p \in Taken(w)
        <4>1. \A p : p \in Taken(made) <=> \E k \in DOMAIN made.trades : p = made.trades[k].position
          BY <3>2, Zenon DEF Taken
        <4>2. \A p : p \in Taken(w) <=>
                 p = w.open \/ \E k \in DOMAIN w.trades : p = w.trades[k].position
          BY <1>3, Zenon DEF Taken
        <4>3. \A k \in DOMAIN made.trades : k \in DOMAIN w.trades \/ k = Len(w.trades) + 1
          BY <3>3
        <4>4. \A k \in DOMAIN w.trades : k \in DOMAIN made.trades /\ made.trades[k] = w.trades[k]
          BY <3>3
        <4>5. /\ Len(w.trades) + 1 \in DOMAIN made.trades
              /\ made.trades[Len(w.trades) + 1].position = w.open
          BY <3>1, <3>3
        <4> QED
          BY <4>1, <4>2, <4>3, <4>4, <4>5, Zenon
      <3> QED
        BY <1>3, <3>2, <3>4 DEF made
    <2> QED
      BY <2>1, <2>2
  <1> QED
    BY <1>2, <1>3

(* Before the last bar a walk has read nothing that can still change. *)
LEMMA WalksAgree ==
    ASSUME SignalsTyped, NEW bars, NEW more, Continues(bars, more)
    PROVE  \A i \in 0..(Len(bars) - 1) : Walk(more)[i] = Walk(bars)[i]
  <1>1. /\ bars \in Seq(Observations) /\ more \in Seq(Observations)
        /\ Len(bars) \in Nat /\ Len(more) \in Nat
        /\ Len(more) \in {Len(bars), Len(bars) + 1}
        /\ \A k \in 1..Len(bars) :
              more[k].open = bars[k].open /\ (k # Len(bars) => more[k] = bars[k])
    BY LenProperties DEF Continues
  <1> DEFINE n == Len(bars)
             P == {i \in Nat : i <= n - 1 => Walk(more)[i] = Walk(bars)[i]}
  <1>2. Warmup \in Nat \ {0}
    BY ParamsAssumption
  <1>3. 0 \in P
    <2>1. SUFFICES ASSUME 0 <= n - 1 PROVE Walk(more)[0] = Walk(bars)[0]
      OBVIOUS
    <2>2. 0 \in 0..Len(bars) /\ 0 \in 0..Len(more) /\ 0 <= Warmup
      BY <1>1, <1>2
    <2> QED
      BY <1>1, <2>2, WalkIs
  <1>4. ASSUME NEW j \in P PROVE j + 1 \in P
    <2> DEFINE i == j + 1
    <2>1. SUFFICES ASSUME i <= n - 1 PROVE Walk(more)[i] = Walk(bars)[i]
      OBVIOUS
    <2>2. /\ j \in Nat /\ i \in 1..n /\ i \in 1..Len(more) /\ i + 1 \in 1..n
          /\ i \in 0..n /\ i \in 0..Len(more) /\ i - 1 = j /\ i # n /\ i \in Nat
          /\ j \in 0..n /\ i + 1 <= n /\ i + 1 <= Len(more)
      BY <1>1, <2>1
    <2>3. Walk(more)[j] = Walk(bars)[j] /\ Walk(bars)[j] \in Walks
      <3>1. Walk(bars)[j] \in Walks
        BY <1>1, <2>2, WalkIs
      <3>2. j <= n - 1
        BY <1>1, <2>2
      <3> QED
        BY <3>1, <3>2
    <2> HIDE DEF i, n
    <2>4. CASE i <= Warmup
      BY <1>1, <2>2, <2>4, WalkIs DEF n
    <2>5. CASE ~(i <= Warmup)
      <3>1. i > Warmup
        BY <1>2, <2>2, <2>5
      <3>2. /\ Walk(more)[i] = Visit(more, Walk(more)[j], i)
            /\ Walk(bars)[i] = Visit(bars, Walk(bars)[j], i)
        BY <1>1, <2>2, <3>1, WalkIs DEF n
      <3>3. SubSeq(more, 1, i) = SubSeq(bars, 1, i)
        <4>1. \A k \in 1..i : k \in 1..n /\ k # n
          BY <1>1, <2>2 DEF n
        <4>2. /\ \A k \in 1..i : bars[k] = more[k] /\ bars[k] \in Observations
                                 /\ more[k] \in Observations
          BY <1>1, <4>1, ElementOfSeq DEF n
        <4>3. /\ SubSeq(more, 1, i) = [k \in 1..i |-> more[k]]
              /\ SubSeq(bars, 1, i) = [k \in 1..i |-> bars[k]]
          <5>1. /\ SubSeq(bars, 1, i) \in Seq(Observations)
                /\ SubSeq(more, 1, i) \in Seq(Observations)
                /\ Len(SubSeq(bars, 1, i)) = i /\ Len(SubSeq(more, 1, i)) = i
                /\ \A k \in 1..i : SubSeq(bars, 1, i)[k] = bars[k]
                /\ \A k \in 1..i : SubSeq(more, 1, i)[k] = more[k]
            BY <1>1, <2>2, <4>2, SubSeqProperties
          <5> QED
            BY <5>1, LenProperties
        <4> QED
          BY <4>2, <4>3
      <3>4. EntryAfter(more, i) = EntryAfter(bars, i)
        <4>1. more[i + 1].open = bars[i + 1].open
          BY <1>1, <2>2 DEF n
        <4> QED
          BY <3>3, <4>1, Zenon DEF EntryAfter
      <3>5. more[i] = bars[i]
        BY <1>1, <2>2 DEF n
      <3>6. ~(i + 1 > Len(bars)) /\ ~(i + 1 > Len(more))
        BY <1>1, <2>2 DEF n
      <3>7. Visit(more, Walk(bars)[j], i) = Visit(bars, Walk(bars)[j], i)
        BY <3>4, <3>5, <3>6, Zenon DEF Visit
      <3> QED
        BY <2>3, <3>2, <3>7
    <2> QED
      BY <2>4, <2>5
  <1> HIDE DEF P
  <1>5. \A i \in Nat : i \in P
    <2>1. P \in SUBSET Nat
      BY DEF P
    <2> QED
      BY <1>3, <1>4, <2>1, NatSet
  <1>6. ASSUME NEW i \in 0..(n - 1) PROVE Walk(more)[i] = Walk(bars)[i]
    <2>1. i \in Nat /\ i <= n - 1
      BY <1>1
    <2> QED
      BY <1>5, <2>1 DEF P
  <1> QED
    BY <1>6

(* A position is entered on a later bar than the one the loop is at by one  *)
(* at most. *)
LEMMA TakenBefore ==
    ASSUME SignalsTyped, NEW bars \in Seq(Observations)
    PROVE  \A i \in 0..Len(bars) : \A p \in Taken(Walk(bars)[i]) :
              p \in Position /\ p.entry_index <= i + 1
  <1> DEFINE n == Len(bars)
             P == {i \in Nat : i <= n => \A p \in Taken(Walk(bars)[i]) :
                                            p \in Position /\ p.entry_index <= i + 1}
  <1>1. n \in Nat /\ Warmup \in Nat \ {0}
    BY LenProperties, ParamsAssumption
  <1>2. Taken(Idle) = {}
    <2>1. Idle.open = None /\ DOMAIN Idle.trades = {}
      BY DEF Idle
    <2> QED
      BY <2>1, Zenon DEF Taken
  <1>3. 0 \in P
    <2>1. 0 \in 0..Len(bars) /\ 0 <= Warmup
      BY <1>1
    <2>2. Walk(bars)[0] = Idle
      BY <2>1, WalkIs
    <2> QED
      BY <1>2, <2>2
  <1>4. ASSUME NEW j \in P PROVE j + 1 \in P
    <2> DEFINE i == j + 1
    <2>1. SUFFICES ASSUME i <= n, NEW p \in Taken(Walk(bars)[i])
                   PROVE  p \in Position /\ p.entry_index <= i + 1
      OBVIOUS
    <2>2. /\ j \in Nat /\ i \in 1..n /\ i \in 0..n /\ i - 1 = j /\ j \in 0..n /\ i \in Nat /\ j <= n
      BY <1>1, <2>1
    <2>3. \A q \in Taken(Walk(bars)[j]) : q \in Position /\ q.entry_index <= i
      BY <2>2
    <2> HIDE DEF i, n
    <2>4. CASE i <= Warmup
      BY <1>2, <2>1, <2>2, <2>4, WalkIs DEF n
    <2>5. CASE ~(i <= Warmup)
      <3>1. i > Warmup
        BY <1>1, <2>2, <2>5
      <3>2. Walk(bars)[i] = Visit(bars, Walk(bars)[j], i) /\ Walk(bars)[j] \in Walks
        BY <2>2, <3>1, WalkIs DEF n
      <3>3. \/ p \in Taken(Walk(bars)[j])
            \/ i + 1 <= Len(bars) /\ p = EntryAfter(bars, i) /\ p # None
        BY <2>1, <2>2, <3>2, TakenBy DEF n
      <3>4. CASE p \in Taken(Walk(bars)[j])
        <4>1. p \in Position /\ p.entry_index <= i
          BY <2>3, <3>4
        <4>2. p.entry_index \in Nat
          BY <4>1 DEF Position
        <4> QED
          BY <2>2, <4>1, <4>2
      <3>5. CASE i + 1 <= Len(bars) /\ p = EntryAfter(bars, i) /\ p # None
        <4>1. p \in Position /\ p.entry_index = i + 1
          BY <2>2, <3>5, EntryType DEF n
        <4> QED
          BY <2>2, <4>1
      <3> QED
        BY <3>3, <3>4, <3>5
    <2> QED
      BY <2>4, <2>5
  <1> HIDE DEF P
  <1>5. \A i \in Nat : i \in P
    <2>1. P \in SUBSET Nat
      BY DEF P
    <2> QED
      BY <1>3, <1>4, <2>1, NatSet
  <1>6. ASSUME NEW i \in 0..n PROVE i \in P /\ i <= n
    BY <1>1, <1>5
  <1> QED
    BY <1>6 DEF P

(* What a run has taken and closed, from the bar before the last on. *)
LEMMA LastTurn ==
    ASSUME SignalsTyped, NEW bars \in Seq(Observations), Len(bars) > Warmup + 1,
           NEW before, before = Walk(bars)[Len(bars) - 1],
           NEW after, after = Walk(bars)[Len(bars)]
    PROVE  /\ before \in Walks /\ after \in Walks
           /\ after = Visit(bars, before, Len(bars)) /\ Len(bars) \in 1..Len(bars)
           /\ Taken(after) = Taken(before)
           /\ \/ after.trades = before.trades
              \/ \E trade \in Trade : after.trades = Append(before.trades, trade)
           /\ \A p \in Taken(after) : p \in Position /\ p.entry_index <= Len(bars)
  <1> DEFINE n == Len(bars)
  <1>1. /\ n \in Nat /\ n \in 1..n /\ n \in 0..n /\ n - 1 \in 0..n /\ n > Warmup
        /\ ~(n + 1 <= n) /\ (n - 1) + 1 = n
    BY LenProperties, ParamsAssumption
  <1>2. before \in Walks /\ after \in Walks /\ after = Visit(bars, before, n)
    BY <1>1, WalkIs
  <1>3. Taken(after) = Taken(before)
    <2>1. Taken(Visit(bars, before, n)) =
             Taken(before) \cup
                (IF before.open = None /\ n + 1 <= Len(bars) THEN {EntryAfter(bars, n)} \ {None}
                                                             ELSE {})
      BY <1>1, <1>2, TakenBy
    <2> QED
      BY <1>1, <1>2, <2>1
  <1>4. \A p \in Taken(before) : p \in Position /\ p.entry_index <= n
    BY <1>1, TakenBefore
  <1> QED
    BY <1>1, <1>2, <1>3, <1>4, TakenBy

(* Two charts that agree up to a bar give the same backtest up to it. *)
LEMMA NothingAhead ==
    ASSUME SignalsTyped, NEW bars, NEW more, Continues(bars, more),
           Len(bars) >= Warmup + MaxBarsHeld + 2,
           NEW w, w = Walk(bars)[Len(bars)],
           NEW v, v = Walk(more)[Len(more)]
    PROVE  /\ {p \in Taken(v) : p.entry_index <= Len(bars)} = Taken(w)
           /\ SubSeq(more, 1, Len(bars)) = bars => IsPrefix(w.trades, v.trades)
  <1> DEFINE n == Len(bars)
             u == Walk(bars)[n - 1]
             x == Walk(more)[n]
  <1>1. /\ bars \in Seq(Observations) /\ more \in Seq(Observations)
        /\ n \in Nat /\ Len(more) \in Nat /\ Len(more) \in {n, n + 1}
    BY LenProperties DEF Continues
  <1>2. n > Warmup + 1 /\ n - 1 \in 0..(n - 1) /\ n - 1 \in Nat
    BY <1>1, ParamsAssumption
  <1>3. Walk(more)[n - 1] = u
    BY <1>2, WalksAgree
  <1>4. /\ u \in Walks /\ w \in Walks /\ w = Visit(bars, u, n) /\ n \in 1..n
        /\ Taken(w) = Taken(u)
        /\ \/ w.trades = u.trades
           \/ \E trade \in Trade : w.trades = Append(u.trades, trade)
        /\ \A p \in Taken(w) : p \in Position /\ p.entry_index <= n
    BY <1>1, <1>2, LastTurn
  <1>5. x = Visit(more, u, n) /\ x \in Walks /\ n \in 1..Len(more)
    <2>1. n \in 0..Len(more) /\ n > Warmup
      BY <1>1, <1>2, ParamsAssumption
    <2> QED
      BY <1>1, <1>3, <2>1, WalkIs
  <1>6. {p \in Taken(x) : p.entry_index <= n} = Taken(w)
    <2>1. Taken(x) = Taken(u) \cup
             (IF u.open = None /\ n + 1 <= Len(more) THEN {EntryAfter(more, n)} \ {None} ELSE {})
      BY <1>1, <1>4, <1>5, TakenBy
    <2>2. n + 1 <= Len(more) /\ EntryAfter(more, n) # None => ~(EntryAfter(more, n).entry_index <= n)
      <3>1. SUFFICES ASSUME n + 1 <= Len(more), EntryAfter(more, n) # None
                     PROVE  ~(EntryAfter(more, n).entry_index <= n)
        OBVIOUS
      <3>2. EntryAfter(more, n).entry_index = n + 1
        BY <1>1, <1>5, <3>1, EntryType
      <3> QED
        BY <1>1, <3>2
    <2> HIDE DEF x, u, n
    <2> QED
      BY <1>4, <2>1, <2>2
  <1>7. SubSeq(more, 1, n) = bars => x.trades = w.trades
    <2>1. SUFFICES ASSUME SubSeq(more, 1, n) = bars PROVE x.trades = w.trades
      OBVIOUS
    <2>2. more[n] = bars[n]
      <3>1. \A k \in 1..n : more[k] \in Observations
        BY <1>1, ElementOfSeq
      <3>2. SubSeq(more, 1, n)[n] = more[n]
        BY <1>1, <1>4, <1>5, <3>1, SubSeqProperties
      <3> QED
        BY <2>1, <3>2
    <2>3. CASE u.open = None
      <3>1. Visit(more, u, n) = IF n + 1 > Len(more) THEN u
                                ELSE [open |-> EntryAfter(more, n), trades |-> u.trades]
        BY <1>1, <1>4, <1>5, <2>3, VisitIs
      <3>2. Visit(bars, u, n) = u
        <4>1. n + 1 > Len(bars)
          BY <1>1
        <4>2. Visit(bars, u, n) = IF n + 1 > Len(bars) THEN u
                                  ELSE [open |-> EntryAfter(bars, n), trades |-> u.trades]
          BY <1>1, <1>4, <2>3, VisitIs
        <4> QED
          BY <4>1, <4>2
      <3> HIDE DEF x, u, n
      <3> QED
        BY <1>4, <1>5, <3>1, <3>2
    <2>4. CASE u.open # None
      <3> HIDE DEF n, u, x
      <3>1. Visit(more, u, n) = Visit(bars, u, n)
        BY <2>2, <2>4, Zenon DEF Visit
      <3> QED
        BY <1>4, <1>5, <3>1
    <2> QED
      BY <2>3, <2>4
  <1>8. /\ {p \in Taken(v) : p.entry_index <= n} = {p \in Taken(x) : p.entry_index <= n}
        /\ v \in Walks
        /\ \/ v.trades = x.trades
           \/ \E trade \in Trade : v.trades = Append(x.trades, trade)
    <2>1. CASE Len(more) = n
      BY <1>5, <2>1
    <2>2. CASE Len(more) = n + 1
      <3>1. Len(more) > Warmup + 1 /\ Len(more) - 1 = n
        BY <1>1, <1>2, <2>2, ParamsAssumption
      <3>2. x = Walk(more)[Len(more) - 1]
        BY <3>1
      <3> HIDE DEF x, n
      <3> QED
        BY <1>1, <3>1, <3>2, LastTurn
    <2> QED
      BY <1>1, <2>1, <2>2
  <1>9. SubSeq(more, 1, n) = bars => IsPrefix(w.trades, v.trades)
    <2>1. SUFFICES ASSUME SubSeq(more, 1, n) = bars PROVE IsPrefix(w.trades, v.trades)
      OBVIOUS
    <2>2. /\ x.trades = w.trades /\ w.trades \in Seq(Trade) /\ v.trades \in Seq(Trade)
      BY <1>4, <1>7, <1>8, <2>1 DEF Walks
    <2> DEFINE s == w.trades
               t == v.trades
    <2>3. /\ Len(s) \in Nat /\ Len(t) \in Nat /\ Len(s) <= Len(t)
          /\ \A k \in 1..Len(s) : t[k] = s[k]
      <3>1. CASE t = s
        BY <2>2, <3>1, LenProperties
      <3>2. ASSUME NEW trade \in Trade, t = Append(s, trade)
            PROVE  /\ Len(s) \in Nat /\ Len(t) \in Nat /\ Len(s) <= Len(t)
                   /\ \A k \in 1..Len(s) : t[k] = s[k]
        <4>1. Len(t) = Len(s) + 1 /\ \A k \in 1..Len(s) : t[k] = s[k]
          BY <2>2, <3>2, AppendProperties
        <4> HIDE DEF s, t
        <4>2. Len(s) \in Nat
          BY <2>2, LenProperties DEF s
        <4> QED
          BY <4>1, <4>2
      <3> QED
        BY <1>8, <2>2, <3>1, <3>2
    <2> HIDE DEF s, t
    <2>4. s \in Seq(Trade) /\ t \in Seq(Trade)
      BY <2>2 DEF s, t
    <2>5. SubSeq(s, 1, Len(s)) = SubSeq(t, 1, Len(s))
      <3>1. \A k \in 1..Len(s) : s[k] \in Trade /\ t[k] \in Trade
        BY <2>3, <2>4, ElementOfSeq
      <3>2. /\ SubSeq(s, 1, Len(s)) \in Seq(Trade) /\ SubSeq(t, 1, Len(s)) \in Seq(Trade)
            /\ Len(SubSeq(s, 1, Len(s))) = Len(s) /\ Len(SubSeq(t, 1, Len(s))) = Len(s)
            /\ \A k \in 1..Len(s) : SubSeq(s, 1, Len(s))[k] = s[k]
            /\ \A k \in 1..Len(s) : SubSeq(t, 1, Len(s))[k] = t[k]
        <4>1. \A k \in 1..Len(s) : k \in Nat
          BY <2>3
        <4> QED
          BY <2>3, <2>4, <3>1, SubSeqProperties
      <3> QED
        BY <2>3, <3>2, SeqEqual
    <2> QED
      BY <2>3, <2>5 DEF IsPrefix, s, t
  <1> QED
    BY <1>6, <1>8, <1>9

(* NoLookAhead, for every history, every strategy and every parameter: the   *)
(* walk never reads what a later bar, or another close of the newest one,    *)
(* could still change (run_backtest). *)
THEOREM NothingIsSeenAhead == ASSUME SignalsTyped PROVE Spec => NoLookAhead
  <1>1. HistoryInv /\ [Next]_vars =>
          [question = "history" /\ question' = "history" =>
             LET before == RunBacktest(input)
                 after  == RunBacktest(input')
                 known  == Len(Bars)
             IN  before.ran =>
                   /\ {p \in Positions(after) : p.entry_index <= known} = Positions(before)
                   /\ SubSeq(Bars', 1, known) = Bars =>
                         IsPrefix(before.trades, after.trades)]_vars
    <2> DEFINE before == RunBacktest(input)
               after == RunBacktest(input')
    <2>1. SUFFICES ASSUME HistoryInv, Next, question = "history", question' = "history", before.ran
                   PROVE  /\ {p \in Positions(after) : p.entry_index <= Len(Bars)} = Positions(before)
                          /\ SubSeq(Bars', 1, Len(Bars)) = Bars =>
                                IsPrefix(before.trades, after.trades)
      BY Zenon
    <2>2. NextBar \/ SameBar
      BY <2>1 DEF Next, AskHistory, AskSignal, AskTimeframes, AskPlan, AskMetrics, Ask, Answered
    <2>3. HistorySound(input)
      BY <2>1 DEF HistoryInv
    <2>4. Continues(Bars, Bars')
      BY <2>2, <2>3, FrameContinues
    <2> DEFINE w == Walk(Bars)[Len(Bars)]
               v == Walk(Bars')[Len(Bars')]
    <2>5. ~(Len(Bars) < Warmup + MaxBarsHeld + 2)
      BY <2>1 DEF RunBacktest, Bars
    <2>6. Len(Bars) \in Nat /\ Len(Bars') \in Nat /\ Len(Bars') \in {Len(Bars), Len(Bars) + 1}
      BY <2>4, LenProperties DEF Continues
    <2>7. ~(Len(Bars') < Warmup + MaxBarsHeld + 2) /\ Len(Bars) >= Warmup + MaxBarsHeld + 2
      BY <2>5, <2>6, ParamsAssumption
    <2>8. /\ before.open = w.open /\ before.trades = w.trades
          /\ after.open = v.open /\ after.trades = v.trades
      BY <2>5, <2>7 DEF RunBacktest, Bars
    <2> HIDE DEF before, after, w, v
    <2>9. Positions(before) = Taken(w) /\ Positions(after) = Taken(v)
      BY <2>8, Zenon DEF Positions, Taken
    <2>10. /\ {p \in Taken(v) : p.entry_index <= Len(Bars)} = Taken(w)
           /\ SubSeq(Bars', 1, Len(Bars)) = Bars => IsPrefix(w.trades, v.trades)
      BY <2>4, <2>7, NothingAhead DEF w, v
    <2> QED
      BY <2>8, <2>9, <2>10
  <1> QED
    BY <1>1, HistoryInvariance, PTL DEF Spec, NoLookAhead

-----------------------------------------------------------------------------
(* The trades of the backtest are honest.                                   *)

(* What TradesAreHonest says of one trade, of the signals taken and of the  *)
(* bars held, as a visit to bar i finds it.                                 *)
Touched(bars, p, k) == HitStop(p, bars[k]) \/ HitTarget(p, bars[k])

Honest(bars, trade) ==
    LET p == trade.position
        last == trade.exit_index
    IN  /\ last \in p.entry_index .. p.entry_index + MaxBarsHeld
        /\ \A k \in p.entry_index .. last - 1 : ~Touched(bars, p, k)
        /\ trade.move = -p.risk - RoundTrip <=> trade.exit.reason = "STOP"
        /\ HitStop(p, bars[last]) => trade.exit.reason = "STOP"
        /\ trade.exit.reason = "TIME" =>
              ~Touched(bars, p, last) /\ last = p.entry_index + MaxBarsHeld

Held(w, i) ==
    \/ w.open # None /\ w.open.entry_index <= i
    \/ \E k \in DOMAIN w.trades :
          i \in w.trades[k].position.entry_index .. w.trades[k].exit_index

(* The stop is one risk away, on the side of the loss, and the target on the *)
(* other. *)
Placed(p) ==
    /\ p.risk > 0
    /\ p.direction = "LONG"  => p.stop = p.entry - p.risk /\ p.target > p.entry
    /\ p.direction = "SHORT" => p.stop = p.entry + p.risk /\ p.target < p.entry

(* The parts of what holds after each bar. *)
OpenFair(bars, w, i) ==
    w.open # None =>
        /\ Placed(w.open)
        /\ w.open.entry_index <= i + 1
        /\ i - w.open.entry_index < MaxBarsHeld
        /\ \A k \in w.open.entry_index .. i : ~Touched(bars, w.open, k)
        /\ \A k \in DOMAIN w.trades : w.trades[k].exit_index < w.open.entry_index - 1
TradesFair(bars, w, i) ==
    /\ \A k \in DOMAIN w.trades : Honest(bars, w.trades[k]) /\ w.trades[k].exit_index <= i
    /\ \A j, k \in DOMAIN w.trades :
          j < k => w.trades[j].exit_index < w.trades[k].position.entry_index - 1
AllTaken(bars, w, i) ==
    \A j \in Warmup + 1 .. i :
        j <= Len(bars) - 1 =>
            EntryAfter(bars, j) \in Taken(w) \/ EntryAfter(bars, j) = None \/ Held(w, j)

(* A position is opened with its stop on the losing side. *)
LEMMA EntryPlaced ==
    ASSUME SignalsTyped, NEW bars \in Seq(Observations), NEW i \in 1..Len(bars),
           i + 1 <= Len(bars), EntryAfter(bars, i) # None
    PROVE  Placed(EntryAfter(bars, i))
  <1> DEFINE signal == SignalOn(SubSeq(bars, 1, i))
             price == bars[i + 1].open
             atr == signal.atr
             risk == atr * StopMultiple
             side == Side(signal.bias)
             p == EntryAfter(bars, i)
  <1>1. /\ Len(bars) \in Nat /\ i \in Nat /\ i + 1 \in 1..Len(bars)
    BY LenProperties
  <1>2. bars[i + 1] \in Observations /\ SubSeq(bars, 1, i) \in Seq(Observations)
    <2>1. \A k \in 1..i : bars[k] \in Observations
      BY <1>1, ElementOfSeq
    <2> QED
      BY <1>1, <2>1, SubSeqProperties, ElementOfSeq
  <1>3. signal \in [bias : {"LONG", "SHORT", "WAIT"}, score : Int, atr : Int]
    BY <1>2 DEF SignalsTyped
  <1>4. ~(signal.bias = "WAIT" \/ signal.score < LeastScore \/ signal.atr <= 0)
    BY Zenon DEF EntryAfter
  <1>5. p = [direction |-> signal.bias, entry_index |-> i + 1, entry |-> price,
             stop |-> price - side * risk, target |-> price + side * atr * TargetMultiple,
             risk |-> risk]
    BY <1>4, Zenon DEF EntryAfter
  <1>6. /\ price \in Int /\ atr \in Int /\ atr > 0 /\ signal.bias \in {"LONG", "SHORT"}
        /\ StopMultiple \in Int /\ StopMultiple > 0 /\ TargetMultiple \in Int /\ TargetMultiple > 0
    <2>1. price \in Int
      BY <1>2 DEF Observations
    <2>2. /\ StopMultiple \in Int /\ StopMultiple > 0 /\ TargetMultiple \in Int /\ TargetMultiple > 0
      BY ParamsAssumption
    <2> HIDE DEF signal, price
    <2> QED
      BY <1>3, <1>4, <2>1, <2>2
  <1>7. side = IF signal.bias = "LONG" THEN 1 ELSE -1
    BY DEF Side
  <1> HIDE DEF signal, price, side, p, atr
  <1>8. risk \in Int /\ risk > 0 /\ atr * TargetMultiple \in Int /\ atr * TargetMultiple > 0
    BY <1>6
  <1>9. CASE signal.bias = "LONG"
    <2>1. /\ p.direction = "LONG" /\ p.risk = risk /\ p.entry = price
          /\ p.stop = price - 1 * risk /\ p.target = price + 1 * atr * TargetMultiple
      BY <1>5, <1>7, <1>9, Zenon
    <2>2. price - 1 * risk = price - risk /\ price + 1 * atr * TargetMultiple > price
      <3>1. 1 * atr = atr /\ 1 * risk = risk
        BY <1>6, <1>8
      <3> QED
        BY <1>6, <1>8, <3>1
    <2>3. Placed(p)
      <3>1. p.direction # "SHORT"
        BY <2>1
      <3> QED
        BY <1>8, <2>1, <2>2, <3>1, Zenon DEF Placed
    <2> QED
      BY <2>3 DEF p
  <1>10. CASE signal.bias = "SHORT"
    <2>1. /\ p.direction = "SHORT" /\ p.risk = risk /\ p.entry = price
          /\ p.stop = price - (-1) * risk /\ p.target = price + (-1) * atr * TargetMultiple
      BY <1>5, <1>7, <1>10
    <2>2. price - (-1) * risk = price + risk /\ price + (-1) * atr * TargetMultiple < price
      <3>1. (-1) * risk = -risk
        BY <1>8
      <3>2. (-1) * atr * TargetMultiple = -(atr * TargetMultiple)
        BY <1>6
      <3> QED
        BY <1>6, <1>8, <3>1, <3>2
    <2>3. Placed(p)
      <3>1. p.direction # "LONG"
        BY <2>1
      <3> QED
        BY <1>8, <2>1, <2>2, <3>1, Zenon DEF Placed
    <2> QED
      BY <2>3 DEF p
  <1> QED
    BY <1>6, <1>9, <1>10

(* A position closed on a sound bar is closed honestly. *)
LEMMA ClosedHonestly ==
    ASSUME NEW bars \in Seq(Observations), NEW i \in 1..Len(bars), Sound(bars[i]),
           NEW trade \in Trade, NEW p, p = trade.position, Placed(p),
           trade.exit_index = i,
           p.entry_index <= i, i - p.entry_index <= MaxBarsHeld,
           trade.exit = Outcome(p, bars[i], i - p.entry_index),
           trade.move = Side(p.direction) * (trade.exit.price - p.entry) - RoundTrip,
           \A k \in p.entry_index .. i - 1 : ~Touched(bars, p, k)
    PROVE  Honest(bars, trade)
  <1> DEFINE bar == bars[i]
             exit == trade.exit
  <1>1. /\ bar \in Observations /\ i \in Nat /\ p \in Position /\ exit \in Exit
        /\ bar.close \in Int /\ bar.low \in Int /\ bar.high \in Int
        /\ bar.low <= bar.close /\ bar.close <= bar.high
    <2>1. bar \in Observations /\ i \in Nat
      BY LenProperties, ElementOfSeq
    <2>2. bar.close \in bar.low..bar.high
      BY DEF Sound
    <2> QED
      BY <2>1, <2>2 DEF Observations, Trade
  <1>2. /\ p.entry \in Int /\ p.stop \in Int /\ p.target \in Int /\ p.risk \in Int
        /\ p.direction \in {"LONG", "SHORT"} /\ p.entry_index \in Nat
        /\ RoundTrip \in Int /\ MaxBarsHeld \in Nat
    BY <1>1, ParamsAssumption DEF Position
  <1>3. exit # None
    BY <1>1, NothingAssumption
  <1>4. /\ HitStop(p, bar) => exit = Closed("STOP", p.stop)
        /\ ~HitStop(p, bar) /\ HitTarget(p, bar) => exit = Closed("TARGET", p.target)
        /\ ~HitStop(p, bar) /\ ~HitTarget(p, bar) =>
              exit = Closed("TIME", bar.close) /\ i - p.entry_index >= MaxBarsHeld
    BY <1>3, Zenon DEF Outcome
  <1> HIDE DEF bar, exit
  <1>5. /\ HitStop(p, bar) => exit.reason = "STOP" /\ exit.price = p.stop
        /\ ~HitStop(p, bar) /\ HitTarget(p, bar) => exit.reason = "TARGET" /\ exit.price = p.target
        /\ ~HitStop(p, bar) /\ ~HitTarget(p, bar) =>
              exit.reason = "TIME" /\ exit.price = bar.close /\ i - p.entry_index >= MaxBarsHeld
    BY <1>4 DEF Closed
  <1>6. trade.move = Side(p.direction) * (exit.price - p.entry) - RoundTrip
    BY DEF exit
  <1>7. trade.move = -p.risk - RoundTrip <=> exit.reason = "STOP"
    <2>1. p.risk > 0
      BY DEF Placed
    <2>2. CASE p.direction = "LONG"
      <3>1. p.stop = p.entry - p.risk /\ p.target > p.entry
        BY <2>2 DEF Placed
      <3>2. HitStop(p, bar) <=> bar.low <= p.stop
        BY <2>2 DEF HitStop
      <3>3. exit.price \in Int
        BY <1>1 DEF Exit
      <3>4. trade.move = exit.price - p.entry - RoundTrip
        <4>1. Side(p.direction) = 1
          BY <2>2 DEF Side
        <4> QED
          BY <1>2, <1>6, <3>3, <4>1
      <3>5. CASE HitStop(p, bar)
        BY <1>2, <1>5, <3>1, <3>4, <3>5
      <3>6. CASE ~HitStop(p, bar) /\ HitTarget(p, bar)
        <4>1. exit.reason # "STOP" /\ exit.price = p.target
          BY <1>5, <3>6
        <4>2. trade.move # -p.risk - RoundTrip
          BY <1>2, <2>1, <3>1, <3>4, <4>1
        <4> QED
          BY <4>1, <4>2
      <3>7. CASE ~HitStop(p, bar) /\ ~HitTarget(p, bar)
        <4>1. exit.reason # "STOP" /\ exit.price = bar.close
          BY <1>5, <3>7
        <4>2. exit.price # p.stop
          BY <1>1, <1>2, <3>2, <3>7, <4>1
        <4>3. trade.move # -p.risk - RoundTrip
          <5>1. \A x, e, k, t \in Int : x # e - k => x - e - t # -k - t
            OBVIOUS
          <5> QED
            BY <1>2, <3>1, <3>3, <3>4, <4>2, <5>1
        <4> QED
          BY <4>1, <4>3
      <3> QED
        BY <3>5, <3>6, <3>7
    <2>3. CASE p.direction = "SHORT"
      <3>1. p.stop = p.entry + p.risk /\ p.target < p.entry
        BY <2>3 DEF Placed
      <3>2. HitStop(p, bar) <=> bar.high >= p.stop
        BY <2>3 DEF HitStop
      <3>3. exit.price \in Int
        BY <1>1 DEF Exit
      <3>4. trade.move = -(exit.price - p.entry) - RoundTrip
        <4>1. Side(p.direction) = -1
          BY <2>3 DEF Side
        <4> QED
          BY <1>2, <1>6, <3>3, <4>1
      <3>5. CASE HitStop(p, bar)
        BY <1>2, <1>5, <3>1, <3>4, <3>5
      <3>6. CASE ~HitStop(p, bar) /\ HitTarget(p, bar)
        <4>1. exit.reason # "STOP" /\ exit.price = p.target
          BY <1>5, <3>6
        <4>2. trade.move # -p.risk - RoundTrip
          BY <1>2, <2>1, <3>1, <3>4, <4>1
        <4> QED
          BY <4>1, <4>2
      <3>7. CASE ~HitStop(p, bar) /\ ~HitTarget(p, bar)
        <4>1. exit.reason # "STOP" /\ exit.price = bar.close
          BY <1>5, <3>7
        <4>2. exit.price # p.stop
          BY <1>1, <1>2, <3>2, <3>7, <4>1
        <4>3. trade.move # -p.risk - RoundTrip
          BY <1>2, <3>1, <3>3, <3>4, <4>2
        <4> QED
          BY <4>1, <4>3
      <3> QED
        BY <3>5, <3>6, <3>7
    <2> QED
      BY <1>2, <2>2, <2>3
  <1>8. exit.reason = "TIME" => ~Touched(bars, p, i) /\ i = p.entry_index + MaxBarsHeld
    <2>1. SUFFICES ASSUME exit.reason = "TIME"
                   PROVE  ~Touched(bars, p, i) /\ i = p.entry_index + MaxBarsHeld
      OBVIOUS
    <2>2. ~HitStop(p, bar) /\ ~HitTarget(p, bar)
      BY <1>5, <2>1
    <2>3. i - p.entry_index >= MaxBarsHeld
      BY <1>5, <2>2
    <2>4. i = p.entry_index + MaxBarsHeld
      <3>1. i \in Nat /\ p.entry_index \in Nat /\ MaxBarsHeld \in Nat
        BY <1>1, <1>2
      <3>2. i - p.entry_index <= MaxBarsHeld
        OBVIOUS
      <3> QED
        BY ONLY <2>3, <3>1, <3>2
    <2> QED
      BY <2>2, <2>4 DEF Touched, bar
  <1>9. i \in p.entry_index .. p.entry_index + MaxBarsHeld
    BY <1>1, <1>2
  <1> QED
    BY <1>5, <1>7, <1>8, <1>9 DEF Honest, bar, exit

(* One turn of the loop keeps all three. *)
LEMMA FairTurn ==
    ASSUME SignalsTyped, NEW bars \in Seq(Observations), NEW i \in 1..Len(bars),
           Sound(bars[i]), NEW w \in Walks,
           OpenFair(bars, w, i - 1), TradesFair(bars, w, i - 1), AllTaken(bars, w, i - 1)
    PROVE  /\ OpenFair(bars, Visit(bars, w, i), i)
           /\ TradesFair(bars, Visit(bars, w, i), i)
           /\ AllTaken(bars, Visit(bars, w, i), i)
  <1> DEFINE v == Visit(bars, w, i)
  <1>1. /\ Len(bars) \in Nat /\ i \in Nat /\ v \in Walks
        /\ w.trades \in Seq(Trade) /\ v.trades \in Seq(Trade)
        /\ MaxBarsHeld \in Nat \ {0} /\ Warmup \in Nat \ {0}
    <2>1. v \in Walks
      BY VisitIs
    <2> QED
      BY <2>1, LenProperties, ParamsAssumption DEF Walks
  <1>2. /\ \A k \in DOMAIN w.trades : w.trades[k] \in Trade /\ w.trades[k].exit_index \in Nat
                                      /\ w.trades[k].position \in Position
        /\ DOMAIN w.trades = 1..Len(w.trades) /\ Len(w.trades) \in Nat
    <2>1. \A k \in 1..Len(w.trades) : w.trades[k] \in Trade
      BY <1>1, ElementOfSeq
    <2> QED
      BY <1>1, <2>1, LenProperties DEF Trade
  <1>3. \A k \in DOMAIN w.trades : w.trades[k].exit_index <= i
    BY <1>1, <1>2 DEF TradesFair
  <1>4. CASE w.open = None /\ i + 1 > Len(bars)
    <2>1. v = w
      BY <1>4, VisitIs
    <2>2. OpenFair(bars, w, i)
      BY <1>4 DEF OpenFair
    <2>3. TradesFair(bars, w, i)
      BY <1>3 DEF TradesFair
    <2>4. AllTaken(bars, w, i)
      <3>1. \A j \in Warmup + 1 .. i : j <= Len(bars) - 1 => j \in Warmup + 1 .. i - 1
        BY <1>1, <1>4
      <3> QED
        BY <3>1 DEF AllTaken
    <2> QED
      BY <2>1, <2>2, <2>3, <2>4
  <1>5. CASE w.open = None /\ ~(i + 1 > Len(bars))
    <2> DEFINE p == EntryAfter(bars, i)
    <2>1. v.open = p /\ v.trades = w.trades /\ i + 1 <= Len(bars)
      <3>1. v = [open |-> p, trades |-> w.trades]
        BY <1>5, VisitIs
      <3> HIDE DEF v, p
      <3> QED
        BY <1>1, <1>5, <3>1
    <2>2. /\ p \in Position \cup {None}
          /\ p # None => p.entry_index = i + 1 /\ Placed(p)
      BY <2>1, EntryType, EntryPlaced
    <2> HIDE DEF v, p
    <2>3. OpenFair(bars, v, i)
      <3>1. SUFFICES ASSUME p # None
                     PROVE  /\ Placed(p) /\ p.entry_index <= i + 1
                            /\ i - p.entry_index < MaxBarsHeld
                            /\ \A k \in p.entry_index .. i : ~Touched(bars, p, k)
                            /\ \A k \in DOMAIN w.trades : w.trades[k].exit_index < p.entry_index - 1
        BY <2>1 DEF OpenFair
      <3>2. p.entry_index = i + 1 /\ Placed(p)
        BY <2>2, <3>1
      <3>3. \A k \in p.entry_index .. i : FALSE
        BY <1>1, <3>2
      <3>4. i - p.entry_index < MaxBarsHeld
        BY <1>1, <3>2
      <3>5. \A k \in DOMAIN w.trades : w.trades[k].exit_index < p.entry_index - 1
        BY <1>1, <1>2, <3>2 DEF TradesFair
      <3> QED
        BY <1>1, <3>2, <3>3, <3>4, <3>5
    <2>4. TradesFair(bars, v, i)
      BY <1>3, <2>1 DEF TradesFair
    <2>5. ASSUME NEW j \in Warmup + 1 .. i, j <= Len(bars) - 1
          PROVE  EntryAfter(bars, j) \in Taken(v) \/ EntryAfter(bars, j) = None \/ Held(v, j)
      <3>1. CASE j = i
        BY <2>1, <3>1 DEF Taken, p
      <3>2. CASE j # i
        <4>1. j \in Warmup + 1 .. i - 1
          BY <1>1, <3>2
        <4>2. EntryAfter(bars, j) \in Taken(w) \/ EntryAfter(bars, j) = None \/ Held(w, j)
          BY <2>5, <4>1 DEF AllTaken
        <4>3. EntryAfter(bars, j) \in Taken(w) => EntryAfter(bars, j) \in Taken(v)
          BY <1>5, <2>1, Zenon DEF Taken
        <4>4. Held(w, j) => Held(v, j)
          BY <1>5, <2>1 DEF Held
        <4> QED
          BY <4>2, <4>3, <4>4
      <3> QED
        BY <3>1, <3>2
    <2>6. AllTaken(bars, v, i)
      BY <2>5 DEF AllTaken
    <2> QED
      BY <2>3, <2>4, <2>6 DEF v
  <1>6. CASE w.open # None
    <2> DEFINE p == w.open
               outcome == Outcome(p, bars[i], i - p.entry_index)
    <2>1. /\ p \in Position /\ p.entry_index \in Nat /\ Placed(p)
          /\ p.entry_index <= i /\ i - p.entry_index <= MaxBarsHeld
          /\ \A k \in p.entry_index .. i - 1 : ~Touched(bars, p, k)
          /\ \A k \in DOMAIN w.trades : w.trades[k].exit_index < p.entry_index - 1
      <3>1. p \in Position
        BY <1>6, VisitIs
      <3>2. p.entry_index \in Nat
        BY <3>1 DEF Position
      <3>3. /\ Placed(p) /\ p.entry_index <= (i - 1) + 1 /\ (i - 1) - p.entry_index < MaxBarsHeld
            /\ \A k \in p.entry_index .. i - 1 : ~Touched(bars, p, k)
            /\ \A k \in DOMAIN w.trades : w.trades[k].exit_index < p.entry_index - 1
        BY <1>6 DEF OpenFair
      <3> HIDE DEF p
      <3> QED
        BY <1>1, <3>1, <3>2, <3>3
    <2>2. ASSUME NEW j \in Warmup + 1 .. i, j <= Len(bars) - 1
          PROVE  \/ EntryAfter(bars, j) \in Taken(w) \/ EntryAfter(bars, j) = None
                 \/ p.entry_index <= j
                 \/ \E k \in DOMAIN w.trades :
                       j \in w.trades[k].position.entry_index .. w.trades[k].exit_index
      <3>1. CASE j = i
        BY <2>1, <3>1
      <3>2. CASE j # i
        <4>1. j \in Warmup + 1 .. i - 1
          BY <1>1, <3>2
        <4>2. EntryAfter(bars, j) \in Taken(w) \/ EntryAfter(bars, j) = None \/ Held(w, j)
          BY <2>2, <4>1 DEF AllTaken
        <4> QED
          BY <4>2 DEF Held
      <3> QED
        BY <3>1, <3>2
    <2>3. CASE outcome = None
      <3>1. v = w
        BY <1>6, <2>3, VisitIs
      <3>2. /\ ~HitStop(p, bars[i]) /\ ~HitTarget(p, bars[i]) /\ ~(i - p.entry_index >= MaxBarsHeld)
        <4>1. /\ Closed("STOP", p.stop) # None /\ Closed("TARGET", p.target) # None
              /\ Closed("TIME", bars[i].close) # None
          <5>1. p.stop \in Int /\ p.target \in Int /\ bars[i].close \in Int
            <6>1. bars[i] \in Observations
              BY ElementOfSeq
            <6> HIDE DEF p
            <6> QED
              BY <2>1, <6>1 DEF Position, Observations
          <5>2. /\ Closed("STOP", p.stop) \in Exit /\ Closed("TARGET", p.target) \in Exit
                /\ Closed("TIME", bars[i].close) \in Exit
            <6> HIDE DEF p
            <6> QED
              BY <5>1 DEF Closed, Exit
          <5> QED
            BY <5>2, NothingAssumption
        <4> QED
          BY <2>3, <4>1, Zenon DEF Outcome
      <3>3. ~(i - p.entry_index >= MaxBarsHeld) => i - p.entry_index < MaxBarsHeld
        <4> HIDE DEF p
        <4> QED
          BY <1>1, <2>1
      <3>4. OpenFair(bars, w, i)
        <4>1. \A k \in p.entry_index .. i : ~Touched(bars, p, k)
          <5>1. ASSUME NEW k \in p.entry_index .. i PROVE ~Touched(bars, p, k)
            <6>1. CASE k = i
              BY <3>2, <6>1 DEF Touched
            <6>2. CASE k # i
              <7>1. k \in p.entry_index .. i - 1
                <8> HIDE DEF p
                <8> QED
                  BY <1>1, <2>1, <6>2
              <7> QED
                BY <2>1, <7>1
            <6> QED
              BY <6>1, <6>2
          <5> QED
            BY <5>1
        <4>2. p.entry_index <= i + 1
          <5> HIDE DEF p
          <5> QED
            BY <1>1, <2>1
        <4> QED
          BY <2>1, <3>2, <3>3, <4>1, <4>2 DEF OpenFair
      <3>5. TradesFair(bars, w, i)
        BY <1>3 DEF TradesFair
      <3>6. AllTaken(bars, w, i)
        <4>1. ASSUME NEW j \in Warmup + 1 .. i, j <= Len(bars) - 1
              PROVE  EntryAfter(bars, j) \in Taken(w) \/ EntryAfter(bars, j) = None \/ Held(w, j)
          BY <1>6, <2>2, <4>1 DEF Held
        <4> QED
          BY <4>1 DEF AllTaken
      <3> QED
        BY <3>1, <3>4, <3>5, <3>6
    <2>4. CASE outcome # None
      <3>1. PICK trade \in Trade :
               /\ trade.position = p /\ trade.exit_index = i
               /\ trade.exit = outcome
               /\ trade.move = Side(p.direction) * (outcome.price - p.entry) - RoundTrip
               /\ v = [open |-> None, trades |-> Append(w.trades, trade)]
        BY <1>6, <2>4, VisitIs
      <3>2. Honest(bars, trade)
        <4> HIDE DEF p, outcome
        <4>1. /\ trade.exit = Outcome(p, bars[i], i - p.entry_index)
              /\ trade.move = Side(p.direction) * (trade.exit.price - p.entry) - RoundTrip
              /\ p = trade.position
          BY <3>1 DEF outcome
        <4> QED
          BY <2>1, <3>1, <4>1, ClosedHonestly
      <3> DEFINE count == Len(w.trades)
      <3>3. /\ v.open = None
            /\ DOMAIN v.trades = 1..(count + 1)
            /\ v.trades[count + 1] = trade
            /\ \A k \in 1..count : v.trades[k] = w.trades[k]
        <4>1. v.open = None /\ v.trades = Append(w.trades, trade)
          BY <3>1
        <4> HIDE DEF v
        <4> QED
          BY <1>1, <4>1, AppendProperties, LenProperties
      <3>4. Taken(v) = Taken(w)
        <4>1. i \in 1..Len(bars)
          OBVIOUS
        <4> QED
          BY <1>6, <4>1, TakenBy
      <3>5. /\ DOMAIN w.trades = 1..count /\ count \in Nat
            /\ trade.position = p /\ trade.exit_index = i
        BY <1>2, <3>1
      <3> HIDE DEF v, p, count
      <3>6. OpenFair(bars, v, i)
        BY <3>3 DEF OpenFair
      <3>7. TradesFair(bars, v, i)
        <4>1. ASSUME NEW k \in DOMAIN v.trades
              PROVE  Honest(bars, v.trades[k]) /\ v.trades[k].exit_index <= i
          <5>1. CASE k = count + 1
            BY <1>1, <3>1, <3>2, <3>3, <5>1
          <5>2. CASE k # count + 1
            <6>1. k \in 1..count
              BY <3>3, <3>5, <5>2
            <6> QED
              BY <1>3, <3>3, <3>5, <6>1 DEF TradesFair
          <5> QED
            BY <5>1, <5>2
        <4>2. ASSUME NEW j \in DOMAIN v.trades, NEW k \in DOMAIN v.trades, j < k
              PROVE  v.trades[j].exit_index < v.trades[k].position.entry_index - 1
          <5>1. j \in 1..count
            BY <3>3, <3>5, <4>2
          <5>2. CASE k = count + 1
            BY <2>1, <3>3, <3>5, <5>1, <5>2
          <5>3. CASE k # count + 1
            <6>1. k \in 1..count
              BY <3>3, <3>5, <5>3
            <6> QED
              BY <3>3, <3>5, <4>2, <5>1, <6>1 DEF TradesFair
          <5> QED
            BY <5>2, <5>3
        <4> QED
          BY <4>1, <4>2 DEF TradesFair
      <3>8. AllTaken(bars, v, i)
        <4>1. ASSUME NEW j \in Warmup + 1 .. i, j <= Len(bars) - 1
              PROVE  EntryAfter(bars, j) \in Taken(v) \/ EntryAfter(bars, j) = None \/ Held(v, j)
          <5>1. CASE p.entry_index <= j
            <6>1. j \in p.entry_index .. i
              BY <1>1, <2>1, <5>1
            <6>2. count + 1 \in DOMAIN v.trades
              BY <3>3, <3>5
            <6> QED
              BY <3>3, <3>5, <6>1, <6>2 DEF Held
          <5>2. ASSUME NEW k \in DOMAIN w.trades,
                       j \in w.trades[k].position.entry_index .. w.trades[k].exit_index
                PROVE  Held(v, j)
            <6>1. k \in DOMAIN v.trades /\ v.trades[k] = w.trades[k]
              BY <3>3, <3>5
            <6> QED
              BY <5>2, <6>1 DEF Held
          <5> QED
            BY <2>2, <3>4, <4>1, <5>1, <5>2
        <4> QED
          BY <4>1 DEF AllTaken
      <3> QED
        BY <3>6, <3>7, <3>8 DEF v
    <2> QED
      BY <2>3, <2>4
  <1> QED
    BY <1>4, <1>5, <1>6

(* Every visit keeps the walk fair, so that the whole of it is. *)
LEMMA FairWalk ==
    ASSUME SignalsTyped, NEW bars \in Seq(Observations),
           \A k \in 1..Len(bars) : Sound(bars[k])
    PROVE  \A i \in 0..Len(bars) :
              /\ OpenFair(bars, Walk(bars)[i], i)
              /\ TradesFair(bars, Walk(bars)[i], i)
              /\ AllTaken(bars, Walk(bars)[i], i)
  <1> DEFINE n == Len(bars)
             Fair(i) == /\ OpenFair(bars, Walk(bars)[i], i)
                        /\ TradesFair(bars, Walk(bars)[i], i)
                        /\ AllTaken(bars, Walk(bars)[i], i)
             P == {i \in Nat : i <= n => Fair(i)}
  <1>1. n \in Nat /\ Warmup \in Nat \ {0}
    BY LenProperties, ParamsAssumption
  <1>2. ASSUME NEW i \in 0..n, i <= Warmup PROVE Fair(i)
    <2>1. Walk(bars)[i] = Idle
      BY <1>2, WalkIs
    <2>2. Idle.open = None /\ DOMAIN Idle.trades = {}
      BY DEF Idle
    <2>3. \A j \in Warmup + 1 .. i : FALSE
      BY <1>1, <1>2
    <2>4. OpenFair(bars, Idle, i)
      BY <2>2 DEF OpenFair
    <2>5. TradesFair(bars, Idle, i)
      BY <2>2, Zenon DEF TradesFair
    <2>6. AllTaken(bars, Idle, i)
      BY <2>3, Zenon DEF AllTaken
    <2> QED
      BY <2>1, <2>4, <2>5, <2>6
  <1>3. 0 \in P
    <2>1. 0 \in 0..n /\ 0 <= Warmup
      BY <1>1
    <2> HIDE DEF Fair
    <2> QED
      BY <1>2, <2>1
  <1>4. ASSUME NEW j \in P PROVE j + 1 \in P
    <2> DEFINE i == j + 1
    <2>1. SUFFICES ASSUME i <= n PROVE Fair(i)
      OBVIOUS
    <2>2. /\ j \in Nat /\ i \in 1..n /\ i \in 0..n /\ i - 1 = j /\ j \in 0..n /\ i \in Nat /\ j <= n
      BY <1>1, <2>1
    <2>3. Fair(j)
      BY <2>2
    <2> HIDE DEF i, n
    <2>4. CASE i <= Warmup
      <3> HIDE DEF Fair
      <3> QED
        BY <1>2, <2>2, <2>4
    <2>5. CASE ~(i <= Warmup)
      <3>1. i > Warmup
        BY <1>1, <2>2, <2>5
      <3>2. Walk(bars)[i] = Visit(bars, Walk(bars)[j], i) /\ Walk(bars)[j] \in Walks
        BY <2>2, <3>1, WalkIs DEF n
      <3> QED
        BY <2>2, <2>3, <3>2, FairTurn DEF n
    <2> QED
      BY <2>4, <2>5
  <1> HIDE DEF P
  <1>5. \A i \in Nat : i \in P
    <2>1. P \in SUBSET Nat
      BY DEF P
    <2> QED
      BY <1>3, <1>4, <2>1, NatSet
  <1>6. ASSUME NEW i \in 0..n PROVE i \in P /\ i <= n
    BY <1>1, <1>5
  <1> QED
    BY <1>6 DEF P

(* TradesAreHonest, for every history of sound bars, every strategy and      *)
(* every parameter: each trade of a backtest ends where and when a reader of *)
(* the whole chart would have it end, and none is missed (run_backtest). *)
THEOREM EveryTradeIsHonest == ASSUME SignalsTyped PROVE Spec => []TradesAreHonest
  <1>1. HistoryInv => TradesAreHonest
    <2> SUFFICES ASSUME HistoryInv, question = "history" PROVE TradesAreHonest
      BY DEF TradesAreHonest
    <2> DEFINE run == RunBacktest(input)
               bars == Bars
               n == Len(bars)
               w == Walk(bars)[n]
    <2>1. input \in Seq(Observations) /\ \A k \in 1..Len(input) : Sound(input[k])
      BY DEF HistoryInv, HistorySound
    <2>2. bars \in Seq(Observations) /\ \A k \in 1..n : Sound(bars[k])
      <3>1. bars \in Seq(Observations) /\ \A k \in 1..n : \E j \in 1..Len(input) : bars[k] = input[j]
        BY <2>1, FrameIs DEF Bars
      <3> QED
        BY <2>1, <3>1
    <2>3. n \in Nat /\ n \in 0..n
      BY <2>2, LenProperties
    <2>4. CASE n < Warmup + MaxBarsHeld + 2
      <3>1. ~run.ran /\ run.open = None /\ run.trades = <<>>
        BY <2>4 DEF RunBacktest, Bars
      <3>2. DOMAIN run.trades = {}
        BY <3>1
      <3> HIDE DEF run
      <3> QED
        BY <3>1, <3>2, Zenon DEF TradesAreHonest, run
    <2>5. CASE ~(n < Warmup + MaxBarsHeld + 2)
      <3>1. run.open = w.open /\ run.trades = w.trades
        BY <2>5 DEF RunBacktest, Bars
      <3>2. OpenFair(bars, w, n) /\ TradesFair(bars, w, n) /\ AllTaken(bars, w, n)
        <4> HIDE DEF bars
        <4> QED
          BY <2>2, <2>3, FairWalk
      <3> HIDE DEF run, w, bars, n
      <3>3. \A k \in DOMAIN run.trades :
              LET trade == run.trades[k]
                  p == trade.position
                  last == trade.exit_index
              IN  /\ last \in p.entry_index .. p.entry_index + MaxBarsHeld
                  /\ \A m \in p.entry_index .. last - 1 : ~(HitStop(p, bars[m]) \/ HitTarget(p, bars[m]))
                  /\ trade.move = -p.risk - RoundTrip <=> trade.exit.reason = "STOP"
                  /\ HitStop(p, bars[last]) => trade.exit.reason = "STOP"
                  /\ trade.exit.reason = "TIME" =>
                        /\ ~(HitStop(p, bars[last]) \/ HitTarget(p, bars[last]))
                        /\ last = p.entry_index + MaxBarsHeld
        BY <3>1, <3>2, Zenon DEF TradesFair, Honest, Touched
      <3>4. \A j, k \in DOMAIN run.trades :
               j < k => run.trades[j].exit_index < run.trades[k].position.entry_index - 1
        BY <3>1, <3>2, Zenon DEF TradesFair
      <3>5. ASSUME NEW i \in Warmup + 1 .. n - 1
            PROVE  \/ EntryAfter(bars, i) \in Positions(run) \/ EntryAfter(bars, i) = None
                   \/ run.open # None /\ run.open.entry_index <= i
                   \/ \E k \in DOMAIN run.trades :
                         i \in run.trades[k].position.entry_index .. run.trades[k].exit_index
        <4>1. i \in Warmup + 1 .. n /\ i <= n - 1
          BY <2>3, ParamsAssumption
        <4>2. EntryAfter(bars, i) \in Taken(w) \/ EntryAfter(bars, i) = None \/ Held(w, i)
          BY <3>2, <4>1 DEF AllTaken, n
        <4>3. Positions(run) = Taken(w)
          BY <3>1, Zenon DEF Positions, Taken
        <4> QED
          BY <3>1, <4>2, <4>3, Zenon DEF Held
      <3> QED
        BY <3>3, <3>4, <3>5, Zenon DEF TradesAreHonest, run, bars, n
    <2> QED
      BY <2>4, <2>5
  <1> QED
    BY <1>1, HistoryInvariance, PTL

-----------------------------------------------------------------------------
(* The combination of timeframes.                                           *)

(* Sums of what is nowhere more are not more; only the part of a sum that is *)
(* on one side can pull it there. *)
LEMMA SumWithin ==
    ASSUME NEW S, IsFiniteSet(S), NEW f, NEW g, NEW B \in SUBSET S,
           NEW c \in Int, NEW d \in Int,
           \A x \in S : f[x] \in Int /\ g[x] \in Int,
           \A x \in B : c * f[x] <= d * g[x],
           \A x \in S \ B : c * f[x] <= 0
    PROVE  /\ SumFunctionOnSet(f, S) \in Int /\ SumFunctionOnSet(g, B) \in Int
           /\ c * SumFunctionOnSet(f, S) <= d * SumFunctionOnSet(g, B)
  <1>1. PICK a \in [SUBSET S -> Int] : IsSum(a, f, S)
    BY SumIs
  <1>2. PICK b \in [SUBSET S -> Int] : IsSum(b, g, S)
    BY SumIs
  <1> DEFINE P == {T \in SUBSET S : c * a[T] <= d * b[T \cap B]}
  <1>3. {} \in P
    <2>1. a[{}] = 0 /\ b[{} \cap B] = 0
      <3>1. {} \cap B = {}
        OBVIOUS
      <3> QED
        BY <1>1, <1>2, <3>1 DEF IsSum
    <2>2. c * 0 <= d * 0
      OBVIOUS
    <2> QED
      BY <2>1, <2>2
  <1>4. ASSUME NEW T \in P, NEW x \in S \ T PROVE T \cup {x} \in P
    <2>1. /\ T \in SUBSET S /\ T \cup {x} \in SUBSET S /\ (T \cup {x}) \ {x} = T
          /\ c * a[T] <= d * b[T \cap B]
      OBVIOUS
    <2>2. a[T \cup {x}] = f[x] + a[T]
      <3>1. a[T \cup {x}] = f[x] + a[(T \cup {x}) \ {x}]
        BY <1>1, <2>1 DEF IsSum
      <3> QED
        BY <2>1, <3>1
    <2>3. a[T] \in Int /\ f[x] \in Int /\ b[T \cap B] \in Int /\ g[x] \in Int
      <3>1. T \cap B \in SUBSET S
        BY <2>1
      <3> QED
        BY <2>1, <3>1
    <2>4. c * a[T \cup {x}] = c * f[x] + c * a[T]
      BY <2>2, <2>3
    <2>5. CASE x \in B
      <3>1. /\ (T \cup {x}) \cap B = (T \cap B) \cup {x}
            /\ (T \cap B) \cup {x} \in SUBSET S /\ ((T \cap B) \cup {x}) \ {x} = T \cap B
        BY <2>1, <2>5
      <3>2. b[(T \cap B) \cup {x}] = g[x] + b[T \cap B]
        <4>1. b[(T \cap B) \cup {x}] = g[x] + b[((T \cap B) \cup {x}) \ {x}]
          BY <1>2, <3>1 DEF IsSum
        <4> QED
          BY <3>1, <4>1
      <3>3. d * b[(T \cap B) \cup {x}] = d * g[x] + d * b[T \cap B]
        BY <2>3, <3>2
      <3>4. c * f[x] <= d * g[x]
        BY <2>5
      <3>5. /\ c * f[x] \in Int /\ c * a[T] \in Int /\ d * g[x] \in Int
            /\ d * b[T \cap B] \in Int
        BY <2>3
      <3>6. c * f[x] + c * a[T] <= d * g[x] + d * b[T \cap B]
        BY <2>1, <3>4, <3>5
      <3> QED
        BY <2>1, <2>4, <3>1, <3>3, <3>6
    <2>6. CASE x \notin B
      <3>1. (T \cup {x}) \cap B = T \cap B
        BY <2>6
      <3>2. c * f[x] <= 0
        BY <2>6
      <3>3. c * f[x] \in Int /\ c * a[T] \in Int /\ d * b[T \cap B] \in Int
        BY <2>3
      <3>4. c * f[x] + c * a[T] <= d * b[T \cap B]
        BY <2>1, <3>2, <3>3
      <3> QED
        BY <2>1, <2>4, <3>1, <3>4
    <2> QED
      BY <2>5, <2>6
  <1>5. S \in P
    <2> HIDE DEF P
    <2>1. P \in SUBSET (SUBSET S)
      BY DEF P
    <2>2. \A T \in SUBSET S : T \in P
      BY <1>3, <1>4, <2>1, SubsetInduction
    <2> QED
      BY <2>2
  <1>6. S \cap B = B /\ B \in SUBSET S /\ S \in SUBSET S
    OBVIOUS
  <1>7. SumFunctionOnSet(f, S) = a[S] /\ SumFunctionOnSet(g, B) = b[B]
    BY <1>1, <1>2, <1>6 DEF IsSum
  <1>8. a[S] \in Int /\ b[B] \in Int
    BY <1>6
  <1>9. c * a[S] <= d * b[B]
    BY <1>5, <1>6
  <1> QED
    BY <1>7, <1>8, <1>9

(* A sum depends on nothing outside its set. *)
LEMMA SumSame ==
    ASSUME NEW S, IsFiniteSet(S), NEW f, NEW g,
           \A x \in S : f[x] \in Int /\ g[x] = f[x]
    PROVE  SumFunctionOnSet(f, S) = SumFunctionOnSet(g, S)
  <1>1. \A x \in S : 1 * f[x] <= 1 * g[x] /\ 1 * g[x] <= 1 * f[x]
    OBVIOUS
  <1>2. S \in SUBSET S /\ \A x \in S \ S : FALSE
    OBVIOUS
  <1> DEFINE a == SumFunctionOnSet(f, S)
             b == SumFunctionOnSet(g, S)
  <1>3. a \in Int /\ b \in Int /\ 1 * a <= 1 * b
    <2>1. /\ 1 \in Int /\ S \in SUBSET S /\ \A x \in S : f[x] \in Int /\ g[x] \in Int
          /\ \A x \in S : 1 * f[x] <= 1 * g[x]
          /\ \A x \in S \ S : 1 * f[x] <= 0
      BY <1>1
    <2> QED
      BY ONLY <2>1, SumWithin, IsFiniteSet(S)
  <1>4. 1 * b <= 1 * a
    <2>1. /\ 1 \in Int /\ S \in SUBSET S /\ \A x \in S : f[x] \in Int /\ g[x] \in Int
          /\ \A x \in S : 1 * g[x] <= 1 * f[x]
          /\ \A x \in S \ S : 1 * g[x] <= 0
      BY <1>1
    <2> QED
      BY ONLY <2>1, SumWithin, IsFiniteSet(S)
  <1> HIDE DEF a, b
  <1>5. a = b
    BY <1>3, <1>4
  <1> QED
    BY <1>5 DEF a, b

-----------------------------------------------------------------------------
(* A rounded fraction stays between the whole numbers the fraction is       *)
(* between.                                                                 *)
LEMMA RoundWithin ==
    ASSUME NEW n \in Int, NEW d \in Nat \ {0}, NEW a \in Int, NEW b \in Int,
           a * d <= n, n <= b * d
    PROVE  RoundHalf(n, d) \in a..b
  <1> DEFINE q == n \div d
             r == n % d
  <1>1. n = d * q + r /\ 0 <= r /\ r < d /\ q \in Int /\ r \in Int
    OBVIOUS
  <1>2. RoundHalf(n, d) = IF 2 * r < d \/ (2 * r = d /\ q % 2 = 0) THEN q ELSE q + 1
    BY DEF RoundHalf
  <1> HIDE DEF q, r
  <1>3. a <= q
    <2>1. SUFFICES ASSUME q + 1 <= a PROVE FALSE
      BY <1>1
    <2>2. (q + 1) * d <= a * d
      BY <1>1, <2>1
    <2>3. (q + 1) * d = d * q + d
      BY <1>1
    <2>4. d * q \in Int /\ a * d \in Int
      BY <1>1
    <2> QED
      BY <1>1, <2>2, <2>3, <2>4
  <1>4. q <= b
    <2>1. SUFFICES ASSUME b + 1 <= q PROVE FALSE
      BY <1>1
    <2>2. (b + 1) * d <= q * d
      BY <1>1, <2>1
    <2>3. (b + 1) * d = b * d + d /\ q * d = d * q
      BY <1>1
    <2>4. d * q \in Int /\ b * d \in Int
      BY <1>1
    <2> QED
      BY <1>1, <2>2, <2>3, <2>4
  <1>5. CASE q = b
    <2>1. d * q = b * d /\ d * q \in Int
      BY <1>1, <1>5
    <2>2. r = 0
      BY <1>1, <2>1
    <2> QED
      BY <1>1, <1>2, <1>3, <1>5, <2>2
  <1>6. CASE q # b
    BY <1>1, <1>2, <1>3, <1>4, <1>6
  <1> QED
    BY <1>5, <1>6

(* A positive weight makes a positive sum. *)
LEMMA SumOne ==
    ASSUME NEW x, NEW f, f[x] \in Int
    PROVE  SumFunctionOnSet(f, {x}) = f[x]
  <1>1. IsFiniteSet({x}) /\ \A y \in {x} : f[y] \in Int
    BY FS_Singleton
  <1>2. PICK sum \in [SUBSET {x} -> Int] : IsSum(sum, f, {x})
    BY <1>1, SumIs
  <1>3. SumFunctionOnSet(f, {x}) = sum[{x}] /\ sum[{x}] = f[x] + sum[{x} \ {x}] /\ sum[{}] = 0
    <2>1. {x} \in SUBSET {x} /\ x \in {x}
      OBVIOUS
    <2> QED
      BY <1>2, <2>1 DEF IsSum
  <1>4. {x} \ {x} = {}
    OBVIOUS
  <1> QED
    BY <1>3, <1>4

(* What AskTimeframes may ask. *)
Readable == [DOMAIN Weights -> [bars : {Enough - 1, Enough}, net : Nets]]

(* The sums of what could be read: the weights, and their pull to either     *)
(* side, which only the timeframes of that side can give. *)
LEMMA PullsWithin ==
    ASSUME NEW readings \in Readable, NEW side \in -1..1
    PROVE  LET in == Included(readings)
               weight == SumFunctionOnSet(Weights, in)
               pull == SumFunctionOnSet(Pulls(readings), in)
               backing == SumFunctionOnSet(Weights, {tf \in in : readings[tf].net * side > 0})
           IN  /\ IsFiniteSet(in)
               /\ \A tf \in in : /\ Weights[tf] \in Nat /\ readings[tf].net \in -One..One
                                 /\ Pulls(readings)[tf] = Weights[tf] * readings[tf].net
                                 /\ Pulls(readings)[tf] \in Int
               /\ weight \in Int /\ weight >= 0 /\ pull \in Int
               /\ backing \in Int /\ backing <= weight
               /\ side * pull <= One * backing
  <1> DEFINE in == Included(readings)
             B == {tf \in in : readings[tf].net * side > 0}
             pulls == Pulls(readings)
  <1>1. IsFiniteSet(in) /\ in \in SUBSET (DOMAIN Weights) /\ B \in SUBSET in
    <2>1. in \in SUBSET (DOMAIN Weights)
      BY DEF Included
    <2> QED
      BY <2>1, WeightsAssumption, FS_Subset
  <1>2. ASSUME NEW tf \in in
        PROVE  /\ Weights[tf] \in Nat /\ readings[tf].net \in -One..One
               /\ readings[tf].net \in Int
               /\ pulls[tf] = Weights[tf] * readings[tf].net /\ pulls[tf] \in Int
    <2>1. tf \in DOMAIN Weights
      BY <1>1
    <2>2. Weights[tf] \in Nat /\ readings[tf].net \in -One..One
      BY <2>1, WeightsAssumption, InputsAssumption DEF Readable
    <2>3. readings[tf].net \in Int
      <3>1. One \in Int
        BY DEF One
      <3>2. \A x \in -One..One : x \in Int
        BY <3>1
      <3> QED
        BY <2>2, <3>2
    <2>4. pulls[tf] = Weights[tf] * readings[tf].net
      BY <2>1 DEF Pulls
    <2> QED
      BY <2>2, <2>3, <2>4
  <1>3. One = 1200
    BY DEF One
  <1>4. ASSUME NEW tf \in B PROVE side * pulls[tf] <= One * Weights[tf]
    <2> DEFINE w == Weights[tf]
               net == readings[tf].net
    <2>1. w \in Nat /\ net \in -1200..1200 /\ pulls[tf] = w * net
      BY <1>2, <1>3
    <2> HIDE DEF w, net, pulls
    <2>2. side * net <= 1200 /\ side * net \in Int
      BY <2>1
    <2>3. w * (side * net) <= w * 1200
      BY <2>1, <2>2
    <2>4. side * (w * net) = w * (side * net)
      BY <2>1
    <2> QED
      BY <1>3, <2>1, <2>3, <2>4 DEF w
  <1>5. ASSUME NEW tf \in in \ B PROVE side * pulls[tf] <= 0
    <2> DEFINE w == Weights[tf]
               net == readings[tf].net
    <2>1. w \in Nat /\ net \in Int /\ pulls[tf] = w * net /\ ~(net * side > 0)
      BY <1>2
    <2> HIDE DEF w, net, pulls
    <2>2. net * side <= 0 /\ net * side \in Int
      BY <2>1
    <2>3. w * (net * side) <= 0
      BY <2>1, <2>2
    <2>4. side * (w * net) = w * (net * side)
      BY <2>1
    <2> QED
      BY <2>1, <2>3, <2>4
  <1> DEFINE weight == SumFunctionOnSet(Weights, in)
             pull == SumFunctionOnSet(pulls, in)
             backing == SumFunctionOnSet(Weights, B)
  <1> HIDE DEF in, B, pulls
  <1>6. pull \in Int /\ backing \in Int /\ side * pull <= One * backing
    <2>1. /\ side \in Int /\ One \in Int
          /\ \A tf \in in : pulls[tf] \in Int /\ Weights[tf] \in Int
          /\ \A tf \in B : side * pulls[tf] <= One * Weights[tf]
          /\ \A tf \in in \ B : side * pulls[tf] <= 0
      BY <1>2, <1>3, <1>4, <1>5
    <2> QED
      BY ONLY <1>1, <2>1, SumWithin
  <1>7. weight \in Int /\ (-1) * weight <= (-1) * backing
    <2>1. /\ -1 \in Int
          /\ \A tf \in in : Weights[tf] \in Int
          /\ \A tf \in B : (-1) * Weights[tf] <= (-1) * Weights[tf]
          /\ \A tf \in in \ B : (-1) * Weights[tf] <= 0
      BY <1>1, <1>2
    <2> QED
      BY ONLY <1>1, <2>1, SumWithin
  <1>8. (-1) * weight <= 0
    <2>1. /\ -1 \in Int /\ 0 \in Int /\ {} \in SUBSET in
          /\ \A tf \in in : Weights[tf] \in Int
          /\ \A tf \in {} : (-1) * Weights[tf] <= 0 * Weights[tf]
          /\ \A tf \in in \ {} : (-1) * Weights[tf] <= 0
      BY <1>2
    <2>2. /\ SumFunctionOnSet(Weights, {}) \in Int
          /\ (-1) * weight <= 0 * SumFunctionOnSet(Weights, {})
      BY ONLY <1>1, <2>1, SumWithin
    <2>3. 0 * SumFunctionOnSet(Weights, {}) = 0
      BY <2>2
    <2> QED
      BY <2>2, <2>3
  <1> HIDE DEF weight, pull, backing
  <1>9. weight >= 0 /\ backing <= weight
    BY <1>6, <1>7, <1>8
  <1> QED
    BY <1>1, <1>2, <1>6, <1>7, <1>9 DEF in, B, pulls, weight, pull, backing

(* A timeframe without enough bars changes nothing. *)
LEMMA MaskedSame ==
    ASSUME NEW readings \in Readable, NEW masked,
           masked = [tf \in DOMAIN Weights |->
                        IF tf \in Included(readings) THEN readings[tf]
                        ELSE [bars |-> 0, net |-> One]]
    PROVE  Timeframes(masked) = Timeframes(readings)
  <1> DEFINE in == Included(readings)
  <1>1. Included(masked) = in
    <2>1. ASSUME NEW tf \in DOMAIN Weights
          PROVE  masked[tf].bars >= Enough <=> readings[tf].bars >= Enough
      <3>1. CASE tf \in Included(readings)
        BY <3>1
      <3>2. CASE tf \notin Included(readings)
        <4>1. masked[tf].bars = 0
          BY <3>2
        <4>2. ~(readings[tf].bars >= Enough)
          BY <3>2 DEF Included
        <4> QED
          BY <4>1, <4>2, WeightsAssumption
      <3> QED
        BY <3>1, <3>2
    <2> QED
      BY <2>1, Zenon DEF Included
  <1>2. in \in SUBSET (DOMAIN Weights) /\ \A tf \in in : masked[tf] = readings[tf]
    BY DEF Included
  <1>3. /\ IsFiniteSet(in)
        /\ \A tf \in in : Pulls(readings)[tf] \in Int
    <2>1. 0 \in -1..1
      OBVIOUS
    <2> QED
      BY <2>1, PullsWithin
  <1>4. \A tf \in in : Pulls(masked)[tf] = Pulls(readings)[tf]
    BY <1>2 DEF Pulls
  <1>5. SumFunctionOnSet(Pulls(readings), in) = SumFunctionOnSet(Pulls(masked), in)
    <2> HIDE DEF in
    <2> QED
      BY <1>3, <1>4, SumSame
  <1>6. \A side : {tf \in in : masked[tf].net * side > 0} = {tf \in in : readings[tf].net * side > 0}
    BY <1>2, Zenon
  <1> HIDE DEF in
  <1> QED
    BY <1>1, <1>5, <1>6, Zenon DEF Timeframes, in

(* ConsensusBacksBias, of any readings. *)
LEMMA ConsensusBacks ==
    ASSUME NEW readings \in Readable
    PROVE  LET combined == Timeframes(readings)
               read == {tf \in Included(readings) : Weights[tf] > 0}
           IN  /\ combined.bias # "WAIT" =>
                     /\ combined.consensus * One >= combined.agreement * Sign(combined.agreement)
                     /\ combined.score \in 62..100
               /\ read # {} /\ (\A tf \in read : readings[tf].net >= DirectionThreshold) =>
                     combined.bias = "LONG"
  <1> DEFINE combined == Timeframes(readings)
             in == Included(readings)
             read == {tf \in in : Weights[tf] > 0}
             weight == SumFunctionOnSet(Weights, in)
             pull == SumFunctionOnSet(Pulls(readings), in)
             side == Sign(pull)
             backing == SumFunctionOnSet(Weights, {tf \in in : readings[tf].net * side > 0})
             bias == BiasOf(pull, weight * DirectionThreshold)
  <1>1. One = 1200 /\ DirectionThreshold = 288
    BY DEF One, DirectionThreshold
  <1>2. side \in -1..1
    BY DEF Sign
  <1>3. /\ IsFiniteSet(in)
        /\ \A tf \in in : /\ Weights[tf] \in Nat /\ readings[tf].net \in -One..One
                          /\ Pulls(readings)[tf] = Weights[tf] * readings[tf].net
                          /\ Pulls(readings)[tf] \in Int
        /\ weight \in Int /\ weight >= 0 /\ pull \in Int
        /\ backing \in Int /\ backing <= weight
        /\ side * pull <= One * backing
    BY <1>2, PullsWithin
  <1>4. CASE weight = 0
    <2>1. combined.bias = "WAIT"
      BY <1>4 DEF Timeframes
    <2>2. ASSUME NEW tf \in read PROVE FALSE
      <3>1. tf \in in /\ Weights[tf] > 0 /\ Weights[tf] \in Int
        BY <1>3
      <3>3. /\ {tf} \in SUBSET in /\ -1 \in Int
            /\ \A x \in in : Weights[x] \in Int
            /\ \A x \in {tf} : (-1) * Weights[x] <= (-1) * Weights[x]
            /\ \A x \in in \ {tf} : (-1) * Weights[x] <= 0
        BY <1>3, <3>1
      <3>4. (-1) * weight <= (-1) * SumFunctionOnSet(Weights, {tf})
        BY ONLY <1>3, <3>3, SumWithin
      <3>5. SumFunctionOnSet(Weights, {tf}) = Weights[tf]
        BY <3>1, SumOne
      <3> HIDE DEF weight
      <3> QED
        BY <1>4, <3>1, <3>4, <3>5
    <2> QED
      BY <2>1, <2>2
  <1>5. CASE weight # 0
    <2>1. /\ combined.bias = bias /\ combined.agreement = pull
          /\ combined.score = RoundHalf(50 * (pull * side + weight * One), weight * One)
          /\ bias # "WAIT" => combined.consensus = backing
      BY <1>5 DEF Timeframes
    <2>2. weight > 0 /\ weight * One \in Nat \ {0}
      <3> HIDE DEF weight
      <3> QED
        BY <1>1, <1>3, <1>5
    <2>3. ASSUME bias # "WAIT"
          PROVE  /\ combined.consensus * One >= pull * side
                 /\ combined.score \in 62..100
      <3>1. side * pull >= weight * 288
        <4>1. pull >= weight * 288 \/ pull <= -(weight * 288)
          <5> HIDE DEF weight, pull
          <5> QED
            BY <1>1, <2>3 DEF BiasOf
        <4>2. weight * 288 > 0 /\ weight * 288 \in Int
          <5> HIDE DEF weight, pull
          <5> QED
            BY <1>3, <2>2
        <4>3. pull # None
          <5> HIDE DEF weight, pull
          <5> QED
            BY <1>3, NothingAssumption
        <4>4. /\ pull > 0 => side = 1
              /\ pull < 0 => side = -1
          <5> HIDE DEF weight, pull
          <5> QED
            BY <1>3, <4>3 DEF Sign
        <4> HIDE DEF weight, pull, side
        <4>5. CASE pull > 0
          BY <1>3, <4>1, <4>2, <4>4, <4>5
        <4>6. CASE pull < 0
          BY <1>3, <4>1, <4>2, <4>4, <4>6
        <4> QED
          BY <1>3, <4>1, <4>2, <4>5, <4>6
      <3> DEFINE strength == pull * side
      <3>2. /\ strength \in Int /\ strength >= weight * 288
            /\ strength <= 1200 * backing /\ backing <= weight
        <4> HIDE DEF weight, pull, side, backing
        <4>1. strength = side * pull
          BY <1>2, <1>3
        <4> QED
          BY <1>1, <1>2, <1>3, <3>1, <4>1
      <3>3. RoundHalf(50 * (strength + weight * One), weight * One) \in 62..100
        <4> HIDE DEF weight, strength, backing
        <4>1. 50 * (strength + weight * One) = 50 * strength + 60000 * weight
          BY <1>1, <1>3, <3>2
        <4>2. /\ 62 * (weight * One) <= 50 * (strength + weight * One)
              /\ 50 * (strength + weight * One) <= 100 * (weight * One)
          BY <1>1, <1>3, <3>2, <4>1
        <4>3. 50 * (strength + weight * One) \in Int
          BY <1>1, <1>3, <3>2
        <4>4. 62 \in Int /\ 100 \in Int
          OBVIOUS
        <4> HIDE DEF One
        <4> QED
          BY <2>2, <4>2, <4>3, <4>4, RoundWithin
      <3>4. combined.consensus = backing
        BY <2>1, <2>3
      <3> HIDE DEF combined, backing, pull, side, weight
      <3>5. combined.consensus * One = 1200 * backing
        BY <1>1, <1>3, <3>4
      <3> QED
        BY <1>3, <2>1, <3>2, <3>3, <3>5
    <2>4. ASSUME \A tf \in read : readings[tf].net >= DirectionThreshold
          PROVE  bias = "LONG"
      <3>1. ASSUME NEW tf \in in
            PROVE  288 * Weights[tf] <= 1 * Pulls(readings)[tf]
        <4> DEFINE w == Weights[tf]
                   net == readings[tf].net
        <4>1. w \in Nat /\ net \in Int /\ Pulls(readings)[tf] = w * net
          <5>1. \A x \in -One..One : x \in Int
            BY <1>1
          <5> QED
            BY <1>3, <5>1
        <4>2. w > 0 => net >= 288
          BY <1>1, <2>4
        <4> HIDE DEF w, net
        <4>3. CASE w > 0
          <5>1. w * 288 <= w * net
            BY <4>1, <4>2, <4>3
          <5>2. w * net \in Int /\ w * 288 = 288 * w
            BY <4>1
          <5> QED
            BY <4>1, <5>1, <5>2 DEF w
        <4>4. CASE w = 0
          <5>1. 288 * w = 0 /\ 1 * (w * net) = 0
            BY <4>1, <4>4
          <5> QED
            BY <4>1, <5>1 DEF w
        <4> QED
          BY <4>1, <4>3, <4>4
      <3>2. 288 * weight <= 1 * pull
        <4>1. /\ 288 \in Int /\ 1 \in Int /\ in \in SUBSET in
              /\ \A x \in in : Weights[x] \in Int /\ Pulls(readings)[x] \in Int
              /\ \A x \in in : 288 * Weights[x] <= 1 * Pulls(readings)[x]
              /\ \A x \in in \ in : 288 * Weights[x] <= 0
          BY <1>3, <3>1
        <4> HIDE DEF in
        <4> QED
          BY ONLY <1>3, <4>1, SumWithin
      <3> HIDE DEF weight, pull
      <3>3. pull >= weight * DirectionThreshold
        BY <1>1, <1>3, <3>2
      <3> QED
        BY <3>3 DEF BiasOf
    <2> QED
      BY <2>1, <2>3, <2>4
  <1> QED
    BY <1>4, <1>5

-----------------------------------------------------------------------------
(* What was asked of the other functions is an input of them. *)
QuestionsInv ==
    /\ question = "timeframes" => input \in Readable
    /\ question = "signal" => input \in Markets
    /\ question = "metrics" => input \in Seq(Results)

(* A question is asked with inputs of its own. *)
LEMMA QuestionsInvariance == Spec => []QuestionsInv
  <1>1. Init => QuestionsInv
    BY DEF Init, QuestionsInv
  <1>2. QuestionsInv /\ [Next]_vars => QuestionsInv'
    <2> SUFFICES ASSUME QuestionsInv, [Next]_vars PROVE QuestionsInv'
      OBVIOUS
    <2>1. CASE AskTimeframes \/ AskSignal \/ AskPlan \/ AskHistory \/ Answered
      BY <2>1 DEF AskTimeframes, AskSignal, AskPlan, AskHistory, Answered, Ask,
                  QuestionsInv, Readable
    <2>2. CASE AskMetrics
      <3>1. input' \in BoundedSeq(Results, MaxResults) /\ question' = "metrics"
        BY <2>2 DEF AskMetrics, Ask
      <3>2. input' \in Seq(Results)
        <4>1. PICK n \in Nat : input' \in [1..n -> Results]
          BY <3>1 DEF BoundedSeq, SeqOf
        <4> QED
          BY <4>1, SeqDef
      <3> QED
        BY <3>1, <3>2 DEF QuestionsInv
    <2>3. CASE NextBar \/ SameBar
      BY <2>3 DEF NextBar, SameBar, QuestionsInv
    <2>4. CASE UNCHANGED vars
      BY <2>4 DEF vars, QuestionsInv
    <2> QED
      BY <2>1, <2>2, <2>3, <2>4 DEF Next
  <1> QED
    BY <1>1, <1>2, PTL DEF Spec

(* ConsensusBacksBias, for any weights, any timeframes and any readings      *)
(* (analyse_timeframes). *)
THEOREM ConsensusBacksTheBias == Spec => []ConsensusBacksBias
  <1>1. QuestionsInv => ConsensusBacksBias
    <2> SUFFICES ASSUME input \in Readable, question = "timeframes" PROVE ConsensusBacksBias
      BY DEF ConsensusBacksBias, QuestionsInv
    <2> QED
      BY ConsensusBacks, MaskedSame, Zenon DEF ConsensusBacksBias
  <1> QED
    BY <1>1, QuestionsInvariance, PTL

-----------------------------------------------------------------------------
(* Longs and shorts.                                                        *)

(* Rounding, clamping and signs treat both sides of zero alike. *)
LEMMA RoundMirror ==
    ASSUME NEW n \in Int, NEW d \in Nat \ {0}
    PROVE  RoundHalf(n, d) \in Int /\ RoundHalf(-n, d) = -RoundHalf(n, d)
  <1> DEFINE q == n \div d
             r == n % d
             p == (-n) \div d
             s == (-n) % d
  <1>1. /\ n = d * q + r /\ 0 <= r /\ r < d /\ q \in Int /\ r \in Int
        /\ -n = d * p + s /\ 0 <= s /\ s < d /\ p \in Int /\ s \in Int
    OBVIOUS
  <1>2. /\ RoundHalf(n, d) = IF 2 * r < d \/ (2 * r = d /\ q % 2 = 0) THEN q ELSE q + 1
        /\ RoundHalf(-n, d) = IF 2 * s < d \/ (2 * s = d /\ p % 2 = 0) THEN p ELSE p + 1
    BY DEF RoundHalf
  <1> HIDE DEF q, r, p, s
  <1>3. d * (p + q) = -(r + s)
    <2>1. d * (p + q) = d * p + d * q /\ d * p \in Int /\ d * q \in Int
      BY <1>1
    <2> QED
      BY <1>1, <2>1
  <1>4. p + q \in {0, -1}
    <2> DEFINE t == p + q
    <2>1. t \in Int /\ d * t = -(r + s)
      BY <1>1, <1>3
    <2> HIDE DEF t
    <2>2. ~(t >= 1)
      <3>1. SUFFICES ASSUME t >= 1 PROVE FALSE
        OBVIOUS
      <3>2. d * t >= d
        BY <2>1, <3>1
      <3> QED
        BY <1>1, <2>1, <3>2
    <2>3. ~(t <= -2)
      <3>1. SUFFICES ASSUME t <= -2 PROVE FALSE
        OBVIOUS
      <3>2. d * t <= d * (-2)
        BY <2>1, <3>1
      <3>3. d * (-2) = -2 * d
        OBVIOUS
      <3> QED
        BY <1>1, <2>1, <3>2, <3>3
    <2> QED
      BY <2>1, <2>2, <2>3 DEF t
  <1>5. CASE p + q = 0
    <2>1. d * (p + q) = 0
      BY <1>5
    <2>2. r = 0 /\ s = 0 /\ p = -q
      BY <1>1, <1>3, <1>5, <2>1
    <2> QED
      BY <1>1, <1>2, <2>2
  <1>6. CASE p + q = -1
    <2>1. d * (p + q) = -d
      BY <1>6
    <2>2. r + s = d /\ p = -q - 1
      BY <1>1, <1>3, <1>6, <2>1
    <2>3. 2 * s < d <=> 2 * r > d
      BY <1>1, <2>2
    <2>4. 2 * s = d <=> 2 * r = d
      BY <1>1, <2>2
    <2>5. p % 2 = 0 <=> q % 2 # 0
      BY <1>1, <2>2
    <2>6. CASE 2 * r < d
      BY <1>1, <1>2, <2>2, <2>3, <2>4, <2>6
    <2>7. CASE 2 * r > d
      BY <1>1, <1>2, <2>2, <2>3, <2>4, <2>7
    <2>8. CASE 2 * r = d /\ q % 2 = 0
      BY <1>1, <1>2, <2>2, <2>3, <2>4, <2>5, <2>8
    <2>9. CASE 2 * r = d /\ q % 2 # 0
      BY <1>1, <1>2, <2>2, <2>3, <2>4, <2>5, <2>9
    <2> QED
      BY <1>1, <2>6, <2>7, <2>8, <2>9
  <1> QED
    BY <1>4, <1>5, <1>6

(* Clamping turns over with its argument. *)
LEMMA ClampMirror ==
    ASSUME NEW value \in Int
    PROVE  Clamp(value) \in -One..One /\ Clamp(value) \in Int /\ Clamp(-value) = -Clamp(value)
  BY DEF Clamp, One

(* A sign turns over with its reading, known or not. *)
LEMMA SignMirror ==
    /\ \A value \in Int \cup {None} : /\ Sign(value) \in {-1, 0, 1}
                                      /\ Sign(Negative(value)) = -Sign(value)
    /\ \A value \in Int : Sign(-value) = -Sign(value) /\ Negative(value) = -value
                          /\ value # None
    /\ \A value \in Int \cup {None} : Negative(value) = None <=> value = None
  BY NothingAssumption DEF Sign, Negative

(* The trend of the stack turned over. *)
LEMMA TrendMirror ==
    ASSUME NEW ema \in [1..4 -> Int \cup {None}], NEW price \in Int,
           NEW slope \in Int \cup {None}, price # ema[4]
    PROVE  LET trend == Trend(ema, price, slope)
               turned == Trend([k \in 1..4 |-> Negative(ema[k])], -price, Negative(slope))
           IN  /\ trend.signed_alignment \in Int
               /\ turned.signed_alignment = -trend.signed_alignment
               /\ trend.ema200_side \in Int
               /\ turned.ema200_side = -trend.ema200_side
               /\ Sign(trend.slope) \in Int
               /\ Sign(turned.slope) = -Sign(trend.slope)
  <1> DEFINE mirror == [k \in 1..4 |-> Negative(ema[k])]
             stack == {k \in 1..4 : ema[k] # None}
             pairs == {p \in stack \X stack :
                          p[1] < p[2] /\ \A k \in stack : ~(p[1] < k /\ k < p[2])}
             count == Cardinality(pairs)
             descending == {p \in pairs : ema[p[1]] > ema[p[2]]}
             ascending == {p \in pairs : ema[p[1]] < ema[p[2]]}
             trend == Trend(ema, price, slope)
             turned == Trend(mirror, -price, Negative(slope))
  <1>1. \A k \in 1..4 : mirror[k] = Negative(ema[k]) /\ (mirror[k] = None <=> ema[k] = None)
    BY SignMirror
  <1>2. {k \in 1..4 : mirror[k] # None} = stack
    BY <1>1
  <1>3. /\ {p \in pairs : mirror[p[1]] > mirror[p[2]]} = ascending
        /\ {p \in pairs : mirror[p[1]] < mirror[p[2]]} = descending
    <2>1. ASSUME NEW p \in pairs
          PROVE  /\ mirror[p[1]] > mirror[p[2]] <=> ema[p[1]] < ema[p[2]]
                 /\ mirror[p[1]] < mirror[p[2]] <=> ema[p[1]] > ema[p[2]]
      <3>1. p[1] \in 1..4 /\ p[2] \in 1..4 /\ ema[p[1]] \in Int /\ ema[p[2]] \in Int
        OBVIOUS
      <3>2. mirror[p[1]] = -ema[p[1]] /\ mirror[p[2]] = -ema[p[2]]
        BY <1>1, <3>1, SignMirror
      <3> QED
        BY <3>1, <3>2
    <2> HIDE DEF pairs, mirror
    <2> QED
      BY <2>1
  <1>4. IsFiniteSet(pairs) /\ IsFiniteSet(ascending) /\ IsFiniteSet(descending)
    <2>1. IsFiniteSet(1..4)
      <3>1. 1 \in Int /\ 4 \in Int
        OBVIOUS
      <3> QED
        BY ONLY <3>1, FS_Interval
    <2>2. stack \in SUBSET (1..4)
      OBVIOUS
    <2>3. IsFiniteSet(stack)
      BY <2>1, <2>2, FS_Subset
    <2>4. IsFiniteSet(stack \X stack)
      BY <2>3, FS_Product
    <2>5. pairs \in SUBSET (stack \X stack)
      OBVIOUS
    <2> HIDE DEF stack
    <2>6. IsFiniteSet(pairs)
      BY <2>4, <2>5, FS_Subset
    <2>7. ascending \in SUBSET pairs /\ descending \in SUBSET pairs
      OBVIOUS
    <2> HIDE DEF pairs, ascending, descending
    <2> QED
      BY <2>6, <2>7, FS_Subset
  <1> DEFINE lean == Cardinality(descending) - Cardinality(ascending)
             anew == Cardinality(ascending) - Cardinality(descending)
  <1>5. /\ Cardinality(ascending) \in Nat /\ Cardinality(descending) \in Nat /\ count \in Nat
        /\ pairs # {} => count # 0
    <2> HIDE DEF pairs, ascending, descending
    <2> QED
      BY <1>4, FS_CardinalityType, FS_EmptySet
  <1>6. /\ pairs = {} => /\ trend.signed_alignment = 0 /\ trend.ema200_side = 0
                         /\ trend.slope = None
        /\ pairs # {} =>
              /\ trend.signed_alignment = RoundHalf(lean * One, count)
              /\ trend.ema200_side = IF ema[4] = None THEN 0 ELSE IF price > ema[4] THEN 1 ELSE -1
              /\ trend.slope = slope
    BY DEF Trend
  <1>7. /\ pairs = {} => /\ turned.signed_alignment = 0 /\ turned.ema200_side = 0
                         /\ turned.slope = None
        /\ pairs # {} =>
              /\ turned.signed_alignment = RoundHalf(anew * One, count)
              /\ turned.ema200_side = IF mirror[4] = None THEN 0
                                      ELSE IF -price > mirror[4] THEN 1 ELSE -1
              /\ turned.slope = Negative(slope)
    <2>1. turned = LET ps == {p \in stack \X stack :
                                 p[1] < p[2] /\ \A k \in stack : ~(p[1] < k /\ k < p[2])}
                       c == Cardinality(ps)
                       d == Cardinality({p \in ps : mirror[p[1]] > mirror[p[2]]})
                       a == Cardinality({p \in ps : mirror[p[1]] < mirror[p[2]]})
                       fastest == mirror[Min(stack)]
                   IN  IF ps = {}
                       THEN [direction |-> "UNKNOWN", signed_alignment |-> 0, slope |-> None,
                             ema200_side |-> 0, price |-> -price]
                       ELSE [direction |->
                                CASE d = c /\ -price > fastest -> "BULLISH"
                                  [] a = c /\ -price < fastest  -> "BEARISH"
                                  [] OTHER -> "MIXED",
                             signed_alignment |-> RoundHalf((d - a) * One, c),
                             slope |-> Negative(slope),
                             ema200_side |-> IF mirror[4] = None THEN 0
                                             ELSE IF -price > mirror[4] THEN 1 ELSE -1,
                             price |-> -price]
      <3> HIDE DEF mirror, stack
      <3> QED
        BY <1>2 DEF Trend
    <2> DEFINE bull == Cardinality({p \in pairs : mirror[p[1]] > mirror[p[2]]})
               bear == Cardinality({p \in pairs : mirror[p[1]] < mirror[p[2]]})
    <2>2. /\ pairs = {} => /\ turned.signed_alignment = 0 /\ turned.ema200_side = 0
                           /\ turned.slope = None
          /\ pairs # {} =>
                /\ turned.signed_alignment = RoundHalf((bull - bear) * One, count)
                /\ turned.ema200_side = IF mirror[4] = None THEN 0
                                        ELSE IF -price > mirror[4] THEN 1 ELSE -1
                /\ turned.slope = Negative(slope)
      <3> HIDE DEF mirror, stack, turned
      <3> QED
        BY <2>1
    <2>3. bull - bear = anew
      BY <1>3
    <2> HIDE DEF bull, bear, anew, turned, pairs, mirror, count
    <2> QED
      BY <2>2, <2>3
  <1>8. /\ One \in Int /\ lean \in Int /\ anew = -lean /\ anew * One = -(lean * One) /\ lean * One \in Int
    <2>1. lean \in Int /\ anew = -lean
      <3> HIDE DEF ascending, descending
      <3> QED
        BY <1>5
    <2> HIDE DEF lean, anew
    <2> QED
      BY <2>1 DEF One
  <1>9. pairs # {} => /\ RoundHalf(lean * One, count) \in Int
                      /\ RoundHalf(anew * One, count) = -RoundHalf(lean * One, count)
    <2> HIDE DEF lean, anew, count, pairs
    <2> QED
      BY <1>5, <1>8, RoundMirror
  <1>10. Sign(slope) \in Int /\ Sign(Negative(slope)) = -Sign(slope) /\ Sign(None) = 0
    BY SignMirror DEF Sign
  <1>11. ema[4] # None =>
            /\ ema[4] \in Int /\ mirror[4] = -ema[4] /\ mirror[4] # None
            /\ (-price > mirror[4] <=> ~(price > ema[4]))
    <2>1. ASSUME ema[4] # None PROVE ema[4] \in Int /\ mirror[4] = -ema[4] /\ mirror[4] # None
      BY <1>1, <2>1, SignMirror
    <2> QED
      BY <2>1
  <1>12. ema[4] = None => mirror[4] = None
    BY <1>1
  <1> HIDE DEF trend, turned, pairs, mirror, lean, anew, count
  <1> QED
    BY <1>6, <1>7, <1>9, <1>10, <1>11, <1>12 DEF trend, turned, mirror

(* The direction of the turned trend. *)
LEMMA ScoreTrendMirror ==
    ASSUME NEW trend, NEW turned,
           trend.signed_alignment \in Int, trend.ema200_side \in Int, Sign(trend.slope) \in Int,
           turned.signed_alignment = -trend.signed_alignment,
           turned.ema200_side = -trend.ema200_side,
           Sign(turned.slope) = -Sign(trend.slope)
    PROVE  ScoreTrend(trend) \in Int /\ ScoreTrend(turned) = -ScoreTrend(trend)
  <1> DEFINE a == trend.signed_alignment
             e == trend.ema200_side
             s == Sign(trend.slope)
             sum == 5 * a + 3 * One * s + 2 * One * e
  <1>1. ScoreTrend(trend) = Clamp(RoundHalf(sum, 10))
    BY DEF ScoreTrend
  <1>2. ScoreTrend(turned) = Clamp(RoundHalf(5 * (-a) + 3 * One * (-s) + 2 * One * (-e), 10))
    BY DEF ScoreTrend
  <1>3. sum \in Int /\ 5 * (-a) + 3 * One * (-s) + 2 * One * (-e) = -sum
    <2>1. a \in Int /\ e \in Int /\ s \in Int /\ One = 1200
      BY DEF One
    <2> HIDE DEF a, e, s
    <2> QED
      BY <2>1
  <1> HIDE DEF sum
  <1>4. 10 \in Nat \ {0}
    OBVIOUS
  <1>5. RoundHalf(sum, 10) \in Int /\ RoundHalf(-sum, 10) = -RoundHalf(sum, 10)
    BY <1>3, <1>4, RoundMirror
  <1> QED
    BY <1>1, <1>2, <1>3, <1>5, ClampMirror

(* The momentum of the turned market: an overbought one is oversold. *)
LEMMA MomentumMirror ==
    ASSUME NEW rsi \in Int \cup {None}, NEW histogram \in Int \cup {None},
           NEW roc \in Int \cup {None}
    PROVE  LET momentum == Momentum(rsi, None, histogram, roc)
               turned == Momentum(IF rsi = None THEN None ELSE 100 - rsi, None,
                                  Negative(histogram), Negative(roc))
           IN  ScoreMomentum(momentum) \in Int /\ ScoreMomentum(turned) = -ScoreMomentum(momentum)
  <1> DEFINE other == IF rsi = None THEN None ELSE 100 - rsi
             momentum == Momentum(rsi, None, histogram, roc)
             turned == Momentum(other, None, Negative(histogram), Negative(roc))
             strength == IF rsi = None THEN 0 ELSE RoundHalf((rsi - 50) * One, 50)
             opposite == IF other = None THEN 0 ELSE RoundHalf((other - 50) * One, 50)
  <1>1. strength \in Int /\ opposite = -strength
    <2>1. CASE rsi = None
      <3>1. strength = 0 /\ other = None
        BY <2>1
      <3>2. opposite = 0
        BY <3>1
      <3> HIDE DEF strength, opposite
      <3>3. strength \in Int /\ opposite \in Int /\ strength + opposite = 0
        BY <3>1, <3>2
      <3> QED
        BY ONLY <3>3
    <2>2. CASE rsi # None
      <3>1. rsi \in Int /\ other = 100 - rsi /\ other # None
        BY <2>2, NothingAssumption
      <3>2. (rsi - 50) * One \in Int /\ (other - 50) * One = -((rsi - 50) * One)
        BY <3>1 DEF One
      <3>3. 50 \in Nat \ {0}
        OBVIOUS
      <3>4. /\ RoundHalf((rsi - 50) * One, 50) \in Int
            /\ RoundHalf(-((rsi - 50) * One), 50) = -RoundHalf((rsi - 50) * One, 50)
        BY ONLY <3>2, <3>3, RoundMirror
      <3> QED
        BY <2>2, <3>1, <3>2, <3>4
    <2> HIDE DEF strength, opposite
    <2> QED
      BY <2>1, <2>2
  <1>2. momentum.score = RoundHalf(strength, 2) + (One \div 4) * (Sign(histogram) + Sign(roc))
    BY DEF Momentum
  <1>3. turned.score = RoundHalf(opposite, 2)
                       + (One \div 4) * (Sign(Negative(histogram)) + Sign(Negative(roc)))
    BY DEF Momentum
  <1>4. /\ momentum.overbought <=> rsi # None /\ rsi >= 70
        /\ momentum.oversold <=> rsi # None /\ rsi <= 30
    BY DEF Momentum
  <1>5. /\ turned.overbought <=> other # None /\ other >= 70
        /\ turned.oversold <=> other # None /\ other <= 30
    BY DEF Momentum
  <1>6. (turned.overbought <=> momentum.oversold) /\ (turned.oversold <=> momentum.overbought)
    <2>1. CASE rsi = None
      BY <1>4, <1>5, <2>1
    <2>2. CASE rsi # None
      <3>1. rsi \in Int /\ other = 100 - rsi /\ other # None
        BY <2>2, NothingAssumption
      <3> HIDE DEF other, momentum, turned
      <3> QED
        BY <1>4, <1>5, <2>2, <3>1
    <2> QED
      BY <2>1, <2>2
  <1> HIDE DEF other, strength, opposite, momentum, turned
  <1>7. 2 \in Nat \ {0} /\ 4 \in Nat \ {0}
    OBVIOUS
  <1>8. RoundHalf(strength, 2) \in Int /\ RoundHalf(opposite, 2) = -RoundHalf(strength, 2)
    BY <1>1, <1>7, RoundMirror
  <1>9. /\ Sign(histogram) \in Int /\ Sign(Negative(histogram)) = -Sign(histogram)
        /\ Sign(roc) \in Int /\ Sign(Negative(roc)) = -Sign(roc)
    BY SignMirror
  <1>10. One \div 4 = 300
    BY DEF One
  <1>11. momentum.score \in Int /\ turned.score = -momentum.score
    <2> DEFINE h == Sign(histogram)
               r == Sign(roc)
               m == RoundHalf(strength, 2)
    <2>1. /\ h \in Int /\ r \in Int /\ m \in Int
          /\ momentum.score = m + 300 * (h + r) /\ turned.score = -m + 300 * (-h + -r)
      BY <1>2, <1>3, <1>8, <1>9, <1>10
    <2> HIDE DEF h, r, m
    <2> QED
      BY <2>1
  <1> DEFINE direction == Clamp(momentum.score)
             stretched == \/ momentum.overbought /\ direction > 0
                          \/ momentum.oversold /\ direction < 0
             back == Clamp(turned.score)
             overdone == \/ turned.overbought /\ back > 0
                         \/ turned.oversold /\ back < 0
  <1>12. ScoreMomentum(momentum) = IF stretched THEN RoundHalf(3 * direction, 4) ELSE direction
    BY DEF ScoreMomentum
  <1>13. ScoreMomentum(turned) = IF overdone THEN RoundHalf(3 * back, 4) ELSE back
    BY DEF ScoreMomentum
  <1>14. direction \in Int /\ back = -direction
    BY <1>11, ClampMirror
  <1> HIDE DEF direction, back
  <1>15. overdone <=> stretched
    BY <1>6, <1>14
  <1> HIDE DEF overdone, stretched
  <1>16. 3 * direction \in Int /\ 3 * back = -(3 * direction)
    BY <1>14
  <1>17. /\ RoundHalf(3 * direction, 4) \in Int
         /\ RoundHalf(-(3 * direction), 4) = -RoundHalf(3 * direction, 4)
    BY <1>7, <1>16, RoundMirror
  <1>18. ScoreMomentum(momentum) \in Int /\ ScoreMomentum(turned) = -ScoreMomentum(momentum)
    BY <1>12, <1>13, <1>14, <1>15, <1>16, <1>17
  <1> QED
    BY <1>18 DEF momentum, turned, other

(* The structure of the turned market: a support resists. *)
LEMMA StructureMirror ==
    ASSUME NEW structure \in [support : Int \cup {None}, resistance : Int \cup {None},
                              recent_high : Int, recent_low : Int],
           NEW price \in Int, NEW atr
    PROVE  LET turned == [support |-> Negative(structure.resistance),
                          resistance |-> Negative(structure.support),
                          recent_high |-> -structure.recent_low,
                          recent_low |-> -structure.recent_high]
           IN  /\ ScoreStructure(structure, price, atr) \in Int
               /\ ScoreStructure(turned, -price, atr) = -ScoreStructure(structure, price, atr)
  <1> DEFINE turned == [support |-> Negative(structure.resistance),
                        resistance |-> Negative(structure.support),
                        recent_high |-> -structure.recent_low,
                        recent_low |-> -structure.recent_high]
             reach == IF atr = None THEN 0 ELSE atr
             near(distance) == atr # None /\ atr > 0 /\ distance \in 0..reach
             high == structure.recent_high
             low == structure.recent_low
             span == high - low
             place == Clamp(RoundHalf(One * (2 * (price - low) - span), span))
             resisted == structure.resistance # None /\ near(structure.resistance - price)
             supported == structure.support # None /\ near(price - structure.support)
             turnedSpan == -low - -high
             turnedPlace == Clamp(RoundHalf(One * (2 * (-price - -high) - turnedSpan), turnedSpan))
             turnedResisted == turned.resistance # None /\ near(turned.resistance - -price)
             turnedSupported == turned.support # None /\ near(-price - turned.support)
  <1>1. ScoreStructure(structure, price, atr) =
            IF span <= 0 THEN 0
            ELSE IF resisted /\ ~supported THEN Clamp(place - ProximityEffect)
            ELSE IF supported /\ ~resisted THEN Clamp(place + ProximityEffect)
            ELSE place
    BY DEF ScoreStructure
  <1>2. ScoreStructure(turned, -price, atr) =
            IF turnedSpan <= 0 THEN 0
            ELSE IF turnedResisted /\ ~turnedSupported THEN Clamp(turnedPlace - ProximityEffect)
            ELSE IF turnedSupported /\ ~turnedResisted THEN Clamp(turnedPlace + ProximityEffect)
            ELSE turnedPlace
    BY DEF ScoreStructure
  <1>3. high \in Int /\ low \in Int /\ span \in Int /\ turnedSpan = span
    OBVIOUS
  <1>4. turnedResisted <=> supported
    <2>1. turned.resistance = Negative(structure.support)
      OBVIOUS
    <2>2. CASE structure.support = None
      BY <2>1, <2>2 DEF Negative
    <2>3. CASE structure.support # None
      <3>1. /\ structure.support \in Int /\ turned.resistance = -structure.support
            /\ turned.resistance # None
        BY <2>1, <2>3, NothingAssumption DEF Negative
      <3>2. turned.resistance - -price = price - structure.support
        BY <3>1
      <3> HIDE DEF reach, turned
      <3> QED
        BY <2>3, <3>1, <3>2
    <2> QED
      BY <2>2, <2>3
  <1>5. turnedSupported <=> resisted
    <2>1. turned.support = Negative(structure.resistance)
      OBVIOUS
    <2>2. CASE structure.resistance = None
      BY <2>1, <2>2 DEF Negative
    <2>3. CASE structure.resistance # None
      <3>1. /\ structure.resistance \in Int /\ turned.support = -structure.resistance
            /\ turned.support # None
        BY <2>1, <2>3, NothingAssumption DEF Negative
      <3>2. -price - turned.support = structure.resistance - price
        BY <3>1
      <3> HIDE DEF reach, turned
      <3> QED
        BY <2>3, <3>1, <3>2
    <2> QED
      BY <2>2, <2>3
  <1> HIDE DEF resisted, supported, turnedResisted, turnedSupported
  <1>6. CASE span <= 0
    <2>1. turnedSpan <= 0
      BY <1>3, <1>6
    <2>2. ScoreStructure(structure, price, atr) = 0 /\ ScoreStructure(turned, -price, atr) = 0
      <3> HIDE DEF turned, span, turnedSpan, place, turnedPlace
      <3> QED
        BY <1>1, <1>2, <1>6, <2>1
    <2> HIDE DEF turned
    <2> QED
      BY <2>2 DEF turned
  <1>7. CASE ~(span <= 0)
    <2> DEFINE n == One * (2 * (price - low) - span)
               m == One * (2 * (-price - -high) - turnedSpan)
    <2>1. n \in Int /\ m = -n
      BY <1>3 DEF One
    <2>2. span \in Nat \ {0}
      BY <1>3, <1>7
    <2> HIDE DEF n, m, span, turnedSpan
    <2>3. RoundHalf(n, span) \in Int /\ RoundHalf(-n, span) = -RoundHalf(n, span)
      BY <2>1, <2>2, RoundMirror
    <2>4. place = Clamp(RoundHalf(n, span)) /\ turnedPlace = Clamp(RoundHalf(-n, span))
      BY <1>3, <2>1 DEF n, m
    <2>5. place \in Int /\ turnedPlace = -place
      <3> HIDE DEF place, turnedPlace
      <3> QED
        BY <2>3, <2>4, ClampMirror
    <2>6. ProximityEffect \in Int
      BY DEF ProximityEffect, One
    <2> HIDE DEF place, turnedPlace
    <2>7. /\ place - ProximityEffect \in Int /\ place + ProximityEffect \in Int
          /\ turnedPlace - ProximityEffect = -(place + ProximityEffect)
          /\ turnedPlace + ProximityEffect = -(place - ProximityEffect)
      BY <2>5, <2>6
    <2>8. /\ Clamp(place - ProximityEffect) \in Int /\ Clamp(place + ProximityEffect) \in Int
          /\ Clamp(turnedPlace - ProximityEffect) = -Clamp(place + ProximityEffect)
          /\ Clamp(turnedPlace + ProximityEffect) = -Clamp(place - ProximityEffect)
      BY <2>7, ClampMirror
    <2>9. ~(turnedSpan <= 0)
      BY <1>3, <1>7
    <2>10. /\ ScoreStructure(structure, price, atr) \in Int
           /\ ScoreStructure(turned, -price, atr) = -ScoreStructure(structure, price, atr)
      <3> HIDE DEF turned
      <3> QED
        BY <1>1, <1>2, <1>4, <1>5, <1>7, <2>5, <2>8, <2>9
    <2> QED
      BY <2>10
  <1> QED
    BY <1>6, <1>7

(* A component's points, and a bias, of the signal turned over. *)
LEMMA PointsMirror ==
    /\ \A direction, side \in Int :
          ComponentScore(-direction, -side) = ComponentScore(direction, side)
    /\ \A total \in Int :
          BiasOf(-total, 4 * DirectionThreshold) =
              CASE BiasOf(total, 4 * DirectionThreshold) = "LONG"  -> "SHORT"
                [] BiasOf(total, 4 * DirectionThreshold) = "SHORT" -> "LONG"
                [] OTHER                                           -> "WAIT"
  <1>1. ASSUME NEW direction \in Int, NEW side \in Int
        PROVE  ComponentScore(-direction, -side) = ComponentScore(direction, side)
    <2>1. (-direction) * (-side) = direction * side
      BY <1>1
    <2>2. -side = 0 <=> side = 0
      BY <1>1
    <2> QED
      BY <2>1, <2>2 DEF ComponentScore
  <1>2. ASSUME NEW total \in Int
        PROVE  BiasOf(-total, 4 * DirectionThreshold) =
                  CASE BiasOf(total, 4 * DirectionThreshold) = "LONG"  -> "SHORT"
                    [] BiasOf(total, 4 * DirectionThreshold) = "SHORT" -> "LONG"
                    [] OTHER                                           -> "WAIT"
    <2> DEFINE t == 4 * DirectionThreshold
    <2>1. t = 1152
      BY DEF DirectionThreshold, One
    <2> HIDE DEF t
    <2>2. /\ total >= t => BiasOf(total, t) = "LONG" /\ BiasOf(-total, t) = "SHORT"
          /\ total <= -t => BiasOf(total, t) = "SHORT" /\ BiasOf(-total, t) = "LONG"
          /\ ~(total >= t) /\ ~(total <= -t) =>
                BiasOf(total, t) = "WAIT" /\ BiasOf(-total, t) = "WAIT"
      BY <2>1 DEF BiasOf
    <2>3. \/ BiasOf(total, t) = "LONG" /\ BiasOf(-total, t) = "SHORT"
          \/ BiasOf(total, t) = "SHORT" /\ BiasOf(-total, t) = "LONG"
          \/ BiasOf(total, t) = "WAIT" /\ BiasOf(-total, t) = "WAIT"
      BY <2>2
    <2>4. "LONG" # "SHORT" /\ "WAIT" # "SHORT" /\ "WAIT" # "LONG"
      OBVIOUS
    <2>5. BiasOf(-total, t) = CASE BiasOf(total, t) = "LONG"  -> "SHORT"
                                [] BiasOf(total, t) = "SHORT" -> "LONG"
                                [] OTHER                      -> "WAIT"
      BY ONLY <2>3, <2>4
    <2> QED
      BY <2>5 DEF t
  <1> QED
    BY <1>1, <1>2

(* One signal is the other turned over. *)
Opposite(signal, mirrored) ==
    /\ signal.total \in Int
    /\ mirrored.total = -signal.total
    /\ mirrored.score = signal.score
    /\ signal.bias = BiasOf(signal.total, 4 * DirectionThreshold)
    /\ mirrored.bias = BiasOf(mirrored.total, 4 * DirectionThreshold)

(* The signal of the market turned over, whatever its volatility. *)
LEMMA SignalMirror ==
    ASSUME NEW trend, NEW momentum, NEW turnedTrend, NEW turnedMomentum,
           NEW structure \in Int, NEW turnedStructure, NEW regime,
           NEW agreement \in Int \cup {None},
           ScoreTrend(trend) \in Int, ScoreTrend(turnedTrend) = -ScoreTrend(trend),
           ScoreMomentum(momentum) \in Int,
           ScoreMomentum(turnedMomentum) = -ScoreMomentum(momentum),
           turnedStructure = -structure
    PROVE  Opposite(Signal(trend, momentum, structure, regime, agreement),
                    Signal(turnedTrend, turnedMomentum, turnedStructure, regime,
                           Negative(agreement)))
  <1> DEFINE a == ScoreTrend(trend)
             b == ScoreMomentum(momentum)
             c == structure
             d == IF agreement = None THEN 0 ELSE Clamp(agreement)
             e == IF Negative(agreement) = None THEN 0 ELSE Clamp(Negative(agreement))
             total == a + b + c + d
             opposite == -a + -b + -c + e
             s == Sign(total)
             z == Sign(opposite)
             signal == Signal(trend, momentum, structure, regime, agreement)
             mirrored == Signal(turnedTrend, turnedMomentum, turnedStructure, regime,
                                Negative(agreement))
  <1>1. d \in Int /\ e = -d
    <2>1. CASE agreement = None
      <3>1. d = 0 /\ Negative(agreement) = None
        BY <2>1 DEF Negative
      <3>2. e = 0
        BY <3>1
      <3> HIDE DEF d, e
      <3>3. d \in Int /\ e \in Int /\ d + e = 0
        BY <3>1, <3>2
      <3> QED
        BY ONLY <3>3
    <2>2. CASE agreement # None
      <3>1. agreement \in Int /\ Negative(agreement) = -agreement /\ Negative(agreement) # None
        BY <2>2, NothingAssumption DEF Negative
      <3> QED
        BY <2>2, <3>1, ClampMirror
    <2> HIDE DEF d, e
    <2> QED
      BY <2>1, <2>2
  <1>2. /\ signal.total = total
        /\ signal.bias = BiasOf(signal.total, 4 * DirectionThreshold)
        /\ signal.score = ComponentScore(a, s) + ComponentScore(b, s) + ComponentScore(c, s)
                          + ComponentScore(d, s) + ScoreVolatility(regime)
    BY DEF Signal
  <1>3. /\ mirrored.total = opposite
        /\ mirrored.bias = BiasOf(mirrored.total, 4 * DirectionThreshold)
        /\ mirrored.score = ComponentScore(-a, z) + ComponentScore(-b, z) + ComponentScore(-c, z)
                            + ComponentScore(e, z) + ScoreVolatility(regime)
    BY DEF Signal
  <1> HIDE DEF signal, mirrored, a, b, d, e
  <1>4. a \in Int /\ b \in Int /\ c \in Int
    BY DEF a, b
  <1>5. total \in Int /\ opposite = -total
    BY <1>1, <1>4
  <1> HIDE DEF c, total, opposite
  <1>6. s \in Int /\ z = -s
    BY <1>5, SignMirror
  <1> HIDE DEF s, z
  <1>7. /\ ComponentScore(-a, z) = ComponentScore(a, s)
        /\ ComponentScore(-b, z) = ComponentScore(b, s)
        /\ ComponentScore(-c, z) = ComponentScore(c, s)
        /\ ComponentScore(e, z) = ComponentScore(d, s)
    BY <1>1, <1>4, <1>6, PointsMirror
  <1>8. mirrored.score = signal.score
    BY <1>2, <1>3, <1>7
  <1>9. signal.total \in Int /\ mirrored.total = -signal.total
    BY <1>2, <1>3, <1>5
  <1> QED
    BY <1>2, <1>3, <1>8, <1>9 DEF signal, mirrored, Opposite

(* The market upside down, field by field. *)
LEMMA MirrorIs ==
    ASSUME NEW market \in Markets
    PROVE  /\ Mirror(market).ema = [k \in 1..4 |-> Negative(market.ema[k])]
           /\ Mirror(market).price = -market.price
           /\ Mirror(market).slope = Negative(market.slope)
           /\ Mirror(market).rsi = IF market.rsi = None THEN None ELSE 100 - market.rsi
           /\ Mirror(market).histogram = Negative(market.histogram)
           /\ Mirror(market).roc = Negative(market.roc)
           /\ Mirror(market).agreement = Negative(market.agreement)
           /\ Mirror(market).atrs = market.atrs
           /\ Mirror(market).structure =
                 [support |-> Negative(market.structure.resistance),
                  resistance |-> Negative(market.structure.support),
                  recent_high |-> -market.structure.recent_low,
                  recent_low |-> -market.structure.recent_high]
  BY InputsAssumption DEF Mirror

(* Longs and shorts are treated alike, whatever the market: every rounding  *)
(* of the analysis and the scoring is symmetric about zero, so the market   *)
(* turned over has the opposite bias at the same score (scoring.py,         *)
(* generate_signal).                                                        *)
THEOREM LongsAndShortsAreAlike == Spec => []LongsMirrorShorts
  <1>1. QuestionsInv => LongsMirrorShorts
    <2> SUFFICES ASSUME QuestionsInv, question = "signal", input.price # input.ema[4]
                 PROVE  LET signal == SignalOf(input)
                            mirrored == SignalOf(Mirror(input))
                        IN  /\ mirrored.bias = CASE signal.bias = "LONG"  -> "SHORT"
                                                 [] signal.bias = "SHORT" -> "LONG"
                                                 [] OTHER                 -> "WAIT"
                            /\ mirrored.score = signal.score
                            /\ mirrored.total = -signal.total
      BY DEF LongsMirrorShorts
    <2> DEFINE market == input
               turned == Mirror(market)
               volatility == Volatility(market.atrs)
               trend == Trend(market.ema, market.price, market.slope)
               momentum == Momentum(market.rsi, None, market.histogram, market.roc)
               structure == ScoreStructure(market.structure, market.price, volatility.atr)
               turnedTrend == Trend(turned.ema, turned.price, turned.slope)
               turnedMomentum == Momentum(turned.rsi, None, turned.histogram, turned.roc)
               turnedStructure == ScoreStructure(turned.structure, turned.price, volatility.atr)
               regime == volatility.regime
               agreement == market.agreement
               signal == Signal(trend, momentum, structure, regime, agreement)
               mirrored == Signal(turnedTrend, turnedMomentum, turnedStructure, regime,
                                  Negative(agreement))
    <2>1. /\ market \in Markets /\ market.ema \in [1..4 -> Int \cup {None}]
          /\ market.price \in Int /\ market.slope \in Int \cup {None}
          /\ market.rsi \in Int \cup {None} /\ market.histogram \in Int \cup {None}
          /\ market.roc \in Int \cup {None} /\ market.agreement \in Int \cup {None}
          /\ market.structure \in [support : Int \cup {None}, resistance : Int \cup {None},
                                   recent_high : Int, recent_low : Int]
      <3>1. market \in Markets
        BY DEF QuestionsInv
      <3> QED
        BY <3>1, InputsAssumption
    <2>2. SignalOf(market) = signal
      BY DEF SignalOf, SignalIn
    <2>3. SignalOf(turned) = mirrored
      <3>1. turned.atrs = market.atrs /\ turned.agreement = Negative(market.agreement)
        BY <2>1, MirrorIs
      <3> HIDE DEF turned
      <3> QED
        BY <3>1 DEF SignalOf, SignalIn
    <2>4. /\ ScoreTrend(trend) \in Int
          /\ ScoreTrend(turnedTrend) = -ScoreTrend(trend)
      <3>1. turnedTrend = Trend([k \in 1..4 |-> Negative(market.ema[k])],
                                -market.price, Negative(market.slope))
        BY <2>1, MirrorIs
      <3>2. /\ trend.signed_alignment \in Int
            /\ turnedTrend.signed_alignment = -trend.signed_alignment
            /\ trend.ema200_side \in Int
            /\ turnedTrend.ema200_side = -trend.ema200_side
            /\ Sign(trend.slope) \in Int
            /\ Sign(turnedTrend.slope) = -Sign(trend.slope)
        <4>1. market.price # market.ema[4]
          OBVIOUS
        <4>2. Trend([k \in 1..4 |-> Negative(market.ema[k])], -market.price,
                    Negative(market.slope)) = turnedTrend
          BY <3>1
        <4> HIDE DEF market, turnedTrend
        <4> QED
          BY <2>1, <4>1, <4>2, TrendMirror
      <3> HIDE DEF trend, turnedTrend
      <3> QED
        BY <3>2, ScoreTrendMirror
    <2>5. /\ ScoreMomentum(momentum) \in Int
          /\ ScoreMomentum(turnedMomentum) = -ScoreMomentum(momentum)
      <3>1. turnedMomentum = Momentum(IF market.rsi = None THEN None ELSE 100 - market.rsi, None,
                                      Negative(market.histogram), Negative(market.roc))
        BY <2>1, MirrorIs
      <3> HIDE DEF turnedMomentum, market
      <3>2. market.rsi \in Int \cup {None} /\ market.histogram \in Int \cup {None}
            /\ market.roc \in Int \cup {None}
        BY <2>1
      <3> QED
        BY ONLY <3>1, <3>2, MomentumMirror
    <2>6. structure \in Int /\ turnedStructure = -structure
      <3>1. /\ turned.price = -market.price
            /\ turned.structure = [support |-> Negative(market.structure.resistance),
                                   resistance |-> Negative(market.structure.support),
                                   recent_high |-> -market.structure.recent_low,
                                   recent_low |-> -market.structure.recent_high]
        BY <2>1, MirrorIs
      <3> HIDE DEF volatility, turned, market
      <3> QED
        BY <2>1, <3>1, StructureMirror
    <2>7. Opposite(signal, mirrored)
      <3> HIDE DEF trend, turnedTrend, momentum, turnedMomentum, structure, turnedStructure,
                   volatility, market
      <3>1. agreement \in Int \cup {None}
        BY <2>1
      <3>2. /\ ScoreTrend(trend) \in Int /\ ScoreTrend(turnedTrend) = -ScoreTrend(trend)
            /\ ScoreMomentum(momentum) \in Int
            /\ ScoreMomentum(turnedMomentum) = -ScoreMomentum(momentum)
            /\ structure \in Int /\ turnedStructure = -structure
        BY <2>4, <2>5, <2>6
      <3> HIDE DEF regime, agreement
      <3> QED
        BY ONLY <3>1, <3>2, SignalMirror
    <2> HIDE DEF signal, mirrored
    <2>8. mirrored.bias = CASE signal.bias = "LONG"  -> "SHORT"
                            [] signal.bias = "SHORT" -> "LONG"
                            [] OTHER                 -> "WAIT"
      BY <2>7, PointsMirror DEF Opposite
    <2> QED
      BY <2>2, <2>3, <2>7, <2>8 DEF Opposite
  <1> QED
    BY <1>1, QuestionsInvariance, PTL

-----------------------------------------------------------------------------
(* The statistics of a backtest.                                            *)

(* The equity a backtest starts from is not nothing. *)
LEMMA PartsPositive ==
    ASSUME NEW n \in Nat
    PROVE  Parts(n) \in Nat \ {0}
  <1> DEFINE S == Nat \ {0}
             step == [p \in S \X Nat |-> RiskPart * p[1]]
             power == CHOOSE h : h = [k \in 0..n |-> IF k = 0 THEN 1 ELSE RiskPart * h[k - 1]]
  <1>1. RiskPart \in Nat \ {0} /\ 1 \in S
    BY ParamsAssumption
  <1>2. \A p \in S : RiskPart * p \in S
    BY <1>1
  <1>3. step \in [S \X Nat -> S]
    BY <1>2
  <1>4. PICK f \in [0..n -> S] : Unfolds(f, n, 1, step)
    <2> HIDE DEF step, S
    <2> QED
      BY <1>1, <1>3, Unfolding
  <1>5. f = [k \in 0..n |-> IF k = 0 THEN 1 ELSE RiskPart * f[k - 1]]
    <2>1. ASSUME NEW k \in 0..n PROVE f[k] = IF k = 0 THEN 1 ELSE RiskPart * f[k - 1]
      <3>1. CASE k = 0
        BY <1>4, <3>1 DEF Unfolds
      <3>2. CASE k # 0
        <4>1. k \in 1..n /\ k \in Nat
          BY <3>2
        <4>2. k - 1 \in 0..n /\ f[k] = step[<<f[k - 1], k>>]
          BY <1>4, <4>1 DEF Unfolds
        <4>3. f[k - 1] \in S
          BY <4>2
        <4>4. step[<<f[k - 1], k>>] = RiskPart * f[k - 1]
          BY <4>1, <4>3
        <4> HIDE DEF S, step
        <4> QED
          BY <3>2, <4>2, <4>4
      <3> QED
        BY <3>1, <3>2
    <2> QED
      BY <2>1
  <1>6. power = [k \in 0..n |-> IF k = 0 THEN 1 ELSE RiskPart * power[k - 1]]
    BY <1>5
  <1>7. Parts(n) = power[n]
    BY DEF Parts
  <1> HIDE DEF power
  <1> DEFINE P == {k \in 0..n : power[k] \in S}
  <1>8. 0 \in P
    BY <1>6
  <1>9. ASSUME NEW k \in 1..n, k - 1 \in P PROVE k \in P
    <2>1. k \in 0..n /\ k # 0 /\ power[k - 1] \in S
      BY <1>9
    <2>2. power[k] = RiskPart * power[k - 1]
      BY <1>6, <2>1
    <2> HIDE DEF S
    <2> QED
      BY <1>2, <2>1, <2>2
  <1> HIDE DEF P
  <1>10. \A k \in 0..n : k \in P
    BY <1>8, <1>9, Through
  <1>11. n \in 0..n
    OBVIOUS
  <1> QED
    BY <1>7, <1>10, <1>11 DEF P

(* The equity after a trade is the greater of 0 and what the trade left. *)
LEMMA CompoundedIs ==
    ASSUME NEW equity \in Nat, NEW r \in Int
    PROVE  /\ Compounded(equity, r) \in Nat
           /\ Compounded(equity, r) = Max({0, (equity * (RiskPart + r)) \div RiskPart})
  <1> DEFINE next == (equity * (RiskPart + r)) \div RiskPart
  <1>1. next \in Int
    BY ParamsAssumption
  <1> HIDE DEF next
  <1>2. IsFiniteSet({0, next}) /\ {0, next} \in SUBSET Int /\ {0, next} # {}
    <2>1. IsFiniteSet({next}) /\ {0, next} = {next} \cup {0}
      BY FS_Singleton
    <2>2. IsFiniteSet({next} \cup {0})
      BY <2>1, FS_AddElement
    <2> QED
      BY <1>1, <2>1, <2>2
  <1>3. Max({0, next}) \in {0, next} /\ \A y \in {0, next} : y <= Max({0, next})
    BY <1>2, MaxOf
  <1>4. Max({0, next}) = IF next < 0 THEN 0 ELSE next
    BY <1>1, <1>3
  <1>5. Compounded(equity, r) = IF next < 0 THEN 0 ELSE next
    BY DEF Compounded, next
  <1> QED
    BY <1>1, <1>4, <1>5 DEF next

(* The equity after each trade, as MetricsAreTrue reckons it. *)
CurveOf(results) ==
    LET count == Len(results)
        curve[k \in 0..count] ==
            IF k = 0 THEN Parts(count)
            ELSE Max({0, (curve[k - 1] * (RiskPart + results[k])) \div RiskPart})
    IN  curve

(* The curve starts from Parts and compounds from trade to trade. *)
LEMMA CurveIs ==
    ASSUME NEW results \in Seq(Int)
    PROVE  /\ CurveOf(results) \in [0..Len(results) -> Nat]
           /\ CurveOf(results)[0] = Parts(Len(results))
           /\ \A k \in 1..Len(results) :
                 /\ k - 1 \in 0..Len(results) /\ results[k] \in Int
                 /\ CurveOf(results)[k] = Compounded(CurveOf(results)[k - 1], results[k])
  <1> DEFINE n == Len(results)
             whole == Parts(n)
             body(h, k) == IF k = 0 THEN whole
                           ELSE Max({0, (h[k - 1] * (RiskPart + results[k])) \div RiskPart})
             step == [p \in Nat \X Nat |-> IF p[2] \in 1..n THEN Compounded(p[1], results[p[2]])
                                           ELSE 0]
             curve == CHOOSE h : h = [k \in 0..n |-> body(h, k)]
  <1>1. n \in Nat /\ whole \in Nat /\ \A k \in 1..n : results[k] \in Int
    BY LenProperties, PartsPositive, ElementOfSeq
  <1> HIDE DEF n, whole
  <1>2. step \in [Nat \X Nat -> Nat]
    BY <1>1, CompoundedIs
  <1>3. PICK f \in [0..n -> Nat] : Unfolds(f, n, whole, step)
    <2> HIDE DEF step
    <2> QED
      BY <1>1, <1>2, Unfolding
  <1>4. f = [k \in 0..n |-> body(f, k)]
    <2>1. ASSUME NEW k \in 0..n PROVE f[k] = body(f, k)
      <3>1. CASE k = 0
        BY <1>3, <3>1 DEF Unfolds
      <3>2. CASE k # 0
        <4>1. k \in 1..n /\ k \in Nat
          BY <1>1, <3>2
        <4>2. k - 1 \in 0..n /\ f[k] = step[<<f[k - 1], k>>]
          BY <1>3, <4>1 DEF Unfolds
        <4>3. f[k - 1] \in Nat /\ results[k] \in Int
          BY <1>1, <4>1, <4>2
        <4>4. step[<<f[k - 1], k>>] = Compounded(f[k - 1], results[k])
          BY <4>1, <4>3
        <4> HIDE DEF step
        <4>5. f[k] = Max({0, (f[k - 1] * (RiskPart + results[k])) \div RiskPart})
          BY <4>2, <4>3, <4>4, CompoundedIs
        <4> QED
          BY <3>2, <4>5
      <3> QED
        BY <3>1, <3>2
    <2> HIDE DEF body
    <2> QED
      BY <2>1
  <1> HIDE DEF body
  <1>5. curve = [k \in 0..n |-> body(curve, k)]
    BY <1>4
  <1>6. CurveOf(results) = curve
    BY DEF CurveOf, body, n, whole
  <1> HIDE DEF curve
  <1> DEFINE P == {k \in 0..n : curve[k] \in Nat}
  <1>7. curve[0] = whole /\ 0 \in P
    BY <1>1, <1>5 DEF body
  <1>8. ASSUME NEW k \in 1..n, k - 1 \in P
        PROVE  curve[k] = Compounded(curve[k - 1], results[k]) /\ k \in P
    <2>1. k \in 0..n /\ k # 0 /\ curve[k - 1] \in Nat /\ results[k] \in Int
      BY <1>1, <1>8
    <2>2. curve[k] = Max({0, (curve[k - 1] * (RiskPart + results[k])) \div RiskPart})
      BY <1>5, <2>1 DEF body
    <2>3. curve[k] = Compounded(curve[k - 1], results[k])
      BY <2>1, <2>2, CompoundedIs
    <2> QED
      BY <2>1, <2>3, CompoundedIs
  <1> HIDE DEF P
  <1>9. \A k \in 0..n : k \in P
    BY <1>1, <1>7, <1>8, Through
  <1>10. curve \in [0..n -> Nat]
    BY <1>5, <1>9 DEF P
  <1>11. \A k \in 1..n : /\ k - 1 \in 0..n /\ results[k] \in Int
                         /\ curve[k] = Compounded(curve[k - 1], results[k])
    BY <1>1, <1>8, <1>9
  <1> QED
    BY <1>6, <1>7, <1>10, <1>11 DEF n, whole

-----------------------------------------------------------------------------
(* The arithmetic of falls, which are compared as fractions of the peak. *)
(* A fall to the same point is no deeper from a lower one. *)
LEMMA HigherFall ==
    ASSUME NEW c \in Nat, NEW p \in Nat, NEW e \in Nat, c <= p
    PROVE  (c - e) * p <= (p - e) * c
  <1>1. (c - e) * p = c * p - e * p /\ (p - e) * c = p * c - e * c
    OBVIOUS
  <1>2. e * (p - c) >= 0 /\ e * (p - c) = e * p - e * c
    OBVIOUS
  <1>3. c * p = p * c /\ c * p \in Int /\ e * p \in Int /\ e * c \in Int
    OBVIOUS
  <1> QED
    BY <1>1, <1>2, <1>3

(* The comparison of two fractions, through a third. *)
LEMMA FractionOrder ==
    ASSUME NEW a \in Int, NEW b \in Int, NEW c \in Nat, NEW of \in Nat \ {0},
           NEW p \in Nat \ {0}, NEW fall \in Int, NEW deep \in Int,
           a * of <= fall * c, fall * p <= deep * of
    PROVE  a * p <= deep * c
  <1>1. a * of * p <= fall * c * p
    <2>1. a * of \in Int /\ fall * c \in Int
      OBVIOUS
    <2> QED
      BY <2>1, ProductOrder
  <1>2. fall * p * c <= deep * of * c
    <2>1. fall * p \in Int /\ deep * of \in Int
      OBVIOUS
    <2>2. CASE c = 0
      BY <2>1, <2>2
    <2>3. CASE c # 0
      BY <2>1, <2>3, ProductOrder
    <2> QED
      BY <2>2, <2>3
  <1>3. /\ a * of * p = (a * p) * of /\ fall * c * p = fall * p * c
        /\ deep * of * c = (deep * c) * of
        /\ a * p \in Int /\ deep * c \in Int /\ (a * p) * of \in Int /\ (deep * c) * of \in Int
        /\ fall * p * c \in Int
    OBVIOUS
  <1>4. (a * p) * of <= (deep * c) * of
    BY <1>1, <1>2, <1>3
  <1> QED
    BY <1>3, <1>4, ProductOrder

(* What MaxDrawdown has found, k trades along the curve. *)
Falls == [equity : Nat, peak : Nat, fall : Int, of : Nat]
Deepest(c, w, k) ==
    /\ w.equity = c[k] /\ w.peak > 0 /\ w.of > 0
    /\ \A i \in 0..k : c[i] <= w.peak
    /\ \E i \in 0..k : c[i] = w.peak
    /\ \A i, j \in 0..k : i <= j => (c[i] - c[j]) * w.of <= w.fall * c[i]
    /\ \E i, j \in 0..k : i <= j /\ (c[i] - c[j]) * w.of = w.fall * c[i]

(* One trade more: its fall from the peak is deeper than all before it or   *)
(* no deeper than the deepest of them.                                      *)
LEMMA DeepestStep ==
    ASSUME NEW n \in Nat, NEW c \in [0..n -> Nat], NEW k \in 1..n, NEW w \in Falls, NEW r \in Int,
           Deepest(c, w, k - 1), c[k] = Compounded(c[k - 1], r)
    PROVE  Deepened(w, r) \in Falls /\ Deepest(c, Deepened(w, r), k)
  <1> DEFINE e == c[k]
             p == IF e > w.peak THEN e ELSE w.peak
             deeper == (p - e) * w.of > w.fall * p
             fall == IF deeper THEN p - e ELSE w.fall
             of == IF deeper THEN p ELSE w.of
  <1>1. /\ k \in 0..n /\ k - 1 \in 0..n /\ e \in Nat /\ c[k - 1] \in Nat
        /\ \A i \in 0..k : i \in 0..n /\ c[i] \in Nat /\ (i = k \/ i \in 0..(k - 1))
        /\ \A i \in 0..(k - 1) : i \in 0..k
    OBVIOUS
  <1>2. Deepened(w, r) = [equity |-> e, peak |-> p, fall |-> fall, of |-> of]
    BY DEF Deepened, Deepest
  <1>3. /\ w.equity \in Nat /\ w.peak \in Nat /\ w.peak > 0 /\ w.fall \in Int
        /\ w.of \in Nat /\ w.of > 0
    BY DEF Falls, Deepest
  <1> DEFINE d == Deepened(w, r)
  <1>12. d.equity = e /\ d.peak = p /\ d.fall = fall /\ d.of = of
    BY <1>2
  <1> HIDE DEF e, d
  <1>4. p \in Nat /\ p > 0 /\ p >= w.peak /\ p >= e
    BY <1>1, <1>3
  <1>5. ASSUME NEW i \in 0..k PROVE c[i] <= p
    <2>1. CASE i = k
      BY <1>1, <1>4, <2>1 DEF e
    <2>2. CASE i # k
      <3>1. i \in 0..(k - 1) /\ c[i] \in Nat
        BY <1>1, <2>2
      <3>2. c[i] <= w.peak
        BY <3>1 DEF Deepest
      <3> HIDE DEF p
      <3> QED
        BY <1>3, <1>4, <3>1, <3>2
    <2> QED
      BY <2>1, <2>2
  <1>6. \E i \in 0..k : c[i] = p
    <2>1. CASE e > w.peak
      BY <1>1, <2>1 DEF e
    <2>2. CASE ~(e > w.peak)
      BY <1>1, <2>2 DEF Deepest
    <2> QED
      BY <2>1, <2>2
  <1> HIDE DEF p
  <1>7. fall \in Int /\ of \in Nat /\ of > 0
    BY <1>1, <1>3, <1>4
  <1>8. \A i, j \in 0..(k - 1) : i <= j => (c[i] - c[j]) * w.of <= w.fall * c[i]
    BY DEF Deepest
  <1>9. \A i \in 0..k : (c[i] - e) * p <= (p - e) * c[i]
    BY <1>1, <1>4, <1>5, HigherFall
  <1>10. CASE deeper
    <2>1. fall = p - e /\ of = p
      BY <1>10
    <2>2. w.fall * p <= (p - e) * w.of
      BY <1>1, <1>3, <1>4, <1>10
    <2>3. ASSUME NEW i \in 0..k, NEW j \in 0..k, i <= j
          PROVE  (c[i] - c[j]) * p <= (p - e) * c[i]
      <3>1. CASE j = k
        BY <1>9, <3>1 DEF e
      <3>2. CASE j # k
        <4>1. i \in 0..(k - 1) /\ j \in 0..(k - 1) /\ c[i] \in Nat /\ c[j] \in Nat
          BY <1>1, <2>3, <3>2
        <4>2. (c[i] - c[j]) * w.of <= w.fall * c[i]
          BY <1>8, <2>3, <4>1
        <4>3. /\ c[i] - c[j] \in Int /\ w.of \in Nat \ {0} /\ p \in Nat \ {0} /\ p - e \in Int
              /\ w.fall \in Int
          BY <1>1, <1>3, <1>4, <4>1
        <4> QED
          BY ONLY <2>2, <4>1, <4>2, <4>3, FractionOrder
      <3> QED
        BY <3>1, <3>2
    <2>4. PICK i \in 0..k : c[i] = p
      BY <1>6
    <2>5. (c[i] - c[k]) * p = (p - e) * c[i] /\ i <= k /\ k \in 0..k
      BY <1>1, <2>4 DEF e
    <2>6. /\ \A a, b \in 0..k : a <= b => (c[a] - c[b]) * of <= fall * c[a]
          /\ \E a, b \in 0..k : a <= b /\ (c[a] - c[b]) * of = fall * c[a]
      <3> HIDE DEF fall, of, deeper
      <3>1. \A a, b \in 0..k : a <= b => (c[a] - c[b]) * of <= fall * c[a]
        BY <2>1, <2>3
      <3>2. \E a, b \in 0..k : a <= b /\ (c[a] - c[b]) * of = fall * c[a]
        BY <2>1, <2>5
      <3> QED
        BY <3>1, <3>2
    <2> HIDE DEF fall, of, deeper
    <2>7. Deepened(w, r) \in Falls
      BY <1>1, <1>2, <1>4, <1>7 DEF Falls
    <2>8. /\ d.equity = c[k] /\ d.peak > 0 /\ d.of > 0
          /\ \A a \in 0..k : c[a] <= d.peak
          /\ \E a \in 0..k : c[a] = d.peak
      BY <1>4, <1>5, <1>6, <1>7, <1>12 DEF e
    <2>9. /\ \A a, b \in 0..k : a <= b => (c[a] - c[b]) * d.of <= d.fall * c[a]
          /\ \E a, b \in 0..k : a <= b /\ (c[a] - c[b]) * d.of = d.fall * c[a]
      BY <1>12, <2>6
    <2>10. Deepest(c, d, k)
      BY <2>8, <2>9 DEF Deepest
    <2> QED
      BY <2>7, <2>10 DEF d
  <1>11. CASE ~deeper
    <2>1. fall = w.fall /\ of = w.of
      BY <1>11
    <2>2. (p - e) * w.of <= w.fall * p
      BY <1>1, <1>3, <1>4, <1>11
    <2>3. ASSUME NEW i \in 0..k, NEW j \in 0..k, i <= j
          PROVE  (c[i] - c[j]) * w.of <= w.fall * c[i]
      <3>1. CASE j = k
        <4>1. (c[i] - e) * p <= (p - e) * c[i] /\ c[i] \in Nat
          BY <1>1, <1>9
        <4>2. /\ c[i] - e \in Int /\ w.of \in Nat \ {0} /\ p \in Nat \ {0} /\ p - e \in Int
              /\ w.fall \in Int
          <5>1. c[i] \in Nat /\ e \in Nat
            BY <1>1, <4>1
          <5> QED
            BY ONLY <1>3, <1>4, <5>1
        <4>3. (c[i] - e) * w.of <= w.fall * c[i]
          BY ONLY <2>2, <4>1, <4>2, FractionOrder
        <4> QED
          BY <3>1, <4>3 DEF e
      <3>2. CASE j # k
        <4>1. i \in 0..(k - 1) /\ j \in 0..(k - 1)
          BY <1>1, <2>3, <3>2
        <4> QED
          BY <1>8, <2>3, <4>1
      <3> QED
        BY <3>1, <3>2
    <2>4. PICK i \in 0..(k - 1), j \in 0..(k - 1) :
             i <= j /\ (c[i] - c[j]) * w.of = w.fall * c[i]
      BY DEF Deepest
    <2>5. i \in 0..k /\ j \in 0..k
      BY <1>1
    <2>6. /\ \A a, b \in 0..k : a <= b => (c[a] - c[b]) * of <= fall * c[a]
          /\ \E a, b \in 0..k : a <= b /\ (c[a] - c[b]) * of = fall * c[a]
      <3> HIDE DEF fall, of, deeper
      <3>1. \A a, b \in 0..k : a <= b => (c[a] - c[b]) * of <= fall * c[a]
        BY <2>1, <2>3
      <3>2. \E a, b \in 0..k : a <= b /\ (c[a] - c[b]) * of = fall * c[a]
        BY <2>1, <2>4, <2>5
      <3> QED
        BY <3>1, <3>2
    <2> HIDE DEF fall, of, deeper
    <2>7. Deepened(w, r) \in Falls
      BY <1>1, <1>2, <1>4, <1>7 DEF Falls
    <2>8. /\ d.equity = c[k] /\ d.peak > 0 /\ d.of > 0
          /\ \A a \in 0..k : c[a] <= d.peak
          /\ \E a \in 0..k : c[a] = d.peak
      BY <1>4, <1>5, <1>6, <1>7, <1>12 DEF e
    <2>9. /\ \A a, b \in 0..k : a <= b => (c[a] - c[b]) * d.of <= d.fall * c[a]
          /\ \E a, b \in 0..k : a <= b /\ (c[a] - c[b]) * d.of = d.fall * c[a]
      BY <1>12, <2>6
    <2>10. Deepest(c, d, k)
      BY <2>8, <2>9 DEF Deepest
    <2> QED
      BY <2>7, <2>10 DEF d
  <1> QED
    BY <1>10, <1>11

(* MaxDrawdown is the deepest fall of the curve. *)
LEMMA DrawdownIs ==
    ASSUME NEW results \in Seq(Int)
    PROVE  \E w \in Falls : /\ Deepest(CurveOf(results), w, Len(results))
                            /\ MaxDrawdown(results).fall = w.fall
                            /\ MaxDrawdown(results).of = w.of
  <1> DEFINE n == Len(results)
             whole == Parts(n)
             c == CurveOf(results)
             first == [equity |-> whole, peak |-> whole, fall |-> 0, of |-> whole]
             S == {p \in Falls \X (0..n) : Deepest(c, p[1], p[2])}
             body(h, k) == IF k = 0 THEN first ELSE Deepened(h[k - 1], results[k])
             curve == CHOOSE h : h = [k \in 0..n |-> body(h, k)]
             step == [p \in Falls \X Nat |->
                         IF p[2] \in 1..n /\ Deepened(p[1], results[p[2]]) \in Falls
                         THEN Deepened(p[1], results[p[2]]) ELSE first]
  <1>1. /\ n \in Nat /\ whole \in Nat \ {0} /\ c \in [0..n -> Nat] /\ c[0] = whole
        /\ \A k \in 1..n : /\ k - 1 \in 0..n /\ results[k] \in Int
                           /\ c[k] = Compounded(c[k - 1], results[k])
    BY LenProperties, PartsPositive, CurveIs
  <1> HIDE DEF n, whole, c
  <1>2. first \in Falls /\ Deepest(c, first, 0)
    <2>1. first \in Falls
      BY <1>1 DEF Falls
    <2>2. first.equity = whole /\ first.peak = whole /\ first.fall = 0 /\ first.of = whole
      OBVIOUS
    <2> HIDE DEF first
    <2>3. c[0] \in Nat /\ c[0] = whole /\ whole > 0
      BY <1>1
    <2>4. \A i \in 0..0 : i = 0
      OBVIOUS
    <2>5. (c[0] - c[0]) * whole = 0 /\ 0 * c[0] = 0
      BY <2>3
    <2> QED
      BY <2>1, <2>2, <2>3, <2>4, <2>5 DEF Deepest
  <1> HIDE DEF first
  <1>3. ASSUME NEW w \in Falls, NEW k \in 1..n PROVE Deepened(w, results[k]) \in Falls
    <2>1. /\ results[k] \in Int /\ w.equity \in Nat /\ w.peak \in Nat /\ w.fall \in Int
          /\ w.of \in Nat
      BY <1>1 DEF Falls
    <2>2. Compounded(w.equity, results[k]) \in Nat
      BY <2>1, CompoundedIs
    <2> QED
      BY <2>1, <2>2 DEF Deepened, Falls
  <1>4. step \in [Falls \X Nat -> Falls]
    BY <1>2
  <1>5. PICK f \in [0..n -> Falls] : Unfolds(f, n, first, step)
    <2> HIDE DEF step
    <2> QED
      BY <1>1, <1>2, <1>4, Unfolding
  <1>6. f = [k \in 0..n |-> body(f, k)]
    <2>1. ASSUME NEW k \in 0..n PROVE f[k] = body(f, k)
      <3>1. CASE k = 0
        BY <1>5, <3>1 DEF Unfolds
      <3>2. CASE k # 0
        <4>1. k \in 1..n /\ k \in Nat
          BY <1>1, <3>2
        <4>2. k - 1 \in 0..n /\ f[k] = step[<<f[k - 1], k>>]
          BY <1>5, <4>1 DEF Unfolds
        <4>3. f[k - 1] \in Falls /\ Deepened(f[k - 1], results[k]) \in Falls
          BY <1>3, <4>1, <4>2
        <4>4. step[<<f[k - 1], k>>] = Deepened(f[k - 1], results[k])
          BY <4>1, <4>3
        <4> HIDE DEF step
        <4> QED
          BY <3>2, <4>2, <4>4
      <3> QED
        BY <3>1, <3>2
    <2> HIDE DEF body
    <2> QED
      BY <2>1
  <1> HIDE DEF body
  <1>7. curve = [k \in 0..n |-> body(curve, k)]
    BY <1>6
  <1>8. MaxDrawdown(results) = [fall |-> curve[n].fall, of |-> curve[n].of]
    BY DEF MaxDrawdown, body, n, whole, first
  <1> HIDE DEF curve
  <1> DEFINE P == {k \in 0..n : curve[k] \in Falls /\ Deepest(c, curve[k], k)}
  <1>9. 0 \in P
    BY <1>1, <1>2, <1>7 DEF body
  <1>10. ASSUME NEW k \in 1..n, k - 1 \in P PROVE k \in P
    <2>1. /\ k \in 0..n /\ k # 0 /\ curve[k - 1] \in Falls /\ results[k] \in Int
          /\ Deepest(c, curve[k - 1], k - 1) /\ c[k] = Compounded(c[k - 1], results[k])
      BY <1>1, <1>10
    <2>2. curve[k] = Deepened(curve[k - 1], results[k])
      BY <1>7, <2>1 DEF body
    <2>3. Deepened(curve[k - 1], results[k]) \in Falls
          /\ Deepest(c, Deepened(curve[k - 1], results[k]), k)
      BY <1>1, <2>1, DeepestStep
    <2> QED
      BY <2>1, <2>2, <2>3
  <1> HIDE DEF P
  <1>11. \A k \in 0..n : k \in P
    BY <1>1, <1>9, <1>10, Through
  <1>12. curve[n] \in Falls /\ Deepest(c, curve[n], n)
    BY <1>1, <1>11 DEF P
  <1> QED
    BY <1>8, <1>12 DEF n, c

-----------------------------------------------------------------------------
(* The losses in a row that Losses has counted, k trades along. *)
Runs == [longest : Nat, current : Nat]
Losing(results, j, k) == \A i \in j..k : results[i] < 0
Counted(results, w, k) ==
    /\ w.current <= k
    /\ Losing(results, k - w.current + 1, k)
    /\ w.current # k => ~(results[k - w.current] < 0)
    /\ \A i, j \in 1..k : Losing(results, i, j) => j - i + 1 <= w.longest
    /\ w.longest > 0 => \E i, j \in 1..k : Losing(results, i, j) /\ j - i + 1 = w.longest

(* One trade more: a loss makes the run longer, anything else ends it. *)
LEMMA CountedStep ==
    ASSUME NEW results \in Seq(Int), NEW k \in 1..Len(results), NEW w \in Runs,
           Counted(results, w, k - 1)
    PROVE  Losses(w, results[k]) \in Runs /\ Counted(results, Losses(w, results[k]), k)
  <1> DEFINE r == results[k]
             current == IF r < 0 THEN w.current + 1 ELSE 0
             longest == IF current > w.longest THEN current ELSE w.longest
             d == Losses(w, r)
  <1>1. /\ Len(results) \in Nat /\ k \in Nat /\ k >= 1 /\ r \in Int
        /\ \A i \in 1..Len(results) : results[i] \in Int
        /\ w.current \in Nat /\ w.longest \in Nat
    BY LenProperties, ElementOfSeq DEF Runs
  <1>2. d = [longest |-> longest, current |-> current]
    BY DEF Losses
  <1>3. d \in Runs /\ d.current = current /\ d.longest = longest
    BY <1>1, <1>2 DEF Runs
  <1> HIDE DEF d
  <1>4. /\ w.current <= k - 1
        /\ Losing(results, k - 1 - w.current + 1, k - 1)
        /\ w.current # k - 1 => ~(results[k - 1 - w.current] < 0)
        /\ \A i, j \in 1..(k - 1) : Losing(results, i, j) => j - i + 1 <= w.longest
        /\ w.longest > 0 => \E i, j \in 1..(k - 1) : Losing(results, i, j) /\ j - i + 1 = w.longest
    BY DEF Counted
  <1>5. current \in Nat /\ longest \in Nat /\ longest >= current /\ longest >= w.longest
    BY <1>1
  <1>6. /\ current <= k
        /\ Losing(results, k - current + 1, k)
        /\ current # k => ~(results[k - current] < 0)
    <2>1. CASE r < 0
      <3>1. current = w.current + 1 /\ k - current + 1 = k - 1 - w.current + 1
            /\ k - current = k - 1 - w.current
        BY <1>1, <2>1
      <3>2. Losing(results, k - current + 1, k)
        <4>1. ASSUME NEW i \in (k - current + 1)..k PROVE results[i] < 0
          <5>1. i = k \/ i \in (k - 1 - w.current + 1)..(k - 1)
            BY <1>1, <3>1
          <5>2. \A a \in (k - 1 - w.current + 1)..(k - 1) : results[a] < 0
            BY <1>4 DEF Losing
          <5> QED
            BY <2>1, <5>1, <5>2
        <4> QED
          BY <4>1 DEF Losing
      <3> HIDE DEF current
      <3> QED
        BY <1>1, <1>4, <3>1, <3>2
    <2>2. CASE ~(r < 0)
      <3>1. current = 0
        BY <2>2
      <3>2. k - current + 1 = k + 1 /\ k - current = k
        BY <1>1, <3>1
      <3> HIDE DEF current
      <3> QED
        BY <1>1, <2>2, <3>1, <3>2 DEF Losing
    <2> QED
      BY <2>1, <2>2
  <1>7. ASSUME NEW i \in 1..k, NEW j \in 1..k, Losing(results, i, j)
        PROVE  j - i + 1 <= longest
    <2>1. CASE j # k
      <3>1. CASE i \in 1..(k - 1)
        <4>1. j \in 1..(k - 1) /\ j - i + 1 <= w.longest
          BY <1>1, <1>4, <1>7, <2>1, <3>1
        <4> HIDE DEF longest, current
        <4> QED
          BY <1>1, <1>5, <4>1
      <3>2. CASE i \notin 1..(k - 1)
        <4>1. j - i + 1 <= 0
          BY <1>1, <2>1, <3>2
        <4> HIDE DEF longest, current
        <4> QED
          BY <1>5, <4>1
      <3> QED
        BY <3>1, <3>2
    <2>2. CASE j = k
      <3>1. ~(i <= k - current)
        <4>1. SUFFICES ASSUME i <= k - current PROVE FALSE
          OBVIOUS
        <4> HIDE DEF current, longest
        <4>2. current # k /\ k - current \in i..j
          BY <1>1, <1>5, <2>2, <4>1
        <4> QED
          BY <1>6, <1>7, <4>2 DEF Losing
      <3> HIDE DEF current, longest
      <3> QED
        BY <1>1, <1>5, <2>2, <3>1
    <2> QED
      BY <2>1, <2>2
  <1>8. longest > 0 => \E i, j \in 1..k : Losing(results, i, j) /\ j - i + 1 = longest
    <2>1. CASE current > w.longest
      <3>1. longest = current
        BY <2>1
      <3> HIDE DEF current, longest
      <3>2. /\ k - current + 1 \in 1..k /\ k \in 1..k /\ k - (k - current + 1) + 1 = longest
        BY <1>1, <1>5, <1>6, <2>1, <3>1
      <3> QED
        BY <1>6, <3>2
    <2>2. CASE ~(current > w.longest)
      <3>1. longest = w.longest
        BY <2>2
      <3>2. \A i \in 1..(k - 1) : i \in 1..k
        BY <1>1
      <3> HIDE DEF current, longest
      <3> QED
        BY <1>4, <3>1, <3>2
    <2> QED
      BY <2>1, <2>2
  <1> HIDE DEF current, longest
  <1>9. Counted(results, d, k)
    <2>1. /\ d.current <= k
          /\ Losing(results, k - d.current + 1, k)
          /\ d.current # k => ~(results[k - d.current] < 0)
      BY <1>3, <1>6
    <2>2. /\ \A i, j \in 1..k : Losing(results, i, j) => j - i + 1 <= d.longest
          /\ d.longest > 0 => \E i, j \in 1..k : Losing(results, i, j) /\ j - i + 1 = d.longest
      BY <1>3, <1>7, <1>8
    <2> QED
      BY <2>1, <2>2 DEF Counted
  <1> QED
    BY <1>3, <1>9 DEF d

(* LongestLoss is the longest run of losses. *)
LEMMA LongestIs ==
    ASSUME NEW results \in Seq(Int)
    PROVE  \E w \in Runs : Counted(results, w, Len(results)) /\ LongestLoss(results) = w.longest
  <1> DEFINE n == Len(results)
             first == [longest |-> 0, current |-> 0]
             body(h, k) == IF k = 0 THEN first ELSE Losses(h[k - 1], results[k])
             runs == CHOOSE h : h = [k \in 0..n |-> body(h, k)]
             step == [p \in Runs \X Nat |->
                         IF p[2] \in 1..n /\ Losses(p[1], results[p[2]]) \in Runs
                         THEN Losses(p[1], results[p[2]]) ELSE first]
  <1>1. n \in Nat /\ \A k \in 1..n : results[k] \in Int
    BY LenProperties, ElementOfSeq
  <1>2. first \in Runs /\ Counted(results, first, 0)
    <2>1. first \in Runs /\ first.longest = 0 /\ first.current = 0
      BY DEF Runs
    <2> HIDE DEF first
    <2> QED
      BY <2>1 DEF Counted, Losing
  <1> HIDE DEF first
  <1>3. ASSUME NEW w \in Runs, NEW k \in 1..n PROVE Losses(w, results[k]) \in Runs
    BY <1>1 DEF Losses, Runs
  <1>4. step \in [Runs \X Nat -> Runs]
    BY <1>2
  <1> HIDE DEF n
  <1>5. PICK f \in [0..n -> Runs] : Unfolds(f, n, first, step)
    <2> HIDE DEF step
    <2> QED
      BY <1>1, <1>2, <1>4, Unfolding
  <1>6. f = [k \in 0..n |-> body(f, k)]
    <2>1. ASSUME NEW k \in 0..n PROVE f[k] = body(f, k)
      <3>1. CASE k = 0
        BY <1>5, <3>1 DEF Unfolds
      <3>2. CASE k # 0
        <4>1. k \in 1..n /\ k \in Nat
          BY <1>1, <3>2
        <4>2. k - 1 \in 0..n /\ f[k] = step[<<f[k - 1], k>>]
          BY <1>5, <4>1 DEF Unfolds
        <4>3. f[k - 1] \in Runs /\ Losses(f[k - 1], results[k]) \in Runs
          BY <1>3, <4>1, <4>2
        <4>4. step[<<f[k - 1], k>>] = Losses(f[k - 1], results[k])
          BY <4>1, <4>3
        <4> HIDE DEF step
        <4> QED
          BY <3>2, <4>2, <4>4
      <3> QED
        BY <3>1, <3>2
    <2> HIDE DEF body
    <2> QED
      BY <2>1
  <1> HIDE DEF body
  <1>7. runs = [k \in 0..n |-> body(runs, k)]
    BY <1>6
  <1>8. LongestLoss(results) = runs[n].longest
    BY DEF LongestLoss, body, n, first
  <1> HIDE DEF runs
  <1> DEFINE P == {k \in 0..n : runs[k] \in Runs /\ Counted(results, runs[k], k)}
  <1>9. 0 \in P
    BY <1>1, <1>2, <1>7 DEF body
  <1>10. ASSUME NEW k \in 1..n, k - 1 \in P PROVE k \in P
    <2>1. k \in 0..n /\ k # 0 /\ runs[k - 1] \in Runs /\ Counted(results, runs[k - 1], k - 1)
      BY <1>1, <1>10
    <2>2. runs[k] = Losses(runs[k - 1], results[k])
      BY <1>7, <2>1 DEF body
    <2>3. /\ Losses(runs[k - 1], results[k]) \in Runs
          /\ Counted(results, Losses(runs[k - 1], results[k]), k)
      BY <2>1, CountedStep DEF n
    <2> QED
      BY <2>1, <2>2, <2>3
  <1> HIDE DEF P
  <1>11. \A k \in 0..n : k \in P
    BY <1>1, <1>9, <1>10, Through
  <1>12. runs[n] \in Runs /\ Counted(results, runs[n], n)
    BY <1>1, <1>11 DEF P
  <1> QED
    BY <1>8, <1>12 DEF n

(* MetricsAreTrue, for any results of any number of trades: one pass finds   *)
(* the deepest fall and the longest run of losses (metrics.py).              *)
THEOREM TheMetricsAreTrue == Spec => []MetricsAreTrue
  <1>1. QuestionsInv => MetricsAreTrue
    <2> SUFFICES ASSUME input \in Seq(Results), question = "metrics" PROVE MetricsAreTrue
      BY DEF MetricsAreTrue, QuestionsInv
    <2> DEFINE results == input
               n == Len(results)
               metrics == Metrics(results)
               fall == metrics.max_drawdown
               longest == metrics.max_consecutive_losses
               curve == CurveOf(results)
    <2>1. results \in Seq(Int) /\ n \in Nat
      <3>1. n \in Nat /\ results \in [1..n -> Results]
        BY LenProperties
      <3>2. results \in [1..n -> Int]
        BY <3>1, InputsAssumption
      <3> QED
        BY <3>1, <3>2, SeqDef
    <2>2. CASE ~metrics.sufficient
      <3>1. /\ metrics.profit_factor = None /\ metrics.max_drawdown = None
            /\ metrics.max_consecutive_losses = 0
        BY <2>2 DEF Metrics
      <3> QED
        BY <2>2, <3>1 DEF MetricsAreTrue
    <2>3. CASE metrics.sufficient
      <3>1. fall = MaxDrawdown(results) /\ longest = LongestLoss(results)
        BY <2>3 DEF Metrics
      <3>2. PICK w \in Falls : Deepest(curve, w, n) /\ fall.fall = w.fall /\ fall.of = w.of
        <4> HIDE DEF fall, results
        <4> QED
          BY <2>1, <3>1, DrawdownIs
      <3>3. PICK run \in Runs : Counted(results, run, n) /\ longest = run.longest
        <4> HIDE DEF longest, results
        <4> QED
          BY <2>1, <3>1, LongestIs
      <3> HIDE DEF metrics, results, n
      <3>4. /\ \A j, k \in 0..n : j <= k => (curve[j] - curve[k]) * fall.of <= fall.fall * curve[j]
            /\ \E j, k \in 0..n : j <= k /\ (curve[j] - curve[k]) * fall.of = fall.fall * curve[j]
        <4> HIDE DEF fall, curve
        <4> QED
          BY <3>2 DEF Deepest
      <3>5. /\ \A j, k \in 1..n : Losing(results, j, k) => k - j + 1 <= longest
            /\ longest > 0 =>
                  \E j, k \in 1..n : Losing(results, j, k) /\ k - j + 1 = longest
        <4> HIDE DEF longest
        <4> QED
          BY <3>3 DEF Counted
      <3> QED
        BY <2>3, <3>4, <3>5, Zenon DEF MetricsAreTrue, CurveOf, Losing, metrics, results, n
    <2> QED
      BY <2>2, <2>3
  <1> QED
    BY <1>1, QuestionsInvariance, PTL

-----------------------------------------------------------------------------
(* The levels of a chart.                                                   *)

(* Sorted leaves every number where the sequence has one. *)
LEMMA SortedIs ==
    ASSUME NEW numbers \in Seq(Int), NEW n \in 1..Len(numbers)
    PROVE  \E k \in 1..Len(numbers) : Sorted(numbers)[n] = numbers[k]
  <1> DEFINE len == Len(numbers)
             key == [k \in 1..len |-> numbers[k] * (len + 1) + k]
             K == {key[k] : k \in 1..len}
             upTo(k) == {j \in DOMAIN numbers :
                            numbers[j] < numbers[k] \/ (numbers[j] = numbers[k] /\ j <= k)}
  <1>1. len \in Nat /\ DOMAIN numbers = 1..len /\ \A k \in 1..len : numbers[k] \in Int
    BY LenProperties, ElementOfSeq
  <1> HIDE DEF len
  <1>2. ASSUME NEW j \in 1..len, NEW k \in 1..len
        PROVE  /\ key[j] \in Int /\ key[k] \in Int
               /\ key[j] <= key[k] <=> numbers[j] < numbers[k] \/ (numbers[j] = numbers[k] /\ j <= k)
    <2> DEFINE a == numbers[j]
               b == numbers[k]
    <2>1. /\ a \in Int /\ b \in Int /\ key[j] = a * (len + 1) + j /\ key[k] = b * (len + 1) + k
          /\ a * (len + 1) \in Int /\ b * (len + 1) \in Int
      BY <1>1
    <2> HIDE DEF a, b, key
    <2>2. ASSUME a < b PROVE key[j] < key[k]
      <3>1. (a + 1) * (len + 1) <= b * (len + 1)
        <4>1. a + 1 \in Int /\ a + 1 <= b /\ len + 1 \in Nat \ {0}
          BY <1>1, <2>1, <2>2
        <4> QED
          BY <2>1, <4>1, ProductOrder
      <3>2. (a + 1) * (len + 1) = a * (len + 1) + (len + 1)
        BY <1>1, <2>1
      <3> QED
        BY <1>1, <2>1, <3>1, <3>2
    <2>3. ASSUME b < a PROVE key[k] < key[j]
      <3>1. (b + 1) * (len + 1) <= a * (len + 1)
        <4>1. b + 1 \in Int /\ b + 1 <= a /\ len + 1 \in Nat \ {0}
          BY <1>1, <2>1, <2>3
        <4> QED
          BY <2>1, <4>1, ProductOrder
      <3>2. (b + 1) * (len + 1) = b * (len + 1) + (len + 1)
        BY <1>1, <2>1
      <3> QED
        BY <1>1, <2>1, <3>1, <3>2
    <2>4. ASSUME a = b PROVE key[j] <= key[k] <=> j <= k
      <3>1. a * (len + 1) = b * (len + 1)
        BY <2>4
      <3> QED
        BY <1>1, <2>1, <3>1
    <2>5. key[j] \in Int /\ key[k] \in Int
      BY <1>1, <2>1
    <2>6. key[j] <= key[k] <=> a < b \/ (a = b /\ j <= k)
      BY <2>1, <2>2, <2>3, <2>4, <2>5
    <2> QED
      BY <2>5, <2>6 DEF a, b
  <1>3. ASSUME NEW j \in 1..len, NEW k \in 1..len, key[j] = key[k] PROVE j = k
    <2>1. key[j] <= key[k] /\ key[k] <= key[j]
      BY <1>2, <1>3
    <2> HIDE DEF key
    <2> QED
      BY <1>1, <1>2, <2>1
  <1>4. key \in Bijection(1..len, K)
    <2>1. key \in [1..len -> K] /\ DOMAIN key = 1..len
      OBVIOUS
    <2>2. \A t \in K : \E k \in 1..len : key[k] = t
      OBVIOUS
    <2> HIDE DEF key, K
    <2> QED
      BY <1>3, <2>1, <2>2 DEF Bijection, Injection, IsInjective, Surjection
  <1>5. IsFiniteSet(1..len) /\ Cardinality(1..len) = len
    <2>1. 1 \in Int /\ len \in Int /\ len >= 1 /\ len - 1 + 1 = len
      BY <1>1 DEF len
    <2> QED
      BY <2>1, FS_Interval
  <1> HIDE DEF key
  <1>6. IsFiniteSet(K) /\ Cardinality(K) = len /\ K \in SUBSET Int
    <2>1. IsFiniteSet(K) /\ Cardinality(K) = len
      <3> HIDE DEF K
      <3>1. ExistsBijection(1..len, K)
        BY <1>4 DEF ExistsBijection
      <3> QED
        BY <1>5, <3>1, FS_Bijection
    <2> QED
      BY <1>2, <2>1
  <1>7. PICK k \in 1..len : Cardinality(Below(K, key[k])) = n - 1
    <2>1. n \in 1..Cardinality(K)
      BY <1>6 DEF len
    <2>2. Nth(K, n) \in K /\ Cardinality(Below(K, Nth(K, n))) = n - 1
      <3> HIDE DEF K
      <3> QED
        BY <1>6, <2>1, NthIs
    <2> QED
      BY <2>2
  <1> DEFINE B == Below(K, key[k]) \cup {key[k]}
             U == upTo(k)
             g == [j \in U |-> key[j]]
  <1>8. B = {x \in K : x <= key[k]}
    <2>1. key[k] \in K /\ key[k] \in Int
      BY <1>2
    <2>2. ASSUME NEW x \in K PROVE x <= key[k] <=> x < key[k] \/ x = key[k]
      <3>1. x \in Int
        BY <1>6
      <3> QED
        BY ONLY <2>1, <3>1
    <2> HIDE DEF K
    <2> QED
      BY <2>1, <2>2, Zenon DEF Below
  <1>9. U = {j \in 1..len : key[j] <= key[k]}
    BY <1>1, <1>2
  <1> HIDE DEF U, upTo
  <1>10. g \in Bijection(U, B)
    <2>1. \A j \in U : j \in 1..len /\ key[j] \in B
      BY <1>8, <1>9
    <2>2. \A x \in B : \E j \in U : key[j] = x
      BY <1>8, <1>9
    <2>3. g \in [U -> B]
      BY <2>1
    <2>4. \A i, j \in U : g[i] = g[j] => i = j
      BY <1>3, <2>1
    <2>5. \A x \in B : \E j \in U : g[j] = x
      BY <2>2
    <2> HIDE DEF g, B
    <2> QED
      BY <2>3, <2>4, <2>5 DEF Bijection, Injection, IsInjective, Surjection
  <1>11. IsFiniteSet(U) /\ Cardinality(U) = Cardinality(B)
    <2>1. U \in SUBSET (1..len)
      BY <1>9
    <2>2. IsFiniteSet(U)
      BY <1>5, <2>1, FS_Subset
    <2>3. ExistsBijection(U, B)
      <3> HIDE DEF g, B
      <3> QED
        BY <1>10 DEF ExistsBijection
    <2> HIDE DEF B
    <2> QED
      BY <2>2, <2>3, FS_Bijection
  <1>12. Cardinality(B) = n
    <2>1. Below(K, key[k]) \in SUBSET K /\ key[k] \notin Below(K, key[k])
      <3>1. key[k] \in Int /\ ~(key[k] < key[k])
        BY <1>2
      <3> QED
        BY <3>1 DEF Below
    <2>2. IsFiniteSet(Below(K, key[k]))
      BY <1>6, <2>1, FS_Subset
    <2>3. Cardinality(B) = Cardinality(Below(K, key[k])) + 1
      BY <2>1, <2>2, FS_AddElement
    <2>4. n \in Int /\ (n - 1) + 1 = n
      OBVIOUS
    <2> HIDE DEF B
    <2> QED
      BY <1>7, <2>3, <2>4
  <1>13. \E i \in DOMAIN numbers : Cardinality(upTo(i)) = n
    BY <1>1, <1>11, <1>12 DEF U
  <1> DEFINE chosen == CHOOSE i \in DOMAIN numbers : Cardinality(upTo(i)) = n
  <1>14. chosen \in 1..len
    BY <1>1, <1>13
  <1>15. Sorted(numbers)[n] = numbers[chosen]
    BY DEF Sorted, upTo
  <1> HIDE DEF chosen
  <1> QED
    BY <1>14, <1>15 DEF len

-----------------------------------------------------------------------------
(* The clusters of k prices between low and high: every price is counted in *)
(* one of them, and the sum of each is that of prices in between.           *)
Clusters == [sum : Int, touches : Nat \ {0}]
Tally(levels) == SumFunction([k \in DOMAIN levels |-> levels[k].touches])
Fits(levels, low, high, k) ==
    /\ levels \in Seq(Clusters)
    /\ Tally(levels) = k
    /\ \A i \in 1..Len(levels) :
          /\ low * levels[i].touches <= levels[i].sum
          /\ levels[i].sum <= high * levels[i].touches

(* A tally as a sum over the levels' indices. *)
LEMMA TallyIs ==
    ASSUME NEW levels \in Seq(Clusters)
    PROVE  Tally(levels) = SumFunctionOnSet([k \in 1..Len(levels) |-> levels[k].touches],
                                            1..Len(levels))
  <1>1. DOMAIN levels = 1..Len(levels)
    BY LenProperties
  <1>2. DOMAIN [k \in 1..Len(levels) |-> levels[k].touches] = 1..Len(levels)
    OBVIOUS
  <1> DEFINE f == [k \in 1..Len(levels) |-> levels[k].touches]
  <1>3. Tally(levels) = SumFunction(f) /\ DOMAIN f = 1..Len(levels)
    BY <1>1 DEF Tally
  <1> HIDE DEF f
  <1>4. SumFunction(f) = SumFunctionOnSet(f, 1..Len(levels))
    BY <1>3 DEF SumFunction
  <1> QED
    BY <1>3, <1>4 DEF f

(* A price that joins the newest cluster, or opens one, is counted once. *)
LEMMA JoinFits ==
    ASSUME NEW low \in Int, NEW high \in Int, NEW k \in Nat, NEW levels,
           Fits(levels, low, high, k), NEW price \in low..high, NEW span \in Int
    PROVE  Fits(Join(levels, price, span), low, high, k + 1)
  <1> DEFINE m == Len(levels)
             t == [i \in 1..m |-> levels[i].touches]
  <1>1. /\ m \in Nat /\ levels \in Seq(Clusters) /\ DOMAIN levels = 1..m
        /\ \A i \in 1..m : levels[i] \in Clusters
    BY LenProperties, ElementOfSeq DEF Fits
  <1>2. /\ \A i \in 1..m : /\ levels[i].sum \in Int /\ levels[i].touches \in Nat \ {0}
                           /\ low * levels[i].touches <= levels[i].sum
                           /\ levels[i].sum <= high * levels[i].touches
    BY <1>1 DEF Clusters, Fits
  <1>3. SumFunctionOnSet(t, 1..m) = k
    BY <1>1, TallyIs DEF Fits
  <1>4. \A n \in Nat : IsFiniteSet(1..n)
    <2>1. ASSUME NEW n \in Nat PROVE IsFiniteSet(1..n)
      <3>1. 1 \in Int /\ n \in Int
        OBVIOUS
      <3> QED
        BY ONLY <3>1, FS_Interval
    <2> QED
      BY <2>1
  <1>5. CASE Join(levels, price, span) = Append(levels, [sum |-> price, touches |-> 1])
    <2> DEFINE opened == [sum |-> price, touches |-> 1]
               more == Append(levels, opened)
               u == [i \in 1..(m + 1) |-> more[i].touches]
    <2>1. opened \in Clusters /\ opened.sum = price /\ opened.touches = 1
      BY DEF Clusters
    <2> HIDE DEF opened
    <2>2. /\ more \in Seq(Clusters) /\ Len(more) = m + 1 /\ more[m + 1] = opened
          /\ \A i \in 1..m : more[i] = levels[i]
      BY <1>1, <2>1, AppendProperties
    <2> HIDE DEF more
    <2>3. /\ \A i \in 1..(m + 1) : u[i] \in Int
          /\ u[m + 1] = 1 /\ \A i \in 1..m : u[i] = t[i] /\ t[i] \in Int
      <3>1. \A i \in 1..m : u[i] = t[i] /\ t[i] \in Int
        BY <1>1, <1>2, <2>2
      <3>2. u[m + 1] = 1
        BY <1>1, <2>1, <2>2
      <3>3. \A i \in 1..(m + 1) : i \in 1..m \/ i = m + 1
        BY <1>1
      <3> HIDE DEF u, t
      <3> QED
        BY <3>1, <3>2, <3>3
    <2>4. SumFunctionOnSet(u, 1..(m + 1)) = u[m + 1] + SumFunctionOnSet(u, (1..(m + 1)) \ {m + 1})
      <3>1. IsFiniteSet(1..(m + 1)) /\ m + 1 \in 1..(m + 1)
        BY <1>1, <1>4
      <3> HIDE DEF u, m
      <3> QED
        BY <2>3, <3>1, SumSplit
    <2>5. (1..(m + 1)) \ {m + 1} = 1..m
      BY <1>1
    <2>6. SumFunctionOnSet(t, 1..m) = SumFunctionOnSet(u, 1..m)
      <3>1. IsFiniteSet(1..m)
        BY <1>1, <1>4
      <3> HIDE DEF u, t, m
      <3> QED
        BY <2>3, <3>1, SumSame
    <2>7. Tally(more) = k + 1
      <3>1. Tally(more) = SumFunctionOnSet(u, 1..(m + 1))
        <4>1. Tally(more) = SumFunctionOnSet([i \in 1..Len(more) |-> more[i].touches],
                                             1..Len(more))
          BY <2>2, TallyIs
        <4> QED
          BY <2>2, <4>1
      <3>2. SumFunctionOnSet(u, (1..(m + 1)) \ {m + 1}) = k
        <4>1. SumFunctionOnSet(u, 1..m) = k
          BY <1>3, <2>6
        <4> HIDE DEF u, t, m
        <4> QED
          BY ONLY <2>5, <4>1
      <3>3. u[m + 1] = 1
        BY <2>3
      <3> HIDE DEF u, t, m
      <3> QED
        BY ONLY <2>4, <3>1, <3>2, <3>3, k \in Nat
    <2>8. ASSUME NEW i \in 1..(m + 1)
          PROVE  low * more[i].touches <= more[i].sum /\ more[i].sum <= high * more[i].touches
      <3>1. CASE i \in 1..m
        BY <1>2, <2>2, <3>1
      <3>2. CASE i = m + 1
        <4>1. more[i].touches = 1 /\ more[i].sum = price
          BY <2>1, <2>2, <3>2
        <4>2. low * 1 = low /\ high * 1 = high
          OBVIOUS
        <4> QED
          BY <4>1, <4>2
      <3> QED
        BY <1>1, <3>1, <3>2
    <2> HIDE DEF m
    <2>9. Fits(more, low, high, k + 1)
      BY <2>2, <2>7, <2>8 DEF Fits
    <2> QED
      BY <1>5, <2>9 DEF more, opened
  <1>6. CASE /\ levels # <<>>
             /\ Join(levels, price, span) =
                   [levels EXCEPT ![m] = [sum |-> levels[m].sum + price,
                                          touches |-> levels[m].touches + 1]]
    <2> DEFINE grown == [sum |-> levels[m].sum + price, touches |-> levels[m].touches + 1]
               more == [levels EXCEPT ![m] = grown]
               u == [i \in 1..m |-> more[i].touches]
    <2>0. m \in 1..m
      <3>1. m # 0
        BY <1>1, <1>6, EmptySeq
      <3> QED
        BY <1>1, <3>1
    <2>1. /\ grown \in Clusters /\ grown.sum = levels[m].sum + price
          /\ grown.touches = levels[m].touches + 1
      BY <1>2, <2>0 DEF Clusters
    <2> HIDE DEF grown
    <2>2. /\ more \in Seq(Clusters) /\ Len(more) = m /\ more[m] = grown
          /\ \A i \in (1..m) \ {m} : more[i] = levels[i]
      BY <1>1, <2>0, <2>1, ExceptSeq
    <2> HIDE DEF more
    <2>3. /\ \A i \in 1..m : u[i] \in Int /\ t[i] \in Int
          /\ u[m] = t[m] + 1 /\ \A i \in (1..m) \ {m} : u[i] = t[i] /\ t[i] \in Int
      <3>3. \A i \in 1..m : /\ u[i] = more[i].touches /\ t[i] = levels[i].touches
                            /\ t[i] \in Int
        BY <1>2
      <3> HIDE DEF u, t, m
      <3>1. \A i \in (1..m) \ {m} : u[i] = t[i] /\ t[i] \in Int
        BY <2>2, <3>3
      <3>2. u[m] = t[m] + 1 /\ t[m] \in Int
        BY <2>0, <2>1, <2>2, <3>3
      <3> HIDE DEF u, t
      <3> QED
        BY <3>1, <3>2
    <2>4. /\ SumFunctionOnSet(u, 1..m) = u[m] + SumFunctionOnSet(u, (1..m) \ {m})
          /\ SumFunctionOnSet(t, 1..m) = t[m] + SumFunctionOnSet(t, (1..m) \ {m})
          /\ SumFunctionOnSet(t, (1..m) \ {m}) \in Int
      <3>1. IsFiniteSet(1..m)
        BY <1>1, <1>4
      <3> HIDE DEF u, t, m
      <3> QED
        BY <2>0, <2>3, <3>1, SumSplit
    <2>6. SumFunctionOnSet(t, (1..m) \ {m}) = SumFunctionOnSet(u, (1..m) \ {m})
      <3>1. IsFiniteSet((1..m) \ {m})
        BY <1>1, <1>4, FS_RemoveElement, <2>0
      <3> HIDE DEF u, t, m
      <3> QED
        BY <2>3, <3>1, SumSame
    <2>7. Tally(more) = k + 1
      <3>1. Tally(more) = SumFunctionOnSet(u, 1..m)
        <4>1. Tally(more) = SumFunctionOnSet([i \in 1..Len(more) |-> more[i].touches],
                                             1..Len(more))
          BY <2>2, TallyIs
        <4> QED
          BY <2>2, <4>1
      <3>2. t[m] \in Int
        BY <2>0, <2>3
      <3> HIDE DEF u, t, m
      <3> QED
        BY <1>3, <2>3, <2>4, <2>6, <3>1, <3>2
    <2>8. ASSUME NEW i \in 1..m
          PROVE  low * more[i].touches <= more[i].sum /\ more[i].sum <= high * more[i].touches
      <3>1. CASE i # m
        BY <1>2, <2>2, <3>1
      <3>2. CASE i = m
        <4> DEFINE c == levels[m].touches
                   s == levels[m].sum
        <4>1. /\ c \in Nat /\ s \in Int /\ low * c <= s /\ s <= high * c
              /\ more[i].touches = c + 1 /\ more[i].sum = s + price
          BY <1>2, <2>0, <2>1, <2>2, <3>2
        <4> HIDE DEF c, s
        <4>2. low * (c + 1) = low * c + low /\ high * (c + 1) = high * c + high
              /\ low * c \in Int /\ high * c \in Int
          BY <4>1
        <4> QED
          BY <4>1, <4>2
      <3> QED
        BY <3>1, <3>2
    <2> HIDE DEF m
    <2>9. Fits(more, low, high, k + 1)
      BY <2>2, <2>7, <2>8 DEF Fits
    <2> QED
      BY <1>6, <2>9 DEF more, grown
  <1>7. \/ Join(levels, price, span) = Append(levels, [sum |-> price, touches |-> 1])
        \/ /\ levels # <<>>
           /\ Join(levels, price, span) =
                 [levels EXCEPT ![m] = [sum |-> levels[m].sum + price,
                                        touches |-> levels[m].touches + 1]]
    BY DEF Join
  <1> QED
    BY <1>5, <1>6, <1>7

(* Every price is in a cluster, and no cluster lies beyond them. *)
LEMMA ClusterIs ==
    ASSUME NEW low \in Int, NEW high \in Int, NEW span \in Int, span > 0,
           NEW prices \in Seq(low..high)
    PROVE  Fits(ClusterLevels(prices, span), low, high, Len(prices))
  <1> DEFINE n == Len(prices)
             sorted == Sorted(prices)
             S == {l \in Seq(Clusters) : \E k \in Nat : Fits(l, low, high, k)}
             body(h, k) == IF k = 0 THEN <<>> ELSE Join(h[k - 1], sorted[k], span)
             step == [p \in S \X Nat |-> IF p[2] \in 1..n THEN Join(p[1], sorted[p[2]], span)
                                         ELSE <<>>]
             levels == CHOOSE h : h = [k \in 0..n |-> body(h, k)]
  <1>1. n \in Nat /\ \A k \in 1..n : sorted[k] \in low..high
    <2>1. /\ n \in Nat /\ prices \in [1..n -> low..high] /\ \A k \in 1..n : prices[k] \in low..high
      BY LenProperties, ElementOfSeq
    <2>2. prices \in Seq(Int)
      <3>1. prices \in [1..n -> Int]
        BY <2>1
      <3> QED
        BY <2>1, <3>1, SeqDef
    <2>3. ASSUME NEW k \in 1..n PROVE sorted[k] \in low..high
      <3>1. PICK i \in 1..n : sorted[k] = prices[i]
        <4> HIDE DEF sorted
        <4> QED
          BY <2>2, SortedIs DEF sorted
      <3> HIDE DEF sorted
      <3> QED
        BY <2>1, <3>1
    <2> QED
      BY <2>1, <2>3
  <1> HIDE DEF n, sorted
  <1>2. Fits(<<>>, low, high, 0) /\ <<>> \in S
    <2>1. <<>> \in Seq(Clusters) /\ Len(<<>>) = 0
      BY EmptySeq
    <2>2. Tally(<<>>) = 0
      <3>1. Tally(<<>>) = SumFunctionOnSet([k \in 1..Len(<<>>) |-> <<>>[k].touches], 1..Len(<<>>))
        BY <2>1, TallyIs
      <3>2. 1..Len(<<>>) = {}
        BY <2>1
      <3> QED
        BY <3>1, <3>2, SumOfNone
    <2>3. \A i \in 1..Len(<<>>) : FALSE
      BY <2>1
    <2>4. Fits(<<>>, low, high, 0)
      BY <2>1, <2>2, <2>3 DEF Fits
    <2> QED
      BY <2>1, <2>4
  <1>3. ASSUME NEW l \in S, NEW k \in 1..n PROVE Join(l, sorted[k], span) \in S
    <2>1. PICK c \in Nat : Fits(l, low, high, c)
      OBVIOUS
    <2>2. Fits(Join(l, sorted[k], span), low, high, c + 1)
      BY <1>1, <2>1, JoinFits
    <2>3. c + 1 \in Nat
      OBVIOUS
    <2> QED
      BY <2>2, <2>3 DEF Fits
  <1> HIDE DEF S
  <1>4. step \in [S \X Nat -> S]
    BY <1>2, <1>3
  <1>5. PICK f \in [0..n -> S] : Unfolds(f, n, <<>>, step)
    <2> HIDE DEF step
    <2> QED
      BY <1>1, <1>2, <1>4, Unfolding
  <1>6. f = [k \in 0..n |-> body(f, k)]
    <2>1. ASSUME NEW k \in 0..n PROVE f[k] = body(f, k)
      <3>1. CASE k = 0
        BY <1>5, <3>1 DEF Unfolds
      <3>2. CASE k # 0
        <4>1. k \in 1..n /\ k \in Nat
          BY <1>1, <3>2
        <4>2. k - 1 \in 0..n /\ f[k] = step[<<f[k - 1], k>>]
          BY <1>5, <4>1 DEF Unfolds
        <4>3. f[k - 1] \in S
          BY <4>2
        <4>4. step[<<f[k - 1], k>>] = Join(f[k - 1], sorted[k], span)
          BY <4>1, <4>3
        <4> HIDE DEF step
        <4> QED
          BY <3>2, <4>2, <4>4
      <3> QED
        BY <3>1, <3>2
    <2> HIDE DEF body
    <2> QED
      BY <2>1
  <1> HIDE DEF body
  <1>7. levels = [k \in 0..n |-> body(levels, k)]
    BY <1>6
  <1>8. ClusterLevels(prices, span) = levels[n]
    BY DEF ClusterLevels, body, n, sorted
  <1> HIDE DEF levels
  <1> DEFINE P == {k \in 0..n : Fits(levels[k], low, high, k)}
  <1>9. 0 \in P
    BY <1>1, <1>2, <1>7 DEF body
  <1>10. ASSUME NEW k \in 1..n, k - 1 \in P PROVE k \in P
    <2>1. k \in 0..n /\ k # 0 /\ k - 1 \in Nat /\ (k - 1) + 1 = k
          /\ Fits(levels[k - 1], low, high, k - 1) /\ sorted[k] \in low..high
      BY <1>1, <1>10
    <2>2. levels[k] = Join(levels[k - 1], sorted[k], span)
      BY <1>7, <2>1 DEF body
    <2>3. Fits(Join(levels[k - 1], sorted[k], span), low, high, (k - 1) + 1)
      BY <2>1, JoinFits
    <2> QED
      BY <2>1, <2>2, <2>3
  <1> HIDE DEF P
  <1>11. \A k \in 0..n : k \in P
    BY <1>1, <1>9, <1>10, Through
  <1>12. Fits(levels[n], low, high, n)
    BY <1>1, <1>11 DEF P
  <1> QED
    BY <1>8, <1>12 DEF n

(* The price of a cluster lies between those it was made of. *)
LEMMA PricesWithin ==
    ASSUME NEW low \in Int, NEW high \in Int, NEW k, NEW levels, Fits(levels, low, high, k)
    PROVE  PricesOf(levels) \in SUBSET (low..high) /\ IsFiniteSet(PricesOf(levels))
  <1> DEFINE m == Len(levels)
             price == [i \in 1..m |-> levels[i].sum \div levels[i].touches]
  <1>1. /\ m \in Nat /\ DOMAIN levels = 1..m
        /\ \A i \in 1..m : /\ levels[i].sum \in Int /\ levels[i].touches \in Nat \ {0}
                           /\ low * levels[i].touches <= levels[i].sum
                           /\ levels[i].sum <= high * levels[i].touches
    <2>1. levels \in Seq(Clusters) /\ m \in Nat /\ DOMAIN levels = 1..m
      BY LenProperties DEF Fits
    <2>2. \A i \in 1..m : levels[i] \in Clusters
      BY <2>1, ElementOfSeq
    <2> QED
      BY <2>1, <2>2 DEF Fits, Clusters
  <1> HIDE DEF m
  <1>2. ASSUME NEW i \in 1..m PROVE price[i] \in low..high
    <2> DEFINE s == levels[i].sum
               t == levels[i].touches
               q == s \div t
               r == s % t
    <2>1. s \in Int /\ t \in Nat \ {0} /\ low * t <= s /\ s <= high * t
      BY <1>1
    <2>2. s = t * q + r /\ q \in Int /\ 0 <= r /\ r < t /\ r \in Int
      <3> HIDE DEF s, t
      <3> QED
        BY <2>1
    <2>3. price[i] = q
      OBVIOUS
    <2> HIDE DEF s, t, q, r
    <2>4. ~(q < low)
      <3>1. SUFFICES ASSUME q < low PROVE FALSE
        OBVIOUS
      <3>2. (q + 1) * t <= low * t
        <4>1. q + 1 \in Int /\ q + 1 <= low
          BY <2>2, <3>1
        <4> QED
          BY <2>1, <4>1, ProductOrder
      <3>3. (q + 1) * t = t * q + t /\ t * q \in Int
        BY <2>1, <2>2
      <3> QED
        BY <2>1, <2>2, <3>2, <3>3
    <2>5. ~(q > high)
      <3>1. SUFFICES ASSUME q > high PROVE FALSE
        OBVIOUS
      <3>2. (high + 1) * t <= q * t
        <4>1. high + 1 \in Int /\ high + 1 <= q
          BY <2>2, <3>1
        <4> QED
          BY <2>1, <2>2, <4>1, ProductOrder
      <3>3. /\ (high + 1) * t = high * t + t /\ q * t = t * q /\ high * t \in Int
            /\ t * q \in Int
        BY <2>1, <2>2
      <3> QED
        BY <2>1, <2>2, <3>2, <3>3
    <2> QED
      BY <2>2, <2>3, <2>4, <2>5
  <1>3. PricesOf(levels) = Range(price)
    BY <1>1 DEF PricesOf, Range
  <1>4. IsFiniteSet(Range(price))
    <2>1. DOMAIN price = 1..m
      OBVIOUS
    <2> HIDE DEF price
    <2> QED
      BY <1>1, <2>1, ImageFinite
  <1>5. Range(price) \in SUBSET (low..high)
    <2>1. DOMAIN price = 1..m
      OBVIOUS
    <2> HIDE DEF price
    <2> QED
      BY <1>2, <2>1 DEF Range
  <1> QED
    BY <1>3, <1>4, <1>5

(* The clusters of a chart's swings, at any of the bars' prices. *)
SwingPrices(swings, values) == [i \in 1..Cardinality(swings) |-> values[Nth(swings, i)]]

(* The clusters of some swings hold every one of them, within the range of  *)
(* the bars.                                                                *)
LEMMA LevelsIs ==
    ASSUME NEW n \in Nat, NEW swings \in SUBSET (1..n), NEW low \in Int, NEW high \in Int,
           NEW values \in [1..n -> low..high]
    PROVE  LET levels == ClusterLevels(SwingPrices(swings, values), high - low)
           IN  /\ high > low => Tally(levels) = Cardinality(swings)
               /\ PricesOf(levels) \in SUBSET (low..high)
               /\ IsFiniteSet(PricesOf(levels))
  <1> DEFINE prices == SwingPrices(swings, values)
             count == Cardinality(swings)
             levels == ClusterLevels(prices, high - low)
  <1>1. IsFiniteSet(swings) /\ count \in Nat /\ swings \in SUBSET Int
    <2>1. IsFiniteSet(1..n)
      <3>1. 1 \in Int /\ n \in Int
        OBVIOUS
      <3> QED
        BY ONLY <3>1, FS_Interval
    <2>2. IsFiniteSet(swings)
      BY <2>1, FS_Subset
    <2> QED
      BY <2>2, FS_CardinalityType
  <1>2. prices \in Seq(low..high) /\ Len(prices) = count
    <2>1. ASSUME NEW i \in 1..count PROVE values[Nth(swings, i)] \in low..high
      <3>1. Nth(swings, i) \in swings
        BY <1>1, NthIs
      <3> QED
        BY <3>1
    <2>2. prices = [i \in 1..count |-> values[Nth(swings, i)]]
      BY DEF SwingPrices
    <2> HIDE DEF prices, count
    <2>3. prices \in [1..count -> low..high]
      BY <2>1, <2>2
    <2> QED
      BY <1>1, <2>3, SeqDef, LenProperties
  <1> HIDE DEF prices, count
  <1>3. CASE high - low > 0
    <2>1. high - low \in Int
      OBVIOUS
    <2>2. Fits(levels, low, high, count)
      BY <1>2, <1>3, <2>1, ClusterIs
    <2>3. PricesOf(levels) \in SUBSET (low..high) /\ IsFiniteSet(PricesOf(levels))
      <3> HIDE DEF levels
      <3> QED
        BY <2>2, PricesWithin
    <2> QED
      BY <2>2, <2>3 DEF Fits, count, prices
  <1>4. CASE ~(high - low > 0)
    <2>1. levels = <<>>
      BY <1>4 DEF ClusterLevels
    <2>2. PricesOf(levels) = {}
      <3>1. DOMAIN <<>> = {}
        BY EmptySeq
      <3> QED
        BY <2>1, <3>1 DEF PricesOf
    <2>3. IsFiniteSet({}) /\ ~(high > low)
      BY <1>4, FS_EmptySet
    <2> HIDE DEF levels
    <2>4. /\ high > low => Tally(levels) = Cardinality(swings)
          /\ PricesOf(levels) \in SUBSET (low..high)
          /\ IsFiniteSet(PricesOf(levels))
      BY <2>2, <2>3
    <2> QED
      BY <2>4 DEF levels, prices
  <1> QED
    BY <1>3, <1>4

(* The newest bars of a chart of sound bars are such a chart. *)
LEMMA RecentIs ==
    ASSUME NEW chart \in Seq(Observations), chart # <<>>,
           \A k \in 1..Len(chart) : Sound(chart[k])
    PROVE  /\ Recent(chart) \in Seq(Observations) /\ Recent(chart) # <<>>
           /\ \A k \in 1..Len(Recent(chart)) : Sound(Recent(chart)[k])
  <1> DEFINE n == Len(chart)
             first == IF n > Lookback THEN n - Lookback + 1 ELSE 1
             bars == SubSeq(chart, first, n)
  <1>1. n \in Nat /\ n # 0
    BY LenProperties, EmptySeq
  <1>2. first \in 1..n
    BY <1>1, AnalysisAssumption
  <1> HIDE DEF first, n
  <1>3. /\ bars \in Seq(Observations) /\ Len(bars) = n - first + 1
        /\ \A k \in 1 .. n - first + 1 : bars[k] = chart[first + k - 1]
    <2>1. \A k \in first..n : chart[k] \in Observations
      BY <1>1, <1>2, ElementOfSeq DEF n
    <2> QED
      BY <1>1, <1>2, <2>1, SubSeqProperties
  <1>4. ASSUME NEW k \in 1..Len(bars) PROVE Sound(bars[k])
    <2>1. first + k - 1 \in 1..n /\ bars[k] = chart[first + k - 1]
      BY <1>1, <1>2, <1>3
    <2> QED
      BY <2>1 DEF n
  <1>5. Len(bars) # 0
    BY <1>1, <1>2, <1>3
  <1>6. bars # <<>>
    BY <1>5, EmptySeq
  <1>7. Recent(chart) = bars
    BY DEF Recent, n, first
  <1> HIDE DEF bars
  <1> QED
    BY <1>3, <1>4, <1>6, <1>7

(* The structure of a chart of sound bars. *)
LEMMA StructureIs ==
    ASSUME NEW chart \in Seq(Observations), chart # <<>>,
           \A k \in 1..Len(chart) : Sound(chart[k])
    PROVE  LET bars == Recent(chart)
               structure == Structure(chart)
               price == bars[Len(bars)].close
           IN  /\ structure.support # None => structure.support < price
               /\ structure.resistance # None => structure.resistance > price
               /\ structure.recent_high > structure.recent_low =>
                     /\ Tally(structure.resistance_levels) = Cardinality(SwingHighs(bars))
                     /\ Tally(structure.support_levels) = Cardinality(SwingLows(bars))
               /\ PricesOf(structure.resistance_levels) \cup PricesOf(structure.support_levels)
                     \in SUBSET (structure.recent_low .. structure.recent_high)
  <1> DEFINE bars == Recent(chart)
             n == Len(bars)
             highs == Highs(bars)
             lows == Lows(bars)
             price == bars[n].close
             highest == Max(Range(highs))
             lowest == Min(Range(lows))
             structure == Structure(chart)
             resistances == ClusterLevels(SwingPrices(SwingHighs(bars), highs), highest - lowest)
             supports == ClusterLevels(SwingPrices(SwingLows(bars), lows), highest - lowest)
             above == {level \in PricesOf(resistances) : level > price}
             below == {level \in PricesOf(supports) : level < price}
  <1>0. /\ bars \in Seq(Observations) /\ bars # <<>>
        /\ \A k \in 1..Len(bars) : Sound(bars[k])
    BY RecentIs
  <1> HIDE DEF bars
  <1>1. /\ n \in Nat /\ n # 0 /\ DOMAIN bars = 1..n
        /\ \A k \in 1..n : /\ bars[k].high \in Int /\ bars[k].low \in Int /\ bars[k].close \in Int
                           /\ bars[k].low <= bars[k].close /\ bars[k].close <= bars[k].high
    <2>1. n \in Nat /\ n # 0 /\ DOMAIN bars = 1..n
      BY <1>0, LenProperties, EmptySeq
    <2>2. ASSUME NEW k \in 1..n
          PROVE  /\ bars[k].high \in Int /\ bars[k].low \in Int /\ bars[k].close \in Int
                 /\ bars[k].low <= bars[k].close /\ bars[k].close <= bars[k].high
      <3>1. bars[k] \in Observations
        BY <1>0, <2>1, ElementOfSeq
      <3>2. bars[k].high \in Int /\ bars[k].low \in Int /\ bars[k].close \in Int
        BY <3>1 DEF Observations
      <3>3. bars[k].close \in bars[k].low..bars[k].high
        BY <1>0 DEF Sound
      <3> QED
        BY <3>2, <3>3
    <2> QED
      BY <2>1, <2>2
  <1> HIDE DEF n
  <1>2. /\ highs = [k \in 1..n |-> bars[k].high] /\ DOMAIN highs = 1..n
        /\ lows = [k \in 1..n |-> bars[k].low] /\ DOMAIN lows = 1..n
    BY <1>1 DEF Highs, Lows
  <1> HIDE DEF highs, lows
  <1>3. highest \in Int /\ \A k \in 1..n : highs[k] <= highest
    <2>1. Range(highs) \in SUBSET Int /\ Range(highs) # {} /\ \A k \in 1..n : highs[k] \in Range(highs)
      <3>1. \A k \in 1..n : highs[k] \in Int
        BY <1>1, <1>2
      <3>2. Range(highs) = {highs[k] : k \in DOMAIN highs}
        BY DEF Range
      <3>3. DOMAIN highs = 1..n /\ 1 \in 1..n
        BY <1>1, <1>2
      <3> QED
        BY <3>1, <3>2, <3>3
    <2>2. IsFiniteSet(Range(highs))
      BY <1>1, <1>2, ImageFinite
    <2>3. highest \in Range(highs) /\ \A y \in Range(highs) : y <= highest
      BY <2>1, <2>2, MaxOf
    <2> HIDE DEF highest
    <2> QED
      BY <2>1, <2>3
  <1>4. lowest \in Int /\ \A k \in 1..n : lowest <= lows[k]
    <2>1. Range(lows) \in SUBSET Int /\ Range(lows) # {} /\ \A k \in 1..n : lows[k] \in Range(lows)
      <3>1. \A k \in 1..n : lows[k] \in Int
        BY <1>1, <1>2
      <3>2. Range(lows) = {lows[k] : k \in DOMAIN lows}
        BY DEF Range
      <3>3. DOMAIN lows = 1..n /\ 1 \in 1..n
        BY <1>1, <1>2
      <3> QED
        BY <3>1, <3>2, <3>3
    <2>2. IsFiniteSet(Range(lows))
      BY <1>1, <1>2, ImageFinite
    <2>3. lowest \in Range(lows) /\ \A y \in Range(lows) : lowest <= y
      BY <2>1, <2>2, MinOf
    <2> HIDE DEF lowest
    <2> QED
      BY <2>1, <2>3
  <1>5. structure = [support     |-> IF below = {} THEN None ELSE Max(below),
                     resistance  |-> IF above = {} THEN None ELSE Min(above),
                     recent_high |-> highest,
                     recent_low  |-> lowest,
                     resistance_levels |-> resistances,
                     support_levels    |-> supports]
    BY DEF Structure, SwingPrices, bars, n, highs, lows
  <1> HIDE DEF highest, lowest, structure
  <1>6. highs \in [1..n -> lowest..highest] /\ lows \in [1..n -> lowest..highest]
    <2>1. ASSUME NEW k \in 1..n
          PROVE  highs[k] \in lowest..highest /\ lows[k] \in lowest..highest
      <3>1. /\ highs[k] = bars[k].high /\ lows[k] = bars[k].low
            /\ highs[k] <= highest /\ lowest <= lows[k]
        BY <1>2, <1>3, <1>4
      <3> QED
        BY <1>1, <1>3, <1>4, <3>1
    <2> QED
      BY <1>2, <2>1
  <1>7. SwingHighs(bars) \in SUBSET (1..n) /\ SwingLows(bars) \in SUBSET (1..n)
    <2>1. ASSUME NEW values \in [1..n -> Int] PROVE Swings(values) \in SUBSET (1..n)
      <3>1. Len(values) = n
        BY <1>1, SeqDef, LenProperties
      <3>2. Strength \in Nat /\ \A i \in 1 + Strength .. n - Strength : i \in 1..n
        BY <1>1, AnalysisAssumption
      <3> QED
        BY <3>1, <3>2 DEF Swings
    <2>2. highs \in [1..n -> Int] /\ [k \in DOMAIN bars |-> -bars[k].low] \in [1..n -> Int]
      BY <1>1, <1>2
    <2> QED
      BY <2>1, <2>2 DEF SwingHighs, SwingLows, highs
  <1>8. /\ highest > lowest => Tally(resistances) = Cardinality(SwingHighs(bars))
        /\ PricesOf(resistances) \in SUBSET (lowest..highest) /\ IsFiniteSet(PricesOf(resistances))
    BY <1>1, <1>3, <1>4, <1>6, <1>7, LevelsIs
  <1>9. /\ highest > lowest => Tally(supports) = Cardinality(SwingLows(bars))
        /\ PricesOf(supports) \in SUBSET (lowest..highest) /\ IsFiniteSet(PricesOf(supports))
    BY <1>1, <1>3, <1>4, <1>6, <1>7, LevelsIs
  <1> HIDE DEF resistances, supports
  <1>10. below # {} => Max(below) < price
    <2>1. below \in SUBSET PricesOf(supports) /\ \A level \in below : level < price
      OBVIOUS
    <2> HIDE DEF below, price
    <2>2. IsFiniteSet(below) /\ below \in SUBSET Int
      BY <1>3, <1>4, <1>9, <2>1, FS_Subset
    <2> QED
      BY <2>1, <2>2, MaxOf
  <1>11. above # {} => Min(above) > price
    <2>1. above \in SUBSET PricesOf(resistances) /\ \A level \in above : level > price
      OBVIOUS
    <2> HIDE DEF above, price
    <2>2. IsFiniteSet(above) /\ above \in SUBSET Int
      BY <1>3, <1>4, <1>8, <2>1, FS_Subset
    <2> QED
      BY <2>1, <2>2, MinOf
  <1> HIDE DEF below, above, price
  <1>12. /\ structure.support = IF below = {} THEN None ELSE Max(below)
         /\ structure.resistance = IF above = {} THEN None ELSE Min(above)
         /\ structure.recent_high = highest /\ structure.recent_low = lowest
         /\ structure.resistance_levels = resistances /\ structure.support_levels = supports
    BY <1>5
  <1>13. /\ structure.support # None => structure.support < price
         /\ structure.resistance # None => structure.resistance > price
    BY <1>10, <1>11, <1>12
  <1>14. /\ structure.recent_high > structure.recent_low =>
               /\ Tally(structure.resistance_levels) = Cardinality(SwingHighs(bars))
               /\ Tally(structure.support_levels) = Cardinality(SwingLows(bars))
         /\ PricesOf(structure.resistance_levels) \cup PricesOf(structure.support_levels)
               \in SUBSET (structure.recent_low .. structure.recent_high)
    BY <1>8, <1>9, <1>12
  <1> QED
    BY <1>13, <1>14 DEF structure, price, n, bars

(* LevelsHold, for any history of sound bars (cluster_levels,               *)
(* analyse_structure).                                                      *)
THEOREM TheLevelsHold == Spec => []LevelsHold
  <1>1. HistoryInv => LevelsHold
    <2> SUFFICES ASSUME HistorySound(input), question = "history", Bars # <<>>
                 PROVE  LevelsHold
      BY DEF HistoryInv, LevelsHold
    <2>1. Bars \in Seq(Observations) /\ \A k \in 1..Len(Bars) : Sound(Bars[k])
      <3>1. input \in Seq(Observations) /\ \A k \in 1..Len(input) : Sound(input[k])
        BY DEF HistorySound
      <3>2. Bars \in Seq(Observations)
            /\ \A n \in 1..Len(Bars) : \E k \in 1..Len(input) : Bars[n] = input[k]
        BY <3>1, FrameIs DEF Bars
      <3> QED
        BY <3>1, <3>2
    <2> DEFINE bars == Recent(Bars)
               structure == Structure(Bars)
               price == bars[Len(bars)].close
    <2>2. /\ structure.support # None => structure.support < price
          /\ structure.resistance # None => structure.resistance > price
          /\ structure.recent_high > structure.recent_low =>
                /\ Tally(structure.resistance_levels) = Cardinality(SwingHighs(bars))
                /\ Tally(structure.support_levels) = Cardinality(SwingLows(bars))
          /\ PricesOf(structure.resistance_levels) \cup PricesOf(structure.support_levels)
                \in SUBSET (structure.recent_low .. structure.recent_high)
      <3> HIDE DEF bars, structure, price
      <3> QED
        BY <2>1, StructureIs DEF bars, structure, price
    <2> HIDE DEF bars, structure, price
    <2> QED
      BY <2>2 DEF LevelsHold, Tally, bars, structure, price
  <1> QED
    BY <1>1, HistoryInvariance, PTL
=============================================================================
