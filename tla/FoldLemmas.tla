----------------------------- MODULE FoldLemmas -----------------------------
(***************************************************************************)
(* Induction over the naturals and over folds, as facts about sets: what   *)
(* the proofs about FoldLeft (SequencesExt) rest on.  A property is        *)
(* represented by the set of what has it, and the operation of a fold by a *)
(* function, since the provers do not instantiate operators.               *)
(***************************************************************************)
EXTENDS Integers, Sequences, SequencesExt, WellFoundedInduction, TLAPS

\* Every non-empty set of naturals has a least element.
LEMMA LeastElement ==
  ASSUME NEW T, T \subseteq Nat, T # {}
  PROVE  \E x \in T : \A y \in T : x <= y
<1> DEFINE R == OpToRel(<, Nat)
<1>1. \A x, y \in Nat : x < y => <<x, y>> \in R
  BY DEF OpToRel
<1>2. IsWellFoundedOn(R, Nat)
  BY NatLessThanWellFounded
<1> HIDE DEF R
<1>3. PICK x \in T : \A y \in T : ~ (<<y, x>> \in R)
  BY <1>2, WFMin
<1>4. ASSUME NEW y \in T PROVE x <= y
  <2>1. ~ (y < x)
    BY <1>1, <1>3
  <2>2. QED BY <2>1
<1>5. QED BY <1>4

\* A set with 0 that is closed under the successor holds every natural.
LEMMA SetInduction ==
  ASSUME NEW T, 0 \in T, \A n \in Nat : n \in T => n + 1 \in T
  PROVE  \A n \in Nat : n \in T
<1>1. SUFFICES ASSUME Nat \ T # {} PROVE FALSE
  OBVIOUS
<1>2. PICK x \in Nat \ T : \A y \in Nat \ T : x <= y
  BY <1>1, LeastElement
<1>3. x # 0 /\ x - 1 \in Nat /\ x - 1 \in T
  BY <1>2
<1>4. QED BY <1>2, <1>3

\* What Max and Min choose.
LEMMA MaxElement ==
  ASSUME NEW n \in Nat, NEW s, s \subseteq 1..n, s # {}
  PROVE  Max(s) \in s /\ \A y \in s : y <= Max(s)
<1> DEFINE T == {n - x : x \in s}
<1>1. \A x \in s : n - x \in Nat
  BY SMT
<1>11. T \subseteq Nat /\ T # {}
  BY <1>1
<1>2. PICK t \in T : \A u \in T : t <= u
  BY <1>11, LeastElement
<1>3. PICK x \in s : t = n - x
  OBVIOUS
<1>4. ASSUME NEW y \in s PROVE x >= y
  <2>1. n - x <= n - y
    BY <1>2, <1>3
  <2>2. QED BY <2>1
<1>5. \E z \in s : \A y \in s : z >= y
  BY <1>4
<1>6. Max(s) \in s /\ \A y \in s : Max(s) >= y
  BY <1>5 DEF Max
<1>7. QED BY <1>6

LEMMA MinElement ==
  ASSUME NEW s, s \subseteq Nat, s # {}
  PROVE  Min(s) \in s /\ \A y \in s : Min(s) <= y
  BY LeastElement DEF Min

\* FoldLeft folds with a function on sets of positions; this is one for the operation G.
FoldsWith(f, base, seq, G) ==
  \A s \in SUBSET (DOMAIN seq) :
    f[s] = IF s = {} THEN base ELSE G[<<f[s \ {Max(s)}], seq[Max(s)]>>]

\* There is such a function, with values in A, when the operation stays in A.
LEMMA FoldExists ==
  ASSUME NEW A, NEW E, NEW base \in A, NEW seq \in Seq(E), NEW G \in [A \X E -> A]
  PROVE  \E f \in [SUBSET (DOMAIN seq) -> A] : FoldsWith(f, base, seq, G)
<1> DEFINE Eqn(f, k) == \A s \in SUBSET (1..k) :
             f[s] = IF s = {} THEN base ELSE G[<<f[s \ {Max(s)}], seq[Max(s)]>>]
           Has(k) == \E f \in [SUBSET (1..k) -> A] : Eqn(f, k)
           T == {k \in Nat : k <= Len(seq) => Has(k)}
<1>1. DOMAIN seq = 1..Len(seq) /\ Len(seq) \in Nat
  OBVIOUS
<1>2. Has(0)
  <2> DEFINE f == [s \in SUBSET (1..0) |-> base]
  <2>1. f \in [SUBSET (1..0) -> A]
    OBVIOUS
  <2>2. 1..0 = {}
    OBVIOUS
  <2>3. Eqn(f, 0)
    BY <2>2
  <2>4. QED BY <2>1, <2>3
<1>3. ASSUME NEW k \in Nat, Has(k), k + 1 <= Len(seq) PROVE Has(k + 1)
  <2>1. PICK g \in [SUBSET (1..k) -> A] : Eqn(g, k)
    BY <1>3
  <2> DEFINE f == [s \in SUBSET (1..(k + 1)) |->
                     IF k + 1 \in s THEN G[<<g[s \ {k + 1}], seq[k + 1]>>] ELSE g[s]]
  <2>3. seq[k + 1] \in E
    BY <1>1, <1>3
  <2>4. \A s \in SUBSET (1..(k + 1)) : s \ {k + 1} \in SUBSET (1..k)
    OBVIOUS
  <2>5. \A s \in SUBSET (1..(k + 1)) : k + 1 \notin s => s \in SUBSET (1..k)
    BY <2>4
  <2>6. ASSUME NEW s \in SUBSET (1..(k + 1)) PROVE f[s] \in A
    <3>1. CASE k + 1 \in s
      <4>1. g[s \ {k + 1}] \in A
        BY <2>4
      <4>2. <<g[s \ {k + 1}], seq[k + 1]>> \in A \X E
        BY <2>3, <4>1
      <4>3. QED BY <3>1, <4>2
    <3>2. CASE k + 1 \notin s
      BY <2>5, <3>2
    <3>3. QED BY <3>1, <3>2
  <2>7. f \in [SUBSET (1..(k + 1)) -> A]
    BY <2>6
  <2>8. ASSUME NEW s \in SUBSET (1..(k + 1)), s # {}
        PROVE  f[s] = G[<<f[s \ {Max(s)}], seq[Max(s)]>>]
    <3>0. k + 1 \in Nat /\ s \subseteq 1..(k + 1)
      OBVIOUS
    <3>1. Max(s) \in s /\ \A y \in s : y <= Max(s)
      BY <2>8, <3>0, MaxElement
    <3>2. CASE k + 1 \in s
      <4>1. Max(s) = k + 1
        <5>1. k + 1 <= Max(s) /\ Max(s) \in 1..(k + 1)
          BY <3>0, <3>1, <3>2
        <5>2. QED BY <3>0, <5>1
      <4>2. f[s \ {k + 1}] = g[s \ {k + 1}]
        BY <2>4
      <4>3. QED BY <3>2, <4>1, <4>2
    <3>3. CASE k + 1 \notin s
      <4>1. s \in SUBSET (1..k) /\ s \ {Max(s)} \in SUBSET (1..k)
        BY <2>5, <3>3
      <4>2. f[s] = g[s] /\ f[s \ {Max(s)}] = g[s \ {Max(s)}]
        BY <3>3, <4>1
      <4>3. QED BY <2>1, <2>8, <4>1, <4>2
    <3>4. QED BY <3>2, <3>3
  <2>9. f[{}] = base
    <3>1. {} \in SUBSET (1..k) /\ k + 1 \notin {}
      OBVIOUS
    <3>2. f[{}] = g[{}]
      BY <3>1
    <3>3. QED BY <2>1, <3>1, <3>2
  <2>10. Eqn(f, k + 1)
    BY <2>8, <2>9
  <2>11. QED BY <2>7, <2>10
<1> HIDE DEF Has
<1>4. 0 \in T /\ \A k \in Nat : k \in T => k + 1 \in T
  BY <1>1, <1>2, <1>3
<1> HIDE DEF T
<1>5. Len(seq) \in T
  BY <1>1, <1>4, SetInduction
<1>6. Has(Len(seq))
  BY <1>1, <1>5 DEF T
<1>7. QED BY <1>1, <1>6, Zenon DEF Has, FoldsWith

\* The positions 1..k + 1 without their greatest are 1..k.
LEMMA LastPosition ==
  ASSUME NEW k \in Nat
  PROVE  1..(k + 1) # {} /\ Max(1..(k + 1)) = k + 1 /\ (1..(k + 1)) \ {k + 1} = 1..k
<1> DEFINE s == 1..(k + 1)
<1>1. k + 1 \in Nat /\ s \subseteq 1..(k + 1) /\ k + 1 \in s
  OBVIOUS
<1>2. Max(s) \in s /\ \A y \in s : y <= Max(s)
  <2> HIDE DEF s
  <2> QED BY <1>1, MaxElement
<1>3. k + 1 <= Max(s) /\ Max(s) <= k + 1
  BY <1>1, <1>2
<1>4. Max(s) = k + 1
  BY <1>1, <1>2, <1>3
<1>5. (1..(k + 1)) \ {k + 1} = 1..k
  OBVIOUS
<1>6. QED BY <1>1, <1>4, <1>5

\* Induction up to a bound.
LEMMA BoundedInduction ==
  ASSUME NEW n \in Nat, NEW T, 0 \in T, \A k \in 0..(n - 1) : k \in T => k + 1 \in T
  PROVE  n \in T
<1> DEFINE S == {k \in Nat : k <= n => k \in T}
<1>1. 0 \in S
  OBVIOUS
<1>2. ASSUME NEW k \in Nat, k \in S PROVE k + 1 \in S
  <2>1. CASE k + 1 <= n
    <3>1. k \in 0..(n - 1) /\ k <= n
      BY <2>1
    <3>2. QED BY <1>2, <3>1
  <2>2. QED BY <2>1
<1> HIDE DEF S
<1>3. n \in S
  BY <1>1, <1>2, SetInduction
<1>4. QED BY <1>3 DEF S

\* A function that folds with G as long as the results stay in A: what is known of the one
\* that FoldLeft chooses.
FoldsIn(g, A, base, seq, G) ==
  /\ g[{}] = base
  /\ \A s \in SUBSET (DOMAIN seq) :
       s # {} /\ g[s \ {Max(s)}] \in A => g[s] = G[<<g[s \ {Max(s)}], seq[Max(s)]>>]

\* The results of a fold after each number of elements.
Partial(part, base, seq, G) ==
  /\ part[0] = base
  /\ \A k \in 0..(Len(seq) - 1) : part[k + 1] = G[<<part[k], seq[k + 1]>>]

\* The fold by g has such results, all in A.
HasParts(g, A, base, seq, G) ==
  \E part \in [0..Len(seq) -> A] :
    Partial(part, base, seq, G) /\ g[DOMAIN seq] = part[Len(seq)]

\* It has.
LEMMA FoldParts ==
  ASSUME NEW A, NEW E, NEW base \in A, NEW seq \in Seq(E), NEW G \in [A \X E -> A], NEW g,
         FoldsIn(g, A, base, seq, G)
  PROVE  HasParts(g, A, base, seq, G)
<1> DEFINE part == [k \in 0..Len(seq) |-> g[1..k]]
           T == {k \in 0..Len(seq) : g[1..k] \in A}
<1>1. DOMAIN seq = 1..Len(seq) /\ Len(seq) \in Nat
  OBVIOUS
<1>2. g[1..0] = base
  <2>1. 1..0 = {}
    OBVIOUS
  <2>2. QED BY <2>1 DEF FoldsIn
<1>3. ASSUME NEW k \in 0..(Len(seq) - 1), g[1..k] \in A
      PROVE  g[1..(k + 1)] = G[<<g[1..k], seq[k + 1]>>] /\ g[1..(k + 1)] \in A
  <2>1. k \in Nat /\ 1..(k + 1) \in SUBSET (DOMAIN seq) /\ seq[k + 1] \in E
    BY <1>1
  <2>2. 1..(k + 1) # {} /\ Max(1..(k + 1)) = k + 1 /\ (1..(k + 1)) \ {k + 1} = 1..k
    BY <2>1, LastPosition
  <2>3. g[1..(k + 1)] = G[<<g[1..k], seq[k + 1]>>]
    BY <1>3, <2>1, <2>2 DEF FoldsIn
  <2>4. QED BY <1>3, <2>1, <2>3
<1>4. 0 \in T /\ \A k \in 0..(Len(seq) - 1) : k \in T => k + 1 \in T
  <2>1. 0 \in T
    BY <1>1, <1>2
  <2>2. ASSUME NEW k \in 0..(Len(seq) - 1), k \in T PROVE k + 1 \in T
    <3>1. k + 1 \in 0..Len(seq)
      BY <1>1
    <3>2. QED BY <1>3, <2>2, <3>1
  <2>3. QED BY <2>1, <2>2
<1> HIDE DEF T
<1>5. ASSUME NEW n \in 0..Len(seq) PROVE n \in T
  <2>1. n \in Nat /\ \A k \in 0..(n - 1) : k \in 0..(Len(seq) - 1)
    BY <1>1
  <2>2. QED BY <1>4, <2>1, BoundedInduction
<1>6. \A k \in 0..Len(seq) : g[1..k] \in A
  BY <1>5 DEF T
<1>7. part \in [0..Len(seq) -> A]
  BY <1>6
<1>8. part[0] = base
  BY <1>1, <1>2
<1>9. ASSUME NEW k \in 0..(Len(seq) - 1) PROVE part[k + 1] = G[<<part[k], seq[k + 1]>>]
  <2>1. k \in 0..Len(seq) /\ k + 1 \in 0..Len(seq)
    BY <1>1
  <2>2. QED BY <1>3, <1>6, <2>1
<1>10. g[DOMAIN seq] = part[Len(seq)]
  BY <1>1
<1> HIDE DEF part
<1>11. QED BY <1>7, <1>8, <1>9, <1>10 DEF Partial, HasParts
=============================================================================
