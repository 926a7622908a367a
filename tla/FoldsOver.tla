----------------------------- MODULE FoldsOver -----------------------------
(***************************************************************************)
(* What a fold from the left of an operator computes, element by element,    *)
(* and induction over the natural numbers for sets.  A module that folds an   *)
(* operator takes the theorems with INSTANCE FoldsOver WITH Op <- ..., Base    *)
(* <- ... .                                                                  *)
(***************************************************************************)
EXTENDS SequencesExt, WellFoundedInduction, SequenceTheorems, TLAPS

CONSTANTS Op(_, _), Base

Folded(s) == FoldLeft(Op, Base, s)

\* Induction: a set that has 0 and with n also n + 1 has every natural number.
LEMMA InductionOn ==
    ASSUME NEW S, 0 \in S, \A n \in Nat : n \in S => n + 1 \in S
    PROVE  \A n \in Nat : n \in S
<1> DEFINE T == Nat \ S
<1>1. SUFFICES ASSUME T # {} PROVE FALSE
  OBVIOUS
<1>2. PICK x \in T : \A y \in T : ~ (<<y, x>> \in OpToRel(<, Nat))
  <2>1. IsWellFoundedOn(OpToRel(<, Nat), Nat)
    BY NatLessThanWellFounded
  <2>2. T \subseteq Nat
    OBVIOUS
  <2> HIDE DEF T
  <2>3. QED BY ONLY <1>1, <2>1, <2>2, WFMin
<1>3. x - 1 \in Nat /\ x = (x - 1) + 1
  OBVIOUS
<1>4. x - 1 \in T
  BY <1>3
<1>5. <<x - 1, x>> \in OpToRel(<, Nat)
  BY <1>3 DEF OpToRel
<1>6. QED BY <1>2, <1>4, <1>5

\* The greatest of the numbers up to k + 1 is k + 1, if it is there.
LEMMA MaxIsTop ==
    ASSUME NEW k \in Nat, NEW T \in SUBSET (1..(k + 1)), k + 1 \in T
    PROVE  Max(T) = k + 1
<1>1. \A y \in T : k + 1 >= y
  OBVIOUS
<1>2. Max(T) \in T /\ \A y \in T : Max(T) >= y
  BY <1>1 DEF Max
<1>3. PICK m : m = Max(T)
  OBVIOUS
<1>4. m \in T /\ \A y \in T : m >= y
  BY <1>2, <1>3, Zenon
<1>5. m \in Nat /\ m >= k + 1 /\ m <= k + 1
  BY <1>4
<1>6. m = k + 1
  BY <1>5
<1>7. QED BY <1>3, <1>6

\* What the fold over the first k elements calls an iteration.
IsIteration(h, s, k) ==
    h = [T \in SUBSET (1..k) |->
            IF T = {} THEN Base ELSE Op(h[T \ {Max(T)}], s[Max(T)])]

\* An iteration over k elements goes on to one over k + 1.
LEMMA IterationExtends ==
    ASSUME NEW s, NEW k \in Nat, NEW h, IsIteration(h, s, k)
    PROVE  \E g : IsIteration(g, s, k + 1)
<1> DEFINE g == [T \in SUBSET (1..(k + 1)) |->
                    IF k + 1 \in T THEN Op(h[T \ {k + 1}], s[k + 1]) ELSE h[T]]
           G(T) == IF T = {} THEN Base ELSE Op(g[T \ {Max(T)}], s[Max(T)])
<1>1. ASSUME NEW T \in SUBSET (1..(k + 1)) PROVE g[T] = G(T)
  <2>1. CASE k + 1 \in T
    <3>1. Max(T) = k + 1
      BY <2>1, MaxIsTop
    <3>2. T \ {k + 1} \in SUBSET (1..(k + 1)) /\ k + 1 \notin T \ {k + 1}
      OBVIOUS
    <3>3. g[T \ {k + 1}] = h[T \ {k + 1}]
      BY <3>2
    <3>4. g[T] = Op(h[T \ {k + 1}], s[k + 1])
      BY <2>1
    <3>5. T # {}
      BY <2>1
    <3> HIDE DEF g
    <3>6. QED BY <3>1, <3>3, <3>4, <3>5
  <2>2. CASE k + 1 \notin T
    <3>1. T \in SUBSET (1..k)
      BY <2>2
    <3>2. h[T] = IF T = {} THEN Base ELSE Op(h[T \ {Max(T)}], s[Max(T)])
      BY <3>1 DEF IsIteration
    <3>3. g[T] = h[T]
      BY <2>2
    <3>4. g[T \ {Max(T)}] = h[T \ {Max(T)}]
      <4>1. T \ {Max(T)} \in SUBSET (1..(k + 1)) /\ k + 1 \notin T \ {Max(T)}
        BY <2>2
      <4>2. QED BY <4>1
    <3> HIDE DEF g
    <3>5. QED BY <3>2, <3>3, <3>4
  <2>3. QED BY <2>1, <2>2
<1>2. g = [T \in SUBSET (1..(k + 1)) |-> G(T)]
  <2>1. g = [T \in SUBSET (1..(k + 1)) |-> g[T]]
    OBVIOUS
  <2> HIDE DEF g, G
  <2>2. QED BY <1>1, <2>1
<1> HIDE DEF g
<1>3. QED BY <1>2 DEF IsIteration

\* There is an iteration over any number of elements.
LEMMA IterationExists ==
    ASSUME NEW s
    PROVE  \A k \in Nat : \E h : IsIteration(h, s, k)
<1> DEFINE S == {k \in Nat : \E h : IsIteration(h, s, k)}
<1>1. 0 \in S
  <2> DEFINE h == [T \in SUBSET (1..0) |-> Base]
  <2>1. SUBSET (1..0) = {{}}
    OBVIOUS
  <2>2. h = [T \in SUBSET (1..0) |->
               IF T = {} THEN Base ELSE Op(h[T \ {Max(T)}], s[Max(T)])]
    BY <2>1
  <2>3. IsIteration(h, s, 0)
    BY <2>2 DEF IsIteration
  <2>4. QED BY <2>3
<1>2. \A n \in Nat : n \in S => n + 1 \in S
  BY IterationExtends
<1> HIDE DEF S
<1>3. \A n \in Nat : n \in S
  BY <1>1, <1>2, InductionOn
<1>4. QED BY <1>3 DEF S

\* The fold as the library defines it is an iteration over all of its elements.
LEMMA FoldedIterates ==
    ASSUME NEW S, NEW s \in Seq(S)
    PROVE  \E h : IsIteration(h, s, Len(s)) /\ Folded(s) = h[1..Len(s)]
<1> DEFINE I(h) == h = [T \in SUBSET (1..Len(s)) |->
                           IF T = {} THEN Base ELSE Op(h[T \ {Max(T)}], s[Max(T)])]
           iter == CHOOSE h : I(h)
<1>1. DOMAIN s = 1..Len(s) /\ Len(s) \in Nat
  OBVIOUS
<1>2. Folded(s) = iter[1..Len(s)]
  BY <1>1 DEF Folded, FoldLeft, MapThenFoldSet
<1>3. \E h : I(h)
  BY <1>1, IterationExists DEF IsIteration
<1>4. I(iter)
  <2> HIDE DEF I
  <2>1. QED BY <1>3
<1> HIDE DEF iter
<1>5. QED BY <1>2, <1>4 DEF IsIteration

\* The values a fold goes through: the base, then one operation for every element.
LEMMA FoldTrace ==
    ASSUME NEW S, NEW s \in Seq(S)
    PROVE  \E g : /\ g[0] = Base
                  /\ \A k \in 0..(Len(s) - 1) : g[k + 1] = Op(g[k], s[k + 1])
                  /\ Folded(s) = g[Len(s)]
<1>1. PICK h : IsIteration(h, s, Len(s)) /\ Folded(s) = h[1..Len(s)]
  BY FoldedIterates
<1> DEFINE g == [k \in 0..Len(s) |-> h[1..k]]
<1>2. Len(s) \in Nat
  OBVIOUS
<1>3. g[0] = Base
  <2>1. 1..0 = {} /\ 0 \in 0..Len(s)
    BY <1>2
  <2>2. h[{}] = Base
    BY <1>1 DEF IsIteration
  <2>3. QED BY <2>1, <2>2
<1>4. ASSUME NEW k \in 0..(Len(s) - 1) PROVE g[k + 1] = Op(g[k], s[k + 1])
  <2>1. k \in Nat /\ k \in 0..Len(s) /\ k + 1 \in 0..Len(s)
    BY <1>2
  <2>2. Max(1..(k + 1)) = k + 1
    BY <2>1, MaxIsTop
  <2>3. (1..(k + 1)) \ {k + 1} = 1..k
    BY <2>1
  <2>3a. k + 1 \in 1..(k + 1)
    BY <2>1
  <2>3b. \A x \in 1..(k + 1) : x \in 1..Len(s)
    BY <1>2, <2>1
  <2>4. h[1..(k + 1)] = Op(h[1..k], s[k + 1])
    BY <1>1, <2>2, <2>3, <2>3a, <2>3b DEF IsIteration
  <2>5. QED BY <2>1, <2>4
<1>5. Folded(s) = g[Len(s)]
  BY <1>1, <1>2
<1> HIDE DEF g
<1>6. QED BY <1>3, <1>4, <1>5

\* Whatever goes through the same values ends with the same one.
LEMMA FoldIs ==
    ASSUME NEW S, NEW s \in Seq(S), NEW g, g[0] = Base,
           \A k \in 0..(Len(s) - 1) : g[k + 1] = Op(g[k], s[k + 1])
    PROVE  Folded(s) = g[Len(s)]
<1>1. PICK f : /\ f[0] = Base
               /\ \A k \in 0..(Len(s) - 1) : f[k + 1] = Op(f[k], s[k + 1])
               /\ Folded(s) = f[Len(s)]
  BY FoldTrace
<1> DEFINE N == {k \in Nat : k <= Len(s) => f[k] = g[k]}
<1>2. 0 \in N
  BY <1>1
<1>3. \A n \in Nat : n \in N => n + 1 \in N
  BY <1>1
<1> HIDE DEF N
<1>4. \A n \in Nat : n \in N
  BY <1>2, <1>3, InductionOn
<1>5. QED BY <1>1, <1>4 DEF N

\* A fold over nothing is its base.
LEMMA FoldEmpty == Folded(<<>>) = Base
<1>1. <<>> \in Seq({}) /\ Len(<<>>) = 0
  OBVIOUS
<1>2. QED BY <1>1, FoldTrace

\* An element more at the end is one operation more.
LEMMA FoldAppend ==
    ASSUME NEW S, NEW s \in Seq(S), NEW e \in S
    PROVE  Folded(Append(s, e)) = Op(Folded(s), e)
<1> DEFINE t == Append(s, e)
<1>1. t \in Seq(S) /\ Len(t) = Len(s) + 1 /\ Len(s) \in Nat /\ t[Len(s) + 1] = e
  OBVIOUS
<1>1a. \A k \in 1..Len(s) : t[k] = s[k]
  OBVIOUS
<1> HIDE DEF t
<1>2. PICK f : /\ f[0] = Base
               /\ \A k \in 0..(Len(t) - 1) : f[k + 1] = Op(f[k], t[k + 1])
               /\ Folded(t) = f[Len(t)]
  BY <1>1, FoldTrace
<1>3. \A k \in 0..(Len(s) - 1) : f[k + 1] = Op(f[k], s[k + 1])
  BY <1>1, <1>1a, <1>2, SMTT(30)
<1>4. Folded(s) = f[Len(s)]
  BY <1>2, <1>3, FoldIs
<1>5. Folded(t) = Op(f[Len(s)], e)
  BY <1>1, <1>2
<1>6. QED BY <1>4, <1>5 DEF t
=============================================================================
