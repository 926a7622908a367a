-------------------------- MODULE DecisionsProofs --------------------------
(***************************************************************************)
(* Decisions that are right for every question, however many packages,       *)
(* dependencies, plugins, paths, refs or files there are, and however long    *)
(* every text is: the build order of a lockfile, the manifest that a lockfile *)
(* fits, the identity of a build, the type of a frame, the plan that activates*)
(* results, the commit that a ref names, what becomes a builder request, and  *)
(* which answers to a host planning request are believed.                     *)
(***************************************************************************)
EXTENDS Decisions, SequenceTheorems, FiniteSetTheorems, TLAPS

-----------------------------------------------------------------------------
(* The search of BuildGraph *)

\* Append adds one element, at the end.
LEMMA Appended ==
  ASSUME NEW S, NEW s \in Seq(S), NEW x \in S
  PROVE  /\ Append(s, x) \in Seq(S)
         /\ Len(s) \in Nat /\ DOMAIN s = 1..Len(s)
         /\ DOMAIN Append(s, x) = 1..(Len(s) + 1)
         /\ Len(Append(s, x)) = Len(s) + 1
         /\ \A i \in 1..Len(s) : Append(s, x)[i] = s[i]
         /\ Append(s, x)[Len(s) + 1] = x
         /\ Elements(Append(s, x)) = Elements(s) \cup {x}
<1>1. /\ Append(s, x) \in Seq(S)
      /\ Len(s) \in Nat /\ DOMAIN s = 1..Len(s)
      /\ DOMAIN Append(s, x) = 1..(Len(s) + 1)
      /\ Len(Append(s, x)) = Len(s) + 1
      /\ \A i \in 1..Len(s) : Append(s, x)[i] = s[i]
      /\ Append(s, x)[Len(s) + 1] = x
  OBVIOUS
<1>2. Elements(Append(s, x)) = Elements(s) \cup {x}
  BY <1>1 DEF Elements
<1>3. QED
  BY <1>1, <1>2

\* What is left of a sequence without its last element.
LEMMA Popped ==
  ASSUME NEW S, NEW s \in Seq(S), s # <<>>
  PROVE  LET t == SubSeq(s, 1, Len(s) - 1) IN
         /\ t \in Seq(S) /\ Len(t) = Len(s) - 1
         /\ Len(s) \in Nat \ {0} /\ DOMAIN s = 1..Len(s)
         /\ DOMAIN t = 1..(Len(s) - 1)
         /\ \A i \in DOMAIN t : t[i] = s[i]
<1> DEFINE t == SubSeq(s, 1, Len(s) - 1)
<1>1. Len(s) \in Nat \ {0} /\ DOMAIN s = 1..Len(s)
  BY EmptySeq, LenProperties
<1>2. \A i \in 1..(Len(s) - 1) : s[i] \in S
  BY <1>1
<1>3. /\ t \in Seq(S)
      /\ Len(t) = IF 1 <= Len(s) - 1 THEN Len(s) - 1 - 1 + 1 ELSE 0
      /\ \A i \in 1..(Len(s) - 1 - 1 + 1) : t[i] = s[1 + i - 1]
  BY <1>1, <1>2, SubSeqProperties
<1>4. Len(t) = Len(s) - 1
  BY <1>1, <1>3
<1>5. DOMAIN t = 1..(Len(s) - 1)
  BY <1>3, <1>4, LenProperties
<1>6. \A i \in DOMAIN t : t[i] = s[i]
  BY <1>1, <1>3, <1>5
<1>7. QED
  BY <1>1, <1>3, <1>4, <1>5, <1>6

-----------------------------------------------------------------------------
\* Before the search nothing is visited.
LEMMA InitIInv == Init => IInv
<1>1. SUFFICES ASSUME Init PROVE IInv
  OBVIOUS
<1>2. TypeOK
  BY <1>1 DEF Init, TypeOK
<1>3. Elements(stack) = {} /\ Elements(order) = {} /\ DOMAIN stack = {} /\ Len(stack) = 0
      /\ DOMAIN order = {}
  BY <1>1 DEF Init, Elements
<1>4. Search
  BY <1>1, <1>3 DEF Init, Search
<1>5. DependenciesFirst
  BY <1>3 DEF DependenciesFirst
<1>6. Loaded /\ OrderIsWhatRootsNeed /\ CycleIsReal
  BY <1>1 DEF Init, Loaded, OrderIsWhatRootsNeed, CycleIsReal
<1>7. QED
  BY <1>2, <1>4, <1>5, <1>6 DEF IInv

\* A list without repetition is as long as the set of its elements.
LEMMA LengthIsSize ==
  ASSUME NEW S, NEW s \in Seq(S), IsInjective(s)
  PROVE  IsFiniteSet(Range(s)) /\ Cardinality(Range(s)) = Len(s)
<1>1. Len(s) \in Nat /\ DOMAIN s = 1..Len(s) /\ s \in [1..Len(s) -> Range(s)]
  BY DEF Range
<1>2. s \in Bijection(1..Len(s), Range(s))
  BY <1>1 DEF Range, Bijection, Injection, Surjection, IsInjective
<1>3. ExistsBijection(1..Len(s), Range(s))
  BY <1>2 DEF ExistsBijection
<1>4. QED BY <1>1, <1>3, FS_NatBijection, FS_CountingElements

\* The stack has room for a package that is not on it: it is a path without repetition.
LEMMA RoomLeft ==
  ASSUME IInv, NEW p \in Package \ temporary
  PROVE  Len(stack) < StackRoom
<1>1. stack \in Seq(Package) /\ temporary = Range(stack) /\ temporary \subseteq Package
  BY DEF IInv, TypeOK, Search, Elements, Range
<1>2. IsInjective(stack)
  BY DEF IInv, Search, IsInjective
<1>3. IsFiniteSet(temporary) /\ Cardinality(temporary) = Len(stack)
  BY <1>1, <1>2, LengthIsSize
<1>4. Cardinality(temporary \cup {p}) = Cardinality(temporary) + 1
  BY <1>3, FS_AddElement
<1>5. Cardinality(temporary \cup {p}) <= Cardinality(Package)
  BY <1>1, PackageAssumption, FS_Subset
<1>6. Len(stack) \in Nat /\ Cardinality(Package) \in Nat
  BY <1>1, PackageAssumption, FS_CardinalityType
<1> QED
  BY <1>3, <1>4, <1>5, <1>6, RoomAssumption

\* Entering a needed package that is on neither set keeps the invariant.
LEMMA EnterStep ==
  ASSUME IInv, NEW p \in Package, outcome = "visit", Enter(p),
         p \notin permanent, p \notin temporary,
         stack # <<>> => p \in deps[Top],
         \A set \in SUBSET Package : Needed(set) => p \in set
  PROVE  IInv'
<1>1. TypeOK /\ Search
  BY DEF IInv
<1>2. stack \in Seq(Package)
  BY <1>1 DEF TypeOK
<1>3. /\ stack' \in Seq(Package)
      /\ Len(stack) \in Nat /\ DOMAIN stack = 1..Len(stack)
      /\ DOMAIN stack' = 1..(Len(stack) + 1)
      /\ Len(stack') = Len(stack) + 1
      /\ \A i \in 1..Len(stack) : stack'[i] = stack[i]
      /\ stack'[Len(stack) + 1] = p
      /\ Elements(stack)' = Elements(stack) \cup {p}
  BY <1>2, Appended DEF Enter, Elements
<1>4. UNCHANGED <<lock, permanent, order, cycle, outcome>>
  BY RoomLeft DEF Enter
<1>5. TypeOK'
  BY <1>1, <1>3, <1>4 DEF TypeOK, Enter, lock
<1>6. Search'
  <2>1. permanent' = Elements(order)' /\ temporary' = Elements(stack)'
    BY <1>1, <1>3, <1>4 DEF Search, Enter, Elements
  <2>2. \A i \in 1..Len(stack) : stack[i] # p
    BY <1>1, <1>3 DEF Search, Elements
  <2>3. \A i, j \in DOMAIN stack' : stack'[i] = stack'[j] => i = j
    BY <1>1, <1>3, <2>2 DEF Search
  <2>4. \A i \in 1..(Len(stack') - 1) : stack'[i + 1] \in deps'[stack'[i]]
    <3>1. SUFFICES ASSUME NEW i \in 1..Len(stack)
                   PROVE  stack'[i + 1] \in deps[stack'[i]]
      BY <1>3, <1>4 DEF lock
    <3>2. CASE i = Len(stack)
      <4>1. stack # <<>>
        BY <1>2, <1>3, <3>1, <3>2, EmptySeq
      <4>2. QED
        BY <1>3, <3>2, <4>1 DEF Top
    <3>3. CASE i # Len(stack)
      <4>1. Len(stack) \in Nat
        BY <1>3
      <4>2. i \in 1..(Len(stack) - 1) /\ i + 1 \in 1..Len(stack)
        BY <3>1, <3>3, <4>1
      <4>3. QED
        BY <1>1, <1>3, <4>2 DEF Search
    <3>4. QED
      BY <3>2, <3>3
  <2>5. \A set \in SUBSET Package : Needed(set)' => permanent' \cup temporary' \subseteq set
    BY <1>1, <1>4 DEF Search, Enter, Needed, lock
  <2>6. QED
    BY <2>1, <2>3, <2>4, <2>5 DEF Search
<1>7. (Loaded /\ DependenciesFirst /\ OrderIsWhatRootsNeed /\ CycleIsReal)'
  BY <1>4 DEF IInv, Loaded, Known, DependenciesFirst, OrderIsWhatRootsNeed, CycleIsReal, lock
<1>8. QED
  BY <1>5, <1>6, <1>7 DEF IInv

\* What the package on top of the stack depends on is needed.
LEMMA TopIsNeeded ==
  ASSUME IInv, stack # <<>>
  PROVE  /\ Top \in temporary /\ DependenciesOf(Top) = deps[Top]
         /\ \A set \in SUBSET Package : Needed(set) => deps[Top] \subseteq set
<1>1. stack \in Seq(Package) /\ temporary \subseteq Package /\ Search
  BY DEF IInv, TypeOK
<1>2. Len(stack) \in DOMAIN stack
  BY <1>1, EmptySeq, LenProperties
<1>3. Top \in temporary
  BY <1>1, <1>2 DEF Search, Elements, Top
<1>4. ASSUME NEW set \in SUBSET Package, Needed(set)
      PROVE  deps[Top] \subseteq set
  BY <1>1, <1>3, <1>4 DEF Search, Needed
<1>5. DependenciesOf(Top) = deps[Top]
  BY <1>1, <1>3 DEF DependenciesOf
<1>6. QED
  BY <1>3, <1>4, <1>5

\* What the search knows depends on the lockfile and the search only.
LEMMA SearchFrame ==
  ASSUME Search, UNCHANGED <<lock, search>>
  PROVE  Search'
<1>1. /\ roots' = roots /\ deps' = deps /\ permanent' = permanent
      /\ temporary' = temporary /\ stack' = stack /\ order' = order
  BY DEF lock, search
<1>2. Elements(order)' = Elements(order) /\ Elements(stack)' = Elements(stack)
  BY <1>1 DEF Elements
<1>3. \A set \in SUBSET Package : Needed(set)' = Needed(set)
  BY <1>1 DEF Needed
<1>4. QED
  BY <1>1, <1>2, <1>3 DEF Search

\* The visit of a root from build_order keeps the invariant.
LEMMA VisitRootStep ==
  ASSUME IInv, NEW p \in Name, VisitRoot(p)
  PROVE  IInv' /\ p \in Package
<1>1. /\ outcome = "visit" /\ stack = <<>> /\ p \in roots \ permanent /\ Enter(p)
      /\ p \in Package
  BY DEF VisitRoot, NextOf, IInv, Loaded, Known
<1>2. temporary = {}
  BY <1>1 DEF IInv, Search, Elements
<1>3. \A set \in SUBSET Package : Needed(set) => p \in set
  BY <1>1 DEF Needed
<1>4. QED
  BY <1>1, <1>2, <1>3, EnterStep

\* So does the visit of a dependency: entered, or found on the stack and reported.
LEMMA VisitDependencyStep ==
  ASSUME IInv, NEW p \in Name, VisitDependency(p)
  PROVE  IInv' /\ p \in Package
<1>1. /\ outcome = "visit" /\ stack # <<>> /\ p \in deps[Top] \ permanent
      /\ p \in Package
  BY TopIsNeeded DEF VisitDependency, NextOf, IInv, TypeOK, Loaded, Known
<1>2. \A set \in SUBSET Package : Needed(set) => p \in set
  BY <1>1, TopIsNeeded
<1>3. CASE p \notin temporary
  BY <1>1, <1>2, <1>3, EnterStep DEF VisitDependency
<1>4. CASE p \in temporary
  <2>1. PICK i \in DOMAIN stack :
          stack[i] = p /\ cycle' = Append(SubSeq(stack, i, Len(stack)), p)
    BY <1>4 DEF VisitDependency, Report
  <2>2. outcome' = "cycle" /\ UNCHANGED <<lock, search>>
    BY <1>4 DEF VisitDependency, Report
  <2>3. stack \in Seq(Package) /\ TypeOK /\ Search
    BY DEF IInv, TypeOK
  <2>4. /\ Len(stack) \in Nat /\ DOMAIN stack = 1..Len(stack)
        /\ i \in 1..Len(stack)
        /\ \A j \in 1..Len(stack) : stack[j] \in Package
    BY <2>1, <2>3, LenProperties
  <2> DEFINE tail == SubSeq(stack, i, Len(stack))
             n == Len(stack) - i + 1
  <2>5. /\ tail \in Seq(Package) /\ Len(tail) = n /\ n \in Nat \ {0}
        /\ \A j \in 1..n : tail[j] = stack[i + j - 1]
    <3>1. \A j \in i..Len(stack) : stack[j] \in Package
      BY <2>4
    <3>2. /\ tail \in Seq(Package)
          /\ Len(tail) = IF i <= Len(stack) THEN Len(stack) - i + 1 ELSE 0
          /\ \A j \in 1..(Len(stack) - i + 1) : tail[j] = stack[i + j - 1]
      BY <2>4, <3>1, SubSeqProperties
    <3>3. QED
      BY <2>4, <3>2
  <2> HIDE DEF tail
  <2>6. cycle' = Append(tail, p)
    BY <2>1 DEF tail
  <2>7. /\ cycle' \in Seq(Package) /\ Len(cycle') = n + 1
        /\ \A j \in 1..n : cycle'[j] = stack[i + j - 1]
        /\ cycle'[n + 1] = p
        /\ Elements(cycle)' = Elements(tail) \cup {p}
    <3>1. /\ Append(tail, p) \in Seq(Package)
          /\ Len(Append(tail, p)) = Len(tail) + 1
          /\ \A j \in 1..Len(tail) : Append(tail, p)[j] = tail[j]
          /\ Append(tail, p)[Len(tail) + 1] = p
          /\ Elements(Append(tail, p)) = Elements(tail) \cup {p}
      <4>1. tail \in Seq(Package) /\ p \in Package
        BY <1>1, <2>5
      <4>2. QED BY ONLY <4>1, Appended
    <3>2. Elements(cycle)' = Elements(tail) \cup {p}
      BY <2>6, <3>1 DEF Elements
    <3>3. Len(cycle') = n + 1 /\ cycle'[n + 1] = p
      BY <2>5, <2>6, <3>1
    <3>4. QED
      BY <2>5, <2>6, <3>1, <3>2, <3>3
  <2>8. Elements(tail) \subseteq temporary
    <3>1. DOMAIN tail = 1..n
      BY <2>5, LenProperties
    <3>2. \A j \in 1..n : i + j - 1 \in DOMAIN stack
      BY <2>4
    <3>3. QED
      BY <2>3, <2>5, <3>1, <3>2 DEF Elements, Search
  <2>9. Elements(cycle)' \subseteq temporary
    BY <1>4, <2>7, <2>8
  <2>10. cycle'[1] = p
    BY <2>1, <2>4, <2>5, <2>7
  <2>11. \A j \in 1..n : cycle'[j + 1] \in deps[cycle'[j]]
    <3>1. SUFFICES ASSUME NEW j \in 1..n PROVE cycle'[j + 1] \in deps[cycle'[j]]
      OBVIOUS
    <3>2. CASE j = n
      <4>1. cycle'[j] = Top
        BY <2>4, <2>5, <2>7, <3>2 DEF Top
      <4>2. QED
        BY <1>1, <2>7, <3>2, <4>1
    <3>3. CASE j # n
      <4>1. /\ j + 1 \in 1..n /\ i + j - 1 \in 1..(Len(stack) - 1)
            /\ i + (j + 1) - 1 = (i + j - 1) + 1
        BY ONLY <2>4, <2>5, <3>1, <3>3
      <4>1a. \A k \in 1..n : cycle'[k] = stack[i + k - 1]
        BY <2>7
      <4>2. cycle'[j + 1] = stack[(i + j - 1) + 1] /\ cycle'[j] = stack[i + j - 1]
        <5>1. cycle'[j + 1] = stack[i + (j + 1) - 1]
          BY ONLY <4>1, <4>1a
        <5>2. cycle'[j] = stack[i + j - 1]
          BY ONLY <3>1, <4>1a
        <5>3. QED BY ONLY <4>1, <5>1, <5>2, Zenon
      <4>3. QED
        BY <2>3, <4>1, <4>2 DEF Search
    <3>4. QED
      BY <3>2, <3>3
  <2>12. CycleIsReal'
    <3>1. \A set \in SUBSET Package : Needed(set)' => Elements(cycle)' \subseteq set
      BY <2>2, <2>3, <2>9 DEF Search, Needed, lock
    <3>2. Len(cycle') > 1 /\ cycle'[1] = cycle'[Len(cycle')]
      BY <2>5, <2>7, <2>10
    <3>3. \A j \in 1..(Len(cycle') - 1) : cycle'[j + 1] \in deps'[cycle'[j]]
      BY <2>2, <2>5, <2>7, <2>11 DEF lock
    <3>4. QED
      BY <3>1, <3>2, <3>3 DEF CycleIsReal
  <2>13. TypeOK'
    BY <2>2, <2>3, <2>7 DEF TypeOK, lock, search
  <2>14. Search'
    BY <2>2, <2>3, SearchFrame
  <2>15. Loaded' /\ DependenciesFirst' /\ OrderIsWhatRootsNeed'
    BY <2>2 DEF IInv, Loaded, DependenciesFirst, OrderIsWhatRootsNeed, lock, search
  <2>16. QED
    BY <1>1, <2>12, <2>13, <2>14, <2>15 DEF IInv
<1>5. QED
  BY <1>1, <1>3, <1>4

\* So does the return of a visit, after those of all dependencies.
LEMMA ReturnStep ==
  ASSUME IInv, Return
  PROVE  IInv'
<1>1. TypeOK /\ Search /\ stack \in Seq(Package) /\ order \in Seq(Package)
  BY DEF IInv, TypeOK
<1>2. /\ outcome = "visit" /\ stack # <<>> /\ deps[Top] \subseteq permanent
      /\ stack' = SubSeq(stack, 1, Len(stack) - 1)
      /\ temporary' = temporary \ {Top} /\ permanent' = permanent \cup {Top}
      /\ order' = Append(order, Top) /\ UNCHANGED <<lock, cycle, outcome>>
  BY TopIsNeeded DEF Return
<1>3. /\ stack' \in Seq(Package) /\ Len(stack') = Len(stack) - 1
      /\ Len(stack) \in Nat \ {0} /\ DOMAIN stack = 1..Len(stack)
      /\ DOMAIN stack' = 1..(Len(stack) - 1)
      /\ \A i \in DOMAIN stack' : stack'[i] = stack[i]
  <2>1. stack \in Seq(Package) /\ stack # <<>>
    BY <1>1, <1>2
  <2>2. stack' = SubSeq(stack, 1, Len(stack) - 1)
    BY <1>2
  <2>3. QED
    BY <2>1, <2>2, Popped, Zenon
<1>4. Top \in temporary /\ Top \in Package /\ Top \notin permanent
  BY <1>1, <1>2, TopIsNeeded DEF TypeOK
<1>5. /\ order' \in Seq(Package)
      /\ Len(order) \in Nat /\ DOMAIN order = 1..Len(order)
      /\ DOMAIN order' = 1..(Len(order) + 1)
      /\ \A i \in 1..Len(order) : order'[i] = order[i]
      /\ order'[Len(order) + 1] = Top
      /\ Elements(order)' = Elements(order) \cup {Top}
  <2>1. /\ Append(order, Top) \in Seq(Package)
        /\ Len(order) \in Nat /\ DOMAIN order = 1..Len(order)
        /\ DOMAIN Append(order, Top) = 1..(Len(order) + 1)
        /\ \A i \in 1..Len(order) : Append(order, Top)[i] = order[i]
        /\ Append(order, Top)[Len(order) + 1] = Top
        /\ Elements(Append(order, Top)) = Elements(order) \cup {Top}
    BY <1>1, <1>4, Appended
  <2>2. Elements(order)' = Elements(Append(order, Top))
    BY <1>2 DEF Elements
  <2>3. QED
    BY <1>2, <2>1, <2>2
<1>6. TypeOK'
  BY <1>1, <1>2, <1>3, <1>4, <1>5 DEF TypeOK, lock
<1>7. Search'
  <2>1. permanent' = Elements(order)'
    BY <1>1, <1>2, <1>5 DEF Search
  <2>2. temporary' = Elements(stack)'
    <3>1. \A i \in DOMAIN stack' : i \in DOMAIN stack /\ i # Len(stack)
      BY <1>3
    <3>2. \A i \in DOMAIN stack : i = Len(stack) \/ i \in DOMAIN stack'
      BY <1>3
    <3>3. Len(stack) \in DOMAIN stack
      BY <1>3
    <3>4. \A i \in DOMAIN stack' : stack[i] # Top
      BY <1>1, <3>1, <3>3 DEF Search, Top
    <3>5. Elements(stack)' = Elements(stack) \ {Top}
      BY <1>3, <3>1, <3>2, <3>4 DEF Elements, Top
    <3>6. QED
      BY <1>1, <1>2, <3>5 DEF Search
  <2>3. \A i, j \in DOMAIN stack' : stack'[i] = stack'[j] => i = j
    BY <1>1, <1>3 DEF Search
  <2>4. \A i \in 1..(Len(stack') - 1) : stack'[i + 1] \in deps'[stack'[i]]
    <3>1. SUFFICES ASSUME NEW i \in 1..(Len(stack') - 1)
                   PROVE  stack'[i + 1] \in deps[stack'[i]]
      BY <1>2 DEF lock
    <3>2. i \in DOMAIN stack' /\ i + 1 \in DOMAIN stack' /\ i \in 1..(Len(stack) - 1)
      BY <1>3, <3>1
    <3>3. QED
      BY <1>1, <1>3, <3>2 DEF Search
  <2>5. \A set \in SUBSET Package : Needed(set)' => permanent' \cup temporary' \subseteq set
    BY <1>1, <1>2, <1>4 DEF Search, Needed, lock
  <2>6. QED
    BY <2>1, <2>2, <2>3, <2>4, <2>5 DEF Search
<1>8. DependenciesFirst'
  <2>1. /\ \A i \in DOMAIN order :
             deps[order[i]] \subseteq {order[j] : j \in 1..(i - 1)}
        /\ \A i, j \in DOMAIN order : order[i] = order[j] => i = j
    BY DEF IInv, DependenciesFirst
  <2>2. Elements(order) = permanent
    BY <1>1 DEF Search
  <2>3. ASSUME NEW i \in DOMAIN order'
        PROVE  deps[order'[i]] \subseteq {order'[j] : j \in 1..(i - 1)}
    <3>1. CASE i = Len(order) + 1
      <4>1. {order'[j] : j \in 1..(i - 1)} = Elements(order)
        BY <1>5, <3>1 DEF Elements
      <4>2. QED
        BY <1>2, <1>5, <2>2, <3>1, <4>1
    <3>2. CASE i # Len(order) + 1
      <4>1. i \in DOMAIN order /\ \A j \in 1..(i - 1) : j \in 1..Len(order)
        BY <1>5, <2>3, <3>2
      <4>2. {order'[j] : j \in 1..(i - 1)} = {order[j] : j \in 1..(i - 1)}
        BY <1>5, <4>1
      <4>3. QED
        BY <1>5, <2>1, <4>1, <4>2
    <3>3. QED
      BY <3>1, <3>2
  <2>4. \A i \in DOMAIN order : order[i] # Top
    BY <1>4, <2>2 DEF Elements
  <2>5. \A i, j \in DOMAIN order' : order'[i] = order'[j] => i = j
    BY <1>5, <2>1, <2>4
  <2>6. QED
    BY <1>2, <2>3, <2>5 DEF DependenciesFirst, lock
<1>9. Loaded' /\ OrderIsWhatRootsNeed' /\ CycleIsReal'
  BY <1>2 DEF IInv, Loaded, Known, OrderIsWhatRootsNeed, CycleIsReal, lock
<1>10. QED
  BY <1>6, <1>7, <1>8, <1>9 DEF IInv

\* So does the return of build_order, when all roots have been visited.
LEMMA FinishStep ==
  ASSUME IInv, Finish
  PROVE  IInv'
<1>1. /\ outcome' = "ok" /\ roots \subseteq permanent
      /\ UNCHANGED <<lock, search, cycle>>
  BY DEF Finish
<1>2. TypeOK /\ Search /\ DependenciesFirst
  BY DEF IInv
<1>3. TypeOK' /\ Loaded' /\ Search' /\ DependenciesFirst' /\ CycleIsReal'
  <2>1. TypeOK'
    BY <1>1, <1>2 DEF TypeOK, lock, search
  <2>2. Search'
    BY <1>1, <1>2, SearchFrame
  <2>3. Loaded' /\ DependenciesFirst' /\ CycleIsReal'
    BY <1>1, <1>2 DEF Loaded, DependenciesFirst, CycleIsReal, lock, search
  <2>4. QED
    BY <2>1, <2>2, <2>3
<1>4. Needed(permanent)
  <2>1. ASSUME NEW i \in DOMAIN order
        PROVE  deps[order[i]] \subseteq Elements(order)
    <3>1. order \in Seq(Package) /\ DOMAIN order = 1..Len(order) /\ Len(order) \in Nat
      BY <1>2, LenProperties DEF TypeOK
    <3>2. \A j \in 1..(i - 1) : j \in DOMAIN order
      BY <2>1, <3>1
    <3>3. QED
      BY <1>2, <3>2 DEF DependenciesFirst, Elements
  <2>2. \A p \in permanent : deps[p] \subseteq permanent
    BY <1>2, <2>1 DEF Search, Elements
  <2>3. QED
    BY <1>1, <2>2 DEF Needed
<1>5. OrderIsWhatRootsNeed'
  <2>1. Elements(order)' = permanent /\ UNCHANGED <<lock, permanent>>
    BY <1>1, <1>2 DEF Search, Elements, search
  <2>2. Needed(permanent)'
    BY <1>4, <2>1 DEF Needed, lock
  <2>3. \A set \in SUBSET Package : Needed(set)' => permanent \subseteq set
    BY <1>2, <2>1 DEF Search, Needed, lock
  <2>4. QED
    BY <2>1, <2>2, <2>3 DEF OrderIsWhatRootsNeed, Needed
<1>6. QED
  BY <1>3, <1>5 DEF IInv

\* Every step keeps the invariant.
LEMMA StepIInv == IInv /\ [Next]_vars => IInv'
<1>1. SUFFICES ASSUME IInv, [Next]_vars PROVE IInv'
  OBVIOUS
<1>2. CASE Load
  <2>1. UNCHANGED <<lock, search, cycle>> /\ outcome' \in {"visit", "missing"}
    BY <1>2 DEF Load
  <2>2. TypeOK'
    BY <1>1, <2>1 DEF IInv, TypeOK, lock, search
  <2>3. Search'
    BY <1>1, <2>1, SearchFrame DEF IInv
  <2>4. DependenciesFirst'
    BY <1>1, <2>1 DEF IInv, DependenciesFirst, lock, search
  <2>5. Loaded' /\ OrderIsWhatRootsNeed' /\ CycleIsReal'
    BY <1>2, <2>1 DEF Load, Loaded, Known, OrderIsWhatRootsNeed, CycleIsReal, lock
  <2>6. QED
    BY <2>2, <2>3, <2>4, <2>5 DEF IInv
<1>3. ASSUME NEW p \in Name, VisitRoot(p) PROVE IInv'
  BY <1>1, <1>3, VisitRootStep
<1>4. ASSUME NEW p \in Name, VisitDependency(p) PROVE IInv'
  BY <1>1, <1>4, VisitDependencyStep
<1>5. CASE Return
  BY <1>1, <1>5, ReturnStep
<1>6. CASE Finish
  BY <1>1, <1>6, FinishStep
<1>7. CASE UNCHANGED vars
  <2>1. UNCHANGED <<lock, search, cycle, outcome>>
    BY <1>7 DEF vars
  <2>2. TypeOK'
    BY <1>1, <2>1 DEF IInv, TypeOK, lock, search
  <2>3. Search'
    BY <1>1, <2>1, SearchFrame DEF IInv
  <2>4. DependenciesFirst'
    BY <1>1, <2>1 DEF IInv, DependenciesFirst, lock, search
  <2>5. Loaded' /\ OrderIsWhatRootsNeed' /\ CycleIsReal'
    BY <1>1, <2>1 DEF IInv, Loaded, Known, OrderIsWhatRootsNeed, CycleIsReal, Needed,
                      Elements, lock, search
  <2>6. QED
    BY <2>2, <2>3, <2>4, <2>5 DEF IInv
<1>8. QED
  BY <1>1, <1>2, <1>3, <1>4, <1>5, <1>6, <1>7 DEF Next

-----------------------------------------------------------------------------
\* The invariant holds of every search of every lockfile.
THEOREM SearchInvariant == Spec => []IInv
<1>1. Init => IInv
  BY InitIInv
<1>2. IInv /\ [Next]_vars => IInv'
  BY StepIInv
<1>3. QED
  BY <1>1, <1>2, PTL DEF Spec

\* The build order is dependency-first and builds nothing twice.
THEOREM BuildOrderSound == Spec => []DependenciesFirst
<1>1. IInv => DependenciesFirst
  BY DEF IInv
<1>2. QED
  BY <1>1, SearchInvariant, PTL

\* A returned order is exactly the set of packages that the roots need.
THEOREM BuildOrderComplete == Spec => []OrderIsWhatRootsNeed
<1>1. IInv => OrderIsWhatRootsNeed
  BY DEF IInv
<1>2. QED
  BY <1>1, SearchInvariant, PTL

\* A reported cycle is a cycle, and one among the packages that the roots need.
THEOREM ReportedCycleSound == Spec => []CycleIsReal
<1>1. IInv => CycleIsReal
  BY DEF IInv
<1>2. QED
  BY <1>1, SearchInvariant, PTL

-----------------------------------------------------------------------------
(* The decisions *)

\* The other questions leave the search alone.
LEMMA DecisionStep ==
  ASSUME [DNext]_allVars
  PROVE  [Next]_vars
BY DEF DNext, allVars, Ask, CheckLock, IdentifyBuilds, ReadLine, PlanForHost, RequestBuilder,
       Activate, LockGitSource, FindOrder

\* The search keeps its invariant beside the other decisions.
LEMMA InvariantAmongDecisions == DSpec => []IInv
<1>1. DInit => IInv
  <2>1. NoLockfile => IInv
    <3> SUFFICES ASSUME NoLockfile PROVE IInv
      OBVIOUS
    <3>1. DOMAIN stack = {} /\ DOMAIN order = {} /\ Len(stack) = 0
      BY DEF NoLockfile
    <3>2. TypeOK
      BY DEF NoLockfile, TypeOK
    <3>3. Elements(stack) = {} /\ Elements(order) = {}
      BY <3>1 DEF Elements
    <3>4. Search
      BY <3>1, <3>3 DEF NoLockfile, Search
    <3>5. DependenciesFirst
      BY <3>1 DEF DependenciesFirst
    <3>6. OrderIsWhatRootsNeed
      BY <3>3 DEF NoLockfile, OrderIsWhatRootsNeed, Needed
    <3>7. Loaded /\ CycleIsReal
      BY DEF NoLockfile, Loaded, CycleIsReal
    <3> QED
      BY <3>2, <3>4, <3>5, <3>6, <3>7 DEF IInv
  <2> QED
    BY <2>1, InitIInv DEF DInit
<1>2. IInv /\ [DNext]_allVars => IInv'
  BY DecisionStep, StepIInv
<1> QED
  BY <1>1, <1>2, PTL DEF DSpec

\* So an order is dependency-first and what the roots need, and a reported cycle is one.
THEOREM OrdersAmongDecisions ==
    DSpec => [](DependenciesFirst /\ OrderIsWhatRootsNeed /\ CycleIsReal)
<1>1. IInv => DependenciesFirst /\ OrderIsWhatRootsNeed /\ CycleIsReal
  BY DEF IInv
<1> QED
  BY <1>1, InvariantAmongDecisions, PTL

-----------------------------------------------------------------------------
\* Every operation needs something of a plugin.
LEMMA NeededCapabilities ==
  ASSUME NEW op \in BuilderOperation
  PROVE  RequiredCapabilities(op) # {}
BY DEF BuilderOperation, RequiredCapabilities

\* A builder request is authorised by the declared operation and the capabilities that it
\* needs, whatever else is declared or allowed.
LEMMA AuthorizedByNeed ==
  ASSUME NEW plugin \in [operations : SUBSET PluginOperation, capabilities : SUBSET Capability],
         NEW op, NEW allowed
  PROVE  LET needed == RequiredCapabilities(op)
             trimmed == [plugin EXCEPT !.operations = @ \cap {op},
                                       !.capabilities = @ \cap needed]
         IN  /\ AuthorizeBuilder(op, trimmed, allowed \cap needed)
                <=> AuthorizeBuilder(op, plugin, allowed)
             /\ \A c \in needed : ~AuthorizeBuilder(op, plugin, allowed \ {c})
<1> DEFINE needed == RequiredCapabilities(op)
           trimmed == [plugin EXCEPT !.operations = @ \cap {op}, !.capabilities = @ \cap needed]
<1>1. /\ trimmed.operations = plugin.operations \cap {op}
      /\ trimmed.capabilities = plugin.capabilities \cap needed
  OBVIOUS
<1> HIDE DEF needed, trimmed
<1>2. AuthorizeBuilder(op, trimmed, allowed \cap needed) <=> AuthorizeBuilder(op, plugin, allowed)
  BY <1>1 DEF AuthorizeBuilder, needed
<1>3. \A c \in needed : ~AuthorizeBuilder(op, plugin, allowed \ {c})
  BY DEF AuthorizeBuilder, needed
<1> QED
  BY <1>2, <1>3 DEF needed, trimmed

\* What is not allowed of the environment is not looked at.
LEMMA OnlyAllowedKeys ==
  ASSUME NEW keys, NEW candidates
  PROVE  LET seen == [key \in DOMAIN candidates \cap keys |-> candidates[key]]
         IN  /\ EnvironmentRefused(keys, seen) <=> EnvironmentRefused(keys, candidates)
             /\ Sanitized(keys, seen) = Sanitized(keys, candidates)
<1> DEFINE seen == [key \in DOMAIN candidates \cap keys |-> candidates[key]]
<1>1. Forwarded(keys, seen) = Forwarded(keys, candidates)
  BY DEF Forwarded
<1>2. \A key \in Forwarded(keys, candidates) : seen[key] = candidates[key]
  BY DEF Forwarded
<1> HIDE DEF seen
<1>3. EnvironmentRefused(keys, seen) <=> EnvironmentRefused(keys, candidates)
  BY <1>1, <1>2 DEF EnvironmentRefused
<1>4. Sanitized(keys, seen) = Sanitized(keys, candidates)
  BY <1>1, <1>2 DEF Sanitized
<1> QED
  BY <1>3, <1>4 DEF seen

\* What stands in front of a concatenation stays where it stood.
LEMMA ConcatKeepsFirst ==
  ASSUME NEW S, NEW T, NEW s \in Seq(S), NEW t \in Seq(T), NEW i \in DOMAIN s
  PROVE  i \in DOMAIN (s \o t) /\ (s \o t)[i] = s[i]
<1>1. s \in Seq(S \cup T) /\ t \in Seq(S \cup T)
  OBVIOUS
<1> QED
  BY <1>1

-----------------------------------------------------------------------------
(* The order of a finite set, as sorting gives it *)

\* One element precedes another, and never both ways round.
Orders(S, precedes) ==
    /\ \A x, y \in S : x # y => <<x, y>> \in precedes \/ <<y, x>> \in precedes
    /\ \A x \in S : <<x, x>> \notin precedes
    /\ \A x, y, z \in S : <<x, y>> \in precedes /\ <<y, z>> \in precedes => <<x, z>> \in precedes

\* Each element of an ordered finite set has a place of its own, and each place an element.
LEMMA Places ==
  ASSUME NEW S, IsFiniteSet(S), NEW precedes, Orders(S, precedes)
  PROVE  \E rank \in Bijection(S, 0..(Cardinality(S) - 1)) :
            \A x \in S : rank[x] = Cardinality({y \in S : <<y, x>> \in precedes})
<1> DEFINE Earlier(x) == {y \in S : <<y, x>> \in precedes}
           rank == [x \in S |-> Cardinality(Earlier(x))]
           n == Cardinality(S)
<1>1. n \in Nat
  BY FS_CardinalityType
<1>2. \A x \in S : /\ IsFiniteSet(Earlier(x)) /\ Cardinality(Earlier(x)) \in Nat
                   /\ Cardinality(Earlier(x)) < n
  <2> SUFFICES ASSUME NEW x \in S
               PROVE  /\ IsFiniteSet(Earlier(x)) /\ Cardinality(Earlier(x)) \in Nat
                      /\ Cardinality(Earlier(x)) < n
    OBVIOUS
  <2>1. Earlier(x) \in SUBSET S /\ x \in S \ Earlier(x)
    BY DEF Orders
  <2>2. /\ IsFiniteSet(Earlier(x)) /\ Cardinality(Earlier(x)) <= n
        /\ n = Cardinality(Earlier(x)) => S = Earlier(x)
    BY <2>1, FS_Subset
  <2>3. Cardinality(Earlier(x)) \in Nat
    BY <2>2, FS_CardinalityType
  <2> HIDE DEF Earlier, n
  <2>4. QED BY <1>1, <2>1, <2>2, <2>3
<1>3. \A x, y \in S : <<x, y>> \in precedes => Cardinality(Earlier(x)) < Cardinality(Earlier(y))
  <2> SUFFICES ASSUME NEW x \in S, NEW y \in S, <<x, y>> \in precedes
               PROVE  Cardinality(Earlier(x)) < Cardinality(Earlier(y))
    OBVIOUS
  <2>1. Earlier(x) \in SUBSET Earlier(y) /\ x \in Earlier(y) /\ x \notin Earlier(x)
    BY DEF Orders
  <2>2. /\ Cardinality(Earlier(x)) <= Cardinality(Earlier(y))
        /\ Cardinality(Earlier(y)) = Cardinality(Earlier(x)) => Earlier(y) = Earlier(x)
    BY <1>2, <2>1, FS_Subset
  <2> HIDE DEF Earlier
  <2>3. QED BY <1>2, <2>1, <2>2
<1>4. rank \in Injection(S, 0..(n - 1))
  <2>1. rank \in [S -> 0..(n - 1)]
    <3> HIDE DEF Earlier, n
    <3> QED BY <1>1, <1>2
  <2>2. ASSUME NEW x \in S, NEW y \in S, rank[x] = rank[y] PROVE x = y
    <3>1. Cardinality(Earlier(x)) = Cardinality(Earlier(y))
      BY <2>2
    <3>2. <<x, y>> \notin precedes /\ <<y, x>> \notin precedes
      <4> HIDE DEF Earlier
      <4> QED BY <1>2, <1>3, <3>1
    <3> QED BY <3>2 DEF Orders
  <2> HIDE DEF rank
  <2> QED BY <2>1, <2>2 DEF Injection, IsInjective
<1>5. IsFiniteSet(0..(n - 1)) /\ Cardinality(0..(n - 1)) = n
  <2> HIDE DEF n
  <2>1. /\ IsFiniteSet(0..(n - 1))
        /\ Cardinality(0..(n - 1)) = IF 0 > n - 1 THEN 0 ELSE n - 1 - 0 + 1
    BY <1>1, FS_Interval
  <2> QED BY <1>1, <2>1
<1>6. rank \in Surjection(S, 0..(n - 1))
  <2> HIDE DEF rank
  <2> QED BY <1>4, <1>5, FS_Injection
<1>7. rank \in Bijection(S, 0..(n - 1))
  BY <1>4, <1>6 DEF Bijection
<1>8. QED BY <1>7

\* What is enumerated is every element of the set, each once.
LEMMA EnumeratedAll ==
  ASSUME NEW S, IsFiniteSet(S), NEW precedes, Orders(S, precedes)
  PROVE  /\ Cardinality(S) \in Nat
         /\ Enumerated(S, precedes) \in [1..Cardinality(S) -> S]
         /\ Enumerated(S, precedes) \in Seq(S)
         /\ Len(Enumerated(S, precedes)) = Cardinality(S)
         /\ Range(Enumerated(S, precedes)) = S
         /\ IsInjective(Enumerated(S, precedes))
<1> DEFINE Rank(x) == Cardinality({y \in S : <<y, x>> \in precedes})
           e == Enumerated(S, precedes)
           n == Cardinality(S)
<1>0. n \in Nat
  BY FS_CardinalityType
<1>1. PICK rank \in Bijection(S, 0..(n - 1)) : \A x \in S : rank[x] = Rank(x)
  BY Places
<1>2. /\ rank \in [S -> 0..(n - 1)]
      /\ \A x, y \in S : rank[x] = rank[y] => x = y
      /\ \A k \in 0..(n - 1) : \E x \in S : rank[x] = k
  BY <1>1 DEF Bijection, Injection, Surjection, IsInjective
<1>3. e = [k \in 1..n |-> CHOOSE x \in S : Rank(x) = k - 1]
  BY DEF Enumerated
<1> HIDE DEF e, n, Rank
<1>4. \A k \in 1..n : e[k] \in S /\ rank[e[k]] = k - 1
  <2> SUFFICES ASSUME NEW k \in 1..n PROVE e[k] \in S /\ rank[e[k]] = k - 1
    OBVIOUS
  <2>1. k - 1 \in 0..(n - 1)
    BY <1>0
  <2>2. PICK x \in S : Rank(x) = k - 1
    BY <1>1, <1>2, <2>1
  <2>3. e[k] = CHOOSE y \in S : Rank(y) = k - 1
    BY <1>3
  <2>4. e[k] \in S /\ Rank(e[k]) = k - 1
    BY <2>2, <2>3
  <2>5. QED BY <1>1, <2>4
<1>5. e \in [1..n -> S] /\ DOMAIN e = 1..n
  BY <1>3, <1>4
<1>6. e \in Seq(S) /\ Len(e) = n
  BY <1>0, <1>5
<1>7. \A x \in S : \E k \in 1..n : e[k] = x
  <2> SUFFICES ASSUME NEW x \in S PROVE \E k \in 1..n : e[k] = x
    OBVIOUS
  <2>1. rank[x] \in 0..(n - 1)
    BY <1>2
  <2>2. rank[x] + 1 \in 1..n /\ (rank[x] + 1) - 1 = rank[x]
    BY <1>0, <2>1
  <2>3. rank[e[rank[x] + 1]] = rank[x] /\ e[rank[x] + 1] \in S
    BY <1>4, <2>2
  <2>4. QED BY <1>2, <2>2, <2>3
<1>8. Range(e) = S
  BY <1>5, <1>7 DEF Range
<1>9. \A j, k \in 1..n : e[j] = e[k] => j = k
  <2> SUFFICES ASSUME NEW j \in 1..n, NEW k \in 1..n, e[j] = e[k] PROVE j = k
    OBVIOUS
  <2>1. j - 1 = k - 1
    BY <1>4
  <2> QED BY <1>0, <2>1
<1>10. QED BY <1>0, <1>5, <1>6, <1>8, <1>9 DEF IsInjective, e, n

-----------------------------------------------------------------------------
(* Lockfiles and manifests *)

\* Elements of a list are told apart by their names if the names are not repeated.
LEMMA NamesApart ==
  ASSUME NEW S, NEW list \in Seq(S), IsInjective(NamesOf(list))
  PROVE  /\ Len(NamesOf(list)) = Len(list)
         /\ IsInjective(list)
         /\ \A x, y \in Range(list) : x.name = y.name => x = y
<1>1. Len(list) \in Nat /\ DOMAIN list = 1..Len(list)
  OBVIOUS
<1>2. NamesOf(list) = [i \in 1..Len(list) |-> list[i].name]
  BY <1>1 DEF NamesOf
<1>3. DOMAIN NamesOf(list) = 1..Len(list) /\ Len(NamesOf(list)) = Len(list)
  BY <1>1, <1>2
<1>4. \A i, j \in 1..Len(list) : list[i].name = list[j].name => i = j
  BY <1>2, <1>3 DEF IsInjective
<1>5. IsInjective(list)
  BY <1>1, <1>4 DEF IsInjective
<1>6. \A x, y \in Range(list) : x.name = y.name => x = y
  BY <1>1, <1>4 DEF Range
<1>7. QED BY <1>3, <1>5, <1>6

\* Sorting a list by names that are not repeated keeps its elements and their number.
LEMMA SortedByName ==
  ASSUME NEW S, NEW list \in Seq(S), IsInjective(NamesOf(list)),
         \A x \in S : x.name \in Nat
  PROVE  /\ ByName(list) \in Seq(S) /\ ByName(list) \in Seq(Range(list))
         /\ Len(ByName(list)) = Len(list)
         /\ Range(ByName(list)) = Range(list)
         /\ IsInjective(NamesOf(ByName(list)))
<1> DEFINE R == Range(list)
           less == {pair \in R \X R : pair[1].name < pair[2].name}
<1>1. /\ Len(list) \in Nat /\ DOMAIN list = 1..Len(list) /\ IsInjective(list)
      /\ \A x, y \in R : x.name = y.name => x = y
  BY NamesApart
<1>2. IsFiniteSet(R) /\ Cardinality(R) = Len(list)
  BY <1>1, LengthIsSize
<1>3. R \subseteq S
  BY <1>1 DEF Range
<1>4. Orders(R, less)
  <2>1. \A x, y \in R : x.name \in Nat /\ (<<x, y>> \in less <=> x.name < y.name)
    BY <1>3
  <2>2. \A x, y \in R : x # y => x.name # y.name
    BY <1>1
  <2> HIDE DEF R, less
  <2>3. \A x, y \in R : x # y => <<x, y>> \in less \/ <<y, x>> \in less
    BY <2>1, <2>2
  <2>4. \A x \in R : <<x, x>> \notin less
    BY <2>1
  <2>5. ASSUME NEW x \in R, NEW y \in R, NEW z \in R, <<x, y>> \in less, <<y, z>> \in less
        PROVE  <<x, z>> \in less
    <3>1. x.name < y.name /\ y.name < z.name /\ x.name \in Nat /\ y.name \in Nat /\ z.name \in Nat
      BY <2>1, <2>5
    <3>2. x.name < z.name
      BY <3>1
    <3>3. QED BY <2>1, <3>2
  <2>6. QED BY <2>3, <2>4, <2>5 DEF Orders
<1>5. ByName(list) = Enumerated(R, less)
  BY DEF ByName
<1> DEFINE e == ByName(list)
<1> HIDE DEF R, less, e
<1>6. /\ e \in [1..Cardinality(R) -> R] /\ e \in Seq(R) /\ Len(e) = Cardinality(R)
      /\ Range(e) = R /\ IsInjective(e)
  <2>1. e = Enumerated(R, less)
    BY <1>5 DEF e
  <2>2. QED BY <1>2, <1>4, <2>1, EnumeratedAll
<1>7. IsInjective(NamesOf(e))
  <2>1. DOMAIN e = 1..Len(list) /\ \A i \in DOMAIN e : e[i] \in R
    BY <1>2, <1>6
  <2>2. ASSUME NEW i \in DOMAIN e, NEW j \in DOMAIN e, e[i].name = e[j].name PROVE i = j
    BY <1>1, <1>6, <2>1, <2>2 DEF IsInjective
  <2>3. QED BY <2>1, <2>2 DEF IsInjective, NamesOf
<1>8. e \in Seq(S)
  BY <1>3, <1>6, SeqMonotonic
<1>9. QED BY <1>2, <1>6, <1>7, <1>8 DEF e, R

\* Sorting numbers that are not repeated keeps them and their number.
LEMMA SortedNumbers ==
  ASSUME NEW names \in Seq(Nat), IsInjective(names)
  PROVE  /\ Ascending(names) \in Seq(Nat) /\ Range(Ascending(names)) = Range(names)
         /\ IsInjective(Ascending(names))
<1> DEFINE R == Range(names)
           less == {pair \in R \X R : pair[1] < pair[2]}
<1>1. IsFiniteSet(R)
  BY LengthIsSize
<1>2. R \subseteq Nat
  BY DEF Range
<1>3. Orders(R, less)
  <2>1. \A x, y \in R : x \in Nat /\ (<<x, y>> \in less <=> x < y)
    BY <1>2
  <2> HIDE DEF R, less
  <2>2. \A x, y \in R : x # y => <<x, y>> \in less \/ <<y, x>> \in less
    BY <2>1
  <2>3. \A x \in R : <<x, x>> \notin less
    BY <2>1
  <2>4. ASSUME NEW x \in R, NEW y \in R, NEW z \in R, <<x, y>> \in less, <<y, z>> \in less
        PROVE  <<x, z>> \in less
    <3>1. x < y /\ y < z /\ x \in Nat /\ y \in Nat /\ z \in Nat
      BY <2>1, <2>4
    <3>2. x < z
      BY <3>1
    <3>3. QED BY <2>1, <3>2
  <2>5. QED BY <2>2, <2>3, <2>4 DEF Orders
<1>4. Ascending(names) = Enumerated(R, less)
  BY DEF Ascending
<1> HIDE DEF R, less
<1>5. /\ Ascending(names) \in Seq(R) /\ Range(Ascending(names)) = R
      /\ IsInjective(Ascending(names))
  BY <1>1, <1>3, <1>4, EnumeratedAll
<1>6. QED BY <1>2, <1>5, SeqMonotonic DEF R

\* Two manifests that one lockfile fits ask for the same.
LEMMA FittingAreAlike ==
  ASSUME NEW l \in Lockfile, NEW m \in Manifests, NEW n \in Manifests,
         ValidateAgainst(l, m), ValidateAgainst(l, n)
  PROVE  SameRequest(m, n)
<1>1. /\ m \in Manifest /\ n \in Manifest
      /\ \A d \in Range(m.dependencies) : d.source.kind = "path" => d.source.pin = NoPin
      /\ \A d \in Range(n.dependencies) : d.source.kind = "path" => d.source.pin = NoPin
  BY LockAssumption
<1>2. /\ IsInjective(NamesOf(m.dependencies)) /\ IsInjective(NamesOf(n.dependencies))
      /\ Range(l.root.dependencies) = Range(NamesOf(m.dependencies))
      /\ Range(l.root.dependencies) = Range(NamesOf(n.dependencies))
      /\ l.root.name = m.name /\ l.root.version = m.version
      /\ l.root.name = n.name /\ l.root.version = n.version
      /\ IsInjective(NamesOf(l.packages))
  BY DEF ValidateAgainst, ManifestValid, LockValid
<1> DEFINE Dep == [name : Nat, version : Nat, source : DeclaredSource]
<1>3. m.dependencies \in Seq(Dep) /\ n.dependencies \in Seq(Dep)
  BY <1>1 DEF Manifest
<1>a. \A d \in Dep : d.name \in Nat /\ d.source \in DeclaredSource
  OBVIOUS
<1> HIDE DEF Dep
<1>4. ASSUME NEW list \in Seq(Dep), IsInjective(NamesOf(list))
      PROVE  /\ Len(list) = Cardinality(Range(NamesOf(list)))
             /\ \A d \in Range(list) : d \in Dep /\ d.name \in Range(NamesOf(list))
             /\ \A x \in Range(NamesOf(list)) : \E d \in Range(list) : d.name = x
  <2>1. Len(list) \in Nat /\ DOMAIN list = 1..Len(list) /\ \A i \in 1..Len(list) : list[i] \in Dep
    BY <1>4
  <2>2. NamesOf(list) = [i \in 1..Len(list) |-> list[i].name]
    BY <2>1 DEF NamesOf
  <2>3. NamesOf(list) \in Seq(Nat) /\ Len(NamesOf(list)) = Len(list)
    BY <1>a, <2>1, <2>2
  <2>4. Len(list) = Cardinality(Range(NamesOf(list)))
    BY <1>4, <2>3, LengthIsSize
  <2>5. \A d \in Range(list) : \E i \in 1..Len(list) : d = list[i]
    BY <2>1 DEF Range
  <2>6. \A i \in 1..Len(list) : list[i].name \in Range(NamesOf(list))
    BY <2>1, <2>2 DEF Range
  <2>7. \A x \in Range(NamesOf(list)) : \E i \in 1..Len(list) : list[i] \in Range(list) /\ list[i].name = x
    BY <2>1, <2>2 DEF Range
  <2>8. QED BY <2>1, <2>4, <2>5, <2>6, <2>7
<1>5. Len(m.dependencies) = Len(n.dependencies)
  <2>1. Range(NamesOf(m.dependencies)) = Range(NamesOf(n.dependencies))
    BY <1>2
  <2>2. /\ Len(m.dependencies) = Cardinality(Range(NamesOf(m.dependencies)))
        /\ Len(n.dependencies) = Cardinality(Range(NamesOf(n.dependencies)))
    BY <1>2, <1>3, <1>4
  <2>3. QED BY ONLY <2>1, <2>2
<1>6. ASSUME NEW d \in Range(m.dependencies)
      PROVE  \E e \in Range(n.dependencies) :
               /\ d.name = e.name /\ d.version = e.version
               /\ d.source.kind = e.source.kind /\ d.source.at = e.source.at
               /\ \/ d.source.pin = e.source.pin
                  \/ d.source.kind = "archive" /\ NoPin \in {d.source.pin, e.source.pin}
  <2>1. d.name \in Range(NamesOf(n.dependencies)) /\ d \in Dep
    BY <1>2, <1>3, <1>4
  <2>2. PICK e \in Range(n.dependencies) : e.name = d.name
    BY <1>2, <1>3, <1>4, <2>1
  <2>3. PICK p \in Range(l.packages) :
          p.name = d.name /\ p.version = d.version /\ SourceMatches(d.source, p.source)
    BY DEF ValidateAgainst
  <2>4. PICK q \in Range(l.packages) :
          q.name = e.name /\ q.version = e.version /\ SourceMatches(e.source, q.source)
    BY DEF ValidateAgainst
  <2>5. p = q
    <3> DEFINE Package_ == [name : Nat, version : Nat, source : LockedSource, dependencies : Seq(Nat)]
    <3>1. l.packages \in Seq(Package_)
      BY DEF Lockfile
    <3> QED BY <1>2, <2>2, <2>3, <2>4, <3>1, NamesApart
  <2>6. d.source.kind \in SourceKind
    BY <1>a, <2>1 DEF DeclaredSource
  <2>7. d.source.kind = "path" => d.source.pin = e.source.pin
    BY <1>1, <2>3, <2>4, <2>5 DEF SourceMatches
  <2>8. /\ d.name = e.name /\ d.version = e.version
        /\ d.source.kind = e.source.kind /\ d.source.at = e.source.at
    BY <2>2, <2>3, <2>4, <2>5 DEF SourceMatches
  <2>9. d.source.kind = "git" => d.source.pin = e.source.pin
    BY <2>3, <2>4, <2>5, <2>8 DEF SourceMatches
  <2>10. d.source.kind = "archive" => d.source.pin = e.source.pin \/ NoPin \in {d.source.pin, e.source.pin}
    BY <2>3, <2>4, <2>5, <2>8 DEF SourceMatches
  <2>11. QED BY <2>6, <2>7, <2>8, <2>9, <2>10 DEF SourceKind
<1>7. QED BY <1>2, <1>5, <1>6 DEF SameRequest

DependencyType == [name : Nat, version : Nat, source : DeclaredSource]
PackageType ==
    [name : Nat, version : Nat, source : LockedSource, dependencies : Seq(Nat)]

\* What is written of a valid manifest is valid and asks for the same dependencies.
LEMMA WrittenManifest ==
  ASSUME NEW m \in Manifest, ManifestValid(m)
  PROVE  LET w == ManifestWritten(m)
         IN  /\ ManifestValid(w) /\ w.name = m.name /\ w.version = m.version
             /\ Range(w.dependencies) = Range(m.dependencies)
             /\ Range(NamesOf(w.dependencies)) = Range(NamesOf(m.dependencies))
             /\ SameRequest(m, w)
<1> DEFINE w == ManifestWritten(m)
           sorted == ByName(m.dependencies)
<1>1. /\ m.dependencies \in Seq(DependencyType) /\ IsInjective(NamesOf(m.dependencies))
      /\ \A x \in DependencyType : x.name \in Nat
  BY DEF Manifest, ManifestValid, DependencyType
<1>2. /\ sorted \in Seq(DependencyType) /\ Range(sorted) = Range(m.dependencies)
      /\ IsInjective(NamesOf(sorted)) /\ Len(sorted) = Len(m.dependencies)
  BY <1>1, SortedByName
<1>3. /\ w.schema = m.schema /\ w.name = m.name /\ w.version = m.version
      /\ w.dependencies = sorted
  BY DEF Manifest, ManifestWritten
<1> HIDE DEF w, sorted
<1>4. \A list \in Seq(DependencyType) :
        Range(NamesOf(list)) = {d.name : d \in Range(list)}
  <2> SUFFICES ASSUME NEW list \in Seq(DependencyType)
               PROVE  Range(NamesOf(list)) = {d.name : d \in Range(list)}
    OBVIOUS
  <2>1. DOMAIN NamesOf(list) = DOMAIN list /\ \A i \in DOMAIN list : NamesOf(list)[i] = list[i].name
    BY DEF NamesOf
  <2>2. QED BY <2>1 DEF Range
<1>5. Range(NamesOf(sorted)) = Range(NamesOf(m.dependencies))
  BY <1>1, <1>2, <1>4
<1>6. ManifestValid(w)
  BY <1>2, <1>3 DEF ManifestValid
<1>7. SameRequest(m, w)
  BY <1>2, <1>3 DEF SameRequest
<1>8. QED BY <1>2, <1>3, <1>5, <1>6, <1>7 DEF w

\* What is written of a valid lockfile is valid, its root as before, and its packages
\* are the packages but for the order of what they depend on.
LEMMA WrittenLock ==
  ASSUME NEW l \in Lockfile, LockValid(l)
  PROVE  LET w == LockWritten(l)
         IN  /\ LockValid(w) /\ w.root.name = l.root.name /\ w.root.version = l.root.version
             /\ Range(w.root.dependencies) = Range(l.root.dependencies)
             /\ \A p \in Range(l.packages) : \E q \in Range(w.packages) :
                  q.name = p.name /\ q.version = p.version /\ q.source = p.source
             /\ \A q \in Range(w.packages) : \E p \in Range(l.packages) :
                  q.name = p.name /\ q.version = p.version /\ q.source = p.source
<1> DEFINE w == LockWritten(l)
           sorted == ByName(l.packages)
           rewrite(p) == [p EXCEPT !.dependencies = Ascending(@)]
           n == Len(sorted)
<1>1. /\ l.packages \in Seq(PackageType) /\ IsInjective(NamesOf(l.packages))
      /\ \A x \in PackageType : x.name \in Nat
      /\ l.root.dependencies \in Seq(Nat) /\ IsInjective(l.root.dependencies)
  BY DEF Lockfile, LockValid, PackageType
<1>2. /\ sorted \in Seq(PackageType) /\ Range(sorted) = Range(l.packages)
      /\ IsInjective(NamesOf(sorted))
  BY <1>1, SortedByName
<1>3. /\ Range(Ascending(l.root.dependencies)) = Range(l.root.dependencies)
      /\ IsInjective(Ascending(l.root.dependencies))
  BY <1>1, SortedNumbers
<1>4. /\ w.schema = l.schema /\ w.root.name = l.root.name /\ w.root.version = l.root.version
      /\ w.root.dependencies = Ascending(l.root.dependencies)
      /\ w.packages = [i \in DOMAIN sorted |-> rewrite(sorted[i])]
  BY DEF Lockfile, LockWritten
<1>5. \A p \in PackageType : /\ rewrite(p).name = p.name /\ rewrite(p).version = p.version
                            /\ rewrite(p).source = p.source
                            /\ rewrite(p).dependencies = Ascending(p.dependencies)
  BY DEF PackageType
<1> HIDE DEF w, sorted, rewrite
<1>6. n \in Nat /\ DOMAIN sorted = 1..n /\ \A i \in 1..n : sorted[i] \in PackageType /\ sorted[i] \in Range(l.packages)
  BY <1>2 DEF Range
<1>7. DOMAIN w.packages = 1..n /\ \A i \in 1..n : w.packages[i] = rewrite(sorted[i])
  BY <1>4, <1>6
<1>8. \A q \in Range(w.packages) : \E i \in 1..n : q = rewrite(sorted[i])
  BY <1>7 DEF Range
<1>9. \A p \in Range(l.packages) : \E i \in 1..n : p = sorted[i]
  BY <1>2, <1>6 DEF Range
<1>10. \A i \in 1..n : w.packages[i] \in Range(w.packages)
  BY <1>7 DEF Range
<1>11. \A p \in Range(l.packages) : \E q \in Range(w.packages) :
          q.name = p.name /\ q.version = p.version /\ q.source = p.source
  BY <1>5, <1>6, <1>7, <1>9, <1>10
<1>12. \A q \in Range(w.packages) : \E p \in Range(l.packages) :
          q.name = p.name /\ q.version = p.version /\ q.source = p.source
  BY <1>5, <1>6, <1>8
<1>13. IsInjective(NamesOf(w.packages))
  <2>1. DOMAIN NamesOf(sorted) = 1..n /\ \A i \in 1..n : NamesOf(sorted)[i] = sorted[i].name
    BY <1>6 DEF NamesOf
  <2>2. DOMAIN NamesOf(w.packages) = 1..n /\ \A i \in 1..n : NamesOf(w.packages)[i] = w.packages[i].name
    BY <1>7 DEF NamesOf
  <2>3. \A i \in 1..n : w.packages[i].name = sorted[i].name
    BY <1>5, <1>6, <1>7
  <2>4. \A i \in 1..n : NamesOf(w.packages)[i] = NamesOf(sorted)[i]
    BY <2>1, <2>2, <2>3
  <2>5. QED BY <1>2, <2>1, <2>2, <2>4 DEF IsInjective
<1>14. \A q \in Range(w.packages) : SourceAdmitted(q.source) /\ IsInjective(q.dependencies)
  <2> SUFFICES ASSUME NEW q \in Range(w.packages)
               PROVE  SourceAdmitted(q.source) /\ IsInjective(q.dependencies)
    OBVIOUS
  <2>1. PICK i \in 1..n : q = rewrite(sorted[i])
    BY <1>8
  <2>2. sorted[i] \in PackageType /\ sorted[i] \in Range(l.packages)
    BY <1>6
  <2>3. q.source = sorted[i].source /\ q.dependencies = Ascending(sorted[i].dependencies)
    BY <1>5, <2>1, <2>2
  <2>4. SourceAdmitted(sorted[i].source) /\ IsInjective(sorted[i].dependencies)
    BY <2>2 DEF LockValid
  <2>5. sorted[i].dependencies \in Seq(Nat)
    BY <2>2 DEF PackageType
  <2>6. IsInjective(Ascending(sorted[i].dependencies))
    BY <2>4, <2>5, SortedNumbers
  <2>7. QED BY <2>3, <2>4, <2>6
<1>15. LockValid(w)
  <2>1. w.schema = "v1"
    BY <1>4 DEF LockValid
  <2>2. IsInjective(w.root.dependencies)
    BY <1>3, <1>4
  <2>3. QED BY <1>13, <1>14, <2>1, <2>2 DEF LockValid
<1>16. QED BY <1>3, <1>4, <1>11, <1>12, <1>15 DEF w

\* Whether a valid lockfile fits a valid manifest is the same for what is written of them.
LEMMA WrittenFitsAlike ==
  ASSUME NEW l \in Lockfile, LockValid(l), NEW m \in Manifest, ManifestValid(m)
  PROVE  ValidateAgainst(l, m) <=> ValidateAgainst(LockWritten(l), ManifestWritten(m))
<1> DEFINE v == LockWritten(l)
           w == ManifestWritten(m)
           fits(packages, d) == \E p \in Range(packages) :
               p.name = d.name /\ p.version = d.version /\ SourceMatches(d.source, p.source)
<1>1. /\ ManifestValid(w) /\ w.name = m.name /\ w.version = m.version
      /\ Range(w.dependencies) = Range(m.dependencies)
      /\ Range(NamesOf(w.dependencies)) = Range(NamesOf(m.dependencies))
  BY WrittenManifest
<1>2. /\ LockValid(v) /\ v.root.name = l.root.name /\ v.root.version = l.root.version
      /\ Range(v.root.dependencies) = Range(l.root.dependencies)
      /\ \A p \in Range(l.packages) : \E q \in Range(v.packages) :
           q.name = p.name /\ q.version = p.version /\ q.source = p.source
      /\ \A q \in Range(v.packages) : \E p \in Range(l.packages) :
           q.name = p.name /\ q.version = p.version /\ q.source = p.source
  BY WrittenLock
<1> HIDE DEF v, w
<1>3. \A d : fits(l.packages, d) <=> fits(v.packages, d)
  <2>1. ASSUME NEW d, fits(l.packages, d) PROVE fits(v.packages, d)
    <3>1. PICK p \in Range(l.packages) :
            p.name = d.name /\ p.version = d.version /\ SourceMatches(d.source, p.source)
      BY <2>1
    <3>2. PICK q \in Range(v.packages) : q.name = p.name /\ q.version = p.version /\ q.source = p.source
      BY <1>2
    <3>3. SourceMatches(d.source, q.source)
      BY <3>1, <3>2
    <3>4. QED BY <3>1, <3>2, <3>3
  <2>2. ASSUME NEW d, fits(v.packages, d) PROVE fits(l.packages, d)
    <3>1. PICK q \in Range(v.packages) :
            q.name = d.name /\ q.version = d.version /\ SourceMatches(d.source, q.source)
      BY <2>2
    <3>2. PICK p \in Range(l.packages) : q.name = p.name /\ q.version = p.version /\ q.source = p.source
      BY <1>2
    <3>3. SourceMatches(d.source, p.source)
      BY <3>1, <3>2
    <3>4. QED BY <3>1, <3>2, <3>3
  <2>3. QED BY <2>1, <2>2
<1>4. ValidateAgainst(l, m) <=>
        /\ l.root.name = m.name /\ l.root.version = m.version
        /\ Range(l.root.dependencies) = Range(NamesOf(m.dependencies))
        /\ \A d \in Range(m.dependencies) : fits(l.packages, d)
  BY DEF ValidateAgainst
<1>5. ValidateAgainst(v, w) <=>
        /\ v.root.name = w.name /\ v.root.version = w.version
        /\ Range(v.root.dependencies) = Range(NamesOf(w.dependencies))
        /\ \A d \in Range(w.dependencies) : fits(v.packages, d)
  BY <1>1, <1>2 DEF ValidateAgainst
<1> HIDE DEF fits
<1>6. ValidateAgainst(l, m) <=> ValidateAgainst(v, w)
  BY <1>1, <1>2, <1>3, <1>4, <1>5
<1>7. QED BY <1>6 DEF v, w

\* What is true of a lockfile among manifests.
LEMMA LockAnswer ==
  ASSUME NEW l \in Locks, asked.topic = "lock", asked.lock = l
  PROVE  LockFitsOneManifest
<1>1. l \in Lockfile /\ Manifests \subseteq Manifest
  BY LockAssumption
<1> DEFINE fitting == {m \in Manifests : ValidateAgainst(l, m)}
<1>2. \A m, n \in fitting : SameRequest(m, n)
  BY <1>1, FittingAreAlike
<1>3. ASSUME LockValid(l), NEW m \in {m \in Manifests : ManifestValid(m)}
      PROVE  m \in fitting <=> ValidateAgainst(LockWritten(l), ManifestWritten(m))
  BY <1>1, <1>3, WrittenFitsAlike
<1>4. \A m \in fitting : SameRequest(m, ManifestWritten(m))
  BY <1>1, WrittenManifest DEF ValidateAgainst
<1>5. QED BY <1>2, <1>3, <1>4 DEF LockFitsOneManifest

-----------------------------------------------------------------------------
(* Frames *)

AnswerTypes ==
    {"ProbeBuildSystemResult", "ConfigureResult", "BuildResult", "TestResult",
     "InstallToStagingResult", "HostProbeResult", "HostChangePlan"}
OtherTypes ==
    {"Hello", "HelloResult", "ProbeBuildSystemRequest", "BuilderRequest", "HostPlanningRequest",
     "ProgressEvent"}

\* What With gives.
LEMMA WithFields ==
  ASSUME NEW f, NEW g
  PROVE  /\ DOMAIN With(f, g) = DOMAIN f \cup DOMAIN g
         /\ \A k \in DOMAIN f : With(f, g)[k] = f[k]
         /\ \A k \in DOMAIN g \ DOMAIN f : With(f, g)[k] = g[k]
BY DEF With

\* The types of answers, and what each answers with.
LEMMA AnswerFields ==
  /\ DOMAIN Answers = AnswerTypes
  /\ Answers["ProbeBuildSystemResult"] = "build system support"
  /\ Answers["ConfigureResult"] = "configured"
  /\ Answers["BuildResult"] = "built"
  /\ Answers["TestResult"] = "tests passed"
  /\ Answers["InstallToStagingResult"] = "installed"
  /\ Answers["HostProbeResult"] = "host probe"
  /\ Answers["HostChangePlan"] = "host change plan"
<1>1. /\ DOMAIN BuilderAnswers = {"ProbeBuildSystemResult", "ConfigureResult", "BuildResult",
                                  "TestResult", "InstallToStagingResult"}
      /\ DOMAIN HostAnswers = {"HostProbeResult", "HostChangePlan"}
  BY DEF BuilderAnswers, HostAnswers
<1>2. /\ DOMAIN Answers = DOMAIN BuilderAnswers \cup DOMAIN HostAnswers
      /\ \A k \in DOMAIN BuilderAnswers : Answers[k] = BuilderAnswers[k]
      /\ \A k \in DOMAIN HostAnswers \ DOMAIN BuilderAnswers : Answers[k] = HostAnswers[k]
  BY WithFields DEF Answers
<1>3. QED BY <1>1, <1>2 DEF BuilderAnswers, HostAnswers, AnswerTypes

\* No two answers carry the same value.
LEMMA AnswersApart ==
  \A s, t \in AnswerTypes : Answers[s] = Answers[t] => s = t
BY AnswerFields DEF AnswerTypes

\* Every type of frame and its fields.
LEMMA FieldsOfType ==
  /\ FrameType = AnswerTypes \cup OtherTypes
  /\ \A type \in AnswerTypes : Fields[type] = OkFields(Answers[type])
  /\ Fields["Hello"] = HelloFields
  /\ Fields["HelloResult"] = HelloResultFields
  /\ Fields["ProbeBuildSystemRequest"] = ProbeRequestFields
  /\ Fields["BuilderRequest"] = BuilderRequestFields
  /\ Fields["HostPlanningRequest"] = HostRequestFields
  /\ Fields["ProgressEvent"] = ProgressFields
<1> DEFINE f == [type \in DOMAIN Answers |-> OkFields(Answers[type])]
           g == [ Hello |-> HelloFields, HelloResult |-> HelloResultFields,
                  ProbeBuildSystemRequest |-> ProbeRequestFields, BuilderRequest |-> BuilderRequestFields,
                  HostPlanningRequest |-> HostRequestFields, ProgressEvent |-> ProgressFields ]
<1>1. DOMAIN f = AnswerTypes /\ \A type \in AnswerTypes : f[type] = OkFields(Answers[type])
  BY AnswerFields
<1>2. DOMAIN g = OtherTypes
  BY DEF OtherTypes
<1>3. /\ g["Hello"] = HelloFields /\ g["HelloResult"] = HelloResultFields
      /\ g["ProbeBuildSystemRequest"] = ProbeRequestFields
      /\ g["BuilderRequest"] = BuilderRequestFields
      /\ g["HostPlanningRequest"] = HostRequestFields /\ g["ProgressEvent"] = ProgressFields
  OBVIOUS
<1>4. Fields = With(f, g)
  BY DEF Fields
<1> HIDE DEF f, g
<1>5. /\ DOMAIN Fields = DOMAIN f \cup DOMAIN g
      /\ \A k \in DOMAIN f : Fields[k] = f[k]
      /\ \A k \in DOMAIN g \ DOMAIN f : Fields[k] = g[k]
  <2>1. /\ DOMAIN With(f, g) = DOMAIN f \cup DOMAIN g
        /\ \A k \in DOMAIN f : With(f, g)[k] = f[k]
        /\ \A k \in DOMAIN g \ DOMAIN f : With(f, g)[k] = g[k]
    BY WithFields
  <2>2. QED BY ONLY <1>4, <2>1
<1>6. OtherTypes \cap AnswerTypes = {}
  BY DEF OtherTypes, AnswerTypes
<1>7. QED BY <1>1, <1>2, <1>3, <1>5, <1>6 DEF FrameType, OtherTypes

\* The fields that frames of each type have and must have.
LEMMA FieldNames ==
  /\ DOMAIN HelloFields = {"protocol", "id", "type", "prep_version"}
  /\ DOMAIN HelloResultFields = {"protocol", "id", "type", "plugin"}
  /\ DOMAIN ProbeRequestFields = {"protocol", "id", "type", "context"}
  /\ DOMAIN BuilderRequestFields = {"protocol", "id", "type", "package", "context", "arguments"}
  /\ DOMAIN HostRequestFields = {"protocol", "id", "type", "dependency"}
  /\ DOMAIN ProgressFields = {"protocol", "id", "type", "event", "message", "completed", "total"}
  /\ \A value : DOMAIN OkFields(value) = {"protocol", "id", "status", "type", "value"}
  /\ DOMAIN ErrorFields = {"protocol", "id", "status", "type", "error"}
<1>1. DOMAIN Envelope = {"protocol", "id"}
  BY DEF Envelope
<1>2. DOMAIN HelloFields = {"protocol", "id", "type", "prep_version"}
  BY <1>1 DEF With, HelloFields
<1>3. DOMAIN HelloResultFields = {"protocol", "id", "type", "plugin"}
  BY <1>1 DEF With, HelloResultFields
<1>4. DOMAIN ProbeRequestFields = {"protocol", "id", "type", "context"}
  BY <1>1 DEF With, ProbeRequestFields
<1>5. DOMAIN BuilderRequestFields = {"protocol", "id", "type", "package", "context", "arguments"}
  BY <1>1 DEF With, BuilderRequestFields
<1>6. DOMAIN HostRequestFields = {"protocol", "id", "type", "dependency"}
  BY <1>1 DEF With, HostRequestFields
<1>7. DOMAIN ProgressFields = {"protocol", "id", "type", "event", "message", "completed", "total"}
  BY <1>1 DEF With, ProgressFields
<1>8. \A value : DOMAIN OkFields(value) = {"protocol", "id", "status", "type", "value"}
  BY <1>1 DEF With, OkFields
<1>9. DOMAIN ErrorFields = {"protocol", "id", "status", "type", "error"}
  BY <1>1 DEF With, ErrorFields
<1>10. QED BY <1>2, <1>3, <1>4, <1>5, <1>6, <1>7, <1>8, <1>9

\* A frame that has the fields of a type has one that no other type may have, or lacks one
\* that another must have.
LEMMA Marks ==
  ASSUME NEW wire
  PROVE  /\ HasFields(wire, HelloFields) =>
              "prep_version" \in DOMAIN wire
         /\ HasFields(wire, HelloResultFields) =>
              "plugin" \in DOMAIN wire /\ "prep_version" \notin DOMAIN wire
         /\ HasFields(wire, BuilderRequestFields) =>
              "package" \in DOMAIN wire /\ DOMAIN wire \cap {"prep_version", "plugin"} = {}
         /\ HasFields(wire, ProbeRequestFields) =>
              /\ "context" \in DOMAIN wire
              /\ DOMAIN wire \cap {"prep_version", "plugin", "package"} = {}
         /\ HasFields(wire, HostRequestFields) =>
              /\ "dependency" \in DOMAIN wire
              /\ DOMAIN wire \cap {"prep_version", "plugin", "package", "context"} = {}
         /\ HasFields(wire, ProgressFields) =>
              /\ "event" \in DOMAIN wire
              /\ DOMAIN wire \cap {"prep_version", "plugin", "package", "context", "dependency"} = {}
         /\ HasFields(wire, ErrorFields) =>
              /\ DOMAIN wire \cap {"prep_version", "plugin", "package", "context", "dependency", "event", "value"} = {}
              /\ "status" \in DOMAIN wire /\ wire["status"] = "error"
         /\ \A value : HasFields(wire, OkFields(value)) =>
              /\ DOMAIN wire \cap {"prep_version", "plugin", "package", "context", "dependency", "event"} = {}
              /\ "value" \in DOMAIN wire /\ wire["value"] = value
<1>1. HasFields(wire, HelloFields) => "prep_version" \in DOMAIN wire
  BY FieldNames DEF HasFields, Optional
<1>2. HasFields(wire, HelloResultFields) =>
              "plugin" \in DOMAIN wire /\ "prep_version" \notin DOMAIN wire
  BY FieldNames DEF HasFields, Optional
<1>3. HasFields(wire, BuilderRequestFields) =>
              "package" \in DOMAIN wire /\ DOMAIN wire \cap {"prep_version", "plugin"} = {}
  BY FieldNames DEF HasFields, Optional
<1>4. HasFields(wire, ProbeRequestFields) =>
              /\ "context" \in DOMAIN wire
              /\ DOMAIN wire \cap {"prep_version", "plugin", "package"} = {}
  BY FieldNames DEF HasFields, Optional
<1>5. HasFields(wire, HostRequestFields) =>
              /\ "dependency" \in DOMAIN wire
              /\ DOMAIN wire \cap {"prep_version", "plugin", "package", "context"} = {}
  BY FieldNames DEF HasFields, Optional
<1>6. HasFields(wire, ProgressFields) =>
              /\ "event" \in DOMAIN wire
              /\ DOMAIN wire \cap {"prep_version", "plugin", "package", "context", "dependency"} = {}
  BY FieldNames DEF HasFields, Optional
<1>7. HasFields(wire, ErrorFields) =>
              /\ DOMAIN wire \cap {"prep_version", "plugin", "package", "context", "dependency", "event", "value"} = {}
              /\ "status" \in DOMAIN wire /\ wire["status"] = "error"
  <2>1. ErrorFields["status"] = {"error"}
    BY DEF ErrorFields, With, Envelope
  <2>2. QED BY <2>1, FieldNames DEF HasFields, Optional
<1>8. ASSUME NEW value, HasFields(wire, OkFields(value))
      PROVE  /\ DOMAIN wire \cap {"prep_version", "plugin", "package", "context", "dependency", "event"} = {}
             /\ "value" \in DOMAIN wire /\ wire["value"] = value
  <2>1. OkFields(value)["value"] = {value}
    BY DEF OkFields, With, Envelope
  <2>2. DOMAIN OkFields(value) = {"protocol", "id", "status", "type", "value"}
    BY FieldNames
  <2>3. QED BY <1>8, <2>1, <2>2 DEF HasFields, Optional
<1>9. QED BY <1>1, <1>2, <1>3, <1>4, <1>5, <1>6, <1>7, <1>8

\* What reads as two types is a refusal, and what is a refusal reads as any answer and as nothing else.
LEMMA ReadOnce ==
  ASSUME NEW wire, NEW s \in FrameType, NEW t \in FrameType, s # t,
         ReadsAs(wire, s), ReadsAs(wire, t)
  PROVE  HasFields(wire, ErrorFields)
<1> SUFFICES ASSUME ~HasFields(wire, ErrorFields) PROVE FALSE
  OBVIOUS
<1>1. HasFields(wire, Fields[s]) /\ HasFields(wire, Fields[t])
  BY DEF ReadsAs
<1>2. CASE s \in AnswerTypes /\ t \in AnswerTypes
  <2>1. HasFields(wire, OkFields(Answers[s])) /\ HasFields(wire, OkFields(Answers[t]))
    BY <1>1, <1>2, FieldsOfType
  <2>2. wire["value"] = Answers[s] /\ wire["value"] = Answers[t]
    BY <2>1, Marks
  <2>3. QED BY <1>2, <2>2, AnswersApart
<1> DEFINE Marked(type) ==
      /\ type = "Hello" => "prep_version" \in DOMAIN wire
      /\ type = "HelloResult" => "plugin" \in DOMAIN wire /\ "prep_version" \notin DOMAIN wire
      /\ type = "BuilderRequest" =>
              "package" \in DOMAIN wire /\ DOMAIN wire \cap {"prep_version", "plugin"} = {}
      /\ type = "ProbeBuildSystemRequest" =>
              /\ "context" \in DOMAIN wire
              /\ DOMAIN wire \cap {"prep_version", "plugin", "package"} = {}
      /\ type = "HostPlanningRequest" =>
              /\ "dependency" \in DOMAIN wire
              /\ DOMAIN wire \cap {"prep_version", "plugin", "package", "context"} = {}
      /\ type = "ProgressEvent" =>
              /\ "event" \in DOMAIN wire
              /\ DOMAIN wire \cap {"prep_version", "plugin", "package", "context", "dependency"} = {}
      /\ type \in AnswerTypes =>
              DOMAIN wire \cap {"prep_version", "plugin", "package", "context", "dependency", "event"} = {}
<1>3. \A type \in FrameType : HasFields(wire, Fields[type]) => Marked(type)
  <2> SUFFICES ASSUME NEW type \in FrameType, HasFields(wire, Fields[type]) PROVE Marked(type)
    OBVIOUS
  <2>1. type \in AnswerTypes => HasFields(wire, OkFields(Answers[type]))
    BY FieldsOfType
  <2>2. /\ type = "Hello" => HasFields(wire, HelloFields)
        /\ type = "HelloResult" => HasFields(wire, HelloResultFields)
        /\ type = "BuilderRequest" => HasFields(wire, BuilderRequestFields)
        /\ type = "ProbeBuildSystemRequest" => HasFields(wire, ProbeRequestFields)
        /\ type = "HostPlanningRequest" => HasFields(wire, HostRequestFields)
        /\ type = "ProgressEvent" => HasFields(wire, ProgressFields)
    BY FieldsOfType
  <2>3. QED BY <2>1, <2>2, Marks
<1>4. Marked(s) /\ Marked(t)
  BY <1>1, <1>3
<1>5. s \in AnswerTypes \cup OtherTypes /\ t \in AnswerTypes \cup OtherTypes
  BY FieldsOfType
<1>6. CASE ~(s \in AnswerTypes /\ t \in AnswerTypes)
  BY <1>4, <1>5, <1>6 DEF OtherTypes
<1>7. QED BY <1>2, <1>6

\* A refusal with the fields of one reads as the answer to every request, and as nothing else.
LEMMA RefusalReadings ==
  ASSUME NEW wire, HasFields(wire, ErrorFields), NEW type \in FrameType
  PROVE  ReadsAs(wire, type) <=> type \in AnswerTypes
<1>1. type \in AnswerTypes => ReadsAs(wire, type)
  BY AnswerFields DEF ReadsAs
<1>2. ASSUME type \notin AnswerTypes, ReadsAs(wire, type) PROVE FALSE
  <2>1. HasFields(wire, Fields[type]) /\ type \in OtherTypes
    BY <1>2, AnswerFields, FieldsOfType DEF ReadsAs
  <2>2. DOMAIN wire \cap {"prep_version", "plugin", "package", "context", "dependency", "event"} = {}
    BY Marks
  <2>3. \/ type = "Hello" /\ HasFields(wire, HelloFields)
        \/ type = "HelloResult" /\ HasFields(wire, HelloResultFields)
        \/ type = "BuilderRequest" /\ HasFields(wire, BuilderRequestFields)
        \/ type = "ProbeBuildSystemRequest" /\ HasFields(wire, ProbeRequestFields)
        \/ type = "HostPlanningRequest" /\ HasFields(wire, HostRequestFields)
        \/ type = "ProgressEvent" /\ HasFields(wire, ProgressFields)
    BY <2>1, FieldsOfType DEF OtherTypes
  <2>4. QED BY <2>2, <2>3, Marks
<1>3. QED BY <1>1, <1>2

\* What has the field of a refusal names its status.
LEMMA RefusalStatus ==
  ASSUME NEW wire, HasFields(wire, ErrorFields)
  PROVE  wire.status = "error"
BY Marks

\* A set that has more than one element has two.
LEMMA TwoElements ==
  ASSUME NEW S, IsFiniteSet(S), Cardinality(S) > 1
  PROVE  \E x, y \in S : x # y
<1>1. S # {}
  <2>1. Cardinality({}) = 0
    BY FS_EmptySet
  <2>2. QED BY <2>1
<1>2. PICK x \in S : TRUE
  BY <1>1
<1>3. S # {x}
  BY FS_Singleton
<1>4. QED BY <1>2, <1>3

\* There are finitely many types of frames.
LEMMA TypesFinite == IsFiniteSet(FrameType)
<1> DEFINE list == <<"Hello", "HelloResult", "ProbeBuildSystemRequest", "BuilderRequest",
                     "HostPlanningRequest", "ProgressEvent", "ProbeBuildSystemResult",
                     "ConfigureResult", "BuildResult", "TestResult", "InstallToStagingResult",
                     "HostProbeResult", "HostChangePlan">>
<1>1. FrameType = AnswerTypes \cup OtherTypes
  BY FieldsOfType
<1>2. list \in [1..13 -> FrameType]
  BY <1>1 DEF AnswerTypes, OtherTypes
<1>3. \A type \in FrameType : \E i \in 1..13 : list[i] = type
  <2>1. /\ list[1] = "Hello" /\ list[2] = "HelloResult" /\ list[3] = "ProbeBuildSystemRequest"
        /\ list[4] = "BuilderRequest" /\ list[5] = "HostPlanningRequest"
        /\ list[6] = "ProgressEvent" /\ list[7] = "ProbeBuildSystemResult"
        /\ list[8] = "ConfigureResult" /\ list[9] = "BuildResult" /\ list[10] = "TestResult"
        /\ list[11] = "InstallToStagingResult" /\ list[12] = "HostProbeResult"
        /\ list[13] = "HostChangePlan"
    OBVIOUS
  <2> HIDE DEF list
  <2>2. QED BY <1>1, <2>1 DEF AnswerTypes, OtherTypes
<1> HIDE DEF list
<1>4. list \in Surjection(1..13, FrameType)
  BY <1>2, <1>3 DEF Surjection
<1>5. QED BY <1>4, FS_NatSurjection DEF ExistsSurjection

\* What the constructor of a type writes reads as that type.
LEMMA WrittenReads ==
  ASSUME NEW type \in FrameType, NEW wire \in Written(type)
  PROVE  ReadsAs(wire, type)
<1> DEFINE head == [protocol |-> "text", id |-> "text"]
           event == With(head, [type |-> "event", event |-> "progress", message |-> "text"])
           result == With(head, [type |-> "result"])
<1>1. CASE type = "Hello"
  <2>1. wire = With(head, [type |-> "hello", prep_version |-> "text"])
    BY <1>1 DEF Written
  <2>2. HasFields(wire, HelloFields)
    BY <2>1 DEF HasFields, HelloFields, Envelope, With, Text, Words
  <2>3. QED BY <1>1, <2>2, FieldsOfType DEF ReadsAs
<1>2. CASE type = "HelloResult"
  <2>1. wire = With(head, [type |-> "hello_result", plugin |-> "descriptor"])
    BY <1>2 DEF Written
  <2>2. HasFields(wire, HelloResultFields)
    BY <2>1 DEF HasFields, HelloResultFields, Envelope, With, Text, Words
  <2>3. QED BY <1>2, <2>2, FieldsOfType DEF ReadsAs
<1>3. CASE type = "ProbeBuildSystemRequest"
  <2>1. wire = With(head, [type |-> "probe_build_system", context |-> "empty"])
    BY <1>3 DEF Written
  <2>2. "probe_build_system" \in PluginOperation /\ "empty" \in Json /\ "text" \in Text
    BY DEF PluginOperation, Json, Objects, Text
  <2>3. HasFields(wire, ProbeRequestFields)
    BY <2>1, <2>2 DEF HasFields, ProbeRequestFields, Envelope, With
  <2>4. QED BY <1>3, <2>3, FieldsOfType DEF ReadsAs
<1>4. CASE type = "BuilderRequest"
  <2>1. PICK op \in BuilderOperation :
          wire = With(head, [type |-> op, package |-> "package", context |-> "execution context",
                             arguments |-> "texts"])
    BY <1>4 DEF Written
  <2>2. "text" \in Text
    BY DEF Text
  <2>3. HasFields(wire, BuilderRequestFields)
    <3>1. /\ BuilderRequestFields["protocol"] = Text /\ BuilderRequestFields["id"] = Text
          /\ BuilderRequestFields["type"] = BuilderOperation
          /\ BuilderRequestFields["package"] = {"package"}
          /\ BuilderRequestFields["context"] = {"execution context"}
          /\ BuilderRequestFields["arguments"] = {"texts"}
      BY DEF BuilderRequestFields, Envelope, With
    <3>2. /\ DOMAIN wire = {"protocol", "id", "type", "package", "context", "arguments"}
          /\ wire["protocol"] = "text" /\ wire["id"] = "text" /\ wire["type"] = op
          /\ wire["package"] = "package" /\ wire["context"] = "execution context"
          /\ wire["arguments"] = "texts"
      BY <2>1 DEF With
    <3>3. DOMAIN BuilderRequestFields = {"protocol", "id", "type", "package", "context", "arguments"}
      BY FieldNames
    <3>4. QED BY <2>2, <3>1, <3>2, <3>3, ZenonT(60) DEF HasFields
  <2>4. QED BY <1>4, <2>3, FieldsOfType DEF ReadsAs
<1>5. CASE type = "HostPlanningRequest"
  <2>1. PICK op \in HostOperation :
          wire = With(head, [type |-> op, dependency |-> "host dependency"])
    BY <1>5 DEF Written
  <2>2. "text" \in Text
    BY DEF Text
  <2>3. HasFields(wire, HostRequestFields)
    <3>1. /\ HostRequestFields["protocol"] = Text /\ HostRequestFields["id"] = Text
          /\ HostRequestFields["type"] = HostOperation
          /\ HostRequestFields["dependency"] = {"host dependency"}
      BY DEF HostRequestFields, Envelope, With
    <3>2. /\ DOMAIN wire = {"protocol", "id", "type", "dependency"}
          /\ wire["protocol"] = "text" /\ wire["id"] = "text" /\ wire["type"] = op
          /\ wire["dependency"] = "host dependency"
      BY <2>1 DEF With
    <3>3. DOMAIN HostRequestFields = {"protocol", "id", "type", "dependency"}
      BY FieldNames
    <3>4. QED BY <2>2, <3>1, <3>2, <3>3 DEF HasFields
  <2>4. QED BY <1>5, <2>3, FieldsOfType DEF ReadsAs
<1>6. CASE type = "ProgressEvent"
  <2>1. \/ wire = event
        \/ \E done \in [completed : Number, total : Number] :
             ProgressAdmitted(done) /\ wire = With(event, done)
    BY <1>6 DEF Written
  <2>2. "text" \in Text
    BY DEF Text
  <2>3. /\ DOMAIN event = {"protocol", "id", "type", "event", "message"}
        /\ event["protocol"] = "text" /\ event["id"] = "text" /\ event["type"] = "event"
        /\ event["event"] = "progress" /\ event["message"] = "text"
    BY DEF With
  <2>4. /\ ProgressFields["protocol"] = Text /\ ProgressFields["id"] = Text
        /\ ProgressFields["type"] = {"event"} /\ ProgressFields["event"] = {"progress"}
        /\ ProgressFields["message"] = Text
        /\ ProgressFields["completed"] = Number \cup {"null"}
        /\ ProgressFields["total"] = Number \cup {"null"}
    BY DEF ProgressFields, Envelope, With
  <2>5. DOMAIN ProgressFields = {"protocol", "id", "type", "event", "message", "completed", "total"}
    BY FieldNames
  <2> HIDE DEF event
  <2>6. CASE wire = event
    <3>1. HasFields(wire, ProgressFields)
      BY <2>2, <2>3, <2>4, <2>5, <2>6 DEF HasFields, Optional
    <3>2. ProgressAdmitted(wire)
      BY <2>3, <2>6 DEF ProgressAdmitted, Given
    <3>3. QED BY <1>6, <3>1, <3>2, FieldsOfType DEF ReadsAs
  <2>7. ASSUME NEW done \in [completed : Number, total : Number], ProgressAdmitted(done),
               wire = With(event, done)
        PROVE  ReadsAs(wire, type)
    <3>1. DOMAIN done = {"completed", "total"} /\ done["completed"] \in Number /\ done["total"] \in Number
      BY <2>7
    <3>2. DOMAIN wire = {"protocol", "id", "type", "event", "message", "completed", "total"}
      BY <2>3, <2>7, <3>1 DEF With
    <3>3. /\ wire["protocol"] = "text" /\ wire["id"] = "text" /\ wire["type"] = "event"
          /\ wire["event"] = "progress" /\ wire["message"] = "text"
          /\ wire["completed"] = done["completed"] /\ wire["total"] = done["total"]
      BY <2>3, <2>7, <3>1 DEF With
    <3>4. HasFields(wire, ProgressFields)
      BY <2>2, <2>4, <2>5, <3>1, <3>2, <3>3 DEF HasFields
    <3>5. ProgressAdmitted(wire)
      BY <2>7, <3>1, <3>2, <3>3 DEF ProgressAdmitted, Given
    <3>6. QED BY <1>6, <3>4, <3>5, FieldsOfType DEF ReadsAs
  <2>8. QED BY <2>1, <2>6, <2>7
<1>7. CASE type \in AnswerTypes
  <2>1. type \notin {"Hello", "HelloResult", "ProbeBuildSystemRequest", "BuilderRequest",
                     "HostPlanningRequest", "ProgressEvent"}
    BY <1>7 DEF AnswerTypes
  <2>2. wire \in { With(result, [status |-> "ok", value |-> Answers[type]]),
                   With(result, [status |-> "error", error |-> "error body"]) }
    BY <2>1 DEF Written
  <2>3. DOMAIN result = {"protocol", "id", "type"} /\ result["protocol"] = "text"
        /\ result["id"] = "text" /\ result["type"] = "result"
    BY DEF With
  <2>4. "text" \in Text
    BY DEF Text
  <2> HIDE DEF result
  <2>5. CASE wire = With(result, [status |-> "ok", value |-> Answers[type]])
    <3>1. HasFields(wire, OkFields(Answers[type]))
      <4>1. /\ OkFields(Answers[type])["protocol"] = Text /\ OkFields(Answers[type])["id"] = Text
            /\ OkFields(Answers[type])["status"] = {"ok"} /\ OkFields(Answers[type])["type"] = {"result"}
            /\ OkFields(Answers[type])["value"] = {Answers[type]}
        BY DEF OkFields, Envelope, With
      <4>2. /\ DOMAIN wire = {"protocol", "id", "status", "type", "value"}
            /\ wire["protocol"] = "text" /\ wire["id"] = "text" /\ wire["status"] = "ok"
            /\ wire["type"] = "result" /\ wire["value"] = Answers[type]
        BY <2>3, <2>5 DEF With
      <4>3. DOMAIN OkFields(Answers[type]) = {"protocol", "id", "status", "type", "value"}
        BY FieldNames
      <4>4. QED BY <2>4, <4>1, <4>2, <4>3 DEF HasFields
    <3>2. QED BY <1>7, <2>1, <3>1, FieldsOfType DEF ReadsAs
  <2>6. CASE wire = With(result, [status |-> "error", error |-> "error body"])
    <3>1. HasFields(wire, ErrorFields)
      <4>1. /\ ErrorFields["protocol"] = Text /\ ErrorFields["id"] = Text
            /\ ErrorFields["status"] = {"error"} /\ ErrorFields["type"] = {"result"}
            /\ ErrorFields["error"] = {"error body"}
        BY DEF ErrorFields, Envelope, With
      <4>2. /\ DOMAIN wire = {"protocol", "id", "status", "type", "error"}
            /\ wire["protocol"] = "text" /\ wire["id"] = "text" /\ wire["status"] = "error"
            /\ wire["type"] = "result" /\ wire["error"] = "error body"
        BY <2>3, <2>6 DEF With
      <4>3. DOMAIN ErrorFields = {"protocol", "id", "status", "type", "error"}
        BY FieldNames
      <4>4. QED BY <2>4, <4>1, <4>2, <4>3, ZenonT(60) DEF HasFields
    <3>2. QED BY <1>7, <3>1, AnswerFields DEF ReadsAs
  <2>7. QED BY <2>2, <2>5, <2>6
<1>8. QED BY <1>1, <1>2, <1>3, <1>4, <1>5, <1>6, <1>7, FieldsOfType DEF OtherTypes

\* What is true of a line.
LEMMA FrameAnswer ==
  ASSUME NEW line \in Lines, asked.topic = "frame", asked.line = line
  PROVE  FramesReadAsSent
<1> DEFINE wire == line.wire
           readings == {type \in FrameType : DecodeFrame([wire |-> wire, bytes |-> 1], type)}
<1>1. \A type : DecodeFrame([wire |-> wire, bytes |-> 1], type) <=> ReadsAs(wire, type)
  BY FrameAssumption DEF DecodeFrame
<1>2. readings = {type \in FrameType : ReadsAs(wire, type)}
  BY <1>1
<1>3. line.of \in readings \cup {"nobody"}
  BY <1>2, LineAssumption, WrittenReads
<1>4. ASSUME Cardinality(readings) > 1
      PROVE  readings = DOMAIN Answers /\ wire.status = "error"
  <2>1. IsFiniteSet(readings)
    BY TypesFinite, FS_Subset
  <2>2. PICK s \in readings : \E t \in readings : s # t
    BY <1>4, <2>1, TwoElements
  <2>3. HasFields(wire, ErrorFields)
    BY <1>2, <2>2, ReadOnce
  <2>4. \A type \in FrameType : ReadsAs(wire, type) <=> type \in AnswerTypes
    BY <2>3, RefusalReadings
  <2>5. readings = AnswerTypes
    BY <1>2, <2>4, FieldsOfType
  <2>6. QED BY <2>3, <2>5, RefusalStatus, AnswerFields
<1>5. QED BY <1>3, <1>4 DEF FramesReadAsSent

-----------------------------------------------------------------------------
(* Sequences of sequences *)

Followed(s, t) == s \o t
Flat == INSTANCE FoldsOver WITH Op <- Followed, Base <- <<>>

\* A sequence of sequences is flattened from the left, one of them after the other.
LEMMA FlattenTrace ==
  ASSUME NEW S, NEW ss \in Seq(Seq(S))
  PROVE  \E f \in [0..Len(ss) -> Seq(S)] :
            /\ f[0] = <<>>
            /\ \A i \in 1..Len(ss) : f[i] = f[i - 1] \o ss[i]
            /\ FlattenSeq(ss) = f[Len(ss)]
<1> DEFINE n == Len(ss)
<1>1. n \in Nat /\ \A i \in 1..n : ss[i] \in Seq(S)
  OBVIOUS
<1>2. PICK g : /\ g[0] = <<>>
               /\ \A k \in 0..(n - 1) : g[k + 1] = Followed(g[k], ss[k + 1])
  BY Flat!FoldTrace, Zenon
<1> DEFINE f == [i \in 0..n |-> g[i]]
<1> HIDE DEF n
<1>3. \A k \in 0..(n - 1) : f[k + 1] = f[k] \o ss[k + 1]
  <2> SUFFICES ASSUME NEW k \in 0..(n - 1) PROVE f[k + 1] = f[k] \o ss[k + 1]
    OBVIOUS
  <2>1. k \in 0..n /\ k + 1 \in 0..n
    BY <1>1
  <2>2. f[k] = g[k] /\ f[k + 1] = g[k + 1]
    BY <2>1
  <2>3. g[k + 1] = g[k] \o ss[k + 1]
    BY <1>2 DEF Followed
  <2>4. QED BY <2>2, <2>3
<1>4. f[0] = <<>> /\ DOMAIN f = 0..n
  BY <1>1, <1>2
<1> HIDE DEF f
<1>5. \A i \in 1..n : f[i] = f[i - 1] \o ss[i]
  <2> SUFFICES ASSUME NEW i \in 1..n PROVE f[i] = f[i - 1] \o ss[i]
    OBVIOUS
  <2>1. i - 1 \in 0..(n - 1) /\ (i - 1) + 1 = i
    BY <1>1
  <2>2. f[(i - 1) + 1] = f[i - 1] \o ss[(i - 1) + 1]
    BY <1>3, <2>1
  <2>3. QED BY <2>1, <2>2
<1>6. \A i \in Nat : i <= n => f[i] \in Seq(S)
  <2> DEFINE N == {i \in Nat : i <= n => f[i] \in Seq(S)}
  <2>1. 0 \in N
    <3>1. <<>> \in Seq(S)
      OBVIOUS
    <3>2. QED BY <1>4, <3>1
  <2>2. ASSUME NEW i \in Nat, i \in N PROVE i + 1 \in N
    <3>1. CASE i + 1 <= n
      <4>1. f[i] \in Seq(S) /\ i + 1 \in 1..n /\ ss[i + 1] \in Seq(S)
        BY <1>1, <2>2, <3>1
      <4>2. f[i + 1] = f[i] \o ss[i + 1]
        <5>1. i \in 0..(n - 1)
          BY <1>1, <3>1
        <5>2. QED BY <1>3, <5>1
      <4>3. f[i + 1] \in Seq(S)
        BY <4>1, <4>2, ConcatProperties
      <4>4. QED BY <4>3
    <3>2. QED BY <3>1
  <2> HIDE DEF N
  <2>3. \A i \in Nat : i \in N
    BY <2>1, <2>2, Flat!InductionOn
  <2>4. QED BY <2>3 DEF N
<1>7. f \in [0..n -> Seq(S)]
  <2>1. f = [i \in 0..n |-> f[i]]
    BY <1>1, <1>4 DEF f
  <2>2. \A i \in 0..n : f[i] \in Seq(S)
    BY <1>1, <1>6
  <2>3. QED BY <2>1, <2>2
<1>8. FlattenSeq(ss) = f[n]
  <2>1. CASE n = 0
    <3>1. ss = <<>>
      BY <2>1 DEF n
    <3>2. QED BY <1>4, <2>1, <3>1 DEF FlattenSeq, n
  <2>2. CASE n # 0
    <3> DEFINE E(h) == h = [i \in 1..Len(ss) |-> IF i = 1 THEN ss[i] ELSE h[i - 1] \o ss[i]]
               h0 == [i \in 1..n |-> f[i]]
               h == CHOOSE h : E(h)
    <3>1. E(h0)
      <4>1. \A i \in 1..n : h0[i] = IF i = 1 THEN ss[i] ELSE h0[i - 1] \o ss[i]
        <5> SUFFICES ASSUME NEW i \in 1..n
                     PROVE  h0[i] = IF i = 1 THEN ss[i] ELSE h0[i - 1] \o ss[i]
          OBVIOUS
        <5>1. h0[i] = f[i - 1] \o ss[i]
          BY <1>5
        <5>2. CASE i = 1
          <6>1. i - 1 = 0 /\ ss[i] \in Seq(S)
            BY <1>1, <5>2
          <6>2. <<>> \o ss[i] = ss[i]
            BY <6>1, ConcatEmptySeq
          <6>3. f[i - 1] = <<>>
            BY <1>4, <6>1
          <6>4. QED BY <5>1, <5>2, <6>2, <6>3
        <5>3. CASE i # 1
          <6>1. i - 1 \in 1..n
            BY <1>1, <5>3
          <6>2. h0[i - 1] = f[i - 1]
            BY <6>1
          <6>3. QED BY <5>1, <5>3, <6>2
        <5>4. QED BY <5>2, <5>3
      <4>2. h0 = [i \in 1..n |-> h0[i]]
        OBVIOUS
      <4> HIDE DEF h0
      <4>3. h0 = [i \in 1..n |-> IF i = 1 THEN ss[i] ELSE h0[i - 1] \o ss[i]]
        BY <4>1, <4>2
      <4>4. QED BY <4>3 DEF n
    <3>2. E(h)
      <4> HIDE DEF E, h0
      <4> QED BY <3>1
    <3>3. FlattenSeq(ss) = h[n]
      BY <2>2 DEF FlattenSeq, n
    <3>4. \A i \in 1..n : h[i] = IF i = 1 THEN ss[i] ELSE h[i - 1] \o ss[i]
      <4> HIDE DEF h
      <4>1. h = [i \in 1..n |-> IF i = 1 THEN ss[i] ELSE h[i - 1] \o ss[i]]
        BY <3>2 DEF n
      <4> HIDE DEF E
      <4>2. QED BY <4>1
    <3> HIDE DEF h, E, h0
    <3> DEFINE N == {i \in Nat : i \in 1..n => h[i] = f[i]}
    <3>5. 0 \in N
      OBVIOUS
    <3>6. ASSUME NEW i \in Nat, i \in N PROVE i + 1 \in N
      <4>1. CASE i + 1 \in 1..n
        <5>1. f[i + 1] = f[i] \o ss[i + 1]
          <6>1. i \in 0..(n - 1)
            BY <1>1, <4>1
          <6>2. QED BY <1>3, <6>1
        <5>2. CASE i = 0
          <6>1. h[i + 1] = ss[i + 1] /\ ss[i + 1] \in Seq(S)
            BY <1>1, <3>4, <4>1, <5>2
          <6>2. <<>> \o ss[i + 1] = ss[i + 1]
            BY <6>1, ConcatEmptySeq
          <6>3. f[i] = <<>>
            BY <1>4, <5>2
          <6>4. QED BY ONLY <5>1, <6>1, <6>2, <6>3
        <5>3. CASE i # 0
          <6>1. i \in 1..n
            BY <1>1, <4>1, <5>3
          <6>2. h[i + 1] = h[i] \o ss[i + 1]
            <7>1. h[i + 1] = IF i + 1 = 1 THEN ss[i + 1] ELSE h[(i + 1) - 1] \o ss[i + 1]
              BY <3>4, <4>1
            <7>2. (i + 1) - 1 = i /\ i + 1 # 1
              BY <5>3
            <7>3. QED BY <7>1, <7>2
          <6>3. h[i] = f[i]
            BY <3>6, <6>1
          <6>4. h[i + 1] = f[i + 1]
            BY ONLY <5>1, <6>2, <6>3
          <6>5. QED BY <6>4
        <5>4. QED BY <5>2, <5>3
      <4>2. QED BY <4>1
    <3> HIDE DEF N
    <3>7. \A i \in Nat : i \in N
      BY <3>5, <3>6, Flat!InductionOn
    <3>8. n \in N /\ n \in 1..n
      BY <1>1, <2>2, <3>7
    <3>9. QED BY <3>3, <3>8 DEF N
  <2>3. QED BY <2>1, <2>2
<1>9. QED BY <1>4, <1>5, <1>7, <1>8 DEF n

\* What is in a flattened sequence is in one of its parts, and the other way round.
LEMMA FlattenRange ==
  ASSUME NEW S, NEW ss \in Seq(Seq(S))
  PROVE  /\ FlattenSeq(ss) \in Seq(S)
         /\ \A x : x \in Range(FlattenSeq(ss)) <=> \E i \in 1..Len(ss) : x \in Range(ss[i])
<1> DEFINE n == Len(ss)
<1>1. n \in Nat /\ \A i \in 1..n : ss[i] \in Seq(S)
  OBVIOUS
<1>2. PICK f \in [0..n -> Seq(S)] :
        /\ f[0] = <<>>
        /\ \A i \in 1..n : f[i] = f[i - 1] \o ss[i]
        /\ FlattenSeq(ss) = f[n]
  BY FlattenTrace
<1> HIDE DEF n
<1> DEFINE In(k, x) == x \in Range(f[k]) <=> \E i \in 1..k : x \in Range(ss[i])
           N == {k \in Nat : k <= n => \A x : In(k, x)}
<1>3. 0 \in N
  <2>1. Range(<<>>) = {}
    BY DEF Range
  <2>2. \A x : In(0, x)
    BY <1>2, <2>1
  <2>3. QED BY <2>2
<1>4. ASSUME NEW k \in Nat, k \in N PROVE k + 1 \in N
  <2>1. ASSUME k + 1 <= n, NEW x PROVE In(k + 1, x)
    <3>1. k + 1 \in 1..n /\ (k + 1) - 1 = k /\ k \in 0..n
      BY <1>1, <2>1
    <3>2. f[k + 1] = f[k] \o ss[k + 1]
      BY <1>2, <3>1
    <3>3. f[k] \in Seq(S) /\ ss[k + 1] \in Seq(S)
      BY <1>1, <1>2, <3>1
    <3>4. Range(f[k + 1]) = Range(f[k]) \cup Range(ss[k + 1])
      BY <3>2, <3>3, RangeConcatenation
    <3>5. In(k, x)
      BY <1>4, <3>1
    <3>6. \A i : i \in 1..(k + 1) <=> i \in 1..k \/ i = k + 1
      OBVIOUS
    <3>7. QED BY ONLY <3>4, <3>5, <3>6
  <2> HIDE DEF In
  <2>2. QED BY <2>1
<1> HIDE DEF N
<1>5. \A k \in Nat : k \in N
  BY <1>3, <1>4, Flat!InductionOn
<1>6. \A x : In(n, x)
  <2>1. n \in N
    BY <1>1, <1>5
  <2> HIDE DEF In
  <2>2. QED BY <1>1, <2>1 DEF N
<1>7. FlattenSeq(ss) \in Seq(S)
  BY <1>1, <1>2
<1>8. QED BY <1>2, <1>6, <1>7 DEF n

\* A nonempty set of natural numbers has a least one.
LEMMA LeastOf ==
  ASSUME NEW T \in SUBSET Nat, NEW k \in T
  PROVE  \E i \in T : \A j \in T : i <= j
<1> DEFINE N == {n \in Nat : \A k2 \in T : k2 <= n => \E i \in T : \A j \in T : i <= j}
<1>1. 0 \in N
  OBVIOUS
<1>2. ASSUME NEW n \in Nat, n \in N PROVE n + 1 \in N
  <2>1. ASSUME NEW k2 \in T, k2 <= n + 1 PROVE \E i \in T : \A j \in T : i <= j
    <3>1. CASE \E k3 \in T : k3 <= n
      BY <1>2, <3>1
    <3>2. CASE ~\E k3 \in T : k3 <= n
      <4>1. \A j \in T : k2 <= j
        BY <2>1, <3>2
      <4>2. QED BY <4>1
    <3>3. QED BY <3>1, <3>2
  <2>2. QED BY <2>1
<1> HIDE DEF N
<1>3. \A n \in Nat : n \in N
  BY <1>1, <1>2, Flat!InductionOn
<1>4. k \in N
  BY <1>3
<1>5. QED BY <1>4 DEF N

-----------------------------------------------------------------------------
(* That the search ends *)

\* The search can go on until it has ended.
LEMMA GoesOn ==
  ASSUME IInv
  PROVE  SearchNeverStuck
<1> DEFINE names == IF stack = <<>> THEN roots ELSE DependenciesOf(Top)
<1> SUFFICES ASSUME outcome = "visit", ~(names \subseteq permanent)
             PROVE  \E p \in Package : /\ NextOf(names, p)
                                       /\ p \in temporary => \E i \in DOMAIN stack : stack[i] = p
  BY DEF SearchNeverStuck, IInv, Loaded
<1>1. names \subseteq Package
  <2>1. CASE stack = <<>>
    BY <2>1 DEF IInv, Loaded, Known
  <2>2. CASE stack # <<>>
    <3>1. Top \in Package
      BY <2>2 DEF IInv, TypeOK, Top
    <3> QED
      BY <2>2, <3>1 DEF IInv, Loaded, Known, DependenciesOf
  <2> QED
    BY <2>1, <2>2
<1> HIDE DEF names
<1>2. PICK q \in names : q \notin permanent
  OBVIOUS
<1>3. names \ permanent \in SUBSET Nat /\ q \in names \ permanent
  BY <1>1, <1>2, PackageAssumption
<1>4. PICK p \in names \ permanent : \A r \in names \ permanent : p <= r
  BY <1>3, LeastOf
<1>5. NextOf(names, p) /\ p \in Package
  BY <1>1, <1>4 DEF NextOf
<1>6. p \in temporary => \E i \in DOMAIN stack : stack[i] = p
  BY DEF IInv, Search, Elements
<1> QED
  BY <1>5, <1>6

\* Of the packages, those that are not yet done are at least those that stand on the stack.
LEMMA StepsCounted ==
  ASSUME NEW P \in SUBSET Package, NEW T \in SUBSET (Package \ P)
  PROVE  /\ IsFiniteSet(P) /\ IsFiniteSet(T) /\ IsFiniteSet(Package \ P)
         /\ Cardinality(Package) \in Nat
         /\ Cardinality(Package \ P) \in Nat /\ Cardinality(T) \in Nat
         /\ Cardinality(T) <= Cardinality(Package \ P)
         /\ Cardinality(Package \ P) <= Cardinality(Package)
<1>1. IsFiniteSet(Package) /\ Cardinality(Package) \in Nat
  BY PackageAssumption, FS_CardinalityType
<1>2. /\ IsFiniteSet(Package \ P) /\ IsFiniteSet(P)
      /\ Cardinality(Package \ P) <= Cardinality(Package)
  BY <1>1, FS_Subset
<1>3. IsFiniteSet(T) /\ Cardinality(T) <= Cardinality(Package \ P)
  BY <1>2, FS_Subset
<1> QED
  BY <1>1, <1>2, <1>3, FS_CardinalityType

\* Every step of a search brings its end nearer.
LEMMA StepShrinks ==
  ASSUME IInv, Next
  PROVE  StepsLeft' < StepsLeft /\ StepsLeft' \in Nat
<1> DEFINE n == Cardinality(Package)
           white == Cardinality(Package \ permanent)
           grey == Cardinality(temporary)
<1>1. TypeOK /\ TypeOK'
  BY StepIInv DEF IInv
<1>2. /\ IsFiniteSet(permanent) /\ IsFiniteSet(temporary) /\ IsFiniteSet(Package \ permanent)
      /\ n \in Nat /\ white \in Nat /\ grey \in Nat /\ grey <= white /\ white <= n
  <2>1. permanent \in SUBSET Package /\ temporary \in SUBSET (Package \ permanent)
    BY <1>1 DEF TypeOK
  <2> QED
    BY <2>1, StepsCounted
<1>3. white' \in Nat /\ grey' \in Nat /\ grey' <= white'
  <2>1. permanent' \in SUBSET Package /\ temporary' \in SUBSET (Package \ permanent')
    BY <1>1 DEF TypeOK
  <2> QED
    BY <2>1, StepsCounted
<1>4. ASSUME NEW p \in Package, p \notin temporary, outcome = "visit", Enter(p)
      PROVE  StepsLeft' = StepsLeft - 1
  <2>1. grey' = grey + 1 /\ white' = white
    BY <1>2, <1>4, FS_AddElement DEF Enter
  <2> QED
    BY <1>2, <1>4, <2>1, RoomLeft DEF StepsLeft, Enter
<1>5. CASE Load
  <2>1. permanent' = permanent /\ temporary' = temporary /\ outcome' \in {"visit", "missing"}
    BY <1>5 DEF Load, search
  <2>2. StepsLeft = 2 * n + 2
    BY <1>5 DEF Load, StepsLeft
  <2>3. StepsLeft' \in {2 * white - grey + 1, 0}
    BY <2>1 DEF StepsLeft
  <2> HIDE DEF n, white, grey
  <2> QED
    BY <1>2, <2>2, <2>3
<1>6. ASSUME NEW p \in Package, outcome = "visit", Report(p)
      PROVE  StepsLeft' = 0
  BY <1>6 DEF Report, StepsLeft
<1>7. outcome = "visit" => StepsLeft = 2 * white - grey + 1
  BY DEF StepsLeft
<1>8. outcome' = "visit" => StepsLeft' = 2 * white' - grey' + 1
  BY DEF StepsLeft
<1>9. CASE Return
  <2>1. /\ stack # <<>> /\ outcome = "visit" /\ outcome' = "visit"
        /\ permanent' = permanent \cup {Top} /\ temporary' = temporary \ {Top}
    BY <1>9 DEF Return
  <2>2. Top \in temporary /\ Top \in Package \ permanent
    <3>1. Len(stack) \in DOMAIN stack
      BY <2>1 DEF IInv, TypeOK
    <3> QED
      BY <1>1, <3>1 DEF IInv, Search, Elements, Top, TypeOK
  <2>3. Package \ permanent' = (Package \ permanent) \ {Top}
    BY <2>1
  <2>4. white' = white - 1
    BY <1>2, <2>2, <2>3, FS_RemoveElement, ZenonT(60)
  <2>5. grey' = grey - 1
    BY <1>2, <2>1, <2>2, FS_RemoveElement
  <2> HIDE DEF white, grey
  <2> QED
    BY <1>2, <1>3, <1>7, <1>8, <2>1, <2>4, <2>5
<1>10. CASE Finish
  BY <1>2, <1>7, <1>10 DEF Finish, StepsLeft
<1>11. ASSUME NEW p \in Name, VisitRoot(p)
       PROVE  p \in Package /\ Enter(p) /\ p \notin temporary /\ outcome = "visit"
  BY <1>11, VisitRootStep DEF VisitRoot, IInv, Search, Elements
<1>12. ASSUME NEW p \in Name, VisitDependency(p)
       PROVE  /\ p \in Package /\ outcome = "visit"
              /\ Report(p) \/ (Enter(p) /\ p \notin temporary)
  BY <1>12, VisitDependencyStep DEF VisitDependency
<1> HIDE DEF n, white, grey
<1>13. outcome = "visit" => StepsLeft \in Nat \ {0}
  BY <1>2, <1>7
<1>14. ASSUME NEW p \in Name, VisitRoot(p) \/ VisitDependency(p)
       PROVE  StepsLeft' < StepsLeft /\ StepsLeft' \in Nat
  BY <1>4, <1>6, <1>11, <1>12, <1>13, <1>14
<1> QED
  BY <1>5, <1>9, <1>10, <1>14 DEF Next

\* Whatever the lockfile is: a search that has not ended can take a step, and the stack
\* has room for it.
THEOREM SearchGoesOn == Spec => []SearchNeverStuck
<1>1. IInv => SearchNeverStuck
  BY GoesOn
<1> QED
  BY <1>1, SearchInvariant, PTL

\* Whatever the lockfile is: every step of a search leaves fewer to come, so it ends after
\* at most two for each package and two more.
THEOREM SearchTerminates == Spec => SearchShrinks
<1>1. IInv /\ [Next]_vars => [StepsLeft' < StepsLeft /\ StepsLeft' \in Nat]_vars
  BY StepShrinks
<1> QED
  BY <1>1, SearchInvariant, PTL DEF Spec, SearchShrinks

\* So it is beside the other decisions: a search that has not ended can go on, and each of
\* its steps brings its end nearer.
THEOREM SearchEndsAmongDecisions == DSpec => []SearchNeverStuck /\ SearchShrinks
<1>1. IInv => SearchNeverStuck
  BY GoesOn
<1>2. IInv /\ [DNext]_allVars => [StepsLeft' < StepsLeft /\ StepsLeft' \in Nat]_vars
  BY DecisionStep, StepShrinks
<1> QED
  BY <1>1, <1>2, InvariantAmongDecisions, PTL DEF DSpec, SearchShrinks

-----------------------------------------------------------------------------
(* Git *)

\* A finite set as a sequence has each element once.
LEMMA SetAsSequence ==
  ASSUME NEW S, IsFiniteSet(S)
  PROVE  /\ Cardinality(S) \in Nat
         /\ SetToSeq(S) \in [1..Cardinality(S) -> S] /\ SetToSeq(S) \in Seq(S)
         /\ Len(SetToSeq(S)) = Cardinality(S) /\ DOMAIN SetToSeq(S) = 1..Cardinality(S)
         /\ Range(SetToSeq(S)) = S /\ IsInjective(SetToSeq(S))
<1> DEFINE n == Cardinality(S)
           s == SetToSeq(S)
<1>1. n \in Nat /\ ExistsBijection(1..n, S)
  BY FS_CardinalityType
<1>2. PICK f \in [1..n -> S] : IsInjective(f)
  BY <1>1 DEF ExistsBijection, Bijection, Injection, IsInjective
<1>3. s \in [1..n -> S] /\ IsInjective(s)
  BY <1>2 DEF SetToSeq
<1> HIDE DEF s, n
<1>4. s \in Injection(1..n, S)
  BY <1>3 DEF Injection, IsInjective
<1>5. IsFiniteSet(1..n) /\ Cardinality(1..n) = n
  <2>1. IsFiniteSet(1..n) /\ Cardinality(1..n) = IF 1 > n THEN 0 ELSE n - 1 + 1
    BY <1>1, FS_Interval
  <2>2. QED BY <1>1, <2>1
<1>6. s \in Surjection(1..n, S)
  BY <1>4, <1>5, FS_Injection DEF n
<1>7. Range(s) = S
  BY <1>3, <1>6 DEF Surjection, Range
<1>8. s \in Seq(S) /\ Len(s) = n /\ DOMAIN s = 1..n
  BY <1>1, <1>3
<1>9. QED BY <1>1, <1>3, <1>7, <1>8 DEF s, n

\* Every line that Git prints of a remote is about a ref of the remote.
LEMMA PrintedLines ==
  ASSUME NEW remote \in Remotes, NEW peel \in BOOLEAN
  PROVE  /\ \E S : Printed(remote, peel) \in Seq(S)
         /\ \A line \in Range(Printed(remote, peel)) : \E r \in DOMAIN remote :
              \/ line = [object |-> remote[r].id, ref |-> r]
              \/ line = [object |-> remote[r].target, ref |-> Peeled(r)]
<1> DEFINE refs == SetToSeq(DOMAIN remote)
           Direct(r) == [object |-> remote[r].id, ref |-> r]
           Beyond(r) == [object |-> remote[r].target, ref |-> Peeled(r)]
           print(r) == <<Direct(r)>> \o
               (IF peel /\ remote[r].id # remote[r].target THEN <<Beyond(r)>> ELSE <<>>)
           S == {Direct(r) : r \in DOMAIN remote} \cup {Beyond(r) : r \in DOMAIN remote}
           ss == [i \in DOMAIN refs |-> print(refs[i])]
<1>1. /\ DOMAIN refs = 1..Len(refs) /\ Len(refs) \in Nat
      /\ \A i \in DOMAIN refs : refs[i] \in DOMAIN remote
  BY GitAssumption, SetAsSequence
<1>2. \A r \in DOMAIN remote : print(r) \in Seq(S)
  <2> SUFFICES ASSUME NEW r \in DOMAIN remote PROVE print(r) \in Seq(S)
    OBVIOUS
  <2>1. Direct(r) \in S /\ Beyond(r) \in S
    OBVIOUS
  <2> HIDE DEF Direct, Beyond, S
  <2>2. <<Direct(r)>> \in Seq(S) /\ <<Beyond(r)>> \in Seq(S) /\ <<>> \in Seq(S)
    BY <2>1
  <2>3. QED BY <2>2, ConcatProperties
<1>3. ss \in Seq(Seq(S))
  <2> HIDE DEF print, S, refs
  <2>1. \A i \in 1..Len(refs) : print(refs[i]) \in Seq(S)
    BY <1>1, <1>2
  <2>2. ss = [i \in 1..Len(refs) |-> print(refs[i])]
    BY <1>1
  <2>3. QED BY <1>1, <2>1, <2>2
<1>4. Printed(remote, peel) = FlattenSeq(ss)
  BY DEF Printed
<1> HIDE DEF ss
<1>5. Printed(remote, peel) \in Seq(S)
  BY <1>3, <1>4, FlattenRange
<1>6. \A line \in Range(Printed(remote, peel)) : line \in S
  BY <1>5, RangeOfSeq
<1>7. QED BY <1>5, <1>6

\* What a ref is taken to stand for is its object, or what that is a tag of.
LEMMA FoundIsOfRef ==
  ASSUME NEW remote \in Remotes, NEW peel \in BOOLEAN, NEW ref \in RefsAsked,
         RefParsed(Printed(remote, peel), ref) # NoObject
  PROVE  /\ ref \in DOMAIN remote
         /\ RefParsed(Printed(remote, peel), ref) \in {remote[ref].id, remote[ref].target}
<1> DEFINE lines == Printed(remote, peel)
           direct == LinesOf(lines, ref)
           peeled == IF ref.space = "tags" THEN LinesOf(lines, Peeled(ref)) ELSE {}
           from == IF peeled # {} THEN peeled ELSE direct
           i == CHOOSE i \in from : TRUE
<1>1. /\ Cardinality(direct) = 1
      /\ RefParsed(lines, ref) = lines[i].object
  BY DEF RefParsed
<1>2. direct # {}
  <2>1. Cardinality({}) = 0
    BY FS_EmptySet
  <2>2. QED BY <1>1, <2>1
<1>3. from # {} /\ i \in from
  <2>1. from # {}
    BY <1>2
  <2> HIDE DEF from
  <2>2. QED BY <2>1
<1>4. DOMAIN remote \subseteq Ref /\ ref \in Ref
  BY GitAssumption
<1>5. ASSUME NEW j \in DOMAIN lines
      PROVE  \E r \in DOMAIN remote :
                \/ lines[j].object = remote[r].id /\ lines[j].ref = r
                \/ lines[j].object = remote[r].target /\ lines[j].ref = Peeled(r)
  <2>1. lines[j] \in Range(lines)
    BY DEF Range
  <2>2. PICK r \in DOMAIN remote :
              \/ lines[j] = [object |-> remote[r].id, ref |-> r]
              \/ lines[j] = [object |-> remote[r].target, ref |-> Peeled(r)]
    BY <2>1, PrintedLines
  <2>3. QED BY <2>2
<1>6. \A r \in Ref : Peeled(r).form = "peeled" /\ Peeled(r).name = r.name /\ Peeled(r).space = r.space
  BY DEF Ref, Peeled
<1>7. \A r \in Ref : r.form = "ref"
  BY DEF Ref
<1>8. \A r, q \in Ref : r.name = q.name /\ r.space = q.space => r = q
  BY DEF Ref
<1> HIDE DEF lines
<1>9. \A j \in direct : ref \in DOMAIN remote /\ lines[j].object = remote[ref].id
  <2> SUFFICES ASSUME NEW j \in direct
               PROVE  ref \in DOMAIN remote /\ lines[j].object = remote[ref].id
    OBVIOUS
  <2>1. j \in DOMAIN lines /\ lines[j].ref = ref
    BY DEF LinesOf
  <2>2. PICK r \in DOMAIN remote :
                \/ lines[j].object = remote[r].id /\ lines[j].ref = r
                \/ lines[j].object = remote[r].target /\ lines[j].ref = Peeled(r)
    BY <1>5, <2>1
  <2>3. lines[j].ref # Peeled(r)
    BY <1>4, <1>6, <1>7, <2>1
  <2>4. QED BY <2>1, <2>2, <2>3
<1>10. \A j \in peeled : ref \in DOMAIN remote /\ lines[j].object = remote[ref].target
  <2> SUFFICES ASSUME NEW j \in peeled
               PROVE  ref \in DOMAIN remote /\ lines[j].object = remote[ref].target
    OBVIOUS
  <2>1. j \in DOMAIN lines /\ lines[j].ref = Peeled(ref)
    BY DEF LinesOf
  <2>2. PICK r \in DOMAIN remote :
                \/ lines[j].object = remote[r].id /\ lines[j].ref = r
                \/ lines[j].object = remote[r].target /\ lines[j].ref = Peeled(r)
    BY <1>5, <2>1
  <2>3. lines[j].ref # r
    BY <1>4, <1>6, <1>7, <2>1
  <2>4. r = ref
    BY <1>4, <1>6, <1>8, <2>1, <2>2, <2>3
  <2>5. QED BY <2>2, <2>3, <2>4
<1> HIDE DEF direct, peeled, i
<1>11. i \in direct \/ i \in peeled
  BY <1>3
<1>12. ref \in DOMAIN remote /\ lines[i].object \in {remote[ref].id, remote[ref].target}
  BY <1>9, <1>10, <1>11
<1>13. QED BY <1>1, <1>12 DEF lines

\* What a ref was found to be and is taken for a commit is the commit the ref stands for.
LEMMA CommitIsTarget ==
  ASSUME NEW remote \in Remotes, NEW ref \in DOMAIN remote, NEW found,
         found \in {remote[ref].id, remote[ref].target}, CommitKind(KindPrinted(remote, found))
  PROVE  remote[ref].kind = "commit" /\ found = remote[ref].target
<1> DEFINE objects == {remote[r] : r \in DOMAIN remote}
           o == CHOOSE o \in objects : o.target = found
<1>1. KindPrinted(remote, found) = "commit"
  BY DEF CommitKind
<1>2. ~\E x \in objects : x.id = found /\ x.id # x.target
  BY <1>1 DEF KindPrinted
<1>3. found = remote[ref].target
  BY <1>2
<1>4. \E x \in objects : x.target = found
  BY <1>3
<1>5. o \in objects /\ o.target = found
  BY <1>4
<1>6. o.kind = "commit"
  BY <1>1, <1>2, <1>4 DEF KindPrinted
<1> HIDE DEF o
<1>7. PICK r \in DOMAIN remote : o = remote[r]
  BY <1>5
<1>8. remote[r].kind = remote[ref].kind
  BY <1>3, <1>5, <1>7, GitAssumption
<1>9. QED BY <1>3, <1>6, <1>7, <1>8

\* The commit that the only ref of a remote stands for is taken for one.
LEMMA TargetIsCommit ==
  ASSUME NEW remote \in Remotes, NEW ref, DOMAIN remote = {ref}, NEW found,
         found = remote[ref].target, remote[ref].kind = "commit"
  PROVE  CommitKind(KindPrinted(remote, found))
<1> DEFINE objects == {remote[r] : r \in DOMAIN remote}
<1>1. objects = {remote[ref]}
  OBVIOUS
<1>2. ~\E x \in objects : x.id = found /\ x.id # x.target
  BY <1>1
<1>3. \E x \in objects : x.target = found
  BY <1>1
<1>4. (CHOOSE x \in objects : x.target = found) = remote[ref]
  BY <1>1, <1>3
<1>5. QED BY <1>2, <1>3, <1>4 DEF CommitKind, KindPrinted

\* The listing of a tree that is not empty is admitted exactly if it is complete, not too
\* long, and of plain files with safe paths and IDs of one length.
LEMMA ListingOfTree ==
  ASSUME NEW tree \in Trees, tree # <<>>, NEW ended \in BOOLEAN
  PROVE  ListingAdmitted(Listed(tree), ended) <=>
           /\ ended /\ Cardinality(DOMAIN tree) <= MaxListed
           /\ \A path \in DOMAIN tree :
                /\ tree[path].mode \in {"100644", "100755"} /\ SafePath(path)
                /\ \A other \in DOMAIN tree : tree[other].idBytes = tree[path].idBytes
<1> DEFINE paths == SetToSeq(DOMAIN tree)
           records == Listed(tree)
           n == Cardinality(DOMAIN tree)
           Record(path) == [form |-> "record", path |-> path, mode |-> tree[path].mode,
                            kind |-> KindOf(tree[path].mode), idBytes |-> tree[path].idBytes]
<1>1. /\ IsFiniteSet(DOMAIN tree) /\ tree = [path \in DOMAIN tree |-> tree[path]]
      /\ \A path \in DOMAIN tree : tree[path].idBytes \in {40, 64}
  BY GitAssumption
<1>2. /\ n \in Nat /\ DOMAIN paths = 1..n /\ Range(paths) = DOMAIN tree /\ IsInjective(paths)
      /\ \A i \in 1..n : paths[i] \in DOMAIN tree
  BY <1>1, SetAsSequence
<1>3. n # 0
  <2>1. DOMAIN tree # {}
    <3>1. SUFFICES ASSUME DOMAIN tree = {} PROVE FALSE
      OBVIOUS
    <3>2. tree = [path \in {} |-> tree[path]]
      BY <1>1, <3>1
    <3>3. tree \in [1..0 -> {}] /\ tree \in Seq({})
      BY <3>2
    <3>4. QED BY <3>3
  <2>2. QED BY <1>1, <2>1, FS_EmptySet
<1>4. records = [i \in 1..n |-> Record(paths[i])]
  BY <1>2 DEF Listed
<1> HIDE DEF n, paths, records
<1>5. records # <<>> /\ Len(records) = n /\ DOMAIN records = 1..n
  <2>1. DOMAIN records = 1..n
    BY <1>4
  <2>2. Len(records) = n
    BY <1>2, <1>4
  <2>3. 1 \in DOMAIN records
    BY <1>2, <1>3, <2>1
  <2>4. DOMAIN <<>> = {}
    OBVIOUS
  <2>5. QED BY <2>1, <2>2, <2>3, <2>4
<1>6. \A r : r \in Range(records) <=> \E path \in DOMAIN tree : r = Record(path)
  <2>1. \A i \in 1..n : records[i] = Record(paths[i])
    BY <1>4
  <2>2. \A path \in DOMAIN tree : \E i \in 1..n : path = paths[i]
    BY <1>2 DEF Range
  <2> HIDE DEF Record
  <2>3. QED BY <1>2, <1>5, <2>1, <2>2 DEF Range
<1>7. IsInjective([i \in DOMAIN records |-> records[i].path])
  <2>1. [i \in DOMAIN records |-> records[i].path] = paths
    <3>1. \A i \in 1..n : records[i].path = paths[i]
      BY <1>4
    <3>2. paths = [i \in 1..n |-> paths[i]]
      BY <1>1, <1>2, SetAsSequence DEF paths, n
    <3>3. QED BY <1>5, <3>1, <3>2
  <2>2. QED BY <1>2, <2>1
<1>8. \A path \in DOMAIN tree :
        RecordAdmitted(Record(path)) <=> SafePath(path) /\ tree[path].mode \in {"100644", "100755"}
  <2> SUFFICES ASSUME NEW path \in DOMAIN tree
               PROVE  RecordAdmitted(Record(path)) <=> SafePath(path) /\ tree[path].mode \in {"100644", "100755"}
    OBVIOUS
  <2>1. /\ Record(path).form = "record" /\ Record(path).path = path
        /\ Record(path).mode = tree[path].mode /\ Record(path).kind = KindOf(tree[path].mode)
        /\ Record(path).idBytes = tree[path].idBytes
    OBVIOUS
  <2>2. tree[path].mode \in {"100644", "100755"} => KindOf(tree[path].mode) = "blob"
    BY DEF KindOf
  <2> HIDE DEF Record
  <2>3. QED BY <1>1, <2>1, <2>2 DEF RecordAdmitted
<1>9. (\A r \in Range(records) : RecordAdmitted(r))
        <=> \A path \in DOMAIN tree : SafePath(path) /\ tree[path].mode \in {"100644", "100755"}
  <2> HIDE DEF Record
  <2>1. QED BY <1>6, <1>8
<1>10. (\A r, q \in Range(records) : r.idBytes = q.idBytes)
        <=> \A path, other \in DOMAIN tree : tree[other].idBytes = tree[path].idBytes
  <2>1. \A path \in DOMAIN tree : Record(path).idBytes = tree[path].idBytes
    OBVIOUS
  <2> HIDE DEF Record
  <2>2. QED BY <1>6, <2>1
<1>11. ListingAdmitted(records, ended) <=>
         /\ ended /\ n <= MaxListed
         /\ \A r \in Range(records) : RecordAdmitted(r)
         /\ \A r, q \in Range(records) : r.idBytes = q.idBytes
  BY <1>5, <1>7 DEF ListingAdmitted
<1> HIDE DEF Record
<1>12. QED BY <1>9, <1>10, <1>11 DEF n, records

\* An empty tree prints nothing, which is admitted.
LEMMA EmptyListing == \A ended : ListingAdmitted(Listed(<<>>), ended)
<1>1. IsFiniteSet(DOMAIN <<>>) /\ Cardinality(DOMAIN <<>>) = 0
  BY FS_EmptySet
<1>2. DOMAIN SetToSeq(DOMAIN <<>>) = {}
  BY <1>1, SetAsSequence
<1>3. Listed(<<>>) = <<>>
  BY <1>2 DEF Listed
<1>4. QED BY <1>3 DEF ListingAdmitted

\* A source that passed is the commit its ref stands for, and a plain commit passes.
LEMMA GitAnswer ==
  ASSUME NEW remote \in Remotes, NEW ref \in RefsAsked, NEW peel \in BOOLEAN, NEW tree \in Trees,
         NEW ended \in BOOLEAN, NEW checkedOut \in BOOLEAN,
         asked = [topic |-> "git", remote |-> remote, ref |-> ref, peel |-> peel, tree |-> tree,
                  ended |-> ended, checkedOut |-> checkedOut]
  PROVE  GitSourceIsWhatRefNamed
<1> DEFINE found == RefParsed(Printed(remote, peel), ref)
           head == IF checkedOut THEN found ELSE NoObject
           passed ==
                /\ found # NoObject /\ CommitKind(KindPrinted(remote, found))
                /\ ListingAdmitted(Listed(tree), ended)
                /\ HeadVerified([kind |-> "git", object |-> found], head)
           plain == /\ ended /\ checkedOut
                    /\ \A path \in DOMAIN tree :
                         /\ tree[path].mode \in {"100644", "100755"} /\ SafePath(path)
                         /\ \A other \in DOMAIN tree : tree[other].idBytes = tree[path].idBytes
           stands(object) == object.kind = "commit" /\ found = object.target
<1> HIDE DEF found
<1>1. HeadVerified([kind |-> "git", object |-> found], head) <=> found = head
  BY DEF HeadVerified
<1>2. ASSUME passed, tree # <<>>
      PROVE  ref \in DOMAIN remote /\ stands(remote[ref]) /\ plain
  <2>1. ref \in DOMAIN remote /\ found \in {remote[ref].id, remote[ref].target}
    BY <1>2, FoundIsOfRef DEF found
  <2>2. stands(remote[ref])
    BY <1>2, <2>1, CommitIsTarget
  <2>3. checkedOut
    BY <1>1, <1>2
  <2>4. QED BY <1>2, <2>1, <2>2, <2>3, ListingOfTree
<1>3. ASSUME DOMAIN remote = {ref}, stands(remote[ref]), plain, Cardinality(DOMAIN tree) <= MaxListed
      PROVE  passed
  <2>1. found # NoObject
    BY <1>3, GitAssumption
  <2>2. CommitKind(KindPrinted(remote, found))
    BY <1>3, TargetIsCommit
  <2>3. ListingAdmitted(Listed(tree), ended)
    BY <1>3, EmptyListing, ListingOfTree
  <2>4. QED BY <1>1, <1>3, <2>1, <2>2, <2>3
<1>4. QED BY <1>2, <1>3 DEF GitSourceIsWhatRefNamed, found

-----------------------------------------------------------------------------
(* Activation *)

\* The path that a step along a tree comes to.
StepTo(tree, from, name) ==
    LET p == Append(from, name)
    IN  IF from = Nowhere \/ p \notin DOMAIN tree THEN Nowhere
        ELSE IF tree[p].kind = "link" THEN tree[p].to ELSE p

\* Where a path of two or three names leads.
LEMMA RealPath ==
  ASSUME NEW tree
  PROVE  /\ \A a, b : Real(tree, <<a, b>>) = StepTo(tree, StepTo(tree, <<>>, a), b)
         /\ \A a, b, c : Real(tree, <<a, b, c>>) = StepTo(tree, StepTo(tree, StepTo(tree, <<>>, a), b), c)
<1> DEFINE E(at, path) == at = [n \in 0..Len(path) |->
                             IF n = 0 THEN <<>> ELSE StepTo(tree, at[n - 1], path[n])]
<1>1. \A path : Real(tree, path) = (CHOOSE at : E(at, path))[Len(path)]
  BY DEF Real, StepTo
<1>2. ASSUME NEW path, NEW at, E(at, path), Len(path) \in Nat
      PROVE  /\ at[0] = <<>>
             /\ \A n \in 1..Len(path) : at[n] = StepTo(tree, at[n - 1], path[n])
  <2> HIDE DEF StepTo
  <2> QED BY <1>2
<1>3. ASSUME NEW a, NEW b
      PROVE  Real(tree, <<a, b>>) = StepTo(tree, StepTo(tree, <<>>, a), b)
  <2> DEFINE path == <<a, b>>
             x == StepTo(tree, <<>>, a)
             h == [n \in 0..2 |-> IF n = 0 THEN <<>> ELSE IF n = 1 THEN x ELSE StepTo(tree, x, b)]
             at == CHOOSE at : E(at, path)
  <2>1. Len(path) = 2 /\ path[1] = a /\ path[2] = b
    OBVIOUS
  <2>2. E(h, path)
    <3> HIDE DEF StepTo
    <3>1. h[0] = <<>> /\ h[1] = StepTo(tree, h[0], a) /\ h[2] = StepTo(tree, h[1], b)
      OBVIOUS
    <3>2. \A n \in 0..2 : h[n] = IF n = 0 THEN <<>> ELSE StepTo(tree, h[n - 1], path[n])
      <4> HIDE DEF h, path
      <4>1. h[1 - 1] = h[0] /\ h[2 - 1] = h[1]
        OBVIOUS
      <4>2. QED BY <2>1, <3>1, <4>1
    <3>3. h = [n \in 0..2 |-> h[n]]
      OBVIOUS
    <3> HIDE DEF h, path
    <3>4. h = [n \in 0..2 |-> IF n = 0 THEN <<>> ELSE StepTo(tree, h[n - 1], path[n])]
      BY <3>2, <3>3
    <3>5. QED BY <2>1, <3>4
  <2> HIDE DEF E, path, h, StepTo, x
  <2>3. E(at, path)
    BY <2>2
  <2> HIDE DEF at
  <2>4. at[0] = <<>> /\ \A n \in 1..2 : at[n] = StepTo(tree, at[n - 1], path[n])
    <3>1. Len(path) \in Nat
      BY <2>1
    <3>2. at[0] = <<>> /\ \A n \in 1..Len(path) : at[n] = StepTo(tree, at[n - 1], path[n])
      BY <1>2, <2>3, <3>1, Zenon
    <3>3. QED BY <2>1, <3>2
  <2>5. at[1] = StepTo(tree, at[0], a) /\ at[2] = StepTo(tree, at[1], b)
    <3>1. at[1] = StepTo(tree, at[1 - 1], path[1]) /\ at[2] = StepTo(tree, at[2 - 1], path[2])
      BY <2>4
    <3>2. 1 - 1 = 0 /\ 2 - 1 = 1
      OBVIOUS
    <3>3. QED BY <2>1, <3>1, <3>2
  <2>6. Real(tree, path) = at[2]
    BY <1>1, <2>1 DEF at
  <2>7. QED BY <2>4, <2>5, <2>6 DEF path
<1>4. ASSUME NEW a, NEW b, NEW c
      PROVE  Real(tree, <<a, b, c>>) = StepTo(tree, StepTo(tree, StepTo(tree, <<>>, a), b), c)
  <2> DEFINE path == <<a, b, c>>
             x == StepTo(tree, <<>>, a)
             y == StepTo(tree, x, b)
             h == [n \in 0..3 |-> IF n = 0 THEN <<>> ELSE IF n = 1 THEN x ELSE
                                  IF n = 2 THEN y ELSE StepTo(tree, y, c)]
             at == CHOOSE at : E(at, path)
  <2>1. Len(path) = 3 /\ path[1] = a /\ path[2] = b /\ path[3] = c
    OBVIOUS
  <2>2. E(h, path)
    <3> HIDE DEF StepTo
    <3>1. /\ h[0] = <<>> /\ h[1] = StepTo(tree, h[0], a) /\ h[2] = StepTo(tree, h[1], b)
          /\ h[3] = StepTo(tree, h[2], c)
      OBVIOUS
    <3>2. \A n \in 0..3 : h[n] = IF n = 0 THEN <<>> ELSE StepTo(tree, h[n - 1], path[n])
      <4> HIDE DEF h, path
      <4>1. h[1 - 1] = h[0] /\ h[2 - 1] = h[1] /\ h[3 - 1] = h[2]
        OBVIOUS
      <4>2. QED BY <2>1, <3>1, <4>1
    <3>3. h = [n \in 0..3 |-> h[n]]
      OBVIOUS
    <3> HIDE DEF h, path
    <3>4. h = [n \in 0..3 |-> IF n = 0 THEN <<>> ELSE StepTo(tree, h[n - 1], path[n])]
      BY <3>2, <3>3
    <3>5. QED BY <2>1, <3>4
  <2> HIDE DEF E, path, h, StepTo, x, y
  <2>3. E(at, path)
    BY <2>2
  <2> HIDE DEF at
  <2>4. at[0] = <<>> /\ \A n \in 1..3 : at[n] = StepTo(tree, at[n - 1], path[n])
    <3>1. Len(path) \in Nat
      BY <2>1
    <3>2. at[0] = <<>> /\ \A n \in 1..Len(path) : at[n] = StepTo(tree, at[n - 1], path[n])
      BY <1>2, <2>3, <3>1, Zenon
    <3>3. QED BY <2>1, <3>2
  <2>5. /\ at[1] = StepTo(tree, at[0], a) /\ at[2] = StepTo(tree, at[1], b)
        /\ at[3] = StepTo(tree, at[2], c)
    <3>1. /\ at[1] = StepTo(tree, at[1 - 1], path[1]) /\ at[2] = StepTo(tree, at[2 - 1], path[2])
          /\ at[3] = StepTo(tree, at[3 - 1], path[3])
      BY <2>4
    <3>2. 1 - 1 = 0 /\ 2 - 1 = 1 /\ 3 - 1 = 2
      OBVIOUS
    <3>3. QED BY <2>1, <3>1, <3>2
  <2>6. Real(tree, path) = at[3]
    BY <1>1, <2>1 DEF at
  <2>7. QED BY <2>4, <2>5, <2>6 DEF path
<1> HIDE DEF StepTo
<1>5. QED BY <1>3, <1>4, Zenon

\* A name appended to a path of one name or two.
LEMMA AppendTuple ==
  ASSUME NEW a, NEW b, NEW c
  PROVE  Append(<<a>>, b) = <<a, b>> /\ Append(<<a, b>>, c) = <<a, b, c>>
<1> DEFINE S == {a, b, c}
<1>1. <<a>> \in Seq(S) /\ <<a, b>> \in Seq(S) /\ <<a, b, c>> \in Seq(S)
  OBVIOUS
<1>2. Append(<<a>>, b) = <<a, b>>
  <2>1. \A i \in 1..2 : Append(<<a>>, b)[i] = <<a, b>>[i]
    OBVIOUS
  <2>2. Append(<<a>>, b) \in Seq(S) /\ Len(Append(<<a>>, b)) = 2 /\ Len(<<a, b>>) = 2
    BY <1>1
  <2>3. QED BY <1>1, <2>1, <2>2, SeqEqual
<1>3. Append(<<a, b>>, c) = <<a, b, c>>
  <2>1. \A i \in 1..3 : Append(<<a, b>>, c)[i] = <<a, b, c>>[i]
    OBVIOUS
  <2>2. Append(<<a, b>>, c) \in Seq(S) /\ Len(Append(<<a, b>>, c)) = 3 /\ Len(<<a, b, c>>) = 3
    BY <1>1
  <2>3. QED BY <1>1, <2>1, <2>2, SeqEqual
<1>4. QED BY <1>2, <1>3

\* Where no search directory is a link, a file that a search finds is a leaf of the tree.
LEMMA OfferedLeaf ==
  ASSUME NEW tree, NEW name, Nowhere \notin DOMAIN tree, PlainLayout(tree)
  PROVE  /\ NodeKind(tree, Append(Bin, name)) = "file" => Append(Bin, name) \in Leaves(tree)
         /\ NodeKind(tree, Append(PkgConfig[1], name)) = "file"
              => Append(PkgConfig[1], name) \in Leaves(tree)
<1>0. \A path \in DOMAIN tree : tree[path].kind = "link" => Len(path) > 1 /\ path # PkgConfig[1]
  BY DEF PlainLayout
<1>1. \A path : NodeKind(tree, path) = "file" => Real(tree, path) \in DOMAIN tree
  BY DEF NodeKind
<1>2. \A from, n : StepTo(tree, from, n) \in DOMAIN tree => Append(from, n) \in DOMAIN tree /\ from # Nowhere
  BY DEF StepTo
<1>3. \A n : StepTo(tree, <<>>, n) # Nowhere => StepTo(tree, <<>>, n) = <<n>> /\ <<n>> \in DOMAIN tree
  <2> SUFFICES ASSUME NEW n, StepTo(tree, <<>>, n) # Nowhere
               PROVE  StepTo(tree, <<>>, n) = <<n>> /\ <<n>> \in DOMAIN tree
    OBVIOUS
  <2>1. Append(<<>>, n) = <<n>> /\ Len(<<n>>) = 1
    OBVIOUS
  <2>2. <<n>> \in DOMAIN tree
    BY <2>1 DEF StepTo
  <2>3. tree[<<n>>].kind # "link"
    <3>1. tree[<<n>>].kind = "link" => Len(<<n>>) > 1
      BY <1>0, <2>2, Zenon
    <3>2. QED BY <2>1, <3>1
  <2>4. <<>> # Nowhere
    BY DEF Nowhere
  <2>5. QED BY <2>1, <2>2, <2>3, <2>4 DEF StepTo
<1>4. ASSUME NodeKind(tree, Append(Bin, name)) = "file" PROVE Append(Bin, name) \in Leaves(tree)
  <2> DEFINE x == StepTo(tree, <<>>, "bin")
  <2>1. Append(Bin, name) = <<"bin", name>> /\ Append(<<"bin">>, name) = <<"bin", name>>
    BY AppendTuple, Zenon DEF Bin
  <2>2. StepTo(tree, x, name) \in DOMAIN tree /\ Real(tree, <<"bin", name>>) = StepTo(tree, x, name)
    <3>1. Real(tree, <<"bin", name>>) = StepTo(tree, x, name)
      <4> HIDE DEF StepTo
      <4>1. QED BY RealPath
    <3>2. NodeKind(tree, <<"bin", name>>) = "file"
      BY <1>4, <2>1
    <3>3. QED BY <1>1, <3>1, <3>2, Zenon
  <2>3. x # Nowhere /\ Append(x, name) \in DOMAIN tree
    BY <1>2, <2>2, Zenon
  <2>4. x = <<"bin">>
    BY <1>3, <2>3, Zenon
  <2>5. StepTo(tree, x, name) = IF tree[<<"bin", name>>].kind = "link"
                                THEN tree[<<"bin", name>>].to ELSE <<"bin", name>>
    <3> HIDE DEF x
    <3>1. QED BY <2>1, <2>3, <2>4 DEF StepTo
  <2>6. <<"bin", name>> \in DOMAIN tree
    BY <2>1, <2>3, <2>4, Zenon
  <2>7. tree[<<"bin", name>>].kind # "dir"
    <3>1. CASE tree[<<"bin", name>>].kind = "link"
      BY <3>1
    <3>2. CASE tree[<<"bin", name>>].kind # "link"
      <4>1. Real(tree, <<"bin", name>>) = <<"bin", name>>
        BY <2>2, <2>5, <3>2, Zenon
      <4>2. <<"bin", name>> # <<>>
        OBVIOUS
      <4>3. NodeKind(tree, <<"bin", name>>) = tree[<<"bin", name>>].kind
        BY <2>6, <4>1, <4>2 DEF NodeKind
      <4>4. QED BY <1>4, <2>1, <4>3
    <3>3. QED BY <3>1, <3>2
  <2>8. QED BY <2>1, <2>6, <2>7 DEF Leaves
<1>5. ASSUME NodeKind(tree, Append(PkgConfig[1], name)) = "file"
      PROVE  Append(PkgConfig[1], name) \in Leaves(tree)
  <2> DEFINE x == StepTo(tree, <<>>, "lib")
             y == StepTo(tree, x, "pkgconfig")
             last == <<"lib", "pkgconfig", name>>
  <2>1. /\ PkgConfig[1] = <<"lib", "pkgconfig">> /\ Append(<<"lib", "pkgconfig">>, name) = last
        /\ Append(<<"lib">>, "pkgconfig") = <<"lib", "pkgconfig">>
    <3>1. PkgConfig[1] = <<"lib", "pkgconfig">>
      BY DEF PkgConfig
    <3>2. QED BY <3>1, AppendTuple, Zenon
  <2>2. StepTo(tree, y, name) \in DOMAIN tree /\ Real(tree, last) = StepTo(tree, y, name)
    <3>1. Real(tree, last) = StepTo(tree, y, name)
      <4> HIDE DEF StepTo
      <4>1. QED BY RealPath
    <3>2. NodeKind(tree, last) = "file"
      <4> HIDE DEF last
      <4>1. QED BY <1>5, <2>1
    <3> HIDE DEF last
    <3>3. QED BY <1>1, <3>1, <3>2, Zenon
  <2>3. y # Nowhere /\ Append(y, name) \in DOMAIN tree
    BY <1>2, <2>2, Zenon
  <2>4. x # Nowhere /\ Append(x, "pkgconfig") \in DOMAIN tree
    <3> HIDE DEF x
    <3>1. QED BY <2>3 DEF StepTo
  <2>5. x = <<"lib">>
    BY <1>3, <2>4, Zenon
  <2>6. y = <<"lib", "pkgconfig">>
    <3>1. <<"lib", "pkgconfig">> \in DOMAIN tree
      BY <2>1, <2>4, <2>5, Zenon
    <3>2. tree[<<"lib", "pkgconfig">>].kind # "link"
      BY <1>0, <2>1, <3>1
    <3> HIDE DEF x
    <3>3. QED BY <2>1, <2>4, <2>5, <3>1, <3>2 DEF StepTo
  <2>7. last \in DOMAIN tree
    BY <2>1, <2>3, <2>6, Zenon
  <2>8. StepTo(tree, y, name) = IF tree[last].kind = "link" THEN tree[last].to ELSE last
    <3> HIDE DEF y, last
    <3>1. QED BY <2>1, <2>3, <2>6, <2>7 DEF StepTo
  <2>9. tree[last].kind # "dir"
    <3>1. CASE tree[last].kind = "link"
      BY <3>1
    <3>2. CASE tree[last].kind # "link"
      <4>1. Real(tree, last) = last
        BY <2>2, <2>8, <3>2, Zenon
      <4>2. last # <<>>
        OBVIOUS
      <4> HIDE DEF last
      <4>3. NodeKind(tree, last) = tree[last].kind
        BY <2>7, <4>1, <4>2 DEF NodeKind
      <4>4. QED BY <1>5, <2>1, <4>3
    <3>3. QED BY <3>1, <3>2
  <2> HIDE DEF last
  <2>10. QED BY <2>1, <2>7, <2>9 DEF Leaves
<1>6. QED BY <1>4, <1>5

\* The entries of a list: one for each candidate that is a directory of a result.
LEMMA EntriesAre ==
  ASSUME NEW results, results \in Seq(Range(results)),
         NEW candidates, candidates \in Seq(Range(candidates))
  PROVE  /\ Entries(results, candidates) \in Seq(Range(Entries(results, candidates)))
         /\ \A e : e \in Range(Entries(results, candidates)) <=>
              \E i \in DOMAIN results : \E j \in DOMAIN candidates :
                /\ NodeKind(results[i].tree, candidates[j]) = "dir"
                /\ e = [id |-> results[i].id, path |-> candidates[j]]
<1> DEFINE Made(i, j) == [id |-> results[i].id, path |-> candidates[j]]
           S == {Made(i, j) : i \in DOMAIN results, j \in DOMAIN candidates}
           IsDir(i, j) == NodeKind(results[i].tree, candidates[j]) = "dir"
           entry(i, j) == IF IsDir(i, j) THEN <<Made(i, j)>> ELSE <<>>
           parts(i) == [j \in DOMAIN candidates |-> entry(i, j)]
           all == [i \in DOMAIN results |-> FlattenSeq(parts(i))]
<1>1. DOMAIN results = 1..Len(results) /\ Len(results) \in Nat
  OBVIOUS
<1>2. DOMAIN candidates = 1..Len(candidates) /\ Len(candidates) \in Nat
  OBVIOUS
<1>3. \A i \in DOMAIN results : \A j \in DOMAIN candidates :
        entry(i, j) \in Seq(S) /\ \A e : e \in Range(entry(i, j)) <=> IsDir(i, j) /\ e = Made(i, j)
  <2> HIDE DEF IsDir, entry
  <2> SUFFICES ASSUME NEW i \in DOMAIN results, NEW j \in DOMAIN candidates
               PROVE  entry(i, j) \in Seq(S)
                      /\ \A e : e \in Range(entry(i, j)) <=> IsDir(i, j) /\ e = Made(i, j)
    OBVIOUS
  <2>1. Made(i, j) \in S
    OBVIOUS
  <2> HIDE DEF Made, S
  <2> USE DEF entry
  <2>2. CASE IsDir(i, j)
    <3>1. <<Made(i, j)>> \in Seq(S) /\ Range(<<Made(i, j)>>) = {Made(i, j)}
      BY <2>1 DEF Range
    <3>2. QED BY <2>2, <3>1
  <2>3. CASE ~IsDir(i, j)
    <3>1. <<>> \in Seq(S) /\ Range(<<>>) = {}
      BY DEF Range
    <3>2. QED BY <2>3, <3>1
  <2>4. QED BY <2>2, <2>3
<1> HIDE DEF S, entry, Made, IsDir
<1>4. \A i \in DOMAIN results :
        /\ FlattenSeq(parts(i)) \in Seq(S)
        /\ \A e : e \in Range(FlattenSeq(parts(i))) <=>
             \E j \in DOMAIN candidates : IsDir(i, j) /\ e = Made(i, j)
  <2> SUFFICES ASSUME NEW i \in DOMAIN results
               PROVE  /\ FlattenSeq(parts(i)) \in Seq(S)
                      /\ \A e : e \in Range(FlattenSeq(parts(i))) <=>
                           \E j \in DOMAIN candidates : IsDir(i, j) /\ e = Made(i, j)
    OBVIOUS
  <2>1. parts(i) \in Seq(Seq(S)) /\ Len(parts(i)) = Len(candidates)
    BY <1>2, <1>3
  <2>2. \A j \in DOMAIN candidates : parts(i)[j] = entry(i, j)
    OBVIOUS
  <2> HIDE DEF parts
  <2>3. FlattenSeq(parts(i)) \in Seq(S)
    BY <2>1, FlattenRange
  <2>4. \A e : e \in Range(FlattenSeq(parts(i))) <=> \E j \in 1..Len(parts(i)) : e \in Range(parts(i)[j])
    BY <2>1, FlattenRange
  <2>5. \A e : e \in Range(FlattenSeq(parts(i))) <=>
          \E j \in DOMAIN candidates : e \in Range(entry(i, j))
    BY <1>2, <2>1, <2>2, <2>4
  <2>6. QED BY <1>3, <2>3, <2>5
<1>5. Entries(results, candidates) = FlattenSeq(all)
  BY DEF Entries, entry, IsDir, Made
<1> HIDE DEF parts
<1>6. all \in Seq(Seq(S)) /\ Len(all) = Len(results)
  BY <1>1, <1>4
<1>7. \A i \in DOMAIN results : all[i] = FlattenSeq(parts(i))
  OBVIOUS
<1> HIDE DEF all
<1>8. FlattenSeq(all) \in Seq(S)
  BY <1>6, FlattenRange
<1>9. \A e : e \in Range(FlattenSeq(all)) <=> \E i \in 1..Len(all) : e \in Range(all[i])
  BY <1>6, FlattenRange
<1>10. \A e : e \in Range(FlattenSeq(all)) <=>
         \E i \in DOMAIN results : \E j \in DOMAIN candidates : IsDir(i, j) /\ e = Made(i, j)
  <2> SUFFICES ASSUME NEW e
               PROVE  e \in Range(FlattenSeq(all)) <=>
                        \E i \in DOMAIN results : \E j \in DOMAIN candidates : IsDir(i, j) /\ e = Made(i, j)
    OBVIOUS
  <2>1. 1..Len(all) = DOMAIN results
    BY <1>1, <1>6
  <2>2. e \in Range(FlattenSeq(all)) <=> \E i \in DOMAIN results : e \in Range(all[i])
    BY <1>9, <2>1
  <2>3. \A i \in DOMAIN results : e \in Range(all[i]) <=>
          \E j \in DOMAIN candidates : IsDir(i, j) /\ e = Made(i, j)
    BY <1>4, <1>7
  <2>4. QED BY ONLY <2>2, <2>3, Zenon
<1>11. FlattenSeq(all) \in Seq(Range(FlattenSeq(all)))
  BY <1>8 DEF Range
<1>12. QED BY <1>5, <1>10, <1>11 DEF IsDir, Made

\* Two results with a path make it a collision.
LEMMA TwoHoldersCollide ==
  ASSUME NEW results, results \in Seq(Range(results)), NEW i \in DOMAIN results,
         NEW j \in DOMAIN results, i # j,
         NEW path, path \in Leaves(results[i].tree), path \in Leaves(results[j].tree)
  PROVE  path \in Collisions(results)
<1> DEFINE H == HoldersOf(results, path)
<1>1. DOMAIN results = 1..Len(results) /\ Len(results) \in Nat
  OBVIOUS
<1>2. IsFiniteSet(H)
  <2>1. H \subseteq 1..Len(results)
    BY <1>1 DEF HoldersOf
  <2>2. IsFiniteSet(1..Len(results))
    BY <1>1, FS_Interval
  <2>3. QED BY <2>1, <2>2, FS_Subset
<1>3. {i, j} \subseteq H
  BY DEF HoldersOf
<1>4. Cardinality(H) \in Nat /\ Cardinality(H) > 1
  <2> HIDE DEF H
  <2>1. Cardinality({i}) = 1 /\ IsFiniteSet({i})
    BY FS_Singleton
  <2>2. {i} \subseteq H /\ {i} # H
    BY <1>3
  <2>3. Cardinality(H) \in Nat
    BY <1>2, FS_CardinalityType
  <2>4. Cardinality({i}) <= Cardinality(H) /\ (Cardinality(H) = Cardinality({i}) => H = {i})
    BY <1>2, <2>2, FS_Subset
  <2>5. QED BY <2>1, <2>2, <2>3, <2>4
<1>5. path \in UNION {Leaves(r.tree) : r \in Range(results)}
  BY DEF Range
<1>6. QED BY <1>4, <1>5 DEF Collisions

\* What is true of a plan for activation.
LEMMA ActivationAnswer ==
  ASSUME NEW results \in ResultLists, NEW base \in Bases, NEW composable
  PROVE  asked = [topic |-> "activate", results |-> results, base |-> base, composable |-> composable]
           => ActivationSearchesResults
<1> SUFFICES ASSUME asked = [topic |-> "activate", results |-> results, base |-> base,
                             composable |-> composable]
             PROVE  ActivationSearchesResults
  OBVIOUS
<1> DEFINE plan == PlanOf(results)
           Injective == IsInjective([i \in DOMAIN results |-> results[i].id])
           From(entries, candidates) ==
             \A e \in Range(entries) : \E i \in DOMAIN results : \E j \in DOMAIN candidates :
               /\ NodeKind(results[i].tree, candidates[j]) = "dir"
               /\ e = [id |-> results[i].id, path |-> candidates[j]]
<1>1. asked.topic = "activate" /\ asked.results = results /\ asked.base = base /\ asked.composable = composable
  OBVIOUS
<1>2. /\ results \in Seq(Range(results)) /\ base \in Seq(Range(base))
      /\ \A i \in DOMAIN results : Nowhere \notin DOMAIN results[i].tree
  BY ResultAssumption DEF Range
<1>3. ASSUME ~plan.refused
      PROVE  /\ Injective
             /\ plan.path = Entries(results, <<Bin>>) /\ plan.pkgConfig = Entries(results, PkgConfig)
             /\ plan.collisions = Collisions(results)
  <2>1. plan # NoPlan
    BY <1>3 DEF NoPlan
  <2>2. QED BY <2>1 DEF PlanOf
<1>4. ASSUME ~plan.refused
      PROVE  /\ plan.path \in Seq(Range(plan.path)) /\ From(plan.path, <<Bin>>)
             /\ plan.pkgConfig \in Seq(Range(plan.pkgConfig)) /\ From(plan.pkgConfig, PkgConfig)
  <2>1. <<Bin>> \in Seq(Range(<<Bin>>)) /\ PkgConfig \in Seq(Range(PkgConfig))
    BY DEF PkgConfig, Range
  <2>2. \A candidates \in {<<Bin>>, PkgConfig} :
          /\ Entries(results, candidates) \in Seq(Range(Entries(results, candidates)))
          /\ From(Entries(results, candidates), candidates)
    <3> SUFFICES ASSUME NEW candidates \in {<<Bin>>, PkgConfig}
                 PROVE  /\ Entries(results, candidates) \in Seq(Range(Entries(results, candidates)))
                        /\ From(Entries(results, candidates), candidates)
      OBVIOUS
    <3>1. candidates \in Seq(Range(candidates))
      BY <2>1
    <3>2. QED BY <1>2, <3>1, EntriesAre
  <2> HIDE DEF plan, From
  <2>3. QED BY <1>3, <1>4, <2>2
<1> HIDE DEF plan
<1>5. ASSUME \A r \in Range(results) : PlainLayout(r.tree) PROVE ShadowedNamesReported
  <2> SUFFICES ASSUME ~plan.refused, NEW entries \in {plan.path, plan.pkgConfig},
                      NEW name \in Names(results), Shadowed(results, entries, name)
               PROVE  \E e \in Range(entries) : Append(e.path, name) \in plan.collisions
    BY <1>1 DEF ShadowedNamesReported, plan
  <2>1. PICK e \in Range(entries), f \in Range(entries) :
          e.id # f.id /\ Offers(results, e, name) /\ Offers(results, f, name)
    BY DEF Shadowed
  <2>2. \A i, j \in DOMAIN results : results[i].id = results[j].id => i = j
    BY <1>3 DEF IsInjective
  <2>3. PICK path : \A g \in Range(entries) : Offers(results, g, name) =>
          /\ g.path = path
          /\ \E i \in DOMAIN results : results[i].id = g.id /\ Append(path, name) \in Leaves(results[i].tree)
    <3>1. \A i \in DOMAIN results : Nowhere \notin DOMAIN results[i].tree /\ PlainLayout(results[i].tree)
      BY <1>2, <1>5 DEF Range
    <3>2. ASSUME NEW candidates \in {<<Bin>>, PkgConfig}, From(entries, candidates),
                 NEW g \in Range(entries), Offers(results, g, name)
          PROVE  /\ g.path = candidates[1]
                 /\ \E i \in DOMAIN results : results[i].id = g.id /\ Append(candidates[1], name) \in Leaves(results[i].tree)
      <4>1. PICK i \in DOMAIN results, j \in DOMAIN candidates :
              /\ NodeKind(results[i].tree, candidates[j]) = "dir"
              /\ g = [id |-> results[i].id, path |-> candidates[j]]
        BY <3>2
      <4>2. g.id = results[i].id /\ g.path = candidates[j]
        BY <4>1
      <4>3. NodeKind(results[i].tree, Append(g.path, name)) = "file"
        BY <2>2, <3>2, <4>2 DEF Offers, Range
      <4>4. j = 1
        <5>1. CASE candidates = <<Bin>>
          BY <5>1
        <5>2. CASE candidates = PkgConfig
          <6>1. DOMAIN PkgConfig = {1, 2}
            BY DEF PkgConfig
          <6>2. NodeKind(results[i].tree, PkgConfig[2]) # "dir"
            BY <3>1 DEF PlainLayout
          <6>3. QED BY <4>1, <5>2, <6>1, <6>2
        <5>3. QED BY <5>1, <5>2
      <4>5. candidates[1] = Bin \/ candidates[1] = PkgConfig[1]
        OBVIOUS
      <4>6. Append(candidates[1], name) \in Leaves(results[i].tree)
        BY <3>1, <4>2, <4>3, <4>4, <4>5, OfferedLeaf
      <4>7. QED BY <4>2, <4>4, <4>6
    <3>3. \E candidates \in {<<Bin>>, PkgConfig} : From(entries, candidates)
      <4> HIDE DEF From
      <4>1. CASE entries = plan.path
        BY <1>4, <4>1
      <4>2. CASE entries = plan.pkgConfig
        BY <1>4, <4>2
      <4>3. QED BY <4>1, <4>2
    <3> HIDE DEF From
    <3>4. QED BY <3>2, <3>3
  <2>4. PICK i \in DOMAIN results, j \in DOMAIN results :
          /\ results[i].id = e.id /\ Append(path, name) \in Leaves(results[i].tree)
          /\ results[j].id = f.id /\ Append(path, name) \in Leaves(results[j].tree)
    BY <2>1, <2>3
  <2>5. Append(path, name) \in Collisions(results)
    BY <1>2, <2>1, <2>4, TwoHoldersCollide
  <2>6. QED BY <1>3, <2>1, <2>3, <2>5
<1>6. ASSUME ~plan.refused, NEW entries \in {plan.path, plan.pkgConfig},
             NEW e \in Range(entries), NEW name, Offers(results, e, name)
      PROVE  LET value == PathValue(entries, base)
                 offering == {i \in DOMAIN value : \/ value[i] \in Range(base)
                                                   \/ Offers(results, value[i], name)}
             IN  value[CHOOSE i \in offering : \A j \in offering : i <= j] \in Range(entries)
  <2> DEFINE value == PathValue(entries, base)
             offering == {i \in DOMAIN value : \/ value[i] \in Range(base)
                                               \/ Offers(results, value[i], name)}
             least == CHOOSE i \in offering : \A j \in offering : i <= j
  <2>1. entries \in Seq(Range(entries))
    BY <1>4, <1>6
  <2>2. PICK S : entries \in Seq(S) /\ base \in Seq(S)
    <3>1. Range(entries) \subseteq Range(entries) \cup Range(base) /\ Range(base) \subseteq Range(entries) \cup Range(base)
      OBVIOUS
    <3>2. entries \in Seq(Range(entries) \cup Range(base))
      BY <2>1, <3>1, SeqMonotonic, Zenon
    <3>3. base \in Seq(Range(entries) \cup Range(base))
      BY <1>2, <3>1, SeqMonotonic, Zenon
    <3>4. QED BY <3>2, <3>3
  <2>3. /\ value = entries \o base /\ DOMAIN value = 1..(Len(entries) + Len(base))
        /\ Len(entries) \in Nat /\ Len(base) \in Nat /\ DOMAIN entries = 1..Len(entries)
        /\ \A i \in 1..Len(entries) : value[i] = entries[i]
    BY <2>2, ConcatProperties DEF PathValue
  <2> HIDE DEF value
  <2>4. PICK k \in 1..Len(entries) : entries[k] = e
    BY <2>3 DEF Range
  <2>5. k \in offering
    BY <1>6, <2>3, <2>4
  <2>6. offering \in SUBSET Nat
    BY <2>3
  <2> HIDE DEF offering
  <2>7. least \in offering /\ least <= k
    <3>1. \E i \in offering : \A j \in offering : i <= j
      BY <2>5, <2>6, LeastOf
    <3>2. least \in offering /\ \A j \in offering : least <= j
      BY <3>1
    <3>3. QED BY <2>5, <3>2
  <2> HIDE DEF least
  <2>8. least \in 1..Len(entries)
    <3>1. least \in DOMAIN value
      BY <2>7 DEF offering
    <3>2. QED BY <2>3, <2>7, <3>1
  <2>9. value[least] \in Range(entries)
    BY <2>3, <2>8 DEF Range
  <2>10. QED BY <2>9 DEF least, offering, value
<1>7. QED
  <2>1. ASSUME ~plan.refused, NEW entries \in {plan.path, plan.pkgConfig},
               NEW e \in Range(entries), NEW name \in Names(results)
        PROVE  Offers(results, e, name) =>
                 LET value == PathValue(entries, base)
                     offering == {i \in DOMAIN value : \/ value[i] \in Range(base)
                                                       \/ Offers(results, value[i], name)}
                 IN  value[CHOOSE i \in offering : \A j \in offering : i <= j] \in Range(entries)
    BY <1>6, <2>1
  <2>2. PlanOf(asked.results) = plan
    BY <1>1 DEF plan
  <2> DEFINE value(entries) == PathValue(entries, asked.base)
             offering(entries, name) ==
                {i \in DOMAIN value(entries) : \/ value(entries)[i] \in Range(asked.base)
                                               \/ Offers(asked.results, value(entries)[i], name)}
             Found(entries, name) == value(entries)[CHOOSE i \in offering(entries, name) :
                                       \A j \in offering(entries, name) : i <= j] \in Range(entries)
  <2>3. ASSUME ~plan.refused, NEW entries \in {plan.path, plan.pkgConfig},
               NEW e \in Range(entries), NEW name \in Names(asked.results)
        PROVE  Offers(asked.results, e, name) => Found(entries, name)
    BY <1>1, <2>1, <2>3, ZenonT(60)
  <2>4. (\A r \in Range(asked.results) : PlainLayout(r.tree)) => ShadowedNamesReported
    BY <1>1, <1>5
  <2> HIDE DEF Found
  <2>5. ~plan.refused =>
          \A entries \in {plan.path, plan.pkgConfig} : \A e \in Range(entries) :
            \A name \in Names(asked.results) : Offers(asked.results, e, name) => Found(entries, name)
    BY <2>3
  <2> HIDE DEF plan
  <2>6. QED BY <2>2, <2>4, <2>5, Zenon DEF ActivationSearchesResults, Found

-----------------------------------------------------------------------------
(* The identity of a build: texts that can be read back *)

\* One text behind another.
s ++ t == s \o t

\* Texts behind one another.
LEMMA TextAlgebra ==
  /\ <<>> \in ByteString
  /\ \A p, q \in ByteString : p ++ q \in ByteString
  /\ \A p \in ByteString : p ++ <<>> = p /\ <<>> ++ p = p
  /\ \A p, q, r \in ByteString : (p ++ q) ++ r = p ++ (q ++ r)
  /\ \A p, q, r \in ByteString : p ++ q = p ++ r => q = r
<1>1. <<>> \in ByteString
  BY DEF ByteString
<1>2. \A p, q \in ByteString : p ++ q \in ByteString
  BY ConcatProperties, Zenon DEF ByteString, ++
<1>3. \A p \in ByteString : p ++ <<>> = p /\ <<>> ++ p = p
  BY ConcatEmptySeq, Zenon DEF ByteString, ++
<1>4. \A p, q, r \in ByteString : (p ++ q) ++ r = p ++ (q ++ r)
  <2> SUFFICES ASSUME NEW p \in Seq(Nat), NEW q \in Seq(Nat), NEW r \in Seq(Nat)
               PROVE  (p \o q) \o r = p \o (q \o r)
    BY DEF ByteString, ++
  <2>1. QED OBVIOUS
<1>5. \A p, q, r \in ByteString : p ++ q = p ++ r => q = r
  <2> SUFFICES ASSUME NEW p \in Seq(Nat), NEW q \in Seq(Nat), NEW r \in Seq(Nat), p \o q = p \o r
               PROVE  q = r
    BY DEF ByteString, ++
  <2>1. QED BY ConcatSimplifications
<1>6. QED BY <1>1, <1>2, <1>3, <1>4, <1>5, Zenon

\* Texts of which none begins another, whatever follows.
IsCode(C) ==
    /\ C \subseteq ByteString
    /\ \A p, q \in C : \A r, s \in ByteString : p ++ r = q ++ s => p = q

\* What follows two equal texts is equal if the wholes are.
LEMMA SameRest ==
  ASSUME NEW C, IsCode(C), NEW p \in C, NEW q \in C, NEW r \in ByteString, NEW s \in ByteString,
         p ++ r = q ++ s
  PROVE  p = q /\ r = s
<1>1. p = q /\ p \in ByteString
  BY DEF IsCode
<1>2. p ++ r = p ++ s
  BY <1>1
<1>3. QED BY <1>1, <1>2, TextAlgebra

\* A length ahead of a text tells where the text ends.
LEMMA BytesRead ==
  ASSUME NEW v \in ByteString, NEW w \in ByteString, NEW r \in ByteString, NEW s \in ByteString,
         Bytes(v) ++ r = Bytes(w) ++ s
  PROVE  v = w /\ r = s /\ Bytes(v) \in ByteString
<1>1. /\ Bytes(v) \in ByteString /\ Bytes(v)[1] = Len(v) /\ Len(Bytes(v)) = Len(v) + 1
      /\ \A i \in 1..Len(v) : Bytes(v)[i + 1] = v[i]
      /\ Bytes(w) \in ByteString /\ Bytes(w)[1] = Len(w) /\ Len(Bytes(w)) = Len(w) + 1
      /\ \A i \in 1..Len(w) : Bytes(w)[i + 1] = w[i]
  BY DEF Bytes, ByteString
<1>2. /\ Len(v) \in Nat /\ Len(w) \in Nat
  BY DEF ByteString
<1> DEFINE a == Bytes(v)
           b == Bytes(w)
<1>3. /\ \A i \in 1..Len(a) : (a ++ r)[i] = a[i]
      /\ \A i \in 1..Len(b) : (b ++ s)[i] = b[i]
  <2> HIDE DEF a, b
  <2>1. a \in ByteString /\ b \in ByteString
    BY <1>1 DEF a, b
  <2>2. QED BY <2>1 DEF ByteString, ++
<1>4. \A i \in 1..(Len(v) + 1) : (a ++ r)[i] = a[i]
  BY <1>1, <1>3
<1>5. \A i \in 1..(Len(w) + 1) : (a ++ r)[i] = b[i]
  BY <1>1, <1>3
<1> HIDE DEF a, b
<1>6. Len(v) = Len(w)
  <2>1. 1 \in 1..(Len(v) + 1) /\ 1 \in 1..(Len(w) + 1)
    BY <1>2
  <2>2. a[1] = b[1]
    <3>1. (a ++ r)[1] = a[1] /\ (a ++ r)[1] = b[1]
      BY <1>4, <1>5, <2>1
    <3>2. QED BY <3>1
  <2>3. QED BY <1>1, <2>2 DEF a, b
<1>7. \A i \in 1..Len(v) : v[i] = w[i]
  <2> SUFFICES ASSUME NEW i \in 1..Len(v) PROVE v[i] = w[i]
    OBVIOUS
  <2>1. i + 1 \in 1..(Len(v) + 1) /\ i + 1 \in 1..(Len(w) + 1) /\ i \in 1..Len(w)
    BY <1>2, <1>6
  <2>2. a[i + 1] = b[i + 1]
    BY <1>4, <1>5, <2>1
  <2>3. QED BY <1>1, <2>1, <2>2 DEF a, b
<1>8. v = w
  BY <1>6, <1>7, SeqEqual DEF ByteString
<1>9. r = s
  <2>1. Bytes(v) ++ r = Bytes(v) ++ s
    BY <1>8
  <2>2. QED BY <1>1, <2>1, TextAlgebra
<1>10. QED BY <1>1, <1>8, <1>9

\* The texts that a field can be.
FieldTexts(label) == {Field(label, value) : value \in ByteString}

\* No text of a field begins another of the same label.
LEMMA FieldsAreCode ==
  ASSUME NEW label \in Nat
  PROVE  /\ IsCode(FieldTexts(label))
         /\ \A v, w \in ByteString : Field(label, v) = Field(label, w) => v = w
<1>1. <<label>> \in ByteString
  BY DEF ByteString
<1>2. \A v \in ByteString : Bytes(v) \in ByteString
  BY DEF Bytes, ByteString
<1>3. \A p, q \in ByteString : p ++ q \in ByteString
  BY TextAlgebra
<1>4. \A p, q, r \in ByteString : (p ++ q) ++ r = p ++ (q ++ r)
  BY TextAlgebra
<1>5. ASSUME NEW v \in ByteString, NEW w \in ByteString, NEW r \in ByteString, NEW s \in ByteString,
             Field(label, v) ++ r = Field(label, w) ++ s
      PROVE  v = w
  <2>1. /\ Field(label, v) ++ r = Bytes(<<label>>) ++ (Bytes(v) ++ r)
        /\ Field(label, w) ++ s = Bytes(<<label>>) ++ (Bytes(w) ++ s)
    <3>1. \A u \in ByteString : Field(label, u) = Bytes(<<label>>) ++ Bytes(u)
      BY DEF Field, ++
    <3>2. QED BY <1>1, <1>2, <1>4, <3>1, SMTT(30)
  <2>2. Bytes(v) ++ r \in ByteString /\ Bytes(w) ++ s \in ByteString
    BY <1>2, <1>3
  <2>3. Bytes(v) ++ r = Bytes(w) ++ s
    <3>1. Bytes(<<label>>) ++ (Bytes(v) ++ r) = Bytes(<<label>>) ++ (Bytes(w) ++ s)
      BY <1>5, <2>1
    <3>2. QED BY <1>1, <2>2, <3>1, BytesRead
  <2>4. QED BY <2>3, BytesRead
<1>6. \A v \in ByteString : Field(label, v) \in ByteString
  BY <1>1, <1>2, <1>3 DEF Field, ++
<1>7. IsCode(FieldTexts(label))
  BY <1>5, <1>6 DEF IsCode, FieldTexts
<1>8. ASSUME NEW v \in ByteString, NEW w \in ByteString, Field(label, v) = Field(label, w) PROVE v = w
  <2>1. <<>> \in ByteString
    BY DEF ByteString
  <2>2. QED BY <1>5, <1>8, <2>1
<1>9. QED BY <1>7, <1>8

\* One text of a code behind another.
Both(C, D) == {c ++ d : c \in C, d \in D}

\* Texts of one code behind texts of another are a code.
LEMMA BothAreCode ==
  ASSUME NEW C, IsCode(C), NEW D, IsCode(D)
  PROVE  /\ IsCode(Both(C, D))
         /\ \A c1, c2 \in C : \A d1, d2 \in D : c1 ++ d1 = c2 ++ d2 => c1 = c2 /\ d1 = d2
<1>1. \A c \in C : c \in ByteString
  BY DEF IsCode
<1>2. \A d \in D : d \in ByteString
  BY DEF IsCode
<1>3. \A p, q \in ByteString : p ++ q \in ByteString
  BY TextAlgebra
<1>4. ASSUME NEW c1 \in C, NEW c2 \in C, NEW d1 \in D, NEW d2 \in D,
             NEW r \in ByteString, NEW s \in ByteString, (c1 ++ d1) ++ r = (c2 ++ d2) ++ s
      PROVE  c1 = c2 /\ d1 = d2
  <2>1. /\ (c1 ++ d1) ++ r = c1 ++ (d1 ++ r) /\ (c2 ++ d2) ++ s = c2 ++ (d2 ++ s)
    BY <1>1, <1>2, TextAlgebra
  <2>2. d1 ++ r \in ByteString /\ d2 ++ s \in ByteString
    BY <1>2, <1>3
  <2>3. c1 = c2 /\ d1 ++ r = d2 ++ s
    <3>1. c1 ++ (d1 ++ r) = c2 ++ (d2 ++ s)
      BY <1>4, <2>1
    <3>2. QED BY <2>2, <3>1, SameRest
  <2>4. QED BY <2>3, SameRest
<1>5. IsCode(Both(C, D))
  <2>1. ASSUME NEW p \in Both(C, D), NEW q \in Both(C, D), NEW r \in ByteString, NEW s \in ByteString,
               p ++ r = q ++ s
        PROVE  p = q
    <3>1. PICK c1 \in C, d1 \in D : p = c1 ++ d1
      BY DEF Both
    <3>2. PICK c2 \in C, d2 \in D : q = c2 ++ d2
      BY DEF Both
    <3>3. QED BY <1>4, <2>1, <3>1, <3>2
  <2>2. Both(C, D) \subseteq ByteString
    BY <1>1, <1>2, <1>3 DEF Both
  <2>3. QED BY <2>1, <2>2 DEF IsCode
<1>6. ASSUME NEW c1 \in C, NEW c2 \in C, NEW d1 \in D, NEW d2 \in D, c1 ++ d1 = c2 ++ d2
      PROVE  c1 = c2 /\ d1 = d2
  <2>1. <<>> \in ByteString
    BY DEF ByteString
  <2>2. QED BY <1>4, <1>6, <2>1
<1>7. QED BY <1>5, <1>6

\* Texts of codes in a row are told apart one by one.
LEMMA RowRead ==
  ASSUME NEW C, NEW ss \in Seq(ByteString), NEW tt \in Seq(ByteString), Len(ss) = Len(tt),
         \A i \in 1..Len(ss) : IsCode(C[i]) /\ ss[i] \in C[i] /\ tt[i] \in C[i],
         NEW r \in ByteString, NEW s \in ByteString, FlattenSeq(ss) ++ r = FlattenSeq(tt) ++ s
  PROVE  ss = tt
<1> DEFINE n == Len(ss)
<1>1. n \in Nat /\ \A i \in 1..n : ss[i] \in ByteString /\ tt[i] \in ByteString
  OBVIOUS
<1>2. PICK f \in [0..n -> ByteString] :
        f[0] = <<>> /\ (\A i \in 1..n : f[i] = f[i - 1] ++ ss[i]) /\ FlattenSeq(ss) = f[n]
  <2>1. ss \in Seq(Seq(Nat))
    BY DEF ByteString
  <2>2. QED BY <2>1, FlattenTrace, Zenon DEF ByteString, ++
<1>3. PICK g \in [0..n -> ByteString] :
        g[0] = <<>> /\ (\A i \in 1..n : g[i] = g[i - 1] ++ tt[i]) /\ FlattenSeq(tt) = g[n]
  <2>1. tt \in Seq(Seq(Nat)) /\ Len(tt) = n
    BY DEF ByteString
  <2>2. \E g \in [0..Len(tt) -> ByteString] :
          g[0] = <<>> /\ (\A i \in 1..Len(tt) : g[i] = g[i - 1] ++ tt[i]) /\ FlattenSeq(tt) = g[Len(tt)]
    BY <2>1, FlattenTrace, Zenon DEF ByteString, ++
  <2>3. QED BY <2>1, <2>2
<1>4. \A i \in 1..n : IsCode(C[i]) /\ ss[i] \in C[i] /\ tt[i] \in C[i]
  OBVIOUS
<1> DEFINE Apart(k) == \A u, v \in ByteString : f[k] ++ u = g[k] ++ v =>
                          u = v /\ \A i \in 1..k : ss[i] = tt[i]
           N == {k \in Nat : k <= n => Apart(k)}
<1> HIDE DEF n, Apart
<1>5. 0 \in N
  <2>1. \A u \in ByteString : <<>> ++ u = u
    BY TextAlgebra, Zenon
  <2>2. Apart(0)
    <3>1. \A i \in 1..0 : ss[i] = tt[i]
      OBVIOUS
    <3>2. QED BY <1>2, <1>3, <2>1, <3>1 DEF Apart
  <2>3. QED BY <2>2
<1>6. ASSUME NEW k \in Nat, k \in N PROVE k + 1 \in N
  <2>1. ASSUME k + 1 <= n PROVE Apart(k + 1)
    <3>1. k + 1 \in 1..n /\ (k + 1) - 1 = k /\ k \in 0..n
      BY <1>1, <2>1
    <3>2. f[k + 1] = f[k] ++ ss[k + 1] /\ g[k + 1] = g[k] ++ tt[k + 1]
      <4>1. f[k + 1] = f[(k + 1) - 1] ++ ss[k + 1] /\ g[k + 1] = g[(k + 1) - 1] ++ tt[k + 1]
        BY <1>2, <1>3, <3>1
      <4>2. QED BY <3>1, <4>1
    <3>3. /\ f[k] \in ByteString /\ g[k] \in ByteString
          /\ ss[k + 1] \in ByteString /\ tt[k + 1] \in ByteString
      BY <1>1, <1>2, <1>3, <3>1
    <3>4. Apart(k)
      BY <1>1, <1>6, <2>1
    <3>5. ASSUME NEW u \in ByteString, NEW v \in ByteString, f[k + 1] ++ u = g[k + 1] ++ v
          PROVE  u = v /\ \A i \in 1..(k + 1) : ss[i] = tt[i]
      <4>1. f[k + 1] ++ u = f[k] ++ (ss[k + 1] ++ u) /\ g[k + 1] ++ v = g[k] ++ (tt[k + 1] ++ v)
        <5>1. /\ (f[k] ++ ss[k + 1]) ++ u = f[k] ++ (ss[k + 1] ++ u)
              /\ (g[k] ++ tt[k + 1]) ++ v = g[k] ++ (tt[k + 1] ++ v)
          <6>1. \A p, q, w \in ByteString : (p ++ q) ++ w = p ++ (q ++ w)
            BY TextAlgebra, Zenon
          <6>2. QED BY <3>3, <6>1
        <5>2. QED BY <3>2, <5>1
      <4>2. ss[k + 1] ++ u \in ByteString /\ tt[k + 1] ++ v \in ByteString
        BY <3>3, TextAlgebra
      <4>3. ss[k + 1] ++ u = tt[k + 1] ++ v /\ \A i \in 1..k : ss[i] = tt[i]
        <5>1. f[k] ++ (ss[k + 1] ++ u) = g[k] ++ (tt[k + 1] ++ v)
          BY <3>5, <4>1
        <5>2. QED BY <3>4, <4>2, <5>1 DEF Apart
      <4>4. ss[k + 1] = tt[k + 1] /\ u = v
        <5>1. IsCode(C[k + 1]) /\ ss[k + 1] \in C[k + 1] /\ tt[k + 1] \in C[k + 1]
          BY <1>4, <3>1
        <5>2. QED BY <4>3, <5>1, SameRest
      <4>5. \A i : i \in 1..(k + 1) <=> i \in 1..k \/ i = k + 1
        OBVIOUS
      <4>6. QED BY <4>3, <4>4, <4>5
    <3>6. QED BY <3>5 DEF Apart
  <2>2. QED BY <2>1
<1> HIDE DEF N
<1>7. \A k \in Nat : k \in N
  BY <1>5, <1>6, Flat!InductionOn
<1>8. Apart(n)
  <2>1. n \in N
    BY <1>1, <1>7
  <2>2. QED BY <1>1, <2>1 DEF N
<1>9. \A i \in 1..n : ss[i] = tt[i]
  BY <1>2, <1>3, <1>8 DEF Apart
<1>10. QED BY <1>9, SeqEqual DEF n

-----------------------------------------------------------------------------
(* The identity of a build: texts in the order of their bytes *)

\* The order of bytes is one: of two texts, one is before the other.
LEMMA BeforeTotal ==
  ASSUME NEW s \in ByteString, NEW t \in ByteString, s # t
  PROVE  Before(s, t) \/ Before(t, s)
<1>1. Len(s) \in Nat /\ Len(t) \in Nat /\ DOMAIN s = 1..Len(s) /\ DOMAIN t = 1..Len(t)
  BY DEF ByteString
<1>2. \A i \in 1..Len(s) : s[i] \in Nat
  BY DEF ByteString
<1>3. \A i \in 1..Len(t) : t[i] \in Nat
  BY DEF ByteString
<1> DEFINE D == {i \in Nat : i \in 1..Len(s) /\ i \in 1..Len(t) /\ s[i] # t[i]}
<1>4. CASE D # {}
  <2>1. PICK k \in D : TRUE
    BY <1>4
  <2>2. PICK i \in D : \A j \in D : i <= j
    <3>1. D \in SUBSET Nat
      OBVIOUS
    <3> HIDE DEF D
    <3>2. QED BY <2>1, <3>1, LeastOf
  <2>3. i \in 1..Len(s) /\ i \in 1..Len(t) /\ s[i] # t[i] /\ s[i] \in Nat /\ t[i] \in Nat
    BY <1>2, <1>3, <2>2
  <2>4. \A j \in 1..(i - 1) : j \in 1..Len(s) /\ j \in 1..Len(t) /\ s[j] = t[j]
    BY <1>1, <2>2, <2>3
  <2>5. s[i] < t[i] \/ t[i] < s[i]
    BY <2>3
  <2> HIDE DEF D
  <2>6. CASE s[i] < t[i]
    <3>1. Before(s, t)
      BY <1>1, <2>3, <2>4, <2>6 DEF Before
    <3>2. QED BY <3>1
  <2>7. CASE t[i] < s[i]
    <3>1. Before(t, s)
      BY <1>1, <2>3, <2>4, <2>7 DEF Before
    <3>2. QED BY <3>1
  <2>8. QED BY <2>5, <2>6, <2>7
<1>5. CASE D = {}
  <2>1. \A i \in Nat : i \in 1..Len(s) /\ i \in 1..Len(t) => s[i] = t[i]
    BY <1>5
  <2>2. Len(s) # Len(t)
    <3> SUFFICES ASSUME Len(s) = Len(t) PROVE FALSE
      OBVIOUS
    <3>1. \A i \in 1..Len(s) : s[i] = t[i]
      BY <2>1
    <3>2. s = t
      BY <3>1, SeqEqual DEF ByteString
    <3>3. QED BY <3>2
  <2>3. CASE Len(s) < Len(t)
    <3>1. Len(s) + 1 \in DOMAIN t /\ Len(s) + 1 \notin DOMAIN s
      BY <1>1, <2>3
    <3>2. \A j \in 1..((Len(s) + 1) - 1) : j \in DOMAIN s /\ s[j] = t[j]
      BY <1>1, <2>1, <2>3
    <3>3. QED BY <3>1, <3>2 DEF Before
  <2>4. CASE Len(t) < Len(s)
    <3>1. Len(t) + 1 \in DOMAIN s /\ Len(t) + 1 \notin DOMAIN t
      BY <1>1, <2>4
    <3>2. \A j \in 1..((Len(t) + 1) - 1) : j \in DOMAIN t /\ t[j] = s[j]
      BY <1>1, <2>1, <2>4
    <3>3. QED BY <3>1, <3>2 DEF Before
  <2>5. Len(s) < Len(t) \/ Len(t) < Len(s)
    <3>1. Len(s) \in Nat /\ Len(t) \in Nat
      BY <1>1
    <3>2. QED BY ONLY <2>2, <3>1
  <2>6. QED BY <2>3, <2>4, <2>5
<1>6. QED BY <1>4, <1>5

\* No text is before itself, and what is before a text is before all that it is before.
LEMMA BeforeStrict ==
  /\ \A s \in ByteString : ~Before(s, s)
  /\ \A s, t, u \in ByteString : Before(s, t) /\ Before(t, u) => Before(s, u)
<1>1. ASSUME NEW s \in ByteString PROVE ~Before(s, s)
  <2>1. DOMAIN s = 1..Len(s) /\ \A i \in 1..Len(s) : s[i] \in Nat
    BY DEF ByteString
  <2>2. QED BY <2>1 DEF Before
<1>2. ASSUME NEW s \in ByteString, NEW t \in ByteString, NEW u \in ByteString, Before(s, t), Before(t, u)
      PROVE  Before(s, u)
  <2>1. /\ DOMAIN s = 1..Len(s) /\ DOMAIN t = 1..Len(t) /\ DOMAIN u = 1..Len(u)
        /\ Len(s) \in Nat /\ Len(t) \in Nat /\ Len(u) \in Nat
    BY DEF ByteString
  <2>2. \A i \in DOMAIN s : s[i] \in Nat
    BY DEF ByteString
  <2>3. \A i \in DOMAIN t : t[i] \in Nat
    BY DEF ByteString
  <2>4. \A i \in DOMAIN u : u[i] \in Nat
    BY DEF ByteString
  <2>5. PICK a \in DOMAIN t : /\ \A j \in 1..(a - 1) : j \in DOMAIN s /\ s[j] = t[j]
                              /\ a \notin DOMAIN s \/ s[a] < t[a]
    BY <1>2 DEF Before
  <2>6. PICK b \in DOMAIN u : /\ \A j \in 1..(b - 1) : j \in DOMAIN t /\ t[j] = u[j]
                              /\ b \notin DOMAIN t \/ t[b] < u[b]
    BY <1>2 DEF Before
  <2>7. a \in Nat /\ b \in Nat
    BY <2>1, <2>5, <2>6
  <2>8. CASE a < b
    <3>1. a \in 1..(b - 1) /\ a \in DOMAIN t /\ t[a] = u[a]
      BY <2>1, <2>5, <2>6, <2>7, <2>8
    <3>2. a \in DOMAIN u
      BY <2>1, <2>6, <2>8, <3>1
    <3>3. \A j \in 1..(a - 1) : j \in DOMAIN s /\ s[j] = u[j]
      BY <2>5, <2>6, <2>7, <2>8
    <3>4. a \notin DOMAIN s \/ s[a] < u[a]
      BY <2>5, <3>1
    <3>5. QED BY <3>2, <3>3, <3>4 DEF Before
  <2>9. CASE b < a
    <3>1. b \in 1..(a - 1) /\ b \in DOMAIN s /\ s[b] = t[b] /\ b \in DOMAIN t
      BY <2>1, <2>5, <2>6, <2>7, <2>9
    <3>2. s[b] < u[b]
      BY <2>6, <3>1
    <3>3. \A j \in 1..(b - 1) : j \in DOMAIN s /\ s[j] = u[j]
      BY <2>5, <2>6, <2>7, <2>9
    <3>4. QED BY <2>6, <3>2, <3>3 DEF Before
  <2>10. CASE a = b
    <3>1. \A j \in 1..(b - 1) : j \in DOMAIN s /\ s[j] = u[j]
      BY <2>5, <2>6, <2>10
    <3>2. b \notin DOMAIN s \/ s[b] < u[b]
      <4>1. SUFFICES ASSUME b \in DOMAIN s PROVE s[b] < u[b]
        OBVIOUS
      <4>2. s[b] < t[b] /\ t[b] < u[b]
        BY <2>5, <2>6, <2>10, <4>1
      <4>3. s[b] \in Nat /\ t[b] \in Nat /\ u[b] \in Nat
        BY <2>2, <2>3, <2>4, <2>5, <2>6, <2>10, <4>1
      <4>4. QED BY <4>2, <4>3
    <3>3. QED BY <2>6, <3>1, <3>2 DEF Before
  <2>11. QED BY <2>7, <2>8, <2>9, <2>10
<1>3. QED BY <1>1, <1>2

\* Texts are sorted by the order of bytes.
LEMMA TextsSorted ==
  ASSUME NEW T, T \subseteq ByteString, IsFiniteSet(T)
  PROVE  /\ InOrder(T) \in Seq(T) /\ Len(InOrder(T)) = Cardinality(T) /\ Cardinality(T) \in Nat
         /\ Range(InOrder(T)) = T
<1> DEFINE precedes == {pair \in T \X T : Before(pair[1], pair[2])}
<1>1. \A x, y \in T : <<x, y>> \in precedes <=> Before(x, y)
  OBVIOUS
<1> HIDE DEF precedes
<1>2. \A x, y \in T : x # y => <<x, y>> \in precedes \/ <<y, x>> \in precedes
  BY <1>1, BeforeTotal
<1>3. \A x \in T : <<x, x>> \notin precedes
  BY <1>1, BeforeStrict
<1>4. \A x, y, z \in T : <<x, y>> \in precedes /\ <<y, z>> \in precedes => <<x, z>> \in precedes
  BY <1>1, BeforeStrict
<1>5. Orders(T, precedes)
  BY <1>2, <1>3, <1>4 DEF Orders
<1>6. QED BY <1>5, EnumeratedAll DEF InOrder, precedes

\* A list is sorted by a field that no two of its elements share.
LEMMA ListSorted ==
  ASSUME NEW list, list \in Seq(Range(list)), NEW key,
         \A i \in DOMAIN list : list[i][key] \in ByteString,
         IsInjective([i \in DOMAIN list |-> list[i][key]])
  PROVE  /\ ByKey(list, key) \in Seq(Range(list)) /\ Len(ByKey(list, key)) = Len(list)
         /\ Len(list) \in Nat /\ Range(ByKey(list, key)) = Range(list)
<1> DEFINE S == Range(list)
           precedes == {pair \in S \X S : Before(pair[1][key], pair[2][key])}
<1>1. DOMAIN list = 1..Len(list) /\ Len(list) \in Nat
  OBVIOUS
<1>2. \A i, j \in DOMAIN list : list[i][key] = list[j][key] => i = j
  BY DEF IsInjective
<1>3. \A x, y \in S : x[key] \in ByteString /\ (x # y => x[key] # y[key])
  BY <1>2 DEF Range
<1>4. \A x, y \in S : <<x, y>> \in precedes <=> Before(x[key], y[key])
  OBVIOUS
<1>5. IsFiniteSet(S) /\ Cardinality(S) = Len(list)
  <2>1. IsFiniteSet(1..Len(list)) /\ Cardinality(1..Len(list)) = Len(list)
    <3>1. /\ IsFiniteSet(1..Len(list))
          /\ Cardinality(1..Len(list)) = IF 1 > Len(list) THEN 0 ELSE Len(list) - 1 + 1
      BY <1>1, FS_Interval
    <3>2. QED BY <1>1, <3>1
  <2>2. list \in Bijection(1..Len(list), S)
    <3>1. list \in [1..Len(list) -> S] /\ \A x \in S : \E i \in 1..Len(list) : list[i] = x
      BY <1>1 DEF Range
    <3>2. \A i, j \in 1..Len(list) : list[i] = list[j] => i = j
      BY <1>1, <1>2
    <3> HIDE DEF S
    <3>3. QED BY <1>1, <3>1, <3>2 DEF Bijection, Injection, Surjection, IsInjective
  <2> HIDE DEF S
  <2>3. QED BY <2>1, <2>2, FS_Bijection DEF ExistsBijection
<1> HIDE DEF precedes
<1>6. \A x, y \in S : x # y => <<x, y>> \in precedes \/ <<y, x>> \in precedes
  BY <1>3, <1>4, BeforeTotal
<1>7. \A x \in S : <<x, x>> \notin precedes
  BY <1>3, <1>4, BeforeStrict
<1>8. \A x, y, z \in S : <<x, y>> \in precedes /\ <<y, z>> \in precedes => <<x, z>> \in precedes
  <2> SUFFICES ASSUME NEW x \in S, NEW y \in S, NEW z \in S, <<x, y>> \in precedes, <<y, z>> \in precedes
               PROVE  <<x, z>> \in precedes
    OBVIOUS
  <2>1. Before(x[key], y[key]) /\ Before(y[key], z[key])
    BY <1>4
  <2>2. x[key] \in ByteString /\ y[key] \in ByteString /\ z[key] \in ByteString
    BY <1>3
  <2>3. Before(x[key], z[key])
    BY <2>1, <2>2, BeforeStrict
  <2>4. QED BY <1>4, <2>3
<1>9. Orders(S, precedes)
  BY <1>6, <1>7, <1>8 DEF Orders
<1>10. QED BY <1>1, <1>5, <1>9, EnumeratedAll DEF ByKey, precedes

-----------------------------------------------------------------------------
(* The identity of a build: what is hashed of each input *)

\* A list of texts of a code behind their count.
CountedTexts(label, C) == {Count(label, Len(ss)) ++ FlattenSeq(ss) : ss \in Seq(C)}

\* Lists of texts of a code, behind their counts, are a code; and they are read back.
LEMMA CountedAreCode ==
  ASSUME NEW label \in Nat, NEW C, IsCode(C)
  PROVE  /\ IsCode(CountedTexts(label, C))
         /\ \A ss, tt \in Seq(C) : Count(label, Len(ss)) ++ FlattenSeq(ss)
                                    = Count(label, Len(tt)) ++ FlattenSeq(tt) => ss = tt
<1>1. \A n \in Nat : <<n>> \in ByteString
  BY DEF ByteString
<1>2. IsCode(FieldTexts(label)) /\ \A n \in Nat : Count(label, n) \in FieldTexts(label)
  BY <1>1, FieldsAreCode DEF FieldTexts, Count
<1>3. \A n \in Nat : Count(label, n) \in ByteString
  BY <1>2 DEF IsCode
<1>4. ASSUME NEW n \in Nat, NEW m \in Nat, Count(label, n) = Count(label, m) PROVE n = m
  <2>1. <<n>> = <<m>>
    BY <1>1, <1>4, FieldsAreCode DEF Count
  <2>2. <<n>>[1] = <<m>>[1]
    BY <2>1
  <2>3. QED BY <2>2
<1>5. ASSUME NEW ss \in Seq(C)
      PROVE  ss \in Seq(ByteString) /\ FlattenSeq(ss) \in ByteString /\ Len(ss) \in Nat
             /\ \A i \in 1..Len(ss) : ss[i] \in C
  <2>1. C \subseteq ByteString
    BY DEF IsCode
  <2>2. ss \in Seq(ByteString)
    BY <2>1, SeqMonotonic, Zenon
  <2>3. FlattenSeq(ss) \in ByteString
    BY <2>2, FlattenRange, Zenon DEF ByteString
  <2>4. QED BY <2>2, <2>3
<1>6. ASSUME NEW ss \in Seq(C), NEW tt \in Seq(C), NEW r \in ByteString, NEW s \in ByteString,
             (Count(label, Len(ss)) ++ FlattenSeq(ss)) ++ r = (Count(label, Len(tt)) ++ FlattenSeq(tt)) ++ s
      PROVE  ss = tt
  <2> DEFINE a == Count(label, Len(ss))
             b == Count(label, Len(tt))
             u == FlattenSeq(ss)
             v == FlattenSeq(tt)
  <2>1. /\ a \in FieldTexts(label) /\ a \in ByteString /\ u \in ByteString
        /\ b \in FieldTexts(label) /\ b \in ByteString /\ v \in ByteString
    BY <1>2, <1>3, <1>5
  <2>2. (a ++ u) ++ r = (b ++ v) ++ s
    BY <1>6
  <2> HIDE DEF a, b, u, v
  <2>3. (a ++ u) ++ r = a ++ (u ++ r) /\ (b ++ v) ++ s = b ++ (v ++ s)
    <3>1. \A p, q, w \in ByteString : (p ++ q) ++ w = p ++ (q ++ w)
      BY TextAlgebra, Zenon
    <3>2. QED BY <2>1, <3>1
  <2>4. u ++ r \in ByteString /\ v ++ s \in ByteString
    BY <2>1, TextAlgebra
  <2>5. a = b /\ u ++ r = v ++ s
    <3>1. a ++ (u ++ r) = b ++ (v ++ s)
      BY <2>2, <2>3
    <3>2. QED BY <1>2, <2>1, <2>4, <3>1, SameRest
  <2>6. Len(ss) = Len(tt)
    BY <1>4, <1>5, <2>5 DEF a, b
  <2> DEFINE D == [i \in 1..Len(ss) |-> C]
  <2>7. \A i \in 1..Len(ss) : IsCode(D[i]) /\ ss[i] \in D[i] /\ tt[i] \in D[i]
    BY <1>5, <2>6
  <2> HIDE DEF D
  <2>8. QED BY <1>5, <2>5, <2>6, <2>7, RowRead DEF u, v
<1>7. \A ss \in Seq(C) : Count(label, Len(ss)) ++ FlattenSeq(ss) \in ByteString
  BY <1>3, <1>5, TextAlgebra
<1>8. IsCode(CountedTexts(label, C))
  BY <1>6, <1>7 DEF IsCode, CountedTexts
<1>9. ASSUME NEW ss \in Seq(C), NEW tt \in Seq(C),
             Count(label, Len(ss)) ++ FlattenSeq(ss) = Count(label, Len(tt)) ++ FlattenSeq(tt)
      PROVE  ss = tt
  <2>1. <<>> \in ByteString
    BY TextAlgebra
  <2>2. QED BY <1>6, <1>9, <2>1
<1>10. QED BY <1>8, <1>9

\* What is counted is one text for each element of a sorted list.
LEMMA CountedList ==
  ASSUME NEW label \in Nat, NEW C, IsCode(C), NEW S, NEW text,
         \A x, y \in S : text[x] = text[y] => x = y,
         NEW s \in Seq(S), NEW ss \in Seq(C), Len(ss) = Len(s), \A i \in 1..Len(s) : ss[i] = text[s[i]],
         NEW t \in Seq(S), NEW tt \in Seq(C), Len(tt) = Len(t), \A i \in 1..Len(t) : tt[i] = text[t[i]]
  PROVE  /\ Count(label, Len(s)) ++ FlattenSeq(ss) \in CountedTexts(label, C)
         /\ Count(label, Len(s)) ++ FlattenSeq(ss) = Count(label, Len(t)) ++ FlattenSeq(tt) => s = t
<1>1. Count(label, Len(s)) ++ FlattenSeq(ss) \in CountedTexts(label, C)
  BY DEF CountedTexts
<1>2. ASSUME Count(label, Len(s)) ++ FlattenSeq(ss) = Count(label, Len(t)) ++ FlattenSeq(tt) PROVE s = t
  <2>1. ss = tt
    BY <1>2, CountedAreCode
  <2>2. Len(s) = Len(t)
    BY <2>1
  <2>3. \A i \in 1..Len(s) : s[i] = t[i]
    <3> SUFFICES ASSUME NEW i \in 1..Len(s) PROVE s[i] = t[i]
      OBVIOUS
    <3>1. i \in 1..Len(t) /\ s[i] \in S /\ t[i] \in S
      BY <2>2
    <3>2. text[s[i]] = text[t[i]]
      BY <2>1, <3>1
    <3>3. QED BY <3>1, <3>2
  <2>4. QED BY <2>2, <2>3, SeqEqual
<1>3. QED BY <1>1, <1>2

\* Two fields, and three, are read back.
LEMMA TwoFields ==
  ASSUME NEW a \in Nat, NEW b \in Nat
  PROVE  /\ IsCode(Both(FieldTexts(a), FieldTexts(b)))
         /\ \A v, w \in ByteString : Field(a, v) ++ Field(b, w) \in Both(FieldTexts(a), FieldTexts(b))
         /\ \A v1, w1, v2, w2 \in ByteString :
              Field(a, v1) ++ Field(b, w1) = Field(a, v2) ++ Field(b, w2) => v1 = v2 /\ w1 = w2
<1>1. IsCode(FieldTexts(a)) /\ IsCode(FieldTexts(b))
  BY FieldsAreCode
<1>2. \A v \in ByteString : Field(a, v) \in FieldTexts(a) /\ Field(b, v) \in FieldTexts(b)
  BY DEF FieldTexts
<1>3. IsCode(Both(FieldTexts(a), FieldTexts(b)))
  BY <1>1, BothAreCode
<1>4. \A v, w \in ByteString : Field(a, v) ++ Field(b, w) \in Both(FieldTexts(a), FieldTexts(b))
  BY <1>2 DEF Both
<1>5. ASSUME NEW v1 \in ByteString, NEW v2 \in ByteString, NEW w1 \in ByteString, NEW w2 \in ByteString,
             Field(a, v1) ++ Field(b, w1) = Field(a, v2) ++ Field(b, w2)
      PROVE  v1 = v2 /\ w1 = w2
  <2>1. Field(a, v1) = Field(a, v2) /\ Field(b, w1) = Field(b, w2)
    BY <1>1, <1>2, <1>5, BothAreCode
  <2>2. QED BY <2>1, FieldsAreCode
<1>6. QED BY <1>3, <1>4, <1>5

ToolTexts(label) == Both(Both(FieldTexts(label), FieldTexts(label + 1)), FieldTexts(label + 2))

\* What is hashed of a tool gives its fields back.
LEMMA ToolRead ==
  ASSUME NEW label \in Nat
  PROVE  /\ IsCode(ToolTexts(label))
         /\ \A x \in Tool : HashTool(label, x) \in ToolTexts(label)
         /\ \A x, y \in Tool : HashTool(label, x) = HashTool(label, y) => x = y
<1> DEFINE C == Both(FieldTexts(label), FieldTexts(label + 1))
           D == FieldTexts(label + 2)
           two(x) == Field(label, x.role) ++ Field(label + 1, x.executable)
           third(x) == Field(label + 2, x.version)
<1>1. label + 1 \in Nat /\ label + 2 \in Nat
  OBVIOUS
<1>2. IsCode(C) /\ IsCode(D)
  BY <1>1, TwoFields, FieldsAreCode
<1>3. \A x \in Tool : x.role \in ByteString /\ x.executable \in ByteString /\ x.version \in ByteString
  BY DEF Tool
<1>4. \A x \in Tool : HashTool(label, x) = two(x) ++ third(x)
  BY DEF HashTool, ++
<1>5. \A x \in Tool : two(x) \in C /\ third(x) \in D
  <2> SUFFICES ASSUME NEW x \in Tool PROVE two(x) \in C /\ third(x) \in D
    OBVIOUS
  <2>1. two(x) \in C
    BY <1>1, <1>3, TwoFields
  <2>2. third(x) \in D
    BY <1>3 DEF FieldTexts
  <2>3. QED BY <2>1, <2>2
<1>6. IsCode(ToolTexts(label))
  BY <1>2, BothAreCode DEF ToolTexts
<1> HIDE DEF C, D
<1>7. ASSUME NEW x \in Tool, NEW y \in Tool, HashTool(label, x) = HashTool(label, y) PROVE x = y
  <2>1. two(x) = two(y) /\ third(x) = third(y)
    <3> HIDE DEF two, third
    <3>1. two(x) ++ third(x) = two(y) ++ third(y)
      BY <1>4, <1>7
    <3>2. two(x) \in C /\ two(y) \in C /\ third(x) \in D /\ third(y) \in D
      BY <1>5
    <3>3. QED BY <1>2, <3>1, <3>2, BothAreCode, SMTT(30)
  <2>2. x.role = y.role /\ x.executable = y.executable
    BY <1>1, <1>3, <2>1, TwoFields, SMTT(30)
  <2>3. x.version = y.version
    BY <1>1, <1>3, <2>1, FieldsAreCode
  <2>4. QED BY <2>2, <2>3 DEF Tool
<1>8. \A x \in Tool : HashTool(label, x) \in ToolTexts(label)
  <2> HIDE DEF two, third
  <2>1. QED BY <1>4, <1>5 DEF ToolTexts, Both, C, D
<1>9. QED BY <1>6, <1>7, <1>8

Dep == [package : ByteString, result : ByteString]

\* Hashed dependencies are those of the list, in any order.
LEMMA DependenciesRead ==
  ASSUME NEW x \in Seq(Dep), NEW y \in Seq(Dep),
         IsInjective([i \in DOMAIN x |-> x[i].package]),
         IsInjective([i \in DOMAIN y |-> y[i].package])
  PROVE  /\ IsCode(CountedTexts(6, Both(FieldTexts(7), FieldTexts(8))))
         /\ HashDependencies(x) \in CountedTexts(6, Both(FieldTexts(7), FieldTexts(8)))
         /\ HashDependencies(x) = HashDependencies(y) => Len(x) = Len(y) /\ Range(x) = Range(y)
<1> DEFINE C == Both(FieldTexts(7), FieldTexts(8))
           text == [d \in Dep |-> Field(7, d.package) ++ Field(8, d.result)]
           sorted(u) == ByKey(u, "package")
           parts(s) == [i \in DOMAIN s |-> text[s[i]]]
           whole(s) == Count(6, Len(s)) ++ FlattenSeq(parts(s))
<1>1. \A d \in Dep : d.package \in ByteString /\ d.result \in ByteString
  BY DEF Dep
<1>2. IsCode(C) /\ \A d \in Dep : text[d] \in C
  BY <1>1, TwoFields
<1>3. \A d, e \in Dep : text[d] = text[e] => d = e
  <2> SUFFICES ASSUME NEW d \in Dep, NEW e \in Dep, text[d] = text[e] PROVE d = e
    OBVIOUS
  <2>1. d.package = e.package /\ d.result = e.result
    BY <1>1, TwoFields
  <2>2. \A x1, x2 \in Dep : x1.package = x2.package /\ x1.result = x2.result => x1 = x2
    BY ONLY DEF Dep
  <2> HIDE DEF text
  <2>3. QED BY <2>1, <2>2
<1>4. ASSUME NEW u \in Seq(Dep), IsInjective([i \in DOMAIN u |-> u[i].package])
      PROVE  /\ sorted(u) \in Seq(Dep) /\ Len(sorted(u)) = Len(u) /\ Range(sorted(u)) = Range(u)
             /\ HashDependencies(u) = whole(sorted(u))
  <2>1. u \in Seq(Range(u)) /\ \A i \in DOMAIN u : u[i] \in Dep /\ u[i]["package"] \in ByteString
    BY <1>1 DEF Range
  <2>2. /\ sorted(u) \in Seq(Range(u)) /\ Len(sorted(u)) = Len(u) /\ Range(sorted(u)) = Range(u)
    <3>1. [i \in DOMAIN u |-> u[i]["package"]] = [i \in DOMAIN u |-> u[i].package]
      OBVIOUS
    <3>2. QED BY <1>4, <2>1, <3>1, ListSorted
  <2>3. Range(u) \subseteq Dep
    BY <2>1 DEF Range
  <2>4. sorted(u) \in Seq(Dep)
    BY <2>2, <2>3, SeqMonotonic, Zenon
  <2> DEFINE s == sorted(u)
  <2>5. [i \in DOMAIN s |-> text[s[i]]] = [i \in DOMAIN s |-> Field(7, s[i].package) \o Field(8, s[i].result)]
    <3> HIDE DEF s
    <3>1. \A i \in DOMAIN s : text[s[i]] = Field(7, s[i].package) \o Field(8, s[i].result)
      <4>1. \A i \in DOMAIN s : s[i] \in Dep
        BY <2>4 DEF s
      <4>2. QED BY <4>1 DEF ++
    <3> HIDE DEF text
    <3>2. QED BY <3>1
  <2>6. HashDependencies(u) = Count(6, Len(u)) ++ FlattenSeq([i \in DOMAIN s |-> Field(7, s[i].package) \o Field(8, s[i].result)])
    BY DEF HashDependencies, ++
  <2> HIDE DEF text
  <2>7. QED BY <2>2, <2>4, <2>5, <2>6
<1> HIDE DEF C, text, parts, whole, sorted
<1>5. /\ whole(sorted(x)) \in CountedTexts(6, C)
      /\ whole(sorted(x)) = whole(sorted(y)) => sorted(x) = sorted(y)
  <2>1. \A u \in Seq(Dep) : /\ parts(u) \in Seq(C) /\ Len(parts(u)) = Len(u)
                             /\ \A i \in 1..Len(u) : parts(u)[i] = text[u[i]]
    BY ONLY <1>2 DEF parts
  <2>2. sorted(x) \in Seq(Dep) /\ sorted(y) \in Seq(Dep)
    BY <1>4
  <2> DEFINE a == sorted(x)
             aa == parts(a)
             b == sorted(y)
             bb == parts(b)
  <2>3. /\ a \in Seq(Dep) /\ aa \in Seq(C) /\ Len(aa) = Len(a) /\ \A i \in 1..Len(a) : aa[i] = text[a[i]]
        /\ b \in Seq(Dep) /\ bb \in Seq(C) /\ Len(bb) = Len(b) /\ \A i \in 1..Len(b) : bb[i] = text[b[i]]
    BY <2>1, <2>2
  <2> HIDE DEF a, aa, b, bb
  <2>4. ASSUME NEW n \in Nat
        PROVE  /\ Count(n, Len(a)) ++ FlattenSeq(aa) \in CountedTexts(n, C)
               /\ Count(n, Len(a)) ++ FlattenSeq(aa) = Count(n, Len(b)) ++ FlattenSeq(bb) => a = b
    <3>1. Count(n, Len(a)) ++ FlattenSeq(aa) \in CountedTexts(n, C)
      BY <2>3 DEF CountedTexts
    <3>2. Count(n, Len(a)) ++ FlattenSeq(aa) = Count(n, Len(b)) ++ FlattenSeq(bb) => aa = bb
      <4>1. Len(aa) = Len(a) /\ Len(bb) = Len(b) /\ aa \in Seq(C) /\ bb \in Seq(C)
        BY <2>3
      <4>2. Count(n, Len(aa)) ++ FlattenSeq(aa) = Count(n, Len(bb)) ++ FlattenSeq(bb) => aa = bb
        BY ONLY <1>2, <4>1, <2>4, CountedAreCode
      <4>3. QED BY <4>1, <4>2
    <3>3. aa = bb => a = b
      <4>1. Len(aa) = Len(a) /\ Len(bb) = Len(b)
        BY <2>3
      <4>2. ASSUME aa = bb PROVE \A i \in 1..Len(a) : a[i] = b[i]
        <5> SUFFICES ASSUME NEW i \in 1..Len(a) PROVE a[i] = b[i]
          OBVIOUS
        <5>1. a[i] \in Dep /\ b[i] \in Dep /\ text[a[i]] = text[b[i]]
          BY <2>3, <4>1, <4>2
        <5>2. QED BY <1>3, <5>1
      <4>3. QED BY <2>3, <4>1, <4>2, SeqEqual
    <3>4. QED BY <3>1, <3>2, <3>3
  <2>5. 6 \in Nat
    OBVIOUS
  <2>6. /\ Count(6, Len(a)) ++ FlattenSeq(aa) \in CountedTexts(6, C)
        /\ Count(6, Len(a)) ++ FlattenSeq(aa) = Count(6, Len(b)) ++ FlattenSeq(bb) => a = b
    BY <2>4, <2>5
  <2>7. QED BY <2>6 DEF whole, a, aa, b, bb
<1>6. IsCode(CountedTexts(6, C))
  BY <1>2, CountedAreCode
<1>7. QED BY <1>4, <1>5, <1>6 DEF C

\* Hashed tools are those of the list, in any order.
LEMMA ToolsRead ==
  ASSUME NEW x \in Seq(Tool), NEW y \in Seq(Tool),
         IsInjective([i \in DOMAIN x |-> x[i].role]),
         IsInjective([i \in DOMAIN y |-> y[i].role])
  PROVE  /\ IsCode(CountedTexts(9, ToolTexts(10)))
         /\ HashTools(x) \in CountedTexts(9, ToolTexts(10))
         /\ HashTools(x) = HashTools(y) => Len(x) = Len(y) /\ Range(x) = Range(y)
<1> DEFINE C == ToolTexts(10)
           text == [d \in Tool |-> HashTool(10, d)]
           sorted(u) == ByKey(u, "role")
           parts(s) == [i \in DOMAIN s |-> text[s[i]]]
           whole(s) == Count(9, Len(s)) ++ FlattenSeq(parts(s))
<1>1. \A d \in Tool : d.role \in ByteString
  BY DEF Tool
<1>2. IsCode(C) /\ \A d \in Tool : text[d] \in C
  BY ToolRead
<1>3. \A d, e \in Tool : text[d] = text[e] => d = e
  BY ToolRead
<1>4. ASSUME NEW u \in Seq(Tool), IsInjective([i \in DOMAIN u |-> u[i].role])
      PROVE  /\ sorted(u) \in Seq(Tool) /\ Len(sorted(u)) = Len(u) /\ Range(sorted(u)) = Range(u)
             /\ HashTools(u) = whole(sorted(u))
  <2>1. u \in Seq(Range(u)) /\ \A i \in DOMAIN u : u[i] \in Tool /\ u[i]["role"] \in ByteString
    BY <1>1 DEF Range
  <2>2. /\ sorted(u) \in Seq(Range(u)) /\ Len(sorted(u)) = Len(u) /\ Range(sorted(u)) = Range(u)
    <3>1. [i \in DOMAIN u |-> u[i]["role"]] = [i \in DOMAIN u |-> u[i].role]
      OBVIOUS
    <3>2. QED BY <1>4, <2>1, <3>1, ListSorted
  <2>3. Range(u) \subseteq Tool
    BY <2>1 DEF Range
  <2>4. sorted(u) \in Seq(Tool)
    BY <2>2, <2>3, SeqMonotonic, Zenon
  <2> DEFINE s == sorted(u)
  <2>5. [i \in DOMAIN s |-> text[s[i]]] = [i \in DOMAIN s |-> HashTool(10, s[i])]
    <3> HIDE DEF s
    <3>1. \A i \in DOMAIN s : text[s[i]] = HashTool(10, s[i])
      <4>1. \A i \in DOMAIN s : s[i] \in Tool
        BY <2>4 DEF s
      <4>2. QED BY <4>1
    <3> HIDE DEF text
    <3>2. QED BY <3>1
  <2>6. HashTools(u) = Count(9, Len(u)) ++ FlattenSeq([i \in DOMAIN s |-> HashTool(10, s[i])])
    BY DEF HashTools, ++
  <2> HIDE DEF text
  <2>7. QED BY <2>2, <2>4, <2>5, <2>6
<1> HIDE DEF C, text, parts, whole, sorted
<1>5. /\ whole(sorted(x)) \in CountedTexts(9, C)
      /\ whole(sorted(x)) = whole(sorted(y)) => sorted(x) = sorted(y)
  <2>1. \A u \in Seq(Tool) : /\ parts(u) \in Seq(C) /\ Len(parts(u)) = Len(u)
                             /\ \A i \in 1..Len(u) : parts(u)[i] = text[u[i]]
    BY ONLY <1>2 DEF parts
  <2>2. sorted(x) \in Seq(Tool) /\ sorted(y) \in Seq(Tool)
    BY <1>4
  <2> DEFINE a == sorted(x)
             aa == parts(a)
             b == sorted(y)
             bb == parts(b)
  <2>3. /\ a \in Seq(Tool) /\ aa \in Seq(C) /\ Len(aa) = Len(a) /\ \A i \in 1..Len(a) : aa[i] = text[a[i]]
        /\ b \in Seq(Tool) /\ bb \in Seq(C) /\ Len(bb) = Len(b) /\ \A i \in 1..Len(b) : bb[i] = text[b[i]]
    BY <2>1, <2>2
  <2> HIDE DEF a, aa, b, bb
  <2>4. ASSUME NEW n \in Nat
        PROVE  /\ Count(n, Len(a)) ++ FlattenSeq(aa) \in CountedTexts(n, C)
               /\ Count(n, Len(a)) ++ FlattenSeq(aa) = Count(n, Len(b)) ++ FlattenSeq(bb) => a = b
    <3>1. Count(n, Len(a)) ++ FlattenSeq(aa) \in CountedTexts(n, C)
      BY <2>3 DEF CountedTexts
    <3>2. Count(n, Len(a)) ++ FlattenSeq(aa) = Count(n, Len(b)) ++ FlattenSeq(bb) => aa = bb
      <4>1. Len(aa) = Len(a) /\ Len(bb) = Len(b) /\ aa \in Seq(C) /\ bb \in Seq(C)
        BY <2>3
      <4>2. Count(n, Len(aa)) ++ FlattenSeq(aa) = Count(n, Len(bb)) ++ FlattenSeq(bb) => aa = bb
        BY ONLY <1>2, <4>1, <2>4, CountedAreCode
      <4>3. QED BY <4>1, <4>2
    <3>3. aa = bb => a = b
      <4>1. Len(aa) = Len(a) /\ Len(bb) = Len(b)
        BY <2>3
      <4>2. ASSUME aa = bb PROVE \A i \in 1..Len(a) : a[i] = b[i]
        <5> SUFFICES ASSUME NEW i \in 1..Len(a) PROVE a[i] = b[i]
          OBVIOUS
        <5>1. a[i] \in Tool /\ b[i] \in Tool /\ text[a[i]] = text[b[i]]
          BY <2>3, <4>1, <4>2
        <5>2. QED BY <1>3, <5>1
      <4>3. QED BY <2>3, <4>1, <4>2, SeqEqual
    <3>4. QED BY <3>1, <3>2, <3>3
  <2>5. 9 \in Nat
    OBVIOUS
  <2>6. /\ Count(9, Len(a)) ++ FlattenSeq(aa) \in CountedTexts(9, C)
        /\ Count(9, Len(a)) ++ FlattenSeq(aa) = Count(9, Len(b)) ++ FlattenSeq(bb) => a = b
    BY <2>4, <2>5
  <2>7. QED BY <2>6 DEF whole, a, aa, b, bb
<1>6. IsCode(CountedTexts(9, C))
  BY <1>2, CountedAreCode
<1>7. QED BY <1>4, <1>5, <1>6 DEF C

\* A hashed map is the map.
LEMMA MapRead ==
  ASSUME NEW label \in Nat, NEW f, IsMap(f), NEW g, IsMap(g)
  PROVE  LET T == CountedTexts(label, Both(FieldTexts(label + 1), FieldTexts(label + 2)))
         IN  /\ IsCode(T) /\ HashMap(label, f) \in T
             /\ HashMap(label, f) = HashMap(label, g) => f = g
<1> DEFINE Pair == [key : ByteString, value : ByteString]
           C == Both(FieldTexts(label + 1), FieldTexts(label + 2))
           text == [p \in Pair |-> Field(label + 1, p.key) ++ Field(label + 2, p.value)]
           sorted(m) == [i \in DOMAIN InOrder(DOMAIN m) |->
                            [key |-> InOrder(DOMAIN m)[i], value |-> m[InOrder(DOMAIN m)[i]]]]
           parts(s) == [i \in DOMAIN s |-> text[s[i]]]
           whole(s) == Count(label, Len(s)) ++ FlattenSeq(parts(s))
           Holds(m, key, value) == key \in DOMAIN m /\ value = m[key]
           Lists(m, key, value) == \E i \in DOMAIN sorted(m) : sorted(m)[i] = [key |-> key, value |-> value]
<1>0. label + 1 \in Nat /\ label + 2 \in Nat
  OBVIOUS
<1>1. \A p \in Pair : p.key \in ByteString /\ p.value \in ByteString
  OBVIOUS
<1>2. IsCode(C) /\ \A p \in Pair : text[p] \in C
  BY <1>0, <1>1, TwoFields
<1>3. \A p, q \in Pair : text[p] = text[q] => p = q
  <2> SUFFICES ASSUME NEW p \in Pair, NEW q \in Pair, text[p] = text[q] PROVE p = q
    OBVIOUS
  <2>1. p.key = q.key /\ p.value = q.value
    BY <1>0, <1>1, TwoFields
  <2>2. QED BY <2>1
<1>4. ASSUME NEW m, IsMap(m)
      PROVE  /\ sorted(m) \in Seq(Pair) /\ HashMap(label, m) = whole(sorted(m))
             /\ \A key, value : Holds(m, key, value) <=> Lists(m, key, value)
  <2> DEFINE keys == InOrder(DOMAIN m)
             s == sorted(m)
  <2>1. keys \in Seq(DOMAIN m) /\ Len(keys) = Cardinality(DOMAIN m) /\ Range(keys) = DOMAIN m
    BY <1>4, TextsSorted DEF IsMap
  <2>2. \A key \in DOMAIN m : key \in ByteString /\ m[key] \in ByteString
    BY <1>4 DEF IsMap
  <2> HIDE DEF keys
  <2>3. DOMAIN keys = 1..Len(keys) /\ Len(keys) \in Nat /\ \A i \in DOMAIN keys : keys[i] \in DOMAIN m
    BY <2>1
  <2>4. s = [i \in DOMAIN keys |-> [key |-> keys[i], value |-> m[keys[i]]]]
    BY DEF keys
  <2>5. \A i \in DOMAIN keys : [key |-> keys[i], value |-> m[keys[i]]] \in Pair
    BY <2>2, <2>3
  <2> HIDE DEF s, Pair
  <2>6. s \in Seq(Pair) /\ Len(s) = Len(keys) /\ DOMAIN s = DOMAIN keys
    BY <2>3, <2>4, <2>5
  <2>7. [i \in DOMAIN s |-> text[s[i]]] = [i \in DOMAIN keys |-> Field(label + 1, keys[i]) \o Field(label + 2, m[keys[i]])]
    <3>1. \A i \in DOMAIN keys : text[s[i]] = Field(label + 1, keys[i]) \o Field(label + 2, m[keys[i]])
      <4> SUFFICES ASSUME NEW i \in DOMAIN keys
                   PROVE  text[s[i]] = Field(label + 1, keys[i]) \o Field(label + 2, m[keys[i]])
        OBVIOUS
      <4>1. s[i] = [key |-> keys[i], value |-> m[keys[i]]] /\ s[i] \in Pair
        BY <2>4, <2>5
      <4>2. s[i].key = keys[i] /\ s[i].value = m[keys[i]]
        BY <4>1
      <4>3. text[s[i]] = Field(label + 1, s[i].key) ++ Field(label + 2, s[i].value)
        BY <4>1
      <4>4. QED BY <4>2, <4>3 DEF ++
    <3> HIDE DEF text
    <3>2. QED BY <2>6, <3>1
  <2>8. HashMap(label, m) = Count(label, Cardinality(DOMAIN m))
          ++ FlattenSeq([i \in DOMAIN keys |-> Field(label + 1, keys[i]) \o Field(label + 2, m[keys[i]])])
    BY DEF HashMap, keys, ++
  <2> HIDE DEF text
  <2>9. HashMap(label, m) = whole(s)
    BY <2>1, <2>6, <2>7, <2>8
  <2>10. ASSUME NEW key, NEW value
         PROVE  (key \in DOMAIN m /\ value = m[key]) <=> \E i \in DOMAIN s : s[i] = [key |-> key, value |-> value]
    <3>1. ASSUME key \in DOMAIN m, value = m[key] PROVE \E i \in DOMAIN s : s[i] = [key |-> key, value |-> value]
      <4>1. PICK i \in DOMAIN keys : keys[i] = key
        BY <2>1, <3>1 DEF Range
      <4>2. s[i] = [key |-> key, value |-> value]
        BY <2>4, <3>1, <4>1
      <4>3. QED BY <2>6, <4>1, <4>2
    <3>2. ASSUME NEW i \in DOMAIN s, s[i] = [key |-> key, value |-> value] PROVE key \in DOMAIN m /\ value = m[key]
      <4>1. s[i] = [key |-> keys[i], value |-> m[keys[i]]]
        BY <2>4, <2>6
      <4>2. key = keys[i] /\ value = m[keys[i]]
        BY <3>2, <4>1
      <4>3. QED BY <2>3, <2>6, <4>2
    <3>3. QED BY <3>1, <3>2
  <2>11. QED BY <2>6, <2>9, <2>10 DEF s
<1> HIDE DEF C, text, parts, whole, sorted, Pair, Holds, Lists
<1>5. /\ whole(sorted(f)) \in CountedTexts(label, C)
      /\ whole(sorted(f)) = whole(sorted(g)) => sorted(f) = sorted(g)
  <2>1. \A u \in Seq(Pair) : /\ parts(u) \in Seq(C) /\ Len(parts(u)) = Len(u)
                             /\ \A i \in 1..Len(u) : parts(u)[i] = text[u[i]]
    BY <1>2 DEF parts
  <2>2. sorted(f) \in Seq(Pair) /\ sorted(g) \in Seq(Pair)
    BY <1>4
  <2>3. QED BY <1>2, <1>3, <2>1, <2>2, CountedList DEF whole
<1>6. IsCode(CountedTexts(label, C))
  BY <1>2, CountedAreCode
<1>7. sorted(f) = sorted(g) => f = g
  <2> SUFFICES ASSUME sorted(f) = sorted(g) PROVE f = g
    OBVIOUS
  <2>1. \A key, value : Holds(f, key, value) <=> Holds(g, key, value)
    <3> SUFFICES ASSUME NEW key, NEW value PROVE Holds(f, key, value) <=> Holds(g, key, value)
      OBVIOUS
    <3>1. Lists(f, key, value) <=> Lists(g, key, value)
      BY DEF Lists
    <3>2. QED BY <1>4, <3>1
  <2>2. DOMAIN f = DOMAIN g /\ \A key \in DOMAIN f : f[key] = g[key]
    BY <2>1 DEF Holds
  <2>3. f = [key \in DOMAIN f |-> f[key]] /\ g = [key \in DOMAIN g |-> g[key]]
    BY DEF IsMap
  <2>4. QED BY <2>2, <2>3
<1>8. QED BY <1>4, <1>5, <1>6, <1>7 DEF C

\* A text whose end has no separator is split at its last separator.
LEMMA LastSeparator ==
  ASSUME NEW m \in Nat, NEW a \in ByteString, NEW b \in ByteString,
         NEW p \in ByteString, NEW q \in ByteString, m \notin Range(p), m \notin Range(q),
         a ++ (<<m>> ++ p) = b ++ (<<m>> ++ q)
  PROVE  a = b /\ p = q
<1> DEFINE left == a ++ (<<m>> ++ p)
           right == b ++ (<<m>> ++ q)
<1>1. /\ Len(a) \in Nat /\ Len(b) \in Nat /\ Len(p) \in Nat /\ Len(q) \in Nat
  BY DEF ByteString
<1>2. ASSUME NEW c \in ByteString, NEW t \in ByteString, m \notin Range(t)
      PROVE  /\ Len(c ++ (<<m>> ++ t)) = Len(c) + 1 + Len(t)
             /\ \A i \in 1..Len(c) : (c ++ (<<m>> ++ t))[i] = c[i]
             /\ (c ++ (<<m>> ++ t))[Len(c) + 1] = m
             /\ \A i \in (Len(c) + 2)..(Len(c) + 1 + Len(t)) : (c ++ (<<m>> ++ t))[i] # m
  <2> DEFINE u == <<m>> \o t
  <2>1. /\ Len(c) \in Nat /\ Len(t) \in Nat /\ \A i \in 1..Len(t) : t[i] # m
    BY <1>2 DEF ByteString, Range
  <2>2. /\ u \in Seq(Nat) /\ Len(u) = 1 + Len(t) /\ u[1] = m /\ \A i \in 1..Len(t) : u[i + 1] = t[i]
    BY DEF ByteString
  <2> HIDE DEF u
  <2>3. /\ Len(c \o u) = Len(c) + Len(u)
        /\ \A i \in 1..Len(c) : (c \o u)[i] = c[i]
        /\ \A i \in 1..Len(u) : (c \o u)[Len(c) + i] = u[i]
    <3>1. c \in Seq(Nat)
      BY DEF ByteString
    <3>2. /\ Len(c \o u) = Len(c) + Len(u)
          /\ \A i \in 1..(Len(c) + Len(u)) :
               (c \o u)[i] = IF i <= Len(c) THEN c[i] ELSE u[i - Len(c)]
      BY <2>2, <3>1, ConcatProperties
    <3>3. Len(u) \in Nat
      BY <2>2
    <3>4. \A i \in 1..Len(c) : i \in 1..(Len(c) + Len(u)) /\ i <= Len(c)
      BY <2>1, <3>3
    <3>5. \A i \in 1..Len(u) : /\ Len(c) + i \in 1..(Len(c) + Len(u)) /\ ~ Len(c) + i <= Len(c)
                               /\ (Len(c) + i) - Len(c) = i
      BY <2>1, <3>3
    <3>6. \A i \in 1..Len(u) : (c \o u)[Len(c) + i] = u[i]
      <4> SUFFICES ASSUME NEW i \in 1..Len(u) PROVE (c \o u)[Len(c) + i] = u[i]
        OBVIOUS
      <4>1. (c \o u)[Len(c) + i] = u[(Len(c) + i) - Len(c)]
        BY <3>2, <3>5
      <4>2. QED BY <3>5, <4>1
    <3>7. QED BY <3>2, <3>4, <3>6
  <2> DEFINE w == c \o u
  <2>4. c ++ (<<m>> ++ t) = w
    BY DEF ++, u
  <2>5. (c \o u)[Len(c) + 1] = m
    BY <2>1, <2>2, <2>3
  <2>6. \A i \in (Len(c) + 2)..(Len(c) + 1 + Len(t)) : (c \o u)[i] # m
    <3> SUFFICES ASSUME NEW i \in (Len(c) + 2)..(Len(c) + 1 + Len(t)) PROVE (c \o u)[i] # m
      OBVIOUS
    <3>1. PICK k \in 1..Len(t) : i = Len(c) + (k + 1)
      <4>1. i - Len(c) - 1 \in 1..Len(t) /\ i = Len(c) + ((i - Len(c) - 1) + 1)
        BY <2>1
      <4>2. QED BY <4>1
    <3>2. k + 1 \in 1..Len(u)
      BY <2>1, <2>2
    <3>3. (c \o u)[Len(c) + (k + 1)] = u[k + 1]
      BY <2>3, <3>2
    <3>4. u[k + 1] = t[k] /\ t[k] # m
      BY <2>1, <2>2
    <3>5. QED BY <3>1, <3>3, <3>4
  <2>7. Len(w) = Len(c) + 1 + Len(t)
    BY <2>1, <2>2, <2>3
  <2>8. \A i \in 1..Len(c) : w[i] = c[i]
    BY <2>3
  <2> HIDE DEF w
  <2>9. QED BY <2>4, <2>5, <2>6, <2>7, <2>8 DEF w
<1>3. /\ Len(left) = Len(a) + 1 + Len(p) /\ left[Len(a) + 1] = m
      /\ \A i \in 1..Len(a) : left[i] = a[i]
      /\ \A i \in (Len(a) + 2)..(Len(a) + 1 + Len(p)) : left[i] # m
  BY <1>2
<1>4. /\ Len(right) = Len(b) + 1 + Len(q) /\ right[Len(b) + 1] = m
      /\ \A i \in 1..Len(b) : right[i] = b[i]
      /\ \A i \in (Len(b) + 2)..(Len(b) + 1 + Len(q)) : right[i] # m
  BY <1>2
<1>5. left = right
  OBVIOUS
<1> HIDE DEF left, right
<1>6. Len(a) = Len(b)
  <2>1. ~ Len(a) < Len(b)
    <3> SUFFICES ASSUME Len(a) < Len(b) PROVE FALSE
      OBVIOUS
    <3>1. Len(b) + 1 \in (Len(a) + 2)..(Len(a) + 1 + Len(p))
      BY <1>1, <1>3, <1>4, <1>5
    <3>2. QED BY <1>3, <1>4, <1>5, <3>1
  <2>2. ~ Len(b) < Len(a)
    <3> SUFFICES ASSUME Len(b) < Len(a) PROVE FALSE
      OBVIOUS
    <3>1. Len(a) + 1 \in (Len(b) + 2)..(Len(b) + 1 + Len(q))
      BY <1>1, <1>3, <1>4, <1>5
    <3>2. QED BY <1>3, <1>4, <1>5, <3>1
  <2>3. QED BY <1>1, <2>1, <2>2
<1>7. a = b
  <2>1. \A i \in 1..Len(a) : a[i] = b[i]
    BY <1>3, <1>4, <1>5, <1>6
  <2>2. QED BY <1>6, <2>1, SeqEqual DEF ByteString
<1>8. p = q
  <2>1. <<m>> \in ByteString
    BY DEF ByteString
  <2>2. <<m>> ++ p \in ByteString /\ <<m>> ++ q \in ByteString
    BY <2>1, TextAlgebra
  <2>3. a ++ (<<m>> ++ p) = a ++ (<<m>> ++ q)
    BY <1>5, <1>7 DEF left, right
  <2>4. <<m>> ++ p = <<m>> ++ q
    BY <2>2, <2>3, TextAlgebra
  <2>5. QED BY <2>1, <2>4, TextAlgebra
<1>9. QED BY <1>7, <1>8

\* The text of a Git source or an archive says which one it is.
LEMMA SourceRead ==
  ASSUME NEW x \in LockedSource, x.kind # "path", NEW y \in LockedSource, y.kind # "path",
         Range(x.object) \cap {Separator["git"][1], Separator["archive"][1]} = {},
         Range(y.object) \cap {Separator["git"][1], Separator["archive"][1]} = {}
  PROVE  /\ CanonicalIdentity(x) \in ByteString
         /\ CanonicalIdentity(x) = CanonicalIdentity(y) =>
              x.kind = y.kind /\ x.at = y.at /\ x.object = y.object
<1> DEFINE Rest(s, m) == s.at ++ (<<m>> ++ s.object)
<1>1. ASSUME NEW s \in LockedSource, s.kind # "path"
      PROVE  \E t, m \in Nat : /\ (s.kind = "git" /\ t = 101 /\ m = 64) \/ (s.kind = "archive" /\ t = 102 /\ m = 35)
                               /\ CanonicalIdentity(s) = <<t>> ++ Rest(s, m)
                               /\ Rest(s, m) \in ByteString /\ <<t>> ++ Rest(s, m) \in ByteString
  <2>1. s.at \in ByteString /\ s.object \in ByteString /\ s.kind \in {"git", "archive"}
    BY <1>1 DEF LockedSource, SourceKind
  <2>2. ASSUME NEW t \in Nat, NEW m \in Nat
        PROVE  /\ ((<<t>> \o s.at) \o <<m>>) \o s.object = <<t>> ++ Rest(s, m)
               /\ Rest(s, m) \in ByteString /\ <<t>> ++ Rest(s, m) \in ByteString
    <3>1. <<t>> \in ByteString /\ <<m>> \in ByteString
      BY DEF ByteString
    <3> DEFINE a == <<t>>
               b == s.at
               c == <<m>>
               d == s.object
    <3>2. a \in ByteString /\ b \in ByteString /\ c \in ByteString /\ d \in ByteString
      BY <2>1, <3>1
    <3>3. ((a \o b) \o c) \o d = ((a ++ b) ++ c) ++ d
      BY DEF ++
    <3> HIDE DEF a, b, c, d
    <3>4. \A u, v, w \in ByteString : (u ++ v) ++ w = u ++ (v ++ w)
      BY TextAlgebra, Zenon
    <3>5. \A u, v \in ByteString : u ++ v \in ByteString
      BY TextAlgebra, Zenon
    <3>6. (a ++ b) ++ c = a ++ (b ++ c) /\ b ++ c \in ByteString
      BY <3>2, <3>4, <3>5
    <3>7. (a ++ (b ++ c)) ++ d = a ++ ((b ++ c) ++ d) /\ (b ++ c) ++ d = b ++ (c ++ d)
      BY <3>2, <3>4, <3>6
    <3>8. b ++ (c ++ d) \in ByteString /\ a ++ (b ++ (c ++ d)) \in ByteString
      BY <3>2, <3>5
    <3>9. QED BY <3>3, <3>6, <3>7, <3>8 DEF a, b, c, d
  <2>3. CASE s.kind = "git"
    <3>1. CanonicalIdentity(s) = ((<<101>> \o s.at) \o <<64>>) \o s.object
      <4>1. Tag["git"] = <<101>> /\ Separator["git"] = <<64>>
        BY DEF Tag, Separator
      <4>2. QED BY <2>3, <4>1 DEF CanonicalIdentity
    <3>2. 101 \in Nat /\ 64 \in Nat
      OBVIOUS
    <3> HIDE DEF Rest
    <3>3. /\ CanonicalIdentity(s) = <<101>> ++ Rest(s, 64)
          /\ Rest(s, 64) \in ByteString /\ <<101>> ++ Rest(s, 64) \in ByteString
      BY <2>2, <3>1, <3>2
    <3>4. QED
      <4> WITNESS 101 \in Nat, 64 \in Nat
      <4>1. QED BY <2>3, <3>3
  <2>4. CASE s.kind = "archive"
    <3>1. CanonicalIdentity(s) = ((<<102>> \o s.at) \o <<35>>) \o s.object
      <4>1. Tag["archive"] = <<102>> /\ Separator["archive"] = <<35>>
        BY DEF Tag, Separator
      <4>2. QED BY <2>4, <4>1 DEF CanonicalIdentity
    <3>2. 102 \in Nat /\ 35 \in Nat
      OBVIOUS
    <3> HIDE DEF Rest
    <3>3. /\ CanonicalIdentity(s) = <<102>> ++ Rest(s, 35)
          /\ Rest(s, 35) \in ByteString /\ <<102>> ++ Rest(s, 35) \in ByteString
      BY <2>2, <3>1, <3>2
    <3>4. QED
      <4> WITNESS 102 \in Nat, 35 \in Nat
      <4>1. QED BY <2>4, <3>3
  <2>5. QED BY <2>1, <2>3, <2>4
<1>2. Separator["git"][1] = 64 /\ Separator["archive"][1] = 35
  BY DEF Separator
<1>3. PICK t1 \in Nat, m1 \in Nat :
        /\ (x.kind = "git" /\ t1 = 101 /\ m1 = 64) \/ (x.kind = "archive" /\ t1 = 102 /\ m1 = 35)
        /\ CanonicalIdentity(x) = <<t1>> ++ Rest(x, m1)
        /\ Rest(x, m1) \in ByteString /\ <<t1>> ++ Rest(x, m1) \in ByteString
  <2> HIDE DEF Rest
  <2>1. QED BY <1>1
<1>4. PICK t2 \in Nat, m2 \in Nat :
        /\ (y.kind = "git" /\ t2 = 101 /\ m2 = 64) \/ (y.kind = "archive" /\ t2 = 102 /\ m2 = 35)
        /\ CanonicalIdentity(y) = <<t2>> ++ Rest(y, m2)
        /\ Rest(y, m2) \in ByteString /\ <<t2>> ++ Rest(y, m2) \in ByteString
  <2> HIDE DEF Rest
  <2>1. QED BY <1>1
<1>5. ASSUME CanonicalIdentity(x) = CanonicalIdentity(y)
      PROVE  x.kind = y.kind /\ x.at = y.at /\ x.object = y.object
  <2>1. <<t1>> \in ByteString /\ <<t2>> \in ByteString
    BY DEF ByteString
  <2>2. \A t \in Nat : \A r \in ByteString : (<<t>> ++ r)[1] = t
    BY DEF ByteString, ++
  <2> HIDE DEF Rest
  <2>3. t1 = t2
    <3>1. (<<t1>> ++ Rest(x, m1))[1] = (<<t2>> ++ Rest(y, m2))[1]
      BY <1>3, <1>4, <1>5
    <3>2. QED BY <1>3, <1>4, <2>2, <3>1
  <2>4. x.kind = y.kind /\ m1 = m2
    BY <1>3, <1>4, <2>3
  <2>5. Rest(x, m1) = Rest(y, m1)
    <3>1. <<t1>> ++ Rest(x, m1) = <<t1>> ++ Rest(y, m1)
      BY <1>3, <1>4, <1>5, <2>3, <2>4
    <3>2. Rest(x, m1) \in ByteString /\ Rest(y, m1) \in ByteString
      BY <1>3, <1>4, <2>4
    <3>3. QED BY <2>1, <3>1, <3>2, TextAlgebra
  <2>6. m1 \notin Range(x.object) /\ m1 \notin Range(y.object)
    BY <1>2, <1>3
  <2>7. x.at \in ByteString /\ x.object \in ByteString /\ y.at \in ByteString /\ y.object \in ByteString
    BY DEF LockedSource
  <2>8. x.at ++ (<<m1>> ++ x.object) = y.at ++ (<<m1>> ++ y.object)
    BY <2>5 DEF Rest
  <2>9. x.at = y.at /\ x.object = y.object
    BY <2>6, <2>7, <2>8, LastSeparator
  <2>10. QED BY <2>4, <2>9
<1>6. CanonicalIdentity(x) \in ByteString
  <2> HIDE DEF Rest
  <2>1. QED BY <1>3
<1>7. QED BY <1>5, <1>6

\* The eleven parts of what is hashed, and the codes they are of.
IdentityParts(input) == <<
    Field(1, CanonicalIdentity(input.source)),
    Field(2, input.target),
    HashTool(3, input.toolchain),
    HashDependencies(input.dependencies),
    HashTools(input.tools),
    Field(13, input.plugin.name), Field(14, input.plugin.version),
    Field(15, input.plugin.digest), Field(16, input.plugin.protocol),
    HashMap(17, input.configuration),
    HashMap(20, input.environment) >>

IdentityCodes == <<
    FieldTexts(1), FieldTexts(2), ToolTexts(3),
    CountedTexts(6, Both(FieldTexts(7), FieldTexts(8))),
    CountedTexts(9, ToolTexts(10)),
    FieldTexts(13), FieldTexts(14), FieldTexts(15), FieldTexts(16),
    CountedTexts(17, Both(FieldTexts(18), FieldTexts(19))),
    CountedTexts(20, Both(FieldTexts(21), FieldTexts(22))) >>

\* What the fields of an input that is hashed are.
LEMMA InputFields ==
  ASSUME NEW x \in Builds, Cacheable(x)
  PROVE  /\ x.source \in LockedSource /\ x.source.kind # "path"
         /\ Range(x.source.object) \cap {Separator["git"][1], Separator["archive"][1]} = {}
         /\ x.target \in ByteString /\ x.toolchain \in Tool
         /\ x.dependencies \in Seq(Dep) /\ x.tools \in Seq(Tool)
         /\ x.plugin \in [name : ByteString, version : ByteString, digest : ByteString, protocol : ByteString]
         /\ IsMap(x.configuration) /\ IsMap(x.environment)
         /\ IsInjective([i \in DOMAIN x.dependencies |-> x.dependencies[i].package])
         /\ IsInjective([i \in DOMAIN x.tools |-> x.tools[i].role])
<1>1. x \in BuildInput(UNION {{b.configuration, b.environment} : b \in Builds})
  BY BuildAssumption
<1>2. /\ x.source \in LockedSource /\ x.target \in ByteString /\ x.toolchain \in Tool
      /\ x.dependencies \in Seq(Dep) /\ x.tools \in Seq(Tool)
      /\ x.plugin \in [name : ByteString, version : ByteString, digest : ByteString, protocol : ByteString]
  BY <1>1 DEF BuildInput, Dep
<1>3. /\ IsMap(x.configuration) /\ IsMap(x.environment)
      /\ Range(x.source.object) \cap {Separator["git"][1], Separator["archive"][1]} = {}
  BY BuildAssumption
<1>4. /\ x.source.kind # "path"
      /\ IsInjective([i \in DOMAIN x.dependencies |-> x.dependencies[i].package])
      /\ IsInjective([i \in DOMAIN x.tools |-> x.tools[i].role])
  BY DEF Cacheable, GloballyCacheable
<1>5. QED BY <1>2, <1>3, <1>4

\* Each part is a text of its code.
LEMMA PartsCoded ==
  ASSUME NEW x \in Builds, Cacheable(x)
  PROVE  /\ Len(IdentityParts(x)) = 11
         /\ \A i \in 1..11 : IsCode(IdentityCodes[i]) /\ IdentityParts(x)[i] \in IdentityCodes[i]
<1> DEFINE P == IdentityParts(x)
           C == IdentityCodes
<1>1. \A label \in Nat : \A v \in ByteString : IsCode(FieldTexts(label)) /\ Field(label, v) \in FieldTexts(label)
  BY FieldsAreCode DEF FieldTexts
<1>2. /\ x.source \in LockedSource /\ x.source.kind # "path"
      /\ Range(x.source.object) \cap {Separator["git"][1], Separator["archive"][1]} = {}
      /\ x.target \in ByteString /\ x.toolchain \in Tool
      /\ x.dependencies \in Seq(Dep) /\ x.tools \in Seq(Tool)
      /\ x.plugin.name \in ByteString /\ x.plugin.version \in ByteString
      /\ x.plugin.digest \in ByteString /\ x.plugin.protocol \in ByteString
      /\ IsMap(x.configuration) /\ IsMap(x.environment)
      /\ IsInjective([i \in DOMAIN x.dependencies |-> x.dependencies[i].package])
      /\ IsInjective([i \in DOMAIN x.tools |-> x.tools[i].role])
  BY InputFields
<1>3. CanonicalIdentity(x.source) \in ByteString
  BY <1>2, SourceRead
<1>4. IsCode(C[1]) /\ P[1] \in C[1]
  BY <1>1, <1>3 DEF IdentityParts, IdentityCodes
<1>5. IsCode(C[2]) /\ P[2] \in C[2]
  BY <1>1, <1>2 DEF IdentityParts, IdentityCodes
<1>6. IsCode(C[3]) /\ P[3] \in C[3]
  <2>1. 3 \in Nat /\ C[3] = ToolTexts(3) /\ P[3] = HashTool(3, x.toolchain)
    BY DEF IdentityParts, IdentityCodes
  <2>2. QED BY <1>2, <2>1, ToolRead
<1>7. IsCode(C[4]) /\ P[4] \in C[4]
  <2>1. /\ C[4] = CountedTexts(6, Both(FieldTexts(7), FieldTexts(8)))
        /\ P[4] = HashDependencies(x.dependencies)
    BY DEF IdentityParts, IdentityCodes
  <2>2. QED BY <1>2, <2>1, DependenciesRead
<1>8. IsCode(C[5]) /\ P[5] \in C[5]
  <2>1. C[5] = CountedTexts(9, ToolTexts(10)) /\ P[5] = HashTools(x.tools)
    BY DEF IdentityParts, IdentityCodes
  <2>2. QED BY <1>2, <2>1, ToolsRead
<1>9. IsCode(C[6]) /\ P[6] \in C[6]
  BY <1>1, <1>2 DEF IdentityParts, IdentityCodes
<1>10. IsCode(C[7]) /\ P[7] \in C[7]
  BY <1>1, <1>2 DEF IdentityParts, IdentityCodes
<1>11. IsCode(C[8]) /\ P[8] \in C[8]
  BY <1>1, <1>2 DEF IdentityParts, IdentityCodes
<1>12. IsCode(C[9]) /\ P[9] \in C[9]
  BY <1>1, <1>2 DEF IdentityParts, IdentityCodes
<1>13. ASSUME NEW label \in Nat, NEW f, IsMap(f)
       PROVE  LET T == CountedTexts(label, Both(FieldTexts(label + 1), FieldTexts(label + 2)))
              IN  IsCode(T) /\ HashMap(label, f) \in T
  BY <1>13, MapRead
<1>14. IsCode(C[10]) /\ P[10] \in C[10]
  <2>1. /\ C[10] = CountedTexts(17, Both(FieldTexts(18), FieldTexts(19)))
        /\ P[10] = HashMap(17, x.configuration)
    BY DEF IdentityParts, IdentityCodes
  <2>2. 17 \in Nat /\ 17 + 1 = 18 /\ 17 + 2 = 19
    OBVIOUS
  <2>3. LET T == CountedTexts(17, Both(FieldTexts(17 + 1), FieldTexts(17 + 2)))
        IN  IsCode(T) /\ HashMap(17, x.configuration) \in T
    BY <1>2, <1>13, <2>2
  <2>4. QED BY <2>1, <2>2, <2>3
<1>15. IsCode(C[11]) /\ P[11] \in C[11]
  <2>1. /\ C[11] = CountedTexts(20, Both(FieldTexts(21), FieldTexts(22)))
        /\ P[11] = HashMap(20, x.environment)
    BY DEF IdentityParts, IdentityCodes
  <2>2. 20 \in Nat /\ 20 + 1 = 21 /\ 20 + 2 = 22
    OBVIOUS
  <2>3. LET T == CountedTexts(20, Both(FieldTexts(20 + 1), FieldTexts(20 + 2)))
        IN  IsCode(T) /\ HashMap(20, x.environment) \in T
    BY <1>2, <1>13, <2>2
  <2>4. QED BY <2>1, <2>2, <2>3
<1>16. Len(P) = 11
  BY DEF IdentityParts
<1> HIDE DEF P, C
<1>17. \A i \in 1..11 : IsCode(C[i]) /\ P[i] \in C[i]
  <2>1. \A i \in 1..11 : i = 1 \/ i = 2 \/ i = 3 \/ i = 4 \/ i = 5 \/ i = 6 \/ i = 7 \/ i = 8 \/ i = 9 \/ i = 10 \/ i = 11
    OBVIOUS
  <2>2. QED BY <1>4, <1>5, <1>6, <1>7, <1>8, <1>9, <1>10, <1>11, <1>12, <1>14, <1>15, <2>1
<1>18. QED BY <1>16, <1>17 DEF P, C

\* Equal parts are those of one build.
LEMMA PartsRead ==
  ASSUME NEW x \in Builds, Cacheable(x), NEW y \in Builds, Cacheable(y),
         IdentityParts(x) = IdentityParts(y)
  PROVE  SameBuild(x, y)
<1>1. ASSUME NEW z \in Builds, Cacheable(z)
      PROVE  /\ z.source \in LockedSource /\ z.source.kind # "path"
             /\ Range(z.source.object) \cap {Separator["git"][1], Separator["archive"][1]} = {}
             /\ CanonicalIdentity(z.source) \in ByteString
             /\ z.target \in ByteString /\ z.toolchain \in Tool
             /\ z.dependencies \in Seq(Dep) /\ z.tools \in Seq(Tool)
             /\ z.plugin.name \in ByteString /\ z.plugin.version \in ByteString
             /\ z.plugin.digest \in ByteString /\ z.plugin.protocol \in ByteString
             /\ IsMap(z.configuration) /\ IsMap(z.environment)
             /\ IsInjective([i \in DOMAIN z.dependencies |-> z.dependencies[i].package])
             /\ IsInjective([i \in DOMAIN z.tools |-> z.tools[i].role])
  BY <1>1, InputFields, SourceRead
<1>2. \A label \in Nat : \A v, w \in ByteString : Field(label, v) = Field(label, w) => v = w
  BY FieldsAreCode
<1>3. ASSUME NEW i \in 1..11 PROVE IdentityParts(x)[i] = IdentityParts(y)[i]
  OBVIOUS
<1>4. /\ x.source.kind = y.source.kind /\ x.source.at = y.source.at /\ x.source.object = y.source.object
  <2>1. Field(1, CanonicalIdentity(x.source)) = Field(1, CanonicalIdentity(y.source))
    BY DEF IdentityParts
  <2>2. CanonicalIdentity(x.source) = CanonicalIdentity(y.source)
    BY <1>1, <1>2, <2>1
  <2>3. QED BY <1>1, <2>2, SourceRead
<1>5. x.target = y.target
  <2>1. Field(2, x.target) = Field(2, y.target)
    BY DEF IdentityParts
  <2>2. QED BY <1>1, <1>2, <2>1
<1>6. x.toolchain = y.toolchain
  <2>1. HashTool(3, x.toolchain) = HashTool(3, y.toolchain) /\ 3 \in Nat
    BY DEF IdentityParts
  <2>2. QED BY <1>1, <2>1, ToolRead
<1>7. Len(x.dependencies) = Len(y.dependencies) /\ Range(x.dependencies) = Range(y.dependencies)
  <2>1. HashDependencies(x.dependencies) = HashDependencies(y.dependencies)
    BY DEF IdentityParts
  <2>2. QED BY <1>1, <2>1, DependenciesRead
<1>8. Len(x.tools) = Len(y.tools) /\ Range(x.tools) = Range(y.tools)
  <2>1. HashTools(x.tools) = HashTools(y.tools)
    BY DEF IdentityParts
  <2>2. QED BY <1>1, <2>1, ToolsRead
<1>9. x.plugin = y.plugin
  <2>1. /\ Field(13, x.plugin.name) = Field(13, y.plugin.name)
        /\ Field(14, x.plugin.version) = Field(14, y.plugin.version)
        /\ Field(15, x.plugin.digest) = Field(15, y.plugin.digest)
        /\ Field(16, x.plugin.protocol) = Field(16, y.plugin.protocol)
    BY DEF IdentityParts
  <2>2. /\ x.plugin.name = y.plugin.name /\ x.plugin.version = y.plugin.version
        /\ x.plugin.digest = y.plugin.digest /\ x.plugin.protocol = y.plugin.protocol
    BY <1>1, <1>2, <2>1
  <2> DEFINE Plugin == [name : ByteString, version : ByteString, digest : ByteString, protocol : ByteString]
  <2>3. x.plugin \in Plugin /\ y.plugin \in Plugin
    BY InputFields
  <2>4. QED BY <2>2, <2>3
<1>10. x.configuration = y.configuration
  <2>1. HashMap(17, x.configuration) = HashMap(17, y.configuration) /\ 17 \in Nat
    BY DEF IdentityParts
  <2>2. QED BY <1>1, <2>1, MapRead
<1>11. x.environment = y.environment
  <2>1. HashMap(20, x.environment) = HashMap(20, y.environment) /\ 20 \in Nat
    BY DEF IdentityParts
  <2>2. QED BY <1>1, <2>1, MapRead
<1>12. DOMAIN x = {"source", "target", "toolchain", "dependencies", "tools", "plugin", "configuration", "environment"}
  BY BuildAssumption DEF BuildInput
<1>13. \A part \in {"dependencies", "tools"} : Len(x[part]) = Len(y[part]) /\ Range(x[part]) = Range(y[part])
  BY <1>7, <1>8
<1>14. \A part \in DOMAIN x \ {"source", "dependencies", "tools"} : x[part] = y[part]
  BY <1>5, <1>6, <1>9, <1>10, <1>11, <1>12
<1>15. QED BY <1>4, <1>13, <1>14 DEF SameBuild

\* One and the same build has one identity.
LEMMA SameParts ==
  ASSUME NEW x \in Builds, NEW y \in Builds, SameBuild(x, y)
  PROVE  IdentityParts(x) = IdentityParts(y)
<1>1. DOMAIN x = {"source", "target", "toolchain", "dependencies", "tools", "plugin", "configuration", "environment"}
  BY BuildAssumption DEF BuildInput
<1>2. /\ x.target = y.target /\ x.toolchain = y.toolchain /\ x.plugin = y.plugin
      /\ x.configuration = y.configuration /\ x.environment = y.environment
  BY <1>1 DEF SameBuild
<1>3. CanonicalIdentity(x.source) = CanonicalIdentity(y.source)
  BY DEF SameBuild, CanonicalIdentity
<1>4. /\ Len(x.dependencies) = Len(y.dependencies) /\ Range(x.dependencies) = Range(y.dependencies)
      /\ Len(x.tools) = Len(y.tools) /\ Range(x.tools) = Range(y.tools)
  BY DEF SameBuild
<1>5. HashDependencies(x.dependencies) = HashDependencies(y.dependencies)
  BY <1>4 DEF HashDependencies, ByKey
<1>6. HashTools(x.tools) = HashTools(y.tools)
  BY <1>4 DEF HashTools, ByKey
<1>7. QED BY <1>2, <1>3, <1>5, <1>6 DEF IdentityParts

\* What is true of two builds.
LEMMA IdentityAnswer ==
  ASSUME NEW x \in Builds, NEW y \in Builds
  PROVE  asked = [topic |-> "identity", one |-> x, other |-> y] => IdentityDecides
<1> SUFFICES ASSUME asked = [topic |-> "identity", one |-> x, other |-> y],
                    ResultIdentityOf(x) # Refused, ResultIdentityOf(y) # Refused
             PROVE  ResultIdentityOf(x) = ResultIdentityOf(y) <=> SameBuild(x, y)
  BY DEF IdentityDecides
<1>1. /\ Cacheable(x) /\ ResultIdentityOf(x) = FlattenSeq(IdentityParts(x))
      /\ Cacheable(y) /\ ResultIdentityOf(y) = FlattenSeq(IdentityParts(y))
  BY DEF ResultIdentityOf, IdentityParts
<1>2. ASSUME NEW z \in Builds, Cacheable(z)
      PROVE  /\ IdentityParts(z) \in Seq(ByteString) /\ Len(IdentityParts(z)) = 11
             /\ FlattenSeq(IdentityParts(z)) \in ByteString
             /\ \A i \in 1..11 : IsCode(IdentityCodes[i]) /\ IdentityParts(z)[i] \in IdentityCodes[i]
  <2>1. /\ Len(IdentityParts(z)) = 11
        /\ \A i \in 1..11 : IsCode(IdentityCodes[i]) /\ IdentityParts(z)[i] \in IdentityCodes[i]
    BY <1>2, PartsCoded
  <2>2. \A i \in 1..11 : IdentityParts(z)[i] \in ByteString
    BY <2>1 DEF IsCode
  <2>3. DOMAIN IdentityParts(z) = 1..11 /\ IdentityParts(z) = [i \in 1..11 |-> IdentityParts(z)[i]]
    BY DEF IdentityParts
  <2> DEFINE P == IdentityParts(z)
  <2> HIDE DEF P
  <2>4. P \in Seq(ByteString)
    BY <2>2, <2>3 DEF P
  <2>5. FlattenSeq(P) \in ByteString
    BY <2>4, FlattenRange, Zenon DEF ByteString
  <2>6. QED BY <2>1, <2>4, <2>5 DEF P
<1>3. ASSUME ResultIdentityOf(x) = ResultIdentityOf(y) PROVE SameBuild(x, y)
  <2> DEFINE ss == IdentityParts(x)
             tt == IdentityParts(y)
  <2>1. FlattenSeq(ss) = FlattenSeq(tt)
    BY <1>1, <1>3
  <2>2. /\ ss \in Seq(ByteString) /\ Len(ss) = 11 /\ FlattenSeq(ss) \in ByteString
        /\ \A i \in 1..11 : IsCode(IdentityCodes[i]) /\ ss[i] \in IdentityCodes[i]
        /\ tt \in Seq(ByteString) /\ Len(tt) = 11 /\ FlattenSeq(tt) \in ByteString
        /\ \A i \in 1..11 : tt[i] \in IdentityCodes[i]
    BY <1>1, <1>2
  <2> HIDE DEF ss, tt
  <2>3. FlattenSeq(ss) ++ <<>> = FlattenSeq(tt) ++ <<>> /\ <<>> \in ByteString
    BY <2>1, TextAlgebra
  <2>4. ss = tt
    BY <2>2, <2>3, RowRead
  <2>5. QED BY <1>1, <2>4, PartsRead DEF ss, tt
<1>4. ASSUME SameBuild(x, y) PROVE ResultIdentityOf(x) = ResultIdentityOf(y)
  BY <1>1, <1>4, SameParts
<1>5. QED BY <1>3, <1>4

-----------------------------------------------------------------------------
(* The questions that are asked, and the theorems *)

\* A question of a topic is one of those there are.
BuilderQuestion ==
    asked.topic = "builder" =>
        asked.input \in BuilderInputs /\ asked.plugin \in Plugins /\ asked.allowed \in Policies

HostQuestion ==
    asked.topic = "host" => asked.op \in HostOperation /\ asked.answeredOp \in HostOperation

LockQuestion == asked.topic = "lock" => asked.lock \in Locks

FrameQuestion == asked.topic = "frame" => asked.line \in Lines

GitQuestion ==
    asked.topic = "git" =>
        asked \in [topic : {"git"}, remote : Remotes, ref : RefsAsked, peel : BOOLEAN, tree : Trees,
                   ended : BOOLEAN, checkedOut : BOOLEAN]

ActivateQuestion ==
    asked.topic = "activate" =>
        asked \in [topic : {"activate"}, results : ResultLists, base : Bases, composable : BOOLEAN]

IdentityQuestion ==
    asked.topic = "identity" => asked \in [topic : {"identity"}, one : Builds, other : Builds]

Questions ==
    /\ BuilderQuestion /\ HostQuestion /\ LockQuestion /\ FrameQuestion
    /\ GitQuestion /\ ActivateQuestion /\ IdentityQuestion

\* What is asked is a question of its topic.
LEMMA QuestionsAsked == DSpec => []Questions
<1> USE DEF BuilderQuestion, HostQuestion, LockQuestion, FrameQuestion, GitQuestion,
            ActivateQuestion, IdentityQuestion
<1>1. DInit => Questions
  BY DEF DInit, Questions
<1>2. Questions /\ [DNext]_allVars => Questions'
  <2> SUFFICES ASSUME Questions, [DNext]_allVars PROVE Questions'
    OBVIOUS
  <2>1. CASE UNCHANGED asked
    BY <2>1 DEF Questions
  <2>2. CASE RequestBuilder
    BY <2>2 DEF RequestBuilder, Ask, Questions
  <2>3. CASE CheckLock
    BY <2>3 DEF CheckLock, Ask, Questions
  <2>4. CASE IdentifyBuilds
    BY <2>4 DEF IdentifyBuilds, Ask, Questions
  <2>5. CASE ReadLine
    BY <2>5 DEF ReadLine, Ask, Questions
  <2>6. CASE PlanForHost
    BY <2>6 DEF PlanForHost, Ask, Questions
  <2>7. CASE Activate
    BY <2>7 DEF Activate, Ask, Questions
  <2>8. CASE LockGitSource
    BY <2>8 DEF LockGitSource, Ask, Questions
  <2> QED
    BY <2>1, <2>2, <2>3, <2>4, <2>5, <2>6, <2>7, <2>8 DEF DNext, allVars, FindOrder
<1> QED
  BY <1>1, <1>2, PTL DEF DSpec

\* Whatever lockfiles and manifests there are: the manifests that a lockfile fits are of
\* one package with the same dependencies, and being written and read again changes neither
\* that nor which lockfile fits.
THEOREM LocksFit == DSpec => []LockFitsOneManifest
<1>1. LockQuestion => LockFitsOneManifest
  <2>1. CASE asked.topic = "lock"
    BY <2>1, LockAnswer DEF LockQuestion
  <2>2. CASE asked.topic # "lock"
    BY <2>2 DEF LockFitsOneManifest
  <2> QED
    BY <2>1, <2>2
<1> QED
  BY <1>1, QuestionsAsked, PTL DEF Questions

\* Whatever builds there are, of texts of any length: an identity is of one build, the
\* order of what is listed left aside.
THEOREM IdentitiesDecide == DSpec => []IdentityDecides
<1>1. IdentityQuestion => IdentityDecides
  <2> SUFFICES ASSUME IdentityQuestion PROVE IdentityDecides
    OBVIOUS
  <2>1. CASE asked.topic = "identity"
    <3>1. asked \in [topic : {"identity"}, one : Builds, other : Builds]
      BY <2>1 DEF IdentityQuestion
    <3>2. /\ asked.one \in Builds /\ asked.other \in Builds
          /\ asked = [topic |-> "identity", one |-> asked.one, other |-> asked.other]
      BY <3>1
    <3> QED
      BY <3>2, IdentityAnswer
  <2>2. CASE asked.topic # "identity"
    BY <2>2 DEF IdentityDecides
  <2> QED
    BY <2>1, <2>2
<1> QED
  BY <1>1, QuestionsAsked, PTL DEF Questions

\* Whatever lines there are: a frame reads as what it was written as, and no line but a
\* refusal as two types.
THEOREM FramesRead == DSpec => []FramesReadAsSent
<1>1. FrameQuestion => FramesReadAsSent
  <2>1. CASE asked.topic = "frame"
    BY <2>1, FrameAnswer DEF FrameQuestion
  <2>2. CASE asked.topic # "frame"
    BY <2>2 DEF FramesReadAsSent
  <2> QED
    BY <2>1, <2>2
<1> QED
  BY <1>1, QuestionsAsked, PTL DEF Questions

\* Whatever results are activated: in plain layouts no name is shadowed unreported, and
\* what the plan offers is found in it before anything the environment held.
THEOREM PlansSearchResults == DSpec => []ActivationSearchesResults
<1>1. ActivateQuestion => ActivationSearchesResults
  <2> SUFFICES ASSUME ActivateQuestion PROVE ActivationSearchesResults
    OBVIOUS
  <2>1. CASE asked.topic = "activate"
    <3>1. asked \in [topic : {"activate"}, results : ResultLists, base : Bases, composable : BOOLEAN]
      BY <2>1 DEF ActivateQuestion
    <3>2. /\ asked.results \in ResultLists /\ asked.base \in Bases
          /\ asked = [topic |-> "activate", results |-> asked.results, base |-> asked.base,
                      composable |-> asked.composable]
      BY <3>1
    <3> QED
      BY <3>2, ActivationAnswer
  <2>2. CASE asked.topic # "activate"
    BY <2>2 DEF ActivationSearchesResults
  <2> QED
    BY <2>1, <2>2
<1> QED
  BY <1>1, QuestionsAsked, PTL DEF Questions

\* Whatever a remote holds and Git prints of it: a source passes as the commit of its ref
\* and a tree of plain files, or not at all.
THEOREM RefsNameSources == DSpec => []GitSourceIsWhatRefNamed
<1>1. GitQuestion => GitSourceIsWhatRefNamed
  <2> SUFFICES ASSUME GitQuestion PROVE GitSourceIsWhatRefNamed
    OBVIOUS
  <2>1. CASE asked.topic = "git"
    <3>1. asked \in [topic : {"git"}, remote : Remotes, ref : RefsAsked, peel : BOOLEAN,
                      tree : Trees, ended : BOOLEAN, checkedOut : BOOLEAN]
      BY <2>1 DEF GitQuestion
    <3>2. /\ asked.remote \in Remotes /\ asked.ref \in RefsAsked /\ asked.peel \in BOOLEAN
          /\ asked.tree \in Trees /\ asked.ended \in BOOLEAN /\ asked.checkedOut \in BOOLEAN
          /\ asked = [topic |-> "git", remote |-> asked.remote, ref |-> asked.ref,
                      peel |-> asked.peel, tree |-> asked.tree, ended |-> asked.ended,
                      checkedOut |-> asked.checkedOut]
      BY <3>1
    <3> QED
      BY <3>2, GitAnswer
  <2>2. CASE asked.topic # "git"
    BY <2>2 DEF GitSourceIsWhatRefNamed
  <2> QED
    BY <2>1, <2>2
<1> QED
  BY <1>1, QuestionsAsked, PTL DEF Questions

\* Whatever plugins, policies, environments and paths there are, what a builder is asked
\* depends on what was granted alone, and nothing that an operation needs can be missing.
THEOREM GrantsDecide == DSpec => []OnlyGrantedMatters
<1>1. BuilderQuestion => OnlyGrantedMatters
  <2> SUFFICES ASSUME BuilderQuestion, asked.topic = "builder" PROVE OnlyGrantedMatters
    BY DEF OnlyGrantedMatters
  <2> DEFINE input == asked.input
             plugin == asked.plugin
             allowed == asked.allowed
             needed == RequiredCapabilities(input.op)
             trimmed == [plugin EXCEPT !.operations = @ \cap {input.op},
                                       !.capabilities = @ \cap needed]
             seen == [key \in DOMAIN input.candidates \cap input.allowedKeys |->
                         input.candidates[key]]
             bare == [input EXCEPT !.candidates = seen]
             frame == BuilderFrame(input, plugin, allowed)
  <2>1. input \in BuilderInputs /\ plugin \in Plugins
    BY DEF BuilderQuestion
  <2>2. /\ plugin \in [operations : SUBSET PluginOperation, capabilities : SUBSET Capability]
        /\ input.op \in BuilderOperation
        /\ input.roots \in Seq(Range(input.roots))
        /\ input.prefixes \in Seq(Range(input.prefixes))
    BY <2>1, BuilderAssumption
  <2>3. /\ bare.op = input.op /\ bare.allowedKeys = input.allowedKeys
        /\ bare.candidates = seen /\ bare.arguments = input.arguments
        /\ bare.roots = input.roots /\ bare.prefixes = input.prefixes
    BY <2>1, BuilderAssumption
  <2>4. AuthorizeBuilder(input.op, trimmed, allowed \cap needed)
        <=> AuthorizeBuilder(input.op, plugin, allowed)
    BY <2>2, AuthorizedByNeed
  <2>5. /\ EnvironmentRefused(input.allowedKeys, seen)
           <=> EnvironmentRefused(input.allowedKeys, input.candidates)
        /\ Sanitized(input.allowedKeys, seen) = Sanitized(input.allowedKeys, input.candidates)
    BY OnlyAllowedKeys
  <2>6. \A c \in needed : ~AuthorizeBuilder(input.op, plugin, allowed \ {c})
    BY <2>2, AuthorizedByNeed
  <2> HIDE DEF input, plugin, allowed, needed, trimmed, seen, bare
  <2>7. frame = BuilderFrame(bare, trimmed, allowed \cap needed)
    BY <2>3, <2>4, <2>5, Zenon DEF BuilderFrame
  <2>8. \A c \in needed : BuilderFrame(input, plugin, allowed \ {c}).operation = "refused"
    BY <2>6 DEF BuilderFrame
  <2>9. frame.operation # "refused" =>
          \A i \in DOMAIN input.roots : input.roots[i].node # "link"
    <3> SUFFICES ASSUME frame.operation # "refused", NEW i \in DOMAIN input.roots
                 PROVE  input.roots[i].node # "link"
      OBVIOUS
    <3>1. \A path \in Range(input.roots \o input.prefixes) : InProtocol(path)
      BY DEF BuilderFrame
    <3>2. input.roots[i] \in Range(input.roots \o input.prefixes)
      <4>1. /\ i \in DOMAIN (input.roots \o input.prefixes)
            /\ (input.roots \o input.prefixes)[i] = input.roots[i]
        BY <2>2, ConcatKeepsFirst, ZenonT(30)
      <4> QED
        BY <4>1 DEF Range
    <3> QED
      BY <3>1, <3>2 DEF InProtocol, RealDirectory
  <2> QED
    BY <2>7, <2>8, <2>9
    DEF OnlyGrantedMatters, input, plugin, allowed, needed, trimmed, seen, bare
<1> QED
  BY <1>1, QuestionsAsked, PTL DEF Questions

\* Whatever is asked of a plugin and whatever it answers: an answer that is believed was
\* given to this request, and the request is one that was granted.
THEOREM BelievedAreOurs == DSpec => []AnswerBelievedIsOurs
<1>1. HostQuestion => AnswerBelievedIsOurs
  <2> SUFFICES ASSUME HostQuestion, asked.topic = "host" PROVE AnswerBelievedIsOurs
    BY DEF AnswerBelievedIsOurs
  <2> DEFINE request == [id |-> "id1", operation |-> asked.op, dependency |-> asked.dependency]
             answer == [protocol |-> "v1", id |-> asked.id, status |-> "ok",
                        type |-> AnswerKind(asked.answeredOp),
                        present |-> asked.present, installed |-> TRUE,
                        provider |-> asked.by, dependency |-> asked.named,
                        summary |-> "text"]
  <2>1. SUFFICES ASSUME HostRequestMade(asked.plugin, asked.allowed, asked.op, asked.dependency),
                        AnswerBelieved(request, "us", answer)
                 PROVE  /\ asked.op \in asked.plugin.operations
                        /\ "host.package_manager" \in asked.allowed
                        /\ asked.answeredOp = asked.op /\ asked.id = "id1"
                        /\ asked.op = "plan_host_change" =>
                             asked.named = asked.dependency /\ asked.by = "us"
                        /\ asked.op = "probe_host_dependency" => asked.present
    BY DEF AnswerBelievedIsOurs
  <2>2. asked.op \in asked.plugin.operations /\ "host.package_manager" \in asked.allowed
    BY <2>1 DEF HostRequestMade
  <2>3. asked.op \in HostOperation /\ asked.answeredOp \in HostOperation
    BY DEF HostQuestion
  <2>4. AnswerKind(asked.answeredOp) = AnswerKind(asked.op) /\ asked.id = "id1"
    BY <2>1 DEF AnswerBelieved, EnvelopeMatches
  <2>5. asked.answeredOp = asked.op
    BY <2>3, <2>4 DEF AnswerKind, HostOperation
  <2>6. CASE asked.op = "probe_host_dependency"
    <3>1. answer.type = "HostProbeResult"
      BY <2>5, <2>6 DEF AnswerKind
    <3>2. asked.present
      BY <2>1, <3>1 DEF AnswerBelieved
    <3> QED
      BY <2>2, <2>4, <2>5, <2>6, <3>2
  <2>7. CASE asked.op = "plan_host_change"
    <3>1. answer.type = "HostChangePlan"
      BY <2>5, <2>7 DEF AnswerKind
    <3>2. asked.by = "us" /\ asked.named = asked.dependency
      BY <2>1, <3>1 DEF AnswerBelieved
    <3> QED
      BY <2>2, <2>4, <2>5, <2>7, <3>2
  <2> QED
    BY <2>3, <2>6, <2>7 DEF HostOperation
<1> QED
  BY <1>1, QuestionsAsked, PTL DEF Questions
=============================================================================
