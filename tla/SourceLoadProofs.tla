--------------------------- MODULE SourceLoadProofs ---------------------------
(***************************************************************************)
(* For any archives, names, limits, calls and mishaps: the archive policy     *)
(* accepts a list of entries exactly if it comes out the same on every host;  *)
(* the block walk finds the members its producer put in and accepts exactly   *)
(* the well-formed archives; the offsets recomputed from the list are where   *)
(* the data is; a call loads and extracts exactly what the lock names; an     *)
(* accepted archive extracts; and nothing is written below what is not the    *)
(* call's own.                                                                *)
(*                                                                            *)
(* The sections follow a call: the policy, blocks and bytes, the layout, the  *)
(* walk, the places of the data, the tree, and from the walk to the answer.   *)
(***************************************************************************)
EXTENDS SourceLoad, SequenceTheorems, TLAPS

Seen == INSTANCE FoldsOver WITH Op <- See, Base <- NothingSeen
Added == INSTANCE FoldsOver WITH Op <- AddBytes, Base <- 0

-----------------------------------------------------------------------------
(* The archive policy *)

\* An entry of a list that the policy is asked about, its kind not yet known to be good.
Listed == [name : Name, kind : STRING, bytes : Nat]

\* The first k components of two names are the same on a host that ignores case.
SameTo(x, y, k) == \A m \in 1..k : x[m].fold = y[m].fold

\* Where two names are the same to such a host they are spelled alike.
Alike(x, y) == \A k \in DOMAIN x \cap DOMAIN y : SameTo(x, y, k) => x[k].form = y[k].form

\* A name is a sequence of components, and the host that ignores case sees as many.
LEMMA NameFacts ==
    ASSUME NEW x \in Name
    PROVE  /\ Len(x) \in Nat \ {0} /\ DOMAIN x = 1..Len(x) /\ x \in Seq(Component)
           /\ \A k \in 1..Len(x) : x[k] \in Component
           /\ Folded(x) \in Seq(STRING) /\ Len(Folded(x)) = Len(x)
           /\ DOMAIN Folded(x) = 1..Len(x)
           /\ \A k \in 1..Len(x) : Folded(x)[k] = x[k].fold
<1>1. x \in Seq(Component) /\ x # <<>>
  BY DEF Name
<1>2. Len(x) \in Nat /\ DOMAIN x = 1..Len(x) /\ Len(x) # 0
  BY <1>1, EmptySeq
<1>2a. \A k \in 1..Len(x) : x[k] \in Component
  BY <1>1, <1>2
<1>2b. \A c \in Component : c.fold \in STRING
  BY DEF Component
<1>3. \A k \in 1..Len(x) : x[k] \in Component /\ x[k].fold \in STRING
  BY <1>2a, <1>2b
<1>4. Folded(x) = [k \in 1..Len(x) |-> x[k].fold]
  BY <1>2 DEF Folded
<1> DEFINE n == Len(x)
<1>5. \A k \in 1..n : x[k].fold \in STRING
  BY <1>3
<1>6. n \in Nat
  BY <1>2
<1> HIDE DEF n
<1>7. [k \in 1..n |-> x[k].fold] \in Seq(STRING)
  BY <1>5, <1>6
<1>8. /\ Len([k \in 1..n |-> x[k].fold]) = n
      /\ DOMAIN [k \in 1..n |-> x[k].fold] = 1..n
  BY <1>6
<1>9. QED
  BY <1>1, <1>2, <1>3, <1>4, <1>7, <1>8 DEF n

\* The beginning of a folded name.
LEMMA FoldedPrefix ==
    ASSUME NEW x \in Name, NEW k \in 1..Len(x)
    PROVE  /\ SubSeq(Folded(x), 1, k) \in Seq(STRING) /\ Len(SubSeq(Folded(x), 1, k)) = k
           /\ DOMAIN SubSeq(Folded(x), 1, k) = 1..k
           /\ \A m \in 1..k : SubSeq(Folded(x), 1, k)[m] = x[m].fold
<1>1. /\ Folded(x) \in Seq(STRING) /\ Len(Folded(x)) = Len(x) /\ Len(x) \in Nat
      /\ \A m \in 1..Len(x) : Folded(x)[m] = x[m].fold
  BY NameFacts
<1>2. QED
  BY <1>1

\* Beginnings of two names look the same if their components do.
LEMMA PrefixesSame ==
    ASSUME NEW x \in Name, NEW y \in Name, NEW k \in 1..Len(x), NEW l \in 1..Len(y)
    PROVE  SubSeq(Folded(x), 1, k) = SubSeq(Folded(y), 1, l) <=> k = l /\ SameTo(x, y, k)
<1> DEFINE p == SubSeq(Folded(x), 1, k)
           q == SubSeq(Folded(y), 1, l)
<1>1. /\ p \in Seq(STRING) /\ Len(p) = k /\ DOMAIN p = 1..k
      /\ \A m \in 1..k : p[m] = x[m].fold
  BY FoldedPrefix
<1>2. /\ q \in Seq(STRING) /\ Len(q) = l /\ DOMAIN q = 1..l
      /\ \A m \in 1..l : q[m] = y[m].fold
  BY FoldedPrefix
<1> HIDE DEF p, q
<1>3. p = q <=> k = l /\ \A m \in 1..k : p[m] = q[m]
  BY <1>1, <1>2
<1>4. QED
  BY <1>1, <1>2, <1>3 DEF p, q, SameTo

\* All the components of a name are the name.
LEMMA FoldedWhole ==
    ASSUME NEW x \in Name
    PROVE  SubSeq(Folded(x), 1, Len(x)) = Folded(x)
<1> DEFINE p == SubSeq(Folded(x), 1, Len(x))
<1>1. Len(x) \in 1..Len(x)
  BY NameFacts
<1>2. /\ p \in Seq(STRING) /\ Len(p) = Len(x) /\ DOMAIN p = 1..Len(x)
      /\ \A m \in 1..Len(x) : p[m] = x[m].fold
  BY <1>1, FoldedPrefix
<1> HIDE DEF p
<1>3. p = Folded(x)
  BY <1>2, NameFacts
<1>4. QED
  BY <1>3 DEF p

\* Two names look the same, or one like a beginning of the other, if their components do.
LEMMA FoldedSame ==
    ASSUME NEW x \in Name, NEW y \in Name
    PROVE  /\ Folded(x) = Folded(y) <=> Len(x) = Len(y) /\ SameTo(x, y, Len(x))
           /\ \A k \in 1..Len(y) :
                Folded(x) = SubSeq(Folded(y), 1, k) <=> Len(x) = k /\ SameTo(x, y, k)
<1>1. Len(x) \in 1..Len(x) /\ Len(y) \in 1..Len(y)
  BY NameFacts
<1>2. QED
  BY <1>1, FoldedWhole, PrefixesSame

\* What the policy asks of one entry, and what it asks of the first k of a list whose
\* bytes add up to t.
Fine(e) ==
    /\ SafePath(e.name) /\ PortablePath(e.name)
    /\ e.kind \in {"file", "dir"} /\ Len(e.name) <= MaxDepth
    /\ e.kind = "dir" => e.bytes = 0
    /\ e.bytes <= MaxEntryBytes

Admissible(E, t, k) ==
    /\ \A i \in 1..k : Fine(E[i])
    /\ \A i, j \in 1..k : i # j => Folded(E[i].name) # Folded(E[j].name)
    /\ \A i, j \in 1..k : Alike(E[i].name, E[j].name)
    /\ t[k] <= MaxTotal

\* What the policy remembers of them.
Shape(seen) == DOMAIN seen = {"ok", "kinds", "spelled", "total"} /\ seen.ok \in BOOLEAN

Remembers(seen, E, t, k) ==
    /\ \A p : p \in DOMAIN seen.kinds <=> \E i \in 1..k : p = Folded(E[i].name)
    /\ \A i \in 1..k : seen.kinds[Folded(E[i].name)] = E[i].kind
    /\ \A p : p \in DOMAIN seen.spelled <=>
                \E i \in 1..k : \E j \in DOMAIN E[i].name : p = SubSeq(Folded(E[i].name), 1, j)
    /\ \A i \in 1..k : \A j \in DOMAIN E[i].name :
         seen.spelled[SubSeq(Folded(E[i].name), 1, j)] = E[i].name[j].form
    /\ seen.total = t[k]

\* What an entry of a list is made of.
LEMMA ListedEntry ==
    ASSUME NEW E \in Seq(Listed), NEW i \in 1..Len(E)
    PROVE  E[i] \in Listed /\ E[i].name \in Name /\ E[i].kind \in STRING /\ E[i].bytes \in Nat
<1>1. E[i] \in Listed
  OBVIOUS
<1>2. QED
  BY <1>1 DEF Listed

\* The spellings a walk of the policy remembers admit a name exactly if it is spelled
\* like every name before it.
LEMMA SpellingAlike ==
    ASSUME NEW E \in Seq(Listed), NEW t, NEW k \in 0..Len(E), NEW seen,
           Remembers(seen, E, t, k), NEW name \in Name
    PROVE  SpellingKept(seen.spelled, name) <=> \A i \in 1..k : Alike(E[i].name, name)
<1>1. \A i \in 1..k : E[i].name \in Name
  BY ListedEntry
<1>2. ASSUME SpellingKept(seen.spelled, name), NEW i \in 1..k,
             NEW m \in DOMAIN E[i].name \cap DOMAIN name, SameTo(E[i].name, name, m)
      PROVE  E[i].name[m].form = name[m].form
  <2>1. m \in 1..Len(E[i].name) /\ m \in 1..Len(name) /\ E[i].name \in Name
    BY <1>1, NameFacts
  <2>2. SubSeq(Folded(E[i].name), 1, m) = SubSeq(Folded(name), 1, m)
    BY <1>2, <2>1, PrefixesSame
  <2>3. /\ SubSeq(Folded(name), 1, m) \in DOMAIN seen.spelled
        /\ seen.spelled[SubSeq(Folded(name), 1, m)] = E[i].name[m].form
    BY <1>2, <2>2 DEF Remembers
  <2>4. QED BY <1>2, <2>3 DEF SpellingKept
<1>3. ASSUME \A i \in 1..k : Alike(E[i].name, name), NEW m \in DOMAIN name,
             SubSeq(Folded(name), 1, m) \in DOMAIN seen.spelled
      PROVE  seen.spelled[SubSeq(Folded(name), 1, m)] = name[m].form
  <2>0. PICK i \in 1..k : \E j \in DOMAIN E[i].name :
            SubSeq(Folded(name), 1, m) = SubSeq(Folded(E[i].name), 1, j)
    BY <1>3 DEF Remembers
  <2>1. PICK j \in DOMAIN E[i].name :
            SubSeq(Folded(name), 1, m) = SubSeq(Folded(E[i].name), 1, j)
    BY <2>0
  <2>2. j \in 1..Len(E[i].name) /\ m \in 1..Len(name) /\ E[i].name \in Name
    BY <1>1, NameFacts
  <2>3. m = j /\ SameTo(E[i].name, name, m)
    <3>1. j = m /\ SameTo(E[i].name, name, j)
      BY <2>1, <2>2, PrefixesSame
    <3>2. QED BY <3>1
  <2>4. E[i].name[m].form = name[m].form
    BY <1>3, <2>3, NameFacts, <1>1 DEF Alike
  <2>5. QED BY <2>1, <2>3, <2>4 DEF Remembers
<1>4. QED
  BY <1>2, <1>3 DEF SpellingKept, Alike

\* One entry more is admitted exactly if the list with it is admissible.
LEMMA EntryDecides ==
    ASSUME NEW E \in Seq(Listed), NEW t, NEW k \in 0..(Len(E) - 1), NEW seen,
           Remembers(seen, E, t, k), Admissible(E, t, k),
           t[k] \in Nat, t[k + 1] = t[k] + E[k + 1].bytes
    PROVE  EntryAdmitted(seen, E[k + 1]) <=> Admissible(E, t, k + 1)
<1> DEFINE e == E[k + 1]
<1>1. /\ e \in Listed /\ e.name \in Name /\ k \in Nat /\ k \in 0..Len(E)
      /\ 1..(k + 1) = 1..k \cup {k + 1} /\ k + 1 \notin 1..k
  <2>1. k + 1 \in 1..Len(E) /\ k \in Nat /\ k \in 0..Len(E)
    OBVIOUS
  <2>2. QED BY <2>1, ListedEntry
<1>2. Folded(e.name) \notin DOMAIN seen.kinds
        <=> \A i \in 1..k : Folded(E[i].name) # Folded(e.name)
  BY DEF Remembers
<1>3. SpellingKept(seen.spelled, e.name) <=> \A i \in 1..k : Alike(E[i].name, e.name)
  BY <1>1, SpellingAlike
<1>4. /\ \A x, y : Alike(x, y) <=> Alike(y, x)
      /\ \A x : Alike(x, x)
  BY DEF Alike, SameTo
<1>5. seen.total + e.bytes = t[k + 1]
  BY DEF Remembers
<1> HIDE DEF e
<1>6. EntryAdmitted(seen, e) <=>
        /\ Fine(e)
        /\ \A i \in 1..k : Folded(E[i].name) # Folded(e.name)
        /\ \A i \in 1..k : Alike(E[i].name, e.name)
        /\ t[k + 1] <= MaxTotal
  BY <1>2, <1>3, <1>5 DEF EntryAdmitted, Fine
<1>7. (\A i \in 1..(k + 1) : Fine(E[i])) <=> Fine(e)
  BY <1>1 DEF Admissible, e
<1>8. (\A i, j \in 1..(k + 1) : i # j => Folded(E[i].name) # Folded(E[j].name))
        <=> \A i \in 1..k : Folded(E[i].name) # Folded(e.name)
  BY <1>1 DEF Admissible, e
<1>9. (\A i, j \in 1..(k + 1) : Alike(E[i].name, E[j].name))
        <=> \A i \in 1..k : Alike(E[i].name, e.name)
  BY <1>1, <1>4 DEF Admissible, e
<1>10. QED
  BY <1>6, <1>7, <1>8, <1>9 DEF Admissible, e

\* What is remembered then.
LEMMA EntryRemembered ==
    ASSUME NEW E \in Seq(Listed), NEW t, NEW k \in 0..(Len(E) - 1), NEW seen,
           Remembers(seen, E, t, k), t[k + 1] = t[k] + E[k + 1].bytes,
           seen.ok, EntryAdmitted(seen, E[k + 1])
    PROVE  Remembers(See(seen, E[k + 1]), E, t, k + 1)
<1> DEFINE e == E[k + 1]
           name == e.name
           new == See(seen, e)
           added == {SubSeq(Folded(name), 1, j) : j \in DOMAIN name}
<1>1. /\ e \in Listed /\ name \in Name /\ k \in Nat /\ k \in 0..Len(E)
      /\ 1..(k + 1) = 1..k \cup {k + 1} /\ k + 1 \notin 1..k /\ k + 1 \in 1..(k + 1)
  <2>1. k + 1 \in 1..Len(E) /\ k \in Nat /\ k \in 0..Len(E)
    OBVIOUS
  <2>2. QED BY <2>1, ListedEntry
<1>2. /\ new.kinds = Inserted(seen.kinds, Folded(name), e.kind)
      /\ new.total = t[k + 1]
  BY DEF See, Remembers
<1>3. /\ DOMAIN new.kinds = DOMAIN seen.kinds \cup {Folded(name)}
      /\ \A p \in DOMAIN seen.kinds : p # Folded(name) => new.kinds[p] = seen.kinds[p]
      /\ new.kinds[Folded(name)] = e.kind
  BY <1>2 DEF Inserted
<1>4. /\ DOMAIN new.spelled = DOMAIN seen.spelled \cup added
      /\ \A p \in DOMAIN seen.spelled : new.spelled[p] = seen.spelled[p]
      /\ \A p \in added \ DOMAIN seen.spelled : new.spelled[p] = name[Len(p)].form
  <2>1. new.spelled = [p \in DOMAIN seen.spelled \cup added |->
                          IF p \in DOMAIN seen.spelled THEN seen.spelled[p]
                          ELSE name[Len(p)].form]
    BY DEF See, Spell
  <2> HIDE DEF added, new
  <2>2. QED BY <2>1
<1>5. Folded(name) \notin DOMAIN seen.kinds /\ SpellingKept(seen.spelled, name)
  BY DEF EntryAdmitted
<1>6. \A j \in DOMAIN name : new.spelled[SubSeq(Folded(name), 1, j)] = name[j].form
  <2> TAKE j \in DOMAIN name
  <2>1. j \in 1..Len(name) /\ Len(SubSeq(Folded(name), 1, j)) = j
    BY <1>1, NameFacts, FoldedPrefix
  <2>2. SubSeq(Folded(name), 1, j) \in added
    OBVIOUS
  <2> HIDE DEF added, new
  <2>3. CASE SubSeq(Folded(name), 1, j) \in DOMAIN seen.spelled
    BY <1>4, <1>5, <2>3 DEF SpellingKept
  <2>4. CASE SubSeq(Folded(name), 1, j) \notin DOMAIN seen.spelled
    BY <1>4, <2>1, <2>2, <2>4
  <2>5. QED BY <2>3, <2>4
<1>7. \A p : p \in added <=> \E j \in DOMAIN name : p = SubSeq(Folded(name), 1, j)
  OBVIOUS
<1> HIDE DEF new, added
<1>8. \A p : p \in DOMAIN new.kinds <=> \E i \in 1..(k + 1) : p = Folded(E[i].name)
  BY <1>1, <1>3 DEF Remembers
<1>9. \A i \in 1..(k + 1) : new.kinds[Folded(E[i].name)] = E[i].kind
  BY <1>1, <1>3, <1>5 DEF Remembers
<1>10. \A p : p \in DOMAIN new.spelled <=>
          \E i \in 1..(k + 1) : \E j \in DOMAIN E[i].name : p = SubSeq(Folded(E[i].name), 1, j)
  <2> DEFINE From(p, i) == \E j \in DOMAIN E[i].name : p = SubSeq(Folded(E[i].name), 1, j)
  <2>1. \A p : p \in DOMAIN seen.spelled <=> \E i \in 1..k : From(p, i)
    BY DEF Remembers
  <2>2. \A p : p \in added <=> From(p, k + 1)
    BY <1>7
  <2> HIDE DEF From
  <2>3. \A p : p \in DOMAIN new.spelled <=> \E i \in 1..(k + 1) : From(p, i)
    BY <1>1, <1>4, <2>1, <2>2
  <2>4. QED BY <2>3 DEF From
<1>11. \A i \in 1..(k + 1) : \A j \in DOMAIN E[i].name :
          new.spelled[SubSeq(Folded(E[i].name), 1, j)] = E[i].name[j].form
  BY <1>1, <1>4, <1>6 DEF Remembers
<1>12. QED
  BY <1>2, <1>8, <1>9, <1>10, <1>11 DEF Remembers, new

\* The bytes of the first entries of a list, by their number.
LEMMA TotalTrace ==
    ASSUME NEW E \in Seq(Listed)
    PROVE  \E t : /\ t[0] = 0 /\ Total(E) = t[Len(E)]
                  /\ \A k \in 0..(Len(E) - 1) : t[k + 1] = t[k] + E[k + 1].bytes
                  /\ \A k \in 0..Len(E) : t[k] \in Nat
<1>1. PICK t : /\ t[0] = 0
               /\ \A k \in 0..(Len(E) - 1) : t[k + 1] = AddBytes(t[k], E[k + 1])
               /\ Added!Folded(E) = t[Len(E)]
  BY Added!FoldTrace
<1>2. Added!Folded(E) = Total(E)
  BY DEF Total, Added!Folded, Added!FoldLeft, FoldLeft, Added!MapThenFoldSet, MapThenFoldSet,
         Added!Max, Max
<1>3. \A k \in 0..(Len(E) - 1) : t[k + 1] = t[k] + E[k + 1].bytes
  BY <1>1 DEF AddBytes
<1> DEFINE N == {k \in Nat : k <= Len(E) => t[k] \in Nat}
<1>4. 0 \in N
  BY <1>1
<1>5. ASSUME NEW n \in Nat, n \in N PROVE n + 1 \in N
  <2>1. CASE n + 1 <= Len(E)
    <3>1. n \in 0..(Len(E) - 1) /\ n + 1 \in 1..Len(E)
      BY <2>1
    <3>2. E[n + 1].bytes \in Nat
      BY <3>1, ListedEntry
    <3>3. QED BY <1>3, <1>5, <3>1, <3>2
  <2>2. CASE ~(n + 1 <= Len(E))
    BY <2>2
  <2>3. QED BY <2>1, <2>2
<1> HIDE DEF N
<1>6. \A n \in Nat : n \in N
  BY <1>4, <1>5, Added!InductionOn
<1>7. \A k \in 0..Len(E) : t[k] \in Nat
  <2>1. \A k \in 0..Len(E) : k \in Nat /\ k <= Len(E)
    OBVIOUS
  <2>2. QED BY <1>6, <2>1 DEF N
<1>8. QED
  BY <1>1, <1>2, <1>3, <1>7

\* Sums of the first entries never exceed the sum of all.
LEMMA TotalTraceGrows ==
    ASSUME NEW E \in Seq(Listed), NEW t,
           \A k \in 0..(Len(E) - 1) : t[k + 1] = t[k] + E[k + 1].bytes,
           \A k \in 0..Len(E) : t[k] \in Nat, NEW j \in 0..Len(E)
    PROVE  t[j] <= t[Len(E)]
<1> DEFINE N == {k \in Nat : j + k <= Len(E) => t[j] <= t[j + k]}
<1>1. 0 \in N
  OBVIOUS
<1>2. ASSUME NEW n \in Nat, n \in N PROVE n + 1 \in N
  <2>1. CASE j + n + 1 <= Len(E)
    <3>1. j + n \in 0..(Len(E) - 1) /\ j + n + 1 \in 1..Len(E) /\ j + n \in 0..Len(E)
      BY <2>1
    <3>2. E[j + n + 1].bytes \in Nat
      BY <3>1, ListedEntry
    <3>3. t[j + n + 1] = t[j + n] + E[j + n + 1].bytes /\ t[j + n] \in Nat /\ t[j] \in Nat
      BY <3>1
    <3>4. t[j] <= t[j + n]
      BY <1>2, <3>1
    <3>5. t[j] <= t[j + n + 1]
      <4>1. PICK u \in Nat : u = t[j]
        BY <3>3
      <4>2. PICK v \in Nat : v = t[j + n]
        BY <3>3
      <4>3. PICK b \in Nat : b = E[j + n + 1].bytes
        BY <3>2
      <4>4. u <= v /\ t[j + n + 1] = v + b
        BY <3>3, <3>4, <4>1, <4>2, <4>3, Zenon
      <4>5. u <= v + b
        BY <4>4
      <4>6. QED BY <4>1, <4>4, <4>5, Zenon
    <3>6. QED BY <3>5
  <2>2. CASE ~(j + n + 1 <= Len(E))
    BY <2>2
  <2>3. QED BY <2>1, <2>2
<1> HIDE DEF N
<1>3. \A n \in Nat : n \in N
  BY <1>1, <1>2, Added!InductionOn, Zenon
<1>4. PICK d \in Nat : j + d = Len(E)
  <2>1. Len(E) - j \in Nat /\ j + (Len(E) - j) = Len(E)
    OBVIOUS
  <2>2. QED BY <2>1, Zenon
<1>5. d \in N
  BY <1>3
<1>6. j + d <= Len(E)
  BY <1>4
<1>7. t[j] <= t[j + d]
  BY <1>5, <1>6 DEF N
<1>8. QED
  BY <1>4, <1>7

\* What is a file is no ancestor of anything, however it is spelled.
FilesEnd(E) ==
    \A i, j \in 1..Len(E) :
        E[i].kind = "file" /\ Len(E[i].name) < Len(E[j].name)
            => ~SameTo(E[i].name, E[j].name, Len(E[i].name))

\* The kinds a walk remembers tell whether a file has something below it.
LEMMA LeavesDecided ==
    ASSUME NEW E \in Seq(Listed), NEW t, NEW seen, Remembers(seen, E, t, Len(E)),
           \A i \in 1..Len(E) : E[i].kind \in {"file", "dir"}
    PROVE  FilesAreLeaves(seen.kinds) <=> FilesEnd(E)
<1>1. \A i \in 1..Len(E) : E[i].name \in Name
  BY ListedEntry
<1>2. ASSUME FilesAreLeaves(seen.kinds), NEW i \in 1..Len(E), NEW j \in 1..Len(E),
             E[i].kind = "file", Len(E[i].name) < Len(E[j].name),
             SameTo(E[i].name, E[j].name, Len(E[i].name))
      PROVE  FALSE
  <2> DEFINE x == E[i].name  y == E[j].name
  <2>1. /\ x \in Name /\ y \in Name /\ Len(x) \in 1..Len(y) /\ Len(x) \in 1..(Len(y) - 1)
        /\ Len(Folded(y)) = Len(y)
    BY <1>1, <1>2, NameFacts
  <2>2. Folded(x) = SubSeq(Folded(y), 1, Len(x))
    BY <1>2, <2>1, FoldedSame
  <2>3. Folded(x) \in Ancestors(Folded(y))
    BY <2>1, <2>2 DEF Ancestors
  <2>4. Folded(x) \in DOMAIN seen.kinds /\ Folded(y) \in DOMAIN seen.kinds
    BY DEF Remembers
  <2>5. seen.kinds[Folded(x)] = "dir"
    BY <1>2, <2>3, <2>4 DEF FilesAreLeaves
  <2>6. QED BY <1>2, <2>5 DEF Remembers
<1>3. ASSUME FilesEnd(E), NEW path \in DOMAIN seen.kinds, NEW p \in Ancestors(path),
             p \in DOMAIN seen.kinds
      PROVE  seen.kinds[p] = "dir"
  <2>1. PICK j \in 1..Len(E) : path = Folded(E[j].name)
    BY DEF Remembers
  <2>2. PICK i \in 1..Len(E) : p = Folded(E[i].name)
    BY <1>3 DEF Remembers
  <2> DEFINE x == E[i].name  y == E[j].name
  <2>3. PICK k \in 1..(Len(y) - 1) : Folded(x) = SubSeq(Folded(y), 1, k)
    BY <1>1, <2>1, <2>2, NameFacts DEF Ancestors
  <2>4. k \in 1..Len(y) /\ k < Len(y)
    BY <1>1, NameFacts
  <2>5. Len(x) = k /\ SameTo(x, y, k)
    <3>1. x \in Name /\ y \in Name
      BY <1>1
    <3>2. Folded(x) = SubSeq(Folded(y), 1, k) <=> Len(x) = k /\ SameTo(x, y, k)
      <4> HIDE DEF x, y
      <4> QED BY <2>4, <3>1, FoldedSame
    <3>3. QED BY <2>3, <3>2, Zenon
  <2>6. E[i].kind # "file"
    BY <1>3, <2>4, <2>5 DEF FilesEnd
  <2>7. QED BY <2>2, <2>6 DEF Remembers
<1>4. QED
  BY <1>2, <1>3 DEF FilesAreLeaves, FilesEnd

\* What the policy asks of a list as a whole.
Acceptable(E) ==
    /\ Len(E) <= MaxEntries
    /\ \A i \in 1..Len(E) : Fine(E[i])
    /\ \A i, j \in 1..Len(E) : i # j => Folded(E[i].name) # Folded(E[j].name)
    /\ \A i, j \in 1..Len(E) : Alike(E[i].name, E[j].name)
    /\ FilesEnd(E)
    /\ Total(E) <= MaxTotal

\* One more entry is admitted or not, and what is remembered keeps its shape.
LEMMA SeeShape ==
    ASSUME NEW seen, Shape(seen), NEW e
    PROVE  /\ Shape(See(seen, e))
           /\ See(seen, e).ok <=> seen.ok /\ EntryAdmitted(seen, e)
<1>1. CASE seen.ok /\ EntryAdmitted(seen, e)
  BY <1>1 DEF See, Shape
<1>2. CASE ~(seen.ok /\ EntryAdmitted(seen, e))
  <2>1. See(seen, e) = [seen EXCEPT !.ok = FALSE]
    BY <1>2 DEF See
  <2>2. QED BY <1>2, <2>1 DEF Shape
<1>3. QED BY <1>1, <1>2

\* The loop over a list of any length.
LEMMA SeenAfter ==
    ASSUME NEW E \in Seq(Listed), NEW t, t[0] = 0,
           \A k \in 0..(Len(E) - 1) : t[k + 1] = t[k] + E[k + 1].bytes,
           \A k \in 0..Len(E) : t[k] \in Nat
    PROVE  LET seen == FoldLeft(See, NothingSeen, E)
           IN  /\ Shape(seen)
               /\ seen.ok <=> Admissible(E, t, Len(E))
               /\ seen.ok => Remembers(seen, E, t, Len(E))
<1>1. PICK g : /\ g[0] = NothingSeen
               /\ \A k \in 0..(Len(E) - 1) : g[k + 1] = See(g[k], E[k + 1])
               /\ Seen!Folded(E) = g[Len(E)]
  BY Seen!FoldTrace
<1>2. Seen!Folded(E) = FoldLeft(See, NothingSeen, E)
  BY DEF Seen!Folded, Seen!FoldLeft, FoldLeft, Seen!MapThenFoldSet, MapThenFoldSet,
         Seen!Max, Max
<1> DEFINE OK(k) == /\ Shape(g[k])
                    /\ g[k].ok <=> Admissible(E, t, k)
                    /\ g[k].ok => Remembers(g[k], E, t, k)
           N == {k \in Nat : k <= Len(E) => OK(k)}
<1>3. 0 \in N
  <2>1. 1..0 = {}
    OBVIOUS
  <2>2. Shape(NothingSeen) /\ NothingSeen.ok
    BY DEF Shape, NothingSeen
  <2>3. Admissible(E, t, 0)
    BY <2>1, LimitAssumption DEF Admissible
  <2>4. Remembers(NothingSeen, E, t, 0)
    <3>1. DOMAIN NothingSeen.kinds = {} /\ DOMAIN NothingSeen.spelled = {}
          /\ NothingSeen.total = 0
      BY EmptySeq DEF NothingSeen
    <3>2. QED BY <2>1, <3>1 DEF Remembers
  <2>5. QED BY <1>1, <2>2, <2>3, <2>4
<1>4. ASSUME NEW n \in Nat, n \in N PROVE n + 1 \in N
  <2>1. SUFFICES ASSUME n + 1 <= Len(E) PROVE OK(n + 1)
    OBVIOUS
  <2>2. n \in 0..(Len(E) - 1) /\ n \in 0..Len(E) /\ n + 1 \in 0..Len(E)
    BY <2>1
  <2>3. OK(n)
    BY <1>4, <2>2
  <2>4. /\ g[n + 1] = See(g[n], E[n + 1]) /\ t[n + 1] = t[n] + E[n + 1].bytes
        /\ t[n] \in Nat /\ t[n + 1] \in Nat
    BY <1>1, <2>2
  <2>5. Shape(g[n + 1]) /\ (g[n + 1].ok <=> g[n].ok /\ EntryAdmitted(g[n], E[n + 1]))
    BY <2>3, <2>4, SeeShape
  <2>6. CASE g[n].ok
    <3>1. EntryAdmitted(g[n], E[n + 1]) <=> Admissible(E, t, n + 1)
      BY <2>2, <2>3, <2>4, <2>6, EntryDecides
    <3>2. EntryAdmitted(g[n], E[n + 1]) => Remembers(g[n + 1], E, t, n + 1)
      BY <2>2, <2>3, <2>4, <2>6, EntryRemembered
    <3>3. QED BY <2>5, <2>6, <3>1, <3>2
  <2>7. CASE ~g[n].ok
    <3>1. ~Admissible(E, t, n)
      BY <2>3, <2>7
    <3>2. Admissible(E, t, n + 1) => Admissible(E, t, n)
      <4>1. E[n + 1].bytes \in Nat
        BY <2>1, ListedEntry
      <4>2. t[n] <= t[n + 1] /\ MaxTotal \in Nat
        BY <2>4, <4>1, LimitAssumption
      <4>3. t[n + 1] <= MaxTotal => t[n] <= MaxTotal
        BY <2>4, <4>2
      <4>4. QED BY <4>3 DEF Admissible
    <3>3. QED BY <2>5, <2>7, <3>1, <3>2
  <2>8. QED BY <2>6, <2>7
<1> HIDE DEF N
<1>5. \A n \in Nat : n \in N
  BY <1>3, <1>4, Added!InductionOn
<1>6. OK(Len(E))
  BY <1>5 DEF N
<1>7. QED
  BY <1>1, <1>2, <1>6

\* The archive policy accepts a list exactly if it is acceptable, and its total is that of
\* the entries, for lists of any length and any limits.
THEOREM InventoryDecides ==
    ASSUME NEW E \in Seq(Listed)
    PROVE  /\ ValidateInventory(E).ok <=> Acceptable(E)
           /\ ValidateInventory(E).ok => ValidateInventory(E).total = Total(E)
<1>1. PICK t : /\ t[0] = 0 /\ Total(E) = t[Len(E)]
               /\ \A k \in 0..(Len(E) - 1) : t[k + 1] = t[k] + E[k + 1].bytes
               /\ \A k \in 0..Len(E) : t[k] \in Nat
  BY TotalTrace
<1> DEFINE seen == FoldLeft(See, NothingSeen, E)
<1>2. /\ Shape(seen)
      /\ seen.ok <=> Admissible(E, t, Len(E))
      /\ seen.ok => Remembers(seen, E, t, Len(E))
  BY <1>1, SeenAfter
<1>3. ValidateInventory(E) =
        [seen EXCEPT !.ok = @ /\ Len(E) <= MaxEntries /\ FilesAreLeaves(seen.kinds)]
  BY DEF ValidateInventory
<1> HIDE DEF seen
<1>4. /\ ValidateInventory(E).ok <=>
           seen.ok /\ Len(E) <= MaxEntries /\ FilesAreLeaves(seen.kinds)
      /\ ValidateInventory(E).total = seen.total
  BY <1>2, <1>3 DEF Shape
<1>5. seen.ok => (FilesAreLeaves(seen.kinds) <=> FilesEnd(E))
  <2>1. Admissible(E, t, Len(E)) => \A i \in 1..Len(E) : E[i].kind \in {"file", "dir"}
    BY DEF Admissible, Fine
  <2>2. QED BY <1>2, <2>1, LeavesDecided
<1>6. Admissible(E, t, Len(E)) /\ FilesEnd(E) /\ Len(E) <= MaxEntries <=> Acceptable(E)
  BY <1>1 DEF Admissible, Acceptable
<1>7. seen.ok => seen.total = Total(E)
  BY <1>1, <1>2 DEF Remembers
<1>8. QED
  BY <1>2, <1>4, <1>5, <1>6, <1>7

\* The beginnings of a name.
LEMMA NamePrefix ==
    ASSUME NEW x \in Name, NEW k \in 1..Len(x)
    PROVE  /\ SubSeq(x, 1, k) \in Name /\ Len(SubSeq(x, 1, k)) = k
           /\ DOMAIN SubSeq(x, 1, k) = 1..k
           /\ \A m \in 1..k : SubSeq(x, 1, k)[m] = x[m]
<1> DEFINE p == SubSeq(x, 1, k)
<1>1. x \in Seq(Component) /\ Len(x) \in Nat
  BY NameFacts
<1>2. /\ p \in Seq(Component) /\ Len(p) = k /\ DOMAIN p = 1..k
      /\ \A m \in 1..k : p[m] = x[m]
  BY <1>1
<1> HIDE DEF p
<1>3. p # <<>>
  BY <1>2, EmptySeq
<1>4. QED
  BY <1>2, <1>3 DEF Name, p

\* A name and its ancestors are its beginnings.
LEMMA Beginnings ==
    ASSUME NEW x \in Name
    PROVE  \A p : p \in Ancestors(x) \cup {x} <=> \E k \in 1..Len(x) : p = SubSeq(x, 1, k)
<1>1. Len(x) \in 1..Len(x) /\ 1..Len(x) = 1..(Len(x) - 1) \cup {Len(x)}
  BY NameFacts
<1>2. SubSeq(x, 1, Len(x)) = x
  <2> DEFINE p == SubSeq(x, 1, Len(x))
  <2>1. /\ p \in Name /\ Len(p) = Len(x) /\ DOMAIN p = 1..Len(x)
        /\ \A m \in 1..Len(x) : p[m] = x[m]
    BY <1>1, NamePrefix
  <2> HIDE DEF p
  <2>2. p = x
    BY <2>1, NameFacts
  <2>3. QED BY <2>2 DEF p
<1>3. QED
  BY <1>1, <1>2 DEF Ancestors

\* When beginnings of two names are the same, or the same but for case.
LEMMA BeginningsSame ==
    ASSUME NEW x \in Name, NEW y \in Name, NEW k \in 1..Len(x), NEW l \in 1..Len(y)
    PROVE  /\ Folded(SubSeq(x, 1, k)) = Folded(SubSeq(y, 1, l)) <=> k = l /\ SameTo(x, y, k)
           /\ SubSeq(x, 1, k) = SubSeq(y, 1, l) <=> k = l /\ \A m \in 1..k : x[m] = y[m]
<1> DEFINE p == SubSeq(x, 1, k)
           q == SubSeq(y, 1, l)
<1>1. p \in Name /\ Len(p) = k /\ DOMAIN p = 1..k /\ \A m \in 1..k : p[m] = x[m]
  BY NamePrefix
<1>2. q \in Name /\ Len(q) = l /\ DOMAIN q = 1..l /\ \A m \in 1..l : q[m] = y[m]
  BY NamePrefix
<1> HIDE DEF p, q
<1>3. Folded(p) = Folded(q) <=> k = l /\ SameTo(p, q, k)
  BY <1>1, <1>2, FoldedSame
<1>4. k = l => (SameTo(p, q, k) <=> SameTo(x, y, k))
  BY <1>1, <1>2 DEF SameTo
<1>5. p = q <=> k = l /\ \A m \in 1..k : p[m] = q[m]
  BY <1>1, <1>2, NameFacts
<1>6. k = l => ((\A m \in 1..k : p[m] = q[m]) <=> \A m \in 1..k : x[m] = y[m])
  BY <1>1, <1>2
<1>7. QED
  BY <1>3, <1>4, <1>5, <1>6 DEF p, q

\* Two names are spelled alike exactly if none of their ancestors, nor they, come in two
\* spellings.
LEMMA AlikeSpelled ==
    ASSUME NEW x \in Name, NEW y \in Name
    PROVE  Alike(x, y) <=> \A p \in Ancestors(x) \cup {x} : \A q \in Ancestors(y) \cup {y} :
                               Folded(p) = Folded(q) => p = q
<1> DEFINE Spelled == \A k \in 1..Len(x) : \A l \in 1..Len(y) :
              Folded(SubSeq(x, 1, k)) = Folded(SubSeq(y, 1, l))
                  => SubSeq(x, 1, k) = SubSeq(y, 1, l)
<1>1. Spelled <=> \A p \in Ancestors(x) \cup {x} : \A q \in Ancestors(y) \cup {y} :
                      Folded(p) = Folded(q) => p = q
  <2>1. \A p : p \in Ancestors(x) \cup {x} <=> \E k \in 1..Len(x) : p = SubSeq(x, 1, k)
    BY Beginnings
  <2>2. \A p : p \in Ancestors(y) \cup {y} <=> \E k \in 1..Len(y) : p = SubSeq(y, 1, k)
    BY Beginnings
  <2>3. ASSUME Spelled, NEW p \in Ancestors(x) \cup {x}, NEW q \in Ancestors(y) \cup {y},
               Folded(p) = Folded(q)
        PROVE  p = q
    <3>1. PICK k \in 1..Len(x) : p = SubSeq(x, 1, k)
      BY <2>1
    <3>2. PICK l \in 1..Len(y) : q = SubSeq(y, 1, l)
      BY <2>2
    <3>3. QED BY <2>3, <3>1, <3>2
  <2>4. ASSUME \A p \in Ancestors(x) \cup {x} : \A q \in Ancestors(y) \cup {y} :
                   Folded(p) = Folded(q) => p = q,
               NEW k \in 1..Len(x), NEW l \in 1..Len(y),
               Folded(SubSeq(x, 1, k)) = Folded(SubSeq(y, 1, l))
        PROVE  SubSeq(x, 1, k) = SubSeq(y, 1, l)
    <3>1. SubSeq(x, 1, k) \in Ancestors(x) \cup {x} /\ SubSeq(y, 1, l) \in Ancestors(y) \cup {y}
      BY <2>1, <2>2
    <3>2. QED BY <2>4, <3>1
  <2>5. QED BY <2>3, <2>4
<1>2. ASSUME Alike(x, y), NEW k \in 1..Len(x), NEW l \in 1..Len(y),
             Folded(SubSeq(x, 1, k)) = Folded(SubSeq(y, 1, l))
      PROVE  SubSeq(x, 1, k) = SubSeq(y, 1, l)
  <2>1. k = l /\ SameTo(x, y, k)
    BY <1>2, BeginningsSame
  <2>2. ASSUME NEW m \in 1..k PROVE x[m] = y[m]
    <3>1. m \in DOMAIN x \cap DOMAIN y /\ SameTo(x, y, m) /\ x[m].fold = y[m].fold
      BY <2>1, NameFacts DEF SameTo
    <3>2. x[m].form = y[m].form
      BY <1>2, <3>1 DEF Alike
    <3>3. x[m] \in Component /\ y[m] \in Component
      BY <3>1, NameFacts
    <3>4. QED BY <3>1, <3>2, <3>3 DEF Component
  <2>3. QED BY <2>1, <2>2, BeginningsSame
<1>3. ASSUME Spelled, NEW k \in DOMAIN x \cap DOMAIN y, SameTo(x, y, k)
      PROVE  x[k].form = y[k].form
  <2>1. k \in 1..Len(x) /\ k \in 1..Len(y) /\ k \in 1..k
    BY NameFacts
  <2>2. Folded(SubSeq(x, 1, k)) = Folded(SubSeq(y, 1, k))
    BY <1>3, <2>1, BeginningsSame
  <2>3. SubSeq(x, 1, k) = SubSeq(y, 1, k)
    BY <1>3, <2>1, <2>2
  <2>4. x[k] = y[k]
    BY <2>1, <2>3, BeginningsSame
  <2>5. QED BY <2>4
<1>4. Alike(x, y) <=> Spelled
  BY <1>2, <1>3 DEF Alike
<1>5. QED
  BY <1>1, <1>4

\* A name is an ancestor of one spelled alike exactly if a host that ignores case says so.
LEMMA AncestorAlike ==
    ASSUME NEW x \in Name, NEW y \in Name, Alike(x, y)
    PROVE  x \in Ancestors(y) <=> Len(x) < Len(y) /\ SameTo(x, y, Len(x))
<1>1. Len(x) \in 1..Len(x) /\ Len(y) \in Nat /\ Len(x) \in Nat
  BY NameFacts
<1>2. SubSeq(x, 1, Len(x)) = x
  <2>1. x \in Seq(Component)
    BY NameFacts
  <2>2. QED BY <2>1
<1>3. ASSUME x \in Ancestors(y) PROVE Len(x) < Len(y) /\ SameTo(x, y, Len(x))
  <2>1. PICK l \in 1..(Len(y) - 1) : x = SubSeq(y, 1, l)
    BY <1>3 DEF Ancestors
  <2>2. l \in 1..Len(y) /\ l < Len(y)
    BY <1>1
  <2>3. Len(x) = l /\ \A m \in 1..Len(x) : x[m] = y[m]
    BY <1>1, <1>2, <2>1, <2>2, BeginningsSame, SMTT(30)
  <2>4. QED BY <2>2, <2>3 DEF SameTo
<1>4. ASSUME Len(x) < Len(y), SameTo(x, y, Len(x)) PROVE x \in Ancestors(y)
  <2>1. Len(x) \in 1..(Len(y) - 1) /\ Len(x) \in 1..Len(y)
    BY <1>1, <1>4
  <2>2. Folded(SubSeq(x, 1, Len(x))) = Folded(SubSeq(y, 1, Len(x)))
    BY <1>1, <1>4, <2>1, BeginningsSame
  <2>3. SubSeq(x, 1, Len(x)) \in Ancestors(x) \cup {x}
        /\ SubSeq(y, 1, Len(x)) \in Ancestors(y) \cup {y}
    BY <1>1, <2>1, Beginnings
  <2>4. SubSeq(x, 1, Len(x)) = SubSeq(y, 1, Len(x))
    <3> DEFINE p == SubSeq(x, 1, Len(x))  q == SubSeq(y, 1, Len(x))
    <3> HIDE DEF p, q
    <3>1. /\ p \in Ancestors(x) \cup {x} /\ q \in Ancestors(y) \cup {y}
          /\ Folded(p) = Folded(q)
      BY <2>2, <2>3 DEF p, q
    <3>2. p = q
      BY <3>1, AlikeSpelled
    <3>3. QED BY <3>2 DEF p, q
  <2>5. QED BY <1>2, <2>1, <2>4 DEF Ancestors
<1>5. QED
  BY <1>3, <1>4

\* What the members of an archive are listed as.
LEMMA ListingFacts ==
    ASSUME NEW ms \in Seq(Member)
    PROVE  /\ Listing(ms) \in Seq(Listed) /\ Len(Listing(ms)) = Len(ms)
           /\ Len(ms) \in Nat /\ DOMAIN ms = 1..Len(ms)
           /\ \A i \in 1..Len(ms) :
                /\ ms[i] \in Member /\ ms[i].name \in Name /\ Len(ms[i].content) \in Nat
                /\ Listing(ms)[i] = [name |-> ms[i].name, kind |-> ms[i].kind,
                                     bytes |-> Len(ms[i].content)]
<1> DEFINE n == Len(ms)
           list == [i \in 1..n |-> [name |-> ms[i].name, kind |-> ms[i].kind,
                                    bytes |-> Len(ms[i].content)]]
<1>1. n \in Nat /\ DOMAIN ms = 1..n /\ \A i \in 1..n : ms[i] \in Member
  OBVIOUS
<1>2. \A m \in Member : /\ m.name \in Name /\ m.kind \in STRING /\ Len(m.content) \in Nat
  BY DEF Member
<1>3. Listing(ms) = list
  BY <1>1 DEF Listing
<1>4. \A i \in 1..n : list[i] \in Listed
  BY <1>1, <1>2 DEF Listed
<1>5. list \in Seq(Listed) /\ Len(list) = n
  <2>1. DOMAIN list = 1..n /\ list = [i \in 1..n |-> list[i]]
    OBVIOUS
  <2> HIDE DEF n, list
  <2>2. QED BY <1>1, <1>4, <2>1
<1>6. QED
  BY <1>1, <1>2, <1>3, <1>5

\* The list of an archive's members is acceptable exactly if the members are portable and
\* within the limits, as far as directories have no data.
LEMMA AcceptableMembers ==
    ASSUME NEW ms \in Seq(Member),
           \A i \in 1..Len(ms) : ms[i].kind = "dir" => Len(ms[i].content) = 0
    PROVE  Acceptable(Listing(ms)) <=> Portable(ms) /\ WithinLimits(ms)
<1> DEFINE E == Listing(ms)
           n == Len(ms)
           x(i) == ms[i].name
<1>1. /\ Len(E) = n /\ n \in Nat /\ DOMAIN ms = 1..n
      /\ \A i \in 1..n : /\ E[i].name = x(i) /\ E[i].kind = ms[i].kind
                         /\ E[i].bytes = Len(ms[i].content) /\ x(i) \in Name
  <2> HIDE DEF E
  <2>1. /\ Len(E) = n /\ n \in Nat /\ DOMAIN ms = 1..n
        /\ \A i \in 1..n : /\ E[i] = [name |-> ms[i].name, kind |-> ms[i].kind,
                                       bytes |-> Len(ms[i].content)]
                           /\ x(i) \in Name
    BY ListingFacts DEF E
  <2>2. ASSUME NEW i \in 1..n
        PROVE  /\ E[i].name = x(i) /\ E[i].kind = ms[i].kind
               /\ E[i].bytes = Len(ms[i].content)
    <3>1. E[i] = [name |-> ms[i].name, kind |-> ms[i].kind, bytes |-> Len(ms[i].content)]
      BY <2>1
    <3> HIDE DEF n
    <3>2. QED BY <3>1
  <2> HIDE DEF x, n
  <2>3. QED BY <2>1, <2>2
<1> HIDE DEF E, n
<1>2. (\A i \in 1..n : Fine(E[i])) <=>
        \A i \in 1..n :
            /\ \A k \in DOMAIN x(i) : x(i)[k].fold \notin UnsafePart \cup ReservedPart
            /\ ms[i].kind \in {"file", "dir"}
            /\ PathBytes(x(i)) <= MaxPath /\ Len(x(i)) <= MaxDepth
            /\ Len(ms[i].content) <= MaxEntryBytes
  BY <1>1 DEF Fine, SafePath, PortablePath, n
<1>3. (\A i, j \in 1..n : i # j => Folded(E[i].name) # Folded(E[j].name)) <=>
        \A i, j \in 1..n : i # j => Folded(x(i)) # Folded(x(j))
  <2> HIDE DEF x
  <2>1. \A i \in 1..n : E[i].name = x(i)
    BY <1>1
  <2>2. QED BY ONLY <2>1, SMTT(30)
<1>4. (\A i, j \in 1..n : Alike(E[i].name, E[j].name)) <=>
        \A i, j \in 1..n :
            \A p \in Ancestors(x(i)) \cup {x(i)} : \A q \in Ancestors(x(j)) \cup {x(j)} :
                Folded(p) = Folded(q) => p = q
  <2> HIDE DEF x
  <2>1. \A i \in 1..n : E[i].name = x(i) /\ x(i) \in Name
    BY <1>1
  <2>2. \A i \in 1..n : \A j \in 1..n :
          Alike(x(i), x(j)) <=>
            \A p \in Ancestors(x(i)) \cup {x(i)} : \A q \in Ancestors(x(j)) \cup {x(j)} :
                Folded(p) = Folded(q) => p = q
    BY ONLY <2>1, AlikeSpelled
  <2>3. \A i \in 1..n : \A j \in 1..n : Alike(E[i].name, E[j].name) <=> Alike(x(i), x(j))
    BY ONLY <2>1
  <2>4. QED BY ONLY <2>2, <2>3, SMTT(30)
<1>5. (\A i, j \in 1..n : Alike(E[i].name, E[j].name)) =>
        (FilesEnd(E) <=> \A i, j \in 1..n : ms[i].kind = "file" => x(i) \notin Ancestors(x(j)))
  <2> SUFFICES ASSUME \A i, j \in 1..n : Alike(E[i].name, E[j].name)
               PROVE  FilesEnd(E) <=>
                        \A i, j \in 1..n : ms[i].kind = "file" => x(i) \notin Ancestors(x(j))
    OBVIOUS
  <2>1. \A i, j \in 1..n : x(i) \in Ancestors(x(j))
                             <=> Len(x(i)) < Len(x(j)) /\ SameTo(x(i), x(j), Len(x(i)))
    BY <1>1, AncestorAlike
  <2>2. FilesEnd(E) <=>
          \A i, j \in 1..n :
              ms[i].kind = "file" /\ Len(x(i)) < Len(x(j)) => ~SameTo(x(i), x(j), Len(x(i)))
    <3> HIDE DEF x
    <3>1. \A i \in 1..n : E[i].name = x(i) /\ E[i].kind = ms[i].kind
      BY <1>1
    <3>2. Len(E) = n
      BY <1>1
    <3>3. QED BY <3>1, <3>2, Zenon DEF FilesEnd
  <2> HIDE DEF x
  <2>3. QED BY <2>1, <2>2
<1>6. Acceptable(E) <=>
        /\ n <= MaxEntries /\ Total(E) <= MaxTotal
        /\ \A i \in 1..n : Fine(E[i])
        /\ \A i, j \in 1..n : i # j => Folded(E[i].name) # Folded(E[j].name)
        /\ \A i, j \in 1..n : Alike(E[i].name, E[j].name)
        /\ FilesEnd(E)
  BY <1>1 DEF Acceptable
<1>7. Portable(ms) <=>
        /\ \A i \in 1..n :
             /\ \A k \in DOMAIN x(i) : x(i)[k].fold \notin UnsafePart \cup ReservedPart
             /\ ms[i].kind \in {"file", "dir"}
        /\ \A i, j \in 1..n : i # j => Folded(x(i)) # Folded(x(j))
        /\ \A i, j \in 1..n :
             \A p \in Ancestors(x(i)) \cup {x(i)} : \A q \in Ancestors(x(j)) \cup {x(j)} :
                 Folded(p) = Folded(q) => p = q
        /\ \A i, j \in 1..n : ms[i].kind = "file" => x(i) \notin Ancestors(x(j))
  BY ONLY <1>1, SMTT(30) DEF Portable, x
<1>8. WithinLimits(ms) <=>
        /\ n <= MaxEntries /\ Total(E) <= MaxTotal
        /\ \A i \in 1..n : /\ PathBytes(x(i)) <= MaxPath /\ Len(x(i)) <= MaxDepth
                           /\ Len(ms[i].content) <= MaxEntryBytes
  BY <1>1 DEF WithinLimits, E, n
<1>9. Acceptable(E) <=> Portable(ms) /\ WithinLimits(ms)
  BY ONLY <1>2, <1>3, <1>4, <1>5, <1>6, <1>7, <1>8
<1>10. QED
  BY <1>9 DEF E

-----------------------------------------------------------------------------
(* Blocks and bytes *)

\* Products of block counts.
LEMMA Times ==
    ASSUME NEW m \in Nat, NEW n \in Nat, NEW d \in Nat
    PROVE  /\ m * d \in Nat
           /\ m <= n => m * d <= n * d
           /\ (m + 1) * d = m * d + d
<1>1. m * d \in Nat /\ (m + 1) * d = m * d + d
  OBVIOUS
<1>2. m <= n => m * d <= n * d
  BY Z3
<1>3. QED BY <1>1, <1>2

\* Division with rest.
LEMMA Divided ==
    ASSUME NEW n \in Nat, NEW d \in Nat \ {0}
    PROVE  n \div d \in Nat /\ n % d \in 0..(d - 1) /\ n = (n \div d) * d + (n % d)
<1>1. n \in Int /\ d \in Int /\ d > 0
  OBVIOUS
<1>2. n % d \in 0..(d - 1)
  BY <1>1
<1>3. n \div d \in Nat
  BY <1>1, Z3
<1>4. n = (n \div d) * d + (n % d)
  BY <1>1
<1>5. QED BY <1>2, <1>3, <1>4

\* A quotient and a rest are found again.
LEMMA DividedOnce ==
    ASSUME NEW q \in Nat, NEW r \in Nat, NEW d \in Nat \ {0}, r < d
    PROVE  (q * d + r) \div d = q /\ (q * d + r) % d = r
OBVIOUS

\* How many blocks a member's data takes, and which of their bytes are the last block's.
LEMMA PaddedBlocks ==
    ASSUME NEW size \in Nat \ {0}
    PROVE  LET full == Padded(size) - 1
               used == size % Block
           IN  /\ Padded(size) \in Nat \ {0} /\ full \in Nat /\ used \in 0..(Block - 1)
               /\ used = 0 => size = Padded(size) * Block
               /\ used # 0 => size = full * Block + used
               /\ Padded(size) * Block = full * Block + Block
               /\ size <= Padded(size) * Block
<1> DEFINE q == size \div Block
           used == size % Block
           full == Padded(size) - 1
<1>1. Block \in Nat \ {0} /\ Block \in Nat
  BY BlockAssumption
<1>2. q \in Nat /\ used \in 0..(Block - 1) /\ size = q * Block + used
  BY <1>1, Divided
<1>3. q * Block \in Nat /\ (q + 1) * Block = q * Block + Block
  BY <1>1, <1>2, Times
<1> HIDE DEF q, used
<1>4. CASE used = 0
  <2>1. size + Block - 1 = q * Block + (Block - 1) /\ Block - 1 \in Nat /\ Block - 1 < Block
    BY <1>1, <1>2, <1>3, <1>4
  <2>2. Padded(size) = q
    BY <1>1, <1>2, <2>1, DividedOnce DEF Padded
  <2>3. q # 0
    <3>1. q = 0 => q * Block = 0
      BY <1>1
    <3>2. QED BY <1>2, <1>4, <3>1
  <2>4. full \in Nat /\ full + 1 = q
    BY <1>2, <2>2, <2>3
  <2>5. (full + 1) * Block = full * Block + Block /\ full * Block \in Nat
    BY <1>1, <2>4, Times
  <2>6. size = Padded(size) * Block
    BY <1>2, <1>3, <1>4, <2>2
  <2>7. Padded(size) * Block = full * Block + Block
    BY <2>2, <2>4, <2>5
  <2>8. QED BY <1>2, <1>4, <2>2, <2>3, <2>4, <2>6, <2>7 DEF used
<1>5. CASE used # 0
  <2>1. size + Block - 1 = (q + 1) * Block + (used - 1) /\ used - 1 \in Nat /\ used - 1 < Block
    BY <1>1, <1>2, <1>3, <1>5
  <2>2. Padded(size) = q + 1
    BY <1>1, <1>2, <2>1, DividedOnce DEF Padded
  <2>3. full = q /\ size = full * Block + used
    BY <1>2, <2>2
  <2>4. Padded(size) * Block = full * Block + Block
    BY <1>3, <2>2, <2>3
  <2>5. size <= Padded(size) * Block
    BY <1>1, <1>2, <1>3, <2>3, <2>4
  <2>6. QED BY <1>2, <1>5, <2>2, <2>3, <2>4, <2>5 DEF used
<1>6. QED BY <1>4, <1>5

\* No data takes no block.
LEMMA PaddedNone == Padded(0) = 0
<1>1. Block \in Nat \ {0} /\ Block - 1 \in Nat /\ Block - 1 < Block
  BY BlockAssumption
<1>2. (0 * Block + (Block - 1)) \div Block = 0
  BY <1>1, DividedOnce
<1>3. QED BY <1>1, <1>2 DEF Padded

\* The bytes after the data lie in its last block.
LEMMA AfterTheData ==
    ASSUME NEW size \in Nat \ {0}, NEW k \in Nat
    PROVE  LET full == Padded(size) - 1
               used == size % Block
           IN  k \in (size + 1)..(Padded(size) * Block) =>
                   /\ used # 0 /\ (k - 1) \div Block = full
                   /\ ((k - 1) % Block) + 1 \in (used + 1)..Block
                   /\ ((k - 1) % Block) + 1 = k - full * Block
<1> DEFINE full == Padded(size) - 1
           used == size % Block
           r == k - 1 - full * Block
<1>1. Block \in Nat \ {0} /\ Block \in Nat
  BY BlockAssumption
<1>2. /\ full \in Nat /\ used \in 0..(Block - 1)
      /\ used = 0 => size = Padded(size) * Block
      /\ used # 0 => size = full * Block + used
      /\ Padded(size) * Block = full * Block + Block
  BY PaddedBlocks
<1>3. full * Block \in Nat
  BY <1>1, <1>2, Times
<1> HIDE DEF full, used
<1>4. SUFFICES ASSUME k \in (size + 1)..(Padded(size) * Block)
               PROVE  /\ used # 0 /\ (k - 1) \div Block = full
                      /\ ((k - 1) % Block) + 1 \in (used + 1)..Block
                      /\ ((k - 1) % Block) + 1 = k - full * Block
  BY DEF full, used
<1>5. used # 0 /\ size = full * Block + used
  <2>1. used = 0 => k > Padded(size) * Block
    BY <1>2, <1>4
  <2>2. QED BY <1>1, <1>2, <1>3, <1>4, <2>1
<1>6. r \in Nat /\ r < Block /\ r >= used /\ k - 1 = full * Block + r
  BY <1>1, <1>2, <1>3, <1>4, <1>5
<1> HIDE DEF r
<1>7. (k - 1) \div Block = full /\ (k - 1) % Block = r
  BY <1>1, <1>2, <1>6, DividedOnce
<1>8. r = k - 1 - full * Block
  BY DEF r
<1>9. QED BY <1>1, <1>2, <1>3, <1>5, <1>6, <1>7, <1>8

\* The bytes of the data lie in its blocks.
LEMMA WithinTheData ==
    ASSUME NEW size \in Nat \ {0}, NEW k \in 1..size
    PROVE  /\ (k - 1) \div Block \in 0..(Padded(size) - 1)
           /\ ((k - 1) % Block) + 1 \in 1..Block
<1> DEFINE q == (k - 1) \div Block
           P == Padded(size)
<1>1. Block \in Nat \ {0} /\ Block \in Nat /\ k - 1 \in Nat
  BY BlockAssumption
<1>2. q \in Nat /\ (k - 1) % Block \in 0..(Block - 1) /\ k - 1 = q * Block + ((k - 1) % Block)
  BY <1>1, Divided
<1>3. P \in Nat /\ size <= P * Block
  BY PaddedBlocks
<1> HIDE DEF q, P
<1>4. P <= q => P * Block <= q * Block
  BY <1>1, <1>2, <1>3, Times
<1>5. q * Block \in Nat /\ P * Block \in Nat
  BY <1>1, <1>2, <1>3, Times
<1>6. ~(P <= q)
  <2>1. q * Block <= k - 1 /\ k - 1 < size
    BY <1>1, <1>2, <1>5
  <2>2. QED BY <1>3, <1>4, <1>5, <2>1
<1>7. q \in 0..(P - 1)
  BY <1>2, <1>3, <1>6
<1>8. QED BY <1>1, <1>2, <1>7 DEF q, P

-----------------------------------------------------------------------------
(* The layout of an archive *)

\* The header of a member, the last block of its data, and what the code asks of both.
HeadAt(a, i) == a.blocks[a.starts[i]]
SoundHead(a, i) == HeadAt(a, i).sound /\ (HeadAt(a, i).kind = "dir" => HeadAt(a, i).size = 0)
CleanTail(a, i) ==
    \A k \in (HeadAt(a, i).size + 1)..(Padded(HeadAt(a, i).size) * Block) :
        DataBlock(a, i, k) \in DOMAIN a.blocks => DataByte(a, i, k) = "zero"
End(a) == a.starts[Len(a.members) + 1]

\* The blocks of an archive, by the assumption on how a producer lays it out.
LEMMA Layout ==
    ASSUME NEW a \in Archives
    PROVE  LET n == Len(a.members)
           IN  /\ a.members \in Seq(Member) /\ n \in Nat /\ DOMAIN a.members = 1..n
               /\ Len(a.blocks) \in Nat /\ DOMAIN a.blocks = 1..Len(a.blocks)
               /\ a.starts[1] = 1 /\ \A i \in 1..(n + 1) : a.starts[i] \in Nat \ {0}
               /\ \A i \in 1..n :
                    /\ a.starts[i] \in 1..Len(a.blocks)
                    /\ HeadAt(a, i).header
                    /\ HeaderName(HeadAt(a, i)) = a.members[i].name
                    /\ HeadAt(a, i).kind = a.members[i].kind
                    /\ HeadAt(a, i).size = Len(a.members[i].content)
                    /\ HeadAt(a, i).size \in Nat /\ Padded(HeadAt(a, i).size) \in Nat
                    /\ a.starts[i + 1] = a.starts[i] + 1 + Padded(HeadAt(a, i).size)
               /\ \A j \in End(a)..Len(a.blocks) : ~a.blocks[j].header
<1> DEFINE n == Len(a.members)
<1>1. a.members \in Seq(Member) /\ a.starts \in Seq(Nat \ {0}) /\ a.blocks \in Seq(Range(a.blocks))
  BY NameAssumption
<1>2. n \in Nat /\ DOMAIN a.members = 1..n /\ \A i \in 1..n : Len(a.members[i].content) \in Nat
  BY <1>1, ListingFacts
<1>3. Len(a.blocks) \in Nat /\ DOMAIN a.blocks = 1..Len(a.blocks)
  BY <1>1
<1>4. LaidOut(a)
  BY LayoutAssumption
<1>5. a.starts[1] = 1 /\ Len(a.starts) = n + 1
  BY <1>4 DEF LaidOut
<1>6. \A i \in 1..(n + 1) : a.starts[i] \in Nat \ {0}
  BY <1>1, <1>2, <1>5
<1>7. \A i \in 1..n :
        /\ a.starts[i] \in 1..Len(a.blocks)
        /\ HeadAt(a, i).header
        /\ HeaderName(HeadAt(a, i)) = a.members[i].name
        /\ HeadAt(a, i).kind = a.members[i].kind
        /\ HeadAt(a, i).size = Len(a.members[i].content)
        /\ a.starts[i + 1] = a.starts[i] + 1 + Padded(HeadAt(a, i).size)
  BY <1>2, <1>3, <1>4 DEF LaidOut, HeadAt
<1>8. \A i \in 1..n : HeadAt(a, i).size \in Nat
  BY <1>2, <1>7
<1>9. \A s \in Nat : Padded(s) \in Nat
  <2> TAKE s \in Nat
  <2>1. CASE s = 0
    BY <2>1, PaddedNone
  <2>2. CASE s # 0
    BY <2>2, PaddedBlocks
  <2>3. QED BY <2>1, <2>2
<1>10. \A j \in End(a)..Len(a.blocks) : ~a.blocks[j].header
  BY <1>4 DEF LaidOut, End
<1>11. QED
  BY <1>1, <1>2, <1>3, <1>5, <1>6, <1>7, <1>8, <1>9, <1>10

\* The members lie one behind the other.
LEMMA StartsGrow ==
    ASSUME NEW a \in Archives
    PROVE  \A i \in 1..(Len(a.members) + 1) : a.starts[i] <= End(a)
<1> DEFINE n == Len(a.members)
           Low(d) == d <= n => a.starts[n + 1 - d] <= End(a)
           N == {d \in Nat : Low(d)}
<1>1. /\ n \in Nat /\ \A i \in 1..(n + 1) : a.starts[i] \in Nat \ {0}
      /\ \A i \in 1..n : /\ Padded(HeadAt(a, i).size) \in Nat
                         /\ a.starts[i + 1] = a.starts[i] + 1 + Padded(HeadAt(a, i).size)
  BY Layout
<1>2. 0 \in N
  BY <1>1 DEF End
<1>3. ASSUME NEW d \in Nat, d \in N PROVE d + 1 \in N
  <2> SUFFICES ASSUME d + 1 <= n PROVE a.starts[n + 1 - (d + 1)] <= End(a)
    <3>1. d + 1 \in Nat
      OBVIOUS
    <3>2. d + 1 \in N <=> Low(d + 1)
      <4> HIDE DEF Low
      <4>1. QED BY <3>1
    <3>3. QED BY <3>2
  <2>0. d <= n /\ Low(d)
    BY <1>1, <1>3
  <2> HIDE DEF n, N
  <2>1. PICK i \in 1..n : i = n + 1 - (d + 1) /\ i + 1 = n + 1 - d
    BY <1>1
  <2>2. a.starts[i + 1] <= End(a)
    BY <2>0, <2>1
  <2>3. /\ a.starts[i] \in Nat /\ a.starts[i + 1] \in Nat /\ Padded(HeadAt(a, i).size) \in Nat
        /\ a.starts[i + 1] = a.starts[i] + 1 + Padded(HeadAt(a, i).size)
    BY <1>1, <2>1
  <2>4. End(a) \in Nat
    BY <1>1 DEF End, n
  <2>5. a.starts[i] <= End(a)
    BY <2>2, <2>3, <2>4
  <2>6. QED BY <2>1, <2>5
<1> HIDE DEF N
<1>4. \A d \in Nat : d \in N
  BY <1>2, <1>3, Added!InductionOn
<1>5. ASSUME NEW i \in 1..(n + 1) PROVE a.starts[i] <= End(a)
  <2>0. n + 1 - i \in Nat
    BY <1>1
  <2>1. PICK d \in Nat : d = n + 1 - i
    BY <2>0
  <2>2. d \in N /\ d <= n /\ n + 1 - d = i
    BY <1>1, <1>4, <2>1
  <2>3. QED BY <2>2 DEF N
<1>6. QED BY <1>5

\* The last block of a member's data tells whether zeros follow the data.
LEMMA CleanLastBlock ==
    ASSUME NEW a \in Archives, NEW i \in 1..Len(a.members), HeadAt(a, i).size # 0,
           a.starts[i] + Padded(HeadAt(a, i).size) \in DOMAIN a.blocks
    PROVE  LET last == DataBytes(a.blocks[a.starts[i] + Padded(HeadAt(a, i).size)])
               used == HeadAt(a, i).size % Block
           IN  CleanTail(a, i) <=> (used # 0 => \A x \in (used + 1)..Block : last[x] = "zero")
<1> DEFINE size == HeadAt(a, i).size
           P == Padded(size)
           used == size % Block
           last == DataBytes(a.blocks[a.starts[i] + P])
           byte(k) == ((k - 1) % Block) + 1
<1>1. size \in Nat \ {0} /\ a.starts[i] \in Nat
  BY Layout
<1>2. /\ P \in Nat \ {0} /\ used \in 0..(Block - 1)
      /\ used # 0 => size = (P - 1) * Block + used
  BY <1>1, PaddedBlocks
<1>2a. P \in Nat \ {0} /\ used \in Nat
  <2> HIDE DEF P, used
  <2>1. QED BY <1>2, BlockAssumption
<1>3. ASSUME NEW k \in (size + 1)..(P * Block)
      PROVE  /\ used # 0 /\ byte(k) \in (used + 1)..Block /\ byte(k) = k - (P - 1) * Block
             /\ DataBlock(a, i, k) = a.starts[i] + P /\ DataByte(a, i, k) = last[byte(k)]
  <2>1. k \in Nat
    BY <1>1
  <2> HIDE DEF size, P
  <2>2. /\ used # 0 /\ byte(k) \in (used + 1)..Block /\ byte(k) = k - (P - 1) * Block
        /\ (k - 1) \div Block = P - 1
    BY <1>1, <1>3, <2>1, AfterTheData DEF P
  <2> HIDE DEF used
  <2>3. a.starts[i] + 1 + (P - 1) = a.starts[i] + P
    <3>1. P \in Nat /\ a.starts[i] \in Nat
      BY <1>1, <1>2a
    <3>2. QED BY <3>1
  <2>4. DataBlock(a, i, k) = a.starts[i] + P
    BY <2>2, <2>3 DEF DataBlock
  <2>5. DataByte(a, i, k) = last[byte(k)]
    BY <2>4 DEF DataByte
  <2>6. QED BY <2>2, <2>4, <2>5
<1>4. a.starts[i] + P \in DOMAIN a.blocks
  OBVIOUS
<1>5. CleanTail(a, i) <=> \A k \in (size + 1)..(P * Block) :
                              DataBlock(a, i, k) \in DOMAIN a.blocks
                                  => DataByte(a, i, k) = "zero"
  BY DEF CleanTail
<1>6. ASSUME NEW x \in (used + 1)..Block, used # 0
      PROVE  \E k \in (size + 1)..(P * Block) : byte(k) = x
  <2> DEFINE k == (P - 1) * Block + x
  <2>1. /\ Block \in Nat \ {0} /\ (P - 1) * Block \in Nat
        /\ P * Block = (P - 1) * Block + Block
    <3> HIDE DEF P
    <3>1. Block \in Nat \ {0} /\ P - 1 \in Nat /\ P = (P - 1) + 1
      BY <1>2a, BlockAssumption
    <3>2. QED BY <3>1, Times
  <2> HIDE DEF size, P, used
  <2>2. k \in (size + 1)..(P * Block) /\ k - (P - 1) * Block = x
    <3> DEFINE f == (P - 1) * Block
    <3>1. f \in Nat /\ P * Block = f + Block /\ k = f + x
      BY <2>1, Zenon
    <3>1a. size = f + used
      BY <1>2, <1>6, Zenon
    <3> HIDE DEF f, k
    <3>2. k \in (size + 1)..(P * Block) /\ k - f = x
      BY <1>2a, <1>6, <2>1, <3>1, <3>1a
    <3>3. QED BY <3>2 DEF f
  <2> HIDE DEF byte
  <2>3. byte(k) = k - (P - 1) * Block
    BY <1>3, <2>2
  <2>4. QED BY <2>2, <2>3
<1> HIDE DEF size, P, used, last, byte
<1>7. ASSUME used # 0 => \A x \in (used + 1)..Block : last[x] = "zero"
      PROVE  CleanTail(a, i)
  BY <1>3, <1>4, <1>5, <1>7
<1>8. ASSUME CleanTail(a, i), used # 0, NEW x \in (used + 1)..Block
      PROVE  last[x] = "zero"
  <2>1. PICK k \in (size + 1)..(P * Block) : byte(k) = x
    BY <1>6, <1>8
  <2>2. QED BY <1>3, <1>4, <1>5, <1>8, <2>1
<1>9. CleanTail(a, i) <=> (used # 0 => \A x \in (used + 1)..Block : last[x] = "zero")
  BY <1>7, <1>8
<1>10. QED BY <1>9 DEF size, P, used, last

\* A member without data has no bytes behind its data.
LEMMA CleanNoData ==
    ASSUME NEW a \in Archives, NEW i \in 1..Len(a.members), HeadAt(a, i).size = 0
    PROVE  CleanTail(a, i)
<1>1. Block \in Nat /\ 0 * Block = 0
  BY BlockAssumption
<1>2. (HeadAt(a, i).size + 1)..(Padded(HeadAt(a, i).size) * Block) = 1..0
  BY <1>1, PaddedNone
<1>3. QED BY <1>2 DEF CleanTail

\* The parts an archive that is well formed has.
LEMMA WellFormedParts ==
    ASSUME NEW a \in Archives
    PROVE  WellFormed(a) <=> /\ \A i \in 1..Len(a.members) : SoundHead(a, i) /\ CleanTail(a, i)
                             /\ End(a) + 1 <= Len(a.blocks)
                             /\ \A j \in 1..Len(a.blocks) : j <= End(a) + 1 => a.blocks[j].whole
                             /\ \A j \in End(a)..Len(a.blocks) : IsZero(a.blocks[j])
<1>1. DOMAIN a.members = 1..Len(a.members) /\ DOMAIN a.blocks = 1..Len(a.blocks)
  BY Layout
<1>2. QED BY <1>1 DEF WellFormed, SoundHead, CleanTail, HeadAt, End

\* A header is no block of zeros.
LEMMA HeaderNotZero ==
    ASSUME NEW b, b.header PROVE ~IsZero(b)
<1>1. 1 \in 1..Block /\ Block \in Nat
  BY BlockAssumption
<1>2. DataBytes(b)[1] = "head"
  BY <1>1 DEF DataBytes
<1>3. QED BY <1>1, <1>2 DEF IsZero

-----------------------------------------------------------------------------
(* The walk over the blocks *)

\* The members found are the first of the archive's, as its producer meant them, and
\* where the walk is: before a header, within the data of a member, or behind them all.
Found(a) ==
    /\ Len(entries) <= Len(a.members)
    /\ \A i \in 1..Len(entries) : entries[i] = Listing(a.members)[i] /\ SoundHead(a, i)

BeforeHeader(a) ==
    /\ pos + 1 = a.starts[Len(entries) + 1]
    /\ \A i \in 1..Len(entries) : CleanTail(a, i)

WithinData(a) ==
    LET i == Len(entries)
    IN  /\ i # 0 /\ HeadAt(a, i).size # 0 /\ left \in Nat \ {0}
        /\ pos + left = a.starts[i] + Padded(HeadAt(a, i).size)
        /\ \A j \in 1..(i - 1) : CleanTail(a, j)

BehindAll(a) ==
    /\ Len(entries) = Len(a.members)
    /\ \A i \in 1..Len(entries) : CleanTail(a, i)
    /\ \A j \in End(a)..pos : IsZero(a.blocks[j])

\* The blocks behind the walk were whole, up to the two that end the archive.
WholeBefore(a) == \A j \in 1..pos : j <= End(a) + 1 => a.blocks[j].whole

WalkAt(a) ==
    /\ pos <= Len(a.blocks) /\ pos * Block <= MaxArchive /\ WholeBefore(a)
    /\ walk \in {"header", "data", "second", "padding", "accepted"}
    /\ walk = "header" => BeforeHeader(a)
    /\ walk = "data" => WithinData(a)
    /\ walk \in {"second", "padding", "accepted"} => BehindAll(a)
    /\ walk = "second" => pos = End(a)
    /\ walk \in {"padding", "accepted"} => pos >= End(a) + 1
    /\ walk = "accepted" => pos = Len(a.blocks) /\ ValidateInventory(entries).ok

Good(a) ==
    /\ WellFormed(a) /\ Len(a.blocks) * Block <= MaxArchive
    /\ Portable(a.members) /\ WithinLimits(a.members)

Entry == [name : Name, kind : {"file", "dir"}, bytes : Nat]
Walking(a) == a \in Archives /\ pos \in Nat /\ entries \in Seq(Entry) /\ bytes = a.blocks

\* Where the walk is: how many members it has found, and the block it looks at.
LEMMA WalkFacts ==
    ASSUME NEW a \in Archives, Walking(a), Found(a)
    PROVE  LET n == Len(a.members)  m == Len(entries)
           IN  /\ m \in 0..n /\ n \in Nat /\ m \in Nat
               /\ \A i \in 1..m : entries[i].bytes = HeadAt(a, i).size
               /\ Rest <=> pos + 1 \in 1..Len(a.blocks) /\ (pos + 1) * Block <= MaxArchive
               /\ More <=> Rest /\ Current.whole
               /\ Len(bytes) = Len(a.blocks) /\ Current = a.blocks[pos + 1]
<1>1. Len(a.members) \in Nat /\ Len(entries) \in 0..Len(a.members) /\ Len(entries) \in Nat
  <2>1. Len(entries) \in Nat /\ Len(a.members) \in Nat
    BY Layout DEF Walking
  <2>2. QED BY <2>1 DEF Found
<1>2. \A i \in 1..Len(entries) : entries[i].bytes = HeadAt(a, i).size
  <2> TAKE i \in 1..Len(entries)
  <2>1. i \in 1..Len(a.members) /\ a.members \in Seq(Member)
    BY <1>1, Layout
  <2>2. entries[i] = [name |-> a.members[i].name, kind |-> a.members[i].kind,
                      bytes |-> Len(a.members[i].content)]
    BY <2>1, ListingFacts DEF Found
  <2>3. QED BY <2>1, <2>2, Layout
<1>3. Len(a.blocks) \in Nat /\ pos \in Nat /\ bytes = a.blocks
  BY Layout DEF Walking
<1>4. Rest <=> pos + 1 \in 1..Len(a.blocks) /\ (pos + 1) * Block <= MaxArchive
  BY <1>3 DEF Rest
<1>5. QED BY <1>1, <1>2, <1>3, <1>4 DEF Current, More

\* A whole block is consumed, or one behind the two that end the archive.
LEMMA OneMoreWhole ==
    ASSUME NEW a \in Archives, Walking(a), Found(a), WholeBefore(a), Rest, pos' = pos + 1,
           Current.whole \/ pos >= End(a) + 1
    PROVE  WholeBefore(a)'
<1>1. Current = a.blocks[pos + 1] /\ pos \in Nat /\ End(a) \in Nat
  BY WalkFacts, Layout DEF Walking, End
<1>2. \A j \in 1..(pos + 1) : j \in 1..pos \/ j = pos + 1
  BY <1>1
<1>3. \A j \in 1..(pos + 1) : j <= End(a) + 1 => a.blocks[j].whole
  BY <1>1, <1>2 DEF WholeBefore
<1>4. QED BY <1>3 DEF WholeBefore

\* A header is read: it is that of the next member.
LEMMA HeaderRead ==
    ASSUME NEW a \in Archives, Walking(a), Found(a), BeforeHeader(a), More, Current.header
    PROVE  LET i == Len(entries) + 1
           IN  /\ i \in 1..Len(a.members) /\ Current = HeadAt(a, i) /\ pos + 1 = a.starts[i]
               /\ [name |-> HeaderName(Current), kind |-> Current.kind, bytes |-> Current.size]
                    = Listing(a.members)[i]
<1> DEFINE i == Len(entries) + 1
<1>1. /\ i \in 1..(Len(a.members) + 1) /\ pos + 1 = a.starts[i]
      /\ pos + 1 \in 1..Len(a.blocks) /\ Current = a.blocks[pos + 1]
  BY WalkFacts DEF BeforeHeader
<1>2. i # Len(a.members) + 1
  <2> SUFFICES ASSUME i = Len(a.members) + 1 PROVE FALSE
    OBVIOUS
  <2>1. pos + 1 = End(a)
    BY <1>1 DEF End
  <2>2. pos + 1 \in End(a)..Len(a.blocks)
    BY <1>1, <2>1
  <2>3. QED BY <1>1, <2>2, Layout
<1>3. i \in 1..Len(a.members)
  <2> HIDE DEF i
  <2>1. Len(a.members) \in Nat
    BY Layout
  <2>2. QED BY <1>1, <1>2, <2>1
<1> HIDE DEF i
<1>4. Current = HeadAt(a, i)
  BY <1>1 DEF HeadAt
<1>5. /\ HeaderName(HeadAt(a, i)) = a.members[i].name /\ HeadAt(a, i).kind = a.members[i].kind
      /\ HeadAt(a, i).size = Len(a.members[i].content)
  BY <1>3, Layout
<1>6. Listing(a.members)[i] = [name |-> a.members[i].name, kind |-> a.members[i].kind,
                               bytes |-> Len(a.members[i].content)]
  BY <1>3, Layout, ListingFacts
<1>7. QED BY <1>1, <1>3, <1>4, <1>5, <1>6 DEF i

\* A header is read: one more member is found, and the walk is in its data or behind it.
LEMMA MemberRead ==
    ASSUME NEW a \in Archives, Walking(a), Found(a), WalkAt(a), ReadMember
    PROVE  Found(a)' /\ WalkAt(a)'
<1> DEFINE m == Len(entries)
           i == m + 1
           size == Current.size
<1>1. walk = "header" /\ More /\ HeaderAdmitted(Current) /\ BeforeHeader(a) /\ Current.header
  BY DEF ReadMember, WalkAt, HeaderAdmitted
<1>2. /\ i \in 1..Len(a.members) /\ Current = HeadAt(a, i) /\ pos + 1 = a.starts[i]
      /\ [name |-> HeaderName(Current), kind |-> Current.kind, bytes |-> size]
           = Listing(a.members)[i]
  BY <1>1, HeaderRead
<1>3. m \in Nat /\ pos \in Nat /\ Len(a.members) \in Nat
  BY WalkFacts DEF Walking
<1>4. /\ size \in Nat /\ Padded(size) \in Nat
      /\ a.starts[i + 1] = a.starts[i] + 1 + Padded(size)
  <2> HIDE DEF m
  <2>1. QED BY <1>2, Layout
<1>5. /\ Len(entries') = i
      /\ entries'[i] = Listing(a.members)[i]
      /\ \A j \in 1..m : entries'[j] = entries[j]
  <2>1. entries' = Append(entries, Listing(a.members)[i]) /\ entries \in Seq(Entry)
    BY <1>2 DEF ReadMember, Walking
  <2>2. QED BY <2>1
<1>6. /\ pos' = pos + 1 /\ left' = Padded(size) /\ bytes' = bytes
      /\ walk' = IF size = 0 THEN "header" ELSE "data"
  BY DEF ReadMember, Consume
<1>7. SoundHead(a, i)
  BY <1>1, <1>2 DEF HeaderAdmitted, SoundHead
<1> HIDE DEF m, i, size
<1>8. Found(a)'
  <2>1. 1..i = 1..m \cup {i}
    BY <1>3 DEF i
  <2>2. \A j \in 1..i : entries'[j] = Listing(a.members)[j] /\ SoundHead(a, j)
    BY <1>5, <1>7, <2>1 DEF Found, m
  <2>3. i <= Len(a.members)
    BY <1>2
  <2>4. QED BY <1>5, <2>2, <2>3 DEF Found
<1>9. pos' <= Len(a.blocks) /\ pos' * Block <= MaxArchive /\ WholeBefore(a)'
  BY <1>1, <1>6, WalkFacts, OneMoreWhole DEF WalkAt
<1>10. \A j \in 1..m : CleanTail(a, j)
  BY <1>1 DEF BeforeHeader, m
<1>11. CASE size = 0
  <2>1. CleanTail(a, i)
    BY <1>2, <1>11, CleanNoData DEF size
  <2>2. 1..i = 1..m \cup {i}
    BY <1>3 DEF i
  <2>3. \A j \in 1..i : CleanTail(a, j)
    BY <1>10, <2>1, <2>2
  <2>4. pos' + 1 = a.starts[i + 1]
    BY <1>2, <1>3, <1>4, <1>6, <1>11, PaddedNone
  <2>5. BeforeHeader(a)'
    BY <1>5, <2>3, <2>4 DEF BeforeHeader
  <2>6. QED BY <1>6, <1>8, <1>9, <1>11, <2>5 DEF WalkAt
<1>12. CASE size # 0
  <2>1. Padded(size) \in Nat \ {0}
    BY <1>4, <1>12, PaddedBlocks
  <2>2. pos' + left' = a.starts[i] + Padded(size)
    BY <1>2, <1>6
  <2>3. i - 1 = m /\ i # 0
    BY <1>3 DEF i
  <2>4. HeadAt(a, i).size = size
    BY <1>2 DEF size
  <2>5. WithinData(a)'
    BY <1>5, <1>6, <1>10, <1>12, <2>1, <2>2, <2>3, <2>4 DEF WithinData
  <2>6. QED BY <1>6, <1>8, <1>9, <1>12, <2>5 DEF WalkAt
<1>13. QED BY <1>11, <1>12

\* Within data the current block is one of the current member's.
LEMMA InData ==
    ASSUME NEW a \in Archives, Walking(a), Found(a), WithinData(a), More
    PROVE  LET i == Len(entries)
           IN  /\ i \in 1..Len(a.members) /\ left \in Nat \ {0}
               /\ pos + left = a.starts[i] + Padded(HeadAt(a, i).size)
               /\ a.starts[i + 1] = pos + left + 1
               /\ Last(entries).bytes = HeadAt(a, i).size
               /\ left = 1 => (PaddingClean <=> CleanTail(a, i))
               /\ left # 1 => PaddingClean
<1> DEFINE i == Len(entries)
           size == HeadAt(a, i).size
<1>1. /\ i \in 1..Len(a.members) /\ left \in Nat \ {0} /\ size # 0
      /\ pos + left = a.starts[i] + Padded(size)
  BY WalkFacts DEF WithinData
<1>2. /\ pos + 1 \in 1..Len(a.blocks) /\ Current = a.blocks[pos + 1]
      /\ DOMAIN a.blocks = 1..Len(a.blocks)
  BY WalkFacts, Layout
<1>3. Last(entries).bytes = size
  BY <1>1, WalkFacts DEF Last
<1>4. a.starts[i + 1] = pos + left + 1
  <2>1. /\ a.starts[i + 1] = a.starts[i] + 1 + Padded(size)
        /\ a.starts[i] \in Nat /\ Padded(size) \in Nat /\ pos \in Nat
    <3> HIDE DEF i
    <3>1. QED BY <1>1, Layout DEF Walking
  <2> HIDE DEF i, size
  <2>2. QED BY <1>1, <2>1
<1>5. ASSUME left = 1 PROVE PaddingClean <=> CleanTail(a, i)
  <2>1. a.starts[i] + Padded(size) = pos + 1
    BY <1>1, <1>5
  <2>2. a.starts[i] + Padded(size) \in DOMAIN a.blocks
    BY <1>2, <2>1
  <2> HIDE DEF i
  <2>3. CleanTail(a, i) <=> (size % Block # 0 =>
            \A x \in ((size % Block) + 1)..Block : DataBytes(Current)[x] = "zero")
    BY <1>1, <1>2, <2>1, <2>2, CleanLastBlock
  <2>4. PaddingClean <=> (left = 1 /\ Last(entries).bytes % Block # 0 =>
            \A x \in ((Last(entries).bytes % Block) + 1)..Block : DataBytes(Current)[x] = "zero")
    BY DEF PaddingClean
  <2> HIDE DEF size
  <2>5. PaddingClean <=> (size % Block # 0 =>
            \A x \in ((size % Block) + 1)..Block : DataBytes(Current)[x] = "zero")
    BY ONLY <1>3, <1>5, <2>4
  <2>6. QED BY <2>3, <2>5
<1>6. left # 1 => PaddingClean
  BY DEF PaddingClean
<1>7. QED BY <1>1, <1>3, <1>4, <1>5, <1>6

\* A block of data is read: the walk stays in the data, or has come to its end.
LEMMA DataRead ==
    ASSUME NEW a \in Archives, Walking(a), Found(a), WalkAt(a), ReadData
    PROVE  Found(a)' /\ WalkAt(a)'
<1> DEFINE i == Len(entries)
<1>1. WithinData(a) /\ More /\ PaddingClean /\ pos \in Nat
  BY DEF ReadData, WalkAt, Walking
<1>2. /\ i \in 1..Len(a.members) /\ left \in Nat \ {0}
      /\ pos + left = a.starts[i] + Padded(HeadAt(a, i).size)
      /\ a.starts[i + 1] = pos + left + 1
      /\ left = 1 => CleanTail(a, i)
  BY <1>1, InData
<1>3. /\ pos' = pos + 1 /\ left' = left - 1 /\ entries' = entries
      /\ walk' = IF left = 1 THEN "header" ELSE "data"
  BY DEF ReadData, Consume
<1>4. Found(a)'
  BY <1>3 DEF Found
<1>5. pos' <= Len(a.blocks) /\ pos' * Block <= MaxArchive /\ WholeBefore(a)'
  BY <1>1, <1>3, WalkFacts, OneMoreWhole DEF WalkAt
<1>6. \A j \in 1..(i - 1) : CleanTail(a, j)
  BY <1>1 DEF WithinData
<1>7. CASE left = 1
  <2>1. 1..i = 1..(i - 1) \cup {i}
    BY <1>2
  <2>2. \A j \in 1..i : CleanTail(a, j)
    BY <1>2, <1>6, <1>7, <2>1
  <2>3. BeforeHeader(a)'
    BY <1>1, <1>2, <1>3, <1>7, <2>2 DEF BeforeHeader
  <2>4. QED BY <1>3, <1>4, <1>5, <1>7, <2>3 DEF WalkAt
<1>8. CASE left # 1
  <2>1. left' \in Nat \ {0} /\ pos' + left' = pos + left
    BY <1>1, <1>2, <1>3, <1>8
  <2>2. WithinData(a)'
    BY <1>1, <1>2, <1>3, <2>1 DEF WithinData
  <2>3. QED BY <1>3, <1>4, <1>5, <1>8, <2>2 DEF WalkAt
<1>9. QED BY <1>7, <1>8

\* A block of zeros is read: all members have been found.
LEMMA ZeroRead ==
    ASSUME NEW a \in Archives, Walking(a), Found(a), WalkAt(a), ReadZero
    PROVE  Found(a)' /\ WalkAt(a)'
<1>1. /\ Rest /\ IsZero(Current) /\ pos' = pos + 1 /\ UNCHANGED <<left, entries>>
      /\ Current.whole \/ pos >= End(a) + 1
      /\ \/ walk = "header" /\ walk' = "second"
         \/ walk \in {"second", "padding"} /\ walk' = "padding"
  BY DEF ReadZero, Consume, More, WalkAt
<1>2. /\ pos + 1 \in 1..Len(a.blocks) /\ Current = a.blocks[pos + 1] /\ pos \in Nat
      /\ pos' <= Len(a.blocks) /\ pos' * Block <= MaxArchive /\ WholeBefore(a)'
  BY <1>1, WalkFacts, OneMoreWhole DEF Walking, WalkAt
<1>3. Found(a)'
  BY <1>1 DEF Found
<1>4. End(a) \in Nat
  BY Layout DEF End
<1>5. CASE walk = "header"
  <2>1. BeforeHeader(a)
    BY <1>5 DEF WalkAt
  <2>2. Len(entries) = Len(a.members)
    <3> SUFFICES ASSUME Len(entries) # Len(a.members) PROVE FALSE
      OBVIOUS
    <3>1. Len(entries) + 1 \in 1..Len(a.members)
      BY WalkFacts
    <3>2. Current = HeadAt(a, Len(entries) + 1)
      BY <1>2, <2>1 DEF BeforeHeader, HeadAt
    <3>3. Current.header
      BY <3>1, <3>2, Layout
    <3>4. QED BY <1>1, <3>3, HeaderNotZero
  <2>3. pos + 1 = End(a)
    BY <2>1, <2>2 DEF BeforeHeader, End
  <2>4. \A j \in End(a)..pos' : IsZero(a.blocks[j])
    BY <1>1, <1>2, <2>3
  <2>5. BehindAll(a)' /\ pos' = End(a)
    BY <1>1, <2>1, <2>2, <2>3, <2>4 DEF BehindAll, BeforeHeader
  <2>6. QED BY <1>1, <1>2, <1>3, <1>5, <2>5 DEF WalkAt
<1>6. CASE walk # "header"
  <2>1. BehindAll(a) /\ pos >= End(a)
    <3>1. walk \in {"second", "padding"}
      BY <1>1, <1>6
    <3>2. BehindAll(a) /\ (pos = End(a) \/ pos >= End(a) + 1)
      BY <3>1 DEF WalkAt
    <3>3. QED BY <1>2, <1>4, <3>2
  <2>2. \A j \in End(a)..pos' : j \in End(a)..pos \/ j = pos + 1
    BY <1>1, <1>2, <1>4
  <2>3. \A j \in End(a)..pos' : IsZero(a.blocks[j])
    BY <1>1, <1>2, <2>1, <2>2 DEF BehindAll
  <2>4. BehindAll(a)' /\ pos' >= End(a) + 1
    BY <1>1, <1>2, <1>4, <2>1, <2>3 DEF BehindAll
  <2>5. QED BY <1>1, <1>2, <1>3, <1>6, <2>4 DEF WalkAt
<1>7. QED BY <1>5, <1>6

\* Behind all members: the list is that of the members, and what is still asked of it is
\* what makes the archive good.
LEMMA AllListed ==
    ASSUME NEW a \in Archives, Walking(a), Found(a), BehindAll(a)
    PROVE  /\ entries = Listing(a.members)
           /\ \A i \in 1..Len(a.members) : SoundHead(a, i) /\ CleanTail(a, i)
           /\ ValidateInventory(entries).ok <=> Portable(a.members) /\ WithinLimits(a.members)
           /\ ValidateInventory(entries).ok =>
                ValidateInventory(entries).total = Total(Listing(a.members))
<1> DEFINE ms == a.members
           list == Listing(ms)
<1>1. ms \in Seq(Member) /\ list \in Seq(Listed) /\ Len(list) = Len(ms)
  BY Layout, ListingFacts
<1>2. \A i \in 1..Len(ms) : SoundHead(a, i) /\ CleanTail(a, i)
  BY DEF Found, BehindAll
<1>3. entries \in Seq(Entry) /\ Len(entries) = Len(list)
      /\ \A i \in 1..Len(entries) : entries[i] = list[i]
  BY <1>1 DEF Found, BehindAll, Walking
<1>4. entries = list
  <2> HIDE DEF list
  <2>1. QED BY <1>1, <1>3
<1>5. \A i \in 1..Len(ms) : ms[i].kind = "dir" => Len(ms[i].content) = 0
  <2> TAKE i \in 1..Len(ms)
  <2>1. HeadAt(a, i).kind = ms[i].kind /\ HeadAt(a, i).size = Len(ms[i].content)
    BY Layout
  <2>2. QED BY <1>2, <2>1 DEF SoundHead
<1>6. Acceptable(list) <=> Portable(ms) /\ WithinLimits(ms)
  BY <1>1, <1>5, AcceptableMembers
<1>7. /\ ValidateInventory(list).ok <=> Acceptable(list)
      /\ ValidateInventory(list).ok => ValidateInventory(list).total = Total(list)
  BY <1>1, InventoryDecides
<1>8. QED BY <1>2, <1>4, <1>6, <1>7

\* The end is read: the walk accepts what is good, and nothing else.
LEMMA EndRead ==
    ASSUME NEW a \in Archives, Walking(a), Found(a), WalkAt(a), ReadEnd
    PROVE  /\ walk' # "refused" => Found(a)' /\ WalkAt(a)'
           /\ walk' = "refused" => ~Good(a)
<1>1. /\ walk = "padding" /\ pos = Len(a.blocks) /\ UNCHANGED <<pos, left, entries>>
      /\ walk' = IF ValidateInventory(entries).ok THEN "accepted" ELSE "refused"
  BY DEF ReadEnd, Walking
<1>2. BehindAll(a) /\ pos >= End(a) + 1
  BY <1>1 DEF WalkAt
<1>3. ValidateInventory(entries).ok <=> Portable(a.members) /\ WithinLimits(a.members)
  BY <1>2, AllListed
<1>4. CASE ValidateInventory(entries).ok
  <2>1. Found(a)' /\ BehindAll(a)'
    BY <1>1, <1>2 DEF Found, BehindAll
  <2>2. /\ walk' = "accepted" /\ pos' = pos /\ entries' = entries
        /\ pos <= Len(a.blocks) /\ pos * Block <= MaxArchive /\ WholeBefore(a)'
    BY <1>1, <1>4 DEF WalkAt, WholeBefore
  <2>3. WalkAt(a)'
    BY <1>1, <1>2, <1>4, <2>1, <2>2 DEF WalkAt
  <2>4. QED BY <2>1, <2>2, <2>3
<1>5. CASE ~ValidateInventory(entries).ok
  BY <1>1, <1>3, <1>5 DEF Good
<1>6. QED BY <1>4, <1>5

\* A good archive is not refused anywhere.
LEMMA GoodHeader ==
    ASSUME NEW a \in Archives, Walking(a), Found(a), BeforeHeader(a), Good(a),
           More, ~IsZero(Current)
    PROVE  HeaderAdmitted(Current)
<1> DEFINE m == Len(entries)
           i == m + 1
           ms == a.members
<1>1. /\ m \in 0..Len(ms) /\ m \in Nat /\ Len(ms) \in Nat /\ Current = HeadAt(a, i)
      /\ pos + 1 = a.starts[i] /\ pos + 1 \in 1..Len(a.blocks)
  BY WalkFacts DEF BeforeHeader, HeadAt
<1>2. i \in 1..Len(ms)
  <2> SUFFICES ASSUME m = Len(ms) PROVE FALSE
    BY <1>1
  <2>1. pos + 1 = End(a)
    BY <1>1 DEF End
  <2>2. IsZero(a.blocks[End(a)])
    <3>1. End(a) \in End(a)..Len(a.blocks)
      BY <1>1, <2>1, Layout DEF Walking
    <3>2. WellFormed(a)
      BY DEF Good
    <3>3. QED BY <3>1, <3>2, WellFormedParts
  <2>3. QED BY <1>1, <2>1, <2>2, WalkFacts
<1>3. /\ Current.header /\ HeaderName(Current) = ms[i].name /\ Current.kind = ms[i].kind
      /\ Current.size = Len(ms[i].content) /\ Current.sound
      /\ Current.kind = "dir" => Current.size = 0
      /\ DOMAIN ms = 1..Len(ms) /\ ms \in Seq(Member)
  <2> HIDE DEF i
  <2>1. SoundHead(a, i)
    BY <1>2, WellFormedParts DEF Good
  <2>2. QED BY <1>1, <1>2, <2>1, Layout DEF SoundHead
<1>4. /\ Len(ms) <= MaxEntries /\ Current.size <= MaxEntryBytes
      /\ Current.kind \in {"file", "dir"} /\ SafePath(HeaderName(Current))
  <2> HIDE DEF i
  <2>1. /\ Len(ms) <= MaxEntries /\ Len(ms[i].content) <= MaxEntryBytes
        /\ PathBytes(ms[i].name) <= MaxPath
    BY <1>2, <1>3 DEF Good, WithinLimits
  <2>2. /\ ms[i].kind \in {"file", "dir"}
        /\ \A k \in DOMAIN ms[i].name : ms[i].name[k].fold \notin UnsafePart
    BY <1>2, <1>3 DEF Good, Portable
  <2>3. QED BY <1>3, <2>1, <2>2 DEF SafePath
<1>5. m < MaxEntries
  <2> HIDE DEF m
  <2>1. MaxEntries \in Nat /\ m < Len(ms)
    BY <1>1, <1>2, LimitAssumption
  <2>2. QED BY <1>1, <1>4, <2>1
<1>6. Total(entries) + Current.size <= MaxTotal
  <2> DEFINE list == Listing(ms)
  <2>1. /\ list \in Seq(Listed) /\ Len(list) = Len(ms)
        /\ list[i].bytes = Len(ms[i].content)
    <3> HIDE DEF i
    <3>1. /\ list \in Seq(Listed) /\ Len(list) = Len(ms)
          /\ list[i] = [name |-> ms[i].name, kind |-> ms[i].kind, bytes |-> Len(ms[i].content)]
      BY <1>2, <1>3, ListingFacts
    <3> HIDE DEF list
    <3>2. QED BY <3>1
  <2>2. PICK t : /\ t[0] = 0 /\ Total(list) = t[Len(list)]
                 /\ \A k \in 0..(Len(list) - 1) : t[k + 1] = t[k] + list[k + 1].bytes
                 /\ \A k \in 0..Len(list) : t[k] \in Nat
    BY <2>1, TotalTrace
  <2> HIDE DEF list
  <2>3. Total(entries) = t[m]
    <3>1. \A k \in 0..(m - 1) : t[k + 1] = AddBytes(t[k], entries[k + 1])
      <4>1. ASSUME NEW k \in 0..(m - 1) PROVE t[k + 1] = AddBytes(t[k], entries[k + 1])
        <5>1. k + 1 \in 1..m /\ k \in 0..(Len(list) - 1)
          BY <1>1, <2>1
        <5>2. entries[k + 1] = list[k + 1]
          BY <5>1 DEF Found, list
        <5>3. QED BY <2>2, <5>1, <5>2 DEF AddBytes
      <4>2. QED BY <4>1
    <3>2. entries \in Seq(Entry)
      BY DEF Walking
    <3>3. Added!Folded(entries) = t[m]
      BY <2>2, <3>1, <3>2, Added!FoldIs
    <3>4. QED
      BY <3>3 DEF Total, Added!Folded, Added!FoldLeft, FoldLeft, Added!MapThenFoldSet,
                  MapThenFoldSet, Added!Max, Max
  <2>4. t[i] = t[m] + Current.size
    <3>1. m \in 0..(Len(list) - 1) /\ i = m + 1
      BY <1>1, <1>2, <2>1
    <3>2. t[m + 1] = t[m] + list[m + 1].bytes
      BY <2>2, <3>1
    <3>3. list[i].bytes = Current.size
      BY <1>3, <2>1
    <3> HIDE DEF i, m
    <3>4. QED BY ONLY <3>1, <3>2, <3>3, Zenon
  <2>5. t[i] <= t[Len(list)]
    <3>1. i \in 0..Len(list)
      BY <1>1, <1>2, <2>1
    <3> HIDE DEF i
    <3>2. QED BY <2>1, <2>2, <3>1, TotalTraceGrows
  <2>6. Total(list) <= MaxTotal
    BY DEF Good, WithinLimits, list
  <2>7. t[i] \in Nat /\ t[Len(list)] \in Nat /\ MaxTotal \in Nat
    BY <1>1, <1>2, <2>1, <2>2, LimitAssumption
  <2> HIDE DEF i, m
  <2>8. QED BY <2>2, <2>3, <2>4, <2>5, <2>6, <2>7
<1>7. QED BY <1>3, <1>4, <1>5, <1>6 DEF HeaderAdmitted

\* No block of a good archive is refused.
LEMMA GoodGoesOn ==
    ASSUME NEW a \in Archives, Walking(a), Found(a), WalkAt(a), Good(a)
    PROVE  ~BlockRefused
<1> DEFINE m == Len(entries)
<1>1. /\ WellFormed(a) /\ Len(a.blocks) * Block <= MaxArchive
      /\ End(a) + 1 <= Len(a.blocks) /\ End(a) \in Nat /\ Len(a.blocks) \in Nat
      /\ pos \in Nat /\ Len(bytes) = Len(a.blocks)
  <2>1. End(a) \in Nat /\ Len(a.blocks) \in Nat /\ pos \in Nat /\ bytes = a.blocks
    BY Layout DEF End, Walking
  <2>2. QED BY <2>1, WellFormedParts DEF Good
<1>2. pos < Len(a.blocks) => Rest
  <2> SUFFICES ASSUME pos < Len(a.blocks) PROVE Rest
    OBVIOUS
  <2>1. Block \in Nat /\ pos + 1 \in Nat /\ pos + 1 <= Len(a.blocks)
    BY <1>1, BlockAssumption
  <2>2. (pos + 1) * Block <= Len(a.blocks) * Block
    BY <1>1, <2>1, Times
  <2>3. (pos + 1) * Block \in Nat /\ Len(a.blocks) * Block \in Nat /\ MaxArchive \in Nat
    BY <1>1, <2>1, Times, BlockAssumption
  <2>4. (pos + 1) * Block <= MaxArchive
    BY <1>1, <2>2, <2>3
  <2>5. QED BY <1>1, <2>4 DEF Rest
<1>2a. pos < Len(a.blocks) /\ pos <= End(a) => More
  <2> SUFFICES ASSUME pos < Len(a.blocks), pos <= End(a) PROVE More
    OBVIOUS
  <2>1. pos + 1 \in 1..Len(a.blocks) /\ pos + 1 <= End(a) + 1
    BY <1>1
  <2>2. a.blocks[pos + 1].whole
    BY <1>1, <2>1, WellFormedParts
  <2>3. QED BY <1>2, <2>2, WalkFacts DEF More
<1>3. walk = "header" => pos < Len(a.blocks) /\ pos <= End(a)
  <2> SUFFICES ASSUME walk = "header" PROVE pos < Len(a.blocks) /\ pos <= End(a)
    OBVIOUS
  <2>1. pos + 1 = a.starts[m + 1] /\ m + 1 \in 1..(Len(a.members) + 1)
    BY WalkFacts DEF WalkAt, BeforeHeader
  <2> HIDE DEF m
  <2>2. pos + 1 <= End(a)
    BY <2>1, StartsGrow
  <2>3. QED BY <1>1, <2>2
<1>4. walk = "data" => pos < Len(a.blocks) /\ pos <= End(a)
  <2> SUFFICES ASSUME walk = "data" PROVE pos < Len(a.blocks) /\ pos <= End(a)
    OBVIOUS
  <2>1. WithinData(a) /\ m \in 1..Len(a.members)
    BY WalkFacts DEF WalkAt, WithinData
  <2>2. /\ pos + left = a.starts[m] + Padded(HeadAt(a, m).size) /\ left \in Nat \ {0}
    BY <2>1 DEF WithinData
  <2> HIDE DEF m
  <2>3. /\ a.starts[m + 1] = a.starts[m] + 1 + Padded(HeadAt(a, m).size)
        /\ a.starts[m] \in Nat /\ Padded(HeadAt(a, m).size) \in Nat
        /\ m + 1 \in 1..(Len(a.members) + 1)
    BY <2>1, Layout
  <2>4. a.starts[m + 1] <= End(a)
    BY <2>3, StartsGrow
  <2>5. QED BY <1>1, <2>2, <2>3, <2>4
<1>5. walk = "second" => pos < Len(a.blocks) /\ pos <= End(a)
  BY <1>1 DEF WalkAt
<1>6. walk = "header" /\ More /\ ~IsZero(Current) => HeaderAdmitted(Current)
  BY GoodHeader DEF WalkAt
<1>7. walk = "data" /\ More => PaddingClean
  <2> SUFFICES ASSUME walk = "data", More PROVE PaddingClean
    OBVIOUS
  <2>1. WithinData(a)
    BY DEF WalkAt
  <2>2. m \in 1..Len(a.members) /\ (left = 1 => (PaddingClean <=> CleanTail(a, m)))
        /\ (left # 1 => PaddingClean)
    BY <2>1, InData
  <2> HIDE DEF m
  <2>3. QED BY <1>1, <2>2, WellFormedParts
<1>8. walk \in {"second", "padding"} /\ Rest => IsZero(Current)
  <2> SUFFICES ASSUME walk \in {"second", "padding"}, Rest PROVE IsZero(Current)
    OBVIOUS
  <2>1. pos = End(a) \/ pos >= End(a) + 1
    BY DEF WalkAt
  <2>2. pos + 1 \in End(a)..Len(a.blocks) /\ Current = a.blocks[pos + 1]
    <3>1. pos + 1 \in 1..Len(a.blocks) /\ Current = a.blocks[pos + 1]
      BY WalkFacts
    <3>2. QED BY <1>1, <2>1, <3>1
  <2>3. QED BY <1>1, <2>2, WellFormedParts
<1>9. QED
  BY <1>1, <1>2, <1>2a, <1>3, <1>4, <1>5, <1>6, <1>7, <1>8 DEF BlockRefused, More

\* The archive of a walk that ended in acceptance is good.
LEMMA AcceptedGood ==
    ASSUME NEW a \in Archives, Walking(a), Found(a), WalkAt(a), walk = "accepted"
    PROVE  Good(a) /\ entries = Listing(a.members)
<1>1. /\ BehindAll(a) /\ pos >= End(a) + 1 /\ pos = Len(a.blocks)
      /\ ValidateInventory(entries).ok /\ pos * Block <= MaxArchive /\ WholeBefore(a)
  BY DEF WalkAt
<1>2. WellFormed(a)
  <2>1. \A i \in 1..Len(a.members) : SoundHead(a, i) /\ CleanTail(a, i)
    BY <1>1, AllListed
  <2>2. \A j \in End(a)..Len(a.blocks) : IsZero(a.blocks[j])
    BY <1>1 DEF BehindAll
  <2>3. End(a) + 1 <= Len(a.blocks)
    BY <1>1, Layout DEF End
  <2>3a. \A j \in 1..Len(a.blocks) : j <= End(a) + 1 => a.blocks[j].whole
    BY <1>1 DEF WholeBefore
  <2>4. QED BY <2>1, <2>2, <2>3, <2>3a, WellFormedParts
<1>3. QED BY <1>1, <1>2, AllListed DEF Good

-----------------------------------------------------------------------------
(* Where the data of a member is *)

NothingPlaced == [offset |-> 0, files |-> <<>>]
Placed == INSTANCE FoldsOver WITH Op <- Place, Base <- NothingPlaced

\* The names of the files among the first k members, and the bytes each has.
FileNames(ms, k) == {ms[i].name : i \in {j \in 1..k : ms[j].kind = "file"}}

InPlace(map, a, k) ==
    /\ DOMAIN map = FileNames(a.members, k)
    /\ \A i \in 1..k : a.members[i].kind = "file" =>
         map[a.members[i].name] =
             <<a.starts[i] * Block, a.starts[i] * Block + Len(a.members[i].content)>>

\* What the proofs use of a good archive.
LEMMA GoodFacts ==
    ASSUME NEW a \in Archives, Good(a)
    PROVE  /\ \A i, j \in 1..Len(a.members) : a.members[i].name = a.members[j].name => i = j
           /\ \A i \in 1..Len(a.members) : a.members[i].kind \in {"file", "dir"}
           /\ \A i \in 1..Len(a.members) :
                a.members[i].kind = "dir" => a.members[i].content = <<>>
           /\ End(a) \in Nat \ {0} /\ End(a) + 1 <= Len(a.blocks) /\ Len(a.blocks) \in Nat
<1> DEFINE ms == a.members
<1>1. DOMAIN ms = 1..Len(ms) /\ ms \in Seq(Member)
  BY Layout
<1>2. \A i, j \in 1..Len(ms) : ms[i].name = ms[j].name => i = j
  BY <1>1 DEF Good, Portable
<1>3. \A i \in 1..Len(ms) : ms[i].kind \in {"file", "dir"}
  BY <1>1 DEF Good, Portable
<1>4. ASSUME NEW i \in 1..Len(ms), ms[i].kind = "dir" PROVE ms[i].content = <<>>
  <2>1. SoundHead(a, i) /\ HeadAt(a, i).kind = ms[i].kind /\ HeadAt(a, i).size = Len(ms[i].content)
    BY Layout, WellFormedParts DEF Good
  <2>2. Len(ms[i].content) = 0
    BY <1>4, <2>1 DEF SoundHead
  <2>3. ms[i] \in Member
    BY <1>1
  <2>4. ms[i].content \in Seq(STRING)
    BY <2>3 DEF Member
  <2>5. QED BY <2>2, <2>4, EmptySeq
<1>5. End(a) \in Nat \ {0} /\ End(a) + 1 <= Len(a.blocks) /\ Len(a.blocks) \in Nat
  <2>1. End(a) \in Nat \ {0} /\ Len(a.blocks) \in Nat
    BY Layout DEF End
  <2>2. End(a) + 1 <= Len(a.blocks)
    BY WellFormedParts DEF Good
  <2>3. QED BY <2>1, <2>2
<1>6. QED BY <1>2, <1>3, <1>4, <1>5

\* One more member is placed behind the others.
LEMMA OnePlaced ==
    ASSUME NEW a \in Archives, Good(a), NEW i \in 1..Len(a.members), NEW placed,
           placed.offset = (a.starts[i] - 1) * Block, InPlace(placed.files, a, i - 1)
    PROVE  LET next == Place(placed, Listing(a.members)[i])
           IN  next.offset = (a.starts[i + 1] - 1) * Block /\ InPlace(next.files, a, i)
<1> DEFINE ms == a.members
           e == Listing(ms)[i]
           size == Len(ms[i].content)
           start == a.starts[i] * Block
           next == Place(placed, e)
<1>1. /\ e = [name |-> ms[i].name, kind |-> ms[i].kind, bytes |-> size]
      /\ size \in Nat /\ ms \in Seq(Member)
  BY Layout, ListingFacts
<1>1a. e.name = ms[i].name /\ e.kind = ms[i].kind /\ e.bytes = size
  <2> HIDE DEF e, size
  <2>1. QED BY <1>1
<1>2. /\ a.starts[i] \in Nat \ {0} /\ a.starts[i + 1] \in Nat \ {0} /\ Padded(size) \in Nat
      /\ a.starts[i + 1] = a.starts[i] + 1 + Padded(size) /\ i \in Nat /\ Block \in Nat
  <2>1. /\ a.starts[i] \in Nat \ {0} /\ a.starts[i + 1] \in Nat \ {0}
        /\ HeadAt(a, i).size = size /\ Padded(HeadAt(a, i).size) \in Nat
        /\ a.starts[i + 1] = a.starts[i] + 1 + Padded(HeadAt(a, i).size)
    BY Layout
  <2>2. Block \in Nat /\ i \in Nat
    BY BlockAssumption
  <2> HIDE DEF size
  <2>3. a.starts[i + 1] = a.starts[i] + 1 + Padded(size) /\ Padded(size) \in Nat
    BY ONLY <2>1, Zenon
  <2>4. QED BY ONLY <2>1, <2>2, <2>3, Zenon
<1>3. placed.offset + Block = start
  <2>1. a.starts[i] - 1 \in Nat /\ (a.starts[i] - 1) + 1 = a.starts[i]
    <3> HIDE DEF size
    <3>1. PICK s \in Nat \ {0} : s = a.starts[i]
      BY <1>2
    <3>2. s - 1 \in Nat /\ (s - 1) + 1 = s
      OBVIOUS
    <3>3. QED BY ONLY <3>1, <3>2, Zenon
  <2>2. ((a.starts[i] - 1) + 1) * Block = (a.starts[i] - 1) * Block + Block
    BY <1>2, <2>1, Times
  <2>3. QED BY <2>1, <2>2
<1>4. next = [offset |-> AfterData(start, size),
              files |-> IF ms[i].kind = "file"
                        THEN Inserted(placed.files, ms[i].name, <<start, start + size>>)
                        ELSE placed.files]
  <2> HIDE DEF start, size, e
  <2>1. QED BY <1>1a, <1>3 DEF Place
<1>5. AfterData(start, size) = (a.starts[i + 1] - 1) * Block
  <2>1. a.starts[i + 1] - 1 = a.starts[i] + Padded(size)
    BY <1>2
  <2>2. (a.starts[i] + Padded(size)) * Block = a.starts[i] * Block + Padded(size) * Block
    <3> HIDE DEF size
    <3>1. a.starts[i] \in Nat /\ Padded(size) \in Nat /\ Block \in Nat
      BY <1>2
    <3>2. QED BY <3>1
  <2>3. QED BY <2>1, <2>2 DEF AfterData
<1>6. 1..i = 1..(i - 1) \cup {i} /\ i \notin 1..(i - 1)
  BY <1>2
<1>7. \A j \in 1..(i - 1) : ms[j].name # ms[i].name
  <2>1. \A j \in 1..(i - 1) : j \in 1..Len(ms) /\ j # i
    BY <1>2
  <2>2. QED BY <2>1, GoodFacts
<1>8. InPlace(next.files, a, i)
  <2> DEFINE map == next.files
  <2>1. CASE ms[i].kind = "file"
    <3>1. map = Inserted(placed.files, ms[i].name, <<start, start + size>>)
      BY <1>4, <2>1
    <3>2. /\ DOMAIN map = DOMAIN placed.files \cup {ms[i].name}
          /\ map[ms[i].name] = <<start, start + size>>
          /\ \A x \in DOMAIN placed.files : x # ms[i].name => map[x] = placed.files[x]
      <4> HIDE DEF map, start, size
      <4>1. QED BY <3>1 DEF Inserted
    <3> HIDE DEF map, next
    <3>3. FileNames(ms, i) = FileNames(ms, i - 1) \cup {ms[i].name}
      BY <1>6, <2>1 DEF FileNames
    <3>4. DOMAIN map = FileNames(ms, i)
      BY <3>2, <3>3 DEF InPlace
    <3>5. ASSUME NEW j \in 1..i, ms[j].kind = "file"
          PROVE  map[ms[j].name]
                   = <<a.starts[j] * Block, a.starts[j] * Block + Len(ms[j].content)>>
      <4>1. CASE j = i
        BY <3>2, <4>1
      <4>2. CASE j # i
        <5>1. j \in 1..(i - 1)
          BY <1>6, <4>2
        <5>2. ms[j].name \in DOMAIN placed.files
          BY <3>5, <5>1 DEF InPlace, FileNames
        <5>3. map[ms[j].name] = placed.files[ms[j].name]
          BY <1>7, <3>2, <5>1, <5>2
        <5>4. QED BY <3>5, <5>1, <5>3 DEF InPlace
      <4>3. QED BY <4>1, <4>2
    <3>6. QED BY <3>4, <3>5 DEF InPlace, map
  <2>2. CASE ms[i].kind # "file"
    <3>1. map = placed.files
      BY <1>4, <2>2
    <3>2. FileNames(ms, i) = FileNames(ms, i - 1)
      BY <1>6, <2>2 DEF FileNames
    <3> HIDE DEF map
    <3>3. InPlace(map, a, i)
      BY <1>6, <2>2, <3>1, <3>2 DEF InPlace
    <3>4. QED BY <3>3 DEF map
  <2>3. QED BY <2>1, <2>2
<1>9. next.offset = (a.starts[i + 1] - 1) * Block
  BY <1>4, <1>5
<1>10. QED BY <1>8, <1>9

\* All members placed: no offset is behind the archive, every file has its place.
LEMMA AllPlaced ==
    ASSUME NEW a \in Archives, Good(a)
    PROVE  LET placed == FoldLeft(Place, NothingPlaced, Listing(a.members))
           IN  /\ placed.offset <= Len(a.blocks) * Block
               /\ InPlace(placed.files, a, Len(a.members))
<1> DEFINE ms == a.members
           list == Listing(ms)
           placed == FoldLeft(Place, NothingPlaced, list)
<1>1. list \in Seq(Listed) /\ Len(list) = Len(ms) /\ Len(ms) \in Nat
  BY Layout, ListingFacts
<1>2. PICK g : /\ g[0] = NothingPlaced
               /\ \A k \in 0..(Len(list) - 1) : g[k + 1] = Place(g[k], list[k + 1])
               /\ Placed!Folded(list) = g[Len(list)]
  BY <1>1, Placed!FoldTrace
<1>3. Placed!Folded(list) = placed
  BY DEF Placed!Folded, Placed!FoldLeft, FoldLeft, Placed!MapThenFoldSet, MapThenFoldSet,
         Placed!Max, Max
<1> HIDE DEF placed
<1> DEFINE OK(k) == k <= Len(ms) => /\ g[k].offset = (a.starts[k + 1] - 1) * Block
                                    /\ InPlace(g[k].files, a, k)
           N == {k \in Nat : OK(k)}
<1>4. OK(0)
  <2>1. g[0].offset = 0 /\ g[0].files = <<>> /\ DOMAIN g[0].files = {}
    BY <1>2, EmptySeq DEF NothingPlaced
  <2>2. a.starts[1] - 1 = 0 /\ Block \in Nat /\ 0 * Block = 0 /\ 0 + 1 = 1
    BY Layout, BlockAssumption
  <2>3. FileNames(ms, 0) = {}
    BY DEF FileNames
  <2>4. InPlace(g[0].files, a, 0)
    BY <2>1, <2>3 DEF InPlace
  <2>5. QED BY <2>1, <2>2, <2>4
<1>5. ASSUME NEW k \in Nat, OK(k) PROVE OK(k + 1)
  <2> SUFFICES ASSUME k + 1 <= Len(ms)
               PROVE  /\ g[k + 1].offset = (a.starts[k + 1 + 1] - 1) * Block
                      /\ InPlace(g[k + 1].files, a, k + 1)
    OBVIOUS
  <2>1. k + 1 \in 1..Len(ms) /\ k <= Len(ms) /\ k \in 0..(Len(list) - 1) /\ (k + 1) - 1 = k
    BY <1>1
  <2>2. g[k].offset = (a.starts[k + 1] - 1) * Block /\ InPlace(g[k].files, a, (k + 1) - 1)
    BY <1>5, <2>1
  <2>3. g[k + 1] = Place(g[k], list[k + 1])
    BY <1>2, <2>1
  <2>4. QED BY <2>1, <2>2, <2>3, OnePlaced
<1> HIDE DEF OK
<1>6. \A k \in Nat : k \in N
  <2>1. 0 \in N /\ \A k \in Nat : k \in N => k + 1 \in N
    BY <1>4, <1>5
  <2> HIDE DEF N
  <2>2. QED BY <2>1, Placed!InductionOn
<1>7. OK(Len(ms))
  BY <1>1, <1>6
<1>8. placed.offset = (End(a) - 1) * Block /\ InPlace(placed.files, a, Len(ms))
  BY <1>1, <1>2, <1>3, <1>7 DEF OK, End
<1>9. (End(a) - 1) * Block <= Len(a.blocks) * Block
  <2>1. End(a) - 1 \in Nat /\ Len(a.blocks) \in Nat /\ End(a) - 1 <= Len(a.blocks)
    BY GoodFacts
  <2>2. QED BY <2>1, Times, BlockAssumption
<1>10. QED BY <1>8, <1>9 DEF placed

\* The bytes found there are those the producer put into the member.
LEMMA ContentThere ==
    ASSUME NEW a \in Archives, Good(a), bytes = a.blocks,
           InPlace(files, a, Len(a.members)),
           NEW i \in 1..Len(a.members), a.members[i].kind = "file"
    PROVE  FileBytes(a.members[i].name) = a.members[i].content
<1> DEFINE content == a.members[i].content
           name == a.members[i].name
           size == Len(content)
           start == a.starts[i] * Block
           there == [k \in 1..size |->
                        DataBytes(bytes[((start + k - 1) \div Block) + 1])
                            [((start + k - 1) % Block) + 1]]
<1>1. /\ content \in Seq(STRING) /\ size \in Nat /\ Block \in Nat \ {0} /\ Block \in Nat
      /\ a.starts[i] \in Nat /\ start \in Nat /\ a.starts[i + 1] \in Nat
      /\ HeadAt(a, i).size = size
      /\ a.starts[i + 1] = a.starts[i] + 1 + Padded(size) /\ Padded(size) \in Nat
  <2>1. a.members[i] \in Member /\ Block \in Nat \ {0} /\ Block \in Nat
    BY Layout, BlockAssumption
  <2>2. content \in Seq(STRING) /\ size \in Nat
    BY <2>1 DEF Member
  <2>3. a.starts[i] \in Nat /\ a.starts[i + 1] \in Nat
    BY Layout
  <2>4. start \in Nat
    BY <2>1, <2>3
  <2>5. QED BY <2>1, <2>2, <2>3, <2>4, Layout
<1>1a. /\ size \in Nat /\ Block \in Nat \ {0} /\ a.starts[i] \in Nat /\ a.starts[i + 1] \in Nat
       /\ a.starts[i + 1] = a.starts[i] + 1 + Padded(size) /\ Padded(size) \in Nat
  BY <1>1
<1>2. files[name] = <<start, start + size>>
  BY DEF InPlace
<1> HIDE DEF content, size, name, start
<1>3. FileBytes(name) = there
  <2>1. files[name][1] = start /\ files[name][2] = start + size /\ start + size - start = size
    BY <1>1, <1>2
  <2> DEFINE byte(o) == DataBytes(bytes[(o \div Block) + 1])[(o % Block) + 1]
             range(x, n) == [k \in 1..n |-> byte(x + k - 1)]
  <2>2. FileBytes(name) = range(files[name][1], files[name][2] - files[name][1])
    BY DEF FileBytes
  <2>3. there = range(start, size)
    OBVIOUS
  <2> HIDE DEF range, there
  <2>4. files[name][2] - files[name][1] = size
    <3>1. start \in Nat /\ size \in Nat
      BY <1>1
    <3>2. (start + size) - start = size
      BY <3>1
    <3>3. files[name][2] - files[name][1] = (start + size) - start
      BY <2>1, Zenon
    <3>4. QED BY ONLY <3>2, <3>3, Zenon
  <2>5. QED BY ONLY <1>1a, <2>1, <2>2, <2>3, <2>4, Zenon
<1>4. ASSUME NEW k \in 1..size
      PROVE  there[k] = content[k]
  <2> DEFINE q == (k - 1) \div Block
             r == (k - 1) % Block
  <2>0. size # 0 /\ k - 1 \in Nat
    BY <1>1
  <2>1. q \in Nat /\ r \in 0..(Block - 1) /\ k - 1 = q * Block + r
    BY <1>1, <2>0, Divided
  <2>1a. q \in Nat /\ r \in Nat /\ r < Block
    <3> HIDE DEF q, r
    <3>1. QED BY ONLY <1>1, <2>1
  <2>2. q \in 0..(Padded(size) - 1)
    BY <1>1, <2>0, WithinTheData
  <2> HIDE DEF q, r
  <2>3. start + k - 1 = (a.starts[i] + q) * Block + r
    <3>1. (a.starts[i] + q) * Block = start + q * Block
      <4>1. PICK s \in Nat : s = a.starts[i]
        BY <1>1
      <4>2. q \in Nat /\ Block \in Nat
        BY <1>1, <2>1
      <4>3. (s + q) * Block = s * Block + q * Block
        BY ONLY <4>1, <4>2
      <4>4. QED BY ONLY <4>1, <4>3, Zenon DEF start
    <3>2. start + k - 1 = start + (k - 1) /\ q * Block \in Nat
      BY <1>1, <2>1
    <3>3. QED BY <1>1, <2>1, <3>1, <3>2
  <2>4. (start + k - 1) \div Block = a.starts[i] + q /\ (start + k - 1) % Block = r
    <3>1. a.starts[i] + q \in Nat /\ r \in Nat /\ r < Block
      BY ONLY <1>1a, <2>1a
    <3>2. /\ ((a.starts[i] + q) * Block + r) \div Block = a.starts[i] + q
          /\ ((a.starts[i] + q) * Block + r) % Block = r
      BY <1>1, <3>1, DividedOnce
    <3>3. QED BY <2>3, <3>2
  <2>5. (a.starts[i] + q) + 1 = DataBlock(a, i, k)
    <3>1. DataBlock(a, i, k) = a.starts[i] + 1 + q
      BY DEF DataBlock, q
    <3>2. QED BY <1>1, <2>1, <3>1
  <2>6. there[k] = DataByte(a, i, k)
    <3>1. there[k] = DataBytes(bytes[((start + k - 1) \div Block) + 1])
                        [((start + k - 1) % Block) + 1]
      OBVIOUS
    <3>2. DataByte(a, i, k) = DataBytes(a.blocks[DataBlock(a, i, k)])[r + 1]
      BY DEF DataByte, r
    <3> HIDE DEF there
    <3>3. QED BY <2>4, <2>5, <3>1, <3>2
  <2>7. DataBlock(a, i, k) \in DOMAIN a.blocks
    <3>0. PICK P \in Nat, s \in Nat, t \in Nat :
             P = Padded(size) /\ s = a.starts[i] /\ t = a.starts[i + 1]
      BY <1>1a
    <3>0a. t = s + 1 + P /\ q <= P - 1 /\ DataBlock(a, i, k) = (s + q) + 1 /\ q \in Nat
      BY ONLY <1>1a, <2>1a, <2>2, <2>5, <3>0
    <3>0b. (s + q) + 1 < t /\ (s + q) + 1 \in Nat \ {0}
      BY <3>0a
    <3>1. DataBlock(a, i, k) < a.starts[i + 1] /\ DataBlock(a, i, k) \in Nat \ {0}
      BY ONLY <3>0, <3>0a, <3>0b
    <3>2. a.starts[i + 1] <= End(a) /\ i + 1 \in 1..(Len(a.members) + 1)
      BY StartsGrow, Layout
    <3>3. DOMAIN a.blocks = 1..Len(a.blocks) /\ Len(a.blocks) \in Nat
      BY Layout
    <3>3a. End(a) \in Nat /\ End(a) + 1 <= Len(a.blocks)
      BY GoodFacts
    <3>4. PICK d \in Nat \ {0} : d = DataBlock(a, i, k)
      BY <3>1
    <3>5. PICK l \in Nat : l = Len(a.blocks)
      BY <3>3
    <3>6. PICK e \in Nat : e = End(a)
      BY <3>3a
    <3>7. d < t /\ t <= e /\ e + 1 <= l
      BY ONLY <3>0, <3>1, <3>2, <3>3a, <3>4, <3>5, <3>6, Zenon
    <3>8. d \in 1..l
      BY <3>7
    <3>9. QED BY <3>3, <3>4, <3>5, <3>8
  <2>8. DataByte(a, i, k) = content[k]
    <3>1. LaidOut(a) /\ i \in DOMAIN a.members
      BY LayoutAssumption, Layout
    <3>2. HeadAt(a, i).size = size
      BY <1>1
    <3>3. \A x \in 1..HeadAt(a, i).size :
             DataBlock(a, i, x) \in DOMAIN a.blocks => DataByte(a, i, x) = content[x]
      BY <3>1 DEF LaidOut, HeadAt, content
    <3>4. QED BY <1>1, <2>7, <3>3
  <2>9. QED BY <2>6, <2>8
<1>5. there = content
  <2>1. there = [k \in 1..size |-> there[k]]
    OBVIOUS
  <2>2. content = [k \in 1..size |-> content[k]]
    BY <1>1 DEF size
  <2> HIDE DEF there
  <2>3. \A k \in 1..size : there[k] = content[k]
    BY <1>4
  <2>4. QED BY ONLY <2>1, <2>2, <2>3
<1>6. QED BY <1>3, <1>5 DEF name, content

-----------------------------------------------------------------------------
(* What the call has made, and whose *)

\* Components as hosts see them.
Part == Component \cup {[part EXCEPT !.form = "any"] : part \in Component}
OnHosts == Seq(Part) \ {<<>>}

\* What is walked is the archive of the lock, and the members found have names.
WalkOK ==
    /\ lock.archive \in Archives
    /\ pc = "walk" => bytes = lock.archive.blocks
    /\ pos \in Nat
    /\ entries \in Seq(Entry)

\* Every node has a name of its own, and what the call made lies in directories it made.
TreeOK ==
    /\ \A n \in nodes : n.name \in OnHosts
    /\ \A m, n \in nodes : m.name = n.name => m = n
    /\ \A n \in nodes : n.own =>
         \A k \in 1..(Len(n.name) - 1) :
             \E m \in nodes : m.own /\ m.name = SubSeq(n.name, 1, k)

\* created are nodes the call made, and those above the component it works on are there.
ProgressOK ==
    /\ \A d \in created : \E m \in nodes : m.own /\ m.name = OnHost(d)
    /\ pc \in {"target", "extract"} =>
         /\ at \in Nat \ {0} /\ depth \in Nat \ {0}
         /\ at <= Len(entries) =>
              /\ depth <= Len(entries[at].name)
              /\ \A k \in 1..(depth - 1) : SubSeq(entries[at].name, 1, k) \in created

IInv == WalkOK /\ TreeOK /\ ProgressOK

\* A host keeps the components of a name apart: the ancestors of what it makes of a name
\* are what it makes of the ancestors.
LEMMA HostName ==
  ASSUME NEW name \in Name
  PROVE  /\ OnHost(name) \in OnHosts /\ Len(OnHost(name)) = Len(name)
         /\ \A k \in 1..Len(name) :
              /\ SubSeq(name, 1, k) \in Name /\ Len(SubSeq(name, 1, k)) = k
              /\ OnHost(SubSeq(name, 1, k)) = SubSeq(OnHost(name), 1, k)
<1> DEFINE any(part) == [part EXCEPT !.form = "any"]
<1>1. name \in Seq(Component) /\ Len(name) \in Nat \ {0} /\ DOMAIN name = 1..Len(name)
  BY DEF Name
<1>2. Component \subseteq Part /\ \A part \in Component : any(part) \in Part
  BY DEF Part
<1>3. /\ OnHost(name) \in Seq(Part) /\ Len(OnHost(name)) = Len(name)
      /\ OnHost(name) # <<>>
  <2>1. CASE ignoreCase
    <3>1. OnHost(name) = [i \in 1..Len(name) |-> any(name[i])]
      BY <1>1, <2>1 DEF OnHost
    <3>2. \A i \in 1..Len(name) : any(name[i]) \in Part
      BY <1>1, <1>2
    <3> HIDE DEF any
    <3>3. QED
      BY <1>1, <3>1, <3>2
  <2>2. CASE ~ignoreCase
    <3>1. OnHost(name) = name /\ name \in Seq(Part)
      BY <1>1, <1>2, <2>2 DEF OnHost
    <3>2. QED
      BY <1>1, <3>1
  <2>3. QED
    BY <2>1, <2>2
<1>4. ASSUME NEW k \in 1..Len(name)
      PROVE  /\ SubSeq(name, 1, k) \in Name /\ Len(SubSeq(name, 1, k)) = k
             /\ OnHost(SubSeq(name, 1, k)) = SubSeq(OnHost(name), 1, k)
  <2> DEFINE part == SubSeq(name, 1, k)
             host == SubSeq(OnHost(name), 1, k)
  <2>1. /\ part \in Seq(Component) /\ Len(part) = k /\ part # <<>> /\ DOMAIN part = 1..k
        /\ \A i \in 1..k : part[i] = name[i]
    BY <1>1
  <2>2. /\ host \in Seq(Part) /\ Len(host) = k /\ DOMAIN host = 1..k
        /\ \A i \in 1..k : host[i] = OnHost(name)[i]
    BY <1>1, <1>3
  <2>3. OnHost(part) = host
    <3>1. CASE ignoreCase
      <4>1. OnHost(part) = [i \in 1..k |-> any(part[i])]
        BY <2>1, <3>1 DEF OnHost
      <4>2. \A i \in 1..k : OnHost(name)[i] = any(name[i])
        BY <1>1, <3>1 DEF OnHost
      <4> HIDE DEF part, host, any
      <4>3. QED
        BY <2>1, <2>2, <4>1, <4>2
    <3>2. CASE ~ignoreCase
      BY <3>2 DEF OnHost
    <3>3. QED
      BY <3>1, <3>2
  <2>4. QED
    BY <2>1, <2>3 DEF Name
<1>5. QED
  BY <1>1, <1>3, <1>4 DEF OnHosts

\* Two parts of a name joined, and a longer one without its last component.
LEMMA Joined ==
  ASSUME NEW s \in Seq(Component), NEW t \in Name
  PROVE  s \o t \in Name
BY DEF Name

\* A name cut at the front is still a name.
LEMMA Cut ==
  ASSUME NEW s \in Name, Len(s) > 1
  PROVE  Front(s) \in Name
<1>1. s \in Seq(Component) /\ Len(s) \in Nat
  BY DEF Name
<1>2. PICK n \in Nat : n = Len(s) - 1 /\ n > 0
  BY <1>1
<1>3. SubSeq(s, 1, n) \in Seq(Component) /\ Len(SubSeq(s, 1, n)) = n
  BY <1>1, <1>2
<1>4. SubSeq(s, 1, n) # <<>>
  <2> DEFINE cut == SubSeq(s, 1, n)
  <2>1. Len(cut) = n /\ Len(<<>>) = 0
    BY <1>3, EmptySeq
  <2> HIDE DEF cut
  <2>2. cut # <<>>
    BY <1>2, <2>1
  <2>3. QED
    BY <2>2 DEF cut
<1>5. QED
  BY <1>2, <1>3, <1>4 DEF Front, Name

\* A member of an archive has a name.
LEMMA MemberName ==
  ASSUME NEW h, h.prefix \in Seq(Component), h.name \in Name
  PROVE  HeaderName(h) \in Name
<1>1. h.prefix \o h.name \in Name
  BY Joined
<1>2. QED
  BY <1>1, Cut DEF HeaderName

\* The first states satisfy the invariant of the tree.
LEMMA InitIInv == Init => IInv
<1> SUFFICES ASSUME Init PROVE IInv
  OBVIOUS
<1>1. WalkOK
  BY DEF Init, WalkOK
<1>2. TreeOK /\ ProgressOK
  BY DEF Init, TreeOK, ProgressOK
<1>3. QED
  BY <1>1, <1>2 DEF IInv

\* The walk lists members that have names, of the archive that was digested.
LEMMA WalkStays ==
  ASSUME IInv, [Next]_vars
  PROVE  WalkOK'
<1> USE DEF IInv, WalkOK
<1>1. CASE RefuseAtOnce \/ Verify \/ InspectRefused \/ Index \/ BeginTree \/ CheckTarget
           \/ EnsureSubdirectory \/ WriteFile \/ FinishExtraction
  BY <1>1 DEF RefuseAtOnce, Verify, InspectRefused, Index, BeginTree, CheckTarget,
              EnsureSubdirectory, WriteFile, FinishExtraction, Answer, DigestMatches,
              Extracting, walkVars, setting
<1>2. CASE \/ \E g \in {"load", "cached", "extract"} : Call(g)
           \/ OperationFails \/ Exchange \/ Intrude \/ UNCHANGED vars
  BY <1>2 DEF Call, OperationFails, Exchange, Intrude, Answer, walkVars, setting, vars
<1>3. CASE FetchCached \/ ReadStaged
  <2>1. UNCHANGED lock /\ pc' # "walk"
    BY <1>3 DEF FetchCached, ReadStaged, StartWalk, Answer, setting
  <2>2. UNCHANGED <<pos, entries>> \/ (pos' = 0 /\ entries' = <<>>)
    BY <1>3 DEF FetchCached, ReadStaged, StartWalk, walkVars
  <2>3. lock'.archive \in Archives /\ pos' \in Nat
    BY <2>1, <2>2
  <2>5. entries' \in Seq(Entry)
    BY <2>2, EmptySeq
  <2>6. QED
    BY <2>1, <2>3, <2>5
<1>4. CASE Inspect
  <2>1. UNCHANGED <<bytes, lock, pc>> /\ pc = "walk"
    BY <1>4 DEF Inspect, WalkStep, ReadMember, ReadData, ReadZero, ReadEnd, Refuse, Consume,
                setting
  <2>2. CASE ReadMember
    <3>1. pos' = pos + 1 /\ pos < Len(bytes) /\ HeaderAdmitted(Current)
      BY <2>2 DEF ReadMember, More, Rest, Consume
    <3>2. /\ bytes \in Seq(Range(bytes))
          /\ Current.header =>
               /\ Current.prefix \in Seq(Component) /\ Current.name \in Name
               /\ Current.size \in Nat
      <4>1. bytes \in Seq(Range(bytes))
        BY <2>1, NameAssumption
      <4>2. pos + 1 \in DOMAIN bytes
        BY <3>1, <4>1
      <4>3. QED
        BY <2>1, <4>1, <4>2, NameAssumption DEF Current
    <3>3. [name |-> HeaderName(Current), kind |-> Current.kind, bytes |-> Current.size]
            \in Entry
      BY <3>1, <3>2, MemberName DEF HeaderAdmitted, Entry
    <3>4. entries' \in Seq(Entry)
      BY <2>2, <3>3 DEF ReadMember
    <3>5. QED
      BY <2>1, <3>1, <3>4
  <2>3. CASE ReadData \/ ReadZero \/ ReadEnd \/ Refuse
    BY <2>1, <2>3 DEF ReadData, ReadZero, ReadEnd, Refuse, Consume
  <2>4. QED
    BY <1>4, <2>2, <2>3 DEF Inspect, WalkStep
<1>5. QED
  BY <1>1, <1>2, <1>3, <1>4 DEF Next

\* Where a call is in its extraction: the names above are what it made.
LEMMA Above ==
  ASSUME IInv, Extracting
  PROVE  /\ entries[at].name \in Name /\ depth \in 1..Len(entries[at].name)
         /\ OnHost(Here) \in OnHosts /\ Len(OnHost(Here)) = depth
         /\ \A k \in 1..(depth - 1) :
              \E m \in nodes : m.own /\ m.name = SubSeq(OnHost(Here), 1, k)
<1> DEFINE name == entries[at].name
<1>1. name \in Name /\ depth \in 1..Len(name) /\ at \in 1..Len(entries)
  <2>1. at \in 1..Len(entries) /\ depth \in Nat \ {0} /\ depth <= Len(name)
    BY DEF IInv, WalkOK, ProgressOK, Extracting
  <2>2. entries[at] \in Entry
    BY <2>1 DEF IInv, WalkOK
  <2>3. name \in Name
    BY <2>2 DEF Entry
  <2>4. Len(name) \in Nat
    BY <2>3 DEF Name
  <2>5. QED
    BY <2>1, <2>3, <2>4
<1>2. Here \in Name /\ Len(Here) = depth
  BY <1>1, HostName DEF Here
<1>3. ASSUME NEW k \in 1..(depth - 1)
      PROVE  \E m \in nodes : m.own /\ m.name = SubSeq(OnHost(Here), 1, k)
  <2>1. SubSeq(name, 1, k) \in created
    BY <1>1 DEF IInv, ProgressOK, Extracting
  <2>2. PICK m \in nodes : m.own /\ m.name = OnHost(SubSeq(name, 1, k))
    BY <2>1 DEF IInv, ProgressOK
  <2>3. SubSeq(Here, 1, k) = SubSeq(name, 1, k)
    <3>1. name \in Seq(Component) /\ k \in Nat /\ depth \in Nat /\ k <= depth
      BY <1>1 DEF Name
    <3> HIDE DEF name
    <3>2. QED
      BY <1>1, <3>1 DEF Here, name
  <2>4. SubSeq(OnHost(Here), 1, k) = OnHost(SubSeq(name, 1, k))
    <3>1. k \in 1..Len(Here)
      BY <1>1, <1>2 DEF Name
    <3>2. OnHost(SubSeq(Here, 1, k)) = SubSeq(OnHost(Here), 1, k)
      BY <1>2, <3>1, HostName
    <3>3. QED
      BY <2>3, <3>2
  <2>5. QED
    BY <2>2, <2>4
<1>4. QED
  BY <1>1, <1>2, <1>3, HostName

\* A node the call makes where there is none, below what it made, keeps the tree in order.
LEMMA OwnNode ==
  ASSUME IInv, Extracting, NodeAt(Here) = {},
         NEW kind, NEW content, nodes' = nodes \cup {Node(Here, kind, TRUE, content)}
  PROVE  TreeOK'
<1> DEFINE new == Node(Here, kind, TRUE, content)
<1>1. new.name = OnHost(Here) /\ new.own /\ new.name \in OnHosts
  BY Above DEF Node
<1>2. \A n \in nodes : n.name # new.name
  BY <1>1 DEF NodeAt
<1>3. \A k \in 1..(Len(new.name) - 1) :
        \E m \in nodes : m.own /\ m.name = SubSeq(new.name, 1, k)
  BY <1>1, Above
<1> HIDE DEF new
<1>4. nodes' = nodes \cup {new}
  BY DEF new
<1>5. /\ \A n \in nodes' : n.name \in OnHosts
      /\ \A m, n \in nodes' : m.name = n.name => m = n
  BY <1>1, <1>2, <1>4 DEF IInv, TreeOK
<1>6. ASSUME NEW n \in nodes', n.own, NEW k \in 1..(Len(n.name) - 1)
      PROVE  \E m \in nodes' : m.own /\ m.name = SubSeq(n.name, 1, k)
  <2>1. CASE n = new
    BY <1>3, <1>4, <2>1
  <2>2. CASE n \in nodes
    BY <1>4, <1>6, <2>2 DEF IInv, TreeOK
  <2>3. QED
    BY <1>4, <2>1, <2>2
<1>7. QED
  BY <1>5, <1>6 DEF TreeOK

\* Every step keeps the tree in order.
LEMMA TreeStays ==
  ASSUME IInv, [Next]_vars
  PROVE  TreeOK'
<1>1. CASE UNCHANGED nodes
  BY <1>1 DEF IInv, TreeOK
<1>2. CASE EnsureSubdirectory
  <2>1. CASE /\ NodeAt(Here) = {} /\ Extracting
             /\ nodes' = nodes \cup {Node(Here, "dir", TRUE, <<>>)}
    BY <2>1, OwnNode
  <2>2. QED
    BY <1>1, <1>2, <2>1 DEF EnsureSubdirectory
<1>3. CASE WriteFile
  <2>1. \/ UNCHANGED nodes
        \/ /\ NodeAt(Here) = {} /\ Extracting
           /\ nodes' = nodes \cup {Node(Here, "file", TRUE, FileBytes(Here))}
    BY <1>3 DEF WriteFile
  <2>2. QED
    BY <1>1, <2>1, OwnNode
<1>4. CASE OperationFails
  <2>1. \/ UNCHANGED nodes
        \/ /\ NodeAt(Here) = {} /\ Extracting
           /\ \/ nodes' = nodes \cup {Node(Here, "file", TRUE, <<"cut">>)}
              \/ nodes' = nodes \cup {Node(Here, "dir", TRUE, <<>>)}
    BY <1>4 DEF OperationFails
  <2>2. QED
    BY <1>1, <2>1, OwnNode
<1>5. CASE Intrude
  <2>1. PICK name \in ForeignName, kind \in {"file", "dir"} :
          /\ NodeAt(name) = {}
          /\ nodes' = nodes \cup {Node(name, kind, FALSE, <<>>)}
    BY <1>5 DEF Intrude
  <2> DEFINE new == Node(name, kind, FALSE, <<>>)
  <2>2. new.name = OnHost(name) /\ ~new.own /\ new.name \in OnHosts
    BY HostName, NameAssumption DEF Node
  <2>3. \A n \in nodes : n.name # new.name
    BY <2>1, <2>2 DEF NodeAt
  <2> HIDE DEF new
  <2>4. nodes' = nodes \cup {new}
    BY <2>1 DEF new
  <2>5. QED
    BY <2>2, <2>3, <2>4 DEF IInv, TreeOK
<1>6. CASE \/ \E g \in {"load", "cached", "extract"} : Call(g)
           \/ RefuseAtOnce \/ FetchCached \/ ReadStaged \/ Verify
           \/ Inspect \/ InspectRefused \/ Index
           \/ BeginTree \/ CheckTarget \/ FinishExtraction \/ Exchange \/ UNCHANGED vars
  BY <1>1, <1>6 DEF Call, RefuseAtOnce, FetchCached, ReadStaged, Verify, Inspect, InspectRefused,
                    Index, BeginTree, CheckTarget, FinishExtraction, Exchange, tree, vars
<1>7. QED
  BY <1>2, <1>3, <1>4, <1>5, <1>6 DEF Next

\* What the call has made stays made, and it enters a component below what it made only.
LEMMA ProgressStays ==
  ASSUME IInv, [Next]_vars
  PROVE  ProgressOK'
<1>1. ASSUME UNCHANGED <<ignoreCase, created>>, nodes \subseteq nodes'
      PROVE  \A d \in created' : \E m \in nodes' : m.own /\ m.name = OnHost(d)'
  BY <1>1 DEF IInv, ProgressOK, OnHost
<1>2. CASE \/ \E g \in {"load", "cached", "extract"} : Call(g)
           \/ RefuseAtOnce \/ FetchCached \/ ReadStaged \/ Verify
           \/ Inspect \/ InspectRefused \/ Index
  <2>1. pc' \notin {"target", "extract"} /\ UNCHANGED <<ignoreCase, created, nodes>>
    BY <1>2 DEF Call, RefuseAtOnce, FetchCached, ReadStaged, Verify, Inspect, InspectRefused,
                Index, Answer, setting, progress, tree
  <2>2. QED
    BY <1>1, <2>1 DEF ProgressOK
<1>3. CASE FinishExtraction \/ OperationFails
  <2>1. /\ pc' \notin {"target", "extract"} /\ UNCHANGED <<ignoreCase, created>>
        /\ nodes \subseteq nodes'
    BY <1>3 DEF FinishExtraction, OperationFails, Answer, setting, progress, tree
  <2>2. QED
    BY <1>1, <2>1 DEF ProgressOK
<1>4. CASE Exchange \/ Intrude \/ UNCHANGED vars \/ CheckTarget
  <2>1. /\ UNCHANGED <<ignoreCase, created, at, depth, entries>> /\ nodes \subseteq nodes'
        /\ pc' \in {"target", "extract"} => pc \in {"target", "extract"}
    BY <1>4 DEF Exchange, Intrude, CheckTarget, Answer, vars, setting, progress, tree, walkVars
  <2>2. QED
    BY <1>1, <2>1 DEF IInv, ProgressOK
<1>5. CASE BeginTree
  <2>1. CASE made
    <3>1. pc' \notin {"target", "extract"} /\ UNCHANGED <<ignoreCase, created, nodes>>
      BY <1>5, <2>1 DEF BeginTree, Answer, setting, progress
    <3>2. QED
      BY <1>1, <3>1 DEF ProgressOK
  <2>2. CASE ~made
    <3>1. created' = {} /\ at' = 1 /\ depth' = 1 /\ UNCHANGED entries
      BY <1>5, <2>2 DEF BeginTree, walkVars
    <3>2. 1 <= Len(entries) => 1 <= Len(entries[1].name)
      <4> SUFFICES ASSUME 1 <= Len(entries) PROVE 1 <= Len(entries[1].name)
        OBVIOUS
      <4>1. entries[1] \in Entry
        BY DEF IInv, WalkOK
      <4>2. QED
        BY <4>1, EmptySeq DEF Entry, Name
    <3>3. QED
      BY <3>1, <3>2 DEF ProgressOK
  <2>3. QED
    BY <2>1, <2>2
<1>6. CASE WriteFile \/ EnsureSubdirectory
  <2>1. Extracting /\ UNCHANGED <<ignoreCase, entries>> /\ nodes \subseteq nodes'
    BY <1>6 DEF WriteFile, EnsureSubdirectory, setting, walkVars
  <2>2. \A d \in created' : \E m \in nodes' : m.own /\ m.name = OnHost(d)'
    <3>1. CASE created' = created
      BY <1>1, <2>1, <3>1
    <3>2. CASE EnsureSubdirectory /\ created' # created
      <4>1. /\ created' = created \cup {Here}
            /\ nodes' = nodes \cup {Node(Here, "dir", TRUE, <<>>)}
        BY <3>2 DEF EnsureSubdirectory
      <4>2. \A d : OnHost(d)' = OnHost(d)
        BY <2>1 DEF OnHost
      <4>3. /\ Node(Here, "dir", TRUE, <<>>).own
            /\ Node(Here, "dir", TRUE, <<>>).name = OnHost(Here)
        BY DEF Node
      <4>4. QED
        BY <4>1, <4>2, <4>3 DEF IInv, ProgressOK
    <3>3. QED
      BY <1>6, <3>1, <3>2 DEF WriteFile
  <2>3. CASE pc' = "idle"
    BY <2>2, <2>3 DEF ProgressOK
  <2>4. CASE pc' # "idle"
    <3>1. NextComponent
      BY <1>6, <2>4 DEF WriteFile, EnsureSubdirectory, Answer
    <3>2. created \subseteq created' /\ (depth < Len(entries[at].name) => Here \in created')
      <4>1. CASE EnsureSubdirectory
        BY <2>4, <4>1 DEF EnsureSubdirectory, Answer, MayEnter
      <4>2. CASE WriteFile
        BY <4>2 DEF WriteFile, AtLeaf
      <4>3. QED
        BY <1>6, <4>1, <4>2
    <3>3. entries[at].name \in Name /\ depth \in 1..Len(entries[at].name) /\ at \in Nat \ {0}
      BY <2>1, Above DEF IInv, ProgressOK, Extracting
    <3>4. CASE depth < Len(entries[at].name)
      <4>1. depth' = depth + 1 /\ at' = at /\ Here \in created'
        BY <3>1, <3>2, <3>4 DEF NextComponent
      <4>2. \A k \in 1..depth : SubSeq(entries[at].name, 1, k) \in created'
        BY <2>1, <3>2, <3>3, <4>1 DEF IInv, ProgressOK, Extracting, Here
      <4>3. depth + 1 \in Nat \ {0} /\ depth + 1 <= Len(entries[at].name)
        BY <3>3, <3>4 DEF Name
      <4>4. QED
        BY <2>1, <2>2, <3>3, <4>1, <4>2, <4>3 DEF ProgressOK
    <3>5. CASE ~(depth < Len(entries[at].name))
      <4>1. depth' = 1 /\ at' = at + 1
        BY <3>1, <3>5 DEF NextComponent
      <4>2. at' <= Len(entries) => 1 <= Len(entries[at'].name)
        <5> SUFFICES ASSUME at' <= Len(entries) PROVE 1 <= Len(entries[at'].name)
          OBVIOUS
        <5>1. entries[at'] \in Entry
          BY <3>3, <4>1 DEF IInv, WalkOK
        <5>2. QED
          BY <5>1, EmptySeq DEF Entry, Name
      <4>3. QED
        BY <2>1, <2>2, <3>3, <4>1, <4>2 DEF ProgressOK
    <3>6. QED
      BY <3>4, <3>5
  <2>5. QED
    BY <2>3, <2>4
<1>7. QED
  BY <1>2, <1>3, <1>4, <1>5, <1>6 DEF Next

\* The inductive invariant holds for any archives, calls and mishaps.
THEOREM LoadInvariant == Spec => []IInv
<1>1. IInv /\ [Next]_vars => IInv'
  BY WalkStays, TreeStays, ProgressStays DEF IInv
<1> QED
  BY <1>1, InitIInv, PTL DEF Spec

\* What an extraction writes lies in directories it has made itself, and nobody else has
\* a node of the same name: it writes nothing below an entry of somebody else.
THEOREM ForeignLeftAlone == Spec => []ForeignUntouched
<1>1. IInv => ForeignUntouched
  <2> SUFFICES ASSUME IInv, NEW f \in Foreign, NEW n \in nodes, n.own,
                      Len(n.name) > Len(f.name), SubSeq(n.name, 1, Len(f.name)) = f.name
               PROVE  FALSE
    BY DEF ForeignUntouched
  <2>1. f \in nodes /\ ~f.own
    BY DEF Foreign
  <2>2. Len(f.name) \in 1..(Len(n.name) - 1)
    <3>1. f.name \in Seq(Part) /\ f.name # <<>> /\ n.name \in Seq(Part)
      BY <2>1 DEF IInv, TreeOK, OnHosts
    <3>2. Len(f.name) \in Nat \ {0} /\ Len(n.name) \in Nat
      BY <3>1, EmptySeq
    <3>3. QED
      BY <3>2
  <2>3. PICK m \in nodes : m.own /\ m.name = f.name
    BY <2>2 DEF IInv, TreeOK
  <2>4. QED
    BY <2>1, <2>3 DEF IInv, TreeOK
<1> QED
  BY <1>1, LoadInvariant, PTL

-----------------------------------------------------------------------------
(* From the walk to the answer *)

\* Only an archive is read; nobody has changed it unless it was written over.
ReadOK ==
    /\ pc \in {"idle", "fetch", "open", "verify", "walk", "tree", "target", "extract"}
    /\ answer # "none" => pc = "idle"
    /\ pc \in {"verify", "walk"} => lock.kind = "archive"
    /\ exchanges \in Nat
    /\ exchanges = 0 => /\ staged = lock.archive.blocks
                        /\ pc = "verify" => bytes = lock.archive.blocks

\* Where the walk is, and that it refuses no good archive.
WalkedOK ==
    /\ pc = "verify" => walk = "header" /\ pos = 0 /\ entries = <<>>
    /\ pc = "walk" /\ walk # "refused" => Found(lock.archive) /\ WalkAt(lock.archive)
    /\ pc = "walk" /\ walk = "refused" => ~Good(lock.archive)

\* A call that has a snapshot has that of a good archive, with every file in its place.
Holding == pc \in {"tree", "target", "extract"} \/ answer \in {"loaded", "extracted"}

HeldOK ==
    Holding => /\ lock.kind = "archive" /\ Good(lock.archive) /\ bytes = lock.archive.blocks
               /\ entries = Listing(Members) /\ InPlace(files, lock.archive, Len(Members))

\* Every step keeps what was read tied to the lock.
LEMMA ReadStays ==
  ASSUME IInv, ReadOK, [Next]_vars
  PROVE  ReadOK'
<1>1. CASE FetchCached
  BY <1>1 DEF FetchCached, StartWalk, Answer, ReadOK, setting, counts, walkVars
<1>2. CASE ReadStaged
  BY <1>2 DEF ReadStaged, StartWalk, Answer, ReadOK, setting, counts, walkVars
<1>3. CASE Exchange
  BY <1>3 DEF Exchange, ReadOK, setting, walkVars
<1>4. CASE \/ \E g \in {"load", "cached", "extract"} : Call(g)
           \/ RefuseAtOnce \/ Verify \/ InspectRefused \/ Index
  BY <1>4 DEF Call, RefuseAtOnce, Verify, InspectRefused, Index, Answer, ReadOK,
              setting, counts, walkVars
<1>5. CASE Inspect
  BY <1>5 DEF Inspect, ReadOK, setting, counts
<1>6. CASE BeginTree \/ CheckTarget \/ FinishExtraction \/ OperationFails \/ Intrude
  BY <1>6 DEF BeginTree, CheckTarget, FinishExtraction, OperationFails, Intrude, Fault,
              Answer, ReadOK, setting, counts, walkVars
<1>7. CASE EnsureSubdirectory \/ WriteFile
  BY <1>7 DEF EnsureSubdirectory, WriteFile, Extracting, Answer, ReadOK, setting, counts, walkVars
<1>8. CASE UNCHANGED vars
  BY <1>8 DEF vars, ReadOK, setting, counts, walkVars
<1>9. QED
  BY <1>1, <1>2, <1>3, <1>4, <1>5, <1>6, <1>7, <1>8 DEF Next

\* A step of the walk.
LEMMA WalkStepStays ==
  ASSUME IInv, WalkedOK, Inspect
  PROVE  WalkedOK'
<1>1. PICK a \in Archives : a = lock.archive
  BY DEF IInv, WalkOK
<1>2. /\ pc = "walk" /\ pc' = "walk" /\ lock' = lock /\ WalkStep /\ Walking(a)
      /\ walk # "refused" => Found(a) /\ WalkAt(a)
      /\ walk = "refused" => ~Good(a)
  BY <1>1 DEF Inspect, setting, IInv, WalkOK, WalkedOK, Walking
<1>3. walk # "refused"
  BY <1>2 DEF WalkStep, ReadMember, ReadData, ReadZero, ReadEnd, Refuse, BlockRefused
<1>4. /\ walk' # "refused" => Found(a)' /\ WalkAt(a)'
      /\ walk' = "refused" => ~Good(a)
  <2>1. CASE ReadMember
    BY <1>2, <1>3, <2>1, MemberRead DEF WalkAt
  <2>2. CASE ReadData
    BY <1>2, <1>3, <2>2, DataRead DEF WalkAt
  <2>3. CASE ReadZero
    BY <1>2, <1>3, <2>3, ZeroRead DEF WalkAt
  <2>4. CASE ReadEnd
    BY <1>2, <1>3, <2>4, EndRead
  <2>5. CASE Refuse
    BY <1>2, <1>3, <2>5, GoodGoesOn DEF Refuse
  <2>6. QED BY <1>2, <2>1, <2>2, <2>3, <2>4, <2>5 DEF WalkStep
<1>5. a = lock'.archive
  BY <1>1, <1>2
<1>6. /\ walk' # "refused" => Found(lock.archive)' /\ WalkAt(lock.archive)'
      /\ walk' = "refused" => ~Good(lock.archive)'
  <2>1. /\ Found(a)' <=> Found(lock.archive)'
        /\ WalkAt(a)' <=> WalkAt(lock.archive)'
        /\ Good(a) <=> Good(lock.archive)'
    BY <1>5 DEF Found, WalkAt, WholeBefore, Good, BeforeHeader, WithinData, BehindAll
  <2>2. QED BY <1>4, <2>1
<1>7. QED
  BY <1>2, <1>6 DEF WalkedOK

\* Every step keeps the walk where it has to be.
LEMMA WalkedStays ==
  ASSUME IInv, WalkedOK, [Next]_vars
  PROVE  WalkedOK'
<1>1. CASE Inspect
  BY <1>1, WalkStepStays
<1>2. CASE FetchCached \/ ReadStaged
  <2>1. /\ pc' # "walk"
        /\ pc' = "verify" => walk' = "header" /\ pos' = 0 /\ entries' = <<>>
    BY <1>2 DEF FetchCached, ReadStaged, StartWalk, Answer
  <2>2. QED BY <2>1 DEF WalkedOK
<1>3. CASE Verify
  <2>1. PICK a \in Archives : a = lock.archive /\ a = lock'.archive
    BY <1>3 DEF Verify, setting, IInv, WalkOK
  <2>2. /\ walk' = "header" /\ pos' = 0 /\ entries' = <<>> /\ pc' # "verify"
        /\ pc' = "walk" => bytes = a.blocks
    BY <1>3, <2>1 DEF Verify, DigestMatches, Answer, WalkedOK, walkVars
  <2>3. Found(a)' /\ WalkAt(a)'
    <3>1. Len(<<>>) = 0 /\ Len(a.members) \in Nat /\ Len(a.blocks) \in Nat /\ a.starts[1] = 1
      BY Layout, EmptySeq
    <3>2. 0 * Block <= MaxArchive /\ Block \in Nat
      BY BlockAssumption
    <3>3. BeforeHeader(a)'
      BY <2>2, <3>1 DEF BeforeHeader
    <3>3a. WholeBefore(a)'
      BY <2>2 DEF WholeBefore
    <3>4. QED BY <2>2, <3>1, <3>2, <3>3, <3>3a DEF Found, WalkAt
  <2>4. Found(lock.archive)' /\ WalkAt(lock.archive)'
    <3>1. /\ Found(a)' <=> Found(lock.archive)'
          /\ WalkAt(a)' <=> WalkAt(lock.archive)'
      BY <2>1 DEF Found, WalkAt, WholeBefore, BeforeHeader, WithinData, BehindAll
    <3>2. QED BY <2>3, <3>1
  <2>5. QED BY <2>2, <2>4 DEF WalkedOK
<1>4. CASE \/ \E g \in {"load", "cached", "extract"} : Call(g)
           \/ RefuseAtOnce \/ InspectRefused \/ Index
           \/ BeginTree \/ CheckTarget \/ EnsureSubdirectory \/ WriteFile \/ FinishExtraction
           \/ OperationFails
  <2>1. pc' \notin {"verify", "walk"}
    BY <1>4 DEF Call, RefuseAtOnce, InspectRefused, Index, BeginTree, CheckTarget,
                EnsureSubdirectory, WriteFile, FinishExtraction, OperationFails, Answer,
                Extracting
  <2>2. QED BY <2>1 DEF WalkedOK
<1>5. CASE Exchange \/ Intrude \/ UNCHANGED vars
  <2>1. UNCHANGED <<pc, walk, pos, left, entries, bytes, lock>>
    BY <1>5 DEF Exchange, Intrude, vars, walkVars, setting
  <2>2. QED
    BY <2>1 DEF WalkedOK, Found, WalkAt, WholeBefore, Good, BeforeHeader, WithinData, BehindAll
<1>6. QED
  BY <1>1, <1>2, <1>3, <1>4, <1>5 DEF Next

\* Every step keeps a snapshot that of a good archive.
LEMMA HeldStays ==
  ASSUME IInv, ReadOK, WalkedOK, HeldOK, [Next]_vars
  PROVE  HeldOK'
<1>1. CASE Index
  <2> SUFFICES ASSUME Holding' PROVE HeldOK'
    BY DEF HeldOK
  <2>1. PICK a \in Archives : a = lock.archive /\ a = lock'.archive
    BY <1>1 DEF Index, setting, IInv, WalkOK
  <2>2. /\ pc = "walk" /\ walk = "accepted" /\ UNCHANGED <<entries, bytes, lock>>
        /\ lock.kind = "archive"
    BY <1>1 DEF Index, walkVars, setting, ReadOK
  <2>3. Walking(a) /\ Found(a) /\ WalkAt(a)
    BY <2>1, <2>2 DEF IInv, WalkOK, WalkedOK, Walking
  <2>4. Good(a) /\ entries = Listing(a.members) /\ bytes = a.blocks
    BY <2>2, <2>3, AcceptedGood DEF Walking
  <2> DEFINE placed == FoldLeft(Place, NothingPlaced, Listing(a.members))
  <2>5. placed.offset <= Len(a.blocks) * Block /\ InPlace(placed.files, a, Len(a.members))
    BY <2>4, AllPlaced
  <2>6. files' = placed.files
    BY <1>1, <2>4, <2>5 DEF Index, NothingPlaced
  <2> HIDE DEF placed
  <2>7. InPlace(files', a, Len(a.members))
    BY <2>5, <2>6
  <2>8. QED
    BY <2>1, <2>2, <2>4, <2>7 DEF HeldOK, Members, Good, InPlace
<1>2. CASE \/ \E g \in {"load", "cached", "extract"} : Call(g)
           \/ RefuseAtOnce \/ FetchCached \/ ReadStaged \/ Verify \/ InspectRefused
           \/ OperationFails
  <2>1. ~Holding'
    BY <1>2 DEF Call, RefuseAtOnce, FetchCached, ReadStaged, Verify, InspectRefused,
                OperationFails, Answer, Holding, ReadOK
  <2>2. QED BY <2>1 DEF HeldOK
<1>3. CASE Inspect
  <2>1. ~Holding'
    BY <1>3 DEF Inspect, Holding, ReadOK
  <2>2. QED BY <2>1 DEF HeldOK
<1>4. CASE \/ BeginTree \/ CheckTarget \/ EnsureSubdirectory \/ WriteFile \/ FinishExtraction
           \/ Exchange \/ Intrude \/ UNCHANGED vars
  <2>1. UNCHANGED <<lock, bytes, entries, files>> /\ (Holding' => Holding)
    BY <1>4 DEF BeginTree, CheckTarget, EnsureSubdirectory, WriteFile, FinishExtraction,
                Exchange, Intrude, vars, walkVars, setting, snapshot, Answer, Extracting,
                Holding, ReadOK
  <2>2. QED
    BY <2>1 DEF HeldOK, Members, Good, InPlace
<1>5. QED
  BY <1>1, <1>2, <1>3, <1>4 DEF Next

-----------------------------------------------------------------------------
(* What an extraction makes *)

\* Names that are the same on the host are the same but for case.
LEMMA HostFolds ==
  ASSUME NEW x \in Name, NEW y \in Name, OnHost(x) = OnHost(y)
  PROVE  Folded(x) = Folded(y)
<1>1. /\ Len(x) \in Nat /\ DOMAIN x = 1..Len(x) /\ \A k \in 1..Len(x) : x[k] \in Component
      /\ Len(y) \in Nat /\ DOMAIN y = 1..Len(y) /\ \A k \in 1..Len(y) : y[k] \in Component
  BY NameFacts
<1>2. CASE ~ignoreCase
  BY <1>2 DEF OnHost
<1>3. CASE ignoreCase
  <2>1. /\ OnHost(x) = [k \in 1..Len(x) |-> [x[k] EXCEPT !.form = "any"]]
        /\ OnHost(y) = [k \in 1..Len(y) |-> [y[k] EXCEPT !.form = "any"]]
    BY <1>1, <1>3 DEF OnHost
  <2>2. Len(x) = Len(y)
    <3>1. Len(OnHost(x)) = Len(x) /\ Len(OnHost(y)) = Len(y)
      BY HostName
    <3>2. QED BY <3>1
  <2>3. ASSUME NEW k \in 1..Len(x) PROVE x[k].fold = y[k].fold
    <3>1. [x[k] EXCEPT !.form = "any"] = [y[k] EXCEPT !.form = "any"]
      <4> DEFINE any(part) == [part EXCEPT !.form = "any"]
      <4>1. /\ OnHost(x) = [m \in 1..Len(x) |-> any(x[m])]
            /\ OnHost(y) = [m \in 1..Len(x) |-> any(y[m])]
        BY <2>1, <2>2
      <4> HIDE DEF any
      <4>2. OnHost(x)[k] = any(x[k]) /\ OnHost(y)[k] = any(y[k])
        BY <4>1
      <4>3. QED BY <4>2 DEF any
    <3>2. x[k] \in Component /\ y[k] \in Component
      BY <1>1, <2>2
    <3>3. /\ [x[k] EXCEPT !.form = "any"].fold = x[k].fold
          /\ [y[k] EXCEPT !.form = "any"].fold = y[k].fold
      BY <3>2 DEF Component
    <3>4. QED BY <3>1, <3>3
  <2>4. QED
    BY <1>1, <2>2, <2>3, FoldedSame DEF SameTo
<1>4. QED BY <1>2, <1>3

\* In a good archive beginnings of names that a host takes for the same are the same.
LEMMA BeginningsMeet ==
  ASSUME NEW a \in Archives, Good(a)
  PROVE  \A i, j \in 1..Len(a.members) :
         \A d \in 1..Len(a.members[i].name) : \A e \in 1..Len(a.members[j].name) :
           OnHost(SubSeq(a.members[i].name, 1, d)) = OnHost(SubSeq(a.members[j].name, 1, e)) =>
             /\ SubSeq(a.members[i].name, 1, d) = SubSeq(a.members[j].name, 1, e) /\ d = e
             /\ a.members[i].kind = "file" /\ d = Len(a.members[i].name) =>
                  i = j /\ e = Len(a.members[j].name)
<1> SUFFICES ASSUME NEW i \in 1..Len(a.members), NEW j \in 1..Len(a.members),
                    NEW d \in 1..Len(a.members[i].name), NEW e \in 1..Len(a.members[j].name),
                    OnHost(SubSeq(a.members[i].name, 1, d)) = OnHost(SubSeq(a.members[j].name, 1, e))
             PROVE  /\ SubSeq(a.members[i].name, 1, d) = SubSeq(a.members[j].name, 1, e) /\ d = e
                    /\ a.members[i].kind = "file" /\ d = Len(a.members[i].name) =>
                         i = j /\ e = Len(a.members[j].name)
  OBVIOUS
<1> DEFINE x == a.members[i].name
           y == a.members[j].name
           p == SubSeq(x, 1, d)
           q == SubSeq(y, 1, e)
<1>1. x \in Name /\ y \in Name /\ DOMAIN a.members = 1..Len(a.members)
  BY Layout, ListingFacts
<1>2. /\ p \in Name /\ Len(p) = d /\ p \in Ancestors(x) \cup {x}
      /\ q \in Name /\ Len(q) = e /\ q \in Ancestors(y) \cup {y}
      /\ Len(x) \in Nat /\ Len(y) \in Nat
  <2> HIDE DEF x, y
  <2>1. d \in 1..Len(x) /\ e \in 1..Len(y)
    BY DEF x, y
  <2>2. QED BY <1>1, <2>1, NamePrefix, Beginnings, NameFacts
<1>3. Folded(p) = Folded(q)
  <2> HIDE DEF p, q
  <2>1. OnHost(p) = OnHost(q)
    BY DEF p, q
  <2>2. QED BY <1>2, <2>1, HostFolds
<1>4. p = q
  <2> HIDE DEF p, q
  <2>1. \A s \in Ancestors(x) \cup {x} : \A t \in Ancestors(y) \cup {y} :
            Folded(s) = Folded(t) => s = t
    BY <1>1 DEF Good, Portable
  <2>2. QED BY <1>2, <1>3, <2>1
<1>5. d = e
  <2> HIDE DEF p, q
  <2>1. QED BY <1>2, <1>4
<1>6. ASSUME a.members[i].kind = "file", d = Len(x)
      PROVE  i = j /\ e = Len(y)
  <2>1. p = x
    <3> HIDE DEF x
    <3>1. x \in Seq(Component)
      BY <1>1, NameFacts
    <3>2. QED BY <1>6, <3>1
  <2>2. x \notin Ancestors(y)
    BY <1>1, <1>6 DEF Good, Portable
  <2>3. e = Len(y)
    <3> HIDE DEF x, y, p
    <3>1. SUFFICES ASSUME e # Len(y) PROVE FALSE
      OBVIOUS
    <3>2. e \in 1..(Len(y) - 1)
      <4>1. e \in 1..Len(y)
        BY DEF y
      <4>2. QED BY <1>2, <3>1, <4>1
    <3>3. q \in Ancestors(y)
      BY <3>2 DEF Ancestors
    <3> HIDE DEF q
    <3>4. QED BY <1>4, <2>1, <2>2, <3>3
  <2>4. q = y
    <3> HIDE DEF y
    <3>1. y \in Seq(Component)
      BY <1>1, NameFacts
    <3>2. QED BY <2>3, <3>1
  <2>5. x = y
    <3> HIDE DEF x, y, p, q
    <3>1. QED BY <1>4, <2>1, <2>4
  <2>6. i = j
    BY <2>5, GoodFacts
  <2>7. QED BY <2>3, <2>6
<1>7. QED BY <1>4, <1>5, <1>6

\* The bytes of the first entries of a list.
LEMMA BytesUpTo ==
  ASSUME NEW list \in Seq(Listed)
  PROVE  /\ \A k \in 0..Len(list) : /\ Total(SubSeq(list, 1, k)) \in Nat
                                    /\ Total(SubSeq(list, 1, k)) <= Total(list)
         /\ \A k \in 0..(Len(list) - 1) :
              Total(SubSeq(list, 1, k + 1)) = Total(SubSeq(list, 1, k)) + list[k + 1].bytes
         /\ Total(SubSeq(list, 1, 0)) = 0 /\ Total(SubSeq(list, 1, Len(list))) = Total(list)
<1>1. PICK t : /\ t[0] = 0 /\ Total(list) = t[Len(list)]
               /\ \A k \in 0..(Len(list) - 1) : t[k + 1] = t[k] + list[k + 1].bytes
               /\ \A k \in 0..Len(list) : t[k] \in Nat
  BY TotalTrace
<1>2. ASSUME NEW k \in 0..Len(list) PROVE Total(SubSeq(list, 1, k)) = t[k]
  <2> DEFINE first == SubSeq(list, 1, k)
  <2>1. first \in Seq(Listed) /\ Len(first) = k /\ \A j \in 1..k : first[j] = list[j]
    OBVIOUS
  <2> HIDE DEF first
  <2>2. \A j \in 0..(Len(first) - 1) : t[j + 1] = AddBytes(t[j], first[j + 1])
    <3> TAKE j \in 0..(Len(first) - 1)
    <3>1. j \in 0..(Len(list) - 1) /\ j + 1 \in 1..k
      BY <2>1
    <3>2. QED BY <1>1, <2>1, <3>1 DEF AddBytes
  <2>3. Added!Folded(first) = t[Len(first)]
    BY <1>1, <2>1, <2>2, Added!FoldIs
  <2>4. Added!Folded(first) = Total(first)
    BY DEF Total, Added!Folded, Added!FoldLeft, FoldLeft, Added!MapThenFoldSet,
           MapThenFoldSet, Added!Max, Max
  <2>5. QED BY <2>1, <2>3, <2>4 DEF first
<1>3. \A k \in 0..Len(list) : t[k] <= t[Len(list)]
  BY <1>1, TotalTraceGrows
<1>4. Len(list) \in Nat /\ 0 \in 0..Len(list) /\ Len(list) \in 0..Len(list)
  OBVIOUS
<1>5. \A k \in 0..(Len(list) - 1) : k \in 0..Len(list) /\ k + 1 \in 0..Len(list)
  BY <1>4
<1>6. QED BY <1>1, <1>2, <1>3, <1>4, <1>5

-----------------------------------------------------------------------------

\* The components before the one the extraction works on, and what it makes of each.
Passed(i, d) == i < at \/ (i = at /\ d < depth)

KindOf(a, i, d) == IF d = Len(a.members[i].name) THEN a.members[i].kind ELSE "dir"

NodeOf(a, i, d) ==
    Node(SubSeq(a.members[i].name, 1, d), KindOf(a, i, d), TRUE,
         IF KindOf(a, i, d) = "file" THEN a.members[i].content ELSE <<>>)

Built(a) ==
    /\ at \in 1..(Len(a.members) + 1)
    /\ \A n : n \in nodes /\ n.own <=>
                \E i \in 1..Len(a.members) : \E d \in 1..Len(a.members[i].name) :
                    Passed(i, d) /\ n = NodeOf(a, i, d)
    /\ \A c : c \in created <=>
                \E i \in 1..Len(a.members) : \E d \in 1..Len(a.members[i].name) :
                    Passed(i, d) /\ KindOf(a, i, d) = "dir" /\ c = SubSeq(a.members[i].name, 1, d)
    /\ written = Total(SubSeq(entries, 1, at - 1))

MadeOK ==
    /\ ~made => nodes = {} /\ pc \notin {"target", "extract"}
    /\ \A n \in nodes : n.own => lock.kind = "archive" /\ Good(lock.archive)
    /\ answer = "extracted" => {n \in nodes : n.own} = Meant
    /\ pc = "target" => at = 1 /\ depth = 1
    /\ pc \in {"target", "extract"} => Built(lock.archive)

\* A component done is one more that has been passed.
LEMMA OnePassed ==
  ASSUME NEW a \in Archives, entries = Listing(a.members),
         at \in 1..Len(a.members), depth \in 1..Len(a.members[at].name), NextComponent
  PROVE  /\ at' \in 1..(Len(a.members) + 1)
         /\ \A i \in 1..Len(a.members) : \A d \in 1..Len(a.members[i].name) :
              Passed(i, d)' <=> Passed(i, d) \/ (i = at /\ d = depth)
         /\ at' = IF depth < Len(a.members[at].name) THEN at ELSE at + 1
<1>1. entries[at].name = a.members[at].name /\ Len(a.members) \in Nat
  <2>1. entries[at] = [name |-> a.members[at].name, kind |-> a.members[at].kind,
                       bytes |-> Len(a.members[at].content)] /\ Len(a.members) \in Nat
    BY Layout, ListingFacts
  <2>2. QED BY <2>1
<1>2. \A i \in 1..Len(a.members) : Len(a.members[i].name) \in Nat
  <2> TAKE i \in 1..Len(a.members)
  <2>1. a.members[i].name \in Name
    BY Layout, ListingFacts
  <2>2. QED BY <2>1, NameFacts
<1>3. CASE depth < Len(a.members[at].name)
  <2>1. depth' = depth + 1 /\ at' = at
    BY <1>1, <1>3 DEF NextComponent
  <2>2. QED BY <1>1, <1>2, <1>3, <2>1 DEF Passed
<1>4. CASE ~(depth < Len(a.members[at].name))
  <2>1. depth' = 1 /\ at' = at + 1 /\ depth = Len(a.members[at].name)
    BY <1>1, <1>2, <1>4 DEF NextComponent
  <2>2. ASSUME NEW i \in 1..Len(a.members), NEW d \in 1..Len(a.members[i].name)
        PROVE  Passed(i, d)' <=> Passed(i, d) \/ (i = at /\ d = depth)
    <3>1. Passed(i, d)' <=> i < at + 1
      BY <1>2, <2>1 DEF Passed
    <3>2. CASE i = at
      <4>1. d < depth \/ d = depth
        BY <1>2, <2>1, <3>2
      <4>2. QED BY <3>1, <3>2, <4>1 DEF Passed
    <3>3. CASE i # at
      BY <3>1, <3>3 DEF Passed
    <3>4. QED BY <3>2, <3>3
  <2>3. QED BY <1>1, <1>4, <2>1, <2>2
<1>5. QED BY <1>3, <1>4

\* An extraction works on a component of a member of a good archive, and a file it
\* writes has the bytes of the member.
LEMMA WhereItIs ==
  ASSUME NEW a \in Archives, a = lock.archive, IInv, HeldOK, Extracting
  PROVE  /\ Good(a) /\ lock.kind = "archive" /\ bytes = a.blocks /\ entries = Listing(a.members)
         /\ at \in 1..Len(a.members) /\ depth \in 1..Len(a.members[at].name)
         /\ Here = SubSeq(a.members[at].name, 1, depth)
         /\ AtLeaf <=> KindOf(a, at, depth) = "file"
         /\ KindOf(a, at, depth) \in {"file", "dir"}
         /\ entries[at].bytes = Len(a.members[at].content)
         /\ AtLeaf => /\ depth = Len(a.members[at].name) /\ a.members[at].kind = "file"
                      /\ Here = a.members[at].name
                      /\ FileBytes(Here) = a.members[at].content
         /\ ~AtLeaf /\ ~(depth < Len(a.members[at].name)) => entries[at].bytes = 0
<1>1. /\ Good(a) /\ lock.kind = "archive" /\ bytes = a.blocks /\ entries = Listing(a.members)
      /\ InPlace(files, a, Len(a.members))
  BY DEF HeldOK, Holding, Extracting, Members
<1>2. Len(entries) = Len(a.members) /\ Len(a.members) \in Nat
  BY <1>1, Layout, ListingFacts
<1>3. at \in 1..Len(a.members) /\ depth \in 1..Len(entries[at].name)
  <2>1. at \in Nat \ {0} /\ depth \in 1..Len(entries[at].name) /\ at <= Len(entries)
    BY Above DEF Extracting, IInv, ProgressOK
  <2>2. QED BY <1>2, <2>1
<1>4. /\ entries[at].name = a.members[at].name /\ entries[at].kind = a.members[at].kind
      /\ entries[at].bytes = Len(a.members[at].content) /\ a.members[at].name \in Name
  <2>1. /\ entries[at] = [name |-> a.members[at].name, kind |-> a.members[at].kind,
                          bytes |-> Len(a.members[at].content)]
        /\ a.members[at].name \in Name
    BY <1>1, <1>3, Layout, ListingFacts
  <2>2. QED BY <2>1
<1>5. Here = SubSeq(a.members[at].name, 1, depth)
  BY <1>4 DEF Here
<1>6. AtLeaf <=> KindOf(a, at, depth) = "file"
  BY <1>4 DEF AtLeaf, KindOf
<1>7. KindOf(a, at, depth) \in {"file", "dir"}
  BY <1>1, <1>3, GoodFacts DEF KindOf
<1>8. ASSUME AtLeaf
      PROVE  /\ depth = Len(a.members[at].name) /\ a.members[at].kind = "file"
             /\ Here = a.members[at].name /\ FileBytes(Here) = a.members[at].content
  <2>1. depth = Len(a.members[at].name) /\ a.members[at].kind = "file"
    BY <1>4, <1>8 DEF AtLeaf
  <2>2. Here = a.members[at].name
    <3>1. a.members[at].name \in Seq(Component)
      BY <1>4, NameFacts
    <3>2. QED BY <1>5, <2>1, <3>1
  <2>3. QED BY <1>1, <1>3, <2>1, <2>2, ContentThere
<1>9. ASSUME ~AtLeaf, ~(depth < Len(a.members[at].name)) PROVE entries[at].bytes = 0
  <2>1. depth = Len(a.members[at].name)
    <3>1. Len(a.members[at].name) \in Nat
      BY <1>4, NameFacts
    <3>2. QED BY <1>3, <1>4, <1>9, <3>1
  <2>2. a.members[at].kind = "dir"
    BY <1>4, <1>7, <1>9, <2>1 DEF AtLeaf, KindOf
  <2>3. a.members[at].content = <<>>
    BY <1>1, <1>3, <2>2, GoodFacts
  <2>4. QED BY <1>4, <2>3, EmptySeq
<1>10. QED BY <1>1, <1>3, <1>4, <1>5, <1>6, <1>7, <1>8, <1>9

\* What a step that makes nothing leaves of the tree the call has built so far.
LEMMA BuiltSame ==
  ASSUME NEW a \in Archives, UNCHANGED <<ignoreCase, at, depth, created, written, entries>>,
         \A n : n \in nodes' /\ n.own <=> n \in nodes /\ n.own
  PROVE  Built(a)' <=> Built(a)
<1>1. \A i, d : Passed(i, d)' <=> Passed(i, d)
  BY DEF Passed
<1>2. \A i, d : NodeOf(a, i, d)' = NodeOf(a, i, d)
  BY DEF NodeOf, Node, OnHost
<1> DEFINE P(n) == \E i \in 1..Len(a.members) : \E d \in 1..Len(a.members[i].name) :
                    Passed(i, d) /\ n = NodeOf(a, i, d)
           Q(c) == \E i \in 1..Len(a.members) : \E d \in 1..Len(a.members[i].name) :
                    Passed(i, d) /\ KindOf(a, i, d) = "dir" /\ c = SubSeq(a.members[i].name, 1, d)
<1>3. /\ \A n : (\E i \in 1..Len(a.members) : \E d \in 1..Len(a.members[i].name) :
                    Passed(i, d)' /\ n = NodeOf(a, i, d)') <=> P(n)
      /\ \A c : (\E i \in 1..Len(a.members) : \E d \in 1..Len(a.members[i].name) :
                    Passed(i, d)' /\ KindOf(a, i, d) = "dir" /\ c = SubSeq(a.members[i].name, 1, d))
                <=> Q(c)
  BY <1>1, <1>2
<1>4. Built(a) <=> /\ at \in 1..(Len(a.members) + 1)
                   /\ \A n : n \in nodes /\ n.own <=> P(n)
                   /\ \A c : c \in created <=> Q(c)
                   /\ written = Total(SubSeq(entries, 1, at - 1))
  BY DEF Built
<1>5. Built(a)' <=> /\ at \in 1..(Len(a.members) + 1)
                    /\ \A n : n \in nodes' /\ n.own <=> P(n)
                    /\ \A c : c \in created <=> Q(c)
                    /\ written = Total(SubSeq(entries, 1, at - 1))
  <2> HIDE DEF P, Q
  <2>1. Built(a)' <=>
          /\ at' \in 1..(Len(a.members) + 1)
          /\ \A n : n \in nodes' /\ n.own <=> 
               \E i \in 1..Len(a.members) : \E d \in 1..Len(a.members[i].name) :
                    Passed(i, d)' /\ n = NodeOf(a, i, d)'
          /\ \A c : c \in created' <=>
               \E i \in 1..Len(a.members) : \E d \in 1..Len(a.members[i].name) :
                    Passed(i, d)' /\ KindOf(a, i, d) = "dir" /\ c = SubSeq(a.members[i].name, 1, d)
          /\ written' = Total(SubSeq(entries', 1, at' - 1))
    BY DEF Built, KindOf
  <2>2. QED BY <1>3, <2>1
<1> HIDE DEF P, Q
<1>6. QED BY <1>4, <1>5

\* A node the call makes for the component it is at, or that was there already.
LEMMA BuiltMore ==
  ASSUME NEW a \in Archives, a = lock.archive, IInv, HeldOK, Extracting, Built(a), NextComponent,
         UNCHANGED <<ignoreCase, entries>>,
         \A n : n \in nodes' /\ n.own <=> (n \in nodes /\ n.own) \/ n = NodeOf(a, at, depth),
         KindOf(a, at, depth) = "dir" => created' = created \cup {Here},
         KindOf(a, at, depth) # "dir" => created' = created,
         written' = IF AtLeaf THEN written + entries[at].bytes ELSE written
  PROVE  Built(a)'
<1>1. /\ at \in 1..Len(a.members) /\ depth \in 1..Len(a.members[at].name)
      /\ Here = SubSeq(a.members[at].name, 1, depth) /\ entries = Listing(a.members)
      /\ Len(a.members) \in Nat
      /\ AtLeaf => depth = Len(a.members[at].name)
      /\ ~AtLeaf /\ ~(depth < Len(a.members[at].name)) => entries[at].bytes = 0
  BY WhereItIs, Layout, ListingFacts
<1>2. /\ at' \in 1..(Len(a.members) + 1)
      /\ \A i \in 1..Len(a.members) : \A d \in 1..Len(a.members[i].name) :
           Passed(i, d)' <=> Passed(i, d) \/ (i = at /\ d = depth)
      /\ at' = IF depth < Len(a.members[at].name) THEN at ELSE at + 1
  BY <1>1, OnePassed
<1>3. \A i, d : NodeOf(a, i, d)' = NodeOf(a, i, d)
  BY DEF NodeOf, Node, OnHost, KindOf
<1>4. \A n : n \in nodes' /\ n.own <=>
               \E i \in 1..Len(a.members) : \E d \in 1..Len(a.members[i].name) :
                    Passed(i, d)' /\ n = NodeOf(a, i, d)'
  <2> TAKE n
  <2>1. n \in nodes /\ n.own <=> \E i \in 1..Len(a.members) : \E d \in 1..Len(a.members[i].name) :
                                   Passed(i, d) /\ n = NodeOf(a, i, d)
    BY DEF Built
  <2>2. QED BY <1>1, <1>2, <1>3, <2>1
<1>5. \A c : c \in created' <=>
               \E i \in 1..Len(a.members) : \E d \in 1..Len(a.members[i].name) :
                    Passed(i, d)' /\ KindOf(a, i, d) = "dir" /\ c = SubSeq(a.members[i].name, 1, d)
  <2> TAKE c
  <2>1. c \in created <=> \E i \in 1..Len(a.members) : \E d \in 1..Len(a.members[i].name) :
              Passed(i, d) /\ KindOf(a, i, d) = "dir" /\ c = SubSeq(a.members[i].name, 1, d)
    <3>1. Built(a)
      OBVIOUS
    <3>2. QED BY ONLY <3>1, Zenon DEF Built
  <2>2. c \in created' <=> c \in created \/ (KindOf(a, at, depth) = "dir" /\ c = Here)
    OBVIOUS
  <2> DEFINE is(i, d) == KindOf(a, i, d) = "dir" /\ c = SubSeq(a.members[i].name, 1, d)
  <2>3. is(at, depth) <=> KindOf(a, at, depth) = "dir" /\ c = Here
    BY <1>1
  <2>4. c \in created <=> \E i \in 1..Len(a.members) : \E d \in 1..Len(a.members[i].name) :
              Passed(i, d) /\ is(i, d)
    BY <2>1, Zenon
  <2> HIDE DEF is
  <2>5. c \in created' <=>
               \E i \in 1..Len(a.members) : \E d \in 1..Len(a.members[i].name) :
                    Passed(i, d)' /\ is(i, d)
    BY <1>1, <1>2, <2>2, <2>3, <2>4
  <2>6. QED BY <2>5 DEF is
<1>6. written' = Total(SubSeq(entries', 1, at' - 1))
  <2>1. /\ entries \in Seq(Listed) /\ Len(entries) = Len(a.members)
    BY <1>1, Layout, ListingFacts
  <2>2. at - 1 \in 0..(Len(entries) - 1) /\ (at - 1) + 1 = at /\ (at + 1) - 1 = at
    BY <1>1, <2>1
  <2>3. /\ Total(SubSeq(entries, 1, at)) = Total(SubSeq(entries, 1, at - 1)) + entries[at].bytes
        /\ Total(SubSeq(entries, 1, at - 1)) \in Nat
        /\ written = Total(SubSeq(entries, 1, at - 1))
    <3>1. written = Total(SubSeq(entries, 1, at - 1))
      BY DEF Built
    <3>2. /\ Total(SubSeq(entries, 1, (at - 1) + 1))
               = Total(SubSeq(entries, 1, at - 1)) + entries[(at - 1) + 1].bytes
      BY <2>1, <2>2, BytesUpTo
    <3>3. at - 1 \in 0..Len(entries)
      BY <1>1, <2>1
    <3>4. Total(SubSeq(entries, 1, at - 1)) \in Nat
      BY <2>1, <3>3, BytesUpTo
    <3>5. QED BY <2>2, <3>1, <3>2, <3>4
  <2>4. CASE depth < Len(a.members[at].name)
    <3>1. ~AtLeaf
      <4>1. depth \in Nat /\ Len(a.members[at].name) \in Nat
        <5>1. a.members[at].name \in Name
          BY <1>1, Layout, ListingFacts
        <5>2. Len(a.members[at].name) \in Nat
          BY <5>1, NameFacts
        <5>3. QED BY <1>1, <5>2
      <4>2. QED BY <1>1, <2>4, <4>1
    <3>2. QED BY <1>2, <2>3, <2>4, <3>1
  <2>5. CASE ~(depth < Len(a.members[at].name))
    <3>1. at' - 1 = at /\ entries' = entries
      BY <1>2, <2>2, <2>5
    <3>2. written' = written + entries[at].bytes
      <4>1. written \in Nat
        BY <2>3
      <4>2. QED BY <1>1, <2>5, <4>1
    <3>3. QED BY <2>3, <3>1, <3>2
  <2>6. QED BY <2>4, <2>5
<1>7. QED
  BY <1>2, <1>4, <1>5, <1>6 DEF Built, KindOf

\* When everything has been passed, the tree is what the archive means.
LEMMA BuiltAll ==
  ASSUME NEW a \in Archives, a = lock.archive, Good(a), entries = Listing(a.members), Built(a),
         at > Len(entries)
  PROVE  {n \in nodes : n.own} = Meant /\ written = Total(Listing(a.members))
<1>1. Len(entries) = Len(a.members) /\ Len(a.members) \in Nat /\ DOMAIN a.members = 1..Len(a.members)
  BY Layout, ListingFacts
<1>2. at = Len(a.members) + 1 /\ at - 1 = Len(entries)
  BY <1>1 DEF Built
<1>3. \A i \in 1..Len(a.members) : \A d \in 1..Len(a.members[i].name) : Passed(i, d)
  BY <1>1, <1>2 DEF Passed
<1>4. ASSUME NEW n PROVE (n \in nodes /\ n.own) <=> n \in Meant
  <2>1. n \in nodes /\ n.own <=> \E i \in 1..Len(a.members) : \E d \in 1..Len(a.members[i].name) :
                                   n = NodeOf(a, i, d)
    BY <1>3 DEF Built
  <2>2. n \in Meant <=> \E i \in 1..Len(a.members) :
            \/ n = Node(a.members[i].name, a.members[i].kind, TRUE, a.members[i].content)
            \/ \E p \in Ancestors(a.members[i].name) : n = Node(p, "dir", TRUE, <<>>)
    BY <1>1 DEF Meant, Members
  <2>3. ASSUME NEW i \in 1..Len(a.members)
        PROVE  (\E d \in 1..Len(a.members[i].name) : n = NodeOf(a, i, d)) <=>
                 \/ n = Node(a.members[i].name, a.members[i].kind, TRUE, a.members[i].content)
                 \/ \E p \in Ancestors(a.members[i].name) : n = Node(p, "dir", TRUE, <<>>)
    <3> DEFINE x == a.members[i].name
    <3>1. x \in Name /\ Len(x) \in Nat \ {0} /\ SubSeq(x, 1, Len(x)) = x
      <4>1. x \in Name
        BY Layout, ListingFacts
      <4> HIDE DEF x
      <4>2. x \in Seq(Component) /\ Len(x) \in Nat \ {0}
        BY <4>1, NameFacts
      <4>3. QED BY <4>1, <4>2
    <3>2. NodeOf(a, i, Len(x))
            = Node(x, a.members[i].kind, TRUE, a.members[i].content)
      <4>1. a.members[i].kind = "dir" => a.members[i].content = <<>>
        BY GoodFacts
      <4>2. a.members[i].kind \in {"file", "dir"}
        BY GoodFacts
      <4>3. QED BY <3>1, <4>1, <4>2 DEF NodeOf, KindOf
    <3>3. ASSUME NEW d \in 1..(Len(x) - 1)
          PROVE  NodeOf(a, i, d) = Node(SubSeq(x, 1, d), "dir", TRUE, <<>>)
      <4>1. d # Len(x)
        BY <3>1
      <4>2. QED BY <4>1 DEF NodeOf, KindOf
    <3>4. \A p : p \in Ancestors(x) <=> \E d \in 1..(Len(x) - 1) : p = SubSeq(x, 1, d)
      BY DEF Ancestors
    <3>5. 1..Len(x) = (1..(Len(x) - 1)) \cup {Len(x)}
      <4> HIDE DEF x
      <4>1. QED BY <3>1
    <3>6. (\E d \in 1..Len(x) : n = NodeOf(a, i, d)) <=>
             n = NodeOf(a, i, Len(x)) \/ \E d \in 1..(Len(x) - 1) : n = NodeOf(a, i, d)
      <4> HIDE DEF x
      <4>1. QED BY <3>5
    <3>7. (\E d \in 1..(Len(x) - 1) : n = NodeOf(a, i, d)) <=>
             \E p \in Ancestors(x) : n = Node(p, "dir", TRUE, <<>>)
      <4>1. ASSUME NEW d \in 1..(Len(x) - 1), n = NodeOf(a, i, d)
            PROVE  \E p \in Ancestors(x) : n = Node(p, "dir", TRUE, <<>>)
        BY <3>3, <3>4, <4>1
      <4>2. ASSUME NEW p \in Ancestors(x), n = Node(p, "dir", TRUE, <<>>)
            PROVE  \E d \in 1..(Len(x) - 1) : n = NodeOf(a, i, d)
        <5>1. PICK d \in 1..(Len(x) - 1) : p = SubSeq(x, 1, d)
          BY <3>4, <4>2
        <5>2. n = NodeOf(a, i, d)
          BY <3>3, <4>2, <5>1
        <5>3. QED BY <5>2
      <4>3. QED BY <4>1, <4>2
    <3>8. QED BY <3>2, <3>6, <3>7, Zenon
  <2>4. QED BY <2>1, <2>2, <2>3
<1>5. {n \in nodes : n.own} = Meant
  BY <1>4
<1>6. written = Total(Listing(a.members))
  <2>1. entries \in Seq(Listed) /\ written = Total(SubSeq(entries, 1, Len(entries)))
    BY <1>2, Layout, ListingFacts DEF Built
  <2>2. QED BY <2>1, BytesUpTo
<1>7. QED BY <1>5, <1>6

\* What the call makes of the component it is at.
LEMMA NodeHere ==
  ASSUME NEW a \in Archives, a = lock.archive, IInv, HeldOK, Extracting
  PROVE  /\ ~AtLeaf => KindOf(a, at, depth) = "dir" /\ NodeOf(a, at, depth) = Node(Here, "dir", TRUE, <<>>)
         /\ AtLeaf => /\ KindOf(a, at, depth) = "file"
                      /\ NodeOf(a, at, depth) = Node(Here, "file", TRUE, FileBytes(Here))
                      /\ Len(FileBytes(Here)) = entries[at].bytes
         /\ NodeOf(a, at, depth).own
<1>1. /\ Here = SubSeq(a.members[at].name, 1, depth)
      /\ AtLeaf <=> KindOf(a, at, depth) = "file"
      /\ KindOf(a, at, depth) \in {"file", "dir"}
      /\ entries[at].bytes = Len(a.members[at].content)
      /\ AtLeaf => FileBytes(Here) = a.members[at].content
  BY WhereItIs
<1>2. NodeOf(a, at, depth).own
  BY DEF NodeOf, Node
<1>3. QED BY <1>1, <1>2 DEF NodeOf

\* While it runs, a call that keeps to what it has built keeps the tree.
LEMMA MadeNow ==
  ASSUME NEW a \in Archives, a = lock'.archive, made', lock'.kind = "archive", Good(a),
         answer' # "extracted",
         pc' \in {"target", "extract"} => Built(a)',
         pc' = "target" => at' = 1 /\ depth' = 1
  PROVE  MadeOK'
<1>1. Good(lock.archive)' <=> Good(a)
  BY DEF Good
<1>2. Built(lock.archive)' <=> Built(a)'
  BY DEF Built, NodeOf, KindOf, Node, OnHost, Passed
<1>3. QED BY <1>1, <1>2 DEF MadeOK

\* A directory made or entered keeps the tree what has been passed.
LEMMA EnsureMade ==
  ASSUME IInv, ReadOK, HeldOK, MadeOK, EnsureSubdirectory
  PROVE  MadeOK'
<1>1. PICK a \in Archives : a = lock.archive /\ a = lock'.archive
  BY DEF EnsureSubdirectory, setting, IInv, WalkOK
<1>2. /\ Extracting /\ ~AtLeaf /\ pc = "extract" /\ UNCHANGED <<ignoreCase, entries, written, made, lock>>
  BY DEF EnsureSubdirectory, Extracting, setting, walkVars
<1>3. /\ Good(a) /\ lock.kind = "archive" /\ Here = SubSeq(a.members[at].name, 1, depth)
      /\ KindOf(a, at, depth) = "dir" /\ NodeOf(a, at, depth) = Node(Here, "dir", TRUE, <<>>)
      /\ NodeOf(a, at, depth).own
  BY <1>1, <1>2, WhereItIs, NodeHere
<1>4. Built(a) /\ made /\ answer = "none"
  BY <1>1, <1>2 DEF MadeOK, ReadOK
<1>5. CASE /\ NodeAt(Here) = {} /\ nodes' = nodes \cup {Node(Here, "dir", TRUE, <<>>)}
           /\ created' = created \cup {Here} /\ NextComponent /\ UNCHANGED <<pc, answer>>
  <2>1. \A n : n \in nodes' /\ n.own <=> (n \in nodes /\ n.own) \/ n = NodeOf(a, at, depth)
    BY <1>3, <1>5
  <2>2. Built(a)'
    BY <1>1, <1>2, <1>3, <1>4, <1>5, <2>1, BuiltMore
  <2>3. QED BY <1>1, <1>2, <1>3, <1>4, <1>5, <2>2, MadeNow
<1>6. CASE /\ NodeAt(Here) # {} /\ MayEnter
           /\ NextComponent /\ UNCHANGED <<pc, answer, nodes, created>>
  <2>1. PICK i \in 1..Len(a.members) : \E d \in 1..Len(a.members[i].name) :
            Passed(i, d) /\ KindOf(a, i, d) = "dir" /\ Here = SubSeq(a.members[i].name, 1, d)
    BY <1>4, <1>6 DEF MayEnter, Built
  <2>2. PICK d \in 1..Len(a.members[i].name) :
            Passed(i, d) /\ KindOf(a, i, d) = "dir" /\ Here = SubSeq(a.members[i].name, 1, d)
    BY <2>1
  <2>3. NodeOf(a, i, d) = NodeOf(a, at, depth)
    BY <1>3, <2>2 DEF NodeOf
  <2>4. NodeOf(a, i, d) \in nodes
    BY <1>4, <2>2 DEF Built
  <2>5. \A n : n \in nodes' /\ n.own <=> (n \in nodes /\ n.own) \/ n = NodeOf(a, at, depth)
    BY <1>3, <1>6, <2>3, <2>4
  <2>6. created' = created \cup {Here}
    BY <1>6 DEF MayEnter
  <2>7. Built(a)'
    BY <1>1, <1>2, <1>3, <1>4, <1>6, <2>5, <2>6, BuiltMore
  <2>8. QED BY <1>1, <1>2, <1>3, <1>4, <1>6, <2>7, MadeNow
<1>7. CASE /\ NodeAt(Here) # {} /\ ~MayEnter
           /\ Answer("unsafe") /\ UNCHANGED <<nodes, created, at, depth>>
  BY <1>1, <1>2, <1>3, <1>4, <1>7, MadeNow DEF Answer
<1>8. QED BY <1>5, <1>6, <1>7 DEF EnsureSubdirectory

\* A file written keeps the tree what has been passed.
LEMMA WriteMade ==
  ASSUME IInv, ReadOK, HeldOK, MadeOK, WriteFile
  PROVE  MadeOK'
<1>1. PICK a \in Archives : a = lock.archive /\ a = lock'.archive
  BY DEF WriteFile, setting, IInv, WalkOK
<1>2. /\ Extracting /\ AtLeaf /\ pc = "extract" /\ UNCHANGED <<ignoreCase, entries, created, made, lock>>
  BY DEF WriteFile, Extracting, setting, walkVars
<1>3. /\ Good(a) /\ lock.kind = "archive"
      /\ KindOf(a, at, depth) = "file"
      /\ NodeOf(a, at, depth) = Node(Here, "file", TRUE, FileBytes(Here))
      /\ Len(FileBytes(Here)) = entries[at].bytes
      /\ NodeOf(a, at, depth).own
  BY <1>1, <1>2, WhereItIs, NodeHere
<1>4. Built(a) /\ made /\ answer = "none"
  BY <1>1, <1>2 DEF MadeOK, ReadOK
<1>5. CASE /\ nodes' = nodes \cup {Node(Here, "file", TRUE, FileBytes(Here))}
           /\ written' = written + Len(FileBytes(Here))
           /\ NextComponent /\ UNCHANGED <<pc, answer>>
  <2>1. \A n : n \in nodes' /\ n.own <=> (n \in nodes /\ n.own) \/ n = NodeOf(a, at, depth)
    BY <1>3, <1>5
  <2>2. written' = written + entries[at].bytes
    BY <1>3, <1>5
  <2>3. Built(a)'
    BY <1>1, <1>2, <1>3, <1>4, <1>5, <2>1, <2>2, BuiltMore
  <2>4. QED BY <1>1, <1>2, <1>3, <1>4, <1>5, <2>3, MadeNow
<1>6. CASE Answer("refused") \/ Answer("io")
  BY <1>1, <1>2, <1>3, <1>4, <1>6, MadeNow DEF Answer
<1>7. QED BY <1>5, <1>6 DEF WriteFile

\* Every step keeps the tree of the call what it has passed of the archive.
LEMMA MadeStays ==
  ASSUME IInv, ReadOK, HeldOK, MadeOK, [Next]_vars
  PROVE  MadeOK'
<1>1. PICK a \in Archives : a = lock.archive /\ a = lock'.archive
  <2>1. lock' = lock
    BY DEF Next, vars, setting, Call, RefuseAtOnce, FetchCached, ReadStaged, Verify, Inspect,
           InspectRefused, Index, BeginTree, CheckTarget, EnsureSubdirectory, WriteFile,
           FinishExtraction, OperationFails, Exchange, Intrude
  <2>2. QED BY <2>1 DEF IInv, WalkOK
<1>2. CASE EnsureSubdirectory
  BY <1>2, EnsureMade
<1>3. CASE WriteFile
  BY <1>3, WriteMade
<1>4. ASSUME UNCHANGED <<lock, ignoreCase, made, nodes>>, answer' = "extracted" => answer = "extracted",
             \/ pc' \notin {"target", "extract"}
             \/ UNCHANGED <<pc, at, depth, created, written, entries>>
      PROVE  MadeOK'
  <2>1. Good(lock.archive)' <=> Good(lock.archive)
    BY <1>4 DEF Good
  <2>2. Meant' = Meant
    BY <1>4 DEF Meant, Members, Node, OnHost
  <2>3. pc' \in {"target", "extract"} => Built(lock.archive)'
    <3>1. SUFFICES ASSUME pc' \in {"target", "extract"} PROVE Built(lock.archive)'
      OBVIOUS
    <3>2. Built(a)
      BY <1>1, <1>4, <3>1 DEF MadeOK
    <3>3. Built(a)'
      BY <1>4, <3>1, <3>2, BuiltSame
    <3>4. a = lock'.archive
      BY <1>1
    <3>5. Built(lock.archive)' <=> Built(a)'
      BY ONLY <3>4 DEF Built, NodeOf, KindOf, Node, OnHost, Passed
    <3>6. QED BY <3>3, <3>5
  <2>4. QED BY <1>4, <2>1, <2>2, <2>3 DEF MadeOK
<1>5. CASE \/ \E g \in {"load", "cached", "extract"} : Call(g)
           \/ RefuseAtOnce \/ FetchCached \/ ReadStaged \/ Verify \/ Inspect \/ InspectRefused \/ Index
           \/ Exchange \/ UNCHANGED vars
  <2>1. /\ UNCHANGED <<lock, ignoreCase, made, nodes>>
        /\ answer' = "extracted" => answer = "extracted"
    BY <1>5 DEF Call, RefuseAtOnce, FetchCached, ReadStaged, Verify, Inspect, InspectRefused, Index,
                Exchange, Answer, vars, setting, tree, walkVars
  <2>2. \/ pc' \notin {"target", "extract"}
        \/ UNCHANGED <<pc, at, depth, created, written, entries>>
    BY <1>5 DEF Call, RefuseAtOnce, FetchCached, ReadStaged, Verify, Inspect, InspectRefused, Index,
                Exchange, Answer, vars, progress, walkVars
  <2>3. QED BY <1>4, <2>1, <2>2
<1>6. CASE BeginTree
  <2>1. lock.kind = "archive" /\ Good(a) /\ answer = "none" /\ pc = "tree"
        /\ entries = Listing(a.members) /\ UNCHANGED <<lock, nodes>>
    BY <1>1, <1>6 DEF BeginTree, HeldOK, Holding, Members, ReadOK, setting
  <2>2. CASE made
    <3>1. UNCHANGED <<lock, ignoreCase, made, nodes>> /\ pc' = "idle" /\ answer' = "store"
      BY <1>6, <2>2 DEF BeginTree, Answer, setting
    <3>2. QED BY <1>4, <3>1
  <2>3. CASE ~made
    <3>1. /\ made' = TRUE /\ pc' = "target" /\ answer' = "none" /\ nodes' = {}
          /\ created' = {} /\ at' = 1 /\ depth' = 1 /\ written' = 0 /\ entries' = entries
      BY <1>6, <2>1, <2>3 DEF BeginTree, MadeOK, walkVars
    <3>2. \A i \in 1..Len(a.members) : \A d \in 1..Len(a.members[i].name) : ~Passed(i, d)'
      <4> TAKE i \in 1..Len(a.members)
      <4> TAKE d \in 1..Len(a.members[i].name)
      <4>1. Len(a.members[i].name) \in Nat /\ Len(a.members) \in Nat
        <5>1. a.members[i].name \in Name /\ Len(a.members) \in Nat
          BY Layout, ListingFacts
        <5>2. QED BY <5>1, NameFacts
      <4>2. d \in Nat /\ d >= 1 /\ i \in Nat /\ i >= 1
        BY <4>1
      <4>3. QED BY <3>1, <4>2 DEF Passed
    <3>3. Total(SubSeq(entries', 1, at' - 1)) = 0 /\ Len(a.members) \in Nat
      <4>1. entries \in Seq(Listed) /\ Len(a.members) \in Nat
        BY <2>1, Layout, ListingFacts
      <4>2. Total(SubSeq(entries, 1, 0)) = 0
        BY <4>1, BytesUpTo
      <4>3. at' - 1 = 0 /\ entries' = entries
        BY <3>1
      <4>4. QED BY <4>1, <4>2, <4>3
    <3>4. Built(a)'
      BY <3>1, <3>2, <3>3 DEF Built
    <3>5. QED BY <1>1, <2>1, <3>1, <3>4, MadeNow
  <2>4. QED BY <2>2, <2>3
<1>7. CASE CheckTarget
  <2>1. /\ lock.kind = "archive" /\ Good(a) /\ answer = "none" /\ made /\ Built(a)
        /\ UNCHANGED <<lock, ignoreCase, made, nodes, at, depth, created, written, entries>>
        /\ answer' # "extracted" /\ pc' # "target"
    BY <1>1, <1>7 DEF CheckTarget, HeldOK, Holding, Members, ReadOK, MadeOK, Answer, setting, tree,
                      progress, walkVars
  <2>2. Built(a)'
    BY <2>1, BuiltSame
  <2>3. QED BY <1>1, <2>1, <2>2, MadeNow
<1>8. CASE FinishExtraction
  <2>1. /\ lock.kind = "archive" /\ Good(a) /\ pc = "extract" /\ Built(a) /\ at > Len(entries)
        /\ entries = Listing(a.members)
        /\ UNCHANGED <<lock, ignoreCase, made, nodes>> /\ pc' = "idle"
    BY <1>1, <1>8 DEF FinishExtraction, HeldOK, Holding, Members, MadeOK, Answer, setting, tree
  <2>2. {n \in nodes : n.own} = Meant
    BY <1>1, <2>1, BuiltAll
  <2>3. Meant' = Meant /\ (Good(lock.archive)' <=> Good(lock.archive))
    BY <2>1 DEF Meant, Members, Node, OnHost, Good
  <2>4. QED BY <1>1, <2>1, <2>2, <2>3 DEF MadeOK
<1>9. CASE OperationFails
  <2>1. UNCHANGED <<lock, ignoreCase, made>> /\ pc' = "idle" /\ answer' \in {"store", "io"}
    BY <1>9 DEF OperationFails, Answer, setting
  <2>2. CASE UNCHANGED nodes
    BY <1>4, <2>1, <2>2
  <2>3. CASE Extracting
    <3>1. Good(a) /\ lock.kind = "archive" /\ made
      BY <1>1, <2>3, WhereItIs DEF MadeOK, Extracting
    <3>2. QED BY <1>1, <2>1, <3>1, MadeNow
  <2>4. QED BY <1>9, <2>2, <2>3 DEF OperationFails
<1>10. CASE Intrude
  <2>1. /\ pc \in {"target", "extract"} /\ made /\ answer = "none"
        /\ UNCHANGED <<lock, ignoreCase, made, pc, answer, at, depth, created, written, entries>>
    BY <1>10 DEF Intrude, ReadOK, setting, progress, walkVars
  <2>2. PICK new : nodes' = nodes \cup {new} /\ ~new.own
    <3>1. PICK name, kind : nodes' = nodes \cup {Node(name, kind, FALSE, <<>>)}
      BY <1>10 DEF Intrude
    <3>2. ~Node(name, kind, FALSE, <<>>).own
      BY DEF Node
    <3>3. QED BY <3>1, <3>2
  <2>3. \A n : n \in nodes' /\ n.own <=> n \in nodes /\ n.own
    BY <2>2
  <2>4. Built(a) /\ lock.kind = "archive" /\ Good(a)
    BY <1>1, <2>1 DEF MadeOK, HeldOK, Holding
  <2>5. Built(a)'
    BY <2>1, <2>3, <2>4, BuiltSame
  <2>6. pc' = "target" => at' = 1 /\ depth' = 1
    BY <2>1 DEF MadeOK
  <2>7. QED BY <1>1, <2>1, <2>4, <2>5, <2>6, MadeNow
<1>11. QED
  BY <1>2, <1>3, <1>5, <1>6, <1>7, <1>8, <1>9, <1>10 DEF Next

\* The inductive invariant of what a call has read, found, holds and has made.
LoadedOK == ReadOK /\ WalkedOK /\ HeldOK /\ MadeOK

\* The first states satisfy the invariant of what was loaded.
LEMMA InitLoaded == Init => LoadedOK
<1> SUFFICES ASSUME Init PROVE LoadedOK
  OBVIOUS
<1>1. /\ pc = "idle" /\ answer = "none" /\ exchanges = 0 /\ made = FALSE /\ nodes = {}
      /\ staged = lock.archive.blocks
  BY DEF Init
<1>2. ReadOK
  BY <1>1 DEF ReadOK
<1>3. WalkedOK /\ HeldOK /\ MadeOK
  BY <1>1 DEF WalkedOK, HeldOK, Holding, MadeOK
<1>4. QED BY <1>2, <1>3 DEF LoadedOK

\* The inductive invariant of reading, walking, holding and making: for any archives, calls
\* and mishaps.
THEOREM LoadedInvariant == Spec => [](IInv /\ LoadedOK)
<1>1. Init => IInv /\ LoadedOK
  BY InitIInv, InitLoaded
<1>2. IInv /\ LoadedOK /\ [Next]_vars => (IInv /\ LoadedOK)'
  BY WalkStays, TreeStays, ProgressStays, ReadStays, WalkedStays, HeldStays, MadeStays
     DEF IInv, LoadedOK
<1> QED
  BY <1>1, <1>2, PTL DEF Spec

\* read_ustar_inventory and validate_source_archive_inventory accept an archive exactly if
\* it is well formed, portable and within the limits.
THEOREM GoodAccepted == Spec => []AcceptsExactly
<1>1. IInv /\ LoadedOK => AcceptsExactly
  <2> SUFFICES ASSUME IInv, LoadedOK, pc = "walk", walk \in {"accepted", "refused"}
               PROVE  walk = "accepted" <=>
                        /\ WellFormed(lock.archive) /\ Len(bytes) * Block <= MaxArchive
                        /\ Portable(Members) /\ WithinLimits(Members)
    BY DEF AcceptsExactly
  <2>1. PICK a \in Archives : a = lock.archive
    BY DEF IInv, WalkOK
  <2>2. Walking(a) /\ bytes = a.blocks
    BY <2>1 DEF Walking, IInv, WalkOK
  <2>3. walk = "accepted" => Good(a)
    BY <2>1, <2>2, AcceptedGood DEF LoadedOK, WalkedOK
  <2>4. walk = "refused" => ~Good(a)
    BY <2>1 DEF LoadedOK, WalkedOK
  <2>5. Good(a) <=>
          /\ WellFormed(lock.archive) /\ Len(bytes) * Block <= MaxArchive
          /\ Portable(Members) /\ WithinLimits(Members)
    BY <2>1, <2>2 DEF Good, Members
  <2>6. QED BY <2>3, <2>4, <2>5
<1> QED
  BY <1>1, LoadedInvariant, PTL

\* A loaded snapshot has the bytes of every member, and an extraction that answers Ok has
\* made the whole tree and nothing else, also after others wrote over the stage or an
\* earlier call failed half way.
THEOREM LoadedExact == Spec => []OutcomeExact
<1>1. IInv /\ LoadedOK => OutcomeExact
  <2> SUFFICES ASSUME IInv, LoadedOK PROVE OutcomeExact
    OBVIOUS
  <2>1. PICK a \in Archives : a = lock.archive
    BY DEF IInv, WalkOK
  <2>2. ASSUME answer = "loaded"
        PROVE  /\ lock.kind = "archive"
               /\ DOMAIN files = {Members[i].name : i \in {j \in DOMAIN Members : Members[j].kind = "file"}}
               /\ \A i \in DOMAIN Members :
                    Members[i].kind = "file" => FileBytes(Members[i].name) = Members[i].content
    <3>1. /\ lock.kind = "archive" /\ Good(a) /\ bytes = a.blocks
          /\ InPlace(files, a, Len(a.members))
      BY <2>1, <2>2 DEF LoadedOK, HeldOK, Holding, Members
    <3>2. DOMAIN a.members = 1..Len(a.members)
      BY Layout, ListingFacts
    <3>3. DOMAIN files = FileNames(a.members, Len(a.members))
      BY <3>1 DEF InPlace
    <3>4. \A i \in DOMAIN a.members :
             a.members[i].kind = "file" => FileBytes(a.members[i].name) = a.members[i].content
      BY <3>1, <3>2, ContentThere
    <3>5. QED BY <2>1, <3>1, <3>2, <3>3, <3>4 DEF Members, FileNames
  <2>3. answer = "extracted" => {n \in nodes : n.own} = Meant
    BY DEF LoadedOK, MadeOK
  <2>4. QED BY <2>2, <2>3 DEF OutcomeExact
<1> QED
  BY <1>1, LoadedInvariant, PTL

-----------------------------------------------------------------------------
(* An accepted archive extracts *)

Blame == faults \in Nat /\ AcceptedExtracts

\* A call that has made something, in a stage nobody else has touched, has done it with a good archive.
LEMMA OwnWork ==
  ASSUME IInv, LoadedOK, nodes # {}, Foreign = {}
  PROVE  lock.kind = "archive" /\ Good(lock.archive)
<1>1. PICK n \in nodes : n.own
  BY DEF Foreign
<1>2. QED BY <1>1 DEF LoadedOK, MadeOK

\* The list of a good archive is accepted.
LEMMA GoodListed ==
  ASSUME NEW a \in Archives, Good(a)
  PROVE  /\ ValidateInventory(Listing(a.members)).ok
         /\ ValidateInventory(Listing(a.members)).total = Total(Listing(a.members))
         /\ \A i \in 1..Len(a.members) : Len(a.members[i].content) <= MaxEntryBytes
         /\ Total(Listing(a.members)) <= MaxTotal
<1>1. a.members \in Seq(Member) /\ Listing(a.members) \in Seq(Listed)
      /\ DOMAIN a.members = 1..Len(a.members)
  BY Layout, ListingFacts
<1>2. \A i \in 1..Len(a.members) : a.members[i].kind = "dir" => Len(a.members[i].content) = 0
  BY GoodFacts, EmptySeq
<1>3. Portable(a.members) /\ WithinLimits(a.members)
  BY DEF Good
<1>4. Acceptable(Listing(a.members))
  BY <1>1, <1>2, <1>3, AcceptableMembers
<1>5. QED BY <1>1, <1>3, <1>4, InventoryDecides DEF WithinLimits

\* Refused although something of the call's own is there: only if others had a hand in it.
LEMMA NotRefused ==
  ASSUME IInv, LoadedOK, Answer("refused"),
         RefuseAtOnce \/ ReadStaged \/ Verify \/ InspectRefused \/ Index \/ CheckTarget
           \/ WriteFile \/ FinishExtraction
  PROVE  nodes = {} \/ Foreign # {} \/ exchanges > 0
<1> SUFFICES ASSUME nodes # {}, Foreign = {}, ~(exchanges > 0) PROVE FALSE
  OBVIOUS
<1>1. PICK a \in Archives : a = lock.archive
  BY DEF IInv, WalkOK
<1>2. lock.kind = "archive" /\ Good(a) /\ exchanges = 0
  BY <1>1, OwnWork DEF LoadedOK, ReadOK
<1>3. pc' = "idle" /\ answer' = "refused"
  BY DEF Answer
<1>4. CASE RefuseAtOnce
  BY <1>2, <1>3, <1>4 DEF RefuseAtOnce, Answer
<1>5. CASE ReadStaged
  <2>1. staged = a.blocks
    BY <1>1, <1>2 DEF LoadedOK, ReadOK
  <2>2. ~(Len(staged) * Block > MaxArchive)
    <3>1. Len(a.blocks) * Block <= MaxArchive
      BY <1>2 DEF Good
    <3>2. Len(a.blocks) * Block \in Nat /\ MaxArchive \in Nat
      BY Layout, BlockAssumption, Times
    <3>3. QED BY <2>1, <3>1, <3>2
  <2>3. QED BY <1>3, <1>5, <2>2 DEF ReadStaged
<1>6. CASE Verify
  <2>1. DigestMatches
    BY <1>2, <1>6 DEF Verify, LoadedOK, ReadOK, DigestMatches
  <2>2. QED BY <1>3, <1>6, <2>1 DEF Verify
<1>7. CASE InspectRefused
  BY <1>1, <1>2, <1>7 DEF InspectRefused, LoadedOK, WalkedOK
<1>8. CASE Index
  <2>1. pc = "walk" /\ walk = "accepted" /\ Walking(a) /\ Found(a) /\ WalkAt(a)
    BY <1>1, <1>8 DEF Index, IInv, WalkOK, LoadedOK, WalkedOK, Walking
  <2>2. entries = Listing(a.members) /\ bytes = a.blocks
    BY <2>1, AcceptedGood DEF Walking
  <2> DEFINE placed == FoldLeft(Place, NothingPlaced, Listing(a.members))
  <2>3. placed.offset <= Len(a.blocks) * Block
    BY <1>2, AllPlaced
  <2>4. placed = FoldLeft(Place, [offset |-> 0, files |-> <<>>], entries)
    BY <2>2 DEF NothingPlaced
  <2> HIDE DEF placed
  <2>5. pc' = "tree" \/ answer' = "loaded"
    BY <1>8, <2>2, <2>3, <2>4 DEF Index, Answer
  <2>6. QED BY <1>3, <2>5
<1>9. CASE CheckTarget
  <2>1. entries = Listing(a.members)
    BY <1>1, <1>9 DEF CheckTarget, LoadedOK, HeldOK, Holding, Members
  <2>2. ValidateInventory(entries).ok
    BY <1>2, <2>1, GoodListed
  <2>3. QED BY <1>3, <1>9, <2>2 DEF CheckTarget, Answer
<1>10. CASE WriteFile
  <2>1. Extracting /\ AtLeaf /\ pc = "extract"
    BY <1>10 DEF WriteFile, Extracting
  <2>2. /\ at \in 1..Len(a.members) /\ entries = Listing(a.members)
        /\ Len(FileBytes(Here)) = entries[at].bytes
        /\ entries[at].bytes = Len(a.members[at].content)
    BY <1>1, <2>1, WhereItIs, NodeHere DEF LoadedOK
  <2>3. written = Total(SubSeq(entries, 1, at - 1))
    BY <1>1, <2>1 DEF LoadedOK, MadeOK, Built
  <2>4. entries[at].bytes <= MaxEntryBytes /\ Total(entries) <= MaxTotal
    BY <1>2, <2>2, GoodListed
  <2>5. written + entries[at].bytes <= Total(entries)
    <3>1. entries \in Seq(Listed) /\ Len(entries) = Len(a.members) /\ Len(a.members) \in Nat
      BY <2>2, Layout, ListingFacts
    <3>2. at - 1 \in 0..(Len(entries) - 1) /\ at \in 0..Len(entries) /\ (at - 1) + 1 = at
      BY <2>2, <3>1
    <3>3. Total(SubSeq(entries, 1, at - 1 + 1))
             = Total(SubSeq(entries, 1, at - 1)) + entries[at - 1 + 1].bytes
      BY <3>1, <3>2, BytesUpTo
    <3>4. Total(SubSeq(entries, 1, at)) <= Total(entries)
      BY <3>1, <3>2, BytesUpTo
    <3>5. QED BY <2>3, <3>2, <3>3, <3>4
  <2>6. written + entries[at].bytes <= MaxTotal
    <3>1. /\ written \in Nat /\ entries[at].bytes \in Nat /\ Total(entries) \in Nat
          /\ MaxTotal \in Nat
      <4>1. entries \in Seq(Listed) /\ Len(entries) = Len(a.members) /\ Len(a.members) \in Nat
            /\ a.members[at].content \in Seq(STRING)
        BY <2>2, Layout, ListingFacts DEF Member
      <4>2. at - 1 \in 0..Len(entries) /\ Len(entries) \in 0..Len(entries)
        BY <2>2, <4>1
      <4>3. Total(SubSeq(entries, 1, at - 1)) \in Nat
        BY <4>1, <4>2, BytesUpTo
      <4>4. Total(entries) \in Nat
        BY <4>1, <4>2, BytesUpTo
      <4>5. entries[at].bytes \in Nat
        BY <2>2, <4>1
      <4>6. QED BY <2>3, <4>3, <4>4, <4>5, LimitAssumption
    <3>2. QED BY <2>4, <2>5, <3>1
  <2>7. ~(Len(FileBytes(Here)) # entries[at].bytes
          \/ written + Len(FileBytes(Here)) > MaxTotal \/ Len(FileBytes(Here)) > MaxEntryBytes)
    <3>1. entries[at].bytes \in Nat /\ written \in Nat /\ MaxTotal \in Nat /\ MaxEntryBytes \in Nat
      <4>1. a.members[at].content \in Seq(STRING)
        BY <2>2, Layout, ListingFacts DEF Member
      <4>2. entries[at].bytes \in Nat
        BY <2>2, <4>1
      <4>3. entries \in Seq(Listed) /\ at - 1 \in 0..Len(entries)
        BY <2>2, Layout, ListingFacts
      <4>4. QED BY <2>3, <4>2, <4>3, BytesUpTo, LimitAssumption
    <3>2. QED BY <2>2, <2>4, <2>6, <3>1
  <2>8. answer' # "refused" \/ UNCHANGED answer
    BY <1>10, <2>7 DEF WriteFile, Answer
  <2>9. answer = "none"
    BY <2>1 DEF LoadedOK, ReadOK
  <2>10. QED BY <1>3, <2>8, <2>9
<1>11. CASE FinishExtraction
  <2>1. /\ entries = Listing(a.members) /\ pc = "extract" /\ at > Len(entries) /\ Built(a)
    BY <1>1, <1>11 DEF FinishExtraction, LoadedOK, HeldOK, Holding, Members, MadeOK
  <2>2. written = Total(Listing(a.members))
    BY <1>1, <1>2, <2>1, BuiltAll
  <2>3. written = ValidateInventory(entries).total
    BY <1>2, <2>1, <2>2, GoodListed
  <2>4. QED BY <1>3, <1>11, <2>3 DEF FinishExtraction, Answer
<1>12. QED
  BY <1>4, <1>5, <1>6, <1>7, <1>8, <1>9, <1>10, <1>11

\* What is in the way of an extraction of its own making is no accident of its archive.
LEMMA InTheWay ==
  ASSUME IInv, LoadedOK, Extracting, NodeAt(Here) # {}, Foreign = {}
  PROVE  ~AtLeaf /\ MayEnter
<1>1. PICK a \in Archives : a = lock.archive
  BY DEF IInv, WalkOK
<1>2. /\ Good(a) /\ at \in 1..Len(a.members) /\ depth \in 1..Len(a.members[at].name)
      /\ Here = SubSeq(a.members[at].name, 1, depth)
      /\ AtLeaf => depth = Len(a.members[at].name) /\ a.members[at].kind = "file"
  BY <1>1, WhereItIs DEF LoadedOK
<1>3. Built(a)
  BY <1>1 DEF LoadedOK, MadeOK, Extracting
<1>4. PICK n \in nodes : n.name = OnHost(Here) /\ n.own
  BY DEF NodeAt, Foreign
<1>5. PICK i \in 1..Len(a.members) : \E d \in 1..Len(a.members[i].name) :
          Passed(i, d) /\ n = NodeOf(a, i, d)
  BY <1>3, <1>4 DEF Built
<1>6. PICK d \in 1..Len(a.members[i].name) : Passed(i, d) /\ n = NodeOf(a, i, d)
  BY <1>5
<1>7. OnHost(SubSeq(a.members[i].name, 1, d)) = OnHost(SubSeq(a.members[at].name, 1, depth))
  <2>1. n.name = OnHost(SubSeq(a.members[i].name, 1, d))
    BY <1>6 DEF NodeOf, Node
  <2>2. QED BY <1>2, <1>4, <2>1
<1>8. /\ SubSeq(a.members[i].name, 1, d) = SubSeq(a.members[at].name, 1, depth) /\ d = depth
      /\ a.members[i].kind = "file" /\ d = Len(a.members[i].name) => i = at
      /\ a.members[at].kind = "file" /\ depth = Len(a.members[at].name) => at = i
  <2> DEFINE start(k, f) == SubSeq(a.members[k].name, 1, f)
             host(k, f) == OnHost(SubSeq(a.members[k].name, 1, f))
             whole(k, f) == a.members[k].kind = "file" /\ f = Len(a.members[k].name)
             parts(k) == 1..Len(a.members[k].name)
             all == 1..Len(a.members)
  <2>1. \A k \in all : \A m \in all : \A f \in parts(k) : \A g \in parts(m) :
           host(k, f) = host(m, g) =>
             /\ start(k, f) = start(m, g) /\ f = g
             /\ a.members[k].kind = "file" /\ f = Len(a.members[k].name) =>
                  k = m /\ g = Len(a.members[m].name)
    BY <1>2, BeginningsMeet, Zenon
  <2>2. \A k \in all : \A m \in all : \A f \in parts(k) : \A g \in parts(m) :
           host(k, f) = host(m, g) =>
             start(k, f) = start(m, g) /\ f = g /\ (whole(k, f) => k = m)
    BY ONLY <2>1, SMT
  <2>3. i \in all /\ at \in all /\ d \in parts(i) /\ depth \in parts(at)
    BY <1>2, <1>6
  <2>4. host(i, d) = host(at, depth)
    BY <1>7
  <2>5. /\ start(i, d) = start(at, depth) /\ d = depth
        /\ (whole(i, d) => i = at) /\ (whole(at, depth) => at = i)
    <3> HIDE DEF start, host, whole, parts, all
    <3> QED BY ONLY <2>2, <2>3, <2>4, SMT
  <2>6. QED BY <2>5
<1>9. ~Passed(at, depth)
  <2>1. at \in Nat /\ depth \in Nat
    <3>1. Len(a.members) \in Nat /\ a.members[at].name \in Name
      BY <1>2, Layout, ListingFacts
    <3>2. Len(a.members[at].name) \in Nat
      BY <3>1, NameFacts
    <3>3. QED BY <1>2, <3>1, <3>2
  <2>2. QED BY <2>1 DEF Passed
<1>10. ~AtLeaf
  <2> SUFFICES ASSUME AtLeaf PROVE FALSE
    OBVIOUS
  <2>1. at = i
    BY <1>2, <1>8
  <2>2. QED BY <1>6, <1>8, <1>9, <2>1
<1>11. KindOf(a, i, d) = "dir"
  <2> SUFFICES ASSUME KindOf(a, i, d) # "dir" PROVE FALSE
    OBVIOUS
  <2>1. d = Len(a.members[i].name) /\ a.members[i].kind = "file"
    BY <1>2, GoodFacts DEF KindOf
  <2>2. i = at
    BY <1>8, <2>1
  <2>3. QED BY <1>6, <1>8, <1>9, <2>2
<1>12. Here \in created
  BY <1>2, <1>3, <1>6, <1>8, <1>11 DEF Built
<1>13. QED BY <1>10, <1>12 DEF MayEnter

\* No step lets an accepted archive stand in its own way.
LEMMA BlameStays ==
  ASSUME IInv, LoadedOK, Blame, [Next]_vars
  PROVE  Blame'
<1>1. faults \in Nat /\ exchanges \in Nat /\ (pc # "idle" => answer = "none")
  BY DEF Blame, LoadedOK, ReadOK
<1>2. ASSUME UNCHANGED <<nodes, faults, exchanges>>, answer' \notin {"unsafe", "io", "refused"}
      PROVE  Blame'
  BY <1>1, <1>2 DEF Blame, AcceptedExtracts
<1>3. ASSUME UNCHANGED <<nodes, faults, exchanges>>, Answer("refused"),
             RefuseAtOnce \/ ReadStaged \/ Verify \/ InspectRefused \/ Index \/ CheckTarget
               \/ WriteFile \/ FinishExtraction
      PROVE  Blame'
  BY <1>1, <1>3, NotRefused DEF Blame, AcceptedExtracts, Answer, Foreign
<1>4. CASE \/ \E g \in {"load", "cached", "extract"} : Call(g)
           \/ FetchCached \/ Inspect \/ BeginTree
  <2>1. UNCHANGED <<nodes, faults, exchanges>> /\ answer' \notin {"unsafe", "io", "refused"}
    BY <1>1, <1>4 DEF Call, FetchCached, Inspect, BeginTree, Answer, tree, counts
  <2>2. QED BY <1>2, <2>1
<1>5. CASE RefuseAtOnce \/ ReadStaged \/ Verify \/ InspectRefused \/ Index \/ FinishExtraction
  <2>1. UNCHANGED <<nodes, faults, exchanges>>
    BY <1>5 DEF RefuseAtOnce, ReadStaged, Verify, InspectRefused, Index, FinishExtraction, tree, counts
  <2>2. Answer("refused") \/ answer' \notin {"unsafe", "io", "refused"}
    BY <1>1, <1>5 DEF RefuseAtOnce, ReadStaged, Verify, InspectRefused, Index, FinishExtraction, Answer
  <2>3. QED BY <1>2, <1>3, <1>5, <2>1, <2>2
<1>6. CASE CheckTarget
  <2>1. UNCHANGED <<nodes, faults, exchanges>>
    BY <1>6 DEF CheckTarget, tree, counts
  <2>2. CASE Answer("refused")
    BY <1>3, <1>6, <2>1, <2>2
  <2>3. CASE nodes # {} /\ Answer("unsafe")
    <3>1. Built(lock.archive) /\ at = 1 /\ depth = 1
      BY <1>6 DEF CheckTarget, LoadedOK, MadeOK
    <3>2. PICK a \in Archives : a = lock.archive
      BY DEF IInv, WalkOK
    <3>3. \A i \in 1..Len(a.members) : \A d \in 1..Len(a.members[i].name) : ~Passed(i, d)
      <4> TAKE i \in 1..Len(a.members)
      <4> TAKE d \in 1..Len(a.members[i].name)
      <4>1. a.members[i].name \in Name /\ Len(a.members) \in Nat
        BY Layout, ListingFacts
      <4>2. Len(a.members[i].name) \in Nat
        BY <4>1, NameFacts
      <4>3. i >= 1 /\ d >= 1
        BY <4>1, <4>2
      <4>4. QED BY <3>1, <4>1, <4>2, <4>3 DEF Passed
    <3>4. \A n \in nodes : ~n.own
      BY <3>1, <3>2, <3>3 DEF Built
    <3>5. Foreign' # {}
      BY <2>1, <2>3, <3>4 DEF Foreign
    <3>6. QED BY <1>1, <2>1, <3>5 DEF Blame, AcceptedExtracts
  <2>4. CASE UNCHANGED answer
    BY <1>1, <1>2, <1>6, <2>1, <2>4 DEF CheckTarget
  <2>5. QED BY <1>6, <2>2, <2>3, <2>4 DEF CheckTarget
<1>7. CASE EnsureSubdirectory
  <2>1. UNCHANGED <<faults, exchanges>> /\ Extracting /\ answer = "none"
    BY <1>1, <1>7 DEF EnsureSubdirectory, counts, Extracting
  <2>2. CASE UNCHANGED answer
    BY <1>1, <2>1, <2>2 DEF Blame, AcceptedExtracts
  <2>3. CASE NodeAt(Here) # {} /\ ~MayEnter /\ UNCHANGED nodes
    <3>1. Foreign # {}
      BY <2>1, <2>3, InTheWay
    <3>2. QED BY <1>1, <2>1, <2>3, <3>1 DEF Blame, AcceptedExtracts, Foreign
  <2>4. QED BY <1>7, <2>2, <2>3 DEF EnsureSubdirectory
<1>8. CASE WriteFile
  <2>1. UNCHANGED <<faults, exchanges>> /\ Extracting /\ AtLeaf /\ answer = "none"
    BY <1>1, <1>8 DEF WriteFile, counts, Extracting
  <2>2. CASE UNCHANGED answer
    BY <1>1, <2>1, <2>2 DEF Blame, AcceptedExtracts
  <2>3. CASE Answer("refused") /\ UNCHANGED nodes
    BY <1>3, <1>8, <2>1, <2>3
  <2>4. CASE NodeAt(Here) # {} /\ UNCHANGED nodes
    <3>1. Foreign # {}
      BY <2>1, <2>4, InTheWay
    <3>2. QED BY <1>1, <2>1, <2>4, <3>1 DEF Blame, AcceptedExtracts, Foreign
  <2>5. QED BY <1>8, <2>2, <2>3, <2>4 DEF WriteFile
<1>9. CASE OperationFails
  <2>1. faults' > 0 /\ faults' \in Nat
    BY <1>1, <1>9 DEF OperationFails, Fault
  <2>2. QED BY <2>1 DEF Blame, AcceptedExtracts
<1>10. CASE Exchange
  <2>1. exchanges' > 0 /\ faults' = faults
    BY <1>1, <1>10 DEF Exchange
  <2>2. QED BY <1>1, <2>1 DEF Blame, AcceptedExtracts
<1>11. CASE Intrude
  <2>1. answer' = "none" /\ faults' = faults
    BY <1>1, <1>11 DEF Intrude, counts
  <2>2. QED BY <1>1, <2>1 DEF Blame, AcceptedExtracts
<1>12. CASE UNCHANGED vars
  BY <1>12 DEF vars, tree, counts, Blame, AcceptedExtracts, Foreign
<1>13. QED
  BY <1>4, <1>5, <1>6, <1>7, <1>8, <1>9, <1>10, <1>11, <1>12 DEF Next

\* An accepted archive extracts on every host: if its extraction is refused, unsafe or
\* fails, an operation failed, or somebody else was in the tree or at the stage.
THEOREM AcceptedExtract == Spec => []AcceptedExtracts
<1>1. Init => Blame
  BY DEF Init, Blame, AcceptedExtracts
<1>2. IInv /\ LoadedOK /\ Blame /\ [Next]_vars => Blame'
  BY BlameStays
<1>3. Spec => []Blame
  BY <1>1, <1>2, LoadedInvariant, PTL DEF Spec
<1>4. Blame => AcceptedExtracts
  BY DEF Blame
<1> QED
  BY <1>3, <1>4, PTL
=============================================================================
