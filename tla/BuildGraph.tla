----------------------------- MODULE BuildGraph -----------------------------
(***************************************************************************)
(* DependencyGraph of crates/prep-core/src/graph.rs: the build order of a   *)
(* lockfile by depth-first search.  A package is a number and numbers are   *)
(* in the order of package names, in which every list is sorted.  The       *)
(* search is a state machine, one step for each call and return of visit:   *)
(* since a visited dependency is permanent when its visit returns, a loop   *)
(* over sorted dependencies goes on with the least one not yet permanent.   *)
(***************************************************************************)
EXTENDS Naturals, Sequences, FiniteSets

CONSTANTS
    Package, Missing,  \* locked packages; a name no package has
    StackRoom          \* nested calls of visit for which the thread's stack has room

ASSUME PackageAssumption ==
    Package \subseteq Nat /\ IsFiniteSet(Package) /\ Missing \in Nat \ Package

\* The longest path of a lockfile without a cycle fits the stack; no endless one does.
ASSUME RoomAssumption == StackRoom \in Nat /\ Cardinality(Package) <= StackRoom

VARIABLES
    roots, deps,  \* dependencies of the lockfile's root, and of its packages
    permanent, temporary, stack, order,
    cycle,        \* the packages a Cycle error names
    outcome       \* "load", "visit", then "ok", "missing", "cycle", or "aborted"

lock == <<roots, deps>>
search == <<permanent, temporary, stack, order>>
vars == <<lock, search, cycle, outcome>>

Name == Package \cup {Missing}

Elements(s) == {s[i] : i \in DOMAIN s}

TypeOK ==
    /\ roots \subseteq Name /\ deps \in [Package -> SUBSET Name]
    /\ permanent \subseteq Package /\ temporary \subseteq Package \ permanent
    /\ stack \in Seq(Package) /\ order \in Seq(Package) /\ cycle \in Seq(Package)
    /\ outcome \in {"load", "visit", "ok", "missing", "cycle", "aborted"}

\* Any lockfile that Lockfile::validate accepts: no list has duplicates.
Init ==
    /\ roots \in SUBSET Name /\ deps \in [Package -> SUBSET Name]
    /\ permanent = {} /\ temporary = {} /\ stack = <<>> /\ order = <<>>
    /\ cycle = <<>> /\ outcome = "load"

-----------------------------------------------------------------------------
Known(names) == names \subseteq Package

\* from_lockfile refuses names of packages that are not locked, reachable or not.
Load ==
    /\ outcome = "load"
    /\ outcome' = IF Known(roots) /\ \A p \in Package : Known(deps[p])
                  THEN "visit" ELSE "missing"
    /\ UNCHANGED <<lock, search, cycle>>

\* What dependencies.get finds: a name that is not locked would be visited as a leaf.
DependenciesOf(p) == IF p \in Package THEN deps[p] ELSE {}

\* The dependencies whose visits have not yet returned, in sorted order.
NextOf(names, p) == p \in names \ permanent /\ \A q \in names \ permanent : p <= q

\* A call of visit too many for the thread's stack ends the process.
Enter(p) ==
    /\ outcome' = IF Len(stack) < StackRoom THEN outcome ELSE "aborted"
    /\ temporary' = temporary \cup {p}
    /\ stack' = Append(stack, p)
    /\ UNCHANGED <<lock, permanent, order, cycle>>

\* A package that is being visited: the stack from there on, and the package again.
BrokenReport(p) ==
    /\ cycle' = Append(stack, p)
    /\ outcome' = "cycle"
    /\ UNCHANGED <<lock, search>>
Report(p) ==
    /\ \E i \in DOMAIN stack :
         /\ stack[i] = p
         /\ cycle' = Append(SubSeq(stack, i, Len(stack)), p)
    /\ outcome' = "cycle"
    /\ UNCHANGED <<lock, search>>

Top == stack[Len(stack)]

VisitRoot(p) ==
    /\ outcome = "visit" /\ stack = <<>>
    /\ NextOf(roots, p)
    /\ Enter(p)

BrokenVisitDependency(p) ==
    /\ outcome = "visit" /\ stack # <<>>
    /\ NextOf(DependenciesOf(Top), p)
    /\ Enter(p)
VisitDependency(p) ==
    /\ outcome = "visit" /\ stack # <<>>
    /\ NextOf(DependenciesOf(Top), p)
    /\ IF p \in temporary THEN Report(p) ELSE Enter(p)

BrokenReturn ==
    /\ outcome = "visit" /\ stack # <<>>
    /\ DependenciesOf(Top) \subseteq permanent \cup temporary
    /\ stack' = SubSeq(stack, 1, Len(stack) - 1)
    /\ temporary' = temporary \ {Top}
    /\ permanent' = permanent \cup {Top}
    /\ order' = Append(order, Top)
    /\ UNCHANGED <<lock, cycle, outcome>>
Return ==
    /\ outcome = "visit" /\ stack # <<>>
    /\ DependenciesOf(Top) \subseteq permanent
    /\ stack' = SubSeq(stack, 1, Len(stack) - 1)
    /\ temporary' = temporary \ {Top}
    /\ permanent' = permanent \cup {Top}
    /\ order' = Append(order, Top)
    /\ UNCHANGED <<lock, cycle, outcome>>

BrokenFinish ==
    /\ outcome = "visit" /\ stack = <<>> /\ order # <<>>
    /\ outcome' = "ok"
    /\ UNCHANGED <<lock, search, cycle>>
Finish ==
    /\ outcome = "visit" /\ stack = <<>> /\ roots \subseteq permanent
    /\ outcome' = "ok"
    /\ UNCHANGED <<lock, search, cycle>>

Next ==
    \/ Load
    \/ \E p \in Name : VisitRoot(p) \/ VisitDependency(p)
    \/ Return \/ Finish

Spec == Init /\ [][Next]_vars

-----------------------------------------------------------------------------
(* Properties *)

\* Everything a package depends on is built before it, and nothing is built twice.
DependenciesFirst ==
    /\ \A i \in DOMAIN order : deps[order[i]] \subseteq {order[j] : j \in 1..(i - 1)}
    /\ \A i, j \in DOMAIN order : order[i] = order[j] => i = j

\* What the roots need: the least set with the roots that is closed under deps.
Needed(set) ==
    /\ roots \subseteq set
    /\ \A p \in set \cap Package : deps[p] \subseteq set

\* An order that is returned has all that the roots need, and nothing else.
OrderIsWhatRootsNeed ==
    outcome = "ok" =>
        /\ Needed(Elements(order))
        /\ \A set \in SUBSET Package : Needed(set) => Elements(order) \subseteq set

\* A reported cycle is one: a path of dependencies that comes back to where it began,
\* among the packages that the roots need.
CycleIsReal ==
    outcome = "cycle" =>
        /\ Len(cycle) > 1 /\ cycle[1] = cycle[Len(cycle)]
        /\ \A i \in 1..(Len(cycle) - 1) : cycle[i + 1] \in deps[cycle[i]]
        /\ \A set \in SUBSET Package : Needed(set) => Elements(cycle) \subseteq set

\* What the search knows of its state: the sets are those of the sequences, the stack
\* is a path of dependencies without repetition, and all of it is needed.
Search ==
    /\ permanent = Elements(order) /\ temporary = Elements(stack)
    /\ \A i, j \in DOMAIN stack : stack[i] = stack[j] => i = j
    /\ \A i \in 1..(Len(stack) - 1) : stack[i + 1] \in deps[stack[i]]
    /\ \A set \in SUBSET Package : Needed(set) => permanent \cup temporary \subseteq set

\* The search has only names that are locked, and room for the path it is on.
Loaded ==
    /\ outcome = "visit" => Known(roots) /\ \A p \in Package : Known(deps[p])
    /\ outcome # "aborted"

\* The inductive invariant.
IInv == TypeOK /\ Loaded /\ Search /\ DependenciesFirst /\ OrderIsWhatRootsNeed /\ CycleIsReal

\* Until it ends the search can go on, and within the room of the stack: among the names
\* it has to visit there is none left, or a first one, a locked package that can be
\* entered or stands on the stack.
SearchNeverStuck ==
    /\ outcome # "aborted"
    /\ outcome = "visit" =>
        LET names == IF stack = <<>> THEN roots ELSE DependenciesOf(Top)
        IN  \/ names \subseteq permanent
            \/ \E p \in Package : /\ NextOf(names, p)
                                  /\ p \in temporary => \E i \in DOMAIN stack : stack[i] = p

\* A search takes no more steps than these: each package is entered and left once.
StepsLeft ==
    IF outcome = "load" THEN 2 * Cardinality(Package) + 2
    ELSE IF outcome = "visit"
    THEN 2 * Cardinality(Package \ permanent) - Cardinality(temporary) + 1
    ELSE 0

\* Every step of visit brings its end nearer, so the recursion is bounded by the lockfile.
SearchShrinks == [][StepsLeft' < StepsLeft /\ StepsLeft' \in Nat]_vars

\* The search ends, with an order or an error.
SearchEnds == <>(outcome \in {"ok", "missing", "cycle"})

=============================================================================
