----------------------------- MODULE ResultStore -----------------------------
(***************************************************************************)
(* What the result store promises its callers: an identity has no result    *)
(* or one complete tree, a result appears in one step, and nothing ever     *)
(* changes or removes a result that appeared.                               *)
(***************************************************************************)
CONSTANTS ResultId,   \* result identities
          Tree        \* acceptable output trees, as sets of entries

VARIABLE shown        \* what get finds under each identity

Nothing == [state |-> "nothing", tree |-> {}]

Init == shown = [r \in ResultId |-> Nothing]

\* A complete tree appears under an identity that had none.
Publish(r) ==
    /\ shown[r] = Nothing
    /\ \E tree \in Tree :
         shown' = [shown EXCEPT ![r] = [state |-> "tree", tree |-> tree]]

Next == \E r \in ResultId : Publish(r)

Spec == Init /\ [][Next]_shown
=============================================================================
