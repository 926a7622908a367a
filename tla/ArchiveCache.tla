---------------------------- MODULE ArchiveCache ----------------------------
(***************************************************************************)
(* What the source cache promises whoever reads it: archives are added one   *)
(* at a time, and one that could be read once can be read until the power    *)
(* fails, whatever else is cached, dropped, recovered or goes wrong.         *)
(***************************************************************************)
EXTENDS Naturals

CONSTANT Digest   \* archives, named by their digests

VARIABLES
    held,     \* the archives that can be read
    outages   \* how often the power failed

Init == held = {} /\ outages = 0

Add(d) ==
    /\ d \notin held /\ held' = held \cup {d}
    /\ UNCHANGED outages

Lose ==
    /\ outages' = outages + 1
    /\ held' \in SUBSET held

Next == Lose \/ \E d \in Digest : Add(d)

Spec == Init /\ [][Next]_<<held, outages>>
=============================================================================
