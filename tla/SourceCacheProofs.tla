-------------------------- MODULE SourceCacheProofs --------------------------
(***************************************************************************)
(* The source cache for any number of threads, processes, stages, archives   *)
(* and mishaps: its invariant is inductive, and what SourceCache promises of  *)
(* the cache and of staged archives follows.                                 *)
(***************************************************************************)
EXTENDS SourceCache, TLAPS

SpoolPc == {"sp_copy", "sp_done", "sp_undo"}
CachePc == {"ca_lock"} \cup HeldPc
NewPc   == {"ca_part", "ca_write", "ca_link"}

\* The variables have their types.
TypeOK ==
    /\ owner \in [Stage -> Process \cup {NoProcess}]
    /\ staged \subseteq Stage /\ tree \subseteq Stage
    /\ part \in [Stage -> Content \cup {Absent}]
    /\ blob \in [Stage -> Content \cup {Absent}]
    /\ cachePart \in [Stage -> Content \cup {Absent}]
    /\ linkOf \in [Stage -> Digest \cup {NoDigest}]
    /\ cached \in [Digest -> Content \cup {Absent}]
    /\ storeLock \in Thread \cup {NoThread}
    /\ pc \in [Thread -> {"idle"} \cup SpoolPc \cup CachePc]
    /\ use \in [Thread -> Stage \cup {NoStage}]
    /\ want \in [Thread -> Digest \cup {NoDigest}]
    /\ bytes \in [Thread -> Content \cup {Absent}]
    /\ reply \in [Thread -> {"ok", "no"}]
    /\ faults \in Nat

\* Who is between two steps that need the store lock has it, and nobody else.
LockOK == \A w \in Thread : pc[w] \in HeldPc <=> storeLock = w

\* A call uses a stage that its process leases; a cache call has read the bytes it wants.
CallOK ==
    \A w \in Thread :
        /\ pc[w] = "idle" => use[w] = NoStage
        /\ pc[w] # "idle" => use[w] \in staged /\ owner[use[w]] = Home[w]
        /\ pc[w] \in CachePc => want[w] \in Digest /\ Matches(bytes[w], want[w])

\* A transfer has archive.part to itself, and what was staged was whole.
SpoolOK ==
    /\ \A w \in Thread : pc[w] \in SpoolPc => part[use[w]] # Absent
    /\ \A w \in Thread : pc[w] = "sp_done" => part[use[w]].whole
    /\ \A v, w \in Thread : pc[v] \in SpoolPc /\ pc[w] \in SpoolPc /\ v # w => use[v] #
        use[w]
    /\ SpooledArchiveWhole

\* A cached blob is synced and has its digest, and only those are linked to.
CacheOK ==
    \A d \in Digest :
        IF cached[d] = Absent THEN \A s \in Stage : linkOf[s] # d
        ELSE Matches(cached[d], d) /\ cached[d].synced

\* Nothing is cached yet under the digest a call is about to link; what it links is synced
\* and has that digest; once it is linked, only the call's own stage has the second link.
PublishOK ==
    \A w \in Thread :
        /\ pc[w] \in NewPc => cached[want[w]] = Absent
        /\ pc[w] = "ca_link" =>
             Matches(cachePart[use[w]], want[w]) /\ cachePart[use[w]].synced
        /\ pc[w] = "ca_clean" /\ reply[w] = "ok" =>
             /\ Matches(cached[want[w]], want[w])
             /\ \A s \in Stage : linkOf[s] = want[w] => s = use[w]

\* A second link belongs to a call that is about to remove it, or was left behind.
LinkOK ==
    \A s \in Stage : linkOf[s] # NoDigest =>
        /\ s \in staged
        /\ \/ owner[s] = NoProcess \/ faults > 0
           \/ \E w \in Thread : use[w] = s /\ pc[w] = "ca_clean"

IInv == TypeOK /\ LockOK /\ CallOK /\ SpoolOK /\ CacheOK /\ PublishOK /\ LinkOK

\* Contents, new and changed, are contents.
LEMMA Contents ==
    /\ \A d \in Digest :
         /\ Partial(d) \in Content /\ Partial(d) # Absent
         /\ Archive(d) \in Content /\ Archive(d) # Absent /\ Archive(d).whole
         /\ Matches(Archive(d), d)
    /\ \A c \in Content :
         /\ [c EXCEPT !.synced = TRUE] \in Content
         /\ \A d \in Digest : Matches(c, d) => Matches([c EXCEPT !.synced = TRUE], d)
         /\ [c EXCEPT !.synced = TRUE].synced
         /\ [c EXCEPT !.whole = FALSE] \in Content
         /\ [c EXCEPT !.whole = TRUE, !.synced = TRUE] \in Content
         /\ [c EXCEPT !.whole = TRUE, !.synced = TRUE].whole
<1>1. \A d \in Digest :
         /\ Partial(d) \in Content /\ Archive(d) \in Content
         /\ Archive(d).whole /\ Archive(d).data = d
  BY DEF Content, Partial, Archive
<1>2. \A c \in Content :
         /\ [c EXCEPT !.synced = TRUE] \in Content
         /\ [c EXCEPT !.synced = TRUE].synced
         /\ [c EXCEPT !.synced = TRUE].whole = c.whole
         /\ [c EXCEPT !.synced = TRUE].data = c.data
         /\ [c EXCEPT !.whole = FALSE] \in Content
         /\ [c EXCEPT !.whole = TRUE, !.synced = TRUE] \in Content
         /\ [c EXCEPT !.whole = TRUE, !.synced = TRUE].whole
  BY DEF Content
<1> QED
  BY <1>1, <1>2, ContentAssumption DEF Matches

\* The invariant holds at the start.
LEMMA InitIInv == Init => IInv
<1> SUFFICES ASSUME Init PROVE IInv
  OBVIOUS
<1>1. TypeOK
  BY DEF Init, TypeOK
<1>2. LockOK
  BY NoneAssumption DEF Init, LockOK, HeldPc
<1>3. CallOK
  BY DEF Init, CallOK, CachePc, HeldPc
<1>4. SpoolOK
  BY DEF Init, SpoolOK, SpoolPc, SpooledArchiveWhole
<1>5. CacheOK
  BY NoneAssumption DEF Init, CacheOK
<1>6. PublishOK /\ LinkOK
  BY DEF Init, PublishOK, LinkOK, NewPc
<1> QED
  BY <1>1, <1>2, <1>3, <1>4, <1>5, <1>6 DEF IInv

\* A new stage is empty and belongs to nobody else.
LEMMA BeginIInv ==
  ASSUME IInv, NEW w \in Thread, NEW s \in Stage, Begin(w, s)
  PROVE  IInv'
<1>1. TypeOK'
  BY HomeAssumption DEF IInv, TypeOK, Begin, call, counts
<1>2. LockOK'
  BY DEF IInv, LockOK, Begin, call
<1>3. CallOK'
  BY DEF IInv, CallOK, Begin, call
<1>4. SpoolOK'
  BY DEF IInv, SpoolOK, Begin, call, SpooledArchiveWhole
<1>5. CacheOK'
  BY DEF IInv, CacheOK, Begin
<1>6. PublishOK'
  BY DEF IInv, PublishOK, Begin, call
<1>7. LinkOK'
  BY DEF IInv, LinkOK, Begin, call, counts
<1> QED
  BY <1>1, <1>2, <1>3, <1>4, <1>5, <1>6, <1>7 DEF IInv

\* Drop removes a stage that no call of its process is using.
LEMMA DropIInv ==
  ASSUME IInv, NEW w \in Thread, NEW s \in Stage, Drop(w, s)
  PROVE  IInv'
<1>1. TypeOK'
  BY DEF IInv, TypeOK, Drop, Dropping, RemoveStage, RemoveEntries, call, counts
<1>2. LockOK'
  BY DEF IInv, LockOK, Drop, Dropping, call
<1>3. CallOK'
  BY DEF IInv, CallOK, Drop, Dropping, RemoveStage, RemoveEntries, call
<1>4. SpoolOK'
  BY DEF IInv, SpoolOK, Drop, Dropping, RemoveStage, RemoveEntries, call, SpooledArchiveWhole
<1>5. CacheOK'
  BY NoneAssumption DEF IInv, CacheOK, Drop, Dropping, RemoveStage, RemoveEntries
<1>6. PublishOK'
  BY NoneAssumption DEF IInv, PublishOK, Drop, Dropping, RemoveStage, RemoveEntries, CallOK, call, HeldPc, CachePc
<1>7. LinkOK'
  BY DEF IInv, LinkOK, Drop, Dropping, RemoveStage, RemoveEntries, TypeOK, call, counts
<1> QED
  BY <1>1, <1>2, <1>3, <1>4, <1>5, <1>6, <1>7 DEF IInv

\* So does a failing Drop, which may leave the directory behind.
LEMMA DropFailsIInv ==
  ASSUME IInv, NEW w \in Thread, NEW s \in Stage, DropFails(w, s)
  PROVE  IInv'
<1>1. /\ \A v \in Thread : use[v] # s
      /\ UNCHANGED <<staged, cached, storeLock, pc, use, want, bytes, reply>>
      /\ \/ UNCHANGED <<part, blob, tree, cachePart, linkOf>>
         \/ RemoveEntries(s)
  BY DEF DropFails, Dropping, call
<1>2. /\ part \in [Stage -> Content \cup {Absent}]
      /\ blob \in [Stage -> Content \cup {Absent}]
      /\ cachePart \in [Stage -> Content \cup {Absent}]
      /\ linkOf \in [Stage -> Digest \cup {NoDigest}]
  BY DEF IInv, TypeOK
<1>3. \A t \in Stage :
        /\ t # s => /\ part'[t] = part[t] /\ blob'[t] = blob[t]
                    /\ cachePart'[t] = cachePart[t]
        /\ blob'[t] = blob[t] \/ blob'[t] = Absent
        /\ linkOf'[t] = linkOf[t] \/ linkOf'[t] = NoDigest
  BY <1>1, <1>2 DEF RemoveEntries
<1>4. \A v \in Thread : pc[v] # "idle" => use[v] \in Stage /\ use[v] # s
  BY <1>1 DEF IInv, TypeOK, CallOK
<1>5. TypeOK'
  BY DEF IInv, TypeOK, DropFails, Dropping, RemoveEntries, Fault, call
<1>6. LockOK'
  BY <1>1 DEF IInv, LockOK
<1>7. CallOK'
  BY <1>1 DEF IInv, CallOK, TypeOK, DropFails, Dropping
<1>8. SpoolOK'
  BY <1>1, <1>3, <1>4 DEF IInv, SpoolOK, SpoolPc, SpooledArchiveWhole
<1>9. CacheOK'
  BY <1>1, <1>3, NoneAssumption DEF IInv, CacheOK, Matches
<1>10. PublishOK'
  <2>1. \A v \in Thread : pc[v] \in NewPc \cup {"ca_clean"} => want[v] \in Digest
    BY DEF IInv, CallOK, NewPc, CachePc, HeldPc
  <2> QED
    BY <1>1, <1>3, <1>4, <2>1, NoneAssumption DEF IInv, PublishOK, NewPc, Matches
<1>11. LinkOK'
  BY <1>1, <1>3, <1>4 DEF IInv, LinkOK, TypeOK, DropFails, Dropping, Fault
<1> QED
  BY <1>5, <1>6, <1>7, <1>8, <1>9, <1>10, <1>11 DEF IInv

\* Recovery removes only what no process leases, hence nothing a call uses.
LEMMA RecoverIInv ==
  ASSUME IInv, NEW w \in Thread, NEW s \in Stage, Recover(w, s)
  PROVE  IInv'
<1>1. TypeOK'
  BY DEF IInv, TypeOK, Recover, RemoveStage, RemoveEntries, call, counts
<1>2. LockOK'
  BY DEF IInv, LockOK, Recover, call
<1>3. CallOK'
  BY NoneAssumption, HomeAssumption DEF IInv, CallOK, Recover, RemoveStage, RemoveEntries, call
<1>4. SpoolOK'
  BY NoneAssumption, HomeAssumption
  DEF IInv, SpoolOK, Recover, RemoveStage, RemoveEntries, CallOK, call, SpooledArchiveWhole
<1>5. CacheOK'
  BY NoneAssumption DEF IInv, CacheOK, Recover, RemoveStage, RemoveEntries
<1>6. PublishOK'
  BY NoneAssumption DEF IInv, PublishOK, Recover, LockOK, call, HeldPc
<1>7. LinkOK'
  BY DEF IInv, LinkOK, Recover, RemoveStage, RemoveEntries, TypeOK, call, counts
<1> QED
  BY <1>1, <1>2, <1>3, <1>4, <1>5, <1>6, <1>7 DEF IInv

\* The tree directory of a stage concerns none of it.
LEMMA BeginTreeIInv ==
  ASSUME IInv, NEW w \in Thread, NEW s \in Stage, BeginTree(w, s)
  PROVE  IInv'
<1>1. TypeOK'
  BY DEF IInv, TypeOK, BeginTree, call, counts
<1>2. LockOK'
  BY DEF IInv, LockOK, BeginTree, call
<1>3. CallOK'
  BY DEF IInv, CallOK, BeginTree, call
<1>4. SpoolOK'
  BY DEF IInv, SpoolOK, BeginTree, call, SpooledArchiveWhole
<1>5. CacheOK'
  BY DEF IInv, CacheOK, BeginTree
<1>6. PublishOK'
  BY DEF IInv, PublishOK, BeginTree, call
<1>7. LinkOK'
  BY DEF IInv, LinkOK, BeginTree, call, counts
<1> QED
  BY <1>1, <1>2, <1>3, <1>4, <1>5, <1>6, <1>7 DEF IInv

\* A transfer creates archive.part, which no other has.
LEMMA SpoolStartIInv ==
  ASSUME IInv, NEW w \in Thread, NEW s \in Stage, NEW d \in Digest, SpoolStart(w, s, d)
  PROVE  IInv'
<1>1. TypeOK'
  BY DEF IInv, TypeOK, SpoolStart, Partial, Goto, counts, SpoolPc, Content
<1>2. LockOK'
  BY DEF IInv, LockOK, SpoolStart, Goto, Idle, HeldPc
<1>3. CallOK'
  BY DEF IInv, CallOK, SpoolStart, Goto, Leased, TypeOK, HeldPc, CachePc
<1>4. SpoolOK'
  <2>1. Partial(d) # Absent
    BY Contents
  <2>2. \A v \in Thread : pc[v] \in SpoolPc => use[v] # s
    BY DEF IInv, SpoolOK, SpoolStart, PartIsFree
  <2> QED
    BY <2>1, <2>2
    DEF IInv, TypeOK, SpoolOK, SpoolStart, Goto, Idle, SpoolPc, SpooledArchiveWhole
<1>5. CacheOK'
  BY DEF IInv, CacheOK, SpoolStart
<1>6. PublishOK'
  BY DEF IInv, PublishOK, SpoolStart, Goto, Idle, NewPc
<1>7. LinkOK'
  BY DEF IInv, LinkOK, SpoolStart, Goto, Idle, counts
<1> QED
  BY <1>1, <1>2, <1>3, <1>4, <1>5, <1>6, <1>7 DEF IInv

\* The copied archive is whole and synced before it is renamed.
LEMMA SpoolCopyIInv ==
  ASSUME IInv, NEW w \in Thread, SpoolCopy(w)
  PROVE  IInv'
<1>1. TypeOK'
  <2>1. use[w] \in Stage /\ part[use[w]] \in Content
    BY DEF IInv, TypeOK, CallOK, SpoolOK, SpoolCopy, SpoolPc
  <2>2. part' \in [Stage -> Content \cup {Absent}]
    <3>1. [part[use[w]] EXCEPT !.whole = TRUE, !.synced = TRUE] \in Content
      BY <2>1, Contents
    <3> QED
      BY <3>1 DEF IInv, TypeOK, SpoolCopy
  <2> QED
    BY <2>2 DEF IInv, TypeOK, SpoolCopy, Goto, SpoolPc, counts
<1>2. LockOK'
  BY DEF IInv, LockOK, SpoolCopy, Goto, HeldPc
<1>3. CallOK'
  BY DEF IInv, CallOK, SpoolCopy, Goto, HeldPc, CachePc
<1>4. SpoolOK'
  <2>1. use[w] \in Stage /\ part[use[w]] \in Content
    BY DEF IInv, TypeOK, CallOK, SpoolOK, SpoolCopy, SpoolPc
  <2>2. part'[use[w]] # Absent /\ part'[use[w]].whole
    <3>1. /\ [part[use[w]] EXCEPT !.whole = TRUE, !.synced = TRUE] \in Content
          /\ [part[use[w]] EXCEPT !.whole = TRUE, !.synced = TRUE].whole
      BY <2>1, Contents
    <3>2. part'[use[w]] = [part[use[w]] EXCEPT !.whole = TRUE, !.synced = TRUE]
      BY <2>1 DEF IInv, TypeOK, SpoolCopy
    <3> QED
      BY <3>1, <3>2, ContentAssumption
  <2>3. \A v \in Thread : pc[v] \in SpoolPc /\ v # w => use[v] # use[w]
    BY DEF IInv, SpoolOK, SpoolCopy, SpoolPc
  <2> QED
    <3>1. \A s \in Stage : s # use[w] => part'[s] = part[s]
      BY DEF IInv, TypeOK, SpoolCopy
    <3>2. \A v \in Thread : v # w => pc'[v] = pc[v]
      BY DEF IInv, TypeOK, SpoolCopy, Goto
    <3>3. pc[w] \in SpoolPc /\ UNCHANGED <<use, blob>>
      BY DEF SpoolCopy, SpoolPc
    <3>4. \A v \in Thread : pc[v] \in SpoolPc => use[v] \in Stage
      BY DEF IInv, TypeOK, CallOK, SpoolPc
    <3> QED
      BY <2>2, <2>3, <3>1, <3>2, <3>3, <3>4
      DEF IInv, SpoolOK, SpoolPc, SpooledArchiveWhole
<1>5. CacheOK'
  BY DEF IInv, CacheOK, SpoolCopy
<1>6. PublishOK'
  BY DEF IInv, PublishOK, SpoolCopy, Goto, NewPc
<1>7. LinkOK'
  BY DEF IInv, LinkOK, SpoolCopy, Goto, counts
<1> QED
  BY <1>1, <1>2, <1>3, <1>4, <1>5, <1>6, <1>7 DEF IInv

\* A transfer that breaks off still has its archive.part.
LEMMA SpoolBreaksIInv ==
  ASSUME IInv, NEW w \in Thread, SpoolBreaks(w)
  PROVE  IInv'
<1>1. TypeOK'
  BY DEF IInv, TypeOK, SpoolBreaks, Fault, Goto, stages, counts, SpoolPc
<1>2. LockOK'
  BY DEF IInv, LockOK, SpoolBreaks, Goto, HeldPc
<1>3. CallOK'
  BY DEF IInv, CallOK, SpoolBreaks, Goto, stages, HeldPc, CachePc
<1>4. SpoolOK'
  BY DEF IInv, SpoolOK, SpoolBreaks, Goto, stages, SpoolPc, SpooledArchiveWhole
<1>5. CacheOK'
  BY DEF IInv, CacheOK, SpoolBreaks, stages
<1>6. PublishOK'
  BY DEF IInv, PublishOK, SpoolBreaks, Goto, stages, NewPc
<1>7. LinkOK'
  BY DEF IInv, LinkOK, SpoolBreaks, Fault, Goto, TypeOK, stages, counts
<1> QED
  BY <1>1, <1>2, <1>3, <1>4, <1>5, <1>6, <1>7 DEF IInv

\* The partial archive is removed, or stays and blocks later transfers.
LEMMA SpoolUndoIInv ==
  ASSUME IInv, NEW w \in Thread, SpoolUndo(w)
  PROVE  IInv'
<1>1. TypeOK'
  BY DEF IInv, TypeOK, SpoolUndo, Fault, Return, Goto, counts
<1>2. LockOK'
  BY DEF IInv, LockOK, SpoolUndo, Return, Goto, HeldPc
<1>3. CallOK'
  BY DEF IInv, CallOK, SpoolUndo, Return, Goto, TypeOK, HeldPc, CachePc
<1>4. SpoolOK'
  BY
  DEF IInv, SpoolOK, SpoolUndo, Return, Goto, TypeOK, CallOK, SpoolPc, SpooledArchiveWhole
<1>5. CacheOK'
  BY DEF IInv, CacheOK, SpoolUndo
<1>6. PublishOK'
  BY DEF IInv, PublishOK, SpoolUndo, Return, Goto, NewPc
<1>7. LinkOK'
  BY DEF IInv, LinkOK, SpoolUndo, Fault, Return, Goto, TypeOK, counts
<1> QED
  BY <1>1, <1>2, <1>3, <1>4, <1>5, <1>6, <1>7 DEF IInv

\* What becomes archive.blob is whole.
LEMMA SpoolCompleteIInv ==
  ASSUME IInv, NEW w \in Thread, SpoolComplete(w)
  PROVE  IInv'
<1>1. TypeOK'
  BY DEF IInv, TypeOK, SpoolComplete, Return, Goto, counts
<1>2. LockOK'
  BY DEF IInv, LockOK, SpoolComplete, Return, Goto, HeldPc
<1>3. CallOK'
  BY DEF IInv, CallOK, SpoolComplete, Return, Goto, TypeOK, HeldPc, CachePc
<1>4. SpoolOK'
  BY DEF IInv, SpoolOK, SpoolComplete, Return, Goto, TypeOK, SpoolPc, SpooledArchiveWhole
<1>5. CacheOK'
  BY DEF IInv, CacheOK, SpoolComplete
<1>6. PublishOK'
  BY DEF IInv, PublishOK, SpoolComplete, Return, Goto, NewPc
<1>7. LinkOK'
  BY NoneAssumption, HomeAssumption, ContentAssumption
  DEF IInv, LinkOK, SpoolComplete, Return, Goto, TypeOK, CallOK, counts, HeldPc, CachePc,
      SpoolPc
<1> QED
  BY <1>1, <1>2, <1>3, <1>4, <1>5, <1>6, <1>7 DEF IInv

\* A call goes on only with bytes that have the wanted digest.
LEMMA CacheReadIInv ==
  ASSUME IInv, NEW w \in Thread, NEW s \in Stage, NEW d \in Digest, CacheRead(w, s, d)
  PROVE  IInv'
<1>1. TypeOK'
  BY DEF IInv, TypeOK, CacheRead, Archive, Goto, stages, counts, CachePc, Content
<1>2. LockOK'
  BY DEF IInv, LockOK, CacheRead, Goto, Idle, HeldPc
<1>3. CallOK'
  <2>1. Matches(Archive(d), d)
    BY Contents
  <2> QED
    BY <2>1 DEF IInv, TypeOK, CallOK, CacheRead, Goto, Idle, Leased, stages
<1>4. SpoolOK'
  BY DEF IInv, SpoolOK, CacheRead, Goto, Idle, stages, SpoolPc, SpooledArchiveWhole
<1>5. CacheOK'
  BY DEF IInv, CacheOK, CacheRead, stages
<1>6. PublishOK'
  BY DEF IInv, PublishOK, CacheRead, Goto, Idle, stages, NewPc
<1>7. LinkOK'
  BY DEF IInv, LinkOK, CacheRead, Goto, Idle, stages, counts
<1> QED
  BY <1>1, <1>2, <1>3, <1>4, <1>5, <1>6, <1>7 DEF IInv

\* The second lock finds nobody else in the cache.
LEMMA CacheLockIInv ==
  ASSUME IInv, NEW w \in Thread, CacheLock(w)
  PROVE  IInv'
<1>1. TypeOK'
  BY DEF IInv, TypeOK, CacheLock, Goto, stages, counts, CachePc, HeldPc
<1>2. LockOK'
  BY NoneAssumption DEF IInv, LockOK, CacheLock, Goto, TypeOK, HeldPc
<1>3. CallOK'
  BY DEF IInv, CallOK, CacheLock, Goto, stages, CachePc
<1>4. SpoolOK'
  BY DEF IInv, SpoolOK, CacheLock, Goto, stages, SpoolPc, SpooledArchiveWhole
<1>5. CacheOK'
  BY DEF IInv, CacheOK, CacheLock, stages
<1>6. PublishOK'
  BY DEF IInv, PublishOK, CacheLock, Goto, stages, NewPc
<1>7. LinkOK'
  BY DEF IInv, LinkOK, CacheLock, Goto, stages, counts
<1> QED
  BY <1>1, <1>2, <1>3, <1>4, <1>5, <1>6, <1>7 DEF IInv

\* An existing blob answers the call; otherwise none is cached under the lock.
LEMMA CacheLookIInv ==
  ASSUME IInv, NEW w \in Thread, CacheLook(w)
  PROVE  IInv'
<1>1. TypeOK'
  BY DEF IInv, TypeOK, CacheLook, Return, Goto, stages, counts, CachePc, HeldPc
<1>2. LockOK'
  BY NoneAssumption DEF IInv, LockOK, CacheLook, Return, Goto, TypeOK, HeldPc
<1>3. CallOK'
  BY DEF IInv, CallOK, CacheLook, Return, Goto, TypeOK, stages, HeldPc, CachePc
<1>4. SpoolOK'
  BY HomeAssumption
  DEF IInv, SpoolOK, CacheLook, Return, Goto, TypeOK, stages, SpoolPc, SpooledArchiveWhole
<1>5. CacheOK'
  BY DEF IInv, CacheOK, CacheLook, stages
<1>6. PublishOK'
  BY DEF IInv, PublishOK, CacheLook, Return, Goto, TypeOK, stages, NewPc
<1>7. LinkOK'
  BY DEF IInv, LinkOK, CacheLook, Return, Goto, TypeOK, stages, counts
<1> QED
  BY <1>1, <1>2, <1>3, <1>4, <1>5, <1>6, <1>7 DEF IInv

\* cache.part is created under the store lock.
LEMMA CachePartIInv ==
  ASSUME IInv, NEW w \in Thread, CachePart(w)
  PROVE  IInv'
<1>1. TypeOK'
  <2>1. want[w] \in Digest /\ use[w] \in Stage
    BY DEF IInv, TypeOK, CallOK, CachePart, CachePc, HeldPc
  <2> QED
    <3>1. CASE cachePart[use[w]] = Absent
      <4>1. cachePart' = [cachePart EXCEPT ![use[w]] = Partial(want[w])]
        BY <3>1 DEF CachePart
      <4>2. cachePart' \in [Stage -> Content \cup {Absent}]
        BY <2>1, <4>1, Contents DEF IInv, TypeOK
      <4> QED
        BY <3>1, <4>2 DEF IInv, TypeOK, CachePart, Goto, CachePc, HeldPc, counts
    <3>2. CASE cachePart[use[w]] # Absent
      BY <2>1, <3>2 DEF IInv, TypeOK, CachePart, Goto, Return, counts
    <3> QED
      BY <3>1, <3>2
<1>2. LockOK'
  BY NoneAssumption DEF IInv, LockOK, CachePart, Return, Goto, TypeOK, HeldPc
<1>3. CallOK'
  BY DEF IInv, CallOK, CachePart, Return, Goto, TypeOK, HeldPc, CachePc
<1>4. SpoolOK'
  BY ContentAssumption
  DEF IInv, SpoolOK, CachePart, Return, Goto, TypeOK, SpoolPc, SpooledArchiveWhole
<1>5. CacheOK'
  BY DEF IInv, CacheOK, CachePart
<1>6. PublishOK'
  BY DEF IInv, PublishOK, CachePart, Return, Goto, TypeOK, LockOK, NewPc, HeldPc
<1>7. LinkOK'
  BY DEF IInv, LinkOK, CachePart, Return, Goto, TypeOK, counts
<1> QED
  BY <1>1, <1>2, <1>3, <1>4, <1>5, <1>6, <1>7 DEF IInv

\* What is written to cache.part is what was read, and it is synced.
LEMMA CacheWriteIInv ==
  ASSUME IInv, NEW w \in Thread, CacheWrite(w)
  PROVE  IInv'
<1>1. TypeOK'
  <2>1. use[w] \in Stage /\ bytes[w] \in Content
    BY DEF IInv, TypeOK, CallOK, CacheWrite, CachePc, HeldPc, Matches
  <2> QED
    BY <2>1, Contents DEF IInv, TypeOK, CacheWrite, Written, Goto, CachePc, HeldPc, counts
<1>2. LockOK'
  BY DEF IInv, LockOK, CacheWrite, Goto, HeldPc
<1>3. CallOK'
  BY DEF IInv, CallOK, CacheWrite, Goto, HeldPc, CachePc
<1>4. SpoolOK'
  BY DEF IInv, SpoolOK, CacheWrite, Goto, SpoolPc, SpooledArchiveWhole
<1>5. CacheOK'
  BY DEF IInv, CacheOK, CacheWrite
<1>6. PublishOK'
  <2>1. use[w] \in Stage /\ want[w] \in Digest /\ bytes[w] \in Content /\ Matches(bytes[w],
      want[w])
    BY DEF IInv, TypeOK, CallOK, CacheWrite, CachePc, HeldPc, Matches
  <2>2. cachePart'[use[w]] = Written(w) /\ Matches(Written(w), want[w]) /\ Written(w).synced
    BY <2>1, Contents DEF IInv, TypeOK, CacheWrite, Written
  <2>3. \A v \in Thread : pc[v] \in HeldPc => v = w
    BY DEF IInv, LockOK, CacheWrite, HeldPc
  <2> QED
    BY <2>1, <2>2, <2>3 DEF IInv, TypeOK, PublishOK, CacheWrite, Goto, NewPc, HeldPc
<1>7. LinkOK'
  BY DEF IInv, LinkOK, CacheWrite, Goto, counts
<1> QED
  BY <1>1, <1>2, <1>3, <1>4, <1>5, <1>6, <1>7 DEF IInv

\* What is linked is synced and matches its name.
LEMMA CacheLinkIInv ==
  ASSUME IInv, NEW w \in Thread, CacheLink(w)
  PROVE  IInv'
<1>1. TypeOK'
  <2>1. want[w] \in Digest /\ use[w] \in Stage
    BY DEF IInv, TypeOK, CallOK, CacheLink, CachePc, HeldPc
  <2> QED
    BY <2>1 DEF IInv, TypeOK, CacheLink, Goto, CachePc, HeldPc, counts
<1>2. LockOK'
  BY DEF IInv, LockOK, CacheLink, Goto, HeldPc
<1>3. CallOK'
  BY DEF IInv, CallOK, CacheLink, Goto, HeldPc, CachePc
<1>4. SpoolOK'
  BY DEF IInv, SpoolOK, CacheLink, Goto, SpoolPc, SpooledArchiveWhole
<1>5. CacheOK'
  BY DEF IInv, CacheOK, CacheLink, TypeOK, PublishOK, Matches
<1>6. PublishOK'
  BY
  DEF IInv, PublishOK, CacheLink, Goto, TypeOK, LockOK, CallOK, CacheOK, NewPc, HeldPc,
      CachePc
<1>7. LinkOK'
  BY DEF IInv, LinkOK, CacheLink, Goto, TypeOK, CallOK, counts
<1> QED
  BY <1>1, <1>2, <1>3, <1>4, <1>5, <1>6, <1>7 DEF IInv

\* A failing operation returns and leaves the lock free.
LEMMA CacheStepFailsIInv ==
  ASSUME IInv, NEW w \in Thread, CacheStepFails(w)
  PROVE  IInv'
<1>1. TypeOK'
  BY DEF IInv, TypeOK, CacheStepFails, Fault, Goto, stages, CachePc, HeldPc
<1>2. LockOK'
  BY DEF IInv, LockOK, CacheStepFails, Goto, HeldPc
<1>3. CallOK'
  BY DEF IInv, CallOK, CacheStepFails, Goto, stages, HeldPc, CachePc
<1>4. SpoolOK'
  BY DEF IInv, SpoolOK, CacheStepFails, Goto, stages, SpoolPc, SpooledArchiveWhole
<1>5. CacheOK'
  BY DEF IInv, CacheOK, CacheStepFails, stages
<1>6. PublishOK'
  BY DEF IInv, PublishOK, CacheStepFails, Goto, TypeOK, stages, NewPc
<1>7. LinkOK'
  BY DEF IInv, LinkOK, CacheStepFails, Fault, TypeOK, stages
<1> QED
  BY <1>1, <1>2, <1>3, <1>4, <1>5, <1>6, <1>7 DEF IInv

\* The second link goes, or one more fault has left it.
LEMMA CacheCleanIInv ==
  ASSUME IInv, NEW w \in Thread, CacheClean(w)
  PROVE  IInv'
<1>1. TypeOK'
  <2>1. cachePart' \in [Stage -> Content \cup {Absent}] /\ linkOf' \in [Stage -> Digest \cup
      {NoDigest}]
    BY DEF IInv, TypeOK, CacheClean
  <2>2. faults' \in Nat
    BY DEF IInv, TypeOK, CacheClean, Fault, counts
  <2>3. reply' \in [Thread -> {"ok", "no"}]
    BY DEF IInv, TypeOK, CacheClean, Return, CleanupAnswer
  <2>4. /\ pc' \in [Thread -> {"idle"} \cup SpoolPc \cup CachePc]
        /\ use' \in [Thread -> Stage \cup {NoStage}]
        /\ want' \in [Thread -> Digest \cup {NoDigest}]
        /\ bytes' \in [Thread -> Content \cup {Absent}]
    BY DEF IInv, TypeOK, CacheClean, Return, Goto
  <2> QED
    BY <2>1, <2>2, <2>3, <2>4 DEF IInv, TypeOK, CacheClean
<1>2. LockOK'
  BY NoneAssumption DEF IInv, LockOK, CacheClean, Return, Goto, TypeOK, HeldPc
<1>3. CallOK'
  BY DEF IInv, CallOK, CacheClean, Return, Goto, TypeOK, HeldPc, CachePc
<1>4. SpoolOK'
  BY NoneAssumption, HomeAssumption
  DEF IInv, SpoolOK, CacheClean, Return, Goto, TypeOK, SpoolPc, SpooledArchiveWhole
<1>5. CacheOK'
  BY NoneAssumption DEF IInv, CacheOK, CacheClean, TypeOK
<1>6. PublishOK'
  BY DEF IInv, PublishOK, CacheClean, Return, Goto, TypeOK, LockOK, NewPc, HeldPc
<1>7. LinkOK'
  BY DEF IInv, LinkOK, CacheClean, Return, Fault, Goto, TypeOK, counts
<1> QED
  BY <1>1, <1>2, <1>3, <1>4, <1>5, <1>6, <1>7 DEF IInv

\* Others reach staged files, not those of the cache.
LEMMA ScribbleIInv ==
  ASSUME IInv, NEW s \in Stage, NEW d \in Digest, Scribble(s, d)
  PROVE  IInv'
<1>1. TypeOK'
  BY DEF IInv, TypeOK, Scribble, Archive, call, Content
<1>2. LockOK'
  BY DEF IInv, LockOK, Scribble, call
<1>3. CallOK'
  BY DEF IInv, CallOK, Scribble, call
<1>4. SpoolOK'
  BY DEF IInv, SpoolOK, Scribble, Archive, call, SpooledArchiveWhole
<1>5. CacheOK'
  BY DEF IInv, CacheOK, Scribble
<1>6. PublishOK'
  BY DEF IInv, PublishOK, Scribble, call
<1>7. LinkOK'
  BY DEF IInv, LinkOK, Scribble, call
<1> QED
  BY <1>1, <1>2, <1>3, <1>4, <1>5, <1>6, <1>7 DEF IInv

\* A death frees the locks and leases; its stages belong to nobody.
LEMMA CrashIInv ==
  ASSUME IInv, NEW p \in Process, Crash(p)
  PROVE  IInv'
<1>1. TypeOK'
  BY DEF IInv, TypeOK, Crash, Die
<1>2. LockOK'
  BY NoneAssumption DEF IInv, LockOK, Crash, Die, HeldPc
<1>3. CallOK'
  BY DEF IInv, CallOK, Crash, Die, TypeOK, HeldPc, CachePc
<1>4. SpoolOK'
  BY DEF IInv, SpoolOK, Crash, Die, SpoolPc, SpooledArchiveWhole
<1>5. CacheOK'
  BY DEF IInv, CacheOK, Crash
<1>6. PublishOK'
  BY DEF IInv, PublishOK, Crash, Die, NewPc
<1>7. LinkOK'
  BY DEF IInv, LinkOK, Crash, Die, CallOK
<1> QED
  BY <1>1, <1>2, <1>3, <1>4, <1>5, <1>6, <1>7 DEF IInv

\* An outage spares what was synced.
LEMMA PowerLossIInv ==
  ASSUME IInv, PowerLoss
  PROVE  IInv'
<1>1. TypeOK'
  <2>1. cached' \in [Digest -> Content \cup {Absent}]
    <3>1. PICK lost \in SUBSET Digest, torn \in BOOLEAN :
            cached' = [d \in Digest |->
                IF d \in lost \/ cached[d] = Absent THEN Absent
                ELSE IF torn /\ ~cached[d].synced THEN [cached[d] EXCEPT !.whole = FALSE]
                ELSE cached[d]]
      BY DEF PowerLoss
    <3>2. \A d \in Digest : cached[d] # Absent => cached[d] \in Content
      BY DEF IInv, TypeOK
    <3>3. \A c \in Content : [c EXCEPT !.whole = FALSE] \in Content
      BY Contents
    <3> QED
      BY <3>1, <3>2, <3>3
  <2>2. linkOf' \in [Stage -> Digest \cup {NoDigest}]
    BY DEF IInv, TypeOK, PowerLoss
  <2> QED
    BY <2>1, <2>2 DEF IInv, TypeOK, PowerLoss, Die
<1>2. LockOK'
  BY NoneAssumption DEF IInv, LockOK, PowerLoss, Die, HeldPc
<1>3. CallOK'
  BY DEF IInv, CallOK, PowerLoss, Die, TypeOK, HeldPc, CachePc
<1>4. SpoolOK'
  BY DEF IInv, SpoolOK, PowerLoss, Die, SpoolPc, SpooledArchiveWhole
<1>5. CacheOK'
  BY NoneAssumption DEF IInv, CacheOK, PowerLoss
<1>6. PublishOK'
  BY HomeAssumption DEF IInv, PublishOK, PowerLoss, Die, NewPc
<1>7. LinkOK'
  BY DEF IInv, LinkOK, PowerLoss, Die, TypeOK
<1> QED
  BY <1>1, <1>2, <1>3, <1>4, <1>5, <1>6, <1>7 DEF IInv

\* Every step preserves the invariant.
LEMMA StepIInv ==
  ASSUME IInv, [Next]_vars
  PROVE  IInv'
<1>1. ASSUME NEW w \in Thread, Proceed(w) PROVE IInv'
  BY <1>1, SpoolCopyIInv, SpoolBreaksIInv, SpoolUndoIInv, CacheLookIInv, CachePartIInv,
     CacheWriteIInv, CacheLinkIInv, CacheCleanIInv DEF Proceed
<1>2. ASSUME NEW w \in Thread, Relock(w) PROVE IInv'
  BY <1>2, SpoolCompleteIInv, CacheLockIInv DEF Relock
<1>3. ASSUME NEW w \in Thread, Call(w) PROVE IInv'
  BY <1>3, BeginIInv, DropIInv, DropFailsIInv, RecoverIInv, BeginTreeIInv, SpoolStartIInv, CacheReadIInv
  DEF Call
<1>4. CASE UNCHANGED vars
  BY <1>4 DEF IInv, TypeOK, LockOK, CallOK, SpoolOK, CacheOK, PublishOK, LinkOK, vars,
     stages, call, counts, SpooledArchiveWhole, SpoolPc, CachePc, HeldPc, NewPc, Matches
<1> QED
  BY <1>1, <1>2, <1>3, <1>4, CacheStepFailsIInv, ScribbleIInv, CrashIInv, PowerLossIInv
  DEF Next

\* Whatever the threads, the processes and the mishaps: the invariant always holds.
THEOREM CacheInvariant == Spec => []IInv
<1>1. Init => IInv
  BY InitIInv
<1>2. IInv /\ [Next]_vars => IInv'
  BY StepIInv
<1> QED
  BY <1>1, <1>2, PTL DEF Spec

\* cache_source_blob never publishes a blob that is not the archive its name says: what
\* it links was synced before, so no outage tears it either.
THEOREM CacheContentAddressed == Spec => []CachedBlobMatches
<1>1. IInv => CachedBlobMatches
  BY DEF IInv, CacheOK, CachedBlobMatches
<1> QED
  BY <1>1, CacheInvariant, PTL

\* Whoever holds the store lock is at one of the steps of HeldPc, none of which waits.
THEOREM NoWaitWithStoreLock == Spec => []LockFreeWhileWaiting
<1>1. IInv => LockFreeWhileWaiting
  BY DEF IInv, LockOK, HeldPc, LockFreeWhileWaiting
<1> QED
  BY <1>1, CacheInvariant, PTL

\* create_new gives archive.part to one transfer, which renames it only when it is whole.
THEOREM StagedArchiveWhole == Spec => []SpooledArchiveWhole
<1>1. IInv => SpooledArchiveWhole
  BY DEF IInv, SpoolOK
<1> QED
  BY <1>1, CacheInvariant, PTL

\* Between calls only a stage left behind keeps a cached blob from being read.
THEOREM OnlyLeftoversHideBlobs == Spec => []UnreadableOnlyByLeftover
<1>1. IInv => UnreadableOnlyByLeftover
  <2> SUFFICES ASSUME IInv, storeLock = NoThread, NEW s \in Stage, linkOf[s] # NoDigest
               PROVE  s \in staged /\ (owner[s] = NoProcess \/ faults > 0)
    BY DEF UnreadableOnlyByLeftover
  <2>1. \A w \in Thread : pc[w] # "ca_clean"
    BY NoneAssumption DEF IInv, LockOK, HeldPc
  <2> QED
    BY <2>1 DEF IInv, LinkOK
<1> QED
  BY <1>1, CacheInvariant, PTL

\* A thread leaves the steps under the lock with Ok from CacheLook or from CacheClean only.
LEMMA OkFromLookOrClean ==
  ASSUME IInv, Next, NEW w \in Thread,
         pc[w] \in HeldPc, pc'[w] = "idle", reply'[w] = "ok"
  PROVE  CacheLook(w) \/ CacheClean(w)
<1>1. ASSUME NEW v \in Thread, Proceed(v) PROVE CacheLook(w) \/ CacheClean(w)
  <2>1. CASE v = w
    <3>1. ~ SpoolCopy(w) /\ ~ SpoolBreaks(w) /\ ~ SpoolUndo(w)
      BY DEF SpoolCopy, SpoolBreaks, SpoolUndo, HeldPc
    <3>2. ~ CachePart(w)
      BY DEF CachePart, Return, Goto, IInv, TypeOK
    <3>3. ~ CacheWrite(w) /\ ~ CacheLink(w)
      BY DEF CacheWrite, CacheLink, Goto, IInv, TypeOK
    <3> QED
      BY <1>1, <2>1, <3>1, <3>2, <3>3 DEF Proceed
  <2>2. CASE v # w
    <3>1. pc'[w] = pc[w]
      BY <1>1, <2>2 DEF IInv, TypeOK, Proceed, SpoolCopy, SpoolBreaks, SpoolUndo, CacheLook,
         CachePart, CacheWrite, CacheLink, CacheClean, Return, Goto
    <3> QED
      BY <3>1 DEF HeldPc
  <2> QED
    BY <2>1, <2>2
<1>2. ASSUME NEW v \in Thread, Relock(v) PROVE FALSE
  BY <1>2 DEF IInv, TypeOK, Relock, SpoolComplete, CacheLock, Return, Goto, HeldPc
<1>3. ASSUME NEW v \in Thread, Call(v) PROVE FALSE
  BY <1>3 DEF IInv, TypeOK, Call, Begin, Drop, DropFails, Dropping, Recover, BeginTree, SpoolStart, CacheRead,
     Idle, Goto, HeldPc, call
<1>4. ASSUME NEW v \in Thread, CacheStepFails(v) PROVE FALSE
  BY <1>4 DEF IInv, TypeOK, CacheStepFails, Goto, HeldPc
<1>5. ASSUME NEW s \in Stage, NEW d \in Digest, Scribble(s, d) PROVE FALSE
  BY <1>5 DEF Scribble, call, HeldPc
<1>6. ASSUME NEW dead, Die(dead) PROVE FALSE
  BY <1>6 DEF Die, HeldPc
<1> QED
  BY <1>1, <1>2, <1>3, <1>4, <1>5, <1>6 DEF Next, Crash, PowerLoss

\* Ok from cache_source_blob: the blob was found readable, or it was linked and the second
\* link removed, with the store lock held all the while.
THEOREM OkMeansReadable == Spec => CachedAnswerHoldsProp
<1>1. IInv /\ Next => CachedAnswerHolds
  <2> SUFFICES ASSUME IInv, Next, NEW w \in Thread,
                      pc[w] \in HeldPc, pc'[w] = "idle", reply'[w] = "ok"
               PROVE  Matches(cached'[want[w]], want[w])
                      /\ \A s \in Stage : linkOf'[s] # want[w]
    BY DEF CachedAnswerHolds
  <2>1. CASE CacheLook(w)
    <3>1. reply'[w] = IF Readable(want[w]) THEN "ok" ELSE "no"
      BY <2>1 DEF IInv, TypeOK, CacheLook, Return, Goto
    <3> QED
      BY <2>1, <3>1 DEF CacheLook, Readable, stages, Matches
  <2>2. CASE CacheClean(w)
    <3>1. /\ reply[w] = "ok"
          /\ linkOf' = [linkOf EXCEPT ![use[w]] = NoDigest]
          /\ cached' = cached
      BY <2>2 DEF IInv, TypeOK, CacheClean, Return, CleanupAnswer
    <3>2. /\ Matches(cached[want[w]], want[w])
          /\ \A s \in Stage : linkOf[s] = want[w] => s = use[w]
      BY <2>2, <3>1 DEF IInv, PublishOK, CacheClean
    <3>3. want[w] \in Digest
      BY <2>2 DEF IInv, CallOK, CacheClean, CachePc, HeldPc
    <3> QED
      BY <3>1, <3>2, <3>3, NoneAssumption DEF IInv, TypeOK, Matches
  <2> QED
    BY <2>1, <2>2, OkFromLookOrClean
<1>2. IInv /\ UNCHANGED vars => CachedAnswerHolds
  BY DEF CachedAnswerHolds, vars, call, HeldPc
<1>3. IInv /\ [Next]_vars => [CachedAnswerHolds]_vars
  BY <1>1, <1>2
<1> QED
  BY <1>3, CacheInvariant, PTL DEF Spec, CachedAnswerHoldsProp

-----------------------------------------------------------------------------
(* The cache implements ArchiveCache *)

\* What can be read is what is cached and has one link.
LEMMA HeldFrame ==
  ASSUME cached' = cached, linkOf' = linkOf
  PROVE  Held' = Held
  BY DEF Held, Readable, Matches

\* When the second link of a stage changes, one archive at most becomes readable, and none
\* is hidden: only what nothing was cached of may be linked to.
LEMMA OneLinkChanges ==
  ASSUME IInv, NEW s \in Stage, NEW e \in Digest \cup {NoDigest},
         linkOf' = [linkOf EXCEPT ![s] = e],
         \A d \in Digest : d # e => cached'[d] = cached[d],
         e \in Digest => cached[e] = Absent
  PROVE  Held' = Held \/ \E d \in Digest : d \notin Held /\ Held' = Held \cup {d}
<1>1. linkOf \in [Stage -> Digest \cup {NoDigest}]
  BY DEF IInv, TypeOK
<1>2. linkOf'[s] = e /\ \A t \in Stage : t # s => linkOf'[t] = linkOf[t]
  BY <1>1
<1>3. ASSUME NEW d \in Digest, d # e, d # linkOf[s]
      PROVE  d \in Held' <=> d \in Held
  BY <1>2, <1>3 DEF Held, Readable, Matches
<1>4. e \notin Held /\ e \notin Held'
  BY <1>2 DEF Held, Readable, Matches
<1>5. linkOf[s] \notin Held
  BY DEF Held, Readable
<1>6. Held \subseteq Digest /\ Held' \subseteq Digest
  BY DEF Held
<1>7. CASE linkOf[s] \in Held'
  <2>1. Held' = Held \cup {linkOf[s]}
    BY <1>3, <1>4, <1>5, <1>6, <1>7
  <2> QED
    BY <1>5, <1>6, <1>7, <2>1
<1>8. CASE linkOf[s] \notin Held'
  BY <1>3, <1>4, <1>5, <1>6, <1>8
<1> QED
  BY <1>7, <1>8

\* A step that changes the second link of one stage adds an archive or none.
LEMMA LinkSteps ==
  ASSUME IInv, NEW w \in Thread,
         \/ \E s \in Stage : Drop(w, s) \/ DropFails(w, s) \/ Recover(w, s)
         \/ CacheLink(w) \/ CacheClean(w)
  PROVE  (\E d \in Digest : Abstract!Add(d)) \/ UNCHANGED <<Held, outages>>
<1>1. outages' = outages
  BY DEF Drop, DropFails, Recover, CacheLink, CacheClean, counts, Fault
<1>2. SUFFICES Held' = Held \/ \E d \in Digest : d \notin Held /\ Held' = Held \cup {d}
  BY <1>1 DEF Abstract!Add
<1>3. ASSUME NEW s \in Stage, cached' = cached, linkOf' = [linkOf EXCEPT ![s] = NoDigest]
      PROVE  Held' = Held \/ \E d \in Digest : d \notin Held /\ Held' = Held \cup {d}
  BY <1>3, OneLinkChanges, NoneAssumption
<1>4. CASE \E s \in Stage : Drop(w, s) \/ DropFails(w, s) \/ Recover(w, s)
  BY <1>3, <1>4, HeldFrame
  DEF Drop, DropFails, Recover, RemoveStage, RemoveEntries
<1>5. ASSUME pc[w] \in HeldPc
      PROVE  use[w] \in Stage /\ want[w] \in Digest
  <2>1. pc[w] # "idle" /\ pc[w] \in CachePc
    BY <1>5 DEF HeldPc, CachePc
  <2> QED
    BY <2>1 DEF IInv, CallOK, TypeOK
<1>6. CASE CacheLink(w)
  <2>1. use[w] \in Stage /\ want[w] \in Digest /\ cached[want[w]] = Absent
    BY <1>5, <1>6 DEF CacheLink, HeldPc, IInv, PublishOK, NewPc
  <2>2. linkOf' = [linkOf EXCEPT ![use[w]] = want[w]]
    BY <1>6, <2>1 DEF CacheLink
  <2>3. \A d \in Digest : d # want[w] => cached'[d] = cached[d]
    BY <1>6 DEF CacheLink, IInv, TypeOK
  <2> QED
    BY <2>1, <2>2, <2>3, OneLinkChanges
<1>7. CASE CacheClean(w)
  <2>1. use[w] \in Stage /\ cached' = cached
    BY <1>5, <1>7 DEF CacheClean, HeldPc
  <2>2. linkOf' = [linkOf EXCEPT ![use[w]] = NoDigest] \/ linkOf' = linkOf
    BY <1>7 DEF CacheClean
  <2> QED
    BY <1>3, <2>1, <2>2, HeldFrame
<1> QED
  BY <1>4, <1>6, <1>7

\* A power loss takes archives away and shows none.
LEMMA OutageStep ==
  ASSUME IInv, PowerLoss
  PROVE  Abstract!Lose
<1>1. outages' = outages + 1
  BY DEF PowerLoss
<1>2. ASSUME NEW d \in Digest, Readable(d)'
      PROVE  Readable(d)
  <2>1. PICK lost \in SUBSET Digest, torn \in BOOLEAN :
          /\ cached' = [c \in Digest |->
                 IF c \in lost \/ cached[c] = Absent THEN Absent
                 ELSE IF torn /\ ~cached[c].synced THEN [cached[c] EXCEPT !.whole = FALSE]
                 ELSE cached[c]]
          /\ linkOf' = [s \in Stage |-> IF linkOf[s] \in lost THEN NoDigest ELSE linkOf[s]]
    BY DEF PowerLoss
  <2>2. cached'[d] # Absent /\ \A s \in Stage : linkOf'[s] # d
    BY <1>2 DEF Readable, Matches
  <2>3. d \notin lost /\ cached[d] # Absent
    BY <2>1, <2>2
  <2>4. Matches(cached[d], d)
    BY <2>3 DEF IInv, CacheOK
  <2>5. \A s \in Stage : linkOf[s] # d
    BY <2>1, <2>2, <2>3
  <2> QED
    BY <2>4, <2>5 DEF Readable
<1> QED
  BY <1>1, <1>2 DEF Abstract!Lose, Held

\* Whatever threads, processes and mishaps there are, the cache is an ArchiveCache.
THEOREM CacheRefines == Spec => ImplementsArchiveCache
<1>1. Init => Abstract!Init
  BY DEF Init, Abstract!Init, Held, Readable, Matches
<1>2. IInv /\ [Next]_vars => [Abstract!Next]_<<Held, outages>>
  <2> SUFFICES ASSUME IInv, [Next]_vars
               PROVE  Abstract!Next \/ UNCHANGED <<Held, outages>>
    OBVIOUS
  <2> DEFINE Same == cached' = cached /\ linkOf' = linkOf /\ outages' = outages
  <2>1. Same => UNCHANGED <<Held, outages>>
    BY HeldFrame
  <2>2. CASE UNCHANGED vars
    BY <2>1, <2>2 DEF vars, stages, counts
  <2>3. ASSUME NEW w \in Thread,
               \/ \E s \in Stage : Drop(w, s) \/ DropFails(w, s) \/ Recover(w, s)
               \/ CacheLink(w) \/ CacheClean(w)
        PROVE  Abstract!Next \/ UNCHANGED <<Held, outages>>
    BY <2>3, LinkSteps DEF Abstract!Next
  <2>4. CASE PowerLoss
    BY <2>4, OutageStep DEF Abstract!Next
  <2>5. ASSUME NEW w \in Thread,
               \/ \E s \in Stage : Begin(w, s) \/ BeginTree(w, s)
               \/ \E s \in Stage, d \in Digest : SpoolStart(w, s, d) \/ CacheRead(w, s, d)
        PROVE  Same
    BY <2>5 DEF Begin, BeginTree, SpoolStart, CacheRead, stages, counts
  <2>6. ASSUME NEW w \in Thread,
               \/ SpoolCopy(w) \/ SpoolBreaks(w) \/ SpoolUndo(w) \/ SpoolComplete(w)
        PROVE  Same
    BY <2>6 DEF SpoolCopy, SpoolBreaks, SpoolUndo, SpoolComplete, Fault, stages, counts
  <2>7. ASSUME NEW w \in Thread,
               \/ CacheLock(w) \/ CacheLook(w) \/ CachePart(w) \/ CacheWrite(w)
               \/ CacheStepFails(w)
        PROVE  Same
    BY <2>7 DEF CacheLock, CacheLook, CachePart, CacheWrite, CacheStepFails, Fault, stages, counts
  <2>8. ASSUME (\E s \in Stage, d \in Digest : Scribble(s, d)) \/ \E p \in Process : Crash(p)
        PROVE  Same
    BY <2>8 DEF Scribble, Crash
  <2> HIDE DEF Same
  <2>9. CASE Next
    BY <2>1, <2>3, <2>4, <2>5, <2>6, <2>7, <2>8, <2>9 DEF Next, Proceed, Relock, Call
  <2> QED
    BY <2>2, <2>9
<1> QED
  BY <1>1, <1>2, CacheInvariant, PTL DEF Spec, ImplementsArchiveCache, Abstract!Spec

==============================================================================
