----------------------------- MODULE ArtLockProofs -----------------------------
(***************************************************************************)
(* Proofs about ArtLock, for any number of threads and keys and any sizes  *)
(* of nodes.  First the lock words: the version of a node only grows,      *)
(* whichever upgrades fail, so a search that has overlapped an unlock of   *)
(* the node it reads cannot miss it.  Then the cells while one change is   *)
(* at work on them, and what each of its steps does to them.  Last what    *)
(* the lock words are to protect: as long as no two changes have           *)
(* overlapped, a node at rest is sound, nothing crashes but over a removal *)
(* or a freed node, and a search that misses a key has overlapped what it  *)
(* cannot notice.                                                          *)
(***************************************************************************)
EXTENDS ArtLock, TLAPS, FiniteSetTheorems, WellFoundedInduction

(* The variables the argument is about, and their types.                   *)
Types ==
  /\ at \in Nodes /\ ref \in Nodes
  /\ version \in [Nodes -> Nat]
  /\ pc \in [Threads -> Labels]
  /\ on \in [Threads -> Nodes]
  /\ ver \in [Threads -> Nat] /\ pver \in [Threads -> Nat]
  /\ events \in [Searchers -> SUBSET {"unlock", "removal", "growth"}]

(* What a search has read of the version is not above it, and is below it  *)
(* once the node has been unlocked.                                        *)
ReadBelow ==
  \A s \in Searchers : Reading(s) =>
    /\ ver[s] <= version[on[s]]
    /\ "unlock" \in events[s] => ver[s] < version[on[s]]

IInv == Types /\ ReadBelow

-------------------------------------------------------------------------------
(* The operations on a lock word only add to it.                           *)
Grows(w) == w \in [Nodes -> Nat] /\ \A n \in Nodes : version[n] <= w[n]

LEMMA LockWords ==
  ASSUME version \in [Nodes -> Nat], NEW n \in Nodes, NEW p \in Nodes, NEW v \in Nat
  PROVE  /\ Grows(Upgrade(n, v)) /\ Grows(UpgradeOrUnlock(n, v, p))
         /\ Grows(WriteUnlockObsolete(n)) /\ Grows(WriteUnlock(n))
<1> USE DEF Grows
<1>1. Grows(Upgrade(n, v))
    BY DEF Upgrade
<1>2. Grows(WriteUnlockObsolete(n)) /\ Grows(WriteUnlock(n)) /\ Grows(WriteUnlock(p))
    BY DEF WriteUnlock, WriteUnlockObsolete
<1>3. Grows(UpgradeOrUnlock(n, v, p))
    BY <1>1, <1>2 DEF UpgradeOrUnlock
<1> QED BY <1>1, <1>2, <1>3

(* Either of the unlocks adds something.                                   *)
LEMMA UnlocksAdd ==
  ASSUME version \in [Nodes -> Nat], NEW n \in Nodes
  PROVE  version[n] < WriteUnlockObsolete(n)[n] /\ version[n] < WriteUnlock(n)[n]
BY DEF WriteUnlockObsolete, WriteUnlock

(* The nodes that an insert locks and unlocks are nodes.                   *)
LEMMA LockedNodes ==
  ASSUME Types, NEW t \in Threads
  PROVE  Called(t) \in Nodes /\ Parent(t) \in Nodes
BY DEF Types, Called, Parent, Nodes

LEMMA LocksGrow ==
  ASSUME Types, NEW t \in Threads,
         LockParent(t) \/ Lock(t) \/ LockFull(t) \/ Unlock(t) \/ UnlockParent(t)
  PROVE  Grows(version')
<1>1. /\ version \in [Nodes -> Nat] /\ on[t] \in Nodes
      /\ Called(t) \in Nodes /\ Parent(t) \in Nodes
      /\ ver[t] \in Nat /\ pver[t] \in Nat
    BY LockedNodes DEF Types
<1>2. CASE LockParent(t)
    BY <1>1, <1>2, LockWords DEF LockParent
<1>3. CASE Lock(t)
    BY <1>1, <1>3, LockWords DEF Lock
<1>4. CASE LockFull(t)
    BY <1>1, <1>4, LockWords DEF LockFull
<1>5. CASE Unlock(t)
    BY <1>1, <1>5, LockWords DEF Unlock
<1>6. CASE UnlockParent(t)
    BY <1>1, <1>6, LockWords DEF UnlockParent
<1> QED BY <1>2, <1>3, <1>4, <1>5, <1>6

(* A step that lets the words grow, starts no reading, and adds no unlock  *)
(* to the events of a search that reads, keeps the invariant.              *)
Quiet ==
  /\ Grows(version')
  /\ \A s \in Searchers : Reading(s)' =>
       /\ Reading(s) /\ ver'[s] = ver[s] /\ on'[s] = on[s]
       /\ "unlock" \in events'[s] => "unlock" \in events[s]

LEMMA QuietKeepsReadBelow ==
  ASSUME IInv, Quiet
  PROVE  ReadBelow'
<1> SUFFICES ASSUME NEW s \in Searchers, Reading(s)'
             PROVE  /\ ver'[s] <= version'[on'[s]]
                    /\ "unlock" \in events'[s] => ver'[s] < version'[on'[s]]
    BY DEF ReadBelow
<1>1. /\ on[s] \in Nodes /\ ver[s] \in Nat /\ version[on[s]] \in Nat
      /\ version'[on[s]] \in Nat /\ version[on[s]] <= version'[on[s]]
    BY DEF IInv, Types, Threads, Quiet, Grows
<1>2. /\ ver[s] <= version[on[s]]
      /\ "unlock" \in events[s] => ver[s] < version[on[s]]
    BY DEF IInv, ReadBelow, Quiet
<1> QED BY <1>1, <1>2 DEF Quiet

-------------------------------------------------------------------------------
LEMMA InitIInv == Init => IInv
<1> SUFFICES ASSUME Init PROVE IInv OBVIOUS
<1> USE LockAssumption DEF Init
<1>0. PICK team \in Teams :
        pc = [t \in Threads |-> IF t \in team.threads \cup Searchers THEN "start" ELSE "done"]
    OBVIOUS
<1>1. Types
    <2>1. pc \in [Threads -> Labels]
        BY <1>0 DEF Labels
    <2>2. at \in Nodes /\ ref \in Nodes /\ on \in [Threads -> Nodes]
        BY DEF Nodes
    <2>3. version \in [Nodes -> Nat]
        BY DEF LockAssumption
    <2> QED BY <2>1, <2>2, <2>3 DEF Types
<1>2. ReadBelow
    BY <1>0 DEF ReadBelow, Reading, Threads
<1> QED BY <1>1, <1>2 DEF IInv

(* The locals of a thread that returns keep their types.                   *)
LEMMA ReturnTypes ==
  ASSUME Types, NEW t \in Threads, Return(t)
  PROVE  /\ on' \in [Threads -> Nodes]
         /\ ver' \in [Threads -> Nat] /\ pver' \in [Threads -> Nat]
BY DEF Types, Return

(* No step takes the variables out of their types.                         *)
LEMMA TypesKept == Types /\ [Next]_vars => Types'
<1> SUFFICES ASSUME Types, [Next]_vars PROVE Types' OBVIOUS
<1> USE DEF Types
<1>1. ASSUME NEW t \in Threads, ReadRoot(t) \/ FollowRoot(t) PROVE Types'
    BY <1>1 DEF ReadRoot, FollowRoot, Goto, Labels, Nodes, shared, history
<1>2. ASSUME NEW t \in Threads, ReadVersion(t) PROVE Types'
    <2>1. pc' \in [Threads -> Labels]
        BY <1>2 DEF ReadVersion, Goto, Labels
    <2>2. ver' \in [Threads -> Nat] /\ on' = on
        BY <1>2 DEF ReadVersion
    <2>3. events' \in [Searchers -> SUBSET {"unlock", "removal", "growth"}]
        BY <1>2 DEF ReadVersion, Search
    <2> QED BY <1>2, <2>1, <2>2, <2>3 DEF ReadVersion, shared
<1>3. ASSUME NEW t \in Threads,
             LockParent(t) \/ Lock(t) \/ LockFull(t) \/ Unlock(t) \/ UnlockParent(t)
      PROVE  Types'
    <2>1. version' \in [Nodes -> Nat]
        BY <1>3, LocksGrow DEF Grows
    <2>2. pc' \in [Threads -> Labels]
        <3>1. CASE Unlock(t)
            BY <3>1 DEF Unlock, Goto, Labels
        <3>2. CASE LockParent(t) \/ Lock(t) \/ LockFull(t) \/ UnlockParent(t)
            BY <3>2 DEF LockParent, Lock, LockFull, UnlockParent, Goto, Labels
        <3> QED BY <1>3, <3>1, <3>2
    <2>3. /\ on' \in [Threads -> Nodes]
          /\ ver' \in [Threads -> Nat] /\ pver' \in [Threads -> Nat]
        BY <1>3, ReturnTypes DEF LockParent, Lock, LockFull, Unlock, UnlockParent, locals
    <2>4. at' = at /\ ref' = ref
        BY <1>3 DEF LockParent, Lock, LockFull, Unlock, UnlockParent
    <2>5. events' \in [Searchers -> SUBSET {"unlock", "removal", "growth"}]
        BY <1>3 DEF LockParent, Lock, LockFull, Unlock, UnlockParent, Unlocked, history
    <2> QED BY <2>1, <2>2, <2>3, <2>4, <2>5
<1>4. ASSUME NEW t \in Inserters, Publish(t) \/ FreeNode(t) PROVE Types'
    BY <1>4 DEF Publish, FreeNode, Goto, Labels, Nodes, Threads, Changers, locals, history
<1>5. ASSUME NEW t \in Threads, IsNodeFull(t) PROVE Types'
    BY <1>5 DEF IsNodeFull, Goto, Labels, shared, locals, history
<1>6. ASSUME NEW t \in Threads, Position(t) PROVE Types'
    BY <1>6 DEF Position, Goto, Labels, shared, locals, history
<1>7. ASSUME NEW t \in Threads, CopyChildren(t) PROVE Types'
    BY <1>7 DEF CopyChildren, Goto, Labels, shared, locals, history
<1>8. ASSUME NEW t \in Threads, CopyKeys(t) PROVE Types'
    BY <1>8 DEF CopyKeys, Goto, Labels, shared, locals, history
<1>9. ASSUME NEW t \in Threads, CopyCount(t) PROVE Types'
    BY <1>9 DEF CopyCount, Goto, Labels, shared, locals, history
<1>10. ASSUME NEW t \in Threads, MoveKeys(t) PROVE Types'
    BY <1>10 DEF MoveKeys, Goto, Labels, shared, locals, history
<1>11. ASSUME NEW t \in Threads, MoveChildren(t) PROVE Types'
    BY <1>11 DEF MoveChildren, Goto, Labels, shared, locals, history
<1>12. ASSUME NEW t \in Threads, SetKey(t) PROVE Types'
    BY <1>12 DEF SetKey, Goto, Labels, shared, locals, history
<1>13. ASSUME NEW t \in Threads, SetChild(t) PROVE Types'
    BY <1>13 DEF SetChild, Goto, Labels, shared, locals, history
<1>14. ASSUME NEW t \in Threads, LoadCount(t) PROVE Types'
    BY <1>14 DEF LoadCount, Goto, Labels, shared, locals, history
<1>15. ASSUME NEW t \in Threads, StoreCount(t) PROVE Types'
    BY <1>15 DEF StoreCount, Goto, Labels, shared, locals, history
<1>16. ASSUME NEW t \in Threads, Scan(t) PROVE Types'
    BY <1>16 DEF Scan, Goto, Labels, shared, locals, history
<1>17. ASSUME NEW t \in Threads, LoadChild(t) PROVE Types'
    BY <1>17 DEF LoadChild, Goto, Labels, shared, locals, history
<1>18. ASSUME NEW t \in Threads, CheckRoot(t) PROVE Types'
    BY <1>18 DEF CheckRoot, Goto, Labels, shared, locals, history
<1>19. ASSUME NEW t \in Threads, StartRemoval(t) PROVE Types'
    BY <1>19 DEF StartRemoval, Goto, Labels, shared
<1>20. ASSUME NEW t \in Threads, Free(t) PROVE Types'
    BY <1>20, ReturnTypes DEF Free, Goto, Labels, shared, history
<1>21. ASSUME NEW t \in Threads, Restart(t) PROVE Types'
    BY <1>21, ReturnTypes DEF Restart, Goto, Labels, shared, history
<1>22. ASSUME NEW t \in Threads, ReturnNull(t) PROVE Types'
    BY <1>22, ReturnTypes DEF ReturnNull, Goto, Labels, shared, history
<1>23. ASSUME NEW t \in Threads, CompareKey(t) PROVE Types'
    BY <1>23, ReturnTypes DEF CompareKey, Goto, Labels, shared, history
<1>24. ASSUME NEW t \in Threads, Stray(t) PROVE Types'
    BY <1>24, ReturnTypes DEF Stray, Goto, Labels, locals, history
<1>25. CASE UNCHANGED vars
    BY <1>25 DEF vars, shared, locals, history
<1> QED
    BY <1>1, <1>2, <1>3, <1>4, <1>5, <1>6, <1>7, <1>8, <1>9, <1>10, <1>11, <1>12, <1>13,
       <1>14, <1>15, <1>16, <1>17, <1>18, <1>19, <1>20, <1>21, <1>22, <1>23, <1>24, <1>25
       DEF Next, Step, SearchStep, InsertStep, RemoveStep, End, Threads, Changers

(* Reading begins with a load of the version, which is no older than any   *)
(* unlock, and from then on every step only lets the words grow.           *)
LEMMA ReadBelowKept == IInv /\ [Next]_vars => ReadBelow'
<1> SUFFICES ASSUME IInv, [Next]_vars PROVE ReadBelow' OBVIOUS
<1>0. Types /\ Types' /\ ReadBelow
    BY TypesKept DEF IInv
<1>1. Searchers \subseteq Threads /\ Inserters \subseteq Threads /\ Removers \subseteq Threads
    BY DEF Threads, Changers
<1>2. \A t \in Searchers : t \notin Inserters /\ t \notin Removers
    BY LockAssumption DEF Changers
<1>3. Grows(version)
    BY <1>0 DEF Types, Grows
<1>4. ASSUME NEW t \in Threads, ReadRoot(t) \/ FollowRoot(t) PROVE Quiet
    BY <1>0, <1>1, <1>3, <1>4 DEF Quiet, Types, ReadRoot, FollowRoot, Goto, Reading, shared, history
<1>5. ASSUME NEW t \in Threads, ReadVersion(t) PROVE ReadBelow'
    <2> SUFFICES ASSUME NEW s \in Searchers, Reading(s)'
                 PROVE  /\ ver'[s] <= version'[on'[s]]
                        /\ "unlock" \in events'[s] => ver'[s] < version'[on'[s]]
        BY DEF ReadBelow
    <2>1. version' = version /\ on' = on
        BY <1>5 DEF ReadVersion, shared
    <2>2. CASE s # t
        <3>1. Reading(s) /\ ver'[s] = ver[s] /\ events'[s] = events[s]
            BY <1>0, <1>1, <1>5, <2>2 DEF Types, ReadVersion, Goto, Reading
        <3> QED BY <1>0, <2>1, <3>1 DEF ReadBelow
    <2>3. CASE s = t
        <3>1. ~(Search(t) /\ at = "inner" /\ version["root"] # pver[t])
            BY <1>0, <1>1, <1>5, <2>3 DEF Types, ReadVersion, Goto, Reading
        <3>2. ver'[s] = version[on[s]] /\ "unlock" \notin events'[s]
            BY <1>0, <1>1, <1>5, <2>3, <3>1 DEF Types, ReadVersion, Search
        <3>3. version[on[s]] \in Nat
            BY <1>0, <1>1 DEF Types
        <3> QED BY <2>1, <3>2, <3>3
    <2> QED BY <2>2, <2>3
<1>6. ASSUME NEW t \in Inserters, LockParent(t) \/ Lock(t) \/ LockFull(t) \/ UnlockParent(t)
      PROVE  Quiet
    <2>1. Grows(version')
        BY <1>0, <1>1, <1>6, LocksGrow
    <2>2. events' = events
        BY <1>6 DEF LockParent, Lock, LockFull, UnlockParent, history
    <2>3. ASSUME NEW s \in Searchers
          PROVE  pc'[s] = pc[s] /\ ver'[s] = ver[s] /\ on'[s] = on[s]
        BY <1>0, <1>1, <1>2, <1>6
           DEF Types, LockParent, Lock, LockFull, UnlockParent, Goto, Return, locals
    <2> QED BY <2>1, <2>2, <2>3 DEF Quiet, Reading
<1>7. ASSUME NEW t \in Inserters, Unlock(t) PROVE ReadBelow'
    <2> SUFFICES ASSUME NEW s \in Searchers, Reading(s)'
                 PROVE  /\ ver'[s] <= version'[on'[s]]
                        /\ "unlock" \in events'[s] => ver'[s] < version'[on'[s]]
        BY DEF ReadBelow
    <2>1. Called(t) \in Nodes
        BY <1>0, <1>1, LockedNodes
    <2>2. Grows(version') /\ version[Called(t)] < version'[Called(t)]
        BY <1>0, <1>7, <2>1, LockWords, UnlocksAdd DEF Types, Unlock
    <2>3. Reading(s) /\ ver'[s] = ver[s] /\ on'[s] = on[s]
        BY <1>0, <1>1, <1>2, <1>7 DEF Types, Unlock, Goto, Return, Reading, locals
    <2>4. "unlock" \in events'[s] => "unlock" \in events[s] \/ on[s] = Called(t)
        BY <1>7 DEF Unlock, Unlocked
    <2>5. ver[s] <= version[on[s]] /\ ("unlock" \in events[s] => ver[s] < version[on[s]])
        BY <1>0, <2>3 DEF ReadBelow
    <2>6. /\ ver[s] \in Nat /\ version[on[s]] \in Nat /\ version'[on[s]] \in Nat
          /\ version[on[s]] <= version'[on[s]]
        BY <1>0, <1>1, <2>2 DEF Types, Grows
    <2> QED BY <2>2, <2>3, <2>4, <2>5, <2>6
<1>8. ASSUME NEW t \in Inserters \cup Removers,
             \/ IsNodeFull(t) \/ CopyChildren(t) \/ CopyKeys(t) \/ CopyCount(t) \/ Publish(t)
             \/ FreeNode(t) \/ Position(t) \/ MoveKeys(t) \/ MoveChildren(t) \/ SetKey(t)
             \/ SetChild(t) \/ LoadCount(t) \/ StoreCount(t) \/ StartRemoval(t) \/ Free(t)
      PROVE  Quiet
    <2>1. version' = version
        BY <1>8 DEF IsNodeFull, CopyChildren, CopyKeys, CopyCount, Publish, FreeNode, Position,
                    MoveKeys, MoveChildren, SetKey, SetChild, LoadCount, StoreCount,
                    StartRemoval, Free, shared
    <2>2. ASSUME NEW s \in Searchers
          PROVE  pc'[s] = pc[s] /\ ver'[s] = ver[s] /\ on'[s] = on[s]
        BY <1>0, <1>1, <1>2, <1>8
           DEF Types, IsNodeFull, CopyChildren, CopyKeys, CopyCount, Publish, FreeNode, Position,
               MoveKeys, MoveChildren, SetKey, SetChild, LoadCount, StoreCount,
               StartRemoval, Free, Goto, Return, locals
    <2>3. ASSUME NEW s \in Searchers PROVE "unlock" \in events'[s] => "unlock" \in events[s]
        BY <1>8 DEF IsNodeFull, CopyChildren, CopyKeys, CopyCount, Publish, FreeNode, Position,
                    MoveKeys, MoveChildren, SetKey, SetChild, LoadCount, StoreCount,
                    StartRemoval, Free, history
    <2> QED BY <1>3, <2>1, <2>2, <2>3 DEF Quiet, Reading
<1>9. ASSUME NEW t \in Threads,
             \/ Scan(t) \/ LoadChild(t) \/ Restart(t) \/ CheckRoot(t) \/ ReturnNull(t)
             \/ CompareKey(t) \/ Stray(t)
      PROVE  Quiet
    <2>1. version' = version /\ events' = events
        BY <1>9 DEF Scan, LoadChild, Restart, CheckRoot, ReturnNull, CompareKey, Stray, shared,
                    history
    <2>2. ASSUME NEW s \in Searchers, Reading(s)'
          PROVE  Reading(s) /\ ver'[s] = ver[s] /\ on'[s] = on[s]
        BY <1>0, <1>1, <1>9, <2>2
           DEF Types, Scan, LoadChild, Restart, CheckRoot, ReturnNull, CompareKey, Stray, Goto,
               Return, Reading, locals
    <2> QED BY <1>3, <2>1, <2>2 DEF Quiet
<1>10. ASSUME UNCHANGED vars PROVE Quiet
    BY <1>3, <1>10 DEF Quiet, vars, shared, locals, history, Reading
<1>11. Quiet => ReadBelow'
    BY QuietKeepsReadBelow
<1>12. ASSUME NEW s \in Searchers, SearchStep(s) PROVE ReadBelow'
    BY <1>1, <1>4, <1>5, <1>9, <1>11, <1>12 DEF SearchStep
<1>13. ASSUME NEW t \in Inserters, InsertStep(t) PROVE ReadBelow'
    BY <1>1, <1>4, <1>5, <1>6, <1>7, <1>8, <1>9, <1>11, <1>13 DEF InsertStep
<1>14. ASSUME NEW t \in Removers, RemoveStep(t) PROVE ReadBelow'
    BY <1>1, <1>8, <1>9, <1>11, <1>14 DEF RemoveStep
<1> QED BY <1>10, <1>11, <1>12, <1>13, <1>14 DEF Next, Step, End

-------------------------------------------------------------------------------
LEMMA IInvInvariant == Spec => []IInv
<1>1. IInv /\ [Next]_vars => IInv'
    BY TypesKept, ReadBelowKept DEF IInv
<1> QED BY InitIInv, <1>1, PTL DEF Spec

(* A search that gets through its last comparison has overlapped no unlock *)
(* of its node: ArtCPP.hpp:142 compares what :129 has loaded.              *)
THEOREM UnlocksSeen == Spec => []UnlocksAreSeen
<1>1. IInv => UnlocksAreSeen
    <2> SUFFICES ASSUME IInv, NEW s \in Searchers, Reading(s), "unlock" \in events[s]
                 PROVE  version[on[s]] # ver[s]
        BY DEF UnlocksAreSeen
    <2>1. ver[s] < version[on[s]]
        BY DEF IInv, ReadBelow
    <2>2. ver[s] \in Nat /\ version[on[s]] \in Nat
        BY DEF IInv, Types, Threads
    <2> QED BY <2>1, <2>2
<1> QED BY IInvInvariant, <1>1, PTL

(* The word of a node never goes down, so that two equal loads have had    *)
(* no unlock between them: ArtCPP.hpp:117, :123, :161 and :178 only        *)
(* ever add to it, also when an upgrade has failed.                        *)
THEOREM WordsGrow == Spec => [][\A n \in Nodes : version[n] <= version'[n]]_vars
<1>1. ASSUME IInv, Next PROVE \A n \in Nodes : version[n] <= version'[n]
    <2>0. version \in [Nodes -> Nat] /\ Inserters \subseteq Threads
        BY <1>1 DEF IInv, Types, Threads, Changers
    <2>1. ASSUME NEW t \in Inserters,
                 LockParent(t) \/ Lock(t) \/ LockFull(t) \/ Unlock(t) \/ UnlockParent(t)
          PROVE  Grows(version')
        BY <1>1, <2>0, <2>1, LocksGrow DEF IInv
    <2>2. ASSUME NEW s \in Searchers, SearchStep(s) PROVE version' = version
        BY <2>2 DEF SearchStep, ReadRoot, ReadVersion, Scan, LoadChild, Restart, CheckRoot,
                    ReturnNull, CompareKey, Stray, shared
    <2>3. ASSUME NEW t \in Removers, RemoveStep(t) PROVE version' = version
        BY <2>3 DEF RemoveStep, StartRemoval, Scan, LoadChild, MoveKeys, MoveChildren, LoadCount,
                    StoreCount, Free, Stray, shared
    <2>4. ASSUME NEW t \in Inserters, InsertStep(t),
                 ~(LockParent(t) \/ Lock(t) \/ LockFull(t) \/ Unlock(t) \/ UnlockParent(t))
          PROVE  version' = version
        BY <2>4 DEF InsertStep, ReadRoot, FollowRoot, ReadVersion, IsNodeFull, CopyChildren, CopyKeys,
                    CopyCount, Publish, FreeNode, Position, MoveKeys, MoveChildren, SetKey,
                    SetChild, LoadCount, StoreCount, Stray, shared
    <2> QED BY <1>1, <2>0, <2>1, <2>2, <2>3, <2>4 DEF Grows, Next, Step, End, vars, shared
<1>2. IInv /\ [Next]_vars => [\A n \in Nodes : version[n] <= version'[n]]_vars
    BY <1>1
<1> QED BY IInvInvariant, <1>2, PTL DEF Spec

-------------------------------------------------------------------------------
Rows == [keys : [Cells -> Nat], children : [Cells -> Nat], count : 0 .. GrownCapacity]

-------------------------------------------------------------------------------
(* The cells at D hold what is in S, in ascending order.                   *)
Holds(cells, D, S) ==
  /\ \A j \in D : cells[j] \in S
  /\ \A j, l \in D : j < l => cells[j] < cells[l]
  /\ \A k \in S : \E j \in D : cells[j] = k

(* Each key at D is beside its own leaf.                                   *)
Twin(n, D) == \A j \in D : n.children[j] = n.keys[j]

(* The place of k is p.                                                    *)
Around(cells, D, p, k) ==
  \A j \in D : /\ j < p => cells[j] < k
               /\ j >= p => k < cells[j]

Upto(c) == 0 .. c - 1           \* the first c cells
Gap(c, p) == (0 .. c) \ {p}     \* one more, without cell p

(* A node at rest with the keys S.                                         *)
Complete(n, S) == Holds(n.keys, Upto(n.count), S) /\ Twin(n, Upto(n.count))

(* A node that key k, whose place is p, is being inserted in.              *)
Placing(n, S, k, p) ==
  Complete(n, S) /\ p \in 0 .. n.count /\ \A j \in Upto(p) : n.keys[j] < k

Placed(n, S, k, p) ==
  Complete(n, S) /\ p \in 0 .. n.count /\ Around(n.keys, Upto(n.count), p, k)

KeysOpened(n, S, k, p) ==
  /\ Holds(n.children, Upto(n.count), S) /\ Around(n.children, Upto(n.count), p, k)
  /\ p \in 0 .. n.count
  /\ \A j \in 0 .. p - 1 : n.keys[j] = n.children[j]
  /\ \A j \in p + 1 .. n.count : n.keys[j] = n.children[j - 1]

Opened(n, S, k, p) ==
  /\ p \in 0 .. n.count
  /\ Holds(n.keys, Gap(n.count, p), S) /\ Twin(n, Gap(n.count, p))
  /\ Around(n.keys, Gap(n.count, p), p, k)

KeySet(n, S, k, p) == Opened(n, S, k, p) /\ n.keys[p] = k

Added1(n, S, k) == Holds(n.keys, 0 .. n.count, S \cup {k}) /\ Twin(n, 0 .. n.count)

(* A node that key k, found at p, is being taken from; S is without k.     *)
Seeking(n, S, k, p) == Complete(n, S \cup {k}) /\ \A j \in Upto(p) : n.keys[j] # k

AtKey(n, S, k, p) == Complete(n, S \cup {k}) /\ p \in Upto(n.count) /\ n.keys[p] = k

KeysClosed(n, S, k, p) ==
  /\ Holds(n.children, Upto(n.count), S \cup {k})
  /\ p \in Upto(n.count) /\ n.children[p] = k
  /\ \A j \in 0 .. p - 1 : n.keys[j] = n.children[j]
  /\ \A j \in p .. n.count - 2 : n.keys[j] = n.children[j + 1]

Closed(n, S) ==
  n.count > 0 /\ Holds(n.keys, Upto(n.count - 1), S) /\ Twin(n, Upto(n.count - 1))

-------------------------------------------------------------------------------
(* What the steps of a change do to the cells.                             *)
Up(cells, p, last) == [j \in Cells |-> IF p < j /\ j <= last THEN cells[j - 1] ELSE cells[j]]
Down(cells, p, last) == [j \in Cells |-> IF p <= j /\ j < last THEN cells[j + 1] ELSE cells[j]]

(* A set of numbers has a least one.                                       *)
LEMMA First ==
  ASSUME NEW S \in SUBSET Nat, S # {}, NEW otherwise
  PROVE  FirstOf(S, otherwise) \in S /\ \A l \in S : FirstOf(S, otherwise) <= l
<1>1. PICK x \in S : \A y \in S : ~(<<y, x>> \in OpToRel(<, Nat))
    BY NatLessThanWellFounded, WFMin
<1>2. \A y \in S : <<y, x>> \in OpToRel(<, Nat) <=> y < x
    BY DEF OpToRel
<1>3. \A y \in S : ~(y < x)
    BY <1>1, <1>2, Zenon
<1>4. \A y \in S : x <= y
    BY <1>3
<1> QED BY <1>4 DEF FirstOf

LEMMA CellsAreNat == GrownCapacity \in Nat /\ Cells \subseteq Nat
BY LockAssumption DEF Cells

(* add_child4() goes on until it has found the place.                      *)
LEMMA PlaceNext ==
  ASSUME NEW n \in Rows, NEW S \in SUBSET Nat, NEW k \in Nat, k \notin S, NEW p \in Nat,
         Placing(n, S, k, p)
  PROVE  /\ p < n.count /\ k >= n.keys[p] => Placing(n, S, k, p + 1)
         /\ ~(p < n.count /\ k >= n.keys[p]) => Placed(n, S, k, p)
<1>1. n.count \in Nat /\ n.count <= GrownCapacity /\ n.keys \in [Cells -> Nat]
    BY CellsAreNat DEF Rows
<1>2. \A j \in Upto(n.count) : j \in Cells /\ n.keys[j] \in Nat
    BY <1>1, CellsAreNat DEF Upto, Cells
<1>3. CASE p < n.count /\ k >= n.keys[p]
    <2>1. n.keys[p] \in S /\ p \in Upto(n.count)
        BY <1>1, <1>3 DEF Placing, Complete, Holds, Upto
    <2>2. n.keys[p] < k
        BY <1>2, <1>3, <2>1
    <2>3. \A j \in Upto(p + 1) : j = p \/ j \in Upto(p)
        BY DEF Upto
    <2> QED BY <1>1, <1>3, <2>2, <2>3 DEF Placing
<1>4. CASE ~(p < n.count /\ k >= n.keys[p])
    <2>1. ASSUME NEW j \in Upto(n.count), j < p PROVE n.keys[j] < k
        BY <2>1 DEF Placing, Upto
    <2>2. ASSUME NEW j \in Upto(n.count), j >= p PROVE k < n.keys[j]
        <3>1. p \in Upto(n.count) /\ n.keys[p] \in Nat /\ n.keys[j] \in Nat
            BY <1>1, <1>2, <2>2 DEF Upto
        <3>2. k < n.keys[p]
            BY <1>1, <1>4, <3>1 DEF Upto
        <3>3. p < j => n.keys[p] < n.keys[j]
            BY <3>1 DEF Placing, Complete, Holds
        <3>4. p = j \/ p < j
            BY <1>1, <2>2, <3>1 DEF Upto
        <3> QED BY <3>1, <3>2, <3>3, <3>4
    <2>3. Around(n.keys, Upto(n.count), p, k)
        BY <2>1, <2>2 DEF Around
    <2> QED BY <1>4, <2>3 DEF Placing, Placed
<1> QED BY <1>3, <1>4

(* add_child16() finds the place at once.                                  *)
LEMMA PlaceAtOnce ==
  ASSUME NEW n \in Rows, NEW S \in SUBSET Nat, NEW k \in Nat, k \notin S, Complete(n, S)
  PROVE  Placed(n, S, k, FirstOf({j \in 0 .. n.count - 1 : k < n.keys[j]}, n.count))
<1> DEFINE T == {j \in 0 .. n.count - 1 : k < n.keys[j]}  p == FirstOf(T, n.count)
<1>1. n.count \in Nat /\ n.count <= GrownCapacity /\ n.keys \in [Cells -> Nat]
    BY CellsAreNat DEF Rows
<1>2. \A j \in Upto(n.count) : j \in Cells /\ j \in Nat /\ n.keys[j] \in Nat /\ n.keys[j] # k
    BY <1>1, CellsAreNat DEF Upto, Cells, Complete, Holds
<1>3. p \in 0 .. n.count /\ \A j \in Upto(n.count) : j < p => ~(k < n.keys[j])
    <2>1. CASE T = {}
        BY <1>1, <2>1 DEF FirstOf, Upto
    <2>2. CASE T # {}
        <3>1. p \in T /\ \A l \in T : p <= l
            BY <2>2, First
        <3>2. ASSUME NEW j \in Upto(n.count), j < p PROVE ~(k < n.keys[j])
            <4>1. p \in Nat /\ j \in Nat
                BY <1>1, <1>2, <3>1
            <4>2. j \notin T
                BY <3>1, <3>2, <4>1
            <4> QED BY <4>2 DEF Upto
        <3> QED BY <1>1, <3>1, <3>2
    <2> QED BY <2>1, <2>2
<1>4. ASSUME NEW j \in Upto(n.count), j >= p PROVE k < n.keys[j]
    <2>1. p \in T
        <3>1. CASE T = {}
            BY <1>1, <1>4, <3>1 DEF FirstOf, Upto
        <3>2. CASE T # {}
            BY <3>2, First
        <3> QED BY <3>1, <3>2
    <2>2. p \in Upto(n.count) /\ k < n.keys[p] /\ n.keys[p] \in Nat
        BY <1>2, <2>1 DEF Upto
    <2>3. p < j => n.keys[p] < n.keys[j]
        BY <2>2 DEF Complete, Holds
    <2>4. p = j \/ p < j
        BY <1>2, <1>4, <2>2
    <2> QED BY <1>2, <2>2, <2>3, <2>4
<1>5. Around(n.keys, Upto(n.count), p, k)
    BY <1>2, <1>3, <1>4 DEF Around
<1> QED BY <1>3, <1>5 DEF Placed

LEMMA OpenKeys ==
  ASSUME NEW n \in Rows, NEW S \in SUBSET Nat, NEW k \in Nat, NEW p \in Nat,
         Placed(n, S, k, p), n.count < GrownCapacity
  PROVE  LET m == [n EXCEPT !.keys = Up(n.keys, p, n.count)] IN
         m \in Rows /\ KeysOpened(m, S, k, p)
<1> DEFINE m == [n EXCEPT !.keys = Up(n.keys, p, n.count)]
<1>1. n.count \in Nat /\ n.keys \in [Cells -> Nat] /\ n.children \in [Cells -> Nat]
    BY CellsAreNat DEF Rows
<1>2. m.keys = Up(n.keys, p, n.count) /\ m.children = n.children /\ m.count = n.count
    BY DEF Rows
<1>3. m.keys \in [Cells -> Nat]
    <2>1. \A j \in Cells : p < j /\ j <= n.count => j - 1 \in Cells
        BY <1>1, CellsAreNat DEF Cells
    <2> QED BY <1>1, <1>2, <2>1 DEF Up
<1>4. m \in Rows
    BY <1>3 DEF Rows
<1>5. \A j \in Upto(n.count) : n.children[j] = n.keys[j]
    BY DEF Placed, Complete, Twin
<1>6. p \in 0 .. n.count
    BY DEF Placed
<1>7. Holds(n.children, Upto(n.count), S) /\ Around(n.children, Upto(n.count), p, k)
    BY <1>5 DEF Placed, Complete, Holds, Around
<1>8. \A j \in 0 .. p - 1 : m.keys[j] = n.children[j]
    BY <1>1, <1>2, <1>5, <1>6, CellsAreNat DEF Up, Upto, Cells
<1>9. ASSUME NEW j \in p + 1 .. n.count PROVE m.keys[j] = n.children[j - 1]
    <2>0. j \in Nat /\ p < j /\ 0 < j /\ j <= n.count
        BY <1>1, <1>6
    <2>1. j \in Cells /\ p < j /\ j <= n.count /\ j - 1 \in Upto(n.count)
        <3>1. j \in Cells
            BY <1>1, <2>0, CellsAreNat, SMTT(20) DEF Cells
        <3>2. j - 1 \in Upto(n.count)
            BY <1>1, <2>0, SMTT(20) DEF Upto
        <3> QED BY <2>0, <3>1, <3>2
    <2>2. m.keys[j] = n.keys[j - 1]
        BY <1>2, <2>1 DEF Up
    <2> QED BY <1>5, <2>1, <2>2
<1> QED BY <1>2, <1>4, <1>6, <1>7, <1>8, <1>9 DEF KeysOpened

(* The fields of a node, for the lemmas that follow.                       *)
LEMMA Fields ==
  ASSUME NEW n \in Rows
  PROVE  /\ n.count \in Nat /\ n.count <= GrownCapacity
         /\ n.keys \in [Cells -> Nat] /\ n.children \in [Cells -> Nat]
         /\ \A j \in Upto(n.count) : /\ j \in Nat /\ j < n.count /\ j \in Cells
                                     /\ n.keys[j] \in Nat /\ n.children[j] \in Nat
<1>1. /\ n.count \in Nat /\ n.count <= GrownCapacity
      /\ n.keys \in [Cells -> Nat] /\ n.children \in [Cells -> Nat]
    BY CellsAreNat DEF Rows
<1>2. \A j \in Upto(n.count) : j \in Nat /\ j < n.count /\ j \in Cells
    BY <1>1, CellsAreNat DEF Upto, Cells
<1> QED BY <1>1, <1>2

LEMMA OpenChildren ==
  ASSUME NEW n \in Rows, NEW S \in SUBSET Nat, NEW k \in Nat, NEW p \in Nat,
         KeysOpened(n, S, k, p), n.count < GrownCapacity
  PROVE  LET m == [n EXCEPT !.children = Up(n.children, p, n.count)] IN
         /\ m \in Rows /\ Opened(m, S, k, p)
         /\ \A j \in Upto(n.count) : m.children[j] \in S
<1> DEFINE c == n.count  m == [n EXCEPT !.children = Up(n.children, p, n.count)]
           Back(j) == IF j < p THEN j ELSE j - 1
<1>1. c \in Nat /\ c < GrownCapacity /\ n.children \in [Cells -> Nat] /\ n.keys \in [Cells -> Nat]
    BY Fields
<1>2. m.keys = n.keys /\ m.children = Up(n.children, p, c) /\ m.count = c
    BY DEF Rows
<1>3. m \in Rows
    <2>1. \A j \in Cells : p < j /\ j <= c => j - 1 \in Cells
        BY <1>1, CellsAreNat DEF Cells
    <2>2. m.children \in [Cells -> Nat]
        BY <1>1, <1>2, <2>1 DEF Up
    <2> QED BY <2>2 DEF Rows
<1>4. p <= c
    BY <1>1 DEF KeysOpened
<1>5. \A j \in 0 .. c : j \in Nat /\ j <= c /\ j \in Cells
    BY <1>1, CellsAreNat DEF Cells
<1>6. \A j \in Gap(c, p) : j \in 0 .. c /\ (j < p \/ p < j)
    BY <1>5 DEF Gap
<1>7. \A j \in Gap(c, p) : /\ Back(j) \in Upto(c) /\ m.children[j] = n.children[Back(j)]
                           /\ m.keys[j] = n.children[Back(j)]
    <2> SUFFICES ASSUME NEW j \in Gap(c, p)
                 PROVE  /\ Back(j) \in Upto(c) /\ m.children[j] = n.children[Back(j)]
                        /\ m.keys[j] = n.children[Back(j)]
        OBVIOUS
    <2>1. j \in Nat /\ j <= c /\ j \in Cells
        BY <1>5, <1>6
    <2>2. CASE j < p
        <3>1. j \in Upto(c) /\ Back(j) = j /\ j \in 0 .. p - 1
            BY <1>1, <1>4, <2>1, <2>2 DEF Upto
        <3>2. m.children[j] = n.children[j]
            BY <1>2, <2>1, <2>2 DEF Up
        <3> QED BY <1>2, <3>1, <3>2 DEF KeysOpened
    <2>3. CASE p < j
        <3>1. j - 1 \in Upto(c) /\ Back(j) = j - 1 /\ j \in p + 1 .. c
            BY <1>1, <2>1, <2>3 DEF Upto
        <3>2. m.children[j] = n.children[j - 1]
            BY <1>2, <2>1, <2>3 DEF Up
        <3> QED BY <1>2, <3>1, <3>2 DEF KeysOpened
    <2> QED BY <1>6, <2>2, <2>3
<1> HIDE DEF m
<1>8. Twin(m, Gap(c, p))
    BY <1>7 DEF Twin
<1>9. Holds(m.keys, Gap(c, p), S)
    <2>1. \A j \in Gap(c, p) : m.keys[j] \in S
        BY <1>7 DEF KeysOpened, Holds
    <2>2. ASSUME NEW j \in Gap(c, p), NEW l \in Gap(c, p), j < l PROVE m.keys[j] < m.keys[l]
        <3>1. Back(j) < Back(l)
            BY <1>5, <1>6, <2>2
        <3> QED BY <1>7, <3>1 DEF KeysOpened, Holds
    <2>3. ASSUME NEW x \in S PROVE \E j \in Gap(c, p) : m.keys[j] = x
        <3>1. PICK j \in Upto(c) : n.children[j] = x
            BY DEF KeysOpened, Holds
        <3>2. j \in Nat /\ j < c
            BY <1>1 DEF Upto
        <3>3. CASE j < p
            <4>1. j \in Gap(c, p) /\ Back(j) = j
                BY <1>1, <3>2, <3>3 DEF Gap
            <4> QED BY <1>7, <3>1, <4>1
        <3>4. CASE ~(j < p)
            <4>1. j + 1 \in Gap(c, p) /\ Back(j + 1) = j
                BY <1>1, <3>2, <3>4 DEF Gap
            <4> QED BY <1>7, <3>1, <4>1
        <3> QED BY <3>3, <3>4
    <2> QED BY <2>1, <2>2, <2>3 DEF Holds
<1>10. Around(m.keys, Gap(c, p), p, k)
    <2>1. \A j \in Gap(c, p) : (j < p => Back(j) < p) /\ (j >= p => Back(j) >= p)
        BY <1>5, <1>6
    <2> QED BY <1>7, <2>1 DEF KeysOpened, Around
<1>11. ASSUME NEW j \in Upto(c) PROVE m.children[j] \in S
    <2>1. j \in Cells /\ j \in Nat /\ j <= c
        BY <1>1, <1>11, Fields
    <2>2. CASE j = p
        BY <1>2, <2>1, <2>2 DEF Up, KeysOpened, Holds
    <2>3. CASE j # p
        <3>1. j \in Gap(c, p)
            BY <1>1, <2>1, <2>3 DEF Gap
        <3> QED BY <1>7, <3>1 DEF KeysOpened, Holds
    <2> QED BY <2>2, <2>3
<1> QED BY <1>1, <1>2, <1>3, <1>4, <1>8, <1>9, <1>10, <1>11 DEF Opened, m

(* The key and the leaf are set in the cell that has been left for them.   *)
LEMMA SetTheKey ==
  ASSUME NEW n \in Rows, NEW S \in SUBSET Nat, NEW k \in Nat, NEW p \in Nat,
         Opened(n, S, k, p), n.count < GrownCapacity
  PROVE  LET m == [n EXCEPT !.keys[p] = k] IN m \in Rows /\ KeySet(m, S, k, p)
<1> DEFINE c == n.count  m == [n EXCEPT !.keys[p] = k]
<1>1. c \in Nat /\ c < GrownCapacity /\ n.children \in [Cells -> Nat] /\ n.keys \in [Cells -> Nat]
    BY Fields
<1>2. p \in Cells
    BY <1>1, CellsAreNat DEF Opened, Cells
<1>3. /\ m.keys = [n.keys EXCEPT ![p] = k] /\ m.children = n.children /\ m.count = c
      /\ m \in Rows
    BY <1>1 DEF Rows
<1> HIDE DEF m
<1>4. \A j \in Gap(c, p) : j # p /\ j \in Cells
    BY <1>1, CellsAreNat DEF Gap, Cells
<1>5. \A j \in Gap(c, p) : m.keys[j] = n.keys[j]
    BY <1>1, <1>3, <1>4
<1>6. m.keys[p] = k
    BY <1>1, <1>2, <1>3
<1> QED BY <1>3, <1>5, <1>6 DEF Opened, KeySet, Holds, Twin, Around, m

LEMMA SetTheChild ==
  ASSUME NEW n \in Rows, NEW S \in SUBSET Nat, NEW k \in Nat, NEW p \in Nat,
         KeySet(n, S, k, p), n.count < GrownCapacity
  PROVE  LET m == [n EXCEPT !.children[p] = k] IN
         /\ m \in Rows /\ Added1(m, S, k)
         /\ \A j \in Upto(n.count) : m.children[j] \in S \cup {k}
<1> DEFINE c == n.count  m == [n EXCEPT !.children[p] = k]
<1>1. c \in Nat /\ c < GrownCapacity /\ n.children \in [Cells -> Nat] /\ n.keys \in [Cells -> Nat]
    BY Fields
<1>2. p \in 0 .. c /\ p \in Cells
    BY <1>1, CellsAreNat DEF KeySet, Opened, Cells
<1>3. /\ m.children = [n.children EXCEPT ![p] = k] /\ m.keys = n.keys /\ m.count = c
      /\ m \in Rows
    BY <1>1 DEF Rows
<1> HIDE DEF m
<1>4. \A j \in 0 .. c : j \in Nat /\ j \in Cells /\ (j = p \/ j \in Gap(c, p))
    BY <1>1, CellsAreNat DEF Gap, Cells
<1>5. Holds(n.keys, Gap(c, p), S) /\ Twin(n, Gap(c, p)) /\ Around(n.keys, Gap(c, p), p, k)
    BY DEF KeySet, Opened
<1>6. n.keys[p] = k
    BY DEF KeySet
<1>7. Twin(m, 0 .. c)
    <2>1. m.children[p] = k
        BY <1>1, <1>2, <1>3
    <2>2. ASSUME NEW j \in Gap(c, p) PROVE m.children[j] = n.children[j]
        BY <1>1, <1>3 DEF Gap
    <2> QED BY <1>3, <1>4, <1>5, <1>6, <2>1, <2>2 DEF Twin
<1>8. Holds(m.keys, 0 .. c, S \cup {k})
    <2>1. \A j \in 0 .. c : m.keys[j] \in S \cup {k}
        BY <1>3, <1>4, <1>5, <1>6 DEF Holds
    <2>2. ASSUME NEW j \in 0 .. c, NEW l \in 0 .. c, j < l PROVE m.keys[j] < m.keys[l]
        <3>1. CASE j = p
            <4>1. l \in Gap(c, p) /\ l >= p
                BY <1>4, <2>2, <3>1
            <4> QED BY <1>3, <1>5, <1>6, <3>1, <4>1 DEF Around
        <3>2. CASE l = p
            <4>1. j \in Gap(c, p) /\ j < p
                BY <1>4, <2>2, <3>2
            <4> QED BY <1>3, <1>5, <1>6, <3>2, <4>1 DEF Around
        <3>3. CASE j # p /\ l # p
            BY <1>3, <1>4, <1>5, <2>2, <3>3 DEF Holds
        <3> QED BY <3>1, <3>2, <3>3
    <2>3. \A x \in S \cup {k} : \E j \in 0 .. c : m.keys[j] = x
        <3>1. \A j \in Gap(c, p) : j \in 0 .. c
            BY DEF Gap
        <3> QED BY <1>2, <1>3, <1>5, <1>6, <3>1 DEF Holds
    <2> QED BY <2>1, <2>2, <2>3 DEF Holds
<1>9. \A j \in Upto(c) : j \in 0 .. c
    BY <1>1 DEF Upto
<1> QED BY <1>3, <1>7, <1>8, <1>9 DEF Added1, Holds, Twin, m

LEMMA StoreAdded ==
  ASSUME NEW n \in Rows, NEW S \in SUBSET Nat, NEW k \in Nat, Added1(n, S, k),
         n.count < GrownCapacity
  PROVE  LET m == [n EXCEPT !.count = n.count + 1] IN m \in Rows /\ Complete(m, S \cup {k})
<1> DEFINE c == n.count  m == [n EXCEPT !.count = c + 1]
<1>1. c \in Nat /\ c < GrownCapacity /\ GrownCapacity \in Nat
    BY Fields, CellsAreNat
<1>2. m.keys = n.keys /\ m.children = n.children /\ m.count = c + 1 /\ m \in Rows
    BY <1>1 DEF Rows
<1>3. Upto(c + 1) = 0 .. c
    BY <1>1 DEF Upto
<1> HIDE DEF m
<1>4. Holds(m.keys, Upto(m.count), S \cup {k}) /\ Twin(m, Upto(m.count))
    BY <1>2, <1>3 DEF Added1, Twin
<1> QED BY <1>2, <1>4 DEF Complete, m

(* All children of a node that is being added to can be seen.              *)
LEMMA CompleteShows ==
  ASSUME NEW n, NEW S, Complete(n, S)
  PROVE  \A j \in Upto(n.count) : n.children[j] \in S /\ n.keys[j] \in S
BY DEF Complete, Holds, Twin

(* A node whose cells are those of another holds what the other holds.     *)
LEMMA CopyIsComplete ==
  ASSUME NEW n \in Rows, NEW m \in Rows, NEW S, Complete(n, S), m.count = n.count,
         \A j \in Upto(n.count) : m.keys[j] = n.keys[j] /\ m.children[j] = n.children[j]
  PROVE  Complete(m, S)
BY DEF Complete, Holds, Twin

-------------------------------------------------------------------------------
(* find_child() of a removal does not get past the key that is there.      *)
LEMMA SeekNext ==
  ASSUME NEW n \in Rows, NEW S \in SUBSET Nat, NEW k \in Nat, NEW p \in Nat,
         Seeking(n, S, k, p)
  PROVE  /\ p < n.count
         /\ n.keys[p] = k => AtKey(n, S, k, p)
         /\ n.keys[p] # k => Seeking(n, S, k, p + 1)
<1>1. n.count \in Nat
    BY Fields
<1>2. PICK j \in Upto(n.count) : n.keys[j] = k
    BY DEF Seeking, Complete, Holds
<1>3. ~(j \in Upto(p))
    BY <1>2 DEF Seeking
<1>4. p \in Upto(n.count) /\ p < n.count
    BY <1>1, <1>2, <1>3 DEF Upto
<1>5. \A l \in Upto(p + 1) : l = p \/ l \in Upto(p)
    BY DEF Upto
<1> QED BY <1>4, <1>5 DEF Seeking, AtKey

LEMMA SeekAtOnce ==
  ASSUME NEW n \in Rows, NEW S \in SUBSET Nat, NEW k \in Nat, Complete(n, S \cup {k})
  PROVE  LET p == FirstOf({l \in 0 .. n.count - 1 : n.keys[l] = k}, n.count) IN
         p < n.count /\ p \in Nat /\ AtKey(n, S, k, p)
<1> DEFINE T == {l \in 0 .. n.count - 1 : n.keys[l] = k}  p == FirstOf(T, n.count)
<1>1. n.count \in Nat
    BY Fields
<1>2. T \in SUBSET Nat /\ T # {}
    BY <1>1 DEF Complete, Holds, Upto
<1>3. p \in T
    BY <1>2, First
<1>4. p \in Upto(n.count) /\ n.keys[p] = k
    BY <1>3 DEF Upto
<1>5. p < n.count /\ p \in Nat
    BY <1>1, <1>2, <1>3
<1> QED BY <1>4, <1>5 DEF AtKey

LEMMA CloseKeys ==
  ASSUME NEW n \in Rows, NEW S \in SUBSET Nat, NEW k \in Nat, NEW p \in Nat,
         AtKey(n, S, k, p)
  PROVE  LET m == [n EXCEPT !.keys = Down(n.keys, p, n.count - 1)] IN
         m \in Rows /\ KeysClosed(m, S, k, p)
<1> DEFINE c == n.count  m == [n EXCEPT !.keys = Down(n.keys, p, c - 1)]
<1>1. /\ c \in Nat /\ c <= GrownCapacity /\ GrownCapacity \in Nat
      /\ n.keys \in [Cells -> Nat] /\ n.children \in [Cells -> Nat]
    BY Fields, CellsAreNat
<1>2. m.keys = Down(n.keys, p, c - 1) /\ m.children = n.children /\ m.count = c
    BY DEF Rows
<1>3. \A j \in Cells : p <= j /\ j < c - 1 => j + 1 \in Cells
    BY <1>1 DEF Cells
<1>4. m.keys \in [Cells -> Nat]
    BY <1>1, <1>2, <1>3 DEF Down
<1>5. m \in Rows
    BY <1>4 DEF Rows
<1> HIDE DEF m
<1>6. p < c
    BY <1>1 DEF AtKey, Upto
<1>7. \A j \in Upto(c) : n.children[j] = n.keys[j] /\ j \in Cells
    BY Fields DEF AtKey, Complete, Twin
<1>8. Holds(n.children, Upto(c), S \cup {k}) /\ n.children[p] = k
    BY <1>7 DEF AtKey, Complete, Holds
<1>9. ASSUME NEW j \in 0 .. p - 1 PROVE m.keys[j] = n.children[j]
    <2>1. j \in Upto(c) /\ ~(p <= j)
        BY <1>1, <1>6 DEF Upto
    <2> QED BY <1>2, <1>7, <2>1 DEF Down
<1>10. ASSUME NEW j \in p .. c - 2 PROVE m.keys[j] = n.children[j + 1]
    <2>1. j \in Upto(c) /\ j + 1 \in Upto(c) /\ p <= j /\ j < c - 1
        BY <1>1, <1>6 DEF Upto
    <2> QED BY <1>2, <1>7, <2>1 DEF Down
<1>11. p \in Upto(c)
    BY DEF AtKey
<1> QED BY <1>2, <1>5, <1>8, <1>9, <1>10, <1>11 DEF KeysClosed, m

LEMMA CloseChildren ==
  ASSUME NEW n \in Rows, NEW S \in SUBSET Nat, NEW k \in Nat, k \notin S, NEW p \in Nat,
         KeysClosed(n, S, k, p)
  PROVE  LET m == [n EXCEPT !.children = Down(n.children, p, n.count - 1)] IN
         m \in Rows /\ Closed(m, S)
<1> DEFINE c == n.count  m == [n EXCEPT !.children = Down(n.children, p, c - 1)]
           Ahead(j) == IF j < p THEN j ELSE j + 1
<1>1. /\ c \in Nat /\ c <= GrownCapacity /\ GrownCapacity \in Nat
      /\ n.keys \in [Cells -> Nat] /\ n.children \in [Cells -> Nat]
    BY Fields, CellsAreNat
<1>2. m.children = Down(n.children, p, c - 1) /\ m.keys = n.keys /\ m.count = c
    BY DEF Rows
<1>3. \A j \in Cells : p <= j /\ j < c - 1 => j + 1 \in Cells
    BY <1>1 DEF Cells
<1>4. m.children \in [Cells -> Nat]
    BY <1>1, <1>2, <1>3 DEF Down
<1>5. m \in Rows
    BY <1>4 DEF Rows
<1> HIDE DEF m
<1>6. p < c /\ p \in Upto(c)
    BY <1>1 DEF KeysClosed, Upto
<1>7. \A j \in Upto(c - 1) : j \in Nat /\ j < c - 1 /\ j \in Upto(c) /\ j + 1 \in Upto(c)
    BY <1>1 DEF Upto
<1>8. \A j \in Upto(c - 1) : /\ Ahead(j) \in Upto(c) /\ Ahead(j) # p
                             /\ m.children[j] = n.children[Ahead(j)]
                             /\ m.keys[j] = n.children[Ahead(j)]
    <2> SUFFICES ASSUME NEW j \in Upto(c - 1)
                 PROVE  /\ Ahead(j) \in Upto(c) /\ Ahead(j) # p
                        /\ m.children[j] = n.children[Ahead(j)]
                        /\ m.keys[j] = n.children[Ahead(j)]
        OBVIOUS
    <2>1. j \in Nat /\ j < c - 1 /\ j \in Cells
        BY <1>7, Fields
    <2>2. CASE j < p
        <3>1. Ahead(j) = j /\ Ahead(j) # p /\ j \in 0 .. p - 1
            BY <2>1, <2>2
        <3>2. m.children[j] = n.children[j]
            BY <1>2, <2>1, <2>2 DEF Down
        <3> QED BY <1>2, <1>7, <3>1, <3>2 DEF KeysClosed
    <2>3. CASE ~(j < p)
        <3>1. Ahead(j) = j + 1 /\ Ahead(j) # p /\ j \in p .. c - 2 /\ p <= j
            BY <1>1, <2>1, <2>3
        <3>2. m.children[j] = n.children[j + 1]
            BY <1>2, <2>1, <3>1 DEF Down
        <3> QED BY <1>2, <1>7, <3>1, <3>2 DEF KeysClosed
    <2> QED BY <2>2, <2>3
<1>9. Holds(m.keys, Upto(c - 1), S)
    <2>1. ASSUME NEW j \in Upto(c - 1) PROVE m.keys[j] \in S
        <3>1. Ahead(j) \in Upto(c) /\ Ahead(j) # p /\ Ahead(j) \in Nat
            BY <1>8, Fields
        <3>2. Ahead(j) < p \/ p < Ahead(j)
            BY <3>1
        <3>3. n.children[Ahead(j)] \in Nat /\ n.children[Ahead(j)] # k
            BY <1>6, <3>1, <3>2, Fields DEF KeysClosed, Holds
        <3> QED BY <1>8, <3>1, <3>3 DEF KeysClosed, Holds
    <2>2. ASSUME NEW j \in Upto(c - 1), NEW l \in Upto(c - 1), j < l PROVE m.keys[j] < m.keys[l]
        <3>1. Ahead(j) < Ahead(l)
            BY <1>7, <2>2
        <3>2. n.children[Ahead(j)] < n.children[Ahead(l)]
            BY <1>8, <3>1, Zenon DEF KeysClosed, Holds
        <3> QED BY <1>8, <3>2
    <2>3. ASSUME NEW x \in S PROVE \E j \in Upto(c - 1) : m.keys[j] = x
        <3>1. PICK j \in Upto(c) : n.children[j] = x
            BY DEF KeysClosed, Holds
        <3>2. j \in Nat /\ j < c /\ j # p
            BY <3>1, Fields DEF KeysClosed
        <3>3. CASE j < p
            <4>1. j \in Upto(c - 1) /\ Ahead(j) = j
                BY <1>1, <1>6, <3>2, <3>3 DEF Upto
            <4> QED BY <1>8, <3>1, <4>1
        <3>4. CASE p < j
            <4>1. j - 1 \in Upto(c - 1) /\ Ahead(j - 1) = j
                BY <1>1, <3>2, <3>4 DEF Upto
            <4> QED BY <1>8, <3>1, <4>1
        <3> QED BY <3>2, <3>3, <3>4
    <2> QED BY <2>1, <2>2, <2>3 DEF Holds
<1>10. Twin(m, Upto(c - 1))
    BY <1>8 DEF Twin
<1> QED BY <1>1, <1>2, <1>5, <1>6, <1>9, <1>10 DEF Closed, m

LEMMA StoreTaken ==
  ASSUME NEW n \in Rows, NEW S \in SUBSET Nat, Closed(n, S)
  PROVE  LET m == [n EXCEPT !.count = n.count - 1] IN m \in Rows /\ Complete(m, S)
<1> DEFINE c == n.count  m == [n EXCEPT !.count = c - 1]
<1>1. c \in Nat /\ c <= GrownCapacity /\ c > 0 /\ GrownCapacity \in Nat
    BY Fields, CellsAreNat DEF Closed
<1>2. m.keys = n.keys /\ m.children = n.children /\ m.count = c - 1 /\ m \in Rows
    BY <1>1 DEF Rows
<1> HIDE DEF m
<1>3. Holds(m.keys, Upto(m.count), S) /\ Twin(m, Upto(m.count))
    BY <1>2 DEF Closed, Twin
<1> QED BY <1>2, <1>3 DEF Complete, m

-------------------------------------------------------------------------------
(* num_children is the number of the keys.                                 *)
LEMMA CountIsCardinality ==
  ASSUME NEW n \in Rows, NEW S, Complete(n, S)
  PROVE  IsFiniteSet(S) /\ Cardinality(S) = n.count
<1> DEFINE D == Upto(n.count)  f == [j \in D |-> n.keys[j]]
<1>1. n.count \in Nat /\ \A j \in D : j \in Nat /\ n.keys[j] \in Nat
    BY Fields
<1>2. IsFiniteSet(D) /\ Cardinality(D) = n.count
    <2>0. 0 \in Int /\ n.count - 1 \in Int
        BY <1>1
    <2>1. /\ IsFiniteSet(0 .. n.count - 1)
          /\ Cardinality(0 .. n.count - 1) =
               IF 0 > n.count - 1 THEN 0 ELSE n.count - 1 - 0 + 1
        BY <2>0, FS_Interval, Zenon
    <2> QED BY <1>1, <2>1 DEF Upto
<1>3. f \in [D -> S]
    BY DEF Complete, Holds
<1>4. f \in Surjection(D, S)
    BY <1>3 DEF Surjection, Complete, Holds
<1>5. f \in Injection(D, S)
    <2>1. ASSUME NEW j \in D, NEW l \in D, f[j] = f[l] PROVE j = l
        <3>1. n.keys[j] = n.keys[l] /\ n.keys[j] \in Nat /\ j \in Nat /\ l \in Nat
            BY <1>1, <2>1
        <3>2. ~(j < l) /\ ~(l < j)
            BY <3>1 DEF Complete, Holds
        <3> QED BY <3>1, <3>2
    <2> HIDE DEF f
    <2> QED BY <1>3, <2>1 DEF Injection, IsInjective
<1>6. f \in Bijection(D, S)
    BY <1>4, <1>5 DEF Bijection
<1>7. ExistsBijection(D, S)
    BY <1>6 DEF ExistsBijection
<1> QED BY <1>2, <1>7, FS_Bijection

(* The keys in ascending order, as the node holds them to begin with.      *)
Sorted(S) == [j \in Cells |->
                IF j < Cardinality(S)
                  THEN CHOOSE k \in S : Cardinality({l \in S : l < k}) = j
                  ELSE 0]

LEMMA SortedHolds ==
  ASSUME NEW S \in SUBSET Nat, IsFiniteSet(S), Cardinality(S) <= GrownCapacity
  PROVE  /\ Sorted(S) \in [Cells -> Nat] /\ Cardinality(S) \in Nat
         /\ Holds(Sorted(S), Upto(Cardinality(S)), S)
<1> DEFINE c == Cardinality(S)  D == Upto(c)
           Below(k) == {l \in S : l < k}
           r == [k \in S |-> Cardinality(Below(k))]
<1>1. c \in Nat /\ c <= GrownCapacity /\ GrownCapacity \in Nat
    BY FS_CardinalityType, CellsAreNat
<1>2. ASSUME NEW k \in S PROVE IsFiniteSet(Below(k)) /\ r[k] \in Nat /\ r[k] < c
    <2>1. Below(k) \in SUBSET S /\ k \notin Below(k)
        OBVIOUS
    <2>2. /\ IsFiniteSet(Below(k)) /\ Cardinality(Below(k)) <= c
          /\ c = Cardinality(Below(k)) => S = Below(k)
        BY <2>1, FS_Subset, Zenon
    <2>3. Cardinality(Below(k)) \in Nat
        BY <2>2, FS_CardinalityType, Zenon
    <2> HIDE DEF Below
    <2> QED BY <1>1, <2>1, <2>2, <2>3
<1>3. ASSUME NEW a \in S, NEW b \in S, a < b PROVE r[a] < r[b]
    <2>0. a \in Nat /\ b \in Nat /\ \A l \in S : l \in Nat
        OBVIOUS
    <2>1. Below(a) \in SUBSET Below(b) /\ a \in Below(b) /\ a \notin Below(a)
        <3>1. \A l \in Below(a) : l \in S /\ l < b
            BY <1>3, <2>0
        <3>2. a \notin Below(a) /\ a \in Below(b)
            BY <1>3, <2>0
        <3>3. Below(a) \subseteq Below(b)
            BY <3>1
        <3> QED BY <3>2, <3>3
    <2>2. /\ Cardinality(Below(a)) <= Cardinality(Below(b))
          /\ Cardinality(Below(b)) = Cardinality(Below(a)) => Below(b) = Below(a)
        BY <1>2, <2>1, FS_Subset, Zenon
    <2>3. r[a] \in Nat /\ r[b] \in Nat
        BY <1>2
    <2> HIDE DEF Below
    <2> QED BY <2>1, <2>2, <2>3
<1> HIDE DEF r
<1>4. \A a, b \in S : r[a] = r[b] => a = b
    <2> SUFFICES ASSUME NEW a \in S, NEW b \in S, r[a] = r[b] PROVE a = b
        OBVIOUS
    <2>1. a \in Nat /\ b \in Nat /\ r[a] \in Nat /\ r[b] \in Nat
        BY <1>2
    <2>2. ~(a < b) /\ ~(b < a)
        BY <1>3, <2>1
    <2> QED BY <2>1, <2>2
<1>5. \A j \in D : \E k \in S : r[k] = j
    <2>1. r \in [S -> D]
        <3>1. r = [k \in S |-> r[k]]
            BY DEF r
        <3>2. ASSUME NEW k \in S PROVE r[k] \in D
            <4>1. r[k] \in Nat /\ r[k] < c
                BY <1>2
            <4> QED BY <1>1, <4>1 DEF Upto
        <3> QED BY <3>1, <3>2, Zenon
    <2>2. r \in Injection(S, D)
        BY <1>4, <2>1 DEF Injection, IsInjective
    <2>3. IsFiniteSet(D) /\ Cardinality(D) = c
        <3>1. 0 \in Int /\ c - 1 \in Int
            BY <1>1
        <3>2. /\ IsFiniteSet(0 .. c - 1)
              /\ Cardinality(0 .. c - 1) = IF 0 > c - 1 THEN 0 ELSE c - 1 - 0 + 1
            BY <3>1, FS_Interval, Zenon
        <3> QED BY <1>1, <3>2 DEF Upto
    <2>4. r \in Surjection(S, D)
        BY <2>2, <2>3, FS_Injection, Zenon
    <2> QED BY <2>4 DEF Surjection
<1>6. \A j \in D : j \in Cells /\ j \in Nat /\ j < c
    BY <1>1 DEF Upto, Cells
<1>7. ASSUME NEW j \in D PROVE Sorted(S)[j] \in S /\ r[Sorted(S)[j]] = j
    <2>1. Sorted(S)[j] = CHOOSE k \in S : Cardinality(Below(k)) = j
        BY <1>6 DEF Sorted
    <2>2. \E k \in S : Cardinality(Below(k)) = j
        BY <1>5 DEF r
    <2>3. Sorted(S)[j] \in S /\ Cardinality(Below(Sorted(S)[j])) = j
        BY <2>1, <2>2, Zenon
    <2> QED BY <2>3 DEF r
<1>8. Holds(Sorted(S), D, S)
    <2>1. ASSUME NEW j \in D, NEW l \in D, j < l PROVE Sorted(S)[j] < Sorted(S)[l]
        <3>1. Sorted(S)[j] \in Nat /\ Sorted(S)[l] \in Nat /\ j \in Nat /\ l \in Nat
            BY <1>6, <1>7
        <3>2. ~(Sorted(S)[l] < Sorted(S)[j]) /\ Sorted(S)[j] # Sorted(S)[l]
            BY <1>3, <1>7, <2>1, <3>1
        <3> QED BY <3>1, <3>2
    <2>2. ASSUME NEW k \in S PROVE \E j \in D : Sorted(S)[j] = k
        <3>1. r[k] \in D
            <4>1. r[k] \in Nat /\ r[k] < c
                BY <1>2
            <4> QED BY <1>1, <4>1 DEF Upto
        <3>2. Sorted(S)[r[k]] \in S /\ r[Sorted(S)[r[k]]] = r[k]
            BY <1>7, <3>1
        <3> QED BY <1>4, <3>1, <3>2
    <2> QED BY <1>7, <2>1, <2>2 DEF Holds
<1>9. Sorted(S) \in [Cells -> Nat]
    <2>1. ASSUME NEW j \in Cells PROVE Sorted(S)[j] \in Nat
        <3>1. CASE j < c
            <4>1. j \in D
                BY <1>1, <3>1, CellsAreNat DEF Upto, Cells
            <4> QED BY <1>7, <4>1
        <3>2. CASE ~(j < c)
            BY <3>2 DEF Sorted
        <3> QED BY <3>1, <3>2
    <2> QED BY <2>1 DEF Sorted
<1> QED BY <1>1, <1>8, <1>9

-------------------------------------------------------------------------------
(* Nothing is claimed once two changes have overlapped.                    *)
Fine == ~clash /\ ~crashed

-------------------------------------------------------------------------------
(* What has been done to the node where a change is at each of its steps.  *)
InsertOK(t) ==
  LET n == node[on[t]]  S == stored  k == KeyOf[t]  p == i[t] IN
  /\ pc[t] = "position" => Placing(n, S, k, p)
  /\ pc[t] \in {"copyKeys", "copyCount", "publish", "freeNode"} => Complete(n, S) /\ p = 0
  /\ pc[t] \in {"copyKeys", "copyCount", "publish", "freeNode"} =>
       \A j \in Upto(n.count) : node[t].children[j] = n.children[j]
  /\ pc[t] \in {"copyCount", "publish", "freeNode"} =>
       \A j \in Upto(n.count) : node[t].keys[j] = n.keys[j]
  /\ pc[t] \in {"publish", "freeNode"} => node[t].count = n.count
  /\ pc[t] = "keys" => Placed(n, S, k, p)
  /\ pc[t] = "children" => KeysOpened(n, S, k, p)
  /\ pc[t] = "setKey" => Opened(n, S, k, p)
  /\ pc[t] = "setChild" => KeySet(n, S, k, p)
  /\ pc[t] \in {"count", "add"} => Added1(n, S, k)
  /\ pc[t] = "add" => reg[t] = n.count
  /\ pc[t] = "unlock" => Complete(n, S \cup {k})
  /\ pc[t] # "unlock" => n.count < GrownCapacity
  /\ \A j \in Upto(n.count) : n.children[j] \in S \cup {k}

RemoveOK(t) ==
  LET n == node[on[t]]  S == stored  k == KeyOf[t]  p == i[t] IN
  /\ pc[t] = "scan" => Seeking(n, S, k, p)
  /\ pc[t] \in {"child", "keys"} => AtKey(n, S, k, p)
  /\ pc[t] = "children" => KeysClosed(n, S, k, p)
  /\ pc[t] \in {"count", "add"} => Closed(n, S)
  /\ pc[t] = "add" => reg[t] = n.count

Content ==
  /\ \A t \in Inserters : Working(t) => InsertOK(t)
  /\ \A t \in Removers : Working(t) => RemoveOK(t)
  /\ (\A t \in Changers : ~Working(t)) => Complete(node[ref], stored)

-------------------------------------------------------------------------------
InsertLabels == {"start", "follow", "version", "full", "lockParent", "lock", "lockFull", "position",
                 "copyKeys", "copyCount", "publish", "freeNode", "keys", "children", "setKey",
                 "setChild", "count", "add", "unlock", "unlockParent", "done"}
RemoveLabels == {"start", "scan", "child", "keys", "children", "count", "add", "free", "done"}
SearchLabels == {"start", "version", "checkRoot", "scan", "child", "checkNull", "checkLeaf",
                 "found", "missed"}

Early == {"start", "follow", "version", "full", "lockParent", "lock", "lockFull"}

Typed ==
  /\ target \in [Searchers -> Nat \ {0}]
  /\ node \in [Nodes -> Rows]
  /\ i \in [Threads -> Nat] /\ reg \in [Threads -> Nat]
  /\ \A t \in Threads : pc[t] = "child" => i[t] \in Cells
  /\ \A t \in Inserters : pc[t] \in InsertLabels
  /\ \A t \in Removers : pc[t] \in RemoveLabels
  /\ \A t \in Searchers : pc[t] \in SearchLabels

(* There is one change at a time, and it is at work on the node that the   *)
(* pointer leads to, which has taken the place of another at most once.    *)
Alone ==
  /\ \A t, u \in Changers : Working(t) /\ Working(u) => t = u
  /\ \A t \in Threads : on[t] \in {at, ref}
  /\ at \in {"root", "inner"}
  /\ \/ ref = at /\ gone = {}
     \/ ref \in Inserters /\ gone = {at}
     \/ ref \in Inserters /\ gone = {} /\ pc[ref] = "freeNode"
  /\ \A t \in Inserters : pc[t] = "freeNode" => ref = t
  /\ \A t \in Inserters : pc[t] \in {"copyKeys", "copyCount", "publish"} => ref = at
  /\ \A t \in Changers : Working(t) => on[t] = IF pc[t] = "freeNode" THEN at ELSE ref

(* Which keys are stored, by what their inserts and removals have done.    *)
Membership ==
  /\ stored \subseteq Nat \ {0}
  /\ \A t \in Inserters : pc[t] \in {"unlockParent", "done"} \/ KeyOf[t] \notin stored
  /\ \A t \in Removers : /\ pc[t] = "start" => KeyOf[t] \in stored
                         /\ Working(t) \/ pc[t] = "free" => KeyOf[t] \notin stored
  /\ \A t \in Changers : pc[t] \in Early => i[t] = 0
  /\ \E team \in Teams : /\ \A t \in Changers \ team.threads : pc[t] = "done"
                         /\ stored \subseteq team.load \cup Added(team)

(* No search can read a leaf that has been freed, unless it has overlapped *)
(* the removal, or the node has been replaced.                             *)
Lost == freed \cup {KeyOf[t] : t \in {r \in Removers : pc[r] = "free"}}

Active(s) == Reading(s) \/ pc[s] = "version"

Untouched(s) ==
  /\ Active(s) /\ (\E t \in Removers : Working(t)) => "removal" \in events[s]
  /\ gone = {} /\ "removal" \notin events[s] =>
       /\ pc[s] = "child" => i[s] < node[on[s]].count
       /\ pc[s] = "checkLeaf" => reg[s] \notin Lost

Freed ==
  /\ freed \subseteq {KeyOf[t] : t \in Removers} /\ freed \cap stored = {}
  /\ \A s \in Searchers : Untouched(s)

(* What a search for a key that is stored has found, as long as it has     *)
(* overlapped nothing and no insert is at work.                            *)
Trail(s) ==
  LET n == node[on[s]] IN
  /\ pc[s] = "scan" => \A j \in Upto(i[s]) : n.keys[j] # target[s]
  /\ pc[s] = "child" => i[s] \in Upto(n.count) /\ n.keys[i[s]] = target[s]
  /\ pc[s] = "checkLeaf" => reg[s] = target[s]
  /\ pc[s] # "checkNull"

FoundBy(s) ==
  Active(s) =>
    /\ pc[s] \in {"version", "checkRoot"} => i[s] = 0
    /\ s \in due /\ "removal" \notin events[s] => target[s] \in stored
    /\ Reading(s) /\ s \in due /\ events[s] = {} /\ on[s] \notin gone
         /\ (\A t \in Inserters : ~Working(t)) => Trail(s)

Found == \A s \in Searchers : FoundBy(s)

Sound == Typed /\ Alone /\ Membership /\ Content /\ Freed /\ Found

Cell == Fine => Sound


-------------------------------------------------------------------------------
(* The kinds of threads, and their names and keys.                         *)
LEMMA Sorts ==
  /\ Changers = Inserters \cup Removers /\ Threads = Changers \cup Searchers
  /\ \A t \in Inserters : t \in Changers /\ t \in Threads /\ t \in Nodes
  /\ \A t \in Inserters : t \notin Removers /\ t # "root" /\ t # "inner"
  /\ \A t \in Changers : t \notin Searchers /\ t \in Threads
  /\ \A t \in Searchers : t \in Threads /\ t \notin Inserters /\ t \notin Removers
  /\ \A t \in Changers : KeyOf[t] \in Nat /\ KeyOf[t] # 0
  /\ \A t, u \in Changers : KeyOf[t] = KeyOf[u] => t = u
  /\ "root" \in Nodes /\ "inner" \in Nodes /\ "root" \notin Inserters /\ "inner" \notin Inserters
<1>1. /\ Inserters \cap Removers = {} /\ Changers \cap Searchers = {}
      /\ KeyOf \in [Changers -> Nat \ {0}]
      /\ \A t, u \in Changers : t # u => KeyOf[t] # KeyOf[u]
    BY LockAssumption
<1> QED BY <1>1, NamesAssumption DEF Changers, Threads, Nodes

(* What a step of t leaves alone: the other threads, and what never        *)
(* changes.                                                                *)
Apart(t) ==
  /\ at' = at /\ target' = target
  /\ \A u \in Threads \ {t} : pc'[u] = pc[u] /\ on'[u] = on[u] /\ i'[u] = i[u] /\ reg'[u] = reg[u]

LEMMA ReturnApart ==
  ASSUME Types, Typed, NEW t \in Threads, Return(t)
  PROVE  /\ \A u \in Threads \ {t} : on'[u] = on[u] /\ i'[u] = i[u] /\ reg'[u] = reg[u]
         /\ on'[t] = at /\ i'[t] = 0 /\ reg'[t] = 0
         /\ i' \in [Threads -> Nat] /\ reg' \in [Threads -> Nat]
         /\ \A u \in Threads : i[u] \in Cells => i'[u] \in Cells
<1>1. GrownCapacity \in Nat /\ 0 \in Cells
    BY LockAssumption DEF Cells
<1> QED BY <1>1 DEF Types, Typed, Return

LEMMA GotoApart ==
  ASSUME Types, NEW t \in Threads, NEW l, Goto(t, l)
  PROVE  pc'[t] = l /\ \A u \in Threads \ {t} : pc'[u] = pc[u]
BY DEF Types, Goto

(* The locals stay in their types.                                         *)
LocalTypes ==
  /\ i \in [Threads -> Nat] /\ reg \in [Threads -> Nat]
  /\ \A t \in Threads : pc[t] = "child" => i[t] \in Cells

LEMMA LocalsStay ==
  ASSUME Types, Typed, NEW t \in Threads, NEW l, l # "child", Goto(t, l),
         at' = at, target' = target, on' = on, i' = i, reg' = reg
  PROVE  Apart(t) /\ LocalTypes'
<1>1. pc'[t] = l /\ \A u \in Threads \ {t} : pc'[u] = pc[u]
    BY GotoApart
<1> QED BY <1>1 DEF Apart, LocalTypes, Typed

LEMMA LocalsReturn ==
  ASSUME Types, Typed, NEW t \in Threads, NEW l, l # "child", Goto(t, l), Return(t),
         at' = at, target' = target
  PROVE  Apart(t) /\ LocalTypes'
<1>1. pc'[t] = l /\ \A u \in Threads \ {t} : pc'[u] = pc[u]
    BY GotoApart
<1> QED BY <1>1, ReturnApart DEF Apart, LocalTypes, Typed

LEMMA StepApart ==
  ASSUME Types, Typed, NEW t \in Threads, SearchStep(t) \/ InsertStep(t) \/ RemoveStep(t)
  PROVE  Apart(t) /\ LocalTypes'
<1>1. /\ i \in [Threads -> Nat] /\ reg \in [Threads -> Nat] /\ on \in [Threads -> Nodes]
      /\ node \in [Nodes -> Rows] /\ \A u \in Threads : pc[u] = "child" => i[u] \in Cells
    BY DEF Types, Typed
<1>2. CASE \/ LockParent(t) \/ Lock(t) \/ LockFull(t) \/ CopyChildren(t) \/ CopyKeys(t)
           \/ CopyCount(t) \/ Publish(t)
    <2>1. PICK l \in {"lock", "position", "copyKeys", "copyCount", "publish", "freeNode"} :
            Goto(t, l)
        BY <1>2 DEF LockParent, Lock, LockFull, CopyChildren, CopyKeys, CopyCount, Publish
    <2>2. at' = at /\ target' = target /\ on' = on /\ i' = i /\ reg' = reg
        BY <1>2 DEF LockParent, Lock, LockFull, CopyChildren, CopyKeys, CopyCount, Publish, locals
    <2>3. l # "child"
        OBVIOUS
    <2> QED BY <2>1, <2>2, <2>3, LocalsStay
<1>3. CASE \/ MoveKeys(t) \/ MoveChildren(t) \/ SetKey(t) \/ SetChild(t) \/ StoreCount(t)
           \/ CheckRoot(t) \/ IsNodeFull(t) \/ ReadVersion(t)
    <2>1. PICK l \in {"children", "setKey", "setChild", "count", "unlock", "free", "scan",
                      "lockParent", "lockFull", "full", "checkRoot", "start"} : Goto(t, l)
        BY <1>3 DEF MoveKeys, MoveChildren, SetKey, SetChild, StoreCount, CheckRoot, IsNodeFull,
                    ReadVersion
    <2>2. at' = at /\ target' = target /\ on' = on /\ i' = i /\ reg' = reg
        BY <1>3 DEF MoveKeys, MoveChildren, SetKey, SetChild, StoreCount, CheckRoot, IsNodeFull,
                    ReadVersion, locals
    <2>3. l # "child"
        OBVIOUS
    <2> QED BY <2>1, <2>2, <2>3, LocalsStay
<1>4. CASE \/ UnlockParent(t) \/ Free(t) \/ Restart(t) \/ ReturnNull(t) \/ CompareKey(t)
    <2>1. PICK l \in {"done", "start", "found", "missed"} : Goto(t, l)
        BY <1>4 DEF UnlockParent, Free, Restart, ReturnNull, CompareKey
    <2>2. at' = at /\ target' = target /\ Return(t)
        BY <1>4 DEF UnlockParent, Free, Restart, ReturnNull, CompareKey
    <2>3. l # "child"
        OBVIOUS
    <2> QED BY <2>1, <2>2, <2>3, LocalsReturn
<1>5. CASE Unlock(t)
    <2>1. at' = at /\ target' = target
        BY <1>5 DEF Unlock
    <2>2. CASE room[t]
        BY <1>5, <2>1, <2>2, LocalsStay DEF Unlock, locals
    <2>3. CASE ~room[t]
        BY <1>5, <2>1, <2>3, LocalsReturn DEF Unlock
    <2> QED BY <2>2, <2>3
<1>6. CASE Stray(t)
    <2>1. at' = at /\ target' = target
        BY <1>6 DEF Stray
    <2>2. CASE UNCHANGED <<pc, locals>>
        BY <1>1, <2>1, <2>2 DEF Apart, LocalTypes, locals
    <2>3. CASE (\E l \in {"start", "found", "missed"} : Goto(t, l)) /\ Return(t)
        BY <2>1, <2>3, LocalsReturn
    <2> QED BY <1>6, <2>2, <2>3 DEF Stray
<1>7. CASE ReadRoot(t) \/ FollowRoot(t) \/ FreeNode(t) \/ StartRemoval(t)
    <2>1. PICK l \in {"follow", "version", "position", "scan"} : Goto(t, l)
        BY <1>7 DEF ReadRoot, FollowRoot, FreeNode, StartRemoval
    <2>2. pc'[t] = l /\ \A u \in Threads \ {t} : pc'[u] = pc[u]
        BY <2>1, GotoApart
    <2>3. /\ \A u \in Threads \ {t} : on'[u] = on[u] /\ i'[u] = i[u]
          /\ reg' = reg /\ at' = at /\ target' = target /\ i' \in [Threads -> Nat]
        BY <1>1, <1>7 DEF ReadRoot, FollowRoot, FreeNode, StartRemoval
    <2>4. l # "child"
        OBVIOUS
    <2> QED BY <1>1, <2>2, <2>3, <2>4 DEF Apart, LocalTypes
<1>8. CASE LoadCount(t)
    <2>1. pc'[t] = "add" /\ \A u \in Threads \ {t} : pc'[u] = pc[u]
        BY <1>8, GotoApart DEF LoadCount
    <2>2. node[on[t]].count \in Nat
        BY <1>1, Fields
    <2>3. on' = on /\ i' = i /\ at' = at /\ target' = target
          /\ reg' = [reg EXCEPT ![t] = node[on[t]].count]
        BY <1>8 DEF LoadCount
    <2> QED BY <1>1, <2>1, <2>2, <2>3 DEF Apart, LocalTypes
<1>9. CASE LoadChild(t)
    <2> DEFINE leaf == node[on[t]].children[i[t]]
    <2>1. PICK l \in {"checkNull", "checkLeaf", "keys", "done"} : Goto(t, l)
        BY <1>9 DEF LoadChild
    <2>2. pc'[t] = l /\ l # "child" /\ \A u \in Threads \ {t} : pc'[u] = pc[u]
        BY <2>1, GotoApart
    <2>3. leaf \in Nat
        <3>1. i[t] \in Cells
            BY <1>1, <1>9 DEF LoadChild
        <3>2. node[on[t]] \in Rows
            BY <1>1
        <3> QED BY <3>1, <3>2, Fields
    <2>4. on' = on /\ i' = i /\ at' = at /\ target' = target
        BY <1>9 DEF LoadChild, shared
    <2>5. reg' = [reg EXCEPT ![t] = leaf] \/ reg' = reg
        BY <1>9 DEF LoadChild
    <2> HIDE DEF leaf
    <2> QED BY <1>1, <2>2, <2>3, <2>4, <2>5 DEF Apart, LocalTypes
<1>10. CASE Position(t)
    <2> DEFINE n == node[on[t]]
               first == FirstOf({j \in 0 .. n.count - 1 : KeyOf[t] < n.keys[j]}, n.count)
    <2>1. PICK l \in {"keys", "position"} : pc'[t] = l /\ \A u \in Threads \ {t} : pc'[u] = pc[u]
        BY <1>10, GotoApart DEF Position
    <2>2. first \in Nat
        <3>1. n.count \in Nat
            BY <1>1, Fields
        <3>2. {j \in 0 .. n.count - 1 : KeyOf[t] < n.keys[j]} \in SUBSET Nat
            BY <3>1
        <3> QED BY <3>1, <3>2, First DEF FirstOf
    <2>3. on' = on /\ reg' = reg /\ at' = at /\ target' = target
        BY <1>10 DEF Position, shared
    <2>4. i' = [i EXCEPT ![t] = first] \/ i' = [i EXCEPT ![t] = @ + 1] \/ i' = i
        BY <1>10 DEF Position
    <2>5. l # "child"
        OBVIOUS
    <2> HIDE DEF first
    <2> QED BY <1>1, <2>1, <2>2, <2>3, <2>4, <2>5 DEF Apart, LocalTypes
<1>11. CASE Scan(t)
    <2> DEFINE n == node[on[t]]
               T == {l \in 0 .. n.count - 1 : n.keys[l] = Wanted(t)}
               j == IF on[t] \in Inserters THEN FirstOf(T, n.count) ELSE i[t]
    <2>1. PICK l \in {"checkNull", "done", "child", "scan"} :
            pc'[t] = l /\ \A u \in Threads \ {t} : pc'[u] = pc[u]
        BY <1>11, GotoApart DEF Scan
    <2>2. n.count \in Nat /\ n.count <= GrownCapacity /\ GrownCapacity \in Nat
        BY <1>1, Fields, CellsAreNat
    <2>3. j \in Nat
        <3>1. T \in SUBSET Nat
            BY <2>2
        <3>2. FirstOf(T, n.count) \in Nat
            BY <2>2, <3>1, First DEF FirstOf
        <3> QED BY <1>1, <3>2
    <2>4. on' = on /\ reg' = reg /\ at' = at /\ target' = target
        BY <1>11 DEF Scan, shared
    <2>5. \/ i' = i /\ pc'[t] # "child"
          \/ i' = [i EXCEPT ![t] = j] /\ ~(j >= n.count)
          \/ i' = [i EXCEPT ![t] = j + 1] /\ pc'[t] = pc[t]
        BY <1>11, <2>1, GotoApart DEF Scan
    <2>6. pc[t] = "scan"
        BY <1>11 DEF Scan
    <2>7. ~(j >= n.count) => j \in Cells
        BY <2>2, <2>3 DEF Cells
    <2> HIDE DEF j
    <2> QED BY <1>1, <2>1, <2>3, <2>4, <2>5, <2>6, <2>7 DEF Apart, LocalTypes
<1> QED
    BY <1>2, <1>3, <1>4, <1>5, <1>6, <1>7, <1>8, <1>9, <1>10, <1>11
       DEF SearchStep, InsertStep, RemoveStep

-------------------------------------------------------------------------------
(* Where a change is at work, no other is, and it is not about to begin,   *)
(* nor has it ended.                                                       *)
LEMMA AtWork ==
  ASSUME Sound, NEW t \in Changers, Working(t)
  PROVE  /\ \A u \in Changers : u # t => ~Working(u)
         /\ pc[t] \notin Early /\ pc[t] \notin {"unlockParent", "done", "free"}
         /\ KeyOf[t] \notin stored
         /\ t \in Inserters => InsertOK(t)
         /\ t \in Removers => RemoveOK(t)
<1>1. \A u \in Changers : u # t => ~Working(u)
    BY DEF Sound, Alone
<1>2. pc[t] \notin Early /\ pc[t] \notin {"unlockParent", "done", "free"}
    BY DEF Working, Early
<1>3. KeyOf[t] \notin stored
    BY <1>2, Sorts DEF Sound, Membership
<1> QED BY <1>1, <1>2, <1>3 DEF Sound, Content

(* The node that a change is at work on is the one the pointer leads to,   *)
(* unless it has just put another in its place.                            *)
LEMMA WorkPlace ==
  ASSUME Types, Sound, NEW t \in Changers, Working(t)
  PROVE  /\ on[t] = IF pc[t] = "freeNode" THEN at ELSE ref
         /\ pc[t] # "freeNode" => \/ ref = at /\ gone = {}
                                  \/ ref \in Inserters /\ gone = {at}
         /\ pc[t] = "freeNode" /\ t \in Inserters => ref = t
         /\ on[t] \in Nodes /\ node[on[t]] \in Rows
<1>1. on[t] = IF pc[t] = "freeNode" THEN at ELSE ref
    BY DEF Sound, Alone
<1>2. ASSUME pc[t] # "freeNode"
      PROVE  \/ ref = at /\ gone = {}
             \/ ref \in Inserters /\ gone = {at}
    <2>1. ASSUME ref \in Inserters, pc[ref] = "freeNode" PROVE FALSE
        <3>1. Working(ref) /\ ref \in Changers
            BY <2>1, Sorts DEF Working
        <3> QED BY <1>2, <2>1, <3>1, AtWork
    <2> QED BY <2>1 DEF Sound, Alone
<1>3. on[t] \in Nodes /\ node[on[t]] \in Rows
    BY Sorts DEF Types, Sound, Typed
<1> QED BY <1>1, <1>2, <1>3 DEF Sound, Alone

(* A step of a change at work, other than one that puts a node in place of *)
(* another, disturbs nothing but perhaps the cells.                        *)
LabelOf(t) ==
  /\ t \in Inserters => pc[t] \in InsertLabels
  /\ t \in Removers => pc[t] \in RemoveLabels
  /\ t \in Searchers => pc[t] \in SearchLabels

WorkStep(t) ==
  /\ Working(t) /\ Working(t)' /\ Apart(t) /\ LocalTypes' /\ LabelOf(t)'
  /\ pc[t] # "freeNode" /\ pc'[t] # "freeNode"
  /\ pc'[t] \in {"copyKeys", "copyCount", "publish"} => ref = at
  /\ ref' = ref /\ gone' = gone /\ stored' = stored /\ freed' = freed
  /\ due' = due /\ events' = events /\ on'[t] = on[t]
  /\ node' \in [Nodes -> Rows]
  /\ \A m \in Nodes : m # t /\ t \in Inserters => node'[m].count >= node[m].count

LEMMA SameWorkers ==
  ASSUME NEW t \in Threads, Apart(t), NEW u \in Changers, u # t
  PROVE  (Working(u)' <=> Working(u)) /\ pc'[u] = pc[u] /\ on'[u] = on[u] /\ i'[u] = i[u]
<1>1. u \in Threads
    BY Sorts
<1> QED BY <1>1 DEF Apart, Working

LEMMA WorkTyped ==
  ASSUME Sound, NEW t \in Changers, WorkStep(t)
  PROVE  Typed'
<1>1. \A u \in Threads : u # t => pc'[u] = pc[u]
    BY DEF WorkStep, Apart
<1>2. \A u \in Threads : LabelOf(u)'
    <2>1. \A u \in Threads : LabelOf(u)
        BY DEF Sound, Typed, LabelOf
    <2> QED BY <1>1, <2>1 DEF WorkStep, LabelOf
<1>3. target' = target
    BY DEF WorkStep, Apart
<1> QED BY <1>2, <1>3, Sorts DEF Sound, Typed, WorkStep, LocalTypes, LabelOf

LEMMA WorkAlone ==
  ASSUME Types, Sound, NEW t \in Changers, WorkStep(t)
  PROVE  Alone'
<1>1. \A u \in Changers : u # t => ~Working(u) /\ ~Working(u)'
    BY AtWork, SameWorkers, Sorts DEF WorkStep
<1>2. /\ on[t] = ref /\ on'[t] = ref /\ at' = at /\ ref' = ref /\ gone' = gone
      /\ \/ ref = at /\ gone = {}
         \/ ref \in Inserters /\ gone = {at}
    BY WorkPlace DEF WorkStep, Apart
<1>3. \A u \in Threads : on'[u] \in {at, ref}
    BY <1>2 DEF WorkStep, Apart, Sound, Alone
<1>4. \A u \in Inserters : pc'[u] # "freeNode"
    <2>1. \A u \in Inserters : u # t => ~Working(u)'
        BY <1>1, Sorts
    <2>2. \A u \in Inserters : ~Working(u)' => pc'[u] # "freeNode"
        BY Sorts DEF Working
    <2> QED BY <2>1, <2>2 DEF WorkStep
<1>5. \A u \in Inserters : pc'[u] \in {"copyKeys", "copyCount", "publish"} => ref = at
    <2>1. \A u \in Inserters : u # t => ~Working(u)'
        BY <1>1, Sorts
    <2>2. \A u \in Inserters : ~Working(u)' => pc'[u] \notin {"copyKeys", "copyCount", "publish"}
        BY Sorts DEF Working
    <2> QED BY <2>1, <2>2 DEF WorkStep
<1>6. at \in {"root", "inner"}
    BY DEF Sound, Alone
<1>7. \A u \in Changers : Working(u)' => u = t
    BY <1>1
<1>8. pc'[t] # "freeNode"
    BY DEF WorkStep
<1> QED BY <1>2, <1>3, <1>4, <1>5, <1>6, <1>7, <1>8 DEF Alone

LEMMA WorkMembership ==
  ASSUME Sound, NEW t \in Changers, WorkStep(t)
  PROVE  Membership'
<1>1. \A u \in Changers : u # t => pc'[u] = pc[u] /\ (Working(u)' <=> Working(u)) /\ i'[u] = i[u]
    BY SameWorkers, Sorts DEF WorkStep
<1>2. stored' = stored
    BY DEF WorkStep
<1>3. KeyOf[t] \notin stored /\ pc[t] # "done"
    BY AtWork DEF WorkStep
<1>4. pc'[t] \notin Early
    BY DEF WorkStep, Working, Early
<1>5. \A u \in Inserters : pc'[u] \in {"unlockParent", "done"} \/ KeyOf[u] \notin stored'
    BY <1>1, <1>2, <1>3, Sorts DEF Sound, Membership
<1>6. \A u \in Removers : /\ pc'[u] = "start" => KeyOf[u] \in stored'
                          /\ Working(u)' \/ pc'[u] = "free" => KeyOf[u] \notin stored'
    BY <1>1, <1>2, <1>3, <1>4, Sorts DEF Sound, Membership, Early
<1>7. \A u \in Changers : pc'[u] \in Early => i'[u] = 0
    BY <1>1, <1>4 DEF Sound, Membership
<1>8. \E team \in Teams : /\ \A u \in Changers \ team.threads : pc'[u] = "done"
                          /\ stored' \subseteq team.load \cup Added(team)
    <2>1. PICK team \in Teams : /\ \A u \in Changers \ team.threads : pc[u] = "done"
                                /\ stored \subseteq team.load \cup Added(team)
        BY DEF Sound, Membership
    <2>2. \A u \in Changers \ team.threads : pc'[u] = "done"
        BY <1>1, <1>3, <2>1
    <2> QED BY <1>2, <2>1, <2>2
<1> QED BY <1>2, <1>5, <1>6, <1>7, <1>8 DEF Sound, Membership

(* What a step of another thread leaves of a search.                       *)
LEMMA SameSearch ==
  ASSUME NEW t \in Threads, Apart(t), NEW s \in Searchers, s # t
  PROVE  /\ pc'[s] = pc[s] /\ on'[s] = on[s] /\ i'[s] = i[s] /\ reg'[s] = reg[s]
         /\ (Active(s)' <=> Active(s)) /\ (Reading(s)' <=> Reading(s)) /\ target'[s] = target[s]
<1>1. s \in Threads
    BY Sorts
<1> QED BY <1>1 DEF Apart, Active, Reading

LEMMA WorkFreed ==
  ASSUME Types, Sound, NEW t \in Changers, WorkStep(t)
  PROVE  Freed'
<1>1. freed' = freed /\ stored' = stored /\ events' = events /\ gone' = gone
    BY DEF WorkStep
<1>2. \A u \in Changers : (Working(u)' <=> Working(u)) /\ (pc'[u] = "free" <=> pc[u] = "free")
    <2>1. pc'[t] # "free" /\ pc[t] # "free" /\ Working(t) /\ Working(t)'
        BY DEF WorkStep, Working
    <2> QED BY <2>1, SameWorkers, Sorts DEF WorkStep
<1>3. Lost' = Lost
    BY <1>1, <1>2, Sorts DEF Lost
<1>4. ASSUME NEW s \in Searchers PROVE Untouched(s)'
    <2>1. /\ pc'[s] = pc[s] /\ on'[s] = on[s] /\ i'[s] = i[s] /\ reg'[s] = reg[s]
          /\ (Active(s)' <=> Active(s))
        BY SameSearch, Sorts DEF WorkStep
    <2>2. Active(s)' /\ (\E u \in Removers : Working(u)') => "removal" \in events'[s]
        BY <1>1, <1>2, <2>1, Sorts DEF Sound, Freed, Untouched
    <2>3. ASSUME gone' = {}, "removal" \notin events'[s], pc'[s] = "child"
          PROVE  i'[s] < node'[on'[s]].count
        <3>1. i[s] < node[on[s]].count
            BY <1>1, <2>1, <2>3 DEF Sound, Freed, Untouched
        <3>2. t \in Inserters
            <4>1. Active(s)
                BY <2>1, <2>3 DEF Active, Reading
            <4>2. ~(t \in Removers /\ Working(t))
                BY <1>1, <2>3, <4>1 DEF Sound, Freed, Untouched
            <4> QED BY <4>2, Sorts DEF WorkStep
        <3>3. on[s] # t /\ on[s] \in Nodes
            <4>1. ref = at /\ at \in {"root", "inner"}
                BY <1>1, <2>3, WorkPlace DEF WorkStep, Sound, Alone
            <4>2. on[s] = at
                BY <4>1, Sorts DEF Sound, Alone
            <4> QED BY <3>2, <4>1, <4>2, Sorts
        <3>4. node'[on[s]].count >= node[on[s]].count
            BY <3>2, <3>3 DEF WorkStep
        <3>5. node'[on[s]].count \in Nat /\ node[on[s]].count \in Nat /\ i[s] \in Nat
            BY <3>3, Fields, Sorts DEF WorkStep, Sound, Typed
        <3> QED BY <2>1, <3>1, <3>4, <3>5
    <2>4. gone' = {} /\ "removal" \notin events'[s] /\ pc'[s] = "checkLeaf" => reg'[s] \notin Lost'
        BY <1>1, <1>3, <2>1 DEF Sound, Freed, Untouched
    <2> QED BY <2>2, <2>3, <2>4 DEF Untouched
<1> QED BY <1>1, <1>4 DEF Sound, Freed

LEMMA WorkFound ==
  ASSUME Sound, NEW t \in Changers, WorkStep(t)
  PROVE  Found'
<1> SUFFICES ASSUME NEW s \in Searchers, Active(s)' PROVE FoundBy(s)'
    BY DEF Found, FoundBy
<1>1. /\ pc'[s] = pc[s] /\ i'[s] = i[s] /\ Active(s) /\ target'[s] = target[s]
    BY SameSearch, Sorts DEF WorkStep
<1>2. events' = events /\ due' = due /\ stored' = stored /\ Working(t) /\ Working(t)'
    BY DEF WorkStep
<1>3. /\ pc'[s] \in {"version", "checkRoot"} => i'[s] = 0
      /\ s \in due' /\ "removal" \notin events'[s] => target'[s] \in stored'
    BY <1>1, <1>2 DEF Sound, Found, FoundBy
<1>4. ~(events'[s] = {} /\ \A u \in Inserters : ~Working(u)')
    <2>1. t \in Removers => "removal" \in events[s]
        BY <1>1, <1>2 DEF Sound, Freed, Untouched
    <2> QED BY <1>2, <2>1, Sorts
<1> QED BY <1>3, <1>4 DEF FoundBy

LEMMA WorkContent ==
  ASSUME Sound, NEW t \in Changers, WorkStep(t),
         t \in Inserters => InsertOK(t)', t \in Removers => RemoveOK(t)'
  PROVE  Content'
<1>1. \A u \in Changers : u # t => ~Working(u)'
    BY AtWork, SameWorkers, Sorts DEF WorkStep
<1>2. Working(t)'
    BY DEF WorkStep
<1> QED BY <1>1, <1>2, Sorts DEF Content

LEMMA WorkSound ==
  ASSUME Types, Sound, NEW t \in Changers, WorkStep(t),
         t \in Inserters => InsertOK(t)', t \in Removers => RemoveOK(t)'
  PROVE  Sound'
BY WorkTyped, WorkAlone, WorkMembership, WorkContent, WorkFreed, WorkFound DEF Sound

-------------------------------------------------------------------------------
(* The steps of an insert at work, one by one.                             *)
Between(t) ==
  /\ Working(t) /\ Apart(t) /\ LocalTypes'
  /\ ref' = ref /\ gone' = gone /\ stored' = stored /\ freed' = freed
  /\ due' = due /\ events' = events

(* The node a step of t changes, and what it becomes.                      *)
Becomes(q, m) == node' = [node EXCEPT ![q] = m]

LEMMA BecomesRows ==
  ASSUME node \in [Nodes -> Rows], NEW q \in Nodes, NEW m \in Rows, Becomes(q, m)
  PROVE  /\ node' \in [Nodes -> Rows] /\ node'[q] = m
         /\ \A u \in Nodes : u # q => node'[u] = node[u]
BY DEF Becomes

LEMMA CellStep ==
  ASSUME Types, Sound, NEW t \in Changers, Between(t), pc[t] # "freeNode",
         NEW l \in {"position", "copyKeys", "copyCount", "publish", "keys", "children", "setKey",
                    "setChild", "count", "add", "unlock", "scan", "child"},
         Goto(t, l), on' = on,
         t \in Inserters => l \notin {"scan", "child"},
         t \in Removers => l \in RemoveLabels,
         l \in {"copyKeys", "copyCount", "publish"} => ref = at,
         NEW q \in Nodes, NEW m \in Rows, Becomes(q, m),
         \/ m.count = node[q].count
         \/ m.count = node[q].count + 1
         \/ q = t
  PROVE  /\ WorkStep(t) /\ pc'[t] = l /\ node'[q] = m
         /\ \A u \in Nodes : u # q => node'[u] = node[u]
<1>1. t \in Threads /\ pc'[t] = l
    BY Sorts, GotoApart
<1>2. node \in [Nodes -> Rows] /\ \A u \in Nodes : node[u].count \in Nat
    BY Fields DEF Sound, Typed
<1>3. /\ node' \in [Nodes -> Rows] /\ node'[q] = m
      /\ \A u \in Nodes : u # q => node'[u] = node[u]
    BY <1>2, BecomesRows
<1>4. \A u \in Nodes : u # t => node'[u].count >= node[u].count
    <2>1. q # t => m.count >= node[q].count
        BY <1>2
    <2>2. \A u \in Nodes : u # q => node'[u].count >= node[u].count
        BY <1>2, <1>3
    <2> QED BY <1>3, <2>1, <2>2
<1>5. Working(t)' /\ LabelOf(t)' /\ pc'[t] # "freeNode"
    BY <1>1, Sorts DEF Working, LabelOf, InsertLabels
<1> QED BY <1>1, <1>3, <1>4, <1>5 DEF WorkStep, Between

LEMMA PositionSound ==
  ASSUME Types, Sound, NEW t \in Inserters, Position(t), Between(t)
  PROVE  Sound'
<1> DEFINE n == node[on[t]]  k == KeyOf[t]  p == i[t]
<1>1. t \in Changers /\ t \in Threads /\ pc[t] = "position" /\ InsertOK(t) /\ k \notin stored
    BY Sorts, AtWork DEF Position, Between
<1>2. n \in Rows /\ stored \in SUBSET Nat /\ k \in Nat /\ p \in Nat /\ Placing(n, stored, k, p)
    BY <1>1, WorkPlace, Sorts DEF InsertOK, Between, Sound, Membership, Typed
<1>3. node' = node /\ on' = on
    BY DEF Position, shared
<1>4. \/ pc'[t] = "position" /\ Placing(n, stored, k, i'[t])
      \/ pc'[t] = "keys" /\ Placed(n, stored, k, i'[t])
    <2>1. CASE on[t] \in Inserters
        <3>1. i'[t] = FirstOf({j \in 0 .. n.count - 1 : k < n.keys[j]}, n.count) /\ pc'[t] = "keys"
            BY <1>1, <2>1, GotoApart DEF Position, Sound, Typed
        <3>2. Complete(n, stored)
            BY <1>2 DEF Placing
        <3> QED BY <1>1, <1>2, <3>1, <3>2, PlaceAtOnce
    <2>2. CASE on[t] \notin Inserters /\ p < n.count /\ k >= n.keys[p]
        <3>1. i'[t] = p + 1 /\ pc'[t] = "position"
            BY <1>1, <2>2 DEF Position, Sound, Typed
        <3> QED BY <1>1, <1>2, <2>2, <3>1, PlaceNext
    <2>3. CASE on[t] \notin Inserters /\ ~(p < n.count /\ k >= n.keys[p])
        <3>1. i'[t] = p /\ pc'[t] = "keys"
            BY <1>1, <2>3, GotoApart DEF Position, Sound, Typed
        <3> QED BY <1>1, <1>2, <2>3, <3>1, PlaceNext
    <2> QED BY <2>1, <2>2, <2>3
<1>5. InsertOK(t)'
    BY <1>1, <1>3, <1>4 DEF InsertOK, Between
<1>6. WorkStep(t)
    <2>1. Working(t)' /\ LabelOf(t)' /\ pc'[t] \notin {"freeNode", "copyKeys", "copyCount", "publish"}
        BY <1>1, <1>4, Sorts DEF Working, LabelOf, InsertLabels
    <2>2. node' \in [Nodes -> Rows] /\ \A m \in Nodes : node'[m].count >= node[m].count
        <3>1. node \in [Nodes -> Rows]
            BY DEF Sound, Typed
        <3>2. \A m \in Nodes : node[m].count \in Nat
            BY <3>1, Fields
        <3> QED BY <1>3, <3>1, <3>2
    <2> QED BY <1>1, <1>3, <2>1, <2>2 DEF WorkStep, Between
<1> QED BY <1>1, <1>5, <1>6, WorkSound, Sorts

LEMMA CopyChildrenSound ==
  ASSUME Types, Sound, NEW t \in Inserters, CopyChildren(t), Between(t)
  PROVE  Sound'
<1> DEFINE n == node[on[t]]  m == [node[t] EXCEPT !.children = Copied(on[t], n.children)]
<1>1. /\ t \in Changers /\ t \in Nodes /\ pc[t] = "position" /\ InsertOK(t)
      /\ on[t] = ref /\ ref = at /\ on[t] # t /\ on[t] \in Nodes /\ n \in Rows /\ i[t] = 0
    BY Sorts, AtWork, WorkPlace DEF CopyChildren, Between
<1>2. node[t] \in Rows
    BY <1>1 DEF Sound, Typed
<1>3. Copied(on[t], n.children) \in [Cells -> Nat]
    BY <1>1, Fields DEF Copied
<1>4. m \in Rows /\ m.children = Copied(on[t], n.children)
    BY <1>2, <1>3 DEF Rows
<1>5. Becomes(t, m)
    BY DEF CopyChildren, Becomes
<1>6. Goto(t, "copyKeys") /\ on' = on /\ i' = i /\ stored' = stored
    BY DEF CopyChildren, locals, history
<1> HIDE DEF m
<1>7. /\ WorkStep(t) /\ pc'[t] = "copyKeys" /\ node'[t] = m
      /\ \A u \in Nodes : u # t => node'[u] = node[u]
    BY <1>1, <1>4, <1>5, <1>6, CellStep, Sorts
<1>8. \A j \in Upto(n.count) : m.children[j] = n.children[j]
    BY <1>1, <1>4, Fields DEF Copied
<1>9. Complete(n, stored) /\ n.count < GrownCapacity
      /\ \A j \in Upto(n.count) : n.children[j] \in stored \cup {KeyOf[t]}
    BY <1>1 DEF InsertOK, Placing
<1>10. InsertOK(t)'
    BY <1>1, <1>6, <1>7, <1>8, <1>9 DEF InsertOK
<1> QED BY <1>1, <1>7, <1>10, WorkSound, Sorts

LEMMA CopyKeysSound ==
  ASSUME Types, Sound, NEW t \in Inserters, CopyKeys(t), Between(t)
  PROVE  Sound'
<1> DEFINE n == node[on[t]]  m == [node[t] EXCEPT !.keys = Copied(on[t], n.keys)]
<1>1. /\ t \in Changers /\ t \in Nodes /\ pc[t] = "copyKeys" /\ InsertOK(t)
      /\ on[t] = ref /\ ref = at /\ on[t] # t /\ on[t] \in Nodes /\ n \in Rows
    BY Sorts, AtWork, WorkPlace DEF CopyKeys, Between, Sound, Alone
<1>2. node[t] \in Rows
    BY <1>1 DEF Sound, Typed
<1>3. Copied(on[t], n.keys) \in [Cells -> Nat]
    BY <1>1, Fields DEF Copied
<1>4. m \in Rows /\ m.keys = Copied(on[t], n.keys) /\ m.children = node[t].children
    BY <1>2, <1>3 DEF Rows
<1>5. Becomes(t, m)
    BY DEF CopyKeys, Becomes
<1>6. Goto(t, "copyCount") /\ on' = on /\ i' = i /\ stored' = stored
    BY DEF CopyKeys, locals, history
<1> HIDE DEF m
<1>7. /\ WorkStep(t) /\ pc'[t] = "copyCount" /\ node'[t] = m
      /\ \A u \in Nodes : u # t => node'[u] = node[u]
    BY <1>1, <1>4, <1>5, <1>6, CellStep, Sorts
<1>8. \A j \in Upto(n.count) : m.keys[j] = n.keys[j]
    BY <1>1, <1>4, Fields DEF Copied
<1>9. /\ Complete(n, stored) /\ i[t] = 0 /\ n.count < GrownCapacity
      /\ \A j \in Upto(n.count) : m.children[j] = n.children[j]
      /\ \A j \in Upto(n.count) : n.children[j] \in stored \cup {KeyOf[t]}
    BY <1>1, <1>4 DEF InsertOK
<1>10. InsertOK(t)'
    BY <1>1, <1>6, <1>7, <1>8, <1>9 DEF InsertOK
<1> QED BY <1>1, <1>7, <1>10, WorkSound, Sorts

LEMMA CopyCountSound ==
  ASSUME Types, Sound, NEW t \in Inserters, CopyCount(t), Between(t)
  PROVE  Sound'
<1> DEFINE n == node[on[t]]  m == [node[t] EXCEPT !.count = n.count]
<1>1. /\ t \in Changers /\ t \in Nodes /\ pc[t] = "copyCount" /\ InsertOK(t)
      /\ on[t] = ref /\ ref = at /\ on[t] # t /\ on[t] \in Nodes /\ n \in Rows
    BY Sorts, AtWork, WorkPlace DEF CopyCount, Between, Sound, Alone
<1>2. node[t] \in Rows
    BY <1>1 DEF Sound, Typed
<1>3. /\ m \in Rows /\ m.count = n.count /\ m.keys = node[t].keys
      /\ m.children = node[t].children
    BY <1>1, <1>2 DEF Rows
<1>4. Becomes(t, m)
    BY DEF CopyCount, Becomes
<1>5. Goto(t, "publish") /\ on' = on /\ i' = i /\ stored' = stored
    BY DEF CopyCount, locals, history
<1> HIDE DEF m
<1>6. /\ WorkStep(t) /\ pc'[t] = "publish" /\ node'[t] = m
      /\ \A u \in Nodes : u # t => node'[u] = node[u]
    BY <1>1, <1>3, <1>4, <1>5, CellStep, Sorts
<1>7. InsertOK(t)'
    BY <1>1, <1>3, <1>5, <1>6 DEF InsertOK
<1> QED BY <1>1, <1>6, <1>7, WorkSound, Sorts

(* What every step on the cells of the node itself starts from.            *)
LEMMA OnNode ==
  ASSUME Types, Sound, NEW t \in Changers, Between(t), pc[t] # "freeNode"
  PROVE  /\ t \in Threads /\ on[t] \in Nodes /\ node[on[t]] \in Rows /\ node \in [Nodes -> Rows]
         /\ stored \in SUBSET Nat /\ KeyOf[t] \in Nat /\ KeyOf[t] \notin stored /\ i[t] \in Nat
         /\ stored' = stored
         /\ t \in Inserters => InsertOK(t)
         /\ t \in Removers => RemoveOK(t)
BY Sorts, AtWork, WorkPlace DEF Between, Sound, Typed, Membership

LEMMA InsertMovesKeys ==
  ASSUME Types, Sound, NEW t \in Inserters, MoveKeys(t), Between(t)
  PROVE  Sound'
<1> DEFINE n == node[on[t]]  m == [n EXCEPT !.keys = Up(n.keys, i[t], n.count)]
<1>1. /\ t \in Changers /\ pc[t] = "keys" /\ on[t] \in Nodes /\ n \in Rows /\ InsertOK(t)
      /\ stored \in SUBSET Nat /\ KeyOf[t] \in Nat /\ i[t] \in Nat /\ stored' = stored
    BY Sorts, OnNode DEF MoveKeys
<1>2. /\ Placed(n, stored, KeyOf[t], i[t]) /\ n.count < GrownCapacity
      /\ \A j \in Upto(n.count) : n.children[j] \in stored \cup {KeyOf[t]}
    BY <1>1 DEF InsertOK
<1>3. m \in Rows /\ KeysOpened(m, stored, KeyOf[t], i[t])
    BY <1>1, <1>2, OpenKeys
<1>4. m.children = n.children /\ m.count = n.count
    BY <1>1 DEF Rows
<1>5. Becomes(on[t], m)
    BY DEF MoveKeys, Becomes, Moved, Up, Last, Insert
<1>6. Goto(t, "children") /\ on' = on /\ i' = i
    BY DEF MoveKeys, locals
<1> HIDE DEF m
<1>7. WorkStep(t) /\ pc'[t] = "children" /\ node'[on[t]] = m
    BY <1>1, <1>3, <1>4, <1>5, <1>6, CellStep, Sorts
<1>8. InsertOK(t)'
    BY <1>1, <1>2, <1>3, <1>4, <1>6, <1>7 DEF InsertOK
<1> QED BY <1>1, <1>7, <1>8, WorkSound, Sorts

LEMMA InsertMovesChildren ==
  ASSUME Types, Sound, NEW t \in Inserters, MoveChildren(t), Between(t)
  PROVE  Sound'
<1> DEFINE n == node[on[t]]  m == [n EXCEPT !.children = Up(n.children, i[t], n.count)]
<1>1. /\ t \in Changers /\ pc[t] = "children" /\ on[t] \in Nodes /\ n \in Rows /\ InsertOK(t)
      /\ stored \in SUBSET Nat /\ KeyOf[t] \in Nat /\ i[t] \in Nat /\ stored' = stored
    BY Sorts, OnNode DEF MoveChildren
<1>2. KeysOpened(n, stored, KeyOf[t], i[t]) /\ n.count < GrownCapacity
    BY <1>1 DEF InsertOK
<1>3. /\ m \in Rows /\ Opened(m, stored, KeyOf[t], i[t])
      /\ \A j \in Upto(n.count) : m.children[j] \in stored
    BY <1>1, <1>2, OpenChildren
<1>4. m.keys = n.keys /\ m.count = n.count
    BY <1>1 DEF Rows
<1>5. Becomes(on[t], m)
    BY DEF MoveChildren, Becomes, Moved, Up, Last, Insert
<1>6. Goto(t, "setKey") /\ on' = on /\ i' = i
    BY DEF MoveChildren, locals, Insert
<1> HIDE DEF m
<1>7. WorkStep(t) /\ pc'[t] = "setKey" /\ node'[on[t]] = m
    BY <1>1, <1>3, <1>4, <1>5, <1>6, CellStep, Sorts
<1>8. InsertOK(t)'
    BY <1>1, <1>2, <1>3, <1>4, <1>6, <1>7 DEF InsertOK
<1> QED BY <1>1, <1>7, <1>8, WorkSound, Sorts

LEMMA SetKeySound ==
  ASSUME Types, Sound, NEW t \in Inserters, SetKey(t), Between(t)
  PROVE  Sound'
<1> DEFINE n == node[on[t]]  m == [n EXCEPT !.keys[i[t]] = KeyOf[t]]
<1>1. /\ t \in Changers /\ pc[t] = "setKey" /\ on[t] \in Nodes /\ n \in Rows /\ InsertOK(t)
      /\ stored \in SUBSET Nat /\ KeyOf[t] \in Nat /\ i[t] \in Nat /\ stored' = stored
    BY Sorts, OnNode DEF SetKey
<1>2. /\ Opened(n, stored, KeyOf[t], i[t]) /\ n.count < GrownCapacity
      /\ \A j \in Upto(n.count) : n.children[j] \in stored \cup {KeyOf[t]}
    BY <1>1 DEF InsertOK
<1>3. m \in Rows /\ KeySet(m, stored, KeyOf[t], i[t])
    BY <1>1, <1>2, SetTheKey
<1>4. m.children = n.children /\ m.count = n.count
    BY <1>1 DEF Rows
<1>5. Becomes(on[t], m)
    BY DEF SetKey, Becomes
<1>6. Goto(t, "setChild") /\ on' = on /\ i' = i
    BY DEF SetKey, locals
<1> HIDE DEF m
<1>7. WorkStep(t) /\ pc'[t] = "setChild" /\ node'[on[t]] = m
    BY <1>1, <1>3, <1>4, <1>5, <1>6, CellStep, Sorts
<1>8. InsertOK(t)'
    BY <1>1, <1>2, <1>3, <1>4, <1>6, <1>7 DEF InsertOK
<1> QED BY <1>1, <1>7, <1>8, WorkSound, Sorts

LEMMA SetChildSound ==
  ASSUME Types, Sound, NEW t \in Inserters, SetChild(t), Between(t)
  PROVE  Sound'
<1> DEFINE n == node[on[t]]  m == [n EXCEPT !.children[i[t]] = KeyOf[t]]
<1>1. /\ t \in Changers /\ pc[t] = "setChild" /\ on[t] \in Nodes /\ n \in Rows /\ InsertOK(t)
      /\ stored \in SUBSET Nat /\ KeyOf[t] \in Nat /\ i[t] \in Nat /\ stored' = stored
    BY Sorts, OnNode DEF SetChild
<1>2. KeySet(n, stored, KeyOf[t], i[t]) /\ n.count < GrownCapacity
    BY <1>1 DEF InsertOK
<1>3. /\ m \in Rows /\ Added1(m, stored, KeyOf[t])
      /\ \A j \in Upto(n.count) : m.children[j] \in stored \cup {KeyOf[t]}
    BY <1>1, <1>2, SetTheChild
<1>4. m.count = n.count
    BY <1>1 DEF Rows
<1>5. Becomes(on[t], m)
    BY DEF SetChild, Becomes
<1>6. Goto(t, "count") /\ on' = on /\ i' = i
    BY DEF SetChild, locals
<1> HIDE DEF m
<1>7. WorkStep(t) /\ pc'[t] = "count" /\ node'[on[t]] = m
    BY <1>1, <1>3, <1>4, <1>5, <1>6, CellStep, Sorts
<1>8. InsertOK(t)'
    BY <1>1, <1>2, <1>3, <1>4, <1>6, <1>7 DEF InsertOK
<1> QED BY <1>1, <1>7, <1>8, WorkSound, Sorts

LEMMA LoadCountSound ==
  ASSUME Types, Sound, NEW t \in Changers, LoadCount(t), Between(t)
  PROVE  Sound'
<1> DEFINE n == node[on[t]]
<1>1. /\ t \in Threads /\ pc[t] = "count" /\ on[t] \in Nodes /\ n \in Rows
      /\ node \in [Nodes -> Rows] /\ stored' = stored
      /\ t \in Inserters => InsertOK(t)
      /\ t \in Removers => RemoveOK(t)
    BY OnNode DEF LoadCount
<1>2. node' = node /\ on' = on /\ i' = i /\ Goto(t, "add") /\ reg' = [reg EXCEPT ![t] = n.count]
    BY DEF LoadCount, shared
<1>3. reg'[t] = n.count
    BY <1>1, <1>2 DEF Sound, Typed
<1>4. Becomes(on[t], n)
    BY <1>1, <1>2 DEF Becomes
<1>5. "add" \in RemoveLabels
    BY DEF RemoveLabels
<1>6. WorkStep(t) /\ pc'[t] = "add"
    BY <1>1, <1>2, <1>4, <1>5, CellStep
<1>7. t \in Inserters => InsertOK(t)'
    BY <1>1, <1>2, <1>3, <1>6 DEF InsertOK
<1>8. t \in Removers => RemoveOK(t)'
    BY <1>1, <1>2, <1>3, <1>6 DEF RemoveOK
<1> QED BY <1>6, <1>7, <1>8, WorkSound

LEMMA InsertStoresCount ==
  ASSUME Types, Sound, NEW t \in Inserters, StoreCount(t), Between(t)
  PROVE  Sound'
<1> DEFINE n == node[on[t]]  m == [n EXCEPT !.count = n.count + 1]
<1>1. /\ t \in Changers /\ pc[t] = "add" /\ on[t] \in Nodes /\ n \in Rows /\ InsertOK(t)
      /\ stored \in SUBSET Nat /\ KeyOf[t] \in Nat /\ i[t] \in Nat /\ stored' = stored
    BY Sorts, OnNode DEF StoreCount
<1>2. Added1(n, stored, KeyOf[t]) /\ n.count < GrownCapacity /\ reg[t] = n.count
    BY <1>1 DEF InsertOK
<1>3. m \in Rows /\ Complete(m, stored \cup {KeyOf[t]})
    BY <1>1, <1>2, StoreAdded
<1>4. m.count = n.count + 1
    BY <1>1 DEF Rows
<1>5. Becomes(on[t], m)
    BY <1>2 DEF StoreCount, Becomes, Insert
<1>6. Goto(t, "unlock") /\ on' = on /\ i' = i
    BY DEF StoreCount, locals, Insert
<1> HIDE DEF m
<1>7. WorkStep(t) /\ pc'[t] = "unlock" /\ node'[on[t]] = m
    BY <1>1, <1>3, <1>4, <1>5, <1>6, CellStep, Sorts
<1>8. \A j \in Upto(m.count) : m.children[j] \in stored \cup {KeyOf[t]}
    BY <1>3, CompleteShows
<1>9. InsertOK(t)'
    BY <1>1, <1>3, <1>6, <1>7, <1>8 DEF InsertOK
<1> QED BY <1>1, <1>7, <1>9, WorkSound, Sorts

-------------------------------------------------------------------------------
(* The steps of a removal at work: it finds its key, and the leaf beside   *)
(* it is that of its key.                                                  *)
LEMMA RemovalScans ==
  ASSUME Types, Sound, NEW t \in Removers, Scan(t), Between(t)
  PROVE  Sound'
<1> DEFINE n == node[on[t]]  k == KeyOf[t]
           first == FirstOf({l \in 0 .. n.count - 1 : n.keys[l] = k}, n.count)
           j == IF on[t] \in Inserters THEN first ELSE i[t]
<1>1. /\ t \in Changers /\ t \in Threads /\ pc[t] = "scan" /\ on[t] \in Nodes /\ n \in Rows
      /\ stored \in SUBSET Nat /\ k \in Nat /\ i[t] \in Nat /\ stored' = stored /\ RemoveOK(t)
    BY Sorts, OnNode DEF Scan
<1>2. Seeking(n, stored, k, i[t])
    BY <1>1 DEF RemoveOK
<1>3. /\ j \in Nat /\ j < n.count
      /\ n.keys[j] = k => AtKey(n, stored, k, j)
      /\ n.keys[j] # k => j = i[t] /\ Seeking(n, stored, k, j + 1)
    <2>1. CASE on[t] \in Inserters
        <3>1. Complete(n, stored \cup {k})
            BY <1>2 DEF Seeking
        <3>2. j < n.count /\ j \in Nat /\ AtKey(n, stored, k, j)
            BY <1>1, <2>1, <3>1, SeekAtOnce
        <3>3. n.keys[j] = k
            BY <3>2 DEF AtKey
        <3> QED BY <3>2, <3>3
    <2>2. CASE on[t] \notin Inserters
        BY <1>1, <1>2, <2>2, SeekNext
    <2> QED BY <2>1, <2>2
<1>4. node' = node /\ on' = on
    BY DEF Scan, shared
<1>5. Wanted(t) = k
    BY Sorts DEF Wanted, Search
<1>6. ~(j >= n.count)
    <2>1. n.count \in Nat
        BY <1>1, Fields
    <2> HIDE DEF j
    <2> QED BY <1>3, <2>1
<1>7. \/ n.keys[j] = k /\ Goto(t, "child") /\ i' = [i EXCEPT ![t] = j]
      \/ n.keys[j] # k /\ pc' = pc /\ i' = [i EXCEPT ![t] = j + 1]
    BY <1>5, <1>6 DEF Scan
<1>8. i \in [Threads -> Nat]
    BY DEF Sound, Typed
<1> HIDE DEF j
<1>9. \/ pc'[t] = "child" /\ AtKey(n, stored, k, i'[t])
      \/ pc'[t] = "scan" /\ Seeking(n, stored, k, i'[t])
    <2>1. CASE n.keys[j] = k
        BY <1>1, <1>3, <1>7, <1>8, <2>1, GotoApart
    <2>2. CASE n.keys[j] # k
        BY <1>1, <1>3, <1>7, <1>8, <2>2
    <2> QED BY <2>1, <2>2
<1>10. RemoveOK(t)'
    BY <1>1, <1>4, <1>9 DEF RemoveOK
<1>11. WorkStep(t)
    <2>1. Working(t)' /\ LabelOf(t)' /\ pc'[t] \notin {"freeNode", "copyKeys", "copyCount", "publish"}
        BY <1>1, <1>9, Sorts DEF Working, LabelOf, RemoveLabels
    <2>2. node' \in [Nodes -> Rows] /\ \A m \in Nodes : node'[m].count >= node[m].count
        <3>1. node \in [Nodes -> Rows]
            BY DEF Sound, Typed
        <3>2. \A m \in Nodes : node[m].count \in Nat
            BY <3>1, Fields
        <3> QED BY <1>4, <3>1, <3>2
    <2> QED BY <1>1, <1>4, <2>1, <2>2 DEF WorkStep, Between
<1> QED BY <1>1, <1>10, <1>11, WorkSound, Sorts

LEMMA RemovalLoadsChild ==
  ASSUME Types, Sound, NEW t \in Removers, LoadChild(t), Between(t)
  PROVE  Sound'
<1> DEFINE n == node[on[t]]  k == KeyOf[t]
<1>1. /\ t \in Changers /\ t \in Threads /\ pc[t] = "child" /\ on[t] \in Nodes /\ n \in Rows
      /\ node \in [Nodes -> Rows] /\ stored' = stored /\ RemoveOK(t)
    BY Sorts, OnNode DEF LoadChild
<1>2. AtKey(n, stored, k, i[t])
    BY <1>1 DEF RemoveOK
<1>3. n.children[i[t]] = k
    BY <1>2 DEF AtKey, Complete, Twin
<1>4. node' = node /\ on' = on /\ i' = i /\ Goto(t, "keys")
    BY <1>3, Sorts DEF LoadChild, shared, Search
<1>5. Becomes(on[t], n)
    BY <1>1, <1>4 DEF Becomes
<1>6. "keys" \in RemoveLabels
    BY DEF RemoveLabels
<1>7. WorkStep(t) /\ pc'[t] = "keys"
    BY <1>1, <1>4, <1>5, <1>6, CellStep, Sorts
<1>8. RemoveOK(t)'
    BY <1>1, <1>2, <1>4, <1>7 DEF RemoveOK
<1> QED BY <1>1, <1>7, <1>8, WorkSound, Sorts

LEMMA RemovalMovesKeys ==
  ASSUME Types, Sound, NEW t \in Removers, MoveKeys(t), Between(t)
  PROVE  Sound'
<1> DEFINE n == node[on[t]]  m == [n EXCEPT !.keys = Down(n.keys, i[t], n.count - 1)]
<1>1. /\ t \in Changers /\ pc[t] = "keys" /\ on[t] \in Nodes /\ n \in Rows /\ RemoveOK(t)
      /\ stored \in SUBSET Nat /\ KeyOf[t] \in Nat /\ i[t] \in Nat /\ stored' = stored
    BY Sorts, OnNode DEF MoveKeys
<1>2. AtKey(n, stored, KeyOf[t], i[t])
    BY <1>1 DEF RemoveOK
<1>3. m \in Rows /\ KeysClosed(m, stored, KeyOf[t], i[t])
    BY <1>1, <1>2, CloseKeys
<1>4. m.count = n.count
    BY <1>1 DEF Rows
<1>5. Becomes(on[t], m)
    BY Sorts DEF MoveKeys, Becomes, Moved, Down, Last, Insert
<1>6. Goto(t, "children") /\ on' = on /\ i' = i
    BY DEF MoveKeys, locals
<1>7. "children" \in RemoveLabels
    BY DEF RemoveLabels
<1> HIDE DEF m
<1>8. WorkStep(t) /\ pc'[t] = "children" /\ node'[on[t]] = m
    BY <1>1, <1>3, <1>4, <1>5, <1>6, <1>7, CellStep, Sorts
<1>9. RemoveOK(t)'
    BY <1>1, <1>3, <1>6, <1>8 DEF RemoveOK
<1> QED BY <1>1, <1>8, <1>9, WorkSound, Sorts

LEMMA RemovalMovesChildren ==
  ASSUME Types, Sound, NEW t \in Removers, MoveChildren(t), Between(t)
  PROVE  Sound'
<1> DEFINE n == node[on[t]]  m == [n EXCEPT !.children = Down(n.children, i[t], n.count - 1)]
<1>1. /\ t \in Changers /\ pc[t] = "children" /\ on[t] \in Nodes /\ n \in Rows /\ RemoveOK(t)
      /\ stored \in SUBSET Nat /\ KeyOf[t] \in Nat /\ i[t] \in Nat /\ stored' = stored
      /\ KeyOf[t] \notin stored
    BY Sorts, OnNode DEF MoveChildren
<1>2. KeysClosed(n, stored, KeyOf[t], i[t])
    BY <1>1 DEF RemoveOK
<1>3. m \in Rows /\ Closed(m, stored)
    BY <1>1, <1>2, CloseChildren
<1>4. m.count = n.count
    BY <1>1 DEF Rows
<1>5. Becomes(on[t], m)
    BY Sorts DEF MoveChildren, Becomes, Moved, Down, Last, Insert
<1>6. Goto(t, "count") /\ on' = on /\ i' = i
    BY Sorts DEF MoveChildren, locals, Insert
<1>7. "count" \in RemoveLabels
    BY DEF RemoveLabels
<1> HIDE DEF m
<1>8. WorkStep(t) /\ pc'[t] = "count" /\ node'[on[t]] = m
    BY <1>1, <1>3, <1>4, <1>5, <1>6, <1>7, CellStep, Sorts
<1>9. RemoveOK(t)'
    BY <1>1, <1>3, <1>6, <1>8 DEF RemoveOK
<1> QED BY <1>1, <1>8, <1>9, WorkSound, Sorts

-------------------------------------------------------------------------------
(* The pointer leads to the node there was, or to one that has taken its   *)
(* place for good.                                                         *)
Settled ==
  \/ ref = at /\ gone = {}
  \/ ref \in Inserters /\ gone = {at}

(* Where no change is at work the node is complete, and a thread that is   *)
(* on a node that has not been freed is on this one.                       *)
LEMMA NobodyAtWork ==
  ASSUME Types, Sound, \A u \in Changers : ~Working(u)
  PROVE  /\ Settled
         /\ Complete(node[ref], stored) /\ node[ref] \in Rows /\ ref \in Nodes
         /\ \A u \in Threads : on[u] \notin gone => on[u] = ref
         /\ ref \notin gone
<1>1. \A u \in Inserters : pc[u] # "freeNode"
    BY Sorts DEF Working
<1>2. Settled
    BY <1>1 DEF Sound, Alone, Settled
<1>3. Complete(node[ref], stored) /\ node[ref] \in Rows /\ ref \in Nodes
    BY DEF Types, Sound, Content, Typed
<1>4. \A u \in Threads : on[u] \in {at, ref}
    BY DEF Sound, Alone
<1>5. at \notin Inserters
    BY Sorts DEF Sound, Alone
<1> QED BY <1>2, <1>3, <1>4, <1>5 DEF Settled

(* There is room for the keys that are yet to be inserted.                 *)
LEMMA RoomForOneMore ==
  ASSUME Sound, NEW t \in Inserters, pc[t] # "done", KeyOf[t] \notin stored,
         NEW n \in Rows, Complete(n, stored)
  PROVE  n.count < GrownCapacity
<1>1. PICK team \in Teams : /\ \A u \in Changers \ team.threads : pc[u] = "done"
                            /\ stored \subseteq team.load \cup Added(team)
    BY DEF Sound, Membership
<1> DEFINE T == team.threads \cap Inserters  A == Added(team)  f == [u \in T |-> KeyOf[u]]
           U == team.load \cup A
<1>2. t \in T /\ KeyOf[t] \in A
    BY <1>1, Sorts DEF Added
<1>3. /\ IsFiniteSet(team.threads) /\ IsFiniteSet(team.load)
      /\ Capacity \in Nat /\ GrownCapacity \in Nat /\ Capacity < GrownCapacity
      /\ Cardinality(U) <= Capacity \/ Cardinality(U) <= GrownCapacity
    BY LockAssumption
<1>4. IsFiniteSet(A)
    <2>1. IsFiniteSet(T)
        BY <1>3, FS_Intersection, Zenon
    <2>2. f \in Surjection(T, A)
        BY DEF Surjection, Added
    <2> QED BY <2>1, <2>2, FS_Surjection, Zenon
<1>5. IsFiniteSet(U)
    BY <1>3, <1>4, FS_Union, Zenon
<1>6. Cardinality(U) \in Nat
    BY <1>5, FS_CardinalityType
<1> HIDE DEF U
<1>7. IsFiniteSet(stored) /\ Cardinality(stored) = n.count
    BY CountIsCardinality
<1>8. Cardinality(stored \cup {KeyOf[t]}) = n.count + 1
    BY <1>7, FS_AddElement
<1>9. Cardinality(stored \cup {KeyOf[t]}) <= Cardinality(U)
    <2>1. stored \cup {KeyOf[t]} \in SUBSET U
        BY <1>1, <1>2 DEF U
    <2> QED BY <1>5, <2>1, FS_Subset
<1>10. n.count \in Nat
    BY Fields
<1> QED BY <1>3, <1>6, <1>8, <1>9, <1>10

(* An insert has got its lock and goes to work.                            *)
LEMMA LockSound ==
  ASSUME Types, Sound, NEW t \in Inserters, Lock(t) \/ LockFull(t), Apart(t), LocalTypes', ~clash'
  PROVE  Sound'
<1>1. t \in Changers /\ t \in Threads /\ pc[t] \in Early /\ pc[t] \notin {"unlockParent", "done", "free"}
    BY Sorts DEF Lock, LockFull, Early
<1>2. /\ node' = node /\ ref' = ref /\ gone' = gone /\ stored' = stored /\ freed' = freed
      /\ due' = due /\ events' = events /\ on' = on /\ i' = i /\ reg' = reg
      /\ at' = at /\ target' = target
    BY DEF Lock, LockFull, locals
<1>3. pc'[t] = "position" /\ \A u \in Threads : u # t => pc'[u] = pc[u]
    BY <1>1, GotoApart DEF Lock, LockFull
<1>4. /\ on[t] \notin gone /\ \A u \in Changers : u # t => ~Working(u)
      /\ ~Working(t)
    BY <1>1 DEF Lock, LockFull, BeginWork, Working, Early
<1>5. \A u \in Changers : ~Working(u)
    BY <1>4
<1>6. /\ Settled
      /\ Complete(node[ref], stored) /\ node[ref] \in Rows /\ ref \in Nodes /\ on[t] = ref
    BY <1>1, <1>4, <1>5, NobodyAtWork
<1>7. Working(t)' /\ \A u \in Changers : u # t => ~Working(u)'
    BY <1>1, <1>3, <1>4, Sorts, SameWorkers DEF Working
<1>8. KeyOf[t] \notin stored /\ i[t] = 0
    BY <1>1 DEF Sound, Membership
<1>9. InsertOK(t)'
    <2>1. node[ref].count < GrownCapacity
        BY <1>1, <1>6, <1>8, RoomForOneMore
    <2>2. node[ref].count \in Nat
        BY <1>6, Fields
    <2>3. Placing(node[ref], stored, KeyOf[t], 0)
        BY <1>6, <2>2 DEF Placing, Upto
    <2>4. \A j \in Upto(node[ref].count) : node[ref].children[j] \in stored
        BY <1>6, CompleteShows
    <2> QED BY <1>2, <1>3, <1>6, <1>8, <2>1, <2>3, <2>4 DEF InsertOK
<1>10. Content'
    BY <1>1, <1>7, <1>9, Sorts DEF Content
<1>11. Typed'
    <2>1. pc'[t] \in InsertLabels
        BY <1>3 DEF InsertLabels
    <2>2. /\ \A u \in Inserters : pc'[u] \in InsertLabels
          /\ \A u \in Removers : pc'[u] \in RemoveLabels
          /\ \A u \in Searchers : pc'[u] \in SearchLabels
        BY <1>3, <2>1, Sorts DEF Sound, Typed
    <2> QED BY <1>2, <2>2 DEF Sound, Typed, LocalTypes
<1>12. Alone'
    <2>1. \A u \in Inserters : pc'[u] \notin {"freeNode", "copyKeys", "copyCount", "publish"}
        BY <1>3, <1>5, Sorts DEF Working
    <2> QED BY <1>2, <1>3, <1>6, <1>7, <2>1 DEF Sound, Alone, Settled
<1>13. Membership'
    <2>1. \A u \in Inserters : pc'[u] \in {"unlockParent", "done"} \/ KeyOf[u] \notin stored'
        BY <1>1, <1>2, <1>3, <1>8, Sorts DEF Sound, Membership
    <2>2. \A u \in Removers : /\ pc'[u] = "start" => KeyOf[u] \in stored'
                              /\ Working(u)' \/ pc'[u] = "free" => KeyOf[u] \notin stored'
        BY <1>2, <1>3, <1>7, Sorts DEF Sound, Membership
    <2>3. \A u \in Changers : pc'[u] \in Early => i'[u] = 0
        BY <1>2, <1>3, <1>8, Sorts DEF Sound, Membership
    <2>4. \E team \in Teams : /\ \A u \in Changers \ team.threads : pc'[u] = "done"
                              /\ stored' \subseteq team.load \cup Added(team)
        <3>1. PICK team \in Teams : /\ \A u \in Changers \ team.threads : pc[u] = "done"
                                    /\ stored \subseteq team.load \cup Added(team)
            BY DEF Sound, Membership
        <3>2. \A u \in Changers \ team.threads : pc'[u] = "done"
            BY <1>1, <1>3, <3>1, Sorts
        <3> QED BY <1>2, <3>1, <3>2
    <2> QED BY <1>2, <2>1, <2>2, <2>3, <2>4 DEF Sound, Membership
<1>14. Freed'
    <2>1. Lost' = Lost
        BY <1>2, <1>3, Sorts DEF Lost
    <2>2. \A u \in Removers : ~Working(u)'
        BY <1>7, Sorts
    <2>3. \A s \in Searchers : Untouched(s)'
        BY <1>2, <1>3, <2>1, <2>2, Sorts DEF Sound, Freed, Untouched
    <2> QED BY <1>2, <2>3 DEF Sound, Freed
<1>15. Found'
    <2>1. \A s \in Searchers : pc'[s] = pc[s] /\ (Active(s)' <=> Active(s))
        BY <1>3, Sorts DEF Active, Reading
    <2>2. \E u \in Inserters : Working(u)'
        BY <1>7
    <2> QED BY <1>2, <2>1, <2>2 DEF Sound, Found, FoundBy
<1> QED BY <1>10, <1>11, <1>12, <1>13, <1>14, <1>15 DEF Sound

-------------------------------------------------------------------------------
(* What the other steps of a change have in common.                        *)
LEMMA TypedKept ==
  ASSUME Sound, NEW t \in Threads, Apart(t), LocalTypes', LabelOf(t)', node' \in [Nodes -> Rows]
  PROVE  Typed'
<1>1. \A u \in Threads : LabelOf(u)'
    <2>1. \A u \in Threads : LabelOf(u)
        BY DEF Sound, Typed, LabelOf
    <2> QED BY <2>1 DEF Apart, LabelOf
<1>2. target' = target
    BY DEF Apart
<1> QED BY <1>1, <1>2, Sorts DEF Sound, Typed, LocalTypes, LabelOf

LEMMA MembershipKept ==
  ASSUME Sound, NEW t \in Changers, Apart(t), pc[t] # "done",
         \/ stored' = stored
         \/ stored' = stored \ {KeyOf[t]}
         \/ t \in Inserters /\ stored' = stored \cup {KeyOf[t]},
         t \in Inserters => pc'[t] \in {"unlockParent", "done"} \/ KeyOf[t] \notin stored',
         t \in Removers => pc'[t] # "start" /\ (pc'[t] = "done" \/ KeyOf[t] \notin stored'),
         pc'[t] \in Early => i'[t] = 0
  PROVE  Membership'
<1>1. t \in Threads /\ \A u \in Changers : u # t =>
        pc'[u] = pc[u] /\ (Working(u)' <=> Working(u)) /\ i'[u] = i[u]
    BY SameWorkers, Sorts
<1>2. \A u \in Changers : u # t => (KeyOf[u] \in stored' <=> KeyOf[u] \in stored)
    BY Sorts
<1>3. PICK team \in Teams : /\ \A u \in Changers \ team.threads : pc[u] = "done"
                            /\ stored \subseteq team.load \cup Added(team)
    BY DEF Sound, Membership
<1>4. t \in team.threads
    BY <1>3
<1>5. stored' \subseteq team.load \cup Added(team)
    <2>1. t \in Inserters => KeyOf[t] \in Added(team)
        BY <1>4 DEF Added
    <2> QED BY <1>3, <2>1
<1>6. \A u \in Changers \ team.threads : pc'[u] = "done"
    BY <1>1, <1>3, <1>4
<1>7. stored' \subseteq Nat \ {0}
    BY Sorts DEF Sound, Membership
<1>8. \A u \in Inserters : pc'[u] \in {"unlockParent", "done"} \/ KeyOf[u] \notin stored'
    BY <1>1, <1>2, Sorts DEF Sound, Membership
<1>9. \A u \in Removers : /\ pc'[u] = "start" => KeyOf[u] \in stored'
                          /\ Working(u)' \/ pc'[u] = "free" => KeyOf[u] \notin stored'
    <2>1. pc'[t] = "done" => ~Working(t)'
        BY DEF Working
    <2> QED BY <1>1, <1>2, <2>1, Sorts DEF Sound, Membership
<1>10. \A u \in Changers : pc'[u] \in Early => i'[u] = 0
    BY <1>1 DEF Sound, Membership
<1> QED BY <1>3, <1>5, <1>6, <1>7, <1>8, <1>9, <1>10 DEF Membership

(* As long as an insert is at work there is nothing to say of what has     *)
(* been found.                                                             *)
LEMMA FoundWhileAtWork ==
  ASSUME Sound, NEW t \in Inserters, Apart(t), Working(t)',
         events' = events, due' = due, stored' = stored
  PROVE  Found'
<1>1. \A s \in Searchers : /\ pc'[s] = pc[s] /\ i'[s] = i[s] /\ target'[s] = target[s]
                           /\ (Active(s)' <=> Active(s))
    BY SameSearch, Sorts
<1> QED BY <1>1 DEF Sound, Found, FoundBy

(* The new node is in the place of the old one, and holds the same.        *)
LEMMA PublishSound ==
  ASSUME Types, Sound, NEW t \in Inserters, Publish(t), Apart(t), LocalTypes'
  PROVE  Sound'
<1>1. t \in Changers /\ t \in Threads /\ pc[t] = "publish" /\ Working(t)
    BY Sorts DEF Publish, Working
<1>2. /\ InsertOK(t) /\ KeyOf[t] \notin stored /\ on[t] = at /\ ref = at /\ gone = {}
      /\ \A u \in Changers : u # t => ~Working(u)
    BY <1>1, AtWork, WorkPlace, Sorts DEF Sound, Alone
<1>3. /\ node' = node /\ ref' = t /\ gone' = gone /\ stored' = stored /\ freed' = freed
      /\ due' = due /\ events' = events /\ on' = on /\ i' = i /\ reg' = reg /\ at' = at
    BY DEF Publish, locals, history
<1>4. pc'[t] = "freeNode" /\ \A u \in Threads : u # t => pc'[u] = pc[u]
    BY <1>1, GotoApart DEF Publish
<1>5. Working(t)' /\ \A u \in Changers : u # t => ~Working(u)'
    BY <1>1, <1>2, <1>4, SameWorkers DEF Working
<1>6. InsertOK(t)'
    BY <1>1, <1>2, <1>3, <1>4 DEF InsertOK
<1>7. Content'
    BY <1>1, <1>5, <1>6, Sorts DEF Content
<1>8. Typed'
    BY <1>1, <1>3, <1>4, TypedKept, Sorts DEF LabelOf, InsertLabels, Sound, Typed
<1>9. Alone'
    <2>1. \A u \in Inserters : u # t => pc'[u] \notin {"freeNode", "copyKeys", "copyCount", "publish"}
        BY <1>5, Sorts DEF Working
    <2> QED BY <1>2, <1>3, <1>4, <1>5, <2>1 DEF Sound, Alone
<1>10. Membership'
    BY <1>1, <1>2, <1>3, <1>4, MembershipKept, Sorts DEF Early
<1>11. Freed'
    <2>1. Lost' = Lost
        BY <1>3, <1>4, Sorts DEF Lost
    <2>2. \A u \in Removers : ~Working(u)'
        BY <1>5, Sorts
    <2>3. \A s \in Searchers : Untouched(s)'
        BY <1>3, <1>4, <2>1, <2>2, Sorts DEF Sound, Freed, Untouched
    <2> QED BY <1>3, <2>3 DEF Sound, Freed
<1>12. Found'
    BY <1>3, <1>5, FoundWhileAtWork
<1> QED BY <1>7, <1>8, <1>9, <1>10, <1>11, <1>12 DEF Sound

(* The old node is freed, and the insert goes on in the new one.           *)
LEMMA FreeNodeSound ==
  ASSUME Types, Sound, NEW t \in Inserters, FreeNode(t), Apart(t), LocalTypes'
  PROVE  Sound'
<1>1. t \in Changers /\ t \in Threads /\ t \in Nodes /\ pc[t] = "freeNode" /\ Working(t)
    BY Sorts DEF FreeNode, Working
<1>2. /\ InsertOK(t) /\ KeyOf[t] \notin stored /\ on[t] = at /\ ref = t
      /\ gone \subseteq {at} /\ node[on[t]] \in Rows /\ on[t] \in Nodes
      /\ \A u \in Changers : u # t => ~Working(u)
    BY <1>1, AtWork, WorkPlace, Sorts DEF Sound, Alone
<1>3. /\ node' = node /\ ref' = ref /\ gone' = gone \cup {at} /\ stored' = stored /\ freed' = freed
      /\ due' = due /\ events' = events /\ on' = [on EXCEPT ![t] = t]
      /\ i' = i /\ reg' = reg /\ at' = at
    BY <1>2 DEF FreeNode, history
<1>4. pc'[t] = "position" /\ \A u \in Threads : u # t => pc'[u] = pc[u]
    BY <1>1, GotoApart DEF FreeNode
<1>5. Working(t)' /\ \A u \in Changers : u # t => ~Working(u)'
    BY <1>1, <1>2, <1>4, SameWorkers DEF Working
<1>6. on'[t] = t /\ \A u \in Threads : u # t => on'[u] = on[u]
    BY <1>1, <1>3 DEF Types
<1>7. InsertOK(t)'
    <2> DEFINE n == node[on[t]]  m == node[t]
    <2>1. /\ Complete(n, stored) /\ i[t] = 0 /\ n.count < GrownCapacity /\ m.count = n.count
          /\ \A j \in Upto(n.count) : m.keys[j] = n.keys[j] /\ m.children[j] = n.children[j]
        BY <1>1, <1>2 DEF InsertOK
    <2>2. m \in Rows
        BY <1>1 DEF Sound, Typed
    <2>3. Complete(m, stored)
        BY <1>2, <2>1, <2>2, CopyIsComplete
    <2>4. Placing(m, stored, KeyOf[t], 0)
        <3>1. m.count \in Nat
            BY <2>2, Fields
        <3> QED BY <2>3, <3>1 DEF Placing, Upto
    <2>5. \A j \in Upto(m.count) : m.children[j] \in stored
        BY <2>3, CompleteShows
    <2> QED BY <1>3, <1>4, <1>6, <2>1, <2>4, <2>5 DEF InsertOK
<1>8. Content'
    BY <1>1, <1>5, <1>7, Sorts DEF Content
<1>9. Typed'
    BY <1>1, <1>3, <1>4, TypedKept, Sorts DEF LabelOf, InsertLabels, Sound, Typed
<1>10. Alone'
    <2>1. \A u \in Inserters : pc'[u] \notin {"freeNode", "copyKeys", "copyCount", "publish"}
        BY <1>4, <1>5, Sorts DEF Working
    <2> QED BY <1>2, <1>3, <1>4, <1>5, <1>6, <2>1 DEF Sound, Alone
<1>11. Membership'
    BY <1>1, <1>2, <1>3, <1>4, MembershipKept, Sorts DEF Early
<1>12. Freed'
    <2>1. \A u \in Removers : ~Working(u)'
        BY <1>5, Sorts
    <2>2. \A s \in Searchers : Untouched(s)'
        BY <1>3, <2>1 DEF Untouched
    <2> QED BY <1>3, <2>2 DEF Sound, Freed
<1>13. Found'
    BY <1>3, <1>5, FoundWhileAtWork
<1> QED BY <1>8, <1>9, <1>10, <1>11, <1>12, <1>13 DEF Sound

(* A search that an insert has overlapped learns that it has been unlocked *)
(* or that the node has grown.                                             *)
LEMMA UnlockSound ==
  ASSUME Types, Sound, NEW t \in Inserters, Unlock(t), Apart(t), LocalTypes'
  PROVE  Sound'
<1>1. t \in Changers /\ t \in Threads /\ pc[t] = "unlock" /\ Working(t)
    BY Sorts DEF Unlock, Working
<1>2. /\ InsertOK(t) /\ on[t] = ref /\ Settled
      /\ \A u \in Changers : u # t => ~Working(u)
    BY <1>1, AtWork, WorkPlace DEF Settled
<1>3. /\ node' = node /\ ref' = ref /\ gone' = gone /\ stored' = stored \cup {KeyOf[t]}
      /\ freed' = freed /\ due' = due /\ events' = Unlocked(t) /\ at' = at
    BY DEF Unlock
<1>4. pc'[t] \in {"unlockParent", "done"} /\ \A u \in Threads : u # t => pc'[u] = pc[u]
    BY <1>1, GotoApart DEF Unlock
<1>5. \A u \in Changers : ~Working(u)'
    BY <1>1, <1>2, <1>4, SameWorkers DEF Working
<1>6. on'[t] \in {at, ref} /\ \A u \in Threads : u # t => on'[u] = on[u]
    BY <1>1, <1>2, ReturnApart DEF Unlock, locals, Apart, Sound
<1>7. Complete(node[ref], stored')
    BY <1>1, <1>2, <1>3 DEF InsertOK
<1>8. Content'
    BY <1>3, <1>5, <1>7, Sorts DEF Content
<1>9. Typed'
    BY <1>1, <1>3, <1>4, TypedKept, Sorts DEF LabelOf, InsertLabels, Sound, Typed
<1>10. Alone'
    <2>1. \A u \in Inserters : pc'[u] \notin {"freeNode", "copyKeys", "copyCount", "publish"}
        BY <1>5, Sorts DEF Working
    <2> QED BY <1>2, <1>3, <1>5, <1>6, <2>1 DEF Sound, Alone, Settled
<1>11. Membership'
    BY <1>1, <1>3, <1>4, MembershipKept, Sorts DEF Early
<1>12. Freed'
    <2>1. Lost' = Lost
        BY <1>1, <1>3, <1>4, Sorts DEF Lost
    <2>2. \A u \in Removers : ~Working(u)'
        BY <1>5, Sorts
    <2>3. \A s \in Searchers : "removal" \in events[s] => "removal" \in events'[s]
        BY <1>3 DEF Unlocked
    <2>4. ASSUME NEW s \in Searchers PROVE Untouched(s)'
        <3>1. pc'[s] = pc[s] /\ on'[s] = on[s] /\ i'[s] = i[s] /\ reg'[s] = reg[s]
            BY <1>1, SameSearch, Sorts
        <3> QED BY <1>3, <2>1, <2>2, <2>3, <3>1 DEF Sound, Freed, Untouched
    <2>5. KeyOf[t] \notin freed
        BY <1>1, Sorts DEF Sound, Freed
    <2> QED BY <1>3, <2>4, <2>5 DEF Sound, Freed
<1>13. Found'
    <2> SUFFICES ASSUME NEW s \in Searchers, Active(s)' PROVE FoundBy(s)'
        BY DEF Found, FoundBy
    <2>1. /\ pc'[s] = pc[s] /\ i'[s] = i[s] /\ Active(s) /\ target'[s] = target[s]
          /\ on'[s] = on[s] /\ s \in Threads
        BY <1>1, SameSearch, Sorts
    <2>2. "removal" \notin events'[s] => "removal" \notin events[s]
        BY <1>3 DEF Unlocked
    <2>3. ~(events'[s] = {} /\ on'[s] \notin gone')
        <3>1. on[s] \in {at, ref} /\ at \notin Inserters
            BY <2>1, Sorts DEF Sound, Alone
        <3>2. on[s] \in gone \/ on[s] = t \/ on[s] = Called(t)
            BY <1>2, <3>1 DEF Settled, Called
        <3>3. on[s] = t \/ on[s] = Called(t) => events'[s] # {}
            BY <1>3 DEF Unlocked
        <3> QED BY <1>3, <2>1, <3>2, <3>3
    <2> QED BY <1>3, <2>1, <2>2, <2>3 DEF Sound, Found, FoundBy
<1> QED BY <1>8, <1>9, <1>10, <1>11, <1>12, <1>13 DEF Sound

(* A removal begins, and every search learns of it.                        *)
LEMMA StartRemovalSound ==
  ASSUME Types, Sound, NEW t \in Removers, StartRemoval(t), Apart(t), LocalTypes', ~clash'
  PROVE  Sound'
<1>1. t \in Changers /\ t \in Threads /\ pc[t] = "start" /\ ~Working(t)
    BY Sorts DEF StartRemoval, Working
<1>2. /\ node' = node /\ ref' = ref /\ gone' = gone /\ stored' = stored \ {KeyOf[t]}
      /\ freed' = freed /\ due' = due /\ at' = at /\ i' = i /\ on' = [on EXCEPT ![t] = ref]
      /\ \A s \in Searchers : "removal" \in events'[s]
    BY DEF StartRemoval, shared
<1>3. pc'[t] = "scan" /\ \A u \in Threads : u # t => pc'[u] = pc[u]
    BY <1>1, GotoApart DEF StartRemoval
<1>4. \A u \in Changers : ~Working(u)
    BY <1>1 DEF StartRemoval, BeginWork
<1>5. Settled /\ Complete(node[ref], stored) /\ node[ref] \in Rows
    BY <1>4, NobodyAtWork
<1>6. Working(t)' /\ \A u \in Changers : u # t => ~Working(u)'
    BY <1>1, <1>3, <1>4, SameWorkers DEF Working
<1>7. on'[t] = ref /\ \A u \in Threads : u # t => on'[u] = on[u]
    BY <1>1, <1>2 DEF Types
<1>8. KeyOf[t] \in stored /\ i[t] = 0
    BY <1>1 DEF Sound, Membership, Early
<1>9. RemoveOK(t)'
    <2>1. stored' \cup {KeyOf[t]} = stored
        BY <1>2, <1>8
    <2>2. Seeking(node[ref], stored', KeyOf[t], 0)
        BY <1>5, <2>1 DEF Seeking, Upto
    <2> QED BY <1>2, <1>3, <1>7, <1>8, <2>2 DEF RemoveOK
<1>10. Content'
    BY <1>1, <1>6, <1>9, Sorts DEF Content
<1>11. Typed'
    BY <1>1, <1>2, <1>3, TypedKept, Sorts DEF LabelOf, RemoveLabels, Sound, Typed
<1>12. Alone'
    <2>1. \A u \in Inserters : pc'[u] \notin {"freeNode", "copyKeys", "copyCount", "publish"}
        BY <1>1, <1>6, Sorts DEF Working
    <2> QED BY <1>2, <1>3, <1>5, <1>6, <1>7, <2>1 DEF Sound, Alone, Settled
<1>13. Membership'
    BY <1>1, <1>2, <1>3, MembershipKept, Sorts DEF Early
<1>14. Freed'
    BY <1>2 DEF Sound, Freed, Untouched
<1>15. Found'
    <2> SUFFICES ASSUME NEW s \in Searchers, Active(s)' PROVE FoundBy(s)'
        BY DEF Found, FoundBy
    <2>1. pc'[s] = pc[s] /\ i'[s] = i[s] /\ Active(s)
        BY <1>1, SameSearch, Sorts
    <2>2. "removal" \in events'[s]
        BY <1>2
    <2>3. events'[s] # {}
        BY <2>2
    <2> QED BY <2>1, <2>2, <2>3 DEF Sound, Found, FoundBy
<1> QED BY <1>10, <1>11, <1>12, <1>13, <1>14, <1>15 DEF Sound

(* The count is written, and the leaf is about to be freed.                *)
LEMMA RemovalStoresCount ==
  ASSUME Types, Sound, NEW t \in Removers, StoreCount(t), Apart(t), LocalTypes'
  PROVE  Sound'
<1> DEFINE n == node[on[t]]  m == [n EXCEPT !.count = n.count - 1]
<1>1. t \in Changers /\ t \in Threads /\ pc[t] = "add" /\ Working(t)
    BY Sorts DEF StoreCount, Working
<1>2. /\ RemoveOK(t) /\ on[t] = ref /\ ref \in Nodes /\ n \in Rows /\ Settled
      /\ KeyOf[t] \notin stored
      /\ \A u \in Changers : u # t => ~Working(u)
    BY <1>1, AtWork, WorkPlace DEF Settled
<1>3. /\ ref' = ref /\ gone' = gone /\ stored' = stored /\ on' = on
      /\ freed' = freed /\ due' = due /\ events' = events /\ at' = at
    BY DEF StoreCount, locals, history
<1>4. pc'[t] = "free" /\ \A u \in Threads : u # t => pc'[u] = pc[u]
    BY <1>1, GotoApart, Sorts DEF StoreCount, Insert
<1>5. \A u \in Changers : ~Working(u)'
    BY <1>1, <1>2, <1>4, SameWorkers DEF Working
<1>6. Closed(n, stored) /\ reg[t] = n.count
    BY <1>1, <1>2 DEF RemoveOK
<1>7. Becomes(ref, m)
    BY <1>2, <1>6, Sorts DEF StoreCount, Becomes, Insert
<1>8. stored \in SUBSET Nat
    BY DEF Sound, Membership
<1>9. m \in Rows /\ Complete(m, stored)
    BY <1>2, <1>6, <1>8, StoreTaken
<1> HIDE DEF m
<1>10. node' \in [Nodes -> Rows] /\ node'[ref] = m
    BY <1>2, <1>7, <1>9, BecomesRows DEF Sound, Typed
<1>11. Content'
    BY <1>3, <1>5, <1>9, <1>10, Sorts DEF Content
<1>12. Typed'
    BY <1>1, <1>4, <1>10, TypedKept, Sorts DEF LabelOf, RemoveLabels
<1>13. Alone'
    <2>1. \A u \in Inserters : pc'[u] \notin {"freeNode", "copyKeys", "copyCount", "publish"}
        BY <1>5, Sorts DEF Working
    <2> QED BY <1>2, <1>3, <1>5, <2>1 DEF Sound, Alone, Settled
<1>14. Membership'
    BY <1>1, <1>2, <1>3, <1>4, MembershipKept, Sorts DEF Early
<1>15. \A s \in Searchers : /\ pc'[s] = pc[s] /\ i'[s] = i[s] /\ (Active(s)' <=> Active(s))
                            /\ target'[s] = target[s]
    BY <1>1, SameSearch, Sorts
<1>16. \A s \in Searchers : Active(s) => "removal" \in events[s]
    BY <1>1 DEF Sound, Freed, Untouched
<1>17. Freed'
    <2>1. \A u \in Removers : ~Working(u)'
        BY <1>5, Sorts
    <2>2. \A s \in Searchers : pc[s] \in {"child", "checkLeaf"} => Active(s)
        BY DEF Active, Reading
    <2>3. \A s \in Searchers : Untouched(s)'
        BY <1>3, <1>15, <1>16, <2>1, <2>2 DEF Untouched
    <2> QED BY <1>3, <2>3 DEF Sound, Freed
<1>18. Found'
    <2> SUFFICES ASSUME NEW s \in Searchers, Active(s)' PROVE FoundBy(s)'
        BY DEF Found, FoundBy
    <2>1. Active(s) /\ "removal" \in events'[s]
        BY <1>3, <1>15, <1>16
    <2>2. events'[s] # {}
        BY <2>1
    <2> QED BY <1>3, <1>15, <2>1, <2>2 DEF Sound, Found, FoundBy
<1> QED BY <1>11, <1>12, <1>13, <1>14, <1>17, <1>18 DEF Sound

-------------------------------------------------------------------------------
(* A step of a thread that is not at work on the node, and does not begin. *)
Still(t) ==
  /\ Apart(t) /\ LocalTypes' /\ LabelOf(t)' /\ ~Working(t) /\ ~Working(t)'
  /\ on'[t] \in {at, ref}
  /\ node' = node /\ ref' = ref /\ gone' = gone /\ stored' = stored

LEMMA StillKept ==
  ASSUME Types, Sound, NEW t \in Threads, Still(t)
  PROVE  Typed' /\ Alone' /\ Content'
<1>1. /\ node' = node /\ ref' = ref /\ gone' = gone /\ stored' = stored /\ at' = at
      /\ \A u \in Threads : u # t => /\ pc'[u] = pc[u] /\ on'[u] = on[u]
                                     /\ i'[u] = i[u] /\ reg'[u] = reg[u]
    BY DEF Still, Apart
<1>2. \A u \in Changers : /\ Working(u)' <=> Working(u)
                          /\ Working(u) => /\ pc'[u] = pc[u] /\ on'[u] = on[u]
                                           /\ i'[u] = i[u] /\ reg'[u] = reg[u]
    <2>1. \A u \in Changers : u # t => (Working(u)' <=> Working(u))
        BY SameWorkers DEF Still
    <2> QED BY <1>1, <2>1, Sorts DEF Still
<1>3. Typed'
    BY TypedKept DEF Still, Sound, Typed
<1>4. Alone'
    <2>1. \A u \in Inserters : /\ pc'[u] = "freeNode" <=> pc[u] = "freeNode"
                               /\ pc'[u] \in {"copyKeys", "copyCount", "publish"} <=>
                                    pc[u] \in {"copyKeys", "copyCount", "publish"}
        <3>1. \A u \in Inserters : u # t => pc'[u] = pc[u]
            BY <1>1, Sorts
        <3>2. t \in Inserters => /\ pc[t] \notin {"freeNode", "copyKeys", "copyCount", "publish"}
                                 /\ pc'[t] \notin {"freeNode", "copyKeys", "copyCount", "publish"}
            BY Sorts DEF Still, Working
        <3> QED BY <3>1, <3>2
    <2>2. \A u \in Threads : on'[u] \in {at, ref}
        BY <1>1 DEF Still, Sound, Alone
    <2>3. \A u \in Changers : Working(u)' => on'[u] = IF pc'[u] = "freeNode" THEN at ELSE ref
        BY <1>2 DEF Sound, Alone
    <2>4. \A u, v \in Changers : Working(u)' /\ Working(v)' => u = v
        BY <1>2 DEF Sound, Alone
    <2> QED BY <1>1, <2>1, <2>2, <2>3, <2>4 DEF Sound, Alone
<1>5. Content'
    <2>1. ASSUME NEW u \in Inserters, Working(u)' PROVE InsertOK(u)'
        <3>1. /\ InsertOK(u) /\ pc'[u] = pc[u] /\ on'[u] = on[u]
              /\ i'[u] = i[u] /\ reg'[u] = reg[u]
            BY <1>2, <2>1, Sorts DEF Sound, Content
        <3> QED BY <1>1, <3>1 DEF InsertOK
    <2>2. ASSUME NEW u \in Removers, Working(u)' PROVE RemoveOK(u)'
        <3>1. /\ RemoveOK(u) /\ pc'[u] = pc[u] /\ on'[u] = on[u]
              /\ i'[u] = i[u] /\ reg'[u] = reg[u]
            BY <1>2, <2>2, Sorts DEF Sound, Content
        <3> QED BY <1>1, <3>1 DEF RemoveOK
    <2>3. (\A u \in Changers : ~Working(u)') => Complete(node'[ref'], stored')
        BY <1>1, <1>2 DEF Sound, Content
    <2> QED BY <2>1, <2>2, <2>3 DEF Content
<1> QED BY <1>3, <1>4, <1>5

(* What such a step leaves of the searches of others.                      *)
LEMMA StillSearches ==
  ASSUME NEW t \in Threads, Still(t), Lost' = Lost, Sound,
         NEW s \in Searchers, s # t, events'[s] = events[s], s \in due' <=> s \in due
  PROVE  Untouched(s)' /\ FoundBy(s)'
<1>1. /\ pc'[s] = pc[s] /\ on'[s] = on[s] /\ i'[s] = i[s] /\ reg'[s] = reg[s]
      /\ (Active(s)' <=> Active(s)) /\ (Reading(s)' <=> Reading(s)) /\ target'[s] = target[s]
    BY SameSearch DEF Still
<1>2. node' = node /\ gone' = gone /\ stored' = stored
    BY DEF Still
<1>3. \A u \in Changers : Working(u)' <=> Working(u)
    <2>1. \A u \in Changers : u # t => (Working(u)' <=> Working(u))
        BY SameWorkers DEF Still
    <2> QED BY <2>1 DEF Still
<1>4. Untouched(s)'
    BY <1>1, <1>2, <1>3, Sorts DEF Sound, Freed, Untouched
<1>5. Trail(s)' <=> Trail(s)
    BY <1>1, <1>2 DEF Trail
<1>6. FoundBy(s)'
    BY <1>1, <1>2, <1>3, <1>5, Sorts DEF Sound, Found, FoundBy
<1> QED BY <1>4, <1>6

LEMMA IdleSound ==
  ASSUME Types, Sound, NEW t \in Changers, Still(t), pc[t] # "done",
         t \in Inserters => pc'[t] \in {"unlockParent", "done"} \/ KeyOf[t] \notin stored,
         t \in Removers => pc'[t] = "done",
         pc'[t] \in Early => i'[t] = 0,
         events' = events, due' = due, Lost' = Lost,
         freed' \subseteq {KeyOf[u] : u \in Removers}, freed' \cap stored = {}
  PROVE  Sound'
<1>1. t \in Threads
    BY Sorts
<1>2. Typed' /\ Alone' /\ Content'
    BY <1>1, StillKept
<1>3. Membership'
    BY MembershipKept DEF Still
<1>4. \A s \in Searchers : Untouched(s)' /\ FoundBy(s)'
    BY <1>1, StillSearches, Sorts
<1>5. Freed' /\ Found'
    BY <1>4 DEF Freed, Found, Still
<1> QED BY <1>2, <1>3, <1>5 DEF Sound

(* The steps of an insert before it locks and after it has unlocked.       *)
LEMMA InsertIdles ==
  ASSUME Types, Sound, NEW t \in Inserters, Apart(t), LocalTypes',
         ReadRoot(t) \/ FollowRoot(t) \/ ReadVersion(t) \/ IsNodeFull(t) \/ LockParent(t) \/ UnlockParent(t)
  PROVE  Sound'
<1>1. t \in Changers /\ t \in Threads /\ ~Search(t) /\ Insert(t)
    BY Sorts DEF Search, Insert
<1>2. CASE ReadRoot(t) \/ FollowRoot(t) \/ ReadVersion(t) \/ IsNodeFull(t) \/ LockParent(t)
    <2>1. pc[t] \in Early
        BY <1>2 DEF ReadRoot, FollowRoot, ReadVersion, IsNodeFull, LockParent, Early
    <2>2. pc'[t] \in Early
        <3>1. PICK l \in Early : Goto(t, l)
            BY <1>1, <1>2 DEF ReadRoot, FollowRoot, ReadVersion, IsNodeFull, LockParent, Early
        <3> QED BY <1>1, <3>1, GotoApart
    <2>3. i[t] = 0 /\ KeyOf[t] \notin stored
        BY <1>1, <2>1 DEF Sound, Membership, Early
    <2>4. /\ node' = node /\ ref' = ref /\ gone' = gone /\ stored' = stored /\ freed' = freed
          /\ events' = events /\ due' = due
        BY <1>1, <1>2 DEF ReadRoot, FollowRoot, ReadVersion, IsNodeFull, LockParent, shared, history
    <2>5. i'[t] = 0 /\ on'[t] \in {at, ref}
        <3>1. i \in [Threads -> Nat] /\ on \in [Threads -> Nodes] /\ on[t] \in {at, ref}
            BY <1>1 DEF Types, Sound, Typed, Alone
        <3>2. CASE ReadRoot(t) \/ FollowRoot(t)
            BY <1>1, <2>3, <3>1, <3>2 DEF ReadRoot, FollowRoot
        <3>3. CASE ReadVersion(t) \/ IsNodeFull(t) \/ LockParent(t)
            BY <2>3, <3>1, <3>3 DEF ReadVersion, IsNodeFull, LockParent, locals
        <3> QED BY <1>2, <3>2, <3>3
    <2>6. Still(t)
        BY <1>1, <2>1, <2>2, <2>4, <2>5, Sorts DEF Still, Working, Early, LabelOf, InsertLabels
    <2>7. Lost' = Lost
        <3>1. \A u \in Removers : pc'[u] = pc[u]
            BY <1>1, Sorts DEF Apart
        <3> QED BY <2>4, <3>1 DEF Lost
    <2> QED BY <1>1, <2>1, <2>3, <2>4, <2>5, <2>6, <2>7, IdleSound, Sorts DEF Sound, Freed, Early
<1>3. CASE UnlockParent(t)
    <2>1. pc[t] = "unlockParent" /\ pc'[t] = "done"
        BY <1>1, <1>3, GotoApart DEF UnlockParent
    <2>2. /\ node' = node /\ ref' = ref /\ gone' = gone /\ stored' = stored /\ freed' = freed
          /\ events' = events /\ due' = due
        BY <1>3 DEF UnlockParent, history
    <2>3. on'[t] = at
        BY <1>1, <1>3, ReturnApart DEF UnlockParent, Sound
    <2>4. Still(t)
        BY <1>1, <2>1, <2>2, <2>3, Sorts DEF Still, Working, LabelOf, InsertLabels
    <2>5. Lost' = Lost
        <3>1. \A u \in Removers : pc'[u] = pc[u]
            BY <1>1, Sorts DEF Apart
        <3> QED BY <2>2, <3>1 DEF Lost
    <2> QED BY <1>1, <2>1, <2>2, <2>4, <2>5, IdleSound, Sorts DEF Sound, Freed, Early
<1> QED BY <1>2, <1>3

(* The leaf is freed that has been taken out of the node.                  *)
LEMMA FreeSound ==
  ASSUME Types, Sound, NEW t \in Removers, Free(t), Apart(t), LocalTypes'
  PROVE  Sound'
<1>1. t \in Changers /\ t \in Threads
    BY Sorts
<1>2. pc[t] = "free" /\ pc'[t] = "done" /\ \A u \in Threads : u # t => pc'[u] = pc[u]
    BY <1>1, GotoApart DEF Free
<1>3. /\ node' = node /\ ref' = ref /\ gone' = gone /\ stored' = stored
      /\ freed' = freed \cup {KeyOf[t]} /\ events' = events /\ due' = due
    BY DEF Free, history
<1>4. on'[t] = at
    BY <1>1, ReturnApart DEF Free, Sound
<1>5. Still(t)
    BY <1>1, <1>2, <1>3, <1>4, Sorts DEF Still, Working, LabelOf, RemoveLabels
<1>6. Lost' = Lost
    <2> DEFINE R == {r \in Removers : pc[r] = "free"}  R1 == {r \in Removers : pc'[r] = "free"}
    <2>1. R = R1 \cup {t}
        BY <1>1, <1>2, Sorts
    <2> QED BY <1>3, <2>1 DEF Lost
<1>7. KeyOf[t] \notin stored
    BY <1>2 DEF Sound, Membership
<1> QED BY <1>1, <1>2, <1>3, <1>5, <1>6, <1>7, IdleSound, Sorts DEF Sound, Freed, Early

-------------------------------------------------------------------------------
(* The steps of a search disturb nothing but what is claimed of itself.    *)
Looking(s) ==
  /\ Apart(s) /\ LocalTypes'
  /\ node' = node /\ ref' = ref /\ gone' = gone /\ stored' = stored /\ freed' = freed
  /\ \A u \in Searchers : u # s => events'[u] = events[u] /\ (u \in due' <=> u \in due)

LEMMA SearchSound ==
  ASSUME Types, Sound, NEW s \in Searchers, Looking(s), pc'[s] \in SearchLabels,
         on'[s] \in {at, ref}, Untouched(s)', FoundBy(s)'
  PROVE  Sound'
<1>1. s \in Threads /\ s \notin Changers /\ ~Working(s) /\ ~Working(s)'
    BY Sorts DEF Working
<1>2. LabelOf(s)'
    BY Sorts DEF LabelOf
<1>3. Still(s)
    BY <1>1, <1>2 DEF Still, Looking
<1>4. Typed' /\ Alone' /\ Content'
    BY <1>1, <1>3, StillKept
<1>5. \A u \in Changers : pc'[u] = pc[u] /\ i'[u] = i[u] /\ (Working(u)' <=> Working(u))
    BY <1>1, SameWorkers, Sorts DEF Looking, Apart
<1>6. Membership'
    <2>1. PICK team \in Teams : /\ \A u \in Changers \ team.threads : pc[u] = "done"
                                /\ stored \subseteq team.load \cup Added(team)
        BY DEF Sound, Membership
    <2>2. \E v \in Teams : /\ \A u \in Changers \ v.threads : pc'[u] = "done"
                           /\ stored' \subseteq v.load \cup Added(v)
        BY <1>5, <2>1 DEF Looking
    <2> QED BY <1>5, <2>2, Sorts DEF Sound, Membership, Looking
<1>7. Lost' = Lost
    BY <1>5, Sorts DEF Lost, Looking
<1>8. \A u \in Searchers : Untouched(u)' /\ FoundBy(u)'
    BY <1>1, <1>3, <1>7, StillSearches DEF Looking
<1>9. Freed' /\ Found'
    BY <1>8 DEF Sound, Freed, Found, Looking
<1> QED BY <1>4, <1>6, <1>9 DEF Sound

(* A search that has ended, or begins anew, has nothing to show.           *)
LEMMA SearchReturns ==
  ASSUME Types, Sound, NEW s \in Searchers, Looking(s), pc'[s] \in {"start", "found", "missed"},
         on'[s] \in {at, ref}
  PROVE  Sound'
<1>1. ~Active(s)' /\ ~Reading(s)' /\ pc'[s] \in SearchLabels
    BY DEF Active, Reading, SearchLabels
<1>2. Untouched(s)' /\ FoundBy(s)'
    BY <1>1 DEF Untouched, FoundBy
<1> QED BY <1>1, <1>2, SearchSound

LEMMA SearchReadsRoot ==
  ASSUME Types, Sound, NEW s \in Searchers, ReadRoot(s), Apart(s), LocalTypes'
  PROVE  Sound'
<1>1. s \in Threads /\ Search(s)
    BY Sorts DEF Search
<1>2. /\ pc'[s] = "version" /\ on'[s] = ref /\ i'[s] = 0
    BY <1>1, GotoApart, Sorts DEF ReadRoot, Types, Sound, Typed, Insert
<1>3. events' = [events EXCEPT ![s] = {e \in {"removal"} : \E r \in Removers : Working(r)}]
    BY <1>1 DEF ReadRoot
<1>4. due' = IF target[s] \in stored THEN due \cup {s} ELSE due \ {s}
    BY <1>1 DEF ReadRoot
<1>5. Looking(s)
    BY <1>3, <1>4 DEF Looking, ReadRoot, shared, Types
<1>6. (\E r \in Removers : Working(r)) => "removal" \in events'[s]
    BY <1>3 DEF Types
<1>7. \A u \in Removers : Working(u)' <=> Working(u)
    BY <1>1, SameWorkers, Sorts DEF Looking, Apart
<1>8. Untouched(s)'
    BY <1>2, <1>6, <1>7 DEF Untouched
<1>9. target'[s] = target[s] /\ stored' = stored
    BY <1>5 DEF Looking, Apart
<1>10. FoundBy(s)'
    BY <1>2, <1>4, <1>9 DEF FoundBy, Reading
<1> QED BY <1>2, <1>5, <1>8, <1>10, SearchSound DEF SearchLabels

LEMMA SearchReadsVersion ==
  ASSUME Types, Sound, NEW s \in Searchers, ReadVersion(s), Apart(s), LocalTypes'
  PROVE  Sound'
<1>1. s \in Threads /\ Search(s) /\ ~Insert(s) /\ pc[s] = "version" /\ Active(s)
    BY Sorts DEF Search, Insert, ReadVersion, Active
<1>2. /\ on' = on /\ i' = i /\ reg' = reg /\ on[s] \in {at, ref} /\ i[s] = 0
      /\ node' = node /\ ref' = ref /\ gone' = gone /\ stored' = stored /\ freed' = freed
      /\ due' = due
    BY <1>1 DEF ReadVersion, shared, Sound, Alone, Found, FoundBy
<1>3. /\ \A u \in Searchers : u # s => events'[u] = events[u]
      /\ "removal" \in events'[s] <=> "removal" \in events[s]
    BY <1>1 DEF ReadVersion, Types
<1>4. Looking(s)
    BY <1>2, <1>3 DEF Looking
<1>5. pc'[s] \in {"start", "checkRoot", "scan"}
    BY <1>1, GotoApart DEF ReadVersion
<1>6. CASE pc'[s] = "start"
    BY <1>2, <1>4, <1>6, SearchReturns
<1>7. CASE pc'[s] \in {"checkRoot", "scan"}
    <2>1. \A u \in Removers : Working(u)' <=> Working(u)
        BY <1>1, SameWorkers, Sorts DEF Looking, Apart
    <2>2. Untouched(s)'
        BY <1>1, <1>3, <1>7, <2>1 DEF Sound, Freed, Untouched
    <2>3. target'[s] = target[s]
        BY <1>4 DEF Looking, Apart
    <2>4. Trail(s)'
        BY <1>2, <1>7 DEF Trail, Upto
    <2>5. FoundBy(s)'
        BY <1>1, <1>2, <1>3, <2>3, <2>4 DEF Sound, Found, FoundBy
    <2> QED BY <1>2, <1>4, <1>7, <2>2, <2>5, SearchSound DEF SearchLabels
<1> QED BY <1>5, <1>6, <1>7

LEMMA SearchChecksRoot ==
  ASSUME Types, Sound, NEW s \in Searchers, CheckRoot(s), Apart(s), LocalTypes'
  PROVE  Sound'
<1>1. s \in Threads /\ pc[s] = "checkRoot" /\ pc'[s] = "scan" /\ Active(s)
    BY Sorts, GotoApart DEF CheckRoot, Active, Reading
<1>2. /\ on' = on /\ i' = i /\ reg' = reg /\ on[s] \in {at, ref} /\ i[s] = 0
      /\ node' = node /\ ref' = ref /\ gone' = gone /\ stored' = stored /\ freed' = freed
      /\ due' = due /\ events' = events
    BY <1>1 DEF CheckRoot, shared, locals, history, Sound, Alone, Found, FoundBy
<1>3. Looking(s)
    BY <1>2 DEF Looking
<1>4. \A u \in Removers : Working(u)' <=> Working(u)
    BY <1>1, SameWorkers, Sorts DEF Looking, Apart
<1>5. Untouched(s)'
    BY <1>1, <1>2, <1>4 DEF Sound, Freed, Untouched
<1>6. target'[s] = target[s]
    BY <1>3 DEF Looking, Apart
<1>7. Trail(s)'
    BY <1>1, <1>2 DEF Trail, Upto
<1>8. FoundBy(s)'
    BY <1>1, <1>2, <1>6, <1>7 DEF Sound, Found, FoundBy
<1> QED BY <1>1, <1>2, <1>3, <1>5, <1>8, SearchSound DEF SearchLabels

LEMMA SearchEnds ==
  ASSUME Types, Sound, NEW s \in Searchers, ~crashed, ~crashed', Apart(s), LocalTypes',
         Restart(s) \/ ReturnNull(s) \/ CompareKey(s) \/ Stray(s)
  PROVE  Sound'
<1>1. s \in Threads
    BY Sorts
<1>2. CASE Restart(s) \/ ReturnNull(s) \/ CompareKey(s)
    <2>1. /\ node' = node /\ ref' = ref /\ gone' = gone /\ stored' = stored /\ freed' = freed
          /\ due' = due /\ events' = events
        BY <1>2 DEF Restart, ReturnNull, CompareKey, shared, history
    <2>2. PICK l \in {"start", "found", "missed"} : Goto(s, l)
        BY <1>2 DEF Restart, ReturnNull, CompareKey
    <2>3. on'[s] = at
        BY <1>1, <1>2, ReturnApart DEF Restart, ReturnNull, CompareKey, Sound
    <2>4. pc'[s] \in {"start", "found", "missed"}
        BY <1>1, <2>2, GotoApart
    <2> QED BY <2>1, <2>3, <2>4, SearchReturns DEF Looking
<1>3. CASE Stray(s)
    <2>1. /\ node' = node /\ ref' = ref /\ gone' = gone /\ stored' = stored /\ freed' = freed
          /\ due' = due /\ events' = events
        BY <1>3 DEF Stray, history
    <2>2. (\E l \in {"start", "found", "missed"} : Goto(s, l)) /\ Return(s)
        BY <1>3 DEF Stray
    <2>3. on'[s] = at
        BY <1>1, <2>2, ReturnApart DEF Sound
    <2>4. pc'[s] \in {"start", "found", "missed"}
        BY <1>1, <2>2, GotoApart
    <2> QED BY <2>1, <2>3, <2>4, SearchReturns DEF Looking
<1> QED BY <1>2, <1>3

(* find_child() of a search for a key that is stored does not get past it. *)
LEMMA SearchScans ==
  ASSUME Types, Sound, NEW s \in Searchers, Scan(s), Apart(s), LocalTypes'
  PROVE  Sound'
<1> DEFINE n == node[on[s]]  k == target[s]
           T == {l \in 0 .. n.count - 1 : n.keys[l] = k}
           first == FirstOf(T, n.count)
           j == IF on[s] \in Inserters THEN first ELSE i[s]
<1>1. /\ s \in Threads /\ pc[s] = "scan" /\ Active(s) /\ Reading(s) /\ Wanted(s) = k /\ Search(s)
      /\ n \in Rows /\ k \in Nat /\ i \in [Threads -> Nat] /\ on[s] \in {at, ref}
      /\ pc \in [Threads -> Labels]
    BY Sorts DEF Scan, Active, Reading, Wanted, Search, Types, Sound, Typed, Alone
<1>2. /\ on' = on /\ reg' = reg /\ node' = node /\ ref' = ref /\ gone' = gone /\ stored' = stored
      /\ freed' = freed /\ due' = due /\ events' = events
    BY DEF Scan, shared, history
<1>3. Looking(s)
    BY <1>2 DEF Looking
<1>4. j \in Nat /\ n.count \in Nat
    <2>1. n.count \in Nat
        BY <1>1, Fields
    <2>2. T \in SUBSET Nat
        BY <2>1
    <2>3. first \in Nat
        BY <2>1, <2>2, First DEF FirstOf
    <2> QED BY <1>1, <2>1, <2>3
<1>5. \/ j >= n.count /\ Goto(s, "checkNull")
      \/ ~(j >= n.count) /\ n.keys[j] = k /\ Goto(s, "child") /\ i' = [i EXCEPT ![s] = j]
      \/ ~(j >= n.count) /\ n.keys[j] # k /\ pc' = pc /\ i' = [i EXCEPT ![s] = j + 1]
    BY <1>1 DEF Scan
<1> HIDE DEF j
<1>6. \/ j >= n.count /\ pc'[s] = "checkNull"
      \/ j < n.count /\ n.keys[j] = k /\ pc'[s] = "child" /\ i'[s] = j
      \/ j < n.count /\ n.keys[j] # k /\ pc'[s] = "scan" /\ i'[s] = j + 1
    BY <1>1, <1>4, <1>5, GotoApart
<1>7. \A u \in Changers : Working(u)' <=> Working(u)
    BY <1>1, SameWorkers, Sorts DEF Looking, Apart
<1>8. Untouched(s)'
    BY <1>1, <1>2, <1>6, <1>7, Sorts DEF Sound, Freed, Untouched
<1>9. target'[s] = target[s]
    BY <1>3 DEF Looking, Apart
<1>10. ASSUME s \in due, events[s] = {}, on[s] \notin gone, \A u \in Inserters : ~Working(u)
       PROVE  Trail(s)'
    <2>1. \A u \in Changers : ~Working(u)
        BY <1>1, <1>10, Sorts DEF Sound, Freed, Untouched
    <2>2. Complete(n, stored) /\ stored \in SUBSET Nat
        BY <1>1, <1>10, <2>1, NobodyAtWork DEF Sound, Membership
    <2>3. k \in stored /\ Trail(s)
        BY <1>1, <1>10 DEF Sound, Found, FoundBy
    <2>4. stored \cup {k} = stored
        BY <2>3
    <2>5. Seeking(n, stored, k, i[s])
        BY <1>1, <2>2, <2>3, <2>4 DEF Seeking, Trail
    <2>6. /\ j < n.count
          /\ n.keys[j] = k => AtKey(n, stored, k, j)
          /\ n.keys[j] # k => Seeking(n, stored, k, j + 1)
        <3>1. CASE on[s] \in Inserters
            <4>1. first < n.count /\ AtKey(n, stored, k, first)
                BY <1>1, <2>2, <2>4, SeekAtOnce
            <4>2. n.keys[first] = k
                BY <4>1 DEF AtKey
            <4> QED BY <3>1, <4>1, <4>2 DEF j
        <3>2. CASE on[s] \notin Inserters
            BY <1>1, <2>2, <2>5, <3>2, SeekNext DEF j
        <3> QED BY <3>1, <3>2
    <2>7. ~(j >= n.count)
        BY <1>4, <2>6
    <2> QED BY <1>2, <1>6, <1>9, <2>6, <2>7 DEF Trail, AtKey, Seeking
<1>11. FoundBy(s)'
    <2>1. \A u \in Inserters : Working(u)' <=> Working(u)
        BY <1>7, Sorts
    <2> QED BY <1>1, <1>2, <1>6, <1>9, <1>10, <2>1 DEF Sound, Found, FoundBy
<1> QED BY <1>1, <1>2, <1>3, <1>6, <1>8, <1>11, SearchSound DEF SearchLabels

(* A leaf that a search comes to in a node that is there to stay is that   *)
(* of a key that is stored or being inserted, and not one about to be      *)
(* freed.                                                                  *)
LEMMA LeafSeen ==
  ASSUME Types, Sound, NEW s \in Threads, gone = {}, \A r \in Removers : ~Working(r),
         NEW j \in Upto(node[on[s]].count)
  PROVE  node[on[s]].children[j] \notin Lost
<1>1. on[s] \in {at, ref}
    BY DEF Sound, Alone
<1>2. Lost \subseteq {KeyOf[r] : r \in Removers} /\ Lost \cap stored = {}
    BY DEF Sound, Freed, Membership, Lost
<1>3. ASSUME NEW t \in Inserters PROVE KeyOf[t] \notin Lost
    BY <1>2, Sorts
<1>4. CASE \A u \in Changers : ~Working(u)
    <2>1. on[s] = ref /\ Complete(node[ref], stored)
        BY <1>4, NobodyAtWork
    <2>2. node[on[s]].children[j] \in stored
        BY <2>1, CompleteShows
    <2> QED BY <1>2, <2>2
<1>5. CASE \E t \in Inserters : Working(t)
    <2>1. PICK t \in Inserters : Working(t)
        BY <1>5
    <2>2. InsertOK(t) /\ t \in Changers
        BY <2>1, Sorts, AtWork
    <2>3. \A l \in Upto(node[on[t]].count) : node[on[t]].children[l] \in stored \cup {KeyOf[t]}
        BY <2>2 DEF InsertOK
    <2>4. CASE on[s] = on[t]
        BY <1>2, <1>3, <2>3, <2>4
    <2>5. CASE on[s] # on[t]
        <3>1. pc[t] = "freeNode" /\ on[s] = t
            BY <1>1, <2>1, <2>2, <2>5, WorkPlace
        <3>2. /\ node[t].count = node[on[t]].count
              /\ \A l \in Upto(node[on[t]].count) : node[t].children[l] = node[on[t]].children[l]
            BY <2>2, <3>1 DEF InsertOK
        <3> QED BY <1>2, <1>3, <2>3, <3>1, <3>2
    <2> QED BY <2>4, <2>5
<1> QED BY <1>4, <1>5, Sorts

LEMMA SearchLoadsChild ==
  ASSUME Types, Sound, NEW s \in Searchers, LoadChild(s), Apart(s), LocalTypes'
  PROVE  Sound'
<1> DEFINE n == node[on[s]]  k == target[s]  leaf == n.children[i[s]]
<1>1. /\ s \in Threads /\ pc[s] = "child" /\ Active(s) /\ Reading(s) /\ Search(s)
      /\ n \in Rows /\ k \in Nat /\ k # 0 /\ on[s] \in {at, ref} /\ i[s] \in Nat
      /\ reg \in [Threads -> Nat]
    BY Sorts DEF LoadChild, Active, Reading, Search, Types, Sound, Typed, Alone
<1>2. /\ on' = on /\ i' = i /\ node' = node /\ ref' = ref /\ gone' = gone /\ stored' = stored
      /\ freed' = freed /\ due' = due /\ events' = events
    BY DEF LoadChild, shared, history
<1>3. Looking(s)
    BY <1>2 DEF Looking
<1>4. reg' = [reg EXCEPT ![s] = leaf] /\ Goto(s, IF leaf = 0 THEN "checkNull" ELSE "checkLeaf")
    BY <1>1 DEF LoadChild
<1>5. reg'[s] = leaf /\ pc'[s] = IF leaf = 0 THEN "checkNull" ELSE "checkLeaf"
    BY <1>1, <1>4, GotoApart
<1>6. /\ \A u \in Changers : Working(u)' <=> Working(u)
      /\ \A u \in Changers : pc'[u] = pc[u]
    BY <1>1, SameWorkers, Sorts DEF Looking, Apart
<1>7. Lost' = Lost
    BY <1>2, <1>6, Sorts DEF Lost
<1>8. Untouched(s)'
    <2>1. (\E r \in Removers : Working(r)) => "removal" \in events[s]
        BY <1>1 DEF Sound, Freed, Untouched
    <2>2. ASSUME gone = {}, "removal" \notin events[s] PROVE leaf \notin Lost
        <3>1. i[s] < n.count
            BY <1>1, <2>2 DEF Sound, Freed, Untouched
        <3>2. i[s] \in Upto(n.count)
            <4>1. n.count \in Nat
                BY <1>1, Fields
            <4> QED BY <1>1, <3>1, <4>1 DEF Upto
        <3> QED BY <1>1, <2>1, <2>2, <3>2, LeafSeen
    <2> QED BY <1>2, <1>5, <1>6, <1>7, <2>1, <2>2, Sorts DEF Untouched
<1>9. target'[s] = target[s]
    BY <1>3 DEF Looking, Apart
<1>10. ASSUME s \in due, events[s] = {}, on[s] \notin gone, \A u \in Inserters : ~Working(u)
       PROVE  Trail(s)'
    <2>1. \A u \in Changers : ~Working(u)
        BY <1>1, <1>10, Sorts DEF Sound, Freed, Untouched
    <2>2. Complete(n, stored)
        BY <1>1, <1>10, <2>1, NobodyAtWork
    <2>3. i[s] \in Upto(n.count) /\ n.keys[i[s]] = k
        BY <1>1, <1>10 DEF Sound, Found, FoundBy, Trail
    <2>4. leaf = k
        BY <2>2, <2>3 DEF Complete, Twin
    <2> QED BY <1>1, <1>5, <1>9, <2>4 DEF Trail
<1>11. FoundBy(s)'
    <2>1. \A u \in Inserters : Working(u)' <=> Working(u)
        BY <1>6, Sorts
    <2> QED BY <1>1, <1>2, <1>5, <1>9, <1>10, <2>1 DEF Sound, Found, FoundBy
<1> QED BY <1>1, <1>2, <1>3, <1>5, <1>8, <1>11, SearchSound DEF SearchLabels

-------------------------------------------------------------------------------
(* All steps together.                                                     *)
LEMMA InsertKeeps ==
  ASSUME Types, Sound, ~crashed', ~clash', NEW t \in Inserters, InsertStep(t)
  PROVE  Sound'
<1>1. t \in Threads /\ t \in Changers /\ ~Search(t)
    BY Sorts DEF Search
<1>2. Apart(t) /\ LocalTypes'
    BY <1>1, StepApart DEF Sound
<1>3. ~Stray(t)
    BY <1>1 DEF Stray
<1>4. CASE \/ CopyChildren(t) \/ CopyKeys(t) \/ CopyCount(t) \/ Position(t) \/ MoveKeys(t)
           \/ MoveChildren(t) \/ SetKey(t) \/ SetChild(t) \/ LoadCount(t) \/ StoreCount(t)
    <2>1. Working(t)
        BY <1>1, <1>4 DEF Working, CopyChildren, CopyKeys, CopyCount, Position, MoveKeys,
                          MoveChildren, SetKey, SetChild, LoadCount, StoreCount
    <2>2. /\ ref' = ref /\ gone' = gone /\ stored' = stored /\ freed' = freed
          /\ due' = due /\ events' = events
        BY <1>4 DEF CopyChildren, CopyKeys, CopyCount, Position, MoveKeys, MoveChildren, SetKey,
                    SetChild, LoadCount, StoreCount, shared, history
    <2>3. Between(t)
        BY <1>2, <2>1, <2>2 DEF Between
    <2> QED
        BY <1>1, <1>4, <2>3, PositionSound, CopyChildrenSound, CopyKeysSound, CopyCountSound,
           InsertMovesKeys, InsertMovesChildren, SetKeySound, SetChildSound, LoadCountSound,
           InsertStoresCount
<1>5. CASE \/ ReadRoot(t) \/ FollowRoot(t) \/ ReadVersion(t) \/ IsNodeFull(t)
           \/ LockParent(t) \/ UnlockParent(t)
    BY <1>2, <1>5, InsertIdles
<1>6. CASE Lock(t) \/ LockFull(t)
    BY <1>2, <1>6, LockSound
<1>7. CASE Publish(t) \/ FreeNode(t) \/ Unlock(t)
    BY <1>2, <1>7, PublishSound, FreeNodeSound, UnlockSound
<1> QED BY <1>3, <1>4, <1>5, <1>6, <1>7 DEF InsertStep

LEMMA RemoveKeeps ==
  ASSUME Types, Sound, ~crashed', ~clash', NEW t \in Removers, RemoveStep(t)
  PROVE  Sound'
<1>1. t \in Threads /\ t \in Changers /\ ~Search(t)
    BY Sorts DEF Search
<1>2. Apart(t) /\ LocalTypes'
    BY <1>1, StepApart DEF Sound
<1>3. ~Stray(t)
    BY <1>1 DEF Stray
<1>4. CASE Scan(t) \/ LoadChild(t) \/ MoveKeys(t) \/ MoveChildren(t) \/ LoadCount(t)
    <2>1. Working(t)
        BY <1>1, <1>4 DEF Working, Scan, LoadChild, MoveKeys, MoveChildren, LoadCount
    <2>2. /\ ref' = ref /\ gone' = gone /\ stored' = stored /\ freed' = freed
          /\ due' = due /\ events' = events
        BY <1>4 DEF Scan, LoadChild, MoveKeys, MoveChildren, LoadCount, shared, history
    <2>3. Between(t)
        BY <1>2, <2>1, <2>2 DEF Between
    <2> QED
        BY <1>1, <1>4, <2>3, RemovalScans, RemovalLoadsChild, RemovalMovesKeys,
           RemovalMovesChildren, LoadCountSound
<1>5. CASE StartRemoval(t) \/ StoreCount(t) \/ Free(t)
    BY <1>2, <1>5, StartRemovalSound, RemovalStoresCount, FreeSound
<1> QED BY <1>3, <1>4, <1>5 DEF RemoveStep

LEMMA SearchKeeps ==
  ASSUME Types, Sound, ~crashed, ~crashed', NEW s \in Searchers, SearchStep(s)
  PROVE  Sound'
<1>1. s \in Threads
    BY Sorts
<1>2. Apart(s) /\ LocalTypes'
    BY <1>1, StepApart DEF Sound
<1> QED
    BY <1>2, SearchReadsRoot, SearchReadsVersion, SearchScans, SearchLoadsChild,
       SearchChecksRoot, SearchEnds DEF SearchStep

(* An overlap is not forgotten.                                            *)
LEMMA ClashStays == Step /\ clash => clash'
<1> SUFFICES ASSUME Step, clash PROVE clash' OBVIOUS
<1>1. ASSUME NEW s \in Searchers, SearchStep(s) PROVE clash'
    BY <1>1 DEF SearchStep, ReadRoot, ReadVersion, Scan, LoadChild, Restart, CheckRoot, ReturnNull,
                CompareKey, Stray, history
<1>2. ASSUME NEW t \in Inserters, InsertStep(t) PROVE clash'
    BY <1>2 DEF InsertStep, ReadRoot, FollowRoot, ReadVersion, IsNodeFull, LockParent, Lock, LockFull,
                CopyChildren, CopyKeys, CopyCount, Publish, FreeNode, Position, MoveKeys,
                MoveChildren, SetKey, SetChild, LoadCount, StoreCount, Unlock, UnlockParent,
                Stray, BeginWork, history
<1>3. ASSUME NEW t \in Removers, RemoveStep(t) PROVE clash'
    BY <1>3 DEF RemoveStep, StartRemoval, Scan, LoadChild, MoveKeys, MoveChildren, LoadCount,
                StoreCount, Free, Stray, BeginWork, history
<1> QED BY <1>1, <1>2, <1>3 DEF Step

LEMMA CellUnchanged == Cell /\ UNCHANGED vars => Cell'
<1> SUFFICES ASSUME Cell, UNCHANGED vars PROVE Cell' OBVIOUS
<1> USE DEF vars, shared, locals, history
<1>1. Fine' <=> Fine
    BY DEF Fine
<1>2. Typed' <=> Typed
    BY DEF Typed
<1>3. \A t : Working(t)' <=> Working(t)
    BY DEF Working
<1>4. Alone' <=> Alone
    BY DEF Alone, Working
<1>5. Membership' <=> Membership
    BY DEF Membership, Working
<1>6. Content' <=> Content
    BY DEF Content, Working, InsertOK, RemoveOK
<1>7. Freed' <=> Freed
    BY DEF Freed, Untouched, Active, Reading, Working, Lost
<1>8. Found' <=> Found
    BY DEF Found, FoundBy, Active, Reading, Working, Trail
<1> QED BY <1>1, <1>2, <1>4, <1>5, <1>6, <1>7, <1>8 DEF Cell, Sound

LEMMA CellKept == IInv /\ Cell /\ [Next]_vars => Cell'
<1> SUFFICES ASSUME IInv, Cell, [Next]_vars PROVE Cell' OBVIOUS
<1>1. CASE UNCHANGED vars
    BY <1>1, CellUnchanged
<1>2. CASE ~crashed /\ Step
    <2> SUFFICES ASSUME Fine' PROVE Sound'
        BY DEF Cell
    <2>1. Types /\ Sound /\ ~crashed /\ ~crashed' /\ ~clash'
        BY <1>2, ClashStays DEF IInv, Cell, Fine
    <2> QED BY <1>2, <2>1, InsertKeeps, RemoveKeeps, SearchKeeps DEF Step
<1> QED BY <1>1, <1>2 DEF Next, End

-------------------------------------------------------------------------------
(* To begin with the keys are there in order and nobody is at work.        *)
LEMMA InitCell == Init => Cell
<1> SUFFICES ASSUME Init PROVE Sound
    BY DEF Cell
<1>1. PICK team \in Teams :
        /\ target \in [Searchers -> team.targets]
        /\ stored = team.load
        /\ pc = [t \in Threads |-> IF t \in team.threads \cup Searchers THEN "start" ELSE "done"]
    BY DEF Init
<1>2. /\ at \in {"root", "inner"} /\ ref = at /\ gone = {} /\ on = [t \in Threads |-> at]
      /\ i = [t \in Threads |-> 0] /\ reg = [t \in Threads |-> 0] /\ freed = {}
      /\ events = [s \in Searchers |-> {}] /\ due = {}
    BY DEF Init
<1>3. /\ Capacity \in Nat /\ GrownCapacity \in Nat /\ Capacity < GrownCapacity
      /\ \A u \in Teams :
           /\ u.threads \subseteq Changers /\ IsFiniteSet(u.threads) /\ u.targets \subseteq Keys
           /\ u.load \subseteq Nat \ {0} /\ IsFiniteSet(u.load)
           /\ Added(u) \cap u.load = {} /\ Taken(u) \subseteq u.load
           /\ \/ Cardinality(u.load \cup Added(u)) <= Capacity
              \/ Cardinality(u.load) = Capacity
    BY LockAssumption
<1>4. Cardinality(stored) <= GrownCapacity /\ IsFiniteSet(stored) /\ stored \in SUBSET Nat
    <2> DEFINE T == team.threads \cap Inserters  A == Added(team)  f == [u \in T |-> KeyOf[u]]
               U == team.load \cup A
    <2>1. IsFiniteSet(T)
        BY <1>3, FS_Intersection, Zenon
    <2>2. f \in Surjection(T, A)
        BY DEF Surjection, Added
    <2>3. IsFiniteSet(A)
        BY <2>1, <2>2, FS_Surjection, Zenon
    <2>4. IsFiniteSet(U)
        BY <1>3, <2>3, FS_Union, Zenon
    <2>5. stored \in SUBSET U
        BY <1>1
    <2>6. Cardinality(U) <= Capacity \/ Cardinality(stored) = Capacity
        BY <1>1, <1>3
    <2> HIDE DEF U
    <2>7. Cardinality(stored) <= Cardinality(U)
        BY <2>4, <2>5, FS_Subset
    <2>8. IsFiniteSet(stored) /\ stored \in SUBSET Nat
        BY <1>1, <1>3
    <2>9. Cardinality(stored) \in Nat /\ Cardinality(U) \in Nat
        BY <2>4, <2>8, FS_CardinalityType
    <2> QED BY <1>3, <2>6, <2>7, <2>8, <2>9
<1>5. /\ Sorted(stored) \in [Cells -> Nat] /\ Cardinality(stored) \in 0 .. GrownCapacity
      /\ Holds(Sorted(stored), Upto(Cardinality(stored)), stored)
    BY <1>3, <1>4, SortedHolds
<1>6. node = [n \in Nodes |->
                IF n # at THEN Empty
                ELSE [keys |-> Sorted(stored), children |-> Sorted(stored),
                      count |-> Cardinality(stored)]]
    BY DEF Init, Sorted
<1>7. Empty \in Rows
    <2>1. 0 \in 0 .. GrownCapacity
        BY <1>3
    <2> QED BY <2>1 DEF Empty, Rows
<1>8. node \in [Nodes -> Rows]
    BY <1>5, <1>6, <1>7 DEF Rows
<1>9. Complete(node[ref], stored)
    BY <1>2, <1>5, <1>6, Sorts DEF Complete, Twin
<1>10. \A t \in Threads : pc[t] = "start" \/ pc[t] = "done"
    BY <1>1
<1>11. \A t \in Changers : ~Working(t)
    BY <1>10, Sorts DEF Working
<1>12. Content
    BY <1>9, <1>11, Sorts DEF Content
<1>13. Typed
    <2>1. target \in [Searchers -> Nat \ {0}]
        <3>1. ASSUME NEW k \in Keys PROVE k \in Nat \ {0}
            <4>1. PICK u \in Teams : k \in u.load \cup Added(u)
                BY DEF Keys
            <4>2. k \in Added(u) => k \in Nat \ {0}
                BY Sorts DEF Added
            <4> QED BY <1>3, <4>1, <4>2
        <3> QED BY <1>1, <1>3, <3>1
    <2>2. \A s \in Searchers : pc[s] = "start"
        BY <1>1, Sorts
    <2> QED BY <1>2, <1>8, <1>10, <2>1, <2>2, Sorts DEF Typed, InsertLabels, RemoveLabels, SearchLabels
<1>14. Alone
    BY <1>2, <1>10, <1>11, Sorts DEF Alone
<1>15. Membership
    <2>1. /\ stored \subseteq Nat \ {0} /\ Added(team) \cap stored = {}
          /\ Taken(team) \subseteq stored
        BY <1>1, <1>3
    <2>2. \A t \in Changers : IF t \in team.threads THEN pc[t] = "start" ELSE pc[t] = "done"
        BY <1>1, Sorts
    <2>3. \A t \in Inserters : pc[t] \in {"unlockParent", "done"} \/ KeyOf[t] \notin stored
        BY <2>1, <2>2, Sorts DEF Added
    <2>4. \A t \in Removers : /\ pc[t] = "start" => KeyOf[t] \in stored
                              /\ pc[t] # "free"
        BY <2>1, <2>2, Sorts DEF Taken
    <2>5. \A t \in Changers : i[t] = 0
        BY <1>2, Sorts
    <2>6. \A t \in Changers \ team.threads : pc[t] = "done"
        BY <2>2
    <2>7. stored \subseteq team.load \cup Added(team)
        BY <1>1
    <2> QED BY <1>11, <2>1, <2>3, <2>4, <2>5, <2>6, <2>7, Sorts DEF Membership
<1>16. \A s \in Searchers : ~Active(s) /\ pc[s] = "start"
    BY <1>1, Sorts DEF Active, Reading
<1>17. Freed /\ Found
    BY <1>2, <1>16 DEF Freed, Found, Untouched, FoundBy
<1> QED BY <1>12, <1>13, <1>14, <1>15, <1>17 DEF Sound

LEMMA CellInvariant == Spec => [](IInv /\ Cell)
<1>1. IInv /\ Cell /\ [Next]_vars => (IInv /\ Cell)'
    BY TypesKept, ReadBelowKept, CellKept DEF IInv
<1> QED BY InitIInv, InitCell, <1>1, PTL DEF Spec

-------------------------------------------------------------------------------
(* A node that no change is at work on is sound, if no two changes have    *)
(* overlapped: the shifts, stores and the copy of add_child4(), of         *)
(* add_child16() (ArtCPP.hpp:597) and of remove_child4() compose to a node *)
(* that holds the stored keys in order.                                    *)
THEOREM RestingNodesAreSound == Spec => []NodeAtRestIsSound
<1>1. IInv /\ Cell => NodeAtRestIsSound
    <2> DEFINE n == node[ref]
    <2> SUFFICES ASSUME IInv, Cell, ~clash, ~crashed, \A t \in Changers : ~Working(t)
                 PROVE  /\ n.count = Cardinality(stored)
                        /\ {n.children[j] : j \in 0 .. n.count - 1} = stored
                        /\ \A j \in 0 .. n.count - 1 :
                             /\ n.children[j] = n.keys[j]
                             /\ \A l \in 0 .. j - 1 : n.keys[l] < n.keys[j]
        BY DEF NodeAtRestIsSound
    <2>1. n \in Rows /\ Complete(n, stored)
        BY NobodyAtWork DEF IInv, Cell, Fine
    <2>2. n.count = Cardinality(stored)
        BY <2>1, CountIsCardinality
    <2>3. n.count \in Nat
        BY <2>1, Fields
    <2> HIDE DEF n
    <2>4. \A j \in 0 .. n.count - 1 : n.children[j] = n.keys[j] /\ n.keys[j] \in stored
        BY <2>1 DEF Complete, Holds, Twin, Upto
    <2>5. \A k \in stored : \E j \in 0 .. n.count - 1 : n.keys[j] = k
        BY <2>1 DEF Complete, Holds, Upto
    <2>6. {n.children[j] : j \in 0 .. n.count - 1} = stored
        BY <2>4, <2>5
    <2>7. ASSUME NEW j \in 0 .. n.count - 1, NEW l \in 0 .. j - 1 PROVE n.keys[l] < n.keys[j]
        <3>1. l \in Upto(n.count) /\ j \in Upto(n.count) /\ l < j
            BY <2>3 DEF Upto
        <3> QED BY <2>1, <3>1 DEF Complete, Holds
    <2> QED BY <2>2, <2>4, <2>6, <2>7
<1> QED BY CellInvariant, <1>1, PTL

(* The length of a memmove() of a change that is alone is not negative.    *)
LEMMA MovesAreShort ==
  ASSUME Types, Sound, NEW t \in Changers, MoveKeys(t) \/ MoveChildren(t)
  PROVE  ~(i[t] > Last(t))
<1> DEFINE n == node[on[t]]
<1>1. Working(t) /\ pc[t] \in {"keys", "children"}
    BY DEF MoveKeys, MoveChildren, Working
<1>2. n \in Rows
    BY <1>1, WorkPlace
<1>3. n.count \in Nat
    BY <1>2, Fields
<1>4. CASE t \in Inserters
    <2>1. InsertOK(t)
        BY <1>1, <1>4, AtWork
    <2>2. i[t] \in 0 .. n.count
        BY <1>1, <2>1 DEF InsertOK, Placed, KeysOpened
    <2> QED BY <1>3, <1>4, <2>2 DEF Last, Insert
<1>5. CASE t \in Removers
    <2>1. RemoveOK(t)
        BY <1>1, <1>5, AtWork
    <2>2. i[t] \in Upto(n.count)
        BY <1>1, <2>1 DEF RemoveOK, AtKey, KeysClosed
    <2> QED BY <1>3, <1>5, <2>2, Sorts DEF Last, Insert, Upto
<1> QED BY <1>4, <1>5, Sorts

(* Who crashes is on a freed node, has a freed leaf in its hands, or moves *)
(* less than nothing.                                                      *)
LEMMA CrashStep ==
  ASSUME ~crashed, crashed', NEW t \in Threads, SearchStep(t) \/ InsertStep(t) \/ RemoveStep(t)
  PROVE  /\ clash' = clash /\ gone' = gone /\ events' = events
         /\ \/ gone # {}
            \/ (MoveKeys(t) \/ MoveChildren(t)) /\ i[t] > Last(t)
            \/ pc[t] = "checkLeaf" /\ reg[t] \in freed
<1>1. Stray(t) \/ MoveKeys(t) \/ MoveChildren(t) \/ CompareKey(t)
    BY DEF SearchStep, InsertStep, RemoveStep, ReadRoot, FollowRoot, ReadVersion, Scan, LoadChild,
           Restart, CheckRoot, ReturnNull, IsNodeFull, LockParent, Lock, LockFull, CopyChildren, CopyKeys,
           CopyCount, Publish, FreeNode, Position, SetKey, SetChild, LoadCount, StoreCount,
           Unlock, UnlockParent, StartRemoval, Free, shared
<1>2. clash' = clash /\ gone' = gone /\ events' = events
    BY <1>1 DEF Stray, MoveKeys, MoveChildren, CompareKey, history
<1>3. CASE Stray(t)
    BY <1>2, <1>3 DEF Stray
<1>4. CASE MoveKeys(t) \/ MoveChildren(t)
    <2>1. i[t] > Last(t)
        BY <1>4 DEF MoveKeys, MoveChildren
    <2> QED BY <1>2, <1>4, <2>1
<1>5. CASE CompareKey(t)
    BY <1>2, <1>5 DEF CompareKey
<1> QED BY <1>1, <1>3, <1>4, <1>5

(* The program does not end abnormally but over two changes at once, a     *)
(* removal, which frees a leaf that a search may hold, or a node that has  *)
(* been replaced and freed (ArtCPP.hpp:606): the places and counts of a    *)
(* change that is alone never make the length of a memmove() negative.     *)
THEOREM CrashesNeedOverlap == Spec => []CrashNeedsOverlap
<1>1. Init => CrashNeedsOverlap
    BY DEF Init, CrashNeedsOverlap
<1>2. IInv /\ Cell /\ CrashNeedsOverlap /\ [Next]_vars => CrashNeedsOverlap'
    <2> SUFFICES ASSUME IInv, Cell, CrashNeedsOverlap, [Next]_vars, crashed', ~clash', gone' = {}
                 PROVE  \E s \in Searchers : "removal" \in events'[s]
        BY DEF CrashNeedsOverlap
    <2>1. CASE UNCHANGED vars
        BY <2>1 DEF CrashNeedsOverlap, vars, shared, history
    <2>2. CASE ~crashed /\ Step
        <3>1. PICK t \in Threads : SearchStep(t) \/ InsertStep(t) \/ RemoveStep(t)
            BY <2>2, Sorts DEF Step
        <3>2. Types /\ Sound
            BY <2>2, ClashStays DEF IInv, Cell, Fine
        <3>3. /\ gone = {} /\ events' = events
              /\ \/ (MoveKeys(t) \/ MoveChildren(t)) /\ i[t] > Last(t)
                 \/ pc[t] = "checkLeaf" /\ reg[t] \in freed
            BY <2>2, <3>1, CrashStep
        <3>4. CASE (MoveKeys(t) \/ MoveChildren(t)) /\ i[t] > Last(t)
            <4>1. t \in Changers
                BY <3>2, <3>4, Sorts DEF MoveKeys, MoveChildren, Sound, Typed, SearchLabels
            <4> QED BY <3>2, <3>4, <4>1, MovesAreShort
        <3>5. CASE pc[t] = "checkLeaf" /\ reg[t] \in freed
            <4>1. t \in Searchers
                BY <3>2, <3>5, Sorts DEF Sound, Typed, InsertLabels, RemoveLabels
            <4>2. "removal" \in events[t]
                BY <3>2, <3>3, <3>5, <4>1 DEF Sound, Freed, Untouched, Lost
            <4> QED BY <3>3, <4>1, <4>2
        <3> QED BY <3>3, <3>4, <3>5
    <2> QED BY <2>1, <2>2 DEF Next, End
<1> QED BY CellInvariant, <1>1, <1>2, PTL DEF Spec

(* A search that compares the version as it was has overlapped no insert   *)
(* into a node that was there before (ArtCPP.hpp:129, :161); if it has     *)
(* also overlapped no removal and read no node that is freed or new, its   *)
(* key, which was stored when it began, is found.                          *)
LEMMA MissedStep ==
  ASSUME IInv, Sound, NEW s \in Searchers, s \in due, SearchStep(s), pc'[s] = "missed",
         on[s] \notin gone, events[s] \cap {"removal", "growth"} = {},
         \A t \in Inserters : ~Working(t)
  PROVE  FALSE
<1>1. s \in Threads /\ Types
    BY Sorts DEF IInv
<1>2. ASSUME Reading(s), version[on[s]] = ver[s], pc[s] \in {"checkNull", "checkLeaf"}
      PROVE  Trail(s) /\ target[s] \in stored
    <2>1. "unlock" \notin events[s]
        <3>1. ver[s] \in Nat
            BY <1>1 DEF Types
        <3>2. "unlock" \in events[s] => ver[s] < version[on[s]]
            BY <1>2 DEF IInv, ReadBelow
        <3> QED BY <1>2, <3>1, <3>2
    <2>2. events[s] = {}
        BY <1>1, <2>1 DEF Types
    <2> QED BY <1>2, <2>2 DEF Sound, Found, FoundBy, Active
<1>3. CASE ReturnNull(s)
    <2>1. pc[s] = "checkNull" /\ version[on[s]] = ver[s] /\ Reading(s)
        BY <1>3 DEF ReturnNull, Reading
    <2> QED BY <1>2, <2>1 DEF Trail
<1>4. CASE CompareKey(s)
    <2>1. pc[s] = "checkLeaf" /\ version[on[s]] = ver[s] /\ Reading(s)
        BY <1>4 DEF CompareKey, Reading
    <2>2. reg[s] = target[s] /\ target[s] \in stored
        BY <1>2, <2>1 DEF Trail
    <2>3. reg[s] \notin freed
        BY <2>2 DEF Sound, Freed
    <2>4. pc'[s] = "found"
        BY <1>1, <1>4, <2>2, <2>3, GotoApart DEF CompareKey
    <2> QED BY <2>4
<1>5. CASE Stray(s)
    <2>1. Touched(s) = on[s]
        BY DEF Touched, Sound, Typed, SearchLabels
    <2> QED BY <1>5, <2>1 DEF Stray
<1>6. CASE ReadRoot(s) \/ ReadVersion(s) \/ Scan(s) \/ LoadChild(s) \/ Restart(s) \/ CheckRoot(s)
    <2>1. \/ \E l \in {"version", "start", "full", "checkRoot", "scan", "checkNull", "done", "child",
                       "checkLeaf", "keys", "follow"} : Goto(s, l)
          \/ Scan(s) /\ pc' = pc
        BY <1>6 DEF ReadRoot, ReadVersion, Scan, LoadChild, Restart, CheckRoot
    <2> QED BY <1>1, <2>1, GotoApart DEF Scan
<1> QED BY <1>3, <1>4, <1>5, <1>6 DEF SearchStep

(* The misses that the lock words do not prevent are those that the        *)
(* property lists, and no others: ArtCPP.hpp:129, :161, :606.              *)
THEOREM MissesAreExplained == Spec => MissesExplained
<1> DEFINE Explained ==
      \A s \in Searchers :
        s \in due /\ pc[s] # "missed" /\ pc'[s] = "missed" =>
          \/ clash \/ on[s] \in gone \/ events[s] \cap {"removal", "growth"} # {}
          \/ \E t \in Inserters : Working(t)
<1>1. IInv /\ Cell /\ [Next]_vars => [Explained]_vars
    <2> SUFFICES ASSUME IInv, Cell, Next, ~UNCHANGED vars,
                        NEW s \in Searchers, s \in due, pc[s] # "missed", pc'[s] = "missed",
                        ~clash, on[s] \notin gone, events[s] \cap {"removal", "growth"} = {},
                        \A t \in Inserters : ~Working(t)
                 PROVE  FALSE
        OBVIOUS
    <2>1. ~crashed /\ Step
        BY DEF Next, End
    <2>2. Types /\ Sound
        BY <2>1 DEF IInv, Cell, Fine
    <2>3. ASSUME NEW t \in Threads, t # s, SearchStep(t) \/ InsertStep(t) \/ RemoveStep(t)
          PROVE  FALSE
        <3>1. Apart(t)
            BY <2>2, <2>3, StepApart DEF Sound
        <3> QED BY <2>3, <3>1, Sorts DEF Apart
    <2>4. SearchStep(s)
        BY <2>1, <2>3, Sorts DEF Step
    <2> QED BY <2>2, <2>4, MissedStep
<1> QED BY CellInvariant, <1>1, PTL DEF Spec, MissesExplained
================================================================================
