---------------------------- MODULE WorkloadProofs -----------------------------
(* Proofs about Workload, for any keys, any number of transactions and any *)
(* bodies: the types, with the bound on the list of epochs, and that only  *)
(* keys that a transaction has ended are collected.                        *)
EXTENDS Workload, SequenceTheorems, TLAPS

Steps == {"call", "load", "stamp", "cas", "push", "done"}

(* Where a thread is: in a call of its body, with the leaf and the version *)
(* that its next steps use.                                                *)
AtWork(t) ==
  /\ op[t] \in 1 .. Len(Bodies[t]) + 1
  /\ pc[t] # "done" => op[t] \in DOMAIN Bodies[t]
  /\ pc[t] \in {"load", "stamp", "cas", "push"} => leaf[t] \in Leaves
  /\ pc[t] \in {"stamp", "cas"} => expected[t] \in Versions

ThreadTypes ==
  /\ op \in [Txns -> Nat] /\ pc \in [Txns -> Steps]
  /\ leaf \in [Txns -> Leaves \cup {Null}] /\ expected \in [Txns -> Versions \cup {Null}]
  /\ wrote \in [Txns -> Seq(Keys)] /\ got \in [Txns -> Seq(Keys)]
  /\ \A t \in Txns : AtWork(t)

StoreTypes ==
  /\ tree = [k \in Keys |-> tree[k]]
  /\ \A k \in Keys : tree[k] = Null \/ (tree[k] \in Leaves /\ tree[k][1] = k)
  /\ head \in [Leaves -> Versions]
  /\ endv \in [Versions -> Txns \cup {INF}]
  /\ writeSets \in [Txns -> Seq(Leaves)]

(* A transaction counts in its own copy of the epoch while it is active.   *)
MainTypes ==
  /\ status \in [Txns -> {"none", "Active", "Committed"}]
  /\ mine \in [Txns -> {0, 1}] /\ crashed \in BOOLEAN
  /\ \A t \in Txns : status[t] = "Active" => mine[t] = 1

GcTypes ==
  /\ active = 0 /\ past \in {<<>>, <<0>>}
  /\ gc \in [at : {"sleep", "scan"}, txn : 1 .. NTxns + 1, i : Nat \ {0}]
  /\ listed \in Seq(Keys)

Types == ThreadTypes /\ StoreTypes /\ MainTypes /\ GcTypes

-------------------------------------------------------------------------------
LEMMA BodyLength ==
  ASSUME NEW t \in Txns
  PROVE  /\ Len(Bodies[t]) \in Nat \ {0} /\ DOMAIN Bodies[t] = 1 .. Len(Bodies[t])
         /\ \A n \in DOMAIN Bodies[t] : <<t, n>> \in Versions
<1>1. Bodies[t] \in Seq(Kinds) \ {<<>>}
    BY WorkloadAssumption DEF WorkloadAssumption
<1>2. Len(Bodies[t]) \in Nat \ {0} /\ DOMAIN Bodies[t] = 1 .. Len(Bodies[t])
    BY <1>1, EmptySeq, LenProperties
<1> QED BY <1>2 DEF Versions

LEMMA LoadedLeaf ==
  ASSUME NEW k \in Keys
  PROVE  <<Loader, k>> \in Versions /\ <<k, <<Loader, k>>>> \in Leaves
BY DEF Versions, Leaves

(* Calls are for keys.                                                     *)
LEMMA TargetsAreKeys ==
  ASSUME ThreadTypes, NEW t \in Txns
  PROVE  Targets(t) \subseteq Keys
<1>1. Source(t) \in Seq(Keys)
    BY DEF ThreadTypes, Source
<1> QED BY <1>1 DEF Targets

LEMMA InitTypes == Init => Types
<1> SUFFICES ASSUME Init PROVE Types
    OBVIOUS
<1> USE DEF Init
<1>1. NTxns \in Nat
    BY WorkloadAssumption DEF WorkloadAssumption
<1>2. ThreadTypes
    <2>1. \A t \in Txns : AtWork(t)
        BY BodyLength DEF AtWork
    <2> QED BY <2>1 DEF ThreadTypes, Steps
<1>3. StoreTypes
    <2>1. \A k \in Keys : <<k, <<Loader, k>>>> \in Leaves
        BY LoadedLeaf
    <2>2. head \in [Leaves -> Versions]
        BY DEF Leaves
    <2> QED BY <2>1, <2>2 DEF StoreTypes
<1>4. MainTypes
    BY DEF MainTypes
<1>5. GcTypes
    BY <1>1 DEF GcTypes
<1> QED BY <1>2, <1>3, <1>4, <1>5 DEF Types

-------------------------------------------------------------------------------
(* A call returns: the next one begins, or the body has come to its end.   *)
LEMMA Returns ==
  ASSUME ThreadTypes, NEW t \in Txns, pc[t] # "done", Return(t)
  PROVE  /\ op' \in [Txns -> Nat] /\ pc' \in [Txns -> Steps]
         /\ op'[t] \in 1 .. Len(Bodies[t]) + 1
         /\ pc'[t] \in {"call", "done"} /\ (pc'[t] # "done" => op'[t] \in DOMAIN Bodies[t])
         /\ \A u \in Txns \ {t} : pc'[u] = pc[u] /\ op'[u] = op[u]
BY BodyLength DEF ThreadTypes, AtWork, Return, Steps

(* A call goes on with another step.                                       *)
LEMMA GoesOn ==
  ASSUME ThreadTypes, NEW t \in Txns, NEW l \in Steps, Goto(t, l)
  PROVE  /\ op' = op /\ pc' \in [Txns -> Steps] /\ pc'[t] = l
         /\ \A u \in Txns \ {t} : pc'[u] = pc[u]
BY DEF Goto, ThreadTypes

LEMMA ThreadTypesHold ==
  ASSUME Types, NEW t \in Txns, Body(t)
  PROVE  ThreadTypes'
<1> USE DEF Types
<1>0. AtWork(t) /\ Len(Bodies[t]) \in Nat
    BY BodyLength DEF ThreadTypes
<1>1. CASE Find(t)
    <2>1. got' \in [Txns -> Seq(Keys)]
        BY <1>1, TargetsAreKeys DEF Find, ThreadTypes
    <2>2. ASSUME NEW u \in Txns PROVE AtWork(u)'
        BY <1>1, <2>2, Returns DEF Find, ThreadTypes, AtWork
    <2> QED BY <1>1, <2>1, <2>2, Returns DEF Find, ThreadTypes
<1>2. CASE Miss(t)
    <2>2. ASSUME NEW u \in Txns PROVE AtWork(u)'
        BY <1>2, <2>2, Returns DEF Miss, ThreadTypes, AtWork
    <2> QED BY <1>2, <2>2, Returns DEF Miss, ThreadTypes
<1>3. CASE Hit(t)
    <2>1. PICK k \in Keys : tree[k] \in Leaves /\ leaf' = [leaf EXCEPT ![t] = tree[k]]
        BY <1>3, TargetsAreKeys DEF Hit, StoreTypes
    <2>2. ASSUME NEW u \in Txns PROVE AtWork(u)'
        BY <1>0, <1>3, <2>1, <2>2, GoesOn DEF Hit, ThreadTypes, AtWork, Steps
    <2> QED BY <1>3, <2>1, <2>2, GoesOn DEF Hit, ThreadTypes, Steps
<1>4. CASE Load(t)
    <2>1. head[leaf[t]] \in Versions
        BY <1>0, <1>4 DEF Load, AtWork, StoreTypes
    <2>2. ASSUME NEW u \in Txns PROVE AtWork(u)'
        BY <1>0, <1>4, <2>1, <2>2, GoesOn DEF Load, ThreadTypes, AtWork, Steps
    <2> QED BY <1>4, <2>1, <2>2, GoesOn DEF Load, ThreadTypes, Steps
<1>5. CASE Refused(t)
    <2>2. ASSUME NEW u \in Txns PROVE AtWork(u)'
        BY <1>0, <1>5, <2>2, GoesOn DEF Refused, ThreadTypes, AtWork, Steps
    <2> QED BY <1>5, <2>2, GoesOn DEF Refused, ThreadTypes, Steps
<1>6. CASE Stamp(t)
    <2>2. ASSUME NEW u \in Txns PROVE AtWork(u)'
        BY <1>0, <1>6, <2>2, GoesOn DEF Stamp, ThreadTypes, AtWork, Steps
    <2> QED BY <1>6, <2>2, GoesOn DEF Stamp, ThreadTypes, Steps
<1>7. CASE Install(t)
    <2>2. ASSUME NEW u \in Txns PROVE AtWork(u)'
        BY <1>0, <1>7, <2>2, GoesOn DEF Install, ThreadTypes, AtWork, Steps
    <2> QED BY <1>7, <2>2, GoesOn DEF Install, ThreadTypes, Steps
<1>8. CASE LoseRace(t)
    <2>2. ASSUME NEW u \in Txns PROVE AtWork(u)'
        BY <1>0, <1>8, <2>2, GoesOn DEF LoseRace, ThreadTypes, AtWork, Steps
    <2> QED BY <1>8, <2>2, GoesOn DEF LoseRace, ThreadTypes, Steps
<1>9. CASE Push(t)
    <2>1. wrote' \in [Txns -> Seq(Keys)]
        <3>1. leaf[t][1] \in Keys
            BY <1>0, <1>9 DEF Push, AtWork, Leaves
        <3> QED BY <1>9, <3>1 DEF Push, ThreadTypes
    <2>2. ASSUME NEW u \in Txns PROVE AtWork(u)'
        BY <1>0, <1>9, <2>2, Returns DEF Push, ThreadTypes, AtWork
    <2> QED BY <1>9, <2>1, <2>2, Returns DEF Push, ThreadTypes
<1>10. CASE Crash(t)
    BY <1>10 DEF Crash, thread, ThreadTypes, AtWork
<1> QED BY <1>1, <1>2, <1>3, <1>4, <1>5, <1>6, <1>7, <1>8, <1>9, <1>10 DEF Body

LEMMA StoreTypesHold ==
  ASSUME Types, NEW t \in Txns, Body(t)
  PROVE  StoreTypes'
<1> USE DEF Types
<1>0. AtWork(t)
    BY DEF ThreadTypes
<1>1. CASE Find(t) \/ Hit(t) \/ Load(t) \/ Refused(t) \/ LoseRace(t) \/ Crash(t)
    BY <1>1 DEF Find, Hit, Load, Refused, LoseRace, Crash, store, StoreTypes
<1>2. CASE Miss(t)
    <2>1. Mine(t) \in Versions
        BY <1>0, <1>2, BodyLength DEF Miss, AtWork, Mine
    <2>2. PICK k \in Keys : tree' = IF Kind(t) = "insert"
                                      THEN [tree EXCEPT ![k] = <<k, Mine(t)>>] ELSE tree
        BY <1>2, TargetsAreKeys DEF Miss
    <2> QED BY <1>2, <2>1, <2>2 DEF Miss, StoreTypes, Leaves
<1>3. CASE Stamp(t)
    BY <1>0, <1>3 DEF Stamp, AtWork, StoreTypes
<1>4. CASE Install(t)
    <2>1. Mine(t) \in Versions
        BY <1>0, <1>4, BodyLength DEF Install, AtWork, Mine
    <2> QED BY <1>0, <1>4, <2>1 DEF Install, AtWork, StoreTypes
<1>5. CASE Push(t)
    <2>1. writeSets' \in [Txns -> Seq(Leaves)]
        BY <1>0, <1>5 DEF Push, AtWork, StoreTypes
    <2> QED BY <1>5, <2>1 DEF Push, StoreTypes
<1> QED BY <1>1, <1>2, <1>3, <1>4, <1>5 DEF Body

LEMMA EpochThreadTypesHold ==
  ASSUME Types, EpochThread
  PROVE  GcTypes' /\ StoreTypes'
<1> USE DEF Types
<1>0. NTxns \in Nat /\ Txns = 1 .. NTxns
    BY WorkloadAssumption DEF WorkloadAssumption, Txns
<1>1. CASE Wake
    <2>1. active = 0 /\ \A i \in DOMAIN past : past[i] = 0
        BY DEF GcTypes
    <2> QED BY <1>0, <1>1, <2>1 DEF Wake, GcTypes, StoreTypes, store
<1>2. CASE Scan
    <2>1. /\ gc.at = "scan" /\ gc.txn \in Txns /\ gc.i \in Nat \ {0}
          /\ writeSets[gc.txn] \in Seq(Leaves)
        BY <1>2 DEF Scan, GcTypes, StoreTypes
    <2>2. \/ gc' = [gc EXCEPT !.i = @ + 1]
          \/ gc' = [gc EXCEPT !.txn = @ + 1, !.i = 1]
        BY <1>2 DEF Scan
    <2>3. gc' \in [at : {"sleep", "scan"}, txn : 1 .. NTxns + 1, i : Nat \ {0}]
        <3>1. gc \in [at : {"sleep", "scan"}, txn : 1 .. NTxns + 1, i : Nat \ {0}]
            BY DEF GcTypes
        <3>2. CASE gc' = [gc EXCEPT !.i = @ + 1]
            BY <2>1, <3>1, <3>2
        <3>3. CASE gc' = [gc EXCEPT !.txn = @ + 1, !.i = 1]
            <4>1. gc.txn + 1 \in 1 .. NTxns + 1
                BY <1>0, <2>1
            <4>2. gc' = [at |-> gc.at, txn |-> gc.txn + 1, i |-> 1]
                BY <3>1, <3>3
            <4> QED BY <2>1, <4>1, <4>2
        <3> QED BY <2>2, <3>2, <3>3
    <2>4. listed' \in Seq(Keys)
        <3>1. CASE gc.i <= Len(writeSets[gc.txn])
            <4>1. writeSets[gc.txn][gc.i] \in Leaves
                BY <2>1, <3>1, ElementOfSeq
            <4>2. writeSets[gc.txn][gc.i][1] \in Keys
                BY <4>1 DEF Leaves
            <4>3. listed' = listed \/ listed' = Append(listed, writeSets[gc.txn][gc.i][1])
                BY <1>2, <3>1 DEF Scan
            <4> QED BY <4>2, <4>3 DEF GcTypes
        <3>2. CASE ~(gc.i <= Len(writeSets[gc.txn]))
            BY <1>2, <3>2 DEF Scan, GcTypes
        <3> QED BY <3>1, <3>2
    <2> QED BY <1>2, <2>3, <2>4 DEF Scan, GcTypes, StoreTypes, store, epochs
<1>3. CASE Remove
    <2>1. gc' = [gc EXCEPT !.i = @ + 1]
        BY <1>3 DEF Remove
    <2>2. gc' \in [at : {"sleep", "scan"}, txn : 1 .. NTxns + 1, i : Nat \ {0}]
        BY <2>1 DEF GcTypes
    <2>3. StoreTypes'
        <3>1. PICK k : tree' = [tree EXCEPT ![k] = Null] \/ tree' = tree
            BY <1>3 DEF Remove
        <3> QED BY <1>3, <3>1 DEF Remove, StoreTypes
    <2> QED BY <1>3, <2>2, <2>3 DEF Remove, GcTypes, epochs
<1>4. CASE Clear
    BY <1>0, <1>4 DEF Clear, NewEpoch, GcTypes, StoreTypes
<1> QED BY <1>1, <1>2, <1>3, <1>4 DEF EpochThread

LEMMA NextTypes == Types /\ [Next]_vars => Types'
<1> SUFFICES ASSUME Types, [Next]_vars PROVE Types'
    OBVIOUS
<1> USE DEF Types
<1>1. ASSUME NEW t \in Txns, Body(t) PROVE Types'
    <2>1. UNCHANGED <<epochs, collector, status>> /\ crashed' \in BOOLEAN
        BY <1>1 DEF Body, Find, Miss, Hit, Load, Refused, Stamp, Install, LoseRace, Push, Crash,
                    MainTypes
    <2>2. MainTypes' /\ GcTypes'
        BY <2>1 DEF MainTypes, GcTypes, epochs, collector
    <2> QED BY <1>1, <2>2, ThreadTypesHold, StoreTypesHold
<1>2. ASSUME NEW t \in Txns, Start(t) \/ Collect(t) PROVE Types'
    <2>1. UNCHANGED <<store, active, past, collector, thread>>
        BY <1>2 DEF Start, Collect
    <2>2. ThreadTypes' /\ StoreTypes' /\ GcTypes'
        BY <2>1 DEF ThreadTypes, AtWork, StoreTypes, GcTypes, store, collector, thread
    <2>3. MainTypes'
        BY <1>2, SMTT(30) DEF Start, Collect, MainTypes, GcTypes
    <2> QED BY <2>2, <2>3
<1>3. CASE EpochThread
    <2>1. UNCHANGED <<status, mine, thread, crashed>>
        BY <1>3 DEF EpochThread, Wake, Scan, Remove, Clear, epochs
    <2>2. ThreadTypes' /\ MainTypes'
        BY <2>1 DEF ThreadTypes, AtWork, MainTypes, thread
    <2> QED BY <1>3, <2>2, EpochThreadTypesHold
<1>4. CASE UNCHANGED vars
    BY <1>4 DEF vars, store, epochs, collector, thread,
                ThreadTypes, AtWork, StoreTypes, MainTypes, GcTypes
<1> QED BY <1>1, <1>2, <1>3, <1>4 DEF Next, Main

THEOREM TypesInvariant == Spec => []Types
BY InitTypes, NextTypes, PTL DEF Spec

(* The types; every leaf is stored under its own key, and whatever         *)
(* transactions come and go the list of past epochs has one entry at most  *)
(* (GlobalEpoch.hpp:69-100).                                               *)
THEOREM TypeCorrect == Spec => []TypeOK
<1>1. Types => TypeOK
    <2> SUFFICES ASSUME Types PROVE TypeOK
        OBVIOUS
    <2>1. \A t \in Txns : op[t] \in 1 .. Len(Bodies[t]) + 1
        BY DEF Types, ThreadTypes, AtWork
    <2> QED BY <2>1 DEF Types, ThreadTypes, StoreTypes, MainTypes, GcTypes, TypeOK, Steps
<1> QED BY <1>1, TypesInvariant, PTL

-------------------------------------------------------------------------------
(* The leaf that key k was loaded with.                                    *)
First(k) == <<k, <<Loader, k>>>>

(* A leaf that somebody holds is the loaded one, if its key is untouched.  *)
Own(l) == Untouched(l[1]) => l = First(l[1])

Held(t) == pc[t] \in {"load", "stamp", "cas", "push"} => Own(leaf[t])

Kept ==
  /\ UntouchedKeysStay
  /\ \A i \in DOMAIN listed : ~Untouched(listed[i])
  /\ \A t \in Txns : Held(t)
  /\ \A t \in Txns : \A i \in DOMAIN writeSets[t] : Own(writeSets[t][i])

LEMMA InitKept == Init => Kept
<1> SUFFICES ASSUME Init PROVE Kept
    OBVIOUS
<1>1. \A t \in Txns : Held(t) /\ DOMAIN writeSets[t] = {}
    BY DEF Init, Held
<1>2. DOMAIN listed = {}
    BY DEF Init
<1> QED BY <1>1, <1>2 DEF Init, Kept, UntouchedKeysStay

(* What has been ended or replaced is not restored.                        *)
LEMMA TouchedStays ==
  ASSUME Types, [Next]_vars, NEW k \in Keys, Untouched(k)'
  PROVE  Untouched(k)
<1>1. /\ First(k) \in Leaves /\ <<Loader, k>> \in Versions
      /\ head \in [Leaves -> Versions] /\ endv \in [Versions -> Txns \cup {INF}]
    BY LoadedLeaf DEF First, Types, StoreTypes
<1>2. endv[<<Loader, k>>] = INF
    <2>1. CASE endv' = endv
        BY <2>1 DEF Untouched
    <2>2. ASSUME NEW t \in Txns, Stamp(t) PROVE endv[<<Loader, k>>] = INF
        BY <1>1, <2>2, WorkloadAssumption DEF WorkloadAssumption, Stamp, Untouched
    <2>3. endv' = endv \/ \E t \in Txns : Stamp(t)
        BY DEF Next, Main, EpochThread, Body, Start, Find, Miss, Hit, Load, Refused, Install,
               LoseRace, Push, Crash, Collect, Wake, Scan, Remove, Clear, vars, store
    <2> QED BY <2>1, <2>2, <2>3
<1>3. head[First(k)] = <<Loader, k>>
    <2>1. CASE head' = head
        BY <2>1 DEF Untouched, First
    <2>2. ASSUME NEW t \in Txns, Install(t) PROVE head[First(k)] = <<Loader, k>>
        <3>1. Mine(t) # <<Loader, k>>
            BY DEF Mine, Loader, Txns
        <3> QED BY <1>1, <2>2, <3>1 DEF Install, Untouched, First
    <2>3. head' = head \/ \E t \in Txns : Install(t)
        BY DEF Next, Main, EpochThread, Body, Start, Find, Miss, Hit, Load, Refused, Stamp,
               LoseRace, Push, Crash, Collect, Wake, Scan, Remove, Clear, vars, store
    <2> QED BY <2>1, <2>2, <2>3
<1> QED BY <1>2, <1>3 DEF Untouched, First

(* The collector lists no untouched key.                                   *)
LEMMA ScanKept ==
  ASSUME Types, Kept, Scan, NEW i \in DOMAIN listed'
  PROVE  ~Untouched(listed'[i])
<1> DEFINE l == writeSets[gc.txn][gc.i]
<1>0. listed \in Seq(Keys)
    BY DEF Types, GcTypes
<1>1. CASE listed' = listed
    BY <1>1 DEF Kept
<1>2. CASE listed' # listed
    <2>1. /\ gc.txn \in Txns /\ gc.i \in Nat \ {0} /\ gc.i <= Len(writeSets[gc.txn])
          /\ endv[head[l]] # INF /\ listed' = Append(listed, l[1])
        BY <1>2 DEF Scan, Types, GcTypes
    <2>2. writeSets[gc.txn] \in Seq(Leaves)
        BY <2>1 DEF Types, StoreTypes
    <2>3. gc.i \in DOMAIN writeSets[gc.txn] /\ l \in Leaves
        BY <2>1, <2>2, LenProperties, ElementOfSeq
    <2>4. Own(l) /\ l[1] \in Keys
        BY <2>1, <2>3 DEF Kept, Leaves
    <2>5. ~Untouched(l[1])
        BY <2>1, <2>4 DEF Own, Untouched, First
    <2>6. (i \in DOMAIN listed /\ listed'[i] = listed[i]) \/ listed'[i] = l[1]
        BY <1>0, <2>1, <2>4, AppendProperties
    <2> QED BY <2>5, <2>6 DEF Kept
<1> QED BY <1>1, <1>2

LEMMA KeptStep ==
  ASSUME Types, Types', Kept, [Next]_vars
  PROVE  Kept'
<1>0. \A k \in Keys : Untouched(k)' => Untouched(k)
    BY TouchedStays
<1>1. ASSUME NEW k \in Keys, Untouched(k)' PROVE tree'[k] = First(k)
    <2>1. tree[k] = First(k) /\ First(k) # Null /\ Untouched(k)
        BY <1>0, <1>1, LoadedLeaf, WorkloadAssumption
           DEF WorkloadAssumption, Kept, UntouchedKeysStay, First
    <2>2. CASE tree' = tree
        BY <2>1, <2>2
    <2>3. ASSUME NEW t \in Txns, Miss(t) PROVE tree'[k] = First(k)
        BY <2>1, <2>3 DEF Miss, Types, StoreTypes
    <2>4. CASE Remove
        BY <2>1, <2>4 DEF Remove, Kept, Types, StoreTypes
    <2>5. tree' = tree \/ Remove \/ \E t \in Txns : Miss(t)
        BY DEF Next, Main, EpochThread, Body, Start, Find, Hit, Load, Refused, Stamp, Install,
               LoseRace, Push, Crash, Collect, Wake, Scan, Clear, vars, store
    <2> QED BY <2>2, <2>3, <2>4, <2>5
<1>2. ASSUME NEW i \in DOMAIN listed' PROVE ~Untouched(listed[i])'
    <2>0. listed' \in Seq(Keys) /\ listed'[i] \in Keys
        BY <1>2 DEF Types, GcTypes
    <2>1. CASE listed' = listed
        BY <1>0, <1>2, <2>0, <2>1 DEF Kept
    <2>2. CASE Scan
        BY <1>0, <1>2, <2>0, <2>2, ScanKept
    <2>3. CASE Clear
        BY <1>2, <2>3 DEF Clear
    <2>4. listed' = listed \/ Scan \/ Clear
        BY DEF Next, Main, EpochThread, Body, Start, Find, Miss, Hit, Load, Refused, Stamp, Install,
               LoseRace, Push, Crash, Collect, Wake, Remove, vars, collector
    <2> QED BY <2>1, <2>2, <2>3, <2>4
<1>3. ASSUME NEW l \in Leaves, Own(l) PROVE Own(l)'
    BY <1>0, <1>3 DEF Own, Leaves, First
<1>4. ASSUME NEW t \in Txns PROVE Held(t)'
    <2>1. CASE pc'[t] = pc[t] /\ leaf'[t] = leaf[t]
        BY <1>3, <2>1 DEF Kept, Held, Types, ThreadTypes, AtWork
    <2>2. CASE pc'[t] \in {"call", "done"}
        BY <2>2 DEF Held
    <2>3. CASE Hit(t)
        <3>1. PICK k \in Keys : tree[k] \in Leaves /\ tree[k][1] = k /\ leaf'[t] = tree[k]
            BY <2>3, TargetsAreKeys DEF Hit, Types, ThreadTypes, StoreTypes
        <3>2. Own(tree[k])
            BY <3>1 DEF Own, Kept, UntouchedKeysStay, First
        <3> QED BY <1>3, <3>1, <3>2 DEF Held
    <2>4. CASE pc[t] \in {"load", "stamp", "cas", "push"} /\ leaf'[t] = leaf[t]
        BY <1>3, <2>4 DEF Kept, Held, Types, ThreadTypes, AtWork
    <2>5. \/ pc'[t] = pc[t] /\ leaf'[t] = leaf[t]
          \/ pc'[t] \in {"call", "done"}
          \/ Hit(t)
          \/ pc[t] \in {"load", "stamp", "cas", "push"} /\ leaf'[t] = leaf[t]
        <3>1. ASSUME NEW u \in Txns, u # t, Body(u)
              PROVE  pc'[t] = pc[t] /\ leaf'[t] = leaf[t]
            BY <3>1 DEF Types, ThreadTypes, Body, Find, Miss, Hit, Load, Refused, Stamp, Install,
                        LoseRace, Push, Crash, Goto, Return, thread
        <3>2. CASE Body(t)
            BY <3>2 DEF Types, ThreadTypes, Body, Find, Miss, Load, Refused, Stamp, Install,
                        LoseRace, Push, Crash, Return, thread
        <3>3. CASE UNCHANGED vars \/ Main \/ EpochThread
            BY <3>3 DEF Main, Start, Collect, EpochThread, Wake, Scan, Remove, Clear, vars, thread
        <3> QED BY <3>1, <3>2, <3>3 DEF Next
    <2> QED BY <2>1, <2>2, <2>3, <2>4, <2>5
<1>5. ASSUME NEW t \in Txns, NEW i \in DOMAIN writeSets'[t] PROVE Own(writeSets[t][i])'
    <2>0. /\ writeSets[t] \in Seq(Leaves) /\ writeSets'[t] \in Seq(Leaves)
          /\ writeSets'[t][i] \in Leaves
        BY <1>5 DEF Types, StoreTypes
    <2>1. CASE writeSets' = writeSets
        BY <1>3, <1>5, <2>0, <2>1 DEF Kept
    <2>2. ASSUME NEW u \in Txns, Push(u) PROVE Own(writeSets[t][i])'
        <3>1. leaf[u] \in Leaves /\ Own(leaf[u])
            BY <2>2 DEF Push, Kept, Held, Types, ThreadTypes, AtWork
        <3>2. \/ i \in DOMAIN writeSets[t] /\ writeSets'[t][i] = writeSets[t][i]
              \/ writeSets'[t][i] = leaf[u]
            <4>1. CASE u # t
                BY <1>5, <2>2, <4>1 DEF Push, Types, StoreTypes
            <4>2. CASE u = t
                <5>1. writeSets'[t] = Append(writeSets[t], leaf[u])
                    BY <2>2, <4>2 DEF Push, Types, StoreTypes
                <5> QED BY <1>5, <2>0, <3>1, <5>1, AppendProperties
            <4> QED BY <4>1, <4>2
        <3> QED BY <1>3, <2>0, <3>1, <3>2 DEF Kept
    <2>3. CASE Clear
        BY <1>5, <2>3 DEF Clear
    <2>4. writeSets' = writeSets \/ Clear \/ \E u \in Txns : Push(u)
        BY DEF Next, Main, EpochThread, Body, Start, Find, Miss, Hit, Load, Refused, Stamp, Install,
               LoseRace, Crash, Collect, Wake, Scan, Remove, vars, store
    <2> QED BY <2>1, <2>2, <2>3, <2>4
<1>6. UntouchedKeysStay'
    BY <1>1 DEF UntouchedKeysStay, First
<1> QED BY <1>2, <1>4, <1>5, <1>6 DEF Kept

(* The collector, which runs beside all transactions, takes away only keys *)
(* whose loaded version a transaction has ended or replaced.               *)
THEOREM UntouchedStay == Spec => []UntouchedKeysStay
<1>1. Kept => UntouchedKeysStay
    BY DEF Kept
<1>2. Types /\ Types' /\ Kept /\ [Next]_vars => Kept'
    BY KeptStep
<1> QED BY <1>1, <1>2, InitKept, TypesInvariant, PTL DEF Spec
===============================================================================
