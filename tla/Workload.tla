------------------------------- MODULE Workload -------------------------------
(***************************************************************************)
(* Transactions, epochs and the garbage collector, as the workload tests   *)
(* put them together (src/Transactions/*, ArtCPP::GC() of                  *)
(* src/ART/ArtCPP.hpp): main starts and collects transactions, each thread *)
(* executes the body of a template, and the epoch thread, which wakes up   *)
(* every 50 ms, collects the keys that have been deleted.                  *)
(*                                                                         *)
(* The tree is taken as ArtTree leaves it: a leaf for each stored key,     *)
(* found or not in one step.  Of a record (see MvccRecord) the steps that  *)
(* the collector can come between are kept: the load of the head, the      *)
(* store of its end, the compare-and-swap.  A leaf is <<k, v>>: its key    *)
(* and the version its record is born with; the version made by the n-th   *)
(* call of transaction t is <<t, n>>.                                      *)
(***************************************************************************)
EXTENDS Integers, Sequences

CONSTANTS Keys,         \* the keys, all loaded before the transactions start
          NTxns,        \* the transactions have the ids 1 .. NTxns
          Bodies,       \* Bodies[t]: the calls in the body of t
          Clean,        \* the keys with a 0 behind them in their leaf
          INF,          \* end_version of a version nobody has ended
          Null          \* no leaf, no version

Txns == 1 .. NTxns

Kinds == {"insert", "update", "delete", "read", "rewrite", "check"}

Loader == 0

Versions == {<<Loader, k>> : k \in Keys}
              \cup UNION {{<<t, n>> : n \in DOMAIN Bodies[t]} : t \in Txns}

Leaves == Keys \X Versions

ASSUME WorkloadAssumption == /\ NTxns \in Nat /\ INF \notin Txns
                             /\ Bodies \in [Txns -> Seq(Kinds) \ {<<>>}]
                             /\ Clean \subseteq Keys
                             /\ Null \notin Leaves \cup Versions

VARIABLES tree,         \* tree[k]: the leaf of key k, or Null
          head,         \* head[l]: the newest version of the record of leaf l
          endv,         \* endv[v]: end_version
          status,       \* TransactionsStatus
          writeSets,    \* ActiveTxnWriteSet: for each transaction, copies of leaves
          active,       \* myEpochGlobal.ActiveEpoch.counter
          past,         \* the counters of myEpochGlobal.EpochsPast
          mine,         \* mine[t]: the counter of myEpoch of transaction t
          gc,           \* where the epoch thread is
          listed,       \* deletionList
          op, pc,       \* op[t]: the call t executes; pc[t]: its next step
          leaf,         \* leaf[t]: the leaf it has found
          expected,     \* expected[t]: the version it has loaded
          wrote, got,   \* the local WriteSet and ReadSet of the body, as keys
          crashed       \* the program has ended abnormally

store == <<tree, head, endv, writeSets>>
epochs == <<active, past, mine>>
collector == <<gc, listed>>
thread == <<op, pc, leaf, expected, wrote, got>>
vars == <<store, status, epochs, collector, thread, crashed>>

-------------------------------------------------------------------------------
Kind(t) == Bodies[t][op[t]]

(* How many calls of its kind the current one of t is.                     *)
Nth(t) == Len(SelectSeq(SubSeq(Bodies[t], 1, op[t]), LAMBDA kind : kind = Kind(t)))

Mine(t) == <<t, op[t]>>

(* The set a "rewrite" or a "check" takes its keys from, one after another.*)
Source(t) == IF Kind(t) = "rewrite" THEN got[t] ELSE wrote[t]

(* The keys the current call of t may be for: a random one, or the next of *)
(* those read or written before.                                           *)
Targets(t) == IF Kind(t) \in {"rewrite", "check"}
                THEN {Source(t)[i] : i \in {Nth(t)} \cap DOMAIN Source(t)}
                ELSE Keys

Running(t) == status[t] = "Active" /\ pc[t] # "done"

Goto(t, l) == pc' = [pc EXCEPT ![t] = l] /\ UNCHANGED op

Return(t) == /\ op' = [op EXCEPT ![t] = @ + 1]
             /\ pc' = [pc EXCEPT ![t] = IF op[t] = Len(Bodies[t]) THEN "done" ELSE "call"]

Init ==
  /\ tree = [k \in Keys |-> <<k, <<Loader, k>>>>]
  /\ head = [l \in Leaves |-> l[2]]
  /\ endv = [v \in Versions |-> INF]
  /\ writeSets = [t \in Txns |-> <<>>]
  /\ status = [t \in Txns |-> "none"]
  /\ active = 0 /\ past = <<>> /\ mine = [t \in Txns |-> 0]
  /\ gc = [at |-> "sleep", txn |-> 1, i |-> 1]
  /\ listed = <<>>
  /\ op = [t \in Txns |-> 1]
  /\ pc = [t \in Txns |-> "call"]
  /\ leaf = [t \in Txns |-> Null]
  /\ expected = [t \in Txns |-> Null]
  /\ wrote = [t \in Txns |-> <<>>]
  /\ got = [t \in Txns |-> <<>>]
  /\ crashed = FALSE

(* The constructor of Transaction: myEpoch is a copy of the active epoch,  *)
(* and the transaction is added to the copy.                               *)
Start(t) ==
  /\ status[t] = "none"
  /\ status' = [status EXCEPT ![t] = "Active"]
  /\ mine' = [mine EXCEPT ![t] = active + 1]
  /\ UNCHANGED <<store, active, past, collector, thread, crashed>>

(* findValueByKey(), in the reading phases of the bodies.                  *)
Find(t) ==
  /\ Running(t) /\ pc[t] = "call" /\ Kind(t) \in {"read", "check"}
  /\ \E k \in Targets(t) :
       got' = IF Kind(t) = "read" /\ tree[k] # Null
                THEN [got EXCEPT ![t] = Append(@, k)] ELSE got
  /\ Return(t)
  /\ UNCHANGED <<store, status, epochs, collector, leaf, expected, wrote, crashed>>

(* A writing call does not find its key: a value is inserted, anything     *)
(* else returns nullptr.                                                   *)
Miss(t) ==
  /\ Running(t) /\ pc[t] = "call" /\ Kind(t) \notin {"read", "check"}
  /\ \E k \in Targets(t) :
       /\ tree[k] = Null
       /\ tree' = IF Kind(t) = "insert" THEN [tree EXCEPT ![k] = <<k, Mine(t)>>] ELSE tree
  /\ Return(t)
  /\ UNCHANGED <<head, endv, writeSets, status, epochs, collector,
                 leaf, expected, wrote, got, crashed>>

(* It finds the leaf of its key.                                           *)
Hit(t) ==
  /\ Running(t) /\ pc[t] = "call" /\ Kind(t) \notin {"read", "check"}
  /\ \E k \in Targets(t) : tree[k] # Null /\ leaf' = [leaf EXCEPT ![t] = tree[k]]
  /\ Goto(t, "load")
  /\ UNCHANGED <<store, status, epochs, collector, expected, wrote, got, crashed>>

(* MvccRecord!Conflict, on the head as it is now.                          *)
Conflict(t) == LET v == head[leaf[t]] IN
               /\ endv[v] # INF
               /\ v[1] \notin {t, Loader}
               /\ status[v[1]] = "Active"

(* The load and the check; update() and deleteMV() retry until it passes.  *)
Load(t) ==
  /\ Running(t) /\ pc[t] = "load"
  /\ ~Conflict(t)
  /\ expected' = [expected EXCEPT ![t] = head[leaf[t]]]
  /\ Goto(t, "stamp")
  /\ UNCHANGED <<store, status, epochs, collector, leaf, wrote, got, crashed>>

(* overwriteMV() returns nullptr, and its caller goes on all the same.     *)
Refused(t) ==
  /\ Running(t) /\ Kind(t) = "insert"
  /\ \/ pc[t] = "load" /\ Conflict(t)
     \/ pc[t] = "cas" /\ head[leaf[t]] # expected[t]
  /\ Goto(t, "push")
  /\ UNCHANGED <<store, status, epochs, collector, leaf, expected, wrote, got, crashed>>

Stamp(t) ==
  /\ Running(t) /\ pc[t] = "stamp"
  /\ endv' = [endv EXCEPT ![expected[t]] = t]
  /\ Goto(t, IF Kind(t) = "delete" THEN "push" ELSE "cas")
  /\ UNCHANGED <<tree, head, writeSets, status, epochs, collector,
                 leaf, expected, wrote, got, crashed>>

Install(t) ==
  /\ Running(t) /\ pc[t] = "cas"
  /\ head[leaf[t]] = expected[t]
  /\ head' = [head EXCEPT ![leaf[t]] = Mine(t)]
  /\ Goto(t, "push")
  /\ UNCHANGED <<tree, endv, writeSets, status, epochs, collector,
                 leaf, expected, wrote, got, crashed>>

LoseRace(t) ==
  /\ Running(t) /\ pc[t] = "cas" /\ Kind(t) # "insert"
  /\ head[leaf[t]] # expected[t]
  /\ Goto(t, "load")
  /\ UNCHANGED <<store, status, epochs, collector, leaf, expected, wrote, got, crashed>>

(* A copy of the leaf goes to the write set that the collector reads; the  *)
(* bodies that update or delete put the tuple they get in their WriteSet.  *)
Push(t) ==
  /\ Running(t) /\ pc[t] = "push"
  /\ writeSets' = [writeSets EXCEPT ![t] = Append(@, leaf[t])]
  /\ wrote' = IF Kind(t) = "insert" THEN wrote ELSE [wrote EXCEPT ![t] = Append(@, leaf[t][1])]
  /\ leaf' = [leaf EXCEPT ![t] = Null]
  /\ expected' = [expected EXCEPT ![t] = Null]
  /\ Return(t)
  /\ UNCHANGED <<tree, head, endv, status, epochs, collector, got, crashed>>

(* What happens is undefined when a leaf is read that has been freed, when *)
(* deleteByKey() ends without a result for a key that is not there, and    *)
(* when a set of the body has less members than are read: either nothing   *)
(* comes of it, as in the actions above, or the program ends.              *)
Crash(t) ==
  /\ Running(t)
  /\ \/ pc[t] \in {"load", "push"} /\ tree[leaf[t][1]] # leaf[t]
     \/ pc[t] = "call" /\ Kind(t) = "delete" /\ \E k \in Keys : tree[k] = Null
     \/ pc[t] = "call" /\ Targets(t) = {}
  /\ crashed' = TRUE
  /\ UNCHANGED <<store, status, epochs, collector, thread>>

(* CollectTransaction(): main joins the thread, commits the transaction,   *)
(* and counts it out of its copy of the epoch.                             *)
Collect(t) ==
  /\ status[t] = "Active" /\ pc[t] = "done"
  /\ status' = [status EXCEPT ![t] = "Committed"]
  /\ mine' = [mine EXCEPT ![t] = @ - 1]
  /\ UNCHANGED <<store, active, past, collector, thread, crashed>>

(* The end of a round of EpochThread(), with the epochs p that are kept.   *)
NewEpoch(p) == past' = Append(p, active) /\ active' = 0

(* EpochThread() wakes up: if no epoch counts a transaction, GC() starts.  *)
Wake ==
  /\ gc.at = "sleep"
  /\ IF active = 0 /\ \A i \in DOMAIN past : past[i] = 0
       THEN /\ gc' = [at |-> "scan", txn |-> 1, i |-> 1]
            /\ UNCHANGED <<active, past>>
       ELSE NewEpoch(past) /\ UNCHANGED gc
  /\ UNCHANGED <<store, status, mine, listed, thread, crashed>>

(* Mutant: the last entry of each write set is not looked at.              *)
ScanShort ==
  /\ gc.at = "scan" /\ gc.txn \in Txns
  /\ IF gc.i < Len(writeSets[gc.txn])
       THEN LET l == writeSets[gc.txn][gc.i] IN
            /\ listed' = IF endv[head[l]] # INF THEN Append(listed, l[1]) ELSE listed
            /\ gc' = [gc EXCEPT !.i = @ + 1]
       ELSE gc' = [gc EXCEPT !.txn = @ + 1, !.i = 1] /\ UNCHANGED listed
  /\ UNCHANGED <<store, status, epochs, thread, crashed>>

(* The first loop of GC(), in the order of the ids: the next entry is      *)
(* listed if the head of its record is ended; its size is read each time.  *)
Scan ==
  /\ gc.at = "scan" /\ gc.txn \in Txns
  /\ IF gc.i <= Len(writeSets[gc.txn])
       THEN LET l == writeSets[gc.txn][gc.i] IN
            /\ listed' = IF endv[head[l]] # INF THEN Append(listed, l[1]) ELSE listed
            /\ gc' = [gc EXCEPT !.i = @ + 1]
       ELSE gc' = [gc EXCEPT !.txn = @ + 1, !.i = 1] /\ UNCHANGED listed
  /\ UNCHANGED <<store, status, epochs, thread, crashed>>

(* Mutant: the leaf that the bytes lead to is not compared with the key.   *)
RemoveUnmatched ==
  /\ gc.at = "scan" /\ gc.txn \notin Txns
  /\ gc.i \in DOMAIN listed
  /\ \E k \in Keys : tree' = [tree EXCEPT ![k] = Null]
  /\ gc' = [gc EXCEPT !.i = @ + 1]
  /\ UNCHANGED <<head, endv, writeSets, status, epochs, listed, thread, crashed>>

(* The second loop: art_deleteGC() takes the leaf of the listed key out of *)
(* the tree and frees it, whatever leaf that is now.  A key that is not    *)
(* clean was copied together with what follows it, and is not found.       *)
Remove ==
  /\ gc.at = "scan" /\ gc.txn \notin Txns
  /\ gc.i \in DOMAIN listed
  /\ LET k == listed[gc.i] IN
     tree' = IF k \in Clean THEN [tree EXCEPT ![k] = Null] ELSE tree
  /\ gc' = [gc EXCEPT !.i = @ + 1]
  /\ UNCHANGED <<head, endv, writeSets, status, epochs, listed, thread, crashed>>

(* Mutant: the epochs of the past are not dropped after a collection.      *)
ClearKeepingEpochs ==
  /\ gc.at = "scan" /\ gc.txn \notin Txns
  /\ gc.i \notin DOMAIN listed
  /\ writeSets' = [t \in Txns |-> <<>>]
  /\ listed' = <<>>
  /\ gc' = [at |-> "sleep", txn |-> 1, i |-> 1]
  /\ NewEpoch(past)
  /\ UNCHANGED <<tree, head, endv, status, mine, thread, crashed>>

(* The end of GC(), and of the round.                                      *)
Clear ==
  /\ gc.at = "scan" /\ gc.txn \notin Txns
  /\ gc.i \notin DOMAIN listed
  /\ writeSets' = [t \in Txns |-> <<>>]
  /\ listed' = <<>>
  /\ gc' = [at |-> "sleep", txn |-> 1, i |-> 1]
  /\ NewEpoch(<<>>)
  /\ UNCHANGED <<tree, head, endv, status, mine, thread, crashed>>

Body(t) == \/ Find(t) \/ Miss(t) \/ Hit(t) \/ Load(t) \/ Refused(t) \/ Stamp(t)
           \/ Install(t) \/ LoseRace(t) \/ Push(t) \/ Crash(t)

Main == \E t \in Txns : Start(t) \/ Collect(t)

EpochThread == Wake \/ Scan \/ Remove \/ Clear

Next == /\ ~crashed
        /\ Main \/ EpochThread \/ \E t \in Txns : Body(t)

Spec == Init /\ [][Next]_vars

(* The epoch thread runs for ever.                                         *)
FairSpec == Spec /\ WF_vars(~crashed /\ EpochThread)
-------------------------------------------------------------------------------
(* Besides the types: a leaf is stored under its own key, and the list of  *)
(* past epochs does not grow, whatever transactions come and go, because   *)
(* every round of the epoch thread ends in a collection.                   *)
TypeOK ==
  /\ \A k \in Keys : tree[k] = Null \/ (tree[k] \in Leaves /\ tree[k][1] = k)
  /\ head \in [Leaves -> Versions]
  /\ endv \in [Versions -> Txns \cup {INF}]
  /\ status \in [Txns -> {"none", "Active", "Committed"}]
  /\ writeSets \in [Txns -> Seq(Leaves)]
  /\ active = 0 /\ past \in {<<>>, <<0>>} /\ mine \in [Txns -> {0, 1}]
  /\ gc \in [at : {"sleep", "scan"}, txn : 1 .. NTxns + 1, i : Nat]
  /\ listed \in Seq(Keys)
  /\ pc \in [Txns -> {"call", "load", "stamp", "cas", "push", "done"}]
  /\ \A t \in Txns : op[t] \in 1 .. Len(Bodies[t]) + 1
  /\ leaf \in [Txns -> Leaves \cup {Null}]
  /\ expected \in [Txns -> Versions \cup {Null}]
  /\ wrote \in [Txns -> Seq(Keys)] /\ got \in [Txns -> Seq(Keys)]
  /\ crashed \in BOOLEAN

(* No transaction has ended or replaced the loaded version of key k.       *)
Untouched(k) == head[<<k, <<Loader, k>>>>] = <<Loader, k>> /\ endv[<<Loader, k>>] = INF

(* A key is not collected unless a transaction has ended its version, or   *)
(* at least begun to: whatever copies of leaves the write sets hold, from  *)
(* calls that were refused or from before a key was collected and inserted *)
(* again, and however old the list is by which the keys are removed        *)
(* (ArtCPP.hpp:1878-1906).                                                 *)
UntouchedKeysStay == \A k \in Keys : Untouched(k) => tree[k] = <<k, <<Loader, k>>>>

Ended(k) == tree[k] # Null /\ endv[head[tree[k]]] # INF

(* Key k waits for the next collection, which will find it.                *)
Due(k) == /\ gc.at = "sleep"
          /\ Ended(k)
          /\ \E t \in Txns : \E i \in DOMAIN writeSets[t] : writeSets[t][i] = tree[k]

(* A deleted key that is in a write set when no collection is going on is  *)
(* taken out of the tree, or written again, in the end.  It would not be   *)
(* if it had got there during a collection: the entries that come between  *)
(* the loop and the clearing of the write sets (ArtCPP.hpp:1901) are lost. *)
DeletedAreCollected == \A k \in Clean : Due(k) ~> ~Ended(k) \/ crashed

(* "80% updates stored in WriteSet while reading randomly 20% of the write *)
(* set keys to evaluate if the updates were correct" (src/WorkloadTests/   *)
(* UpdateIntensiveGC.cpp:78): where nothing is deleted, a transaction      *)
(* finds the keys it has written.                                          *)
OwnWritesFound ==
  [][\A t \in Txns : Find(t) /\ Kind(t) = "check" =>
       \E k \in Targets(t) : tree[k] # Null]_vars
===============================================================================
