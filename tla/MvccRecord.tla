------------------------------ MODULE MvccRecord ------------------------------
(***************************************************************************)
(* mvcc11::mvcc (src/mvcc/mvcc.hpp): records whose versions are chained    *)
(* snapshots, worked on by concurrent transaction threads, while the main  *)
(* thread joins the threads and marks their transactions "Committed".      *)
(*                                                                         *)
(* One action is one access to shared memory: the atomic load of           *)
(* mutable_current_, the read of end_version, the read of                  *)
(* TransactionsStatus, the (ordinary) store of end_version, the            *)
(* compare-and-swap of mutable_current_ and the store of _older_snapshot   *)
(* after it.  Everything between two of these is local to a thread.        *)
(*                                                                         *)
(* A snapshot object is named by the call that allocates it: <<t, n>> is   *)
(* the object made by the n-th call of transaction t (a retry frees the    *)
(* failed object and reuses the name), so its field `version`, which is    *)
(* the id of the transaction, is the first component of the name.  The     *)
(* value of a snapshot is the set of snapshots whose effect it contains:   *)
(* an updater adds its own name to what it read, an overwrite starts anew. *)
(***************************************************************************)
EXTENDS Naturals

CONSTANTS Txns,         \* the transactions that run concurrently
          Loader,       \* the transaction that has inserted the records
          Records,      \* the mvcc objects
          MaxOps,       \* bound: the calls a transaction makes
          Programs,     \* the sequences of calls the transactions may make
          JoinedBefore, \* <<t, u>>: main collects transaction u only after t
          INF,          \* end_version of a snapshot nobody has ended
          Null          \* nullptr

Everyone == Txns \cup {Loader}

Kinds == {"read", "overwrite", "update", "try_update", "try_update_until", "delete"}

Calls == [kind : Kinds, rec : Records]

Cells == Txns \X (1 .. MaxOps)

(* The snapshot a record is born with, made by the inserting transaction.  *)
Initial == [r \in Records |-> <<Loader, r>>]

Snapshots == Cells \cup {Initial[r] : r \in Records}

Labels == {"load", "readEnd", "check", "stamp", "cas", "link", "done"}

ASSUME NamesAssumption == /\ Loader \notin Txns
                          /\ INF \notin Everyone
                          /\ Null \notin Snapshots

ASSUME BoundAssumption == MaxOps \in Nat \ {0}

ASSUME ProgramsAssumption == Programs \subseteq [Txns -> [1 .. MaxOps -> Calls]]

(* Main is one thread: of any transactions, it joins one before the others *)
ASSUME JoinAssumption ==
  /\ JoinedBefore \subseteq Everyone \X Everyone
  /\ \A S \in SUBSET Everyone \ {{}} : \E t \in S : \A u \in S : <<u, t>> \notin JoinedBefore

VARIABLES head,         \* head[r]: mutable_current_ of record r
          older,        \* older[s]: _older_snapshot
          endv,         \* endv[s]: end_version
          value,        \* value[s]: the effects contained in the value
          status,       \* TransactionsStatus
          prog,         \* prog[t][n]: the n-th call of the body of t
          opno,         \* opno[t]: the call t is executing
          pc,           \* pc[t]: its next access to shared memory
          expected,     \* expected[t]: the local `expected`
          seenEnd       \* seenEnd[t]: the local const_expected_end_version

vars == <<head, older, endv, value, status, prog, opno, pc, expected, seenEnd>>

-------------------------------------------------------------------------------
(* The field `version` of a snapshot: the transaction that made it.        *)
Version(s) == s[1]

Kind(t) == prog[t][opno[t]].kind

Rec(t) == prog[t][opno[t]].rec

(* `desired`: the snapshot object allocated by the current call of t.      *)
Mine(t) == <<t, opno[t]>>

Goto(t, l) == /\ pc' = [pc EXCEPT ![t] = l]
              /\ UNCHANGED opno

(* The current call of t returns to the body of the transaction.           *)
Return(t) == /\ opno' = [opno EXCEPT ![t] = @ + 1]
             /\ pc' = [pc EXCEPT ![t] = IF opno[t] = MaxOps THEN "done" ELSE "load"]

(* What a call does when it cannot install its version: update() and       *)
(* deleteMV() start over, overwriteMV() and try_update() return nullptr,   *)
(* try_update_until() does either, depending on the time.                  *)
Fail(t) == \/ /\ Kind(t) \in {"update", "try_update_until", "delete"}
              /\ Goto(t, "load")
           \/ /\ Kind(t) \in {"overwrite", "try_update", "try_update_until"}
              /\ Return(t)

Init ==
  /\ head = Initial
  /\ older = [s \in Snapshots |-> Null]
  /\ endv = [s \in Snapshots |-> INF]
  /\ value = [s \in Snapshots |-> IF s \in Cells THEN {} ELSE {s}]
  /\ status = [t \in Everyone |-> "Active"]
  /\ prog \in Programs
  /\ opno = [t \in Txns |-> 1]
  /\ pc = [t \in Txns |-> "load"]
  /\ expected = [t \in Txns |-> Null]
  /\ seenEnd = [t \in Txns |-> INF]

(* current(): the reader keeps the snapshot it loads.                      *)
Read(t) ==
  /\ pc[t] = "load" /\ Kind(t) = "read"
  /\ expected' = [expected EXCEPT ![t] = head[Rec(t)]]
  /\ Return(t)
  /\ UNCHANGED <<head, older, endv, value, status, prog, seenEnd>>

(* auto expected = atomic_load(&mutable_current_); overwrite_implMV has    *)
(* already made `desired` from its argument.                               *)
Load(t) ==
  /\ pc[t] = "load" /\ Kind(t) # "read"
  /\ expected' = [expected EXCEPT ![t] = head[Rec(t)]]
  /\ value' = IF Kind(t) = "overwrite" THEN [value EXCEPT ![Mine(t)] = {Mine(t)}] ELSE value
  /\ Goto(t, "readEnd")
  /\ UNCHANGED <<head, older, endv, status, prog, seenEnd>>

(* The locals are read from *expected, whose version and value never       *)
(* change, and try_update_impl makes `desired` with updater(value).        *)
ReadEnd(t) ==
  /\ pc[t] = "readEnd"
  /\ seenEnd' = [seenEnd EXCEPT ![t] = endv[expected[t]]]
  /\ value' = IF Kind(t) \in {"update", "try_update", "try_update_until"}
                THEN [value EXCEPT ![Mine(t)] = value[expected[t]] \cup {Mine(t)}]
                ELSE value
  /\ Goto(t, "check")
  /\ UNCHANGED <<head, older, endv, status, prog, expected>>

(* Mutant: a call is held up by its own Active transaction as well.        *)
ConflictWithSelf(t) == seenEnd[t] # INF /\ status[Version(expected[t])] = "Active"

(* The condition under which a call refuses to go on: the version it has   *)
(* read is ended, and made by another transaction that is Active.          *)
Conflict(t) == /\ seenEnd[t] # INF
               /\ Version(expected[t]) # t
               /\ status[Version(expected[t])] = "Active"

Check(t) ==
  /\ pc[t] = "check"
  /\ \/ Conflict(t) /\ Fail(t)
     \/ ~Conflict(t) /\ Goto(t, "stamp")
  /\ UNCHANGED <<head, older, endv, value, status, prog, expected, seenEnd>>

(* Mutant: the end stored is the version of the snapshot that is ended.    *)
StampOwnVersion(t) ==
  /\ pc[t] = "stamp"
  /\ endv' = [endv EXCEPT ![expected[t]] = Version(expected[t])]
  /\ IF Kind(t) = "delete" THEN Return(t) ELSE Goto(t, "cas")
  /\ UNCHANGED <<head, older, value, status, prog, expected, seenEnd>>

(* Mutant: the new snapshot is ended instead of the one it replaces.       *)
StampDesired(t) ==
  /\ pc[t] = "stamp"
  /\ endv' = [endv EXCEPT ![Mine(t)] = t]
  /\ IF Kind(t) = "delete" THEN Return(t) ELSE Goto(t, "cas")
  /\ UNCHANGED <<head, older, value, status, prog, expected, seenEnd>>

(* Mutant: mutable_current_ is loaded again for the store of the end.      *)
StampHead(t) ==
  /\ pc[t] = "stamp"
  /\ endv' = [endv EXCEPT ![head[Rec(t)]] = t]
  /\ IF Kind(t) = "delete" THEN Return(t) ELSE Goto(t, "cas")
  /\ UNCHANGED <<head, older, value, status, prog, expected, seenEnd>>

(* expected->end_version = txn_id; for deleteMV() this is all there is.    *)
Stamp(t) ==
  /\ pc[t] = "stamp"
  /\ endv' = [endv EXCEPT ![expected[t]] = t]
  /\ IF Kind(t) = "delete" THEN Return(t) ELSE Goto(t, "cas")
  /\ UNCHANGED <<head, older, value, status, prog, expected, seenEnd>>

(* Mutant: an atomic_store instead of the compare-and-swap.                *)
InstallByStore(t) ==
  /\ pc[t] = "cas"
  /\ head' = [head EXCEPT ![Rec(t)] = Mine(t)]
  /\ Goto(t, "link")
  /\ UNCHANGED <<older, endv, value, status, prog, expected, seenEnd>>

(* Mutant: an overwrite, which reads nothing, does not compare.            *)
InstallOverwriteByStore(t) ==
  /\ pc[t] = "cas"
  /\ Kind(t) # "overwrite" => head[Rec(t)] = expected[t]
  /\ head' = [head EXCEPT ![Rec(t)] = Mine(t)]
  /\ Goto(t, "link")
  /\ UNCHANGED <<older, endv, value, status, prog, expected, seenEnd>>

(* atomic_compare_exchange_strong(&mutable_current_, &expected, desired).  *)
Install(t) ==
  /\ pc[t] = "cas"
  /\ head[Rec(t)] = expected[t]
  /\ head' = [head EXCEPT ![Rec(t)] = Mine(t)]
  /\ Goto(t, "link")
  /\ UNCHANGED <<older, endv, value, status, prog, expected, seenEnd>>

(* Mutant: the exchange is retried with what it has loaded, and with the   *)
(* value computed from what it had loaded before.                          *)
LoseRaceKeepDesired(t) ==
  /\ pc[t] = "cas"
  /\ head[Rec(t)] # expected[t]
  /\ expected' = [expected EXCEPT ![t] = head[Rec(t)]]
  /\ UNCHANGED <<head, older, endv, value, status, prog, opno, pc, seenEnd>>

(* The compare-and-swap fails: another version has been installed.         *)
LoseRace(t) ==
  /\ pc[t] = "cas"
  /\ head[Rec(t)] # expected[t]
  /\ Fail(t)
  /\ UNCHANGED <<head, older, endv, value, status, prog, expected, seenEnd>>

(* Mutant: mutable_current_ is loaded again for the link.                  *)
LinkOlderToHead(t) ==
  /\ pc[t] = "link"
  /\ older' = [older EXCEPT ![Mine(t)] = head[Rec(t)]]
  /\ Return(t)
  /\ UNCHANGED <<head, endv, value, status, prog, expected, seenEnd>>

(* atomic_store(&desired->_older_snapshot, expected), after publication.   *)
LinkOlder(t) ==
  /\ pc[t] = "link"
  /\ older' = [older EXCEPT ![Mine(t)] = expected[t]]
  /\ Return(t)
  /\ UNCHANGED <<head, endv, value, status, prog, expected, seenEnd>>

(* CollectTransaction(): main joins the thread of t, then commits t.  The  *)
(* thread of the loader has ended before the model starts.                 *)
Collect(t) ==
  /\ status[t] = "Active"
  /\ t \in Txns => pc[t] = "done"
  /\ \A u \in Everyone : <<u, t>> \in JoinedBefore => status[u] = "Committed"
  /\ status' = [status EXCEPT ![t] = "Committed"]
  /\ UNCHANGED <<head, older, endv, value, prog, opno, pc, expected, seenEnd>>

Step(t) == \/ Read(t) \/ Load(t) \/ ReadEnd(t) \/ Check(t) \/ Stamp(t)
           \/ Install(t) \/ LoseRace(t) \/ LinkOlder(t)

Next == \/ \E t \in Txns : Step(t)
        \/ \E t \in Everyone : Collect(t)

Spec == Init /\ [][Next]_vars

(* The scheduler runs every thread, main included.                         *)
Fairness == /\ \A t \in Txns : WF_vars(Step(t))
            /\ \A t \in Everyone : WF_vars(Collect(t))

FairSpec == Spec /\ Fairness
-------------------------------------------------------------------------------
(* The descent of versions, as the calls see it: a new head succeeds the   *)
(* `expected` of its compare-and-swap, at once; its link comes later.      *)
Pred(s) ==
  IF older[s] # Null THEN older[s]
  ELSE IF Version(s) \in Txns /\ s = Mine(Version(s)) /\ pc[Version(s)] = "link"
    THEN expected[Version(s)]
  ELSE Null

Installed == {s \in Snapshots : s \notin Cells \/ Pred(s) # Null}

(* The record a snapshot belongs to.                                       *)
Home(s) == IF s \in Cells THEN prog[s[1]][s[2]].rec ELSE s[2]

TypeOK ==
  /\ head \in [Records -> Snapshots]
  /\ older \in [Snapshots -> Snapshots \cup {Null}]
  /\ endv \in [Snapshots -> Txns \cup {INF}]
  /\ value \in [Snapshots -> SUBSET Snapshots]
  /\ status \in [Everyone -> {"Active", "Committed"}]
  /\ prog \in [Txns -> [1 .. MaxOps -> Calls]]
  /\ opno \in [Txns -> 1 .. MaxOps + 1]
  /\ pc \in [Txns -> Labels]
  /\ expected \in [Txns -> Snapshots \cup {Null}]
  /\ seenEnd \in [Txns -> Txns \cup {INF}]

(* The chain of versions of a record never forks and never loses a link:   *)
(* two snapshots never succeed the same one, the head has no successor,    *)
(* and every installed snapshot that is not a head has one, of the same    *)
(* record.  This is what the compare-and-swap of mvcc.hpp:277 and :404     *)
(* must give although each call works on a snapshot it loaded long before. *)
SingleLine ==
  /\ \A s, u \in Installed : Pred(s) # Null /\ Pred(s) = Pred(u) => s = u
  /\ \A s \in Installed, r \in Records : Pred(s) # head[r]
  /\ \A s \in Installed : s # head[Home(s)] =>
       \E u \in Installed : Pred(u) = s /\ Home(u) = Home(s)

(* No update is lost: when nobody overwrites record r, its newest value    *)
(* contains the effect of every version ever installed on r, in spite of   *)
(* updaters that computed their value from a snapshot (mvcc.hpp:388) long  *)
(* before the compare-and-swap.                                            *)
NoLostUpdate ==
  \A r \in Records :
    (\A t \in Txns, n \in 1 .. MaxOps : prog[t][n] # [kind |-> "overwrite", rec |-> r])
      => value[head[r]] = {s \in Installed : Home(s) = r}

(* A snapshot that has a successor is always ended: a reader that holds it *)
(* can tell it is not the newest.  The end is stored before the            *)
(* compare-and-swap, by each competitor (mvcc.hpp:276 and :403).           *)
SupersededEnded ==
  \A s \in Installed : Pred(s) # Null => endv[Pred(s)] # INF

(* A head that is ended is ended for a reason: by a deleteMV() of that     *)
(* transaction, or by an update of it that is about to replace this head.  *)
(* A writer that loses the race, or is refused, never leaves the mark of   *)
(* deletion on a live head (mvcc.hpp:276-284 store before they compare).   *)
HeadEndExplained ==
  \A r \in Records :
    LET t == endv[head[r]] IN
    t # INF =>
      \/ pc[t] = "cas" /\ expected[t] = head[r]
      \/ \E n \in 1 .. MaxOps : n < opno[t] /\ prog[t][n] = [kind |-> "delete", rec |-> r]

(* What a reader holds does not change under it: the value of an installed *)
(* snapshot is final, its link to the older one is set once, to the        *)
(* version it succeeded, and an ended snapshot is never open again.        *)
SnapshotsAreStable ==
  [][\A s \in Installed :
       /\ value'[s] = value[s]
       /\ older'[s] # older[s] => older[s] = Null /\ older'[s] = Pred(s)
       /\ endv[s] # INF => endv'[s] # INF]_vars

(* The promise of the record to its callers.                               *)
Order == INSTANCE VersionOrder WITH
           Versions <- Snapshots,
           First <- Initial,
           top <- head,
           pred <- [s \in Snapshots |-> Pred(s)],
           val <- [s \in Snapshots |-> IF s \in Installed THEN value[s] ELSE {}]

(* Every call that returns a snapshot it made has installed it in one      *)
(* atomic step on top of the newest version, although it takes six.        *)
ImplementsVersionOrder == Order!Spec
-------------------------------------------------------------------------------
(* The transactions t has to wait for, as things are: the maker of an      *)
(* ended head that nobody is about to replace, for a call that retries on  *)
(* it, and the transactions main joins first for a thread that has ended.  *)
WaitedFor(t) ==
  {u \in Everyone \ {t} :
     /\ status[u] = "Active"
     /\ IF t \in Txns /\ pc[t] # "done"
          THEN /\ Kind(t) \in {"update", "delete"}
               /\ pc[t] \in {"load", "readEnd", "check"}
               /\ endv[head[Rec(t)]] # INF
               /\ \A v \in Txns : ~(pc[v] = "cas" /\ expected[v] = head[Rec(t)])
               /\ Version(head[Rec(t)]) = u
          ELSE <<u, t>> \in JoinedBefore}

Deadlock == \E S \in SUBSET Everyone \ {{}} :
              \A t \in S : status[t] = "Active" /\ WaitedFor(t) \cap S # {}

AllCommitted == \A t \in Everyone : status[t] = "Committed"

(* Retrying with no bound (mvcc.hpp:304, :334) while the status of a       *)
(* transaction changes only when main collects it, a system either ends or *)
(* comes to wait in a cycle for good: nothing else, such as two calls that *)
(* keep defeating each other or a call that waits for its own mark, holds  *)
(* it up.                                                                  *)
EndsUnlessDeadlock == <>[](AllCommitted \/ Deadlock)

(* Only deletions can make transactions wait for one another: an update    *)
(* that is merely outrun, and the end it leaves on the head it is about to *)
(* replace, never close such a cycle, in whatever order main joins.        *)
DeadlockNeedsDelete ==
  Deadlock => \E t \in Txns, n \in 1 .. MaxOps : n < opno[t] /\ prog[t][n].kind = "delete"

(* What the comment at the check of mvcc.hpp:262 (:312, :392) says of it,  *)
(* "if record was created and its active currently and not by the current  *)
(* transaction": a version made by one of the running transactions is not  *)
(* replaced by another one before it is committed.                         *)
ActiveVersionKept ==
  [][\A t \in Txns : Install(t) =>
       \/ Version(expected[t]) \in {t, Loader}
       \/ status[Version(expected[t])] = "Committed"]_vars

(* What ArtCPP.hpp:1129 says of deleteMV(), "MVCC delete head version":    *)
(* the snapshot that a deleting call ends is the newest of its record.     *)
DeleteEndsHead ==
  [][\A t \in Txns : Stamp(t) /\ Kind(t) = "delete" => expected[t] = head[Rec(t)]]_vars
===============================================================================
