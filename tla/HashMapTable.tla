----------------------------- MODULE HashMapTable ------------------------------
(***************************************************************************)
(* The table of tuples with observers (src/table/HashMapTable.hpp), used   *)
(* by several threads.  What is done under the mutex without a call to an  *)
(* observer is one step: who honours the mutex sees nothing of it.         *)
(*                                                                         *)
(* Observers are told each modification, some of them after the mutex has  *)
(* been released.  They are taken as ones that keep a copy of the table    *)
(* from what they are told; they may also read the table when they are.    *)
(* A row is a tuple of its key and the thread that has written it last.    *)
(***************************************************************************)
EXTENDS Tuples

CONSTANTS Threads,      \* the threads that use the table
          Keys,
          MaxCalls,     \* how many calls each of them makes
          None          \* no row, no thread, no call

(* The tuples of a key and the thread that has written it.                 *)
Rows == {Tuple(<<k, t>>, nulls) : k \in Keys, t \in Threads \cup {None}, nulls \in {{}, {2}}}

ASSUME TableAssumption == MaxCalls \in Nat /\ None \notin Threads \cup Keys \cup Rows

VARIABLES rows,         \* mDataTable: rows[k] is the tuple under key k, or None
          born,         \* born[k]: how many rows there have been under key k
          owner,        \* mMtx: the thread that holds it, or None
          call,         \* call[t]: the call t makes, or None
          calls,        \* calls[t]: how many it has begun
          pc,           \* its next step
          cur, ref,     \* the key it is at, and which of the rows under it it has found
          todo,         \* the keys that the loop of the call has still to visit
          reenters,     \* the observers read the table; never changes
          view,         \* the copy of the table that the observers keep
          doubt,        \* the keys whose modifications they are not told as they were
          disturbed,    \* the scans without the mutex that rows have come or gone under
          crashed       \* the program has ended abnormally

data == <<rows, born>>
frame == <<call, calls, cur, ref, todo>>
history == <<doubt, disturbed>>
vars == <<data, owner, pc, frame, reenters, view, history, crashed>>

Present == {k \in Keys : rows[k] # None}

-------------------------------------------------------------------------------
(* The calls, with the keys of the rows that they are for.  The function   *)
(* of an updateOrDeleteByKey() has the row erased; one that has it kept    *)
(* makes of it an updateByKey().  A tuple may be inserted with a null.     *)
Calls ==
  [op : {"updateByKey", "updateOrDeleteByKey", "deleteByKey", "getByKey"},
   keys : {{k} : k \in Keys}, null : {FALSE}]
    \cup [op : {"insert"}, keys : {{k} : k \in Keys}, null : BOOLEAN]
    \cup [op : {"updateWhere", "deleteWhere", "select", "drop"}, keys : {Keys}, null : {FALSE}]

Op(t) == call[t].op
Deletes(t) == Op(t) \in {"deleteByKey", "deleteWhere"}
NewRow(t, k) == Tuple(<<k, t>>, IF call[t].null THEN {2} ELSE {})
KeyOf(t) == CHOOSE k \in call[t].keys : TRUE

(* The table is loaded before the observers are registered.                *)
Init ==
  /\ rows = [k \in Keys |-> Tuple(<<k, None>>, {})]
  /\ born = [k \in Keys |-> 0]
  /\ owner = None
  /\ call = [t \in Threads |-> None] /\ calls = [t \in Threads |-> 0]
  /\ pc = [t \in Threads |-> "idle"]
  /\ cur = [t \in Threads |-> None] /\ ref = [t \in Threads |-> 0]
  /\ todo = [t \in Threads |-> {}]
  /\ reenters \in BOOLEAN
  /\ view = rows
  /\ doubt = {} /\ disturbed = {} /\ crashed = FALSE

Goto(t, l) == pc' = [pc EXCEPT ![t] = l]

(* The call returns.                                                       *)
Return(t) ==
  /\ Goto(t, "idle")
  /\ call' = [call EXCEPT ![t] = None]
  /\ cur' = [cur EXCEPT ![t] = None] /\ ref' = [ref EXCEPT ![t] = 0]
  /\ todo' = [todo EXCEPT ![t] = {}]
  /\ UNCHANGED calls

(* The call goes on, at key k, with step l.                                *)
At(t, k, l) ==
  /\ Goto(t, l)
  /\ cur' = [cur EXCEPT ![t] = k] /\ ref' = [ref EXCEPT ![t] = born'[k]]
  /\ UNCHANGED <<call, calls, todo>>

Begin(t) ==
  /\ pc[t] = "idle" /\ calls[t] < MaxCalls
  /\ \E c \in Calls : call' = [call EXCEPT ![t] = c]
  /\ calls' = [calls EXCEPT ![t] = @ + 1]
  /\ Goto(t, "enter")
  /\ UNCHANGED <<data, owner, cur, ref, todo, reenters, view, history, crashed>>

-------------------------------------------------------------------------------
(* What the history keeps of a modification.  A thread that has modified   *)
(* the row under k and released the mutex has yet to tell it.              *)
Untold(t, k) == {u \in Threads \ {t} : pc[u] = "notify" /\ owner # u /\ cur[u] = k}

(* An insert tells the tuple it was given, the others the row as it is     *)
(* then: they may be overtaken by an update but not by an erasure.         *)
Overtakes(t, k, erases) ==
  \E u \in Untold(t, k) : erases \/ Op(u) = "insert"

Scans == {u \in Threads : pc[u] = "scan"}

(* The row under k comes or goes.                                          *)
Disturb(t) == disturbed' = disturbed \cup (Scans \ {t})
-------------------------------------------------------------------------------
(* A row under the same key stays as it is, and the observers are told all *)
(* the same.  The pair that is inserted holds a copy of the tuple.         *)
Insert(t) ==
  /\ pc[t] = "enter" /\ Op(t) = "insert" /\ owner = None
  /\ LET k == KeyOf(t) IN
     /\ IF rows[k] = None
          THEN /\ rows' = [rows EXCEPT ![k] = Copy(NewRow(t, k))]
               /\ born' = [born EXCEPT ![k] = @ + 1]
               /\ Disturb(t)
          ELSE UNCHANGED <<data, disturbed>>
     /\ doubt' = IF rows[k] # None \/ rows'[k] # NewRow(t, k) THEN doubt \cup {k} ELSE doubt
     /\ At(t, k, "notify")
  /\ UNCHANGED <<owner, reenters, view, crashed>>

(* Mutant: the mutex is kept while the observers are told. *)
UpdateByKeyLocked(t) ==
  /\ pc[t] = "enter" /\ Op(t) \in {"updateByKey", "updateOrDeleteByKey"} /\ owner = None
  /\ LET k == KeyOf(t) IN
     IF rows[k] = None
       THEN Return(t) /\ UNCHANGED <<rows, owner>>
       ELSE /\ rows' = [rows EXCEPT ![k] = NewRow(t, k)]
            /\ owner' = t
            /\ Goto(t, "notify")
            /\ cur' = [cur EXCEPT ![t] = k] /\ ref' = [ref EXCEPT ![t] = born[k]]
            /\ UNCHANGED <<call, calls, todo>>
  /\ UNCHANGED <<born, reenters, view, history, crashed>>

(* updateByKey() and updateOrDeleteByKey() make the modification with the  *)
(* mutex and tell it without.                                              *)
UpdateByKey(t) ==
  /\ pc[t] = "enter" /\ Op(t) \in {"updateByKey", "updateOrDeleteByKey"} /\ owner = None
  /\ LET k == KeyOf(t)
         erases == Op(t) = "updateOrDeleteByKey" IN
     IF rows[k] = None
       THEN Return(t) /\ UNCHANGED <<data, history>>
       ELSE /\ rows' = [rows EXCEPT ![k] = IF erases THEN None ELSE NewRow(t, k)]
            /\ doubt' = IF erases \/ Overtakes(t, k, erases) THEN doubt \cup {k} ELSE doubt
            /\ IF erases THEN Disturb(t) ELSE UNCHANGED disturbed
            /\ UNCHANGED born
            /\ At(t, k, "notify")
  /\ UNCHANGED <<owner, reenters, view, crashed>>

(* A copy, or an exception.                                                *)
GetByKey(t) ==
  /\ pc[t] = "enter" /\ Op(t) = "getByKey" /\ owner = None
  /\ Return(t)
  /\ UNCHANGED <<data, owner, reenters, view, history, crashed>>

(* deleteByKey(), deleteWhere() and updateWhere() keep the mutex.          *)
Lock(t) ==
  /\ pc[t] = "enter" /\ Op(t) \in {"deleteByKey", "deleteWhere", "updateWhere"} /\ owner = None
  /\ owner' = t
  /\ todo' = [todo EXCEPT ![t] = call[t].keys \cap Present]
  /\ Goto(t, "loop")
  /\ UNCHANGED <<data, call, calls, cur, ref, reenters, view, history, crashed>>

(* Mutant: the row is erased before it is told. *)
VisitErasing(t) ==
  /\ pc[t] = "loop"
  /\ \E k \in todo[t] :
       /\ rows' = [rows EXCEPT ![k] = IF Deletes(t) THEN None ELSE NewRow(t, k)]
       /\ doubt' = IF Overtakes(t, k, Deletes(t)) THEN doubt \cup {k} ELSE doubt
       /\ Goto(t, "notify")
       /\ cur' = [cur EXCEPT ![t] = k] /\ ref' = [ref EXCEPT ![t] = born[k]]
       /\ todo' = [todo EXCEPT ![t] = @ \ {k}]
  /\ UNCHANGED <<born, owner, call, calls, reenters, view, disturbed, crashed>>

(* Mutant: each row is written with the key of the first. *)
VisitFirst(t) ==
  /\ pc[t] = "loop"
  /\ \E k \in todo[t] :
       /\ rows' = IF Deletes(t) \/ rows[k] = None THEN rows
                  ELSE [rows EXCEPT ![k] = NewRow(t, KeyOf(t))]
       /\ doubt' = IF Overtakes(t, k, Deletes(t)) THEN doubt \cup {k} ELSE doubt
       /\ UNCHANGED born
       /\ Goto(t, "notify")
       /\ cur' = [cur EXCEPT ![t] = k]
       /\ ref' = [ref EXCEPT ![t] = IF rows[k] = None THEN born[k] + 1 ELSE born[k]]
       /\ todo' = [todo EXCEPT ![t] = @ \ {k}]
  /\ UNCHANGED <<owner, call, calls, reenters, view, disturbed, crashed>>

(* The next row of the loop: an update is made before it is told.          *)
Visit(t) ==
  /\ pc[t] = "loop"
  /\ \E k \in todo[t] :
       /\ rows' = IF Deletes(t) \/ rows[k] = None THEN rows
                  ELSE [rows EXCEPT ![k] = NewRow(t, k)]
       /\ doubt' = IF Overtakes(t, k, Deletes(t)) THEN doubt \cup {k} ELSE doubt
       /\ UNCHANGED born
       /\ Goto(t, "notify")
       /\ cur' = [cur EXCEPT ![t] = k]
       /\ ref' = [ref EXCEPT ![t] = IF rows[k] = None THEN born[k] + 1 ELSE born[k]]
       /\ todo' = [todo EXCEPT ![t] = @ \ {k}]
  /\ UNCHANGED <<owner, call, calls, reenters, view, disturbed, crashed>>

Unlock(t) ==
  /\ pc[t] = "loop" /\ todo[t] = {}
  /\ owner' = None
  /\ Return(t)
  /\ UNCHANGED <<data, reenters, view, history, crashed>>

-------------------------------------------------------------------------------
(* The tuple that the observers are given.  All but insert() pass on a     *)
(* reference to the row.                                                   *)
Gone(t) == Op(t) # "insert" /\ (rows[cur[t]] = None \/ born[cur[t]] # ref[t])

(* Mutant: the row is passed on as the update has left it. *)
ToldOwn(t) == NewRow(t, cur[t])

Told(t) == IF Op(t) = "insert" THEN NewRow(t, cur[t]) ELSE rows[cur[t]]

AfterNotify(t) ==
  IF owner # t THEN Return(t)
  ELSE /\ Goto(t, IF Deletes(t) THEN "erase" ELSE "loop")
       /\ UNCHANGED frame

(* notifyObservers().  What is read of an erased row may be what it was,   *)
(* or nothing that the observers know, or the end of the program.          *)
Notify(t) ==
  /\ pc[t] = "notify"
  /\ LET k == cur[t] IN
     IF Gone(t)
       THEN /\ crashed' \in BOOLEAN
            /\ view' \in {view, [view EXCEPT ![k] = None], [view EXCEPT ![k] = NewRow(t, k)]}
       ELSE /\ view' = [view EXCEPT ![k] = IF Deletes(t) THEN None ELSE Told(t)]
            /\ UNCHANGED crashed
  /\ IF reenters THEN Goto(t, "read") /\ UNCHANGED frame ELSE AfterNotify(t)
  /\ UNCHANGED <<data, owner, reenters, history>>

(* An observer calls getByKey(), in the thread that has notified it.       *)
Reenter(t) ==
  /\ pc[t] = "read"
  /\ owner = None
  /\ AfterNotify(t)
  /\ UNCHANGED <<data, owner, reenters, view, history, crashed>>

(* Mutant: the row is left in the table. *)
EraseForgotten(t) ==
  /\ pc[t] = "erase"
  /\ Goto(t, "loop")
  /\ UNCHANGED <<data, owner, frame, reenters, view, history, crashed>>

(* The row that has been told is erased, with the mutex still held.        *)
Erase(t) ==
  /\ pc[t] = "erase"
  /\ rows' = [rows EXCEPT ![cur[t]] = None]
  /\ crashed' \in IF Gone(t) THEN BOOLEAN ELSE {FALSE}
  /\ Disturb(t)
  /\ Goto(t, "loop")
  /\ UNCHANGED <<born, owner, frame, reenters, view, doubt>>

-------------------------------------------------------------------------------
(* select() takes no mutex, nor do the iterators it returns.               *)
Select(t) ==
  /\ pc[t] = "enter" /\ Op(t) = "select"
  /\ todo' = [todo EXCEPT ![t] = Present]
  /\ disturbed' = disturbed \ {t}
  /\ Goto(t, "scan")
  /\ UNCHANGED <<data, owner, call, calls, cur, ref, reenters, view, doubt, crashed>>

(* The iterator goes on; a row that it stands on may be gone.              *)
Advance(t) ==
  /\ pc[t] = "scan"
  /\ crashed' \in IF t \in disturbed THEN BOOLEAN ELSE {FALSE}
  /\ IF todo[t] = {}
       THEN Return(t)
       ELSE /\ \E k \in todo[t] : todo' = [todo EXCEPT ![t] = @ \ {k}]
            /\ UNCHANGED <<pc, call, calls, cur, ref>>
  /\ UNCHANGED <<data, owner, reenters, view, history>>

(* drop() takes no mutex either, and tells nobody.                         *)
Drop(t) ==
  /\ pc[t] = "enter" /\ Op(t) = "drop"
  /\ rows' = [k \in Keys |-> None]
  /\ doubt' = doubt \cup Present
  /\ Disturb(t)
  /\ Return(t)
  /\ UNCHANGED <<born, owner, reenters, view, crashed>>

Step(t) == \/ Begin(t) \/ Insert(t) \/ UpdateByKey(t) \/ GetByKey(t)
           \/ Lock(t) \/ Visit(t) \/ Unlock(t) \/ Notify(t) \/ Reenter(t) \/ Erase(t)
           \/ Select(t) \/ Advance(t) \/ Drop(t)

Over(t) == pc[t] = "idle" /\ calls[t] = MaxCalls

(* An observer waits for the mutex that its own thread holds.              *)
Stuck(t) == pc[t] = "read" /\ owner = t

End == /\ \/ crashed \/ \A t \in Threads : Over(t)
          \/ \E t \in Threads : Stuck(t)
       /\ UNCHANGED vars

Next == (~crashed /\ \E t \in Threads : Step(t)) \/ End

Spec == Init /\ [][Next]_vars
FairSpec == Spec /\ \A t \in Threads : WF_vars(~crashed /\ Step(t))
-------------------------------------------------------------------------------
TypeOK ==
  /\ rows \in [Keys -> Rows \cup {None}] /\ born \in [Keys -> Nat]
  /\ \A k \in Present : rows[k].data[1] = k
  /\ owner \in Threads \cup {None}
  /\ call \in [Threads -> Calls \cup {None}] /\ calls \in [Threads -> 0 .. MaxCalls]
  /\ pc \in [Threads -> {"idle", "enter", "loop", "notify", "read", "erase", "scan"}]
  /\ cur \in [Threads -> Keys \cup {None}] /\ ref \in [Threads -> Nat]
  /\ todo \in [Threads -> SUBSET Keys]
  /\ reenters \in BOOLEAN /\ view \in [Keys -> Rows \cup {None}]
  /\ doubt \subseteq Keys /\ disturbed \subseteq Threads /\ crashed \in BOOLEAN

(* Some thread is about to tell a modification of the row under k, or to   *)
(* make one that it has told.                                              *)
Telling(k) == \E t \in Threads : cur[t] = k /\ pc[t] \in {"notify", "read", "erase"}

(* The observers' copy is the table, but for the keys where an insert has  *)
(* found a row, or lost a null value, where a row was erased by            *)
(* updateOrDeleteByKey() or drop(), and where a modification has been      *)
(* overtaken after the mutex was released (HashMapTable.hpp:142, :219,     *)
(* :261).  Updates that overtake updates do no harm.                       *)
ViewFollowsTable ==
  ~crashed => \A k \in Keys \ doubt : Telling(k) \/ view[k] = rows[k]

(* With the same exceptions the observers are told of an insert only if    *)
(* they do not know the row, and of anything else only if they do.         *)
ToldInOrder ==
  [][\A t \in Threads :
       Notify(t) /\ cur[t] \notin doubt => (view[cur[t]] = None <=> Op(t) = "insert")]_vars

(* The program ends abnormally only through a row that was erased while a  *)
(* thread was to tell it, or through a scan, without the mutex, that rows  *)
(* have come or gone under (HashMapTable.hpp:350).                         *)
CrashExplained ==
  [][crashed' # crashed =>
       \E t \in Threads : \/ pc[t] = "scan" /\ t \in disturbed
                          \/ pc[t] \in {"notify", "erase"} /\ cur[t] \in doubt]_vars

(* Every call ends, unless an observer reads the table while deleteByKey(),*)
(* deleteWhere() or updateWhere() hold the mutex (HashMapTable.hpp:161,    *)
(* :187, :290): then nobody gets it any more.                              *)
CallsEnd ==
  <>(\/ crashed \/ \A t \in Threads : Over(t)
     \/ \E t \in Threads : Stuck(t) /\ Op(t) \in {"deleteByKey", "deleteWhere", "updateWhere"})
===============================================================================
