-------------------------------- MODULE ArtLock --------------------------------
(***************************************************************************)
(* The lock words of the nodes (src/ART/ArtCPP.hpp): threads that insert   *)
(* keys with mv_recursive_insert(), threads that look keys up with         *)
(* art_search_OCC() or UpdateIterative(), which trust what they have read  *)
(* if the version of the node has not changed, and the collector, which    *)
(* removes leaves with recursive_deleteGC() and touches no version.        *)
(*                                                                         *)
(* All keys meet in one node4: the root, or an inner node below it.  They  *)
(* are told apart by one byte, so a key, its byte and its leaf are one     *)
(* number, and 0 is the null pointer.  An insert into a full node4 copies  *)
(* it into a node16 and frees it.  Nodes do not shrink, and no two inserts *)
(* are for the same key.  A step is one access to memory that threads      *)
(* share; where some are taken together the comment of the action says     *)
(* why.  What a freed node holds stays as it is, or its use does harm.     *)
(***************************************************************************)
EXTENDS Integers, FiniteSets

CONSTANTS Inserters,    \* the threads that insert a key
          Removers,     \* the epoch thread, if it collects one
          Searchers,    \* the threads that look one up
          KeyOf,        \* KeyOf[t]: the key that inserter or remover t is for
          Teams,        \* the inserters and removers that may run together, each
                        \*   team with its load, the keys in the node to begin
                        \*   with, and its targets, the keys that are looked up
          Capacity,     \* 4: how many children a node4 has room for
          GrownCapacity, \* 16: how many a node16 has room for
          Start         \* the version of a node to begin with

Changers == Inserters \cup Removers
Threads == Changers \cup Searchers
Added(team) == {KeyOf[t] : t \in team.threads \cap Inserters}
Taken(team) == {KeyOf[t] : t \in team.threads \cap Removers}
Keys == UNION {team.load \cup Added(team) : team \in Teams}

(* The node4 has room for all keys or for no other, and two of them are    *)
(* left in the end.                                                        *)
ASSUME LockAssumption ==
  /\ Inserters \cap Removers = {} /\ Changers \cap Searchers = {}
  /\ KeyOf \in [Changers -> Nat \ {0}]
  /\ \A t, u \in Changers : t # u => KeyOf[t] # KeyOf[u]
  /\ Capacity \in Nat /\ GrownCapacity \in Nat /\ Capacity < GrownCapacity /\ Start \in Nat
  /\ \A team \in Teams :
       /\ team.threads \subseteq Changers /\ IsFiniteSet(team.threads)
       /\ team.targets \subseteq Keys
       /\ team.load \subseteq Nat \ {0} /\ IsFiniteSet(team.load)
       /\ Added(team) \cap team.load = {} /\ Taken(team) \subseteq team.load
       /\ \/ Cardinality(team.load \cup Added(team)) <= Capacity
          \/ /\ Cardinality(team.load) = Capacity
             /\ Cardinality(team.load \cup Added(team)) <= GrownCapacity
       /\ Cardinality(team.load \ Taken(team)) > 1

(* The root, an inner node, and the node16 that an inserter may make.      *)
Nodes == {"root", "inner"} \cup Inserters
Cells == 0 .. GrownCapacity - 1

ASSUME NamesAssumption == {"root", "inner"} \cap Inserters = {}

VARIABLES at,           \* the node4 that the keys are in; never changes
          target,       \* target[s]: the key s looks up; never changes
          version,      \* the lock word of each node
          node,         \* keys[], children[] and num_children of each node
          ref,          \* the node that t->root or the child pointer leads to
          gone,         \* the nodes that have been freed
          pc,           \* pc[t]: the next step of t
          on,           \* on[t]: the node t is at work on or reads
          room,         \* room[t]: isNodeFull() has told inserter t of room
          ver, pver,    \* the versions t has read of the node and of its parent
          i,            \* t's index into the cells
          reg,          \* what t has loaded to add to, or to follow
          freed,        \* the leaves that the collector has freed
          crashed,      \* the program has ended abnormally
          stored,       \* the keys whose insert is done and whose removal has not begun
          clash,        \* two changes of the node have overlapped, or one has
                        \*   begun on a node that another had replaced
          events,       \* events[s]: what has happened since s started: the
                        \*   "unlock" of the node it reads, since it read ver,
                        \*   a "removal", or the end of an insert in a new node,
                        \*   the "growth"
          due           \* the searchers whose key was stored when they started

shared == <<version, node, ref, gone, freed, crashed>>
locals == <<on, room, ver, pver, i, reg>>
history == <<stored, clash, events, due>>
vars == <<at, target, shared, pc, locals, history>>

-------------------------------------------------------------------------------
Insert(t) == t \in Inserters
Search(t) == t \in Searchers

Labels == {"start", "follow", "version", "full", "lockParent", "lock", "lockFull", "position",
           "copyKeys", "copyCount", "publish", "freeNode", "keys", "children", "setKey", "setChild",
           "count", "add", "unlock", "unlockParent", "scan", "child", "free", "checkRoot", "checkNull",
           "checkLeaf", "done", "found", "missed"}

(* A search between its load of the version and its last comparison.       *)
Reading(s) == pc[s] \in {"checkRoot", "scan", "child", "checkNull", "checkLeaf"}

(* t is at work on the cells of the node, from what it has read of them to *)
(* the last one it writes.                                                 *)
Working(t) == /\ t \in Changers
              /\ pc[t] \in {"position", "copyKeys", "copyCount", "publish", "freeNode", "keys",
                           "children", "setKey", "setChild", "count", "add", "unlock", "scan",
                           "child"}

Ended(t) == pc[t] \in {"done", "found", "missed"}

(* The node an insert was called with, which add_child() may have replaced *)
(* by another, and its parent.                                             *)
Called(t) == IF on[t] = t THEN at ELSE on[t]
Parent(t) == IF at = "root" THEN Called(t) ELSE "root"

Room(n) == IF n \in Inserters THEN GrownCapacity ELSE Capacity

Empty == [keys |-> [j \in Cells |-> 0], children |-> [j \in Cells |-> 0], count |-> 0]

Goto(t, l) == pc' = [pc EXCEPT ![t] = l]

(* The locals of t are gone.                                               *)
Return(t) == /\ on' = [on EXCEPT ![t] = at] /\ room' = [room EXCEPT ![t] = FALSE]
             /\ ver' = [ver EXCEPT ![t] = 0] /\ pver' = [pver EXCEPT ![t] = 0]
             /\ i' = [i EXCEPT ![t] = 0] /\ reg' = [reg EXCEPT ![t] = 0]

(* The history of a step that begins a change of node n.                   *)
BeginWork(t, n) == clash' = (clash \/ n \in gone \/ \E u \in Changers \ {t} : Working(u))

Init ==
  /\ at \in {"root", "inner"}
  /\ version = [n \in Nodes |-> IF n \in Inserters THEN 0 ELSE Start]
  /\ \E team \in Teams :
       /\ target \in [Searchers -> team.targets]
       /\ stored = team.load
       /\ pc = [t \in Threads |-> IF t \in team.threads \cup Searchers THEN "start" ELSE "done"]
  /\ ref = at /\ gone = {}
  /\ node = LET cell(j) == IF j < Cardinality(stored)
                             THEN CHOOSE k \in stored : Cardinality({l \in stored : l < k}) = j
                             ELSE 0
                cells == [j \in Cells |-> cell(j)]
            IN [n \in Nodes |->
                  IF n # at THEN Empty
                  ELSE [keys |-> cells, children |-> cells, count |-> Cardinality(stored)]]
  /\ on = [t \in Threads |-> at] /\ room = [t \in Threads |-> FALSE]
  /\ ver = [t \in Threads |-> 0] /\ pver = [t \in Threads |-> 0]
  /\ i = [t \in Threads |-> 0] /\ reg = [t \in Threads |-> 0]
  /\ freed = {} /\ crashed = FALSE
  /\ clash = FALSE
  /\ events = [s \in Searchers |-> {}] /\ due = {}

-------------------------------------------------------------------------------
(* The operations on a lock word.  Bit 0 is to mean obsolete and bit 1     *)
(* locked, but nobody looks at them: readLockOrRestart() forgets that it   *)
(* has seen an obsolete node, and waits for no lock.                       *)
WriteUnlock(n) == [version EXCEPT ![n] = @ + 2]
WriteUnlockObsolete(n) == [version EXCEPT ![n] = @ + 3]

(* upgradeToWriteLockOrRestart(n, v, needRestart).                         *)
Upgrade(n, v) == IF version[n] = v THEN [version EXCEPT ![n] = @ + 2] ELSE version

(* The other one, which unlocks another node if it fails.  That a version  *)
(* is not v any more is for good, so the two accesses make one step.       *)
UpgradeOrUnlock(n, v, locked) == IF version[n] = v THEN Upgrade(n, v) ELSE WriteUnlock(locked)

-------------------------------------------------------------------------------
(* Inserts and searches go to the root, and below it if the keys are       *)
(* there.  For a search the version of the root and the pointer in it make *)
(* one step, as it compares the version afterwards; at the root the parent *)
(* of an insert is the root itself, with the version 0.                    *)
ReadRoot(t) ==
  /\ pc[t] = "start"
  /\ pver' = [pver EXCEPT ![t] = IF at = "root" THEN 0 ELSE version["root"]]
  /\ i' = [i EXCEPT ![t] = 0]
  /\ IF Insert(t) /\ at = "inner"
       THEN Goto(t, "follow") /\ UNCHANGED on
       ELSE Goto(t, "version") /\ on' = [on EXCEPT ![t] = ref]
  /\ IF Search(t)
       THEN /\ events' = [events EXCEPT ![t] =
                            {e \in {"removal"} : \E r \in Removers : Working(r)}]
            /\ due' = IF target[t] \in stored THEN due \cup {t} ELSE due \ {t}
       ELSE UNCHANGED <<events, due>>
  /\ UNCHANGED <<at, target, shared, room, ver, reg, stored, clash>>

(* The pointer in the root, for the recursive call of an insert.           *)
FollowRoot(t) ==
  /\ pc[t] = "follow"
  /\ on' = [on EXCEPT ![t] = ref]
  /\ Goto(t, "version")
  /\ UNCHANGED <<at, target, shared, room, ver, pver, i, reg, history>>

(* Mutant: an obsolete node does cause a restart. *)
ReadVersionUnlessObsolete(t) ==
  /\ pc[t] = "version"
  /\ IF Search(t) /\ version[on[t]] % 2 = 1
       THEN Goto(t, "start") /\ UNCHANGED <<ver, events>>
       ELSE /\ ver' = [ver EXCEPT ![t] = version[on[t]]]
            /\ Goto(t, IF Insert(t) THEN "full" ELSE IF at = "inner" THEN "checkRoot" ELSE "scan")
            /\ events' = IF Search(t) THEN [events EXCEPT ![t] = @ \ {"unlock"}] ELSE events
  /\ UNCHANGED <<at, target, shared, on, room, pver, i, reg, stored, clash, due>>

(* A search below the root first compares the version of the root; that    *)
(* and the load make one step, as the root is compared again afterwards.   *)
ReadVersion(t) ==
  /\ pc[t] = "version"
  /\ IF Search(t) /\ at = "inner" /\ version["root"] # pver[t]
       THEN Goto(t, "start") /\ UNCHANGED <<ver, events>>
       ELSE /\ ver' = [ver EXCEPT ![t] = version[on[t]]]
            /\ Goto(t, IF Insert(t) THEN "full" ELSE IF at = "inner" THEN "checkRoot" ELSE "scan")
            /\ events' = IF Search(t) THEN [events EXCEPT ![t] = @ \ {"unlock"}] ELSE events
  /\ UNCHANGED <<at, target, shared, on, room, pver, i, reg, stored, clash, due>>

-------------------------------------------------------------------------------
(* mv_recursive_insert(): its byte has no child.  isNodeFull() answers     *)
(* whether there is room.                                                  *)
IsNodeFull(t) ==
  /\ pc[t] = "full"
  /\ room' = [room EXCEPT ![t] = node[on[t]].count < Room(on[t])]
  /\ Goto(t, IF room'[t] THEN "lockParent" ELSE "lockFull")
  /\ UNCHANGED <<at, target, shared, on, ver, pver, i, reg, history>>

(* That the locks are taken is not looked at.                              *)
LockParent(t) ==
  /\ pc[t] = "lockParent"
  /\ version' = Upgrade(Parent(t), pver[t])
  /\ Goto(t, "lock")
  /\ UNCHANGED <<at, target, node, ref, gone, freed, crashed, locals, history>>

Lock(t) ==
  /\ pc[t] = "lock"
  /\ version' = UpgradeOrUnlock(on[t], ver[t], Parent(t))
  /\ Goto(t, "position")
  /\ BeginWork(t, on[t])
  /\ UNCHANGED <<at, target, node, ref, gone, freed, crashed, locals, stored, events, due>>

(* In a full node the version of the parent is compared, for nothing.      *)
LockFull(t) ==
  /\ pc[t] = "lockFull"
  /\ version' = Upgrade(on[t], ver[t])
  /\ Goto(t, "position")
  /\ BeginWork(t, on[t])
  /\ UNCHANGED <<at, target, node, ref, gone, freed, crashed, locals, stored, events, due>>

-------------------------------------------------------------------------------
FirstOf(S, otherwise) == IF S = {} THEN otherwise ELSE CHOOSE j \in S : \A l \in S : j <= l

(* add_child4() and add_child16(): the first cell with a greater key, one  *)
(* cell after another in a node4, all at once in a node16.  The test for   *)
(* room and the first test of the loop are one load of num_children.       *)
Position(t) ==
  /\ pc[t] = "position"
  /\ LET n == node[on[t]]  k == KeyOf[t] IN
     IF on[t] \in Inserters
       THEN /\ i' = [i EXCEPT ![t] = FirstOf({j \in 0 .. n.count - 1 : k < n.keys[j]}, n.count)]
            /\ Goto(t, "keys")
       ELSE /\ i[t] > 0 \/ n.count < Capacity
            /\ IF i[t] < n.count /\ k >= n.keys[i[t]]
                 THEN i' = [i EXCEPT ![t] = @ + 1] /\ UNCHANGED pc
                 ELSE Goto(t, "keys") /\ UNCHANGED i
  /\ UNCHANGED <<at, target, shared, on, room, ver, pver, reg, history>>

(* add_child4() without room: a new node, which is t's, takes the children *)
(* and the keys, and copy_header() their number; nobody else sees it yet.  *)
Copied(n, cells) == [j \in Cells |-> IF j < node[n].count THEN cells[j] ELSE 0]

CopyChildren(t) ==
  /\ pc[t] = "position"
  /\ on[t] \notin Inserters /\ i[t] = 0 /\ node[on[t]].count >= Capacity
  /\ node' = [node EXCEPT ![t].children = Copied(on[t], node[on[t]].children)]
  /\ Goto(t, "copyKeys")
  /\ UNCHANGED <<at, target, version, ref, gone, freed, crashed, locals, history>>

CopyKeys(t) ==
  /\ pc[t] = "copyKeys"
  /\ node' = [node EXCEPT ![t].keys = Copied(on[t], node[on[t]].keys)]
  /\ Goto(t, "copyCount")
  /\ UNCHANGED <<at, target, version, ref, gone, freed, crashed, locals, history>>

CopyCount(t) ==
  /\ pc[t] = "copyCount"
  /\ node' = [node EXCEPT ![t].count = node[on[t]].count]
  /\ Goto(t, "publish")
  /\ UNCHANGED <<at, target, version, ref, gone, freed, crashed, locals, history>>

(* *ref = new_node; free(n); add_child16(new_node, ...).                   *)
Publish(t) ==
  /\ pc[t] = "publish"
  /\ ref' = t
  /\ Goto(t, "freeNode")
  /\ UNCHANGED <<at, target, version, node, gone, freed, crashed, locals, history>>

FreeNode(t) ==
  /\ pc[t] = "freeNode"
  /\ gone' = gone \cup {on[t]}
  /\ on' = [on EXCEPT ![t] = t]
  /\ Goto(t, "position")
  /\ UNCHANGED <<at, target, version, node, ref, freed, crashed, room, ver, pver, i, reg, history>>

(* The two memmove()s: up to make room, down to close a gap.  num_children *)
(* is read for each; less than nothing to move is more than there is       *)
(* memory.  An array has a few cells and is moved at once.                 *)
Last(t) == LET count == node[on[t]].count IN IF Insert(t) THEN count ELSE count - 1

(* Mutant: the last cell is not moved. *)
MovedButLast(t, cells, last) ==
  IF Insert(t) THEN [j \in Cells |-> IF i[t] < j /\ j < last THEN cells[j - 1] ELSE cells[j]]
               ELSE [j \in Cells |-> IF i[t] <= j /\ j < last - 1 THEN cells[j + 1] ELSE cells[j]]

Moved(t, cells, last) ==
  IF Insert(t) THEN [j \in Cells |-> IF i[t] < j /\ j <= last THEN cells[j - 1] ELSE cells[j]]
               ELSE [j \in Cells |-> IF i[t] <= j /\ j < last THEN cells[j + 1] ELSE cells[j]]

MoveKeys(t) ==
  /\ pc[t] = "keys"
  /\ crashed' = (i[t] > Last(t))
  /\ node' = [node EXCEPT ![on[t]].keys = Moved(t, @, Last(t))]
  /\ Goto(t, "children")
  /\ UNCHANGED <<at, target, version, ref, gone, freed, locals, history>>

(* Mutant: a removal closes the gap among the keys only. *)
MoveChildrenOfInsert(t) ==
  /\ pc[t] = "children"
  /\ crashed' = (i[t] > Last(t))
  /\ node' = IF Insert(t) THEN [node EXCEPT ![on[t]].children = Moved(t, @, Last(t))] ELSE node
  /\ Goto(t, IF Insert(t) THEN "setKey" ELSE "count")
  /\ UNCHANGED <<at, target, version, ref, gone, freed, locals, history>>

MoveChildren(t) ==
  /\ pc[t] = "children"
  /\ crashed' = (i[t] > Last(t))
  /\ node' = [node EXCEPT ![on[t]].children = Moved(t, @, Last(t))]
  /\ Goto(t, IF Insert(t) THEN "setKey" ELSE "count")
  /\ UNCHANGED <<at, target, version, ref, gone, freed, locals, history>>

SetKey(t) ==
  /\ pc[t] = "setKey"
  /\ node' = [node EXCEPT ![on[t]].keys[i[t]] = KeyOf[t]]
  /\ Goto(t, "setChild")
  /\ UNCHANGED <<at, target, version, ref, gone, freed, crashed, locals, history>>

SetChild(t) ==
  /\ pc[t] = "setChild"
  /\ node' = [node EXCEPT ![on[t]].children[i[t]] = KeyOf[t]]
  /\ Goto(t, "count")
  /\ UNCHANGED <<at, target, version, ref, gone, freed, crashed, locals, history>>

(* num_children++ and num_children-- are a load and a store.               *)
LoadCount(t) ==
  /\ pc[t] = "count"
  /\ reg' = [reg EXCEPT ![t] = node[on[t]].count]
  /\ Goto(t, "add")
  /\ UNCHANGED <<at, target, shared, on, room, ver, pver, i, history>>

(* Mutant: a removed child counts twice. *)
StoreCountTwice(t) ==
  /\ pc[t] = "add"
  /\ node' = [node EXCEPT ![on[t]].count = IF Insert(t) THEN reg[t] + 1 ELSE reg[t] - 2]
  /\ Goto(t, IF Insert(t) THEN "unlock" ELSE "free")
  /\ UNCHANGED <<at, target, version, ref, gone, freed, crashed, locals, history>>

StoreCount(t) ==
  /\ pc[t] = "add"
  /\ node' = [node EXCEPT ![on[t]].count = IF Insert(t) THEN reg[t] + 1 ELSE reg[t] - 1]
  /\ Goto(t, IF Insert(t) THEN "unlock" ELSE "free")
  /\ UNCHANGED <<at, target, version, ref, gone, freed, crashed, locals, history>>

(* The searches of the node that t unlocks, and of the one it has made,    *)
(* which it never locked and whose version it leaves as it is.             *)
Unlocked(t) ==
  [s \in Searchers |-> events[s] \cup {e \in {"unlock"} : on[s] = Called(t)}
                                \cup {e \in {"growth"} : on[s] = t}]

(* Mutant: the lock is given back as it was. *)
UnlockSameVersion(t) ==
  /\ pc[t] = "unlock"
  /\ version' = [version EXCEPT ![Called(t)] = ver[t]]
  /\ stored' = stored \cup {KeyOf[t]}
  /\ events' = Unlocked(t)
  /\ Goto(t, "unlockParent")
  /\ UNCHANGED <<at, target, node, ref, gone, freed, crashed, locals, clash, due>>

(* With room left a node is unlocked as if it had been replaced, and one   *)
(* that has been replaced and freed as if it had not.                      *)
Unlock(t) ==
  /\ pc[t] = "unlock"
  /\ version' = IF room[t] THEN WriteUnlockObsolete(Called(t)) ELSE WriteUnlock(Called(t))
  /\ stored' = stored \cup {KeyOf[t]}
  /\ events' = Unlocked(t)
  /\ IF room[t] THEN Goto(t, "unlockParent") /\ UNCHANGED locals
                ELSE Goto(t, "done") /\ Return(t)
  /\ UNCHANGED <<at, target, node, ref, gone, freed, crashed, clash, due>>

UnlockParent(t) ==
  /\ pc[t] = "unlockParent"
  /\ version' = WriteUnlock(Parent(t))
  /\ Goto(t, "done") /\ Return(t)
  /\ UNCHANGED <<at, target, node, ref, gone, freed, crashed, history>>

-------------------------------------------------------------------------------
(* recursive_deleteGC(): no version is read or changed on the way.         *)
StartRemoval(t) ==
  /\ pc[t] = "start"
  /\ on' = [on EXCEPT ![t] = ref]
  /\ Goto(t, "scan")
  /\ BeginWork(t, ref)
  /\ stored' = stored \ {KeyOf[t]}
  /\ events' = [s \in Searchers |-> events[s] \cup {"removal"}]
  /\ UNCHANGED <<at, target, shared, room, ver, pver, i, reg, due>>

Wanted(t) == IF Search(t) THEN target[t] ELSE KeyOf[t]

(* find_child() of a search or a removal: in a node4 one cell after        *)
(* another, where the end of the loop is read each time, in a node16 all   *)
(* cells at once.                                                          *)
Scan(t) ==
  /\ pc[t] = "scan"
  /\ LET n == node[on[t]]
         j == IF on[t] \in Inserters
                THEN FirstOf({l \in 0 .. n.count - 1 : n.keys[l] = Wanted(t)}, n.count)
                ELSE i[t]
     IN IF j >= n.count
          THEN Goto(t, IF Search(t) THEN "checkNull" ELSE "done") /\ UNCHANGED i
          ELSE IF n.keys[j] = Wanted(t) THEN Goto(t, "child") /\ i' = [i EXCEPT ![t] = j]
          ELSE i' = [i EXCEPT ![t] = j + 1] /\ UNCHANGED pc
  /\ UNCHANGED <<at, target, shared, on, room, ver, pver, reg, history>>

(* The pointer in the cell is followed.  A removal goes on if the leaf is  *)
(* that of its key.                                                        *)
LoadChild(t) ==
  /\ pc[t] = "child"
  /\ LET leaf == node[on[t]].children[i[t]] IN
     IF Search(t)
       THEN /\ reg' = [reg EXCEPT ![t] = leaf]
            /\ Goto(t, IF leaf = 0 THEN "checkNull" ELSE "checkLeaf")
       ELSE Goto(t, IF leaf = KeyOf[t] THEN "keys" ELSE "done") /\ UNCHANGED reg
  /\ UNCHANGED <<at, target, shared, on, room, ver, pver, i, history>>

(* free(l), in art_deleteGC().                                             *)
Free(t) ==
  /\ pc[t] = "free"
  /\ freed' = freed \cup {KeyOf[t]}
  /\ Goto(t, "done") /\ Return(t)
  /\ UNCHANGED <<at, target, version, node, ref, gone, crashed, history>>

-------------------------------------------------------------------------------
(* Back to the label restart, if the version of the node is another one.   *)
Restart(s) ==
  /\ \/ pc[s] = "checkRoot" /\ version["root"] # pver[s]
     \/ pc[s] \in {"checkNull", "checkLeaf"} /\ version[on[s]] # ver[s]
  /\ Goto(s, "start") /\ Return(s)
  /\ UNCHANGED <<at, target, shared, history>>

CheckRoot(s) ==
  /\ pc[s] = "checkRoot" /\ version["root"] = pver[s]
  /\ Goto(s, "scan")
  /\ UNCHANGED <<at, target, shared, locals, history>>

(* Mutant: nothing is compared before nullptr is returned. *)
ReturnNullUnchecked(s) ==
  /\ pc[s] = "checkNull"
  /\ Goto(s, "missed") /\ Return(s)
  /\ UNCHANGED <<at, target, shared, history>>

ReturnNull(s) ==
  /\ pc[s] = "checkNull" /\ version[on[s]] = ver[s]
  /\ Goto(s, "missed") /\ Return(s)
  /\ UNCHANGED <<at, target, shared, history>>

(* The version is compared twice, with nothing in between; then the key of *)
(* the leaf is.  What is read of a freed leaf may be anything.             *)
CompareKey(s) ==
  /\ pc[s] = "checkLeaf" /\ version[on[s]] = ver[s]
  /\ IF reg[s] \notin freed
       THEN /\ Goto(s, IF reg[s] = target[s] THEN "found" ELSE "missed")
            /\ UNCHANGED crashed
       ELSE /\ \E l \in {"found", "missed"} : Goto(s, l)
            /\ crashed' \in BOOLEAN
  /\ Return(s)
  /\ UNCHANGED <<at, target, version, node, ref, gone, freed, history>>

-------------------------------------------------------------------------------
(* The node that t accesses next.                                          *)
Touched(t) == IF pc[t] = "unlock" THEN Called(t)
              ELSE IF pc[t] \in {"lockParent", "unlockParent"} THEN Parent(t)
              ELSE on[t]

(* Instead of what it does with a node, t can come to grief if the node    *)
(* has been freed, and a search can be told anything.                      *)
Stray(t) ==
  /\ pc[t] \notin {"start", "follow", "publish", "free"} /\ ~Ended(t)
  /\ Touched(t) \in gone
  /\ \/ crashed' = TRUE /\ UNCHANGED <<pc, locals>>
     \/ /\ Search(t) /\ UNCHANGED crashed
        /\ \E l \in {"start", "found", "missed"} : Goto(t, l)
        /\ Return(t)
  /\ UNCHANGED <<at, target, version, node, ref, gone, freed, history>>

SearchStep(t) ==
  \/ ReadRoot(t) \/ ReadVersion(t) \/ Scan(t) \/ LoadChild(t) \/ Restart(t)
  \/ CheckRoot(t) \/ ReturnNull(t) \/ CompareKey(t) \/ Stray(t)

InsertStep(t) ==
  \/ ReadRoot(t) \/ FollowRoot(t) \/ ReadVersion(t) \/ IsNodeFull(t)
  \/ LockParent(t) \/ Lock(t) \/ LockFull(t)
  \/ CopyChildren(t) \/ CopyKeys(t) \/ CopyCount(t) \/ Publish(t) \/ FreeNode(t)
  \/ Position(t) \/ MoveKeys(t) \/ MoveChildren(t) \/ SetKey(t) \/ SetChild(t)
  \/ LoadCount(t) \/ StoreCount(t) \/ Unlock(t) \/ UnlockParent(t) \/ Stray(t)

RemoveStep(t) ==
  \/ StartRemoval(t) \/ Scan(t) \/ LoadChild(t) \/ MoveKeys(t) \/ MoveChildren(t)
  \/ LoadCount(t) \/ StoreCount(t) \/ Free(t) \/ Stray(t)

Step == \/ \E s \in Searchers : SearchStep(s)
        \/ \E t \in Inserters : InsertStep(t)
        \/ \E t \in Removers : RemoveStep(t)

(* The program ends when all its threads have ended.                       *)
End == (crashed \/ \A t \in Threads : Ended(t)) /\ UNCHANGED vars

Next == (~crashed /\ Step) \/ End

Spec == Init /\ [][Next]_vars

(* A thread that searches is scheduled again and again; one that changes   *)
(* the node may stop for ever, also with the lock in its hands.            *)
FairSpec == Spec /\ \A s \in Searchers : WF_vars(~crashed /\ SearchStep(s))
-------------------------------------------------------------------------------
(* Among the types: the node is never left with one child, which would     *)
(* join it with that child, nor with more than it has cells.               *)
TypeOK ==
  /\ at \in {"root", "inner"} /\ ref \in {at} \cup Inserters /\ gone \subseteq {at}
  /\ target \in [Searchers -> Keys]
  /\ version \in [Nodes -> Nat]
  /\ node \in [Nodes -> [keys : [Cells -> Keys \cup {0}], children : [Cells -> Keys \cup {0}],
                         count : 0 .. GrownCapacity]]
  /\ node[ref].count \in 2 .. Room(ref)
  /\ pc \in [Threads -> Labels]
  /\ on \in [Threads -> Nodes] /\ room \in [Threads -> BOOLEAN]
  /\ ver \in [Threads -> Nat] /\ pver \in [Threads -> Nat]
  /\ i \in [Threads -> 0 .. GrownCapacity] /\ reg \in [Threads -> Nat]
  /\ freed \subseteq Keys /\ crashed \in BOOLEAN
  /\ stored \subseteq Keys /\ clash \in BOOLEAN
  /\ events \in [Searchers -> SUBSET {"unlock", "removal", "growth"}] /\ due \subseteq Searchers

(* A search that gets through its last comparison has overlapped no unlock *)
(* of the node it reads: between the load of the version and the           *)
(* comparison the word only grows, whichever of the upgrades fail and      *)
(* whatever the lock and obsolete bits have become (ArtCPP.hpp:117, :161,  *)
(* :1329).                                                                 *)
UnlocksAreSeen ==
  \A s \in Searchers : Reading(s) /\ "unlock" \in events[s] => version[on[s]] # ver[s]

(* Where no two changes have overlapped, a node at rest is sound: sorted,  *)
(* each key beside its own leaf, exactly the keys that have been inserted  *)
(* and not been collected, and no leaf that has been freed; also if it has *)
(* been put in the place of another while it was not yet complete          *)
(* (ArtCPP.hpp:597).                                                       *)
NodeAtRestIsSound ==
  ~clash /\ ~crashed /\ (\A t \in Changers : ~Working(t)) =>
    LET n == node[ref] IN
    /\ n.count = Cardinality(stored)
    /\ {n.children[j] : j \in 0 .. n.count - 1} = stored
    /\ \A j \in 0 .. n.count - 1 : /\ n.children[j] = n.keys[j]
                                   /\ \A l \in 0 .. j - 1 : n.keys[l] < n.keys[j]

(* A search does not find a key that has been there all the time only if   *)
(* it overlaps a removal, or an insert is at work on the node while the    *)
(* search ends, or the node is one that has been freed, or one that an     *)
(* insert has made and gone on to add to, or two changes have once         *)
(* overlapped: an insert into a node that was there before makes a search  *)
(* that it overlaps start again (ArtCPP.hpp:129, :161, :606).              *)
MissesExplained ==
  [][\A s \in Searchers :
       s \in due /\ pc[s] # "missed" /\ pc'[s] = "missed" =>
         \/ clash \/ on[s] \in gone \/ events[s] \cap {"removal", "growth"} # {}
         \/ \E t \in Inserters : Working(t)]_vars

(* The program does not end abnormally unless two changes overlap, which   *)
(* can make the length of a memmove() negative, or a search overlaps a     *)
(* removal, which frees the leaf it may have in its hands, or an insert    *)
(* has replaced the node, which it frees and still unlocks.                *)
CrashNeedsOverlap ==
  crashed => clash \/ gone # {} \/ \E s \in Searchers : "removal" \in events[s]

(* No search restarts for ever, nor waits for another thread: each restart *)
(* takes a step of an insert, and a node that is locked, or that has been  *)
(* unlocked as obsolete, is read all the same.                             *)
SearchesEnd == <>(crashed \/ \A s \in Searchers : Ended(s))
===============================================================================
