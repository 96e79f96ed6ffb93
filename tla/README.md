# Verification of MVCCART

MVCCART keeps multi-version records in an adaptive radix tree (ART). Transactions run in threads of
their own: they find a record by its key and install new versions of it, and a thread collects deleted
keys. This directory holds TLA+ models of that code, the TLC runs that check them on small instances,
and proofs that TLAPS checks for every value of the constants. All paths below `src/` refer to the
repository; `PROJECT.json` maps every definition to the lines it stands for.

## 1. The system

### Components

| component | state | operations | modelled by |
|---|---|---|---|
| Record: `mvcc11::mvcc`, `snapshot` (`mvcc/`) | `mutable_current_`; of each snapshot `version`, `end_version`, `value`, `_older_snapshot` | `current`, `overwriteMV`, `update`, `try_update`, `try_update_until/for`, `deleteMV` | `MvccRecord`, promise `VersionOrder` |
| ART nodes (`ART/ArtCPP.hpp`) | type, `num_children`, bytes, child pointers, in four layouts | `find_child`, `add_child*`, `remove_child*`, `minimum`, `maximum` | `ArtNodes`, `ArtNode`, promise `ByteMap` |
| ART tree (same file) | root, `size`; leaves with key and record; prefixes of which 10 bytes are kept | `insertOrUpdateByKey`, `updateAllByPredicate`, `deleteByKey`, `findValueByKey`, `iterate`, `art_iter_prefix`, `art_deleteGC` | `ArtTree`, `ArtTreeScans`, promise `KeyStore` |
| Garbage collection (`ArtCPP::GC`) | write set of each transaction, `deletionList` | the two loops of `GC()` | `Workload` (entry by entry), `ArtTree` (nodes) |
| Lock words (lines 67-189) and what they protect | version of a node: lock bit, obsolete bit, counter; the cells of the node | read/upgrade/unlock; the steps of `mv_recursive_insert`, `add_child`, `art_search_OCC`, `UpdateIterative`, `recursive_deleteGC` at one node; the recursion, the descent and the splits over several | `ArtLock` (one node), `ArtSplit` (several; a leaf taken for a node: `ArtTree`) |
| Transactions (`Transactions/transactionManager.h`) | `TransactionsStatus`, ids, a thread, a copy of the epoch | constructor, the thread functions, `CollectTransaction` | `MvccRecord`, `Workload` |
| Epochs (`Epochs.hpp`, `GlobalEpoch.hpp`) | counters of the active and the past epochs | add/decrement, `EpochThread` | `Workload` |
| Templates (`Transactions/*Templates*`) | local write and read sets | the phases of a transaction body | `Workload` |
| `HashMapTable` (`table/`) | map, mutex, observers | `insert`, `updateByKey`, `updateOrDeleteByKey`, `updateWhere`, `deleteByKey`, `deleteWhere`, `getByKey`, `select`, `drop`, notifications | `HashMapTable` |
| Tuples and their streams (`core/Tuple.hpp`, `core/serialize.hpp`) | attributes, null bits | copy, serialize, deserialize | `Tuples` |
| Catalogue, parsers, timestamps, punctuation (`table/`, `core/`) | values | sequential helpers, opaque to versions and keys | not modelled |
| Vendored `fmt-master`, `libcpp`; generated files; word lists | - | - | not modelled |

### How they interact

Main constructs a `Transaction` (status "Active"), which starts a thread on the body of a template.
The body calls the tree; the tree finds the leaf and calls the record in it; the record reads the status
of the transaction that made the version it has found. A call that has written pushes a copy of the leaf
to the write set of its transaction. Main joins the threads one by one and sets the status to
"Committed" (`CollectTransaction`): nothing else changes a status, so a thread that waits for a status
waits for main. An epoch thread wakes up every 50 ms, and calls `GC()` when all counters are 0. `GC()`
reads all write sets, lists the keys whose newest version is ended, clears the write sets, and removes
the keys from the tree.

Inside the tree, inserts, searches and the collector meet at a node. They share its cells, and a version
that inserts add to and searches compare; the collector knows nothing of it. `HashMapTable` is used beside the
tree, by the streaming layer: its threads share a map and a mutex, and call observers.

### What is hard here, and what makes each part correct

* **Record.** A call is a load, a check, an *ordinary* store of the end, a compare-and-swap and a late
  link, on a snapshot that others reach too. It is correct if versions stay one line of descent, no
  update is lost, an end says what it should, what a reader holds is stable, and waiting ends.
* **Nodes.** Four layouts, counters of 8 bits, unbounded slot searches, shrinking tests for equality.
  A node is correct if it stays the same map across all changes of layout, within its arrays.
* **Tree.** Prefixes longer than what is kept must be recovered from a leaf after any history of splits,
  merges and collections; several descents with different ideas of a prefix must agree.
* **Collection.** Transactions count themselves in a *copy* of the epoch, so the collector runs beside
  them whatever they do, reads ends that are stored before a compare-and-swap, and clears write sets
  that are still being filled. It is correct if only deleted keys go, and all of them do.
* **Lock words.** Results of lock operations are ignored, `isNodeFull` answers the opposite, readers
  validate but do not wait, a node that replaces a full one is published before it is complete and never locked, and the
  full one is freed and then unlocked. A split publishes an empty node, writes to the cell it came by long ago, and shortens a prefix in
  place; a search that meets a prefix that does not match returns nothing without comparing any version. It is correct, as far as it is, if a version only grows, a node at
  rest is sound, a search misses nothing that it did not overlap, and searches end.
* **Table.** Observers are told of changes after the mutex has been released, or under it, through the row
  itself or through a copy; scans hold no mutex. It is correct if what observers are told adds up to the table.

`PROJECT.json` lists the hazards one by one, at their lines, with the properties that cover them.

## 2. The modules

```
promise                   system                         proofs (TLAPS)
VersionOrder <--refines-- MvccRecord   --> MCMvccRecord   MvccRecordProofs
ByteMap      <--refines-- ArtNode      --> MCArtNode      ArtNodeProofs
                          ArtNodes (operators of ArtNode and ArtTree)  ArtNodeLemmas
KeyStore     <--refines-- ArtTree                         ArtTreeProofs
                          ArtTreeScans --> MCArtTree      ArtTreeProofs        (iterations and scans of ArtTree)
                          ArtLock      --> MCArtLock      ArtLockProofs        (cells and versions of a node)
                          ArtSplit     --> MCArtSplit     ArtSplitChart, ArtSplitProofs        (splits and descents over several nodes)
                          Workload     --> MCWorkload     WorkloadProofs       (record steps + write sets + epochs + GC)
                          HashMapTable --> MCHashMapTable HashMapTableProofs
                          Tuples (operators of HashMapTable)
```

**`MvccRecord`**: one action is one access to shared memory. `Load`, `ReadEnd`, `Check`, `Stamp`,
`Install`/`LoseRace`, `LinkOlder` are the lines of `overwrite_implMV`, `deleteMV` and `try_update_impl` in order;
the kinds of calls differ in what they do when they fail (`Fail`). `Collect` is `CollectTransaction`. The name
of a snapshot is the call that allocates it, `<<transaction, n>>`; its value is the *set of snapshots
whose effect it contains*, which is what lost updates are seen by. `Pred` is the descent as the
compare-and-swaps have made it: the stored link, or, before it is stored, the `expected` of the thread
that is about to.

**`ArtNodes`** translates the node functions as operators on a record; **`ArtNode`** is the life of one node;
the tree calls the same operators. **`ArtTree`** has a subtree as a value and one action per
operation of the tree, by one thread at a time, with `Scan` and `Collect` for the loops of `GC()`. What the code does by recursion into a child is
a function of the number of hops, of which no way down has more than the longest key has bytes (`MaxLen`): `Way` is a descent, which for searches looks at the kept bytes of a prefix only, and for inserts
and deletions at all of them (`GoesOn`); `Changed` is the way back up, on which the child, or its absence, is put behind the pointer of its parent. So the
operators can be proved about. **`ArtTreeScans`** has the iterations, written by hops too: `Visit` works from the lowest level of the tree to the root, `ScanWay` is the loop of `art_iter_prefix`.

**`Workload`** puts together what the collector meets: main starts and collects transactions, bodies are
sequences of calls (`insert`, `update`, `delete`, `read`, `rewrite` of keys read, `check` of keys written),
the epoch thread wakes, scans entry by entry, removes key by key, and clears. Of a record it keeps the steps the
collector can come between; the load and the check are one step here, which `MvccRecord` keeps
apart. A leaf is identified by its key and the version its record is born with, so a key that is removed and
inserted again has another leaf. Undefined behaviour (use of a freed leaf, a `deleteByKey` that ends without
a `return`, an element of a set that has too few) is a choice between no effect and the end of the program
(`Crash`).

**`ArtLock`** is what `ArtTree` does in one step, cut at the accesses to memory that threads share: the version, each
cell, the two arrays that a `memmove` shifts, the load and the store of the counter. All keys meet in one `node4`, the root or
the child of it; a key, its byte and its leaf are one number. `ReadRoot` and `ReadVersion` are `readLockOrRestart`,
`FollowRoot` is the load of the pointer for the recursive call of an insert;
`IsNodeFull`, `LockParent`, `Lock`, `LockFull` the two branches at the end of `mv_recursive_insert`; `Position` to `StoreCount` are
`add_child4`/`16` and, for the collector, `remove_child4`; `CopyChildren` to `FreeNode` the branch that grows; `Restart`, `CheckRoot`,
`ReturnNull`, `CompareKey` the comparisons of a search. `room` is what `isNodeFull` has said, which decides which lock is
taken and which unlock is done whatever has happened since. The `history` variables only record what has overlapped.
Access to a freed node or leaf (`Stray`, `CompareKey`) is undefined: it does what it would have done, misleads a search, or ends the program.

**`ArtSplit`** has the other half of the same concurrency: a tree of several nodes, in which threads go down by the cells they read. `Call`, `ReadVersion`,
`ReadPrefix`, `Find`, `LoadChild` are the descent, which inserts and searches have in common (`mv_recursive_insert`, `art_search_OCC`; `ref` is the address
of the cell that has led to a node, which inserts write to later, whatever the cell holds by then). `SplitLeaf` is lines 1219 to 1252; `LockNode` to `ShortenPartial` are
1268 to 1284; `LockParent`, `Lock` and `Unlock`, `UnlockParent` the branch without a child; `Position` to `StoreCount` are `add_child4`, to which `todo` gives one or
two children, and `Into` the node. `CheckParent`, `Restart`, `ReturnChild` are the comparisons of a search. Cells are coarser than in `ArtLock`: a prefix, or the bytes
of a node, are read at once, and a key is shifted and stored together with its child. The split of a leaf locks and unlocks the leaf, which adds 4 to
a word of it that nobody reads while keys have fewer than 14 bytes, and is left out. `clash`, `crossed`, `due` and `stored` are history: whether two inserts have been in each
other's way (`InTheWay`), which searches have met a split or passed an insert (`Crosses`), and which keys have been there all the time.

**`HashMapTable`** takes each critical section as one action, cut where an observer is called: `Insert`, `UpdateByKey`, `GetByKey`,
`Drop` are whole, `Lock`, `Visit`, `Notify`, `Erase`, `Unlock` the loops that hold the mutex, `Select` and `Advance` the iterators that
do not. Observers are abstracted to ones that keep a copy of the table (`view`) and that may, or may not, read the table when told
(`Reenter`); this is what the notifications are for, and what they can get wrong. `ref` and `born` tell a row from a later one under the same
key, so that the use of an erased row is seen. Its rows are `Tuples`, whose copies lose the null bits, as in the code.

**`VersionOrder`**, **`ByteMap`**, **`KeyStore`** are what records, nodes and the tree promise: one atomic installation on
top of the newest version; a map from bytes to children; a set of keys, some marked, of which only
marked ones may be collected.

Definitions headed "Mutant" are plausible slips in the code next to the definition they alter; no
specification uses them. They show that each property fails where it should.

## 3. The runs

All sizes are bounds. A run is exhaustive within them.

| run | module, cfg | question | bounds |
|---|---|---|---|
| `record_races` | `MCMvccRecord`, `MvccRecord.cfg` | all races of three calls of any kinds on one record, main joining in any order: `SingleLine`, `NoLostUpdate`, `SupersededEnded`, `HeadEndExplained`, `SnapshotsAreStable`, refinement of `VersionOrder` | 3 transactions, 1 call each, 1 record; symmetric transactions (no liveness here) |
| `record_retries` | `MvccRecordLive.cfg` | calls that retry without bound end, or wait in a cycle that a deletion has closed: `EndsUnlessDeadlock`, `DeadlockNeedsDelete` | 2 transactions, 2 calls each, 2 records; main joins in the order of starting, as the tests do |
| `active_version` | `MvccActiveVersion.cfg` | violation, see findings | 2 transactions, 1 call |
| `delete_head` | `MvccDeleteHead.cfg` | violation, see findings | 2 transactions, 1 call |
| `node_layouts` | `MCArtNode`, `ArtNode.cfg` | every order of inserts and removals: `CountIsExact`, `Occupancy`, `NoThrashing`, refinement of `ByteMap` | 7 bytes; capacities 3, 4, 6 and shrinking at 2, 3, 4 instead of 4, 16, 48 and 3, 12, 37 |
| `tree_operations` | `MCArtTree`, `ArtTree.cfg` | every order of inserts, updates, deletions and collections: `TreeIsSound`, `SearchesAgree`, `IterationInOrder`, `PrefixScansFindAll`, refinement of `KeyStore` | 6 keys; 1 byte of a prefix kept, not 10; `size` at most 1 ahead of the keys |
| `long_keys` | `ArtTreeLongKeys.cfg` | violation, see findings | the same, the overlaid byte being the 4th instead of the 14th |
| `collection` | `MCWorkload`, `Workload.cfg` | one body that updates and checks, one that deletes, one that inserts, while the epoch thread collects: `DeletedAreCollected`, `UntouchedKeysStay`, and the list of epochs does not grow (`TypeOK`) | 2 keys, 3 transactions, at most 2 calls each; one of the keys has no 0 behind it in its leaf (`Clean`) |
| `collected_updates` | `WorkloadUpdates.cfg` | violation, see findings | 2 keys, 2 transactions that update and read back |
| `node_locks` | `MCArtLock`, `ArtLock.cfg` | two inserts, or an insert and the collector, at a node that has room or is full and grows, while a search reads it: `UnlocksAreSeen`, `NodeAtRestIsSound`, `MissesExplained`, `CrashNeedsOverlap`, `SearchesEnd` | 3 threads, one key each; 2 to 4 keys in a `node4` of 4, 6 cells in the `node16`; root and inner node |
| `splits` | `MCArtSplit`, `ArtSplit.cfg` | two inserts that add children and split leaves and prefixes, while a search goes down the tree: `TreeAtRestIsSound`, `MissesExplained`, `CrashNeedsClash`; no descent gets too deep or to a null pointer (`TypeOK`) | 3 threads, one key each of 5 bytes; a root and a node with a prefix of 2 below it, 3 keys in them; six pairs of inserts |
| `table` | `MCHashMapTable`, `HashMapTable.cfg` | calls of any kinds with observers that keep a copy: `ViewFollowsTable`, `ToldInOrder`, `CrashExplained`, `CallsEnd`; tuples survive a stream (`RowsSurviveStream`) | 2 threads, 2 calls each, 2 keys; tuples of 3 attributes |

**Why the bounds are enough.** Three calls suffice for every race of a record we know of: a winner, a loser, and a third
call that comes between any two of their steps; the second call per transaction in `record_retries` brings
waiting for what one's own transaction has not yet finished, and the second record brings cycles.
The theorems then cover every number. The shrunken layouts keep every relation of the real sizes
that the code relies on, stated as `SizesAssumption`: each layout shrinks below the capacity of
the next smaller one, and the largest can be full, with a counter that wraps to 0. With the byte order of a
`node16` signed, 7 bytes contain both signs. `ArtTree` gives its bytes a wider range, so that they are all
below 128, which `IterationInOrder` needs, and three of the keys have common prefixes that are longer than what is
kept, one below the other; prefix scans are asked for up to four bytes, each of which some key has in its place. `MaxDrift` bounds a counter that only grows. Two keys and three transactions let an
entry come before, during and after a scan, and a key be removed and inserted again.
In `node_locks` one insert goes between the keys of the node and one behind them, so that both a shift and an append meet the other change and
the search; a key that is looked up moves, stays or is removed. Its four teams have room for both changes or for none; the version starts at
9, so that it is never that of a fresh node. The six pairs of `splits` are: one leaf split twice; a leaf split whose cell is moved by an insert at the front; a prefix split above the
split of a leaf; a prefix split with a child added below it, and with a child added at the front of its parent, which moves its cell; and one prefix split twice. In `table`, two calls of two threads let a row be erased and inserted again while the other thread
is between its critical section and its notification, and two keys let a loop be between them.

**Deadlock** is not checked in the record and workload runs: they end when all transactions are collected (and
may really wait for one another, which `Deadlock` makes explicit). It is checked in the node and
tree runs, and in the lock, split and table runs, which end with an explicit `End`.

**Fairness.** `record_retries`: weak fairness of each thread and of each `Collect`: the operating system
runs every thread, main included, and a loop that retries is never blocked. No strong fairness is assumed: a
compare-and-swap may fail as long as others succeed. `collection`: weak fairness of the epoch thread only, which
is an endless loop with a `sleep_for`, and ends only if the program does. Transactions need not
make progress for `DeletedAreCollected`. `node_locks`: weak fairness of the searches only; an insert may stop for ever with a node locked, as no search waits for
it. `table`: weak fairness of each thread, which the scheduler gives; a mutex that is free often enough is got because the calls are bounded.

### Findings

Each is a run that TLC finds violated; quotes and lines are in `PROJECT.json`.

* `active_version`: the check before an install tests `end_version != INF` first, which a fresh version does not meet, so
  a version that an Active transaction has just made is replaced by another, contrary to the
  comment on the check.
* `delete_head`: `deleteMV` stores the end without comparing with the head; outrun by an update, it ends
  a superseded snapshot and reports success.
* `long_keys`: a leaf split locks the leaf, a tagged pointer, as a node: with a key of 14 bytes or more this adds 4 to a byte of the key, and the key is not found any more.
* `collected_updates`: since transactions register in a copy of the epoch, the collection runs beside them, and takes the
  end that an update stores before its compare-and-swap for a deletion: a key that was only updated
  is removed.

`DeletedAreCollected` speaks of entries that are in a write set while no collection goes on. An entry pushed between the scan and
the clearing of the write sets is lost and its key stays for ever: this is the hazard at `ArtCPP.hpp:1901`, and
the property says exactly what remains of the promise. Another effect seen in these runs: a thread that holds a leaf already collected
can push it late, and the next collection then removes the key although it has been inserted again. `UntouchedKeysStay` bounds such
effects: a key that no transaction has begun to change is never collected.

`PrefixScansFindAll` says what remains of "invoking a callback for each that matches a given prefix" (`ArtCPP.hpp:1589`): every key that matches is visited, and once. Others are visited
too if the scan has come by a node whose prefix agrees with the one asked for in its first byte and not in all of them, since it goes deeper then; without that exception the property
is violated. `deleteByKey` adds one to the size of the tree for a key that it does not find, which `MaxDrift` bounds.

The properties of `node_locks`, `splits` and `table` name their exceptions, each at a line of the code, and each is needed: without any one of them TLC finds a
violation. A search may miss a key that is there all the time if it overlaps a removal (`recursive_deleteGC` changes no version), if an insert is at work
when the search ends (nobody waits for a lock), if it reads a node that has been freed or one that an insert has put in its place and
goes on to add to (its version does not change), or if two changes have overlapped, as the results of the upgrades are ignored.
In `splits`, a search may miss a key that is there all the time if it meets the node of a split before that is complete, or the node whose prefix is being shortened, or if an insert is at
work on a node as it goes on or ends there. Two inserts get in each other's way if one changes cells of a node that the other has reached, or of the parent whose cell the other may write to, if both are to write to
one cell, or if one shortens a prefix that the other has yet to read; then keys are lost or the program ends, since failed upgrades are ignored. All others leave a sound tree.
Observers may be told something else than what has happened to the table by `insert` for a key that is there, by `updateOrDeleteByKey` and `drop`, and when one
modification overtakes another outside the mutex.

## 4. What is proved

`MvccRecordProofs` proves, for any transactions, records, programs, number of calls and join order:

* `TypeCorrect`: `Spec => []TypeOK`;
* `OneLineOfDescent`: `[]SingleLine`; `UpdatesAreKept`: `[]NoLostUpdate`;
* `SupersededAreEnded`: `[]SupersededEnded`; `HeadEndsAreExplained`: `[]HeadEndExplained`;
* `SnapshotsStayStable`: the action property `SnapshotsAreStable`;
* `DeadlocksNeedDelete`: `[]DeadlockNeedsDelete`, threads wait in a cycle only over a deletion;
* `RecordImplementsOrder`: `Spec => Order!Spec`, the refinement of `VersionOrder`.

**Assumptions** are those of `MvccRecord`: the loader is not one of the concurrent transactions, `INF` is no transaction
and `Null` no snapshot, `MaxOps` is positive, programs are sequences of calls. `INF` is 99999 in the code, so
that `INF` is no id is an assumption on the number of transactions, not a fact. `JoinAssumption`: main joins one thread after another, so that of any set
of them one is joined first; without it main itself could wait in a cycle.

**The inductive invariant** is `IInv == TypeInv /\ Links /\ Chain /\ Ends /\ Values`.

* `TypeInv`: `TypeOK`, and where a thread is: its counter and its label agree, `expected` is set where it is used. Without it
  the call a thread executes could not be typed.
* `Links`: which links are set: only calls that have installed something have one, a record's first
  snapshot has none, and `expected` of a working call is an installed snapshot of its own record.
* `Chain`: heads are installed snapshots of their record, predecessors are so too, and `SingleLine`. The compare-and-swap
  is the only step that matters: `head = expected` and the freshness of `desired` give a new end of the line. The late
  link leaves `Pred` as it is (`LinkPred`), all other steps do (`QuietPred`).
* `Ends`: a call between its store and its compare-and-swap has ended its `expected` (`CasEnded`), which gives `SupersededEnded` at the swap; a snapshot
  not yet installed is open (`EndInstalled`). `HeadEndExplained` is inductive as it stands, given
  `TypeInv`: a thread that has ended the head explains it until its swap, and the swap fails only when the snapshot it has ended is no head
  any more; `EndInstalled` says that the new head comes without an end.
* `Values`: the value a call has prepared is that of its `expected` plus itself (`DesiredOK`), from which the swap
  proves `NoLostUpdate`.

`DeadlockNeedsDelete` follows from `HeadEndExplained` alone: a thread waits for a status because a head is ended; if nobody is about to replace the head, a deletion has
ended it. Were there none, everyone in the cycle would wait for main's order of joining, and of the ones in the cycle one is joined first.

The refinement then has one step of interest: `Install` maps to `VersionOrder!Install`, all others to a
stutter (`OrderStep`).

`ArtNodeProofs` proves about a node of any sizes that satisfy `SizesAssumption`, so also of the real 4, 16, 48 and 256 with the thresholds 3, 12 and 37:
`TypeCorrect`, `CountsAreExact`, `OccupancyHolds`, `NeverThrashes` and `NodeImplementsMap`, the refinement of `ByteMap`. The inductive invariant is

    IInv == Holds(node, Contents) /\ Occupied(node.type, Cardinality(Mapped(Contents)))

`Holds(n, f)` says for each layout that its arrays, its counter and its slots represent the map `f` from bytes to children: in a `node48` two bytes
never share a slot, in a `node256` the counter is the number of children modulo 256. It is needed since `CountIsExact` does not say that a free slot is
free of children, nor which byte a child belongs to. `Occupied` bounds the number of children by layout, so that the shrinking tests meet their number exactly and the
counter that has wrapped is never taken for one that has to shrink. The lemmas `Extended`, `Reduced` and `MadeOfTwo` of `ArtNodeLemmas` say what `add_child`, `remove_child`
and a new `node4` do to `Holds`, layout by layout, growing and shrinking included. `ChildrenAssumption` says that the null pointer is no child.

`ArtTreeProofs` proves of a tree worked on by one thread at a time, with any keys of which none is a prefix of another, any sizes of nodes and any number of kept prefix bytes (`MaxPrefix`):

* `TreeTypes` (`[]TypeOK`): write sets and deletion list name keys of the tree only, and `size` counts the keys and the failed deletions;
* `TreeStaysSound` (`[]TreeIsSound`): prefixes, kept bytes, bytes of children and the number of children are right in every node;
* `SearchesStayRight` (`[]SearchesAgree`): the search, the descent of inserts and deletions and the leaves agree on the keys;
* `TreeImplementsStore` (`Spec => Store!Spec`): the refinement of `KeyStore`;
* `ShortKeysStayFound` (`KeysStayFound`), the property that `long_keys` violates;
* `KeysStayListed` (`[]Lists(Visit(root), Stored)`): `iterate` calls back with every key once, whatever its bytes;
* `KeysStayInOrder` (`[]IterationInOrder`): and in the order of the bytes, for keys with `LowBytes`;
* `PrefixesStayFound` (`[]PrefixScansFindAll`): `art_iter_prefix` misses no key and calls back with none twice, and errs only where its loop goes on by a prefix that agrees in the first byte but not in all.

All have the hypothesis `ShortKeys == \A k \in Keys : Len(k) < LockedByte`: no key is long enough for the split of its leaf to change it. This is what the finding `long_keys` is about, and
`ShortKeysStayFound` says that it is the only reason for which the tree loses a key. Many words of the lists in `test_data/` have more than 13 bytes: about trees that hold them the theorems say nothing. The run `tree_operations` meets `ShortKeys` (6 bytes at most, `LockedByte` 14).
The other assumptions are `KeysAssumption`, `SettingsAssumption` and the `SizesAssumption` of the nodes. `LowBytes`, a hypothesis of `KeysStayInOrder` alone, has all bytes below 128: a `node16`
compares its bytes as signed numbers, so that of others the order is not that of the bytes, as `IterationInOrder` says. ASCII text has such bytes only.

The inductive invariant `IInv` is that the root represents its leaves, that the deletion list holds only keys whose records are ended, and that no write set is filled during a collection. `TreeIsSound` alone would not be inductive:
it does not say that a node's arrays represent a map, that a child is reached only by the bytes its parent lists, nor that what is below is a leaf or a node at all. `Rep(x, d, L)`, "the subtree `x` at depth `d` holds the leaves `L`", says all that, and is
a recursive notion; it is written without recursion as membership in a set closed under its one-step condition:
`\E R : <<x, d, L>> \in R /\ Closed(R)`. `Unfold` and `FoldInner` take it apart and build it, so that each operation needs to be followed one node at a time. `IInv` cannot be evaluated by TLC because of that quantifier; the parts of it
that TLC can see are `TypeOK`, `TreeIsSound` and `SearchesAgree`. The proof goes as follows.

* *Nodes.* `ArtNodeLemmas` has what each function of a node does to the map that the node represents, from which `PointerHolds` follows.
* *Ways.* `Hops`, `LevelsExist`, `SubtreesExist`, `ChangeExists`, `UpdateExists`: the functions by hops exist and obey their equations. An induction over the number of hops is argued from the least counterexample (`Upward`, `Downward`).
* *Prefixes.* `KeptBytes`, `Mismatch`: `check_prefix` and `prefix_mismatch` find how far a key agrees with all the keys below a node, also where the leaf that `minimum()` finds has to supply the bytes that are not kept. `Descent`: both descents stay with the keys that share all bytes read so far,
  so that a key that is stored is come to (`EndOfStored`) and one that is not ends at a null pointer, at another leaf or at a prefix that does not match (`EndOfNew`).
* *Changes.* `SplitLeafHolds`, `SplitPrefixHolds`, `MergeHolds`, `WithChildHolds`: what is put in the place where a descent ended represents the leaves it should; `ChangedHolds` carries that up to the root.
* *Iterations.* `Neat(n)`: the bytes of a `node4` or `node16` rise, if none is negative for the comparison. It is a part of `Rep`, on condition of `LowBytes`, and kept by everything that adds and removes children or changes the layout. `VisitOne` joins the lists of the children, of
  which each has the keys for its own byte, to that of their parent, for all subtrees of a level after those of the level below (`VisitHolds`).
* *Scans.* `Ahead` is the invariant of the loop of `art_iter_prefix`: all keys that it looks for are below the node it has come to, and any other leaf there shares the bytes read so far or lies below a node that has `Misled` the scan. `StaysAhead` says that a hop keeps it,
  `ScanFinds` that the loop then ends right.
* *Steps.* `InsertStep` to `CollectStep` say for each action what becomes of the stored and the marked keys, and that `IInv` holds again.

`ArtLockProofs` proves, for any number of inserters, removers and searchers and any teams, `UnlocksSeen` (`Spec => []UnlocksAreSeen`) and `WordsGrow`: no step makes a version smaller. `IInv ==
Types /\ ReadBelow`: what a search has read of the version is not above it, and is below it once the node has been unlocked; the property alone would not survive the next
unlock, as it only says that the two differ.

It then proves what the lock words are to protect, the cells, for any number of threads, teams and keys and any two capacities: `RestingNodesAreSound` (`[]NodeAtRestIsSound`),
`CrashesNeedOverlap` (`[]CrashNeedsOverlap`) and `MissesAreExplained` (`MissesExplained`). The invariant is `Cell == ~clash /\ ~crashed => Sound`: nothing is claimed once two changes have overlapped. `Sound` is

* `Alone`: one change is at work, on the node that the pointer leads to; that node has taken the place of another at most once. It ties the name of a node to the label of the insert that is growing it.
* `Membership`: which keys are stored, from what their inserts and removals have done, so that there is room for the ones to come, and that a key is not inserted over itself.
* `Content`: for each label of an insert (`InsertOK`) and of a removal (`RemoveOK`), what the cells hold between two of its stores: the bytes shifted and the children not, a byte written and its
  child not, the counter not yet. Each is a state of its own, and lemmas say how one store leads from one to the next. A node that nobody is at work on is `Complete`.
* `Freed`, `Untouched`: a leaf that has been freed is in no cell, and a search that has overlapped no removal does not hold it; this is what the crash property needs.
* `Found`, `Trail`: what a search has seen so far of a node that nothing has changed; this is what the miss needs.

`LockAssumption` asks for a capacity below that of the layout a node grows to, and for finitely many threads, as the number of keys in a node is counted. TLC checked `Cell` as an invariant of `node_locks` before it was proved.

`ArtSplitProofs` proves of a tree of several nodes `CrashesNeedClash` (`[]CrashNeedsClash`), `TreesAtRestAreSound` (`[]TreeAtRestIsSound`) and `MissesAreExplained` (`MissesExplained`), for any keys, any tree to begin with and any number of inserts and searches. The invariant of the inserts is in `ArtSplitChart`:

    IInv == clash \in BOOLEAN /\ (~clash => ~Meeting /\ Sound)

`Sound` asks for a *chart* `c`: `c.up` is the node that each node and key hangs in, `c.from` and `c.to` are the number of bytes that lead to a node and to its cells, `c.sample` a key below it. What the memory says locally does not determine this while a split
is on its way (a node published empty, a prefix of which the length has been taken off but not the bytes), so the chart is a witness that changes at once when a split publishes its node, and the memory catches up. Its parts are

* `IsTree`: the chart is a tree, and a key in it agrees with the sample of each node above it on the bytes that lead there.
* `CellsOK`, `PrefixOK`: the cells and the prefix of a node that nobody is at work on are what the chart says. `Filled(c, n, D)` says it for a set of cells, so that one of them can be left out while a cell is moved or written.
* `Knows`: for each label what the insert there still may rely on: that its bytes lead to the node (`Led`), that the cell it came by still leads there (`CellLeads`), that its byte is new (`IsNew`), or which part of its split has been done (`Splits`, `Adds`).
* `KeysOK`, `TypesOK`: the keys of inserts differ, and types, which hold without a clash only.

Each action has a lemma that gives the next chart (`SplitLeafCharted` to `StoreCountCharted`) or keeps the present one (`CallQuiet` to `UnlockQuiet`), and `KnowsKept`, `QuietChart` say that other inserts keep what they know, which is where `~Meeting` is used.
`Found` follows a search hop by hop. That it comes to every key that hangs in the tree (`ComesTo`) is an induction over the bytes used; it is argued by the least counterexample (`First`), as a theorem of induction cannot be instantiated here. The converse, `FoundIsHanging`, is that a
search holds nothing but what hangs somewhere.

For the searches there is a second invariant, `SInv`: `IInv`, and without a clash a chart that also fits what the searches hold (`SearchesOK`). Three ideas carry it:

* `Above(c, k)` is the set of the nodes above key `k` in the chart, the least one that goes up from where `k` hangs. A split puts a node between two others and an insert hangs something elsewhere, so a node that is above a key stays above it (`AboveGrows`), and
  the bytes with which it is reached change only for the node whose prefix is split (`RedrawnNodes`), which the search then crosses.
* `Steady(n, v)`: the version of `n` is `v` and nobody is at work on it. As every insert but the split of a leaf adds to the version when it unlocks, and versions do not get less (`VersionsGrow`), a node that is steady now has been so since `v` was read (`SteadyBefore`), and what was read in between holds.
* `Holds(c, s)`: what a search has at each label, which is mostly conditional on a steady node: the byte in its cell, the child in its hand, that the node it goes on to is above its key. `checkParent` and the history variable `crossed` turn the condition into a fact.

`HoldsKept` says that inserts leave this alone, `SearchKeeps` that the search's own step leads from one label to the next. A miss then can come from a prefix that does not match, which `PrefixGuides` rules out, or from the last comparison of the version, which a node that is not steady can pass only while an insert is at work on it (`MissedAtWork`).

`SplitAssumption` has keys of one length that differ, bytes that are not 0, and names that are apart. `TreeAssumption` says that the given tree is one that inserts have made: bytes sorted, every key where its bytes lead, nothing in two places; without it the first
search could miss. TLC evaluates both on the instance, and has checked `IInv` and `SInv` there, with the chart read off the memory, before they were proved.

`WorkloadProofs` proves `TypeCorrect` (with it that the list of epochs does not grow) and `UntouchedStay`, for any keys, number of transactions and bodies. The inductive
invariant `Types /\ Kept` follows a key from a body to the collector: a key nobody has touched is in the tree with the leaf it was loaded with; keys on the
deletion list have been touched; and the leaves that threads hold and that write sets contain are either the loaded one or belong to a key that has been touched.

`HashMapTableProofs` proves `TypeCorrect`, `CopyFollows` (`[]ViewFollowsTable`), `ToldAsItHappens` (`ToldInOrder`) and `CrashesExplained`, for any threads, keys and number of calls. `IInv` has types, `Frame(t)`: what a
thread at each label has found, and who holds the mutex, and `Sure(k)` for each key that is not in doubt: the observers' copy is the row unless some thread is still to tell, or has told and not
yet erased; at most one thread does so, and the row it has found is the one that is there. The action property needs one more part, `Knows(k)` in `KInv`: whether the observers know a key that a thread is
about to tell them of; an insert is told alone, so nothing else of that key is still to be told.

**Only model-checked:** liveness (`EndsUnlessDeadlock`, `DeletedAreCollected`, `SearchesEnd`, `CallsEnd`), which is out of the prover's reach;
and `TypeOK` of `ArtLock` and of `ArtSplit`, which says more than the proofs' own types of the states in which changes have got in each other's way: there a counter that several
changes add to, and the depth of a descent they mislead, are bounded only by the number of changes in a team or a scene.

## 5. What is left out, and how it was abstracted

* `overwrite()` without a transaction and the copying of records have no caller. The clock of `try_update_until` is a
  choice between another round and giving up.
* Accesses to `TransactionsStatus`, `ActiveTxnWriteSet`, `active_transactionIds` and the epoch list are data races on standard
  containers. They are modelled as atomic accesses; what a torn map or vector would do is left out. `end_version` is an ordinary
  field too, of one word, and is read and written in one step.
* The result of `insertOrUpdateByKey` is `current()` also when the overwrite was refused; the models have the
  refusal, and no property about what the caller takes the result for.
* `mv_recursive_delete` of a key whose byte has no child has no `return`; in the tree the state is what
  it leaves (`DeleteMiss`), in the workload the caller may also crash.
* Keys are never prefixes of one another, as with the lines of a word list, which keep their newline; a prefix key
  would read bytes behind its end. A tree of one leaf is searched as in the code (the search finds nothing).
* A deleted key is copied by `strcpy` from a leaf that has no terminating 0 of its own: whether it is followed by one is a choice in `ArtTree` and
  the constant `Clean` in `Workload`.
* `UpdateIntensiveTemplatesGC.hpp` passes `(key, id, updater)` where `ArtCPP` declares
  `(key, updater, txn_id)`; the models follow the declaration, as the other templates do.
* In `ArtLock` all keys meet in one node, of the two smaller layouts; no two inserts are for the same key, and there is room for all of them
  or for none: two inserts that both see the last free cell write behind the arrays of a `node4`.
  Iteration compares no versions at all, and meets the same incomplete nodes; it is modelled in `ArtTreeScans` only.
* In `ArtSplit` nodes are `node4`s with room, prefixes are kept whole, no two inserts are for the same key, the tree is never empty, and nothing is removed: growth and removals meet
  inserts in `ArtLock`, prefixes of which only a part is kept are a matter of `ArtTree`.
* `registerObserver` with `OnCommit` stores observers that nothing ever calls (a TODO of the code); `size()` reads without the mutex and changes nothing.
* `recursive_iterByPredicate` and `mv_art_delete_by_predicate` are never instantiated, and snapshots (`readMV` by version) have no caller.
* The catalogue (`BaseTable`, `TableInfo`, `TableException`) are descriptions without behaviour. Parsers, timestamps and punctuation
  convert a value, once, in one thread. The tests are sources of legal calls, and not modelled themselves. More than half of the code under `src/` is
  of these kinds or vendored (`fmt-master`, `libcpp`): the share of lines that the map covers is bounded by that.
* One epoch thread. `UpdateIntensiveGC.cpp` starts two in two test cases; ids are given out by main alone.
* A freed leaf whose memory is used again is not modelled: a read of it has no effect or ends the program.
* Printing, the observers of the tree, `StreamElementTraits`, factories and reference counts, and the functions of `ArtCPP.hpp` with no caller.

## 6. Plan

Done, in this order: record, its promise and its proofs; node layouts; tree; workload with epochs and collection; lock words with growth; splits over several nodes; the table
with its observers and tuples; proofs of nodes, lock words, workload, table, splits and the tree. Left, in the order of what they would add:

1. `Workload` with two epoch threads that share `deletionList`, if it stays within reach of TLC.
2. Removals together with splits: the collector merges a node with its only child while a search or an insert holds it.

## 7. Running it

```
tlc -config MvccRecord.cfg MCMvccRecord.tla      # any run: the module and the cfg of the table
tlapm MvccRecordProofs.tla                       # and ArtNodeLemmas, ArtNodeProofs, ArtTreeProofs, ArtLockProofs, ArtSplitProofs, WorkloadProofs, HashMapTableProofs
```
