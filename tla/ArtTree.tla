------------------------------- MODULE ArtTree --------------------------------
(***************************************************************************)
(* The adaptive radix tree of src/ART/ArtCPP.hpp, worked on by one thread  *)
(* at a time: inserts with leaf and prefix splits, deletions that mark the *)
(* record, and the garbage collection that removes leaves, shrinks nodes   *)
(* and merges prefixes.                                                    *)
(*                                                                         *)
(* A subtree is a value: Null, a leaf, or an inner node: a node of         *)
(* ArtNodes whose kids are subtrees, with its prefix, the fields plen      *)
(* (partial_len) and partial, of which at most MaxPrefix bytes are kept.   *)
(* A leaf has the field `ended` for "current()->end_version != INF"        *)
(* (MvccRecord is the model of records).  No key is a prefix of another,   *)
(* as with the lines of a word list; depth counts from 0 and the bytes of  *)
(* a key from 1.  What the code does by recursion into a child is written  *)
(* hop by hop: no way down has more hops than the longest key has bytes.   *)
(***************************************************************************)
EXTENDS ArtNodes

CONSTANTS Keys,         \* the keys, sequences of bytes
          MaxLen,       \* the length of the longest of them
          MaxPrefix,    \* MAX_PREFIX_LEN, 10: the bytes kept of a prefix
          LockedByte,   \* 14: the byte of a long key that a leaf taken for a node locks
          Filters,      \* the sets of keys that predicates select
          MaxDrift      \* bound: how far size may get ahead of the keys

ASSUME KeysAssumption ==
  /\ Keys \subseteq Seq(Byte)
  /\ MaxLen \in Nat /\ \A k \in Keys : Len(k) <= MaxLen
  /\ Filters \subseteq SUBSET Keys
  /\ \A k, m \in Keys : k # m => \E i \in 1 .. Len(k) : i <= Len(m) /\ k[i] # m[i]

ASSUME SettingsAssumption ==
  /\ MaxPrefix \in Nat /\ MaxDrift \in Nat /\ LockedByte \in Nat \ {0}
  /\ Null.type \notin {"leaf", "inner"}

VARIABLES root,         \* t->root
          size,         \* t->size
          writeSet,     \* ActiveTxnWriteSet: the keys of the leaves in it
          deletionList  \* the keys GC() has still to remove

vars == <<root, size, writeSet, deletionList>>

-------------------------------------------------------------------------------
Lesser(a, b) == IF a < b THEN a ELSE b

(* make_mvv_leaf()                                                         *)
Leaf(k) == [type |-> "leaf", key |-> k, ended |-> FALSE]

IsLeaf(n) == n.type = "leaf"

IsInner(n) == n.type = "inner"

(* A node with len bytes in its prefix, which begins like `bytes`.         *)
Inner(len, bytes, node) ==
  [type |-> "inner", plen |-> len, partial |-> SubSeq(bytes, 1, Lesser(len, MaxPrefix)),
   node |-> node]

(* Keys are strings: behind their last byte is a 0.                        *)
ByteAt(k, d) == IF d < Len(k) THEN k[d + 1] ELSE 0

(* The first m bytes of p and of k from depth d on: how many agree.        *)
Agreeing(p, k, d, m) ==
  Max({i \in 0 .. m : \A j \in 1 .. i : p[j] = k[d + j]} \cup {0})

(* check_prefix()                                                          *)
CheckPrefix(n, k, d) ==
  Agreeing(n.partial, k, d, Lesser(Lesser(n.plen, MaxPrefix), Len(k) - d))

(* minimum()                                                               *)
Minimum(n) ==
  LET way[h \in 0 .. MaxLen] ==
        IF h = 0 THEN n
        ELSE LET m == way[h - 1] IN IF IsInner(m) THEN FirstChild(m.node) ELSE m
  IN way[MaxLen]

(* Mutant: only the bytes that are kept are compared.                      *)
PrefixMismatchKept(n, k, d) == CheckPrefix(n, k, d)

(* prefix_mismatch(): a prefix of which only the beginning is kept is      *)
(* looked up in a leaf below.                                              *)
PrefixMismatch(n, k, d) ==
  LET kept == CheckPrefix(n, k, d)
      l == Minimum(n).key
  IN IF n.plen > MaxPrefix /\ kept = Lesser(MaxPrefix, Len(k) - d)
       THEN Agreeing(SubSeq(l, d + 1, Len(l)), k, d, Lesser(Len(l), Len(k)) - d)
       ELSE kept

(* A descent for key k that has come to subtree p[1] at depth p[2]: does   *)
(* it go on into a child?  The searches look at the bytes of a prefix that *)
(* are kept, inserts and deletions at the whole of it.                     *)
GoesOn(p, k, whole) ==
  /\ IsInner(p[1])
  /\ IF whole THEN PrefixMismatch(p[1], k, p[2]) >= p[1].plen
              ELSE CheckPrefix(p[1], k, p[2]) = Lesser(MaxPrefix, p[1].plen)

(* The byte that chooses the child.                                        *)
Turn(p, k) == ByteAt(k, p[2] + p[1].plen)

Hop(p, k, whole) ==
  IF GoesOn(p, k, whole) THEN <<FindChild(p[1].node, Turn(p, k)), p[2] + p[1].plen + 1>> ELSE p

(* Where the descent for k from subtree n comes to, hop by hop.            *)
Way(n, k, whole) ==
  LET way[h \in 0 .. MaxLen] == IF h = 0 THEN <<n, 0>> ELSE Hop(way[h - 1], k, whole)
  IN way

End(n, k, whole) == Way(n, k, whole)[MaxLen]

LeafAt(n, k, whole) ==
  LET leaf == End(n, k, whole)[1] IN IF IsLeaf(leaf) /\ leaf.key = k THEN leaf ELSE Null

(* The loop of art_search_OCC() and UpdateIterative().                     *)
Lookup(n, k) == LeafAt(n, k, FALSE)

(* findValueByKey(): a root that is a leaf is read as if it were a node,   *)
(* with a prefix that matches nothing.                                     *)
Find(k) == IF IsLeaf(root) THEN Null ELSE Lookup(root, k)

(* The way of mv_recursive_insert() and mv_recursive_delete().             *)
Locate(n, k) == LeafAt(n, k, TRUE)

(* What locking and unlocking a leaf as if it were a node does to its key: *)
(* the version of the node that is not there, a word of 8 bytes of which   *)
(* the lowest is the first, lies over it from byte LockedByte on.          *)
Bump(k, by) ==
  LET carries(i) == /\ i \in LockedByte + 1 .. LockedByte + 7
                    /\ k[LockedByte] + by >= NBytes
                    /\ \A j \in LockedByte + 1 .. i - 1 : k[j] = NBytes - 1
      plus(i) == IF i = LockedByte THEN by ELSE IF carries(i) THEN 1 ELSE 0
  IN IF Len(k) < LockedByte THEN k ELSE [i \in DOMAIN k |-> (k[i] + plus(i)) % NBytes]

(* The leaf split of mv_recursive_insert().                                *)
SplitLeaf(l, k, d) ==
  LET locked == Bump(l.key, 2)
      common == Agreeing(SubSeq(locked, d + 1, Len(locked)), k, d, Lesser(Len(locked), Len(k)) - d)
  IN Inner(common, SubSeq(k, d + 1, Len(k)),
           NewNode4(ByteAt(locked, d + common), [l EXCEPT !.key = Bump(@, 4)],
                    ByteAt(k, d + common), Leaf(k)))

(* Node n without the first diff + 1 bytes of its prefix.                  *)
CutPrefix(n, d, diff) ==
  Inner(n.plen - (diff + 1),
        IF n.plen <= MaxPrefix THEN SubSeq(n.partial, diff + 2, n.plen)
        ELSE SubSeq(Minimum(n).key, d + diff + 2, Len(Minimum(n).key)),
        n.node)

(* The prefix split of mv_recursive_insert().                              *)
SplitPrefix(n, k, d, diff) ==
  Inner(diff, n.partial,
        NewNode4(IF n.plen <= MaxPrefix THEN n.partial[diff + 1]
                 ELSE Minimum(n).key[d + diff + 1],
                 CutPrefix(n, d, diff),
                 ByteAt(k, d + diff), Leaf(k)))

(* Mutant: the byte that led to the child is forgotten.                    *)
MergeWithoutByte(n) ==
  LET child == n.node.kids[1]
  IN IF IsLeaf(child) THEN child
     ELSE Inner(n.plen + child.plen, n.partial \o child.partial, child.node)

(* The end of remove_child4(): the last child takes over the prefix.       *)
Merge(n) ==
  LET child == n.node.kids[1]
  IN IF IsLeaf(child) THEN child
     ELSE Inner(n.plen + 1 + child.plen, n.partial \o <<n.node.keys[1]>> \o child.partial,
                child.node)

(* Node n with subtree x, or nothing, behind its pointer for byte c.       *)
WithChild(n, c, x) ==
  LET m == [n EXCEPT !.node = IF x = Null THEN RemoveChild(@, c)
                              ELSE IF FindChild(@, c) = Null THEN AddChild(@, c, x)
                              ELSE SetChild(@, c, x)]
  IN IF x = Null /\ GivesWay(m.node) THEN Merge(m) ELSE m

(* Subtree n with x, or nothing, where the descent for k has ended.        *)
Changed(n, k, whole, x) ==
  LET way == Way(n, k, whole)
      up[h \in 0 .. MaxLen] ==
        IF h = MaxLen \/ ~GoesOn(way[h], k, whole) THEN x
        ELSE WithChild(way[h][1], Turn(way[h], k), up[h + 1])
  IN up[0]

(* The subtree n in which the leaf of key k has its record ended, or not.  *)
WithLeaf(n, k, whole, ended) ==
  Changed(n, k, whole, [End(n, k, whole)[1] EXCEPT !.ended = ended])

(* mv_recursive_insert() of a key that is not in the subtree n.            *)
WithKey(n, k) ==
  LET end == End(n, k, TRUE)
      m == end[1]
      d == end[2]
  IN Changed(n, k, TRUE, IF m = Null THEN Leaf(k)
                         ELSE IF IsLeaf(m) THEN SplitLeaf(m, k, d)
                         ELSE SplitPrefix(m, k, d, PrefixMismatch(m, k, d)))

(* recursive_deleteGC(): the subtree n without the leaf of key k.          *)
WithoutKey(n, k) == IF Lookup(n, k) = Null THEN n ELSE Changed(n, k, FALSE, Null)

(* What is below n hop by hop: each inner node gives way to what it points *)
(* to, until there is none.                                                *)
Opened(x) == IF IsInner(x) THEN Range(x.node.kids) ELSE {x}

Levels(n) ==
  LET level[h \in 0 .. MaxLen] == IF h = 0 THEN {n} ELSE UNION {Opened(x) : x \in level[h - 1]}
  IN level

Leaves(n) == {x \in Levels(n)[MaxLen] : IsLeaf(x)}

(* The subtrees of n, each with its depth.                                 *)
Nearby(p) ==
  {p} \cup IF IsInner(p[1]) THEN {<<x, p[2] + p[1].plen + 1>> : x \in Range(p[1].node.kids)} ELSE {}

Subtrees(n) ==
  LET seen[h \in 0 .. MaxLen] == IF h = 0 THEN {<<n, 0>>} ELSE UNION {Nearby(p) : p \in seen[h - 1]}
  IN seen[MaxLen]

(* recursive_UpdateByPredicate(): every record of a key in F is updated,   *)
(* where u tells what becomes of the children.                             *)
WithUpdate(x, F, u) ==
  CASE IsLeaf(x) -> [x EXCEPT !.ended = @ /\ x.key \notin F]
    [] IsInner(x) -> [x EXCEPT !.node.kids = [i \in DOMAIN x.node.kids |-> u[x.node.kids[i]]]]
    [] OTHER -> x

WithUpdates(n, F) ==
  LET level == Levels(n)
      updated[h \in 0 .. MaxLen] ==
        IF h = MaxLen THEN [x \in level[h] |-> WithUpdate(x, F, <<>>)]
        ELSE LET u == updated[h + 1] IN [x \in level[h] |-> WithUpdate(x, F, u)]
  IN updated[0][n]

Stored == {l.key : l \in Leaves(root)}

(* The trees that transactions work on while GC() is not in progress.      *)
Idle == deletionList = {}

-------------------------------------------------------------------------------
Init == root = Null /\ size = 0 /\ writeSet = {} /\ deletionList = {}

(* insertOrUpdateByKey() with a value, of a key it does not find.          *)
Insert(k) ==
  /\ Idle
  /\ Locate(root, k) = Null
  /\ root' = WithKey(root, k)
  /\ size' = size + 1
  /\ UNCHANGED <<writeSet, deletionList>>

(* insertOrUpdateByKey() with a value, of a key it finds: overwriteMV()    *)
(* may be refused when the record is ended, and nobody looks.              *)
Overwrite(k) ==
  /\ Idle
  /\ Locate(root, k) # Null
  /\ \/ root' = WithLeaf(root, k, TRUE, FALSE)
     \/ Locate(root, k).ended /\ root' = root
  /\ writeSet' = writeSet \cup {k}
  /\ UNCHANGED <<size, deletionList>>

(* insertOrUpdateByKey() with an updater: nothing, unless it finds the key.*)
Update(k) ==
  /\ Idle
  /\ Find(k) # Null
  /\ root' = WithLeaf(root, k, FALSE, FALSE)
  /\ writeSet' = writeSet \cup {k}
  /\ UNCHANGED <<size, deletionList>>

(* updateAllByPredicate()                                                  *)
UpdateWhere(F) ==
  /\ Idle
  /\ F \cap Stored # {}
  /\ root' = WithUpdates(root, F)
  /\ writeSet' = writeSet \cup (F \cap Stored)
  /\ UNCHANGED <<size, deletionList>>

(* deleteByKey() of a key it finds: deleteMV() ends the newest version.    *)
Delete(k) ==
  /\ Idle
  /\ Locate(root, k) # Null
  /\ root' = WithLeaf(root, k, TRUE, TRUE)
  /\ writeSet' = writeSet \cup {k}
  /\ UNCHANGED <<size, deletionList>>

(* deleteByKey() of a key it does not find.                                *)
DeleteMiss(k) ==
  /\ Idle
  /\ Locate(root, k) = Null
  /\ size - Cardinality(Stored) < MaxDrift
  /\ size' = size + 1
  /\ UNCHANGED <<root, writeSet, deletionList>>

(* Mutant: every key that has been written is listed.                      *)
ScanEverything ==
  /\ Idle
  /\ writeSet # {}
  /\ deletionList' = writeSet
  /\ writeSet' = {}
  /\ UNCHANGED <<root, size>>

(* Mutant: the write sets are not cleared.                                 *)
ScanKeepingWriteSets ==
  /\ Idle
  /\ writeSet # {}
  /\ deletionList' = {k \in writeSet : Locate(root, k).ended}
  /\ UNCHANGED <<root, size, writeSet>>

(* The first loop of GC(): the keys in the write sets whose record is      *)
(* ended; then the write sets are cleared.                                 *)
Scan ==
  /\ Idle
  /\ writeSet # {}
  /\ deletionList' = {k \in writeSet : Locate(root, k).ended}
  /\ writeSet' = {}
  /\ UNCHANGED <<root, size>>

(* The second loop of GC(): art_deleteGC() of a listed key.  The key is    *)
(* copied by strcpy() from a leaf that keeps no 0 behind it: with what may *)
(* follow it in memory the key is not found.                               *)
Collect(k) ==
  /\ k \in deletionList
  /\ deletionList' = deletionList \ {k}
  /\ \/ /\ root' = WithoutKey(root, k)
        /\ size' = IF root' = root THEN size ELSE size - 1
     \/ UNCHANGED <<root, size>>
  /\ UNCHANGED writeSet

Next == \/ Scan
        \/ \E F \in Filters : UpdateWhere(F)
        \/ \E k \in Keys : \/ Insert(k) \/ Overwrite(k) \/ Update(k)
                            \/ Delete(k) \/ DeleteMiss(k) \/ Collect(k)

Spec == Init /\ [][Next]_vars
-------------------------------------------------------------------------------
(* The write sets and the deletion list name keys of the tree only: a key  *)
(* that GC() takes away is in none of them.  The size counts the keys, but *)
(* for the deletions of keys that were not there (ArtCPP.hpp:1093), each   *)
(* of which adds one for good.                                             *)
TypeOK ==
  LET stored == Stored IN
  /\ stored \subseteq Keys
  /\ size \in Cardinality(stored) .. Cardinality(stored) + MaxDrift
  /\ writeSet \subseteq stored
  /\ deletionList \subseteq stored

(* The nodes of subtree n, each with the depth it is reached at.           *)
Nodes(n) == {p \in Subtrees(n) : IsInner(p[1])}

(* The tree is compressed as it should be through all splits of leaves and *)
(* prefixes and all merges of prefixes after collections, also where only  *)
(* the beginning of a prefix is kept and the rest has to be recovered from *)
(* a leaf (ArtCPP.hpp:1283, :728): the keys below a node agree on all the  *)
(* bytes of its prefix, those that are kept are the right ones, a child    *)
(* holds the keys with its byte, and a node has at least two children.     *)
TreeIsSound ==
  \A p \in Nodes(root) :
    LET n == p[1]
        d == p[2]
        below == {l.key : l \in Leaves(n)}
    IN /\ \A k \in below : /\ Len(k) > d + n.plen
                           /\ \A m \in below : \A i \in d + 1 .. d + n.plen : k[i] = m[i]
                           /\ n.partial = SubSeq(k, d + 1, d + Lesser(n.plen, MaxPrefix))
       /\ Cardinality(Used(n.node)) > 1
       /\ \A c \in Used(n.node) : \A l \in Leaves(FindChild(n.node, c)) : l.key[d + n.plen + 1] = c

(* The three ways through the tree agree: the search that skips the bytes  *)
(* of a prefix it does not have, the descent of inserts and deletions that *)
(* looks them up, and the iteration; so no insert ever stores a key twice. *)
(* A tree that consists of one leaf is the exception: the search finds     *)
(* nothing in it.                                                          *)
SearchesAgree ==
  LET stored == Stored IN
  \A k \in Keys :
    /\ Locate(root, k) # Null <=> k \in stored
    /\ Find(k) # Null <=> k \in stored /\ Cardinality(stored) > 1

(* The promise of the tree to the transactions.                            *)
Marked == {l.key : l \in {x \in Leaves(root) : x.ended}}

Store == INSTANCE KeyStore WITH stored <- Stored, marked <- Marked

(* No operation loses, doubles or confuses another key: each is one step   *)
(* of the set of keys, whatever it does to the nodes on its way.           *)
ImplementsKeyStore == Store!Spec

(* "@return NULL if the item was not found, otherwise the value pointer is *)
(* returned" (ArtCPP.hpp:1665): a key that the tree finds is found until   *)
(* the garbage collector takes it away.                                    *)
KeysStayFound ==
  [][\A k \in Keys : Locate(root, k) # Null =>
       Locate(root', k) # Null \/ Collect(k)]_vars
===============================================================================
