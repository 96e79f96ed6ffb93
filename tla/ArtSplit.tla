------------------------------- MODULE ArtSplit -------------------------------
(***************************************************************************)
(* Inserts that split a leaf or the prefix of a node, inserts that add a   *)
(* child, and searches, all at once in a tree of several nodes: the        *)
(* recursion of mv_recursive_insert() and the descent of art_search_OCC()  *)
(* and UpdateIterative() (src/ART/ArtCPP.hpp).  ArtLock has the changes of *)
(* one node, with its growth and the collector; here nodes have room, no   *)
(* key is inserted twice and none is removed.                              *)
(*                                                                         *)
(* A step is one access to memory that threads share; but a prefix or the *)
(* cells of a node are read at once, and a key is moved and stored together *)
(* with its child, which ArtLock takes apart.  A leaf is its key.  The     *)
(* split of a leaf locks the leaf, a tagged pointer, as if it were a node: *)
(* this adds to no word that anybody reads, if keys have fewer than 14     *)
(* bytes (ArtTree has longer ones), and is left out, as is the empty tree. *)
(***************************************************************************)
EXTENDS Integers, FiniteSets, Sequences

CONSTANTS Keys,         \* the keys, all of one length
          KeyLen,       \* that length; all of a prefix is kept
          ByteOf,       \* ByteOf[k][d]: byte d of key k, from 0 on
          Given,        \* the nodes that are there to begin with
          Root,         \* one of them, which has no prefix
          Inserters,    \* the threads that insert a key
          Searchers,    \* the threads that look one up
          Tree,         \* the given nodes to begin with
          Loaded,       \* the keys in them
          Scenes,       \* the keys that may be inserted together, one by each
                        \*   inserter, and those that are looked up meanwhile
          Start,        \* the version of a given node
          Null          \* the null pointer

Threads == Inserters \cup Searchers

(* An inserter makes one node at most, which has its name.                 *)
Nodes == Given \cup Inserters
Pointers == Nodes \cup Keys \cup {Null}

Room == 4               \* nodes are node4s
Cells == 0 .. Room - 1

ASSUME SplitAssumption ==
  /\ KeyLen \in Nat \ {0} /\ Start \in Nat
  /\ ByteOf \in [Keys -> [0 .. KeyLen - 1 -> Nat \ {0}]]
  /\ \A k, l \in Keys : k # l => ByteOf[k] # ByteOf[l]
  /\ Root \in Given
  /\ Inserters \cap Searchers = {} /\ Threads \cap Given = {}
  /\ Keys \cap Nodes = {} /\ Null \notin Nodes \cup Keys
  /\ Loaded \subseteq Keys
  /\ \A scene \in Scenes :
       /\ scene.inserts \in [Inserters -> Keys \ Loaded]
       /\ \A t, u \in Inserters : t # u => scene.inserts[t] # scene.inserts[u]
       /\ scene.targets \subseteq Keys

NodeRecords == [keys : [Cells -> Nat], children : [Cells -> Pointers], count : 0 .. Room,
                partial : [0 .. KeyLen - 1 -> Nat], len : 0 .. KeyLen]

(* The given nodes are a tree that inserts have made: bytes are sorted, a  *)
(* key is where its bytes lead, and each key and each node but the root is *)
(* in one cell.  Node n is reached with above[n] bytes, which with those   *)
(* of its prefix are the first ones of all keys below it, sample[n] one of *)
(* them.                                                                   *)
Bytes(k, l, d) == \A j \in 0 .. d - 1 : ByteOf[k][j] = ByteOf[l][j]

ASSUME TreeAssumption ==
  /\ Tree \in [Given -> NodeRecords] /\ Tree[Root].len = 0
  /\ \E above \in [Given -> 0 .. KeyLen - 1], sample \in [Given -> Loaded] :
       LET Below(n) == above[n] + Tree[n].len
           Sample(p) == IF p \in Given THEN sample[p] ELSE p
           Hangs(p, n, j) == j \in 0 .. Tree[n].count - 1 /\ Tree[n].children[j] = p
       IN /\ above[Root] = 0
          /\ \A n \in Given :
               /\ Below(n) < KeyLen
               /\ \A j \in 0 .. Tree[n].len - 1 : Tree[n].partial[j] = ByteOf[sample[n]][above[n] + j]
               /\ \A l \in 0 .. Tree[n].count - 1 :
                    /\ \A j \in 0 .. l - 1 : Tree[n].keys[j] < Tree[n].keys[l]
                    /\ LET p == Tree[n].children[l] IN
                       /\ p \in (Given \ {Root}) \cup Loaded
                       /\ Bytes(Sample(p), sample[n], Below(n))
                       /\ Tree[n].keys[l] = ByteOf[Sample(p)][Below(n)]
                       /\ p \in Given => above[p] = Below(n) + 1
          /\ \A p \in (Given \ {Root}) \cup Loaded :
               \E n \in Given, j \in Cells :
                 /\ Hangs(p, n, j)
                 /\ \A m \in Given, l \in Cells : Hangs(p, m, l) => m = n /\ l = j

VARIABLES key,          \* key[t]: the key t inserts or looks up; never changes
          node,         \* keys[], children[], num_children, partial[] and
                        \*   partial_len of each node
          version,      \* the lock word of each node
          made,         \* the inserters that have published a node
          crashed,      \* the program has ended abnormally
          pc,           \* pc[t]: the next step of t
          on,           \* on[t]: the node t reads or is at work on, or the leaf
                        \*   that it is to split
          ref,          \* ref[t]: the cell that led there
          depth,        \* depth[t]: how many bytes of the key have been used
          ver, pver,    \* the versions t has read of the node and of its parent
          i,            \* t's index into the cells
          byte,         \* the byte that t adds a cell for
          child,        \* child[s]: what search s has loaded from there
          reg,          \* the count that t is to add to
          diff,         \* diff[t]: where the prefix, or the leaf, and t's key differ
          todo,         \* todo[t]: what t is still to add, the next one first
          stored,       \* the keys whose insert has been done
          clash,        \* two inserts have met
          crossed,      \* the searches that have crossed an insert
          due           \* the searchers whose key was stored when they started

shared == <<node, version, made, crashed>>
path == <<on, ref, depth>>
words == <<ver, pver>>
hand == <<byte, child, reg, diff, todo>>
locals == <<path, words, i, hand>>
history == <<stored, clash, crossed, due>>
vars == <<key, shared, pc, locals, history>>
-------------------------------------------------------------------------------
Search(t) == t \in Searchers
Byte(k, d) == IF d < KeyLen THEN ByteOf[k][d] ELSE 0

Parent(t) == ref[t][1]
TopRef == <<Root, 0>>       \* &t->root; the parent of the root is the root

Empty == [keys |-> [j \in Cells |-> 0], children |-> [j \in Cells |-> Null], count |-> 0,
          partial |-> [j \in 0 .. KeyLen - 1 |-> 0], len |-> 0]

Ended(t) == pc[t] \in {"done", "found", "missed"}
Goto(t, l) == pc' = [pc EXCEPT ![t] = l]

(* The node that t adds to.                                                *)
Into(t) == IF t \in made THEN t ELSE on[t]

(* Where t adds to a node, where it has yet to write to the cell that has  *)
(* led it on, and between that and its last change of a split.             *)
Adding(t) == pc[t] \in {"position", "shift", "put", "count", "add"}
Replacing(t) == pc[t] \in {"leaf", "lockNode", "lockAbove", "publish"}
Splitting(t) ==
  /\ t \in made
  /\ Adding(t) \/ pc[t] \in {"setLen", "setPartial", "shortenLen", "shortenPartial"}

(* What t changes, or has changed and not yet unlocked.                    *)
WorksOn(t, n) == (Adding(t) /\ Into(t) = n) \/ (pc[t] = "unlock" /\ on[t] = n)

AddsTo(t, n) == (Adding(t) /\ Into(t) = n) \/ (Splitting(t) /\ t = n)
Shortens(t, n) == Splitting(t) /\ on[t] = n /\ n \in Nodes

(* Insert t gets in the way of u if it changes the cells of a node that u  *)
(* has come to, or that u holds the cell of that it may write to, or both  *)
(* are to write to one cell, or t takes off a prefix that u has yet to     *)
(* read.                                                                   *)
InTheWay(t, u) ==
  /\ ~Ended(u)
  /\ \/ AddsTo(t, on[u]) /\ pc[u] # "start"
     \/ AddsTo(t, Parent(u)) /\ (Replacing(u) \/ pc[u] \in {"version", "prefix"})
     \/ Replacing(t) /\ Replacing(u) /\ ref[t] = ref[u]
     \/ Shortens(t, on[u]) /\ pc[u] \in {"version", "prefix"}

(* A search crosses an insert if it holds a node that is not yet complete, *)
(* or whose prefix is not yet what it is to be, or has gone on from a node *)
(* that the insert is adding to.                                           *)
Crosses(s) ==
  \E t \in Inserters :
    \/ ~Ended(s) /\ Splitting(t) /\ on[s] = t
    \/ ~Ended(s) /\ Shortens(t, on[s])
    \/ pc[s] = "prefix" /\ on[s] # Root /\ WorksOn(t, Parent(s))

(* What every step adds to the history.                                    *)
Observe ==
  /\ clash' = (clash \/ (\E t, u \in Inserters : t # u /\ InTheWay(t, u))')
  /\ crossed' = {s \in Searchers : pc'[s] # "start" /\ (s \in crossed \/ Crosses(s)')}

Init ==
  /\ \E scene \in Scenes : \E targets \in [Searchers -> scene.targets] :
       key = [t \in Threads |-> IF Search(t) THEN targets[t] ELSE scene.inserts[t]]
  /\ node = [n \in Nodes |-> IF n \in Given THEN Tree[n] ELSE Empty]
  /\ stored = Loaded
  /\ pc = [t \in Threads |-> "start"]
  /\ version = [n \in Nodes |-> IF n \in Given THEN Start ELSE 0]
  /\ made = {} /\ crashed = FALSE
  /\ on = [t \in Threads |-> Root] /\ ref = [t \in Threads |-> TopRef]
  /\ depth = [t \in Threads |-> 0]
  /\ ver = [t \in Threads |-> 0] /\ pver = [t \in Threads |-> 0]
  /\ i = [t \in Threads |-> 0] /\ child = [t \in Threads |-> Null]
  /\ reg = [t \in Threads |-> 0] /\ diff = [t \in Threads |-> 0]
  /\ byte = [t \in Threads |-> 0]
  /\ todo = [t \in Threads |-> << >>]
  /\ clash = FALSE /\ crossed = {} /\ due = {}

-------------------------------------------------------------------------------
(* The lock words, as in ArtLock: nobody looks at the bits that mean       *)
(* locked and obsolete, nor at whether an upgrade has failed.              *)
WriteUnlock(n) == [version EXCEPT ![n] = @ + 2]
WriteUnlockObsolete(n) == [version EXCEPT ![n] = @ + 3]
Upgrade(n, v) == IF version[n] = v THEN [version EXCEPT ![n] = @ + 2] ELSE version
UpgradeOrUnlock(n, v, locked) == IF version[n] = v THEN Upgrade(n, v) ELSE WriteUnlock(locked)

(* The locals of t are gone.                                               *)
Return(t, l) ==
  /\ Goto(t, l)
  /\ on' = [on EXCEPT ![t] = Root] /\ ref' = [ref EXCEPT ![t] = TopRef]
  /\ depth' = [depth EXCEPT ![t] = 0]
  /\ ver' = [ver EXCEPT ![t] = 0] /\ pver' = [pver EXCEPT ![t] = 0]
  /\ i' = [i EXCEPT ![t] = 0] /\ child' = [child EXCEPT ![t] = Null]
  /\ reg' = [reg EXCEPT ![t] = 0] /\ diff' = [diff EXCEPT ![t] = 0]
  /\ byte' = [byte EXCEPT ![t] = 0]
  /\ todo' = [todo EXCEPT ![t] = << >>]

FirstOf(S, otherwise) == IF S = {} THEN otherwise ELSE CHOOSE j \in S : \A l \in S : j <= l

-------------------------------------------------------------------------------
(* Both go down from the root, which stays where it is.                    *)
Call(t) ==
  /\ pc[t] = "start"
  /\ ver' = [ver EXCEPT ![t] = version[Root]]
  /\ Goto(t, "prefix")
  /\ due' = IF Search(t) /\ key[t] \in stored THEN due \cup {t} ELSE due \ {t}
  /\ UNCHANGED <<key, shared, path, pver, i, hand, stored>>

ReadVersion(t) ==
  /\ pc[t] = "version"
  /\ ver' = [ver EXCEPT ![t] = version[on[t]]]
  /\ Goto(t, IF Search(t) THEN "checkParent" ELSE "prefix")
  /\ UNCHANGED <<key, shared, path, pver, i, hand, stored, due>>

(* The first byte of the prefix of n that is not that of k from d on.      *)
PrefixMismatch(n, k, d) ==
  FirstOf({j \in 0 .. node[n].len - 1 : node[n].partial[j] # Byte(k, d + j)}, node[n].len)

(* A prefix that does not match ends a search there and then, without a    *)
(* look at any version; an insert goes on to split it.                     *)
ReadPrefix(t) ==
  /\ pc[t] = "prefix"
  /\ LET m == PrefixMismatch(on[t], key[t], depth[t]) IN
     IF m = node[on[t]].len
       THEN /\ depth' = [depth EXCEPT ![t] = @ + m]
            /\ Goto(t, "find")
            /\ UNCHANGED <<on, ref, words, i, hand>>
       ELSE IF Search(t) THEN Return(t, "missed")
       ELSE /\ diff' = [diff EXCEPT ![t] = m]
            /\ Goto(t, "lockNode")
            /\ UNCHANGED <<path, words, i, byte, child, reg, todo>>
  /\ UNCHANGED <<key, shared, stored, due>>

(* find_child().                                                           *)
Find(t) ==
  /\ pc[t] = "find"
  /\ LET n == node[on[t]]
         at == {j \in 0 .. n.count - 1 : n.keys[j] = Byte(key[t], depth[t])}
     IN /\ i' = [i EXCEPT ![t] = FirstOf(at, 0)]
        /\ Goto(t, IF at # {} THEN "load" ELSE IF Search(t) THEN "check" ELSE "lockParent")
  /\ UNCHANGED <<key, shared, path, words, hand, stored, due>>

(* Mutant: the prefix counts once more. *)
GoneDownTwice(t) == [depth EXCEPT ![t] = @ + node[on[t]].len + 1]

GoneDown(t) == [depth EXCEPT ![t] = @ + 1]

(* The next round of a search, or the recursive call of an insert, for     *)
(* what the cell has led to.                                               *)
GoDown(t, p) ==
  /\ ref' = [ref EXCEPT ![t] = <<on[t], i[t]>>]
  /\ on' = [on EXCEPT ![t] = p]
  /\ depth' = GoneDown(t)
  /\ pver' = [pver EXCEPT ![t] = ver[t]]
  /\ i' = [i EXCEPT ![t] = 0]
  /\ child' = [child EXCEPT ![t] = Null]
  /\ UNCHANGED <<ver, byte, reg, diff, todo>>

(* The pointer in the cell.  Of the two comparisons of the version that a  *)
(* search makes before it goes on with a node, the second one fails if the *)
(* first one would.                                                        *)
LoadChild(t) ==
  /\ pc[t] = "load"
  /\ LET p == node[on[t]].children[i[t]] IN
     IF Search(t) /\ p \notin Nodes
       THEN /\ child' = [child EXCEPT ![t] = p]
            /\ Goto(t, "check")
            /\ UNCHANGED <<path, words, i, byte, reg, diff, todo>>
       ELSE /\ GoDown(t, p)
            /\ Goto(t, IF p \in Nodes THEN "version" ELSE "leaf")
  /\ UNCHANGED <<key, shared, stored, due>>

-------------------------------------------------------------------------------
(* Back to the label restart, if the version is another one.               *)
Restart(s) ==
  /\ \/ pc[s] = "checkParent" /\ version[Parent(s)] # pver[s]
     \/ pc[s] = "check" /\ version[on[s]] # ver[s]
  /\ Return(s, "start")
  /\ UNCHANGED <<key, shared, stored, due>>

CheckParent(s) ==
  /\ pc[s] = "checkParent" /\ version[Parent(s)] = pver[s]
  /\ pver' = [pver EXCEPT ![s] = 0]
  /\ Goto(s, "prefix")
  /\ UNCHANGED <<key, shared, path, ver, i, hand, stored, due>>

(* Mutant: nothing is compared before nullptr is returned. *)
ReturnUnchecked(s) ==
  /\ pc[s] = "check"
  /\ Return(s, IF child[s] = key[s] THEN "found" ELSE "missed")
  /\ UNCHANGED <<key, shared, stored, due>>

(* Null, or a leaf, which has all of its key.                              *)
ReturnChild(s) ==
  /\ pc[s] = "check" /\ version[on[s]] = ver[s]
  /\ Return(s, IF child[s] = key[s] THEN "found" ELSE "missed")
  /\ UNCHANGED <<key, shared, stored, due>>

-------------------------------------------------------------------------------
(* No child: isNodeFull() tells of room, and the locks are taken or not.   *)
LockParent(t) ==
  /\ pc[t] = "lockParent" /\ node[on[t]].count < Room
  /\ version' = Upgrade(Parent(t), pver[t])
  /\ pver' = [pver EXCEPT ![t] = 0]
  /\ Goto(t, "lock")
  /\ UNCHANGED <<key, node, made, crashed, path, ver, i, hand, stored, due>>

Lock(t) ==
  /\ pc[t] = "lock"
  /\ version' = UpgradeOrUnlock(on[t], ver[t], Parent(t))
  /\ ver' = [ver EXCEPT ![t] = 0]
  /\ todo' = [todo EXCEPT ![t] = <<key[t]>>]
  /\ Goto(t, "position")
  /\ UNCHANGED <<key, node, made, crashed, path, pver, i, byte, child, reg, diff, stored, due>>

(* What *ref = p does.                                                     *)
Replace(cell, p, nodes) == [nodes EXCEPT ![cell[1]].children[cell[2]] = p]

(* A leaf: a node with what the two keys share takes its place, and the    *)
(* leaves are added to it where everybody sees it.                         *)
CommonPrefix(k, l, d) ==
  FirstOf({j \in 0 .. KeyLen - 1 : Byte(k, d + j) # Byte(l, d + j)},
          IF d < KeyLen THEN KeyLen - d ELSE 0)

SplitLeaf(t) ==
  /\ pc[t] = "leaf"
  /\ LET l == on[t]
         m == CommonPrefix(l, key[t], depth[t])
         common(j) == IF j < m THEN Byte(l, depth[t] + j) ELSE 0
         new == [Empty EXCEPT !.len = m, !.partial = [j \in DOMAIN @ |-> common(j)]]
     IN /\ node' = Replace(ref[t], t, [node EXCEPT ![t] = new])
        /\ diff' = [diff EXCEPT ![t] = m]
        /\ todo' = [todo EXCEPT ![t] = <<l, key[t]>>]
  /\ made' = made \cup {t}
  /\ ver' = [ver EXCEPT ![t] = 0] /\ pver' = [pver EXCEPT ![t] = 0]
  /\ Goto(t, "position")
  /\ UNCHANGED <<key, version, crashed, path, i, byte, child, reg, stored, due>>

(* A prefix: the node and its parent are locked, or not.                   *)
LockNode(t) ==
  /\ pc[t] = "lockNode"
  /\ version' = UpgradeOrUnlock(on[t], ver[t], Parent(t))
  /\ ver' = [ver EXCEPT ![t] = 0]
  /\ Goto(t, "lockAbove")
  /\ UNCHANGED <<key, node, made, crashed, path, pver, i, hand, stored, due>>

LockAbove(t) ==
  /\ pc[t] = "lockAbove"
  /\ version' = Upgrade(Parent(t), pver[t])
  /\ pver' = [pver EXCEPT ![t] = 0]
  /\ Goto(t, "publish")
  /\ UNCHANGED <<key, node, made, crashed, path, ver, i, hand, stored, due>>

(* The new node is published with nothing in it.                           *)
SplitPrefix(t) ==
  /\ pc[t] = "publish"
  /\ node' = Replace(ref[t], t, node)
  /\ made' = made \cup {t}
  /\ todo' = [todo EXCEPT ![t] = <<on[t], key[t]>>]
  /\ Goto(t, "setLen")
  /\ UNCHANGED <<key, version, crashed, path, words, i, byte, child, reg, diff, stored, due>>

SetLen(t) ==
  /\ pc[t] = "setLen"
  /\ node' = [node EXCEPT ![t].len = diff[t]]
  /\ Goto(t, "setPartial")
  /\ UNCHANGED <<key, version, made, crashed, locals, stored, due>>

SetPartial(t) ==
  /\ pc[t] = "setPartial"
  /\ LET common(j) == IF j < diff[t] THEN node[on[t]].partial[j] ELSE 0 IN
     node' = [node EXCEPT ![t].partial = [j \in DOMAIN @ |-> common(j)]]
  /\ Goto(t, "position")
  /\ UNCHANGED <<key, version, made, crashed, locals, stored, due>>

(* What is left of the prefix of the old node: its length, then its bytes. *)
ShortenLen(t) ==
  /\ pc[t] = "shortenLen"
  /\ crashed' = (node[on[t]].len <= diff[t])
  /\ node' = IF crashed' THEN node ELSE [node EXCEPT ![on[t]].len = @ - (diff[t] + 1)]
  /\ Goto(t, "shortenPartial")
  /\ UNCHANGED <<key, version, made, locals, stored, due>>

(* Mutant: the byte of the cell stays in the prefix. *)
RestWithByte(n, d) ==
  [j \in DOMAIN node[n].partial |->
     IF j < node[n].len THEN node[n].partial[j + d] ELSE node[n].partial[j]]

Rest(n, d) ==
  [j \in DOMAIN node[n].partial |->
     IF j < node[n].len THEN node[n].partial[j + d + 1] ELSE node[n].partial[j]]

ShortenPartial(t) ==
  /\ pc[t] = "shortenPartial"
  /\ node' = [node EXCEPT ![on[t]].partial = Rest(on[t], diff[t])]
  /\ Goto(t, "position")
  /\ UNCHANGED <<key, version, made, crashed, locals, stored, due>>

-------------------------------------------------------------------------------
(* add_child4(), for what t has to add next and its byte.                  *)
Added(t) == Head(todo[t])
AddedByte(t) == IF Added(t) \in Nodes THEN node[Added(t)].partial[diff[t]]
                                      ELSE Byte(Added(t), depth[t] + diff[t])

(* Mutant: behind the last cell there is one more. *)
PlaceBeyond(n, b) == FirstOf({j \in 0 .. n.count - 1 : b < n.keys[j]}, n.count + 1)

Place(n, b) == FirstOf({j \in 0 .. n.count - 1 : b < n.keys[j]}, n.count)

Position(t) ==
  /\ pc[t] = "position"
  /\ LET n == node[Into(t)] IN
     /\ n.count < Room
     /\ i' = [i EXCEPT ![t] = Place(n, AddedByte(t))]
     /\ byte' = [byte EXCEPT ![t] = AddedByte(t)]
  /\ Goto(t, "shift")
  /\ UNCHANGED <<key, shared, path, words, child, reg, diff, todo, stored, due>>

(* The memmove()s, of the keys and of the children.                        *)
Shift(t) ==
  /\ pc[t] = "shift"
  /\ LET last == node[Into(t)].count
         shifted(cells) ==
           [j \in Cells |-> IF j \in i[t] + 1 .. last THEN cells[j - 1] ELSE cells[j]]
     IN /\ crashed' = (i[t] > last)
        /\ node' = [node EXCEPT ![Into(t)].keys = shifted(@), ![Into(t)].children = shifted(@)]
  /\ Goto(t, "put")
  /\ UNCHANGED <<key, version, made, locals, stored, due>>

Put(t) ==
  /\ pc[t] = "put"
  /\ node' = [node EXCEPT ![Into(t)].keys[i[t]] = byte[t],
                          ![Into(t)].children[i[t]] = Added(t)]
  /\ i' = [i EXCEPT ![t] = 0] /\ byte' = [byte EXCEPT ![t] = 0]
  /\ Goto(t, "count")
  /\ UNCHANGED <<key, version, made, crashed, path, words, child, reg, diff, todo, stored, due>>

LoadCount(t) ==
  /\ pc[t] = "count"
  /\ reg' = [reg EXCEPT ![t] = node[Into(t)].count]
  /\ Goto(t, "add")
  /\ UNCHANGED <<key, shared, path, words, i, byte, child, diff, todo, stored, due>>

(* After the first of two, the prefix of the old node is to be shortened,  *)
(* or the second one is to be added; after the last one the locks are      *)
(* given back, of which the split of a leaf has none.                      *)
StoreCount(t) ==
  /\ pc[t] = "add"
  /\ node' = [node EXCEPT ![Into(t)].count = reg[t] + 1]
  /\ IF Len(todo[t]) = 2
       THEN /\ todo' = [todo EXCEPT ![t] = Tail(@)]
            /\ Goto(t, IF on[t] \in Nodes THEN "shortenLen" ELSE "position")
            /\ UNCHANGED <<path, words, i, byte, child, reg, diff, stored>>
       ELSE /\ stored' = stored \cup {key[t]}
            /\ IF on[t] \in Nodes THEN Goto(t, "unlock") /\ UNCHANGED locals ELSE Return(t, "done")
  /\ UNCHANGED <<key, version, made, crashed, due>>

Unlock(t) ==
  /\ pc[t] = "unlock"
  /\ version' = IF t \in made THEN WriteUnlock(on[t]) ELSE WriteUnlockObsolete(on[t])
  /\ Goto(t, "unlockParent")
  /\ UNCHANGED <<key, node, made, crashed, locals, stored, due>>

UnlockParent(t) ==
  /\ pc[t] = "unlockParent"
  /\ version' = WriteUnlock(Parent(t))
  /\ Return(t, "done")
  /\ UNCHANGED <<key, node, made, crashed, stored, due>>

-------------------------------------------------------------------------------
SearchStep(t) ==
  \/ Call(t) \/ ReadVersion(t) \/ ReadPrefix(t) \/ Find(t) \/ LoadChild(t)
  \/ Restart(t) \/ CheckParent(t) \/ ReturnChild(t)

InsertStep(t) ==
  \/ Call(t) \/ ReadVersion(t) \/ ReadPrefix(t) \/ Find(t) \/ LoadChild(t)
  \/ LockParent(t) \/ Lock(t) \/ SplitLeaf(t)
  \/ LockNode(t) \/ LockAbove(t) \/ SplitPrefix(t) \/ SetLen(t) \/ SetPartial(t)
  \/ ShortenLen(t) \/ ShortenPartial(t)
  \/ Position(t) \/ Shift(t) \/ Put(t) \/ LoadCount(t) \/ StoreCount(t)
  \/ Unlock(t) \/ UnlockParent(t)

Step == \/ \E s \in Searchers : SearchStep(s)
        \/ \E t \in Inserters : InsertStep(t)

(* The program ends when all its threads have ended.                       *)
End == (crashed \/ \A t \in Threads : Ended(t)) /\ UNCHANGED vars

Next == (~crashed /\ Step /\ Observe) \/ End

Spec == Init /\ [][Next]_vars
-------------------------------------------------------------------------------
Labels == {"start", "version", "checkParent", "prefix", "find", "load", "check", "lockParent",
           "lock", "leaf", "lockNode", "lockAbove", "publish", "setLen", "setPartial",
           "shortenLen", "shortenPartial", "position", "shift", "put", "count", "add", "unlock",
           "unlockParent", "done", "found", "missed"}

(* Among the types: no descent goes deeper than the keys are long, even    *)
(* where inserts get in each other's way, and no insert comes to a cell    *)
(* with a null pointer in it.                                              *)
TypeOK ==
  /\ node \in [Nodes -> NodeRecords]
  /\ version \in [Nodes -> Nat] /\ made \subseteq Inserters /\ crashed \in BOOLEAN
  /\ pc \in [Threads -> Labels]
  /\ on \in [Threads -> Nodes \cup Keys] /\ ref \in [Threads -> Nodes \X Cells]
  /\ \A t \in Threads : on[t] \in Keys => pc[t] = "leaf" \/ Splitting(t)
  /\ depth \in [Threads -> 0 .. KeyLen]
  /\ ver \in [Threads -> Nat] /\ pver \in [Threads -> Nat]
  /\ i \in [Threads -> 0 .. Room] /\ byte \in [Threads -> Nat] /\ child \in [Threads -> Pointers]
  /\ reg \in [Threads -> 0 .. Room] /\ diff \in [Threads -> 0 .. KeyLen]
  /\ todo \in [Threads -> {<< >>} \cup {<<p>> : p \in Keys} \cup (Pointers \X Keys)]
  /\ key \in [Threads -> Keys] /\ stored \subseteq Keys
  /\ clash \in BOOLEAN /\ crossed \subseteq Searchers /\ due \subseteq Searchers

(* Where a search for k would get to, with nobody else at work: what it    *)
(* goes on to from what it holds, with the bytes that it has used.         *)
Hop(k, at) ==
  LET p == at[1]  d == at[2]
      n == node[p]
      cells == {j \in 0 .. n.count - 1 : n.keys[j] = Byte(k, d + n.len)}
  IN IF p \notin Nodes THEN at
     ELSE IF PrefixMismatch(p, k, d) # n.len \/ cells = {} THEN <<Null, d>>
     ELSE <<n.children[FirstOf(cells, 0)], d + n.len + 1>>

Found(k) ==
  LET hop[h \in 0 .. KeyLen + 1] == IF h = 0 THEN <<Root, 0>> ELSE Hop(k, hop[h - 1])
  IN hop[KeyLen + 1][1]

Live == Given \cup made

(* Where inserts have not got in each other's way, a tree that none is at  *)
(* work on is sound: the keys that have been inserted are found and no     *)
(* others, bytes are sorted, and nothing hangs in two places; although a   *)
(* split publishes its node before it is filled, writes to the cell it     *)
(* came by and takes off a prefix in place (ArtCPP.hpp:1248, :1269).       *)
TreeAtRestIsSound ==
  ~clash /\ ~crashed /\ (\A t \in Inserters : ~Adding(t) /\ ~Splitting(t)) =>
    /\ \A k \in Keys : k \in stored <=> Found(k) = k
    /\ \A n \in Live : \A l \in 0 .. node[n].count - 1 : \A j \in 0 .. l - 1 :
         node[n].keys[j] < node[n].keys[l]
    /\ \A n, m \in Live : \A j \in 0 .. node[n].count - 1 : \A l \in 0 .. node[m].count - 1 :
         node[n].children[j] = node[m].children[l] => n = m /\ j = l

(* A search does not find a key that has been there all the time only if   *)
(* it has come to the node of a split, or to the node whose prefix is      *)
(* split, while that was at work, or an insert was adding to a node when   *)
(* the search went on or returned from it, or two inserts have once been   *)
(* in each other's way; a split anywhere else in the tree does not mislead *)
(* it, nor an insert that has moved the cells it came by and has unlocked  *)
(* the node (ArtCPP.hpp:1248, :1736).                                      *)
MissesExplained ==
  [][\A s \in Searchers :
       s \in due /\ pc[s] # "missed" /\ pc'[s] = "missed" =>
         clash \/ s \in crossed \/ \E t \in Inserters : WorksOn(t, on[s])]_vars

(* The program does not end abnormally, with a memmove() of less than      *)
(* nothing or a prefix that is shorter than what is taken off it, unless   *)
(* two inserts get in each other's way (ArtCPP.hpp:587, :1278).            *)
CrashNeedsClash == crashed => clash
===============================================================================
