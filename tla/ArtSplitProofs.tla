---------------------------- MODULE ArtSplitProofs ----------------------------
(***************************************************************************)
(* Proofs about ArtSplit, for any keys, any tree that inserts have made,   *)
(* and any number of inserts and searches.                                 *)
(***************************************************************************)
EXTENDS ArtSplitChart, TLAPS, FiniteSetTheorems, WellFoundedInduction

(* The names of threads, nodes and keys are apart.                         *)
LEMMA Names ==
  /\ Root \in Nodes /\ Given \subseteq Nodes /\ Inserters \subseteq Nodes /\ Nodes \subseteq Pointers
  /\ Inserters \subseteq Threads /\ Searchers \subseteq Threads /\ Inserters \cap Given = {}
  /\ Inserters \cap Searchers = {} /\ Keys \cap Nodes = {} /\ Null \notin Things
  /\ Things \subseteq Pointers /\ Nodes \subseteq Things /\ Keys \subseteq Things
  /\ Pointers \subseteq Things \cup {Null} /\ Root \notin Inserters
BY SplitAssumption DEF Nodes, Pointers, Things, Threads

LEMMA Numbers == KeyLen \in Nat /\ KeyLen > 0 /\ Room = 4 /\ Cells = 0 .. 3
BY SplitAssumption DEF Room, Cells

(* A set of numbers has a least one.                                       *)
LEMMA First ==
  ASSUME NEW S \in SUBSET Nat, S # {}, NEW otherwise
  PROVE  FirstOf(S, otherwise) \in S /\ \A l \in S : FirstOf(S, otherwise) <= l
<1>1. PICK x \in S : \A y \in S : ~(<<y, x>> \in OpToRel(<, Nat))
  BY NatLessThanWellFounded, WFMin
<1>2. \A y \in S : <<y, x>> \in OpToRel(<, Nat) <=> y < x
  BY DEF OpToRel
<1>3. \A y \in S : ~(y < x)
  BY <1>1, <1>2, Zenon
<1>4. \A y \in S : x <= y
  BY <1>3
<1>5. QED
  BY <1>4 DEF FirstOf

(* The least number with the property, or n if there is none below n.      *)
LEMMA FirstBelow ==
  ASSUME NEW n \in Nat, NEW S \in SUBSET (0 .. n - 1)
  PROVE  /\ FirstOf(S, n) \in 0 .. n
         /\ FirstOf(S, n) = n <=> S = {}
         /\ S # {} => FirstOf(S, n) \in S
         /\ \A j \in 0 .. FirstOf(S, n) - 1 : j \notin S
<1>1. CASE S = {}
  BY <1>1 DEF FirstOf
<1>2. CASE S # {}
  <2>1. S \in SUBSET Nat
    OBVIOUS
  <2>2. FirstOf(S, n) \in S /\ \A l \in S : FirstOf(S, n) <= l
    BY <1>2, <2>1, First
  <2>3. FirstOf(S, n) \in 0 .. n - 1
    BY <2>2
  <2>4. \A j \in 0 .. FirstOf(S, n) - 1 : j \notin S
    BY <2>2, <2>3
  <2>5. QED
    BY <1>2, <2>2, <2>3, <2>4
<1>3. QED
  BY <1>1, <1>2

LEMMA Fields ==
  ASSUME NEW n \in NodeRecords
  PROVE  /\ n.keys \in [Cells -> Nat] /\ n.children \in [Cells -> Pointers]
         /\ n.count \in Nat /\ n.count <= Room
         /\ n.partial \in [0 .. KeyLen - 1 -> Nat] /\ n.len \in Nat /\ n.len <= KeyLen
BY Numbers DEF NodeRecords

LEMMA Letters ==
  /\ \A k \in Keys : \A j \in 0 .. KeyLen - 1 : ByteOf[k][j] \in Nat /\ Byte(k, j) = ByteOf[k][j]
  /\ \A k \in Keys, d \in Nat : Byte(k, d) \in Nat
BY SplitAssumption, Numbers DEF Byte

-------------------------------------------------------------------------------
(* A step of t leaves the locals of the other inserts alone.               *)
Unmoved(u) ==
  /\ pc'[u] = pc[u] /\ on'[u] = on[u] /\ ref'[u] = ref[u] /\ depth'[u] = depth[u]
  /\ i'[u] = i[u] /\ byte'[u] = byte[u] /\ reg'[u] = reg[u] /\ diff'[u] = diff[u]
  /\ todo'[u] = todo[u] /\ (u \in made' <=> u \in made)

Apart(t) == key' = key /\ made \subseteq made' /\ \A u \in Inserters \ {t} : Unmoved(u)

LEMMA GotoApart ==
  ASSUME TypesOK, NEW t \in Threads, NEW l \in Labels, Goto(t, l)
  PROVE  pc' \in [Threads -> Labels] /\ pc'[t] = l /\ \A u \in Threads \ {t} : pc'[u] = pc[u]
BY DEF TypesOK, Goto

LEMMA ReturnApart ==
  ASSUME TypesOK, NEW t \in Threads, NEW l \in Labels, Return(t, l), key' = key, made' = made
  PROVE  Apart(t) /\ pc'[t] = l /\ on'[t] = Root /\ depth'[t] = 0 /\ diff'[t] = 0
<1>1. pc'[t] = l /\ \A u \in Threads \ {t} : pc'[u] = pc[u]
  BY GotoApart DEF Return
<1>2. \A u \in Inserters \ {t} : u \in Threads
  BY Names
<1>3. QED
  BY <1>1, <1>2 DEF TypesOK, Return, Apart, Unmoved

LEMMA StepApart ==
  ASSUME TypesOK, NEW t \in Threads, SearchStep(t) \/ InsertStep(t)
  PROVE  Apart(t)
<1> USE Names
<1>1. CASE Call(t) \/ ReadVersion(t) \/ CheckParent(t)
  BY <1>1 DEF Call, ReadVersion, CheckParent, Goto, TypesOK, Apart, Unmoved, shared, path, hand
<1>2. CASE ReadPrefix(t)
  <2>1. key' = key /\ made' = made
    BY <1>2 DEF ReadPrefix, shared
  <2>2. CASE Return(t, "missed")
    BY <2>1, <2>2, ReturnApart DEF Labels
  <2>3. CASE ~Return(t, "missed")
    BY <1>2, <2>1, <2>3 DEF ReadPrefix, Goto, TypesOK, Apart, Unmoved, path, words, hand
  <2>4. QED
    BY <2>2, <2>3
<1>3. CASE Find(t)
  BY <1>3 DEF Find, Goto, TypesOK, Apart, Unmoved, shared, path, words, hand
<1>4. CASE LoadChild(t)
  <2> DEFINE p == node[on[t]].children[i[t]]
  <2>1. key' = key /\ made' = made
    BY <1>4 DEF LoadChild, shared
  <2>2. CASE GoDown(t, p)
    <3>1. PICK l \in Labels : Goto(t, l)
      BY <1>4 DEF LoadChild, Labels
    <3>2. QED
      BY <2>1, <2>2, <3>1 DEF GoDown, GoneDown, Goto, TypesOK, Apart, Unmoved
  <2>3. CASE ~GoDown(t, p)
    BY <1>4, <2>1, <2>3 DEF LoadChild, Goto, TypesOK, Apart, Unmoved, path, words
  <2>4. QED
    BY <2>2, <2>3
<1>5. CASE Restart(t) \/ ReturnChild(t)
  <2>1. PICK l \in {"start", "found", "missed"} : Return(t, l)
    BY <1>5 DEF Restart, ReturnChild
  <2>2. key' = key /\ made' = made /\ l \in Labels
    BY <1>5 DEF Restart, ReturnChild, shared, Labels
  <2>3. QED
    BY <2>1, <2>2, ReturnApart
<1>6. CASE LockParent(t) \/ Lock(t) \/ LockNode(t) \/ LockAbove(t)
  BY <1>6 DEF LockParent, Lock, LockNode, LockAbove, Goto, TypesOK, Apart, Unmoved, path, hand
<1>7. CASE SplitLeaf(t) \/ SplitPrefix(t)
  <2>1. made' = made \cup {t} /\ key' = key
    BY <1>7 DEF SplitLeaf, SplitPrefix
  <2>2. \A u \in Inserters \ {t} : u \in made' <=> u \in made
    BY <2>1
  <2>3. QED
    BY <1>7, <2>1, <2>2 DEF SplitLeaf, SplitPrefix, Goto, TypesOK, Apart, Unmoved, path, words
<1>8. CASE SetLen(t) \/ SetPartial(t) \/ ShortenLen(t) \/ ShortenPartial(t)
  BY <1>8 DEF SetLen, SetPartial, ShortenLen, ShortenPartial, Goto, TypesOK, Apart, Unmoved, locals, path,
              words, hand
<1>9. CASE Position(t) \/ Shift(t) \/ Put(t) \/ LoadCount(t)
  BY <1>9 DEF Position, Shift, Put, LoadCount, Goto, TypesOK, Apart, Unmoved, shared, locals, path,
              words, hand
<1>10. CASE StoreCount(t)
  <2>1. key' = key /\ made' = made
    BY <1>10 DEF StoreCount
  <2>2. CASE Return(t, "done")
    BY <2>1, <2>2, ReturnApart DEF Labels
  <2>3. CASE ~Return(t, "done")
    BY <1>10, <2>1, <2>3 DEF StoreCount, Goto, TypesOK, Apart, Unmoved, locals, path, words, hand
  <2>4. QED
    BY <2>2, <2>3
<1>11. CASE Unlock(t)
  BY <1>11 DEF Unlock, Goto, TypesOK, Apart, Unmoved, locals, path, words, hand
<1>12. CASE UnlockParent(t)
  BY <1>12, ReturnApart DEF UnlockParent, Labels
<1>13. QED
  BY <1>1, <1>2, <1>3, <1>4, <1>5, <1>6, <1>7, <1>8, <1>9, <1>10, <1>11, <1>12
     DEF SearchStep, InsertStep

-------------------------------------------------------------------------------
(* What ~Meeting means.                                                    *)
LEMMA NoMeeting ==
  ASSUME ~Meeting, NEW t \in Inserters, NEW u \in Inserters, t # u, ~Ended(u)
  PROVE  /\ pc[u] # "start" => ~AddsTo(t, on[u])
         /\ Replacing(u) \/ pc[u] \in {"version", "prefix"} => ~AddsTo(t, Parent(u))
         /\ ~(Replacing(t) /\ Replacing(u) /\ ref[t] = ref[u])
         /\ pc[u] \in {"version", "prefix"} => ~Shortens(t, on[u])
BY DEF Meeting, InTheWay

(* No two inserts add to one node.                                         *)
LEMMA OneAdds ==
  ASSUME ~Meeting, NEW t \in Inserters, NEW u \in Inserters, t # u, Adding(t), Adding(u)
  PROVE  Into(t) # Into(u)
<1>1. ~Ended(t) /\ ~Ended(u) /\ pc[t] # "start" /\ pc[u] # "start"
  BY DEF Adding, Ended
<1>2. ~AddsTo(t, on[u]) /\ ~AddsTo(u, on[t])
  BY <1>1, NoMeeting
<1>3. QED
  BY <1>2 DEF AddsTo, Into

-------------------------------------------------------------------------------
(* What stays as it is when a step changes some other part of the tree.    *)
SameCells(n) ==
  node'[n].keys = node[n].keys /\ node'[n].children = node[n].children /\ node'[n].count = node[n].count

SameKeys(n) == node'[n].keys = node[n].keys /\ node'[n].count = node[n].count

SamePrefix(n) == node'[n].len = node[n].len /\ node'[n].partial = node[n].partial

Keeps(c, d) ==
  /\ Live \subseteq Live'
  /\ \A n \in Live : d.to[n] = c.to[n]
  /\ \A p \in Live \cup Keys : d.sample[p] = c.sample[p]

LEMMA LiveNodes == made \subseteq Inserters => Live \subseteq Nodes /\ Root \in Live
BY SplitAssumption DEF Live, Nodes

(* What hangs somewhere is a key or a live node, and so is what it hangs in. *)
LEMMA Hanging ==
  ASSUME TypesOK, NEW c \in Charts, IsTree(c), NEW p \in Things, c.up[p] # Null
  PROVE  p \in Live \cup Keys /\ c.up[p] \in Live /\ c.up[p] \in Nodes
<1>1. Under(c, p, c.up[p])
  BY DEF IsTree
<1>2. p \in Live \cup Keys
  BY DEF IsTree, Things
<1>3. QED
  BY <1>1, <1>2, LiveNodes DEF Under, TypesOK

LEMMA FilledKept ==
  ASSUME TypesOK, NEW c \in Charts, NEW d \in Charts, IsTree(c), Keeps(c, d), NEW n \in Live, NEW D,
         SameCells(n), InCells(d, n)' = InCells(c, n), Filled(c, n, D)
  PROVE  Filled(d, n, D)'
<1>1. \A p \in InCells(c, n) : ByteIn(d, p, n) = ByteIn(c, p, n)
  <2>1. SUFFICES ASSUME NEW p \in InCells(c, n) PROVE ByteIn(d, p, n) = ByteIn(c, p, n)
    OBVIOUS
  <2>2. p \in Things /\ c.up[p] = n /\ n # Null
    BY LiveNodes, Names DEF InCells, TypesOK
  <2>3. p \in Live \cup Keys
    BY <2>2, Hanging
  <2>4. QED
    BY <2>3 DEF ByteIn, Keeps
<1>2. QED
  BY <1>1 DEF Filled, SameCells, ByteIn

(* What is next to be added.                                               *)
LEMMA NextThing ==
  ASSUME TypesOK, NEW c \in Charts, IsTree(c), NEW u \in Inserters, Knows(c, u), Adding(u)
  PROVE  /\ todo[u] # << >> /\ todo[u] \in {<<key[u]>>, <<on[u], key[u]>>}
         /\ Head(todo[u]) \in Live \cup Keys
         /\ todo[u] = <<on[u], key[u]>> => u \in made
<1>1. key[u] \in Keys
  BY Names DEF TypesOK
<1>2. CASE u \notin made
  <2>1. todo[u] = <<key[u]>>
    BY <1>2 DEF Knows, Adds
  <2>2. Len(<<key[u]>>) = 1 /\ Len(<<on[u], key[u]>>) = 2
    OBVIOUS
  <2>3. QED
    BY <1>1, <2>1, <2>2
<1>3. CASE u \in made
  <2>1. on[u] \in Things /\ c.up[on[u]] = u /\ todo[u] \in {<<on[u], key[u]>>, <<key[u]>>}
    BY <1>3 DEF Splitting, Knows, Splits
  <2>2. on[u] \in Live \cup Keys
    BY <2>1, Hanging, Names
  <2>3. QED
    BY <1>1, <1>3, <2>1, <2>2
<1>4. QED
  BY <1>2, <1>3

(* Another insert is where it was.                                         *)
LEMMA UnmovedSame ==
  ASSUME NEW u \in Inserters, Unmoved(u)
  PROVE  /\ HasPut(u)' <=> HasPut(u)
         /\ Waiting(u)' <=> Waiting(u)
         /\ Unshortened(u)' <=> Unshortened(u)
         /\ HalfShortened(u)' <=> HalfShortened(u)
         /\ Adding(u)' <=> Adding(u)
         /\ Splitting(u)' <=> Splitting(u)
         /\ Into(u)' = Into(u)
BY DEF Unmoved, HasPut, Waiting, Unshortened, HalfShortened, Splitting, Adding, Into

(* Insert u knows what it has known, after a step of another that leaves   *)
(* alone what u's knowledge is about.                                      *)
LEMMA KnowsKept ==
  ASSUME TypesOK, NEW c \in Charts, NEW d \in Charts, IsTree(c), Keeps(c, d), key' = key,
         NEW u \in Inserters, Unmoved(u), Knows(c, u),
         pc[u] \in {"version", "prefix", "lockNode", "lockAbove", "publish"} =>
           d.from[on[u]] = c.from[on[u]],
         pc[u] \in {"version", "prefix"} \/ Replacing(u) =>
           on[u] = Root \/ CellLeads(d, u)',
         pc[u] \in {"load", "lockParent", "lock"} => SameKeys(on[u]),
         Splitting(u) => /\ d.up[on[u]] = c.up[on[u]] /\ d.from[u] = c.from[u]
                         /\ ~HasPut(u) => \A p \in Things : d.up[p] = u => c.up[p] = u
                         /\ on[u] \in Nodes => SamePrefix(on[u]) /\ d.from[on[u]] = c.from[on[u]],
         pc[u] \in {"setLen", "setPartial"} => node'[u] = node[u],
         Adding(u) => SameCells(Into(u)) /\ InCells(d, Into(u))' = InCells(c, Into(u))
  PROVE  Knows(d, u)'
<1>1. Live \subseteq Live' /\ \A n \in Live : d.to[n] = c.to[n] /\ d.sample[n] = c.sample[n]
  BY DEF Keeps
<1>2. Descends(d, u)'
  <2>1. (pc[u] \in {"start", "version", "prefix", "find", "load", "lockParent", "lock", "leaf"} =>
          u \notin made /\ diff[u] = 0)'
    BY DEF Knows, Descends, Unmoved
  <2>2. (pc[u] = "start" => on[u] = Root /\ depth[u] = 0)'
    BY DEF Knows, Descends, Unmoved
  <2>3. (pc[u] \in {"version", "prefix"} =>
          Led(d, u, d.from[on[u]]) /\ (on[u] # Root => CellLeads(d, u)))'
    BY <1>1 DEF Knows, Descends, Unmoved, Led
  <2>4. (pc[u] \in {"find", "load", "lockParent", "lock"} => Led(d, u, d.to[on[u]]))'
    BY <1>1 DEF Knows, Descends, Unmoved, Led
  <2>5. (pc[u] = "load" =>
          i[u] < node[on[u]].count /\ node[on[u]].keys[i[u]] = Byte(key[u], depth[u]))'
    BY DEF Knows, Descends, Unmoved, SameKeys
  <2>6. (pc[u] \in {"lockParent", "lock"} => IsNew(d, u))'
    BY DEF Knows, Descends, Unmoved, SameKeys, IsNew
  <2>7. QED
    BY <2>1, <2>2, <2>3, <2>4, <2>5, <2>6 DEF Descends
<1>3. Divides(d, u)'
  <2>1. (pc[u] = "leaf" =>
          /\ on[u] \in Keys /\ CellLeads(d, u)
          /\ depth[u] = d.to[Parent(u)] + 1 /\ Bytes(key[u], on[u], depth[u]))'
    <3>1. SUFFICES ASSUME pc[u] = "leaf"
                   PROVE  (/\ on[u] \in Keys /\ CellLeads(d, u)
                           /\ depth[u] = d.to[Parent(u)] + 1 /\ Bytes(key[u], on[u], depth[u]))'
      BY DEF Unmoved
    <3>2. /\ on[u] \in Keys /\ CellLeads(c, u) /\ depth[u] = c.to[Parent(u)] + 1
          /\ Bytes(key[u], on[u], depth[u])
      BY <3>1 DEF Knows, Divides
    <3>3. on[u] # Root
      BY <3>2, Names
    <3>4. CellLeads(d, u)'
      BY <3>1, <3>3 DEF Replacing
    <3>5. d.to[Parent(u)] = c.to[Parent(u)]
      BY <1>1, <3>2 DEF CellLeads
    <3>6. QED
      BY <3>2, <3>4, <3>5 DEF Unmoved, Parent
  <2>2. (pc[u] \in {"lockNode", "lockAbove", "publish"} =>
          /\ u \notin made /\ on[u] # Root /\ CellLeads(d, u) /\ Led(d, u, d.from[on[u]])
          /\ depth[u] + diff[u] < d.to[on[u]]
          /\ Bytes(key[u], d.sample[on[u]], depth[u] + diff[u])
          /\ ByteOf[key[u]][depth[u] + diff[u]] # ByteOf[d.sample[on[u]]][depth[u] + diff[u]])'
    <3>1. SUFFICES ASSUME pc[u] \in {"lockNode", "lockAbove", "publish"}
                   PROVE
            (/\ u \notin made /\ on[u] # Root /\ CellLeads(d, u) /\ Led(d, u, d.from[on[u]])
             /\ depth[u] + diff[u] < d.to[on[u]]
             /\ Bytes(key[u], d.sample[on[u]], depth[u] + diff[u])
             /\ ByteOf[key[u]][depth[u] + diff[u]] # ByteOf[d.sample[on[u]]][depth[u] + diff[u]])'
      BY DEF Unmoved
    <3>2. /\ u \notin made /\ on[u] # Root /\ CellLeads(c, u) /\ Led(c, u, c.from[on[u]])
          /\ depth[u] + diff[u] < c.to[on[u]]
          /\ Bytes(key[u], c.sample[on[u]], depth[u] + diff[u])
          /\ ByteOf[key[u]][depth[u] + diff[u]] # ByteOf[c.sample[on[u]]][depth[u] + diff[u]]
      BY <3>1 DEF Knows, Divides
    <3>3. CellLeads(d, u)'
      BY <3>1, <3>2 DEF Replacing
    <3>4. d.from[on[u]] = c.from[on[u]] /\ on[u] \in Live
      BY <3>1, <3>2 DEF Led
    <3>5. QED
      BY <1>1, <3>2, <3>3, <3>4 DEF Unmoved, Led
  <2>3. QED
    BY <2>1, <2>2 DEF Divides
<1>4. Splits(d, u)'
  <2>1. (/\ pc[u] \in {"setLen", "setPartial", "shortenLen", "shortenPartial"} =>
             u \in made /\ on[u] \in Nodes
         /\ pc[u] \in {"setLen", "setPartial"} => todo[u] = <<on[u], key[u]>>
         /\ pc[u] = "setLen" => node[u] = Empty
         /\ pc[u] = "setPartial" => node[u] = [Empty EXCEPT !.len = diff[u]]
         /\ pc[u] \in {"shortenLen", "shortenPartial"} => todo[u] = <<key[u]>>)'
    BY DEF Knows, Splits, Unmoved
  <2>2. Splitting(u)' <=> Splitting(u)
    BY DEF Splitting, Adding, Unmoved
  <2>3. ASSUME Splitting(u)
        PROVE  (/\ on[u] \in Things /\ d.up[on[u]] = u
                /\ todo[u] \in {<<on[u], key[u]>>, <<key[u]>>}
                /\ depth[u] = d.from[u] /\ depth[u] + diff[u] = d.to[u]
                /\ Bytes(key[u], d.sample[u], d.to[u])
                /\ ByteOf[key[u]][d.to[u]] # ByteIn(d, on[u], u)
                /\ ~HasPut(u) => \A p \in Things : d.up[p] = u => p = on[u])'
    <3>1. /\ on[u] \in Things /\ c.up[on[u]] = u
          /\ todo[u] \in {<<on[u], key[u]>>, <<key[u]>>}
          /\ depth[u] = c.from[u] /\ depth[u] + diff[u] = c.to[u]
          /\ Bytes(key[u], c.sample[u], c.to[u])
          /\ ByteOf[key[u]][c.to[u]] # ByteIn(c, on[u], u)
          /\ ~HasPut(u) => \A p \in Things : c.up[p] = u => p = on[u]
      BY <2>3 DEF Knows, Splits
    <3>2. u \in Live /\ u # Null
      BY <2>3, Names DEF Splitting, Live
    <3>3. on[u] \in Live \cup Keys
      BY <3>1, <3>2, Hanging
    <3>4. ByteIn(d, on[u], u) = ByteIn(c, on[u], u)
      BY <1>1, <3>2, <3>3 DEF ByteIn, Keeps
    <3>5. d.up[on[u]] = u /\ depth[u] = d.from[u] /\ depth[u] + diff[u] = d.to[u] /\ d.to[u] = c.to[u]
          /\ d.sample[u] = c.sample[u]
      BY <1>1, <2>3, <3>1, <3>2
    <3>6. HasPut(u)' <=> HasPut(u)
      BY UnmovedSame
    <3>7. (~HasPut(u) => \A p \in Things : d.up[p] = u => p = on[u])'
      BY <2>3, <3>1, <3>6 DEF Unmoved
    <3>8. QED
      BY <3>1, <3>4, <3>5, <3>7 DEF Unmoved, ByteIn
  <2>4. /\ Unshortened(u)' <=> Unshortened(u)
        /\ HalfShortened(u)' <=> HalfShortened(u)
    BY <2>2 DEF Unshortened, HalfShortened, Unmoved
  <2>5. ASSUME Unshortened(u) \/ HalfShortened(u)
        PROVE  /\ SamePrefix(on[u]) /\ d.to[on[u]] = c.to[on[u]] /\ d.sample[on[u]] = c.sample[on[u]]
               /\ d.from[on[u]] = c.from[on[u]]
    <3>1. Splitting(u) /\ on[u] \in Nodes
      BY <2>5 DEF Unshortened, HalfShortened
    <3>2. on[u] \in Live
      BY <3>1, Hanging, Names DEF Knows, Splits, Splitting, Live
    <3>3. QED
      BY <1>1, <3>1, <3>2
  <2>6. (Unshortened(u) => LenFrom(d, on[u], depth[u]) /\ PartialFrom(d, on[u], depth[u]))'
    BY <2>4, <2>5 DEF Knows, Splits, LenFrom, PartialFrom, SamePrefix, Unmoved
  <2>7. (HalfShortened(u) => LenFrom(d, on[u], d.from[on[u]]) /\ PartialFrom(d, on[u], depth[u]))'
    BY <2>4, <2>5 DEF Knows, Splits, LenFrom, PartialFrom, SamePrefix, Unmoved
  <2>8. QED
    BY <2>1, <2>2, <2>3, <2>6, <2>7 DEF Splits
<1>5. Adds(d, u)'
  <2>1. CASE ~Adding(u)
    BY <2>1 DEF Adds, Adding, Unmoved
  <2>2. CASE Adding(u)
    <3>1. PICK n \in Live : n = Into(u) /\ Into(u)' = n
      BY <2>2 DEF Knows, Adds, Led, Into, Live, Unmoved
    <3>2. SameCells(n) /\ InCells(d, n)' = InCells(c, n)
      BY <2>2, <3>1
    <3>3. \A D : Filled(c, n, D) => Filled(d, n, D)'
      BY <3>2, FilledKept
    <3>4. node'[n].count = node[n].count /\ node'[n].keys = node[n].keys
      BY <3>2 DEF SameCells
    <3>5. (u \notin made => /\ Led(d, u, d.to[on[u]]) /\ diff[u] = 0 /\ todo[u] = <<key[u]>>
                            /\ pc[u] = "position" => IsNew(d, u))'
      BY <1>1, <2>2, <3>1, <3>4 DEF Knows, Adds, Unmoved, Led, IsNew, Into
    <3>6. Head(todo[u]) \in Live \cup Keys
      BY <2>2, NextThing
    <3>7. ByteIn(d, Head(todo[u]), n) = ByteIn(c, Head(todo[u]), n)
      BY <1>1, <3>6 DEF ByteIn, Keeps
    <3>8. (/\ pc[u] \in {"position", "shift"} => Filled(d, n, Upto(node[n].count))
           /\ pc[u] = "put" => Filled(d, n, Gap(node[n].count, i[u]))
           /\ pc[u] \in {"count", "add"} => Filled(d, n, 0 .. node[n].count))'
      BY <2>2, <3>1, <3>3, <3>4 DEF Knows, Adds, Unmoved
    <3>9. (/\ pc[u] # "position" => node[n].count < Room
           /\ pc[u] \in {"shift", "put"} =>
                /\ i[u] \in 0 .. node[n].count /\ byte[u] = ByteIn(d, Head(todo[u]), n)
                /\ \A j \in Upto(i[u]) : node[n].keys[j] < byte[u]
           /\ pc[u] = "shift" => \A j \in i[u] .. node[n].count - 1 : node[n].keys[j] > byte[u]
           /\ pc[u] = "put" => \A j \in i[u] + 1 .. node[n].count : node[n].keys[j] > byte[u]
           /\ pc[u] = "add" => reg[u] = node[n].count)'
      BY <2>2, <3>1, <3>4, <3>7 DEF Knows, Adds, Unmoved, ByteIn
    <3>10. QED
      BY <3>1, <3>5, <3>8, <3>9 DEF Adds
  <2>3. QED
    BY <2>1, <2>2
<1>6. QED
  BY <1>2, <1>3, <1>4, <1>5 DEF Knows

-------------------------------------------------------------------------------
(* A step that changes nothing in the tree.                                *)
Quiet(t) ==
  /\ HasPut(t)' <=> HasPut(t)
  /\ Waiting(t)' <=> Waiting(t)
  /\ Waiting(t) => on'[t] = on[t]
  /\ pc'[t] \in {"setLen", "setPartial"} <=> pc[t] \in {"setLen", "setPartial"}
  /\ (Unshortened(t) \/ HalfShortened(t)) => on'[t] = on[t]
  /\ (Unshortened(t) \/ HalfShortened(t)) <=> (Unshortened(t) \/ HalfShortened(t))'
  /\ Adding(t) => Adding(t)' /\ Into(t)' = Into(t)

LEMMA QuietChart ==
  ASSUME TypesOK, NEW c \in Charts, Charted(c), NEW t \in Threads, Apart(t), node' = node, made' = made,
         t \in Inserters => Quiet(t) /\ Knows(c, t)'
  PROVE  Charted(c)'
<1>1. Live' = Live
  BY DEF Live
<1>2. \A u \in Inserters \ {t} : Unmoved(u)
  BY DEF Apart
<1>3. \A u \in Inserters :
        /\ HasPut(u)' <=> HasPut(u)
        /\ Waiting(u)' <=> Waiting(u)
        /\ Waiting(u) => on'[u] = on[u]
        /\ pc'[u] \in {"setLen", "setPartial"} <=> pc[u] \in {"setLen", "setPartial"}
        /\ (Unshortened(u) \/ HalfShortened(u)) => on'[u] = on[u]
        /\ (Unshortened(u) \/ HalfShortened(u)) <=> (Unshortened(u) \/ HalfShortened(u))'
        /\ Adding(u) => Adding(u)' /\ Into(u)' = Into(u)
  <2>1. SUFFICES ASSUME NEW u \in Inserters, u # t
                 PROVE  /\ HasPut(u)' <=> HasPut(u)
                        /\ Waiting(u)' <=> Waiting(u)
                        /\ Waiting(u) => on'[u] = on[u]
                        /\ pc'[u] \in {"setLen", "setPartial"} <=> pc[u] \in {"setLen", "setPartial"}
                        /\ (Unshortened(u) \/ HalfShortened(u)) => on'[u] = on[u]
                        /\ (Unshortened(u) \/ HalfShortened(u)) <=> (Unshortened(u) \/ HalfShortened(u))'
                        /\ Adding(u) => Adding(u)' /\ Into(u)' = Into(u)
    BY DEF Quiet
  <2>2. Unmoved(u)
    BY <1>2, <2>1
  <2>3. QED
    BY <2>2, UnmovedSame DEF Unmoved
<1>4. IsTree(c)'
  <2>1. \A n, p : Under(c, p, n)' = Under(c, p, n)
    BY <1>1 DEF Under
  <2>2. key' = key
    BY DEF Apart
  <2>3. QED
    BY <1>1, <1>3, <2>1, <2>2 DEF Charted, IsTree
<1>5. \A n \in Nodes : InCells(c, n)' = InCells(c, n)
  BY <1>3 DEF InCells
<1>6. ASSUME NEW n \in Live PROVE CellsOK(c, n)'
  <2>1. n \in Nodes
    BY LiveNodes DEF TypesOK
  <2>2. \A D : Filled(c, n, D)' = Filled(c, n, D)
    BY <1>5, <2>1 DEF Filled, ByteIn
  <2>3. QED
    BY <1>3, <2>2 DEF Charted, CellsOK
<1>7. ASSUME NEW n \in Live PROVE PrefixOK(c, n)'
  BY <1>3 DEF Charted, PrefixOK, LenFrom, PartialFrom
<1>8. ASSUME NEW u \in Inserters PROVE Knows(c, u)'
  <2>1. CASE u = t
    BY <2>1
  <2>2. CASE u # t
    <3>1. Unmoved(u) /\ Knows(c, u) /\ IsTree(c) /\ key' = key
      BY <1>2, <2>2 DEF Charted, Apart
    <3>2. Keeps(c, c)
      BY <1>1 DEF Keeps
    <3>3. \A n : SameCells(n) /\ SameKeys(n) /\ SamePrefix(n)
      BY DEF SameCells, SameKeys, SamePrefix
    <3>4. pc[u] \in {"version", "prefix"} \/ Replacing(u) => on[u] = Root \/ CellLeads(c, u)'
      <4>1. CellLeads(c, u)' <=> CellLeads(c, u)
        BY <1>1, <3>1 DEF CellLeads, Parent, Unmoved
      <4>2. QED
        BY <3>1, <4>1 DEF Knows, Descends, Divides, Replacing
    <3>5. Adding(u) => Into(u) \in Nodes
      <4>1. Adding(u) => Into(u) \in Live
        BY <3>1 DEF Knows, Adds, Led, Into, Live
      <4>2. QED
        BY <4>1, LiveNodes DEF TypesOK
    <3>6. Adding(u) => InCells(c, Into(u))' = InCells(c, Into(u))
      <4>1. SUFFICES ASSUME Adding(u) PROVE InCells(c, Into(u))' = InCells(c, Into(u))
        OBVIOUS
      <4>2. PICK n \in Nodes : n = Into(u) /\ Into(u)' = n
        BY <3>1, <3>5, <4>1, UnmovedSame
      <4>3. QED
        BY <1>5, <4>2
    <3>7. QED
      BY <3>1, <3>2, <3>3, <3>4, <3>6, KnowsKept
  <2>3. QED
    BY <2>1, <2>2
<1>9. QED
  BY <1>1, <1>4, <1>6, <1>7, <1>8 DEF Charted

-------------------------------------------------------------------------------
(* A state in which c is the chart of the tree.                            *)
Calm(c) == TypesOK /\ KeysOK /\ ~Meeting /\ c \in Charts /\ Charted(c)

LEMMA CalmFacts ==
  ASSUME NEW c, Calm(c)
  PROVE  /\ TypesOK /\ KeysOK /\ ~Meeting /\ c \in Charts /\ IsTree(c)
         /\ \A n \in Live : /\ n \in Nodes /\ CellsOK(c, n) /\ PrefixOK(c, n)
                            /\ c.from[n] \in Nat /\ c.to[n] \in Nat
                            /\ c.from[n] <= c.to[n] /\ c.to[n] < KeyLen /\ c.sample[n] \in Keys
                            /\ node[n] \in NodeRecords
         /\ \A u \in Inserters : Knows(c, u) /\ key[u] \in Keys \ Loaded /\ u \in Nodes /\ u \in Threads
         /\ \A p \in Things : c.sample[p] \in Keys
         /\ Live \subseteq Nodes
<1>1. Live \subseteq Nodes
  BY LiveNodes DEF Calm, TypesOK
<1>2. /\ \A n \in Nodes : c.from[n] \in Nat /\ c.to[n] \in Nat /\ c.sample[n] \in Keys /\ node[n] \in NodeRecords
      /\ \A p \in Things : c.sample[p] \in Keys
  BY Names DEF Calm, Charts, TypesOK
<1>3. \A n \in Live : c.from[n] <= c.to[n] /\ c.to[n] < KeyLen
  BY DEF Calm, Charted, IsTree
<1>4. \A u \in Inserters : Knows(c, u) /\ key[u] \in Keys \ Loaded /\ u \in Nodes /\ u \in Threads
  BY Names DEF Calm, Charted, KeysOK
<1>5. QED
  BY <1>1, <1>2, <1>3, <1>4 DEF Calm, Charted

(* A node to which an insert has come, with nobody at work on it.          *)
LEMMA NodeRead ==
  ASSUME NEW c, Calm(c), NEW t \in Inserters, on[t] \in Live, ~Ended(t), ~Adding(t), pc[t] # "start"
  PROVE  Filled(c, on[t], Upto(node[on[t]].count))
<1>1. \A u \in Inserters : ~(Adding(u) /\ Into(u) = on[t])
  BY CalmFacts, NoMeeting DEF AddsTo
<1>2. CellsOK(c, on[t])
  BY CalmFacts
<1>3. QED
  BY <1>1, <1>2 DEF CellsOK

LEMMA PrefixRead ==
  ASSUME NEW c, Calm(c), NEW t \in Inserters, on[t] \in Live, pc[t] \in {"version", "prefix"}
  PROVE  LenFrom(c, on[t], c.from[on[t]]) /\ PartialFrom(c, on[t], c.from[on[t]])
<1>1. ASSUME NEW u \in Inserters
      PROVE  /\ ~(pc[u] \in {"setLen", "setPartial"} /\ u = on[t])
             /\ ~((Unshortened(u) \/ HalfShortened(u)) /\ on[u] = on[t])
  <2>1. t \notin made /\ ~Ended(t)
    BY CalmFacts DEF Knows, Descends, Ended
  <2>2. CASE u = t
    BY <2>1, <2>2 DEF Unshortened, HalfShortened, Splitting
  <2>3. CASE u # t
    <3>1. ~AddsTo(u, on[t]) /\ ~Shortens(u, on[t])
      BY <2>1, <2>3, CalmFacts, NoMeeting
    <3>2. pc[u] \in {"setLen", "setPartial"} => Splitting(u)
      BY CalmFacts DEF Knows, Splits, Splitting
    <3>3. QED
      BY <3>1, <3>2 DEF AddsTo, Shortens, Unshortened, HalfShortened
  <2>4. QED
    BY <2>2, <2>3
<1>2. PrefixOK(c, on[t])
  BY CalmFacts
<1>3. QED
  BY <1>1, <1>2 DEF PrefixOK

(* On the way down and up to the first change.                             *)
LEMMA QuietUnmade ==
  ASSUME NEW t \in Inserters, t \notin made, made' = made, ~Adding(t),
         pc[t] \notin {"setLen", "setPartial", "unlock", "unlockParent", "done"},
         pc'[t] \notin {"setLen", "setPartial", "unlock", "unlockParent", "done", "count", "add"}
  PROVE  Quiet(t)
BY DEF Quiet, HasPut, Waiting, Unshortened, HalfShortened, Splitting, Adding

LEMMA CallQuiet ==
  ASSUME NEW c, Calm(c), NEW t \in Inserters, Call(t)
  PROVE  Quiet(t) /\ Knows(c, t)'
<1>1. /\ pc[t] = "start" /\ pc'[t] = "prefix" /\ on' = on /\ depth' = depth /\ diff' = diff
      /\ key' = key /\ made' = made
  BY CalmFacts DEF Call, Goto, TypesOK, shared, path, hand
<1>2. t \notin made /\ diff[t] = 0 /\ on[t] = Root /\ depth[t] = 0
  BY <1>1, CalmFacts DEF Knows, Descends
<1>3. Quiet(t)
  BY <1>1, <1>2, QuietUnmade DEF Adding
<1>4. Root \in Live /\ c.from[Root] = 0
  BY CalmFacts DEF IsTree
<1>5. Led(c, t, c.from[on[t]])'
  BY <1>1, <1>2, <1>4 DEF Led, Live, Bytes
<1>6. Knows(c, t)'
  BY <1>1, <1>2, <1>5 DEF Knows, Descends, Divides, Splits, Adds, Splitting, Adding, Unshortened,
                          HalfShortened
<1>7. QED
  BY <1>3, <1>6

LEMMA ReadVersionQuiet ==
  ASSUME NEW c, Calm(c), NEW t \in Inserters, ReadVersion(t)
  PROVE  Quiet(t) /\ Knows(c, t)'
<1>1. /\ pc[t] = "version" /\ pc'[t] = "prefix" /\ on' = on /\ ref' = ref /\ depth' = depth /\ diff' = diff
      /\ key' = key /\ made' = made /\ node' = node
  BY CalmFacts, Names DEF ReadVersion, Goto, TypesOK, shared, path, hand, Search
<1>2. t \notin made /\ diff[t] = 0 /\ Led(c, t, c.from[on[t]]) /\ (on[t] # Root => CellLeads(c, t))
  BY <1>1, CalmFacts DEF Knows, Descends
<1>3. Quiet(t)
  BY <1>1, <1>2, QuietUnmade DEF Adding
<1>4. (Led(c, t, c.from[on[t]]) /\ (on[t] # Root => CellLeads(c, t)))'
  BY <1>1, <1>2 DEF Led, Live, CellLeads, Parent
<1>5. Knows(c, t)'
  BY <1>1, <1>2, <1>4 DEF Knows, Descends, Divides, Splits, Adds, Splitting, Adding, Unshortened,
                          HalfShortened
<1>6. QED
  BY <1>3, <1>5

LEMMA ReadPrefixQuiet ==
  ASSUME NEW c, Calm(c), NEW t \in Inserters, ReadPrefix(t)
  PROVE  Quiet(t) /\ Knows(c, t)' /\ diff' \in [Threads -> 0 .. KeyLen] /\ depth' \in [Threads -> Nat]
<1> DEFINE n == on[t]
           S == {j \in 0 .. node[n].len - 1 : node[n].partial[j] # Byte(key[t], depth[t] + j)}
           m == FirstOf(S, node[n].len)
<1>1. /\ pc[t] = "prefix" /\ key' = key /\ made' = made /\ node' = node
      /\ m = PrefixMismatch(on[t], key[t], depth[t]) /\ ~Search(t)
  BY Names DEF ReadPrefix, shared, Search, PrefixMismatch
<1>2. t \notin made /\ diff[t] = 0 /\ Led(c, t, c.from[n]) /\ (n # Root => CellLeads(c, t))
  BY <1>1, CalmFacts DEF Knows, Descends
<1>3. n \in Live /\ depth[t] = c.from[n] /\ Bytes(key[t], c.sample[n], c.from[n])
  BY <1>2 DEF Led
<1>4. LenFrom(c, n, c.from[n]) /\ PartialFrom(c, n, c.from[n])
  BY <1>1, <1>3, PrefixRead
<1>5. /\ c.from[n] \in Nat /\ c.to[n] \in Nat /\ c.from[n] <= c.to[n] /\ c.to[n] < KeyLen
      /\ node[n].len = c.to[n] - c.from[n] /\ node[n].len \in Nat /\ node[n].len <= KeyLen
      /\ key[t] \in Keys /\ c.sample[n] \in Keys
  BY <1>3, <1>4, CalmFacts, Fields DEF LenFrom
<1>6. /\ m \in 0 .. node[n].len /\ (m = node[n].len <=> S = {}) /\ (S # {} => m \in S)
      /\ \A j \in 0 .. m - 1 : j \notin S
  <2>1. S \in SUBSET (0 .. node[n].len - 1)
    OBVIOUS
  <2> HIDE DEF S
  <2>2. QED
    BY <1>5, <2>1, FirstBelow
<1>7. \A j \in 0 .. node[n].len - 1 :
        j \in S <=> ByteOf[c.sample[n]][depth[t] + j] # ByteOf[key[t]][depth[t] + j]
  <2>1. SUFFICES ASSUME NEW j \in 0 .. node[n].len - 1
                 PROVE  j \in S <=> ByteOf[c.sample[n]][depth[t] + j] # ByteOf[key[t]][depth[t] + j]
    OBVIOUS
  <2>2. node[n].partial[j] = ByteOf[c.sample[n]][depth[t] + j]
    BY <1>3, <1>4, <1>5 DEF PartialFrom
  <2>3. depth[t] + j \in 0 .. KeyLen - 1
    BY <1>3, <1>5, Numbers
  <2>4. Byte(key[t], depth[t] + j) = ByteOf[key[t]][depth[t] + j]
    BY <1>5, <2>3, Letters
  <2>5. QED
    BY <2>2, <2>4
<1> HIDE DEF m, S
<1>8. Bytes(key[t], c.sample[n], depth[t] + m)
  <2>1. ASSUME NEW j \in 0 .. (depth[t] + m) - 1 PROVE ByteOf[key[t]][j] = ByteOf[c.sample[n]][j]
    <3>1. CASE j < depth[t]
      BY <1>3, <1>5, <2>1, <3>1 DEF Bytes
    <3>2. CASE j >= depth[t]
      <4>1. j - depth[t] \in 0 .. m - 1 /\ j - depth[t] \in 0 .. node[n].len - 1
        BY <1>3, <1>5, <1>6, <2>1, <3>2
      <4>2. ByteOf[c.sample[n]][depth[t] + (j - depth[t])] = ByteOf[key[t]][depth[t] + (j - depth[t])]
        BY <1>6, <1>7, <4>1
      <4>3. depth[t] + (j - depth[t]) = j
        BY <1>3, <1>5, <2>1
      <4>4. QED
        BY <4>2, <4>3
    <3>3. QED
      BY <1>3, <1>5, <1>6, <2>1, <3>1, <3>2
  <2>2. QED
    BY <2>1 DEF Bytes
<1>9. CASE m = node[n].len
  <2>1. /\ pc'[t] = "find" /\ depth'[t] = depth[t] + m /\ on' = on /\ diff' = diff
        /\ depth' = [depth EXCEPT ![t] = @ + m]
    BY <1>1, <1>9, CalmFacts DEF ReadPrefix, Goto, TypesOK, hand
  <2>2. Quiet(t)
    BY <1>1, <1>2, <2>1, QuietUnmade DEF Adding
  <2>3. depth[t] + m = c.to[n]
    BY <1>3, <1>5, <1>9
  <2>4. Led(c, t, c.to[on[t]])'
    BY <1>1, <1>3, <1>8, <2>1, <2>3 DEF Led, Live
  <2>5. Knows(c, t)'
    BY <1>1, <1>2, <2>1, <2>4 DEF Knows, Descends, Divides, Splits, Adds, Splitting, Adding, Unshortened,
                          HalfShortened
  <2>6. QED
    BY <1>5, <1>6, <2>1, <2>2, <2>5, CalmFacts DEF TypesOK
<1>10. CASE m # node[n].len
  <2>1. /\ pc'[t] = "lockNode" /\ diff'[t] = m /\ on' = on /\ depth' = depth /\ ref' = ref
        /\ diff' = [diff EXCEPT ![t] = m]
    BY <1>1, <1>10, CalmFacts DEF ReadPrefix, Goto, TypesOK, path
  <2>2. Quiet(t)
    BY <1>1, <1>2, <2>1, QuietUnmade DEF Adding
  <2>3. m \in Nat /\ m < node[n].len /\ m \in S
    BY <1>5, <1>6, <1>10
  <2>4. depth[t] + m < c.to[n]
    BY <1>3, <1>5, <2>3
  <2>5. n # Root
    <3>1. c.to[Root] = 0
      BY CalmFacts DEF IsTree
    <3>2. QED
      BY <1>3, <1>5, <2>3, <2>4, <3>1
  <2>6. ByteOf[key[t]][depth[t] + m] # ByteOf[c.sample[n]][depth[t] + m]
    BY <1>5, <1>7, <2>3
  <2>7. CellLeads(c, t)'
    BY <1>1, <1>2, <2>1, <2>5 DEF CellLeads, Parent, Live
  <2>8. Led(c, t, c.from[on[t]])'
    BY <1>1, <1>2, <2>1 DEF Led, Live
  <2>9. Knows(c, t)'
    BY <1>1, <1>2, <1>8, <2>1, <2>4, <2>5, <2>6, <2>7, <2>8
       DEF Knows, Descends, Divides, Splits, Adds, Splitting, Adding, Unshortened, HalfShortened
  <2>10. QED
    BY <1>5, <1>6, <2>1, <2>2, <2>3, <2>9, CalmFacts, Numbers DEF TypesOK
<1>11. QED
  BY <1>9, <1>10

LEMMA FindQuiet ==
  ASSUME NEW c, Calm(c), NEW t \in Inserters, Find(t)
  PROVE  Quiet(t) /\ Knows(c, t)' /\ i'[t] \in Cells
<1> DEFINE n == node[on[t]]
           at == {j \in 0 .. n.count - 1 : n.keys[j] = Byte(key[t], depth[t])}
<1>1. /\ pc[t] = "find" /\ i'[t] = FirstOf(at, 0) /\ pc'[t] = (IF at # {} THEN "load" ELSE "lockParent")
      /\ key' = key /\ made' = made /\ node' = node /\ on' = on /\ depth' = depth /\ diff' = diff
  BY CalmFacts, Names DEF Find, Goto, TypesOK, Search, shared, path, hand
<1>2. t \notin made /\ diff[t] = 0 /\ Led(c, t, c.to[on[t]])
  BY <1>1, CalmFacts DEF Knows, Descends
<1>3. Quiet(t)
  BY <1>1, <1>2, QuietUnmade DEF Adding
<1>4. Led(c, t, c.to[on[t]])'
  BY <1>1, <1>2 DEF Led, Live
<1>5. n.count \in Nat /\ n.count <= Room
  BY <1>2, CalmFacts, Fields DEF Led
<1>6. at # {} => FirstOf(at, 0) \in at
  <2>1. at \in SUBSET Nat
    BY <1>5
  <2>2. QED
    BY <2>1, First
<1>7. i'[t] \in Cells
  <2>1. at = {} => FirstOf(at, 0) = 0
    BY DEF FirstOf
  <2>2. QED
    BY <1>1, <1>5, <1>6, <2>1, Numbers
<1>8. (pc[t] = "load" => i[t] < node[on[t]].count /\ node[on[t]].keys[i[t]] = Byte(key[t], depth[t]))'
  BY <1>1, <1>5, <1>6
<1>9. (pc[t] = "lockParent" => IsNew(c, t))'
  BY <1>1 DEF IsNew, Upto
<1>10. Knows(c, t)'
  BY <1>1, <1>2, <1>4, <1>8, <1>9
     DEF Knows, Descends, Divides, Splits, Adds, Splitting, Adding, Unshortened, HalfShortened
<1>11. QED
  BY <1>3, <1>7, <1>10

(* What is in a cell of a node that an insert reads leads on.              *)
LEMMA CellRead ==
  ASSUME NEW c, Calm(c), NEW n \in Live, Filled(c, n, Upto(node[n].count)),
         NEW j \in Upto(node[n].count)
  PROVE  LET p == node[n].children[j] IN
         /\ p \in Live \cup Keys /\ c.up[p] = n /\ Under(c, p, n) /\ p # Root
         /\ node[n].keys[j] = ByteOf[c.sample[p]][c.to[n]]
<1> DEFINE p == node[n].children[j]
<1>1. p \in Things /\ c.up[p] = n /\ node[n].keys[j] = ByteIn(c, p, n)
  BY DEF Filled, InCells
<1>2. n # Null
  BY CalmFacts, Names
<1>3. p \in Live \cup Keys
  BY <1>1, <1>2, Hanging, CalmFacts
<1>4. p # Root /\ Under(c, p, n)
  BY <1>1, <1>2, CalmFacts DEF IsTree
<1>5. QED
  BY <1>1, <1>3, <1>4 DEF ByteIn

LEMMA LoadChildQuiet ==
  ASSUME NEW c, Calm(c), NEW t \in Inserters, LoadChild(t)
  PROVE  /\ Quiet(t) /\ Knows(c, t)'
         /\ on'[t] \in Live \cup Keys /\ ref'[t] \in Nodes \X Cells /\ depth'[t] \in Nat
         /\ on'[t] \in Keys => pc'[t] = "leaf"
<1> DEFINE n == on[t]
           p == node[n].children[i[t]]
<1>1. /\ pc[t] = "load" /\ on'[t] = p /\ ref'[t] = <<n, i[t]>> /\ depth'[t] = depth[t] + 1
      /\ pc'[t] = (IF p \in Nodes THEN "version" ELSE "leaf")
      /\ key' = key /\ made' = made /\ node' = node /\ diff' = diff
  BY CalmFacts, Names DEF LoadChild, GoDown, GoneDown, Goto, TypesOK, Search, shared
<1>2. /\ t \notin made /\ diff[t] = 0 /\ Led(c, t, c.to[n])
      /\ i[t] < node[n].count /\ node[n].keys[i[t]] = Byte(key[t], depth[t])
  BY <1>1, CalmFacts DEF Knows, Descends
<1>3. n \in Live /\ depth[t] = c.to[n] /\ Bytes(key[t], c.sample[n], c.to[n])
  BY <1>2 DEF Led
<1>4. Quiet(t)
  BY <1>1, <1>2, QuietUnmade DEF Adding
<1>5. Filled(c, n, Upto(node[n].count))
  BY <1>1, <1>3, NodeRead DEF Ended, Adding
<1>6. i[t] \in Upto(node[n].count) /\ i[t] \in Cells
  <2>1. i[t] \in 0 .. Room /\ i[t] \in Cells
    BY <1>1, CalmFacts DEF TypesOK
  <2>2. node[n].count \in Nat
    BY <1>3, CalmFacts, Fields
  <2>3. QED
    BY <1>2, <2>1, <2>2, Numbers DEF Upto
<1>7. /\ p \in Live \cup Keys /\ c.up[p] = n /\ Under(c, p, n) /\ p # Root
      /\ node[n].keys[i[t]] = ByteOf[c.sample[p]][c.to[n]]
  <2> HIDE DEF n
  <2>1. PICK j \in Upto(node[n].count) : j = i[t]
    BY <1>6
  <2>2. LET q == node[n].children[j] IN
        /\ q \in Live \cup Keys /\ c.up[q] = n /\ Under(c, q, n) /\ q # Root
        /\ node[n].keys[j] = ByteOf[c.sample[q]][c.to[n]]
    BY <1>3, <1>5, CellRead
  <2>3. QED
    BY <2>1, <2>2
<1>8. c.to[n] \in Nat /\ c.to[n] < KeyLen /\ key[t] \in Keys
  BY <1>3, CalmFacts
<1>9. ByteOf[key[t]][c.to[n]] = ByteOf[c.sample[p]][c.to[n]]
  <2>1. c.to[n] \in 0 .. KeyLen - 1
    BY <1>8, Numbers
  <2>2. Byte(key[t], c.to[n]) = ByteOf[key[t]][c.to[n]]
    BY <1>8, <2>1, Letters
  <2>3. QED
    BY <1>2, <1>3, <1>7, <2>2
<1>10. Bytes(key[t], c.sample[p], c.to[n] + 1)
  <2>1. Bytes(c.sample[p], c.sample[n], c.to[n])
    BY <1>7 DEF Under
  <2>2. ASSUME NEW j \in 0 .. (c.to[n] + 1) - 1 PROVE ByteOf[key[t]][j] = ByteOf[c.sample[p]][j]
    <3>1. j = c.to[n] \/ j \in 0 .. c.to[n] - 1
      BY <1>8
    <3>2. QED
      BY <1>3, <1>9, <2>1, <3>1 DEF Bytes
  <2>3. QED
    BY <2>2 DEF Bytes
<1>11. CellLeads(c, t)'
  <2>1. ref'[t][1] = n /\ ref'[t][2] = i[t]
    BY <1>1
  <2>2. QED
    BY <1>1, <1>2, <1>3, <1>7, <2>1 DEF CellLeads, Parent, Live
<1> HIDE DEF p
<1>12. CASE p \in Nodes
  <2>1. p \in Live /\ c.from[p] = c.to[n] + 1
    BY <1>7, <1>12, Names DEF Under
  <2>2. Led(c, t, c.from[on[t]])'
    <3>1. on'[t] = p /\ key'[t] = key[t] /\ depth'[t] = c.from[p] /\ p \in Live'
      BY <1>1, <1>3, <2>1 DEF Live
    <3>2. Bytes(key[t], c.sample[p], c.from[p])
      BY <1>10, <2>1
    <3>3. QED
      BY <3>1, <3>2 DEF Led
  <2>3. Knows(c, t)'
    BY <1>1, <1>2, <1>11, <1>12, <2>2
       DEF Knows, Descends, Divides, Splits, Adds, Splitting, Adding, Unshortened, HalfShortened
  <2>4. QED
    BY <1>1, <1>3, <1>4, <1>6, <1>8, <1>12, <2>1, <2>3, Names, CalmFacts
<1>13. CASE p \notin Nodes
  <2>1. p \in Keys
    BY <1>7, <1>13, CalmFacts
  <2>2. c.sample[p] = p
    BY <2>1, CalmFacts DEF IsTree
  <2>3. (/\ on[t] \in Keys /\ CellLeads(c, t)
         /\ depth[t] = c.to[Parent(t)] + 1 /\ Bytes(key[t], on[t], depth[t]))'
    BY <1>1, <1>3, <1>10, <1>11, <2>1, <2>2 DEF Parent
  <2>4. Knows(c, t)'
    BY <1>1, <1>2, <1>13, <2>3
       DEF Knows, Descends, Divides, Splits, Adds, Splitting, Adding, Unshortened, HalfShortened
  <2>5. QED
    BY <1>1, <1>3, <1>4, <1>6, <1>8, <1>13, <2>1, <2>4, CalmFacts
<1>14. QED
  BY <1>12, <1>13

LEMMA LockingQuiet ==
  ASSUME NEW c, Calm(c), NEW t \in Inserters, LockParent(t) \/ LockNode(t) \/ LockAbove(t)
  PROVE  Quiet(t) /\ Knows(c, t)'
<1>1. /\ key' = key /\ made' = made /\ node' = node /\ on' = on /\ ref' = ref /\ depth' = depth
      /\ diff' = diff /\ todo' = todo
      /\ \/ pc[t] = "lockParent" /\ pc'[t] = "lock"
         \/ pc[t] = "lockNode" /\ pc'[t] = "lockAbove"
         \/ pc[t] = "lockAbove" /\ pc'[t] = "publish"
  BY CalmFacts DEF LockParent, LockNode, LockAbove, Goto, TypesOK, path, hand
<1>2. t \notin made
  BY <1>1, CalmFacts DEF Knows, Descends, Divides
<1>3. Quiet(t)
  BY <1>1, <1>2, QuietUnmade DEF Adding
<1>4. CASE pc[t] = "lockParent"
  <2>1. diff[t] = 0 /\ Led(c, t, c.to[on[t]]) /\ IsNew(c, t)
    BY <1>4, CalmFacts DEF Knows, Descends
  <2>2. (Led(c, t, c.to[on[t]]) /\ IsNew(c, t))'
    BY <1>1, <2>1 DEF Led, IsNew, Live
  <2>3. Knows(c, t)'
    BY <1>1, <1>2, <1>4, <2>1, <2>2
       DEF Knows, Descends, Divides, Splits, Adds, Splitting, Adding, Unshortened, HalfShortened
  <2>4. QED
    BY <1>3, <2>3
<1>5. CASE pc[t] # "lockParent"
  <2>1. /\ on[t] # Root /\ CellLeads(c, t) /\ Led(c, t, c.from[on[t]])
        /\ depth[t] + diff[t] < c.to[on[t]]
        /\ Bytes(key[t], c.sample[on[t]], depth[t] + diff[t])
        /\ ByteOf[key[t]][depth[t] + diff[t]] # ByteOf[c.sample[on[t]]][depth[t] + diff[t]]
    BY <1>1, <1>5, CalmFacts DEF Knows, Divides
  <2>2. (CellLeads(c, t) /\ Led(c, t, c.from[on[t]]))'
    BY <1>1, <2>1 DEF Led, CellLeads, Parent, Live
  <2>3. Knows(c, t)'
    BY <1>1, <1>2, <1>5, <2>1, <2>2
       DEF Knows, Descends, Divides, Splits, Adds, Splitting, Adding, Unshortened, HalfShortened
  <2>4. QED
    BY <1>3, <2>3
<1>6. QED
  BY <1>4, <1>5

LEMMA LockQuiet ==
  ASSUME NEW c, Calm(c), NEW t \in Inserters, Lock(t)
  PROVE  Quiet(t) /\ Knows(c, t)' /\ todo'[t] = <<key[t]>>
<1>1. /\ key' = key /\ made' = made /\ node' = node /\ on' = on /\ depth' = depth
      /\ diff' = diff /\ todo'[t] = <<key[t]>> /\ pc[t] = "lock" /\ pc'[t] = "position"
  BY CalmFacts DEF Lock, Goto, TypesOK, path
<1>2. t \notin made /\ diff[t] = 0 /\ Led(c, t, c.to[on[t]]) /\ IsNew(c, t)
  BY <1>1, CalmFacts DEF Knows, Descends
<1>3. Quiet(t)
  BY <1>1, <1>2, QuietUnmade DEF Adding
<1>4. Filled(c, on[t], Upto(node[on[t]].count))
  BY <1>1, <1>2, NodeRead DEF Led, Ended, Adding
<1>5. Filled(c, on[t], Upto(node[on[t]].count))'
  <2>1. InCells(c, on[t])' = InCells(c, on[t])
    <3>1. \A u \in Inserters : Waiting(u)' <=> Waiting(u)
      <4>1. Apart(t)
        BY StepApart, CalmFacts DEF InsertStep
      <4>2. QED
        BY <1>3, <4>1, UnmovedSame DEF Quiet, Apart
    <3>2. QED
      BY <1>1, <3>1 DEF InCells
  <2>2. QED
    BY <1>1, <1>4, <2>1 DEF Filled, ByteIn
<1>6. (Led(c, t, c.to[on[t]]) /\ IsNew(c, t))'
  BY <1>1, <1>2 DEF Led, IsNew, Live
<1>7. Knows(c, t)'
  BY <1>1, <1>2, <1>5, <1>6
     DEF Knows, Descends, Divides, Splits, Adds, Splitting, Adding, Unshortened, HalfShortened, Into
<1>8. QED
  BY <1>1, <1>3, <1>7

(* The byte of what is to be added next, which is in no cell yet.          *)
LEMMA NextByte ==
  ASSUME NEW c, Calm(c), NEW t \in Inserters, pc[t] = "position"
  PROVE  LET n == Into(t) IN
         /\ n \in Live /\ AddedByte(t) = ByteIn(c, Added(t), n) /\ AddedByte(t) \in Nat
         /\ \A j \in Upto(node[n].count) : node[n].keys[j] # AddedByte(t)
<1>1. Adding(t) /\ ~HasPut(t)
  BY DEF Adding, HasPut
<1>2. key[t] \in Keys /\ c.sample[key[t]] = key[t] /\ key[t] \notin Nodes /\ \A k \in Keys : c.sample[k] = k
  BY CalmFacts, Names DEF IsTree
<1>3. \A n \in Live : c.to[n] \in 0 .. KeyLen - 1
  BY CalmFacts, Numbers
<1>4. CASE t \notin made
  <2>1. /\ Led(c, t, c.to[on[t]]) /\ diff[t] = 0 /\ todo[t] = <<key[t]>> /\ IsNew(c, t)
    BY <1>1, <1>4, CalmFacts DEF Knows, Adds
  <2>2. Into(t) = on[t] /\ on[t] \in Live /\ depth[t] = c.to[on[t]]
    BY <1>4, <2>1 DEF Into, Led
  <2>3. Added(t) = key[t]
    BY <2>1 DEF Added
  <2>4. depth[t] + diff[t] = depth[t] /\ depth[t] \in 0 .. KeyLen - 1
    BY <1>3, <2>1, <2>2
  <2>5. AddedByte(t) = Byte(key[t], depth[t]) /\ Byte(key[t], depth[t]) = ByteOf[key[t]][depth[t]]
        /\ ByteOf[key[t]][depth[t]] \in Nat
    BY <1>2, <2>3, <2>4, Letters DEF AddedByte
  <2>6. QED
    BY <1>2, <2>1, <2>2, <2>3, <2>5 DEF IsNew, ByteIn
<1>5. CASE t \in made
  <2>1. Splitting(t) /\ Into(t) = t /\ t \in Live
    BY <1>1, <1>5 DEF Splitting, Into, Live
  <2>2. /\ on[t] \in Things /\ c.up[on[t]] = t
        /\ todo[t] \in {<<on[t], key[t]>>, <<key[t]>>}
        /\ depth[t] = c.from[t] /\ depth[t] + diff[t] = c.to[t]
        /\ ByteOf[key[t]][c.to[t]] # ByteIn(c, on[t], t)
        /\ \A p \in Things : c.up[p] = t => p = on[t]
        /\ Filled(c, t, Upto(node[t].count))
    <3>1. Splits(c, t) /\ Adds(c, t)
      BY CalmFacts DEF Knows
    <3>2. Filled(c, t, Upto(node[t].count))
      BY <1>1, <2>1, <3>1 DEF Adds
    <3>3. QED
      BY <1>1, <2>1, <3>1, <3>2 DEF Splits
  <2>3. depth[t] + diff[t] \in 0 .. KeyLen - 1
    BY <1>3, <2>1, <2>2
  <2>4. CASE todo[t] = <<key[t]>>
    <3>1. Added(t) = key[t]
      BY <2>4 DEF Added
    <3>2. AddedByte(t) = Byte(key[t], depth[t] + diff[t])
      BY <1>2, <3>1 DEF AddedByte
    <3>3. AddedByte(t) = ByteOf[key[t]][c.to[t]] /\ AddedByte(t) \in Nat
      BY <1>2, <2>2, <2>3, <3>2, Letters
    <3>4. ASSUME NEW j \in Upto(node[t].count) PROVE node[t].keys[j] # AddedByte(t)
      <4>1. node[t].children[j] = on[t] /\ node[t].keys[j] = ByteIn(c, node[t].children[j], t)
        BY <2>2, <3>4 DEF Filled, InCells
      <4>2. QED
        BY <2>2, <3>3, <4>1
    <3>5. QED
      BY <1>2, <2>1, <3>1, <3>3, <3>4 DEF ByteIn
  <2>5. CASE todo[t] = <<on[t], key[t]>>
    <3>1. Added(t) = on[t] /\ Len(todo[t]) = 2
      BY <2>5 DEF Added
    <3>2. Waiting(t)
      BY <1>5, <3>1 DEF Waiting
    <3>3. InCells(c, t) = {}
      BY <2>2, <3>2 DEF InCells
    <3>4. \A j \in Upto(node[t].count) : node[t].keys[j] # AddedByte(t)
      BY <2>2, <3>3 DEF Filled
    <3>5. CASE on[t] \in Nodes
      <4>1. Unshortened(t)
        BY <2>1, <3>1, <3>5 DEF Unshortened
      <4>2. PartialFrom(c, on[t], depth[t])
        BY <4>1, CalmFacts DEF Knows, Splits
      <4>3. on[t] \in Live /\ Under(c, on[t], t)
        BY <2>2, <3>5, Hanging, CalmFacts, Names DEF IsTree
      <4>4. c.from[on[t]] = c.to[t] + 1 /\ c.from[on[t]] <= c.to[on[t]] /\ c.to[on[t]] \in Nat
        BY <3>5, <4>3, CalmFacts DEF Under
      <4>5. diff[t] \in 0 .. c.to[on[t]] - depth[t] - 1
        <5>1. diff[t] \in Nat /\ depth[t] \in Nat
          BY CalmFacts, Names, Numbers DEF TypesOK
        <5>2. QED
          BY <2>2, <4>4, <5>1
      <4>6. node[on[t]].partial[diff[t]] = ByteOf[c.sample[on[t]]][c.to[t]]
        BY <2>2, <4>2, <4>5 DEF PartialFrom
      <4>7. ByteOf[c.sample[on[t]]][c.to[t]] \in Nat
        BY <2>2, <2>3, CalmFacts, Letters
      <4>8. QED
        BY <2>1, <3>1, <3>4, <3>5, <4>6, <4>7 DEF AddedByte, ByteIn
    <3>6. CASE on[t] \notin Nodes
      <4>1. on[t] \in Keys
        BY <2>2, <3>6 DEF Things
      <4>2. AddedByte(t) = Byte(on[t], depth[t] + diff[t])
        BY <3>1, <3>6 DEF AddedByte
      <4>3. AddedByte(t) = ByteOf[on[t]][c.to[t]] /\ AddedByte(t) \in Nat
        BY <2>2, <2>3, <4>1, <4>2, Letters
      <4>4. QED
        BY <1>2, <2>1, <3>1, <3>4, <4>1, <4>3 DEF ByteIn
    <3>7. QED
      BY <3>5, <3>6
  <2>6. QED
    BY <2>2, <2>4, <2>5
<1>6. QED
  BY <1>4, <1>5

LEMMA PositionQuiet ==
  ASSUME NEW c, Calm(c), NEW t \in Inserters, Position(t)
  PROVE  Quiet(t) /\ Knows(c, t)' /\ i'[t] \in 0 .. Room /\ byte'[t] \in Nat
<1>1. PICK n \in Nodes : n = Into(t) /\ n \in Live /\ Into(t)' = n
  <2>1. Into(t) \in Live /\ Into(t)' = Into(t)
    BY NextByte DEF Position, Into, shared, path
  <2>2. QED
    BY <2>1, CalmFacts
<1> DEFINE b == AddedByte(t)
           S == {j \in 0 .. node[n].count - 1 : b < node[n].keys[j]}
           p == FirstOf(S, node[n].count)
<1>2. /\ pc[t] = "position" /\ pc'[t] = "shift" /\ node[n].count < Room
      /\ i'[t] = p /\ byte'[t] = b
      /\ key' = key /\ made' = made /\ node' = node /\ on' = on /\ depth' = depth /\ ref' = ref
      /\ diff' = diff /\ todo' = todo
  BY <1>1, CalmFacts DEF Position, Place, Goto, TypesOK, shared, path
<1>3. /\ b = ByteIn(c, Head(todo[t]), n) /\ b \in Nat
      /\ \A j \in Upto(node[n].count) : node[n].keys[j] # b
  BY <1>1, <1>2, NextByte DEF Added
<1>4. node[n].count \in Nat /\ node[n].keys \in [Cells -> Nat]
  BY <1>1, CalmFacts, Fields
<1> HIDE DEF b
<1>5. Adding(t) /\ Adding(t)'
  BY <1>2 DEF Adding
<1>6. /\ p \in 0 .. node[n].count /\ (p < node[n].count => b < node[n].keys[p])
      /\ \A j \in 0 .. p - 1 : ~(b < node[n].keys[j])
  <2>1. S \in SUBSET (0 .. node[n].count - 1)
    OBVIOUS
  <2>2. /\ p \in 0 .. node[n].count /\ (S # {} => p \in S) /\ (p = node[n].count <=> S = {})
        /\ \A j \in 0 .. p - 1 : j \notin S
    BY <1>4, <2>1, FirstBelow
  <2>3. ASSUME NEW j \in 0 .. p - 1 PROVE ~(b < node[n].keys[j])
    <3>1. j \in 0 .. node[n].count - 1 /\ j \notin S
      BY <1>4, <2>2
    <3>2. QED
      BY <3>1
  <2>4. QED
    BY <1>4, <2>2, <2>3
<1> HIDE DEF S, p
<1>7. \A j \in Upto(node[n].count) : j \in Nat /\ j \in Cells /\ node[n].keys[j] \in Nat
  BY <1>2, <1>4, Numbers DEF Upto
<1>8. Filled(c, n, Upto(node[n].count))
  BY <1>1, <1>2, <1>5, CalmFacts DEF Knows, Adds
<1>9. \A j \in Upto(p) : node[n].keys[j] < b
  <2>1. SUFFICES ASSUME NEW j \in Upto(p) PROVE node[n].keys[j] < b
    OBVIOUS
  <2>2. j \in Upto(node[n].count)
    BY <1>4, <1>6 DEF Upto
  <2>3. ~(b < node[n].keys[j]) /\ node[n].keys[j] # b
    BY <1>3, <1>6, <2>2 DEF Upto
  <2>4. QED
    BY <1>3, <1>7, <2>2, <2>3
<1>10. \A j \in p .. node[n].count - 1 : node[n].keys[j] > b
  <2>1. SUFFICES ASSUME NEW j \in p .. node[n].count - 1 PROVE node[n].keys[j] > b
    OBVIOUS
  <2>2. p \in Upto(node[n].count) /\ j \in Upto(node[n].count) /\ b < node[n].keys[p]
    BY <1>4, <1>6 DEF Upto
  <2>3. p = j \/ p < j
    BY <1>4, <1>6
  <2>4. p < j => node[n].keys[p] < node[n].keys[j]
    BY <1>8, <2>2 DEF Filled
  <2>5. node[n].keys[p] \in Nat /\ node[n].keys[j] \in Nat
    BY <1>7, <2>2
  <2>6. QED
    BY <1>3, <2>2, <2>3, <2>4, <2>5
<1>11. Quiet(t)
  <2>1. Waiting(t)' <=> Waiting(t)
    BY <1>2 DEF Waiting
  <2>2. /\ Splitting(t)' <=> Splitting(t)
        /\ Unshortened(t)' <=> Unshortened(t)
        /\ HalfShortened(t)' <=> HalfShortened(t)
    BY <1>2 DEF Splitting, Adding, Unshortened, HalfShortened
  <2>3. HasPut(t)' <=> HasPut(t)
    BY <1>2 DEF HasPut
  <2>4. QED
    BY <1>1, <1>2, <1>5, <2>1, <2>2, <2>3 DEF Quiet
<1>12. \A D : Filled(c, n, D)' <=> Filled(c, n, D)
  <2>1. InCells(c, n)' = InCells(c, n)
    <3>1. \A u \in Inserters : Waiting(u)' <=> Waiting(u)
      <4>1. Apart(t)
        BY StepApart, CalmFacts DEF InsertStep
      <4>2. QED
        BY <1>11, <4>1, UnmovedSame DEF Quiet, Apart
    <3>2. QED
      BY <1>2, <3>1 DEF InCells
  <2>2. QED
    BY <1>2, <2>1 DEF Filled, ByteIn
<1>13. Splits(c, t)'
  <2>1. /\ Splitting(t)' <=> Splitting(t)
        /\ Unshortened(t)' <=> Unshortened(t)
        /\ HalfShortened(t)' <=> HalfShortened(t)
        /\ HasPut(t)' <=> HasPut(t)
    BY <1>2 DEF Splitting, Adding, Unshortened, HalfShortened, HasPut
  <2>2. Splits(c, t)
    BY CalmFacts DEF Knows
  <2>3. QED
    BY <1>2, <2>1, <2>2 DEF Splits, LenFrom, PartialFrom, ByteIn
<1>14. Adds(c, t)'
  <2>1. t \notin made => Led(c, t, c.to[on[t]]) /\ diff[t] = 0 /\ todo[t] = <<key[t]>>
    BY <1>5, CalmFacts DEF Knows, Adds
  <2>2. (t \notin made => Led(c, t, c.to[on[t]]) /\ diff[t] = 0 /\ todo[t] = <<key[t]>>)'
    BY <1>2, <2>1 DEF Led, Live
  <2>3. Filled(c, n, Upto(node[n].count))'
    BY <1>2, <1>8, <1>12
  <2>4. QED
    BY <1>1, <1>2, <1>3, <1>6, <1>9, <1>10, <2>2, <2>3 DEF Adds, ByteIn
<1>15. Knows(c, t)'
  BY <1>2, <1>13, <1>14 DEF Knows, Descends, Divides
<1>16. QED
  BY <1>2, <1>3, <1>4, <1>6, <1>11, <1>15, Numbers

LEMMA LoadCountQuiet ==
  ASSUME NEW c, Calm(c), NEW t \in Inserters, LoadCount(t)
  PROVE  Quiet(t) /\ Knows(c, t)' /\ reg'[t] \in 0 .. Room
<1>1. /\ pc[t] = "count" /\ pc'[t] = "add" /\ reg'[t] = node[Into(t)].count
      /\ key' = key /\ made' = made /\ node' = node /\ on' = on /\ depth' = depth /\ ref' = ref
      /\ diff' = diff /\ todo' = todo
  BY CalmFacts DEF LoadCount, Goto, TypesOK, shared, path
<1>2. Adding(t) /\ Adding(t)'
  BY <1>1 DEF Adding
<1>3. Knows(c, t)
  BY CalmFacts
<1>4. PICK n \in Nodes : n = Into(t) /\ n \in Live /\ Into(t)' = n
  <2>1. Into(t) \in Live /\ Into(t)' = Into(t)
    BY <1>1, <1>2, <1>3 DEF Knows, Adds, Led, Into, Live
  <2>2. QED
    BY <2>1, CalmFacts
<1>5. /\ Splitting(t)' <=> Splitting(t)
      /\ Unshortened(t)' <=> Unshortened(t)
      /\ HalfShortened(t)' <=> HalfShortened(t)
      /\ HasPut(t)' <=> HasPut(t)
      /\ Waiting(t)' <=> Waiting(t)
  BY <1>1 DEF Splitting, Adding, Unshortened, HalfShortened, HasPut, Waiting
<1>6. Quiet(t)
  BY <1>1, <1>2, <1>4, <1>5 DEF Quiet
<1>7. \A D : Filled(c, n, D)' <=> Filled(c, n, D)
  <2>1. InCells(c, n)' = InCells(c, n)
    <3>1. \A u \in Inserters : Waiting(u)' <=> Waiting(u)
      <4>1. Apart(t)
        BY StepApart, CalmFacts DEF InsertStep
      <4>2. QED
        BY <1>5, <4>1, UnmovedSame DEF Apart
    <3>2. QED
      BY <1>1, <3>1 DEF InCells
  <2>2. QED
    BY <1>1, <2>1 DEF Filled, ByteIn
<1>8. Splits(c, t)'
  BY <1>1, <1>3, <1>5 DEF Knows, Splits, LenFrom, PartialFrom, ByteIn
<1>9. Adds(c, t)'
  <2>1. /\ t \notin made => Led(c, t, c.to[on[t]]) /\ diff[t] = 0 /\ todo[t] = <<key[t]>>
        /\ Filled(c, n, 0 .. node[n].count) /\ node[n].count < Room
    BY <1>1, <1>2, <1>3, <1>4 DEF Knows, Adds
  <2>2. (/\ t \notin made => Led(c, t, c.to[on[t]]) /\ diff[t] = 0 /\ todo[t] = <<key[t]>>
         /\ Filled(c, n, 0 .. node[n].count) /\ node[n].count < Room)'
    BY <1>1, <1>7, <2>1 DEF Led, Live
  <2>3. QED
    BY <1>1, <1>4, <2>2 DEF Adds
<1>10. Knows(c, t)'
  BY <1>1, <1>8, <1>9 DEF Knows, Descends, Divides
<1>11. reg'[t] \in 0 .. Room
  <2>1. node[n] \in NodeRecords
    BY <1>4, CalmFacts
  <2>2. node[n].count \in 0 .. Room
    BY <2>1 DEF NodeRecords
  <2>3. QED
    BY <1>1, <1>4, <2>2
<1>12. QED
  BY <1>6, <1>10, <1>11

LEMMA UnlockQuiet ==
  ASSUME NEW c, Calm(c), NEW t \in Inserters, Unlock(t) \/ UnlockParent(t)
  PROVE  Quiet(t) /\ Knows(c, t)'
<1>1. /\ pc[t] \in {"unlock", "unlockParent"} /\ pc'[t] \in {"unlockParent", "done"}
      /\ made' = made
  BY CalmFacts DEF Unlock, UnlockParent, Return, Goto, TypesOK
<1>2. Quiet(t)
  BY <1>1 DEF Quiet, HasPut, Waiting, Unshortened, HalfShortened, Splitting, Adding
<1>3. Knows(c, t)'
  BY <1>1 DEF Knows, Descends, Divides, Splits, Adds, Splitting, Adding, Unshortened, HalfShortened
<1>4. QED
  BY <1>2, <1>3

-------------------------------------------------------------------------------
(* The new node of a split is in nobody's hands.                           *)
LEMMA NewNode ==
  ASSUME NEW c, Calm(c), NEW t \in Inserters, t \notin made
  PROVE  /\ t \notin Live /\ t \in Nodes /\ node[t] = Empty /\ c.up[t] = Null
         /\ \A p \in Things : c.up[p] # t
<1>1. t \notin Live /\ t \in Nodes /\ node[t] = Empty
  BY CalmFacts, Names DEF Live, TypesOK
<1>2. c.up[t] = Null
  BY <1>1, CalmFacts DEF IsTree
<1>3. \A p \in Things : c.up[p] # t
  BY <1>1, CalmFacts, Names DEF IsTree, Under
<1>4. QED
  BY <1>1, <1>2, <1>3

(* The cell that a split writes to, and the node it is in.                 *)
LEMMA CellOfSplit ==
  ASSUME NEW c, Calm(c), NEW t \in Inserters, pc[t] \in {"leaf", "publish"}
  PROVE  /\ t \notin made /\ Parent(t) \in Live /\ c.up[on[t]] = Parent(t)
         /\ ref[t][2] \in Upto(node[Parent(t)].count) /\ ref[t][2] \in Cells
         /\ node[Parent(t)].children[ref[t][2]] = on[t]
         /\ Filled(c, Parent(t), Upto(node[Parent(t)].count))
         /\ \A u \in Inserters : ~(Adding(u) /\ Into(u) = Parent(t))
         /\ \A u \in Inserters : ~(Splitting(u) /\ u = Parent(t))
         /\ on[t] \in Things /\ on[t] # Root
<1>1. t \notin made /\ CellLeads(c, t) /\ on[t] # Root /\ on[t] \in Live \cup Keys
  BY CalmFacts, Names DEF Knows, Descends, Divides, Led
<1>2. Parent(t) \in Live /\ c.up[on[t]] = Parent(t) /\ ref[t][2] < node[Parent(t)].count
      /\ node[Parent(t)].children[ref[t][2]] = on[t]
  BY <1>1 DEF CellLeads
<1>3. ref[t][2] \in Cells /\ ref[t][2] \in Upto(node[Parent(t)].count)
  <2>1. ref[t] \in Nodes \X Cells
    BY CalmFacts DEF TypesOK
  <2>2. node[Parent(t)].count \in Nat
    BY <1>2, CalmFacts, Fields
  <2>3. ref[t][2] \in Cells
    BY <2>1
  <2>4. QED
    BY <1>2, <2>2, <2>3, Numbers DEF Upto
<1>4. ASSUME NEW u \in Inserters
      PROVE  ~(Adding(u) /\ Into(u) = Parent(t)) /\ ~(Splitting(u) /\ u = Parent(t))
  <2>1. CASE u = t
    BY <1>1, <2>1 DEF Adding, Splitting
  <2>2. CASE u # t
    <3>1. ~AddsTo(u, Parent(t))
      BY <2>2, CalmFacts, NoMeeting DEF Replacing, Ended
    <3>2. QED
      BY <3>1 DEF AddsTo
  <2>3. QED
    BY <2>1, <2>2
<1>5. Filled(c, Parent(t), Upto(node[Parent(t)].count))
  BY <1>2, <1>4, CalmFacts DEF CellsOK
<1>6. QED
  BY <1>1, <1>2, <1>3, <1>4, <1>5, CalmFacts, Names DEF Things

(* In a node, a child is in one cell.                                      *)
LEMMA OneCell ==
  ASSUME NEW c, NEW n, NEW D \in SUBSET Cells, Filled(c, n, D), n \in Nodes, TypesOK,
         NEW j \in D, NEW l \in D, node[n].children[j] = node[n].children[l]
  PROVE  j = l
<1>1. node[n].keys[j] = node[n].keys[l]
  BY DEF Filled
<1>2. node[n].keys[j] \in Nat /\ j \in Nat /\ l \in Nat
  <2>1. node[n] \in NodeRecords
    BY DEF TypesOK
  <2>2. node[n].keys \in [Cells -> Nat] /\ j \in Cells /\ l \in Cells
    BY <2>1, Fields
  <2>3. QED
    BY <2>2, Numbers
<1>3. j < l => node[n].keys[j] < node[n].keys[l]
  BY DEF Filled
<1>4. l < j => node[n].keys[l] < node[n].keys[j]
  BY DEF Filled
<1>5. QED
  BY <1>1, <1>2, <1>3, <1>4

(* Chart d differs from c by a node t above l.                             *)
Divided(c, d, t, l, m, k, first, w) ==
  /\ d.up[l] = t /\ d.up[t] = m /\ \A p \in Things \ {l, t} : d.up[p] = c.up[p]
  /\ d.sample[t] = k /\ \A p \in Things \ {t} : d.sample[p] = c.sample[p]
  /\ d.from[t] = first /\ (l \in Nodes => d.from[l] = w + 1)
  /\ \A n \in Nodes \ {l, t} : d.from[n] = c.from[n]
  /\ d.to[t] = w /\ \A n \in Nodes \ {t} : d.to[n] = c.to[n]

(* A split of l, a leaf or a node, publishes node t in its place, in cell  *)
(* x of node m: t tells l and the new key apart by their bytes w.          *)
Division(c, d, t, l, m, x, w) ==
  /\ Calm(c) /\ ~Meeting' /\ Apart(t) /\ t \in Inserters
  /\ pc[t] = (IF l \in Nodes THEN "publish" ELSE "leaf")
  /\ pc'[t] = (IF l \in Nodes THEN "setLen" ELSE "position")
  /\ l = on[t] /\ on'[t] = l /\ ref[t] = <<m, x>> /\ depth'[t] = depth[t]
  /\ w \in Nat /\ w < KeyLen /\ diff'[t] = w - depth[t] /\ depth[t] <= w
  /\ depth[t] = c.to[m] + 1 /\ (l \in Nodes => depth[t] = c.from[l] /\ w < c.to[l])
  /\ Bytes(key[t], c.sample[l], w) /\ ByteOf[key[t]][w] # ByteOf[c.sample[l]][w]
  /\ todo'[t] = <<l, key[t]>> /\ made' = made \cup {t}
  /\ node'[m] = [node[m] EXCEPT !.children[x] = t]
  /\ \A n \in Nodes \ {m, t} : node'[n] = node[n]
  /\ l \in Nodes => node'[t] = Empty
  /\ l \notin Nodes => /\ node'[t].count = 0 /\ node'[t].len = w - depth[t]
                       /\ \A j \in 0 .. w - depth[t] - 1 :
                            node'[t].partial[j] = ByteOf[c.sample[l]][depth[t] + j]
  /\ d \in Charts /\ Divided(c, d, t, l, m, key[t], depth[t], w)

LEMMA DivisionFacts ==
  ASSUME NEW c, NEW d, NEW t, NEW l, NEW m, NEW x, NEW w, Division(c, d, t, l, m, x, w)
  PROVE  /\ t \in Inserters /\ t \in Nodes /\ t \notin Live /\ t \notin made /\ Live' = Live \cup {t}
         /\ t \notin Keys /\ Live \subseteq Nodes
         /\ m \in Live /\ m # t /\ c.up[l] = m
         /\ l \in Live \cup Keys /\ l \in Things /\ l # Root /\ l # t
         /\ node[t] = Empty /\ node'[t].count = 0 /\ c.up[t] = Null /\ \A p \in Things : c.up[p] # t
         /\ x \in Upto(node[m].count) /\ x \in Cells /\ node[m].children[x] = l
         /\ Filled(c, m, Upto(node[m].count))
         /\ \A u \in Inserters : ~(Adding(u) /\ Into(u) = m) /\ ~(Splitting(u) /\ u = m)
         /\ \A n \in Live : SameKeys(n) /\ SamePrefix(n)
         /\ Splitting(t)' /\ ~HasPut(t)' /\ Waiting(t)' /\ ~HasPut(t) /\ ~Splitting(t) /\ ~Adding(t)
         /\ Keeps(c, d)
<1> USE DEF Division, Divided
<1>1. t \in Inserters /\ Calm(c) /\ pc[t] \in {"leaf", "publish"} /\ m = Parent(t) /\ x = ref[t][2]
  BY DEF Parent
<1>2. /\ t \notin made /\ m \in Live /\ c.up[l] = m /\ x \in Upto(node[m].count) /\ x \in Cells
      /\ node[m].children[x] = l /\ Filled(c, m, Upto(node[m].count)) /\ l \in Things /\ l # Root
      /\ \A u \in Inserters : ~(Adding(u) /\ Into(u) = m) /\ ~(Splitting(u) /\ u = m)
  BY <1>1, CellOfSplit
<1>3. t \notin Live /\ t \in Nodes /\ node[t] = Empty /\ c.up[t] = Null /\ \A p \in Things : c.up[p] # t
  BY <1>1, <1>2, NewNode
<1>4. Live \subseteq Nodes /\ Live' = Live \cup {t} /\ m # t /\ t \notin Keys
  BY <1>1, <1>2, <1>3, CalmFacts, Names DEF Live
<1>5. l \in Live \cup Keys /\ l # t
  <2>1. l \in Live \cup Keys
    BY <1>1, <1>2, <1>4, Hanging, CalmFacts, Names
  <2>2. QED
    BY <1>3, <1>4, <2>1
<1>6. node'[t].count = 0
  BY DEF Empty
<1>7. node[m] \in NodeRecords
  BY <1>1, <1>2, CalmFacts
<1>8. node'[m].children = [node[m].children EXCEPT ![x] = t] /\ SameKeys(m) /\ SamePrefix(m)
  BY <1>7 DEF NodeRecords, SameKeys, SamePrefix
<1>9. \A n \in Live : SameKeys(n) /\ SamePrefix(n)
  <2>1. SUFFICES ASSUME NEW n \in Live PROVE SameKeys(n) /\ SamePrefix(n)
    OBVIOUS
  <2>2. CASE n = m
    BY <1>8, <2>2
  <2>3. CASE n # m
    <3>1. node'[n] = node[n]
      BY <1>3, <1>4, <2>3
    <3>2. QED
      BY <3>1 DEF SameKeys, SamePrefix
  <2>4. QED
    BY <2>2, <2>3
<1>10. Splitting(t)' /\ ~HasPut(t)' /\ Waiting(t)' /\ ~HasPut(t) /\ ~Splitting(t) /\ ~Adding(t)
  <2>1. Len(<<l, key[t]>>) = 2
    OBVIOUS
  <2>2. QED
    BY <1>1, <1>2, <2>1 DEF Splitting, HasPut, Waiting, Adding
<1>11. Keeps(c, d)
  BY <1>3, <1>4 DEF Keeps, Things
<1>12. QED
  BY <1>1, <1>2, <1>3, <1>4, <1>5, <1>6, <1>8, <1>9, <1>10, <1>11

LEMMA DivisionCell ==
  ASSUME NEW c, NEW d, NEW t, NEW l, NEW m, NEW x, NEW w, Division(c, d, t, l, m, x, w)
  PROVE  /\ node'[m].children[x] = t
         /\ \A j \in Cells \ {x} : node'[m].children[j] = node[m].children[j]
<1>1. m \in Live /\ x \in Cells
  BY DivisionFacts
<1>2. Calm(c) /\ node'[m] = [node[m] EXCEPT !.children[x] = t]
  BY DEF Division, Divided
<1>3. node[m] \in NodeRecords
  BY <1>1, <1>2, CalmFacts
<1>4. QED
  BY <1>1, <1>2, <1>3 DEF NodeRecords

(* What is known of the others who are at a division.                      *)
LEMMA DivisionApart ==
  ASSUME NEW c, NEW d, NEW t, NEW l, NEW m, NEW x, NEW w, Division(c, d, t, l, m, x, w),
         NEW u \in Inserters, u # t
  PROVE  /\ Unmoved(u) /\ key' = key
         /\ pc[u] \in {"version", "prefix"} \/ Replacing(u) => on[u] # l /\ on[u] # t
         /\ Splitting(u) => u # l /\ u # m /\ on[u] # l /\ on[u] # t /\ on[u] \in Live \cup Keys
         /\ Adding(u) => Into(u) # m /\ Into(u) # t /\ Into(u) \in Live
<1>1. Unmoved(u) /\ key' = key /\ Knows(c, u) /\ t \in Inserters /\ Calm(c) /\ ~Meeting'
  BY CalmFacts DEF Apart, Division, Divided
<1>2. /\ t \notin Live /\ t \notin Keys /\ m \in Live /\ c.up[l] = m /\ c.up[t] = Null
      /\ x \in Upto(node[m].count) /\ x \in Cells /\ node[m].children[x] = l
      /\ Filled(c, m, Upto(node[m].count)) /\ ~(Splitting(u) /\ u = m) /\ ~(Adding(u) /\ Into(u) = m)
      /\ Splitting(t)' /\ Live \subseteq Nodes /\ l \in Live \cup Keys
  BY DivisionFacts
<1> USE DEF Division, Divided
<1>3. ASSUME pc[u] \in {"version", "prefix"} \/ Replacing(u) PROVE on[u] # l /\ on[u] # t
  <2>1. on[u] \in Live \cup Keys /\ ~Ended(u)
    BY <1>1, <1>3 DEF Knows, Descends, Divides, Led, Replacing, Ended
  <2>2. CASE pc[u] \in {"version", "prefix"}
    <3>1. on[u] \in Nodes /\ on'[u] = on[u] /\ pc'[u] = pc[u] /\ ~Ended(u)'
      BY <1>1, <1>2, <2>1, <2>2 DEF Knows, Descends, Led, Unmoved, Ended
    <3>2. ~Shortens(t, on[u])'
      BY <1>1, <2>2, <3>1 DEF Meeting, InTheWay
    <3>3. QED
      BY <1>2, <2>1, <3>1, <3>2 DEF Shortens
  <2>3. CASE Replacing(u)
    <3>1. SUFFICES ASSUME on[u] = l PROVE FALSE
      BY <1>2, <2>1
    <3>2. CellLeads(c, u)
      BY <1>1, <2>3 DEF Knows, Divides, Replacing
    <3>3. /\ Parent(u) = m /\ ref[u][2] < node[m].count /\ node[m].children[ref[u][2]] = l
      BY <1>2, <3>1, <3>2 DEF CellLeads
    <3>4. ref[u] \in Nodes \X Cells /\ node[m] \in NodeRecords
      BY <1>1, <1>2, CalmFacts DEF TypesOK
    <3>5. ref[u][2] \in Upto(node[m].count) /\ node[m].count \in 0 .. Room
      <4>1. node[m].count \in 0 .. Room
        BY <3>4 DEF NodeRecords
      <4>2. ref[u][2] \in 0 .. 3
        BY <3>4, Numbers
      <4>3. QED
        BY <3>3, <4>1, <4>2, Numbers DEF Upto
    <3>6. Upto(node[m].count) \subseteq Cells
      BY <3>5, Numbers DEF Upto
    <3>7. ref[u][2] = x
      BY <1>1, <1>2, <3>3, <3>5, <3>6, OneCell, CalmFacts
    <3>8. ref[u] = <<m, x>>
      BY <3>3, <3>4, <3>7 DEF Parent
    <3>9. Replacing(t)
      BY DEF Replacing
    <3>10. QED
      BY <1>1, <2>1, <2>3, <3>8, <3>9, NoMeeting, CalmFacts
  <2>4. QED
    BY <1>3, <2>2, <2>3
<1>4. ASSUME Splitting(u) PROVE u # l /\ u # m /\ on[u] # l /\ on[u] # t /\ on[u] \in Live \cup Keys
  <2>1. u # m
    BY <1>2, <1>4
  <2>2. on[u] \in Things /\ c.up[on[u]] = u /\ u # Null
    BY <1>1, <1>4, Names DEF Knows, Splits
  <2>3. on[u] \in Live \cup Keys
    BY <1>1, <2>2, Hanging, CalmFacts
  <2>4. u # l
    <3>1. ~AddsTo(u, on[t])
      BY <1>1, NoMeeting, CalmFacts DEF Ended, Division
    <3>2. QED
      BY <1>4, <3>1 DEF AddsTo
  <2>5. QED
    BY <1>2, <2>1, <2>2, <2>3, <2>4
<1>5. ASSUME Adding(u) PROVE Into(u) # m /\ Into(u) # t /\ Into(u) \in Live
  <2>1. Into(u) \in Live
    BY <1>1, <1>5 DEF Knows, Adds, Led, Into, Live
  <2>2. QED
    BY <1>2, <1>5, <2>1
<1>6. QED
  BY <1>1, <1>3, <1>4, <1>5

(* The chart after a division is a tree.                                   *)
LEMMA DivisionTree ==
  ASSUME NEW c, NEW d, NEW t, NEW l, NEW m, NEW x, NEW w, Division(c, d, t, l, m, x, w)
  PROVE  IsTree(d)'
<1>1. /\ t \in Inserters /\ t \in Nodes /\ t \notin Live /\ Live' = Live \cup {t} /\ t \notin Keys
      /\ Live \subseteq Nodes /\ m \in Live /\ m # t /\ c.up[l] = m /\ l \in Live \cup Keys /\ l \in Things
      /\ l # Root /\ l # t /\ c.up[t] = Null /\ (\A p \in Things : c.up[p] # t)
      /\ ~HasPut(t)' /\ ~HasPut(t)
  BY DivisionFacts
<1>2. \A u \in Inserters \ {t} : HasPut(u)' <=> HasPut(u)
  BY DivisionApart, UnmovedSame
<1> USE DEF Division, Divided
<1>3. Calm(c) /\ IsTree(c) /\ key[t] \in Keys /\ Root \in Live /\ c.to[m] \in Nat /\ depth[t] \in Nat
  BY <1>1, CalmFacts DEF IsTree
<1>4. (Root \in Live /\ d.up[Root] = Null /\ d.from[Root] = 0 /\ d.to[Root] = 0)'
  BY <1>1, <1>3, Names DEF IsTree, Things
<1>5. (\A n \in Nodes \ Live : d.up[n] = Null)'
  BY <1>1, <1>3, Names DEF IsTree, Things
<1>6. (\A n \in Live : d.from[n] <= d.to[n] /\ d.to[n] < KeyLen)'
  <2>1. SUFFICES ASSUME NEW n \in Live' PROVE d.from[n] <= d.to[n] /\ d.to[n] < KeyLen
    OBVIOUS
  <2>2. CASE n = t
    BY <2>2
  <2>3. CASE n = l /\ n # t
    <3>1. n \in Nodes /\ d.from[n] = w + 1 /\ d.to[n] = c.to[n] /\ w < c.to[n] /\ c.to[n] < KeyLen
          /\ c.to[n] \in Nat
      BY <1>1, <1>3, <2>1, <2>3, CalmFacts
    <3>2. QED
      BY <3>1
  <2>4. CASE n # t /\ n # l
    BY <1>1, <1>3, <2>4 DEF IsTree
  <2>5. QED
    BY <2>2, <2>3, <2>4
<1>7. (\A n \in Live \ {Root} : d.up[n] # Null)'
  <2>1. SUFFICES ASSUME NEW n \in Live', n # Root PROVE d.up[n] # Null
    OBVIOUS
  <2>2. n \in Things /\ m # Null /\ t # Null
    BY <1>1, Names DEF Things
  <2>3. CASE n = t \/ n = l
    BY <2>2, <2>3
  <2>4. CASE n # t /\ n # l
    BY <1>1, <1>3, <2>1, <2>2, <2>4 DEF IsTree
  <2>5. QED
    BY <2>3, <2>4
<1>8. \A p \in Things : d.up[p] # Null => Under(d, p, d.up[p])'
  <2>1. SUFFICES ASSUME NEW p \in Things, d.up[p] # Null PROVE Under(d, p, d.up[p])'
    OBVIOUS
  <2>2. CASE p = l
    <3>1. d.up[p] = t /\ t \in Live' /\ d.to[t] = w /\ d.sample[t] = key[t]
      BY <1>1, <2>2
    <3>2. d.sample[p] = c.sample[l] /\ Bytes(key[t], c.sample[l], w)
      BY <1>1, <2>2
    <3>3. Bytes(d.sample[p], d.sample[t], d.to[t])
      BY <3>1, <3>2 DEF Bytes
    <3>4. p \in Nodes => d.from[p] = w + 1
      BY <2>2
    <3>5. QED
      BY <3>1, <3>3, <3>4 DEF Under
  <2>3. CASE p = t
    <3>1. Bytes(c.sample[l], c.sample[m], c.to[m])
      BY <1>1, <1>3, Names DEF IsTree, Under
    <3>2. c.to[m] < w
      BY <1>3
    <3>3. Bytes(key[t], c.sample[m], c.to[m])
      BY <1>3, <3>1, <3>2 DEF Bytes
    <3>4. d.sample[t] = key[t] /\ d.sample[m] = c.sample[m] /\ d.to[m] = c.to[m]
      BY <1>1 DEF Things
    <3>5. QED
      BY <1>1, <2>3, <3>3, <3>4 DEF Under
  <2>4. CASE p # l /\ p # t
    <3>1. d.up[p] = c.up[p] /\ Under(c, p, c.up[p]) /\ c.up[p] \in Live /\ c.up[p] # t
      BY <1>1, <1>3, <2>1, <2>4 DEF IsTree, Under
    <3>2. c.up[p] \in Nodes /\ c.up[p] \in Things
      BY <1>1, <3>1 DEF Things
    <3>3. d.sample[p] = c.sample[p] /\ d.sample[c.up[p]] = c.sample[c.up[p]] /\ d.to[c.up[p]] = c.to[c.up[p]]
      BY <2>4, <3>1, <3>2
    <3>4. p \in Nodes => d.from[p] = c.from[p]
      BY <2>4
    <3>5. QED
      BY <1>1, <3>1, <3>3, <3>4 DEF Under
  <2>5. QED
    BY <2>2, <2>3, <2>4
<1>9. \A k \in Keys : d.sample[k] = k
  BY <1>1, <1>3 DEF IsTree, Things
<1>10. (\A k \in Keys : d.up[k] # Null <=> k \in Loaded \/ \E u \in Inserters : key[u] = k /\ HasPut(u))'
  <2>1. \A u \in Inserters : HasPut(u)' <=> HasPut(u)
    BY <1>1, <1>2
  <2>2. key' = key
    BY DEF Apart
  <2>3. ASSUME NEW k \in Keys PROVE d.up[k] # Null <=> c.up[k] # Null
    <3>1. k # t /\ k \in Things /\ m # Null /\ t # Null
      BY <1>1, Names DEF Things
    <3>2. QED
      BY <1>1, <3>1
  <2>4. QED
    BY <1>3, <2>1, <2>2, <2>3 DEF IsTree
<1>11. QED
  BY <1>4, <1>5, <1>6, <1>7, <1>8, <1>9, <1>10 DEF IsTree

(* What is in the cells then: in place of l, the new node.                 *)
LEMMA DivisionInCells ==
  ASSUME NEW c, NEW d, NEW t, NEW l, NEW m, NEW x, NEW w, Division(c, d, t, l, m, x, w)
  PROVE  /\ InCells(d, t)' = {}
         /\ InCells(d, m)' = (InCells(c, m) \ {l}) \cup {t}
         /\ \A n \in Live \ {m} : InCells(d, n)' = InCells(c, n)
<1>1. /\ t \in Inserters /\ t \in Things /\ t \notin Live /\ Live \subseteq Nodes
      /\ m \in Live /\ m # t /\ c.up[l] = m /\ l \in Things /\ l # t
      /\ c.up[t] = Null /\ (\A p \in Things : c.up[p] # t) /\ Waiting(t)'
  BY DivisionFacts, Names
<1>2. m \in Inserters => ~Waiting(m) /\ ~Waiting(m)'
  <2>1. SUFFICES ASSUME m \in Inserters, Waiting(m) \/ Waiting(m)' PROVE FALSE
    OBVIOUS
  <2>2. Waiting(m) /\ ~Splitting(m)
    BY <1>1, <2>1, DivisionApart, DivisionFacts, UnmovedSame
  <2>3. QED
    BY <2>2 DEF Waiting, Splitting, Adding
<1>3. \A u \in Inserters \ {t} : Unmoved(u)
  BY DivisionApart
<1>4. d.up[l] = t /\ d.up[t] = m /\ (\A p \in Things \ {l, t} : d.up[p] = c.up[p]) /\ on'[t] = l
  BY DEF Division, Divided
<1>5. InCells(d, t)' = {}
  BY <1>1, <1>4 DEF InCells
<1>6. InCells(d, m)' = (InCells(c, m) \ {l}) \cup {t}
  <2>1. InCells(d, m)' = {p \in Things : d.up[p] = m} /\ InCells(c, m) = {p \in Things : c.up[p] = m}
    BY <1>2 DEF InCells
  <2>2. QED
    BY <1>1, <1>4, <2>1
<1>7. ASSUME NEW n \in Live \ {m} PROVE InCells(d, n)' = InCells(c, n)
  <2>1. n # t /\ n # Null
    BY <1>1, Names DEF Things
  <2>2. \A p \in Things : d.up[p] = n <=> c.up[p] = n
    BY <1>1, <1>4, <2>1
  <2>3. n \in Inserters => (Waiting(n)' <=> Waiting(n)) /\ on'[n] = on[n]
    BY <1>3, <2>1, UnmovedSame DEF Unmoved
  <2>4. QED
    BY <2>2, <2>3 DEF InCells
<1>8. QED
  BY <1>5, <1>6, <1>7

LEMMA DivisionFilled ==
  ASSUME NEW c, NEW d, NEW t, NEW l, NEW m, NEW x, NEW w, Division(c, d, t, l, m, x, w)
  PROVE  Filled(d, m, Upto(node[m].count))' /\ Filled(d, t, Upto(node[t].count))'
<1>1. /\ t \in Things /\ t \notin Live /\ m \in Live /\ m # t /\ c.up[l] = m /\ l \in Things /\ l # t
      /\ c.up[t] = Null /\ x \in Upto(node[m].count) /\ x \in Cells /\ node[m].children[x] = l
      /\ Filled(c, m, Upto(node[m].count)) /\ SameKeys(m) /\ node'[t].count = 0 /\ Live \subseteq Nodes
  BY DivisionFacts, Names
<1>2. /\ InCells(d, t)' = {} /\ InCells(d, m)' = (InCells(c, m) \ {l}) \cup {t}
  BY DivisionInCells
<1>3. /\ node'[m].children[x] = t
      /\ \A j \in Cells \ {x} : node'[m].children[j] = node[m].children[j]
  BY DivisionCell
<1>4. Calm(c) /\ TypesOK /\ node[m] \in NodeRecords /\ c.to[m] \in Nat
  BY <1>1, CalmFacts DEF Division, Divided
<1>5. Upto(node[m].count) \subseteq Cells
  BY <1>4, Fields, Numbers DEF Upto
<1>6. c.to[m] < w /\ w \in Nat /\ Bytes(key[t], c.sample[l], w)
  <2>1. depth[t] = c.to[m] + 1 /\ depth[t] <= w /\ w \in Nat /\ Bytes(key[t], c.sample[l], w)
    BY DEF Division, Divided
  <2>2. QED
    BY <1>4, <2>1
<1>7. d.to[m] = c.to[m] /\ d.sample[t] = key[t] /\ \A p \in Things \ {t} : d.sample[p] = c.sample[p]
  BY <1>1 DEF Division, Divided
<1>8. ASSUME NEW j \in Upto(node[m].count)
      PROVE  node'[m].children[j] \in InCells(d, m)' /\ node'[m].keys[j] = ByteIn(d, node[m].children[j], m)'
  <2>1. node'[m].keys[j] = node[m].keys[j] /\ node[m].keys[j] = ByteIn(c, node[m].children[j], m)
        /\ node[m].children[j] \in InCells(c, m)
    BY <1>1 DEF SameKeys, Filled
  <2>2. CASE j = x
    <3>1. ByteOf[key[t]][c.to[m]] = ByteOf[c.sample[l]][c.to[m]]
      BY <1>4, <1>6 DEF Bytes
    <3>2. node'[m].children[j] = t /\ node'[m].keys[j] = ByteOf[key[t]][c.to[m]]
      BY <1>1, <1>3, <2>1, <2>2, <3>1 DEF ByteIn
    <3>3. QED
      BY <1>2, <1>7, <3>2 DEF ByteIn
  <2>3. CASE j # x
    <3>1. node[m].children[j] # l
      BY <1>1, <1>4, <1>5, <2>3, OneCell
    <3>2. node'[m].children[j] = node[m].children[j] /\ node[m].children[j] \in Things \ {t}
      BY <1>1, <1>3, <1>5, <2>1, <2>3, Names DEF InCells
    <3>3. QED
      BY <1>2, <1>7, <2>1, <3>1, <3>2 DEF ByteIn
  <2>4. QED
    BY <2>2, <2>3
<1>9. ASSUME NEW p \in InCells(d, m)'
      PROVE  \E j \in Upto(node[m].count) : node'[m].children[j] = p
  <2>1. CASE p = t
    BY <1>1, <1>3, <2>1
  <2>2. CASE p # t
    <3>1. p \in InCells(c, m) /\ p # l
      BY <1>2, <2>2
    <3>2. PICK j \in Upto(node[m].count) : node[m].children[j] = p
      BY <1>1, <3>1 DEF Filled
    <3>3. j # x
      BY <1>1, <3>1, <3>2
    <3>4. QED
      BY <1>3, <1>5, <3>2, <3>3
  <2>3. QED
    BY <2>1, <2>2
<1>10. \A j, k \in Upto(node[m].count) : j < k => node'[m].keys[j] < node'[m].keys[k]
  BY <1>1 DEF SameKeys, Filled
<1>11. Upto(node[m].count)' = Upto(node[m].count)
  BY <1>1 DEF SameKeys, Upto
<1>12. Filled(d, m, Upto(node[m].count))'
  BY <1>8, <1>9, <1>10, <1>11 DEF Filled
<1>13. Filled(d, t, Upto(node[t].count))'
  BY <1>1, <1>2 DEF Filled, Upto
<1>14. QED
  BY <1>12, <1>13

(* The prefixes, of which that of a node whose prefix is split is still as *)
(* it was, and counts from where that of the new one does.                 *)
LEMMA DivisionOld ==
  ASSUME NEW c, NEW d, NEW t, NEW l, NEW m, NEW x, NEW w, Division(c, d, t, l, m, x, w), l \in Nodes
  PROVE  /\ l \in Live /\ LenFrom(c, l, c.from[l]) /\ PartialFrom(c, l, c.from[l])
         /\ c.from[l] = depth[t] /\ SamePrefix(l)
<1>1. l \in Live /\ t \in Inserters /\ SamePrefix(l) /\ ~Splitting(t)
  <2>1. l \in Live \cup Keys /\ t \in Inserters /\ ~Splitting(t)
    BY DivisionFacts
  <2>2. l \in Live
    BY <2>1, Names
  <2>3. QED
    BY <2>1, <2>2, DivisionFacts
<1>2. Calm(c) /\ c.from[l] = depth[t] /\ pc[t] = "publish"
  BY DEF Division, Divided
<1>3. ASSUME NEW u \in Inserters
      PROVE  /\ ~(pc[u] \in {"setLen", "setPartial"} /\ u = l)
             /\ ~((Unshortened(u) \/ HalfShortened(u)) /\ on[u] = l)
  <2>1. CASE u = t
    BY <1>1, <1>2, <2>1 DEF Unshortened, HalfShortened
  <2>2. CASE u # t
    <3>1. Splitting(u) => u # l /\ on[u] # l
      BY <2>2, DivisionApart
    <3>2. pc[u] \in {"setLen", "setPartial"} => Splitting(u)
      BY <1>2, CalmFacts DEF Knows, Splits, Splitting
    <3>3. QED
      BY <3>1, <3>2 DEF Unshortened, HalfShortened
  <2>3. QED
    BY <2>1, <2>2
<1>4. PrefixOK(c, l)
  BY <1>1, <1>2, CalmFacts
<1>5. QED
  BY <1>1, <1>2, <1>3, <1>4 DEF PrefixOK

LEMMA DivisionPrefix ==
  ASSUME NEW c, NEW d, NEW t, NEW l, NEW m, NEW x, NEW w, Division(c, d, t, l, m, x, w), NEW n \in Live'
  PROVE  PrefixOK(d, n)'
<1>1. /\ t \in Inserters /\ t \notin Live /\ Live' = Live \cup {t} /\ Live \subseteq Nodes
      /\ (\A q \in Live : SameKeys(q) /\ SamePrefix(q)) /\ ~Splitting(t) /\ Splitting(t)' /\ l # t
      /\ Keeps(c, d) /\ l \in Live \cup Keys
  BY DivisionFacts
<1>2. Calm(c) /\ key[t] \in Keys
  <2>1. Calm(c)
    BY DEF Division, Divided
  <2>2. QED
    BY <1>1, <2>1, CalmFacts
<1>3. \A u \in Inserters \ {t} :
        /\ pc'[u] = pc[u] /\ on'[u] = on[u]
        /\ (Unshortened(u) <=> Unshortened(u)') /\ (HalfShortened(u) <=> HalfShortened(u)')
  <2>1. SUFFICES ASSUME NEW u \in Inserters \ {t}
        PROVE  /\ pc'[u] = pc[u] /\ on'[u] = on[u]
               /\ (Unshortened(u) <=> Unshortened(u)') /\ (HalfShortened(u) <=> HalfShortened(u)')
    OBVIOUS
  <2>2. Unmoved(u)
    BY DivisionApart
  <2>3. QED
    BY <2>2, UnmovedSame DEF Unmoved
<1>4. CASE n = t
  <2>1. CASE l \in Nodes
    <3>1. pc'[t] = "setLen"
      BY <2>1 DEF Division, Divided
    <3>2. QED
      BY <1>1, <1>4, <3>1 DEF PrefixOK
  <2>2. CASE l \notin Nodes
    <3>1. /\ node'[t].len = w - depth[t] /\ d.from[t] = depth[t] /\ d.to[t] = w /\ d.sample[t] = key[t]
          /\ \A j \in 0 .. w - depth[t] - 1 : node'[t].partial[j] = ByteOf[c.sample[l]][depth[t] + j]
          /\ Bytes(key[t], c.sample[l], w) /\ w \in Nat /\ depth[t] <= w
      BY <2>2 DEF Division, Divided
    <3>2. depth[t] \in Nat
      BY <1>1, <1>2, CalmFacts DEF TypesOK
    <3>3. \A j \in 0 .. w - depth[t] - 1 : ByteOf[key[t]][depth[t] + j] = ByteOf[c.sample[l]][depth[t] + j]
      BY <3>1, <3>2 DEF Bytes
    <3>4. (LenFrom(d, t, d.from[t]) /\ PartialFrom(d, t, d.from[t]))'
      BY <3>1, <3>3 DEF LenFrom, PartialFrom
    <3>5. QED
      BY <1>4, <3>4 DEF PrefixOK
  <2>3. QED
    BY <2>1, <2>2
<1>5. CASE n = l /\ n # t
  <2>1. l \in Nodes
    BY <1>1, <1>5
  <2>2. Unshortened(t)'
    <3>1. on'[t] = l /\ todo'[t] = <<l, key[t]>>
      BY DEF Division, Divided
    <3>2. Len(<<l, key[t]>>) = 2
      OBVIOUS
    <3>3. QED
      BY <1>1, <2>1, <3>1, <3>2 DEF Unshortened
  <2>3. on'[t] = l
    BY DEF Division, Divided
  <2>4. QED
    BY <1>1, <1>5, <2>2, <2>3 DEF PrefixOK
<1>6. CASE n # l /\ n # t
  <2>1. n \in Live /\ n \in Nodes /\ SamePrefix(n) /\ d.to[n] = c.to[n] /\ d.sample[n] = c.sample[n]
    BY <1>1, <1>6 DEF Keeps
  <2>2. d.from[n] = c.from[n]
    BY <1>6, <2>1 DEF Division, Divided
  <2>3. PrefixOK(c, n)
    BY <1>2, <2>1, CalmFacts
  <2>4. ~(pc[t] \in {"setLen", "setPartial"}) /\ ~Unshortened(t) /\ ~HalfShortened(t)
    BY <1>1 DEF Unshortened, HalfShortened, Division, Divided
  <2>5. LenFrom(c, n, c.from[n]) /\ PartialFrom(c, n, c.from[n]) => (LenFrom(d, n, d.from[n]) /\ PartialFrom(d, n, d.from[n]))'
    BY <2>1, <2>2 DEF LenFrom, PartialFrom, SamePrefix
  <2>6. SUFFICES ASSUME (\A u \in Inserters : /\ ~(pc[u] \in {"setLen", "setPartial"} /\ u = n)
                           /\ ~((Unshortened(u) \/ HalfShortened(u)) /\ on[u] = n))'
                 PROVE  \A u \in Inserters : /\ ~(pc[u] \in {"setLen", "setPartial"} /\ u = n)
                           /\ ~((Unshortened(u) \/ HalfShortened(u)) /\ on[u] = n)
    BY <2>3, <2>5 DEF PrefixOK
  <2>7. QED
    BY <1>3, <2>4, <2>6
<1>7. QED
  BY <1>4, <1>5, <1>6

(* What the one that divides knows then, and what the others know.         *)
LEMMA DivisionKnows ==
  ASSUME NEW c, NEW d, NEW t, NEW l, NEW m, NEW x, NEW w, Division(c, d, t, l, m, x, w)
  PROVE  Knows(d, t)'
<1>1. /\ t \in Inserters /\ t \notin Live /\ Live' = Live \cup {t} /\ Live \subseteq Nodes
      /\ Splitting(t)' /\ l # t /\ (\A p \in Things : c.up[p] # t) /\ m # t
      /\ l \in Things /\ Keeps(c, d) /\ l \in Live \cup Keys /\ ~HasPut(t)'
  BY DivisionFacts
<1>2. /\ Calm(c) /\ l = on[t] /\ on'[t] = l /\ depth'[t] = depth[t] /\ diff'[t] = w - depth[t]
      /\ pc'[t] = (IF l \in Nodes THEN "setLen" ELSE "position") /\ w \in Nat
      /\ todo'[t] = <<l, key[t]>> /\ made' = made \cup {t} /\ key' = key
      /\ d.up[l] = t /\ d.up[t] = m /\ (\A p \in Things \ {l, t} : d.up[p] = c.up[p])
      /\ d.sample[t] = key[t] /\ d.sample[l] = c.sample[l] /\ d.from[t] = depth[t] /\ d.to[t] = w
      /\ ByteOf[key[t]][w] # ByteOf[c.sample[l]][w]
      /\ (l \in Nodes => node'[t] = Empty)
  BY <1>1 DEF Division, Divided, Apart
<1>3. depth[t] \in Nat
  BY <1>1, <1>2, CalmFacts DEF TypesOK
<1>4. Len(<<l, key[t]>>) = 2
  OBVIOUS
<1>5. Splits(d, t)'
  <2>1. (/\ on[t] \in Things /\ d.up[on[t]] = t
         /\ todo[t] \in {<<on[t], key[t]>>, <<key[t]>>}
         /\ depth[t] = d.from[t] /\ depth[t] + diff[t] = d.to[t]
         /\ Bytes(key[t], d.sample[t], d.to[t])
         /\ ByteOf[key[t]][d.to[t]] # ByteIn(d, on[t], t)
         /\ ~HasPut(t) => \A p \in Things : d.up[p] = t => p = on[t])'
    BY <1>1, <1>2, <1>3 DEF Bytes, ByteIn
  <2>2. (Unshortened(t) => LenFrom(d, on[t], depth[t]) /\ PartialFrom(d, on[t], depth[t]))'
    <3>1. SUFFICES ASSUME l \in Nodes
                   PROVE  (LenFrom(d, l, depth[t]) /\ PartialFrom(d, l, depth[t]))'
      BY <1>2 DEF Unshortened
    <3>2. l \in Live /\ LenFrom(c, l, depth[t]) /\ PartialFrom(c, l, depth[t]) /\ SamePrefix(l)
      BY <3>1, DivisionOld
    <3>3. d.to[l] = c.to[l]
      BY <1>1, <3>2 DEF Keeps
    <3>4. QED
      BY <1>2, <3>2, <3>3 DEF LenFrom, PartialFrom, SamePrefix
  <2>3. ~HalfShortened(t)'
    BY <1>2 DEF HalfShortened
  <2>4. (pc[t] \in {"setLen", "setPartial", "shortenLen", "shortenPartial"} => t \in made /\ on[t] \in Nodes)'
    BY <1>2
  <2>5. (/\ pc[t] \in {"setLen", "setPartial"} => todo[t] = <<on[t], key[t]>>
         /\ pc[t] = "setLen" => node[t] = Empty
         /\ pc[t] = "setPartial" => node[t] = [Empty EXCEPT !.len = diff[t]]
         /\ pc[t] \in {"shortenLen", "shortenPartial"} => todo[t] = <<key[t]>>)'
    BY <1>2 DEF Empty
  <2>6. QED
    BY <2>1, <2>2, <2>3, <2>4, <2>5 DEF Splits
<1>6. Adds(d, t)'
  <2>1. Into(t)' = t
    BY <1>2 DEF Into
  <2>2. Filled(d, t, Upto(node[t].count))'
    BY DivisionFilled
  <2>3. QED
    BY <1>2, <2>1, <2>2 DEF Adds, Adding
<1>7. QED
  BY <1>2, <1>5, <1>6 DEF Knows, Descends, Divides

LEMMA DivisionOthers ==
  ASSUME NEW c, NEW d, NEW t, NEW l, NEW m, NEW x, NEW w, Division(c, d, t, l, m, x, w),
         NEW u \in Inserters, u # t
  PROVE  Knows(d, u)'
<1>1. /\ t \in Inserters /\ t \notin Live /\ t \notin Keys /\ Live' = Live \cup {t} /\ Live \subseteq Nodes
      /\ m \in Live /\ m # t /\ node[m].children[x] = l /\ l \in Live \cup Keys
      /\ (\A n \in Live : SameKeys(n) /\ SamePrefix(n)) /\ Keeps(c, d)
  BY DivisionFacts
<1>2. /\ Unmoved(u) /\ key' = key
      /\ (pc[u] \in {"version", "prefix"} \/ Replacing(u) => on[u] # l /\ on[u] # t)
      /\ (Splitting(u) => u # l /\ u # m /\ on[u] # l /\ on[u] # t /\ on[u] \in Live \cup Keys)
      /\ (Adding(u) => Into(u) # m /\ Into(u) # t /\ Into(u) \in Live)
  BY DivisionApart
<1>3. /\ Calm(c) /\ d \in Charts /\ d.up[l] = t /\ d.up[t] = m
      /\ (\A p \in Things \ {l, t} : d.up[p] = c.up[p])
      /\ (\A n \in Nodes \ {l, t} : d.from[n] = c.from[n])
      /\ (\A n \in Nodes \ {m, t} : node'[n] = node[n])
  BY DEF Division, Divided
<1>4. TypesOK /\ c \in Charts /\ IsTree(c) /\ Knows(c, u)
  BY <1>3, CalmFacts
<1>5. pc[u] \in {"version", "prefix", "lockNode", "lockAbove", "publish"} =>
           d.from[on[u]] = c.from[on[u]]
  <2>1. SUFFICES ASSUME pc[u] \in {"version", "prefix", "lockNode", "lockAbove", "publish"}
                 PROVE  d.from[on[u]] = c.from[on[u]]
    OBVIOUS
  <2>2. on[u] \in Live
    BY <1>4, <2>1 DEF Knows, Descends, Divides, Led
  <2>3. on[u] # l /\ on[u] # t
    BY <1>2, <2>1 DEF Replacing
  <2>4. QED
    BY <1>1, <1>3, <2>2, <2>3
<1>6. pc[u] \in {"version", "prefix"} \/ Replacing(u) => on[u] = Root \/ CellLeads(d, u)'
  <2>1. SUFFICES ASSUME pc[u] \in {"version", "prefix"} \/ Replacing(u), on[u] # Root
                 PROVE  CellLeads(d, u)'
    OBVIOUS
  <2>2. CellLeads(c, u) /\ on[u] \in Live \cup Keys
    BY <1>4, <2>1 DEF Knows, Descends, Divides, Led, Replacing
  <2>3. on[u] # l /\ on[u] # t /\ on[u] \in Things
    BY <1>1, <1>2, <2>1, <2>2 DEF Things
  <2>4. ref[u] \in Nodes \X Cells /\ ref[u][2] \in Cells
    <3>1. ref[u] \in Nodes \X Cells
      BY <1>3, <1>4, CalmFacts DEF TypesOK
    <3>2. QED
      BY <3>1
  <2>5. Parent(u)' = Parent(u) /\ ref'[u] = ref[u] /\ on'[u] = on[u]
    BY <1>2 DEF Unmoved, Parent
  <2>6. d.up[on[u]] = c.up[on[u]]
    BY <1>3, <2>3
  <2>7. node'[Parent(u)].count = node[Parent(u)].count /\ Parent(u) \in Live
    BY <1>1, <2>2 DEF CellLeads, SameKeys
  <2>8. node'[Parent(u)].children[ref[u][2]] = node[Parent(u)].children[ref[u][2]]
    <3>1. CASE Parent(u) # m
      BY <1>1, <1>3, <2>7, <3>1
    <3>2. CASE Parent(u) = m
      <4>1. ref[u][2] # x
        BY <1>1, <2>2, <2>3, <3>2 DEF CellLeads
      <4>2. \A j \in Cells \ {x} : node'[m].children[j] = node[m].children[j]
        BY DivisionCell
      <4>3. QED
        BY <2>4, <3>2, <4>1, <4>2
    <3>3. QED
      BY <3>1, <3>2
  <2>9. QED
    BY <1>1, <2>2, <2>5, <2>6, <2>7, <2>8 DEF CellLeads
<1>7. pc[u] \in {"load", "lockParent", "lock"} => SameKeys(on[u])
  <2>1. pc[u] \in {"load", "lockParent", "lock"} => on[u] \in Live
    BY <1>4 DEF Knows, Descends, Led
  <2>2. QED
    BY <1>1, <2>1
<1>8. Splitting(u) => /\ d.up[on[u]] = c.up[on[u]] /\ d.from[u] = c.from[u]
                      /\ ~HasPut(u) => \A p \in Things : d.up[p] = u => c.up[p] = u
                      /\ on[u] \in Nodes => SamePrefix(on[u]) /\ d.from[on[u]] = c.from[on[u]]
  <2>1. SUFFICES ASSUME Splitting(u)
                 PROVE  /\ d.up[on[u]] = c.up[on[u]] /\ d.from[u] = c.from[u]
                        /\ \A p \in Things : d.up[p] = u => c.up[p] = u
                        /\ on[u] \in Nodes => SamePrefix(on[u]) /\ d.from[on[u]] = c.from[on[u]]
    OBVIOUS
  <2>2. u # l /\ u # m /\ on[u] # l /\ on[u] # t /\ on[u] \in Live \cup Keys
    BY <1>2, <2>1
  <2>3. on[u] \in Things /\ u \in Nodes
    BY <1>1, <2>2, Names DEF Things
  <2>4. d.up[on[u]] = c.up[on[u]] /\ d.from[u] = c.from[u]
    BY <1>3, <2>2, <2>3
  <2>5. \A p \in Things : d.up[p] = u => c.up[p] = u
    BY <1>3, <2>2
  <2>6. on[u] \in Nodes => on[u] \in Live
    BY <2>2, Names
  <2>7. on[u] \in Nodes => SamePrefix(on[u]) /\ d.from[on[u]] = c.from[on[u]]
    BY <1>1, <1>3, <2>2, <2>6
  <2>8. QED
    BY <2>4, <2>5, <2>7
<1>9. pc[u] \in {"setLen", "setPartial"} => node'[u] = node[u]
  <2>1. pc[u] \in {"setLen", "setPartial"} => Splitting(u)
    BY <1>4 DEF Knows, Splits, Splitting
  <2>2. QED
    BY <1>2, <1>3, <2>1, Names
<1>10. Adding(u) => SameCells(Into(u)) /\ InCells(d, Into(u))' = InCells(c, Into(u))
  <2>1. SUFFICES ASSUME Adding(u) PROVE SameCells(Into(u)) /\ InCells(d, Into(u))' = InCells(c, Into(u))
    OBVIOUS
  <2>2. PICK n \in Live : n = Into(u) /\ n # m /\ n # t /\ Into(u)' = n
    BY <1>2, <2>1, UnmovedSame
  <2>3. InCells(d, n)' = InCells(c, n)
    BY <2>2, DivisionInCells
  <2>4. node'[n] = node[n]
    BY <1>1, <1>3, <2>2
  <2>5. QED
    BY <2>2, <2>3, <2>4 DEF SameCells
<1>11. QED
  BY <1>1, <1>2, <1>3, <1>4, <1>5, <1>6, <1>7, <1>8, <1>9, <1>10, KnowsKept

LEMMA DivisionCharted ==
  ASSUME NEW c, NEW d, NEW t, NEW l, NEW m, NEW x, NEW w, Division(c, d, t, l, m, x, w)
  PROVE  Charted(d)'
<1>1. /\ t \in Inserters /\ t \notin Live /\ Live' = Live \cup {t} /\ Live \subseteq Nodes
      /\ (\A n \in Live : SameKeys(n) /\ SamePrefix(n)) /\ Keeps(c, d) /\ ~Adding(t)
  BY DivisionFacts
<1>2. Calm(c) /\ d \in Charts /\ (\A n \in Nodes \ {m, t} : node'[n] = node[n])
  BY DEF Division, Divided
<1>3. ASSUME NEW n \in Live' PROVE CellsOK(d, n)'
  <2>1. CASE n = m \/ n = t
    BY <2>1, DivisionFilled DEF CellsOK
  <2>2. CASE n # m /\ n # t
    <3>1. n \in Live /\ n \in Nodes /\ node'[n] = node[n] /\ CellsOK(c, n)
      BY <1>1, <1>2, <2>2, CalmFacts
    <3>2. SUFFICES ASSUME (\A u \in Inserters : ~(Adding(u) /\ Into(u) = n))'
                   PROVE  Filled(d, n, Upto(node[n].count))'
      BY DEF CellsOK
    <3>3. ASSUME NEW u \in Inserters PROVE ~(Adding(u) /\ Into(u) = n)
      <4>1. CASE u = t
        BY <1>1, <4>1
      <4>2. CASE u # t
        BY <3>2, <4>2, DivisionApart, UnmovedSame
      <4>3. QED
        BY <4>1, <4>2
    <3>4. Filled(c, n, Upto(node[n].count))
      BY <3>1, <3>3 DEF CellsOK
    <3>5. InCells(d, n)' = InCells(c, n) /\ SameCells(n)
      BY <2>2, <3>1, DivisionInCells DEF SameCells
    <3>6. \A D : Filled(c, n, D) => Filled(d, n, D)'
      <4>1. TypesOK /\ c \in Charts /\ IsTree(c)
        BY <1>2, CalmFacts
      <4>2. QED
        BY <1>1, <1>2, <3>1, <3>5, <4>1, FilledKept
    <3>7. node'[n].count = node[n].count
      BY <3>1
    <3>8. QED
      BY <3>4, <3>6, <3>7
  <2>3. QED
    BY <2>1, <2>2
<1>4. IsTree(d)'
  BY DivisionTree
<1>5. \A n \in Live' : PrefixOK(d, n)'
  BY DivisionPrefix
<1>6. \A u \in Inserters : Knows(d, u)'
  BY DivisionKnows, DivisionOthers
<1>7. QED
  BY <1>3, <1>4, <1>5, <1>6 DEF Charted

LEMMA DivisionStores ==
  ASSUME NEW c, NEW d, NEW t, NEW l, NEW m, NEW x, NEW w, Division(c, d, t, l, m, x, w)
  PROVE  /\ node'[t].count = 0
         /\ \A n \in Live : /\ SameKeys(n)
                            /\ \A j \in Cells : node'[n].children[j] \in {node[n].children[j], t}
<1>1. /\ node'[t].count = 0 /\ m \in Live /\ t \notin Live /\ Live \subseteq Nodes
      /\ \A n \in Live : SameKeys(n) /\ SamePrefix(n)
  BY DivisionFacts
<1>2. /\ Calm(c) /\ node'[m] = [node[m] EXCEPT !.children[x] = t]
      /\ \A n \in Nodes \ {m, t} : node'[n] = node[n]
  BY DEF Division
<1>3. node[m] \in NodeRecords /\ node[m].children \in [Cells -> Pointers]
  BY <1>1, <1>2, CalmFacts, Fields
<1>4. node'[m].children = [node[m].children EXCEPT ![x] = t]
  BY <1>2, <1>3 DEF NodeRecords
<1>5. \A j \in Cells : node'[m].children[j] \in {node[m].children[j], t}
  BY <1>3, <1>4
<1>6. QED
  BY <1>1, <1>2, <1>5

(* There is a chart that differs by a division only.                       *)
LEMMA DividedChart ==
  ASSUME NEW c \in Charts, NEW t \in Nodes, NEW l \in Things, NEW m \in Nodes, NEW k \in Keys,
         NEW first \in Nat, NEW w \in Nat, l # t
  PROVE  \E d \in Charts : Divided(c, d, t, l, m, k, first, w)
<1> DEFINE up == [p \in Things |-> IF p = l THEN t ELSE IF p = t THEN m ELSE c.up[p]]
           sample == [p \in Things |-> IF p = t THEN k ELSE c.sample[p]]
           start == [n \in Nodes |-> IF n = t THEN first ELSE IF n = l THEN w + 1 ELSE c.from[n]]
           to == [n \in Nodes |-> IF n = t THEN w ELSE c.to[n]]
<1>1. /\ c.up \in [Things -> Nodes \cup {Null}] /\ c.sample \in [Things -> Keys]
      /\ c.from \in [Nodes -> Nat] /\ c.to \in [Nodes -> Nat]
  BY DEF Charts
<1>2. up \in [Things -> Nodes \cup {Null}] /\ sample \in [Things -> Keys]
  BY <1>1
<1>3. start \in [Nodes -> Nat] /\ to \in [Nodes -> Nat]
  BY <1>1
<1>4. t \in Things
  BY Names
<1>5. PICK d \in Charts : d.up = up /\ d.sample = sample /\ d.from = start /\ d.to = to
  <2>1. [up |-> up, sample |-> sample, from |-> start, to |-> to] \in Charts
    BY <1>2, <1>3 DEF Charts
  <2>2. QED
    BY <2>1
<1>6. QED
  BY <1>4, <1>5 DEF Divided

(* A leaf is not split by an insert of its own key.                        *)
LEMMA LeavesDiffer ==
  ASSUME NEW c, Calm(c), NEW t \in Inserters, pc[t] = "leaf"
  PROVE  on[t] \in Keys /\ on[t] # key[t] /\ c.sample[on[t]] = on[t]
<1>1. on[t] \in Keys /\ CellLeads(c, t)
  BY CalmFacts DEF Knows, Divides
<1>2. c.up[on[t]] # Null
  BY <1>1, CalmFacts, Names DEF CellLeads, Things
<1>3. on[t] \in Loaded \/ \E u \in Inserters : key[u] = on[t] /\ HasPut(u)
  BY <1>1, <1>2, CalmFacts DEF IsTree
<1>4. ~HasPut(t)
  BY DEF HasPut
<1>5. on[t] # key[t]
  BY <1>3, <1>4, CalmFacts DEF KeysOK
<1>6. QED
  BY <1>1, <1>5, CalmFacts DEF IsTree

(* The first byte in which two keys differ.                                *)
LEMMA Differ ==
  ASSUME NEW k \in Keys, NEW l \in Keys, k # l, NEW dep \in Nat, Bytes(k, l, dep)
  PROVE  LET w == dep + CommonPrefix(l, k, dep) IN
         /\ CommonPrefix(l, k, dep) \in Nat /\ w < KeyLen
         /\ Bytes(k, l, w) /\ ByteOf[k][w] # ByteOf[l][w]
<1> DEFINE S == {j \in 0 .. KeyLen - 1 : Byte(l, dep + j) # Byte(k, dep + j)}
           o == IF dep < KeyLen THEN KeyLen - dep ELSE 0
           m == FirstOf(S, o)
<1>1. m = CommonPrefix(l, k, dep)
  BY DEF CommonPrefix
<1>2. PICK e \in 0 .. KeyLen - 1 : ByteOf[k][e] # ByteOf[l][e]
  <2>1. ByteOf[k] # ByteOf[l] /\ ByteOf \in [Keys -> [0 .. KeyLen - 1 -> Nat \ {0}]]
    BY SplitAssumption
  <2>2. ByteOf[k] \in [0 .. KeyLen - 1 -> Nat \ {0}] /\ ByteOf[l] \in [0 .. KeyLen - 1 -> Nat \ {0}]
    BY <2>1
  <2>3. ASSUME \A e \in 0 .. KeyLen - 1 : ByteOf[k][e] = ByteOf[l][e] PROVE ByteOf[k] = ByteOf[l]
    <3>1. /\ ByteOf[k] = [e \in 0 .. KeyLen - 1 |-> ByteOf[k][e]]
          /\ ByteOf[l] = [e \in 0 .. KeyLen - 1 |-> ByteOf[l][e]]
      BY <2>2
    <3>2. [e \in 0 .. KeyLen - 1 |-> ByteOf[k][e]] = [e \in 0 .. KeyLen - 1 |-> ByteOf[l][e]]
      BY <2>3
    <3>3. QED
      BY <3>1, <3>2, Zenon
  <2>4. QED
    BY <2>1, <2>3
<1>3. dep <= e
  BY <1>2, Numbers DEF Bytes
<1>4. e - dep \in S
  <2>1. e - dep \in 0 .. KeyLen - 1 /\ dep + (e - dep) = e
    BY <1>3, Numbers
  <2>2. Byte(l, e) = ByteOf[l][e] /\ Byte(k, e) = ByteOf[k][e]
    BY Letters
  <2>3. QED
    BY <1>2, <2>1, <2>2
<1>5. S \in SUBSET Nat
  OBVIOUS
<1>6. m \in S /\ m <= e - dep /\ \A j \in S : m <= j
  BY <1>4, <1>5, First
<1>7. m \in Nat /\ dep + m \in 0 .. KeyLen - 1
  BY <1>3, <1>5, <1>6, Numbers
<1>8. ByteOf[k][dep + m] # ByteOf[l][dep + m]
  <2>1. Byte(l, dep + m) # Byte(k, dep + m)
    BY <1>6
  <2>2. QED
    BY <1>7, <2>1, Letters
<1>9. ASSUME NEW j \in 0 .. (dep + m) - 1 PROVE ByteOf[k][j] = ByteOf[l][j]
  <2>1. CASE j < dep
    BY <1>9, <2>1 DEF Bytes
  <2>2. CASE dep <= j
    <3>1. j - dep \in 0 .. KeyLen - 1 /\ j - dep < m /\ dep + (j - dep) = j /\ j \in 0 .. KeyLen - 1
      BY <1>7, <1>9, <2>2, Numbers
    <3>2. j - dep \notin S
      <4>1. ~(m <= j - dep)
        BY <1>7, <3>1
      <4>2. QED
        BY <1>6, <4>1
    <3>3. Byte(l, j) = Byte(k, j)
      BY <3>1, <3>2
    <3>4. QED
      BY <3>1, <3>3, Letters
  <2>3. QED
    BY <1>7, <1>9, <2>1, <2>2
<1>10. QED
  BY <1>1, <1>7, <1>8, <1>9, Numbers DEF Bytes

(* How a split changes the chart, and the cells.                           *)
Splices(c, d, t) ==
  /\ node'[t].count = 0
  /\ \A n \in Live : /\ SameKeys(n)
                     /\ \A j \in Cells : node'[n].children[j] \in {node[n].children[j], t}
  /\ t \in Nodes \ Live /\ on[t] \in Things \ {Root, t} /\ c.up[on[t]] \in Live /\ c.up[t] = Null
  /\ on'[t] = on[t] /\ Splitting(t)'
  /\ \E w \in Nat : Divided(c, d, t, on[t], c.up[on[t]], key[t], depth[t], w)

LEMMA SplitLeafCharted ==
  ASSUME NEW c, Calm(c), NEW t \in Inserters, SplitLeaf(t), ~Meeting'
  PROVE  \E d \in Charts : Charted(d)' /\ Splices(c, d, t)
<1> DEFINE l == on[t]
           m == ref[t][1]
           x == ref[t][2]
           q == CommonPrefix(l, key[t], depth[t])
           w == depth[t] + q
           common(j) == IF j < q THEN Byte(l, depth[t] + j) ELSE 0
           new == [Empty EXCEPT !.len = q, !.partial = [j \in DOMAIN @ |-> common(j)]]
<1>1. /\ pc[t] = "leaf" /\ node' = Replace(ref[t], t, [node EXCEPT ![t] = new])
      /\ diff' = [diff EXCEPT ![t] = q] /\ todo' = [todo EXCEPT ![t] = <<l, key[t]>>]
      /\ made' = made \cup {t} /\ Goto(t, "position") /\ UNCHANGED <<on, depth>>
  BY DEF SplitLeaf, path
<1>2. l \in Keys /\ l # key[t] /\ c.sample[l] = l /\ key[t] \in Keys /\ l \notin Nodes
  BY <1>1, LeavesDiffer, CalmFacts, Names
<1>3. /\ t \notin made /\ m \in Live /\ c.up[l] = m /\ x \in Cells /\ m \in Nodes /\ l \in Things
  <2>1. m = Parent(t)
    BY DEF Parent
  <2>2. QED
    BY <1>1, <2>1, CellOfSplit, CalmFacts
<1>4. t \in Nodes /\ t \notin Live /\ t # m /\ l # t /\ t \in Threads /\ node[t] = Empty
  BY <1>2, <1>3, NewNode, Names
<1>5. depth[t] = c.to[m] + 1 /\ Bytes(key[t], l, depth[t]) /\ depth[t] \in Nat
  BY <1>1, <1>4, CalmFacts DEF Knows, Divides, Parent, TypesOK
<1>6. q \in Nat /\ w \in Nat /\ w < KeyLen /\ Bytes(key[t], l, w) /\ ByteOf[key[t]][w] # ByteOf[l][w]
  BY <1>2, <1>5, Differ
<1>7. ref[t] = <<m, x>>
  <2>1. ref[t] \in Nodes \X Cells
    BY <1>4, CalmFacts DEF TypesOK
  <2>2. QED
    BY <2>1
<1>8. Apart(t)
  BY StepApart, CalmFacts, <1>4 DEF InsertStep
<1>9. /\ pc'[t] = "position" /\ on'[t] = l /\ depth'[t] = depth[t] /\ diff'[t] = q
      /\ todo'[t] = <<l, key[t]>> /\ pc[t] = "leaf" /\ made' = made \cup {t} /\ l = on[t]
  BY <1>1, <1>4, CalmFacts DEF Goto, TypesOK
<1> HIDE DEF q
<1>10. /\ node'[m] = [node[m] EXCEPT !.children[x] = t] /\ node'[t] = new
       /\ \A n \in Nodes \ {m, t} : node'[n] = node[n]
  <2>1. node \in [Nodes -> NodeRecords]
    BY CalmFacts DEF TypesOK
  <2> DEFINE mid == [node EXCEPT ![t] = new]
  <2>2. node' = [mid EXCEPT ![m].children[x] = t]
    BY <1>1 DEF Replace
  <2>3. mid[t] = new /\ \A n \in Nodes \ {t} : mid[n] = node[n]
    BY <1>4, <2>1
  <2>4. DOMAIN mid = Nodes
    BY <2>1
  <2> HIDE DEF mid, new
  <2>5. /\ node'[m] = [mid[m] EXCEPT !.children[x] = t]
        /\ \A n \in Nodes \ {m} : node'[n] = mid[n]
    BY <1>3, <2>2, <2>4
  <2>6. QED
    BY <1>3, <1>4, <2>3, <2>5
<1>11. /\ new.count = 0 /\ new.len = q
       /\ \A j \in 0 .. q - 1 : new.partial[j] = ByteOf[l][depth[t] + j]
  <2>1. new.count = 0 /\ new.len = q /\ new.partial = [j \in 0 .. KeyLen - 1 |-> common(j)]
    BY DEF Empty
  <2>2. ASSUME NEW j \in 0 .. q - 1 PROVE new.partial[j] = ByteOf[l][depth[t] + j]
    <3>1. j \in 0 .. KeyLen - 1 /\ j < q /\ depth[t] + j \in 0 .. KeyLen - 1
      BY <1>5, <1>6, Numbers
    <3>2. Byte(l, depth[t] + j) = ByteOf[l][depth[t] + j]
      BY <1>2, <3>1, Letters
    <3>3. QED
      BY <2>1, <3>1, <3>2
  <2>3. QED
    BY <2>1, <2>2
<1> HIDE DEF new, w
<1>12. PICK d \in Charts : Divided(c, d, t, l, m, key[t], depth[t], w)
  <2>1. c \in Charts /\ t \in Nodes /\ l \in Things /\ m \in Nodes /\ key[t] \in Keys /\ depth[t] \in Nat
        /\ w \in Nat /\ l # t
    BY <1>2, <1>3, <1>4, <1>5, <1>6, CalmFacts
  <2> HIDE DEF l, m
  <2>2. QED
    BY <2>1, DividedChart
<1>13. w - depth[t] = q /\ depth[t] <= w
  BY <1>5, <1>6 DEF w
<1> HIDE DEF l, m, x
<1>14. Division(c, d, t, l, m, x, w)
  BY <1>2, <1>3, <1>4, <1>5, <1>6, <1>7, <1>8, <1>9, <1>10, <1>11, <1>12, <1>13 DEF Division
<1>15. Splices(c, d, t)
  <2>1. l # Root /\ t \in Nodes \ Live /\ l \in Things /\ c.up[t] = Null
    BY <1>1, <1>3, <1>4, NewNode, CellOfSplit DEF l
  <2>2. Splitting(t)'
    BY <1>9 DEF Splitting, Adding
  <2>3. QED
    BY <1>3, <1>4, <1>6, <1>9, <1>12, <1>14, <2>1, <2>2, DivisionStores DEF Splices
<1>16. QED
  BY <1>12, <1>14, <1>15, DivisionCharted

LEMMA SplitPrefixCharted ==
  ASSUME NEW c, Calm(c), NEW t \in Inserters, SplitPrefix(t), ~Meeting'
  PROVE  \E d \in Charts : Charted(d)' /\ Splices(c, d, t)
<1> DEFINE l == on[t]
           m == ref[t][1]
           x == ref[t][2]
           w == depth[t] + diff[t]
<1>1. /\ pc[t] = "publish" /\ node' = Replace(ref[t], t, node)
      /\ todo' = [todo EXCEPT ![t] = <<l, key[t]>>]
      /\ made' = made \cup {t} /\ Goto(t, "setLen") /\ UNCHANGED <<on, depth, diff>>
  BY DEF SplitPrefix, path
<1>2. /\ t \notin made /\ m \in Live /\ c.up[l] = m /\ x \in Cells /\ m \in Nodes /\ l \in Things
  <2>1. m = Parent(t)
    BY DEF Parent
  <2>2. QED
    BY <1>1, <2>1, CellOfSplit, CalmFacts
<1>3. /\ l \in Live /\ depth[t] = c.from[l] /\ w < c.to[l]
      /\ Bytes(key[t], c.sample[l], w) /\ ByteOf[key[t]][w] # ByteOf[c.sample[l]][w]
  BY <1>1, CalmFacts DEF Knows, Divides, Led
<1>4. t \in Nodes /\ t \notin Live /\ t # m /\ l # t /\ t \in Threads /\ node[t] = Empty /\ l \in Nodes
      /\ key[t] \in Keys
  BY <1>2, <1>3, NewNode, Names, CalmFacts
<1>5. depth[t] = c.to[m] + 1
  <2>1. m # Null
    BY <1>2, Names DEF Things
  <2>2. Under(c, l, m)
    BY <1>2, <2>1, CalmFacts DEF IsTree
  <2>3. QED
    BY <1>3, <1>4, <2>2 DEF Under
<1>6. depth[t] \in Nat /\ diff[t] \in Nat /\ w \in Nat /\ w < KeyLen /\ depth[t] <= w /\ w - depth[t] = diff[t]
  <2>1. depth[t] \in Nat /\ diff[t] \in Nat
    BY <1>4, CalmFacts, Numbers DEF TypesOK
  <2>2. c.to[l] \in Nat /\ c.to[l] < KeyLen
    BY <1>3, CalmFacts
  <2>3. QED
    BY <1>3, <2>1, <2>2, Numbers
<1>7. ref[t] = <<m, x>>
  <2>1. ref[t] \in Nodes \X Cells
    BY <1>4, CalmFacts DEF TypesOK
  <2>2. QED
    BY <2>1
<1>8. Apart(t)
  BY StepApart, CalmFacts, <1>4 DEF InsertStep
<1>9. /\ pc'[t] = "setLen" /\ on'[t] = l /\ depth'[t] = depth[t] /\ diff'[t] = diff[t]
      /\ todo'[t] = <<l, key[t]>>
  BY <1>1, <1>4, CalmFacts DEF Goto, TypesOK
<1>10. /\ node'[m] = [node[m] EXCEPT !.children[x] = t]
       /\ \A n \in Nodes \ {m} : node'[n] = node[n]
  <2>1. DOMAIN node = Nodes
    BY CalmFacts DEF TypesOK
  <2>2. node' = [node EXCEPT ![m].children[x] = t]
    BY <1>1 DEF Replace
  <2>3. QED
    BY <1>2, <2>1, <2>2
<1> HIDE DEF w
<1>11. PICK d \in Charts : Divided(c, d, t, l, m, key[t], depth[t], w)
  <2>1. c \in Charts /\ t \in Nodes /\ l \in Things /\ m \in Nodes /\ key[t] \in Keys /\ depth[t] \in Nat
        /\ w \in Nat /\ l # t
    BY <1>2, <1>4, <1>6, CalmFacts
  <2> HIDE DEF l, m
  <2>2. QED
    BY <2>1, DividedChart
<1>12. Division(c, d, t, l, m, x, w)
  BY <1>1, <1>2, <1>3, <1>4, <1>5, <1>6, <1>7, <1>8, <1>9, <1>10, <1>11 DEF Division
<1>13. Splices(c, d, t)
  <2>1. l # Root /\ c.up[t] = Null
    BY <1>1, <1>2, NewNode, CellOfSplit
  <2>2. Splitting(t)'
    BY <1>1, <1>9 DEF Splitting
  <2>3. QED
    BY <1>2, <1>4, <1>6, <1>9, <1>11, <1>12, <2>1, <2>2, DivisionStores DEF Splices
<1>14. QED
  BY <1>11, <1>12, <1>13, DivisionCharted

-------------------------------------------------------------------------------
(* Splits of prefixes: a step that writes to the prefix of node n, which   *)
(* is the new node or the one below it.                                    *)
Prefixing(c, t, n) ==
  /\ Calm(c) /\ t \in Inserters /\ Apart(t) /\ made' = made /\ on' = on
  /\ pc[t] \in {"setLen", "setPartial", "shortenLen", "shortenPartial"} /\ n \in {t, on[t]}
  /\ \A q \in Nodes \ {n} : node'[q] = node[q]
  /\ SameCells(n)
  /\ HasPut(t)' <=> HasPut(t)
  /\ Waiting(t)' <=> Waiting(t)
  /\ (pc[t] \in {"setLen", "setPartial"} => n = t)
  /\ n # on[t] => (Unshortened(t)' \/ HalfShortened(t)') /\ (Unshortened(t) \/ HalfShortened(t))

LEMMA PrefixingFacts ==
  ASSUME NEW c, NEW t, NEW n, Prefixing(c, t, n)
  PROVE  /\ Splitting(t) /\ ~Adding(t) /\ t \in Live /\ on[t] \in Live /\ n \in Live /\ t # on[t]
         /\ Live' = Live /\ c.up[on[t]] = t /\ Live \subseteq Nodes
         /\ Under(c, on[t], t) /\ c.from[on[t]] = c.to[t] + 1 /\ ~Ended(t)
<1>1. /\ Calm(c) /\ t \in Inserters /\ Knows(c, t)
      /\ pc[t] \in {"setLen", "setPartial", "shortenLen", "shortenPartial"}
  BY CalmFacts DEF Prefixing
<1>2. t \in made /\ on[t] \in Nodes /\ Splitting(t) /\ ~Adding(t) /\ ~Ended(t)
  BY <1>1 DEF Knows, Splits, Splitting, Adding, Ended
<1>3. on[t] \in Things /\ c.up[on[t]] = t /\ t # Null
  BY <1>1, <1>2, Names DEF Knows, Splits
<1>4. on[t] \in Live \cup Keys /\ Under(c, on[t], t)
  BY <1>1, <1>3, Hanging, CalmFacts DEF IsTree
<1>5. on[t] \in Live /\ t \in Live
  BY <1>2, <1>4, Names DEF Live
<1>6. c.from[on[t]] = c.to[t] + 1
  BY <1>2, <1>4 DEF Under
<1>7. t # on[t]
  <2>1. c.from[t] <= c.to[t] /\ c.from[t] \in Nat /\ c.to[t] \in Nat
    BY <1>1, <1>5, CalmFacts
  <2>2. QED
    BY <1>6, <2>1
<1>8. QED
  BY <1>1, <1>2, <1>3, <1>4, <1>5, <1>6, <1>7, CalmFacts DEF Prefixing, Live

LEMMA PrefixingCells ==
  ASSUME NEW c, NEW t, NEW n, Prefixing(c, t, n)
  PROVE  /\ \A q \in Live : InCells(c, q)' = InCells(c, q) /\ SameCells(q)
         /\ \A q \in Live : \A D : Filled(c, q, D) => Filled(c, q, D)'
         /\ Keeps(c, c)
<1>1. Calm(c) /\ t \in Inserters /\ Live' = Live /\ Live \subseteq Nodes /\ on' = on /\ Apart(t)
  BY PrefixingFacts DEF Prefixing
<1>2. Keeps(c, c)
  BY <1>1 DEF Keeps
<1>3. \A q \in Live : SameCells(q)
  <2>1. SUFFICES ASSUME NEW q \in Live PROVE SameCells(q)
    OBVIOUS
  <2>2. CASE q = n
    BY <2>2 DEF Prefixing
  <2>3. CASE q # n
    <3>1. node'[q] = node[q]
      BY <1>1, <2>3 DEF Prefixing
    <3>2. QED
      BY <3>1 DEF SameCells
  <2>4. QED
    BY <2>2, <2>3
<1>4. \A q : InCells(c, q)' = InCells(c, q)
  <2>1. \A u \in Inserters : Waiting(u)' <=> Waiting(u)
    <3>1. \A u \in Inserters \ {t} : Waiting(u)' <=> Waiting(u)
      BY <1>1, UnmovedSame DEF Apart
    <3>2. Waiting(t)' <=> Waiting(t)
      BY DEF Prefixing
    <3>3. QED
      BY <3>1, <3>2
  <2>2. QED
    BY <1>1, <2>1 DEF InCells
<1>5. TypesOK /\ c \in Charts /\ IsTree(c)
  BY <1>1, CalmFacts
<1>6. \A q \in Live : \A D : Filled(c, q, D) => Filled(c, q, D)'
  BY <1>2, <1>3, <1>4, <1>5, FilledKept
<1>7. QED
  BY <1>2, <1>3, <1>4, <1>6

LEMMA PrefixingOthers ==
  ASSUME NEW c, NEW t, NEW n, Prefixing(c, t, n), NEW u \in Inserters, u # t
  PROVE  Knows(c, u)'
<1>1. /\ Splitting(t) /\ t \in Live /\ on[t] \in Live /\ n \in Live /\ t # on[t]
      /\ Live' = Live /\ c.up[on[t]] = t /\ Live \subseteq Nodes /\ ~Ended(t)
  BY PrefixingFacts
<1>2. /\ (\A q \in Live : InCells(c, q)' = InCells(c, q) /\ SameCells(q)) /\ Keeps(c, c)
  BY PrefixingCells
<1>3. /\ Calm(c) /\ t \in Inserters /\ Apart(t) /\ n \in {t, on[t]}
      /\ \A q \in Nodes \ {n} : node'[q] = node[q]
  BY DEF Prefixing
<1>4. Unmoved(u) /\ key' = key
  BY <1>3 DEF Apart
<1>5. TypesOK /\ c \in Charts /\ IsTree(c) /\ Knows(c, u) /\ ~Meeting
  BY <1>3, CalmFacts
<1>6. pc[u] \in {"version", "prefix"} \/ Replacing(u) => on[u] = Root \/ CellLeads(c, u)'
  <2>1. SUFFICES ASSUME pc[u] \in {"version", "prefix"} \/ Replacing(u), on[u] # Root
                 PROVE  CellLeads(c, u)'
    OBVIOUS
  <2>2. CellLeads(c, u)
    BY <1>5, <2>1 DEF Knows, Descends, Divides, Replacing
  <2>3. SameCells(Parent(u))
    BY <1>2, <2>2 DEF CellLeads
  <2>4. QED
    BY <1>1, <1>4, <2>2, <2>3 DEF CellLeads, SameCells, Parent, Unmoved
<1>7. pc[u] \in {"load", "lockParent", "lock"} => SameKeys(on[u])
  BY <1>2, <1>5 DEF Knows, Descends, Led, SameCells, SameKeys
<1>8. Splitting(u) => u # n /\ (on[u] \in Nodes => SamePrefix(on[u]))
  <2>1. SUFFICES ASSUME Splitting(u) PROVE u # n /\ (on[u] \in Nodes => SamePrefix(on[u]))
    OBVIOUS
  <2>2. ~AddsTo(u, on[t])
    BY <1>1, <1>3, <1>5, NoMeeting DEF Prefixing
  <2>3. u # n
    BY <1>3, <2>1, <2>2 DEF AddsTo
  <2>4. c.up[on[u]] = u
    BY <1>5, <2>1 DEF Knows, Splits
  <2>5. on[u] # t
    <3>1. AddsTo(t, t)
      BY <1>1 DEF AddsTo
    <3>2. ~Ended(u) /\ pc[u] # "start"
      BY <2>1 DEF Splitting, Adding, Ended
    <3>3. QED
      BY <1>3, <1>5, <3>1, <3>2, NoMeeting
  <2>6. on[u] # n
    BY <1>1, <1>3, <2>4, <2>5
  <2>7. QED
    BY <1>3, <2>3, <2>6 DEF SamePrefix
<1>9. pc[u] \in {"setLen", "setPartial"} => node'[u] = node[u]
  <2>1. pc[u] \in {"setLen", "setPartial"} => Splitting(u)
    BY <1>5 DEF Knows, Splits, Splitting
  <2>2. QED
    BY <1>3, <1>8, <2>1, Names
<1>10. Adding(u) => SameCells(Into(u)) /\ InCells(c, Into(u))' = InCells(c, Into(u))
  <2>1. SUFFICES ASSUME Adding(u) PROVE SameCells(Into(u)) /\ InCells(c, Into(u))' = InCells(c, Into(u))
    OBVIOUS
  <2>2. Into(u) \in Live
    BY <1>5, <2>1 DEF Knows, Adds, Led, Into, Live
  <2>3. PICK q \in Live : q = Into(u) /\ Into(u)' = q
    BY <1>4, <2>2, UnmovedSame
  <2>4. QED
    BY <1>2, <2>3
<1>11. QED
  BY <1>2, <1>4, <1>5, <1>6, <1>7, <1>8, <1>9, <1>10, KnowsKept

LEMMA PrefixingCharted ==
  ASSUME NEW c, NEW t, NEW n, Prefixing(c, t, n), Knows(c, t)', PrefixOK(c, n)'
  PROVE  Charted(c)'
<1>1. /\ ~Adding(t) /\ t \in Live /\ on[t] \in Live /\ n \in Live /\ t # on[t]
      /\ Live' = Live /\ Live \subseteq Nodes
  BY PrefixingFacts
<1>2. /\ (\A q \in Live : SameCells(q)) /\ (\A q \in Live : \A D : Filled(c, q, D) => Filled(c, q, D)')
  BY PrefixingCells
<1>3. /\ Calm(c) /\ t \in Inserters /\ Apart(t) /\ n \in {t, on[t]} /\ on' = on
      /\ \A q \in Nodes \ {n} : node'[q] = node[q]
  BY DEF Prefixing
<1>4. ASSUME NEW u \in Inserters, u # t
      PROVE  /\ pc'[u] = pc[u] /\ on'[u] = on[u]
             /\ (Unshortened(u) <=> Unshortened(u)') /\ (HalfShortened(u) <=> HalfShortened(u)')
             /\ (Adding(u)' <=> Adding(u)) /\ Into(u)' = Into(u) /\ (HasPut(u)' <=> HasPut(u))
  <2>1. Unmoved(u)
    BY <1>3, <1>4 DEF Apart
  <2>2. QED
    BY <2>1, UnmovedSame DEF Unmoved
<1>5. IsTree(c)'
  <2>1. \A p, q : Under(c, p, q)' = Under(c, p, q)
    BY <1>1 DEF Under
  <2>2. \A u \in Inserters : HasPut(u)' <=> HasPut(u)
    BY <1>4 DEF Prefixing
  <2>3. key' = key
    BY <1>3 DEF Apart
  <2>4. IsTree(c)
    BY <1>3, CalmFacts
  <2>5. QED
    BY <1>1, <2>1, <2>2, <2>3, <2>4 DEF IsTree
<1>6. ASSUME NEW q \in Live PROVE CellsOK(c, q)'
  <2>1. SUFFICES ASSUME (\A u \in Inserters : ~(Adding(u) /\ Into(u) = q))'
                 PROVE  Filled(c, q, Upto(node[q].count))'
    BY DEF CellsOK
  <2>2. \A u \in Inserters : ~(Adding(u) /\ Into(u) = q)
    BY <1>1, <1>4, <2>1
  <2>3. Filled(c, q, Upto(node[q].count))
    BY <1>3, <2>2, CalmFacts DEF CellsOK
  <2>4. node'[q].count = node[q].count
    BY <1>2 DEF SameCells
  <2>5. QED
    BY <1>2, <2>3, <2>4
<1>7. ASSUME NEW q \in Live PROVE PrefixOK(c, q)'
  <2>1. CASE q = n
    BY <2>1
  <2>2. CASE q # n
    <3>1. SUFFICES ASSUME (\A u \in Inserters : /\ ~(pc[u] \in {"setLen", "setPartial"} /\ u = q)
                             /\ ~((Unshortened(u) \/ HalfShortened(u)) /\ on[u] = q))'
                   PROVE  (LenFrom(c, q, c.from[q]) /\ PartialFrom(c, q, c.from[q]))'
      BY DEF PrefixOK
    <3>2. ASSUME NEW u \in Inserters
          PROVE  /\ ~(pc[u] \in {"setLen", "setPartial"} /\ u = q)
                 /\ ~((Unshortened(u) \/ HalfShortened(u)) /\ on[u] = q)
      <4>1. CASE u = t
        <5>1. ~(pc[t] \in {"setLen", "setPartial"} /\ t = q)
          BY <2>2 DEF Prefixing
        <5>2. ~((Unshortened(t) \/ HalfShortened(t)) /\ on[t] = q)
          <6>1. CASE n = on[t]
            BY <2>2, <6>1
          <6>2. CASE n # on[t]
            BY <1>3, <3>1, <6>2 DEF Prefixing
          <6>3. QED
            BY <6>1, <6>2
        <5>3. QED
          BY <4>1, <5>1, <5>2
      <4>2. CASE u # t
        BY <1>4, <3>1, <4>2
      <4>3. QED
        BY <4>1, <4>2
    <3>3. LenFrom(c, q, c.from[q]) /\ PartialFrom(c, q, c.from[q])
      BY <1>3, <3>2, CalmFacts DEF PrefixOK
    <3>4. node'[q] = node[q]
      BY <1>1, <1>3, <2>2
    <3>5. QED
      BY <3>3, <3>4 DEF LenFrom, PartialFrom
  <2>3. QED
    BY <2>1, <2>2
<1>8. \A u \in Inserters : Knows(c, u)'
  BY PrefixingOthers
<1>9. QED
  BY <1>1, <1>5, <1>6, <1>7, <1>8 DEF Charted

(* The prefix that is split, while it counts from where the new one does.  *)
LEMMA OldPrefix ==
  ASSUME NEW c, Calm(c), NEW t \in Inserters, Splitting(t), on[t] \in Nodes
  PROVE  /\ on[t] \in Live /\ t \in Live /\ t # on[t] /\ t \in Threads /\ on[t] \in Things
         /\ depth[t] \in Nat /\ diff[t] \in Nat /\ c.to[on[t]] \in Nat /\ c.to[on[t]] < KeyLen
         /\ c.from[on[t]] = depth[t] + diff[t] + 1 /\ c.from[on[t]] <= c.to[on[t]]
         /\ c.from[t] = depth[t] /\ c.to[t] = depth[t] + diff[t]
         /\ Bytes(c.sample[on[t]], c.sample[t], c.to[t])
         /\ node[t] \in NodeRecords /\ node[on[t]] \in NodeRecords
<1>1. /\ on[t] \in Things /\ c.up[on[t]] = t /\ t \in made /\ t # Null /\ t \in Threads
      /\ depth[t] = c.from[t] /\ depth[t] + diff[t] = c.to[t]
  <2>1. Splits(c, t)
    BY CalmFacts DEF Knows
  <2>2. t \in made /\ t # Null /\ t \in Threads
    BY Names DEF Splitting, Things
  <2>3. QED
    BY <2>1, <2>2 DEF Splits
<1>2. on[t] \in Live \cup Keys /\ Under(c, on[t], t)
  BY <1>1, Hanging, CalmFacts DEF IsTree
<1>3. on[t] \in Live /\ t \in Live
  BY <1>1, <1>2, Names DEF Live
<1>4. c.from[on[t]] = c.to[t] + 1 /\ Bytes(c.sample[on[t]], c.sample[t], c.to[t])
  BY <1>2 DEF Under
<1>5. depth[t] \in Nat /\ diff[t] \in Nat
  BY <1>1, CalmFacts, Numbers DEF TypesOK
<1>6. c.from[t] \in Nat /\ c.to[t] \in Nat /\ c.from[t] <= c.to[t]
  BY <1>3, CalmFacts
<1>7. t # on[t]
  BY <1>4, <1>6
<1>8. /\ c.to[on[t]] \in Nat /\ c.to[on[t]] < KeyLen /\ c.from[on[t]] <= c.to[on[t]]
      /\ node[t] \in NodeRecords /\ node[on[t]] \in NodeRecords
  BY <1>3, CalmFacts
<1>9. QED
  BY <1>1, <1>3, <1>4, <1>5, <1>7, <1>8

(* The header of the new node, its length, then its bytes.                 *)
LEMMA HeaderFacts ==
  ASSUME NEW c, Calm(c), NEW t \in Inserters, SetLen(t) \/ SetPartial(t)
  PROVE  /\ on' = on /\ made' = made /\ depth' = depth /\ diff' = diff /\ todo' = todo /\ key' = key
         /\ on[t] \in Live /\ t \in Live /\ t # on[t] /\ t \in made /\ on[t] \in Nodes
         /\ todo[t] = <<on[t], key[t]>>
         /\ diff[t] \in 0 .. KeyLen /\ depth[t] \in Nat /\ c.to[on[t]] \in Nat /\ c.to[on[t]] < KeyLen
         /\ c.from[on[t]] = depth[t] + diff[t] + 1 /\ c.from[on[t]] <= c.to[on[t]]
         /\ c.from[t] = depth[t] /\ c.to[t] = depth[t] + diff[t]
         /\ Bytes(c.sample[on[t]], c.sample[t], c.to[t])
         /\ LenFrom(c, on[t], depth[t]) /\ PartialFrom(c, on[t], depth[t])
         /\ Splitting(t) /\ Splitting(t)' /\ Unshortened(t) /\ Unshortened(t)'
         /\ Waiting(t) /\ Waiting(t)' /\ ~HasPut(t) /\ ~HasPut(t)' /\ ~HalfShortened(t)' /\ Apart(t)
         /\ node[t].len = 0 \/ node[t].len = diff[t]
         /\ node[t].count = 0 /\ node[t] \in NodeRecords /\ node[on[t]] \in NodeRecords
<1>1. /\ pc[t] \in {"setLen", "setPartial"} /\ pc'[t] \in {"setPartial", "position"} /\ t \in made
      /\ on[t] \in Nodes
      /\ key' = key /\ made' = made /\ on' = on /\ depth' = depth /\ diff' = diff /\ todo' = todo
      /\ todo[t] = <<on[t], key[t]>>
  BY CalmFacts DEF SetLen, SetPartial, Goto, TypesOK, locals, path, hand, Knows, Splits
<1>2. node[t] = Empty \/ node[t] = [Empty EXCEPT !.len = diff[t]]
  BY <1>1, CalmFacts DEF Knows, Splits
<1>3. Splitting(t) /\ Splitting(t)' /\ Len(todo[t]) = 2
  <2>1. Len(<<on[t], key[t]>>) = 2
    OBVIOUS
  <2>2. QED
    BY <1>1, <2>1 DEF Splitting, Adding
<1>4. /\ on[t] \in Live /\ t \in Live /\ t # on[t]
      /\ depth[t] \in Nat /\ diff[t] \in Nat /\ c.to[on[t]] \in Nat /\ c.to[on[t]] < KeyLen
      /\ c.from[on[t]] = depth[t] + diff[t] + 1 /\ c.from[on[t]] <= c.to[on[t]]
      /\ c.from[t] = depth[t] /\ c.to[t] = depth[t] + diff[t]
      /\ Bytes(c.sample[on[t]], c.sample[t], c.to[t])
      /\ node[t] \in NodeRecords /\ node[on[t]] \in NodeRecords
  BY <1>1, <1>3, OldPrefix
<1>5. /\ Unshortened(t) /\ Unshortened(t)' /\ Waiting(t) /\ Waiting(t)' /\ ~HasPut(t) /\ ~HasPut(t)'
      /\ ~HalfShortened(t)'
  BY <1>1, <1>3 DEF Unshortened, Waiting, HasPut, HalfShortened
<1>6. LenFrom(c, on[t], depth[t]) /\ PartialFrom(c, on[t], depth[t])
  BY <1>5, CalmFacts DEF Knows, Splits
<1>7. diff[t] \in 0 .. KeyLen
  BY <1>4, Numbers
<1>8. Apart(t)
  BY StepApart, CalmFacts, Names DEF InsertStep
<1>9. node[t].count = 0 /\ (node[t].len = 0 \/ node[t].len = diff[t])
  BY <1>2 DEF Empty
<1>10. QED
  BY <1>1, <1>3, <1>4, <1>5, <1>6, <1>7, <1>8, <1>9

(* What the insert that writes it knows, as long as it stays as it is in   *)
(* the rest.                                                               *)
LEMMA HeaderSplits ==
  ASSUME NEW c, Calm(c), NEW t \in Inserters, SetLen(t) \/ SetPartial(t), node'[on[t]] = node[on[t]],
         pc'[t] \in {"setPartial", "position"},
         pc'[t] = "setPartial" => node'[t] = [Empty EXCEPT !.len = diff[t]]
  PROVE  Splits(c, t)'
<1>1. /\ on' = on /\ made' = made /\ depth' = depth /\ diff' = diff /\ todo' = todo /\ key' = key
      /\ t \in made /\ on[t] \in Nodes /\ todo[t] = <<on[t], key[t]>>
      /\ LenFrom(c, on[t], depth[t]) /\ PartialFrom(c, on[t], depth[t])
      /\ Splitting(t) /\ ~HasPut(t) /\ ~HalfShortened(t)'
  BY HeaderFacts
<1>2. Splits(c, t)
  BY CalmFacts DEF Knows
<1>3. (LenFrom(c, on[t], depth[t]) /\ PartialFrom(c, on[t], depth[t]))'
  BY <1>1 DEF LenFrom, PartialFrom
<1>4. (/\ on[t] \in Things /\ c.up[on[t]] = t
       /\ todo[t] \in {<<on[t], key[t]>>, <<key[t]>>}
       /\ depth[t] = c.from[t] /\ depth[t] + diff[t] = c.to[t]
       /\ Bytes(key[t], c.sample[t], c.to[t])
       /\ ByteOf[key[t]][c.to[t]] # ByteIn(c, on[t], t)
       /\ ~HasPut(t) => \A q \in Things : c.up[q] = t => q = on[t])'
  BY <1>1, <1>2 DEF Splits, ByteIn
<1>5. QED
  BY <1>1, <1>3, <1>4 DEF Splits

LEMMA SetLenCharted ==
  ASSUME NEW c, Calm(c), NEW t \in Inserters, SetLen(t)
  PROVE  Charted(c)' /\ node' \in [Nodes -> NodeRecords]
<1>1. /\ pc[t] = "setLen" /\ pc'[t] = "setPartial" /\ node[t] = Empty /\ node \in [Nodes -> NodeRecords]
  BY CalmFacts, Names DEF SetLen, Goto, TypesOK, Knows, Splits
<1>2. /\ t \in Live /\ t \in Nodes /\ t # on[t] /\ on[t] \in Nodes /\ node[t] \in NodeRecords
      /\ diff[t] \in 0 .. KeyLen /\ on' = on /\ made' = made /\ Apart(t)
  BY HeaderFacts, Names
<1>3. /\ node'[t] = [node[t] EXCEPT !.len = diff[t]]
      /\ \A q \in Nodes \ {t} : node'[q] = node[q]
  BY <1>1, <1>2 DEF SetLen
<1>4. SameCells(t)
  BY <1>2, <1>3 DEF NodeRecords, SameCells
<1>5. node' \in [Nodes -> NodeRecords]
  <2>1. node'[t] \in NodeRecords
    BY <1>2, <1>3 DEF NodeRecords
  <2>2. QED
    BY <1>1, <1>2, <1>3, <2>1 DEF SetLen
<1>6. Prefixing(c, t, t)
  BY <1>1, <1>2, <1>3, <1>4, HeaderFacts DEF Prefixing
<1>7. PrefixOK(c, t)'
  BY <1>1 DEF PrefixOK
<1>8. Splits(c, t)'
  BY <1>1, <1>2, <1>3, HeaderSplits
<1>9. Knows(c, t)'
  BY <1>1, <1>8 DEF Knows, Descends, Divides, Adds, Adding
<1>10. QED
  BY <1>5, <1>6, <1>7, <1>9, PrefixingCharted

LEMMA SetPartialCharted ==
  ASSUME NEW c, Calm(c), NEW t \in Inserters, SetPartial(t)
  PROVE  Charted(c)' /\ node' \in [Nodes -> NodeRecords]
<1> DEFINE common(j) == IF j < diff[t] THEN node[on[t]].partial[j] ELSE 0
           p == [j \in 0 .. KeyLen - 1 |-> IF j < diff[t] THEN node[on[t]].partial[j] ELSE 0]
<1>1. /\ pc[t] = "setPartial" /\ pc'[t] = "position" /\ node[t] = [Empty EXCEPT !.len = diff[t]]
      /\ node \in [Nodes -> NodeRecords]
  BY CalmFacts, Names DEF SetPartial, Goto, TypesOK, Knows, Splits
<1>2. /\ on[t] \in Live /\ t \in Live /\ t \in Nodes /\ t # on[t] /\ on[t] \in Nodes /\ on' = on
      /\ made' = made /\ t \in made /\ depth' = depth /\ diff' = diff /\ todo[t] = <<on[t], key[t]>>
      /\ diff[t] \in 0 .. KeyLen /\ depth[t] \in Nat /\ c.to[on[t]] \in Nat /\ c.to[on[t]] < KeyLen
      /\ c.from[on[t]] = depth[t] + diff[t] + 1 /\ c.from[on[t]] <= c.to[on[t]]
      /\ c.from[t] = depth[t] /\ c.to[t] = depth[t] + diff[t]
      /\ Bytes(c.sample[on[t]], c.sample[t], c.to[t])
      /\ PartialFrom(c, on[t], depth[t]) /\ Apart(t)
      /\ Splitting(t) /\ Waiting(t) /\ ~HasPut(t)
      /\ node[t] \in NodeRecords /\ node[on[t]] \in NodeRecords /\ node[t].count = 0
  BY HeaderFacts, Names
<1>3. node[t].len = diff[t]
  BY <1>1 DEF Empty
<1>4. node[t].partial \in [0 .. KeyLen - 1 -> Nat] /\ node[on[t]].partial \in [0 .. KeyLen - 1 -> Nat]
  BY <1>2, Fields
<1>5. /\ node'[t] = [node[t] EXCEPT !.partial = p]
      /\ \A q \in Nodes \ {t} : node'[q] = node[q]
  <2>1. node' = [node EXCEPT ![t].partial = [j \in DOMAIN @ |-> common(j)]]
    BY DEF SetPartial
  <2>2. [j \in DOMAIN node[t].partial |-> common(j)] = p
    BY <1>4
  <2>3. /\ node'[t] = [node[t] EXCEPT !.partial = [j \in DOMAIN node[t].partial |-> common(j)]]
        /\ \A q \in Nodes \ {t} : node'[q] = node[q]
    BY <1>1, <1>2, <2>1
  <2>4. QED
    BY <2>2, <2>3
<1>6. p \in [0 .. KeyLen - 1 -> Nat]
  BY <1>2, <1>4
<1> HIDE DEF p
<1>7. node'[t].len = diff[t] /\ node'[t].partial = p /\ SameCells(t)
  BY <1>2, <1>3, <1>5 DEF NodeRecords, SameCells
<1>8. node' \in [Nodes -> NodeRecords]
  <2>1. node'[t] \in NodeRecords
    BY <1>2, <1>5, <1>6 DEF NodeRecords
  <2>2. node' = [q \in Nodes |-> node'[q]]
    BY <1>1 DEF SetPartial
  <2>3. \A q \in Nodes : node'[q] \in NodeRecords
    BY <1>1, <1>5, <2>1
  <2>4. QED
    BY <2>2, <2>3
<1>9. Prefixing(c, t, t)
  BY <1>1, <1>2, <1>5, <1>7, HeaderFacts DEF Prefixing
<1>10. PrefixOK(c, t)'
  <2>1. \A j \in 0 .. diff[t] - 1 : p[j] = ByteOf[c.sample[t]][depth[t] + j]
    <3>1. SUFFICES ASSUME NEW j \in 0 .. diff[t] - 1 PROVE p[j] = ByteOf[c.sample[t]][depth[t] + j]
      OBVIOUS
    <3>2. j \in 0 .. KeyLen - 1 /\ j \in 0 .. c.to[on[t]] - depth[t] - 1
      BY <1>2, Numbers
    <3>3. node[on[t]].partial[j] = ByteOf[c.sample[on[t]]][depth[t] + j]
      BY <1>2, <3>2 DEF PartialFrom
    <3>4. ByteOf[c.sample[on[t]]][depth[t] + j] = ByteOf[c.sample[t]][depth[t] + j]
      BY <1>2 DEF Bytes
    <3>5. p[j] = node[on[t]].partial[j]
      BY <1>2, <3>2 DEF p
    <3>6. QED
      BY <3>3, <3>4, <3>5
  <2>2. c.to[t] - c.from[t] = diff[t]
    BY <1>2
  <2>3. (LenFrom(c, t, c.from[t]) /\ PartialFrom(c, t, c.from[t]))'
    BY <1>2, <1>7, <2>1, <2>2 DEF LenFrom, PartialFrom
  <2>4. QED
    BY <2>3 DEF PrefixOK
<1>11. Splits(c, t)'
  BY <1>1, <1>2, <1>5, HeaderSplits
<1>12. Adds(c, t)'
  <2>1. Into(t)' = t
    BY <1>2 DEF Into
  <2>2. InCells(c, t) = {}
    <3>1. Splits(c, t)
      BY CalmFacts DEF Knows
    <3>2. \A q \in Things : c.up[q] = t => q = on[t]
      BY <1>2, <3>1 DEF Splits
    <3>3. QED
      BY <1>2, <3>2 DEF InCells
  <2>3. InCells(c, t)' = {} /\ node'[t].count = 0
    BY <1>2, <1>7, <1>9, <2>2, PrefixingCells DEF SameCells
  <2>4. Filled(c, t, Upto(node[t].count))'
    BY <2>3 DEF Filled, Upto
  <2>5. QED
    BY <1>1, <1>2, <2>1, <2>4 DEF Adds
<1>13. Knows(c, t)'
  BY <1>1, <1>11, <1>12 DEF Knows, Descends, Divides
<1>14. QED
  BY <1>8, <1>9, <1>10, <1>13, PrefixingCharted

LEMMA ShortenLenCharted ==
  ASSUME NEW c, Calm(c), NEW t \in Inserters, ShortenLen(t)
  PROVE  Charted(c)' /\ node' \in [Nodes -> NodeRecords] /\ ~crashed'
<1>0. PICK n : n = on[t]
  OBVIOUS
<1> USE <1>0
<1>1. /\ pc[t] = "shortenLen" /\ pc'[t] = "shortenPartial" /\ t \in made /\ n \in Nodes
      /\ key' = key /\ made' = made /\ on' = on /\ depth' = depth /\ diff' = diff /\ todo' = todo
      /\ todo[t] = <<key[t]>>
  BY CalmFacts DEF ShortenLen, Goto, TypesOK, locals, path, hand, Knows, Splits
<1>2. Splitting(t) /\ Splitting(t)' /\ Len(todo[t]) = 1
  <2>1. Len(<<key[t]>>) = 1
    OBVIOUS
  <2>2. QED
    BY <1>1, <2>1 DEF Splitting, Adding
<1>3. /\ n \in Live /\ t \in Live /\ t # n
      /\ depth[t] \in Nat /\ diff[t] \in Nat /\ c.to[n] \in Nat /\ c.to[n] < KeyLen
      /\ c.from[n] = depth[t] + diff[t] + 1 /\ c.from[n] <= c.to[n]
      /\ node[n] \in NodeRecords
  BY <1>1, <1>2, OldPrefix
<1>4. /\ Unshortened(t) /\ ~Unshortened(t)' /\ ~Waiting(t) /\ ~Waiting(t)' /\ ~HasPut(t) /\ ~HasPut(t)'
      /\ HalfShortened(t)'
  BY <1>1, <1>2 DEF Unshortened, Waiting, HasPut, HalfShortened
<1>5. LenFrom(c, n, depth[t]) /\ PartialFrom(c, n, depth[t])
  BY <1>4, CalmFacts DEF Knows, Splits
<1>6. node[n].len = c.to[n] - depth[t] /\ ~(node[n].len <= diff[t])
  BY <1>3, <1>5 DEF LenFrom
<1>7. ~crashed'
  BY <1>6 DEF ShortenLen
<1>8. /\ node'[n] = [node[n] EXCEPT !.len = c.to[n] - c.from[n]]
      /\ \A q \in Nodes \ {n} : node'[q] = node[q]
      /\ DOMAIN node' = Nodes /\ node' = [q \in Nodes |-> node'[q]]
  <2>1. node' = [node EXCEPT ![n].len = @ - (diff[t] + 1)]
    BY <1>7 DEF ShortenLen
  <2>2. node = [q \in Nodes |-> node[q]] /\ n \in Nodes
    BY <1>1, CalmFacts DEF TypesOK
  <2>3. node[n].len - (diff[t] + 1) = c.to[n] - c.from[n]
    BY <1>3, <1>6
  <2>4. QED
    BY <2>1, <2>2, <2>3
<1>9. node'[n].len = c.to[n] - c.from[n] /\ node'[n].partial = node[n].partial /\ SameCells(n)
  BY <1>3, <1>8 DEF NodeRecords, SameCells
<1>10. node' \in [Nodes -> NodeRecords]
  <2>1. c.to[n] - c.from[n] \in 0 .. KeyLen
    BY <1>3, Numbers
  <2>2. node'[n] \in NodeRecords
    BY <1>3, <1>8, <2>1 DEF NodeRecords
  <2>3. \A q \in Nodes : node'[q] \in NodeRecords
    BY <1>8, <2>2, CalmFacts DEF TypesOK
  <2>4. QED
    BY <1>8, <2>3
<1>11. Apart(t)
  BY StepApart, CalmFacts, Names DEF InsertStep
<1>12. Prefixing(c, t, n)
  BY <1>1, <1>4, <1>8, <1>9, <1>11 DEF Prefixing
<1>13. PrefixOK(c, n)'
  BY <1>1, <1>4 DEF PrefixOK
<1>14. Splits(c, t)'
  <2>1. Splits(c, t)
    BY CalmFacts DEF Knows
  <2>2. (HalfShortened(t) => LenFrom(c, on[t], c.from[on[t]]) /\ PartialFrom(c, on[t], depth[t]))'
    BY <1>1, <1>5, <1>9 DEF LenFrom, PartialFrom
  <2>3. QED
    BY <1>1, <1>2, <1>4, <2>1, <2>2 DEF Splits, ByteIn
<1>15. Knows(c, t)'
  BY <1>1, <1>14 DEF Knows, Descends, Divides, Adds, Adding
<1>16. Charted(c)'
  BY <1>3, <1>12, <1>13, <1>15, PrefixingCharted
<1>17. QED
  BY <1>7, <1>10, <1>16

LEMMA ShortenPartialCharted ==
  ASSUME NEW c, Calm(c), NEW t \in Inserters, ShortenPartial(t)
  PROVE  Charted(c)' /\ node' \in [Nodes -> NodeRecords]
<1>0. PICK n : n = on[t]
  OBVIOUS
<1> USE <1>0
<1> DEFINE rest == [j \in 0 .. KeyLen - 1 |-> IF j < node[n].len THEN node[n].partial[j + diff[t] + 1]
                                                                 ELSE node[n].partial[j]]
<1>1. /\ pc[t] = "shortenPartial" /\ pc'[t] = "position" /\ t \in made /\ n \in Nodes
      /\ key' = key /\ made' = made /\ on' = on /\ depth' = depth /\ diff' = diff /\ todo' = todo
      /\ todo[t] = <<key[t]>>
  BY CalmFacts DEF ShortenPartial, Goto, TypesOK, locals, path, hand, Knows, Splits
<1>2. Splitting(t) /\ Splitting(t)' /\ Len(todo[t]) = 1
  <2>1. Len(<<key[t]>>) = 1
    OBVIOUS
  <2>2. QED
    BY <1>1, <2>1 DEF Splitting, Adding
<1>3. /\ n \in Live /\ t \in Live /\ t # n
      /\ depth[t] \in Nat /\ diff[t] \in Nat /\ c.to[n] \in Nat /\ c.to[n] < KeyLen
      /\ c.from[n] = depth[t] + diff[t] + 1 /\ c.from[n] <= c.to[n]
      /\ node[n] \in NodeRecords
  BY <1>1, <1>2, OldPrefix
<1>4. /\ HalfShortened(t) /\ ~HalfShortened(t)' /\ ~Unshortened(t)'
      /\ ~Waiting(t) /\ ~Waiting(t)' /\ ~HasPut(t) /\ ~HasPut(t)'
  BY <1>1, <1>2 DEF Unshortened, Waiting, HasPut, HalfShortened
<1>5. LenFrom(c, n, c.from[n]) /\ PartialFrom(c, n, depth[t])
  BY <1>4, CalmFacts DEF Knows, Splits
<1>6. node[n].partial \in [0 .. KeyLen - 1 -> Nat] /\ node[n].len = c.to[n] - c.from[n]
  BY <1>3, <1>5, Fields DEF LenFrom
<1>7. /\ node'[n] = [node[n] EXCEPT !.partial = rest]
      /\ \A q \in Nodes \ {n} : node'[q] = node[q]
      /\ node' = [q \in Nodes |-> node'[q]]
  <2>1. node' = [node EXCEPT ![n].partial = Rest(n, diff[t])]
    BY DEF ShortenPartial
  <2>2. node = [q \in Nodes |-> node[q]] /\ n \in Nodes
    BY <1>1, CalmFacts DEF TypesOK
  <2>3. Rest(n, diff[t]) = rest
    BY <1>6 DEF Rest
  <2> HIDE DEF rest
  <2>4. QED
    BY <2>1, <2>2, <2>3
<1>8. rest \in [0 .. KeyLen - 1 -> Nat]
  <2>1. \A j \in 0 .. KeyLen - 1 : j < node[n].len => j + diff[t] + 1 \in 0 .. KeyLen - 1
    <3> DEFINE e == diff[t]  f == depth[t]  h == c.to[n]  g == c.from[n]
    <3>1. e \in Nat /\ f \in Nat /\ h \in Nat /\ h < KeyLen /\ g = f + e + 1 /\ node[n].len = h - g
      BY <1>3, <1>6
    <3> HIDE DEF e, f, h, g
    <3>2. SUFFICES ASSUME NEW j \in 0 .. KeyLen - 1, j < node[n].len
                   PROVE  j + e + 1 \in 0 .. KeyLen - 1
      BY DEF e
    <3>3. QED
      BY <3>1, <3>2, Numbers
  <2>2. QED
    BY <1>6, <2>1
<1>9. \A j \in 0 .. c.to[n] - c.from[n] - 1 : rest[j] = ByteOf[c.sample[n]][c.from[n] + j]
  <2>1. SUFFICES ASSUME NEW j \in 0 .. c.to[n] - c.from[n] - 1
                 PROVE  rest[j] = ByteOf[c.sample[n]][c.from[n] + j]
    OBVIOUS
  <2>2. j \in 0 .. KeyLen - 1 /\ j < node[n].len /\ j + diff[t] + 1 \in 0 .. c.to[n] - depth[t] - 1
        /\ depth[t] + (j + diff[t] + 1) = c.from[n] + j
    <3> DEFINE e == diff[t]  f == depth[t]  h == c.to[n]  g == c.from[n]
    <3>1. /\ e \in Nat /\ f \in Nat /\ h \in Nat /\ h < KeyLen /\ g = f + e + 1 /\ node[n].len = h - g
          /\ j \in 0 .. h - g - 1
      BY <1>3, <1>6
    <3> HIDE DEF e, f, h, g
    <3>2. j \in 0 .. KeyLen - 1 /\ j < node[n].len /\ j + e + 1 \in 0 .. h - f - 1 /\ f + (j + e + 1) = g + j
      BY <3>1, Numbers
    <3>3. QED
      BY <3>2 DEF e, f, h, g
  <2>3. node[n].partial[j + diff[t] + 1] = ByteOf[c.sample[n]][depth[t] + (j + diff[t] + 1)]
    BY <1>5, <2>2 DEF PartialFrom
  <2>4. QED
    BY <2>2, <2>3
<1> HIDE DEF rest
<1>10. node'[n].partial = rest /\ node'[n].len = node[n].len /\ SameCells(n)
  BY <1>3, <1>7 DEF NodeRecords, SameCells
<1>11. node' \in [Nodes -> NodeRecords]
  <2>1. node'[n] \in NodeRecords
    BY <1>3, <1>7, <1>8 DEF NodeRecords
  <2>2. \A q \in Nodes : node'[q] \in NodeRecords
    BY <1>7, <2>1, CalmFacts DEF TypesOK
  <2>3. QED
    BY <1>7, <2>2
<1>12. Apart(t)
  BY StepApart, CalmFacts, Names DEF InsertStep
<1>13. Prefixing(c, t, n)
  BY <1>1, <1>4, <1>7, <1>10, <1>12 DEF Prefixing
<1>14. PrefixOK(c, n)'
  <2>1. (LenFrom(c, n, c.from[n]) /\ PartialFrom(c, n, c.from[n]))'
    BY <1>1, <1>6, <1>9, <1>10 DEF LenFrom, PartialFrom
  <2>2. QED
    BY <2>1 DEF PrefixOK
<1>15. Splits(c, t)'
  <2>1. Splits(c, t)
    BY CalmFacts DEF Knows
  <2>2. QED
    BY <1>1, <1>2, <1>4, <2>1 DEF Splits, ByteIn
<1>16. Adds(c, t)'
  <2>1. Into(t)' = t
    BY <1>1 DEF Into
  <2>2. \A u \in Inserters : ~(Adding(u) /\ Into(u) = t)
    <3>1. SUFFICES ASSUME NEW u \in Inserters, Adding(u), Into(u) = t PROVE FALSE
      OBVIOUS
    <3>2. u # t
      BY <1>1, <3>1 DEF Adding
    <3>3. on[u] = t /\ ~Ended(u) /\ pc[u] # "start"
      BY <3>1, <3>2 DEF Into, Adding, Ended
    <3>4. QED
      BY <1>2, <3>2, <3>3, NoMeeting, CalmFacts DEF AddsTo
  <2>3. Filled(c, t, Upto(node[t].count))
    BY <1>3, <2>2, CalmFacts DEF CellsOK
  <2>4. SameCells(t) /\ (\A D : Filled(c, t, D) => Filled(c, t, D)')
    BY <1>3, <1>13, PrefixingCells
  <2>5. Filled(c, t, Upto(node[t].count))'
    BY <2>3, <2>4 DEF SameCells
  <2>6. QED
    BY <1>1, <2>1, <2>5 DEF Adds
<1>17. Knows(c, t)'
  BY <1>1, <1>15, <1>16 DEF Knows, Descends, Divides
<1>18. Charted(c)'
  BY <1>3, <1>13, <1>14, <1>17, PrefixingCharted
<1>19. QED
  BY <1>11, <1>18

-------------------------------------------------------------------------------
(* A step of an insert that writes to the cells of node n.                 *)
Stores(c, d, t, n) ==
  /\ d \in Charts /\ d.from = c.from /\ d.to = c.to /\ d.sample = c.sample
  /\ \A p \in Things \ {key[t]} : d.up[p] = c.up[p]
  /\ \/ d.up[key[t]] = c.up[key[t]] /\ (HasPut(t)' <=> HasPut(t))
     \/ d.up[key[t]] = n /\ HasPut(t)' /\ c.up[key[t]] = Null /\ Under(d, key[t], n)

Celling(c, d, t, n) ==
  /\ Calm(c) /\ t \in Inserters /\ Apart(t) /\ made' = made
  /\ Adding(t) /\ n = Into(t)
  /\ \A q \in Nodes \ {n} : node'[q] = node[q]
  /\ SamePrefix(n)
  /\ pc'[t] \notin {"setLen", "setPartial"} /\ (Adding(t)' => Into(t)' = n)
  /\ Unshortened(t) => Unshortened(t)' /\ on'[t] = on[t]
  /\ Stores(c, d, t, n)

LEMMA CellingFacts ==
  ASSUME NEW c, NEW d, NEW t, NEW n, Celling(c, d, t, n)
  PROVE  /\ n \in Live /\ n \in Nodes /\ n # Null /\ Live' = Live /\ Live \subseteq Nodes
         /\ Keeps(c, d) /\ d \in Charts /\ key[t] \in Keys /\ key' = key
         /\ ~Ended(t) /\ (t \in made => n = t) /\ (t \notin made => n = on[t])
         /\ \A p \in Things : /\ c.up[p] # Null => d.up[p] = c.up[p]
                              /\ d.up[p] # c.up[p] => d.up[p] = n /\ p = key[t]
<1>1. Calm(c) /\ t \in Inserters /\ Apart(t) /\ made' = made /\ Adding(t) /\ n = Into(t)
  BY DEF Celling
<1>2. n \in Live
  BY <1>1, CalmFacts DEF Knows, Adds, Led, Into, Live
<1>3. Live \subseteq Nodes /\ key[t] \in Keys
  BY <1>1, CalmFacts
<1>4. Live' = Live
  BY <1>1 DEF Live
<1>5. Stores(c, d, t, n)
  BY DEF Celling
<1>6. Keeps(c, d)
  BY <1>4, <1>5 DEF Keeps, Stores
<1>7. \A p \in Things : /\ c.up[p] # Null => d.up[p] = c.up[p]
                        /\ d.up[p] # c.up[p] => d.up[p] = n /\ p = key[t]
  BY <1>5 DEF Stores
<1>8. ~Ended(t) /\ key' = key
  BY <1>1 DEF Adding, Ended, Apart
<1>9. n \in Nodes /\ n # Null
  BY <1>2, <1>3, Names
<1>10. d \in Charts
  BY <1>5 DEF Stores
<1>11. QED
  BY <1>1, <1>2, <1>3, <1>4, <1>6, <1>7, <1>8, <1>9, <1>10 DEF Into

(* The other inserts are elsewhere.                                        *)
LEMMA CellingApart ==
  ASSUME NEW c, NEW d, NEW t, NEW n, Celling(c, d, t, n), NEW u \in Inserters, u # t
  PROVE  /\ Unmoved(u) /\ Knows(c, u) /\ u \in Nodes
         /\ ~Ended(u) /\ pc[u] # "start" => on[u] # n
         /\ Replacing(u) \/ pc[u] \in {"version", "prefix"} => Parent(u) # n
         /\ Adding(u) => Into(u) # n
         /\ Splitting(u) => u # n
<1>1. Calm(c) /\ t \in Inserters /\ Apart(t) /\ Adding(t) /\ n = Into(t)
  BY DEF Celling
<1>2. /\ ~Ended(t) /\ (t \in made => n = t) /\ (t \notin made => n = on[t])
  BY CellingFacts
<1>3. AddsTo(t, n)
  BY <1>1 DEF AddsTo
<1>4. ~Meeting
  BY <1>1, CalmFacts
<1>5. /\ ~Ended(u) /\ pc[u] # "start" => on[u] # n
      /\ Replacing(u) \/ pc[u] \in {"version", "prefix"} => Parent(u) # n
  <2>1. Replacing(u) \/ pc[u] \in {"version", "prefix"} => ~Ended(u)
    BY DEF Replacing, Ended
  <2>2. QED
    BY <1>1, <1>3, <1>4, <2>1, NoMeeting
<1>6. Adding(u) => Into(u) # n
  BY <1>1, <1>4, OneAdds
<1>7. Splitting(u) => u # n
  <2>1. SUFFICES ASSUME Splitting(u), u = n PROVE FALSE
    OBVIOUS
  <2>2. on[t] = u
    BY <1>2, <2>1
  <2>3. AddsTo(u, on[t])
    BY <2>1, <2>2 DEF AddsTo
  <2>4. QED
    BY <1>1, <1>2, <1>4, <2>3, NoMeeting DEF Adding
<1>8. Unmoved(u) /\ Knows(c, u) /\ u \in Nodes
  BY <1>1, CalmFacts, Names DEF Apart
<1>9. QED
  BY <1>5, <1>6, <1>7, <1>8

LEMMA CellingInCells ==
  ASSUME NEW c, NEW d, NEW t, NEW n, Celling(c, d, t, n), NEW q \in Live, q # n
  PROVE  /\ InCells(d, q)' = InCells(c, q)
         /\ SameCells(q)
         /\ \A D : Filled(c, q, D) => Filled(d, q, D)'
<1>1. /\ n \in Nodes /\ n # Null /\ Live \subseteq Nodes /\ Keeps(c, d) /\ d \in Charts
      /\ (t \in made => n = t)
      /\ \A p \in Things : /\ c.up[p] # Null => d.up[p] = c.up[p]
                           /\ d.up[p] # c.up[p] => d.up[p] = n /\ p = key[t]
  BY CellingFacts
<1>2. /\ Calm(c) /\ t \in Inserters /\ made' = made
      /\ \A m \in Nodes \ {n} : node'[m] = node[m]
  BY DEF Celling
<1>3. q \in Nodes /\ q # Null
  BY <1>1, Names
<1>4. \A p \in Things : d.up[p] = q <=> c.up[p] = q
  BY <1>1, <1>3
<1>5. CASE q = t
  <2>1. ~Waiting(t) /\ ~Waiting(t)'
    BY <1>1, <1>2, <1>5 DEF Waiting
  <2>2. InCells(d, q)' = InCells(c, q)
    BY <1>4, <1>5, <2>1 DEF InCells
  <2> HIDE <1>5
  <2>3. QED
    <3>1. SameCells(q)
      BY <1>2, <1>3 DEF SameCells
    <3>2. QED
      BY <1>1, <1>2, <2>2, <3>1, CalmFacts, FilledKept
<1>6. CASE q # t
  <2>1. q \in Inserters => (Waiting(q)' <=> Waiting(q)) /\ on'[q] = on[q]
    BY <1>6, CellingApart, UnmovedSame DEF Unmoved
  <2>2. InCells(d, q)' = InCells(c, q)
    BY <1>4, <2>1 DEF InCells
  <2>3. SameCells(q)
    BY <1>2, <1>3 DEF SameCells
  <2>4. QED
    BY <1>1, <1>2, <2>2, <2>3, CalmFacts, FilledKept
<1>7. QED
  BY <1>5, <1>6

LEMMA CellingTree ==
  ASSUME NEW c, NEW d, NEW t, NEW n, Celling(c, d, t, n)
  PROVE  IsTree(d)'
<1>1. /\ n \in Nodes /\ n \in Live /\ n # Null /\ Live \subseteq Nodes /\ Live' = Live /\ d \in Charts
      /\ key[t] \in Keys /\ key' = key
      /\ \A p \in Things : /\ c.up[p] # Null => d.up[p] = c.up[p]
                           /\ d.up[p] # c.up[p] => d.up[p] = n /\ p = key[t]
  BY CellingFacts
<1>2. Calm(c) /\ t \in Inserters /\ IsTree(c) /\ KeysOK /\ Stores(c, d, t, n)
  BY CalmFacts DEF Celling
<1>3. Nodes \subseteq Things /\ Keys \subseteq Things /\ key[t] \notin Nodes
  BY <1>1, Names
<1>4. \A q \in Nodes : d.up[q] = c.up[q]
  BY <1>1, <1>3
<1>5. d.from = c.from /\ d.to = c.to /\ d.sample = c.sample
  BY <1>2 DEF Stores
<1>6. \A p \in Things : d.up[p] # Null => Under(d, p, d.up[p])
  <2>1. SUFFICES ASSUME NEW p \in Things, d.up[p] # Null PROVE Under(d, p, d.up[p])
    OBVIOUS
  <2>2. CASE d.up[p] = c.up[p]
    <3>1. Under(c, p, c.up[p])
      BY <1>2, <2>1, <2>2 DEF IsTree
    <3>2. QED
      BY <1>5, <2>2, <3>1 DEF Under
  <2>3. CASE d.up[p] # c.up[p]
    <3>1. p = key[t] /\ d.up[p] = n
      BY <1>1, <2>3
    <3>2. Under(d, key[t], n)
      BY <1>2, <2>3, <3>1 DEF Stores
    <3>3. QED
      BY <3>1, <3>2
  <2>4. QED
    BY <2>2, <2>3
<1>7. \A p, q : Under(d, p, q)' = Under(d, p, q)
  BY <1>1 DEF Under
<1>8. \A u \in Inserters \ {t} : HasPut(u)' <=> HasPut(u)
  BY CellingApart, UnmovedSame
<1>9. \A k \in Keys : d.up[k] # Null <=> k \in Loaded \/ \E u \in Inserters : key[u] = k /\ HasPut(u)'
  <2>1. SUFFICES ASSUME NEW k \in Keys
                 PROVE  d.up[k] # Null <=> k \in Loaded \/ \E u \in Inserters : key[u] = k /\ HasPut(u)'
    OBVIOUS
  <2>2. c.up[k] # Null <=> k \in Loaded \/ \E u \in Inserters : key[u] = k /\ HasPut(u)
    BY <1>2 DEF IsTree
  <2>3. CASE d.up[k] = c.up[k]
    <3>1. (\E u \in Inserters : key[u] = k /\ HasPut(u)) <=> (\E u \in Inserters : key[u] = k /\ HasPut(u)')
      <4>1. key[t] = k => (HasPut(t)' <=> HasPut(t))
        BY <1>1, <1>2, <2>3 DEF Stores
      <4>2. QED
        BY <1>8, <4>1
    <3>2. QED
      BY <2>2, <2>3, <3>1
  <2>4. CASE d.up[k] # c.up[k]
    <3>1. k = key[t] /\ d.up[k] = n
      BY <1>1, <1>3, <2>4
    <3>2. HasPut(t)'
      BY <1>2, <2>4, <3>1 DEF Stores
    <3>3. QED
      BY <1>1, <1>2, <3>1, <3>2
  <2>5. QED
    BY <2>3, <2>4
<1>10. (\A k \in Keys : d.up[k] # Null <=> k \in Loaded \/ \E u \in Inserters : key[u] = k /\ HasPut(u))'
  BY <1>1, <1>9
<1>11. /\ Root \in Live' /\ d.up[Root] = Null /\ d.from[Root] = 0 /\ d.to[Root] = 0
       /\ \A q \in Nodes \ Live' : d.up[q] = Null
       /\ \A q \in Live' : d.from[q] <= d.to[q] /\ d.to[q] < KeyLen
       /\ \A q \in Live' \ {Root} : d.up[q] # Null
       /\ \A k \in Keys : d.sample[k] = k
  BY <1>1, <1>2, <1>4, <1>5, Names DEF IsTree
<1>12. (\A p \in Things : d.up[p] # Null => Under(d, p, d.up[p]))'
  BY <1>6, <1>7
<1>13. QED
  BY <1>10, <1>11, <1>12 DEF IsTree

LEMMA CellingOthers ==
  ASSUME NEW c, NEW d, NEW t, NEW n, Celling(c, d, t, n), NEW u \in Inserters, u # t
  PROVE  Knows(d, u)'
<1>1. /\ n \in Nodes /\ n \in Live /\ n # Null /\ Live \subseteq Nodes /\ Live' = Live /\ d \in Charts
      /\ Keeps(c, d) /\ key' = key
      /\ \A p \in Things : /\ c.up[p] # Null => d.up[p] = c.up[p]
                           /\ d.up[p] # c.up[p] => d.up[p] = n /\ p = key[t]
  BY CellingFacts
<1>2. /\ Unmoved(u) /\ Knows(c, u) /\ u \in Nodes
      /\ ~Ended(u) /\ pc[u] # "start" => on[u] # n
      /\ Replacing(u) \/ pc[u] \in {"version", "prefix"} => Parent(u) # n
      /\ Adding(u) => Into(u) # n
      /\ Splitting(u) => u # n
  BY CellingApart
<1>3. TypesOK /\ c \in Charts /\ IsTree(c) /\ d.from = c.from /\ SamePrefix(n)
      /\ \A q \in Nodes \ {n} : node'[q] = node[q]
  BY CalmFacts DEF Celling, Stores
<1>4. pc[u] \in {"version", "prefix"} \/ Replacing(u) => on[u] = Root \/ CellLeads(d, u)'
  <2>1. SUFFICES ASSUME pc[u] \in {"version", "prefix"} \/ Replacing(u), on[u] # Root
                 PROVE  CellLeads(d, u)'
    OBVIOUS
  <2>2. CellLeads(c, u)
    BY <1>2, <2>1 DEF Knows, Descends, Divides, Replacing
  <2>3. Parent(u) \in Nodes /\ node'[Parent(u)] = node[Parent(u)]
    BY <1>1, <1>2, <1>3, <2>1, <2>2 DEF CellLeads
  <2>4. on[u] \in Things
    <3>1. on[u] \in Live \/ on[u] \in Keys
      BY <1>2, <2>1 DEF Knows, Descends, Divides, Replacing, Led
    <3>2. QED
      BY <1>1, <3>1, Names
  <2>5. d.up[on[u]] = c.up[on[u]]
    BY <1>1, <2>2, <2>3, <2>4, Names DEF CellLeads
  <2>6. QED
    BY <1>1, <1>2, <2>2, <2>3, <2>5 DEF CellLeads, Parent, Unmoved
<1>5. pc[u] \in {"load", "lockParent", "lock"} => SameKeys(on[u])
  <2>1. SUFFICES ASSUME pc[u] \in {"load", "lockParent", "lock"} PROVE SameKeys(on[u])
    OBVIOUS
  <2>2. on[u] \in Live /\ on[u] # n
    BY <1>2, <2>1 DEF Knows, Descends, Led, Ended
  <2>3. QED
    BY <1>1, <1>3, <2>2 DEF SameKeys
<1>6. Splitting(u) => /\ d.up[on[u]] = c.up[on[u]] /\ d.from[u] = c.from[u]
                      /\ ~HasPut(u) => \A p \in Things : d.up[p] = u => c.up[p] = u
                      /\ on[u] \in Nodes => SamePrefix(on[u]) /\ d.from[on[u]] = c.from[on[u]]
  <2>1. SUFFICES ASSUME Splitting(u)
                 PROVE  /\ d.up[on[u]] = c.up[on[u]]
                        /\ \A p \in Things : d.up[p] = u => c.up[p] = u
                        /\ on[u] \in Nodes => SamePrefix(on[u])
    BY <1>3
  <2>2. on[u] \in Things /\ c.up[on[u]] = u /\ u # Null
    BY <1>2, <2>1, Names DEF Knows, Splits
  <2>3. on[u] \in Nodes => SamePrefix(on[u])
    <3>1. CASE on[u] = n
      BY <1>3, <3>1
    <3>2. CASE on[u] # n
      BY <1>3, <3>2 DEF SamePrefix
    <3>3. QED
      BY <3>1, <3>2
  <2>4. QED
    BY <1>1, <1>2, <2>1, <2>2, <2>3
<1>7. pc[u] \in {"setLen", "setPartial"} => node'[u] = node[u]
  BY <1>2, <1>3 DEF Knows, Splits, Splitting
<1>8. Adding(u) => SameCells(Into(u)) /\ InCells(d, Into(u))' = InCells(c, Into(u))
  <2>1. SUFFICES ASSUME Adding(u) PROVE SameCells(Into(u)) /\ InCells(d, Into(u))' = InCells(c, Into(u))
    OBVIOUS
  <2>2. Into(u) \in Live
    BY <1>2, <2>1 DEF Knows, Adds, Led, Into, Live
  <2>3. PICK q \in Live : q = Into(u) /\ Into(u)' = q /\ q # n
    BY <1>2, <2>1, <2>2, UnmovedSame
  <2>4. QED
    BY <2>3, CellingInCells
<1>9. QED
  BY <1>1, <1>2, <1>3, <1>4, <1>5, <1>6, <1>7, <1>8, KnowsKept

LEMMA CellingCharted ==
  ASSUME NEW c, NEW d, NEW t, NEW n, Celling(c, d, t, n), Knows(d, t)', CellsOK(d, n)'
  PROVE  Charted(d)'
<1>1. /\ n \in Nodes /\ n \in Live /\ Live \subseteq Nodes /\ Live' = Live
  BY CellingFacts
<1>2. /\ Calm(c) /\ t \in Inserters /\ d.from = c.from /\ d.to = c.to /\ d.sample = c.sample /\ SamePrefix(n)
      /\ \A q \in Nodes \ {n} : node'[q] = node[q]
      /\ Adding(t) /\ Into(t) = n
      /\ pc'[t] \notin {"setLen", "setPartial"} /\ (Unshortened(t) => Unshortened(t)' /\ on'[t] = on[t])
  BY DEF Celling, Stores
<1>3. ASSUME NEW q \in Live, q # n PROVE CellsOK(d, q)'
  <2>1. SUFFICES ASSUME (\A u \in Inserters : ~(Adding(u) /\ Into(u) = q))'
                 PROVE  Filled(d, q, Upto(node[q].count))'
    BY DEF CellsOK
  <2>2. \A u \in Inserters : ~(Adding(u) /\ Into(u) = q)
    <3>1. SUFFICES ASSUME NEW u \in Inserters, u # t PROVE ~(Adding(u) /\ Into(u) = q)
      BY <1>2, <1>3
    <3>2. Unmoved(u)
      BY <3>1, CellingApart
    <3>3. QED
      BY <2>1, <3>2, UnmovedSame
  <2>3. Filled(c, q, Upto(node[q].count))
    BY <1>2, <2>2, CalmFacts DEF CellsOK
  <2>4. SameCells(q) /\ (\A D : Filled(c, q, D) => Filled(d, q, D)')
    BY <1>3, CellingInCells
  <2>5. QED
    BY <2>3, <2>4 DEF SameCells
<1>4. ASSUME NEW q \in Live PROVE PrefixOK(d, q)'
  <2>1. SUFFICES ASSUME (\A u \in Inserters : /\ ~(pc[u] \in {"setLen", "setPartial"} /\ u = q)
                                              /\ ~((Unshortened(u) \/ HalfShortened(u)) /\ on[u] = q))'
                 PROVE  (LenFrom(d, q, d.from[q]) /\ PartialFrom(d, q, d.from[q]))'
    BY DEF PrefixOK
  <2>2. ASSUME NEW u \in Inserters
        PROVE  /\ ~(pc[u] \in {"setLen", "setPartial"} /\ u = q)
               /\ ~((Unshortened(u) \/ HalfShortened(u)) /\ on[u] = q)
    <3>1. CASE u = t
      BY <1>2, <2>1, <3>1 DEF Adding, HalfShortened
    <3>2. CASE u # t
      <4>1. Unmoved(u)
        BY <3>2, CellingApart
      <4>2. QED
        BY <2>1, <4>1, UnmovedSame DEF Unmoved
    <3>3. QED
      BY <3>1, <3>2
  <2>3. LenFrom(c, q, c.from[q]) /\ PartialFrom(c, q, c.from[q])
    BY <1>2, <2>2, CalmFacts DEF PrefixOK
  <2>4. SamePrefix(q)
    BY <1>1, <1>2 DEF SamePrefix
  <2>5. QED
    BY <1>2, <2>3, <2>4 DEF LenFrom, PartialFrom, SamePrefix
<1>5. \A u \in Inserters : Knows(d, u)'
  BY CellingOthers
<1>6. IsTree(d)'
  BY CellingTree
<1>7. QED
  BY <1>1, <1>3, <1>4, <1>5, <1>6 DEF Charted

(* An insert at work on the cells of n.                                    *)
LEMMA AddingFacts ==
  ASSUME NEW c, Calm(c), NEW t \in Inserters, Adding(t), NEW n, n = Into(t)
  PROVE  /\ n \in Live /\ n \in Nodes /\ node[n] \in NodeRecords
         /\ node[n].keys \in [Cells -> Nat] /\ node[n].children \in [Cells -> Pointers]
         /\ node[n].count \in Nat
         /\ Bytes(key[t], c.sample[n], c.to[n])
         /\ todo[t] \in {<<key[t]>>, <<on[t], key[t]>>} /\ (Len(todo[t]) = 2 => t \in made)
         /\ Len(todo[t]) \in {1, 2}
         /\ Len(todo[t]) = 1 => Head(todo[t]) = key[t]
         /\ Len(todo[t]) = 2 => Head(todo[t]) = on[t] /\ Tail(todo[t]) = <<key[t]>>
         /\ t \in made => n = t /\ Splitting(t) /\ on[t] \in Things /\ c.up[on[t]] = t
         /\ t \notin made => n = on[t]
         /\ key[t] \in Keys /\ Head(todo[t]) \in Things /\ c.sample[Head(todo[t])] \in Keys
<1>1. /\ n \in Live /\ (t \in made => n = t) /\ (t \notin made => n = on[t])
  BY CalmFacts DEF Knows, Adds, Led, Into, Live
<1>2. n \in Nodes /\ node[n] \in NodeRecords /\ key[t] \in Keys /\ Knows(c, t)
  BY <1>1, CalmFacts
<1>3. t \in made => Splitting(t) /\ on[t] \in Things /\ c.up[on[t]] = t
  BY <1>2 DEF Splitting, Knows, Splits
<1>4. Bytes(key[t], c.sample[n], c.to[n])
  BY <1>1, <1>2, <1>3 DEF Knows, Splits, Adds, Led
<1>5. todo[t] \in {<<key[t]>>, <<on[t], key[t]>>} /\ (todo[t] = <<on[t], key[t]>> => t \in made)
  BY NextThing, CalmFacts
<1>6. /\ Len(<<key[t]>>) = 1 /\ Head(<<key[t]>>) = key[t]
      /\ Len(<<on[t], key[t]>>) = 2 /\ Head(<<on[t], key[t]>>) = on[t]
      /\ Tail(<<on[t], key[t]>>) = <<key[t]>>
  OBVIOUS
<1>7. Head(todo[t]) \in Things
  BY <1>2, <1>3, <1>5, <1>6, Names
<1>8. /\ node[n].keys \in [Cells -> Nat] /\ node[n].children \in [Cells -> Pointers]
      /\ node[n].count \in Nat
  BY <1>2, Fields
<1>9. /\ (Len(todo[t]) = 2 => t \in made)
      /\ Len(todo[t]) \in {1, 2}
      /\ Len(todo[t]) = 1 => Head(todo[t]) = key[t]
      /\ Len(todo[t]) = 2 => Head(todo[t]) = on[t] /\ Tail(todo[t]) = <<key[t]>>
  <2>1. CASE todo[t] = <<key[t]>>
    BY <1>6, <2>1
  <2>2. CASE todo[t] = <<on[t], key[t]>>
    BY <1>5, <1>6, <2>2
  <2>3. QED
    BY <1>5, <2>1, <2>2
<1>10. c.sample[Head(todo[t])] \in Keys
  BY <1>7, CalmFacts
<1>11. QED
  BY <1>1, <1>2, <1>3, <1>4, <1>5, <1>7, <1>8, <1>9, <1>10

(* What an insert that adds knows of the split, after a change of cells.   *)
LEMMA SplitsKept ==
  ASSUME NEW c, NEW d, NEW t, NEW n, Celling(c, d, t, n), on' = on, depth' = depth, diff' = diff,
         todo' = todo, pc'[t] \in {"put", "count"}
  PROVE  Splits(d, t)'
<1>1. /\ Calm(c) /\ t \in Inserters /\ Adding(t) /\ n = Into(t) /\ SamePrefix(n) /\ made' = made
      /\ \A q \in Nodes \ {n} : node'[q] = node[q]
      /\ d.from = c.from /\ d.to = c.to /\ d.sample = c.sample /\ key' = key
  BY CellingFacts DEF Celling, Stores
<1>2. Splits(c, t) /\ Adding(t)'
  BY <1>1, CalmFacts DEF Knows, Adding
<1>3. (Splitting(t)' <=> Splitting(t)) /\ (Unshortened(t)' <=> Unshortened(t)) /\ ~HalfShortened(t)'
  BY <1>1, <1>2 DEF Splitting, Unshortened, HalfShortened, Adding
<1>4. ASSUME Splitting(t)
      PROVE  d.up[on[t]] = t /\ (~HasPut(t)' => \A p \in Things : d.up[p] = t => p = on[t])
  <2>1. on[t] \in Things /\ c.up[on[t]] = t /\ t # Null
    BY <1>1, <1>2, <1>4, Names DEF Splits
  <2>2. d.up[on[t]] = t
    BY <2>1, CellingFacts
  <2>3. ASSUME ~HasPut(t)' PROVE \A p \in Things : d.up[p] = t => p = on[t]
    <3>1. /\ d.up[key[t]] = c.up[key[t]] /\ ~HasPut(t)
          /\ \A p \in Things \ {key[t]} : d.up[p] = c.up[p]
      BY <2>3 DEF Celling, Stores
    <3>2. \A p \in Things : c.up[p] = t => p = on[t]
      BY <1>2, <1>4, <3>1 DEF Splits
    <3>3. QED
      BY <3>1, <3>2
  <2>4. QED
    BY <2>2, <2>3
<1>5. on[t] \in Nodes => SamePrefix(on[t])
  BY <1>1 DEF SamePrefix
<1>6. (Unshortened(t) => LenFrom(d, on[t], depth[t]) /\ PartialFrom(d, on[t], depth[t]))'
  <2>1. Unshortened(t) => on[t] \in Nodes /\ LenFrom(c, on[t], depth[t]) /\ PartialFrom(c, on[t], depth[t])
    BY <1>2 DEF Splits, Unshortened
  <2>2. QED
    BY <1>1, <1>3, <1>5, <2>1 DEF LenFrom, PartialFrom, SamePrefix
<1>7. (Splitting(t) =>
       /\ on[t] \in Things /\ d.up[on[t]] = t
       /\ todo[t] \in {<<on[t], key[t]>>, <<key[t]>>}
       /\ depth[t] = d.from[t] /\ depth[t] + diff[t] = d.to[t]
       /\ Bytes(key[t], d.sample[t], d.to[t])
       /\ ByteOf[key[t]][d.to[t]] # ByteIn(d, on[t], t)
       /\ ~HasPut(t) => \A p \in Things : d.up[p] = t => p = on[t])'
  BY <1>1, <1>2, <1>3, <1>4 DEF Splits, ByteIn
<1>8. QED
  BY <1>3, <1>6, <1>7 DEF Splits

(* What t makes of its node.                                               *)
LEMMA NodeChanged ==
  ASSUME TypesOK, NEW n \in Nodes, NEW r \in NodeRecords, node' = [node EXCEPT ![n] = r]
  PROVE  node' \in [Nodes -> NodeRecords] /\ node'[n] = r /\ \A q \in Nodes \ {n} : node'[q] = node[q]
BY DEF TypesOK

(* What adding to a node does to the cells.                                *)
Fits(t) ==
  LET n == Into(t) IN
  /\ \A q \in Nodes \ {n} : node'[q] = node[q]
  /\ node[n].count <= node'[n].count
  /\ CellsLead => \A j \in Upto(node'[n].count) : node'[n].children[j] # Root

LEMMA ShiftCharted ==
  ASSUME NEW c, Calm(c), NEW t \in Inserters, Shift(t)
  PROVE  Charted(c)' /\ node' \in [Nodes -> NodeRecords] /\ ~crashed' /\ Fits(t)
<1>0. PICK n : n = Into(t)
  OBVIOUS
<1> DEFINE m == node[n].count
           x == i[t]
           b == byte[t]
           shifted(cells) == [j \in Cells |-> IF j \in x + 1 .. m THEN cells[j - 1] ELSE cells[j]]
           K == node[n].keys
           C == node[n].children
<1>1. /\ pc[t] = "shift" /\ pc'[t] = "put" /\ key' = key /\ made' = made /\ on' = on /\ depth' = depth
      /\ diff' = diff /\ todo' = todo /\ i' = i /\ byte' = byte /\ Adding(t) /\ Adding(t)'
      /\ Into(t)' = n
  BY <1>0, CalmFacts DEF Shift, Goto, TypesOK, locals, path, hand, Adding, Into
<1>2. /\ n \in Live /\ n \in Nodes /\ node[n] \in NodeRecords
      /\ K \in [Cells -> Nat] /\ C \in [Cells -> Pointers] /\ m \in Nat
      /\ (t \in made => n = t) /\ (t \notin made => n = on[t])
  BY <1>0, <1>1, AddingFacts
<1>3. /\ Filled(c, n, Upto(m)) /\ m < Room /\ x \in 0 .. m /\ b = ByteIn(c, Head(todo[t]), n)
      /\ \A j \in Upto(x) : K[j] < b
      /\ \A j \in x .. m - 1 : K[j] > b
  BY <1>0, <1>1, CalmFacts DEF Knows, Adds
<1>4. x \in Nat /\ x <= m /\ m < 4
  BY <1>2, <1>3, Numbers
<1>5. ~crashed'
  <2>1. crashed' = (i[t] > node[Into(t)].count)
    BY DEF Shift
  <2>2. ~(i[t] > node[Into(t)].count)
    BY <1>0, <1>2, <1>4
  <2>3. QED
    BY <2>1, <2>2
<1>6. shifted(K) \in [Cells -> Nat] /\ shifted(C) \in [Cells -> Pointers]
  <2>1. \A j \in Cells : j \in x + 1 .. m => j - 1 \in Cells
    BY <1>2, <1>4, Numbers
  <2>2. QED
    BY <1>2, <2>1
<1>7. /\ node'[n].keys = shifted(K) /\ node'[n].children = shifted(C) /\ node'[n].count = m
      /\ SamePrefix(n) /\ node' \in [Nodes -> NodeRecords]
      /\ \A q \in Nodes \ {n} : node'[q] = node[q]
  <2> DEFINE r == [node[n] EXCEPT !.keys = shifted(K), !.children = shifted(C)]
  <2>1. node' = [node EXCEPT ![n].keys = shifted(@), ![n].children = shifted(@)]
    BY <1>0 DEF Shift
  <2>2. node' = [node EXCEPT ![n] = r]
    BY <1>2, <2>1, CalmFacts DEF TypesOK, NodeRecords
  <2>3. r \in NodeRecords
    BY <1>2, <1>6 DEF NodeRecords
  <2>4. /\ r.keys = shifted(K) /\ r.children = shifted(C) /\ r.count = m
        /\ r.len = node[n].len /\ r.partial = node[n].partial
    BY <1>2 DEF NodeRecords
  <2> HIDE DEF r, shifted
  <2>5. QED
    BY <1>2, <2>2, <2>3, <2>4, NodeChanged, CalmFacts DEF SamePrefix
<1>8. /\ \A j \in 0 .. m : j < x => node'[n].keys[j] = K[j] /\ node'[n].children[j] = C[j]
      /\ \A j \in 0 .. m : j > x => node'[n].keys[j] = K[j - 1] /\ node'[n].children[j] = C[j - 1]
  BY <1>2, <1>4, <1>7, Numbers
<1>20. \A j \in 0 .. m - 1 : \E l \in 0 .. m - 1 : node'[n].children[j] = C[l]
  BY <1>2, <1>4, <1>7, Numbers
<1>21. Fits(t)
  BY <1>0, <1>2, <1>7, <1>20 DEF Fits, CellsLead, Upto
<1> HIDE DEF m, x, b, K, C
<1>9. Celling(c, c, t, n)
  <2>1. Apart(t)
    BY StepApart, CalmFacts, Names DEF InsertStep
  <2>2. (HasPut(t)' <=> HasPut(t)) /\ (Unshortened(t) => Unshortened(t)')
    BY <1>1 DEF HasPut, Unshortened, Splitting
  <2>3. Stores(c, c, t, n)
    BY <2>2, CalmFacts DEF Stores
  <2>4. QED
    BY <1>0, <1>1, <1>7, <2>1, <2>2, <2>3 DEF Celling
<1>10. InCells(c, n)' = InCells(c, n)
  <2>1. n \in Inserters => (Waiting(n)' <=> Waiting(n)) /\ on'[n] = on[n]
    <3>1. Waiting(t)' <=> Waiting(t)
      BY <1>1 DEF Waiting
    <3>2. QED
      BY <1>1, <1>9, <3>1, CellingApart, UnmovedSame
  <2>2. QED
    BY <2>1 DEF InCells
<1>11. Filled(c, n, Gap(node[n].count, i[t]))'
  <2>1. Gap(node'[n].count, i'[t]) = (0 .. m) \ {x}
    BY <1>1, <1>7 DEF Gap, x
  <2>2. /\ \A j \in Upto(m) : C[j] \in InCells(c, n) /\ K[j] = ByteIn(c, C[j], n)
        /\ \A j, l \in Upto(m) : j < l => K[j] < K[l]
        /\ \A p \in InCells(c, n) : \E j \in Upto(m) : C[j] = p
    BY <1>3 DEF Filled, K, C
  <2>3. \A j \in (0 .. m) \ {x} : /\ node'[n].children[j] \in InCells(c, n)
                                  /\ node'[n].keys[j] = ByteIn(c, node'[n].children[j], n)
    <3>1. SUFFICES ASSUME NEW j \in 0 .. m, j # x
                   PROVE  /\ node'[n].children[j] \in InCells(c, n)
                          /\ node'[n].keys[j] = ByteIn(c, node'[n].children[j], n)
      OBVIOUS
    <3>2. CASE j < x
      <4>1. j \in Upto(m)
        BY <1>2, <1>4, <3>2 DEF Upto, m
      <4>2. QED
        BY <1>8, <2>2, <3>2, <4>1
    <3>3. CASE j > x
      <4>1. j - 1 \in Upto(m)
        BY <1>2, <1>4, <3>3 DEF Upto, m
      <4>2. QED
        BY <1>8, <2>2, <3>3, <4>1
    <3>4. QED
      BY <1>4, <3>1, <3>2, <3>3
  <2>4. \A j, l \in (0 .. m) \ {x} : j < l => node'[n].keys[j] < node'[n].keys[l]
    <3>1. SUFFICES ASSUME NEW j \in 0 .. m, NEW l \in 0 .. m, j # x, l # x, j < l
                   PROVE  node'[n].keys[j] < node'[n].keys[l]
      OBVIOUS
    <3>2. CASE l < x
      <4>1. j \in Upto(m) /\ l \in Upto(m) /\ j < x
        BY <1>2, <1>4, <3>1, <3>2 DEF Upto, m
      <4>2. QED
        BY <1>8, <2>2, <3>1, <3>2, <4>1
    <3>3. CASE l > x /\ j > x
      <4>1. j - 1 \in Upto(m) /\ l - 1 \in Upto(m) /\ j - 1 < l - 1
        BY <1>2, <1>4, <3>1, <3>3 DEF Upto, m
      <4>2. K[j - 1] < K[l - 1]
        BY <2>2, <4>1
      <4>3. QED
        BY <1>8, <3>3, <4>2
    <3>4. CASE l > x /\ j < x
      <4>1. j \in Upto(m) /\ l - 1 \in Upto(m) /\ j < l - 1
        BY <1>2, <1>4, <3>1, <3>4 DEF Upto, m
      <4>2. K[j] < K[l - 1]
        BY <2>2, <4>1
      <4>3. QED
        BY <1>8, <3>4, <4>2
    <3>5. QED
      BY <1>4, <3>1, <3>2, <3>3, <3>4
  <2>5. \A p \in InCells(c, n) : \E j \in (0 .. m) \ {x} : node'[n].children[j] = p
    <3>1. SUFFICES ASSUME NEW p \in InCells(c, n) PROVE \E j \in (0 .. m) \ {x} : node'[n].children[j] = p
      OBVIOUS
    <3>2. PICK j \in Upto(m) : C[j] = p
      BY <2>2
    <3>3. CASE j < x
      <4>1. j \in (0 .. m) \ {x} /\ node'[n].children[j] = p
        BY <1>2, <1>4, <1>8, <3>2, <3>3 DEF Upto, m
      <4>2. QED
        BY <4>1
    <3>4. CASE j >= x
      <4>1. j + 1 \in (0 .. m) \ {x} /\ j + 1 > x /\ (j + 1) - 1 = j
        BY <1>2, <1>4, <3>4 DEF Upto, m
      <4>2. node'[n].children[j + 1] = p
        BY <1>8, <3>2, <4>1
      <4>3. QED
        BY <4>1, <4>2
    <3>5. QED
      BY <1>2, <1>4, <3>3, <3>4 DEF Upto, m
  <2>6. QED
    BY <1>10, <2>1, <2>3, <2>4, <2>5 DEF Filled, ByteIn
<1>12. Adds(c, t)'
  <2>1. (t \notin made => Led(c, t, c.to[on[t]]) /\ diff[t] = 0 /\ todo[t] = <<key[t]>>)'
    BY <1>1, CalmFacts DEF Knows, Adds, Led, Live
  <2>2. (/\ i[t] \in 0 .. node[n].count /\ byte[t] = ByteIn(c, Head(todo[t]), n)
         /\ \A j \in Upto(i[t]) : node[n].keys[j] < byte[t]
         /\ \A j \in i[t] + 1 .. node[n].count : node[n].keys[j] > byte[t])'
    <3>1. \A j \in Upto(x) : node'[n].keys[j] < b
      BY <1>2, <1>3, <1>4, <1>8 DEF Upto, m
    <3>2. \A j \in x + 1 .. m : node'[n].keys[j] > b
      <4>1. SUFFICES ASSUME NEW j \in x + 1 .. m PROVE node'[n].keys[j] > b
        OBVIOUS
      <4>2. j \in 0 .. m /\ j > x /\ j - 1 \in x .. m - 1
        BY <1>2, <1>4 DEF m
      <4>3. QED
        BY <1>3, <1>8, <4>2
    <3>3. QED
      BY <1>1, <1>3, <1>7, <3>1, <3>2 DEF ByteIn, x, b
  <2>3. node'[n].count < Room
    BY <1>3, <1>7
  <2>4. QED
    BY <1>1, <1>11, <2>1, <2>2, <2>3 DEF Adds
<1>13. Knows(c, t)'
  <2>1. Splits(c, t)'
    BY <1>1, <1>9, SplitsKept
  <2>2. QED
    BY <1>1, <1>12, <2>1 DEF Knows, Descends, Divides
<1>14. CellsOK(c, n)'
  BY <1>1 DEF CellsOK
<1>15. QED
  BY <1>5, <1>7, <1>9, <1>13, <1>14, CellingCharted, <1>21

LEMMA PutCharted ==
  ASSUME NEW c, Calm(c), NEW t \in Inserters, Put(t)
  PROVE  (\E d \in Charts : Charted(d)' /\ Stores(c, d, t, Into(t))) /\ node' \in [Nodes -> NodeRecords] /\ Fits(t)
<1>0. PICK n : n = Into(t)
  OBVIOUS
<1>30. PICK p : p = Head(todo[t])
  OBVIOUS
<1> DEFINE m == node[n].count
           x == i[t]
           b == byte[t]
           K == node[n].keys
           C == node[n].children
<1>1. /\ pc[t] = "put" /\ pc'[t] = "count" /\ key' = key /\ made' = made /\ on' = on /\ depth' = depth
      /\ diff' = diff /\ todo' = todo /\ Adding(t) /\ Adding(t)' /\ Into(t)' = n
  BY <1>0, CalmFacts DEF Put, Goto, TypesOK, path, hand, Adding, Into
<1>2. /\ n \in Live /\ n \in Nodes /\ node[n] \in NodeRecords
      /\ K \in [Cells -> Nat] /\ C \in [Cells -> Pointers] /\ m \in Nat
      /\ (t \in made => n = t) /\ (t \notin made => n = on[t])
      /\ Bytes(key[t], c.sample[n], c.to[n])
      /\ Len(todo[t]) \in {1, 2} /\ (Len(todo[t]) = 1 => p = key[t])
      /\ (Len(todo[t]) = 2 => t \in made /\ p = on[t])
      /\ (t \in made => on[t] \in Things /\ c.up[on[t]] = t)
      /\ key[t] \in Keys /\ p \in Things /\ c.sample[p] \in Keys
  BY <1>0, <1>30, <1>1, AddingFacts
<1>3. /\ Filled(c, n, Gap(m, x)) /\ m < Room /\ x \in 0 .. m /\ b = ByteIn(c, p, n)
      /\ \A j \in Upto(x) : K[j] < b
      /\ \A j \in x + 1 .. m : K[j] > b
  BY <1>0, <1>30, <1>1, CalmFacts DEF Knows, Adds
<1>4. x \in Nat /\ x <= m /\ m < 4 /\ x \in Cells
  BY <1>2, <1>3, Numbers
<1>5. b \in Nat
  BY <1>1, CalmFacts DEF TypesOK
<1>6. /\ node'[n].keys = [K EXCEPT ![x] = b] /\ node'[n].children = [C EXCEPT ![x] = p]
      /\ node'[n].count = m /\ SamePrefix(n) /\ node' \in [Nodes -> NodeRecords]
      /\ \A q \in Nodes \ {n} : node'[q] = node[q]
  <2> DEFINE r == [node[n] EXCEPT !.keys = [K EXCEPT ![x] = b], !.children = [C EXCEPT ![x] = p]]
  <2>1. node' = [node EXCEPT ![n].keys[x] = b, ![n].children[x] = p]
    BY <1>0, <1>30 DEF Put, Added
  <2>2. node' = [node EXCEPT ![n] = r]
    BY <1>2, <2>1, CalmFacts DEF TypesOK, NodeRecords
  <2>3. r \in NodeRecords
    <3>1. [K EXCEPT ![x] = b] \in [Cells -> Nat] /\ [C EXCEPT ![x] = p] \in [Cells -> Pointers]
      BY <1>2, <1>5, Names
    <3>2. QED
      BY <1>2, <3>1 DEF NodeRecords
  <2>4. /\ r.keys = [K EXCEPT ![x] = b] /\ r.children = [C EXCEPT ![x] = p] /\ r.count = m
        /\ r.len = node[n].len /\ r.partial = node[n].partial
    BY <1>2 DEF NodeRecords
  <2> HIDE DEF r, K, C, b, x
  <2>5. QED
    BY <1>2, <2>2, <2>3, <2>4, NodeChanged, CalmFacts DEF SamePrefix
<1>7. /\ \A j \in 0 .. m : j # x => node'[n].keys[j] = K[j] /\ node'[n].children[j] = C[j]
      /\ node'[n].keys[x] = b /\ node'[n].children[x] = p
  BY <1>2, <1>4, <1>6, Numbers
<1>20. Fits(t)
  <2>1. p # Root
    BY <1>1, <1>2, CalmFacts, Names DEF IsTree
  <2>2. \A j \in 0 .. m - 1 : node'[n].children[j] \in {C[j], p}
    BY <1>2, <1>7
  <2>3. QED
    BY <1>0, <1>2, <1>6, <2>1, <2>2 DEF Fits, CellsLead, Upto
<1> HIDE DEF m, x, b, K, C
<1>8. key[t] \notin Nodes /\ Nodes \subseteq Things /\ Keys \subseteq Things /\ n # Null
  BY <1>2, Names
<1>9. PICK d : d = IF Len(todo[t]) = 1 THEN [c EXCEPT !.up = [@ EXCEPT ![key[t]] = n]] ELSE c
  OBVIOUS
<1>10. Stores(c, d, t, n)
  <2>1. CASE Len(todo[t]) # 1
    <3>1. d = c /\ (HasPut(t)' <=> HasPut(t))
      BY <1>1, <1>9, <2>1 DEF HasPut
    <3>2. QED
      BY <3>1, CalmFacts DEF Stores
  <2>2. CASE Len(todo[t]) = 1
    <3>1. HasPut(t)' /\ ~HasPut(t)
      BY <1>1, <2>2 DEF HasPut
    <3>2. d = [c EXCEPT !.up = [@ EXCEPT ![key[t]] = n]]
      BY <1>9, <2>2
    <3>3. /\ c \in Charts /\ c.up \in [Things -> Nodes \cup {Null}]
      BY CalmFacts DEF Charts
    <3>4. d.up = [c.up EXCEPT ![key[t]] = n] /\ d.from = c.from /\ d.to = c.to /\ d.sample = c.sample
      BY <3>2, <3>3 DEF Charts
    <3>5. d \in Charts
      <4>1. [c.up EXCEPT ![key[t]] = n] \in [Things -> Nodes \cup {Null}]
        BY <1>2, <3>3
      <4>2. QED
        BY <3>2, <3>3, <4>1 DEF Charts
    <3>6. d.up[key[t]] = n /\ \A q \in Things \ {key[t]} : d.up[q] = c.up[q]
      BY <1>2, <1>8, <3>3, <3>4
    <3>7. c.up[key[t]] = Null
      <4>1. key[t] \notin Loaded /\ \A u \in Inserters : key[u] = key[t] => u = t
        BY CalmFacts DEF KeysOK
      <4>2. QED
        BY <1>2, <3>1, <4>1, CalmFacts DEF IsTree
    <3>8. c.sample[key[t]] = key[t]
      BY <1>2, CalmFacts DEF IsTree
    <3>9. Under(d, key[t], n)
      BY <1>2, <1>8, <3>4, <3>6, <3>8 DEF Under
    <3>10. QED
      BY <3>1, <3>4, <3>5, <3>6, <3>7, <3>9 DEF Stores
  <2>3. QED
    BY <2>1, <2>2
<1>11. Celling(c, d, t, n)
  <2>1. Apart(t)
    BY StepApart, CalmFacts, Names DEF InsertStep
  <2>2. Unshortened(t) => Unshortened(t)'
    BY <1>1 DEF Unshortened, Splitting
  <2>3. QED
    BY <1>0, <1>1, <1>6, <1>10, <2>1, <2>2 DEF Celling
<1>12. InCells(d, n)' = InCells(c, n) \cup {p}
  <2>1. /\ d.up[key[t]] = (IF Len(todo[t]) = 1 THEN n ELSE c.up[key[t]])
        /\ \A q \in Things \ {key[t]} : d.up[q] = c.up[q]
    <3>1. (HasPut(t)' /\ ~HasPut(t)) \/ Len(todo[t]) # 1
      BY <1>1 DEF HasPut
    <3>2. QED
      BY <1>9, <1>10, <3>1 DEF Stores
  <2>2. CASE Len(todo[t]) = 1
    <3>1. ~Waiting(t) /\ ~Waiting(t)'
      BY <1>1, <2>2 DEF Waiting
    <3>2. n \in Inserters => (Waiting(n)' <=> Waiting(n)) /\ on'[n] = on[n]
      BY <1>1, <1>11, <3>1, CellingApart, UnmovedSame
    <3>3. n \in Inserters /\ Waiting(n) => key[t] # on[n]
      <4>1. SUFFICES ASSUME n \in Inserters, Waiting(n) PROVE key[t] # on[n]
        OBVIOUS
      <4>2. n # t
        BY <3>1, <4>1
      <4>3. Splitting(n)
        BY <4>1 DEF Waiting, Splitting, Adding
      <4>4. QED
        BY <1>11, <4>1, <4>2, <4>3, CellingApart
    <3>4. QED
      BY <1>2, <1>8, <2>1, <2>2, <3>2, <3>3 DEF InCells
  <2>3. CASE Len(todo[t]) = 2
    <3>1. n = t /\ p = on[t] /\ c.up[p] = t /\ Waiting(t) /\ ~Waiting(t)'
      BY <1>1, <1>2, <2>3 DEF Waiting
    <3>2. \A q \in Things : d.up[q] = c.up[q]
      BY <2>1, <2>3
    <3>3. QED
      BY <1>2, <3>1, <3>2 DEF InCells
  <2>4. QED
    BY <1>2, <2>2, <2>3
<1>13. d.sample = c.sample /\ d.to = c.to /\ d.from = c.from
  BY <1>10 DEF Stores
<1>14. Filled(d, n, 0 .. node[n].count)'
  <2>1. \A q : ByteIn(d, q, n) = ByteIn(c, q, n)
    BY <1>13 DEF ByteIn
  <2>2. /\ \A j \in (0 .. m) \ {x} : C[j] \in InCells(c, n) /\ K[j] = ByteIn(c, C[j], n)
        /\ \A j, l \in (0 .. m) \ {x} : j < l => K[j] < K[l]
        /\ \A q \in InCells(c, n) : \E j \in (0 .. m) \ {x} : C[j] = q
    BY <1>3 DEF Filled, Gap, K, C
  <2>3. \A j \in 0 .. m : /\ node'[n].children[j] \in InCells(c, n) \cup {p}
                          /\ node'[n].keys[j] = ByteIn(c, node'[n].children[j], n)
    <3>1. SUFFICES ASSUME NEW j \in 0 .. m
                   PROVE  /\ node'[n].children[j] \in InCells(c, n) \cup {p}
                          /\ node'[n].keys[j] = ByteIn(c, node'[n].children[j], n)
      OBVIOUS
    <3>2. CASE j = x
      BY <1>3, <1>7, <3>2
    <3>3. CASE j # x
      BY <1>7, <2>2, <3>3
    <3>4. QED
      BY <3>2, <3>3
  <2>4. \A j, l \in 0 .. m : j < l => node'[n].keys[j] < node'[n].keys[l]
    <3>1. SUFFICES ASSUME NEW j \in 0 .. m, NEW l \in 0 .. m, j < l
                   PROVE  node'[n].keys[j] < node'[n].keys[l]
      OBVIOUS
    <3>2. CASE l = x
      <4>1. j \in Upto(x) /\ j # x
        BY <1>2, <1>4, <3>1, <3>2 DEF Upto, m
      <4>2. QED
        BY <1>3, <1>7, <3>2, <4>1
    <3>3. CASE j = x
      <4>1. l \in x + 1 .. m /\ l # x
        BY <1>2, <1>4, <3>1, <3>3 DEF m
      <4>2. K[l] > b /\ K[l] \in Nat
        <5>1. l \in Cells
          BY <1>2, <1>4, Numbers DEF m
        <5>2. QED
          BY <1>2, <1>3, <4>1, <5>1 DEF K
      <4>3. QED
        BY <1>5, <1>7, <3>3, <4>1, <4>2
    <3>4. CASE l # x /\ j # x
      BY <1>7, <2>2, <3>1, <3>4
    <3>5. QED
      BY <3>2, <3>3, <3>4
  <2>5. \A q \in InCells(c, n) \cup {p} : \E j \in 0 .. m : node'[n].children[j] = q
    <3>1. SUFFICES ASSUME NEW q \in InCells(c, n) \cup {p} PROVE \E j \in 0 .. m : node'[n].children[j] = q
      OBVIOUS
    <3>2. CASE q = p
      BY <1>3, <1>7, <3>2
    <3>3. CASE q \in InCells(c, n)
      BY <1>7, <2>2, <3>3
    <3>4. QED
      BY <3>1, <3>2, <3>3
  <2>6. node'[n].count = m
    BY <1>6 DEF m
  <2>7. QED
    BY <1>12, <2>1, <2>3, <2>4, <2>5, <2>6 DEF Filled, ByteIn
<1>15. Adds(d, t)'
  <2>1. (t \notin made => Led(d, t, d.to[on[t]]) /\ diff[t] = 0 /\ todo[t] = <<key[t]>>)'
    BY <1>1, <1>13, CalmFacts DEF Knows, Adds, Led, Live
  <2>2. node'[n].count < Room
    BY <1>3, <1>6 DEF m
  <2>3. QED
    BY <1>1, <1>14, <2>1, <2>2 DEF Adds
<1>16. Knows(d, t)'
  <2>1. Splits(d, t)'
    BY <1>1, <1>11, SplitsKept
  <2>2. QED
    BY <1>1, <1>15, <2>1 DEF Knows, Descends, Divides
<1>17. CellsOK(d, n)'
  BY <1>1 DEF CellsOK
<1>18. Charted(d)' /\ d \in Charts
  BY <1>10, <1>11, <1>16, <1>17, CellingCharted DEF Stores
<1>19. QED
  BY <1>0, <1>6, <1>10, <1>18, <1>20

LEMMA StoreCountCharted ==
  ASSUME NEW c, Calm(c), NEW t \in Inserters, StoreCount(t)
  PROVE  Charted(c)' /\ node' \in [Nodes -> NodeRecords] /\ Fits(t)
<1>0. PICK n : n = Into(t)
  OBVIOUS
<1> DEFINE m == node[n].count
<1>1. /\ pc[t] = "add" /\ key' = key /\ made' = made /\ Adding(t) /\ t \in Threads
  BY CalmFacts DEF StoreCount, Adding
<1>2. /\ n \in Live /\ n \in Nodes /\ node[n] \in NodeRecords /\ m \in Nat
      /\ (t \in made => n = t) /\ (t \notin made => n = on[t])
      /\ Len(todo[t]) \in {1, 2}
      /\ (Len(todo[t]) = 2 => t \in made /\ Tail(todo[t]) = <<key[t]>>)
      /\ (t \in made => Splitting(t) /\ on[t] \in Things /\ c.up[on[t]] = t)
  BY <1>0, <1>1, AddingFacts
<1>3. Filled(c, n, 0 .. m) /\ m < Room /\ reg[t] = m
  BY <1>0, <1>1, CalmFacts DEF Knows, Adds
<1>4. /\ node'[n].keys = node[n].keys /\ node'[n].children = node[n].children /\ node'[n].count = m + 1
      /\ SamePrefix(n) /\ node' \in [Nodes -> NodeRecords]
      /\ \A q \in Nodes \ {n} : node'[q] = node[q]
  <2> DEFINE r == [node[n] EXCEPT !.count = m + 1]
  <2>1. node' = [node EXCEPT ![n].count = m + 1]
    BY <1>0, <1>3 DEF StoreCount
  <2>2. node' = [node EXCEPT ![n] = r]
    BY <1>2, <2>1, CalmFacts DEF TypesOK, NodeRecords
  <2>3. m + 1 \in 0 .. Room
    BY <1>2, <1>3, Numbers
  <2>4. r \in NodeRecords
    BY <1>2, <2>3 DEF NodeRecords
  <2>5. /\ r.keys = node[n].keys /\ r.children = node[n].children /\ r.count = m + 1
        /\ r.len = node[n].len /\ r.partial = node[n].partial
    BY <1>2 DEF NodeRecords
  <2> HIDE DEF r, m
  <2>6. QED
    BY <1>2, <2>2, <2>4, <2>5, NodeChanged, CalmFacts DEF SamePrefix
<1>20. Fits(t)
  <2>1. ASSUME NEW j \in 0 .. m PROVE node[n].children[j] # Root
    <3>1. node[n].children[j] \in InCells(c, n)
      BY <1>3 DEF Filled
    <3>2. n # Null /\ c.up[Root] = Null
      BY <1>2, CalmFacts, Names DEF IsTree
    <3>3. QED
      BY <3>1, <3>2 DEF InCells
  <2>2. QED
    BY <1>0, <1>2, <1>4, <2>1 DEF Fits, Upto
<1> HIDE DEF m
<1>5. CASE Len(todo[t]) = 2
  <2>1. /\ on' = on /\ depth' = depth /\ diff' = diff /\ todo'[t] = <<key[t]>> /\ t \in made /\ n = t
        /\ pc'[t] = IF on[t] \in Nodes THEN "shortenLen" ELSE "position"
    BY <1>1, <1>2, <1>5, CalmFacts DEF StoreCount, Goto, TypesOK, path
  <2>2. Len(todo'[t]) = 1
    BY <2>1
  <2>3. ~HasPut(t) /\ ~HasPut(t)' /\ ~Waiting(t) /\ ~Waiting(t)' /\ Splitting(t) /\ Splitting(t)'
    BY <1>1, <1>5, <2>1, <2>2 DEF HasPut, Waiting, Splitting, Adding
  <2>4. /\ (Unshortened(t)' <=> Unshortened(t)) /\ ~HalfShortened(t)' /\ (Unshortened(t) => on[t] \in Nodes)
    BY <1>1, <1>5, <2>1, <2>2, <2>3 DEF Unshortened, HalfShortened
  <2>5. Adding(t)' => Into(t)' = n
    BY <1>1, <2>1 DEF Into
  <2>6. Celling(c, c, t, n)
    <3>1. Apart(t)
      BY StepApart, CalmFacts, Names DEF InsertStep
    <3>2. Stores(c, c, t, n)
      BY <2>3, CalmFacts DEF Stores
    <3>3. QED
      BY <1>0, <1>1, <1>4, <2>1, <2>4, <2>5, <3>1, <3>2 DEF Celling
  <2>7. InCells(c, n)' = InCells(c, n)
    BY <2>1, <2>3 DEF InCells
  <2>8. Filled(c, n, Upto(node[n].count))'
    <3>1. Upto(m + 1) = 0 .. m
      BY <1>2 DEF Upto, m
    <3>2. ASSUME NEW D, Filled(c, n, D) PROVE Filled(c, n, D)'
      BY <1>4, <2>7, <3>2 DEF Filled, ByteIn
    <3>3. PICK D : D = 0 .. m
      OBVIOUS
    <3>4. Filled(c, n, D)' /\ Upto(node'[n].count) = D
      BY <1>3, <1>4, <3>1, <3>2, <3>3
    <3>5. QED
      BY <3>4
  <2>9. Splits(c, t)'
    <3>1. Splits(c, t)
      BY CalmFacts DEF Knows
    <3>2. on[t] \in Nodes => SamePrefix(on[t])
      BY <1>4 DEF SamePrefix
    <3>3. (Unshortened(t) => LenFrom(c, on[t], depth[t]) /\ PartialFrom(c, on[t], depth[t]))'
      BY <2>1, <2>4, <3>1, <3>2 DEF Splits, LenFrom, PartialFrom, SamePrefix
    <3>4. QED
      BY <1>1, <2>1, <2>3, <2>4, <3>1, <3>3 DEF Splits, ByteIn
  <2>10. Adds(c, t)'
    <3>1. pc'[t] = "position" => Into(t)' = n /\ t \in made'
      BY <1>1, <2>1 DEF Into
    <3>2. QED
      BY <2>1, <2>8, <3>1 DEF Adds, Adding
  <2>11. Knows(c, t)'
    BY <2>1, <2>9, <2>10 DEF Knows, Descends, Divides
  <2>12. CellsOK(c, n)'
    BY <2>8 DEF CellsOK
  <2>13. QED
    BY <1>4, <1>20, <2>6, <2>11, <2>12, CellingCharted
<1>6. CASE Len(todo[t]) = 1
  <2>1. pc'[t] \in {"unlock", "done"}
    <3>1. CASE Return(t, "done")
      BY <1>1, <3>1, GotoApart, CalmFacts DEF Return, Labels
    <3>2. CASE ~Return(t, "done")
      BY <1>1, <1>6, <3>2, CalmFacts DEF StoreCount, Goto, TypesOK
    <3>3. QED
      BY <3>1, <3>2
  <2>2. HasPut(t) /\ HasPut(t)' /\ ~Waiting(t) /\ ~Waiting(t)' /\ ~Unshortened(t) /\ ~Adding(t)'
        /\ ~Splitting(t)' /\ ~Unshortened(t)' /\ ~HalfShortened(t)'
    BY <1>1, <1>6, <2>1 DEF HasPut, Waiting, Splitting, Adding, Unshortened, HalfShortened
  <2>3. Celling(c, c, t, n)
    <3>1. Apart(t)
      BY StepApart, CalmFacts, Names DEF InsertStep
    <3>2. Stores(c, c, t, n)
      BY <2>2, CalmFacts DEF Stores
    <3>3. QED
      BY <1>0, <1>1, <1>4, <2>1, <2>2, <3>1, <3>2 DEF Celling
  <2>4. InCells(c, n)' = InCells(c, n)
    <3>1. n \in Inserters /\ n # t => (Waiting(n)' <=> Waiting(n)) /\ on'[n] = on[n]
      BY <2>3, CellingApart, UnmovedSame DEF Unmoved
    <3>2. n \in Inserters => (Waiting(n)' <=> Waiting(n)) /\ (Waiting(n) => on'[n] = on[n])
      BY <2>2, <3>1
    <3>3. QED
      BY <3>2 DEF InCells
  <2>5. Filled(c, n, Upto(node[n].count))'
    <3>1. Upto(m + 1) = 0 .. m
      BY <1>2 DEF Upto, m
    <3>2. ASSUME NEW D, Filled(c, n, D) PROVE Filled(c, n, D)'
      BY <1>4, <2>4, <3>2 DEF Filled, ByteIn
    <3>3. PICK D : D = 0 .. m
      OBVIOUS
    <3>4. Filled(c, n, D)' /\ Upto(node'[n].count) = D
      BY <1>3, <1>4, <3>1, <3>2, <3>3
    <3>5. QED
      BY <3>4
  <2>6. Knows(c, t)'
    BY <2>1, <2>2 DEF Knows, Descends, Divides, Splits, Adds
  <2>7. CellsOK(c, n)'
    BY <2>5 DEF CellsOK
  <2>8. QED
    BY <1>4, <1>20, <2>3, <2>6, <2>7, CellingCharted
<1>7. QED
  BY <1>2, <1>5, <1>6, <1>20

-------------------------------------------------------------------------------
(* The types.                                                              *)
Todos == {<< >>} \cup {<<p>> : p \in Keys} \cup (Pointers \X Keys)

LocalsOK(t) ==
  /\ pc[t] \in Labels /\ on[t] \in Pointers /\ ref[t] \in Nodes \X Cells /\ depth[t] \in Nat
  /\ i[t] \in 0 .. Room /\ byte[t] \in Nat /\ reg[t] \in 0 .. Room /\ diff[t] \in 0 .. KeyLen
  /\ todo[t] \in Todos
  /\ pc[t] = "load" => i[t] \in Cells
  /\ on[t] \in Nodes \/ (t \in Inserters /\ (pc[t] = "leaf" \/ Splitting(t)))

(* Only the locals of t change.                                            *)
Changes(t) ==
  /\ pc' = [pc EXCEPT ![t] = pc'[t]] /\ on' = [on EXCEPT ![t] = on'[t]]
  /\ ref' = [ref EXCEPT ![t] = ref'[t]] /\ depth' = [depth EXCEPT ![t] = depth'[t]]
  /\ i' = [i EXCEPT ![t] = i'[t]] /\ byte' = [byte EXCEPT ![t] = byte'[t]]
  /\ reg' = [reg EXCEPT ![t] = reg'[t]] /\ diff' = [diff EXCEPT ![t] = diff'[t]]
  /\ todo' = [todo EXCEPT ![t] = todo'[t]]

LEMMA LocalTypes == TypesOK => \A t \in Threads : LocalsOK(t)
BY DEF TypesOK, LocalsOK, Todos

LEMMA TypesKept ==
  ASSUME TypesOK, NEW t \in Threads, Changes(t), Apart(t), LocalsOK(t)',
         node' \in [Nodes -> NodeRecords], made' \subseteq Inserters,
         \A u \in Inserters \ made' : node'[u] = Empty
  PROVE  TypesOK'
<1>1. /\ pc' \in [Threads -> Labels] /\ key' \in [Threads -> Keys]
      /\ on' \in [Threads -> Pointers] /\ ref' \in [Threads -> Nodes \X Cells]
      /\ depth' \in [Threads -> Nat] /\ i' \in [Threads -> 0 .. Room] /\ byte' \in [Threads -> Nat]
      /\ reg' \in [Threads -> 0 .. Room] /\ diff' \in [Threads -> 0 .. KeyLen]
      /\ todo' \in [Threads -> Todos]
  BY DEF TypesOK, Changes, LocalsOK, Apart, Todos
<1>2. ASSUME NEW u \in Threads
      PROVE  /\ pc'[u] = "load" => i'[u] \in Cells
             /\ on'[u] \in Nodes \/ (u \in Inserters /\ (pc'[u] = "leaf" \/ Splitting(u)'))
  <2>1. CASE u = t
    BY <2>1 DEF LocalsOK
  <2>2. CASE u # t
    <3>1. pc'[u] = pc[u] /\ i'[u] = i[u] /\ on'[u] = on[u]
      BY <2>2 DEF Changes, TypesOK
    <3>2. u \in Inserters => (Splitting(u)' <=> Splitting(u))
      BY <2>2, UnmovedSame DEF Apart
    <3>3. QED
      BY <3>1, <3>2 DEF TypesOK
  <2>3. QED
    BY <2>1, <2>2
<1>3. QED
  BY <1>1, <1>2 DEF TypesOK, Todos

LEMMA ReturnChanges ==
  ASSUME TypesOK, NEW t \in Threads, NEW l \in Labels, l # "load", Return(t, l)
  PROVE  Changes(t) /\ LocalsOK(t)'
<1>1. Changes(t)
  BY DEF TypesOK, Return, Goto, Changes
<1>2. /\ pc'[t] = l /\ on'[t] = Root /\ ref'[t] = TopRef /\ depth'[t] = 0 /\ i'[t] = 0 /\ byte'[t] = 0
      /\ reg'[t] = 0 /\ diff'[t] = 0 /\ todo'[t] = << >>
  BY DEF TypesOK, Return, Goto
<1>3. TopRef \in Nodes \X Cells
  BY Names, Numbers DEF TopRef
<1>4. QED
  BY <1>1, <1>2, <1>3, Names, Numbers DEF LocalsOK, Todos

LEMMA StepChanges ==
  ASSUME TypesOK, NEW t \in Threads, SearchStep(t) \/ InsertStep(t)
  PROVE  Changes(t)
<1>1. CASE Call(t) \/ ReadVersion(t) \/ CheckParent(t)
  BY <1>1 DEF Call, ReadVersion, CheckParent, Goto, TypesOK, Changes, path, hand
<1>2. CASE ReadPrefix(t)
  <2>1. CASE Return(t, "missed")
    BY <2>1, ReturnChanges DEF Labels
  <2>2. CASE ~Return(t, "missed")
    BY <1>2, <2>2 DEF ReadPrefix, Goto, TypesOK, Changes, path, words, hand
  <2>3. QED
    BY <2>1, <2>2
<1>3. CASE Find(t)
  BY <1>3 DEF Find, Goto, TypesOK, Changes, path, hand
<1>4. CASE LoadChild(t)
  <2> DEFINE p == node[on[t]].children[i[t]]
  <2>1. CASE GoDown(t, p)
    <3>1. PICK l \in Labels : Goto(t, l)
      BY <1>4 DEF LoadChild, Labels
    <3>2. QED
      BY <2>1, <3>1 DEF GoDown, GoneDown, Goto, TypesOK, Changes
  <2>2. CASE ~GoDown(t, p)
    BY <1>4, <2>2 DEF LoadChild, Goto, TypesOK, Changes, path
  <2>3. QED
    BY <2>1, <2>2
<1>5. CASE Restart(t) \/ ReturnChild(t)
  <2>1. PICK l \in {"start", "found", "missed"} : Return(t, l)
    BY <1>5 DEF Restart, ReturnChild
  <2>2. QED
    BY <2>1, ReturnChanges DEF Labels
<1>6. CASE LockParent(t) \/ Lock(t) \/ LockNode(t) \/ LockAbove(t)
  BY <1>6 DEF LockParent, Lock, LockNode, LockAbove, Goto, TypesOK, Changes, path, hand
<1>7. CASE SplitLeaf(t) \/ SplitPrefix(t)
  BY <1>7 DEF SplitLeaf, SplitPrefix, Goto, TypesOK, Changes, path
<1>8. CASE SetLen(t) \/ SetPartial(t) \/ ShortenLen(t) \/ ShortenPartial(t) \/ Shift(t) \/ Unlock(t)
  BY <1>8 DEF SetLen, SetPartial, ShortenLen, ShortenPartial, Shift, Unlock, Goto, TypesOK, Changes,
              locals, path,
              hand
<1>9. CASE Position(t) \/ Put(t) \/ LoadCount(t)
  BY <1>9 DEF Position, Put, LoadCount, Goto, TypesOK, Changes, path
<1>10. CASE StoreCount(t)
  <2>1. CASE Return(t, "done")
    BY <2>1, ReturnChanges DEF Labels
  <2>2. CASE ~Return(t, "done")
    BY <1>10, <2>2 DEF StoreCount, Goto, TypesOK, Changes, locals, path, hand
  <2>3. QED
    BY <2>1, <2>2
<1>11. CASE UnlockParent(t)
  BY <1>11, ReturnChanges DEF UnlockParent, Labels
<1>12. QED
  BY <1>1, <1>2, <1>3, <1>4, <1>5, <1>6, <1>7, <1>8, <1>9, <1>10, <1>11 DEF SearchStep, InsertStep

(* A step that changes no more than where t is in the program.             *)
LEMMA PassingTypes ==
  ASSUME TypesOK, NEW t \in Threads, Apart(t), made' = made,
         pc'[t] \in Labels \ {"load"}, pc[t] # "leaf",
         Splitting(t) => pc'[t] \in {"setLen", "setPartial", "shortenLen", "shortenPartial", "position",
                                     "shift", "put",
                                      "count", "add"} \/ on[t] \in Nodes,
         on'[t] = on[t], ref'[t] = ref[t], depth'[t] = depth[t], i'[t] = i[t], byte'[t] = byte[t],
         reg'[t] = reg[t], diff'[t] = diff[t], todo'[t] = todo[t]
  PROVE  LocalsOK(t)'
<1>1. LocalsOK(t)
  BY LocalTypes
<1>2. Splitting(t) => Splitting(t)' \/ on[t] \in Nodes
  BY DEF Splitting, Adding
<1>3. QED
  BY <1>1, <1>2 DEF LocalsOK

(* On the way down, of inserts and searches.                               *)
LEMMA ReadingTypes ==
  ASSUME TypesOK, NEW t \in Threads, Call(t) \/ ReadVersion(t) \/ ReadPrefix(t) \/ Find(t) \/ CheckParent(t)
  PROVE  LocalsOK(t)'
<1>1. LocalsOK(t)
  BY LocalTypes
<1>2. on[t] \in Nodes
  BY <1>1, Names
     DEF LocalsOK, Splitting, Adding, Call, ReadVersion, ReadPrefix, Find, CheckParent
<1>3. node[on[t]].count \in Nat /\ node[on[t]].count <= Room /\ node[on[t]].len \in Nat
      /\ node[on[t]].len <= KeyLen
  <2>1. node[on[t]] \in NodeRecords
    BY <1>2 DEF TypesOK
  <2>2. QED
    BY <2>1, Fields
<1>4. CASE Call(t) \/ ReadVersion(t) \/ CheckParent(t)
  <2>1. /\ pc'[t] \in Labels \ {"load"} /\ on'[t] = on[t] /\ ref'[t] = ref[t] /\ depth'[t] = depth[t]
        /\ i'[t] = i[t] /\ byte'[t] = byte[t] /\ reg'[t] = reg[t] /\ diff'[t] = diff[t] /\ todo'[t] = todo[t]
    BY <1>4 DEF Call, ReadVersion, CheckParent, Goto, TypesOK, path, hand, Labels
  <2>2. QED
    BY <1>1, <1>2, <2>1 DEF LocalsOK
<1>5. CASE ReadPrefix(t)
  <2> DEFINE m == PrefixMismatch(on[t], key[t], depth[t])
             S == {j \in 0 .. node[on[t]].len - 1 : node[on[t]].partial[j] # Byte(key[t], depth[t] + j)}
  <2>1. m \in 0 .. node[on[t]].len
    <3>1. S \in SUBSET (0 .. node[on[t]].len - 1)
      OBVIOUS
    <3>2. m = FirstOf(S, node[on[t]].len)
      BY DEF PrefixMismatch
    <3> HIDE DEF S, m
    <3>3. QED
      BY <1>3, <3>1, <3>2, FirstBelow
  <2>2. m \in Nat /\ m \in 0 .. KeyLen
    BY <1>3, <2>1, Numbers
  <2>3. CASE Return(t, "missed")
    BY <2>3, ReturnChanges DEF Labels
  <2>4. CASE ~Return(t, "missed")
    <3>1. /\ pc'[t] \in {"find", "lockNode"} /\ on'[t] = on[t] /\ ref'[t] = ref[t]
          /\ depth'[t] \in {depth[t], depth[t] + m}
          /\ i'[t] = i[t] /\ byte'[t] = byte[t] /\ reg'[t] = reg[t] /\ diff'[t] \in {diff[t], m}
          /\ todo'[t] = todo[t]
      BY <1>5, <2>4 DEF ReadPrefix, Goto, TypesOK, path, hand
    <3> HIDE DEF m
    <3>2. QED
      BY <1>1, <1>2, <2>2, <3>1 DEF LocalsOK, Labels
  <2>5. QED
    BY <2>3, <2>4
<1>6. CASE Find(t)
  <2> DEFINE at == {j \in 0 .. node[on[t]].count - 1 : node[on[t]].keys[j] = Byte(key[t], depth[t])}
  <2>1. FirstOf(at, 0) \in Cells
    <3>1. at \in SUBSET Nat /\ at \subseteq Cells
      BY <1>3, Numbers
    <3> HIDE DEF at
    <3>2. CASE at = {}
      BY <3>2, Numbers DEF FirstOf
    <3>3. CASE at # {}
      BY <3>1, <3>3, First
    <3>4. QED
      BY <3>2, <3>3
  <2>2. /\ pc'[t] \in {"load", "check", "lockParent"} /\ on'[t] = on[t] /\ ref'[t] = ref[t]
        /\ depth'[t] = depth[t] /\ i'[t] = FirstOf(at, 0) /\ byte'[t] = byte[t] /\ reg'[t] = reg[t]
        /\ diff'[t] = diff[t] /\ todo'[t] = todo[t]
    BY <1>6 DEF Find, Goto, TypesOK, path, hand
  <2> HIDE DEF at
  <2>3. QED
    BY <1>1, <1>2, <2>1, <2>2, Numbers DEF LocalsOK, Labels
<1>7. QED
  BY <1>4, <1>5, <1>6

LEMMA SearchTypes ==
  ASSUME TypesOK, NEW t \in Searchers, SearchStep(t)
  PROVE  LocalsOK(t)' /\ node' = node /\ made' = made /\ crashed' = crashed /\ stored' = stored
<1>0. t \in Threads /\ t \notin Inserters
  BY Names
<1>1. LocalsOK(t) /\ on[t] \in Nodes
  BY <1>0, LocalTypes DEF LocalsOK
<1>2. CASE Call(t) \/ ReadVersion(t) \/ ReadPrefix(t) \/ Find(t) \/ CheckParent(t)
  <2>1. node' = node /\ made' = made /\ crashed' = crashed /\ stored' = stored
    BY <1>2 DEF Call, ReadVersion, ReadPrefix, Find, CheckParent, shared
  <2>2. QED
    BY <1>0, <1>2, <2>1, ReadingTypes
<1>3. CASE LoadChild(t)
  <2> DEFINE p == node[on[t]].children[i[t]]
  <2>1. node' = node /\ made' = made /\ crashed' = crashed /\ stored' = stored /\ pc[t] = "load"
    BY <1>3 DEF LoadChild, shared
  <2>2. CASE p \notin Nodes
    <3>1. /\ pc'[t] = "check" /\ on'[t] = on[t] /\ ref'[t] = ref[t] /\ depth'[t] = depth[t] /\ i'[t] = i[t]
          /\ byte'[t] = byte[t] /\ reg'[t] = reg[t] /\ diff'[t] = diff[t] /\ todo'[t] = todo[t]
      BY <1>0, <1>3, <2>2 DEF LoadChild, Search, Goto, TypesOK, path
    <3>2. QED
      BY <1>1, <2>1, <3>1 DEF LocalsOK, Labels
  <2>3. CASE p \in Nodes
    <3>1. /\ pc'[t] = "version" /\ on'[t] = p /\ ref'[t] = <<on[t], i[t]>> /\ depth'[t] = depth[t] + 1
          /\ i'[t] = 0 /\ byte'[t] = byte[t] /\ reg'[t] = reg[t] /\ diff'[t] = diff[t] /\ todo'[t] = todo[t]
      BY <1>0, <1>3, <2>3 DEF LoadChild, GoDown, GoneDown, Goto, TypesOK
    <3>2. i[t] \in Cells
      BY <1>1, <2>1 DEF LocalsOK
    <3> HIDE DEF p
    <3>3. QED
      BY <1>1, <2>1, <2>3, <3>1, <3>2, Names, Numbers DEF LocalsOK, Labels
  <2>4. QED
    BY <2>2, <2>3
<1>4. CASE Restart(t) \/ ReturnChild(t)
  <2>1. PICK l \in {"start", "found", "missed"} : Return(t, l)
    BY <1>4 DEF Restart, ReturnChild
  <2>2. node' = node /\ made' = made /\ crashed' = crashed /\ stored' = stored
    BY <1>4 DEF Restart, ReturnChild, shared
  <2>3. QED
    BY <1>0, <2>1, <2>2, ReturnChanges DEF Labels
<1>5. QED
  BY <1>2, <1>3, <1>4 DEF SearchStep

(* A search changes nothing that inserts can tell.                         *)
LEMMA SearchSound ==
  ASSUME Sound, NEW t \in Searchers, SearchStep(t)
  PROVE  Sound'
<1>1. t \in Threads /\ t \notin Inserters /\ TypesOK /\ KeysOK /\ ~crashed
  BY Names DEF Sound
<1>2. LocalsOK(t)' /\ node' = node /\ made' = made /\ crashed' = crashed /\ stored' = stored
  BY <1>1, SearchTypes
<1>3. Apart(t) /\ Changes(t)
  BY <1>1, StepApart, StepChanges
<1>4. TypesOK'
  BY <1>1, <1>2, <1>3, TypesKept DEF TypesOK
<1>5. KeysOK'
  <2>1. key' = key /\ \A u \in Inserters : pc'[u] = pc[u]
    BY <1>1, <1>3 DEF Apart, Unmoved
  <2>2. QED
    BY <1>1, <1>2, <2>1 DEF KeysOK
<1>6. PICK c \in Charts : Charted(c)
  BY DEF Sound
<1>7. Charted(c)'
  BY <1>1, <1>2, <1>3, <1>6, QuietChart
<1>8. QED
  BY <1>1, <1>2, <1>4, <1>5, <1>6, <1>7 DEF Sound

-------------------------------------------------------------------------------
(* The keys that are stored.                                               *)
HasStored(t) == pc[t] \in {"unlock", "unlockParent", "done"}

LEMMA KeysKept ==
  ASSUME KeysOK, NEW t \in Inserters, Apart(t),
         \/ stored' = stored /\ (HasStored(t)' <=> HasStored(t))
         \/ stored' = stored \cup {key[t]} /\ HasStored(t)'
  PROVE  KeysOK'
<1>1. key' = key /\ \A u \in Inserters \ {t} : HasStored(u)' <=> HasStored(u)
  BY DEF Apart, Unmoved, HasStored
<1> DEFINE done == {u \in Inserters : HasStored(u)}
           then == {u \in Inserters : HasStored(u)'}
<1>2. stored = Loaded \cup {key[u] : u \in done}
  BY DEF KeysOK, HasStored
<1>3. stored' = Loaded \cup {key[u] : u \in then}
  <2>1. CASE stored' = stored /\ (HasStored(t)' <=> HasStored(t))
    <3>1. then = done
      BY <1>1, <2>1
    <3> HIDE DEF then, done
    <3>2. QED
      BY <1>2, <2>1, <3>1
  <2>2. CASE stored' = stored \cup {key[t]} /\ HasStored(t)'
    <3>1. then = done \cup {t}
      BY <1>1, <2>2
    <3> HIDE DEF then, done
    <3>2. {key[u] : u \in done \cup {t}} = {key[u] : u \in done} \cup {key[t]}
      OBVIOUS
    <3>3. QED
      BY <1>2, <2>2, <3>1, <3>2
  <2>3. QED
    BY <2>1, <2>2
<1>4. QED
  BY <1>1, <1>3 DEF KeysOK, HasStored

(* Steps of an insert that write to no node.                               *)
ReadingStep(t) ==
  \/ Call(t) \/ ReadVersion(t) \/ ReadPrefix(t) \/ Find(t) \/ LoadChild(t)
  \/ LockParent(t) \/ Lock(t) \/ LockNode(t) \/ LockAbove(t)
  \/ Position(t) \/ LoadCount(t) \/ Unlock(t) \/ UnlockParent(t)

WritingStep(t) ==
  \/ SplitLeaf(t) \/ SplitPrefix(t) \/ SetLen(t) \/ SetPartial(t) \/ ShortenLen(t) \/ ShortenPartial(t)
  \/ Shift(t) \/ Put(t) \/ StoreCount(t)

LEMMA ReadingUnchanged ==
  ASSUME TypesOK, NEW t \in Inserters, ReadingStep(t)
  PROVE  /\ node' = node /\ made' = made /\ crashed' = crashed /\ stored' = stored
         /\ HasStored(t)' <=> HasStored(t)
<1>0. t \in Threads /\ ~Search(t)
  BY Names DEF Search
<1>1. node' = node /\ made' = made /\ crashed' = crashed /\ stored' = stored
  BY DEF ReadingStep, Call, ReadVersion, ReadPrefix, Find, LoadChild, LockParent, Lock, LockNode, LockAbove,
         Position, LoadCount, Unlock, UnlockParent, shared
<1>2. CASE Call(t) \/ ReadVersion(t) \/ ReadPrefix(t) \/ Find(t) \/ LoadChild(t)
  <2>1. CASE Call(t)
    BY <1>0, <1>1, <2>1 DEF Call, Goto, HasStored, TypesOK
  <2>2. CASE ReadVersion(t)
    BY <1>0, <1>1, <2>2 DEF ReadVersion, Goto, HasStored, TypesOK
  <2>3. CASE ReadPrefix(t)
    <3>1. pc[t] = "prefix" /\ \E l \in {"find", "lockNode"} : Goto(t, l)
      BY <1>0, <2>3 DEF ReadPrefix
    <3>2. QED
      BY <1>0, <1>1, <3>1 DEF Goto, HasStored, TypesOK
  <2>4. CASE Find(t)
    <3>1. pc[t] = "find" /\ \E l \in {"load", "lockParent"} : Goto(t, l)
      BY <1>0, <2>4 DEF Find
    <3>2. QED
      BY <1>0, <1>1, <3>1 DEF Goto, HasStored, TypesOK
  <2>5. CASE LoadChild(t)
    <3>1. pc[t] = "load" /\ \E l \in {"version", "leaf"} : Goto(t, l)
      BY <1>0, <2>5 DEF LoadChild
    <3>2. QED
      BY <1>0, <1>1, <3>1 DEF Goto, HasStored, TypesOK
  <2>6. QED
    BY <1>2, <2>1, <2>2, <2>3, <2>4, <2>5
<1>3. CASE LockParent(t) \/ Lock(t) \/ LockNode(t) \/ LockAbove(t)
  BY <1>0, <1>3 DEF LockParent, Lock, LockNode, LockAbove, Goto, HasStored, TypesOK
<1>4. CASE Position(t) \/ LoadCount(t) \/ Unlock(t)
  <2>1. CASE Position(t)
    <3>1. pc[t] = "position" /\ Goto(t, "shift")
      BY <2>1 DEF Position
    <3>2. QED
      BY <1>0, <1>1, <3>1 DEF Goto, HasStored, TypesOK
  <2>2. CASE LoadCount(t)
    BY <1>0, <1>1, <2>2 DEF LoadCount, Goto, HasStored, TypesOK
  <2>3. CASE Unlock(t)
    BY <1>0, <2>3 DEF Unlock, Goto, HasStored, TypesOK
  <2>4. QED
    BY <1>4, <2>1, <2>2, <2>3
<1>5. CASE UnlockParent(t)
  BY <1>0, <1>5 DEF UnlockParent, Return, Goto, HasStored, TypesOK
<1>6. QED
  BY <1>1, <1>2, <1>3, <1>4, <1>5 DEF ReadingStep

LEMMA ReadingQuiet ==
  ASSUME NEW c, Calm(c), NEW t \in Inserters, ReadingStep(t)
  PROVE  Quiet(t) /\ Knows(c, t)'
<1>1. CASE Call(t) \/ ReadVersion(t) \/ ReadPrefix(t) \/ Find(t) \/ LoadChild(t)
  BY <1>1, CallQuiet, ReadVersionQuiet, ReadPrefixQuiet, FindQuiet, LoadChildQuiet
<1>2. CASE LockParent(t) \/ Lock(t) \/ LockNode(t) \/ LockAbove(t)
  BY <1>2, LockingQuiet, LockQuiet
<1>3. CASE Position(t) \/ LoadCount(t) \/ Unlock(t) \/ UnlockParent(t)
  BY <1>3, PositionQuiet, LoadCountQuiet, UnlockQuiet
<1>4. QED
  BY <1>1, <1>2, <1>3 DEF ReadingStep

LEMMA ReadingLocals ==
  ASSUME NEW c, Calm(c), NEW t \in Inserters, ReadingStep(t)
  PROVE  LocalsOK(t)'
<1>0. t \in Threads /\ TypesOK /\ ~Search(t)
  BY Names, CalmFacts DEF Search
<1>1. LocalsOK(t)
  BY <1>0, LocalTypes
<1>2. Apart(t) /\ made' = made
  BY <1>0, StepApart, ReadingUnchanged DEF ReadingStep, InsertStep
<1>3. CASE Call(t) \/ ReadVersion(t) \/ ReadPrefix(t) \/ Find(t)
  BY <1>0, <1>3, ReadingTypes
<1>4. CASE LoadChild(t)
  <2>1. /\ on'[t] \in Live \cup Keys /\ ref'[t] \in Nodes \X Cells /\ depth'[t] \in Nat
        /\ on'[t] \in Keys => pc'[t] = "leaf"
    BY <1>4, LoadChildQuiet
  <2>2. /\ pc'[t] \in {"version", "leaf"} /\ i'[t] = 0 /\ byte'[t] = byte[t] /\ reg'[t] = reg[t]
        /\ diff'[t] = diff[t] /\ todo'[t] = todo[t]
    BY <1>0, <1>4 DEF LoadChild, GoDown, Goto, TypesOK
  <2>3. on'[t] \in Pointers /\ (on'[t] \in Nodes \/ pc'[t] = "leaf")
    BY <2>1, Names, CalmFacts
  <2>4. QED
    BY <1>1, <2>1, <2>2, <2>3, Numbers DEF LocalsOK, Labels
<1>5. CASE LockParent(t) \/ LockNode(t) \/ LockAbove(t) \/ Unlock(t)
  <2>1. /\ pc'[t] \in {"lock", "lockAbove", "publish", "unlockParent"}
        /\ pc[t] \in {"lockParent", "lockNode", "lockAbove", "unlock"}
        /\ on'[t] = on[t] /\ ref'[t] = ref[t] /\ depth'[t] = depth[t] /\ i'[t] = i[t] /\ byte'[t] = byte[t]
        /\ reg'[t] = reg[t] /\ diff'[t] = diff[t] /\ todo'[t] = todo[t]
    BY <1>0, <1>5 DEF LockParent, LockNode, LockAbove, Unlock, Goto, TypesOK, locals, path, hand
  <2>2. ~Splitting(t)
    BY <2>1 DEF Splitting, Adding
  <2>3. QED
    BY <1>0, <1>2, <2>1, <2>2, PassingTypes DEF Labels
<1>6. CASE Lock(t)
  <2>1. /\ pc'[t] = "position" /\ pc[t] = "lock" /\ on'[t] = on[t] /\ ref'[t] = ref[t] /\ depth'[t] = depth[t]
        /\ i'[t] = i[t] /\ byte'[t] = byte[t] /\ reg'[t] = reg[t] /\ diff'[t] = diff[t] /\ todo'[t] = <<key[t]>>
    BY <1>0, <1>6 DEF Lock, Goto, TypesOK, path
  <2>2. ~Splitting(t) /\ key[t] \in Keys
    BY <2>1, CalmFacts DEF Splitting, Adding
  <2>3. QED
    BY <1>1, <2>1, <2>2 DEF LocalsOK, Labels, Todos
<1>7. CASE Position(t) \/ LoadCount(t)
  <2>1. i'[t] \in 0 .. Room /\ byte'[t] \in Nat /\ reg'[t] \in 0 .. Room
    <3>1. CASE Position(t)
      <4>1. reg'[t] = reg[t]
        BY <3>1 DEF Position
      <4>2. QED
        BY <1>1, <3>1, <4>1, PositionQuiet DEF LocalsOK
    <3>2. CASE LoadCount(t)
      <4>1. i'[t] = i[t] /\ byte'[t] = byte[t]
        BY <3>2 DEF LoadCount
      <4>2. QED
        BY <1>1, <3>2, <4>1, LoadCountQuiet DEF LocalsOK
    <3>3. QED
      BY <1>7, <3>1, <3>2
  <2>2. /\ pc'[t] \in {"shift", "add"} /\ pc[t] \in {"position", "count"} /\ on'[t] = on[t] /\ ref'[t] = ref[t]
        /\ depth'[t] = depth[t] /\ diff'[t] = diff[t] /\ todo'[t] = todo[t]
    BY <1>0, <1>7 DEF Position, LoadCount, Goto, TypesOK, path
  <2>3. Splitting(t) => Splitting(t)'
    BY <1>2, <2>2 DEF Splitting, Adding
  <2>4. QED
    BY <1>1, <2>1, <2>2, <2>3 DEF LocalsOK, Labels
<1>8. CASE UnlockParent(t)
  BY <1>0, <1>8, ReturnChanges DEF UnlockParent, Labels
<1>9. QED
  BY <1>3, <1>4, <1>5, <1>6, <1>7, <1>8 DEF ReadingStep

LEMMA ReadingSound ==
  ASSUME Sound, ~Meeting, NEW t \in Inserters, ReadingStep(t)
  PROVE  Sound'
<1>1. PICK c \in Charts : Charted(c)
  BY DEF Sound
<1>2. Calm(c) /\ t \in Threads /\ ~crashed
  BY <1>1, Names DEF Sound, Calm
<1>3. /\ node' = node /\ made' = made /\ crashed' = crashed /\ stored' = stored
      /\ (HasStored(t)' <=> HasStored(t))
  BY <1>2, CalmFacts, ReadingUnchanged
<1>4. Apart(t) /\ Changes(t)
  BY <1>2, CalmFacts, StepApart, StepChanges DEF ReadingStep, InsertStep
<1>5. Quiet(t) /\ Knows(c, t)' /\ LocalsOK(t)'
  BY <1>2, ReadingQuiet, ReadingLocals
<1>6. TypesOK'
  BY <1>2, <1>3, <1>4, <1>5, CalmFacts, TypesKept DEF TypesOK
<1>7. KeysOK'
  BY <1>2, <1>3, <1>4, CalmFacts, KeysKept
<1>8. Charted(c)'
  BY <1>1, <1>2, <1>3, <1>4, <1>5, CalmFacts, QuietChart
<1>9. QED
  BY <1>1, <1>2, <1>3, <1>6, <1>7, <1>8 DEF Sound

LEMMA SplitTypes ==
  ASSUME NEW c, Calm(c), NEW t \in Inserters, SplitLeaf(t) \/ SplitPrefix(t)
  PROVE  /\ node' \in [Nodes -> NodeRecords] /\ LocalsOK(t)'
         /\ \A q \in Nodes \ (Live \cup {t}) : node'[q] = node[q]
         /\ made' = made \cup {t} /\ stored' = stored /\ crashed' = crashed
         /\ ~HasStored(t) /\ ~HasStored(t)'
<1> DEFINE m == ref[t][1]
           x == ref[t][2]
<1>1. TypesOK /\ t \in Threads /\ t \in Nodes /\ key[t] \in Keys /\ LocalsOK(t)
  BY CalmFacts, LocalTypes
<1>2. made' = made \cup {t} /\ stored' = stored /\ crashed' = crashed /\ pc[t] \in {"leaf", "publish"}
      /\ Splitting(t)' /\ pc'[t] \in {"position", "setLen"}
  BY <1>1 DEF SplitLeaf, SplitPrefix, Goto, TypesOK, Splitting, Adding
<1>3. /\ t \notin made /\ m \in Live /\ x \in Cells /\ m \in Nodes /\ on[t] \in Things /\ t # m
  BY <1>2, CellOfSplit, NewNode, CalmFacts DEF Parent
<1>4. CASE SplitLeaf(t)
  <2> DEFINE l == on[t]
             q == CommonPrefix(l, key[t], depth[t])
             common(j) == IF j < q THEN Byte(l, depth[t] + j) ELSE 0
             new == [Empty EXCEPT !.len = q, !.partial = [j \in DOMAIN @ |-> common(j)]]
             mid == [node EXCEPT ![t] = new]
  <2>1. /\ pc[t] = "leaf" /\ node' = [mid EXCEPT ![m].children[x] = t] /\ pc'[t] = "position"
        /\ on'[t] = l /\ ref'[t] = ref[t] /\ depth'[t] = depth[t] /\ i'[t] = i[t] /\ byte'[t] = byte[t]
        /\ reg'[t] = reg[t] /\ diff'[t] = q /\ todo'[t] = <<l, key[t]>>
    BY <1>1, <1>4 DEF SplitLeaf, Replace, Goto, TypesOK, path
  <2>2. /\ l \in Keys /\ l # key[t] /\ Bytes(key[t], l, depth[t]) /\ depth[t] \in Nat
    BY <1>1, <2>1, LeavesDiffer, CalmFacts DEF Knows, Divides, TypesOK
  <2>3. q \in Nat /\ depth[t] + q < KeyLen
    BY <1>1, <2>2, Differ
  <2>4. q \in 0 .. KeyLen
    BY <2>2, <2>3, Numbers
  <2> HIDE DEF q
  <2>5. new \in NodeRecords
    <3>1. [j \in 0 .. KeyLen - 1 |-> common(j)] \in [0 .. KeyLen - 1 -> Nat]
      <4>1. \A j \in 0 .. KeyLen - 1 : depth[t] + j \in Nat
        BY <2>2, Numbers
      <4>2. \A j \in 0 .. KeyLen - 1 : Byte(l, depth[t] + j) \in Nat
        BY <2>2, <4>1, Letters
      <4>3. QED
        BY <4>2
    <3> DEFINE rest == [j \in 0 .. KeyLen - 1 |-> common(j)]
    <3>2. Empty.partial = [j \in 0 .. KeyLen - 1 |-> 0]
      BY DEF Empty
    <3>3. new = [Empty EXCEPT !.len = q, !.partial = rest]
      BY <3>2
    <3>4. Empty \in NodeRecords
      <4>1. Null \in Pointers /\ 0 \in 0 .. Room /\ 0 \in 0 .. KeyLen
        BY Numbers DEF Pointers
      <4>2. QED
        BY <4>1 DEF NodeRecords, Empty
    <3> HIDE DEF new, rest
    <3>5. rest \in [0 .. KeyLen - 1 -> Nat]
      BY <3>1 DEF rest
    <3>6. QED
      BY <2>4, <3>3, <3>4, <3>5 DEF NodeRecords
  <2> HIDE DEF new
  <2>6. mid \in [Nodes -> NodeRecords] /\ mid[m] = node[m] /\ mid[m] \in NodeRecords
        /\ \A q2 \in Nodes \ {t} : mid[q2] = node[q2]
    BY <1>1, <1>3, <2>5 DEF TypesOK
  <2> HIDE DEF mid
  <2>7. [mid[m] EXCEPT !.children[x] = t] \in NodeRecords
    <3>1. t \in Pointers
      BY <1>1, Names
    <3>2. QED
      BY <1>3, <2>6, <3>1 DEF NodeRecords
  <2>8. node' = [mid EXCEPT ![m] = [mid[m] EXCEPT !.children[x] = t]]
    BY <1>3, <2>1, <2>6
  <2> DEFINE r == [mid[m] EXCEPT !.children[x] = t]
  <2> HIDE DEF r
  <2>9. node' \in [Nodes -> NodeRecords] /\ \A q2 \in Nodes \ {m} : node'[q2] = mid[q2]
    <3>1. node' = [mid EXCEPT ![m] = r] /\ r \in NodeRecords
      BY <2>7, <2>8 DEF r
    <3>2. QED
      BY <1>3, <2>6, <3>1
  <2>10. LocalsOK(t)'
    <3>1. <<l, key[t]>> \in Todos /\ l \in Pointers
      BY <1>1, <2>2, Names DEF Todos
    <3> HIDE DEF l
    <3>2. QED
      BY <1>1, <1>2, <2>1, <2>4, <3>1 DEF LocalsOK, Labels
  <2>11. QED
    BY <1>2, <1>3, <2>6, <2>9, <2>10 DEF HasStored
<1>5. CASE SplitPrefix(t)
  <2> DEFINE r == [node[m] EXCEPT !.children[x] = t]
  <2>1. /\ node' = [node EXCEPT ![m].children[x] = t] /\ pc'[t] = "setLen"
        /\ on'[t] = on[t] /\ ref'[t] = ref[t] /\ depth'[t] = depth[t] /\ i'[t] = i[t] /\ byte'[t] = byte[t]
        /\ reg'[t] = reg[t] /\ diff'[t] = diff[t] /\ todo'[t] = <<on[t], key[t]>>
    BY <1>1, <1>5 DEF SplitPrefix, Replace, Goto, TypesOK, path
  <2>2. node \in [Nodes -> NodeRecords] /\ node[m] \in NodeRecords /\ t \in Pointers
    BY <1>1, <1>3, Names DEF TypesOK
  <2>3. r \in NodeRecords
    BY <1>3, <2>2 DEF NodeRecords
  <2>4. node' = [node EXCEPT ![m] = r]
    BY <1>3, <2>1, <2>2
  <2> HIDE DEF r
  <2>5. node' \in [Nodes -> NodeRecords] /\ \A q \in Nodes \ {m} : node'[q] = node[q]
    BY <1>1, <1>3, <2>3, <2>4, NodeChanged
  <2>6. LocalsOK(t)'
    <3>1. <<on[t], key[t]>> \in Todos
      BY <1>1 DEF LocalsOK, Todos
    <3>2. QED
      BY <1>1, <1>2, <2>1, <3>1 DEF LocalsOK, Labels
  <2>7. QED
    BY <1>2, <1>3, <2>5, <2>6 DEF HasStored
<1>6. QED
  BY <1>4, <1>5

(* The steps that write to the node that t adds to, or to a prefix.        *)
LEMMA WritingTypes ==
  ASSUME NEW c, Calm(c), NEW t \in Inserters,
         SetLen(t) \/ SetPartial(t) \/ ShortenLen(t) \/ ShortenPartial(t) \/ Shift(t) \/ Put(t)
  PROVE  /\ LocalsOK(t)'
         /\ \A q \in Nodes \ Live : node'[q] = node[q]
         /\ made' = made /\ stored' = stored /\ ~HasStored(t) /\ ~HasStored(t)'
<1>1. TypesOK /\ t \in Threads /\ LocalsOK(t)
  BY CalmFacts, LocalTypes
<1>2. made' = made /\ stored' = stored
  BY DEF SetLen, SetPartial, ShortenLen, ShortenPartial, Shift, Put
<1>3. /\ pc[t] \in {"setLen", "setPartial", "shortenLen", "shortenPartial", "shift", "put"}
      /\ pc'[t] \in {"setPartial", "position", "shortenPartial", "put", "count"}
      /\ on'[t] = on[t] /\ ref'[t] = ref[t] /\ depth'[t] = depth[t] /\ i'[t] \in {i[t], 0}
      /\ byte'[t] \in {byte[t], 0} /\ reg'[t] = reg[t] /\ diff'[t] = diff[t] /\ todo'[t] = todo[t]
  <2>1. CASE SetLen(t) \/ SetPartial(t) \/ ShortenLen(t) \/ ShortenPartial(t) \/ Shift(t)
    BY <1>1, <2>1 DEF SetLen, SetPartial, ShortenLen, ShortenPartial, Shift, Goto, TypesOK, locals, path, hand
  <2>2. CASE Put(t)
    BY <1>1, <2>2 DEF Put, Goto, TypesOK, path
  <2>3. QED
    BY <2>1, <2>2
<1>4. LocalsOK(t)'
  <2>1. Splitting(t) => Splitting(t)'
    BY <1>2, <1>3 DEF Splitting, Adding
  <2>2. QED
    BY <1>1, <1>3, <2>1, Numbers DEF LocalsOK, Labels
<1>5. \A q \in Nodes \ Live : node'[q] = node[q]
  <2>1. CASE SetLen(t) \/ SetPartial(t)
    <3>1. t \in Live
      BY <2>1, CalmFacts DEF SetLen, SetPartial, Knows, Splits, Live
    <3>2. QED
      BY <1>1, <2>1, <3>1 DEF SetLen, SetPartial, TypesOK
  <2>2. CASE ShortenLen(t) \/ ShortenPartial(t)
    <3>1. Splitting(t) /\ on[t] \in Nodes
      BY <2>2, CalmFacts DEF ShortenLen, ShortenPartial, Knows, Splits, Splitting
    <3>2. on[t] \in Live
      BY <3>1, OldPrefix
    <3>3. QED
      BY <1>1, <2>2, <3>2 DEF ShortenLen, ShortenPartial, TypesOK
  <2>3. CASE Shift(t) \/ Put(t)
    <3>1. Adding(t)
      BY <2>3 DEF Shift, Put, Adding
    <3>2. Into(t) \in Live
      BY <3>1, AddingFacts
    <3>3. QED
      BY <1>1, <2>3, <3>2 DEF Shift, Put, TypesOK
  <2>4. QED
    BY <2>1, <2>2, <2>3
<1>6. QED
  BY <1>2, <1>3, <1>4, <1>5 DEF HasStored

LEMMA StoreTypes ==
  ASSUME NEW c, Calm(c), NEW t \in Inserters, StoreCount(t)
  PROVE  /\ LocalsOK(t)'
         /\ \A q \in Nodes \ Live : node'[q] = node[q]
         /\ made' = made /\ crashed' = crashed
         /\ \/ stored' = stored /\ ~HasStored(t) /\ ~HasStored(t)'
            \/ stored' = stored \cup {key[t]} /\ HasStored(t)'
<1>1. TypesOK /\ t \in Threads /\ LocalsOK(t) /\ key[t] \in Keys
  BY CalmFacts, LocalTypes
<1>2. made' = made /\ crashed' = crashed /\ pc[t] = "add" /\ Adding(t)
  BY DEF StoreCount, Adding
<1>3. \A q \in Nodes \ Live : node'[q] = node[q]
  <2>1. Into(t) \in Live
    BY <1>2, AddingFacts
  <2>2. QED
    BY <1>1, <2>1 DEF StoreCount, TypesOK
<1>4. CASE Len(todo[t]) = 2
  <2>1. t \in made /\ Tail(todo[t]) = <<key[t]>>
    BY <1>2, <1>4, AddingFacts
  <2>2. /\ pc'[t] \in {"shortenLen", "position"} /\ stored' = stored
        /\ on'[t] = on[t] /\ ref'[t] = ref[t] /\ depth'[t] = depth[t] /\ i'[t] = i[t] /\ byte'[t] = byte[t]
        /\ reg'[t] = reg[t] /\ diff'[t] = diff[t] /\ todo'[t] = <<key[t]>>
    BY <1>1, <1>4, <2>1 DEF StoreCount, Goto, TypesOK, path
  <2>3. Splitting(t)'
    BY <1>2, <2>1, <2>2 DEF Splitting, Adding
  <2>4. LocalsOK(t)'
    BY <1>1, <2>2, <2>3 DEF LocalsOK, Labels, Todos
  <2>5. QED
    BY <1>2, <1>3, <2>2, <2>4 DEF HasStored
<1>5. CASE Len(todo[t]) # 2
  <2>1. stored' = stored \cup {key[t]}
    BY <1>5 DEF StoreCount
  <2>2. CASE on[t] \in Nodes
    <3>1. /\ pc'[t] = "unlock"
          /\ on'[t] = on[t] /\ ref'[t] = ref[t] /\ depth'[t] = depth[t] /\ i'[t] = i[t] /\ byte'[t] = byte[t]
          /\ reg'[t] = reg[t] /\ diff'[t] = diff[t] /\ todo'[t] = todo[t]
      BY <1>1, <1>5, <2>2 DEF StoreCount, Goto, TypesOK, locals, path, hand
    <3>2. LocalsOK(t)'
      BY <1>1, <2>2, <3>1 DEF LocalsOK, Labels
    <3>3. QED
      BY <1>2, <1>3, <2>1, <3>1, <3>2 DEF HasStored
  <2>3. CASE on[t] \notin Nodes
    <3>1. Return(t, "done")
      BY <1>5, <2>3 DEF StoreCount
    <3>2. LocalsOK(t)' /\ pc'[t] = "done"
      BY <1>1, <3>1, ReturnChanges, GotoApart DEF Return, Labels
    <3>3. QED
      BY <1>2, <1>3, <2>1, <3>2 DEF HasStored
  <2>4. QED
    BY <2>2, <2>3
<1>6. QED
  BY <1>4, <1>5

(* How the step of an insert changes the chart.                            *)
Redraws(c, d, t) == d = c \/ Stores(c, d, t, Into(t)) \/ Splices(c, d, t)

LEMMA WritingCharted ==
  ASSUME NEW c, Calm(c), NEW t \in Inserters, WritingStep(t), ~Meeting', ~crashed
  PROVE  (\E d \in Charts : Charted(d)' /\ Redraws(c, d, t)) /\ ~crashed' /\ node' \in [Nodes -> NodeRecords]
<1>0. c \in Charts
  BY CalmFacts
<1>1. CASE SplitLeaf(t)
  BY <1>1, SplitLeafCharted, SplitTypes DEF Redraws
<1>2. CASE SplitPrefix(t)
  BY <1>2, SplitPrefixCharted, SplitTypes DEF Redraws
<1>3. CASE SetLen(t) \/ SetPartial(t)
  <2>1. ~crashed'
    BY <1>3 DEF SetLen, SetPartial
  <2>2. QED
    BY <1>0, <1>3, <2>1, SetLenCharted, SetPartialCharted DEF Redraws
<1>4. CASE ShortenLen(t)
  BY <1>0, <1>4, ShortenLenCharted DEF Redraws
<1>5. CASE ShortenPartial(t)
  <2>1. ~crashed'
    BY <1>5 DEF ShortenPartial
  <2>2. QED
    BY <1>0, <1>5, <2>1, ShortenPartialCharted DEF Redraws
<1>6. CASE Shift(t)
  BY <1>0, <1>6, ShiftCharted DEF Redraws
<1>7. CASE Put(t)
  <2>1. ~crashed'
    BY <1>7 DEF Put
  <2>2. QED
    BY <1>7, <2>1, PutCharted DEF Redraws
<1>8. CASE StoreCount(t)
  <2>1. ~crashed'
    BY <1>8 DEF StoreCount
  <2>2. QED
    BY <1>0, <1>8, <2>1, StoreCountCharted DEF Redraws
<1>9. QED
  BY <1>1, <1>2, <1>3, <1>4, <1>5, <1>6, <1>7, <1>8 DEF WritingStep

LEMMA WritingSound ==
  ASSUME Sound, ~Meeting, ~Meeting', NEW t \in Inserters, WritingStep(t)
  PROVE  Sound'
<1>1. PICK c \in Charts : Charted(c)
  BY DEF Sound
<1>2. Calm(c) /\ t \in Threads /\ ~crashed /\ TypesOK /\ KeysOK
  BY <1>1, Names DEF Sound, Calm
<1>3. (\E d \in Charts : Charted(d)') /\ ~crashed' /\ node' \in [Nodes -> NodeRecords]
  BY <1>2, WritingCharted
<1>4. Apart(t) /\ Changes(t)
  BY <1>2, StepApart, StepChanges DEF WritingStep, InsertStep
<1>5. /\ LocalsOK(t)' /\ \A q \in Nodes \ (Live \cup {t}) : node'[q] = node[q]
      /\ made' = made \/ made' = made \cup {t}
      /\ made' = made => \A q \in Nodes \ Live : node'[q] = node[q]
      /\ \/ stored' = stored /\ (HasStored(t)' <=> HasStored(t))
         \/ stored' = stored \cup {key[t]} /\ HasStored(t)'
  <2>1. CASE SplitLeaf(t) \/ SplitPrefix(t)
    <3>1. t \notin made
      BY <1>2, <2>1, CellOfSplit DEF SplitLeaf, SplitPrefix
    <3>2. QED
      BY <1>2, <2>1, <3>1, SplitTypes
  <2>2. CASE SetLen(t) \/ SetPartial(t) \/ ShortenLen(t) \/ ShortenPartial(t) \/ Shift(t) \/ Put(t)
    BY <1>2, <2>2, WritingTypes
  <2>3. CASE StoreCount(t)
    BY <1>2, <2>3, StoreTypes
  <2>4. QED
    BY <2>1, <2>2, <2>3 DEF WritingStep
<1>6. made' \subseteq Inserters /\ \A u \in Inserters \ made' : node'[u] = Empty
  <2>1. made' \subseteq Inserters
    BY <1>2, <1>5 DEF TypesOK
  <2>2. ASSUME NEW u \in Inserters \ made' PROVE node'[u] = Empty
    <3>1. u \in Nodes \ Live /\ node[u] = Empty /\ (made' # made => u # t)
      BY <1>2, <1>5, <2>2, Names DEF Live, TypesOK
    <3>2. QED
      BY <1>5, <3>1
  <2>3. QED
    BY <2>1, <2>2
<1>7. TypesOK'
  BY <1>2, <1>3, <1>4, <1>5, <1>6, TypesKept
<1>8. KeysOK'
  BY <1>2, <1>4, <1>5, KeysKept
<1>9. QED
  BY <1>3, <1>7, <1>8 DEF Sound

-------------------------------------------------------------------------------
(* The given tree has a chart.                                             *)
LEMMA GivenTree ==
  \E above \in [Given -> Nat], sample \in [Given -> Loaded], up \in [Things -> Given \cup {Null}] :
    /\ above[Root] = 0
    /\ \A n \in Given :
         /\ Tree[n] \in NodeRecords /\ above[n] + Tree[n].len < KeyLen
         /\ \A j \in 0 .. Tree[n].len - 1 : Tree[n].partial[j] = ByteOf[sample[n]][above[n] + j]
         /\ \A j, l \in Upto(Tree[n].count) : j < l => Tree[n].keys[j] < Tree[n].keys[l]
         /\ \A l \in Upto(Tree[n].count) : up[Tree[n].children[l]] = n /\ Tree[n].children[l] \in Things
    /\ \A p \in Things : up[p] # Null <=> p \in (Given \ {Root}) \cup Loaded
    /\ \A p \in (Given \ {Root}) \cup Loaded :
         LET s == IF p \in Given THEN sample[p] ELSE p
             n == up[p]
             below == above[n] + Tree[n].len
         IN /\ n \in Given
            /\ Bytes(s, sample[n], below)
            /\ p \in Given => above[p] = below + 1
            /\ \A l \in Upto(Tree[n].count) : Tree[n].children[l] = p => Tree[n].keys[l] = ByteOf[s][below]
            /\ \E l \in Upto(Tree[n].count) : Tree[n].children[l] = p
<1> DEFINE Children == (Given \ {Root}) \cup Loaded
<1>1. PICK above \in [Given -> 0 .. KeyLen - 1], sample \in [Given -> Loaded] :
        /\ above[Root] = 0
        /\ \A n \in Given :
             /\ above[n] + Tree[n].len < KeyLen
             /\ \A j \in 0 .. Tree[n].len - 1 : Tree[n].partial[j] = ByteOf[sample[n]][above[n] + j]
             /\ \A l \in 0 .. Tree[n].count - 1 :
                  /\ \A j \in 0 .. l - 1 : Tree[n].keys[j] < Tree[n].keys[l]
                  /\ Tree[n].children[l] \in (Given \ {Root}) \cup Loaded
                  /\ Bytes(IF Tree[n].children[l] \in Given THEN sample[Tree[n].children[l]]
                                                            ELSE Tree[n].children[l],
                           sample[n], above[n] + Tree[n].len)
                  /\ Tree[n].keys[l] =
                       ByteOf[IF Tree[n].children[l] \in Given THEN sample[Tree[n].children[l]]
                                                              ELSE Tree[n].children[l]]
                             [above[n] + Tree[n].len]
                  /\ Tree[n].children[l] \in Given =>
                       above[Tree[n].children[l]] = above[n] + Tree[n].len + 1
        /\ \A p \in (Given \ {Root}) \cup Loaded :
             \E n \in Given, j \in Cells :
               /\ j \in 0 .. Tree[n].count - 1 /\ Tree[n].children[j] = p
               /\ \A m \in Given, l \in Cells :
                    l \in 0 .. Tree[m].count - 1 /\ Tree[m].children[l] = p => m = n /\ l = j
  BY TreeAssumption, Zenon
<1>2. \A n \in Given : Tree[n] \in NodeRecords /\ Tree[n].count \in Nat /\ Tree[n].count <= Room
  BY TreeAssumption, Fields
<1>3. \A n \in Given : Upto(Tree[n].count) = 0 .. Tree[n].count - 1 /\ Upto(Tree[n].count) \subseteq Cells
  BY <1>2, Numbers DEF Upto
<1>4. Children \subseteq Things /\ Null \notin Given
  BY SplitAssumption, Names DEF Things
<1>5. ASSUME NEW n \in Given, NEW l \in Upto(Tree[n].count)
       PROVE  /\ \A j \in 0 .. l - 1 : Tree[n].keys[j] < Tree[n].keys[l]
              /\ Tree[n].children[l] \in (Given \ {Root}) \cup Loaded
              /\ Bytes(IF Tree[n].children[l] \in Given THEN sample[Tree[n].children[l]]
                                                        ELSE Tree[n].children[l],
                       sample[n], above[n] + Tree[n].len)
              /\ Tree[n].keys[l] =
                   ByteOf[IF Tree[n].children[l] \in Given THEN sample[Tree[n].children[l]]
                                                          ELSE Tree[n].children[l]]
                         [above[n] + Tree[n].len]
              /\ Tree[n].children[l] \in Given =>
                   above[Tree[n].children[l]] = above[n] + Tree[n].len + 1
  <2>1. l \in 0 .. Tree[n].count - 1
    BY <1>3
  <2>2. QED
    BY <1>1, <2>1, Zenon
<1> DEFINE In(p, n) == \E l \in Upto(Tree[n].count) : Tree[n].children[l] = p
           lift == [p \in Things |-> IF p \in Children THEN CHOOSE n \in Given : In(p, n) ELSE Null]
<1>6. ASSUME NEW p \in Children
      PROVE  lift[p] \in Given /\ In(p, lift[p]) /\ \A n \in Given : In(p, n) => lift[p] = n
  <2>1. PICK n \in Given, j \in Cells :
          /\ j \in 0 .. Tree[n].count - 1 /\ Tree[n].children[j] = p
          /\ \A m \in Given, l \in Cells :
               l \in 0 .. Tree[m].count - 1 /\ Tree[m].children[l] = p => m = n /\ l = j
    BY <1>1
  <2>2. In(p, n) /\ \A m \in Given : In(p, m) => m = n
    BY <1>3, <2>1
  <2> HIDE DEF In
  <2>3. lift[p] = CHOOSE m \in Given : In(p, m)
    BY <1>4
  <2>4. lift[p] = n
    BY <2>2, <2>3
  <2>5. QED
    BY <2>2, <2>4
<1>7. \A p \in Things : p \notin Children => lift[p] = Null
  OBVIOUS
<1>8. lift \in [Things -> Given \cup {Null}]
  <2> HIDE DEF In
  <2>1. \A p \in Things : lift[p] \in Given \cup {Null}
    BY <1>6, <1>7
  <2>2. QED
    BY <2>1
<1>9. PICK up \in [Things -> Given \cup {Null}] :
         /\ \A p \in Children : up[p] \in Given /\ In(p, up[p]) /\ \A n \in Given : In(p, n) => up[p] = n
         /\ \A p \in Things : p \notin Children => up[p] = Null
  <2> HIDE DEF lift, In
  <2>1. QED
    BY <1>6, <1>7, <1>8
<1>10. above \in [Given -> Nat]
  BY Numbers
<1>11. ASSUME NEW n \in Given
      PROVE  /\ \A j, l \in Upto(Tree[n].count) : j < l => Tree[n].keys[j] < Tree[n].keys[l]
             /\ \A l \in Upto(Tree[n].count) : up[Tree[n].children[l]] = n /\ Tree[n].children[l] \in Things
  <2>1. ASSUME NEW l \in Upto(Tree[n].count)
        PROVE  up[Tree[n].children[l]] = n /\ Tree[n].children[l] \in Things
    <3>1. Tree[n].children[l] \in Children
      BY <1>5
    <3>2. In(Tree[n].children[l], n)
      OBVIOUS
    <3>3. QED
      BY <1>4, <1>9, <3>1, <3>2
  <2>2. ASSUME NEW j \in Upto(Tree[n].count), NEW l \in Upto(Tree[n].count), j < l
        PROVE  Tree[n].keys[j] < Tree[n].keys[l]
    <3>1. l \in 0 .. Tree[n].count - 1 /\ j \in 0 .. l - 1
      BY <1>2, <1>3, <2>2
    <3>2. QED
      BY <1>1, <3>1
  <2>3. QED
    BY <2>1, <2>2
<1>12. ASSUME NEW p \in (Given \ {Root}) \cup Loaded
       PROVE  LET s == IF p \in Given THEN sample[p] ELSE p
                  n == up[p]
                  below == above[n] + Tree[n].len
              IN /\ n \in Given
                 /\ Bytes(s, sample[n], below)
                 /\ p \in Given => above[p] = below + 1
                 /\ \A l \in Upto(Tree[n].count) : Tree[n].children[l] = p => Tree[n].keys[l] = ByteOf[s][below]
                 /\ \E l \in Upto(Tree[n].count) : Tree[n].children[l] = p
  <2> DEFINE s == IF p \in Given THEN sample[p] ELSE p
  <2>1. PICK n \in Given : n = up[p] /\ In(p, n)
    BY <1>9
  <2>2. PICK l \in Upto(Tree[n].count) : Tree[n].children[l] = p
    BY <2>1
  <2>3. Bytes(s, sample[n], above[n] + Tree[n].len) /\ (p \in Given => above[p] = above[n] + Tree[n].len + 1)
    BY <1>5, <2>2, Zenon
  <2>4. ASSUME NEW j \in Upto(Tree[n].count), Tree[n].children[j] = p
        PROVE  Tree[n].keys[j] = ByteOf[s][above[n] + Tree[n].len]
    BY <1>5, <2>4, Zenon
  <2> HIDE DEF s
  <2>5. QED
    BY <2>1, <2>2, <2>3, <2>4 DEF s
<1>13. \A p \in Things : up[p] # Null <=> p \in (Given \ {Root}) \cup Loaded
  BY <1>4, <1>9
<1> HIDE DEF In
<1>14. \A n \in Given :
         /\ Tree[n] \in NodeRecords /\ above[n] + Tree[n].len < KeyLen
         /\ \A j \in 0 .. Tree[n].len - 1 : Tree[n].partial[j] = ByteOf[sample[n]][above[n] + j]
         /\ \A j, l \in Upto(Tree[n].count) : j < l => Tree[n].keys[j] < Tree[n].keys[l]
         /\ \A l \in Upto(Tree[n].count) : up[Tree[n].children[l]] = n /\ Tree[n].children[l] \in Things
  BY <1>1, <1>2, <1>11, Zenon
<1>15. above[Root] = 0
  BY <1>1
<1>16. sample \in [Given -> Loaded]
  OBVIOUS
<1> DEFINE B(a, f, u) ==
    /\ a[Root] = 0
    /\ \A n \in Given :
         /\ Tree[n] \in NodeRecords /\ a[n] + Tree[n].len < KeyLen
         /\ \A j \in 0 .. Tree[n].len - 1 : Tree[n].partial[j] = ByteOf[f[n]][a[n] + j]
         /\ \A j, l \in Upto(Tree[n].count) : j < l => Tree[n].keys[j] < Tree[n].keys[l]
         /\ \A l \in Upto(Tree[n].count) : u[Tree[n].children[l]] = n /\ Tree[n].children[l] \in Things
    /\ \A p \in Things : u[p] # Null <=> p \in (Given \ {Root}) \cup Loaded
    /\ \A p \in (Given \ {Root}) \cup Loaded :
         LET s == IF p \in Given THEN f[p] ELSE p
             n == u[p]
             below == a[n] + Tree[n].len
         IN /\ n \in Given
            /\ Bytes(s, f[n], below)
            /\ p \in Given => a[p] = below + 1
            /\ \A l \in Upto(Tree[n].count) : Tree[n].children[l] = p => Tree[n].keys[l] = ByteOf[s][below]
            /\ \E l \in Upto(Tree[n].count) : Tree[n].children[l] = p
<1>17. B(above, sample, up)
  BY <1>12, <1>13, <1>14, <1>15, Zenon
<1> HIDE DEF B
<1>18. \E a \in [Given -> Nat], f \in [Given -> Loaded], u \in [Things -> Given \cup {Null}] : B(a, f, u)
  BY <1>10, <1>16, <1>17
<1>19. QED
  BY <1>18, Zenon DEF B

(* In the beginning no insert is anywhere but at the root.                 *)
LEMMA InitSound == Init => IInv
<1>1. SUFFICES ASSUME Init PROVE IInv
  OBVIOUS
<1>2. /\ \A t \in Threads : /\ pc[t] = "start" /\ on[t] = Root /\ depth[t] = 0 /\ diff[t] = 0
      /\ made = {} /\ stored = Loaded /\ crashed = FALSE /\ clash = FALSE
      /\ \A n \in Given : node[n] = Tree[n]
  <2>1. \A t \in Threads : pc[t] = "start" /\ on[t] = Root /\ depth[t] = 0 /\ diff[t] = 0
    BY <1>1 DEF Init
  <2>2. made = {} /\ stored = Loaded /\ crashed = FALSE /\ clash = FALSE
    BY <1>1 DEF Init
  <2>3. \A n \in Given : node[n] = Tree[n]
    BY <1>1, Names DEF Init
  <2>4. QED
    BY <2>1, <2>2, <2>3
<1>3. /\ \A t \in Inserters : t \in Threads /\ ~Adding(t) /\ ~Splitting(t) /\ ~HasPut(t) /\ ~Waiting(t)
                              /\ ~Unshortened(t) /\ ~HalfShortened(t) /\ ~Replacing(t) /\ pc[t] = "start"
      /\ Live = Given
  BY <1>2, Names DEF Adding, Splitting, HasPut, Waiting, Unshortened, HalfShortened, Replacing, Live
<1>4. ~Meeting
  BY <1>3 DEF Meeting, InTheWay, AddsTo, Shortens
<1>5. key \in [Threads -> Keys] /\ KeysOK
  <2>1. PICK scene \in Scenes : \E targets \in [Searchers -> scene.targets] :
          key = [t \in Threads |-> IF Search(t) THEN targets[t] ELSE scene.inserts[t]]
    BY <1>1 DEF Init
  <2>2. PICK targets \in [Searchers -> scene.targets] :
          key = [t \in Threads |-> IF Search(t) THEN targets[t] ELSE scene.inserts[t]]
    BY <2>1
  <2>3. /\ scene.inserts \in [Inserters -> Keys \ Loaded] /\ scene.targets \subseteq Keys
        /\ \A t, u \in Inserters : t # u => scene.inserts[t] # scene.inserts[u]
    BY SplitAssumption
  <2>4. \A t \in Inserters : key[t] = scene.inserts[t]
    BY <2>2, Names DEF Search
  <2>5. key \in [Threads -> Keys]
    BY <2>2, <2>3 DEF Threads, Search
  <2>6. {u \in Inserters : pc[u] \in {"unlock", "unlockParent", "done"}} = {}
    BY <1>3
  <2>7. QED
    BY <1>2, <2>3, <2>4, <2>5, <2>6 DEF KeysOK
<1>6. TypesOK
  <2>1. Null \in Pointers /\ 0 \in 0 .. Room /\ 0 \in 0 .. KeyLen /\ Root \in Pointers /\ Root \in Nodes
        /\ TopRef \in Nodes \X Cells
    BY Names, Numbers DEF Pointers, TopRef
  <2>2. Empty \in NodeRecords
    BY <2>1 DEF NodeRecords, Empty
  <2>3. \A n \in Given : Tree[n] \in NodeRecords
    BY TreeAssumption
  <2>4. node \in [Nodes -> NodeRecords] /\ \A t \in Inserters \ made : node[t] = Empty
    BY <1>1, <2>2, <2>3, Names DEF Init
  <2>5. /\ pc \in [Threads -> Labels] /\ on \in [Threads -> Pointers] /\ ref \in [Threads -> Nodes \X Cells]
        /\ depth \in [Threads -> Nat] /\ i \in [Threads -> 0 .. Room] /\ byte \in [Threads -> Nat]
        /\ reg \in [Threads -> 0 .. Room] /\ diff \in [Threads -> 0 .. KeyLen]
        /\ todo \in [Threads -> {<< >>} \cup {<<p>> : p \in Keys} \cup (Pointers \X Keys)]
    BY <1>1, <2>1 DEF Init, Labels
  <2>6. QED
    BY <1>2, <1>5, <2>1, <2>4, <2>5 DEF TypesOK
<1>7. \E c \in Charts : Charted(c)
  <2>1. PICK above \in [Given -> Nat], sample \in [Given -> Loaded], up \in [Things -> Given \cup {Null}] :
          /\ above[Root] = 0
          /\ \A n \in Given :
               /\ Tree[n] \in NodeRecords /\ above[n] + Tree[n].len < KeyLen
               /\ \A j \in 0 .. Tree[n].len - 1 : Tree[n].partial[j] = ByteOf[sample[n]][above[n] + j]
               /\ \A j, l \in Upto(Tree[n].count) : j < l => Tree[n].keys[j] < Tree[n].keys[l]
               /\ \A l \in Upto(Tree[n].count) : up[Tree[n].children[l]] = n /\ Tree[n].children[l] \in Things
          /\ \A p \in Things : up[p] # Null <=> p \in (Given \ {Root}) \cup Loaded
          /\ \A p \in (Given \ {Root}) \cup Loaded :
               LET s == IF p \in Given THEN sample[p] ELSE p
                   n == up[p]
                   below == above[n] + Tree[n].len
               IN /\ n \in Given
                  /\ Bytes(s, sample[n], below)
                  /\ p \in Given => above[p] = below + 1
                  /\ \A l \in Upto(Tree[n].count) : Tree[n].children[l] = p => Tree[n].keys[l] = ByteOf[s][below]
                  /\ \E l \in Upto(Tree[n].count) : Tree[n].children[l] = p
    BY GivenTree
  <2>2. /\ Given \subseteq Nodes /\ Root \in Given /\ Nodes \subseteq Things /\ Keys \subseteq Things
        /\ Loaded \subseteq Keys /\ Keys \cap Nodes = {} /\ Null \notin Given /\ Given \cap Keys = {}
    BY SplitAssumption, Names
  <2> DEFINE c == [up |-> up,
                   sample |-> [p \in Things |-> IF p \in Keys THEN p
                                                ELSE IF p \in Given THEN sample[p] ELSE sample[Root]],
                   from |-> [n \in Nodes |-> IF n \in Given THEN above[n] ELSE 0],
                   to |-> [n \in Nodes |-> IF n \in Given THEN above[n] + Tree[n].len ELSE 0]]
  <2>3. \A n \in Given : above[n] \in Nat /\ Tree[n].len \in Nat /\ sample[n] \in Keys
    BY <2>1, <2>2, Fields
  <2>4. c \in Charts
    <3>1. up \in [Things -> Nodes \cup {Null}]
      BY <2>2
    <3>2. [p \in Things |-> IF p \in Keys THEN p ELSE IF p \in Given THEN sample[p] ELSE sample[Root]]
            \in [Things -> Keys]
      BY <2>2, <2>3
    <3>3. /\ [n \in Nodes |-> IF n \in Given THEN above[n] ELSE 0] \in [Nodes -> Nat]
          /\ [n \in Nodes |-> IF n \in Given THEN above[n] + Tree[n].len ELSE 0] \in [Nodes -> Nat]
      BY <2>3
    <3>4. QED
      BY <3>1, <3>2, <3>3 DEF Charts
  <2>5. /\ c.up = up
        /\ \A p \in Given : c.sample[p] = sample[p]
        /\ \A k \in Keys : c.sample[k] = k
        /\ \A n \in Given : c.from[n] = above[n] /\ c.to[n] = above[n] + Tree[n].len
    BY <2>2
  <2> HIDE DEF c
  <2>6. IsTree(c)
    <3>1. Root \in Live /\ c.up[Root] = Null /\ c.from[Root] = 0 /\ c.to[Root] = 0
      <4>1. Tree[Root].len = 0
        BY TreeAssumption
      <4>2. Root \notin (Given \ {Root}) \cup Loaded /\ Root \in Things
        BY <2>2
      <4>3. QED
        BY <1>3, <2>1, <2>2, <2>5, <4>1, <4>2
    <3>2. /\ \A n \in Nodes \ Live : c.up[n] = Null
          /\ \A n \in Live \ {Root} : c.up[n] # Null
      BY <1>3, <2>1, <2>2, <2>5
    <3>3. \A n \in Live : c.from[n] <= c.to[n] /\ c.to[n] < KeyLen
      BY <1>3, <2>1, <2>3, <2>5
    <3>4. ASSUME NEW p \in Things, c.up[p] # Null PROVE Under(c, p, c.up[p])
      <4>1. p \in (Given \ {Root}) \cup Loaded
        BY <2>1, <2>5, <3>4
      <4>2. PICK n \in Given : n = up[p]
        BY <2>1, <4>1
      <4>3. /\ Bytes(IF p \in Given THEN sample[p] ELSE p, sample[n], above[n] + Tree[n].len)
            /\ p \in Given => above[p] = above[n] + Tree[n].len + 1
        BY <2>1, <4>1, <4>2
      <4>4. c.sample[p] = IF p \in Given THEN sample[p] ELSE p
        BY <2>2, <2>5, <4>1
      <4>5. p \in Nodes => p \in Given
        BY <2>2, <4>1
      <4>6. QED
        BY <1>3, <2>5, <4>2, <4>3, <4>4, <4>5 DEF Under
    <3>5. \A k \in Keys : c.up[k] # Null <=> k \in Loaded \/ \E t \in Inserters : key[t] = k /\ HasPut(t)
      BY <1>3, <2>1, <2>2, <2>5
    <3>6. QED
      BY <2>5, <3>1, <3>2, <3>3, <3>4, <3>5 DEF IsTree
  <2>7. ASSUME NEW n \in Live PROVE CellsOK(c, n)
    <3>1. n \in Given /\ node[n] = Tree[n]
      BY <1>2, <1>3, <2>7
    <3>2. InCells(c, n) = {p \in Things : up[p] = n}
      BY <1>3, <2>5 DEF InCells
    <3>3. ASSUME NEW p \in Things, up[p] = n
          PROVE  /\ \E l \in Upto(Tree[n].count) : Tree[n].children[l] = p
                 /\ \A l \in Upto(Tree[n].count) : Tree[n].children[l] = p => Tree[n].keys[l] = ByteIn(c, p, n)
      <4>1. p \in (Given \ {Root}) \cup Loaded
        BY <2>1, <2>2, <3>1, <3>3
      <4>2. c.sample[p] = IF p \in Given THEN sample[p] ELSE p
        BY <2>2, <2>5, <4>1
      <4>3. c.to[n] = above[n] + Tree[n].len
        BY <2>5, <3>1
      <4>4. /\ \A l \in Upto(Tree[up[p]].count) : Tree[up[p]].children[l] = p =>
                 Tree[up[p]].keys[l] = ByteOf[IF p \in Given THEN sample[p] ELSE p][above[up[p]] + Tree[up[p]].len]
            /\ \E l \in Upto(Tree[up[p]].count) : Tree[up[p]].children[l] = p
        BY <2>1, <4>1, Zenon
      <4>5. QED
        BY <3>3, <4>2, <4>3, <4>4 DEF ByteIn
    <3>4. \A l \in Upto(Tree[n].count) : up[Tree[n].children[l]] = n /\ Tree[n].children[l] \in Things
      BY <2>1, <3>1
    <3>5. \A j, l \in Upto(Tree[n].count) : j < l => Tree[n].keys[j] < Tree[n].keys[l]
      BY <2>1, <3>1
    <3>6. Filled(c, n, Upto(node[n].count))
      BY <3>1, <3>2, <3>3, <3>4, <3>5 DEF Filled
    <3>7. QED
      BY <3>6 DEF CellsOK
  <2>8. ASSUME NEW n \in Live PROVE PrefixOK(c, n)
    <3>1. n \in Given /\ node[n] = Tree[n]
      BY <1>2, <1>3, <2>8
    <3>2. c.to[n] - c.from[n] = Tree[n].len
      BY <2>3, <2>5, <3>1
    <3>3. LenFrom(c, n, c.from[n]) /\ PartialFrom(c, n, c.from[n])
      BY <2>1, <2>5, <3>1, <3>2 DEF LenFrom, PartialFrom
    <3>4. QED
      BY <3>3 DEF PrefixOK
  <2>9. ASSUME NEW t \in Inserters PROVE Knows(c, t)
    BY <1>2, <1>3 DEF Knows, Descends, Divides, Splits, Adds
  <2>10. QED
    BY <2>4, <2>6, <2>7, <2>8, <2>9 DEF Charted
<1>8. QED
  BY <1>2, <1>4, <1>5, <1>6, <1>7 DEF IInv, Sound

LEMMA StutterCharted ==
  ASSUME NEW c \in Charts, UNCHANGED vars
  PROVE  Charted(c)' <=> Charted(c)
<1>1. /\ key' = key /\ node' = node /\ made' = made /\ pc' = pc /\ on' = on
      /\ ref' = ref /\ depth' = depth /\ i' = i /\ byte' = byte /\ reg' = reg /\ diff' = diff
      /\ todo' = todo /\ stored' = stored
  BY DEF vars, shared, locals, path, hand, history
<1>2. Live' = Live
  BY <1>1 DEF Live
<1>3. IsTree(c)' <=> IsTree(c)
  BY <1>1, <1>2 DEF IsTree, Under, HasPut
<1>4. ASSUME NEW n \in Live PROVE CellsOK(c, n)' <=> CellsOK(c, n)
  BY <1>1, <1>2 DEF CellsOK, Filled, InCells, ByteIn, Waiting, Adding, Into
<1>5. ASSUME NEW n \in Live PROVE PrefixOK(c, n)' <=> PrefixOK(c, n)
  BY <1>1, <1>2 DEF PrefixOK, LenFrom, PartialFrom, Unshortened, HalfShortened, Splitting, Adding
<1>6. ASSUME NEW t \in Inserters PROVE Knows(c, t)' <=> Knows(c, t)
  <2>1. Descends(c, t)' <=> Descends(c, t)
    BY <1>1, <1>2 DEF Descends, Led, CellLeads, IsNew, Parent
  <2>2. Divides(c, t)' <=> Divides(c, t)
    BY <1>1, <1>2 DEF Divides, Led, CellLeads, Parent
  <2>3. Splits(c, t)' <=> Splits(c, t)
    BY <1>1, <1>2 DEF Splits, LenFrom, PartialFrom, Unshortened, HalfShortened, Splitting, Adding, HasPut, ByteIn
  <2>4. Adds(c, t)' <=> Adds(c, t)
    BY <1>1, <1>2 DEF Adds, Adding, Into, Led, IsNew, Filled, InCells, ByteIn, Waiting
  <2>5. QED
    BY <2>1, <2>2, <2>3, <2>4 DEF Knows
<1>7. QED
  BY <1>2, <1>3, <1>4, <1>5, <1>6 DEF Charted

LEMMA StutterSound ==
  ASSUME IInv, UNCHANGED vars
  PROVE  IInv'
<1>1. /\ key' = key /\ node' = node /\ made' = made /\ crashed' = crashed /\ pc' = pc /\ on' = on
      /\ ref' = ref /\ depth' = depth /\ i' = i /\ byte' = byte /\ reg' = reg /\ diff' = diff
      /\ todo' = todo /\ stored' = stored /\ clash' = clash
  BY DEF vars, shared, locals, path, hand, history
<1>2. Meeting' <=> Meeting
  BY <1>1 DEF Meeting, InTheWay, Ended, AddsTo, Shortens, Replacing, Adding, Splitting, Into, Parent
<1>3. KeysOK' <=> KeysOK
  BY <1>1 DEF KeysOK
<1>4. TypesOK' <=> TypesOK
  BY <1>1 DEF TypesOK, Splitting, Adding
<1>5. \A c \in Charts : Charted(c)' <=> Charted(c)
  BY StutterCharted
<1>6. Sound' <=> Sound
  BY <1>1, <1>3, <1>4, <1>5 DEF Sound
<1>7. QED
  BY <1>1, <1>2, <1>6 DEF IInv

LEMMA NextSound ==
  ASSUME IInv, Next
  PROVE  IInv'
<1>1. CASE End
  BY <1>1, StutterSound DEF End
<1>2. CASE ~crashed /\ Step /\ Observe
  <2>1. clash' = (clash \/ Meeting') /\ clash' \in BOOLEAN
    BY <1>2 DEF Observe, IInv, Meeting
  <2>2. CASE clash'
    BY <2>1, <2>2 DEF IInv
  <2>3. CASE ~clash'
    <3>1. ~clash /\ ~Meeting /\ ~Meeting' /\ Sound
      BY <2>1, <2>3 DEF IInv
    <3>2. CASE \E s \in Searchers : SearchStep(s)
      BY <2>1, <3>1, <3>2, SearchSound DEF IInv
    <3>3. CASE \E t \in Inserters : InsertStep(t)
      <4>1. PICK t \in Inserters : ReadingStep(t) \/ WritingStep(t)
        BY <3>3 DEF InsertStep, ReadingStep, WritingStep
      <4>2. Sound'
        BY <3>1, <4>1, ReadingSound, WritingSound
      <4>3. QED
        BY <2>1, <3>1, <4>2 DEF IInv
    <3>4. QED
      BY <1>2, <3>2, <3>3 DEF Step
  <2>4. QED
    BY <2>1, <2>2, <2>3
<1>3. QED
  BY <1>1, <1>2 DEF Next

(* As long as no two inserts have got in each other's way, the tree has a  *)
(* chart: each insert finds it as it has left it.                          *)
THEOREM TreeIsCharted == Spec => []IInv
<1>1. Init => IInv
  BY InitSound
<1>2. IInv /\ [Next]_vars => IInv'
  BY NextSound, StutterSound
<1>3. QED
  BY <1>1, <1>2, PTL DEF Spec

(* No memmove() gets less than nothing to move, and no prefix is shorter   *)
(* than what is taken off it, unless two inserts have met.                 *)
THEOREM CrashesNeedClash == Spec => []CrashNeedsClash
<1>1. IInv => CrashNeedsClash
  BY DEF IInv, Sound, CrashNeedsClash
<1>2. QED
  BY <1>1, TreeIsCharted, PTL

-------------------------------------------------------------------------------
(* A tree that no insert is at work on.                                    *)
AtRest == \A t \in Inserters : ~Adding(t) /\ ~Splitting(t)

(* The hops of a search there are a function that exists.                  *)
LEMMA Hops ==
  ASSUME NEW k
  PROVE  \E hop : /\ hop[0] = <<Root, 0>>
                  /\ \A h \in 0 .. KeyLen : hop[h + 1] = Hop(k, hop[h])
                  /\ Found(k) = hop[KeyLen + 1][1]
<1> DEFINE IsHops(f, m) == f = [h \in 0 .. m |-> IF h = 0 THEN <<Root, 0>> ELSE Hop(k, f[h - 1])]
<1>1. \A m \in Nat : \E f : IsHops(f, m)
  <2> DEFINE S == {m \in Nat : ~\E f : IsHops(f, m)}
  <2>1. SUFFICES ASSUME S # {} PROVE FALSE
    OBVIOUS
  <2>2. PICK m \in S : \A l \in S : m <= l
    <3> HIDE DEF IsHops
    <3>1. S \in SUBSET Nat
      OBVIOUS
    <3> HIDE DEF S
    <3>2. QED
      BY <2>1, <3>1, First
  <2>3. m \in Nat /\ ~\E f : IsHops(f, m)
    BY <2>2
  <2>4. m # 0
    <3>1. IsHops([h \in 0 .. 0 |-> <<Root, 0>>], 0)
      OBVIOUS
    <3> HIDE DEF IsHops
    <3>2. QED
      BY <2>3, <3>1
  <2>5. PICK f : IsHops(f, m - 1)
    <3> HIDE DEF IsHops
    <3>1. m - 1 \in Nat /\ ~(m <= m - 1)
      BY <2>3, <2>4
    <3>2. m - 1 \notin S
      BY <2>2, <3>1
    <3>3. QED
      BY <3>1, <3>2
  <2> DEFINE g == [h \in 0 .. m |-> IF h = m THEN Hop(k, f[m - 1]) ELSE f[h]]
  <2>6. ASSUME NEW h \in 0 .. m PROVE g[h] = IF h = 0 THEN <<Root, 0>> ELSE Hop(k, g[h - 1])
    <3>1. CASE h = m
      <4>1. g[h] = Hop(k, f[m - 1]) /\ m - 1 \in 0 .. m /\ m - 1 # m
        BY <2>3, <2>4, <3>1
      <4>2. g[m - 1] = f[m - 1]
        BY <4>1
      <4>3. QED
        BY <2>4, <3>1, <4>1, <4>2
    <3>2. CASE h # m
      <4>1. h \in 0 .. m - 1 /\ g[h] = f[h]
        BY <2>3, <3>2
      <4>2. f[h] = IF h = 0 THEN <<Root, 0>> ELSE Hop(k, f[h - 1])
        BY <2>5, <4>1
      <4>3. h # 0 => h - 1 \in 0 .. m /\ h - 1 # m
        BY <2>3, <4>1
      <4>4. h # 0 => g[h - 1] = f[h - 1]
        BY <4>3
      <4>5. QED
        BY <4>1, <4>2, <4>4
    <3>3. QED
      BY <3>1, <3>2
  <2>7. IsHops(g, m)
    BY <2>6
  <2> HIDE DEF IsHops, g
  <2>8. QED
    BY <2>3, <2>7
<1> DEFINE hop == CHOOSE f : IsHops(f, KeyLen + 1)
<1>2. Found(k) = hop[KeyLen + 1][1]
  BY DEF Found
<1>3. IsHops(hop, KeyLen + 1)
  <2> HIDE DEF IsHops
  <2>1. KeyLen + 1 \in Nat
    BY Numbers
  <2>2. \E f : IsHops(f, KeyLen + 1)
    BY <1>1, <2>1
  <2>3. QED
    BY <2>2
<1> HIDE DEF hop
<1>4. hop[0] = <<Root, 0>>
  BY <1>3, Numbers
<1>5. ASSUME NEW h \in 0 .. KeyLen PROVE hop[h + 1] = Hop(k, hop[h])
  <2>1. h + 1 \in 0 .. KeyLen + 1 /\ h + 1 # 0 /\ (h + 1) - 1 = h
    BY Numbers
  <2>2. QED
    BY <1>3, <2>1
<1>6. QED
  BY <1>2, <1>4, <1>5

LEMMA AtRestFacts ==
  ASSUME NEW c, Calm(c), AtRest, NEW n \in Live
  PROVE  /\ Filled(c, n, Upto(node[n].count))
         /\ LenFrom(c, n, c.from[n]) /\ PartialFrom(c, n, c.from[n])
         /\ InCells(c, n) = {p \in Things : c.up[p] = n}
<1>1. \A t \in Inserters : /\ pc[t] \notin {"setLen", "setPartial"} /\ ~Unshortened(t) /\ ~HalfShortened(t)
                           /\ ~Adding(t) /\ ~Waiting(t)
  <2>1. SUFFICES ASSUME NEW t \in Inserters
                 PROVE  /\ pc[t] \notin {"setLen", "setPartial"} /\ ~Unshortened(t) /\ ~HalfShortened(t)
                        /\ ~Adding(t) /\ ~Waiting(t)
    OBVIOUS
  <2>2. ~Adding(t) /\ ~Splitting(t) /\ Splits(c, t)
    BY CalmFacts DEF AtRest, Knows
  <2>3. pc[t] \notin {"setLen", "setPartial"}
    BY <2>2 DEF Splits, Splitting
  <2>4. QED
    BY <2>2, <2>3 DEF Unshortened, HalfShortened, Waiting, Adding
<1>2. CellsOK(c, n) /\ PrefixOK(c, n)
  BY CalmFacts
<1>3. QED
  BY <1>1, <1>2 DEF CellsOK, PrefixOK, InCells

(* From a node that the key leads through a search for it goes on to what  *)
(* hangs there under its byte.                                             *)
LEMMA HopDown ==
  ASSUME NEW c, Calm(c), AtRest, NEW k \in Keys, NEW n \in Live, Bytes(k, c.sample[n], c.to[n]),
         NEW p \in Things, c.up[p] = n, ByteOf[k][c.to[n]] = ByteOf[c.sample[p]][c.to[n]]
  PROVE  Hop(k, <<n, c.from[n]>>) = <<p, c.to[n] + 1>>
<1> DEFINE d == c.from[n]
           m == c.to[n]
           len == node[n].len
           count == node[n].count
           other == {j \in 0 .. len - 1 : node[n].partial[j] # Byte(k, d + j)}
           cells == {j \in 0 .. count - 1 : node[n].keys[j] = Byte(k, d + len)}
<1>1. /\ n \in Nodes /\ d \in Nat /\ m \in Nat /\ d <= m /\ m < KeyLen /\ len \in Nat /\ count \in Nat
      /\ Filled(c, n, Upto(count)) /\ len = m - d /\ InCells(c, n) = {q \in Things : c.up[q] = n}
      /\ \A j \in 0 .. m - d - 1 : node[n].partial[j] = ByteOf[c.sample[n]][d + j]
  BY CalmFacts, AtRestFacts, Fields DEF LenFrom, PartialFrom
<1>2. Byte(k, m) = ByteOf[k][m] /\ d + len = m
  <2>1. m \in 0 .. KeyLen - 1
    BY <1>1, Numbers
  <2>2. QED
    BY <1>1, <2>1, Letters
<1>3. other = {}
  <2>1. SUFFICES ASSUME NEW j \in 0 .. len - 1 PROVE node[n].partial[j] = Byte(k, d + j)
    OBVIOUS
  <2> HIDE DEF d, m, len, count
  <2>2. j \in 0 .. m - d - 1 /\ d + j \in 0 .. m - 1 /\ d + j \in 0 .. KeyLen - 1
    BY <1>1, Numbers
  <2>3. ByteOf[k][d + j] = ByteOf[c.sample[n]][d + j]
    BY <2>2 DEF Bytes, m
  <2>4. QED
    BY <1>1, <2>2, <2>3, Letters
<1>4. PrefixMismatch(n, k, d) = len
  BY <1>3 DEF PrefixMismatch, FirstOf
<1>5. PICK j \in Upto(count) : node[n].children[j] = p
  BY <1>1 DEF Filled
<1>6. node[n].keys[j] = Byte(k, m)
  <2>1. node[n].keys[j] = ByteIn(c, p, n)
    BY <1>1, <1>5 DEF Filled
  <2>2. QED
    BY <1>2, <2>1 DEF ByteIn
<1>7. j \in cells
  BY <1>2, <1>5, <1>6 DEF Upto
<1>8. ASSUME NEW l \in cells PROVE l = j
  <2>1. l \in Upto(count) /\ node[n].keys[l] = node[n].keys[j]
    BY <1>2, <1>6, <1>8 DEF Upto
  <2>2. l \in Nat /\ j \in Nat
    BY <1>1, <1>5, <2>1 DEF Upto
  <2>3. node[n].keys[j] \in Nat
    BY <1>2, <1>6, <1>1, Letters
  <2>4. ~(l < j) /\ ~(j < l)
    <3> HIDE DEF count, cells
    <3>1. \A a, b \in Upto(count) : a < b => node[n].keys[a] < node[n].keys[b]
      BY <1>1 DEF Filled
    <3>2. QED
      BY <1>5, <2>1, <2>3, <3>1
  <2>5. QED
    BY <2>2, <2>4
<1>9. FirstOf(cells, 0) = j
  <2>1. cells \in SUBSET Nat
    OBVIOUS
  <2>2. FirstOf(cells, 0) \in cells
    <3> HIDE DEF cells
    <3>1. QED
      BY <1>7, <2>1, First
  <2>3. QED
    BY <1>8, <2>2
<1>10. d + len + 1 = m + 1
  BY <1>1
<1>11. Hop(k, <<n, d>>) = IF n \notin Nodes THEN <<n, d>>
                          ELSE IF PrefixMismatch(n, k, d) # len \/ cells = {} THEN <<Null, d>>
                          ELSE <<node[n].children[FirstOf(cells, 0)], d + len + 1>>
  BY DEF Hop
<1> HIDE DEF cells, d, m, len
<1>12. QED
  BY <1>1, <1>4, <1>5, <1>7, <1>9, <1>10, <1>11 DEF d, m

(* The way of a search for k.                                              *)
Way(k, hop) == hop[0] = <<Root, 0>> /\ \A h \in 0 .. KeyLen : hop[h + 1] = Hop(k, hop[h])

(* Sooner or later it comes to each node whose bytes are the key's.        *)
LEMMA ComesTo ==
  ASSUME NEW c, Calm(c), AtRest, NEW k \in Keys, NEW hop, Way(k, hop),
         NEW n \in Live, Bytes(k, c.sample[n], c.from[n])
  PROVE  \E h \in 0 .. c.from[n] : hop[h] = <<n, c.from[n]>>
<1> DEFINE Passed(m) == \E h \in 0 .. c.from[m] : hop[h] = <<m, c.from[m]>>
           Missed == {m \in Live : Bytes(k, c.sample[m], c.from[m]) /\ ~Passed(m)}
           S == {c.from[m] : m \in Missed}
<1>1. SUFFICES ASSUME Missed # {} PROVE FALSE
  OBVIOUS
<1>2. S \in SUBSET Nat /\ S # {}
  BY <1>1, CalmFacts
<1>3. PICK d \in S : \A e \in S : d <= e
  <2> HIDE DEF S
  <2>1. QED
    BY <1>2, First
<1>4. PICK m \in Missed : d = c.from[m]
  BY <1>3
<1> HIDE DEF S
<1>5. m \in Live /\ Bytes(k, c.sample[m], c.from[m]) /\ ~Passed(m) /\ d \in Nat
  BY <1>2, <1>3, <1>4
<1>6. m # Root
  <2>1. c.from[Root] = 0 /\ hop[0] = <<Root, 0>>
    BY CalmFacts DEF IsTree, Way
  <2>2. QED
    BY <1>5, <2>1
<1> DEFINE q == c.up[m]
<1>7. /\ m \in Things /\ m \in Nodes /\ q \in Live /\ q # Null /\ c.from[m] = c.to[q] + 1
      /\ Bytes(c.sample[m], c.sample[q], c.to[q])
  <2>1. m \in Nodes /\ m \in Things /\ q # Null
    BY <1>5, <1>6, CalmFacts, Names DEF IsTree
  <2>2. Under(c, m, q)
    BY <2>1, CalmFacts DEF IsTree
  <2>3. QED
    BY <2>1, <2>2 DEF Under
<1> HIDE DEF q
<1>8. c.from[q] \in Nat /\ c.to[q] \in Nat /\ c.from[q] <= c.to[q] /\ c.to[q] < KeyLen
  BY <1>7, CalmFacts
<1>9. Bytes(k, c.sample[q], c.to[q]) /\ ByteOf[k][c.to[q]] = ByteOf[c.sample[m]][c.to[q]]
  <2>1. \A j \in 0 .. c.to[q] : ByteOf[k][j] = ByteOf[c.sample[m]][j]
    BY <1>5, <1>7, <1>8 DEF Bytes
  <2>2. ASSUME NEW j \in 0 .. c.to[q] - 1 PROVE ByteOf[k][j] = ByteOf[c.sample[q]][j]
    <3>1. j \in 0 .. c.to[q]
      BY <1>8
    <3>2. QED
      BY <1>7, <2>1, <3>1 DEF Bytes
  <2>3. c.to[q] \in 0 .. c.to[q]
    BY <1>8
  <2>4. QED
    BY <2>1, <2>2, <2>3 DEF Bytes
<1>10. Bytes(k, c.sample[q], c.from[q])
  BY <1>8, <1>9 DEF Bytes
<1>11. Passed(q)
  <2>1. CASE Passed(q)
    BY <2>1
  <2>2. CASE ~Passed(q)
    <3>1. q \in Missed
      BY <1>7, <1>10, <2>2
    <3>2. c.from[q] \in S
      BY <3>1 DEF S
    <3> HIDE DEF Missed, Passed
    <3>3. QED
      BY <1>3, <1>4, <1>7, <1>8, <3>2
  <2>3. QED
    BY <2>1, <2>2
<1>12. PICK h \in 0 .. c.from[q] : hop[h] = <<q, c.from[q]>>
  BY <1>11
<1>13. Hop(k, <<q, c.from[q]>>) = <<m, c.from[m]>>
  <2>1. c.up[m] = q
    BY DEF q
  <2>2. QED
    BY <1>7, <1>9, <2>1, HopDown
<1>14. h \in 0 .. KeyLen /\ h + 1 \in 0 .. c.from[m]
  BY <1>7, <1>8, <1>12, Numbers
<1>15. hop[h + 1] = <<m, c.from[m]>>
  BY <1>12, <1>13, <1>14 DEF Way
<1>16. QED
  BY <1>5, <1>14, <1>15

(* It ends with what it comes to that is no node.                          *)
LEMMA StaysThere ==
  ASSUME NEW k, NEW hop, Way(k, hop), NEW h \in 0 .. KeyLen + 1, hop[h][1] \notin Nodes
  PROVE  hop[KeyLen + 1] = hop[h]
<1> DEFINE S == {j \in h .. KeyLen + 1 : hop[j] # hop[h]}
<1>1. h \in Nat /\ KeyLen + 1 \in h .. KeyLen + 1
  BY Numbers
<1>2. SUFFICES ASSUME S # {} PROVE FALSE
  BY <1>1
<1>3. S \in SUBSET Nat
  BY <1>1
<1>4. PICK j \in S : \A l \in S : j <= l
  <2> HIDE DEF S
  <2>1. QED
    BY <1>2, <1>3, First
<1>5. j \in h .. KeyLen + 1 /\ hop[j] # hop[h] /\ j # h
  BY <1>4
<1>6. j - 1 \in h .. KeyLen + 1 /\ j - 1 \in 0 .. KeyLen /\ ~(j <= j - 1) /\ (j - 1) + 1 = j
  BY <1>1, <1>5, Numbers
<1>7. hop[j - 1] = hop[h]
  BY <1>4, <1>6
<1>8. hop[j] = Hop(k, hop[j - 1])
  BY <1>6 DEF Way
<1>9. Hop(k, hop[h]) = hop[h]
  BY DEF Hop
<1>10. QED
  BY <1>5, <1>7, <1>8, <1>9

LEMMA HangingIsFound ==
  ASSUME NEW c, Calm(c), AtRest, NEW k \in Keys, c.up[k] # Null
  PROVE  Found(k) = k
<1>1. PICK hop : Way(k, hop) /\ Found(k) = hop[KeyLen + 1][1]
  BY Hops DEF Way
<1> DEFINE n == c.up[k]
<1>2. k \in Things /\ k \notin Nodes /\ c.sample[k] = k
  BY CalmFacts, Names DEF IsTree
<1>3. n \in Live /\ Bytes(k, c.sample[n], c.to[n])
  BY <1>2, CalmFacts DEF IsTree, Under
<1>4. c.from[n] \in Nat /\ c.to[n] \in Nat /\ c.from[n] <= c.to[n] /\ c.to[n] < KeyLen
  BY <1>3, CalmFacts
<1>5. Bytes(k, c.sample[n], c.from[n])
  BY <1>3, <1>4 DEF Bytes
<1>6. PICK h \in 0 .. c.from[n] : hop[h] = <<n, c.from[n]>>
  BY <1>1, <1>3, <1>5, ComesTo
<1>7. Hop(k, <<n, c.from[n]>>) = <<k, c.to[n] + 1>>
  BY <1>2, <1>3, HopDown
<1>8. h \in 0 .. KeyLen /\ h + 1 \in 0 .. KeyLen + 1
  BY <1>4, <1>6, Numbers
<1>9. hop[h + 1] = <<k, c.to[n] + 1>>
  BY <1>1, <1>6, <1>7, <1>8 DEF Way
<1>10. hop[h + 1][1] = k
  BY <1>9
<1>11. hop[KeyLen + 1] = hop[h + 1]
  BY <1>1, <1>2, <1>8, <1>10, StaysThere
<1>12. QED
  BY <1>1, <1>10, <1>11

LEMMA FoundIsHanging ==
  ASSUME NEW c, Calm(c), AtRest, NEW k \in Keys, Found(k) = k
  PROVE  c.up[k] # Null
<1>1. PICK hop : Way(k, hop) /\ Found(k) = hop[KeyLen + 1][1]
  BY Hops DEF Way
<1> DEFINE Met == Live \cup {Null} \cup {p \in Things : c.up[p] # Null}
           S == {h \in 0 .. KeyLen + 1 : ~\E p \in Met : \E d : hop[h] = <<p, d>>}
<1>2. S = {}
  <2>1. SUFFICES ASSUME S # {} PROVE FALSE
    OBVIOUS
  <2>2. S \in SUBSET Nat
    OBVIOUS
  <2>3. PICK h \in S : \A l \in S : h <= l
    <3> HIDE DEF S
    <3>1. QED
      BY <2>1, <2>2, First
  <2>4. h \in 0 .. KeyLen + 1 /\ ~\E p \in Met : \E d : hop[h] = <<p, d>>
    BY <2>3
  <2>5. h # 0
    <3>1. hop[0] = <<Root, 0>> /\ Root \in Met
      BY <1>1, CalmFacts DEF Way, IsTree
    <3>2. QED
      BY <2>4, <3>1
  <2>6. h - 1 \in 0 .. KeyLen + 1 /\ h - 1 \in 0 .. KeyLen /\ ~(h <= h - 1) /\ (h - 1) + 1 = h
    BY <2>4, <2>5, Numbers
  <2>7. PICK p, d : p \in Met /\ hop[h - 1] = <<p, d>>
    BY <2>3, <2>6
  <2> HIDE DEF S
  <2>8. hop[h] = Hop(k, <<p, d>>)
    BY <1>1, <2>6, <2>7 DEF Way
  <2> DEFINE count == node[p].count
             cells == {j \in 0 .. count - 1 : node[p].keys[j] = Byte(k, d + node[p].len)}
  <2>9. Hop(k, <<p, d>>) = IF p \notin Nodes THEN <<p, d>>
                           ELSE IF PrefixMismatch(p, k, d) # node[p].len \/ cells = {} THEN <<Null, d>>
                           ELSE <<node[p].children[FirstOf(cells, 0)], d + node[p].len + 1>>
    BY DEF Hop
  <2>10. p \in Nodes /\ cells # {}
    BY <2>4, <2>7, <2>8, <2>9
  <2>11. p \in Live
    <3>1. p # Null
      BY <2>10, Names
    <3>2. QED
      BY <2>7, <2>10, <3>1, CalmFacts DEF IsTree
  <2>12. FirstOf(cells, 0) \in Upto(count)
    <3>1. cells \in SUBSET Nat
      OBVIOUS
    <3>2. FirstOf(cells, 0) \in cells
      <4> HIDE DEF cells
      <4>1. QED
        BY <2>10, <3>1, First
    <3>3. QED
      BY <3>2 DEF Upto
  <2> HIDE DEF cells
  <2>13. node[p].children[FirstOf(cells, 0)] \in InCells(c, p)
    BY <2>11, <2>12, AtRestFacts DEF Filled
  <2>14. node[p].children[FirstOf(cells, 0)] \in Met
    BY <2>10, <2>13, Names DEF InCells
  <2>15. Null \in Met
    OBVIOUS
  <2> HIDE DEF Met
  <2>16. hop[h] = <<Null, d>> \/ hop[h] = <<node[p].children[FirstOf(cells, 0)], d + node[p].len + 1>>
    BY <2>8, <2>9, <2>10
  <2>17. QED
    BY <2>4, <2>14, <2>15, <2>16
<1>3. KeyLen + 1 \in 0 .. KeyLen + 1
  BY Numbers
<1>4. PICK p, d : p \in Met /\ hop[KeyLen + 1] = <<p, d>>
  BY <1>2, <1>3
<1>5. p = k
  BY <1>1, <1>4
<1>6. k \notin Live /\ k # Null
  BY CalmFacts, Names
<1>7. QED
  BY <1>4, <1>5, <1>6

(* While no insert is at work, and none has been in another's way, what    *)
(* has been inserted is found and nothing else is, bytes are sorted and    *)
(* nothing hangs in two places.                                            *)
THEOREM TreesAtRestAreSound == Spec => []TreeAtRestIsSound
<1>1. ASSUME IInv PROVE TreeAtRestIsSound
  <2>1. SUFFICES ASSUME ~clash, ~crashed, AtRest
                 PROVE  /\ \A k \in Keys : k \in stored <=> Found(k) = k
                        /\ \A n \in Live : \A l \in 0 .. node[n].count - 1 : \A j \in 0 .. l - 1 :
                             node[n].keys[j] < node[n].keys[l]
                        /\ \A n, m \in Live : \A j \in 0 .. node[n].count - 1 :
                             \A l \in 0 .. node[m].count - 1 :
                               node[n].children[j] = node[m].children[l] => n = m /\ j = l
    BY DEF TreeAtRestIsSound, AtRest
  <2>2. PICK c \in Charts : Calm(c)
    BY <1>1, <2>1 DEF IInv, Sound, Calm
  <2>3. ASSUME NEW k \in Keys PROVE k \in stored <=> Found(k) = k
    <3>1. c.up[k] # Null <=> k \in Loaded \/ \E t \in Inserters : key[t] = k /\ HasPut(t)
      BY <2>2, CalmFacts DEF IsTree
    <3>2. \A t \in Inserters : HasPut(t) <=> pc[t] \in {"unlock", "unlockParent", "done"}
      BY <2>1 DEF HasPut, AtRest, Adding
    <3>3. k \in stored <=> k \in Loaded \/ \E t \in Inserters : key[t] = k /\ HasPut(t)
      BY <2>2, <3>2, CalmFacts DEF KeysOK
    <3>4. QED
      BY <2>1, <2>2, <3>1, <3>3, HangingIsFound, FoundIsHanging
  <2>4. ASSUME NEW n \in Live
        PROVE  /\ node[n].count \in Nat
               /\ \A j \in 0 .. node[n].count - 1 :
                    /\ c.up[node[n].children[j]] = n
                    /\ node[n].keys[j] = ByteIn(c, node[n].children[j], n)
               /\ \A j, l \in 0 .. node[n].count - 1 : j < l => node[n].keys[j] < node[n].keys[l]
               /\ \A j \in 0 .. node[n].count - 1 : node[n].keys[j] \in Nat
    <3>1. Filled(c, n, Upto(node[n].count)) /\ node[n] \in NodeRecords
      BY <2>1, <2>2, AtRestFacts, CalmFacts
    <3>2. node[n].count \in Nat /\ node[n].count <= 4 /\ node[n].keys \in [0 .. 3 -> Nat]
      BY <3>1, Fields, Numbers
    <3>3. \A j \in 0 .. node[n].count - 1 : node[n].keys[j] \in Nat
      BY <3>2
    <3>4. QED
      BY <3>1, <3>2, <3>3 DEF Filled, Upto, InCells
  <2>5. ASSUME NEW n \in Live, NEW l \in 0 .. node[n].count - 1, NEW j \in 0 .. l - 1
        PROVE  node[n].keys[j] < node[n].keys[l]
    <3>1. j \in 0 .. node[n].count - 1 /\ j < l
      BY <2>4
    <3>2. QED
      BY <2>4, <3>1
  <2>6. ASSUME NEW n \in Live, NEW m \in Live, NEW j \in 0 .. node[n].count - 1,
               NEW l \in 0 .. node[m].count - 1, node[n].children[j] = node[m].children[l]
        PROVE  n = m /\ j = l
    <3>1. n = m
      BY <2>4, <2>6
    <3>2. node[n].keys[j] = node[n].keys[l] /\ node[n].keys[j] \in Nat
      BY <2>4, <2>6, <3>1
    <3>3. ~(j < l) /\ ~(l < j)
      BY <2>4, <3>1, <3>2
    <3>4. QED
      BY <3>1, <3>3
  <2>7. QED
    BY <2>3, <2>5, <2>6
<1>2. QED
  BY <1>1, TreeIsCharted, PTL

-------------------------------------------------------------------------------
(* The nodes above a key.                                                  *)
LEMMA AboveFacts ==
  ASSUME NEW c, Calm(c), NEW k \in Keys, c.up[k] # Null
  PROVE  /\ Above(c, k) \subseteq Live /\ Upward(c, k, Above(c, k))
         /\ \A S \in SUBSET Nodes : Upward(c, k, S) => Above(c, k) \subseteq S
<1>1. \A S \in SUBSET Nodes : Upward(c, k, S) => Above(c, k) \subseteq S
  BY DEF Above
<1>2. Upward(c, k, Live)
  <2>1. c.up[k] \in Live
    BY CalmFacts, Hanging, Names
  <2>2. ASSUME NEW n \in Live \ {Root} PROVE c.up[n] \in Live
    <3>1. c.up[n] # Null /\ n \in Things
      BY CalmFacts, Names DEF IsTree
    <3>2. QED
      BY <3>1, CalmFacts, Hanging
  <2>3. QED
    BY <2>1, <2>2 DEF Upward
<1>3. Above(c, k) \subseteq Live
  BY <1>1, <1>2, CalmFacts
<1>4. c.up[k] \in Above(c, k)
  BY <1>2, CalmFacts DEF Above, Upward
<1>5. ASSUME NEW n \in Above(c, k) \ {Root} PROVE c.up[n] \in Above(c, k)
  <2>1. c.up[n] \in Nodes
    BY <1>2, <1>3, <1>5, CalmFacts DEF Upward
  <2>2. QED
    BY <1>5, <2>1 DEF Above, Upward
<1>6. QED
  BY <1>1, <1>3, <1>4, <1>5 DEF Upward

LEMMA RootAbove ==
  ASSUME NEW c, Calm(c), NEW k \in Keys, c.up[k] # Null
  PROVE  Root \in Above(c, k)
<1>0. Above(c, k) \subseteq Live /\ Upward(c, k, Above(c, k))
  BY AboveFacts
<1> DEFINE S == Above(c, k)
           F == {c.from[n] : n \in S}
<1>1. F \in SUBSET Nat /\ F # {}
  BY <1>0, CalmFacts DEF Upward
<1>2. PICK n \in S : \A l \in F : c.from[n] <= l
  <2> HIDE DEF F
  <2>1. PICK x \in F : \A l \in F : x <= l
    BY <1>1, First
  <2>2. QED
    BY <2>1 DEF F
<1>3. CASE n # Root
  <2>1. n \in Live /\ c.up[n] \in S /\ c.up[n] \in Live /\ c.up[n] # Null /\ n \in Things
    BY <1>0, <1>2, <1>3, CalmFacts, Names DEF Upward
  <2>2. Under(c, n, c.up[n])
    BY <2>1, CalmFacts DEF IsTree
  <2>3. c.from[n] = c.to[c.up[n]] + 1 /\ c.from[c.up[n]] <= c.to[c.up[n]]
    BY <2>1, <2>2, CalmFacts DEF Under
  <2>4. c.from[n] <= c.from[c.up[n]]
    BY <1>2, <2>1
  <2>5. c.from[n] \in Nat /\ c.from[c.up[n]] \in Nat /\ c.to[c.up[n]] \in Nat
    BY <2>1, CalmFacts
  <2>6. QED
    BY <2>3, <2>4, <2>5
<1>4. QED
  BY <1>2, <1>3

(* They share its bytes.                                                   *)
LEMMA AboveShares ==
  ASSUME NEW c, Calm(c), NEW k \in Keys, c.up[k] # Null, NEW n \in Above(c, k)
  PROVE  Bytes(k, c.sample[n], c.to[n])
<1> DEFINE S == {q \in Live : Bytes(k, c.sample[q], c.to[q])}
<1>1. c.up[k] \in S
  <2>1. k \in Things /\ c.up[k] \in Live
    BY AboveFacts, Names DEF Upward
  <2>2. Under(c, k, c.up[k]) /\ c.sample[k] = k
    BY <2>1, CalmFacts DEF IsTree
  <2>3. QED
    BY <2>1, <2>2 DEF Under
<1>2. ASSUME NEW q \in S \ {Root} PROVE c.up[q] \in S
  <2>1. c.up[q] # Null /\ q \in Things /\ q \in Nodes /\ q \in Live
    BY CalmFacts, Names DEF IsTree
  <2>2. c.up[q] \in Live /\ Under(c, q, c.up[q])
    BY <2>1, CalmFacts, Hanging DEF IsTree
  <2>3. Bytes(c.sample[q], c.sample[c.up[q]], c.to[c.up[q]]) /\ c.from[q] = c.to[c.up[q]] + 1
    BY <2>1, <2>2 DEF Under
  <2>4. c.to[c.up[q]] < c.to[q] /\ c.to[q] \in Nat /\ c.to[c.up[q]] \in Nat
    BY <2>1, <2>2, <2>3, CalmFacts
  <2>5. Bytes(k, c.sample[q], c.to[c.up[q]])
    BY <2>4 DEF Bytes
  <2>6. Bytes(k, c.sample[c.up[q]], c.to[c.up[q]])
    BY <2>3, <2>5 DEF Bytes
  <2>7. QED
    BY <2>2, <2>6
<1>3. S \in SUBSET Nodes /\ Upward(c, k, S)
  BY <1>1, <1>2, CalmFacts DEF Upward
<1>4. Above(c, k) \subseteq S
  <2> HIDE DEF S
  <2>1. QED
    BY <1>3, AboveFacts
<1>5. QED
  BY <1>4

(* From each of them the byte of the key leads to another, or to the key.  *)
LEMMA NextAbove ==
  ASSUME NEW c, Calm(c), NEW k \in Keys, c.up[k] # Null, NEW n \in Above(c, k)
  PROVE  \E p \in Things : /\ c.up[p] = n /\ (p = k \/ p \in Above(c, k))
                           /\ ByteOf[c.sample[p]][c.to[n]] = ByteOf[k][c.to[n]]
<1> DEFINE S == {q \in Above(c, k) : \E p \in Things : c.up[p] = q /\ (p = k \/ p \in Above(c, k))}
<1>1. Upward(c, k, Above(c, k)) /\ Above(c, k) \subseteq Live /\ Live \subseteq Things /\ k \in Things
  BY AboveFacts, CalmFacts, Names
<1>2. S \in SUBSET Nodes /\ Upward(c, k, S)
  BY <1>1, CalmFacts DEF Upward
<1>3. n \in S
  <2> HIDE DEF S
  <2>1. QED
    BY <1>2, AboveFacts
<1>4. PICK p \in Things : c.up[p] = n /\ (p = k \/ p \in Above(c, k))
  BY <1>3
<1>5. ByteOf[c.sample[p]][c.to[n]] = ByteOf[k][c.to[n]]
  <2>1. CASE p = k
    BY <2>1, CalmFacts DEF IsTree
  <2>2. CASE p \in Above(c, k)
    <3>1. p \in Live /\ n \in Live /\ n # Null
      BY <1>1, <2>2, CalmFacts, Names
    <3>2. Under(c, p, n) /\ p \in Nodes
      BY <1>4, <3>1, CalmFacts DEF IsTree
    <3>3. c.from[p] = c.to[n] + 1 /\ c.from[p] <= c.to[p] /\ c.to[p] \in Nat /\ c.to[n] \in Nat
      BY <3>1, <3>2, CalmFacts DEF Under
    <3>4. Bytes(k, c.sample[p], c.to[p])
      BY <2>2, AboveShares
    <3>5. c.to[n] \in 0 .. c.to[p] - 1
      BY <3>3
    <3>6. QED
      BY <3>4, <3>5 DEF Bytes
  <2>3. QED
    BY <1>4, <2>1, <2>2
<1>6. QED
  BY <1>4, <1>5

(* A split puts a node between, and what is added hangs elsewhere: the     *)
(* nodes above a key that is there stay above it.                          *)
LEMMA AboveGrows ==
  ASSUME NEW c, Calm(c), NEW d \in Charts, NEW t \in Inserters, Redraws(c, d, t),
         NEW k \in Keys, c.up[k] # Null
  PROVE  Above(c, k) \subseteq Above(d, k) /\ d.up[k] # Null
<1>0. k \in Things /\ c.up[k] \in Nodes /\ Nodes \subseteq Things /\ Null \notin Things /\ key[t] \in Keys
  BY CalmFacts, Names, Hanging
<1>1. CASE d = c
  BY <1>1
<1>2. CASE Stores(c, d, t, Into(t))
  <2>1. d.up[k] = c.up[k]
    BY <1>0, <1>2 DEF Stores
  <2>2. \A q \in Nodes : d.up[q] = c.up[q]
    BY <1>0, <1>2, Names DEF Stores
  <2>3. \A S \in SUBSET Nodes : Upward(d, k, S) => Upward(c, k, S)
    BY <2>1, <2>2 DEF Upward
  <2>4. QED
    BY <2>1, <2>3 DEF Above
<1>3. CASE Splices(c, d, t)
  <2>1. /\ t \in Nodes \ Live /\ on[t] \in Things \ {Root, t} /\ c.up[on[t]] \in Live /\ c.up[t] = Null
        /\ d.up[on[t]] = t /\ d.up[t] = c.up[on[t]] /\ \A p \in Things \ {on[t], t} : d.up[p] = c.up[p]
    BY <1>3 DEF Splices, Divided
  <2>2. k # t /\ t # Root
    BY <2>1, Names DEF Live
  <2>3. ASSUME NEW S \in SUBSET Nodes, Upward(d, k, S) PROVE Upward(c, k, S \ {t})
    <3>1. \A q \in Things \ {t} : c.up[q] # t
      BY <2>1, CalmFacts, Hanging, Names
    <3>2. c.up[k] \in S
      <4>1. CASE k = on[t]
        BY <2>1, <2>2, <2>3, <4>1 DEF Upward
      <4>2. CASE k # on[t]
        BY <1>0, <2>1, <2>2, <2>3, <4>2 DEF Upward
      <4>3. QED
        BY <4>1, <4>2
    <3>3. ASSUME NEW q \in S \ {t}, q # Root PROVE c.up[q] \in S
      <4>1. CASE q = on[t]
        BY <2>1, <2>2, <2>3, <3>3, <4>1 DEF Upward
      <4>2. CASE q # on[t]
        BY <1>0, <2>1, <2>3, <3>3, <4>2 DEF Upward
      <4>3. QED
        BY <4>1, <4>2
    <3>4. QED
      BY <1>0, <2>2, <3>1, <3>2, <3>3 DEF Upward
  <2>4. \A S \in SUBSET Nodes : Upward(d, k, S) => Above(c, k) \subseteq S
    BY <2>3, AboveFacts
  <2>5. d.up[k] # Null
    BY <1>0, <2>1, <2>2, CalmFacts
  <2>6. QED
    BY <2>4, <2>5 DEF Above
<1>4. QED
  BY <1>1, <1>2, <1>3 DEF Redraws

(* Only a node whose prefix is split is reached in another way.            *)
LEMMA RedrawnNodes ==
  ASSUME NEW c, Calm(c), NEW d \in Charts, NEW t \in Inserters, Redraws(c, d, t), NEW n \in Live
  PROVE  /\ d.to[n] = c.to[n]
         /\ d.from[n] # c.from[n] => Shortens(t, n)'
<1>1. n \in Nodes
  BY CalmFacts
<1>2. CASE d = c
  BY <1>2
<1>3. CASE Stores(c, d, t, Into(t))
  BY <1>3 DEF Stores
<1>4. CASE Splices(c, d, t)
  <2>1. n # t /\ on'[t] = on[t] /\ Splitting(t)'
    BY <1>4 DEF Splices
  <2>2. d.to[n] = c.to[n] /\ (n # on[t] => d.from[n] = c.from[n])
    BY <1>1, <1>4, <2>1 DEF Splices, Divided
  <2>3. QED
    BY <1>1, <2>1, <2>2 DEF Shortens
<1>5. QED
  BY <1>2, <1>3, <1>4 DEF Redraws

-------------------------------------------------------------------------------
(* What the step of an insert does to the words, and to a search.          *)
LEMMA OthersWords ==
  ASSUME TypesOK, WordsOK, NEW t \in Threads, SearchStep(t) \/ InsertStep(t), on[t] \in Nodes \/ pc[t] # "version",
         (i[t] \in Cells /\ on[t] \in Nodes) \/ pc[t] # "load"
  PROVE  /\ ver' \in [Threads -> Nat] /\ pver' \in [Threads -> Nat] /\ child' \in [Threads -> Pointers]
         /\ \A s \in Threads \ {t} : ver'[s] = ver[s] /\ pver'[s] = pver[s] /\ child'[s] = child[s]
<1> USE DEF WordsOK
<1>1. ASSUME NEW l, Return(t, l)
      PROVE  /\ ver' \in [Threads -> Nat] /\ pver' \in [Threads -> Nat] /\ child' \in [Threads -> Pointers]
             /\ \A s \in Threads \ {t} : ver'[s] = ver[s] /\ pver'[s] = pver[s] /\ child'[s] = child[s]
  BY <1>1, Names DEF Return, Pointers
<1>2. CASE Call(t) \/ ReadVersion(t) \/ CheckParent(t)
  BY <1>2, Names DEF Call, ReadVersion, CheckParent, hand
<1>3. CASE ReadPrefix(t)
  BY <1>1, <1>3 DEF ReadPrefix, words, hand
<1>4. CASE Find(t)
  BY <1>4 DEF Find, words, hand
<1>5. CASE LoadChild(t)
  <2> DEFINE p == node[on[t]].children[i[t]]
  <2>1. p \in Pointers
    BY <1>5 DEF LoadChild, TypesOK, NodeRecords
  <2>2. CASE GoDown(t, p)
    BY <2>2, Names DEF GoDown, Pointers
  <2>3. CASE ~GoDown(t, p)
    BY <1>5, <2>1, <2>3 DEF LoadChild, words
  <2>4. QED
    BY <2>2, <2>3
<1>6. CASE Restart(t) \/ ReturnChild(t)
  BY <1>1, <1>6 DEF Restart, ReturnChild
<1>7. CASE LockParent(t) \/ Lock(t) \/ LockNode(t) \/ LockAbove(t)
  BY <1>7 DEF LockParent, Lock, LockNode, LockAbove, hand
<1>8. CASE SplitLeaf(t) \/ SplitPrefix(t)
  BY <1>8 DEF SplitLeaf, SplitPrefix, words
<1>9. CASE SetLen(t) \/ SetPartial(t) \/ ShortenLen(t) \/ ShortenPartial(t) \/ Shift(t) \/ Unlock(t)
  BY <1>9 DEF SetLen, SetPartial, ShortenLen, ShortenPartial, Shift, Unlock, locals, words, hand
<1>10. CASE Position(t) \/ Put(t) \/ LoadCount(t)
  BY <1>10 DEF Position, Put, LoadCount, words
<1>11. CASE StoreCount(t)
  BY <1>1, <1>11 DEF StoreCount, locals, words, hand
<1>12. CASE UnlockParent(t)
  BY <1>1, <1>12 DEF UnlockParent
<1>13. QED
  BY <1>2, <1>3, <1>4, <1>5, <1>6, <1>7, <1>8, <1>9, <1>10, <1>11, <1>12 DEF SearchStep, InsertStep

(* No version ever gets less, and an unlock makes it more.                 *)
LEMMA VersionsGrow ==
  ASSUME TypesOK, WordsOK, NEW t \in Threads, SearchStep(t) \/ InsertStep(t)
  PROVE  /\ version' \in [Nodes -> Nat] /\ \A n \in Nodes : version[n] <= version'[n]
         /\ Unlock(t) /\ on[t] \in Nodes => version[on[t]] < version'[on[t]]
<1> DEFINE Grown(v) == v \in [Nodes -> Nat] /\ \A n \in Nodes : version[n] <= v[n]
<1>1. version \in [Nodes -> Nat]
  BY DEF WordsOK
<1>2. Grown(version)
  BY <1>1
<1>7. ASSUME NEW n, NEW e \in Nat PROVE Grown([version EXCEPT ![n] = @ + e])
  <2> DEFINE v == [version EXCEPT ![n] = @ + e]
  <2>1. \A m \in Nodes : v[m] = IF m = n THEN version[m] + e ELSE version[m]
    BY <1>1
  <2>2. v = [m \in Nodes |-> v[m]]
    BY <1>1
  <2> HIDE DEF v
  <2>3. \A m \in Nodes : v[m] \in Nat /\ version[m] <= v[m]
    BY <1>1, <2>1
  <2>4. v \in [Nodes -> Nat]
    BY <2>2, <2>3
  <2>5. QED
    BY <2>3, <2>4 DEF v
<1>8. ASSUME NEW n
      PROVE  /\ Grown(WriteUnlock(n)) /\ Grown(WriteUnlockObsolete(n))
             /\ \A v : Grown(Upgrade(n, v)) /\ \A m : Grown(UpgradeOrUnlock(n, v, m))
  <2> HIDE DEF Grown
  <2>1. ASSUME NEW m PROVE Grown(WriteUnlock(m)) /\ Grown(WriteUnlockObsolete(m))
    BY <1>7 DEF WriteUnlock, WriteUnlockObsolete
  <2>2. ASSUME NEW v PROVE Grown(Upgrade(n, v))
    BY <1>2, <1>7 DEF Upgrade
  <2>3. QED
    BY <2>1, <2>2 DEF UpgradeOrUnlock
<1>3. \/ version' = version
      \/ \E n, v, m : version' = Upgrade(n, v) \/ version' = UpgradeOrUnlock(n, v, m)
      \/ \E n : version' = WriteUnlock(n) \/ version' = WriteUnlockObsolete(n)
  BY DEF SearchStep, InsertStep, Call, ReadVersion, ReadPrefix, Find, LoadChild, Restart, CheckParent,
         ReturnChild, LockParent, Lock, LockNode, LockAbove, SplitLeaf, SplitPrefix, SetLen, SetPartial,
         ShortenLen,
         ShortenPartial, Position, Shift, Put, LoadCount, StoreCount, Unlock, UnlockParent, shared
<1>4. Grown(version')
  <2> HIDE DEF Grown
  <2>1. QED
    BY <1>2, <1>3, <1>8
<1>5. Unlock(t) /\ on[t] \in Nodes => version[on[t]] < version'[on[t]]
  BY <1>1 DEF Unlock, WriteUnlock, WriteUnlockObsolete
<1>6. QED
  BY <1>4, <1>5

LEMMA CellsMove ==
  ASSUME NEW c, Calm(c), CellsLead, NEW t \in Inserters, WritingStep(t), ~Meeting'
  PROVE  /\ CellsLead'
         /\ \A n \in Live : /\ node[n].count <= node'[n].count
                            /\ ~(Adding(t) /\ Into(t) = n) => SameKeys(n)
<1>0. ASSUME NEW n \in Live PROVE n \in Nodes /\ node[n].count \in Nat /\ node[n].count <= Room
  BY CalmFacts, Fields
<1>1. CASE SplitLeaf(t) \/ SplitPrefix(t)
  <2>1. PICK d \in Charts : Splices(c, d, t)
    BY <1>1, SplitLeafCharted, SplitPrefixCharted
  <2>2. made' = made \cup {t}
    BY <1>1 DEF SplitLeaf, SplitPrefix
  <2>3. Live' = Live \cup {t} /\ t # Root
    BY <2>2, Names DEF Live
  <2>4. /\ node'[t].count = 0
        /\ \A n \in Live : /\ SameKeys(n)
                           /\ \A j \in Cells : node'[n].children[j] \in {node[n].children[j], t}
    BY <2>1 DEF Splices
  <2>5. ASSUME NEW n \in Live, NEW j \in Upto(node'[n].count) PROVE node'[n].children[j] # Root
    <3>1. j \in Upto(node[n].count) /\ j \in Cells
      BY <1>0, <2>4, <2>5, Numbers DEF SameKeys, Upto
    <3>2. QED
      BY <2>3, <2>4, <3>1 DEF CellsLead
  <2>6. CellsLead'
    BY <2>3, <2>4, <2>5 DEF CellsLead, Upto
  <2>7. QED
    BY <1>0, <2>4, <2>6 DEF SameKeys
<1>2. CASE SetLen(t) \/ SetPartial(t) \/ ShortenLen(t) \/ ShortenPartial(t)
  <2>1. Live' = Live
    BY <1>2 DEF SetLen, SetPartial, ShortenLen, ShortenPartial, Live
  <2>2. ASSUME NEW n \in Live PROVE SameCells(n)
    <3>1. node \in [Nodes -> NodeRecords] /\ node[n] \in NodeRecords
      BY CalmFacts DEF TypesOK
    <3>2. CASE node' = node
      BY <3>2 DEF SameCells
    <3>3. CASE \E m : \E x, y : node' = [node EXCEPT ![m].len = x, ![m].partial = y]
      BY <1>0, <3>1, <3>3 DEF SameCells, NodeRecords
    <3>4. CASE \E m : \E x : node' = [node EXCEPT ![m].len = x]
      BY <1>0, <3>1, <3>4 DEF SameCells, NodeRecords
    <3>5. CASE \E m : \E x : node' = [node EXCEPT ![m].partial = x]
      BY <1>0, <3>1, <3>5 DEF SameCells, NodeRecords
    <3>6. QED
      BY <1>2, <3>2, <3>3, <3>4, <3>5 DEF SetLen, SetPartial, ShortenLen, ShortenPartial
  <2>3. QED
    BY <1>0, <2>1, <2>2 DEF SameCells, SameKeys, CellsLead
<1>3. CASE Shift(t) \/ Put(t) \/ StoreCount(t)
  <2>1. Fits(t) /\ Adding(t) /\ made' = made
    BY <1>3, ShiftCharted, PutCharted, StoreCountCharted DEF Shift, Put, StoreCount, Adding
  <2>2. Live' = Live
    BY <2>1 DEF Live
  <2>3. \A n \in Live : n # Into(t) => node'[n] = node[n]
    BY <1>0, <2>1 DEF Fits
  <2>4. QED
    BY <1>0, <2>1, <2>2, <2>3 DEF Fits, CellsLead, SameKeys
<1>4. QED
  BY <1>1, <1>2, <1>3 DEF WritingStep

(* An insert is at work on a node until it unlocks it, or has made it.     *)
LEMMA WorkEnds ==
  ASSUME NEW c, Calm(c), WordsOK, NEW t \in Inserters, InsertStep(t), NEW n \in Live,
         WorksOn(t, n), ~(Splitting(t) /\ t = n)
  PROVE  WorksOn(t, n)' \/ version[n] < version'[n]
<1>0. t \in Threads /\ n \in Nodes /\ TypesOK
  BY Names, CalmFacts
<1>1. CASE pc[t] = "unlock"
  <2>1. Unlock(t) /\ on[t] = n
    BY <1>1 DEF WorksOn, Adding, InsertStep, Call, ReadVersion, ReadPrefix, Find, LoadChild, LockParent, Lock,
                LockNode, LockAbove, SplitLeaf, SplitPrefix, SetLen, SetPartial, ShortenLen,
                ShortenPartial, Position,
                Shift, Put, LoadCount, StoreCount, UnlockParent
  <2>2. QED
    BY <1>0, <2>1, VersionsGrow
<1>2. CASE Adding(t)
  <2>1. Into(t) = n
    BY <1>2 DEF WorksOn, Adding
  <2>2. /\ t \notin made /\ on[t] = n /\ Len(todo[t]) # 2
    <3>1. /\ Len(todo[t]) = 2 => t \in made
          /\ t \in made => n = t /\ Splitting(t)
          /\ t \notin made => n = on[t]
      BY <1>2, <2>1, AddingFacts
    <3>2. QED
      BY <3>1
  <2>3. CASE Position(t) \/ Shift(t) \/ Put(t) \/ LoadCount(t)
    <3>1. /\ Adding(t)' /\ on' = on /\ made' = made
      BY <1>0, <2>3 DEF Position, Shift, Put, LoadCount, Goto, Adding, TypesOK, shared, locals, path
    <3>2. QED
      BY <2>1, <3>1 DEF WorksOn, Into
  <2>4. CASE StoreCount(t)
    <3>1. pc'[t] = "unlock" /\ on' = on
      BY <1>0, <2>2, <2>4 DEF StoreCount, Goto, TypesOK, locals, path
    <3>2. QED
      BY <2>2, <3>1 DEF WorksOn
  <2>5. QED
    BY <1>2, <2>3, <2>4 DEF Adding, InsertStep, Call, ReadVersion, ReadPrefix, Find, LoadChild, LockParent,
                            Lock, LockNode, LockAbove, SplitLeaf, SplitPrefix, SetLen, SetPartial, ShortenLen,
                            ShortenPartial, Unlock, UnlockParent
<1>3. QED
  BY <1>1, <1>2 DEF WorksOn

(* The locals of a search, while another thread takes a step.              *)
LEMMA SearchRests ==
  ASSUME TypesOK, WordsOK, NEW t \in Threads, SearchStep(t) \/ InsertStep(t),
         on[t] \in Nodes \/ pc[t] # "version", NEW s \in Searchers, s # t
  PROVE  /\ key' = key /\ pc'[s] = pc[s] /\ on'[s] = on[s] /\ ref'[s] = ref[s] /\ depth'[s] = depth[s]
         /\ i'[s] = i[s] /\ ver'[s] = ver[s] /\ pver'[s] = pver[s] /\ child'[s] = child[s]
         /\ Parent(s)' = Parent(s) /\ (Ended(s)' <=> Ended(s))
<1>1. s \in Threads
  BY Names
<1>2. Changes(t) /\ key' = key
  BY StepChanges, StepApart DEF Apart
<1>3. pc'[s] = pc[s] /\ on'[s] = on[s] /\ ref'[s] = ref[s] /\ depth'[s] = depth[s] /\ i'[s] = i[s]
  BY <1>1, <1>2 DEF Changes, TypesOK
<1>4. (i[t] \in Cells /\ on[t] \in Nodes) \/ pc[t] # "load"
  BY DEF TypesOK, Splitting, Adding
<1>5. ver'[s] = ver[s] /\ pver'[s] = pver[s] /\ child'[s] = child[s]
  BY <1>1, <1>4, OthersWords
<1>6. QED
  BY <1>2, <1>3, <1>5 DEF Parent, Ended

-------------------------------------------------------------------------------
(* A search, while an insert takes a step.                                 *)
InsertCalm(c, d, t) ==
  /\ Calm(c) /\ WordsOK /\ CellsLead /\ t \in Inserters /\ InsertStep(t) /\ Observe /\ ~clash' /\ ~Meeting'
  /\ d \in Charts /\ Redraws(c, d, t)

LEMMA InsertFacts ==
  ASSUME NEW c, NEW d, NEW t, InsertCalm(c, d, t)
  PROVE  /\ t \in Inserters /\ t \in Threads /\ InsertStep(t) /\ TypesOK /\ WordsOK /\ Live \subseteq Nodes
         /\ Live \subseteq Live' /\ (on[t] \in Nodes \/ pc[t] # "version") /\ Apart(t)
         /\ CellsLead' /\ stored \subseteq stored'
         /\ \A n \in Live : /\ node[n].count <= node'[n].count
                            /\ node[n].count \in Nat /\ node'[n].count \in Nat
                            /\ ~(Adding(t) /\ Into(t) = n) => SameKeys(n)
         /\ \A s \in Searchers :
              /\ s # t /\ s \in Threads /\ on[s] \in Nodes
              /\ pc'[s] # "start" => (s \in crossed' <=> s \in crossed \/ Crosses(s)')
              /\ pc'[s] = "start" => s \notin crossed'
              /\ s \in due' <=> s \in due
<1>1. /\ Calm(c) /\ WordsOK /\ CellsLead /\ t \in Inserters /\ InsertStep(t) /\ Observe /\ ~Meeting'
  BY DEF InsertCalm
<1>2. t \in Threads /\ TypesOK /\ Live \subseteq Nodes
  BY <1>1, CalmFacts, Names
<1>3. Apart(t) /\ Live \subseteq Live'
  <2>1. Apart(t)
    BY <1>1, <1>2, StepApart
  <2>2. QED
    BY <2>1 DEF Apart, Live
<1>4. on[t] \in Nodes \/ pc[t] # "version"
  BY <1>2 DEF TypesOK, Splitting, Adding
<1>5. /\ CellsLead'
      /\ \A n \in Live : /\ node[n].count <= node'[n].count
                         /\ node[n].count \in Nat /\ node'[n].count \in Nat
                         /\ ~(Adding(t) /\ Into(t) = n) => SameKeys(n)
  <2>1. \A n \in Live : node[n].count \in Nat
    BY <1>1, CalmFacts, Fields
  <2>2. CASE ReadingStep(t)
    <3>1. node' = node /\ Live' = Live
      BY <1>1, <1>2, <2>2, ReadingUnchanged DEF Live
    <3>2. QED
      BY <1>1, <2>1, <3>1 DEF CellsLead, SameKeys, Upto
  <2>3. CASE WritingStep(t)
    <3>1. node' \in [Nodes -> NodeRecords]
      <4>1. CASE ShortenLen(t)
        BY <1>1, <4>1, ShortenLenCharted
      <4>2. CASE ~ShortenLen(t)
        BY <1>1, <2>3, <4>2, SplitTypes, SetLenCharted, SetPartialCharted, ShortenPartialCharted,
           ShiftCharted, PutCharted, StoreCountCharted DEF WritingStep
      <4>3. QED
        BY <4>1, <4>2
    <3>2. \A n \in Live : node'[n].count \in Nat
      BY <1>2, <3>1, Fields
    <3>3. QED
      BY <1>1, <2>1, <2>3, <3>2, CellsMove
  <2>4. QED
    BY <1>1, <2>2, <2>3 DEF InsertStep, ReadingStep, WritingStep
<1>6. stored \subseteq stored'
  BY <1>1 DEF InsertStep, Call, ReadVersion, ReadPrefix, Find, LoadChild, LockParent, Lock, LockNode, LockAbove,
              SplitLeaf, SplitPrefix, SetLen, SetPartial, ShortenLen, ShortenPartial, Position, Shift,
              Put, LoadCount,
              StoreCount, Unlock, UnlockParent
<1>7. due' = due \/ due' = due \ {t}
  <2>1. ~Search(t)
    BY <1>1, Names DEF Search
  <2>2. QED
    BY <1>1, <2>1 DEF InsertStep, Call, ReadVersion, ReadPrefix, Find, LoadChild, LockParent, Lock, LockNode,
              LockAbove, SplitLeaf, SplitPrefix, SetLen, SetPartial, ShortenLen, ShortenPartial,
              Position, Shift, Put,
              LoadCount, StoreCount, Unlock, UnlockParent
<1>8. ASSUME NEW s \in Searchers
      PROVE  /\ s # t /\ s \in Threads /\ on[s] \in Nodes
             /\ pc'[s] # "start" => (s \in crossed' <=> s \in crossed \/ Crosses(s)')
             /\ pc'[s] = "start" => s \notin crossed'
             /\ s \in due' <=> s \in due
  <2>1. s # t /\ s \in Threads /\ s \notin Inserters
    BY <1>1, Names
  <2>2. on[s] \in Nodes
    BY <1>2, <2>1 DEF TypesOK
  <2>3. s \in crossed' <=> pc'[s] # "start" /\ (s \in crossed \/ Crosses(s)')
    BY <1>1 DEF Observe
  <2>4. QED
    BY <1>7, <2>1, <2>2, <2>3
<1>9. QED
  BY <1>1, <1>2, <1>3, <1>4, <1>5, <1>6, <1>8

(* A node is steady after the step only if it was before.                  *)
LEMMA SteadyBefore ==
  ASSUME NEW c, NEW d, NEW t, InsertCalm(c, d, t), NEW n \in Live, NEW v \in Nat, v <= version[n],
         Steady(n, v)', \A u \in Inserters : ~(Splitting(u) /\ u = n)
  PROVE  Steady(n, v) /\ SameKeys(n)
<1>1. /\ Calm(c) /\ WordsOK /\ t \in Inserters /\ t \in Threads /\ InsertStep(t) /\ TypesOK /\ n \in Nodes /\ Apart(t)
      /\ ~(Adding(t) /\ Into(t) = n) => SameKeys(n)
  BY InsertFacts, CalmFacts DEF InsertCalm
<1>2. version[n] = v /\ version'[n] = v
  <2>1. version[n] \in Nat /\ version[n] <= version'[n] /\ version'[n] = v
    BY <1>1, VersionsGrow DEF Steady, WordsOK
  <2>2. QED
    BY <2>1
<1>3. ~WorksOn(t, n)
  <2>1. ~(version[n] < version'[n]) /\ ~WorksOn(t, n)'
    BY <1>1, <1>2 DEF Steady
  <2>2. QED
    BY <1>1, <2>1, WorkEnds
<1>4. ASSUME NEW u \in Inserters, u # t PROVE ~WorksOn(u, n)
  <2>1. Unmoved(u)
    BY <1>1, <1>4 DEF Apart
  <2>2. ~WorksOn(u, n)'
    BY DEF Steady
  <2>3. QED
    BY <2>1, <2>2, UnmovedSame DEF WorksOn, Unmoved
<1>5. QED
  BY <1>1, <1>2, <1>3, <1>4 DEF Steady, WorksOn

(* A stored key hangs in the tree.                                         *)
LEMMA StoredHangs ==
  ASSUME NEW c, Calm(c), NEW k \in stored
  PROVE  k \in Keys /\ c.up[k] # Null
<1>1. k \in Loaded \/ \E t \in Inserters : key[t] = k /\ pc[t] \in {"unlock", "unlockParent", "done"}
  BY CalmFacts DEF KeysOK
<1>2. k \in Keys
  BY <1>1, CalmFacts, SplitAssumption
<1>3. QED
  BY <1>1, <1>2, CalmFacts DEF IsTree, HasPut

(* No insert has just begun a split that it has already made.              *)
LEMMA SplitsOnce ==
  ASSUME NEW c, NEW d, NEW t, InsertCalm(c, d, t), NEW u \in Inserters, u \in Live, Splitting(u)'
  PROVE  Splitting(u)
<1>1. Calm(c) /\ t \in Inserters /\ t \in Threads /\ InsertStep(t) /\ TypesOK /\ Apart(t)
  BY InsertFacts DEF InsertCalm
<1>2. u \in made
  BY <1>1, Names DEF Live
<1>3. CASE u # t
  BY <1>1, <1>3, UnmovedSame DEF Apart
<1>4. CASE u = t
  <2>1. SUFFICES ASSUME ~Splitting(t) PROVE FALSE
    BY <1>4
  <2>2. pc[t] \notin {"start", "version", "prefix", "find", "load", "lockParent", "lock", "leaf", "lockNode",
                      "lockAbove", "publish", "setLen", "setPartial", "shortenLen",
                      "shortenPartial"} /\ ~Adding(t)
    <3>1. Descends(c, t) /\ Divides(c, t)
      BY <1>1, CalmFacts DEF Knows
    <3>2. QED
      BY <1>2, <1>4, <2>1, <3>1 DEF Splitting, Descends, Divides
  <2>3. Unlock(t) \/ UnlockParent(t)
    BY <1>1, <2>2 DEF InsertStep, Call, ReadVersion, ReadPrefix, Find, LoadChild, LockParent, Lock, LockNode,
                      LockAbove, SplitLeaf, SplitPrefix, SetLen, SetPartial, ShortenLen, ShortenPartial,
                      Position, Shift,
                      Put, LoadCount, StoreCount, Adding
  <2>4. pc'[t] \in {"unlockParent", "done"}
    BY <1>1, <2>3 DEF Unlock, UnlockParent, Return, Goto, TypesOK
  <2>5. QED
    BY <1>4, <2>4 DEF Splitting, Adding
<1>5. QED
  BY <1>3, <1>4

(* What a search holds it still holds, and what it crosses is noted.       *)
LEMMA HoldsKept ==
  ASSUME NEW c, NEW d, NEW t, InsertCalm(c, d, t), SearchesOK(c)
  PROVE  SearchesOK(d)'
<1>0. /\ Calm(c) /\ WordsOK /\ t \in Inserters /\ t \in Threads /\ InsertStep(t) /\ TypesOK /\ c \in Charts
      /\ Live \subseteq Nodes /\ Live \subseteq Live' /\ d \in Charts /\ Redraws(c, d, t) /\ Apart(t)
  BY InsertFacts, CalmFacts DEF InsertCalm
<1>1. SUFFICES ASSUME NEW s \in Searchers
               PROVE  /\ (pc[s] = "start" => on[s] = Root /\ depth[s] = 0)'
                      /\ (pc[s] # "start" /\ Crosses(s) => s \in crossed)'
                      /\ (s \in due => key[s] \in stored)'
                      /\ (Relies(s) => Holds(d, s))'
  BY DEF SearchesOK, SearchOK
<1>2. /\ key' = key /\ pc'[s] = pc[s] /\ on'[s] = on[s] /\ ref'[s] = ref[s] /\ depth'[s] = depth[s]
      /\ i'[s] = i[s] /\ ver'[s] = ver[s] /\ pver'[s] = pver[s] /\ child'[s] = child[s]
      /\ Parent(s)' = Parent(s) /\ (Ended(s)' <=> Ended(s))
  BY <1>0, InsertFacts, SearchRests
<1>3. /\ s \in Threads /\ on[s] \in Nodes /\ stored \subseteq stored' /\ (s \in due' <=> s \in due)
      /\ pc'[s] # "start" => (s \in crossed' <=> s \in crossed \/ Crosses(s)')
  BY InsertFacts
<1>4. /\ pc[s] = "start" => on[s] = Root /\ depth[s] = 0
      /\ pc[s] # "start" /\ Crosses(s) => s \in crossed
      /\ s \in due => key[s] \in stored
      /\ Relies(s) => Holds(c, s)
  BY DEF SearchesOK, SearchOK
<1>5. ASSUME Relies(s)' PROVE Holds(d, s)'
  <2>10. PICK k, n, m, v, w : k = key[s] /\ n = on[s] /\ m = Parent(s) /\ v = ver[s] /\ w = pver[s]
    OBVIOUS
  <2>1. /\ ~Ended(s)' /\ ~Crosses(s)' /\ ~Crosses(s) /\ Holds(c, s) /\ k \in stored /\ ~Ended(s)
    BY <1>2, <1>3, <1>4, <1>5, <2>10 DEF Relies
  <2>2. k \in Keys /\ c.up[k] # Null
    BY <1>0, <2>1, StoredHangs
  <2>3. Above(c, k) \subseteq Live /\ Above(c, k) \subseteq Above(d, k)
    BY <1>0, <2>2, AboveFacts, AboveGrows
  <2>4. n \in Live => d.to[n] = c.to[n] /\ d.from[n] = c.from[n]
    <3>1. ~Shortens(t, n)'
      BY <1>0, <1>2, <2>1, <2>10 DEF Crosses, Shortens
    <3>2. QED
      BY <1>0, <3>1, RedrawnNodes
  <2>5. \A q \in Nodes : version[q] \in Nat /\ version[q] <= version'[q] /\ version'[q] \in Nat
    BY <1>0, VersionsGrow DEF WordsOK
  <2>6. v \in Nat /\ w \in Nat
    BY <1>0, <1>3, <2>10 DEF WordsOK
  <2>7. ASSUME n \in Live, v <= version[n], Steady(n, v)' PROVE Steady(n, v) /\ SameKeys(n)
    <3>1. \A u \in Inserters : ~(Splitting(u) /\ u = n)
      BY <2>1, <2>10 DEF Crosses
    <3>2. QED
      BY <2>6, <2>7, <3>1, SteadyBefore
  <2>8. ASSUME m \in Live, w <= version[m], Steady(m, w)', \A u \in Inserters : ~(Splitting(u) /\ u = m)
        PROVE  Steady(m, w)
    BY <2>6, <2>8, SteadyBefore
  <2>9. /\ m \in Live => m \in Nodes
        /\ n \in Live => node[n].count <= node'[n].count /\ node[n].count \in Nat /\ node'[n].count \in Nat
        /\ i[s] \in Nat
    <3>1. i[s] \in Nat
      <4>1. i \in [Threads -> 0 .. Room]
        BY <1>0 DEF TypesOK
      <4>2. QED
        BY <1>3, <4>1
    <3>2. QED
      BY <1>0, <3>1, InsertFacts
  <2>11. (pc[s] = "prefix" => on[s] \in Above(d, key[s]) /\ depth[s] = d.from[on[s]])'
    BY <1>2, <2>1, <2>3, <2>4, <2>10 DEF Holds
  <2>12. (pc[s] \in {"find", "load", "check"} => on[s] \in Above(d, key[s]) /\ depth[s] = d.to[on[s]])'
    BY <1>2, <2>1, <2>3, <2>4, <2>10 DEF Holds
  <2>13. (pc[s] \in {"prefix", "find", "load", "check", "checkParent"} => ver[s] <= version[on[s]])'
    <3>1. pc[s] \in {"prefix", "find", "load", "check", "checkParent"} => ver[s] <= version[on[s]]
      BY <2>1 DEF Holds
    <3>2. QED
      BY <1>2, <1>3, <2>5, <2>6, <2>10, <3>1
  <2>14. (pc[s] = "load" =>
            i[s] < node[on[s]].count /\ (Steady(on[s], ver[s]) => node[on[s]].keys[i[s]] = Byte(key[s], depth[s])))'
    <3>1. SUFFICES ASSUME pc[s] = "load"
                   PROVE  (/\ i[s] < node[on[s]].count
                           /\ Steady(on[s], ver[s]) => node[on[s]].keys[i[s]] = Byte(key[s], depth[s]))'
      BY <1>2
    <3>2. /\ n \in Live /\ v <= version[n] /\ i[s] < node[n].count
          /\ Steady(n, v) => node[n].keys[i[s]] = Byte(k, depth[s])
      BY <2>1, <2>3, <2>10, <3>1 DEF Holds
    <3>3. i[s] < node'[n].count
      BY <2>9, <3>2
    <3>4. Steady(n, v)' => node'[n].keys[i[s]] = Byte(k, depth[s])
      BY <2>7, <3>2 DEF SameKeys
    <3>5. Steady(on[s], ver[s])' <=> Steady(n, v)'
      BY <1>2, <2>10 DEF Steady
    <3>6. QED
      BY <1>2, <2>10, <3>3, <3>4, <3>5 DEF Byte
  <2>15. (pc[s] = "check" => (Steady(on[s], ver[s]) => child[s] = key[s]))'
    <3>1. pc[s] = "check" => n \in Live /\ v <= version[n] /\ (Steady(n, v) => child[s] = key[s])
      BY <2>1, <2>3, <2>10 DEF Holds
    <3>2. QED
      BY <1>2, <2>7, <2>10, <3>1
  <2>16. (pc[s] \in {"version", "checkParent"} =>
           /\ Parent(s) \in Above(d, key[s]) /\ pver[s] <= version[Parent(s)] /\ on[s] # Root
           /\ \A u \in Inserters : ~(Splitting(u) /\ u = Parent(s))
           /\ Steady(Parent(s), pver[s]) => on[s] \in Above(d, key[s]) /\ depth[s] = d.from[on[s]])'
    <3>1. SUFFICES ASSUME pc[s] \in {"version", "checkParent"}
                   PROVE  (/\ Parent(s) \in Above(d, key[s]) /\ pver[s] <= version[Parent(s)] /\ on[s] # Root
                           /\ \A u \in Inserters : ~(Splitting(u) /\ u = Parent(s))
                           /\ Steady(Parent(s), pver[s]) => on[s] \in Above(d, key[s]) /\ depth[s] = d.from[on[s]])'
      BY <1>2
    <3>2. /\ m \in Above(c, k) /\ m \in Live /\ w <= version[m] /\ n # Root
          /\ \A u \in Inserters : ~(Splitting(u) /\ u = m)
          /\ Steady(m, w) => n \in Above(c, k) /\ depth[s] = c.from[n]
      BY <2>1, <2>3, <2>10, <3>1 DEF Holds
    <3>3. w <= version'[m]
      BY <2>5, <2>6, <2>9, <3>2
    <3>4. \A u \in Inserters : ~(Splitting(u)' /\ u = m)
      BY <3>2, SplitsOnce
    <3>5. Steady(m, w)' => n \in Above(d, k) /\ depth[s] = d.from[n]
      BY <2>3, <2>4, <2>8, <3>2
    <3>6. QED
      BY <1>2, <2>3, <2>10, <3>2, <3>3, <3>4, <3>5
  <2>17. QED
    BY <2>11, <2>12, <2>13, <2>14, <2>15, <2>16 DEF Holds
<1>6. QED
  BY <1>2, <1>3, <1>4, <1>5

-------------------------------------------------------------------------------
(* A node above a key that nobody is at work on leads a search to it.      *)
LEMMA CellsGuide ==
  ASSUME NEW c, Calm(c), NEW k \in Keys, c.up[k] # Null, NEW n \in Above(c, k),
         \A t \in Inserters : ~WorksOn(t, n) /\ ~(Splitting(t) /\ t = n)
  PROVE  /\ \E j \in Upto(node[n].count) : node[n].keys[j] = Byte(k, c.to[n])
         /\ \A j \in Upto(node[n].count) : node[n].keys[j] = Byte(k, c.to[n]) =>
              LET p == node[n].children[j] IN
              p = k \/ (p \in Above(c, k) /\ p \in Nodes /\ c.from[p] = c.to[n] + 1)
<1>1. n \in Live /\ n \in Nodes /\ n # Null /\ Above(c, k) \subseteq Live /\ Live \subseteq Nodes
  BY AboveFacts, CalmFacts, Names
<1>2. Filled(c, n, Upto(node[n].count))
  <2>1. \A t \in Inserters : ~(Adding(t) /\ Into(t) = n)
    BY DEF WorksOn
  <2>2. QED
    BY <1>1, <2>1, CalmFacts DEF CellsOK
<1>3. PICK q \in Things : /\ c.up[q] = n /\ (q = k \/ q \in Above(c, k))
                          /\ ByteOf[c.sample[q]][c.to[n]] = ByteOf[k][c.to[n]]
  BY NextAbove
<1>4. q \in InCells(c, n)
  <2>1. ~(n \in Inserters /\ Waiting(n))
    BY DEF Waiting, Splitting, Adding
  <2>2. QED
    BY <1>3, <2>1 DEF InCells
<1>5. PICK x \in Upto(node[n].count) : node[n].children[x] = q
  BY <1>2, <1>4 DEF Filled
<1>6. c.to[n] \in 0 .. KeyLen - 1
  BY <1>1, CalmFacts, Numbers
<1>7. node[n].keys[x] = Byte(k, c.to[n])
  BY <1>2, <1>3, <1>5, <1>6, Letters DEF Filled, ByteIn
<1>8. q = k \/ (q \in Above(c, k) /\ q \in Nodes /\ c.from[q] = c.to[n] + 1)
  <2>1. ASSUME q \in Above(c, k) PROVE q \in Nodes /\ Under(c, q, n)
    BY <1>1, <1>3, <2>1, CalmFacts DEF IsTree
  <2>2. QED
    BY <1>3, <2>1 DEF Under
<1>9. ASSUME NEW j \in Upto(node[n].count), node[n].keys[j] = Byte(k, c.to[n]) PROVE j = x
  <2>1. node[n].count \in Nat /\ node[n].count <= Room
    BY <1>1, CalmFacts, Fields
  <2>2. j \in Nat /\ x \in Nat /\ j \in Cells /\ x \in Cells
    BY <2>1, Numbers DEF Upto
  <2>3. node[n].keys[j] \in Nat /\ node[n].keys[x] \in Nat
    BY <1>1, <2>2, CalmFacts, Fields
  <2>4. ~(node[n].keys[j] < node[n].keys[x]) /\ ~(node[n].keys[x] < node[n].keys[j])
    BY <1>7, <1>9, <2>3
  <2>5. ~(j < x) /\ ~(x < j)
    BY <1>2, <2>4 DEF Filled
  <2>6. QED
    BY <2>2, <2>5
<1>10. QED
  BY <1>5, <1>7, <1>8, <1>9

(* The prefix of a node above a key matches it, if no split is at work.    *)
LEMMA PrefixGuides ==
  ASSUME NEW c, Calm(c), NEW k \in Keys, c.up[k] # Null, NEW n \in Above(c, k),
         \A t \in Inserters : ~Shortens(t, n) /\ ~(Splitting(t) /\ t = n)
  PROVE  PrefixMismatch(n, k, c.from[n]) = node[n].len /\ node[n].len = c.to[n] - c.from[n]
<1>1. n \in Live /\ n \in Nodes
  BY AboveFacts, CalmFacts
<1>2. LenFrom(c, n, c.from[n]) /\ PartialFrom(c, n, c.from[n])
  <2>1. ASSUME NEW t \in Inserters
        PROVE  /\ ~(pc[t] \in {"setLen", "setPartial"} /\ t = n)
               /\ ~((Unshortened(t) \/ HalfShortened(t)) /\ on[t] = n)
    <3>1. pc[t] \in {"setLen", "setPartial"} => Splitting(t)
      BY CalmFacts DEF Knows, Splits, Splitting
    <3>2. QED
      BY <1>1, <3>1 DEF Shortens, Unshortened, HalfShortened
  <2>2. QED
    BY <1>1, <2>1, CalmFacts DEF PrefixOK
<1>3. c.from[n] \in Nat /\ c.to[n] \in Nat /\ c.from[n] <= c.to[n] /\ c.to[n] < KeyLen /\ node[n].len = c.to[n] - c.from[n]
  BY <1>1, <1>2, CalmFacts DEF LenFrom
<1>4. Bytes(k, c.sample[n], c.to[n])
  BY AboveShares
<1> DEFINE S == {j \in 0 .. node[n].len - 1 : node[n].partial[j] # Byte(k, c.from[n] + j)}
<1>5. S = {}
  <2>1. SUFFICES ASSUME NEW j \in 0 .. node[n].len - 1 PROVE node[n].partial[j] = Byte(k, c.from[n] + j)
    OBVIOUS
  <2>2. c.from[n] + j \in 0 .. c.to[n] - 1 /\ c.from[n] + j \in 0 .. KeyLen - 1 /\ j \in 0 .. c.to[n] - c.from[n] - 1
    BY <1>3, Numbers
  <2>3. node[n].partial[j] = ByteOf[c.sample[n]][c.from[n] + j]
    BY <1>2, <2>2 DEF PartialFrom
  <2>4. Byte(k, c.from[n] + j) = ByteOf[k][c.from[n] + j]
    BY <2>2, Letters
  <2>5. QED
    BY <1>4, <2>2, <2>3, <2>4 DEF Bytes
<1>6. PrefixMismatch(n, k, c.from[n]) = FirstOf(S, node[n].len)
  BY DEF PrefixMismatch
<1>7. QED
  BY <1>3, <1>5, <1>6 DEF FirstOf

(* A state in which a search takes a step.                                 *)
SearchCalm(c, s) ==
  /\ Calm(c) /\ WordsOK /\ CellsLead /\ SearchesOK(c) /\ s \in Searchers /\ SearchStep(s) /\ Observe

LEMMA SearchFacts ==
  ASSUME NEW c, NEW s, SearchCalm(c, s)
  PROVE  /\ Calm(c) /\ s \in Searchers /\ s \in Threads /\ s \notin Inserters /\ Search(s) /\ TypesOK /\ WordsOK
         /\ SearchStep(s) /\ on[s] \in Nodes
         /\ node' = node /\ made' = made /\ stored' = stored /\ version' = version /\ key' = key /\ Live' = Live
         /\ \A t \in Inserters : /\ Splitting(t)' <=> Splitting(t)
                                 /\ \A n : WorksOn(t, n)' <=> WorksOn(t, n)
         /\ \A n, v : Steady(n, v)' <=> Steady(n, v)
         /\ \A u \in Searchers : /\ u \in Threads
                                 /\ pc'[u] # "start" => (u \in crossed' <=> u \in crossed \/ Crosses(u)')
                                 /\ pc'[u] = "start" => u \notin crossed'
                                 /\ u # s => (u \in due' <=> u \in due)
<1>1. /\ Calm(c) /\ s \in Searchers /\ s \in Threads /\ s \notin Inserters /\ Search(s) /\ TypesOK /\ WordsOK
      /\ SearchStep(s) /\ Observe
  BY Names, CalmFacts DEF SearchCalm, Search
<1>2. on[s] \in Nodes
  BY <1>1 DEF TypesOK
<1>3. node' = node /\ made' = made /\ stored' = stored /\ version' = version /\ key' = key
  BY <1>1 DEF SearchStep, Call, ReadVersion, ReadPrefix, Find, LoadChild, Restart, CheckParent, ReturnChild, shared
<1>4. Live' = Live
  BY <1>3 DEF Live
<1>5. ASSUME NEW t \in Inserters
      PROVE  (Splitting(t)' <=> Splitting(t)) /\ \A n : WorksOn(t, n)' <=> WorksOn(t, n)
  <2>1. Unmoved(t)
    BY <1>1, StepApart DEF Apart
  <2>2. QED
    BY <2>1, UnmovedSame DEF WorksOn, Unmoved
<1>6. \A n, v : Steady(n, v)' <=> Steady(n, v)
  BY <1>3, <1>5 DEF Steady
<1>7. due' = due \/ due' = due \ {s} \/ due' = due \cup {s}
  BY <1>1 DEF SearchStep, Call, ReadVersion, ReadPrefix, Find, LoadChild, Restart, CheckParent, ReturnChild
<1>8. ASSUME NEW u \in Searchers
      PROVE  /\ u \in Threads
             /\ pc'[u] # "start" => (u \in crossed' <=> u \in crossed \/ Crosses(u)')
             /\ pc'[u] = "start" => u \notin crossed'
             /\ u # s => (u \in due' <=> u \in due)
  <2>1. u \in crossed' <=> pc'[u] # "start" /\ (u \in crossed \/ Crosses(u)')
    BY <1>1 DEF Observe
  <2>2. QED
    BY <1>7, <2>1, Names
<1>9. QED
  BY <1>1, <1>2, <1>3, <1>4, <1>5, <1>6, <1>8

LEMMA OthersFine ==
  ASSUME NEW c, NEW s, SearchCalm(c, s), NEW u \in Searchers, u # s
  PROVE  SearchOK(c, u)'
<1>0. s \in Threads /\ SearchStep(s) /\ on[s] \in Nodes /\ TypesOK /\ WordsOK
  BY SearchFacts
<1>1. /\ key' = key /\ pc'[u] = pc[u] /\ on'[u] = on[u] /\ ref'[u] = ref[u] /\ depth'[u] = depth[u]
      /\ i'[u] = i[u] /\ ver'[u] = ver[u] /\ pver'[u] = pver[u] /\ child'[u] = child[u]
      /\ Parent(u)' = Parent(u) /\ (Ended(u)' <=> Ended(u))
  BY <1>0, SearchRests
<1>2. /\ node' = node /\ stored' = stored /\ version' = version
      /\ \A t \in Inserters : Splitting(t)' <=> Splitting(t)
      /\ \A n, v : Steady(n, v)' <=> Steady(n, v)
      /\ pc'[u] # "start" => (u \in crossed' <=> u \in crossed \/ Crosses(u)')
      /\ u \in due' <=> u \in due
  BY SearchFacts
<1>3. /\ pc[u] = "start" => on[u] = Root /\ depth[u] = 0
      /\ u \in due => key[u] \in stored
      /\ Relies(u) => Holds(c, u)
  BY DEF SearchCalm, SearchesOK, SearchOK
<1>4. Relies(u)' => Relies(u)
  BY <1>1, <1>2 DEF Relies
<1>5. Holds(c, u) => Holds(c, u)'
  <2>1. Steady(on[u], ver[u])' <=> Steady(on[u], ver[u])
    <3>1. PICK n, v : n = on[u] /\ v = ver[u]
      OBVIOUS
    <3>2. Steady(n, v)' <=> Steady(n, v)
      BY <1>2
    <3>3. QED
      BY <1>1, <3>1, <3>2
  <2>2. Steady(Parent(u), pver[u])' <=> Steady(Parent(u), pver[u])
    <3>1. PICK n, v : n = Parent(u) /\ v = pver[u]
      OBVIOUS
    <3>2. Steady(n, v)' <=> Steady(n, v)
      BY <1>2
    <3>3. QED
      BY <1>1, <3>1, <3>2
  <2>3. QED
    BY <1>1, <1>2, <2>1, <2>2 DEF Holds, Byte
<1>6. QED
  BY <1>1, <1>2, <1>3, <1>4, <1>5 DEF SearchOK

(* What the step of a search keeps of its own.                             *)
LEMMA OwnFacts ==
  ASSUME NEW c, NEW s, SearchCalm(c, s), pc[s] # "start", Relies(s)', NEW k, k = key[s], NEW n, n = on[s]
  PROVE  /\ Holds(c, s) /\ key'[s] = k /\ k \in stored /\ k \in stored' /\ k \in Keys /\ c.up[k] # Null
         /\ Above(c, k) \subseteq Live /\ ver[s] \in Nat /\ pver[s] \in Nat /\ n \in Nodes
         /\ node[n].count \in Nat /\ node[n].count <= Room
         /\ \A t \in Inserters : ~Shortens(t, n) /\ ~(Splitting(t) /\ t = n)
         /\ ~Crosses(s)'
<1>1. /\ Calm(c) /\ s \in Threads /\ on[s] \in Nodes /\ WordsOK /\ s \in Searchers /\ SearchStep(s)
      /\ key' = key /\ stored' = stored /\ TypesOK
      /\ pc'[s] # "start" => (s \in crossed' <=> s \in crossed \/ Crosses(s)')
  BY SearchFacts
<1>2. s \in due' /\ s \notin crossed' /\ pc'[s] # "start" /\ ~Ended(s)'
  BY DEF Relies
<1>3. due' = due /\ ~Ended(s)
  BY <1>1 DEF SearchStep, Call, ReadVersion, ReadPrefix, Find, LoadChild, Restart, CheckParent, ReturnChild, Ended
<1>4. SearchOK(c, s)
  BY <1>1 DEF SearchCalm, SearchesOK
<1>5. s \in due /\ s \notin crossed /\ ~Crosses(s) /\ ~Crosses(s)' /\ Holds(c, s) /\ k \in stored
  BY <1>1, <1>2, <1>3, <1>4 DEF SearchOK, Relies
<1>6. k \in Keys /\ c.up[k] # Null
  BY <1>1, <1>5, StoredHangs
<1>7. Above(c, k) \subseteq Live
  BY <1>1, <1>6, AboveFacts
<1>8. \A t \in Inserters : ~Shortens(t, n) /\ ~(Splitting(t) /\ t = n)
  BY <1>3, <1>5 DEF Crosses
<1>9. node[n] \in NodeRecords
  BY <1>1 DEF TypesOK
<1>10. QED
  BY <1>1, <1>5, <1>6, <1>7, <1>8, <1>9, Fields DEF WordsOK

LEMMA CallFine ==
  ASSUME NEW c, NEW s, SearchCalm(c, s), Call(s), Relies(s)'
  PROVE  Holds(c, s)'
<1>1. /\ Calm(c) /\ s \in Threads /\ WordsOK /\ s \in Searchers /\ Search(s) /\ TypesOK
      /\ key' = key /\ stored' = stored /\ version' = version
  BY SearchFacts
<1>2. on[s] = Root /\ depth[s] = 0
  BY <1>1 DEF SearchCalm, SearchesOK, SearchOK, Call
<1>3. pc'[s] = "prefix" /\ on'[s] = Root /\ depth'[s] = 0 /\ ver'[s] = version[Root]
  BY <1>1, <1>2 DEF Call, Goto, TypesOK, WordsOK, path
<1>4. key[s] \in stored
  BY <1>1 DEF Relies, Call
<1>5. key[s] \in Keys /\ c.up[key[s]] # Null
  BY <1>1, <1>4, StoredHangs
<1>6. Root \in Above(c, key[s]) /\ c.from[Root] = 0
  BY <1>1, <1>5, RootAbove, CalmFacts DEF IsTree
<1>7. version[Root] \in Nat
  BY <1>1, Names DEF WordsOK
<1>8. QED
  BY <1>1, <1>3, <1>6, <1>7 DEF Holds

LEMMA ReadVersionFine ==
  ASSUME NEW c, NEW s, SearchCalm(c, s), ReadVersion(s), Relies(s)'
  PROVE  Holds(c, s)'
<1>1. /\ Calm(c) /\ s \in Threads /\ WordsOK /\ s \in Searchers /\ Search(s) /\ TypesOK /\ on[s] \in Nodes
      /\ key' = key /\ stored' = stored /\ version' = version /\ pc[s] = "version"
      /\ \A t \in Inserters : Splitting(t)' <=> Splitting(t)
  BY SearchFacts DEF ReadVersion
<1>2. /\ pc'[s] = "checkParent" /\ on' = on /\ ref' = ref /\ depth' = depth /\ pver' = pver
      /\ ver'[s] = version[on[s]]
  BY <1>1 DEF ReadVersion, Goto, TypesOK, WordsOK, path
<1>3. Holds(c, s)
  BY <1>1, OwnFacts
<1>4. version[on[s]] \in Nat
  BY <1>1 DEF WordsOK
<1>5. Parent(s)' = Parent(s)
  BY <1>2 DEF Parent
<1>6. Steady(Parent(s), pver[s])' <=> Steady(Parent(s), pver[s])
  <2>1. PICK n, v : n = Parent(s) /\ v = pver[s]
    OBVIOUS
  <2>2. Steady(n, v)' <=> Steady(n, v)
    BY SearchFacts
  <2>3. QED
    BY <1>2, <1>5, <2>1, <2>2
<1>7. QED
  BY <1>1, <1>2, <1>3, <1>4, <1>5, <1>6 DEF Holds

LEMMA CheckParentFine ==
  ASSUME NEW c, NEW s, SearchCalm(c, s), CheckParent(s), Relies(s)'
  PROVE  Holds(c, s)'
<1>1. /\ Calm(c) /\ s \in Threads /\ WordsOK /\ s \in Searchers /\ TypesOK /\ on[s] \in Nodes
      /\ key' = key /\ version' = version /\ pc[s] = "checkParent"
      /\ \A t \in Inserters : \A n : WorksOn(t, n)' <=> WorksOn(t, n)
  BY SearchFacts DEF CheckParent
<1>2. /\ pc'[s] = "prefix" /\ on' = on /\ ref' = ref /\ depth' = depth /\ ver' = ver
      /\ version[Parent(s)] = pver[s]
  BY <1>1 DEF CheckParent, Goto, TypesOK, path
<1>3. Holds(c, s) /\ ~Crosses(s)'
  BY <1>1, OwnFacts
<1>4. on[s] # Root
  BY <1>1, <1>3 DEF Holds
<1>5. PICK m : m = Parent(s)
  OBVIOUS
<1>6. \A t \in Inserters : ~WorksOn(t, m)'
  <2>1. on'[s] # Root /\ Parent(s)' = m
    BY <1>2, <1>4, <1>5 DEF Parent
  <2>2. QED
    BY <1>2, <1>3, <2>1 DEF Crosses
<1>7. Steady(Parent(s), pver[s])
  BY <1>1, <1>2, <1>5, <1>6 DEF Steady
<1>8. QED
  BY <1>1, <1>2, <1>3, <1>7 DEF Holds

LEMMA ReadPrefixFine ==
  ASSUME NEW c, NEW s, SearchCalm(c, s), ReadPrefix(s), Relies(s)'
  PROVE  Holds(c, s)'
<1>1. /\ Calm(c) /\ s \in Threads /\ WordsOK /\ s \in Searchers /\ Search(s) /\ TypesOK /\ on[s] \in Nodes
      /\ key' = key /\ version' = version /\ pc[s] = "prefix"
  BY SearchFacts DEF ReadPrefix
<1>2. PICK k, n : k = key[s] /\ n = on[s]
  OBVIOUS
<1>3. /\ Holds(c, s) /\ k \in Keys /\ c.up[k] # Null /\ Above(c, k) \subseteq Live
      /\ \A t \in Inserters : ~Shortens(t, n) /\ ~(Splitting(t) /\ t = n)
  BY <1>1, <1>2, OwnFacts
<1>4. n \in Above(c, k) /\ depth[s] = c.from[n] /\ ver[s] <= version[n]
  BY <1>1, <1>2, <1>3 DEF Holds
<1>5. PrefixMismatch(n, k, depth[s]) = node[n].len /\ node[n].len = c.to[n] - c.from[n]
  BY <1>1, <1>3, <1>4, PrefixGuides
<1>6. /\ pc'[s] = "find" /\ on' = on /\ ver' = ver /\ depth'[s] = depth[s] + node[n].len
  BY <1>1, <1>2, <1>5 DEF ReadPrefix, Goto, TypesOK, words
<1>7. depth'[s] = c.to[n]
  <2>1. c.from[n] \in Nat /\ c.to[n] \in Nat
    BY <1>1, <1>3, <1>4, CalmFacts
  <2>2. QED
    BY <1>4, <1>5, <1>6, <2>1
<1>8. QED
  BY <1>1, <1>2, <1>4, <1>6, <1>7 DEF Holds

LEMMA FindFine ==
  ASSUME NEW c, NEW s, SearchCalm(c, s), Find(s), Relies(s)'
  PROVE  Holds(c, s)'
<1>1. /\ Calm(c) /\ s \in Threads /\ WordsOK /\ s \in Searchers /\ Search(s) /\ TypesOK /\ on[s] \in Nodes
      /\ key' = key /\ version' = version /\ node' = node /\ pc[s] = "find"
      /\ \A n, v : Steady(n, v)' <=> Steady(n, v)
  BY SearchFacts DEF Find
<1>2. PICK k, n, v : k = key[s] /\ n = on[s] /\ v = ver[s]
  OBVIOUS
<1>3. /\ Holds(c, s) /\ k \in Keys /\ c.up[k] # Null /\ node[n].count \in Nat
      /\ \A t \in Inserters : ~(Splitting(t) /\ t = n)
  BY <1>1, <1>2, OwnFacts
<1>4. n \in Above(c, k) /\ depth[s] = c.to[n] /\ v <= version[n]
  BY <1>1, <1>2, <1>3 DEF Holds
<1> DEFINE at == {j \in 0 .. node[n].count - 1 : node[n].keys[j] = Byte(k, depth[s])}
<1>5. /\ i'[s] = FirstOf(at, 0) /\ pc'[s] = (IF at # {} THEN "load" ELSE "check")
      /\ on' = on /\ depth' = depth /\ ver' = ver
  BY <1>1, <1>2 DEF Find, Goto, TypesOK, path, words
<1>6. Steady(n, v) => at # {}
  <2>1. SUFFICES ASSUME Steady(n, v) PROVE at # {}
    OBVIOUS
  <2>2. \A t \in Inserters : ~WorksOn(t, n) /\ ~(Splitting(t) /\ t = n)
    BY <1>3, <2>1 DEF Steady
  <2>3. \E j \in Upto(node[n].count) : node[n].keys[j] = Byte(k, c.to[n])
    BY <1>1, <1>3, <1>4, <2>2, CellsGuide
  <2>4. QED
    BY <1>4, <2>3 DEF Upto
<1>7. at # {} => FirstOf(at, 0) \in at
  <2>1. at \in SUBSET Nat
    BY <1>3
  <2> HIDE DEF at
  <2>2. QED
    BY <2>1, First
<1>8. Steady(on[s], ver[s])' <=> Steady(n, v)
  <2>1. Steady(n, v)' <=> Steady(n, v)
    BY <1>1
  <2>2. QED
    BY <1>2, <1>5, <2>1
<1>9. at # {} => /\ i'[s] < node[n].count /\ node[n].keys[i'[s]] = Byte(k, depth[s])
  BY <1>3, <1>5, <1>7
<1> HIDE DEF at
<1>10. QED
  BY <1>1, <1>2, <1>4, <1>5, <1>6, <1>8, <1>9 DEF Holds, Byte

LEMMA LoadChildFine ==
  ASSUME NEW c, NEW s, SearchCalm(c, s), LoadChild(s), Relies(s)'
  PROVE  Holds(c, s)'
<1>1. /\ Calm(c) /\ s \in Threads /\ WordsOK /\ s \in Searchers /\ Search(s) /\ TypesOK /\ on[s] \in Nodes
      /\ key' = key /\ version' = version /\ node' = node /\ pc[s] = "load" /\ CellsLead
      /\ \A n, v : Steady(n, v)' <=> Steady(n, v)
      /\ \A t \in Inserters : Splitting(t)' <=> Splitting(t)
  BY SearchFacts DEF LoadChild, SearchCalm
<1>2. PICK k, n, v, j : k = key[s] /\ n = on[s] /\ v = ver[s] /\ j = i[s]
  OBVIOUS
<1>3. /\ Holds(c, s) /\ k \in Keys /\ c.up[k] # Null /\ Above(c, k) \subseteq Live /\ node[n].count \in Nat
      /\ \A t \in Inserters : ~(Splitting(t) /\ t = n)
  BY <1>1, <1>2, OwnFacts
<1>4. /\ n \in Above(c, k) /\ n \in Live /\ depth[s] = c.to[n] /\ v <= version[n] /\ j < node[n].count
      /\ Steady(n, v) => node[n].keys[j] = Byte(k, depth[s])
  BY <1>1, <1>2, <1>3 DEF Holds
<1>5. j \in Upto(node[n].count)
  <2>1. j \in Cells
    BY <1>1, <1>2 DEF TypesOK
  <2>2. QED
    BY <1>3, <1>4, <2>1, Numbers DEF Upto
<1>6. PICK p : p = node[n].children[j]
  OBVIOUS
<1>7. p # Root
  BY <1>1, <1>4, <1>5, <1>6 DEF CellsLead
<1>8. Steady(n, v) => p = k \/ (p \in Above(c, k) /\ p \in Nodes /\ c.from[p] = c.to[n] + 1)
  <2>1. SUFFICES ASSUME Steady(n, v)
                 PROVE  p = k \/ (p \in Above(c, k) /\ p \in Nodes /\ c.from[p] = c.to[n] + 1)
    OBVIOUS
  <2>2. \A t \in Inserters : ~WorksOn(t, n) /\ ~(Splitting(t) /\ t = n)
    BY <1>3, <2>1 DEF Steady
  <2>3. node[n].keys[j] = Byte(k, c.to[n])
    BY <1>4, <2>1
  <2>4. QED
    BY <1>1, <1>3, <1>4, <1>5, <1>6, <2>2, <2>3, CellsGuide
<1>9. Steady(n, v)' <=> Steady(n, v)
  BY <1>1
<1>10. CASE p \notin Nodes
  <2>1. /\ pc'[s] = "check" /\ child'[s] = p /\ on' = on /\ depth' = depth /\ ver' = ver
    BY <1>1, <1>2, <1>6, <1>10 DEF LoadChild, Goto, TypesOK, WordsOK, path, words
  <2>2. Steady(on[s], ver[s])' <=> Steady(n, v)
    BY <1>2, <1>9, <2>1
  <2>3. QED
    BY <1>1, <1>2, <1>4, <1>8, <1>10, <2>1, <2>2 DEF Holds
<1>11. CASE p \in Nodes
  <2>1. GoDown(s, p) /\ pc'[s] = "version"
    BY <1>1, <1>2, <1>6, <1>11 DEF LoadChild, Goto, TypesOK
  <2>2. on'[s] = p /\ ref'[s] = <<n, j>> /\ depth'[s] = depth[s] + 1 /\ pver'[s] = v
    BY <1>1, <1>2, <2>1 DEF GoDown, GoneDown, TypesOK, WordsOK
  <2>3. Parent(s)' = n
    BY <2>2 DEF Parent
  <2>4. Steady(Parent(s), pver[s])' <=> Steady(n, v)
    BY <1>9, <2>2, <2>3
  <2>5. Steady(n, v) => p \in Above(c, k) /\ depth'[s] = c.from[p]
    BY <1>3, <1>4, <1>8, <1>11, <2>2, Names
  <2>6. \A t \in Inserters : ~(Splitting(t)' /\ t = n)
    BY <1>1, <1>3
  <2>7. QED
    BY <1>1, <1>2, <1>4, <1>7, <2>1, <2>2, <2>3, <2>4, <2>5, <2>6 DEF Holds
<1>12. QED
  BY <1>10, <1>11

LEMMA SearchKeeps ==
  ASSUME NEW c, NEW s, SearchCalm(c, s)
  PROVE  SearchesOK(c)'
<1>1. /\ Calm(c) /\ s \in Threads /\ s \in Searchers /\ SearchStep(s) /\ TypesOK /\ key' = key /\ stored' = stored
      /\ pc'[s] # "start" => (s \in crossed' <=> s \in crossed \/ Crosses(s)')
  BY SearchFacts
<1>2. SearchOK(c, s)
  BY <1>1 DEF SearchCalm, SearchesOK
<1>3. (pc[s] = "start" => on[s] = Root /\ depth[s] = 0)'
  <2>1. SUFFICES ASSUME pc'[s] = "start" PROVE on'[s] = Root /\ depth'[s] = 0
    OBVIOUS
  <2>2. Restart(s)
    BY <1>1, <2>1 DEF SearchStep, Call, ReadVersion, ReadPrefix, Find, LoadChild, CheckParent, ReturnChild, Return,
                      Goto, TypesOK
  <2>3. QED
    BY <1>1, <2>2 DEF Restart, Return, TypesOK
<1>4. (s \in due => key[s] \in stored)'
  <2>1. s \in due => key[s] \in stored
    BY <1>2 DEF SearchOK
  <2>2. QED
    BY <1>1, <2>1 DEF SearchStep, Call, ReadVersion, ReadPrefix, Find, LoadChild, Restart, CheckParent, ReturnChild
<1>5. ASSUME Relies(s)' PROVE Holds(c, s)'
  <2>1. ~Restart(s) /\ ~ReturnChild(s)
    <3>1. pc'[s] \notin {"start", "found", "missed"}
      BY <1>5 DEF Relies, Ended
    <3>2. QED
      BY <1>1, <3>1 DEF Restart, ReturnChild, Return, Goto, TypesOK
  <2>2. QED
    BY <1>1, <1>5, <2>1, CallFine, ReadVersionFine, CheckParentFine, ReadPrefixFine, FindFine, LoadChildFine
       DEF SearchStep
<1>6. SearchOK(c, s)'
  BY <1>1, <1>3, <1>4, <1>5 DEF SearchOK
<1>7. QED
  BY <1>6, OthersFine DEF SearchesOK

-------------------------------------------------------------------------------
(* The searches begin at the root, and no cell leads back there.           *)
LEMMA InitSearches ==
  ASSUME Init, IInv
  PROVE  SInv
<1>1. /\ \A t \in Threads : pc[t] = "start" /\ on[t] = Root /\ depth[t] = 0
      /\ made = {} /\ clash = FALSE /\ due = {}
  <2>1. \A t \in Threads : pc[t] = "start" /\ on[t] = Root /\ depth[t] = 0
    BY DEF Init
  <2>2. made = {} /\ clash = FALSE /\ due = {}
    BY DEF Init
  <2>3. QED
    BY <2>1, <2>2
<1>2. PICK c \in Charts : Charted(c)
  BY <1>1 DEF IInv, Sound
<1>3. Calm(c)
  BY <1>1, <1>2 DEF IInv, Sound, Calm
<1>4. WordsOK
  <2>1. Start \in Nat /\ Null \in Pointers
    BY SplitAssumption DEF Pointers
  <2>2. QED
    BY <2>1 DEF Init, WordsOK
<1>5. CellsLead
  <2>1. \A t \in Inserters : ~Adding(t)
    BY <1>1, Names DEF Adding
  <2>2. ASSUME NEW n \in Live, NEW j \in Upto(node[n].count) PROVE node[n].children[j] # Root
    <3>1. Filled(c, n, Upto(node[n].count))
      BY <1>3, <2>1, CalmFacts DEF CellsOK
    <3>2. c.up[node[n].children[j]] = n
      BY <3>1 DEF Filled, InCells
    <3>3. c.up[Root] = Null /\ n # Null
      BY <1>3, CalmFacts, Names DEF IsTree
    <3>4. QED
      BY <3>2, <3>3
  <2>3. QED
    BY <2>2 DEF CellsLead
<1>6. ASSUME NEW s \in Searchers PROVE SearchOK(c, s)
  <2>1. pc[s] = "start" /\ on[s] = Root /\ depth[s] = 0 /\ s \notin due
    BY <1>1, Names
  <2>2. QED
    BY <2>1 DEF SearchOK, Relies
<1>7. QED
  BY <1>2, <1>4, <1>5, <1>6 DEF SInv, SearchesOK

LEMMA StutterSearches ==
  ASSUME SInv, IInv', UNCHANGED vars
  PROVE  SInv'
<1>1. /\ key' = key /\ node' = node /\ made' = made /\ pc' = pc /\ on' = on /\ version' = version
      /\ ref' = ref /\ depth' = depth /\ i' = i /\ child' = child /\ ver' = ver /\ pver' = pver
      /\ todo' = todo /\ stored' = stored /\ clash' = clash /\ crossed' = crossed /\ due' = due
  BY DEF vars, shared, locals, path, words, hand, history
<1>2. CASE clash
  BY <1>1, <1>2 DEF SInv
<1>3. CASE ~clash
  <2>1. PICK c \in Charts : Charted(c) /\ SearchesOK(c)
    BY <1>3 DEF SInv
  <2>2. TypesOK /\ Live' = Live /\ ~clash'
    BY <1>1, <1>3 DEF SInv, IInv, Sound, Live
  <2>3. Charted(c)'
    BY <2>1, StutterCharted
  <2>4. WordsOK' /\ CellsLead'
    BY <1>1, <1>3, <2>2 DEF SInv, WordsOK, CellsLead
  <2>5. ASSUME NEW s \in Searchers PROVE SearchOK(c, s)'
    <3>1. \A t \in Inserters : \A n : (Splitting(t)' <=> Splitting(t)) /\ (WorksOn(t, n)' <=> WorksOn(t, n))
      BY <1>1 DEF Splitting, Adding, WorksOn, Into
    <3>2. Crosses(s)' <=> Crosses(s)
      BY <1>1 DEF Crosses, Ended, Splitting, Shortens, WorksOn, Adding, Into, Parent
    <3>3. Holds(c, s)' <=> Holds(c, s)
      BY <1>1, <3>1 DEF Holds, Parent, Steady, Byte
    <3>4. QED
      BY <1>1, <2>1, <3>2, <3>3 DEF SearchesOK, SearchOK, Relies, Ended
  <2>6. QED
    BY <2>1, <2>3, <2>4, <2>5 DEF SInv, SearchesOK
<1>4. QED
  BY <1>2, <1>3

LEMMA SearchesKept ==
  ASSUME SInv, IInv', Next
  PROVE  SInv'
<1>1. CASE End
  BY <1>1, StutterSearches DEF End
<1>2. CASE ~crashed /\ Step /\ Observe
  <2>1. clash' = (clash \/ Meeting')
    BY <1>2 DEF Observe, Meeting
  <2>2. CASE clash'
    BY <2>2 DEF SInv
  <2>3. CASE ~clash'
    <3>1. ~clash /\ ~Meeting /\ ~Meeting' /\ Sound /\ WordsOK /\ CellsLead
      BY <2>1, <2>3 DEF SInv, IInv
    <3>2. PICK c \in Charts : Charted(c) /\ SearchesOK(c)
      BY <3>1 DEF SInv
    <3>3. Calm(c) /\ TypesOK
      BY <3>1, <3>2 DEF Sound, Calm
    <3>4. ASSUME NEW t \in Threads, SearchStep(t) \/ InsertStep(t) PROVE WordsOK'
      <4>1. on[t] \in Nodes \/ pc[t] # "version"
        BY <3>3 DEF TypesOK, Splitting, Adding
      <4>2. (i[t] \in Cells /\ on[t] \in Nodes) \/ pc[t] # "load"
        BY <3>3 DEF TypesOK, Splitting, Adding
      <4>3. QED
        BY <3>1, <3>3, <3>4, <4>1, <4>2, OthersWords, VersionsGrow DEF WordsOK
    <3>5. CASE \E s \in Searchers : SearchStep(s)
      <4>1. PICK s \in Searchers : SearchStep(s)
        BY <3>5
      <4>2. s \in Threads /\ s \notin Inserters
        BY <4>1, Names
      <4>3. SearchCalm(c, s)
        BY <1>2, <3>1, <3>2, <3>3, <4>1 DEF SearchCalm
      <4>4. Charted(c)'
        BY <3>2, <3>3, <4>1, <4>2, <4>3, StepApart, SearchFacts, QuietChart
      <4>5. CellsLead'
        BY <3>1, <4>3, SearchFacts DEF CellsLead
      <4>6. QED
        BY <3>4, <4>1, <4>2, <4>3, <4>4, <4>5, SearchKeeps DEF SInv
    <3>6. CASE \E t \in Inserters : InsertStep(t)
      <4>1. PICK t \in Inserters : InsertStep(t)
        BY <3>6
      <4>2. t \in Threads
        BY Names
      <4>3. PICK d \in Charts : Charted(d)' /\ Redraws(c, d, t)
        <5>1. CASE ReadingStep(t)
          <6>1. node' = node /\ made' = made /\ Quiet(t) /\ Knows(c, t)' /\ Apart(t)
            BY <3>3, <4>1, <4>2, <5>1, ReadingUnchanged, ReadingQuiet, StepApart
          <6>2. Charted(c)'
            BY <3>2, <3>3, <4>2, <6>1, QuietChart
          <6>3. QED
            BY <6>2 DEF Redraws
        <5>2. CASE WritingStep(t)
          BY <1>2, <3>1, <3>3, <5>2, WritingCharted
        <5>3. QED
          BY <4>1, <5>1, <5>2 DEF InsertStep, ReadingStep, WritingStep
      <4>4. InsertCalm(c, d, t)
        BY <1>2, <2>3, <3>1, <3>3, <4>1, <4>3 DEF InsertCalm
      <4>5. CellsLead' /\ SearchesOK(d)'
        BY <3>2, <4>4, InsertFacts, HoldsKept
      <4>6. QED
        BY <3>4, <4>1, <4>2, <4>3, <4>5 DEF SInv
    <3>7. QED
      BY <1>2, <3>5, <3>6 DEF Step
  <2>4. QED
    BY <2>2, <2>3
<1>3. QED
  BY <1>1, <1>2 DEF Next

(* A search that has crossed no insert misses its key only where one is at *)
(* work on the node that it has come to.                                   *)
LEMMA MissedAtWork ==
  ASSUME SInv, Next, ~clash, NEW s \in Searchers, s \in due, s \notin crossed,
         pc[s] # "missed", pc'[s] = "missed"
  PROVE  \E t \in Inserters : WorksOn(t, on[s])
<1>1. PICK c \in Charts : Charted(c) /\ SearchesOK(c)
  BY DEF SInv
<1>2. Calm(c) /\ WordsOK /\ TypesOK /\ s \in Threads /\ s \notin Inserters
  BY <1>1, Names DEF SInv, IInv, Sound, Calm
<1>3. PICK t \in Threads : SearchStep(t) \/ InsertStep(t)
  <2>1. ~UNCHANGED vars
    BY DEF vars
  <2>2. Step
    BY <2>1 DEF Next, End
  <2>3. QED
    BY <2>2, Names DEF Step
<1>4. t = s
  <2>1. on[t] \in Nodes \/ pc[t] # "version"
    BY <1>2 DEF TypesOK, Splitting, Adding
  <2>2. QED
    BY <1>2, <1>3, <2>1, SearchRests
<1>5. ReadPrefix(s) \/ ReturnChild(s)
  <2>1. ASSUME NEW l, Goto(s, l) PROVE l = "missed"
    BY <1>2, <2>1 DEF Goto, TypesOK
  <2>2. ASSUME NEW l, Return(s, l) PROVE l = "missed"
    BY <2>1, <2>2 DEF Return
  <2>3. ~Call(s) /\ ~ReadVersion(s) /\ ~Find(s) /\ ~LoadChild(s) /\ ~Restart(s) /\ ~CheckParent(s)
    <3>1. ~Call(s) /\ ~ReadVersion(s) /\ ~Restart(s) /\ ~CheckParent(s)
      BY <2>1, <2>2 DEF Call, ReadVersion, Restart, CheckParent
    <3>2. ~Find(s)
      BY <2>1 DEF Find
    <3>3. ~LoadChild(s)
      BY <2>1 DEF LoadChild
    <3>4. QED
      BY <3>1, <3>2, <3>3
  <2>4. ~(\/ LockParent(s) \/ Lock(s) \/ SplitLeaf(s) \/ LockNode(s) \/ LockAbove(s) \/ SplitPrefix(s)
          \/ SetLen(s) \/ SetPartial(s) \/ ShortenLen(s) \/ ShortenPartial(s)
          \/ Position(s) \/ Shift(s) \/ Put(s)
          \/ LoadCount(s) \/ Unlock(s))
    BY <2>1 DEF LockParent, Lock, SplitLeaf, LockNode, LockAbove, SplitPrefix, SetLen, SetPartial, ShortenLen,
                ShortenPartial, Position, Shift, Put, LoadCount, Unlock
  <2>5. ~StoreCount(s) /\ ~UnlockParent(s)
    <3>1. ~StoreCount(s)
      BY <2>1, <2>2 DEF StoreCount
    <3>2. QED
      BY <2>2, <3>1 DEF UnlockParent
  <2>6. QED
    BY <1>3, <1>4, <2>3, <2>4, <2>5 DEF SearchStep, InsertStep
<1>6. Relies(s) /\ ~Crosses(s) /\ key[s] \in stored /\ Holds(c, s)
  <2>1. pc[s] \in {"prefix", "check"}
    BY <1>5 DEF ReadPrefix, ReturnChild
  <2>2. SearchOK(c, s)
    BY <1>1 DEF SearchesOK
  <2>3. QED
    BY <2>1, <2>2 DEF SearchOK, Relies, Ended
<1>7. CASE ReadPrefix(s)
  <2>1. PICK k, n : k = key[s] /\ n = on[s]
    OBVIOUS
  <2>2. k \in Keys /\ c.up[k] # Null
    BY <1>2, <1>6, <2>1, StoredHangs
  <2>3. n \in Above(c, k) /\ depth[s] = c.from[n]
    BY <1>6, <1>7, <2>1 DEF Holds, ReadPrefix
  <2>4. \A u \in Inserters : ~Shortens(u, n) /\ ~(Splitting(u) /\ u = n)
    BY <1>6, <2>1 DEF Crosses, Relies
  <2>5. PrefixMismatch(on[s], key[s], depth[s]) = node[on[s]].len
    BY <1>2, <2>1, <2>2, <2>3, <2>4, PrefixGuides
  <2>6. Goto(s, "find")
    BY <1>7, <2>5 DEF ReadPrefix
  <2>7. QED
    BY <1>2, <2>6 DEF Goto, TypesOK
<1>8. CASE ReturnChild(s)
  <2>1. child[s] # key[s]
    BY <1>2, <1>8 DEF ReturnChild, Return, Goto, TypesOK
  <2>2. version[on[s]] = ver[s] /\ pc[s] = "check"
    BY <1>8 DEF ReturnChild
  <2>3. ~Steady(on[s], ver[s])
    BY <1>6, <2>1, <2>2 DEF Holds
  <2>4. QED
    BY <2>2, <2>3 DEF Steady
<1>9. QED
  BY <1>5, <1>7, <1>8

(* A search whose key has been there since it started misses it only if it *)
(* has crossed an insert, or one is at work on the node that it has come   *)
(* to, or two inserts have been in each other's way: a search looks at no  *)
(* lock bit and compares no version once a prefix does not match.          *)
THEOREM MissesAreExplained == Spec => MissesExplained
<1>1. Init => IInv /\ SInv
  BY InitSound, InitSearches
<1>2. IInv /\ SInv /\ [Next]_vars => IInv' /\ SInv'
  <2>1. SUFFICES ASSUME IInv, SInv, [Next]_vars PROVE IInv' /\ SInv'
    OBVIOUS
  <2>2. IInv'
    BY <2>1, NextSound, StutterSound
  <2>3. QED
    BY <2>1, <2>2, SearchesKept, StutterSearches
<1>3. ASSUME SInv, [Next]_vars
      PROVE  [\A s \in Searchers :
                s \in due /\ pc[s] # "missed" /\ pc'[s] = "missed" =>
                  clash \/ s \in crossed \/ \E t \in Inserters : WorksOn(t, on[s])]_vars
  BY <1>3, MissedAtWork
<1>4. QED
  BY <1>1, <1>2, <1>3, PTL DEF Spec, MissesExplained
===============================================================================
