---------------------------- MODULE ArtSplitChart ----------------------------
(***************************************************************************)
(* What the tree of ArtSplit is while inserts are at work that have not    *)
(* got in each other's way: the invariant by which ArtSplitProofs proves   *)
(* its theorems.                                                           *)
(*                                                                         *)
(* A chart c of the tree is what its memory says as a whole: c.up[p] is    *)
(* the node that p, a node or a key, hangs in; node n is reached with      *)
(* c.from[n] bytes, and its cells are told apart by byte c.to[n], after    *)
(* its prefix; the bytes before are those of the key c.sample[n].  A split *)
(* changes the chart at once, as it publishes its node.                    *)
(***************************************************************************)
EXTENDS ArtSplit

Things == Nodes \cup Keys

Charts == [up : [Things -> Nodes \cup {Null}], sample : [Things -> Keys],
           from : [Nodes -> Nat], to : [Nodes -> Nat]]

Upto(m) == 0 .. m - 1           \* the first m cells
Gap(m, p) == (0 .. m) \ {p}     \* one more, without cell p

-------------------------------------------------------------------------------
(* Where insert t is.                                                      *)

(* Its key is in a cell.                                                   *)
HasPut(t) ==
  \/ pc[t] \in {"unlock", "unlockParent", "done"}
  \/ pc[t] \in {"count", "add"} /\ Len(todo[t]) = 1

(* What the node of a split takes the place of is in none of its cells.    *)
Waiting(t) ==
  t \in made /\ Len(todo[t]) = 2 /\ pc[t] \in {"setLen", "setPartial", "position", "shift", "put"}

(* The prefix of a node counts from where that of the new one above it     *)
(* does: its length, or its bytes.                                         *)
Unshortened(t) ==
  /\ Splitting(t) /\ on[t] \in Nodes
  /\ Len(todo[t]) = 2 \/ pc[t] = "shortenLen"

HalfShortened(t) == Splitting(t) /\ on[t] \in Nodes /\ pc[t] = "shortenPartial"

-------------------------------------------------------------------------------
(* The chart by itself.                                                    *)
Under(c, p, n) ==
  /\ c.up[p] = n /\ n \in Live
  /\ Bytes(c.sample[p], c.sample[n], c.to[n])
  /\ p \in Nodes => c.from[p] = c.to[n] + 1

IsTree(c) ==
  /\ Root \in Live /\ c.up[Root] = Null /\ c.from[Root] = 0 /\ c.to[Root] = 0
  /\ \A n \in Nodes \ Live : c.up[n] = Null
  /\ \A n \in Live : c.from[n] <= c.to[n] /\ c.to[n] < KeyLen
  /\ \A n \in Live \ {Root} : c.up[n] # Null
  /\ \A p \in Things : c.up[p] # Null => Under(c, p, c.up[p])
  /\ \A k \in Keys : c.sample[k] = k
  /\ \A k \in Keys : c.up[k] # Null <=> k \in Loaded \/ \E t \in Inserters : key[t] = k /\ HasPut(t)

-------------------------------------------------------------------------------
(* The chart and the memory.                                               *)

(* The children that are in the cells of n.                                *)
InCells(c, n) ==
  {p \in Things : c.up[p] = n /\ ~(n \in Inserters /\ Waiting(n) /\ p = on[n])}

ByteIn(c, p, n) == ByteOf[c.sample[p]][c.to[n]]

(* The cells D of n hold them.                                             *)
Filled(c, n, D) ==
  /\ \A j \in D : /\ node[n].children[j] \in InCells(c, n)
                  /\ node[n].keys[j] = ByteIn(c, node[n].children[j], n)
  /\ \A j, l \in D : j < l => node[n].keys[j] < node[n].keys[l]
  /\ \A p \in InCells(c, n) : \E j \in D : node[n].children[j] = p

(* The length of the prefix of n, or its bytes, if it counts from d on.    *)
LenFrom(c, n, d) == node[n].len = c.to[n] - d
PartialFrom(c, n, d) ==
  \A j \in 0 .. c.to[n] - d - 1 : node[n].partial[j] = ByteOf[c.sample[n]][d + j]

(* A node that nobody is at work on.                                       *)
CellsOK(c, n) ==
  (\A t \in Inserters : ~(Adding(t) /\ Into(t) = n)) => Filled(c, n, Upto(node[n].count))

PrefixOK(c, n) ==
  (\A t \in Inserters : /\ ~(pc[t] \in {"setLen", "setPartial"} /\ t = n)
                        /\ ~((Unshortened(t) \/ HalfShortened(t)) /\ on[t] = n))
    => LenFrom(c, n, c.from[n]) /\ PartialFrom(c, n, c.from[n])

-------------------------------------------------------------------------------
(* What insert t knows of the tree.                                        *)

(* It has used d bytes of its key to get to the node, which lead there.    *)
Led(c, t, d) == on[t] \in Live /\ depth[t] = d /\ Bytes(key[t], c.sample[on[t]], d)

(* The cell that has led it on still does.                                 *)
CellLeads(c, t) ==
  /\ c.up[on[t]] = Parent(t) /\ Parent(t) \in Live
  /\ ref[t][2] < node[Parent(t)].count /\ node[Parent(t)].children[ref[t][2]] = on[t]

(* Its byte is in no cell of the node.                                     *)
IsNew(c, t) == \A j \in Upto(node[on[t]].count) : node[on[t]].keys[j] # Byte(key[t], depth[t])

Descends(c, t) ==
  /\ pc[t] \in {"start", "version", "prefix", "find", "load", "lockParent", "lock", "leaf"} =>
       t \notin made /\ diff[t] = 0
  /\ pc[t] = "start" => on[t] = Root /\ depth[t] = 0
  /\ pc[t] \in {"version", "prefix"} =>
       Led(c, t, c.from[on[t]]) /\ (on[t] # Root => CellLeads(c, t))
  /\ pc[t] \in {"find", "load", "lockParent", "lock"} => Led(c, t, c.to[on[t]])
  /\ pc[t] = "load" =>
       i[t] < node[on[t]].count /\ node[on[t]].keys[i[t]] = Byte(key[t], depth[t])
  /\ pc[t] \in {"lockParent", "lock"} => IsNew(c, t)

Divides(c, t) ==
  /\ pc[t] = "leaf" =>
       /\ on[t] \in Keys /\ CellLeads(c, t)
       /\ depth[t] = c.to[Parent(t)] + 1 /\ Bytes(key[t], on[t], depth[t])
  /\ pc[t] \in {"lockNode", "lockAbove", "publish"} =>
       /\ t \notin made /\ on[t] # Root /\ CellLeads(c, t) /\ Led(c, t, c.from[on[t]])
       /\ depth[t] + diff[t] < c.to[on[t]]
       /\ Bytes(key[t], c.sample[on[t]], depth[t] + diff[t])
       /\ ByteOf[key[t]][depth[t] + diff[t]] # ByteOf[c.sample[on[t]]][depth[t] + diff[t]]

Splits(c, t) ==
  /\ pc[t] \in {"setLen", "setPartial", "shortenLen", "shortenPartial"} => t \in made /\ on[t] \in Nodes
  /\ pc[t] \in {"setLen", "setPartial"} => todo[t] = <<on[t], key[t]>>
  /\ pc[t] = "setLen" => node[t] = Empty
  /\ pc[t] = "setPartial" => node[t] = [Empty EXCEPT !.len = diff[t]]
  /\ pc[t] \in {"shortenLen", "shortenPartial"} => todo[t] = <<key[t]>>
  /\ Splitting(t) =>
       /\ on[t] \in Things /\ c.up[on[t]] = t
       /\ todo[t] \in {<<on[t], key[t]>>, <<key[t]>>}
       /\ depth[t] = c.from[t] /\ depth[t] + diff[t] = c.to[t]
       /\ Bytes(key[t], c.sample[t], c.to[t])
       /\ ByteOf[key[t]][c.to[t]] # ByteIn(c, on[t], t)
       /\ ~HasPut(t) => \A p \in Things : c.up[p] = t => p = on[t]
  /\ Unshortened(t) => LenFrom(c, on[t], depth[t]) /\ PartialFrom(c, on[t], depth[t])
  /\ HalfShortened(t) => LenFrom(c, on[t], c.from[on[t]]) /\ PartialFrom(c, on[t], depth[t])

Adds(c, t) ==
  LET n == Into(t) IN
  Adding(t) =>
    /\ t \notin made => /\ Led(c, t, c.to[on[t]]) /\ diff[t] = 0 /\ todo[t] = <<key[t]>>
                        /\ pc[t] = "position" => IsNew(c, t)
    /\ pc[t] \in {"position", "shift"} => Filled(c, n, Upto(node[n].count))
    /\ pc[t] = "put" => Filled(c, n, Gap(node[n].count, i[t]))
    /\ pc[t] \in {"count", "add"} => Filled(c, n, 0 .. node[n].count)
    /\ pc[t] # "position" => node[n].count < Room
    /\ pc[t] \in {"shift", "put"} =>
         /\ i[t] \in 0 .. node[n].count /\ byte[t] = ByteIn(c, Head(todo[t]), n)
         /\ \A j \in Upto(i[t]) : node[n].keys[j] < byte[t]
    /\ pc[t] = "shift" => \A j \in i[t] .. node[n].count - 1 : node[n].keys[j] > byte[t]
    /\ pc[t] = "put" => \A j \in i[t] + 1 .. node[n].count : node[n].keys[j] > byte[t]
    /\ pc[t] = "add" => reg[t] = node[n].count

Knows(c, t) == Descends(c, t) /\ Divides(c, t) /\ Splits(c, t) /\ Adds(c, t)

-------------------------------------------------------------------------------
(* The keys, and what is stored.                                           *)
KeysOK ==
  /\ \A t \in Inserters : key[t] \in Keys \ Loaded
  /\ \A t, u \in Inserters : t # u => key[t] # key[u]
  /\ stored = Loaded \cup {key[t] : t \in {u \in Inserters : pc[u] \in {"unlock", "unlockParent", "done"}}}

TypesOK ==
  /\ node \in [Nodes -> NodeRecords]
  /\ made \subseteq Inserters
  /\ \A t \in Inserters \ made : node[t] = Empty
  /\ pc \in [Threads -> Labels] /\ key \in [Threads -> Keys]
  /\ on \in [Threads -> Pointers] /\ ref \in [Threads -> Nodes \X Cells]
  /\ depth \in [Threads -> Nat] /\ i \in [Threads -> 0 .. Room] /\ byte \in [Threads -> Nat]
  /\ reg \in [Threads -> 0 .. Room] /\ diff \in [Threads -> 0 .. KeyLen]
  /\ todo \in [Threads -> {<< >>} \cup {<<p>> : p \in Keys} \cup (Pointers \X Keys)]
  /\ \A t \in Threads : pc[t] = "load" => i[t] \in Cells
  /\ \A t \in Threads : on[t] \in Nodes \/ (t \in Inserters /\ (pc[t] = "leaf" \/ Splitting(t)))

Charted(c) ==
  /\ IsTree(c)
  /\ \A n \in Live : CellsOK(c, n) /\ PrefixOK(c, n)
  /\ \A t \in Inserters : Knows(c, t)

Sound == ~crashed /\ KeysOK /\ TypesOK /\ \E c \in Charts : Charted(c)

Meeting == \E t, u \in Inserters : t # u /\ InTheWay(t, u)

IInv == clash \in BOOLEAN /\ (~clash => ~Meeting /\ Sound)

-------------------------------------------------------------------------------
(* What search s, whose key has been there since it started, still has as  *)
(* long as it has crossed no insert.                                       *)

(* The nodes above key k: whatever holds where k hangs, and where a node   *)
(* hangs in which it holds, holds in them.                                 *)
Upward(c, k, S) == c.up[k] \in S /\ \A n \in S \ {Root} : c.up[n] \in S
Above(c, k) == {n \in Nodes : \A S \in SUBSET Nodes : Upward(c, k, S) => n \in S}

(* Nobody has been at work on n since it had version v.                    *)
Steady(n, v) == version[n] = v /\ \A t \in Inserters : ~WorksOn(t, n)

Holds(c, s) ==
  LET k == key[s]  n == on[s]  m == Parent(s) IN
  /\ pc[s] = "prefix" => n \in Above(c, k) /\ depth[s] = c.from[n]
  /\ pc[s] \in {"find", "load", "check"} => n \in Above(c, k) /\ depth[s] = c.to[n]
  /\ pc[s] \in {"prefix", "find", "load", "check", "checkParent"} => ver[s] <= version[n]
  /\ pc[s] = "load" =>
       i[s] < node[n].count /\ (Steady(n, ver[s]) => node[n].keys[i[s]] = Byte(k, depth[s]))
  /\ pc[s] = "check" => (Steady(n, ver[s]) => child[s] = k)
  /\ pc[s] \in {"version", "checkParent"} =>
       /\ m \in Above(c, k) /\ pver[s] <= version[m] /\ n # Root
       /\ \A t \in Inserters : ~(Splitting(t) /\ t = m)
       /\ Steady(m, pver[s]) => n \in Above(c, k) /\ depth[s] = c.from[n]

(* A search that has not ended and need not explain a miss by what it has  *)
(* crossed.                                                                *)
Relies(s) == s \in due /\ s \notin crossed /\ pc[s] # "start" /\ ~Ended(s)

SearchOK(c, s) ==
  /\ pc[s] = "start" => on[s] = Root /\ depth[s] = 0
  /\ pc[s] # "start" /\ Crosses(s) => s \in crossed
  /\ s \in due => key[s] \in stored
  /\ Relies(s) => Holds(c, s)

SearchesOK(c) == \A s \in Searchers : SearchOK(c, s)

(* No cell leads back to the root, not even while cells are moved.         *)
CellsLead == \A n \in Live : \A j \in Upto(node[n].count) : node[n].children[j] # Root

WordsOK ==
  /\ version \in [Nodes -> Nat] /\ ver \in [Threads -> Nat] /\ pver \in [Threads -> Nat]
  /\ child \in [Threads -> Pointers]

SInv ==
  /\ IInv
  /\ ~clash => WordsOK /\ CellsLead /\ \E c \in Charts : Charted(c) /\ SearchesOK(c)
==============================================================================
