----------------------------- MODULE ArtTreeScans -----------------------------
(***************************************************************************)
(* The iterations over the tree of ArtTree (src/ART/ArtCPP.hpp): all keys  *)
(* in order, and the keys with a prefix.  Their recursion into children is *)
(* written hop by hop, as in ArtTree.                                      *)
(***************************************************************************)
EXTENDS ArtTree

(* The children of a node, in the order of mv_recursive_iter().            *)
InOrder(n) ==
  IF n.type \in Linear THEN n.kids
  ELSE LET bytes == InByteOrder(n) IN [i \in DOMAIN bytes |-> FindChild(n, bytes[i])]

(* mv_recursive_iter(), where u tells what it does with the children.      *)
Visited(x, u) ==
  CASE IsLeaf(x) -> <<x.key>>
    [] IsInner(x) -> LET kids == InOrder(x.node) IN FlattenSeq([i \in DOMAIN kids |-> u[kids[i]]])
    [] OTHER -> <<>>

(* iterate(): the keys of the leaves, in the order of the callbacks.       *)
Visit(n) ==
  LET level == Levels(n)
      visited[h \in 0 .. MaxLen] ==
        IF h = MaxLen THEN [x \in level[h] |-> Visited(x, <<>>)]
        ELSE LET u == visited[h + 1] IN [x \in level[h] |-> Visited(x, u)]
  IN visited[0][n]

(* Mutant: more bytes may have matched than the prefix has.                *)
MatchedUnguarded(w, p) == PrefixMismatch(w[1], p, w[2])

(* How many bytes of a node's prefix agree with p.                         *)
Matched(w, p) == Lesser(PrefixMismatch(w[1], p, w[2]), w[1].plen)

(* Does a scan for prefix p that has come to subtree w[1] at depth w[2] go *)
(* deeper?                                                                 *)
Deeper(w, p) ==
  /\ IsInner(w[1]) /\ w[2] # Len(p)
  /\ w[1].plen = 0 \/ (Matched(w, p) # 0 /\ w[2] + Matched(w, p) # Len(p))

ScanHop(w, p) ==
  IF Deeper(w, p) THEN <<FindChild(w[1].node, Turn(w, p)), w[2] + w[1].plen + 1>> ELSE w

ScanWay(n, p) ==
  LET way[h \in 0 .. MaxLen] == IF h = 0 THEN <<n, 0>> ELSE ScanHop(way[h - 1], p)
  IN way

(* Does the scan call back for all that is below the node it has come to?  *)
TakesAll(w, p) == IF w[2] = Len(p) THEN IsPrefix(p, Minimum(w[1]).key)
                  ELSE w[2] + Matched(w, p) = Len(p)

(* art_iter_prefix(): the keys it calls back with, for the prefix p.       *)
PrefixScan(n, p) ==
  LET w == ScanWay(n, p)[MaxLen]
  IN CASE IsLeaf(w[1]) -> IF IsPrefix(p, w[1].key) THEN <<w[1].key>> ELSE <<>>
       [] IsInner(w[1]) -> IF TakesAll(w, p) THEN Visit(w[1]) ELSE <<>>
       [] OTHER -> <<>>
-------------------------------------------------------------------------------
Before(k, m) == \E i \in 1 .. Lesser(Len(k), Len(m)) :
                  k[i] < m[i] /\ \A j \in 1 .. i - 1 : k[j] = m[j]

(* iterate() visits every key once and in the order of the bytes, as long  *)
(* as they are below 128, whatever layouts the nodes have gone through.    *)
IterationInOrder ==
  LET seen == Visit(root) IN
  /\ Range(seen) = Stored
  /\ \A i, j \in 1 .. Len(seen) : i < j => Before(seen[i], seen[j])

(* Prefixes of up to four bytes, each of which some key has in its place.  *)
Asked == UNION {{p \in [1 .. n -> UNION {Range(k) : k \in Keys}] :
                   \A i \in 1 .. n : \E k \in Keys : Len(k) >= i /\ k[i] = p[i]} : n \in 1 .. 4}

(* "invoking a callback for each that matches a given prefix" (ArtCPP.hpp: *)
(* 1589): art_iter_prefix() visits every key with that prefix, once, also  *)
(* where only the beginning of a node's prefix is kept; but others as well *)
(* if it has come by a node whose prefix agrees in the first byte alone,   *)
(* as it then goes deeper (ArtCPP.hpp:1648).                               *)
PrefixScansFindAll ==
  LET stored == Stored
      astray == [q \in Nodes(root) |-> {l.key : l \in Leaves(q[1])}]
  IN \A p \in Asked :
       LET seen == PrefixScan(root, p) IN
       /\ {k \in stored : IsPrefix(p, k)} \subseteq Range(seen)
       /\ Cardinality(Range(seen)) = Len(seen)
       /\ \A k \in Range(seen) :
            IsPrefix(p, k) \/ \E q \in DOMAIN astray :
                                LET d == q[2] IN
                                /\ k \in astray[q]
                                /\ d + q[1].plen < Len(p)
                                /\ p[d + 1] = k[d + 1]
                                /\ SubSeq(p, d + 2, d + q[1].plen) # SubSeq(k, d + 2, d + q[1].plen)
===============================================================================
