------------------------------- MODULE ArtNode --------------------------------
(***************************************************************************)
(* The life of one inner node of the tree (src/ART/ArtCPP.hpp): made with  *)
(* two children when a leaf or a prefix is split, extended by inserts,     *)
(* reduced by the garbage collector, rebuilt in another layout whenever it *)
(* becomes too small or too large, and given up for its last child.        *)
(*                                                                         *)
(* The tree calls add_child() only for a byte that find_child() has not    *)
(* found, and remove_child() only for one that it has.                     *)
(***************************************************************************)
EXTENDS ArtNodes

CONSTANTS Children,     \* the pointers stored in nodes
          Below         \* Below[c]: those that may be stored under byte c

ASSUME ChildrenAssumption == Null \notin Children /\ Below \in [Byte -> SUBSET Children]

VARIABLE node           \* the node behind the reference of its parent


Init == \E b, c \in Byte : \E x \in Below[b], y \in Below[c] :
          b # c /\ node = NewNode4(b, x, c, y)

(* A split above the child that a node was given up for.                   *)
Resplit == /\ GivesWay(node)
           /\ \E b, c \in Byte : \E x \in Below[b], y \in Below[c] :
                b # c /\ node' = NewNode4(b, x, c, y)

Extend(c, x) == /\ ~GivesWay(node)
                /\ FindChild(node, c) = Null
                /\ node' = AddChild(node, c, x)

Reduce(c) == /\ ~GivesWay(node)
             /\ FindChild(node, c) # Null
             /\ node' = RemoveChild(node, c)

Next == \/ Resplit
        \/ \E c \in Byte : Reduce(c) \/ \E x \in Below[c] : Extend(c, x)

Spec == Init /\ [][Next]_node
-------------------------------------------------------------------------------
(* Every field stays within its array and its type.                        *)
TypeOK ==
  /\ node.num \in 0 .. NBytes - 1
  /\ \/ /\ node.type \in Linear
        /\ node.num <= Cap(node.type)
        /\ node.keys \in [1 .. node.num -> Byte]
        /\ node.kids \in [1 .. node.num -> Children]
     \/ /\ node.type = "node48"
        /\ node.keys \in [Byte -> 0 .. Cap48]
        /\ node.kids \in [1 .. Cap48 -> Children \cup {Null}]
     \/ /\ node.type = "node256"
        /\ node.keys = <<>>
        /\ node.kids \in [Byte -> Children \cup {Null}]

(* num_children counts the children, although it is a uint8_t that is 0 in *)
(* a node256 with all 256, and every slot of a node48 that is taken is     *)
(* taken for one byte: so the loop of add_child48 (ArtCPP.hpp:494), which  *)
(* is not bounded, finds a free slot, and the shrinking of remove_child256 *)
(* (ArtCPP.hpp:655), which compares the counter, comes at the right moment.*)
CountIsExact ==
  /\ node.num = Cardinality(Used(node)) % NBytes
  /\ node.type = "node48" =>
       \A i \in 1 .. Cap48 :
         node.kids[i] # Null <=> Cardinality({c \in Byte : node.keys[c] = i}) = 1

(* A layout is only used for the numbers of children it is meant for: each *)
(* shrinking test compares for equality (ArtCPP.hpp:655, :678, :702), so   *)
(* the counter must not jump over the value, by any way into the layout.   *)
Occupancy ==
  LET count == Cardinality(Used(node)) IN
  CASE node.type = "node4" -> count \in 1 .. Cap4
    [] node.type = "node16" -> count \in Low16 + 1 .. Cap16
    [] node.type = "node48" -> count \in Low48 + 1 .. Cap48
    [] node.type = "node256" -> count \in Low256 + 1 .. NBytes

(* "Resize to a node48 on underflow, not immediately to prevent trashing   *)
(* if we sit on the 48/49 boundary" (ArtCPP.hpp:653): the removal after an *)
(* insert that has enlarged a node does not shrink it back, nor does the   *)
(* insert after a removal that has shrunk it enlarge it.                   *)
NoThrashing ==
  [][node'.type # node.type /\ ~GivesWay(node) =>
       LET count == Cardinality(Used(node')) IN
       IF count > Cardinality(Used(node)) THEN count - 1 > Low(node'.type)
                                          ELSE count < Cap(node'.type)]_node

(* The promise of the node to the tree.                                    *)
Map == INSTANCE ByteMap WITH map <- [c \in Byte |-> FindChild(node, c)]

(* In every layout, and across every change of layout, the node is the map *)
(* from bytes to children that inserts and removals have built: nothing is *)
(* lost, and no byte leads to the child of another, even where a node16    *)
(* has put signed bytes out of order.                                      *)
ImplementsByteMap == Map!Spec
===============================================================================
