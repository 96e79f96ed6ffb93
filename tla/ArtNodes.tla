------------------------------- MODULE ArtNodes -------------------------------
(***************************************************************************)
(* The inner nodes of the adaptive radix tree (src/ART/ArtCPP.hpp): the    *)
(* four layouts that map a key byte to a child, and the functions that     *)
(* search, extend, grow, shrink and reduce them.                           *)
(*                                                                         *)
(* A node is a record; the union of layouts is one pair of fields:         *)
(*   node4, node16   keys, kids: the sequences of the first num bytes and  *)
(*                   children (what lies behind them is never read);       *)
(*   node48          keys[c]: 0, or the slot of the child under byte c;    *)
(*                   kids: the 48 slots;                                   *)
(*   node256         kids[c]: the child under byte c; keys is not there.   *)
(* The sizes are constants, so that small nodes behave like the real ones. *)
(***************************************************************************)
EXTENDS Integers, FiniteSets, SequencesExt

CONSTANTS NBytes,       \* 256: the values of a byte, and of the field num_children
          Cap4,         \* 4: the children of a node4
          Cap16,        \* 16
          Cap48,        \* 48
          Low16,        \* 3: a node16 left with so many children becomes a node4
          Low48,        \* 12
          Low256,       \* 37
          Null          \* no child

ASSUME SizesAssumption ==
  /\ {NBytes, Cap4, Cap16, Cap48, Low16, Low48, Low256} \subseteq Nat
  /\ 1 < Low16 /\ Low16 < Low48 /\ Low48 < Low256
  /\ Low16 < Cap4 /\ Low48 < Cap16 /\ Low256 < Cap48
  /\ Cap4 < Cap16 /\ Cap16 < Cap48 /\ Cap48 < NBytes

Byte == 0 .. NBytes - 1

Linear == {"node4", "node16"}

(* alloc_node(NODE4): a zeroed node.                                       *)
EmptyNode == [type |-> "node4", num |-> 0, keys |-> <<>>, kids |-> <<>>]

(* What _mm_cmplt_epi8 takes a byte for.                                   *)
Signed(c) == IF 2 * c < NBytes THEN c ELSE c - NBytes

Positions(n, c) == {i \in 1 .. n.num : n.keys[i] = c}

(* find_child(): the child under byte c, or Null.                          *)
FindChild(n, c) ==
  CASE n.type \in Linear ->
         IF Positions(n, c) = {} THEN Null ELSE n.kids[Min(Positions(n, c))]
    [] n.type = "node48" ->
         IF n.keys[c] = 0 THEN Null ELSE n.kids[n.keys[c]]
    [] n.type = "node256" -> n.kids[c]

(* The bytes under which node n has a child.                               *)
Used(n) == IF n.type \in Linear THEN Range(n.keys)
           ELSE {c \in Byte : FindChild(n, c) # Null}

(* Mutant: a new byte is put behind the others.                            *)
PlaceLast(n, c) == n.num + 1

(* Where add_child4 and add_child16 put byte c: before the first greater   *)
(* byte; a node16 compares signed bytes.                                   *)
Place(n, c) ==
  Min({n.num + 1} \cup
      {i \in 1 .. n.num :
         IF n.type = "node4" THEN c < n.keys[i] ELSE Signed(c) < Signed(n.keys[i])})

FreeSlots(n) == {i \in DOMAIN n.kids : n.kids[i] = Null}

AddLinear(n, c, x) == [n EXCEPT !.num = @ + 1,
                                !.keys = InsertAt(@, Place(n, c), c),
                                !.kids = InsertAt(@, Place(n, c), x)]

AddSlot(n, c, x) == [n EXCEPT !.num = @ + 1,
                              !.keys[c] = Min(FreeSlots(n)),
                              !.kids[Min(FreeSlots(n))] = x]

(* num_children is a uint8_t.                                              *)
AddDirect(n, c, x) == [n EXCEPT !.num = (@ + 1) % NBytes,
                                !.kids[c] = x]

Cap(type) == CASE type = "node4" -> Cap4
               [] type = "node16" -> Cap16
               [] type = "node48" -> Cap48

(* Mutant: one pointer too few is copied.                                  *)
CopyKidsShort(n) == [i \in 1 .. Cap48 |-> IF i < n.num THEN n.kids[i] ELSE Null]

(* The memcpy of the child pointers of a node16 into a node48.             *)
CopyKids(n) == [i \in 1 .. Cap48 |-> IF i <= n.num THEN n.kids[i] ELSE Null]

(* The next larger layout, with the same children.                         *)
Grow(n) ==
  CASE n.type = "node4" -> [n EXCEPT !.type = "node16"]
    [] n.type = "node16" ->
         [n EXCEPT !.type = "node48",
                   !.keys = [c \in Byte |-> IF Positions(n, c) = {} THEN 0
                                            ELSE Max(Positions(n, c))],
                   !.kids = CopyKids(n)]
    [] n.type = "node48" ->
         [n EXCEPT !.type = "node256",
                   !.keys = <<>>,
                   !.kids = [c \in Byte |-> FindChild(n, c)]]

AddDirectly(n, c, x) ==
  CASE n.type \in Linear -> AddLinear(n, c, x)
    [] n.type = "node48" -> AddSlot(n, c, x)
    [] n.type = "node256" -> AddDirect(n, c, x)

(* isNodeFull(), which answers whether there is room.                      *)
IsNodeFull(n) == n.num < (IF n.type = "node256" THEN NBytes ELSE Cap(n.type))

(* Mutant: a node grows when it overflows, not when it is full.            *)
AddChildWhenFull(n, c, x) ==
  IF n.type # "node256" /\ n.num > Cap(n.type)
    THEN AddDirectly(Grow(n), c, x)
    ELSE AddDirectly(n, c, x)

(* add_child(): a full node grows first.                                   *)
AddChild(n, c, x) ==
  IF n.type # "node256" /\ n.num >= Cap(n.type)
    THEN AddDirectly(Grow(n), c, x)
    ELSE AddDirectly(n, c, x)

(* The node of type NODE4 that splits a leaf or a prefix.                  *)
NewNode4(b, x, c, y) == AddChild(AddChild(EmptyNode, b, x), c, y)

(* The subtree behind one of the pointers of n is replaced.                *)
SetChild(n, c, x) ==
  CASE n.type \in Linear -> [n EXCEPT !.kids[Min(Positions(n, c))] = x]
    [] n.type = "node48" -> [n EXCEPT !.kids[n.keys[c]] = x]
    [] n.type = "node256" -> [n EXCEPT !.kids[c] = x]

(* Mutant: a node48 forgets to clear the slot.                             *)
RemoveKeepingSlot(n, c) ==
  CASE n.type \in Linear ->
         [n EXCEPT !.num = @ - 1,
                   !.keys = RemoveAt(@, Min(Positions(n, c))),
                   !.kids = RemoveAt(@, Min(Positions(n, c)))]
    [] n.type = "node48" -> [n EXCEPT !.num = @ - 1, !.keys[c] = 0]
    [] n.type = "node256" -> [n EXCEPT !.num = (@ - 1) % NBytes, !.kids[c] = Null]

(* remove_child(): without the child under byte c, before any resizing.    *)
RemoveDirectly(n, c) ==
  CASE n.type \in Linear ->
         [n EXCEPT !.num = @ - 1,
                   !.keys = RemoveAt(@, Min(Positions(n, c))),
                   !.kids = RemoveAt(@, Min(Positions(n, c)))]
    [] n.type = "node48" -> [n EXCEPT !.num = @ - 1, !.keys[c] = 0, !.kids[n.keys[c]] = Null]
    [] n.type = "node256" -> [n EXCEPT !.num = (@ - 1) % NBytes, !.kids[c] = Null]

(* How many bytes in use a loop from 0 to 255 has met when it has been at  *)
(* byte c, and the bytes in use in its order.                              *)
Rank(n, c) == Cardinality({b \in Used(n) : b <= c})

InByteOrder(n) == [i \in 1 .. Cardinality(Used(n)) |-> CHOOSE c \in Used(n) : Rank(n, c) = i]

(* The next smaller layout, with the same children.                        *)
Shrink(n) ==
  LET bytes == InByteOrder(n)
      kids == [i \in DOMAIN bytes |-> FindChild(n, bytes[i])]
  IN CASE n.type = "node16" -> [n EXCEPT !.type = "node4"]
       [] n.type = "node48" -> [n EXCEPT !.type = "node16", !.keys = bytes, !.kids = kids]
       [] n.type = "node256" ->
            [n EXCEPT !.type = "node48",
                      !.keys = [c \in Byte |-> IF n.kids[c] = Null THEN 0 ELSE Rank(n, c)],
                      !.kids = [i \in 1 .. Cap48 |-> IF i <= n.num THEN kids[i] ELSE Null]]

(* Mutant: a node shrinks as soon as the smaller layout can hold it.       *)
LowAtOnce(type) == CASE type = "node16" -> Cap4
                     [] type = "node48" -> Cap16
                     [] type = "node256" -> Cap48

(* The number of children at which a node becomes smaller.                 *)
Low(type) == CASE type = "node16" -> Low16
               [] type = "node48" -> Low48
               [] type = "node256" -> Low256

(* Mutant: the count is compared before it is decremented.                 *)
RemoveComparingFirst(n, c) ==
  LET m == RemoveDirectly(n, c) IN
  IF m.type # "node4" /\ n.num = Low(m.type) THEN Shrink(m) ELSE m

RemoveChild(n, c) ==
  LET m == RemoveDirectly(n, c) IN
  IF m.type # "node4" /\ m.num = Low(m.type) THEN Shrink(m) ELSE m

(* A node4 with one child left: remove_child4() replaces the node by that  *)
(* child, whose prefix takes in the byte.                                  *)
GivesWay(n) == n.type = "node4" /\ n.num = 1

(* minimum() and maximum(), one level down.                                *)
FirstChild(n) == IF n.type \in Linear THEN n.kids[1] ELSE FindChild(n, Min(Used(n)))

LastChild(n) == IF n.type \in Linear THEN n.kids[n.num] ELSE FindChild(n, Max(Used(n)))
===============================================================================
