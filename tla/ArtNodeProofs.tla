----------------------------- MODULE ArtNodeProofs -----------------------------
(***************************************************************************)
(* What is proved of the life of a node, for every size of its layouts.    *)
(***************************************************************************)
EXTENDS ArtNode, ArtNodeLemmas

(* The inductive invariant: in whatever layout, the node holds the map     *)
(* that find_child() reads, and the layout is meant for so many children.  *)
Contents == [c \in Byte |-> FindChild(node, c)]

IInv == Holds(Children, node, Contents) /\ Occupied(node.type, Cardinality(Mapped(Contents)))

(* The module of the map counts as this one does.                          *)
LEMMA SameCount == Map!Cardinality(Map!Used) = Cardinality(Map!Used)
BY DEF Map!Cardinality, Cardinality

LEMMA NoChild == Null \notin Children
BY ChildrenAssumption DEF ChildrenAssumption

LEMMA BelowAreChildren ==
  ASSUME NEW c \in Byte, NEW x \in Below[c]
  PROVE  x \in Children /\ x # Null
BY ChildrenAssumption DEF ChildrenAssumption

LEMMA Starts == Init => IInv /\ Map!Make
<1> SUFFICES ASSUME NEW b \in Byte, NEW c \in Byte, NEW x \in Below[b], NEW y \in Below[c],
                    b # c, node = NewNode4(b, x, c, y)
             PROVE  IInv /\ Map!Make
    BY DEF Init
<1>1. x \in Children /\ y \in Children
    BY BelowAreChildren
<1>2. PICK g : g = Map!Pair(b, x, c, y)
    OBVIOUS
<1>3. Holds(Children, node, g) /\ Occupied(node.type, Cardinality(Mapped(g)))
    BY <1>1, <1>2, ChildrenAssumption, MadeOfTwo DEF ChildrenAssumption, Two, Map!Pair
<1>4. Contents = g
    BY <1>3, NoChild, OneMap DEF Contents
<1>5. IInv
    BY <1>3, <1>4 DEF IInv
<1>6. Map!Make
    BY <1>1, <1>2, <1>4 DEF Map!Make, Contents
<1> QED BY <1>5, <1>6

LEMMA Resplits == IInv /\ Resplit => IInv' /\ Map!Remake
<1> SUFFICES ASSUME IInv, GivesWay(node),
                    NEW b \in Byte, NEW c \in Byte, NEW x \in Below[b], NEW y \in Below[c],
                    b # c, node' = NewNode4(b, x, c, y)
             PROVE  IInv' /\ Map!Remake
    BY DEF Resplit
<1>1. x \in Children /\ y \in Children
    BY BelowAreChildren
<1>2. PICK g : g = Map!Pair(b, x, c, y)
    OBVIOUS
<1>3. Holds(Children, node', g) /\ Occupied(node'.type, Cardinality(Mapped(g)))
    BY <1>1, <1>2, ChildrenAssumption, MadeOfTwo DEF ChildrenAssumption, Two, Map!Pair
<1>4. Contents' = g
    BY <1>3, NoChild, OneMap DEF Contents
<1>5. IInv'
    BY <1>3, <1>4 DEF IInv
<1>6. Cardinality(Mapped(Contents)) = 1
    BY NoChild, Counted DEF IInv, GivesWay
<1>7. Map!Used = Mapped(Contents)
    BY DEF Map!Used, Mapped, Contents
<1>8. Map!Remake
    <2>1. Cardinality(Map!Used) = 1
        BY <1>6, <1>7
    <2>2. Contents' = Map!Pair(b, x, c, y)
        BY <1>2, <1>4
    <2> QED BY <1>1, <2>1, <2>2, SameCount DEF Map!Remake, Contents
<1> QED BY <1>5, <1>8

LEMMA TwoAreLeft ==
  ASSUME IInv, ~GivesWay(node)
  PROVE  Map!Used = Mapped(Contents) /\ Cardinality(Map!Used) > 1
<1>1. Map!Used = Mapped(Contents)
    BY DEF Map!Used, Mapped, Contents
<1>2. PICK k : k = Cardinality(Mapped(Contents))
    OBVIOUS
<1>3. Occupied(node.type, k) /\ (node.type = "node4" => k # 1)
    BY <1>2, NoChild, Counted DEF IInv, GivesWay
<1>4. k > 1
    BY <1>3, SizesAssumption DEF SizesAssumption, Occupied
<1> QED BY <1>1, <1>2, <1>4

LEMMA Extends ==
  ASSUME IInv, NEW c \in Byte, NEW x \in Below[c], Extend(c, x)
  PROVE  /\ IInv' /\ Map!Put(c, x)
         /\ Cardinality(Mapped(Contents')) = Cardinality(Mapped(Contents)) + 1
         /\ node'.type # node.type => Cardinality(Mapped(Contents)) > Low(node'.type)
<1>1. x \in Children /\ Contents[c] = Null
    BY BelowAreChildren DEF Extend, Contents
<1>2. PICK f : f = Contents
    OBVIOUS
<1>3. PICK g : g = [f EXCEPT ![c] = x]
    OBVIOUS
<1>4. /\ Holds(Children, node, f) /\ f[c] = Null /\ Occupied(node.type, Cardinality(Mapped(f)))
      /\ node' = AddChild(node, c, x) /\ ~GivesWay(node)
    BY <1>1, <1>2 DEF IInv, Extend
<1>5. /\ Holds(Children, node', g)
      /\ Cardinality(Mapped(g)) = Cardinality(Mapped(f)) + 1
      /\ Occupied(node'.type, Cardinality(Mapped(g)))
      /\ node'.type # node.type => Cardinality(Mapped(f)) > Low(node'.type)
    <2>1. LET h == [f EXCEPT ![c] = x]  q == AddChild(node, c, x)
          IN  /\ Holds(Children, q, h)
              /\ Cardinality(Mapped(h)) = Cardinality(Mapped(f)) + 1
              /\ Occupied(q.type, Cardinality(Mapped(h)))
              /\ q.type # node.type => Cardinality(Mapped(f)) > Low(q.type)
        BY <1>1, <1>4, NoChild, Extended
    <2> QED BY <1>3, <1>4, <2>1
<1>6. Contents' = g
    BY <1>5, NoChild, OneMap DEF Contents
<1>7. IInv'
    BY <1>5, <1>6 DEF IInv
<1>8. Map!Put(c, x)
    <2>1. Cardinality(Map!Used) > 1
        BY <1>4, TwoAreLeft
    <2>2. Contents[c] = Null /\ Contents' = [Contents EXCEPT ![c] = x]
        BY <1>2, <1>3, <1>4, <1>6
    <2> QED BY <2>1, <2>2, SameCount DEF Map!Put, Contents
<1> QED BY <1>2, <1>5, <1>6, <1>7, <1>8

LEMMA Reduces ==
  ASSUME IInv, NEW c \in Byte, Reduce(c)
  PROVE  /\ IInv' /\ Map!Take(c)
         /\ Cardinality(Mapped(Contents')) = Cardinality(Mapped(Contents)) - 1
         /\ node'.type # node.type => Cardinality(Mapped(Contents')) < Cap(node'.type)
<1>1. PICK f : f = Contents
    OBVIOUS
<1>2. PICK g : g = [f EXCEPT ![c] = Null]
    OBVIOUS
<1>3. /\ Holds(Children, node, f) /\ f[c] # Null /\ Occupied(node.type, Cardinality(Mapped(f)))
      /\ node' = RemoveChild(node, c) /\ ~GivesWay(node)
    BY <1>1 DEF IInv, Reduce, Contents
<1>4. /\ Holds(Children, node', g)
      /\ Cardinality(Mapped(g)) = Cardinality(Mapped(f)) - 1
      /\ Occupied(node'.type, Cardinality(Mapped(g)))
      /\ node'.type # node.type => Cardinality(Mapped(g)) < Cap(node'.type)
    <2>1. LET h == [f EXCEPT ![c] = Null]  q == RemoveChild(node, c)
          IN  /\ Holds(Children, q, h)
              /\ Cardinality(Mapped(h)) = Cardinality(Mapped(f)) - 1
              /\ Occupied(q.type, Cardinality(Mapped(h)))
              /\ q.type # node.type => Cardinality(Mapped(h)) < Cap(q.type)
        BY <1>3, NoChild, Reduced
    <2> QED BY <1>2, <1>3, <2>1
<1>5. Contents' = g
    BY <1>4, NoChild, OneMap DEF Contents
<1>6. IInv'
    BY <1>4, <1>5 DEF IInv
<1>7. Map!Take(c)
    <2>1. Cardinality(Map!Used) > 1
        BY <1>3, TwoAreLeft
    <2>2. Contents[c] # Null /\ Contents' = [Contents EXCEPT ![c] = Null]
        BY <1>1, <1>2, <1>3, <1>5
    <2> QED BY <2>1, <2>2, SameCount DEF Map!Take, Contents
<1> QED BY <1>1, <1>4, <1>5, <1>6, <1>7

LEMMA Inductive == IInv /\ [Next]_node => IInv' /\ [Map!Next]_Contents
<1> SUFFICES ASSUME IInv, [Next]_node PROVE IInv' /\ [Map!Next]_Contents
    OBVIOUS
<1>1. CASE Resplit
    BY <1>1, Resplits DEF Map!Next
<1>2. CASE \E c \in Byte : Reduce(c)
    BY <1>2, Reduces DEF Map!Next
<1>3. CASE \E c \in Byte : \E x \in Below[c] : Extend(c, x)
    <2>1. PICK c \in Byte : \E x \in Below[c] : Extend(c, x)
        BY <1>3
    <2>2. PICK x \in Below[c] : Extend(c, x)
        BY <2>1
    <2>3. x \in Children /\ IInv' /\ Map!Put(c, x)
        BY <2>2, Extends, BelowAreChildren
    <2> QED BY <2>3 DEF Map!Next
<1>4. CASE UNCHANGED node
    BY <1>4 DEF IInv, Contents
<1> QED BY <1>1, <1>2, <1>3, <1>4 DEF Next

LEMMA Invariant == Spec => []IInv
<1>1. Init => IInv
    BY Starts
<1>2. IInv /\ [Next]_node => IInv'
    BY Inductive
<1> QED BY <1>1, <1>2, PTL DEF Spec
-------------------------------------------------------------------------------
LEMMA UsedIsMapped ==
  ASSUME IInv
  PROVE  Used(node) = Mapped(Contents) /\ Cardinality(Used(node)) \in Nat
BY NoChild, Found, MappedIsFinite, SizesAssumption DEF IInv, SizesAssumption

(* Every field of a node stays within its array and its type, in each      *)
(* layout and whatever the sizes are (ArtCPP.hpp:44-110).                  *)
THEOREM TypeCorrect == Spec => []TypeOK
<1>1. IInv => TypeOK
    <2> SUFFICES ASSUME IInv PROVE TypeOK
        OBVIOUS
    <2>1. PICK k : k = Cardinality(Mapped(Contents)) /\ k \in Nat
        BY MappedIsFinite, SizesAssumption DEF SizesAssumption
    <2>2. Occupied(node.type, k) /\ Contents \in Maps(Children)
        BY <2>1 DEF IInv, Holds
    <2>3. CASE LinearOf(Children, node, Contents)
        <3>1. node.num = k /\ node.type \in Linear
            BY <2>1, <2>3, NoChild, Counted DEF IInv, LinearOf, Linear
        <3>2. node.num <= Cap(node.type) /\ node.num \in 0 .. NBytes - 1
            BY <2>1, <2>2, <3>1, SizesAssumption DEF SizesAssumption, Occupied, Cap, Linear
        <3>3. node.keys \in [1 .. node.num -> Byte] /\ node.kids \in [1 .. node.num -> Children]
            BY <2>3, LenProperties, ElementOfSeq DEF LinearOf
        <3> QED BY <3>1, <3>2, <3>3 DEF TypeOK
    <2>4. CASE SlotsOf(Children, node, Contents)
        <3>1. node.num \in 0 .. NBytes - 1
            BY <2>1, <2>2, <2>4, SizesAssumption DEF SizesAssumption, Occupied, SlotsOf
        <3> QED BY <2>4, <3>1 DEF TypeOK, SlotsOf
    <2>5. CASE DirectOf(Children, node, Contents)
        <3>1. node.num \in 0 .. NBytes - 1
            BY <2>1, <2>5, SizesAssumption DEF SizesAssumption, DirectOf
        <3> QED BY <2>2, <2>5, <3>1 DEF TypeOK, DirectOf, Maps
    <2> QED BY <2>3, <2>4, <2>5 DEF IInv, Holds
<1> QED BY <1>1, Invariant, PTL

(* num_children counts the children up to the wrap of its 8 bits, and in a *)
(* node48 each taken slot is taken for one byte, so that the loop of       *)
(* add_child48 (ArtCPP.hpp:494) ends.                                      *)
THEOREM CountsAreExact == Spec => []CountIsExact
<1>1. IInv => CountIsExact
    <2> SUFFICES ASSUME IInv PROVE CountIsExact
        OBVIOUS
    <2>1. PICK k \in Nat : k = Cardinality(Used(node)) /\ k = Cardinality(Mapped(Contents))
        BY UsedIsMapped
    <2>2. /\ Occupied(node.type, k) /\ (node.type # "node256" => node.num = k)
          /\ (node.type = "node256" => node.num = k % NBytes)
        BY <2>1, NoChild, Counted DEF IInv
    <2>3. node.num = k % NBytes
        <3>1. node.type # "node256" => k \in Byte
            BY <2>2, SizesAssumption DEF SizesAssumption, Occupied, Byte
        <3> QED BY <2>2, <3>1, Counter
    <2>4. ASSUME node.type = "node48", NEW i \in 1 .. Cap48
          PROVE  node.kids[i] # Null <=> Cardinality({c \in Byte : node.keys[c] = i}) = 1
        <3> DEFINE S == {c \in Byte : node.keys[c] = i}
        <3>1. SlotsOf(Children, node, Contents)
            BY <2>4 DEF IInv, Holds, LinearOf, DirectOf, Linear
        <3>2. S \subseteq Mapped(Contents)
            BY <3>1, SizesAssumption DEF SizesAssumption, SlotsOf, Mapped
        <3>3. ASSUME node.kids[i] # Null PROVE Cardinality(S) = 1
            <4>1. PICK c \in Mapped(Contents) : node.keys[c] = i
                BY <3>1, <3>3 DEF SlotsOf
            <4>2. \A b \in S : b = c
                BY <3>1, <3>2, <4>1 DEF SlotsOf
            <4>3. S = {c}
                BY <4>1, <4>2 DEF Mapped
            <4> QED BY <4>3, FS_Singleton
        <3>4. ASSUME Cardinality(S) = 1 PROVE node.kids[i] # Null
            <4>1. S # {}
                BY <3>4, FS_EmptySet
            <4>2. PICK c \in S : TRUE
                BY <4>1
            <4> QED BY <3>1, <3>2, <4>2 DEF SlotsOf, Mapped
        <3> QED BY <3>3, <3>4
    <2> QED BY <2>1, <2>3, <2>4 DEF CountIsExact
<1> QED BY <1>1, Invariant, PTL

(* Each layout is left before it holds fewer or more children than it is   *)
(* meant for, although the shrinking tests compare for equality            *)
(* (ArtCPP.hpp:655, :678, :702) and the counter wraps.                     *)
THEOREM OccupancyHolds == Spec => []Occupancy
<1>1. IInv => Occupancy
    <2> SUFFICES ASSUME IInv PROVE Occupancy
        OBVIOUS
    <2>1. PICK k \in Nat : k = Cardinality(Used(node)) /\ Occupied(node.type, k)
        BY UsedIsMapped DEF IInv
    <2> QED BY <2>1 DEF Occupancy, Occupied
<1> QED BY <1>1, Invariant, PTL

(* A node that has just been enlarged is not shrunk by the next removal,   *)
(* nor one just shrunk enlarged by the next insert: the thresholds of      *)
(* remove_child (ArtCPP.hpp:653) lie far enough below the sizes.           *)
THEOREM NeverThrashes == Spec => NoThrashing
<1>1. ASSUME IInv, IInv', [Next]_node, node'.type # node.type, ~GivesWay(node)
      PROVE  LET count == Cardinality(Used(node')) IN
             IF count > Cardinality(Used(node)) THEN count - 1 > Low(node'.type)
                                                ELSE count < Cap(node'.type)
    <2>1. PICK k \in Nat : k = Cardinality(Used(node)) /\ k = Cardinality(Mapped(Contents))
        BY <1>1, UsedIsMapped
    <2>2. PICK j \in Nat : j = Cardinality(Used(node')) /\ j = Cardinality(Mapped(Contents'))
        <3>1. Used(node') = Mapped(Contents') /\ Cardinality(Used(node')) \in Nat
            BY <1>1, NoChild, Found, MappedIsFinite, SizesAssumption DEF IInv, SizesAssumption
        <3> QED BY <3>1
    <2>3. CASE \E c \in Byte : \E x \in Below[c] : Extend(c, x)
        <3>1. PICK c \in Byte : \E x \in Below[c] : Extend(c, x)
            BY <2>3
        <3>2. PICK x \in Below[c] : Extend(c, x)
            BY <3>1
        <3>3. j = k + 1 /\ k > Low(node'.type)
            BY <1>1, <2>1, <2>2, <3>2, Extends
        <3>4. j > k /\ j - 1 = k
            BY <3>3
        <3> QED BY <2>1, <2>2, <3>3, <3>4
    <2>4. CASE \E c \in Byte : Reduce(c)
        <3>1. j = k - 1 /\ j < Cap(node'.type)
            BY <1>1, <2>1, <2>2, <2>4, Reduces
        <3>2. ~(j > k)
            BY <3>1
        <3> QED BY <2>1, <2>2, <3>1, <3>2
    <2> QED BY <1>1, <2>3, <2>4 DEF Next, Resplit
<1> QED BY <1>1, Invariant, PTL DEF Spec, NoThrashing

(* The node is the map of bytes to children that inserts and removals have *)
(* built, across all layouts and every change of layout.                   *)
THEOREM NodeImplementsMap == Spec => ImplementsByteMap
<1>1. Init => Map!Make
    BY Starts
<1>2. IInv /\ [Next]_node => [Map!Next]_Contents
    BY Inductive
<1> QED BY <1>1, <1>2, Invariant, PTL DEF Spec, ImplementsByteMap, Map!Spec, Contents
===============================================================================
