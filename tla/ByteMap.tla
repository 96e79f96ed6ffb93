------------------------------- MODULE ByteMap --------------------------------
(***************************************************************************)
(* What an inner node of the tree promises: a map from the next byte of a  *)
(* key to the child below it.  A node is made with two children; a child   *)
(* is added under a free byte and taken away by its byte; a node that is   *)
(* left with one child gives way to it, and a new node may be made above   *)
(* that child.  ArtNode refines this module with four layouts.             *)
(***************************************************************************)
EXTENDS Naturals, FiniteSets

CONSTANTS Byte,         \* the bytes
          Children,     \* leaves and inner nodes
          Null          \* no child

VARIABLE map            \* map[c]: the child under byte c, or Null

Used == {c \in Byte : map[c] # Null}

Pair(b, x, c, y) == [[d \in Byte |-> Null] EXCEPT ![b] = x, ![c] = y]

Make == \E b, c \in Byte, x, y \in Children :
          b # c /\ map = Pair(b, x, c, y)

Remake == /\ Cardinality(Used) = 1
          /\ \E b, c \in Byte, x, y \in Children :
               b # c /\ map' = Pair(b, x, c, y)

Put(c, x) == /\ Cardinality(Used) > 1
             /\ map[c] = Null
             /\ map' = [map EXCEPT ![c] = x]

Take(c) == /\ Cardinality(Used) > 1
           /\ map[c] # Null
           /\ map' = [map EXCEPT ![c] = Null]

Next == \/ Remake
        \/ \E c \in Byte : Take(c) \/ \E x \in Children : Put(c, x)

Spec == Make /\ [][Next]_map
===============================================================================
