------------------------------ MODULE MCArtTree -------------------------------
(* Instances of ArtTree for TLC.  A 0 ends every key, like the newline of  *)
(* the word lists.                                                         *)
EXTENDS ArtTreeScans

(* The null pointer.                                                       *)
NoSubtree == [type |-> "null"]

(* Three keys with common prefixes longer than what is kept of them, one   *)
(* below the other, and so many other first bytes that the root grows and  *)
(* shrinks.                                                                *)
Words == {<<1, 1, 2, 1, 2, 0>>, <<1, 1, 2, 1, 3, 0>>, <<1, 1, 3, 0>>,
          <<2, 0>>, <<3, 0>>, <<4, 0>>}

(* An update of one long key and of a short one.                           *)
TwoWords == {{<<1, 1, 2, 1, 2, 0>>, <<2, 0>>}}

NoFilter == {}
===============================================================================
