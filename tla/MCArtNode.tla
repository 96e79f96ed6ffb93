------------------------------ MODULE MCArtNode -------------------------------
(* Instances of ArtNode for TLC.                                           *)
EXTENDS ArtNode

(* A child of its own for every byte, so that no mix-up goes unseen.       *)
OneEach == [c \in Byte |-> {c}]
===============================================================================
