------------------------------ MODULE MCWorkload ------------------------------
(* Instances of Workload for TLC: the bodies of the templates, with fewer  *)
(* calls of each kind.                                                     *)
EXTENDS Workload

(* UpdateSmall, deleteRandomKeys, ReadIntensiveSmall, and a writer that    *)
(* inserts.                                                                *)
UpdateSmall == <<"update", "check">>
DeleteRandomKeys == <<"delete">>
ReadIntensiveSmall == <<"read", "rewrite", "check">>
Writer == <<"insert">>

Mixed == <<UpdateSmall, DeleteRandomKeys, Writer>>

Updates == <<UpdateSmall, UpdateSmall>>
===============================================================================
