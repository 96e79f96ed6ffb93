----------------------------- MODULE VersionOrder -----------------------------
(***************************************************************************)
(* What a set of multi-version records promises: every record has one      *)
(* newest version, and a new version is installed in ONE atomic step, on   *)
(* top of the version that is newest at that moment and computed from it.  *)
(* The versions of a record are therefore a single line of descent: none   *)
(* is lost, and none has two successors.                                   *)
(*                                                                         *)
(* mvcc11::mvcc implements this step with a load, an ordinary store, a     *)
(* compare-and-swap and a late link: see MvccRecord, which refines this    *)
(* module.                                                                 *)
(***************************************************************************)
CONSTANTS Records,      \* the records
          Versions,     \* the names of all versions, the first ones included
          First,        \* First[r] is the version record r is born with
          Null          \* no version

VARIABLES top,          \* top[r]: the newest version of record r
          pred,         \* pred[v]: the version v was installed on, or Null
          val           \* val[v]: the set of versions whose effect v contains

vars == <<top, pred, val>>

FirstVersions == {First[r] : r \in Records}

(* The versions that have been installed, the first ones included.         *)
Installed == FirstVersions \cup {v \in Versions : pred[v] # Null}

Init == /\ top = [r \in Records |-> First[r]]
        /\ pred = [v \in Versions |-> Null]
        /\ val = [v \in Versions |-> IF v \in FirstVersions THEN {v} ELSE {}]

(* Version v replaces the newest version of r; its value is either derived *)
(* from it (an update) or independent of it (an overwrite).                *)
Install(r, v) ==
  /\ v \in Versions \ Installed
  /\ top' = [top EXCEPT ![r] = v]
  /\ pred' = [pred EXCEPT ![v] = top[r]]
  /\ \/ val' = [val EXCEPT ![v] = val[top[r]] \cup {v}]
     \/ val' = [val EXCEPT ![v] = {v}]

Next == \E r \in Records, v \in Versions : Install(r, v)

Spec == Init /\ [][Next]_vars
===============================================================================
