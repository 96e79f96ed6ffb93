------------------------------- MODULE KeyStore -------------------------------
(***************************************************************************)
(* What the tree promises to the transactions: a set of keys, each with a  *)
(* record.  A key enters the store with its first insert; a deletion only  *)
(* marks its record; the mark goes when the record is written again; and   *)
(* the garbage collector may take away keys that bear the mark, no others. *)
(***************************************************************************)
CONSTANTS Keys,
          Filters       \* the sets of keys that are written together

VARIABLES stored,       \* the keys in the store
          marked        \* those whose newest version has been ended

vars == <<stored, marked>>

Init == stored = {} /\ marked = {}

Insert(k) == /\ k \notin stored
             /\ stored' = stored \cup {k}
             /\ UNCHANGED marked

Write(K) == /\ K \subseteq stored
            /\ marked' = marked \ K
            /\ UNCHANGED stored

Mark(k) == /\ k \in stored
           /\ marked' = marked \cup {k}
           /\ UNCHANGED stored

Collect(k) == /\ k \in marked
              /\ stored' = stored \ {k}
              /\ marked' = marked \ {k}

Next == \/ \E k \in Keys : Insert(k) \/ Write({k}) \/ Mark(k) \/ Collect(k)
        \/ \E F \in Filters : Write(F \cap stored)

Spec == Init /\ [][Next]_vars
===============================================================================
