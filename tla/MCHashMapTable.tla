---------------------------- MODULE MCHashMapTable -----------------------------
(* An instance of HashMapTable for TLC.                                    *)
EXTENDS HashMapTable

CONSTANTS t1, t2, k1, k2

(* Tuples that are read back from a stream are those that were put there,  *)
(* null values included; behind the first one nothing is read.             *)
Types == <<"plain", "string", "plain">>
Samples == {Tuple(<<n, str, n>>, nulls) : n \in 0 .. 2, nulls \in SUBSET (1 .. 3),
                                          str \in UNION {[1 .. l -> {0, 3}] : l \in 0 .. 2}}
ASSUME RowsSurviveStream ==
  \A a, b \in Samples :
    Deserialize(SerializeTo(SerializeTo(<<>>, Types, a), Types, b), Types) = a
================================================================================
