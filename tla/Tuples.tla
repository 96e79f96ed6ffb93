-------------------------------- MODULE Tuples ---------------------------------
(***************************************************************************)
(* The tuples that tables hold (src/core/Tuple.hpp), and their form in a   *)
(* stream (src/core/serialize.hpp).  An attribute is plain, of one cell of *)
(* the stream, or a string, of which each character is one.                *)
(***************************************************************************)
EXTENDS Naturals, Sequences, SequencesExt

Tuple(data, nulls) == [data |-> data, nulls |-> nulls]

(* The copy constructor passes on the attributes only.                     *)
Copy(tup) == Tuple(tup.data, {})

-------------------------------------------------------------------------------
(* serialize(): a string is preceded by its length.                        *)
Image(type, value) == IF type = "string" THEN <<Len(value)>> \o value ELSE <<value>>

(* serializeToStream() puts the tuple behind what is in the stream: its    *)
(* type, the attributes, the bits of the null values.                      *)
SerializeTo(stream, types, tup) ==
  stream \o <<"Normal">>
         \o FlattenSeq([j \in DOMAIN types |-> Image(types[j], tup.data[j])])
         \o <<tup.nulls>>

(* deserialize_tuple(): the attributes one after another, from where the   *)
(* last one has ended.                                                     *)
ReadAttribute(stream, r, type) ==
  LET len == IF type = "string" THEN stream[r.next] ELSE 0 IN
  IF type = "string"
    THEN [next |-> r.next + 1 + len,
          data |-> Append(r.data, SubSeq(stream, r.next + 1, r.next + len))]
    ELSE [next |-> r.next + 1, data |-> Append(r.data, stream[r.next])]

(* deserializeFromStream() reads from the begin of the stream, and takes   *)
(* nothing out of it.                                                      *)
Deserialize(stream, types) ==
  LET r == FoldLeft(LAMBDA acc, type : ReadAttribute(stream, acc, type),
                    [next |-> 2, data |-> <<>>], types)
  IN Tuple(r.data, stream[r.next])
===============================================================================
