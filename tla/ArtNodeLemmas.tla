---------------------------- MODULE ArtNodeLemmas -----------------------------
(***************************************************************************)
(* What the functions of ArtNodes do to a node that holds a map from bytes *)
(* to things of any kind T, for every size of its layouts: the real ones,  *)
(* 4, 16, 48 and 256 (src/ART/ArtCPP.hpp:44-110), are far beyond TLC.      *)
(***************************************************************************)
EXTENDS ArtNodes, FiniteSetTheorems, SequenceTheorems, TLAPS

(* A set of numbers has a least one.                                       *)
LEMMA MinInSet ==
  ASSUME NEW S \in SUBSET Nat, S # {}
  PROVE  Min(S) \in S /\ \A y \in S : Min(S) <= y
<1>1. PICK x \in S : \A y \in S : ~(<<y, x>> \in OpToRel(<, Nat))
    BY NatLessThanWellFounded, WFMin
<1>2. \A y \in S : <<y, x>> \in OpToRel(<, Nat) <=> y < x
    BY DEF OpToRel
<1>3. \A y \in S : ~(y < x)
    BY <1>1, <1>2, Zenon
<1>4. \A y \in S : x <= y
    BY <1>3
<1> QED BY <1>4 DEF Min

LEMMA MinOfOne == ASSUME NEW i \in Nat PROVE Min({i}) = i
BY DEF Min

LEMMA MaxOfOne == ASSUME NEW i \in Nat PROVE Max({i}) = i
BY DEF Max

LEMMA Inserted ==
  ASSUME NEW S, NEW s \in Seq(S), NEW i \in 1 .. Len(s) + 1, NEW e \in S
  PROVE  /\ InsertAt(s, i, e) \in Seq(S)
         /\ Len(InsertAt(s, i, e)) = Len(s) + 1
         /\ \A j \in 1 .. Len(s) + 1 :
              InsertAt(s, i, e)[j] = IF j < i THEN s[j] ELSE IF j = i THEN e ELSE s[j - 1]
<1> DEFINE before == SubSeq(s, 1, i - 1)  behind == SubSeq(s, i, Len(s))
<1>1. before \in Seq(S) /\ Len(before) = i - 1 /\ \A j \in 1 .. i - 1 : before[j] = s[j]
    BY SubSeqProperties, ElementOfSeq, LenProperties
<1>2. /\ behind \in Seq(S) /\ Len(behind) = Len(s) - i + 1
      /\ \A j \in 1 .. Len(s) - i + 1 : behind[j] = s[i + j - 1]
    BY SubSeqProperties, ElementOfSeq, LenProperties
<1>3. <<e>> \in Seq(S) /\ Len(<<e>>) = 1 /\ <<e>>[1] = e
    OBVIOUS
<1> HIDE DEF before, behind
<1>4. /\ before \o <<e>> \in Seq(S) /\ Len(before \o <<e>>) = i
      /\ \A j \in 1 .. i : (before \o <<e>>)[j] = IF j < i THEN s[j] ELSE e
    BY <1>1, <1>3, ConcatProperties
<1>5. InsertAt(s, i, e) = (before \o <<e>>) \o behind
    BY DEF InsertAt, before, behind
<1> QED BY <1>2, <1>4, <1>5, ConcatProperties

LEMMA Removed ==
  ASSUME NEW S, NEW s \in Seq(S), NEW i \in 1 .. Len(s)
  PROVE  /\ RemoveAt(s, i) \in Seq(S)
         /\ Len(RemoveAt(s, i)) = Len(s) - 1
         /\ \A j \in 1 .. Len(s) - 1 : RemoveAt(s, i)[j] = IF j < i THEN s[j] ELSE s[j + 1]
<1> DEFINE before == SubSeq(s, 1, i - 1)  behind == SubSeq(s, i + 1, Len(s))
<1>1. before \in Seq(S) /\ Len(before) = i - 1 /\ \A j \in 1 .. i - 1 : before[j] = s[j]
    BY SubSeqProperties, ElementOfSeq, LenProperties
<1>2. /\ behind \in Seq(S) /\ Len(behind) = Len(s) - i
      /\ \A j \in 1 .. Len(s) - i : behind[j] = s[i + j]
    BY SubSeqProperties, ElementOfSeq, LenProperties
<1>3. RemoveAt(s, i) = before \o behind
    BY DEF RemoveAt
<1> HIDE DEF before, behind
<1>4. /\ before \o behind \in Seq(S) /\ Len(before \o behind) = Len(s) - 1
      /\ \A j \in 1 .. Len(s) - 1 :
           (before \o behind)[j] = IF j <= i - 1 THEN before[j] ELSE behind[j - (i - 1)]
    <2>1. Len(before) + Len(behind) = Len(s) - 1
        BY <1>1, <1>2, LenProperties
    <2>2. /\ before \o behind \in Seq(S)
          /\ Len(before \o behind) = Len(before) + Len(behind)
          /\ \A j \in 1 .. Len(before) + Len(behind) :
               (before \o behind)[j] = IF j <= Len(before) THEN before[j]
                                       ELSE behind[j - Len(before)]
        BY <1>1, <1>2, ConcatProperties, Zenon
    <2> QED BY <1>1, <2>1, <2>2
<1>5. ASSUME NEW j \in 1 .. Len(s) - 1
      PROVE  (before \o behind)[j] = IF j < i THEN s[j] ELSE s[j + 1]
    <2>1. CASE j < i
        BY <1>1, <1>4, <2>1, LenProperties
    <2>2. CASE ~(j < i)
        <3>1. j - (i - 1) \in 1 .. Len(s) - i /\ i + (j - (i - 1)) = j + 1
            BY <2>2, LenProperties
        <3> QED BY <1>2, <1>4, <2>2, <3>1, LenProperties
    <2> QED BY <2>1, <2>2
<1> QED BY <1>3, <1>4, <1>5

(* The counter of 8 bits.                                                  *)
LEMMA Counter ==
  /\ \A k \in Byte : k % NBytes = k
  /\ NBytes % NBytes = 0
  /\ (0 - 1) % NBytes = NBytes - 1
BY SizesAssumption DEF SizesAssumption, Byte

LEMMA BytesAreFinite ==
  ASSUME NEW S \in SUBSET Byte
  PROVE  /\ IsFiniteSet(S) /\ Cardinality(S) \in 0 .. NBytes
         /\ Cardinality(S) = NBytes => S = Byte
<1>1. IsFiniteSet(Byte) /\ Cardinality(Byte) = NBytes
    <2>1. NBytes - 1 \in Int /\ 0 \in Int /\ NBytes \in Nat \ {0}
        BY SizesAssumption DEF SizesAssumption
    <2> QED BY <2>1, FS_Interval DEF Byte
<1> QED BY <1>1, FS_Subset, FS_CardinalityType

(* The position of a byte in the order of bytes is one of its own.         *)
LEMMA RanksAreOrdinals ==
  ASSUME NEW n, Used(n) \subseteq Byte
  PROVE  [c \in Used(n) |-> Rank(n, c)] \in Bijection(Used(n), 1 .. Cardinality(Used(n)))
<1> DEFINE U == Used(n)  k == Cardinality(U)  upto(c) == {b \in U : b <= c}
           r == [c \in U |-> Rank(n, c)]
<1>1. IsFiniteSet(U) /\ k \in Nat
    BY BytesAreFinite
<1>2. ASSUME NEW c \in U PROVE IsFiniteSet(upto(c)) /\ Rank(n, c) \in 1 .. k
    <2>1. IsFiniteSet(upto(c)) /\ Cardinality(upto(c)) \in 0 .. k
        BY <1>1, FS_Subset, FS_CardinalityType
    <2>2. c \in upto(c)
        BY DEF Byte
    <2>3. Cardinality(upto(c)) # 0
        BY <2>1, <2>2, FS_EmptySet
    <2> QED BY <2>1, <2>3 DEF Rank
<1>3. ASSUME NEW b \in U, NEW c \in U, b < c PROVE Rank(n, b) < Rank(n, c)
    <2>1. upto(b) \subseteq upto(c)
        BY <1>3 DEF Byte
    <2>2. upto(b) # upto(c)
        <3>1. c \in upto(c) /\ c \notin upto(b)
            BY <1>3 DEF Byte
        <3> QED BY <3>1
    <2>3. /\ Cardinality(upto(b)) <= Cardinality(upto(c))
          /\ Cardinality(upto(b)) # Cardinality(upto(c))
        BY <1>2, <2>1, <2>2, FS_Subset
    <2>4. Cardinality(upto(b)) \in Nat /\ Cardinality(upto(c)) \in Nat
        BY <1>2, FS_CardinalityType
    <2> QED BY <2>3, <2>4 DEF Rank
<1>4. r \in [U -> 1 .. k]
    BY <1>2
<1>5. \A b, c \in U : r[b] = r[c] => b = c
    <2> SUFFICES ASSUME NEW b \in U, NEW c \in U, b # c PROVE Rank(n, b) # Rank(n, c)
        OBVIOUS
    <2>1. b < c \/ c < b
        BY DEF Byte
    <2>2. Rank(n, b) < Rank(n, c) \/ Rank(n, c) < Rank(n, b)
        BY <1>3, <2>1
    <2>3. Rank(n, b) \in 1 .. k /\ Rank(n, c) \in 1 .. k
        BY <1>2
    <2> QED BY <1>1, <2>2, <2>3
<1>6. r \in Injection(U, 1 .. k)
    BY <1>4, <1>5, Zenon DEF Injection, IsInjective
<1>7. Cardinality(1 .. k) = k /\ IsFiniteSet(1 .. k)
    BY <1>1, FS_Interval
<1>8. r \in Surjection(U, 1 .. k)
    BY <1>1, <1>6, <1>7, FS_Injection
<1> QED BY <1>6, <1>8 DEF Bijection

LEMMA ByteOrder ==
  ASSUME NEW n, Used(n) \subseteq Byte
  PROVE  /\ InByteOrder(n) \in [1 .. Cardinality(Used(n)) -> Used(n)]
         /\ \A c \in Used(n) : /\ Rank(n, c) \in 1 .. Cardinality(Used(n))
                               /\ InByteOrder(n)[Rank(n, c)] = c
         /\ \A i \in 1 .. Cardinality(Used(n)) : Rank(n, InByteOrder(n)[i]) = i
<1> DEFINE U == Used(n)  k == Cardinality(U)  r == [c \in U |-> Rank(n, c)]
<1>1. r \in Bijection(U, 1 .. k)
    BY RanksAreOrdinals
<1>2. /\ \A c \in U : Rank(n, c) \in 1 .. k
      /\ \A b, c \in U : Rank(n, b) = Rank(n, c) => b = c
      /\ \A i \in 1 .. k : \E c \in U : Rank(n, c) = i
    BY <1>1 DEF Bijection, Injection, Surjection, IsInjective
<1>3. \A i \in 1 .. k : /\ InByteOrder(n)[i] \in U
                        /\ Rank(n, InByteOrder(n)[i]) = i
    BY <1>2 DEF InByteOrder
<1>4. InByteOrder(n) \in [1 .. k -> U]
    BY <1>3 DEF InByteOrder
<1>5. \A c \in U : InByteOrder(n)[Rank(n, c)] = c
    BY <1>2, <1>3
<1> QED BY <1>2, <1>3, <1>4, <1>5
-------------------------------------------------------------------------------
(* Node n holds the map f from bytes to members of T: what each layout has *)
(* to keep to, whatever their number.                                      *)
Maps(T) == [Byte -> T \cup {Null}]
Mapped(f) == {c \in Byte : f[c] # Null}

IsNode(n) == n = [type |-> n.type, num |-> n.num, keys |-> n.keys, kids |-> n.kids]

LinearOf(T, n, f) ==
  /\ n.type \in Linear
  /\ n.keys \in Seq(Byte) /\ n.kids \in Seq(T)
  /\ Len(n.keys) = n.num /\ Len(n.kids) = n.num
  /\ \A i, j \in 1 .. n.num : n.keys[i] = n.keys[j] => i = j
  /\ \A c \in Mapped(f) : \E i \in 1 .. n.num : n.keys[i] = c
  /\ \A i \in 1 .. n.num : n.kids[i] = f[n.keys[i]]

SlotsOf(T, n, f) ==
  /\ n.type = "node48"
  /\ n.keys \in [Byte -> 0 .. Cap48]
  /\ n.kids \in [1 .. Cap48 -> T \cup {Null}]
  /\ \A c \in Byte : n.keys[c] = 0 <=> f[c] = Null
  /\ \A c \in Mapped(f) : n.kids[n.keys[c]] = f[c]
  /\ \A b, c \in Mapped(f) : n.keys[b] = n.keys[c] => b = c
  /\ \A i \in 1 .. Cap48 : n.kids[i] # Null => \E c \in Mapped(f) : n.keys[c] = i
  /\ n.num = Cardinality(Mapped(f))

DirectOf(T, n, f) ==
  /\ n.type = "node256" /\ n.keys = <<>> /\ n.kids = f
  /\ n.num = Cardinality(Mapped(f)) % NBytes

Holds(T, n, f) == f \in Maps(T) /\ IsNode(n) /\ (LinearOf(T, n, f) \/ SlotsOf(T, n, f) \/ DirectOf(T, n, f))

LEMMA MappedIsFinite ==
  ASSUME NEW f
  PROVE  /\ Mapped(f) \subseteq Byte /\ IsFiniteSet(Mapped(f))
         /\ Cardinality(Mapped(f)) \in 0 .. NBytes
BY BytesAreFinite DEF Mapped

LEMMA OneMore ==
  ASSUME NEW T, NEW f \in Maps(T), NEW c \in Byte, f[c] = Null, NEW x \in T, x # Null,
         NEW g, g = [f EXCEPT ![c] = x]
  PROVE  /\ g \in Maps(T)
         /\ Mapped(g) = Mapped(f) \cup {c}
         /\ Cardinality(Mapped(g)) = Cardinality(Mapped(f)) + 1
<1>1. g \in Maps(T)
    BY DEF Maps
<1>2. Mapped(g) = Mapped(f) \cup {c}
    BY DEF Maps, Mapped
<1>3. c \notin Mapped(f)
    BY DEF Mapped
<1> QED BY <1>1, <1>2, <1>3, MappedIsFinite, FS_AddElement

LEMMA OneLess ==
  ASSUME NEW T, NEW f \in Maps(T), NEW c \in Mapped(f),
         NEW g, g = [f EXCEPT ![c] = Null]
  PROVE  /\ g \in Maps(T)
         /\ Mapped(g) = Mapped(f) \ {c}
         /\ Cardinality(Mapped(g)) = Cardinality(Mapped(f)) - 1
<1>1. g \in Maps(T)
    BY DEF Maps, Mapped
<1>2. Mapped(g) = Mapped(f) \ {c}
    BY DEF Maps, Mapped
<1> QED BY <1>1, <1>2, MappedIsFinite, FS_RemoveElement

(* In a node4 or a node16 there is one place for each byte.                *)
LEMMA OnePlace ==
  ASSUME NEW T, Null \notin T, NEW n, NEW f \in Maps(T), LinearOf(T, n, f)
  PROVE  /\ n.num \in Nat
         /\ \A i \in 1 .. n.num : n.keys[i] \in Mapped(f) /\ Positions(n, n.keys[i]) = {i}
         /\ \A c \in Byte : c \notin Mapped(f) => Positions(n, c) = {}
<1>1. n.num \in Nat
    BY LenProperties DEF LinearOf
<1>2. ASSUME NEW i \in 1 .. n.num PROVE n.keys[i] \in Mapped(f)
    <2>1. n.keys[i] \in Byte /\ n.kids[i] \in T
        BY ElementOfSeq DEF LinearOf
    <2> QED BY <2>1 DEF LinearOf, Mapped
<1>3. ASSUME NEW i \in 1 .. n.num PROVE Positions(n, n.keys[i]) = {i}
    BY DEF LinearOf, Positions
<1>4. \A c \in Byte : c \notin Mapped(f) => Positions(n, c) = {}
    BY <1>2 DEF Positions
<1> QED BY <1>1, <1>2, <1>3, <1>4

(* num_children is the number of children, but for the wrap in a node256.  *)
LEMMA Counted ==
  ASSUME NEW T, Null \notin T, NEW n, NEW f, Holds(T, n, f)
  PROVE  /\ n.type \in {"node4", "node16", "node48", "node256"}
         /\ n.type # "node256" => n.num = Cardinality(Mapped(f))
         /\ n.type = "node256" => n.num = Cardinality(Mapped(f)) % NBytes
<1>1. CASE LinearOf(T, n, f)
    <2> DEFINE g == [i \in 1 .. n.num |-> n.keys[i]]
    <2>1. f \in Maps(T)
        BY DEF Holds
    <2>2. n.num \in Nat /\ \A i \in 1 .. n.num : n.keys[i] \in Mapped(f)
        BY <1>1, <2>1, OnePlace
    <2>3. g \in Injection(1 .. n.num, Mapped(f))
        BY <1>1, <2>2 DEF LinearOf, Injection, IsInjective
    <2>4. g \in Surjection(1 .. n.num, Mapped(f))
        BY <1>1, <2>2 DEF LinearOf, Surjection
    <2>5. ExistsBijection(1 .. n.num, Mapped(f))
        BY <2>3, <2>4 DEF ExistsBijection, Bijection
    <2>6. Cardinality(Mapped(f)) = n.num
        BY <2>2, <2>5, FS_CountingElements
    <2> QED BY <1>1, <2>6 DEF LinearOf, Linear
<1>2. CASE SlotsOf(T, n, f)
    BY <1>2 DEF SlotsOf
<1>3. CASE DirectOf(T, n, f)
    BY <1>3 DEF DirectOf
<1> QED BY <1>1, <1>2, <1>3 DEF Holds

(* find_child() finds in each layout what the node holds.                  *)
LEMMA Found ==
  ASSUME NEW T, Null \notin T, NEW n, NEW f, Holds(T, n, f)
  PROVE  /\ \A c \in Byte : FindChild(n, c) = f[c]
         /\ Used(n) = Mapped(f)
<1>0. f \in Maps(T)
    BY DEF Holds
<1>1. CASE LinearOf(T, n, f)
    <2>1. n.type \in Linear
        BY <1>1 DEF LinearOf
    <2>2. ASSUME NEW c \in Byte PROVE FindChild(n, c) = f[c]
        <3>1. CASE c \in Mapped(f)
            <4>1. PICK i \in 1 .. n.num : n.keys[i] = c
                BY <1>1, <3>1 DEF LinearOf
            <4>2. Positions(n, c) = {i} /\ i \in Nat
                BY <1>0, <1>1, <4>1, OnePlace
            <4>3. FindChild(n, c) = n.kids[i]
                BY <2>1, <4>2, MinOfOne DEF FindChild, Linear
            <4> QED BY <1>1, <4>1, <4>3 DEF LinearOf
        <3>2. CASE c \notin Mapped(f)
            <4>1. Positions(n, c) = {}
                BY <1>0, <1>1, <3>2, OnePlace
            <4>2. FindChild(n, c) = Null
                BY <2>1, <4>1 DEF FindChild, Linear
            <4> QED BY <3>2, <4>2 DEF Mapped
        <3> QED BY <3>1, <3>2
    <2>3. Used(n) = Mapped(f)
        <3>1. DOMAIN n.keys = 1 .. n.num
            BY <1>1, LenProperties DEF LinearOf
        <3>2. \A i \in 1 .. n.num : n.keys[i] \in Mapped(f)
            BY <1>0, <1>1, OnePlace
        <3>3. \A c \in Mapped(f) : \E i \in 1 .. n.num : n.keys[i] = c
            BY <1>1 DEF LinearOf
        <3>4. Used(n) = {n.keys[i] : i \in 1 .. n.num}
            BY <2>1, <3>1 DEF Used, Range
        <3> QED BY <3>2, <3>3, <3>4
    <2> QED BY <2>2, <2>3
<1>2. CASE SlotsOf(T, n, f)
    <2>1. \A c \in Byte : FindChild(n, c) = f[c]
        BY <1>2 DEF SlotsOf, FindChild, Mapped, Linear
    <2> QED BY <1>2, <2>1 DEF SlotsOf, Used, Mapped, Linear
<1>3. CASE DirectOf(T, n, f)
    <2>1. \A c \in Byte : FindChild(n, c) = f[c]
        BY <1>3 DEF DirectOf, FindChild, Linear
    <2> QED BY <1>3, <2>1 DEF DirectOf, Used, Mapped, Linear
<1> QED BY <1>1, <1>2, <1>3 DEF Holds

LEMMA OneMap ==
  ASSUME NEW T, Null \notin T, NEW n, NEW f, Holds(T, n, f)
  PROVE  [c \in Byte |-> FindChild(n, c)] = f
<1>1. f \in Maps(T) /\ \A c \in Byte : FindChild(n, c) = f[c]
    BY Found DEF Holds
<1> QED BY <1>1 DEF Maps

-------------------------------------------------------------------------------
(* What the functions that extend a node do to what it holds.              *)
LEMMA GrowsTheSame ==
  ASSUME NEW T, Null \notin T, NEW n, NEW f, Holds(T, n, f), n.type # "node256", n.num >= Cap(n.type), n.num <= Cap48
  PROVE  /\ Holds(T, Grow(n), f)
         /\ Grow(n).num = n.num
         /\ Grow(n).type = CASE n.type = "node4" -> "node16"
                             [] n.type = "node16" -> "node48"
                             [] n.type = "node48" -> "node256"
<1>0. f \in Maps(T) /\ IsNode(n)
    BY DEF Holds
<1>1. CASE n.type = "node4"
    <2>1. LinearOf(T, n, f)
        BY <1>1 DEF Holds, SlotsOf, DirectOf
    <2>2. Grow(n) = [type |-> "node16", num |-> n.num, keys |-> n.keys, kids |-> n.kids]
        BY <1>0, <1>1 DEF Grow, IsNode
    <2>3. LinearOf(T, Grow(n), f) /\ IsNode(Grow(n))
        BY <2>1, <2>2 DEF LinearOf, IsNode, Linear
    <2> QED BY <1>0, <1>1, <2>2, <2>3 DEF Holds
<1>2. CASE n.type = "node16"
    <2> DEFINE keys == [c \in Byte |-> IF Positions(n, c) = {} THEN 0 ELSE Max(Positions(n, c))]
    <2>1. LinearOf(T, n, f)
        BY <1>2 DEF Holds, SlotsOf, DirectOf
    <2>2. Grow(n) = [type |-> "node48", num |-> n.num, keys |-> keys, kids |-> CopyKids(n)]
        BY <1>0, <1>2 DEF Grow, IsNode
    <2>3. /\ n.num \in Nat /\ Cap48 \in Nat
          /\ \A i \in 1 .. n.num : n.keys[i] \in Mapped(f) /\ Positions(n, n.keys[i]) = {i}
          /\ \A c \in Byte : c \notin Mapped(f) => Positions(n, c) = {}
        BY <1>0, <2>1, OnePlace, SizesAssumption DEF SizesAssumption
    <2>4. \A c \in Mapped(f) : \E i \in 1 .. n.num : n.keys[i] = c
        BY <2>1 DEF LinearOf
    <2>5. \A i \in 1 .. n.num : keys[n.keys[i]] = i
        <3> SUFFICES ASSUME NEW i \in 1 .. n.num PROVE keys[n.keys[i]] = i
            OBVIOUS
        <3>1. n.keys[i] \in Byte /\ Positions(n, n.keys[i]) = {i} /\ Max({i}) = i
            BY <2>3, MaxOfOne, MappedIsFinite
        <3> QED BY <3>1
    <2>6. \A c \in Byte : c \notin Mapped(f) => keys[c] = 0
        BY <2>3
    <2> HIDE DEF keys
    <2>7. \A i \in 1 .. Cap48 : CopyKids(n)[i] = IF i <= n.num THEN n.kids[i] ELSE Null
        BY DEF CopyKids
    <2>8. \A i \in 1 .. n.num : n.kids[i] \in T /\ n.kids[i] = f[n.keys[i]]
        BY <2>1, ElementOfSeq DEF LinearOf
    <2>9. keys \in [Byte -> 0 .. Cap48]
        <3>1. \A c \in Byte : keys[c] \in 0 .. Cap48
            BY <2>3, <2>4, <2>5, <2>6
        <3> QED BY <3>1 DEF keys
    <2>10. CopyKids(n) \in [1 .. Cap48 -> T \cup {Null}]
        BY <2>3, <2>8 DEF CopyKids
    <2>11. \A c \in Mapped(f) : /\ keys[c] \in 1 .. n.num
                                /\ n.keys[keys[c]] = c
        BY <2>4, <2>5
    <2>12. \A c \in Byte : keys[c] = 0 <=> f[c] = Null
        BY <2>3, <2>6, <2>11 DEF Mapped
    <2>13. \A c \in Mapped(f) : CopyKids(n)[keys[c]] = f[c]
        BY <2>3, <2>7, <2>8, <2>11
    <2>14. \A i \in 1 .. Cap48 : CopyKids(n)[i] # Null => \E c \in Mapped(f) : keys[c] = i
        BY <2>3, <2>5, <2>7
    <2>15. n.num = Cardinality(Mapped(f))
        BY <1>2, Counted
    <2>16. SlotsOf(T, Grow(n), f) /\ IsNode(Grow(n))
        BY <2>2, <2>9, <2>10, <2>11, <2>12, <2>13, <2>14, <2>15 DEF SlotsOf, IsNode
    <2> QED BY <1>0, <1>2, <2>2, <2>16 DEF Holds
<1>3. CASE n.type = "node48"
    <2>1. SlotsOf(T, n, f)
        BY <1>3 DEF Holds, LinearOf, DirectOf, Linear
    <2>2. [c \in Byte |-> FindChild(n, c)] = f
        BY <1>0, Found DEF Maps
    <2>3. Grow(n) = [type |-> "node256", num |-> n.num, keys |-> <<>>, kids |-> f]
        BY <1>0, <1>3, <2>2 DEF Grow, IsNode
    <2>4. n.num % NBytes = n.num
        <3>1. n.num \in Byte
            BY <2>1, MappedIsFinite, SizesAssumption DEF SlotsOf, SizesAssumption, Byte
        <3> QED BY <3>1, Counter
    <2>5. DirectOf(T, Grow(n), f) /\ IsNode(Grow(n))
        BY <2>1, <2>3, <2>4 DEF SlotsOf, DirectOf, IsNode
    <2> QED BY <1>0, <1>3, <2>3, <2>5 DEF Holds
<1> QED BY <1>1, <1>2, <1>3, Counted

(* As long as there is room in a node48 one of its slots is free.          *)
LEMMA SlotIsFree ==
  ASSUME NEW T, Null \notin T, NEW n, NEW f, SlotsOf(T, n, f), n.num < Cap48
  PROVE  Min(FreeSlots(n)) \in 1 .. Cap48 /\ n.kids[Min(FreeSlots(n))] = Null
<1>0. Cap48 \in Nat /\ FreeSlots(n) \subseteq 1 .. Cap48
    BY SizesAssumption DEF SizesAssumption, SlotsOf, FreeSlots
<1>1. FreeSlots(n) # {}
    <2> SUFFICES ASSUME FreeSlots(n) = {} PROVE FALSE
        OBVIOUS
    <2> DEFINE U == Mapped(f)  g == [c \in U |-> n.keys[c]]
    <2>1. \A i \in 1 .. Cap48 : n.kids[i] # Null
        BY DEF FreeSlots, SlotsOf
    <2>2. \A c \in U : n.keys[c] \in 1 .. Cap48
        BY <1>0 DEF SlotsOf, Mapped
    <2>3. g \in Surjection(U, 1 .. Cap48)
        BY <2>1, <2>2 DEF SlotsOf, Surjection
    <2>4. Cardinality(1 .. Cap48) <= Cardinality(U)
        BY <2>3, FS_Surjection, MappedIsFinite
    <2>5. Cardinality(1 .. Cap48) = Cap48
        BY <1>0, FS_Interval
    <2> QED BY <1>0, <2>4, <2>5, MappedIsFinite DEF SlotsOf
<1>2. Min(FreeSlots(n)) \in FreeSlots(n)
    BY <1>0, <1>1, MinInSet
<1> QED BY <1>0, <1>2 DEF FreeSlots

LEMMA AddsDirectly ==
  ASSUME NEW T, Null \notin T, NEW n, NEW f, Holds(T, n, f), NEW c \in Byte, f[c] = Null, NEW x \in T,
         n.type = "node48" => n.num < Cap48
  PROVE  /\ Holds(T, AddDirectly(n, c, x), [f EXCEPT ![c] = x])
         /\ AddDirectly(n, c, x).type = n.type
<1> DEFINE m == AddDirectly(n, c, x)  g == [f EXCEPT ![c] = x]
<1>0. f \in Maps(T) /\ IsNode(n)
    BY DEF Holds
<1>1. /\ g \in Maps(T) /\ Mapped(g) = Mapped(f) \cup {c} /\ c \notin Mapped(f)
      /\ g[c] = x /\ \A b \in Mapped(f) : g[b] = f[b] /\ b # c
      /\ Cardinality(Mapped(g)) = Cardinality(Mapped(f)) + 1
    <2>1. /\ g \in Maps(T) /\ Mapped(g) = Mapped(f) \cup {c}
          /\ Cardinality(Mapped(g)) = Cardinality(Mapped(f)) + 1
        <3>1. f \in Maps(T) /\ x # Null
            BY <1>0
        <3>2. [f EXCEPT ![c] = x] \in Maps(T)
            BY <3>1, OneMore
        <3>3. Mapped([f EXCEPT ![c] = x]) = Mapped(f) \cup {c}
            BY <3>1, OneMore
        <3>4. Cardinality(Mapped([f EXCEPT ![c] = x])) = Cardinality(Mapped(f)) + 1
            BY <3>1, OneMore
        <3> QED BY <3>2, <3>3, <3>4
    <2>2. c \notin Mapped(f) /\ g[c] = x
        BY <1>0 DEF Maps, Mapped
    <2>3. \A b \in Mapped(f) : g[b] = f[b] /\ b # c
        BY <1>0 DEF Maps, Mapped
    <2> QED BY <2>1, <2>2, <2>3
<1> HIDE DEF m, g
<1>2. CASE LinearOf(T, n, f)
    <2>1. /\ n.num \in Nat /\ n.keys \in Seq(Byte) /\ n.kids \in Seq(T)
          /\ Len(n.keys) = n.num /\ Len(n.kids) = n.num /\ n.type \in Linear
          /\ \A i \in 1 .. n.num : n.keys[i] \in Mapped(f)
        BY <1>0, <1>2, OnePlace DEF LinearOf
    <2>2. Place(n, c) \in 1 .. n.num + 1
        <3> DEFINE greater == {i \in 1 .. n.num : IF n.type = "node4" THEN c < n.keys[i]
                                                  ELSE Signed(c) < Signed(n.keys[i])}
        <3>1. {n.num + 1} \cup greater \in SUBSET (1 .. n.num + 1)
            BY <2>1
        <3>2. Place(n, c) = Min({n.num + 1} \cup greater)
            BY DEF Place
        <3> HIDE DEF greater
        <3>3. 1 .. n.num + 1 \subseteq Nat
            BY <2>1
        <3> QED BY <3>1, <3>2, <3>3, MinInSet
    <2>3. PICK s \in Seq(Byte), t \in Seq(T) : s = n.keys /\ t = n.kids
        BY <2>1
    <2>4. PICK k \in Nat : k = n.num /\ Len(s) = k /\ Len(t) = k
        BY <2>1, <2>3
    <2>5. PICK p \in 1 .. k + 1 : p = Place(n, c)
        BY <2>2, <2>4
    <2> DEFINE keys == InsertAt(s, p, c)  kids == InsertAt(t, p, x)
    <2>6. /\ \A i, j \in 1 .. k : s[i] = s[j] => i = j
          /\ \A i \in 1 .. k : s[i] # c /\ t[i] = g[s[i]]
        <3>1. /\ \A i, j \in 1 .. k : s[i] = s[j] => i = j
              /\ \A i \in 1 .. k : t[i] = f[s[i]]
            BY <1>2, <2>3, <2>4 DEF LinearOf
        <3>2. \A i \in 1 .. k : s[i] \in Mapped(f)
            BY <2>1, <2>3, <2>4
        <3> QED BY <1>1, <3>1, <3>2
    <2>7. /\ keys \in Seq(Byte) /\ Len(keys) = k + 1
          /\ \A j \in 1 .. k + 1 : keys[j] = IF j < p THEN s[j] ELSE IF j = p THEN c ELSE s[j - 1]
        <3>1. p \in 1 .. Len(s) + 1
            BY <2>4
        <3>2. /\ InsertAt(s, p, c) \in Seq(Byte)
              /\ Len(InsertAt(s, p, c)) = Len(s) + 1
              /\ \A j \in 1 .. Len(s) + 1 :
                   InsertAt(s, p, c)[j] = IF j < p THEN s[j] ELSE IF j = p THEN c ELSE s[j - 1]
            BY <3>1, Inserted
        <3> QED BY <2>4, <3>2
    <2>8. /\ kids \in Seq(T) /\ Len(kids) = k + 1
          /\ \A j \in 1 .. k + 1 : kids[j] = IF j < p THEN t[j] ELSE IF j = p THEN x ELSE t[j - 1]
        <3>1. p \in 1 .. Len(t) + 1
            BY <2>4
        <3>2. /\ InsertAt(t, p, x) \in Seq(T)
              /\ Len(InsertAt(t, p, x)) = Len(t) + 1
              /\ \A j \in 1 .. Len(t) + 1 :
                   InsertAt(t, p, x)[j] = IF j < p THEN t[j] ELSE IF j = p THEN x ELSE t[j - 1]
            BY <3>1, Inserted
        <3> QED BY <2>4, <3>2
    <2>9. m = [type |-> n.type, num |-> k + 1, keys |-> keys, kids |-> kids]
        BY <1>0, <2>1, <2>3, <2>4, <2>5 DEF AddDirectly, AddLinear, IsNode, m, Linear
    <2> HIDE DEF keys, kids
    <2>10. \A i, j \in 1 .. k + 1 : keys[i] = keys[j] => i = j
        <3> SUFFICES ASSUME NEW i \in 1 .. k + 1, NEW j \in 1 .. k + 1, keys[i] = keys[j]
                     PROVE  i = j
            OBVIOUS
        <3>1. CASE i = p \/ j = p
            <4>1. \A h \in 1 .. k + 1 : h # p => keys[h] # c
                <5>1. \A h \in 1 .. k : s[h] # c
                    BY <2>6
                <5>2. ASSUME NEW h \in 1 .. k + 1, h # p PROVE keys[h] # c
                    <6>1. CASE h < p
                        BY <2>7, <5>1, <6>1
                    <6>2. CASE ~(h < p)
                        <7>1. h - 1 \in 1 .. k /\ keys[h] = s[h - 1]
                            BY <2>7, <5>2, <6>2
                        <7> QED BY <5>1, <7>1
                    <6> QED BY <6>1, <6>2
                <5> QED BY <5>2
            <4>2. keys[p] = c
                BY <2>7
            <4> QED BY <3>1, <4>1, <4>2
        <3>2. CASE i # p /\ j # p
            <4>1. PICK u \in 1 .. k : u = (IF i < p THEN i ELSE i - 1) /\ keys[i] = s[u]
                BY <2>7, <3>2
            <4>2. PICK v \in 1 .. k : v = (IF j < p THEN j ELSE j - 1) /\ keys[j] = s[v]
                BY <2>7, <3>2
            <4>3. s[u] = s[v]
                BY <4>1, <4>2
            <4>4. u = v
                BY <2>6, <4>3
            <4> QED BY <3>2, <4>1, <4>2, <4>4
        <3> QED BY <3>1, <3>2
    <2>11. ASSUME NEW b \in Mapped(g) PROVE \E j \in 1 .. k + 1 : keys[j] = b
        <3>1. CASE b = c
            <4>1. keys[p] = c
                BY <2>7
            <4> QED BY <3>1, <4>1
        <3>2. CASE b # c
            <4>1. PICK i \in 1 .. k : s[i] = b
                BY <1>1, <1>2, <2>3, <2>4, <3>2 DEF LinearOf
            <4>2. CASE i < p
                BY <2>7, <4>1, <4>2
            <4>3. CASE ~(i < p)
                <5>1. i + 1 \in 1 .. k + 1 /\ ~(i + 1 < p) /\ i + 1 # p /\ (i + 1) - 1 = i
                    BY <4>3
                <5>2. keys[i + 1] = s[i]
                    BY <2>7, <5>1
                <5> QED BY <4>1, <5>1, <5>2
            <4> QED BY <4>2, <4>3
        <3> QED BY <3>1, <3>2
    <2>12. ASSUME NEW j \in 1 .. k + 1 PROVE kids[j] = g[keys[j]]
        <3>1. CASE j = p
            BY <1>1, <2>7, <2>8, <3>1
        <3>2. CASE j # p
            <4> DEFINE u == IF j < p THEN j ELSE j - 1
            <4>1. u \in 1 .. k /\ keys[j] = s[u] /\ kids[j] = t[u]
                BY <2>7, <2>8, <3>2
            <4> QED BY <2>6, <4>1
        <3> QED BY <3>1, <3>2
    <2>13. LinearOf(T, m, g) /\ IsNode(m)
        <3>1. m.type = n.type /\ m.num = k + 1 /\ m.keys = keys /\ m.kids = kids
            BY <2>9
        <3> QED BY <2>1, <2>7, <2>8, <2>9, <2>10, <2>11, <2>12, <3>1 DEF LinearOf, IsNode
    <2> QED BY <1>1, <2>9, <2>13 DEF Holds, m, g
<1>3. CASE SlotsOf(T, n, f)
    <2> DEFINE s == Min(FreeSlots(n))
    <2>0. n.type = "node48" /\ n.num < Cap48
        BY <1>3 DEF SlotsOf
    <2>1. s \in 1 .. Cap48 /\ n.kids[s] = Null /\ n.type = "node48" /\ Cap48 \in Nat
        BY <1>3, <2>0, SlotIsFree, SizesAssumption DEF SizesAssumption
    <2>2. m = [type |-> "node48", num |-> n.num + 1, keys |-> [n.keys EXCEPT ![c] = s],
               kids |-> [n.kids EXCEPT ![s] = x]]
        BY <1>0, <2>1 DEF AddDirectly, AddSlot, IsNode, Linear, m
    <2> HIDE DEF s
    <2>3. \A b \in Mapped(f) : n.keys[b] # s /\ n.keys[b] \in 1 .. Cap48
        BY <1>3, <2>1 DEF SlotsOf, Mapped
    <2>4. /\ m.keys \in [Byte -> 0 .. Cap48] /\ m.kids \in [1 .. Cap48 -> T \cup {Null}]
          /\ m.keys[c] = s /\ m.kids[s] = x /\ \A b \in Mapped(f) : m.keys[b] = n.keys[b]
          /\ \A i \in 1 .. Cap48 : i # s => m.kids[i] = n.kids[i]
        BY <1>1, <1>3, <2>1, <2>2 DEF SlotsOf, Mapped
    <2>5. \A b \in Byte : m.keys[b] = 0 <=> g[b] = Null
        BY <1>0, <1>3, <2>1, <2>2 DEF SlotsOf, Maps, g
    <2>6. \A b \in Mapped(g) : m.kids[m.keys[b]] = g[b]
        BY <1>1, <1>3, <2>3, <2>4 DEF SlotsOf
    <2>7. \A a, b \in Mapped(g) : m.keys[a] = m.keys[b] => a = b
        BY <1>1, <1>3, <2>3, <2>4 DEF SlotsOf
    <2>8. \A i \in 1 .. Cap48 : m.kids[i] # Null => \E b \in Mapped(g) : m.keys[b] = i
        BY <1>1, <1>3, <2>4 DEF SlotsOf
    <2>9. m.num = Cardinality(Mapped(g)) /\ m.type = "node48" /\ IsNode(m)
        BY <1>1, <1>3, <2>2 DEF SlotsOf, IsNode
    <2>10. SlotsOf(T, m, g)
        BY <2>4, <2>5, <2>6, <2>7, <2>8, <2>9 DEF SlotsOf
    <2> QED BY <1>1, <2>1, <2>9, <2>10 DEF Holds, m, g
<1>4. CASE DirectOf(T, n, f)
    <2>1. m = [type |-> "node256", num |-> (n.num + 1) % NBytes, keys |-> <<>>, kids |-> g]
        BY <1>0, <1>4 DEF DirectOf, AddDirectly, AddDirect, IsNode, Linear, m, g
    <2>2. Cardinality(Mapped(f)) \in Byte
        <3>1. Cardinality(Mapped(g)) \in 0 .. NBytes /\ Cardinality(Mapped(f)) \in 0 .. NBytes
            BY MappedIsFinite
        <3> QED BY <1>1, <3>1, SizesAssumption DEF SizesAssumption, Byte
    <2>3. n.num = Cardinality(Mapped(f))
        BY <1>4, <2>2, Counter DEF DirectOf
    <2>4. DirectOf(T, m, g) /\ IsNode(m)
        BY <1>1, <2>1, <2>3 DEF DirectOf, IsNode
    <2> QED BY <1>1, <1>4, <2>1, <2>4 DEF Holds, DirectOf, m, g
<1> QED BY <1>2, <1>3, <1>4 DEF Holds

-------------------------------------------------------------------------------
(* What the functions that reduce a node do to what it holds.              *)
LEMMA RemovesDirectly ==
  ASSUME NEW T, Null \notin T, NEW n, NEW f, Holds(T, n, f), NEW c \in Byte, f[c] # Null
  PROVE  /\ Holds(T, RemoveDirectly(n, c), [f EXCEPT ![c] = Null])
         /\ RemoveDirectly(n, c).type = n.type
<1> DEFINE m == RemoveDirectly(n, c)  g == [f EXCEPT ![c] = Null]
<1>0. f \in Maps(T) /\ IsNode(n) /\ c \in Mapped(f)
    BY DEF Holds, Mapped
<1>1. /\ g \in Maps(T) /\ Mapped(g) = Mapped(f) \ {c}
      /\ g[c] = Null /\ \A b \in Byte : b # c => g[b] = f[b]
      /\ Cardinality(Mapped(g)) = Cardinality(Mapped(f)) - 1
    BY <1>0, OneLess DEF Maps
<1> HIDE DEF m, g
<1>2. CASE LinearOf(T, n, f)
    <2>1. /\ n.num \in Nat /\ n.keys \in Seq(Byte) /\ n.kids \in Seq(T)
          /\ Len(n.keys) = n.num /\ Len(n.kids) = n.num /\ n.type \in Linear
          /\ \A i \in 1 .. n.num : n.keys[i] \in Mapped(f) /\ Positions(n, n.keys[i]) = {i}
        <3>1. f \in Maps(T)
            BY <1>0
        <3>2. n.num \in Nat
            BY <1>2, <3>1, OnePlace
        <3>3. \A i \in 1 .. n.num : n.keys[i] \in Mapped(f) /\ Positions(n, n.keys[i]) = {i}
            BY <1>2, <3>1, OnePlace
        <3> QED BY <1>2, <3>2, <3>3 DEF LinearOf
    <2>3. PICK s \in Seq(Byte), t \in Seq(T) : s = n.keys /\ t = n.kids
        BY <2>1
    <2>4. PICK k \in Nat : k = n.num /\ Len(s) = k /\ Len(t) = k
        BY <2>1, <2>3
    <2>5. PICK p \in 1 .. k : s[p] = c
        BY <1>0, <1>2, <2>3, <2>4 DEF LinearOf
    <2>6. Min(Positions(n, c)) = p
        <3>1. Positions(n, c) = {p}
            BY <2>1, <2>3, <2>4, <2>5
        <3> QED BY <3>1, MinOfOne
    <2> DEFINE keys == RemoveAt(s, p)  kids == RemoveAt(t, p)
    <2>7. /\ keys \in Seq(Byte) /\ Len(keys) = k - 1
          /\ \A j \in 1 .. k - 1 : keys[j] = IF j < p THEN s[j] ELSE s[j + 1]
        <3>1. p \in 1 .. Len(s)
            BY <2>4
        <3>2. /\ RemoveAt(s, p) \in Seq(Byte)
              /\ Len(RemoveAt(s, p)) = Len(s) - 1
              /\ \A j \in 1 .. Len(s) - 1 :
                   RemoveAt(s, p)[j] = IF j < p THEN s[j] ELSE s[j + 1]
            BY <3>1, Removed
        <3> QED BY <2>4, <3>2
    <2>8. /\ kids \in Seq(T) /\ Len(kids) = k - 1
          /\ \A j \in 1 .. k - 1 : kids[j] = IF j < p THEN t[j] ELSE t[j + 1]
        <3>1. p \in 1 .. Len(t)
            BY <2>4
        <3>2. /\ RemoveAt(t, p) \in Seq(T)
              /\ Len(RemoveAt(t, p)) = Len(t) - 1
              /\ \A j \in 1 .. Len(t) - 1 :
                   RemoveAt(t, p)[j] = IF j < p THEN t[j] ELSE t[j + 1]
            BY <3>1, Removed
        <3> QED BY <2>4, <3>2
    <2>9. m = [type |-> n.type, num |-> k - 1, keys |-> keys, kids |-> kids]
        BY <1>0, <2>1, <2>3, <2>4, <2>6 DEF RemoveDirectly, IsNode, m, Linear
    <2> HIDE DEF keys, kids
    <2>10. /\ \A i, j \in 1 .. k : s[i] = s[j] => i = j
           /\ \A i \in 1 .. k : s[i] \in Byte /\ t[i] = f[s[i]]
        <3>1. /\ \A i, j \in 1 .. k : s[i] = s[j] => i = j
              /\ \A i \in 1 .. k : t[i] = f[s[i]]
            BY <1>2, <2>3, <2>4 DEF LinearOf
        <3>2. \A i \in 1 .. k : s[i] \in Byte
            BY <2>4, ElementOfSeq
        <3> QED BY <3>1, <3>2
    <2>11. ASSUME NEW j \in 1 .. k - 1
           PROVE  LET u == IF j < p THEN j ELSE j + 1
                  IN  u \in 1 .. k /\ u # p /\ keys[j] = s[u] /\ kids[j] = t[u]
        <3>1. CASE j < p
            BY <2>7, <2>8, <3>1
        <3>2. CASE ~(j < p)
            BY <2>7, <2>8, <3>2
        <3> QED BY <3>1, <3>2
    <2>12. \A i, j \in 1 .. k - 1 : keys[i] = keys[j] => i = j
        <3> SUFFICES ASSUME NEW i \in 1 .. k - 1, NEW j \in 1 .. k - 1, keys[i] = keys[j]
                     PROVE  i = j
            OBVIOUS
        <3>1. PICK u \in 1 .. k : u = (IF i < p THEN i ELSE i + 1) /\ keys[i] = s[u]
            BY <2>11
        <3>2. PICK v \in 1 .. k : v = (IF j < p THEN j ELSE j + 1) /\ keys[j] = s[v]
            BY <2>11
        <3>3. s[u] = s[v]
            BY <3>1, <3>2
        <3>4. u = v
            BY <2>10, <3>3
        <3> QED BY <3>1, <3>2, <3>4
    <2>13. ASSUME NEW b \in Mapped(g) PROVE \E j \in 1 .. k - 1 : keys[j] = b
        <3>1. PICK i \in 1 .. k : s[i] = b
            BY <1>1, <1>2, <2>3, <2>4 DEF LinearOf
        <3>2. i # p
            BY <1>1, <2>5, <3>1
        <3>3. CASE i < p
            BY <2>7, <3>1, <3>3
        <3>4. CASE ~(i < p)
            <4>1. i - 1 \in 1 .. k - 1 /\ ~(i - 1 < p) /\ (i - 1) + 1 = i
                BY <3>2, <3>4
            <4>2. keys[i - 1] = s[i]
                BY <2>7, <4>1
            <4> QED BY <3>1, <4>1, <4>2
        <3> QED BY <3>3, <3>4
    <2>14. ASSUME NEW j \in 1 .. k - 1 PROVE kids[j] = g[keys[j]]
        <3> DEFINE u == IF j < p THEN j ELSE j + 1
        <3>1. u \in 1 .. k /\ u # p /\ keys[j] = s[u] /\ kids[j] = t[u]
            BY <2>11
        <3>2. s[u] # c /\ s[u] \in Byte /\ t[u] = f[s[u]]
            BY <2>5, <2>10, <3>1
        <3> QED BY <1>1, <3>1, <3>2
    <2>15. LinearOf(T, m, g) /\ IsNode(m)
        <3>1. m.type = n.type /\ m.num = k - 1 /\ m.keys = keys /\ m.kids = kids
            BY <2>9
        <3> QED BY <2>1, <2>7, <2>8, <2>9, <2>12, <2>13, <2>14, <3>1 DEF LinearOf, IsNode
    <2> QED BY <1>1, <2>9, <2>15 DEF Holds, m, g
<1>3. CASE SlotsOf(T, n, f)
    <2>1. PICK s \in 1 .. Cap48 : s = n.keys[c]
        BY <1>0, <1>3 DEF SlotsOf, Mapped
    <2>2. m = [type |-> "node48", num |-> n.num - 1, keys |-> [n.keys EXCEPT ![c] = 0],
               kids |-> [n.kids EXCEPT ![s] = Null]]
        BY <1>0, <1>3, <2>1 DEF RemoveDirectly, IsNode, SlotsOf, m, Linear
    <2>3. \A b \in Mapped(g) : b \in Mapped(f) /\ b # c /\ n.keys[b] # s /\ n.keys[b] \in 1 .. Cap48
        BY <1>0, <1>1, <1>3, <2>1 DEF SlotsOf, Mapped
    <2>4. /\ m.keys \in [Byte -> 0 .. Cap48] /\ m.kids \in [1 .. Cap48 -> T \cup {Null}]
          /\ m.keys[c] = 0 /\ m.kids[s] = Null /\ \A b \in Byte : b # c => m.keys[b] = n.keys[b]
          /\ \A i \in 1 .. Cap48 : i # s => m.kids[i] = n.kids[i]
        <3>1. 0 \in 0 .. Cap48
            BY SizesAssumption DEF SizesAssumption
        <3> QED BY <1>1, <1>3, <2>1, <2>2, <3>1 DEF SlotsOf
    <2>5. \A b \in Byte : m.keys[b] = 0 <=> g[b] = Null
        BY <1>1, <1>3, <2>4 DEF SlotsOf
    <2>6. \A b \in Mapped(g) : m.keys[b] = n.keys[b] /\ m.kids[m.keys[b]] = g[b]
        BY <1>1, <1>3, <2>3, <2>4 DEF SlotsOf, Mapped
    <2>7. \A a, b \in Mapped(g) : m.keys[a] = m.keys[b] => a = b
        BY <1>3, <2>3, <2>6 DEF SlotsOf
    <2>8. \A i \in 1 .. Cap48 : m.kids[i] # Null => \E b \in Mapped(g) : m.keys[b] = i
        <3> SUFFICES ASSUME NEW i \in 1 .. Cap48, m.kids[i] # Null
                     PROVE  \E b \in Mapped(g) : m.keys[b] = i
            OBVIOUS
        <3>1. PICK b \in Mapped(f) : n.keys[b] = i /\ i # s
            BY <1>3, <2>4 DEF SlotsOf
        <3> QED BY <1>1, <2>1, <2>6, <3>1
    <2>9. m.num = Cardinality(Mapped(g)) /\ m.type = "node48" /\ IsNode(m)
        BY <1>1, <1>3, <2>2 DEF SlotsOf, IsNode
    <2>10. SlotsOf(T, m, g)
        BY <2>4, <2>5, <2>6, <2>7, <2>8, <2>9 DEF SlotsOf
    <2> QED BY <1>1, <1>3, <2>9, <2>10 DEF Holds, SlotsOf, m, g
<1>4. CASE DirectOf(T, n, f)
    <2> DEFINE k == Cardinality(Mapped(f))
    <2>1. m = [type |-> "node256", num |-> (n.num - 1) % NBytes, keys |-> <<>>, kids |-> g]
        BY <1>0, <1>4 DEF DirectOf, RemoveDirectly, IsNode, m, g, Linear
    <2>2. k \in 1 .. NBytes /\ NBytes \in Nat
        <3>1. Cardinality(Mapped(g)) \in 0 .. NBytes /\ Cardinality(Mapped(f)) \in 0 .. NBytes
            BY MappedIsFinite
        <3> QED BY <1>1, <3>1, SizesAssumption DEF SizesAssumption
    <2>3. (n.num - 1) % NBytes = (k - 1) % NBytes
        <3>1. CASE k = NBytes
            <4>1. n.num = 0 /\ k - 1 = NBytes - 1 /\ k - 1 \in Byte
                BY <1>4, <2>2, <3>1, Counter DEF DirectOf, Byte
            <4> QED BY <4>1, Counter
        <3>2. CASE k # NBytes
            <4>1. k \in Byte
                BY <2>2, <3>2 DEF Byte
            <4>2. n.num = k
                BY <1>4, <4>1, Counter DEF DirectOf
            <4> QED BY <4>2
        <3> QED BY <3>1, <3>2
    <2>4. DirectOf(T, m, g) /\ IsNode(m)
        BY <1>1, <2>1, <2>3 DEF DirectOf, IsNode
    <2> QED BY <1>1, <1>4, <2>1, <2>4 DEF Holds, DirectOf, m, g
<1> QED BY <1>2, <1>3, <1>4 DEF Holds

(* A smaller layout is reached with exactly the number of children that    *)
(* its shrinking test compares the counter with.                           *)
LEMMA ShrinksTheSame ==
  ASSUME NEW T, Null \notin T, NEW n, NEW f, Holds(T, n, f), n.type # "node4", n.num = Low(n.type)
  PROVE  /\ Holds(T, Shrink(n), f)
         /\ Cardinality(Mapped(f)) = Low(n.type)
         /\ Shrink(n).type = CASE n.type = "node16" -> "node4"
                               [] n.type = "node48" -> "node16"
                               [] n.type = "node256" -> "node48"
<1> DEFINE U == Mapped(f)
<1>0. f \in Maps(T) /\ IsNode(n)
    BY DEF Holds
<1>1. PICK k \in Nat : k = Cardinality(U) /\ k <= NBytes
    BY MappedIsFinite, SizesAssumption DEF SizesAssumption
<1>2. Used(n) = U /\ U \subseteq Byte /\ \A c \in Byte : FindChild(n, c) = f[c]
    BY Found, MappedIsFinite
<1>3. PICK bytes \in [1 .. k -> U] :
           /\ bytes = InByteOrder(n)
           /\ \A c \in U : Rank(n, c) \in 1 .. k /\ bytes[Rank(n, c)] = c
           /\ \A i \in 1 .. k : Rank(n, bytes[i]) = i
    BY <1>1, <1>2, ByteOrder
<1> DEFINE kids == [i \in 1 .. k |-> f[bytes[i]]]
<1>4. /\ kids = [i \in DOMAIN bytes |-> FindChild(n, bytes[i])]
      /\ kids = [i \in DOMAIN InByteOrder(n) |-> FindChild(n, InByteOrder(n)[i])]
    BY <1>2, <1>3
<1>5. \A i \in 1 .. k : bytes[i] \in U /\ bytes[i] \in Byte /\ f[bytes[i]] \in T
    BY <1>0, <1>3 DEF Maps, Mapped
<1>6. CASE n.type = "node16"
    <2>1. LinearOf(T, n, f)
        BY <1>6 DEF Holds, SlotsOf, DirectOf
    <2>2. Shrink(n) = [type |-> "node4", num |-> n.num, keys |-> n.keys, kids |-> n.kids]
        BY <1>0, <1>6 DEF Shrink, IsNode
    <2>3. LinearOf(T, Shrink(n), f) /\ IsNode(Shrink(n))
        BY <2>1, <2>2 DEF LinearOf, IsNode, Linear
    <2>4. Cardinality(Mapped(f)) = Low(n.type)
        BY <1>6, Counted
    <2> QED BY <1>0, <1>6, <2>2, <2>3, <2>4 DEF Holds
<1>7. CASE n.type = "node48"
    <2>1. k = n.num
        BY <1>1, <1>7, Counted
    <2> HIDE DEF kids
    <2>2. Shrink(n) = [type |-> "node16", num |-> k, keys |-> bytes, kids |-> kids]
        BY <1>0, <1>3, <1>4, <1>7, <2>1 DEF Shrink, IsNode
    <2>3. bytes \in Seq(Byte) /\ Len(bytes) = k
        BY <1>3, <1>5
    <2>4. kids \in Seq(T) /\ Len(kids) = k
        BY <1>5 DEF kids
    <2>5. \A i, j \in 1 .. k : bytes[i] = bytes[j] => i = j
        BY <1>3
    <2>6. \A c \in U : \E i \in 1 .. k : bytes[i] = c
        BY <1>3
    <2>7. \A i \in 1 .. k : kids[i] = f[bytes[i]]
        BY DEF kids
    <2>8. LinearOf(T, Shrink(n), f) /\ IsNode(Shrink(n))
        BY <2>2, <2>3, <2>4, <2>5, <2>6, <2>7 DEF LinearOf, IsNode, Linear
    <2> QED BY <1>0, <1>1, <1>7, <2>1, <2>2, <2>8 DEF Holds
<1>8. CASE n.type = "node256"
    <2> DEFINE keys == [c \in Byte |-> IF n.kids[c] = Null THEN 0 ELSE Rank(n, c)]
               slots == [i \in 1 .. Cap48 |-> IF i <= n.num THEN kids[i] ELSE Null]
    <2>1. DirectOf(T, n, f)
        BY <1>8 DEF Holds, SlotsOf, LinearOf, Linear
    <2>2. /\ Low256 \in Nat /\ Cap48 \in Nat /\ NBytes \in Nat
          /\ 0 < Low256 /\ Low256 < Cap48 /\ Low256 < NBytes
        BY SizesAssumption DEF SizesAssumption
    <2>3. n.num = Low256
        BY <1>8 DEF Low
    <2>4. k = Low256 /\ k <= Cap48
        <3>1. CASE k = NBytes
            BY <1>1, <2>1, <2>2, <2>3, <3>1, Counter DEF DirectOf
        <3>2. CASE k # NBytes
            <4>1. k \in Byte
                BY <1>1, <2>2, <3>2 DEF Byte
            <4> QED BY <1>1, <2>1, <2>2, <2>3, <4>1, Counter DEF DirectOf
        <3> QED BY <3>1, <3>2
    <2> HIDE DEF kids
    <2>5. Shrink(n) = [type |-> "node48", num |-> k, keys |-> keys, kids |-> slots]
        BY <1>0, <1>4, <1>8, <2>3, <2>4 DEF Shrink, IsNode
    <2>6. \A c \in Byte : keys[c] = IF f[c] = Null THEN 0 ELSE Rank(n, c)
        BY <2>1 DEF DirectOf
    <2>7. \A i \in 1 .. Cap48 : slots[i] = IF i <= k THEN f[bytes[i]] ELSE Null
        BY <2>3, <2>4 DEF kids
    <2>8. slots \in [1 .. Cap48 -> T \cup {Null}]
        <3>1. \A i \in 1 .. Cap48 : slots[i] \in T \cup {Null}
            BY <1>5, <2>2, <2>7
        <3> QED BY <3>1
    <2>9. keys \in [Byte -> 0 .. Cap48]
        <3>1. \A c \in Byte : keys[c] \in 0 .. Cap48
            BY <1>3, <2>2, <2>4, <2>6 DEF Mapped
        <3> QED BY <3>1
    <2> HIDE DEF keys, slots
    <2>10. \A c \in U : keys[c] = Rank(n, c) /\ keys[c] \in 1 .. k
        BY <1>3, <2>6 DEF Mapped
    <2>11. \A c \in Byte : keys[c] = 0 <=> f[c] = Null
        BY <2>6, <2>10 DEF Mapped
    <2>12. \A c \in U : slots[keys[c]] = f[c]
        BY <1>3, <2>2, <2>4, <2>7, <2>10
    <2>13. \A b, c \in U : keys[b] = keys[c] => b = c
        BY <1>3, <2>10
    <2>14. \A i \in 1 .. Cap48 : slots[i] # Null => \E c \in U : keys[c] = i
        <3> SUFFICES ASSUME NEW i \in 1 .. Cap48, slots[i] # Null PROVE \E c \in U : keys[c] = i
            OBVIOUS
        <3>1. i \in 1 .. k
            BY <2>2, <2>7
        <3>2. bytes[i] \in U /\ keys[bytes[i]] = i
            BY <1>3, <2>10, <3>1
        <3> QED BY <3>2
    <2>15. SlotsOf(T, Shrink(n), f) /\ IsNode(Shrink(n))
        BY <1>1, <2>5, <2>8, <2>9, <2>11, <2>12, <2>13, <2>14 DEF SlotsOf, IsNode
    <2> QED BY <1>0, <1>1, <1>8, <2>3, <2>4, <2>5, <2>15 DEF Holds
<1> QED BY <1>6, <1>7, <1>8, Counted

-------------------------------------------------------------------------------
(* How many children each layout is used for.                              *)
Occupied(type, k) ==
  \/ type = "node4" /\ k \in 1 .. Cap4
  \/ type = "node16" /\ k \in Low16 + 1 .. Cap16
  \/ type = "node48" /\ k \in Low48 + 1 .. Cap48
  \/ type = "node256" /\ k \in Low256 + 1 .. NBytes

(* An insert, into a node that may have just been made.                    *)
LEMMA Extended ==
  ASSUME NEW T, Null \notin T, NEW n, NEW f, Holds(T, n, f), NEW c \in Byte, f[c] = Null, NEW x \in T,
         NEW g, g = [f EXCEPT ![c] = x], NEW m, m = AddChild(n, c, x),
         Occupied(n.type, Cardinality(Mapped(f))) \/ (n.type = "node4" /\ Cardinality(Mapped(f)) = 0)
  PROVE  /\ Holds(T, m, g)
         /\ Cardinality(Mapped(g)) = Cardinality(Mapped(f)) + 1
         /\ Occupied(m.type, Cardinality(Mapped(g)))
         /\ m.type # n.type => Cardinality(Mapped(f)) > Low(m.type)
<1>1. PICK k \in Nat : k = Cardinality(Mapped(f)) /\ k + 1 = Cardinality(Mapped(g)) /\ k + 1 <= NBytes
    <2>1. f \in Maps(T) /\ Cardinality(Mapped(f)) \in Nat /\ Cardinality(Mapped(g)) \in 0 .. NBytes
        BY MappedIsFinite, SizesAssumption DEF Holds, SizesAssumption
    <2>2. Cardinality(Mapped(g)) = Cardinality(Mapped(f)) + 1
        <3>1. f \in Maps(T) /\ x # Null
            BY <2>1
        <3>2. Mapped(g) = Mapped(f) \cup {c} /\ c \notin Mapped(f)
            BY <3>1 DEF Maps, Mapped
        <3> QED BY <3>2, MappedIsFinite, FS_AddElement
    <2> QED BY <2>1, <2>2, SizesAssumption DEF SizesAssumption
<1>2. /\ n.type \in {"node4", "node16", "node48", "node256"}
      /\ n.type # "node256" => n.num = k
    BY <1>1, Counted
<1>3. /\ {NBytes, Cap4, Cap16, Cap48, Low16, Low48, Low256} \subseteq Nat
      /\ 1 < Low16 /\ Low16 < Low48 /\ Low48 < Low256
      /\ Low16 < Cap4 /\ Low48 < Cap16 /\ Low256 < Cap48
      /\ Cap4 < Cap16 /\ Cap16 < Cap48 /\ Cap48 < NBytes
    BY SizesAssumption DEF SizesAssumption
<1>4. Occupied(n.type, k) \/ (n.type = "node4" /\ k = 0)
    BY <1>1
<1>5. CASE n.type # "node256" /\ n.num >= Cap(n.type)
    <2>1. k <= Cap48
        BY <1>2, <1>3, <1>4, <1>5 DEF Occupied
    <2>2. /\ Holds(T, Grow(n), f) /\ Grow(n).num = n.num
          /\ Grow(n).type = CASE n.type = "node4" -> "node16"
                              [] n.type = "node16" -> "node48"
                              [] n.type = "node48" -> "node256"
        BY <1>2, <1>5, <2>1, GrowsTheSame
    <2>3. m = AddDirectly(Grow(n), c, x)
        BY <1>5 DEF AddChild
    <2>4. Grow(n).type = "node48" => Grow(n).num < Cap48
        BY <1>2, <1>3, <1>4, <1>5, <2>2 DEF Occupied
    <2>5. Holds(T, m, g) /\ m.type = Grow(n).type
        <3>1. /\ Holds(T, AddDirectly(Grow(n), c, x), [f EXCEPT ![c] = x])
              /\ AddDirectly(Grow(n), c, x).type = Grow(n).type
            BY <2>2, <2>4, AddsDirectly
        <3> QED BY <2>3, <3>1
    <2>6. n.type = "node4" => m.type = "node16" /\ k = Cap4
        BY <1>2, <1>3, <1>4, <1>5, <2>2, <2>5 DEF Occupied, Cap
    <2>7. n.type = "node16" => m.type = "node48" /\ k = Cap16
        BY <1>2, <1>3, <1>4, <1>5, <2>2, <2>5 DEF Occupied, Cap
    <2>8. n.type = "node48" => m.type = "node256" /\ k = Cap48
        BY <1>2, <1>3, <1>4, <1>5, <2>2, <2>5 DEF Occupied, Cap
    <2>9. Occupied(m.type, k + 1) /\ k > Low(m.type)
        BY <1>1, <1>2, <1>3, <1>5, <2>6, <2>7, <2>8 DEF Occupied, Low
    <2> QED BY <1>1, <2>5, <2>9
<1>6. CASE ~(n.type # "node256" /\ n.num >= Cap(n.type))
    <2>1. m = AddDirectly(n, c, x)
        BY <1>6 DEF AddChild
    <2>2. n.type = "node48" => n.num < Cap48
        BY <1>2, <1>3, <1>6 DEF Cap
    <2>3. Holds(T, m, g) /\ m.type = n.type
        <3>1. /\ Holds(T, AddDirectly(n, c, x), [f EXCEPT ![c] = x])
              /\ AddDirectly(n, c, x).type = n.type
            BY <2>2, AddsDirectly
        <3> QED BY <2>1, <3>1
    <2>4. Occupied(m.type, k + 1)
        BY <1>1, <1>2, <1>3, <1>4, <1>6, <2>3 DEF Occupied, Cap
    <2> QED BY <1>1, <2>3, <2>4
<1> QED BY <1>5, <1>6

LEMMA Reduced ==
  ASSUME NEW T, Null \notin T, NEW n, NEW f, Holds(T, n, f), NEW c \in Byte, f[c] # Null,
         NEW g, g = [f EXCEPT ![c] = Null], NEW m, m = RemoveChild(n, c),
         Occupied(n.type, Cardinality(Mapped(f))), ~GivesWay(n)
  PROVE  /\ Holds(T, m, g)
         /\ Cardinality(Mapped(g)) = Cardinality(Mapped(f)) - 1
         /\ Occupied(m.type, Cardinality(Mapped(g)))
         /\ m.type # n.type => Cardinality(Mapped(g)) < Cap(m.type)
<1> DEFINE d == RemoveDirectly(n, c)
<1>1. PICK k \in Nat : k + 1 = Cardinality(Mapped(f)) /\ k = Cardinality(Mapped(g)) /\ k + 1 <= NBytes
    <2>1. f \in Maps(T) /\ c \in Mapped(f) /\ Cardinality(Mapped(f)) \in 0 .. NBytes
          /\ Cardinality(Mapped(g)) \in Nat
        <3>1. f \in Maps(T) /\ c \in Mapped(f)
            BY DEF Holds, Mapped
        <3>2. Cardinality(Mapped(f)) \in 0 .. NBytes /\ Cardinality(Mapped(g)) \in 0 .. NBytes
            BY MappedIsFinite
        <3> QED BY <3>1, <3>2
    <2>2. Cardinality(Mapped(g)) = Cardinality(Mapped(f)) - 1
        BY <2>1, OneLess
    <2> QED BY <2>1, <2>2, SizesAssumption DEF SizesAssumption
<1>2. Holds(T, d, g) /\ d.type = n.type
    <2>1. Holds(T, RemoveDirectly(n, c), [f EXCEPT ![c] = Null])
        BY RemovesDirectly
    <2>2. RemoveDirectly(n, c).type = n.type
        BY RemovesDirectly
    <2> QED BY <2>1, <2>2
<1> HIDE DEF d
<1>3. /\ {NBytes, Cap4, Cap16, Cap48, Low16, Low48, Low256} \subseteq Nat
      /\ 1 < Low16 /\ Low16 < Low48 /\ Low48 < Low256
      /\ Low16 < Cap4 /\ Low48 < Cap16 /\ Low256 < Cap48
      /\ Cap4 < Cap16 /\ Cap16 < Cap48 /\ Cap48 < NBytes
    BY SizesAssumption DEF SizesAssumption
<1>4. Occupied(n.type, k + 1) /\ (n.type = "node4" => k + 1 # 1)
    BY <1>1, Counted DEF GivesWay
<1>5. m = IF d.type # "node4" /\ d.num = Low(d.type) THEN Shrink(d) ELSE d
    BY DEF RemoveChild, d
<1>6. CASE d.type # "node4" /\ d.num = Low(d.type)
    <2>1. /\ Holds(T, m, g) /\ k = Low(n.type)
          /\ m.type = CASE n.type = "node16" -> "node4"
                        [] n.type = "node48" -> "node16"
                        [] n.type = "node256" -> "node48"
        BY <1>1, <1>2, <1>5, <1>6, ShrinksTheSame DEF Low
    <2>2. n.type = "node16" => m.type = "node4" /\ k = Low16
        BY <2>1 DEF Low
    <2>3. n.type = "node48" => m.type = "node16" /\ k = Low48
        BY <2>1 DEF Low
    <2>4. n.type = "node256" => m.type = "node48" /\ k = Low256
        BY <2>1 DEF Low
    <2>5. Occupied(m.type, k) /\ k < Cap(m.type)
        BY <1>2, <1>3, <1>4, <1>6, <2>2, <2>3, <2>4 DEF Occupied, Cap
    <2>6. Holds(T, m, g)
        BY <2>1
    <2> QED BY <1>1, <2>5, <2>6
<1>7. CASE ~(d.type # "node4" /\ d.num = Low(d.type))
    <2>1. m = d
        BY <1>5, <1>7
    <2>2. d.type = "node256" => k # Low256
        <3> SUFFICES ASSUME d.type = "node256", k = Low256 PROVE FALSE
            OBVIOUS
        <3>1. d.num = k % NBytes
            BY <1>1, <1>2, Counted
        <3>2. k \in Byte
            BY <1>1, <1>3 DEF Byte
        <3>3. d.num = k
            BY <3>1, <3>2, Counter
        <3> QED BY <1>7, <3>3 DEF Low
    <2>3. d.type # "node256" => d.num = k
        BY <1>1, <1>2, Counted
    <2>4. Occupied(d.type, k)
        BY <1>1, <1>2, <1>3, <1>4, <1>7, <2>2, <2>3 DEF Occupied, Low
    <2>5. m.type = n.type /\ Holds(T, m, g) /\ Occupied(m.type, Cardinality(Mapped(g)))
        BY <1>1, <1>2, <2>1, <2>4
    <2> QED BY <1>1, <2>5
<1> QED BY <1>6, <1>7

(* The node that splits a leaf or a prefix.                                *)
Two(b, x, c, y) == [[d \in Byte |-> Null] EXCEPT ![b] = x, ![c] = y]

LEMMA MadeOfTwo ==
  ASSUME NEW T, Null \notin T, NEW b \in Byte, NEW c \in Byte, b # c, NEW x \in T, NEW y \in T
  PROVE  LET m == NewNode4(b, x, c, y)
             g == Two(b, x, c, y)
         IN  Holds(T, m, g) /\ Occupied(m.type, Cardinality(Mapped(g)))
<1>1. PICK e \in Maps(T) : e = [d \in Byte |-> Null]
    BY DEF Maps
<1>2. PICK f \in Maps(T) : f = [e EXCEPT ![b] = x]
    BY <1>1 DEF Maps
<1>3. PICK g \in Maps(T) : g = [f EXCEPT ![c] = y]
    BY <1>2 DEF Maps
<1>4. PICK one : one = AddChild(EmptyNode, b, x)
    OBVIOUS
<1>5. PICK m : m = AddChild(one, c, y)
    OBVIOUS
<1>6. Mapped(e) = {} /\ Cardinality(Mapped(e)) = 0 /\ e[b] = Null /\ f[c] = Null
    BY <1>1, <1>2, FS_EmptySet DEF Mapped
<1>7. Holds(T, EmptyNode, e) /\ EmptyNode.type = "node4"
    BY <1>6, EmptySeq DEF Holds, EmptyNode, LinearOf, IsNode, Linear
<1>8. Holds(T, one, f) /\ Occupied(one.type, Cardinality(Mapped(f)))
    <2>1. LET h == [e EXCEPT ![b] = x]  q == AddChild(EmptyNode, b, x)
          IN  Holds(T, q, h) /\ Occupied(q.type, Cardinality(Mapped(h)))
        BY <1>6, <1>7, Extended
    <2> QED BY <1>2, <1>4, <2>1
<1>9. Holds(T, m, g) /\ Occupied(m.type, Cardinality(Mapped(g)))
    <2>1. LET h == [f EXCEPT ![c] = y]  q == AddChild(one, c, y)
          IN  Holds(T, q, h) /\ Occupied(q.type, Cardinality(Mapped(h)))
        BY <1>6, <1>8, Extended
    <2> QED BY <1>3, <1>5, <2>1
<1>10. m = NewNode4(b, x, c, y)
    BY <1>4, <1>5 DEF NewNode4
<1>11. g = Two(b, x, c, y)
    BY <1>1, <1>2, <1>3 DEF Two
<1> QED BY <1>9, <1>10, <1>11

-------------------------------------------------------------------------------
(* A node as the tree sees it: what lies behind its bytes, whatever that   *)
(* is and in whatever layout.                                              *)
Content(n) == [c \in Byte |-> FindChild(n, c)]
KidsOf(n) == {FindChild(n, c) : c \in Byte} \ {Null}

Sound(n) == Holds(KidsOf(n), n, Content(n)) /\ Occupied(n.type, Cardinality(Mapped(Content(n))))

(* A sequence is one over any set that holds its elements.                 *)
LEMMA SequenceOver ==
  ASSUME NEW S, NEW U, NEW s \in Seq(S), \A i \in 1 .. Len(s) : s[i] \in U
  PROVE  s \in Seq(U)
<1>1. s \in [1 .. Len(s) -> U] /\ Len(s) \in Nat
    BY LenProperties
<1> QED BY <1>1, SeqDef

(* What a node holds is something else than Null and nothing else.         *)
LEMMA SoundIfHeld ==
  ASSUME NEW T, Null \notin T, NEW n, NEW f, Holds(T, n, f), Occupied(n.type, Cardinality(Mapped(f)))
  PROVE  Sound(n) /\ Content(n) = f
<1> DEFINE U == KidsOf(n)
<1>1. Content(n) = f
    BY OneMap DEF Content
<1>2. f \in Maps(T) /\ IsNode(n) /\ \A c \in Byte : FindChild(n, c) = f[c]
    BY Found DEF Holds
<1>3. \A c \in Byte : f[c] # Null => f[c] \in U
    BY <1>2 DEF KidsOf
<1> HIDE DEF U
<1>4. f \in Maps(U)
    BY <1>2, <1>3 DEF Maps
<1>5. LinearOf(T, n, f) => LinearOf(U, n, f)
    <2> SUFFICES ASSUME LinearOf(T, n, f) PROVE n.kids \in Seq(U)
        BY DEF LinearOf
    <2>1. n.kids \in Seq(T) /\ Len(n.kids) = n.num /\ n.keys \in Seq(Byte) /\ Len(n.keys) = n.num
          /\ \A i \in 1 .. n.num : n.kids[i] = f[n.keys[i]]
        BY DEF LinearOf
    <2>2. ASSUME NEW i \in 1 .. n.num PROVE n.kids[i] \in U
        <3>1. n.kids[i] \in T /\ n.keys[i] \in Byte
            BY <2>1, ElementOfSeq
        <3>2. n.kids[i] # Null
            BY <3>1
        <3> QED BY <1>3, <2>1, <3>1, <3>2
    <2> QED BY <2>1, <2>2, SequenceOver
<1>6. SlotsOf(T, n, f) => SlotsOf(U, n, f)
    <2> SUFFICES ASSUME SlotsOf(T, n, f) PROVE n.kids \in [1 .. Cap48 -> U \cup {Null}]
        BY DEF SlotsOf
    <2>1. \A i \in 1 .. Cap48 : n.kids[i] # Null => n.kids[i] \in U
        BY <1>3 DEF SlotsOf, Mapped
    <2> QED BY <2>1 DEF SlotsOf
<1>7. DirectOf(T, n, f) => DirectOf(U, n, f)
    BY DEF DirectOf
<1>8. Holds(U, n, f)
    BY <1>2, <1>4, <1>5, <1>6, <1>7 DEF Holds
<1> QED BY <1>1, <1>8 DEF Sound, U

(* The same node may be seen as one that holds more kinds of things.       *)
LEMMA Widened ==
  ASSUME NEW n, Sound(n), NEW x
  PROVE  Holds(KidsOf(n) \cup {x}, n, Content(n))
<1> DEFINE T == KidsOf(n)  U == T \cup {x}  f == Content(n)
<1>1. Holds(T, n, f)
    BY DEF Sound
<1> HIDE DEF T, f
<1>2. f \in Maps(U) /\ IsNode(n)
    BY <1>1 DEF Holds, Maps
<1>3. LinearOf(T, n, f) => LinearOf(U, n, f)
    <2> SUFFICES ASSUME LinearOf(T, n, f) PROVE n.kids \in Seq(U)
        BY DEF LinearOf
    <2>1. n.kids \in Seq(T) /\ T \subseteq U
        BY DEF LinearOf
    <2> QED BY <2>1, SeqMonotonic
<1>4. SlotsOf(T, n, f) => SlotsOf(U, n, f)
    <2> SUFFICES ASSUME SlotsOf(T, n, f) PROVE n.kids \in [1 .. Cap48 -> U \cup {Null}]
        BY DEF SlotsOf
    <2> QED BY DEF SlotsOf
<1>5. DirectOf(T, n, f) => DirectOf(U, n, f)
    BY DEF DirectOf
<1>6. Holds(U, n, f)
    BY <1>1, <1>2, <1>3, <1>4, <1>5 DEF Holds
<1> QED BY <1>6 DEF T, f

LEMMA NoneOfThem == ASSUME NEW n, NEW x, x # Null PROVE Null \notin KidsOf(n) \cup {x}
BY DEF KidsOf

LEMMA UsedAreFound ==
  ASSUME NEW n, Sound(n)
  PROVE  /\ Used(n) = {c \in Byte : FindChild(n, c) # Null}
         /\ Mapped(Content(n)) = Used(n)
         /\ Used(n) \subseteq Byte
<1>1. Null \notin KidsOf(n) /\ Holds(KidsOf(n), n, Content(n))
    BY DEF KidsOf, Sound
<1>2. Used(n) = Mapped(Content(n))
    BY <1>1, Found
<1> QED BY <1>2 DEF Mapped, Content

(* Two bytes in use are more than one child.                               *)
LEMMA MoreThanOne ==
  ASSUME NEW n, Sound(n)
  PROVE  /\ \A b, c \in Used(n) : b # c => ~GivesWay(n) /\ Cardinality(Used(n)) > 1
         /\ GivesWay(n) => Cardinality(Used(n)) = 1
         /\ Used(n) # {} /\ (~GivesWay(n) => \E b, c \in Used(n) : b # c)
<1>1. Null \notin KidsOf(n) /\ Holds(KidsOf(n), n, Content(n))
    BY DEF KidsOf, Sound
<1>2. PICK k \in Nat : /\ k = Cardinality(Used(n)) /\ Occupied(n.type, k)
                       /\ n.type # "node256" => n.num = k
    <2>1. Cardinality(Mapped(Content(n))) \in Nat
        BY MappedIsFinite, SizesAssumption DEF SizesAssumption
    <2>2. n.type # "node256" => n.num = Cardinality(Mapped(Content(n)))
        BY <1>1, Counted
    <2> QED BY <2>1, <2>2, UsedAreFound DEF Sound
<1>3. IsFiniteSet(Used(n))
    BY UsedAreFound, MappedIsFinite
<1>4. ASSUME NEW b \in Used(n), NEW c \in Used(n), b # c PROVE k > 1
    <2>1. Cardinality({b, c}) = 2
        <3>1. IsFiniteSet({b}) /\ Cardinality({b}) = 1 /\ c \notin {b} /\ {b, c} = {b} \cup {c}
            BY <1>4, FS_Singleton
        <3> QED BY <3>1, FS_AddElement
    <2>2. Cardinality({b, c}) <= k
        BY <1>2, <1>3, FS_Subset
    <2> QED BY <2>1, <2>2
<1>5. GivesWay(n) => k = 1
    BY <1>2 DEF GivesWay
<1>6. k >= 1 /\ (~GivesWay(n) => k > 1)
    BY <1>2, SizesAssumption DEF SizesAssumption, Occupied, GivesWay
<1>7. Used(n) # {}
    BY <1>2, <1>6, FS_EmptySet
<1>8. ASSUME ~GivesWay(n) PROVE \E b, c \in Used(n) : b # c
    <2>1. PICK b \in Used(n) : TRUE
        BY <1>7
    <2>2. Used(n) # {b}
        BY <1>2, <1>6, <1>8, FS_Singleton
    <2> QED BY <2>1, <2>2
<1> QED BY <1>2, <1>4, <1>5, <1>7, <1>8

LEMMA NodeAdded ==
  ASSUME NEW n, Sound(n), NEW c \in Byte, FindChild(n, c) = Null, NEW x, x # Null
  PROVE  /\ Sound(AddChild(n, c, x))
         /\ \A b \in Byte : FindChild(AddChild(n, c, x), b) = IF b = c THEN x ELSE FindChild(n, b)
<1> DEFINE U == KidsOf(n) \cup {x}
<1>1. PICK f : f = Content(n)
    OBVIOUS
<1>2. Null \notin U /\ x \in U /\ Holds(U, n, f) /\ Occupied(n.type, Cardinality(Mapped(f)))
    BY <1>1, NoneOfThem, Widened DEF Sound
<1>3. f[c] = Null /\ \A b \in Byte : f[b] = FindChild(n, b)
    BY <1>1 DEF Content
<1> HIDE DEF U
<1>4. LET g == [f EXCEPT ![c] = x]  m == AddChild(n, c, x)
      IN  Holds(U, m, g) /\ Occupied(m.type, Cardinality(Mapped(g)))
    BY <1>2, <1>3, Extended
<1>5. Sound(AddChild(n, c, x)) /\ Content(AddChild(n, c, x)) = [f EXCEPT ![c] = x]
    BY <1>2, <1>4, SoundIfHeld
<1>6. \A b \in Byte : FindChild(AddChild(n, c, x), b) = [f EXCEPT ![c] = x][b]
    BY <1>5 DEF Content
<1>7. \A b \in Byte : [f EXCEPT ![c] = x][b] = IF b = c THEN x ELSE f[b]
    BY <1>1 DEF Content
<1> QED BY <1>3, <1>5, <1>6, <1>7

LEMMA NodeRemoved ==
  ASSUME NEW n, Sound(n), NEW c \in Byte, FindChild(n, c) # Null, ~GivesWay(n)
  PROVE  /\ Sound(RemoveChild(n, c))
         /\ \A b \in Byte : FindChild(RemoveChild(n, c), b) = IF b = c THEN Null ELSE FindChild(n, b)
<1> DEFINE U == KidsOf(n)
<1>1. PICK f : f = Content(n)
    OBVIOUS
<1>2. Null \notin U /\ Holds(U, n, f) /\ Occupied(n.type, Cardinality(Mapped(f)))
    BY <1>1 DEF Sound, KidsOf
<1>3. f[c] # Null /\ \A b \in Byte : f[b] = FindChild(n, b)
    BY <1>1 DEF Content
<1> HIDE DEF U
<1>4. LET g == [f EXCEPT ![c] = Null]  m == RemoveChild(n, c)
      IN  Holds(U, m, g) /\ Occupied(m.type, Cardinality(Mapped(g)))
    BY <1>2, <1>3, Reduced
<1>5. Sound(RemoveChild(n, c)) /\ Content(RemoveChild(n, c)) = [f EXCEPT ![c] = Null]
    BY <1>2, <1>4, SoundIfHeld
<1>6. \A b \in Byte : FindChild(RemoveChild(n, c), b) = [f EXCEPT ![c] = Null][b]
    BY <1>5 DEF Content
<1>7. \A b \in Byte : [f EXCEPT ![c] = Null][b] = IF b = c THEN Null ELSE f[b]
    BY <1>1 DEF Content
<1> QED BY <1>3, <1>5, <1>6, <1>7

LEMMA NodeOfTwo ==
  ASSUME NEW b \in Byte, NEW c \in Byte, b # c, NEW x, NEW y, x # Null, y # Null
  PROVE  /\ Sound(NewNode4(b, x, c, y))
         /\ \A d \in Byte : FindChild(NewNode4(b, x, c, y), d) =
                              IF d = b THEN x ELSE IF d = c THEN y ELSE Null
<1> DEFINE U == {x, y}
<1>1. Null \notin U /\ x \in U /\ y \in U
    OBVIOUS
<1> HIDE DEF U
<1>2. LET m == NewNode4(b, x, c, y)  g == Two(b, x, c, y)
      IN  Holds(U, m, g) /\ Occupied(m.type, Cardinality(Mapped(g)))
    BY <1>1, MadeOfTwo
<1>3. Sound(NewNode4(b, x, c, y)) /\ Content(NewNode4(b, x, c, y)) = Two(b, x, c, y)
    BY <1>1, <1>2, SoundIfHeld
<1>4. \A d \in Byte : FindChild(NewNode4(b, x, c, y), d) = Two(b, x, c, y)[d]
    BY <1>3 DEF Content
<1>5. \A d \in Byte : Two(b, x, c, y)[d] = IF d = b THEN x ELSE IF d = c THEN y ELSE Null
    BY DEF Two
<1> QED BY <1>3, <1>4, <1>5

(* The pointers of a node are the children behind its bytes.               *)
LEMMA Pointers ==
  ASSUME NEW n, Sound(n)
  PROVE  /\ \A i \in DOMAIN n.kids : n.kids[i] # Null => \E c \in Byte : n.kids[i] = FindChild(n, c)
         /\ \A c \in Byte : FindChild(n, c) # Null => \E i \in DOMAIN n.kids : n.kids[i] = FindChild(n, c)
<1>1. PICK T : T = KidsOf(n)
    OBVIOUS
<1>2. PICK f : f = Content(n)
    OBVIOUS
<1>3. Null \notin T /\ Holds(T, n, f) /\ \A c \in Byte : f[c] = FindChild(n, c)
    BY <1>1, <1>2 DEF KidsOf, Sound, Content
<1>4. CASE LinearOf(T, n, f)
    <2>1. DOMAIN n.kids = 1 .. n.num
        BY <1>4, LenProperties DEF LinearOf
    <2>2. \A i \in 1 .. n.num : n.keys[i] \in Byte
        BY <1>4, ElementOfSeq DEF LinearOf
    <2> QED BY <1>3, <1>4, <2>1, <2>2 DEF LinearOf, Mapped
<1>5. CASE SlotsOf(T, n, f)
    <2>1. DOMAIN n.kids = 1 .. Cap48
        BY <1>5 DEF SlotsOf
    <2>2. \A c \in Mapped(f) : n.keys[c] \in 1 .. Cap48
        BY <1>5, SizesAssumption DEF SizesAssumption, SlotsOf, Mapped
    <2>3. \A i \in 1 .. Cap48 : n.kids[i] # Null => \E c \in Mapped(f) : n.kids[i] = f[c]
        BY <1>5 DEF SlotsOf
    <2>4. \A c \in Mapped(f) : n.kids[n.keys[c]] = f[c]
        BY <1>5 DEF SlotsOf
    <2> QED BY <1>3, <2>1, <2>2, <2>3, <2>4 DEF Mapped
<1>6. CASE DirectOf(T, n, f)
    <2>1. DOMAIN n.kids = Byte
        BY <1>3, <1>6 DEF DirectOf, Holds, Maps
    <2> QED BY <1>3, <1>6, <2>1 DEF DirectOf
<1> QED BY <1>3, <1>4, <1>5, <1>6 DEF Holds

(* minimum() goes on into a child.                                         *)
LEMMA FirstIsChild ==
  ASSUME NEW n, Sound(n)
  PROVE  \E c \in Used(n) : FirstChild(n) = FindChild(n, c)
<1>1. Used(n) \subseteq Byte /\ Used(n) # {} /\ Used(n) = {c \in Byte : FindChild(n, c) # Null}
    BY UsedAreFound, MoreThanOne
<1>2. CASE n.type \in Linear
    <2>1. PICK T : T = KidsOf(n)
        OBVIOUS
    <2>2. PICK f : f = Content(n)
        OBVIOUS
    <2>3. Null \notin T /\ Holds(T, n, f) /\ \A c \in Byte : f[c] = FindChild(n, c)
        BY <2>1, <2>2 DEF KidsOf, Sound, Content
    <2>4. LinearOf(T, n, f)
        BY <1>2, <2>3 DEF Holds, SlotsOf, DirectOf, Linear
    <2>5. n.num \in Nat /\ n.keys \in Seq(Byte) /\ n.kids \in Seq(T)
          /\ Len(n.keys) = n.num /\ Len(n.kids) = n.num
        BY <2>4, LenProperties DEF LinearOf
    <2>6. n.num # 0
        <3>1. PICK c \in Used(n) : TRUE
            BY <1>1
        <3>2. c \in Mapped(f)
            BY <1>1, <2>3, <3>1 DEF Mapped
        <3> QED BY <2>4, <2>5, <3>2 DEF LinearOf
    <2>7. n.keys[1] \in Byte /\ n.kids[1] \in T /\ n.kids[1] = f[n.keys[1]]
        <3>1. 1 \in 1 .. n.num
            BY <2>5, <2>6
        <3> QED BY <2>4, <2>5, <3>1, ElementOfSeq DEF LinearOf
    <2>8. FirstChild(n) = FindChild(n, n.keys[1]) /\ n.keys[1] \in Used(n)
        BY <1>1, <1>2, <2>3, <2>7 DEF FirstChild
    <2> QED BY <2>8
<1>3. CASE n.type \notin Linear
    <2>1. Used(n) \in SUBSET Nat
        BY <1>1, SizesAssumption DEF SizesAssumption, Byte
    <2>2. Min(Used(n)) \in Used(n)
        BY <1>1, <2>1, MinInSet
    <2> QED BY <1>3, <2>2 DEF FirstChild
<1> QED BY <1>2, <1>3

(* A node that gives way has one child, which it finds behind one byte.    *)
LEMMA LastOne ==
  ASSUME NEW n, Sound(n), GivesWay(n)
  PROVE  /\ n.keys[1] \in Byte /\ n.kids[1] = FindChild(n, n.keys[1]) /\ n.kids[1] # Null
         /\ \A b \in Byte : b # n.keys[1] => FindChild(n, b) = Null
<1>1. PICK T : T = KidsOf(n)
    OBVIOUS
<1>2. PICK f : f = Content(n)
    OBVIOUS
<1>3. Null \notin T /\ Holds(T, n, f) /\ \A c \in Byte : f[c] = FindChild(n, c)
    BY <1>1, <1>2 DEF KidsOf, Sound, Content
<1>4. LinearOf(T, n, f) /\ n.num = 1
    BY <1>3 DEF Holds, SlotsOf, DirectOf, GivesWay
<1>5. n.keys[1] \in Byte /\ n.kids[1] \in T /\ n.kids[1] = f[n.keys[1]]
    <2>1. /\ n.keys \in Seq(Byte) /\ n.kids \in Seq(T) /\ 1 \in 1 .. n.num
          /\ Len(n.keys) = n.num /\ Len(n.kids) = n.num
          /\ \A i \in 1 .. n.num : n.kids[i] = f[n.keys[i]]
        BY <1>4 DEF LinearOf
    <2> QED BY <2>1, ElementOfSeq
<1>6. \A b \in Mapped(f) : b = n.keys[1]
    BY <1>4 DEF LinearOf
<1> QED BY <1>3, <1>5, <1>6 DEF Mapped

(* Where the pointer for byte c is kept.                                   *)
Slot(n, c) == IF n.type \in Linear THEN Min(Positions(n, c)) ELSE IF n.type = "node48" THEN n.keys[c] ELSE c

(* A node in which the things behind the pointers change, and no more.     *)
LEMMA Repointed ==
  ASSUME NEW n, Sound(n), NEW w, w = [i \in DOMAIN n.kids |-> w[i]],
         \A i \in DOMAIN n.kids : w[i] = Null <=> n.kids[i] = Null
  PROVE  /\ Sound([n EXCEPT !.kids = w])
         /\ \A c \in Byte : FindChild([n EXCEPT !.kids = w], c) =
                              IF FindChild(n, c) = Null THEN Null ELSE w[Slot(n, c)]
         /\ \A c \in Byte : FindChild(n, c) # Null =>
              /\ Slot(n, c) \in DOMAIN n.kids /\ FindChild(n, c) = n.kids[Slot(n, c)]
              /\ \A b \in Byte : FindChild(n, b) # Null /\ Slot(n, b) = Slot(n, c) => b = c
<1>1. PICK T : T = KidsOf(n)
    OBVIOUS
<1>2. PICK f : f = Content(n)
    OBVIOUS
<1>3. /\ Null \notin T /\ Holds(T, n, f) /\ \A c \in Byte : f[c] = FindChild(n, c)
      /\ f \in Maps(T) /\ IsNode(n) /\ Occupied(n.type, Cardinality(Mapped(f)))
    BY <1>1, <1>2 DEF KidsOf, Sound, Content, Holds
<1> DEFINE U == {w[i] : i \in DOMAIN n.kids} \ {Null}
           g == [c \in Byte |-> IF f[c] = Null THEN Null ELSE w[Slot(n, c)]]
           m == [n EXCEPT !.kids = w]
<1>4. m = [type |-> n.type, num |-> n.num, keys |-> n.keys, kids |-> w]
    BY <1>3 DEF IsNode
<1>5. \A i \in DOMAIN n.kids : n.kids[i] # Null => w[i] \in U
    OBVIOUS
<1>6. \A c \in Byte : f[c] # Null =>
        /\ Slot(n, c) \in DOMAIN n.kids /\ f[c] = n.kids[Slot(n, c)]
        /\ \A b \in Byte : f[b] # Null /\ Slot(n, b) = Slot(n, c) => b = c
    <2>1. CASE LinearOf(T, n, f)
        <3>1. /\ DOMAIN n.kids = 1 .. n.num /\ n.type \in Linear /\ n.num \in Nat
              /\ \A i \in 1 .. n.num : n.kids[i] = f[n.keys[i]]
              /\ \A c \in Mapped(f) : \E i \in 1 .. n.num : n.keys[i] = c
            BY <2>1, LenProperties DEF LinearOf
        <3>2. \A i \in 1 .. n.num : Positions(n, n.keys[i]) = {i}
            BY <1>3, <2>1, OnePlace
        <3>3. ASSUME NEW i \in 1 .. n.num PROVE Slot(n, n.keys[i]) = i
            <4>1. Positions(n, n.keys[i]) = {i}
                BY <3>2
            <4>2. n.type \in Linear /\ i \in Nat
                BY <3>1
            <4> QED BY <4>1, <4>2, MinOfOne DEF Slot
        <3>4. \A c \in Mapped(f) : \E i \in 1 .. n.num : n.keys[i] = c /\ Slot(n, c) = i
            BY <3>1, <3>3
        <3> QED BY <3>1, <3>4 DEF Mapped
    <2>2. CASE SlotsOf(T, n, f)
        <3>1. n.type = "node48" /\ n.type \notin Linear /\ DOMAIN n.kids = 1 .. Cap48
            BY <2>2 DEF SlotsOf, Linear
        <3>2. \A c \in Mapped(f) : n.keys[c] \in 1 .. Cap48
            BY <2>2, SizesAssumption DEF SizesAssumption, SlotsOf, Mapped
        <3>3. /\ \A c \in Mapped(f) : n.kids[n.keys[c]] = f[c]
              /\ \A b, c \in Mapped(f) : n.keys[b] = n.keys[c] => b = c
            BY <2>2 DEF SlotsOf
        <3> QED BY <3>1, <3>2, <3>3 DEF Slot, Mapped
    <2>3. CASE DirectOf(T, n, f)
        <3>1. n.type = "node256" /\ DOMAIN n.kids = Byte /\ n.kids = f
            BY <1>3, <2>3 DEF DirectOf, Maps
        <3> QED BY <3>1 DEF Slot, Linear
    <2> QED BY <1>3, <2>1, <2>2, <2>3 DEF Holds
<1> HIDE DEF U
<1>7. g \in Maps(U)
    BY <1>5, <1>6 DEF Maps
<1>8. \A c \in Byte : g[c] = IF f[c] = Null THEN Null ELSE w[Slot(n, c)]
    OBVIOUS
<1>9. Mapped(g) = Mapped(f)
    BY <1>3, <1>6, <1>8 DEF Mapped
<1>10. Null \notin U
    BY DEF U
<1> HIDE DEF g, m
<1>11. LinearOf(T, n, f) => LinearOf(U, m, g)
    <2> SUFFICES ASSUME LinearOf(T, n, f) PROVE LinearOf(U, m, g)
        OBVIOUS
    <2>1. /\ DOMAIN n.kids = 1 .. n.num /\ n.type \in Linear /\ n.num \in Nat
          /\ n.keys \in Seq(Byte) /\ n.kids \in Seq(T) /\ Len(n.keys) = n.num
          /\ \A i \in 1 .. n.num : n.kids[i] = f[n.keys[i]]
          /\ \A c \in Mapped(f) : \E i \in 1 .. n.num : n.keys[i] = c
          /\ \A i, j \in 1 .. n.num : n.keys[i] = n.keys[j] => i = j
        BY LenProperties DEF LinearOf
    <2>2. \A i \in 1 .. n.num : n.kids[i] \in T /\ n.keys[i] \in Byte
        BY <2>1, ElementOfSeq DEF LinearOf
    <2>3. w \in Seq(U) /\ Len(w) = n.num
        <3>1. ASSUME NEW i \in 1 .. n.num PROVE w[i] \in U
            <4>1. Null \notin T
                BY <1>3
            <4>2. n.kids[i] # Null
                BY <2>2, <4>1
            <4>3. i \in DOMAIN n.kids
                BY <2>1
            <4> QED BY <1>5, <4>2, <4>3
        <3>2. w \in [1 .. n.num -> U]
            BY <2>1, <3>1
        <3> QED BY <2>1, <3>2, SeqDef
    <2>4. ASSUME NEW i \in 1 .. n.num PROVE w[i] = g[n.keys[i]]
        <3>1. f[n.keys[i]] # Null
            BY <1>3, <2>1, <2>2
        <3>2. Positions(n, n.keys[i]) = {i}
            BY <1>3, OnePlace
        <3>3. Slot(n, n.keys[i]) = i
            BY <2>1, <3>2, MinOfOne DEF Slot
        <3> QED BY <1>8, <2>2, <3>1, <3>3
    <2> QED BY <1>4, <1>9, <2>1, <2>3, <2>4 DEF LinearOf
<1>12. SlotsOf(T, n, f) => SlotsOf(U, m, g)
    <2> SUFFICES ASSUME SlotsOf(T, n, f) PROVE SlotsOf(U, m, g)
        OBVIOUS
    <2>1. /\ n.type = "node48" /\ n.type \notin Linear /\ DOMAIN n.kids = 1 .. Cap48
          /\ n.keys \in [Byte -> 0 .. Cap48]
          /\ \A c \in Byte : n.keys[c] = 0 <=> f[c] = Null
          /\ \A b, c \in Mapped(f) : n.keys[b] = n.keys[c] => b = c
          /\ \A i \in 1 .. Cap48 : n.kids[i] # Null => \E c \in Mapped(f) : n.keys[c] = i
          /\ n.num = Cardinality(Mapped(f))
        BY DEF SlotsOf, Linear
    <2>2. w \in [1 .. Cap48 -> U \cup {Null}]
        BY <1>5, <2>1
    <2>3. \A c \in Mapped(g) : w[n.keys[c]] = g[c]
        BY <1>8, <1>9, <2>1 DEF Slot, Mapped
    <2>4. \A c \in Byte : n.keys[c] = 0 <=> g[c] = Null
        BY <1>9, <2>1 DEF Mapped
    <2>5. \A i \in 1 .. Cap48 : w[i] # Null => \E c \in Mapped(g) : n.keys[c] = i
        BY <1>9, <2>1
    <2> QED BY <1>4, <1>9, <2>1, <2>2, <2>3, <2>4, <2>5 DEF SlotsOf
<1>13. DirectOf(T, n, f) => DirectOf(U, m, g)
    <2> SUFFICES ASSUME DirectOf(T, n, f) PROVE DirectOf(U, m, g)
        OBVIOUS
    <2>1. n.type = "node256" /\ DOMAIN n.kids = Byte /\ n.kids = f /\ n.keys = <<>>
          /\ n.num = Cardinality(Mapped(f)) % NBytes
        BY <1>3 DEF DirectOf, Maps
    <2>2. \A c \in Byte : w[c] = g[c]
        BY <1>8, <2>1 DEF Slot, Linear
    <2>3. w = g
        BY <2>1, <2>2 DEF g
    <2> QED BY <1>4, <1>9, <2>1, <2>3 DEF DirectOf
<1>14. Holds(U, m, g)
    BY <1>3, <1>4, <1>7, <1>11, <1>12, <1>13 DEF Holds, IsNode
<1>15. Sound(m) /\ Content(m) = g
    BY <1>3, <1>4, <1>9, <1>10, <1>14, SoundIfHeld
<1>16. \A c \in Byte : FindChild(m, c) = g[c]
    BY <1>15 DEF Content
<1> QED BY <1>3, <1>6, <1>8, <1>15, <1>16 DEF m

LEMMA NodeSet ==
  ASSUME NEW n, Sound(n), NEW c \in Byte, FindChild(n, c) # Null, NEW x, x # Null
  PROVE  /\ Sound(SetChild(n, c, x))
         /\ \A b \in Byte : FindChild(SetChild(n, c, x), b) = IF b = c THEN x ELSE FindChild(n, b)
<1>1. PICK w : w = [n.kids EXCEPT ![Slot(n, c)] = x]
    OBVIOUS
<1>2. IsNode(n) /\ n.kids = [i \in DOMAIN n.kids |-> n.kids[i]]
      /\ n.type \in {"node4", "node16", "node48", "node256"}
    <2>1. Null \notin KidsOf(n) /\ Holds(KidsOf(n), n, Content(n))
        BY DEF KidsOf, Sound
    <2>2. LinearOf(KidsOf(n), n, Content(n)) => n.kids = [i \in DOMAIN n.kids |-> n.kids[i]]
        BY LenProperties DEF LinearOf
    <2>3. SlotsOf(KidsOf(n), n, Content(n)) => n.kids = [i \in DOMAIN n.kids |-> n.kids[i]]
        BY DEF SlotsOf
    <2>4. DirectOf(KidsOf(n), n, Content(n)) => n.kids = [i \in DOMAIN n.kids |-> n.kids[i]]
        BY DEF DirectOf, Content
    <2> QED BY <2>1, <2>2, <2>3, <2>4, Counted DEF Holds
<1>3. /\ Slot(n, c) \in DOMAIN n.kids /\ FindChild(n, c) = n.kids[Slot(n, c)]
      /\ \A b \in Byte : FindChild(n, b) # Null =>
           /\ Slot(n, b) \in DOMAIN n.kids /\ FindChild(n, b) = n.kids[Slot(n, b)]
           /\ Slot(n, b) = Slot(n, c) => b = c
    BY <1>2, Repointed
<1>4. w = [i \in DOMAIN n.kids |-> w[i]] /\ \A i \in DOMAIN n.kids : w[i] = Null <=> n.kids[i] = Null
    BY <1>1, <1>3
<1>5. SetChild(n, c, x) = [n EXCEPT !.kids = w]
    BY <1>1, <1>2 DEF SetChild, Slot, IsNode, Linear
<1>6. /\ Sound([n EXCEPT !.kids = w])
      /\ \A b \in Byte : FindChild([n EXCEPT !.kids = w], b) =
                           IF FindChild(n, b) = Null THEN Null ELSE w[Slot(n, b)]
    BY <1>4, Repointed
<1>7. \A b \in Byte : FindChild(n, b) # Null =>
         w[Slot(n, b)] = IF b = c THEN x ELSE FindChild(n, b)
    BY <1>1, <1>3
<1> QED BY <1>5, <1>6, <1>7

-------------------------------------------------------------------------------
(* The bytes of a node4 and of a node16 are in order, as long as a node16  *)
(* takes none of them for a negative number.                               *)
Low7(c) == 2 * c < NBytes
Rising(n) == n.type \in Linear => \A i, j \in 1 .. n.num : i < j => n.keys[i] < n.keys[j]
Neat(n) == Rising(n) /\ \A c \in Used(n) : Low7(c)

LEMMA LowIsPlain ==
  ASSUME NEW c \in Byte, Low7(c)
  PROVE  c \in Nat /\ Signed(c) = c
<1>1. NBytes \in Nat
    BY SizesAssumption DEF SizesAssumption
<1> QED BY <1>1 DEF Byte, Low7, Signed

LEMMA PlaceIs ==
  ASSUME NEW n, NEW s \in Seq(Byte), s = n.keys, NEW k \in Nat, k = n.num, Len(s) = k,
         NEW c \in Byte, Low7(c), \A i \in 1 .. k : Low7(s[i]), n.type \in Linear
  PROVE  /\ Place(n, c) \in 1 .. k + 1
         /\ \A i \in 1 .. k : i < Place(n, c) => s[i] <= c
         /\ Place(n, c) <= k => c < s[Place(n, c)]
<1> DEFINE greater == {i \in 1 .. k : c < s[i]}
<1>1. \A i \in 1 .. k : s[i] \in Byte /\ s[i] \in Nat /\ Signed(s[i]) = s[i]
    <2>1. \A i \in 1 .. k : s[i] \in Byte
        BY ElementOfSeq
    <2> QED BY <2>1, LowIsPlain
<1>2. c \in Nat /\ Signed(c) = c
    BY LowIsPlain
<1>3. Place(n, c) = Min({k + 1} \cup greater)
    BY <1>1, <1>2 DEF Place
<1>4. {k + 1} \cup greater \in SUBSET Nat
    OBVIOUS
<1>5. PICK p : p = Place(n, c)
    OBVIOUS
<1>6. p \in {k + 1} \cup greater /\ \A i \in {k + 1} \cup greater : p <= i
    <2> HIDE DEF greater
    <2> QED BY <1>3, <1>4, <1>5, MinInSet
<1>7. p \in 1 .. k + 1 /\ (p <= k => c < s[p])
    BY <1>6
<1>8. ASSUME NEW i \in 1 .. k, i < p PROVE s[i] <= c
    <2>1. i \notin greater
        BY <1>6, <1>7, <1>8
    <2> QED BY <1>1, <1>2, <2>1
<1> QED BY <1>5, <1>7, <1>8

LEMMA AddedRises ==
  ASSUME NEW T, Null \notin T, NEW n, NEW f, Holds(T, n, f), n.type \in Linear,
         NEW c \in Byte, f[c] = Null, NEW x,
         Rising(n), Low7(c), \A b \in Mapped(f) : Low7(b)
  PROVE  Rising(AddLinear(n, c, x))
<1>1. LinearOf(T, n, f) /\ IsNode(n) /\ f \in Maps(T)
    BY DEF Holds, SlotsOf, DirectOf, Linear
<1>2. /\ n.num \in Nat /\ n.keys \in Seq(Byte) /\ Len(n.keys) = n.num
      /\ \A i \in 1 .. n.num : n.keys[i] \in Mapped(f)
    BY <1>1, OnePlace DEF LinearOf
<1>3. PICK s \in Seq(Byte) : s = n.keys
    BY <1>2
<1>4. PICK k \in Nat : k = n.num /\ Len(s) = k
    BY <1>2, <1>3
<1>5. /\ \A i, j \in 1 .. k : i < j => s[i] < s[j]
      /\ \A i \in 1 .. k : s[i] \in Mapped(f) /\ s[i] # c /\ Low7(s[i])
    BY <1>2, <1>3, <1>4 DEF Rising, Mapped
<1>6. PICK p : p = Place(n, c)
    OBVIOUS
<1>7. /\ p \in 1 .. k + 1 /\ \A i \in 1 .. k : i < p => s[i] <= c
      /\ p <= k => c < s[p]
    BY <1>3, <1>4, <1>5, <1>6, PlaceIs
<1>8. PICK t : t = InsertAt(s, p, c)
    OBVIOUS
<1>9. \A j \in 1 .. k + 1 : t[j] = IF j < p THEN s[j] ELSE IF j = p THEN c ELSE s[j - 1]
    <2>1. p \in 1 .. Len(s) + 1
        BY <1>4, <1>7
    <2> QED BY <1>4, <1>8, <2>1, Inserted
<1>10. \A i \in 1 .. k : s[i] \in Nat
    <2>1. \A i \in 1 .. k : s[i] \in Byte
        BY <1>4, ElementOfSeq
    <2> QED BY <2>1, SizesAssumption DEF SizesAssumption, Byte
<1>11. c \in Nat
    BY SizesAssumption DEF SizesAssumption, Byte
<1>12. ASSUME NEW i \in 1 .. k, i < p PROVE s[i] < c
    BY <1>5, <1>7, <1>10, <1>11, <1>12
<1>13. ASSUME NEW i \in 1 .. k, p <= i PROVE c < s[i]
    <2>1. p \in 1 .. k /\ c < s[p]
        BY <1>7, <1>13
    <2>2. p = i \/ s[p] < s[i]
        BY <1>5, <1>13, <2>1
    <2> QED BY <1>10, <1>11, <2>1, <2>2
<1>14. ASSUME NEW i \in 1 .. k + 1, NEW j \in 1 .. k + 1, i < j PROVE t[i] < t[j]
    <2>1. CASE j < p
        <3>1. i \in 1 .. k /\ j \in 1 .. k /\ i < p
            BY <1>7, <1>14, <2>1
        <3> QED BY <1>5, <1>9, <1>14, <2>1, <3>1
    <2>2. CASE j = p
        <3>1. i \in 1 .. k /\ i < p
            BY <1>14, <2>2
        <3> QED BY <1>9, <1>12, <2>2, <3>1
    <2>3. CASE j > p
        <3>1. j - 1 \in 1 .. k /\ p <= j - 1 /\ t[j] = s[j - 1]
            BY <1>7, <1>9, <2>3
        <3>2. CASE i < p
            <4>1. i \in 1 .. k /\ i < j - 1 /\ t[i] = s[i]
                BY <1>7, <1>9, <1>14, <2>3, <3>2
            <4> QED BY <1>5, <3>1, <4>1
        <3>3. CASE i = p
            <4>1. t[i] = c
                BY <1>9, <3>3
            <4> QED BY <1>13, <3>1, <4>1
        <3>4. CASE i > p
            <4>1. i - 1 \in 1 .. k /\ i - 1 < j - 1 /\ t[i] = s[i - 1]
                BY <1>7, <1>9, <1>14, <3>4
            <4> QED BY <1>5, <3>1, <4>1
        <3> QED BY <1>7, <3>2, <3>3, <3>4
    <2> QED BY <1>7, <2>1, <2>2, <2>3
<1>15. AddLinear(n, c, x).num = k + 1 /\ AddLinear(n, c, x).keys = t
    BY <1>1, <1>3, <1>4, <1>6, <1>8 DEF AddLinear, IsNode
<1> QED BY <1>14, <1>15 DEF Rising

LEMMA AddRises ==
  ASSUME NEW T, Null \notin T, NEW n, NEW f, Holds(T, n, f),
         NEW c \in Byte, f[c] = Null, NEW x,
         Rising(n), Low7(c), \A b \in Mapped(f) : Low7(b)
  PROVE  Rising(AddChild(n, c, x))
<1>1. n.type \in {"node4", "node16", "node48", "node256"} /\ IsNode(n)
    BY Counted DEF Holds
<1>2. ASSUME NEW m, IsNode(m), m.type \notin Linear, m.type \in {"node48", "node256"}
      PROVE  Rising(AddDirectly(m, c, x))
    <2>1. AddDirectly(m, c, x).type = m.type
        BY <1>2 DEF AddDirectly, AddSlot, AddDirect, Linear, IsNode
    <2> QED BY <1>2, <2>1 DEF Rising
<1>3. CASE n.type \in Linear /\ n.num < Cap(n.type)
    <2>1. AddChild(n, c, x) = AddLinear(n, c, x)
        <3>1. ~(n.num >= Cap(n.type))
            <4>1. LinearOf(T, n, f) /\ f \in Maps(T)
                BY <1>3 DEF Holds, SlotsOf, DirectOf, Linear
            <4>2. n.num \in Nat /\ Cap(n.type) \in Nat
                BY <1>3, <4>1, OnePlace, SizesAssumption DEF SizesAssumption, Linear, Cap
            <4> QED BY <1>3, <4>2
        <3>2. AddChild(n, c, x) = AddDirectly(n, c, x)
            BY <1>3, <3>1 DEF AddChild, Linear
        <3> QED BY <1>3, <3>2 DEF AddDirectly, Linear
    <2> QED BY <1>3, <2>1, AddedRises
<1>4. CASE n.type = "node4" /\ n.num >= Cap(n.type)
    <2>1. PICK m : m = [n EXCEPT !.type = "node16"]
        OBVIOUS
    <2>2. m = [type |-> "node16", num |-> n.num, keys |-> n.keys, kids |-> n.kids]
        BY <1>1, <2>1 DEF IsNode
    <2>3. AddChild(n, c, x) = AddLinear(m, c, x)
        BY <1>4, <2>1, <2>2 DEF AddChild, Grow, AddDirectly, Linear
    <2>4. Rising(m)
        BY <1>4, <2>2 DEF Rising, Linear
    <2>5. Holds(T, m, f)
        <3>1. LinearOf(T, n, f) /\ f \in Maps(T)
            BY <1>4 DEF Holds, SlotsOf, DirectOf, Linear
        <3>2. LinearOf(T, m, f) /\ IsNode(m)
            BY <2>2, <3>1 DEF LinearOf, Linear, IsNode
        <3> QED BY <3>1, <3>2 DEF Holds
    <2> QED BY <2>2, <2>3, <2>4, <2>5, AddedRises DEF Linear
<1>5. CASE n.type = "node16" /\ n.num >= Cap(n.type)
    <2>1. IsNode(Grow(n)) /\ Grow(n).type = "node48"
        BY <1>1, <1>5 DEF Grow, IsNode
    <2>2. AddChild(n, c, x) = AddDirectly(Grow(n), c, x)
        BY <1>5 DEF AddChild
    <2> QED BY <1>2, <2>1, <2>2 DEF Linear
<1>6. CASE n.type = "node48" /\ n.num >= Cap(n.type)
    <2>1. IsNode(Grow(n)) /\ Grow(n).type = "node256"
        BY <1>1, <1>6 DEF Grow, IsNode
    <2>2. AddChild(n, c, x) = AddDirectly(Grow(n), c, x)
        BY <1>6 DEF AddChild
    <2> QED BY <1>2, <2>1, <2>2 DEF Linear
<1>7. CASE n.type \in {"node48", "node256"} /\ ~(n.type # "node256" /\ n.num >= Cap(n.type))
    <2>1. AddChild(n, c, x) = AddDirectly(n, c, x)
        BY <1>7 DEF AddChild
    <2> QED BY <1>1, <1>2, <1>7, <2>1 DEF Linear
<1>8. n.type \in Linear => n.num \in Nat /\ Cap(n.type) \in Nat
    <2> SUFFICES ASSUME n.type \in Linear PROVE n.num \in Nat /\ Cap(n.type) \in Nat
        OBVIOUS
    <2>1. LinearOf(T, n, f) /\ f \in Maps(T)
        BY DEF Holds, SlotsOf, DirectOf, Linear
    <2> QED BY <2>1, OnePlace, SizesAssumption DEF SizesAssumption, Linear, Cap
<1> QED BY <1>1, <1>3, <1>4, <1>5, <1>6, <1>7, <1>8 DEF Linear

LEMMA NeatAdded ==
  ASSUME NEW n, Sound(n), NEW c \in Byte, FindChild(n, c) = Null, NEW x, x # Null, Neat(n), Low7(c)
  PROVE  Neat(AddChild(n, c, x))
<1>1. PICK m : m = AddChild(n, c, x)
    OBVIOUS
<1>2. Sound(m) /\ \A b \in Byte : FindChild(m, b) = IF b = c THEN x ELSE FindChild(n, b)
    BY <1>1, NodeAdded
<1>3. \A b \in Used(m) : Low7(b)
    BY <1>2, UsedAreFound DEF Neat
<1>4. Rising(m)
    <2>1. Null \notin KidsOf(n) /\ Holds(KidsOf(n), n, Content(n)) /\ Content(n)[c] = Null
        BY DEF KidsOf, Sound, Content
    <2>2. \A b \in Mapped(Content(n)) : Low7(b)
        BY UsedAreFound DEF Neat
    <2> QED BY <1>1, <2>1, <2>2, AddRises DEF Neat
<1> QED BY <1>1, <1>3, <1>4 DEF Neat

LEMMA NeatOfTwo ==
  ASSUME NEW b \in Byte, NEW c \in Byte, b # c, NEW x, NEW y, x # Null, y # Null, Low7(b), Low7(c)
  PROVE  Neat(NewNode4(b, x, c, y))
<1>1. PICK m : m = NewNode4(b, x, c, y)
    OBVIOUS
<1>2. Sound(m) /\ \A d \in Byte : FindChild(m, d) = IF d = b THEN x ELSE IF d = c THEN y ELSE Null
    BY <1>1, NodeOfTwo
<1>3. \A d \in Used(m) : Low7(d)
    BY <1>2, UsedAreFound
<1>4. Rising(m)
    <2>1. PICK T : T = {x, y}
        OBVIOUS
    <2>2. Null \notin T /\ x \in T /\ y \in T
        BY <2>1
    <2>3. PICK e \in Maps(T) : e = [d \in Byte |-> Null]
        BY DEF Maps
    <2>4. PICK f \in Maps(T) : f = [e EXCEPT ![b] = x]
        BY <2>2, <2>3 DEF Maps
    <2>5. Mapped(e) = {} /\ Cardinality(Mapped(e)) = 0 /\ e[b] = Null /\ f[c] = Null
        BY <2>3, <2>4, FS_EmptySet DEF Mapped
    <2>6. Holds(T, EmptyNode, e) /\ EmptyNode.type = "node4"
        BY <2>5, EmptySeq DEF Holds, EmptyNode, LinearOf, IsNode, Linear
    <2>7. PICK one : one = AddChild(EmptyNode, b, x)
        OBVIOUS
    <2>8. Holds(T, one, f)
        <3>1. LET h == [e EXCEPT ![b] = x]  q == AddChild(EmptyNode, b, x)
              IN  Holds(T, q, h)
            BY <2>2, <2>5, <2>6, Extended
        <3> QED BY <2>4, <2>7, <3>1
    <2>9. Rising(EmptyNode)
        BY DEF Rising, EmptyNode
    <2>10. Rising(one)
        BY <2>2, <2>5, <2>6, <2>7, <2>9, AddRises
    <2>11. \A d \in Mapped(f) : Low7(d)
        BY <2>3, <2>4 DEF Mapped
    <2>12. Rising(AddChild(one, c, y))
        BY <2>2, <2>5, <2>8, <2>10, <2>11, AddRises
    <2> QED BY <1>1, <2>7, <2>12 DEF NewNode4
<1> QED BY <1>1, <1>3, <1>4 DEF Neat

(* The order of ranks is that of the bytes.                                *)
LEMMA RanksRise ==
  ASSUME NEW n, Used(n) \subseteq Byte
  PROVE  \A i, j \in 1 .. Cardinality(Used(n)) : i < j => InByteOrder(n)[i] < InByteOrder(n)[j]
<1> DEFINE U == Used(n)  upto(c) == {b \in U : b <= c}
<1>1. IsFiniteSet(U) /\ Cardinality(U) \in Nat
    BY BytesAreFinite
<1>2. ASSUME NEW b \in U, NEW c \in U, c <= b PROVE Rank(n, c) <= Rank(n, b)
    <2>1. upto(c) \subseteq upto(b)
        BY <1>2 DEF Byte
    <2>2. IsFiniteSet(upto(b))
        BY <1>1, FS_Subset
    <2>3. Cardinality(upto(c)) <= Cardinality(upto(b))
        BY <2>1, <2>2, FS_Subset
    <2> QED BY <2>3 DEF Rank
<1>3. ASSUME NEW i \in 1 .. Cardinality(U), NEW j \in 1 .. Cardinality(U), i < j
      PROVE  InByteOrder(n)[i] < InByteOrder(n)[j]
    <2>1. PICK b \in U : b = InByteOrder(n)[i] /\ Rank(n, b) = i
        BY ByteOrder
    <2>2. PICK c \in U : c = InByteOrder(n)[j] /\ Rank(n, c) = j
        BY ByteOrder
    <2>3. ~(c <= b)
        BY <1>1, <1>2, <1>3, <2>1, <2>2
    <2>4. b \in Nat /\ c \in Nat
        BY SizesAssumption DEF SizesAssumption, Byte
    <2> QED BY <2>1, <2>2, <2>3, <2>4
<1> QED BY <1>3

LEMMA RemovedRises ==
  ASSUME NEW T, Null \notin T, NEW n, NEW f, Holds(T, n, f), NEW c \in Byte, f[c] # Null, Rising(n)
  PROVE  Rising(RemoveDirectly(n, c))
<1>1. n.type \in {"node4", "node16", "node48", "node256"} /\ IsNode(n)
    BY Counted DEF Holds
<1>2. CASE n.type \notin Linear
    <2>1. RemoveDirectly(n, c).type = n.type
        <3>1. CASE n.type = "node48"
            BY <1>1, <3>1 DEF RemoveDirectly, IsNode, Linear
        <3>2. CASE n.type = "node256"
            BY <1>1, <3>2 DEF RemoveDirectly, IsNode, Linear
        <3> QED BY <1>1, <1>2, <3>1, <3>2 DEF Linear
    <2> QED BY <1>2, <2>1 DEF Rising
<1>3. CASE n.type \in Linear
    <2>1. LinearOf(T, n, f) /\ f \in Maps(T)
        BY <1>3 DEF Holds, SlotsOf, DirectOf, Linear
    <2>2. n.num \in Nat /\ n.keys \in Seq(Byte) /\ Len(n.keys) = n.num
        BY <2>1, OnePlace DEF LinearOf
    <2>3. PICK s \in Seq(Byte) : s = n.keys
        BY <2>2
    <2>4. PICK k \in Nat : k = n.num /\ Len(s) = k
        BY <2>2, <2>3
    <2>5. PICK p \in 1 .. k : p = Min(Positions(n, c))
        <3>1. PICK i \in 1 .. n.num : n.keys[i] = c
            BY <2>1 DEF LinearOf, Mapped
        <3>2. Positions(n, c) = {i}
            BY <2>1, <3>1, OnePlace
        <3> QED BY <2>2, <2>4, <3>2, MinOfOne
    <2>6. PICK t : t = RemoveAt(s, p)
        OBVIOUS
    <2>7. \A j \in 1 .. k - 1 : t[j] = IF j < p THEN s[j] ELSE s[j + 1]
        <3>1. p \in 1 .. Len(s)
            BY <2>4
        <3> QED BY <2>4, <2>6, <3>1, Removed
    <2>8. \A i, j \in 1 .. k : i < j => s[i] < s[j]
        BY <1>3, <2>3, <2>4 DEF Rising
    <2>9. ASSUME NEW i \in 1 .. k - 1, NEW j \in 1 .. k - 1, i < j PROVE t[i] < t[j]
        <3>1. PICK a \in 1 .. k : t[i] = s[a] /\ a = IF i < p THEN i ELSE i + 1
            BY <2>7
        <3>2. PICK b \in 1 .. k : t[j] = s[b] /\ b = IF j < p THEN j ELSE j + 1
            BY <2>7
        <3>3. a < b
            BY <2>9, <3>1, <3>2
        <3> QED BY <2>8, <3>1, <3>2, <3>3
    <2>10. RemoveDirectly(n, c).num = k - 1 /\ RemoveDirectly(n, c).keys = t
        <3>1. RemoveDirectly(n, c) = [n EXCEPT !.num = @ - 1,
                                               !.keys = RemoveAt(@, Min(Positions(n, c))),
                                               !.kids = RemoveAt(@, Min(Positions(n, c)))]
            BY <1>3 DEF RemoveDirectly, Linear
        <3>2. RemoveDirectly(n, c).num = n.num - 1
            BY <1>1, <3>1 DEF IsNode
        <3>3. RemoveDirectly(n, c).keys = RemoveAt(n.keys, Min(Positions(n, c)))
            BY <1>1, <3>1 DEF IsNode
        <3> QED BY <2>3, <2>4, <2>5, <2>6, <3>2, <3>3
    <2> QED BY <2>9, <2>10 DEF Rising
<1> QED BY <1>2, <1>3

LEMMA ShrinkRises ==
  ASSUME NEW T, Null \notin T, NEW n, NEW f, Holds(T, n, f), n.type # "node4", n.num = Low(n.type), Rising(n)
  PROVE  Rising(Shrink(n))
<1>1. n.type \in {"node4", "node16", "node48", "node256"} /\ IsNode(n)
    BY Counted DEF Holds
<1>2. CASE n.type = "node16"
    <2>1. Shrink(n) = [type |-> "node4", num |-> n.num, keys |-> n.keys, kids |-> n.kids]
        BY <1>1, <1>2 DEF Shrink, IsNode
    <2> QED BY <1>2, <2>1 DEF Rising, Linear
<1>3. CASE n.type = "node48"
    <2>1. Used(n) \subseteq Byte /\ n.num = Cardinality(Used(n))
        BY <1>3, Found, Counted, MappedIsFinite
    <2>2. Shrink(n).num = n.num /\ Shrink(n).keys = InByteOrder(n)
        BY <1>1, <1>3 DEF Shrink, IsNode
    <2> QED BY <2>1, <2>2, RanksRise DEF Rising
<1>4. CASE n.type = "node256"
    <2>1. Shrink(n).type = "node48"
        BY <1>1, <1>4 DEF Shrink, IsNode
    <2> QED BY <2>1 DEF Rising, Linear
<1> QED BY <1>1, <1>2, <1>3, <1>4

LEMMA NeatRemoved ==
  ASSUME NEW n, Sound(n), NEW c \in Byte, FindChild(n, c) # Null, ~GivesWay(n), Neat(n)
  PROVE  Neat(RemoveChild(n, c))
<1>1. PICK m : m = RemoveChild(n, c)
    OBVIOUS
<1>2. Sound(m) /\ \A b \in Byte : FindChild(m, b) = IF b = c THEN Null ELSE FindChild(n, b)
    BY <1>1, NodeRemoved
<1>3. \A b \in Used(m) : Low7(b)
    BY <1>2, UsedAreFound DEF Neat
<1>4. Rising(m)
    <2>1. PICK T : T = KidsOf(n)
        OBVIOUS
    <2>2. PICK f : f = Content(n)
        OBVIOUS
    <2>3. Null \notin T /\ Holds(T, n, f) /\ f[c] # Null /\ Rising(n)
        BY <2>1, <2>2 DEF KidsOf, Sound, Content, Neat
    <2>4. PICK d : d = RemoveDirectly(n, c)
        OBVIOUS
    <2>5. Holds(T, d, [f EXCEPT ![c] = Null]) /\ Rising(d)
        BY <2>3, <2>4, RemovesDirectly, RemovedRises
    <2>6. m = IF d.type # "node4" /\ d.num = Low(d.type) THEN Shrink(d) ELSE d
        BY <1>1, <2>4 DEF RemoveChild
    <2> QED BY <2>3, <2>5, <2>6, ShrinkRises
<1> QED BY <1>1, <1>3, <1>4 DEF Neat

LEMMA NeatRepointed ==
  ASSUME NEW n, Sound(n), Neat(n), NEW w, Sound([n EXCEPT !.kids = w]),
         \A c \in Byte : FindChild([n EXCEPT !.kids = w], c) # Null => FindChild(n, c) # Null
  PROVE  Neat([n EXCEPT !.kids = w])
<1>1. PICK m : m = [n EXCEPT !.kids = w]
    OBVIOUS
<1>2. \A b \in Used(m) : Low7(b)
    BY <1>1, UsedAreFound DEF Neat
<1>3. IsNode(n)
    BY DEF Sound, Holds
<1>4. m = [type |-> n.type, num |-> n.num, keys |-> n.keys, kids |-> w]
    BY <1>1, <1>3 DEF IsNode
<1>5. Rising(m)
    BY <1>4 DEF Rising, Neat
<1> QED BY <1>1, <1>2, <1>5 DEF Neat

LEMMA NeatSet ==
  ASSUME NEW n, Sound(n), NEW c \in Byte, FindChild(n, c) # Null, NEW x, x # Null, Neat(n)
  PROVE  Neat(SetChild(n, c, x))
<1>1. PICK m : m = SetChild(n, c, x)
    OBVIOUS
<1>2. Sound(m) /\ \A b \in Byte : FindChild(m, b) = IF b = c THEN x ELSE FindChild(n, b)
    BY <1>1, NodeSet
<1>3. \A b \in Used(m) : Low7(b)
    BY <1>2, UsedAreFound DEF Neat
<1>4. IsNode(n) /\ n.type \in {"node4", "node16", "node48", "node256"}
    <2>1. Null \notin KidsOf(n) /\ Holds(KidsOf(n), n, Content(n))
        BY DEF KidsOf, Sound
    <2> QED BY <2>1, Counted DEF Holds
<1>5. m.type = n.type /\ m.num = n.num /\ m.keys = n.keys
    BY <1>1, <1>4 DEF SetChild, IsNode, Linear
<1>6. Rising(m)
    BY <1>5 DEF Rising, Neat
<1> QED BY <1>1, <1>3, <1>6 DEF Neat
===============================================================================
