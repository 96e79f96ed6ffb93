----------------------------- MODULE ArtTreeProofs -----------------------------
(***************************************************************************)
(* Proofs about ArtTree, for any set of keys of which none is a prefix of  *)
(* another and none is long enough for its byte LockedByte to be locked,   *)
(* any number of kept prefix bytes and any sizes of nodes; with the        *)
(* iterations and scans of ArtTreeScans, whose order asks for bytes below  *)
(* 128, as a node16 compares its bytes as signed numbers.                  *)
(***************************************************************************)
EXTENDS ArtTreeScans, ArtNodeLemmas

(* Every number of 0 .. M is in S if 0 is and the next one always is.      *)
LEMMA Upward ==
  ASSUME NEW M \in Nat, NEW S, 0 \in S, \A h \in 0 .. M : h \in S /\ h < M => h + 1 \in S
  PROVE  \A h \in 0 .. M : h \in S
<1> DEFINE T == {h \in 0 .. M : h \notin S}
<1>1. SUFFICES ASSUME T # {} PROVE FALSE
    OBVIOUS
<1>2. T \in SUBSET Nat
    OBVIOUS
<1>3. PICK m : m \in T /\ \A h \in T : m <= h
    <2> HIDE DEF T
    <2> QED BY <1>1, <1>2, MinInSet
<1>5. m \in Nat /\ m <= M /\ m \notin S /\ m # 0
    BY <1>3
<1>6. m - 1 \in 0 .. M /\ m - 1 \notin T
    BY <1>3, <1>5
<1>7. m - 1 \in S /\ m - 1 < M /\ (m - 1) + 1 = m
    BY <1>5, <1>6
<1> QED BY <1>5, <1>6, <1>7

(* And downwards.                                                          *)
LEMMA Downward ==
  ASSUME NEW M \in Nat, NEW S, M \in S, \A h \in 0 .. M : h + 1 \in S /\ h < M => h \in S
  PROVE  \A h \in 0 .. M : h \in S
<1> DEFINE T == {h \in 0 .. M : M - h \in S}
<1>1. 0 \in T
    OBVIOUS
<1>2. ASSUME NEW h \in 0 .. M, h \in T, h < M PROVE h + 1 \in T
    <2>1. M - (h + 1) \in 0 .. M /\ (M - (h + 1)) + 1 = M - h /\ M - (h + 1) < M
        BY <1>2
    <2> QED BY <1>2, <2>1
<1>3. \A h \in 0 .. M : h \in T
    <2> HIDE DEF T
    <2> QED BY <1>1, <1>2, Upward
<1>4. ASSUME NEW h \in 0 .. M PROVE h \in S
    <2>1. M - h \in T /\ M - (M - h) = h
        BY <1>3
    <2> QED BY <2>1
<1> QED BY <1>4

LEMMA Lengths ==
  /\ MaxLen \in Nat /\ MaxPrefix \in Nat
  /\ \A k \in Keys : /\ k \in Seq(Byte) /\ Len(k) \in 0 .. MaxLen
                     /\ \A i \in 1 .. Len(k) : k[i] \in Byte
<1>1. MaxLen \in Nat /\ MaxPrefix \in Nat
    BY KeysAssumption, SettingsAssumption DEF KeysAssumption, SettingsAssumption
<1>2. ASSUME NEW k \in Keys
      PROVE  k \in Seq(Byte) /\ Len(k) \in 0 .. MaxLen /\ \A i \in 1 .. Len(k) : k[i] \in Byte
    <2>1. k \in Seq(Byte) /\ Len(k) <= MaxLen
        BY KeysAssumption DEF KeysAssumption
    <2> QED BY <2>1, LenProperties, ElementOfSeq
<1> QED BY <1>1, <1>2

(* A key that begins like another one up to its end is that one.           *)
LEMMA NoPrefix ==
  ASSUME NEW k \in Keys, NEW m \in Keys, \A i \in 1 .. Len(k) : i <= Len(m) => k[i] = m[i]
  PROVE  k = m
BY KeysAssumption DEF KeysAssumption

LEMMA LesserIs ==
  ASSUME NEW a \in Int, NEW b \in Int
  PROVE  Lesser(a, b) \in {a, b} /\ Lesser(a, b) <= a /\ Lesser(a, b) <= b
BY DEF Lesser

-------------------------------------------------------------------------------
(* Subtree x at depth d holds the leaves L, and is in R with all that is   *)
(* below it.                                                               *)
LeafOK(x) ==
  /\ x = [type |-> "leaf", key |-> x.key, ended |-> x.ended]
  /\ x.key \in Keys /\ x.ended \in BOOLEAN

Branch(L, i, c) == {l \in L : l.key[i] = c}

Holding(x, L) == LeafOK(x) /\ L = {x}

(* No byte of a key is one that a node16 takes for a negative number.      *)
LowBytes == \A k \in Keys : \A i \in 1 .. Len(k) : Low7(k[i])

(* What an inner node says of the leaves below it.                         *)
Heading(x, d, L) ==
  /\ x = [type |-> "inner", plen |-> x.plen, partial |-> x.partial, node |-> x.node]
  /\ x.plen \in Nat /\ Sound(x.node) /\ (LowBytes => Neat(x.node))
  /\ \A l \in L : /\ LeafOK(l) /\ Len(l.key) > d + x.plen
                  /\ FindChild(x.node, l.key[d + x.plen + 1]) # Null
                  /\ x.partial = SubSeq(l.key, d + 1, d + Lesser(x.plen, MaxPrefix))
  /\ \A l, m \in L : \A i \in d + 1 .. d + x.plen : l.key[i] = m.key[i]
  /\ \E b, c \in Used(x.node) : b # c

Fits(x, d, L, R) ==
  \/ Holding(x, L)
  \/ /\ Heading(x, d, L)
     /\ \A c \in Byte : FindChild(x.node, c) # Null =>
          <<FindChild(x.node, c), d + x.plen + 1, Branch(L, d + x.plen + 1, c)>> \in R

Closed(R) == \A x, d, L : <<x, d, L>> \in R => d \in Nat /\ L # {} /\ Fits(x, d, L, R)

Rep(x, d, L) == \E R : <<x, d, L>> \in R /\ Closed(R)

(* The children of an inner node.                                          *)
Spread(x, d, L) ==
  \A c \in Byte : FindChild(x.node, c) # Null =>
    Rep(FindChild(x.node, c), d + x.plen + 1, Branch(L, d + x.plen + 1, c))

LEMMA Unfold ==
  ASSUME NEW x, NEW d, NEW L, Rep(x, d, L)
  PROVE  /\ d \in Nat /\ L # {}
         /\ Holding(x, L) \/ (Heading(x, d, L) /\ Spread(x, d, L))
<1>1. PICK R : <<x, d, L>> \in R /\ Closed(R)
    BY DEF Rep
<1>2. d \in Nat /\ L # {} /\ Fits(x, d, L, R)
    BY <1>1 DEF Closed
<1> QED BY <1>1, <1>2 DEF Fits, Rep, Spread

LEMMA FoldLeaf ==
  ASSUME NEW x, NEW d \in Nat, LeafOK(x)
  PROVE  Rep(x, d, {x})
<1> DEFINE R == {<<x, d, {x}>>}
<1>1. Closed(R)
    BY DEF Closed, Fits, Holding
<1> QED BY <1>1 DEF Rep

LEMMA FitsMore ==
  ASSUME NEW x, NEW d, NEW L, NEW R, NEW S, R \subseteq S, Fits(x, d, L, R)
  PROVE  Fits(x, d, L, S)
BY DEF Fits

LEMMA FoldInner ==
  ASSUME NEW x, NEW d \in Nat, NEW L, L # {}, Heading(x, d, L), Spread(x, d, L)
  PROVE  Rep(x, d, L)
<1> DEFINE child(c) == <<FindChild(x.node, c), d + x.plen + 1, Branch(L, d + x.plen + 1, c)>>
           C == {c \in Byte : FindChild(x.node, c) # Null}
           part(c) == CHOOSE R : child(c) \in R /\ Closed(R)
           S == {<<x, d, L>>} \cup UNION {part(c) : c \in C}
<1>1. ASSUME NEW c \in C PROVE child(c) \in part(c) /\ Closed(part(c))
    <2>1. \E R : child(c) \in R /\ Closed(R)
        BY DEF Spread, Rep
    <2> QED BY <2>1
<1> HIDE DEF part
<1>2. \A c \in C : child(c) \in S
    BY <1>1
<1>3. Fits(x, d, L, S)
    BY <1>2 DEF Fits
<1>4. ASSUME NEW y, NEW e, NEW M, <<y, e, M>> \in S
      PROVE  e \in Nat /\ M # {} /\ Fits(y, e, M, S)
    <2>1. CASE <<y, e, M>> = <<x, d, L>>
        BY <1>3, <2>1
    <2>2. CASE \E c \in C : <<y, e, M>> \in part(c)
        <3>1. PICK c \in C : <<y, e, M>> \in part(c)
            BY <2>2
        <3>2. e \in Nat /\ M # {} /\ Fits(y, e, M, part(c))
            BY <1>1, <3>1 DEF Closed
        <3>3. part(c) \subseteq S
            OBVIOUS
        <3> HIDE DEF S, C
        <3> QED BY <3>2, <3>3, FitsMore
    <2> QED BY <1>4, <2>1, <2>2
<1>5. <<x, d, L>> \in S
    OBVIOUS
<1>6. Closed(S)
    <2> HIDE DEF S
    <2> QED BY <1>4 DEF Closed
<1> HIDE DEF S
<1> QED BY <1>5, <1>6 DEF Rep

(* A subtree is of one kind and is not Null.                               *)
LEMMA Kinds ==
  ASSUME NEW x, NEW d, NEW L, Rep(x, d, L)
  PROVE  /\ x # Null
         /\ IsLeaf(x) <=> Holding(x, L)
         /\ IsInner(x) <=> Heading(x, d, L) /\ Spread(x, d, L)
         /\ IsLeaf(x) <=> ~IsInner(x)
         /\ \A l \in L : LeafOK(l)
BY Unfold, SettingsAssumption DEF SettingsAssumption, Holding, LeafOK, Heading, IsLeaf, IsInner

LEMMA NullIsNeither == ~IsLeaf(Null) /\ ~IsInner(Null)
BY SettingsAssumption DEF SettingsAssumption, IsLeaf, IsInner

-------------------------------------------------------------------------------
(* The ways through a tree exist, hop by hop.                              *)
ToFirst(m) == IF IsInner(m) THEN FirstChild(m.node) ELSE m

LEMMA MinimumWay ==
  ASSUME NEW n
  PROVE  \E f : /\ f[0] = n /\ Minimum(n) = f[MaxLen]
                /\ \A h \in 0 .. MaxLen : h < MaxLen => f[h + 1] = ToFirst(f[h])
<1> DEFINE Is(f, m) == f = [h \in 0 .. m |-> IF h = 0 THEN n ELSE ToFirst(f[h - 1])]
           S == {m \in 0 .. MaxLen : \E f : Is(f, m)}
<1>0. MaxLen \in Nat
    BY Lengths
<1>1. 0 \in S
    <2>1. Is([h \in 0 .. 0 |-> n], 0)
        OBVIOUS
    <2> HIDE DEF Is
    <2> QED BY <1>0, <2>1
<1>2. ASSUME NEW m \in 0 .. MaxLen, m \in S /\ m < MaxLen PROVE m + 1 \in S
    <2>1. PICK f : Is(f, m)
        <3> HIDE DEF Is
        <3> QED BY <1>2
    <2> DEFINE g == [h \in 0 .. m + 1 |-> IF h = m + 1 THEN ToFirst(f[m]) ELSE f[h]]
    <2>2. ASSUME NEW h \in 0 .. m + 1 PROVE g[h] = IF h = 0 THEN n ELSE ToFirst(g[h - 1])
        <3>1. CASE h = m + 1
            <4>1. h # 0 /\ h - 1 = m /\ m \in 0 .. m + 1 /\ m # m + 1
                BY <1>0, <3>1
            <4>2. g[m] = f[m] /\ g[h] = ToFirst(f[m])
                BY <3>1, <4>1
            <4> QED BY <4>1, <4>2
        <3>2. CASE h # m + 1
            <4>1. h \in 0 .. m /\ g[h] = f[h]
                BY <1>0, <3>2
            <4>2. f[h] = IF h = 0 THEN n ELSE ToFirst(f[h - 1])
                BY <2>1, <4>1
            <4>3. h # 0 => h - 1 \in 0 .. m + 1 /\ h - 1 # m + 1
                BY <1>0, <4>1
            <4>4. h # 0 => g[h - 1] = f[h - 1]
                BY <4>3
            <4> QED BY <4>1, <4>2, <4>4
        <3> QED BY <3>1, <3>2
    <2>3. Is(g, m + 1)
        BY <2>2
    <2> HIDE DEF Is, g
    <2> QED BY <1>0, <1>2, <2>3
<1>3. MaxLen \in S
    <2> HIDE DEF S
    <2> QED BY <1>0, <1>1, <1>2, Upward
<1> DEFINE f == CHOOSE f : Is(f, MaxLen)
<1>4. Minimum(n) = f[MaxLen]
    BY DEF Minimum, ToFirst
<1>5. Is(f, MaxLen)
    <2> HIDE DEF Is
    <2> QED BY <1>3
<1> HIDE DEF f
<1>6. f[0] = n
    BY <1>0, <1>5
<1>7. ASSUME NEW h \in 0 .. MaxLen, h < MaxLen PROVE f[h + 1] = ToFirst(f[h])
    <2>1. h + 1 \in 0 .. MaxLen /\ h + 1 # 0 /\ (h + 1) - 1 = h
        BY <1>0, <1>7
    <2> QED BY <1>5, <2>1
<1> QED BY <1>4, <1>6, <1>7

LEMMA Hops ==
  ASSUME NEW n, NEW k, NEW whole
  PROVE  \E f : /\ f[0] = <<n, 0>> /\ Way(n, k, whole) = f
                /\ \A h \in 0 .. MaxLen : h < MaxLen => f[h + 1] = Hop(f[h], k, whole)
<1> DEFINE Is(f, m) == f = [h \in 0 .. m |-> IF h = 0 THEN <<n, 0>> ELSE Hop(f[h - 1], k, whole)]
           S == {m \in 0 .. MaxLen : \E f : Is(f, m)}
<1>0. MaxLen \in Nat
    BY Lengths
<1>1. 0 \in S
    <2>1. Is([h \in 0 .. 0 |-> <<n, 0>>], 0)
        OBVIOUS
    <2> HIDE DEF Is
    <2> QED BY <1>0, <2>1
<1>2. ASSUME NEW m \in 0 .. MaxLen, m \in S /\ m < MaxLen PROVE m + 1 \in S
    <2>1. PICK f : Is(f, m)
        <3> HIDE DEF Is
        <3> QED BY <1>2
    <2> DEFINE g == [h \in 0 .. m + 1 |-> IF h = m + 1 THEN Hop(f[m], k, whole) ELSE f[h]]
    <2>2. ASSUME NEW h \in 0 .. m + 1 PROVE g[h] = IF h = 0 THEN <<n, 0>> ELSE Hop(g[h - 1], k, whole)
        <3>1. CASE h = m + 1
            <4>1. h # 0 /\ h - 1 = m /\ m \in 0 .. m + 1 /\ m # m + 1
                BY <1>0, <3>1
            <4>2. g[m] = f[m] /\ g[h] = Hop(f[m], k, whole)
                BY <3>1, <4>1
            <4> QED BY <4>1, <4>2
        <3>2. CASE h # m + 1
            <4>1. h \in 0 .. m /\ g[h] = f[h]
                BY <1>0, <3>2
            <4>2. f[h] = IF h = 0 THEN <<n, 0>> ELSE Hop(f[h - 1], k, whole)
                BY <2>1, <4>1
            <4>3. h # 0 => h - 1 \in 0 .. m + 1 /\ h - 1 # m + 1
                BY <1>0, <4>1
            <4>4. h # 0 => g[h - 1] = f[h - 1]
                BY <4>3
            <4> QED BY <4>1, <4>2, <4>4
        <3> QED BY <3>1, <3>2
    <2>3. Is(g, m + 1)
        BY <2>2
    <2> HIDE DEF Is, g
    <2> QED BY <1>0, <1>2, <2>3
<1>3. MaxLen \in S
    <2> HIDE DEF S
    <2> QED BY <1>0, <1>1, <1>2, Upward
<1> DEFINE f == CHOOSE f : Is(f, MaxLen)
<1>4. Way(n, k, whole) = f
    BY DEF Way
<1>5. Is(f, MaxLen)
    <2> HIDE DEF Is
    <2> QED BY <1>3
<1> HIDE DEF f
<1>6. f[0] = <<n, 0>>
    BY <1>0, <1>5
<1>7. ASSUME NEW h \in 0 .. MaxLen, h < MaxLen PROVE f[h + 1] = Hop(f[h], k, whole)
    <2>1. h + 1 \in 0 .. MaxLen /\ h + 1 # 0 /\ (h + 1) - 1 = h
        BY <1>0, <1>7
    <2> QED BY <1>5, <2>1
<1> QED BY <1>4, <1>6, <1>7

AllOpened(V) == UNION {Opened(x) : x \in V}

LEMMA LevelsExist ==
  ASSUME NEW n
  PROVE  \E f : /\ f[0] = {n} /\ Levels(n) = f
                /\ \A h \in 0 .. MaxLen : h < MaxLen => f[h + 1] = AllOpened(f[h])
<1> DEFINE Is(f, m) == f = [h \in 0 .. m |-> IF h = 0 THEN {n} ELSE AllOpened(f[h - 1])]
           S == {m \in 0 .. MaxLen : \E f : Is(f, m)}
<1>0. MaxLen \in Nat
    BY Lengths
<1>1. 0 \in S
    <2>1. Is([h \in 0 .. 0 |-> {n}], 0)
        OBVIOUS
    <2> HIDE DEF Is
    <2> QED BY <1>0, <2>1
<1>2. ASSUME NEW m \in 0 .. MaxLen, m \in S /\ m < MaxLen PROVE m + 1 \in S
    <2>1. PICK f : Is(f, m)
        <3> HIDE DEF Is
        <3> QED BY <1>2
    <2> DEFINE g == [h \in 0 .. m + 1 |-> IF h = m + 1 THEN AllOpened(f[m]) ELSE f[h]]
    <2>2. ASSUME NEW h \in 0 .. m + 1 PROVE g[h] = IF h = 0 THEN {n} ELSE AllOpened(g[h - 1])
        <3>1. CASE h = m + 1
            <4>1. h # 0 /\ h - 1 = m /\ m \in 0 .. m + 1 /\ m # m + 1
                BY <1>0, <3>1
            <4>2. g[m] = f[m] /\ g[h] = AllOpened(f[m])
                BY <3>1, <4>1
            <4> QED BY <4>1, <4>2
        <3>2. CASE h # m + 1
            <4>1. h \in 0 .. m /\ g[h] = f[h]
                BY <1>0, <3>2
            <4>2. f[h] = IF h = 0 THEN {n} ELSE AllOpened(f[h - 1])
                BY <2>1, <4>1
            <4>3. h # 0 => h - 1 \in 0 .. m + 1 /\ h - 1 # m + 1
                BY <1>0, <4>1
            <4>4. h # 0 => g[h - 1] = f[h - 1]
                BY <4>3
            <4> QED BY <4>1, <4>2, <4>4
        <3> QED BY <3>1, <3>2
    <2>3. Is(g, m + 1)
        BY <2>2
    <2> HIDE DEF Is, g
    <2> QED BY <1>0, <1>2, <2>3
<1>3. MaxLen \in S
    <2> HIDE DEF S
    <2> QED BY <1>0, <1>1, <1>2, Upward
<1> DEFINE f == CHOOSE f : Is(f, MaxLen)
<1>4. Levels(n) = f
    BY DEF Levels, AllOpened
<1>5. Is(f, MaxLen)
    <2> HIDE DEF Is
    <2> QED BY <1>3
<1> HIDE DEF f
<1>6. f[0] = {n}
    BY <1>0, <1>5
<1>7. ASSUME NEW h \in 0 .. MaxLen, h < MaxLen PROVE f[h + 1] = AllOpened(f[h])
    <2>1. h + 1 \in 0 .. MaxLen /\ h + 1 # 0 /\ (h + 1) - 1 = h
        BY <1>0, <1>7
    <2> QED BY <1>5, <2>1
<1> QED BY <1>4, <1>6, <1>7

AllNearby(V) == UNION {Nearby(p) : p \in V}

LEMMA SubtreesExist ==
  ASSUME NEW n
  PROVE  \E f : /\ f[0] = {<<n, 0>>} /\ Subtrees(n) = f[MaxLen]
                /\ \A h \in 0 .. MaxLen : h < MaxLen => f[h + 1] = AllNearby(f[h])
<1> DEFINE Is(f, m) == f = [h \in 0 .. m |-> IF h = 0 THEN {<<n, 0>>} ELSE AllNearby(f[h - 1])]
           S == {m \in 0 .. MaxLen : \E f : Is(f, m)}
<1>0. MaxLen \in Nat
    BY Lengths
<1>1. 0 \in S
    <2>1. Is([h \in 0 .. 0 |-> {<<n, 0>>}], 0)
        OBVIOUS
    <2> HIDE DEF Is
    <2> QED BY <1>0, <2>1
<1>2. ASSUME NEW m \in 0 .. MaxLen, m \in S /\ m < MaxLen PROVE m + 1 \in S
    <2>1. PICK f : Is(f, m)
        <3> HIDE DEF Is
        <3> QED BY <1>2
    <2> DEFINE g == [h \in 0 .. m + 1 |-> IF h = m + 1 THEN AllNearby(f[m]) ELSE f[h]]
    <2>2. ASSUME NEW h \in 0 .. m + 1 PROVE g[h] = IF h = 0 THEN {<<n, 0>>} ELSE AllNearby(g[h - 1])
        <3>1. CASE h = m + 1
            <4>1. h # 0 /\ h - 1 = m /\ m \in 0 .. m + 1 /\ m # m + 1
                BY <1>0, <3>1
            <4>2. g[m] = f[m] /\ g[h] = AllNearby(f[m])
                BY <3>1, <4>1
            <4> QED BY <4>1, <4>2
        <3>2. CASE h # m + 1
            <4>1. h \in 0 .. m /\ g[h] = f[h]
                BY <1>0, <3>2
            <4>2. f[h] = IF h = 0 THEN {<<n, 0>>} ELSE AllNearby(f[h - 1])
                BY <2>1, <4>1
            <4>3. h # 0 => h - 1 \in 0 .. m + 1 /\ h - 1 # m + 1
                BY <1>0, <4>1
            <4>4. h # 0 => g[h - 1] = f[h - 1]
                BY <4>3
            <4> QED BY <4>1, <4>2, <4>4
        <3> QED BY <3>1, <3>2
    <2>3. Is(g, m + 1)
        BY <2>2
    <2> HIDE DEF Is, g
    <2> QED BY <1>0, <1>2, <2>3
<1>3. MaxLen \in S
    <2> HIDE DEF S
    <2> QED BY <1>0, <1>1, <1>2, Upward
<1> DEFINE f == CHOOSE f : Is(f, MaxLen)
<1>4. Subtrees(n) = f[MaxLen]
    BY DEF Subtrees, AllNearby
<1>5. Is(f, MaxLen)
    <2> HIDE DEF Is
    <2> QED BY <1>3
<1> HIDE DEF f
<1>6. f[0] = {<<n, 0>>}
    BY <1>0, <1>5
<1>7. ASSUME NEW h \in 0 .. MaxLen, h < MaxLen PROVE f[h + 1] = AllNearby(f[h])
    <2>1. h + 1 \in 0 .. MaxLen /\ h + 1 # 0 /\ (h + 1) - 1 = h
        BY <1>0, <1>7
    <2> QED BY <1>5, <2>1
<1> QED BY <1>4, <1>6, <1>7

Rebuilt(p, k, whole, x, y) == IF ~GoesOn(p, k, whole) THEN x ELSE WithChild(p[1], Turn(p, k), y)

LEMMA ChangeExists ==
  ASSUME NEW n, NEW k, NEW whole, NEW x
  PROVE  \E f : /\ f[MaxLen] = x /\ Changed(n, k, whole, x) = f[0]
                /\ \A h \in 0 .. MaxLen : h < MaxLen => f[h] = Rebuilt(Way(n, k, whole)[h], k, whole, x, f[h + 1])
<1> DEFINE Is(f, m) == f = [h \in MaxLen - m .. MaxLen |-> IF h = MaxLen THEN x ELSE Rebuilt(Way(n, k, whole)[h], k, whole, x, f[h + 1])]
           S == {m \in 0 .. MaxLen : \E f : Is(f, m)}
<1>0. MaxLen \in Nat
    BY Lengths
<1>1. 0 \in S
    <2>1. Is([h \in MaxLen - 0 .. MaxLen |-> x], 0)
        BY <1>0
    <2> HIDE DEF Is
    <2> QED BY <1>0, <2>1
<1>2. ASSUME NEW m \in 0 .. MaxLen, m \in S /\ m < MaxLen PROVE m + 1 \in S
    <2>1. PICK f : Is(f, m)
        <3> HIDE DEF Is
        <3> QED BY <1>2
    <2>2. PICK e : e = MaxLen - (m + 1) /\ e \in 0 .. MaxLen /\ e < MaxLen /\ e + 1 = MaxLen - m
        BY <1>0, <1>2
    <2> DEFINE g == [h \in e .. MaxLen |-> IF h = e THEN Rebuilt(Way(n, k, whole)[h], k, whole, x, f[h + 1]) ELSE f[h]]
    <2>3. ASSUME NEW h \in e .. MaxLen PROVE g[h] = IF h = MaxLen THEN x ELSE Rebuilt(Way(n, k, whole)[h], k, whole, x, g[h + 1])
        <3>1. h # e => h \in MaxLen - m .. MaxLen /\ g[h] = f[h]
            BY <1>0, <2>2
        <3>2. h # MaxLen => h + 1 \in e .. MaxLen /\ h + 1 # e
            BY <1>0, <2>2
        <3>3. h # MaxLen => g[h + 1] = f[h + 1]
            BY <3>2
        <3>4. CASE h = e
            BY <2>2, <3>3, <3>4
        <3>5. CASE h # e
            <4>1. f[h] = IF h = MaxLen THEN x ELSE Rebuilt(Way(n, k, whole)[h], k, whole, x, f[h + 1])
                BY <2>1, <3>1, <3>5
            <4> QED BY <3>1, <3>3, <3>5, <4>1
        <3> QED BY <3>4, <3>5
    <2>4. Is(g, m + 1)
        BY <2>2, <2>3
    <2> HIDE DEF Is, g
    <2> QED BY <1>0, <1>2, <2>4
<1>3. MaxLen \in S
    <2> HIDE DEF S
    <2> QED BY <1>0, <1>1, <1>2, Upward
<1> DEFINE f == CHOOSE f : f = [h \in 0 .. MaxLen |-> IF h = MaxLen THEN x ELSE Rebuilt(Way(n, k, whole)[h], k, whole, x, f[h + 1])]
<1>4. Changed(n, k, whole, x) = f[0]
    BY DEF Changed, Rebuilt
<1>5. f = [h \in 0 .. MaxLen |-> IF h = MaxLen THEN x ELSE Rebuilt(Way(n, k, whole)[h], k, whole, x, f[h + 1])]
    <2>1. PICK q : Is(q, MaxLen)
        <3> HIDE DEF Is
        <3> QED BY <1>3
    <2>2. MaxLen - MaxLen = 0
        BY <1>0
    <2>3. \E r : r = [h \in 0 .. MaxLen |-> IF h = MaxLen THEN x ELSE Rebuilt(Way(n, k, whole)[h], k, whole, x, r[h + 1])]
        BY <2>1, <2>2
    <2> QED BY <2>3
<1> HIDE DEF f
<1>6. f[MaxLen] = x
    BY <1>0, <1>5
<1>7. ASSUME NEW h \in 0 .. MaxLen, h < MaxLen PROVE f[h] = Rebuilt(Way(n, k, whole)[h], k, whole, x, f[h + 1])
    BY <1>0, <1>5, <1>7
<1> QED BY <1>4, <1>6, <1>7

AllUpdated(V, F, u) == [x \in V |-> WithUpdate(x, F, u)]

LEMMA UpdateExists ==
  ASSUME NEW n, NEW F
  PROVE  \E f : /\ f[MaxLen] = AllUpdated(Levels(n)[MaxLen], F, <<>>) /\ WithUpdates(n, F) = f[0][n]
                /\ \A h \in 0 .. MaxLen : h < MaxLen => f[h] = AllUpdated(Levels(n)[h], F, f[h + 1])
<1> DEFINE Is(f, m) == f = [h \in MaxLen - m .. MaxLen |-> IF h = MaxLen THEN AllUpdated(Levels(n)[h], F, <<>>) ELSE AllUpdated(Levels(n)[h], F, f[h + 1])]
           S == {m \in 0 .. MaxLen : \E f : Is(f, m)}
<1>0. MaxLen \in Nat
    BY Lengths
<1>1. 0 \in S
    <2>1. Is([h \in MaxLen - 0 .. MaxLen |-> AllUpdated(Levels(n)[h], F, <<>>)], 0)
        BY <1>0
    <2> HIDE DEF Is
    <2> QED BY <1>0, <2>1
<1>2. ASSUME NEW m \in 0 .. MaxLen, m \in S /\ m < MaxLen PROVE m + 1 \in S
    <2>1. PICK f : Is(f, m)
        <3> HIDE DEF Is
        <3> QED BY <1>2
    <2>2. PICK e : e = MaxLen - (m + 1) /\ e \in 0 .. MaxLen /\ e < MaxLen /\ e + 1 = MaxLen - m
        BY <1>0, <1>2
    <2> DEFINE g == [h \in e .. MaxLen |-> IF h = e THEN AllUpdated(Levels(n)[h], F, f[h + 1]) ELSE f[h]]
    <2>3. ASSUME NEW h \in e .. MaxLen PROVE g[h] = IF h = MaxLen THEN AllUpdated(Levels(n)[h], F, <<>>) ELSE AllUpdated(Levels(n)[h], F, g[h + 1])
        <3>1. h # e => h \in MaxLen - m .. MaxLen /\ g[h] = f[h]
            BY <1>0, <2>2
        <3>2. h # MaxLen => h + 1 \in e .. MaxLen /\ h + 1 # e
            BY <1>0, <2>2
        <3>3. h # MaxLen => g[h + 1] = f[h + 1]
            BY <3>2
        <3>4. CASE h = e
            BY <2>2, <3>3, <3>4
        <3>5. CASE h # e
            <4>1. f[h] = IF h = MaxLen THEN AllUpdated(Levels(n)[h], F, <<>>) ELSE AllUpdated(Levels(n)[h], F, f[h + 1])
                BY <2>1, <3>1, <3>5
            <4> QED BY <3>1, <3>3, <3>5, <4>1
        <3> QED BY <3>4, <3>5
    <2>4. Is(g, m + 1)
        BY <2>2, <2>3
    <2> HIDE DEF Is, g
    <2> QED BY <1>0, <1>2, <2>4
<1>3. MaxLen \in S
    <2> HIDE DEF S
    <2> QED BY <1>0, <1>1, <1>2, Upward
<1> DEFINE f == CHOOSE f : f = [h \in 0 .. MaxLen |-> IF h = MaxLen THEN AllUpdated(Levels(n)[h], F, <<>>) ELSE AllUpdated(Levels(n)[h], F, f[h + 1])]
<1>4. WithUpdates(n, F) = f[0][n]
    BY DEF WithUpdates, AllUpdated
<1>5. f = [h \in 0 .. MaxLen |-> IF h = MaxLen THEN AllUpdated(Levels(n)[h], F, <<>>) ELSE AllUpdated(Levels(n)[h], F, f[h + 1])]
    <2>1. PICK q : Is(q, MaxLen)
        <3> HIDE DEF Is
        <3> QED BY <1>3
    <2>2. MaxLen - MaxLen = 0
        BY <1>0
    <2>3. \E r : r = [h \in 0 .. MaxLen |-> IF h = MaxLen THEN AllUpdated(Levels(n)[h], F, <<>>) ELSE AllUpdated(Levels(n)[h], F, r[h + 1])]
        BY <2>1, <2>2
    <2> QED BY <2>3
<1> HIDE DEF f
<1>6. f[MaxLen] = AllUpdated(Levels(n)[MaxLen], F, <<>>)
    BY <1>0, <1>5
<1>7. ASSUME NEW h \in 0 .. MaxLen, h < MaxLen PROVE f[h] = AllUpdated(Levels(n)[h], F, f[h + 1])
    BY <1>0, <1>5, <1>7
<1> QED BY <1>4, <1>6, <1>7

-------------------------------------------------------------------------------
(* What is below a subtree.                                                *)
LEMMA Child ==
  ASSUME NEW x, NEW d, NEW L, Rep(x, d, L), IsInner(x), NEW c \in Byte, FindChild(x.node, c) # Null
  PROVE  /\ Rep(FindChild(x.node, c), d + x.plen + 1, Branch(L, d + x.plen + 1, c))
         /\ x.plen \in Nat /\ d \in Nat /\ d < MaxLen
<1>1. d \in Nat /\ L # {} /\ Heading(x, d, L) /\ Spread(x, d, L)
    BY Unfold, Kinds
<1>2. PICK l \in L : LeafOK(l) /\ Len(l.key) > d + x.plen
    BY <1>1 DEF Heading
<1>3. Len(l.key) \in 0 .. MaxLen /\ MaxLen \in Nat
    BY <1>2, Lengths DEF LeafOK
<1>4. x.plen \in Nat
    BY <1>1 DEF Heading
<1> QED BY <1>1, <1>2, <1>3, <1>4 DEF Spread

LEMMA InnerIsHigh ==
  ASSUME NEW x, NEW d, NEW L, Rep(x, d, L), IsInner(x)
  PROVE  d \in Nat /\ d < MaxLen /\ Sound(x.node) /\ x.plen \in Nat
<1>1. d \in Nat /\ L # {} /\ Heading(x, d, L)
    BY Unfold, Kinds
<1>2. PICK l \in L : LeafOK(l) /\ Len(l.key) > d + x.plen
    BY <1>1 DEF Heading
<1>3. Len(l.key) \in 0 .. MaxLen /\ MaxLen \in Nat
    BY <1>2, Lengths DEF LeafOK
<1>4. x.plen \in Nat /\ Sound(x.node)
    BY <1>1 DEF Heading
<1> QED BY <1>1, <1>2, <1>3, <1>4

(* minimum() comes to one of the leaves.                                   *)
LEMMA MinimumIsLeaf ==
  ASSUME NEW x, NEW d, NEW L, Rep(x, d, L)
  PROVE  Minimum(x) \in L /\ LeafOK(Minimum(x))
<1>0. MaxLen \in Nat
    BY Lengths
<1>1. PICK f : /\ f[0] = x /\ Minimum(x) = f[MaxLen]
               /\ \A h \in 0 .. MaxLen : h < MaxLen => f[h + 1] = ToFirst(f[h])
    BY MinimumWay
<1> DEFINE Good(h) == \E e, M : Rep(f[h], e, M) /\ M \subseteq L /\ (IsInner(f[h]) => e >= h)
           S == {h \in 0 .. MaxLen : Good(h)}
<1>2. 0 \in S
    <2>1. Rep(f[0], d, L) /\ d \in Nat
        BY <1>1, Unfold
    <2> QED BY <1>0, <2>1
<1>3. ASSUME NEW h \in 0 .. MaxLen, h \in S /\ h < MaxLen PROVE h + 1 \in S
    <2>1. PICK e, M : Rep(f[h], e, M) /\ M \subseteq L /\ (IsInner(f[h]) => e >= h)
        BY <1>3
    <2>2. h + 1 \in 0 .. MaxLen
        BY <1>0, <1>3
    <2>3. CASE ~IsInner(f[h])
        <3>1. f[h + 1] = f[h]
            BY <1>1, <1>3, <2>3 DEF ToFirst
        <3>2. Good(h + 1)
            BY <2>1, <2>3, <3>1
        <3> QED BY <2>2, <3>2
    <2>4. CASE IsInner(f[h])
        <3>1. f[h + 1] = FirstChild(f[h].node)
            BY <1>1, <1>3, <2>4 DEF ToFirst
        <3>2. Sound(f[h].node)
            BY <2>1, <2>4, InnerIsHigh
        <3>3. PICK c \in Byte : f[h + 1] = FindChild(f[h].node, c) /\ FindChild(f[h].node, c) # Null
            BY <3>1, <3>2, FirstIsChild, UsedAreFound
        <3>4. /\ Rep(FindChild(f[h].node, c), e + f[h].plen + 1, Branch(M, e + f[h].plen + 1, c))
              /\ f[h].plen \in Nat /\ e \in Nat
            BY <2>1, <2>4, <3>3, Child
        <3>5. Branch(M, e + f[h].plen + 1, c) \subseteq L /\ e + f[h].plen + 1 >= h + 1
            BY <2>1, <2>4, <3>4 DEF Branch
        <3>6. Good(h + 1)
            BY <3>3, <3>4, <3>5
        <3> QED BY <2>2, <3>6
    <2> QED BY <2>3, <2>4
<1>4. MaxLen \in S
    <2> HIDE DEF S
    <2> QED BY <1>0, <1>2, <1>3, Upward
<1>5. PICK e, M : Rep(f[MaxLen], e, M) /\ M \subseteq L /\ (IsInner(f[MaxLen]) => e >= MaxLen)
    BY <1>4
<1>6. ~IsInner(f[MaxLen])
    BY <1>0, <1>5, InnerIsHigh
<1>7. Holding(f[MaxLen], M)
    BY <1>5, <1>6, Kinds
<1> QED BY <1>1, <1>5, <1>7 DEF Holding

LEMMA KidsOfInner ==
  ASSUME NEW x, Sound(x.node)
  PROVE  /\ \A y \in Range(x.node.kids) : y # Null => \E c \in Byte : y = FindChild(x.node, c)
         /\ \A c \in Byte : FindChild(x.node, c) # Null => FindChild(x.node, c) \in Range(x.node.kids)
BY Pointers DEF Range

(* Whatever has been opened.                                               *)
LEMMA LevelsHold ==
  ASSUME NEW x, NEW d, NEW L, Rep(x, d, L), NEW h \in 0 .. MaxLen
  PROVE  /\ \A y \in Levels(x)[h] : y # Null =>
              \E e, M : Rep(y, e, M) /\ M \subseteq L /\ (IsInner(y) => e >= h)
         /\ \A l \in L : \E y \in Levels(x)[h] :
              \E e, M : Rep(y, e, M) /\ M \subseteq L /\ l \in M
<1>0. MaxLen \in Nat
    BY Lengths
<1>1. PICK f : /\ f[0] = {x} /\ Levels(x) = f
               /\ \A i \in 0 .. MaxLen : i < MaxLen => f[i + 1] = AllOpened(f[i])
    BY LevelsExist
<1> DEFINE Fine(i) == \A y \in f[i] : y # Null =>
                        \E e, M : Rep(y, e, M) /\ M \subseteq L /\ (IsInner(y) => e >= i)
           Full(i) == \A l \in L : \E y \in f[i] : \E e, M : Rep(y, e, M) /\ M \subseteq L /\ l \in M
           S == {i \in 0 .. MaxLen : Fine(i) /\ Full(i)}
<1>2. 0 \in S
    <2>1. Rep(x, d, L) /\ d \in Nat
        BY Unfold
    <2> QED BY <1>0, <1>1, <2>1
<1>3. ASSUME NEW i \in 0 .. MaxLen, i \in S /\ i < MaxLen PROVE i + 1 \in S
    <2>1. i + 1 \in 0 .. MaxLen /\ f[i + 1] = AllOpened(f[i])
        BY <1>0, <1>1, <1>3
    <2>2. ASSUME NEW y \in f[i + 1], y # Null
          PROVE  \E e, M : Rep(y, e, M) /\ M \subseteq L /\ (IsInner(y) => e >= i + 1)
        <3>1. PICK z \in f[i] : y \in Opened(z)
            BY <2>1, <2>2 DEF AllOpened
        <3>2. CASE ~IsInner(z)
            <4>1. y = z
                BY <3>1, <3>2 DEF Opened
            <4> QED BY <1>3, <2>2, <3>2, <4>1
        <3>3. CASE IsInner(z)
            <4>1. y \in Range(z.node.kids) /\ z # Null
                BY <3>1, <3>3, NullIsNeither DEF Opened
            <4>2. PICK e, M : Rep(z, e, M) /\ M \subseteq L /\ e >= i
                BY <1>3, <3>3, <4>1
            <4>3. PICK c \in Byte : y = FindChild(z.node, c)
                BY <2>2, <3>3, <4>1, <4>2, InnerIsHigh, KidsOfInner
            <4>4. Rep(y, e + z.plen + 1, Branch(M, e + z.plen + 1, c)) /\ z.plen \in Nat /\ e \in Nat
                BY <2>2, <3>3, <4>2, <4>3, Child
            <4>5. Branch(M, e + z.plen + 1, c) \subseteq L /\ e + z.plen + 1 >= i + 1
                BY <4>2, <4>4 DEF Branch
            <4> QED BY <4>4, <4>5
        <3> QED BY <3>2, <3>3
    <2>3. ASSUME NEW l \in L
          PROVE  \E y \in f[i + 1] : \E e, M : Rep(y, e, M) /\ M \subseteq L /\ l \in M
        <3>1. PICK z, e, M : z \in f[i] /\ Rep(z, e, M) /\ M \subseteq L /\ l \in M
            BY <1>3
        <3>2. CASE ~IsInner(z)
            <4>1. z \in f[i + 1]
                BY <2>1, <3>1, <3>2 DEF AllOpened, Opened
            <4> QED BY <3>1, <4>1
        <3>3. CASE IsInner(z)
            <4>1. Heading(z, e, M) /\ Spread(z, e, M) /\ e \in Nat
                BY <3>1, <3>3, Kinds, Unfold
            <4>2. z.plen \in Nat /\ LeafOK(l) /\ Len(l.key) > e + z.plen
                  /\ FindChild(z.node, l.key[e + z.plen + 1]) # Null /\ Sound(z.node)
                BY <3>1, <4>1 DEF Heading
            <4>3. PICK c \in Byte : c = l.key[e + z.plen + 1]
                <5>1. Len(l.key) \in Nat /\ e + z.plen + 1 \in 1 .. Len(l.key)
                    BY <4>1, <4>2, Lengths DEF LeafOK
                <5> QED BY <4>2, <5>1, Lengths DEF LeafOK
            <4>4. PICK y : y = FindChild(z.node, c) /\ y # Null
                BY <4>2, <4>3
            <4>5. Rep(y, e + z.plen + 1, Branch(M, e + z.plen + 1, c))
                BY <4>1, <4>4 DEF Spread
            <4>6. l \in Branch(M, e + z.plen + 1, c) /\ Branch(M, e + z.plen + 1, c) \subseteq L
                BY <3>1, <4>3 DEF Branch
            <4>7. y \in f[i + 1]
                <5>1. y \in Opened(z)
                    BY <3>3, <4>2, <4>4, KidsOfInner DEF Opened
                <5> QED BY <2>1, <3>1, <5>1 DEF AllOpened
            <4> QED BY <4>5, <4>6, <4>7
        <3> QED BY <3>2, <3>3
    <2> QED BY <2>1, <2>2, <2>3
<1>4. h \in S
    <2> HIDE DEF S
    <2> QED BY <1>0, <1>2, <1>3, Upward
<1> QED BY <1>1, <1>4

LEMMA LeavesAre ==
  ASSUME NEW x, NEW d, NEW L, Rep(x, d, L)
  PROVE  Leaves(x) = L
<1>0. MaxLen \in Nat /\ MaxLen \in 0 .. MaxLen
    BY Lengths
<1>1. PICK V : V = Levels(x)[MaxLen]
    OBVIOUS
<1>2. \A y \in V : y # Null => \E e, M : Rep(y, e, M) /\ M \subseteq L /\ (IsInner(y) => e >= MaxLen)
    BY <1>0, <1>1, LevelsHold
<1>3. \A l \in L : \E y \in V : \E e, M : Rep(y, e, M) /\ M \subseteq L /\ l \in M
    BY <1>0, <1>1, LevelsHold
<1>4. ASSUME NEW y \in V, IsLeaf(y) PROVE y \in L
    <2>1. PICK e, M : Rep(y, e, M) /\ M \subseteq L
        BY <1>2, <1>4, NullIsNeither
    <2> QED BY <1>4, <2>1, Kinds DEF Holding
<1>5. ASSUME NEW l \in L PROVE l \in V /\ IsLeaf(l)
    <2>1. PICK y, e, M : y \in V /\ Rep(y, e, M) /\ M \subseteq L /\ l \in M
        BY <1>3
    <2>2. y # Null /\ ~IsInner(y)
        <3>1. y # Null
            BY <2>1, Kinds
        <3>2. PICK e2, M2 : Rep(y, e2, M2) /\ (IsInner(y) => e2 >= MaxLen)
            BY <1>2, <2>1, <3>1
        <3> QED BY <1>0, <3>1, <3>2, InnerIsHigh
    <2>3. IsLeaf(y) /\ Holding(y, M)
        BY <2>1, <2>2, Kinds
    <2> QED BY <2>1, <2>3 DEF Holding
<1> QED BY <1>1, <1>4, <1>5 DEF Leaves

LEMMA LeavesOfNull == Leaves(Null) = {}
<1>0. MaxLen \in Nat
    BY Lengths
<1>1. PICK f : /\ f[0] = {Null} /\ Levels(Null) = f
               /\ \A i \in 0 .. MaxLen : i < MaxLen => f[i + 1] = AllOpened(f[i])
    BY LevelsExist
<1> DEFINE S == {i \in 0 .. MaxLen : f[i] = {Null}}
<1>2. 0 \in S
    BY <1>0, <1>1
<1>3. ASSUME NEW i \in 0 .. MaxLen, i \in S /\ i < MaxLen PROVE i + 1 \in S
    <2>1. f[i + 1] = {Null}
        BY <1>1, <1>3, NullIsNeither DEF AllOpened, Opened
    <2> QED BY <1>0, <1>3, <2>1
<1>4. MaxLen \in S
    <2> HIDE DEF S
    <2> QED BY <1>0, <1>2, <1>3, Upward
<1> QED BY <1>1, <1>4, NullIsNeither DEF Leaves

LEMMA SubtreesHold ==
  ASSUME NEW x, NEW L, Rep(x, 0, L)
  PROVE  \A p \in Subtrees(x) : IsInner(p[1]) => \E M : Rep(p[1], p[2], M)
<1>0. MaxLen \in Nat
    BY Lengths
<1>1. PICK f : /\ f[0] = {<<x, 0>>} /\ Subtrees(x) = f[MaxLen]
               /\ \A i \in 0 .. MaxLen : i < MaxLen => f[i + 1] = AllNearby(f[i])
    BY SubtreesExist
<1> DEFINE S == {i \in 0 .. MaxLen : \A p \in f[i] : p[1] # Null => \E M : Rep(p[1], p[2], M)}
<1>2. 0 \in S
    BY <1>0, <1>1
<1>3. ASSUME NEW i \in 0 .. MaxLen, i \in S /\ i < MaxLen PROVE i + 1 \in S
    <2>1. f[i + 1] = AllNearby(f[i])
        BY <1>1, <1>3
    <2>2. ASSUME NEW q \in f[i + 1], q[1] # Null PROVE \E M : Rep(q[1], q[2], M)
        <3>1. PICK p \in f[i] : q \in Nearby(p)
            BY <2>1 DEF AllNearby
        <3>2. CASE q = p
            BY <1>3, <2>2, <3>2
        <3>3. CASE q # p
            <4>1. IsInner(p[1]) /\ \E y \in Range(p[1].node.kids) : q = <<y, p[2] + p[1].plen + 1>>
                BY <3>1, <3>3 DEF Nearby
            <4>2. PICK y \in Range(p[1].node.kids) : q = <<y, p[2] + p[1].plen + 1>>
                BY <4>1
            <4>3. PICK M : Rep(p[1], p[2], M)
                BY <1>3, <4>1, NullIsNeither
            <4>4. Sound(p[1].node)
                BY <4>1, <4>3, InnerIsHigh
            <4>5. PICK c \in Byte : y = FindChild(p[1].node, c)
                BY <2>2, <4>2, <4>4, KidsOfInner
            <4>6. Rep(y, p[2] + p[1].plen + 1, Branch(M, p[2] + p[1].plen + 1, c))
                BY <2>2, <4>1, <4>2, <4>3, <4>5, Child
            <4> QED BY <4>2, <4>6
        <3> QED BY <3>2, <3>3
    <2> QED BY <1>0, <1>3, <2>2
<1>4. MaxLen \in S
    <2> HIDE DEF S
    <2> QED BY <1>0, <1>2, <1>3, Upward
<1> QED BY <1>1, <1>4, NullIsNeither

-------------------------------------------------------------------------------
(* How far prefixes agree.                                                 *)
LEMMA MaxInSet ==
  ASSUME NEW m \in Nat, NEW S \in SUBSET (0 .. m), S # {}
  PROVE  Max(S) \in S /\ \A y \in S : y <= Max(S)
<1> DEFINE T == {m - y : y \in S}
<1>1. T \in SUBSET Nat /\ T # {}
    <2>1. \A y \in S : y \in 0 .. m
        OBVIOUS
    <2>2. \A y \in S : m - y \in Nat
        BY <2>1
    <2> QED BY <2>2
<1>2. PICK t \in T : \A u \in T : t <= u
    <2> HIDE DEF T
    <2> QED BY <1>1, MinInSet
<1>3. PICK x \in S : t = m - x
    BY <1>2
<1>4. \A y \in S : y <= x
    <2> SUFFICES ASSUME NEW y \in S PROVE y <= x
        OBVIOUS
    <2>1. m - x <= m - y
        BY <1>2, <1>3
    <2>2. x \in 0 .. m /\ y \in 0 .. m
        OBVIOUS
    <2> QED BY <2>1, <2>2
<1>5. \E z \in S : \A y \in S : z >= y
    BY <1>4
<1> QED BY <1>5 DEF Max

LEMMA AgreeingIs ==
  ASSUME NEW p, NEW k, NEW d, NEW m \in Nat
  PROVE  /\ Agreeing(p, k, d, m) \in 0 .. m
         /\ \A j \in 1 .. Agreeing(p, k, d, m) : p[j] = k[d + j]
         /\ Agreeing(p, k, d, m) < m =>
              p[Agreeing(p, k, d, m) + 1] # k[d + (Agreeing(p, k, d, m) + 1)]
<1> DEFINE S == {i \in 0 .. m : \A j \in 1 .. i : p[j] = k[d + j]} \cup {0}
           a == Max(S)
<1>1. S \in SUBSET (0 .. m) /\ S # {}
    OBVIOUS
<1>2. a \in S /\ \A y \in S : y <= a
    <2> HIDE DEF S
    <2> QED BY <1>1, MaxInSet
<1> HIDE DEF a
<1>3. a \in 0 .. m /\ \A j \in 1 .. a : p[j] = k[d + j]
    BY <1>2
<1>4. ASSUME a < m, p[a + 1] = k[d + (a + 1)] PROVE FALSE
    <2>1. \A j \in 1 .. a + 1 : p[j] = k[d + j]
        BY <1>3, <1>4
    <2>2. a + 1 \in S
        BY <1>3, <1>4, <2>1
    <2> QED BY <1>2, <1>3, <2>2
<1>5. Agreeing(p, k, d, m) = a
    BY DEF Agreeing, a
<1> QED BY <1>3, <1>4, <1>5

(* The bytes of a key from one place to another.                           *)
LEMMA Piece ==
  ASSUME NEW k \in Seq(Byte), NEW d \in Nat, NEW e \in Nat, d <= e, e <= Len(k)
  PROVE  /\ SubSeq(k, d + 1, e) \in Seq(Byte) /\ Len(SubSeq(k, d + 1, e)) = e - d
         /\ \A j \in 1 .. e - d : SubSeq(k, d + 1, e)[j] = k[d + j]
<1>1. Len(k) \in Nat
    BY LenProperties
<1>2. d + 1 \in 1 .. Len(k) + 1 /\ e \in d .. Len(k)
    BY <1>1
<1>3. /\ SubSeq(k, d + 1, e) \in Seq(Byte)
      /\ Len(SubSeq(k, d + 1, e)) = IF d + 1 <= e THEN e - (d + 1) + 1 ELSE 0
      /\ \A j \in 1 .. e - (d + 1) + 1 : SubSeq(k, d + 1, e)[j] = k[(d + 1) + j - 1]
    BY <1>1, <1>2, SubSeqProperties
<1>4. \A j \in Nat : (d + 1) + j - 1 = d + j
    OBVIOUS
<1> QED BY <1>3, <1>4

(* The first bytes of the prefix of a node are kept.                       *)
LEMMA KeptBytes ==
  ASSUME NEW x, NEW d, NEW L, Rep(x, d, L), IsInner(x), NEW l \in L
  PROVE  /\ d \in Nat /\ x.plen \in Nat /\ l.key \in Keys /\ l.key \in Seq(Byte) /\ Len(l.key) \in Nat
         /\ Len(l.key) > d + x.plen /\ Lesser(x.plen, MaxPrefix) \in 0 .. x.plen
         /\ x.partial \in Seq(Byte) /\ Len(x.partial) = Lesser(x.plen, MaxPrefix)
         /\ \A j \in 1 .. Lesser(x.plen, MaxPrefix) : x.partial[j] = l.key[d + j]
         /\ \A m \in L : \A j \in 1 .. x.plen : l.key[d + j] = m.key[d + j]
<1>1. d \in Nat /\ Heading(x, d, L)
    BY Unfold, Kinds
<1>2. x.plen \in Nat /\ l.key \in Keys /\ Len(l.key) > d + x.plen
      /\ x.partial = SubSeq(l.key, d + 1, d + Lesser(x.plen, MaxPrefix))
      /\ \A m \in L : \A i \in d + 1 .. d + x.plen : l.key[i] = m.key[i]
    BY <1>1 DEF Heading, LeafOK
<1>3. l.key \in Seq(Byte) /\ Len(l.key) \in Nat /\ MaxPrefix \in Nat
    BY <1>2, Lengths
<1>4. Lesser(x.plen, MaxPrefix) \in 0 .. x.plen
    BY <1>2, <1>3 DEF Lesser
<1>5. PICK e \in Nat : e = d + Lesser(x.plen, MaxPrefix) /\ d <= e /\ e <= Len(l.key)
                       /\ e - d = Lesser(x.plen, MaxPrefix)
    <2>1. PICK c \in Nat : c = Lesser(x.plen, MaxPrefix) /\ c <= x.plen
        BY <1>2, <1>4
    <2>2. PICK b, h \in Nat : b = Len(l.key) /\ h = x.plen /\ b > d + h /\ c <= h
        BY <1>2, <1>3, <2>1
    <2>3. d + c \in Nat /\ d <= d + c /\ (d + c) - d = c /\ d + c <= Len(l.key)
        BY <1>1, <2>1, <2>2
    <2> QED BY <2>1, <2>3
<1>6. x.partial \in Seq(Byte) /\ Len(x.partial) = e - d /\ \A j \in 1 .. e - d : x.partial[j] = l.key[d + j]
    <2>1. x.partial = SubSeq(l.key, d + 1, e)
        BY <1>2, <1>5
    <2>2. LET q == SubSeq(l.key, d + 1, e)
          IN  q \in Seq(Byte) /\ Len(q) = e - d /\ \A j \in 1 .. e - d : q[j] = l.key[d + j]
        BY <1>1, <1>3, <1>5, Piece
    <2> QED BY <2>1, <2>2
<1>7. \A j \in 1 .. x.plen : d + j \in d + 1 .. d + x.plen
    BY <1>1, <1>2
<1> QED BY <1>1, <1>2, <1>3, <1>4, <1>5, <1>6, <1>7

LEMMA LesserFrom ==
  ASSUME NEW a \in Nat, NEW b \in Nat, NEW d \in Nat, NEW p \in Nat, a > d + p, d <= b
  PROVE  /\ Lesser(a, b) - d \in Nat /\ Lesser(a, b) - d <= a - d /\ Lesser(a, b) - d <= b - d
         /\ Lesser(a, b) - d = b - d \/ Lesser(a, b) - d > p
BY DEF Lesser

(* prefix_mismatch() finds how far the key agrees with the leaves below,   *)
(* also in the bytes of a prefix that are not kept.                        *)
LEMMA MismatchOfAny ==
  ASSUME NEW x, NEW d, NEW L, Rep(x, d, L), IsInner(x), NEW k \in Seq(Byte), d <= Len(k),
         NEW a, a = PrefixMismatch(x, k, d)
  PROVE  /\ a \in 0 .. Len(k) - d
         /\ \A l \in L : \A j \in 1 .. a : j <= x.plen => l.key[d + j] = k[d + j]
         /\ a < x.plen => a = Len(k) - d \/ \A l \in L : l.key[d + (a + 1)] # k[d + (a + 1)]
<1>1. PICK l : l = Minimum(x) /\ l \in L
    BY MinimumIsLeaf
<1>2. /\ d \in Nat /\ x.plen \in Nat /\ l.key \in Seq(Byte) /\ Len(l.key) \in Nat
      /\ Len(l.key) > d + x.plen
      /\ Lesser(x.plen, MaxPrefix) \in 0 .. x.plen
      /\ \A j \in 1 .. Lesser(x.plen, MaxPrefix) : x.partial[j] = l.key[d + j]
      /\ \A m \in L : \A j \in 1 .. x.plen : l.key[d + j] = m.key[d + j]
    BY <1>1, KeptBytes
<1>3. Len(k) \in Nat /\ MaxPrefix \in Nat
    BY Lengths, LenProperties
<1> DEFINE kept == CheckPrefix(x, k, d)
<1>4. PICK m \in Nat : m = Lesser(Lesser(x.plen, MaxPrefix), Len(k) - d)
    BY <1>2, <1>3 DEF Lesser
<1>5. /\ kept \in 0 .. m /\ \A j \in 1 .. kept : x.partial[j] = k[d + j]
      /\ kept < m => x.partial[kept + 1] # k[d + (kept + 1)]
    BY <1>4, AgreeingIs DEF CheckPrefix
<1>6. m <= Lesser(x.plen, MaxPrefix) /\ m <= Len(k) - d
      /\ (m = Lesser(x.plen, MaxPrefix) \/ m = Len(k) - d)
    BY <1>2, <1>3, <1>4 DEF Lesser
<1> HIDE DEF kept
<1>7. CASE ~(x.plen > MaxPrefix /\ kept = Lesser(MaxPrefix, Len(k) - d))
    <2>1. a = kept
        BY <1>7 DEF PrefixMismatch, kept
    <2>2. a \in 0 .. Len(k) - d /\ a <= Lesser(x.plen, MaxPrefix)
        BY <1>2, <1>3, <1>5, <1>6, <2>1
    <2>3. \A j \in 1 .. a : l.key[d + j] = k[d + j]
        BY <1>2, <1>5, <2>1, <2>2
    <2>4. ASSUME a < x.plen, a # Len(k) - d PROVE l.key[d + (a + 1)] # k[d + (a + 1)]
        <3>1. a < m
            <4>1. ASSUME a = m PROVE FALSE
                <5>1. m = Lesser(x.plen, MaxPrefix) /\ m <= Len(k) - d /\ m < x.plen
                    BY <1>6, <2>4, <4>1
                <5>2. m = MaxPrefix /\ x.plen > MaxPrefix /\ MaxPrefix <= Len(k) - d
                    BY <1>2, <1>3, <5>1 DEF Lesser
                <5>3. Lesser(MaxPrefix, Len(k) - d) = MaxPrefix
                    BY <1>2, <1>3, <5>2 DEF Lesser
                <5> QED BY <1>7, <2>1, <4>1, <5>2, <5>3
            <4> QED BY <1>5, <2>1, <4>1
        <3>2. a + 1 \in 1 .. Lesser(x.plen, MaxPrefix)
            BY <1>2, <1>5, <1>6, <2>1, <3>1
        <3> QED BY <1>2, <1>5, <2>1, <3>1, <3>2
    <2>9. a \in 0 .. Len(k) - d
        BY <1>2, <1>3, <2>2
    <2>10. ASSUME NEW n \in L, NEW j \in 1 .. a, j <= x.plen PROVE n.key[d + j] = k[d + j]
        <3>1. j \in 1 .. x.plen
            BY <1>2, <2>9, <2>10
        <3>2. l.key[d + j] = n.key[d + j]
            BY <1>2, <3>1
        <3> QED BY <2>3, <3>2
    <2>11. ASSUME a < x.plen, a # Len(k) - d, NEW n \in L PROVE n.key[d + (a + 1)] # k[d + (a + 1)]
        <3>1. a + 1 \in 1 .. x.plen
            BY <1>2, <2>9, <2>11
        <3>2. l.key[d + (a + 1)] = n.key[d + (a + 1)]
            BY <1>2, <3>1
        <3> QED BY <2>4, <2>11, <3>2
    <2> QED BY <2>9, <2>10, <2>11
<1>8. CASE x.plen > MaxPrefix /\ kept = Lesser(MaxPrefix, Len(k) - d)
    <2>1. PICK c \in Nat : /\ c = Lesser(Len(l.key), Len(k)) - d /\ c <= Len(l.key) - d
                           /\ c <= Len(k) - d /\ (c = Len(k) - d \/ c > x.plen)
        <3>1. PICK p, q \in Nat : p = Len(l.key) /\ q = Len(k) /\ p > d + x.plen /\ d <= q
            BY <1>2, <1>3
        <3>2. PICK w \in Nat : w = x.plen
            BY <1>2
        <3>3. p > d + w /\ d \in Nat
            BY <1>2, <3>1, <3>2
        <3>4. PICK c : c = Lesser(p, q) - d
            OBVIOUS
        <3>5. c \in Nat /\ c <= p - d /\ c <= q - d /\ (c = q - d \/ c > w)
            BY <3>1, <3>3, <3>4, LesserFrom
        <3> QED BY <3>1, <3>2, <3>4, <3>5
    <2>2. PICK q : q = SubSeq(l.key, d + 1, Len(l.key))
        OBVIOUS
    <2>3. a = Agreeing(q, k, d, c)
        BY <1>1, <1>8, <2>1, <2>2 DEF PrefixMismatch, kept
    <2>4. /\ a \in 0 .. c /\ \A j \in 1 .. a : q[j] = k[d + j]
          /\ a < c => q[a + 1] # k[d + (a + 1)]
        BY <2>3, AgreeingIs
    <2>5. \A j \in 1 .. Len(l.key) - d : q[j] = l.key[d + j]
        BY <1>2, <2>2, Piece
    <2>6. c <= Len(l.key) - d
        BY <2>1
    <2>7. \A j \in 1 .. a : l.key[d + j] = k[d + j]
        BY <1>2, <2>4, <2>5, <2>6
    <2>8. ASSUME a < x.plen, a # Len(k) - d PROVE l.key[d + (a + 1)] # k[d + (a + 1)]
        <3>1. PICK u, v : /\ u = Len(k) - d /\ v = Len(l.key) - d
                          /\ u \in Int /\ v \in Int
            <4>1. Len(k) - d \in Int /\ Len(l.key) - d \in Int
                BY <1>2, <1>3
            <4> QED BY <4>1
        <3>2. PICK w \in Nat : w = x.plen
            BY <1>2
        <3>3. a \in Nat /\ a <= c /\ a < w /\ a # u /\ (c = u \/ c > w) /\ c <= v
            BY <2>1, <2>4, <2>6, <2>8, <3>1, <3>2
        <3>4. a < c /\ a + 1 \in 1 .. v
            BY <3>1, <3>2, <3>3
        <3> QED BY <2>4, <2>5, <3>1, <3>4
    <2>9. a \in 0 .. Len(k) - d
        BY <1>2, <1>3, <2>1, <2>4
    <2>10. ASSUME NEW n \in L, NEW j \in 1 .. a, j <= x.plen PROVE n.key[d + j] = k[d + j]
        <3>1. j \in 1 .. x.plen
            BY <1>2, <2>9, <2>10
        <3>2. l.key[d + j] = n.key[d + j]
            BY <1>2, <3>1
        <3> QED BY <2>7, <3>2
    <2>11. ASSUME a < x.plen, a # Len(k) - d, NEW n \in L PROVE n.key[d + (a + 1)] # k[d + (a + 1)]
        <3>1. a + 1 \in 1 .. x.plen
            BY <1>2, <2>9, <2>11
        <3>2. l.key[d + (a + 1)] = n.key[d + (a + 1)]
            BY <1>2, <3>1
        <3> QED BY <2>8, <2>11, <3>2
    <2> QED BY <2>9, <2>10, <2>11
<1> QED BY <1>7, <1>8

LEMMA Mismatch ==
  ASSUME NEW x, NEW d, NEW L, Rep(x, d, L), IsInner(x), NEW k \in Keys, d <= Len(k),
         NEW a, a = PrefixMismatch(x, k, d)
  PROVE  /\ a \in 0 .. Len(k) - d
         /\ \A l \in L : \A j \in 1 .. a : j <= x.plen => l.key[d + j] = k[d + j]
         /\ a < x.plen => a = Len(k) - d \/ \A l \in L : l.key[d + (a + 1)] # k[d + (a + 1)]
BY MismatchOfAny, Lengths

-------------------------------------------------------------------------------
(* The leaves whose keys begin with the first d bytes of k.                *)
Shares(l, k, d) == \A i \in 1 .. d : l.key[i] = k[i]
Sharing(L, k, d) == {l \in L : Shares(l, k, d)}

(* Key k has a leaf in L.                                                  *)
Has(L, k) == \E l \in L : l.key = k

LEMMA LeafIsDeep ==
  ASSUME NEW l, LeafOK(l), NEW k \in Keys, NEW d \in 0 .. Len(k), Shares(l, k, d)
  PROVE  /\ l.key \in Keys /\ Len(l.key) \in Nat /\ Len(k) \in Nat /\ d <= Len(l.key)
         /\ l.key # k => \E j \in d + 1 .. Len(k) :
              /\ j <= Len(l.key) /\ l.key[j] # k[j]
              /\ d < Len(k) /\ d < Len(l.key)
<1>1. l.key \in Keys /\ Len(l.key) \in Nat /\ Len(k) \in Nat
    BY Lengths DEF LeafOK
<1>2. ASSUME l.key # k PROVE \E j \in d + 1 .. Len(k) : j <= Len(l.key) /\ l.key[j] # k[j]
    <2>1. PICK j \in 1 .. Len(k) : j <= Len(l.key) /\ l.key[j] # k[j]
        BY <1>1, <1>2, NoPrefix
    <2>2. j \notin 1 .. d
        BY <2>1 DEF Shares
    <2> QED BY <1>1, <2>1, <2>2
<1>3. d <= Len(l.key)
    BY <1>1, <1>2
<1> QED BY <1>1, <1>2, <1>3

(* A descent that goes on for a key that it is on the way to.              *)
LEMMA GoesRight ==
  ASSUME NEW x, NEW d, NEW L, Rep(x, d, L), NEW k \in Keys, d <= Len(k),
         \A l \in L : Shares(l, k, d), NEW whole \in BOOLEAN, whole \/ Has(L, k),
         GoesOn(<<x, d>>, k, whole)
  PROVE  /\ IsInner(x) /\ d \in Nat /\ x.plen \in Nat /\ d + x.plen < Len(k)
         /\ \A l \in L : Shares(l, k, d + x.plen)
         /\ Turn(<<x, d>>, k) = k[d + x.plen + 1] /\ k[d + x.plen + 1] \in Byte
<1>1. IsInner(x)
    BY DEF GoesOn
<1>2. d \in Nat /\ L # {} /\ x.plen \in Nat /\ Len(k) \in Nat
    BY <1>1, Unfold, InnerIsHigh, Lengths
<1>3. ASSUME NEW l \in L PROVE Shares(l, k, d + x.plen) /\ d + x.plen <= Len(k)
    <2>1. \A j \in 1 .. x.plen : l.key[d + j] = k[d + j]
        <3>1. CASE whole
            <4>1. PICK a : a = PrefixMismatch(x, k, d) /\ a >= x.plen
                BY <3>1 DEF GoesOn
            <4>2. a \in 0 .. Len(k) - d /\ \A j \in 1 .. a : j <= x.plen => l.key[d + j] = k[d + j]
                BY <1>1, <4>1, Mismatch
            <4> QED BY <1>2, <4>1, <4>2
        <3>2. CASE ~whole
            <4>1. PICK m \in L : m.key = k
                BY <3>2 DEF Has
            <4>2. \A j \in 1 .. x.plen : l.key[d + j] = m.key[d + j]
                BY <1>1, KeptBytes
            <4> QED BY <4>1, <4>2
        <3> QED BY <3>1, <3>2
    <2>2. \A i \in 1 .. d + x.plen : l.key[i] = k[i]
        <3> SUFFICES ASSUME NEW i \in 1 .. d + x.plen, i > d PROVE l.key[i] = k[i]
            BY <1>2 DEF Shares
        <3>1. i - d \in 1 .. x.plen /\ d + (i - d) = i
            BY <1>2
        <3> QED BY <2>1, <3>1
    <2>3. CASE whole
        <3>1. PICK a : a = PrefixMismatch(x, k, d) /\ a >= x.plen
            BY <2>3 DEF GoesOn
        <3>2. a \in 0 .. Len(k) - d
            BY <1>1, <3>1, Mismatch
        <3> QED BY <1>2, <2>2, <3>1, <3>2 DEF Shares
    <2>4. CASE ~whole
        <3>1. PICK m \in L : m.key = k
            BY <2>4 DEF Has
        <3>2. Len(m.key) > d + x.plen
            BY <1>1, KeptBytes
        <3> QED BY <1>2, <2>2, <3>1, <3>2 DEF Shares
    <2> QED BY <2>3, <2>4
<1>4. d + x.plen < Len(k)
    <2>1. PICK l \in L : TRUE
        BY <1>2
    <2>2. l.key \in Keys /\ Len(l.key) \in Nat /\ Len(l.key) > d + x.plen
        BY <1>1, KeptBytes
    <2>3. Shares(l, k, d + x.plen) /\ d + x.plen <= Len(k)
        BY <1>3
    <2>4. ASSUME d + x.plen = Len(k) PROVE FALSE
        <3>1. k = l.key
            BY <2>2, <2>3, <2>4, NoPrefix DEF Shares
        <3> QED BY <2>2, <2>4, <3>1
    <2> QED BY <1>2, <2>3, <2>4
<1>5. Turn(<<x, d>>, k) = k[d + x.plen + 1]
    BY <1>4 DEF Turn, ByteAt
<1>6. k[d + x.plen + 1] \in Byte
    BY <1>2, <1>4, Lengths
<1> QED BY <1>1, <1>2, <1>3, <1>4, <1>5, <1>6

(* For a key that is there the descent goes on through every inner node.   *)
LEMMA StoredGoesOn ==
  ASSUME NEW x, NEW d, NEW L, Rep(x, d, L), NEW k \in Keys, Has(L, k), NEW whole \in BOOLEAN
  PROVE  GoesOn(<<x, d>>, k, whole) <=> IsInner(x)
<1> SUFFICES ASSUME IsInner(x) PROVE GoesOn(<<x, d>>, k, whole)
    BY DEF GoesOn
<1>1. PICK l \in L : l.key = k
    BY DEF Has
<1>2. /\ d \in Nat /\ x.plen \in Nat /\ Len(k) \in Nat /\ Len(k) > d + x.plen
      /\ Lesser(x.plen, MaxPrefix) \in 0 .. x.plen
      /\ \A j \in 1 .. Lesser(x.plen, MaxPrefix) : x.partial[j] = k[d + j]
    BY <1>1, KeptBytes
<1>3. CASE whole
    <2>1. PICK a : a = PrefixMismatch(x, k, d)
        OBVIOUS
    <2>2. a \in 0 .. Len(k) - d
          /\ (a < x.plen => a = Len(k) - d \/ \A m \in L : m.key[d + (a + 1)] # k[d + (a + 1)])
        BY <1>2, <2>1, Mismatch
    <2>3. a >= x.plen
        BY <1>1, <1>2, <2>2
    <2> QED BY <1>3, <2>1, <2>3 DEF GoesOn
<1>4. CASE ~whole
    <2>1. PICK m \in Nat : m = Lesser(x.plen, MaxPrefix)
        BY <1>2
    <2>2. Lesser(m, Len(k) - d) = m
        BY <1>2, <2>1 DEF Lesser
    <2>3. PICK a : a = CheckPrefix(x, k, d)
        OBVIOUS
    <2>4. /\ a \in 0 .. m
          /\ a < m => x.partial[a + 1] # k[d + (a + 1)]
        BY <2>1, <2>2, <2>3, AgreeingIs DEF CheckPrefix
    <2>5. a = m
        <3>1. a < m => a + 1 \in 1 .. m
            BY <2>1, <2>4
        <3> QED BY <1>2, <2>1, <2>4, <3>1
    <2>6. Lesser(MaxPrefix, x.plen) = m
        BY <1>2, <2>1, Lengths DEF Lesser
    <2> QED BY <1>4, <2>3, <2>5, <2>6 DEF GoesOn
<1> QED BY <1>3, <1>4

-------------------------------------------------------------------------------
(* Subtree n is the tree that holds the leaves L.                          *)
Tree(n, L) == (n = Null /\ L = {}) \/ Rep(n, 0, L)

(* At p are the leaves of L that k has not been told from.                 *)
OnWay(p, L, k) ==
  /\ p = <<p[1], p[2]>> /\ p[2] \in 0 .. Len(k)
  /\ p[1] = Null => Sharing(L, k, p[2]) = {}
  /\ p[1] # Null => Rep(p[1], p[2], Sharing(L, k, p[2]))

LEMMA HasShares ==
  ASSUME NEW L, NEW k, NEW d
  PROVE  Has(L, k) => Has(Sharing(L, k, d), k)
BY DEF Has, Sharing, Shares

LEMMA HopOnWay ==
  ASSUME NEW p, NEW L, NEW k \in Keys, OnWay(p, L, k), NEW whole \in BOOLEAN, whole \/ Has(L, k),
         GoesOn(p, k, whole)
  PROVE  LET c == Turn(p, k)
             e == p[2] + p[1].plen + 1
         IN  /\ OnWay(Hop(p, k, whole), L, k) /\ Hop(p, k, whole) = <<FindChild(p[1].node, c), e>>
             /\ IsInner(p[1]) /\ Rep(p[1], p[2], Sharing(L, k, p[2]))
             /\ c \in Byte /\ c = k[e] /\ p[1].plen \in Nat /\ p[2] \in Nat /\ e \in 1 .. Len(k)
             /\ \A l \in Sharing(L, k, p[2]) : Shares(l, k, p[2] + p[1].plen)
<1>1. PICK x : x = p[1]
    OBVIOUS
<1>2. PICK d : d = p[2]
    OBVIOUS
<1>3. PICK M : M = Sharing(L, k, d)
    OBVIOUS
<1>4. p = <<x, d>> /\ IsInner(x) /\ x # Null /\ Rep(x, d, M) /\ d <= Len(k)
    BY <1>1, <1>2, <1>3, NullIsNeither DEF OnWay, GoesOn
<1>5. whole \/ Has(M, k)
    BY <1>3, HasShares
<1>6. \A l \in M : Shares(l, k, d)
    BY <1>3 DEF Sharing
<1>7. GoesOn(<<x, d>>, k, whole)
    BY <1>4
<1>8. /\ d \in Nat /\ x.plen \in Nat /\ d + x.plen < Len(k)
      /\ \A l \in M : Shares(l, k, d + x.plen)
      /\ Turn(<<x, d>>, k) = k[d + x.plen + 1] /\ k[d + x.plen + 1] \in Byte
    BY <1>4, <1>5, <1>6, <1>7, GoesRight
<1>9. PICK c \in Byte : c = k[d + x.plen + 1] /\ c = Turn(p, k)
    BY <1>4, <1>8
<1>10. PICK e : e = d + x.plen + 1 /\ e \in 1 .. Len(k)
    BY <1>8, Lengths
<1>11. PICK q : q = Hop(p, k, whole) /\ q = <<FindChild(x.node, c), e>>
    BY <1>1, <1>2, <1>9, <1>10 DEF Hop
<1>12. Sharing(L, k, e) = Branch(M, e, c)
    <2>1. ASSUME NEW l \in L, Shares(l, k, e) PROVE l \in M /\ l.key[e] = c
        <3>1. e \in 1 .. e
            BY <1>8, <1>10
        <3>2. Shares(l, k, d)
            BY <1>8, <1>10, <2>1 DEF Shares
        <3>3. l.key[e] = k[e]
            BY <2>1, <3>1 DEF Shares
        <3> QED BY <1>3, <1>9, <1>10, <2>1, <3>2, <3>3 DEF Sharing
    <2>2. ASSUME NEW l \in M, l.key[e] = c PROVE l \in L /\ Shares(l, k, e)
        <3>1. Shares(l, k, d + x.plen)
            BY <1>8
        <3>2. \A i \in 1 .. e : i \in 1 .. d + x.plen \/ i = e
            BY <1>8, <1>10
        <3>3. k[e] = c
            BY <1>9, <1>10
        <3> QED BY <1>3, <2>2, <3>1, <3>2, <3>3 DEF Sharing, Shares
    <2> QED BY <2>1, <2>2 DEF Sharing, Branch
<1>13. OnWay(q, L, k)
    <2>1. CASE FindChild(x.node, c) = Null
        <3>1. ASSUME NEW l \in M PROVE l.key[e] # c
            <4>1. FindChild(x.node, l.key[d + x.plen + 1]) # Null
                BY <1>4, Kinds DEF Heading
            <4> QED BY <1>10, <2>1, <4>1
        <3>2. Sharing(L, k, e) = {}
            BY <1>12, <3>1 DEF Branch
        <3> QED BY <1>10, <1>11, <2>1, <3>2 DEF OnWay
    <2>2. CASE FindChild(x.node, c) # Null
        <3>1. Rep(FindChild(x.node, c), e, Branch(M, e, c))
            BY <1>4, <1>10, <2>2, Child
        <3> QED BY <1>10, <1>11, <1>12, <2>2, <3>1 DEF OnWay
    <2> QED BY <2>1, <2>2
<1> QED BY <1>1, <1>2, <1>3, <1>4, <1>8, <1>9, <1>10, <1>11, <1>13

(* The descent for a key, where it is allowed to go.                       *)
LEMMA Descent ==
  ASSUME NEW n, NEW L, Tree(n, L), NEW k \in Keys, NEW whole \in BOOLEAN, whole \/ Has(L, k)
  PROVE  /\ \A h \in 0 .. MaxLen : OnWay(Way(n, k, whole)[h], L, k)
         /\ \A h \in 0 .. MaxLen : h < MaxLen =>
              Way(n, k, whole)[h + 1] = Hop(Way(n, k, whole)[h], k, whole)
         /\ Way(n, k, whole)[0] = <<n, 0>>
         /\ ~GoesOn(End(n, k, whole), k, whole)
<1>0. MaxLen \in Nat /\ Len(k) \in 0 .. MaxLen
    BY Lengths
<1>1. PICK f : /\ f[0] = <<n, 0>> /\ Way(n, k, whole) = f
               /\ \A h \in 0 .. MaxLen : h < MaxLen => f[h + 1] = Hop(f[h], k, whole)
    BY Hops
<1> DEFINE S == {h \in 0 .. MaxLen : OnWay(f[h], L, k) /\ (GoesOn(f[h], k, whole) => f[h][2] >= h)}
<1>2. 0 \in S
    <2>1. Sharing(L, k, 0) = L
        BY DEF Sharing, Shares
    <2>2. n = Null => L = {}
        BY Kinds DEF Tree
    <2>3. OnWay(f[0], L, k)
        BY <1>0, <1>1, <2>1, <2>2 DEF OnWay, Tree
    <2> QED BY <1>0, <1>1, <2>3
<1>3. ASSUME NEW h \in 0 .. MaxLen, h \in S /\ h < MaxLen PROVE h + 1 \in S
    <2>1. f[h + 1] = Hop(f[h], k, whole) /\ h + 1 \in 0 .. MaxLen
        BY <1>0, <1>1, <1>3
    <2>2. CASE ~GoesOn(f[h], k, whole)
        BY <1>3, <2>1, <2>2 DEF Hop
    <2>3. CASE GoesOn(f[h], k, whole)
        <3>1. PICK e : /\ e = f[h][2] + f[h][1].plen + 1
                       /\ OnWay(f[h + 1], L, k) /\ f[h + 1][2] = e
                       /\ f[h][1].plen \in Nat /\ f[h][2] \in Nat
            BY <1>3, <2>1, <2>3, HopOnWay
        <3>2. e >= h + 1
            BY <1>3, <2>3, <3>1
        <3> QED BY <2>1, <3>1, <3>2
    <2> QED BY <2>2, <2>3
<1>4. \A h \in 0 .. MaxLen : h \in S
    <2> HIDE DEF S
    <2> QED BY <1>0, <1>2, <1>3, Upward
<1>5. ~GoesOn(f[MaxLen], k, whole)
    <2> SUFFICES ASSUME GoesOn(f[MaxLen], k, whole) PROVE FALSE
        OBVIOUS
    <2>1. OnWay(f[MaxLen], L, k) /\ f[MaxLen][2] >= MaxLen
        BY <1>0, <1>4
    <2>2. PICK x, d : x = f[MaxLen][1] /\ d = f[MaxLen][2] /\ d >= MaxLen
        BY <2>1
    <2>3. d + x.plen + 1 \in 1 .. Len(k) /\ x.plen \in Nat /\ d \in Nat
        BY <2>1, <2>2, HopOnWay
    <2> QED BY <1>0, <2>2, <2>3
<1> QED BY <1>1, <1>4, <1>5 DEF End

-------------------------------------------------------------------------------
(* A node with the right bytes in its prefix.                              *)
LEMMA KeptAreRight ==
  ASSUME NEW m \in Nat, NEW bytes \in Seq(Byte), m <= Len(bytes),
         NEW k \in Seq(Byte), NEW d \in Nat, d + m <= Len(k),
         \A j \in 1 .. m : bytes[j] = k[d + j]
  PROVE  SubSeq(bytes, 1, m) = SubSeq(k, d + 1, d + m)
<1>1. PICK p : p = SubSeq(bytes, 1, m)
    OBVIOUS
<1>2. PICK q : q = SubSeq(k, d + 1, d + m)
    OBVIOUS
<1>3. p \in Seq(Byte) /\ Len(p) = m /\ \A j \in 1 .. m : p[j] = bytes[j]
    <2>1. LET r == SubSeq(bytes, 0 + 1, m)
          IN  r \in Seq(Byte) /\ Len(r) = m - 0 /\ \A j \in 1 .. m - 0 : r[j] = bytes[0 + j]
        BY Piece
    <2>2. 0 + 1 = 1 /\ m - 0 = m /\ \A j \in 1 .. m : 0 + j = j
        OBVIOUS
    <2> QED BY <1>1, <2>1, <2>2
<1>4. q \in Seq(Byte) /\ Len(q) = m /\ \A j \in 1 .. m : q[j] = k[d + j]
    <2>1. d + m \in Nat /\ d <= d + m /\ (d + m) - d = m
        OBVIOUS
    <2>2. LET r == SubSeq(k, d + 1, d + m)
          IN  r \in Seq(Byte) /\ Len(r) = (d + m) - d /\ \A j \in 1 .. (d + m) - d : r[j] = k[d + j]
        BY <2>1, Piece
    <2> QED BY <1>2, <2>1, <2>2
<1>5. \A j \in 1 .. Len(p) : p[j] = q[j]
    BY <1>3, <1>4
<1>6. p = q
    BY <1>3, <1>4, <1>5, SeqEqual
<1> QED BY <1>1, <1>2, <1>6

LEMMA FoldNew ==
  ASSUME NEW d \in Nat, NEW L, L # {}, NEW len \in Nat, NEW bytes \in Seq(Byte), NEW node,
         Sound(node), LowBytes => Neat(node),
         \A l \in L : /\ LeafOK(l) /\ Len(l.key) > d + len
                      /\ FindChild(node, l.key[d + len + 1]) # Null,
         \A l \in L : \A j \in 1 .. Lesser(len, MaxPrefix) : bytes[j] = l.key[d + j],
         Lesser(len, MaxPrefix) <= Len(bytes),
         \A l, m \in L : \A j \in 1 .. len : l.key[d + j] = m.key[d + j],
         \E b, c \in Used(node) : b # c,
         \A c \in Byte : FindChild(node, c) # Null =>
           Rep(FindChild(node, c), d + len + 1, Branch(L, d + len + 1, c))
  PROVE  Rep(Inner(len, bytes, node), d, L)
<1>1. PICK x : x = Inner(len, bytes, node)
    OBVIOUS
<1>2. PICK m : m = Lesser(len, MaxPrefix) /\ m \in Nat /\ m <= len
    BY Lengths DEF Lesser
<1>3. x = [type |-> "inner", plen |-> len, partial |-> SubSeq(bytes, 1, m), node |-> node]
    BY <1>1, <1>2 DEF Inner
<1>4. /\ x = [type |-> "inner", plen |-> x.plen, partial |-> x.partial, node |-> x.node]
      /\ x.plen = len /\ x.node = node /\ x.partial = SubSeq(bytes, 1, m)
    BY <1>3
<1>5. ASSUME NEW l \in L PROVE x.partial = SubSeq(l.key, d + 1, d + m)
    <2>1. l.key \in Seq(Byte) /\ Len(l.key) \in Nat /\ d + m <= Len(l.key)
        BY <1>2, Lengths DEF LeafOK
    <2>2. \A j \in 1 .. m : bytes[j] = l.key[d + j]
        BY <1>2
    <2>3. m <= Len(bytes)
        BY <1>2
    <2>4. SubSeq(bytes, 1, m) = SubSeq(l.key, d + 1, d + m)
        BY <1>2, <2>1, <2>2, <2>3, KeptAreRight, SMTT(30)
    <2> QED BY <1>4, <2>4
<1>6. ASSUME NEW l \in L, NEW n \in L, NEW i \in d + 1 .. d + len PROVE l.key[i] = n.key[i]
    <2>1. PICK j \in 1 .. len : i = d + j
        <3>1. i - d \in 1 .. len /\ d + (i - d) = i
            OBVIOUS
        <3> QED BY <3>1
    <2>2. l.key[d + j] = n.key[d + j]
        OBVIOUS
    <2> QED BY <2>1, <2>2
<1>7. Heading(x, d, L)
    BY <1>2, <1>4, <1>5, <1>6 DEF Heading
<1>8. Spread(x, d, L)
    BY <1>4 DEF Spread
<1>9. Rep(x, d, L)
    BY <1>7, <1>8, FoldInner
<1> QED BY <1>1, <1>9

(* A child that is alone takes over the prefix of its node.                *)
LEMMA MergeHolds ==
  ASSUME NEW x, NEW d \in Nat, NEW L, L # {}, x.plen \in Nat, x.partial \in Seq(Byte),
         Len(x.partial) = Lesser(x.plen, MaxPrefix), Sound(x.node), GivesWay(x.node),
         \A l \in L : /\ LeafOK(l) /\ Len(l.key) > d + x.plen
                      /\ FindChild(x.node, l.key[d + x.plen + 1]) # Null
                      /\ \A j \in 1 .. Lesser(x.plen, MaxPrefix) : x.partial[j] = l.key[d + j],
         \A l, m \in L : \A j \in 1 .. x.plen : l.key[d + j] = m.key[d + j],
         \A c \in Byte : FindChild(x.node, c) # Null =>
           Rep(FindChild(x.node, c), d + x.plen + 1, Branch(L, d + x.plen + 1, c))
  PROVE  Rep(Merge(x), d, L)
<1>1. PICK c \in Byte : c = x.node.keys[1]
    BY LastOne
<1>2. PICK y : y = x.node.kids[1] /\ y = FindChild(x.node, c) /\ y # Null
    BY <1>1, LastOne
<1>3. \A b \in Byte : b # c => FindChild(x.node, b) = Null
    BY <1>1, LastOne
<1>4. PICK e \in Nat : e = d + x.plen + 1
    OBVIOUS
<1>5. ASSUME NEW l \in L
      PROVE  l.key \in Seq(Byte) /\ Len(l.key) \in Nat /\ e <= Len(l.key) /\ l.key[e] = c
    <2>1. l.key \in Keys /\ Len(l.key) > d + x.plen /\ FindChild(x.node, l.key[e]) # Null
        BY <1>4 DEF LeafOK
    <2>2. l.key \in Seq(Byte) /\ Len(l.key) \in Nat
        BY <2>1, Lengths
    <2>3. e \in 1 .. Len(l.key)
        BY <1>4, <2>1, <2>2
    <2>4. l.key[e] \in Byte
        BY <2>1, <2>3, Lengths
    <2> QED BY <1>3, <2>1, <2>2, <2>3, <2>4
<1>6. Branch(L, e, c) = L
    BY <1>5 DEF Branch
<1>7. Rep(y, e, L)
    BY <1>2, <1>4, <1>6
<1>8. CASE IsLeaf(y)
    <2>1. LeafOK(y) /\ L = {y}
        BY <1>7, <1>8, Kinds DEF Holding
    <2>2. Merge(x) = y
        BY <1>2, <1>8 DEF Merge
    <2> QED BY <2>1, <2>2, FoldLeaf
<1>9. CASE ~IsLeaf(y)
    <2>1. IsInner(y) /\ Heading(y, e, L) /\ Spread(y, e, L)
        BY <1>7, <1>9, Kinds
    <2>2. /\ y.plen \in Nat /\ Sound(y.node) /\ \E b, a \in Used(y.node) : b # a
          /\ LowBytes => Neat(y.node)
        BY <2>1 DEF Heading
    <2>3. PICK len \in Nat : len = x.plen + 1 + y.plen /\ d + len = e + y.plen
        <3>1. \A a, b \in Nat : a + 1 + b \in Nat /\ d + (a + 1 + b) = d + a + 1 + b
            OBVIOUS
        <3>2. x.plen + 1 + y.plen \in Nat /\ d + (x.plen + 1 + y.plen) = e + y.plen
            BY <1>4, <2>2, <3>1
        <3> QED BY <3>2
    <2>4. PICK bytes : bytes = x.partial \o <<c>> \o y.partial
        OBVIOUS
    <2>5. Merge(x) = Inner(len, bytes, y.node)
        BY <1>1, <1>2, <1>9, <2>3, <2>4 DEF Merge
    <2>6. PICK one : one = x.partial \o <<c>>
        OBVIOUS
    <2>7. PICK p \in Nat : p = Lesser(x.plen, MaxPrefix) /\ p = Len(x.partial)
        BY Lengths DEF Lesser
    <2>8. /\ one \in Seq(Byte) /\ Len(one) = p + 1
          /\ \A i \in 1 .. p : one[i] = x.partial[i]
          /\ one[p + 1] = c
        <3>1. <<c>> \in Seq(Byte) /\ Len(<<c>>) = 1 /\ <<c>>[1] = c
            OBVIOUS
        <3>2. /\ x.partial \o <<c>> \in Seq(Byte)
              /\ Len(x.partial \o <<c>>) = Len(x.partial) + Len(<<c>>)
              /\ \A i \in 1 .. Len(x.partial) + Len(<<c>>) : (x.partial \o <<c>>)[i] =
                   IF i <= Len(x.partial) THEN x.partial[i] ELSE <<c>>[i - Len(x.partial)]
            BY <3>1, ConcatProperties
        <3>3. Len(one) = p + 1
            BY <2>6, <2>7, <3>1, <3>2
        <3>4. \A i \in 1 .. p + 1 : one[i] = IF i <= p THEN x.partial[i] ELSE <<c>>[i - p]
            BY <2>6, <2>7, <3>1, <3>2
        <3>5. \A i \in 1 .. p : one[i] = x.partial[i]
            BY <2>7, <3>4, SMTT(30)
        <3>6. one[p + 1] = c
            <4>1. p + 1 \in 1 .. p + 1 /\ ~(p + 1 <= p) /\ (p + 1) - p = 1
                BY <2>7
            <4>2. one[p + 1] = <<c>>[(p + 1) - p]
                BY <3>4, <4>1
            <4> QED BY <3>1, <4>1, <4>2
        <3> QED BY <2>6, <3>2, <3>3, <3>5, <3>6
    <2>9. PICK q \in Nat : q = Lesser(y.plen, MaxPrefix) /\ y.partial \in Seq(Byte) /\ Len(y.partial) = q
                           /\ \A l \in L : \A j \in 1 .. q : y.partial[j] = l.key[e + j]
        <3>1. PICK l \in L : TRUE
            OBVIOUS
        <3>2. y.partial \in Seq(Byte) /\ Len(y.partial) = Lesser(y.plen, MaxPrefix)
              /\ Lesser(y.plen, MaxPrefix) \in 0 .. y.plen
            BY <1>7, <2>1, <3>1, KeptBytes
        <3>3. \A m \in L : \A j \in 1 .. Lesser(y.plen, MaxPrefix) : y.partial[j] = m.key[e + j]
            BY <1>7, <2>1, KeptBytes, SMTT(30)
        <3> QED BY <2>2, <3>2, <3>3
    <2>10. /\ bytes \in Seq(Byte) /\ Len(bytes) = p + 1 + q
           /\ \A i \in 1 .. p + 1 : bytes[i] = one[i]
           /\ \A i \in 1 .. q : bytes[p + 1 + i] = y.partial[i]
        <3>1. /\ one \o y.partial \in Seq(Byte)
              /\ Len(one \o y.partial) = Len(one) + Len(y.partial)
              /\ \A i \in 1 .. Len(one) + Len(y.partial) : (one \o y.partial)[i] =
                   IF i <= Len(one) THEN one[i] ELSE y.partial[i - Len(one)]
            BY <2>8, <2>9, ConcatProperties
        <3>2. bytes = one \o y.partial
            BY <2>4, <2>6
        <3>3. \A i \in 1 .. p + 1 + q : bytes[i] = IF i <= p + 1 THEN one[i] ELSE y.partial[i - (p + 1)]
            BY <2>8, <2>9, <3>1, <3>2
        <3>4. ASSUME NEW i \in 1 .. q PROVE bytes[p + 1 + i] = y.partial[i]
            <4>1. p + 1 + i \in 1 .. p + 1 + q /\ ~(p + 1 + i <= p + 1) /\ (p + 1 + i) - (p + 1) = i
                <5>1. \A a, b \in Nat : \A j \in 1 .. b :
                        a + 1 + j \in 1 .. a + 1 + b /\ ~(a + 1 + j <= a + 1) /\ (a + 1 + j) - (a + 1) = j
                    OBVIOUS
                <5> QED BY <5>1
            <4> QED BY <3>3, <4>1
        <3>5. Len(bytes) = p + 1 + q /\ bytes \in Seq(Byte)
            BY <2>8, <2>9, <3>1, <3>2
        <3>6. ASSUME NEW i \in 1 .. p + 1 PROVE bytes[i] = one[i]
            <4>1. i \in 1 .. p + 1 + q /\ i <= p + 1
                <5>1. \A a, b \in Nat : \A j \in 1 .. a + 1 : j \in 1 .. a + 1 + b /\ j <= a + 1
                    OBVIOUS
                <5> QED BY <5>1
            <4> QED BY <3>3, <4>1
        <3> QED BY <3>4, <3>5, <3>6
    <2>11. PICK m \in Nat : m = Lesser(len, MaxPrefix) /\ m <= len /\ m <= MaxPrefix
        BY Lengths DEF Lesser
    <2>12. m <= Len(bytes) /\ (p < m => p = x.plen) /\ m <= p + 1 + q
        <3>1. PICK a \in Nat : a = x.plen
            OBVIOUS
        <3>2. PICK b \in Nat : b = y.plen
            BY <2>2
        <3>3. PICK max \in Nat : max = MaxPrefix
            BY Lengths
        <3>4. /\ p = (IF a < max THEN a ELSE max) /\ q = (IF b < max THEN b ELSE max)
              /\ m = (IF a + 1 + b < max THEN a + 1 + b ELSE max)
            BY <2>3, <2>7, <2>9, <2>11, <3>1, <3>2, <3>3 DEF Lesser
        <3>5. m <= p + 1 + q /\ (p < m => p = a)
            BY <3>4
        <3> QED BY <2>10, <3>1, <3>5
    <2>13. ASSUME NEW l \in L, NEW j \in 1 .. m PROVE bytes[j] = l.key[d + j]
        <3>1. CASE j <= p
            <4>1. j \in 1 .. p /\ j \in 1 .. p + 1
                BY <2>7, <3>1
            <4>2. bytes[j] = x.partial[j]
                BY <2>8, <2>10, <4>1
            <4>3. x.partial[j] = l.key[d + j]
                BY <2>7, <4>1
            <4> QED BY <4>2, <4>3
        <3>2. CASE j = p + 1
            <4>1. p = x.plen /\ d + j = e
                <5>1. p < m
                    BY <3>2
                <5>2. p = x.plen
                    BY <2>12, <5>1
                <5> QED BY <1>4, <3>2, <5>2
            <4>2. bytes[j] = c
                BY <2>7, <2>8, <2>10, <3>2
            <4> QED BY <1>5, <4>1, <4>2
        <3>3. CASE j > p + 1
            <4>1. PICK i \in 1 .. q : j = p + 1 + i
                <5>1. j <= p + 1 + q
                    BY <2>12
                <5>2. j - (p + 1) \in 1 .. q /\ j = p + 1 + (j - (p + 1))
                    BY <3>3, <5>1
                <5> QED BY <5>2
            <4>2. d + j = e + i
                <5>1. p < m
                    BY <3>3
                <5>2. p = x.plen
                    BY <2>12, <5>1
                <5>3. e = d + p + 1
                    BY <1>4, <5>2
                <5> QED BY <4>1, <5>3
            <4>3. bytes[j] = y.partial[i] /\ y.partial[i] = l.key[e + i]
                BY <2>9, <2>10, <4>1
            <4> QED BY <4>2, <4>3
        <3> QED BY <2>7, <2>11, <3>1, <3>2, <3>3
    <2>14. ASSUME NEW l \in L, NEW n \in L, NEW j \in 1 .. len PROVE l.key[d + j] = n.key[d + j]
        <3>1. CASE j <= x.plen
            BY <3>1
        <3>2. CASE j = x.plen + 1
            <4>1. d + j = e
                BY <1>4, <3>2
            <4> QED BY <1>5, <4>1
        <3>3. CASE j > x.plen + 1
            <4>1. d + j \in e + 1 .. e + y.plen
                BY <1>4, <2>2, <2>3, <3>3, SMTT(30)
            <4>2. \A i \in e + 1 .. e + y.plen : l.key[i] = n.key[i]
                BY <2>1 DEF Heading
            <4> QED BY <4>1, <4>2
        <3> QED BY <3>1, <3>2, <3>3
    <2>15. d + len + 1 = e + y.plen + 1
        BY <1>4, <2>2, <2>3
    <2>16. ASSUME NEW l \in L
           PROVE  LeafOK(l) /\ Len(l.key) > d + len /\ FindChild(y.node, l.key[d + len + 1]) # Null
        BY <2>1, <2>3, <2>15 DEF Heading
    <2>17. ASSUME NEW b \in Byte, FindChild(y.node, b) # Null
           PROVE  Rep(FindChild(y.node, b), d + len + 1, Branch(L, d + len + 1, b))
        BY <2>1, <2>15, <2>17 DEF Spread
    <2>18. Rep(Inner(len, bytes, y.node), d, L)
        BY <2>2, <2>10, <2>11, <2>12, <2>13, <2>14, <2>16, <2>17, FoldNew
    <2> QED BY <2>5, <2>18
<1> QED BY <1>8, <1>9

(* A node of which one pointer is set, added or removed.                   *)
WithPointer(n, c, z) == IF z = Null THEN RemoveChild(n, c)
                        ELSE IF FindChild(n, c) = Null THEN AddChild(n, c, z)
                        ELSE SetChild(n, c, z)

LEMMA PointerHolds ==
  ASSUME NEW n, Sound(n), NEW c \in Byte, NEW z, z = Null => FindChild(n, c) # Null /\ ~GivesWay(n)
  PROVE  /\ Sound(WithPointer(n, c, z))
         /\ \A b \in Byte : FindChild(WithPointer(n, c, z), b) = IF b = c THEN z ELSE FindChild(n, b)
         /\ Neat(n) /\ (z # Null => Low7(c)) => Neat(WithPointer(n, c, z))
<1>1. CASE z = Null
    BY <1>1, NodeRemoved, NeatRemoved DEF WithPointer
<1>2. CASE z # Null /\ FindChild(n, c) = Null
    BY <1>2, NodeAdded, NeatAdded DEF WithPointer
<1>3. CASE z # Null /\ FindChild(n, c) # Null
    BY <1>3, NodeSet, NeatSet DEF WithPointer
<1> QED BY <1>1, <1>2, <1>3

(* A subtree one of whose children, for byte c, has been replaced, added   *)
(* or removed; M are the leaves below it from now on.                      *)
LEMMA WithChildHolds ==
  ASSUME NEW x, NEW d, NEW L, Rep(x, d, L), IsInner(x), NEW c \in Byte, NEW z, NEW M,
         NEW e, e = d + x.plen + 1,
         z = Null => FindChild(x.node, c) # Null /\ Branch(M, e, c) = {},
         z # Null => Rep(z, e, Branch(M, e, c)),
         \A b \in Byte : b # c => Branch(M, e, b) = Branch(L, e, b),
         \A l \in M : l.key[e] # c => l \in L,
         \A l \in Branch(M, e, c) : Len(l.key) > d + x.plen,
         \A l \in Branch(M, e, c), m \in L : \A j \in 1 .. x.plen : l.key[d + j] = m.key[d + j]
  PROVE  Rep(WithChild(x, c, z), d, M)
<1>1. /\ d \in Nat /\ x.plen \in Nat /\ Sound(x.node) /\ Heading(x, d, L) /\ Spread(x, d, L)
      /\ e \in Nat /\ L # {}
    BY InnerIsHigh, Kinds, Unfold
<1>2. PICK n : n = WithPointer(x.node, c, z)
    OBVIOUS
<1>3. \E b, a \in Used(x.node) : b # a
    BY <1>1 DEF Heading
<1>4. ~GivesWay(x.node)
    BY <1>1, <1>3, MoreThanOne
<1>5. /\ Sound(n)
      /\ \A b \in Byte : FindChild(n, b) = IF b = c THEN z ELSE FindChild(x.node, b)
      /\ Neat(x.node) /\ (z # Null => Low7(c)) => Neat(n)
    BY <1>1, <1>2, <1>4, PointerHolds
<1>6. PICK m : m = [x EXCEPT !.node = n]
    OBVIOUS
<1>7. /\ m = [type |-> "inner", plen |-> m.plen, partial |-> m.partial, node |-> m.node]
      /\ m.plen = x.plen /\ m.partial = x.partial /\ m.node = n
    <2>1. x = [type |-> "inner", plen |-> x.plen, partial |-> x.partial, node |-> x.node]
        BY <1>1 DEF Heading
    <2> QED BY <1>6, <2>1
<1>8. WithChild(x, c, z) = IF z = Null /\ GivesWay(n) THEN Merge(m) ELSE m
    <2>1. WithChild(x, c, z) = LET m2 == [x EXCEPT !.node = WithPointer(x.node, c, z)]
                               IN IF z = Null /\ GivesWay(m2.node) THEN Merge(m2) ELSE m2
        BY DEF WithChild, WithPointer
    <2> QED BY <1>2, <1>6, <1>7, <2>1
<1>9. PICK l0 \in L : TRUE
    BY <1>1
<1>10. ASSUME NEW l \in L
       PROVE  /\ LeafOK(l) /\ Len(l.key) > d + x.plen /\ l.key[e] \in Byte
              /\ FindChild(x.node, l.key[e]) # Null
              /\ \A k \in L : \A j \in 1 .. x.plen : l.key[d + j] = k.key[d + j]
    <2>1. LeafOK(l) /\ FindChild(x.node, l.key[e]) # Null
        BY <1>1 DEF Heading
    <2>2. l.key \in Keys /\ Len(l.key) \in Nat /\ Len(l.key) > d + x.plen
        BY KeptBytes
    <2>3. \A k \in L : \A j \in 1 .. x.plen : l.key[d + j] = k.key[d + j]
        <3> HIDE DEF IsInner
        <3> QED BY KeptBytes
    <2>4. e \in 1 .. Len(l.key)
        BY <1>1, <2>2
    <2> QED BY <2>1, <2>2, <2>3, <2>4, Lengths
<1>11. ASSUME NEW l \in M
       PROVE  /\ LeafOK(l) /\ Len(l.key) > d + x.plen
              /\ FindChild(n, l.key[e]) # Null
              /\ \A j \in 1 .. x.plen : l.key[d + j] = l0.key[d + j]
    <2>1. CASE l.key[e] # c
        <3>1. l \in L
            BY <2>1
        <3> QED BY <1>5, <1>10, <2>1, <3>1
    <2>2. CASE l.key[e] = c
        <3>1. l \in Branch(M, e, c)
            BY <2>2 DEF Branch
        <3>2. z # Null
            BY <3>1
        <3>3. LeafOK(l)
            BY <3>1, <3>2, Kinds
        <3>4. Len(l.key) > d + x.plen /\ \A j \in 1 .. x.plen : l.key[d + j] = l0.key[d + j]
            BY <3>1
        <3> QED BY <1>5, <2>2, <3>2, <3>3, <3>4
    <2> QED BY <2>1, <2>2
<1>12. /\ x.partial \in Seq(Byte) /\ Len(x.partial) = Lesser(x.plen, MaxPrefix)
       /\ Lesser(x.plen, MaxPrefix) \in 0 .. x.plen
       /\ \A j \in 1 .. Lesser(x.plen, MaxPrefix) : x.partial[j] = l0.key[d + j]
    BY KeptBytes
<1>13. ASSUME NEW l \in M, NEW j \in 1 .. Lesser(x.plen, MaxPrefix) PROVE x.partial[j] = l.key[d + j]
    <2>1. j \in 1 .. x.plen
        BY <1>1, <1>12
    <2> QED BY <1>11, <1>12, <2>1
<1>14. ASSUME NEW l \in M, NEW k \in M, NEW j \in 1 .. x.plen PROVE l.key[d + j] = k.key[d + j]
    BY <1>11
<1>15. ASSUME NEW b \in Byte, FindChild(n, b) # Null PROVE Rep(FindChild(n, b), e, Branch(M, e, b))
    <2>1. CASE b = c
        BY <1>5, <1>15, <2>1
    <2>2. CASE b # c
        BY <1>1, <1>5, <1>15, <2>2 DEF Spread
    <2> QED BY <2>1, <2>2
<1>16. M # {}
    <2>1. PICK b \in Byte : FindChild(n, b) # Null
        BY <1>5, MoreThanOne, UsedAreFound
    <2>2. Branch(M, e, b) # {}
        BY <1>15, <2>1, Unfold
    <2> QED BY <2>2 DEF Branch
<1>17. CASE z = Null /\ GivesWay(n)
    <2>2. m.plen \in Nat /\ m.partial \in Seq(Byte) /\ Len(m.partial) = Lesser(m.plen, MaxPrefix)
          /\ Sound(m.node) /\ GivesWay(m.node) /\ e = d + m.plen + 1
        BY <1>1, <1>5, <1>7, <1>12, <1>17
    <2>3. ASSUME NEW l \in M
          PROVE  /\ LeafOK(l) /\ Len(l.key) > d + m.plen
                 /\ FindChild(m.node, l.key[d + m.plen + 1]) # Null
                 /\ \A j \in 1 .. Lesser(m.plen, MaxPrefix) : m.partial[j] = l.key[d + j]
        BY <1>7, <1>11, <1>13
    <2>4. \A l, k \in M : \A j \in 1 .. m.plen : l.key[d + j] = k.key[d + j]
        BY <1>7, <1>14
    <2>5. \A b \in Byte : FindChild(m.node, b) # Null =>
            Rep(FindChild(m.node, b), d + m.plen + 1, Branch(M, d + m.plen + 1, b))
        BY <1>7, <1>15
    <2>1. Rep(Merge(m), d, M)
        BY <1>1, <1>16, <2>2, <2>3, <2>4, <2>5, MergeHolds
    <2> QED BY <1>8, <1>17, <2>1
<1>18. CASE ~(z = Null /\ GivesWay(n))
    <2>1. \E b, a \in Used(n) : b # a
        <3>1. CASE z = Null
            BY <1>5, <1>18, <3>1, MoreThanOne
        <3>2. CASE z # Null
            <4>1. PICK b, a \in Used(x.node) : b # a
                BY <1>3
            <4>2. b \in Byte /\ a \in Byte /\ FindChild(x.node, b) # Null /\ FindChild(x.node, a) # Null
                BY <1>1, <4>1, UsedAreFound
            <4>3. FindChild(n, b) # Null /\ FindChild(n, a) # Null
                BY <1>5, <3>2, <4>2
            <4>4. b \in Used(n) /\ a \in Used(n)
                BY <1>5, <4>2, <4>3, UsedAreFound
            <4> QED BY <4>1, <4>4
        <3> QED BY <3>1, <3>2
    <2>2. ASSUME NEW l \in M PROVE m.partial = SubSeq(l.key, d + 1, d + Lesser(m.plen, MaxPrefix))
        <3>1. m.partial = SubSeq(l0.key, d + 1, d + Lesser(x.plen, MaxPrefix))
            BY <1>1, <1>7 DEF Heading
        <3>2. l.key \in Seq(Byte) /\ Len(l.key) \in Nat /\ Len(l.key) > d + x.plen
            BY <1>11, Lengths DEF LeafOK
        <3>3. PICK p \in Nat : p = Lesser(x.plen, MaxPrefix) /\ p <= x.plen
            BY <1>1, <1>12
        <3>8. p <= Len(x.partial)
            BY <1>12, <3>3
        <3>4. d + p <= Len(l.key) /\ \A j \in 1 .. p : x.partial[j] = l.key[d + j]
            BY <1>1, <1>12, <1>13, <3>2, <3>3, SMTT(30)
        <3>5. SubSeq(x.partial, 1, p) = SubSeq(l.key, d + 1, d + p)
            <4>1. x.partial \in Seq(Byte) /\ l.key \in Seq(Byte) /\ d \in Nat
                BY <1>1, <1>12, <3>2
            <4> QED BY <3>4, <3>8, <4>1, KeptAreRight
        <3>6. l0.key \in Seq(Byte) /\ d + p <= Len(l0.key) /\ \A j \in 1 .. p : x.partial[j] = l0.key[d + j]
            <4>1. l0.key \in Seq(Byte) /\ Len(l0.key) \in Nat /\ Len(l0.key) > d + x.plen
                BY <1>10, Lengths DEF LeafOK
            <4> QED BY <1>1, <1>12, <3>3, <4>1
        <3>7. SubSeq(x.partial, 1, p) = SubSeq(l0.key, d + 1, d + p)
            <4>1. x.partial \in Seq(Byte) /\ l0.key \in Seq(Byte) /\ d \in Nat
                BY <1>1, <1>12, <3>6
            <4> QED BY <3>6, <3>8, <4>1, KeptAreRight
        <3> QED BY <1>7, <3>1, <3>3, <3>5, <3>7
    <2>3. ASSUME NEW l \in M, NEW k \in M, NEW i \in d + 1 .. d + m.plen PROVE l.key[i] = k.key[i]
        <3>1. PICK j \in 1 .. x.plen : i = d + j
            <4>1. i - d \in 1 .. x.plen /\ d + (i - d) = i
                BY <1>1, <1>7
            <4> QED BY <4>1
        <3> QED BY <1>14, <3>1
    <2>7. LowBytes => Neat(n)
        <3>1. ASSUME LowBytes, z # Null PROVE Low7(c)
            <4>1. PICK l \in Branch(M, e, c) : TRUE
                BY <3>1, Unfold
            <4>2. l \in M /\ l.key[e] = c
                BY DEF Branch
            <4>3. l.key \in Keys /\ Len(l.key) \in Nat /\ Len(l.key) > d + x.plen
                BY <1>11, <4>2, Lengths DEF LeafOK
            <4>4. e \in 1 .. Len(l.key)
                BY <1>1, <4>3
            <4> QED BY <3>1, <4>2, <4>3, <4>4 DEF LowBytes
        <3>2. LowBytes => Neat(x.node)
            BY <1>1 DEF Heading
        <3> QED BY <1>5, <3>1, <3>2
    <2>4. Heading(m, d, M)
        BY <1>1, <1>5, <1>7, <1>11, <2>1, <2>2, <2>3, <2>7 DEF Heading
    <2>5. Spread(m, d, M)
        BY <1>7, <1>15 DEF Spread
    <2>6. Rep(m, d, M)
        BY <1>1, <1>16, <2>4, <2>5, FoldInner
    <2> QED BY <1>8, <1>18, <2>6
<1> QED BY <1>17, <1>18

-------------------------------------------------------------------------------
(* What comes into the place where a descent ended.                        *)
Placed(x, y, M, k, d) == /\ x = Null => y # Null /\ Sharing(M, k, d) = {}
                         /\ x # Null => Rep(x, d, Sharing(M, k, d))

LEMMA OneUp ==
  ASSUME NEW p, NEW L, NEW k \in Keys, OnWay(p, L, k), NEW whole \in BOOLEAN, whole \/ Has(L, k),
         GoesOn(p, k, whole), NEW M, NEW d \in Nat,
         NEW q, q = Hop(p, k, whole), q[2] <= d,
         \A l \in L : ~Shares(l, k, d) => l \in M,
         \A l \in M : ~Shares(l, k, d) => l \in L,
         NEW z, Placed(z, q[1], M, k, q[2])
  PROVE  /\ Rep(WithChild(p[1], Turn(p, k), z), p[2], Sharing(M, k, p[2]))
         /\ p[2] <= d
<1>1. PICK x : x = p[1]
    OBVIOUS
<1>2. PICK d0 : d0 = p[2]
    OBVIOUS
<1>3. PICK c : c = Turn(p, k)
    OBVIOUS
<1>4. PICK e : e = d0 + x.plen + 1
    OBVIOUS
<1>5. /\ q = <<FindChild(x.node, c), e>> /\ IsInner(x) /\ Rep(x, d0, Sharing(L, k, d0))
      /\ c \in Byte /\ c = k[e] /\ x.plen \in Nat /\ d0 \in Nat /\ e \in 1 .. Len(k)
      /\ \A l \in Sharing(L, k, d0) : Shares(l, k, d0 + x.plen)
    BY <1>1, <1>2, <1>3, <1>4, HopOnWay
<1>6. Len(k) \in Nat
    BY Lengths
<1>7. e \in Nat /\ e <= d /\ e \in 1 .. d /\ d0 <= d /\ 1 .. e \subseteq 1 .. d /\ 1 .. d0 \subseteq 1 .. e
    BY <1>4, <1>5, <1>6
<1>8. PICK A : A = Sharing(L, k, d0)
    OBVIOUS
<1>9. PICK B : B = Sharing(M, k, d0)
    OBVIOUS
<1>10. ASSUME NEW l, Shares(l, k, d) PROVE Shares(l, k, e) /\ Shares(l, k, d0) /\ l.key[e] = c
    BY <1>5, <1>7, <1>10 DEF Shares
<1>11. Branch(B, e, c) = Sharing(M, k, e)
    <2>1. ASSUME NEW l \in M, Shares(l, k, e) PROVE l \in B /\ l.key[e] = c
        <3>1. Shares(l, k, d0)
            BY <1>7, <2>1 DEF Shares
        <3>2. e \in 1 .. e
            BY <1>7
        <3>3. l.key[e] = k[e]
            BY <2>1, <3>2 DEF Shares
        <3> QED BY <1>5, <1>9, <3>1, <3>3 DEF Sharing
    <2>2. ASSUME NEW l \in B, l.key[e] = c PROVE l \in M /\ Shares(l, k, e)
        <3>1. l \in M /\ Shares(l, k, d0)
            BY <1>9 DEF Sharing
        <3>2. CASE Shares(l, k, d)
            BY <1>10, <3>1, <3>2
        <3>3. CASE ~Shares(l, k, d)
            <4>1. l \in Sharing(L, k, d0)
                BY <3>1, <3>3 DEF Sharing
            <4>2. Shares(l, k, d0 + x.plen)
                BY <1>5, <4>1
            <4>3. \A i \in 1 .. e : i \in 1 .. d0 + x.plen \/ i = e
                BY <1>4, <1>5
            <4> QED BY <1>5, <2>2, <3>1, <4>2, <4>3 DEF Shares
        <3> QED BY <3>2, <3>3
    <2> QED BY <2>1, <2>2 DEF Sharing, Branch
<1>12. ASSUME NEW b \in Byte, b # c PROVE Branch(B, e, b) = Branch(A, e, b)
    <2>1. ASSUME NEW l, l.key[e] = b PROVE l \in B <=> l \in A
        <3>1. ~Shares(l, k, d)
            BY <1>10, <1>12, <2>1
        <3> QED BY <1>8, <1>9, <3>1 DEF Sharing
    <2> QED BY <2>1 DEF Branch
<1>13. ASSUME NEW l \in B, l.key[e] # c PROVE l \in A
    <2>1. ~Shares(l, k, d)
        BY <1>10, <1>13
    <2> QED BY <1>8, <1>9, <2>1 DEF Sharing
<1>14. z = Null => FindChild(x.node, c) # Null /\ Branch(B, e, c) = {}
    BY <1>5, <1>11 DEF Placed
<1>15. z # Null => Rep(z, e, Branch(B, e, c))
    BY <1>5, <1>11 DEF Placed
<1>16. ASSUME NEW l \in Branch(B, e, c)
       PROVE  /\ Len(l.key) > d0 + x.plen
              /\ \A m \in A : \A j \in 1 .. x.plen : l.key[d0 + j] = m.key[d0 + j]
    <2>1. Shares(l, k, e)
        BY <1>11 DEF Sharing
    <2>2. LeafOK(l)
        <3>1. z # Null
            BY <1>14
        <3> QED BY <1>15, <3>1, Kinds
    <2>3. e <= Len(l.key) /\ Len(l.key) \in Nat
        <3>1. e \in 0 .. Len(k)
            BY <1>5, <1>6
        <3> QED BY <2>1, <2>2, <3>1, LeafIsDeep
    <2>4. ASSUME NEW m \in A, NEW j \in 1 .. x.plen PROVE l.key[d0 + j] = m.key[d0 + j]
        <3>1. d0 + j \in 1 .. d0 + x.plen /\ d0 + j \in 1 .. e
            BY <1>4, <1>5
        <3>2. Shares(m, k, d0 + x.plen)
            BY <1>5, <1>8
        <3> QED BY <2>1, <3>1, <3>2 DEF Shares
    <2>5. Len(l.key) > d0 + x.plen
        BY <1>4, <1>5, <2>3
    <2> QED BY <2>4, <2>5
<1>17. Rep(x, d0, A)
    BY <1>5, <1>8
<1>18. Rep(WithChild(x, c, z), d0, B)
    <2>1. \A l \in Branch(B, e, c) : Len(l.key) > d0 + x.plen
        BY <1>16
    <2>2. \A l \in Branch(B, e, c), m \in A : \A j \in 1 .. x.plen : l.key[d0 + j] = m.key[d0 + j]
        BY <1>16
    <2>3. \A b \in Byte : b # c => Branch(B, e, b) = Branch(A, e, b)
        BY <1>12
    <2>4. \A l \in B : l.key[e] # c => l \in A
        BY <1>13
    <2>5. IsInner(x) /\ c \in Byte
        BY <1>5
    <2> QED BY <1>4, <1>14, <1>15, <1>17, <2>1, <2>2, <2>3, <2>4, <2>5, WithChildHolds
<1> QED BY <1>1, <1>2, <1>3, <1>7, <1>9, <1>18

LEMMA ChangedHolds ==
  ASSUME NEW n, NEW L, Tree(n, L), NEW k \in Keys, NEW whole \in BOOLEAN, whole \/ Has(L, k),
         NEW x, NEW M, NEW y, NEW d \in Nat, End(n, k, whole) = <<y, d>>, Placed(x, y, M, k, d),
         \A l \in L : ~Shares(l, k, d) => l \in M,
         \A l \in M : ~Shares(l, k, d) => l \in L
  PROVE  Tree(Changed(n, k, whole, x), M)
<1>0. MaxLen \in Nat
    BY Lengths
<1>1. PICK way : way = Way(n, k, whole)
    OBVIOUS
<1>2. /\ \A h \in 0 .. MaxLen : OnWay(way[h], L, k)
      /\ \A h \in 0 .. MaxLen : h < MaxLen => way[h + 1] = Hop(way[h], k, whole)
      /\ way[0] = <<n, 0>> /\ way[MaxLen] = <<y, d>> /\ ~GoesOn(way[MaxLen], k, whole)
    BY <1>1, Descent DEF End
<1>3. PICK f : /\ f[MaxLen] = x /\ Changed(n, k, whole, x) = f[0]
               /\ \A h \in 0 .. MaxLen : h < MaxLen => f[h] = Rebuilt(way[h], k, whole, x, f[h + 1])
    BY <1>1, ChangeExists
<1> DEFINE S == {h \in 0 .. MaxLen : /\ Placed(f[h], way[h][1], M, k, way[h][2]) /\ way[h][2] <= d
                                     /\ ~GoesOn(way[h], k, whole) => f[h] = x}
<1>4. MaxLen \in S
    BY <1>0, <1>2, <1>3
<1>5. ASSUME NEW h \in 0 .. MaxLen, h + 1 \in S /\ h < MaxLen PROVE h \in S
    <2>1. /\ Placed(f[h + 1], way[h + 1][1], M, k, way[h + 1][2]) /\ way[h + 1][2] <= d
          /\ ~GoesOn(way[h + 1], k, whole) => f[h + 1] = x
          /\ way[h + 1] = Hop(way[h], k, whole) /\ OnWay(way[h], L, k)
          /\ f[h] = Rebuilt(way[h], k, whole, x, f[h + 1])
        BY <1>2, <1>3, <1>5
    <2>2. CASE ~GoesOn(way[h], k, whole)
        <3>1. way[h + 1] = way[h] /\ f[h] = x
            BY <2>1, <2>2 DEF Hop, Rebuilt
        <3>2. f[h + 1] = f[h]
            BY <2>1, <2>2, <3>1
        <3> QED BY <2>1, <3>1, <3>2
    <2>3. CASE GoesOn(way[h], k, whole)
        <3>1. f[h] = WithChild(way[h][1], Turn(way[h], k), f[h + 1])
            BY <2>1, <2>3 DEF Rebuilt
        <3>2. Rep(f[h], way[h][2], Sharing(M, k, way[h][2])) /\ way[h][2] <= d
            BY <2>1, <2>3, <3>1, OneUp
        <3>3. f[h] # Null
            BY <3>2, Kinds
        <3> QED BY <2>3, <3>2, <3>3 DEF Placed
    <2> QED BY <2>2, <2>3
<1>6. 0 \in S
    <2> HIDE DEF S
    <2> QED BY <1>0, <1>4, <1>5, Downward
<1>7. Sharing(M, k, 0) = M
    BY DEF Sharing, Shares
<1>8. Placed(f[0], n, M, k, 0)
    BY <1>2, <1>6
<1> QED BY <1>3, <1>7, <1>8 DEF Tree, Placed

-------------------------------------------------------------------------------
(* Where the descents end, and what the searches find.                     *)
LEMMA EndOfStored ==
  ASSUME NEW n, NEW L, Tree(n, L), NEW k \in Keys, Has(L, k), NEW whole \in BOOLEAN
  PROVE  \E l \in L, d \in 0 .. Len(k) :
           /\ End(n, k, whole) = <<l, d>> /\ l.key = k /\ LeafOK(l) /\ l # Null /\ IsLeaf(l)
           /\ Sharing(L, k, d) = {l}
<1>0. MaxLen \in Nat
    BY Lengths
<1>1. PICK p : p = End(n, k, whole)
    OBVIOUS
<1>2. OnWay(p, L, k) /\ ~GoesOn(p, k, whole)
    BY <1>0, <1>1, Descent DEF End
<1>3. PICK l, d : p = <<l, d>> /\ d \in 0 .. Len(k)
    BY <1>2 DEF OnWay
<1>4. Has(Sharing(L, k, d), k)
    BY HasShares
<1>5. l # Null /\ Rep(l, d, Sharing(L, k, d))
    BY <1>2, <1>3, <1>4 DEF OnWay, Has
<1>6. ~IsInner(l)
    BY <1>2, <1>3, <1>4, <1>5, StoredGoesOn
<1>7. IsLeaf(l) /\ LeafOK(l) /\ Sharing(L, k, d) = {l}
    BY <1>5, <1>6, Kinds DEF Holding
<1>8. l.key = k /\ l \in L
    BY <1>4, <1>7 DEF Has, Sharing
<1> QED BY <1>1, <1>3, <1>5, <1>7, <1>8

LEMMA OneLeafPerKey ==
  ASSUME NEW n, NEW L, Tree(n, L), NEW l \in L, NEW m \in L, l.key = m.key
  PROVE  l = m /\ LeafOK(l)
<1>1. LeafOK(l) /\ l.key \in Keys
    BY Kinds DEF Tree, LeafOK
<1>2. PICK e \in L, d \in 0 .. Len(l.key) : Sharing(L, l.key, d) = {e}
    <2>1. Has(L, l.key)
        BY DEF Has
    <2>2. PICK k \in Keys : k = l.key
        BY <1>1
    <2>3. PICK whole \in BOOLEAN : whole = TRUE
        OBVIOUS
    <2>5. Has(L, k)
        BY <2>1, <2>2
    <2>4. PICK e \in L, d \in 0 .. Len(k) :
            /\ End(n, k, whole) = <<e, d>> /\ e.key = k /\ LeafOK(e) /\ e # Null /\ IsLeaf(e)
            /\ Sharing(L, k, d) = {e}
        BY <2>5, EndOfStored
    <2> QED BY <2>2, <2>4
<1>3. l \in Sharing(L, l.key, d) /\ m \in Sharing(L, l.key, d)
    BY DEF Sharing, Shares
<1> QED BY <1>1, <1>2, <1>3

LEMMA EndOfNew ==
  ASSUME NEW n, NEW L, Tree(n, L), NEW k \in Keys
  PROVE  \E y : \E d \in 0 .. Len(k) :
           /\ End(n, k, TRUE) = <<y, d>> /\ ~GoesOn(<<y, d>>, k, TRUE)
           /\ y = Null => Sharing(L, k, d) = {}
           /\ y # Null => Rep(y, d, Sharing(L, k, d))
<1>0. MaxLen \in Nat
    BY Lengths
<1>1. PICK p : p = End(n, k, TRUE)
    OBVIOUS
<1>2. OnWay(p, L, k) /\ ~GoesOn(p, k, TRUE)
    <2>1. PICK whole \in BOOLEAN : whole = TRUE
        OBVIOUS
    <2>2. MaxLen \in 0 .. MaxLen
        BY <1>0
    <2>3. OnWay(End(n, k, whole), L, k) /\ ~GoesOn(End(n, k, whole), k, whole)
        BY <2>1, <2>2, Descent DEF End
    <2> QED BY <1>1, <2>1, <2>3
<1>3. PICK y, d : p = <<y, d>> /\ d \in 0 .. Len(k)
    BY <1>2 DEF OnWay
<1>4. (y = Null => Sharing(L, k, d) = {}) /\ (y # Null => Rep(y, d, Sharing(L, k, d)))
    BY <1>2, <1>3 DEF OnWay
<1> QED BY <1>1, <1>2, <1>3, <1>4

(* No descent leaves the tree.                                             *)
LEMMA EndIsBelow ==
  ASSUME NEW n, NEW L, Tree(n, L), NEW k \in Keys, NEW whole, IsLeaf(End(n, k, whole)[1])
  PROVE  End(n, k, whole)[1] \in L
<1>0. MaxLen \in Nat /\ Len(k) \in Nat
    BY Lengths
<1>1. PICK f : /\ f[0] = <<n, 0>> /\ Way(n, k, whole) = f
               /\ \A h \in 0 .. MaxLen : h < MaxLen => f[h + 1] = Hop(f[h], k, whole)
    BY Hops
<1> DEFINE Below(x, e) == x = Null \/ \E M : Rep(x, e, M) /\ M \subseteq L
           S == {h \in 0 .. MaxLen : Below(f[h][1], f[h][2])}
<1>2. 0 \in S
    BY <1>0, <1>1 DEF Tree
<1>3. ASSUME NEW h \in 0 .. MaxLen, h \in S /\ h < MaxLen PROVE h + 1 \in S
    <2>1. f[h + 1] = Hop(f[h], k, whole) /\ h + 1 \in 0 .. MaxLen
        BY <1>0, <1>1, <1>3
    <2>2. PICK x, e : x = f[h][1] /\ e = f[h][2]
        OBVIOUS
    <2>3. CASE ~GoesOn(f[h], k, whole)
        BY <1>3, <2>1, <2>3 DEF Hop
    <2>4. CASE GoesOn(f[h], k, whole)
        <3>1. IsInner(x)
            BY <2>2, <2>4 DEF GoesOn
        <3>2. PICK M : Rep(x, e, M) /\ M \subseteq L
            BY <1>3, <2>2, <3>1, NullIsNeither
        <3>3. PICK c : c = Turn(f[h], k)
            OBVIOUS
        <3>4. f[h + 1] = <<FindChild(x.node, c), e + x.plen + 1>>
            BY <2>1, <2>2, <2>4, <3>3 DEF Hop
        <3>5. e \in Nat /\ x.plen \in Nat
            BY <3>1, <3>2, InnerIsHigh
        <3>6. c \in Byte
            <4>1. c = IF e + x.plen < Len(k) THEN k[e + x.plen + 1] ELSE 0
                BY <2>2, <3>3 DEF Turn, ByteAt
            <4>2. 0 \in Byte
                BY SizesAssumption DEF SizesAssumption, Byte
            <4>3. e + x.plen < Len(k) => e + x.plen + 1 \in 1 .. Len(k)
                BY <1>0, <3>5
            <4> QED BY <4>1, <4>2, <4>3, Lengths
        <3>7. Below(FindChild(x.node, c), e + x.plen + 1)
            <4> SUFFICES ASSUME FindChild(x.node, c) # Null
                         PROVE  \E N : Rep(FindChild(x.node, c), e + x.plen + 1, N) /\ N \subseteq L
                OBVIOUS
            <4>1. Rep(FindChild(x.node, c), e + x.plen + 1, Branch(M, e + x.plen + 1, c))
                BY <3>1, <3>2, <3>6, Child
            <4>2. Branch(M, e + x.plen + 1, c) \subseteq L
                BY <3>2 DEF Branch
            <4> QED BY <4>1, <4>2
        <3> HIDE DEF Below
        <3> QED BY <2>1, <3>4, <3>7
    <2> QED BY <2>3, <2>4
<1>4. MaxLen \in S
    <2> HIDE DEF S, Below
    <2>1. MaxLen \in Nat /\ MaxLen \in 0 .. MaxLen
        BY <1>0
    <2>2. \A h \in 0 .. MaxLen : h \in S
        BY <1>2, <1>3, <2>1, Upward
    <2> QED BY <2>1, <2>2
<1>5. PICK x : x = End(n, k, whole)[1]
    OBVIOUS
<1>6. x = f[MaxLen][1] /\ IsLeaf(x)
    BY <1>1, <1>5 DEF End
<1>7. PICK M : Rep(x, f[MaxLen][2], M) /\ M \subseteq L
    BY <1>4, <1>6, NullIsNeither
<1>8. Holding(x, M)
    BY <1>6, <1>7, Kinds
<1> QED BY <1>5, <1>7, <1>8 DEF Holding

LEMMA LeafAtIs ==
  ASSUME NEW n, NEW L, Tree(n, L), NEW k \in Keys, NEW whole \in BOOLEAN
  PROVE  /\ Has(L, k) => LeafAt(n, k, whole) \in L /\ LeafAt(n, k, whole).key = k
         /\ LeafAt(n, k, whole) # Null <=> Has(L, k)
<1>1. ASSUME Has(L, k)
      PROVE  LeafAt(n, k, whole) \in L /\ LeafAt(n, k, whole).key = k /\ LeafAt(n, k, whole) # Null
    <2>1. PICK l \in L, d \in 0 .. Len(k) :
            End(n, k, whole) = <<l, d>> /\ l.key = k /\ l # Null /\ IsLeaf(l)
        BY <1>1, EndOfStored
    <2>2. LeafAt(n, k, whole) = l
        BY <2>1 DEF LeafAt
    <2> QED BY <2>1, <2>2
<1>2. ASSUME LeafAt(n, k, whole) # Null PROVE Has(L, k)
    <2>1. PICK l : l = End(n, k, whole)[1]
        OBVIOUS
    <2>2. IsLeaf(l) /\ l.key = k
        BY <1>2, <2>1 DEF LeafAt
    <2>3. l \in L
        BY <2>1, <2>2, EndIsBelow
    <2> QED BY <2>2, <2>3 DEF Has
<1> QED BY <1>1, <1>2

-------------------------------------------------------------------------------
(* The keys of leaves A have byte b behind len others from depth d on, in  *)
(* which they are like k; and `bytes` are the first of these.              *)
Turning(A, d, len, b) == \A l \in A : Len(l.key) > d + len /\ l.key[d + len + 1] = b
Like(A, k, d, len) == \A l \in A : \A j \in 1 .. len : l.key[d + j] = k[d + j]
Kept(bytes, k, d, len) == /\ Lesser(len, MaxPrefix) <= Len(bytes)
                          /\ \A j \in 1 .. Lesser(len, MaxPrefix) : bytes[j] = k[d + j]

(* A new node over two subtrees.                                           *)
LEMMA FoldTwo ==
  ASSUME NEW d \in Nat, NEW len \in Nat, NEW bytes \in Seq(Byte), NEW k \in Keys,
         NEW b \in Byte, NEW c \in Byte, b # c, NEW x, NEW y, NEW A, NEW B,
         Rep(x, d + len + 1, A), Rep(y, d + len + 1, B),
         Turning(A, d, len, b), Turning(B, d, len, c),
         Like(A, k, d, len), Like(B, k, d, len), Kept(bytes, k, d, len)
  PROVE  Rep(Inner(len, bytes, NewNode4(b, x, c, y)), d, A \cup B)
<1>1. x # Null /\ y # Null /\ (\A l \in A : LeafOK(l)) /\ (\A l \in B : LeafOK(l)) /\ A # {} /\ B # {}
    BY Kinds, Unfold
<1>2. PICK n : n = NewNode4(b, x, c, y)
    OBVIOUS
<1>3. Sound(n) /\ \A a \in Byte : FindChild(n, a) = IF a = b THEN x ELSE IF a = c THEN y ELSE Null
    BY <1>1, <1>2, NodeOfTwo
<1>4. PICK L : L = A \cup B
    OBVIOUS
<1>5. PICK e : e = d + len + 1
    OBVIOUS
<1>6. Branch(L, e, b) = A /\ Branch(L, e, c) = B
    BY <1>4, <1>5 DEF Branch, Turning
<1>7. ASSUME NEW l \in L
      PROVE  LeafOK(l) /\ Len(l.key) > d + len /\ FindChild(n, l.key[d + len + 1]) # Null
    BY <1>1, <1>3, <1>4 DEF Turning
<1>8. PICK m : m = Lesser(len, MaxPrefix) /\ m \in Nat /\ m <= len
    BY Lengths DEF Lesser
<1>9. ASSUME NEW l \in L, NEW j \in 1 .. m PROVE bytes[j] = l.key[d + j]
    <2>1. j \in 1 .. len
        BY <1>8
    <2> QED BY <1>4, <1>8, <2>1 DEF Like, Kept
<1>10. ASSUME NEW l \in L, NEW o \in L, NEW j \in 1 .. len PROVE l.key[d + j] = o.key[d + j]
    BY <1>4 DEF Like
<1>15. Lesser(len, MaxPrefix) <= Len(bytes)
    BY DEF Kept
<1>11. b \in Used(n) /\ c \in Used(n)
    BY <1>1, <1>3, UsedAreFound
<1>12. ASSUME NEW a \in Byte, FindChild(n, a) # Null PROVE Rep(FindChild(n, a), e, Branch(L, e, a))
    <2>1. CASE a = b
        BY <1>3, <1>5, <1>6, <2>1
    <2>2. CASE a # b
        <3>1. a = c /\ FindChild(n, a) = y
            BY <1>3, <1>12, <2>2
        <3> QED BY <1>5, <1>6, <3>1
    <2> QED BY <2>1, <2>2
<1>13. L # {}
    BY <1>1, <1>4
<1>16. ASSUME NEW a \in Byte, NEW C, C # {}, Turning(C, d, len, a), \A l \in C : LeafOK(l)
       PROVE  LowBytes => Low7(a)
    <2>1. PICK l \in C : TRUE
        BY <1>16
    <2>2. l.key[e] = a /\ Len(l.key) > d + len /\ l.key \in Keys
        BY <1>5, <1>16 DEF Turning, LeafOK
    <2>3. Len(l.key) \in Nat
        BY <2>2, Lengths
    <2>4. e \in 1 .. Len(l.key)
        BY <1>5, <2>2, <2>3
    <2> QED BY <2>2, <2>4 DEF LowBytes
<1>17. LowBytes => Neat(n)
    BY <1>1, <1>2, <1>16, NeatOfTwo
<1>14. Rep(Inner(len, bytes, n), d, L)
    BY <1>3, <1>5, <1>7, <1>8, <1>9, <1>10, <1>11, <1>12, <1>13, <1>15, <1>17, FoldNew
<1> QED BY <1>2, <1>4, <1>14

LEMMA NewLeaf ==
  ASSUME NEW k \in Keys
  PROVE  LeafOK(Leaf(k)) /\ Leaf(k).key = k /\ Leaf(k) # Null /\ Leaf(k).ended = FALSE
<1>1. LeafOK(Leaf(k)) /\ Leaf(k).key = k /\ Leaf(k).ended = FALSE
    BY DEF LeafOK, Leaf
<1>2. IsLeaf(Leaf(k))
    BY DEF IsLeaf, Leaf
<1> QED BY <1>1, <1>2, NullIsNeither

(* A leaf and a new one under a node with what their keys have in common.  *)
LEMMA SplitLeafHolds ==
  ASSUME NEW l, LeafOK(l), NEW k \in Keys, l.key # k, NEW d \in 0 .. Len(k), Shares(l, k, d),
         Len(l.key) < LockedByte
  PROVE  Rep(SplitLeaf(l, k, d), d, {l, Leaf(k)})
<1>1. /\ l.key \in Keys /\ l.key \in Seq(Byte) /\ Len(l.key) \in Nat /\ k \in Seq(Byte) /\ Len(k) \in Nat
      /\ d \in Nat /\ d <= Len(l.key) /\ d <= Len(k)
    BY LeafIsDeep, Lengths
<1>2. Bump(l.key, 2) = l.key /\ [l EXCEPT !.key = Bump(l.key, 4)] = l
    BY DEF Bump, LeafOK
<1>3. PICK j \in d + 1 .. Len(k) : j <= Len(l.key) /\ l.key[j] # k[j]
    BY LeafIsDeep
<1>4. PICK s : s = SubSeq(l.key, d + 1, Len(l.key))
    OBVIOUS
<1>5. \A i \in 1 .. Len(l.key) - d : s[i] = l.key[d + i]
    BY <1>1, <1>4, Piece
<1>6. PICK m \in Nat : m = Lesser(Len(l.key), Len(k)) - d /\ m <= Len(l.key) - d /\ m <= Len(k) - d /\ j - d <= m
    <2>1. PICK a \in Nat : a = Len(l.key)
        BY <1>1
    <2>2. PICK b \in Nat : b = Len(k)
        BY <1>1
    <2>3. Lesser(a, b) - d \in Nat /\ Lesser(a, b) - d <= a - d /\ Lesser(a, b) - d <= b - d
          /\ j - d <= Lesser(a, b) - d
        BY <1>1, <1>3, <2>1, <2>2 DEF Lesser
    <2> QED BY <2>1, <2>2, <2>3
<1>7. PICK c : c = Agreeing(s, k, d, m)
    OBVIOUS
<1>8. c \in 0 .. m /\ (\A i \in 1 .. c : s[i] = k[d + i]) /\ (c < m => s[c + 1] # k[d + (c + 1)])
    BY <1>7, AgreeingIs
<1>9. \A i \in 1 .. c : l.key[d + i] = k[d + i]
    <2>1. 1 .. c \subseteq 1 .. Len(l.key) - d
        BY <1>1, <1>6, <1>8
    <2> QED BY <1>5, <1>8, <2>1
<1>10. c < m
    <2>1. ASSUME j - d <= c PROVE FALSE
        <3>1. j - d \in 1 .. c /\ d + (j - d) = j
            BY <1>1, <1>3, <1>8, <2>1
        <3>2. l.key[d + (j - d)] = k[d + (j - d)]
            BY <1>9, <3>1
        <3> QED BY <1>3, <3>1, <3>2
    <2> QED BY <1>1, <1>3, <1>6, <1>8, <2>1
<1>11. PICK e \in Nat : e = d + c + 1 /\ e = d + (c + 1) /\ e <= Len(l.key) /\ e <= Len(k) /\ e - 1 = d + c
    BY <1>1, <1>6, <1>8, <1>10
<1>12. l.key[e] # k[e]
    <2>1. c + 1 \in 1 .. Len(l.key) - d
        BY <1>1, <1>6, <1>8, <1>10
    <2> QED BY <1>5, <1>8, <1>10, <1>11, <2>1
<1>13. ByteAt(l.key, d + c) = l.key[e] /\ ByteAt(k, d + c) = k[e] /\ l.key[e] \in Byte /\ k[e] \in Byte
    <2>1. e \in 1 .. Len(l.key) /\ e \in 1 .. Len(k) /\ d + c < Len(l.key) /\ d + c < Len(k)
        BY <1>1, <1>8, <1>11
    <2> QED BY <1>1, <1>11, <2>1, Lengths DEF ByteAt
<1>14. PICK bytes : bytes = SubSeq(k, d + 1, Len(k))
    OBVIOUS
<1>15. bytes \in Seq(Byte) /\ Len(bytes) = Len(k) - d /\ \A i \in 1 .. Len(k) - d : bytes[i] = k[d + i]
    BY <1>1, <1>14, Piece
<1>16. SplitLeaf(l, k, d) = Inner(c, bytes, NewNode4(l.key[e], l, k[e], Leaf(k)))
    <2>1. c = Agreeing(SubSeq(Bump(l.key, 2), d + 1, Len(Bump(l.key, 2))), k, d, Lesser(Len(Bump(l.key, 2)), Len(k)) - d)
        BY <1>2, <1>4, <1>6, <1>7
    <2>2. SplitLeaf(l, k, d) = Inner(c, bytes, NewNode4(ByteAt(l.key, d + c), l, ByteAt(k, d + c), Leaf(k)))
        BY <1>2, <1>14, <2>1 DEF SplitLeaf
    <2> QED BY <1>13, <2>2
<1>17. LeafOK(Leaf(k)) /\ Leaf(k).key = k
    BY NewLeaf
<1>18. c \in Nat /\ d + c + 1 \in Nat
    BY <1>8, <1>11
<1>19. Rep(l, d + c + 1, {l}) /\ Rep(Leaf(k), d + c + 1, {Leaf(k)})
    BY <1>17, <1>18, FoldLeaf
<1>20. Turning({l}, d, c, l.key[e]) /\ Turning({Leaf(k)}, d, c, k[e])
    BY <1>1, <1>11, <1>17, <1>18 DEF Turning
<1>21. Like({l}, k, d, c) /\ Like({Leaf(k)}, k, d, c)
    BY <1>9, <1>17 DEF Like
<1>22. Kept(bytes, k, d, c)
    <2>1. Lesser(c, MaxPrefix) \in Nat /\ Lesser(c, MaxPrefix) <= Len(k) - d
        BY <1>1, <1>6, <1>8, Lengths DEF Lesser
    <2> QED BY <1>1, <1>15, <2>1 DEF Kept
<1>23. Rep(Inner(c, bytes, NewNode4(l.key[e], l, k[e], Leaf(k))), d, {l} \cup {Leaf(k)})
    <2>1. d \in Nat /\ c \in Nat /\ l.key[e] \in Byte /\ k[e] \in Byte /\ bytes \in Seq(Byte)
        BY <1>1, <1>13, <1>15, <1>18
    <2> QED BY <1>12, <1>19, <1>20, <1>21, <1>22, <2>1, FoldTwo
<1>24. {l} \cup {Leaf(k)} = {l, Leaf(k)}
    OBVIOUS
<1> QED BY <1>16, <1>23, <1>24

(* What a node keeps of its prefix behind the bytes that are split off.    *)
LEMMA CutHolds ==
  ASSUME NEW x, NEW d, NEW L, Rep(x, d, L), IsInner(x), NEW diff \in Nat, diff < x.plen
  PROVE  Rep(CutPrefix(x, d, diff), d + diff + 1, L)
<1>1. PICK l : l = Minimum(x) /\ l \in L
    BY MinimumIsLeaf
<1>2. /\ d \in Nat /\ x.plen \in Nat /\ l.key \in Seq(Byte) /\ Len(l.key) \in Nat
      /\ Len(l.key) > d + x.plen /\ MaxPrefix \in Nat
      /\ x.partial \in Seq(Byte) /\ Len(x.partial) = Lesser(x.plen, MaxPrefix)
      /\ \A j \in 1 .. Lesser(x.plen, MaxPrefix) : x.partial[j] = l.key[d + j]
      /\ \A m \in L : \A j \in 1 .. x.plen : l.key[d + j] = m.key[d + j]
    <2>1. MaxPrefix \in Nat
        BY Lengths
    <2>2. d \in Nat /\ x.plen \in Nat /\ l.key \in Seq(Byte) /\ Len(l.key) \in Nat
          /\ Len(l.key) > d + x.plen
        BY <1>1, KeptBytes
    <2>3. /\ x.partial \in Seq(Byte) /\ Len(x.partial) = Lesser(x.plen, MaxPrefix)
          /\ \A j \in 1 .. Lesser(x.plen, MaxPrefix) : x.partial[j] = l.key[d + j]
          /\ \A m \in L : \A j \in 1 .. x.plen : l.key[d + j] = m.key[d + j]
        BY <1>1, KeptBytes
    <2> QED BY <2>1, <2>2, <2>3
<1>3. Heading(x, d, L) /\ Spread(x, d, L) /\ L # {}
    BY Kinds, Unfold
<1>4. PICK e \in Nat : e = d + diff + 1
    BY <1>2
<1>5. PICK len \in Nat : len = x.plen - (diff + 1) /\ e + len = d + x.plen
    <2>1. PICK p \in Nat : p = x.plen /\ diff < p
        BY <1>2
    <2>2. PICK g \in Nat : g = d
        BY <1>2
    <2>3. p - (diff + 1) \in Nat /\ (g + diff + 1) + (p - (diff + 1)) = g + p
        BY <2>1
    <2> QED BY <1>4, <2>1, <2>2, <2>3
<1>6. PICK bytes : bytes = IF x.plen <= MaxPrefix THEN SubSeq(x.partial, diff + 2, x.plen)
                           ELSE SubSeq(l.key, d + diff + 2, Len(l.key))
    OBVIOUS
<1>7. CutPrefix(x, d, diff) = Inner(len, bytes, x.node)
    BY <1>1, <1>5, <1>6 DEF CutPrefix
<1>8. bytes \in Seq(Byte) /\ len <= Len(bytes) /\ \A j \in 1 .. len : bytes[j] = l.key[e + j]
    <2>1. CASE x.plen <= MaxPrefix
        <3>1. PICK f \in Nat : f = diff + 1 /\ f <= x.plen /\ len = x.plen - f /\ diff + 2 = f + 1
              /\ e = d + f
            BY <1>2, <1>4, <1>5
        <3>2. x.plen = Len(x.partial) /\ Lesser(x.plen, MaxPrefix) = x.plen
            BY <1>2, <2>1 DEF Lesser
        <3>3. bytes = SubSeq(x.partial, f + 1, x.plen)
            BY <1>6, <2>1, <3>1
        <3>4. bytes \in Seq(Byte) /\ Len(bytes) = x.plen - f /\ \A j \in 1 .. x.plen - f : bytes[j] = x.partial[f + j]
            <4>1. PICK p \in Nat : p = x.plen
                BY <1>2
            <4>2. f <= p /\ p <= Len(x.partial) /\ bytes = SubSeq(x.partial, f + 1, p)
                BY <3>1, <3>2, <3>3, <4>1
            <4>3. bytes \in Seq(Byte) /\ Len(bytes) = p - f /\ \A j \in 1 .. p - f : bytes[j] = x.partial[f + j]
                BY <1>2, <4>2, Piece
            <4> QED BY <4>1, <4>3
        <3>5. ASSUME NEW j \in 1 .. len PROVE bytes[j] = l.key[e + j]
            <4>1. f + j \in 1 .. x.plen /\ d + (f + j) = e + j
                BY <1>2, <3>1
            <4>2. x.partial[f + j] = l.key[d + (f + j)]
                BY <1>2, <3>2, <4>1
            <4>3. bytes[j] = x.partial[f + j]
                BY <3>1, <3>4
            <4> QED BY <4>1, <4>2, <4>3
        <3>6. len <= Len(bytes)
            BY <3>1, <3>4
        <3> QED BY <3>4, <3>5, <3>6
    <2>2. CASE ~(x.plen <= MaxPrefix)
        <3>1. bytes = SubSeq(l.key, e + 1, Len(l.key))
            <4>1. d + diff + 2 = e + 1
                BY <1>2, <1>4
            <4> QED BY <1>6, <2>2, <4>1
        <3>2. e <= Len(l.key) /\ len <= Len(l.key) - e
            BY <1>2, <1>4, <1>5
        <3>3. bytes \in Seq(Byte) /\ Len(bytes) = Len(l.key) - e /\ \A j \in 1 .. Len(l.key) - e : bytes[j] = l.key[e + j]
            BY <1>2, <3>1, <3>2, Piece
        <3>4. 1 .. len \subseteq 1 .. Len(l.key) - e
            BY <1>2, <3>2
        <3> QED BY <3>2, <3>3, <3>4
    <2> QED BY <2>1, <2>2
<1>9. ASSUME NEW m \in L, NEW j \in 1 .. len PROVE l.key[e + j] = m.key[e + j]
    <2>1. (diff + 1) + j \in 1 .. x.plen /\ d + ((diff + 1) + j) = e + j
        BY <1>2, <1>4, <1>5
    <2>2. l.key[d + ((diff + 1) + j)] = m.key[d + ((diff + 1) + j)]
        BY <1>2, <2>1
    <2> QED BY <2>1, <2>2
<1>10. ASSUME NEW m \in L, NEW n \in L, NEW j \in 1 .. len PROVE m.key[e + j] = n.key[e + j]
    BY <1>9
<1>11. PICK b \in Nat : b = Lesser(len, MaxPrefix) /\ b <= len
    BY <1>2 DEF Lesser
<1>12. ASSUME NEW m \in L, NEW j \in 1 .. b PROVE bytes[j] = m.key[e + j]
    <2>1. j \in 1 .. len
        BY <1>11
    <2> QED BY <1>8, <1>9, <2>1
<1>13. b <= Len(bytes)
    <2>1. Len(bytes) \in Nat
        BY <1>8, LenProperties
    <2> QED BY <1>8, <1>11, <2>1
<1>14. e + len + 1 = d + x.plen + 1
    BY <1>5
<1>15. ASSUME NEW m \in L
       PROVE  LeafOK(m) /\ Len(m.key) > e + len /\ FindChild(x.node, m.key[e + len + 1]) # Null
    BY <1>3, <1>5, <1>14 DEF Heading
<1>16. Sound(x.node) /\ (LowBytes => Neat(x.node)) /\ \E b2, c \in Used(x.node) : b2 # c
    BY <1>3 DEF Heading
<1>17. ASSUME NEW c \in Byte, FindChild(x.node, c) # Null
       PROVE  Rep(FindChild(x.node, c), e + len + 1, Branch(L, e + len + 1, c))
    BY <1>3, <1>14, <1>17 DEF Spread
<1>18. Rep(Inner(len, bytes, x.node), e, L)
    BY <1>3, <1>8, <1>10, <1>11, <1>12, <1>13, <1>15, <1>16, <1>17, FoldNew
<1> QED BY <1>4, <1>7, <1>18

(* A node whose prefix does not go with the new key, below a new one.      *)
LEMMA SplitPrefixHolds ==
  ASSUME NEW x, NEW d, NEW L, Rep(x, d, L), IsInner(x), NEW k \in Keys, d <= Len(k),
         \A l \in L : Shares(l, k, d), NEW diff, diff = PrefixMismatch(x, k, d), diff < x.plen
  PROVE  Rep(SplitPrefix(x, k, d, diff), d, L \cup {Leaf(k)})
<1>1. PICK l : l = Minimum(x) /\ l \in L /\ LeafOK(l)
    BY MinimumIsLeaf
<1>2. /\ d \in Nat /\ x.plen \in Nat /\ l.key \in Seq(Byte) /\ l.key \in Keys /\ Len(l.key) \in Nat
      /\ Len(l.key) > d + x.plen
      /\ x.partial \in Seq(Byte) /\ Len(x.partial) = Lesser(x.plen, MaxPrefix)
      /\ \A j \in 1 .. Lesser(x.plen, MaxPrefix) : x.partial[j] = l.key[d + j]
      /\ \A m \in L : \A j \in 1 .. x.plen : l.key[d + j] = m.key[d + j]
    BY <1>1, KeptBytes
<1>3. MaxPrefix \in Nat /\ Len(k) \in Nat /\ k \in Seq(Byte)
    BY Lengths
<1>4. /\ diff \in 0 .. Len(k) - d
      /\ \A m \in L : \A j \in 1 .. diff : j <= x.plen => m.key[d + j] = k[d + j]
      /\ diff < x.plen => diff = Len(k) - d \/ \A m \in L : m.key[d + (diff + 1)] # k[d + (diff + 1)]
    BY Mismatch
<1>5. \A m \in L : \A j \in 1 .. diff : m.key[d + j] = k[d + j]
    <2>1. \A j \in 1 .. diff : j <= x.plen
        BY <1>2, <1>4
    <2> QED BY <1>4, <2>1
<1>6. diff # Len(k) - d
    <2> SUFFICES ASSUME diff = Len(k) - d PROVE FALSE
        OBVIOUS
    <2>1. ASSUME NEW i \in 1 .. Len(k) PROVE k[i] = l.key[i]
        <3>1. CASE i <= d
            BY <1>1, <1>2, <3>1 DEF Shares
        <3>2. CASE i > d
            <4>1. i - d \in 1 .. diff /\ d + (i - d) = i
                BY <1>2, <1>3, <3>2
            <4>2. l.key[d + (i - d)] = k[d + (i - d)]
                BY <1>1, <1>5, <4>1
            <4> QED BY <4>1, <4>2
        <3> QED BY <1>2, <3>1, <3>2
    <2>2. k = l.key
        BY <1>2, <2>1, NoPrefix
    <2> QED BY <1>2, <1>3, <2>2
<1>7. PICK e \in Nat : e = d + diff + 1 /\ e = d + (diff + 1) /\ e <= Len(k) /\ e - 1 = d + diff
                       /\ e <= d + x.plen
    <2>1. PICK p \in Nat : p = x.plen
        BY <1>2
    <2>2. PICK g \in Nat : g = d
        BY <1>2
    <2>3. PICK n \in Nat : n = Len(k)
        BY <1>3
    <2>4. PICK f \in Nat : f = diff /\ f <= n - g /\ f # n - g /\ f < p
        BY <1>3, <1>4, <1>6, <2>1, <2>2, <2>3
    <2>5. g + f + 1 \in Nat /\ g + f + 1 = g + (f + 1) /\ g + f + 1 <= n /\ (g + f + 1) - 1 = g + f
          /\ g + f + 1 <= g + p
        BY <2>4
    <2> QED BY <2>1, <2>2, <2>3, <2>4, <2>5
<1>8. \A m \in L : m.key[e] # k[e] /\ m.key[e] = l.key[e]
    <2>1. \A m \in L : m.key[e] # k[e]
        BY <1>4, <1>6, <1>7
    <2>2. diff + 1 \in 1 .. x.plen
        BY <1>2, <1>4
    <2> QED BY <1>2, <1>7, <2>1, <2>2
<1>9. ByteAt(k, d + diff) = k[e] /\ k[e] \in Byte /\ l.key[e] \in Byte
    <2>1. e \in 1 .. Len(k) /\ e \in 1 .. Len(l.key) /\ d + diff < Len(k) /\ (d + diff) + 1 = e
        <3>1. d + diff = e - 1 /\ (e - 1) + 1 = e
            BY <1>7
        <3>2. e \in 1 .. Len(k)
            <4>1. d + diff \in Nat
                BY <1>2, <1>3, <1>4
            <4> QED BY <1>3, <1>7, <4>1
        <3>3. e <= Len(l.key)
            BY <1>2, <1>7
        <3> QED BY <1>2, <1>3, <3>1, <3>2, <3>3
    <2> QED BY <1>2, <2>1, Lengths DEF ByteAt
<1>10. PICK cut : cut = CutPrefix(x, d, diff)
    OBVIOUS
<1>11. diff \in Nat
    BY <1>2, <1>3, <1>4
<1>12. Rep(cut, d + diff + 1, L)
    BY <1>10, <1>11, CutHolds
<1>13. (IF x.plen <= MaxPrefix THEN x.partial[diff + 1] ELSE l.key[d + diff + 1]) = l.key[e]
    <2>1. CASE x.plen <= MaxPrefix
        <3>1. diff + 1 \in 1 .. Lesser(x.plen, MaxPrefix)
            BY <1>2, <1>3, <1>4, <2>1 DEF Lesser
        <3> QED BY <1>2, <1>7, <2>1, <3>1
    <2>2. CASE ~(x.plen <= MaxPrefix)
        BY <1>7, <2>2
    <2> QED BY <2>1, <2>2
<1>14. SplitPrefix(x, k, d, diff) = Inner(diff, x.partial, NewNode4(l.key[e], cut, k[e], Leaf(k)))
    BY <1>1, <1>9, <1>10, <1>13 DEF SplitPrefix
<1>15. LeafOK(Leaf(k)) /\ Leaf(k).key = k
    BY NewLeaf
<1>16. Rep(Leaf(k), d + diff + 1, {Leaf(k)})
    BY <1>7, <1>15, FoldLeaf
<1>17. Turning(L, d, diff, l.key[e]) /\ Turning({Leaf(k)}, d, diff, k[e])
    <2>1. ASSUME NEW m \in L PROVE Len(m.key) > d + diff
        <3>1. Len(m.key) \in Nat /\ Len(m.key) > d + x.plen
            BY KeptBytes
        <3> QED BY <1>2, <1>11, <3>1
    <2>2. Len(k) > d + diff
        BY <1>2, <1>3, <1>7, <1>11
    <2>3. d + diff + 1 = e
        BY <1>7
    <2>4. Turning(L, d, diff, l.key[e])
        BY <1>8, <2>1, <2>3 DEF Turning
    <2> QED BY <1>15, <2>2, <2>3, <2>4 DEF Turning
<1>18. Like(L, k, d, diff) /\ Like({Leaf(k)}, k, d, diff)
    BY <1>5, <1>15 DEF Like
<1>19. Kept(x.partial, k, d, diff)
    <2>1. Lesser(diff, MaxPrefix) \in Nat /\ Lesser(diff, MaxPrefix) <= diff
          /\ Lesser(diff, MaxPrefix) <= Lesser(x.plen, MaxPrefix)
        <3>1. PICK p \in Nat : p = x.plen
            BY <1>2
        <3>2. PICK g \in Nat : g = diff
            BY <1>11
        <3>3. Lesser(g, MaxPrefix) \in Nat /\ Lesser(g, MaxPrefix) <= g
              /\ Lesser(g, MaxPrefix) <= Lesser(p, MaxPrefix)
            BY <1>3, <3>1, <3>2 DEF Lesser
        <3> QED BY <3>1, <3>2, <3>3
    <2>2. ASSUME NEW j \in 1 .. Lesser(diff, MaxPrefix) PROVE x.partial[j] = k[d + j]
        <3>1. Lesser(x.plen, MaxPrefix) \in Nat
            BY <1>2, <1>3 DEF Lesser
        <3>2. j \in 1 .. diff /\ j \in 1 .. Lesser(x.plen, MaxPrefix)
            BY <1>11, <2>1, <3>1
        <3> QED BY <1>1, <1>2, <1>5, <3>2
    <2> QED BY <1>2, <2>1, <2>2 DEF Kept
<1>20. l.key[e] # k[e]
    BY <1>1, <1>8
<1>21. Rep(Inner(diff, x.partial, NewNode4(l.key[e], cut, k[e], Leaf(k))), d, L \cup {Leaf(k)})
    BY <1>2, <1>9, <1>11, <1>12, <1>16, <1>17, <1>18, <1>19, <1>20, FoldTwo
<1> QED BY <1>14, <1>21

-------------------------------------------------------------------------------
(* The operations on a tree and on its leaves.                             *)
Set(l, ended) == [l EXCEPT !.ended = ended]

LEMMA SetLeaf ==
  ASSUME NEW l, LeafOK(l), NEW ended \in BOOLEAN
  PROVE  LeafOK(Set(l, ended)) /\ Set(l, ended).key = l.key /\ Set(l, ended).ended = ended
         /\ Set(l, ended) # Null /\ (l.ended = ended => Set(l, ended) = l)
<1>1. PICK m : m = Set(l, ended)
    OBVIOUS
<1>2. m = [type |-> "leaf", key |-> l.key, ended |-> ended]
    BY <1>1 DEF Set, LeafOK
<1>3. LeafOK(m) /\ m.key = l.key /\ m.ended = ended /\ IsLeaf(m)
    BY <1>2 DEF LeafOK, IsLeaf
<1>4. m # Null
    BY <1>3, NullIsNeither
<1>5. l.ended = ended => m = l
    BY <1>2 DEF LeafOK
<1> QED BY <1>1, <1>3, <1>4, <1>5

(* A record is written or ended.                                           *)
LEMMA WithLeafHolds ==
  ASSUME NEW n, NEW L, Tree(n, L), NEW k \in Keys, Has(L, k), NEW whole \in BOOLEAN, NEW ended \in BOOLEAN
  PROVE  \E l \in L : l.key = k /\ Tree(WithLeaf(n, k, whole, ended), (L \ {l}) \cup {Set(l, ended)})
<1>1. PICK l \in L, d \in 0 .. Len(k) :
        /\ End(n, k, whole) = <<l, d>> /\ l.key = k /\ LeafOK(l) /\ l # Null
        /\ Sharing(L, k, d) = {l}
    BY EndOfStored
<1>2. PICK x : x = Set(l, ended)
    OBVIOUS
<1>3. LeafOK(x) /\ x.key = k /\ x # Null
    BY <1>1, <1>2, SetLeaf
<1>4. PICK M : M = (L \ {l}) \cup {x}
    OBVIOUS
<1>5. d \in Nat
    BY Lengths
<1>6. \A m \in L : Shares(m, k, d) <=> m = l
    BY <1>1 DEF Sharing
<1>7. Shares(x, k, d)
    BY <1>3 DEF Shares
<1>8. Sharing(M, k, d) = {x}
    BY <1>4, <1>6, <1>7 DEF Sharing
<1>9. Placed(x, l, M, k, d)
    BY <1>3, <1>5, <1>8, FoldLeaf DEF Placed
<1>10. \A m \in L : ~Shares(m, k, d) => m \in M
    BY <1>4, <1>6
<1>11. \A m \in M : ~Shares(m, k, d) => m \in L
    BY <1>4, <1>7
<1>12. Tree(Changed(n, k, whole, x), M)
    BY <1>1, <1>5, <1>9, <1>10, <1>11, ChangedHolds
<1>13. WithLeaf(n, k, whole, ended) = Changed(n, k, whole, x)
    BY <1>1, <1>2 DEF WithLeaf, Set
<1> QED BY <1>1, <1>2, <1>4, <1>12, <1>13

(* A key is taken away.                                                    *)
LEMMA WithoutKeyHolds ==
  ASSUME NEW n, NEW L, Tree(n, L), NEW k \in Keys
  PROVE  /\ Has(L, k) => \E l \in L : l.key = k /\ Tree(WithoutKey(n, k), L \ {l})
         /\ ~Has(L, k) => WithoutKey(n, k) = n
<1>1. PICK whole \in BOOLEAN : whole = FALSE
    OBVIOUS
<1>2. Lookup(n, k) = LeafAt(n, k, whole)
    BY <1>1 DEF Lookup
<1>3. Lookup(n, k) # Null <=> Has(L, k)
    BY <1>2, LeafAtIs
<1>4. ASSUME Has(L, k) PROVE \E l \in L : l.key = k /\ Tree(WithoutKey(n, k), L \ {l})
    <2>1. PICK l \in L, d \in 0 .. Len(k) :
            /\ End(n, k, whole) = <<l, d>> /\ l.key = k /\ LeafOK(l) /\ l # Null
            /\ Sharing(L, k, d) = {l}
        BY <1>4, EndOfStored
    <2>2. PICK M : M = L \ {l}
        OBVIOUS
    <2>3. d \in Nat
        BY Lengths
    <2>4. \A m \in L : Shares(m, k, d) <=> m = l
        BY <2>1 DEF Sharing
    <2>5. Sharing(M, k, d) = {}
        BY <2>2, <2>4 DEF Sharing
    <2>6. PICK x : x = Null
        OBVIOUS
    <2>7. Placed(x, l, M, k, d)
        BY <2>1, <2>5, <2>6 DEF Placed
    <2>8. (\A m \in L : ~Shares(m, k, d) => m \in M) /\ (\A m \in M : ~Shares(m, k, d) => m \in L)
        BY <2>2, <2>4
    <2>9. Tree(Changed(n, k, whole, x), M)
        BY <1>4, <2>1, <2>3, <2>7, <2>8, ChangedHolds
    <2>10. WithoutKey(n, k) = Changed(n, k, whole, x)
        BY <1>1, <1>3, <1>4, <2>6 DEF WithoutKey
    <2> QED BY <2>1, <2>2, <2>9, <2>10
<1>5. ASSUME ~Has(L, k) PROVE WithoutKey(n, k) = n
    BY <1>3, <1>5 DEF WithoutKey
<1> QED BY <1>4, <1>5

(* A key is added.                                                         *)
LEMMA WithKeyHolds ==
  ASSUME NEW n, NEW L, Tree(n, L), NEW k \in Keys, ~Has(L, k),
         \A m \in Keys : Len(m) < LockedByte
  PROVE  Tree(WithKey(n, k), L \cup {Leaf(k)})
<1>1. PICK whole \in BOOLEAN : whole = TRUE
    OBVIOUS
<1>2. PICK y : \E d \in 0 .. Len(k) :
           /\ End(n, k, TRUE) = <<y, d>> /\ ~GoesOn(<<y, d>>, k, TRUE)
           /\ y = Null => Sharing(L, k, d) = {}
           /\ y # Null => Rep(y, d, Sharing(L, k, d))
    BY EndOfNew
<1>3. PICK d \in 0 .. Len(k) :
           /\ End(n, k, TRUE) = <<y, d>> /\ ~GoesOn(<<y, d>>, k, TRUE)
           /\ y = Null => Sharing(L, k, d) = {}
           /\ y # Null => Rep(y, d, Sharing(L, k, d))
    BY <1>2
<1>4. d \in Nat /\ d <= Len(k)
    BY Lengths
<1>5. PICK x : x = IF y = Null THEN Leaf(k) ELSE IF IsLeaf(y) THEN SplitLeaf(y, k, d)
                   ELSE SplitPrefix(y, k, d, PrefixMismatch(y, k, d))
    OBVIOUS
<1>6. WithKey(n, k) = Changed(n, k, whole, x)
    <2>3. PICK p : p = End(n, k, TRUE)
        OBVIOUS
    <2>4. p = <<y, d>>
        BY <1>3, <2>3
    <2>5. p[1] = y /\ p[2] = d
        BY <2>4
    <2>1. End(n, k, TRUE)[1] = y /\ End(n, k, TRUE)[2] = d
        BY <2>3, <2>5
    <2>2. WithKey(n, k) = Changed(n, k, TRUE, x)
        BY <1>5, <2>1 DEF WithKey
    <2> QED BY <1>1, <2>2
<1>7. PICK A : A = Sharing(L, k, d)
    OBVIOUS
<1>8. PICK M : M = L \cup {Leaf(k)}
    OBVIOUS
<1>9. LeafOK(Leaf(k)) /\ Leaf(k).key = k
    BY NewLeaf
<1>10. Shares(Leaf(k), k, d)
    BY <1>9 DEF Shares
<1>11. Sharing(M, k, d) = A \cup {Leaf(k)}
    BY <1>7, <1>8, <1>10 DEF Sharing
<1>12. Rep(x, d, A \cup {Leaf(k)})
    <2>1. CASE y = Null
        <3>1. x = Leaf(k) /\ A \cup {Leaf(k)} = {Leaf(k)}
            BY <1>3, <1>5, <1>7, <2>1
        <3> QED BY <1>4, <1>9, <3>1, FoldLeaf
    <2>2. CASE y # Null /\ IsLeaf(y)
        <3>1. Rep(y, d, A)
            BY <1>3, <1>7, <2>2
        <3>2. LeafOK(y) /\ A = {y}
            BY <2>2, <3>1, Kinds DEF Holding
        <3>3. y \in L /\ Shares(y, k, d)
            BY <1>7, <3>2 DEF Sharing
        <3>4. y.key # k /\ Len(y.key) < LockedByte
            BY <3>2, <3>3 DEF Has, LeafOK
        <3>5. Rep(SplitLeaf(y, k, d), d, {y, Leaf(k)})
            BY <3>2, <3>3, <3>4, SplitLeafHolds
        <3>6. A \cup {Leaf(k)} = {y, Leaf(k)}
            BY <3>2
        <3> QED BY <1>5, <2>2, <3>5, <3>6
    <2>3. CASE y # Null /\ ~IsLeaf(y)
        <3>1. Rep(y, d, A)
            BY <1>3, <1>7, <2>3
        <3>2. IsInner(y)
            BY <2>3, <3>1, Kinds
        <3>3. \A l \in A : Shares(l, k, d)
            BY <1>7 DEF Sharing
        <3>4. PICK diff : diff = PrefixMismatch(y, k, d)
            OBVIOUS
        <3>5. diff < y.plen
            <4>1. diff \in 0 .. Len(k) - d
                BY <1>4, <3>1, <3>2, <3>4, Mismatch
            <4>2. y.plen \in Nat /\ Len(k) \in Nat
                BY <3>1, <3>2, InnerIsHigh, Lengths
            <4>3. ~(diff >= y.plen)
                BY <1>3, <3>2, <3>4 DEF GoesOn
            <4> QED BY <1>4, <4>1, <4>2, <4>3
        <3>6. Rep(SplitPrefix(y, k, d, diff), d, A \cup {Leaf(k)})
            BY <1>4, <3>1, <3>2, <3>3, <3>4, <3>5, SplitPrefixHolds
        <3> QED BY <1>5, <2>3, <3>4, <3>6
    <2> QED BY <2>1, <2>2, <2>3
<1>13. Placed(x, y, M, k, d)
    <2>1. x # Null
        BY <1>12, Kinds
    <2> QED BY <1>11, <1>12, <2>1 DEF Placed
<1>14. (\A m \in L : ~Shares(m, k, d) => m \in M) /\ (\A m \in M : ~Shares(m, k, d) => m \in L)
    BY <1>8, <1>10
<1>15. End(n, k, whole) = <<y, d>>
    BY <1>1, <1>3
<1>16. Tree(Changed(n, k, whole, x), M)
    BY <1>1, <1>4, <1>13, <1>14, <1>15, ChangedHolds
<1> QED BY <1>6, <1>8, <1>16

-------------------------------------------------------------------------------
(* All records of the keys in F are written.                               *)
Fresh(l, F) == [l EXCEPT !.ended = @ /\ l.key \notin F]
AllFresh(L, F) == {Fresh(l, F) : l \in L}

LEMMA FreshLeaf ==
  ASSUME NEW l, LeafOK(l), NEW F
  PROVE  /\ LeafOK(Fresh(l, F)) /\ Fresh(l, F).key = l.key
         /\ Fresh(l, F).ended <=> l.ended /\ l.key \notin F
<1>1. PICK e \in BOOLEAN : e <=> l.ended /\ l.key \notin F
    OBVIOUS
<1>2. Fresh(l, F) = [type |-> "leaf", key |-> l.key, ended |-> l.ended /\ l.key \notin F]
    BY DEF Fresh, LeafOK
<1>3. CASE l.key \in F
    <2>1. (l.ended /\ l.key \notin F) = FALSE
        BY <1>3
    <2>2. Fresh(l, F) = [type |-> "leaf", key |-> l.key, ended |-> FALSE]
        BY <1>2, <2>1
    <2> QED BY <1>3, <2>2 DEF LeafOK
<1>4. CASE l.key \notin F
    <2>1. l.ended \in BOOLEAN
        BY DEF LeafOK
    <2>2. (l.ended /\ l.key \notin F) = l.ended
        BY <1>4, <2>1
    <2>3. Fresh(l, F) = [type |-> "leaf", key |-> l.key, ended |-> l.ended]
        BY <1>2, <2>2
    <2> QED BY <1>4, <2>3 DEF LeafOK
<1> QED BY <1>3, <1>4

(* One subtree, when that has been done below its pointers.                *)
LEMMA UpdateOne ==
  ASSUME NEW x, NEW d, NEW L, Rep(x, d, L), NEW F, NEW u,
         IsInner(x) => \A y \in Range(x.node.kids) :
           /\ y = Null => u[y] = Null
           /\ \A e, M : Rep(y, e, M) => Rep(u[y], e, AllFresh(M, F))
  PROVE  Rep(WithUpdate(x, F, u), d, AllFresh(L, F))
<1>1. d \in Nat /\ L # {}
    BY Unfold
<1>2. CASE IsLeaf(x)
    <2>1. LeafOK(x) /\ L = {x}
        BY <1>2, Kinds DEF Holding
    <2>2. WithUpdate(x, F, u) = Fresh(x, F)
        <3>1. PICK p : p = [x EXCEPT !.ended = @ /\ x.key \notin F]
            OBVIOUS
        <3>2. ~IsInner(x)
            BY <1>2, Kinds
        <3>3. PICK q : q = [x EXCEPT !.node.kids = [i \in DOMAIN x.node.kids |-> u[x.node.kids[i]]]]
            OBVIOUS
        <3>4. WithUpdate(x, F, u) = CASE IsLeaf(x) -> p [] IsInner(x) -> q [] OTHER -> x
            BY <3>1, <3>3 DEF WithUpdate
        <3>5. WithUpdate(x, F, u) = p
            BY <1>2, <3>2, <3>4
        <3> QED BY <3>1, <3>5 DEF Fresh
    <2>3. AllFresh(L, F) = {Fresh(x, F)}
        BY <2>1 DEF AllFresh
    <2>4. LeafOK(Fresh(x, F))
        BY <2>1, FreshLeaf
    <2> QED BY <1>1, <2>2, <2>3, <2>4, FoldLeaf
<1>3. CASE ~IsLeaf(x)
    <2>1. IsInner(x) /\ Heading(x, d, L) /\ Spread(x, d, L)
        BY <1>3, Kinds
    <2>2. /\ x.plen \in Nat /\ Sound(x.node) /\ \E b, c \in Used(x.node) : b # c
          /\ LowBytes => Neat(x.node)
        BY <2>1 DEF Heading
    <2>3. PICK w : w = [i \in DOMAIN x.node.kids |-> u[x.node.kids[i]]]
        OBVIOUS
    <2>4. PICK n : n = [x.node EXCEPT !.kids = w]
        OBVIOUS
    <2>5. PICK m : m = WithUpdate(x, F, u)
        OBVIOUS
    <2>6. m = [x EXCEPT !.node.kids = w]
        BY <1>3, <2>1, <2>3, <2>5 DEF WithUpdate
    <2>7. /\ m = [type |-> "inner", plen |-> m.plen, partial |-> m.partial, node |-> m.node]
          /\ m.plen = x.plen /\ m.partial = x.partial /\ m.node = n
        <3>1. x = [type |-> "inner", plen |-> x.plen, partial |-> x.partial, node |-> x.node]
            BY <2>1 DEF Heading
        <3>2. m = [x EXCEPT !.node = [x.node EXCEPT !.kids = w]]
            BY <2>6
        <3> QED BY <2>4, <3>1, <3>2
    <2>8. \A y \in Range(x.node.kids) :
            /\ y = Null => u[y] = Null
            /\ \A e, M : Rep(y, e, M) => Rep(u[y], e, AllFresh(M, F))
        BY <2>1
    <2>9. \A i \in DOMAIN x.node.kids : x.node.kids[i] \in Range(x.node.kids)
        BY DEF Range
    <2>10. ASSUME NEW i \in DOMAIN x.node.kids PROVE w[i] = Null <=> x.node.kids[i] = Null
        <3>1. w[i] = u[x.node.kids[i]] /\ x.node.kids[i] \in Range(x.node.kids)
            BY <2>3, <2>9
        <3>2. CASE x.node.kids[i] = Null
            BY <2>8, <3>1, <3>2
        <3>3. CASE x.node.kids[i] # Null
            <4>1. PICK c \in Byte : x.node.kids[i] = FindChild(x.node, c)
                BY <2>2, <3>1, <3>3, KidsOfInner
            <4>2. Rep(x.node.kids[i], d + x.plen + 1, Branch(L, d + x.plen + 1, c))
                BY <2>1, <3>3, <4>1, Child
            <4>3. Rep(w[i], d + x.plen + 1, AllFresh(Branch(L, d + x.plen + 1, c), F))
                BY <2>8, <3>1, <4>2
            <4>4. w[i] # Null
                BY <4>3, Kinds
            <4> QED BY <3>3, <4>4
        <3> QED BY <3>2, <3>3
    <2>11. w = [i \in DOMAIN x.node.kids |-> w[i]]
        BY <2>3
    <2>12. /\ Sound(n)
           /\ \A c \in Byte : FindChild(n, c) =
                IF FindChild(x.node, c) = Null THEN Null ELSE w[Slot(x.node, c)]
           /\ \A c \in Byte : FindChild(x.node, c) # Null =>
                Slot(x.node, c) \in DOMAIN x.node.kids /\ FindChild(x.node, c) = x.node.kids[Slot(x.node, c)]
        BY <2>2, <2>4, <2>10, <2>11, Repointed
    <2>13. ASSUME NEW c \in Byte
           PROVE  /\ FindChild(x.node, c) = Null => FindChild(n, c) = Null
                  /\ FindChild(x.node, c) # Null => /\ FindChild(n, c) = u[FindChild(x.node, c)]
                                                    /\ FindChild(n, c) # Null
                                                    /\ FindChild(x.node, c) \in Range(x.node.kids)
        <3>1. CASE FindChild(x.node, c) = Null
            BY <2>12, <3>1
        <3>2. CASE FindChild(x.node, c) # Null
            <4>1. PICK i \in DOMAIN x.node.kids : i = Slot(x.node, c) /\ FindChild(x.node, c) = x.node.kids[i]
                BY <2>12, <3>2
            <4>2. FindChild(n, c) = w[i] /\ w[i] = u[x.node.kids[i]]
                BY <2>3, <2>12, <3>2, <4>1
            <4> QED BY <2>9, <2>10, <3>2, <4>1, <4>2
        <3> QED BY <3>1, <3>2
    <2>14. PICK M : M = AllFresh(L, F)
        OBVIOUS
    <2>15. PICK e : e = d + x.plen + 1
        OBVIOUS
    <2>16. ASSUME NEW l \in M PROVE \E o \in L : LeafOK(o) /\ l = Fresh(o, F) /\ LeafOK(l) /\ l.key = o.key
        <3>1. PICK o \in L : l = Fresh(o, F)
            BY <2>14 DEF AllFresh
        <3>2. LeafOK(o)
            BY <2>1 DEF Heading
        <3> QED BY <3>1, <3>2, FreshLeaf
    <2>17. ASSUME NEW c \in Byte PROVE Branch(M, e, c) = AllFresh(Branch(L, e, c), F)
        <3>1. ASSUME NEW l \in Branch(M, e, c) PROVE l \in AllFresh(Branch(L, e, c), F)
            <4>1. l \in M /\ l.key[e] = c
                BY DEF Branch
            <4>2. PICK o \in L : l = Fresh(o, F) /\ l.key = o.key
                BY <2>16, <4>1
            <4>3. o \in Branch(L, e, c)
                BY <4>1, <4>2 DEF Branch
            <4> QED BY <4>2, <4>3 DEF AllFresh
        <3>2. ASSUME NEW l \in AllFresh(Branch(L, e, c), F) PROVE l \in Branch(M, e, c)
            <4>1. PICK o \in L : o.key[e] = c /\ l = Fresh(o, F)
                BY DEF AllFresh, Branch
            <4>2. LeafOK(o)
                BY <2>1 DEF Heading
            <4>3. l.key = o.key
                BY <4>1, <4>2, FreshLeaf
            <4>4. l \in M
                BY <2>14, <4>1 DEF AllFresh
            <4> QED BY <4>1, <4>3, <4>4 DEF Branch
        <3> QED BY <3>1, <3>2
    <2>18. Heading(m, d, M)
        <3>1. ASSUME NEW l \in M
              PROVE  /\ LeafOK(l) /\ Len(l.key) > d + x.plen /\ FindChild(n, l.key[e]) # Null
                     /\ x.partial = SubSeq(l.key, d + 1, d + Lesser(x.plen, MaxPrefix))
            <4>1. PICK o \in L : LeafOK(o) /\ LeafOK(l) /\ l.key = o.key
                BY <2>16
            <4>2. /\ Len(o.key) > d + x.plen /\ FindChild(x.node, o.key[e]) # Null
                  /\ x.partial = SubSeq(o.key, d + 1, d + Lesser(x.plen, MaxPrefix))
                BY <2>1, <2>15 DEF Heading
            <4>3. o.key[e] \in Byte
                <5>1. o.key \in Keys /\ Len(o.key) \in Nat
                    BY <4>1, Lengths DEF LeafOK
                <5>2. e \in 1 .. Len(o.key)
                    BY <1>1, <2>2, <2>15, <4>2, <5>1
                <5> QED BY <5>1, <5>2, Lengths
            <4> QED BY <2>13, <4>1, <4>2, <4>3
        <3>2. ASSUME NEW l \in M, NEW k \in M, NEW i \in d + 1 .. d + x.plen PROVE l.key[i] = k.key[i]
            <4>1. PICK o \in L : l.key = o.key
                BY <2>16
            <4>2. PICK r \in L : k.key = r.key
                BY <2>16
            <4> QED BY <2>1, <4>1, <4>2 DEF Heading
        <3>3. \E b, c \in Used(n) : b # c
            <4>1. PICK b, c \in Used(x.node) : b # c
                BY <2>2
            <4>2. b \in Byte /\ c \in Byte /\ FindChild(x.node, b) # Null /\ FindChild(x.node, c) # Null
                BY <2>2, <4>1, UsedAreFound
            <4>3. FindChild(n, b) # Null /\ FindChild(n, c) # Null
                BY <2>13, <4>2
            <4>4. b \in Used(n) /\ c \in Used(n)
                BY <2>12, <4>2, <4>3, UsedAreFound
            <4> QED BY <4>1, <4>4
        <3>4. LowBytes => Neat(n)
            <4>1. \A c \in Byte : FindChild(n, c) # Null => FindChild(x.node, c) # Null
                BY <2>13
            <4> QED BY <2>2, <2>4, <2>12, <4>1, NeatRepointed
        <3> QED BY <2>2, <2>7, <2>12, <2>15, <3>1, <3>2, <3>3, <3>4 DEF Heading
    <2>19. Spread(m, d, M)
        <3>1. ASSUME NEW c \in Byte, FindChild(n, c) # Null PROVE Rep(FindChild(n, c), e, Branch(M, e, c))
            <4>1. FindChild(x.node, c) # Null
                BY <2>13, <3>1
            <4>2. Rep(FindChild(x.node, c), e, Branch(L, e, c))
                BY <2>1, <2>15, <4>1 DEF Spread
            <4>3. FindChild(n, c) = u[FindChild(x.node, c)] /\ FindChild(x.node, c) \in Range(x.node.kids)
                BY <2>13, <4>1
            <4>4. Rep(FindChild(n, c), e, AllFresh(Branch(L, e, c), F))
                BY <2>8, <4>2, <4>3
            <4> QED BY <2>17, <4>4
        <3> QED BY <2>7, <2>15, <3>1 DEF Spread
    <2>20. M # {}
        BY <1>1, <2>14 DEF AllFresh
    <2>21. Rep(m, d, M)
        BY <1>1, <2>18, <2>19, <2>20, FoldInner
    <2> QED BY <2>5, <2>14, <2>21
<1> QED BY <1>2, <1>3

LEMMA WithUpdatesHolds ==
  ASSUME NEW n, NEW L, Tree(n, L), L # {}, NEW F
  PROVE  Tree(WithUpdates(n, F), AllFresh(L, F))
<1>0. MaxLen \in Nat
    BY Lengths
<1>1. Rep(n, 0, L)
    BY DEF Tree
<1>2. PICK V : /\ V[0] = {n} /\ Levels(n) = V
               /\ \A h \in 0 .. MaxLen : h < MaxLen => V[h + 1] = AllOpened(V[h])
    BY LevelsExist
<1>3. PICK f : /\ f[MaxLen] = AllUpdated(V[MaxLen], F, <<>>) /\ WithUpdates(n, F) = f[0][n]
               /\ \A h \in 0 .. MaxLen : h < MaxLen => f[h] = AllUpdated(V[h], F, f[h + 1])
    BY <1>2, UpdateExists
<1> DEFINE Good(y, z) == /\ y = Null => z = Null
                         /\ \A e, M : Rep(y, e, M) => Rep(z, e, AllFresh(M, F))
           S == {h \in 0 .. MaxLen : \A y \in V[h] : Good(y, f[h][y])}
<1>4. WithUpdate(Null, F, <<>>) = Null /\ \A u : WithUpdate(Null, F, u) = Null
    BY NullIsNeither DEF WithUpdate
<1>5. MaxLen \in S
    <2>1. ASSUME NEW y \in V[MaxLen] PROVE Good(y, f[MaxLen][y])
        <3>1. f[MaxLen][y] = WithUpdate(y, F, <<>>)
            BY <1>3 DEF AllUpdated
        <3>2. CASE y = Null
            <4>1. \A e, M : ~Rep(y, e, M)
                BY <3>2, Kinds
            <4> QED BY <1>4, <3>1, <3>2, <4>1
        <3>3. CASE y # Null
            <4>1. MaxLen \in 0 .. MaxLen
                BY <1>0
            <4>2. PICK e, M : Rep(y, e, M) /\ (IsInner(y) => e >= MaxLen)
                BY <1>1, <1>2, <3>3, <4>1, LevelsHold
            <4>3. ~IsInner(y)
                BY <1>0, <4>2, InnerIsHigh
            <4> QED BY <3>1, <3>3, <4>3, UpdateOne
        <3> QED BY <3>2, <3>3
    <2> QED BY <1>0, <2>1
<1>6. ASSUME NEW h \in 0 .. MaxLen, h + 1 \in S /\ h < MaxLen PROVE h \in S
    <2>1. ASSUME NEW y \in V[h] PROVE Good(y, f[h][y])
        <3>1. f[h][y] = WithUpdate(y, F, f[h + 1])
            BY <1>3, <1>6 DEF AllUpdated
        <3>2. CASE y = Null
            <4>1. \A e, M : ~Rep(y, e, M)
                BY <3>2, Kinds
            <4> QED BY <1>4, <3>1, <3>2, <4>1
        <3>3. CASE y # Null
            <4>1. ASSUME IsInner(y), NEW z \in Range(y.node.kids) PROVE Good(z, f[h + 1][z])
                <5>1. z \in V[h + 1]
                    BY <1>2, <1>6, <4>1 DEF AllOpened, Opened
                <5> QED BY <1>6, <5>1
            <4>2. ASSUME NEW e, NEW M, Rep(y, e, M) PROVE Rep(f[h][y], e, AllFresh(M, F))
                <5>1. IsInner(y) => \A z \in Range(y.node.kids) :
                        /\ z = Null => f[h + 1][z] = Null
                        /\ \A e2, M2 : Rep(z, e2, M2) => Rep(f[h + 1][z], e2, AllFresh(M2, F))
                    BY <4>1
                <5> HIDE DEF Good, S
                <5> QED BY <3>1, <4>2, <5>1, UpdateOne
            <4> QED BY <3>3, <4>2
        <3> QED BY <3>2, <3>3
    <2> QED BY <2>1
<1>7. 0 \in S
    <2> HIDE DEF S, Good
    <2> QED BY <1>0, <1>5, <1>6, Downward
<1>8. Rep(f[0][n], 0, AllFresh(L, F))
    <2>1. n \in V[0]
        BY <1>2
    <2> QED BY <1>1, <1>7, <2>1
<1> QED BY <1>3, <1>8 DEF Tree

-------------------------------------------------------------------------------
(* What the operations do to the set of keys and to those that are marked. *)
StoredIn(n) == {l.key : l \in Leaves(n)}
MarkedIn(n) == {l.key : l \in {x \in Leaves(n) : x.ended}}
IsTree(n) == Tree(n, Leaves(n))

LEMMA TreeLeaves ==
  ASSUME NEW n, NEW L, Tree(n, L)
  PROVE  Leaves(n) = L /\ IsTree(n)
BY LeavesAre, LeavesOfNull DEF Tree, IsTree

LEMMA LeavesAreOK ==
  ASSUME NEW n, IsTree(n)
  PROVE  /\ \A l \in Leaves(n) : LeafOK(l)
         /\ \A l, m \in Leaves(n) : l.key = m.key => l = m
         /\ StoredIn(n) \subseteq Keys /\ MarkedIn(n) \subseteq StoredIn(n)
         /\ \A k : Has(Leaves(n), k) <=> k \in StoredIn(n)
<1>1. \A l \in Leaves(n) : LeafOK(l)
    BY Kinds DEF IsTree, Tree
<1>2. \A l, m \in Leaves(n) : l.key = m.key => l = m
    BY OneLeafPerKey DEF IsTree
<1> QED BY <1>1, <1>2 DEF StoredIn, MarkedIn, Has, LeafOK

LEMMA LocateIs ==
  ASSUME NEW n, IsTree(n), NEW k \in Keys
  PROVE  /\ Locate(n, k) # Null <=> k \in StoredIn(n)
         /\ Lookup(n, k) # Null <=> k \in StoredIn(n)
         /\ k \in StoredIn(n) /\ Locate(n, k).ended => k \in MarkedIn(n)
<1>1. PICK yes \in BOOLEAN : yes = TRUE
    OBVIOUS
<1>2. PICK no \in BOOLEAN : no = FALSE
    OBVIOUS
<1>3. Locate(n, k) = LeafAt(n, k, yes) /\ Lookup(n, k) = LeafAt(n, k, no)
    BY <1>1, <1>2 DEF Locate, Lookup
<1>4. Tree(n, Leaves(n)) /\ (Has(Leaves(n), k) <=> k \in StoredIn(n))
    BY LeavesAreOK DEF IsTree
<1>5. (Locate(n, k) # Null <=> k \in StoredIn(n)) /\ (Lookup(n, k) # Null <=> k \in StoredIn(n))
    BY <1>3, <1>4, LeafAtIs
<1>6. k \in StoredIn(n) => Locate(n, k) \in Leaves(n) /\ Locate(n, k).key = k
    BY <1>3, <1>4, LeafAtIs
<1> QED BY <1>5, <1>6 DEF MarkedIn

LEMMA InsertDoes ==
  ASSUME NEW n, IsTree(n), NEW k \in Keys, k \notin StoredIn(n), \A m \in Keys : Len(m) < LockedByte,
         NEW m, m = WithKey(n, k)
  PROVE  IsTree(m) /\ StoredIn(m) = StoredIn(n) \cup {k} /\ MarkedIn(m) = MarkedIn(n)
<1>1. Tree(m, Leaves(n) \cup {Leaf(k)})
    BY LeavesAreOK, WithKeyHolds DEF IsTree
<1>2. IsTree(m) /\ Leaves(m) = Leaves(n) \cup {Leaf(k)}
    BY <1>1, TreeLeaves
<1>3. Leaf(k).key = k /\ ~Leaf(k).ended
    BY NewLeaf
<1> QED BY <1>2, <1>3 DEF StoredIn, MarkedIn

LEMMA WriteDoes ==
  ASSUME NEW n, IsTree(n), NEW k \in StoredIn(n), NEW whole \in BOOLEAN, NEW ended \in BOOLEAN,
         NEW m, m = WithLeaf(n, k, whole, ended)
  PROVE  /\ IsTree(m) /\ StoredIn(m) = StoredIn(n)
         /\ ended => MarkedIn(m) = MarkedIn(n) \cup {k}
         /\ ~ended => MarkedIn(m) = MarkedIn(n) \ {k}
<1>1. Tree(n, Leaves(n)) /\ Has(Leaves(n), k) /\ k \in Keys
    BY LeavesAreOK DEF IsTree
<1>2. PICK l \in Leaves(n) : l.key = k /\ Tree(m, (Leaves(n) \ {l}) \cup {Set(l, ended)})
    BY <1>1, WithLeafHolds
<1>3. PICK x : x = Set(l, ended)
    OBVIOUS
<1>4. IsTree(m) /\ Leaves(m) = (Leaves(n) \ {l}) \cup {x}
    BY <1>2, <1>3, TreeLeaves
<1>5. x.key = k /\ x.ended = ended
    BY <1>2, <1>3, LeavesAreOK, SetLeaf
<1>6. \A o \in Leaves(n) \ {l} : o.key # k
    BY <1>2, LeavesAreOK
<1>7. StoredIn(m) = StoredIn(n)
    BY <1>2, <1>4, <1>5 DEF StoredIn
<1>8. ASSUME ended PROVE MarkedIn(m) = MarkedIn(n) \cup {k}
    <2>1. ASSUME NEW c \in MarkedIn(m) PROVE c \in MarkedIn(n) \cup {k}
        BY <1>4, <1>5 DEF MarkedIn
    <2>2. ASSUME NEW c \in MarkedIn(n) \cup {k} PROVE c \in MarkedIn(m)
        <3>1. x \in Leaves(m) /\ x.ended /\ k \in MarkedIn(m)
            BY <1>4, <1>5, <1>8 DEF MarkedIn
        <3>2. ASSUME c # k PROVE c \in MarkedIn(m)
            <4>1. PICK o \in Leaves(n) : o.ended /\ o.key = c
                BY <2>2, <3>2 DEF MarkedIn
            <4>2. o \in Leaves(m)
                BY <1>2, <1>4, <3>2, <4>1
            <4> QED BY <4>1, <4>2 DEF MarkedIn
        <3> QED BY <3>1, <3>2
    <2> QED BY <2>1, <2>2
<1>9. ASSUME ~ended PROVE MarkedIn(m) = MarkedIn(n) \ {k}
    <2>1. ASSUME NEW c \in MarkedIn(m) PROVE c \in MarkedIn(n) \ {k}
        <3>1. PICK o \in Leaves(m) : o.ended /\ o.key = c
            BY DEF MarkedIn
        <3>2. o # x
            BY <1>5, <1>9, <3>1
        <3>3. o \in Leaves(n) \ {l}
            BY <1>4, <3>2
        <3> QED BY <1>6, <3>1, <3>3 DEF MarkedIn
    <2>2. ASSUME NEW c \in MarkedIn(n) \ {k} PROVE c \in MarkedIn(m)
        <3>1. PICK o \in Leaves(n) : o.ended /\ o.key = c /\ c # k
            BY DEF MarkedIn
        <3>2. o \in Leaves(m)
            BY <1>2, <1>4, <3>1
        <3> QED BY <3>1, <3>2 DEF MarkedIn
    <2> QED BY <2>1, <2>2
<1> QED BY <1>4, <1>7, <1>8, <1>9

LEMMA RemoveDoes ==
  ASSUME NEW n, IsTree(n), NEW k \in StoredIn(n), NEW m, m = WithoutKey(n, k)
  PROVE  /\ IsTree(m) /\ StoredIn(m) = StoredIn(n) \ {k} /\ MarkedIn(m) = MarkedIn(n) \ {k}
         /\ m # n
<1>1. Tree(n, Leaves(n)) /\ Has(Leaves(n), k) /\ k \in Keys
    BY LeavesAreOK DEF IsTree
<1>2. PICK l \in Leaves(n) : l.key = k /\ Tree(m, Leaves(n) \ {l})
    BY <1>1, WithoutKeyHolds
<1>3. IsTree(m) /\ Leaves(m) = Leaves(n) \ {l}
    BY <1>2, TreeLeaves
<1>4. \A o \in Leaves(n) : o.key = k <=> o = l
    BY <1>2, LeavesAreOK
<1>5. StoredIn(m) = StoredIn(n) \ {k}
    BY <1>3, <1>4 DEF StoredIn
<1>6. MarkedIn(m) = MarkedIn(n) \ {k}
    BY <1>3, <1>4 DEF MarkedIn
<1>7. m # n
    BY <1>5
<1> QED BY <1>3, <1>5, <1>6, <1>7

LEMMA UpdateDoes ==
  ASSUME NEW n, IsTree(n), NEW F, F \cap StoredIn(n) # {}, NEW m, m = WithUpdates(n, F)
  PROVE  IsTree(m) /\ StoredIn(m) = StoredIn(n) /\ MarkedIn(m) = MarkedIn(n) \ F
<1>1. Tree(n, Leaves(n)) /\ Leaves(n) # {}
    BY DEF IsTree, StoredIn
<1>2. Tree(m, AllFresh(Leaves(n), F))
    BY <1>1, WithUpdatesHolds
<1>3. IsTree(m) /\ Leaves(m) = AllFresh(Leaves(n), F)
    BY <1>2, TreeLeaves
<1>4. \A l \in Leaves(n) : Fresh(l, F).key = l.key /\ (Fresh(l, F).ended <=> l.ended /\ l.key \notin F)
    BY LeavesAreOK, FreshLeaf
<1>5. StoredIn(m) = StoredIn(n)
    BY <1>3, <1>4 DEF StoredIn, AllFresh
<1>6. ASSUME NEW c \in MarkedIn(m) PROVE c \in MarkedIn(n) \ F
    <2>1. PICK o \in Leaves(m) : o.ended /\ o.key = c
        BY DEF MarkedIn
    <2>2. PICK l \in Leaves(n) : o = Fresh(l, F)
        BY <1>3 DEF AllFresh
    <2> QED BY <1>4, <2>1, <2>2 DEF MarkedIn
<1>7. ASSUME NEW c \in MarkedIn(n) \ F PROVE c \in MarkedIn(m)
    <2>1. PICK l \in Leaves(n) : l.ended /\ l.key = c
        BY DEF MarkedIn
    <2>2. Fresh(l, F) \in Leaves(m)
        BY <1>3 DEF AllFresh
    <2> QED BY <1>4, <2>1, <2>2 DEF MarkedIn
<1> QED BY <1>3, <1>5, <1>6, <1>7

-------------------------------------------------------------------------------
(* No key is so long that the version of a node lies over it.              *)
ShortKeys == \A k \in Keys : Len(k) < LockedByte

(* The inductive invariant: the root represents its leaves as above; and   *)
(* while GC() is at work no transaction is, and the keys it has listed     *)
(* still have their records ended.                                         *)
IInv ==
  /\ IsTree(root)
  /\ IsFiniteSet(Stored)
  /\ size \in Int /\ Cardinality(Stored) <= size /\ size <= Cardinality(Stored) + MaxDrift
  /\ writeSet \subseteq Stored
  /\ deletionList \subseteq Marked
  /\ deletionList # {} => writeSet = {}

LEMMA InThisTree == Stored = StoredIn(root) /\ Marked = MarkedIn(root)
BY DEF Stored, Marked, StoredIn, MarkedIn

LEMMA InThatTree == Stored' = StoredIn(root') /\ Marked' = MarkedIn(root')
BY DEF Stored, Marked, StoredIn, MarkedIn

LEMMA InitIsTree == Init => IInv /\ Stored = {} /\ Marked = {}
<1> SUFFICES ASSUME Init PROVE IInv /\ Stored = {} /\ Marked = {}
    OBVIOUS
<1>1. Leaves(root) = {}
    BY LeavesOfNull DEF Init
<1>2. Stored = {} /\ Marked = {}
    BY <1>1 DEF Stored, Marked
<1>3. IsTree(root)
    BY <1>1 DEF Init, IsTree, Tree
<1>4. IsFiniteSet({}) /\ Cardinality({}) = 0
    BY FS_EmptySet
<1> QED BY <1>2, <1>3, <1>4, SettingsAssumption DEF IInv, Init, SettingsAssumption

(* What each step does to the keys, and that it keeps the invariant.       *)
LEMMA InsertStep ==
  ASSUME ShortKeys, IInv, NEW k \in Keys, Insert(k)
  PROVE  IInv' /\ Stored' = Stored \cup {k} /\ Marked' = Marked /\ k \notin Stored
<1>1. k \notin Stored /\ IsTree(root)
    BY InThisTree, LocateIs DEF IInv, Insert
<1>2. IsTree(root') /\ Stored' = Stored \cup {k} /\ Marked' = Marked
    BY <1>1, InThisTree, InThatTree, InsertDoes DEF Insert, ShortKeys
<1>3. IsFiniteSet(Stored') /\ Cardinality(Stored') = Cardinality(Stored) + 1 /\ Cardinality(Stored) \in Nat
    BY <1>1, <1>2, FS_AddElement, FS_CardinalityType DEF IInv
<1>4. size' = size + 1 /\ writeSet' = writeSet /\ deletionList' = deletionList
    BY DEF Insert
<1> QED BY <1>1, <1>2, <1>3, <1>4, SettingsAssumption DEF IInv, SettingsAssumption

(* A step that leaves the keys alone, outside of GC().                     *)
LEMMA QuietStep ==
  ASSUME IInv, Idle, IsTree(root'), Stored' = Stored, size' = size, deletionList' = deletionList,
         writeSet' \subseteq Stored
  PROVE  IInv'
BY DEF IInv, Idle

LEMMA OverwriteStep ==
  ASSUME IInv, NEW k \in Keys, Overwrite(k)
  PROVE  /\ IInv' /\ Stored' = Stored /\ k \in Stored
         /\ Marked' = Marked \ {k} \/ Marked' = Marked
<1>1. k \in Stored /\ IsTree(root)
    BY InThisTree, LocateIs DEF IInv, Overwrite
<1>2. PICK yes \in BOOLEAN : yes = TRUE
    OBVIOUS
<1>3. PICK no \in BOOLEAN : no = FALSE
    OBVIOUS
<1>4. CASE root' = WithLeaf(root, k, yes, no)
    <2>1. k \in StoredIn(root)
        BY <1>1, InThisTree
    <2>2. IsTree(root') /\ StoredIn(root') = StoredIn(root) /\ MarkedIn(root') = MarkedIn(root) \ {k}
        BY <1>1, <1>3, <1>4, <2>1, WriteDoes
    <2>3. IsTree(root') /\ Stored' = Stored /\ Marked' = Marked \ {k}
        BY <2>2, InThisTree, InThatTree
    <2> QED BY <1>1, <2>3, QuietStep DEF IInv, Overwrite
<1>5. CASE root' = root
    <2>1. IsTree(root') /\ Stored' = Stored /\ Marked' = Marked
        BY <1>1, <1>5, InThisTree, InThatTree
    <2> QED BY <1>1, <2>1, QuietStep DEF IInv, Overwrite
<1> QED BY <1>2, <1>3, <1>4, <1>5 DEF Overwrite

LEMMA UpdateStep ==
  ASSUME IInv, NEW k \in Keys, Update(k)
  PROVE  IInv' /\ Stored' = Stored /\ k \in Stored /\ Marked' = Marked \ {k}
<1>1. Lookup(root, k) # Null
    BY DEF Update, Find
<1>2. k \in Stored /\ k \in StoredIn(root) /\ IsTree(root)
    BY <1>1, InThisTree, LocateIs DEF IInv
<1>3. PICK no \in BOOLEAN : no = FALSE
    OBVIOUS
<1>4. root' = WithLeaf(root, k, no, no)
    BY <1>3 DEF Update
<1>5. IsTree(root') /\ StoredIn(root') = StoredIn(root) /\ MarkedIn(root') = MarkedIn(root) \ {k}
    BY <1>2, <1>3, <1>4, WriteDoes
<1>6. IsTree(root') /\ Stored' = Stored /\ Marked' = Marked \ {k}
    BY <1>5, InThisTree, InThatTree
<1> QED BY <1>2, <1>6, QuietStep DEF IInv, Update

LEMMA UpdateWhereStep ==
  ASSUME IInv, NEW F \in Filters, UpdateWhere(F)
  PROVE  IInv' /\ Stored' = Stored /\ Marked' = Marked \ (F \cap Stored)
<1>1. IsTree(root) /\ F \cap StoredIn(root) # {} /\ root' = WithUpdates(root, F)
    BY InThisTree DEF IInv, UpdateWhere
<1>2. IsTree(root') /\ StoredIn(root') = StoredIn(root) /\ MarkedIn(root') = MarkedIn(root) \ F
    BY <1>1, UpdateDoes
<1>3. IsTree(root') /\ Stored' = Stored /\ Marked' = Marked \ F
    BY <1>2, InThisTree, InThatTree
<1>4. Marked \subseteq Stored
    BY <1>1, InThisTree, LeavesAreOK
<1>5. Marked \ F = Marked \ (F \cap Stored)
    BY <1>4
<1> QED BY <1>3, <1>5, QuietStep DEF IInv, UpdateWhere

LEMMA DeleteStep ==
  ASSUME IInv, NEW k \in Keys, Delete(k)
  PROVE  IInv' /\ Stored' = Stored /\ k \in Stored /\ Marked' = Marked \cup {k}
<1>1. k \in Stored /\ k \in StoredIn(root) /\ IsTree(root)
    BY InThisTree, LocateIs DEF IInv, Delete
<1>2. PICK yes \in BOOLEAN : yes = TRUE
    OBVIOUS
<1>3. PICK ended \in BOOLEAN : ended = TRUE
    OBVIOUS
<1>4. root' = WithLeaf(root, k, yes, ended)
    BY <1>2, <1>3 DEF Delete
<1>5. /\ IsTree(root') /\ StoredIn(root') = StoredIn(root)
      /\ ended => MarkedIn(root') = MarkedIn(root) \cup {k}
    BY <1>1, <1>4, WriteDoes
<1>6. IsTree(root') /\ Stored' = Stored /\ Marked' = Marked \cup {k}
    BY <1>3, <1>5, InThisTree, InThatTree
<1> QED BY <1>1, <1>6, QuietStep DEF IInv, Delete

LEMMA SameTree ==
  ASSUME IInv, root' = root
  PROVE  IsTree(root') /\ Stored' = Stored /\ Marked' = Marked
BY DEF IInv, Stored, Marked

LEMMA DeleteMissStep ==
  ASSUME IInv, NEW k \in Keys, DeleteMiss(k)
  PROVE  IInv' /\ Stored' = Stored /\ Marked' = Marked
<1>1. IsTree(root') /\ Stored' = Stored /\ Marked' = Marked
    BY SameTree DEF DeleteMiss
<1>2. Cardinality(Stored) \in Nat
    BY FS_CardinalityType DEF IInv
<1>3. size' = size + 1 /\ size' <= Cardinality(Stored) + MaxDrift
    BY <1>2, SettingsAssumption DEF DeleteMiss, IInv, SettingsAssumption
<1> QED BY <1>1, <1>2, <1>3 DEF IInv, DeleteMiss

LEMMA ScanStep ==
  ASSUME IInv, Scan
  PROVE  IInv' /\ Stored' = Stored /\ Marked' = Marked
<1>1. IsTree(root') /\ Stored' = Stored /\ Marked' = Marked
    BY SameTree DEF Scan
<1>2. deletionList' \subseteq Marked
    <2>1. ASSUME NEW k \in writeSet, Locate(root, k).ended PROVE k \in Marked
        <3>1. IsTree(root) /\ k \in StoredIn(root) /\ k \in Keys
            BY InThisTree, LeavesAreOK DEF IInv
        <3> QED BY <2>1, <3>1, InThisTree, LocateIs
    <2> QED BY <2>1 DEF Scan
<1> QED BY <1>1, <1>2 DEF IInv, Scan

LEMMA CollectStep ==
  ASSUME IInv, NEW k \in Keys, Collect(k)
  PROVE  /\ IInv' /\ k \in Marked
         /\ \/ Stored' = Stored \ {k} /\ Marked' = Marked \ {k}
            \/ Stored' = Stored /\ Marked' = Marked
<1>1. k \in deletionList /\ k \in Marked /\ IsTree(root) /\ Marked \subseteq Stored /\ writeSet = {}
    BY InThisTree, LeavesAreOK DEF IInv, Collect
<1>2. deletionList' = deletionList \ {k} /\ writeSet' = {}
    BY <1>1 DEF Collect
<1>3. CASE root' = WithoutKey(root, k) /\ size' = IF root' = root THEN size ELSE size - 1
    <2>1. k \in StoredIn(root)
        BY <1>1, InThisTree
    <2>2. /\ IsTree(root') /\ StoredIn(root') = StoredIn(root) \ {k}
          /\ MarkedIn(root') = MarkedIn(root) \ {k} /\ root' # root
        BY <1>1, <1>3, <2>1, RemoveDoes
    <2>3. IsTree(root') /\ Stored' = Stored \ {k} /\ Marked' = Marked \ {k} /\ size' = size - 1
        BY <1>3, <2>2, InThisTree, InThatTree
    <2>4. /\ IsFiniteSet(Stored') /\ Cardinality(Stored') = Cardinality(Stored) - 1
          /\ Cardinality(Stored) \in Nat
        BY <1>1, <2>3, FS_RemoveElement, FS_CardinalityType DEF IInv
    <2>5. deletionList' \subseteq Marked'
        BY <1>2, <2>3 DEF IInv
    <2> QED BY <1>1, <1>2, <2>3, <2>4, <2>5, SettingsAssumption DEF IInv, SettingsAssumption
<1>4. CASE UNCHANGED <<root, size>>
    <2>1. IsTree(root') /\ Stored' = Stored /\ Marked' = Marked
        BY <1>4, SameTree
    <2> QED BY <1>1, <1>2, <1>4, <2>1 DEF IInv
<1> QED BY <1>3, <1>4 DEF Collect

LEMMA StepKeeps ==
  ASSUME ShortKeys, IInv, [Next]_vars
  PROVE  IInv'
<1>1. CASE Scan
    BY <1>1, ScanStep
<1>2. ASSUME NEW F \in Filters, UpdateWhere(F) PROVE IInv'
    BY <1>2, UpdateWhereStep
<1>3. ASSUME NEW k \in Keys, Insert(k) PROVE IInv'
    BY <1>3, InsertStep
<1>4. ASSUME NEW k \in Keys, Overwrite(k) PROVE IInv'
    BY <1>4, OverwriteStep
<1>5. ASSUME NEW k \in Keys, Update(k) PROVE IInv'
    BY <1>5, UpdateStep
<1>6. ASSUME NEW k \in Keys, Delete(k) PROVE IInv'
    BY <1>6, DeleteStep
<1>7. ASSUME NEW k \in Keys, DeleteMiss(k) PROVE IInv'
    BY <1>7, DeleteMissStep
<1>8. ASSUME NEW k \in Keys, Collect(k) PROVE IInv'
    BY <1>8, CollectStep
<1>9. CASE UNCHANGED vars
    <2>1. root' = root /\ size' = size /\ writeSet' = writeSet /\ deletionList' = deletionList
        BY <1>9 DEF vars
    <2>2. IsTree(root') /\ Stored' = Stored /\ Marked' = Marked
        BY <2>1, SameTree
    <2> QED BY <2>1, <2>2 DEF IInv
<1> QED BY <1>1, <1>2, <1>3, <1>4, <1>5, <1>6, <1>7, <1>8, <1>9 DEF Next

(* Whatever transactions and collections do, in any order: the root        *)
(* represents its leaves, the size counts them but for failed deletions,   *)
(* and the garbage collector lists only keys whose records are ended.      *)
THEOREM TreeStaysInvariant ==
  ASSUME ShortKeys
  PROVE  Spec => []IInv
<1>1. Init => IInv
    BY InitIsTree
<1>2. IInv /\ [Next]_vars => IInv'
    BY StepKeeps
<1> QED BY <1>1, <1>2, PTL DEF Spec

(* The write sets and the deletion list never name a key that is not in    *)
(* the tree, and size is the number of keys plus failed deletions.         *)
THEOREM TreeTypes ==
  ASSUME ShortKeys
  PROVE  Spec => []TypeOK
<1>1. ASSUME IInv PROVE TypeOK
    <2>1. Stored \subseteq Keys /\ Marked \subseteq Stored
        BY <1>1, InThisTree, LeavesAreOK DEF IInv
    <2>2. Cardinality(Stored) \in Nat /\ MaxDrift \in Nat
        BY <1>1, FS_CardinalityType, SettingsAssumption DEF IInv, SettingsAssumption
    <2>3. size \in Cardinality(Stored) .. Cardinality(Stored) + MaxDrift
        BY <1>1, <2>2 DEF IInv
    <2>4. writeSet \subseteq Stored /\ deletionList \subseteq Marked
        BY <1>1 DEF IInv
    <2> QED BY <2>1, <2>3, <2>4 DEF TypeOK
<1> QED BY <1>1, TreeStaysInvariant, PTL

LEMMA SubtreesOfNull == \A p \in Subtrees(Null) : ~IsInner(p[1])
<1>0. MaxLen \in Nat
    BY Lengths
<1>1. PICK f : /\ f[0] = {<<Null, 0>>} /\ Subtrees(Null) = f[MaxLen]
               /\ \A i \in 0 .. MaxLen : i < MaxLen => f[i + 1] = AllNearby(f[i])
    BY SubtreesExist
<1> DEFINE S == {i \in 0 .. MaxLen : \A p \in f[i] : ~IsInner(p[1])}
<1>2. 0 \in S
    BY <1>0, <1>1, NullIsNeither
<1>3. ASSUME NEW i \in 0 .. MaxLen, i \in S /\ i < MaxLen PROVE i + 1 \in S
    <2>1. f[i + 1] = AllNearby(f[i])
        BY <1>1, <1>3
    <2>2. \A p \in f[i + 1] : ~IsInner(p[1])
        BY <1>3, <2>1 DEF AllNearby, Nearby
    <2> QED BY <1>0, <1>3, <2>2
<1>4. MaxLen \in S
    <2> HIDE DEF S
    <2> QED BY <1>0, <1>2, <1>3, Upward
<1> QED BY <1>1, <1>4

LEMMA NodesHold ==
  ASSUME NEW n, IsTree(n), NEW p \in Nodes(n)
  PROVE  Rep(p[1], p[2], Leaves(p[1])) /\ IsInner(p[1])
<1>1. IsInner(p[1]) /\ p \in Subtrees(n)
    BY DEF Nodes
<1>2. Rep(n, 0, Leaves(n))
    BY <1>1, SubtreesOfNull DEF IsTree, Tree
<1>3. PICK M : Rep(p[1], p[2], M)
    BY <1>1, <1>2, SubtreesHold
<1> QED BY <1>1, <1>3, LeavesAre

(* A tree stays compressed as it should be: prefixes, bytes of children    *)
(* and the number of children are right in every node.                     *)
THEOREM TreeStaysSound ==
  ASSUME ShortKeys
  PROVE  Spec => []TreeIsSound
<1>1. ASSUME IInv PROVE TreeIsSound
    <2> SUFFICES ASSUME NEW p \in Nodes(root)
                 PROVE  LET n == p[1]
                            d == p[2]
                            below == {l.key : l \in Leaves(n)}
                        IN /\ \A k \in below :
                                /\ Len(k) > d + n.plen
                                /\ \A m \in below : \A i \in d + 1 .. d + n.plen : k[i] = m[i]
                                /\ n.partial = SubSeq(k, d + 1, d + Lesser(n.plen, MaxPrefix))
                           /\ Cardinality(Used(n.node)) > 1
                           /\ \A c \in Used(n.node) :
                                \A l \in Leaves(FindChild(n.node, c)) : l.key[d + n.plen + 1] = c
        BY DEF TreeIsSound
    <2>1. PICK n, d, L : n = p[1] /\ d = p[2] /\ L = Leaves(n)
        OBVIOUS
    <2>2. Rep(n, d, L) /\ IsInner(n)
        BY <1>1, <2>1, NodesHold DEF IInv
    <2>3. Heading(n, d, L) /\ Spread(n, d, L)
        BY <2>2, Kinds
    <2>4. \A l \in L : /\ Len(l.key) > d + n.plen
                       /\ \A m \in L : \A i \in d + 1 .. d + n.plen : l.key[i] = m.key[i]
                       /\ n.partial = SubSeq(l.key, d + 1, d + Lesser(n.plen, MaxPrefix))
        BY <2>3 DEF Heading
    <2>5. Cardinality(Used(n.node)) > 1
        BY <2>3, MoreThanOne DEF Heading
    <2>6. ASSUME NEW c \in Used(n.node), NEW l \in Leaves(FindChild(n.node, c))
          PROVE  l.key[d + n.plen + 1] = c
        <3>1. c \in Byte /\ FindChild(n.node, c) # Null
            BY <2>3, UsedAreFound DEF Heading
        <3>2. Leaves(FindChild(n.node, c)) = Branch(L, d + n.plen + 1, c)
            BY <2>3, <3>1, LeavesAre DEF Spread
        <3> QED BY <3>2 DEF Branch
    <2> QED BY <2>1, <2>4, <2>5, <2>6
<1> QED BY <1>1, TreeStaysInvariant, PTL

LEMMA TwoMembers ==
  ASSUME NEW S, IsFiniteSet(S), NEW a \in S, NEW b \in S, a # b
  PROVE  Cardinality(S) > 1
<1>1. Cardinality({a, b}) = 2
    <2>1. IsFiniteSet({b}) /\ Cardinality({b}) = 1
        BY FS_Singleton
    <2>2. {a, b} = {b} \cup {a} /\ a \notin {b}
        OBVIOUS
    <2> QED BY <2>1, <2>2, FS_AddElement
<1>2. Cardinality({a, b}) <= Cardinality(S) /\ Cardinality(S) \in Nat
    BY FS_Subset, FS_CardinalityType
<1> QED BY <1>1, <1>2

(* A node stands above at least two keys.                                  *)
LEMMA NodeHasTwoKeys ==
  ASSUME NEW n, IsTree(n), IsInner(n), IsFiniteSet(StoredIn(n))
  PROVE  Cardinality(StoredIn(n)) > 1
<1>1. PICK L : L = Leaves(n)
    OBVIOUS
<1>2. Rep(n, 0, L)
    BY <1>1, NullIsNeither DEF IsTree, Tree
<1>3. Heading(n, 0, L) /\ Spread(n, 0, L)
    BY <1>2, Kinds
<1>4. PICK b, c : b \in Used(n.node) /\ c \in Used(n.node) /\ b # c
    BY <1>3 DEF Heading
<1>5. ASSUME NEW e \in Used(n.node) PROVE \E l \in L : l.key[0 + n.plen + 1] = e
    <2>1. e \in Byte /\ FindChild(n.node, e) # Null
        BY <1>3, UsedAreFound DEF Heading
    <2>2. Rep(FindChild(n.node, e), 0 + n.plen + 1, Branch(L, 0 + n.plen + 1, e))
        BY <1>3, <2>1 DEF Spread
    <2>3. Branch(L, 0 + n.plen + 1, e) # {}
        BY <2>2, Unfold
    <2> QED BY <2>3 DEF Branch
<1>6. PICK l \in L : l.key[0 + n.plen + 1] = b
    BY <1>4, <1>5
<1>7. PICK m \in L : m.key[0 + n.plen + 1] = c
    BY <1>4, <1>5
<1>8. l.key \in StoredIn(n) /\ m.key \in StoredIn(n) /\ l.key # m.key
    BY <1>1, <1>4, <1>6, <1>7 DEF StoredIn
<1> QED BY <1>8, TwoMembers

(* The searches find exactly the keys that are stored, but for the one in  *)
(* a root that is a leaf.                                                  *)
THEOREM SearchesStayRight ==
  ASSUME ShortKeys
  PROVE  Spec => []SearchesAgree
<1>1. ASSUME IInv PROVE SearchesAgree
    <2>0. IsTree(root) /\ IsFiniteSet(StoredIn(root)) /\ Stored = StoredIn(root)
        BY <1>1, InThisTree DEF IInv
    <2> SUFFICES ASSUME NEW k \in Keys
                 PROVE  /\ Locate(root, k) # Null <=> k \in StoredIn(root)
                        /\ Find(k) # Null <=> k \in StoredIn(root) /\ Cardinality(StoredIn(root)) > 1
        BY <2>0 DEF SearchesAgree
    <2>1. /\ Locate(root, k) # Null <=> k \in StoredIn(root)
          /\ Lookup(root, k) # Null <=> k \in StoredIn(root)
        BY <2>0, LocateIs
    <2>2. CASE root = Null
        <3>1. StoredIn(root) = {}
            BY <2>2, LeavesOfNull DEF StoredIn
        <3> QED BY <2>1, <2>2, <3>1, NullIsNeither DEF Find
    <2>3. CASE IsLeaf(root)
        <3>1. Rep(root, 0, Leaves(root))
            BY <2>0, <2>3, NullIsNeither DEF IsTree, Tree
        <3>2. Leaves(root) = {root}
            BY <2>3, <3>1, Kinds DEF Holding
        <3>3. StoredIn(root) = {root.key}
            BY <3>2 DEF StoredIn
        <3>4. Cardinality(StoredIn(root)) = 1
            BY <3>3, FS_Singleton
        <3> QED BY <2>1, <2>3, <3>4 DEF Find
    <2>4. CASE IsInner(root)
        <3>1. Cardinality(StoredIn(root)) > 1
            BY <2>0, <2>4, NodeHasTwoKeys
        <3>2. ~IsLeaf(root)
            BY <2>4 DEF IsInner, IsLeaf
        <3> QED BY <2>1, <3>1, <3>2 DEF Find
    <2> QED BY <2>0, <2>2, <2>3, <2>4, Kinds DEF IsTree, Tree
<1> QED BY <1>1, TreeStaysInvariant, PTL

(* Every step of the tree, whatever it does to the nodes on its way, is    *)
(* one step of a set of keys, or none.                                     *)
LEMMA StepIsAbstract ==
  ASSUME ShortKeys, IInv, [Next]_vars
  PROVE  [Store!Next]_(Store!vars)
<1>1. ASSUME NEW k \in Keys, Insert(k) PROVE Store!Next
    <2>1. Store!Insert(k)
        BY <1>1, InsertStep DEF Store!Insert
    <2> QED BY <2>1 DEF Store!Next
<1>2. ASSUME NEW k \in Keys, k \in Stored, Stored' = Stored, Marked' = Marked \ {k} PROVE Store!Next
    <2>1. Store!Write({k})
        BY <1>2 DEF Store!Write
    <2> QED BY <2>1 DEF Store!Next
<1>3. ASSUME NEW F \in Filters, UpdateWhere(F) PROVE Store!Next
    <2>1. Store!Write(F \cap Stored)
        BY <1>3, UpdateWhereStep DEF Store!Write
    <2> QED BY <2>1 DEF Store!Next
<1>4. ASSUME NEW k \in Keys, Delete(k) PROVE Store!Next
    <2>1. Store!Mark(k)
        BY <1>4, DeleteStep DEF Store!Mark
    <2> QED BY <2>1 DEF Store!Next
<1>5. ASSUME NEW k \in Keys, k \in Marked, Stored' = Stored \ {k}, Marked' = Marked \ {k} PROVE Store!Next
    <2>1. Store!Collect(k)
        BY <1>5 DEF Store!Collect
    <2> QED BY <2>1 DEF Store!Next
<1>6. ASSUME Stored' = Stored, Marked' = Marked PROVE UNCHANGED Store!vars
    BY <1>6 DEF Store!vars
<1>7. CASE Scan
    BY <1>6, <1>7, ScanStep
<1>8. ASSUME NEW k \in Keys, Overwrite(k) PROVE [Store!Next]_(Store!vars)
    BY <1>2, <1>6, <1>8, OverwriteStep
<1>9. ASSUME NEW k \in Keys, Update(k) PROVE Store!Next
    BY <1>2, <1>9, UpdateStep
<1>10. ASSUME NEW k \in Keys, DeleteMiss(k) PROVE UNCHANGED Store!vars
    BY <1>6, <1>10, DeleteMissStep
<1>11. ASSUME NEW k \in Keys, Collect(k) PROVE [Store!Next]_(Store!vars)
    BY <1>5, <1>6, <1>11, CollectStep
<1>12. CASE UNCHANGED vars
    BY <1>6, <1>12, SameTree DEF vars
<1> QED BY <1>1, <1>3, <1>4, <1>7, <1>8, <1>9, <1>10, <1>11, <1>12 DEF Next

(* The tree implements the set of keys that it promises.                   *)
THEOREM TreeImplementsStore ==
  ASSUME ShortKeys
  PROVE  Spec => ImplementsKeyStore
<1>1. Init => Store!Init
    BY InitIsTree DEF Store!Init
<1>2. IInv /\ [Next]_vars => [Store!Next]_(Store!vars)
    BY StepIsAbstract
<1> QED BY <1>1, <1>2, TreeStaysInvariant, PTL DEF Spec, Store!Spec, ImplementsKeyStore

(* A key that the tree finds is found until the garbage collector takes it *)
(* away: the disagreement that longer keys bring about is their only one.  *)
THEOREM ShortKeysStayFound ==
  ASSUME ShortKeys
  PROVE  Spec => KeysStayFound
<1>1. ASSUME IInv, [Next]_vars
      PROVE  [\A k \in Keys : Locate(root, k) # Null => Locate(root', k) # Null \/ Collect(k)]_vars
    <2> SUFFICES ASSUME NEW k \in Keys, Locate(root, k) # Null, ~UNCHANGED vars
                 PROVE  Locate(root', k) # Null \/ Collect(k)
        OBVIOUS
    <2>1. IInv' /\ IsTree(root) /\ IsTree(root')
        BY <1>1, StepKeeps DEF IInv
    <2>2. k \in Stored
        BY <2>1, InThisTree, LocateIs
    <2>3. ASSUME k \in Stored' PROVE Locate(root', k) # Null
        BY <2>1, <2>3, InThatTree, LocateIs
    <2>4. k \in Stored' \/ Collect(k)
        <3>1. CASE Scan
            BY <1>1, <2>2, <3>1, ScanStep
        <3>2. ASSUME NEW F \in Filters, UpdateWhere(F) PROVE k \in Stored'
            BY <1>1, <2>2, <3>2, UpdateWhereStep
        <3>3. ASSUME NEW m \in Keys, Insert(m) PROVE k \in Stored'
            BY <1>1, <2>2, <3>3, InsertStep
        <3>4. ASSUME NEW m \in Keys, Overwrite(m) PROVE k \in Stored'
            BY <1>1, <2>2, <3>4, OverwriteStep
        <3>5. ASSUME NEW m \in Keys, Update(m) PROVE k \in Stored'
            BY <1>1, <2>2, <3>5, UpdateStep
        <3>6. ASSUME NEW m \in Keys, Delete(m) PROVE k \in Stored'
            BY <1>1, <2>2, <3>6, DeleteStep
        <3>7. ASSUME NEW m \in Keys, DeleteMiss(m) PROVE k \in Stored'
            BY <1>1, <2>2, <3>7, DeleteMissStep
        <3>8. ASSUME NEW m \in Keys, Collect(m) PROVE k \in Stored' \/ Collect(k)
            BY <1>1, <2>2, <3>8, CollectStep
        <3> QED BY <1>1, <3>1, <3>2, <3>3, <3>4, <3>5, <3>6, <3>7, <3>8 DEF Next
    <2> QED BY <2>3, <2>4
<1> QED BY <1>1, TreeStaysInvariant, PTL DEF Spec, KeysStayFound

-------------------------------------------------------------------------------
(* Iterations.  The sequence s lists the keys K, each once, and in their   *)
(* order if no byte is taken for a negative number.                        *)
InOrderIf(k, m) == k # m /\ (LowBytes => Before(k, m))

Lists(s, K) ==
  /\ s \in Seq(Keys) /\ Range(s) = K
  /\ \A i, j \in 1 .. Len(s) : i < j => InOrderIf(s[i], s[j])

Apart(K, M) == \A k \in K, m \in M : InOrderIf(k, m)

LEMMA ListOfOne ==
  ASSUME NEW k \in Keys
  PROVE  Lists(<<k>>, {k})
<1>1. <<k>> \in Seq(Keys) /\ Len(<<k>>) = 1 /\ <<k>>[1] = k /\ DOMAIN <<k>> = 1 .. 1
    OBVIOUS
<1>2. Range(<<k>>) = {k}
    BY <1>1 DEF Range
<1> QED BY <1>1, <1>2 DEF Lists

LEMMA Joined ==
  ASSUME NEW K, NEW M, NEW s, Lists(s, K), NEW t, Lists(t, M), Apart(K, M)
  PROVE  Lists(s \o t, K \cup M)
<1>1. PICK r \in Seq(Keys) : r = s \o t
    <2>1. s \in Seq(Keys) /\ t \in Seq(Keys)
        BY DEF Lists
    <2>2. s \o t \in Seq(Keys)
        BY <2>1, ConcatProperties
    <2> QED BY <2>2
<1>2. PICK a \in Nat : a = Len(s)
    BY LenProperties DEF Lists
<1>3. PICK b \in Nat : b = Len(t)
    BY LenProperties DEF Lists
<1>4. /\ Len(r) = a + b /\ DOMAIN r = 1 .. a + b /\ DOMAIN s = 1 .. a /\ DOMAIN t = 1 .. b
      /\ \A i \in 1 .. a : r[i] = s[i]
      /\ \A i \in 1 .. b : r[a + i] = t[i]
    BY <1>1, <1>2, <1>3 DEF Lists
<1>5. \A i \in 1 .. a : s[i] \in K
    BY <1>4 DEF Lists, Range
<1>6. \A i \in 1 .. b : t[i] \in M
    BY <1>4 DEF Lists, Range
<1>7. ASSUME NEW i \in 1 .. a + b, i > a PROVE i - a \in 1 .. b /\ r[i] = t[i - a]
    <2>1. i - a \in 1 .. b /\ a + (i - a) = i
        BY <1>7
    <2> QED BY <1>4, <2>1
<1>8. Range(r) = K \cup M
    <2>1. ASSUME NEW i \in 1 .. a + b PROVE r[i] \in K \cup M
        <3>1. i <= a => r[i] \in K
            BY <1>4, <1>5
        <3>2. i > a => r[i] \in M
            BY <1>6, <1>7
        <3> QED BY <3>1, <3>2
    <2>2. ASSUME NEW k \in K PROVE \E i \in 1 .. a + b : r[i] = k
        <3>1. PICK i \in 1 .. a : s[i] = k
            BY <1>4 DEF Lists, Range
        <3> QED BY <1>4, <3>1
    <2>3. ASSUME NEW k \in M PROVE \E i \in 1 .. a + b : r[i] = k
        <3>1. PICK i \in 1 .. b : t[i] = k
            BY <1>4 DEF Lists, Range
        <3>2. a + i \in 1 .. a + b
            OBVIOUS
        <3> QED BY <1>4, <3>1, <3>2
    <2> QED BY <1>4, <2>1, <2>2, <2>3 DEF Range
<1>9. ASSUME NEW i \in 1 .. a + b, NEW j \in 1 .. a + b, i < j PROVE InOrderIf(r[i], r[j])
    <2>1. CASE j <= a
        <3>1. i \in 1 .. a /\ j \in 1 .. a /\ r[i] = s[i] /\ r[j] = s[j]
            BY <1>4, <1>9, <2>1
        <3> QED BY <1>2, <1>9, <3>1 DEF Lists
    <2>2. CASE i <= a /\ j > a
        <3>1. r[i] \in K
            BY <1>4, <1>5, <2>2
        <3>2. r[j] \in M
            BY <1>6, <1>7, <2>2
        <3> QED BY <3>1, <3>2 DEF Apart
    <2>3. CASE i > a
        <3>1. /\ i - a \in 1 .. b /\ j - a \in 1 .. b /\ i - a < j - a
              /\ r[i] = t[i - a] /\ r[j] = t[j - a]
            BY <1>7, <1>9, <2>3
        <3> QED BY <1>3, <3>1 DEF Lists
    <2> QED BY <1>9, <2>1, <2>2, <2>3
<1>10. Lists(r, K \cup M)
    BY <1>4, <1>8, <1>9 DEF Lists
<1> QED BY <1>1, <1>10

Flattening(f, s, k) == /\ f[1] = s[1] /\ FlattenSeq(s) = f[k]
                       /\ \A i \in 1 .. k : i < k => f[i + 1] = f[i] \o s[i + 1]

LEMMA FlattenExists ==
  ASSUME NEW k \in Nat, k # 0, NEW s, Len(s) = k
  PROVE  \E f : Flattening(f, s, k)
<1> DEFINE Is(f, m) == f = [i \in 1 .. m |-> IF i = 1 THEN s[i] ELSE f[i - 1] \o s[i]]
           S == {m \in 0 .. k : \E f : Is(f, m)}
<1>1. 0 \in S
    <2>1. Is([i \in 1 .. 0 |-> s[i]], 0)
        OBVIOUS
    <2> HIDE DEF Is
    <2> QED BY <2>1
<1>2. ASSUME NEW m \in 0 .. k, m \in S /\ m < k PROVE m + 1 \in S
    <2>1. PICK f : Is(f, m)
        <3> HIDE DEF Is
        <3> QED BY <1>2
    <2> DEFINE g == [i \in 1 .. m + 1 |-> IF i = m + 1 THEN IF i = 1 THEN s[i] ELSE f[m] \o s[i]
                                          ELSE f[i]]
    <2>2. ASSUME NEW i \in 1 .. m + 1 PROVE g[i] = IF i = 1 THEN s[i] ELSE g[i - 1] \o s[i]
        <3>1. CASE i = m + 1
            <4>1. i # 1 => i - 1 = m /\ m \in 1 .. m + 1 /\ m # m + 1
                BY <3>1
            <4>2. (i # 1 => g[m] = f[m]) /\ g[i] = IF i = 1 THEN s[i] ELSE f[m] \o s[i]
                BY <3>1, <4>1
            <4> QED BY <4>1, <4>2
        <3>2. CASE i # m + 1
            <4>1. i \in 1 .. m /\ g[i] = f[i]
                BY <3>2
            <4>2. f[i] = IF i = 1 THEN s[i] ELSE f[i - 1] \o s[i]
                BY <2>1, <4>1
            <4>3. i # 1 => i - 1 \in 1 .. m + 1 /\ i - 1 # m + 1
                BY <4>1
            <4>4. i # 1 => g[i - 1] = f[i - 1]
                BY <4>3
            <4> QED BY <4>1, <4>2, <4>4
        <3> QED BY <3>1, <3>2
    <2>3. Is(g, m + 1)
        BY <2>2
    <2> HIDE DEF Is, g
    <2> QED BY <1>2, <2>3
<1>3. k \in S
    <2> HIDE DEF S
    <2>1. \A h \in 0 .. k : h \in S
        BY <1>1, <1>2, Upward
    <2> QED BY <2>1
<1> DEFINE f == CHOOSE f : f = [i \in 1 .. Len(s) |-> IF i = 1 THEN s[i] ELSE f[i - 1] \o s[i]]
<1>4. FlattenSeq(s) = f[k]
    BY DEF FlattenSeq
<1>5. f = [i \in 1 .. k |-> IF i = 1 THEN s[i] ELSE f[i - 1] \o s[i]]
    <2>1. \E q : q = [i \in 1 .. Len(s) |-> IF i = 1 THEN s[i] ELSE q[i - 1] \o s[i]]
        BY <1>3
    <2> QED BY <2>1
<1> HIDE DEF f
<1>6. f[1] = s[1]
    BY <1>5
<1>7. ASSUME NEW i \in 1 .. k, i < k PROVE f[i + 1] = f[i] \o s[i + 1]
    <2>1. i + 1 \in 1 .. k /\ i + 1 # 1 /\ (i + 1) - 1 = i
        BY <1>7
    <2> QED BY <1>5, <2>1
<1> QED BY <1>4, <1>6, <1>7 DEF Flattening

LEMMA Flattened ==
  ASSUME NEW k \in Nat, k # 0, NEW s, Len(s) = k, NEW K, \A i \in 1 .. k : Lists(s[i], K[i]),
         \A i, j \in 1 .. k : i < j => Apart(K[i], K[j])
  PROVE  Lists(FlattenSeq(s), UNION {K[i] : i \in 1 .. k})
<1> DEFINE upto(i) == UNION {K[j] : j \in 1 .. i}
<1>0. PICK f : Flattening(f, s, k)
    BY FlattenExists
<1>1. /\ f[1] = s[1] /\ FlattenSeq(s) = f[k]
      /\ \A i \in 1 .. k : i < k => f[i + 1] = f[i] \o s[i + 1]
    BY <1>0 DEF Flattening
<1> DEFINE S == {h \in 0 .. k - 1 : Lists(f[h + 1], upto(h + 1))}
<1>2. 0 \in S
    <2>1. upto(1) = K[1]
        OBVIOUS
    <2> HIDE DEF upto
    <2> QED BY <1>1, <2>1
<1>3. ASSUME NEW h \in 0 .. k - 1, h \in S /\ h < k - 1 PROVE h + 1 \in S
    <2>1. PICK i \in 1 .. k : i = h + 1 /\ i < k /\ i + 1 \in 1 .. k /\ i \in 0 .. k - 1
        BY <1>3
    <2>2. upto(i + 1) = upto(i) \cup K[i + 1]
        <3>1. 1 .. i + 1 = (1 .. i) \cup {i + 1}
            BY <2>1
        <3> QED BY <3>1
    <2>3. Apart(upto(i), K[i + 1])
        <3>1. ASSUME NEW j \in 1 .. i PROVE Apart(K[j], K[i + 1])
            BY <2>1
        <3> QED BY <3>1 DEF Apart
    <2>4. Lists(f[i], upto(i)) /\ Lists(s[i + 1], K[i + 1])
        BY <1>3, <2>1
    <2>5. f[i + 1] = f[i] \o s[i + 1]
        BY <1>1, <2>1
    <2> HIDE DEF upto
    <2>6. Lists(f[i + 1], upto(i + 1))
        BY <2>2, <2>3, <2>4, <2>5, Joined
    <2> QED BY <2>1, <2>6
<1>4. k - 1 \in S
    <2> HIDE DEF S
    <2>1. k - 1 \in Nat
        OBVIOUS
    <2>2. \A h \in 0 .. k - 1 : h \in S
        BY <1>2, <1>3, <2>1, Upward
    <2> QED BY <2>1, <2>2
<1>5. (k - 1) + 1 = k
    OBVIOUS
<1> HIDE DEF upto
<1>6. Lists(f[k], upto(k))
    BY <1>4, <1>5
<1> QED BY <1>1, <1>6 DEF upto

(* The children of a node in the order of its bytes.                       *)
(* The k children of n in order, and the bytes that lead to them.          *)
Ordering(n, k, bytes) ==
  /\ k # 0 /\ Len(InOrder(n)) = k /\ DOMAIN InOrder(n) = 1 .. k
  /\ \A i \in 1 .. k : bytes[i] \in Used(n) /\ InOrder(n)[i] = FindChild(n, bytes[i])
  /\ \A c \in Used(n) : \E i \in 1 .. k : bytes[i] = c
  /\ \A i, j \in 1 .. k : i < j => bytes[i] # bytes[j] /\ (Neat(n) => bytes[i] < bytes[j])

LEMMA InOrderIs ==
  ASSUME NEW n, Sound(n)
  PROVE  \E k \in Nat : \E bytes : Ordering(n, k, bytes)
<1>1. Used(n) \subseteq Byte /\ Used(n) # {} /\ Used(n) = {c \in Byte : FindChild(n, c) # Null}
    BY UsedAreFound, MoreThanOne
<1>2. CASE n.type \in Linear
    <2>1. PICK T : T = KidsOf(n)
        OBVIOUS
    <2>2. PICK f : f = Content(n)
        OBVIOUS
    <2>3. Null \notin T /\ Holds(T, n, f) /\ Mapped(f) = Used(n) /\ \A c \in Byte : f[c] = FindChild(n, c)
        BY <2>1, <2>2, UsedAreFound DEF KidsOf, Sound, Content
    <2>4. LinearOf(T, n, f) /\ f \in Maps(T)
        BY <1>2, <2>3 DEF Holds, SlotsOf, DirectOf, Linear
    <2>5. n.num \in Nat /\ \A i \in 1 .. n.num : n.keys[i] \in Used(n)
        BY <2>3, <2>4, OnePlace
    <2>6. /\ InOrder(n) = n.kids /\ Len(n.kids) = n.num /\ DOMAIN n.kids = 1 .. n.num
          /\ \A i \in 1 .. n.num : n.kids[i] = f[n.keys[i]]
          /\ \A i, j \in 1 .. n.num : n.keys[i] = n.keys[j] => i = j
          /\ \A c \in Used(n) : \E i \in 1 .. n.num : n.keys[i] = c
        BY <1>2, <2>3, <2>4, LenProperties DEF LinearOf, InOrder
    <2>7. ASSUME NEW i \in 1 .. n.num PROVE n.kids[i] = FindChild(n, n.keys[i])
        BY <1>1, <2>3, <2>5, <2>6
    <2>8. ASSUME NEW i \in 1 .. n.num, NEW j \in 1 .. n.num, i < j
          PROVE  n.keys[i] # n.keys[j] /\ (Neat(n) => n.keys[i] < n.keys[j])
        <3>1. i # j
            BY <2>5, <2>8
        <3>2. n.keys[i] # n.keys[j]
            BY <2>6, <3>1
        <3>3. Neat(n) => n.keys[i] < n.keys[j]
            BY <1>2, <2>8 DEF Neat, Rising
        <3> QED BY <3>2, <3>3
    <2>9. n.num # 0
        BY <1>1, <2>5, <2>6
    <2>10. PICK bytes : bytes = n.keys
        OBVIOUS
    <2>11. PICK k \in Nat : k = n.num
        BY <2>5
    <2>12. /\ \A i \in 1 .. k : bytes[i] \in Used(n) /\ InOrder(n)[i] = FindChild(n, bytes[i])
           /\ \A c \in Used(n) : \E i \in 1 .. k : bytes[i] = c
        BY <2>5, <2>6, <2>7, <2>10, <2>11
    <2>13. ASSUME NEW i \in 1 .. k, NEW j \in 1 .. k, i < j
           PROVE  bytes[i] # bytes[j] /\ (Neat(n) => bytes[i] < bytes[j])
        BY <2>8, <2>10, <2>11, <2>13
    <2>14. k # 0 /\ Len(InOrder(n)) = k /\ DOMAIN InOrder(n) = 1 .. k
        BY <2>6, <2>9, <2>11
    <2>15. Ordering(n, k, bytes)
        BY <2>12, <2>13, <2>14 DEF Ordering
    <2> QED BY <2>15
<1>3. CASE n.type \notin Linear
    <2>1. PICK k \in Nat : k = Cardinality(Used(n)) /\ k # 0
        <3>1. IsFiniteSet(Used(n))
            BY <1>1, BytesAreFinite
        <3> QED BY <1>1, <3>1, FS_EmptySet, FS_CardinalityType
    <2>2. PICK bytes \in [1 .. k -> Used(n)] :
            /\ bytes = InByteOrder(n)
            /\ \A c \in Used(n) : Rank(n, c) \in 1 .. k /\ bytes[Rank(n, c)] = c
        BY <1>1, <2>1, ByteOrder
    <2>3. \A i, j \in 1 .. k : i < j => bytes[i] < bytes[j]
        BY <1>1, <2>1, <2>2, RanksRise
    <2>4. \A i, j \in 1 .. k : i < j => bytes[i] # bytes[j]
        <3>1. \A i \in 1 .. k : bytes[i] \in Nat
            BY <1>1, SizesAssumption DEF SizesAssumption, Byte
        <3> QED BY <2>3, <3>1
    <2>5. PICK kids : kids = [i \in 1 .. k |-> FindChild(n, bytes[i])]
        OBVIOUS
    <2>6. InOrder(n) = kids
        BY <1>3, <2>2, <2>5 DEF InOrder
    <2>7. Len(kids) = k /\ DOMAIN kids = 1 .. k /\ \A i \in 1 .. k : kids[i] = FindChild(n, bytes[i])
        BY <2>5
    <2>8. \A c \in Used(n) : \E i \in 1 .. k : bytes[i] = c
        BY <2>2
    <2>9. \A i \in 1 .. k : bytes[i] \in Used(n)
        BY <2>2
    <2>10. Ordering(n, k, bytes)
        BY <2>1, <2>3, <2>4, <2>6, <2>7, <2>8, <2>9 DEF Ordering
    <2> QED BY <2>10
<1> QED BY <1>2, <1>3

AllVisited(V, u) == [x \in V |-> Visited(x, u)]

LEMMA VisitExists ==
  ASSUME NEW n
  PROVE  \E f : /\ f[MaxLen] = AllVisited(Levels(n)[MaxLen], <<>>) /\ Visit(n) = f[0][n]
                /\ \A h \in 0 .. MaxLen : h < MaxLen => f[h] = AllVisited(Levels(n)[h], f[h + 1])
<1> DEFINE Is(f, m) == f = [h \in MaxLen - m .. MaxLen |-> IF h = MaxLen THEN AllVisited(Levels(n)[h], <<>>) ELSE AllVisited(Levels(n)[h], f[h + 1])]
           S == {m \in 0 .. MaxLen : \E f : Is(f, m)}
<1>0. MaxLen \in Nat
    BY Lengths
<1>1. 0 \in S
    <2>1. Is([h \in MaxLen - 0 .. MaxLen |-> AllVisited(Levels(n)[h], <<>>)], 0)
        BY <1>0
    <2> HIDE DEF Is
    <2> QED BY <1>0, <2>1
<1>2. ASSUME NEW m \in 0 .. MaxLen, m \in S /\ m < MaxLen PROVE m + 1 \in S
    <2>1. PICK f : Is(f, m)
        <3> HIDE DEF Is
        <3> QED BY <1>2
    <2>2. PICK e : e = MaxLen - (m + 1) /\ e \in 0 .. MaxLen /\ e < MaxLen /\ e + 1 = MaxLen - m
        BY <1>0, <1>2
    <2> DEFINE g == [h \in e .. MaxLen |-> IF h = e THEN AllVisited(Levels(n)[h], f[h + 1]) ELSE f[h]]
    <2>3. ASSUME NEW h \in e .. MaxLen PROVE g[h] = IF h = MaxLen THEN AllVisited(Levels(n)[h], <<>>) ELSE AllVisited(Levels(n)[h], g[h + 1])
        <3>1. h # e => h \in MaxLen - m .. MaxLen /\ g[h] = f[h]
            BY <1>0, <2>2
        <3>2. h # MaxLen => h + 1 \in e .. MaxLen /\ h + 1 # e
            BY <1>0, <2>2
        <3>3. h # MaxLen => g[h + 1] = f[h + 1]
            BY <3>2
        <3>4. CASE h = e
            BY <2>2, <3>3, <3>4
        <3>5. CASE h # e
            <4>1. f[h] = IF h = MaxLen THEN AllVisited(Levels(n)[h], <<>>) ELSE AllVisited(Levels(n)[h], f[h + 1])
                BY <2>1, <3>1, <3>5
            <4> QED BY <3>1, <3>3, <3>5, <4>1
        <3> QED BY <3>4, <3>5
    <2>4. Is(g, m + 1)
        BY <2>2, <2>3
    <2> HIDE DEF Is, g
    <2> QED BY <1>0, <1>2, <2>4
<1>3. MaxLen \in S
    <2> HIDE DEF S
    <2> QED BY <1>0, <1>1, <1>2, Upward
<1> DEFINE f == CHOOSE f : f = [h \in 0 .. MaxLen |-> IF h = MaxLen THEN AllVisited(Levels(n)[h], <<>>) ELSE AllVisited(Levels(n)[h], f[h + 1])]
<1>4. Visit(n) = f[0][n]
    BY DEF Visit, AllVisited
<1>5. f = [h \in 0 .. MaxLen |-> IF h = MaxLen THEN AllVisited(Levels(n)[h], <<>>) ELSE AllVisited(Levels(n)[h], f[h + 1])]
    <2>1. PICK q : Is(q, MaxLen)
        <3> HIDE DEF Is
        <3> QED BY <1>3
    <2>2. MaxLen - MaxLen = 0
        BY <1>0
    <2>3. \E r : r = [h \in 0 .. MaxLen |-> IF h = MaxLen THEN AllVisited(Levels(n)[h], <<>>) ELSE AllVisited(Levels(n)[h], r[h + 1])]
        BY <2>1, <2>2
    <2> QED BY <2>3
<1> HIDE DEF f
<1>6. f[MaxLen] = AllVisited(Levels(n)[MaxLen], <<>>)
    BY <1>0, <1>5
<1>7. ASSUME NEW h \in 0 .. MaxLen, h < MaxLen PROVE f[h] = AllVisited(Levels(n)[h], f[h + 1])
    BY <1>0, <1>5, <1>7
<1> QED BY <1>4, <1>6, <1>7

(* The keys below a node agree on the bytes that lead to it.               *)
Agree(L, d) == \A l, m \in L : \A i \in 1 .. d : l.key[i] = m.key[i]
KeysIn(L) == {l.key : l \in L}

LEMMA VisitOne ==
  ASSUME NEW x, NEW d, NEW L, Rep(x, d, L), Agree(L, d), NEW u,
         IsInner(x) => \A y \in Range(x.node.kids) : \A e, M :
                         Rep(y, e, M) /\ Agree(M, e) => Lists(u[y], KeysIn(M))
  PROVE  Lists(Visited(x, u), KeysIn(L))
<1>1. CASE IsLeaf(x)
    <2>1. L = {x} /\ LeafOK(x) /\ x.key \in Keys
        BY <1>1, Kinds DEF Holding, LeafOK
    <2>2. Visited(x, u) = <<x.key>>
        BY <1>1 DEF Visited, IsInner, IsLeaf
    <2>3. KeysIn(L) = {x.key}
        BY <2>1 DEF KeysIn
    <2> QED BY <2>1, <2>2, <2>3, ListOfOne
<1>2. CASE ~IsLeaf(x)
    <2>1. IsInner(x) /\ Heading(x, d, L) /\ Spread(x, d, L) /\ d \in Nat
        BY <1>2, Kinds, Unfold
    <2>2. x.plen \in Nat /\ Sound(x.node) /\ (LowBytes => Neat(x.node))
        BY <2>1 DEF Heading
    <2>3. PICK e \in Nat : e = d + x.plen + 1
        BY <2>1, <2>2
    <2>4. PICK k \in Nat : \E bytes : Ordering(x.node, k, bytes)
        BY <2>2, InOrderIs
    <2>5. PICK bytes :
          /\ k # 0 /\ Len(InOrder(x.node)) = k /\ DOMAIN InOrder(x.node) = 1 .. k
          /\ \A i \in 1 .. k : bytes[i] \in Used(x.node) /\ InOrder(x.node)[i] = FindChild(x.node, bytes[i])
          /\ \A c \in Used(x.node) : \E i \in 1 .. k : bytes[i] = c
          /\ \A i, j \in 1 .. k : i < j => bytes[i] # bytes[j] /\ (Neat(x.node) => bytes[i] < bytes[j])
        BY <2>4 DEF Ordering
    <2>6. PICK s : s = [i \in 1 .. k |-> u[FindChild(x.node, bytes[i])]]
        OBVIOUS
    <2>7. Visited(x, u) = FlattenSeq(s)
        <3>1. PICK kids : kids = InOrder(x.node)
            OBVIOUS
        <3>2. [i \in DOMAIN kids |-> u[kids[i]]] = s
            BY <2>5, <2>6, <3>1
        <3> QED BY <1>2, <2>1, <3>1, <3>2 DEF Visited
    <2>8. Len(s) = k /\ \A i \in 1 .. k : s[i] = u[FindChild(x.node, bytes[i])]
        BY <2>6
    <2>9. PICK K : K = [i \in 1 .. k |-> KeysIn(Branch(L, e, bytes[i]))]
        OBVIOUS
    <2>10. ASSUME NEW l \in L
           PROVE  /\ l.key \in Keys /\ Len(l.key) \in Nat /\ e \in 1 .. Len(l.key) /\ l.key[e] \in Used(x.node)
                  /\ l.key[e] \in Byte
        <3>1. LeafOK(l) /\ FindChild(x.node, l.key[e]) # Null /\ Len(l.key) > d + x.plen
            BY <2>1, <2>3 DEF Heading
        <3>2. l.key \in Keys /\ Len(l.key) \in Nat
            BY <3>1, Lengths DEF LeafOK
        <3>3. e \in 1 .. Len(l.key)
            BY <2>1, <2>2, <2>3, <3>1, <3>2
        <3>4. l.key[e] \in Byte
            BY <3>2, <3>3, Lengths
        <3> QED BY <2>2, <3>1, <3>2, <3>3, <3>4, UsedAreFound
    <2>11. ASSUME NEW l \in L, NEW m \in L, NEW i \in 1 .. e - 1 PROVE l.key[i] = m.key[i]
        <3>1. CASE i <= d
            <4>1. i \in 1 .. d
                BY <2>1, <3>1
            <4> QED BY <4>1 DEF Agree
        <3>2. CASE i > d
            <4>1. i \in d + 1 .. d + x.plen
                BY <2>1, <2>2, <2>3, <3>2
            <4> QED BY <2>1, <4>1 DEF Heading
        <3> QED BY <2>1, <3>1, <3>2
    <2>12. ASSUME NEW i \in 1 .. k PROVE Lists(s[i], K[i])
        <3>1. PICK c \in Byte : c = bytes[i] /\ FindChild(x.node, c) # Null
            BY <2>2, <2>5, UsedAreFound
        <3>2. PICK y : y = FindChild(x.node, c)
            OBVIOUS
        <3>3. PICK M : M = Branch(L, e, c)
            OBVIOUS
        <3>4. Rep(y, e, M)
            BY <2>1, <2>3, <3>1, <3>2, <3>3 DEF Spread
        <3>5. ASSUME NEW l \in M, NEW m \in M, NEW j \in 1 .. e PROVE l.key[j] = m.key[j]
            <4>1. l \in L /\ m \in L /\ l.key[e] = c /\ m.key[e] = c
                BY <3>3 DEF Branch
            <4>2. j = e \/ j \in 1 .. e - 1
                BY <2>3
            <4> QED BY <2>11, <4>1, <4>2
        <3>6. Agree(M, e)
            BY <3>5 DEF Agree
        <3>7. y \in Range(x.node.kids)
            BY <2>2, <3>1, <3>2, KidsOfInner
        <3>8. Lists(u[y], KeysIn(M))
            BY <2>1, <3>4, <3>6, <3>7
        <3> QED BY <2>8, <2>9, <3>1, <3>2, <3>3, <3>8
    <2>13. ASSUME NEW i \in 1 .. k, NEW j \in 1 .. k, i < j PROVE Apart(K[i], K[j])
        <3>1. ASSUME NEW a \in K[i], NEW b \in K[j] PROVE InOrderIf(a, b)
            <4>1. PICK l \in L : l.key = a /\ l.key[e] = bytes[i]
                BY <2>9 DEF KeysIn, Branch
            <4>2. PICK m \in L : m.key = b /\ m.key[e] = bytes[j]
                BY <2>9 DEF KeysIn, Branch
            <4>3. bytes[i] # bytes[j] /\ (LowBytes => bytes[i] < bytes[j])
                BY <2>2, <2>5, <2>13
            <4>4. a # b
                BY <4>1, <4>2, <4>3
            <4>5. e \in 1 .. Lesser(Len(a), Len(b))
                BY <2>10, <4>1, <4>2 DEF Lesser
            <4>6. \A h \in 1 .. e - 1 : a[h] = b[h]
                BY <2>11, <4>1, <4>2
            <4>7. LowBytes => Before(a, b)
                BY <4>1, <4>2, <4>3, <4>5, <4>6 DEF Before
            <4> QED BY <4>4, <4>7 DEF InOrderIf
        <3> QED BY <3>1 DEF Apart
    <2>14. UNION {K[i] : i \in 1 .. k} = KeysIn(L)
        <3>1. \A i \in 1 .. k : K[i] \subseteq KeysIn(L)
            BY <2>9 DEF KeysIn, Branch
        <3>2. ASSUME NEW l \in L PROVE \E i \in 1 .. k : l.key \in K[i]
            <4>1. PICK i \in 1 .. k : bytes[i] = l.key[e]
                BY <2>5, <2>10
            <4>2. l \in Branch(L, e, bytes[i])
                BY <4>1 DEF Branch
            <4> QED BY <2>9, <4>2 DEF KeysIn
        <3> QED BY <3>1, <3>2 DEF KeysIn
    <2>15. Lists(FlattenSeq(s), UNION {K[i] : i \in 1 .. k})
        BY <2>5, <2>8, <2>12, <2>13, Flattened
    <2> QED BY <2>7, <2>14, <2>15
<1> QED BY <1>1, <1>2

LEMMA VisitHolds ==
  ASSUME NEW n, NEW d, NEW L, Rep(n, d, L), Agree(L, d)
  PROVE  Lists(Visit(n), KeysIn(L))
<1>0. MaxLen \in Nat
    BY Lengths
<1>1. PICK V : /\ V[0] = {n} /\ Levels(n) = V
               /\ \A h \in 0 .. MaxLen : h < MaxLen => V[h + 1] = AllOpened(V[h])
    BY LevelsExist
<1>2. PICK f : /\ f[MaxLen] = AllVisited(V[MaxLen], <<>>) /\ Visit(n) = f[0][n]
               /\ \A h \in 0 .. MaxLen : h < MaxLen => f[h] = AllVisited(V[h], f[h + 1])
    BY <1>1, VisitExists
<1> DEFINE Good(y, z) == \A e, M : Rep(y, e, M) /\ Agree(M, e) => Lists(z, KeysIn(M))
           S == {h \in 0 .. MaxLen : \A y \in V[h] : Good(y, f[h][y])}
<1>3. MaxLen \in S
    <2>1. ASSUME NEW y \in V[MaxLen] PROVE Good(y, f[MaxLen][y])
        <3>1. f[MaxLen][y] = Visited(y, <<>>)
            BY <1>2 DEF AllVisited
        <3>2. CASE y = Null
            BY <3>2, Kinds
        <3>3. CASE y # Null
            <4>1. MaxLen \in 0 .. MaxLen
                BY <1>0
            <4>2. PICK e, M : Rep(y, e, M) /\ (IsInner(y) => e >= MaxLen)
                BY <1>1, <3>3, <4>1, LevelsHold
            <4>3. ~IsInner(y)
                BY <1>0, <4>2, InnerIsHigh
            <4> QED BY <3>1, <4>3, VisitOne
        <3> QED BY <3>2, <3>3
    <2> QED BY <1>0, <2>1
<1>4. ASSUME NEW h \in 0 .. MaxLen, h + 1 \in S /\ h < MaxLen PROVE h \in S
    <2>1. ASSUME NEW y \in V[h], NEW e, NEW M, Rep(y, e, M), Agree(M, e) PROVE Lists(f[h][y], KeysIn(M))
        <3>1. f[h][y] = Visited(y, f[h + 1])
            BY <1>2, <1>4 DEF AllVisited
        <3>2. ASSUME IsInner(y), NEW z \in Range(y.node.kids) PROVE Good(z, f[h + 1][z])
            <4>1. z \in V[h + 1]
                BY <1>1, <1>4, <3>2 DEF AllOpened, Opened
            <4> QED BY <1>4, <4>1
        <3>3. IsInner(y) => \A z \in Range(y.node.kids) : \A e2, M2 :
                              Rep(z, e2, M2) /\ Agree(M2, e2) => Lists(f[h + 1][z], KeysIn(M2))
            BY <3>2
        <3> HIDE DEF Good, S
        <3> QED BY <2>1, <3>1, <3>3, VisitOne
    <2> QED BY <2>1
<1>5. 0 \in S
    <2> HIDE DEF S, Good
    <2> QED BY <1>0, <1>3, <1>4, Downward
<1>6. Good(n, f[0][n])
    <2>1. n \in V[0]
        BY <1>1
    <2> QED BY <1>5, <2>1
<1> QED BY <1>2, <1>6

LEMMA VisitNull == Visit(Null) = <<>>
<1>0. MaxLen \in Nat
    BY Lengths
<1>1. PICK V : V[0] = {Null} /\ Levels(Null) = V
    BY LevelsExist
<1>2. PICK f : /\ f[MaxLen] = AllVisited(V[MaxLen], <<>>) /\ Visit(Null) = f[0][Null]
               /\ \A h \in 0 .. MaxLen : h < MaxLen => f[h] = AllVisited(V[h], f[h + 1])
    BY <1>1, VisitExists
<1>3. \A u : Visited(Null, u) = <<>>
    BY NullIsNeither DEF Visited
<1>4. CASE MaxLen = 0
    BY <1>1, <1>2, <1>3, <1>4 DEF AllVisited
<1>5. CASE MaxLen # 0
    <2>1. f[0] = AllVisited(V[0], f[0 + 1])
        BY <1>0, <1>2, <1>5
    <2>2. f[0][Null] = Visited(Null, f[0 + 1])
        BY <1>1, <2>1 DEF AllVisited
    <2> QED BY <1>2, <1>3, <2>2
<1> QED BY <1>4, <1>5

LEMMA TreeIsListed ==
  ASSUME NEW n, IsTree(n)
  PROVE  Lists(Visit(n), StoredIn(n))
<1>1. PICK L : L = Leaves(n) /\ Tree(n, L)
    BY DEF IsTree
<1>2. StoredIn(n) = KeysIn(L)
    BY <1>1 DEF StoredIn, KeysIn
<1>3. CASE n = Null /\ L = {}
    <2>1. Visit(n) \in Seq(Keys) /\ Len(Visit(n)) = 0 /\ DOMAIN Visit(n) = {}
        BY <1>3, VisitNull
    <2>2. Range(Visit(n)) = {} /\ KeysIn(L) = {}
        BY <1>3, <2>1 DEF Range, KeysIn
    <2> QED BY <1>2, <2>1, <2>2 DEF Lists
<1>4. CASE Rep(n, 0, L)
    <2>1. Agree(L, 0)
        BY DEF Agree
    <2> QED BY <1>2, <1>4, <2>1, VisitHolds
<1> QED BY <1>1, <1>3, <1>4 DEF Tree

(* iterate() calls back with every key of the tree, and with each once,    *)
(* whatever its bytes are (ArtCPP.hpp:1794).                               *)
THEOREM KeysStayListed ==
  ASSUME ShortKeys
  PROVE  Spec => []Lists(Visit(root), Stored)
<1>1. IInv => Lists(Visit(root), Stored)
    BY InThisTree, TreeIsListed DEF IInv
<1> QED BY <1>1, TreeStaysInvariant, PTL

(* And in their order, if their bytes are below 128.                       *)
THEOREM KeysStayInOrder ==
  ASSUME ShortKeys, LowBytes
  PROVE  Spec => []IterationInOrder
<1>1. ASSUME Lists(Visit(root), Stored) PROVE IterationInOrder
    <2>1. \A i, j \in 1 .. Len(Visit(root)) : i < j => Before(Visit(root)[i], Visit(root)[j])
        BY <1>1 DEF Lists, InOrderIf
    <2> QED BY <1>1, <2>1 DEF IterationInOrder, Lists
<1> QED BY <1>1, KeysStayListed, PTL

-------------------------------------------------------------------------------
(* Scans for a prefix.                                                     *)
LEMMA BeginsIs ==
  ASSUME NEW p \in Seq(Byte), NEW k \in Seq(Byte)
  PROVE  IsPrefix(p, k) <=> Len(p) <= Len(k) /\ \A i \in 1 .. Len(p) : p[i] = k[i]
<1>1. PICK n \in Nat : n = Len(p)
    BY LenProperties
<1> SUFFICES ASSUME n <= Len(k)
             PROVE  SubSeq(p, 1, n) = SubSeq(k, 1, n) <=> \A i \in 1 .. n : p[i] = k[i]
    BY <1>1 DEF IsPrefix
<1>2. PICK s : s = SubSeq(p, 0 + 1, n)
    OBVIOUS
<1>3. PICK t : t = SubSeq(k, 0 + 1, n)
    OBVIOUS
<1>4. s \in Seq(Byte) /\ Len(s) = n /\ \A i \in 1 .. n : s[i] = p[i]
    <2>1. s \in Seq(Byte) /\ Len(s) = n - 0 /\ \A i \in 1 .. n - 0 : s[i] = p[0 + i]
        BY <1>1, <1>2, Piece
    <2> QED BY <2>1
<1>5. t \in Seq(Byte) /\ Len(t) = n /\ \A i \in 1 .. n : t[i] = k[i]
    <2>1. t \in Seq(Byte) /\ Len(t) = n - 0 /\ \A i \in 1 .. n - 0 : t[i] = k[0 + i]
        BY <1>1, <1>3, Piece
    <2> QED BY <2>1
<1>6. ASSUME \A i \in 1 .. n : s[i] = t[i] PROVE s = t
    <2>1. Len(s) = Len(t) /\ \A i \in 1 .. Len(s) : s[i] = t[i]
        BY <1>4, <1>5, <1>6
    <2> QED BY <1>4, <1>5, <2>1, SeqEqual
<1>7. s = t => \A i \in 1 .. n : p[i] = k[i]
    BY <1>4, <1>5
<1>8. (\A i \in 1 .. n : p[i] = k[i]) => s = t
    BY <1>4, <1>5, <1>6
<1> QED BY <1>2, <1>3, <1>7, <1>8

(* No bytes are compared once the prefix has come to its end.              *)
LEMMA NothingAgrees ==
  ASSUME NEW p, NEW k, NEW d, NEW m \in Int, m < 0
  PROVE  Agreeing(p, k, d, m) = 0
<1>1. {i \in 0 .. m : \A j \in 1 .. i : p[j] = k[d + j]} \cup {0} = {0}
    OBVIOUS
<1>2. {0} \in SUBSET (0 .. 0) /\ {0} # {}
    OBVIOUS
<1>3. Max({0}) \in {0}
    BY <1>2, MaxInSet
<1> QED BY <1>1, <1>3 DEF Agreeing

LEMMA MatchedIs ==
  ASSUME NEW x, NEW d, NEW L, Rep(x, d, L), IsInner(x), NEW p \in Seq(Byte)
  PROVE  /\ Matched(<<x, d>>, p) \in 0 .. x.plen
         /\ d <= Len(p) => /\ d + Matched(<<x, d>>, p) <= Len(p)
                           /\ \A l \in L : \A j \in 1 .. Matched(<<x, d>>, p) : l.key[d + j] = p[d + j]
                           /\ Matched(<<x, d>>, p) < x.plen =>
                                \/ d + Matched(<<x, d>>, p) = Len(p)
                                \/ \A l \in L : l.key[d + (Matched(<<x, d>>, p) + 1)]
                                                # p[d + (Matched(<<x, d>>, p) + 1)]
<1>1. PICK a : a = PrefixMismatch(x, p, d)
    OBVIOUS
<1>2. PICK m : m = Matched(<<x, d>>, p) /\ m = Lesser(a, x.plen)
    BY <1>1 DEF Matched
<1>3. d \in Nat /\ x.plen \in Nat /\ Len(p) \in Nat /\ MaxPrefix \in Nat
    BY InnerIsHigh, LenProperties, Lengths
<1>4. CASE d <= Len(p)
    <2>1. /\ a \in 0 .. Len(p) - d
          /\ \A l \in L : \A j \in 1 .. a : j <= x.plen => l.key[d + j] = p[d + j]
          /\ a < x.plen => a = Len(p) - d \/ \A l \in L : l.key[d + (a + 1)] # p[d + (a + 1)]
        BY <1>1, <1>4, MismatchOfAny
    <2>2. m \in 0 .. x.plen /\ m <= a /\ (m < x.plen => m = a)
        BY <1>2, <1>3, <2>1 DEF Lesser
    <2>3. d + m <= Len(p) /\ (a = Len(p) - d => d + a = Len(p))
        BY <1>3, <2>1, <2>2
    <2>4. \A j \in 1 .. m : j \in 1 .. a /\ j <= x.plen
        BY <1>3, <2>1, <2>2
    <2>5. \A l \in L : \A j \in 1 .. m : l.key[d + j] = p[d + j]
        BY <2>1, <2>4
    <2>6. ASSUME m < x.plen, d + m # Len(p), NEW l \in L PROVE l.key[d + (m + 1)] # p[d + (m + 1)]
        <3>1. m = a /\ a < x.plen /\ a # Len(p) - d
            BY <2>2, <2>3, <2>6
        <3> QED BY <2>1, <3>1
    <2> QED BY <1>2, <2>2, <2>3, <2>5, <2>6
<1>5. CASE d > Len(p)
    <2>1. PICK c \in Int : c = Lesser(Lesser(x.plen, MaxPrefix), Len(p) - d) /\ c < 0
        BY <1>3, <1>5 DEF Lesser
    <2>2. CheckPrefix(x, p, d) = 0
        BY <2>1, NothingAgrees DEF CheckPrefix
    <2>3. Lesser(MaxPrefix, Len(p) - d) # 0
        BY <1>3, <1>5 DEF Lesser
    <2>4. a = 0
        BY <1>1, <2>2, <2>3 DEF PrefixMismatch
    <2>5. m = 0
        BY <1>2, <1>3, <2>4 DEF Lesser
    <2> QED BY <1>2, <1>3, <1>5, <2>5
<1>6. d <= Len(p) \/ d > Len(p)
    BY <1>3
<1> QED BY <1>4, <1>5, <1>6

LEMMA ScanHops ==
  ASSUME NEW n, NEW p
  PROVE  \E f : /\ f[0] = <<n, 0>> /\ ScanWay(n, p) = f
                /\ \A h \in 0 .. MaxLen : h < MaxLen => f[h + 1] = ScanHop(f[h], p)
<1> DEFINE Is(f, m) == f = [h \in 0 .. m |-> IF h = 0 THEN <<n, 0>> ELSE ScanHop(f[h - 1], p)]
           S == {m \in 0 .. MaxLen : \E f : Is(f, m)}
<1>0. MaxLen \in Nat
    BY Lengths
<1>1. 0 \in S
    <2>1. Is([h \in 0 .. 0 |-> <<n, 0>>], 0)
        OBVIOUS
    <2> HIDE DEF Is
    <2> QED BY <1>0, <2>1
<1>2. ASSUME NEW m \in 0 .. MaxLen, m \in S /\ m < MaxLen PROVE m + 1 \in S
    <2>1. PICK f : Is(f, m)
        <3> HIDE DEF Is
        <3> QED BY <1>2
    <2> DEFINE g == [h \in 0 .. m + 1 |-> IF h = m + 1 THEN ScanHop(f[m], p) ELSE f[h]]
    <2>2. ASSUME NEW h \in 0 .. m + 1 PROVE g[h] = IF h = 0 THEN <<n, 0>> ELSE ScanHop(g[h - 1], p)
        <3>1. CASE h = m + 1
            <4>1. h # 0 /\ h - 1 = m /\ m \in 0 .. m + 1 /\ m # m + 1
                BY <1>0, <3>1
            <4>2. g[m] = f[m] /\ g[h] = ScanHop(f[m], p)
                BY <3>1, <4>1
            <4> QED BY <4>1, <4>2
        <3>2. CASE h # m + 1
            <4>1. h \in 0 .. m /\ g[h] = f[h]
                BY <1>0, <3>2
            <4>2. f[h] = IF h = 0 THEN <<n, 0>> ELSE ScanHop(f[h - 1], p)
                BY <2>1, <4>1
            <4>3. h # 0 => h - 1 \in 0 .. m + 1 /\ h - 1 # m + 1
                BY <1>0, <4>1
            <4>4. h # 0 => g[h - 1] = f[h - 1]
                BY <4>3
            <4> QED BY <4>1, <4>2, <4>4
        <3> QED BY <3>1, <3>2
    <2>3. Is(g, m + 1)
        BY <2>2
    <2> HIDE DEF Is, g
    <2> QED BY <1>0, <1>2, <2>3
<1>3. MaxLen \in S
    <2> HIDE DEF S
    <2> QED BY <1>0, <1>1, <1>2, Upward
<1> DEFINE f == CHOOSE f : Is(f, MaxLen)
<1>4. ScanWay(n, p) = f
    BY DEF ScanWay
<1>5. Is(f, MaxLen)
    <2> HIDE DEF Is
    <2> QED BY <1>3
<1> HIDE DEF f
<1>6. f[0] = <<n, 0>>
    BY <1>0, <1>5
<1>7. ASSUME NEW h \in 0 .. MaxLen, h < MaxLen PROVE f[h + 1] = ScanHop(f[h], p)
    <2>1. h + 1 \in 0 .. MaxLen /\ h + 1 # 0 /\ (h + 1) - 1 = h
        BY <1>0, <1>7
    <2> QED BY <1>5, <2>1
<1> QED BY <1>4, <1>6, <1>7

(* A scan for p that did not look at the whole prefix of a node above leaf *)
(* l has gone on with bytes that p does not have.                          *)
Misled(q, l, p) ==
  /\ \E N : Rep(q[1], q[2], N) /\ l \in N
  /\ IsInner(q[1]) /\ q[2] + q[1].plen < Len(p) /\ l.key[q[2] + 1] = p[q[2] + 1]
  /\ \E j \in q[2] + 2 .. q[2] + q[1].plen : p[j] # l.key[j]

Strayed(V, l, p) == \E q \in V : Misled(q, l, p)

Begins(l, p) == Len(p) <= Len(l.key) /\ Shares(l, p, Len(p))

(* At w, after h hops, a scan for p has all that it looks for below it.    *)
Ahead(w, h, A, V, p) ==
  /\ w = <<w[1], w[2]>> /\ w[2] \in Nat
  /\ Deeper(w, p) => w[2] >= h
  /\ \A l \in A : Begins(l, p) => w[1] # Null /\ w[2] <= Len(p)
  /\ w[1] # Null => /\ w \in V
                    /\ \E L : /\ Rep(w[1], w[2], L) /\ L \subseteq A /\ Agree(L, w[2])
                              /\ \A l \in A : Begins(l, p) => l \in L
                              /\ w[2] <= Len(p) => \A l \in L : Shares(l, p, w[2]) \/ Strayed(V, l, p)

LEMMA BeginsLikeKey ==
  ASSUME NEW l, LeafOK(l), NEW p \in Seq(Byte)
  PROVE  Begins(l, p) <=> IsPrefix(p, l.key)
<1>1. l.key \in Seq(Byte)
    BY Lengths DEF LeafOK
<1> QED BY <1>1, BeginsIs DEF Begins, Shares

(* The keys that begin with p are below the child that the scan turns to.  *)
LEMMA TurnsRight ==
  ASSUME NEW x, NEW d, NEW L, Rep(x, d, L), IsInner(x), NEW p \in Seq(Byte), d <= Len(p),
         Deeper(<<x, d>>, p), NEW l \in L, Begins(l, p)
  PROVE  /\ d + x.plen < Len(p) /\ Turn(<<x, d>>, p) = l.key[d + x.plen + 1]
         /\ FindChild(x.node, l.key[d + x.plen + 1]) # Null
<1>1. d \in Nat /\ x.plen \in Nat /\ Len(p) \in Nat
    BY InnerIsHigh, LenProperties
<1>2. PICK m : m = Matched(<<x, d>>, p)
    OBVIOUS
<1>3. /\ m \in 0 .. x.plen /\ d + m <= Len(p)
      /\ m < x.plen => d + m = Len(p) \/ l.key[d + (m + 1)] # p[d + (m + 1)]
    BY <1>2, MatchedIs
<1>4. d # Len(p) /\ (x.plen = 0 \/ (m # 0 /\ d + m # Len(p)))
    BY <1>2 DEF Deeper
<1>5. \A i \in 1 .. Len(p) : l.key[i] = p[i]
    BY DEF Begins, Shares
<1>6. m = x.plen
    <2> SUFFICES ASSUME m < x.plen PROVE FALSE
        BY <1>1, <1>3
    <2>1. d + m < Len(p)
        BY <1>1, <1>3, <1>4
    <2>2. d + (m + 1) \in 1 .. Len(p)
        BY <1>1, <1>3, <2>1
    <2> QED BY <1>3, <1>5, <2>1, <2>2
<1>7. d + x.plen < Len(p)
    BY <1>1, <1>3, <1>4, <1>6
<1>8. Turn(<<x, d>>, p) = p[d + x.plen + 1]
    BY <1>7 DEF Turn, ByteAt
<1>9. d + x.plen + 1 \in 1 .. Len(p)
    BY <1>1, <1>7
<1>10. Heading(x, d, L)
    BY Kinds
<1> QED BY <1>5, <1>7, <1>8, <1>9, <1>10 DEF Heading

(* A key below that child has the bytes of p, or the scan is misled.       *)
LEMMA SharesOrStrays ==
  ASSUME NEW x, NEW d, NEW L, Rep(x, d, L), IsInner(x), NEW p \in Seq(Byte),
         Deeper(<<x, d>>, p), d + x.plen < Len(p),
         NEW l \in L, Shares(l, p, d), l.key[d + x.plen + 1] = Turn(<<x, d>>, p)
  PROVE  Shares(l, p, d + x.plen + 1) \/ Misled(<<x, d>>, l, p)
<1>1. d \in Nat /\ x.plen \in Nat /\ Len(p) \in Nat /\ d <= Len(p)
    BY InnerIsHigh, LenProperties
<1>2. PICK m : m = Matched(<<x, d>>, p)
    OBVIOUS
<1>3. /\ m \in 0 .. x.plen /\ d + m <= Len(p)
      /\ \A j \in 1 .. m : l.key[d + j] = p[d + j]
      /\ m < x.plen => d + m = Len(p) \/ l.key[d + (m + 1)] # p[d + (m + 1)]
    <2>1. /\ m \in 0 .. x.plen /\ d + m <= Len(p)
          /\ \A n \in L : \A j \in 1 .. m : n.key[d + j] = p[d + j]
        BY <1>1, <1>2, MatchedIs
    <2>2. m < x.plen => d + m = Len(p) \/ \A n \in L : n.key[d + (m + 1)] # p[d + (m + 1)]
        BY <1>1, <1>2, MatchedIs
    <2> QED BY <2>1, <2>2
<1>4. x.plen = 0 \/ m # 0
    BY <1>2 DEF Deeper
<1>5. CASE m = x.plen
    <2>1. l.key[d + x.plen + 1] = p[d + x.plen + 1]
        BY <1>1 DEF Turn, ByteAt
    <2>2. ASSUME NEW i \in 1 .. d + x.plen + 1 PROVE l.key[i] = p[i]
        <3>1. CASE i <= d
            <4>1. i \in 1 .. d
                BY <1>1, <3>1
            <4> QED BY <4>1 DEF Shares
        <3>2. CASE i > d /\ i <= d + x.plen
            <4>1. i - d \in 1 .. m /\ d + (i - d) = i
                BY <1>1, <1>5, <3>2
            <4> QED BY <1>3, <4>1
        <3>3. CASE i = d + x.plen + 1
            BY <2>1, <3>3
        <3> QED BY <1>1, <3>1, <3>2, <3>3
    <2> QED BY <2>2 DEF Shares
<1>6. CASE m # x.plen
    <2>1. m < x.plen /\ m # 0 /\ d + m # Len(p)
        BY <1>1, <1>3, <1>4, <1>6
    <2>2. l.key[d + (m + 1)] # p[d + (m + 1)]
        BY <1>3, <2>1
    <2>3. d + (m + 1) \in d + 2 .. d + x.plen
        BY <1>1, <1>3, <2>1
    <2>4. l.key[d + 1] = p[d + 1]
        <3>1. 1 \in 1 .. m
            BY <1>3, <2>1
        <3> QED BY <1>3, <3>1
    <2> QED BY <2>2, <2>3, <2>4 DEF Misled
<1> QED BY <1>5, <1>6

(* What a node agrees on does the child for its byte agree on, too.        *)
LEMMA BranchesAgree ==
  ASSUME NEW x, NEW d, NEW L, Rep(x, d, L), IsInner(x), Agree(L, d), NEW c, NEW e, e = d + x.plen + 1
  PROVE  Agree(Branch(L, e, c), e)
<1>1. d \in Nat /\ x.plen \in Nat
    BY InnerIsHigh
<1>2. Heading(x, d, L)
    BY Kinds
<1>3. ASSUME NEW l \in Branch(L, e, c), NEW m \in Branch(L, e, c), NEW i \in 1 .. e
      PROVE  l.key[i] = m.key[i]
    <2>1. l \in L /\ m \in L /\ l.key[e] = c /\ m.key[e] = c
        BY DEF Branch
    <2>2. CASE i \in 1 .. d
        BY <2>1, <2>2 DEF Agree
    <2>3. CASE i \in d + 1 .. d + x.plen
        BY <1>2, <2>1, <2>3 DEF Heading
    <2>4. i \in 1 .. d \/ i \in d + 1 .. d + x.plen \/ i = e
        BY <1>1
    <2> QED BY <2>1, <2>2, <2>3, <2>4
<1> QED BY <1>3 DEF Agree

LEMMA NearbyGrows ==
  ASSUME NEW V, NEW w \in V
  PROVE  /\ V \subseteq AllNearby(V)
         /\ IsInner(w[1]) => \A y \in Range(w[1].node.kids) : <<y, w[2] + w[1].plen + 1>> \in AllNearby(V)
BY DEF AllNearby, Nearby

LEMMA StaysAhead ==
  ASSUME NEW w, NEW h \in Nat, NEW A, NEW V, NEW p \in Seq(Byte), Ahead(w, h, A, V, p)
  PROVE  Ahead(ScanHop(w, p), h + 1, A, AllNearby(V), p)
<1>1. PICK W : W = AllNearby(V)
    OBVIOUS
<1>2. V \subseteq W
    BY <1>1 DEF AllNearby, Nearby
<1>3. \A l : Strayed(V, l, p) => Strayed(W, l, p)
    BY <1>2 DEF Strayed
<1>4. CASE ~Deeper(w, p)
    <2>1. ScanHop(w, p) = w
        BY <1>4 DEF ScanHop
    <2>2. Ahead(w, h + 1, A, W, p)
        BY <1>2, <1>3, <1>4 DEF Ahead
    <2> QED BY <1>1, <2>1, <2>2
<1>5. CASE Deeper(w, p)
    <2>1. PICK x, d : w = <<x, d>>
        BY DEF Ahead
    <2>2. d \in Nat /\ d >= h /\ IsInner(x) /\ x # Null /\ w \in V
          /\ \A l \in A : Begins(l, p) => d <= Len(p)
        BY <1>5, <2>1, NullIsNeither DEF Ahead, Deeper
    <2>3. PICK L : /\ Rep(x, d, L) /\ L \subseteq A /\ Agree(L, d)
                   /\ \A l \in A : Begins(l, p) => l \in L
                   /\ d <= Len(p) => \A l \in L : Shares(l, p, d) \/ Strayed(V, l, p)
        BY <2>1, <2>2 DEF Ahead
    <2>4. x.plen \in Nat /\ Len(p) \in Nat /\ Sound(x.node)
        BY <2>2, <2>3, InnerIsHigh, LenProperties
    <2>5. PICK e \in Nat : e = d + x.plen + 1 /\ e >= h + 1
        BY <2>2, <2>4
    <2>6. PICK c : c = Turn(w, p)
        OBVIOUS
    <2>7. c \in Byte
        <3>1. 0 \in Byte
            BY SizesAssumption DEF SizesAssumption, Byte
        <3>2. \A i \in 1 .. Len(p) : p[i] \in Byte
            BY ElementOfSeq
        <3>3. c = IF d + x.plen < Len(p) THEN p[d + x.plen + 1] ELSE 0
            BY <2>1, <2>6 DEF Turn, ByteAt
        <3> QED BY <2>2, <2>4, <3>1, <3>2, <3>3
    <2>8. PICK y : y = FindChild(x.node, c)
        OBVIOUS
    <2>9. ScanHop(w, p) = <<y, e>>
        BY <1>5, <2>1, <2>5, <2>6, <2>8 DEF ScanHop
    <2>10. ASSUME NEW l \in A, Begins(l, p)
           PROVE  y # Null /\ e <= Len(p) /\ l \in Branch(L, e, c)
        <3>1. l \in L /\ d <= Len(p)
            BY <2>2, <2>3, <2>10
        <3>2. /\ d + x.plen < Len(p) /\ Turn(<<x, d>>, p) = l.key[d + x.plen + 1]
              /\ FindChild(x.node, l.key[d + x.plen + 1]) # Null
            BY <1>5, <2>1, <2>2, <2>3, <2>10, <3>1, TurnsRight
        <3>3. e <= Len(p)
            BY <2>2, <2>4, <2>5, <3>2
        <3> QED BY <2>1, <2>5, <2>6, <2>8, <3>1, <3>2, <3>3 DEF Branch
    <2>11. ASSUME y # Null
           PROVE  /\ <<y, e>> \in W
                  /\ \E M : /\ Rep(y, e, M) /\ M \subseteq A /\ Agree(M, e)
                            /\ \A l \in A : Begins(l, p) => l \in M
                            /\ e <= Len(p) => \A l \in M : Shares(l, p, e) \/ Strayed(W, l, p)
        <3>1. PICK M : M = Branch(L, e, c)
            OBVIOUS
        <3>2. Rep(y, e, M)
            BY <2>2, <2>3, <2>5, <2>7, <2>8, <2>11, <3>1, Child
        <3>3. M \subseteq A /\ Agree(M, e)
            <4>1. Agree(Branch(L, e, c), e)
                BY <2>2, <2>3, <2>5, BranchesAgree
            <4>2. M \subseteq L
                BY <3>1 DEF Branch
            <4> QED BY <2>3, <3>1, <4>1, <4>2
        <3>4. <<y, e>> \in W
            <4>1. y \in Range(x.node.kids)
                BY <2>4, <2>7, <2>8, <2>11, KidsOfInner
            <4> QED BY <1>1, <2>1, <2>2, <2>5, <4>1, NearbyGrows
        <3>5. ASSUME e <= Len(p), NEW l \in M PROVE Shares(l, p, e) \/ Strayed(W, l, p)
            <4>1. l \in L /\ l.key[e] = c
                BY <3>1 DEF Branch
            <4>2. d + x.plen < Len(p) /\ d <= Len(p)
                BY <2>2, <2>4, <2>5, <3>5
            <4>3. CASE Strayed(V, l, p)
                BY <1>3, <4>3
            <4>4. CASE Shares(l, p, d)
                <5>1. Shares(l, p, d + x.plen + 1) \/ Misled(<<x, d>>, l, p)
                    BY <1>5, <2>1, <2>2, <2>3, <2>5, <2>6, <4>1, <4>2, <4>4, SharesOrStrays
                <5>2. <<x, d>> \in W
                    BY <1>2, <2>1, <2>2
                <5> QED BY <2>5, <5>1, <5>2 DEF Strayed
            <4> QED BY <2>3, <4>1, <4>2, <4>3, <4>4
        <3> QED BY <2>10, <3>1, <3>2, <3>3, <3>4, <3>5
    <2>12. Ahead(<<y, e>>, h + 1, A, W, p)
        BY <2>5, <2>10, <2>11 DEF Ahead
    <2> QED BY <1>1, <2>9, <2>12
<1> QED BY <1>4, <1>5

LEMMA ScanEnd ==
  ASSUME NEW n, IsTree(n), NEW p \in Seq(Byte), NEW w, w = ScanWay(n, p)[MaxLen]
  PROVE  Ahead(w, MaxLen, Leaves(n), Subtrees(n), p) /\ ~Deeper(w, p)
<1>0. MaxLen \in Nat
    BY Lengths
<1>1. PICK A : A = Leaves(n) /\ Tree(n, A)
    BY DEF IsTree
<1>2. PICK f : /\ f[0] = <<n, 0>> /\ ScanWay(n, p) = f
               /\ \A h \in 0 .. MaxLen : h < MaxLen => f[h + 1] = ScanHop(f[h], p)
    BY ScanHops
<1>3. PICK V : /\ V[0] = {<<n, 0>>} /\ Subtrees(n) = V[MaxLen]
               /\ \A h \in 0 .. MaxLen : h < MaxLen => V[h + 1] = AllNearby(V[h])
    BY SubtreesExist
<1> DEFINE S == {h \in 0 .. MaxLen : Ahead(f[h], h, A, V[h], p)}
<1>4. 0 \in S
    <2>1. n # Null => Rep(n, 0, A)
        BY <1>1 DEF Tree
    <2>2. n = Null => A = {}
        BY <1>1, Kinds DEF Tree
    <2>3. Agree(A, 0) /\ \A l \in A : Shares(l, p, 0)
        BY DEF Agree, Shares
    <2>4. Len(p) \in Nat
        BY LenProperties
    <2>5. Ahead(<<n, 0>>, 0, A, V[0], p)
        BY <1>3, <2>1, <2>2, <2>3, <2>4 DEF Ahead
    <2> QED BY <1>0, <1>2, <2>5
<1>5. ASSUME NEW h \in 0 .. MaxLen, h \in S /\ h < MaxLen PROVE h + 1 \in S
    <2>1. Ahead(f[h], h, A, V[h], p) /\ h \in Nat
        BY <1>5
    <2>2. Ahead(ScanHop(f[h], p), h + 1, A, AllNearby(V[h]), p)
        BY <2>1, StaysAhead
    <2>3. h + 1 \in 0 .. MaxLen
        BY <1>0, <1>5
    <2> QED BY <1>2, <1>3, <1>5, <2>2, <2>3
<1>6. MaxLen \in S
    <2> HIDE DEF S
    <2>1. \A h \in 0 .. MaxLen : h \in S
        BY <1>0, <1>4, <1>5, Upward
    <2> QED BY <1>0, <2>1
<1>7. Ahead(w, MaxLen, A, Subtrees(n), p)
    BY <1>2, <1>3, <1>6
<1>8. ASSUME Deeper(w, p) PROVE FALSE
    <2>1. IsInner(w[1]) /\ w[1] # Null
        BY <1>8, NullIsNeither DEF Deeper
    <2>2. w[2] >= MaxLen /\ \E L : Rep(w[1], w[2], L)
        BY <1>7, <1>8, <2>1 DEF Ahead
    <2>3. w[2] \in Nat /\ w[2] < MaxLen
        BY <2>1, <2>2, InnerIsHigh
    <2> QED BY <1>0, <2>2, <2>3
<1> QED BY <1>1, <1>7, <1>8

LEMMA ListOfNone == Lists(<<>>, {})
<1>1. <<>> \in Seq(Keys) /\ Len(<<>>) = 0 /\ DOMAIN <<>> = {}
    OBVIOUS
<1>2. Range(<<>>) = {}
    BY <1>1 DEF Range
<1> QED BY <1>1, <1>2 DEF Lists

(* What a scan for p calls back with: the keys of the leaves M.            *)
Finds(s, M, A, V, p) ==
  /\ M \subseteq A /\ Lists(s, KeysIn(M))
  /\ \A l \in A : Begins(l, p) => l \in M
  /\ \A l \in M : Begins(l, p) \/ Strayed(V, l, p)

LEMMA ScanFindsInner ==
  ASSUME NEW w, NEW h, NEW A, NEW V, NEW p \in Seq(Byte), Ahead(w, h, A, V, p), ~Deeper(w, p),
         IsInner(w[1])
  PROVE  \E M : Finds(IF TakesAll(w, p) THEN Visit(w[1]) ELSE <<>>, M, A, V, p)
<1>1. PICK x, d : w = <<x, d>>
    BY DEF Ahead
<1>2. IsInner(x) /\ x # Null
    BY <1>1, NullIsNeither
<1>3. PICK L : /\ Rep(x, d, L) /\ L \subseteq A /\ Agree(L, d)
               /\ \A l \in A : Begins(l, p) => l \in L
               /\ d <= Len(p) => \A l \in L : Shares(l, p, d) \/ Strayed(V, l, p)
    BY <1>1, <1>2 DEF Ahead
<1>4. \A l \in A : Begins(l, p) => d <= Len(p)
    BY <1>1 DEF Ahead
<1>5. d \in Nat /\ x.plen \in Nat /\ Len(p) \in Nat
    BY <1>2, <1>3, InnerIsHigh, LenProperties
<1>6. PICK m : m = Matched(w, p)
    OBVIOUS
<1>7. /\ m \in 0 .. x.plen
      /\ d <= Len(p) => \A l \in L : \A j \in 1 .. m : l.key[d + j] = p[d + j]
    BY <1>1, <1>2, <1>3, <1>6, MatchedIs
<1>8. d <= Len(p) => (m < x.plen => d + m = Len(p) \/ \A l \in L : l.key[d + (m + 1)] # p[d + (m + 1)])
    BY <1>1, <1>2, <1>3, <1>6, MatchedIs
<1>9. ASSUME NEW l \in L PROVE LeafOK(l) /\ Len(l.key) \in Nat /\ Len(l.key) > d + x.plen
    BY <1>2, <1>3, Kinds, KeptBytes
<1>10. Lists(Visit(x), KeysIn(L))
    BY <1>3, VisitHolds
<1>11. CASE d = Len(p)
    <2>1. PICK l0 : l0 = Minimum(x) /\ l0 \in L
        BY <1>3, MinimumIsLeaf
    <2>2. \A l \in L : Begins(l, p) <=> Begins(l0, p)
        <3>1. ASSUME NEW l \in L PROVE Begins(l, p) <=> Begins(l0, p)
            <4>1. Len(p) <= Len(l.key) /\ Len(p) <= Len(l0.key)
                BY <1>5, <1>9, <1>11, <2>1
            <4>2. \A i \in 1 .. Len(p) : l.key[i] = l0.key[i]
                BY <1>3, <1>11, <2>1 DEF Agree
            <4> QED BY <4>1, <4>2 DEF Begins, Shares
        <3> QED BY <3>1
    <2>3. TakesAll(w, p) <=> Begins(l0, p)
        BY <1>1, <1>9, <1>11, <2>1, BeginsLikeKey DEF TakesAll
    <2>4. CASE TakesAll(w, p)
        <3>1. Finds(Visit(x), L, A, V, p)
            BY <1>3, <1>10, <2>2, <2>3, <2>4 DEF Finds
        <3> QED BY <1>1, <2>4, <3>1
    <2>5. CASE ~TakesAll(w, p)
        <3>1. \A l \in A : ~Begins(l, p)
            BY <1>3, <2>2, <2>3, <2>5
        <3>2. Finds(<<>>, {}, A, V, p)
            BY <3>1, ListOfNone DEF Finds, KeysIn
        <3> QED BY <2>5, <3>2
    <2> QED BY <2>4, <2>5
<1>12. CASE d # Len(p) /\ d + m = Len(p)
    <2>1. TakesAll(w, p)
        BY <1>1, <1>6, <1>12 DEF TakesAll
    <2>2. d <= Len(p)
        BY <1>5, <1>7, <1>12
    <2>3. ASSUME NEW l \in L, Shares(l, p, d) PROVE Begins(l, p)
        <3>1. ASSUME NEW i \in 1 .. Len(p) PROVE l.key[i] = p[i]
            <4>1. CASE i <= d
                <5>1. i \in 1 .. d
                    BY <1>5, <4>1
                <5> QED BY <2>3, <5>1 DEF Shares
            <4>2. CASE i > d
                <5>1. i - d \in 1 .. m /\ d + (i - d) = i
                    BY <1>5, <1>7, <1>12, <4>2
                <5> QED BY <1>7, <2>2, <5>1
            <4> QED BY <1>5, <4>1, <4>2
        <3>2. Len(p) <= Len(l.key)
            BY <1>5, <1>7, <1>9, <1>12
        <3> QED BY <3>1, <3>2 DEF Begins, Shares
    <2>4. Finds(Visit(x), L, A, V, p)
        BY <1>3, <1>10, <2>2, <2>3 DEF Finds
    <2> QED BY <1>1, <2>1, <2>4
<1>13. CASE d # Len(p) /\ d + m # Len(p)
    <2>1. ~TakesAll(w, p)
        BY <1>1, <1>6, <1>13 DEF TakesAll
    <2>2. x.plen # 0 /\ m = 0
        BY <1>1, <1>2, <1>6, <1>13 DEF Deeper
    <2>3. ASSUME NEW l \in A, Begins(l, p) PROVE FALSE
        <3>1. l \in L /\ d < Len(p)
            BY <1>3, <1>4, <1>5, <1>13, <2>3
        <3>2. d + 1 \in 1 .. Len(p)
            BY <1>5, <3>1
        <3>3. l.key[d + 1] = p[d + 1]
            BY <2>3, <3>2 DEF Begins, Shares
        <3>4. l.key[d + (0 + 1)] # p[d + (0 + 1)]
            BY <1>5, <1>8, <1>13, <2>2, <3>1
        <3> QED BY <1>5, <3>3, <3>4
    <2>4. Finds(<<>>, {}, A, V, p)
        BY <2>3, ListOfNone DEF Finds, KeysIn
    <2> QED BY <2>1, <2>4
<1> QED BY <1>11, <1>12, <1>13

(* art_iter_prefix() finds the keys with the prefix p, and no others but   *)
(* those it was misled to.                                                 *)
LEMMA ScanFinds ==
  ASSUME NEW n, IsTree(n), NEW p \in Seq(Byte)
  PROVE  \E M : Finds(PrefixScan(n, p), M, Leaves(n), Subtrees(n), p)
<1>1. PICK w, A, V : w = ScanWay(n, p)[MaxLen] /\ A = Leaves(n) /\ V = Subtrees(n)
    OBVIOUS
<1>2. Ahead(w, MaxLen, A, V, p) /\ ~Deeper(w, p)
    BY <1>1, ScanEnd
<1>3. CASE IsLeaf(w[1])
    <2>1. PICK l : l = w[1] /\ l # Null
        BY <1>3, NullIsNeither
    <2>2. PICK L : Rep(l, w[2], L) /\ L \subseteq A /\ \A k \in A : Begins(k, p) => k \in L
        BY <1>2, <2>1 DEF Ahead
    <2>3. L = {l} /\ LeafOK(l) /\ l.key \in Keys
        BY <1>3, <2>1, <2>2, Kinds DEF Holding, LeafOK
    <2>4. PrefixScan(n, p) = IF IsPrefix(p, l.key) THEN <<l.key>> ELSE <<>>
        BY <1>1, <1>3, <2>1 DEF PrefixScan, IsLeaf, IsInner
    <2>5. Begins(l, p) <=> IsPrefix(p, l.key)
        BY <2>3, BeginsLikeKey
    <2>6. CASE Begins(l, p)
        <3>1. Lists(<<l.key>>, KeysIn({l}))
            BY <2>3, ListOfOne DEF KeysIn
        <3>2. Finds(<<l.key>>, {l}, A, V, p)
            BY <2>2, <2>3, <2>6, <3>1 DEF Finds
        <3> QED BY <1>1, <2>4, <2>5, <2>6, <3>2
    <2>7. CASE ~Begins(l, p)
        <3>1. Finds(<<>>, {}, A, V, p)
            BY <2>2, <2>3, <2>7, ListOfNone DEF Finds, KeysIn
        <3> QED BY <1>1, <2>4, <2>5, <2>7, <3>1
    <2> QED BY <2>6, <2>7
<1>4. CASE IsInner(w[1])
    <2>1. PrefixScan(n, p) = IF TakesAll(w, p) THEN Visit(w[1]) ELSE <<>>
        BY <1>1, <1>4 DEF PrefixScan, IsLeaf, IsInner
    <2> QED BY <1>1, <1>2, <1>4, <2>1, ScanFindsInner
<1>5. CASE ~IsLeaf(w[1]) /\ ~IsInner(w[1])
    <2>1. PrefixScan(n, p) = <<>>
        BY <1>1, <1>5 DEF PrefixScan
    <2>2. w[1] = Null
        BY <1>2, <1>5, Kinds DEF Ahead
    <2>3. \A l \in A : ~Begins(l, p)
        BY <1>2, <2>2 DEF Ahead
    <2>4. Finds(<<>>, {}, A, V, p)
        BY <2>3, ListOfNone DEF Finds, KeysIn
    <2> QED BY <1>1, <2>1, <2>4
<1> QED BY <1>3, <1>4, <1>5

LEMMA ListedOnce ==
  ASSUME NEW s, NEW K, Lists(s, K)
  PROVE  Cardinality(Range(s)) = Len(s)
<1>1. PICK n \in Nat : n = Len(s) /\ s \in Seq(Keys) /\ DOMAIN s = 1 .. n
    BY LenProperties DEF Lists
<1>2. Range(s) = {s[i] : i \in 1 .. n}
    BY <1>1 DEF Range
<1> DEFINE g == [i \in 1 .. n |-> s[i]]
<1>3. ASSUME NEW i \in 1 .. n, NEW j \in 1 .. n, g[i] = g[j] PROVE i = j
    <2>1. i < j => s[i] # s[j]
        BY <1>1 DEF Lists, InOrderIf
    <2>2. j < i => s[j] # s[i]
        BY <1>1 DEF Lists, InOrderIf
    <2> QED BY <1>3, <2>1, <2>2
<1>4. g \in [1 .. n -> Range(s)] /\ \A y \in Range(s) : \E i \in 1 .. n : g[i] = y
    BY <1>2
<1>5. g \in Injection(1 .. n, Range(s))
    <2> HIDE DEF g
    <2> QED BY <1>3, <1>4 DEF Injection, IsInjective
<1>6. g \in Surjection(1 .. n, Range(s))
    <2> HIDE DEF g
    <2> QED BY <1>4 DEF Surjection
<1>7. ExistsBijection(1 .. n, Range(s))
    BY <1>5, <1>6 DEF ExistsBijection, Bijection
<1>8. Cardinality(Range(s)) = n
    BY <1>7, FS_CountingElements
<1> QED BY <1>1, <1>8

LEMMA AskedAreBytes == Asked \subseteq Seq(Byte)
<1>1. ASSUME NEW k \in Keys, NEW b \in Range(k) PROVE b \in Byte
    <2>1. k \in Seq(Byte) /\ DOMAIN k = 1 .. Len(k) /\ \A i \in 1 .. Len(k) : k[i] \in Byte
        BY Lengths, LenProperties
    <2> QED BY <2>1 DEF Range
<1>2. ASSUME NEW n \in 1 .. 4, NEW p \in [1 .. n -> UNION {Range(k) : k \in Keys}]
      PROVE  p \in Seq(Byte)
    <2>1. \A i \in 1 .. n : p[i] \in Byte
        BY <1>1
    <2>2. p \in [1 .. n -> Byte] /\ n \in Nat
        BY <2>1
    <2> QED BY <2>2, SeqDef
<1> QED BY <1>2 DEF Asked

(* Where a scan is misled its prefix has other bytes than the node.        *)
LEMMA MisledAt ==
  ASSUME NEW q, NEW l, NEW p \in Seq(Byte), Misled(q, l, p)
  PROVE  LET d == q[2]
         IN  /\ IsInner(q[1]) /\ l.key \in {m.key : m \in Leaves(q[1])}
             /\ d + q[1].plen < Len(p) /\ p[d + 1] = l.key[d + 1]
             /\ SubSeq(p, d + 2, d + q[1].plen) # SubSeq(l.key, d + 2, d + q[1].plen)
<1>1. PICK x, d : x = q[1] /\ d = q[2]
    OBVIOUS
<1>2. PICK N : Rep(x, d, N) /\ l \in N
    BY <1>1 DEF Misled
<1>3. IsInner(x) /\ d + x.plen < Len(p) /\ l.key[d + 1] = p[d + 1]
    BY <1>1 DEF Misled
<1>4. PICK j \in d + 2 .. d + x.plen : p[j] # l.key[j]
    BY <1>1 DEF Misled
<1>5. l \in Leaves(x)
    BY <1>2, LeavesAre
<1>6. d \in Nat /\ x.plen \in Nat /\ l.key \in Seq(Byte) /\ Len(l.key) \in Nat /\ Len(l.key) > d + x.plen
    BY <1>2, <1>3, KeptBytes
<1>7. Len(p) \in Nat
    BY LenProperties
<1>8. PICK e \in Nat : e = d + x.plen /\ d + 1 <= e /\ e <= Len(p) /\ e <= Len(l.key)
    <2>1. PICK e \in Nat : e = d + x.plen
        BY <1>6
    <2>2. d + 1 <= e
        BY <1>4, <1>6, <2>1
    <2>3. e <= Len(p)
        BY <1>3, <1>7, <2>1
    <2>4. e <= Len(l.key)
        BY <1>6, <2>1
    <2> QED BY <2>1, <2>2, <2>3, <2>4
<1>9. PICK f \in Nat : f = d + 1 /\ f + 1 = d + 2 /\ f <= e
    BY <1>6, <1>8
<1>10. PICK i : i = j - f /\ i \in 1 .. e - f /\ f + i = j
    <2>1. j \in f + 1 .. e
        BY <1>4, <1>8, <1>9
    <2> QED BY <2>1
<1>11. SubSeq(p, f + 1, e)[i] = p[j]
    <2>1. \A h \in 1 .. e - f : SubSeq(p, f + 1, e)[h] = p[f + h]
        BY <1>8, <1>9, Piece
    <2> QED BY <1>10, <2>1
<1>12. SubSeq(l.key, f + 1, e)[i] = l.key[j]
    <2>1. PICK k \in Seq(Byte) : k = l.key /\ e <= Len(k)
        BY <1>6, <1>8
    <2>2. \A h \in 1 .. e - f : SubSeq(k, f + 1, e)[h] = k[f + h]
        BY <1>9, <2>1, Piece
    <2> QED BY <1>10, <2>1, <2>2
<1>13. SubSeq(p, d + 2, e) # SubSeq(l.key, d + 2, e)
    BY <1>4, <1>9, <1>11, <1>12
<1> QED BY <1>1, <1>3, <1>5, <1>8, <1>13

(* A scan for a prefix calls back with every key that has it, once, and    *)
(* with another one only where it has gone on at a node of whose prefix no *)
(* more than the beginning agreed (ArtCPP.hpp:1648).                       *)
THEOREM PrefixesStayFound ==
  ASSUME ShortKeys
  PROVE  Spec => []PrefixScansFindAll
<1>1. ASSUME IInv, NEW p \in Asked
      PROVE  LET seen == PrefixScan(root, p)
                 astray == [q \in Nodes(root) |-> {l.key : l \in Leaves(q[1])}]
             IN  /\ {k \in Stored : IsPrefix(p, k)} \subseteq Range(seen)
                 /\ Cardinality(Range(seen)) = Len(seen)
                 /\ \A k \in Range(seen) :
                      IsPrefix(p, k) \/ \E q \in DOMAIN astray :
                                          LET d == q[2] IN
                                          /\ k \in astray[q]
                                          /\ d + q[1].plen < Len(p)
                                          /\ p[d + 1] = k[d + 1]
                                          /\ SubSeq(p, d + 2, d + q[1].plen) # SubSeq(k, d + 2, d + q[1].plen)
    <2>1. p \in Seq(Byte) /\ IsTree(root)
        BY <1>1, AskedAreBytes DEF IInv
    <2>2. PICK seen : seen = PrefixScan(root, p)
        OBVIOUS
    <2>3. PICK M : Finds(seen, M, Leaves(root), Subtrees(root), p)
        BY <2>1, <2>2, ScanFinds
    <2>4. /\ M \subseteq Leaves(root) /\ Range(seen) = KeysIn(M) /\ Lists(seen, KeysIn(M))
          /\ \A l \in Leaves(root) : Begins(l, p) => l \in M
          /\ \A l \in M : Begins(l, p) \/ Strayed(Subtrees(root), l, p)
        BY <2>3 DEF Finds, Lists
    <2>5. \A l \in Leaves(root) : Begins(l, p) <=> IsPrefix(p, l.key)
        BY <2>1, LeavesAreOK, BeginsLikeKey
    <2>6. {k \in Stored : IsPrefix(p, k)} \subseteq Range(seen)
        BY <2>4, <2>5 DEF Stored, KeysIn
    <2>7. Cardinality(Range(seen)) = Len(seen)
        BY <2>4, ListedOnce
    <2>8. ASSUME NEW k \in Range(seen), ~IsPrefix(p, k)
          PROVE  \E q \in Nodes(root) : LET d == q[2] IN
                   /\ k \in {l.key : l \in Leaves(q[1])}
                   /\ d + q[1].plen < Len(p)
                   /\ p[d + 1] = k[d + 1]
                   /\ SubSeq(p, d + 2, d + q[1].plen) # SubSeq(k, d + 2, d + q[1].plen)
        <3>1. PICK l \in M : l.key = k
            BY <2>4 DEF KeysIn
        <3>2. PICK q \in Subtrees(root) : Misled(q, l, p)
            BY <2>4, <2>5, <2>8, <3>1 DEF Strayed
        <3>3. q \in Nodes(root)
            BY <3>2 DEF Nodes, Misled
        <3> QED BY <2>1, <3>1, <3>2, <3>3, MisledAt
    <2> QED BY <2>2, <2>6, <2>7, <2>8
<1>2. IInv => PrefixScansFindAll
    BY <1>1 DEF PrefixScansFindAll
<1> QED BY <1>2, TreeStaysInvariant, PTL
===============================================================================
