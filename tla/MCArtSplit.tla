------------------------------ MODULE MCArtSplit ------------------------------
(* An instance of ArtSplit for TLC: keys of five bytes, in the root and in *)
(* a node below it that has a prefix of two.                               *)
EXTENDS ArtSplit, TLC

CONSTANTS root, inner, i1, i2, s1,
          k23111, k23121, k31111,                                   \* are there
          k31112, k32111, k11111, k23211, k22111, k23131, k23112    \* are inserted

Spell(a, b, c, d, e) == (0 :> a) @@ (1 :> b) @@ (2 :> c) @@ (3 :> d) @@ (4 :> e)

Spelt == (k23111 :> Spell(2, 3, 1, 1, 1)) @@ (k23121 :> Spell(2, 3, 1, 2, 1)) @@
         (k31111 :> Spell(3, 1, 1, 1, 1)) @@ (k31112 :> Spell(3, 1, 1, 1, 2)) @@
         (k32111 :> Spell(3, 2, 1, 1, 1)) @@ (k11111 :> Spell(1, 1, 1, 1, 1)) @@
         (k23211 :> Spell(2, 3, 2, 1, 1)) @@ (k22111 :> Spell(2, 2, 1, 1, 1)) @@
         (k23131 :> Spell(2, 3, 1, 3, 1)) @@ (k23112 :> Spell(2, 3, 1, 1, 2))

Present == {k23111, k23121, k31111}

TwoCells(b, p, c, q) == [Empty EXCEPT !.count = 2, !.keys[0] = b, !.children[0] = p,
                                      !.keys[1] = c, !.children[1] = q]

Grown == (root :> TwoCells(2, inner, 3, k31111)) @@
         (inner :> [TwoCells(1, k23111, 2, k23121) EXCEPT !.len = 2, !.partial[0] = 3, !.partial[1] = 1])

Scene(k, l, targets) == [inserts |-> (i1 :> k) @@ (i2 :> l), targets |-> targets]

(* One leaf split twice; a leaf split whose cell is moved; a prefix split  *)
(* above the split of a leaf, with a child added below it or beside it,    *)
(* and twice.                                                              *)
Pairs == {Scene(k31112, k32111, {k31111}),
          Scene(k31112, k11111, {k31111, k23111}),
          Scene(k23211, k23112, {k23111}),
          Scene(k23211, k23131, {k23121}),
          Scene(k23211, k11111, {k23111}),
          Scene(k23211, k22111, {k23111})}
===============================================================================
