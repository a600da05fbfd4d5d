---------------------------- MODULE SenderProofs ----------------------------
(***************************************************************************)
(* Proofs about the parts of Sender whose definitions are not recursive:   *)
(* the trees of rules in training, and the controllers, for all values of  *)
(* the constants.                                                          *)
(*                                                                         *)
(* Training.  As long as replace has met the leaves it was called for, the *)
(* tree is in order (TreeOK): it is closed under parents and of bounded    *)
(* depth, its root contains every memory within the limits, and a memory   *)
(* that a node contains is in exactly one of its children.  A search can   *)
(* then always go on to a leaf, and never has a choice.  What needs the    *)
(* most is that a split keeps it: bisect cuts one axis after the other, at *)
(* medians that may lie outside of the range, and the parts it has cut so  *)
(* far must still have the range's ends on the axes to come (PartsOK).     *)
(*                                                                         *)
(* Controllers.  The types, the sending times RemyCC keeps, the sign and   *)
(* the size of its signals, and the floor of DefaultCC's window.           *)
(***************************************************************************)
EXTENDS Training, Controllers, SequenceTheorems, WellFoundedInduction, TLAPS

(* Paths in a tree. *)

(* Every non-empty set of naturals has a least element. *)
LEMMA LeastNat ==
  ASSUME NEW T, T \subseteq Nat, T # {}
  PROVE  \E x \in T : \A y \in T : x <= y
<1> DEFINE Less == {p \in Nat \X Nat : p[1] < p[2]}
<1>1. IsWellFoundedOn(Less, Nat)
  BY NatLessThanWellFounded DEF OpToRel
<1>2. PICK x \in T : \A y \in T : <<y, x>> \notin Less
  <2> HIDE DEF Less
  <2> QED BY <1>1, WFMin
<1>3. \A y \in T : ~(y < x)
  BY <1>2
<1> QED BY <1>3

Paths == Seq(Nat)

(* The beginning of a path. *)
LEMMA Beginning ==
  ASSUME NEW p \in Paths, NEW n \in 0 .. Len(p)
  PROVE  /\ SubSeq(p, 1, n) \in Paths /\ Len(SubSeq(p, 1, n)) = n
         /\ \A i \in 1 .. n : SubSeq(p, 1, n)[i] = p[i]
<1>1. Len(p) \in Nat /\ n \in Nat /\ \A i \in 1 .. n : p[i] \in Nat
  BY ElementOfSeq DEF Paths
<1>2. /\ SubSeq(p, 1, n) \in Seq(Nat)
      /\ Len(SubSeq(p, 1, n)) = IF 1 <= n THEN n - 1 + 1 ELSE 0
      /\ \A i \in 1 .. n - 1 + 1 : SubSeq(p, 1, n)[i] = p[1 + i - 1]
  BY <1>1, SubSeqProperties
<1>3. n - 1 + 1 = n /\ \A i \in 1 .. n : 1 + i - 1 = i
  BY <1>1
<1> QED
  BY <1>1, <1>2, <1>3 DEF Paths

(* What is above a path: the paths it begins with. *)
LEMMA AboveIs ==
  ASSUME NEW p \in Paths, NEW a
  PROVE  a \in Above(p) <=>
           a \in Paths /\ Len(a) <= Len(p) /\ \A i \in 1 .. Len(a) : a[i] = p[i]
<1>0. Len(p) \in Nat
  BY DEF Paths
<1>1. ASSUME a \in Above(p)
      PROVE  a \in Paths /\ Len(a) <= Len(p) /\ \A i \in 1 .. Len(a) : a[i] = p[i]
  <2>1. PICK n \in 0 .. Len(p) : a = SubSeq(p, 1, n)
    BY <1>1 DEF Above
  <2> QED
    BY <1>0, <2>1, Beginning
<1>2. ASSUME a \in Paths, Len(a) <= Len(p), \A i \in 1 .. Len(a) : a[i] = p[i]
      PROVE  a \in Above(p)
  <2> DEFINE n == Len(a)
  <2>1. n \in 0 .. Len(p)
    BY <1>0, <1>2 DEF Paths
  <2>2. /\ SubSeq(p, 1, n) \in Paths /\ Len(SubSeq(p, 1, n)) = n
        /\ \A i \in 1 .. n : SubSeq(p, 1, n)[i] = p[i]
    BY <2>1, Beginning
  <2>3. a = SubSeq(p, 1, n)
    BY <1>2, <2>2, SeqEqual DEF Paths
  <2> QED
    BY <2>1, <2>3 DEF Above
<1> QED
  BY <1>1, <1>2

(* A path and the root are above it; above the root is only the root. *)
LEMMA AboveItself ==
  ASSUME NEW p \in Paths
  PROVE  p \in Above(p) /\ <<>> \in Above(p) /\ <<>> \in Paths /\ Above(<<>>) = {<<>>}
<1>1. <<>> \in Paths /\ Len(<<>>) = 0 /\ Len(p) \in Nat
  BY EmptySeq DEF Paths
<1>2. p \in Above(p) /\ <<>> \in Above(p)
  BY <1>1, AboveIs
<1>3. \A a \in Above(<<>>) : a = <<>>
  <2> SUFFICES ASSUME NEW a \in Above(<<>>) PROVE a = <<>>
    OBVIOUS
  <2>1. a \in Seq(Nat) /\ Len(a) <= 0
    BY <1>1, AboveIs DEF Paths
  <2>2. a # <<>> => Len(a) \in Nat \ {0}
    BY <2>1, EmptySeq
  <2> QED
    BY <2>1, <2>2
<1>4. <<>> \in Above(<<>>)
  BY <1>1, AboveIs
<1> QED
  BY <1>1, <1>2, <1>3, <1>4

(* What is above a node above p is above p. *)
LEMMA AboveThrough ==
  ASSUME NEW p \in Paths, NEW a \in Above(p), NEW b \in Above(a)
  PROVE  b \in Above(p)
<1>1. a \in Paths /\ Len(a) <= Len(p) /\ \A i \in 1 .. Len(a) : a[i] = p[i]
  BY AboveIs
<1>2. b \in Paths /\ Len(b) <= Len(a) /\ \A i \in 1 .. Len(b) : b[i] = a[i]
  BY <1>1, AboveIs
<1>3. Len(a) \in Nat /\ Len(b) \in Nat /\ Len(p) \in Nat
  BY <1>1, <1>2 DEF Paths
<1>4. Len(b) <= Len(p) /\ \A i \in 1 .. Len(b) : b[i] = p[i]
  BY <1>1, <1>2, <1>3
<1> QED
  BY <1>2, <1>4, AboveIs

(* A child's path. *)
LEMMA ChildIs ==
  ASSUME NEW p \in Paths, NEW i \in Nat
  PROVE  /\ p \o <<i>> \in Paths /\ Len(p \o <<i>>) = Len(p) + 1
         /\ (p \o <<i>>)[Len(p) + 1] = i
         /\ \A k \in 1 .. Len(p) : (p \o <<i>>)[k] = p[k]
<1>1. <<i>> \in Seq(Nat) /\ Len(<<i>>) = 1 /\ <<i>>[1] = i /\ Len(p) \in Nat
  BY DEF Paths
<1>2. /\ p \o <<i>> \in Seq(Nat) /\ Len(p \o <<i>>) = Len(p) + Len(<<i>>)
      /\ \A k \in 1 .. Len(p) + Len(<<i>>) : (p \o <<i>>)[k] =
                     IF k <= Len(p) THEN p[k] ELSE <<i>>[k - Len(p)]
  BY <1>1, ConcatProperties DEF Paths
<1>3. Len(p) + 1 - Len(p) = 1
  BY <1>1
<1> QED
  BY <1>1, <1>2, <1>3 DEF Paths

(* Above a child are its parent, what is above that, and itself. *)
LEMMA AboveChild ==
  ASSUME NEW p \in Paths, NEW i \in Nat
  PROVE  Above(p \o <<i>>) = Above(p) \cup {p \o <<i>>}
<1> DEFINE c == p \o <<i>>
<1>1. /\ c \in Paths /\ Len(c) = Len(p) + 1 /\ Len(p) \in Nat
      /\ \A k \in 1 .. Len(p) : c[k] = p[k]
  BY ChildIs DEF Paths
<1> HIDE DEF c
<1>2. ASSUME NEW a \in Above(c) PROVE a \in Above(p) \/ a = c
  <2>1. a \in Paths /\ Len(a) <= Len(c) /\ \A k \in 1 .. Len(a) : a[k] = c[k]
    BY <1>1, AboveIs
  <2>2. CASE Len(a) <= Len(p)
    <3>1. \A k \in 1 .. Len(a) : a[k] = p[k]
      BY <1>1, <2>1, <2>2 DEF Paths
    <3> QED
      BY <2>1, <2>2, <3>1, AboveIs
  <2>3. CASE Len(a) > Len(p)
    <3>1. Len(a) = Len(c)
      BY <1>1, <2>1, <2>3 DEF Paths
    <3> QED
      BY <1>1, <2>1, <3>1, SeqEqual DEF Paths
  <2>4. Len(a) \in Nat
    BY <2>1 DEF Paths
  <2> QED
    BY <1>1, <2>2, <2>3, <2>4
<1>3. p \in Above(c) /\ c \in Above(c)
  BY <1>1, AboveIs, AboveItself
<1>4. \A a \in Above(p) : a \in Above(c)
  BY <1>1, <1>3, AboveThrough
<1> QED
  BY <1>2, <1>3, <1>4 DEF c

(* The node below r on the way to p. *)
LEMMA NextOnTheWay ==
  ASSUME NEW p \in Paths, NEW r \in Above(p), r # p
  PROVE  \E i \in Nat : r \o <<i>> \in Above(p)
<1>1. r \in Paths /\ Len(r) <= Len(p) /\ \A k \in 1 .. Len(r) : r[k] = p[k]
  BY AboveIs
<1>2. Len(r) \in Nat /\ Len(p) \in Nat
  BY <1>1 DEF Paths
<1>3. Len(r) < Len(p)
  <2>1. Len(r) = Len(p) => r = p
    BY <1>1, SeqEqual DEF Paths
  <2> QED
    BY <1>1, <1>2, <2>1
<1> DEFINE next == p[Len(r) + 1]
<1>4. next \in Nat
  BY <1>2, <1>3, ElementOfSeq DEF Paths
<1>5. next = p[Len(r) + 1]
  OBVIOUS
<1> HIDE DEF next
<1> DEFINE d == r \o <<next>>
<1>6. /\ d \in Paths /\ Len(d) = Len(r) + 1 /\ d[Len(r) + 1] = next
      /\ \A k \in 1 .. Len(r) : d[k] = r[k]
  BY <1>1, <1>4, ChildIs
<1> HIDE DEF d
<1>7. \A k \in 1 .. Len(d) : d[k] = p[k]
  BY <1>1, <1>2, <1>5, <1>6
<1>8. d \in Above(p)
  BY <1>2, <1>3, <1>6, <1>7, AboveIs
<1> QED
  BY <1>4, <1>8 DEF d

(* Two paths part at a node, unless one leads on from the other. *)
LEMMA PathsPart ==
  ASSUME NEW p \in Paths, NEW r \in Paths
  PROVE  p \in Above(r) \/ r \in Above(p) \/ Earlier(p, r) \/ Earlier(r, p)
<1>0. Len(p) \in Nat /\ Len(r) \in Nat
  BY DEF Paths
<1> DEFINE T == {n \in Nat : n >= 1 /\ n <= Len(p) /\ n <= Len(r) /\ p[n] # r[n]}
<1>1. CASE T = {}
  <2>1. \A n \in Nat : n >= 1 /\ n <= Len(p) /\ n <= Len(r) => p[n] = r[n]
    BY <1>1
  <2>2. CASE Len(p) <= Len(r)
    <3>1. \A n \in 1 .. Len(p) : p[n] = r[n]
      BY <1>0, <2>1, <2>2
    <3> QED
      BY <2>2, <3>1, AboveIs
  <2>3. CASE Len(r) <= Len(p)
    <3>1. \A n \in 1 .. Len(r) : r[n] = p[n]
      BY <1>0, <2>1, <2>3
    <3> QED
      BY <2>3, <3>1, AboveIs
  <2> QED
    BY <1>0, <2>2, <2>3
<1>2. CASE T # {}
  <2>1. PICK n \in T : \A m \in T : n <= m
    BY <1>2, LeastNat
  <2>2. n \in Nat /\ n >= 1 /\ n <= Len(p) /\ n <= Len(r) /\ p[n] # r[n]
    BY <2>1
  <2>3. \A k \in 1 .. n - 1 : p[k] = r[k]
    BY <1>0, <2>1, <2>2
  <2>4. n - 1 \in 0 .. Len(p) /\ n - 1 \in 0 .. Len(r) /\ n \in 1 .. Len(p) /\ n \in 1 .. Len(r)
    BY <1>0, <2>2
  <2>5. /\ SubSeq(p, 1, n - 1) \in Paths /\ Len(SubSeq(p, 1, n - 1)) = n - 1
        /\ \A i \in 1 .. n - 1 : SubSeq(p, 1, n - 1)[i] = p[i]
    BY <2>4, Beginning
  <2>6. /\ SubSeq(r, 1, n - 1) \in Paths /\ Len(SubSeq(r, 1, n - 1)) = n - 1
        /\ \A i \in 1 .. n - 1 : SubSeq(r, 1, n - 1)[i] = r[i]
    BY <2>4, Beginning
  <2>7. SubSeq(p, 1, n - 1) = SubSeq(r, 1, n - 1)
    BY <2>3, <2>5, <2>6, SeqEqual DEF Paths
  <2>8. p[n] \in Nat /\ r[n] \in Nat
    BY <2>4, ElementOfSeq DEF Paths
  <2>9. p[n] < r[n] \/ r[n] < p[n]
    BY <2>2, <2>8
  <2> QED
    BY <2>2, <2>4, <2>7, <2>9 DEF Earlier
<1> QED
  BY <1>1, <1>2

(* Where they part. *)
LEMMA WhereTheyPart ==
  ASSUME NEW p \in Paths, NEW r \in Paths, Earlier(p, r)
  PROVE  \E c \in Paths : \E i, j \in Nat :
           /\ i # j /\ c \in Above(p) /\ c \o <<i>> \in Above(p) /\ c \o <<j>> \in Above(r)
<1>0. Len(p) \in Nat /\ Len(r) \in Nat
  BY DEF Paths
<1>1. PICK n \in 1 .. Len(p) : /\ n <= Len(r) /\ SubSeq(p, 1, n - 1) = SubSeq(r, 1, n - 1)
                               /\ p[n] < r[n]
  BY DEF Earlier
<1>2. n \in 1 .. Len(r) /\ n - 1 \in 0 .. Len(p) /\ n - 1 \in 0 .. Len(r) /\ n \in Nat
  BY <1>0, <1>1
<1>3. p[n] \in Nat /\ r[n] \in Nat
  BY <1>2, ElementOfSeq DEF Paths
<1> DEFINE c == SubSeq(p, 1, n - 1)
<1>4. c \in Paths /\ Len(c) = n - 1 /\ \A i \in 1 .. n - 1 : c[i] = p[i] /\ c[i] = r[i]
  <2>1. c \in Paths /\ Len(c) = n - 1 /\ \A i \in 1 .. n - 1 : c[i] = p[i]
    BY <1>2, Beginning
  <2>2. \A i \in 1 .. n - 1 : SubSeq(r, 1, n - 1)[i] = r[i]
    BY <1>2, Beginning
  <2> QED
    BY <1>1, <2>1, <2>2
<1> HIDE DEF c
<1>5. ASSUME NEW s \in Paths, n \in 1 .. Len(s), \A k \in 1 .. n - 1 : c[k] = s[k]
      PROVE  c \o <<s[n]>> \in Above(s)
  <2> DEFINE i == s[n]
             d == c \o <<i>>
  <2>0. Len(s) \in Nat /\ i \in Nat
    BY <1>5, ElementOfSeq DEF Paths
  <2>1. i = s[n]
    OBVIOUS
  <2> HIDE DEF i
  <2>2. /\ d \in Paths /\ Len(d) = Len(c) + 1 /\ d[Len(c) + 1] = i
        /\ \A k \in 1 .. Len(c) : d[k] = c[k]
    BY <1>4, <2>0, ChildIs
  <2> HIDE DEF d
  <2>3. Len(d) = n /\ d[n] = i /\ \A k \in 1 .. n - 1 : d[k] = c[k]
    <3>1. Len(c) + 1 = n /\ Len(c) = n - 1
      BY <1>2, <1>4
    <3> QED
      BY <2>2, <3>1
  <2>4. \A k \in 1 .. n : d[k] = s[k]
    BY <1>2, <1>5, <2>1, <2>3
  <2>5. d \in Above(s)
    BY <1>5, <2>0, <2>2, <2>3, <2>4, AboveIs
  <2> QED
    BY <2>1, <2>5 DEF d
<1>6. c \o <<p[n]>> \in Above(p) /\ c \o <<r[n]>> \in Above(r)
  BY <1>2, <1>4, <1>5
<1>7. c \in Above(p)
  BY <1>0, <1>2, <1>4, AboveIs
<1>8. p[n] # r[n]
  BY <1>1, <1>3
<1> QED
  BY <1>3, <1>4, <1>6, <1>7, <1>8

Ranges(b) == [lower : [b -> Int], upper : [b -> Int], seen : [b -> SUBSET Int], count : Int]

Whiskers(b) == [generation : Int, rule : [RuleFields -> Int], domain : Ranges(b)]

Limits(b) == [b -> 0 .. Limit - 1]

(* The nodes are closed under parents and not arbitrarily deep. *)
NodesOK(t) ==
  /\ DOMAIN t.domain \subseteq Paths /\ <<>> \in DOMAIN t.domain
  /\ \A p \in DOMAIN t.domain : Above(p) \subseteq DOMAIN t.domain
  /\ \E most \in Nat : \A p \in DOMAIN t.domain : Len(p) <= most

LeavesOK(t) ==
  /\ DOMAIN t.leaf \subseteq DOMAIN t.domain
  /\ \A p \in DOMAIN t.leaf : /\ SameBounds(t.leaf[p].domain, t.domain[p])
                              /\ \A i \in Nat : p \o <<i>> \notin DOMAIN t.domain

TreeTypes(t, b) ==
  /\ \A p \in DOMAIN t.domain : t.domain[p] \in Ranges(b)
  /\ \A p \in DOMAIN t.leaf : t.leaf[p] \in Whiskers(b)

ChildHolds(t, p, i, q) == p \o <<i>> \in DOMAIN t.domain /\ contains(t.domain[p \o <<i>>], q)

(* What a node contains, one of its children does; the root contains all. *)
Partitions(t, b) ==
  \A q \in Limits(b) :
    /\ contains(t.domain[<<>>], q)
    /\ \A p \in DOMAIN t.domain \ DOMAIN t.leaf :
         contains(t.domain[p], q) =>
           \E i \in Nat : ChildHolds(t, p, i, q) /\ \A j \in Nat : ChildHolds(t, p, j, q) => j = i

TreeOK(t, b) == NodesOK(t) /\ LeavesOK(t) /\ TreeTypes(t, b) /\ Partitions(t, b)

(* A node that holds q contains it, and the nodes above hold it too. *)
LEMMA HoldingIs ==
  ASSUME NEW t, NodesOK(t), NEW q, NEW p \in Holding(t, q), NEW a \in Above(p)
  PROVE  /\ p \in Paths /\ p \in DOMAIN t.domain /\ a \in Holding(t, q)
         /\ contains(t.domain[p], q)
<1>1. p \in DOMAIN t.domain /\ p \in Paths /\ Above(p) \subseteq DOMAIN t.domain
  BY DEF Holding, NodesOK
<1>2. \A c \in Above(p) : contains(t.domain[c], q)
  BY DEF Holding
<1>3. \A c \in Above(a) : c \in Above(p)
  BY <1>1, AboveThrough
<1>4. p \in Above(p)
  BY <1>1, AboveItself
<1> QED
  BY <1>1, <1>2, <1>3, <1>4 DEF Holding

(* A leaf holds q. *)
LEMMA SomeLeafHolds ==
  ASSUME NEW t, NEW b, TreeOK(t, b), NEW q \in Limits(b)
  PROVE  \E p \in DOMAIN t.leaf : p \in Holding(t, q)
<1> DEFINE H == Holding(t, q)
<1>1. <<>> \in H
  <2>1. Above(<<>>) = {<<>>}
    BY EmptySeq, AboveItself DEF Paths
  <2> QED
    BY <2>1 DEF Holding, TreeOK, NodesOK, Partitions
<1>2. \A p \in H : p \in Paths /\ p \in DOMAIN t.domain /\ contains(t.domain[p], q)
  BY HoldingIs, AboveItself DEF TreeOK, NodesOK, Holding
<1>3. PICK most \in Nat : \A p \in DOMAIN t.domain : Len(p) <= most
  BY DEF TreeOK, NodesOK
<1>4. \A p \in H : Len(p) \in Nat /\ Len(p) <= most
  BY <1>2, <1>3 DEF Paths
<1> DEFINE T == {most - Len(p) : p \in H}
<1>5. T \subseteq Nat /\ T # {}
  <2> HIDE DEF H
  <2> QED BY <1>1, <1>4
<1>6. PICK x \in T : \A y \in T : x <= y
  BY <1>5, LeastNat
<1>7. PICK p \in H : x = most - Len(p)
  BY <1>6
<1>8. \A r \in H : Len(r) <= Len(p)
  <2> SUFFICES ASSUME NEW r \in H PROVE Len(r) <= Len(p)
    OBVIOUS
  <2>1. most - Len(p) <= most - Len(r)
    BY <1>6, <1>7
  <2> HIDE DEF H, T
  <2> QED
    BY <1>4, <1>7, <2>1
<1>9. p \in DOMAIN t.leaf
  <2> SUFFICES ASSUME p \notin DOMAIN t.leaf PROVE FALSE
    OBVIOUS
  <2>1. PICK i \in Nat : ChildHolds(t, p, i, q)
    BY <1>2, <1>7 DEF TreeOK, Partitions
  <2>2. Above(p \o <<i>>) = Above(p) \cup {p \o <<i>>} /\ Len(p \o <<i>>) = Len(p) + 1
    BY <1>2, <1>7, AboveChild, ChildIs
  <2>3. p \o <<i>> \in H
    BY <1>7, <2>1, <2>2 DEF Holding, ChildHolds
  <2>4. Len(p) + 1 <= Len(p)
    BY <1>8, <2>2, <2>3
  <2> QED
    BY <1>4, <1>7, <2>4
<1> QED
  BY <1>7, <1>9

(* Of two nodes that hold q one is above the other. *)
LEMMA HoldingIsAPath ==
  ASSUME NEW t, NEW b, TreeOK(t, b), NEW q \in Limits(b),
         NEW p \in Holding(t, q), NEW r \in Holding(t, q)
  PROVE  ~Earlier(p, r)
<1> SUFFICES ASSUME Earlier(p, r) PROVE FALSE
  OBVIOUS
<1>1. p \in Paths /\ r \in Paths
  BY DEF Holding, TreeOK, NodesOK
<1>2. PICK c \in Paths : \E i, j \in Nat :
        /\ i # j /\ c \in Above(p) /\ c \o <<i>> \in Above(p) /\ c \o <<j>> \in Above(r)
  BY <1>1, WhereTheyPart
<1>3. PICK i \in Nat, j \in Nat :
        /\ i # j /\ c \in Above(p) /\ c \o <<i>> \in Above(p) /\ c \o <<j>> \in Above(r)
  BY <1>2
<1>4. c \in Holding(t, q) /\ c \o <<i>> \in Holding(t, q) /\ c \o <<j>> \in Holding(t, q)
  BY <1>3, HoldingIs DEF TreeOK
<1>5. ChildHolds(t, c, i, q) /\ ChildHolds(t, c, j, q) /\ c \in DOMAIN t.domain
      /\ contains(t.domain[c], q)
  <2>1. \A x \in Holding(t, q) : x \in DOMAIN t.domain /\ contains(t.domain[x], q)
    BY HoldingIs, AboveItself DEF TreeOK, NodesOK, Holding
  <2> QED
    BY <1>4, <2>1 DEF ChildHolds
<1>6. c \notin DOMAIN t.leaf
  BY <1>5 DEF TreeOK, LeavesOK, ChildHolds
<1> QED
  BY <1>3, <1>5, <1>6 DEF TreeOK, Partitions

(* What a search in a tree in order finds: the one leaf that holds q. *)
LEMMA OneLeafHolds ==
  ASSUME NEW t, NEW b, TreeOK(t, b), NEW q \in Limits(b)
  PROVE  /\ \E p \in DOMAIN t.leaf : Holding(t, q) \cap DOMAIN t.leaf = {p}
         /\ whisker(t, q).is = "found" /\ whisker(t, q).path \in DOMAIN t.leaf
<1>1. PICK p \in DOMAIN t.leaf : p \in Holding(t, q)
  BY SomeLeafHolds
<1>2. ASSUME NEW r \in Holding(t, q), r \in DOMAIN t.leaf PROVE r = p
  <2>1. p \in Paths /\ r \in Paths /\ p \in DOMAIN t.domain /\ r \in DOMAIN t.domain
    BY <1>1 DEF Holding, TreeOK, NodesOK
  <2>2. p \in Above(r) \/ r \in Above(p)
    BY <1>1, <2>1, PathsPart, HoldingIsAPath
  <2>3. ASSUME NEW x \in DOMAIN t.domain, NEW y \in DOMAIN t.leaf, y \in Above(x), y # x
        PROVE  FALSE
    <3>1. x \in Paths /\ Above(x) \subseteq DOMAIN t.domain
      BY DEF TreeOK, NodesOK
    <3>2. PICK i \in Nat : y \o <<i>> \in Above(x)
      BY <2>3, <3>1, NextOnTheWay
    <3> QED
      BY <3>1, <3>2 DEF TreeOK, LeavesOK
  <2> QED
    BY <1>2, <2>1, <2>2, <2>3
<1>3. Holding(t, q) \cap DOMAIN t.leaf = {p}
  BY <1>1, <1>2
<1> DEFINE visited == {x \in Holding(t, q) : \A other \in Holding(t, q) : ~Earlier(other, x)}
           leaves  == visited \cap DOMAIN t.leaf
<1>4. visited = Holding(t, q)
  BY HoldingIsAPath
<1>5. leaves = {p}
  BY <1>3, <1>4
<1>6. whisker(t, q) = IF Holding(t, q) = {} THEN None
                      ELSE IF leaves = {} THEN Abort
                      ELSE [is |-> "found", path |-> CHOOSE x \in leaves : TRUE]
  BY DEF whisker
<1>7. whisker(t, q) = [is |-> "found", path |-> CHOOSE x \in leaves : TRUE]
  <2> HIDE DEF leaves, visited
  <2> QED BY <1>1, <1>5, <1>6
<1> HIDE DEF leaves
<1>8. whisker(t, q).is = "found" /\ whisker(t, q).path \in DOMAIN t.leaf
  <2>1. (CHOOSE x \in leaves : TRUE) \in leaves
    BY <1>5
  <2> QED
    BY <1>5, <1>7, <2>1
<1> QED
  BY <1>3, <1>8

(* The halves of a range keep its other ends, and where a memory is within *)
(* the range's ends on the axis, it is in exactly one half if it is in the *)
(* range: the ends of what was cut do not matter, the median least of all. *)
LEMMA HalvesPart ==
  ASSUME NEW b, NEW x \in Ranges(b), NEW n \in b, NEW median \in Int
  PROVE  LET halves == Halves(x, n, median)
         IN  /\ DOMAIN halves \subseteq {1, 2}
             /\ \A h \in DOMAIN halves :
                  /\ halves[h] \in Ranges(b)
                  /\ \A k \in b \ {n} : /\ halves[h].lower[k] = x.lower[k]
                                        /\ halves[h].upper[k] = x.upper[k]
             /\ \A q \in [b -> Int] : x.lower[n] <= q[n] /\ q[n] < x.upper[n] =>
                  /\ contains(x, q) => \E h \in DOMAIN halves : contains(halves[h], q)
                  /\ \A h \in DOMAIN halves : contains(halves[h], q) => contains(x, q)
                  /\ \A h, g \in DOMAIN halves :
                       contains(halves[h], q) /\ contains(halves[g], q) => h = g
<1>1. PICK at \in Int :
        \/ Halves(x, n, median) = <<x>>
        \/ Halves(x, n, median) = <<NewRange(x.lower, [x.upper EXCEPT ![n] = at]),
                                    NewRange([x.lower EXCEPT ![n] = at], x.upper)>>
  <2>1. x.lower \in [b -> Int] /\ x.upper \in [b -> Int]
    BY DEF Ranges
  <2>2. x.lower[n] + x.upper[n] \in Int
    BY <2>1
  <2> DEFINE middle == (x.lower[n] + x.upper[n]) \div 2
  <2>3. middle \in Int
    BY <2>2
  <2> HIDE DEF middle
  <2>4. (\E m \in {median, middle} : Halves(x, n, median) =
            <<NewRange(x.lower, [x.upper EXCEPT ![n] = m]),
              NewRange([x.lower EXCEPT ![n] = m], x.upper)>>) \/ Halves(x, n, median) = <<x>>
    BY DEF Halves, middle
  <2> QED
    BY <2>3, <2>4
<1> DEFINE halves == Halves(x, n, median)
<1>2. CASE halves = <<x>>
  <2> HIDE DEF halves
  <2>1. DOMAIN halves = {1} /\ halves[1] = x
    BY <1>2
  <2> QED
    BY <2>1 DEF halves
<1>3. CASE halves = <<NewRange(x.lower, [x.upper EXCEPT ![n] = at]),
                      NewRange([x.lower EXCEPT ![n] = at], x.upper)>>
  <2> HIDE DEF halves
  <2> DEFINE low  == NewRange(x.lower, [x.upper EXCEPT ![n] = at])
             high == NewRange([x.lower EXCEPT ![n] = at], x.upper)
  <2>1. x.lower \in [b -> Int] /\ x.upper \in [b -> Int]
    BY DEF Ranges
  <2>2. /\ low.lower = x.lower /\ low.upper = [x.upper EXCEPT ![n] = at]
        /\ low \in Ranges(b)
    BY <2>1 DEF NewRange, Ranges
  <2>3. /\ high.lower = [x.lower EXCEPT ![n] = at] /\ high.upper = x.upper
        /\ high \in Ranges(b)
    BY <2>1 DEF NewRange, Ranges
  <2>4. DOMAIN halves = {1, 2} /\ halves[1] = low /\ halves[2] = high
    BY <1>3
  <2> HIDE DEF low, high
  <2>5. \A k \in b \ {n} : /\ low.lower[k] = x.lower[k] /\ low.upper[k] = x.upper[k]
                           /\ high.lower[k] = x.lower[k] /\ high.upper[k] = x.upper[k]
    BY <2>1, <2>2, <2>3
  <2>6. /\ low.lower[n] = x.lower[n] /\ low.upper[n] = at
        /\ high.lower[n] = at /\ high.upper[n] = x.upper[n]
    BY <2>1, <2>2, <2>3
  <2>7. ASSUME NEW q \in [b -> Int], x.lower[n] <= q[n], q[n] < x.upper[n]
        PROVE  /\ contains(x, q) => contains(low, q) \/ contains(high, q)
               /\ contains(low, q) => contains(x, q)
               /\ contains(high, q) => contains(x, q)
               /\ ~(contains(low, q) /\ contains(high, q))
    <3>1. DOMAIN q = b /\ q[n] \in Int
      BY <2>7
    <3>2. contains(low, q) <=> /\ q[n] < at
                               /\ \A k \in b \ {n} : x.lower[k] <= q[k] /\ q[k] < x.upper[k]
      BY <2>5, <2>6, <2>7, <3>1 DEF contains
    <3>3. contains(high, q) <=> /\ at <= q[n]
                                /\ \A k \in b \ {n} : x.lower[k] <= q[k] /\ q[k] < x.upper[k]
      BY <2>5, <2>6, <2>7, <3>1 DEF contains
    <3>4. contains(x, q) <=> \A k \in b \ {n} : x.lower[k] <= q[k] /\ q[k] < x.upper[k]
      BY <2>7, <3>1 DEF contains
    <3>5. q[n] < at \/ at <= q[n]
      BY <3>1
    <3>6. ~(q[n] < at /\ at <= q[n])
      BY <3>1
    <3> QED
      BY <3>2, <3>3, <3>4, <3>5, <3>6
  <2>8. \A h \in DOMAIN halves : halves[h] = low \/ halves[h] = high
    BY <2>4
  <2>9. \A h \in DOMAIN halves :
          /\ halves[h] \in Ranges(b)
          /\ \A k \in b \ {n} : halves[h].lower[k] = x.lower[k] /\ halves[h].upper[k] = x.upper[k]
    BY <2>2, <2>3, <2>5, <2>8
  <2>10. ASSUME NEW q \in [b -> Int], x.lower[n] <= q[n], q[n] < x.upper[n]
         PROVE  /\ contains(x, q) => \E h \in DOMAIN halves : contains(halves[h], q)
                /\ \A h \in DOMAIN halves : contains(halves[h], q) => contains(x, q)
                /\ \A h, g \in DOMAIN halves :
                     contains(halves[h], q) /\ contains(halves[g], q) => h = g
    BY <2>4, <2>7, <2>10
  <2> QED
    BY <2>4, <2>9, <2>10 DEF halves
<1> QED
  BY <1>1, <1>2, <1>3

(* The parts of a range cut on some of its axes.                           *)
PartsOK(parts, range, b, axes) ==
  /\ \A x \in parts : /\ x.at \in Nat /\ x.range \in Ranges(b)
                      /\ \A k \in b \ axes : /\ x.range.lower[k] = range.lower[k]
                                             /\ x.range.upper[k] = range.upper[k]
  /\ \A x, y \in parts : x.at = y.at => x = y
  /\ \A q \in [b -> Int] : contains(range, q) =>
       /\ \E x \in parts : contains(x.range, q)
       /\ \A x, y \in parts : contains(x.range, q) /\ contains(y.range, q) => x = y

(* Twice a number and one of two more: a pairing. *)
LEMMA NumberPairs ==
  ASSUME NEW a \in Nat, NEW u \in Nat, NEW h \in {1, 2}, NEW g \in {1, 2}, 2 * a + h = 2 * u + g
  PROVE  a = u /\ h = g
<1>1. CASE h = 1 /\ g = 1
  BY <1>1
<1>2. CASE h = 2 /\ g = 2
  BY <1>2
<1>3. CASE h = 1 /\ g = 2
  BY <1>3
<1>4. CASE h = 2 /\ g = 1
  BY <1>4
<1> QED
  BY <1>1, <1>2, <1>3, <1>4

(* Cutting all parts on one more axis. *)
LEMMA CutParts ==
  ASSUME NEW b, NEW range \in Ranges(b), NEW median \in [b -> Int], NEW axes, NEW parts,
         PartsOK(parts, range, b, axes), NEW n, n \notin axes
  PROVE  PartsOK(Cut(parts, n, median), range, b, axes \cup {n})
<1>1. CASE n \notin b
  <2>1. Cut(parts, n, median) = parts
    BY <1>1 DEF Cut
  <2> QED
    BY <1>1, <2>1 DEF PartsOK
<1>2. CASE n \in b
  <2> DEFINE new     == Cut(parts, n, median)
             Half(x) == Halves(x.range, n, median[n])
             Part(x, h) == [at |-> 2 * x.at + h, range |-> Half(x)[h]]
  <2>1. \A y : y \in new <=> \E x \in parts : \E h \in DOMAIN Half(x) : y = Part(x, h)
    <3>1. new = UNION {{Part(x, h) : h \in DOMAIN Half(x)} : x \in parts}
      BY <1>2 DEF Cut
    <3> HIDE DEF new, Half, Part
    <3> QED
      BY <3>1
  <2>2. \A x \in parts : x.at \in Nat /\ x.range \in Ranges(b)
    BY DEF PartsOK
  <2>3. median[n] \in Int
    BY <1>2
  <2>4. \A x \in parts :
          /\ DOMAIN Half(x) \subseteq {1, 2}
          /\ \A h \in DOMAIN Half(x) :
                  /\ Half(x)[h] \in Ranges(b)
                  /\ \A k \in b \ {n} : /\ Half(x)[h].lower[k] = x.range.lower[k]
                                        /\ Half(x)[h].upper[k] = x.range.upper[k]
          /\ \A q \in [b -> Int] : x.range.lower[n] <= q[n] /\ q[n] < x.range.upper[n] =>
                  /\ contains(x.range, q) => \E h \in DOMAIN Half(x) : contains(Half(x)[h], q)
                  /\ \A h \in DOMAIN Half(x) : contains(Half(x)[h], q) => contains(x.range, q)
                  /\ \A h, g \in DOMAIN Half(x) :
                       contains(Half(x)[h], q) /\ contains(Half(x)[g], q) => h = g
    BY <1>2, <2>2, <2>3, HalvesPart
  <2> HIDE DEF new, Half
  <2>5. ASSUME NEW y \in new
        PROVE  /\ y.at \in Nat /\ y.range \in Ranges(b)
               /\ \A k \in b \ (axes \cup {n}) : /\ y.range.lower[k] = range.lower[k]
                                                 /\ y.range.upper[k] = range.upper[k]
    <3>1. PICK x \in parts : \E h \in DOMAIN Half(x) : y = Part(x, h)
      BY <2>1
    <3>2. PICK h \in DOMAIN Half(x) : y = Part(x, h)
      BY <3>1
    <3>3. y.at = 2 * x.at + h /\ y.range = Half(x)[h] /\ h \in {1, 2} /\ x.at \in Nat
      BY <2>2, <2>4, <3>2
    <3>4. \A k \in b \ axes : /\ x.range.lower[k] = range.lower[k]
                              /\ x.range.upper[k] = range.upper[k]
      BY DEF PartsOK
    <3>5. y.at \in Nat
      BY <3>3
    <3>6. y.range \in Ranges(b)
          /\ \A k \in b \ {n} : /\ y.range.lower[k] = x.range.lower[k]
                                /\ y.range.upper[k] = x.range.upper[k]
      BY <2>4, <3>3
    <3> QED
      BY <3>4, <3>5, <3>6
  <2>6. ASSUME NEW y \in new, NEW z \in new, y.at = z.at PROVE y = z
    <3>1. PICK x \in parts : \E h \in DOMAIN Half(x) : y = Part(x, h)
      BY <2>1
    <3>2. PICK h \in DOMAIN Half(x) : y = Part(x, h)
      BY <3>1
    <3>3. PICK u \in parts : \E g \in DOMAIN Half(u) : z = Part(u, g)
      BY <2>1
    <3>4. PICK g \in DOMAIN Half(u) : z = Part(u, g)
      BY <3>3
    <3>5. /\ y.at = 2 * x.at + h /\ z.at = 2 * u.at + g
          /\ x.at \in Nat /\ u.at \in Nat /\ h \in {1, 2} /\ g \in {1, 2}
      BY <2>2, <2>4, <3>2, <3>4
    <3>6. x.at = u.at /\ h = g
      <4>1. 2 * x.at + h = 2 * u.at + g
        BY <2>6, <3>5
      <4> QED
        BY <3>5, <4>1, NumberPairs
    <3>7. x = u
      BY <3>6 DEF PartsOK
    <3> QED
      BY <3>2, <3>4, <3>6, <3>7
  <2>7. ASSUME NEW q \in [b -> Int], contains(range, q)
        PROVE  /\ \E y \in new : contains(y.range, q)
               /\ \A y, z \in new : contains(y.range, q) /\ contains(z.range, q) => y = z
    <3>1. range.lower[n] <= q[n] /\ q[n] < range.upper[n]
      BY <1>2, <2>7 DEF contains
    <3>2. \A x \in parts : x.range.lower[n] <= q[n] /\ q[n] < x.range.upper[n]
      BY <1>2, <3>1 DEF PartsOK
    <3>3. PICK x \in parts : contains(x.range, q)
      BY <2>7 DEF PartsOK
    <3>4. PICK h \in DOMAIN Half(x) : contains(Half(x)[h], q)
      BY <2>4, <3>2, <3>3
    <3>5. Part(x, h) \in new /\ Part(x, h).range = Half(x)[h]
      BY <2>1
    <3>6. ASSUME NEW y \in new, contains(y.range, q)
          PROVE  y = Part(x, h)
      <4>1. PICK u \in parts : \E g \in DOMAIN Half(u) : y = Part(u, g)
        BY <2>1
      <4>2. PICK g \in DOMAIN Half(u) : y = Part(u, g)
        BY <4>1
      <4>3. contains(Half(u)[g], q)
        BY <3>6, <4>2
      <4>4. contains(u.range, q)
        BY <2>4, <3>2, <4>3
      <4>5. u = x
        BY <2>7, <3>3, <4>4 DEF PartsOK
      <4>6. g = h
        BY <2>4, <3>2, <3>4, <4>3, <4>5
      <4> QED
        BY <4>2, <4>5, <4>6
    <3> HIDE DEF Part
    <3> QED
      BY <3>4, <3>5, <3>6
  <2>8. PartsOK(new, range, b, axes \cup {n})
    BY <2>5, <2>6, <2>7 DEF PartsOK
  <2> QED
    BY <2>8 DEF new
<1> QED
  BY <1>1, <1>2

(* However a range is bisected, its parts partition it. *)
LEMMA BisectParts ==
  ASSUME NEW b, NEW range \in Ranges(b), NEW median \in [b -> Int]
  PROVE  PartsOK(bisectRange(range, median), range, b, 21 .. 25)
<1> DEFINE p0 == {[at |-> 0, range |-> range]}
           p1 == Cut(p0, 21, median)
           p2 == Cut(p1, 22, median)
           p3 == Cut(p2, 23, median)
           p4 == Cut(p3, 24, median)
           p5 == Cut(p4, 25, median)
<1>1. PartsOK(p0, range, b, {})
  BY DEF PartsOK
<1> HIDE DEF p0
<1>2. PartsOK(p1, range, b, {21})
  <2>1. PartsOK(p1, range, b, {} \cup {21})
    BY <1>1, CutParts
  <2>2. {} \cup {21} = {21}
    OBVIOUS
  <2> QED BY <2>1, <2>2
<1> HIDE DEF p1
<1>3. PartsOK(p2, range, b, {21, 22})
  <2>1. PartsOK(p2, range, b, {21} \cup {22})
    BY <1>2, CutParts
  <2>2. {21} \cup {22} = {21, 22}
    OBVIOUS
  <2> QED BY <2>1, <2>2
<1> HIDE DEF p2
<1>4. PartsOK(p3, range, b, {21, 22, 23})
  <2>1. PartsOK(p3, range, b, {21, 22} \cup {23})
    BY <1>3, CutParts
  <2>2. {21, 22} \cup {23} = {21, 22, 23}
    OBVIOUS
  <2> QED BY <2>1, <2>2
<1> HIDE DEF p3
<1>5. PartsOK(p4, range, b, {21, 22, 23, 24})
  <2>1. PartsOK(p4, range, b, {21, 22, 23} \cup {24})
    BY <1>4, CutParts
  <2>2. {21, 22, 23} \cup {24} = {21, 22, 23, 24}
    OBVIOUS
  <2> QED BY <2>1, <2>2
<1> HIDE DEF p4
<1>6. PartsOK(p5, range, b, 21 .. 25)
  <2>1. PartsOK(p5, range, b, {21, 22, 23, 24} \cup {25})
    BY <1>5, CutParts
  <2>2. {21, 22, 23, 24} \cup {25} = 21 .. 25
    OBVIOUS
  <2> QED BY <2>1, <2>2
<1> QED
  BY <1>6 DEF bisectRange, p0, p1, p2, p3, p4

(* A node has one parent, and one number as its child. *)
LEMMA OneParent ==
  ASSUME NEW p \in Paths, NEW r \in Paths, NEW i \in Nat, NEW j \in Nat, p \o <<i>> = r \o <<j>>
  PROVE  p = r /\ i = j
<1>1. /\ Len(p \o <<i>>) = Len(p) + 1 /\ (p \o <<i>>)[Len(p) + 1] = i
      /\ \A k \in 1 .. Len(p) : (p \o <<i>>)[k] = p[k]
  BY ChildIs
<1>2. /\ Len(r \o <<j>>) = Len(r) + 1 /\ (r \o <<j>>)[Len(r) + 1] = j
      /\ \A k \in 1 .. Len(r) : (r \o <<j>>)[k] = r[k]
  BY ChildIs
<1>3. Len(p) = Len(r)
  <2>1. Len(p) + 1 = Len(r) + 1 /\ Len(p) \in Nat /\ Len(r) \in Nat
    BY <1>1, <1>2 DEF Paths
  <2> QED
    BY <2>1
<1>4. \A k \in 1 .. Len(p) : p[k] = r[k]
  BY <1>1, <1>2, <1>3
<1>5. p = r
  BY <1>3, <1>4, SeqEqual DEF Paths
<1> QED
  BY <1>1, <1>2, <1>5

(* The path from a node to one below it. *)
LEMMA PathBelow ==
  ASSUME NEW p \in Paths, NEW i \in Nat
  PROVE  /\ p \o <<>> = p
         /\ SubSeq(p, Len(p) + 1, Len(p)) = <<>>
         /\ SubSeq(p \o <<i>>, Len(p) + 1, Len(p \o <<i>>)) = <<i>>
<1>1. Len(p) \in Nat /\ p \in Seq(Nat)
  BY DEF Paths
<1>2. p \o <<>> = p
  BY <1>1, ConcatEmptySeq
<1>3. SubSeq(p, Len(p) + 1, Len(p)) = <<>>
  BY <1>1, SubSeqEmpty
<1> DEFINE c == p \o <<i>>
<1>4. c \in Seq(Nat) /\ Len(c) = Len(p) + 1 /\ c[Len(p) + 1] = i
  BY ChildIs DEF Paths
<1> HIDE DEF c
<1> DEFINE n == Len(p) + 1
           s == SubSeq(c, n, Len(c))
<1>5. Len(c) = n /\ n \in Nat /\ n \in 1 .. Len(c) /\ c[n] = i
  BY <1>1, <1>4
<1> HIDE DEF n
<1>6. s \in Seq(Nat) /\ Len(s) = 1 /\ s[1] = i
  <2>1. \A k \in n .. n : c[k] \in Nat
    BY <1>5
  <2>2. /\ SubSeq(c, n, n) \in Seq(Nat)
        /\ Len(SubSeq(c, n, n)) = IF n <= n THEN n - n + 1 ELSE 0
        /\ \A k \in 1 .. n - n + 1 : SubSeq(c, n, n)[k] = c[n + k - 1]
    BY <1>5, <2>1, SubSeqProperties
  <2>3. n - n + 1 = 1 /\ n + 1 - 1 = n /\ n <= n
    BY <1>5
  <2> QED
    BY <1>5, <2>2, <2>3
<1>7. <<i>> \in Seq(Nat) /\ Len(<<i>>) = 1 /\ <<i>>[1] = i
  OBVIOUS
<1>8. s = <<i>>
  <2> HIDE DEF s
  <2> QED BY <1>6, <1>7, SeqEqual
<1> QED
  BY <1>2, <1>3, <1>8 DEF c, n

(* The tree of a whisker bisected: the children of its root partition it. *)
BisectedOK(new, w, b, children) ==
  /\ children \subseteq Nat
  /\ DOMAIN new.domain = {<<>>} \cup {<<i>> : i \in children}
  /\ DOMAIN new.leaf = {<<i>> : i \in children}
  /\ new.domain[<<>>] = w.domain
  /\ \A i \in children : /\ new.leaf[<<i>>] \in Whiskers(b)
                         /\ new.domain[<<i>>] = new.leaf[<<i>>].domain
  /\ \A q \in Limits(b) : contains(w.domain, q) =>
       \E i \in children : /\ contains(new.domain[<<i>>], q)
                           /\ \A j \in children : contains(new.domain[<<j>>], q) => j = i

(* WhiskerTree(whisker, true) makes such a tree. *)
LEMMA BisectedTreeIs ==
  ASSUME NEW b, NEW w \in Whiskers(b), NEW median \in [b -> Int]
  PROVE  \E children : BisectedOK(BisectedTree(w, median), w, b, children)
<1> DEFINE parts    == bisectRange(w.domain, median)
           ws       == bisectWhisker(w, median)
           children == {x.at : x \in ws}
           Whisker(x) == [at |-> x.at, whisker |-> [w EXCEPT !.domain = x.range]]
           Of(path) == (CHOOSE x \in ws : x.at = path[1]).whisker
           new      == BisectedTree(w, median)
<1>0. w.domain \in Ranges(b)
  BY DEF Whiskers
<1>1. PartsOK(parts, w.domain, b, 21 .. 25)
  BY <1>0, BisectParts
<1>2. ws = {Whisker(x) : x \in parts}
  BY DEF bisectWhisker
<1>3. /\ new.domain = [path \in {<<>>} \cup {<<x.at>> : x \in ws} |->
                         IF path = <<>> THEN w.domain ELSE Of(path).domain]
      /\ new.leaf = [path \in {<<x.at>> : x \in ws} |-> Of(path)]
  BY DEF BisectedTree
<1>4. {<<x.at>> : x \in ws} = {<<i>> : i \in children}
  <2> HIDE DEF ws
  <2> QED OBVIOUS
<1> HIDE DEF parts, ws, new, children
<1>5. \A x \in parts : /\ x.at \in Nat /\ x.range \in Ranges(b)
                       /\ Whisker(x).whisker \in Whiskers(b)
                       /\ Whisker(x).whisker.domain = x.range
  <2>1. \A x \in parts : x.at \in Nat /\ x.range \in Ranges(b)
    BY <1>1 DEF PartsOK
  <2> QED
    BY <2>1 DEF Whiskers
<1>6. \A x \in parts : x.at \in children /\ Of(<<x.at>>) = Whisker(x).whisker
  <2> SUFFICES ASSUME NEW x \in parts
               PROVE  x.at \in children /\ Of(<<x.at>>) = Whisker(x).whisker
    OBVIOUS
  <2>1. Whisker(x) \in ws /\ Whisker(x).at = x.at
    BY <1>2
  <2>2. \A y \in ws : y.at = x.at => y = Whisker(x)
    <3>1. \A y \in ws : \E z \in parts : y = Whisker(z) /\ y.at = z.at
      BY <1>2
    <3>2. \A z \in parts : z.at = x.at => z = x
      BY <1>1 DEF PartsOK
    <3> HIDE DEF Whisker
    <3> QED
      BY <3>1, <3>2
  <2>3. <<x.at>>[1] = x.at
    OBVIOUS
  <2> HIDE DEF Whisker
  <2>4. (CHOOSE y \in ws : y.at = <<x.at>>[1]) = Whisker(x)
    BY <2>1, <2>2, <2>3
  <2> QED
    BY <2>1, <2>4 DEF children
<1>7. \A i \in children : \E x \in parts : i = x.at
  BY <1>2 DEF children
<1>8. children \subseteq Nat
  BY <1>5, <1>7
<1>9. ASSUME NEW x \in parts
      PROVE  /\ new.leaf[<<x.at>>] = Whisker(x).whisker
             /\ new.domain[<<x.at>>] = x.range
  <2>1. <<x.at>> # <<>> /\ x.at \in children
    BY <1>6
  <2>2. new.leaf[<<x.at>>] = Of(<<x.at>>) /\ new.domain[<<x.at>>] = Of(<<x.at>>).domain
    <3> HIDE DEF Of
    <3> QED BY <1>3, <1>4, <2>1
  <2> QED
    BY <1>5, <1>6, <2>2
<1>10. DOMAIN new.domain = {<<>>} \cup {<<i>> : i \in children}
       /\ DOMAIN new.leaf = {<<i>> : i \in children} /\ new.domain[<<>>] = w.domain
  BY <1>3, <1>4
<1>11. ASSUME NEW i \in children
       PROVE  new.leaf[<<i>>] \in Whiskers(b) /\ new.domain[<<i>>] = new.leaf[<<i>>].domain
  <2>1. PICK x \in parts : i = x.at
    BY <1>7
  <2> HIDE DEF Whisker
  <2> QED
    BY <1>5, <1>9, <2>1
<1>12. ASSUME NEW q \in Limits(b), contains(w.domain, q)
       PROVE  \E i \in children : /\ contains(new.domain[<<i>>], q)
                                  /\ \A j \in children : contains(new.domain[<<j>>], q) => j = i
  <2>1. q \in [b -> Int]
    BY WhiskerAssumption DEF Limits
  <2>2. PICK x \in parts : contains(x.range, q)
    BY <1>1, <1>12, <2>1 DEF PartsOK
  <2>3. \A y \in parts : contains(y.range, q) => y = x
    BY <1>1, <1>12, <2>1, <2>2 DEF PartsOK
  <2>4. x.at \in children /\ contains(new.domain[<<x.at>>], q)
    BY <1>6, <1>9, <2>2
  <2>5. \A j \in children : contains(new.domain[<<j>>], q) => j = x.at
    BY <1>7, <1>9, <2>3
  <2> QED
    BY <2>4, <2>5
<1>13. BisectedOK(new, w, b, children)
  BY <1>8, <1>10, <1>11, <1>12 DEF BisectedOK
<1> QED
  BY <1>13 DEF new

(* What putting such a tree in the place of a leaf makes of a tree. *)
Grown(t, path, new, children, r) ==
  LET added == {path \o <<i>> : i \in children}
  IN  /\ path \in Paths /\ added \subseteq Paths
      /\ DOMAIN r.domain = DOMAIN t.domain \cup added
      /\ DOMAIN r.leaf = (DOMAIN t.leaf \ {path}) \cup added
      /\ added \cap DOMAIN t.domain = {}
      /\ r.domain[path] = new.domain[<<>>]
      /\ \A p \in DOMAIN t.domain \ {path} : r.domain[p] = t.domain[p]
      /\ \A p \in DOMAIN t.leaf \ {path} : r.leaf[p] = t.leaf[p]
      /\ \A i \in children : /\ r.domain[path \o <<i>>] = new.domain[<<i>>]
                             /\ r.leaf[path \o <<i>>] = new.leaf[<<i>>]

(* Put does that. *)
LEMMA PutGrows ==
  ASSUME NEW t, NEW b, TreeOK(t, b), NEW path \in DOMAIN t.leaf, NEW new, NEW w, NEW children,
         BisectedOK(new, w, b, children)
  PROVE  Grown(t, path, new, children, Put(t, path, new))
<1> DEFINE r     == Put(t, path, new)
           added == {path \o <<i>> : i \in children}
<1>0. added = {path \o <<i>> : i \in children} /\ r = Put(t, path, new)
  OBVIOUS
<1> HIDE DEF r, added
<1> DEFINE Inside(p) == path \in Above(p)
           Rest(p) == SubSeq(p, Len(path) + 1, Len(p))
           nodes   == (DOMAIN t.domain \ {path}) \cup {path \o p : p \in DOMAIN new.domain}
           leaves  == (DOMAIN t.leaf \ {path}) \cup {path \o p : p \in DOMAIN new.leaf}
<1>1. /\ path \in Paths /\ path \in DOMAIN t.domain /\ DOMAIN t.domain \subseteq Paths
      /\ DOMAIN t.leaf \subseteq DOMAIN t.domain
      /\ \A p \in DOMAIN t.domain : Above(p) \subseteq DOMAIN t.domain
      /\ \A i \in Nat : path \o <<i>> \notin DOMAIN t.domain
  BY DEF TreeOK, NodesOK, LeavesOK
<1>2. children \subseteq Nat
  BY DEF BisectedOK
<1>3. added \subseteq Paths /\ added \cap DOMAIN t.domain = {}
  <2>1. \A i \in children : path \o <<i>> \in Paths /\ path \o <<i>> \notin DOMAIN t.domain
    BY <1>1, <1>2, ChildIs
  <2> QED
    BY <1>0, <2>1
<1>4. /\ r.domain = [p \in nodes |-> IF Inside(p) THEN new.domain[Rest(p)] ELSE t.domain[p]]
      /\ r.leaf = [p \in leaves |-> IF Inside(p) THEN new.leaf[Rest(p)] ELSE t.leaf[p]]
  BY <1>0 DEF Put
<1>5. path \o <<>> = path /\ Rest(path) = <<>> /\ \A i \in Nat : Rest(path \o <<i>>) = <<i>>
  BY <1>1, PathBelow
<1>6. Inside(path) /\ \A i \in Nat : Inside(path \o <<i>>)
  BY <1>1, AboveItself, AboveChild
<1>7. \A p \in DOMAIN t.domain : Inside(p) => p = path
  BY <1>1, NextOnTheWay
<1> HIDE DEF Rest, Inside
<1>8. {path \o p : p \in DOMAIN new.leaf} = added
  <2>1. DOMAIN new.leaf = {<<i>> : i \in children}
    BY DEF BisectedOK
  <2> QED
    BY <1>0, <2>1
<1>9. {path \o p : p \in DOMAIN new.domain} = {path} \cup added
  <2>1. DOMAIN new.domain = {<<>>} \cup DOMAIN new.leaf
    BY DEF BisectedOK
  <2> QED
    BY <1>5, <1>8, <2>1
<1>10. DOMAIN r.domain = DOMAIN t.domain \cup added
  BY <1>1, <1>4, <1>9
<1>11. DOMAIN r.leaf = (DOMAIN t.leaf \ {path}) \cup added
  BY <1>4, <1>8
<1>12. r.domain[path] = new.domain[<<>>]
  BY <1>4, <1>5, <1>6, <1>9 DEF BisectedOK
<1>13. \A p \in DOMAIN t.domain \ {path} : r.domain[p] = t.domain[p]
  BY <1>4, <1>7
<1>14. \A p \in DOMAIN t.leaf \ {path} : r.leaf[p] = t.leaf[p]
  BY <1>1, <1>4, <1>7
<1>15. ASSUME NEW i \in children
       PROVE  /\ r.domain[path \o <<i>>] = new.domain[<<i>>]
              /\ r.leaf[path \o <<i>>] = new.leaf[<<i>>]
  <2>1. path \o <<i>> \in added
    BY <1>0
  <2>2. Inside(path \o <<i>>) /\ Rest(path \o <<i>>) = <<i>>
    BY <1>2, <1>5, <1>6
  <2>3. path \o <<i>> \in nodes /\ path \o <<i>> \in leaves
    BY <1>8, <1>9, <2>1
  <2> QED
    BY <1>4, <2>2, <2>3
<1>16. Grown(t, path, new, children, r)
  BY <1>0, <1>1, <1>3, <1>10, <1>11, <1>12, <1>13, <1>14, <1>15 DEF Grown
<1> QED
  BY <1>0, <1>16

(* The same ends, the same memories. *)
LEMMA SameMemories ==
  ASSUME NEW x, NEW y, SameBounds(x, y), NEW q
  PROVE  contains(x, q) <=> contains(y, q)
BY DEF SameBounds, contains

(* Where a leaf of the whisker's bounds is split, the tree stays in order. *)
LEMMA SplitKeepsTree ==
  ASSUME NEW t, NEW b, TreeOK(t, b), NEW path \in DOMAIN t.leaf, NEW w \in Whiskers(b),
         SameBounds(w.domain, t.leaf[path].domain), NEW median \in [b -> Int]
  PROVE  TreeOK(Put(t, path, BisectedTree(w, median)), b)
<1> DEFINE new == BisectedTree(w, median)
           r   == Put(t, path, new)
<1>1. PICK children : BisectedOK(new, w, b, children)
  BY BisectedTreeIs
<1> DEFINE added == {path \o <<i>> : i \in children}
<1>2. /\ path \in Paths /\ added \subseteq Paths
      /\ DOMAIN r.domain = DOMAIN t.domain \cup added
      /\ DOMAIN r.leaf = (DOMAIN t.leaf \ {path}) \cup added
      /\ added \cap DOMAIN t.domain = {}
      /\ r.domain[path] = w.domain
      /\ \A p \in DOMAIN t.domain \ {path} : r.domain[p] = t.domain[p]
      /\ \A p \in DOMAIN t.leaf \ {path} : r.leaf[p] = t.leaf[p]
      /\ \A i \in children : /\ r.domain[path \o <<i>>] = new.domain[<<i>>]
                             /\ r.leaf[path \o <<i>>] = new.leaf[<<i>>]
  <2>1. Grown(t, path, new, children, r)
    BY <1>1, PutGrows
  <2>2. new.domain[<<>>] = w.domain
    BY <1>1 DEF BisectedOK
  <2> HIDE DEF new, r
  <2> QED
    BY <2>1, <2>2 DEF Grown
<1> HIDE DEF r, new
<1>3. /\ children \subseteq Nat
      /\ \A i \in children : new.leaf[<<i>>] \in Whiskers(b)
      /\ \A i \in children : new.domain[<<i>>] = new.leaf[<<i>>].domain
  BY <1>1 DEF BisectedOK
<1>4. /\ NodesOK(t) /\ LeavesOK(t) /\ TreeTypes(t, b) /\ Partitions(t, b)
      /\ DOMAIN t.leaf \subseteq DOMAIN t.domain /\ DOMAIN t.domain \subseteq Paths
  BY DEF TreeOK, LeavesOK, NodesOK
<1>5. \A p \in DOMAIN t.domain : SameBounds(r.domain[p], t.domain[p])
  BY <1>2, <1>4 DEF LeavesOK, SameBounds
<1>6. NodesOK(r)
  <2>1. DOMAIN r.domain \subseteq Paths /\ <<>> \in DOMAIN r.domain
    BY <1>2, <1>4 DEF NodesOK
  <2>2. ASSUME NEW p \in DOMAIN r.domain PROVE Above(p) \subseteq DOMAIN r.domain
    <3>1. \A x \in DOMAIN t.domain : Above(x) \subseteq DOMAIN r.domain
      BY <1>2, <1>4 DEF NodesOK
    <3>2. \A i \in children : Above(path \o <<i>>) \subseteq DOMAIN r.domain
      <4>1. \A i \in children : Above(path \o <<i>>) = Above(path) \cup {path \o <<i>>}
        BY <1>2, <1>3, AboveChild
      <4>2. \A i \in children : path \o <<i>> \in added
        OBVIOUS
      <4> HIDE DEF added
      <4> QED
        BY <1>2, <1>4, <3>1, <4>1, <4>2
    <3> QED
      BY <1>2, <3>1, <3>2
  <2>3. PICK most \in Nat : \A p \in DOMAIN t.domain : Len(p) <= most
    BY <1>4 DEF NodesOK
  <2>4. \A p \in DOMAIN r.domain : Len(p) <= most + 1
    <3>1. \A p \in DOMAIN t.domain : Len(p) \in Nat /\ Len(p) <= most
      BY <1>4, <2>3 DEF Paths
    <3>2. \A i \in children : Len(path \o <<i>>) = Len(path) + 1
      BY <1>2, <1>3, ChildIs
    <3>3. \A p \in DOMAIN t.domain : Len(p) <= most + 1
      BY <2>3, <3>1
    <3>4. \A i \in children : Len(path \o <<i>>) <= most + 1
      <4>1. Len(path) + 1 <= most + 1
        BY <1>4, <3>1
      <4> QED
        BY <3>2, <4>1
    <3> QED
      BY <1>2, <3>3, <3>4
  <2>5. most + 1 \in Nat
    BY <2>3
  <2> QED
    BY <2>1, <2>2, <2>4, <2>5 DEF NodesOK
<1>7. LeavesOK(r)
  <2>1. DOMAIN r.leaf \subseteq DOMAIN r.domain
    BY <1>2, <1>4
  <2>2. ASSUME NEW p \in DOMAIN t.leaf, p # path
        PROVE  SameBounds(r.leaf[p].domain, r.domain[p])
               /\ \A i \in Nat : p \o <<i>> \notin DOMAIN r.domain
    <3>1. p \in DOMAIN t.domain /\ p \in Paths
      BY <1>4
    <3>2. SameBounds(r.leaf[p].domain, r.domain[p])
      BY <1>2, <1>4, <2>2, <3>1 DEF LeavesOK
    <3>3. ASSUME NEW i \in Nat, p \o <<i>> \in added PROVE FALSE
      <4>1. PICK j \in children : p \o <<i>> = path \o <<j>>
        BY <3>3
      <4>2. j \in Nat /\ path \in Paths /\ p \in Paths
        BY <1>2, <1>3, <3>1
      <4>3. p = path
        BY <4>1, <4>2, OneParent
      <4> QED
        BY <2>2, <4>3
    <3>4. \A i \in Nat : p \o <<i>> \notin DOMAIN t.domain
      BY <1>4 DEF LeavesOK
    <3> QED
      BY <1>2, <3>2, <3>3, <3>4
  <2>3. ASSUME NEW k \in children
        PROVE  /\ SameBounds(r.leaf[path \o <<k>>].domain, r.domain[path \o <<k>>])
               /\ \A i \in Nat : (path \o <<k>>) \o <<i>> \notin DOMAIN r.domain
    <3> DEFINE p == path \o <<k>>
    <3>1. p \in Paths /\ p \in added /\ Len(p) = Len(path) + 1
      BY <1>2, <1>3, ChildIs
    <3>2. SameBounds(r.leaf[p].domain, r.domain[p])
      BY <1>2, <1>3 DEF SameBounds
    <3> HIDE DEF p
    <3>3. ASSUME NEW i \in Nat, p \o <<i>> \in DOMAIN t.domain PROVE FALSE
      <4>1. p \in Above(p \o <<i>>)
        BY <3>1, AboveChild, AboveItself
      <4>2. p \in DOMAIN t.domain
        BY <1>4, <3>3, <4>1 DEF NodesOK
      <4> QED
        BY <1>2, <3>1, <4>2
    <3>4. ASSUME NEW i \in Nat, p \o <<i>> \in added PROVE FALSE
      <4>1. PICK j \in children : p \o <<i>> = path \o <<j>>
        BY <3>4
      <4>2. p = path
        BY <1>2, <1>3, <3>1, <4>1, OneParent
      <4> QED
        BY <1>2, <3>1, <4>2 DEF Paths
    <3>5. \A i \in Nat : p \o <<i>> \notin DOMAIN r.domain
      BY <1>2, <3>3, <3>4
    <3> QED
      BY <3>2, <3>5 DEF p
  <2> QED
    BY <1>2, <2>1, <2>2, <2>3 DEF LeavesOK
<1>8. TreeTypes(r, b)
  <2>1. w.domain \in Ranges(b) /\ \A x \in Whiskers(b) : x.domain \in Ranges(b)
    BY DEF Whiskers
  <2>2. \A i \in children : r.domain[path \o <<i>>] \in Ranges(b)
                            /\ r.leaf[path \o <<i>>] \in Whiskers(b)
    BY <1>2, <1>3, <2>1
  <2>3. \A p \in DOMAIN t.domain : r.domain[p] \in Ranges(b)
    BY <1>2, <1>4, <2>1 DEF TreeTypes
  <2>4. \A p \in DOMAIN t.leaf \ {path} : r.leaf[p] \in Whiskers(b)
    BY <1>2, <1>4 DEF TreeTypes
  <2> QED
    BY <1>2, <2>2, <2>3, <2>4 DEF TreeTypes
<1>9. Partitions(r, b)
  <2> SUFFICES ASSUME NEW q \in Limits(b)
               PROVE  /\ contains(r.domain[<<>>], q)
                      /\ \A p \in DOMAIN r.domain \ DOMAIN r.leaf :
                           contains(r.domain[p], q) =>
                             \E i \in Nat : /\ ChildHolds(r, p, i, q)
                                            /\ \A j \in Nat : ChildHolds(r, p, j, q) => j = i
    BY DEF Partitions
  <2>1. \A p \in DOMAIN t.domain : contains(r.domain[p], q) <=> contains(t.domain[p], q)
    BY <1>5, SameMemories
  <2>2. contains(r.domain[<<>>], q)
    BY <1>4, <2>1 DEF Partitions, NodesOK
  <2>3. ASSUME contains(r.domain[path], q)
        PROVE  \E i \in Nat : /\ ChildHolds(r, path, i, q)
                              /\ \A j \in Nat : ChildHolds(r, path, j, q) => j = i
    <3>1. PICK i \in children : /\ contains(new.domain[<<i>>], q)
                                /\ \A j \in children : contains(new.domain[<<j>>], q) => j = i
      BY <1>1, <1>2, <2>3 DEF BisectedOK
    <3>2. ASSUME NEW j \in Nat
          PROVE  ChildHolds(r, path, j, q) <=> j \in children /\ contains(new.domain[<<j>>], q)
      <4>1. path \o <<j>> \notin DOMAIN t.domain
        BY <1>4 DEF LeavesOK
      <4>2. path \o <<j>> \in added => j \in children
        <5> SUFFICES ASSUME NEW k \in children, path \o <<j>> = path \o <<k>> PROVE j \in children
          OBVIOUS
        <5> QED
          BY <1>2, <1>3, OneParent
      <4>3. j \in children => path \o <<j>> \in added /\ r.domain[path \o <<j>>] = new.domain[<<j>>]
        BY <1>2
      <4> HIDE DEF added
      <4> QED
        BY <1>2, <4>1, <4>2, <4>3 DEF ChildHolds
    <3> QED
      BY <1>3, <3>1, <3>2
  <2>4. ASSUME NEW p \in DOMAIN t.domain \ DOMAIN t.leaf, contains(r.domain[p], q)
        PROVE  \E i \in Nat : /\ ChildHolds(r, p, i, q)
                              /\ \A j \in Nat : ChildHolds(r, p, j, q) => j = i
    <3>1. p # path /\ p \in Paths
      BY <1>4
    <3>2. ASSUME NEW j \in Nat
          PROVE  ChildHolds(r, p, j, q) <=> ChildHolds(t, p, j, q)
      <4>1. p \o <<j>> \notin added
        <5> SUFFICES ASSUME NEW k \in children, p \o <<j>> = path \o <<k>> PROVE FALSE
          OBVIOUS
        <5>1. k \in Nat /\ path \in Paths /\ p \in Paths
          BY <1>2, <1>3, <3>1
        <5>2. p = path
          BY <5>1, OneParent
        <5> QED
          BY <3>1, <5>2
      <4> HIDE DEF added
      <4> QED
        BY <1>2, <2>1, <4>1 DEF ChildHolds
    <3>3. PICK i \in Nat : /\ ChildHolds(t, p, i, q)
                           /\ \A j \in Nat : ChildHolds(t, p, j, q) => j = i
      BY <1>4, <2>1, <2>4 DEF Partitions
    <3> QED
      BY <3>2, <3>3
  <2>5. \A p \in DOMAIN r.domain \ DOMAIN r.leaf : p = path \/ p \in DOMAIN t.domain \ DOMAIN t.leaf
    <3> HIDE DEF added
    <3> QED BY <1>2
  <2> QED
    BY <2>2, <2>3, <2>4, <2>5
<1> QED
  BY <1>6, <1>7, <1>8, <1>9 DEF TreeOK, r, new

(* Changes of the leaves that keep their bounds keep the tree in order. *)
LEMMA LeavesKeepTree ==
  ASSUME NEW t, NEW b, TreeOK(t, b), NEW r, r.domain = t.domain, DOMAIN r.leaf = DOMAIN t.leaf,
         \A p \in DOMAIN t.leaf : /\ r.leaf[p] \in Whiskers(b)
                                  /\ SameBounds(r.leaf[p].domain, t.leaf[p].domain)
  PROVE  TreeOK(r, b)
<1>1. NodesOK(r)
  BY DEF TreeOK, NodesOK
<1>2. LeavesOK(r)
  BY DEF TreeOK, LeavesOK, SameBounds
<1>3. TreeTypes(r, b)
  BY DEF TreeOK, TreeTypes
<1>4. Partitions(r, b)
  BY DEF TreeOK, Partitions, ChildHolds
<1> QED
  BY <1>1, <1>2, <1>3, <1>4 DEF TreeOK

(* replace(whisker): a leaf gets another whisker of its bounds. *)
LEMMA PutLeafKeepsTree ==
  ASSUME NEW t, NEW b, TreeOK(t, b), NEW path \in DOMAIN t.leaf, NEW w \in Whiskers(b),
         SameBounds(w.domain, t.leaf[path].domain)
  PROVE  TreeOK(PutLeaf(t, path, w), b)
<1> DEFINE r == PutLeaf(t, path, w)
<1>1. /\ r.domain = t.domain /\ r.leaf = [t.leaf EXCEPT ![path] = w]
      /\ DOMAIN r.leaf = DOMAIN t.leaf
  BY DEF PutLeaf
<1>2. \A p \in DOMAIN t.leaf : r.leaf[p] = IF p = path THEN w ELSE t.leaf[p]
  BY <1>1
<1> HIDE DEF r
<1>3. \A p \in DOMAIN t.leaf : /\ r.leaf[p] \in Whiskers(b)
                               /\ SameBounds(r.leaf[p].domain, t.leaf[p].domain)
  BY <1>2 DEF TreeOK, TreeTypes, SameBounds
<1>4. TreeOK(r, b)
  BY <1>1, <1>3, LeavesKeepTree
<1> QED
  BY <1>4 DEF r

(* The tree of the default whisker. *)
LEMMA DefaultTreeOK ==
  ASSUME NEW b
  PROVE  TreeOK(DefaultTree(b), b)
<1> DEFINE t     == DefaultTree(b)
           range == NewRange([n \in b |-> 0], [n \in b |-> Limit])
           w     == NewWhisker(DefaultRule, range)
<1>1. /\ t.domain = [path \in {<<>>} |-> range] /\ t.leaf = [path \in {<<>>} |-> w]
  BY DEF DefaultTree
<1>2. range.lower = [n \in b |-> 0] /\ range.upper = [n \in b |-> Limit] /\ range \in Ranges(b)
  BY WhiskerAssumption DEF NewRange, Ranges
<1>3. w.domain = range /\ w \in Whiskers(b)
  <2>1. \A f \in RuleFields : Optimizer[f].default \in Nat
    BY WhiskerAssumption
  <2>2. DefaultRule \in [RuleFields -> Int]
    BY <2>1 DEF DefaultRule
  <2> HIDE DEF range
  <2> QED
    BY <1>2, <2>2 DEF NewWhisker, Whiskers
<1> HIDE DEF t, w
<1>4. /\ <<>> \in Paths /\ Above(<<>>) = {<<>>} /\ Len(<<>>) = 0
      /\ \A i \in Nat : <<>> \o <<i>> # <<>>
  <2>1. <<>> \in Paths /\ Len(<<>>) = 0
    BY EmptySeq DEF Paths
  <2>2. \A i \in Nat : Len(<<>> \o <<i>>) = Len(<<>>) + 1
    BY <2>1, ChildIs
  <2> QED
    BY <2>1, <2>2, AboveItself
<1>5. NodesOK(t)
  BY <1>1, <1>4 DEF NodesOK
<1>6. LeavesOK(t)
  BY <1>1, <1>3, <1>4 DEF LeavesOK, SameBounds
<1>7. TreeTypes(t, b)
  BY <1>1, <1>2, <1>3 DEF TreeTypes
<1>8. Partitions(t, b)
  <2>1. \A q \in Limits(b) : contains(range, q)
    <3> HIDE DEF range
    <3> QED BY <1>2, WhiskerAssumption DEF contains, Limits
  <2> QED
    BY <1>1, <2>1 DEF Partitions
<1> QED
  BY <1>5, <1>6, <1>7, <1>8 DEF TreeOK, t

(* A search that finds something finds a leaf. *)
LEMMA FoundIsLeaf ==
  ASSUME NEW t, NEW q, whisker(t, q).is = "found"
  PROVE  whisker(t, q).path \in DOMAIN t.leaf
<1> DEFINE holding == Holding(t, q)
           visited == {path \in holding : \A other \in holding : ~Earlier(other, path)}
           leaves  == visited \cap DOMAIN t.leaf
<1>1. whisker(t, q) = IF holding = {} THEN None ELSE IF leaves = {} THEN Abort
                      ELSE [is |-> "found", path |-> CHOOSE path \in leaves : TRUE]
  BY DEF whisker
<1>2. leaves # {} /\ whisker(t, q).path = CHOOSE path \in leaves : TRUE
  <2> HIDE DEF leaves, holding
  <2> QED BY <1>1 DEF None, Abort
<1> QED
  BY <1>2

(* So does the search of replace, and what operator== compares agrees. *)
LEMMA ReplacedIsLeaf ==
  ASSUME NEW t, NEW domain, replaced(t, domain).is = "found"
  PROVE  /\ replaced(t, domain).path \in DOMAIN t.leaf
         /\ SameRange(domain, t.leaf[replaced(t, domain).path].domain)
<1> DEFINE found == whisker(t, range_median(domain))
<1>1. replaced(t, domain) = IF found.is = "found" /\ ~SameRange(domain, t.leaf[found.path].domain)
                            THEN Abort ELSE found
  BY DEF replaced
<1>2. Abort.is # "found"
  BY DEF Abort
<1>3. found.is = "found" => found.path \in DOMAIN t.leaf
  BY FoundIsLeaf
<1> HIDE DEF found
<1> QED
  BY <1>1, <1>2, <1>3

(* A whisker with another count of uses, and with a lookup tracked. *)
LEMMA UsedWhisker ==
  ASSUME NEW b, NEW w \in Whiskers(b), NEW q \in Limits(b), NEW r,
         r \in {track(w.domain, q), w.domain},
         NEW v, v = [w EXCEPT !.domain = [r EXCEPT !.count = @ + 1]]
  PROVE  v \in Whiskers(b) /\ SameBounds(v.domain, w.domain)
<1>1. w.domain \in Ranges(b)
  BY DEF Whiskers
<1>2. \A n \in b : q[n] \in Int
  BY WhiskerAssumption DEF Limits
<1>3. track(w.domain, q) \in Ranges(b) /\ SameBounds(track(w.domain, q), w.domain)
  <2>1. DOMAIN q = b
    BY DEF Limits
  <2>2. [n \in b |-> w.domain.seen[n] \cup {q[n]}] \in [b -> SUBSET Int]
    BY <1>1, <1>2 DEF Ranges
  <2> QED
    BY <1>1, <2>1, <2>2 DEF track, Ranges, SameBounds
<1>4. r \in Ranges(b) /\ SameBounds(r, w.domain)
  BY <1>1, <1>3 DEF SameBounds
<1>5. [r EXCEPT !.count = @ + 1] \in Ranges(b)
      /\ SameBounds([r EXCEPT !.count = @ + 1], w.domain)
  BY <1>4 DEF Ranges, SameBounds
<1> QED
  BY <1>5 DEF Whiskers

(* The improvements of a whisker are whiskers of its range. *)
LEMMA ImprovedWhisker ==
  ASSUME NEW b, NEW w \in Whiskers(b), NEW v \in next_generation(w)
  PROVE  v \in Whiskers(b) /\ v.domain = w.domain
<1>1. \A f \in RuleFields : w.rule[f] \in Int /\ Optimizer[f].changes \subseteq Nat
  BY WhiskerAssumption DEF Whiskers
<1>2. \A f \in RuleFields : alternatives(f, w.rule[f]) \subseteq Int
  BY <1>1 DEF alternatives
<1>3. PICK r \in [RuleFields -> UNION {alternatives(f, w.rule[f]) : f \in RuleFields}] :
        v = [w EXCEPT !.generation = @ + 1, !.rule = r]
  BY DEF next_generation
<1>4. r \in [RuleFields -> Int]
  BY <1>2, <1>3
<1>5. w.generation + 1 \in Int
  BY DEF Whiskers
<1>6. v = [w EXCEPT !.generation = w.generation + 1, !.rule = r]
  BY <1>3
<1> DEFINE next == w.generation + 1
<1> HIDE DEF next
<1>7. v = [generation |-> next, rule |-> r, domain |-> w.domain]
  BY <1>6 DEF Whiskers, next
<1>8. w.domain \in Ranges(b) /\ next \in Int
  BY <1>5 DEF Whiskers, next
<1> QED
  BY <1>4, <1>7, <1>8 DEF Whiskers

(* The medians a range may be bisected at. *)
LEMMA MediansAreNumbers ==
  ASSUME NEW b, NEW w \in Whiskers(b),
         NEW median \in [b -> UNION {Medians(w.domain, n) : n \in b}]
  PROVE  median \in [b -> Int]
<1>1. \A n \in b : w.domain.seen[n] \subseteq Int
  BY DEF Whiskers, Ranges
<1>2. \A n \in b : Medians(w.domain, n) \subseteq Int
  BY <1>1 DEF Medians
<1> QED
  BY <1>2

(* The invariant: as long as every leaf replaced had the bounds of the     *)
(* whisker replace was called for, the tree is in order.                   *)
TreeInv ==
  /\ build \in Builds
  /\ exact \in BOOLEAN
  /\ exact => TreeOK(tree, build)

(* Training starts with a tree in order. *)
LEMMA TreeInit == TrainingInit => TreeInv
BY DefaultTreeOK DEF TrainingInit, TreeInv

(* The memories looked up are within the limits. *)
LEMMA QueriesInLimits == Queries(build) \subseteq Limits(build)
BY TrainingAssumption, WhiskerAssumption DEF Queries, Limits

(* A lookup counts and tracks, and moves no bound. *)
LEMMA LookupKeepsTree ==
  ASSUME TreeInv, NEW q \in Queries(build), use_whisker(q)
  PROVE  TreeInv'
<1>1. UNCHANGED <<build, exact>>
  BY DEF use_whisker
<1>2. ASSUME exact PROVE TreeOK(tree', build)
  <2> DEFINE found == whisker(tree, q)
             w     == tree.leaf[found.path]
             r     == IF InTraining THEN track(w.domain, q) ELSE w.domain
             v     == [w EXCEPT !.domain = [r EXCEPT !.count = @ + 1]]
  <2>1. TreeOK(tree, build) /\ q \in Limits(build)
    BY <1>2, QueriesInLimits DEF TreeInv
  <2>2. found.is = "found" /\ found.path \in DOMAIN tree.leaf
    BY <2>1, OneLeafHolds
  <2>3. w \in Whiskers(build)
    BY <2>1, <2>2 DEF TreeOK, TreeTypes
  <2>4. tree' = PutLeaf(tree, found.path, v)
    BY <2>2 DEF use_whisker
  <2> HIDE DEF found
  <2>5. r \in {track(w.domain, q), w.domain}
    OBVIOUS
  <2> HIDE DEF w, r
  <2>6. v \in Whiskers(build) /\ SameBounds(v.domain, w.domain)
    BY <2>1, <2>3, <2>5, UsedWhisker
  <2> HIDE DEF v
  <2>7. TreeOK(PutLeaf(tree, found.path, v), build)
    BY <2>1, <2>2, <2>6, PutLeafKeepsTree DEF w
  <2> QED
    BY <2>4, <2>7
<1> QED
  BY <1>1, <1>2 DEF TreeInv

(* An improvement keeps the range of its whisker. *)
LEMMA ImproveKeepsTree ==
  ASSUME TreeInv, NEW g, Improve(g)
  PROVE  TreeInv'
<1>1. PICK path \in most_used(tree, g) :
        LET w     == tree.leaf[path]
            found == replaced(tree, w.domain)
        IN  IF \A f \in RuleFields : eligible_value(f, w.rule[f])
             THEN /\ w.generation < MaxGeneration
                  /\ \E new \in next_generation(w) :
                       Replace(w, found, PutLeaf(tree, found.path, new))
             ELSE /\ status' = "aborted"
                  /\ UNCHANGED <<build, tree, steps, uses, through, exact>>
  BY DEF Improve
<1> DEFINE w     == tree.leaf[path]
           found == replaced(tree, w.domain)
<1>2. CASE UNCHANGED <<build, tree, exact>>
  BY <1>2 DEF TreeInv
<1>3. ASSUME NEW new \in next_generation(w), Replace(w, found, PutLeaf(tree, found.path, new))
      PROVE  TreeInv'
  <2>1. /\ build' = build /\ exact' \in BOOLEAN
        /\ tree' = IF found.is = "found" THEN PutLeaf(tree, found.path, new) ELSE tree
        /\ exact' => exact /\ (found.is = "found" =>
                                SameBounds(w.domain, tree.leaf[found.path].domain))
    BY <1>3 DEF Replace, TreeInv
  <2>2. found.is = "found" => found.path \in DOMAIN tree.leaf
    BY ReplacedIsLeaf
  <2> HIDE DEF found
  <2>3. ASSUME exact' PROVE TreeOK(tree', build)
    <3>1. TreeOK(tree, build)
      BY <2>1, <2>3 DEF TreeInv
    <3>2. w \in Whiskers(build)
      BY <3>1 DEF TreeOK, TreeTypes, most_used
    <3> HIDE DEF w
    <3>3. new \in Whiskers(build) /\ new.domain = w.domain
      BY <1>3, <3>2, ImprovedWhisker
    <3>4. found.is = "found" => TreeOK(PutLeaf(tree, found.path, new), build)
      BY <2>1, <2>2, <2>3, <3>1, <3>3, PutLeafKeepsTree
    <3> QED
      BY <2>1, <3>1, <3>4
  <2> QED
    BY <2>1, <2>3 DEF TreeInv
<1> QED
  BY <1>1, <1>2, <1>3

(* A split puts the bisected tree of a whisker in its leaf. *)
LEMMA SplitKeepsInv ==
  ASSUME TreeInv, NEW g, Split(g)
  PROVE  TreeInv'
<1>1. PICK path \in most_used(tree, g) :
        LET w     == tree.leaf[path]
            found == replaced(tree, w.domain)
        IN  \E median \in [build -> UNION {Medians(w.domain, n) : n \in build}] :
              Replace(w, found, Put(tree, found.path, BisectedTree(w, median)))
  BY DEF Split
<1> DEFINE w     == tree.leaf[path]
           found == replaced(tree, w.domain)
<1>2. PICK median \in [build -> UNION {Medians(w.domain, n) : n \in build}] :
        Replace(w, found, Put(tree, found.path, BisectedTree(w, median)))
  BY <1>1
<1> DEFINE new == Put(tree, found.path, BisectedTree(w, median))
<1>3. /\ build' = build /\ exact' \in BOOLEAN
      /\ tree' = IF found.is = "found" THEN new ELSE tree
      /\ exact' => exact /\ (found.is = "found" =>
                              SameBounds(w.domain, tree.leaf[found.path].domain))
  BY <1>2 DEF Replace, TreeInv
<1>4. found.is = "found" => found.path \in DOMAIN tree.leaf
  BY ReplacedIsLeaf
<1> HIDE DEF found
<1>5. ASSUME exact' PROVE TreeOK(tree', build)
  <2>1. TreeOK(tree, build)
    BY <1>3, <1>5 DEF TreeInv
  <2>2. w \in Whiskers(build)
    BY <2>1 DEF TreeOK, TreeTypes, most_used
  <2>3. median \in [build -> Int]
    BY <1>2, <2>2, MediansAreNumbers
  <2> HIDE DEF w
  <2>4. found.is = "found" => TreeOK(new, build)
    BY <1>3, <1>4, <1>5, <2>1, <2>2, <2>3, SplitKeepsTree
  <2> HIDE DEF new
  <2> QED
    BY <1>3, <2>1, <2>4
<1> QED
  BY <1>3, <1>5 DEF TreeInv

(* A whisker with its count of uses reset. *)
LEMMA ResetWhisker ==
  ASSUME NEW b, NEW w \in Whiskers(b)
  PROVE  /\ [w EXCEPT !.domain.count = 0] \in Whiskers(b)
         /\ SameBounds([w EXCEPT !.domain.count = 0].domain, w.domain)
<1> DEFINE domain == [w.domain EXCEPT !.count = 0]
<1>1. w.domain \in Ranges(b)
  BY DEF Whiskers
<1>2. domain \in Ranges(b) /\ SameBounds(domain, w.domain)
  BY <1>1 DEF Ranges, SameBounds
<1>3. [w EXCEPT !.domain.count = 0] = [w EXCEPT !.domain = domain]
  OBVIOUS
<1> HIDE DEF domain
<1>4. /\ [w EXCEPT !.domain = domain] \in Whiskers(b)
      /\ [w EXCEPT !.domain = domain].domain = domain
  BY <1>2 DEF Whiskers
<1> QED
  BY <1>2, <1>3, <1>4 DEF SameBounds

(* reset_counts, reset_generation and promote change no range. *)
LEMMA SweepKeepsTree ==
  ASSUME NEW t, NEW b, TreeOK(t, b), NEW g \in Int
  PROVE  /\ TreeOK(reset_counts(t), b)
         /\ TreeOK(reset_generation(t), b)
         /\ TreeOK(promote(t, g), b)
<1>0. \A p \in DOMAIN t.leaf : t.leaf[p] \in Whiskers(b)
  BY DEF TreeOK, TreeTypes
<1>1. TreeOK(reset_counts(t), b)
  <2> DEFINE r == reset_counts(t)
  <2>1. /\ r.domain = t.domain /\ DOMAIN r.leaf = DOMAIN t.leaf
        /\ \A p \in DOMAIN t.leaf : r.leaf[p] = [t.leaf[p] EXCEPT !.domain.count = 0]
    BY DEF reset_counts
  <2> HIDE DEF r
  <2>2. \A p \in DOMAIN t.leaf : /\ r.leaf[p] \in Whiskers(b)
                                 /\ SameBounds(r.leaf[p].domain, t.leaf[p].domain)
    <3> SUFFICES ASSUME NEW p \in DOMAIN t.leaf
                 PROVE  r.leaf[p] \in Whiskers(b) /\ SameBounds(r.leaf[p].domain, t.leaf[p].domain)
      OBVIOUS
    <3> DEFINE w == t.leaf[p]
    <3>1. w \in Whiskers(b) /\ r.leaf[p] = [w EXCEPT !.domain.count = 0]
      BY <1>0, <2>1
    <3> HIDE DEF w
    <3>2. r.leaf[p] \in Whiskers(b) /\ SameBounds(r.leaf[p].domain, w.domain)
      BY <3>1, ResetWhisker
    <3> QED
      BY <3>2 DEF w
  <2>3. TreeOK(r, b)
    BY <2>1, <2>2, LeavesKeepTree
  <2> QED
    BY <2>3 DEF r
<1>2. TreeOK(reset_generation(t), b)
  <2> DEFINE r == reset_generation(t)
  <2>1. /\ r.domain = t.domain /\ DOMAIN r.leaf = DOMAIN t.leaf
        /\ \A p \in DOMAIN t.leaf : r.leaf[p] = [t.leaf[p] EXCEPT !.generation = 0]
    BY DEF reset_generation
  <2> HIDE DEF r
  <2>2. \A p \in DOMAIN t.leaf : /\ r.leaf[p] \in Whiskers(b)
                                 /\ SameBounds(r.leaf[p].domain, t.leaf[p].domain)
    <3> SUFFICES ASSUME NEW p \in DOMAIN t.leaf
                 PROVE  r.leaf[p] \in Whiskers(b) /\ SameBounds(r.leaf[p].domain, t.leaf[p].domain)
      OBVIOUS
    <3> DEFINE w == t.leaf[p]
    <3>1. w \in Whiskers(b) /\ r.leaf[p] = [w EXCEPT !.generation = 0]
      BY <1>0, <2>1
    <3> HIDE DEF w
    <3>2. r.leaf[p] \in Whiskers(b) /\ SameBounds(r.leaf[p].domain, w.domain)
      BY <3>1 DEF Whiskers, SameBounds
    <3> QED
      BY <3>2 DEF w
  <2>3. TreeOK(r, b)
    BY <2>1, <2>2, LeavesKeepTree
  <2> QED
    BY <2>3 DEF r
<1>3. TreeOK(promote(t, g), b)
  <2> DEFINE r == promote(t, g)
  <2>1. /\ r.domain = t.domain /\ DOMAIN r.leaf = DOMAIN t.leaf
        /\ \A p \in DOMAIN t.leaf : r.leaf[p] =
             [t.leaf[p] EXCEPT !.generation = IF @ >= g THEN @ ELSE g]
    BY DEF promote
  <2> HIDE DEF r
  <2>2. \A p \in DOMAIN t.leaf : /\ r.leaf[p] \in Whiskers(b)
                                 /\ SameBounds(r.leaf[p].domain, t.leaf[p].domain)
    BY <1>0, <2>1 DEF Whiskers, SameBounds
  <2>3. TreeOK(r, b)
    BY <2>1, <2>2, LeavesKeepTree
  <2> QED
    BY <2>3 DEF r
<1> QED
  BY <1>1, <1>2, <1>3

(* The invariant is inductive. *)
LEMMA TreeStep == TreeInv /\ [TrainingNext]_trainingVars => TreeInv'
<1> SUFFICES ASSUME TreeInv, [TrainingNext]_trainingVars PROVE TreeInv'
  OBVIOUS
<1>1. ASSUME NEW g, Improve(g) PROVE TreeInv'
  BY <1>1, ImproveKeepsTree
<1>2. ASSUME NEW g, Split(g) PROVE TreeInv'
  BY <1>2, SplitKeepsInv
<1>3. ASSUME NEW q \in Queries(build), use_whisker(q) PROVE TreeInv'
  BY <1>3, LookupKeepsTree
<1>4. CASE ResetCounts
  <2>1. TreeOK(tree, build) => TreeOK(reset_counts(tree), build)
    BY SweepKeepsTree
  <2> QED
    BY <1>4, <2>1 DEF ResetCounts, TreeInv
<1>5. CASE ResetGeneration
  <2>1. TreeOK(tree, build) => TreeOK(reset_generation(tree), build)
    BY SweepKeepsTree
  <2> QED
    BY <1>5, <2>1 DEF ResetGeneration, TreeInv
<1>6. ASSUME NEW g \in 0 .. MaxGeneration, Promote(g) PROVE TreeInv'
  <2>1. TreeOK(tree, build) => TreeOK(promote(tree, g), build)
    BY SweepKeepsTree
  <2> QED
    BY <1>6, <2>1 DEF Promote, TreeInv
<1>7. CASE UNCHANGED trainingVars
  BY <1>7 DEF TreeInv, trainingVars
<1> QED
  BY <1>1, <1>2, <1>3, <1>4, <1>5, <1>6, <1>7 DEF TrainingNext, Replacing, Keeping

(* Whatever is looked up, improved, split and promoted, in whatever build  *)
(* and order: the children of a node partition it, the leaves are the      *)
(* nodes without children, and their whiskers have the ranges of the nodes *)
(* they are at (WhiskerTree::replace, the constructor that bisects).       *)
THEOREM TreeInOrder == TrainingSpec => [](exact => TreeOK(tree, build))
<1>1. TreeInv => (exact => TreeOK(tree, build))
  BY DEF TreeInv
<1> QED
  BY <1>1, TreeInit, TreeStep, PTL DEF TrainingSpec

(* use_whisker reaches neither exit(1) nor assert(false) of whiskertree.cc *)
(* in training, at whatever medians the ranges were bisected.              *)
THEOREM LookupFindsAlways == TrainingSpec => []LookupFinds
<1>1. TreeInv => LookupFinds
  BY OneLeafHolds, QueriesInLimits DEF TreeInv, LookupFinds
<1> QED
  BY <1>1, TreeInit, TreeStep, PTL DEF TrainingSpec

(* The rule a memory gets does not depend on the order in which            *)
(* WhiskerTree::whisker tries the children: one leaf holds it.             *)
THEOREM OneLeafEachAlways == TrainingSpec => []OneLeafEach
<1>1. TreeInv => OneLeafEach
  BY OneLeafHolds, QueriesInLimits DEF TreeInv, OneLeafEach
<1> QED
  BY <1>1, TreeInit, TreeStep, PTL DEF TrainingSpec

-----------------------------------------------------------------------------
(* Controllers. *)

(* Acknowledgements were sent in a flow already begun, in the order of     *)
(* their numbers.                                                          *)
EchoesKnown ==
  \A e \in echoes :
    /\ e.flow <= flow_id /\ e.sent >= 1 /\ e.received <= receiver_clock
    /\ Accepted(e) => e.seq < seq_num /\ e.sent <= now

EchoesOrdered ==
  \A e, f \in echoes : Accepted(e) /\ Accepted(f) /\ e.seq < f.seq =>
    e.sent <= f.sent /\ e.received <= f.received

(* What a memory refers to is a packet of this flow that is not after the  *)
(* largest one received.                                                   *)
SoundIn(mem, acks, flow) ==
  /\ mem \in Memory
  /\ mem.rec_send_ewma >= 0 /\ mem.rec_rec_ewma >= 0
  /\ mem.last_tick_sent # 0 =>
       /\ mem.min_rtt > 0
       /\ \E e \in acks : /\ e.flow = flow /\ e.seq <= mem.largest_ack
                         /\ e.sent = mem.last_tick_sent
                         /\ e.received = mem.last_receiver_timestamp

Sound(mem) == SoundIn(mem, echoes, flow_id)

RemyInv ==
  /\ EchoesKnown /\ EchoesOrdered /\ now >= 1
  /\ cctype = "remy" => Sound(cc.memory) /\ outcome # "aborted"
  /\ SentTimesAgree

(* A threshold of 1 is only in use during slow start, which ends with it,  *)
(* or while fewer than three duplicates are counted.                       *)
TcpInv ==
  cctype = "tcp" =>
    /\ cc.the_window >= 2 /\ cc.ssthresh >= 1
    /\ cc.dup_count >= 3 => cc.slow_start \/ cc.ssthresh >= 2

IInv == CCTypeOK /\ RemyInv /\ TcpInv

(* The ratio of two positive RTTs, the first not the smaller. *)
LEMMA RatioAtLeastOne ==
  ASSUME NEW a \in Nat, NEW b \in Nat, b > 0, a >= b
  PROVE  a \div b \in Int /\ a \div b >= 1
<1>1. a \div b \in Int
  BY SMT
<1>2. a \div b >= 1
  BY SMT
<1> QED
  BY <1>1, <1>2

(* The fields Referring and Averaging leave alone and set. *)
LEMMA ReferringFields ==
  ASSUME NEW mem \in Memory, NEW p, p.tick_sent \in Int, p.receiver_timestamp \in Int
  PROVE  /\ Referring(mem, p) \in Memory
         /\ Referring(mem, p).last_tick_sent = p.tick_sent
         /\ Referring(mem, p).last_receiver_timestamp = p.receiver_timestamp
         /\ Referring(mem, p).rec_send_ewma = mem.rec_send_ewma
         /\ Referring(mem, p).rec_rec_ewma = mem.rec_rec_ewma
         /\ Referring(mem, p).min_rtt = mem.min_rtt
         /\ Referring(mem, p).largest_ack = mem.largest_ack
BY DEF Referring, Memory

LEMMA AveragingFields ==
  ASSUME NEW mem \in Memory, NEW s \in Int, NEW r \in Int
  PROVE  /\ Averaging(mem, s, r) \in Memory
         /\ Averaging(mem, s, r).rec_send_ewma = s
         /\ Averaging(mem, s, r).rec_rec_ewma = r
         /\ Averaging(mem, s, r).last_tick_sent = mem.last_tick_sent
         /\ Averaging(mem, s, r).last_receiver_timestamp = mem.last_receiver_timestamp
         /\ Averaging(mem, s, r).min_rtt = mem.min_rtt
         /\ Averaging(mem, s, r).largest_ack = mem.largest_ack
BY DEF Averaging, Memory

LEMMA EwmaNatural ==
  ASSUME NEW old \in Nat, NEW sample \in Nat, NEW v \in EwmaAfter(old, sample)
  PROVE  v \in Nat
BY DEF EwmaAfter

(* An acknowledgement of this flow keeps a memory sound, and the assertion *)
(* on its ratio holds.                                                     *)
LEMMA MemoryStep ==
  ASSUME EchoesKnown, EchoesOrdered, echoes \subseteq Echo, now \in Nat,
         NEW e \in Arriving, Accepted(e), NEW mem, Sound(mem), NEW p,
         p = [seq_num |-> e.seq, tick_sent |-> e.sent, tick_received |-> now,
              receiver_timestamp |-> e.received],
         NEW m \in MemoriesAfter(mem, p)
  PROVE  Sound(m) /\ AssertionHolds(mem, m)
<1> DEFINE rtt == now - e.sent
<1>1. e \in echoes /\ e \in Echo /\ rtt \in Nat /\ rtt > 0 /\ e.sent >= 1
  BY DEF Arriving, Accepted, EchoesKnown, Echo
<1>2. CASE mem.last_tick_sent = 0
  <2> DEFINE r == Referring(mem, p)
  <2>1. m = [r EXCEPT !.min_rtt = rtt,
               !.largest_ack = IF e.seq > @ THEN e.seq ELSE @]
    BY <1>2 DEF MemoriesAfter, First
  <2>3. /\ r \in Memory /\ r.last_tick_sent = e.sent /\ r.last_receiver_timestamp = e.received
        /\ r.rec_send_ewma = mem.rec_send_ewma /\ r.rec_rec_ewma = mem.rec_rec_ewma
    BY <1>1, ReferringFields DEF Sound, SoundIn, Accepted, Echo
  <2>2. m.last_tick_sent = e.sent /\ m.last_receiver_timestamp = e.received
        /\ m.min_rtt = rtt /\ m.largest_ack >= e.seq /\ m \in Memory
        /\ m.rec_send_ewma = mem.rec_send_ewma /\ m.rec_rec_ewma = mem.rec_rec_ewma
    <3> HIDE DEF r, rtt
    <3>1. rtt \in Int /\ e.seq \in Int /\ r.largest_ack \in Int
      BY <2>3, <1>1 DEF Memory, Echo
    <3>2. m \in Memory
      BY <2>1, <2>3, <3>1 DEF Memory
    <3>3. /\ m.last_tick_sent = r.last_tick_sent
          /\ m.last_receiver_timestamp = r.last_receiver_timestamp
          /\ m.rec_send_ewma = r.rec_send_ewma /\ m.rec_rec_ewma = r.rec_rec_ewma
          /\ m.min_rtt = rtt /\ m.largest_ack >= e.seq
      BY <2>1, <2>3, <3>1 DEF Memory
    <3> QED
      BY <2>3, <3>2, <3>3
  <2> QED
    BY <2>2, <1>1, <1>2 DEF Sound, SoundIn, Accepted, AssertionHolds, Echo
<1>3. CASE mem.last_tick_sent # 0
  <2>1. PICK b \in (IF GivesSample(mem, p) THEN Sampled(mem, p) ELSE {mem}) :
          m = WithRtt(b, p, rtt)
    BY <1>3 DEF MemoriesAfter
  <2>2. PICK f \in echoes : /\ Accepted(f) /\ f.seq <= mem.largest_ack
                            /\ f.sent = mem.last_tick_sent
                            /\ f.received = mem.last_receiver_timestamp
    BY <1>3 DEF Sound, SoundIn, Accepted
  <2>3. /\ b \in Memory /\ b.rec_send_ewma >= 0 /\ b.rec_rec_ewma >= 0
        /\ b.min_rtt = mem.min_rtt /\ b.largest_ack = mem.largest_ack
        /\ \/ b.last_tick_sent = mem.last_tick_sent
              /\ b.last_receiver_timestamp = mem.last_receiver_timestamp
           \/ b.last_tick_sent = e.sent /\ b.last_receiver_timestamp = e.received
    <3>1. CASE ~GivesSample(mem, p)
      BY <3>1, <2>1 DEF Sound, SoundIn, Accepted
    <3>2. CASE GivesSample(mem, p)
      <4>1. f.seq < e.seq
        BY <3>2, <2>2, <1>1 DEF GivesSample, Sound, SoundIn, Accepted, Memory, Echo
      <4>2. /\ e.sent - mem.last_tick_sent \in Nat
            /\ e.received - mem.last_receiver_timestamp \in Nat
        BY <4>1, <2>2, <1>1 DEF EchoesOrdered, Echo
      <4>3. PICK s \in EwmaAfter(mem.rec_send_ewma, p.tick_sent - mem.last_tick_sent),
                 r \in EwmaAfter(mem.rec_rec_ewma,
                                 p.receiver_timestamp - mem.last_receiver_timestamp) :
              b = Averaging(Referring(mem, p), s, r)
        BY <3>2, <2>1 DEF Sampled
      <4>4. s \in Nat /\ r \in Nat
        <5>1. mem.rec_send_ewma \in Nat /\ mem.rec_rec_ewma \in Nat
          BY DEF Sound, SoundIn, Accepted, Memory
        <5> QED
          BY <4>2, <5>1, EwmaNatural
      <4>5. p.tick_sent = e.sent /\ p.receiver_timestamp = e.received
            /\ p.tick_sent \in Int /\ p.receiver_timestamp \in Int /\ mem \in Memory
        BY <1>1 DEF Echo, Sound, SoundIn, Accepted
      <4>6. Referring(mem, p) \in Memory
        BY <4>5, ReferringFields
      <4>7. s \in Int /\ r \in Int
        BY <4>4
      <4> QED
        BY <4>3, <4>4, <4>5, <4>6, <4>7, ReferringFields, AveragingFields
    <3> QED
      BY <3>1, <3>2
  <2> DEFINE least == IF rtt < b.min_rtt THEN rtt ELSE b.min_rtt
  <2>4. least \in Nat /\ least > 0 /\ least <= rtt
    BY <2>3, <1>1, <1>3 DEF Sound, SoundIn, Accepted, Memory
  <2>5. rtt \div least \in Int /\ rtt \div least >= 1
    BY <2>4, <1>1, RatioAtLeastOne
  <2>6. m = [b EXCEPT !.min_rtt = least, !.rtt_ratio = rtt \div least,
                      !.largest_ack = IF e.seq > @ THEN e.seq ELSE @]
    BY <2>1, <2>4 DEF WithRtt
  <2>9. m \in Memory
    <3> DEFINE ratio == rtt \div least
    <3>1. ratio \in Int /\ least \in Int /\ e.seq \in Int /\ b.largest_ack \in Int
      BY <2>3, <2>4, <2>5, <1>1 DEF Memory, Echo
    <3>2. m = [b EXCEPT !.min_rtt = least, !.rtt_ratio = ratio,
                        !.largest_ack = IF e.seq > @ THEN e.seq ELSE @]
      BY <2>6
    <3> HIDE DEF least, ratio, rtt
    <3> QED
      BY <3>1, <3>2, <2>3 DEF Memory
  <2>7. /\ m \in Memory /\ m.rec_send_ewma >= 0 /\ m.rec_rec_ewma >= 0
        /\ m.min_rtt > 0 /\ m.rtt_ratio >= 1
        /\ m.largest_ack >= mem.largest_ack /\ m.largest_ack >= e.seq
        /\ m.last_tick_sent = b.last_tick_sent
        /\ m.last_receiver_timestamp = b.last_receiver_timestamp
    <3> HIDE DEF least, rtt
    <3> QED
      BY <2>3, <2>4, <2>5, <2>6, <2>9, <1>1 DEF Memory, Echo
  <2>8. f.seq <= m.largest_ack
    BY <2>2, <2>7 DEF Sound, SoundIn, Accepted, Memory, Echo
  <2> QED
    BY <2>2, <2>3, <2>7, <2>8, <1>1 DEF Sound, SoundIn, Accepted, AssertionHolds
<1> QED
  BY <1>2, <1>3

LEMMA WindowInRange ==
  ASSUME NEW rule \in TreeRules, NEW previous \in Nat
  PROVE  window(rule, previous, LargestWindow) \in 0 .. LargestWindow
<1>1. LargestWindow \in Nat /\ rule[31] \in Int /\ rule[32] \in Int
  BY ControllersAssumption
<1>2. previous * rule[32] + rule[31] \in Int
  BY <1>1
<1> QED
  BY <1>1, <1>2 DEF window
-----------------------------------------------------------------------------
(* DefaultCC *)

LEMMA HalfFloor ==
  ASSUME NEW w \in Nat
  PROVE  HalfOf(w) \in Nat /\ HalfOf(w) >= 2
<1>1. w \div 2 \in Nat
  BY SMT
<1> QED
  BY <1>1 DEF HalfOf

(* What the callbacks of DefaultCC rely on and keep. *)
Floored(c) ==
  /\ c \in Tcp
  /\ c.the_window >= 2 /\ c.ssthresh >= 1
  /\ c.dup_count >= 3 => c.slow_start \/ c.ssthresh >= 2

LEMMA ACKActionStep ==
  ASSUME NEW c \in Tcp, c.ssthresh >= 1, c.the_window >= 2 \/ (c.the_window >= 1 /\ c.slow_start),
         c.dup_count < 3, NEW d \in ACKAction(c)
  PROVE  Floored(d)
<1>1. CASE c.slow_start
  <2> DEFINE s == c.the_window + 1 < c.ssthresh
             w == c.the_window + 1
  <2>1. d = [c EXCEPT !.the_window = w, !.slow_start = s]
    BY <1>1 DEF ACKAction
  <2>2. s \in BOOLEAN /\ w \in Nat /\ w >= 2 /\ ~(c.dup_count >= 3)
    BY DEF Tcp
  <2> HIDE DEF s, w
  <2>3. d \in Tcp
    BY <2>1, <2>2, Zenon DEF Tcp
  <2>4. d.the_window = w /\ d.ssthresh = c.ssthresh /\ d.dup_count = c.dup_count
    BY <2>1 DEF Tcp
  <2> QED
    BY <2>2, <2>3, <2>4 DEF Floored
<1>2. CASE ~c.slow_start
  <2>1. d = c \/ d = [c EXCEPT !.the_window = @ + 1]
    BY <1>2 DEF ACKAction
  <2> QED
    BY <1>2, <2>1 DEF Floored, Tcp
<1> QED
  BY <1>1, <1>2 DEF Tcp

LEMMA TcpACKStep ==
  ASSUME NEW c, Floored(c), NEW ack \in Nat, NEW d \in TcpOnACK(c, ack)
  PROVE  Floored(d)
<1>1. CASE ack = c.last_ack
  <2> DEFINE b == [c EXCEPT !.dup_count = @ + 1]
  <2>1. /\ b \in Tcp /\ b.dup_count = c.dup_count + 1 /\ b.the_window = c.the_window
        /\ b.ssthresh = c.ssthresh /\ b.slow_start = c.slow_start
    BY DEF Floored, Tcp
  <2> HIDE DEF b
  <2>2. CASE b.dup_count = 3
    <3>1. d = DupACKAction(b)
      BY <1>1, <2>2 DEF TcpOnACK, b
    <3>2. HalfOf(b.the_window) \in Nat /\ HalfOf(b.the_window) >= 2
      <4>1. b.the_window \in Nat
        BY <2>1 DEF Tcp
      <4> QED
        BY <4>1, HalfFloor
    <3> DEFINE half == HalfOf(b.the_window)
               w    == half + 3
    <3>3. d = [b EXCEPT !.slow_start = FALSE, !.ssthresh = half, !.the_window = w]
      BY <3>1 DEF DupACKAction
    <3>4. half \in Nat /\ half >= 2 /\ w \in Nat /\ w >= 2
      BY <3>2
    <3> HIDE DEF half, w
    <3>5. d \in Tcp
      BY <2>1, <3>3, <3>4, Zenon DEF Tcp
    <3>6. d.the_window = w /\ d.ssthresh = half
      BY <2>1, <3>3, <3>4 DEF Tcp
    <3> QED
      BY <3>4, <3>5, <3>6 DEF Floored
  <2>3. CASE b.dup_count > 3
    <3>1. d = [b EXCEPT !.the_window = @ + 1]
      BY <1>1, <2>1, <2>3 DEF TcpOnACK, b, Floored, Tcp
    <3>2. c.dup_count >= 3
      BY <2>1, <2>3 DEF Floored, Tcp
    <3> QED
      BY <2>1, <3>1, <3>2 DEF Floored, Tcp
  <2>4. CASE b.dup_count < 3
    <3>1. d \in ACKAction(b)
      BY <1>1, <2>1, <2>4 DEF TcpOnACK, b, Floored, Tcp
    <3> QED
      BY <2>1, <2>4, <3>1, ACKActionStep DEF Floored
  <2> QED
    BY <2>1, <2>2, <2>3, <2>4 DEF Tcp
<1>2. CASE ack # c.last_ack
  <2> DEFINE w == IF c.dup_count >= 3 THEN c.ssthresh ELSE c.the_window
             b == [c EXCEPT !.last_ack = ack, !.dup_count = 1, !.the_window = w]
  <2>1. d \in ACKAction(b)
    BY <1>2 DEF TcpOnACK
  <2>2. w \in Nat /\ (w >= 2 \/ (w >= 1 /\ c.slow_start))
    BY DEF Floored, Tcp
  <2> HIDE DEF w
  <2>3. /\ b \in Tcp /\ b.dup_count = 1 /\ b.the_window = w
        /\ b.ssthresh = c.ssthresh /\ b.slow_start = c.slow_start
    BY <2>2 DEF Floored, Tcp
  <2> HIDE DEF b
  <2>4. b.ssthresh >= 1 /\ b.dup_count < 3
        /\ (b.the_window >= 2 \/ (b.the_window >= 1 /\ b.slow_start))
    BY <2>2, <2>3 DEF Floored
  <2> QED
    BY <2>1, <2>3, <2>4, ACKActionStep
<1> QED
  BY <1>1, <1>2

LEMMA TcpInitStep ==
  ASSUME NEW c, Floored(c)
  PROVE  Floored(TcpInit(c))
<1>1. TcpInit(c) \in Tcp
  BY DEF Floored, TcpInit, Tcp
<1>2. TcpInit(c).the_window = 2 /\ TcpInit(c).ssthresh = 1
  BY DEF Floored, TcpInit, Tcp
<1>3. TcpInit(c).slow_start
  BY DEF Floored, TcpInit, Tcp
<1> QED
  BY <1>1, <1>2, <1>3 DEF Floored

LEMMA TcpTimeoutStep ==
  ASSUME NEW c, Floored(c)
  PROVE  Floored(TcpOnTimeout(c))
<1>1. HalfOf(c.the_window) \in Nat /\ HalfOf(c.the_window) >= 2
  <2>1. c.the_window \in Nat
    BY DEF Floored, Tcp
  <2> QED
    BY <2>1, HalfFloor
<1>2. TcpOnTimeout(c) \in Tcp
  BY <1>1 DEF Floored, TcpOnTimeout, Tcp
<1>3. TcpOnTimeout(c).the_window = 2 /\ TcpOnTimeout(c).ssthresh >= 2
  BY <1>1 DEF Floored, TcpOnTimeout, Tcp
<1>4. TcpOnTimeout(c).slow_start
  BY DEF Floored, TcpOnTimeout, Tcp
<1> QED
  BY <1>2, <1>3, <1>4 DEF Floored, Tcp
-----------------------------------------------------------------------------
(* The steps *)

(* Where RemyCC's record is well-formed. *)
RemyOK(c) ==
  /\ DOMAIN c = {"the_window", "rat_window", "unacknowledged", "memory"}
  /\ c.the_window \in 0 .. LargestWindow \cup {2}
  /\ c.rat_window \in 0 .. LargestWindow
  /\ DOMAIN c.unacknowledged \subseteq Nat
  /\ \A s \in DOMAIN c.unacknowledged : c.unacknowledged[s] \in Nat
  /\ c.memory \in Memory

LEMMA EmptySound == Sound(EmptyMemory)
BY DEF Sound, SoundIn, Accepted, EmptyMemory, Memory

LEMMA RemyInitStep ==
  ASSUME NEW c, RemyOK(c)
  PROVE  /\ RemyOK(RemyInit(c))
         /\ RemyInit(c).unacknowledged = c.unacknowledged
         /\ RemyInit(c).memory = EmptyMemory
<1>1. LargestWindow \in Nat /\ EmptyMemory \in Memory
  BY ControllersAssumption DEF EmptyMemory, Memory
<1> QED
  BY <1>1 DEF RemyOK, RemyInit

LEMMA RemySentStep ==
  ASSUME NEW c, RemyOK(c), NEW seq \in Nat, NEW time \in Nat
  PROVE  LET d == RemyOnPktSent(c, seq, time)
         IN  /\ RemyOK(d) /\ d.memory = c.memory
             /\ \A s \in DOMAIN d.unacknowledged :
                  s # seq => s \in DOMAIN c.unacknowledged
                             /\ d.unacknowledged[s] = c.unacknowledged[s]
<1> DEFINE u == [s \in DOMAIN c.unacknowledged \cup {seq} |->
                   IF s = seq THEN time ELSE c.unacknowledged[s]]
           d == RemyOnPktSent(c, seq, time)
<1>1. d = [c EXCEPT !.unacknowledged = u]
  BY DEF RemyOnPktSent
<1>2. /\ DOMAIN u \subseteq Nat /\ \A s \in DOMAIN u : u[s] \in Nat
      /\ \A s \in DOMAIN u : s # seq => s \in DOMAIN c.unacknowledged
                                         /\ u[s] = c.unacknowledged[s]
  BY DEF RemyOK
<1> HIDE DEF u, d
<1>3. /\ DOMAIN d = DOMAIN c /\ d.unacknowledged = u /\ d.memory = c.memory
      /\ d.the_window = c.the_window /\ d.rat_window = c.rat_window
  BY <1>1 DEF RemyOK
<1>4. RemyOK(d)
  BY <1>2, <1>3 DEF RemyOK
<1> QED
  BY <1>2, <1>3, <1>4 DEF d

LEMMA RemyACKStep ==
  ASSUME NEW c, RemyOK(c), NEW seq, NEW mem \in Memory, NEW rule \in TreeRules
  PROVE  LET d == RemyOnACK(c, seq, mem, rule, LargestWindow)
         IN  /\ RemyOK(d) /\ d.memory = mem
             /\ \A s \in DOMAIN d.unacknowledged :
                  s \in DOMAIN c.unacknowledged
                  /\ d.unacknowledged[s] = c.unacknowledged[s]
<1> DEFINE w == window(rule, c.rat_window, LargestWindow)
           u == [s \in DOMAIN c.unacknowledged \ {seq} |-> c.unacknowledged[s]]
<1>1. LargestWindow \in Nat
  BY ControllersAssumption
<1>2. w \in 0 .. LargestWindow
  <2>1. c.rat_window \in Nat
    BY <1>1 DEF RemyOK
  <2> QED
    BY <2>1, WindowInRange
<1>3. /\ DOMAIN u \subseteq Nat /\ \A s \in DOMAIN u : u[s] \in Nat
      /\ \A s \in DOMAIN u : s \in DOMAIN c.unacknowledged /\ u[s] = c.unacknowledged[s]
  BY DEF RemyOK
<1>4. RemyOnACK(c, seq, mem, rule, LargestWindow)
        = [the_window |-> w, rat_window |-> w, unacknowledged |-> u, memory |-> mem]
  BY DEF RemyOnACK
<1> HIDE DEF w, u
<1> QED
  BY <1>2, <1>3, <1>4 DEF RemyOK

LEMMA TypeParts ==
  CCTypeOK <=> /\ cctype \in CCTypes
               /\ outcome \in {"running", "exited", "aborted"}
               /\ flow_id \in Nat /\ now \in Nat /\ seq_num \in Nat
               /\ largest_ack \in Int /\ receiver_clock \in Nat
               /\ echoes \subseteq Echo
               /\ cctype = "remy" => RemyOK(cc)
               /\ cctype = "tcp"  => cc \in Tcp
BY DEF CCTypeOK, RemyOK

LEMMA InitIInv == CCStart => IInv
<1> SUFFICES ASSUME CCStart PROVE IInv
  OBVIOUS
<1>1. CCTypes \subseteq {"remy", "tcp"} /\ LargestWindow \in Nat
  BY ControllersAssumption
<1>2. cctype = "remy" => RemyOK(cc) /\ Sound(cc.memory)
  <2>1. EmptyMemory \in Memory
    BY EmptySound DEF Sound, SoundIn, Accepted
  <2> QED
    BY <1>1, <2>1, EmptySound DEF CCStart, NewRemy, RemyOK
<1>3. cctype = "tcp" => cc \in Tcp
  <2>1. NewTcp \in Tcp
    BY DEF NewTcp, Tcp
  <2> QED
    BY <2>1 DEF CCStart
<1>4. CCTypeOK
  BY <1>2, <1>3, TypeParts DEF CCStart
<1>5. RemyInv
  BY <1>2 DEF CCStart, RemyInv, EchoesKnown, EchoesOrdered, SentTimesAgree
<1>6. TcpInv
  BY DEF CCStart, TcpInv, NewTcp
<1> QED
  BY <1>4, <1>5, <1>6 DEF IInv

(* A flow begins, or times out: its controller is initialised. *)
LEMMA InitOfStep ==
  ASSUME IInv
  PROVE  /\ cctype = "remy" => /\ RemyOK(InitOf(cc))
                               /\ InitOf(cc).unacknowledged = cc.unacknowledged
                               /\ InitOf(cc).memory = EmptyMemory
         /\ cctype = "tcp"  => Floored(InitOf(cc))
<1>1. ASSUME cctype = "remy"
      PROVE  /\ RemyOK(InitOf(cc)) /\ InitOf(cc).unacknowledged = cc.unacknowledged
             /\ InitOf(cc).memory = EmptyMemory
  BY <1>1, RemyInitStep, TypeParts DEF IInv, InitOf
<1>2. ASSUME cctype = "tcp"
      PROVE  Floored(InitOf(cc))
  <2>1. Floored(cc)
    BY <1>2, TypeParts DEF IInv, TcpInv, Floored
  <2> QED
    BY <1>2, <2>1, TcpInitStep DEF InitOf
<1> QED
  BY <1>1, <1>2

(* A memory stays sound while acknowledgements only come. *)
LEMMA SoundKept ==
  ASSUME NEW mem, NEW acks, NEW more, acks \subseteq more, NEW flow, SoundIn(mem, acks, flow)
  PROVE  SoundIn(mem, more, flow)
BY DEF SoundIn

LEMMA EmptySoundIn ==
  ASSUME NEW acks, NEW flow
  PROVE  SoundIn(EmptyMemory, acks, flow)
BY DEF SoundIn, EmptyMemory, Memory

LEMMA StartFlowStep ==
  ASSUME IInv, StartFlow
  PROVE  IInv'
<1>1. /\ flow_id' = flow_id + 1 /\ now' = 1 /\ seq_num' = 0 /\ largest_ack' = -1
      /\ cc' = InitOf(cc) /\ cctype' = cctype /\ outcome' = outcome
      /\ receiver_clock' = receiver_clock /\ echoes' = echoes
  BY DEF StartFlow
<1>2. \A e \in echoes' : e.flow < flow_id' /\ e \in Echo
  BY <1>1, TypeParts DEF IInv, RemyInv, EchoesKnown, Echo
<1>3. CCTypeOK'
  BY <1>1, InitOfStep, TypeParts DEF IInv, Floored, CCTypeOK, RemyOK
<1>4. EchoesKnown' /\ EchoesOrdered'
  <2>1. \A e \in echoes' : ~Accepted(e)'
    BY <1>1, <1>2, TypeParts DEF IInv, Accepted, Echo
  <2>2. \A e \in echoes' : e.flow <= flow_id' /\ e.sent >= 1 /\ e.received <= receiver_clock'
    BY <1>1, TypeParts DEF IInv, RemyInv, EchoesKnown, Echo
  <2> QED
    BY <2>1, <2>2 DEF EchoesKnown, EchoesOrdered
<1>5. SentTimesAgree'
  BY <1>1, <1>2, TypeParts DEF IInv, SentTimesAgree, Accepted, Echo
<1>6. cctype' = "remy" => Sound(cc.memory)' /\ outcome' # "aborted"
  BY <1>1, InitOfStep, EmptySoundIn DEF IInv, RemyInv, Sound
<1>7. TcpInv'
  BY <1>1, InitOfStep DEF TcpInv, Floored
<1> QED
  BY <1>1, <1>3, <1>4, <1>5, <1>6, <1>7 DEF IInv, RemyInv

LEMMA IdleTimeoutStep ==
  ASSUME IInv, IdleTimeout
  PROVE  IInv'
<1>1. /\ flow_id' = flow_id /\ now' = now /\ seq_num' = seq_num /\ largest_ack' = seq_num - 1
      /\ cc' = InitOf(cc) /\ cctype' = cctype /\ outcome' = outcome
      /\ receiver_clock' = receiver_clock /\ echoes' = echoes
  BY DEF IdleTimeout
<1>2. CCTypeOK'
  BY <1>1, InitOfStep, TypeParts DEF IInv, Floored, CCTypeOK, RemyOK
<1>3. EchoesKnown' /\ EchoesOrdered' /\ now' >= 1
  BY <1>1 DEF IInv, RemyInv, EchoesKnown, EchoesOrdered, Accepted
<1>4. SentTimesAgree'
  BY <1>1, InitOfStep DEF IInv, RemyInv, SentTimesAgree, Accepted
<1>5. cctype' = "remy" => Sound(cc.memory)' /\ outcome' # "aborted"
  BY <1>1, InitOfStep, EmptySoundIn DEF IInv, RemyInv, Sound
<1>6. TcpInv'
  BY <1>1, InitOfStep DEF TcpInv, Floored
<1> QED
  BY <1>2, <1>3, <1>4, <1>5, <1>6 DEF IInv, RemyInv

LEMMA TickStep ==
  ASSUME IInv, Tick
  PROVE  IInv'
<1>1. /\ now' = now + 1 /\ now \in Nat
      /\ UNCHANGED <<cctype, outcome, flow_id, seq_num, largest_ack, cc, receiver_clock, echoes>>
  BY TypeParts DEF IInv, Tick
<1>2. CCTypeOK'
  BY <1>1 DEF IInv, CCTypeOK
<1>3. EchoesKnown' /\ EchoesOrdered' /\ now' >= 1
  <2>1. \A e \in echoes : e.sent \in Nat
    BY TypeParts DEF IInv, Echo
  <2> QED
    BY <1>1, <2>1 DEF IInv, RemyInv, EchoesKnown, EchoesOrdered, Accepted
<1>4. SentTimesAgree' /\ TcpInv' /\ (cctype' = "remy" => Sound(cc.memory)' /\ outcome' # "aborted")
  BY <1>1 DEF IInv, RemyInv, SentTimesAgree, Accepted, Sound, TcpInv
<1> QED
  BY <1>2, <1>3, <1>4 DEF IInv, RemyInv

LEMMA PollTimeoutStep ==
  ASSUME IInv, PollTimeout
  PROVE  IInv'
<1>1. /\ cctype = "tcp" /\ cc' = TcpOnTimeout(cc)
      /\ UNCHANGED <<cctype, outcome, flow_id, now, seq_num, largest_ack, receiver_clock, echoes>>
  BY DEF PollTimeout
<1>2. Floored(cc')
  <2>1. Floored(cc)
    BY <1>1, TypeParts DEF IInv, TcpInv, Floored
  <2> QED
    BY <1>1, <2>1, TcpTimeoutStep
<1>3. CCTypeOK' /\ TcpInv'
  BY <1>1, <1>2 DEF IInv, CCTypeOK, TcpInv, Floored
<1>4. RemyInv'
  BY <1>1 DEF IInv, RemyInv, EchoesKnown, EchoesOrdered, Accepted, SentTimesAgree
<1> QED
  BY <1>3, <1>4 DEF IInv

(* A packet is sent with the largest number and the latest times. *)
LEMMA SendPacketStep ==
  ASSUME IInv, SendPacket
  PROVE  IInv'
<1>1. /\ seq_num' = seq_num + 1
      /\ cc' = IF cctype = "remy" THEN RemyOnPktSent(cc, seq_num, now) ELSE cc
      /\ UNCHANGED <<cctype, outcome, flow_id, now, largest_ack>>
  BY DEF SendPacket
<1>2. /\ seq_num \in Nat /\ now \in Nat /\ now >= 1 /\ flow_id \in Nat
      /\ receiver_clock \in Nat /\ echoes \subseteq Echo
  BY TypeParts DEF IInv, RemyInv
<1>3. PICK gap, new :
        /\ gap \in Nat
        /\ receiver_clock' = receiver_clock + gap
        /\ new = [flow |-> flow_id, seq |-> seq_num, sent |-> now,
                  received |-> receiver_clock + gap]
        /\ echoes' = echoes \/ echoes' = echoes \cup {new}
  <2>1. Gaps \subseteq Nat
    BY ControllersAssumption DEF Gaps
  <2>2. CASE UNCHANGED <<receiver_clock, echoes>>
    <3>1. receiver_clock' = receiver_clock + 0 /\ echoes' = echoes
      BY <1>2, <2>2
    <3> QED
      BY <3>1
  <2>3. CASE \E gap \in Gaps :
          /\ receiver_clock' = receiver_clock + gap
          /\ echoes' = echoes \cup
               {[flow |-> flow_id, seq |-> seq_num, sent |-> now, received |-> receiver_clock + gap]}
    BY <2>1, <2>3
  <2> QED
    BY <2>2, <2>3 DEF SendPacket
<1>4. /\ new \in Echo /\ new.flow = flow_id /\ new.seq = seq_num /\ new.sent = now
      /\ new.received = receiver_clock'
  BY <1>2, <1>3 DEF Echo
<1>5. echoes \subseteq echoes' /\ \A e \in echoes' : e \in echoes \/ e = new
  BY <1>3
<1>6. /\ receiver_clock' \in Nat /\ receiver_clock <= receiver_clock'
      /\ seq_num' \in Nat /\ echoes' \subseteq Echo
  BY <1>1, <1>2, <1>3, <1>4
<1>7. cctype = "remy" => /\ RemyOK(cc') /\ cc'.memory = cc.memory
                         /\ \A s \in DOMAIN cc'.unacknowledged :
                              s # seq_num => s \in DOMAIN cc.unacknowledged
                                /\ cc'.unacknowledged[s] = cc.unacknowledged[s]
  BY <1>1, <1>2, RemySentStep, TypeParts DEF IInv
<1>8. CCTypeOK'
  BY <1>1, <1>2, <1>6, <1>7, TypeParts DEF IInv, CCTypeOK, RemyOK
<1>9. EchoesKnown'
  <2>1. \A e \in echoes : /\ e.flow <= flow_id /\ e.sent >= 1 /\ e.received <= receiver_clock'
                          /\ e.flow = flow_id => e.seq < seq_num' /\ e.sent <= now
    BY <1>1, <1>2, <1>6 DEF IInv, RemyInv, EchoesKnown, Accepted, Echo
  <2>2. /\ new.flow <= flow_id /\ new.sent >= 1 /\ new.received <= receiver_clock'
        /\ new.seq < seq_num' /\ new.sent <= now
    BY <1>1, <1>2, <1>4, <1>6
  <2> QED
    BY <1>1, <1>5, <2>1, <2>2 DEF EchoesKnown, Accepted
<1>10. EchoesOrdered'
  <2>1. \A e \in echoes : e.flow = flow_id =>
          e.seq < new.seq /\ e.sent <= new.sent /\ e.received <= new.received
    BY <1>2, <1>4, <1>6 DEF IInv, RemyInv, EchoesKnown, Accepted, Echo
  <2>2. \A e, f \in echoes : e.flow = flow_id /\ f.flow = flow_id /\ e.seq < f.seq =>
          e.sent <= f.sent /\ e.received <= f.received
    BY DEF IInv, RemyInv, EchoesOrdered, Accepted
  <2>3. \A e \in echoes : ~(e.flow = flow_id /\ new.seq < e.seq)
    BY <1>2, <1>4, <2>1 DEF Echo
  <2>4. ~(new.seq < new.seq)
    BY <1>2, <1>4
  <2> QED
    BY <1>1, <1>5, <2>1, <2>2, <2>3, <2>4 DEF EchoesOrdered, Accepted
<1>11. SentTimesAgree'
  <2> SUFFICES ASSUME cctype = "remy", NEW e \in echoes', e.flow = flow_id,
                      e.seq \in DOMAIN cc'.unacknowledged
               PROVE  cc'.unacknowledged[e.seq] = e.sent
    BY <1>1 DEF SentTimesAgree, Accepted
  <2>1. CASE e \in echoes
    <3>1. e.seq # seq_num
      BY <1>2, <2>1 DEF IInv, RemyInv, EchoesKnown, Accepted, Echo
    <3> QED
      BY <1>7, <2>1, <3>1 DEF IInv, RemyInv, SentTimesAgree, Accepted
  <2>2. CASE e = new
    <3>1. RemyOK(cc)
      BY TypeParts DEF IInv
    <3>2. cc'.unacknowledged[seq_num] = now
      BY <1>1, <3>1 DEF RemyOnPktSent, RemyOK
    <3> QED
      BY <1>4, <2>2, <3>2
  <2> QED
    BY <1>5, <2>1, <2>2
<1>12. cctype' = "remy" => Sound(cc.memory)' /\ outcome' # "aborted"
  <2>1. ASSUME cctype = "remy"
        PROVE  SoundIn(cc'.memory, echoes', flow_id)
    BY <1>5, <1>7, <2>1, SoundKept DEF IInv, RemyInv, Sound
  <2> QED
    BY <1>1, <2>1 DEF IInv, RemyInv, Sound
<1>13. TcpInv'
  <2>1. CCTypes \subseteq {"remy", "tcp"}
    BY ControllersAssumption
  <2> QED
    BY <1>1, <2>1 DEF IInv, TcpInv
<1> QED
  BY <1>1, <1>2, <1>8, <1>9, <1>10, <1>11, <1>12, <1>13 DEF IInv, RemyInv

LEMMA RecvAckStep ==
  ASSUME IInv, NEW e \in Arriving, NEW mem \in Memories(e), RecvAck(e, mem, RulesFor(mem))
  PROVE  IInv'
<1>1. /\ Accepted(e) /\ outcome = "running"
      /\ largest_ack' = IF e.seq + 1 > largest_ack THEN e.seq + 1 ELSE largest_ack
      /\ UNCHANGED <<cctype, flow_id, now, seq_num, receiver_clock, echoes>>
  BY DEF RecvAck
<1>2. /\ e \in echoes /\ e \in Echo /\ e.seq \in Nat /\ largest_ack' \in Int
      /\ now \in Nat /\ echoes \subseteq Echo
  BY <1>1, TypeParts DEF IInv, Arriving, Echo
<1>3. EchoesKnown' /\ EchoesOrdered' /\ now' >= 1
  BY <1>1 DEF IInv, RemyInv, EchoesKnown, EchoesOrdered, Accepted
<1>4. CASE UNCHANGED <<cc, outcome>>
  <2>1. CCTypeOK'
    BY <1>1, <1>2, <1>4 DEF IInv, CCTypeOK
  <2>2. SentTimesAgree' /\ TcpInv' /\ (cctype' = "remy" => Sound(cc.memory)' /\ outcome' # "aborted")
    BY <1>1, <1>4 DEF IInv, RemyInv, SentTimesAgree, Accepted, Sound, TcpInv
  <2> QED
    BY <1>3, <2>1, <2>2 DEF IInv, RemyInv
<1>5. CASE cctype = "tcp"
  <2>1. cc' \in TcpOnACK(cc, e.seq + 1) /\ outcome' = outcome
    BY <1>5 DEF RecvAck, TcpReceives
  <2>2. Floored(cc')
    <3>1. Floored(cc) /\ e.seq + 1 \in Nat
      BY <1>2, <1>5, TypeParts DEF IInv, TcpInv, Floored
    <3> QED
      BY <2>1, <3>1, TcpACKStep
  <2>3. CCTypeOK' /\ TcpInv'
    BY <1>1, <1>2, <1>5, <2>1, <2>2 DEF IInv, CCTypeOK, TcpInv, Floored
  <2>4. SentTimesAgree' /\ cctype' # "remy"
    BY <1>1, <1>5 DEF SentTimesAgree
  <2> QED
    BY <1>3, <2>3, <2>4 DEF IInv, RemyInv
<1>6. CASE cctype = "remy" /\ e.seq \in DOMAIN cc.unacknowledged
  <2> DEFINE p == [seq_num |-> e.seq, tick_sent |-> e.sent, tick_received |-> now,
                   receiver_timestamp |-> e.received]
  <2>1. RemyOK(cc) /\ Sound(cc.memory) /\ cc.unacknowledged[e.seq] = e.sent
    BY <1>1, <1>2, <1>6, TypeParts DEF IInv, RemyInv, SentTimesAgree
  <2>2. mem \in MemoriesAfter(cc.memory, p)
    BY <1>6, <2>1 DEF Memories, PacketOf
  <2>3. Sound(mem) /\ AssertionHolds(cc.memory, mem)
    <3> HIDE DEF p
    <3> QED
      BY <1>1, <1>2, <2>1, <2>2, MemoryStep DEF IInv, RemyInv, p
  <2>4. mem \in Memory
    BY <2>3 DEF Sound, SoundIn
  <2>5. RemyReceives(e, mem, RulesFor(mem))
    BY <1>6 DEF RecvAck
  <2>6. /\ RemyOK(cc') /\ cc'.memory = mem
        /\ outcome' \in {"running", "exited"}
        /\ \A s \in DOMAIN cc'.unacknowledged :
             s \in DOMAIN cc.unacknowledged /\ cc'.unacknowledged[s] = cc.unacknowledged[s]
    <3>1. CASE RulesFor(mem) # {}
      <4>1. PICK rule \in RulesFor(mem) :
              cc' = RemyOnACK(cc, e.seq, mem, rule, LargestWindow) /\ outcome' = outcome
        BY <2>3, <2>5, <3>1 DEF RemyReceives
      <4>2. rule \in TreeRules
        BY <4>1 DEF RulesFor
      <4> QED
        BY <1>1, <2>1, <2>4, <4>1, <4>2, RemyACKStep
    <3>2. CASE RulesFor(mem) = {}
      <4>1. cc' = [cc EXCEPT !.memory = mem] /\ outcome' = "exited"
        BY <2>3, <2>5, <3>2 DEF RemyReceives
      <4> QED
        BY <2>1, <2>4, <4>1 DEF RemyOK
    <3> QED
      BY <3>1, <3>2
  <2>7. CCTypeOK'
    BY <1>1, <1>2, <1>6, <2>6, TypeParts DEF IInv, CCTypeOK, RemyOK
  <2>8. SentTimesAgree'
    BY <1>1, <1>6, <2>6 DEF IInv, RemyInv, SentTimesAgree, Accepted
  <2>9. Sound(cc.memory)'
    BY <1>1, <2>3, <2>6 DEF Sound
  <2>10. TcpInv'
    BY <1>1, <1>6 DEF TcpInv
  <2> QED
    BY <1>3, <2>6, <2>7, <2>8, <2>9, <2>10 DEF IInv, RemyInv
<1>7. \/ UNCHANGED <<cc, outcome>> \/ cctype = "tcp"
      \/ cctype = "remy" /\ e.seq \in DOMAIN cc.unacknowledged
  <2>1. cctype = "remy" \/ cctype = "tcp"
    BY ControllersAssumption, TypeParts DEF IInv
  <2> QED
    BY <2>1 DEF RecvAck
<1> QED
  BY <1>4, <1>5, <1>6, <1>7

LEMMA StepIInv == IInv /\ [CCNext]_ccVars => IInv'
<1> SUFFICES ASSUME IInv, [CCNext]_ccVars PROVE IInv'
  OBVIOUS
<1>1. CASE CCCalls
  BY <1>1, StartFlowStep, SendPacketStep, IdleTimeoutStep, PollTimeoutStep, TickStep DEF CCCalls
<1>2. CASE \E e \in Arriving : \E mem \in Memories(e) : RecvAck(e, mem, RulesFor(mem))
  BY <1>2, RecvAckStep
<1>3. CASE UNCHANGED ccVars
  BY <1>3 DEF ccVars, IInv, CCTypeOK, RemyInv, EchoesKnown, EchoesOrdered, Sound, Accepted,
              SentTimesAgree, TcpInv
<1> QED
  BY <1>1, <1>2, <1>3 DEF CCNext

LEMMA Inductive == CCSpec => []IInv
<1> QED
  BY InitIInv, StepIInv, PTL DEF CCSpec

(* The sender's variables have their types. *)
THEOREM TypesHold == CCSpec => []CCTypeOK
<1>1. IInv => CCTypeOK
  BY DEF IInv
<1> QED
  BY <1>1, Inductive, PTL

(* RemyCC's own sending times are those in the packets' headers, although  *)
(* init does not clear its map (remycc.cc).                                *)
THEOREM SentTimesHold == CCSpec => []SentTimesAgree
<1>1. IInv => SentTimesAgree
  BY DEF IInv, RemyInv
<1> QED
  BY <1>1, Inductive, PTL

(* With data in order, no reordering or loss of acknowledgements makes an  *)
(* average negative or the assertion in Memory::packets_received fail.     *)
THEOREM SignalsHold == CCSpec => []SignalsNotNegative
<1>1. IInv => SignalsNotNegative
  BY DEF IInv, RemyInv, Sound, SoundIn, SignalsNotNegative
<1> QED
  BY <1>1, Inductive, PTL

(* DefaultCC's window is at least 2, in any order of its callbacks. *)
THEOREM FloorHolds == CCSpec => []TcpWindowFloor
<1>1. IInv => TcpWindowFloor
  BY DEF IInv, TcpInv, TcpWindowFloor
<1> QED
  BY <1>1, Inductive, PTL

-----------------------------------------------------------------------------
(* No lookup ends the sender *)

(* How far a flow's clocks can get: what the receiver's advanced since a   *)
(* packet of this flow, it advanced for packets of this flow.              *)
FlowBounded ==
  /\ seq_num <= MaxSeq
  /\ now <= MaxTime \/ now = 1
  /\ \A e \in echoes : Accepted(e) =>
       receiver_clock <= e.received + MaxGap * (seq_num - 1 - e.seq)

(* So the memory is within the limits of the tree. *)
GoesOn ==
  /\ FlowBounded
  /\ cctype = "remy" => InLimits(cc.memory)
  /\ SenderGoesOn

LEMMA EwmaWithin ==
  ASSUME NEW limit \in Nat, NEW old \in 0 .. limit - 1, NEW sample \in 0 .. limit - 1,
         NEW v \in EwmaAfter(old, sample)
  PROVE  v \in 0 .. limit - 1
BY DEF EwmaAfter

LEMMA MoreGaps ==
  ASSUME NEW gap \in Nat, NEW n \in Nat, NEW limit \in Nat, n <= limit
  PROVE  /\ gap * n \in Nat /\ gap * n <= gap * limit
         /\ gap * (n + 1) = gap * n + gap
<1>1. gap * n \in Nat /\ gap * (n + 1) = gap * n + gap
  BY SMT
<1>2. PICK d \in Nat : limit = n + d
  <2>1. limit - n \in Nat /\ limit = n + (limit - n)
    BY SMT
  <2> QED
    BY <2>1
<1>3. gap * limit = gap * n + gap * d /\ gap * d \in Nat
  BY <1>2, SMT
<1> QED
  BY <1>1, <1>3

LEMMA RatioAtMost ==
  ASSUME NEW a \in Nat, NEW b \in Nat, b > 0
  PROVE  a \div b \in Nat /\ a \div b <= a
<1>1. a \div b \in Nat
  BY SMT
<1>2. a \div b <= a
  BY SMT
<1> QED
  BY <1>1, <1>2

(* What an acknowledgement of this flow makes of a memory within the       *)
(* limits is within the limits.                                            *)
LEMMA MemoryInLimits ==
  ASSUME EchoesKnown, EchoesOrdered, FlowBounded, echoes \subseteq Echo, now \in Nat,
         seq_num \in Nat, receiver_clock \in Nat,
         MaxTime < SignalLimit, MaxGap * MaxSeq < SignalLimit,
         NEW e \in Arriving, Accepted(e), NEW mem, Sound(mem), InLimits(mem), NEW p,
         p = [seq_num |-> e.seq, tick_sent |-> e.sent, tick_received |-> now,
              receiver_timestamp |-> e.received],
         NEW m \in MemoriesAfter(mem, p)
  PROVE  InLimits(m)
<1> DEFINE rtt == now - e.sent
<1>0. SignalLimit \in Nat /\ MaxTime \in Nat /\ MaxGap \in Nat /\ MaxSeq \in Nat
  BY ControllersAssumption
<1>1. e \in echoes /\ e \in Echo /\ rtt \in Nat /\ rtt > 0 /\ e.sent >= 1 /\ rtt < SignalLimit
  BY <1>0 DEF Arriving, Accepted, EchoesKnown, Echo, FlowBounded
<1>2. CASE mem.last_tick_sent = 0
  <2> DEFINE r == Referring(mem, p)
  <2>1. m = [r EXCEPT !.min_rtt = rtt, !.largest_ack = IF e.seq > @ THEN e.seq ELSE @]
    BY <1>2 DEF MemoriesAfter, First
  <2>2. r = [mem EXCEPT !.last_tick_sent = e.sent, !.last_receiver_timestamp = e.received]
    BY DEF Referring
  <2> QED
    BY <2>1, <2>2 DEF InLimits, Sound, SoundIn, Memory
<1>3. CASE mem.last_tick_sent # 0
  <2>1. PICK b \in (IF GivesSample(mem, p) THEN Sampled(mem, p) ELSE {mem}) :
          m = WithRtt(b, p, rtt)
    BY <1>3 DEF MemoriesAfter
  <2>2. PICK f \in echoes : /\ Accepted(f) /\ f.seq <= mem.largest_ack
                            /\ f.sent = mem.last_tick_sent
                            /\ f.received = mem.last_receiver_timestamp
    BY <1>3 DEF Sound, SoundIn, Accepted
  <2>3. b \in Memory /\ b.min_rtt = mem.min_rtt
        /\ b.rec_send_ewma \in 0 .. SignalLimit - 1 /\ b.rec_rec_ewma \in 0 .. SignalLimit - 1
    <3>1. CASE ~GivesSample(mem, p)
      BY <3>1, <2>1 DEF Sound, SoundIn, InLimits
    <3>2. CASE GivesSample(mem, p)
      <4>1. f.seq < e.seq
        BY <3>2, <2>2, <1>1 DEF GivesSample, Sound, SoundIn, Memory, Echo
      <4>2. e.sent - f.sent \in 0 .. SignalLimit - 1
        BY <4>1, <2>2, <1>0, <1>1 DEF EchoesOrdered, EchoesKnown, FlowBounded, Echo
      <4>3. e.received - f.received \in 0 .. SignalLimit - 1
        <5> DEFINE n == seq_num - 1 - f.seq
        <5>1. n \in Nat /\ n <= MaxSeq
          BY <2>2, <1>0 DEF EchoesKnown, FlowBounded, Echo
        <5>2. MaxGap * n <= MaxGap * MaxSeq /\ MaxGap * n \in Nat
          BY <5>1, <1>0, MoreGaps
        <5>3. receiver_clock <= f.received + MaxGap * n
          BY <2>2 DEF FlowBounded
        <5> HIDE DEF n
        <5>5. MaxGap * MaxSeq \in Int
          BY <1>0
        <5>4. f.received <= e.received /\ e.received <= receiver_clock
          BY <4>1, <2>2, <1>1 DEF EchoesOrdered, EchoesKnown
        <5>6. f.received \in Nat /\ e.received \in Nat
          BY <1>1, <2>2 DEF Echo
        <5> QED
          BY <5>2, <5>3, <5>4, <5>5, <5>6, <1>0
      <4>4. PICK s \in EwmaAfter(mem.rec_send_ewma, e.sent - f.sent),
                 r \in EwmaAfter(mem.rec_rec_ewma, e.received - f.received) :
              b = Averaging(Referring(mem, p), s, r)
        BY <3>2, <2>1, <2>2 DEF Sampled
      <4>5. s \in 0 .. SignalLimit - 1 /\ r \in 0 .. SignalLimit - 1
        BY <4>2, <4>3, <1>0, EwmaWithin DEF InLimits
      <4>6. mem \in Memory /\ p.tick_sent \in Int /\ p.receiver_timestamp \in Int
        BY <1>1 DEF Echo, Sound, SoundIn
      <4>7. Referring(mem, p) \in Memory /\ Referring(mem, p).min_rtt = mem.min_rtt
        BY <4>6, ReferringFields
      <4>8. s \in Int /\ r \in Int
        BY <4>5, <1>0
      <4> QED
        BY <4>4, <4>5, <4>7, <4>8, AveragingFields
    <3> QED
      BY <3>1, <3>2
  <2> DEFINE least == IF rtt < b.min_rtt THEN rtt ELSE b.min_rtt
             ratio == rtt \div least
  <2>4. least \in Nat /\ least > 0 /\ least <= rtt
    BY <2>3, <1>1, <1>3 DEF Sound, SoundIn, Memory
  <2>5. ratio \in Nat /\ ratio <= rtt
    BY <2>4, <1>1, RatioAtMost
  <2>6. m = [b EXCEPT !.min_rtt = least, !.rtt_ratio = ratio,
                      !.largest_ack = IF e.seq > @ THEN e.seq ELSE @]
    BY <2>1, <2>4 DEF WithRtt
  <2> HIDE DEF least, ratio
  <2>7. m.rec_send_ewma = b.rec_send_ewma /\ m.rec_rec_ewma = b.rec_rec_ewma /\ m.rtt_ratio = ratio
    BY <2>3, <2>6 DEF Memory
  <2> QED
    BY <2>3, <2>5, <2>7, <1>0, <1>1 DEF InLimits
<1> QED
  BY <1>2, <1>3

LEMMA EmptyInLimits ==
  ASSUME MaxTime < SignalLimit
  PROVE  InLimits(EmptyMemory)
BY ControllersAssumption DEF InLimits, EmptyMemory

LEMMA GoesOnInit ==
  ASSUME MaxTime < SignalLimit, CCStart
  PROVE  GoesOn
<1>1. MaxSeq \in Nat
  BY ControllersAssumption
<1> QED
  BY <1>1, EmptyInLimits DEF CCStart, GoesOn, FlowBounded, SenderGoesOn, NewRemy

(* The calls without an acknowledgement. *)
LEMMA GoesOnCalls ==
  ASSUME IInv, GoesOn, MaxTime < SignalLimit, CCCalls
  PROVE  GoesOn'
<1>0. /\ MaxTime \in Nat /\ MaxGap \in Nat /\ MaxSeq \in Nat
      /\ seq_num \in Nat /\ now \in Nat /\ flow_id \in Nat /\ receiver_clock \in Nat
      /\ echoes \subseteq Echo
  BY ControllersAssumption, TypeParts DEF IInv
<1>1. CASE StartFlow
  <2>1. cctype = "remy" => InLimits(InitOf(cc).memory)
    BY InitOfStep, EmptyInLimits
  <2>2. \A e \in echoes : ~Accepted(e)'
    BY <1>0, <1>1 DEF IInv, RemyInv, EchoesKnown, StartFlow, Accepted, Echo
  <2> QED
    BY <1>0, <1>1, <2>1, <2>2 DEF StartFlow, GoesOn, FlowBounded, SenderGoesOn
<1>2. CASE SendPacket
  <2>1. /\ seq_num' = seq_num + 1 /\ seq_num < MaxSeq
        /\ cc' = IF cctype = "remy" THEN RemyOnPktSent(cc, seq_num, now) ELSE cc
        /\ UNCHANGED <<cctype, outcome, flow_id, now>>
    BY <1>2 DEF SendPacket
  <2>2. cctype = "remy" => cc'.memory = cc.memory
    BY <2>1, <1>0, RemySentStep, TypeParts DEF IInv
  <2>3. ASSUME NEW e \in echoes', Accepted(e)'
        PROVE  receiver_clock' <= e.received + MaxGap * (seq_num' - 1 - e.seq)
    <3>1. CASE e \in echoes
      <4> DEFINE n == seq_num - 1 - e.seq
      <4>1. n \in Nat /\ receiver_clock <= e.received + MaxGap * n /\ e.received \in Nat
        BY <1>0, <2>1, <2>3, <3>1 DEF IInv, RemyInv, EchoesKnown, GoesOn, FlowBounded, Accepted, Echo
      <4>2. receiver_clock' <= receiver_clock + MaxGap /\ receiver_clock' \in Nat
        <5>1. Gaps \subseteq 0 .. MaxGap
          BY <1>0 DEF Gaps
        <5> QED
          BY <1>0, <1>2, <5>1 DEF SendPacket
      <4>3. seq_num' - 1 - e.seq = n + 1
        BY <1>0, <2>1, <3>1 DEF Echo
      <4>4. MaxGap * n \in Nat /\ MaxGap * (n + 1) = MaxGap * n + MaxGap
        BY <1>0, <4>1, MoreGaps
      <4> HIDE DEF n
      <4> QED
        BY <1>0, <4>1, <4>2, <4>3, <4>4
    <3>2. CASE e \notin echoes
      <4>1. e.seq = seq_num /\ e.received = receiver_clock' /\ receiver_clock' \in Nat
        <5>1. Gaps \subseteq Nat
          BY <1>0 DEF Gaps
        <5> QED
          BY <1>0, <1>2, <3>2, <5>1 DEF SendPacket
      <4>2. seq_num' - 1 - e.seq = 0 /\ MaxGap * 0 = 0
        BY <1>0, <2>1, <4>1
      <4> QED
        BY <4>1, <4>2
    <3> QED
      BY <3>1, <3>2
  <2> QED
    BY <1>0, <2>1, <2>2, <2>3 DEF GoesOn, FlowBounded, SenderGoesOn
<1>3. CASE IdleTimeout
  <2>1. cctype = "remy" => InLimits(InitOf(cc).memory)
    BY InitOfStep, EmptyInLimits
  <2> QED
    BY <1>3, <2>1 DEF IdleTimeout, GoesOn, FlowBounded, SenderGoesOn, Accepted
<1>4. CASE PollTimeout
  BY <1>4 DEF PollTimeout, GoesOn, FlowBounded, SenderGoesOn, Accepted
<1>5. CASE Tick
  BY <1>0, <1>5 DEF Tick, GoesOn, FlowBounded, SenderGoesOn, Accepted
<1> QED
  BY <1>1, <1>2, <1>3, <1>4, <1>5 DEF CCCalls

LEMMA GoesOnACK ==
  ASSUME IInv, GoesOn, MaxTime < SignalLimit, MaxGap * MaxSeq < SignalLimit, TreeRules # {},
         NEW e \in Arriving, NEW mem \in Memories(e), RecvAck(e, mem, RulesFor(mem))
  PROVE  GoesOn'
<1>1. Accepted(e) /\ UNCHANGED <<cctype, flow_id, now, seq_num, receiver_clock, echoes>>
  BY DEF RecvAck
<1>2. FlowBounded'
  BY <1>1 DEF GoesOn, FlowBounded, Accepted
<1>3. CASE cctype = "tcp"
  BY <1>1, <1>2, <1>3 DEF RecvAck, TcpReceives, GoesOn, SenderGoesOn
<1>4. CASE cctype # "tcp" /\ ~(e.seq \in DOMAIN cc.unacknowledged)
  BY <1>1, <1>2, <1>4 DEF RecvAck, GoesOn, SenderGoesOn
<1>5. CASE cctype = "remy" /\ e.seq \in DOMAIN cc.unacknowledged
  <2> DEFINE p == [seq_num |-> e.seq, tick_sent |-> e.sent, tick_received |-> now,
                   receiver_timestamp |-> e.received]
  <2>1. e \in echoes /\ Sound(cc.memory) /\ cc.unacknowledged[e.seq] = e.sent
    BY <1>1, <1>5 DEF IInv, RemyInv, SentTimesAgree, Arriving
  <2>2. mem \in MemoriesAfter(cc.memory, p)
    BY <1>5, <2>1 DEF Memories, PacketOf
  <2>3. EchoesKnown /\ EchoesOrdered /\ echoes \subseteq Echo /\ now \in Nat
        /\ seq_num \in Nat /\ receiver_clock \in Nat
    BY TypeParts DEF IInv, RemyInv
  <2>4. InLimits(mem) /\ AssertionHolds(cc.memory, mem)
    <3> HIDE DEF p
    <3> QED
      BY <1>1, <1>5, <2>1, <2>2, <2>3, MemoryStep, MemoryInLimits DEF p, GoesOn
  <2>5. PICK rule \in TreeRules :
          cc' = RemyOnACK(cc, e.seq, mem, rule, LargestWindow) /\ outcome' = outcome
    BY <1>5, <2>4 DEF RecvAck, RemyReceives, RulesFor
  <2>6. cc'.memory = mem
    BY <2>5 DEF RemyOnACK
  <2> QED
    BY <1>1, <1>2, <2>4, <2>5, <2>6 DEF GoesOn, SenderGoesOn
<1>6. cctype = "remy" \/ cctype = "tcp"
  BY ControllersAssumption, TypeParts DEF IInv
<1> QED
  BY <1>3, <1>4, <1>5, <1>6

(* RemyCC never asks its tree for a memory outside of the limits, so that  *)
(* exit(1) of use_whisker is not reached, as long as a flow takes less     *)
(* than the limit of a signal at the sender and at the receiver.           *)
THEOREM SenderGoesOnAlways ==
  ASSUME MaxTime < SignalLimit, MaxGap * MaxSeq < SignalLimit, TreeRules # {}
  PROVE  CCSpec => []SenderGoesOn
<1>1. CCStart => GoesOn
  BY GoesOnInit
<1>2. IInv /\ GoesOn /\ [CCNext]_ccVars => GoesOn'
  <2> SUFFICES ASSUME IInv, GoesOn, [CCNext]_ccVars PROVE GoesOn'
    OBVIOUS
  <2>1. CASE CCCalls
    BY <2>1, GoesOnCalls
  <2>2. CASE \E e \in Arriving : \E mem \in Memories(e) : RecvAck(e, mem, RulesFor(mem))
    BY <2>2, GoesOnACK
  <2>3. CASE UNCHANGED ccVars
    BY <2>3 DEF ccVars, GoesOn, FlowBounded, SenderGoesOn, Accepted
  <2> QED
    BY <2>1, <2>2, <2>3 DEF CCNext
<1>3. GoesOn => SenderGoesOn
  BY DEF GoesOn
<1> QED
  BY <1>1, <1>2, <1>3, Inductive, PTL DEF CCSpec

=============================================================================
