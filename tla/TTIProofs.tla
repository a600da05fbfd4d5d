----------------------------- MODULE TTIProofs ------------------------------
(***************************************************************************)
(* Lemmas about TTIs and about recursive functions, for the modules that   *)
(* prove about the log and about the client.                               *)
(*                                                                         *)
(* LeastNat takes the place of induction: of the arguments for which a     *)
(* claim fails one would be the least.                                     *)
(***************************************************************************)
EXTENDS TTI, WellFoundedInduction, TLAPS

(* Every non-empty set of naturals has a least element. *)
LEMMA LeastNat ==
  ASSUME NEW T, T \subseteq Nat, T # {}
  PROVE  \E x \in T : \A y \in T : x <= y
<1> DEFINE Less == {p \in Nat \X Nat : p[1] < p[2]}
<1>1. IsWellFoundedOn(Less, Nat)
  BY NatLessThanWellFounded DEF OpToRel
<1>2. PICK x \in T : \A y \in T : <<y, x>> \notin Less
  <2> HIDE DEF Less
  <2> QED BY <1>1, WFMin
<1>3. \A y \in T : ~(y < x)
  BY <1>2
<1> QED BY <1>3

(* The smallest value of an array of naturals is one of them and not above *)
(* the others.                                                             *)
LEMMA MinInArray ==
  ASSUME NEW D, D # {}, NEW a \in [D -> Nat]
  PROVE  LET m == min_in_array(a)
         IN  /\ m \in Nat
             /\ \E i \in D : m = a[i]
             /\ \A i \in D : m <= a[i]
<1> DEFINE V == {a[i] : i \in DOMAIN a}
<1>1. V \subseteq Nat /\ V # {}
  OBVIOUS
<1>2. \E x \in V : \A y \in V : x <= y
  <2> HIDE DEF V
  <2> QED BY <1>1, LeastNat
<1>3. \E m \in V : \A i \in DOMAIN a : m <= a[i]
  BY <1>2
<1>4. min_in_array(a) \in V /\ \A i \in DOMAIN a : min_in_array(a) <= a[i]
  BY <1>3 DEF min_in_array
<1> QED BY <1>1, <1>4

(* So is the largest, when the values have a bound. *)
LEMMA MaxInArray ==
  ASSUME NEW D, D # {}, NEW b \in Nat, NEW a \in [D -> 0 .. b]
  PROVE  LET m == max_in_array(a)
         IN  /\ m \in 0 .. b
             /\ \E i \in D : m = a[i]
             /\ \A i \in D : a[i] <= m
<1> DEFINE V == {a[i] : i \in DOMAIN a}
           W == {b - a[i] : i \in DOMAIN a}
<1>1. W \subseteq Nat /\ W # {}
  OBVIOUS
<1>2. \E x \in W : \A y \in W : x <= y
  <2> HIDE DEF W
  <2> QED BY <1>1, LeastNat
<1>3. PICK k \in D : \A i \in D : b - a[k] <= b - a[i]
  BY <1>2
<1>4. \A i \in D : a[i] <= a[k]
  <2> SUFFICES ASSUME NEW i \in D PROVE a[i] <= a[k]
    OBVIOUS
  <2>1. a[i] \in Int /\ a[k] \in Int /\ b - a[k] <= b - a[i]
    BY <1>3
  <2> QED BY <2>1
<1>5. \E m \in V : \A i \in DOMAIN a : a[i] <= m
  BY <1>4
<1>6. max_in_array(a) \in V /\ \A i \in DOMAIN a : a[i] <= max_in_array(a)
  BY <1>5 DEF max_in_array
<1> QED BY <1>6

(* A wrapped TTI is one of the cycle's. *)
LEMMA WrapType ==
  ASSUME NEW t \in Int
  PROVE  wrap_tti(t) \in 0 .. MaxTTI - 1
  BY TTIAssumption DEF wrap_tti

-----------------------------------------------------------------------------
(* Multiples of the cycle, and remainders. *)
LEMMA CycleMultiple ==
  ASSUME NEW q \in Int
  PROVE  /\ -MaxTTI < MaxTTI * q => q >= 0
         /\ MaxTTI * q < MaxTTI => q <= 0
         /\ MaxTTI * q < 2 * MaxTTI => q <= 1
<1>1. MaxTTI \in Nat \ {0}
  BY TTIAssumption
<1>2. ASSUME q <= -1 PROVE MaxTTI * q <= -MaxTTI
  BY <1>1, <1>2
<1>3. ASSUME q >= 1 PROVE MaxTTI * q >= MaxTTI
  BY <1>1, <1>3
<1>4. ASSUME q >= 2 PROVE MaxTTI * q >= 2 * MaxTTI
  BY <1>1, <1>4
<1>5. MaxTTI * q \in Int
  BY <1>1
<1> QED BY <1>1, <1>2, <1>3, <1>4, <1>5

LEMMA CycleDivision ==
  ASSUME NEW n \in Int
  PROVE  /\ n \div MaxTTI \in Int /\ wrap_tti(n) \in 0 .. MaxTTI - 1
         /\ n = MaxTTI * (n \div MaxTTI) + wrap_tti(n)
  BY TTIAssumption DEF wrap_tti

LEMMA WrapUnique ==
  ASSUME NEW n \in Int, NEW q \in Int, NEW r \in 0 .. MaxTTI - 1, n = MaxTTI * q + r
  PROVE  wrap_tti(n) = r
<1> DEFINE p == n \div MaxTTI
           s == wrap_tti(n)
<1>1. MaxTTI \in Nat \ {0}
  BY TTIAssumption
<1>2. p \in Int /\ s \in 0 .. MaxTTI - 1 /\ n = MaxTTI * p + s
  BY CycleDivision
<1> HIDE DEF p, s
<1>3. MaxTTI * (q - p) = s - r
  BY <1>1, <1>2
<1>4. -MaxTTI < MaxTTI * (q - p) /\ MaxTTI * (q - p) < MaxTTI
  BY <1>1, <1>2, <1>3
<1>5. q - p = 0
  BY <1>2, <1>4, CycleMultiple
<1> QED BY <1>1, <1>2, <1>3, <1>5 DEF s

LEMMA WrapShift ==
  ASSUME NEW n \in Int, NEW q \in Int
  PROVE  wrap_tti(n + MaxTTI * q) = wrap_tti(n)
<1> DEFINE p == n \div MaxTTI
           s == wrap_tti(n)
<1>1. MaxTTI \in Nat \ {0}
  BY TTIAssumption
<1>2. p \in Int /\ s \in 0 .. MaxTTI - 1 /\ n = MaxTTI * p + s
  BY CycleDivision
<1> HIDE DEF p, s
<1>3. n + MaxTTI * q = MaxTTI * (p + q) + s /\ n + MaxTTI * q \in Int /\ p + q \in Int
  BY <1>1, <1>2
<1> QED BY <1>2, <1>3, WrapUnique DEF s

(* Adding to a wrapped TTI is adding to the millisecond. *)
LEMMA WrapAdd ==
  ASSUME NEW n \in Int, NEW i \in Int
  PROVE  wrap_tti(wrap_tti(n) + i) = wrap_tti(n + i)
<1> DEFINE p == n \div MaxTTI
           s == wrap_tti(n)
<1>1. MaxTTI \in Nat \ {0}
  BY TTIAssumption
<1>2. p \in Int /\ s \in 0 .. MaxTTI - 1 /\ n = MaxTTI * p + s
  BY CycleDivision
<1> HIDE DEF p, s
<1>3. n + i = (s + i) + MaxTTI * p /\ s + i \in Int
  BY <1>1, <1>2
<1> QED BY <1>2, <1>3, WrapShift DEF s

(* Milliseconds less than half a cycle apart are unwrapped to what they    *)
(* are, some number of cycles earlier.                                     *)
LEMMA UnwrapRight ==
  ASSUME NEW D, D # {}, NEW n \in [D -> Nat], NEW skew \in Nat, 2 * skew < MaxTTI,
         \A c, o \in D : n[c] <= n[o] + skew
  PROVE  LET u == unwrap_tti_array([c \in D |-> wrap_tti(n[c])])
         IN  \E q \in Int : u = [c \in D |-> n[c] - MaxTTI * q]
<1> DEFINE a == [c \in D |-> wrap_tti(n[c])]
           m == max_in_array(a)
<1>1. MaxTTI \in Nat \ {0}
  BY TTIAssumption
<1>2. a \in [D -> 0 .. MaxTTI - 1] /\ MaxTTI - 1 \in Nat
  BY <1>1, CycleDivision
<1>3. m \in 0 .. MaxTTI - 1 /\ (\E c \in D : m = a[c]) /\ \A c \in D : a[c] <= m
  <2> HIDE DEF a
  <2> QED BY <1>2, MaxInArray
<1>4. PICK l \in D : m = wrap_tti(n[l])
  BY <1>3
<1> DEFINE q == n[l] \div MaxTTI
<1>5. q \in Int /\ n[l] = MaxTTI * q + m
  BY <1>4, CycleDivision
<1>6. ASSUME NEW c \in D
      PROVE  (IF Abs(m - a[c]) > Abs(m - (a[c] + MaxTTI)) THEN a[c] + MaxTTI ELSE a[c])
                = n[c] - MaxTTI * q
  <2> DEFINE p == n[c] \div MaxTTI
             h == a[c]
  <2>1. h \in 0 .. MaxTTI - 1 /\ h <= m /\ p \in Int /\ n[c] = MaxTTI * p + h
    BY <1>2, <1>3, CycleDivision
  <2>2. n[c] \in Nat /\ n[l] \in Nat /\ n[c] <= n[l] + skew /\ n[l] <= n[c] + skew
    OBVIOUS
  <2> HIDE DEF a, m, q, p, h
  <2>3. MaxTTI * (p - q) = (n[c] - n[l]) + (m - h)
    BY <1>1, <1>3, <1>5, <2>1, <2>2
  <2>4. -MaxTTI < MaxTTI * (p - q) /\ MaxTTI * (p - q) < 2 * MaxTTI
    BY <1>1, <1>3, <2>1, <2>2, <2>3
  <2>5. p - q = 0 \/ p - q = 1
    <3>1. p - q \in Int
      BY <1>5, <2>1
    <3>2. p - q >= 0 /\ p - q <= 1
      BY <2>4, <3>1, CycleMultiple
    <3> QED BY <3>1, <3>2
  <2>6. CASE p - q = 0
    <3>1. m - h = n[l] - n[c] /\ n[c] - MaxTTI * q = h
      BY <1>1, <1>3, <1>5, <2>1, <2>2, <2>3, <2>6
    <3>2. ~(Abs(m - h) > Abs(m - (h + MaxTTI)))
      BY <1>1, <1>3, <2>1, <2>2, <3>1 DEF Abs
    <3> QED BY <3>1, <3>2 DEF h
  <2>7. CASE p - q = 1
    <3>1. m - h = MaxTTI - (n[c] - n[l]) /\ n[c] - MaxTTI * q = h + MaxTTI
      BY <1>1, <1>3, <1>5, <2>1, <2>2, <2>3, <2>7
    <3>2. Abs(m - h) > Abs(m - (h + MaxTTI))
      BY <1>1, <1>3, <2>1, <2>2, <3>1 DEF Abs
    <3> QED BY <3>1, <3>2 DEF h
  <2> QED BY <2>5, <2>6, <2>7
<1>7. DOMAIN a = D
  OBVIOUS
<1>8. unwrap_tti_array(a) = [c \in D |-> n[c] - MaxTTI * q]
  <2> HIDE DEF a, q
  <2> QED BY <1>6, <1>7 DEF unwrap_tti_array
<1> QED BY <1>5, <1>8
-----------------------------------------------------------------------------
(* Functions defined by recursion on 0 .. n.                               *)

(* f begins with a, and each value follows from the one before by a step.  *)
Recursion(f, n, a, h) == f[0] = a /\ \A i \in 1 .. n : f[i] = h[i][f[i - 1]]

(* Such a function exists when each value follows from the one before, by  *)
(* a step h that stays within S.                                           *)
LEMMA RecursionExists ==
  ASSUME NEW n \in Nat, NEW S, NEW a \in S, NEW h \in [1 .. n -> [S -> S]]
  PROVE  \E f \in [0 .. n -> S] : Recursion(f, n, a, h)
<1> DEFINE Goes(m, f) == f[0] = a /\ \A i \in 1 .. m : f[i] = h[i][f[i - 1]]
           T == {m \in 0 .. n : ~ \E f \in [0 .. m -> S] : Goes(m, f)}
<1>1. T = {}
  <2> SUFFICES ASSUME T # {} PROVE FALSE
    OBVIOUS
  <2>1. T \subseteq Nat
    OBVIOUS
  <2>2. PICK m \in T : \A k \in T : m <= k
    <3> HIDE DEF T
    <3> QED BY <2>1, LeastNat
  <2>3. m \in 0 .. n /\ ~ \E f \in [0 .. m -> S] : Goes(m, f)
    BY <2>2
  <2>4. CASE m = 0
    <3> DEFINE f == [i \in 0 .. 0 |-> a]
    <3>1. f \in [0 .. 0 -> S] /\ Goes(0, f)
      OBVIOUS
    <3> QED BY <2>3, <2>4, <3>1
  <2>5. CASE m # 0
    <3>1. m - 1 \in 0 .. n /\ ~(m <= m - 1)
      BY <2>3, <2>5
    <3>2. m - 1 \notin T
      BY <2>2, <3>1
    <3>3. PICK f \in [0 .. m - 1 -> S] : Goes(m - 1, f)
      BY <3>1, <3>2
    <3> DEFINE g == [i \in 0 .. m |-> IF i = m THEN h[m][f[m - 1]] ELSE f[i]]
    <3>4. f[m - 1] \in S /\ m \in 1 .. n
      BY <2>3, <2>5
    <3>5. h[m][f[m - 1]] \in S
      BY <3>4
    <3>6. \A i \in 0 .. m : i # m => i \in 0 .. m - 1
      BY <2>3
    <3>7. g \in [0 .. m -> S]
      BY <3>5, <3>6
    <3>8. g[0] = a
      BY <2>3, <2>5, <3>3
    <3>9. ASSUME NEW i \in 1 .. m PROVE g[i] = h[i][g[i - 1]]
      <4>1. i \in 0 .. m /\ i - 1 \in 0 .. m /\ i - 1 # m /\ m \in Nat
        BY <2>3
      <4>2. g[i - 1] = f[i - 1]
        BY <4>1
      <4>3. CASE i = m
        BY <4>1, <4>2, <4>3
      <4>4. CASE i # m
        <5>1. i \in 1 .. m - 1
          BY <4>1, <4>4
        <5> QED BY <3>3, <4>1, <4>2, <4>4, <5>1
      <4> QED BY <4>3, <4>4
    <3> QED
      <4> HIDE DEF g
      <4> QED BY <2>3, <3>7, <3>8, <3>9
  <2> QED BY <2>4, <2>5
<1>2. n \in 0 .. n /\ n \notin T
  <2> HIDE DEF T
  <2> QED BY <1>1
<1> QED BY <1>2 DEF Recursion

(* What holds of a and is kept by every step holds of the last value.      *)
LEMMA RecursionKeeps ==
  ASSUME NEW n \in Nat, NEW f, NEW T,
         f[0] \in T[0],
         \A i \in 1 .. n : f[i - 1] \in T[i - 1] => f[i] \in T[i]
  PROVE  \A i \in 0 .. n : f[i] \in T[i]
<1> DEFINE Bad == {i \in 0 .. n : f[i] \notin T[i]}
<1> SUFFICES ASSUME Bad # {} PROVE FALSE
  OBVIOUS
<1>1. Bad \subseteq Nat
  OBVIOUS
<1>2. PICK m \in Bad : \A k \in Bad : m <= k
  <2> HIDE DEF Bad
  <2> QED BY <1>1, LeastNat
<1>3. m \in 1 .. n /\ f[m] \notin T[m]
  BY <1>2
<1>4. m - 1 \in 0 .. n /\ ~(m <= m - 1)
  BY <1>3
<1>5. f[m - 1] \in T[m - 1]
  BY <1>2, <1>4
<1> QED BY <1>3, <1>5

=============================================================================
