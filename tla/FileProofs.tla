------------------------------ MODULE FileProofs ------------------------------
(***************************************************************************)
(* Proofs about what is kept as a row of things and changed one piece at a *)
(* time: the changes the catalogue editor stores (ChangeEditor) and the    *)
(* bytes of an installer (InstallerFile), for any catalogue, any number of *)
(* changes and packed files, and whatever room a base, an icon, a record,  *)
(* a plan, a packed file or a signature takes.                             *)
(*                                                                         *)
(* Inductions are made by the least number at which they would fail.       *)
(***************************************************************************)
EXTENDS ChangeEditor, InstallerFile, SequenceTheorems, FiniteSetTheorems, WellFoundedInduction, TLAPS

(***************************************************************************)
(* Lists: what a loop passes on is in order, and there is one such order.  *)
(***************************************************************************)
\* A set of numbers that is not empty has a least one.
LEMMA LeastNat ==
    ASSUME NEW T \in SUBSET Nat, T # {} PROVE \E x \in T : \A y \in T : x <= y
  <1> DEFINE Less == {ss \in Nat \X Nat : ss[1] < ss[2]}
  <1>1. IsWellFoundedOn(Less, Nat)
    BY NatLessThanWellFounded DEF OpToRel
  <1>2. PICK x \in T : \A y \in T : ~ (<<y, x>> \in Less)
    <2> HIDE DEF Less
    <2>1. QED  BY <1>1, WFMin
  <1>3. ASSUME NEW y \in T PROVE x <= y
    <2>1. <<y, x>> \in Nat \X Nat /\ <<y, x>>[1] = y /\ <<y, x>>[2] = x
      OBVIOUS
    <2>2. ~(y < x)
      BY <1>2, <2>1, Zenon
    <2>3. QED  BY <2>2
  <1>4. QED  BY <1>3

OnePlace(P, places, k) == IF k \in P THEN Append(places, k) ELSE places

\* p is the set S of numbers, in order.
Enumerates(p, S) ==
    /\ p \in Seq(Nat)
    /\ \A i, j \in DOMAIN p : i < j => p[i] < p[j]
    /\ \A i \in DOMAIN p : p[i] \in S
    /\ \A x \in S : \E i \in DOMAIN p : p[i] = x

LEMMA PlacesGrow ==
    ASSUME NEW n \in Nat, NEW P
    PROVE  PlacesUpTo(n, P) = [k \in 0..n |-> IF k = 0 THEN <<>> ELSE OnePlace(P, PlacesUpTo(n, P)[k - 1], k)]
  <1> DEFINE Is(g, m) == g = [k \in 0..m |-> IF k = 0 THEN <<>> ELSE OnePlace(P, g[k - 1], k)]
             T == {m \in Nat : \A g : ~Is(g, m)}
  <1>1. T = {}
    <2> SUFFICES ASSUME T # {} PROVE FALSE
      OBVIOUS
    <2>1. PICK m \in T : \A y \in T : m <= y
      BY LeastNat
    <2>2. m # 0
      <3> DEFINE g == [k \in 0..0 |-> <<>>]
      <3>1. Is(g, 0)
        OBVIOUS
      <3>2. QED  BY <3>1
    <2>3. m - 1 \in Nat /\ m - 1 \notin T
      <3>1. m \in Nat
        OBVIOUS
      <3> HIDE DEF T
      <3>2. QED  BY <2>1, <2>2, <3>1
    <2>4. PICK g : Is(g, m - 1)
      <3> HIDE DEF Is
      <3>1. QED  BY <2>3
    <2> DEFINE h == [k \in 0..m |-> IF k = m THEN OnePlace(P, g[m - 1], m) ELSE g[k]]
    <2>5. ASSUME NEW k \in 0..m PROVE h[k] = IF k = 0 THEN <<>> ELSE OnePlace(P, h[k - 1], k)
      <3>1. CASE k = m
        BY <2>2, <3>1
      <3>2. CASE k # m
        <4>1. k \in 0..(m - 1) /\ h[k] = g[k]
          BY <3>2
        <4>2. g[k] = IF k = 0 THEN <<>> ELSE OnePlace(P, g[k - 1], k)
          BY <2>4, <4>1
        <4>3. k # 0 => h[k - 1] = g[k - 1]
          BY <4>1
        <4>4. QED  BY <4>1, <4>2, <4>3
      <3>3. QED  BY <3>1, <3>2
    <2> DEFINE rhs == [k \in 0..m |-> IF k = 0 THEN <<>> ELSE OnePlace(P, h[k - 1], k)]
    <2>6. h = rhs
      <3>1. DOMAIN h = 0..m /\ h = [k \in 0..m |-> h[k]]
        OBVIOUS
      <3> HIDE DEF h
      <3>2. QED  BY <2>5, <3>1
    <2> HIDE DEF h
    <2>7. QED  BY <2>6
  <1>2. \E g : Is(g, n)
    BY <1>1
  <1>3. QED  BY <1>2 DEF PlacesUpTo, OnePlace

\* The places in P of a list of n, in order.
LEMMA PlacesAre ==
    ASSUME NEW n \in Nat, NEW P
    PROVE  Enumerates(Places(n, P), P \cap (1..n))
  <1> DEFINE L == PlacesUpTo(n, P)
             Good(k) == Enumerates(L[k], P \cap (1..k))
             T == {k \in Nat : k <= n /\ ~Good(k)}
  <1>1. L[0] = <<>> /\ \A k \in 1..n : L[k] = OnePlace(P, L[k - 1], k)
    BY PlacesGrow
  <1> HIDE DEF L
  <1>2. Good(0)
    BY <1>1 DEF Enumerates
  <1>3. ASSUME NEW k \in 1..n, Good(k - 1) PROVE Good(k)
    <2> DEFINE q == L[k - 1]
    <2>1. q \in Seq(Nat) /\ \A i \in DOMAIN q : q[i] \in P \cap (1..(k - 1))
      BY <1>3 DEF Enumerates
    <2>2. CASE k \notin P
      <3>1. P \cap (1..k) = P \cap (1..(k - 1))
        BY <2>2
      <3>2. L[k] = q
        BY <1>1, <2>2 DEF OnePlace
      <3>3. QED  BY <1>3, <3>1, <3>2
    <2>3. CASE k \in P
      <3> DEFINE r == Append(q, k)
      <3>1. L[k] = r
        BY <1>1, <2>3 DEF OnePlace
      <3>2. /\ r \in Seq(Nat) /\ Len(q) \in Nat /\ DOMAIN q = 1..Len(q) /\ DOMAIN r = 1..(Len(q) + 1)
            /\ r[Len(q) + 1] = k /\ \A i \in DOMAIN q : r[i] = q[i]
        <4>1. ASSUME NEW x \in Seq(Nat), NEW y \in Nat
              PROVE  /\ Append(x, y) \in Seq(Nat) /\ Len(x) \in Nat /\ DOMAIN x = 1..Len(x)
                     /\ DOMAIN Append(x, y) = 1..(Len(x) + 1)
                     /\ Append(x, y)[Len(x) + 1] = y /\ \A i \in DOMAIN x : Append(x, y)[i] = x[i]
          OBVIOUS
        <4>2. k \in Nat
          OBVIOUS
        <4> HIDE DEF q
        <4>3. QED  BY <2>1, <4>1, <4>2
      <3>3. Enumerates(q, P \cap (1..(k - 1)))
        BY <1>3
      <3> HIDE DEF r, q
      <3>4. \A i, j \in DOMAIN r : i < j => r[i] < r[j]
        <4> SUFFICES ASSUME NEW i \in DOMAIN r, NEW j \in DOMAIN r, i < j PROVE r[i] < r[j]
          OBVIOUS
        <4>1. i \in DOMAIN q /\ q[i] \in 1..(k - 1) /\ r[i] = q[i]
          <5>1. Len(q) \in Nat /\ i \in 1..(Len(q) + 1) /\ j \in 1..(Len(q) + 1)
            BY <2>1, <3>2
          <5>2. i \in 1..Len(q)
            BY <5>1
          <5>3. i \in DOMAIN q /\ r[i] = q[i]
            BY <3>2, <5>2
          <5>4. q[i] \in 1..(k - 1)
            BY <2>1, <5>3
          <5>5. QED  BY <5>3, <5>4
        <4>2. CASE j = Len(q) + 1
          <5>1. r[j] = k
            BY <3>2, <4>2
          <5>2. q[i] < k
            <6>1. q[i] \in 1..(k - 1)
              BY <4>1
            <6>2. QED  BY <6>1
          <5>3. QED  BY <4>1, <5>1, <5>2
        <4>3. CASE j # Len(q) + 1
          <5>1. j \in DOMAIN q /\ r[j] = q[j]
            BY <2>1, <3>2, <4>3
          <5>2. QED  BY <3>3, <4>1, <5>1 DEF Enumerates
        <4>4. QED  BY <4>2, <4>3
      <3>5. \A i \in DOMAIN r : r[i] \in P \cap (1..k)
        <4> SUFFICES ASSUME NEW i \in DOMAIN r PROVE r[i] \in P \cap (1..k)
          OBVIOUS
        <4>1. CASE i = Len(q) + 1
          BY <2>3, <3>2, <4>1
        <4>2. CASE i # Len(q) + 1
          <5>1. i \in DOMAIN q
            BY <2>1, <3>2, <4>2
          <5>2. r[i] = q[i]
            BY <3>2, <5>1
          <5>3. r[i] \in P /\ r[i] \in 1..(k - 1)
            BY <2>1, <5>1, <5>2
          <5>4. QED  BY <5>3
        <4>3. QED  BY <4>1, <4>2
      <3>6. \A x \in P \cap (1..k) : \E i \in DOMAIN r : r[i] = x
        <4> SUFFICES ASSUME NEW x \in P \cap (1..k) PROVE \E i \in DOMAIN r : r[i] = x
          OBVIOUS
        <4>1. CASE x = k
          <5>1. Len(q) + 1 \in DOMAIN r
            BY <3>2
          <5>2. QED  BY <3>2, <4>1, <5>1
        <4>2. CASE x # k
          <5>1. x \in P \cap (1..(k - 1))
            BY <4>2
          <5>2. PICK i \in DOMAIN q : q[i] = x
            BY <3>3, <5>1 DEF Enumerates
          <5>3. i \in DOMAIN r /\ r[i] = x
            BY <3>2, <5>2
          <5>4. QED  BY <5>3
        <4>3. QED  BY <4>1, <4>2
      <3>7. QED  BY <3>1, <3>2, <3>4, <3>5, <3>6 DEF Enumerates
    <2>4. QED  BY <2>2, <2>3
  <1> HIDE DEF Good
  <1>4. T = {}
    <2> SUFFICES ASSUME T # {} PROVE FALSE
      OBVIOUS
    <2>1. PICK k \in T : \A y \in T : k <= y
      BY LeastNat
    <2>2. k \in 1..n
      BY <1>2
    <2>3. k - 1 \notin T /\ k - 1 \in Nat /\ k - 1 <= n
      <3>1. k - 1 \in Nat /\ k - 1 <= n /\ ~(k <= k - 1)
        BY <2>2
      <3> HIDE DEF T
      <3>2. QED  BY <2>1, <3>1
    <2>4. Good(k - 1)
      BY <2>3
    <2>5. QED  BY <1>3, <2>2, <2>4
  <1>5. n \in Nat /\ n <= n
    OBVIOUS
  <1>6. Good(n)
    BY <1>4, <1>5
  <1>7. QED  BY <1>6 DEF Good, L, Places

\* There is one order of them.
LEMMA OneOrder ==
    ASSUME NEW S, NEW p, NEW q, Enumerates(p, S), Enumerates(q, S)
    PROVE  p = q
  <1> DEFINE T == {k \in Nat : k \in DOMAIN p /\ k \in DOMAIN q /\ p[k] # q[k]}
  <1>1. /\ p \in Seq(Nat) /\ q \in Seq(Nat)
    BY DEF Enumerates
  <1>2. /\ DOMAIN p = 1..Len(p) /\ DOMAIN q = 1..Len(q) /\ Len(p) \in Nat /\ Len(q) \in Nat
        /\ \A i \in DOMAIN p : p[i] \in Nat
        /\ \A i \in DOMAIN q : q[i] \in Nat
    BY <1>1
  <1>3. ASSUME NEW a, NEW b, Enumerates(a, S), Enumerates(b, S),
               NEW k \in DOMAIN a, k \in DOMAIN b, a[k] < b[k], \A i \in 1..(k - 1) : a[i] = b[i]
        PROVE  FALSE
    <2>1. a \in Seq(Nat) /\ b \in Seq(Nat)
      BY <1>3 DEF Enumerates
    <2>2. a \in Seq(Nat) /\ b \in Seq(Nat) /\ k \in Nat
      BY <1>3, <2>1
    <2>3. /\ DOMAIN a = 1..Len(a) /\ DOMAIN b = 1..Len(b) /\ Len(a) \in Nat /\ Len(b) \in Nat
          /\ \A i \in DOMAIN a : a[i] \in Nat
          /\ \A i \in DOMAIN b : b[i] \in Nat
      BY <2>2
    <2>4. PICK j \in DOMAIN b : b[j] = a[k]
      BY <1>3 DEF Enumerates
    <2>5. j < k
      <3> SUFFICES ASSUME k <= j PROVE FALSE
        BY <2>2, <2>3
      <3>1. CASE j = k
        <4>1. a[k] \in Nat /\ b[k] = a[k]
          BY <1>3, <2>3, <2>4, <3>1
        <4>2. QED  BY <1>3, <4>1
      <3>2. CASE j # k
        <4>1. k < j
          BY <2>2, <2>3, <3>2
        <4>2. b[k] < b[j]
          BY <1>3, <4>1 DEF Enumerates
        <4>3. a[k] \in Nat /\ b[k] \in Nat /\ b[j] \in Nat
          BY <1>3, <2>3
        <4>4. QED  BY <1>3, <2>4, <4>2, <4>3
      <3>3. QED  BY <3>1, <3>2
    <2>6. j \in 1..(k - 1) /\ j \in DOMAIN a
      BY <2>2, <2>3, <2>5
    <2>7. a[j] = a[k] /\ a[j] \in Nat
      BY <1>3, <2>3, <2>4, <2>6
    <2>8. a[j] < a[k]
      BY <1>3, <2>5, <2>6 DEF Enumerates
    <2>9. QED  BY <2>7, <2>8
  <1>4. T = {}
    <2> SUFFICES ASSUME T # {} PROVE FALSE
      OBVIOUS
    <2>1. PICK k \in T : \A y \in T : k <= y
      BY LeastNat
    <2>2. k \in DOMAIN p /\ k \in DOMAIN q /\ p[k] # q[k] /\ k \in Nat
      OBVIOUS
    <2>3. \A i \in 1..(k - 1) : p[i] = q[i]
      <3> SUFFICES ASSUME NEW i \in 1..(k - 1) PROVE p[i] = q[i]
        OBVIOUS
      <3>1. i \in Nat /\ i \in DOMAIN p /\ i \in DOMAIN q /\ ~(k <= i)
        BY <1>2, <2>2
      <3>2. i \notin T
        <4> HIDE DEF T
        <4>1. QED  BY <2>1, <3>1
      <3>3. QED  BY <3>1, <3>2
    <2>4. p[k] \in Nat /\ q[k] \in Nat
      BY <1>2, <2>2
    <2>5. p[k] < q[k] \/ q[k] < p[k]
      BY <2>2, <2>4
    <2> HIDE DEF T
    <2>6. QED  BY <1>3, <2>2, <2>3, <2>5
  <1>5. ASSUME NEW a, NEW b, Enumerates(a, S), Enumerates(b, S), Len(b) < Len(a),
               \A i \in Nat : i \in DOMAIN a /\ i \in DOMAIN b => a[i] = b[i]
        PROVE  FALSE
    <2>1. /\ a \in Seq(Nat) /\ b \in Seq(Nat)
      BY <1>5 DEF Enumerates
    <2>2. /\ DOMAIN a = 1..Len(a) /\ DOMAIN b = 1..Len(b) /\ Len(a) \in Nat /\ Len(b) \in Nat
          /\ \A i \in DOMAIN a : a[i] \in Nat
      BY <2>1
    <2> DEFINE n == Len(b) + 1
    <2>3. n \in DOMAIN a
      BY <1>5, <2>2
    <2>4. PICK j \in DOMAIN b : b[j] = a[n]
      BY <1>5, <2>3 DEF Enumerates
    <2>5. j \in Nat /\ j \in DOMAIN a /\ j < n
      BY <1>5, <2>2
    <2>6. a[j] = a[n] /\ a[j] \in Nat
      BY <1>5, <2>2, <2>4, <2>5
    <2> HIDE DEF n
    <2>7. a[j] < a[n]
      BY <1>5, <2>3, <2>5 DEF Enumerates
    <2>8. QED  BY <2>6, <2>7
  <1>6. \A i \in Nat : i \in DOMAIN p /\ i \in DOMAIN q => p[i] = q[i]
    BY <1>4
  <1>7. Len(p) = Len(q)
    <2>1. ~(Len(p) < Len(q))
      BY <1>5, <1>6
    <2>2. ~(Len(q) < Len(p))
      BY <1>5, <1>6
    <2>3. Len(p) \in Nat /\ Len(q) \in Nat
      BY <1>2
    <2>4. QED  BY <2>1, <2>2, <2>3
  <1>8. \A i \in DOMAIN p : p[i] = q[i]
    <2> SUFFICES ASSUME NEW i \in DOMAIN p PROVE p[i] = q[i]
      OBVIOUS
    <2>1. i \in Nat /\ i \in DOMAIN q
      BY <1>2, <1>7
    <2>2. QED  BY <1>6, <2>1
  <1>9. p = [i \in 1..Len(p) |-> p[i]] /\ q = [i \in 1..Len(q) |-> q[i]]
    BY <1>1
  <1>10. QED  BY <1>7, <1>8, <1>9, <1>2

LEMMA SamePlaces ==
    ASSUME NEW n \in Nat, NEW P, NEW Q, P \cap (1..n) = Q \cap (1..n)
    PROVE  Places(n, P) = Places(n, Q)
  BY PlacesAre, OneOrder

\* What is passed on of a list.
PassedOn(R, s, P) ==
    /\ Where(s, P) \in Seq(R)
    /\ DOMAIN Where(s, P) = DOMAIN Places(Len(s), P)
    /\ Len(Where(s, P)) = Len(Places(Len(s), P))
    /\ \A j \in DOMAIN Where(s, P) :
          Where(s, P)[j] = s[Places(Len(s), P)[j]] /\ Places(Len(s), P)[j] \in P \cap DOMAIN s

LEMMA WhereIs ==
    ASSUME NEW R, NEW s \in Seq(R), NEW P
    PROVE  PassedOn(R, s, P)
  <1> DEFINE p == Places(Len(s), P)
  <1>1. Len(s) \in Nat /\ DOMAIN s = 1..Len(s) /\ \A i \in DOMAIN s : s[i] \in R
    OBVIOUS
  <1>2. Enumerates(p, P \cap DOMAIN s)
    BY <1>1, PlacesAre
  <1>3. p \in Seq(Nat) /\ \A j \in DOMAIN p : p[j] \in P \cap DOMAIN s
    BY <1>2 DEF Enumerates
  <1>4. Where(s, P) = [j \in DOMAIN p |-> s[p[j]]]
    BY DEF Where
  <1> HIDE DEF p
  <1>5. Len(p) \in Nat /\ DOMAIN p = 1..Len(p)
    BY <1>3
  <1>6. Where(s, P) \in Seq(R) /\ DOMAIN Where(s, P) = DOMAIN p /\ Len(Where(s, P)) = Len(p)
    <2>1. \A j \in 1..Len(p) : s[p[j]] \in R
      BY <1>1, <1>3, <1>5
    <2>2. Where(s, P) = [j \in 1..Len(p) |-> s[p[j]]]
      BY <1>4, <1>5
    <2>3. [j \in 1..Len(p) |-> s[p[j]]] \in Seq(R) /\ Len([j \in 1..Len(p) |-> s[p[j]]]) = Len(p)
      BY <1>5, <2>1
    <2>4. QED  BY <1>4, <1>5, <2>2, <2>3
  <1>7. QED  BY <1>3, <1>4, <1>6 DEF p, PassedOn

Both(s, t) == s \o t
Beyond(n, P) == {j \in Nat : n + j \in P}
MovedBy(n, p) == [j \in DOMAIN p |-> n + p[j]]
Picked(s, p) == [j \in DOMAIN p |-> s[p[j]]]
Among(p, U) == {k \in DOMAIN p : p[k] \in U}

LEMMA BothAre ==
    ASSUME NEW R, NEW s \in Seq(R), NEW t \in Seq(R)
    PROVE  /\ Both(s, t) \in Seq(R) /\ Len(Both(s, t)) = Len(s) + Len(t)
           /\ DOMAIN Both(s, t) = 1..(Len(s) + Len(t))
  BY DEF Both
LEMMA BothSize ==
    ASSUME NEW R, NEW s \in Seq(R), NEW t \in Seq(R)
    PROVE  DOMAIN Both(s, t) = 1..(Len(s) + Len(t))
  BY DEF Both
LEMMA BothFirst ==
    ASSUME NEW R, NEW s \in Seq(R), NEW t \in Seq(R), NEW i \in 1..Len(s)
    PROVE  Both(s, t)[i] = s[i]
  BY DEF Both
LEMMA BothSecond ==
    ASSUME NEW R, NEW s \in Seq(R), NEW t \in Seq(R), NEW i \in 1..Len(t)
    PROVE  Both(s, t)[Len(s) + i] = t[i]
  BY DEF Both

\* Of two lists in a row.
LEMMA PlacesInBoth ==
    ASSUME NEW n \in Nat, NEW m \in Nat, NEW P
    PROVE  Places(n + m, P) = Both(Places(n, P), MovedBy(n, Places(m, Beyond(n, P))))
  <1> DEFINE Q == Beyond(n, P)
             a == Places(n, P)
             c == Places(m, Q)
             d == MovedBy(n, c)
             r == Both(a, d)
  <1>1. Enumerates(a, P \cap (1..n)) /\ Enumerates(c, Q \cap (1..m))
    BY PlacesAre
  <1>2. a \in Seq(Nat) /\ c \in Seq(Nat)
    BY <1>1 DEF Enumerates
  <1>3. \A i \in DOMAIN a : a[i] \in P /\ a[i] \in 1..n
    BY <1>1 DEF Enumerates
  <1>4. \A i \in DOMAIN c : c[i] \in Q /\ c[i] \in 1..m
    BY <1>1 DEF Enumerates
  <1> HIDE DEF a, c, Q
  <1>5. d \in Seq(Nat) /\ Len(d) = Len(c) /\ \A j \in DOMAIN c : d[j] = n + c[j]
    <2>1. DOMAIN c = 1..Len(c) /\ Len(c) \in Nat
      BY <1>2
    <2>2. \A j \in 1..Len(c) : n + c[j] \in Nat
      BY <1>2
    <2>3. d = [j \in 1..Len(c) |-> n + c[j]]
      BY <2>1 DEF MovedBy
    <2> HIDE DEF d
    <2>4. QED  BY <2>1, <2>2, <2>3
  <1> HIDE DEF d
  <1>6. r \in Seq(Nat) /\ Len(r) = Len(a) + Len(d) /\ DOMAIN r = 1..(Len(a) + Len(d))
        /\ (\A i \in 1..Len(a) : r[i] = a[i])
        /\ (\A i \in 1..Len(d) : r[Len(a) + i] = d[i])
    <2>1. d \in Seq(Nat)
      BY <1>5
    <2>2. r \in Seq(Nat)
      BY <1>2, <2>1, BothAre
    <2>3. Len(r) = Len(a) + Len(d) /\ DOMAIN r = 1..(Len(a) + Len(d))
      BY <1>2, <2>1, BothAre
    <2>4. \A i \in 1..Len(a) : r[i] = a[i]
      BY <1>2, <2>1, BothFirst
    <2>5. \A i \in 1..Len(d) : r[Len(a) + i] = d[i]
      BY <1>2, <2>1, BothSecond
    <2>6. QED  BY <2>2, <2>3, <2>4, <2>5
  <1> HIDE DEF r
  <1>7. Len(a) \in Nat /\ Len(c) \in Nat /\ DOMAIN a = 1..Len(a) /\ DOMAIN c = 1..Len(c) /\ DOMAIN r = 1..(Len(a) + Len(c))
    BY <1>2, <1>5, <1>6
  <1>8. \A i \in (Len(a) + 1)..(Len(a) + Len(c)) : i - Len(a) \in DOMAIN c /\ r[i] = n + c[i - Len(a)]
    <2> SUFFICES ASSUME NEW i \in (Len(a) + 1)..(Len(a) + Len(c)) PROVE i - Len(a) \in DOMAIN c /\ r[i] = n + c[i - Len(a)]
      OBVIOUS
    <2> DEFINE k == i - Len(a)
    <2>1. k \in DOMAIN c /\ k \in 1..Len(d) /\ i = Len(a) + k
      BY <1>5, <1>7
    <2> HIDE DEF k
    <2>2. r[i] = n + c[k]
      BY <1>5, <1>6, <2>1
    <2>3. QED  BY <2>1, <2>2 DEF k
  <1>9. \A i, j \in DOMAIN r : i < j => r[i] < r[j]
    <2> SUFFICES ASSUME NEW i \in DOMAIN r, NEW j \in DOMAIN r, i < j PROVE r[i] < r[j]
      OBVIOUS
    <2>1. i \in 1..(Len(a) + Len(c)) /\ j \in 1..(Len(a) + Len(c))
      BY <1>7
    <2>2. CASE j <= Len(a)
      <3>1. i \in DOMAIN a /\ j \in DOMAIN a
        BY <1>7, <2>1, <2>2
      <3>2. a[i] < a[j]
        BY <1>1, <3>1 DEF Enumerates
      <3>3. QED  BY <1>6, <1>7, <3>1, <3>2
    <2>3. CASE Len(a) < j /\ i <= Len(a)
      <3>1. i \in DOMAIN a /\ r[i] = a[i] /\ a[i] \in 1..n
        BY <1>6, <1>7, <1>3, <2>1, <2>3
      <3>2. j - Len(a) \in DOMAIN c /\ r[j] = n + c[j - Len(a)]
        BY <1>7, <1>8, <2>1, <2>3
      <3>3. c[j - Len(a)] \in 1..m
        BY <1>4, <3>2
      <3>4. QED  BY <3>1, <3>2, <3>3
    <2>4. CASE Len(a) < i
      <3>1. i - Len(a) \in DOMAIN c /\ r[i] = n + c[i - Len(a)]
        BY <1>7, <1>8, <2>1, <2>4
      <3>2. j - Len(a) \in DOMAIN c /\ r[j] = n + c[j - Len(a)]
        BY <1>7, <1>8, <2>1, <2>4
      <3>3. i - Len(a) < j - Len(a)
        BY <1>7, <2>1
      <3>4. c[i - Len(a)] < c[j - Len(a)]
        BY <1>1, <3>1, <3>2, <3>3 DEF Enumerates
      <3>5. c[i - Len(a)] \in 1..m /\ c[j - Len(a)] \in 1..m
        BY <1>4, <3>1, <3>2
      <3>6. QED  BY <3>1, <3>2, <3>4, <3>5
    <2>5. QED  BY <1>7, <2>1, <2>2, <2>3, <2>4
  <1>10. \A i \in DOMAIN r : r[i] \in P \cap (1..(n + m))
    <2> SUFFICES ASSUME NEW i \in DOMAIN r PROVE r[i] \in P \cap (1..(n + m))
      OBVIOUS
    <2>1. CASE i <= Len(a)
      <3>1. i \in DOMAIN a /\ r[i] = a[i] /\ a[i] \in P /\ a[i] \in 1..n
        BY <1>6, <1>7, <1>3, <2>1
      <3>2. QED  BY <3>1
    <2>2. CASE Len(a) < i
      <3>1. i - Len(a) \in DOMAIN c /\ r[i] = n + c[i - Len(a)]
        BY <1>7, <1>8, <2>2
      <3>2. c[i - Len(a)] \in Q /\ c[i - Len(a)] \in 1..m
        BY <1>4, <3>1
      <3>3. r[i] \in P
        BY <3>1, <3>2 DEF Q, Beyond
      <3>4. QED  BY <3>1, <3>2, <3>3
    <2>3. QED  BY <1>7, <2>1, <2>2
  <1>11. \A x \in P \cap (1..(n + m)) : \E i \in DOMAIN r : r[i] = x
    <2> SUFFICES ASSUME NEW x \in P \cap (1..(n + m)) PROVE \E i \in DOMAIN r : r[i] = x
      OBVIOUS
    <2>1. CASE x <= n
      <3>1. x \in P \cap (1..n)
        BY <2>1
      <3>2. PICK i \in DOMAIN a : a[i] = x
        BY <1>1, <3>1 DEF Enumerates
      <3>3. i \in DOMAIN r /\ r[i] = x
        BY <1>6, <1>7, <3>2
      <3>4. QED  BY <3>3
    <2>2. CASE n < x
      <3> DEFINE y == x - n
      <3>1. y \in 1..m /\ n + y = x
        BY <2>2
      <3> HIDE DEF y
      <3>2. y \in Q \cap (1..m)
        BY <3>1 DEF Q, Beyond
      <3>3. PICK j \in DOMAIN c : c[j] = y
        BY <1>1, <3>2 DEF Enumerates
      <3> DEFINE i == Len(a) + j
      <3>4. i \in (Len(a) + 1)..(Len(a) + Len(c)) /\ i - Len(a) = j /\ i \in DOMAIN r
        BY <1>7
      <3> HIDE DEF i
      <3>5. r[i] = x
        BY <1>8, <3>1, <3>3, <3>4
      <3>6. QED  BY <3>4, <3>5
    <2>3. QED  BY <2>1, <2>2
  <1>12. Enumerates(r, P \cap (1..(n + m)))
    BY <1>6, <1>9, <1>10, <1>11 DEF Enumerates
  <1>13. n + m \in Nat
    OBVIOUS
  <1>14. Places(n + m, P) = r
    BY <1>12, <1>13, PlacesAre, OneOrder
  <1>15. QED  BY <1>14 DEF r, d, a, c, Q

\* Of what was passed on before.
LEMMA PlacesOfPlaces ==
    ASSUME NEW n \in Nat, NEW A, NEW U
    PROVE  Places(n, A \cap U) = Picked(Places(n, A), Places(Len(Places(n, A)), Among(Places(n, A), U)))
  <1> DEFINE a == Places(n, A)
             Q == Among(a, U)
             c == Places(Len(a), Q)
             r == Picked(a, c)
  <1>1. Enumerates(a, A \cap (1..n))
    BY PlacesAre
  <1>2. a \in Seq(Nat)
    BY <1>1 DEF Enumerates
  <1> HIDE DEF a
  <1>3. Len(a) \in Nat /\ DOMAIN a = 1..Len(a)
    BY <1>2
  <1>4. Enumerates(c, Q \cap (1..Len(a)))
    <2> HIDE DEF Q
    <2>1. QED  BY <1>3, PlacesAre
  <1> HIDE DEF c
  <1>5. c \in Seq(Nat) /\ \A j \in DOMAIN c : c[j] \in DOMAIN a /\ a[c[j]] \in U
    BY <1>4 DEF Enumerates, Among
  <1>6. r \in Seq(Nat) /\ DOMAIN r = DOMAIN c /\ \A j \in DOMAIN c : r[j] = a[c[j]]
    <2>1. Len(c) \in Nat /\ DOMAIN c = 1..Len(c)
      BY <1>5
    <2>2. \A j \in 1..Len(c) : a[c[j]] \in Nat
      BY <1>2, <1>5, <2>1
    <2>3. r = [j \in 1..Len(c) |-> a[c[j]]]
      BY <2>1 DEF Picked
    <2> HIDE DEF r
    <2>4. r \in Seq(Nat)
      BY <2>1, <2>2, <2>3
    <2>5. QED  BY <2>1, <2>3, <2>4
  <1> HIDE DEF r
  <1>7. \A i, j \in DOMAIN r : i < j => r[i] < r[j]
    <2> SUFFICES ASSUME NEW i \in DOMAIN r, NEW j \in DOMAIN r, i < j PROVE r[i] < r[j]
      OBVIOUS
    <2>1. c[i] < c[j] /\ c[i] \in DOMAIN a /\ c[j] \in DOMAIN a
      BY <1>4, <1>5, <1>6 DEF Enumerates
    <2>2. a[c[i]] < a[c[j]]
      BY <1>1, <2>1 DEF Enumerates
    <2>3. QED  BY <1>6, <2>2
  <1>8. \A i \in DOMAIN r : r[i] \in (A \cap U) \cap (1..n)
    <2> SUFFICES ASSUME NEW i \in DOMAIN r PROVE r[i] \in (A \cap U) \cap (1..n)
      OBVIOUS
    <2>1. c[i] \in DOMAIN a /\ a[c[i]] \in U /\ r[i] = a[c[i]]
      BY <1>5, <1>6
    <2>2. a[c[i]] \in A \cap (1..n)
      BY <1>1, <2>1 DEF Enumerates
    <2>3. QED  BY <2>1, <2>2
  <1>9. \A x \in (A \cap U) \cap (1..n) : \E i \in DOMAIN r : r[i] = x
    <2> SUFFICES ASSUME NEW x \in (A \cap U) \cap (1..n) PROVE \E i \in DOMAIN r : r[i] = x
      OBVIOUS
    <2>1. PICK k \in DOMAIN a : a[k] = x
      BY <1>1 DEF Enumerates
    <2>2. k \in Q \cap (1..Len(a))
      BY <1>3, <2>1 DEF Among
    <2> HIDE DEF Q
    <2>3. PICK i \in DOMAIN c : c[i] = k
      BY <1>4, <2>2 DEF Enumerates
    <2>4. QED  BY <1>6, <2>1, <2>3
  <1>10. Enumerates(r, (A \cap U) \cap (1..n))
    BY <1>6, <1>7, <1>8, <1>9 DEF Enumerates
  <1>11. Places(n, A \cap U) = r
    BY <1>10, PlacesAre, OneOrder
  <1>12. QED  BY <1>11 DEF r, c, a

(***************************************************************************)
(* ChangeEditor. What the page shows and what builds get                  *)
(***************************************************************************)

GoodChange(c) ==
    /\ c.op \in {"add", "replace", "remove"} /\ c.kind \in Kinds \cup {"policy"}
    /\ c.kind = "policy" => c.op # "remove" /\ c.at = ThePolicy /\ c.id = ""
OneEach(cs) == \A j, k \in DOMAIN cs : ChangeKey(cs[j]) = ChangeKey(cs[k]) => j = k
GoodList(cs) == IsList(cs) /\ (\A k \in DOMAIN cs : GoodChange(cs[k])) /\ OneEach(cs)

ChangesTo(b, cs, kind, i) == {k \in DOMAIN cs : cs[k].kind = kind /\ cs[k].op # "add" /\ Locate(b, cs[k]) = i}
UsedTo(b, cs, kind, op, i) ==
    {k \in InUse(b, cs) : cs[k].kind = kind /\ cs[k].op = op /\ Locate(b, cs[k]) = i}
ItemUsed(b, cs, kind, i) ==
    IF UsedTo(b, cs, kind, "replace", i) = {} THEN b[kind][i] ELSE cs[Max(UsedTo(b, cs, kind, "replace", i))].value

\* At most one change to an item that is built in.
OncePerItem(b, cs, kind) ==
    \A i \in DOMAIN b[kind], j, k \in DOMAIN cs : j \in ChangesTo(b, cs, kind, i) /\ k \in ChangesTo(b, cs, kind, i) => j = k

LEMMA OfOne ==
    ASSUME NEW k \in Nat
    PROVE  Max({k}) = k /\ Min({k}) = k
  BY DEF Max, Min

LEMMA BuiltRowIs ==
    ASSUME NEW b, NEW cs, NEW kind \in Kinds, NEW i \in DOMAIN b[kind], IsList(b[kind]), GoodList(cs),
           OncePerItem(b, cs, kind)
    PROVE  /\ InUseRow(BuiltRow(b, cs, kind, i)) <=> UsedTo(b, cs, kind, "remove", i) = {}
           /\ InUseRow(BuiltRow(b, cs, kind, i)) => BuiltRow(b, cs, kind, i).v = ItemUsed(b, cs, kind, i)
  <1> DEFINE to == ChangesTo(b, cs, kind, i)
  <1>1. i # 0 /\ DOMAIN cs \subseteq Nat
    <2>1. b[kind] \in Seq(ToSet(b[kind])) /\ cs \in Seq(ToSet(cs))
      BY DEF IsList, GoodList
    <2>2. DOMAIN b[kind] = 1..Len(b[kind]) /\ DOMAIN cs = 1..Len(cs)
      BY <2>1
    <2>3. QED  BY <2>2
  <1>2. /\ UsedTo(b, cs, kind, "remove", i) = {k \in to : ChangeStatus(b, cs[k]) = "ok" /\ cs[k].op = "remove"}
        /\ UsedTo(b, cs, kind, "replace", i) = {k \in to : ChangeStatus(b, cs[k]) = "ok" /\ cs[k].op = "replace"}
    BY DEF UsedTo, ChangesTo, InUse
  <1>3. CASE to = {}
    <2>1. BuiltRow(b, cs, kind, i) = Row(i, "", b[kind][i], "", <<>>)
      BY <1>3 DEF BuiltRow, ChangesTo
    <2>2. UsedTo(b, cs, kind, "remove", i) = {} /\ UsedTo(b, cs, kind, "replace", i) = {}
      BY <1>2, <1>3
    <2>3. InUseRow(Row(i, "", b[kind][i], "", <<>>)) /\ Row(i, "", b[kind][i], "", <<>>).v = b[kind][i]
      BY <1>1 DEF InUseRow, Row
    <2>4. QED  BY <2>1, <2>2, <2>3 DEF ItemUsed
  <1>4. CASE to # {}
    <2>1. PICK k \in to : TRUE
      BY <1>4
    <2>2. k \in DOMAIN cs /\ k \in Nat /\ GoodChange(cs[k]) /\ cs[k].op # "add"
      BY <1>1, <2>1 DEF ChangesTo, GoodList
    <2>3. to = {k}
      <3>1. \A j \in to : j = k
        BY <2>1 DEF OncePerItem, ChangesTo
      <3>2. QED  BY <2>1, <3>1
    <2>4. Max(to) = k
      BY <2>2, <2>3, OfOne
    <2> DEFINE c == cs[k]
               row == BuiltRow(b, cs, kind, i)
    <2>5. row = CASE ChangeStatus(b, c) # "ok" -> Row(i, "", b[kind][i], "stale", ChangeKey(c))
                  [] ChangeStatus(b, c) = "ok" /\ c.op = "remove" -> Row(i, "", b[kind][i], "removed", ChangeKey(c))
                  [] OTHER -> Row(i, "", c.value, "changed", ChangeKey(c))
      BY <1>4, <2>4 DEF BuiltRow, ChangesTo
    <2>6. c.op \in {"replace", "remove"}
      BY <2>2 DEF GoodChange
    <2> HIDE DEF to, row, c
    <2>7. CASE ChangeStatus(b, c) # "ok"
      <3>1. row = Row(i, "", b[kind][i], "stale", ChangeKey(c))
        BY <2>5, <2>7
      <3>2. InUseRow(row) /\ row.v = b[kind][i]
        BY <1>1, <3>1 DEF InUseRow, Row
      <3>3. UsedTo(b, cs, kind, "remove", i) = {} /\ UsedTo(b, cs, kind, "replace", i) = {}
        BY <1>2, <2>3, <2>7 DEF c
      <3>4. QED  BY <3>2, <3>3 DEF ItemUsed, row
    <2>8. CASE ChangeStatus(b, c) = "ok" /\ c.op = "remove"
      <3>1. row = Row(i, "", b[kind][i], "removed", ChangeKey(c))
        BY <2>5, <2>8
      <3>2. ~InUseRow(row)
        BY <3>1 DEF InUseRow, Row
      <3>3. k \in UsedTo(b, cs, kind, "remove", i)
        BY <1>2, <2>3, <2>8 DEF c
      <3>4. QED  BY <3>2, <3>3 DEF row
    <2>9. CASE ChangeStatus(b, c) = "ok" /\ c.op = "replace"
      <3>1. row = Row(i, "", c.value, "changed", ChangeKey(c))
        BY <2>5, <2>9
      <3>2. InUseRow(row) /\ row.v = c.value
        BY <1>1, <3>1 DEF InUseRow, Row
      <3>3. UsedTo(b, cs, kind, "remove", i) = {} /\ UsedTo(b, cs, kind, "replace", i) = {k}
        BY <1>2, <2>3, <2>9 DEF c
      <3>4. ItemUsed(b, cs, kind, i) = c.value
        BY <2>2, <3>3, OfOne DEF ItemUsed, c
      <3>5. QED  BY <3>2, <3>3, <3>4 DEF row
    <2>10. QED  BY <2>6, <2>7, <2>8, <2>9
  <1>5. QED  BY <1>3, <1>4

LEMMA AddedRowIs ==
    ASSUME NEW b, NEW c
    PROVE  /\ InUseRow(AddedRow(b, c)) <=> ChangeStatus(b, c) = "ok"
           /\ AddedRow(b, c).v = c.value
  BY DEF InUseRow, AddedRow, Row
\* One list on the page, row by row, and the same list as builds get it.
UsedItems(b, cs, kind) == [i \in DOMAIN b[kind] |-> ItemUsed(b, cs, kind, i)]
KeptItems(b, cs, kind) == {i \in DOMAIN b[kind] : UsedTo(b, cs, kind, "remove", i) = {}}
AddsOf(cs, kind) == {k \in DOMAIN cs : cs[k].kind = kind /\ cs[k].op = "add"}
AddsUsed(b, cs, kind) == {k \in InUse(b, cs) : cs[k].kind = kind /\ cs[k].op = "add"}
ValuesOf(cs) == [k \in DOMAIN cs |-> cs[k].value]
BuiltItems(b, cs, kind) ==
    Where(UsedItems(b, cs, kind), KeptItems(b, cs, kind)) \o Where(ValuesOf(cs), AddsUsed(b, cs, kind))

LEMMA BuiltAre ==
    ASSUME NEW b, NEW cs, NEW kind \in Kinds
    PROVE  ApplyOverlay(b, cs)[kind] = BuiltItems(b, cs, kind)
  <1>1. /\ ApplyOverlay(b, cs).release = BuiltItems(b, cs, "release")
        /\ ApplyOverlay(b, cs).recipe = BuiltItems(b, cs, "recipe")
        /\ ApplyOverlay(b, cs).rule = BuiltItems(b, cs, "rule")
    BY Zenon DEF ApplyOverlay, BuiltItems, UsedItems, KeptItems, AddsUsed, ValuesOf, ItemUsed, UsedTo
  <1>2. QED  BY <1>1 DEF Kinds

\* The places of both parts of what builds get, among the rows of the page.
RowsBuilt(b, cs, kind) == [i \in DOMAIN b[kind] |-> BuiltRow(b, cs, kind, i)]
RowsMade(b, cs) == [k \in DOMAIN cs |-> AddedRow(b, cs[k])]
RowsAdded(b, cs, kind) == Where(RowsMade(b, cs), AddsOf(cs, kind))

LEMMA AsSequences ==
    ASSUME NEW s, IsList(s), NEW t, DOMAIN t = DOMAIN s, t = [i \in DOMAIN s |-> t[i]]
    PROVE  t \in Seq(ToSet(t)) /\ Len(t) = Len(s) /\ Len(s) \in Nat /\ DOMAIN s = 1..Len(s)
  <1>1. Len(s) \in Nat /\ DOMAIN s = 1..Len(s)
    BY DEF IsList
  <1>2. \A i \in 1..Len(s) : t[i] \in ToSet(t)
    BY <1>1 DEF ToSet
  <1>3. t = [i \in 1..Len(s) |-> t[i]]
    BY <1>1
  <1>4. QED  BY <1>1, <1>2, <1>3

\* Two lists in a row, and what is passed on of them.
LEMMA WhereOfBoth ==
    ASSUME NEW R, NEW s \in Seq(R), NEW t \in Seq(R), NEW P
    PROVE  LET a == Places(Len(s), P)
               c == Places(Len(t), Beyond(Len(s), P))
               w == Where(Both(s, t), P)
           IN  /\ DOMAIN w = 1..(Len(a) + Len(c)) /\ Len(a) \in Nat /\ Len(c) \in Nat
               /\ \A i \in 1..Len(a) : a[i] \in P \cap DOMAIN s /\ w[i] = s[a[i]]
               /\ \A i \in 1..Len(c) : c[i] \in DOMAIN t /\ Len(s) + c[i] \in P /\ w[Len(a) + i] = t[c[i]]
  <1> DEFINE n == Len(s)
             m == Len(t)
             Q == Beyond(n, P)
             a == Places(n, P)
             c == Places(m, Q)
             d == MovedBy(n, c)
             r == Places(n + m, P)
             st == Both(s, t)
             w == Where(st, P)
  <1>1. n \in Nat /\ m \in Nat /\ DOMAIN s = 1..n /\ DOMAIN t = 1..m
    OBVIOUS
  <1>2. st \in Seq(R) /\ Len(st) = n + m
        /\ (\A i \in 1..n : st[i] = s[i])
        /\ (\A i \in 1..m : st[n + i] = t[i])
    <2>1. st \in Seq(R)
      BY BothAre
    <2>2. Len(st) = n + m
      BY BothAre
    <2>3. \A i \in 1..n : st[i] = s[i]
      BY BothFirst
    <2>4. \A i \in 1..m : st[n + i] = t[i]
      BY BothSecond
    <2>5. QED  BY <2>1, <2>2, <2>3, <2>4
  <1>3. Enumerates(a, P \cap (1..n)) /\ Enumerates(c, Q \cap (1..m))
    BY <1>1, PlacesAre
  <1>4. r = Both(a, d)
    BY <1>1, PlacesInBoth
  <1> HIDE DEF st
  <1>5. DOMAIN w = DOMAIN r /\ \A j \in DOMAIN w : w[j] = st[r[j]]
    <2>1. r = Places(Len(st), P) /\ st \in Seq(R)
      BY <1>2
    <2> HIDE DEF r
    <2>2. PassedOn(R, st, P)
      BY <2>1, WhereIs
    <2>3. QED  BY <2>1, <2>2 DEF PassedOn
  <1> HIDE DEF n, m, r, w
  <1>6. /\ a \in Seq(Nat) /\ c \in Seq(Nat)
        /\ \A i \in DOMAIN a : a[i] \in P /\ a[i] \in 1..n
        /\ \A i \in DOMAIN c : c[i] \in Q /\ c[i] \in 1..m
    BY <1>3 DEF Enumerates
  <1> HIDE DEF a, c
  <1>7. Len(a) \in Nat /\ Len(c) \in Nat /\ DOMAIN a = 1..Len(a) /\ DOMAIN c = 1..Len(c)
    BY <1>6
  <1>8. d \in Seq(Nat) /\ Len(d) = Len(c) /\ \A i \in 1..Len(c) : d[i] = n + c[i]
    <2>1. d = [j \in 1..Len(c) |-> n + c[j]]
      BY <1>7 DEF MovedBy
    <2>2. \A j \in 1..Len(c) : n + c[j] \in Nat
      BY <1>1, <1>6, <1>7
    <2> HIDE DEF d
    <2>3. QED  BY <1>7, <2>1, <2>2
  <1> HIDE DEF d
  <1>9. /\ DOMAIN r = 1..(Len(a) + Len(c))
        /\ \A i \in 1..Len(a) : r[i] = a[i]
        /\ \A i \in 1..Len(c) : r[Len(a) + i] = d[i]
    <2>1. d \in Seq(Nat) /\ Len(d) = Len(c)
      BY <1>8
    <2>2. DOMAIN r = 1..(Len(a) + Len(d))
      <3>1. a \in Seq(Nat)
        BY <1>6
      <3>2. DOMAIN Both(a, d) = 1..(Len(a) + Len(d))
        BY <2>1, <3>1, BothSize
      <3>3. QED  BY <1>4, <3>2
    <2>3. \A i \in 1..Len(a) : r[i] = a[i]
      BY <1>4, <1>6, <2>1, BothFirst
    <2>4. \A i \in 1..Len(d) : r[Len(a) + i] = d[i]
      BY <1>4, <1>6, <2>1, BothSecond
    <2>5. QED  BY <2>1, <2>2, <2>3, <2>4
  <1>10. ASSUME NEW i \in 1..Len(a)
         PROVE  a[i] \in P \cap DOMAIN s /\ w[i] = s[a[i]]
    <2>1. i \in DOMAIN r /\ r[i] = a[i] /\ a[i] \in P /\ a[i] \in 1..n
      <3>1. i \in DOMAIN a
        BY <1>7
      <3>2. a[i] \in P /\ a[i] \in 1..n
        BY <1>6, <3>1
      <3>3. i \in DOMAIN r /\ r[i] = a[i]
        BY <1>7, <1>9
      <3>4. QED  BY <3>2, <3>3
    <2>2. w[i] = st[a[i]]
      BY <1>5, <2>1
    <2>3. QED  BY <1>1, <1>2, <2>1, <2>2
  <1>11. ASSUME NEW i \in 1..Len(c)
         PROVE  c[i] \in DOMAIN t /\ n + c[i] \in P /\ w[Len(a) + i] = t[c[i]]
    <2>1. Len(a) + i \in DOMAIN r /\ r[Len(a) + i] = n + c[i]
      BY <1>7, <1>8, <1>9
    <2>2. c[i] \in 1..m /\ n + c[i] \in P
      BY <1>6, <1>7 DEF Beyond
    <2>3. w[Len(a) + i] = st[n + c[i]]
      BY <1>5, <2>1
    <2>4. QED  BY <1>1, <1>2, <2>2, <2>3
  <1>12. QED
    BY <1>5, <1>7, <1>9, <1>10, <1>11 DEF a, c, n, m, w, st

LEMMA RowsAgree ==
    ASSUME NEW b, NEW cs, NEW kind \in Kinds, IsList(b[kind]), GoodList(cs), OncePerItem(b, cs, kind)
    PROVE  ApplyOverlay(b, cs)[kind] = ValuesInUse(ItemRows(b, cs, kind))
  <1> DEFINE base1 == b[kind]
             r1 == RowsBuilt(b, cs, kind)
             s2 == RowsMade(b, cs)
             A == AddsOf(cs, kind)
             a2 == Places(Len(cs), A)
             r2 == RowsAdded(b, cs, kind)
             rows == Both(r1, r2)
             P == {k \in DOMAIN rows : InUseRow(rows[k])}
             Q == Beyond(Len(r1), P)
             a == Places(Len(r1), P)
             c == Places(Len(r2), Q)
             W == Where(rows, P)
             R == ToSet(r1) \cup ToSet(s2)
             v1 == UsedItems(b, cs, kind)
             v2 == ValuesOf(cs)
             K == KeptItems(b, cs, kind)
             U == AddsUsed(b, cs, kind)
             w1 == Where(v1, K)
             w2 == Where(v2, U)
  <1>1. ItemRows(b, cs, kind) = rows
    BY Zenon DEF ItemRows, RowsBuilt, RowsMade, RowsAdded, AddsOf, Both
  <1>2. /\ r1 \in Seq(ToSet(r1)) /\ Len(r1) = Len(base1) /\ Len(base1) \in Nat /\ DOMAIN base1 = 1..Len(base1)
        /\ v1 \in Seq(ToSet(v1)) /\ Len(v1) = Len(base1)
    BY AsSequences DEF RowsBuilt, UsedItems
  <1>3. /\ s2 \in Seq(ToSet(s2)) /\ Len(s2) = Len(cs) /\ Len(cs) \in Nat /\ DOMAIN cs = 1..Len(cs)
        /\ v2 \in Seq(ToSet(v2)) /\ Len(v2) = Len(cs)
    BY AsSequences DEF RowsMade, ValuesOf, GoodList
  <1>4. /\ \A i \in DOMAIN base1 : r1[i] = BuiltRow(b, cs, kind, i) /\ v1[i] = ItemUsed(b, cs, kind, i)
        /\ DOMAIN r1 = DOMAIN base1 /\ DOMAIN v1 = DOMAIN base1
        /\ \A k \in DOMAIN cs : s2[k] = AddedRow(b, cs[k]) /\ v2[k] = cs[k].value
        /\ DOMAIN s2 = DOMAIN cs /\ DOMAIN v2 = DOMAIN cs
    BY DEF RowsBuilt, UsedItems, RowsMade, ValuesOf
  <1>5. /\ r2 \in Seq(ToSet(s2)) /\ Len(r2) = Len(a2) /\ DOMAIN r2 = DOMAIN a2
        /\ \A j \in DOMAIN r2 : r2[j] = s2[a2[j]] /\ a2[j] \in A \cap DOMAIN s2
    <2>1. s2 \in Seq(ToSet(s2)) /\ a2 = Places(Len(s2), A) /\ r2 = Where(s2, A)
      BY <1>3 DEF RowsAdded
    <2> HIDE DEF s2, a2, r2, A
    <2>2. PassedOn(ToSet(s2), s2, A)
      BY <2>1, WhereIs
    <2>3. QED  BY <2>1, <2>2 DEF PassedOn
  <1> HIDE DEF base1, r1, s2, r2, v1, v2
  <1>6. r1 \in Seq(R) /\ r2 \in Seq(R)
    <2>1. ASSUME NEW X, NEW Y, NEW x \in Seq(X) PROVE x \in Seq(X \cup Y) /\ x \in Seq(Y \cup X)
      OBVIOUS
    <2>2. QED  BY <1>2, <1>5, <2>1
  <1> HIDE DEF R
  <1>7. /\ DOMAIN W = 1..(Len(a) + Len(c))
        /\ Len(a) \in Nat /\ Len(c) \in Nat
        /\ \A i \in 1..Len(a) : a[i] \in P \cap DOMAIN r1 /\ W[i] = r1[a[i]]
        /\ \A i \in 1..Len(c) : c[i] \in DOMAIN r2 /\ Len(r1) + c[i] \in P /\ W[Len(a) + i] = r2[c[i]]
    <2> HIDE DEF P
    <2>1. QED  BY <1>6, WhereOfBoth
  <1>8. /\ DOMAIN rows = 1..(Len(r1) + Len(r2)) /\ DOMAIN r1 = 1..Len(r1) /\ DOMAIN r2 = 1..Len(r2)
        /\ Len(r1) \in Nat /\ Len(r2) \in Nat
        /\ \A i \in 1..Len(r1) : rows[i] = r1[i]
        /\ \A j \in 1..Len(r2) : rows[Len(r1) + j] = r2[j]
    <2>1. DOMAIN rows = 1..(Len(r1) + Len(r2))
      BY <1>6, BothAre
    <2>2. DOMAIN r1 = 1..Len(r1) /\ DOMAIN r2 = 1..Len(r2) /\ Len(r1) \in Nat /\ Len(r2) \in Nat
      BY <1>6
    <2>3. \A i \in 1..Len(r1) : rows[i] = r1[i]
      BY <1>6, BothFirst
    <2>4. \A j \in 1..Len(r2) : rows[Len(r1) + j] = r2[j]
      BY <1>6, BothSecond
    <2>5. QED  BY <2>1, <2>2, <2>3, <2>4
  <1> HIDE DEF rows
  <1>9. \A i \in DOMAIN base1 : i \in P <=> i \in K
    <2> SUFFICES ASSUME NEW i \in DOMAIN base1 PROVE i \in P <=> i \in K
      OBVIOUS
    <2>1. i \in DOMAIN rows /\ rows[i] = BuiltRow(b, cs, kind, i)
      BY <1>2, <1>4, <1>8
    <2>2. InUseRow(BuiltRow(b, cs, kind, i)) <=> UsedTo(b, cs, kind, "remove", i) = {}
      BY BuiltRowIs DEF base1
    <2>3. QED  BY <2>1, <2>2 DEF KeptItems, base1
  <1>10. \A j \in DOMAIN r2 : Len(r1) + j \in P <=> a2[j] \in InUse(b, cs)
    <2> SUFFICES ASSUME NEW j \in DOMAIN r2 PROVE Len(r1) + j \in P <=> a2[j] \in InUse(b, cs)
      OBVIOUS
    <2>1. Len(r1) + j \in DOMAIN rows /\ rows[Len(r1) + j] = r2[j]
      BY <1>8
    <2>2. a2[j] \in DOMAIN cs /\ r2[j] = AddedRow(b, cs[a2[j]])
      BY <1>4, <1>5
    <2>3. QED  BY <2>1, <2>2, AddedRowIs DEF InUse
  <1> HIDE DEF P
  <1>11. Places(Len(v1), K) = a
    <2>1. P \cap (1..Len(r1)) = K \cap (1..Len(r1))
      BY <1>2, <1>9
    <2>2. QED  BY <1>2, <2>1, SamePlaces
  <1>12. Places(Len(v2), U) = Picked(a2, c)
    <2> DEFINE Q2 == Among(a2, InUse(b, cs))
    <2>1. A \cap InUse(b, cs) = U
      BY DEF AddsOf, AddsUsed, InUse
    <2>2. Q \cap (1..Len(r2)) = Q2 \cap (1..Len(r2))
      <3>1. ASSUME NEW j \in 1..Len(r2) PROVE j \in Q <=> j \in Q2
        <4>1. j \in Nat /\ j \in DOMAIN r2 /\ j \in DOMAIN a2
          BY <1>5, <1>8
        <4>2. j \in Q <=> Len(r1) + j \in P
          BY <4>1 DEF Beyond
        <4>3. j \in Q2 <=> a2[j] \in InUse(b, cs)
          BY <4>1 DEF Among
        <4> HIDE DEF Q, Q2
        <4>4. QED  BY <1>10, <4>1, <4>2, <4>3
      <3> HIDE DEF Q, Q2
      <3>2. QED  BY <3>1
    <2>3. Places(Len(r2), Q) = Places(Len(a2), Q2)
      <3> HIDE DEF Q, Q2
      <3>1. QED  BY <1>5, <1>8, <2>2, SamePlaces
    <2>4. Places(Len(cs), A \cap InUse(b, cs)) = Picked(a2, Places(Len(a2), Q2))
      BY <1>3, PlacesOfPlaces
    <2> HIDE DEF Q, Q2, a2, A, U
    <2>5. QED  BY <1>3, <2>1, <2>3, <2>4
  <1> HIDE DEF a, c, A, a2, Q
  <1> HIDE DEF K, U, W
  <1>13. /\ Len(w1) = Len(a) /\ DOMAIN w1 = DOMAIN a /\ w1 \in Seq(ToSet(v1))
         /\ \A i \in DOMAIN w1 : w1[i] = v1[a[i]]
    <2>1. PassedOn(ToSet(v1), v1, K)
      BY <1>2, WhereIs
    <2>2. QED  BY <1>11, <2>1 DEF PassedOn
  <1>14. /\ Len(w2) = Len(c) /\ DOMAIN w2 = DOMAIN c /\ w2 \in Seq(ToSet(v2))
         /\ \A i \in DOMAIN w2 : w2[i] = v2[a2[c[i]]]
    <2>1. PassedOn(ToSet(v2), v2, U)
      BY <1>3, WhereIs
    <2>2. DOMAIN w2 = DOMAIN c /\ w2 \in Seq(ToSet(v2)) /\ \A i \in DOMAIN w2 : w2[i] = v2[a2[c[i]]]
      BY <1>12, <2>1 DEF PassedOn, Picked
    <2> HIDE DEF w2
    <2>3. QED  BY <1>7, <2>2
  <1> HIDE DEF w1, w2
  <1> DEFINE lhs == Both(w1, w2)
             rhs == [k \in DOMAIN W |-> W[k].v]
  <1>15. /\ DOMAIN lhs = 1..(Len(a) + Len(c))
         /\ \A i \in 1..Len(a) : lhs[i] = v1[a[i]]
         /\ \A i \in 1..Len(c) : lhs[Len(a) + i] = v2[a2[c[i]]]
         /\ lhs = [k \in DOMAIN lhs |-> lhs[k]]
    <2> DEFINE X == ToSet(v1) \cup ToSet(v2)
    <2>1. ASSUME NEW A1, NEW A2, NEW x1 \in Seq(A1), NEW x2 \in Seq(A2)
          PROVE  /\ x1 \in Seq(A1 \cup A2) /\ x2 \in Seq(A1 \cup A2)
                 /\ DOMAIN x1 = 1..Len(x1) /\ DOMAIN x2 = 1..Len(x2)
      OBVIOUS
    <2>2. /\ w1 \in Seq(X) /\ w2 \in Seq(X) /\ DOMAIN w1 = 1..Len(a) /\ DOMAIN w2 = 1..Len(c)
      BY <1>13, <1>14, <2>1
    <2> HIDE DEF X
    <2>3. lhs \in Seq(X) /\ DOMAIN lhs = 1..(Len(w1) + Len(w2))
      BY <2>2, BothAre
    <2>4. \A i \in 1..Len(w1) : lhs[i] = w1[i]
      BY <2>2, BothFirst
    <2>5. \A i \in 1..Len(w2) : lhs[Len(w1) + i] = w2[i]
      BY <2>2, BothSecond
    <2> HIDE DEF lhs
    <2>6. lhs = [k \in DOMAIN lhs |-> lhs[k]]
      BY <2>3
    <2>7. \A i \in 1..Len(a) : lhs[i] = v1[a[i]]
      BY <1>13, <2>2, <2>4
    <2>8. \A i \in 1..Len(c) : lhs[Len(a) + i] = v2[a2[c[i]]]
      BY <1>13, <1>14, <2>2, <2>5
    <2>9. QED  BY <1>13, <1>14, <2>3, <2>6, <2>7, <2>8
  <1>16. ASSUME NEW i \in 1..Len(a)
         PROVE  v1[a[i]] = W[i].v
    <2>1. a[i] \in P /\ a[i] \in DOMAIN base1 /\ W[i] = BuiltRow(b, cs, kind, a[i])
      BY <1>4, <1>7
    <2>2. a[i] \in K /\ v1[a[i]] = ItemUsed(b, cs, kind, a[i])
      BY <1>4, <1>9, <2>1
    <2>3. InUseRow(BuiltRow(b, cs, kind, a[i]))
      BY <2>1, <2>2, BuiltRowIs DEF K, KeptItems, base1
    <2>4. BuiltRow(b, cs, kind, a[i]).v = ItemUsed(b, cs, kind, a[i])
      BY <2>1, <2>3, BuiltRowIs DEF base1
    <2>5. QED  BY <2>1, <2>2, <2>4
  <1>17. ASSUME NEW i \in 1..Len(c)
         PROVE  v2[a2[c[i]]] = W[Len(a) + i].v
    <2>1. c[i] \in DOMAIN r2 /\ W[Len(a) + i] = r2[c[i]]
      BY <1>7
    <2>2. r2[c[i]] = AddedRow(b, cs[a2[c[i]]]) /\ v2[a2[c[i]]] = cs[a2[c[i]]].value
      BY <1>4, <1>5, <2>1
    <2>3. QED  BY <2>1, <2>2, AddedRowIs
  <1>18. lhs = rhs
    <2> HIDE DEF lhs
    <2>1. DOMAIN lhs = DOMAIN W
      BY <1>7, <1>15
    <2>2. \A k \in DOMAIN lhs : lhs[k] = W[k].v
      <3> SUFFICES ASSUME NEW k \in DOMAIN lhs PROVE lhs[k] = W[k].v
        OBVIOUS
      <3>1. CASE k <= Len(a)
        <4>1. k \in 1..Len(a)
          BY <1>7, <1>15, <3>1
        <4>2. QED  BY <1>15, <1>16, <4>1
      <3>2. CASE ~(k <= Len(a))
        <4> DEFINE j == k - Len(a)
        <4>1. j \in 1..Len(c) /\ k = Len(a) + j
          BY <1>7, <1>15, <3>2
        <4> HIDE DEF j
        <4>2. QED  BY <1>15, <1>17, <4>1
      <3>3. QED  BY <3>1, <3>2
    <2>3. QED  BY <1>15, <2>1, <2>2
  <1>19. ApplyOverlay(b, cs)[kind] = lhs
    BY BuiltAre, Zenon DEF BuiltItems, Both, lhs, w1, w2, v1, v2, K, U
  <1>20. ValuesInUse(rows) = rhs
    BY DEF ValuesInUse, W, P
  <1>21. QED  BY <1>1, <1>18, <1>19, <1>20 DEF rows

\* The policy on the page and for builds: at most one change is to it.
LEMMA PolicyAgrees ==
    ASSUME NEW b, NEW cs, GoodList(cs)
    PROVE  ApplyOverlay(b, cs).policy = PolicyValue(b, cs)
  <1> DEFINE of == {k \in DOMAIN cs : cs[k].kind = "policy"}
             used == {k \in InUse(b, cs) : cs[k].kind = "policy"}
  <1>1. ApplyOverlay(b, cs).policy = IF used = {} THEN b.policy ELSE cs[Max(used)].value
    BY DEF ApplyOverlay
  <1>2. PolicyValue(b, cs) = IF of # {} /\ ChangeStatus(b, cs[Min(of)]) = "ok" THEN cs[Min(of)].value ELSE b.policy
    BY DEF PolicyValue
  <1>3. DOMAIN cs \subseteq Nat
    <2>1. cs \in Seq(ToSet(cs))
      BY DEF GoodList, IsList
    <2>2. QED  BY <2>1
  <1>4. \A j, k \in of : j = k
    <2> SUFFICES ASSUME NEW j \in of, NEW k \in of PROVE j = k
      OBVIOUS
    <2>1. ASSUME NEW i \in of PROVE i \in DOMAIN cs /\ ChangeKey(cs[i]) = <<"policy", "at", ThePolicy>>
      <3>1. GoodChange(cs[i]) /\ cs[i].kind = "policy"
        BY DEF GoodList
      <3>2. QED  BY <3>1 DEF GoodChange, ChangeKey
    <2>2. QED  BY <2>1 DEF GoodList, OneEach
  <1>5. used = {k \in of : ChangeStatus(b, cs[k]) = "ok"}
    BY DEF InUse
  <1>6. CASE of = {}
    <2>1. used = {}
      BY <1>5, <1>6
    <2>2. QED  BY <1>1, <1>2, <1>6, <2>1
  <1>7. CASE of # {}
    <2>1. PICK k \in of : TRUE
      BY <1>7
    <2>2. k \in Nat /\ of = {k}
      BY <1>3, <1>4, <2>1
    <2>3. Min(of) = k
      BY <2>2, OfOne
    <2>4. CASE ChangeStatus(b, cs[k]) = "ok"
      <3>1. used = {k}
        BY <1>5, <2>2, <2>4
      <3>2. Max(used) = k
        BY <2>2, <3>1, OfOne
      <3> HIDE DEF of, used
      <3>3. QED  BY <1>1, <1>2, <1>7, <2>3, <2>4, <3>1, <3>2
    <2>5. CASE ChangeStatus(b, cs[k]) # "ok"
      <3>1. used = {}
        BY <1>5, <2>2, <2>5
      <3> HIDE DEF of, used
      <3>2. QED  BY <1>1, <1>2, <2>3, <2>5, <3>1
    <2>6. QED  BY <2>4, <2>5
  <1>8. QED  BY <1>6, <1>7

(* The list stays a list of one good change per item *)

\* What checkChange lets through, before its copy.
Checked(c) ==
    /\ c.op \in {"add", "replace", "remove"} /\ c.kind \in Kinds \cup {"policy"}
    /\ c.kind = "policy" => c.op # "remove" /\ c.at = ThePolicy

LEMMA ListOf == ASSUME NEW R, NEW s \in Seq(R) PROVE IsList(s)
  <1>1. Len(s) \in Nat /\ s = [i \in 1..Len(s) |-> s[i]] /\ DOMAIN s = 1..Len(s)
    OBVIOUS
  <1>2. \A i \in 1..Len(s) : s[i] \in ToSet(s)
    BY <1>1 DEF ToSet
  <1>3. QED  BY <1>1, <1>2 DEF IsList

LEMMA NothingIsGood == GoodList(<<>>)
  BY DEF GoodList, IsList, OneEach

LEMMA CleanIsGood == ASSUME NEW c, Checked(c) PROVE GoodChange(CleanCopy(c))
  BY DEF Checked, GoodChange, CleanCopy, Change

LEMMA PassedIsGood ==
    ASSUME NEW cs, GoodList(cs), NEW P
    PROVE  GoodList(Where(cs, P))
  <1> DEFINE w == Where(cs, P)
             p == Places(Len(cs), P)
  <1>1. cs \in Seq(ToSet(cs))
    BY DEF GoodList, IsList
  <1>2. PassedOn(ToSet(cs), cs, P)
    BY <1>1, WhereIs
  <1>3. /\ w \in Seq(ToSet(cs)) /\ DOMAIN w = DOMAIN p
        /\ \A j \in DOMAIN w : w[j] = cs[p[j]] /\ p[j] \in DOMAIN cs
    BY <1>2 DEF PassedOn
  <1>4. Enumerates(p, P \cap (1..Len(cs)))
    BY <1>1, PlacesAre
  <1>5. DOMAIN p \subseteq Nat /\ \A j \in DOMAIN p : p[j] \in Nat
    <2>1. p \in Seq(Nat)
      BY <1>4 DEF Enumerates
    <2>2. QED  BY <2>1
  <1>6. \A j, k \in DOMAIN p : p[j] = p[k] => j = k
    <2> SUFFICES ASSUME NEW j \in DOMAIN p, NEW k \in DOMAIN p, p[j] = p[k], j # k PROVE FALSE
      OBVIOUS
    <2>1. j < k \/ k < j
      BY <1>5
    <2>2. p[j] < p[k] \/ p[k] < p[j]
      BY <1>4, <2>1 DEF Enumerates
    <2>3. QED  BY <1>5, <2>2
  <1> HIDE DEF w, p
  <1>7. IsList(w)
    BY <1>3, ListOf
  <1>8. \A k \in DOMAIN w : GoodChange(w[k])
    BY <1>3 DEF GoodList
  <1>9. OneEach(w)
    <2> SUFFICES ASSUME NEW j \in DOMAIN w, NEW k \in DOMAIN w, ChangeKey(w[j]) = ChangeKey(w[k]) PROVE j = k
      BY DEF OneEach
    <2>1. p[j] = p[k]
      BY <1>3 DEF GoodList, OneEach
    <2>2. QED  BY <1>3, <1>6, <2>1
  <1>10. QED  BY <1>7, <1>8, <1>9 DEF GoodList, w

LEMMA PutIsGood ==
    ASSUME NEW cs, GoodList(cs), NEW c, GoodChange(c)
    PROVE  GoodList(PutChange(cs, c))
  <1> DEFINE same == {i \in DOMAIN cs : ChangeKey(cs[i]) = ChangeKey(c)}
             new == PutChange(cs, c)
             R == ToSet(cs) \cup {c}
  <1>1. cs \in Seq(R) /\ c \in R /\ DOMAIN cs = 1..Len(cs) /\ Len(cs) \in Nat
    <2>1. cs \in Seq(ToSet(cs))
      BY DEF GoodList, IsList
    <2>2. QED  BY <2>1
  <1> HIDE DEF R
  <1>2. CASE same = {}
    <2>1. new = Append(cs, c)
      BY <1>2 DEF PutChange
    <2>2. /\ new \in Seq(R) /\ DOMAIN new = 1..(Len(cs) + 1) /\ new[Len(cs) + 1] = c
          /\ \A i \in DOMAIN cs : new[i] = cs[i]
      BY <1>1, <2>1
    <2>3. \A i \in DOMAIN cs : ChangeKey(cs[i]) # ChangeKey(c)
      BY <1>2
    <2> HIDE DEF new, same
    <2>4. IsList(new)
      BY <2>2, ListOf
    <2>5. \A i \in DOMAIN new : (i \in DOMAIN cs /\ new[i] = cs[i]) \/ (i = Len(cs) + 1 /\ new[i] = c)
      BY <1>1, <2>2
    <2>6. \A i \in DOMAIN new : GoodChange(new[i])
      BY <2>5 DEF GoodList
    <2>7. OneEach(new)
      BY <2>3, <2>5 DEF GoodList, OneEach
    <2>8. QED  BY <2>4, <2>6, <2>7 DEF GoodList, new
  <1>3. CASE same # {}
    <2>1. new = [i \in DOMAIN cs |-> IF i \in same THEN c ELSE cs[i]]
      BY <1>3 DEF PutChange
    <2> HIDE DEF new
    <2>2. DOMAIN new = DOMAIN cs /\ \A i \in DOMAIN cs : new[i] = IF i \in same THEN c ELSE cs[i]
      BY <2>1
    <2>3. IsList(new)
      <3>1. \A i \in 1..Len(cs) : (IF i \in same THEN c ELSE cs[i]) \in R
        BY <1>1
      <3>2. new \in Seq(R)
        BY <1>1, <2>1, <3>1
      <3>3. QED  BY <3>2, ListOf
    <2>4. \A i \in DOMAIN new : GoodChange(new[i])
      BY <2>2 DEF GoodList
    <2>5. \A i \in DOMAIN new : ChangeKey(new[i]) = ChangeKey(cs[i])
      BY <2>2
    <2>6. OneEach(new)
      BY <2>2, <2>5 DEF GoodList, OneEach
    <2>7. QED  BY <2>3, <2>4, <2>6 DEF GoodList, new
  <1>4. QED  BY <1>2, <1>3

PutNext(put, puts, k) == PutChange(put, CleanCopy(puts[k]))

LEMMA PutsGrow ==
    ASSUME NEW cs, NEW puts, Len(puts) \in Nat
    PROVE  PutUpTo(cs, puts) = [k \in 0..Len(puts) |-> IF k = 0 THEN cs ELSE PutNext(PutUpTo(cs, puts)[k - 1], puts, k)]
  <1> DEFINE Is(g, m) == g = [k \in 0..m |-> IF k = 0 THEN cs ELSE PutNext(g[k - 1], puts, k)]
             T == {m \in Nat : \A g : ~Is(g, m)}
  <1>1. T = {}
    <2> SUFFICES ASSUME T # {} PROVE FALSE
      OBVIOUS
    <2>1. PICK m \in T : \A y \in T : m <= y
      BY LeastNat
    <2>2. m # 0
      <3> DEFINE g == [k \in 0..0 |-> cs]
      <3>1. Is(g, 0)
        OBVIOUS
      <3>2. QED  BY <3>1
    <2>3. m - 1 \in Nat /\ m - 1 \notin T
      <3>1. m \in Nat
        OBVIOUS
      <3> HIDE DEF T
      <3>2. QED  BY <2>1, <2>2, <3>1
    <2>4. PICK g : Is(g, m - 1)
      <3> HIDE DEF Is
      <3>1. QED  BY <2>3
    <2> DEFINE h == [k \in 0..m |-> IF k = m THEN PutNext(g[m - 1], puts, m) ELSE g[k]]
    <2>5. ASSUME NEW k \in 0..m PROVE h[k] = IF k = 0 THEN cs ELSE PutNext(h[k - 1], puts, k)
      <3>1. CASE k = m
        BY <2>2, <3>1
      <3>2. CASE k # m
        <4>1. k \in 0..(m - 1) /\ h[k] = g[k]
          BY <3>2
        <4>2. g[k] = IF k = 0 THEN cs ELSE PutNext(g[k - 1], puts, k)
          BY <2>4, <4>1
        <4>3. k # 0 => h[k - 1] = g[k - 1]
          BY <4>1
        <4>4. QED  BY <4>1, <4>2, <4>3
      <3>3. QED  BY <3>1, <3>2
    <2> DEFINE rhs == [k \in 0..m |-> IF k = 0 THEN cs ELSE PutNext(h[k - 1], puts, k)]
    <2>6. h = rhs
      <3>1. DOMAIN h = 0..m /\ h = [k \in 0..m |-> h[k]]
        OBVIOUS
      <3> HIDE DEF h
      <3>2. QED  BY <2>5, <3>1
    <2> HIDE DEF h
    <2>7. QED  BY <2>6
  <1>2. \E g : Is(g, Len(puts))
    BY <1>1
  <1>3. QED  BY <1>2 DEF PutUpTo, PutNext

LEMMA PutAllIsGood ==
    ASSUME NEW cs, GoodList(cs), NEW puts, IsList(puts), \A k \in DOMAIN puts : Checked(puts[k])
    PROVE  GoodList(PutAll(cs, puts))
  <1> DEFINE L == PutUpTo(cs, puts)
             n == Len(puts)
             T == {k \in Nat : k <= n /\ ~GoodList(L[k])}
  <1>1. n \in Nat /\ DOMAIN puts = 1..n
    BY DEF IsList
  <1>2. L[0] = cs /\ \A k \in 1..n : L[k] = PutNext(L[k - 1], puts, k)
    BY <1>1, PutsGrow
  <1> HIDE DEF L, n
  <1>3. ASSUME NEW k \in 1..n, GoodList(L[k - 1]) PROVE GoodList(L[k])
    <2>1. GoodChange(CleanCopy(puts[k]))
      BY <1>1, CleanIsGood
    <2>2. L[k] = PutChange(L[k - 1], CleanCopy(puts[k]))
      BY <1>2 DEF PutNext
    <2>3. QED  BY <1>3, <2>1, <2>2, PutIsGood
  <1>4. T = {}
    <2> SUFFICES ASSUME T # {} PROVE FALSE
      OBVIOUS
    <2>1. PICK k \in T : \A y \in T : k <= y
      BY LeastNat
    <2>2. k \in 1..n
      BY <1>2
    <2>3. k - 1 \in Nat /\ k - 1 <= n /\ ~(k <= k - 1)
      BY <1>1, <2>2
    <2>4. k - 1 \notin T
      <3> HIDE DEF T
      <3>1. QED  BY <2>1, <2>3
    <2>5. GoodList(L[k - 1])
      BY <2>3, <2>4
    <2>6. QED  BY <1>3, <2>2, <2>5
  <1>5. n \in Nat /\ n <= n
    BY <1>1
  <1>6. GoodList(L[n])
    BY <1>4, <1>5
  <1>7. QED  BY <1>6 DEF PutAll, L, n

LEMMA EditIsGood ==
    ASSUME NEW cs, GoodList(cs), NEW puts, IsList(puts), \A k \in DOMAIN puts : Checked(puts[k]), NEW reverts
    PROVE  GoodList(EditChanges(cs, puts, reverts))
  <1> DEFINE P == {k \in DOMAIN cs : ChangeKey(cs[k]) \notin reverts}
  <1>1. GoodList(Where(cs, P))
    BY PassedIsGood
  <1> HIDE DEF P
  <1>2. GoodList(PutAll(Where(cs, P), puts))
    BY <1>1, PutAllIsGood
  <1>3. QED  BY <1>2, Zenon DEF EditChanges, P

\* No puts, or one.
LEMMA EditByOne ==
    ASSUME NEW cs, GoodList(cs), NEW reverts
    PROVE  /\ GoodList(EditChanges(cs, <<>>, reverts))
           /\ \A c : Checked(c) => GoodList(EditChanges(cs, <<c>>, reverts))
  <1>1. IsList(<<>>) /\ \A k \in DOMAIN <<>> : Checked(<<>>[k])
    BY DEF IsList
  <1>2. ASSUME NEW c, Checked(c) PROVE IsList(<<c>>) /\ \A k \in DOMAIN <<c>> : Checked(<<c>>[k])
    <2>1. <<c>> \in Seq({c}) /\ DOMAIN <<c>> = {1} /\ <<c>>[1] = c
      OBVIOUS
    <2>2. QED  BY <1>2, <2>1, ListOf
  <1>3. GoodList(EditChanges(cs, <<>>, reverts))
    BY <1>1, EditIsGood
  <1>4. ASSUME NEW c, Checked(c) PROVE GoodList(EditChanges(cs, <<c>>, reverts))
    BY <1>2, <1>4, EditIsGood
  <1>5. QED  BY <1>3, <1>4

LEMMA ParseIsGood ==
    ASSUME NEW document, IsList(document)
    PROVE  GoodList(ParseOverlay(document))
  <1> DEFINE P == {k \in DOMAIN document : CheckChange(document[k])}
             puts == Where(document, P)
  <1>1. document \in Seq(ToSet(document))
    BY DEF IsList
  <1>2. PassedOn(ToSet(document), document, P)
    <2> HIDE DEF P
    <2>1. QED  BY <1>1, WhereIs
  <1>3. puts \in Seq(ToSet(document)) /\ \A j \in DOMAIN puts : \E k \in P : puts[j] = document[k]
    <2> HIDE DEF P
    <2>1. QED  BY <1>2 DEF PassedOn
  <1> HIDE DEF puts
  <1>4. IsList(puts)
    BY <1>3, ListOf
  <1>5. \A j \in DOMAIN puts : Checked(puts[j])
    <2> SUFFICES ASSUME NEW j \in DOMAIN puts PROVE Checked(puts[j])
      OBVIOUS
    <2>1. CheckChange(puts[j])
      BY <1>3
    <2>2. QED  BY <2>1 DEF CheckChange, Checked
  <1>6. GoodList(PutAll(<<>>, puts))
    BY <1>4, <1>5, NothingIsGood, PutAllIsGood
  <1>7. QED  BY <1>6, Zenon DEF ParseOverlay, puts, P
(* The inductive invariant *)

EditorInv ==
    /\ base \in Contents
    /\ GoodList(list) /\ GoodList(review)
    /\ form = NoForm \/ form.kind \in Kinds
    /\ \A t \in awaited : t.does = "save" => t.kind \in Kinds

LEMMA EditorStarts == InitEditor => EditorInv
  BY NothingIsGood DEF InitEditor, EditorInv, NoReview

\* What leaves the list, the file that is reviewed and what waits alone.
LEMMA FormStepKeeps ==
    ASSUME EditorInv, UNCHANGED <<base, list, review, awaited>>, form' = NoForm \/ form'.kind \in Kinds
    PROVE  EditorInv'
  BY DEF EditorInv

\* The list is changed, and the rest waits for the storage.
LEMMA EditListKeeps ==
    ASSUME EditorInv, NEW cs, GoodList(cs), NEW then, then.does = "save" => then.kind \in Kinds,
           EditList(cs, then), UNCHANGED form
    PROVE  EditorInv'
  <1>1. /\ list' = cs /\ awaited' = awaited \cup {then} /\ UNCHANGED <<base, review, form>>
    BY DEF EditList
  <1>2. \A t \in awaited' : t.does = "save" => t.kind \in Kinds
    BY <1>1 DEF EditorInv
  <1>3. GoodList(list)'
    BY <1>1
  <1>4. GoodList(review)' /\ (base \in Contents)' /\ (form = NoForm \/ form.kind \in Kinds)'
    BY <1>1 DEF EditorInv
  <1>5. QED  BY <1>2, <1>3, <1>4 DEF EditorInv

LEMMA OpenKeeps ==
    ASSUME EditorInv, NEW kind \in Kinds, NEW row, OpenItem(kind, row)
    PROVE  EditorInv'
  <1>1. form'.kind = kind
    BY DEF OpenItem, FormOf
  <1>2. QED  BY <1>1, FormStepKeeps DEF OpenItem

LEMMA AddItemKeeps ==
    ASSUME EditorInv, NEW kind \in Kinds, NEW id, NEW v, AddItem(kind, id, v)
    PROVE  EditorInv'
  <1>1. form'.kind = kind
    BY DEF AddItem
  <1>2. QED  BY <1>1, FormStepKeeps DEF AddItem

LEMMA TypeKeeps ==
    ASSUME EditorInv, NEW v, Type(v)
    PROVE  EditorInv'
  <1>1. form.kind \in Kinds /\ form'.kind = form.kind
    BY DEF Type, Drafted, EditorInv
  <1>2. QED  BY <1>1, FormStepKeeps DEF Type

LEMMA UndoKeeps == ASSUME EditorInv, Undo PROVE EditorInv'
  <1>1. form.kind \in Kinds
    BY DEF Undo, EditorInv
  <1> DEFINE row == CurrentRow(shown, form.kind, form.i, form.id)
  <1>2. form' = NoForm \/ form' = FormOf(form.kind, row[1])
    BY DEF Undo
  <1>3. FormOf(form.kind, row[1]).kind = form.kind
    BY DEF FormOf
  <1>4. QED  BY <1>1, <1>2, <1>3, FormStepKeeps DEF Undo

LEMMA DraftIsChecked ==
    ASSUME form.kind \in Kinds
    PROVE  /\ DraftChange.puts = <<>> \/ \E c : Checked(c) /\ DraftChange.puts = <<c>>
  <1> DEFINE at == PathFor(base, form.kind, form.i)
             add == Change("add", form.kind, at, form.id, form.draft, NoValue)
             replace == Change("replace", form.kind, at, "", form.draft, base[form.kind][form.i])
  <1>1. Checked(add) /\ Checked(replace)
    BY DEF Checked, Change, Kinds
  <1>2. DraftChange.puts = <<>> \/ DraftChange.puts = <<add>> \/ DraftChange.puts = <<replace>>
    <2>1. CASE form.i = 0
      <3>1. DraftChange.puts = <<add>>
        BY <2>1 DEF DraftChange
      <3>2. QED  BY <3>1
    <2>2. CASE form.i # 0 /\ base[form.kind][form.i] = form.draft
      <3>1. DraftChange.puts = <<>>
        BY <2>2 DEF DraftChange
      <3>2. QED  BY <3>1
    <2>3. CASE form.i # 0 /\ base[form.kind][form.i] # form.draft
      <3>1. DraftChange.puts = <<replace>>
        BY <2>3 DEF DraftChange
      <3>2. QED  BY <3>1
    <2>4. QED  BY <2>1, <2>2, <2>3
  <1> HIDE DEF add, replace
  <1>3. QED  BY <1>1, <1>2

LEMMA SaveItemKeeps == ASSUME EditorInv, SaveItem PROVE EditorInv'
  <1> DEFINE cs == EditChanges(list, DraftChange.puts, DraftChange.reverts)
             then == Then("save", form.kind, form.i, form.id)
  <1>1. form.kind \in Kinds /\ GoodList(list)
    BY DEF SaveItem, EditorInv
  <1>2. GoodList(cs)
    BY <1>1, DraftIsChecked, EditByOne
  <1>3. then.kind = form.kind
    BY DEF Then
  <1>4. EditList(cs, then) /\ UNCHANGED form
    BY DEF SaveItem
  <1> HIDE DEF cs, then
  <1>5. QED  BY <1>1, <1>2, <1>3, <1>4, EditListKeeps

LEMMA RevertItemKeeps == ASSUME EditorInv, RevertItem PROVE EditorInv'
  <1> DEFINE cs == EditChanges(list, <<>>, {ShownRow[1].key})
             then == Then("revert", form.kind, form.i, form.id)
  <1>1. GoodList(cs)
    BY EditByOne DEF EditorInv
  <1>2. then.does # "save"
    BY DEF Then
  <1>3. EditList(cs, then) /\ UNCHANGED form
    BY DEF RevertItem
  <1> HIDE DEF cs, then
  <1>4. QED  BY <1>1, <1>2, <1>3, EditListKeeps

LEMMA RemoveItemKeeps == ASSUME EditorInv, RemoveItem PROVE EditorInv'
  <1> DEFINE c == Change("remove", form.kind, PathFor(base, form.kind, form.i), "", NoValue, base[form.kind][form.i])
             cs1 == EditChanges(list, <<>>, {ShownRow[1].key})
             cs2 == EditChanges(list, <<c>>, {})
             then1 == Then("close", form.kind, form.i, form.id)
             then2 == Then("paint", form.kind, form.i, form.id)
  <1>1. form.kind \in Kinds /\ GoodList(list)
    BY DEF RemoveItem, EditorInv
  <1>2. Checked(c)
    BY <1>1 DEF Checked, Change, Kinds
  <1>3. (EditList(cs1, then1) \/ EditList(cs2, then2)) /\ UNCHANGED form
    BY DEF RemoveItem
  <1> HIDE DEF c
  <1>4. GoodList(cs1) /\ GoodList(cs2)
    BY <1>1, <1>2, EditByOne
  <1>5. then1.does # "save" /\ then2.does # "save"
    BY DEF Then
  <1> HIDE DEF cs1, cs2, then1, then2
  <1>6. QED  BY <1>3, <1>4, <1>5, EditListKeeps

LEMMA SavePolicyKeeps == ASSUME EditorInv, NEW v, SavePolicy(v) PROVE EditorInv'
  <1> DEFINE cs == EditChanges(list, PolicyChanges(v).puts, PolicyChanges(v).reverts)
             then == Then("paint", "policy", 0, "")
             add == Change("add", "policy", ThePolicy, "", v, NoValue)
             replace == Change("replace", "policy", ThePolicy, "", v, base.policy)
  <1>1. Checked(add) /\ Checked(replace)
    BY DEF Checked, Change
  <1>2. PolicyChanges(v).puts = <<>> \/ PolicyChanges(v).puts = <<add>> \/ PolicyChanges(v).puts = <<replace>>
    <2>1. CASE v = base.policy
      <3>1. PolicyChanges(v).puts = <<>>
        BY <2>1 DEF PolicyChanges
      <3>2. QED  BY <3>1
    <2>2. CASE v # base.policy /\ base.policy = NoValue
      <3>1. PolicyChanges(v).puts = <<add>>
        BY <2>2 DEF PolicyChanges
      <3>2. QED  BY <3>1
    <2>3. CASE v # base.policy /\ base.policy # NoValue
      <3>1. PolicyChanges(v).puts = <<replace>>
        BY <2>3 DEF PolicyChanges
      <3>2. QED  BY <3>1
    <2>4. QED  BY <2>1, <2>2, <2>3
  <1> HIDE DEF add, replace
  <1>3. GoodList(cs)
    BY <1>1, <1>2, EditByOne DEF EditorInv
  <1>4. then.does # "save"
    BY DEF Then
  <1>5. EditList(cs, then) /\ UNCHANGED form
    BY DEF SavePolicy
  <1> HIDE DEF cs, then
  <1>6. QED  BY <1>3, <1>4, <1>5, EditListKeeps

LEMMA RevertListedKeeps == ASSUME EditorInv, NEW c, RevertListed(c) PROVE EditorInv'
  <1> DEFINE cs == EditChanges(list, <<>>, {ChangeKey(c)})
             then == Then("close", c.kind, 0, c.id)
  <1>1. GoodList(cs)
    BY EditByOne DEF EditorInv
  <1>2. then.does # "save"
    BY DEF Then
  <1>3. EditList(cs, then) /\ UNCHANGED form
    BY DEF RevertListed
  <1> HIDE DEF cs, then
  <1>4. QED  BY <1>1, <1>2, <1>3, EditListKeeps

LEMMA ResetKeeps == ASSUME EditorInv, ResetAll PROVE EditorInv'
  <1> DEFINE then == Then("close", "all", 0, "")
  <1>1. then.does # "save"
    BY DEF Then
  <1>2. EditList(<<>>, then) /\ UNCHANGED form
    BY DEF ResetAll
  <1> HIDE DEF then
  <1>3. QED  BY <1>1, <1>2, NothingIsGood, EditListKeeps

LEMMA ImportKeeps == ASSUME EditorInv, NEW document \in Documents, Import(document) PROVE EditorInv'
  <1>1. GoodList(ParseOverlay(document))
    BY ChangeEditorAssumption, ParseIsGood
  <1>2. GoodList(Applied(base, ParseOverlay(document)))
    BY <1>1, PassedIsGood DEF Applied
  <1>3. GoodList(review)'
    BY <1>2 DEF Import
  <1>4. UNCHANGED <<base, list, form, awaited>>
    BY DEF Import
  <1>5. GoodList(list)' /\ (base \in Contents)' /\ (form = NoForm \/ form.kind \in Kinds)'
        /\ (\A t \in awaited : t.does = "save" => t.kind \in Kinds)'
    BY <1>4 DEF EditorInv
  <1>6. QED  BY <1>3, <1>5 DEF EditorInv

LEMMA ApplyImportKeeps == ASSUME EditorInv, NEW replace, ApplyImport(replace) PROVE EditorInv'
  <1> DEFINE then == Then("close", "all", 0, "")
  <1>1. IsList(review) /\ \A k \in DOMAIN review : Checked(review[k])
    BY DEF EditorInv, GoodList, GoodChange, Checked
  <1>2. GoodList(EditChanges(list, review, {}))
    BY <1>1, EditIsGood DEF EditorInv
  <1>3. list' = review \/ list' = EditChanges(list, review, {})
    BY DEF ApplyImport
  <1>4. GoodList(list)'
    BY <1>2, <1>3 DEF EditorInv
  <1>5. then.does # "save"
    BY DEF Then
  <1>6. /\ awaited' = awaited \cup {then} /\ review' = <<>> /\ UNCHANGED <<base, form>>
    BY DEF ApplyImport, NoReview
  <1>7. GoodList(review)'
    BY <1>6, NothingIsGood
  <1> HIDE DEF then
  <1>8. (base \in Contents)' /\ (form = NoForm \/ form.kind \in Kinds)'
        /\ (\A t \in awaited : t.does = "save" => t.kind \in Kinds)'
    BY <1>5, <1>6 DEF EditorInv
  <1>9. QED  BY <1>4, <1>7, <1>8 DEF EditorInv

LEMMA ListStoredKeeps == ASSUME EditorInv, NEW t \in awaited, ListStored(t) PROVE EditorInv'
  <1>1. /\ awaited' \subseteq awaited /\ UNCHANGED <<base, list, review>>
    BY DEF ListStored
  <1>2. form' = NoForm \/ form'.kind \in Kinds
    <2>1. CASE t.does = "save"
      <3> DEFINE row == CurrentRow(shown, t.kind, t.i, t.id)
                 f == [kind |-> t.kind, i |-> t.i, id |-> t.id, new |-> FALSE, draft |-> row[1].v, dirty |-> FALSE]
      <3>1. form' = AfterSave(t)
        BY <2>1 DEF ListStored
      <3>2. AfterSave(t) = NoForm \/ AfterSave(t) = f
        BY DEF AfterSave
      <3>3. f.kind = t.kind /\ t.kind \in Kinds
        BY <2>1 DEF EditorInv
      <3> HIDE DEF f
      <3>4. QED  BY <3>1, <3>2, <3>3
    <2>2. CASE t.does = "revert"
      <3>1. form' = AfterRevert(t)
        BY <2>2 DEF ListStored
      <3>2. AfterRevert(t) = NoForm \/ (form # NoForm /\ AfterRevert(t).kind = form.kind)
        BY DEF AfterRevert, Drafted
      <3>3. QED  BY <3>1, <3>2 DEF EditorInv
    <2>3. CASE t.does = "close"
      BY <2>3 DEF ListStored
    <2>4. CASE t.does \notin {"save", "revert", "close"}
      <3>1. form' = form
        BY <2>4 DEF ListStored
      <3>2. QED  BY <3>1 DEF EditorInv
    <2>5. QED  BY <2>1, <2>2, <2>3, <2>4
  <1>3. GoodList(list)' /\ GoodList(review)' /\ (base \in Contents)' /\ (\A u \in awaited : u.does = "save" => u.kind \in Kinds)'
    BY <1>1 DEF EditorInv
  <1>4. QED  BY <1>2, <1>3 DEF EditorInv

LEMMA ReopenKeeps == ASSUME EditorInv, NEW b \in Contents, Reopen(b) PROVE EditorInv'
  <1>1. /\ base' = b /\ list' = ParseOverlay(list) /\ form' = NoForm /\ review' = <<>> /\ awaited' = {}
    BY DEF Reopen, NoReview
  <1>2. GoodList(ParseOverlay(list))
    BY ParseIsGood DEF EditorInv, GoodList
  <1>3. GoodList(list)' /\ GoodList(review)'
    BY <1>1, <1>2, NothingIsGood
  <1>4. QED  BY <1>1, <1>3 DEF EditorInv

LEMMA EditorKeeps == ASSUME EditorInv, [NextEditor]_editorVars PROVE EditorInv'
  <1>1. CASE UNCHANGED editorVars
    BY <1>1 DEF EditorInv, editorVars
  <1>2. ASSUME NEW kind \in Kinds, NEW row \in ToSet(ItemRows(base, shown, kind)), OpenItem(kind, row) PROVE EditorInv'
    BY <1>2, OpenKeeps
  <1>3. ASSUME NEW kind \in Kinds, NEW id \in Ids, NEW v \in Typed[kind], AddItem(kind, id, v) PROVE EditorInv'
    BY <1>3, AddItemKeeps
  <1>4. ASSUME NEW v \in Typed[form.kind], Type(v) PROVE EditorInv'
    BY <1>4, TypeKeeps
  <1>5. CASE Undo
    BY <1>5, UndoKeeps
  <1>6. CASE SaveItem
    BY <1>6, SaveItemKeeps
  <1>7. CASE RevertItem
    BY <1>7, RevertItemKeeps
  <1>8. CASE RemoveItem
    BY <1>8, RemoveItemKeeps
  <1>9. ASSUME NEW v \in Typed.policy, SavePolicy(v) PROVE EditorInv'
    BY <1>9, SavePolicyKeeps
  <1>10. ASSUME NEW k \in DOMAIN shown, RevertListed(shown[k]) PROVE EditorInv'
    BY <1>10, RevertListedKeeps
  <1>11. CASE ResetAll
    BY <1>11, ResetKeeps
  <1>12. ASSUME NEW document \in Documents, Import(document) PROVE EditorInv'
    BY <1>12, ImportKeeps
  <1>13. ASSUME NEW replace \in BOOLEAN, ApplyImport(replace) PROVE EditorInv'
    BY <1>13, ApplyImportKeeps
  <1>14. ASSUME NEW t \in awaited, ListStored(t) PROVE EditorInv'
    BY <1>14, ListStoredKeeps
  <1>15. ASSUME NEW b \in Contents, Reopen(b) PROVE EditorInv'
    BY <1>15, ReopenKeeps
  <1>16. QED
    BY <1>1, <1>2, <1>3, <1>4, <1>5, <1>6, <1>7, <1>8, <1>9, <1>10, <1>11, <1>12, <1>13, <1>14, <1>15
    DEF NextEditor

LEMMA EditorMeans == EditorInv => RowsAreWhatBuildsUse
  <1> SUFFICES ASSUME EditorInv, shown = list, ~TwiceNamed
               PROVE  /\ \A kind \in Kinds : ApplyOverlay(base, list)[kind] = ValuesInUse(ItemRows(base, list, kind))
                      /\ ApplyOverlay(base, list).policy = PolicyValue(base, list)
    BY DEF RowsAreWhatBuildsUse
  <1>1. ASSUME NEW kind \in Kinds
        PROVE  ApplyOverlay(base, list)[kind] = ValuesInUse(ItemRows(base, list, kind))
    <2>1. IsList(base[kind])
      BY ChangeEditorAssumption DEF EditorInv
    <2>2. OncePerItem(base, list, kind)
      <3> SUFFICES ASSUME NEW i \in DOMAIN base[kind], NEW j \in DOMAIN list, NEW k \in DOMAIN list,
                          j \in ChangesTo(base, list, kind, i), k \in ChangesTo(base, list, kind, i), j # k
                   PROVE  FALSE
        BY DEF OncePerItem
      <3>1. i # 0
        BY <2>1 DEF IsList
      <3>2. /\ list[j].kind = kind /\ list[k].kind = kind /\ list[j].op # "add" /\ list[k].op # "add"
            /\ Locate(base, list[j]) = i /\ Locate(base, list[k]) = i
        BY DEF ChangesTo
      <3>3. kind # "policy"
        BY DEF Kinds
      <3>4. QED  BY <3>1, <3>2, <3>3 DEF TwiceNamed
    <2>3. QED  BY <2>1, <2>2, RowsAgree DEF EditorInv
  <1>2. ApplyOverlay(base, list).policy = PolicyValue(base, list)
    BY PolicyAgrees DEF EditorInv
  <1>3. QED  BY <1>1, <1>2

\* What the Runtimes page shows as in use, row by row, is what builds get,
\* for any catalogue and any list of changes that edits, imports and newer
\* pages leave (itemRows and policyValue against applyOverlay).
THEOREM RowsAreUsed == SpecEditor => []RowsAreWhatBuildsUse
  <1>1. EditorInv /\ [NextEditor]_editorVars => EditorInv'
    BY EditorKeeps
  <1>2. QED  BY <1>1, EditorStarts, EditorMeans, PTL DEF SpecEditor

\* The list of changes has at most one change of an item as its change names
\* it, of a kind the page knows, and none removes the policy, however it came
\* about (checkChange, putChange, editChanges, parseOverlay, applyImport).
THEOREM ListsStayGood == SpecEditor => []EditorInv
  <1>1. EditorInv /\ [NextEditor]_editorVars => EditorInv'
    BY EditorKeeps
  <1>2. QED  BY <1>1, EditorStarts, PTL DEF SpecEditor


(***************************************************************************)
(* InstallerFile. Padding                                                  *)
(***************************************************************************)
LEMMA Divided ==
    ASSUME NEW n \in Nat, NEW u \in Nat \ {0}
    PROVE  n = u * (n \div u) + (n % u) /\ n % u \in 0..(u - 1) /\ n \div u \in Nat
  OBVIOUS

LEMMA OneRemainder ==
    ASSUME NEW u \in Nat \ {0}, NEW q \in Nat, NEW r \in 0..(u - 1)
    PROVE  (u * q + r) % u = r /\ (u * q + r) \div u = q
  OBVIOUS
LEMMA ShortIs ==
    ASSUME NEW n \in Nat, NEW u \in Nat \ {0}
    PROVE  /\ Short(n, u) \in 0..(u - 1)
           /\ Short(n + Short(n, u), u) = 0
           /\ ((n + u - 1) \div u) * u = n + Short(n, u)
  <1> DEFINE q == n \div u
             r == n % u
  <1>1. n = u * q + r /\ r \in 0..(u - 1) /\ q \in Nat
    BY Divided
  <1> HIDE DEF q, r
  <1>2. CASE r = 0
    <2>1. Short(n, u) = 0
      <3>1. (u - 0) % u = 0
        <4>1. (u * 1 + 0) % u = 0
          BY OneRemainder
        <4>2. QED  BY <4>1
      <3>2. QED  BY <1>2, <3>1 DEF Short, r
    <2>2. n + u - 1 = u * q + (u - 1) /\ u - 1 \in 0..(u - 1)
      BY <1>1, <1>2
    <2>3. (n + u - 1) \div u = q
      BY <1>1, <2>2, OneRemainder
    <2>4. n + 0 = n /\ q * u = n
      BY <1>1, <1>2
    <2>5. QED  BY <2>1, <2>3, <2>4
  <1>3. CASE r # 0
    <2>1. u - r \in 0..(u - 1) /\ u * 0 + (u - r) = u - r
      BY <1>1, <1>3
    <2>2. Short(n, u) = u - r
      <3>1. (u - r) % u = u - r
        BY <2>1, OneRemainder
      <3>2. QED  BY <3>1 DEF Short, r
    <2>3. n + (u - r) = u * (q + 1) + 0 /\ q + 1 \in Nat /\ 0 \in 0..(u - 1)
      BY <1>1
    <2>4. (n + (u - r)) % u = 0
      BY <2>3, OneRemainder
    <2>5. Short(n + (u - r), u) = 0
      <3>1. (u - 0) % u = 0
        <4>1. (u * 1 + 0) % u = 0
          BY OneRemainder
        <4>2. QED  BY <4>1
      <3>2. QED  BY <2>4, <3>1 DEF Short
    <2>6. n + u - 1 = u * (q + 1) + (r - 1) /\ r - 1 \in 0..(u - 1)
      BY <1>1, <1>3
    <2>7. (n + u - 1) \div u = q + 1
      BY <1>1, <2>3, <2>6, OneRemainder
    <2>8. (q + 1) * u = n + (u - r)
      BY <1>1
    <2>9. QED  BY <2>1, <2>2, <2>5, <2>7, <2>8
  <1>4. QED  BY <1>2, <1>3

(***************************************************************************)
(* InstallerFile. Cells                                                    *)
(***************************************************************************)
PlanSet == [body : DOMAIN Bodies, of : DOMAIN Records, signed : BOOLEAN] \cup {NoPlan}
MemberSet == {Member(name) : name \in DOMAIN Members}
Things == DOMAIN Programs \cup DOMAIN Icons \cup DOMAIN Records \cup PlanSet \cup DOMAIN Members
DataCells == [is : {"base", "icon", "record", "plan", "member"}, of : Things, at : Nat]
Headers == [is : {"header"}, name : DOMAIN Members, size : Nat]
Footers == [is : {"footer"}, record : Nat, plan : Nat, pack : Nat]
Cell == {Nul} \cup DataCells \cup Headers \cup Footers

LEMMA NulsAre ==
    ASSUME NEW n \in Nat
    PROVE  /\ Nuls(n) \in Seq(Cell) /\ Len(Nuls(n)) = n /\ \A i \in 1..n : Nuls(n)[i] = Nul
  <1>1. \A i \in 1..n : Nul \in Cell
    BY DEF Cell
  <1>2. QED  BY <1>1 DEF Nuls

LEMMA CellsAre ==
    ASSUME NEW what \in {"base", "icon", "record", "plan", "member"}, NEW thing \in Things, NEW n \in Nat
    PROVE  /\ CellsOf(what, thing, n) \in Seq(DataCells) /\ CellsOf(what, thing, n) \in Seq(Cell)
           /\ Len(CellsOf(what, thing, n)) = n
           /\ \A i \in 1..n : CellsOf(what, thing, n)[i] = [is |-> what, of |-> thing, at |-> i]
  <1>1. \A i \in 1..n : [is |-> what, of |-> thing, at |-> i] \in DataCells
    BY DEF DataCells
  <1>2. DataCells \subseteq Cell
    BY DEF Cell
  <1>3. CellsOf(what, thing, n) = [i \in 1..n |-> [is |-> what, of |-> thing, at |-> i]]
    BY DEF CellsOf
  <1> HIDE DEF CellsOf
  <1>4. CellsOf(what, thing, n) \in Seq(DataCells)
    BY <1>1, <1>3
  <1>5. CellsOf(what, thing, n) \in Seq(Cell)
    BY <1>2, <1>4, SeqMonotonic
  <1>6. QED  BY <1>3, <1>4, <1>5

LEMMA MemberIs ==
    ASSUME NEW name \in DOMAIN Members
    PROVE  /\ Member(name).name = name /\ Member(name).data \in Seq(Cell)
           /\ Len(Member(name).data) = Members[name] /\ Members[name] \in Nat
  BY CellsAre, InstallerFileAssumption DEF Member, Things, Sizes

LEMMA RecordCellsAre ==
    ASSUME NEW record \in DOMAIN Records
    PROVE  RecordCells(record) \in Seq(Cell)
  BY CellsAre, InstallerFileAssumption DEF RecordCells, Things, Sizes

LEMMA PlanCellsAre ==
    ASSUME NEW plan \in PlanSet
    PROVE  PlanCells(plan) \in Seq(Cell) /\ (PlanCells(plan) # <<>> => Head(PlanCells(plan)).of = plan)
  <1>1. CASE plan = NoPlan
    BY <1>1 DEF PlanCells
  <1>2. CASE plan # NoPlan
    <2> DEFINE n == Bodies[plan.body] + IF plan.signed THEN 1 ELSE 0
    <2>1. plan \in Things /\ n \in Nat
      BY <1>2, InstallerFileAssumption DEF PlanSet, Things, Sizes
    <2>2. PlanCells(plan) = CellsOf("plan", plan, n)
      BY <1>2 DEF PlanCells
    <2> HIDE DEF n
    <2>3. /\ CellsOf("plan", plan, n) \in Seq(Cell) /\ Len(CellsOf("plan", plan, n)) = n
          /\ \A i \in 1..n : CellsOf("plan", plan, n)[i] = [is |-> "plan", of |-> plan, at |-> i]
      BY <2>1, CellsAre
    <2>4. ASSUME n # 0 PROVE Head(CellsOf("plan", plan, n)).of = plan
      <3>1. 1 \in 1..n
        BY <2>1, <2>4
      <3>2. Head(CellsOf("plan", plan, n)) = CellsOf("plan", plan, n)[1]
        BY <2>3
      <3>3. CellsOf("plan", plan, n)[1] = [is |-> "plan", of |-> plan, at |-> 1]
        BY <2>3, <3>1
      <3>4. QED  BY <3>2, <3>3
    <2>5. QED  BY <2>2, <2>3, <2>4
  <1>3. QED  BY <1>1, <1>2

(***************************************************************************)
(* InstallerFile. The tar of the packed files                              *)
(***************************************************************************)
TarStep(pack, from, i) == IF i > Len(pack) THEN Nuls(2 * TarBlock) ELSE TarMember(pack[i]) \o from[i + 1]
SizeStep(pack, from, i) ==
    IF i > Len(pack) THEN 2 * TarBlock ELSE TarBlock + UpToBlock(Len(pack[i].data)) + from[i + 1]

LEMMA TarFromIs ==
    ASSUME NEW pack, Len(pack) \in Nat
    PROVE  TarFrom(pack) = [i \in 1..(Len(pack) + 1) |-> TarStep(pack, TarFrom(pack), i)]
  <1> DEFINE n == Len(pack)
             Is(g, m) == g = [i \in (n + 1 - m)..(n + 1) |-> TarStep(pack, g, i)]
             T == {m \in Nat : \A g : ~Is(g, m)}
  <1>1. T = {}
    <2> SUFFICES ASSUME T # {} PROVE FALSE
      OBVIOUS
    <2>1. PICK m \in T : \A y \in T : m <= y
      BY LeastNat
    <2>2. m # 0
      <3> DEFINE g == [i \in (n + 1 - 0)..(n + 1) |-> Nuls(2 * TarBlock)]
      <3>1. Is(g, 0)
        BY DEF TarStep
      <3>2. QED  BY <3>1
    <2>3. m - 1 \in Nat /\ m - 1 \notin T
      <3>1. m \in Nat
        OBVIOUS
      <3> HIDE DEF T
      <3>2. QED  BY <2>1, <2>2, <3>1
    <2>4. PICK g : Is(g, m - 1)
      <3> HIDE DEF Is
      <3>1. QED  BY <2>3
    <2> DEFINE a == n + 1 - m
               h == [i \in a..(n + 1) |-> IF i = a THEN TarStep(pack, g, a) ELSE g[i]]
    <2>5. ASSUME NEW i \in a..(n + 1) PROVE h[i] = TarStep(pack, h, i)
      <3>1. CASE i = a
        <4>1. a + 1 \in a..(n + 1) /\ h[a + 1] = g[a + 1]
          BY <2>2
        <4>2. QED  BY <3>1, <4>1 DEF TarStep
      <3>2. CASE i # a
        <4>1. i \in (n + 1 - (m - 1))..(n + 1) /\ h[i] = g[i]
          BY <3>2
        <4>2. g[i] = TarStep(pack, g, i)
          BY <2>4, <4>1
        <4>3. ~(i > n) => i + 1 \in a..(n + 1) /\ i + 1 # a /\ h[i + 1] = g[i + 1]
          BY <3>2
        <4>4. QED  BY <4>1, <4>2, <4>3 DEF TarStep
      <3>3. QED  BY <3>1, <3>2
    <2> DEFINE rhs == [i \in a..(n + 1) |-> TarStep(pack, h, i)]
    <2>6. h = rhs
      <3>1. DOMAIN h = a..(n + 1) /\ h = [i \in a..(n + 1) |-> h[i]]
        OBVIOUS
      <3> HIDE DEF h
      <3>2. QED  BY <2>5, <3>1
    <2> HIDE DEF h
    <2>7. QED  BY <2>6
  <1>2. \E g : Is(g, n)
    BY <1>1
  <1>3. n + 1 - n = 1
    OBVIOUS
  <1>4. \E g : g = [i \in 1..(n + 1) |-> TarStep(pack, g, i)]
    BY <1>2, <1>3
  <1>5. QED  BY <1>4 DEF TarFrom, TarStep

LEMMA SizeFromIs ==
    ASSUME NEW pack, Len(pack) \in Nat
    PROVE  SizeFrom(pack) = [i \in 1..(Len(pack) + 1) |-> SizeStep(pack, SizeFrom(pack), i)]
  <1> DEFINE n == Len(pack)
             Is(g, m) == g = [i \in (n + 1 - m)..(n + 1) |-> SizeStep(pack, g, i)]
             T == {m \in Nat : \A g : ~Is(g, m)}
  <1>1. T = {}
    <2> SUFFICES ASSUME T # {} PROVE FALSE
      OBVIOUS
    <2>1. PICK m \in T : \A y \in T : m <= y
      BY LeastNat
    <2>2. m # 0
      <3> DEFINE g == [i \in (n + 1 - 0)..(n + 1) |-> 2 * TarBlock]
      <3>1. Is(g, 0)
        BY DEF SizeStep
      <3>2. QED  BY <3>1
    <2>3. m - 1 \in Nat /\ m - 1 \notin T
      <3>1. m \in Nat
        OBVIOUS
      <3> HIDE DEF T
      <3>2. QED  BY <2>1, <2>2, <3>1
    <2>4. PICK g : Is(g, m - 1)
      <3> HIDE DEF Is
      <3>1. QED  BY <2>3
    <2> DEFINE a == n + 1 - m
               h == [i \in a..(n + 1) |-> IF i = a THEN SizeStep(pack, g, a) ELSE g[i]]
    <2>5. ASSUME NEW i \in a..(n + 1) PROVE h[i] = SizeStep(pack, h, i)
      <3>1. CASE i = a
        <4>1. a + 1 \in a..(n + 1) /\ h[a + 1] = g[a + 1]
          BY <2>2
        <4>2. QED  BY <3>1, <4>1 DEF SizeStep
      <3>2. CASE i # a
        <4>1. i \in (n + 1 - (m - 1))..(n + 1) /\ h[i] = g[i]
          BY <3>2
        <4>2. g[i] = SizeStep(pack, g, i)
          BY <2>4, <4>1
        <4>3. ~(i > n) => i + 1 \in a..(n + 1) /\ i + 1 # a /\ h[i + 1] = g[i + 1]
          BY <3>2
        <4>4. QED  BY <4>1, <4>2, <4>3 DEF SizeStep
      <3>3. QED  BY <3>1, <3>2
    <2> DEFINE rhs == [i \in a..(n + 1) |-> SizeStep(pack, h, i)]
    <2>6. h = rhs
      <3>1. DOMAIN h = a..(n + 1) /\ h = [i \in a..(n + 1) |-> h[i]]
        OBVIOUS
      <3> HIDE DEF h
      <3>2. QED  BY <2>5, <3>1
    <2> HIDE DEF h
    <2>7. QED  BY <2>6
  <1>2. \E g : Is(g, n)
    BY <1>1
  <1>3. n + 1 - n = 1
    OBVIOUS
  <1>4. \E g : g = [i \in 1..(n + 1) |-> SizeStep(pack, g, i)]
    BY <1>2, <1>3
  <1>5. QED  BY <1>4 DEF SizeFrom, SizeStep

\* Lists in a row.
LEMMA RowIs ==
    ASSUME NEW S, NEW s \in Seq(S), NEW t \in Seq(S)
    PROVE  s \o t \in Seq(S) /\ Len(s \o t) = Len(s) + Len(t) /\ Len(s) \in Nat /\ Len(t) \in Nat
  OBVIOUS
LEMMA ListIs ==
    ASSUME NEW S, NEW s \in Seq(S)
    PROVE  s = [i \in 1..Len(s) |-> s[i]]
  OBVIOUS
LEMMA Regroup ==
    ASSUME NEW S, NEW s \in Seq(S), NEW t \in Seq(S), NEW u \in Seq(S)
    PROVE  t \o u \in Seq(S) /\ (s \o t) \o u = s \o (t \o u)
  <1>1. t \o u \in Seq(S)
    BY RowIs
  <1>2. (s \o t) \o u = s \o (t \o u)
    BY ConcatAssociative
  <1>3. QED  BY <1>1, <1>2

Lists(S) == Seq(S)
Cat(s, t) == s \o t

LEMMA Regrouped ==
    ASSUME NEW S
    PROVE  \A s, t, u \in Lists(S) : Cat(t, u) \in Lists(S) /\ Cat(Cat(s, t), u) = Cat(s, Cat(t, u))
  BY Regroup DEF Lists, Cat

LEMMA FirstOfRow ==
    ASSUME NEW S, NEW s \in Seq(S), NEW t \in Seq(S), NEW i \in 1..Len(s)
    PROVE  (s \o t)[i] = s[i]
  OBVIOUS
LEMMA SecondOfRow ==
    ASSUME NEW S, NEW s \in Seq(S), NEW t \in Seq(S), NEW i \in 1..Len(t)
    PROVE  (s \o t)[Len(s) + i] = t[i]
  OBVIOUS

LEMMA SecondPart ==
    ASSUME NEW S, NEW s \in Seq(S), NEW t \in Seq(S)
    PROVE  SubSeq(s \o t, Len(s) + 1, Len(s) + Len(t)) = t
  <1> DEFINE part == SubSeq(s \o t, Len(s) + 1, Len(s) + Len(t))
  <1>1. /\ s \o t \in Seq(S) /\ Len(s) \in Nat /\ Len(t) \in Nat
        /\ \A i \in 1..(Len(s) + Len(t)) : (s \o t)[i] = IF i <= Len(s) THEN s[i] ELSE t[i - Len(s)]
    BY ConcatProperties
  <1>2. Len(s \o t) = Len(s) + Len(t)
    BY ConcatProperties
  <1>3. \A i \in (Len(s) + 1)..(Len(s) + Len(t)) : (s \o t)[i] \in S
    BY <1>1, <1>2, ElementOfSeq
  <1> DEFINE both == s \o t
             m == Len(s) + 1
             n == Len(s) + Len(t)
  <1>4. m \in Int /\ n \in Int /\ n - m + 1 = Len(t) /\ (~(m <= n) => Len(t) = 0)
    BY <1>1
  <1>5. /\ SubSeq(both, m, n) \in Seq(S)
        /\ Len(SubSeq(both, m, n)) = IF m <= n THEN n - m + 1 ELSE 0
        /\ \A i \in 1..(n - m + 1) : SubSeq(both, m, n)[i] = both[m + i - 1]
    <2> HIDE DEF both
    <2>1. \A i \in m..n : both[i] \in S
      BY <1>3 DEF both
    <2> HIDE DEF m, n
    <2>2. QED  BY <1>4, <2>1, SubSeqProperties
  <1>6. Len(part) = Len(t) /\ part \in Seq(S)
    BY <1>1, <1>4, <1>5
  <1>7. \A i \in 1..Len(t) : part[i] = t[i]
    <2> SUFFICES ASSUME NEW i \in 1..Len(t) PROVE part[i] = t[i]
      OBVIOUS
    <2>1. part[i] = both[m + i - 1]
      BY <1>5, <1>4
    <2>2. m + i - 1 = Len(s) + i /\ Len(s) + i \in 1..(Len(s) + Len(t)) /\ ~(Len(s) + i <= Len(s)) /\ Len(s) + i - Len(s) = i
      BY <1>1
    <2>3. (s \o t)[Len(s) + i] = t[i]
      BY <1>1, <2>2
    <2>4. QED  BY <2>1, <2>2, <2>3
  <1> HIDE DEF part
  <1>8. QED  BY <1>6, <1>7, SeqEqual DEF part

LEMMA OfSecondPart ==
    ASSUME NEW S, NEW s \in Seq(S), NEW t \in Seq(S), NEW m \in 1..(Len(t) + 1), NEW n \in 0..Len(t)
    PROVE  SubSeq(s \o t, Len(s) + m, Len(s) + n) = SubSeq(t, m, n)
  <1>1. CASE m <= n
    <2>1. Len(s) + m \in Len(s) + 1 .. Len(s) + Len(t) /\ Len(s) + n \in Len(s) + 1 .. Len(s) + Len(t)
      BY <1>1, LenProperties
    <2>2. Len(s) + m - Len(s) = m /\ Len(s) + n - Len(s) = n
      BY LenProperties
    <2> DEFINE a == Len(s) + m
               b == Len(s) + n
    <2>3. a \in Len(s) + 1 .. Len(s) + Len(t) /\ b \in Len(s) + 1 .. Len(s) + Len(t)
      BY <2>1
    <2> HIDE DEF a, b
    <2>4. SubSeq(s \o t, a, b) = SubSeq(t, a - Len(s), b - Len(s))
      BY <2>3, SubSeqOfConcat2
    <2>5. QED  BY <2>2, <2>4 DEF a, b
  <1>2. CASE ~(m <= n)
    <2>1. /\ m \in Int /\ n \in Int /\ n < m /\ Len(s) + m \in Int /\ Len(s) + n \in Int
          /\ Len(s) + n < Len(s) + m
      BY <1>2, LenProperties
    <2>2. QED  BY <2>1, SubSeqEmpty
  <1>3. QED  BY <1>1, <1>2

LEMMA OfFirstPart ==
    ASSUME NEW S, NEW s \in Seq(S), NEW t \in Seq(S), NEW m \in 1..(Len(s) + 1), NEW n \in 0..Len(s)
    PROVE  SubSeq(s \o t, m, n) = SubSeq(s, m, n)
  <1>1. CASE m <= n
    <2>1. m \in 1..Len(s) /\ n \in 1..Len(s)
      BY <1>1
    <2>2. QED  BY <2>1, SubSeqOfConcat1
  <1>2. CASE ~(m <= n)
    <2>1. m \in Int /\ n \in Int /\ n < m
      BY <1>2
    <2>2. QED  BY <2>1, SubSeqEmpty
  <1>3. QED  BY <1>1, <1>2

LEMMA FirstPart ==
    ASSUME NEW S, NEW s \in Seq(S), NEW t \in Seq(S)
    PROVE  SubSeq(s \o t, 1, Len(s)) = s
  <1>1. 1 \in 1..(Len(s) + 1) /\ Len(s) \in 0..Len(s) /\ Len(s) \in Nat
    BY LenProperties
  <1>2. QED  BY <1>1, OfFirstPart, SubSeqFull

\* Of three in a row.
LEMMA MiddlePart ==
    ASSUME NEW S, NEW s \in Seq(S), NEW t \in Seq(S), NEW u \in Seq(S)
    PROVE  SubSeq((s \o t) \o u, Len(s) + 1, Len(s) + Len(t)) = t
  <1>1. Len(s) \in Nat /\ Len(t) \in Nat /\ s \o t \in Seq(S) /\ Len(s \o t) = Len(s) + Len(t)
    BY ConcatProperties
  <1> DEFINE both == s \o t
             m == Len(s) + 1
             n == Len(s) + Len(t)
  <1>2. m \in 1..(Len(both) + 1) /\ n \in 0..Len(both) /\ both \in Seq(S)
    BY <1>1
  <1>3. SubSeq(both, m, n) = t
    BY SecondPart
  <1> HIDE DEF both, m, n
  <1>4. SubSeq(both \o u, m, n) = SubSeq(both, m, n)
    BY <1>2, OfFirstPart
  <1>5. QED  BY <1>3, <1>4 DEF both, m, n

LEMMA FirstOfBoth ==
    ASSUME NEW S, NEW s \in Seq(S), NEW t \in Seq(S), Len(s) # 0
    PROVE  s \o t \in Seq(S) /\ Len(s \o t) = Len(s) + Len(t) /\ (s \o t)[1] = s[1]
  OBVIOUS

LEMMA TarMemberIs ==
    ASSUME NEW name \in DOMAIN Members
    PROVE  LET size == Members[name] padding == Short(size, TarBlock) IN
           /\ TarMember(Member(name)) \in Seq(Cell)
           /\ Len(TarMember(Member(name))) = TarBlock + size + padding
           /\ UpToBlock(size) = size + padding /\ padding \in Nat
           /\ TarMember(Member(name))[1] = [is |-> "header", name |-> name, size |-> size]
           /\ SubSeq(TarMember(Member(name)), TarBlock + 1, TarBlock + size) = Member(name).data
  <1> DEFINE size == Members[name]
             padding == Short(size, TarBlock)
             data == Member(name).data
             header == [is |-> "header", name |-> name, size |-> size]
             first == <<header>> \o Nuls(TarBlock - 1)
             both == first \o data
  <1>1. data \in Seq(Cell) /\ Len(data) = size /\ size \in Nat /\ Member(name).name = name
    BY MemberIs
  <1>2. padding \in Nat /\ UpToBlock(size) = size + padding /\ TarBlock \in Nat \ {0, 1}
    <2>1. TarBlock \in Nat \ {0, 1} /\ TarBlock \in Nat \ {0}
      BY InstallerFileAssumption
    <2> HIDE DEF size
    <2>2. /\ Short(size, TarBlock) \in 0..(TarBlock - 1)
          /\ ((size + TarBlock - 1) \div TarBlock) * TarBlock = size + Short(size, TarBlock)
      BY <1>1, <2>1, ShortIs
    <2>3. QED  BY <1>1, <2>1, <2>2 DEF UpToBlock
  <1>3. <<header>> \in Seq(Cell) /\ Len(<<header>>) = 1 /\ <<header>>[1] = header
    <2>1. header \in Cell
      BY <1>1 DEF Cell, Headers
    <2> HIDE DEF header
    <2>2. QED  BY <2>1
  <1>4. TarMember(Member(name)) = both \o Nuls(padding)
    BY <1>1 DEF TarMember, UstarHeader
  <1> HIDE DEF data, padding, header, size
  <1>5. first \in Seq(Cell) /\ Len(first) = TarBlock /\ first[1] = header
    <2>1. TarBlock - 1 \in Nat
      BY <1>2
    <2>2. Nuls(TarBlock - 1) \in Seq(Cell) /\ Len(Nuls(TarBlock - 1)) = TarBlock - 1
      BY <2>1, NulsAre
    <2>3. QED  BY <1>2, <1>3, <2>2, ConcatProperties
  <1> HIDE DEF first
  <1>6. both \in Seq(Cell) /\ Len(both) = TarBlock + size /\ both[1] = header
    BY <1>1, <1>2, <1>5, FirstOfBoth
  <1>7. SubSeq(both, TarBlock + 1, TarBlock + size) = data
    BY <1>1, <1>5, SecondPart
  <1> HIDE DEF both
  <1>8. Nuls(padding) \in Seq(Cell) /\ Len(Nuls(padding)) = padding
    BY <1>2, NulsAre
  <1> DEFINE all == both \o Nuls(padding)
  <1>9. all \in Seq(Cell) /\ Len(all) = TarBlock + size + padding /\ all[1] = header
    <2>1. Len(both) \in Nat \ {0}
      BY <1>1, <1>2, <1>6
    <2>2. QED  BY <1>6, <1>8, <2>1, FirstOfBoth
  <1>10. SubSeq(all, TarBlock + 1, TarBlock + size) = data
    <2>1. TarBlock + 1 \in 1..(Len(both) + 1) /\ TarBlock + size \in 0..Len(both)
      BY <1>1, <1>2, <1>6
    <2>2. QED  BY <1>6, <1>7, <1>8, <2>1, OfFirstPart
  <1> HIDE DEF all
  <1>11. TarMember(Member(name)) = all
    BY <1>4 DEF all
  <1>12. QED  BY <1>2, <1>9, <1>10, <1>11 DEF header, size, data, padding

LEMMA TarIs ==
    ASSUME NEW pack \in Seq(MemberSet)
    PROVE  /\ Len(pack) \in Nat
           /\ \A i \in 1..(Len(pack) + 1) :
                 TarFrom(pack)[i] \in Seq(Cell) /\ Len(TarFrom(pack)[i]) = SizeFrom(pack)[i]
           /\ TarFrom(pack)[Len(pack) + 1] = Nuls(2 * TarBlock)
           /\ \A i \in 1..Len(pack) : TarFrom(pack)[i] = TarMember(pack[i]) \o TarFrom(pack)[i + 1]
  <1> DEFINE n == Len(pack)
             tar == TarFrom(pack)
             sizes == SizeFrom(pack)
             Good(i) == tar[i] \in Seq(Cell) /\ Len(tar[i]) = sizes[i]
             T == {m \in Nat : m <= n /\ ~Good(n + 1 - m)}
  <1>1. n \in Nat /\ \A i \in 1..n : pack[i] \in MemberSet
    OBVIOUS
  <1>2. tar = [i \in 1..(n + 1) |-> TarStep(pack, tar, i)] /\ sizes = [i \in 1..(n + 1) |-> SizeStep(pack, sizes, i)]
    BY <1>1, TarFromIs, SizeFromIs
  <1> HIDE DEF tar, sizes
  <1>3. tar[n + 1] = Nuls(2 * TarBlock) /\ sizes[n + 1] = 2 * TarBlock
    <2>1. n + 1 \in 1..(n + 1) /\ n + 1 > n
      BY <1>1
    <2>2. QED  BY <1>2, <2>1 DEF TarStep, SizeStep
  <1>4. ASSUME NEW i \in 1..n
        PROVE  /\ tar[i] = TarMember(pack[i]) \o tar[i + 1]
               /\ sizes[i] = TarBlock + UpToBlock(Len(pack[i].data)) + sizes[i + 1]
    <2>1. i \in 1..(n + 1) /\ ~(i > n)
      BY <1>1
    <2>2. QED  BY <1>2, <2>1 DEF TarStep, SizeStep
  <1>5. Good(n + 1)
    <2>1. 2 * TarBlock \in Nat
      BY InstallerFileAssumption
    <2>2. QED  BY <1>3, <2>1, NulsAre
  <1>6. ASSUME NEW i \in 1..n, Good(i + 1) PROVE Good(i)
    <2>1. PICK name \in DOMAIN Members : pack[i] = Member(name)
      BY <1>1 DEF MemberSet
    <2>2. /\ TarMember(pack[i]) \in Seq(Cell)
          /\ Len(TarMember(pack[i])) = TarBlock + UpToBlock(Len(pack[i].data))
          /\ Len(pack[i].data) \in Nat
      <3>1. Len(pack[i].data) = Members[name] /\ Members[name] \in Nat
        BY <2>1, MemberIs
      <3>2. TarBlock \in Nat
        BY InstallerFileAssumption
      <3>3. /\ TarMember(pack[i]) \in Seq(Cell)
            /\ Len(TarMember(pack[i])) = TarBlock + Members[name] + Short(Members[name], TarBlock)
            /\ UpToBlock(Members[name]) = Members[name] + Short(Members[name], TarBlock)
            /\ Short(Members[name], TarBlock) \in Nat
        BY <2>1, TarMemberIs
      <3>4. QED  BY <3>1, <3>2, <3>3
    <2>3. tar[i + 1] \in Seq(Cell) /\ Len(tar[i + 1]) = sizes[i + 1]
      BY <1>6
    <2>4. /\ TarMember(pack[i]) \o tar[i + 1] \in Seq(Cell)
          /\ Len(TarMember(pack[i]) \o tar[i + 1]) = Len(TarMember(pack[i])) + Len(tar[i + 1])
      BY <2>2, <2>3, ConcatProperties
    <2>5. QED  BY <1>4, <2>2, <2>3, <2>4
  <1> HIDE DEF Good
  <1>7. T = {}
    <2> SUFFICES ASSUME T # {} PROVE FALSE
      OBVIOUS
    <2>1. PICK m \in T : \A y \in T : m <= y
      BY LeastNat
    <2>2. m \in Nat /\ m <= n /\ ~Good(n + 1 - m)
      OBVIOUS
    <2>3. m # 0
      BY <1>1, <1>5, <2>2
    <2>4. m - 1 \in Nat /\ m - 1 <= n /\ ~(m <= m - 1)
      BY <1>1, <2>2, <2>3
    <2>5. Good(n + 1 - (m - 1))
      BY <2>1, <2>4
    <2>6. n + 1 - m \in 1..n /\ (n + 1 - m) + 1 = n + 1 - (m - 1)
      BY <1>1, <2>2, <2>3
    <2>7. QED  BY <1>6, <2>2, <2>5, <2>6
  <1>8. \A i \in 1..(n + 1) : Good(i)
    <2> SUFFICES ASSUME NEW i \in 1..(n + 1) PROVE Good(i)
      OBVIOUS
    <2>1. n + 1 - i \in Nat /\ n + 1 - i <= n /\ n + 1 - (n + 1 - i) = i
      BY <1>1
    <2>2. n + 1 - i \notin T
      BY <1>7
    <2>3. QED  BY <2>1, <2>2
  <1>9. QED  BY <1>1, <1>3, <1>4, <1>8 DEF Good, tar, sizes

LEMMA TarSized ==
    ASSUME NEW pack \in Seq(MemberSet)
    PROVE  Tar(pack) \in Seq(Cell) /\ Len(Tar(pack)) = PackTarSize(pack)
  <1>1. CASE pack = <<>>
    BY <1>1 DEF Tar, PackTarSize
  <1>2. CASE pack # <<>>
    <2>1. 1 \in 1..(Len(pack) + 1)
      OBVIOUS
    <2>2. QED  BY <1>2, <2>1, TarIs DEF Tar, PackTarSize
  <1>3. QED  BY <1>1, <1>2

(* What is read of it *)

AfterMember(cells, o) == o + TarBlock + cells[o + 1].size + Short(cells[o + 1].size, TarBlock)
ReadStep(cells, from, o) ==
    IF o + TarBlock > Len(cells) \/ SubSeq(cells, o + 1, o + TarBlock) = Nuls(TarBlock) THEN <<>>
    ELSE IF cells[o + 1].is # "header" \/ o + TarBlock + cells[o + 1].size > Len(cells) THEN Broken
         ELSE << [name |-> cells[o + 1].name,
                  data |-> SubSeq(cells, o + TarBlock + 1, o + TarBlock + cells[o + 1].size)] >>
                  \o IF AfterMember(cells, o) > Len(cells) THEN <<>> ELSE from[AfterMember(cells, o)]

LEMMA ReadingGoesOn ==
    ASSUME NEW cells \in Seq(Cell), NEW o \in 0..Len(cells), ~(o + TarBlock > Len(cells)), cells[o + 1].is = "header"
    PROVE  AfterMember(cells, o) \in Nat /\ AfterMember(cells, o) > o
  <1>1. TarBlock \in Nat \ {0, 1} /\ TarBlock \in Nat \ {0}
    BY InstallerFileAssumption
  <1>2. o + 1 \in 1..Len(cells)
    BY <1>1
  <1>3. cells[o + 1] \in Cell
    BY <1>2, ElementOfSeq
  <1>4. cells[o + 1].size \in Nat
    BY <1>3 DEF Cell, Nul, DataCells, Headers, Footers
  <1>5. Short(cells[o + 1].size, TarBlock) \in Nat
    <2>1. ASSUME NEW n \in Nat PROVE Short(n, TarBlock) \in Nat
      <3>1. Short(n, TarBlock) \in 0..(TarBlock - 1)
        BY <1>1, ShortIs
      <3>2. QED  BY <3>1
    <2>2. QED  BY <1>4, <2>1
  <1>6. QED  BY <1>1, <1>4, <1>5 DEF AfterMember

LEMMA ReadFromIs ==
    ASSUME NEW cells \in Seq(Cell)
    PROVE  ReadFrom(cells) = [o \in 0..Len(cells) |-> ReadStep(cells, ReadFrom(cells), o)]
  <1> DEFINE n == Len(cells)
             Is(g, m) == g = [o \in (n - m)..n |-> ReadStep(cells, g, o)]
             T == {m \in Nat : m <= n /\ \A g : ~Is(g, m)}
  <1>1. n \in Nat /\ TarBlock \in Nat \ {0}
    BY InstallerFileAssumption
  <1>2. ASSUME NEW g, NEW h, NEW o \in 0..n, \A x \in (o + 1)..n : g[x] = h[x]
        PROVE  ReadStep(cells, g, o) = ReadStep(cells, h, o)
    <2> DEFINE next == AfterMember(cells, o)
    <2>1. CASE ~(o + TarBlock > Len(cells)) /\ cells[o + 1].is = "header" /\ ~(next > Len(cells))
      <3>1. next \in (o + 1)..n
        BY <1>1, <2>1, ReadingGoesOn
      <3>2. QED  BY <1>2, <3>1 DEF ReadStep
    <2>2. CASE ~(~(o + TarBlock > Len(cells)) /\ cells[o + 1].is = "header" /\ ~(next > Len(cells)))
      BY <2>2 DEF ReadStep
    <2>3. QED  BY <2>1, <2>2
  <1>3. T = {}
    <2> SUFFICES ASSUME T # {} PROVE FALSE
      OBVIOUS
    <2>1. PICK m \in T : \A y \in T : m <= y
      BY LeastNat
    <2>2. m \in Nat /\ m <= n /\ \A g : ~Is(g, m)
      OBVIOUS
    <2>3. m # 0
      <3> DEFINE e == [o \in {} |-> 0]
                 g == [o \in (n - 0)..n |-> ReadStep(cells, e, o)]
      <3>1. ASSUME NEW o \in (n - 0)..n PROVE ReadStep(cells, e, o) = ReadStep(cells, g, o)
        <4>1. o \in 0..n /\ \A x \in (o + 1)..n : e[x] = g[x]
          BY <1>1
        <4> HIDE DEF e, g
        <4>2. QED  BY <1>2, <4>1
      <3>2. g = [o \in (n - 0)..n |-> ReadStep(cells, g, o)]
        <4> DEFINE rhs == [o \in (n - 0)..n |-> ReadStep(cells, g, o)]
        <4>1. DOMAIN rhs = (n - 0)..n /\ \A o \in (n - 0)..n : rhs[o] = g[o]
          BY <3>1
        <4>2. QED  BY <3>1
      <3>3. Is(g, 0)
        BY <3>2
      <3> HIDE DEF g, Is
      <3>4. QED  BY <2>2, <3>3
    <2>4. m - 1 \in Nat /\ m - 1 <= n /\ m - 1 \notin T
      <3>1. m - 1 \in Nat /\ m - 1 <= n /\ ~(m <= m - 1)
        BY <1>1, <2>3, <2>2
      <3> HIDE DEF T
      <3>2. QED  BY <2>1, <3>1
    <2>5. PICK g : Is(g, m - 1)
      <3> HIDE DEF Is
      <3>1. QED  BY <2>4
    <2> DEFINE a == n - m
               h == [o \in a..n |-> IF o = a THEN ReadStep(cells, g, a) ELSE g[o]]
    <2>6. ASSUME NEW o \in a..n PROVE h[o] = ReadStep(cells, h, o)
      <3>1. o \in 0..n /\ \A x \in (o + 1)..n : g[x] = h[x]
        BY <1>1, <2>2
      <3>2. ReadStep(cells, g, o) = ReadStep(cells, h, o)
        <4> HIDE DEF h, a
        <4>1. QED  BY <1>2, <3>1
      <3>3. CASE o = a
        BY <3>2, <3>3
      <3>4. CASE o # a
        <4>1. o \in (n - (m - 1))..n /\ h[o] = g[o]
          BY <1>1, <2>2, <3>4
        <4>2. g[o] = ReadStep(cells, g, o)
          BY <2>5, <4>1
        <4>3. QED  BY <3>2, <4>1, <4>2
      <3>5. QED  BY <3>3, <3>4
    <2> DEFINE rhs == [o \in a..n |-> ReadStep(cells, h, o)]
    <2>7. h = rhs
      <3>1. DOMAIN h = a..n /\ h = [o \in a..n |-> h[o]]
        OBVIOUS
      <3> HIDE DEF h
      <3>2. QED  BY <2>6, <3>1
    <2> HIDE DEF h
    <2>8. Is(h, m)
      BY <2>7
    <2> HIDE DEF Is
    <2>9. QED  BY <2>8, <2>2
  <1>4. \E g : Is(g, n)
    <2>1. n \notin T /\ n <= n
      BY <1>1, <1>3
    <2> HIDE DEF Is
    <2>2. QED  BY <1>1, <2>1
  <1>5. n - n = 0
    BY <1>1
  <1>6. \E g : g = [o \in 0..n |-> ReadStep(cells, g, o)]
    BY <1>4, <1>5
  <1>7. QED  BY <1>6 DEF ReadFrom, ReadStep, AfterMember

LEMMA EndIsRead ==
    ASSUME NEW x \in Seq(Cell)
    PROVE  ReadFrom(x \o Nuls(2 * TarBlock))[Len(x)] = <<>>
  <1> DEFINE cells == x \o Nuls(2 * TarBlock)
             o == Len(x)
  <1>1. TarBlock \in Nat \ {0, 1} /\ 2 * TarBlock \in Nat
    BY InstallerFileAssumption
  <1>2. /\ Nuls(2 * TarBlock) \in Seq(Cell) /\ Len(Nuls(2 * TarBlock)) = 2 * TarBlock
        /\ \A i \in 1..(2 * TarBlock) : Nuls(2 * TarBlock)[i] = Nul
    BY <1>1, NulsAre
  <1>3. cells \in Seq(Cell) /\ Len(cells) = o + 2 * TarBlock /\ o \in Nat
    <2>1. Nuls(2 * TarBlock) \in Seq(Cell)
      BY <1>2
    <2>2. cells \in Seq(Cell) /\ Len(cells) = o + Len(Nuls(2 * TarBlock)) /\ o \in Nat
      BY <2>1, RowIs
    <2>3. QED  BY <1>2, <2>2
  <1>4. SubSeq(cells, o + 1, o + TarBlock) = Nuls(TarBlock)
    <2>1. Nuls(2 * TarBlock) = Nuls(TarBlock) \o Nuls(TarBlock)
      <3>1. \A i \in 1..TarBlock : Nuls(TarBlock)[i] = Nul
        BY <1>1, NulsAre
      <3>2. Nuls(TarBlock) \in Seq(Cell) /\ Len(Nuls(TarBlock)) = TarBlock
        BY <1>1, NulsAre
      <3> DEFINE one == Nuls(TarBlock)
                 two == one \o one
      <3>3. one \in Seq(Cell) /\ Len(one) = TarBlock /\ \A i \in 1..TarBlock : one[i] = Nul
        BY <3>1, <3>2
      <3> HIDE DEF one
      <3>4. two \in Seq(Cell) /\ Len(two) = TarBlock + TarBlock
        BY <3>3, RowIs
      <3>5. \A i \in 1..(TarBlock + TarBlock) : two[i] = Nul
        <4> SUFFICES ASSUME NEW i \in 1..(TarBlock + TarBlock) PROVE two[i] = Nul
          OBVIOUS
        <4>1. CASE i <= TarBlock
          <5>1. i \in 1..Len(one)
            BY <1>1, <3>3, <4>1
          <5>2. QED  BY <3>3, <5>1, FirstOfRow
        <4>2. CASE ~(i <= TarBlock)
          <5> DEFINE k == i - TarBlock
          <5>1. k \in 1..Len(one) /\ i = Len(one) + k
            BY <1>1, <3>3, <4>2
          <5> HIDE DEF k
          <5>2. two[Len(one) + k] = one[k]
            BY <3>3, <5>1, SecondOfRow
          <5>3. QED  BY <3>3, <5>1, <5>2
        <4>3. QED  BY <4>1, <4>2
      <3>6. 2 * TarBlock = TarBlock + TarBlock
        BY <1>1
      <3> HIDE DEF two
      <3>7. Nuls(2 * TarBlock) = two
        BY <1>2, <3>4, <3>5, <3>6, SeqEqual
      <3>8. QED  BY <3>7 DEF two, one
    <2>2. Nuls(TarBlock) \in Seq(Cell) /\ Len(Nuls(TarBlock)) = TarBlock
      BY <1>1, NulsAre
    <2> DEFINE one == Nuls(TarBlock)
    <2>3. one \in Seq(Cell)
      BY <2>2
    <2>4. cells = x \o (one \o one)
      BY <2>1
    <2> HIDE DEF one, cells
    <2>5. (x \o one) \o one = x \o (one \o one)
      BY <2>3, ConcatAssociative
    <2>6. SubSeq((x \o one) \o one, Len(x) + 1, Len(x) + Len(one)) = one
      BY <2>3, MiddlePart
    <2>7. QED  BY <2>2, <2>4, <2>5, <2>6 DEF one
  <1> HIDE DEF cells
  <1>5. o \in 0..Len(cells) /\ ReadFrom(cells) = [q \in 0..Len(cells) |-> ReadStep(cells, ReadFrom(cells), q)]
    <2>1. o \in 0..Len(cells)
      BY <1>1, <1>3
    <2>2. cells \in Seq(Cell)
      BY <1>3
    <2>3. QED  BY <2>1, <2>2, ReadFromIs
  <1>6. ReadFrom(cells)[o] = ReadStep(cells, ReadFrom(cells), o)
    BY <1>5
  <1>7. QED  BY <1>4, <1>6 DEF ReadStep, cells

LEMMA MemberIsRead ==
    ASSUME NEW x \in Seq(Cell), NEW rest \in Seq(Cell), NEW name \in DOMAIN Members
    PROVE  LET member == TarMember(Member(name))
               cells == x \o (member \o rest)
           IN  /\ ReadFrom(cells)[Len(x)] = <<Member(name)>> \o ReadFrom(cells)[Len(x \o member)]
               /\ cells = (x \o member) \o rest /\ x \o member \in Seq(Cell)
  <1> DEFINE member == TarMember(Member(name))
             cells == x \o (member \o rest)
             o == Len(x)
             size == Members[name]
             padding == Short(size, TarBlock)
             header == [is |-> "header", name |-> name, size |-> size]
  <1>1. TarBlock \in Nat \ {0, 1} /\ size \in Nat
    BY InstallerFileAssumption, MemberIs
  <1>2. /\ member \in Seq(Cell) /\ Len(member) = TarBlock + size + padding /\ padding \in Nat
        /\ member[1] = header /\ SubSeq(member, TarBlock + 1, TarBlock + size) = Member(name).data
    BY TarMemberIs
  <1> HIDE DEF member, padding, size
  <1>3. member \in Seq(Cell)
    BY <1>2
  <1>4. o \in Nat /\ x \o member \in Seq(Cell) /\ Len(x \o member) = o + Len(member) /\ Len(member) \in Nat
    BY <1>3, RowIs
  <1>5. cells = (x \o member) \o rest
    <2>1. (x \o member) \o rest = x \o (member \o rest)
      <3>1. x \in Lists(Cell) /\ member \in Lists(Cell) /\ rest \in Lists(Cell)
        BY <1>3 DEF Lists
      <3>2. Cat(Cat(x, member), rest) = Cat(x, Cat(member, rest))
        BY ONLY <3>1, Regrouped
      <3>3. QED  BY <3>2 DEF Cat
    <2>2. QED  BY <2>1
  <1>6. x \o member \in Seq(Cell)
    BY <1>4
  <1>7. cells \in Seq(Cell) /\ Len(cells) = o + Len(member) + Len(rest) /\ Len(rest) \in Nat
    <2>1. /\ (x \o member) \o rest \in Seq(Cell) /\ Len((x \o member) \o rest) = Len(x \o member) + Len(rest)
          /\ Len(rest) \in Nat
      BY <1>6, RowIs
    <2>2. QED  BY <1>4, <1>5, <2>1
  <1>8. ASSUME NEW m \in 1..(Len(member) + 1), NEW n \in 0..Len(member)
        PROVE  SubSeq(cells, o + m, o + n) = SubSeq(member, m, n)
    <2>1. /\ SubSeq((x \o member) \o rest, o + m, o + n) = SubSeq(x \o member, o + m, o + n)
      <3>1. o + m \in 1..(Len(x \o member) + 1) /\ o + n \in 0..Len(x \o member)
        BY <1>4
      <3>2. QED  BY <1>6, <3>1, OfFirstPart
    <2>2. SubSeq(x \o member, o + m, o + n) = SubSeq(member, m, n)
      BY <1>3, OfSecondPart
    <2>3. QED  BY <1>5, <2>1, <2>2
  <1>9. cells[o + 1] = header
    <2>1. 1 \in 1..Len(member) /\ o + 1 \in 1..Len(x \o member)
      BY <1>1, <1>2, <1>4
    <2>2. ((x \o member) \o rest)[o + 1] = (x \o member)[o + 1]
      BY <1>6, <2>1, FirstOfRow
    <2>3. (x \o member)[o + 1] = member[1]
      BY <1>3, <2>1, SecondOfRow
    <2>4. QED  BY <1>2, <1>5, <2>2, <2>3
  <1> HIDE DEF cells
  <1>10. SubSeq(cells, o + 1, o + TarBlock) # Nuls(TarBlock)
    <2>1. SubSeq(cells, o + 1, o + TarBlock)[1] = header
      <3>1. 1 \in 1..(Len(member) + 1) /\ TarBlock \in 0..Len(member)
        BY <1>1, <1>2
      <3>2. SubSeq(cells, o + 1, o + TarBlock) = SubSeq(member, 1, TarBlock)
        BY <1>8, <3>1
      <3>3. SubSeq(member, 1, TarBlock)[1] = member[1]
        <4>1. 1 \in Int /\ TarBlock \in Int /\ 1 \in 1..(TarBlock - 1 + 1) /\ 1 + 1 - 1 = 1
          BY <1>1
        <4>2. \A i \in 1..TarBlock : member[i] \in Cell
          <5>1. \A i \in 1..TarBlock : i \in 1..Len(member)
            BY <1>1, <1>2
          <5>2. QED  BY <1>3, <5>1, ElementOfSeq
        <4>3. \A i \in 1..(TarBlock - 1 + 1) : SubSeq(member, 1, TarBlock)[i] = member[1 + i - 1]
          BY <4>1, <4>2, SubSeqProperties
        <4>4. QED  BY <4>1, <4>3
      <3>4. QED  BY <1>2, <3>2, <3>3
    <2>2. Nuls(TarBlock)[1] = Nul
      BY <1>1, NulsAre
    <2>3. header # Nul
      <3>1. header.is = "header" /\ Nul.is = "nul"
        BY DEF Nul
      <3>2. QED  BY <3>1
    <2>4. QED  BY <2>1, <2>2, <2>3
  <1>11. AfterMember(cells, o) = Len(x \o member)
    <2>1. cells[o + 1].size = size
      BY <1>9
    <2>2. QED  BY <1>1, <1>2, <1>4, <2>1 DEF AfterMember, padding
  <1>12. SubSeq(cells, o + TarBlock + 1, o + TarBlock + size) = Member(name).data
    <2>1. TarBlock + 1 \in 1..(Len(member) + 1) /\ TarBlock + size \in 0..Len(member)
      BY <1>1, <1>2
    <2>2. SubSeq(cells, o + (TarBlock + 1), o + (TarBlock + size)) = SubSeq(member, TarBlock + 1, TarBlock + size)
      BY <1>8, <2>1
    <2>3. o + (TarBlock + 1) = o + TarBlock + 1 /\ o + (TarBlock + size) = o + TarBlock + size
      BY <1>1, <1>4
    <2>4. QED  BY <1>2, <2>2, <2>3
  <1>13. ReadFrom(cells)[o] = ReadStep(cells, ReadFrom(cells), o)
    <2> HIDE DEF cells, o
    <2>1. o \in 0..Len(cells)
      BY <1>4, <1>7
    <2>2. ReadFrom(cells) = [q \in 0..Len(cells) |-> ReadStep(cells, ReadFrom(cells), q)]
      BY <1>7, ReadFromIs
    <2>3. QED  BY <2>1, <2>2
  <1>14. ReadStep(cells, ReadFrom(cells), o) = <<[name |-> name, data |-> Member(name).data]>> \o ReadFrom(cells)[Len(x \o member)]
    <2>1. Len(member) = TarBlock + size + padding /\ padding \in Nat
      BY <1>2
    <2>2. Len(cells) = o + Len(member) + Len(rest) /\ Len(rest) \in Nat
      BY <1>7
    <2>3. o \in Nat /\ Len(x \o member) = o + Len(member)
      BY <1>4
    <2>4. /\ ~(o + TarBlock > Len(cells)) /\ ~(o + TarBlock + size > Len(cells))
          /\ ~(AfterMember(cells, o) > Len(cells))
      BY <1>1, <1>11, <2>1, <2>2, <2>3
    <2>5. ~(o + TarBlock > Len(cells) \/ SubSeq(cells, o + 1, o + TarBlock) = Nuls(TarBlock))
      BY <1>10, <2>4
    <2>6. cells[o + 1].is = "header" /\ cells[o + 1].name = name /\ cells[o + 1].size = size
      BY <1>9
    <2>7. QED  BY <1>11, <1>12, <2>4, <2>5, <2>6 DEF ReadStep
  <1>15. [name |-> name, data |-> Member(name).data] = Member(name)
    BY DEF Member
  <1>16. QED  BY <1>4, <1>5, <1>13, <1>14, <1>15 DEF cells, member

LEMMA TarIsRead ==
    ASSUME NEW pack \in Seq(MemberSet)
    PROVE  TarRead(Tar(pack)) = pack
  <1> DEFINE n == Len(pack)
             Good(i) == \A x \in Seq(Cell) : ReadFrom(x \o TarFrom(pack)[i])[Len(x)] = SubSeq(pack, i, n)
             T == {m \in Nat : m <= n /\ ~Good(n + 1 - m)}
  <1>1. n \in Nat /\ \A i \in 1..n : pack[i] \in MemberSet
    OBVIOUS
  <1>2. Good(n + 1)
    <2>1. SubSeq(pack, n + 1, n) = <<>>
      BY <1>1, SubSeqEmpty
    <2>2. QED  BY <2>1, TarIs, EndIsRead
  <1>3. ASSUME NEW i \in 1..n, Good(i + 1) PROVE Good(i)
    <2> SUFFICES ASSUME NEW x \in Seq(Cell) PROVE ReadFrom(x \o TarFrom(pack)[i])[Len(x)] = SubSeq(pack, i, n)
      OBVIOUS
    <2>1. PICK name \in DOMAIN Members : pack[i] = Member(name)
      BY <1>1 DEF MemberSet
    <2> DEFINE member == TarMember(pack[i])
               rest == TarFrom(pack)[i + 1]
    <2>2. TarFrom(pack)[i] = member \o rest /\ rest \in Seq(Cell)
      <3>1. i + 1 \in 1..(n + 1)
        BY <1>1
      <3>2. QED  BY <3>1, TarIs
    <2> HIDE DEF rest
    <2>3. /\ ReadFrom(x \o (member \o rest))[Len(x)] = <<pack[i]>> \o ReadFrom(x \o (member \o rest))[Len(x \o member)]
          /\ x \o (member \o rest) = (x \o member) \o rest /\ x \o member \in Seq(Cell)
      <3>1. /\ ReadFrom(x \o (TarMember(Member(name)) \o rest))[Len(x)]
                = <<Member(name)>> \o ReadFrom(x \o (TarMember(Member(name)) \o rest))[Len(x \o TarMember(Member(name)))]
            /\ x \o (TarMember(Member(name)) \o rest) = (x \o TarMember(Member(name))) \o rest
            /\ x \o TarMember(Member(name)) \in Seq(Cell)
        BY <2>2, MemberIsRead
      <3>2. member = TarMember(Member(name))
        BY <2>1
      <3> HIDE DEF member
      <3>3. QED  BY <2>1, <3>1, <3>2
    <2>4. ReadFrom((x \o member) \o rest)[Len(x \o member)] = SubSeq(pack, i + 1, n)
      BY <1>3, <2>3 DEF rest
    <2>5. SubSeq(pack, i, n) = <<pack[i]>> \o SubSeq(pack, i + 1, n)
      <3>1. i \in 1..Len(pack) /\ n \in i..Len(pack)
        BY <1>1
      <3>2. QED  BY <3>1, SubSeqRecursiveFirst
    <2>6. QED  BY <2>2, <2>3, <2>4, <2>5
  <1> HIDE DEF Good
  <1>4. T = {}
    <2> SUFFICES ASSUME T # {} PROVE FALSE
      OBVIOUS
    <2>1. PICK m \in T : \A y \in T : m <= y
      BY LeastNat
    <2>2. m \in Nat /\ m <= n /\ ~Good(n + 1 - m)
      OBVIOUS
    <2>3. m # 0
      BY <1>1, <1>2, <2>2
    <2>4. m - 1 \in Nat /\ m - 1 <= n /\ ~(m <= m - 1)
      BY <1>1, <2>2, <2>3
    <2>5. Good(n + 1 - (m - 1))
      BY <2>1, <2>4
    <2>6. n + 1 - m \in 1..n /\ (n + 1 - m) + 1 = n + 1 - (m - 1)
      BY <1>1, <2>2, <2>3
    <2>7. QED  BY <1>3, <2>2, <2>5, <2>6
  <1>5. Good(1)
    <2>1. n \in Nat /\ n <= n /\ n + 1 - n = 1 /\ n \notin T
      BY <1>1, <1>4
    <2>2. QED  BY <2>1
  <1>6. CASE pack = <<>>
    <2>1. Tar(pack) = <<>> /\ TarBlock \in Nat \ {0, 1} /\ Len(<<>>) = 0 /\ <<>> \in Seq(Cell)
      BY <1>6, InstallerFileAssumption DEF Tar
    <2>2. ReadFrom(<<>>) = [o \in 0..0 |-> ReadStep(<<>>, ReadFrom(<<>>), o)]
      BY <2>1, ReadFromIs
    <2>3. ReadStep(<<>>, ReadFrom(<<>>), 0) = <<>>
      BY <2>1 DEF ReadStep
    <2>4. QED  BY <1>6, <2>1, <2>2, <2>3 DEF TarRead
  <1>7. CASE pack # <<>>
    <2>1. TarFrom(pack)[1] \in Seq(Cell)
      <3>1. 1 \in 1..(n + 1)
        BY <1>1
      <3>2. QED  BY <3>1, TarIs
    <2>2. <<>> \in Seq(Cell) /\ Len(<<>>) = 0 /\ <<>> \o TarFrom(pack)[1] = TarFrom(pack)[1]
      BY <2>1, ConcatEmptySeq
    <2>3. ReadFrom(<<>> \o TarFrom(pack)[1])[Len(<<>>)] = SubSeq(pack, 1, n)
      BY <1>5, <2>2 DEF Good
    <2>4. QED  BY <1>7, <2>2, <2>3, SubSeqFull DEF Tar, TarRead
  <1>8. QED  BY <1>6, <1>7

(***************************************************************************)
(* InstallerFile. The block                                                *)
(***************************************************************************)
LEMMA SixInARow ==
    ASSUME NEW S, NEW a \in Lists(S), NEW b \in Lists(S), NEW c \in Lists(S),
           NEW d \in Lists(S), NEW e \in Lists(S), NEW f \in Lists(S)
    PROVE  LET all == Cat(Cat(Cat(Cat(Cat(a, b), c), d), e), f) IN
           /\ Cat(e, f) \in Lists(S) /\ all = Cat(Cat(Cat(Cat(a, b), c), d), Cat(e, f))
           /\ Cat(d, Cat(e, f)) \in Lists(S) /\ all = Cat(Cat(Cat(a, b), c), Cat(d, Cat(e, f)))
           /\ Cat(c, Cat(d, Cat(e, f))) \in Lists(S) /\ all = Cat(Cat(a, b), Cat(c, Cat(d, Cat(e, f))))
           /\ Cat(b, Cat(c, Cat(d, Cat(e, f)))) \in Lists(S) /\ all = Cat(a, Cat(b, Cat(c, Cat(d, Cat(e, f)))))
  <1>1. \A s, t, u \in Lists(S) : Cat(t, u) \in Lists(S) /\ Cat(Cat(s, t), u) = Cat(s, Cat(t, u))
    BY Regrouped
  <1> DEFINE ab == Cat(a, b)
             abc == Cat(ab, c)
             abcd == Cat(abc, d)
             ef == Cat(e, f)
             def == Cat(d, ef)
             cdef == Cat(c, def)
  <1>2. ab \in Lists(S) /\ ef \in Lists(S)
    BY <1>1
  <1> HIDE DEF ab, ef
  <1>3. abc \in Lists(S) /\ def \in Lists(S)
    BY <1>1, <1>2
  <1> HIDE DEF abc, def
  <1>4. abcd \in Lists(S) /\ cdef \in Lists(S)
    BY <1>1, <1>3
  <1> HIDE DEF abcd, cdef
  <1>5. Cat(b, cdef) \in Lists(S)
    BY <1>1, <1>4
  <1>6. Cat(Cat(abcd, e), f) = Cat(abcd, Cat(e, f))
    BY <1>1, <1>4
  <1>7. Cat(Cat(abc, d), ef) = Cat(abc, Cat(d, ef))
    BY <1>1, <1>2, <1>3
  <1>8. Cat(Cat(ab, c), def) = Cat(ab, Cat(c, def))
    BY <1>1, <1>2, <1>3
  <1>9. Cat(Cat(a, b), cdef) = Cat(a, Cat(b, cdef))
    BY <1>1, <1>4
  <1>10. QED  BY <1>2, <1>3, <1>4, <1>5, <1>6, <1>7, <1>8, <1>9 DEF ab, abc, abcd, ef, def, cdef

StartsWith(cells, bytes) ==
    \A a \in 1..(Len(bytes) + 1), b \in 0..Len(bytes) : SubSeq(cells, a, b) = SubSeq(bytes, a, b)

LaidOut(C, bytes, record, plan, pack, tail) ==
    LET body == Layout(bytes, record, plan, pack)
        cells == body \o tail
        found == [start |-> Len(bytes), record |-> Len(record), plan |-> Len(plan), pack |-> PackTarSize(pack)]
    IN  /\ body \in Seq(Cell) /\ body \in Seq(C) /\ cells \in Seq(C)
        /\ Len(body) \in Nat \ {0} /\ cells[Len(body)].is = "footer"
        /\ ParseFooter(cells, Len(body)) = found
        /\ BlockAt(cells, found) = [record |-> record, plan |-> plan, pack |-> pack]
        /\ SubSeq(cells, 1, Len(bytes)) = bytes /\ StartsWith(cells, bytes)

LEMMA LayoutParts ==
    ASSUME NEW C, Cell \subseteq C, NEW bytes \in Seq(Cell), NEW record \in Seq(Cell), NEW plan \in Seq(Cell),
           NEW pack \in Seq(MemberSet), NEW tail \in Seq(C)
    PROVE  LaidOut(C, bytes, record, plan, pack, tail)
  <1> DEFINE tar == Tar(pack)
             footer == Footer(Len(record), Len(plan), PackTarSize(pack))
             last == <<footer>>
             x2 == bytes \o record
             x3 == x2 \o plan
             x4 == x3 \o tar
             body == x4 \o last
             cells == body \o tail
             found == [start |-> Len(bytes), record |-> Len(record), plan |-> Len(plan), pack |-> PackTarSize(pack)]
  <1>1. tar \in Seq(Cell) /\ Len(tar) = PackTarSize(pack) /\ Len(tar) \in Nat
    BY TarSized, LenProperties
  <1>2. last \in Seq(Cell) /\ Len(last) = 1 /\ last[1] = footer
    <2>1. footer \in Cell
      <3>1. Len(record) \in Nat /\ Len(plan) \in Nat /\ PackTarSize(pack) \in Nat
        BY <1>1, LenProperties
      <3>2. QED  BY <3>1 DEF Footer, Cell, Footers
    <2> HIDE DEF footer
    <2>2. QED  BY <2>1
  <1> HIDE DEF tar, last
  <1>3. tar \in Seq(Cell)
    BY <1>1
  <1>4. last \in Seq(Cell)
    BY <1>2
  <1>5. x2 \in Seq(Cell) /\ Len(x2) = Len(bytes) + Len(record) /\ Len(bytes) \in Nat /\ Len(record) \in Nat
    BY RowIs
  <1> HIDE DEF x2
  <1>6. x2 \in Seq(Cell)
    BY <1>5
  <1>7. x3 \in Seq(Cell) /\ Len(x3) = Len(x2) + Len(plan) /\ Len(plan) \in Nat
    BY <1>6, RowIs
  <1> HIDE DEF x3
  <1>8. x3 \in Seq(Cell)
    BY <1>7
  <1>9. x4 \in Seq(Cell) /\ Len(x4) = Len(x3) + Len(tar)
    BY <1>3, <1>8, RowIs
  <1> HIDE DEF x4
  <1>10. x4 \in Seq(Cell)
    BY <1>9
  <1>11. body \in Seq(Cell) /\ Len(body) = Len(x4) + Len(last) /\ Len(x4) \in Nat
    BY <1>4, <1>10, RowIs
  <1> HIDE DEF body
  <1>12. /\ bytes \in Seq(C) /\ record \in Seq(C) /\ plan \in Seq(C) /\ tar \in Seq(C) /\ last \in Seq(C)
        /\ x2 \in Seq(C) /\ x3 \in Seq(C) /\ x4 \in Seq(C) /\ body \in Seq(C)
    BY <1>3, <1>4, <1>6, <1>8, <1>10, <1>11, SeqMonotonic
  <1> DEFINE r4 == last \o tail
             r3 == tar \o r4
             r2 == plan \o r3
             r1 == record \o r2
  <1> HIDE DEF footer, cells, found, r4, r3, r2, r1
  <1>13. /\ r4 \in Seq(C) /\ cells = x4 \o r4 /\ r3 \in Seq(C) /\ cells = x3 \o r3
        /\ r2 \in Seq(C) /\ cells = x2 \o r2 /\ r1 \in Seq(C) /\ cells = bytes \o r1
    <2>1. bytes \in Seq(C) /\ record \in Seq(C) /\ plan \in Seq(C) /\ tar \in Seq(C) /\ last \in Seq(C) /\ tail \in Seq(C)
      BY <1>12
    <2> DEFINE all == Cat(Cat(Cat(Cat(Cat(bytes, record), plan), tar), last), tail)
    <2>2. bytes \in Lists(C) /\ record \in Lists(C) /\ plan \in Lists(C) /\ tar \in Lists(C) /\ last \in Lists(C) /\ tail \in Lists(C)
      BY <2>1 DEF Lists
    <2>3. /\ Cat(last, tail) \in Lists(C) /\ all = Cat(Cat(Cat(Cat(bytes, record), plan), tar), Cat(last, tail))
          /\ Cat(tar, Cat(last, tail)) \in Lists(C) /\ all = Cat(Cat(Cat(bytes, record), plan), Cat(tar, Cat(last, tail)))
          /\ Cat(plan, Cat(tar, Cat(last, tail))) \in Lists(C)
          /\ all = Cat(Cat(bytes, record), Cat(plan, Cat(tar, Cat(last, tail))))
          /\ Cat(record, Cat(plan, Cat(tar, Cat(last, tail)))) \in Lists(C)
          /\ all = Cat(bytes, Cat(record, Cat(plan, Cat(tar, Cat(last, tail)))))
      BY ONLY <2>2, SixInARow
    <2>4. /\ r4 = Cat(last, tail) /\ r3 = Cat(tar, r4) /\ r2 = Cat(plan, r3) /\ r1 = Cat(record, r2)
          /\ x2 = Cat(bytes, record) /\ x3 = Cat(x2, plan) /\ x4 = Cat(x3, tar) /\ body = Cat(x4, last)
          /\ cells = Cat(body, tail)
      BY DEF cells, body, x4, x3, x2, r4, r3, r2, r1, Cat
    <2>5. /\ r4 \in Lists(C) /\ cells = Cat(x4, r4) /\ r3 \in Lists(C) /\ cells = Cat(x3, r3)
          /\ r2 \in Lists(C) /\ cells = Cat(x2, r2) /\ r1 \in Lists(C) /\ cells = Cat(bytes, r1)
      BY ONLY <2>3, <2>4
    <2>6. QED  BY <2>5 DEF Lists, Cat
  <1>14. SubSeq(cells, 1, Len(bytes)) = bytes
    <2>1. SubSeq(bytes \o r1, 1, Len(bytes)) = bytes
      BY <1>12, <1>13, FirstPart
    <2>2. QED  BY <1>13, <2>1
  <1>15. StartsWith(cells, bytes)
    <2> SUFFICES ASSUME NEW m \in 1..(Len(bytes) + 1), NEW n \in 0..Len(bytes)
                 PROVE  SubSeq(cells, m, n) = SubSeq(bytes, m, n)
      BY DEF StartsWith
    <2>1. SubSeq(bytes \o r1, m, n) = SubSeq(bytes, m, n)
      BY <1>12, <1>13, OfFirstPart
    <2>2. QED  BY <1>13, <2>1
  <1>16. SubSeq(cells, Len(bytes) + 1, Len(bytes) + Len(record)) = record
    <2>1. SubSeq((bytes \o record) \o r2, Len(bytes) + 1, Len(bytes) + Len(record)) = record
      BY <1>12, <1>13, MiddlePart
    <2>2. QED  BY <1>13, <2>1 DEF x2
  <1>17. SubSeq(cells, Len(x2) + 1, Len(x2) + Len(plan)) = plan
    <2>1. SubSeq((x2 \o plan) \o r3, Len(x2) + 1, Len(x2) + Len(plan)) = plan
      BY <1>12, <1>13, MiddlePart
    <2>2. QED  BY <1>13, <2>1 DEF x3
  <1>18. SubSeq(cells, Len(x3) + 1, Len(x3) + Len(tar)) = tar
    <2>1. SubSeq((x3 \o tar) \o r4, Len(x3) + 1, Len(x3) + Len(tar)) = tar
      BY <1>12, <1>13, MiddlePart
    <2>2. QED  BY <1>13, <2>1 DEF x4
  <1>19. cells[Len(body)] = footer
    <2>1. 1 \in 1..Len(last) /\ Len(body) \in 1..Len(body)
      BY <1>2, <1>11
    <2>2. (body \o tail)[Len(body)] = body[Len(body)]
      BY <1>12, <2>1, FirstOfRow
    <2>3. (x4 \o last)[Len(x4) + 1] = last[1]
      BY <1>12, <2>1, SecondOfRow
    <2>4. Len(body) = Len(x4) + 1
      BY <1>2, <1>11
    <2>5. QED  BY <1>2, <2>2, <2>3, <2>4 DEF body, cells
  <1>20. cells \in Seq(C)
    <2>1. body \o tail \in Seq(C)
      BY <1>12, RowIs
    <2>2. QED  BY <2>1 DEF cells
  <1>21. Len(body) = Len(bytes) + Len(record) + Len(plan) + PackTarSize(pack) + 1 /\ PackTarSize(pack) \in Nat
    BY <1>1, <1>2, <1>5, <1>7, <1>9, <1>11
  <1>22. ParseFooter(cells, Len(body)) = found
    <2>1. Len(body) \in Nat \ {0} /\ ~(Len(body) < 1)
      <3>1. Len(bytes) \in Nat /\ Len(record) \in Nat /\ Len(plan) \in Nat
        BY <1>5
      <3>2. QED  BY <3>1, <1>21
    <2>2. /\ cells[Len(body)].is = "footer" /\ cells[Len(body)].record = Len(record)
          /\ cells[Len(body)].plan = Len(plan) /\ cells[Len(body)].pack = PackTarSize(pack)
      BY <1>19 DEF Footer, footer
    <2>3. Len(body) - 1 - Len(record) - Len(plan) - PackTarSize(pack) = Len(bytes) /\ ~(Len(bytes) < 0)
      <3>1. Len(bytes) \in Nat /\ Len(record) \in Nat /\ Len(plan) \in Nat
        BY <1>5
      <3> HIDE DEF body
      <3>2. QED  BY <3>1, <1>21
    <2>4. QED  BY <2>1, <2>2, <2>3 DEF ParseFooter, found
  <1>23. BlockAt(cells, found) = [record |-> record, plan |-> plan, pack |-> pack]
    <2>1. /\ Len(bytes) + Len(record) = Len(x2) /\ Len(bytes) + Len(record) + Len(plan) = Len(x3)
          /\ Len(bytes) + Len(record) + Len(plan) + PackTarSize(pack) = Len(x3) + Len(tar)
          /\ Len(x2) + Len(plan) = Len(x3)
      BY <1>1, <1>5, <1>7
    <2>2. TarRead(tar) = pack
      BY TarIsRead DEF tar
    <2>3. QED  BY <1>16, <1>17, <1>18, <2>1, <2>2 DEF BlockAt, found
  <1>24. body = Layout(bytes, record, plan, pack)
    BY DEF body, x4, x3, x2, tar, last, footer, Layout
  <1>25. Len(body) \in Nat \ {0} /\ cells[Len(body)].is = "footer"
    BY <1>5, <1>7, <1>19, <1>21 DEF Footer, footer
  <1>26. QED  BY <1>11, <1>12, <1>14, <1>20, <1>22, <1>23, <1>24, <1>25, <1>15 DEF cells, found, LaidOut

(* Where the readers look *)

\* The footer of a file with so much padding behind it.
EndsAt(cells, e, k) ==
    /\ e \in Nat \ {0} /\ k \in 0..(Align - 1) /\ e + k <= Len(cells) /\ Len(cells) \in Nat
    /\ \A i \in (e + 1)..(e + k) : cells[i] = Nul
    /\ cells[e].is = "footer" /\ ParseFooter(cells, e) # NoBlock

\* The last j cells are padding.
Padded(cells, end, j) == SubSeq(cells, end - j + 1, end) = Nuls(j)

\* Taking off one more than there is, or fewer.
LEMMA PaddingIs ==
    ASSUME NEW cells, NEW e, NEW k, EndsAt(cells, e, k), NEW j \in 0..(Align - 1)
    PROVE  /\ j = k => Padded(cells, e + k, j)
           /\ j > k => ~Padded(cells, e + k, j)
           /\ j < k => cells[e + k - j] = Nul /\ ParseFooter(cells, e + k - j) = NoBlock
  <1>1. e \in Nat \ {0} /\ k \in 0..(Align - 1) /\ Align \in Nat /\ k \in Nat /\ j \in Nat
    BY InstallerFileAssumption DEF EndsAt
  <1> DEFINE m == e + k - j + 1
             n == e + k
             S == {cells[i] : i \in m..n}
             part == SubSeq(cells, m, n)
  <1>2. m \in Int /\ n \in Int /\ n - m + 1 = j /\ (~(m <= n) => j = 0)
    BY <1>1
  <1>3. /\ part \in Seq(S) /\ Len(part) = IF m <= n THEN n - m + 1 ELSE 0
        /\ \A i \in 1..(n - m + 1) : part[i] = cells[m + i - 1]
    <2>1. \A i \in m..n : cells[i] \in S
      OBVIOUS
    <2> HIDE DEF S, m, n
    <2>2. QED  BY <1>2, <2>1, SubSeqProperties
  <1>4. Len(part) = j /\ \A i \in 1..j : part[i] = cells[m + i - 1]
    BY <1>2, <1>3
  <1>5. Nuls(j) = [i \in 1..j |-> Nul]
    BY DEF Nuls
  <1>6. CASE j = k
    <2>1. \A i \in 1..j : m + i - 1 \in (e + 1)..(e + k)
      BY <1>1, <1>6
    <2>2. \A i \in 1..j : part[i] = Nul
      BY <1>4, <2>1 DEF EndsAt
    <2> HIDE DEF part, S
    <2>3. part = [i \in 1..j |-> part[i]]
      <3>1. part \in Seq(S) /\ Len(part) = j
        BY <1>3, <1>4
      <3>2. part = [i \in 1..Len(part) |-> part[i]]
        BY <3>1, ListIs
      <3>3. QED  BY <3>1, <3>2
    <2>4. part = Nuls(j)
      BY <1>5, <2>2, <2>3
    <2>5. QED  BY <1>1, <1>6, <2>4 DEF part, Padded
  <1>7. CASE j > k
    <2> SUFFICES ASSUME part = Nuls(j) PROVE FALSE
      BY <1>1, <1>7 DEF Padded
    <2>1. j - k \in 1..j /\ m + (j - k) - 1 = e
      BY <1>1, <1>7
    <2>2. part[j - k] = cells[e]
      BY <1>4, <2>1
    <2>3. Nuls(j)[j - k] = Nul
      BY <1>5, <2>1
    <2> HIDE DEF part
    <2>4. cells[e] = Nul
      BY <2>2, <2>3
    <2>5. QED  BY <2>4 DEF EndsAt, Nul
  <1>8. CASE j < k
    <2>1. e + k - j \in (e + 1)..(e + k)
      BY <1>1, <1>8
    <2>2. cells[e + k - j] = Nul
      BY <2>1 DEF EndsAt
    <2>3. Nul.is # "footer"
      BY DEF Nul
    <2>4. ParseFooter(cells, e + k - j) = NoBlock
      BY <2>2, <2>3 DEF ParseFooter
    <2>5. QED  BY <1>1, <1>8, <2>2, <2>4
  <1>9. QED  BY <1>1, <1>6, <1>7, <1>8

LEMMA PaddedIs ==
    ASSUME NEW cells, NEW e, NEW k, EndsAt(cells, e, k)
    PROVE  /\ e \in Nat \ {0} /\ k \in 0..(Align - 1) /\ Align \in Nat /\ k \in Nat /\ ParseFooter(cells, e) # NoBlock
           /\ cells[e] # Nul
           /\ \A j \in 0..(Align - 1) :
                 /\ j = k => Padded(cells, e + k, j)
                 /\ j > k => ~Padded(cells, e + k, j)
                 /\ j < k => cells[e + k - j] = Nul /\ ParseFooter(cells, e + k - j) = NoBlock
  <1>1. /\ e \in Nat \ {0} /\ k \in 0..(Align - 1) /\ Align \in Nat /\ k \in Nat /\ ParseFooter(cells, e) # NoBlock
        /\ cells[e].is = "footer"
    BY InstallerFileAssumption DEF EndsAt
  <1>2. cells[e] # Nul
    BY <1>1 DEF Nul
  <1>3. ASSUME NEW j \in 0..(Align - 1)
        PROVE  /\ j = k => Padded(cells, e + k, j)
               /\ j > k => ~Padded(cells, e + k, j)
               /\ j < k => cells[e + k - j] = Nul /\ ParseFooter(cells, e + k - j) = NoBlock
    BY PaddingIs
  <1>4. QED  BY <1>1, <1>2, <1>3

LEMMA PageFindsIt ==
    ASSUME NEW cells, NEW e, NEW k, EndsAt(cells, e, k)
    PROVE  FooterEnd(cells, e + k) = e
  <1> DEFINE end == e + k
             padded == {j \in 0..(Align - 1) : end - j >= 1 /\ Padded(cells, end, j)}
             ends == {end - j : j \in {j \in padded : ParseFooter(cells, end - j) # NoBlock}}
  <1>1. /\ e \in Nat \ {0} /\ k \in 0..(Align - 1) /\ Align \in Nat /\ k \in Nat /\ ParseFooter(cells, e) # NoBlock
        /\ \A j \in 0..(Align - 1) :
              /\ j = k => Padded(cells, e + k, j)
              /\ j > k => ~Padded(cells, e + k, j)
              /\ j < k => cells[e + k - j] = Nul /\ ParseFooter(cells, e + k - j) = NoBlock
    BY PaddedIs
  <1>2. end \in Nat /\ end - k = e
    BY <1>1
  <1>3. k \in padded
    BY <1>1, <1>2
  <1>4. ASSUME NEW j \in padded, ParseFooter(cells, end - j) # NoBlock PROVE j = k
    <2>1. j \in 0..(Align - 1) /\ Padded(cells, end, j)
      OBVIOUS
    <2> HIDE DEF padded
    <2>2. ~(j > k) /\ ~(j < k)
      BY <1>1, <1>4, <2>1
    <2>3. QED  BY <1>1, <2>1, <2>2
  <1>5. FooterEnd(cells, end) = IF ends = {} THEN 0 ELSE CHOOSE x \in ends : \A y \in ends : y <= x
    BY DEF FooterEnd, Padded
  <1> HIDE DEF padded, end
  <1>6. ends = {e}
    <2>1. e \in ends
      BY <1>1, <1>2, <1>3
    <2>2. \A x \in ends : x = e
      BY <1>2, <1>4
    <2>3. QED  BY <2>1, <2>2
  <1> HIDE DEF ends
  <1>7. (CHOOSE x \in ends : \A y \in ends : y <= x) = e
    <2>1. \E x \in ends : \A y \in ends : y <= x
      BY <1>1, <1>6
    <2>2. (CHOOSE x \in ends : \A y \in ends : y <= x) \in ends
      BY <2>1
    <2>3. QED  BY <1>6, <2>2
  <1>8. QED  BY <1>5, <1>6, <1>7 DEF end

LEMMA EngineFindsIt ==
    ASSUME NEW f, NEW e, NEW k, EndsAt(f.cells, e, k), Unsigned(f) = e + k
    PROVE  FindBlock(f) = BlockAt(f.cells, ParseFooter(f.cells, e))
  <1> DEFINE cells == f.cells
             end == e + k
             off == CHOOSE j \in 0..(Align - 1) : Padded(cells, end, j) /\ (j = Align - 1 \/ cells[end - j] # Nul)
  <1>1. /\ e \in Nat \ {0} /\ k \in 0..(Align - 1) /\ Align \in Nat /\ k \in Nat /\ ParseFooter(cells, e) # NoBlock
        /\ cells[e] # Nul
        /\ \A j \in 0..(Align - 1) :
              /\ j = k => Padded(cells, e + k, j)
              /\ j > k => ~Padded(cells, e + k, j)
              /\ j < k => cells[e + k - j] = Nul /\ ParseFooter(cells, e + k - j) = NoBlock
    BY PaddedIs
  <1>2. end \in Nat /\ end - k = e
    BY <1>1
  <1>3. FindBlock(f) = LET found == ParseFooter(cells, end - off) IN IF found = NoBlock THEN Blank ELSE BlockAt(cells, found)
    BY DEF FindBlock, Padded
  <1> HIDE DEF cells
  <1>4. Padded(cells, end, k) /\ (k = Align - 1 \/ cells[end - k] # Nul)
    BY <1>1, <1>2
  <1>5. off \in 0..(Align - 1) /\ Padded(cells, end, off) /\ (off = Align - 1 \/ cells[end - off] # Nul)
    BY <1>1, <1>4
  <1> HIDE DEF off
  <1>6. off = k
    <2>1. ~(off > k)
      BY <1>1, <1>5
    <2>2. ~(off < k)
      BY <1>1, <1>5
    <2>3. QED  BY <1>1, <1>5, <2>1, <2>2
  <1>7. QED  BY <1>1, <1>2, <1>3, <1>6 DEF cells

(***************************************************************************)
(* InstallerFile. The program                                              *)
(***************************************************************************)
Sections == [ours : BOOLEAN, raw : Nat, size : Nat]
MadeSet ==
    [program : DOMAIN Programs, icon : DOMAIN Icons \cup {"none"}, record : DOMAIN Records, plan : PlanSet, pack : Seq(MemberSet)]

ProgramEnd(m) == DataEnd(Programs[m.program].secs)
ProgramCells(m) == CellsOf("base", m.program, ProgramEnd(m) + Programs[m.program].overlay)
HasIcon(m) == Programs[m.program].kind = "exe" /\ m.icon # "none"
IconSize(m) == IF HasIcon(m) THEN Icons[m.icon] ELSE 0

\* The sections and the bytes of what a file was made of, without its block.
SecsOf(m) ==
    LET secs == Programs[m.program].secs IN
    IF HasIcon(m) THEN Append(secs, [ours |-> TRUE, raw |-> DataEnd(secs), size |-> Icons[m.icon]]) ELSE secs
Before(m) == SubSeq(ProgramCells(m), 1, ProgramEnd(m))
Behind(m) == SubSeq(ProgramCells(m), ProgramEnd(m) + 1, Len(ProgramCells(m)))
BaseOf(m) ==
    IF HasIcon(m) THEN (Before(m) \o CellsOf("icon", m.icon, Icons[m.icon])) \o Behind(m) ELSE ProgramCells(m)

LEMMA SplitIs ==
    ASSUME NEW S, NEW c \in Seq(S), NEW d \in 0..Len(c)
    PROVE  /\ SubSeq(c, 1, d) \in Seq(S) /\ Len(SubSeq(c, 1, d)) = d
           /\ SubSeq(c, d + 1, Len(c)) \in Seq(S) /\ Len(SubSeq(c, d + 1, Len(c))) = Len(c) - d
           /\ SubSeq(c, 1, d) \o SubSeq(c, d + 1, Len(c)) = c
  <1> DEFINE n == Len(c)
             x == SubSeq(c, 1, d)
             z == SubSeq(c, d + 1, n)
  <1>1. n \in Nat /\ d \in Nat /\ d <= n /\ \A i \in 1..n : c[i] \in S
    OBVIOUS
  <1>2. x \in Seq(S) /\ Len(x) = d /\ \A i \in 1..d : x[i] = c[i]
    <2>1. \A i \in 1..d : c[i] \in S
      BY <1>1
    <2>2. /\ SubSeq(c, 1, d) \in Seq(S)
          /\ Len(SubSeq(c, 1, d)) = IF 1 <= d THEN d - 1 + 1 ELSE 0
          /\ \A i \in 1..(d - 1 + 1) : SubSeq(c, 1, d)[i] = c[1 + i - 1]
      <3>1. 1 \in Int /\ d \in Int
        BY <1>1
      <3>2. QED  BY <2>1, <3>1, SubSeqProperties
    <2>3. d - 1 + 1 = d /\ (IF 1 <= d THEN d - 1 + 1 ELSE 0) = d
      BY <1>1
    <2> HIDE DEF x
    <2>4. \A i \in 1..d : 1 + i - 1 = i
      BY <1>1
    <2>5. QED  BY <2>2, <2>3, <2>4 DEF x
  <1>3. z \in Seq(S) /\ Len(z) = n - d /\ \A i \in 1..(n - d) : z[i] = c[d + i]
    <2> DEFINE a == d + 1
    <2>1. \A i \in a..n : c[i] \in S
      BY <1>1
    <2>2. a \in Int /\ n \in Int /\ a = d + 1
      BY <1>1
    <2> HIDE DEF a, n
    <2>3. /\ SubSeq(c, a, n) \in Seq(S)
          /\ Len(SubSeq(c, a, n)) = IF a <= n THEN n - a + 1 ELSE 0
          /\ \A i \in 1..(n - a + 1) : SubSeq(c, a, n)[i] = c[a + i - 1]
      BY <2>1, <2>2, SubSeqProperties
    <2>4. n - a + 1 = n - d /\ (IF a <= n THEN n - a + 1 ELSE 0) = n - d
      BY <1>1, <2>2
    <2>5. \A i \in 1..(n - d) : a + i - 1 = d + i
      BY <1>1, <2>2
    <2>6. z = SubSeq(c, a, n)
      BY DEF a, n
    <2> HIDE DEF z
    <2>7. QED  BY <2>3, <2>4, <2>5, <2>6
  <1> HIDE DEF x, z
  <1>4. x \o z \in Seq(S) /\ Len(x \o z) = n
    <2>1. x \o z \in Seq(S) /\ Len(x \o z) = Len(x) + Len(z)
      BY <1>2, <1>3, RowIs
    <2>2. QED  BY <1>1, <1>2, <1>3, <2>1
  <1>5. \A i \in 1..n : (x \o z)[i] = c[i]
    <2> SUFFICES ASSUME NEW i \in 1..n PROVE (x \o z)[i] = c[i]
      OBVIOUS
    <2>1. CASE i <= d
      <3>1. i \in 1..Len(x)
        BY <1>1, <1>2, <2>1
      <3>2. QED  BY <1>2, <1>3, <3>1, FirstOfRow
    <2>2. CASE ~(i <= d)
      <3>1. i - d \in 1..Len(z) /\ d + (i - d) = i /\ i - d \in 1..(n - d)
        BY <1>1, <1>3, <2>2
      <3>2. (x \o z)[Len(x) + (i - d)] = z[i - d]
        BY <1>2, <1>3, <3>1, SecondOfRow
      <3>3. QED  BY <1>2, <1>3, <3>1, <3>2
    <2>3. QED  BY <2>1, <2>2
  <1>6. x \o z = c
    <2> DEFINE xz == x \o z
    <2>1. xz \in Seq(S) /\ Len(xz) = Len(c) /\ \A i \in 1..Len(xz) : xz[i] = c[i]
      BY <1>4, <1>5
    <2> HIDE DEF xz
    <2>2. xz = c
      BY <2>1, SeqEqual
    <2>3. QED  BY <2>2 DEF xz
  <1>7. QED  BY <1>2, <1>3, <1>6 DEF x, z

LEMMA DataEndIs ==
    ASSUME NEW secs \in Seq(Sections)
    PROVE  DataEnd(secs) \in Nat
  <1>1. CASE secs = <<>>
    BY <1>1 DEF DataEnd
  <1>2. CASE secs # <<>>
    <2>1. Last(secs) \in Sections
      BY <1>2 DEF Last
    <2>2. QED  BY <1>2, <2>1 DEF DataEnd, Sections
  <1>3. QED  BY <1>1, <1>2

LEMMA ProgramIs ==
    ASSUME NEW m \in MadeSet
    PROVE  LET p == Programs[m.program] IN
           /\ p.kind \in {"exe", "run", "zip"} /\ p.overlay \in Nat /\ p.secs \in Seq(Sections)
           /\ p.kind = "exe" => p.secs # <<>> /\ Last(p.secs).ours = FALSE
           /\ ProgramEnd(m) \in Nat
           /\ ProgramCells(m) \in Seq(Cell) /\ Len(ProgramCells(m)) = ProgramEnd(m) + p.overlay
           /\ IconSize(m) \in Nat /\ (HasIcon(m) => m.icon \in DOMAIN Icons)
  <1> DEFINE p == Programs[m.program]
             Bare == [ours : {FALSE}, raw : Nat, size : Nat]
  <1>1. m.program \in DOMAIN Programs /\ m.icon \in DOMAIN Icons \cup {"none"}
    BY DEF MadeSet
  <1>2. p.kind \in {"exe", "run", "zip"} /\ p.overlay \in Nat /\ p.secs \in Seq(Bare) /\ (p.kind = "exe" => p.secs # <<>>)
    BY <1>1, InstallerFileAssumption
  <1> HIDE DEF p
  <1>3. p.secs \in Seq(Sections)
    <2>1. Bare \subseteq Sections
      BY DEF Sections
    <2> HIDE DEF Bare
    <2>2. QED  BY <1>2, <2>1, SeqMonotonic
  <1>4. p.kind = "exe" => Last(p.secs).ours = FALSE
    <2> SUFFICES ASSUME p.kind = "exe" PROVE Last(p.secs).ours = FALSE
      OBVIOUS
    <2>1. p.secs[Len(p.secs)] \in Bare
      <3>1. p.secs # <<>> /\ p.secs \in Seq(Bare)
        BY <1>2
      <3> HIDE DEF Bare
      <3>2. QED  BY <3>1
    <2>2. QED  BY <2>1 DEF Last
  <1>5. DataEnd(p.secs) \in Nat
    BY <1>3, DataEndIs
  <1>6. ProgramEnd(m) \in Nat /\ ProgramEnd(m) + p.overlay \in Nat
    BY <1>2, <1>5 DEF ProgramEnd, p
  <1>7. ProgramCells(m) \in Seq(Cell) /\ Len(ProgramCells(m)) = ProgramEnd(m) + p.overlay
    <2>1. m.program \in Things
      BY <1>1 DEF Things
    <2>2. QED  BY <1>6, <2>1, CellsAre DEF ProgramCells, p
  <1>8. IconSize(m) \in Nat /\ (HasIcon(m) => m.icon \in DOMAIN Icons)
    <2>1. HasIcon(m) => m.icon \in DOMAIN Icons
      BY <1>1 DEF HasIcon
    <2>2. \A icon \in DOMAIN Icons : Icons[icon] \in Nat
      BY InstallerFileAssumption DEF Sizes
    <2>3. QED  BY <2>1, <2>2 DEF IconSize
  <1>9. QED  BY <1>2, <1>3, <1>4, <1>6, <1>7, <1>8 DEF p

LEMMA PartsOfProgram ==
    ASSUME NEW m \in MadeSet
    PROVE  /\ Before(m) \in Seq(Cell) /\ Len(Before(m)) = ProgramEnd(m)
           /\ Behind(m) \in Seq(Cell) /\ Len(Behind(m)) = Programs[m.program].overlay
           /\ Before(m) \o Behind(m) = ProgramCells(m)
  <1> DEFINE c == ProgramCells(m)
             d == ProgramEnd(m)
             o == Programs[m.program].overlay
  <1>1. c \in Seq(Cell) /\ Len(c) = d + o /\ d \in Nat /\ o \in Nat
    BY ProgramIs
  <1> HIDE DEF c, d, o
  <1>2. d \in 0..Len(c) /\ Len(c) - d = o
    BY <1>1
  <1>3. /\ SubSeq(c, 1, d) \in Seq(Cell) /\ Len(SubSeq(c, 1, d)) = d
        /\ SubSeq(c, d + 1, Len(c)) \in Seq(Cell) /\ Len(SubSeq(c, d + 1, Len(c))) = Len(c) - d
        /\ SubSeq(c, 1, d) \o SubSeq(c, d + 1, Len(c)) = c
    BY <1>1, <1>2, SplitIs
  <1>4. QED  BY <1>2, <1>3 DEF c, d, o, Before, Behind

\* The sections and the bytes, with an icon and without.
LEMMA BaseIs ==
    ASSUME NEW m \in MadeSet, Programs[m.program].kind \in {"exe", "run"}
    PROVE  /\ BaseOf(m) \in Seq(Cell)
           /\ Len(BaseOf(m)) = ProgramEnd(m) + IconSize(m) + Programs[m.program].overlay
           /\ SubSeq(BaseOf(m), 1, ProgramEnd(m)) = Before(m)
           /\ SubSeq(BaseOf(m), ProgramEnd(m) + IconSize(m) + 1, Len(BaseOf(m))) = Behind(m)
  <1> DEFINE d == ProgramEnd(m)
             o == Programs[m.program].overlay
             x == Before(m)
             z == Behind(m)
  <1>1. /\ x \in Seq(Cell) /\ Len(x) = d /\ z \in Seq(Cell) /\ Len(z) = o /\ x \o z = ProgramCells(m)
        /\ d \in Nat /\ o \in Nat /\ IconSize(m) \in Nat
    BY PartsOfProgram, ProgramIs
  <1>2. CASE HasIcon(m)
    <2> DEFINE y == CellsOf("icon", m.icon, Icons[m.icon])
               xy == x \o y
    <2>1. y \in Seq(Cell) /\ Len(y) = IconSize(m)
      <3>1. m.icon \in DOMAIN Icons /\ IconSize(m) = Icons[m.icon] /\ Icons[m.icon] \in Nat
        BY <1>1, <1>2, ProgramIs DEF IconSize
      <3>2. m.icon \in Things
        BY <3>1 DEF Things
      <3>3. QED  BY <3>1, <3>2, CellsAre
    <2>2. BaseOf(m) = xy \o z
      BY <1>2 DEF BaseOf
    <2> HIDE DEF x, y, z, d, o
    <2>3. xy \in Seq(Cell) /\ Len(xy) = Len(x) + Len(y)
      BY <1>1, <2>1, RowIs
    <2>4. SubSeq(xy, 1, Len(x)) = x
      BY <1>1, <2>1, FirstPart
    <2> HIDE DEF xy
    <2>5. xy \o z \in Seq(Cell) /\ Len(xy \o z) = Len(xy) + Len(z)
      BY <1>1, <2>3, RowIs
    <2>6. SubSeq(xy \o z, 1, Len(x)) = x
      <3>1. 1 \in 1..(Len(xy) + 1) /\ Len(x) \in 0..Len(xy)
        BY <1>1, <2>1, <2>3
      <3>2. QED  BY <1>1, <2>3, <2>4, <3>1, OfFirstPart
    <2>7. SubSeq(xy \o z, Len(xy) + 1, Len(xy) + Len(z)) = z
      BY <1>1, <2>3, SecondPart
    <2>8. Len(xy) = d + IconSize(m) /\ Len(xy) + Len(z) = d + IconSize(m) + o
      BY <1>1, <2>1, <2>3
    <2>9. QED  BY <1>1, <2>2, <2>5, <2>6, <2>7, <2>8 DEF x, z, d, o
  <1>3. CASE ~HasIcon(m)
    <2>1. BaseOf(m) = x \o z /\ IconSize(m) = 0
      BY <1>1, <1>3 DEF BaseOf, IconSize
    <2> HIDE DEF x, z, d, o
    <2>2. x \o z \in Seq(Cell) /\ Len(x \o z) = Len(x) + Len(z)
      BY <1>1, RowIs
    <2>3. SubSeq(x \o z, 1, Len(x)) = x
      BY <1>1, FirstPart
    <2>4. SubSeq(x \o z, Len(x) + 1, Len(x) + Len(z)) = z
      BY <1>1, SecondPart
    <2>5. d + IconSize(m) = d /\ d + IconSize(m) + o = d + o
      BY <1>1, <2>1
    <2>6. QED  BY <1>1, <2>1, <2>2, <2>3, <2>4, <2>5 DEF x, z, d, o
  <1>4. QED  BY <1>2, <1>3

LEMMA SecsAre ==
    ASSUME NEW m \in MadeSet, Programs[m.program].kind = "exe"
    PROVE  LET bare == Programs[m.program].secs IN
           /\ SecsOf(m) \in Seq(Sections) /\ SecsOf(m) # <<>>
           /\ Len(SecsOf(m)) = Len(bare) + IF m.icon = "none" THEN 0 ELSE 1
           /\ DataEnd(SecsOf(m)) = ProgramEnd(m) + IconSize(m)
           /\ Last(SecsOf(m)).ours = HasIcon(m)
           /\ HasIcon(m) => Front(SecsOf(m)) = bare /\ Last(SecsOf(m)).size = IconSize(m)
  <1> DEFINE bare == Programs[m.program].secs
             section == [ours |-> TRUE, raw |-> DataEnd(bare), size |-> Icons[m.icon]]
  <1>1. /\ bare \in Seq(Sections) /\ bare # <<>> /\ Last(bare).ours = FALSE /\ ProgramEnd(m) \in Nat
        /\ IconSize(m) \in Nat /\ ProgramEnd(m) = DataEnd(bare)
    BY ProgramIs DEF ProgramEnd
  <1>2. HasIcon(m) <=> m.icon # "none"
    BY DEF HasIcon
  <1>3. CASE HasIcon(m)
    <2>1. SecsOf(m) = Append(bare, section) /\ IconSize(m) = Icons[m.icon]
      BY <1>3 DEF SecsOf, IconSize
    <2>2. section \in Sections /\ section.ours = TRUE /\ section.raw = ProgramEnd(m) /\ section.size = IconSize(m)
      BY <1>1, <2>1 DEF Sections
    <2> HIDE DEF section, bare
    <2>3. /\ Append(bare, section) \in Seq(Sections) /\ Len(Append(bare, section)) = Len(bare) + 1
          /\ Append(bare, section)[Len(bare) + 1] = section /\ Append(bare, section) # <<>>
          /\ Len(bare) \in Nat
      BY <1>1, <2>2
    <2>4. Last(SecsOf(m)) = section
      BY <2>1, <2>3 DEF Last
    <2>5. Front(SecsOf(m)) = bare
      <3>1. bare \o <<section>> = Append(bare, section) /\ <<section>> \in Seq(Sections)
        BY <1>1, <2>2, AppendIsConcat
      <3>2. SubSeq(bare \o <<section>>, 1, Len(bare)) = bare
        BY <1>1, <3>1, FirstPart
      <3>3. Len(bare) + 1 - 1 = Len(bare)
        BY <2>3
      <3>4. QED  BY <2>1, <2>3, <3>1, <3>2, <3>3 DEF Front
    <2>6. DataEnd(SecsOf(m)) = ProgramEnd(m) + IconSize(m)
      BY <2>1, <2>2, <2>3, <2>4 DEF DataEnd
    <2>7. QED  BY <1>2, <1>3, <2>1, <2>2, <2>3, <2>4, <2>5, <2>6 DEF bare
  <1>4. CASE ~HasIcon(m)
    <2>1. SecsOf(m) = bare /\ IconSize(m) = 0
      BY <1>4 DEF SecsOf, IconSize
    <2> HIDE DEF section, bare
    <2>2. ProgramEnd(m) = ProgramEnd(m) + IconSize(m) /\ Len(bare) \in Nat
      BY <1>1, <2>1
    <2>3. HasIcon(m) = FALSE
      BY <1>4 DEF HasIcon
    <2>4. Last(SecsOf(m)).ours = HasIcon(m)
      BY <1>1, <2>1, <2>3
    <2>5. SecsOf(m) \in Seq(Sections) /\ SecsOf(m) # <<>> /\ DataEnd(SecsOf(m)) = ProgramEnd(m) + IconSize(m)
      BY <1>1, <2>1, <2>2
    <2>6. Len(SecsOf(m)) = Len(bare) + IF m.icon = "none" THEN 0 ELSE 1
      BY <1>2, <1>4, <2>1, <2>2
    <2>7. QED  BY <1>4, <2>4, <2>5, <2>6 DEF bare
  <1>5. QED  BY <1>3, <1>4

(* An icon, and what is written *)
ExeInfo(info, m) ==
    /\ {"kind", "base", "secs", "table", "sum"} \subseteq DOMAIN info
    /\ info.kind = "exe" /\ info.base = BaseOf(m) /\ info.secs = SecsOf(m)
RunInfo(info, m) == info.kind = "run" /\ info.base = BaseOf(m)

LEMMA ExeIconIsSet ==
    ASSUME NEW m \in MadeSet, NEW m2 \in MadeSet, Programs[m.program].kind = "exe", m2.program = m.program,
           m2.icon \in DOMAIN Icons, m2.icon # "none", NEW info, ExeInfo(info, m)
    PROVE  ExeInfo(SetExeIcon(info, m2.icon), m2) /\ SetExeIcon(info, m2.icon).table = NoTable
  <1> DEFINE bare == Programs[m.program].secs
             icon == m2.icon
             reuse == Last(info.secs).ours
             kept == IF reuse THEN Front(info.secs) ELSE info.secs
             from == DataEnd(kept)
             secs == Append(kept, [ours |-> TRUE, raw |-> from, size |-> Icons[icon]])
             bytes == SubSeq(info.base, 1, from) \o CellsOf("icon", icon, Icons[icon])
                     \o SubSeq(info.base, DataEnd(info.secs) + 1, Len(info.base))
  <1>1. SetExeIcon(info, icon) = [info EXCEPT !.base = bytes, !.secs = secs, !.table = NoTable, !.sum = SumOf(secs, NoTable, bytes)]
    BY DEF SetExeIcon
  <1>2. info.base = BaseOf(m) /\ info.secs = SecsOf(m) /\ info.kind = "exe"
    BY DEF ExeInfo
  <1>3. kept = bare
    <2>1. Last(SecsOf(m)).ours = HasIcon(m)
      BY SecsAre
    <2>2. CASE HasIcon(m)
      BY <1>2, <2>1, <2>2, SecsAre
    <2>3. CASE ~HasIcon(m)
      BY <1>2, <2>1, <2>3 DEF SecsOf
    <2>4. QED  BY <2>2, <2>3
  <1>4. HasIcon(m2)
    BY DEF HasIcon
  <1>5. secs = SecsOf(m2)
    BY <1>3, <1>4 DEF SecsOf
  <1>6. bytes = BaseOf(m2)
    <2>1. from = ProgramEnd(m) /\ DataEnd(info.secs) = ProgramEnd(m) + IconSize(m)
      BY <1>2, <1>3, SecsAre DEF ProgramEnd
    <2>2. /\ SubSeq(BaseOf(m), 1, ProgramEnd(m)) = Before(m)
          /\ SubSeq(BaseOf(m), ProgramEnd(m) + IconSize(m) + 1, Len(BaseOf(m))) = Behind(m)
      BY BaseIs
    <2>3. Before(m2) = Before(m) /\ Behind(m2) = Behind(m)
      BY DEF Before, Behind, ProgramCells, ProgramEnd
    <2> HIDE DEF from
    <2>4. bytes = (Before(m2) \o CellsOf("icon", icon, Icons[icon])) \o Behind(m2)
      BY <1>2, <2>1, <2>2, <2>3
    <2>5. QED  BY <1>4, <2>4 DEF BaseOf
  <1> HIDE DEF bytes, secs
  <1>7. QED  BY <1>1, <1>2, <1>5, <1>6 DEF ExeInfo

LEMMA ExeIconIs ==
    ASSUME NEW m \in MadeSet, NEW m2 \in MadeSet, Programs[m.program].kind = "exe", m2.program = m.program,
           NEW icon \in DOMAIN Icons \cup {"none"}, m2.icon = IF icon = "none" THEN m.icon ELSE icon,
           NEW info, ExeInfo(info, m)
    PROVE  /\ ExeInfo(SetIcon(info, icon), m2)
           /\ info.table = NoTable => SetIcon(info, icon).table = NoTable
  <1>1. CASE icon = "none"
    <2>1. SetIcon(info, icon) = info
      BY <1>1 DEF SetIcon
    <2>2. SecsOf(m2) = SecsOf(m) /\ BaseOf(m2) = BaseOf(m)
      <3>1. m2.icon = m.icon
        BY <1>1
      <3>2. HasIcon(m2) <=> HasIcon(m)
        BY <3>1 DEF HasIcon
      <3>3. Before(m2) = Before(m) /\ Behind(m2) = Behind(m) /\ ProgramCells(m2) = ProgramCells(m)
        BY DEF Before, Behind, ProgramCells, ProgramEnd
      <3>4. QED  BY <3>1, <3>2, <3>3 DEF SecsOf, BaseOf
    <2>3. QED  BY <2>1, <2>2 DEF ExeInfo
  <1>2. CASE icon # "none"
    <2>1. SetIcon(info, icon) = SetExeIcon(info, icon)
      BY <1>2 DEF SetIcon, ExeInfo
    <2>2. m2.icon = icon
      BY <1>2
    <2>3. QED  BY <1>2, <2>1, <2>2, ExeIconIsSet
  <1>3. QED  BY <1>1, <1>2

LEMMA RunIconIs ==
    ASSUME NEW m \in MadeSet, NEW m2 \in MadeSet, Programs[m.program].kind = "run", m2.program = m.program,
           NEW icon, NEW info, RunInfo(info, m)
    PROVE  RunInfo(SetIcon(info, icon), m2)
  <1>1. SetIcon(info, icon) = info
    BY DEF SetIcon, RunInfo
  <1>2. BaseOf(m2) = BaseOf(m)
    BY DEF BaseOf, HasIcon, ProgramCells, ProgramEnd
  <1>3. QED  BY <1>1, <1>2 DEF RunInfo

LEMMA InfoIs ==
    ASSUME NEW m \in MadeSet
    PROVE  LET info == InfoOf(m.program)
               kind == Programs[m.program].kind
           IN  /\ info.kind = kind
               /\ kind = "exe" /\ m.icon = "none" => ExeInfo(info, m) /\ info.table = NoTable
               /\ kind = "run" => RunInfo(info, m)
               /\ kind = "zip" => info = [kind |-> "zip", entries |-> Sealed(<< Entry_("MacOS", "program", ProgramCells(m)) >>)]
  <1> DEFINE p == Programs[m.program]
  <1>1. p.kind \in {"exe", "run", "zip"}
    BY ProgramIs
  <1>2. InfoOf(m.program) =
          IF p.kind = "exe" THEN [kind |-> "exe", base |-> ProgramCells(m), secs |-> p.secs, table |-> NoTable, sum |-> NoSum]
          ELSE IF p.kind = "run" THEN [kind |-> "run", base |-> ProgramCells(m)]
          ELSE [kind |-> "zip", entries |-> Sealed(<< Entry_("MacOS", "program", ProgramCells(m)) >>)]
    BY DEF InfoOf, ProgramCells, ProgramEnd
  <1>3. p.kind # "exe" \/ m.icon = "none" => BaseOf(m) = ProgramCells(m) /\ SecsOf(m) = p.secs
    BY DEF BaseOf, SecsOf, HasIcon
  <1> HIDE DEF p
  <1>4. CASE p.kind = "exe"
    BY <1>2, <1>3, <1>4 DEF ExeInfo, p
  <1>5. CASE p.kind = "run"
    BY <1>2, <1>3, <1>5 DEF RunInfo, p
  <1>6. CASE p.kind = "zip"
    BY <1>2, <1>6 DEF p
  <1>7. QED  BY <1>1, <1>4, <1>5, <1>6

LEMMA ExeIsWritten ==
    ASSUME NEW m, NEW info, ExeInfo(info, m), NEW writer, writer = "stream" => info.table = NoTable,
           NEW record, NEW plan, NEW pack, NEW f \in WriteBy(writer, info, record, plan, pack)
    PROVE  LET cells == Layout(BaseOf(m), record, plan, pack) IN
           /\ f = Pe(SecsOf(m), NoTable, f.sum, cells)
           /\ f.sum \in {NoSum, SumOf(SecsOf(m), NoTable, cells)}
  <1> DEFINE cells == Layout(BaseOf(m), record, plan, pack)
             written == Pe(SecsOf(m), NoTable, Renewed(info.sum, SecsOf(m), NoTable, cells), cells)
  <1>1. info.kind = "exe" /\ info.base = BaseOf(m) /\ info.secs = SecsOf(m)
    BY DEF ExeInfo
  <1>2. WriteLayout(info, record, plan, pack) = written
    BY <1>1 DEF WriteLayout
  <1>3. WriteInstallerFile(info, record, plan, pack) \subseteq {written}
    BY <1>2 DEF WriteInstallerFile
  <1>4. writer = "stream" => StreamLayout(info, record, plan, pack) \subseteq {Pe(SecsOf(m), NoTable, NoSum, cells)}
    BY <1>1 DEF StreamLayout
  <1>5. f \in {written, Pe(SecsOf(m), NoTable, NoSum, cells)}
    BY <1>1, <1>2, <1>3, <1>4 DEF WriteBy
  <1> HIDE DEF cells
  <1>6. Renewed(info.sum, SecsOf(m), NoTable, cells) \in {NoSum, SumOf(SecsOf(m), NoTable, cells)}
    BY DEF Renewed
  <1>7. \E sum \in {NoSum, SumOf(SecsOf(m), NoTable, cells)} : f = Pe(SecsOf(m), NoTable, sum, cells)
    BY <1>5, <1>6
  <1>8. QED  BY <1>7 DEF Pe, cells

LEMMA RunIsWritten ==
    ASSUME NEW m, NEW info, RunInfo(info, m), NEW writer, NEW record, NEW plan, NEW pack,
           NEW f \in WriteBy(writer, info, record, plan, pack)
    PROVE  f = Run(Layout(BaseOf(m), record, plan, pack))
  BY DEF RunInfo, WriteBy, WriteInstallerFile, StreamLayout, WriteLayout

(***************************************************************************)
(* InstallerFile. A program with its block                                 *)
(***************************************************************************)
Written(m) == Layout(BaseOf(m), RecordCells(m.record), PlanCells(m.plan), m.pack)
Put(m) == [record |-> RecordCells(m.record), plan |-> PlanCells(m.plan), pack |-> m.pack]
UpTo(m, k) == Written(m) \o Nuls(k)
Block(m) ==
    [start |-> Len(BaseOf(m)), record |-> Len(RecordCells(m.record)), plan |-> Len(PlanCells(m.plan)), pack |-> PackTarSize(m.pack)]

\* What is so of the cells of a file with so much padding.
Holds(cells, m, k) ==
    /\ EndsAt(cells, Len(Written(m)), k) /\ Len(UpTo(m, k)) = Len(Written(m)) + k
    /\ ParseFooter(cells, Len(Written(m))) = Block(m) /\ Block(m) # NoBlock
    /\ BlockAt(cells, Block(m)) = Put(m)
    /\ SubSeq(cells, 1, Len(BaseOf(m))) = BaseOf(m) /\ StartsWith(cells, BaseOf(m))
    /\ SubSeq(cells, 1, Len(UpTo(m, k))) = UpTo(m, k)

LEMMA MadeIs ==
    ASSUME NEW m \in MadeSet
    PROVE  RecordCells(m.record) \in Seq(Cell) /\ PlanCells(m.plan) \in Seq(Cell) /\ m.pack \in Seq(MemberSet)
  <1>1. m.record \in DOMAIN Records /\ m.plan \in PlanSet /\ m.pack \in Seq(MemberSet)
    BY DEF MadeSet
  <1>2. QED  BY <1>1, RecordCellsAre, PlanCellsAre

LEMMA WrittenIs ==
    ASSUME NEW m \in MadeSet, Programs[m.program].kind \in {"exe", "run"}
    PROVE  Written(m) \in Seq(Cell) /\ Len(Written(m)) \in Nat \ {0}
  <1> DEFINE bytes == BaseOf(m)
             record == RecordCells(m.record)
             plan == PlanCells(m.plan)
  <1>1. bytes \in Seq(Cell) /\ record \in Seq(Cell) /\ plan \in Seq(Cell) /\ m.pack \in Seq(MemberSet)
    BY BaseIs, MadeIs
  <1>2. <<>> \in Seq(Cell)
    OBVIOUS
  <1> HIDE DEF bytes, record, plan
  <1>3. LET body == Layout(bytes, record, plan, m.pack) IN body \in Seq(Cell) /\ Len(body) \in Nat \ {0}
    BY <1>1, <1>2, LayoutParts DEF LaidOut
  <1>4. QED  BY <1>3 DEF Written, bytes, record, plan

LEMMA CellsHold ==
    ASSUME NEW m \in MadeSet, Programs[m.program].kind \in {"exe", "run"}, NEW C, Cell \subseteq C,
           NEW k \in 0..(Align - 1), NEW tail \in Seq(C)
    PROVE  Holds(UpTo(m, k) \o tail, m, k) /\ UpTo(m, k) \o tail \in Seq(C)
  <1> DEFINE bytes == BaseOf(m)
             record == RecordCells(m.record)
             plan == PlanCells(m.plan)
             body == Written(m)
             e == Len(body)
             up == UpTo(m, k)
             rest == Nuls(k) \o tail
             cells == up \o tail
  <1>1. k \in Nat /\ Align \in Nat \ {0}
    BY InstallerFileAssumption
  <1>2. bytes \in Seq(Cell) /\ record \in Seq(Cell) /\ plan \in Seq(Cell) /\ m.pack \in Seq(MemberSet)
    BY BaseIs, MadeIs
  <1>3. body \in Seq(Cell) /\ body \in Seq(C) /\ e \in Nat \ {0}
    <2>1. body \in Seq(Cell) /\ e \in Nat \ {0}
      BY WrittenIs
    <2> HIDE DEF body
    <2>2. QED  BY <2>1, SeqMonotonic
  <1>4. Nuls(k) \in Seq(Cell) /\ Nuls(k) \in Seq(C) /\ Len(Nuls(k)) = k /\ \A i \in 1..k : Nuls(k)[i] = Nul
    <2>1. Nuls(k) \in Seq(Cell) /\ Len(Nuls(k)) = k /\ \A i \in 1..k : Nuls(k)[i] = Nul
      BY <1>1, NulsAre
    <2>2. Nuls(k) \in Seq(C)
      BY <2>1, SeqMonotonic
    <2>3. QED  BY <2>1, <2>2
  <1>5. up = body \o Nuls(k)
    BY DEF UpTo
  <1> HIDE DEF up, body
  <1>6. up \in Seq(C) /\ Len(up) = e + k
    BY <1>3, <1>4, <1>5, RowIs
  <1>7. rest \in Seq(C) /\ Len(rest) = k + Len(tail) /\ Len(tail) \in Nat
    BY <1>4, RowIs
  <1>8. cells \in Seq(C) /\ Len(cells) = e + k + Len(tail)
    BY <1>6, RowIs
  <1>9. cells = body \o rest
    <2>1. body \in Seq(C) /\ Nuls(k) \in Seq(C)
      BY <1>3, <1>4
    <2> DEFINE nuls == Nuls(k)
    <2> HIDE DEF nuls
    <2>2. body \in Lists(C) /\ nuls \in Lists(C) /\ tail \in Lists(C)
      BY <2>1 DEF Lists, nuls
    <2>3. Cat(Cat(body, nuls), tail) = Cat(body, Cat(nuls, tail))
      BY ONLY <2>2, Regrouped
    <2>4. QED  BY <1>5, <2>3 DEF Cat, nuls
  <1> HIDE DEF rest, cells
  <1>10. /\ cells[e].is = "footer" /\ ParseFooter(cells, e) = Block(m) /\ BlockAt(cells, Block(m)) = Put(m)
        /\ SubSeq(cells, 1, Len(bytes)) = bytes /\ StartsWith(cells, bytes)
    <2>1. LaidOut(C, bytes, record, plan, m.pack, rest)
      <3> HIDE DEF bytes, record, plan
      <3>1. rest \in Seq(C)
        BY <1>7
      <3>2. bytes \in Seq(Cell)
        BY <1>2
      <3>3. record \in Seq(Cell)
        BY <1>2
      <3>4. plan \in Seq(Cell)
        BY <1>2
      <3>5. m.pack \in Seq(MemberSet)
        BY <1>2
      <3>6. QED  BY <3>1, <3>2, <3>3, <3>4, <3>5, LayoutParts
    <2>2. body = Layout(bytes, record, plan, m.pack)
      BY DEF body, Written
    <2>3. QED  BY <1>9, <2>1, <2>2 DEF Block, Put, LaidOut
  <1>11. Block(m) # NoBlock
    BY DEF Block, NoBlock
  <1>12. SubSeq(cells, 1, Len(up)) = up
    BY <1>6, FirstPart DEF cells
  <1>13. \A i \in (e + 1)..(e + k) : cells[i] = Nul
    <2> SUFFICES ASSUME NEW i \in (e + 1)..(e + k) PROVE cells[i] = Nul
      OBVIOUS
    <2>1. i \in 1..Len(up) /\ i - e \in 1..k /\ e + (i - e) = i
      BY <1>1, <1>3, <1>6
    <2>2. cells[i] = up[i]
      BY <1>6, <2>1, FirstOfRow DEF cells
    <2>3. (body \o Nuls(k))[Len(body) + (i - e)] = Nuls(k)[i - e]
      BY <1>3, <1>4, <2>1, SecondOfRow
    <2>4. QED  BY <1>4, <1>5, <2>1, <2>2, <2>3
  <1>14. e + k <= Len(cells) /\ Len(cells) \in Nat
    BY <1>1, <1>3, <1>7, <1>8
  <1>15. EndsAt(cells, e, k)
    BY <1>3, <1>10, <1>11, <1>13, <1>14 DEF EndsAt
  <1>16. QED  BY <1>6, <1>8, <1>10, <1>11, <1>12, <1>15 DEF Holds, cells, up, bytes, body

\* What a reader that knows where to look makes of it.
LEMMA PageReads ==
    ASSUME NEW f, NEW m, NEW k, Holds(f.cells, m, k), Unsigned(f) = Len(Written(m)) + k, f.kind \in {"exe", "run"}
    PROVE  LET info == ReadBack(f) IN
           /\ info = IF f.kind = "run"
                       THEN [kind |-> "run", base |-> BaseOf(m), record |-> Put(m).record, plan |-> Put(m).plan, pack |-> Put(m).pack]
                       ELSE [kind |-> "exe", base |-> BaseOf(m), secs |-> f.secs, table |-> f.table, sum |-> f.sum,
                             record |-> Put(m).record, plan |-> Put(m).plan, pack |-> Put(m).pack]
           /\ f.kind = "exe" => FindBlock(f) = Put(m)
  <1> DEFINE e == Len(Written(m))
             end == Unsigned(f)
             at == FooterEnd(f.cells, end)
             found == ParseFooter(f.cells, at)
             block == IF at = 0 THEN Blank ELSE BlockAt(f.cells, found)
             bytes == SubSeq(f.cells, 1, IF at = 0 THEN end ELSE found.start)
  <1>1. EndsAt(f.cells, e, k) /\ end = e + k
    BY DEF Holds
  <1>2. FooterEnd(f.cells, e + k) = e
    BY <1>1, PageFindsIt
  <1> HIDE DEF e, end
  <1>3. at = e /\ e # 0
    BY <1>1, <1>2 DEF EndsAt
  <1> HIDE DEF at
  <1>4. found = Block(m)
    BY <1>3 DEF Holds, e
  <1> HIDE DEF found
  <1>5. block = Put(m)
    BY <1>3, <1>4 DEF Holds
  <1>6. bytes = BaseOf(m)
    BY <1>3, <1>4 DEF Holds, Block
  <1>7. ReadBack(f) =
          IF f.kind = "run"
            THEN [kind |-> "run", base |-> bytes, record |-> block.record, plan |-> block.plan, pack |-> block.pack]
            ELSE [kind |-> "exe", base |-> bytes, secs |-> f.secs, table |-> f.table, sum |-> f.sum,
                  record |-> block.record, plan |-> block.plan, pack |-> block.pack]
    <2>1. f.kind # "zip"
      OBVIOUS
    <2>2. QED  BY <2>1 DEF ReadBack, end, at, found
  <1> HIDE DEF block, bytes
  <1>8. f.kind = "exe" => FindBlock(f) = Put(m)
    <2>1. Unsigned(f) = e + k
      BY <1>1 DEF end
    <2>2. FindBlock(f) = BlockAt(f.cells, ParseFooter(f.cells, e))
      BY <1>1, <2>1, EngineFindsIt
    <2>3. QED  BY <2>2 DEF Holds, e
  <1>9. QED  BY <1>5, <1>6, <1>7, <1>8

LEMMA LinuxReads ==
    ASSUME NEW f, NEW m, NEW k, Holds(f.cells, m, k), Len(f.cells) = Len(Written(m)), f.kind = "run"
    PROVE  FindMetadata(f) = Put(m)
  BY DEF FindMetadata, Holds

(* A program for Windows, with a signature or without *)
Certs(secs, cells) == [is : {"cert"}, of : {PeHash(secs, cells)}, stamped : BOOLEAN]
Signed(cells, cert) == (cells \o <<cert>>) \o Nuls(Align - 1)

\* What is padded once stays so.
Paddings(m) == {0, Short(Len(Written(m)), Align)}
ExeFile(f, m) ==
    /\ f = Pe(SecsOf(m), f.table, f.sum, f.cells)
    /\ f.sum \in {NoSum, SumOf(SecsOf(m), f.table, f.cells)}
    /\ \E k \in Paddings(m) :
          \/ f.table = NoTable /\ f.cells = UpTo(m, k)
          \/ /\ f.table = [at |-> Len(UpTo(m, k)), size |-> Align]
             /\ \E cert \in Certs(SecsOf(m), UpTo(m, k)) : f.cells = Signed(UpTo(m, k), cert)

LEMMA UpToIs ==
    ASSUME NEW m \in MadeSet, Programs[m.program].kind \in {"exe", "run"}, NEW k \in Paddings(m)
    PROVE  /\ k \in 0..(Align - 1) /\ k \in Nat /\ UpTo(m, k) \in Seq(Cell)
           /\ Len(UpTo(m, k)) = Len(Written(m)) + k /\ Len(UpTo(m, k)) \in Nat \ {0}
           /\ Holds(UpTo(m, k), m, k)
           /\ UpTo(m, 0) = Written(m)
  <1>1. Written(m) \in Seq(Cell) /\ Len(Written(m)) \in Nat \ {0} /\ Align \in Nat \ {0}
    BY WrittenIs, InstallerFileAssumption
  <1>2. Short(Len(Written(m)), Align) \in 0..(Align - 1)
    BY <1>1, ShortIs
  <1>3. k \in 0..(Align - 1) /\ k \in Nat
    BY <1>1, <1>2 DEF Paddings
  <1>4. Nuls(k) \in Seq(Cell) /\ Len(Nuls(k)) = k
    BY <1>3, NulsAre
  <1>5. UpTo(m, k) \in Seq(Cell) /\ Len(UpTo(m, k)) = Len(Written(m)) + k
    BY <1>1, <1>4, RowIs DEF UpTo
  <1>6. Holds(UpTo(m, k), m, k)
    <2>1. <<>> \in Seq(Cell) /\ Cell \subseteq Cell
      OBVIOUS
    <2>2. Holds(UpTo(m, k) \o <<>>, m, k)
      BY <1>3, <2>1, CellsHold
    <2>3. UpTo(m, k) \o <<>> = UpTo(m, k)
      BY <1>5, ConcatEmptySeq
    <2>4. QED  BY <2>2, <2>3
  <1>7. UpTo(m, 0) = Written(m)
    <2>1. Nuls(0) = <<>>
      BY DEF Nuls
    <2>2. Written(m) \o <<>> = Written(m)
      BY <1>1, ConcatEmptySeq
    <2>3. QED  BY <2>1, <2>2 DEF UpTo
  <1>8. QED  BY <1>1, <1>3, <1>5, <1>6, <1>7

LEMMA SignedIs ==
    ASSUME NEW m \in MadeSet, Programs[m.program].kind = "exe", NEW k \in Paddings(m), NEW cert
    PROVE  LET up == UpTo(m, k) cells == Signed(up, cert) IN
           /\ Holds(cells, m, k) /\ Len(cells) = Len(up) + Align /\ cells[Len(up) + 1] = cert
           /\ SubSeq(cells, 1, Len(up)) = up
  <1> DEFINE up == UpTo(m, k)
             last == <<cert>>
             nuls == Nuls(Align - 1)
             C == Cell \cup {cert}
             tail == last \o nuls
  <1>1. /\ k \in 0..(Align - 1) /\ up \in Seq(Cell) /\ Len(up) \in Nat \ {0} /\ Align \in Nat \ {0} /\ Align - 1 \in Nat
    BY UpToIs, InstallerFileAssumption
  <1>2. nuls \in Seq(Cell) /\ Len(nuls) = Align - 1
    BY <1>1, NulsAre
  <1>3. Cell \subseteq C
    OBVIOUS
  <1>4. last \in Seq(C) /\ Len(last) = 1 /\ last[1] = cert
    OBVIOUS
  <1> HIDE DEF up, last, nuls, C
  <1>5. up \in Seq(C) /\ nuls \in Seq(C)
    BY <1>1, <1>2, <1>3, SeqMonotonic
  <1>6. tail \in Seq(C) /\ Len(tail) = Align
    <2>1. tail \in Seq(C) /\ Len(tail) = Len(last) + Len(nuls)
      BY <1>4, <1>5, RowIs
    <2>2. QED  BY <1>1, <1>2, <1>4, <2>1
  <1>7. (up \o last) \o nuls = up \o tail
    <2>1. last \in Seq(C)
      BY <1>4
    <2>2. up \in Lists(C) /\ last \in Lists(C) /\ nuls \in Lists(C)
      BY <1>5, <2>1 DEF Lists
    <2>3. Cat(Cat(up, last), nuls) = Cat(up, Cat(last, nuls))
      BY ONLY <2>2, Regrouped
    <2>4. QED  BY <2>3 DEF Cat
  <1>8. tail[1] = cert
    <2>1. 1 \in 1..Len(last) /\ last \in Seq(C) /\ nuls \in Seq(C)
      BY <1>4, <1>5
    <2>2. (last \o nuls)[1] = last[1]
      BY <2>1, FirstOfRow
    <2>3. QED  BY <1>4, <2>2
  <1> HIDE DEF tail
  <1>9. Holds(up \o tail, m, k)
    BY <1>1, <1>3, <1>6, CellsHold DEF up
  <1>10. Len(up \o tail) = Len(up) + Align
    <2>1. Len(up \o tail) = Len(up) + Len(tail)
      BY <1>5, <1>6, RowIs
    <2>2. QED  BY <1>6, <2>1
  <1>11. (up \o tail)[Len(up) + 1] = cert
    <2>1. 1 \in 1..Len(tail)
      BY <1>1, <1>6
    <2>2. (up \o tail)[Len(up) + 1] = tail[1]
      BY <1>5, <1>6, <2>1, SecondOfRow
    <2>3. QED  BY <1>8, <2>2
  <1>12. SubSeq(up \o tail, 1, Len(up)) = up
    BY <1>5, <1>6, FirstPart
  <1>13. Signed(up, cert) = up \o tail
    BY <1>7 DEF Signed, last, nuls
  <1>14. QED  BY <1>9, <1>10, <1>11, <1>12, <1>13 DEF up

\* What is so of such a file.
ExeAt(f, m, k) ==
    /\ k \in Paddings(m) /\ Holds(f.cells, m, k)
    /\ f.kind = "exe" /\ f.secs = SecsOf(m) /\ f.sum \in {NoSum, SumOf(f.secs, f.table, f.cells)}
    /\ Unsigned(f) = Len(UpTo(m, k)) /\ SubSeq(f.cells, 1, Unsigned(f)) = UpTo(m, k)
    /\ f.table # NoTable =>
          /\ f.table.at = Len(UpTo(m, k))
          /\ f.cells[f.table.at + 1].of = PeHash(f.secs, UpTo(m, k))

LEMMA ExeFileIs ==
    ASSUME NEW m \in MadeSet, Programs[m.program].kind = "exe", NEW f, ExeFile(f, m)
    PROVE  \E k \in Paddings(m) : ExeAt(f, m, k)
  <1>1. /\ f.kind = "exe" /\ f.secs = SecsOf(m) /\ f.sum \in {NoSum, SumOf(f.secs, f.table, f.cells)}
    BY DEF ExeFile, Pe
  <1>2. PICK k \in Paddings(m) :
          \/ f.table = NoTable /\ f.cells = UpTo(m, k)
          \/ /\ f.table = [at |-> Len(UpTo(m, k)), size |-> Align]
             /\ \E cert \in Certs(SecsOf(m), UpTo(m, k)) : f.cells = Signed(UpTo(m, k), cert)
    BY DEF ExeFile
  <1>3. /\ Holds(UpTo(m, k), m, k) /\ Len(UpTo(m, k)) \in Nat \ {0} /\ Align \in Nat \ {0}
        /\ SubSeq(UpTo(m, k), 1, Len(UpTo(m, k))) = UpTo(m, k)
    <2>1. /\ UpTo(m, k) \in Seq(Cell) /\ Holds(UpTo(m, k), m, k) /\ Len(UpTo(m, k)) \in Nat \ {0}
      BY UpToIs
    <2>2. QED  BY <2>1, InstallerFileAssumption DEF Holds
  <1>4. CASE f.table = NoTable /\ f.cells = UpTo(m, k)
    <2>1. Unsigned(f) = Len(UpTo(m, k))
      BY <1>4 DEF Unsigned
    <2>2. QED  BY <1>1, <1>3, <1>4, <2>1 DEF ExeAt
  <1>5. CASE /\ f.table = [at |-> Len(UpTo(m, k)), size |-> Align]
             /\ \E cert \in Certs(SecsOf(m), UpTo(m, k)) : f.cells = Signed(UpTo(m, k), cert)
    <2>1. PICK cert \in Certs(SecsOf(m), UpTo(m, k)) : f.cells = Signed(UpTo(m, k), cert)
      BY <1>5
    <2>2. /\ Holds(f.cells, m, k) /\ Len(f.cells) = Len(UpTo(m, k)) + Align /\ f.cells[Len(UpTo(m, k)) + 1] = cert
          /\ SubSeq(f.cells, 1, Len(UpTo(m, k))) = UpTo(m, k)
      BY <2>1, SignedIs
    <2>3. f.table # NoTable /\ f.table.at = Len(UpTo(m, k)) /\ f.table.at <= Len(f.cells)
      BY <1>3, <1>5, <2>2 DEF NoTable
    <2>4. Unsigned(f) = Len(UpTo(m, k))
      BY <1>1, <2>3 DEF Unsigned
    <2>5. cert.of = PeHash(f.secs, UpTo(m, k))
      BY <1>1 DEF Certs
    <2>6. QED  BY <1>1, <2>2, <2>3, <2>4, <2>5 DEF ExeAt
  <1>6. QED  BY <1>2, <1>4, <1>5

LEMMA ExeIsRead ==
    ASSUME NEW m \in MadeSet, Programs[m.program].kind = "exe", NEW f, NEW k, ExeAt(f, m, k)
    PROVE  LET info == ReadBack(f) IN
           /\ ExeInfo(info, m) /\ info.record = Put(m).record /\ info.plan = Put(m).plan /\ info.pack = Put(m).pack
           /\ FindBlock(f) = Put(m)
  <1>1. Unsigned(f) = Len(Written(m)) + k /\ Holds(f.cells, m, k) /\ f.kind = "exe"
    BY DEF ExeAt, Holds
  <1>2. /\ ReadBack(f) = [kind |-> "exe", base |-> BaseOf(m), secs |-> f.secs, table |-> f.table, sum |-> f.sum,
                          record |-> Put(m).record, plan |-> Put(m).plan, pack |-> Put(m).pack]
        /\ FindBlock(f) = Put(m)
    BY <1>1, PageReads
  <1>3. f.secs = SecsOf(m)
    BY DEF ExeAt
  <1>4. QED  BY <1>2, <1>3 DEF ExeInfo

\* Its own bytes are where they were.
LEMMA ProgramIsThere ==
    ASSUME madeOf \in MadeSet, Programs[madeOf.program].kind = "exe", NEW f, NEW k, ExeAt(f, madeOf, k)
    PROVE  ProgramOf(f) = InfoOf(madeOf.program).base
  <1> DEFINE m == madeOf
             bytes == BaseOf(m)
             d == ProgramEnd(m)
             i == IconSize(m)
             o == Programs[m.program].overlay
  <1>1. /\ bytes \in Seq(Cell) /\ Len(bytes) = d + i + o /\ SubSeq(bytes, 1, d) = Before(m)
        /\ SubSeq(bytes, d + i + 1, Len(bytes)) = Behind(m)
        /\ d \in Nat /\ i \in Nat /\ o \in Nat
    BY BaseIs, ProgramIs
  <1>2. /\ DataEnd(f.secs) = d + i /\ Last(f.secs).ours = HasIcon(m) /\ (HasIcon(m) => Last(f.secs).size = i)
        /\ (~HasIcon(m) => i = 0)
    BY SecsAre DEF ExeAt, IconSize
  <1>3. StartsWith(f.cells, bytes)
    BY DEF ExeAt, Holds
  <1>4. Before(m) \o Behind(m) = ProgramCells(m)
    BY PartsOfProgram
  <1>5. InfoOf(m.program).base = ProgramCells(m)
    BY DEF InfoOf, ProgramCells, ProgramEnd
  <1> HIDE DEF m, bytes, d, i, o
  <1>6. (DataEnd(f.secs) - IF Last(f.secs).ours THEN Last(f.secs).size ELSE 0) = d
    <2>1. CASE HasIcon(m)
      <3>1. Last(f.secs).ours
        BY <1>2, <2>1
      <3>2. QED  BY <1>1, <1>2, <2>1, <3>1
    <2>2. CASE ~HasIcon(m)
      <3>1. ~Last(f.secs).ours
        BY <1>2, <2>2
      <3>2. QED  BY <1>1, <1>2, <2>2, <3>1
    <2>3. QED  BY <2>1, <2>2
  <1>7. SubSeq(f.cells, 1, d) = Before(m)
    <2>1. 1 \in 1..(Len(bytes) + 1) /\ d \in 0..Len(bytes)
      BY <1>1
    <2>2. QED  BY <1>1, <1>3, <2>1 DEF StartsWith
  <1>8. SubSeq(f.cells, d + i + 1, d + i + o) = Behind(m)
    <2>1. d + i + 1 \in 1..(Len(bytes) + 1) /\ d + i + o \in 0..Len(bytes) /\ d + i + o = Len(bytes)
      BY <1>1
    <2>2. QED  BY <1>1, <1>3, <2>1 DEF StartsWith
  <1>9. ProgramOf(f) = Before(m) \o Behind(m)
    BY <1>2, <1>6, <1>7, <1>8 DEF ProgramOf, m, o
  <1>10. QED  BY <1>4, <1>5, <1>9 DEF m

LEMMA ExeReadsBack ==
    ASSUME madeOf \in MadeSet, Programs[madeOf.program].kind = "exe", ExeFile(installer, madeOf)
    PROVE  ReadsBackAsPut
  <1> DEFINE m == madeOf
             f == installer
             info == ReadBack(f)
  <1>1. PICK k \in Paddings(m) : ExeAt(f, m, k)
    BY ExeFileIs
  <1>2. /\ f.kind = "exe" /\ f.sum \in {NoSum, SumOf(f.secs, f.table, f.cells)} /\ f.secs = SecsOf(m)
    BY <1>1 DEF ExeAt
  <1>3. /\ info.record = Put(m).record /\ info.plan = Put(m).plan /\ info.pack = Put(m).pack /\ FindBlock(f) = Put(m)
    BY <1>1, ExeIsRead
  <1>4. ProgramOf(f) = InfoOf(m.program).base
    BY <1>1, ProgramIsThere
  <1>5. Len(f.secs) = Len(Programs[m.program].secs) + IF m.icon = "none" THEN 0 ELSE 1
    BY <1>2, SecsAre
  <1>6. f.table # NoTable => f.cells[f.table.at + 1].of = PeHash(f.secs, SubSeq(f.cells, 1, f.table.at))
    BY <1>1 DEF ExeAt
  <1> HIDE DEF info, m
  <1>7. [record |-> info.record, plan |-> info.plan, pack |-> info.pack] = Put(m)
    BY <1>3 DEF Put
  <1>8. Put(m) = [record |-> RecordCells(madeOf.record), plan |-> PlanCells(madeOf.plan), pack |-> madeOf.pack]
    BY DEF Put, m
  <1>9. installer.kind = "exe" /\ installer.kind # "zip"
    BY <1>2
  <1>10. QED  BY <1>2, <1>3, <1>4, <1>5, <1>6, <1>7, <1>8, <1>9 DEF ReadsBackAsPut, info, m

LEMMA ExeIsMade ==
    ASSUME NEW m \in MadeSet, Programs[m.program].kind = "exe", NEW info, ExeInfo(info, m), NEW writer,
           writer = "stream" => info.table = NoTable,
           NEW f \in WriteBy(writer, info, RecordCells(m.record), PlanCells(m.plan), m.pack)
    PROVE  ExeFile(f, m)
  <1>1. f = Pe(SecsOf(m), NoTable, f.sum, Written(m)) /\ f.sum \in {NoSum, SumOf(SecsOf(m), NoTable, Written(m))}
    BY ExeIsWritten DEF Written
  <1>2. f.table = NoTable /\ f.cells = Written(m)
    BY <1>1 DEF Pe
  <1>3. 0 \in Paddings(m)
    BY DEF Paddings
  <1>4. UpTo(m, 0) = Written(m)
    BY <1>3, UpToIs
  <1>5. QED  BY <1>1, <1>2, <1>3, <1>4 DEF ExeFile

\* Padding what is padded.
LEMMA PaddedOnce ==
    ASSUME NEW m \in MadeSet, Programs[m.program].kind = "exe", NEW k \in Paddings(m)
    PROVE  \E j \in Paddings(m) : UpTo(m, k) \o Nuls(Short(Len(UpTo(m, k)), Align)) = UpTo(m, j)
  <1> DEFINE n == Len(Written(m))
             s == Short(n, Align)
  <1>1. n \in Nat /\ Align \in Nat \ {0} /\ Written(m) \in Seq(Cell)
    BY WrittenIs, InstallerFileAssumption
  <1>2. s \in 0..(Align - 1) /\ Short(n + s, Align) = 0
    BY <1>1, ShortIs
  <1>3. Len(UpTo(m, k)) = n + k /\ UpTo(m, k) \in Seq(Cell) /\ UpTo(m, 0) = Written(m)
    BY UpToIs
  <1>4. 0 \in Paddings(m) /\ s \in Paddings(m) /\ k \in {0, s}
    BY DEF Paddings
  <1> HIDE DEF n, s
  <1>5. CASE k = 0
    <2>1. Len(UpTo(m, k)) = n
      BY <1>1, <1>3, <1>5
    <2>2. Short(Len(UpTo(m, k)), Align) = s
      BY <2>1 DEF s
    <2>3. UpTo(m, k) \o Nuls(s) = UpTo(m, s)
      BY <1>3, <1>5 DEF UpTo
    <2>4. QED  BY <1>4, <2>2, <2>3
  <1>6. CASE k = s
    <2>1. Short(Len(UpTo(m, k)), Align) = 0
      BY <1>2, <1>3, <1>6
    <2>2. Nuls(0) = <<>>
      BY DEF Nuls
    <2>3. UpTo(m, k) \o <<>> = UpTo(m, k)
      BY <1>3, ConcatEmptySeq
    <2>4. QED  BY <2>1, <2>2, <2>3
  <1>7. QED  BY <1>4, <1>5, <1>6

LEMMA ExeIsSigned ==
    ASSUME NEW m \in MadeSet, Programs[m.program].kind = "exe", NEW f, ExeFile(f, m), NEW sig, NEW stamp,
           NEW g \in FinishPE(f, UnsignedPE(f), sig, stamp)
    PROVE  ExeFile(g, m)
  <1>1. PICK k \in Paddings(m) : ExeAt(f, m, k)
    BY ExeFileIs
  <1>2. f.secs = SecsOf(m) /\ SubSeq(f.cells, 1, Unsigned(f)) = UpTo(m, k) /\ Unsigned(f) = Len(UpTo(m, k))
    BY <1>1 DEF ExeAt
  <1>3. UnsignedPE(f) = UpTo(m, k) \o Nuls(Short(Len(UpTo(m, k)), Align))
    BY <1>2 DEF UnsignedPE
  <1>4. PICK j \in Paddings(m) : UnsignedPE(f) = UpTo(m, j)
    BY <1>3, PaddedOnce
  <1> DEFINE up == UpTo(m, j)
             secs == SecsOf(m)
             cert == [is |-> "cert", of |-> PeHash(secs, up), stamped |-> stamp # NoStamp]
             table == [at |-> Len(up), size |-> Align]
             out == Signed(up, cert)
  <1>5. g = Pe(secs, table, SumOf(secs, table, out), out)
    BY <1>2, <1>4 DEF FinishPE, Signed
  <1>6. cert \in Certs(secs, up)
    <2>1. (stamp # NoStamp) \in BOOLEAN
      OBVIOUS
    <2>2. QED  BY <2>1 DEF Certs
  <1> HIDE DEF cert, up, secs
  <1>7. g.table = table /\ g.cells = out /\ g.sum = SumOf(secs, table, out)
    BY <1>5 DEF Pe
  <1> HIDE DEF table, out
  <1>8. g = Pe(secs, g.table, g.sum, g.cells) /\ g.sum \in {NoSum, SumOf(secs, g.table, g.cells)}
    BY <1>5, <1>7
  <1>9. g.table = [at |-> Len(up), size |-> Align] /\ g.cells = Signed(up, cert)
    BY <1>7 DEF table, out
  <1>10. QED  BY <1>6, <1>8, <1>9 DEF ExeFile, up, secs

LEMMA ExeIsStripped ==
    ASSUME NEW m \in MadeSet, Programs[m.program].kind = "exe", NEW f, ExeFile(f, m), f.table # NoTable
    PROVE  LET cells == SubSeq(f.cells, 1, f.table.at) IN
           ExeFile(Pe(f.secs, NoTable, Renewed(f.sum, f.secs, NoTable, cells), cells), m)
  <1>1. PICK k \in Paddings(m) : ExeAt(f, m, k)
    BY ExeFileIs
  <1>2. f.secs = SecsOf(m) /\ SubSeq(f.cells, 1, f.table.at) = UpTo(m, k)
    BY <1>1 DEF ExeAt
  <1> DEFINE cells == SubSeq(f.cells, 1, f.table.at)
             sum == Renewed(f.sum, f.secs, NoTable, cells)
             g == Pe(f.secs, NoTable, sum, cells)
  <1>3. g.table = NoTable /\ g.cells = UpTo(m, k) /\ g.sum = sum /\ g = Pe(SecsOf(m), g.table, g.sum, g.cells)
    BY <1>2 DEF Pe
  <1>4. sum \in {NoSum, SumOf(SecsOf(m), NoTable, UpTo(m, k))}
    BY <1>2 DEF Renewed
  <1> HIDE DEF g, sum
  <1>5. ExeFile(g, m)
    BY <1>3, <1>4 DEF ExeFile
  <1>6. QED  BY <1>5 DEF g, sum

(* A program for Linux *)
LEMMA RunIsRead ==
    ASSUME NEW m \in MadeSet, Programs[m.program].kind = "run", NEW f, f = Run(Written(m))
    PROVE  LET info == ReadBack(f) IN
           /\ RunInfo(info, m) /\ info.record = Put(m).record /\ info.plan = Put(m).plan /\ info.pack = Put(m).pack
           /\ FindMetadata(f) = Put(m) /\ f.kind = "run"
  <1>1. 0 \in Paddings(m)
    BY DEF Paddings
  <1>2. Holds(Written(m), m, 0) /\ Len(Written(m)) + 0 = Len(Written(m))
    BY <1>1, UpToIs, WrittenIs
  <1>3. f.kind = "run" /\ f.cells = Written(m)
    BY DEF Run
  <1>4. Unsigned(f) = Len(Written(m)) + 0
    BY <1>2, <1>3 DEF Unsigned
  <1>5. ReadBack(f) = [kind |-> "run", base |-> BaseOf(m), record |-> Put(m).record, plan |-> Put(m).plan, pack |-> Put(m).pack]
    BY <1>2, <1>3, <1>4, PageReads
  <1>6. FindMetadata(f) = Put(m)
    BY <1>2, <1>3, LinuxReads
  <1>7. QED  BY <1>3, <1>5, <1>6 DEF RunInfo

LEMMA RunReadsBack ==
    ASSUME madeOf \in MadeSet, Programs[madeOf.program].kind = "run", installer = Run(Written(madeOf))
    PROVE  ReadsBackAsPut
  <1> DEFINE info == ReadBack(installer)
  <1>1. /\ info.record = Put(madeOf).record /\ info.plan = Put(madeOf).plan /\ info.pack = Put(madeOf).pack
        /\ FindMetadata(installer) = Put(madeOf) /\ installer.kind = "run"
    BY RunIsRead
  <1> HIDE DEF info
  <1>2. [record |-> info.record, plan |-> info.plan, pack |-> info.pack] = Put(madeOf)
    BY <1>1 DEF Put
  <1>3. installer.kind # "exe" /\ installer.kind # "zip"
    BY <1>1
  <1>4. Put(madeOf) = [record |-> RecordCells(madeOf.record), plan |-> PlanCells(madeOf.plan), pack |-> madeOf.pack]
    BY DEF Put
  <1>5. QED  BY <1>1, <1>2, <1>3, <1>4 DEF ReadsBackAsPut, info

(***************************************************************************)
(* InstallerFile. The app of a mac                                         *)
(***************************************************************************)
OtherEntries == [folder : {"MacOS", "Resources"}, name : {"program", "AppIcon.icns"}, cells : Seq(Cell)]
TiEntries == [folder : {"ti"}, name : {"record.txt", "plan.txt"} \cup DOMAIN Members, cells : Seq(Cell)]
AppEntries == OtherEntries \cup TiEntries
SealOf(entries) == Entry_("seal", "CodeResources", << [is |-> "seal", of |-> entries] >>)
Kept(m) == Carried(RecordCells(m.record), PlanCells(m.plan), m.pack)

\* Those of a list that are in a set.
Chosen(s, Fit) == Where(s, {k \in DOMAIN s : s[k] \in Fit})

LEMMA AllPlaces ==
    ASSUME NEW n \in Nat
    PROVE  Places(n, 1..n) = [k \in 1..n |-> k]
  <1> DEFINE p == [k \in 1..n |-> k]
  <1>1. Enumerates(p, 1..n)
    <2>1. p \in Seq(Nat) /\ DOMAIN p = 1..n
      OBVIOUS
    <2>2. \A i \in 1..n : p[i] = i
      OBVIOUS
    <2> HIDE DEF p
    <2>3. QED  BY <2>1, <2>2 DEF Enumerates
  <1>2. Enumerates(Places(n, 1..n), 1..n)
    <2>1. (1..n) \cap (1..n) = 1..n
      OBVIOUS
    <2>2. QED  BY <2>1, PlacesAre
  <1>3. QED  BY <1>1, <1>2, OneOrder

LEMMA NoPlaces ==
    ASSUME NEW n \in Nat, NEW P, P \cap (1..n) = {}
    PROVE  Places(n, P) = <<>>
  <1>1. Enumerates(<<>>, {})
    BY DEF Enumerates
  <1>2. Enumerates(Places(n, P), {})
    BY PlacesAre
  <1>3. QED  BY <1>1, <1>2, OneOrder

LEMMA ChosenAll ==
    ASSUME NEW R, NEW s \in Seq(R), NEW Fit, \A i \in 1..Len(s) : s[i] \in Fit
    PROVE  Chosen(s, Fit) = s
  <1> DEFINE P == {k \in DOMAIN s : s[k] \in Fit}
             p == Places(Len(s), P)
  <1>1. Len(s) \in Nat /\ DOMAIN s = 1..Len(s)
    OBVIOUS
  <1>2. P = 1..Len(s)
    BY <1>1
  <1>3. p = [k \in 1..Len(s) |-> k]
    BY <1>1, <1>2, AllPlaces
  <1> HIDE DEF P
  <1>4. Chosen(s, Fit) = [j \in DOMAIN p |-> s[p[j]]]
    BY DEF Chosen, Where, P
  <1>5. [j \in DOMAIN p |-> s[p[j]]] = [j \in 1..Len(s) |-> s[j]]
    BY <1>3
  <1>6. [j \in 1..Len(s) |-> s[j]] = s
    BY <1>1
  <1>7. QED  BY <1>4, <1>5, <1>6

LEMMA ChosenNone ==
    ASSUME NEW R, NEW s \in Seq(R), NEW Fit, \A i \in 1..Len(s) : s[i] \notin Fit
    PROVE  Chosen(s, Fit) = <<>>
  <1> DEFINE P == {k \in DOMAIN s : s[k] \in Fit}
  <1>1. Len(s) \in Nat /\ DOMAIN s = 1..Len(s)
    OBVIOUS
  <1>2. P \cap (1..Len(s)) = {}
    BY <1>1
  <1> HIDE DEF P
  <1>3. Places(Len(s), P) = <<>>
    BY <1>1, <1>2, NoPlaces
  <1>4. Chosen(s, Fit) = [j \in DOMAIN Places(Len(s), P) |-> s[Places(Len(s), P)[j]]]
    BY DEF Chosen, Where, P
  <1>5. [j \in DOMAIN <<>> |-> s[<<>>[j]]] = <<>>
    OBVIOUS
  <1>6. QED  BY <1>3, <1>4, <1>5

LEMMA ChosenOfBoth ==
    ASSUME NEW R, NEW s \in Lists(R), NEW t \in Lists(R), NEW Fit
    PROVE  /\ Cat(s, t) \in Lists(R) /\ Chosen(Cat(s, t), Fit) = Cat(Chosen(s, Fit), Chosen(t, Fit))
           /\ Chosen(s, Fit) \in Lists(R) /\ Chosen(t, Fit) \in Lists(R)
  <1> DEFINE n == Len(s)
             l == Len(t)
             both == s \o t
             P == {k \in DOMAIN both : both[k] \in Fit}
             A == {k \in DOMAIN s : s[k] \in Fit}
             B == {k \in DOMAIN t : t[k] \in Fit}
             p == Places(n, A)
             q == Places(l, B)
             all == Places(n + l, P)
  <1>1. s \in Seq(R) /\ t \in Seq(R)
    BY DEF Lists
  <1>2. /\ n \in Nat /\ l \in Nat /\ DOMAIN s = 1..n /\ DOMAIN t = 1..l /\ DOMAIN both = 1..(n + l) /\ Len(both) = n + l
        /\ both \in Seq(R) /\ (\A i \in 1..n : s[i] \in R) /\ (\A i \in 1..l : t[i] \in R)
    BY <1>1
  <1>3. (\A i \in 1..n : both[i] = s[i]) /\ (\A i \in 1..l : both[n + i] = t[i])
    BY <1>1, FirstOfRow, SecondOfRow
  <1> HIDE DEF both, n, l
  <1>4. P \cap (1..n) = A \cap (1..n)
    BY <1>2, <1>3
  <1>5. Beyond(n, P) \cap (1..l) = B \cap (1..l)
    BY <1>2, <1>3 DEF Beyond
  <1> HIDE DEF P, A, B
  <1>6. Places(n, P) = p /\ Places(l, Beyond(n, P)) = q
    BY <1>2, <1>4, <1>5, SamePlaces
  <1>7. all = Both(p, MovedBy(n, q))
    BY <1>2, <1>6, PlacesInBoth
  <1>8. p \in Seq(Nat) /\ q \in Seq(Nat) /\ (\A i \in DOMAIN p : p[i] \in 1..n) /\ (\A i \in DOMAIN q : q[i] \in 1..l)
    <2>1. Enumerates(p, A \cap (1..n)) /\ Enumerates(q, B \cap (1..l))
      BY <1>2, PlacesAre
    <2>2. QED  BY <2>1 DEF Enumerates
  <1> HIDE DEF p, q, all
  <1>9. /\ Chosen(both, Fit) = [j \in DOMAIN all |-> both[all[j]]]
        /\ Chosen(s, Fit) = [j \in DOMAIN p |-> s[p[j]]]
        /\ Chosen(t, Fit) = [j \in DOMAIN q |-> t[q[j]]]
    BY <1>2 DEF Chosen, Where, all, p, q, P, A, B, n, l
  <1> DEFINE a == Len(p)
             b == Len(q)
             moved == MovedBy(n, q)
             x == Chosen(s, Fit)
             y == Chosen(t, Fit)
             z == Chosen(both, Fit)
  <1>10. a \in Nat /\ b \in Nat /\ DOMAIN p = 1..a /\ DOMAIN q = 1..b
    BY <1>8
  <1>11. moved \in Seq(Nat) /\ Len(moved) = b /\ \A i \in 1..b : moved[i] = n + q[i]
    <2>1. moved = [j \in 1..b |-> n + q[j]]
      BY <1>10 DEF MovedBy
    <2>2. \A j \in 1..b : n + q[j] \in Nat
      BY <1>2, <1>8, <1>10
    <2> HIDE DEF moved
    <2>3. QED  BY <1>10, <2>1, <2>2
  <1> HIDE DEF a, b, moved
  <1>12. /\ DOMAIN all = 1..(a + b) /\ (\A i \in 1..a : all[i] = p[i]) /\ (\A i \in 1..b : all[a + i] = n + q[i])
    <2>1. Len(p) = a /\ DOMAIN Both(p, moved) = 1..(a + b)
      BY <1>8, <1>11, BothSize DEF a
    <2>2. \A i \in 1..a : Both(p, moved)[i] = p[i]
      BY <1>8, <1>11, <2>1, BothFirst
    <2>3. ASSUME NEW i \in 1..b PROVE Both(p, moved)[a + i] = moved[i]
      <3>1. i \in 1..Len(moved) /\ p \in Seq(Nat) /\ moved \in Seq(Nat)
        BY <1>8, <1>11
      <3>2. Both(p, moved)[Len(p) + i] = moved[i]
        BY <3>1, BothSecond
      <3>3. QED  BY <2>1, <3>2
    <2>4. QED  BY <1>7, <1>11, <2>1, <2>2, <2>3 DEF moved
  <1>13. x \in Seq(R) /\ Len(x) = a /\ \A i \in 1..a : x[i] = s[p[i]]
    <2>1. ASSUME NEW i \in 1..a PROVE s[p[i]] \in R
      <3>1. p[i] \in 1..n
        BY <1>8, <1>10
      <3>2. QED  BY <1>2, <3>1
    <2>2. x = [j \in 1..a |-> s[p[j]]]
      BY <1>9, <1>10
    <2> HIDE DEF x
    <2>3. QED  BY <1>10, <2>1, <2>2
  <1>14. y \in Seq(R) /\ Len(y) = b /\ \A i \in 1..b : y[i] = t[q[i]]
    <2>1. ASSUME NEW i \in 1..b PROVE t[q[i]] \in R
      <3>1. q[i] \in 1..l
        BY <1>8, <1>10
      <3>2. QED  BY <1>2, <3>1
    <2>2. y = [j \in 1..b |-> t[q[j]]]
      BY <1>9, <1>10
    <2> HIDE DEF y
    <2>3. QED  BY <1>10, <2>1, <2>2
  <1>15. z \in Seq(R) /\ Len(z) = a + b /\ (\A i \in 1..a : z[i] = x[i]) /\ (\A i \in 1..b : z[a + i] = y[i])
    <2>1. z = [j \in 1..(a + b) |-> both[all[j]]]
      BY <1>9, <1>12
    <2>2. ASSUME NEW i \in 1..a PROVE both[all[i]] = x[i]
      <3>1. p[i] \in 1..n /\ all[i] = p[i]
        BY <1>8, <1>10, <1>12
      <3>2. x[i] = s[p[i]]
        BY <1>13
      <3>3. QED  BY <1>3, <3>1, <3>2
    <2>3. ASSUME NEW i \in 1..b PROVE both[all[a + i]] = y[i]
      <3>1. q[i] \in 1..l /\ all[a + i] = n + q[i]
        BY <1>8, <1>10, <1>12
      <3>2. y[i] = t[q[i]]
        BY <1>14
      <3>3. QED  BY <1>3, <3>1, <3>2
    <2> HIDE DEF x, y, z
    <2>4. \A j \in 1..(a + b) : j \in 1..a \/ (j - a \in 1..b /\ a + (j - a) = j)
      BY <1>10
    <2>5. \A j \in 1..(a + b) : both[all[j]] \in R
      <3> SUFFICES ASSUME NEW j \in 1..(a + b) PROVE both[all[j]] \in R
        OBVIOUS
      <3>1. CASE j \in 1..a
        <4>1. x[j] \in R
          BY <1>13, <3>1
        <4>2. QED  BY <2>2, <3>1, <4>1
      <3>2. CASE j - a \in 1..b /\ a + (j - a) = j
        <4>1. y[j - a] \in R
          BY <1>14, <3>2
        <4>2. both[all[a + (j - a)]] = y[j - a]
          BY <2>3, <3>2
        <4>3. QED  BY <3>2, <4>1, <4>2
      <3>3. QED  BY <2>4, <3>1, <3>2
    <2>6. z \in Seq(R) /\ Len(z) = a + b
      BY <1>10, <2>1, <2>5
    <2>7. \A i \in 1..a : i \in 1..(a + b)
      BY <1>10
    <2>8. \A i \in 1..b : a + i \in 1..(a + b)
      BY <1>10
    <2>9. QED  BY <2>1, <2>2, <2>3, <2>6, <2>7, <2>8
  <1> HIDE DEF x, y, z
  <1>16. z = x \o y
    <2> DEFINE xy == x \o y
    <2>1. xy \in Seq(R) /\ Len(xy) = a + b
      <3>1. xy \in Seq(R) /\ Len(xy) = Len(x) + Len(y)
        BY <1>13, <1>14, RowIs
      <3>2. QED  BY <1>13, <1>14, <3>1
    <2>2. \A i \in 1..a : xy[i] = x[i]
      BY <1>13, <1>14, FirstOfRow
    <2>3. \A i \in 1..b : xy[a + i] = y[i]
      BY <1>13, <1>14, SecondOfRow
    <2> HIDE DEF xy
    <2>4. \A j \in 1..(a + b) : xy[j] = z[j]
      <3> SUFFICES ASSUME NEW j \in 1..(a + b) PROVE xy[j] = z[j]
        OBVIOUS
      <3>1. CASE j \in 1..a
        BY <1>15, <2>2, <3>1
      <3>2. CASE j - a \in 1..b /\ a + (j - a) = j
        <4>1. xy[a + (j - a)] = y[j - a] /\ z[a + (j - a)] = y[j - a]
          BY <1>15, <2>3, <3>2
        <4>2. QED  BY <3>2, <4>1
      <3>3. QED  BY <1>10, <3>1, <3>2
    <2>5. z = xy
      BY <1>15, <2>1, <2>4, SeqEqual
    <2>6. QED  BY <2>5 DEF xy
  <1>17. QED  BY <1>2, <1>13, <1>14, <1>16 DEF x, y, z, both, Cat, Lists

LEMMA ChosenOfThree ==
    ASSUME NEW R, NEW s \in Lists(R), NEW t \in Lists(R), NEW u \in Lists(R), NEW Fit
    PROVE  Chosen(Cat(Cat(s, t), u), Fit) = Cat(Cat(Chosen(s, Fit), Chosen(t, Fit)), Chosen(u, Fit))
  <1>1. Cat(s, t) \in Lists(R) /\ Chosen(Cat(s, t), Fit) = Cat(Chosen(s, Fit), Chosen(t, Fit))
    BY ChosenOfBoth
  <1>2. Chosen(Cat(Cat(s, t), u), Fit) = Cat(Chosen(Cat(s, t), Fit), Chosen(u, Fit))
    BY <1>1, ChosenOfBoth
  <1>3. QED  BY <1>1, <1>2

\* An entry that no later one has the name of.
LEMMA NamedIs ==
    ASSUME NEW entries, Len(entries) \in Nat, DOMAIN entries = 1..Len(entries), NEW k \in DOMAIN entries, NEW name,
           entries[k].name = name, \A i \in DOMAIN entries : i > k => entries[i].name # name
    PROVE  Named(entries, name) = entries[k].cells
  <1> DEFINE places == {i \in DOMAIN entries : entries[i].name = name}
  <1>1. k \in places /\ places \subseteq Nat /\ \A i \in places : k >= i
    OBVIOUS
  <1>2. Named(entries, name) = IF places = {} THEN <<>> ELSE entries[Max(places)].cells
    BY DEF Named
  <1> HIDE DEF places
  <1>3. Max(places) = k
    <2>1. Max(places) \in places /\ \A i \in places : Max(places) >= i
      BY <1>1 DEF Max
    <2>2. QED  BY <1>1, <2>1
  <1>4. QED  BY <1>1, <1>2, <1>3

LEMMA NamedNot ==
    ASSUME NEW entries, NEW name, \A i \in DOMAIN entries : entries[i].name # name
    PROVE  Named(entries, name) = <<>>
  BY DEF Named

(* What the block of an app is *)
PackEntries(m) == [i \in DOMAIN m.pack |-> Entry_("ti", m.pack[i].name, m.pack[i].data)]
RecordEntry(m) == Entry_("ti", "record.txt", RecordCells(m.record))
PlanEntry(m) == Entry_("ti", "plan.txt", PlanCells(m.plan))
FrontEntries(m) == << RecordEntry(m) >> \o (IF PlanCells(m.plan) = <<>> THEN <<>> ELSE << PlanEntry(m) >>)
PackedEntries == {x \in TiEntries : x.name \notin {"record.txt", "plan.txt"}}

LEMMA PackEntriesAre ==
    ASSUME NEW m \in MadeSet
    PROVE  /\ PackEntries(m) \in Seq(TiEntries) /\ Len(PackEntries(m)) = Len(m.pack) /\ Len(m.pack) \in Nat
           /\ DOMAIN m.pack = 1..Len(m.pack)
           /\ \A i \in 1..Len(m.pack) :
                 /\ PackEntries(m)[i] \in PackedEntries
                 /\ m.pack[i] = [name |-> PackEntries(m)[i].name, data |-> PackEntries(m)[i].cells]
  <1>1. m.pack \in Seq(MemberSet)
    BY MadeIs
  <1>2. Len(m.pack) \in Nat /\ DOMAIN m.pack = 1..Len(m.pack) /\ \A i \in 1..Len(m.pack) : m.pack[i] \in MemberSet
    BY <1>1
  <1>3. ASSUME NEW i \in 1..Len(m.pack)
        PROVE  /\ Entry_("ti", m.pack[i].name, m.pack[i].data) \in TiEntries
               /\ Entry_("ti", m.pack[i].name, m.pack[i].data) \in PackedEntries
               /\ m.pack[i] = [name |-> m.pack[i].name, data |-> m.pack[i].data]
    <2>1. PICK name \in DOMAIN Members : m.pack[i] = Member(name)
      BY <1>2 DEF MemberSet
    <2>2. m.pack[i].name = name /\ m.pack[i].data \in Seq(Cell)
      BY <2>1, MemberIs
    <2>3. name \notin {"record.txt", "plan.txt"}
      BY InstallerFileAssumption
    <2>4. m.pack[i] = [name |-> m.pack[i].name, data |-> m.pack[i].data]
      BY <2>1 DEF Member
    <2>5. Entry_("ti", m.pack[i].name, m.pack[i].data) \in TiEntries
      BY <2>2 DEF Entry_, TiEntries
    <2>6. Entry_("ti", m.pack[i].name, m.pack[i].data).name = name
      BY <2>2 DEF Entry_
    <2>7. QED  BY <2>3, <2>4, <2>5, <2>6 DEF PackedEntries
  <1>4. PackEntries(m) = [i \in 1..Len(m.pack) |-> Entry_("ti", m.pack[i].name, m.pack[i].data)]
    BY <1>2 DEF PackEntries
  <1>5. PackEntries(m) \in Seq(TiEntries) /\ Len(PackEntries(m)) = Len(m.pack)
    <2> DEFINE n == Len(m.pack)
               E(i) == Entry_("ti", m.pack[i].name, m.pack[i].data)
    <2>1. n \in Nat /\ PackEntries(m) = [i \in 1..n |-> E(i)] /\ \A i \in 1..n : E(i) \in TiEntries
      BY <1>2, <1>3, <1>4
    <2> HIDE DEF n, E
    <2>2. PackEntries(m) \in Seq(TiEntries) /\ Len(PackEntries(m)) = n
      BY <2>1
    <2>3. QED  BY <2>2 DEF n
  <1>6. \A i \in 1..Len(m.pack) :
           PackEntries(m)[i].name = m.pack[i].name /\ PackEntries(m)[i].cells = m.pack[i].data
    BY <1>4 DEF Entry_
  <1>7. QED  BY <1>2, <1>3, <1>4, <1>5, <1>6

LEMMA FrontEntriesAre ==
    ASSUME NEW m \in MadeSet
    PROVE  LET front == FrontEntries(m) plan == PlanCells(m.plan) IN
           /\ front \in Seq(TiEntries) /\ DOMAIN front = 1..Len(front)
           /\ Len(front) = IF plan = <<>> THEN 1 ELSE 2
           /\ front[1] = RecordEntry(m) /\ front[1].name = "record.txt" /\ front[1].cells = RecordCells(m.record)
           /\ plan # <<>> => front[2] = PlanEntry(m) /\ front[2].name = "plan.txt" /\ front[2].cells = plan
           /\ \A i \in 1..Len(front) : front[i] \notin PackedEntries
  <1>1. RecordCells(m.record) \in Seq(Cell) /\ PlanCells(m.plan) \in Seq(Cell)
    BY MadeIs
  <1>2. /\ RecordEntry(m) \in TiEntries /\ RecordEntry(m).name = "record.txt" /\ RecordEntry(m).cells = RecordCells(m.record)
        /\ PlanEntry(m) \in TiEntries /\ PlanEntry(m).name = "plan.txt" /\ PlanEntry(m).cells = PlanCells(m.plan)
    BY <1>1 DEF RecordEntry, PlanEntry, Entry_, TiEntries
  <1>3. RecordEntry(m) \notin PackedEntries /\ PlanEntry(m) \notin PackedEntries
    BY <1>2 DEF PackedEntries
  <1>4. CASE PlanCells(m.plan) = <<>>
    <2>1. FrontEntries(m) = << RecordEntry(m) >>
      <3>1. << RecordEntry(m) >> \in Seq(TiEntries)
        BY <1>2
      <3>2. << RecordEntry(m) >> \o <<>> = << RecordEntry(m) >>
        BY <3>1, ConcatEmptySeq
      <3>3. QED  BY <1>4, <3>2 DEF FrontEntries
    <2>2. /\ << RecordEntry(m) >> \in Seq(TiEntries) /\ Len(<< RecordEntry(m) >>) = 1
          /\ << RecordEntry(m) >>[1] = RecordEntry(m) /\ DOMAIN << RecordEntry(m) >> = 1..1
      BY <1>2
    <2>3. QED  BY <1>2, <1>3, <1>4, <2>1, <2>2
  <1>5. CASE PlanCells(m.plan) # <<>>
    <2> DEFINE a == << RecordEntry(m) >>
               b == << PlanEntry(m) >>
    <2>1. FrontEntries(m) = a \o b
      BY <1>5 DEF FrontEntries
    <2>2. a \in Seq(TiEntries) /\ Len(a) = 1 /\ a[1] = RecordEntry(m) /\ b \in Seq(TiEntries) /\ Len(b) = 1 /\ b[1] = PlanEntry(m)
      BY <1>2
    <2> HIDE DEF a, b
    <2>3. a \o b \in Seq(TiEntries) /\ Len(a \o b) = 2
      <3>1. a \in Seq(TiEntries) /\ b \in Seq(TiEntries)
        BY <2>2
      <3>2. a \o b \in Seq(TiEntries) /\ Len(a \o b) = Len(a) + Len(b)
        BY <3>1, RowIs
      <3>3. QED  BY <2>2, <3>2
    <2>4. (a \o b)[1] = RecordEntry(m)
      <3>1. 1 \in 1..Len(a)
        BY <2>2
      <3>2. QED  BY <2>2, <3>1, FirstOfRow
    <2>5. (a \o b)[2] = PlanEntry(m)
      <3>1. 1 \in 1..Len(b) /\ Len(a) + 1 = 2
        BY <2>2
      <3>2. a \in Seq(TiEntries) /\ b \in Seq(TiEntries)
        BY <2>2
      <3>3. (a \o b)[Len(a) + 1] = b[1]
        BY <3>2, <3>1, SecondOfRow
      <3>4. QED  BY <2>2, <3>1, <3>3
    <2>6. DOMAIN (a \o b) = 1..2
      BY <2>3
    <2>7. \A i \in 1..2 : i = 1 \/ i = 2
      OBVIOUS
    <2>8. QED  BY <1>2, <1>3, <1>5, <2>1, <2>7, <2>3, <2>4, <2>5, <2>6
  <1>6. QED  BY <1>4, <1>5

\* The block reads as what was put.
ReadsAs(ti, m) ==
    LET packed == Where(ti, {k \in DOMAIN ti : ti[k].name \notin {"record.txt", "plan.txt"}}) IN
    /\ Named(ti, "record.txt") = RecordCells(m.record) /\ Named(ti, "plan.txt") = PlanCells(m.plan)
    /\ [i \in DOMAIN packed |-> [name |-> packed[i].name, data |-> packed[i].cells]] = m.pack

LEMMA KeptIs ==
    ASSUME NEW m \in MadeSet
    PROVE  Kept(m) \in Seq(TiEntries) /\ ReadsAs(Kept(m), m)
  <1> DEFINE front == FrontEntries(m)
             pack == PackEntries(m)
             plan == PlanCells(m.plan)
             f == Len(front)
             n == Len(m.pack)
             ti == Kept(m)
  <1>1. ti = front \o pack
    BY DEF Kept, Carried, FrontEntries, PackEntries, RecordEntry, PlanEntry
  <1>2. /\ front \in Seq(TiEntries) /\ f = (IF plan = <<>> THEN 1 ELSE 2)
        /\ front[1].name = "record.txt" /\ front[1].cells = RecordCells(m.record)
        /\ plan # <<>> => front[2].name = "plan.txt" /\ front[2].cells = plan
        /\ \A i \in 1..f : front[i] \notin PackedEntries
    BY FrontEntriesAre
  <1>3. /\ pack \in Seq(TiEntries) /\ Len(pack) = n /\ n \in Nat /\ DOMAIN m.pack = 1..n
        /\ \A i \in 1..n : pack[i] \in PackedEntries /\ m.pack[i] = [name |-> pack[i].name, data |-> pack[i].cells]
    BY PackEntriesAre
  <1> HIDE DEF front, pack, plan, ti
  <1>4. ti \in Seq(TiEntries) /\ Len(ti) = f + n /\ f \in Nat
    <2>1. front \in Seq(TiEntries) /\ pack \in Seq(TiEntries)
      BY <1>2, <1>3
    <2>2. front \o pack \in Seq(TiEntries) /\ Len(front \o pack) = Len(front) + Len(pack) /\ Len(front) \in Nat
      BY <2>1, RowIs
    <2>3. QED  BY <1>1, <1>3, <2>2
  <1> HIDE DEF n, f
  <1>5. \A i \in 1..f : ti[i] = front[i]
    <2>1. \A i \in 1..Len(front) : (front \o pack)[i] = front[i]
      BY <1>2, <1>3, FirstOfRow
    <2>2. QED  BY <1>1, <2>1 DEF f
  <1>6. \A i \in 1..n : ti[f + i] = pack[i]
    <2>1. \A i \in 1..Len(pack) : (front \o pack)[Len(front) + i] = pack[i]
      BY <1>2, <1>3, SecondOfRow
    <2>2. QED  BY <1>1, <1>3, <2>1 DEF f
  <1>7. DOMAIN ti = 1..Len(ti) /\ Len(ti) \in Nat /\ DOMAIN ti = 1..(f + n)
    BY <1>4
  <1>8. ASSUME NEW i \in DOMAIN ti, i > f PROVE ti[i].name \notin {"record.txt", "plan.txt"}
    <2>1. i - f \in 1..n /\ f + (i - f) = i
      BY <1>3, <1>4, <1>7, <1>8
    <2>2. ti[f + (i - f)] = pack[i - f] /\ pack[i - f] \in PackedEntries
      BY <1>3, <1>6, <2>1
    <2>3. ti[i] \in PackedEntries
      BY <2>1, <2>2
    <2>4. QED  BY <2>3 DEF PackedEntries
  <1>9. Named(ti, "record.txt") = RecordCells(m.record)
    <2>1. 1 \in 1..f /\ 1 \in DOMAIN ti
      BY <1>2, <1>3, <1>7
    <2>2. ti[1].name = "record.txt" /\ ti[1].cells = RecordCells(m.record)
      BY <1>2, <1>5, <2>1
    <2>3. ASSUME NEW i \in DOMAIN ti, i > 1 PROVE ti[i].name # "record.txt"
      <3>1. CASE i > f
        BY <1>8, <3>1
      <3>2. CASE ~(i > f)
        <4>1. plan # <<>> /\ i = 2 /\ i \in 1..f
          BY <1>2, <1>7, <2>3, <3>2
        <4>2. ti[i].name = "plan.txt"
          BY <1>2, <1>5, <4>1
        <4>3. QED  BY <4>2
      <3>3. QED  BY <3>1, <3>2
    <2>4. Named(ti, "record.txt") = ti[1].cells
      BY <1>7, <2>1, <2>2, <2>3, NamedIs
    <2>5. QED  BY <2>2, <2>4
  <1>10. Named(ti, "plan.txt") = plan
    <2>1. CASE plan # <<>>
      <3>1. 2 \in 1..f /\ 2 \in DOMAIN ti
        BY <1>2, <1>3, <1>7, <2>1
      <3>2. ti[2].name = "plan.txt" /\ ti[2].cells = plan
        BY <1>2, <1>5, <2>1, <3>1
      <3>3. ASSUME NEW i \in DOMAIN ti, i > 2 PROVE ti[i].name # "plan.txt"
        <4>1. i > f
          BY <1>2, <2>1, <3>3
        <4>2. QED  BY <1>8, <4>1
      <3>4. Named(ti, "plan.txt") = ti[2].cells
        BY <1>7, <3>1, <3>2, <3>3, NamedIs
      <3>5. QED  BY <3>2, <3>4
    <2>2. CASE plan = <<>>
      <3>1. ASSUME NEW i \in DOMAIN ti PROVE ti[i].name # "plan.txt"
        <4>1. CASE i > f
          BY <1>8, <4>1
        <4>2. CASE ~(i > f)
          <5>1. i = 1 /\ i \in 1..f
            BY <1>2, <1>7, <2>2, <4>2
          <5>2. ti[i].name = "record.txt"
            BY <1>2, <1>5, <5>1
          <5>3. QED  BY <5>2
        <4>3. QED  BY <4>1, <4>2
      <3>2. QED  BY <2>2, <3>1, NamedNot
    <2>3. QED  BY <2>1, <2>2
  <1> DEFINE P == {k \in DOMAIN ti : ti[k].name \notin {"record.txt", "plan.txt"}}
             packed == Where(ti, P)
  <1>11. packed = pack
    <2>1. P = {k \in DOMAIN ti : ti[k] \in PackedEntries}
      <3>1. \A k \in DOMAIN ti : ti[k] \in TiEntries
        BY <1>4
      <3>2. \A k \in DOMAIN ti : ti[k] \in PackedEntries <=> ti[k].name \notin {"record.txt", "plan.txt"}
        BY <3>1 DEF PackedEntries
      <3>3. QED  BY <3>2
    <2>2. packed = Chosen(ti, PackedEntries)
      BY <2>1 DEF Chosen
    <2>3. Chosen(front \o pack, PackedEntries) = Chosen(front, PackedEntries) \o Chosen(pack, PackedEntries)
      <3>1. front \in Lists(TiEntries) /\ pack \in Lists(TiEntries)
        BY <1>2, <1>3 DEF Lists
      <3>2. Chosen(Cat(front, pack), PackedEntries) = Cat(Chosen(front, PackedEntries), Chosen(pack, PackedEntries))
        BY <3>1, ChosenOfBoth
      <3>3. QED  BY <3>2 DEF Cat
    <2>4. Chosen(front, PackedEntries) = <<>>
      <3>1. \A i \in 1..Len(front) : front[i] \notin PackedEntries
        BY <1>2 DEF f
      <3>2. QED  BY <1>2, <3>1, ChosenNone
    <2>5. Chosen(pack, PackedEntries) = pack
      <3>1. \A i \in 1..Len(pack) : pack[i] \in PackedEntries
        BY <1>3
      <3>2. QED  BY <1>3, <3>1, ChosenAll
    <2>6. <<>> \o pack = pack
      BY <1>3, ConcatEmptySeq
    <2>7. QED  BY <1>1, <2>2, <2>3, <2>4, <2>5, <2>6
  <1> HIDE DEF packed
  <1>12. [i \in DOMAIN packed |-> [name |-> packed[i].name, data |-> packed[i].cells]] = m.pack
    <2>1. DOMAIN packed = 1..n
      BY <1>3, <1>11
    <2>2. m.pack = [i \in 1..n |-> m.pack[i]]
      <3>1. m.pack \in Seq(MemberSet)
        BY MadeIs
      <3>2. QED  BY <1>3, <3>1
    <2>3. \A i \in 1..n : m.pack[i] = [name |-> packed[i].name, data |-> packed[i].cells]
      BY <1>3, <1>11
    <2>4. QED  BY <2>1, <2>2, <2>3
  <1>13. QED  BY <1>4, <1>9, <1>10, <1>12 DEF ReadsAs, packed, plan, ti

(* The entries of an app *)
\* Those of a folder.
Within(R, folders) == {x \in R : x.folder \in folders}

LEMMA FolderIs ==
    ASSUME NEW R, NEW entries \in Seq(R)
    PROVE  /\ \A folder : InFolder(entries, folder) = Chosen(entries, Within(R, {folder}))
           /\ Where(entries, {k \in DOMAIN entries : entries[k].folder # "seal"})
                = Chosen(entries, {x \in R : x.folder # "seal"})
  <1>1. \A k \in DOMAIN entries : entries[k] \in R
    OBVIOUS
  <1>2. ASSUME NEW folder PROVE InFolder(entries, folder) = Chosen(entries, Within(R, {folder}))
    <2>1. {k \in DOMAIN entries : entries[k].folder = folder} = {k \in DOMAIN entries : entries[k] \in Within(R, {folder})}
      BY <1>1 DEF Within
    <2>2. QED  BY <2>1 DEF InFolder, Chosen
  <1>3. {k \in DOMAIN entries : entries[k].folder # "seal"} = {k \in DOMAIN entries : entries[k] \in {x \in R : x.folder # "seal"}}
    BY <1>1
  <1>4. QED  BY <1>2, <1>3 DEF Chosen

AppOf(others, kept, tail) == Cat(Cat(others, kept), tail)

LEMMA AppParts ==
    ASSUME NEW others \in Seq(OtherEntries), NEW kept \in Seq(TiEntries), NEW seal, seal.folder = "seal",
           NEW tail \in {<<>>, <<seal>>}
    PROVE  LET entries == AppOf(others, kept, tail) IN
           /\ entries \in Seq(AppEntries \cup {seal})
           /\ InFolder(entries, "ti") = kept /\ InFolder(entries, "seal") = tail
           /\ Where(entries, {k \in DOMAIN entries : entries[k].folder # "seal"}) = Cat(others, kept)
  <1> DEFINE R == AppEntries \cup {seal}
             entries == AppOf(others, kept, tail)
  <1>1. /\ \A x \in OtherEntries : x \in R /\ x.folder # "ti" /\ x.folder # "seal"
        /\ \A x \in TiEntries : x \in R /\ x.folder = "ti" /\ x.folder # "seal"
        /\ seal \in R /\ seal.folder # "ti"
    BY DEF OtherEntries, TiEntries, AppEntries
  <1> HIDE DEF R
  <1>2. others \in Seq(R) /\ kept \in Seq(R)
    <2>1. OtherEntries \subseteq R /\ TiEntries \subseteq R
      BY <1>1
    <2>2. QED  BY <2>1, SeqMonotonic
  <1>3. tail \in Seq(R)
    <2>1. seal \in R
      BY <1>1
    <2>2. <<>> \in Seq(R) /\ << seal >> \in Seq(R)
      BY <2>1
    <2>3. QED  BY <2>2
  <1>4. others \in Lists(R) /\ kept \in Lists(R) /\ tail \in Lists(R)
    BY <1>2, <1>3 DEF Lists
  <1>5. Cat(others, kept) \in Lists(R) /\ entries \in Lists(R)
    <2>1. Cat(others, kept) \in Lists(R)
      BY <1>4, ChosenOfBoth
    <2>2. QED  BY <1>4, <2>1, ChosenOfBoth DEF AppOf
  <1>6. \A Fit : Chosen(entries, Fit) = Cat(Cat(Chosen(others, Fit), Chosen(kept, Fit)), Chosen(tail, Fit))
    BY <1>4, ChosenOfThree DEF AppOf
  <1>7. (\A i \in 1..Len(others) : others[i] \in OtherEntries) /\ (\A i \in 1..Len(kept) : kept[i] \in TiEntries)
    OBVIOUS
  <1>8. \A i \in 1..Len(tail) : tail[i] = seal
    OBVIOUS
  <1> DEFINE Ti == Within(R, {"ti"})
             Se == Within(R, {"seal"})
             Un == {x \in R : x.folder # "seal"}
  <1>9. Chosen(others, Ti) = <<>> /\ Chosen(kept, Ti) = kept /\ Chosen(tail, Ti) = <<>>
    <2>1. \A i \in 1..Len(others) : others[i] \notin Ti
      BY <1>1, <1>7 DEF Within
    <2>2. \A i \in 1..Len(kept) : kept[i] \in Ti
      BY <1>1, <1>7 DEF Within
    <2>3. \A i \in 1..Len(tail) : tail[i] \notin Ti
      BY <1>1, <1>8 DEF Within
    <2> HIDE DEF Ti
    <2>4. Chosen(others, Ti) = <<>>
      BY <1>2, <2>1, ChosenNone
    <2>5. Chosen(kept, Ti) = kept
      BY <1>2, <2>2, ChosenAll
    <2>6. Chosen(tail, Ti) = <<>>
      BY <1>3, <2>3, ChosenNone
    <2>7. QED  BY <2>4, <2>5, <2>6
  <1>10. Chosen(others, Se) = <<>> /\ Chosen(kept, Se) = <<>> /\ Chosen(tail, Se) = tail
    <2>1. \A i \in 1..Len(others) : others[i] \notin Se
      BY <1>1, <1>7 DEF Within
    <2>2. \A i \in 1..Len(kept) : kept[i] \notin Se
      BY <1>1, <1>7 DEF Within
    <2>3. \A i \in 1..Len(tail) : tail[i] \in Se
      BY <1>1, <1>8 DEF Within
    <2> HIDE DEF Se
    <2>4. Chosen(others, Se) = <<>>
      BY <1>2, <2>1, ChosenNone
    <2>5. Chosen(kept, Se) = <<>>
      BY <1>2, <2>2, ChosenNone
    <2>6. Chosen(tail, Se) = tail
      BY <1>3, <2>3, ChosenAll
    <2>7. QED  BY <2>4, <2>5, <2>6
  <1>11. Chosen(others, Un) = others /\ Chosen(kept, Un) = kept /\ Chosen(tail, Un) = <<>>
    <2>1. \A i \in 1..Len(others) : others[i] \in Un
      BY <1>1, <1>7
    <2>2. \A i \in 1..Len(kept) : kept[i] \in Un
      BY <1>1, <1>7
    <2>3. \A i \in 1..Len(tail) : tail[i] \notin Un
      BY <1>1, <1>8
    <2> HIDE DEF Un
    <2>4. Chosen(others, Un) = others
      BY <1>2, <2>1, ChosenAll
    <2>5. Chosen(kept, Un) = kept
      BY <1>2, <2>2, ChosenAll
    <2>6. Chosen(tail, Un) = <<>>
      BY <1>3, <2>3, ChosenNone
    <2>7. QED  BY <2>4, <2>5, <2>6
  <1>12. \A s \in Lists(R) : Cat(<<>>, s) = s /\ Cat(s, <<>>) = s
    <2>1. ASSUME NEW s \in Seq(R) PROVE <<>> \o s = s /\ s \o <<>> = s
      BY ConcatEmptySeq
    <2>2. QED  BY <2>1 DEF Lists, Cat
  <1>13. Cat(<<>>, <<>>) = <<>>
    <2>1. <<>> \in Lists(R)
      BY DEF Lists
    <2>2. QED  BY <1>12, <2>1
  <1> HIDE DEF entries, Ti, Se, Un
  <1>14. Chosen(entries, Ti) = kept
    BY <1>4, <1>6, <1>9, <1>12
  <1>15. Chosen(entries, Se) = tail
    BY <1>4, <1>6, <1>10, <1>12, <1>13
  <1>16. Chosen(entries, Un) = Cat(others, kept)
    BY <1>5, <1>6, <1>11, <1>12
  <1>17. entries \in Seq(R)
    BY <1>5 DEF Lists
  <1>18. QED  BY <1>14, <1>15, <1>16, <1>17, FolderIs DEF entries, Ti, Se, Un, R

ZipFile(f, m) ==
    /\ f = [kind |-> "zip", entries |-> f.entries]
    /\ \E others \in Seq(OtherEntries) : \E tail \in {<<>>, << SealOf(Cat(others, Kept(m))) >>} :
          f.entries = AppOf(others, Kept(m), tail)

\* What is so of such a file.
LEMMA ZipFileIs ==
    ASSUME NEW m \in MadeSet, NEW f, ZipFile(f, m)
    PROVE  /\ f.kind = "zip" /\ InFolder(f.entries, "ti") = Kept(m)
           /\ \E seal : seal.folder = "seal" /\ f.entries \in Seq(AppEntries \cup {seal})
           /\ InFolder(f.entries, "seal") = <<>> => \E others \in Seq(OtherEntries) : f.entries = Cat(others, Kept(m))
           /\ InFolder(f.entries, "seal") # <<>> =>
                 LET under == Where(f.entries, {k \in DOMAIN f.entries : f.entries[k].folder # "seal"})
                 IN  Named(f.entries, "CodeResources") = << [is |-> "seal", of |-> under] >>
  <1>1. f.kind = "zip"
    BY DEF ZipFile
  <1>2. PICK others \in Seq(OtherEntries) : \E tail \in {<<>>, << SealOf(Cat(others, Kept(m))) >>} :
           f.entries = AppOf(others, Kept(m), tail)
    BY DEF ZipFile
  <1> DEFINE seal == SealOf(Cat(others, Kept(m)))
  <1>3. PICK tail \in {<<>>, << seal >>} : f.entries = AppOf(others, Kept(m), tail)
    BY <1>2
  <1>4. seal.folder = "seal" /\ seal.name = "CodeResources" /\ seal.cells = << [is |-> "seal", of |-> Cat(others, Kept(m))] >>
    BY DEF SealOf, Entry_
  <1>5. Kept(m) \in Seq(TiEntries)
    BY KeptIs
  <1> HIDE DEF seal
  <1>6. /\ f.entries \in Seq(AppEntries \cup {seal})
        /\ InFolder(f.entries, "ti") = Kept(m) /\ InFolder(f.entries, "seal") = tail
        /\ Where(f.entries, {k \in DOMAIN f.entries : f.entries[k].folder # "seal"}) = Cat(others, Kept(m))
    <2> DEFINE kept == Kept(m)
               e == AppOf(others, kept, tail)
    <2>1. others \in Seq(OtherEntries)
      BY <1>2
    <2>2. kept \in Seq(TiEntries)
      BY <1>5
    <2>3. tail \in {<<>>, << seal >>}
      BY <1>3
    <2>4. seal.folder = "seal"
      BY <1>4
    <2> HIDE DEF kept
    <2>5. /\ e \in Seq(AppEntries \cup {seal}) /\ InFolder(e, "ti") = kept /\ InFolder(e, "seal") = tail
          /\ Where(e, {k \in DOMAIN e : e[k].folder # "seal"}) = Cat(others, kept)
      <3>1. LET entries == AppOf(others, kept, tail) IN
            /\ entries \in Seq(AppEntries \cup {seal})
            /\ InFolder(entries, "ti") = kept /\ InFolder(entries, "seal") = tail
            /\ Where(entries, {k \in DOMAIN entries : entries[k].folder # "seal"}) = Cat(others, kept)
        BY <2>1, <2>2, <2>3, <2>4, AppParts, Zenon
      <3>2. QED  BY <3>1, Zenon
    <2>6. QED  BY <1>3, <2>5 DEF kept
  <1> DEFINE body == Cat(others, Kept(m))
  <1>7. body \in Seq(AppEntries)
    <2>1. OtherEntries \subseteq AppEntries /\ TiEntries \subseteq AppEntries
      BY DEF AppEntries
    <2>2. others \in Seq(AppEntries) /\ Kept(m) \in Seq(AppEntries)
      BY <1>5, <2>1, SeqMonotonic
    <2>3. others \o Kept(m) \in Seq(AppEntries)
      BY <2>2, RowIs
    <2>4. QED  BY <2>3 DEF Cat
  <1>8. CASE tail = <<>>
    <2> HIDE DEF body
    <2>1. body \o <<>> = body
      BY <1>7, ConcatEmptySeq
    <2>2. f.entries = body
      BY <1>3, <1>8, <2>1 DEF AppOf, Cat, body
    <2>3. QED  BY <1>1, <1>4, <1>6, <1>8, <2>2 DEF body
  <1>9. CASE tail = << seal >>
    <2> HIDE DEF body
    <2>1. f.entries = body \o << seal >>
      BY <1>3, <1>9 DEF AppOf, Cat, body
    <2> DEFINE S == AppEntries \cup {seal}
    <2>2. body \in Seq(S) /\ << seal >> \in Seq(S) /\ Len(<< seal >>) = 1 /\ << seal >>[1] = seal
      <3>1. AppEntries \subseteq S
        OBVIOUS
      <3>2. body \in Seq(S)
        <4> HIDE DEF S
        <4>1. QED  BY <1>7, <3>1, SeqMonotonic
      <3>3. QED  BY <3>2
    <2> HIDE DEF S
    <2> DEFINE last == << seal >>
    <2>3. last \in Seq(S) /\ Len(last) = 1 /\ last[1] = seal
      BY <2>2
    <2> HIDE DEF last
    <2>4. f.entries \in Seq(S) /\ Len(f.entries) = Len(body) + 1 /\ Len(body) \in Nat
      <3>1. body \o last \in Seq(S) /\ Len(body \o last) = Len(body) + Len(last) /\ Len(body) \in Nat
        BY <2>2, <2>3, RowIs
      <3>2. QED  BY <2>1, <2>3, <3>1 DEF last
    <2>5. f.entries[Len(body) + 1] = seal
      <3>1. 1 \in 1..Len(last) /\ body \in Seq(S) /\ last \in Seq(S)
        BY <2>2, <2>3
      <3>2. (body \o last)[Len(body) + 1] = last[1]
        BY <3>1, SecondOfRow
      <3>3. QED  BY <2>1, <2>3, <3>2 DEF last
    <2> DEFINE n == Len(body) + 1
               es == f.entries
    <2>6. Len(es) \in Nat /\ DOMAIN es = 1..Len(es) /\ n \in DOMAIN es /\ \A i \in DOMAIN es : ~(i > n)
      BY <2>4
    <2> HIDE DEF n, es
    <2>7. Named(es, "CodeResources") = es[n].cells
      <3>1. es[n].name = "CodeResources"
        BY <1>4, <2>5 DEF n, es
      <3>2. QED  BY <2>6, <3>1, NamedIs
    <2>8. Named(f.entries, "CodeResources") = << [is |-> "seal", of |-> body] >>
      BY <1>4, <2>5, <2>7 DEF n, es, body
    <2>9. InFolder(f.entries, "seal") # <<>>
      <3>1. << seal >> # <<>>
        OBVIOUS
      <3>2. QED  BY <1>6, <1>9, <3>1
    <2>10. Named(f.entries, "CodeResources")
             = << [is |-> "seal", of |-> Where(f.entries, {k \in DOMAIN f.entries : f.entries[k].folder # "seal"})] >>
      BY <1>6, <2>8 DEF body
    <2>11. \E x : x.folder = "seal" /\ f.entries \in Seq(AppEntries \cup {x})
      BY <1>4, <1>6
    <2>12. QED  BY <1>1, <1>6, <2>9, <2>10, <2>11
  <1>10. QED  BY <1>3, <1>8, <1>9

LEMMA ZipReading ==
    ASSUME NEW m \in MadeSet, NEW f, ZipFile(f, m)
    PROVE  LET info == ReadBack(f) IN
           /\ info.kind = "zip" /\ info.entries = f.entries /\ {"kind", "entries"} \subseteq DOMAIN info
           /\ info.record = Put(m).record /\ info.plan = Put(m).plan /\ info.pack = Put(m).pack
           /\ FindMetadata(f) = Put(m)
  <1> DEFINE ti == InFolder(f.entries, "ti")
             packed == Where(ti, {k \in DOMAIN ti : ti[k].name \notin {"record.txt", "plan.txt"}})
             record == Named(ti, "record.txt")
             plan == Named(ti, "plan.txt")
             pack == [i \in DOMAIN packed |-> [name |-> packed[i].name, data |-> packed[i].cells]]
  <1>1. f.kind = "zip" /\ ti = Kept(m)
    BY ZipFileIs
  <1>2. ReadMacZip(f) = [kind |-> "zip", entries |-> f.entries, record |-> record, plan |-> plan, pack |-> pack]
    BY DEF ReadMacZip
  <1>3. record = RecordCells(m.record) /\ plan = PlanCells(m.plan) /\ pack = m.pack
    BY <1>1, KeptIs DEF ReadsAs
  <1> HIDE DEF record, plan, pack
  <1>4. ReadBack(f) = ReadMacZip(f)
    BY <1>1 DEF ReadBack
  <1>5. FindMetadata(f) = [record |-> record, plan |-> plan, pack |-> pack]
    BY <1>1, <1>2 DEF FindMetadata
  <1>6. QED  BY <1>2, <1>3, <1>4, <1>5 DEF Put

LEMMA ZipReadsBack ==
    ASSUME madeOf \in MadeSet, ZipFile(installer, madeOf)
    PROVE  ReadsBackAsPut
  <1> DEFINE info == ReadBack(installer)
  <1>1. /\ info.record = Put(madeOf).record /\ info.plan = Put(madeOf).plan /\ info.pack = Put(madeOf).pack
        /\ FindMetadata(installer) = Put(madeOf)
    BY ZipReading
  <1>2. installer.kind = "zip"
    BY ZipFileIs
  <1>3. InFolder(installer.entries, "seal") # <<>> =>
           LET under == Where(installer.entries, {k \in DOMAIN installer.entries : installer.entries[k].folder # "seal"})
           IN  Named(installer.entries, "CodeResources") = << [is |-> "seal", of |-> under] >>
    BY ZipFileIs
  <1> HIDE DEF info
  <1>4. [record |-> info.record, plan |-> info.plan, pack |-> info.pack] = Put(madeOf)
    BY <1>1 DEF Put
  <1>5. Put(madeOf) = [record |-> RecordCells(madeOf.record), plan |-> PlanCells(madeOf.plan), pack |-> madeOf.pack]
    BY DEF Put
  <1>6. QED  BY <1>1, <1>2, <1>3, <1>4, <1>5 DEF ReadsBackAsPut, info

ZipInfo(info) ==
    /\ info.kind = "zip" /\ {"kind", "entries"} \subseteq DOMAIN info
    /\ \E seal : seal.folder = "seal" /\ info.entries \in Seq(AppEntries \cup {seal})

LEMMA ZipIconIs ==
    ASSUME NEW info, ZipInfo(info), NEW icon \in DOMAIN Icons \cup {"none"}
    PROVE  ZipInfo(SetIcon(info, icon))
  <1>1. CASE icon = "none"
    BY <1>1 DEF SetIcon
  <1>2. CASE icon # "none"
    <2>1. PICK seal : seal.folder = "seal" /\ info.entries \in Seq(AppEntries \cup {seal})
      BY DEF ZipInfo
    <2> DEFINE R == AppEntries \cup {seal}
               P == {k \in DOMAIN info.entries : info.entries[k].name # "AppIcon.icns"}
               e == Entry_("Resources", "AppIcon.icns", CellsOf("icon", icon, Icons[icon]))
               entries == Append(Where(info.entries, P), e)
    <2>2. e \in R
      <3>1. icon \in Things /\ Icons[icon] \in Nat
        BY <1>2, InstallerFileAssumption DEF Things, Sizes
      <3>2. CellsOf("icon", icon, Icons[icon]) \in Seq(Cell)
        BY <3>1, CellsAre
      <3>3. e \in OtherEntries
        BY <3>2 DEF Entry_, OtherEntries
      <3>4. QED  BY <3>3 DEF AppEntries
    <2>3. SetIcon(info, icon) = [info EXCEPT !.entries = entries]
      BY <1>2 DEF SetIcon, SetMacIcon, ZipInfo
    <2> HIDE DEF R, P, e
    <2>4. Where(info.entries, P) \in Seq(R)
      <3>1. info.entries \in Seq(R)
        BY <2>1 DEF R
      <3>2. QED  BY <3>1, WhereIs DEF PassedOn
    <2>5. entries \in Seq(R)
      BY <2>2, <2>4, AppendProperties
    <2> HIDE DEF entries
    <2>6. [info EXCEPT !.entries = entries].kind = "zip" /\ [info EXCEPT !.entries = entries].entries = entries
          /\ {"kind", "entries"} \subseteq DOMAIN [info EXCEPT !.entries = entries]
      BY DEF ZipInfo
    <2>7. QED  BY <2>1, <2>3, <2>5, <2>6 DEF ZipInfo, R
  <1>3. QED  BY <1>1, <1>2

LEMMA ZipIsMade ==
    ASSUME NEW m \in MadeSet, NEW info, ZipInfo(info), NEW writer,
           NEW f \in WriteBy(writer, info, RecordCells(m.record), PlanCells(m.plan), m.pack)
    PROVE  ZipFile(f, m)
  <1>1. f = [kind |-> "zip", entries |-> Copied(info.entries) \o Kept(m)]
    BY DEF WriteBy, ZipInfo, WriteMacZip, Kept
  <1>2. PICK seal : seal.folder = "seal" /\ info.entries \in Seq(AppEntries \cup {seal})
    BY DEF ZipInfo
  <1> DEFINE R == AppEntries \cup {seal}
             es == info.entries
             P == {k \in DOMAIN es : es[k].folder \notin {"ti", "seal"}}
             others == Copied(es)
  <1>3. others = Where(es, P) /\ es \in Seq(R)
    BY <1>2 DEF Copied
  <1>4. \A x \in R : x.folder \notin {"ti", "seal"} => x \in OtherEntries
    BY <1>2 DEF AppEntries, TiEntries
  <1>5. /\ Where(es, P) \in Seq(R) /\ DOMAIN Where(es, P) = 1..Len(Where(es, P)) /\ Len(Where(es, P)) \in Nat
        /\ \A j \in DOMAIN Where(es, P) : \E k \in P : k \in DOMAIN es /\ Where(es, P)[j] = es[k]
    <2> HIDE DEF R, P, es
    <2>1. PassedOn(R, es, P)
      BY <1>3, WhereIs
    <2>2. Where(es, P) \in Seq(R)
      BY <2>1 DEF PassedOn
    <2>3. QED  BY <2>1, <2>2 DEF PassedOn
  <1>6. others \in Seq(OtherEntries)
    <2>1. ASSUME NEW j \in 1..Len(others) PROVE others[j] \in OtherEntries
      <3>1. PICK k \in P : k \in DOMAIN es /\ others[j] = es[k]
        BY <1>3, <1>5
      <3>2. es[k] \in R /\ es[k].folder \notin {"ti", "seal"}
        BY <1>3, <3>1
      <3>3. QED  BY <1>4, <3>1, <3>2
    <2>2. others \in Seq(R) /\ Len(others) \in Nat
      BY <1>3, <1>5
    <2> HIDE DEF others, R
    <2>3. others = [j \in 1..Len(others) |-> others[j]]
      BY <2>2
    <2>4. QED  BY <2>1, <2>2, <2>3
  <1>7. f.entries = AppOf(others, Kept(m), <<>>)
    <2>1. f.entries = others \o Kept(m)
      BY <1>1
    <2>2. others \o Kept(m) \in Seq(AppEntries)
      <3>1. OtherEntries \subseteq AppEntries /\ TiEntries \subseteq AppEntries
        BY DEF AppEntries
      <3>2. others \in Seq(AppEntries) /\ Kept(m) \in Seq(AppEntries)
        <4> HIDE DEF others
        <4>1. Kept(m) \in Seq(TiEntries)
          BY KeptIs
        <4>2. QED  BY <1>6, <3>1, <4>1, SeqMonotonic
      <3> HIDE DEF others
      <3>3. QED  BY <3>2, RowIs
    <2> HIDE DEF others
    <2>3. (others \o Kept(m)) \o <<>> = others \o Kept(m)
      BY <2>2, ConcatEmptySeq
    <2>4. QED  BY <2>1, <2>3 DEF AppOf, Cat
  <1>8. f = [kind |-> "zip", entries |-> f.entries]
    BY <1>1
  <1> HIDE DEF others
  <1>9. QED  BY <1>6, <1>7, <1>8 DEF ZipFile

LEMMA ZipIsSealed ==
    ASSUME NEW m \in MadeSet, NEW f, ZipFile(f, m), InFolder(f.entries, "seal") = <<>>
    PROVE  ZipFile([f EXCEPT !.entries = Sealed(@)], m)
  <1>1. PICK others \in Seq(OtherEntries) : f.entries = Cat(others, Kept(m))
    BY ZipFileIs
  <1> DEFINE body == Cat(others, Kept(m))
             seal == SealOf(body)
             g == [f EXCEPT !.entries = Sealed(@)]
  <1>2. f = [kind |-> "zip", entries |-> body]
    BY <1>1 DEF ZipFile
  <1>3. g = [kind |-> "zip", entries |-> Append(body, seal)]
    <2>1. Sealed(body) = Append(body, seal)
      BY DEF Sealed, SealOf
    <2> HIDE DEF body, seal
    <2>2. f.entries = body
      BY <1>2
    <2>3. g = [f EXCEPT !.entries = Append(body, seal)]
      BY <2>1, <2>2
    <2> DEFINE entries == Append(body, seal)
    <2> HIDE DEF g, entries
    <2>4. [[kind |-> "zip", entries |-> body] EXCEPT !.entries = entries] = [kind |-> "zip", entries |-> entries]
      OBVIOUS
    <2>5. QED  BY <1>2, <2>3, <2>4 DEF entries
  <1>4. body \in Seq(AppEntries)
    <2>1. OtherEntries \subseteq AppEntries /\ TiEntries \subseteq AppEntries
      BY DEF AppEntries
    <2>2. others \in Seq(OtherEntries) /\ Kept(m) \in Seq(TiEntries)
      BY KeptIs
    <2>3. others \in Seq(AppEntries) /\ Kept(m) \in Seq(AppEntries)
      BY <2>1, <2>2, SeqMonotonic
    <2>4. others \o Kept(m) \in Seq(AppEntries)
      BY <2>3, RowIs
    <2>5. QED  BY <2>4 DEF Cat
  <1> HIDE DEF body, seal, g
  <1>5. Append(body, seal) = body \o << seal >>
    <2> DEFINE S == AppEntries \cup {seal}
    <2>1. AppEntries \subseteq S /\ seal \in S
      OBVIOUS
    <2> HIDE DEF S
    <2>2. body \in Seq(S)
      BY <1>4, <2>1, SeqMonotonic
    <2>3. QED  BY <2>1, <2>2, AppendIsConcat
  <1>6. g.entries = AppOf(others, Kept(m), << seal >>)
    BY <1>3, <1>5 DEF AppOf, body, Cat
  <1>7. g = [kind |-> "zip", entries |-> g.entries]
    BY <1>3
  <1>8. QED  BY <1>6, <1>7 DEF ZipFile, seal, body, g

(***************************************************************************)
(* InstallerFile. Any file, and what happens to it                         *)
(***************************************************************************)
KindOf(m) == Programs[m.program].kind

\* A file that holds what m says it was made of.
FileOf(f, m) ==
    /\ m \in MadeSet /\ f.kind = KindOf(m)
    /\ \/ KindOf(m) = "exe" /\ ExeFile(f, m)
       \/ KindOf(m) = "run" /\ f = Run(Written(m))
       \/ KindOf(m) = "zip" /\ ZipFile(f, m)
FileInv == installer = NoFile \/ FileOf(installer, madeOf)

\* What a file is written from: a base, or what was read of a file.
InfoFor(info, m) ==
    /\ info.kind = KindOf(m)
    /\ KindOf(m) = "exe" => ExeInfo(info, m)
    /\ KindOf(m) = "run" => RunInfo(info, m)
    /\ KindOf(m) = "zip" => ZipInfo(info)

LEMMA KindIs ==
    ASSUME NEW m \in MadeSet
    PROVE  KindOf(m) \in {"exe", "run", "zip"}
  BY ProgramIs DEF KindOf

LEMMA FileIsRead ==
    ASSUME NEW f, NEW m, FileOf(f, m)
    PROVE  LET info == ReadBack(f) IN
           /\ InfoFor(info, m) /\ info.kind = KindOf(m)
           /\ info.record = Put(m).record /\ info.plan = Put(m).plan /\ info.pack = Put(m).pack
  <1>1. m \in MadeSet /\ KindOf(m) \in {"exe", "run", "zip"}
    BY KindIs DEF FileOf
  <1>2. CASE KindOf(m) = "exe"
    <2>1. Programs[m.program].kind = "exe" /\ ExeFile(f, m)
      BY <1>2 DEF FileOf, KindOf
    <2>2. PICK k \in Paddings(m) : ExeAt(f, m, k)
      BY <1>1, <2>1, ExeFileIs
    <2>3. LET info == ReadBack(f) IN
          ExeInfo(info, m) /\ info.record = Put(m).record /\ info.plan = Put(m).plan /\ info.pack = Put(m).pack
      BY <1>1, <2>1, <2>2, ExeIsRead
    <2>4. QED  BY <1>2, <2>3 DEF InfoFor, ExeInfo
  <1>3. CASE KindOf(m) = "run"
    <2>1. Programs[m.program].kind = "run" /\ f = Run(Written(m))
      BY <1>3 DEF FileOf, KindOf
    <2>2. LET info == ReadBack(f) IN
          RunInfo(info, m) /\ info.record = Put(m).record /\ info.plan = Put(m).plan /\ info.pack = Put(m).pack
      BY <1>1, <2>1, RunIsRead
    <2>3. QED  BY <1>3, <2>2 DEF InfoFor, RunInfo
  <1>4. CASE KindOf(m) = "zip"
    <2>1. ZipFile(f, m)
      BY <1>4 DEF FileOf
    <2>2. LET info == ReadBack(f) IN
          /\ info.kind = "zip" /\ info.entries = f.entries /\ {"kind", "entries"} \subseteq DOMAIN info
          /\ info.record = Put(m).record /\ info.plan = Put(m).plan /\ info.pack = Put(m).pack
      BY <1>1, <2>1, ZipReading
    <2>3. \E seal : seal.folder = "seal" /\ f.entries \in Seq(AppEntries \cup {seal})
      BY <1>1, <2>1, ZipFileIs
    <2>4. ZipInfo(ReadBack(f))
      BY <2>2, <2>3 DEF ZipInfo
    <2>5. QED  BY <1>4, <2>2, <2>4 DEF InfoFor
  <1>5. QED  BY <1>1, <1>2, <1>3, <1>4

\* With another icon, which on Linux the record names.
LEMMA IconIsSet ==
    ASSUME NEW m \in MadeSet, NEW m2 \in MadeSet, m2.program = m.program,
           NEW icon \in DOMAIN Icons \cup {"none"}, KindOf(m) = "exe" => m2.icon = IF icon = "none" THEN m.icon ELSE icon,
           NEW info, InfoFor(info, m)
    PROVE  /\ InfoFor(SetIcon(info, icon), m2)
           /\ KindOf(m) = "exe" /\ info.table = NoTable => SetIcon(info, icon).table = NoTable
  <1>1. KindOf(m) \in {"exe", "run", "zip"} /\ KindOf(m2) = KindOf(m)
    BY KindIs DEF KindOf
  <1>2. CASE KindOf(m) = "exe"
    <2>1. Programs[m.program].kind = "exe" /\ ExeInfo(info, m)
      BY <1>2 DEF InfoFor, KindOf
    <2>2. /\ ExeInfo(SetIcon(info, icon), m2)
          /\ info.table = NoTable => SetIcon(info, icon).table = NoTable
      BY <1>2, <2>1, ExeIconIs
    <2>3. QED  BY <1>1, <1>2, <2>2 DEF InfoFor, ExeInfo
  <1>3. CASE KindOf(m) = "run"
    <2>1. Programs[m.program].kind = "run" /\ RunInfo(info, m)
      BY <1>3 DEF InfoFor, KindOf
    <2>2. RunInfo(SetIcon(info, icon), m2)
      BY <2>1, RunIconIs
    <2>3. QED  BY <1>1, <1>3, <2>2 DEF InfoFor, RunInfo
  <1>4. CASE KindOf(m) = "zip"
    <2>1. ZipInfo(SetIcon(info, icon))
      BY <1>4, ZipIconIs DEF InfoFor
    <2>2. QED  BY <1>1, <1>4, <2>1 DEF InfoFor, ZipInfo
  <1>5. QED  BY <1>1, <1>2, <1>3, <1>4

LEMMA FileIsMade ==
    ASSUME NEW m \in MadeSet, NEW info, InfoFor(info, m), NEW writer,
           writer = "stream" /\ KindOf(m) = "exe" => info.table = NoTable,
           NEW f \in WriteBy(writer, info, RecordCells(m.record), PlanCells(m.plan), m.pack)
    PROVE  FileOf(f, m)
  <1>1. KindOf(m) \in {"exe", "run", "zip"}
    BY KindIs
  <1>2. CASE KindOf(m) = "exe"
    <2>1. Programs[m.program].kind = "exe" /\ ExeInfo(info, m)
      BY <1>2 DEF InfoFor, KindOf
    <2>2. ExeFile(f, m)
      BY <1>2, <2>1, ExeIsMade
    <2>3. f.kind = "exe"
      BY <2>2 DEF ExeFile, Pe
    <2>4. QED  BY <1>2, <2>2, <2>3 DEF FileOf
  <1>3. CASE KindOf(m) = "run"
    <2>1. RunInfo(info, m)
      BY <1>3 DEF InfoFor
    <2>2. f = Run(Written(m))
      BY <2>1, RunIsWritten DEF Written
    <2>3. f.kind = "run"
      BY <2>2 DEF Run
    <2>4. QED  BY <1>3, <2>2, <2>3 DEF FileOf
  <1>4. CASE KindOf(m) = "zip"
    <2>1. ZipFile(f, m)
      BY <1>4, ZipIsMade DEF InfoFor
    <2>2. f.kind = "zip"
      BY <2>1 DEF ZipFile
    <2>3. QED  BY <1>4, <2>1, <2>2 DEF FileOf
  <1>5. QED  BY <1>1, <1>2, <1>3, <1>4

LEMMA BaseIsRead ==
    ASSUME NEW m \in MadeSet, m.icon = "none"
    PROVE  InfoFor(InfoOf(m.program), m) /\ (KindOf(m) = "exe" => InfoOf(m.program).table = NoTable)
  <1> DEFINE info == InfoOf(m.program)
  <1>1. /\ info.kind = KindOf(m)
        /\ KindOf(m) = "exe" => ExeInfo(info, m) /\ info.table = NoTable
        /\ KindOf(m) = "run" => RunInfo(info, m)
        /\ KindOf(m) = "zip" => info = [kind |-> "zip", entries |-> Sealed(<< Entry_("MacOS", "program", ProgramCells(m)) >>)]
    BY InfoIs DEF KindOf
  <1>2. ASSUME KindOf(m) = "zip" PROVE ZipInfo(info)
    <2> DEFINE program == Entry_("MacOS", "program", ProgramCells(m))
               seal == SealOf(<< program >>)
               R == AppEntries \cup {seal}
               entries == Append(<< program >>, seal)
    <2>1. info = [kind |-> "zip", entries |-> entries]
      BY <1>1, <1>2 DEF Sealed, SealOf
    <2>2. seal.folder = "seal" /\ seal \in R
      BY DEF SealOf, Entry_
    <2>3. program \in R
      <3>1. ProgramCells(m) \in Seq(Cell)
        BY ProgramIs
      <3>2. program \in OtherEntries
        BY <3>1 DEF Entry_, OtherEntries
      <3>3. QED  BY <3>2 DEF AppEntries
    <2>4. entries \in Seq(R)
      <3> HIDE DEF R, seal, program
      <3>1. QED  BY <2>2, <2>3
    <2>5. info.kind = "zip" /\ info.entries = entries /\ {"kind", "entries"} \subseteq DOMAIN info
      <3> HIDE DEF entries, info
      <3>1. QED  BY <2>1
    <2>6. QED
      <3> HIDE DEF entries, info, seal
      <3>1. QED  BY <2>2, <2>4, <2>5 DEF ZipInfo
  <1> HIDE DEF info
  <1>3. QED  BY <1>1, <1>2 DEF InfoFor, info

LEMMA PacksAre == Packs \subseteq Seq(MemberSet)
  <1> SUFFICES ASSUME NEW pack \in Packs PROVE pack \in Seq(MemberSet)
    OBVIOUS
  <1>1. PICK some \in SUBSET DOMAIN Members : pack = [i \in DOMAIN SetToSeq(some) |-> Member(SetToSeq(some)[i])]
    BY DEF Packs
  <1> DEFINE names == SetToSeq(some)
             n == Cardinality(some)
  <1>2. n \in Nat /\ ExistsBijection(1..n, some)
    <2>1. IsFiniteSet(some)
      BY <1>1, FS_Subset, InstallerFileAssumption
    <2>2. QED  BY <2>1, FS_CardinalityType
  <1>3. \E g \in [1..n -> some] : IsInjective(g)
    BY <1>2 DEF ExistsBijection, Bijection, Injection
  <1>4. names \in [1..n -> some]
    BY <1>3 DEF SetToSeq
  <1> HIDE DEF names, n
  <1>5. pack = [i \in 1..n |-> Member(names[i])]
    BY <1>1, <1>4 DEF names
  <1>6. \A i \in 1..n : Member(names[i]) \in MemberSet
    BY <1>1, <1>4 DEF MemberSet
  <1>7. QED  BY <1>2, <1>5, <1>6

LEMMA PlansAre ==
    ASSUME NEW record \in DOMAIN Records
    PROVE  PlansFor(record) \subseteq PlanSet
  BY DEF PlansFor, PlanSet

LEMMA BuildingKeeps ==
    ASSUME NEW record \in DOMAIN Records, NEW writer, NEW program \in DOMAIN Programs, NEW icon \in DOMAIN Icons \cup {"none"},
           NEW plan \in PlansFor(record), NEW pack \in Packs, BuildFile(writer, program, icon, record, plan, pack)
    PROVE  FileOf(installer', madeOf')
  <1> DEFINE m == [program |-> program, icon |-> icon, record |-> record, plan |-> plan, pack |-> pack]
             bare == [program |-> program, icon |-> "none", record |-> record, plan |-> plan, pack |-> pack]
             info == InfoOf(program)
             set == SetIcon(info, icon)
  <1>1. plan \in PlanSet /\ pack \in Seq(MemberSet)
    BY PlansAre, PacksAre
  <1>2. m \in MadeSet /\ bare \in MadeSet
    BY <1>1 DEF MadeSet
  <1>3. m.program = program /\ bare.program = program /\ bare.icon = "none" /\ KindOf(m) = KindOf(bare)
        /\ (m.icon = IF icon = "none" THEN bare.icon ELSE icon)
    BY DEF KindOf
  <1>4. InfoFor(info, bare) /\ (KindOf(bare) = "exe" => info.table = NoTable)
    <2> HIDE DEF bare
    <2>1. QED  BY <1>2, <1>3, BaseIsRead
  <1>5. InfoFor(set, m) /\ (KindOf(m) = "exe" => set.table = NoTable)
    <2> HIDE DEF m, bare, info
    <2>1. QED  BY <1>2, <1>3, <1>4, IconIsSet
  <1>6. installer' \in WriteBy(writer, set, RecordCells(m.record), PlanCells(m.plan), m.pack) /\ madeOf' = m
    BY DEF BuildFile
  <1> HIDE DEF m, set
  <1>7. QED  BY <1>2, <1>5, <1>6, FileIsMade

LEMMA EditingKeeps ==
    ASSUME FileOf(installer, madeOf), NEW icon \in DOMAIN Icons \cup {"none"}, NEW record \in DOMAIN Records,
           NEW body \in DOMAIN Bodies \cup {"none"}, NEW pack \in {"kept", "none"}, SaveEdited(icon, record, body, pack)
    PROVE  FileOf(installer', madeOf')
  <1> DEFINE m == madeOf
             info == ReadBack(installer)
             old == ThingIn(info.plan, NoPlan)
             typed == IF body = old.body THEN old
                      ELSE IF body = "none" THEN NoPlan
                      ELSE [body |-> body, of |-> record, signed |-> old.signed]
             plan == Rebind(typed, record, typed # old)
             files == IF pack = "kept" THEN info.pack ELSE <<>>
             set == SetIcon(info, icon)
             m2 == [m EXCEPT !.icon = IF icon = "none" \/ info.kind = "run" THEN @ ELSE icon,
                             !.record = record, !.plan = plan, !.pack = IF pack = "kept" THEN @ ELSE <<>>]
  <1>1. /\ InfoFor(info, m) /\ info.kind = KindOf(m)
        /\ info.plan = PlanCells(m.plan) /\ info.pack = m.pack
    <2>1. LET read == ReadBack(installer) IN
          /\ InfoFor(read, m) /\ read.kind = KindOf(m) /\ read.plan = Put(m).plan /\ read.pack = Put(m).pack
      BY FileIsRead
    <2>2. QED  BY <2>1 DEF Put
  <1>2. m \in MadeSet /\ m.plan \in PlanSet /\ m.pack \in Seq(MemberSet) /\ m.icon \in DOMAIN Icons \cup {"none"}
        /\ m.program \in DOMAIN Programs
    BY DEF FileOf, MadeSet
  <1>3. old \in PlanSet
    <2>1. NoPlan \in PlanSet
      BY DEF PlanSet
    <2>2. PlanCells(m.plan) # <<>> => Head(PlanCells(m.plan)).of = m.plan
      BY <1>2, PlanCellsAre
    <2>3. QED  BY <1>1, <1>2, <2>1, <2>2 DEF ThingIn
  <1> HIDE DEF old
  <1>4. typed \in PlanSet
    <2>1. old.signed \in BOOLEAN
      <3>1. CASE old = NoPlan
        BY <3>1 DEF NoPlan
      <3>2. CASE old \in [body : DOMAIN Bodies, of : DOMAIN Records, signed : BOOLEAN]
        BY <3>2
      <3>3. QED  BY <1>3, <3>1, <3>2 DEF PlanSet
    <2>2. QED  BY <1>3, <2>1 DEF PlanSet
  <1> HIDE DEF typed
  <1>5. plan \in PlanSet
    BY <1>4 DEF PlanSet, Rebind
  <1>6. installer' \in WriteBy("page", set, RecordCells(record), PlanCells(plan), files) /\ madeOf' = m2
    BY DEF SaveEdited, old, typed
  <1> HIDE DEF plan, info
  <1> DEFINE new == IF icon = "none" \/ info.kind = "run" THEN m.icon ELSE icon
             left == IF pack = "kept" THEN m.pack ELSE <<>>
  <1>7. m2 = [program |-> m.program, icon |-> new, record |-> record, plan |-> plan, pack |-> left]
    <2>1. m2 = [m EXCEPT !.icon = new, !.record = record, !.plan = plan, !.pack = left]
      OBVIOUS
    <2> HIDE DEF m, m2, new, left
    <2>2. QED  BY <1>2, <2>1 DEF MadeSet
  <1>8. new \in DOMAIN Icons \cup {"none"} /\ left \in Seq(MemberSet)
    BY <1>2
  <1>9. m2 \in MadeSet /\ m2.program = m.program /\ m2.icon = new /\ m2.record = record /\ m2.plan = plan /\ m2.pack = left
    <2> HIDE DEF m2, new, left
    <2>1. QED  BY <1>2, <1>5, <1>7, <1>8 DEF MadeSet
  <1>10. KindOf(m) = "exe" => m2.icon = IF icon = "none" THEN m.icon ELSE icon
    <2> HIDE DEF m2
    <2>1. QED  BY <1>1, <1>9
  <1>11. InfoFor(set, m2)
    <2> HIDE DEF m2, new
    <2>1. QED  BY <1>1, <1>2, <1>9, <1>10, IconIsSet
  <1>12. installer' \in WriteBy("page", set, RecordCells(m2.record), PlanCells(m2.plan), m2.pack)
    <2>1. files = left
      BY <1>1
    <2> HIDE DEF m2, files, left, set
    <2>2. QED  BY <1>6, <1>9, <2>1
  <1> HIDE DEF m2, set
  <1>13. QED  BY <1>6, <1>9, <1>11, <1>12, FileIsMade

\* The kind of a file is that of the program in it.
LEMMA KindTells ==
    ASSUME NEW f, NEW m, FileOf(f, m)
    PROVE  /\ m \in MadeSet /\ f # NoFile
           /\ f.kind = "exe" => Programs[m.program].kind = "exe" /\ ExeFile(f, m)
           /\ f.kind = "run" => Programs[m.program].kind = "run" /\ f = Run(Written(m))
           /\ f.kind = "zip" => ZipFile(f, m)
           /\ f.kind \in {"exe", "run", "zip"}
  <1>1. m \in MadeSet /\ KindOf(m) \in {"exe", "run", "zip"} /\ f.kind = KindOf(m)
    BY KindIs DEF FileOf
  <1>2. NoFile.kind = "none"
    BY DEF NoFile
  <1>3. QED  BY <1>1, <1>2 DEF FileOf, KindOf

LEMMA SigningKeeps ==
    ASSUME FileOf(installer, madeOf), installer.kind = "exe", NEW sig, NEW stamp, Sign(sig, stamp)
    PROVE  FileOf(installer', madeOf')
  <1>1. madeOf \in MadeSet /\ Programs[madeOf.program].kind = "exe" /\ ExeFile(installer, madeOf)
    BY KindTells
  <1>2. installer' \in FinishPE(installer, UnsignedPE(installer), sig, stamp) /\ madeOf' = madeOf
    BY DEF Sign
  <1>3. ExeFile(installer', madeOf)
    BY <1>1, <1>2, ExeIsSigned
  <1>4. installer'.kind = "exe"
    BY <1>3 DEF ExeFile, Pe
  <1>5. QED  BY <1>1, <1>2, <1>3, <1>4 DEF FileOf, KindOf

LEMMA StrippingKeeps ==
    ASSUME FileOf(installer, madeOf), Strip
    PROVE  FileOf(installer', madeOf')
  <1> DEFINE cells == SubSeq(installer.cells, 1, installer.table.at)
  <1>1. installer.kind = "exe" /\ installer.table # NoTable /\ madeOf' = madeOf
        /\ installer' = Pe(installer.secs, NoTable, Renewed(installer.sum, installer.secs, NoTable, cells), cells)
    BY DEF Strip
  <1>2. madeOf \in MadeSet /\ Programs[madeOf.program].kind = "exe" /\ ExeFile(installer, madeOf)
    BY <1>1, KindTells
  <1>3. ExeFile(installer', madeOf)
    BY <1>1, <1>2, ExeIsStripped
  <1>4. installer'.kind = "exe"
    BY <1>3 DEF ExeFile, Pe
  <1>5. QED  BY <1>1, <1>2, <1>3, <1>4 DEF FileOf, KindOf

LEMMA SealingKeeps ==
    ASSUME FileOf(installer, madeOf), Seal
    PROVE  FileOf(installer', madeOf')
  <1>1. installer.kind = "zip" /\ InFolder(installer.entries, "seal") = <<>> /\ madeOf' = madeOf
        /\ installer' = [installer EXCEPT !.entries = Sealed(@)]
    BY DEF Seal
  <1>2. madeOf \in MadeSet /\ ZipFile(installer, madeOf) /\ KindOf(madeOf) = "zip"
    BY <1>1, KindTells DEF FileOf
  <1>3. ZipFile(installer', madeOf)
    BY <1>1, <1>2, ZipIsSealed
  <1>4. installer'.kind = "zip"
    BY <1>3 DEF ZipFile
  <1>5. QED  BY <1>1, <1>2, <1>3, <1>4 DEF FileOf

LEMMA LivingKeeps ==
    ASSUME FileInv, NextFile
    PROVE  FileInv'
  <1>1. CASE /\ installer = NoFile
             /\ \E record \in DOMAIN Records :
                   \E writer \in {"server", "page", "stream"}, program \in DOMAIN Programs, icon \in DOMAIN Icons \cup {"none"},
                      plan \in PlansFor(record), pack \in Packs : BuildFile(writer, program, icon, record, plan, pack)
    BY <1>1, BuildingKeeps DEF FileInv
  <1>2. CASE /\ Lived /\ installer # NoFile
             /\ \E icon \in DOMAIN Icons \cup {"none"}, record \in DOMAIN Records, body \in DOMAIN Bodies \cup {"none"},
                   pack \in {"kept", "none"} : SaveEdited(icon, record, body, pack)
    BY <1>2, EditingKeeps DEF FileInv
  <1>3. CASE /\ Lived /\ installer # NoFile /\ installer.kind = "exe"
             /\ \E sig \in Signatures, stamp \in Stamps \cup {NoStamp} : Sign(sig, stamp)
    BY <1>3, SigningKeeps DEF FileInv
  <1>4. CASE Strip
    BY <1>4, StrippingKeeps DEF FileInv, Strip
  <1>5. CASE Seal
    BY <1>5, SealingKeeps DEF FileInv, Seal
  <1>6. QED  BY <1>1, <1>2, <1>3, <1>4, <1>5 DEF NextFile

LEMMA FileInvSays == ASSUME FileInv PROVE ReadsBackAsPut
  <1>1. CASE installer = NoFile
    BY <1>1 DEF ReadsBackAsPut
  <1>2. CASE FileOf(installer, madeOf)
    <2>1. /\ madeOf \in MadeSet /\ installer.kind \in {"exe", "run", "zip"}
          /\ installer.kind = "exe" => Programs[madeOf.program].kind = "exe" /\ ExeFile(installer, madeOf)
          /\ installer.kind = "run" => Programs[madeOf.program].kind = "run" /\ installer = Run(Written(madeOf))
          /\ installer.kind = "zip" => ZipFile(installer, madeOf)
      BY <1>2, KindTells
    <2>2. CASE installer.kind = "exe"
      BY <2>1, <2>2, ExeReadsBack
    <2>3. CASE installer.kind = "run"
      BY <2>1, <2>3, RunReadsBack
    <2>4. CASE installer.kind = "zip"
      BY <2>1, <2>4, ZipReadsBack
    <2>5. QED  BY <2>1, <2>2, <2>3, <2>4
  <1>3. QED  BY <1>1, <1>2 DEF FileInv

\* The life of an installer, however long it is: built by the server, by the
\* page or by the page as a stream, edited, given another icon, signed,
\* stripped of a signature and sealed, it stays a file of the program it was
\* made of, of one icon of ours, of the record, the plan and the packed
\* files put in last, of no more padding than a signature asked for, and of
\* a signature or a seal of just that (FileInv). The block the program
\* writes is found again behind the program for every base, icon, record,
\* plan and packed file, whatever room they take.
THEOREM FilesStayGood == SpecFile => []FileInv
  <1>1. InitFile => FileInv
    BY DEF InitFile, FileInv
  <1>2. FileInv /\ [NextFile]_fileVars => FileInv'
    <2>1. ASSUME FileInv, NextFile PROVE FileInv'
      BY <2>1, LivingKeeps
    <2>2. ASSUME FileInv, UNCHANGED fileVars PROVE FileInv'
      BY <2>2 DEF FileInv, fileVars
    <2>3. QED  BY <2>1, <2>2
  <1>3. QED  BY <1>1, <1>2, PTL DEF SpecFile

\* So every reader of an installer finds what was put into it last: the
\* page and the installer on Windows look for the block in front of a
\* signature and its padding, the one on Linux at the very end, the one on a
\* mac among the files of the app (readInstaller, base.nsi, ti-engine.sh);
\* its checksum, signature or seal is of the file as it is
\* (ReadsBackAsPut).
THEOREM InstallersReadBack == SpecFile => []ReadsBackAsPut
  <1>1. FileInv => ReadsBackAsPut
    BY FileInvSays
  <1>2. QED  BY <1>1, FilesStayGood, PTL
=============================================================================
