---------------------------- MODULE GatewayProofs ---------------------------
(***************************************************************************)
(* What egw_app_run promises of the configuration it works with, for every *)
(* database, every change another process commits and every failure.       *)
(***************************************************************************)
EXTENDS Gateway, FiniteSetTheorems, WellFoundedInduction, TLAPS

(* The least-number principle, which stands in for induction. *)
LEMMA LeastNumber ==
    ASSUME NEW T, T \subseteq Nat, T /= {}
    PROVE  \E x \in T : \A y \in T : x <= y
<1> DEFINE R == OpToRel(<, Nat)
<1>1. IsWellFoundedOn(R, Nat)
  BY NatLessThanWellFounded
<1>2. \A x, y \in Nat : x < y => <<x, y>> \in R
  BY DEF OpToRel
<1> HIDE DEF R
<1>3. PICK x \in T : \A y \in T : ~(<<y, x>> \in R)
  BY <1>1, WFMin
<1>4. \A y \in T : y \in Nat
  OBVIOUS
<1>5. \A y \in T : ~(y < x)
  BY <1>2, <1>3
<1>6. \A y \in T : x <= y
  BY <1>4, <1>5
<1> QED BY <1>6

-----------------------------------------------------------------------------
(* ORDER BY: a table can be put in order, and nothing is lost by it. *)

(* key_less is a strict total order. *)
LEMMA KeyOrder ==
    ASSUME NEW a \in Rows, NEW b \in Rows, NEW c \in Rows
    PROVE  /\ ~key_less(a, a)
           /\ key_less(a, b) => ~key_less(b, a)
           /\ key_less(a, b) /\ key_less(b, c) => key_less(a, c)
           /\ ~key_less(a, b) /\ ~key_less(b, a) => a = b
BY DEF Rows, key_less

(* Every table has a permutation that puts it in order: its last row is    *)
(* inserted before the first greater one of the others in order.           *)
LEMMA CanBeOrdered ==
    ASSUME NEW n \in Nat, NEW rows \in [1..n -> Rows]
    PROVE  \E p \in Orders(rows) : InOrder(Permuted(rows, p))
<1> DEFINE Onto(m, p) == /\ \A i, j \in 1..m : p[i] = p[j] => i = j
                         /\ \A i \in 1..m : \E j \in 1..m : p[j] = i
           Up(m, r, p) == \A i, j \in 1..m : i < j => ~key_less(r[p[j]], r[p[i]])
           Sortable(m) == \A r \in [1..m -> Rows] :
                            \E p \in [1..m -> 1..m] : Onto(m, p) /\ Up(m, r, p)
           T == {m \in Nat : ~Sortable(m)}
<1>1. T = {}
  <2> SUFFICES ASSUME T /= {} PROVE FALSE
    OBVIOUS
  <2> HIDE DEF Sortable
  <2>1. PICK m \in T : \A y \in T : m <= y
    <3>1. T \subseteq Nat
      OBVIOUS
    <3> HIDE DEF T
    <3> QED BY <3>1, LeastNumber
  <2>2. m \in Nat /\ ~Sortable(m)
    OBVIOUS
  <2>3. m /= 0
    <3>1. Sortable(0)
      <4> SUFFICES ASSUME NEW r \in [1..0 -> Rows]
                   PROVE \E p \in [1..0 -> 1..0] : Onto(0, p) /\ Up(0, r, p)
        BY DEF Sortable
      <4> DEFINE p0 == [i \in 1..0 |-> i]
      <4>1. p0 \in [1..0 -> 1..0] /\ Onto(0, p0) /\ Up(0, r, p0)
        OBVIOUS
      <4> QED BY <4>1
    <3> QED BY <2>2, <3>1
  <2>4. m - 1 \in Nat /\ Sortable(m - 1)
    BY <2>1, <2>2, <2>3
  <2> SUFFICES ASSUME NEW r \in [1..m -> Rows]
               PROVE  \E p \in [1..m -> 1..m] : Onto(m, p) /\ Up(m, r, p)
    BY <2>2 DEF Sortable
  <2> DEFINE cut == [i \in 1..(m - 1) |-> r[i]]
             x   == r[m]
  <2>5. cut \in [1..(m - 1) -> Rows]
    BY <2>2, <2>3
  <2>6. PICK q \in [1..(m - 1) -> 1..(m - 1)] : Onto(m - 1, q) /\ Up(m - 1, cut, q)
    BY <2>4, <2>5 DEF Sortable
  <2> DEFINE K == {k \in 1..m : k = m \/ key_less(x, r[q[k]])}
  <2>7. PICK k \in K : \A y \in K : k <= y
    <3>1. m \in K /\ K \subseteq Nat
      BY <2>2, <2>3
    <3> HIDE DEF K
    <3> QED BY <3>1, LeastNumber
  <2>8. k \in 1..m /\ (k = m \/ key_less(x, r[q[k]]))
    OBVIOUS
  <2>9. \A i \in 1..(m - 1) : i < k => ~key_less(x, r[q[i]])
    <3> SUFFICES ASSUME NEW i \in 1..(m - 1), i < k, key_less(x, r[q[i]]) PROVE FALSE
      OBVIOUS
    <3>1. i \in K
      BY <2>2
    <3> QED BY <3>1, <2>2, <2>7, <2>8
  <2>10. \A i \in 1..(m - 1) : r[q[i]] \in Rows /\ cut[q[i]] = r[q[i]] /\ q[i] \in 1..(m - 1)
    <3> SUFFICES ASSUME NEW i \in 1..(m - 1)
                 PROVE  r[q[i]] \in Rows /\ cut[q[i]] = r[q[i]] /\ q[i] \in 1..(m - 1)
      OBVIOUS
    <3>1. q[i] \in 1..(m - 1)
      OBVIOUS
    <3>2. q[i] \in 1..m
      BY <3>1, <2>2
    <3> QED BY <3>1, <3>2
  <2>11. x \in Rows
    BY <2>2, <2>3
  <2>12. \A i, j \in 1..(m - 1) : i < j => ~key_less(r[q[j]], r[q[i]])
    BY <2>6, <2>10
  <2>13. \A i \in 1..(m - 1) : k <= i => ~key_less(r[q[i]], x)
    <3> SUFFICES ASSUME NEW i \in 1..(m - 1), k <= i, key_less(r[q[i]], x)
                 PROVE  FALSE
      OBVIOUS
    <3>1. k \in 1..(m - 1) /\ k /= m
      BY <2>2, <2>8
    <3>2. key_less(x, r[q[k]])
      BY <2>8, <3>1
    <3>3. key_less(r[q[i]], r[q[k]])
      BY <3>1, <3>2, <2>10, <2>11, KeyOrder, SMTT(30)
    <3>4. k /= i
      BY <3>2, <2>10, <2>11, KeyOrder
    <3> QED BY <3>1, <3>3, <3>4, <2>2, <2>8, <2>12, SMTT(30)
  <2> HIDE DEF cut, K, x
  <2> DEFINE p == [i \in 1..m |-> IF i < k THEN q[i] ELSE IF i = k THEN m ELSE q[i - 1]]
  <2>14. \A i \in 1..m : /\ i < k => i \in 1..(m - 1) /\ p[i] = q[i]
                         /\ i = k => p[i] = m
                         /\ i > k => i - 1 \in 1..(m - 1) /\ p[i] = q[i - 1]
    BY <2>2, <2>3, <2>8
  <2>15. p \in [1..m -> 1..m]
    BY <2>2, <2>3, <2>8, <2>10
  <2> HIDE DEF p
  <2>16. \A i, j \in 1..m : p[i] = p[j] => i = j
    <3> SUFFICES ASSUME NEW i \in 1..m, NEW j \in 1..m, p[i] = p[j] PROVE i = j
      OBVIOUS
    <3>1. \A l \in 1..m : l /= k => p[l] /= m
      <4> SUFFICES ASSUME NEW l \in 1..m, l /= k PROVE p[l] /= m
        OBVIOUS
      <4>1. l < k \/ l > k
        BY <2>2, <2>8
      <4>2. p[l] \in 1..(m - 1)
        BY <4>1, <2>10, <2>14
      <4> QED BY <4>2, <2>2
    <3>2. CASE i = k \/ j = k
      BY <3>1, <3>2, <2>8, <2>14
    <3>3. CASE i /= k /\ j /= k
      <4> DEFINE spot(l) == IF l < k THEN l ELSE l - 1
      <4>1. spot(i) \in 1..(m - 1) /\ p[i] = q[spot(i)]
        BY <3>3, <2>2, <2>8, <2>14
      <4>2. spot(j) \in 1..(m - 1) /\ p[j] = q[spot(j)]
        BY <3>3, <2>2, <2>8, <2>14
      <4>3. spot(i) = spot(j)
        <5> HIDE DEF spot
        <5> QED BY <4>1, <4>2, <2>6
      <4> QED BY <4>3, <3>3, <2>2, <2>8, SMTT(30)
    <3> QED BY <3>2, <3>3
  <2>17. \A i \in 1..m : \E j \in 1..m : p[j] = i
    <3> SUFFICES ASSUME NEW i \in 1..m PROVE \E j \in 1..m : p[j] = i
      OBVIOUS
    <3>1. CASE i = m
      BY <3>1, <2>8, <2>14
    <3>2. CASE i /= m
      <4>1. PICK j \in 1..(m - 1) : q[j] = i
        BY <3>2, <2>2, <2>6
      <4>2. CASE j < k
        <5>1. j \in 1..m
          BY <2>2
        <5> QED BY <4>1, <4>2, <5>1, <2>14
      <4>3. CASE ~(j < k)
        <5>1. PICK l \in 1..m : l > k /\ l - 1 = j
          <6>1. j + 1 \in 1..m /\ j + 1 > k /\ (j + 1) - 1 = j
            BY <4>3, <2>2, <2>8
          <6> QED BY <6>1
        <5>2. p[l] = q[l - 1]
          BY <5>1, <2>14
        <5>3. p[l] = i
          BY <4>1, <5>1, <5>2
        <5> QED BY <5>1, <5>3
      <4> QED BY <4>2, <4>3
    <3> QED BY <3>1, <3>2
  <2>18. Up(m, r, p)
    <3> SUFFICES ASSUME NEW i \in 1..m, NEW j \in 1..m, i < j
                 PROVE  ~key_less(r[p[j]], r[p[i]])
      OBVIOUS
    <3>1. CASE j < k
      <4>1. i \in 1..(m - 1) /\ j \in 1..(m - 1) /\ p[i] = q[i] /\ p[j] = q[j]
        BY <3>1, <2>2, <2>8, <2>14
      <4> QED BY <4>1, <2>12
    <3>2. CASE j = k
      <4>1. i \in 1..(m - 1) /\ i < k /\ p[i] = q[i] /\ p[j] = m
        BY <3>2, <2>2, <2>8, <2>14
      <4> QED BY <4>1, <2>9 DEF x
    <3>3. CASE i = k
      <4>1. j - 1 \in 1..(m - 1) /\ k <= j - 1 /\ p[j] = q[j - 1] /\ p[i] = m
        BY <3>3, <2>2, <2>8, <2>14
      <4> QED BY <4>1, <2>13 DEF x
    <3>4. CASE i < k /\ k < j
      <4>1. /\ i \in 1..(m - 1) /\ j - 1 \in 1..(m - 1) /\ i < j - 1
            /\ p[i] = q[i] /\ p[j] = q[j - 1]
        BY <3>4, <2>2, <2>8, <2>14
      <4> QED BY <4>1, <2>12
    <3>5. CASE k < i
      <4>1. /\ i - 1 \in 1..(m - 1) /\ j - 1 \in 1..(m - 1) /\ i - 1 < j - 1
            /\ p[i] = q[i - 1] /\ p[j] = q[j - 1]
        BY <3>5, <2>2, <2>8, <2>14
      <4> QED BY <4>1, <2>12
    <3> QED BY <3>1, <3>2, <3>3, <3>4, <3>5, <2>2, <2>8
  <2> QED BY <2>15, <2>16, <2>17, <2>18
<1>2. PICK p \in [1..n -> 1..n] : Onto(n, p) /\ Up(n, rows, p)
  BY <1>1
<1>3. p \in Orders(rows)
  BY <1>2 DEF Orders, Bijection, Injection, Surjection, IsInjective
<1>4. DOMAIN rows = 1..n
  OBVIOUS
<1>5. InOrder(Permuted(rows, p))
  BY <1>2, <1>4 DEF InOrder, Permuted
<1> QED BY <1>3, <1>5

(* What ORDER BY makes of a table: the same rows, as many, in order. *)
LEMMA OrderByFacts ==
    ASSUME NEW rows \in Seq(Rows)
    PROVE  /\ OrderBy(rows) \in Seq(Rows)
           /\ Len(OrderBy(rows)) = Len(rows)
           /\ InOrder(OrderBy(rows))
           /\ Range(OrderBy(rows)) = Range(rows)
<1> DEFINE n == Len(rows)
           p == CHOOSE q \in Orders(rows) : InOrder(Permuted(rows, q))
<1>1. n \in Nat /\ rows \in [1..n -> Rows] /\ DOMAIN rows = 1..n
  OBVIOUS
<1>2. p \in Orders(rows) /\ InOrder(Permuted(rows, p))
  <2> HIDE DEF n
  <2> QED BY <1>1, CanBeOrdered
<1>3. OrderBy(rows) = Permuted(rows, p)
  BY DEF OrderBy
<1> HIDE DEF p, n
<1>4. /\ p \in [1..n -> 1..n]
      /\ \A i \in 1..n : \E j \in 1..n : p[j] = i
  BY <1>1, <1>2 DEF Orders, Bijection, Injection, Surjection
<1>5. OrderBy(rows) = [i \in 1..n |-> rows[p[i]]]
  BY <1>1, <1>3 DEF Permuted
<1>6. OrderBy(rows) \in [1..n -> Rows]
  BY <1>1, <1>4, <1>5
<1>7. OrderBy(rows) \in Seq(Rows) /\ Len(OrderBy(rows)) = n
  BY <1>1, <1>6
<1>8. Range(OrderBy(rows)) = Range(rows)
  <2>1. DOMAIN OrderBy(rows) = 1..n /\ \A i \in 1..n : OrderBy(rows)[i] = rows[p[i]]
    BY <1>5
  <2>2. \A i \in 1..n : \E j \in 1..n : OrderBy(rows)[i] = rows[j]
    BY <1>4, <2>1
  <2>3. \A i \in 1..n : \E j \in 1..n : rows[i] = OrderBy(rows)[j]
    BY <1>4, <2>1
  <2>4. ASSUME NEW v PROVE v \in Range(OrderBy(rows)) <=> v \in Range(rows)
    <3>1. v \in Range(OrderBy(rows)) <=> \E i \in 1..n : v = OrderBy(rows)[i]
      BY <2>1 DEF Range
    <3>2. v \in Range(rows) <=> \E i \in 1..n : v = rows[i]
      BY <1>1 DEF Range
    <3> QED BY <2>2, <2>3, <3>1, <3>2
  <2> QED BY <2>4
<1> QED BY <1>2, <1>3, <1>7, <1>8 DEF n

-----------------------------------------------------------------------------
(* bsearch on rows in order. *)

Stored == [dev : 0..UINT16_MAX, sub : 0..UINT16_MAX]

(* UINT16_MAX is one less than a power of two. *)
LEMMA Width == UINT16_MAX \in Nat /\ UINT16_MAX + 1 = 65536
BY DEF UINT16_MAX

(* Two numbers packed into one, the lower in 16 bits. *)
LEMMA Packed ==
    ASSUME NEW x \in Int, NEW y \in Int, NEW u \in Int, NEW v \in Int,
           0 <= u, u < 65536, 0 <= v, v < 65536
    PROVE  x * 65536 + u < y * 65536 + v <=> x < y \/ (x = y /\ u < v)
BY SMT

(* On fields of 16 bits, the two columns packed into one number compare as *)
(* the columns do one after the other.                                     *)
LEMMA PackedOrder ==
    ASSUME NEW a \in Stored, NEW b \in Stored
    PROVE  lkp_less(a, b) <=> key_less(a, b)
<1>1. /\ a.dev \in 0..UINT16_MAX /\ a.sub \in 0..UINT16_MAX
      /\ b.dev \in 0..UINT16_MAX /\ b.sub \in 0..UINT16_MAX
  BY DEF Stored
<1> DEFINE x == a.dev  u == a.sub  y == b.dev  v == b.sub
<1>2. /\ x \in Int /\ u \in Int /\ 0 <= u /\ u < 65536
      /\ y \in Int /\ v \in Int /\ 0 <= v /\ v < 65536
  BY <1>1, Width
<1>3. x * 65536 + u < y * 65536 + v <=> x < y \/ (x = y /\ u < v)
  <2> HIDE DEF x, u, y, v
  <2> QED BY <1>2, Packed
<1> QED BY <1>3 DEF lkp_less, key_less

(* What is copied fits its field, and is the value read if that did. *)
LEMMA StoredRowFacts ==
    ASSUME NEW r \in Rows
    PROVE  StoredRow(r) \in Stored /\ (r \in Stored => StoredRow(r) = r)
<1>1. ASSUME NEW v \in Int, NEW m \in Nat
      PROVE  v % (m + 1) \in 0..m /\ (v \in 0..m => v % (m + 1) = v)
  OBVIOUS
<1>2. r.dev \in Int /\ r.sub \in Int /\ r = [dev |-> r.dev, sub |-> r.sub]
  BY DEF Rows
<1>3. StoredRow(r) = [dev |-> r.dev % (UINT16_MAX + 1), sub |-> r.sub % (UINT16_MAX + 1)]
  BY DEF StoredRow, read_column
<1>4. StoredRow(r) \in Stored
  BY <1>1, <1>2, <1>3, Width DEF Stored
<1>5. ASSUME r \in Stored PROVE StoredRow(r) = r
  <2>1. r.dev \in 0..UINT16_MAX /\ r.sub \in 0..UINT16_MAX
    BY <1>5 DEF Stored
  <2> QED BY <1>1, <1>2, <1>3, <2>1, Width
<1> QED BY <1>4, <1>5

(* The search finds the key exactly if a row has it. *)
LEMMA LookupCorrect ==
    ASSUME NEW rows \in Seq(Stored), InOrder(rows), NEW key \in Stored
    PROVE  /\ rs_lookup(rows, key) \in 0..Len(rows)
           /\ rs_lookup(rows, key) /= 0 => rows[rs_lookup(rows, key)] = key
           /\ rs_lookup(rows, key) = 0 => key \notin Range(rows)
<1> DEFINE L == Len(rows)
           D == 1..(L + 1)
           W == D \X D
           Mid(w) == (w[1] + w[2]) \div 2
           Low(w) == <<w[1], Mid(w)>>
           High(w) == <<Mid(w) + 1, w[2]>>
           Found(f, w) == IF w[1] >= w[2] THEN 0
                          ELSE IF lkp_less(key, rows[Mid(w)]) THEN f[Low(w)]
                          ELSE IF lkp_less(rows[Mid(w)], key) THEN f[High(w)]
                          ELSE Mid(w)
           search == CHOOSE f : f = [w \in W |-> Found(f, w)]
<1>1. L \in Nat /\ DOMAIN rows = 1..L
  OBVIOUS
<1>2. rs_lookup(rows, key) = search[<<1, L + 1>>]
  BY DEF rs_lookup
<1>3. \A w \in W : /\ w[1] \in 1..(L + 1) /\ w[2] \in 1..(L + 1)
                   /\ w[1] < w[2] => /\ Mid(w) \in w[1]..(w[2] - 1)
                                     /\ Mid(w) \in 1..L
                                     /\ Low(w) \in W /\ High(w) \in W
  <2> SUFFICES ASSUME NEW w \in W
               PROVE  /\ w[1] \in 1..(L + 1) /\ w[2] \in 1..(L + 1)
                      /\ w[1] < w[2] => /\ Mid(w) \in w[1]..(w[2] - 1)
                                        /\ Mid(w) \in 1..L
                                        /\ Low(w) \in W /\ High(w) \in W
    OBVIOUS
  <2>1. w[1] \in 1..(L + 1) /\ w[2] \in 1..(L + 1)
    OBVIOUS
  <2>2. ASSUME w[1] < w[2]
        PROVE  Mid(w) \in w[1]..(w[2] - 1) /\ Mid(w) \in 1..L /\ Mid(w) + 1 \in D
    <3> DEFINE a == w[1] b == w[2]
    <3>1. a \in Nat /\ b \in Nat /\ a < b /\ b <= L + 1 /\ 1 <= a
      BY <1>1, <2>1, <2>2
    <3>2. a <= (a + b) \div 2 /\ (a + b) \div 2 < b /\ (a + b) \div 2 \in Nat
      <4> HIDE DEF a, b
      <4> QED BY <3>1
    <3> QED BY <1>1, <3>1, <3>2
  <2> QED BY <2>1, <2>2, <1>1
<1>4. \A w \in W : w[1] < w[2] => /\ Low(w)[1] = w[1] /\ Low(w)[2] = Mid(w)
                                  /\ High(w)[1] = Mid(w) + 1 /\ High(w)[2] = w[2]
  OBVIOUS
<1> HIDE DEF W, Mid, Low, High
<1>5. search = [w \in W |-> Found(search, w)]
  <2> DEFINE Upto(f, n) == \A w \in W : w[2] - w[1] <= n => f[w] = Found(f, w)
             Exists(n) == \E f : f = [w \in W |-> f[w]] /\ Upto(f, n)
             T == {n \in Nat : ~Exists(n)}
  <2>1. T = {}
    <3> SUFFICES ASSUME T /= {} PROVE FALSE
      OBVIOUS
    <3> HIDE DEF Exists
    <3>1. PICK n \in T : \A y \in T : n <= y
      <4>1. T \subseteq Nat
        OBVIOUS
      <4> HIDE DEF T
      <4> QED BY <4>1, LeastNumber
    <3>2. n \in Nat /\ ~Exists(n)
      OBVIOUS
    <3>3. n /= 0
      <4> DEFINE g == [w \in W |-> 0]
      <4>1. Upto(g, 0)
        BY <1>1, <1>3
      <4>2. g = [w \in W |-> g[w]]
        OBVIOUS
      <4>3. Exists(0)
        <5> HIDE DEF Upto, g
        <5> QED BY <4>1, <4>2 DEF Exists
      <4> QED BY <3>2, <4>3
    <3>4. n - 1 \in Nat /\ Exists(n - 1)
      BY <3>1, <3>2, <3>3
    <3>5. PICK f : f = [w \in W |-> f[w]] /\ Upto(f, n - 1)
      BY <3>4 DEF Exists
    <3> DEFINE g == [w \in W |-> IF w[2] - w[1] <= n - 1 THEN f[w] ELSE Found(f, w)]
    <3>6. \A w \in W : w[2] - w[1] <= n => Found(g, w) = Found(f, w)
      <4> SUFFICES ASSUME NEW w \in W, w[2] - w[1] <= n
                   PROVE  Found(g, w) = Found(f, w)
        OBVIOUS
      <4>1. CASE w[1] >= w[2]
        BY <4>1
      <4>2. CASE ~(w[1] >= w[2])
        <5>1. w[1] < w[2]
          BY <1>1, <1>3, <4>2
        <5>2. /\ Low(w) \in W /\ High(w) \in W
              /\ Low(w)[2] - Low(w)[1] <= n - 1 /\ High(w)[2] - High(w)[1] <= n - 1
          BY <1>1, <1>3, <1>4, <3>2, <5>1, SMTT(30)
        <5>3. g[Low(w)] = f[Low(w)] /\ g[High(w)] = f[High(w)]
          BY <5>2
        <5> HIDE DEF g
        <5> QED BY <4>2, <5>3
      <4> QED BY <4>1, <4>2
    <3>7. Upto(g, n)
      <4> SUFFICES ASSUME NEW w \in W, w[2] - w[1] <= n PROVE g[w] = Found(f, w)
        BY <3>6
      <4> QED BY <3>5
    <3>8. g = [w \in W |-> g[w]]
      OBVIOUS
    <3>9. Exists(n)
      <4> HIDE DEF Upto, g
      <4> QED BY <3>7, <3>8 DEF Exists
    <3> QED BY <3>2, <3>9
  <2>2. PICK f : f = [w \in W |-> f[w]] /\ Upto(f, L)
    BY <1>1, <2>1
  <2>3. \A w \in W : w[2] - w[1] <= L
    BY <1>1, <1>3
  <2>4. f = [w \in W |-> Found(f, w)]
    BY <2>2, <2>3
  <2> HIDE DEF Found
  <2> QED BY <2>4
<1> HIDE DEF search
<1>6. \A w \in W : search[w] = Found(search, w)
  <2> HIDE DEF Found
  <2> QED BY <1>5
<1>7. \A i \in 1..L : rows[i] \in Stored /\ rows[i] \in Rows /\ key \in Rows
  <2>1. \A r \in Stored : r \in Rows
    BY Width DEF Stored, Rows
  <2> QED BY <1>1, <2>1
<1> DEFINE Right(w) == \/ /\ search[w] \in w[1]..(w[2] - 1)
                          /\ rows[search[w]] = key
                       \/ /\ search[w] = 0
                          /\ \A i \in w[1]..(w[2] - 1) : rows[i] /= key
           U == {n \in Nat : \E w \in W : w[1] <= w[2] /\ w[2] - w[1] = n /\ ~Right(w)}
<1>8. U = {}
  <2> SUFFICES ASSUME U /= {} PROVE FALSE
    OBVIOUS
  <2> HIDE DEF Right
  <2>1. PICK n \in U : \A y \in U : n <= y
    <3>1. U \subseteq Nat
      OBVIOUS
    <3> HIDE DEF U
    <3> QED BY <3>1, LeastNumber
  <2>2. PICK w \in W : w[1] <= w[2] /\ w[2] - w[1] = n /\ ~Right(w)
    OBVIOUS
  <2>3. \A v \in W : v[1] <= v[2] /\ v[2] - v[1] < w[2] - w[1] => Right(v)
    <3> SUFFICES ASSUME NEW v \in W, v[1] <= v[2], v[2] - v[1] < w[2] - w[1], ~Right(v)
                 PROVE  FALSE
      OBVIOUS
    <3>1. v[2] - v[1] \in Nat
      BY <1>1, <1>3
    <3>2. v[2] - v[1] \in U
      BY <3>1
    <3>3. n <= v[2] - v[1]
      BY <2>1, <3>2
    <3> HIDE DEF U
    <3> QED BY <1>1, <1>3, <2>2, <3>1, <3>3
  <2>4. w[1] \in 1..(L + 1) /\ w[2] \in 1..(L + 1)
    BY <1>3
  <2>5. w[1] < w[2]
    <3> SUFFICES ASSUME ~(w[1] < w[2]) PROVE FALSE
      OBVIOUS
    <3>1. search[w] = 0
      BY <1>1, <1>6, <2>4
    <3>2. w[1]..(w[2] - 1) = {}
      BY <1>1, <2>4
    <3> QED BY <3>1, <3>2, <2>2 DEF Right
  <2> DEFINE mid == Mid(w)
  <2>6. /\ mid \in w[1]..(w[2] - 1) /\ mid \in 1..L
        /\ Low(w) \in W /\ High(w) \in W
        /\ Low(w)[1] = w[1] /\ Low(w)[2] = mid /\ High(w)[1] = mid + 1 /\ High(w)[2] = w[2]
    BY <1>3, <1>4, <2>5
  <2>7. Right(Low(w)) /\ Right(High(w))
    BY <1>1, <2>3, <2>4, <2>6
  <2> HIDE DEF mid
  <2>8. \A i, j \in 1..L : i < j => ~key_less(rows[j], rows[i])
    BY <1>1 DEF InOrder
  <2>9. \A i \in w[1]..(w[2] - 1) : i \in 1..L
    BY <1>1, <2>4
  <2>10. CASE lkp_less(key, rows[mid])
    <3>1. search[w] = search[Low(w)]
      BY <1>1, <1>6, <2>4, <2>5, <2>10 DEF mid
    <3>2. key_less(key, rows[mid])
      BY <2>10, <2>6, <1>7, PackedOrder
    <3>3. \A i \in mid..(w[2] - 1) : rows[i] /= key
      <4> SUFFICES ASSUME NEW i \in mid..(w[2] - 1), rows[i] = key PROVE FALSE
        OBVIOUS
      <4>1. i \in 1..L
        BY <1>1, <2>4, <2>6
      <4>2. mid /= i
        BY <1>7, <2>6, <3>2, KeyOrder
      <4> QED BY <4>1, <4>2, <2>6, <2>8, <3>2
    <3>4. CASE search[w] /= 0
      <4>1. search[w] \in w[1]..(mid - 1) /\ rows[search[w]] = key
        BY <2>6, <2>7, <3>1, <3>4 DEF Right
      <4>2. search[w] \in w[1]..(w[2] - 1)
        BY <4>1, <1>1, <2>4, <2>6
      <4> QED BY <4>1, <4>2, <2>2 DEF Right
    <3>5. CASE search[w] = 0
      <4>1. \A i \in w[1]..(mid - 1) : rows[i] /= key
        BY <1>1, <2>4, <2>6, <2>7, <3>1, <3>5 DEF Right
      <4>2. \A i \in w[1]..(w[2] - 1) : rows[i] /= key
        BY <4>1, <3>3, <1>1, <2>4, <2>6
      <4> QED BY <4>2, <3>5, <2>2 DEF Right
    <3> QED BY <3>4, <3>5
  <2>11. CASE ~lkp_less(key, rows[mid]) /\ lkp_less(rows[mid], key)
    <3>1. search[w] = search[High(w)]
      BY <1>1, <1>6, <2>4, <2>5, <2>11 DEF mid
    <3>2. key_less(rows[mid], key)
      BY <2>11, <2>6, <1>7, PackedOrder
    <3>3. \A i \in w[1]..mid : rows[i] /= key
      <4> SUFFICES ASSUME NEW i \in w[1]..mid, rows[i] = key PROVE FALSE
        OBVIOUS
      <4>1. i \in 1..L
        BY <1>1, <2>4, <2>6
      <4>2. mid /= i
        BY <1>7, <2>6, <3>2, KeyOrder
      <4> QED BY <4>1, <4>2, <2>6, <2>8, <3>2
    <3>4. CASE search[w] /= 0
      <4>1. search[w] \in (mid + 1)..(w[2] - 1) /\ rows[search[w]] = key
        BY <2>6, <2>7, <3>1, <3>4 DEF Right
      <4>2. search[w] \in w[1]..(w[2] - 1)
        BY <4>1, <1>1, <2>4, <2>6
      <4> QED BY <4>1, <4>2, <2>2 DEF Right
    <3>5. CASE search[w] = 0
      <4>1. \A i \in (mid + 1)..(w[2] - 1) : rows[i] /= key
        BY <1>1, <2>4, <2>6, <2>7, <3>1, <3>5 DEF Right
      <4>2. \A i \in w[1]..(w[2] - 1) : rows[i] /= key
        BY <4>1, <3>3, <1>1, <2>4, <2>6
      <4> QED BY <4>2, <3>5, <2>2 DEF Right
    <3> QED BY <3>4, <3>5
  <2>12. CASE ~lkp_less(key, rows[mid]) /\ ~lkp_less(rows[mid], key)
    <3>1. search[w] = mid
      BY <1>1, <1>6, <2>4, <2>5, <2>12 DEF mid
    <3>2. rows[mid] = key
      BY <2>12, <2>6, <1>7, PackedOrder, KeyOrder
    <3> QED BY <3>1, <3>2, <2>2, <2>6 DEF Right
  <2> QED BY <2>10, <2>11, <2>12
<1> DEFINE all == <<1, L + 1>>
<1>9. all \in W /\ all[1] = 1 /\ all[2] = L + 1
  BY <1>1 DEF W
<1>10. Right(all)
  <2>1. all[2] - all[1] = L /\ L \in Nat /\ all[1] <= all[2]
    BY <1>1, <1>9
  <2> HIDE DEF Right, all
  <2> QED BY <2>1, <1>8, <1>9
<1>11. all[1]..(all[2] - 1) = 1..L
  BY <1>1, <1>9
<1> HIDE DEF all
<1>12. CASE search[all] \in 1..L /\ rows[search[all]] = key
  BY <1>1, <1>2, <1>12 DEF all
<1>13. CASE search[all] = 0 /\ \A i \in 1..L : rows[i] /= key
  <2>1. key \notin Range(rows)
    BY <1>1, <1>13 DEF Range
  <2> QED BY <2>1, <1>1, <1>2, <1>13 DEF all
<1> QED BY <1>10, <1>11, <1>12, <1>13

-----------------------------------------------------------------------------
(* The row set. *)

\* A row set that answers as the table it was loaded from, if the load was
\* undisturbed and the table's values fit their fields.
RightSet(rs) ==
  /\ rs.rows \in Seq(Stored) /\ rs.of \in Seq(Rows)
  /\ rs.calm /\ InRange(rs.of) =>
       \A key \in Stored :
         IF key \in Range(rs.of)
         THEN rs_lookup(rs.rows, key) /= 0 /\ rs.rows[rs_lookup(rs.rows, key)] = key
         ELSE rs_lookup(rs.rows, key) = 0

(* Rows whose values fit their fields are what is stored of them. *)
LEMMA FittingRows ==
    ASSUME NEW rows \in Seq(Rows), InRange(rows), NEW r \in Range(rows)
    PROVE  r \in Stored
<1>1. PICK j \in DOMAIN rows : r = rows[j]
  BY DEF Range
<1>2. r \in Rows /\ r.dev \in 0..UINT16_MAX /\ r.sub \in 0..UINT16_MAX
  BY <1>1 DEF InRange
<1>3. r = [dev |-> r.dev, sub |-> r.sub]
  BY <1>2 DEF Rows
<1> QED BY <1>2, <1>3 DEF Stored

(* What egw_ptable_register copies is a right set. *)
LEMMA RegisteredIsRight ==
    ASSUME NEW rows \in Seq(Rows), NEW n \in Nat, NEW selected \in Seq(Rows), NEW c,
           c => selected = OrderBy(rows) /\ n = Len(rows),
           NEW rs, rs = [rows |-> [i \in 1..n |-> IF i <= Len(selected)
                                                  THEN StoredRow(selected[i]) ELSE ZeroRow],
                         of |-> rows, calm |-> c]
    PROVE  RightSet(rs)
<1> DEFINE copied == [i \in 1..n |-> IF i <= Len(selected) THEN StoredRow(selected[i])
                                                          ELSE ZeroRow]
<1>1. rs.rows = copied /\ rs.of = rows /\ rs.calm = c
  OBVIOUS
<1>2. copied \in Seq(Stored)
  <2>1. ZeroRow \in Stored
    BY Width DEF ZeroRow, Stored
  <2>2. \A i \in 1..n : i <= Len(selected) => StoredRow(selected[i]) \in Stored
    BY StoredRowFacts
  <2>3. copied \in [1..n -> Stored]
    BY <2>1, <2>2
  <2> HIDE DEF copied
  <2> QED BY <2>3
<1>3. ASSUME c, InRange(rows), NEW key \in Stored
      PROVE  IF key \in Range(rows)
             THEN rs_lookup(copied, key) /= 0 /\ copied[rs_lookup(copied, key)] = key
             ELSE rs_lookup(copied, key) = 0
  <2> DEFINE ordered == OrderBy(rows)
  <2>1. /\ ordered \in Seq(Rows) /\ Len(ordered) = n /\ InOrder(ordered)
        /\ Range(ordered) = Range(rows) /\ selected = ordered
    BY <1>3, OrderByFacts
  <2> HIDE DEF ordered
  <2>2. \A i \in 1..n : ordered[i] \in Range(rows) /\ ordered[i] \in Rows
    <3>1. DOMAIN ordered = 1..n
      BY <2>1
    <3>2. \A i \in 1..n : ordered[i] \in Range(ordered) /\ ordered[i] \in Rows
      BY <2>1, <3>1 DEF Range
    <3> QED BY <2>1, <3>2
  <2>3. \A r \in Range(rows) : r \in Stored
    BY <1>3, FittingRows
  <2>4. \A i \in 1..n : StoredRow(selected[i]) = ordered[i]
    BY <2>1, <2>2, <2>3, StoredRowFacts
  <2>5. copied = ordered
    BY <2>1, <2>4
  <2>6. /\ rs_lookup(copied, key) \in 0..n
        /\ rs_lookup(copied, key) /= 0 => copied[rs_lookup(copied, key)] = key
        /\ rs_lookup(copied, key) = 0 => key \notin Range(rows)
    BY <1>2, <2>1, <2>5, LookupCorrect
  <2>7. rs_lookup(copied, key) /= 0 => copied[rs_lookup(copied, key)] \in Range(rows)
    BY <2>2, <2>5, <2>6
  <2> HIDE DEF copied
  <2> QED BY <2>6, <2>7
<1> HIDE DEF copied
<1> QED BY <1>1, <1>2, <1>3 DEF RightSet

-----------------------------------------------------------------------------
(* What Append makes of a sequence. *)
LEMMA AppendFacts ==
    ASSUME NEW S, NEW s \in Seq(S), NEW e \in S, NEW t, t = Append(s, e)
    PROVE  /\ t \in Seq(S) /\ Len(t) = Len(s) + 1 /\ t[Len(t)] = e
           /\ \A k \in 1..Len(s) : t[k] = s[k]
<1>1. t \in Seq(S) /\ Len(t) = Len(s) + 1
  OBVIOUS
<1>2. t[Len(s) + 1] = e
  OBVIOUS
<1>3. \A k \in 1..Len(s) : t[k] = s[k]
  OBVIOUS
<1> QED BY <1>1, <1>2, <1>3

(* The list of tables discovered names each of them once, as the manifest. *)
LEMMA ExistingFacts ==
    ASSUME NEW S, NEW listed \in Seq(S), IsInjective(listed), NEW tables
    PROVE  Existing(listed, tables) \in Seq(S) /\ IsInjective(Existing(listed, tables))
<1> DEFINE L == Len(listed)
           Next1(f, i) == IF i = 0 THEN <<>>
                          ELSE IF listed[i] \in tables THEN Append(f[i - 1], listed[i])
                          ELSE f[i - 1]
           upto == CHOOSE f : f = [i \in 0..L |-> Next1(f, i)]
<1>1. L \in Nat /\ DOMAIN listed = 1..L /\ \A i \in 1..L : listed[i] \in S
  OBVIOUS
<1>2. Existing(listed, tables) = upto[L]
  BY DEF Existing
<1> HIDE DEF L
<1>3. upto = [i \in 0..L |-> Next1(upto, i)]
  <2> DEFINE Upto(f, n) == \A i \in 0..L : i <= n => f[i] = Next1(f, i)
             Exists(n) == \E f : f = [i \in 0..L |-> f[i]] /\ Upto(f, n)
             T == {n \in Nat : ~Exists(n)}
  <2>1. T = {}
    <3> SUFFICES ASSUME T /= {} PROVE FALSE
      OBVIOUS
    <3> HIDE DEF Exists
    <3>1. PICK n \in T : \A y \in T : n <= y
      <4>1. T \subseteq Nat
        OBVIOUS
      <4> HIDE DEF T
      <4> QED BY <4>1, LeastNumber
    <3>2. n \in Nat /\ ~Exists(n)
      OBVIOUS
    <3>3. n /= 0
      <4> DEFINE g == [i \in 0..L |-> <<>>]
      <4>1. Upto(g, 0) /\ g = [i \in 0..L |-> g[i]]
        BY <1>1
      <4>2. Exists(0)
        <5> HIDE DEF Upto, g
        <5> QED BY <4>1 DEF Exists
      <4> QED BY <3>2, <4>2
    <3>4. n - 1 \in Nat /\ Exists(n - 1)
      BY <3>1, <3>2, <3>3
    <3>5. PICK f : f = [i \in 0..L |-> f[i]] /\ Upto(f, n - 1)
      BY <3>4 DEF Exists
    <3> DEFINE g == [i \in 0..L |-> IF i <= n - 1 THEN f[i] ELSE Next1(f, i)]
    <3>6. \A i \in 0..L : i <= n => Next1(g, i) = Next1(f, i)
      <4> SUFFICES ASSUME NEW i \in 0..L, i <= n PROVE Next1(g, i) = Next1(f, i)
        OBVIOUS
      <4>1. CASE i = 0
        BY <4>1
      <4>2. CASE i /= 0
        <5>1. i - 1 \in 0..L /\ i - 1 <= n - 1
          BY <1>1, <3>2, <4>2
        <5>2. g[i - 1] = f[i - 1]
          BY <5>1
        <5> HIDE DEF g
        <5> QED BY <4>2, <5>2
      <4> QED BY <4>1, <4>2
    <3>7. Upto(g, n)
      <4> SUFFICES ASSUME NEW i \in 0..L, i <= n PROVE g[i] = Next1(f, i)
        BY <3>6
      <4> QED BY <3>5
    <3>8. g = [i \in 0..L |-> g[i]]
      OBVIOUS
    <3>9. Exists(n)
      <4> HIDE DEF Upto, g
      <4> QED BY <3>7, <3>8 DEF Exists
    <3> QED BY <3>2, <3>9
  <2>2. PICK f : f = [i \in 0..L |-> f[i]] /\ Upto(f, L)
    BY <1>1, <2>1
  <2>3. f = [i \in 0..L |-> Next1(f, i)]
    <3> HIDE DEF Next1
    <3>1. \A i \in 0..L : f[i] = Next1(f, i)
      BY <1>1, <2>2
    <3> QED BY <2>2, <3>1
  <2> HIDE DEF Next1
  <2> QED BY <2>3
<1> HIDE DEF upto
<1>4. \A i \in 0..L : upto[i] = Next1(upto, i)
  <2> HIDE DEF Next1
  <2> QED BY <1>3
<1> DEFINE Fine(i) == /\ upto[i] \in Seq(S) /\ IsInjective(upto[i])
                      /\ \A k \in 1..Len(upto[i]) : \E j \in 1..i : upto[i][k] = listed[j]
           U == {i \in 0..L : ~Fine(i)}
<1>5. U = {}
  <2> SUFFICES ASSUME U /= {} PROVE FALSE
    OBVIOUS
  <2> HIDE DEF Fine
  <2>1. PICK n \in U : \A y \in U : n <= y
    <3>1. U \subseteq Nat
      BY <1>1
    <3> HIDE DEF U
    <3> QED BY <3>1, LeastNumber
  <2>2. n \in 0..L /\ ~Fine(n)
    OBVIOUS
  <2>3. n /= 0
    <3> SUFFICES ASSUME n = 0 PROVE FALSE
      OBVIOUS
    <3>1. upto[n] = <<>>
      BY <1>4, <2>2
    <3> QED BY <2>2, <3>1 DEF Fine, IsInjective
  <2>4. n - 1 \in 0..L /\ n \in 1..L /\ Fine(n - 1)
    BY <1>1, <2>1, <2>2, <2>3
  <2> DEFINE s == upto[n - 1]
             e == listed[n]
  <2>5. /\ s \in Seq(S) /\ IsInjective(s)
        /\ \A k \in 1..Len(s) : \E j \in 1..(n - 1) : s[k] = listed[j]
    BY <2>4 DEF Fine
  <2>6. \A k \in 1..Len(s) : (\E j \in 1..n : s[k] = listed[j]) /\ s[k] /= e
    <3> SUFFICES ASSUME NEW k \in 1..Len(s)
                 PROVE  (\E j \in 1..n : s[k] = listed[j]) /\ s[k] /= e
      OBVIOUS
    <3>1. PICK j \in 1..(n - 1) : s[k] = listed[j]
      BY <2>5
    <3>2. j \in 1..n /\ j \in 1..L /\ j /= n
      BY <1>1, <2>4
    <3> QED BY <1>1, <2>4, <3>1, <3>2 DEF IsInjective
  <2>7. CASE e \in tables
    <3> DEFINE t == Append(s, e)
    <3>1. upto[n] = t
      BY <1>4, <2>2, <2>3, <2>7
    <3>2. e \in S
      BY <1>1, <2>4
    <3> HIDE DEF s, e
    <3>3. /\ t \in Seq(S) /\ Len(t) = Len(s) + 1 /\ t[Len(t)] = e
          /\ \A k \in 1..Len(s) : t[k] = s[k]
      BY <2>5, <3>2, AppendFacts
    <3>4. Len(s) \in Nat /\ DOMAIN s = 1..Len(s) /\ DOMAIN t = 1..Len(t)
      BY <2>5, <3>3
    <3> HIDE DEF t
    <3>5. \A k \in 1..Len(t) : k \in 1..Len(s) \/ k = Len(t)
      BY <3>3, <3>4
    <3>6. IsInjective(t)
      <4> SUFFICES ASSUME NEW a \in 1..Len(t), NEW b \in 1..Len(t), t[a] = t[b] PROVE a = b
        BY <3>4 DEF IsInjective
      <4>1. CASE a \in 1..Len(s) /\ b \in 1..Len(s)
        BY <2>5, <3>3, <3>4, <4>1 DEF IsInjective
      <4>2. CASE a = Len(t) \/ b = Len(t)
        BY <2>6, <3>3, <3>5, <4>2
      <4> QED BY <3>5, <4>1, <4>2
    <3>7. \A k \in 1..Len(t) : \E j \in 1..n : t[k] = listed[j]
      <4> SUFFICES ASSUME NEW k \in 1..Len(t) PROVE \E j \in 1..n : t[k] = listed[j]
        OBVIOUS
      <4>1. CASE k \in 1..Len(s)
        <5>1. t[k] = s[k]
          BY <3>3, <4>1
        <5> QED BY <2>6, <4>1, <5>1
      <4>2. CASE k = Len(t)
        <5>1. n \in 1..n /\ t[k] = listed[n]
          BY <1>1, <2>4, <3>3, <4>2 DEF e
        <5> QED BY <5>1
      <4> QED BY <3>5, <4>1, <4>2
    <3> QED BY <2>2, <3>1, <3>3, <3>6, <3>7 DEF Fine
  <2>8. CASE e \notin tables
    <3>1. upto[n] = s
      BY <1>4, <2>2, <2>3, <2>8
    <3> HIDE DEF s
    <3> QED BY <2>2, <2>5, <2>6, <3>1 DEF Fine
  <2> QED BY <2>7, <2>8
<1>6. Fine(L)
  <2> HIDE DEF Fine
  <2> QED BY <1>1, <1>5
<1> QED BY <1>2, <1>6

-----------------------------------------------------------------------------
(* The inductive invariant. *)

Heads == [version : Int, threads : Seq(Seq(Nodes))]
Pos   == Nat \ {0}

Reading == {"head_open", "head_root", "head_version"}
Opening == Reading \cup {"head_threads", "open"}
Listing == {"load", "count", "select"}
Working == {"walk", "discover"} \cup Listing

\* What is allocated or open, by the place in egw_app_run.
HeldAt ==
  /\ pc = "head_open" => held = {}
  /\ pc = "head_root" => held = {"head_db"}
  /\ pc \in {"head_version", "head_threads"} => held = {"head_db", "head"}
  /\ pc = "open" => held = {"head"}
  /\ pc \in {"walk", "discover", "decide", "persist", "release"} => held = {"head", "pt"}
  /\ pc \in Listing => held = {"head", "pt", "manifest"}
  /\ pc \in {"loopback", "stop"} => held = {"head", "pt", "persist"}
  /\ pc = "done" => held = {}
  /\ pc = "failed" => held \subseteq {"lost_db"} /\ (held /= {} => failures > 0)

\* Until the point table is open nothing has been loaded.
Fresh ==
  pc \in Opening \cup {"failed"} =>
    master_rs = NULL /\ slave_rs = NULL /\ openedOn = NULL /\ ~lost

\* The head, where it exists.
Tree == pc \notin Reading \cup {"failed"} => head \in Heads

\* As long as every change raises the version and no statement failed, the
\* version of the head is at most the database's, and the tree that was read
\* with it is the database's if they are equal.
Versions ==
  ~silent /\ failures = 0 /\ pc \in {"head_threads", "open"} =>
    /\ head.version <= db.version
    /\ pc = "open" /\ head.version = db.version => head.threads = db.threads

\* The walk is at a protocol node while its tables are loaded, each once.
Place ==
  /\ at \in Pos \X Pos
  /\ pc \in {"discover"} \cup Listing => at \in Protocols(head.threads)
  /\ names \in Seq(STRING) /\ IsInjective(names)
  /\ pc \in {"count", "select"} => names /= <<>> /\ Head(names) \in Loadable

Before(p, q) == p[1] < q[1] \/ (p[1] = q[1] /\ p[2] < q[2])

\* A row set was loaded at an earlier protocol node, or at this one, and
\* then its table is not going to be loaded here again.
LoadedBefore(t) ==
  \/ \E p \in Protocols(head.threads) : Before(p, at)
  \/ pc \in Listing /\ t \notin Range(names)

Loaded ==
  /\ pc \in Working /\ master_rs /= NULL => LoadedBefore("southbound")
  /\ pc \in Working /\ slave_rs /= NULL => LoadedBefore("northbound")
  /\ lost => \E p, q \in Protocols(head.threads) : p /= q

\* An undisturbed count is the number of rows the SELECT will return.
Counted ==
  pc = "select" /\ calm /\ table \in DOMAIN db.tables =>
    count = Len(db.tables[table].rows)

Sets ==
  /\ master_rs /= NULL => RightSet(master_rs)
  /\ slave_rs /= NULL => RightSet(slave_rs)

IInv == /\ TypeOK /\ HeldAt /\ Fresh /\ Tree /\ Versions
        /\ StaleTopologyRefused /\ Place /\ Loaded
        /\ Counted /\ OverrunOnlyWhenDisturbed /\ Sets

-----------------------------------------------------------------------------
(* The operators the actions use. *)

(* What is left of a sequence when its end is missing. *)
LEMMA SubSeqFacts ==
    ASSUME NEW S, NEW s \in Seq(S), NEW k \in 0..Len(s)
    PROVE  SubSeq(s, 1, k) \in Seq(S) /\ Len(SubSeq(s, 1, k)) = k
OBVIOUS

(* The same when one element is missing from a list without repetitions. *)
LEMMA RemoveAtFacts ==
    ASSUME NEW S, NEW s \in Seq(S), IsInjective(s), NEW i \in DOMAIN s
    PROVE  RemoveAt(s, i) \in Seq(S) /\ IsInjective(RemoveAt(s, i))
<1> DEFINE L == Len(s)
           a == SubSeq(s, 1, i - 1)
           b == SubSeq(s, i + 1, L)
           t == a \o b
<1>1. L \in Nat /\ DOMAIN s = 1..L /\ i \in 1..L
  OBVIOUS
<1>2. a \in Seq(S) /\ Len(a) = i - 1 /\ \A k \in 1..(i - 1) : a[k] = s[k]
  OBVIOUS
<1>3. b \in Seq(S) /\ Len(b) = L - i /\ \A k \in 1..(L - i) : b[k] = s[k + i]
  <2>1. b \in Seq(S) /\ Len(b) = L - i
    OBVIOUS
  <2>2. \A k \in 1..(L - i) : b[k] = s[k + i]
    OBVIOUS
  <2> QED BY <2>1, <2>2
<1> HIDE DEF a, b, L
<1>4. t \in Seq(S) /\ Len(t) = L - 1
  <2>1. a \in Seq(S) /\ b \in Seq(S)
    BY <1>2, <1>3
  <2>2. t \in Seq(S) /\ Len(t) = Len(a) + Len(b)
    BY <2>1
  <2> HIDE DEF t
  <2> QED BY <1>1, <1>2, <1>3, <2>2
<1>5. \A k \in 1..(L - 1) : t[k] = IF k < i THEN s[k] ELSE s[k + 1]
  <2> SUFFICES ASSUME NEW k \in 1..(L - 1) PROVE t[k] = IF k < i THEN s[k] ELSE s[k + 1]
    OBVIOUS
  <2>1. CASE k < i
    BY <1>1, <1>2, <1>3, <2>1
  <2>2. CASE ~(k < i)
    <3>1. k - (i - 1) \in 1..(L - i) /\ k - (i - 1) + i = k + 1
      BY <1>1, <2>2
    <3>2. t[k] = b[k - (i - 1)]
      BY <1>1, <1>2, <1>3, <2>2
    <3> QED BY <1>3, <2>2, <3>1, <3>2
  <2> QED BY <2>1, <2>2
<1> HIDE DEF t
<1>6. IsInjective(t)
  <2> SUFFICES ASSUME NEW x \in 1..(L - 1), NEW y \in 1..(L - 1), t[x] = t[y] PROVE x = y
    BY <1>1, <1>4 DEF IsInjective
  <2> DEFINE from(k) == IF k < i THEN k ELSE k + 1
  <2>1. from(x) \in 1..L /\ t[x] = s[from(x)]
    BY <1>1, <1>5
  <2>2. from(y) \in 1..L /\ t[y] = s[from(y)]
    BY <1>1, <1>5
  <2>3. from(x) = from(y)
    <3> HIDE DEF from
    <3> QED BY <1>1, <2>1, <2>2 DEF IsInjective
  <2> QED BY <1>1, <2>3
<1> QED BY <1>4, <1>6 DEF RemoveAt, t, a, b, L

(* The tail of a list that names everything once. *)
LEMMA TailFacts ==
    ASSUME NEW S, NEW s \in Seq(S), IsInjective(s), s /= <<>>
    PROVE  /\ Tail(s) \in Seq(S) /\ IsInjective(Tail(s))
           /\ Range(Tail(s)) \subseteq Range(s) /\ Head(s) \notin Range(Tail(s))
<1> DEFINE L == Len(s)
           t == Tail(s)
<1>1. L \in Nat /\ L >= 1 /\ DOMAIN s = 1..L /\ Head(s) = s[1]
  OBVIOUS
<1>2. t \in Seq(S) /\ Len(t) = L - 1 /\ \A k \in 1..(L - 1) : t[k] = s[k + 1]
  OBVIOUS
<1>3. DOMAIN t = 1..(L - 1)
  BY <1>1, <1>2
<1> HIDE DEF t, L
<1>4. IsInjective(t)
  <2> SUFFICES ASSUME NEW x \in 1..(L - 1), NEW y \in 1..(L - 1), t[x] = t[y] PROVE x = y
    BY <1>3 DEF IsInjective
  <2>1. x + 1 \in 1..L /\ y + 1 \in 1..L
    BY <1>1
  <2>2. x + 1 = y + 1
    BY <1>1, <1>2, <2>1, SMTT(30) DEF IsInjective
  <2> QED BY <1>1, <2>2
<1>5. ASSUME NEW v \in Range(t) PROVE v \in Range(s) /\ v /= Head(s)
  <2>1. PICK k \in 1..(L - 1) : v = t[k]
    BY <1>3 DEF Range
  <2>2. k + 1 \in 1..L /\ 1 \in 1..L /\ k + 1 /= 1
    BY <1>1
  <2>3. v = s[k + 1]
    BY <1>2, <2>1
  <2>4. v \in Range(s)
    BY <1>1, <2>2, <2>3 DEF Range
  <2>5. s[k + 1] /= s[1]
    BY <1>1, <2>2 DEF IsInjective
  <2> QED BY <1>1, <2>3, <2>4, <2>5
<1> QED BY <1>2, <1>4, <1>5 DEF t

(* The same for a list of names. *)
LEMMA TailOfNames ==
    ASSUME NEW s \in Seq(STRING), IsInjective(s), s /= <<>>
    PROVE  /\ Tail(s) \in Seq(STRING) /\ IsInjective(Tail(s))
           /\ Range(Tail(s)) \subseteq Range(s) /\ Head(s) \notin Range(Tail(s))
<1> DEFINE S == STRING
<1>1. s \in Seq(S)
  OBVIOUS
<1> HIDE DEF S
<1>2. /\ Tail(s) \in Seq(S) /\ IsInjective(Tail(s))
      /\ Range(Tail(s)) \subseteq Range(s) /\ Head(s) \notin Range(Tail(s))
  BY <1>1, TailFacts
<1> QED BY <1>2 DEF S

(* A tree that is cut short is a tree. *)
LEMMA CutShortFacts ==
    ASSUME NEW ts \in Seq(Seq(Nodes)), NEW us \in CutShort(ts)
    PROVE  us \in Seq(Seq(Nodes))
<1>1. ASSUME NEW S, NEW s \in Seq(S), NEW x \in Shortened(s) PROVE x \in Seq(S)
  <2>1. PICK k \in 0..(Len(s) - 1) : x = SubSeq(s, 1, k)
    BY DEF Shortened
  <2>2. k \in 0..Len(s)
    OBVIOUS
  <2> QED BY <2>1, <2>2, SubSeqFacts
<1>2. CASE us \in Shortened(ts)
  BY <1>1, <1>2
<1>3. CASE us \notin Shortened(ts)
  <2>1. PICK t \in DOMAIN ts : \E s \in Shortened(ts[t]) : us = [ts EXCEPT ![t] = s]
    BY <1>3 DEF CutShort
  <2>2. PICK s \in Shortened(ts[t]) : us = [ts EXCEPT ![t] = s]
    BY <2>1
  <2>3. ts[t] \in Seq(Nodes)
    OBVIOUS
  <2>4. s \in Seq(Nodes)
    BY <1>1, <2>3
  <2> QED BY <2>2, <2>4
<1> QED BY <1>2, <1>3

(* The positions of the protocol nodes. *)
LEMMA ProtocolsFacts ==
    ASSUME NEW ts, NEW p
    PROVE  p \in Protocols(ts) <=>
             /\ p = <<p[1], p[2]>> /\ p[1] \in DOMAIN ts /\ p[2] \in DOMAIN ts[p[1]]
             /\ ts[p[1]][p[2]].type = "protocol"
BY DEF Protocols

(* Two of them are more than one. *)
LEMMA TwoProtocols ==
    ASSUME NEW ts \in Seq(Seq(Nodes)), NEW p \in Protocols(ts), NEW q \in Protocols(ts), p /= q
    PROVE  Cardinality(Protocols(ts)) > 1
<1> DEFINE In(t) == {<<t, n>> : n \in {m \in DOMAIN ts[t] : ts[t][m].type = "protocol"}}
           D == DOMAIN ts
           F == {In(t) : t \in D}
<1>1. Protocols(ts) = UNION F
  BY DEF Protocols
<1>2. IsFiniteSet(D)
  <2>1. D = 1..Len(ts) /\ Len(ts) \in Nat
    OBVIOUS
  <2> QED BY <2>1, FS_Interval
<1>3. ASSUME NEW t \in D PROVE IsFiniteSet(In(t))
  <2> DEFINE B == {m \in DOMAIN ts[t] : ts[t][m].type = "protocol"}
             f == [n \in B |-> <<t, n>>]
  <2>1. DOMAIN ts[t] = 1..Len(ts[t]) /\ Len(ts[t]) \in Nat
    <3>1. ts[t] \in Seq(Nodes)
      OBVIOUS
    <3> QED BY <3>1
  <2>2. IsFiniteSet(DOMAIN ts[t])
    BY <2>1, FS_Interval
  <2>3. IsFiniteSet(B)
    <3>1. B \in SUBSET DOMAIN ts[t]
      OBVIOUS
    <3> HIDE DEF B
    <3> QED BY <2>2, <3>1, FS_Subset
  <2>4. In(t) = {<<t, n>> : n \in B}
    OBVIOUS
  <2> HIDE DEF B
  <2>5. f \in Surjection(B, {<<t, n>> : n \in B})
    BY DEF Surjection
  <2> HIDE DEF f, In
  <2> QED BY <2>3, <2>4, <2>5, FS_Surjection
<1> HIDE DEF In
<1>4. IsFiniteSet(F)
  <2> DEFINE f == [t \in D |-> In(t)]
  <2>1. f \in Surjection(D, F)
    BY DEF Surjection
  <2> HIDE DEF f, F, D
  <2> QED BY <1>2, <2>1, FS_Surjection
<1>5. \A T \in F : IsFiniteSet(T)
  BY <1>3
<1>6. IsFiniteSet(Protocols(ts))
  <2> HIDE DEF F
  <2> QED BY <1>1, <1>4, <1>5, FS_UNION
<1>7. IsFiniteSet({p}) /\ Cardinality({p}) = 1 /\ q \notin {p}
  BY FS_Singleton
<1>8. IsFiniteSet({p} \cup {q}) /\ Cardinality({p} \cup {q}) = 2
  <2> DEFINE one == {p}
  <2>1. IsFiniteSet(one) /\ Cardinality(one) = 1 /\ q \notin one
    BY <1>7
  <2> HIDE DEF one
  <2>2. IsFiniteSet(one \cup {q}) /\ Cardinality(one \cup {q}) = Cardinality(one) + 1
    BY <2>1, FS_AddElement
  <2>3. Cardinality(one \cup {q}) = 2
    <3> DEFINE c == Cardinality(one \cup {q})
    <3>1. c = 1 + 1
      BY <2>1, <2>2
    <3> HIDE DEF c
    <3>2. c = 2
      BY <3>1
    <3> QED BY <3>2 DEF c
  <2> QED BY <2>2, <2>3, Zenon DEF one
<1>9. {p} \cup {q} \in SUBSET Protocols(ts)
  OBVIOUS
<1>10. Cardinality({p} \cup {q}) <= Cardinality(Protocols(ts))
  BY <1>6, <1>9, FS_Subset
<1>11. Cardinality(Protocols(ts)) \in Nat
  BY <1>6, FS_CardinalityType
<1> DEFINE least == Cardinality({p} \cup {q})
           size == Cardinality(Protocols(ts))
<1>12. least = 2 /\ least <= size /\ size \in Nat
  BY <1>8, <1>10, <1>11
<1>13. size > 1
  <2> HIDE DEF least, size
  <2> QED BY <1>12
<1> QED BY <1>13

-----------------------------------------------------------------------------
(* What egw_ptable_register and its caller may do. *)

\* The caller keeps the result, a right set or NULL.
Registered ==
  /\ names' = Tail(names) /\ pc' = "load"
  /\ \E rs :
       /\ rs = NULL \/ RightSet(rs)
       /\ \/ /\ table = "southbound" /\ master_rs' = rs /\ slave_rs' = slave_rs
             /\ lost' => lost \/ master_rs /= NULL
          \/ /\ table = "northbound" /\ slave_rs' = rs /\ master_rs' = master_rs
             /\ lost' => lost \/ slave_rs /= NULL
          \/ UNCHANGED <<master_rs, slave_rs, lost>>

\* Either it goes on to the SELECT with a count, or runs past its rows, or
\* returns.
RegisterStep ==
  /\ pc \in {"count", "select"}
  /\ UNCHANGED <<db, edits, head, at, held, openedOn, silent, ran>>
  /\ Works \/ Fails
  /\ \/ /\ pc = "count" /\ pc' = "select" /\ UNCHANGED <<names, master_rs, slave_rs, lost>>
        /\ count' \in Nat /\ (calm' => count' = Len(db.tables[table].rows))
     \/ /\ pc = "select" /\ pc' = "overrun" /\ ~calm'
        /\ UNCHANGED <<names, master_rs, slave_rs, lost, count>>
     \/ Registered /\ UNCHANGED <<count, calm>>

(* The rows of the database. *)
LEMMA DatabaseFacts ==
    ASSUME NEW d \in Databases
    PROVE  /\ d.version \in Int /\ d.threads \in Seq(Seq(Nodes))
           /\ \A m \in DOMAIN d.manifests :
                d.manifests[m] \in Seq(STRING) /\ IsInjective(d.manifests[m])
           /\ \A t \in DOMAIN d.tables : d.tables[t].rows \in Seq(Rows)
BY GatewayAssumption DEF IsDatabase

(* A result that is kept where the table's name says. *)
LEMMA Returns ==
    ASSUME NEW rs, RegisterReturns(rs), table \in Loadable, rs = NULL \/ RightSet(rs)
    PROVE  Registered
<1>1. names' = Tail(names) /\ pc' = "load"
  BY DEF RegisterReturns
<1>2. CASE table = "southbound"
  <2>1. egw_modbus_master_load(rs)
    BY <1>2 DEF RegisterReturns
  <2> QED BY <1>1, <1>2, <2>1 DEF Registered, egw_modbus_master_load
<1>3. CASE table = "northbound"
  <2>1. egw_modbus_slave_load(rs)
    BY <1>3 DEF RegisterReturns
  <2> QED BY <1>1, <1>3, <2>1 DEF Registered, egw_modbus_slave_load
<1>4. CASE table = "route"
  <2>1. egw_route_load
    BY <1>4 DEF RegisterReturns
  <2> QED BY <1>1, <2>1 DEF Registered, egw_route_load
<1> QED BY <1>2, <1>3, <1>4 DEF Loadable

(* SELECT COUNT. *)
LEMMA CountRegisters ==
    ASSUME IInv, Count
    PROVE  RegisterStep
<1>1. table \in Loadable /\ db \in Databases /\ pc = "count"
  BY DEF IInv, Place, TypeOK, Count, table
<1>2. UNCHANGED <<db, edits, head, at, held, openedOn, silent, ran>>
  BY DEF Count, input
<1>3. Works \/ Fails
  BY DEF Count, Barren
<1>4. CASE /\ table \in DOMAIN db.tables
           /\ \/ Works /\ count' = Len(db.tables[table].rows) /\ calm' = TRUE
              \/ Fails /\ count' = 0 /\ calm' = FALSE
           /\ pc' = "select" /\ UNCHANGED <<names, master_rs, slave_rs, lost>>
  <2>1. db.tables[table].rows \in Seq(Rows)
    BY <1>1, <1>4, DatabaseFacts
  <2>2. Len(db.tables[table].rows) \in Nat
    BY <2>1
  <2>3. count' \in Nat /\ (calm' => count' = Len(db.tables[table].rows))
    BY <1>4, <2>2
  <2> QED BY <1>1, <1>2, <1>3, <1>4, <2>3 DEF RegisterStep
<1>5. CASE RegisterReturns(NULL) /\ UNCHANGED <<count, calm>>
  <2>1. Registered
    BY <1>1, <1>5, Returns
  <2> QED BY <1>1, <1>2, <1>3, <1>5, <2>1 DEF RegisterStep
<1> QED BY <1>4, <1>5 DEF Count

(* SELECT and the copy of its rows. *)
LEMMA SelectRegisters ==
    ASSUME IInv, Select
    PROVE  RegisterStep
<1>1. table \in Loadable /\ db \in Databases /\ pc = "select" /\ count \in Nat
  BY DEF IInv, Place, TypeOK, Select, table
<1>2. UNCHANGED <<db, edits, head, at, held, openedOn, silent, ran, count, calm>>
  BY DEF Select, input
<1>3. CASE table \in DOMAIN db.tables /\ ~RegisterReturns(NULL)
  <2> DEFINE rows == db.tables[table].rows
             all  == OrderBy(rows)
  <2>1. rows \in Seq(Rows)
    BY <1>1, <1>3, DatabaseFacts
  <2>2. all \in Seq(Rows) /\ Len(all) = Len(rows)
    BY <2>1, OrderByFacts
  <2>3. PICK selected \in {all} \cup Shortened(all) :
          /\ IF Len(selected) = Len(rows) THEN Works ELSE Fails
          /\ IF ~resolve_cols(selected) THEN RegisterReturns(NULL)
             ELSE IF Len(selected) > count
             THEN pc' = "overrun" /\ UNCHANGED <<names, master_rs, slave_rs, lost>>
             ELSE RegisterReturns(RowSet(selected, calm /\ Len(selected) = Len(rows)))
    BY <1>3 DEF Select
  <2> HIDE DEF all
  <2>4. /\ selected \in Seq(Rows) /\ Len(selected) \in Nat /\ Len(selected) <= Len(rows)
        /\ Len(selected) = Len(rows) => selected = all
    <3>1. CASE selected = all
      BY <2>2, <3>1
    <3>2. CASE selected \in Shortened(all)
      <4>1. PICK k \in 0..(Len(all) - 1) : selected = SubSeq(all, 1, k)
        BY <3>2 DEF Shortened
      <4>2. k \in 0..Len(all) /\ k \in Nat /\ k < Len(all)
        BY <2>2
      <4>3. selected \in Seq(Rows) /\ Len(selected) = k
        BY <2>2, <4>1, <4>2, SubSeqFacts
      <4> QED BY <2>2, <4>2, <4>3
    <3> QED BY <2>3, <3>1, <3>2
  <2>5. Works \/ Fails
    BY <2>3
  <2>6. calm => count = Len(rows)
    BY <1>1, <1>3 DEF IInv, Counted
  <2>7. CASE Len(selected) > count /\ pc' = "overrun"
             /\ UNCHANGED <<names, master_rs, slave_rs, lost>>
    <3>1. ~calm
      BY <1>1, <2>1, <2>4, <2>6, <2>7
    <3>2. ~calm'
      BY <1>2, <3>1
    <3> QED BY <1>1, <1>2, <2>5, <2>7, <3>2 DEF RegisterStep
  <2>8. CASE RegisterReturns(RowSet(selected, calm /\ Len(selected) = Len(rows)))
    <3> DEFINE c  == calm /\ Len(selected) = Len(rows)
               rs == RowSet(selected, c)
    <3>1. c => selected = OrderBy(rows) /\ count = Len(rows)
      BY <2>4, <2>6 DEF all
    <3>2. rs = [rows |-> [i \in 1..count |-> IF i <= Len(selected)
                                             THEN StoredRow(selected[i]) ELSE ZeroRow],
                of |-> rows, calm |-> c]
      BY DEF RowSet
    <3>3. RightSet(rs)
      <4> HIDE DEF c, rs, rows
      <4> QED BY <1>1, <2>1, <2>4, <3>1, <3>2, RegisteredIsRight
    <3>4. Registered
      <4> HIDE DEF rs
      <4>1. RegisterReturns(rs)
        BY <2>8 DEF rs
      <4> QED BY <1>1, <3>3, <4>1, Returns
    <3> QED BY <1>1, <1>2, <2>5, <3>4 DEF RegisterStep
  <2> QED BY <1>3, <2>3, <2>7, <2>8
<1>4. CASE RegisterReturns(NULL)
  <2>1. Works \/ Fails
    BY DEF Select, Barren
  <2>2. Registered
    BY <1>1, <1>4, Returns
  <2> QED BY <1>1, <1>2, <2>1, <2>2 DEF RegisterStep
<1> QED BY <1>3, <1>4 DEF Select

-----------------------------------------------------------------------------
(* Every step keeps the invariant. *)

(* The database, the counters and the place. *)
LEMMA BasicsStep ==
    ASSUME IInv, [Next]_vars
    PROVE  /\ db' \in Databases /\ edits' \in 0..MaxEdits /\ failures' \in 0..MaxFailures
           /\ count' \in Nat
           /\ pc' \in Final \cup Opening \cup Working \cup
                {"decide", "persist", "loopback", "stop", "release"}
<1>1. CASE HeadOpen
  BY <1>1, GatewayAssumption DEF HeadOpen, input, loader, Works, Fails, IInv, TypeOK,
    Final, Opening, Reading, Working, Listing
<1>2. CASE HeadRoot
  BY <1>2, GatewayAssumption DEF HeadRoot, input, loader, Works, Fails, Barren, IInv,
    TypeOK, Final, Opening, Reading, Working, Listing
<1>3. CASE HeadVersion
  BY <1>3, GatewayAssumption DEF HeadVersion, input, Works, Fails, IInv, TypeOK, Final,
    Opening, Reading, Working, Listing
<1>4. CASE HeadThreads
  BY <1>4, GatewayAssumption DEF HeadThreads, input, Works, Fails, IInv, TypeOK, Final,
    Opening, Reading, Working, Listing
<1>5. CASE Open
  BY <1>5, GatewayAssumption DEF Open, input, loader, Works, Fails, Barren, IInv, TypeOK,
    Final, Opening, Reading, Working, Listing
<1>6. CASE Walk
  BY <1>6, GatewayAssumption DEF Walk, input, history, IInv, TypeOK, Final, Opening,
    Reading, Working, Listing
<1>7. CASE Discover
  BY <1>7, GatewayAssumption DEF Discover, input, Works, Fails, Barren, IInv, TypeOK,
    Final, Opening, Reading, Working, Listing
<1>8. CASE NextTable
  BY <1>8, GatewayAssumption DEF NextTable, input, history, IInv, TypeOK, Final, Opening,
    Reading, Working, Listing
<1>9. CASE Count
  <2>1. RegisterStep
    BY <1>9, CountRegisters
  <2>2. pc' \in {"select", "overrun", "load"}
    BY <2>1 DEF RegisterStep, Registered
  <2>3. count' \in Nat
    BY <2>1 DEF RegisterStep, IInv, TypeOK
  <2>4. db' = db /\ edits' = edits /\ (Works \/ Fails)
    BY <2>1 DEF RegisterStep
  <2>5. failures' \in 0..MaxFailures
    BY <2>4, GatewayAssumption DEF Works, Fails, IInv, TypeOK
  <2> QED BY <2>2, <2>3, <2>4, <2>5 DEF IInv, TypeOK, Final, Working, Listing
<1>10. CASE Select
  <2>1. RegisterStep
    BY <1>10, SelectRegisters
  <2>2. pc' \in {"select", "overrun", "load"}
    BY <2>1 DEF RegisterStep, Registered
  <2>3. count' \in Nat
    BY <2>1 DEF RegisterStep, IInv, TypeOK
  <2>4. db' = db /\ edits' = edits /\ (Works \/ Fails)
    BY <2>1 DEF RegisterStep
  <2>5. failures' \in 0..MaxFailures
    BY <2>4, GatewayAssumption DEF Works, Fails, IInv, TypeOK
  <2> QED BY <2>2, <2>3, <2>4, <2>5 DEF IInv, TypeOK, Final, Working, Listing
<1>11. CASE Decide
  BY <1>11, GatewayAssumption DEF Decide, input, loader, history, IInv, TypeOK, Final,
    Opening, Reading, Working, Listing
<1>12. CASE StartPersist
  BY <1>12, GatewayAssumption DEF StartPersist, input, loader, Works, Fails, IInv, TypeOK,
    Final, Opening, Reading, Working, Listing
<1>13. CASE RunLoopback
  BY <1>13, GatewayAssumption DEF RunLoopback, input, loader, Works, Fails, Barren, IInv,
    TypeOK, Final, Opening, Reading, Working, Listing
<1>14. CASE StopPersist
  BY <1>14, GatewayAssumption DEF StopPersist, input, loader, history, IInv, TypeOK, Final,
    Opening, Reading, Working, Listing
<1>15. CASE Release
  BY <1>15, GatewayAssumption DEF Release, input, loader, history, IInv, TypeOK, Final,
    Opening, Reading, Working, Listing
<1>16. CASE Edit
  BY <1>16, GatewayAssumption DEF Edit, loader, IInv, TypeOK, Final, Opening, Reading,
    Working, Listing
<1>17. CASE UNCHANGED vars
  BY <1>17, GatewayAssumption DEF vars, input, loader, history, IInv, TypeOK, Final,
    Opening, Reading, Working, Listing
<1> QED BY <1>1, <1>2, <1>3, <1>4, <1>5, <1>6, <1>7, <1>8, <1>9,
  <1>10, <1>11, <1>12, <1>13, <1>14, <1>15, <1>16, <1>17 DEF Next, Step

(* What is allocated follows the place. *)
LEMMA HeldStep ==
    ASSUME IInv, [Next]_vars
    PROVE  HeldAt'
<1>1. CASE HeadOpen
  BY <1>1, GatewayAssumption DEF HeadOpen, input, loader, Works, Fails, IInv, TypeOK,
    HeldAt, Final, Listing
<1>2. CASE HeadRoot
  BY <1>2, GatewayAssumption DEF HeadRoot, input, loader, Works, Fails, Barren, IInv,
    TypeOK, HeldAt, Final, Listing
<1>3. CASE HeadVersion
  BY <1>3, GatewayAssumption DEF HeadVersion, input, Works, Fails, IInv, TypeOK, HeldAt,
    Final, Listing
<1>4. CASE HeadThreads
  BY <1>4, GatewayAssumption DEF HeadThreads, input, Works, Fails, IInv, TypeOK, HeldAt,
    Final, Listing
<1>5. CASE Open
  BY <1>5, GatewayAssumption DEF Open, input, loader, Works, Fails, Barren, IInv, TypeOK,
    HeldAt, Final, Listing
<1>6. CASE Walk
  BY <1>6, GatewayAssumption DEF Walk, input, history, IInv, TypeOK, HeldAt, Final, Listing
<1>7. CASE Discover
  BY <1>7, GatewayAssumption DEF Discover, input, Works, Fails, Barren, IInv, TypeOK,
    HeldAt, Final, Listing
<1>8. CASE NextTable
  BY <1>8, GatewayAssumption DEF NextTable, input, history, IInv, TypeOK, HeldAt, Final,
    Listing
<1>9. CASE Count
  BY <1>9, CountRegisters
  DEF RegisterStep, Registered, Works, Fails, IInv, TypeOK, HeldAt, Listing
<1>10. CASE Select
  BY <1>10, SelectRegisters
  DEF RegisterStep, Registered, Works, Fails, IInv, TypeOK, HeldAt, Listing
<1>11. CASE Decide
  BY <1>11, GatewayAssumption DEF Decide, input, loader, history, IInv, TypeOK, HeldAt,
    Final, Listing
<1>12. CASE StartPersist
  BY <1>12, GatewayAssumption DEF StartPersist, input, loader, Works, Fails, IInv, TypeOK,
    HeldAt, Final, Listing
<1>13. CASE RunLoopback
  BY <1>13, GatewayAssumption DEF RunLoopback, input, loader, Works, Fails, Barren, IInv,
    TypeOK, HeldAt, Final, Listing
<1>14. CASE StopPersist
  BY <1>14, GatewayAssumption DEF StopPersist, input, loader, history, IInv, TypeOK,
    HeldAt, Final, Listing
<1>15. CASE Release
  BY <1>15, GatewayAssumption DEF Release, input, loader, history, IInv, TypeOK, HeldAt,
    Final, Listing
<1>16. CASE Edit
  BY <1>16, GatewayAssumption DEF Edit, loader, IInv, TypeOK, HeldAt, Final, Listing
<1>17. CASE UNCHANGED vars
  BY <1>17, GatewayAssumption DEF vars, input, loader, history, IInv, TypeOK, HeldAt,
    Final, Listing
<1> QED BY <1>1, <1>2, <1>3, <1>4, <1>5, <1>6, <1>7, <1>8, <1>9,
  <1>10, <1>11, <1>12, <1>13, <1>14, <1>15, <1>16, <1>17 DEF Next, Step

(* Nothing is loaded before the point table is open. *)
LEMMA FreshStep ==
    ASSUME IInv, [Next]_vars
    PROVE  Fresh'
<1>1. CASE HeadOpen
  BY <1>1 DEF HeadOpen, input, loader, Works, Fails, IInv, Fresh, Opening, Reading
<1>2. CASE HeadRoot
  BY <1>2 DEF HeadRoot, input, loader, Works, Fails, Barren, IInv, Fresh, Opening, Reading
<1>3. CASE HeadVersion
  BY <1>3 DEF HeadVersion, input, Works, Fails, IInv, Fresh, Opening, Reading
<1>4. CASE HeadThreads
  BY <1>4 DEF HeadThreads, input, Works, Fails, IInv, Fresh, Opening, Reading
<1>5. CASE Open
  BY <1>5 DEF Open, input, loader, Works, Fails, Barren, IInv, Fresh, Opening, Reading
<1>6. CASE Walk
  BY <1>6 DEF Walk, input, history, IInv, Fresh, Opening, Reading
<1>7. CASE Discover
  BY <1>7 DEF Discover, input, Works, Fails, Barren, IInv, Fresh, Opening, Reading
<1>8. CASE NextTable
  BY <1>8 DEF NextTable, input, history, IInv, Fresh, Opening, Reading
<1>9. CASE Count
  BY <1>9, CountRegisters
  DEF RegisterStep, Registered, Works, Fails, IInv, Fresh, Opening, Reading
<1>10. CASE Select
  BY <1>10, SelectRegisters
  DEF RegisterStep, Registered, Works, Fails, IInv, Fresh, Opening, Reading
<1>11. CASE Decide
  BY <1>11 DEF Decide, input, loader, history, IInv, Fresh, Opening, Reading
<1>12. CASE StartPersist
  BY <1>12 DEF StartPersist, input, loader, Works, Fails, IInv, Fresh, Opening, Reading
<1>13. CASE RunLoopback
  BY <1>13 DEF RunLoopback, input, loader, Works, Fails, Barren, IInv, Fresh, Opening,
    Reading
<1>14. CASE StopPersist
  BY <1>14 DEF StopPersist, input, loader, history, IInv, Fresh, Opening, Reading
<1>15. CASE Release
  BY <1>15 DEF Release, input, loader, history, IInv, Fresh, Opening, Reading
<1>16. CASE Edit
  BY <1>16 DEF Edit, loader, IInv, Fresh, Opening, Reading
<1>17. CASE UNCHANGED vars
  BY <1>17 DEF vars, input, loader, history, IInv, Fresh, Opening, Reading
<1> QED BY <1>1, <1>2, <1>3, <1>4, <1>5, <1>6, <1>7, <1>8, <1>9,
  <1>10, <1>11, <1>12, <1>13, <1>14, <1>15, <1>16, <1>17 DEF Next, Step

(* The head is a version and a tree. *)
LEMMA TreeStep ==
    ASSUME IInv, [Next]_vars
    PROVE  Tree'
<1>1. CASE HeadOpen
  BY <1>1 DEF HeadOpen, input, loader, Works, Fails, IInv, Tree, Reading
<1>2. CASE HeadRoot
  BY <1>2 DEF HeadRoot, input, loader, Works, Fails, Barren, IInv, Tree, Reading
<1>3. CASE HeadVersion
  <2>1. db.version \in Int /\ <<>> \in Seq(Seq(Nodes))
    BY DatabaseFacts DEF IInv, TypeOK
  <2>2. PICK v \in Int : head' = [version |-> v, threads |-> <<>>]
    BY <1>3, <2>1 DEF HeadVersion
  <2>3. ASSUME NEW ts \in Seq(Seq(Nodes)) PROVE [version |-> v, threads |-> ts] \in Heads
    BY DEF Heads
  <2>4. head' \in Heads
    BY <2>1, <2>2, <2>3
  <2> QED BY <2>4 DEF Tree
<1>4. CASE HeadThreads
  <2>1. head \in Heads /\ db.threads \in Seq(Seq(Nodes))
    BY <1>4, DatabaseFacts DEF HeadThreads, IInv, TypeOK, Tree, Reading
  <2>2. PICK ts : ts \in Seq(Seq(Nodes)) /\ head' = [head EXCEPT !.threads = ts]
    <3>1. CASE Works /\ head' = [head EXCEPT !.threads = db.threads]
      BY <2>1, <3>1
    <3>2. CASE Fails /\ \E us \in CutShort(db.threads) : head' = [head EXCEPT !.threads = us]
      BY <2>1, <3>2, CutShortFacts
    <3> QED BY <1>4, <3>1, <3>2 DEF HeadThreads
  <2>3. head' \in Heads
    BY <2>1, <2>2 DEF Heads
  <2> QED BY <2>3 DEF Tree
<1>5. CASE Open
  BY <1>5 DEF Open, input, loader, Works, Fails, Barren, IInv, Tree, Reading
<1>6. CASE Walk
  BY <1>6 DEF Walk, input, history, IInv, Tree, Reading
<1>7. CASE Discover
  BY <1>7 DEF Discover, input, Works, Fails, Barren, IInv, Tree, Reading
<1>8. CASE NextTable
  BY <1>8 DEF NextTable, input, history, IInv, Tree, Reading
<1>9. CASE Count
  BY <1>9, CountRegisters
  DEF RegisterStep, Registered, Works, Fails, IInv, Tree, Reading
<1>10. CASE Select
  BY <1>10, SelectRegisters
  DEF RegisterStep, Registered, Works, Fails, IInv, Tree, Reading
<1>11. CASE Decide
  BY <1>11 DEF Decide, input, loader, history, IInv, Tree, Reading
<1>12. CASE StartPersist
  BY <1>12 DEF StartPersist, input, loader, Works, Fails, IInv, Tree, Reading
<1>13. CASE RunLoopback
  BY <1>13 DEF RunLoopback, input, loader, Works, Fails, Barren, IInv, Tree, Reading
<1>14. CASE StopPersist
  BY <1>14 DEF StopPersist, input, loader, history, IInv, Tree, Reading
<1>15. CASE Release
  BY <1>15 DEF Release, input, loader, history, IInv, Tree, Reading
<1>16. CASE Edit
  BY <1>16 DEF Edit, loader, IInv, Tree, Reading
<1>17. CASE UNCHANGED vars
  BY <1>17 DEF vars, input, loader, history, IInv, Tree, Reading
<1> QED BY <1>1, <1>2, <1>3, <1>4, <1>5, <1>6, <1>7, <1>8, <1>9,
  <1>10, <1>11, <1>12, <1>13, <1>14, <1>15, <1>16, <1>17 DEF Next, Step

(* The version of the head is not ahead of the database's. *)
LEMMA VersionsStep ==
    ASSUME IInv, [Next]_vars
    PROVE  Versions'
<1>1. CASE HeadOpen
  BY <1>1 DEF HeadOpen, input, loader, Works, Fails, IInv, Versions
<1>2. CASE HeadRoot
  BY <1>2 DEF HeadRoot, input, loader, Works, Fails, Barren, IInv, Versions
<1>3. CASE HeadVersion
  <2> SUFFICES ASSUME failures' = 0 PROVE head'.version <= db'.version /\ pc' /= "open"
    BY DEF Versions
  <2>1. db.version \in Int /\ failures \in Nat
    BY DatabaseFacts, GatewayAssumption DEF IInv, TypeOK
  <2> QED BY <1>3, <2>1 DEF HeadVersion, Fails, input
<1>4. CASE HeadThreads
  <2> SUFFICES ASSUME ~silent', failures' = 0
               PROVE  /\ head'.version <= db'.version /\ head'.threads = db'.threads
    BY DEF Versions
  <2>1. head \in Heads /\ failures \in Nat /\ pc = "head_threads"
    BY <1>4, GatewayAssumption DEF HeadThreads, IInv, TypeOK, Tree, Reading
  <2>2. head' = [head EXCEPT !.threads = db.threads] /\ failures = 0 /\ ~silent /\ db' = db
    BY <1>4, <2>1 DEF HeadThreads, Works, Fails, input
  <2>3. head'.version = head.version /\ head'.threads = db.threads
    BY <2>1, <2>2 DEF Heads
  <2> QED BY <2>1, <2>2, <2>3 DEF IInv, Versions
<1>5. CASE Open
  BY <1>5 DEF Open, input, loader, Works, Fails, Barren, IInv, Versions
<1>6. CASE Walk
  BY <1>6 DEF Walk, input, history, IInv, Versions
<1>7. CASE Discover
  BY <1>7 DEF Discover, input, Works, Fails, Barren, IInv, Versions
<1>8. CASE NextTable
  BY <1>8 DEF NextTable, input, history, IInv, Versions
<1>9. CASE Count
  BY <1>9, CountRegisters
  DEF RegisterStep, Registered, Works, Fails, IInv, Versions
<1>10. CASE Select
  BY <1>10, SelectRegisters
  DEF RegisterStep, Registered, Works, Fails, IInv, Versions
<1>11. CASE Decide
  BY <1>11 DEF Decide, input, loader, history, IInv, Versions
<1>12. CASE StartPersist
  BY <1>12 DEF StartPersist, input, loader, Works, Fails, IInv, Versions
<1>13. CASE RunLoopback
  BY <1>13 DEF RunLoopback, input, loader, Works, Fails, Barren, IInv, Versions
<1>14. CASE StopPersist
  BY <1>14 DEF StopPersist, input, loader, history, IInv, Versions
<1>15. CASE Release
  BY <1>15 DEF Release, input, loader, history, IInv, Versions
<1>16. CASE Edit
  <2> SUFFICES ASSUME ~silent', failures' = 0, pc' \in {"head_threads", "open"}
               PROVE  head'.version < db'.version
    <3>1. \/ db'.version \in Int /\ head.version \in Int
          \/ pc \notin {"head_threads", "open"}
      BY <1>16, DatabaseFacts DEF Edit, IInv, Tree, Reading, Heads
    <3> QED BY <1>16, <3>1 DEF Edit, Versions, loader
  <2>1. /\ db.version \in Int /\ db'.version \in Int /\ head \in Heads /\ head' = head
        /\ failures = 0 /\ pc \in {"head_threads", "open"}
    BY <1>16, DatabaseFacts DEF Edit, IInv, TypeOK, Tree, Reading, loader
  <2>2. ~silent /\ ~(db'.version <= db.version)
    BY <1>16 DEF Edit
  <2>3. head.version <= db.version /\ head.version \in Int
    BY <2>1, <2>2 DEF IInv, Versions, Heads
  <2> QED BY <2>1, <2>2, <2>3
<1>17. CASE UNCHANGED vars
  BY <1>17 DEF vars, input, loader, history, IInv, Versions
<1> QED BY <1>1, <1>2, <1>3, <1>4, <1>5, <1>6, <1>7, <1>8, <1>9,
  <1>10, <1>11, <1>12, <1>13, <1>14, <1>15, <1>16, <1>17 DEF Next, Step

(* An opened point table goes with the tree in the head. *)
LEMMA TopologyStep ==
    ASSUME IInv, [Next]_vars
    PROVE  StaleTopologyRefused'
<1>1. CASE HeadOpen
  BY <1>1, GatewayAssumption DEF HeadOpen, input, loader, Works, Fails, IInv, TypeOK,
    StaleTopologyRefused, Fresh, Opening, Reading
<1>2. CASE HeadRoot
  BY <1>2, GatewayAssumption DEF HeadRoot, input, loader, Works, Fails, Barren, IInv,
    TypeOK, StaleTopologyRefused, Fresh, Opening, Reading
<1>3. CASE HeadVersion
  BY <1>3, GatewayAssumption DEF HeadVersion, input, Works, Fails, IInv, TypeOK,
    StaleTopologyRefused, Fresh, Opening, Reading
<1>4. CASE HeadThreads
  BY <1>4, GatewayAssumption DEF HeadThreads, input, Works, Fails, IInv, TypeOK,
    StaleTopologyRefused, Fresh, Opening, Reading
<1>5. CASE Open
  <2> SUFFICES ASSUME openedOn' /= NULL, ~silent', failures' = 0
               PROVE  head'.threads = openedOn'
    BY DEF StaleTopologyRefused
  <2>1. failures \in Nat /\ openedOn = NULL /\ pc = "open"
    BY <1>5, GatewayAssumption DEF Open, IInv, TypeOK, Fresh, Opening
  <2>2. failures = 0 /\ ~silent /\ head' = head
    BY <1>5, <2>1 DEF Open, Works, Fails, Barren, loader
  <2>3. openedOn' = db.threads /\ db.version = head.version
    BY <1>5, <2>1 DEF Open, Works, Fails
  <2> QED BY <2>1, <2>2, <2>3 DEF IInv, Versions
<1>6. CASE Walk
  BY <1>6, GatewayAssumption DEF Walk, input, history, IInv, TypeOK, StaleTopologyRefused,
    Fresh, Opening, Reading
<1>7. CASE Discover
  BY <1>7, GatewayAssumption DEF Discover, input, Works, Fails, Barren, IInv, TypeOK,
    StaleTopologyRefused, Fresh, Opening, Reading
<1>8. CASE NextTable
  BY <1>8, GatewayAssumption DEF NextTable, input, history, IInv, TypeOK,
    StaleTopologyRefused, Fresh, Opening, Reading
<1>9. CASE Count
  <2>1. /\ head' = head /\ openedOn' = openedOn /\ silent' = silent
        /\ Works \/ Fails
    BY <1>9, CountRegisters DEF RegisterStep
  <2>2. failures' = 0 => failures = 0
    BY <2>1, GatewayAssumption DEF Works, Fails, IInv, TypeOK
  <2> QED BY <2>1, <2>2 DEF IInv, StaleTopologyRefused
<1>10. CASE Select
  <2>1. /\ head' = head /\ openedOn' = openedOn /\ silent' = silent
        /\ Works \/ Fails
    BY <1>10, SelectRegisters DEF RegisterStep
  <2>2. failures' = 0 => failures = 0
    BY <2>1, GatewayAssumption DEF Works, Fails, IInv, TypeOK
  <2> QED BY <2>1, <2>2 DEF IInv, StaleTopologyRefused
<1>11. CASE Decide
  BY <1>11, GatewayAssumption DEF Decide, input, loader, history, IInv, TypeOK,
    StaleTopologyRefused, Fresh, Opening, Reading
<1>12. CASE StartPersist
  BY <1>12, GatewayAssumption DEF StartPersist, input, loader, Works, Fails, IInv, TypeOK,
    StaleTopologyRefused, Fresh, Opening, Reading
<1>13. CASE RunLoopback
  BY <1>13, GatewayAssumption DEF RunLoopback, input, loader, Works, Fails, Barren, IInv,
    TypeOK, StaleTopologyRefused, Fresh, Opening, Reading
<1>14. CASE StopPersist
  BY <1>14, GatewayAssumption DEF StopPersist, input, loader, history, IInv, TypeOK,
    StaleTopologyRefused, Fresh, Opening, Reading
<1>15. CASE Release
  BY <1>15, GatewayAssumption DEF Release, input, loader, history, IInv, TypeOK,
    StaleTopologyRefused, Fresh, Opening, Reading
<1>16. CASE Edit
  BY <1>16, GatewayAssumption DEF Edit, loader, IInv, TypeOK, StaleTopologyRefused, Fresh,
    Opening, Reading
<1>17. CASE UNCHANGED vars
  BY <1>17, GatewayAssumption DEF vars, input, loader, history, IInv, TypeOK,
    StaleTopologyRefused, Fresh, Opening, Reading
<1> QED BY <1>1, <1>2, <1>3, <1>4, <1>5, <1>6, <1>7, <1>8, <1>9,
  <1>10, <1>11, <1>12, <1>13, <1>14, <1>15, <1>16, <1>17 DEF Next, Step

(* The walk is at a protocol node while its tables are loaded, each once. *)
LEMMA PlaceStep ==
    ASSUME IInv, [Next]_vars
    PROVE  Place'
<1>1. names \in Seq(STRING) /\ IsInjective(names) /\ at \in Pos \X Pos
  BY DEF IInv, Place
<1>2. CASE HeadOpen
  BY <1>2, <1>1 DEF HeadOpen, input, loader, Works, Fails, IInv, Place, Listing
<1>3. CASE HeadRoot
  BY <1>3, <1>1 DEF HeadRoot, input, loader, Works, Fails, Barren, IInv, Place, Listing
<1>4. CASE HeadVersion
  BY <1>4, <1>1 DEF HeadVersion, input, Works, Fails, IInv, Place, Listing
<1>5. CASE HeadThreads
  BY <1>5, <1>1 DEF HeadThreads, input, Works, Fails, IInv, Place, Listing
<1>6. CASE Open
  BY <1>6, <1>1 DEF Open, input, loader, Works, Fails, Barren, IInv, Place, Listing
<1>7. CASE Walk
  <2>1. /\ at' = at \/ at' = <<at[1] + 1, 1>> \/ at' = <<at[1], at[2] + 1>>
        /\ head' = head /\ names' = names
    BY <1>7 DEF Walk
  <2>2. at' \in Pos \X Pos
    BY <1>1, <2>1 DEF Pos
  <2>3. pc' \in {"walk", "discover", "decide"}
    BY <1>7 DEF Walk
  <2>4. ASSUME pc' = "discover" PROVE at' \in Protocols(head'.threads)
    <3>1. /\ ~(at[1] > Len(head.threads)) /\ ~(at[2] > Len(thread))
          /\ node.type = "protocol" /\ at' = at
      BY <1>7, <2>4 DEF Walk
    <3>2. head.threads \in Seq(Seq(Nodes))
      BY <1>7 DEF Walk, IInv, Tree, Reading, Heads
    <3>3. at[1] \in DOMAIN head.threads
      BY <1>1, <3>1, <3>2 DEF Pos
    <3>4. thread \in Seq(Nodes)
      BY <3>2, <3>3 DEF thread
    <3>5. at[2] \in DOMAIN thread
      BY <1>1, <3>1, <3>4 DEF Pos
    <3>6. at = <<at[1], at[2]>>
      BY <1>1
    <3> QED BY <2>1, <3>1, <3>3, <3>5, <3>6, ProtocolsFacts DEF thread, node
  <2> QED BY <1>1, <2>1, <2>2, <2>3, <2>4 DEF Place, Listing
<1>8. CASE Discover
  <2>1. /\ head' = head /\ pc = "discover" /\ at \in Protocols(head.threads)
        /\ \/ pc' = "load" /\ at' = at
           \/ pc' = "walk" /\ at' = <<at[1], at[2] + 1>> /\ names' = names
    BY <1>8 DEF Discover, IInv, Place
  <2>2. at' \in Pos \X Pos
    BY <1>1, <2>1 DEF Pos
  <2>3. names' \in Seq(STRING) /\ IsInjective(names')
    <3>1. CASE names' = names
      BY <1>1, <3>1
    <3>2. CASE names' /= names
      <4>1. node.desc \in DOMAIN db.manifests
        BY <1>8, <3>2 DEF Discover
      <4>2. db.manifests[node.desc] \in Seq(STRING) /\ IsInjective(db.manifests[node.desc])
        BY <4>1, DatabaseFacts DEF IInv, TypeOK
      <4>3. Discovered \in Seq(STRING) /\ IsInjective(Discovered)
        BY <4>2, ExistingFacts DEF Discovered
      <4>4. \/ names' = Discovered
            \/ \E i \in DOMAIN Discovered : names' = RemoveAt(Discovered, i)
        BY <1>8, <3>2 DEF Discover
      <4> QED BY <4>3, <4>4, RemoveAtFacts
    <3> QED BY <3>1, <3>2
  <2> QED BY <2>1, <2>2, <2>3 DEF Place, Listing
<1>9. CASE NextTable
  <2>1. /\ head' = head /\ pc = "load" /\ at \in Protocols(head.threads)
        /\ \/ pc' = "walk" /\ at' = <<at[1], at[2] + 1>> /\ names' = names
           \/ pc' = "count" /\ at' = at /\ names' = names /\ names /= <<>>
              /\ Head(names) \in Loadable
           \/ pc' = "load" /\ at' = at /\ names' = Tail(names) /\ names /= <<>>
    BY <1>9 DEF NextTable, IInv, Place, Listing
  <2>2. at' \in Pos \X Pos
    BY <1>1, <2>1 DEF Pos
  <2>3. names' \in Seq(STRING) /\ IsInjective(names')
    BY <1>1, <2>1, TailOfNames
  <2> QED BY <2>1, <2>2, <2>3 DEF Place, Listing
<1>10. CASE Count
  <2>1. /\ head' = head /\ at' = at /\ pc \in {"count", "select"}
        /\ \/ names' = names /\ pc' \in {"select", "overrun"}
           \/ names' = Tail(names) /\ pc' = "load"
    BY <1>10, CountRegisters DEF RegisterStep, Registered
  <2>2. /\ names /= <<>> /\ Head(names) \in Loadable
        /\ at \in Protocols(head.threads)
    BY <2>1 DEF IInv, Place, Listing
  <2>3. names' \in Seq(STRING) /\ IsInjective(names')
    BY <1>1, <2>1, <2>2, TailOfNames
  <2> QED BY <1>1, <2>1, <2>2, <2>3 DEF Place, Listing
<1>11. CASE Select
  <2>1. /\ head' = head /\ at' = at /\ pc \in {"count", "select"}
        /\ \/ names' = names /\ pc' \in {"select", "overrun"}
           \/ names' = Tail(names) /\ pc' = "load"
    BY <1>11, SelectRegisters DEF RegisterStep, Registered
  <2>2. /\ names /= <<>> /\ Head(names) \in Loadable
        /\ at \in Protocols(head.threads)
    BY <2>1 DEF IInv, Place, Listing
  <2>3. names' \in Seq(STRING) /\ IsInjective(names')
    BY <1>1, <2>1, <2>2, TailOfNames
  <2> QED BY <1>1, <2>1, <2>2, <2>3 DEF Place, Listing
<1>12. CASE Decide
  BY <1>12, <1>1 DEF Decide, input, loader, history, IInv, Place, Listing
<1>13. CASE StartPersist
  BY <1>13, <1>1 DEF StartPersist, input, loader, Works, Fails, IInv, Place, Listing
<1>14. CASE RunLoopback
  BY <1>14, <1>1 DEF RunLoopback, input, loader, Works, Fails, Barren, IInv, Place, Listing
<1>15. CASE StopPersist
  BY <1>15, <1>1 DEF StopPersist, input, loader, history, IInv, Place, Listing
<1>16. CASE Release
  BY <1>16, <1>1 DEF Release, input, loader, history, IInv, Place, Listing
<1>17. CASE Edit
  BY <1>17, <1>1 DEF Edit, loader, IInv, Place, Listing
<1>18. CASE UNCHANGED vars
  BY <1>18, <1>1 DEF vars, input, loader, history, IInv, Place, Listing
<1> QED BY <1>2, <1>3, <1>4, <1>5, <1>6, <1>7, <1>8, <1>9, <1>10,
  <1>11, <1>12, <1>13, <1>14, <1>15, <1>16, <1>17, <1>18 DEF Next, Step

(* A node before another is not it, and stays before what follows it. *)
LEMMA AheadIsOther ==
    ASSUME NEW p, NEW q, p[1] \in Int, p[2] \in Int, q \in Pos \X Pos, Before(p, q)
    PROVE  /\ p /= q
           /\ Before(p, <<q[1] + 1, 1>>) /\ Before(p, <<q[1], q[2] + 1>>)
BY DEF Before, Pos

(* A row set is loaded once at a protocol node. *)
LEMMA LoadedStep ==
    ASSUME IInv, [Next]_vars
    PROVE  Loaded'
<1>1. names \in Seq(STRING) /\ IsInjective(names) /\ at \in Pos \X Pos
  BY DEF IInv, Place
<1>2. ASSUME pc \in Working, NEW p \in Protocols(head.threads) PROVE p[1] \in Int /\ p[2] \in Int
  <2>1. head.threads \in Seq(Seq(Nodes))
    BY <1>2 DEF IInv, Tree, Heads, Reading, Working, Listing
  <2>2. p[1] \in DOMAIN head.threads /\ p[2] \in DOMAIN head.threads[p[1]]
    BY ProtocolsFacts
  <2>3. head.threads[p[1]] \in Seq(Nodes)
    BY <2>1, <2>2
  <2> QED BY <2>1, <2>2, <2>3
<1>3. CASE HeadOpen
  BY <1>3, <1>1 DEF HeadOpen, input, loader, Works, Fails, IInv, Loaded, Fresh,
    LoadedBefore, Working, Listing, Opening, Reading
<1>4. CASE HeadRoot
  BY <1>4, <1>1 DEF HeadRoot, input, loader, Works, Fails, Barren, IInv, Loaded, Fresh,
    LoadedBefore, Working, Listing, Opening, Reading
<1>5. CASE HeadVersion
  BY <1>5, <1>1 DEF HeadVersion, input, Works, Fails, IInv, Loaded, Fresh, LoadedBefore,
    Working, Listing, Opening, Reading
<1>6. CASE HeadThreads
  BY <1>6, <1>1 DEF HeadThreads, input, Works, Fails, IInv, Loaded, Fresh, LoadedBefore,
    Working, Listing, Opening, Reading
<1>7. CASE Open
  BY <1>7, <1>1 DEF Open, input, loader, Works, Fails, Barren, IInv, Loaded, Fresh,
    LoadedBefore, Working, Listing, Opening, Reading
<1>8. CASE Walk
  <2>1. /\ head' = head /\ UNCHANGED <<names, master_rs, slave_rs, lost>>
        /\ at' = at \/ at' = <<at[1] + 1, 1>> \/ at' = <<at[1], at[2] + 1>>
        /\ pc = "walk" /\ pc' \in {"walk", "discover", "decide"}
    BY <1>8 DEF Walk, history
  <2>2. ASSUME NEW p \in Protocols(head.threads), Before(p, at) PROVE Before(p, at')
    <3>1. p[1] \in Int /\ p[2] \in Int
      BY <1>2, <2>1 DEF Working, Listing
    <3>2. Before(p, <<at[1] + 1, 1>>) /\ Before(p, <<at[1], at[2] + 1>>)
      BY <1>1, <2>2, <3>1, AheadIsOther
    <3> QED BY <2>1, <2>2, <3>2
  <2>3. ASSUME NEW t, LoadedBefore(t) PROVE LoadedBefore(t)'
    BY <2>1, <2>2, <2>3 DEF LoadedBefore, Listing
  <2> QED BY <2>1, <2>3 DEF IInv, Loaded, Working
<1>9. CASE Discover
  <2>1. /\ head' = head /\ UNCHANGED <<master_rs, slave_rs, lost>>
        /\ pc = "discover"
        /\ at' = at \/ at' = <<at[1], at[2] + 1>>
    BY <1>9 DEF Discover
  <2>2. ASSUME NEW p \in Protocols(head.threads), Before(p, at) PROVE Before(p, at')
    <3>1. p[1] \in Int /\ p[2] \in Int
      BY <1>2, <2>1 DEF Working, Listing
    <3>2. Before(p, <<at[1] + 1, 1>>) /\ Before(p, <<at[1], at[2] + 1>>)
      BY <1>1, <2>2, <3>1, AheadIsOther
    <3> QED BY <2>1, <2>2, <3>2
  <2>3. ASSUME NEW t, LoadedBefore(t) PROVE LoadedBefore(t)'
    BY <2>1, <2>2, <2>3 DEF LoadedBefore, Listing
  <2> QED BY <2>1, <2>3 DEF IInv, Loaded, Working
<1>10. CASE NextTable
  <2>1. /\ head' = head /\ UNCHANGED <<master_rs, slave_rs, lost>>
        /\ pc = "load" /\ at \in Protocols(head.threads)
        /\ \/ pc' = "walk" /\ at' = <<at[1], at[2] + 1>>
           \/ pc' \in Listing /\ at' = at /\ names' = names
           \/ pc' \in Listing /\ at' = at /\ names' = Tail(names) /\ names /= <<>>
    BY <1>10 DEF NextTable, IInv, Place, Listing, history
  <2>2. ASSUME NEW p \in Protocols(head.threads), Before(p, at) PROVE Before(p, at')
    <3>1. p[1] \in Int /\ p[2] \in Int
      BY <1>2, <2>1 DEF Working, Listing
    <3>2. Before(p, <<at[1] + 1, 1>>) /\ Before(p, <<at[1], at[2] + 1>>)
      BY <1>1, <2>2, <3>1, AheadIsOther
    <3> QED BY <2>1, <2>2, <3>2
  <2>3. ASSUME at' /= at PROVE Before(at, at')
    BY <1>1, <2>1, <2>3 DEF Before, Pos
  <2>4. at' = at => pc' \in Listing /\ Range(names') \subseteq Range(names)
    <3>1. at /= <<at[1], at[2] + 1>>
      BY <1>1 DEF Pos
    <3>2. names /= <<>> => Range(Tail(names)) \subseteq Range(names)
      BY <1>1, TailOfNames
    <3> QED BY <2>1, <3>1, <3>2
  <2>5. ASSUME NEW t, LoadedBefore(t) PROVE LoadedBefore(t)'
    <3>1. CASE at' /= at
      BY <2>1, <2>3, <3>1 DEF LoadedBefore
    <3>2. CASE at' = at
      BY <2>1, <2>4, <2>5, <3>2 DEF LoadedBefore
    <3> QED BY <3>1, <3>2
  <2> QED BY <2>1, <2>5 DEF IInv, Loaded, Working, Listing
<1>11. CASE Count
  <2>1. /\ head' = head /\ at' = at /\ pc \in {"count", "select"}
        /\ \/ names' = names /\ pc' \in {"select", "overrun"}
              /\ UNCHANGED <<master_rs, slave_rs, lost>>
           \/ Registered
    BY <1>11, CountRegisters DEF RegisterStep
  <2>2. names /= <<>> /\ at \in Protocols(head.threads)
    BY <2>1 DEF IInv, Place, Listing
  <2>3. CASE names' = names /\ pc' \in {"select", "overrun"}
             /\ UNCHANGED <<master_rs, slave_rs, lost>>
    BY <2>1, <2>3 DEF IInv, Loaded, LoadedBefore, Working, Listing
  <2>4. CASE Registered
    <3>1. names' = Tail(names) /\ pc' = "load"
      BY <2>4 DEF Registered
    <3>2. Range(names') \subseteq Range(names) /\ Head(names) \notin Range(names')
      BY <1>1, <2>2, <3>1, TailOfNames
    <3>3. Head(names) \in Range(names)
      BY <1>1, <2>2 DEF Range
    <3>4. (\E p \in Protocols(head.threads) : Before(p, at))
          => \E p, q \in Protocols(head.threads) : p /= q
      <4> SUFFICES ASSUME NEW p \in Protocols(head.threads), Before(p, at)
                   PROVE  p /= at
        BY <2>2
      <4>1. p[1] \in Int /\ p[2] \in Int
        BY <1>2, <2>1 DEF Working, Listing
      <4> QED BY <1>1, <4>1, AheadIsOther
    <3>5. ASSUME NEW t, LoadedBefore(t) PROVE LoadedBefore(t)'
      BY <2>1, <3>1, <3>2, <3>5 DEF LoadedBefore, Listing
    <3>6. pc \in Working /\ (\A t : t = table => LoadedBefore(t)')
      BY <2>1, <3>1, <3>2 DEF LoadedBefore, Working, Listing, table
    <3>7. LoadedBefore(table) => \E p, q \in Protocols(head.threads) : p /= q
      BY <3>3, <3>4 DEF LoadedBefore, table
    <3>8. lost => \E p, q \in Protocols(head.threads) : p /= q
      BY DEF IInv, Loaded
    <3>9. \/ /\ table = "southbound" /\ slave_rs' = slave_rs
             /\ lost' => lost \/ master_rs /= NULL
          \/ /\ table = "northbound" /\ master_rs' = master_rs
             /\ lost' => lost \/ slave_rs /= NULL
          \/ UNCHANGED <<master_rs, slave_rs, lost>>
      BY <2>4 DEF Registered
    <3>10. /\ master_rs /= NULL => LoadedBefore("southbound")
           /\ slave_rs /= NULL => LoadedBefore("northbound")
      BY <3>6 DEF IInv, Loaded
    <3>11. lost' => \E p, q \in Protocols(head'.threads) : p /= q
      BY <2>1, <3>7, <3>8, <3>9, <3>10
    <3>12. master_rs' /= NULL => LoadedBefore("southbound")'
      <4>1. CASE table = "southbound"
        BY <3>6, <4>1
      <4>2. CASE master_rs' = master_rs
        BY <3>5, <3>10, <4>2
      <4> QED BY <3>9, <4>1, <4>2
    <3>13. slave_rs' /= NULL => LoadedBefore("northbound")'
      <4>1. CASE table = "northbound"
        BY <3>6, <4>1
      <4>2. CASE slave_rs' = slave_rs
        BY <3>5, <3>10, <4>2
      <4> QED BY <3>9, <4>1, <4>2
    <3> QED BY <3>11, <3>12, <3>13 DEF Loaded
  <2> QED BY <2>1, <2>3, <2>4
<1>12. CASE Select
  <2>1. /\ head' = head /\ at' = at /\ pc \in {"count", "select"}
        /\ \/ names' = names /\ pc' \in {"select", "overrun"}
              /\ UNCHANGED <<master_rs, slave_rs, lost>>
           \/ Registered
    BY <1>12, SelectRegisters DEF RegisterStep
  <2>2. names /= <<>> /\ at \in Protocols(head.threads)
    BY <2>1 DEF IInv, Place, Listing
  <2>3. CASE names' = names /\ pc' \in {"select", "overrun"}
             /\ UNCHANGED <<master_rs, slave_rs, lost>>
    BY <2>1, <2>3 DEF IInv, Loaded, LoadedBefore, Working, Listing
  <2>4. CASE Registered
    <3>1. names' = Tail(names) /\ pc' = "load"
      BY <2>4 DEF Registered
    <3>2. Range(names') \subseteq Range(names) /\ Head(names) \notin Range(names')
      BY <1>1, <2>2, <3>1, TailOfNames
    <3>3. Head(names) \in Range(names)
      BY <1>1, <2>2 DEF Range
    <3>4. (\E p \in Protocols(head.threads) : Before(p, at))
          => \E p, q \in Protocols(head.threads) : p /= q
      <4> SUFFICES ASSUME NEW p \in Protocols(head.threads), Before(p, at)
                   PROVE  p /= at
        BY <2>2
      <4>1. p[1] \in Int /\ p[2] \in Int
        BY <1>2, <2>1 DEF Working, Listing
      <4> QED BY <1>1, <4>1, AheadIsOther
    <3>5. ASSUME NEW t, LoadedBefore(t) PROVE LoadedBefore(t)'
      BY <2>1, <3>1, <3>2, <3>5 DEF LoadedBefore, Listing
    <3>6. pc \in Working /\ (\A t : t = table => LoadedBefore(t)')
      BY <2>1, <3>1, <3>2 DEF LoadedBefore, Working, Listing, table
    <3>7. LoadedBefore(table) => \E p, q \in Protocols(head.threads) : p /= q
      BY <3>3, <3>4 DEF LoadedBefore, table
    <3>8. lost => \E p, q \in Protocols(head.threads) : p /= q
      BY DEF IInv, Loaded
    <3>9. \/ /\ table = "southbound" /\ slave_rs' = slave_rs
             /\ lost' => lost \/ master_rs /= NULL
          \/ /\ table = "northbound" /\ master_rs' = master_rs
             /\ lost' => lost \/ slave_rs /= NULL
          \/ UNCHANGED <<master_rs, slave_rs, lost>>
      BY <2>4 DEF Registered
    <3>10. /\ master_rs /= NULL => LoadedBefore("southbound")
           /\ slave_rs /= NULL => LoadedBefore("northbound")
      BY <3>6 DEF IInv, Loaded
    <3>11. lost' => \E p, q \in Protocols(head'.threads) : p /= q
      BY <2>1, <3>7, <3>8, <3>9, <3>10
    <3>12. master_rs' /= NULL => LoadedBefore("southbound")'
      <4>1. CASE table = "southbound"
        BY <3>6, <4>1
      <4>2. CASE master_rs' = master_rs
        BY <3>5, <3>10, <4>2
      <4> QED BY <3>9, <4>1, <4>2
    <3>13. slave_rs' /= NULL => LoadedBefore("northbound")'
      <4>1. CASE table = "northbound"
        BY <3>6, <4>1
      <4>2. CASE slave_rs' = slave_rs
        BY <3>5, <3>10, <4>2
      <4> QED BY <3>9, <4>1, <4>2
    <3> QED BY <3>11, <3>12, <3>13 DEF Loaded
  <2> QED BY <2>1, <2>3, <2>4
<1>13. CASE Decide
  BY <1>13, <1>1 DEF Decide, input, loader, history, IInv, Loaded, Fresh, LoadedBefore,
    Working, Listing, Opening, Reading
<1>14. CASE StartPersist
  BY <1>14, <1>1 DEF StartPersist, input, loader, Works, Fails, IInv, Loaded, Fresh,
    LoadedBefore, Working, Listing, Opening, Reading
<1>15. CASE RunLoopback
  BY <1>15, <1>1 DEF RunLoopback, input, loader, Works, Fails, Barren, IInv, Loaded, Fresh,
    LoadedBefore, Working, Listing, Opening, Reading
<1>16. CASE StopPersist
  BY <1>16, <1>1 DEF StopPersist, input, loader, history, IInv, Loaded, Fresh,
    LoadedBefore, Working, Listing, Opening, Reading
<1>17. CASE Release
  BY <1>17, <1>1 DEF Release, input, loader, history, IInv, Loaded, Fresh, LoadedBefore,
    Working, Listing, Opening, Reading
<1>18. CASE Edit
  BY <1>18, <1>1 DEF Edit, loader, IInv, Loaded, Fresh, LoadedBefore, Working, Listing,
    Opening, Reading
<1>19. CASE UNCHANGED vars
  BY <1>19, <1>1 DEF vars, input, loader, history, IInv, Loaded, Fresh, LoadedBefore,
    Working, Listing, Opening, Reading
<1> QED BY <1>3, <1>4, <1>5, <1>6, <1>7, <1>8, <1>9, <1>10, <1>11,
  <1>12, <1>13, <1>14, <1>15, <1>16, <1>17, <1>18, <1>19 DEF Next, Step

(* An undisturbed count is the number of rows. *)
LEMMA CountedStep ==
    ASSUME IInv, [Next]_vars
    PROVE  Counted'
<1>1. CASE HeadOpen
  BY <1>1 DEF HeadOpen, input, loader, Works, Fails, IInv, Counted
<1>2. CASE HeadRoot
  BY <1>2 DEF HeadRoot, input, loader, Works, Fails, Barren, IInv, Counted
<1>3. CASE HeadVersion
  BY <1>3 DEF HeadVersion, input, Works, Fails, IInv, Counted
<1>4. CASE HeadThreads
  BY <1>4 DEF HeadThreads, input, Works, Fails, IInv, Counted
<1>5. CASE Open
  BY <1>5 DEF Open, input, loader, Works, Fails, Barren, IInv, Counted
<1>6. CASE Walk
  BY <1>6 DEF Walk, input, history, IInv, Counted
<1>7. CASE Discover
  BY <1>7 DEF Discover, input, Works, Fails, Barren, IInv, Counted
<1>8. CASE NextTable
  BY <1>8 DEF NextTable, input, history, IInv, Counted
<1>9. CASE Count
  <2>1. /\ db' = db
        /\ \/ pc' = "select" /\ names' = names /\ (calm' => count' = Len(db.tables[table].rows))
           \/ pc' \in {"load", "overrun"}
    BY <1>9, CountRegisters DEF RegisterStep, Registered
  <2> QED BY <2>1 DEF Counted, table
<1>10. CASE Select
  <2>1. /\ db' = db
        /\ \/ pc' = "select" /\ names' = names /\ (calm' => count' = Len(db.tables[table].rows))
           \/ pc' \in {"load", "overrun"}
    BY <1>10, SelectRegisters DEF RegisterStep, Registered
  <2> QED BY <2>1 DEF Counted, table
<1>11. CASE Decide
  BY <1>11 DEF Decide, input, loader, history, IInv, Counted
<1>12. CASE StartPersist
  BY <1>12 DEF StartPersist, input, loader, Works, Fails, IInv, Counted
<1>13. CASE RunLoopback
  BY <1>13 DEF RunLoopback, input, loader, Works, Fails, Barren, IInv, Counted
<1>14. CASE StopPersist
  BY <1>14 DEF StopPersist, input, loader, history, IInv, Counted
<1>15. CASE Release
  BY <1>15 DEF Release, input, loader, history, IInv, Counted
<1>16. CASE Edit
  <2>1. /\ calm' => calm /\ db'.tables = db.tables
        /\ pc' = pc /\ names' = names /\ count' = count
    BY <1>16 DEF Edit, loader
  <2> QED BY <2>1 DEF IInv, Counted, table
<1>17. CASE UNCHANGED vars
  BY <1>17 DEF vars, input, loader, history, IInv, Counted, table
<1> QED BY <1>1, <1>2, <1>3, <1>4, <1>5, <1>6, <1>7, <1>8, <1>9,
  <1>10, <1>11, <1>12, <1>13, <1>14, <1>15, <1>16, <1>17 DEF Next, Step

(* The copy runs over only if it was disturbed. *)
LEMMA OverrunStep ==
    ASSUME IInv, [Next]_vars
    PROVE  OverrunOnlyWhenDisturbed'
<1>1. CASE HeadOpen
  BY <1>1 DEF HeadOpen, input, loader, Works, Fails, IInv, OverrunOnlyWhenDisturbed, Final
<1>2. CASE HeadRoot
  BY <1>2 DEF HeadRoot, input, loader, Works, Fails, Barren, IInv,
    OverrunOnlyWhenDisturbed, Final
<1>3. CASE HeadVersion
  BY <1>3 DEF HeadVersion, input, Works, Fails, IInv, OverrunOnlyWhenDisturbed, Final
<1>4. CASE HeadThreads
  BY <1>4 DEF HeadThreads, input, Works, Fails, IInv, OverrunOnlyWhenDisturbed, Final
<1>5. CASE Open
  BY <1>5 DEF Open, input, loader, Works, Fails, Barren, IInv, OverrunOnlyWhenDisturbed,
    Final
<1>6. CASE Walk
  BY <1>6 DEF Walk, input, history, IInv, OverrunOnlyWhenDisturbed, Final
<1>7. CASE Discover
  BY <1>7 DEF Discover, input, Works, Fails, Barren, IInv, OverrunOnlyWhenDisturbed, Final
<1>8. CASE NextTable
  BY <1>8 DEF NextTable, input, history, IInv, OverrunOnlyWhenDisturbed, Final
<1>9. CASE Count
  BY <1>9, CountRegisters
  DEF RegisterStep, Registered, Works, Fails, IInv, OverrunOnlyWhenDisturbed
<1>10. CASE Select
  BY <1>10, SelectRegisters
  DEF RegisterStep, Registered, Works, Fails, IInv, OverrunOnlyWhenDisturbed
<1>11. CASE Decide
  BY <1>11 DEF Decide, input, loader, history, IInv, OverrunOnlyWhenDisturbed, Final
<1>12. CASE StartPersist
  BY <1>12 DEF StartPersist, input, loader, Works, Fails, IInv, OverrunOnlyWhenDisturbed,
    Final
<1>13. CASE RunLoopback
  BY <1>13 DEF RunLoopback, input, loader, Works, Fails, Barren, IInv,
    OverrunOnlyWhenDisturbed, Final
<1>14. CASE StopPersist
  BY <1>14 DEF StopPersist, input, loader, history, IInv, OverrunOnlyWhenDisturbed, Final
<1>15. CASE Release
  BY <1>15 DEF Release, input, loader, history, IInv, OverrunOnlyWhenDisturbed, Final
<1>16. CASE Edit
  BY <1>16 DEF Edit, loader, IInv, OverrunOnlyWhenDisturbed, Final
<1>17. CASE UNCHANGED vars
  BY <1>17 DEF vars, input, loader, history, IInv, OverrunOnlyWhenDisturbed, Final
<1> QED BY <1>1, <1>2, <1>3, <1>4, <1>5, <1>6, <1>7, <1>8, <1>9,
  <1>10, <1>11, <1>12, <1>13, <1>14, <1>15, <1>16, <1>17 DEF Next, Step

(* Every row set that is kept is right. *)
LEMMA SetsStep ==
    ASSUME IInv, [Next]_vars
    PROVE  Sets'
<1>1. CASE HeadOpen
  BY <1>1 DEF HeadOpen, input, loader, Works, Fails, IInv, Sets
<1>2. CASE HeadRoot
  BY <1>2 DEF HeadRoot, input, loader, Works, Fails, Barren, IInv, Sets
<1>3. CASE HeadVersion
  BY <1>3 DEF HeadVersion, input, Works, Fails, IInv, Sets
<1>4. CASE HeadThreads
  BY <1>4 DEF HeadThreads, input, Works, Fails, IInv, Sets
<1>5. CASE Open
  BY <1>5 DEF Open, input, loader, Works, Fails, Barren, IInv, Sets
<1>6. CASE Walk
  BY <1>6 DEF Walk, input, history, IInv, Sets
<1>7. CASE Discover
  BY <1>7 DEF Discover, input, Works, Fails, Barren, IInv, Sets
<1>8. CASE NextTable
  BY <1>8 DEF NextTable, input, history, IInv, Sets
<1>9. CASE Count
  <2>1. \/ UNCHANGED <<master_rs, slave_rs>>
        \/ Registered
    BY <1>9, CountRegisters DEF RegisterStep
  <2> QED BY <2>1 DEF Registered, IInv, Sets
<1>10. CASE Select
  <2>1. \/ UNCHANGED <<master_rs, slave_rs>>
        \/ Registered
    BY <1>10, SelectRegisters DEF RegisterStep
  <2> QED BY <2>1 DEF Registered, IInv, Sets
<1>11. CASE Decide
  BY <1>11 DEF Decide, input, loader, history, IInv, Sets
<1>12. CASE StartPersist
  BY <1>12 DEF StartPersist, input, loader, Works, Fails, IInv, Sets
<1>13. CASE RunLoopback
  BY <1>13 DEF RunLoopback, input, loader, Works, Fails, Barren, IInv, Sets
<1>14. CASE StopPersist
  BY <1>14 DEF StopPersist, input, loader, history, IInv, Sets
<1>15. CASE Release
  BY <1>15 DEF Release, input, loader, history, IInv, Sets
<1>16. CASE Edit
  BY <1>16 DEF Edit, loader, IInv, Sets
<1>17. CASE UNCHANGED vars
  BY <1>17 DEF vars, input, loader, history, IInv, Sets
<1> QED BY <1>1, <1>2, <1>3, <1>4, <1>5, <1>6, <1>7, <1>8, <1>9,
  <1>10, <1>11, <1>12, <1>13, <1>14, <1>15, <1>16, <1>17 DEF Next, Step

(* What is held is one of the six resources. *)
LEMMA HeldTypeStep ==
    ASSUME IInv, [Next]_vars
    PROVE  held' \subseteq {"head_db", "lost_db", "head", "pt", "manifest", "persist"}
<1>1. CASE HeadOpen
  BY <1>1 DEF HeadOpen, input, loader, Works, Fails, IInv, TypeOK
<1>2. CASE HeadRoot
  BY <1>2 DEF HeadRoot, input, loader, Works, Fails, Barren, IInv, TypeOK
<1>3. CASE HeadVersion
  BY <1>3 DEF HeadVersion, input, Works, Fails, IInv, TypeOK
<1>4. CASE HeadThreads
  BY <1>4 DEF HeadThreads, input, Works, Fails, IInv, TypeOK
<1>5. CASE Open
  BY <1>5 DEF Open, input, loader, Works, Fails, Barren, IInv, TypeOK
<1>6. CASE Walk
  BY <1>6 DEF Walk, input, history, IInv, TypeOK
<1>7. CASE Discover
  BY <1>7 DEF Discover, input, Works, Fails, Barren, IInv, TypeOK
<1>8. CASE NextTable
  BY <1>8 DEF NextTable, input, history, IInv, TypeOK
<1>9. CASE Count
  BY <1>9, CountRegisters
  DEF RegisterStep, Registered, Works, Fails, IInv, TypeOK
<1>10. CASE Select
  BY <1>10, SelectRegisters
  DEF RegisterStep, Registered, Works, Fails, IInv, TypeOK
<1>11. CASE Decide
  BY <1>11 DEF Decide, input, loader, history, IInv, TypeOK
<1>12. CASE StartPersist
  BY <1>12 DEF StartPersist, input, loader, Works, Fails, IInv, TypeOK
<1>13. CASE RunLoopback
  BY <1>13 DEF RunLoopback, input, loader, Works, Fails, Barren, IInv, TypeOK
<1>14. CASE StopPersist
  BY <1>14 DEF StopPersist, input, loader, history, IInv, TypeOK
<1>15. CASE Release
  BY <1>15 DEF Release, input, loader, history, IInv, TypeOK
<1>16. CASE Edit
  BY <1>16 DEF Edit, loader, IInv, TypeOK
<1>17. CASE UNCHANGED vars
  BY <1>17 DEF vars, input, loader, history, IInv, TypeOK
<1> QED BY <1>1, <1>2, <1>3, <1>4, <1>5, <1>6, <1>7, <1>8, <1>9,
  <1>10, <1>11, <1>12, <1>13, <1>14, <1>15, <1>16, <1>17 DEF Next, Step

(* The invariant holds at the start. *)
LEMMA InitIInv ==
    ASSUME Init
    PROVE  IInv
<1>1. TypeOK
  BY GatewayAssumption DEF Init, TypeOK, Final, RowSets
<1>2. HeldAt /\ Fresh /\ Tree /\ Versions /\ StaleTopologyRefused
  BY DEF Init, HeldAt, Fresh, Tree, Versions, StaleTopologyRefused, Reading, Listing
<1>3. Place
  <2>1. at \in Pos \X Pos
    BY DEF Init, Pos
  <2>2. names \in Seq(STRING) /\ IsInjective(names)
    BY DEF Init, IsInjective
  <2> QED BY <2>1, <2>2 DEF Init, Place, Listing
<1>4. Loaded /\ Counted /\ OverrunOnlyWhenDisturbed /\ Sets
  BY DEF Init, Loaded, Counted, OverrunOnlyWhenDisturbed, Sets, Working, Listing
<1> QED BY <1>1, <1>2, <1>3, <1>4 DEF IInv

(* Every step keeps it. *)
LEMMA NextIInv ==
    ASSUME IInv, [Next]_vars
    PROVE  IInv'
<1>1. Sets'
  BY SetsStep
<1>2. TypeOK'
  <2>1. \A rs \in RowSets' : rs.rows \in Seq(Stored)
    BY <1>1 DEF Sets, RowSets, RightSet
  <2> QED BY <2>1, BasicsStep, HeldTypeStep
      DEF TypeOK, Stored, Final, Opening, Reading, Working, Listing
<1> QED BY <1>1, <1>2, HeldStep, FreshStep, TreeStep, VersionsStep, TopologyStep, PlaceStep,
         LoadedStep, CountedStep, OverrunStep DEF IInv

(* It holds for ever. *)
LEMMA Invariant == Spec => []IInv
<1>1. Init => IInv
  BY InitIInv
<1>2. IInv /\ [Next]_vars => IInv'
  BY NextIInv
<1> QED BY <1>1, <1>2, PTL DEF Spec

-----------------------------------------------------------------------------
(* The theorems. *)

(* The variables keep their types; whatever integers the database holds, *)
(* what read_column stores fits the 16-bit fields.                       *)
THEOREM TypeCorrect == Spec => []TypeOK
<1>1. IInv => TypeOK
  BY DEF IInv
<1> QED BY <1>1, Invariant, PTL

(* egw_ptable_open refuses a head that is not the database's any more, as *)
(* long as changes raise the version and the reads succeeded.             *)
THEOREM StaleHeadRefused == Spec => []StaleTopologyRefused
<1>1. IInv => StaleTopologyRefused
  BY DEF IInv
<1> QED BY <1>1, Invariant, PTL

(* egw_ptable_register writes past its rows only if the table changed or a *)
(* query failed between the COUNT and the SELECT.                          *)
THEOREM CopyStaysInside == Spec => []OverrunOnlyWhenDisturbed
<1>1. IInv => OverrunOnlyWhenDisturbed
  BY DEF IInv
<1> QED BY <1>1, Invariant, PTL

(* egw_app_run gives back what it took on every path it returns by, but for *)
(* the cases NothingHeldAtReturn names.                                     *)
THEOREM RunLeavesNothing == Spec => []NothingHeldAtReturn
<1>1. IInv => NothingHeldAtReturn
  <2> SUFFICES ASSUME IInv, pc \in {"done", "failed"} PROVE
        /\ held \subseteq {"lost_db"} /\ (held /= {} => failures > 0)
        /\ lost => Cardinality(Protocols(head.threads)) > 1
    BY DEF NothingHeldAtReturn
  <2>1. held \subseteq {"lost_db"} /\ (held /= {} => failures > 0)
    BY DEF IInv, HeldAt
  <2>2. ASSUME lost PROVE Cardinality(Protocols(head.threads)) > 1
    <3>1. pc = "done"
      BY <2>2 DEF IInv, Fresh
    <3>2. head.threads \in Seq(Seq(Nodes))
      BY <3>1 DEF IInv, Tree, Heads, Reading
    <3>3. \E p, q \in Protocols(head.threads) : p /= q
      BY <2>2 DEF IInv, Loaded
    <3> QED BY <3>2, <3>3, TwoProtocols
  <2> QED BY <2>1, <2>2
<1> QED BY <1>1, Invariant, PTL

(* bsearch on a row set that was loaded undisturbed finds a key exactly if *)
(* the table has a row with it.                                            *)
THEOREM LookupAnswersAsTable == Spec => []LookupFindsRow
<1>1. IInv => LookupFindsRow
  <2> SUFFICES ASSUME IInv, NEW rs \in RowSets, rs.calm, InRange(rs.of),
                      NEW key \in Range(rs.of) \cup [dev : 0..3, sub : 0..3]
               PROVE  IF key \in Range(rs.of)
                      THEN /\ rs_lookup(rs.rows, key) /= 0
                           /\ rs.rows[rs_lookup(rs.rows, key)] = key
                      ELSE rs_lookup(rs.rows, key) = 0
    BY DEF LookupFindsRow
  <2>1. RightSet(rs)
    BY DEF IInv, Sets, RowSets
  <2>2. key \in Stored
    <3>1. CASE key \in [dev : 0..3, sub : 0..3]
      BY <3>1, Width DEF Stored
    <3>2. CASE key \in Range(rs.of)
      BY <2>1, <3>2, FittingRows DEF RightSet
    <3> QED BY <3>1, <3>2
  <2> QED BY <2>1, <2>2 DEF RightSet
<1> QED BY <1>1, Invariant, PTL
=============================================================================
