---------------------------- MODULE InteropProofs ----------------------------
(***************************************************************************)
(* What programs put comes back: for any names, numbers, arrays, vectors   *)
(* and pickled objects.                                                    *)
(*                                                                         *)
(* Two things have to be shown.  Row-major order is a bijection between    *)
(* the indices of an array and the places in a row, whatever the           *)
(* dimensions: an induction over them.  And the bytes of an item that is   *)
(* known are still those of its put, whatever has been put since under     *)
(* other names: an invariant.                                              *)
(***************************************************************************)
EXTENDS Interop, WellFoundedInduction, TLAPS

-----------------------------------------------------------------------------
(* Induction, over a set of numbers in place of a property of numbers.     *)

LEMMA LeastNumber ==
  ASSUME NEW T, T \subseteq Nat, T # {}
  PROVE  \E x \in T : \A y \in T : x <= y
<1> DEFINE R == OpToRel(<, Nat)
<1>1. IsWellFoundedOn(R, Nat)
  BY NatLessThanWellFounded
<1>2. \A x, y \in Nat : <<x, y>> \in R <=> x < y
  BY DEF OpToRel
<1> HIDE DEF R
<1>3. PICK x \in T : \A y \in T : <<y, x>> \notin R
  BY <1>1, WFMin
<1>4. \A y \in T : x <= y
  <2> TAKE y \in T
  <2>1. x \in Nat /\ y \in Nat /\ <<y, x>> \notin R
    BY <1>3
  <2>2. ~ (y < x)
    BY <1>2, <2>1
  <2> QED BY <2>1, <2>2
<1> QED BY <1>3, <1>4

LEMMA Induction ==
  ASSUME NEW n \in Nat, NEW T, 0 \in T,
         \A k \in 0 .. n - 1 : k \in T => k + 1 \in T
  PROVE  0 .. n \subseteq T
<1> DEFINE D == {k \in 0 .. n : k \notin T}
<1> SUFFICES ASSUME D # {} PROVE FALSE
  OBVIOUS
<1>1. PICK x \in D : \A y \in D : x <= y
  <2>1. D \subseteq Nat
    OBVIOUS
  <2> HIDE DEF D
  <2> QED BY <2>1, LeastNumber
<1>2. x \in 1 .. n /\ x \notin T
  BY <1>1
<1>3. x - 1 \in 0 .. n - 1 /\ x - 1 \in T
  <2>1. x - 1 \in 0 .. n - 1 /\ x - 1 \in 0 .. n /\ ~ (x <= x - 1)
    BY <1>2
  <2>2. x - 1 \notin D
    BY <1>1, <2>1
  <2> QED BY <2>1, <2>2
<1>4. (x - 1) + 1 \in T
  BY <1>3
<1> QED BY <1>2, <1>4

(* A function can be defined by what it makes of its value before.         *)
Steps(n, S) == [1 .. n -> [S -> S]]

Follows(f, n, S, start, step) ==
  /\ f \in [0 .. n -> S] /\ f[0] = start
  /\ \A k \in 1 .. n : f[k] = step[k][f[k - 1]]

LEMMA Recursion ==
  ASSUME NEW n \in Nat, NEW S, NEW start \in S, NEW step \in Steps(n, S)
  PROVE  \E f : Follows(f, n, S, start, step)
<1> USE DEF Steps
<1> DEFINE Good(m, f) == /\ f[0] = start
                         /\ \A k \in 1 .. m : f[k] = step[k][f[k - 1]]
           T == {m \in 0 .. n : \E f \in [0 .. m -> S] : Good(m, f)}
<1>1. 0 \in T
  <2> DEFINE g == [k \in 0 .. 0 |-> start]
  <2>1. g \in [0 .. 0 -> S] /\ Good(0, g)
    OBVIOUS
  <2>2. \E f \in [0 .. 0 -> S] : Good(0, f)
    <3> HIDE DEF g, Good
    <3> QED BY <2>1
  <2> QED BY <2>2
<1>2. \A m \in 0 .. n - 1 : m \in T => m + 1 \in T
  <2> SUFFICES ASSUME NEW m \in 0 .. n - 1, m \in T PROVE m + 1 \in T
    OBVIOUS
  <2>1. PICK f \in [0 .. m -> S] : Good(m, f)
    OBVIOUS
  <2> DEFINE g == [k \in 0 .. m + 1 |-> IF k = m + 1 THEN step[m + 1][f[m]] ELSE f[k]]
  <2>2. step[m + 1][f[m]] \in S
    OBVIOUS
  <2>3. g \in [0 .. m + 1 -> S]
    BY <2>2
  <2>4. g[0] = start
    BY <2>1
  <2>5. ASSUME NEW k \in 1 .. m + 1 PROVE g[k] = step[k][g[k - 1]]
    <3>1. CASE k = m + 1
      <4>1. k - 1 \in 0 .. m /\ k - 1 = m /\ k \in 0 .. m + 1
        BY <3>1
      <4> QED BY <3>1, <4>1
    <3>2. CASE k \in 1 .. m
      <4>1. g[k] = f[k] /\ g[k - 1] = f[k - 1]
        BY <3>2
      <4> QED BY <2>1, <3>2, <4>1
    <3> QED BY <3>1, <3>2
  <2>6. m + 1 \in 0 .. n /\ Good(m + 1, g)
    <3> HIDE DEF g
    <3> QED BY <2>4, <2>5
  <2>7. \E h \in [0 .. m + 1 -> S] : Good(m + 1, h)
    <3> HIDE DEF g, Good
    <3> QED BY <2>3, <2>6
  <2> QED BY <2>6, <2>7
<1>3. n \in T
  <2>1. 0 .. n \subseteq T
    <3> HIDE DEF T
    <3> QED BY <1>1, <1>2, Induction
  <2> QED BY <2>1
<1> QED BY <1>3 DEF Follows

-----------------------------------------------------------------------------
(* Row-major order. *)

(* What the two recursions compute.                                        *)
LEMMA ProductsFacts ==
  ASSUME NEW dims \in Seq(Nat)
  PROVE  /\ Products(dims) \in [0 .. Len(dims) -> Nat]
         /\ Products(dims)[0] = 1
         /\ \A k \in 1 .. Len(dims) : Products(dims)[k] = Products(dims)[k - 1] * dims[k]
<1> DEFINE n == Len(dims)
           step == [k \in 1 .. n |-> [x \in Nat |-> x * dims[k]]]
<1>1. n \in Nat /\ \A k \in 1 .. n : dims[k] \in Nat
  OBVIOUS
<1>2. step \in Steps(n, Nat)
  <2>1. \A k \in 1 .. n : [x \in Nat |-> x * dims[k]] \in [Nat -> Nat]
    BY <1>1
  <2> QED BY <2>1 DEF Steps
<1>3. PICK f : Follows(f, n, Nat, 1, step)
  <2> HIDE DEF step, n
  <2> QED BY <1>1, <1>2, Recursion
<1>4. f = [k \in 0 .. n |-> IF k = 0 THEN 1 ELSE f[k - 1] * dims[k]]
  <2>1. f \in [0 .. n -> Nat] /\ f[0] = 1
    BY <1>3 DEF Follows
  <2>2. ASSUME NEW k \in 1 .. n PROVE f[k] = f[k - 1] * dims[k]
    <3>1. f[k - 1] \in Nat /\ f[k] = step[k][f[k - 1]]
      <4>1. k - 1 \in 0 .. n
        BY <1>1
      <4> HIDE DEF step, n
      <4> QED BY <1>3, <2>1, <4>1 DEF Follows
    <3> QED BY <3>1
  <2> QED BY <1>1, <2>1, <2>2
<1> DEFINE p == CHOOSE q : q = [k \in 0 .. n |-> IF k = 0 THEN 1 ELSE q[k - 1] * dims[k]]
<1>5. p = [k \in 0 .. n |-> IF k = 0 THEN 1 ELSE p[k - 1] * dims[k]]
  BY <1>4
<1>6. Products(dims) = p
  BY DEF Products
<1> HIDE DEF p
<1>7. p[0] = 1 /\ \A k \in 1 .. n : p[k] = p[k - 1] * dims[k]
  <2>1. 0 \in 0 .. n /\ \A k \in 1 .. n : k \in 0 .. n /\ k # 0
    BY <1>1
  <2> HIDE DEF n
  <2>2. \A k \in 0 .. n : p[k] = IF k = 0 THEN 1 ELSE p[k - 1] * dims[k]
    BY <1>5
  <2> QED BY <2>1, <2>2
<1> DEFINE T == {k \in 0 .. n : p[k] \in Nat}
<1>8. 0 .. n \subseteq T
  <2>1. 0 \in T
    BY <1>1, <1>7
  <2>2. \A k \in 0 .. n - 1 : k \in T => k + 1 \in T
    <3> SUFFICES ASSUME NEW k \in 0 .. n - 1, k \in T PROVE k + 1 \in T
      OBVIOUS
    <3>1. k + 1 \in 1 .. n /\ k + 1 \in 0 .. n /\ (k + 1) - 1 = k
      BY <1>1
    <3>2. p[k + 1] = p[k] * dims[k + 1]
      BY <1>7, <3>1
    <3> QED BY <1>1, <3>1, <3>2
  <2> HIDE DEF T
  <2> QED BY <1>1, <2>1, <2>2, Induction
<1> QED BY <1>5, <1>6, <1>7, <1>8

LEMMA BeforeFacts ==
  ASSUME NEW dims \in Seq(Nat), NEW i \in [1 .. Len(dims) -> Nat]
  PROVE  /\ Before(dims, i) \in [0 .. Len(dims) -> Nat]
         /\ Before(dims, i)[0] = 0
         /\ \A k \in 1 .. Len(dims) : Before(dims, i)[k] = Before(dims, i)[k - 1] * dims[k] + i[k]
<1> DEFINE n == Len(dims)
           step == [k \in 1 .. n |-> [x \in Nat |-> x * dims[k] + i[k]]]
<1>1. n \in Nat /\ \A k \in 1 .. n : dims[k] \in Nat /\ i[k] \in Nat
  OBVIOUS
<1>2. step \in Steps(n, Nat)
  <2>1. \A k \in 1 .. n : [x \in Nat |-> x * dims[k] + i[k]] \in [Nat -> Nat]
    BY <1>1, SMTT(30)
  <2> QED BY <2>1 DEF Steps
<1>3. PICK f : Follows(f, n, Nat, 0, step)
  <2> HIDE DEF step, n
  <2> QED BY <1>1, <1>2, Recursion
<1>4. f = [k \in 0 .. n |-> IF k = 0 THEN 0 ELSE f[k - 1] * dims[k] + i[k]]
  <2>1. f \in [0 .. n -> Nat] /\ f[0] = 0
    BY <1>3 DEF Follows
  <2>2. ASSUME NEW k \in 1 .. n PROVE f[k] = f[k - 1] * dims[k] + i[k]
    <3>1. f[k - 1] \in Nat /\ f[k] = step[k][f[k - 1]]
      <4>1. k - 1 \in 0 .. n
        BY <1>1
      <4> HIDE DEF step, n
      <4> QED BY <1>3, <2>1, <4>1 DEF Follows
    <3> QED BY <3>1
  <2> QED BY <1>1, <2>1, <2>2
<1> DEFINE p == CHOOSE q : q = [k \in 0 .. n |-> IF k = 0 THEN 0 ELSE q[k - 1] * dims[k] + i[k]]
<1>5. p = [k \in 0 .. n |-> IF k = 0 THEN 0 ELSE p[k - 1] * dims[k] + i[k]]
  BY <1>4
<1>6. Before(dims, i) = p
  BY DEF Before
<1> HIDE DEF p
<1>7. p[0] = 0 /\ \A k \in 1 .. n : p[k] = p[k - 1] * dims[k] + i[k]
  <2>1. 0 \in 0 .. n /\ \A k \in 1 .. n : k \in 0 .. n /\ k # 0
    BY <1>1
  <2> HIDE DEF n
  <2>2. \A k \in 0 .. n : p[k] = IF k = 0 THEN 0 ELSE p[k - 1] * dims[k] + i[k]
    BY <1>5
  <2> QED BY <2>1, <2>2
<1> DEFINE T == {k \in 0 .. n : p[k] \in Nat}
<1>8. 0 .. n \subseteq T
  <2>1. 0 \in T
    BY <1>1, <1>7
  <2>2. \A k \in 0 .. n - 1 : k \in T => k + 1 \in T
    <3> SUFFICES ASSUME NEW k \in 0 .. n - 1, k \in T PROVE k + 1 \in T
      OBVIOUS
    <3>1. k + 1 \in 1 .. n /\ k + 1 \in 0 .. n /\ (k + 1) - 1 = k
      BY <1>1
    <3>2. p[k + 1] = p[k] * dims[k + 1] + i[k + 1]
      BY <1>7, <3>1
    <3>3. p[k] \in Nat /\ dims[k + 1] \in Nat /\ i[k + 1] \in Nat
      BY <1>1, <3>1
    <3>4. p[k] * dims[k + 1] \in Nat
      BY <3>3
    <3> QED BY <3>1, <3>2, <3>3, <3>4
  <2> HIDE DEF T
  <2> QED BY <1>1, <2>1, <2>2, Induction
<1> QED BY <1>5, <1>6, <1>7, <1>8

(* One dimension more: a places of d elements each, and one of them.       *)
Place(a, d, r) == a * d + r

LEMMA PlacesOrder ==
  ASSUME NEW a \in Nat, NEW b \in Nat, NEW d \in Nat, NEW r \in 0 .. d - 1, a < b
  PROVE  a * d + r < b * d
<1>1. (a + 1) * d <= b * d
  OBVIOUS
<1>2. (a + 1) * d = a * d + d
  OBVIOUS
<1> QED BY <1>1, <1>2

LEMMA PlacesDiffer ==
  ASSUME NEW a \in Nat, NEW b \in Nat, NEW d \in Nat, NEW r \in Nat, NEW t \in Nat,
         r < d, t < d, Place(a, d, r) = Place(b, d, t)
  PROVE  a = b /\ r = t
<1>0. a * d + r = b * d + t
  BY DEF Place
<1>1. a * d \in Nat /\ b * d \in Nat
  OBVIOUS
<1>2. ~ (a < b) /\ ~ (b < a)
  BY <1>0, <1>1, PlacesOrder
<1>3. a = b
  BY <1>2
<1> QED BY <1>0, <1>1, <1>3

LEMMA Division ==
  ASSUME NEW d \in Nat \ {0}, NEW s \in Nat, NEW q \in Nat, q < s * d
  PROVE  \E a \in 0 .. s - 1, r \in 0 .. d - 1 : q = a * d + r
<1> DEFINE T == {k \in 0 .. q : \E a \in Nat, r \in 0 .. d - 1 : k = a * d + r}
<1>1. 0 \in T
  <2>1. 0 = 0 * d + 0 /\ 0 \in 0 .. d - 1
    OBVIOUS
  <2> QED BY <2>1
<1>2. \A k \in 0 .. q - 1 : k \in T => k + 1 \in T
  <2> SUFFICES ASSUME NEW k \in 0 .. q - 1, k \in T PROVE k + 1 \in T
    OBVIOUS
  <2>1. PICK a \in Nat, r \in 0 .. d - 1 : k = a * d + r
    OBVIOUS
  <2>2. CASE r < d - 1
    <3>1. a * d \in Nat
      OBVIOUS
    <3>2. k + 1 = a * d + (r + 1) /\ r + 1 \in 0 .. d - 1
      BY <2>1, <2>2, <3>1
    <3> QED BY <3>2
  <2>3. CASE r = d - 1
    <3>1. a * d \in Nat /\ (a + 1) * d = a * d + d
      OBVIOUS
    <3>2. k + 1 = (a + 1) * d + 0 /\ 0 \in 0 .. d - 1 /\ a + 1 \in Nat
      BY <2>1, <2>3, <3>1
    <3>3. k + 1 \in 0 .. q
      OBVIOUS
    <3>4. \E x \in Nat, y \in 0 .. d - 1 : k + 1 = x * d + y
      BY <3>2
    <3> QED BY <3>3, <3>4
  <2> QED BY <2>2, <2>3
<1>3. q \in T
  <2> HIDE DEF T
  <2> QED BY <1>1, <1>2, Induction
<1>4. PICK a \in Nat, r \in 0 .. d - 1 : q = a * d + r
  BY <1>3
<1>5. a < s
  <2> SUFFICES ASSUME s <= a PROVE FALSE
    OBVIOUS
  <2>1. s * d <= a * d /\ a * d \in Nat /\ s * d \in Nat
    OBVIOUS
  <2> QED BY <1>4, <2>1
<1> QED BY <1>4, <1>5

(* An index is a number below each dimension.                              *)
LEMMA IndexFacts ==
  ASSUME NEW dims \in Seq(Nat), NEW i
  PROVE  i \in Indices(dims) <=>
           /\ i \in [1 .. Len(dims) -> Nat]
           /\ \A k \in 1 .. Len(dims) : i[k] \in 0 .. dims[k] - 1
<1>1. DOMAIN dims = 1 .. Len(dims) /\ \A k \in DOMAIN dims : dims[k] \in Nat
  OBVIOUS
<1> DEFINE U == UNION {0 .. dims[k] - 1 : k \in DOMAIN dims}
<1>2. U \subseteq Nat
  OBVIOUS
<1>3. \A k \in DOMAIN dims : 0 .. dims[k] - 1 \subseteq U
  OBVIOUS
<1>4. i \in Indices(dims) <=> i \in [DOMAIN dims -> U] /\ \A k \in DOMAIN dims : i[k] < dims[k]
  BY DEF Indices
<1> HIDE DEF U
<1>5. ASSUME i \in Indices(dims)
      PROVE  i \in [1 .. Len(dims) -> Nat] /\ \A k \in 1 .. Len(dims) : i[k] \in 0 .. dims[k] - 1
  <2>1. i \in [DOMAIN dims -> U] /\ \A k \in DOMAIN dims : i[k] < dims[k]
    BY <1>4, <1>5
  <2>2. \A k \in 1 .. Len(dims) : i[k] \in Nat /\ dims[k] \in Nat /\ i[k] < dims[k]
    BY <1>1, <1>2, <2>1
  <2>3. i \in [1 .. Len(dims) -> Nat]
    BY <1>1, <1>2, <2>1
  <2>4. ASSUME NEW k \in 1 .. Len(dims) PROVE i[k] \in 0 .. dims[k] - 1
    BY <2>2
  <2> QED BY <2>3, <2>4
<1>6. ASSUME i \in [1 .. Len(dims) -> Nat], \A k \in 1 .. Len(dims) : i[k] \in 0 .. dims[k] - 1
      PROVE  i \in Indices(dims)
  <2>1. i \in [DOMAIN dims -> U]
    BY <1>1, <1>3, <1>6
  <2>2. \A k \in DOMAIN dims : i[k] < dims[k]
    BY <1>1, <1>6
  <2> QED BY <1>4, <2>1, <2>2
<1> QED BY <1>5, <1>6

(* The elements before an index are fewer than all.                        *)
LEMMA BeforeWithin ==
  ASSUME NEW dims \in Seq(Nat), NEW i \in Indices(dims)
  PROVE  \A k \in 0 .. Len(dims) : Before(dims, i)[k] < Products(dims)[k]
<1> DEFINE n == Len(dims)  q == Before(dims, i)  p == Products(dims)
           T == {k \in 0 .. n : q[k] < p[k]}
<1>1. /\ n \in Nat /\ i \in [1 .. n -> Nat]
      /\ \A k \in 1 .. n : dims[k] \in Nat /\ i[k] \in 0 .. dims[k] - 1
  BY IndexFacts
<1>2. /\ q \in [0 .. n -> Nat] /\ q[0] = 0
      /\ \A k \in 1 .. n : q[k] = q[k - 1] * dims[k] + i[k]
  BY <1>1, BeforeFacts
<1>3. /\ p \in [0 .. n -> Nat] /\ p[0] = 1
      /\ \A k \in 1 .. n : p[k] = p[k - 1] * dims[k]
  BY ProductsFacts
<1> HIDE DEF n, q, p
<1>4. 0 \in T
  BY <1>1, <1>2, <1>3
<1>5. \A k \in 0 .. n - 1 : k \in T => k + 1 \in T
  <2> SUFFICES ASSUME NEW k \in 0 .. n - 1, k \in T PROVE k + 1 \in T
    OBVIOUS
  <2>1. k + 1 \in 1 .. n /\ k + 1 \in 0 .. n /\ (k + 1) - 1 = k /\ k \in 0 .. n
    BY <1>1
  <2>2. q[k] \in Nat /\ p[k] \in Nat /\ q[k] < p[k]
    BY <1>2, <1>3, <2>1
  <2>3. dims[k + 1] \in Nat /\ i[k + 1] \in 0 .. dims[k + 1] - 1
    BY <1>1, <2>1
  <2>4. q[k] * dims[k + 1] + i[k + 1] < p[k] * dims[k + 1]
    <3> DEFINE a == q[k]  b == p[k]  d == dims[k + 1]  r == i[k + 1]
    <3>1. a \in Nat /\ b \in Nat /\ d \in Nat /\ r \in 0 .. d - 1 /\ a < b
      BY <2>2, <2>3
    <3> HIDE DEF a, b, d, r
    <3>2. a * d + r < b * d
      BY <3>1, PlacesOrder
    <3> QED BY <3>2 DEF a, b, d, r
  <2> QED BY <1>2, <1>3, <2>1, <2>4
<1>6. 0 .. n \subseteq T
  <2> HIDE DEF T
  <2> QED BY <1>1, <1>4, <1>5, Induction
<1> QED BY <1>6 DEF n, q, p

(* Two indices with the same place are the same.                           *)
LEMMA BeforeInjective ==
  ASSUME NEW dims \in Seq(Nat), NEW i \in Indices(dims), NEW j \in Indices(dims),
         Before(dims, i)[Len(dims)] = Before(dims, j)[Len(dims)]
  PROVE  i = j
<1> DEFINE n == Len(dims)  q == Before(dims, i)  s == Before(dims, j)
           T == {k \in 0 .. n : q[k] = s[k] => \A m \in 1 .. k : i[m] = j[m]}
<1>1. /\ n \in Nat /\ i \in [1 .. n -> Nat] /\ j \in [1 .. n -> Nat]
      /\ \A k \in 1 .. n :
           dims[k] \in Nat /\ i[k] \in 0 .. dims[k] - 1 /\ j[k] \in 0 .. dims[k] - 1
  BY IndexFacts
<1>2. /\ q \in [0 .. n -> Nat] /\ \A k \in 1 .. n : q[k] = q[k - 1] * dims[k] + i[k]
  BY <1>1, BeforeFacts
<1>3. /\ s \in [0 .. n -> Nat] /\ \A k \in 1 .. n : s[k] = s[k - 1] * dims[k] + j[k]
  BY <1>1, BeforeFacts
<1>4. q[n] = s[n]
  OBVIOUS
<1> HIDE DEF n, q, s
<1>5. 0 \in T
  BY <1>1
<1>6. \A k \in 0 .. n - 1 : k \in T => k + 1 \in T
  <2> SUFFICES ASSUME NEW k \in 0 .. n - 1, k \in T PROVE k + 1 \in T
    OBVIOUS
  <2>0. SUFFICES ASSUME q[k + 1] = s[k + 1] PROVE \A m \in 1 .. k + 1 : i[m] = j[m]
    BY <1>1
  <2>1. k + 1 \in 1 .. n /\ (k + 1) - 1 = k /\ k \in 0 .. n
    BY <1>1
  <2>2. q[k] \in Nat /\ s[k] \in Nat
    BY <1>2, <1>3, <2>1
  <2>3. /\ dims[k + 1] \in Nat
        /\ i[k + 1] \in 0 .. dims[k + 1] - 1 /\ j[k + 1] \in 0 .. dims[k + 1] - 1
    BY <1>1, <2>1
  <2>4. q[k] * dims[k + 1] + i[k + 1] = s[k] * dims[k + 1] + j[k + 1]
    BY <1>2, <1>3, <2>0, <2>1
  <2>5. q[k] = s[k] /\ i[k + 1] = j[k + 1]
    <3> DEFINE a == q[k]  b == s[k]  d == dims[k + 1]  r == i[k + 1]  t == j[k + 1]
    <3>1. /\ a \in Nat /\ b \in Nat /\ d \in Nat
          /\ r \in Nat /\ t \in Nat /\ r < d /\ t < d /\ Place(a, d, r) = Place(b, d, t)
      <4>1. r < d /\ t < d /\ r \in Nat /\ t \in Nat
        BY <2>3
      <4> QED BY <2>2, <2>3, <2>4, <4>1 DEF Place
    <3> HIDE DEF a, b, d, r, t, T
    <3>2. a = b /\ r = t
      BY <3>1, PlacesDiffer
    <3> QED BY <3>2 DEF a, b, r, t
  <2>6. \A m \in 1 .. k : i[m] = j[m]
    BY <2>5
  <2>7. \A m \in 1 .. k + 1 : m = k + 1 \/ m \in 1 .. k
    BY <2>1
  <2> QED BY <2>5, <2>6, <2>7
<1>7. n \in T
  <2>1. 0 .. n \subseteq T
    <3> HIDE DEF T
    <3> QED BY <1>1, <1>5, <1>6, Induction
  <2> QED BY <1>1, <2>1
<1> QED BY <1>1, <1>4, <1>7

(* The place in the first dimensions depends on those alone.               *)
LEMMA BeforePrefix ==
  ASSUME NEW dims \in Seq(Nat), NEW l \in 0 .. Len(dims),
         NEW i \in [1 .. Len(dims) -> Nat], NEW j \in [1 .. Len(dims) -> Nat],
         \A k \in 1 .. l : i[k] = j[k]
  PROVE  Before(dims, i)[l] = Before(dims, j)[l]
<1> DEFINE n == Len(dims)  q == Before(dims, i)  s == Before(dims, j)
           T == {k \in 0 .. l : q[k] = s[k]}
<1>1. n \in Nat /\ l \in 0 .. n /\ \A k \in 1 .. l : i[k] = j[k]
  OBVIOUS
<1>2. /\ q[0] = 0 /\ \A k \in 1 .. n : q[k] = q[k - 1] * dims[k] + i[k]
  BY BeforeFacts
<1>3. /\ s[0] = 0 /\ \A k \in 1 .. n : s[k] = s[k - 1] * dims[k] + j[k]
  BY BeforeFacts
<1> HIDE DEF n, q, s
<1>4. 0 \in T
  BY <1>1, <1>2, <1>3
<1>5. \A k \in 0 .. l - 1 : k \in T => k + 1 \in T
  <2> SUFFICES ASSUME NEW k \in 0 .. l - 1, k \in T PROVE k + 1 \in T
    OBVIOUS
  <2>1. /\ k + 1 \in 1 .. n /\ k + 1 \in 1 .. l /\ k + 1 \in 0 .. l
        /\ (k + 1) - 1 = k /\ q[k] = s[k]
    BY <1>1
  <2> QED BY <1>1, <1>2, <1>3, <2>1
<1>6. l \in T
  <2>1. 0 .. l \subseteq T
    <3> HIDE DEF T
    <3>1. l \in Nat
      BY <1>1
    <3> QED BY <1>4, <1>5, <3>1, Induction
  <2> QED BY <1>1, <2>1
<1> QED BY <1>6 DEF q, s

(* Every place in the row is the place of an index.                        *)
LEMMA BeforeOnto ==
  ASSUME NEW dims \in Seq(Nat), NEW place \in Nat, place < Product(dims)
  PROVE  \E i \in Indices(dims) : Before(dims, i)[Len(dims)] = place
<1> DEFINE n == Len(dims)  p == Products(dims)
           Partial(k, q) ==
             \E i \in [1 .. n -> Nat] :
               (\A m \in 1 .. k : i[m] \in 0 .. dims[m] - 1) /\ Before(dims, i)[k] = q
           T == {k \in 0 .. n : \A q \in 0 .. p[k] - 1 : Partial(k, q)}
<1>1. n \in Nat /\ \A k \in 1 .. n : dims[k] \in Nat
  OBVIOUS
<1>2. /\ p \in [0 .. n -> Nat] /\ p[0] = 1
      /\ \A k \in 1 .. n : p[k] = p[k - 1] * dims[k]
  BY ProductsFacts
<1>3. \A i \in [1 .. n -> Nat] :
        /\ Before(dims, i)[0] = 0
        /\ \A k \in 1 .. n : Before(dims, i)[k] = Before(dims, i)[k - 1] * dims[k] + i[k]
  BY BeforeFacts
<1>4. \A i, j \in [1 .. n -> Nat] : \A l \in 0 .. n :
        (\A k \in 1 .. l : i[k] = j[k]) => Before(dims, i)[l] = Before(dims, j)[l]
  BY BeforePrefix
<1>5. place \in 0 .. p[n] - 1
  BY <1>1, <1>2, SMTT(30) DEF Product
<1>6. SUFFICES Partial(n, place)
  BY IndexFacts
<1> HIDE DEF n, p
<1>7. 0 \in T
  <2>1. [m \in 1 .. n |-> 0] \in [1 .. n -> Nat]
    OBVIOUS
  <2>2. Partial(0, 0)
    <3> DEFINE z == [m \in 1 .. n |-> 0]
    <3>1. z \in [1 .. n -> Nat] /\ \A m \in 1 .. 0 : z[m] \in 0 .. dims[m] - 1
      BY <2>1
    <3> HIDE DEF z
    <3>2. Before(dims, z)[0] = 0
      BY <1>3, <3>1
    <3> QED BY <3>1, <3>2
  <2>3. \A q \in 0 .. p[0] - 1 : q = 0
    BY <1>2
  <2> HIDE DEF Partial
  <2> QED BY <1>1, <2>2, <2>3
<1>8. \A k \in 0 .. n - 1 : k \in T => k + 1 \in T
  <2> SUFFICES ASSUME NEW k \in 0 .. n - 1, k \in T, NEW q \in 0 .. p[k + 1] - 1
               PROVE  Partial(k + 1, q)
    <3> HIDE DEF Partial
    <3> QED BY <1>1, SMTT(30)
  <2> DEFINE d == dims[k + 1]
  <2>1. /\ k + 1 \in 1 .. n /\ (k + 1) - 1 = k /\ k \in 0 .. n
    BY <1>1
  <2>2. /\ p[k] \in Nat /\ d \in Nat /\ p[k + 1] = p[k] * d /\ q \in Nat /\ q < p[k] * d
    BY <1>1, <1>2, <2>1
  <2>3. d # 0
    BY <2>2
  <2>4. PICK a \in 0 .. p[k] - 1, r \in 0 .. d - 1 : q = a * d + r
    <3> DEFINE s == p[k]
    <3>1. s \in Nat /\ d \in Nat \ {0} /\ q \in Nat /\ q < s * d
      BY <2>2, <2>3
    <3> HIDE DEF s, d
    <3>2. \E a \in 0 .. s - 1, r \in 0 .. d - 1 : q = a * d + r
      BY <3>1, Division
    <3> QED BY <3>2 DEF s
  <2>5. Partial(k, a)
    <3> HIDE DEF Partial
    <3> QED OBVIOUS
  <2>6. PICK i \in [1 .. n -> Nat] :
          (\A m \in 1 .. k : i[m] \in 0 .. dims[m] - 1) /\ Before(dims, i)[k] = a
    BY <2>5
  <2> DEFINE j == [i EXCEPT ![k + 1] = r]
  <2>7. r \in Nat /\ r \in 0 .. dims[k + 1] - 1
    BY <2>2
  <2>8. /\ j \in [1 .. n -> Nat] /\ j[k + 1] = r
        /\ \A m \in 1 .. k : j[m] = i[m]
    <3>1. k + 1 \in 1 .. n /\ \A m \in 1 .. k : m \in 1 .. n /\ m # k + 1
      BY <1>1, <2>1
    <3> QED BY <2>7, <3>1
  <2> HIDE DEF j
  <2>9. Before(dims, j)[k] = a
    BY <1>4, <2>1, <2>6, <2>8
  <2>10. Before(dims, j)[k + 1] = q
    <3>1. k + 1 \in 1 .. n /\ (k + 1) - 1 = k /\ j \in [1 .. n -> Nat]
      BY <1>1, <2>1, <2>8
    <3>2. \A l \in 1 .. n : Before(dims, j)[l] = Before(dims, j)[l - 1] * dims[l] + j[l]
      BY <1>3, <3>1
    <3>3. Before(dims, j)[k + 1] = Before(dims, j)[k] * dims[k + 1] + j[k + 1]
      BY <3>1, <3>2
    <3> QED BY <2>4, <2>8, <2>9, <3>3
  <2>11. \A m \in 1 .. k + 1 : j[m] \in 0 .. dims[m] - 1
    <3>1. \A m \in 1 .. k + 1 : m = k + 1 \/ m \in 1 .. k
      BY <2>1
    <3> QED BY <2>6, <2>7, <2>8, <3>1
  <2> QED BY <2>8, <2>10, <2>11
<1>9. n \in T
  <2>1. 0 .. n \subseteq T
    <3> HIDE DEF T
    <3> QED BY <1>1, <1>7, <1>8, Induction
  <2>2. n \in 0 .. n
    BY <1>1
  <2> HIDE DEF T
  <2> QED BY <2>1, <2>2
<1> HIDE DEF Partial
<1> QED BY <1>5, <1>9

(* Positions count from one and fill the row.                              *)
LEMMA RowMajorPositions ==
  ASSUME NEW dims \in Seq(Nat)
  PROVE  /\ Product(dims) \in Nat
         /\ \A i \in Indices(dims) : Position(dims, i) \in 1 .. Product(dims)
         /\ \A i, j \in Indices(dims) : Position(dims, i) = Position(dims, j) => i = j
         /\ \A k \in 1 .. Product(dims) : \E i \in Indices(dims) : Position(dims, i) = k
<1>1. Len(dims) \in 0 .. Len(dims)
  OBVIOUS
<1>2. Product(dims) \in Nat
  BY <1>1, ProductsFacts DEF Product
<1>3. ASSUME NEW i \in Indices(dims)
      PROVE  Before(dims, i)[Len(dims)] \in Nat /\ Before(dims, i)[Len(dims)] < Product(dims)
  BY <1>1, IndexFacts, BeforeFacts, BeforeWithin DEF Product
<1>4. ASSUME NEW i \in Indices(dims) PROVE Position(dims, i) \in 1 .. Product(dims)
  BY <1>2, <1>3 DEF Position
<1>5. ASSUME NEW i \in Indices(dims), NEW j \in Indices(dims), Position(dims, i) = Position(dims, j)
      PROVE  i = j
  <2>1. Before(dims, i)[Len(dims)] = Before(dims, j)[Len(dims)]
    BY <1>3, <1>5 DEF Position
  <2> QED BY <2>1, BeforeInjective
<1>6. ASSUME NEW k \in 1 .. Product(dims)
      PROVE  \E i \in Indices(dims) : Position(dims, i) = k
  <2>1. k - 1 \in Nat /\ k - 1 < Product(dims)
    BY <1>2
  <2>2. PICK i \in Indices(dims) : Before(dims, i)[Len(dims)] = k - 1
    BY <2>1, BeforeOnto
  <2> QED BY <2>2 DEF Position
<1>7. \A i, j \in Indices(dims) : Position(dims, i) = Position(dims, j) => i = j
  BY <1>5
<1> QED BY <1>2, <1>4, <1>6, <1>7

(* An array of any memory layout is read back, element by element, from    *)
(* its elements in row-major order: tensor.ravel() on the one side,        *)
(* data.reshape(dims) and the dims of TensorInfo on the other.             *)
THEOREM RowMajorRoundTrip ==
  ASSUME NEW a \in Arrays
  PROVE  /\ Ravel(a) \in Seq(Int) /\ Len(Ravel(a)) = Product(a.dims)
         /\ Reshape(Ravel(a), a.dims) = Elements(a)
<1> DEFINE dims == a.dims
           At(p) == CHOOSE i \in Indices(dims) : Position(dims, i) = p
<1>1. dims \in Seq(Nat) /\ Product(dims) \in Nat
  BY ArraysAssumption, RowMajorPositions
<1>2. ASSUME NEW p \in 1 .. Product(dims)
      PROVE  At(p) \in Indices(dims) /\ Position(dims, At(p)) = p
  BY <1>1, RowMajorPositions
<1>3. ASSUME NEW i \in Indices(dims)
      PROVE  Position(dims, i) \in 1 .. Product(dims) /\ At(Position(dims, i)) = i
  <2>1. Position(dims, i) \in 1 .. Product(dims)
    BY <1>1, RowMajorPositions
  <2>2. /\ At(Position(dims, i)) \in Indices(dims)
        /\ Position(dims, At(Position(dims, i))) = Position(dims, i)
    BY <1>2, <2>1
  <2> HIDE DEF At
  <2> QED BY <1>1, <2>1, <2>2, RowMajorPositions
<1>4. ASSUME NEW i \in Indices(dims) PROVE Elements(a)[i] \in Int
  <2>1. a.cells \in Seq(Int) /\ a.start + Offset(a.strides, i) \in DOMAIN a.cells
    BY ArraysAssumption
  <2> QED BY <2>1 DEF Elements
<1>5. Ravel(a) = [p \in 1 .. Product(dims) |-> Elements(a)[At(p)]]
  BY DEF Ravel
<1> HIDE DEF At
<1>6. Ravel(a) \in Seq(Int) /\ Len(Ravel(a)) = Product(dims)
  <2>1. Ravel(a) \in [1 .. Product(dims) -> Int]
    BY <1>2, <1>4, <1>5
  <2> HIDE DEF dims
  <2> QED BY <1>1, <2>1
<1>7. Reshape(Ravel(a), dims) = [i \in Indices(dims) |-> Elements(a)[i]]
  <2>1. ASSUME NEW i \in Indices(dims) PROVE Ravel(a)[Position(dims, i)] = Elements(a)[i]
    BY <1>3, <1>5
  <2> QED BY <2>1 DEF Reshape
<1>8. Elements(a) = [i \in Indices(dims) |-> Elements(a)[i]]
  BY DEF Elements
<1> QED BY <1>6, <1>7, <1>8

(* A scalar is an array without dimensions: one index, one element.        *)
LEMMA ScalarFacts ==
  /\ Indices(<<>>) = {<<>>} /\ Product(<<>>) = 1
  /\ \A v : Reshape(<<v>>, <<>>) = [i \in {<<>>} |-> v]
<1>1. <<>> \in Seq(Nat) /\ Len(<<>>) = 0
  OBVIOUS
<1>2. \A i : i \in Indices(<<>>) <=> i = <<>>
  <2>1. ASSUME NEW i \in Indices(<<>>) PROVE i = <<>>
    <3>1. i \in [1 .. Len(<<>>) -> Nat]
      BY <1>1, IndexFacts
    <3>2. i \in Seq(Nat) /\ Len(i) = 0
      BY <1>1, <3>1
    <3> QED BY <3>2
  <2>2. <<>> \in Indices(<<>>)
    <3>1. /\ <<>> \in [1 .. Len(<<>>) -> Nat]
          /\ \A k \in 1 .. Len(<<>>) : <<>>[k] \in 0 .. <<>>[k] - 1
      OBVIOUS
    <3> QED BY <1>1, <3>1, IndexFacts
  <2> QED BY <2>1, <2>2
<1>3. Product(<<>>) = 1
  BY <1>1, ProductsFacts DEF Product
<1>4. Position(<<>>, <<>>) = 1
  <2>1. <<>> \in [1 .. Len(<<>>) -> Nat]
    OBVIOUS
  <2>2. Before(<<>>, <<>>)[0] = 0
    BY <1>1, <2>1, BeforeFacts
  <2> QED BY <1>1, <2>2 DEF Position
<1>5. Indices(<<>>) = {<<>>}
  BY <1>2
<1>6. ASSUME NEW v PROVE Reshape(<<v>>, <<>>) = [i \in {<<>>} |-> v]
  <2>1. Reshape(<<v>>, <<>>) = [i \in {<<>>} |-> <<v>>[Position(<<>>, i)]]
    BY <1>5 DEF Reshape
  <2>2. \A i \in {<<>>} : <<v>>[Position(<<>>, i)] = v
    BY <1>4
  <2> QED BY <2>1, <2>2
<1> QED BY <1>3, <1>5, <1>6

-----------------------------------------------------------------------------
(* What is known is still there.                                           *)

(* The bytes under the two keys are those of the item.                     *)
Holds(item, data, meta) ==
  \/ \E object \in Objects : item = Pickle(object) /\ data = Dump(object)
  \/ /\ item.kind \in {"scalar", "tensor"} /\ (item.kind = "scalar" <=> item.dims = <<>>)
     /\ item.dtype \in Range(NumPyDTypes) /\ item.dims \in Seq(Nat)
     /\ item = Item(item.kind, item.dtype, item.dims, item.elements)
     /\ meta = Record(item.dtype, item.dims)
     /\ data \in [are : {"elements"}, dtype : {item.dtype}, cells : Seq(Int)]
     /\ Len(data.cells) >= Product(item.dims)
     /\ item.elements = Reshape(data.cells, item.dims)

Kept ==
  \A n \in Names :
    given[n] # None => Holds(given[n], store[Key(n)], store[MetadataKey(n)])

(* A name and its metadata key differ: the prefix makes a name longer.     *)
LEMMA KeyFacts ==
  ASSUME NEW n \in Names
  PROVE  Key(n) \in KeySet /\ MetadataKey(n) \in KeySet /\ Key(n) # MetadataKey(n)
<1>1. n \in Seq(NameParts) /\ <<Prefix>> \in Seq(NameParts) /\ Len(<<Prefix>>) = 1
  BY InteropAssumption DEF NameParts
<1>2. Len(<<Prefix>> \o n) = 1 + Len(n) /\ Len(n) \in Nat
  <2> HIDE DEF Prefix, NameParts
  <2> QED BY <1>1
<1>3. <<Prefix>> \o n # n
  BY <1>2
<1> QED BY <1>3 DEF KeySet, Key, MetadataKey

Kinds == {"scalar", "tensor", "pickle"}

(* What holds of an item only depends on its keys.                         *)
LEMMA HoldsOnItsKeys ==
  ASSUME NEW m \in Names, NEW item, NEW old, NEW new,
         Holds(item, old[Key(m)], old[MetadataKey(m)]),
         \A key \in KeysOf(m, item.kind) : new[key] = old[key]
  PROVE  Holds(item, new[Key(m)], new[MetadataKey(m)])
<1>1. Key(m) \in KeysOf(m, item.kind)
  BY DEF KeysOf
<1>2. new[Key(m)] = old[Key(m)]
  BY <1>1
<1>3. CASE item.kind = "pickle"
  <2>1. PICK object \in Objects : item = Pickle(object) /\ old[Key(m)] = Dump(object)
    BY <1>3 DEF Holds
  <2> QED BY <1>2, <2>1 DEF Holds
<1>4. CASE item.kind # "pickle"
  <2>1. MetadataKey(m) \in KeysOf(m, item.kind)
    BY <1>4 DEF KeysOf
  <2>2. new[MetadataKey(m)] = old[MetadataKey(m)]
    BY <2>1
  <2> QED BY <1>2, <2>2
<1> QED BY <1>3, <1>4

(* A put leaves its item under the name, and the items of the others stay  *)
(* or become unknown.                                                      *)
LEMMA WriteKeeps ==
  ASSUME Kept, NEW n \in Names, NEW kind \in Kinds, NEW bytes, NEW item,
         Write(n, kind, bytes, item),
         item # None => Holds(item, store'[Key(n)], store'[MetadataKey(n)])
  PROVE  Kept'
<1>1. SUFFICES ASSUME NEW m \in Names, given'[m] # None
               PROVE  Holds(given'[m], store'[Key(m)], store'[MetadataKey(m)])
  BY DEF Kept, Holds
<1>2. CASE m = n
  <2>1. given'[m] = item
    BY <1>2 DEF Write
  <2> QED BY <1>1, <1>2, <2>1
<1>3. CASE m # n
  <2>1. /\ given'[m] = given[m] /\ given[m] # None
        /\ KeysOf(m, given[m].kind) \cap KeysOf(n, kind) = {}
    BY <1>1, <1>3 DEF Write
  <2>2. KeysOf(m, given[m].kind) \subseteq KeySet
    BY KeyFacts DEF KeysOf
  <2>3. \A key \in KeysOf(m, given[m].kind) : store'[key] = store[key]
    BY <2>1, <2>2 DEF Write
  <2>4. Holds(given[m], store[Key(m)], store[MetadataKey(m)])
    BY <2>1 DEF Kept
  <2>5. Holds(given[m], store'[Key(m)], store'[MetadataKey(m)])
    BY <2>3, <2>4, HoldsOnItsKeys
  <2> QED BY <2>1, <2>5
<1> QED BY <1>2, <1>3

(* put_scalar and put_tensor: both keys, and an item that fits.            *)
LEMMA PutItemKeeps ==
  ASSUME Kept, NEW n \in Names, NEW kind \in {"scalar", "tensor"},
         NEW dtype \in Range(NumPyDTypes), NEW dims \in Seq(Nat), NEW cells \in Seq(Int),
         NEW item, PutItem(n, kind, dtype, dims, cells, item),
         item # None =>
           /\ item.kind \in {"scalar", "tensor"} /\ (item.kind = "scalar" <=> dims = <<>>)
           /\ item = Item(item.kind, dtype, dims, item.elements)
           /\ Len(cells) >= Product(dims)
           /\ item.elements = Reshape(cells, dims)
  PROVE  Kept'
<1> DEFINE bytes == [key \in KeysOf(n, kind) |->
                       IF key = Key(n) THEN Bytes(dtype, cells) ELSE Record(dtype, dims)]
<1>1. Write(n, kind, bytes, item)
  BY DEF PutItem
<1>2. KeysOf(n, kind) = {Key(n), MetadataKey(n)}
  BY DEF KeysOf
<1>3. store'[Key(n)] = Bytes(dtype, cells) /\ store'[MetadataKey(n)] = Record(dtype, dims)
  BY <1>1, <1>2, KeyFacts DEF Write
<1>4. item # None => Holds(item, store'[Key(n)], store'[MetadataKey(n)])
  <2> SUFFICES ASSUME item # None PROVE Holds(item, store'[Key(n)], store'[MetadataKey(n)])
    OBVIOUS
  <2>1. item.dtype = dtype /\ item.dims = dims
    BY DEF Item
  <2>2. Bytes(dtype, cells) \in [are : {"elements"}, dtype : {dtype}, cells : Seq(Int)]
        /\ Bytes(dtype, cells).cells = cells
    BY DEF Bytes
  <2> QED BY <1>3, <2>1, <2>2 DEF Holds
<1> HIDE DEF bytes
<1> QED BY <1>1, <1>4, WriteKeeps DEF Kinds

LEMMA AcceptedDTypes ==
  ASSUME NEW class, Accepted(class)
  PROVE  ScalarDType(class) \in Range(NumPyDTypes)
BY DEF Accepted, ScalarDType, Range

LEMMA ArrayDTypes ==
  ASSUME NEW a \in Arrays, Accepted(a.dtype)
  PROVE  NumPyDTypes[a.dtype] \in Range(NumPyDTypes)
BY ArraysAssumption DEF Accepted, Range

LEMMA WrapFacts ==
  ASSUME NEW v \in Int
  PROVE  Wrap(v) \in Int
<1> DEFINE w == 2 * IntLimit
<1>1. IntLimit \in Nat \ {0} /\ w \in Nat \ {0}
  BY InteropAssumption
<1> HIDE DEF w
<1>2. (v + IntLimit) % w \in Int
  BY <1>1
<1> QED BY <1>1, <1>2 DEF Wrap, w

LEMMA NumberKeeps ==
  ASSUME Kept, NEW n \in Names, NEW x \in Numbers, PutNumber(n, x)
  PROVE  Kept'
<1> DEFINE v == IF x.class = "int" /\ ~InRange(x.value) THEN Wrap(x.value) ELSE x.value
           dtype == ScalarDType(x.class)
           item == Scalar(dtype, v)
<1>1. CASE UNCHANGED <<store, given>>
  BY <1>1 DEF Kept, Holds
<1>2. ASSUME Accepted(x.class), PutItem(n, "scalar", dtype, <<>>, <<v>>, item)
      PROVE  Kept'
  <2>1. dtype \in Range(NumPyDTypes)
    BY <1>2, AcceptedDTypes
  <2>2. v \in Int
    BY WrapFacts, InteropAssumption
  <2> HIDE DEF v, dtype
  <2>3. /\ item.kind = "scalar" /\ item.elements = [i \in {<<>>} |-> v]
        /\ item = Item(item.kind, dtype, <<>>, item.elements)
    BY DEF Scalar, Item
  <2>4. <<v>> \in Seq(Int) /\ Len(<<v>>) = 1 /\ <<>> \in Seq(Nat)
    BY <2>2
  <2> HIDE DEF item
  <2>5. item.elements = Reshape(<<v>>, <<>>) /\ Len(<<v>>) >= Product(<<>>)
    <3>1. Reshape(<<v>>, <<>>) = [i \in {<<>>} |-> v]
      BY ScalarFacts
    <3>2. Product(<<>>) = 1
      BY ScalarFacts
    <3> QED BY <2>3, <2>4, <3>1, <3>2
  <2> QED BY <1>2, <2>1, <2>3, <2>4, <2>5, PutItemKeeps
<1> QED BY <1>1, <1>2 DEF PutNumber, Refuse

LEMMA ArrayKeeps ==
  ASSUME Kept, NEW n \in Names, NEW a \in Arrays, PutArray(n, a)
  PROVE  Kept'
<1> DEFINE dtype == NumPyDTypes[a.dtype]
           item == Item("tensor", dtype, a.dims, Elements(a))
<1>1. CASE UNCHANGED <<store, given>>
  BY <1>1 DEF Kept, Holds
<1>2. ASSUME Accepted(a.dtype), a.dims # <<>>,
             PutItem(n, "tensor", dtype, a.dims, Ravel(a), item)
      PROVE  Kept'
  <2>1. dtype \in Range(NumPyDTypes) /\ a.dims \in Seq(Nat)
    BY <1>2, ArrayDTypes, ArraysAssumption
  <2>2. /\ Ravel(a) \in Seq(Int) /\ Len(Ravel(a)) = Product(a.dims)
        /\ Reshape(Ravel(a), a.dims) = Elements(a)
    BY RowMajorRoundTrip
  <2>3. /\ item.kind = "tensor" /\ item.elements = Elements(a)
        /\ item = Item(item.kind, dtype, a.dims, item.elements)
    BY DEF Item
  <2>4. Len(Ravel(a)) >= Product(a.dims)
    BY <2>1, <2>2, RowMajorPositions
  <2> HIDE DEF item, dtype
  <2> QED BY <1>2, <2>1, <2>2, <2>3, <2>4, PutItemKeeps
<1> QED BY <1>1, <1>2 DEF PutArray, Refuse

LEMMA VectorKeeps ==
  ASSUME Kept, NEW n \in Names, NEW x \in Vectors, PutVector(n, x)
  PROVE  Kept'
<1> DEFINE full == Item(IF x.dims = <<>> THEN "scalar" ELSE "tensor", x.dtype, x.dims,
                        Reshape(x.data, x.dims))
           item == IF Len(x.data) >= Product(x.dims) THEN full ELSE None
<1>1. x.dtype \in Range(NumPyDTypes) /\ x.dims \in Seq(Nat) /\ x.data \in Seq(Int)
  BY VectorsAssumption
<1>2. PutItem(n, "tensor", x.dtype, x.dims, x.data, item)
  BY DEF PutVector
<1>3. /\ full.kind \in {"scalar", "tensor"} /\ (full.kind = "scalar" <=> x.dims = <<>>)
      /\ full.elements = Reshape(x.data, x.dims)
      /\ full = Item(full.kind, x.dtype, x.dims, full.elements)
  BY DEF Item
<1>4. item # None => item = full /\ Len(x.data) >= Product(x.dims)
  OBVIOUS
<1> HIDE DEF full, item
<1> QED BY <1>1, <1>2, <1>3, <1>4, PutItemKeeps

LEMMA PickleKeeps ==
  ASSUME Kept, NEW n \in Names, NEW object \in Objects, PutPicklable(n, object)
  PROVE  Kept'
<1> DEFINE bytes == [key \in KeysOf(n, "pickle") |-> Dump(object)]
<1>1. Write(n, "pickle", bytes, Pickle(object))
  BY DEF PutPicklable
<1>2. KeysOf(n, "pickle") = {Key(n)}
  BY DEF KeysOf
<1>3. store'[Key(n)] = Dump(object)
  BY <1>1, <1>2, KeyFacts DEF Write
<1>4. Holds(Pickle(object), store'[Key(n)], store'[MetadataKey(n)])
  BY <1>3 DEF Holds
<1> HIDE DEF bytes
<1> QED BY <1>1, <1>4, WriteKeeps DEF Kinds

LEMMA DeleteKeeps ==
  ASSUME Kept, NEW n \in Names, DeleteItem(n)
  PROVE  Kept'
<1> DEFINE bytes == [key \in KeysOf(n, "tensor") |-> None]
<1>1. Write(n, "tensor", bytes, None)
  BY DEF DeleteItem
<1> HIDE DEF bytes
<1> QED BY <1>1, WriteKeeps DEF Kinds

-----------------------------------------------------------------------------
(* What reads answer. *)

TypedRequests == [kind : {"scalar", "tensor"}, dtype : Range(NumPyDTypes) \cup {AnyDType}]

LEMMA TypedRequest ==
  ASSUME NEW req \in Requests
  PROVE  /\ req.kind # "pickle" => req \in TypedRequests
         /\ req.kind = "pickle" => req.dtype = AnyDType
BY DEF Requests, TypedRequests

(* A typed read of a typed item.                                           *)
LEMMA DecodeFacts ==
  ASSUME NEW req \in TypedRequests, NEW dtype \in Range(NumPyDTypes), NEW dims \in Seq(Nat),
         NEW cells \in Seq(Int), Len(cells) >= Product(dims)
  PROVE  LET kind  == IF dims = <<>> THEN "scalar" ELSE "tensor"
             suits == req.kind = kind /\ req.dtype \in {dtype, AnyDType}
             found == Decode(req, Record(dtype, dims), Bytes(dtype, cells))
         IN  /\ suits /\ (req.dtype = AnyDType => Product(dims) # 0) => found.status = "ok"
             /\ ~ suits => found.status \in Mismatches
             /\ found.status = "ok" => found.got = Item(kind, dtype, dims, Reshape(cells, dims))
<1> DEFINE bytes == Bytes(dtype, cells)  meta == Record(dtype, dims)
           kind == IF dims = <<>> THEN "scalar" ELSE "tensor"
           found == Decode(req, meta, bytes)
<1>1. meta.dtype = dtype /\ meta.dims = dims
  BY DEF Record
<1>2. /\ bytes.are = "elements" /\ bytes.dtype = dtype /\ bytes.cells = cells
  BY DEF Bytes
<1>3. Reshape(Take(bytes, dtype, Product(dims)), dims) = Reshape(cells, dims)
  <2> DEFINE taken == Take(bytes, dtype, Product(dims))
  <2>1. ASSUME NEW p \in 1 .. Product(dims) PROVE taken[p] = cells[p]
    <3>1. p <= Len(cells)
      BY RowMajorPositions
    <3> HIDE DEF bytes
    <3> QED BY <1>2, <3>1 DEF Take
  <2> HIDE DEF taken
  <2>2. \A i \in Indices(dims) : taken[Position(dims, i)] = cells[Position(dims, i)]
    BY <2>1, RowMajorPositions
  <2>3. Reshape(taken, dims) = Reshape(cells, dims)
    BY <2>2 DEF Reshape
  <2> QED BY <2>3 DEF taken
<1>4. found = IF (req.kind = "scalar") # (dims = <<>>) THEN Failed("RankMismatchError")
              ELSE IF req.dtype \notin {AnyDType, dtype} THEN Failed("DTypeMismatchError")
              ELSE IF req.dtype = AnyDType /\ Product(dims) = 0 THEN Failed("ValueError")
              ELSE [status |-> "ok", got |-> Item(req.kind, dtype, dims, Reshape(cells, dims))]
  <2> HIDE DEF bytes, meta
  <2> QED BY <1>1, <1>3 DEF Decode, Found
<1>5. req.kind \in {"scalar", "tensor"}
  BY DEF TypedRequests
<1>6. (req.kind = "scalar") = (dims = <<>>) <=> req.kind = kind
  BY <1>5
<1> HIDE DEF found
<1>7. CASE req.kind # kind
  <2>1. found = Failed("RankMismatchError")
    BY <1>4, <1>6, <1>7
  <2> QED BY <1>7, <2>1 DEF Failed, Mismatches, found
<1>8. CASE req.kind = kind /\ req.dtype \notin {AnyDType, dtype}
  <2>1. found = Failed("DTypeMismatchError")
    BY <1>4, <1>6, <1>8
  <2> QED BY <1>8, <2>1 DEF Failed, Mismatches, found
<1>9. CASE req.kind = kind /\ req.dtype \in {AnyDType, dtype} /\ req.dtype = AnyDType /\ Product(dims) = 0
  <2>1. found = Failed("ValueError")
    BY <1>4, <1>6, <1>9
  <2> QED BY <1>9, <2>1 DEF Failed, found
<1>10. CASE req.kind = kind /\ req.dtype \in {AnyDType, dtype} /\ ~ (req.dtype = AnyDType /\ Product(dims) = 0)
  <2>1. found = [status |-> "ok", got |-> Item(kind, dtype, dims, Reshape(cells, dims))]
    BY <1>4, <1>6, <1>10
  <2> QED BY <1>10, <2>1 DEF found
<1> QED BY <1>7, <1>8, <1>9, <1>10

Answers == WhatWasPutComesBack /\ RequestsAreJudged

LEMMA ReadAnswers ==
  ASSUME Kept, NEW n \in Names, NEW req \in Requests, Read(n, req)
  PROVE  Answers'
<1>1. PICK found \in IF req.kind = "pickle" THEN Unpickled(n) ELSE Typed(n, req) :
        last' = [name |-> n, req |-> req, status |-> found.status, got |-> found.got]
  BY DEF Read
<1>2. /\ last'.name = n /\ last'.req = req
      /\ last'.status = found.status /\ last'.got = found.got /\ given' = given
  BY <1>1 DEF Read
<1>3. SUFFICES ASSUME given[n] # None PROVE Answers'
  BY <1>2 DEF Answers, WhatWasPutComesBack, RequestsAreJudged, Known, IsPickle
<1> DEFINE item == given[n]
           suits == req.kind = item.kind /\ req.dtype \in {item.dtype, AnyDType}
           Right == /\ found.status = "ok" /\ (req.kind = "pickle" <=> item.kind = "pickle")
                         => found.got = item
                    /\ suits /\ (req.dtype = AnyDType => Product(item.dims) # 0)
                         => found.status = "ok"
                    /\ ~ suits /\ "pickle" \notin {req.kind, item.kind}
                         => found.status \in Mismatches
<1>4. SUFFICES Right
  BY <1>2 DEF Answers, WhatWasPutComesBack, RequestsAreJudged, Known, IsPickle
<1>5. Holds(item, store[Key(n)], store[MetadataKey(n)])
  BY <1>3 DEF Kept
<1>6. ASSUME NEW object \in Objects, item = Pickle(object), store[Key(n)] = Dump(object)
      PROVE  Right
  <2>1. item.kind = "pickle"
    BY <1>6 DEF Pickle, Item
  <2>2. CASE req.kind = "pickle"
    <3>1. store[Key(n)] # None /\ store[Key(n)].are = "pickle" /\ store[Key(n)].object = object
      BY <1>6, NoneAssumption DEF Dump
    <3>2. found = [status |-> "ok", got |-> Pickle(object)]
      BY <1>1, <2>2, <3>1 DEF Unpickled, Found
    <3>3. found.status = "ok" /\ found.got = item
      BY <1>6, <3>2
    <3> QED BY <2>1, <3>3
  <2>3. CASE req.kind # "pickle"
    BY <2>1, <2>3
  <2> QED BY <2>2, <2>3
<1>7. ASSUME /\ item.kind \in {"scalar", "tensor"} /\ (item.kind = "scalar" <=> item.dims = <<>>)
             /\ item.dtype \in Range(NumPyDTypes) /\ item.dims \in Seq(Nat)
             /\ item = Item(item.kind, item.dtype, item.dims, item.elements)
             /\ store[MetadataKey(n)] = Record(item.dtype, item.dims)
             /\ store[Key(n)] \in [are : {"elements"}, dtype : {item.dtype}, cells : Seq(Int)]
             /\ Len(store[Key(n)].cells) >= Product(item.dims)
             /\ item.elements = Reshape(store[Key(n)].cells, item.dims)
      PROVE  Right
  <2> DEFINE cells == store[Key(n)].cells
             dtype == item.dtype
             dims == item.dims
  <2>1. /\ cells \in Seq(Int) /\ store[Key(n)] = Bytes(dtype, cells)
        /\ store[Key(n)].are = "elements"
    BY <1>7 DEF Bytes
  <2>2. store[Key(n)] # None /\ store[MetadataKey(n)] # None
    <3>1. store[Key(n)] \in [are : {"elements"}, dtype : Range(NumPyDTypes), cells : Seq(Int)]
      BY <1>7
    <3>2. store[MetadataKey(n)] \in
            [are : {"metadata"}, dtype : Range(NumPyDTypes), dims : Seq(Nat)]
      BY <1>7 DEF Record
    <3> QED BY <3>1, <3>2, NoneAssumption
  <2>3. CASE req.kind = "pickle"
    <3>1. item.kind # "pickle"
      BY <1>7
    <3> QED BY <2>3, <3>1
  <2>4. CASE req.kind # "pickle"
    <3>1. req \in TypedRequests
      BY <2>4, TypedRequest
    <3>2. found = Decode(req, Record(dtype, dims), Bytes(dtype, cells))
      <4>1. Record(dtype, dims).are = "metadata"
        BY DEF Record
      <4> QED BY <1>1, <1>7, <2>1, <2>2, <2>4, <4>1 DEF Typed
    <3>3. item.kind = IF dims = <<>> THEN "scalar" ELSE "tensor"
      BY <1>7
    <3>4. /\ dtype \in Range(NumPyDTypes) /\ dims \in Seq(Nat) /\ Len(cells) >= Product(dims)
          /\ item = Item(item.kind, dtype, dims, item.elements)
          /\ item.elements = Reshape(cells, dims)
      BY <1>7
    <3>5. /\ suits /\ (req.dtype = AnyDType => Product(dims) # 0) => found.status = "ok"
          /\ ~ suits => found.status \in Mismatches
          /\ found.status = "ok" => found.got = Item(item.kind, dtype, dims, Reshape(cells, dims))
      BY <2>1, <3>1, <3>2, <3>3, <3>4, DecodeFacts
    <3> QED BY <3>4, <3>5
  <2> QED BY <2>3, <2>4
<1> HIDE DEF Right
<1> QED BY <1>5, <1>6, <1>7 DEF Holds

-----------------------------------------------------------------------------
(* The theorems about items. *)

IndItems == Kept /\ Answers

(* A step other than a read leaves no answer.                              *)
LEMMA NoAnswer ==
  ASSUME NEW status, Did(status)
  PROVE  Answers'
BY DEF Did, Answers, WhatWasPutComesBack, RequestsAreJudged, Known

LEMMA ItemsInit == Init => IndItems
<1> SUFFICES ASSUME Init PROVE IndItems
  OBVIOUS
<1>1. last.name = None /\ \A n \in Names : given[n] = None
  BY DEF Init
<1> QED BY <1>1 DEF IndItems, Kept, Answers, WhatWasPutComesBack, RequestsAreJudged, Known

LEMMA ItemsStep == IndItems /\ [Next]_vars => IndItems'
<1> SUFFICES ASSUME Kept, Answers, [Next]_vars PROVE Kept' /\ Answers'
  BY DEF IndItems
<1>1. ASSUME NEW n \in Names, NEW x \in Numbers, PutNumber(n, x) PROVE Kept' /\ Answers'
  <2>1. \E status : Did(status)
    BY <1>1 DEF PutNumber, Refuse
  <2> QED BY <1>1, <2>1, NumberKeeps, NoAnswer
<1>2. ASSUME NEW n \in Names, NEW a \in Arrays, PutArray(n, a) PROVE Kept' /\ Answers'
  <2>1. \E status : Did(status)
    BY <1>2 DEF PutArray, Refuse
  <2> QED BY <1>2, <2>1, ArrayKeeps, NoAnswer
<1>3. ASSUME NEW n \in Names, NEW x \in Vectors, PutVector(n, x) PROVE Kept' /\ Answers'
  <2>1. Did("done")
    BY <1>3 DEF PutVector
  <2> QED BY <1>3, <2>1, VectorKeeps, NoAnswer
<1>4. ASSUME NEW n \in Names, NEW object \in Objects, PutPicklable(n, object)
      PROVE  Kept' /\ Answers'
  <2>1. Did("done")
    BY <1>4 DEF PutPicklable
  <2> QED BY <1>4, <2>1, PickleKeeps, NoAnswer
<1>5. ASSUME NEW n \in Names, DeleteItem(n) PROVE Kept' /\ Answers'
  <2>1. Did("done")
    BY <1>5 DEF DeleteItem
  <2> QED BY <1>5, <2>1, DeleteKeeps, NoAnswer
<1>6. ASSUME NEW n \in Names, NEW req \in Requests, Read(n, req) PROVE Kept' /\ Answers'
  <2>1. UNCHANGED <<store, given>>
    BY <1>6 DEF Read
  <2>2. Kept'
    BY <2>1 DEF Kept, Holds
  <2> QED BY <1>6, <2>2, ReadAnswers
<1>7. CASE UNCHANGED vars
  BY <1>7
     DEF vars, Kept, Holds, Answers, WhatWasPutComesBack, RequestsAreJudged, Known
<1> QED BY <1>1, <1>2, <1>3, <1>4, <1>5, <1>6, <1>7 DEF Next

LEMMA ItemsAreKept == Spec => []IndItems
<1> QED BY ItemsInit, ItemsStep, PTL DEF Spec

(* What a read of its own kind returns of a known item is what was put:    *)
(* between languages and memory layouts, over items of any kind, and       *)
(* whatever other bytes may be taken for.                                  *)
THEOREM ItemsComeBack == Spec => []WhatWasPutComesBack
<1>1. IndItems => WhatWasPutComesBack
  BY DEF IndItems, Answers
<1> QED BY <1>1, ItemsAreKept, PTL

(* A request is met or refused for the reason that is documented.          *)
THEOREM RequestsJudged == Spec => []RequestsAreJudged
<1>1. IndItems => RequestsAreJudged
  BY DEF IndItems, Answers
<1> QED BY <1>1, ItemsAreKept, PTL

-----------------------------------------------------------------------------
(* Types. *)

WellFormed(bytes) ==
  \/ bytes = None
  \/ bytes.are = "pickle"
  \/ bytes.are = "elements" /\ bytes.cells \in Seq(Int)
  \/ bytes.are = "metadata" /\ bytes.dims \in Seq(Nat)

Shaped(item) == item # None => DOMAIN item.elements = Indices(item.dims)

TypesOfLast == last.name \in Names \cup {None} /\ last.req \in Requests \cup {None}

LEMMA TypeParts ==
  TypeOK <=> /\ \A key \in KeySet : WellFormed(store[key])
             /\ (\A n \in Names : Shaped(given[n])) /\ Shaped(last.got)
             /\ TypesOfLast
BY DEF TypeOK, WellFormed, Shaped, TypesOfLast

(* Items without dimensions have one element.                              *)
LEMMA SingleShaped ==
  ASSUME NEW v, NEW kind, NEW dtype
  PROVE  Shaped(Item(kind, dtype, <<>>, [i \in {<<>>} |-> v]))
<1> DEFINE elements == [i \in {<<>>} |-> v]  item == Item(kind, dtype, <<>>, elements)
<1>1. item.elements = elements /\ item.dims = <<>>
  <2> HIDE DEF elements
  <2> QED BY DEF Item
<1>2. DOMAIN elements = Indices(<<>>)
  BY ScalarFacts
<1> HIDE DEF elements, item
<1>3. Shaped(item)
  BY <1>1, <1>2 DEF Shaped, elements
<1> QED BY <1>3 DEF item, elements

LEMMA ReshapedIsShaped ==
  ASSUME NEW data, NEW dims, NEW kind, NEW dtype
  PROVE  Shaped(Item(kind, dtype, dims, Reshape(data, dims)))
BY DEF Shaped, Item, Reshape

LEMMA WriteTypes ==
  ASSUME TypeOK, NEW n \in Names, NEW kind, NEW bytes, NEW item, NEW status,
         Write(n, kind, bytes, item), Did(status), Shaped(item),
         \A key \in KeysOf(n, kind) : WellFormed(bytes[key])
  PROVE  TypeOK'
<1>1. /\ \A key \in KeySet : WellFormed(store[key])
      /\ \A m \in Names : Shaped(given[m])
  BY TypeParts
<1>2. \A key \in KeySet : WellFormed(store'[key])
  BY <1>1 DEF Write
<1>3. \A m \in Names : Shaped(given'[m])
  <2>1. Shaped(None)
    BY DEF Shaped
  <2> QED BY <1>1, <2>1 DEF Write
<1>4. last'.name = None /\ last'.req = None /\ last'.got = None
  BY DEF Did
<1> QED BY <1>2, <1>3, <1>4 DEF TypeOK, WellFormed, Shaped

LEMMA PutItemTypes ==
  ASSUME TypeOK, NEW n \in Names, NEW kind, NEW dtype, NEW dims \in Seq(Nat),
         NEW cells \in Seq(Int), NEW item, NEW status,
         PutItem(n, kind, dtype, dims, cells, item), Did(status), Shaped(item)
  PROVE  TypeOK'
<1> DEFINE bytes == [key \in KeysOf(n, kind) |->
                       IF key = Key(n) THEN Bytes(dtype, cells) ELSE Record(dtype, dims)]
<1>1. Write(n, kind, bytes, item)
  BY DEF PutItem
<1>2. WellFormed(Bytes(dtype, cells)) /\ WellFormed(Record(dtype, dims))
  BY DEF WellFormed, Bytes, Record
<1>3. \A key \in KeysOf(n, kind) : WellFormed(bytes[key])
  BY <1>2
<1> HIDE DEF bytes
<1> QED BY <1>1, <1>3, WriteTypes

LEMMA RefuseTypes ==
  ASSUME TypeOK, NEW error, Refuse(error)
  PROVE  TypeOK'
<1>1. /\ store' = store /\ given' = given
      /\ last'.name = None /\ last'.req = None /\ last'.got = None
  BY DEF Refuse, Did
<1> QED BY <1>1 DEF TypeOK

LEMMA FoundShaped ==
  ASSUME NEW n, NEW req, NEW found \in Typed(n, req) \cup Unpickled(n)
  PROVE  Shaped(found.got)
<1>1. \A error : Shaped(Failed(error).got)
  BY DEF Failed, Shaped
<1>2. CASE found \in Unpickled(n)
  <2>1. ASSUME NEW object PROVE Shaped(Found(Pickle(object)).got)
    BY SingleShaped DEF Pickle, Found
  <2> QED BY <1>1, <1>2, <2>1 DEF Unpickled
<1>3. ASSUME NEW meta, NEW bytes PROVE Shaped(Decode(req, meta, bytes).got)
  <2>1. \A item : Found(item).got = item
    BY DEF Found
  <2> QED BY <1>1, <2>1, ReshapedIsShaped DEF Decode
<1>4. CASE found \in Typed(n, req)
  BY <1>1, <1>3, <1>4 DEF Typed
<1> QED BY <1>2, <1>4

LEMMA TypeStep == TypeOK /\ [Next]_vars => TypeOK'
<1> SUFFICES ASSUME TypeOK, [Next]_vars PROVE TypeOK'
  OBVIOUS
<1>1. ASSUME NEW n \in Names, NEW x \in Numbers, PutNumber(n, x) PROVE TypeOK'
  <2> DEFINE narrow == x.class = "int" /\ ~InRange(x.value)
             v == IF narrow THEN Wrap(x.value) ELSE x.value
             item == Scalar(ScalarDType(x.class), v)
  <2>1. x.value \in Int /\ v \in Int
    BY WrapFacts, InteropAssumption
  <2>2. <<v>> \in Seq(Int) /\ <<>> \in Seq(Nat)
    BY <2>1
  <2>3. Shaped(item)
    BY SingleShaped DEF Scalar
  <2>4. CASE \E error : Refuse(error)
    BY <2>4, RefuseTypes
  <2>5. ASSUME PutItem(n, "scalar", ScalarDType(x.class), <<>>, <<v>>, item), Did("done")
        PROVE  TypeOK'
    <3> HIDE DEF v, item
    <3> QED BY <2>2, <2>3, <2>5, PutItemTypes
  <2> QED BY <1>1, <2>4, <2>5 DEF PutNumber
<1>2. ASSUME NEW n \in Names, NEW a \in Arrays, PutArray(n, a) PROVE TypeOK'
  <2> DEFINE dtype == NumPyDTypes[a.dtype]  item == Item("tensor", dtype, a.dims, Elements(a))
  <2>1. a.dims \in Seq(Nat) /\ Ravel(a) \in Seq(Int)
    BY ArraysAssumption, RowMajorRoundTrip
  <2>2. Shaped(item)
    BY DEF Shaped, Item, Elements
  <2>3. CASE \E error : Refuse(error)
    BY <2>3, RefuseTypes
  <2>4. ASSUME PutItem(n, "tensor", dtype, a.dims, Ravel(a), item), Did("done")
        PROVE  TypeOK'
    <3> HIDE DEF item, dtype
    <3> QED BY <2>1, <2>2, <2>4, PutItemTypes
  <2> QED BY <1>2, <2>3, <2>4 DEF PutArray
<1>3. ASSUME NEW n \in Names, NEW x \in Vectors, PutVector(n, x) PROVE TypeOK'
  <2> DEFINE full == Item(IF x.dims = <<>> THEN "scalar" ELSE "tensor", x.dtype, x.dims,
                          Reshape(x.data, x.dims))
             item == IF Len(x.data) >= Product(x.dims) THEN full ELSE None
  <2>1. x.dims \in Seq(Nat) /\ x.data \in Seq(Int)
    BY VectorsAssumption
  <2>2. PutItem(n, "tensor", x.dtype, x.dims, x.data, item) /\ Did("done")
    BY <1>3 DEF PutVector
  <2>3. Shaped(item)
    <3>1. Shaped(full) /\ Shaped(None)
      BY ReshapedIsShaped DEF Shaped
    <3> HIDE DEF full
    <3> QED BY <3>1
  <2> HIDE DEF item
  <2> QED BY <2>1, <2>2, <2>3, PutItemTypes
<1>4. ASSUME NEW n \in Names, NEW object \in Objects, PutPicklable(n, object) PROVE TypeOK'
  <2> DEFINE bytes == [key \in KeysOf(n, "pickle") |-> Dump(object)]
  <2>1. Write(n, "pickle", bytes, Pickle(object)) /\ Did("done")
    BY <1>4 DEF PutPicklable
  <2>2. Shaped(Pickle(object))
    BY SingleShaped DEF Pickle
  <2>3. \A key \in KeysOf(n, "pickle") : WellFormed(bytes[key])
    BY DEF WellFormed, Dump
  <2> HIDE DEF bytes
  <2> QED BY <2>1, <2>2, <2>3, WriteTypes
<1>5. ASSUME NEW n \in Names, DeleteItem(n) PROVE TypeOK'
  <2> DEFINE bytes == [key \in KeysOf(n, "tensor") |-> None]
  <2>1. Write(n, "tensor", bytes, None) /\ Did("done")
    BY <1>5 DEF DeleteItem
  <2>2. Shaped(None) /\ \A key \in KeysOf(n, "tensor") : WellFormed(bytes[key])
    BY DEF WellFormed, Shaped
  <2> HIDE DEF bytes
  <2> QED BY <2>1, <2>2, WriteTypes
<1>6. ASSUME NEW n \in Names, NEW req \in Requests, Read(n, req) PROVE TypeOK'
  <2>1. PICK found \in IF req.kind = "pickle" THEN Unpickled(n) ELSE Typed(n, req) :
          last' = [name |-> n, req |-> req, status |-> found.status, got |-> found.got]
    BY <1>6 DEF Read
  <2>2. /\ last'.name = n /\ last'.req = req /\ last'.got = found.got
        /\ store' = store /\ given' = given
    BY <1>6, <2>1 DEF Read
  <2>3. Shaped(found.got)
    BY FoundShaped
  <2> QED BY <2>2, <2>3 DEF TypeOK, Shaped
<1>7. CASE UNCHANGED vars
  BY <1>7 DEF vars, TypeOK
<1> QED BY <1>1, <1>2, <1>3, <1>4, <1>5, <1>6, <1>7 DEF Next

(* The variables keep their types: elements lie at the indices of their    *)
(* dimensions, cells are numbers.                                          *)
THEOREM TypeCorrect == Spec => []TypeOK
<1>1. Init => TypeOK
  <2> SUFFICES ASSUME Init PROVE TypeOK
    OBVIOUS
  <2>1. /\ \A key \in KeySet : store[key] = None
        /\ \A n \in Names : given[n] = None
        /\ last.got = None /\ last.name = None /\ last.req = None
    BY DEF Init
  <2> QED BY <2>1 DEF TypeOK
<1> QED BY <1>1, TypeStep, PTL DEF Spec

=============================================================================
