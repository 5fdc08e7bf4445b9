---------------------------- MODULE MetaDataProofs ----------------------------
(***************************************************************************)
(* The metadata record and the two element counts, for tensors of any      *)
(* shape and integers of any width.  That a product of dimensions is       *)
(* counted right by both sides would be an induction over the dimensions;  *)
(* here it is an invariant of the loops, which follow the exact product.   *)
(***************************************************************************)
EXTENDS MetaData, TLAPS

-----------------------------------------------------------------------------
(* Arithmetic. *)

(* Reduction leaves small numbers alone and ends in the type.              *)
LEMMA ToSizeFacts ==
  ASSUME NEW n \in Int
  PROVE  ToSize(n) \in Size /\ (n \in Size => ToSize(n) = n)
<1>1. SizeLimit \in Nat \ {0}
  BY WidthsAssumption
<1>2. n % SizeLimit \in 0 .. SizeLimit - 1
  BY <1>1
<1>3. n \in 0 .. SizeLimit - 1 => n % SizeLimit = n
  BY <1>1
<1> QED BY <1>2, <1>3 DEF ToSize, Size

LEMMA ToIntFacts ==
  ASSUME NEW n \in Nat
  PROVE  ToInt(n) \in -IntLimit .. IntLimit - 1 /\ (n < IntLimit => ToInt(n) = n)
<1> DEFINE m == n % (2 * IntLimit)
<1>1. IntLimit \in Nat \ {0}
  BY WidthsAssumption
<1>2. m \in 0 .. 2 * IntLimit - 1 /\ (n < IntLimit => m = n)
  BY <1>1
<1>3. ToInt(n) = IF m >= IntLimit THEN m - 2 * IntLimit ELSE m
  BY DEF ToInt
<1> HIDE DEF m
<1> QED BY <1>1, <1>2, <1>3

(* A product that is small has a small left factor, or is zero.            *)
LEMMA SmallProduct ==
  ASSUME NEW a \in Nat, NEW d \in Nat
  PROVE  a * d \in Nat /\ (d = 0 => a * d = 0) /\ (d # 0 => a <= a * d)
OBVIOUS

(* One step of radex_client_put_tensor keeps up with the exact product.    *)
LEMMA SizeStep ==
  ASSUME NEW a \in Nat, NEW d \in Size, NEW c \in Size, a < SizeLimit => c = a,
         a * d < SizeLimit
  PROVE  ToSize(c * d) = a * d
<1>1. a \in Nat /\ d \in Nat /\ c \in Nat /\ SizeLimit \in Nat
  BY WidthsAssumption DEF Size
<1>2. a * d \in Size
  BY <1>1, SmallProduct DEF Size
<1>3. c * d = a * d
  <2>1. CASE d = 0
    BY <1>1, <2>1
  <2>2. CASE d # 0
    BY <1>1, <2>2, SmallProduct
  <2> QED BY <2>1, <2>2
<1> QED BY <1>2, <1>3, ToSizeFacts DEF Size

(* So does one step of n_elements, in an int.                              *)
LEMMA IntStep ==
  ASSUME NEW a \in Nat, NEW d \in Size, NEW c \in -IntLimit .. IntLimit - 1,
         a < IntLimit => c = a, a * d < IntLimit
  PROVE  ToInt(ToSize(ToSize(c) * d)) = a * d
<1>1. a \in Nat /\ d \in Nat /\ c \in Int /\ IntLimit \in Nat /\ IntLimit <= SizeLimit
      /\ SizeLimit \in Nat
  BY WidthsAssumption DEF Size
<1>2. a * d \in Size /\ a * d \in Nat
  BY <1>1, SmallProduct DEF Size
<1>3. ToSize(c) \in Nat
  BY <1>1, ToSizeFacts DEF Size
<1>4. ToSize(c) * d = a * d
  <2>1. CASE d = 0
    BY <1>1, <1>3, <2>1
  <2>2. CASE d # 0
    <3>1. a < IntLimit /\ c = a
      BY <1>1, <1>2, <2>2, SmallProduct
    <3>2. a \in Size /\ a \in Int
      BY <1>1, <3>1 DEF Size
    <3> QED BY <3>1, <3>2, ToSizeFacts
  <2> QED BY <2>1, <2>2
<1>5. ToSize(a * d) = a * d
  BY <1>2, ToSizeFacts
<1> QED BY <1>2, <1>4, <1>5, ToIntFacts

-----------------------------------------------------------------------------
(* Records. *)

(* The record that put_tensor writes announces what it holds, and its      *)
(* length is the one the reader expects, even where that length wraps.     *)
LEMMA OwnRecord ==
  ASSUME NEW ds \in Shapes
  PROVE  LET b == MakeBuffer(ds) IN
         /\ b \in Buffer
         /\ NDims(b) = Len(ds) /\ Len(b.words) = NDims(b) + Header
         /\ b.length = ExpectedSize(b)
         /\ \A k \in 1 .. Len(ds) : Dim(b, k) = ds[k]
<1> DEFINE b == MakeBuffer(ds)
<1>1. /\ ds \in Seq(Size) /\ Len(ds) \in Size /\ Len(ds) \in Nat /\ Len(ds) \in Int
      /\ DType \in Size /\ WordBytes \in Int
  BY BuffersAssumption, WidthsAssumption DEF Size
<1>2. <<DType, Len(ds)>> \in Seq(Size) /\ Len(<<DType, Len(ds)>>) = 2
      /\ <<DType, Len(ds)>>[2] = Len(ds)
  BY <1>1
<1>3. /\ b.words \in Seq(Size) /\ Len(b.words) = Len(ds) + 2
      /\ b.words[2] = Len(ds)
      /\ \A k \in 1 .. Len(ds) : b.words[2 + k] = ds[k]
  BY <1>1, <1>2 DEF MakeBuffer
<1>4. b.length = ToSize((Len(ds) + Header) * WordBytes)
  BY DEF MakeBuffer
<1>5. (Len(ds) + Header) * WordBytes \in Int
  BY <1>1 DEF Header
<1>6. b.length \in Size
  BY <1>4, <1>5, ToSizeFacts
<1>7. b \in Buffer
  <2>1. b = [length |-> b.length, words |-> b.words]
    BY DEF MakeBuffer
  <2> QED BY <1>3, <1>6, <2>1 DEF Buffer
<1> HIDE DEF b
<1>8. NDims(b) = Len(ds)
  BY <1>3 DEF NDims
<1>9. b.length = ExpectedSize(b)
  BY <1>4, <1>8 DEF ExpectedSize
<1>10. Len(b.words) = NDims(b) + Header
  BY <1>3, <1>8 DEF Header
<1>11. \A k \in 1 .. Len(ds) : Dim(b, k) = ds[k]
  BY <1>3 DEF Dim, Header
<1> QED BY <1>7, <1>8, <1>9, <1>10, <1>11 DEF b

(* Among the bytes of others, whose rank may be anything, the length tells *)
(* whether the dimensions are there unless the expected length wraps.      *)
LEMMA RawRecord ==
  ASSUME NEW b \in RawBuffers, b.length = ExpectedSize(b), ~Wraps(b)
  PROVE  Len(b.words) = NDims(b) + Header
<1>1. /\ b \in Buffer /\ Len(b.words) >= Header
      /\ WordBytes * Len(b.words) <= b.length
      /\ b.length < WordBytes * (Len(b.words) + 1)
  BY BuffersAssumption
<1>2. b.words \in Seq(Size) /\ WordBytes \in Nat \ {0} /\ SizeLimit \in Nat
  BY <1>1, WidthsAssumption DEF Buffer
<1> DEFINE l == Len(b.words)  n == NDims(b)  w == WordBytes
<1>3. l \in Nat /\ n \in Nat
  BY <1>1, <1>2 DEF NDims, Header, Size
<1>4. (n + Header) * w \in Size /\ (n + Header) * w \in Int
  <2>1. ~((n + Header) * w >= SizeLimit)
    BY DEF Wraps
  <2> HIDE DEF n
  <2> QED BY <1>2, <1>3, <2>1 DEF Header, Size
<1>5. b.length = (n + Header) * w
  BY <1>4, ToSizeFacts DEF ExpectedSize
<1>6. w * l <= (n + 2) * w /\ (n + 2) * w < w * (l + 1)
  BY <1>1, <1>5 DEF Header
<1>7. w \in Nat \ {0}
  BY <1>2
<1> HIDE DEF l, n, w
<1>8. l <= n + 2
  <2>1. CASE l >= n + 3
    <3>1. w * l >= w * (n + 3)
      BY <1>3, <1>7, <2>1
    <3> QED BY <1>3, <1>6, <1>7, <3>1
  <2> QED BY <1>3, <2>1
<1>9. n + 2 <= l
  <2>1. CASE l + 1 <= n + 2
    <3>1. w * (l + 1) <= w * (n + 2)
      BY <1>3, <1>7, <2>1
    <3> QED BY <1>3, <1>6, <1>7, <3>1
  <2> QED BY <1>3, <2>1
<1> QED BY <1>3, <1>8, <1>9 DEF l, n, Header

-----------------------------------------------------------------------------
(* The invariant that needs nothing of the bytes of others: what the       *)
(* buffer is, and that both loops follow the exact product while it fits.  *)

Basics ==
  /\ pc \in {"idle", "count", "stored", "read", "done", "failed"}
  /\ dims \in Seq(Size) /\ count \in Size /\ stored \in Size
  /\ buffer \in Buffer \cup {None}
  /\ i \in Nat /\ product \in Seq(Nat)
  /\ pc # "idle" => dims \in Shapes
  /\ pc \in {"idle", "count", "stored", "failed"} => acc = 0

Written == pc \in {"stored", "read", "done", "failed"}

Origin == Written => Own \/ buffer \in RawBuffers

(* product lists the products of the first dimensions.                     *)
Chain ==
  /\ Len(product) >= 1 /\ Len(product) <= Len(dims) + 1
  /\ \A j \in 1 .. Len(product) - 1 : product[j + 1] = product[j] * dims[j]
  /\ product[1] = 1

Counted ==
  /\ pc = "count" =>
       /\ Len(product) = i + 1
       /\ product[i + 1] < SizeLimit => count = product[i + 1]
  /\ Written =>
       /\ Len(product) = Len(dims) + 1
       /\ Exact < SizeLimit => stored = Exact

Accumulated ==
  /\ pc = "read" /\ Own =>
       /\ acc \in -IntLimit .. IntLimit - 1 /\ i <= Len(dims)
       /\ product[i + 1] < IntLimit => acc = product[i + 1]
  /\ pc = "done" /\ Own => (Exact < IntLimit => acc = Exact)

IndCounts == Basics /\ Origin /\ Chain /\ Counted /\ Accumulated

LEMMA CountsInit == Init => IndCounts
<1> SUFFICES ASSUME Init PROVE IndCounts
  OBVIOUS
<1>1. 0 \in Size /\ <<1>> \in Seq(Nat) /\ <<>> \in Seq(Size) /\ Len(<<1>>) = 1
  BY WidthsAssumption DEF Size
<1> QED BY <1>1 DEF Init, IndCounts, Basics, Origin, Written, Chain, Counted, Accumulated

LEMMA CountsBasics == IndCounts /\ [Next]_vars => Basics'
<1> SUFFICES ASSUME IndCounts, [Next]_vars PROVE Basics'
  OBVIOUS
<1> USE DEF Basics
<1>0. Basics /\ Origin /\ Chain /\ Counted
  BY DEF IndCounts
<1>1. 0 \in Size /\ 1 \in Size /\ <<1>> \in Seq(Nat) /\ <<>> \in Seq(Size)
  BY WidthsAssumption DEF Size
<1>2. ASSUME NEW ds \in Shapes, BeginPut(ds) PROVE Basics'
  <2>1. ds \in Seq(Size)
    BY BuffersAssumption
  <2> QED BY <1>0, <1>1, <1>2, <2>1 DEF BeginPut
<1>3. CASE Count
  <2>1. i + 1 \in 1 .. Len(dims) /\ i + 1 \in 1 .. Len(product)
    BY <1>0, <1>3 DEF Count, Counted
  <2>2. dims[i + 1] \in Size /\ product[i + 1] \in Nat
    BY <1>0, <2>1
  <2>3. dims[i + 1] \in Nat /\ count \in Nat
    BY <1>0, <2>2 DEF Size
  <2>4. count * dims[i + 1] \in Int /\ product[i + 1] * dims[i + 1] \in Nat
    BY <2>2, <2>3, SmallProduct
  <2>5. count' \in Size
    BY <1>3, <2>4, ToSizeFacts DEF Count
  <2>6. product' \in Seq(Nat)
    BY <1>0, <1>3, <2>4 DEF Count
  <2> QED BY <1>0, <1>3, <2>5, <2>6 DEF Count
<1>4. CASE Put
  <2>1. MakeBuffer(dims) \in Buffer
    BY <1>0, <1>4, OwnRecord DEF Put
  <2> QED BY <1>0, <1>4, <2>1 DEF Put
<1>5. ASSUME NEW b \in RawBuffers, PutRaw(b) PROVE Basics'
  BY <1>0, <1>5, BuffersAssumption DEF PutRaw
<1>6. CASE FromBuffer
  BY <1>0, <1>6 DEF FromBuffer
<1>7. CASE Read
  BY <1>0, <1>7 DEF Read
<1>8. CASE ReadDone
  BY <1>0, <1>8 DEF ReadDone
<1>9. CASE NextHandle
  BY <1>0, <1>1, <1>9 DEF NextHandle
<1>10. CASE UNCHANGED vars
  BY <1>0, <1>10 DEF vars
<1> QED BY <1>2, <1>3, <1>4, <1>5, <1>6, <1>7, <1>8, <1>9, <1>10 DEF Next

(* One more dimension lengthens the chain and keeps what it says.          *)
LEMMA ChainGrows ==
  ASSUME Chain, dims \in Seq(Size), product \in Seq(Nat), i \in Nat,
         Len(product) = i + 1, i < Len(dims), Count
  PROVE  /\ Chain' /\ Len(product') = i + 2
         /\ product'[i + 2] = product[i + 1] * dims[i + 1]
<1>1. /\ product' = Append(product, product[i + 1] * dims[i + 1])
      /\ dims' = dims
  BY DEF Count
<1>2. product[i + 1] * dims[i + 1] \in Nat
  <2>1. i + 1 \in 1 .. Len(dims) /\ i + 1 \in 1 .. Len(product)
    OBVIOUS
  <2>2. dims[i + 1] \in Size /\ product[i + 1] \in Nat
    BY <2>1
  <2>3. dims[i + 1] \in Nat
    BY <2>2 DEF Size
  <2> QED BY <2>2, <2>3, SmallProduct
<1> DEFINE p == product[i + 1] * dims[i + 1]
<1> HIDE DEF p
<1>3. /\ Len(Append(product, p)) = i + 2 /\ Append(product, p)[i + 2] = p
      /\ \A j \in 1 .. i + 1 : Append(product, p)[j] = product[j]
  BY <1>2 DEF p
<1>4. Len(product') = i + 2 /\ product'[i + 2] = product[i + 1] * dims[i + 1]
      /\ \A j \in 1 .. i + 1 : product'[j] = product[j]
  BY <1>1, <1>3 DEF p
<1>5. \A j \in 1 .. Len(product') - 1 : product'[j + 1] = product'[j] * dims'[j]
  <2> SUFFICES ASSUME NEW j \in 1 .. i + 1
               PROVE  product'[j + 1] = product'[j] * dims[j]
    BY <1>1, <1>4, SMTT(30)
  <2>1. product'[j] = product[j]
    BY <1>4
  <2>2. CASE j = i + 1
    BY <1>4, <2>1, <2>2
  <2>3. CASE j # i + 1
    <3>1. j \in 1 .. i /\ j + 1 \in 1 .. i + 1
      BY <2>3
    <3>2. product[j + 1] = product[j] * dims[j]
      BY <3>1 DEF Chain
    <3> QED BY <1>4, <2>1, <3>1, <3>2
  <2> QED BY <2>2, <2>3
<1>6. product'[1] = 1 /\ Len(dims') = Len(dims) /\ Len(dims) \in Nat
  BY <1>1, <1>4 DEF Chain
<1>7. Len(product') >= 1 /\ Len(product') <= Len(dims') + 1
  BY <1>4, <1>6
<1> QED BY <1>4, <1>5, <1>6, <1>7 DEF Chain

LEMMA CountsStep == IndCounts /\ [Next]_vars => IndCounts'
<1> SUFFICES ASSUME IndCounts, [Next]_vars
             PROVE  Origin' /\ Chain' /\ Counted' /\ Accumulated'
  BY CountsBasics DEF IndCounts
<1>0. Basics /\ Origin /\ Chain /\ Counted /\ Accumulated
  BY DEF IndCounts
<1> DEFINE After == Origin' /\ Chain' /\ Counted' /\ Accumulated'
<1>1. ASSUME NEW ds \in Shapes, BeginPut(ds) PROVE After
  <2>1. /\ pc' = "count" /\ dims' = ds /\ count' = 1 /\ i' = 0 /\ product' = <<1>>
    BY <1>1 DEF BeginPut
  <2>2. ds \in Seq(Size) /\ Len(ds) \in Nat
    BY BuffersAssumption
  <2>3. Chain'
    BY <2>1, <2>2 DEF Chain
  <2> QED BY <2>1, <2>3 DEF Origin, Written, Counted, Accumulated
<1>2. ASSUME Count PROVE After
  <2>1. /\ pc = "count" /\ i < Len(dims) /\ pc' = "count" /\ dims' = dims /\ i' = i + 1
        /\ count' = ToSize(count * dims[i + 1])
    BY <1>2 DEF Count
  <2>2. /\ dims \in Seq(Size) /\ product \in Seq(Nat) /\ i \in Nat /\ Len(product) = i + 1
        /\ count \in Size /\ (product[i + 1] < SizeLimit => count = product[i + 1])
    BY <1>0, <2>1 DEF Basics, Counted
  <2>3. /\ Chain' /\ Len(product') = i + 2
        /\ product'[i + 2] = product[i + 1] * dims[i + 1]
    BY <1>0, <1>2, <2>1, <2>2, ChainGrows
  <2>4. dims[i + 1] \in Size /\ product[i + 1] \in Nat
    BY <2>1, <2>2
  <2>5. product'[i + 2] < SizeLimit => count' = product'[i + 2]
    BY <2>1, <2>2, <2>3, <2>4, SizeStep
  <2>6. Len(product') = i' + 1 /\ i' + 1 = i + 2
    BY <2>1, <2>2, <2>3
  <2>7. Counted'
    BY <2>1, <2>5, <2>6 DEF Counted, Written
  <2> QED BY <2>1, <2>3, <2>7 DEF Origin, Written, Accumulated
<1>3. ASSUME Put PROVE After
  <2>1. /\ pc = "count" /\ i = Len(dims) /\ pc' = "stored" /\ buffer' = MakeBuffer(dims)
        /\ stored' = count /\ dims' = dims /\ product' = product
    BY <1>3 DEF Put
  <2>2. Len(product) = i + 1 /\ (product[i + 1] < SizeLimit => count = product[i + 1])
    BY <1>0, <2>1 DEF Counted
  <2>3. Exact' = product[i + 1]
    BY <2>1, <2>2 DEF Exact
  <2>4. Counted'
    BY <2>1, <2>2, <2>3 DEF Counted, Written
  <2>5. Chain'
    BY <1>0, <2>1 DEF Chain
  <2> QED BY <2>1, <2>4, <2>5 DEF Origin, Own, Accumulated
<1> DEFINE Kept == /\ dims' = dims /\ product' = product /\ stored' = stored
                   /\ Written /\ Written'
<1>4. ASSUME Kept PROVE Chain' /\ Counted'
  <2>1. Exact' = Exact
    BY <1>4 DEF Exact
  <2> QED BY <1>0, <1>4, <2>1 DEF Chain, Counted, Written
<1>5. ASSUME NEW b \in RawBuffers, PutRaw(b) PROVE After
  <2>1. /\ pc = "stored" /\ pc' = "stored" /\ buffer' = b
        /\ dims' = dims /\ product' = product /\ stored' = stored
    BY <1>5 DEF PutRaw
  <2>2. Kept
    BY <2>1 DEF Written
  <2> QED BY <1>4, <2>1, <2>2 DEF Origin, Accumulated
<1>6. ASSUME FromBuffer PROVE After
  <2>1. /\ pc = "stored" /\ buffer' = buffer
        /\ dims' = dims /\ product' = product /\ stored' = stored
        /\ \/ pc' = "failed"
           \/ pc' = "read" /\ acc' = 1 /\ i' = 0
    BY <1>6 DEF FromBuffer
  <2>2. Kept
    BY <2>1 DEF Written
  <2>3. Origin'
    BY <1>0, <2>1 DEF Origin, Written, Own
  <2>4. /\ 1 \in -IntLimit .. IntLimit - 1 /\ Len(dims) \in Nat /\ product[1] = 1
    BY <1>0, WidthsAssumption DEF Chain, Basics
  <2>5. Accumulated'
    BY <2>1, <2>4 DEF Accumulated
  <2> QED BY <1>4, <2>2, <2>3, <2>5
<1>7. ASSUME Read PROVE After
  <2>1. /\ pc = "read" /\ i < NDims(buffer) /\ pc' = "read" /\ buffer' = buffer
        /\ \E x \in DimsFound(buffer, i + 1) : acc' = ToInt(ToSize(ToSize(acc) * x))
        /\ i' = i + 1
        /\ dims' = dims /\ product' = product /\ stored' = stored
    BY <1>7 DEF Read
  <2>2. Kept
    BY <2>1 DEF Written
  <2>3. Origin'
    BY <1>0, <2>1 DEF Origin, Written, Own
  <2>4. ASSUME Own
        PROVE  /\ acc' \in -IntLimit .. IntLimit - 1 /\ i' <= Len(dims)
               /\ product[i' + 1] < IntLimit => acc' = product[i' + 1]
    <3>1. /\ dims \in Shapes /\ dims \in Seq(Size) /\ product \in Seq(Nat) /\ i \in Nat
      BY <1>0, <2>1 DEF Basics
    <3>2. /\ NDims(buffer) = Len(dims) /\ Len(buffer.words) = NDims(buffer) + Header
          /\ \A k \in 1 .. Len(dims) : Dim(buffer, k) = dims[k]
      BY <2>4, <3>1, OwnRecord DEF Own
    <3>3. i + 1 \in 1 .. Len(dims) /\ Len(dims) \in Nat
      BY <2>1, <3>1, <3>2
    <3>4. DimsFound(buffer, i + 1) = {dims[i + 1]} /\ dims[i + 1] \in Size
      <4>1. Header + (i + 1) <= Len(buffer.words)
        BY <3>2, <3>3 DEF Header
      <4> QED BY <3>1, <3>2, <3>3, <4>1 DEF DimsFound
    <3>5. Len(product) = Len(dims) + 1
      BY <1>0, <2>1 DEF Counted, Written
    <3>6. i + 1 \in 1 .. Len(product) - 1 /\ i + 1 \in 1 .. Len(product)
      BY <3>3, <3>5
    <3>7. product[i + 1] \in Nat /\ product[(i + 1) + 1] = product[i + 1] * dims[i + 1]
      BY <1>0, <3>1, <3>6 DEF Chain
    <3>8. acc \in -IntLimit .. IntLimit - 1 /\ (product[i + 1] < IntLimit => acc = product[i + 1])
      BY <1>0, <2>1, <2>4 DEF Accumulated
    <3> DEFINE d == dims[i + 1]  p == product[i + 1]
    <3>9. d \in Size /\ p \in Nat /\ acc' = ToInt(ToSize(ToSize(acc) * d))
      BY <2>1, <3>4, <3>7
    <3>10. product[i' + 1] = p * d
      BY <2>1, <3>7
    <3>11. p < IntLimit => acc = p
      BY <3>8
    <3> HIDE DEF d, p
    <3>12. p * d < IntLimit => acc' = p * d
      BY <3>8, <3>9, <3>11, IntStep
    <3>13. acc' \in -IntLimit .. IntLimit - 1
      <4>1. acc \in Int /\ d \in Nat
        BY <3>8, <3>9, WidthsAssumption DEF Size
      <4>2. ToSize(acc) \in Nat
        BY <4>1, ToSizeFacts DEF Size
      <4>3. ToSize(acc) * d \in Int
        BY <4>1, <4>2
      <4>4. ToSize(ToSize(acc) * d) \in Nat
        BY <4>3, ToSizeFacts DEF Size
      <4> QED BY <3>9, <4>4, ToIntFacts
    <3> QED BY <2>1, <3>3, <3>10, <3>12, <3>13
  <2>5. Accumulated'
    <3>1. Own' <=> Own
      BY <2>1 DEF Own
    <3> QED BY <2>1, <2>4, <3>1 DEF Accumulated
  <2> QED BY <1>4, <2>2, <2>3, <2>5
<1>8. ASSUME ReadDone PROVE After
  <2>1. /\ pc = "read" /\ AtEnd(buffer, i) /\ pc' = "done" /\ buffer' = buffer
        /\ acc' = ToSize(acc)
        /\ dims' = dims /\ product' = product /\ stored' = stored
    BY <1>8 DEF ReadDone
  <2>2. Kept
    BY <2>1 DEF Written
  <2>3. Origin' /\ (Own' <=> Own) /\ Exact' = Exact
    BY <1>0, <2>1 DEF Origin, Written, Own, Exact
  <2>4. ASSUME Own, Exact < IntLimit PROVE acc' = Exact
    <3>1. dims \in Shapes /\ product \in Seq(Nat) /\ dims \in Seq(Size)
      BY <1>0, <2>1 DEF Basics
    <3>2. i = Len(dims)
      <4>1. /\ NDims(buffer) = Len(dims) /\ Len(buffer.words) = NDims(buffer) + Header
        BY <2>4, <3>1, OwnRecord DEF Own
      <4>2. i \in Nat /\ Len(dims) \in Nat
        BY <1>0, <3>1 DEF Basics
      <4> QED BY <2>1, <4>1, <4>2 DEF AtEnd, Header
    <3>3. Len(product) = i + 1
      BY <1>0, <2>1, <3>2 DEF Counted, Written
    <3>4. Exact = product[i + 1] /\ Exact \in Nat
      <4>1. i + 1 \in 1 .. Len(product)
        BY <3>1, <3>2, <3>3
      <4> QED BY <3>1, <3>3, <4>1 DEF Exact
    <3>5. acc = Exact
      BY <1>0, <2>1, <2>4, <3>4 DEF Accumulated
    <3>6. Exact \in Size /\ Exact \in Int
      BY <2>4, <3>4, WidthsAssumption DEF Size
    <3> QED BY <2>1, <3>5, <3>6, ToSizeFacts
  <2>5. Accumulated'
    BY <2>1, <2>3, <2>4 DEF Accumulated
  <2> QED BY <1>4, <2>2, <2>3, <2>5
<1>9. ASSUME NextHandle PROVE After
  <2>1. /\ pc' = "idle" /\ dims' = <<>> /\ i' = 0 /\ product' = <<1>>
    BY <1>9 DEF NextHandle
  <2>2. Chain'
    BY <2>1 DEF Chain
  <2> QED BY <2>1, <2>2 DEF Origin, Written, Counted, Accumulated
<1>10. ASSUME UNCHANGED vars PROVE After
  BY <1>0, <1>10
     DEF vars, Origin, Written, Own, Chain, Counted, Exact, Accumulated
<1> QED BY <1>1, <1>2, <1>3, <1>5, <1>6, <1>7, <1>8, <1>9, <1>10 DEF Next

LEMMA CountsAreKept == Spec => []IndCounts
<1> QED BY CountsInit, CountsStep, PTL DEF Spec

(* The two sides count alike, in their different types and for any shapes: *)
(* n_elements of client_c.cpp and of metadata.hpp, next to whatever bytes  *)
(* others put.                                                             *)
THEOREM CountsAgree == Spec => []ElementsAgree
<1>1. IndCounts => ElementsAgree
  <2> SUFFICES ASSUME IndCounts, pc = "done", Own, Exact < IntLimit
               PROVE  acc = stored
    BY DEF ElementsAgree
  <2>1. acc = Exact /\ (Exact < SizeLimit => stored = Exact)
    BY DEF IndCounts, Accumulated, Counted, Written
  <2>2. product \in Seq(Nat) /\ Len(product) >= 1
    BY DEF IndCounts, Basics, Chain
  <2>3. Exact \in Nat
    <3>1. Len(product) \in 1 .. Len(product)
      BY <2>2
    <3> QED BY <2>2, <3>1 DEF Exact
  <2>4. Exact < SizeLimit
    BY <2>3, WidthsAssumption
  <2> QED BY <2>1, <2>4
<1> QED BY <1>1, CountsAreKept, PTL

-----------------------------------------------------------------------------
(* Records of others.  Whatever n_elements finds behind the words of a     *)
(* record with a huge rank, its accumulator stays an int.                  *)

IndChecked == IndCounts /\ TypeOK /\ RecordsAreChecked

(* What is multiplied is a word, of the record or behind it.               *)
LEMMA WordsAreFound ==
  ASSUME IndChecked, pc = "read", NEW d \in DimsFound(buffer, i + 1)
  PROVE  d \in Nat
<1>1. i \in Nat /\ Origin
  BY DEF IndChecked, TypeOK, IndCounts
<1>2. buffer \in Buffer
  <2>1. CASE Own
    BY <2>1, OwnRecord DEF Own, IndChecked, IndCounts, Basics
  <2>2. CASE buffer \in RawBuffers
    BY <2>2, BuffersAssumption
  <2> QED BY <1>1, <2>1, <2>2 DEF Origin, Written
<1>3. buffer.words \in Seq(Size)
  BY <1>2 DEF Buffer
<1>4. CASE 2 + (i + 1) <= Len(buffer.words)
  <2>1. 2 + (i + 1) \in 1 .. Len(buffer.words)
    BY <1>1, <1>4
  <2>2. buffer.words[2 + (i + 1)] \in Size
    BY <1>3, <2>1
  <2>3. d = buffer.words[2 + (i + 1)]
    BY <1>4 DEF DimsFound, Dim, Header
  <2> QED BY <2>2, <2>3 DEF Size
<1>5. CASE ~(2 + (i + 1) <= Len(buffer.words))
  BY <1>5 DEF DimsFound, Header, Size
<1> QED BY <1>4, <1>5

LEMMA CheckedInit == Init => IndChecked
<1> SUFFICES ASSUME Init PROVE TypeOK /\ RecordsAreChecked
  BY CountsInit DEF IndChecked
<1>1. IndCounts
  BY CountsInit
<1>2. 0 \in -IntLimit .. IntLimit - 1
  BY WidthsAssumption
<1> QED BY <1>1, <1>2 DEF Init, IndCounts, Basics, TypeOK, RecordsAreChecked

LEMMA CheckedStep == IndChecked /\ [Next]_vars => IndChecked'
<1> SUFFICES ASSUME IndChecked, [Next]_vars PROVE TypeOK' /\ RecordsAreChecked'
  BY CountsStep DEF IndChecked
<1>1. IndCounts /\ IndCounts' /\ TypeOK /\ RecordsAreChecked
  BY CountsStep DEF IndChecked
<1>2. Basics /\ Basics' /\ Origin
  BY <1>1 DEF IndCounts
<1> DEFINE Word == -IntLimit .. IntLimit - 1
<1>3. 0 \in Word /\ 1 \in Word /\ Word \subseteq Int
  BY WidthsAssumption
<1> HIDE DEF Word
<1>4. SUFFICES (acc \in IF pc = "done" THEN Size ELSE Word)' /\ RecordsAreChecked'
  BY <1>2 DEF TypeOK, Basics, Word
<1>5. acc \in IF pc = "done" THEN Size ELSE Word
  BY <1>1 DEF TypeOK, Word
<1>6. CASE FromBuffer
  <2>1. CASE buffer.length # ExpectedSize(buffer)
    <3>1. pc' = "failed" /\ acc' = acc /\ buffer' = buffer /\ dims' = dims /\ pc = "stored"
      BY <1>6, <2>1 DEF FromBuffer
    <3>2. ~Own
      <4>1. dims \in Shapes
        BY <1>2, <3>1 DEF Basics
      <4> QED BY <2>1, <4>1, OwnRecord DEF Own
    <3> QED BY <1>5, <3>1, <3>2 DEF RecordsAreChecked, Own
  <2>2. CASE buffer.length = ExpectedSize(buffer)
    <3>1. pc' = "read" /\ acc' = 1 /\ buffer' = buffer /\ dims' = dims /\ pc = "stored"
      BY <1>6, <2>2 DEF FromBuffer
    <3>2. dims \in Shapes /\ (Own \/ buffer \in RawBuffers)
      BY <1>2, <3>1 DEF Basics, Origin, Written
    <3>3. Len(buffer.words) = NDims(buffer) + Header \/ Wraps(buffer)
      BY <2>2, <3>2, OwnRecord, RawRecord DEF Own
    <3>4. (Len(buffer.words) = NDims(buffer) + Header \/ Wraps(buffer))'
      BY <3>1, <3>3 DEF Wraps
    <3> QED BY <1>3, <3>1, <3>4 DEF RecordsAreChecked
  <2> QED BY <2>1, <2>2
<1>7. CASE Read
  <2>1. /\ pc = "read" /\ pc' = "read" /\ buffer' = buffer /\ i < NDims(buffer)
        /\ \E x \in DimsFound(buffer, i + 1) : acc' = ToInt(ToSize(ToSize(acc) * x))
    BY <1>7 DEF Read
  <2>2. PICK x \in DimsFound(buffer, i + 1) : acc' = ToInt(ToSize(ToSize(acc) * x))
    BY <2>1
  <2>0. x \in Nat
    BY <2>1, WordsAreFound
  <2>3. ToSize(acc) \in Nat
    BY <1>3, <1>5, <2>1, ToSizeFacts DEF Size
  <2>4. ToSize(acc) * x \in Int
    BY <2>0, <2>3
  <2>5. ToSize(ToSize(acc) * x) \in Nat
    BY <2>4, ToSizeFacts DEF Size
  <2>6. acc' \in Word
    BY <2>2, <2>5, ToIntFacts DEF Word
  <2>7. (Len(buffer.words) = NDims(buffer) + Header \/ Wraps(buffer))'
    BY <1>1, <2>1 DEF RecordsAreChecked, Wraps
  <2> QED BY <2>1, <2>6, <2>7 DEF RecordsAreChecked
<1>8. CASE ReadDone
  <2>1. pc = "read" /\ pc' = "done" /\ buffer' = buffer /\ acc' = ToSize(acc)
    BY <1>8 DEF ReadDone
  <2>2. acc' \in Size
    BY <1>3, <1>5, <2>1, ToSizeFacts
  <2>3. (Len(buffer.words) = NDims(buffer) + Header \/ Wraps(buffer))'
    BY <1>1, <2>1 DEF RecordsAreChecked, Wraps
  <2> QED BY <2>1, <2>2, <2>3 DEF RecordsAreChecked
<1>9. CASE UNCHANGED vars
  <2>1. UNCHANGED <<pc, acc, buffer, dims>>
    BY <1>9 DEF vars
  <2> QED BY <1>1, <1>5, <2>1 DEF RecordsAreChecked, Own, NDims, Wraps
<1>10. ASSUME \/ \E ds \in Shapes : BeginPut(ds)
              \/ \E b \in RawBuffers : PutRaw(b)
              \/ Count \/ Put \/ NextHandle
       PROVE  (acc \in IF pc = "done" THEN Size ELSE Word)' /\ RecordsAreChecked'
  <2>1. pc' \in {"idle", "count", "stored"}
    BY <1>10 DEF BeginPut, PutRaw, Count, Put, NextHandle
  <2>2. acc' = 0
    BY <1>2, <2>1 DEF Basics
  <2> QED BY <1>3, <2>1, <2>2 DEF RecordsAreChecked
<1> QED BY <1>6, <1>7, <1>8, <1>9, <1>10 DEF Next

LEMMA CheckedIsKept == Spec => []IndChecked
<1>1. IndChecked /\ [Next]_vars => IndChecked'
  BY CheckedStep
<1> QED BY <1>1, CheckedInit, PTL DEF Spec

(* The variables keep their types, whatever bytes others put: the          *)
(* accumulator of n_elements stays an int, also when it overflows.         *)
THEOREM TypeCorrect == Spec => []TypeOK
<1>1. IndChecked => TypeOK
  BY DEF IndChecked
<1> QED BY <1>1, CheckedIsKept, PTL

(* For bytes of any origin, from_buffer accepts only records that hold the *)
(* dimensions they announce and records whose length wraps, and it always  *)
(* accepts what put_tensor writes, also where the length of that wraps.    *)
THEOREM RecordsChecked == Spec => []RecordsAreChecked
<1>1. IndChecked => RecordsAreChecked
  BY DEF IndChecked
<1> QED BY <1>1, CheckedIsKept, PTL

=============================================================================
