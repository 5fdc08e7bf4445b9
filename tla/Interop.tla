------------------------------- MODULE Interop -------------------------------
(***************************************************************************)
(* What Python and C++ programs read of the items the others have put:     *)
(* numbers, arrays of any memory layout, vectors and pickled objects, over *)
(* one another and under any names.                                        *)
(*                                                                         *)
(* Calls come one after the other; how they interleave is the subject of   *)
(* ItemExchange.  Elements are listed one by one here.  Nothing keeps a    *)
(* program from putting bytes that do not fit their metadata, or from      *)
(* putting something else under one of the two keys: a read that is not    *)
(* refused then returns Garbage.                                           *)
(***************************************************************************)
EXTENDS HandleKeys, PythonNumbers, Integers, Functions

CONSTANTS
  Names,        \* names of handles and of pickled objects
  Numbers,      \* Python numbers: records of a class and a value
  IntLimit,     \* np.int32 goes from -IntLimit to IntLimit - 1
  Arrays,       \* NumPy arrays: dtype, dims, start, strides and cells
  Vectors,      \* what C++ programs put: dtype, dims and data
  Objects,      \* what Python programs pickle
  Lookalikes,   \* the dtype and dims that bytes which are no record may read as
  Garbage,      \* an element or an object made of other bytes
  None          \* an absent key, an item that is not known

ASSUME InteropAssumption ==
  /\ Names \subseteq Seq(NameParts)
  /\ IntLimit \in Nat \ {0}
  /\ \A x \in Numbers : x.value \in Int

VARIABLES
  store,   \* store[key]: elements, a record, a pickled object or None
  given,   \* history: the item last put under a name, None if it is not whole
  last     \* the last call: the name and the request of a read, what it found

vars == <<store, given, last>>

KeySet == {Key(n) : n \in Names} \cup {MetadataKey(n) : n \in Names}

-----------------------------------------------------------------------------
(* Arrays.  An index has one component per dimension.  In the memory of an *)
(* array it lies at the sum of its components times the strides.           *)

(* The products of the first dimensions, and of all.                       *)
Products(dims) ==
  LET p[k \in 0 .. Len(dims)] == IF k = 0 THEN 1 ELSE p[k - 1] * dims[k] IN p

Product(dims) == Products(dims)[Len(dims)]

Indices(dims) ==
  {i \in [DOMAIN dims -> UNION {0 .. dims[k] - 1 : k \in DOMAIN dims}] :
     \A k \in DOMAIN dims : i[k] < dims[k]}

Offset(strides, i) ==
  FoldFunction(LAMBDA a, b : a + b, 0, [k \in DOMAIN i |-> i[k] * strides[k]])

(* Row-major (C) order, the outermost dimension first: how many elements   *)
(* come before an index, taking its first dimensions only, or all.         *)
Before(dims, i) ==
  LET q[k \in 0 .. Len(dims)] == IF k = 0 THEN 0 ELSE q[k - 1] * dims[k] + i[k] IN q

Position(dims, i) == 1 + Before(dims, i)[Len(dims)]

Elements(a) ==
  [i \in Indices(a.dims) |-> a.cells[a.start + Offset(a.strides, i)]]

\* Mutation: the memory of the array is sent as it is.
RavelMemory(a) == [p \in 1 .. Product(a.dims) |-> a.cells[p]]

(* tensor.ravel(): the elements in row-major order, whatever the strides.  *)
Ravel(a) ==
  [p \in 1 .. Product(a.dims) |->
     Elements(a)[CHOOSE i \in Indices(a.dims) : Position(a.dims, i) = p]]

\* Mutation: the elements stay in a row.
ReshapeFlat(data, dims) == [i \in {<<p>> : p \in DOMAIN data} |-> data[i[1]]]

(* data.reshape(dims), and how C++ readers index TensorInfo::data.         *)
Reshape(data, dims) ==
  [i \in Indices(dims) |-> data[Position(dims, i)]]

-----------------------------------------------------------------------------
(* Items as programs know them, and the bytes they become. *)

Item(kind, dtype, dims, elements) ==
  [kind |-> kind, dtype |-> dtype, dims |-> dims, elements |-> elements]

Scalar(dtype, v) == Item("scalar", dtype, <<>>, [i \in {<<>>} |-> v])
Pickle(object)   == Item("pickle", "bytes", <<>>, [i \in {<<>>} |-> object])

Bytes(dtype, cells) == [are |-> "elements", dtype |-> dtype, cells |-> cells]
Record(dtype, dims) == [are |-> "metadata", dtype |-> dtype, dims |-> dims]
Dump(object)        == [are |-> "pickle", object |-> object]

(* An array has a NumPy dtype, and its elements lie in its memory.         *)
ASSUME ArraysAssumption ==
  \A a \in Arrays :
    /\ Coerce(a.dtype) = a.dtype
    /\ a.dims \in Seq(Nat) /\ a.cells \in Seq(Int)
    /\ \A i \in Indices(a.dims) : a.start + Offset(a.strides, i) \in DOMAIN a.cells

ASSUME VectorsAssumption ==
  \A x \in Vectors :
    x.dtype \in Range(NumPyDTypes) /\ x.dims \in Seq(Nat) /\ x.data \in Seq(Int)

\* The dtype of a lookalike may be none that radex knows.
ASSUME LookalikesAssumption == \A look \in Lookalikes : look.dims \in Seq(Nat)

ASSUME NoneAssumption ==
  /\ None \notin Seq(Int)
  /\ None \notin [are : {"elements"}, dtype : Range(NumPyDTypes), cells : Seq(Int)]
  /\ None \notin [are : {"metadata"}, dtype : Range(NumPyDTypes), dims : Seq(Nat)]
  /\ \A object \in Objects : Dump(object) # None

(* The keys an item takes up.                                              *)
KeysOf(n, kind) ==
  IF kind = "pickle" THEN {Key(n)} ELSE {Key(n), MetadataKey(n)}

(* The writes of a put of some kind, which leave item under n and nothing  *)
(* that is known under the names whose keys they hit.                      *)
Write(n, kind, bytes, item) ==
  /\ store' = [key \in KeySet |-> IF key \in KeysOf(n, kind) THEN bytes[key] ELSE store[key]]
  /\ given' = [m \in Names |->
                 IF m = n THEN item
                 ELSE IF given[m] = None THEN None
                 ELSE IF KeysOf(m, given[m].kind) \cap KeysOf(n, kind) # {} THEN None
                 ELSE given[m]]

\* Mutation: the metadata of a handle is written once.
PutItemOnce(n, kind, dtype, dims, cells, item) ==
  Write(n, kind,
        [key \in KeysOf(n, kind) |->
           IF key = Key(n) THEN Bytes(dtype, cells)
           ELSE IF store[key] = None THEN Record(dtype, dims) ELSE store[key]],
        item)

(* IClient::put_scalar, put_tensor: the metadata, then the data.           *)
PutItem(n, kind, dtype, dims, cells, item) ==
  Write(n, kind,
        [key \in KeysOf(n, kind) |->
           IF key = Key(n) THEN Bytes(dtype, cells) ELSE Record(dtype, dims)],
        item)

Did(status) ==
  last' = [name |-> None, req |-> None, status |-> status, got |-> None]

Refuse(error) ==
  /\ Did(error)
  /\ UNCHANGED <<store, given>>

-----------------------------------------------------------------------------
(* Puts. *)

InRange(v) == v \in -IntLimit .. IntLimit - 1

(* np.int32(value)                                                         *)
Wrap(v) == ((v + IntLimit) % (2 * IntLimit)) - IntLimit

(* DragonClient.put_scalar, RedisClient.put_scalar.  What np.int32 makes   *)
(* of an int that it cannot hold depends on the version of NumPy, which is *)
(* not pinned: an error, or the number wrapped.                            *)
PutNumber(n, x) ==
  LET narrow == x.class = "int" /\ ~InRange(x.value)
      v == IF narrow THEN Wrap(x.value) ELSE x.value
  IN  IF ~Accepted(x.class) THEN Refuse("TypeError")
      ELSE \/ narrow /\ Refuse("OverflowError")
           \/ /\ PutItem(n, "scalar", ScalarDType(x.class), <<>>, <<v>>,
                         Scalar(ScalarDType(x.class), v))
              /\ Did("done")

(* put_tensor: the dtype selects the instance of _put_tensor, which takes  *)
(* the address of the first dimension and of the first element.            *)
PutArray(n, a) ==
  IF ~Accepted(a.dtype) THEN Refuse("TypeError")
  ELSE IF Product(a.dims) = 0 \/ a.dims = <<>> THEN Refuse("IndexError")
  ELSE /\ PutItem(n, "tensor", NumPyDTypes[a.dtype], a.dims, Ravel(a),
                  Item("tensor", NumPyDTypes[a.dtype], a.dims, Elements(a)))
       /\ Did("done")

(* IClient::put_tensor(handle, dims, data) compares neither sizes nor the  *)
(* rank: data that does not fit is stored.  Of too much the first elements *)
(* are read; too little makes an item that is not known.  Without          *)
(* dimensions the item is a scalar.                                        *)
PutVector(n, x) ==
  LET item == Item(IF x.dims = <<>> THEN "scalar" ELSE "tensor", x.dtype, x.dims,
                   Reshape(x.data, x.dims))
  IN  /\ PutItem(n, "tensor", x.dtype, x.dims, x.data,
                 IF Len(x.data) >= Product(x.dims) THEN item ELSE None)
      /\ Did("done")

(* put_picklable writes the data key only.                                 *)
PutPicklable(n, object) ==
  /\ Write(n, "pickle", [key \in KeysOf(n, "pickle") |-> Dump(object)], Pickle(object))
  /\ Did("done")

DeleteItem(n) ==
  /\ Write(n, "tensor", [key \in KeysOf(n, "tensor") |-> None], None)
  /\ Did("done")

-----------------------------------------------------------------------------
(* Reads.  The sizes are not compared with anything: a read takes as many  *)
(* elements as the metadata says, of the type it says.                     *)

(* memcpy, TensorInfo, make_ndarray: where the bytes are of something else *)
(* or have come to their end, an element is Garbage.                       *)
Take(bytes, dtype, count) ==
  [p \in 1 .. count |->
     IF bytes.are = "elements" /\ bytes.dtype = dtype /\ p <= Len(bytes.cells)
     THEN bytes.cells[p] ELSE Garbage]

AnyDType == "any"

Failed(error) == [status |-> error, got |-> None]
Found(item)   == [status |-> "ok", got |-> item]

(* Python knows four dtypes, and cannot make an array of no elements of a  *)
(* pointer.                                                                *)
Decode(req, meta, bytes) ==
  IF (req.kind = "scalar") # (meta.dims = <<>>) THEN Failed("RankMismatchError")
  ELSE IF req.dtype \notin {AnyDType, meta.dtype} THEN Failed("DTypeMismatchError")
  ELSE IF meta.dtype \notin Range(NumPyDTypes) THEN Failed("TypeError")
  ELSE IF req.dtype = AnyDType /\ Product(meta.dims) = 0 THEN Failed("ValueError")
  ELSE Found(Item(req.kind, meta.dtype, meta.dims,
                  Reshape(Take(bytes, meta.dtype, Product(meta.dims)), meta.dims)))

(* What a typed read makes of the two keys, data first.  Other bytes under *)
(* the metadata key are refused by MetaData::from_buffer, or pass for a    *)
(* record.                                                                 *)
Typed(n, req) ==
  LET bytes == store[Key(n)]  meta == store[MetadataKey(n)] IN
  IF bytes = None \/ meta = None THEN {Failed("missing")}
  ELSE IF meta.are = "metadata" THEN {Decode(req, meta, bytes)}
  ELSE {Failed("MetadataError")} \cup {Decode(req, look, bytes) : look \in Lookalikes}

(* cloudpickle.loads refuses other bytes, or makes an object of them.      *)
Unpickled(n) ==
  LET bytes == store[Key(n)] IN
  IF bytes = None THEN {Failed("missing")}
  ELSE IF bytes.are = "pickle" THEN {Found(Pickle(bytes.object))}
  ELSE {Failed("UnpicklingError"), Found(Pickle(Garbage))}

Requests ==
  [kind : {"scalar", "tensor"}, dtype : Range(NumPyDTypes) \cup {AnyDType}]
    \cup {[kind |-> "pickle", dtype |-> AnyDType]}

(* get_scalar, get_tensor and get_picklable, and the waits for a key that  *)
(* is there.                                                               *)
Read(n, req) ==
  \E found \in IF req.kind = "pickle" THEN Unpickled(n) ELSE Typed(n, req) :
    /\ last' = [name |-> n, req |-> req, status |-> found.status, got |-> found.got]
    /\ UNCHANGED <<store, given>>

-----------------------------------------------------------------------------
Init ==
  /\ store = [key \in KeySet |-> None]
  /\ given = [n \in Names |-> None]
  /\ last = [name |-> None, req |-> None, status |-> "done", got |-> None]

Next ==
  \E n \in Names :
    \/ \E x \in Numbers : PutNumber(n, x)
    \/ \E a \in Arrays : PutArray(n, a)
    \/ \E x \in Vectors : PutVector(n, x)
    \/ \E object \in Objects : PutPicklable(n, object)
    \/ DeleteItem(n)
    \/ \E req \in Requests : Read(n, req)

Spec == Init /\ [][Next]_vars

-----------------------------------------------------------------------------
(* Correctness. *)

(* Elements are listed in order and dimensions are natural numbers.        *)
TypeOK ==
  /\ \A key \in KeySet :
       \/ store[key] = None
       \/ store[key].are = "pickle"
       \/ store[key].are = "elements" /\ store[key].cells \in Seq(Int)
       \/ store[key].are = "metadata" /\ store[key].dims \in Seq(Nat)
  /\ \A item \in ({given[n] : n \in Names} \cup {last.got}) \ {None} :
       DOMAIN item.elements = Indices(item.dims)
  /\ last.name \in Names \cup {None} /\ last.req \in Requests \cup {None}

Known == last.name # None /\ given[last.name] # None

IsPickle(item) == item.kind = "pickle"

(* A read of the kind of what was last put under the name returns it, if   *)
(* it returns anything: the number, or the element at each index, from and *)
(* to any language and memory layout, whatever kind of item was there      *)
(* before, after puts that were refused, and next to names that collide    *)
(* ("Its shape is preserved", "the shape and dtype it was written with",   *)
(* core.pyx).  Not known, and so not covered: what has been disturbed by a *)
(* colliding name, and a tensor put with too little data.                  *)
WhatWasPutComesBack ==
  Known /\ last.status = "ok" /\ (IsPickle(last.req) <=> IsPickle(given[last.name]))
    => last.got = given[last.name]

(* Expected, but refuted: "Read a scalar value previously written under    *)
(* the given handle" (core.pyx), never bytes of an object that was pickled *)
(* under the same name.  A pickle leaves the metadata of an older item in  *)
(* place, and nothing tells that the data is not the one it is for.        *)
KindsAreKeptApart ==
  Known /\ last.status = "ok" => (IsPickle(last.req) <=> IsPickle(given[last.name]))

Mismatches == {"RankMismatchError", "DTypeMismatchError"}

(* A request for the item that is there is met (Python has no arrays       *)
(* without elements), and a typed request for a typed item of another rank *)
(* or dtype is refused as a mismatch: neither is told that a key is        *)
(* missing or given something else, so that retrying with another type     *)
(* makes sense ("callers can retry with another element type",             *)
(* exceptions.hpp).                                                        *)
RequestsAreJudged ==
  Known =>
    LET item == given[last.name]
        suits == last.req.kind = item.kind /\ last.req.dtype \in {item.dtype, AnyDType}
    IN  /\ suits /\ (last.req.dtype = AnyDType => Product(item.dims) # 0)
             => last.status = "ok"
        /\ ~suits /\ "pickle" \notin {last.req.kind, item.kind}
             => last.status \in Mismatches
=============================================================================
