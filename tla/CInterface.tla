------------------------------ MODULE CInterface ------------------------------
(***************************************************************************)
(* A C program that reads and writes one handle through the C interface,   *)
(* while others put and delete it.                                         *)
(*                                                                         *)
(* A C function makes the backend calls of ItemExchange one by one, and    *)
(* the backend calls of others come between them, in any order: the bytes  *)
(* and the metadata that a read fetches need not belong together.  The     *)
(* subject here is what the program has in its hands afterwards: the       *)
(* return code and its own buffers.                                        *)
(***************************************************************************)
EXTENDS Exceptions, Functions

CONSTANTS
  DTypes,     \* element types of the instance
  Shapes,     \* dimensions of tensors
  Values,     \* payloads
  DataSize,   \* elements in the program's data buffer
  DimsSize,   \* entries in its buffer for the dimensions
  Area,       \* size of the memory the two buffers lie in
  Backends,   \* the stores of the instance: "dragon", "smartredis", the in-memory "map"
  MayFail,    \* the backend may throw
  None,       \* an absent key, no call, an untouched memory cell
  Addresses,  \* where handles can be allocated
  Null,       \* the null pointer
  Malformed,  \* a metadata record that cannot be decoded
  Pickled,    \* bytes that are no elements
  Garbage     \* what an element is that is copied from other bytes

(* The library has element types. *)
ASSUME DTypesAssumption == DTypes # {}

(* Both buffers have room behind them.                                     *)
ASSUME BuffersAssumption ==
  /\ Area \in Nat /\ DataSize \in 1 .. Area - 1 /\ DimsSize \in 1 .. Area - 1

VARIABLES
  store,    \* what is under the two keys of the handle, and in what kind of store
  pc,       \* the backend call that the C function makes next, or "idle"
  call,     \* the C function that runs, with its arguments
  fetched,  \* the bytes that a read holds while it fetches the metadata
  data,     \* the memory around the program's data buffer
  dims,     \* the memory around its buffer for the dimensions
  rank,     \* *out_rank
  last,     \* what the last call has thrown, and its code
  handle,   \* the program's handle: its kind and its pointer
  live,     \* the handles that are allocated
  whole,    \* history: the item is as it was, whole, when its bytes were fetched
  held,     \* history: what the program was last given
  answers   \* history: what reads have been told since the last write

memory  == <<data, dims, rank>>
control == <<pc, call, fetched, whole>>
handles == <<handle, live>>
vars    == <<store, control, memory, last, handles, held, answers>>

Elements(shape) == FoldFunction(LAMBDA a, b : a * b, 1, shape)

ASSUME ShapesAssumption ==
  \A shape \in Shapes :
    shape \in Seq(Nat) /\ shape # <<>> /\ Elements(shape) \in Nat

Dims == Shapes \cup {<<>>}

(* What is under the data key: the elements of a scalar or a tensor, all   *)
(* equal, or something else.  What is under the metadata key.              *)
Bytes    == [dtype : DTypes, size : {Elements(d) : d \in Dims}, value : Values] \cup {Pickled}
Metadata == [dtype : DTypes, dims : Dims] \cup {Malformed}

Payload(t, d, v) == [dtype |-> t, size |-> Elements(d), value |-> v]
Record(t, d)     == [dtype |-> t, dims |-> d]

(* The bytes are the elements that the record describes.                   *)
Fits(bytes, meta) ==
  /\ bytes \notin {None, Pickled} /\ meta \notin {None, Malformed}
  /\ bytes.dtype = meta.dtype /\ bytes.size = Elements(meta.dims)

(* The limits a program gives with its buffers; null buffers need none.    *)
Rooms == [elements : 1 .. DataSize, dims : 1 .. DimsSize]

Reads(op) ==
  [fn : {op}, shape : {"scalar"}, dtype : DTypes, room : {Null}]
    \cup [fn : {op}, shape : {"tensor"}, dtype : DTypes, room : Rooms \cup {Null}]

Calls ==
  [fn : {"put"}, dtype : DTypes, dims : Dims, value : Values]
    \cup Reads("get") \cup Reads("wait") \cup [fn : {"contains"}]

-----------------------------------------------------------------------------
(* The end of a C function, and the exceptions behind it. *)

(* Nothing has been thrown. *)
Quiet == [thrown |-> "none", ret |-> Errno.RADEX_OK]

(* The C function returns; the C++ call has thrown this, if anything.      *)
Finish(thrown, ret) ==
  /\ last' = [thrown |-> thrown, ret |-> ret]
  /\ pc' = "idle" /\ call' = None /\ fetched' = None /\ whole' = FALSE
  /\ UNCHANGED handles

Return(ret) == Finish("none", ret)
Throw(x)    == Finish(x, CCode(x))

(* The function goes on with another backend call.                         *)
Goto(step) == pc' = step /\ UNCHANGED <<call, last, handles>>

(* A write ends what reads have been told.                                 *)
Forget == answers' = IF store' = store THEN answers ELSE {}

\* Mutation: the element type is compared before the rank.
ReadErrorTypeFirst(shape, t, meta) ==
  IF meta = Malformed THEN "MetadataError"
  ELSE IF meta.dtype # t THEN "DTypeMismatchError"
  ELSE IF (shape = "scalar") # (meta.dims = <<>>) THEN "RankMismatchError"
  ELSE "none"

(* from_buffer and assemble_scalar or assemble_tensor: the exception they  *)
(* throw, if any.  None of them looks at the size of the bytes.            *)
ReadError(shape, t, meta) ==
  IF meta = Malformed THEN "MetadataError"
  ELSE IF (shape = "scalar") # (meta.dims = <<>>) THEN "RankMismatchError"
  ELSE IF meta.dtype # t THEN "DTypeMismatchError"
  ELSE "none"

(* The client is that of the store.                                        *)
Backend == store.backend

(* get_bytes: the Dragon client asks contains first.                       *)
GetBytes == IF Backend = "dragon" THEN "exists" ELSE "fetch"

(* The key that a read is at, and what it finds there.                     *)
Found == IF fetched = None THEN store.bytes ELSE store.meta

-----------------------------------------------------------------------------
(* The program's handle. *)

Init ==
  /\ store \in [bytes : {None}, meta : {None}, backend : Backends]
  /\ pc = "idle" /\ call = None /\ fetched = None /\ whole = FALSE
  /\ data = [i \in 1 .. Area |-> None] /\ dims = [i \in 1 .. Area |-> None]
  /\ rank = None
  /\ last = Quiet
  /\ handle = [kind |-> "none", pointer |-> None] /\ live = {}
  /\ held = None /\ answers = {}

\* Mutation: the program's pointer is set only when there is a handle.
CreateHandleLate(kind) ==
  /\ pc = "idle" /\ handle.kind = "none"
  /\ \/ \E a \in Addresses \ live :
          /\ handle' = [kind |-> kind, pointer |-> a]
          /\ live' = live \cup {a}
          /\ last' = Quiet
     \/ /\ MayFail
        /\ handle' = [handle EXCEPT !.kind = kind]
        /\ last' = [thrown |-> "bad_alloc", ret |-> CCode("bad_alloc")]
        /\ UNCHANGED live
  /\ UNCHANGED <<store, control, memory, held, answers>>

(* radex_incoming_handle_create, radex_outgoing_handle_create, which may   *)
(* run out of memory.                                                      *)
CreateHandle(kind) ==
  /\ pc = "idle" /\ handle.kind = "none"
  /\ \/ \E a \in Addresses \ live :
          /\ handle' = [kind |-> kind, pointer |-> a]
          /\ live' = live \cup {a}
          /\ last' = Quiet
     \/ /\ MayFail
        /\ handle' = [kind |-> kind, pointer |-> Null]
        /\ last' = [thrown |-> "bad_alloc", ret |-> CCode("bad_alloc")]
        /\ UNCHANGED live
  /\ UNCHANGED <<store, control, memory, held, answers>>

(* The program destroys what it has created, null or not, and keeps the    *)
(* pointer.                                                                *)
DestroyHandle ==
  /\ pc = "idle" /\ handle.kind # "none"
  /\ handle' = [handle EXCEPT !.kind = "none"]
  /\ live' = live \ {handle.pointer}
  /\ last' = Quiet
  /\ UNCHANGED <<store, control, memory, held, answers>>

(* The program has a handle for the call.                                  *)
Has(kind) == handle.kind = kind /\ handle.pointer # Null

-----------------------------------------------------------------------------
(* Puts. *)

Begin(kind, k, step) ==
  /\ pc = "idle" /\ Has(kind)
  /\ pc' = step /\ call' = k
  /\ last' = Quiet
  /\ UNCHANGED <<store, fetched, whole, memory, handles, held, answers>>

PutOf(t, d, v) == [fn |-> "put", dtype |-> t, dims |-> d, value |-> v]

(* radex_client_put_T *)
PutScalar(t, v) == Begin("outgoing", PutOf(t, <<>>, v), "put_meta")

\* Mutation: one dimension too many is read from the program's array.
PutTensorPastEnd(t, shape, v) ==
  Begin("outgoing", PutOf(t, Append(shape, 0), v), "put_meta")

(* radex_client_put_tensor_T: a rank of 0 is refused before the call.      *)
PutTensor(t, shape, v) ==
  IF Len(shape) # 0 THEN Begin("outgoing", PutOf(t, shape, v), "put_meta")
  ELSE /\ pc = "idle" /\ Has("outgoing")
       /\ Return(Errno.RANK_MISMATCH)
       /\ UNCHANGED <<store, memory, held, answers>>

(* The backends overwrite; the map client's insert keeps what it has.      *)
Stored(old, new) == IF Backend = "map" /\ old # None THEN old ELSE new

(* The store after the backend call of a put.                              *)
Effect ==
  CASE pc = "put_meta" -> [store EXCEPT !.meta = Stored(@, Record(call.dtype, call.dims))]
    [] pc = "put_data" ->
         [store EXCEPT !.bytes = Stored(@, Payload(call.dtype, call.dims, call.value))]
    [] OTHER -> store

(* put_scalar and put_tensor write the metadata, then the data.            *)
PutMetadata ==
  /\ pc = "put_meta" /\ store' = Effect /\ Forget
  /\ Goto("put_data")
  /\ UNCHANGED <<fetched, whole, memory, held>>

PutData ==
  /\ pc = "put_data" /\ store' = Effect /\ Forget
  /\ Return(Errno.RADEX_OK)
  /\ UNCHANGED <<memory, held>>

-----------------------------------------------------------------------------
(* Reads. *)

(* radex_client_get_T and radex_client_get_tensor_T, and the waits.  A     *)
(* wait through Dragon blocks in the store, the other clients poll.        *)
Read(k) ==
  Begin("incoming", k,
        IF k.fn = "get" THEN GetBytes ELSE IF Backend = "dragon" THEN "fetch" ELSE "poll")

(* Nothing of the program's or of the store's changes, but for the call.   *)
Elsewhere == <<store, memory, held, answers>>

Poll ==
  /\ pc = "poll"
  /\ IF store.bytes # None THEN Goto("fetch") /\ UNCHANGED <<fetched, whole>>
                           ELSE Throw("TimeoutError")
  /\ UNCHANGED Elsewhere

Exists ==
  /\ pc = "exists"
  /\ IF Found # None THEN Goto("fetch") /\ UNCHANGED <<fetched, whole>>
                     ELSE Throw("KeyNotFoundError")
  /\ UNCHANGED Elsewhere

(* The backend is asked for an absent key: SmartRedis throws an exception  *)
(* of its own, and so does Dragon, when its timeout has passed.            *)
FetchMissing ==
  /\ pc = "fetch" /\ Found = None
  /\ Throw(IF Backend = "map" THEN "KeyNotFoundError" ELSE "StoreException")
  /\ UNCHANGED Elsewhere

(* get_item_info holds the bytes and asks for the metadata, which is       *)
(* fetched by get_bytes in a wait too.                                     *)
FetchBytes ==
  /\ pc = "fetch" /\ fetched = None /\ store.bytes # None
  /\ fetched' = store.bytes
  /\ whole' = Fits(store.bytes, store.meta)
  /\ Goto(GetBytes)
  /\ UNCHANGED Elsewhere

(* Element i of the bytes, taken for elements of type t.  Bytes of another *)
(* type or too few bytes give something else.                              *)
Element(bytes, t, i) ==
  IF bytes # Pickled /\ bytes.dtype = t /\ i <= bytes.size THEN bytes.value ELSE Garbage

Contents(n) == [i \in 1 .. n |-> Element(fetched, call.dtype, i)]

Filled(cells, n, new) == [i \in 1 .. Area |-> IF i <= n THEN new[i] ELSE cells[i]]

Given == [bytes |-> fetched, meta |-> store.meta, whole |-> whole]

\* Mutation: the limits of the two buffers are mixed up.
CopyOutSwapped ==
  LET d == store.meta.dims
      n == Elements(d) IN
  IF n > call.room.dims
  THEN Return(Errno.BUFFER_TOO_SMALL) /\ UNCHANGED <<memory, held>>
  ELSE IF Len(d) > call.room.elements
  THEN Return(Errno.RANK_MISMATCH) /\ UNCHANGED <<memory, held>>
  ELSE /\ data' = Filled(data, n, Contents(n))
       /\ dims' = Filled(dims, Len(d), d)
       /\ rank' = Len(d)
       /\ held' = Given
       /\ Return(Errno.RADEX_OK)

\* Mutation: the data is copied before the dimensions are compared.
CopyOutEarly ==
  LET d == store.meta.dims
      n == Elements(d) IN
  IF n > call.room.elements
  THEN Return(Errno.BUFFER_TOO_SMALL) /\ UNCHANGED <<memory, held>>
  ELSE /\ data' = Filled(data, n, Contents(n))
       /\ IF Len(d) > call.room.dims
          THEN /\ Return(Errno.RANK_MISMATCH)
               /\ UNCHANGED <<dims, rank, held>>
          ELSE /\ dims' = Filled(dims, Len(d), d)
               /\ rank' = Len(d)
               /\ held' = Given
               /\ Return(Errno.RADEX_OK)

(* The tensor has the dimensions of the metadata and as many elements of   *)
(* the bytes.  It is copied if both buffers are large enough.              *)
CopyOut ==
  LET d == store.meta.dims
      n == Elements(d) IN
  IF n > call.room.elements
  THEN Return(Errno.BUFFER_TOO_SMALL) /\ UNCHANGED <<memory, held>>
  ELSE IF Len(d) > call.room.dims
  THEN Return(Errno.RANK_MISMATCH) /\ UNCHANGED <<memory, held>>
  ELSE /\ data' = Filled(data, n, Contents(n))
       /\ dims' = Filled(dims, Len(d), d)
       /\ rank' = Len(d)
       /\ held' = Given
       /\ Return(Errno.RADEX_OK)

(* With null buffers and large limits, only the rank is written.           *)
Query ==
  /\ rank' = Len(store.meta.dims)
  /\ held' = None
  /\ Return(Errno.RADEX_OK)
  /\ UNCHANGED <<data, dims>>

(* A read that no limit of the program cuts short tells it something.      *)
Answer(x) ==
  answers' =
    IF call.room # Null THEN answers
    ELSE answers \cup {[shape |-> call.shape, dtype |-> call.dtype,
                        ret |-> IF x = "none" THEN Errno.RADEX_OK ELSE CCode(x)]}

FetchMetadata ==
  /\ pc = "fetch" /\ fetched # None /\ store.meta # None
  /\ LET x == ReadError(call.shape, call.dtype, store.meta) IN
       /\ IF x # "none" THEN Throw(x) /\ UNCHANGED <<memory, held>>
          ELSE IF call.shape = "scalar" THEN Return(Errno.RADEX_OK) /\ UNCHANGED <<memory, held>>
          ELSE IF call.room = Null THEN Query
          ELSE CopyOut
       /\ Answer(x)
  /\ UNCHANGED store

(* radex_client_contains                                                   *)
Contains ==
  /\ pc = "contains"
  /\ Return(IF store.bytes = None THEN 0 ELSE 1)
  /\ UNCHANGED Elsewhere

-----------------------------------------------------------------------------
(* The backend throws from any call, which may have reached it: a put that *)
(* fails at its second call leaves the metadata that it has written.       *)
Fail ==
  /\ MayFail /\ pc # "idle"
  /\ store' \in {store, Effect} /\ Forget
  /\ Throw("StoreException")
  /\ UNCHANGED <<memory, held>>

Stores == [bytes : Bytes \cup {None}, meta : Metadata \cup {None}, backend : Backends]

(* The store with one key written or deleted.                              *)
Written ==
  {[store EXCEPT !.bytes = b] : b \in Bytes \cup {None}}
    \cup {[store EXCEPT !.meta = m] : m \in Metadata \cup {None}}

(* A backend call of another client's put or delete.  Others are many, and *)
(* their calls may fail.                                                   *)
Others(new) ==
  /\ new # store
  /\ store' = new /\ Forget
  /\ whole' = FALSE
  /\ UNCHANGED <<pc, call, fetched, memory, last, handles, held>>

Call ==
  \/ \E t \in DTypes, v \in Values :
       PutScalar(t, v) \/ \E shape \in Dims : PutTensor(t, shape, v)
  \/ \E op \in {"get", "wait"} : \E k \in Reads(op) : Read(k)
  \/ Begin("incoming", [fn |-> "contains"], "contains")

Step ==
  \/ PutMetadata \/ PutData
  \/ Poll \/ Exists \/ FetchMissing \/ FetchBytes \/ FetchMetadata
  \/ Contains \/ Fail

Next ==
  \/ Call \/ Step
  \/ \E new \in Written : Others(new)
  \/ \E kind \in {"incoming", "outgoing"} : CreateHandle(kind)
  \/ DestroyHandle

Spec == Init /\ [][Next]_vars

-----------------------------------------------------------------------------
(* Correctness. *)

TypeOK ==
  /\ store \in Stores
  /\ pc \in {"idle", "put_meta", "put_data", "poll", "exists", "fetch", "contains"}
  /\ call \in Calls \cup {None} /\ fetched \in Bytes \cup {None} /\ whole \in BOOLEAN
  /\ data \in [1 .. Area -> Values \cup {Garbage, None}]
  /\ \A i \in 1 .. Area : dims[i] \in Nat \cup {None}
  /\ rank \in Nat \cup {None}
  /\ last.thrown \in Classes \cup {"none"} /\ last.ret \in Int
  /\ handle.kind \in {"none", "incoming", "outgoing"}
  /\ handle.pointer \in Addresses \cup {Null, None} /\ live \subseteq Addresses
  /\ held \in [bytes : Bytes, meta : Metadata, whole : BOOLEAN] \cup {None}
  /\ answers \subseteq [shape : {"scalar", "tensor"}, dtype : DTypes,
                        ret : {Errno[e] : e \in DOMAIN Errno}]

(* Nothing is written beyond the buffers, whatever the size of the tensor  *)
(* that happens to be there ("Maximum capacity of out_data buffer").       *)
NoOverrun ==
  /\ \A i \in DataSize + 1 .. Area : data[i] = None
  /\ \A i \in DimsSize + 1 .. Area : dims[i] = None

(* What is in the program's hands comes from the last read that succeeded: *)
(* the rank and the dimensions from the metadata it fetched, the elements  *)
(* from its bytes.  A read that fails, for the store or for lack of room,  *)
(* leaves all three alone.  The two may not belong together, as others may *)
(* write between the two fetches; if the item was whole at the first and   *)
(* nothing was written before the second, they do.                         *)
BuffersAreOfOneRead ==
  held # None =>
    /\ rank = Len(held.meta.dims)
    /\ \A i \in 1 .. rank : dims[i] = held.meta.dims[i]
    /\ \A i \in 1 .. Elements(held.meta.dims) :
         data[i] = Element(held.bytes, held.meta.dtype, i)
    /\ held.whole => Fits(held.bytes, held.meta)

(* errno.h: the code for each class.                                       *)
Documented ==
  [KeyNotFoundError |-> Errno.KEY_NOT_FOUND, TimeoutError |-> Errno.TIMEOUT,
   RankMismatchError |-> Errno.RANK_MISMATCH,
   DTypeMismatchError |-> Errno.DTYPE_MISMATCH, MetadataError |-> Errno.METADATA]

(* A create leaves a handle that is allocated or a null pointer, which the *)
(* program can destroy whatever the code was: nothing is freed twice, and  *)
(* nothing stays when the program has destroyed what it has created.       *)
HandlesAreSafe ==
  IF handle.kind = "none" THEN live = {}
  ELSE live = {handle.pointer} \/ (handle.pointer = Null /\ live = {})

(* A code tells what happened: each radex error comes back as its own.     *)
CodesNameTheCause ==
  last.thrown \in DOMAIN Documented => last.ret = Documented[last.thrown]

(* "Callers can retry with another element type without also retrying a    *)
(* request that asked for the wrong shape entirely" (exceptions.hpp): as   *)
(* long as nothing is written, the element type is never wrong for every   *)
(* type, and once the shape is wrong it is wrong for every type.  A read   *)
(* counts if it fetched the metadata since, even if the bytes are older.   *)
RetriesConverge ==
  \A shape \in {"scalar", "tensor"} :
    LET told == {a \in answers : a.shape = shape} IN
    /\ {a.dtype : a \in {b \in told : b.ret = Errno.DTYPE_MISMATCH}} # DTypes
    /\ \A a, b \in told :
         a.ret = Errno.RANK_MISMATCH => b.ret = Errno.RANK_MISMATCH

(* "RADEX_ERR_KEY_NOT_FOUND: Key does not exist in store".                 *)
AbsentIsKeyNotFound ==
  [][pc' = "idle" /\ pc \in {"exists", "fetch"} /\ call.fn = "get" /\ Found = None
       => last'.ret = Errno.KEY_NOT_FOUND]_vars

(* "RADEX_ERR_TIMEOUT: Operation timed out".                               *)
TimeoutIsReported ==
  [][pc' = "idle" /\ pc \in {"poll", "fetch"} /\ call.fn = "wait" /\ store.bytes = None
       => last'.ret = Errno.TIMEOUT]_vars

(* "1 if key exists, 0 if not, error code (<0) on error" (client_c.h).     *)
ContainsErrorsAreNegative ==
  [][pc = "contains" /\ pc' = "idle" /\ last'.thrown # "none" => last'.ret < 0]_vars
=============================================================================
