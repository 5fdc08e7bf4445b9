--------------------------- MODULE CInterfaceProofs ---------------------------
(***************************************************************************)
(* What a C program has in its hands, for tensors, buffers and backends of *)
(* any size: its buffers, its handle and the codes it has been given.  How *)
(* a product of dimensions is computed does not matter here: Elements is   *)
(* any function to natural numbers.                                        *)
(***************************************************************************)
EXTENDS CInterface, TLAPS

Puts      == [fn : {"put"}, dtype : DTypes, dims : Dims, value : Values]
ReadCalls == Reads("get") \cup Reads("wait")
Holdings  == [bytes : Bytes, meta : Metadata, whole : BOOLEAN]
PutSteps  == {"put_meta", "put_data"}
ReadSteps == {"poll", "exists", "fetch"}

(* The call that runs is of the kind its step says, and what a read holds  *)
(* is whole only as long as the metadata is still the one it belongs to.   *)
ControlOK ==
  /\ store \in Stores
  /\ pc \in PutSteps \cup ReadSteps \cup {"idle", "contains"}
  /\ call \in Calls \cup {None}
  /\ fetched \in Bytes \cup {None}
  /\ whole \in BOOLEAN
  /\ pc \in PutSteps => call \in Puts
  /\ pc \in ReadSteps => call \in ReadCalls
  /\ whole => pc \in {"exists", "fetch"} /\ Fits(fetched, store.meta)
  /\ held \in Holdings \cup {None}

(* A call that ends leaves nothing behind but what it has written.         *)
LEMMA EndKeeps ==
  ASSUME NEW x, NEW r, Finish(x, r), store' \in Stores, held' \in Holdings \cup {None}
  PROVE  ControlOK'
BY DEF Finish, ControlOK, PutSteps, ReadSteps

(* The calls of puts write bytes and records.                              *)
LEMMA EffectTyped ==
  ASSUME ControlOK
  PROVE  Effect \in Stores
<1>1. CASE pc = "put_meta"
  <2>1. call \in Puts
    BY <1>1 DEF ControlOK, PutSteps
  <2>2. Record(call.dtype, call.dims) \in Metadata
    BY <2>1 DEF Puts, Record, Metadata
  <2>3. Stored(store.meta, Record(call.dtype, call.dims)) \in Metadata \cup {None}
    BY <2>2 DEF Stored, ControlOK, Stores
  <2> QED BY <1>1, <2>3 DEF Effect, ControlOK, Stores
<1>2. CASE pc = "put_data"
  <2>1. call \in Puts
    BY <1>2 DEF ControlOK, PutSteps
  <2>2. Payload(call.dtype, call.dims, call.value) \in Bytes
    BY <2>1 DEF Puts, Payload, Bytes
  <2>3. Stored(store.bytes, Payload(call.dtype, call.dims, call.value)) \in Bytes \cup {None}
    BY <2>2 DEF Stored, ControlOK, Stores
  <2> QED BY <1>2, <2>3 DEF Effect, ControlOK, Stores
<1> QED BY <1>1, <1>2 DEF Effect, ControlOK

(* A call begins with a step of its kind.                                  *)
LEMMA BeginKeeps ==
  ASSUME ControlOK, NEW kind, NEW k, NEW step, Begin(kind, k, step),
         \/ k \in Puts /\ step \in PutSteps
         \/ k \in ReadCalls /\ step \in ReadSteps
         \/ k = [fn |-> "contains"] /\ step = "contains"
  PROVE  ControlOK'
<1>1. k \in Calls
  BY DEF Puts, ReadCalls, Calls
<1>2. whole = FALSE /\ UNCHANGED <<store, fetched, whole, held>> /\ pc' = step /\ call' = k
  BY DEF Begin, ControlOK
<1> QED BY <1>1, <1>2 DEF ControlOK, PutSteps, ReadSteps

LEMMA CallKeeps == ControlOK /\ Call => ControlOK'
<1> SUFFICES ASSUME ControlOK, Call PROVE ControlOK'
  OBVIOUS
<1>1. ASSUME NEW t \in DTypes, NEW v \in Values, NEW d \in Dims,
             Begin("outgoing", PutOf(t, d, v), "put_meta")
      PROVE  ControlOK'
  <2>1. PutOf(t, d, v) \in Puts /\ "put_meta" \in PutSteps
    BY DEF PutOf, Puts, PutSteps
  <2> QED BY <1>1, <2>1, BeginKeeps
<1>2. ASSUME NEW t \in DTypes, NEW v \in Values, PutScalar(t, v) PROVE ControlOK'
  BY <1>1, <1>2 DEF PutScalar, Dims
<1>3. ASSUME NEW t \in DTypes, NEW v \in Values, NEW shape \in Dims, PutTensor(t, shape, v)
      PROVE  ControlOK'
  <2>1. CASE Len(shape) # 0
    BY <1>1, <1>3, <2>1 DEF PutTensor
  <2>2. CASE Len(shape) = 0
    BY <1>3, <2>2, EndKeeps DEF PutTensor, Return, ControlOK
  <2> QED BY <2>1, <2>2
<1>4. ASSUME NEW op \in {"get", "wait"}, NEW k \in Reads(op), Read(k) PROVE ControlOK'
  <2>1. k \in ReadCalls
    BY DEF ReadCalls
  <2>2. (IF k.fn = "get" THEN GetBytes ELSE IF Backend = "dragon" THEN "fetch" ELSE "poll")
          \in ReadSteps
    BY DEF GetBytes, ReadSteps
  <2> QED BY <1>4, <2>1, <2>2, BeginKeeps DEF Read
<1>5. ASSUME Begin("incoming", [fn |-> "contains"], "contains") PROVE ControlOK'
  BY <1>5, BeginKeeps
<1> QED BY <1>2, <1>3, <1>4, <1>5 DEF Call

(* What a successful read returns comes from what it has fetched.          *)
LEMMA GivenTyped ==
  ASSUME ControlOK, pc = "fetch", fetched # None, store.meta # None
  PROVE  Given \in Holdings /\ call \in ReadCalls /\ store.meta \in Metadata
BY DEF ControlOK, Given, Holdings, ReadSteps, Stores

(* A read ends when it has the metadata.                                   *)
LEMMA FetchMetadataEnds ==
  ASSUME FetchMetadata
  PROVE  /\ \E x, r : Finish(x, r)
         /\ store' = store
         /\ held' \in {held, None, Given}
BY DEF FetchMetadata, Throw, Return, Query, CopyOut

LEMMA StepKeeps == ControlOK /\ Step => ControlOK'
<1> SUFFICES ASSUME ControlOK, Step PROVE ControlOK'
  OBVIOUS
<1>0. store \in Stores /\ held \in Holdings \cup {None} /\ Effect \in Stores
  BY EffectTyped DEF ControlOK
<1>1. CASE PutMetadata
  BY <1>0, <1>1 DEF PutMetadata, Goto, ControlOK, PutSteps, ReadSteps
<1>2. CASE PutData
  BY <1>0, <1>2, EndKeeps DEF PutData, Return
<1>3. ASSUME pc \in {"poll", "exists"}, Goto("fetch"), UNCHANGED <<fetched, whole, store, held>>
      PROVE  ControlOK'
  BY <1>3 DEF Goto, ControlOK, PutSteps, ReadSteps
<1>4. CASE Poll
  BY <1>0, <1>3, <1>4, EndKeeps DEF Poll, Throw, Elsewhere
<1>5. CASE Exists
  BY <1>0, <1>3, <1>5, EndKeeps DEF Exists, Throw, Elsewhere
<1>6. CASE FetchMissing
  BY <1>0, <1>6, EndKeeps DEF FetchMissing, Throw, Elsewhere
<1>7. CASE FetchBytes
  <2>1. store.bytes \in Bytes /\ call \in ReadCalls
    BY <1>7 DEF FetchBytes, ControlOK, Stores, ReadSteps
  <2>2. /\ fetched' = store.bytes /\ whole' = Fits(store.bytes, store.meta)
        /\ pc' \in {"exists", "fetch"} /\ UNCHANGED <<call, store, held>>
    BY <1>7 DEF FetchBytes, Goto, GetBytes, Elsewhere
  <2>3. whole' \in BOOLEAN
    BY <2>2 DEF Fits
  <2>4. pc' \notin PutSteps /\ pc' \in ReadSteps
    BY <2>2 DEF PutSteps, ReadSteps
  <2>5. whole' => Fits(fetched', store'.meta)
    BY <2>2
  <2> QED BY <1>0, <2>1, <2>2, <2>3, <2>4, <2>5 DEF ControlOK
<1>8. CASE FetchMetadata
  <2>1. Given \in Holdings
    BY <1>8, GivenTyped DEF FetchMetadata
  <2> QED BY <1>0, <1>8, <2>1, FetchMetadataEnds, EndKeeps
<1>9. CASE Contains
  BY <1>0, <1>9, EndKeeps DEF Contains, Return, Elsewhere
<1>10. CASE Fail
  BY <1>0, <1>10, EndKeeps DEF Fail, Throw
<1> QED BY <1>1, <1>2, <1>4, <1>5, <1>6, <1>7, <1>8, <1>9, <1>10 DEF Step

LEMMA ControlStep == ControlOK /\ [Next]_vars => ControlOK'
<1> SUFFICES ASSUME ControlOK, [Next]_vars PROVE ControlOK'
  OBVIOUS
<1>1. ASSUME NEW new \in Written, Others(new) PROVE ControlOK'
  <2>1. new \in Stores
    BY <1>1 DEF Written, Stores, ControlOK
  <2> QED BY <1>1, <2>1 DEF Others, ControlOK
<1>2. ASSUME UNCHANGED <<store, control, held>> PROVE ControlOK'
  BY <1>2 DEF control, ControlOK
<1>3. ASSUME NEW kind, CreateHandle(kind) PROVE ControlOK'
  BY <1>2, <1>3 DEF CreateHandle
<1>4. CASE DestroyHandle
  BY <1>2, <1>4 DEF DestroyHandle
<1>5. CASE UNCHANGED vars
  BY <1>2, <1>5 DEF vars
<1> QED BY <1>1, <1>3, <1>4, <1>5, CallKeeps, StepKeeps DEF Next

LEMMA ControlInit == Init => ControlOK
<1> SUFFICES ASSUME Init PROVE ControlOK
  OBVIOUS
<1>1. store \in Stores /\ held = None /\ call = None /\ fetched = None /\ pc = "idle"
  BY DEF Init, Stores
<1>2. whole = FALSE
  BY DEF Init
<1> QED BY <1>1, <1>2 DEF ControlOK, PutSteps, ReadSteps

-----------------------------------------------------------------------------
(* Buffers. *)

(* NoOverrun is inductive only with the limits of the call, and what the   *)
(* buffers hold only with where it came from.                              *)
IndBuffers == ControlOK /\ NoOverrun /\ BuffersAreOfOneRead

(* A tensor that a read does not refuse has dimensions.                    *)
LEMMA TensorThere ==
  ASSUME ControlOK, pc = "fetch", fetched # None, store.meta # None,
         NEW t, ReadError("tensor", t, store.meta) = "none"
  PROVE  /\ store.meta.dims \in Shapes /\ store.meta.dtype = t /\ store.meta.dtype \in DTypes
         /\ Elements(store.meta.dims) \in Nat /\ store.meta.dims \in Seq(Nat)
<1>1. store.meta \in Metadata /\ store.meta # Malformed
  BY GivenTyped DEF ReadError
<1>2. store.meta \in [dtype : DTypes, dims : Dims]
  BY <1>1 DEF Metadata
<1>3. store.meta.dims # <<>> /\ store.meta.dtype = t
  BY <1>1 DEF ReadError
<1>4. store.meta.dims \in Shapes
  BY <1>2, <1>3 DEF Dims
<1> QED BY <1>2, <1>3, <1>4, ShapesAssumption

(* Cells beyond the first n stay as they are.                              *)
LEMMA FilledCells ==
  ASSUME NEW cells, NEW n \in Nat, NEW new
  PROVE  \A i \in 1 .. Area : Filled(cells, n, new)[i] = IF i <= n THEN new[i] ELSE cells[i]
BY DEF Filled

(* The copy of a tensor stays within the limits and is complete, or is not *)
(* made.                                                                   *)
LEMMA CopyPreserves ==
  ASSUME IndBuffers, pc = "fetch", fetched # None, store.meta # None,
         ReadError("tensor", call.dtype, store.meta) = "none",
         call.room \in Rooms, CopyOut
  PROVE  NoOverrun' /\ BuffersAreOfOneRead'
<1> DEFINE d == store.meta.dims
           n == Elements(d)
           r == Len(d)
<1>1. n \in Nat /\ d \in Seq(Nat) /\ r \in Nat /\ store.meta.dtype = call.dtype
  BY TensorThere DEF IndBuffers
<1>2. DataSize \in 1 .. Area - 1 /\ DimsSize \in 1 .. Area - 1 /\ Area \in Int
  BY BuffersAssumption
<1>3. CASE UNCHANGED <<memory, held>>
  BY <1>3 DEF IndBuffers, NoOverrun, BuffersAreOfOneRead, memory
<1>4. CASE ~UNCHANGED <<memory, held>>
  <2>1. /\ ~(n > call.room.elements) /\ ~(r > call.room.dims)
        /\ data' = Filled(data, n, Contents(n))
        /\ dims' = Filled(dims, r, d)
        /\ rank' = r /\ held' = Given
    BY <1>4 DEF CopyOut
  <2>2. n <= DataSize /\ r <= DimsSize
    BY <1>1, <1>2, <2>1 DEF Rooms
  <2>3. \A i \in 1 .. Area : data'[i] = IF i <= n THEN Contents(n)[i] ELSE data[i]
    BY <1>1, <2>1, FilledCells
  <2>4. \A i \in 1 .. Area : dims'[i] = IF i <= r THEN d[i] ELSE dims[i]
    BY <1>1, <2>1, FilledCells
  <2>5. NoOverrun'
    <3> HIDE DEF d, n, r
    <3>1. \A i \in DataSize + 1 .. Area : i \in 1 .. Area /\ ~(i <= n) /\ data[i] = None
      BY <1>1, <1>2, <2>2 DEF IndBuffers, NoOverrun
    <3>2. \A i \in DimsSize + 1 .. Area : i \in 1 .. Area /\ ~(i <= r) /\ dims[i] = None
      BY <1>1, <1>2, <2>2 DEF IndBuffers, NoOverrun
    <3>3. \A i \in DataSize + 1 .. Area : data'[i] = None
      BY <2>3, <3>1
    <3>4. \A i \in DimsSize + 1 .. Area : dims'[i] = None
      BY <2>4, <3>2
    <3> QED BY <3>3, <3>4 DEF NoOverrun
  <2>6. BuffersAreOfOneRead'
    <3>1. \A i \in 1 .. r : dims'[i] = d[i]
      BY <1>1, <1>2, <2>2, <2>4
    <3>2. \A i \in 1 .. n : data'[i] = Element(fetched, call.dtype, i)
      BY <1>1, <1>2, <2>2, <2>3 DEF Contents
    <3>3. whole => Fits(fetched, store.meta)
      BY DEF IndBuffers, ControlOK
    <3>4. held'.meta = store.meta /\ held'.bytes = fetched /\ held'.whole = whole
      BY <2>1 DEF Given
    <3> QED BY <1>1, <2>1, <3>1, <3>2, <3>3, <3>4 DEF BuffersAreOfOneRead, Element, Fits
  <2> QED BY <2>5, <2>6
<1> QED BY <1>3, <1>4

LEMMA FetchPreserves ==
  ASSUME IndBuffers, FetchMetadata
  PROVE  NoOverrun' /\ BuffersAreOfOneRead'
<1> DEFINE x == ReadError(call.shape, call.dtype, store.meta)
<1>1. pc = "fetch" /\ fetched # None /\ store.meta # None /\ call \in ReadCalls
  BY GivenTyped DEF FetchMetadata, IndBuffers
<1>2. CASE UNCHANGED <<memory, held>>
  BY <1>2 DEF IndBuffers, NoOverrun, BuffersAreOfOneRead, memory
<1>3. CASE Query
  BY <1>3 DEF Query, IndBuffers, NoOverrun, BuffersAreOfOneRead
<1>4. CASE x = "none" /\ call.shape # "scalar" /\ call.room # Null /\ CopyOut
  <2>1. call.shape = "tensor" /\ call.room \in Rooms
    BY <1>1, <1>4 DEF ReadCalls, Reads
  <2> QED BY <1>1, <1>4, <2>1, CopyPreserves
<1> QED BY <1>2, <1>3, <1>4 DEF FetchMetadata

(* The buffers change only when a read returns.                            *)
LEMMA BuffersStep == IndBuffers /\ [Next]_vars => IndBuffers'
<1> SUFFICES ASSUME IndBuffers, [Next]_vars PROVE IndBuffers'
  OBVIOUS
<1>1. ControlOK'
  BY ControlStep DEF IndBuffers
<1>2. CASE FetchMetadata
  BY <1>1, <1>2, FetchPreserves DEF IndBuffers
<1>3. CASE UNCHANGED <<memory, held>>
  BY <1>1, <1>3 DEF IndBuffers, NoOverrun, BuffersAreOfOneRead, memory
<1>4. CASE Call
  BY <1>3, <1>4 DEF Call, PutScalar, PutTensor, Read, Begin
<1>5. CASE Step
  BY <1>2, <1>3, <1>5
  DEF Step, PutMetadata, PutData, Poll, Exists, FetchMissing, FetchBytes, Contains, Fail, Elsewhere
<1>6. ASSUME NEW new, Others(new) PROVE IndBuffers'
  BY <1>3, <1>6 DEF Others
<1>7. ASSUME NEW kind, CreateHandle(kind) PROVE IndBuffers'
  BY <1>3, <1>7 DEF CreateHandle
<1>8. CASE DestroyHandle \/ UNCHANGED vars
  BY <1>3, <1>8 DEF DestroyHandle, vars
<1> QED BY <1>4, <1>5, <1>6, <1>7, <1>8 DEF Next

LEMMA BuffersAlways == Spec => []IndBuffers
<1>1. Init => NoOverrun /\ BuffersAreOfOneRead
  BY BuffersAssumption DEF Init, NoOverrun, BuffersAreOfOneRead
<1>2. Init => IndBuffers
  BY <1>1, ControlInit DEF IndBuffers
<1> QED BY <1>2, BuffersStep, PTL DEF Spec

(* No read writes past the program's buffers, however large they are and   *)
(* whatever others put between its two fetches                             *)
(* (RADEX_DEFINE_C_CLIENT_GET_TENSOR).                                     *)
THEOREM NothingIsOverrun == Spec => []NoOverrun
<1>1. IndBuffers => NoOverrun
  BY DEF IndBuffers
<1> QED BY <1>1, BuffersAlways, PTL

(* The program's buffers hold what the last successful read has fetched,   *)
(* whatever failed since, and one item if nobody wrote meanwhile           *)
(* (get_item_info, RADEX_DEFINE_C_CLIENT_GET_TENSOR).                      *)
THEOREM BuffersHoldOneRead == Spec => []BuffersAreOfOneRead
<1>1. IndBuffers => BuffersAreOfOneRead
  BY DEF IndBuffers
<1> QED BY <1>1, BuffersAlways, PTL

-----------------------------------------------------------------------------
(* Handles. *)

(* Only the creation and the destruction of a handle change it.            *)
LEMMA HandlesStep ==
  ASSUME [Next]_vars
  PROVE  \/ UNCHANGED handles
         \/ \E kind \in {"incoming", "outgoing"} : CreateHandle(kind)
         \/ DestroyHandle
<1>1. CASE Call
  BY <1>1 DEF Call, PutScalar, PutTensor, Read, Begin, Return, Finish
<1>2. CASE Step
  BY <1>2
  DEF Step, PutMetadata, PutData, Poll, Exists, FetchMissing, FetchBytes, FetchMetadata, Query,
      CopyOut, Contains, Fail, Return, Throw, Finish, Goto
<1>3. ASSUME NEW new, Others(new) PROVE UNCHANGED handles
  BY <1>3 DEF Others
<1>4. CASE UNCHANGED vars
  BY <1>4 DEF vars
<1> QED BY <1>1, <1>2, <1>3, <1>4 DEF Next

(* Handles are freed once and do not leak, also when memory runs out       *)
(* (radex_incoming_handle_create, radex_incoming_handle_destroy).          *)
THEOREM HandlesStaySafe == Spec => []HandlesAreSafe
<1>1. Init => HandlesAreSafe
  BY DEF Init, HandlesAreSafe
<1>2. HandlesAreSafe /\ [Next]_vars => HandlesAreSafe'
  <2> SUFFICES ASSUME HandlesAreSafe, [Next]_vars PROVE HandlesAreSafe'
    OBVIOUS
  <2>1. CASE UNCHANGED handles
    BY <2>1 DEF handles, HandlesAreSafe
  <2>2. ASSUME NEW kind \in {"incoming", "outgoing"}, CreateHandle(kind)
        PROVE  HandlesAreSafe'
    BY <2>2 DEF CreateHandle, HandlesAreSafe
  <2>3. CASE DestroyHandle
    BY <2>3 DEF DestroyHandle, HandlesAreSafe
  <2> QED BY <2>1, <2>2, <2>3, HandlesStep
<1> QED BY <1>1, <1>2, PTL DEF Spec
-----------------------------------------------------------------------------
(* Codes. *)

(* A class has no ancestors outside a set that contains it and the base of *)
(* each of its members.                                                    *)
LEMMA AncestorsWithin ==
  ASSUME NEW x, NEW S, x \in S, \A y \in S : Base[y] \in S
  PROVE  x \in Ancestors(x) /\ Base[x] \in Ancestors(x) /\ Ancestors(x) \subseteq S
<1> DEFINE up(T) == T \cup {Base[y] : y \in T}
<1>1. ASSUME NEW T, T \subseteq S PROVE up(T) \subseteq S
  BY <1>1
<1>2. up({x}) \subseteq S
  OBVIOUS
<1>3. x \in up({x}) /\ Base[x] \in up({x})
  OBVIOUS
<1>4. \A T : T \subseteq up(T)
  OBVIOUS
<1>5. Ancestors(x) = up(up(up(up({x}))))
  BY DEF Ancestors
<1> HIDE DEF up
<1> QED BY <1>1, <1>2, <1>3, <1>4, <1>5

(* The first handler that catches an exception gives it its code.          *)
LEMMA CCodeOf ==
  ASSUME NEW x, NEW S, x \in S, \A y \in S : Base[y] \in S, NEW i \in 1 .. 9,
         CHandlers[i].class \in {x, Base[x]}, \A j \in 1 .. i - 1 : CHandlers[j].class \notin S
  PROVE  CCode(x) = CHandlers[i].as
<1> DEFINE first(k) == /\ CHandlers[k].class \in Ancestors(x)
                       /\ \A j \in 1 .. k - 1 : ~(CHandlers[j].class \in Ancestors(x))
<1>1. DOMAIN CHandlers = 1 .. 9
  BY DEF CHandlers
<1>2. CHandlers[i].class \in Ancestors(x) /\ Ancestors(x) \subseteq S
  BY AncestorsWithin
<1>3. first(i)
  BY <1>2
<1>4. \A k \in DOMAIN CHandlers : first(k) => k = i
  BY <1>1, <1>2, <1>3
<1>5. i = CHOOSE k \in DOMAIN CHandlers : first(k)
  <2> HIDE DEF first
  <2> QED BY <1>1, <1>3, <1>4
<1> QED BY <1>5 DEF CCode, Translate

(* The codes of what the calls of this interface throw.                    *)
LEMMA CCodes ==
  /\ CCode("KeyNotFoundError")   = Errno.KEY_NOT_FOUND
  /\ CCode("TimeoutError")       = Errno.TIMEOUT
  /\ CCode("RankMismatchError")  = Errno.RANK_MISMATCH
  /\ CCode("DTypeMismatchError") = Errno.DTYPE_MISMATCH
  /\ CCode("MetadataError")      = Errno.METADATA
  /\ CCode("bad_alloc")          = Errno.ALLOCATION
  /\ CCode("StoreException")     = Errno.UNKNOWN
<1> DEFINE Radex == {"Error", "runtime_error", "exception"}
<1>1. CCode("KeyNotFoundError") = Errno.KEY_NOT_FOUND
  <2> DEFINE S == {"KeyNotFoundError"} \cup Radex
  <2>1. "KeyNotFoundError" \in S /\ \A y \in S : Base[y] \in S
    BY DEF Base
  <2>2. /\ CHandlers[1].class = "KeyNotFoundError" /\ CHandlers[1].as = Errno.KEY_NOT_FOUND
        /\ \A j \in 1 .. 1 - 1 : CHandlers[j].class \notin S
    BY DEF CHandlers, Handler
  <2> HIDE DEF S
  <2> QED BY <2>1, <2>2, CCodeOf
<1>2. CCode("TimeoutError") = Errno.TIMEOUT
  <2> DEFINE S == {"TimeoutError"} \cup Radex
  <2>1. "TimeoutError" \in S /\ \A y \in S : Base[y] \in S
    BY DEF Base
  <2>2. /\ CHandlers[2].class = "TimeoutError" /\ CHandlers[2].as = Errno.TIMEOUT
        /\ \A j \in 1 .. 2 - 1 : CHandlers[j].class \notin S
    BY DEF CHandlers, Handler
  <2> HIDE DEF S
  <2> QED BY <2>1, <2>2, CCodeOf
<1>3. CCode("RankMismatchError") = Errno.RANK_MISMATCH
  <2> DEFINE S == {"RankMismatchError", "TypeMismatchError"} \cup Radex
  <2>1. "RankMismatchError" \in S /\ \A y \in S : Base[y] \in S
    BY DEF Base
  <2>2. /\ CHandlers[3].class = "RankMismatchError" /\ CHandlers[3].as = Errno.RANK_MISMATCH
        /\ \A j \in 1 .. 3 - 1 : CHandlers[j].class \notin S
    BY DEF CHandlers, Handler
  <2> HIDE DEF S
  <2> QED BY <2>1, <2>2, CCodeOf
<1>4. CCode("DTypeMismatchError") = Errno.DTYPE_MISMATCH
  <2> DEFINE S == {"DTypeMismatchError", "TypeMismatchError"} \cup Radex
  <2>1. "DTypeMismatchError" \in S /\ \A y \in S : Base[y] \in S
    BY DEF Base
  <2>2. /\ CHandlers[4].class = "DTypeMismatchError" /\ CHandlers[4].as = Errno.DTYPE_MISMATCH
        /\ \A j \in 1 .. 4 - 1 : CHandlers[j].class \notin S
    BY DEF CHandlers, Handler
  <2> HIDE DEF S
  <2> QED BY <2>1, <2>2, CCodeOf
<1>5. CCode("MetadataError") = Errno.METADATA
  <2> DEFINE S == {"MetadataError"} \cup Radex
  <2>1. "MetadataError" \in S /\ \A y \in S : Base[y] \in S
    BY DEF Base
  <2>2. /\ CHandlers[5].class = "MetadataError" /\ CHandlers[5].as = Errno.METADATA
        /\ \A j \in 1 .. 5 - 1 : CHandlers[j].class \notin S
    BY DEF CHandlers, Handler
  <2> HIDE DEF S
  <2> QED BY <2>1, <2>2, CCodeOf
<1>6. CCode("bad_alloc") = Errno.ALLOCATION
  <2> DEFINE S == {"bad_alloc", "exception"}
  <2>1. "bad_alloc" \in S /\ \A y \in S : Base[y] \in S
    BY DEF Base
  <2>2. /\ CHandlers[8].class = "bad_alloc" /\ CHandlers[8].as = Errno.ALLOCATION
        /\ \A j \in 1 .. 8 - 1 : CHandlers[j].class \notin S
    BY DEF CHandlers, Handler
  <2> HIDE DEF S
  <2> QED BY <2>1, <2>2, CCodeOf
<1>7. CCode("StoreException") = Errno.UNKNOWN
  <2> DEFINE S == {"StoreException", "exception"}
  <2>1. "StoreException" \in S /\ \A y \in S : Base[y] \in S
    BY DEF Base
  <2>2. /\ CHandlers[9].class = Base["StoreException"] /\ CHandlers[9].as = Errno.UNKNOWN
        /\ \A j \in 1 .. 9 - 1 : CHandlers[j].class \notin S
    BY DEF CHandlers, Handler, Base
  <2> HIDE DEF S
  <2> QED BY <2>1, <2>2, CCodeOf
<1> QED BY <1>1, <1>2, <1>3, <1>4, <1>5, <1>6, <1>7

Raised ==
  {"none", "KeyNotFoundError", "TimeoutError", "RankMismatchError", "DTypeMismatchError",
   "MetadataError", "StoreException", "bad_alloc"}

Codes == {Errno[e] : e \in DOMAIN Errno}

(* What a read raises.                                                     *)
LEMMA ReadErrorRaised ==
  ASSUME NEW shape, NEW t, NEW meta
  PROVE  ReadError(shape, t, meta) \in
           {"none", "MetadataError", "RankMismatchError", "DTypeMismatchError"}
BY DEF ReadError

LEMMA DocumentedCodes ==
  ASSUME NEW x \in Raised, x # "none"
  PROVE  /\ x \in DOMAIN Documented => CCode(x) = Documented[x]
         /\ CCode(x) \in Codes \ {0}
         /\ CCode(x) = Errno.DTYPE_MISMATCH <=> x = "DTypeMismatchError"
         /\ CCode(x) = Errno.RANK_MISMATCH <=> x = "RankMismatchError"
BY CCodes DEF Raised, Documented, Errno, Codes

(* The last call has thrown nothing, or something known that has its code. *)
LastOK ==
  \/ last.thrown = "none" /\ last.ret \in Codes
  \/ last.thrown \in Raised \ {"none"} /\ last.ret = CCode(last.thrown)

LEMMA LastStep == LastOK /\ [Next]_vars => LastOK'
<1> SUFFICES ASSUME LastOK, [Next]_vars PROVE LastOK'
  OBVIOUS
<1>1. {Errno.RADEX_OK, Errno.RANK_MISMATCH, Errno.BUFFER_TOO_SMALL, 0, 1} \subseteq Codes
  BY DEF Errno, Codes
<1>2. ASSUME NEW ret \in Codes, Return(ret) PROVE LastOK'
  BY <1>2 DEF Return, Finish, LastOK
<1>3. ASSUME NEW x \in Raised \ {"none"}, Throw(x) PROVE LastOK'
  BY <1>3 DEF Throw, Finish, LastOK
<1>4. last' = Quiet => LastOK'
  BY <1>1 DEF Quiet, LastOK
<1>5. UNCHANGED last => LastOK'
  BY DEF LastOK
<1>6. CASE Call
  <2>1. ASSUME NEW kind, NEW k, NEW step, Begin(kind, k, step) PROVE LastOK'
    BY <1>4, <2>1 DEF Begin
  <2> QED BY <1>1, <1>2, <1>6, <2>1 DEF Call, PutScalar, PutTensor, Read
<1>7. CASE PutMetadata
  BY <1>5, <1>7 DEF PutMetadata, Goto
<1>8. CASE PutData
  BY <1>1, <1>2, <1>8 DEF PutData
<1>9. {"TimeoutError", "KeyNotFoundError", "StoreException"} \subseteq Raised \ {"none"}
  BY DEF Raised
<1>10. CASE Poll \/ Exists \/ FetchBytes
  BY <1>3, <1>5, <1>9, <1>10 DEF Poll, Exists, FetchBytes, Goto
<1>11. CASE FetchMissing \/ Fail
  BY <1>3, <1>9, <1>11 DEF FetchMissing, Fail
<1>12. CASE FetchMetadata
  <2> DEFINE x == ReadError(call.shape, call.dtype, store.meta)
  <2>1. CASE x # "none"
    <3>1. x \in Raised \ {"none"} /\ Throw(x)
      BY <1>12, <2>1, ReadErrorRaised DEF FetchMetadata, Raised
    <3> HIDE DEF x
    <3> QED BY <1>3, <3>1
  <2>2. CASE x = "none"
    <3>1. \E ret \in Codes : Return(ret)
      BY <1>1, <1>12, <2>2 DEF FetchMetadata, Query, CopyOut
    <3> QED BY <1>2, <3>1
  <2> QED BY <2>1, <2>2
<1>13. CASE Contains
  BY <1>1, <1>2, <1>13 DEF Contains
<1>14. ASSUME NEW new, Others(new) PROVE LastOK'
  BY <1>5, <1>14 DEF Others
<1>15. ASSUME NEW kind, CreateHandle(kind) PROVE LastOK'
  <2>1. last' = [thrown |-> "bad_alloc", ret |-> CCode("bad_alloc")] => LastOK'
    BY DEF LastOK, Raised
  <2> QED BY <1>4, <1>15, <2>1 DEF CreateHandle
<1>16. CASE DestroyHandle
  BY <1>4, <1>16 DEF DestroyHandle
<1>17. CASE UNCHANGED vars
  BY <1>5, <1>17 DEF vars
<1> QED BY <1>6, <1>7, <1>8, <1>10, <1>11, <1>12, <1>13, <1>14, <1>15, <1>16, <1>17 DEF Next, Step

LEMMA LastInit == Init => LastOK
<1>1. Errno.RADEX_OK \in Codes
  BY DEF Errno, Codes
<1> QED BY <1>1 DEF Init, Quiet, LastOK

(* Each radex error comes back as its own code, from every function        *)
(* (RADEX_C_CATCH_EXCEPTIONS).                                             *)
THEOREM CodesTellTheCause == Spec => []CodesNameTheCause
<1>1. "none" \notin DOMAIN Documented
  BY DEF Documented
<1>2. LastOK => CodesNameTheCause
  BY <1>1, DocumentedCodes DEF LastOK, CodesNameTheCause
<1> QED BY <1>2, LastInit, LastStep, PTL DEF Spec

-----------------------------------------------------------------------------
(* Retries. *)

ReadCode(shape, t, meta) ==
  LET x == ReadError(shape, t, meta) IN IF x = "none" THEN Errno.RADEX_OK ELSE CCode(x)

(* What reads have been told is what the metadata tells them still.        *)
AnswersHold ==
  \A a \in answers :
    /\ a.shape \in {"scalar", "tensor"} /\ a.dtype \in DTypes
    /\ store.meta \in Metadata
    /\ a.ret = ReadCode(a.shape, a.dtype, store.meta)

IndRetries == ControlOK /\ AnswersHold

(* A mismatch is one of the rank, whatever the type, or else of the type.  *)
LEMMA Mismatches ==
  ASSUME NEW meta \in Metadata, NEW shape \in {"scalar", "tensor"}, NEW t \in DTypes
  PROVE  /\ ReadCode(shape, t, meta) = Errno.DTYPE_MISMATCH
              => meta \in [dtype : DTypes, dims : Dims] /\ meta.dtype # t
         /\ ReadCode(shape, t, meta) = Errno.RANK_MISMATCH =>
              \A u \in DTypes : ReadCode(shape, u, meta) = Errno.RANK_MISMATCH
<1>1. Errno.RADEX_OK \notin {Errno.DTYPE_MISMATCH, Errno.RANK_MISMATCH}
  BY DEF Errno
<1>2. ReadError(shape, t, meta) \in Raised
  BY ReadErrorRaised DEF Raised
<1>3. CASE ReadCode(shape, t, meta) = Errno.DTYPE_MISMATCH
  <2>1. ReadError(shape, t, meta) = "DTypeMismatchError"
    BY <1>1, <1>2, <1>3, DocumentedCodes DEF ReadCode
  <2>2. meta # Malformed /\ meta.dtype # t
    BY <2>1 DEF ReadError
  <2>3. ReadCode(shape, t, meta) # Errno.RANK_MISMATCH
    BY <1>3 DEF Errno
  <2> QED BY <2>2, <2>3 DEF Metadata
<1>4. CASE ReadCode(shape, t, meta) = Errno.RANK_MISMATCH
  <2>1. ReadError(shape, t, meta) = "RankMismatchError"
    BY <1>1, <1>2, <1>4, DocumentedCodes DEF ReadCode
  <2>2. \A u \in DTypes : ReadError(shape, u, meta) = "RankMismatchError"
    BY <2>1 DEF ReadError
  <2>3. ReadCode(shape, t, meta) # Errno.DTYPE_MISMATCH
    BY <1>4 DEF Errno
  <2> QED BY <2>2, <2>3, CCodes DEF ReadCode
<1> QED BY <1>3, <1>4

LEMMA RetriesFollow == IndRetries => RetriesConverge
<1> SUFFICES ASSUME IndRetries, NEW shape \in {"scalar", "tensor"}
             PROVE  LET told == {a \in answers : a.shape = shape} IN
                    /\ {a.dtype : a \in {b \in told : b.ret = Errno.DTYPE_MISMATCH}} # DTypes
                    /\ \A a, b \in told :
                         a.ret = Errno.RANK_MISMATCH => b.ret = Errno.RANK_MISMATCH
  BY DEF RetriesConverge
<1> DEFINE told == {a \in answers : a.shape = shape}
           wrong == {b \in told : b.ret = Errno.DTYPE_MISMATCH}
<1>1. \A a \in wrong : store.meta \in [dtype : DTypes, dims : Dims] /\ store.meta.dtype # a.dtype
  BY Mismatches DEF IndRetries, AnswersHold
<1>2. {a.dtype : a \in wrong} # DTypes
  <2>1. CASE wrong = {}
    BY <2>1, DTypesAssumption
  <2>2. CASE wrong # {}
    <3>1. store.meta.dtype \in DTypes /\ store.meta.dtype \notin {a.dtype : a \in wrong}
      BY <1>1, <2>2
    <3> QED BY <3>1
  <2> QED BY <2>1, <2>2
<1>3. \A a, b \in told : a.ret = Errno.RANK_MISMATCH => b.ret = Errno.RANK_MISMATCH
  BY Mismatches DEF IndRetries, AnswersHold
<1> QED BY <1>2, <1>3

(* What a read is told when it has fetched the metadata.                   *)
LEMMA AnswerGiven ==
  ASSUME ControlOK, FetchMetadata
  PROVE  /\ call.shape \in {"scalar", "tensor"} /\ call.dtype \in DTypes
         /\ store.meta \in Metadata
         /\ \A a \in answers' :
              \/ a \in answers
              \/ a = [shape |-> call.shape, dtype |-> call.dtype,
                      ret |-> ReadCode(call.shape, call.dtype, store.meta)]
<1>1. call \in ReadCalls /\ store.meta \in Metadata
  BY GivenTyped DEF FetchMetadata
<1>2. call.shape \in {"scalar", "tensor"} /\ call.dtype \in DTypes
  BY <1>1 DEF ReadCalls, Reads
<1>3. Answer(ReadError(call.shape, call.dtype, store.meta))
  BY DEF FetchMetadata
<1> QED BY <1>1, <1>2, <1>3 DEF Answer, ReadCode

(* Whoever does not fetch metadata forgets, or leaves store and answers.   *)
LEMMA AnswersStep ==
  ASSUME [Next]_vars, ~FetchMetadata
  PROVE  (UNCHANGED <<store, answers>>) \/ Forget
<1>1. CASE Call
  BY <1>1 DEF Call, PutScalar, PutTensor, Read, Begin
<1>2. CASE Step
  BY <1>2
  DEF Step, PutMetadata, PutData, Poll, Exists, FetchMissing, FetchBytes, Contains, Fail, Elsewhere
<1>3. ASSUME NEW new, Others(new) PROVE Forget
  BY <1>3 DEF Others
<1>4. ASSUME NEW kind, CreateHandle(kind) PROVE UNCHANGED <<store, answers>>
  BY <1>4 DEF CreateHandle
<1>5. CASE DestroyHandle \/ UNCHANGED vars
  BY <1>5 DEF DestroyHandle, vars
<1> QED BY <1>1, <1>2, <1>3, <1>4, <1>5 DEF Next

LEMMA RetriesStep == IndRetries /\ [Next]_vars => IndRetries'
<1> SUFFICES ASSUME IndRetries, [Next]_vars PROVE IndRetries'
  OBVIOUS
<1>1. ControlOK'
  BY ControlStep DEF IndRetries
<1>2. CASE UNCHANGED <<store, answers>>
  BY <1>1, <1>2 DEF IndRetries, AnswersHold
<1>3. CASE Forget
  BY <1>1, <1>2, <1>3 DEF Forget, IndRetries, AnswersHold
<1>4. CASE FetchMetadata
  <2>1. store' = store
    BY <1>4 DEF FetchMetadata
  <2> QED BY <1>1, <1>4, <2>1, AnswerGiven DEF IndRetries, AnswersHold
<1> QED BY <1>2, <1>3, <1>4, AnswersStep

(* A C program that is told of a wrong element type finds the right one    *)
(* among the others; of a wrong shape, it need not try (ReadError: the rank*)
(* is compared before the type).                                           *)
THEOREM RetriesMakeSense == Spec => []RetriesConverge
<1>1. Init => IndRetries
  BY ControlInit DEF Init, IndRetries, AnswersHold
<1> QED BY <1>1, RetriesStep, RetriesFollow, PTL DEF Spec

-----------------------------------------------------------------------------
(* Types. *)

Pointer ==
  /\ handle.kind \in {"none", "incoming", "outgoing"}
  /\ handle.pointer \in Addresses \cup {Null, None} /\ live \subseteq Addresses

Memory ==
  /\ data \in [1 .. Area -> Values \cup {Garbage, None}]
  /\ \A i \in 1 .. Area : dims[i] \in Nat \cup {None}
  /\ rank \in Nat \cup {None}

Learned == answers \subseteq [shape : {"scalar", "tensor"}, dtype : DTypes, ret : Codes]

IndTypes == ControlOK /\ LastOK /\ Pointer /\ Memory /\ Learned

LEMMA TypesFollow == IndTypes => TypeOK
<1> SUFFICES ASSUME IndTypes PROVE TypeOK
  OBVIOUS
<1>1. Codes \subseteq Int
  BY DEF Codes, Errno
<1>2. Raised \subseteq Classes \cup {"none"}
  BY DEF Raised, Classes, Base
<1>3. last.thrown \in Classes \cup {"none"} /\ last.ret \in Int
  BY <1>1, <1>2, DocumentedCodes DEF IndTypes, LastOK
<1> QED BY <1>3 DEF IndTypes, ControlOK, Pointer, Memory, Learned, TypeOK, Codes, Holdings,
                    PutSteps, ReadSteps

LEMMA PointerStep == Pointer /\ [Next]_vars => Pointer'
<1> SUFFICES ASSUME Pointer, [Next]_vars PROVE Pointer'
  OBVIOUS
<1>1. CASE UNCHANGED handles
  BY <1>1 DEF handles, Pointer
<1>2. ASSUME NEW kind \in {"incoming", "outgoing"}, CreateHandle(kind) PROVE Pointer'
  BY <1>2 DEF CreateHandle, Pointer
<1>3. CASE DestroyHandle
  BY <1>3 DEF DestroyHandle, Pointer
<1> QED BY <1>1, <1>2, <1>3, HandlesStep

(* The copy of a tensor consists of values, and its dimensions of numbers. *)
LEMMA CopyTyped ==
  ASSUME ControlOK, Memory, pc = "fetch", fetched # None, store.meta # None,
         ReadError("tensor", call.dtype, store.meta) = "none", CopyOut
  PROVE  Memory'
<1> DEFINE d == store.meta.dims
           n == Elements(d)
           r == Len(d)
<1>1. n \in Nat /\ d \in Seq(Nat) /\ r \in Nat /\ fetched \in Bytes
  BY TensorThere DEF ControlOK
<1>2. CASE UNCHANGED <<memory, held>>
  BY <1>2 DEF Memory, memory
<1>3. CASE ~UNCHANGED <<memory, held>>
  <2>1. data' = Filled(data, n, Contents(n)) /\ dims' = Filled(dims, r, d) /\ rank' = r
    BY <1>3 DEF CopyOut
  <2>2. \A i : Element(fetched, call.dtype, i) \in Values \cup {Garbage}
    BY <1>1 DEF Element, Bytes
  <2> HIDE DEF d, n, r
  <2>3. data' = [i \in 1 .. Area |-> IF i <= n THEN Contents(n)[i] ELSE data[i]]
    BY <2>1 DEF Filled
  <2>4. \A i \in 1 .. Area : i <= n => Contents(n)[i] \in Values \cup {Garbage}
    BY <1>1, <2>2, BuffersAssumption DEF Contents
  <2>5. \A i \in 1 .. Area : (IF i <= n THEN Contents(n)[i] ELSE data[i]) \in Values \cup {Garbage, None}
    BY <1>1, <2>4 DEF Memory
  <2>6. data' \in [1 .. Area -> Values \cup {Garbage, None}]
    BY <2>3, <2>5
  <2>7. \A i \in 1 .. Area : i <= r => d[i] \in Nat
    BY <1>1, BuffersAssumption DEF r
  <2>8. \A i \in 1 .. Area : dims'[i] = IF i <= r THEN d[i] ELSE dims[i]
    BY <1>1, <2>1, FilledCells
  <2>9. \A i \in 1 .. Area : dims'[i] \in Nat \cup {None}
    BY <2>7, <2>8 DEF Memory
  <2> QED BY <1>1, <2>1, <2>6, <2>9 DEF Memory
<1> QED BY <1>2, <1>3

LEMMA MemoryStep ==
  ASSUME ControlOK, Memory, [Next]_vars
  PROVE  Memory'
<1>1. CASE UNCHANGED memory
  BY <1>1 DEF memory, Memory
<1>2. CASE FetchMetadata
  <2> DEFINE x == ReadError(call.shape, call.dtype, store.meta)
  <2>1. pc = "fetch" /\ fetched # None /\ store.meta # None /\ call \in ReadCalls
    BY <1>2, GivenTyped DEF FetchMetadata
  <2>2. call.shape \in {"scalar", "tensor"}
    BY <2>1 DEF ReadCalls, Reads
  <2>3. CASE x = "none" /\ call.shape = "tensor" /\ Query
    <3>1. Len(store.meta.dims) \in Nat
      BY <2>1, <2>3, TensorThere
    <3> QED BY <2>3, <3>1 DEF Query, Memory
  <2>4. CASE x = "none" /\ call.shape = "tensor" /\ CopyOut
    BY <2>1, <2>4, CopyTyped
  <2> QED BY <1>1, <1>2, <2>2, <2>3, <2>4 DEF FetchMetadata
<1>3. CASE Call
  BY <1>1, <1>3 DEF Call, PutScalar, PutTensor, Read, Begin
<1>4. CASE Step
  BY <1>1, <1>2, <1>4
  DEF Step, PutMetadata, PutData, Poll, Exists, FetchMissing, FetchBytes, Contains, Fail, Elsewhere
<1>5. ASSUME NEW new, Others(new) PROVE Memory'
  BY <1>1, <1>5 DEF Others
<1>6. ASSUME NEW kind, CreateHandle(kind) PROVE Memory'
  BY <1>1, <1>6 DEF CreateHandle
<1>7. CASE DestroyHandle \/ UNCHANGED vars
  BY <1>1, <1>7 DEF DestroyHandle, vars
<1> QED BY <1>3, <1>4, <1>5, <1>6, <1>7 DEF Next

(* An answer is a code.                                                    *)
LEMMA LearnedStep ==
  ASSUME ControlOK, Learned, [Next]_vars
  PROVE  Learned'
<1>1. CASE FetchMetadata
  <2>1. Errno.RADEX_OK \in Codes
    BY DEF Codes, Errno
  <2>2. ReadCode(call.shape, call.dtype, store.meta) \in Codes
    BY <2>1, ReadErrorRaised, DocumentedCodes DEF ReadCode, Raised
  <2> QED BY <1>1, <2>2, AnswerGiven DEF Learned
<1>2. CASE ~FetchMetadata
  BY <1>2, AnswersStep DEF Forget, Learned
<1> QED BY <1>1, <1>2

(* The store, the call and the program's memory hold what they are meant   *)
(* to, whatever the program calls and others write.                        *)
THEOREM TypeCorrect == Spec => []TypeOK
<1>1. Init => IndTypes
  BY ControlInit, LastInit DEF Init, IndTypes, Pointer, Memory, Learned
<1>2. IndTypes /\ [Next]_vars => IndTypes'
  BY ControlStep, LastStep, PointerStep, MemoryStep, LearnedStep DEF IndTypes
<1> QED BY <1>1, <1>2, TypesFollow, PTL DEF Spec
=============================================================================
