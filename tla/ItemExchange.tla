----------------------------- MODULE ItemExchange -----------------------------
(***************************************************************************)
(* The exchange layer of RaDex: IClient over a key-value backend.          *)
(*                                                                         *)
(* Every typed operation is a sequence of backend calls, and the backend   *)
(* is atomic only for one of them: put writes the metadata and then the    *)
(* data, a read fetches the data and then the metadata, delete_item takes  *)
(* up to three calls.  pc[c] names the backend call client c makes next,   *)
(* so the steps of different clients interleave between backend calls.     *)
(*                                                                         *)
(* Sleeping between two polls changes nothing here: it is a stuttering     *)
(* step.  How long a wait polls is the subject of PollingWait.             *)
(***************************************************************************)
EXTENDS RadexTypes

CONSTANTS
  Clients,        \* processes and threads that own a client object
  Calls,          \* calls the application makes
  Backend,        \* "dragon", "smartredis" or the in-memory "map"
  SerialDeletes,  \* the application keeps deletes and puts of a handle apart
  MayFail         \* backend calls may fail and clients may die

ASSUME CallsAssumption == Calls \subseteq Call

ASSUME BackendAssumption ==
  /\ Backend \in {"dragon", "smartredis", "map"}
  /\ SerialDeletes \in BOOLEAN
  /\ MayFail \in BOOLEAN

VARIABLES
  store,    \* the backend: store[key] is an item, a descriptor or None
  pc,       \* the next backend call of each client, or "idle"
  call,     \* the current or the last call of each client
  buffer,   \* the data a reader holds while it fetches the metadata
  outcome   \* the result of the last call

vars == <<store, pc, call, buffer, outcome>>

-----------------------------------------------------------------------------
(* Steps of the code. *)

Steps == {"put_meta", "put_data", "poll", "exists", "fetch", "delete_data",
          "check_meta", "delete_meta", "contains"}

H(c) == call[c].handle

\* Mutation: both fetches name the metadata key.
FetchKeyMetadata(c) == MetadataKey(H(c))

(* A reader fetches the data key first, the metadata key once it holds the *)
(* data.                                                                   *)
FetchKey(c) == IF buffer[c] = None THEN Key(H(c)) ELSE MetadataKey(H(c))

(* get_bytes: the Dragon client asks contains first.                       *)
GetBytes == IF Backend = "dragon" THEN "exists" ELSE "fetch"

(* wait_for_bytes: the Dragon client lets the store block, the others poll *)
WaitForBytes == IF Backend = "dragon" THEN "fetch" ELSE "poll"

(* The first backend call of a call.  put_picklable has no metadata.       *)
Entry(k) ==
  CASE k.op = "put"      -> IF k.item.desc = Pickled THEN "put_data"
                                                     ELSE "put_meta"
    [] k.op = "get"      -> GetBytes
    [] k.op = "wait"     -> WaitForBytes
    [] k.op = "delete"   -> "delete_data"
    [] k.op = "contains" -> "contains"

(* The backends overwrite; the map client's insert keeps what it has.      *)
Stored(key, blob) ==
  IF Backend = "map" /\ store[key] # None THEN store[key] ELSE blob

\* Mutation: a typed put writes the data before the metadata.
TargetDataFirst(c) ==
  IF pc[c] = "delete_meta" \/ (pc[c] = "put_data" /\ call[c].item.desc # Pickled)
  THEN MetadataKey(H(c)) ELSE Key(H(c))

(* The key that the backend call of a put or a delete names.               *)
Target(c) ==
  IF pc[c] \in {"put_meta", "delete_meta"} THEN MetadataKey(H(c)) ELSE Key(H(c))

(* What a put writes there.                                                *)
Blob(c) == IF Target(c) = Key(H(c)) THEN call[c].item ELSE call[c].item.desc

(* The store after the backend call c is about to make.                    *)
Effect(c) ==
  CASE pc[c] \in {"put_meta", "put_data"} ->
         [store EXCEPT ![Target(c)] = Stored(Target(c), Blob(c))]
    [] pc[c] \in {"delete_data", "delete_meta"} -> [store EXCEPT ![Target(c)] = None]
    [] OTHER -> store

(* The call goes on with step s.                                           *)
Goto(c, s) ==
  /\ pc' = [pc EXCEPT ![c] = s]
  /\ UNCHANGED <<call, buffer, outcome>>

(* The call returns or throws: its buffer is released.                     *)
Finish(c, o) ==
  /\ pc' = [pc EXCEPT ![c] = "idle"]
  /\ buffer' = [buffer EXCEPT ![c] = None]
  /\ outcome' = [outcome EXCEPT ![c] = o]
  /\ UNCHANGED call

-----------------------------------------------------------------------------
Init ==
  /\ store = [key \in Keys |-> None]
  /\ pc = [c \in Clients |-> "idle"]
  /\ call = [c \in Clients |-> None]
  /\ buffer = [c \in Clients |-> None]
  /\ outcome = [c \in Clients |-> Pending]

(* The application's discipline, when there is one: a handle is not put    *)
(* and deleted at the same time.                                           *)
Admissible(k) ==
  SerialDeletes =>
    \A d \in Clients :
      pc[d] # "idle" /\ H(d) = k.handle => {call[d].op, k.op} # {"put", "delete"}

Begin(c, k) ==
  /\ pc[c] = "idle"
  /\ Admissible(k)
  /\ pc' = [pc EXCEPT ![c] = Entry(k)]
  /\ call' = [call EXCEPT ![c] = k]
  /\ outcome' = [outcome EXCEPT ![c] = Pending]
  /\ UNCHANGED <<store, buffer>>

(* put_scalar, put_tensor, put_picklable                                   *)
PutMetadata(c) ==
  /\ pc[c] = "put_meta"
  /\ store' = Effect(c)
  /\ Goto(c, "put_data")

PutData(c) ==
  /\ pc[c] = "put_data"
  /\ store' = Effect(c)
  /\ Finish(c, Done)

(* IClient::wait_for_bytes: contains answers yes                           *)
Poll(c) ==
  /\ pc[c] = "poll"
  /\ store[Key(H(c))] # None
  /\ Goto(c, "fetch")
  /\ UNCHANGED store

(* IClient::wait_for_bytes: contains answers no after the deadline         *)
TimeOut(c) ==
  /\ pc[c] = "poll"
  /\ store[Key(H(c))] = None
  /\ Finish(c, Status("TimeoutError"))
  /\ UNCHANGED store

(* drg::ddict::Client::get_bytes asks contains before a blocking get       *)
Exists(c) ==
  /\ pc[c] = "exists"
  /\ IF store[FetchKey(c)] = None
     THEN Finish(c, Status("KeyNotFoundError"))
     ELSE Goto(c, "fetch")
  /\ UNCHANGED store

(* get_picklable stops after the data; get_item_info keeps the data and    *)
(* asks get_meta_data, which goes through get_bytes for a wait too.        *)
FetchData(c) ==
  /\ pc[c] = "fetch" /\ buffer[c] = None
  /\ store[FetchKey(c)] # None
  /\ IF call[c].req.shape = "picklable"
     THEN Finish(c, Unpickle(store[FetchKey(c)]))
     ELSE /\ buffer' = [buffer EXCEPT ![c] = store[FetchKey(c)]]
          /\ pc' = [pc EXCEPT ![c] = GetBytes]
          /\ UNCHANGED <<call, outcome>>
  /\ UNCHANGED store

FetchMetadata(c) ==
  /\ pc[c] = "fetch" /\ buffer[c] # None
  /\ store[FetchKey(c)] # None
  /\ Finish(c, Assemble(call[c].req, store[FetchKey(c)], buffer[c]))
  /\ UNCHANGED store

(* The key is absent when the backend is asked for it: SmartRedis raises   *)
(* its own error at once, Dragon blocks on the key until the store timeout *)
(* of the client.                                                          *)
FetchMissing(c) ==
  /\ pc[c] = "fetch"
  /\ store[FetchKey(c)] = None
  /\ Finish(c, Status(IF Backend = "map" THEN "KeyNotFoundError"
                                         ELSE "StoreKeyError"))
  /\ UNCHANGED store

\* Mutation: delete_item returns after the data.
DeleteDataOnly(c) ==
  /\ pc[c] = "delete_data"
  /\ store' = Effect(c)
  /\ Finish(c, Done)

(* delete_item.  Deleting an absent key may be an error of the backend.    *)
DeleteData(c) ==
  /\ pc[c] = "delete_data"
  /\ store' = Effect(c)
  /\ \/ Goto(c, "check_meta")
     \/ /\ store[Key(H(c))] = None /\ Backend # "map"
        /\ Finish(c, Status("StoreKeyError"))

CheckMetadata(c) ==
  /\ pc[c] = "check_meta"
  /\ IF store[MetadataKey(H(c))] = None THEN Finish(c, Done)
                                        ELSE Goto(c, "delete_meta")
  /\ UNCHANGED store

DeleteMetadata(c) ==
  /\ pc[c] = "delete_meta"
  /\ store' = Effect(c)
  /\ \/ Finish(c, Done)
     \/ /\ store[MetadataKey(H(c))] = None /\ Backend # "map"
        /\ Finish(c, Status("StoreKeyError"))

Contains(c) ==
  /\ pc[c] = "contains"
  /\ Finish(c, Status(IF store[Key(H(c))] = None THEN "false" ELSE "true"))
  /\ UNCHANGED store

(* A backend call fails and its exception leaves the operation, or the     *)
(* client dies; the call may have reached the backend.  Nothing is undone. *)
Interrupt(c) ==
  /\ MayFail
  /\ pc[c] # "idle"
  /\ store' \in {store, Effect(c)}
  /\ \E s \in Failures : Finish(c, Status(s))

-----------------------------------------------------------------------------
(* The steps of c that the backend answers at once. *)
Progress(c) ==
  \/ PutMetadata(c) \/ PutData(c)
  \/ Poll(c) \/ Exists(c) \/ FetchData(c) \/ FetchMetadata(c)
  \/ DeleteData(c) \/ CheckMetadata(c) \/ DeleteMetadata(c)
  \/ Contains(c)

Next ==
  \E c \in Clients :
    \/ \E k \in Calls : Begin(c, k)
    \/ Progress(c)
    \/ TimeOut(c) \/ FetchMissing(c) \/ Interrupt(c)

Spec == Init /\ [][Next]_vars

(* Every client keeps running and the backend answers it.  No fairness on  *)
(* timeouts, which may be arbitrarily long, on failures or on new calls.   *)
FairSpec == Spec /\ \A c \in Clients : WF_vars(Progress(c))

-----------------------------------------------------------------------------
(* Correctness. *)

(* The store keeps items and descriptors apart.                            *)
StoreTypeOK(s) ==
  /\ DOMAIN s = Keys
  /\ \A h \in Handles :
       /\ s[Key(h)] \in Item \cup {None}
       /\ s[MetadataKey(h)] \in Desc \cup {None}

(* Readers hold whole items, and what a call returns is a result.          *)
TypeOK ==
  /\ StoreTypeOK(store)
  /\ pc \in [Clients -> Steps \cup {"idle"}]
  /\ call \in [Clients -> Calls \cup {None}]
  /\ buffer \in [Clients -> Item \cup {None}]
  /\ outcome \in [Clients -> Outcome]

(* The steps at which a call of each operation can be.                     *)
StepsOf(op) ==
  CASE op = "put"      -> {"put_meta", "put_data"}
    [] op = "get"      -> {"exists", "fetch"}
    [] op = "wait"     -> {"poll", "exists", "fetch"}
    [] op = "delete"   -> {"delete_data", "check_meta", "delete_meta"}
    [] op = "contains" -> {"contains"}

(* All puts of a handle write the same dtype and dimensions: what an       *)
(* application must ensure, since nothing in the code makes the two writes *)
(* of a put one.                                                           *)
Homogeneous ==
  \A j, k \in Calls :
    j.op = "put" /\ k.op = "put" /\ j.handle = k.handle
      => j.item.desc = k.item.desc

(* A typed item that readers can see has its metadata: put writes the      *)
(* metadata first and delete_item removes it last, so that a client that   *)
(* stops halfway, or a second writer, never leaves the data alone.         *)
DataHasMetadata ==
  \A h \in Handles :
    store[Key(h)] # None /\ store[Key(h)].desc # Pickled
      => store[MetadataKey(h)] # None

(* A read that succeeds decodes the bytes with the descriptor they were    *)
(* encoded from, although it fetched them in two calls ("the tensor        *)
(* previously written under handle").                                      *)
ReadsAreWhole ==
  \A c \in Clients :
    outcome[c].status = "ok" => outcome[c].desc = outcome[c].item.desc

(* get_bytes of the Dragon client never reaches the blocking get for a key *)
(* that is absent, whatever happened since contains answered.              *)
GetNeverBlocks ==
  \A c \in Clients :
    pc[c] = "fetch" /\ (call[c].op = "get" \/ buffer[c] # None)
      => store[FetchKey(c)] # None

(* A wait blocks until the item is there: it never ends because a key,     *)
(* data or metadata, is missing.                                           *)
WaitNeverMisses ==
  \A c \in Clients :
    call[c] # None /\ call[c].op = "wait"
      => outcome[c].status \notin NotFoundErrors

(* When delete_item returns, neither the data nor the metadata of the      *)
(* handle is left, also when it raced another delete or cleans up after a  *)
(* put or a delete that failed halfway.                                    *)
DeleteLeavesNothing ==
  [][\A c \in Clients :
       pc[c] \in StepsOf("delete") /\ pc'[c] = "idle" /\ outcome'[c] = Done
         => /\ store'[Key(H(c))] = None
            /\ store'[MetadataKey(H(c))] = None]_vars

(* A wait for an item that has been published is answered, and not with a  *)
(* missing key, if nothing is deleted.                                     *)
WaitIsAnswered ==
  \A c \in Clients :
    (pc[c] # "idle" /\ call[c].op = "wait" /\ store[Key(H(c))] # None)
      ~> (pc[c] = "idle" /\ outcome[c].status \notin NotFoundErrors)

-----------------------------------------------------------------------------
(* The exchange layer implements the store of whole items.  A put takes    *)
(* effect when its data is written, a delete when the data is removed, a   *)
(* read is decided when it fetches the data.                               *)

MissingMetadata ==
  Status(IF Backend = "smartredis" THEN "StoreKeyError" ELSE "KeyNotFoundError")

AbstractAnswer(c) ==
  IF buffer[c].desc = Pickled THEN MissingMetadata
  ELSE Assemble(call[c].req, buffer[c].desc, buffer[c])

(* The result of c as ItemStore sees it.                                   *)
Seen(c) ==
  IF pc[c] = "idle" THEN outcome[c]
  ELSE IF pc[c] \in {"check_meta", "delete_meta"} THEN Done
  ELSE IF buffer[c] # None THEN AbstractAnswer(c)
  ELSE Pending

AbstractOut == [c \in Clients |-> Seen(c)]

Abstract ==
  INSTANCE ItemStore WITH
    items    <- [h \in Handles |-> store[Key(h)]],
    busy     <- [c \in Clients |-> pc[c] # "idle"],
    out      <- AbstractOut,
    NotFound <- MissingMetadata

(* Every operation takes effect at one instant between its call and its    *)
(* return, in the presence of the interleaved backend calls of others.     *)
Linearizable == Abstract!Spec
=============================================================================
