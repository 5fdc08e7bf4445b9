------------------------------ MODULE RadexTypes ------------------------------
(***************************************************************************)
(* The vocabulary shared by the specifications of the exchange layer:      *)
(* item descriptors, stored items, calls and their results.                *)
(***************************************************************************)
EXTENDS HandleKeys, Integers, Sequences

CONSTANTS
  Handles,   \* names that clients use
  Values,    \* payloads
  None       \* nothing: an absent key, no call, an empty buffer

Keys == {Key(h) : h \in Handles} \cup {MetadataKey(h) : h \in Handles}

-----------------------------------------------------------------------------
(* Descriptors and items.  put_scalar stores a descriptor without          *)
(* dimensions.  put_picklable stores bytes and no descriptor: Pickled      *)
(* stands for what those bytes encode.                                     *)

DTypes == {"INT32", "INT64", "FLOAT32", "FLOAT64"}

Desc == [dtype : DTypes, dims : Seq(Nat)]

Pickled == [dtype |-> "PICKLE", dims |-> <<>>]

(* The bytes under a data key, with the descriptor they were encoded from. *)
Item == [desc : Desc \cup {Pickled}, value : Values]

(* No handle is itself a metadata key, and names are made of components.   *)
ASSUME HandlesAssumption ==
  /\ Handles \subseteq Seq(NameParts)
  /\ \A h, g \in Handles : MetadataKey(h) # Key(g)

ASSUME NoneAssumption == None \notin Desc \cup Item

-----------------------------------------------------------------------------
(* Calls.  C++ and C readers request the element type they were            *)
(* instantiated with, Python readers take whatever dtype was stored.       *)

AnyDType == "any"

Request == [shape : {"scalar", "tensor", "picklable"},
            dtype : DTypes \cup {AnyDType}]

Call ==
  [op : {"put"}, handle : Handles, item : Item]
    \cup [op : {"get", "wait"}, handle : Handles, req : Request]
    \cup [op : {"delete", "contains"}, handle : Handles]

-----------------------------------------------------------------------------
(* Results. *)

(* StoreKeyError is the exception the backend itself raises for an absent  *)
(* key; it is not a radex error and C callers see it as "unknown".         *)
NotFoundErrors == {"KeyNotFoundError", "StoreKeyError"}

(* The backend is unreachable, or the client process dies.                 *)
Failures == {"BackendError", "Crashed"}

Errors == NotFoundErrors \cup Failures
            \cup {"TimeoutError", "RankMismatchError", "DTypeMismatchError",
                  "UnpicklingError"}

Status(s) == [status |-> s]

Pending == Status("pending")
Done    == Status("done")

Fetched(desc, item) == [status |-> "ok", desc |-> desc, item |-> item]

Outcome ==
  [status : Errors \cup {"pending", "done", "true", "false"}]
    \cup [status : {"ok"}, desc : Desc \cup {Pickled}, item : Item]

(* The descriptor a reader believes it has decoded: a C++ reader returns a *)
(* T whatever the metadata says, a scalar reader returns one element.      *)
Decoded(req, desc) ==
  [dtype |-> IF req.dtype = AnyDType THEN desc.dtype ELSE req.dtype,
   dims  |-> IF req.shape = "scalar" THEN <<>> ELSE desc.dims]

IsScalar(desc) == desc.dims = <<>>

\* Mutation: the element type is not compared.
AssembleAnyDType(req, desc, item) ==
  IF (req.shape = "scalar") # IsScalar(desc)
  THEN Status("RankMismatchError")
  ELSE Fetched(Decoded(req, desc), item)

(* assemble_scalar, assemble_tensor, construct_scalar, construct_tensor    *)
Assemble(req, desc, item) ==
  IF (req.shape = "scalar") # IsScalar(desc)
  THEN Status("RankMismatchError")
  ELSE IF req.dtype \notin {AnyDType, desc.dtype}
       THEN Status("DTypeMismatchError")
       ELSE Fetched(Decoded(req, desc), item)

(* cloudpickle.loads on the bytes found under the key.                     *)
Unpickle(item) ==
  IF item.desc = Pickled THEN Fetched(Pickled, item)
                         ELSE Status("UnpicklingError")
=============================================================================
