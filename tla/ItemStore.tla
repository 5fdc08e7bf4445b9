------------------------------- MODULE ItemStore -------------------------------
(***************************************************************************)
(* What the exchange layer promises: a store of whole typed items.         *)
(*                                                                         *)
(* A put replaces the item of its handle, a delete removes it, and a read  *)
(* answers from the item the handle has at one instant between the call    *)
(* and its return.  A call may also be cut short by the backend or by a    *)
(* crash, with or without its effect.  There are no metadata records here: *)
(* they are how the implementation gets this behaviour.                    *)
(***************************************************************************)
EXTENDS RadexTypes

CONSTANTS
  Clients,   \* processes and threads that own a client object
  Calls,     \* calls the application makes
  NotFound   \* what a typed read of an item that was pickled reports

VARIABLES
  items,     \* items[h]: the item of h, or None
  call,      \* call[c]: the current or the last call of c
  busy,      \* busy[c]: the call has not returned
  out        \* out[c]: the result of the call, once it is decided

storeVars == <<items, call, busy, out>>

(* What a reader makes of a whole item.                                    *)
Answer(req, item) ==
  IF req.shape = "picklable" THEN Unpickle(item)
  ELSE IF item.desc = Pickled THEN NotFound
  ELSE Assemble(req, item.desc, item)

Doing(c, ops) == busy[c] /\ call[c].op \in ops

Resolve(c, o, more) ==
  /\ out'  = [out EXCEPT ![c] = o]
  /\ busy' = [busy EXCEPT ![c] = more]
  /\ UNCHANGED call

Init ==
  /\ items = [h \in Handles |-> None]
  /\ call  = [c \in Clients |-> None]
  /\ busy  = [c \in Clients |-> FALSE]
  /\ out   = [c \in Clients |-> Pending]

Begin(c, k) ==
  /\ ~busy[c]
  /\ call' = [call EXCEPT ![c] = k]
  /\ busy' = [busy EXCEPT ![c] = TRUE]
  /\ out'  = [out EXCEPT ![c] = Pending]
  /\ UNCHANGED items

Put(c) ==
  /\ Doing(c, {"put"})
  /\ items' = [items EXCEPT ![call[c].handle] = call[c].item]
  /\ Resolve(c, Done, FALSE)

(* The answer is fixed by the item of this instant; the call may return    *)
(* now or later.                                                           *)
Read(c) ==
  /\ Doing(c, {"get", "wait"})
  /\ out[c] = Pending
  /\ items[call[c].handle] # None
  /\ \E more \in BOOLEAN :
       Resolve(c, Answer(call[c].req, items[call[c].handle]), more)
  /\ UNCHANGED items

(* Only a handle without an item is reported missing.  A reader that has   *)
(* its answer may still learn that the item was deleted meanwhile.         *)
Missing(c) ==
  /\ Doing(c, {"get", "wait"})
  /\ items[call[c].handle] = None
  /\ \E e \in NotFoundErrors : Resolve(c, Status(e), FALSE)
  /\ UNCHANGED items

(* Only a wait times out, and only on a handle without an item.            *)
TimeOut(c) ==
  /\ Doing(c, {"wait"})
  /\ items[call[c].handle] = None
  /\ Resolve(c, Status("TimeoutError"), FALSE)
  /\ UNCHANGED items

Delete(c) ==
  /\ Doing(c, {"delete"})
  /\ out[c] = Pending
  /\ items' = [items EXCEPT ![call[c].handle] = None]
  /\ \E more \in BOOLEAN : Resolve(c, Done, more)

DeleteMissing(c) ==
  /\ Doing(c, {"delete"})
  /\ items[call[c].handle] = None
  /\ Resolve(c, Status("StoreKeyError"), FALSE)
  /\ UNCHANGED items

Contains(c) ==
  /\ Doing(c, {"contains"})
  /\ Resolve(c, Status(IF items[call[c].handle] = None THEN "false" ELSE "true"),
             FALSE)
  /\ UNCHANGED items

Return(c) ==
  /\ busy[c]
  /\ out[c] # Pending
  /\ Resolve(c, out[c], FALSE)
  /\ UNCHANGED items

(* The backend reports an error or the client dies: the effect of the call *)
(* may have taken place.                                                   *)
Interrupt(c) ==
  /\ busy[c]
  /\ \/ UNCHANGED items
     \/ /\ call[c].op = "put"
        /\ items' = [items EXCEPT ![call[c].handle] = call[c].item]
     \/ /\ call[c].op = "delete"
        /\ items' = [items EXCEPT ![call[c].handle] = None]
  /\ \E s \in Failures : Resolve(c, Status(s), FALSE)

Next ==
  \E c \in Clients :
    \/ \E k \in Calls : Begin(c, k)
    \/ Put(c) \/ Read(c) \/ Missing(c) \/ TimeOut(c) \/ Delete(c)
    \/ DeleteMissing(c) \/ Contains(c) \/ Return(c) \/ Interrupt(c)

Spec == Init /\ [][Next]_storeVars
=============================================================================
