------------------------------ MODULE ItemHistory ------------------------------
(***************************************************************************)
(* ItemExchange with a history: which put wrote what is in the store.      *)
(*                                                                         *)
(* Nothing makes the two writes of a put, or the two fetches of a read,    *)
(* one.  When the puts of a handle differ in dtype or shape, a reader may  *)
(* therefore decode the data of one put with the metadata of another (the  *)
(* run reshape).  The order of the writes and of the fetches still bounds  *)
(* how far the two can be apart, and this module says how: puts are        *)
(* numbered in the order of their first writes, and the history variables  *)
(* follow the numbers through the store and the readers.  Apart from the   *)
(* bound MaxPuts, HNext without them is Next.                              *)
(***************************************************************************)
EXTENDS ItemExchange

CONSTANT MaxPuts   \* bound: no put begins once this many have written

ASSUME MaxPutsAssumption == MaxPuts \in Nat

VARIABLES
  puts,     \* the number of puts that have written something
  ticket,   \* ticket[c]: the number of the put of c, 0 before its first write
  written,  \* written[key]: the put that wrote what is there, 0 for None
  fetched   \* fetched[c]: the put whose data c holds in its buffer

history == <<puts, ticket, written, fetched>>
hvars == <<vars, history>>

HInit ==
  /\ Init
  /\ puts = 0
  /\ ticket = [c \in Clients |-> 0]
  /\ written = [key \in Keys |-> 0]
  /\ fetched = [c \in Clients |-> 0]

(* The number of the put of c once it has written.                         *)
Number(c) == IF ticket[c] = 0 THEN puts + 1 ELSE ticket[c]

Putting(c) == pc[c] \in {"put_meta", "put_data"}

(* A call that returns leaves no ticket and no buffer behind.              *)
Keep(t, f) ==
  /\ ticket' = [c \in Clients |-> IF pc'[c] = "idle" THEN 0 ELSE t[c]]
  /\ fetched' = [c \in Clients |-> IF pc'[c] = "idle" THEN 0 ELSE f[c]]

NothingWritten == Keep(ticket, fetched) /\ UNCHANGED <<puts, written>>

(* The backend call of c takes effect (Dragon, SmartRedis: see Stored).    *)
Written(c) ==
  /\ written' = CASE Putting(c) -> [written EXCEPT ![Target(c)] = Number(c)]
                   [] pc[c] \in {"delete_data", "delete_meta"}
                        -> [written EXCEPT ![Target(c)] = 0]
                   [] OTHER -> written
  /\ puts' = IF Putting(c) /\ ticket[c] = 0 THEN puts + 1 ELSE puts
  /\ Keep(IF Putting(c) THEN [ticket EXCEPT ![c] = Number(c)] ELSE ticket, fetched)

HBegin(c, k) ==
  /\ k.op = "put" => puts < MaxPuts
  /\ Begin(c, k)
  /\ NothingWritten

HFetchData(c) ==
  /\ FetchData(c)
  /\ Keep(ticket, [fetched EXCEPT ![c] = written[FetchKey(c)]])
  /\ UNCHANGED <<puts, written>>

HWrite(c) ==
  /\ PutMetadata(c) \/ PutData(c) \/ DeleteData(c) \/ DeleteMetadata(c)
  /\ Written(c)

HOther(c) ==
  /\ \/ Poll(c) \/ TimeOut(c) \/ Exists(c) \/ FetchMetadata(c)
     \/ FetchMissing(c) \/ CheckMetadata(c) \/ Contains(c)
  /\ NothingWritten

(* A call that fails has reached the backend or not.                       *)
HInterrupt(c) ==
  /\ Interrupt(c)
  /\ \/ store' = Effect(c) /\ Written(c)
     \/ store' = store /\ NothingWritten

HNext ==
  \E c \in Clients :
    \/ \E k \in Calls : HBegin(c, k)
    \/ HFetchData(c) \/ HWrite(c) \/ HOther(c) \/ HInterrupt(c)

HSpec == HInit /\ [][HNext]_hvars

(* As FairSpec.                                                            *)
HFairSpec == HSpec /\ \A c \in Clients : WF_vars(Progress(c))

-----------------------------------------------------------------------------
(* A typed read that succeeds decodes the data of a put with the metadata  *)
(* of that put, or of one that came later and overlaps the read: never     *)
(* with the metadata of an earlier one.  put writes the metadata first and *)
(* a read fetches it last, and this must hold whatever descriptors the     *)
(* puts have, whatever is deleted meanwhile and whoever stops halfway.     *)
(* (Bytes of put_picklable have no metadata of their own: see Interop.)    *)
MetadataIsNeverOlder ==
  [][\A c \in Clients :
       /\ pc[c] = "fetch" /\ buffer[c] # None /\ buffer[c].desc # Pickled
       /\ pc'[c] = "idle" /\ outcome'[c].status = "ok"
       => \/ written[MetadataKey(H(c))] > fetched[c]
          \/ /\ written[MetadataKey(H(c))] = fetched[c]
             /\ outcome'[c].desc = outcome'[c].item.desc]_hvars
=============================================================================
