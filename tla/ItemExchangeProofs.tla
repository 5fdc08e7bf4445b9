-------------------------- MODULE ItemExchangeProofs --------------------------
(***************************************************************************)
(* What the runs of MCItemExchange show on small instances, proved for any *)
(* set of handles, values, clients and calls, and for each backend; that   *)
(* the exchange layer implements ItemStore; and how far apart the data and *)
(* the metadata of a read can be when the handle changes its descriptor.   *)
(***************************************************************************)
EXTENDS ItemHistory, TLAPS

-----------------------------------------------------------------------------
(* Keys. *)

(* The keys of two handles never coincide, and neither do their metadata   *)
(* keys: putting or deleting one handle leaves every other one alone.      *)
LEMMA KeysApart ==
  \A h, g \in Handles :
    /\ Key(h) \in Keys /\ MetadataKey(h) \in Keys
    /\ MetadataKey(h) # Key(g)
    /\ Key(h) = Key(g) => h = g
    /\ MetadataKey(h) = MetadataKey(g) => h = g
<1> SUFFICES ASSUME NEW h \in Handles, NEW g \in Handles
             PROVE  /\ Key(h) \in Keys /\ MetadataKey(h) \in Keys
                    /\ MetadataKey(h) # Key(g)
                    /\ Key(h) = Key(g) => h = g
                    /\ MetadataKey(h) = MetadataKey(g) => h = g
  OBVIOUS
<1>1. Key(h) \in Keys /\ MetadataKey(h) \in Keys
  BY DEF Keys
<1>2. MetadataKey(h) # Key(g)
  BY HandlesAssumption
<1>3. Key(h) = Key(g) => h = g
  BY DEF Key
<1>4. ASSUME MetadataKey(h) = MetadataKey(g) PROVE h = g
  <2>1. h \in Seq(NameParts) /\ g \in Seq(NameParts) /\ <<Prefix>> \in Seq(NameParts)
    <3>1. Prefix \in NameParts
      BY DEF NameParts
    <3> QED BY <3>1, HandlesAssumption
  <2>2. <<Prefix>> \o h = <<Prefix>> \o g
    BY <1>4 DEF MetadataKey, Key
  <2>3. Len(h) = Len(g)
    BY <2>1, <2>2
  <2>4. ASSUME NEW i \in 1..Len(h) PROVE h[i] = g[i]
    <3>1. (<<Prefix>> \o h)[i + 1] = h[i]
      BY <2>1
    <3>2. (<<Prefix>> \o g)[i + 1] = g[i]
      BY <2>1, <2>3
    <3> QED BY <2>2, <3>1, <3>2
  <2> QED BY <2>1, <2>3, <2>4
<1> QED BY <1>1, <1>2, <1>3, <1>4

-----------------------------------------------------------------------------
(* Calls and results. *)

(* What the handlers take from a call has the type they expect.            *)
LEMMA CallFields ==
  ASSUME NEW k \in Calls
  PROVE  /\ k.op \in {"put", "get", "wait", "delete", "contains"}
         /\ k.handle \in Handles
         /\ k.op = "put" => k.item \in Item
         /\ k.op \in {"get", "wait"} => k.req \in Request
BY CallsAssumption DEF Call

(* The step a client is at tells which operation it runs.                  *)
LEMMA StepsApart ==
  ASSUME NEW k \in Calls, NEW s \in StepsOf(k.op)
  PROVE  /\ s \in Steps
         /\ s \in {"put_meta", "put_data"} => k.op = "put"
         /\ s \in {"exists", "fetch", "poll"} => k.op \in {"get", "wait"}
         /\ s \in {"delete_data", "check_meta", "delete_meta"} => k.op = "delete"
         /\ s = "poll" => k.op = "wait"
         /\ s = "contains" => k.op = "contains"
BY CallFields DEF StepsOf, Steps

(* Reading gives a result, whatever the stored descriptor.                 *)
LEMMA AssembleTyped ==
  ASSUME NEW req \in Request, NEW desc \in Desc, NEW item \in Item
  PROVE  Assemble(req, desc, item) \in Outcome
<1>1. Decoded(req, desc) \in Desc
  <2>1. desc.dtype \in DTypes /\ desc.dims \in Seq(Nat)
    BY DEF Desc
  <2>2. req.dtype = AnyDType \/ req.dtype \in DTypes
    BY DEF Request
  <2>3. <<>> \in Seq(Nat)
    OBVIOUS
  <2> QED BY <2>1, <2>2, <2>3 DEF Decoded, Desc
<1>2. Fetched(Decoded(req, desc), item) \in Outcome
  BY <1>1 DEF Fetched, Outcome
<1>3. Status("RankMismatchError") \in Outcome /\ Status("DTypeMismatchError") \in Outcome
  BY DEF Status, Outcome, Errors
<1> QED BY <1>2, <1>3 DEF Assemble

(* Unpickling gives the object or an error.                                *)
LEMMA UnpickleTyped ==
  ASSUME NEW item \in Item
  PROVE  Unpickle(item) \in Outcome
<1>1. Fetched(Pickled, item) \in Outcome
  BY DEF Fetched, Outcome
<1>2. Status("UnpicklingError") \in Outcome
  BY DEF Status, Outcome, Errors
<1> QED BY <1>1, <1>2 DEF Unpickle

(* Every status without an item is a result.                               *)
LEMMA StatusTyped ==
  ASSUME NEW s \in Errors \cup {"pending", "done", "true", "false"}
  PROVE  Status(s) \in Outcome
BY DEF Status, Outcome

-----------------------------------------------------------------------------
(* Type correctness. *)

(* Where a client is in its call, and what it holds there.                 *)
AtStep(c) ==
  /\ pc[c] = "idle" => buffer[c] = None
  /\ pc[c] # "idle" => call[c] \in Calls /\ pc[c] \in StepsOf(call[c].op)
  /\ pc[c] = "put_meta" => call[c].item.desc # Pickled
  /\ buffer[c] # None =>
       pc[c] \in {"exists", "fetch"} /\ call[c].req.shape # "picklable"

IndTyped == TypeOK /\ \A c \in Clients : AtStep(c)

(* Every backend call keeps items under data keys and descriptors under    *)
(* metadata keys.                                                          *)
LEMMA EffectTyped ==
  ASSUME IndTyped, NEW c \in Clients, pc[c] # "idle"
  PROVE  StoreTypeOK(Effect(c))
<1> DEFINE h == H(c)
<1>1. /\ call[c] \in Calls /\ h \in Handles
      /\ pc[c] \in {"put_meta", "put_data"} => call[c].item \in Item
  BY CallFields, StepsApart DEF IndTyped, AtStep, H
<1>2. /\ DOMAIN store = Keys
      /\ \A g \in Handles : /\ store[Key(g)] \in Item \cup {None}
                            /\ store[MetadataKey(g)] \in Desc \cup {None}
  BY DEF IndTyped, TypeOK, StoreTypeOK
<1>3. ASSUME NEW b \in Item \cup {None}
      PROVE  StoreTypeOK([store EXCEPT ![Key(h)] = b])
  BY <1>1, <1>2, KeysApart DEF StoreTypeOK
<1>4. ASSUME NEW b \in Desc \cup {None}
      PROVE  StoreTypeOK([store EXCEPT ![MetadataKey(h)] = b])
  BY <1>1, <1>2, KeysApart DEF StoreTypeOK
<1>5. CASE pc[c] = "put_meta"
  <2>1. call[c].item.desc \in Desc
    BY <1>1, <1>5 DEF IndTyped, AtStep, Item
  <2>2. Stored(MetadataKey(h), call[c].item.desc) \in Desc \cup {None}
    BY <1>1, <1>2, <2>1 DEF Stored
  <2>3. Target(c) = MetadataKey(h) /\ Blob(c) = call[c].item.desc
    BY <1>1, <1>5, KeysApart DEF Target, Blob
  <2> QED BY <1>4, <1>5, <2>2, <2>3 DEF Effect
<1>6. CASE pc[c] = "put_data"
  <2>1. Stored(Key(h), call[c].item) \in Item \cup {None}
    BY <1>1, <1>2, <1>6 DEF Stored
  <2>2. Target(c) = Key(h) /\ Blob(c) = call[c].item
    BY <1>6 DEF Target, Blob
  <2> QED BY <1>3, <1>6, <2>1, <2>2 DEF Effect
<1>7. CASE pc[c] = "delete_data"
  BY <1>3, <1>7 DEF Effect, Target
<1>8. CASE pc[c] = "delete_meta"
  BY <1>4, <1>8 DEF Effect, Target
<1>9. CASE pc[c] \notin {"put_meta", "put_data", "delete_data", "delete_meta"}
  BY <1>2, <1>9 DEF Effect, StoreTypeOK
<1> QED BY <1>5, <1>6, <1>7, <1>8, <1>9

(* A call that returns leaves its client idle with a result and no buffer. *)
LEMMA FinishTyped ==
  ASSUME IndTyped, NEW c \in Clients, NEW o \in Outcome,
         StoreTypeOK(store'), Finish(c, o)
  PROVE  IndTyped'
<1>1. TypeOK'
  <2>1. pc' \in [Clients -> Steps \cup {"idle"}]
    BY DEF Finish, IndTyped, TypeOK
  <2>2. call' \in [Clients -> Calls \cup {None}] /\ outcome' \in [Clients -> Outcome]
    BY DEF Finish, IndTyped, TypeOK
  <2>3. buffer' \in [Clients -> Item \cup {None}]
    BY DEF Finish, IndTyped, TypeOK
  <2> QED BY <2>1, <2>2, <2>3 DEF TypeOK, StoreTypeOK
<1>2. ASSUME NEW d \in Clients PROVE AtStep(d)'
  <2>1. CASE d = c
    BY <2>1 DEF Finish, IndTyped, TypeOK, AtStep
  <2>2. CASE d # c
    BY <2>2 DEF Finish, IndTyped, TypeOK, AtStep
  <2> QED BY <2>1, <2>2
<1> QED BY <1>1, <1>2 DEF IndTyped

(* A call that goes on does so with a step of its operation.               *)
LEMMA GotoTyped ==
  ASSUME IndTyped, NEW c \in Clients, NEW s \in StepsOf(call[c].op),
         pc[c] # "idle", s # "put_meta", buffer[c] # None => s \in {"exists", "fetch"},
         StoreTypeOK(store'), Goto(c, s)
  PROVE  IndTyped'
<1>1. call[c] \in Calls /\ s \in Steps /\ s # "idle"
  BY StepsApart DEF IndTyped, AtStep, Steps
<1>2. TypeOK'
  BY <1>1 DEF Goto, IndTyped, TypeOK, StoreTypeOK
<1>3. ASSUME NEW d \in Clients PROVE AtStep(d)'
  BY <1>1 DEF Goto, IndTyped, TypeOK, AtStep
<1> QED BY <1>2, <1>3 DEF IndTyped

(* A call enters at a step of its operation.                               *)
LEMMA EntryTyped ==
  ASSUME NEW k \in Calls
  PROVE  /\ Entry(k) \in StepsOf(k.op)
         /\ Entry(k) # "idle"
         /\ Entry(k) = "put_meta" => k.item.desc # Pickled
BY CallFields DEF Entry, StepsOf, GetBytes, WaitForBytes

(* The types survive every step.                                           *)
LEMMA TypedStep == IndTyped /\ [Next]_vars => IndTyped'
<1> SUFFICES ASSUME IndTyped, [Next]_vars PROVE IndTyped'
  OBVIOUS
<1> USE DEF H
<1>1. ASSUME NEW c \in Clients, pc[c] # "idle"
      PROVE  /\ call[c] \in Calls /\ pc[c] \in StepsOf(call[c].op)
             /\ call[c].handle \in Handles
             /\ StoreTypeOK(store) /\ StoreTypeOK(Effect(c))
  BY <1>1, CallFields, EffectTyped DEF IndTyped, AtStep, TypeOK
<1>2. ASSUME NEW c \in Clients, NEW k \in Calls, Begin(c, k) PROVE IndTyped'
  <2>1. Entry(k) \in StepsOf(k.op) /\ Entry(k) \in Steps
    BY EntryTyped, StepsApart
  <2>2. Pending \in Outcome
    BY StatusTyped DEF Pending
  <2>3. TypeOK'
    BY <1>2, <2>1, <2>2 DEF Begin, IndTyped, TypeOK, StoreTypeOK
  <2>4. ASSUME NEW d \in Clients PROVE AtStep(d)'
    BY <1>2, EntryTyped DEF Begin, IndTyped, TypeOK, AtStep
  <2> QED BY <2>3, <2>4 DEF IndTyped
<1>3. ASSUME NEW c \in Clients, PutMetadata(c) PROVE IndTyped'
  <2>1. "put_data" \in StepsOf(call[c].op) /\ buffer[c] = None
    <3>1. pc[c] = "put_meta" /\ pc[c] # "idle"
      BY <1>3 DEF PutMetadata
    <3>2. "put_meta" \in StepsOf(call[c].op) /\ call[c].op = "put"
      BY <1>1, <3>1, StepsApart
    <3>3. buffer[c] = None
      BY <3>1 DEF IndTyped, AtStep
    <3> QED BY <3>2, <3>3 DEF StepsOf
  <2> QED BY <1>1, <1>3, <2>1, GotoTyped DEF PutMetadata
<1>4. ASSUME NEW c \in Clients, PutData(c) PROVE IndTyped'
  BY <1>1, <1>4, StatusTyped, FinishTyped DEF PutData, Done
<1>5. ASSUME NEW c \in Clients, Poll(c) PROVE IndTyped'
  <2>1. "fetch" \in StepsOf(call[c].op)
    BY <1>1, <1>5, StepsApart DEF Poll, StepsOf
  <2> QED BY <1>1, <1>5, <2>1, GotoTyped DEF Poll
<1>6. ASSUME NEW c \in Clients, TimeOut(c) PROVE IndTyped'
  BY <1>1, <1>6, StatusTyped, FinishTyped DEF TimeOut, Errors
<1>7. ASSUME NEW c \in Clients, Exists(c) PROVE IndTyped'
  <2>1. "fetch" \in StepsOf(call[c].op)
    BY <1>1, <1>7, StepsApart DEF Exists, StepsOf
  <2>2. Status("KeyNotFoundError") \in Outcome
    BY StatusTyped DEF Errors, NotFoundErrors
  <2> QED BY <1>1, <1>7, <2>1, <2>2, GotoTyped, FinishTyped DEF Exists
<1>8. ASSUME NEW c \in Clients, FetchData(c) PROVE IndTyped'
  <2>1. call[c].op \in {"get", "wait"} /\ call[c].req \in Request
    BY <1>1, <1>8, StepsApart, CallFields DEF FetchData
  <2>2. store[Key(call[c].handle)] \in Item
    BY <1>1, <1>8 DEF FetchData, FetchKey, StoreTypeOK
  <2>3. CASE call[c].req.shape = "picklable"
    BY <1>1, <1>8, <2>2, <2>3, UnpickleTyped, FinishTyped DEF FetchData, FetchKey
  <2>4. CASE call[c].req.shape # "picklable"
    <3>1. /\ buffer' = [buffer EXCEPT ![c] = store[Key(call[c].handle)]]
          /\ pc' = [pc EXCEPT ![c] = GetBytes]
          /\ UNCHANGED <<store, call, outcome>>
      BY <1>8, <2>4 DEF FetchData, FetchKey
    <3>2. GetBytes \in {"exists", "fetch"} /\ GetBytes \in StepsOf(call[c].op)
      BY <2>1 DEF GetBytes, StepsOf
    <3>3. TypeOK'
      BY <2>2, <3>1, <3>2 DEF IndTyped, TypeOK, StoreTypeOK, Steps
    <3>4. pc[c] # "idle"
      BY <1>8 DEF FetchData
    <3>5. ASSUME NEW d \in Clients PROVE AtStep(d)'
      BY <1>1, <2>4, <3>1, <3>2, <3>4 DEF IndTyped, TypeOK, AtStep
    <3> QED BY <3>3, <3>5 DEF IndTyped
  <2> QED BY <2>3, <2>4
<1>9. ASSUME NEW c \in Clients, FetchMetadata(c) PROVE IndTyped'
  <2>1. call[c].req \in Request
    BY <1>1, <1>9, StepsApart, CallFields DEF FetchMetadata
  <2>2. store[MetadataKey(call[c].handle)] \in Desc /\ buffer[c] \in Item
    BY <1>1, <1>9 DEF FetchMetadata, FetchKey, StoreTypeOK, IndTyped, TypeOK
  <2>3. Assemble(call[c].req, store[MetadataKey(call[c].handle)], buffer[c]) \in Outcome
    BY <2>1, <2>2, AssembleTyped
  <2> QED BY <1>1, <1>9, <2>3, FinishTyped DEF FetchMetadata, FetchKey
<1>10. ASSUME NEW c \in Clients, FetchMissing(c) PROVE IndTyped'
  <2>1. Status(IF Backend = "map" THEN "KeyNotFoundError" ELSE "StoreKeyError") \in Outcome
    BY StatusTyped DEF Errors, NotFoundErrors
  <2> QED BY <1>1, <1>10, <2>1, FinishTyped DEF FetchMissing
<1>11. ASSUME NEW c \in Clients, DeleteData(c) PROVE IndTyped'
  <2>1. "check_meta" \in StepsOf(call[c].op) /\ buffer[c] = None
    BY <1>1, <1>11, StepsApart DEF DeleteData, StepsOf, IndTyped, AtStep
  <2>2. Status("StoreKeyError") \in Outcome
    BY StatusTyped DEF Errors, NotFoundErrors
  <2> QED BY <1>1, <1>11, <2>1, <2>2, GotoTyped, FinishTyped DEF DeleteData
<1>12. ASSUME NEW c \in Clients, CheckMetadata(c) PROVE IndTyped'
  <2>1. "delete_meta" \in StepsOf(call[c].op) /\ buffer[c] = None
    BY <1>1, <1>12, StepsApart DEF CheckMetadata, StepsOf, IndTyped, AtStep
  <2> QED BY <1>1, <1>12, <2>1, StatusTyped, GotoTyped, FinishTyped
          DEF CheckMetadata, Done
<1>13. ASSUME NEW c \in Clients, DeleteMetadata(c) PROVE IndTyped'
  <2>1. Status("StoreKeyError") \in Outcome /\ Done \in Outcome
    BY StatusTyped DEF Errors, NotFoundErrors, Done
  <2> QED BY <1>1, <1>13, <2>1, FinishTyped DEF DeleteMetadata
<1>14. ASSUME NEW c \in Clients, Contains(c) PROVE IndTyped'
  BY <1>1, <1>14, StatusTyped, FinishTyped DEF Contains
<1>15. ASSUME NEW c \in Clients, Interrupt(c) PROVE IndTyped'
  <2>1. \A s \in Failures : Status(s) \in Outcome
    BY StatusTyped DEF Errors
  <2>2. StoreTypeOK(store')
    BY <1>1, <1>15 DEF Interrupt
  <2> QED BY <1>15, <2>1, <2>2, FinishTyped DEF Interrupt
<1>16. CASE UNCHANGED vars
  BY <1>16 DEF vars, IndTyped, TypeOK, StoreTypeOK, AtStep
<1> QED BY <1>2, <1>3, <1>4, <1>5, <1>6, <1>7, <1>8, <1>9, <1>10, <1>11, <1>12,
           <1>13, <1>14, <1>15, <1>16 DEF Next, Progress

(* The empty store and the idle clients are well typed.                    *)
LEMMA TypedInit == Init => IndTyped
<1> SUFFICES ASSUME Init PROVE IndTyped
  OBVIOUS
<1>1. StoreTypeOK(store)
  BY KeysApart DEF Init, StoreTypeOK
<1>2. Pending \in Outcome
  BY StatusTyped DEF Pending
<1> QED BY <1>1, <1>2 DEF Init, IndTyped, TypeOK, AtStep

(* The inductive invariant of the types holds in every run.                *)
LEMMA TypedAlways == Spec => []IndTyped
BY TypedInit, TypedStep, PTL DEF Spec

(* Data keys hold items, metadata keys hold descriptors, readers hold      *)
(* whole items, and every call ends with a result of its operation.        *)
THEOREM TypeCorrect == Spec => []TypeOK
<1>1. IndTyped => TypeOK
  BY DEF IndTyped
<1> QED BY <1>1, TypedAlways, PTL

-----------------------------------------------------------------------------
(* What one step can do. *)

(* A step of a running call: at most one backend call takes effect, and    *)
(* the client moves on only after it.                                      *)
CallStep(c) ==
  /\ pc[c] # "idle"
  /\ call' = call
  /\ store' \in {store, Effect(c)}
  /\ pc'[c] # "put_meta"
  /\ pc'[c] = "put_data" => pc[c] = "put_meta" /\ store' = Effect(c)
  /\ pc'[c] = "check_meta" => pc[c] = "delete_data" /\ store' = Effect(c)
  /\ pc'[c] = "delete_meta" => pc[c] = "check_meta" /\ store' = store
  /\ \A d \in Clients \ {c} : /\ pc'[d] = pc[d]
                             /\ buffer'[d] = buffer[d]
                             /\ outcome'[d] = outcome[d]

(* Every action of a running call is such a step.                          *)
LEMMA CallSteps ==
  ASSUME IndTyped, NEW c \in Clients,
         Progress(c) \/ TimeOut(c) \/ FetchMissing(c) \/ Interrupt(c)
  PROVE  CallStep(c)
<1> DEFINE Others == \A d \in Clients \ {c} : /\ pc'[d] = pc[d]
                                            /\ buffer'[d] = buffer[d]
                                            /\ outcome'[d] = outcome[d]
<1>1. /\ pc \in [Clients -> Steps \cup {"idle"}]
      /\ buffer \in [Clients -> Item \cup {None}]
      /\ outcome \in [Clients -> Outcome]
  BY DEF IndTyped, TypeOK
<1>2. ASSUME NEW s, Goto(c, s) PROVE pc'[c] = s /\ call' = call /\ Others
  BY <1>1, <1>2 DEF Goto
<1>3. ASSUME NEW o, Finish(c, o) PROVE pc'[c] = "idle" /\ call' = call /\ Others
  BY <1>1, <1>3 DEF Finish
<1> HIDE DEF Others
<1>4. CASE PutMetadata(c)
  BY <1>2, <1>4 DEF CallStep, Others, PutMetadata
<1>5. CASE PutData(c)
  BY <1>3, <1>5 DEF CallStep, Others, PutData
<1>6. CASE Poll(c) \/ TimeOut(c) \/ Exists(c)
  BY <1>2, <1>3, <1>6 DEF CallStep, Others, Poll, TimeOut, Exists
<1>7. CASE FetchData(c)
  <2>1. CASE call[c].req.shape = "picklable"
    BY <1>3, <1>7, <2>1 DEF CallStep, Others, FetchData
  <2>2. CASE call[c].req.shape # "picklable"
    BY <1>1, <1>7, <2>2 DEF CallStep, FetchData, GetBytes
  <2> QED BY <2>1, <2>2
<1>8. CASE FetchMetadata(c) \/ FetchMissing(c)
  BY <1>3, <1>8 DEF CallStep, Others, FetchMetadata, FetchMissing
<1>9. CASE DeleteData(c) \/ CheckMetadata(c) \/ DeleteMetadata(c)
  BY <1>2, <1>3, <1>9
     DEF CallStep, Others, DeleteData, CheckMetadata, DeleteMetadata
<1>10. CASE Contains(c) \/ Interrupt(c)
  BY <1>3, <1>10 DEF CallStep, Others, Contains, Interrupt
<1> QED BY <1>4, <1>5, <1>6, <1>7, <1>8, <1>9, <1>10 DEF Progress

(* A step is the beginning of a call, a step of one, or a stutter.         *)
LEMMA StepCases ==
  ASSUME IndTyped, [Next]_vars
  PROVE  \/ \E c \in Clients, k \in Calls : Begin(c, k)
         \/ \E c \in Clients : CallStep(c)
         \/ UNCHANGED vars
BY CallSteps DEF Next

(* The keys of a handle after a backend call, by the step that made it.    *)
LEMMA EffectOnKeys ==
  ASSUME IndTyped, NEW c \in Clients, pc[c] # "idle", NEW h \in Handles
  PROVE  /\ Effect(c)[Key(h)] =
              IF h # H(c) THEN store[Key(h)]
              ELSE IF pc[c] = "put_data" THEN Stored(Key(h), call[c].item)
              ELSE IF pc[c] = "delete_data" THEN None
              ELSE store[Key(h)]
         /\ Effect(c)[MetadataKey(h)] =
              IF h # H(c) THEN store[MetadataKey(h)]
              ELSE IF pc[c] = "put_meta" THEN Stored(MetadataKey(h), call[c].item.desc)
              ELSE IF pc[c] = "delete_meta" THEN None
              ELSE store[MetadataKey(h)]
<1>1. H(c) \in Handles /\ DOMAIN store = Keys
  BY CallFields DEF IndTyped, AtStep, TypeOK, StoreTypeOK, H
<1>2. CASE pc[c] \in {"put_meta", "delete_meta"}
  BY <1>1, <1>2, KeysApart DEF Effect, Target, Blob
<1>3. CASE pc[c] \in {"put_data", "delete_data"}
  BY <1>1, <1>3, KeysApart DEF Effect, Target, Blob
<1>4. CASE pc[c] \notin {"put_meta", "delete_meta", "put_data", "delete_data"}
  BY <1>4 DEF Effect
<1> QED BY <1>2, <1>3, <1>4

(* What a put is about to write is something, with a known descriptor.     *)
LEMMA PutFacts ==
  ASSUME IndTyped, NEW c \in Clients, pc[c] \in {"put_meta", "put_data"}
  PROVE  /\ call[c] \in Calls /\ call[c].op = "put" /\ H(c) \in Handles
         /\ call[c].item \in Item /\ call[c].item # None
         /\ pc[c] = "put_meta" => call[c].item.desc \in Desc /\ call[c].item.desc # None
<1>1. /\ call[c] \in Calls /\ call[c].op = "put" /\ H(c) \in Handles
      /\ call[c].item \in Item
  BY StepsApart, CallFields DEF IndTyped, AtStep, H
<1>2. pc[c] = "put_meta" => call[c].item.desc \in Desc
  BY <1>1 DEF IndTyped, AtStep, Item
<1> QED BY <1>1, <1>2, NoneAssumption

-----------------------------------------------------------------------------
(* Puts and deletes. *)

(* Nobody puts a handle while another client deletes it.                   *)
Serial ==
  \A c, d \in Clients :
    pc[c] # "idle" /\ pc[d] # "idle" /\ H(c) = H(d)
      => ~(call[c].op = "put" /\ call[d].op = "delete")

(* A typed put that has come to its data has its metadata in the store.    *)
PutReady ==
  \A c \in Clients :
    pc[c] = "put_data" /\ call[c].item.desc # Pickled
      => store[MetadataKey(H(c))] # None

(* A delete that has come to the metadata has removed the data.            *)
DeleteReady ==
  \A c \in Clients :
    pc[c] \in {"check_meta", "delete_meta"} => store[Key(H(c))] = None

(* DataHasMetadata is not inductive alone: a put about to write the data   *)
(* needs PutReady, a delete about to remove the metadata DeleteReady, and  *)
(* both rest on Serial.                                                    *)
IndPairs == IndTyped /\ Serial /\ PutReady /\ DeleteReady /\ DataHasMetadata

(* The application's discipline keeps puts and deletes of a handle apart.  *)
LEMMA SerialStep ==
  ASSUME SerialDeletes, IndTyped, Serial, [Next]_vars
  PROVE  Serial'
<1>1. ASSUME NEW e \in Clients, NEW k \in Calls, Begin(e, k) PROVE Serial'
  <2> SUFFICES ASSUME NEW c \in Clients, NEW d \in Clients,
                      pc'[c] # "idle", pc'[d] # "idle", H(c)' = H(d)',
                      call'[c].op = "put", call'[d].op = "delete"
               PROVE  FALSE
    BY DEF Serial
  <2>1. /\ pc' = [pc EXCEPT ![e] = Entry(k)] /\ call' = [call EXCEPT ![e] = k]
        /\ pc \in [Clients -> Steps \cup {"idle"}]
        /\ call \in [Clients -> Calls \cup {None}]
    BY <1>1 DEF Begin, IndTyped, TypeOK
  <2>2. CASE c # e /\ d # e
    BY <2>1, <2>2 DEF Serial, H
  <2>3. CASE c = e \/ d = e
    <3>1. \A f \in Clients :
            pc[f] # "idle" /\ H(f) = k.handle => {call[f].op, k.op} # {"put", "delete"}
      BY <1>1 DEF Begin, Admissible
    <3> QED BY <2>1, <2>3, <3>1 DEF H
  <2> QED BY <2>2, <2>3
<1>2. ASSUME NEW e \in Clients, CallStep(e) PROVE Serial'
  BY <1>2 DEF CallStep, Serial, H
<1>3. CASE UNCHANGED vars
  BY <1>3 DEF vars, Serial, H
<1> QED BY <1>1, <1>2, <1>3, StepCases

(* The invariant survives the backend call of a running operation.         *)
LEMMA PairsCallStep ==
  ASSUME IndPairs, NEW e \in Clients, CallStep(e)
  PROVE  PutReady' /\ DeleteReady' /\ DataHasMetadata'
<1>1. /\ pc[e] # "idle" /\ H(e) \in Handles
      /\ \A c \in Clients : pc[c] # "idle" =>
           H(c) \in Handles /\ call[c] \in Calls /\ pc[c] \in StepsOf(call[c].op)
  BY CallFields DEF CallStep, IndPairs, IndTyped, AtStep, H
<1>2. \A c \in Clients : H(c)' = H(c) /\ (c # e => pc'[c] = pc[c])
  BY DEF CallStep, H
<1>3. \A c \in Clients :
        /\ pc[c] \in {"put_meta", "put_data"} => call[c].op = "put"
        /\ pc[c] \in {"delete_data", "check_meta", "delete_meta"} => call[c].op = "delete"
  BY <1>1, StepsApart DEF Steps
<1>4. PutReady'
  <2> SUFFICES ASSUME NEW c \in Clients, pc'[c] = "put_data",
                      call[c].item.desc # Pickled
               PROVE  store'[MetadataKey(H(c))] # None
    BY <1>2 DEF CallStep, PutReady
  <2>1. pc[c] \in {"put_meta", "put_data"}
    BY <1>2 DEF CallStep
  <2>2. call[c].op = "put" /\ H(c) \in Handles
    BY <1>1, <1>3, <2>1
  <2>3. CASE c = e
    <3>1. pc[e] = "put_meta" /\ store' = Effect(e)
      BY <2>3 DEF CallStep
    <3>2. store'[MetadataKey(H(e))] = Stored(MetadataKey(H(e)), call[e].item.desc)
      BY <1>1, <3>1, EffectOnKeys DEF IndPairs
    <3>3. call[e].item.desc # None
      BY <3>1, PutFacts DEF IndPairs
    <3> QED BY <2>3, <3>2, <3>3 DEF Stored
  <2>4. CASE c # e
    <3>1. store[MetadataKey(H(c))] # None
      BY <1>2, <2>4 DEF IndPairs, PutReady
    <3>2. ~(pc[e] = "delete_meta" /\ H(e) = H(c))
      BY <1>1, <1>3, <2>1, <2>2 DEF IndPairs, Serial
    <3>3. pc[e] = "put_meta" => call[e].item.desc # None
      BY PutFacts DEF IndPairs
    <3> QED BY <1>1, <2>2, <3>1, <3>2, <3>3, EffectOnKeys
            DEF CallStep, IndPairs, Stored
  <2> QED BY <2>3, <2>4
<1>5. DeleteReady'
  <2> SUFFICES ASSUME NEW c \in Clients, pc'[c] \in {"check_meta", "delete_meta"}
               PROVE  store'[Key(H(c))] = None
    BY <1>2 DEF CallStep, DeleteReady
  <2>1. pc[c] \in {"delete_data", "check_meta", "delete_meta"}
    BY <1>2 DEF CallStep
  <2>2. call[c].op = "delete" /\ H(c) \in Handles
    BY <1>1, <1>3, <2>1
  <2>3. CASE c = e
    <3>1. \/ pc[e] = "delete_data" /\ store' = Effect(e)
          \/ pc[e] = "check_meta" /\ store' = store
      BY <2>3 DEF CallStep
    <3> QED BY <1>1, <2>3, <3>1, EffectOnKeys DEF IndPairs, DeleteReady
  <2>4. CASE c # e
    <3>1. store[Key(H(c))] = None
      BY <1>2, <2>4 DEF IndPairs, DeleteReady
    <3>2. ~(pc[e] = "put_data" /\ H(e) = H(c))
      BY <1>1, <1>3, <2>1, <2>2 DEF IndPairs, Serial
    <3> QED BY <1>1, <2>2, <3>1, <3>2, EffectOnKeys DEF CallStep, IndPairs
  <2> QED BY <2>3, <2>4
<1>6. DataHasMetadata'
  <2> SUFFICES ASSUME NEW h \in Handles, store'[Key(h)] # None,
                      store'[Key(h)].desc # Pickled
               PROVE  store'[MetadataKey(h)] # None
    BY DEF DataHasMetadata
  <2>1. CASE store' = store
    BY <2>1 DEF IndPairs, DataHasMetadata
  <2>2. CASE store' = Effect(e) /\ h # H(e)
    BY <1>1, <2>2, EffectOnKeys DEF IndPairs, DataHasMetadata
  <2>3. CASE store' = Effect(e) /\ h = H(e) /\ pc[e] = "put_data"
    <3>1. store'[MetadataKey(h)] = store[MetadataKey(h)]
      BY <1>1, <2>3, EffectOnKeys DEF IndPairs
    <3>2. store'[Key(h)] \in {store[Key(h)], call[e].item}
      BY <1>1, <2>3, EffectOnKeys DEF IndPairs, Stored
    <3>3. CASE store'[Key(h)] = store[Key(h)]
      BY <3>1, <3>3 DEF IndPairs, DataHasMetadata
    <3>4. CASE store'[Key(h)] = call[e].item
      BY <2>3, <3>1, <3>4 DEF IndPairs, PutReady
    <3> QED BY <3>2, <3>3, <3>4
  <2>4. CASE store' = Effect(e) /\ h = H(e) /\ pc[e] = "put_meta"
    BY <1>1, <2>4, EffectOnKeys, PutFacts DEF IndPairs, Stored
  <2>5. CASE store' = Effect(e) /\ h = H(e) /\ pc[e] \in {"delete_data", "delete_meta"}
    BY <1>1, <2>5, EffectOnKeys DEF IndPairs, DeleteReady
  <2>6. CASE /\ store' = Effect(e)
             /\ pc[e] \notin {"put_meta", "put_data", "delete_data", "delete_meta"}
    BY <1>1, <2>6 DEF Effect, IndPairs, DataHasMetadata
  <2> QED BY <2>1, <2>2, <2>3, <2>4, <2>5, <2>6 DEF CallStep
<1> QED BY <1>4, <1>5, <1>6

(* The pairing of data and metadata survives every step.                   *)
LEMMA PairsStep ==
  ASSUME SerialDeletes, IndPairs, [Next]_vars
  PROVE  IndPairs'
<1>1. IndTyped' /\ Serial'
  BY TypedStep, SerialStep DEF IndPairs
<1>2. ASSUME NEW e \in Clients, NEW k \in Calls, Begin(e, k)
      PROVE  IndPairs'
  <2>1. /\ pc' = [pc EXCEPT ![e] = Entry(k)] /\ call' = [call EXCEPT ![e] = k]
        /\ store' = store
        /\ pc \in [Clients -> Steps \cup {"idle"}]
        /\ call \in [Clients -> Calls \cup {None}]
    BY <1>2 DEF Begin, IndPairs, IndTyped, TypeOK
  <2>2. /\ Entry(k) = "put_data" => k.item.desc = Pickled
        /\ Entry(k) \notin {"check_meta", "delete_meta"}
    BY CallFields DEF Entry, GetBytes, WaitForBytes
  <2>3. PutReady' /\ DeleteReady' /\ DataHasMetadata'
    BY <2>1, <2>2 DEF IndPairs, PutReady, DeleteReady, DataHasMetadata, H
  <2> QED BY <1>1, <2>3 DEF IndPairs
<1>3. ASSUME NEW e \in Clients, CallStep(e)
      PROVE  IndPairs'
  <2>1. PutReady' /\ DeleteReady' /\ DataHasMetadata'
    BY <1>3, PairsCallStep
  <2> QED BY <1>1, <2>1 DEF IndPairs
<1>4. CASE UNCHANGED vars
  <2>1. PutReady' /\ DeleteReady'
    BY <1>4 DEF vars, IndPairs, PutReady, DeleteReady, H
  <2>2. DataHasMetadata'
    BY <1>4 DEF vars, IndPairs, DataHasMetadata
  <2> QED BY <1>1, <2>1, <2>2 DEF IndPairs
<1>5. IndTyped
  BY DEF IndPairs
<1> QED BY <1>2, <1>3, <1>4, <1>5, StepCases

(* The pairing of data and metadata holds in every run.                    *)
LEMMA PairsAlways == ASSUME SerialDeletes PROVE Spec => []IndPairs
<1>1. Init => IndPairs
  BY TypedInit, KeysApart
     DEF Init, IndPairs, Serial, PutReady, DeleteReady, DataHasMetadata
<1>2. IndPairs /\ [Next]_vars => IndPairs'
  BY PairsStep
<1> QED BY <1>1, <1>2, PTL DEF Spec

(* If no handle is put and deleted at the same time, a typed item in the   *)
(* store always has its metadata, whatever the clients write and wherever  *)
(* they fail.                                                              *)
THEOREM DataAlwaysHasMetadata ==
  ASSUME SerialDeletes PROVE Spec => []DataHasMetadata
<1>1. IndPairs => DataHasMetadata
  BY DEF IndPairs
<1> QED BY <1>1, PairsAlways, PTL

(* Under the same discipline delete_item leaves neither key behind when it *)
(* returns.                                                                *)
THEOREM DeletesAreComplete ==
  ASSUME SerialDeletes PROVE Spec => DeleteLeavesNothing
<1> DEFINE A == \A c \in Clients :
                  pc[c] \in StepsOf("delete") /\ pc'[c] = "idle" /\ outcome'[c] = Done
                    => /\ store'[Key(H(c))] = None
                       /\ store'[MetadataKey(H(c))] = None
<1>1. ASSUME IndPairs, [Next]_vars PROVE A
  <2> SUFFICES ASSUME NEW c \in Clients,
                      pc[c] \in {"delete_data", "check_meta", "delete_meta"},
                      pc'[c] = "idle", outcome'[c] = Done
               PROVE  store'[Key(H(c))] = None /\ store'[MetadataKey(H(c))] = None
    BY DEF StepsOf
  <2>1. IndTyped /\ H(c) \in Handles /\ c \in DOMAIN outcome /\ c \in DOMAIN pc
    <3>1. pc[c] # "idle" /\ IndTyped
      BY <1>1 DEF IndPairs
    <3>2. call[c] \in Calls
      BY <3>1 DEF IndTyped, AtStep
    <3>3. c \in DOMAIN outcome /\ c \in DOMAIN pc
      BY <3>1 DEF IndTyped, TypeOK
    <3> QED BY <3>1, <3>2, <3>3, CallFields DEF H
  <2>2. ASSUME NEW o, Finish(c, o) PROVE o = Done
    BY <2>1, <2>2 DEF Finish
  <2>3. Status("StoreKeyError") # Done /\ \A s \in Failures : Status(s) # Done
    BY DEF Status, Done, Failures
  <2>4. \/ CheckMetadata(c) /\ store[MetadataKey(H(c))] = None
        \/ DeleteMetadata(c)
    <3>1. Next
      <4>1. ~ UNCHANGED vars
        BY DEF vars
      <4> QED BY <1>1, <4>1
    <3>2. ~ \E d \in Clients, k \in Calls : Begin(d, k)
      BY <2>1 DEF Begin, IndPairs, IndTyped, TypeOK
    <3>3. PICK d \in Clients : Progress(d) \/ TimeOut(d) \/ FetchMissing(d) \/ Interrupt(d)
      BY <3>1, <3>2 DEF Next
    <3>4. d = c
      <4>1. CallStep(d)
        BY <2>1, <3>3, CallSteps
      <4> QED BY <4>1 DEF CallStep
    <3>5. ~ Interrupt(c)
      BY <2>2, <2>3 DEF Interrupt
    <3>6. ~ DeleteData(c)
      BY <2>1, <2>2, <2>3 DEF DeleteData, Goto
    <3>7. CheckMetadata(c) => store[MetadataKey(H(c))] = None
      BY <2>1 DEF CheckMetadata, Goto
    <3> QED BY <3>3, <3>4, <3>5, <3>6, <3>7
            DEF Progress, PutMetadata, PutData, Poll, Exists, FetchData,
                FetchMetadata, Contains, TimeOut, FetchMissing
  <2>5. store[Key(H(c))] = None
    BY <1>1, <2>4 DEF CheckMetadata, DeleteMetadata, IndPairs, DeleteReady
  <2>6. CASE CheckMetadata(c) /\ store[MetadataKey(H(c))] = None
    BY <2>5, <2>6 DEF CheckMetadata
  <2>7. CASE DeleteMetadata(c)
    <3>1. pc[c] = "delete_meta" /\ store' = Effect(c)
      BY <2>7 DEF DeleteMetadata
    <3>2. /\ Effect(c)[Key(H(c))] = store[Key(H(c))]
          /\ Effect(c)[MetadataKey(H(c))] = None
      BY <2>1, <3>1, EffectOnKeys
    <3> QED BY <2>5, <3>1, <3>2
  <2> QED BY <2>4, <2>6, <2>7
<1>2. IndPairs /\ [Next]_vars => [A]_vars
  BY <1>1
<1>3. Spec => [][A]_vars
  BY <1>2, PairsAlways, PTL DEF Spec
<1> QED BY <1>3 DEF DeleteLeavesNothing

-----------------------------------------------------------------------------
(* What was put under a handle. *)

(* The descriptors that the calls put under h: one if Homogeneous.         *)
PutDescs(h) == {k.item.desc : k \in {j \in Calls : j.op = "put" /\ j.handle = h}}

(* Items, metadata and the data readers hold were all put under the handle *)
(* they are found at.                                                      *)
Recorded ==
  /\ \A h \in Handles :
       /\ store[Key(h)] # None => store[Key(h)].desc \in PutDescs(h)
       /\ store[MetadataKey(h)] # None => store[MetadataKey(h)] \in PutDescs(h)
  /\ \A c \in Clients : buffer[c] # None => buffer[c].desc \in PutDescs(H(c))

IndRecorded == IndTyped /\ Recorded

(* A homogeneous handle has one descriptor.                                *)
LEMMA OneDesc ==
  ASSUME Homogeneous, NEW h \in Handles, NEW d \in PutDescs(h), NEW e \in PutDescs(h)
  PROVE  d = e
BY DEF Homogeneous, PutDescs

(* Data decoded with its own descriptor is whole.                          *)
LEMMA AssembleWhole ==
  ASSUME NEW req \in Request, NEW item \in Item, item.desc \in Desc
  PROVE  LET o == Assemble(req, item.desc, item)
         IN  o.status = "ok" => o.desc = o.item.desc
<1> DEFINE desc == item.desc
<1>1. desc = [dtype |-> desc.dtype, dims |-> desc.dims]
  BY DEF Desc
<1>2. CASE (req.shape = "scalar") # IsScalar(desc)
  BY <1>2 DEF Assemble, Status
<1>3. CASE (req.shape = "scalar") = IsScalar(desc) /\ req.dtype \notin {AnyDType, desc.dtype}
  BY <1>3 DEF Assemble, Status
<1>4. CASE (req.shape = "scalar") = IsScalar(desc) /\ req.dtype \in {AnyDType, desc.dtype}
  <2>1. Decoded(req, desc) = [dtype |-> desc.dtype, dims |-> desc.dims]
    BY <1>4 DEF Decoded, IsScalar
  <2> QED BY <1>1, <1>4, <2>1 DEF Assemble, Fetched
<1> QED BY <1>2, <1>3, <1>4

(* Only the first fetch fills a buffer; only the second fetch, or the      *)
(* first of a picklable read, gives a result with an item.                 *)
LEMMA BareSteps ==
  ASSUME IndTyped, NEW c \in Clients,
         Progress(c) \/ TimeOut(c) \/ FetchMissing(c) \/ Interrupt(c),
         ~ FetchData(c), ~ FetchMetadata(c)
  PROVE  /\ buffer'[c] \in {buffer[c], None}
         /\ outcome'[c] = outcome[c] \/ outcome'[c].status # "ok"
<1>1. /\ buffer \in [Clients -> Item \cup {None}]
      /\ outcome \in [Clients -> Outcome]
  BY DEF IndTyped, TypeOK
<1>2. ASSUME NEW s, Goto(c, s)
      PROVE  buffer'[c] = buffer[c] /\ outcome'[c] = outcome[c]
  BY <1>2 DEF Goto
<1>3. ASSUME NEW s, s # "ok", Finish(c, Status(s))
      PROVE  buffer'[c] = None /\ outcome'[c].status # "ok"
  BY <1>1, <1>3 DEF Finish, Status
<1>4. CASE PutMetadata(c) \/ PutData(c)
  BY <1>2, <1>3, <1>4 DEF PutMetadata, PutData, Done
<1>5. CASE Poll(c) \/ TimeOut(c) \/ Exists(c)
  BY <1>2, <1>3, <1>5 DEF Poll, TimeOut, Exists
<1>6. CASE FetchMissing(c)
  <2>1. PICK s \in {"KeyNotFoundError", "StoreKeyError"} : Finish(c, Status(s))
    BY <1>6 DEF FetchMissing
  <2> QED BY <1>3, <2>1
<1>7. CASE DeleteData(c) \/ CheckMetadata(c) \/ DeleteMetadata(c)
  BY <1>2, <1>3, <1>7 DEF DeleteData, CheckMetadata, DeleteMetadata, Done
<1>8. CASE Contains(c)
  <2>1. PICK s \in {"true", "false"} : Finish(c, Status(s))
    BY <1>8 DEF Contains
  <2> QED BY <1>3, <2>1
<1>9. CASE Interrupt(c)
  BY <1>3, <1>9 DEF Interrupt, Failures
<1> QED BY <1>4, <1>5, <1>6, <1>7, <1>8, <1>9 DEF Progress

(* A backend call stores only what was put under the handle.               *)
LEMMA RecordedStore ==
  ASSUME IndTyped, Recorded, NEW e \in Clients, CallStep(e), NEW h \in Handles
  PROVE  /\ store'[Key(h)] # None => store'[Key(h)].desc \in PutDescs(h)
         /\ store'[MetadataKey(h)] # None => store'[MetadataKey(h)] \in PutDescs(h)
<1>1. pc[e] # "idle"
  BY DEF CallStep
<1>2. CASE store' = store
  BY <1>2 DEF Recorded
<1>3. CASE store' = Effect(e) /\ pc[e] \in {"put_meta", "put_data"}
  <2>1. call[e].item.desc \in PutDescs(H(e))
    BY <1>3, PutFacts DEF PutDescs, H
  <2> QED BY <1>1, <1>3, <2>1, EffectOnKeys DEF Recorded, Stored
<1>4. CASE store' = Effect(e) /\ pc[e] \notin {"put_meta", "put_data"}
  BY <1>1, <1>4, EffectOnKeys DEF Recorded
<1> QED BY <1>2, <1>3, <1>4 DEF CallStep

(* Every step keeps the record.                                            *)
LEMMA RecordedStep ==
  ASSUME IndRecorded, [Next]_vars
  PROVE  IndRecorded'
<1>1. IndTyped /\ IndTyped'
  BY TypedStep DEF IndRecorded
<1>2. /\ buffer \in [Clients -> Item \cup {None}]
      /\ call \in [Clients -> Calls \cup {None}]
  BY <1>1 DEF IndTyped, TypeOK
<1>3. ASSUME NEW e \in Clients, NEW k \in Calls, Begin(e, k) PROVE IndRecorded'
  <2>1. /\ store' = store /\ buffer' = buffer /\ buffer[e] = None
        /\ call' = [call EXCEPT ![e] = k]
    BY <1>1, <1>3 DEF Begin, IndTyped, AtStep
  <2> QED BY <1>1, <1>2, <2>1 DEF IndRecorded, Recorded, H
<1>4. ASSUME NEW e \in Clients,
             Progress(e) \/ TimeOut(e) \/ FetchMissing(e) \/ Interrupt(e)
      PROVE  IndRecorded'
  <2>1. CallStep(e)
    BY <1>1, <1>4, CallSteps
  <2>2. \A c \in Clients : H(c)' = H(c)
    BY <2>1 DEF CallStep, H
  <2>3. \A h \in Handles :
          /\ store'[Key(h)] # None => store'[Key(h)].desc \in PutDescs(h)
          /\ store'[MetadataKey(h)] # None => store'[MetadataKey(h)] \in PutDescs(h)
    BY <1>1, <2>1, RecordedStore DEF IndRecorded
  <2>4. buffer'[e] # None => buffer'[e].desc \in PutDescs(H(e))
    <3>1. buffer[e] # None => buffer[e].desc \in PutDescs(H(e))
      BY DEF IndRecorded, Recorded
    <3>2. H(e) \in Handles
      BY <1>1, <2>1, CallFields DEF CallStep, IndTyped, AtStep, H
    <3>3. CASE FetchData(e)
      <4>1. store[Key(H(e))].desc \in PutDescs(H(e))
        BY <3>2, <3>3 DEF FetchData, FetchKey, IndRecorded, Recorded
      <4> QED BY <1>2, <3>1, <3>3, <4>1 DEF FetchData, FetchKey, Finish
    <3>4. CASE FetchMetadata(e)
      BY <1>2, <3>4 DEF FetchMetadata, Finish
    <3>5. CASE ~ FetchData(e) /\ ~ FetchMetadata(e)
      BY <1>1, <1>4, <3>1, <3>5, BareSteps
    <3> QED BY <3>3, <3>4, <3>5
  <2>5. \A c \in Clients \ {e} : buffer'[c] = buffer[c]
    BY <2>1 DEF CallStep
  <2>6. Recorded'
    BY <2>2, <2>3, <2>4, <2>5 DEF Recorded, IndRecorded
  <2> QED BY <1>1, <2>6 DEF IndRecorded
<1>5. CASE UNCHANGED vars
  BY <1>1, <1>5 DEF vars, IndRecorded, Recorded, H
<1> QED BY <1>3, <1>4, <1>5 DEF Next

(* The record is kept in every run.                                        *)
LEMMA RecordedAlways == Spec => []IndRecorded
<1>1. Init => IndRecorded
  BY TypedInit, KeysApart DEF Init, IndRecorded, Recorded
<1>2. IndRecorded /\ [Next]_vars => IndRecorded'
  BY RecordedStep
<1> QED BY <1>1, <1>2, PTL DEF Spec

-----------------------------------------------------------------------------
(* The exchange layer implements the store of whole items: every backend   *)
(* call of a client is a step of ItemStore or changes nothing there.       *)

(* A full buffer is a call that reads; only Dragon asks contains in a get, *)
(* and a reader of pickled bytes never gets past it.                       *)
Reading(c) ==
  /\ pc[c] = "exists" => Backend = "dragon"
  /\ pc[c] = "fetch" /\ buffer[c] # None /\ buffer[c].desc = Pickled
       => Backend # "dragon"

IndRefines == IndPairs /\ IndRecorded /\ \A c \in Clients : Reading(c)

(* The mapping of a step: only the result of the client that moves changes.*)
LEMMA SeenByOthers ==
  ASSUME NEW e \in Clients, CallStep(e), NEW c \in Clients, c # e
  PROVE  Seen(c)' = Seen(c)
BY DEF CallStep, Seen, AbstractAnswer

(* A step of a call resolves it in ItemStore as its result is seen.        *)
LEMMA Resolves ==
  ASSUME NEW e \in Clients, CallStep(e), NEW o, NEW more \in BOOLEAN,
         Seen(e)' = o, (pc'[e] # "idle") = more
  PROVE  Abstract!Resolve(e, o, more)
<1>1. AbstractOut' = [AbstractOut EXCEPT ![e] = o]
  <2>1. AbstractOut = [c \in Clients |-> Seen(c)]
    BY DEF AbstractOut
  <2>2. AbstractOut' = [c \in Clients |-> Seen(c)']
    BY DEF AbstractOut
  <2> QED BY <2>1, <2>2, SeenByOthers
<1>2. [c \in Clients |-> pc[c] # "idle"]'
        = [[c \in Clients |-> pc[c] # "idle"] EXCEPT ![e] = more]
  BY DEF CallStep
<1>3. UNCHANGED call
  BY DEF CallStep
<1> QED BY <1>1, <1>2, <1>3 DEF Abstract!Resolve

(* A step of a call that changes no item and no result is a stutter.       *)
LEMMA Unseen ==
  ASSUME NEW e \in Clients, CallStep(e), Seen(e)' = Seen(e), pc'[e] # "idle",
         [h \in Handles |-> store[Key(h)]]' = [h \in Handles |-> store[Key(h)]]
  PROVE  UNCHANGED Abstract!storeVars
<1>1. AbstractOut' = AbstractOut
  <2>1. AbstractOut' = [c \in Clients |-> Seen(c)']
    BY DEF AbstractOut
  <2> QED BY <2>1, SeenByOthers DEF AbstractOut
<1>2. [c \in Clients |-> pc[c] # "idle"]' = [c \in Clients |-> pc[c] # "idle"]
  BY DEF CallStep
<1> QED BY <1>1, <1>2 DEF CallStep, Abstract!storeVars

(* The items after a backend call: the effect on the data key, if any.     *)
LEMMA ItemsAfter ==
  ASSUME IndTyped, Backend # "map", NEW e \in Clients, pc[e] # "idle"
  PROVE  LET before == [h \in Handles |-> store[Key(h)]]
             after  == [h \in Handles |-> Effect(e)[Key(h)]]
         IN  /\ pc[e] = "put_data" => after = [before EXCEPT ![H(e)] = call[e].item]
             /\ pc[e] = "delete_data" => after = [before EXCEPT ![H(e)] = None]
             /\ pc[e] \notin {"put_data", "delete_data"} => after = before
<1>1. \A h \in Handles :
        Effect(e)[Key(h)] = IF h # H(e) THEN store[Key(h)]
                            ELSE IF pc[e] = "put_data" THEN call[e].item
                            ELSE IF pc[e] = "delete_data" THEN None
                            ELSE store[Key(h)]
  BY EffectOnKeys DEF Stored
<1> QED BY <1>1

(* What ItemStore answers from an item is what the implementation makes of *)
(* the data it holds.                                                      *)
LEMMA SameAnswer ==
  ASSUME NEW req \in Request, NEW item \in Item
  PROVE  Abstract!Answer(req, item) =
           IF req.shape = "picklable" THEN Unpickle(item)
           ELSE IF item.desc = Pickled THEN MissingMetadata
           ELSE Assemble(req, item.desc, item)
BY DEF Abstract!Answer, Abstract!Unpickle, Unpickle, Abstract!Assemble, Assemble,
       Abstract!Fetched, Fetched, Abstract!Status, Status, Abstract!Pickled, Pickled,
       Abstract!Decoded, Decoded, Abstract!IsScalar, IsScalar, Abstract!AnyDType, AnyDType

(* A decided read has a result.                                            *)
LEMMA AnswerIsDecided ==
  ASSUME NEW req \in Request, NEW item \in Item
  PROVE  /\ Assemble(req, item.desc, item) # Pending
         /\ MissingMetadata # Pending
         /\ Done # Pending
<1>1. \A s : s # "pending" => Status(s) # Pending
  <2> SUFFICES ASSUME NEW s, Status(s) = Pending PROVE s = "pending"
    OBVIOUS
  <2>1. Status(s).status = s /\ Pending.status = "pending"
    BY DEF Status, Pending
  <2> QED BY <2>1
<1>2. Fetched(Decoded(req, item.desc), item) # Pending
  <2>1. /\ Fetched(Decoded(req, item.desc), item).status = "ok"
        /\ Pending.status = "pending"
    BY DEF Fetched, Pending, Status
  <2> QED BY <2>1
<1>3. MissingMetadata # Pending /\ Done # Pending
  BY <1>1 DEF MissingMetadata, Done
<1> QED BY <1>1, <1>2, <1>3 DEF Assemble

-----------------------------------------------------------------------------
(* What a reader that holds the data can find under the metadata key. *)

(* The descriptor of the data it holds, unless that data was pickled.      *)
LEMMA MetadataFits ==
  ASSUME Homogeneous, IndRecorded, NEW c \in Clients, buffer[c] # None,
         store[MetadataKey(H(c))] # None
  PROVE  store[MetadataKey(H(c))] = buffer[c].desc /\ buffer[c].desc # Pickled
<1>1. H(c) \in Handles
  BY CallFields DEF IndRecorded, IndTyped, AtStep, H
<1>2. store[MetadataKey(H(c))] \in PutDescs(H(c)) /\ buffer[c].desc \in PutDescs(H(c))
  BY <1>1 DEF IndRecorded, Recorded
<1>3. store[MetadataKey(H(c))] \in Desc
  BY <1>1 DEF IndRecorded, IndTyped, TypeOK, StoreTypeOK
<1>4. Pickled \notin Desc
  BY DEF Pickled, Desc, DTypes
<1> QED BY <1>1, <1>2, <1>3, <1>4, OneDesc

(* Nothing, only if the item has been deleted.                             *)
LEMMA MissingWasDeleted ==
  ASSUME Homogeneous, IndPairs, IndRecorded, NEW c \in Clients,
         buffer[c] # None, buffer[c].desc # Pickled,
         store[MetadataKey(H(c))] = None
  PROVE  store[Key(H(c))] = None
<1>1. H(c) \in Handles
  BY CallFields DEF IndRecorded, IndTyped, AtStep, H
<1>2. SUFFICES ASSUME store[Key(H(c))] # None PROVE FALSE
  OBVIOUS
<1>3. store[Key(H(c))].desc = Pickled
  BY <1>1, <1>2 DEF IndPairs, DataHasMetadata
<1>4. store[Key(H(c))].desc \in PutDescs(H(c)) /\ buffer[c].desc \in PutDescs(H(c))
  BY <1>1, <1>2 DEF IndRecorded, Recorded
<1> QED BY <1>1, <1>3, <1>4, OneDesc

-----------------------------------------------------------------------------
(* Every step is a step of ItemStore or a stutter. *)

(* The empty store.                                                        *)
LEMMA InitRefines == Init => Abstract!Init
<1> SUFFICES ASSUME Init PROVE Abstract!Init
  OBVIOUS
<1>1. AbstractOut = [c \in Clients |-> Pending]
  BY DEF Init, AbstractOut, Seen
<1>2. [h \in Handles |-> store[Key(h)]] = [h \in Handles |-> None]
  BY KeysApart DEF Init
<1> QED BY <1>1, <1>2 DEF Init, Abstract!Init, Abstract!Pending, Pending,
                          Abstract!Status, Status

(* A call begins in both.                                                  *)
LEMMA BeginRefines ==
  ASSUME IndTyped, NEW e \in Clients, NEW k \in Calls, Begin(e, k)
  PROVE  Abstract!Begin(e, k)
<1>1. /\ pc[e] = "idle" /\ buffer[e] = None /\ buffer' = buffer /\ store' = store
      /\ pc' = [pc EXCEPT ![e] = Entry(k)] /\ call' = [call EXCEPT ![e] = k]
      /\ outcome' = [outcome EXCEPT ![e] = Pending]
      /\ Entry(k) \notin {"idle", "check_meta", "delete_meta"}
  BY CallFields DEF Begin, IndTyped, AtStep, Entry, GetBytes, WaitForBytes
<1>2. pc'[e] = Entry(k) /\ \A c \in Clients : c # e => pc'[c] = pc[c]
  BY <1>1 DEF IndTyped, TypeOK
<1>3. \A c \in Clients : c # e => call'[c] = call[c] /\ outcome'[c] = outcome[c]
  BY <1>1 DEF IndTyped, TypeOK
<1>4. Seen(e)' = Pending
  BY <1>1, <1>2 DEF Seen
<1>5. ASSUME NEW c \in Clients, c # e PROVE Seen(c)' = Seen(c)
  BY <1>1, <1>2, <1>3, <1>5 DEF Seen, AbstractAnswer
<1>6. AbstractOut' = [AbstractOut EXCEPT ![e] = Pending]
  <2>1. AbstractOut = [c \in Clients |-> Seen(c)]
    BY DEF AbstractOut
  <2>2. AbstractOut' = [c \in Clients |-> Seen(c)']
    BY DEF AbstractOut
  <2> QED BY <1>4, <1>5, <2>1, <2>2
<1>7. [c \in Clients |-> pc[c] # "idle"]'
        = [[c \in Clients |-> pc[c] # "idle"] EXCEPT ![e] = TRUE]
  BY <1>1, <1>2
<1> QED BY <1>1, <1>6, <1>7
        DEF Abstract!Begin, Abstract!Pending, Pending, Abstract!Status, Status

(* The facts about a running call that its steps share.                    *)
LEMMA RunningFacts ==
  ASSUME IndTyped, NEW e \in Clients, pc[e] # "idle"
  PROVE  /\ call[e] \in Calls /\ H(e) \in Handles
         /\ pc[e] \in StepsOf(call[e].op)
         /\ call[e].op \in {"get", "wait"} => call[e].req \in Request
         /\ buffer[e] # None => buffer[e] \in Item /\ call[e].req.shape # "picklable"
         /\ store[Key(H(e))] \in Item \cup {None}
<1>1. /\ call[e] \in Calls /\ H(e) \in Handles
      /\ pc[e] \in StepsOf(call[e].op)
      /\ call[e].op \in {"get", "wait"} => call[e].req \in Request
  BY CallFields DEF IndTyped, AtStep, H
<1>2. buffer[e] # None => buffer[e] \in Item /\ call[e].req.shape # "picklable"
  BY DEF IndTyped, TypeOK, AtStep
<1> QED BY <1>1, <1>2 DEF IndTyped, TypeOK, StoreTypeOK

(* A step that finishes the call shows its outcome.                        *)
LEMMA FinishSeen ==
  ASSUME IndTyped, NEW e \in Clients, NEW o, Finish(e, o)
  PROVE  Seen(e)' = o /\ (pc'[e] # "idle") = FALSE
<1>1. pc'[e] = "idle" /\ outcome'[e] = o
  BY DEF Finish, IndTyped, TypeOK
<1>2. Seen(e)' = o
  BY <1>1 DEF Seen
<1> QED BY <1>1, <1>2

(* A delete that has removed the data is seen as done.                     *)
LEMMA GoneSeen ==
  ASSUME NEW e \in Clients, pc'[e] \in {"check_meta", "delete_meta"}
  PROVE  Seen(e)' = Done
<1>1. pc'[e] # "idle"
  OBVIOUS
<1> QED BY <1>1 DEF Seen

(* Hence it resolves the call with that outcome.                           *)
LEMMA FinishResolves ==
  ASSUME IndTyped, NEW e \in Clients, CallStep(e), NEW o, Finish(e, o)
  PROVE  Abstract!Resolve(e, o, FALSE)
BY FinishSeen, Resolves

(* Writes and deletes: the items change when the data does.                *)
LEMMA PutRefines ==
  ASSUME IndTyped, Backend # "map", NEW e \in Clients, PutData(e)
  PROVE  Abstract!Put(e)
<1>1. CallStep(e) /\ pc[e] = "put_data" /\ store' = Effect(e) /\ Finish(e, Done)
  BY CallSteps DEF PutData, Progress
<1>2. call[e].op = "put"
  BY <1>1, RunningFacts, StepsApart
<1>3. Abstract!Resolve(e, Done, FALSE)
  BY <1>1, FinishResolves
<1>4. [h \in Handles |-> store[Key(h)]]'
        = [[h \in Handles |-> store[Key(h)]] EXCEPT ![call[e].handle] = call[e].item]
  BY <1>1, ItemsAfter DEF H
<1> QED BY <1>1, <1>2, <1>3, <1>4
        DEF Abstract!Put, Abstract!Doing, Abstract!Done, Abstract!Status, Done, Status

(* A delete takes effect with its first call, or finds nothing.            *)
LEMMA DeleteDataRefines ==
  ASSUME IndTyped, Backend # "map", NEW e \in Clients, DeleteData(e)
  PROVE  Abstract!Delete(e) \/ Abstract!DeleteMissing(e)
<1>1. CallStep(e) /\ pc[e] = "delete_data" /\ store' = Effect(e)
  BY CallSteps DEF DeleteData, Progress
<1>2. call[e].op = "delete" /\ buffer[e] = None
  BY <1>1, RunningFacts, StepsApart DEF IndTyped, AtStep
<1>3. [h \in Handles |-> store[Key(h)]]'
        = [[h \in Handles |-> store[Key(h)]] EXCEPT ![call[e].handle] = None]
  BY <1>1, ItemsAfter DEF H
<1>4. AbstractOut[e] = Pending
  BY <1>1, <1>2 DEF AbstractOut, Seen
<1>5. CASE Goto(e, "check_meta")
  <2>1. pc'[e] = "check_meta"
    BY <1>5 DEF Goto, IndTyped, TypeOK
  <2>2. Seen(e)' = Done
    BY <2>1, GoneSeen
  <2>3. Abstract!Resolve(e, Done, TRUE)
    BY <1>1, <2>1, <2>2, Resolves
  <2> QED BY <1>1, <1>2, <1>3, <1>4, <2>3
          DEF Abstract!Delete, Abstract!Doing, Abstract!Done, Abstract!Pending,
              Abstract!Status, Done, Pending, Status
<1>6. CASE store[Key(H(e))] = None /\ Finish(e, Status("StoreKeyError"))
  <2>1. Abstract!Resolve(e, Status("StoreKeyError"), FALSE)
    BY <1>1, <1>6, FinishResolves
  <2>2. [h \in Handles |-> store[Key(h)]]' = [h \in Handles |-> store[Key(h)]]
    BY <1>3, <1>6 DEF H
  <2>3. [h \in Handles |-> store[Key(h)]][call[e].handle] = None
    BY <1>1, <1>6, RunningFacts DEF H
  <2> QED BY <1>1, <1>2, <2>1, <2>2, <2>3
          DEF Abstract!DeleteMissing, Abstract!Doing, Abstract!Status, Status
<1> QED BY <1>5, <1>6 DEF DeleteData

(* The metadata is removed after the item: nothing that ItemStore sees.    *)
LEMMA DeleteMetadataRefines ==
  ASSUME IndTyped, DeleteReady, Backend # "map", NEW e \in Clients,
         CheckMetadata(e) \/ DeleteMetadata(e)
  PROVE  \/ Abstract!Return(e) \/ Abstract!DeleteMissing(e)
         \/ UNCHANGED Abstract!storeVars
<1>1. CallStep(e) /\ pc[e] \in {"check_meta", "delete_meta"} /\ store' \in {store, Effect(e)}
  BY CallSteps DEF CheckMetadata, DeleteMetadata, Progress, CallStep
<1>2. call[e].op = "delete" /\ H(e) \in Handles
  BY <1>1, RunningFacts, StepsApart
<1>3. [h \in Handles |-> store[Key(h)]]' = [h \in Handles |-> store[Key(h)]]
  BY <1>1, ItemsAfter
<1>4. AbstractOut[e] = Done
  BY <1>1 DEF AbstractOut, Seen
<1>5. CASE Finish(e, Done)
  <2>1. Abstract!Resolve(e, Done, FALSE)
    BY <1>1, <1>5, FinishResolves
  <2>2. Done # Abstract!Pending
    BY DEF Done, Abstract!Pending, Status, Abstract!Status
  <2> QED BY <1>1, <1>3, <1>4, <2>1, <2>2 DEF Abstract!Return
<1>6. CASE Finish(e, Status("StoreKeyError"))
  <2>1. Abstract!Resolve(e, Status("StoreKeyError"), FALSE)
    BY <1>1, <1>6, FinishResolves
  <2>2. [h \in Handles |-> store[Key(h)]][call[e].handle] = None
    BY <1>1, <1>2 DEF DeleteReady, H
  <2> QED BY <1>1, <1>2, <1>3, <2>1, <2>2
          DEF Abstract!DeleteMissing, Abstract!Doing, Abstract!Status, Status
<1>7. CASE Goto(e, "delete_meta")
  <2>1. pc'[e] = "delete_meta"
    BY <1>7 DEF Goto, IndTyped, TypeOK
  <2>2. Seen(e)' = Done
    BY <2>1, GoneSeen
  <2>3. Seen(e) = Done
    BY <1>1 DEF Seen
  <2> QED BY <1>1, <1>3, <2>1, <2>2, <2>3, Unseen
<1> QED BY <1>5, <1>6, <1>7 DEF CheckMetadata, DeleteMetadata

(* The metadata is written before the item: nothing that ItemStore sees.   *)
LEMMA PutMetadataRefines ==
  ASSUME IndTyped, Backend # "map", NEW e \in Clients, PutMetadata(e)
  PROVE  UNCHANGED Abstract!storeVars
<1>1. CallStep(e) /\ pc[e] = "put_meta" /\ store' = Effect(e) /\ Goto(e, "put_data")
  BY CallSteps DEF PutMetadata, Progress
<1>2. pc'[e] = "put_data" /\ buffer[e] = None /\ buffer' = buffer
  BY <1>1 DEF Goto, IndTyped, TypeOK, AtStep
<1>3. Seen(e)' = Pending /\ Seen(e) = Pending
  BY <1>1, <1>2 DEF Seen
<1>4. [h \in Handles |-> store[Key(h)]]' = [h \in Handles |-> store[Key(h)]]
  BY <1>1, ItemsAfter
<1> QED BY <1>1, <1>2, <1>3, <1>4, Unseen

(* Calls that end without touching the store.                              *)
LEMMA TimeOutRefines ==
  ASSUME IndTyped, NEW e \in Clients, TimeOut(e)
  PROVE  Abstract!TimeOut(e)
<1>1. /\ CallStep(e) /\ pc[e] = "poll" /\ store' = store
      /\ store[Key(H(e))] = None /\ Finish(e, Status("TimeoutError"))
  BY CallSteps DEF TimeOut
<1>2. call[e].op = "wait" /\ H(e) \in Handles
  BY <1>1, RunningFacts, StepsApart
<1>3. Abstract!Resolve(e, Status("TimeoutError"), FALSE)
  BY <1>1, FinishResolves
<1> QED BY <1>1, <1>2, <1>3
        DEF Abstract!TimeOut, Abstract!Doing, Abstract!Status, Status, H

LEMMA ContainsRefines ==
  ASSUME IndTyped, NEW e \in Clients, Contains(e)
  PROVE  Abstract!Contains(e)
<1> DEFINE o == Status(IF store[Key(H(e))] = None THEN "false" ELSE "true")
<1>1. CallStep(e) /\ pc[e] = "contains" /\ store' = store /\ Finish(e, o)
  BY CallSteps DEF Contains, Progress
<1>2. call[e].op = "contains" /\ H(e) \in Handles
  BY <1>1, RunningFacts, CallFields DEF StepsOf
<1>3. Abstract!Resolve(e, o, FALSE)
  BY <1>1, FinishResolves
<1>4. [h \in Handles |-> store[Key(h)]][call[e].handle] = store[Key(H(e))]
  BY <1>2 DEF H
<1> QED BY <1>1, <1>2, <1>3, <1>4
        DEF Abstract!Contains, Abstract!Doing, Abstract!Status, Status

(* An interrupted call leaves its item as it was, or took effect.          *)
LEMMA InterruptRefines ==
  ASSUME IndTyped, Backend # "map", NEW e \in Clients, Interrupt(e)
  PROVE  Abstract!Interrupt(e)
<1>1. CallStep(e) /\ pc[e] # "idle" /\ store' \in {store, Effect(e)}
  BY CallSteps DEF Interrupt
<1>2. PICK s \in Failures : Finish(e, Status(s))
  BY DEF Interrupt
<1>3. Abstract!Resolve(e, Status(s), FALSE)
  BY <1>1, <1>2, FinishResolves
<1> DEFINE before == [h \in Handles |-> store[Key(h)]]
           after  == [h \in Handles |-> store'[Key(h)]]
<1>4. \/ after = before
      \/ call[e].op = "put" /\ after = [before EXCEPT ![H(e)] = call[e].item]
      \/ call[e].op = "delete" /\ after = [before EXCEPT ![H(e)] = None]
  <2>1. CASE store' = store
    BY <2>1
  <2>2. CASE store' = Effect(e)
    <3>1. /\ pc[e] = "put_data" => call[e].op = "put"
          /\ pc[e] = "delete_data" => call[e].op = "delete"
      BY <1>1, RunningFacts, StepsApart
    <3> QED BY <1>1, <2>2, <3>1, ItemsAfter
  <2> QED BY <1>1, <2>1, <2>2
<1>5. \E f \in Failures : Abstract!Resolve(e, Abstract!Status(f), FALSE)
  BY <1>3 DEF Abstract!Status, Status
<1> QED BY <1>1, <1>4, <1>5 DEF Abstract!Interrupt, H, Abstract!Failures, Failures

-----------------------------------------------------------------------------
(* Reads. *)

(* A read is decided by the data it fetches.                               *)
LEMMA FetchDataRefines ==
  ASSUME IndTyped, NEW e \in Clients, FetchData(e)
  PROVE  Abstract!Read(e)
<1> DEFINE item == store[Key(H(e))]
           answer == Abstract!Answer(call[e].req, item)
<1>1. /\ CallStep(e) /\ pc[e] = "fetch" /\ buffer[e] = None
      /\ store' = store /\ FetchKey(e) = Key(H(e)) /\ item # None
  BY CallSteps DEF FetchData, Progress, FetchKey
<1>2. /\ call[e].op \in {"get", "wait"} /\ call[e] \in Calls
      /\ H(e) \in Handles /\ item \in Item /\ call[e].req \in Request
  BY <1>1, RunningFacts, StepsApart
<1>3. AbstractOut[e] = Pending
  BY <1>1 DEF AbstractOut, Seen
<1>4. \E more \in BOOLEAN : Abstract!Resolve(e, answer, more)
  <2>1. CASE call[e].req.shape = "picklable"
    <3>1. Finish(e, Unpickle(item))
      BY <1>1, <2>1 DEF FetchData
    <3>2. answer = Unpickle(item)
      BY <1>2, <2>1, SameAnswer
    <3> QED BY <1>1, <3>1, <3>2, FinishResolves
  <2>2. CASE call[e].req.shape # "picklable"
    <3>1. /\ buffer' = [buffer EXCEPT ![e] = item]
          /\ pc' = [pc EXCEPT ![e] = GetBytes] /\ call' = call
      BY <1>1, <2>2 DEF FetchData
    <3>2. buffer'[e] = item /\ pc'[e] \in {"exists", "fetch"}
      BY <3>1 DEF IndTyped, TypeOK, GetBytes
    <3>3. Seen(e)' = IF item.desc = Pickled THEN MissingMetadata
                     ELSE Assemble(call[e].req, item.desc, item)
      BY <1>1, <3>1, <3>2 DEF Seen, AbstractAnswer
    <3>4. Seen(e)' = answer
      BY <1>2, <2>2, <3>3, SameAnswer
    <3> QED BY <1>1, <3>2, <3>4, Resolves
  <2> QED BY <2>1, <2>2
<1>5. [h \in Handles |-> store[Key(h)]][call[e].handle] = item
  BY <1>2 DEF H
<1> QED BY <1>1, <1>2, <1>3, <1>4, <1>5
        DEF Abstract!Read, Abstract!Doing, Abstract!Pending, Abstract!Status,
            Pending, Status

(* What a reader that holds the data has been decided to return.           *)
LEMMA HeldAnswer ==
  ASSUME IndTyped, NEW e \in Clients, buffer[e] # None
  PROVE  /\ AbstractOut[e] = AbstractAnswer(e)
         /\ AbstractAnswer(e) # Abstract!Pending
<1>1. pc[e] \in {"exists", "fetch"}
  BY DEF IndTyped, AtStep
<1>2. buffer[e] \in Item /\ call[e].req \in Request
  BY <1>1, RunningFacts, StepsApart
<1>3. AbstractOut[e] = AbstractAnswer(e)
  BY <1>1 DEF AbstractOut, Seen
<1>4. AbstractAnswer(e) # Pending
  BY <1>2, AnswerIsDecided DEF AbstractAnswer
<1> QED BY <1>3, <1>4 DEF Pending, Abstract!Pending, Status, Abstract!Status

(* The metadata found later gives that result.                             *)
LEMMA FetchMetadataRefines ==
  ASSUME Homogeneous, IndRecorded, NEW e \in Clients, FetchMetadata(e)
  PROVE  Abstract!Return(e)
<1>1. IndTyped
  BY DEF IndRecorded
<1>2. /\ CallStep(e) /\ pc[e] = "fetch" /\ buffer[e] # None /\ store' = store
      /\ FetchKey(e) = MetadataKey(H(e)) /\ store[MetadataKey(H(e))] # None
      /\ Finish(e, Assemble(call[e].req, store[MetadataKey(H(e))], buffer[e]))
  BY <1>1, CallSteps DEF FetchMetadata, Progress, FetchKey
<1>3. Finish(e, AbstractAnswer(e))
  BY <1>2, MetadataFits DEF AbstractAnswer
<1>4. Abstract!Resolve(e, AbstractOut[e], FALSE)
  BY <1>1, <1>2, <1>3, HeldAnswer, FinishResolves
<1> QED BY <1>1, <1>2, <1>4, HeldAnswer DEF Abstract!Return

(* A missing key is the item's, or the metadata that pickled data never    *)
(* had: e is the error that the backend reports.                           *)
LEMMA MissingRefines ==
  ASSUME Homogeneous, IndPairs, IndRecorded, NEW e \in Clients, CallStep(e),
         pc[e] \in {"exists", "fetch"}, store' = store, store[FetchKey(e)] = None,
         NEW err \in NotFoundErrors, Finish(e, Status(err)),
         buffer[e] # None /\ buffer[e].desc = Pickled => Status(err) = MissingMetadata
  PROVE  Abstract!Missing(e) \/ Abstract!Return(e)
<1>1. IndTyped
  BY DEF IndRecorded
<1>2. call[e].op \in {"get", "wait"} /\ H(e) \in Handles
  BY <1>1, RunningFacts, StepsApart
<1>3. Abstract!Resolve(e, Status(err), FALSE)
  BY <1>1, FinishResolves
<1>4. CASE buffer[e] # None /\ buffer[e].desc = Pickled
  <2>1. AbstractOut[e] = Status(err)
    BY <1>1, <1>4, HeldAnswer DEF AbstractAnswer
  <2> QED BY <1>1, <1>3, <1>4, <2>1, HeldAnswer DEF Abstract!Return, CallStep
<1>5. CASE ~ (buffer[e] # None /\ buffer[e].desc = Pickled)
  <2>1. store[Key(H(e))] = None
    BY <1>5, MissingWasDeleted DEF FetchKey
  <2>2. [h \in Handles |-> store[Key(h)]][call[e].handle] = None
    BY <1>2, <2>1 DEF H
  <2>3. Abstract!Resolve(e, Abstract!Status(err), FALSE)
    BY <1>3 DEF Abstract!Status, Status
  <2> QED BY <1>2, <2>2, <2>3
          DEF Abstract!Missing, Abstract!Doing, Abstract!NotFoundErrors,
              NotFoundErrors, CallStep
<1> QED BY <1>4, <1>5

(* The Dragon client asks before it fetches.                               *)
LEMMA ExistsRefines ==
  ASSUME Homogeneous, IndPairs, IndRecorded, NEW e \in Clients, Reading(e), Exists(e)
  PROVE  \/ Abstract!Missing(e) \/ Abstract!Return(e)
         \/ UNCHANGED Abstract!storeVars
<1>1. IndTyped
  BY DEF IndRecorded
<1>2. CallStep(e) /\ pc[e] = "exists" /\ store' = store /\ Backend = "dragon"
  BY <1>1, CallSteps DEF Exists, Progress, Reading
<1>3. CASE store[FetchKey(e)] = None
  <2>1. Finish(e, Status("KeyNotFoundError"))
    BY <1>3 DEF Exists
  <2>2. Status("KeyNotFoundError") = MissingMetadata
    BY <1>2 DEF MissingMetadata
  <2>3. "KeyNotFoundError" \in NotFoundErrors
    BY DEF NotFoundErrors
  <2> QED BY <1>2, <1>3, <2>1, <2>2, <2>3, MissingRefines
<1>4. CASE store[FetchKey(e)] # None
  <2>1. pc'[e] = "fetch" /\ UNCHANGED <<call, buffer, outcome>>
    BY <1>1, <1>4 DEF Exists, Goto, IndTyped, TypeOK
  <2>2. Seen(e)' = Seen(e)
    BY <1>2, <2>1 DEF Seen, AbstractAnswer
  <2> QED BY <1>2, <2>1, <2>2, Unseen
<1> QED BY <1>3, <1>4

(* The others are told by the backend.                                     *)
LEMMA FetchMissingRefines ==
  ASSUME Homogeneous, IndPairs, IndRecorded, Backend # "map",
         NEW e \in Clients, Reading(e), FetchMissing(e)
  PROVE  Abstract!Missing(e) \/ Abstract!Return(e)
<1>1. /\ CallStep(e) /\ pc[e] = "fetch" /\ store' = store
      /\ store[FetchKey(e)] = None /\ Finish(e, Status("StoreKeyError"))
  BY CallSteps DEF FetchMissing, IndRecorded
<1>2. buffer[e] # None /\ buffer[e].desc = Pickled
        => Status("StoreKeyError") = MissingMetadata
  BY <1>1, BackendAssumption DEF Reading, MissingMetadata
<1>3. "StoreKeyError" \in NotFoundErrors
  BY DEF NotFoundErrors
<1> QED BY <1>1, <1>2, <1>3, MissingRefines

(* A wait that finds the item goes on to fetch it.                         *)
LEMMA PollRefines ==
  ASSUME IndTyped, NEW e \in Clients, Poll(e)
  PROVE  UNCHANGED Abstract!storeVars
<1>1. CallStep(e) /\ pc[e] = "poll" /\ store' = store /\ Goto(e, "fetch")
  BY CallSteps DEF Poll, Progress
<1>2. pc'[e] = "fetch" /\ buffer[e] = None /\ buffer' = buffer
  BY <1>1 DEF Goto, IndTyped, TypeOK, AtStep
<1>3. Seen(e)' = Seen(e)
  BY <1>1, <1>2 DEF Seen
<1> QED BY <1>1, <1>2, <1>3, Unseen

-----------------------------------------------------------------------------
(* What is known of readers is inductive. *)

(* Nobody but the client that moves reads differently.                     *)
LEMMA ReadingStep ==
  ASSUME Homogeneous, IndRecorded, \A c \in Clients : Reading(c), [Next]_vars
  PROVE  \A c \in Clients : Reading(c)'
<1>1. /\ IndTyped /\ pc \in [Clients -> Steps \cup {"idle"}]
      /\ buffer \in [Clients -> Item \cup {None}]
  BY DEF IndRecorded, IndTyped, TypeOK
<1> SUFFICES ASSUME NEW c \in Clients PROVE Reading(c)'
  OBVIOUS
<1>2. ASSUME NEW k \in Calls, Begin(c, k) PROVE Reading(c)'
  <2>1. pc'[c] = Entry(k) /\ buffer'[c] = None
    BY <1>1, <1>2 DEF Begin, IndTyped, AtStep
  <2>2. Entry(k) = "exists" => Backend = "dragon"
    BY CallFields DEF Entry, GetBytes, WaitForBytes
  <2> QED BY <2>1, <2>2 DEF Reading
<1>3. CASE FetchData(c)
  BY <1>1, <1>3 DEF FetchData, Finish, GetBytes, Reading
<1>4. CASE Exists(c)
  <2>1. CASE store[FetchKey(c)] = None
    BY <1>1, <1>4, <2>1 DEF Exists, Finish, Reading
  <2>2. CASE store[FetchKey(c)] # None
    <3>1. buffer' = buffer /\ pc'[c] = "fetch"
      BY <1>1, <1>4, <2>2 DEF Exists, Goto
    <3>2. buffer[c] # None => buffer[c].desc # Pickled
      BY <2>2, MetadataFits DEF FetchKey
    <3> QED BY <3>1, <3>2 DEF Reading
  <2> QED BY <2>1, <2>2
<1>5. CASE Poll(c)
  <2>1. buffer'[c] = None /\ pc'[c] = "fetch"
    BY <1>1, <1>5 DEF Poll, Goto, IndTyped, AtStep
  <2> QED BY <2>1 DEF Reading
<1>6. CASE \/ PutMetadata(c) \/ PutData(c) \/ FetchMetadata(c) \/ DeleteData(c)
           \/ CheckMetadata(c) \/ DeleteMetadata(c) \/ Contains(c)
           \/ TimeOut(c) \/ FetchMissing(c) \/ Interrupt(c)
  <2>1. pc'[c] \notin {"exists", "fetch"}
    BY <1>1, <1>6 DEF PutMetadata, PutData, FetchMetadata, DeleteData, CheckMetadata,
         DeleteMetadata, Contains, TimeOut, FetchMissing, Interrupt, Goto, Finish
  <2> QED BY <2>1 DEF Reading
<1>7. ASSUME NEW d \in Clients, d # c,
             (\E k \in Calls : Begin(d, k)) \/ CallStep(d)
      PROVE  Reading(c)'
  <2>1. pc'[c] = pc[c] /\ buffer'[c] = buffer[c]
    BY <1>1, <1>7 DEF Begin, CallStep
  <2> QED BY <2>1 DEF Reading
<1>8. CASE UNCHANGED vars
  <2>1. pc' = pc /\ buffer' = buffer
    BY <1>8 DEF vars
  <2> QED BY <2>1 DEF Reading
<1>9. CASE Next
  <2>1. PICK d \in Clients :
          \/ \E k \in Calls : Begin(d, k)
          \/ Progress(d) \/ TimeOut(d) \/ FetchMissing(d) \/ Interrupt(d)
    BY <1>9 DEF Next
  <2>2. CASE d = c
    BY <1>2, <1>3, <1>4, <1>5, <1>6, <2>1, <2>2 DEF Progress
  <2>3. CASE d # c
    BY <1>1, <1>7, <2>1, <2>3, CallSteps
  <2> QED BY <2>2, <2>3
<1> QED BY <1>8, <1>9

(* Every step of the implementation is a step of the store of whole items. *)
LEMMA StepRefines ==
  ASSUME Homogeneous, Backend # "map", IndRefines, [Next]_vars
  PROVE  [Abstract!Next]_(Abstract!storeVars)
<1>1. IndTyped /\ IndPairs /\ IndRecorded /\ DeleteReady
  BY DEF IndRefines, IndPairs
<1>2. ASSUME NEW e \in Clients, NEW k \in Calls, Begin(e, k)
      PROVE  Abstract!Next
  BY <1>1, <1>2, BeginRefines DEF Abstract!Next
<1>3. ASSUME NEW e \in Clients, Progress(e)
      PROVE  Abstract!Next \/ UNCHANGED Abstract!storeVars
  <2>1. Reading(e)
    BY DEF IndRefines
  <2>2. CASE PutMetadata(e) \/ Poll(e)
    BY <1>1, <2>2, PutMetadataRefines, PollRefines
  <2>3. CASE PutData(e) \/ FetchData(e) \/ FetchMetadata(e) \/ Contains(e)
    BY <1>1, <2>3, PutRefines, FetchDataRefines, FetchMetadataRefines,
       ContainsRefines DEF Abstract!Next
  <2>4. CASE Exists(e)
    BY <1>1, <2>1, <2>4, ExistsRefines DEF Abstract!Next
  <2>5. CASE DeleteData(e) \/ CheckMetadata(e) \/ DeleteMetadata(e)
    BY <1>1, <2>5, DeleteDataRefines, DeleteMetadataRefines DEF Abstract!Next
  <2> QED BY <1>3, <2>2, <2>3, <2>4, <2>5 DEF Progress
<1>4. ASSUME NEW e \in Clients, TimeOut(e) \/ FetchMissing(e) \/ Interrupt(e)
      PROVE  Abstract!Next
  <2>1. Reading(e)
    BY DEF IndRefines
  <2> QED BY <1>1, <1>4, <2>1, TimeOutRefines, FetchMissingRefines, InterruptRefines
          DEF Abstract!Next
<1>5. CASE UNCHANGED vars
  <2>1. store' = store /\ pc' = pc /\ call' = call /\ buffer' = buffer
        /\ outcome' = outcome
    BY <1>5 DEF vars
  <2>2. AbstractOut' = AbstractOut
    BY <2>1 DEF AbstractOut, Seen, AbstractAnswer
  <2> QED BY <2>1, <2>2 DEF Abstract!storeVars
<1> QED BY <1>2, <1>3, <1>4, <1>5 DEF Next

(* If deletes and puts of a handle are kept apart and a handle keeps its   *)
(* dtype and dimensions, every client of Dragon or SmartRedis sees a store *)
(* of whole items: each operation takes effect at one instant.             *)
THEOREM ExchangeIsLinearizable ==
  ASSUME Homogeneous, SerialDeletes, Backend # "map"
  PROVE  Spec => Linearizable
<1>1. Init => \A c \in Clients : Reading(c)
  BY DEF Init, Reading
<1>2. IndRecorded /\ (\A c \in Clients : Reading(c)) /\ [Next]_vars
        => (\A c \in Clients : Reading(c))'
  BY ReadingStep
<1>3. IndPairs /\ IndRecorded /\ (\A c \in Clients : Reading(c)) /\ [Next]_vars
        => [Abstract!Next]_(Abstract!storeVars)
  BY StepRefines DEF IndRefines
<1>4. Spec => []IndPairs
  BY PairsAlways
<1>5. Spec => []IndRecorded
  BY RecordedAlways
<1> QED BY <1>1, <1>2, <1>3, <1>4, <1>5, InitRefines, PTL
        DEF Spec, Linearizable, Abstract!Spec

-----------------------------------------------------------------------------
(* How old the metadata of a read can be. *)

(* The number n and the descriptor d of data of h, against the metadata    *)
(* that is there: no older, and of the same put only with its descriptor.  *)
Fits(h, n, d) ==
  store[MetadataKey(h)] # None =>
    /\ n <= written[MetadataKey(h)]
    /\ n = written[MetadataKey(h)] => d = store[MetadataKey(h)]

(* Numbers have been given, to puts that have written.                     *)
Numbered ==
  /\ puts \in Nat
  /\ ticket \in [Clients -> 0..puts]
  /\ fetched \in [Clients -> 0..puts]
  /\ written \in [Keys -> 0..puts]
  /\ \A c \in Clients : pc[c] # "put_data" => ticket[c] = 0
  /\ \A c \in Clients : pc[c] = "idle" => fetched[c] = 0

(* A put that is about to write its data.                                  *)
TypedPut(c) == pc[c] = "put_data" /\ call[c].item.desc # Pickled

(* Typed data, in the store, in a buffer or about to be written, is no     *)
(* younger than the metadata of its handle.                                *)
InOrder ==
  /\ \A h \in Handles :
       store[Key(h)] # None /\ store[Key(h)].desc # Pickled
         => Fits(h, written[Key(h)], store[Key(h)].desc)
  /\ \A c \in Clients :
       buffer[c] # None /\ buffer[c].desc # Pickled
         => Fits(H(c), fetched[c], buffer[c].desc)
  /\ \A c \in Clients :
       TypedPut(c) => /\ ticket[c] > 0
                      /\ Fits(H(c), ticket[c], call[c].item.desc)

IndHistory == IndTyped /\ Numbered /\ InOrder

(* The steps of ItemHistory are steps of ItemExchange.                     *)
LEMMA HistoryStep == [HNext]_hvars => [Next]_vars
BY DEF HNext, hvars, HBegin, HFetchData, HWrite, HOther, HInterrupt, Next, Progress

(* A call in progress names a handle.                                      *)
LEMMA RunningHandle ==
  ASSUME IndTyped, NEW c \in Clients, pc[c] # "idle" \/ buffer[c] # None
  PROVE  H(c) \in Handles /\ call[c] \in Calls /\ pc[c] \in StepsOf(call[c].op)
BY CallFields DEF IndTyped, AtStep, H

(* Numbers stay numbers when the calls that return give up theirs.         *)
LEMMA KeepNumbers ==
  ASSUME NEW n \in Nat, NEW t \in [Clients -> 0..n], NEW f \in [Clients -> 0..n], Keep(t, f)
  PROVE  /\ ticket' \in [Clients -> 0..n] /\ fetched' \in [Clients -> 0..n]
         /\ \A c \in Clients : ticket'[c] = IF pc'[c] = "idle" THEN 0 ELSE t[c]
         /\ \A c \in Clients : fetched'[c] = IF pc'[c] = "idle" THEN 0 ELSE f[c]
BY DEF Keep

(* A step that writes nothing keeps the order.                             *)
LEMMA NothingWrittenStep ==
  ASSUME IndHistory, IndTyped', store' = store, UNCHANGED <<puts, written>>,
         NEW f \in [Clients -> 0..puts], Keep(ticket, f),
         \A c \in Clients : TypedPut(c)' => TypedPut(c) /\ call'[c] = call[c],
         \A c \in Clients : pc'[c] # "put_data" => ticket[c] = 0 \/ pc'[c] = "idle",
         \A c \in Clients :
           buffer'[c] # None /\ buffer'[c].desc # Pickled
             => Fits(H(c), f[c], buffer'[c].desc) /\ H(c)' = H(c)
  PROVE  Numbered' /\ InOrder'
<1>1. /\ puts \in Nat /\ ticket \in [Clients -> 0..puts]
      /\ written \in [Keys -> 0..puts]
  BY DEF IndHistory, Numbered
<1>2. /\ ticket' \in [Clients -> 0..puts] /\ fetched' \in [Clients -> 0..puts]
      /\ \A c \in Clients : ticket'[c] = IF pc'[c] = "idle" THEN 0 ELSE ticket[c]
      /\ \A c \in Clients : fetched'[c] = IF pc'[c] = "idle" THEN 0 ELSE f[c]
  BY <1>1, KeepNumbers
<1>3. Numbered'
  <2>1. \A c \in Clients : pc'[c] # "put_data" => ticket'[c] = 0
    BY <1>1, <1>2
  <2> QED BY <1>1, <1>2, <2>1 DEF Numbered
<1>4. \A h, n, d : Fits(h, n, d)' <=> Fits(h, n, d)
  BY DEF Fits
<1>5. ASSUME NEW c \in Clients, buffer'[c] # None, buffer'[c].desc # Pickled
      PROVE  Fits(H(c), fetched[c], buffer[c].desc)'
  <2>1. pc'[c] # "idle"
    BY <1>5 DEF IndTyped, AtStep
  <2>2. fetched'[c] = f[c] /\ H(c)' = H(c) /\ Fits(H(c), f[c], buffer'[c].desc)
    BY <1>2, <1>5, <2>1
  <2> QED BY <2>2 DEF Fits
<1>6. ASSUME NEW c \in Clients, TypedPut(c)'
      PROVE  (ticket[c] > 0 /\ Fits(H(c), ticket[c], call[c].item.desc))'
  <2>1. TypedPut(c) /\ call'[c] = call[c] /\ pc'[c] = "put_data"
    BY <1>6 DEF TypedPut
  <2>2. ticket'[c] = ticket[c]
    BY <1>2, <2>1
  <2>3. ticket[c] > 0 /\ Fits(H(c), ticket[c], call[c].item.desc)
    BY <2>1 DEF IndHistory, InOrder
  <2> QED BY <2>1, <2>2, <2>3 DEF Fits, H
<1>7. \A h \in Handles :
        (store[Key(h)] # None /\ store[Key(h)].desc # Pickled
           => Fits(h, written[Key(h)], store[Key(h)].desc))'
  BY DEF IndHistory, InOrder, Fits
<1> QED BY <1>3, <1>5, <1>6, <1>7 DEF InOrder

(* The numbers after a backend call that takes effect.                     *)
LEMMA WrittenNumbers ==
  ASSUME IndHistory, NEW e \in Clients, Written(e), pc[e] # "idle",
         \A c \in Clients \ {e} : pc'[c] = pc[c],
         pc'[e] = "put_data" => pc[e] = "put_meta",
         Putting(e) => pc'[e] \in {"put_data", "idle"}
  PROVE  /\ Numbered'
         /\ \A c \in Clients \ {e} : ticket'[c] = ticket[c] /\ fetched'[c] = fetched[c]
         /\ fetched'[e] \in {fetched[e], 0}
         /\ Putting(e) => Number(e) > 0
         /\ pc[e] = "put_meta" => Number(e) = puts + 1
         /\ pc'[e] = "put_data" => ticket'[e] = Number(e)
<1>1. /\ puts \in Nat /\ ticket \in [Clients -> 0..puts] /\ fetched \in [Clients -> 0..puts]
      /\ written \in [Keys -> 0..puts] /\ \A c \in Clients : pc[c] # "put_data" => ticket[c] = 0
  BY DEF IndHistory, Numbered
<1> DEFINE t == IF Putting(e) THEN [ticket EXCEPT ![e] = Number(e)] ELSE ticket
<1>2. /\ puts' \in Nat /\ puts <= puts'
      /\ Putting(e) => Number(e) \in 1..puts'
  BY <1>1 DEF Written, Number
<1>3. t \in [Clients -> 0..puts'] /\ fetched \in [Clients -> 0..puts']
  <2>1. \A n \in 0..puts : n \in 0..puts'
    BY <1>1, <1>2
  <2>2. ticket \in [Clients -> 0..puts'] /\ fetched \in [Clients -> 0..puts']
    BY <1>1, <2>1
  <2> QED BY <1>2, <2>2
<1>4. /\ ticket' \in [Clients -> 0..puts'] /\ fetched' \in [Clients -> 0..puts']
      /\ \A c \in Clients : ticket'[c] = IF pc'[c] = "idle" THEN 0 ELSE t[c]
      /\ \A c \in Clients : fetched'[c] = IF pc'[c] = "idle" THEN 0 ELSE fetched[c]
  <2>1. Keep(t, fetched)
    BY DEF Written
  <2> HIDE DEF t
  <2> QED BY <1>2, <1>3, <2>1, KeepNumbers
<1>5. written' \in [Keys -> 0..puts']
  <2>1. /\ written \in [Keys -> 0..puts'] /\ 0 \in 0..puts'
        /\ Putting(e) => Number(e) \in 0..puts'
    BY <1>1, <1>2
  <2>2. \E n \in 0..puts' : written' \in {written, [written EXCEPT ![Target(e)] = n]}
    <3>1. CASE Putting(e)
      <4>1. written' = [written EXCEPT ![Target(e)] = Number(e)]
        BY <3>1 DEF Written, Putting
      <4> HIDE DEF t
      <4> QED BY <2>1, <3>1, <4>1
    <3>2. CASE pc[e] \in {"delete_data", "delete_meta"}
      BY <2>1, <3>2 DEF Written, Putting
    <3>3. CASE ~ Putting(e) /\ pc[e] \notin {"delete_data", "delete_meta"}
      BY <2>1, <3>3 DEF Written
    <3> QED BY <3>1, <3>2, <3>3
  <2> QED BY <2>1, <2>2
<1>6. \A c \in Clients \ {e} : ticket'[c] = ticket[c] /\ fetched'[c] = fetched[c]
  <2> SUFFICES ASSUME NEW c \in Clients \ {e}
               PROVE  ticket'[c] = ticket[c] /\ fetched'[c] = fetched[c]
    OBVIOUS
  <2>1. t[c] = ticket[c]
    BY <1>1
  <2>2. CASE pc[c] # "idle"
    BY <1>4, <2>1, <2>2
  <2>3. CASE pc[c] = "idle"
    <3>1. ticket[c] = 0
      BY <1>1, <2>3
    <3>2. fetched[c] = 0
      BY <2>3 DEF IndHistory, Numbered
    <3> QED BY <1>4, <2>1, <3>1, <3>2
  <2> QED BY <2>2, <2>3
<1>7. ASSUME NEW c \in Clients, pc'[c] # "put_data" PROVE ticket'[c] = 0
  <2>1. CASE c # e
    BY <1>1, <1>6, <1>7, <2>1
  <2>2. CASE c = e /\ Putting(e)
    BY <1>4, <1>7, <2>2
  <2>3. CASE c = e /\ ~ Putting(e)
    BY <1>1, <1>4, <2>3 DEF Putting
  <2> QED BY <2>1, <2>2, <2>3
<1>8. Numbered'
  <2>1. \A c \in Clients : pc'[c] = "idle" => fetched'[c] = 0
    BY <1>4
  <2> QED BY <1>2, <1>4, <1>5, <1>7, <2>1 DEF Numbered
<1>9. pc'[e] = "put_data" => ticket'[e] = Number(e)
  BY <1>1, <1>4 DEF Putting
<1>10. pc[e] = "put_meta" => Number(e) = puts + 1
  BY <1>1 DEF Number
<1> QED BY <1>2, <1>4, <1>6, <1>8, <1>9, <1>10

(* What a backend call does to the numbers of a handle.                    *)
LEMMA WrittenOnKeys ==
  ASSUME IndHistory, NEW e \in Clients, Written(e), pc[e] # "idle", NEW h \in Handles
  PROVE  /\ written'[Key(h)] =
              IF h # H(e) THEN written[Key(h)]
              ELSE IF pc[e] = "put_data" THEN Number(e)
              ELSE IF pc[e] = "delete_data" THEN 0
              ELSE written[Key(h)]
         /\ written'[MetadataKey(h)] =
              IF h # H(e) THEN written[MetadataKey(h)]
              ELSE IF pc[e] = "put_meta" THEN Number(e)
              ELSE IF pc[e] = "delete_meta" THEN 0
              ELSE written[MetadataKey(h)]
<1>1. H(e) \in Handles /\ DOMAIN written = Keys
  BY RunningHandle DEF IndHistory, Numbered
<1>2. CASE pc[e] \in {"put_meta", "delete_meta"}
  BY <1>1, <1>2, KeysApart DEF Written, Putting, Target
<1>3. CASE pc[e] \in {"put_data", "delete_data"}
  BY <1>1, <1>3, KeysApart DEF Written, Putting, Target
<1>4. CASE pc[e] \notin {"put_meta", "delete_meta", "put_data", "delete_data"}
  BY <1>4 DEF Written, Putting
<1> QED BY <1>2, <1>3, <1>4

(* Data that fits still fits when the backend call of e takes effect: new  *)
(* metadata has a number that nobody has had.                              *)
LEMMA StillFits ==
  ASSUME IndHistory, Backend # "map", NEW e \in Clients, pc[e] # "idle",
         Written(e), store' = Effect(e),
         NEW h \in Handles, NEW n \in 0..puts, NEW d, Fits(h, n, d)
  PROVE  Fits(h, n, d)'
<1>1. IndTyped
  BY DEF IndHistory
<1>2. CASE h = H(e) /\ pc[e] = "put_meta"
  <2>1. written'[MetadataKey(h)] = puts + 1
    BY <1>2, WrittenOnKeys DEF Number, IndHistory, Numbered
  <2>2. n < written'[MetadataKey(h)] /\ n <= written'[MetadataKey(h)]
    BY <2>1 DEF IndHistory, Numbered
  <2>3. n # written'[MetadataKey(h)]
    BY <2>1 DEF IndHistory, Numbered
  <2> QED BY <2>2, <2>3 DEF Fits
<1>3. CASE h = H(e) /\ pc[e] = "delete_meta"
  <2>1. store'[MetadataKey(h)] = None
    BY <1>1, <1>3, EffectOnKeys
  <2> QED BY <2>1 DEF Fits
<1>4. CASE h # H(e) \/ pc[e] \notin {"put_meta", "delete_meta"}
  <2>1. store'[MetadataKey(h)] = store[MetadataKey(h)]
    BY <1>1, <1>4, EffectOnKeys
  <2>2. written'[MetadataKey(h)] = written[MetadataKey(h)]
    BY <1>4, WrittenOnKeys
  <2> QED BY <2>1, <2>2 DEF Fits
<1> QED BY <1>2, <1>3, <1>4

(* A backend call of e that takes effect keeps the order.                  *)
LEMMA WrittenStep ==
  ASSUME IndHistory, IndTyped', Backend # "map",
         NEW e \in Clients, CallStep(e), Written(e), store' = Effect(e),
         Putting(e) => pc'[e] \in {"put_data", "idle"},
         buffer'[e] \in {buffer[e], None},
         fetched'[e] = fetched[e] \/ buffer'[e] = None
  PROVE  Numbered' /\ InOrder'
<1>1. /\ IndTyped /\ pc[e] # "idle" /\ call' = call
      /\ \A c \in Clients \ {e} : pc'[c] = pc[c] /\ buffer'[c] = buffer[c]
      /\ pc'[e] = "put_data" => pc[e] = "put_meta"
  BY DEF CallStep, IndHistory
<1>2. /\ Numbered'
      /\ \A c \in Clients \ {e} : ticket'[c] = ticket[c] /\ fetched'[c] = fetched[c]
      /\ Putting(e) => Number(e) > 0
      /\ pc[e] = "put_meta" => Number(e) = puts + 1
      /\ pc'[e] = "put_data" => ticket'[e] = Number(e)
  BY <1>1, WrittenNumbers
<1>3. /\ puts \in Nat /\ ticket \in [Clients -> 0..puts] /\ fetched \in [Clients -> 0..puts]
      /\ written \in [Keys -> 0..puts]
  BY DEF IndHistory, Numbered
<1>4. \A c \in Clients : H(c)' = H(c)
  BY <1>1 DEF H
<1>5. ASSUME NEW c \in Clients, buffer'[c] # None, buffer'[c].desc # Pickled
      PROVE  Fits(H(c), fetched[c], buffer[c].desc)'
  <2>1. buffer'[c] = buffer[c] /\ fetched'[c] = fetched[c]
    BY <1>1, <1>2, <1>5
  <2>2. Fits(H(c), fetched[c], buffer[c].desc) /\ H(c) \in Handles
    BY <1>1, <1>5, <2>1, RunningHandle DEF IndHistory, InOrder
  <2>3. fetched[c] \in 0..puts
    BY <1>3
  <2> QED BY <1>1, <1>4, <2>1, <2>2, <2>3, StillFits DEF Fits
<1>6. ASSUME NEW c \in Clients, TypedPut(c)'
      PROVE  (ticket[c] > 0 /\ Fits(H(c), ticket[c], call[c].item.desc))'
  <2>1. pc'[c] = "put_data" /\ call[c].item.desc # Pickled
    BY <1>1, <1>6 DEF TypedPut
  <2>2. CASE c = e
    <3>1. pc[e] = "put_meta" /\ Number(e) = puts + 1 /\ ticket'[e] = Number(e)
      BY <1>1, <1>2, <2>1, <2>2
    <3>2. written'[MetadataKey(H(e))] = Number(e)
      BY <1>1, <3>1, RunningHandle, WrittenOnKeys
    <3>3. store'[MetadataKey(H(e))] = call[e].item.desc
      BY <1>1, <3>1, RunningHandle, EffectOnKeys DEF Stored
    <3>4. ticket'[e] > 0 /\ ticket'[e] <= written'[MetadataKey(H(e))]
      BY <1>3, <3>1, <3>2
    <3> QED BY <1>1, <1>4, <2>2, <3>3, <3>4 DEF Fits
  <2>3. CASE c # e
    <3>1. pc[c] = "put_data" /\ ticket'[c] = ticket[c] /\ TypedPut(c)
      BY <1>1, <1>2, <2>1, <2>3 DEF TypedPut
    <3>2. ticket[c] > 0 /\ Fits(H(c), ticket[c], call[c].item.desc)
      BY <3>1 DEF IndHistory, InOrder
    <3>3. H(c) \in Handles /\ ticket[c] \in 0..puts
      BY <1>1, <1>3, <3>1, RunningHandle
    <3> QED BY <1>1, <1>4, <3>1, <3>2, <3>3, StillFits DEF Fits
  <2> QED BY <2>2, <2>3
<1>7. ASSUME NEW h \in Handles, store'[Key(h)] # None, store'[Key(h)].desc # Pickled
      PROVE  Fits(h, written[Key(h)], store[Key(h)].desc)'
  <2>1. CASE h = H(e) /\ pc[e] = "put_data"
    <3>1. store'[Key(h)] = call[e].item /\ TypedPut(e)
      BY <1>1, <1>7, <2>1, EffectOnKeys DEF Stored, TypedPut
    <3>2. ticket[e] > 0 /\ Fits(h, ticket[e], call[e].item.desc)
      BY <2>1, <3>1 DEF IndHistory, InOrder
    <3>3. written'[Key(h)] = ticket[e]
      BY <1>1, <1>3, <2>1, <3>2, WrittenOnKeys DEF Number
    <3>4. ticket[e] \in 0..puts
      BY <1>3
    <3> QED BY <1>1, <3>1, <3>2, <3>3, <3>4, StillFits DEF Fits
  <2>2. CASE h = H(e) /\ pc[e] = "delete_data"
    BY <1>1, <1>7, <2>2, EffectOnKeys
  <2>3. CASE h # H(e) \/ pc[e] \notin {"put_data", "delete_data"}
    <3>1. store'[Key(h)] = store[Key(h)] /\ written'[Key(h)] = written[Key(h)]
      BY <1>1, <2>3, EffectOnKeys, WrittenOnKeys
    <3>2. Fits(h, written[Key(h)], store[Key(h)].desc)
      BY <1>7, <3>1 DEF IndHistory, InOrder
    <3>3. written[Key(h)] \in 0..puts
      BY <1>3, KeysApart
    <3> QED BY <1>1, <3>1, <3>2, <3>3, StillFits DEF Fits
  <2> QED BY <2>1, <2>2, <2>3
<1> QED BY <1>2, <1>5, <1>6, <1>7 DEF InOrder

(* Where a step of a running call leads.                                   *)
LEMMA OtherStep ==
  ASSUME IndTyped, NEW e \in Clients, HOther(e)
  PROVE  /\ store' = store /\ CallStep(e) /\ buffer'[e] \in {buffer[e], None}
         /\ pc[e] # "put_data"
<1>1. CallStep(e)
  BY CallSteps DEF HOther, Progress
<1>2. ~ FetchData(e)
  BY DEF FetchData, HOther, Poll, TimeOut, Exists, FetchMetadata, FetchMissing,
         CheckMetadata, Contains
<1>3. store' = store /\ pc[e] # "put_data"
  BY DEF HOther, Poll, TimeOut, Exists, FetchMetadata, FetchMissing,
         CheckMetadata, Contains
<1>4. buffer'[e] \in {buffer[e], None}
  <2>1. CASE FetchMetadata(e)
    BY <2>1 DEF FetchMetadata, Finish, IndTyped, TypeOK
  <2>2. CASE ~ FetchMetadata(e)
    BY <1>2, <2>2, BareSteps DEF HOther, Progress
  <2> QED BY <2>1, <2>2
<1> QED BY <1>1, <1>3, <1>4

(* Every step keeps the numbers and the order.                             *)
LEMMA HistoryKept ==
  ASSUME IndHistory, Backend # "map", [HNext]_hvars
  PROVE  IndHistory'
<1>1. IndTyped /\ IndTyped' /\ [Next]_vars
  BY HistoryStep, TypedStep DEF IndHistory
<1>2. /\ pc \in [Clients -> Steps \cup {"idle"}] /\ call \in [Clients -> Calls \cup {None}]
      /\ buffer \in [Clients -> Item \cup {None}]
  BY <1>1 DEF IndTyped, TypeOK
<1>3. /\ puts \in Nat /\ ticket \in [Clients -> 0..puts] /\ fetched \in [Clients -> 0..puts]
      /\ written \in [Keys -> 0..puts]
      /\ \A c \in Clients : pc[c] # "put_data" => ticket[c] = 0
      /\ \A c \in Clients : buffer[c] # None /\ buffer[c].desc # Pickled
           => Fits(H(c), fetched[c], buffer[c].desc)
  BY DEF IndHistory, Numbered, InOrder
<1>4. ASSUME NEW e \in Clients, NEW k \in Calls, HBegin(e, k) PROVE IndHistory'
  <2>1. /\ store' = store /\ buffer' = buffer /\ buffer[e] = None /\ pc[e] = "idle"
        /\ pc' = [pc EXCEPT ![e] = Entry(k)] /\ call' = [call EXCEPT ![e] = k]
        /\ UNCHANGED <<puts, written>> /\ Keep(ticket, fetched)
    BY <1>1, <1>4 DEF HBegin, Begin, NothingWritten, IndTyped, AtStep
  <2>2. ASSUME NEW c \in Clients, TypedPut(c)' PROVE TypedPut(c) /\ call'[c] = call[c]
    <3>1. c # e
      <4>1. Entry(k) = "put_data" => k.item.desc = Pickled
        BY CallFields DEF Entry, GetBytes, WaitForBytes
      <4> QED BY <1>2, <2>1, <2>2, <4>1 DEF TypedPut
    <3> QED BY <1>2, <2>1, <2>2, <3>1 DEF TypedPut
  <2>3. \A c \in Clients : pc'[c] # "put_data" => ticket[c] = 0 \/ pc'[c] = "idle"
    BY <1>2, <1>3, <2>1
  <2>4. ASSUME NEW c \in Clients, buffer'[c] # None, buffer'[c].desc # Pickled
        PROVE  Fits(H(c), fetched[c], buffer'[c].desc) /\ H(c)' = H(c)
    BY <1>2, <1>3, <2>1, <2>4 DEF H
  <2>5. Numbered' /\ InOrder'
    BY <1>1, <1>3, <2>1, <2>2, <2>3, <2>4, NothingWrittenStep
  <2> QED BY <1>1, <2>5 DEF IndHistory
<1>5. ASSUME NEW e \in Clients, CallStep(e), store' = store, UNCHANGED <<puts, written>>,
             NEW f \in [Clients -> 0..puts], Keep(ticket, f),
             pc'[e] # "put_data", pc[e] = "put_data" => pc'[e] = "idle",
             \A c \in Clients \ {e} : f[c] = fetched[c],
             buffer'[e] # None /\ buffer'[e].desc # Pickled
               => Fits(H(e), f[e], buffer'[e].desc)
      PROVE  IndHistory'
  <2>1. call' = call /\ \A c \in Clients \ {e} : pc'[c] = pc[c] /\ buffer'[c] = buffer[c]
    BY <1>5 DEF CallStep
  <2>2. \A c \in Clients : TypedPut(c)' => TypedPut(c) /\ call'[c] = call[c]
    BY <1>5, <2>1 DEF TypedPut
  <2>3. \A c \in Clients : pc'[c] # "put_data" => ticket[c] = 0 \/ pc'[c] = "idle"
    BY <1>3, <1>5, <2>1
  <2>4. ASSUME NEW c \in Clients, buffer'[c] # None, buffer'[c].desc # Pickled
        PROVE  Fits(H(c), f[c], buffer'[c].desc) /\ H(c)' = H(c)
    BY <1>3, <1>5, <2>1, <2>4 DEF H
  <2>5. Numbered' /\ InOrder'
    BY <1>1, <1>5, <2>2, <2>3, <2>4, NothingWrittenStep
  <2> QED BY <1>1, <2>5 DEF IndHistory
<1>6. ASSUME NEW e \in Clients, HOther(e) \/ (HInterrupt(e) /\ store' = store /\ NothingWritten)
      PROVE  IndHistory'
  <2>1. /\ store' = store /\ CallStep(e) /\ buffer'[e] \in {buffer[e], None}
        /\ UNCHANGED <<puts, written>> /\ Keep(ticket, fetched)
        /\ pc[e] = "put_data" => pc'[e] = "idle"
    <3>1. CASE HOther(e)
      BY <1>1, <3>1, OtherStep DEF HOther, NothingWritten
    <3>2. CASE HInterrupt(e) /\ store' = store /\ NothingWritten
      BY <1>1, <1>2, <3>2, CallSteps DEF HInterrupt, Interrupt, Finish, NothingWritten
    <3> QED BY <1>6, <3>1, <3>2
  <2>2. pc'[e] # "put_data"
    <3>1. CASE HOther(e)
      BY <1>2, <3>1 DEF HOther, Poll, TimeOut, Exists, FetchMetadata, FetchMissing,
                        CheckMetadata, Contains, Goto, Finish
    <3>2. CASE HInterrupt(e)
      BY <1>2, <3>2 DEF HInterrupt, Interrupt, Finish
    <3> QED BY <1>6, <3>1, <3>2
  <2> QED BY <1>3, <1>5, <2>1, <2>2
<1>7. ASSUME NEW e \in Clients, HFetchData(e) PROVE IndHistory'
  <2> DEFINE f == [fetched EXCEPT ![e] = written[FetchKey(e)]]
  <2>1. /\ store' = store /\ pc[e] = "fetch" /\ buffer[e] = None
        /\ UNCHANGED <<puts, written>> /\ Keep(ticket, f)
        /\ FetchKey(e) = Key(H(e))
    BY <1>7 DEF HFetchData, FetchData, FetchKey
  <2>2. CallStep(e) /\ H(e) \in Handles
    BY <1>1, <1>7, <2>1, CallSteps, RunningHandle DEF HFetchData, Progress
  <2>3. f \in [Clients -> 0..puts] /\ f[e] = written[Key(H(e))]
    BY <1>3, <2>1, <2>2, KeysApart
  <2>4. pc'[e] # "put_data"
    BY <1>2, <1>7 DEF HFetchData, FetchData, Finish, GetBytes
  <2>5. buffer'[e] # None => buffer'[e] = store[Key(H(e))]
    BY <1>2, <1>7, <2>1 DEF HFetchData, FetchData, Finish
  <2>6. buffer'[e] # None /\ buffer'[e].desc # Pickled => Fits(H(e), f[e], buffer'[e].desc)
    BY <2>2, <2>3, <2>5 DEF IndHistory, InOrder
  <2>7. \A c \in Clients \ {e} : f[c] = fetched[c]
    BY <1>3
  <2> HIDE DEF f
  <2> QED BY <1>5, <2>1, <2>2, <2>3, <2>4, <2>6, <2>7
<1>8. ASSUME NEW e \in Clients,
             HWrite(e) \/ (HInterrupt(e) /\ store' = Effect(e) /\ Written(e))
      PROVE  IndHistory'
  <2>1. CallStep(e) /\ Written(e) /\ store' = Effect(e)
    BY <1>1, <1>8, CallSteps
       DEF HWrite, HInterrupt, Progress, PutMetadata, PutData, DeleteData, DeleteMetadata
  <2>2. Putting(e) => pc'[e] \in {"put_data", "idle"}
    BY <1>2, <1>8
       DEF HWrite, HInterrupt, PutMetadata, PutData, DeleteData, DeleteMetadata, Goto,
           Finish, Interrupt, Putting
  <2>3. buffer'[e] = None
    <3>1. CASE HWrite(e)
      <4>1. buffer[e] = None
        BY <1>1, <3>1 DEF HWrite, PutMetadata, PutData, DeleteData, DeleteMetadata,
                          IndTyped, AtStep
      <4> QED BY <1>2, <3>1, <4>1
              DEF HWrite, PutMetadata, PutData, DeleteData, DeleteMetadata, Goto, Finish
    <3>2. CASE HInterrupt(e)
      BY <1>2, <3>2 DEF HInterrupt, Interrupt, Finish
    <3> QED BY <1>8, <3>1, <3>2
  <2>4. Numbered' /\ InOrder'
    BY <1>1, <2>1, <2>2, <2>3, WrittenStep
  <2> QED BY <1>1, <2>4 DEF IndHistory
<1>9. CASE UNCHANGED hvars
  BY <1>1, <1>9 DEF hvars, vars, history, IndHistory, Numbered, InOrder, Fits, TypedPut, H
<1> QED BY <1>4, <1>6, <1>7, <1>8, <1>9 DEF HNext, HInterrupt

(* The numbers and the order hold in every run.                            *)
LEMMA HistoryAlways == ASSUME Backend # "map" PROVE HSpec => []IndHistory
<1>1. HInit => IndHistory
  <2> SUFFICES ASSUME HInit PROVE IndHistory
    OBVIOUS
  <2>1. IndTyped /\ Init
    BY TypedInit DEF HInit
  <2>2. Numbered
    <3>1. /\ puts = 0 /\ ticket = [c \in Clients |-> 0] /\ fetched = [c \in Clients |-> 0]
          /\ written = [key \in Keys |-> 0]
      BY DEF HInit
    <3>2. 0 \in Nat /\ 0 \in 0..0
      OBVIOUS
    <3> QED BY <3>1, <3>2 DEF Numbered
  <2>3. InOrder
    <3>1. \A h \in Handles : store[Key(h)] = None
      BY <2>1, KeysApart DEF Init
    <3>2. \A c \in Clients : buffer[c] = None /\ ~ TypedPut(c)
      BY <2>1 DEF Init, TypedPut
    <3> QED BY <3>1, <3>2 DEF InOrder
  <2> QED BY <2>1, <2>2, <2>3 DEF IndHistory
<1>2. IndHistory /\ [HNext]_hvars => IndHistory'
  BY HistoryKept
<1> QED BY <1>1, <1>2, PTL DEF HSpec

(* Over a backend that overwrites, whatever descriptors the puts of a      *)
(* handle have, whoever writes and deletes meanwhile and wherever clients  *)
(* stop: a typed read that succeeds decodes its data with the metadata of  *)
(* the put that wrote them, or of a later one.                             *)
THEOREM MetadataNeverOlder ==
  ASSUME Backend # "map" PROVE HSpec => MetadataIsNeverOlder
<1> DEFINE A == \A c \in Clients :
                  /\ pc[c] = "fetch" /\ buffer[c] # None /\ buffer[c].desc # Pickled
                  /\ pc'[c] = "idle" /\ outcome'[c].status = "ok"
                  => \/ written[MetadataKey(H(c))] > fetched[c]
                     \/ /\ written[MetadataKey(H(c))] = fetched[c]
                        /\ outcome'[c].desc = outcome'[c].item.desc
<1>1. ASSUME IndHistory, [HNext]_hvars PROVE A
  <2> SUFFICES ASSUME NEW c \in Clients,
                      pc[c] = "fetch", buffer[c] # None, buffer[c].desc # Pickled,
                      pc'[c] = "idle", outcome'[c].status = "ok"
               PROVE  \/ written[MetadataKey(H(c))] > fetched[c]
                      \/ /\ written[MetadataKey(H(c))] = fetched[c]
                         /\ outcome'[c].desc = outcome'[c].item.desc
    OBVIOUS
  <2>1. /\ IndTyped /\ H(c) \in Handles /\ call[c] \in Calls
        /\ call[c].req \in Request
        /\ pc \in [Clients -> Steps \cup {"idle"}] /\ outcome \in [Clients -> Outcome]
        /\ buffer[c] \in Item /\ buffer[c].desc \in Desc
    <3>1. IndTyped /\ H(c) \in Handles /\ call[c] \in Calls /\ pc[c] \in StepsOf(call[c].op)
      BY <1>1, RunningHandle DEF IndHistory
    <3>2. buffer[c] \in Item
      BY <3>1 DEF IndTyped, TypeOK
    <3> QED BY <3>1, <3>2, StepsApart, CallFields DEF IndTyped, TypeOK, Item
  <2>2. PICK d \in Clients : Progress(d) \/ TimeOut(d) \/ FetchMissing(d) \/ Interrupt(d)
    <3>1. Next
      BY <1>1, HistoryStep DEF vars
    <3>2. ~ \E d \in Clients, k \in Calls : Begin(d, k)
      BY <2>1 DEF Begin
    <3> QED BY <3>1, <3>2 DEF Next
  <2>3. d = c
    <3>1. CallStep(d)
      BY <2>1, <2>2, CallSteps
    <3> QED BY <3>1 DEF CallStep
  <2>4. FetchMetadata(c)
    <3>1. ASSUME NEW s, s # "ok" PROVE ~ Finish(c, Status(s))
      BY <2>1, <3>1 DEF Finish, Status
    <3>2. ~ FetchMissing(c) /\ ~ Interrupt(c)
      BY <3>1 DEF FetchMissing, Interrupt, Failures
    <3> QED BY <2>2, <2>3, <3>2
            DEF Progress, PutMetadata, PutData, Poll, Exists, FetchData, DeleteData,
                CheckMetadata, DeleteMetadata, Contains, TimeOut
  <2>5. /\ store[MetadataKey(H(c))] # None
        /\ outcome'[c] = Assemble(call[c].req, store[MetadataKey(H(c))], buffer[c])
    BY <2>1, <2>4 DEF FetchMetadata, FetchKey, Finish
  <2>6. /\ fetched[c] <= written[MetadataKey(H(c))]
        /\ fetched[c] = written[MetadataKey(H(c))]
             => buffer[c].desc = store[MetadataKey(H(c))]
    BY <1>1, <2>5 DEF IndHistory, InOrder, Fits
  <2>7. fetched[c] \in Int /\ written[MetadataKey(H(c))] \in Int
    BY <1>1, <2>1, KeysApart DEF IndHistory, Numbered
  <2>8. CASE fetched[c] = written[MetadataKey(H(c))]
    <3>1. outcome'[c] = Assemble(call[c].req, buffer[c].desc, buffer[c])
      BY <2>5, <2>6, <2>8
    <3> QED BY <2>1, <2>8, <3>1, AssembleWhole
  <2> QED BY <2>6, <2>7, <2>8
<1>2. IndHistory /\ [HNext]_hvars => [A]_hvars
  BY <1>1
<1>3. HSpec => [][A]_hvars
  BY <1>2, HistoryAlways, PTL DEF HSpec
<1> QED BY <1>3 DEF MetadataIsNeverOlder
=============================================================================
