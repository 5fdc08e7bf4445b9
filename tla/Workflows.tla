------------------------------ MODULE Workflows ------------------------------
(***************************************************************************)
(* The example programs that exchange items: producers, consumers and the  *)
(* drivers that start and join them.                                       *)
(*                                                                         *)
(* A program is a sequence of steps over an atomic store of items, which   *)
(* is what ItemExchange implements; no example deletes or overwrites.  The *)
(* processes of an example agree on names and types, and on time: they     *)
(* sleep and wait for so long, and hope that the others are done by then.  *)
(***************************************************************************)
EXTENDS PythonNumbers, Naturals, Sequences

CONSTANTS
  Second,    \* ticks per second
  Delay,     \* ticks that a step takes at most once it can be taken
  StartUp,   \* ticks until a new process is attached to the store
  MaxAge,    \* bound: ticks are counted up to here
  MayCrash,  \* processes may be killed
  None

ASSUME WorkflowsAssumption ==
  /\ {Second, Delay, StartUp, MaxAge} \subseteq Nat /\ MayCrash \in BOOLEAN

-----------------------------------------------------------------------------
(* Steps. *)

Scalar(dtype) == [rank |-> "scalar", dtype |-> dtype]
Tensor(dtype) == [rank |-> "tensor", dtype |-> dtype]
Pickle == [rank |-> "pickle", dtype |-> "any"]

(* A Python number and a NumPy array of these classes; a read in Python    *)
(* takes any dtype.                                                        *)
Number(class) == Scalar(ScalarDType(class))
NumPyArray(class) == Tensor(NumPyDTypes[class])
AnyDType == "any"

Launch == [op |-> "launch"]
Open   == [op |-> "open"]
Close  == [op |-> "close"]
Sleep(seconds)  == [op |-> "sleep", seconds |-> seconds]
Start(process)  == [op |-> "start", process |-> process]
Join(process)   == [op |-> "join", process |-> process]
Put(key, item)  == [op |-> "put", key |-> key, item |-> item]
Get(key, item)  == [op |-> "get", key |-> key, item |-> item]
Wait(key, item) == [op |-> "wait", key |-> key, item |-> item]

(* What a process does, and what it does after that or when it fails.      *)
Program(try, finally) == [try |-> try, finally |-> finally]
Straight(steps) == Program(steps, <<>>)

(* Why a process fails, None if it has not. *)
Reasons == {"no store", "missing", "timeout", "mismatch", "crashed"}

ASSUME NoneAssumption == None \notin Reasons

(* How long a wait lasts: what the call asks for or, with Dragon, what the *)
(* client was attached with; in seconds.                                   *)
Asked == 10
Attached == 5

-----------------------------------------------------------------------------
(* The examples. *)

Producer ==
  Straight(<<Launch,
    Put("some-int", Scalar("INT32")),
    Put("some-float", Scalar("FLOAT64")),
    Put("some-float-tensor", Tensor("FLOAT64")),
    Put("some-int-tensor", Tensor("INT32"))>>)

Consumer ==
  Straight(<<Launch,
    Get("some-int", Scalar("INT32")),
    Get("some-int-tensor", Tensor("INT32")),
    Get("some-float", Scalar("FLOAT64")),
    Get("some-float-tensor", Tensor("FLOAT64"))>>)

\* Mutation: the driver starts the consumer without waiting for the producer.
OneAfterTheOtherUnjoined ==
  <<Start("producer"), Start("consumer"), Join("producer"), Join("consumer")>>

OneAfterTheOther ==
  <<Start("producer"), Join("producer"), Start("consumer"), Join("consumer")>>

(* cpp-exchange with a DDict, and with a database of SmartSim's.           *)
DragonExchange ==
  [backend |-> "dragon",
   programs |-> [main |-> Straight(<<Open>> \o OneAfterTheOther \o <<Close>>),
                 producer |-> Producer, consumer |-> Consumer]]

RedisExchange ==
  [backend |-> "smartredis",
   programs |-> [main |-> Program(<<Start("db"), Sleep(3)>> \o OneAfterTheOther, <<Close>>),
                 db |-> Straight(<<Launch, Open>>),
                 producer |-> Producer, consumer |-> Consumer]]

App ==
  Straight(<<Launch,
    Wait("py-int", Scalar("INT32")),
    Wait("py-double", Scalar("FLOAT64")),
    Wait("py-np-float", Scalar("FLOAT32")),
    Wait("py-int-tensor", Tensor("INT32")),
    Wait("py-float-tensor", Tensor("FLOAT64")),
    Sleep(1), Put("cpp-double", Scalar("FLOAT64")),
    Sleep(1), Put("cpp-int", Scalar("INT32")),
    Sleep(1), Put("cpp-double-tensor", Tensor("FLOAT64")),
    Sleep(1), Put("cpp-long-tensor", Tensor("INT32"))>>)

Driver ==
  Program(<<Open, Launch, Start("app"),
    Sleep(1), Put("py-int", Number("int")),
    Sleep(1), Put("py-double", Number("float")),
    Sleep(1), Put("py-np-float", Number("float32")),
    Sleep(1), Put("py-int-tensor", NumPyArray("int32")),
    Sleep(1), Put("py-float-tensor", NumPyArray("float64")),
    Wait("cpp-double", Scalar(AnyDType)),
    Wait("cpp-int", Scalar(AnyDType)),
    Wait("cpp-double-tensor", Tensor(AnyDType)),
    Wait("cpp-long-tensor", Tensor(AnyDType)),
    Put("my-py-obj", Pickle), Get("my-py-obj", Pickle)>>,
    <<Join("app")>>)

PyCppExchange ==
  [backend |-> "dragon", programs |-> [main |-> Driver, app |-> App]]

Produce ==
  Straight(<<Launch,
    Put("samples", NumPyArray("float64")),
    Put("sample-count", Number("int"))>>)

(* With Redis the task sleeps first.                                       *)
Consume(nap) ==
  Straight(<<Launch>> \o nap \o <<
    Wait("samples", Tensor(AnyDType)),
    Wait("sample-count", Scalar(AnyDType))>>)

(* RHAPSODY runs both tasks and waits for both.                            *)
Rhapsody(backend, nap) ==
  [backend |-> backend,
   programs |-> [main |-> Straight(<<Open, Start("produce"), Start("consume"),
                                     Join("produce"), Join("consume"), Close>>),
                 produce |-> Produce, consume |-> Consume(nap)]]

InMemory ==
  [backend |-> "map",
   programs |-> [main |-> Straight(<<Open,
     Put("some-int", Scalar("INT32")), Put("some-double", Scalar("FLOAT64")),
     Get("some-int", Scalar("INT32")), Get("some-double", Scalar("FLOAT64")),
     Put("int-tensor", Tensor("INT32")), Put("double-tensor", Tensor("FLOAT64")),
     Get("int-tensor", Tensor("INT32")), Get("double-tensor", Tensor("FLOAT64"))>>)]]

Examples ==
  {DragonExchange, RedisExchange, PyCppExchange,
   Rhapsody("dragon", <<>>), Rhapsody("smartredis", <<Sleep(2)>>), InMemory}

-----------------------------------------------------------------------------
VARIABLES
  example,  \* the example that runs
  up,       \* the store is there
  items,    \* the items put so far, by key
  pc,       \* the step each process is at, 0 before it is started
  age,      \* ticks each process has slept or waited in its step
  late,     \* ticks for which its step could have been taken
  error     \* what ended or diverted a process

vars == <<example, up, items, pc, age, late, error>>

Processes == DOMAIN example.programs
Steps(p)  == example.programs[p].try \o example.programs[p].finally
Running(p) == pc[p] \in 1 .. Len(Steps(p))
Ended(p)   == pc[p] > Len(Steps(p))
Step(p)    == Steps(p)[pc[p]]
At(p, ops) == Running(p) /\ Step(p).op \in ops

\* Mutation: Dragon waits with the millisecond of its gets.
DeadlineFast(p) == IF example.backend = "dragon" THEN 0 ELSE Asked * Second

\* Mutation: Dragon waits without a limit.
DeadlineNever(p) == IF example.backend = "dragon" THEN MaxAge + 1 ELSE Asked * Second

(* wait_for_bytes of Dragon ignores its argument.                          *)
Deadline(p) ==
  (IF example.backend = "dragon" THEN Attached ELSE Asked) * Second

(* The step can be taken: time has passed, the item is there, the process  *)
(* to join has ended.                                                      *)
Ready(p) ==
  /\ Running(p)
  /\ At(p, {"sleep"}) => age[p] >= Step(p).seconds * Second
  /\ At(p, {"join"}) => Ended(Step(p).process)
  /\ At(p, {"wait"}) =>
       ~up \/ Step(p).key \in DOMAIN items \/ age[p] >= Deadline(p)

Arrive(p) ==
  /\ age' = [age EXCEPT ![p] = 0]
  /\ late' = [late EXCEPT ![p] = 0]
  /\ UNCHANGED example

Continue(p) ==
  /\ pc' = [pc EXCEPT ![p] = @ + 1]
  /\ Arrive(p)
  /\ UNCHANGED error

Raise(p, exception) ==
  /\ pc' = [pc EXCEPT ![p] = Len(example.programs[p].try) + 1]
  /\ error' = [error EXCEPT ![p] = exception]
  /\ Arrive(p)
  /\ UNCHANGED <<up, items>>

-----------------------------------------------------------------------------
Proceed(p) ==
  /\ At(p, {"launch", "sleep", "join"})
  /\ Continue(p)
  /\ UNCHANGED <<up, items>>

StartProcess(p) ==
  /\ At(p, {"start"})
  /\ pc' = [pc EXCEPT ![p] = @ + 1, ![Step(p).process] = 1]
  /\ Arrive(p)
  /\ UNCHANGED <<up, items, error>>

OpenStore(p) ==
  /\ At(p, {"open"})
  /\ up' = TRUE
  /\ Continue(p)
  /\ UNCHANGED items

CloseStore(p) ==
  /\ At(p, {"close"})
  /\ up' = FALSE
  /\ Continue(p)
  /\ UNCHANGED items

NoStore(p) ==
  /\ At(p, {"put", "get", "wait"}) /\ ~up
  /\ Raise(p, "no store")

PutItem(p) ==
  /\ At(p, {"put"}) /\ up
  /\ items' = [key \in DOMAIN items \cup {Step(p).key} |->
                IF key = Step(p).key THEN Step(p).item ELSE items[key]]
  /\ Continue(p)
  /\ UNCHANGED up

(* get_scalar, get_tensor, get_picklable and the waits.                    *)
ReadItem(p) ==
  /\ At(p, {"get", "wait"}) /\ up /\ Step(p).key \in DOMAIN items
  /\ LET found == items[Step(p).key]
         wanted == Step(p).item
     IN  IF found.rank = wanted.rank /\ wanted.dtype \in {found.dtype, AnyDType}
         THEN Continue(p) /\ UNCHANGED <<up, items>>
         ELSE Raise(p, "mismatch")

MissItem(p) ==
  /\ At(p, {"get", "wait"}) /\ up /\ Step(p).key \notin DOMAIN items
  /\ Raise(p, IF At(p, {"get"}) THEN "missing" ELSE "timeout")

Act(p) ==
  /\ Ready(p)
  /\ \/ Proceed(p)
     \/ StartProcess(p)
     \/ OpenStore(p)
     \/ CloseStore(p)
     \/ NoStore(p)
     \/ PutItem(p)
     \/ ReadItem(p)
     \/ MissItem(p)

(* A process is killed; nothing is cleaned up.                             *)
Crash(p) ==
  /\ MayCrash
  /\ Running(p)
  /\ pc' = [pc EXCEPT ![p] = Len(Steps(p)) + 1]
  /\ error' = [error EXCEPT ![p] = "crashed"]
  /\ Arrive(p)
  /\ UNCHANGED <<up, items>>

Patience(p) == IF At(p, {"launch"}) THEN StartUp ELSE Delay

Tick ==
  /\ \A p \in Processes : Ready(p) => late[p] < Patience(p)
  /\ late' = [p \in Processes |-> IF Ready(p) THEN late[p] + 1 ELSE late[p]]
  /\ age' = [p \in Processes |->
               IF At(p, {"sleep", "wait"}) /\ ~Ready(p) /\ age[p] < MaxAge
               THEN age[p] + 1 ELSE age[p]]
  /\ UNCHANGED <<example, up, items, pc, error>>

Init ==
  /\ example \in Examples
  /\ up = FALSE
  /\ items = <<>>
  /\ pc = [p \in Processes |-> IF p = "main" THEN 1 ELSE 0]
  /\ age = [p \in Processes |-> 0] /\ late = [p \in Processes |-> 0]
  /\ error = [p \in Processes |-> None]

Next ==
  \/ \E p \in Processes : Act(p) \/ Crash(p)
  \/ Tick

Spec == Init /\ [][Next]_vars

(* Time passes, and processes that can go on do (Tick forces them to).     *)
FairSpec ==
  /\ Spec
  /\ WF_vars(Tick)
  /\ WF_vars(\E p \in Processes : Act(p))

-----------------------------------------------------------------------------
(* Correctness. *)

(* Processes are in their programs and no later than they may be.          *)
TypeOK ==
  /\ example \in Examples /\ up \in BOOLEAN
  /\ \A key \in DOMAIN items :
       items[key] \in [rank : {"scalar", "tensor", "pickle"},
                       dtype : {NumPyDTypes[c] : c \in DOMAIN NumPyDTypes} \cup {AnyDType}]
  /\ \A p \in Processes :
       /\ pc[p] \in 0 .. Len(Steps(p)) + 1 /\ age[p] \in 0 .. MaxAge
       /\ late[p] \in 0 .. Patience(p)
       /\ error[p] \in Reasons \cup {None}

(* The two sides of every exchange agree on the rank and the type of what  *)
(* they exchange, across languages: a Python int is what app.cpp waits for *)
(* as an int, a float what it waits for as a double.                       *)
TypesAgree == \A p \in Processes : error[p] # "mismatch"

(* No process times out, misses a key or finds no store unless another has *)
(* crashed: sleeps and waits are long enough and joins in the right places *)
(* for programs that are this fast.                                        *)
FailuresHaveACause ==
  \A p \in Processes :
    error[p] \in {"timeout", "missing", "no store"} =>
      \E q \in Processes : error[q] = "crashed"

(* Whoever crashes when, the processes that were started end: every wait   *)
(* for a dead producer times out, and drivers join nobody for ever.        *)
EveryProgramEnds == <>[](\A p \in Processes : ~Running(p))
=============================================================================
