--------------------------- MODULE WorkflowsProofs ---------------------------
(***************************************************************************)
(* The examples agree on the types of what they exchange, proved for any   *)
(* speed of the processes; and their sleeps, waits and joins are enough    *)
(* for processes of the speed that FastEnough states.                      *)
(***************************************************************************)
EXTENDS Workflows, Integers, TLAPS

-----------------------------------------------------------------------------
(* What the programs are made of. *)

(* The item that the examples exchange under a key.                        *)
IntKeys         == {"some-int", "py-int", "cpp-int", "sample-count"}
DoubleKeys      == {"some-float", "some-double", "py-double", "cpp-double"}
FloatKeys       == {"py-np-float"}
IntTensorKeys   == {"some-int-tensor", "int-tensor", "py-int-tensor", "cpp-long-tensor"}
FloatTensorKeys == {"some-float-tensor", "double-tensor", "py-float-tensor",
                    "cpp-double-tensor", "samples"}

Keys == IntKeys \cup DoubleKeys \cup FloatKeys \cup IntTensorKeys \cup FloatTensorKeys
          \cup {"my-py-obj"}

Names == {"main", "db", "producer", "consumer", "app", "produce", "consume"}

Agreed(key) ==
  CASE key \in IntKeys         -> Scalar("INT32")
    [] key \in DoubleKeys      -> Scalar("FLOAT64")
    [] key \in FloatKeys       -> Scalar("FLOAT32")
    [] key \in IntTensorKeys   -> Tensor("INT32")
    [] key \in FloatTensorKeys -> Tensor("FLOAT64")
    [] OTHER                   -> Pickle

Items == [rank : {"scalar", "tensor", "pickle"},
          dtype : {NumPyDTypes[c] : c \in DOMAIN NumPyDTypes} \cup {AnyDType}]

(* Who reads an item asks for it as it is, or, in Python, for any dtype.   *)
Exchanges ==
  {s \in [op : {"put", "get", "wait"}, key : Keys, item : Items] :
     /\ s.item.rank = Agreed(s.key).rank
     /\ s.item.dtype \in {Agreed(s.key).dtype} \cup (IF s.op = "put" THEN {} ELSE {AnyDType})}

Starts == [op : {"start"}, process : Names]

PlainSteps ==
  Exchanges \cup [op : {"launch", "open", "close"}]
  \cup [op : {"sleep"}, seconds : Nat] \cup [op : {"join"}, process : Names]

(* What PythonNumbers makes of the numbers and arrays in the examples.     *)
LEMMA NumberTypes ==
  /\ Number("int") = Scalar("INT32") /\ Number("float") = Scalar("FLOAT64")
  /\ Number("float32") = Scalar("FLOAT32")
  /\ NumPyArray("int32") = Tensor("INT32") /\ NumPyArray("float64") = Tensor("FLOAT64")
BY DEF Number, NumPyArray, ScalarDType, Coerce, NumPyDTypes

LEMMA AgreedTypes ==
  /\ \A key \in IntKeys : Agreed(key) = Scalar("INT32")
  /\ \A key \in DoubleKeys : Agreed(key) = Scalar("FLOAT64")
  /\ \A key \in FloatKeys : Agreed(key) = Scalar("FLOAT32")
  /\ \A key \in IntTensorKeys : Agreed(key) = Tensor("INT32")
  /\ \A key \in FloatTensorKeys : Agreed(key) = Tensor("FLOAT64")
  /\ Agreed("my-py-obj") = Pickle
<1> USE DEF IntKeys, DoubleKeys, FloatKeys, IntTensorKeys, FloatTensorKeys
<1>1. \A key \in IntKeys : Agreed(key) = Scalar("INT32")
  BY DEF Agreed
<1>2. \A key \in DoubleKeys : Agreed(key) = Scalar("FLOAT64")
  BY DEF Agreed
<1>3. \A key \in FloatKeys : Agreed(key) = Scalar("FLOAT32")
  BY DEF Agreed
<1>4. \A key \in IntTensorKeys : Agreed(key) = Tensor("INT32")
  BY DEF Agreed
<1>5. \A key \in FloatTensorKeys : Agreed(key) = Tensor("FLOAT64")
  BY DEF Agreed
<1>6. Agreed("my-py-obj") = Pickle
  BY DEF Agreed
<1> HIDE DEF IntKeys, DoubleKeys, FloatKeys, IntTensorKeys, FloatTensorKeys
<1> QED BY <1>1, <1>2, <1>3, <1>4, <1>5, <1>6

LEMMA ItemTypes ==
  /\ \A t \in {"INT32", "FLOAT32", "FLOAT64", AnyDType} : Scalar(t) \in Items /\ Tensor(t) \in Items
  /\ Pickle \in Items
BY DEF Scalar, Tensor, Pickle, Items, NumPyDTypes, AnyDType

LEMMA OtherSteps ==
  /\ Launch \in PlainSteps /\ Open \in PlainSteps /\ Close \in PlainSteps
  /\ \A n \in Nat : Sleep(n) \in PlainSteps
  /\ \A p \in Names : Join(p) \in PlainSteps /\ Start(p) \in Starts
BY DEF PlainSteps, Launch, Open, Close, Sleep, Join, Start, Starts

LEMMA ScalarSteps ==
  ASSUME NEW key \in Keys, NEW t \in {"INT32", "FLOAT32", "FLOAT64"}, Agreed(key) = Scalar(t)
  PROVE  {Put(key, Scalar(t)), Get(key, Scalar(t)), Wait(key, Scalar(t)),
          Wait(key, Scalar(AnyDType))} \subseteq PlainSteps
BY ItemTypes DEF PlainSteps, Exchanges, Put, Get, Wait, Scalar

LEMMA TensorSteps ==
  ASSUME NEW key \in Keys, NEW t \in {"INT32", "FLOAT64"}, Agreed(key) = Tensor(t)
  PROVE  {Put(key, Tensor(t)), Get(key, Tensor(t)), Wait(key, Tensor(t)),
          Wait(key, Tensor(AnyDType))} \subseteq PlainSteps
BY ItemTypes DEF PlainSteps, Exchanges, Put, Get, Wait, Tensor

LEMMA IntSteps ==
  \A key \in IntKeys :
    {Put(key, Scalar("INT32")), Get(key, Scalar("INT32")), Wait(key, Scalar("INT32")),
     Wait(key, Scalar(AnyDType))} \subseteq PlainSteps
BY ScalarSteps, AgreedTypes DEF Keys

LEMMA DoubleSteps ==
  \A key \in DoubleKeys :
    {Put(key, Scalar("FLOAT64")), Get(key, Scalar("FLOAT64")), Wait(key, Scalar("FLOAT64")),
     Wait(key, Scalar(AnyDType))} \subseteq PlainSteps
BY ScalarSteps, AgreedTypes DEF Keys

LEMMA FloatSteps ==
  \A key \in FloatKeys :
    {Put(key, Scalar("FLOAT32")), Wait(key, Scalar("FLOAT32"))} \subseteq PlainSteps
BY ScalarSteps, AgreedTypes DEF Keys

LEMMA IntTensorSteps ==
  \A key \in IntTensorKeys :
    {Put(key, Tensor("INT32")), Get(key, Tensor("INT32")), Wait(key, Tensor("INT32")),
     Wait(key, Tensor(AnyDType))} \subseteq PlainSteps
BY TensorSteps, AgreedTypes DEF Keys

LEMMA FloatTensorSteps ==
  \A key \in FloatTensorKeys :
    {Put(key, Tensor("FLOAT64")), Get(key, Tensor("FLOAT64")), Wait(key, Tensor("FLOAT64")),
     Wait(key, Tensor(AnyDType))} \subseteq PlainSteps
BY TensorSteps, AgreedTypes DEF Keys

(* Each program exchanges only what is agreed.                             *)
LEMMA ProducerPlain == Producer.try \in Seq(PlainSteps) /\ Producer.finally \in Seq(PlainSteps)
BY IntSteps, DoubleSteps, IntTensorSteps, FloatTensorSteps, OtherSteps
   DEF Producer, Straight, Program, IntKeys, DoubleKeys, IntTensorKeys, FloatTensorKeys

LEMMA ConsumerPlain == Consumer.try \in Seq(PlainSteps) /\ Consumer.finally \in Seq(PlainSteps)
BY IntSteps, DoubleSteps, IntTensorSteps, FloatTensorSteps, OtherSteps
   DEF Consumer, Straight, Program, IntKeys, DoubleKeys, IntTensorKeys, FloatTensorKeys

LEMMA AppPlain == App.try \in Seq(PlainSteps) /\ App.finally \in Seq(PlainSteps)
BY IntSteps, DoubleSteps, FloatSteps, IntTensorSteps, FloatTensorSteps, OtherSteps
   DEF App, Straight, Program, IntKeys, DoubleKeys, FloatKeys, IntTensorKeys, FloatTensorKeys

LEMMA PickleSteps == {Put("my-py-obj", Pickle), Get("my-py-obj", Pickle)} \subseteq PlainSteps
BY ItemTypes, AgreedTypes DEF PlainSteps, Exchanges, Put, Get, Pickle, Keys

LEMMA DriverSteps ==
  Driver.try \in Seq(PlainSteps \cup Starts) /\ Driver.finally \in Seq(PlainSteps)
<1>1. /\ Put("py-int", Number("int")) \in PlainSteps
      /\ Wait("cpp-int", Scalar(AnyDType)) \in PlainSteps
  BY IntSteps, NumberTypes DEF IntKeys
<1>2. /\ Put("py-double", Number("float")) \in PlainSteps
      /\ Wait("cpp-double", Scalar(AnyDType)) \in PlainSteps
  BY DoubleSteps, NumberTypes DEF DoubleKeys
<1>3. Put("py-np-float", Number("float32")) \in PlainSteps
  BY FloatSteps, NumberTypes DEF FloatKeys
<1>4. /\ Put("py-int-tensor", NumPyArray("int32")) \in PlainSteps
      /\ Wait("cpp-long-tensor", Tensor(AnyDType)) \in PlainSteps
  BY IntTensorSteps, NumberTypes DEF IntTensorKeys
<1>5. /\ Put("py-float-tensor", NumPyArray("float64")) \in PlainSteps
      /\ Wait("cpp-double-tensor", Tensor(AnyDType)) \in PlainSteps
  BY FloatTensorSteps, NumberTypes DEF FloatTensorKeys
<1>6. Sleep(1) \in PlainSteps /\ Start("app") \in Starts /\ Join("app") \in PlainSteps
  BY OtherSteps DEF Names
<1> QED BY <1>1, <1>2, <1>3, <1>4, <1>5, <1>6, OtherSteps, PickleSteps DEF Driver, Program

LEMMA ProducePlain == Produce.try \in Seq(PlainSteps) /\ Produce.finally \in Seq(PlainSteps)
BY IntSteps, FloatTensorSteps, OtherSteps, NumberTypes
   DEF Produce, Straight, Program, IntKeys, FloatTensorKeys

LEMMA ConsumePlain ==
  ASSUME NEW nap \in Seq(PlainSteps)
  PROVE  Consume(nap).try \in Seq(PlainSteps) /\ Consume(nap).finally \in Seq(PlainSteps)
BY IntSteps, FloatTensorSteps, OtherSteps
   DEF Consume, Straight, Program, IntKeys, FloatTensorKeys

LEMMA InMemoryPlain ==
  /\ InMemory.programs["main"].try \in Seq(PlainSteps)
  /\ InMemory.programs["main"].finally \in Seq(PlainSteps)
<1>1. /\ Put("some-int", Scalar("INT32")) \in PlainSteps
      /\ Get("some-int", Scalar("INT32")) \in PlainSteps
  BY IntSteps DEF IntKeys
<1>2. /\ Put("some-double", Scalar("FLOAT64")) \in PlainSteps
      /\ Get("some-double", Scalar("FLOAT64")) \in PlainSteps
  BY DoubleSteps DEF DoubleKeys
<1>3. /\ Put("int-tensor", Tensor("INT32")) \in PlainSteps
      /\ Get("int-tensor", Tensor("INT32")) \in PlainSteps
  BY IntTensorSteps DEF IntTensorKeys
<1>4. /\ Put("double-tensor", Tensor("FLOAT64")) \in PlainSteps
      /\ Get("double-tensor", Tensor("FLOAT64")) \in PlainSteps
  BY FloatTensorSteps DEF FloatTensorKeys
<1> DEFINE steps == <<Open,
     Put("some-int", Scalar("INT32")), Put("some-double", Scalar("FLOAT64")),
     Get("some-int", Scalar("INT32")), Get("some-double", Scalar("FLOAT64")),
     Put("int-tensor", Tensor("INT32")), Put("double-tensor", Tensor("FLOAT64")),
     Get("int-tensor", Tensor("INT32")), Get("double-tensor", Tensor("FLOAT64"))>>
<1>5. steps \in Seq(PlainSteps)
  BY <1>1, <1>2, <1>3, <1>4, OtherSteps
<1>6. InMemory.programs["main"] = Straight(steps)
  BY DEF InMemory
<1> HIDE DEF steps
<1> QED BY <1>5, <1>6 DEF Straight, Program

LEMMA Concat ==
  ASSUME NEW S, NEW s \in Seq(S), NEW t \in Seq(S)
  PROVE  /\ s \o t \in Seq(S) /\ Len(s \o t) = Len(s) + Len(t)
         /\ \A i \in 1 .. Len(s) + Len(t) :
              (s \o t)[i] = IF i <= Len(s) THEN s[i] ELSE t[i - Len(s)]
OBVIOUS

(* A program starts others once each.                                      *)
StartsOnce(steps, others) ==
  \A i \in 1 .. Len(steps) :
    steps[i].op = "start" =>
      /\ steps[i].process \in others
      /\ \A j \in 1 .. Len(steps) :
           steps[j].op = "start" /\ steps[j].process = steps[i].process => i = j

(* The drivers start each process once.                                    *)
LEMMA DragonStarts ==
  StartsOnce(<<Open>> \o OneAfterTheOther \o <<Close>>, {"producer", "consumer"})
<1> DEFINE steps == <<Open>> \o OneAfterTheOther \o <<Close>>
<1>1. /\ Len(steps) = 6 /\ steps[1] = Open /\ steps[2] = Start("producer")
      /\ steps[3] = Join("producer") /\ steps[4] = Start("consumer")
      /\ steps[5] = Join("consumer") /\ steps[6] = Close
  BY DEF OneAfterTheOther
<1> HIDE DEF steps
<1>2. \A i \in 1 .. 6 : i \in {1, 2, 3, 4, 5, 6}
  OBVIOUS
<1>3. StartsOnce(steps, {"producer", "consumer"})
  BY <1>1, <1>2 DEF StartsOnce, Open, Close, Start, Join
<1> QED BY <1>3 DEF steps

LEMMA RedisStarts ==
  StartsOnce(<<Start("db"), Sleep(3)>> \o OneAfterTheOther, {"db", "producer", "consumer"})
<1> DEFINE steps == <<Start("db"), Sleep(3)>> \o OneAfterTheOther
<1>1. /\ Len(steps) = 6 /\ steps[1] = Start("db") /\ steps[2] = Sleep(3)
      /\ steps[3] = Start("producer") /\ steps[4] = Join("producer")
      /\ steps[5] = Start("consumer") /\ steps[6] = Join("consumer")
  BY DEF OneAfterTheOther
<1> HIDE DEF steps
<1>2. \A i \in 1 .. 6 : i \in {1, 2, 3, 4, 5, 6}
  OBVIOUS
<1>3. StartsOnce(steps, {"db", "producer", "consumer"})
  BY <1>1, <1>2 DEF StartsOnce, Sleep, Start, Join
<1> QED BY <1>3 DEF steps

LEMMA DriverStarts == StartsOnce(Driver.try, {"app"})
<1> DEFINE steps == Driver.try
<1>1. /\ Len(steps) = 19 /\ steps[3] = Start("app")
      /\ steps[1] = Open /\ steps[2] = Launch
      /\ {steps[4], steps[6], steps[8], steps[10], steps[12]} = {Sleep(1)}
      /\ steps[5].op = "put" /\ steps[7].op = "put" /\ steps[9].op = "put"
      /\ steps[11].op = "put" /\ steps[13].op = "put" /\ steps[18].op = "put"
      /\ steps[14].op = "wait" /\ steps[15].op = "wait" /\ steps[16].op = "wait"
      /\ steps[17].op = "wait" /\ steps[19].op = "get"
  BY DEF Driver, Program, Put, Get, Wait
<1> HIDE DEF steps
<1>2. \A i \in 1 .. 19 : i # 3 =>
        i \in {1, 2, 4, 5, 6, 7, 8, 9, 10, 11, 12, 13, 14, 15, 16, 17, 18, 19}
  OBVIOUS
<1>3. \A i \in 1 .. 19 : i # 3 => steps[i].op # "start"
  BY <1>1, <1>2 DEF Open, Launch, Sleep
<1>4. steps[3].op = "start" /\ steps[3].process = "app"
  BY <1>1 DEF Start
<1>5. StartsOnce(steps, {"app"})
  BY <1>1, <1>3, <1>4 DEF StartsOnce
<1> QED BY <1>5 DEF steps

LEMMA RhapsodyStarts ==
  StartsOnce(<<Open, Start("produce"), Start("consume"), Join("produce"), Join("consume"), Close>>,
             {"produce", "consume"})
BY DEF StartsOnce, Open, Close, Start, Join

(* Only main starts others, and not after it has failed.                   *)
WellFormed(e) ==
  /\ "main" \in DOMAIN e.programs
  /\ \A p \in DOMAIN e.programs :
       /\ e.programs[p].try \in Seq(IF p = "main" THEN PlainSteps \cup Starts ELSE PlainSteps)
       /\ e.programs[p].finally \in Seq(PlainSteps)
  /\ StartsOnce(e.programs["main"].try, DOMAIN e.programs \ {"main"})

LEMMA PlainAreSteps == Seq(PlainSteps) \subseteq Seq(PlainSteps \cup Starts)
OBVIOUS

LEMMA ExamplesAreWellFormed == \A e \in Examples : WellFormed(e)
<1>1. WellFormed(DragonExchange)
  <2>1. OneAfterTheOther \in Seq(PlainSteps \cup Starts)
    BY OtherSteps DEF OneAfterTheOther, Names
  <2>2. <<Open>> \o OneAfterTheOther \o <<Close>> \in Seq(PlainSteps \cup Starts)
    <3>1. <<Open>> \in Seq(PlainSteps \cup Starts) /\ <<Close>> \in Seq(PlainSteps \cup Starts)
      BY OtherSteps
    <3> QED BY <2>1, <3>1, Concat
  <2> DEFINE steps == <<Open>> \o OneAfterTheOther \o <<Close>>
  <2>3. /\ DOMAIN DragonExchange.programs = {"main", "producer", "consumer"}
        /\ DragonExchange.programs["main"] = Straight(steps)
        /\ DragonExchange.programs["producer"] = Producer
        /\ DragonExchange.programs["consumer"] = Consumer
    BY DEF DragonExchange
  <2>4. StartsOnce(steps, {"producer", "consumer"})
    BY DragonStarts
  <2>5. {"main", "producer", "consumer"} \ {"main"} = {"producer", "consumer"}
    OBVIOUS
  <2> HIDE DEF steps
  <2>6. Straight(steps).try = steps /\ Straight(steps).finally \in Seq(PlainSteps)
    BY DEF Straight, Program
  <2> QED BY <2>2, <2>3, <2>4, <2>5, <2>6, ProducerPlain, ConsumerPlain DEF WellFormed, steps
<1>2. WellFormed(RedisExchange)
  <2>1. OneAfterTheOther \in Seq(PlainSteps \cup Starts)
    BY OtherSteps DEF OneAfterTheOther, Names
  <2>2. <<Start("db"), Sleep(3)>> \o OneAfterTheOther \in Seq(PlainSteps \cup Starts)
    <3>1. <<Start("db"), Sleep(3)>> \in Seq(PlainSteps \cup Starts)
      BY OtherSteps DEF Names
    <3> QED BY <2>1, <3>1, Concat
  <2> DEFINE steps == <<Start("db"), Sleep(3)>> \o OneAfterTheOther
  <2>3. /\ DOMAIN RedisExchange.programs = {"main", "db", "producer", "consumer"}
        /\ RedisExchange.programs["main"] = Program(steps, <<Close>>)
        /\ RedisExchange.programs["db"] = Straight(<<Launch, Open>>)
        /\ RedisExchange.programs["producer"] = Producer
        /\ RedisExchange.programs["consumer"] = Consumer
    BY DEF RedisExchange
  <2>4. StartsOnce(steps, {"db", "producer", "consumer"})
    BY RedisStarts
  <2>5. {"main", "db", "producer", "consumer"} \ {"main"} = {"db", "producer", "consumer"}
    OBVIOUS
  <2> HIDE DEF steps
  <2>6. Program(steps, <<Close>>).try = steps /\ Program(steps, <<Close>>).finally \in Seq(PlainSteps)
    BY OtherSteps DEF Program
  <2>7. /\ Straight(<<Launch, Open>>).try \in Seq(PlainSteps)
        /\ Straight(<<Launch, Open>>).finally \in Seq(PlainSteps)
    BY OtherSteps DEF Straight, Program
  <2> QED BY <2>2, <2>3, <2>4, <2>5, <2>6, <2>7, ProducerPlain, ConsumerPlain DEF WellFormed, steps
<1>3. WellFormed(PyCppExchange)
  <2>1. /\ DOMAIN PyCppExchange.programs = {"main", "app"}
        /\ PyCppExchange.programs["main"] = Driver
        /\ PyCppExchange.programs["app"] = App
    BY DEF PyCppExchange
  <2>2. {"main", "app"} \ {"main"} = {"app"}
    OBVIOUS
  <2> QED BY <2>1, <2>2, DriverSteps, DriverStarts, AppPlain DEF WellFormed
<1>4. ASSUME NEW backend, NEW nap \in Seq(PlainSteps) PROVE WellFormed(Rhapsody(backend, nap))
  <2> DEFINE steps == <<Open, Start("produce"), Start("consume"),
                        Join("produce"), Join("consume"), Close>>
  <2>1. /\ DOMAIN Rhapsody(backend, nap).programs = {"main", "produce", "consume"}
        /\ Rhapsody(backend, nap).programs["main"] = Straight(steps)
        /\ Rhapsody(backend, nap).programs["produce"] = Produce
        /\ Rhapsody(backend, nap).programs["consume"] = Consume(nap)
    BY DEF Rhapsody
  <2>2. {"main", "produce", "consume"} \ {"main"} = {"produce", "consume"}
    OBVIOUS
  <2>3. steps \in Seq(PlainSteps \cup Starts)
    BY OtherSteps DEF Names
  <2>4. StartsOnce(steps, {"produce", "consume"})
    BY RhapsodyStarts
  <2> HIDE DEF steps
  <2>5. Straight(steps).try = steps /\ Straight(steps).finally \in Seq(PlainSteps)
    BY DEF Straight, Program
  <2> QED BY <1>4, <2>1, <2>2, <2>3, <2>4, <2>5, ProducePlain, ConsumePlain DEF WellFormed
<1>5. WellFormed(InMemory)
  <2>1. DOMAIN InMemory.programs = {"main"}
    BY DEF InMemory
  <2>2. \A s \in PlainSteps : s.op # "start"
    BY DEF PlainSteps, Exchanges
  <2>3. StartsOnce(InMemory.programs["main"].try, {"main"} \ {"main"})
    BY <2>2, InMemoryPlain DEF StartsOnce
  <2> QED BY <2>1, <2>3, InMemoryPlain, PlainAreSteps DEF WellFormed
<1>6. <<>> \in Seq(PlainSteps) /\ <<Sleep(2)>> \in Seq(PlainSteps)
  BY OtherSteps
<1> QED BY <1>1, <1>2, <1>3, <1>4, <1>5, <1>6 DEF Examples

-----------------------------------------------------------------------------
(* The steps of the example that runs. *)

(* The same of try and finally put together.                               *)
LEMMA StepFacts ==
  ASSUME example \in Examples, NEW p \in Processes
  PROVE  /\ Len(Steps(p)) \in Nat
         /\ Len(example.programs[p].try) \in 0 .. Len(Steps(p))
         /\ \A i \in 1 .. Len(Steps(p)) :
              /\ Steps(p)[i] \in PlainSteps \cup Starts
              /\ Steps(p)[i].op = "start" =>
                   /\ p = "main" /\ i <= Len(example.programs[p].try)
                   /\ Steps(p)[i].process \in Processes \ {"main"}
                   /\ \A j \in 1 .. Len(Steps(p)) :
                        Steps(p)[j].op = "start" /\ Steps(p)[j].process = Steps(p)[i].process
                          => i = j
<1> DEFINE try == example.programs[p].try  finally == example.programs[p].finally
<1>1. /\ try \in Seq(PlainSteps \cup Starts) /\ (p # "main" => try \in Seq(PlainSteps))
      /\ finally \in Seq(PlainSteps)
      /\ p = "main" => StartsOnce(try, Processes \ {"main"})
  BY ExamplesAreWellFormed, PlainAreSteps DEF WellFormed, Processes
<1>2. finally \in Seq(PlainSteps \cup Starts)
  BY <1>1, PlainAreSteps
<1> HIDE DEF try, finally
<1>3. Steps(p) = try \o finally
  BY DEF Steps, try, finally
<1>4. /\ Steps(p) \in Seq(PlainSteps \cup Starts) /\ Len(Steps(p)) = Len(try) + Len(finally)
      /\ \A i \in 1 .. Len(try) + Len(finally) :
           Steps(p)[i] = IF i <= Len(try) THEN try[i] ELSE finally[i - Len(try)]
  BY <1>1, <1>2, <1>3, Concat
<1>5. Len(try) \in Nat /\ Len(finally) \in Nat
  BY <1>1
<1>6. \A s \in PlainSteps : s.op # "start"
  BY DEF PlainSteps, Exchanges
<1>7. ASSUME NEW i \in 1 .. Len(Steps(p)), Steps(p)[i].op = "start"
      PROVE  p = "main" /\ i \in 1 .. Len(try) /\ Steps(p)[i] = try[i]
  <2>1. i <= Len(try)
    <3> SUFFICES ASSUME i > Len(try) PROVE FALSE
      BY <1>5
    <3>1. i - Len(try) \in 1 .. Len(finally) /\ Steps(p)[i] = finally[i - Len(try)]
      BY <1>4, <1>5
    <3>2. finally[i - Len(try)] \in PlainSteps
      BY <1>1, <3>1
    <3> QED BY <1>6, <1>7, <3>1, <3>2
  <2>2. i \in 1 .. Len(try) /\ Steps(p)[i] = try[i]
    BY <1>4, <1>5, <2>1
  <2>3. p = "main"
    BY <1>1, <1>6, <1>7, <2>2
  <2> QED BY <2>2, <2>3
<1>8. ASSUME NEW i \in 1 .. Len(Steps(p)), Steps(p)[i].op = "start"
      PROVE  /\ Steps(p)[i].process \in Processes \ {"main"}
             /\ \A j \in 1 .. Len(Steps(p)) :
                  Steps(p)[j].op = "start" /\ Steps(p)[j].process = Steps(p)[i].process => i = j
  BY <1>1, <1>7, <1>8 DEF StartsOnce
<1>9. \A i \in 1 .. Len(Steps(p)) : Steps(p)[i] \in PlainSteps \cup Starts
  BY <1>4
<1> QED BY <1>4, <1>5, <1>7, <1>8, <1>9 DEF try

(* What a read asks for is what the examples agree on, and a put puts it.  *)
LEMMA ExchangeFacts ==
  ASSUME NEW s \in PlainSteps \cup Starts, s.op \in {"put", "get", "wait"}
  PROVE  /\ s.key \in Keys /\ s.item.rank = Agreed(s.key).rank
         /\ s.item.dtype \in {Agreed(s.key).dtype, AnyDType}
         /\ s.op = "put" => s.item = Agreed(s.key)
<1>1. s \in Exchanges
  BY DEF PlainSteps, Starts, Exchanges
<1>2. s.item \in Items /\ Agreed(s.key) \in Items
  BY <1>1, ItemTypes DEF Exchanges, Agreed
<1>3. s.op = "put" => s.item.dtype = Agreed(s.key).dtype
  BY <1>1 DEF Exchanges
<1>4. s.op = "put" => s.item = Agreed(s.key)
  BY <1>1, <1>2, <1>3 DEF Exchanges, Items
<1> QED BY <1>1, <1>4 DEF Exchanges

-----------------------------------------------------------------------------
(* The invariant: what is in the store is what is agreed, no process has   *)
(* found anything else, and none is where it cannot be.                    *)

Expected == (Reasons \ {"mismatch"}) \cup {None}

ItemsAgree ==
  DOMAIN items \subseteq Keys /\ \A key \in DOMAIN items : items[key] = Agreed(key)

(* A process is late only once it has been started.                        *)
Clocks ==
  /\ age \in [Processes -> 0 .. MaxAge] /\ late \in [Processes -> Nat]
  /\ \A p \in Processes : late[p] <= Patience(p) /\ (pc[p] = 0 => late[p] = 0)

Places ==
  /\ pc \in [Processes -> Nat]
  /\ \A p \in Processes : pc[p] <= Len(Steps(p)) + 1

(* A process is started from nothing.                                      *)
NotYet ==
  \A i \in 1 .. Len(Steps("main")) :
    Steps("main")[i].op = "start" /\ pc["main"] <= i => pc[Steps("main")[i].process] = 0

Moving == Clocks /\ Places /\ NotYet /\ error \in [Processes -> Expected]

Inv == example \in Examples /\ up \in BOOLEAN /\ ItemsAgree /\ Moving

LEMMA MainRuns == example \in Examples => "main" \in Processes
BY ExamplesAreWellFormed DEF WellFormed, Processes

LEMMA InvInit == Init => Inv
<1> SUFFICES ASSUME Init PROVE Inv
  OBVIOUS
<1>1. example \in Examples /\ WellFormed(example) /\ "main" \in Processes
  BY ExamplesAreWellFormed DEF Init, WellFormed, Processes
<1>2. \A p \in Processes : pc[p] = IF p = "main" THEN 1 ELSE 0
  BY DEF Init
<1>3. NotYet
  BY <1>1, <1>2, StepFacts DEF NotYet
<1>4. Places
  BY <1>1, <1>2, StepFacts DEF Init, Places
<1>5. Clocks
  BY WorkflowsAssumption DEF Init, Clocks, Patience
<1>6. error \in [Processes -> Expected]
  BY DEF Init, Expected
<1>7. ItemsAgree /\ up \in BOOLEAN
  <2>1. DOMAIN <<>> = {}
    OBVIOUS
  <2> QED BY <2>1 DEF Init, ItemsAgree
<1> QED BY <1>1, <1>3, <1>4, <1>5, <1>6, <1>7 DEF Inv, Moving

(* Nobody but the process that acts moves, or it starts another.           *)
LEMMA Moves ==
  ASSUME Inv, NEW p \in Processes, Running(p), Arrive(p),
         NEW n \in 1 .. Len(Steps(p)) + 1,
         n = pc[p] + 1 \/ n > Len(example.programs[p].try),
         pc' = [pc EXCEPT ![p] = n], error' \in [Processes -> Expected]
  PROVE  Moving'
<1>1. /\ example' = example /\ Processes' = Processes /\ example \in Examples
      /\ \A q \in Processes : Steps(q)' = Steps(q)
  BY DEF Arrive, Processes, Steps, Inv
<1>2. /\ pc \in [Processes -> Nat] /\ pc[p] \in 1 .. Len(Steps(p)) /\ Len(Steps(p)) \in Nat
      /\ \A q \in Processes : pc'[q] = IF q = p THEN n ELSE pc[q]
  BY <1>1, StepFacts DEF Inv, Moving, Places, Running
<1>3. Places'
  <2>1. pc' \in [Processes -> Nat]
    BY <1>2
  <2>2. \A q \in Processes : pc'[q] <= Len(Steps(q)) + 1
    BY <1>2 DEF Inv, Moving, Places
  <2> QED BY <1>1, <2>1, <2>2 DEF Places
<1>4. Clocks'
  <2>1. /\ age' \in [Processes -> 0 .. MaxAge] /\ late' \in [Processes -> Nat]
        /\ late'[p] = 0 /\ \A q \in Processes : q # p => late'[q] = late[q]
    BY WorkflowsAssumption DEF Arrive, Inv, Moving, Clocks
  <2>2. \A q \in Processes : q # p => (Patience(q)' = Patience(q) /\ pc'[q] = pc[q])
    BY <1>1, <1>2 DEF Patience, At, Running, Step
  <2>3. Patience(p)' \in Nat
    BY WorkflowsAssumption DEF Patience
  <2> QED BY <1>1, <1>2, <2>1, <2>2, <2>3 DEF Clocks, Inv, Moving
<1>5. NotYet'
  <2> SUFFICES ASSUME NEW i \in 1 .. Len(Steps("main")),
                      Steps("main")[i].op = "start", pc'["main"] <= i
               PROVE  pc'[Steps("main")[i].process] = 0
    BY <1>1, MainRuns DEF NotYet
  <2>1. /\ "main" \in Processes /\ i <= Len(example.programs["main"].try)
        /\ Steps("main")[i].process \in Processes
        /\ Len(Steps("main")) \in Nat /\ Len(example.programs["main"].try) \in Nat
    BY <1>1, StepFacts, MainRuns
  <2>2. pc["main"] <= i
    BY <1>2, <2>1
  <2>3. pc[Steps("main")[i].process] = 0
    BY <2>2 DEF Inv, Moving, NotYet
  <2> QED BY <1>2, <2>1, <2>3
<1> QED BY <1>1, <1>3, <1>4, <1>5 DEF Moving

LEMMA Continues ==
  ASSUME Inv, NEW p \in Processes, Running(p), Continue(p)
  PROVE  Moving'
<1>1. pc[p] + 1 \in 1 .. Len(Steps(p)) + 1 /\ pc' = [pc EXCEPT ![p] = pc[p] + 1]
  BY StepFacts DEF Running, Continue, Inv
<1>2. error' \in [Processes -> Expected]
  BY DEF Continue, Inv, Moving
<1> QED BY <1>1, <1>2, Moves DEF Continue

LEMMA Raises ==
  ASSUME Inv, NEW p \in Processes, Running(p), NEW x \in Expected, Raise(p, x)
  PROVE  Moving' /\ up' = up /\ items' = items /\ example' = example
<1> DEFINE n == Len(example.programs[p].try) + 1
<1>1. n \in 1 .. Len(Steps(p)) + 1 /\ n > Len(example.programs[p].try)
  <2> DEFINE l == Len(example.programs[p].try)  m == Len(Steps(p))
  <2>1. l \in 0 .. m /\ m \in Nat
    BY StepFacts DEF Inv
  <2> HIDE DEF l, m
  <2>2. l + 1 \in 1 .. m + 1 /\ l + 1 > l
    BY <2>1
  <2> QED BY <2>2 DEF l, m
<1>2. error' \in [Processes -> Expected]
  BY DEF Raise, Inv, Moving
<1>3. pc' = [pc EXCEPT ![p] = n] /\ Arrive(p)
  BY DEF Raise
<1> HIDE DEF n
<1>4. Moving'
  BY <1>1, <1>2, <1>3, Moves
<1> QED BY <1>4 DEF Raise, Arrive

LEMMA Crashes ==
  ASSUME Inv, NEW p \in Processes, Crash(p)
  PROVE  Moving'
<1>1. /\ Len(example.programs[p].try) \in 0 .. Len(Steps(p)) /\ Len(Steps(p)) \in Nat
  BY StepFacts DEF Inv
<1>2. error' \in [Processes -> Expected]
  BY DEF Crash, Inv, Moving, Expected, Reasons
<1>3. Len(Steps(p)) + 1 \in 1 .. Len(Steps(p)) + 1
      /\ Len(Steps(p)) + 1 > Len(example.programs[p].try)
  BY <1>1
<1> QED BY <1>2, <1>3, Moves DEF Crash

(* The process that is started has been nowhere, so it is not late.        *)
LEMMA StartsAnother ==
  ASSUME Inv, NEW p \in Processes, Running(p), StartProcess(p)
  PROVE  Moving'
<1> DEFINE s == Steps(p)[pc[p]]  c == s.process
<1>1. /\ example' = example /\ Processes' = Processes /\ example \in Examples
      /\ \A q \in Processes : Steps(q)' = Steps(q)
  BY DEF StartProcess, Arrive, Processes, Steps, Inv
<1>2. /\ pc \in [Processes -> Nat] /\ pc[p] \in 1 .. Len(Steps(p)) /\ Len(Steps(p)) \in Nat
      /\ s.op = "start"
  BY <1>1, StepFacts DEF Inv, Moving, Places, Running, StartProcess, At, Step
<1>3. /\ p = "main" /\ c \in Processes \ {"main"}
      /\ \A j \in 1 .. Len(Steps(p)) :
           Steps(p)[j].op = "start" /\ Steps(p)[j].process = c => pc[p] = j
  BY <1>1, <1>2, StepFacts
<1>4. pc[c] = 0
  <2>1. pc["main"] <= pc[p]
    BY <1>2, <1>3
  <2> QED BY <1>2, <1>3, <2>1 DEF Inv, Moving, NotYet
<1>5. \A q \in Processes :
        pc'[q] = IF q = c THEN 1 ELSE IF q = p THEN pc[p] + 1 ELSE pc[q]
  <2>1. pc' = [pc EXCEPT ![p] = pc[p] + 1, ![c] = 1]
    BY DEF StartProcess, Step
  <2> HIDE DEF c
  <2> QED BY <1>2, <1>3, <2>1
<1>6. pc' \in [Processes -> Nat]
  <2>1. pc' = [pc EXCEPT ![p] = pc[p] + 1, ![c] = 1]
    BY DEF StartProcess, Step
  <2>2. pc[p] + 1 \in Nat
    BY <1>2
  <2> HIDE DEF c
  <2>3. [pc EXCEPT ![p] = pc[p] + 1] \in [Processes -> Nat]
    BY <1>2, <2>2
  <2> QED BY <2>1, <2>3
<1> HIDE DEF c
<1>7. Places'
  <2>1. \A q \in Processes : pc'[q] <= Len(Steps(q)) + 1
    BY <1>1, <1>2, <1>5, StepFacts DEF Inv, Moving, Places
  <2> QED BY <1>1, <1>6, <2>1 DEF Places
<1>8. Clocks'
  <2>1. /\ age' \in [Processes -> 0 .. MaxAge] /\ late' \in [Processes -> Nat]
        /\ late'[p] = 0 /\ \A q \in Processes : q # p => late'[q] = late[q]
    BY WorkflowsAssumption DEF StartProcess, Arrive, Inv, Moving, Clocks
  <2>2. \A q \in Processes : q \notin {p, c} => (Patience(q)' = Patience(q) /\ pc'[q] = pc[q])
    BY <1>1, <1>5 DEF Patience, At, Running, Step
  <2>3. \A q \in Processes : Patience(q)' \in Nat
    BY WorkflowsAssumption DEF Patience
  <2>4. late'[c] = 0
    BY <1>3, <1>4, <2>1 DEF Inv, Moving, Clocks
  <2>5. \A q \in Processes : late'[q] <= Patience(q)' /\ (pc'[q] = 0 => late'[q] = 0)
    <3> SUFFICES ASSUME NEW q \in Processes
                 PROVE  late'[q] <= Patience(q)' /\ (pc'[q] = 0 => late'[q] = 0)
      OBVIOUS
    <3>1. CASE q \in {p, c}
      <4>1. late'[q] = 0 /\ Patience(q)' \in Nat
        BY <2>1, <2>3, <2>4, <3>1
      <4> QED BY <4>1
    <3>2. CASE q \notin {p, c}
      BY <2>1, <2>2, <3>2 DEF Inv, Moving, Clocks
    <3> QED BY <3>1, <3>2
  <2> QED BY <1>1, <2>1, <2>5 DEF Clocks
<1>9. NotYet'
  <2> SUFFICES ASSUME NEW i \in 1 .. Len(Steps("main")),
                      Steps("main")[i].op = "start", pc'["main"] <= i
               PROVE  pc'[Steps("main")[i].process] = 0
    BY <1>1, MainRuns DEF NotYet
  <2>1. pc["main"] + 1 <= i /\ pc["main"] \in Nat
    BY <1>2, <1>3, <1>5
  <2>2. pc[Steps("main")[i].process] = 0
    BY <2>1 DEF Inv, Moving, NotYet
  <2>3. Steps("main")[i].process \in Processes \ {"main"}
    BY <1>1, <1>3, StepFacts
  <2>4. Steps("main")[i].process # c
    BY <1>2, <1>3, <2>1
  <2> QED BY <1>3, <1>5, <2>2, <2>3, <2>4
<1>10. error' \in [Processes -> Expected]
  BY DEF StartProcess, Inv, Moving
<1> QED BY <1>1, <1>7, <1>8, <1>9, <1>10 DEF Moving

LEMMA Ticks == Inv /\ Tick => Inv'
<1> SUFFICES ASSUME Inv, Tick PROVE Inv'
  OBVIOUS
<1>1. /\ example' = example /\ Processes' = Processes /\ pc' = pc /\ example \in Examples
      /\ \A q \in Processes : Steps(q)' = Steps(q) /\ Patience(q)' = Patience(q)
  BY DEF Tick, Processes, Steps, Inv, Patience, At, Running, Step
<1>2. age' \in [Processes -> 0 .. MaxAge]
  BY WorkflowsAssumption DEF Tick, Inv, Moving, Clocks
<1>3. ASSUME NEW p \in Processes
      PROVE  /\ late'[p] \in Nat /\ late'[p] <= Patience(p)
             /\ pc[p] = 0 => late'[p] = 0
  <2>1. late[p] \in Nat /\ late[p] <= Patience(p) /\ Patience(p) \in Nat
        /\ (pc[p] = 0 => late[p] = 0)
    BY WorkflowsAssumption DEF Inv, Moving, Clocks, Patience
  <2>2. late'[p] = IF Ready(p) THEN late[p] + 1 ELSE late[p]
    BY DEF Tick
  <2>3. CASE Ready(p)
    <3>1. late[p] < Patience(p)
      BY <2>3 DEF Tick
    <3>2. pc[p] # 0
      BY <1>1, <2>3, StepFacts DEF Ready, Running
    <3> QED BY <2>1, <2>2, <2>3, <3>1, <3>2
  <2>4. CASE ~ Ready(p)
    BY <2>1, <2>2, <2>4
  <2> QED BY <2>3, <2>4
<1>4. late' \in [Processes -> Nat]
  <2>1. late' = [p \in Processes |-> IF Ready(p) THEN late[p] + 1 ELSE late[p]]
    BY DEF Tick
  <2>2. \A p \in Processes : (IF Ready(p) THEN late[p] + 1 ELSE late[p]) \in Nat
    BY <1>3, <2>1
  <2> QED BY <2>1, <2>2
<1>5. Clocks'
  BY <1>1, <1>2, <1>3, <1>4 DEF Clocks
<1>6. Places' /\ NotYet'
  BY <1>1, MainRuns DEF Places, NotYet, Inv, Moving
<1>7. error' = error /\ up' = up /\ items' = items
  BY DEF Tick
<1>8. ItemsAgree'
  BY <1>7 DEF ItemsAgree, Inv
<1> QED BY <1>1, <1>5, <1>6, <1>7, <1>8 DEF Inv, Moving

-----------------------------------------------------------------------------
(* The steps of the examples. *)

LEMMA ActStep == ASSUME Inv, NEW p \in Processes, Act(p) PROVE Inv'
<1>1. Running(p)
  BY DEF Act, Ready
<1>2. /\ pc[p] \in 1 .. Len(Steps(p)) /\ Step(p) \in PlainSteps \cup Starts
  BY <1>1, StepFacts DEF Inv, Running, Step
<1>3. ASSUME Moving', example' = example, up' \in BOOLEAN, items' = items PROVE Inv'
  BY <1>3 DEF Inv, ItemsAgree
<1>4. CASE Proceed(p)
  BY <1>1, <1>3, <1>4, Continues DEF Proceed, Continue, Arrive, Inv
<1>5. CASE StartProcess(p)
  BY <1>1, <1>3, <1>5, StartsAnother DEF StartProcess, Arrive, Inv
<1>6. CASE OpenStore(p)
  BY <1>1, <1>3, <1>6, Continues DEF OpenStore, Continue, Arrive
<1>7. CASE CloseStore(p)
  BY <1>1, <1>3, <1>7, Continues DEF CloseStore, Continue, Arrive
<1>8. ASSUME NEW x \in Expected, Raise(p, x) PROVE Inv'
  <2>1. up' \in BOOLEAN
    BY <1>8, Raises, <1>1 DEF Inv
  <2> QED BY <1>1, <1>3, <1>8, <2>1, Raises
<1>9. CASE NoStore(p)
  BY <1>8, <1>9 DEF NoStore, Expected, Reasons
<1>10. CASE PutItem(p)
  <2>1. Step(p).key \in Keys /\ Step(p).item = Agreed(Step(p).key)
    BY <1>2, <1>10, ExchangeFacts DEF PutItem, At
  <2>2. ItemsAgree'
    BY <1>10, <2>1 DEF PutItem, ItemsAgree, Inv
  <2>3. Moving' /\ example' = example /\ up' = up
    BY <1>1, <1>10, Continues DEF PutItem, Continue, Arrive
  <2> QED BY <2>2, <2>3 DEF Inv
<1>11. CASE ReadItem(p)
  <2> DEFINE found == items[Step(p).key]  wanted == Step(p).item
  <2>1. found = Agreed(Step(p).key)
    BY <1>11 DEF ReadItem, Inv, ItemsAgree
  <2>2. wanted.rank = found.rank /\ wanted.dtype \in {found.dtype, AnyDType}
    BY <1>2, <1>11, <2>1, ExchangeFacts DEF ReadItem, At
  <2>3. Continue(p) /\ UNCHANGED <<up, items>>
    BY <1>11, <2>2 DEF ReadItem
  <2> QED BY <1>1, <1>3, <2>3, Continues DEF Continue, Arrive, Inv
<1>12. CASE MissItem(p)
  BY <1>8, <1>12 DEF MissItem, Expected, Reasons
<1> QED BY <1>4, <1>5, <1>6, <1>7, <1>9, <1>10, <1>11, <1>12 DEF Act

LEMMA InvStep == Inv /\ [Next]_vars => Inv'
<1> SUFFICES ASSUME Inv, [Next]_vars PROVE Inv'
  OBVIOUS
<1>1. ASSUME NEW p \in Processes, Act(p) PROVE Inv'
  BY <1>1, ActStep
<1>2. ASSUME NEW p \in Processes, Crash(p) PROVE Inv'
  <2>1. Moving' /\ example' = example /\ up' = up /\ items' = items
    BY <1>2, Crashes DEF Crash, Arrive
  <2> QED BY <2>1 DEF Inv, ItemsAgree
<1>3. CASE Tick
  BY <1>3, Ticks
<1>4. CASE UNCHANGED vars
  <2>1. /\ Processes' = Processes /\ \A q \in Processes : Steps(q)' = Steps(q)
        /\ \A q \in Processes : Patience(q)' = Patience(q)
    BY <1>4 DEF vars, Processes, Steps, Patience, At, Running, Step
  <2>2. Moving'
    BY <1>4, <2>1, MainRuns DEF vars, Moving, Clocks, Places, NotYet, Inv
  <2> QED BY <1>4, <2>2 DEF vars, Inv, ItemsAgree
<1> QED BY <1>1, <1>2, <1>3, <1>4 DEF Next

LEMMA InvHolds == Spec => []Inv
<1> QED BY InvInit, InvStep, PTL DEF Spec

(* The two sides of every exchange in the examples agree on the element    *)
(* type and the rank, whenever the processes run and whichever is killed.  *)
THEOREM ExamplesAgreeOnTypes == Spec => []TypesAgree
<1>1. Inv => TypesAgree
  BY NoneAssumption DEF Inv, Moving, TypesAgree, Expected, Reasons
<1> QED BY <1>1, InvHolds, PTL

(* Processes stay in their programs and are no later than they may be,     *)
(* whatever the speed of the machine.                                      *)
THEOREM TypeCorrect == Spec => []TypeOK
<1>1. Inv => TypeOK
  <2> SUFFICES ASSUME Inv PROVE TypeOK
    OBVIOUS
  <2>1. ASSUME NEW key \in DOMAIN items
        PROVE  items[key] \in [rank : {"scalar", "tensor", "pickle"},
                  dtype : {NumPyDTypes[c] : c \in DOMAIN NumPyDTypes} \cup {AnyDType}]
    <3>1. items[key] = Agreed(key)
      BY DEF Inv, ItemsAgree
    <3>2. Agreed(key) \in Items
      BY ItemTypes DEF Agreed
    <3> QED BY <3>1, <3>2 DEF Items
  <2>2. ASSUME NEW p \in Processes
        PROVE  /\ pc[p] \in 0 .. Len(Steps(p)) + 1 /\ age[p] \in 0 .. MaxAge
               /\ late[p] \in 0 .. Patience(p)
               /\ error[p] \in Reasons \cup {None}
    <3>1. Len(Steps(p)) \in Nat /\ Patience(p) \in Nat
      BY StepFacts, WorkflowsAssumption DEF Inv, Patience
    <3>2. pc[p] \in 0 .. Len(Steps(p)) + 1
      BY <3>1 DEF Inv, Moving, Places
    <3>3. late[p] \in 0 .. Patience(p) /\ age[p] \in 0 .. MaxAge
      BY <3>1 DEF Inv, Moving, Clocks
    <3>4. error[p] \in Reasons \cup {None}
      BY DEF Inv, Moving, Expected
    <3> QED BY <3>2, <3>3, <3>4
  <2> QED BY <2>1, <2>2 DEF TypeOK, Inv
<1> QED BY <1>1, InvHolds, PTL
-----------------------------------------------------------------------------
(* Failures have a cause. *)

(* The machine is fast enough for the sleeps and waits in the programs.    *)
FastEnough == StartUp + Delay < 3 * Second /\ Delay <= Second

(* No process has failed; one was killed, and stays where it is.           *)
Healthy == \A q \in Processes : error[q] = None
Crashed == \E q \in Processes : error[q] = "crashed" /\ Ended(q)

(* What a process can go on with does not fail.                            *)
Fine(p) ==
  At(p, {"put", "get", "wait"}) =>
    up /\ (Step(p).op # "put" => Step(p).key \in DOMAIN items)

(* The process is past this step of its program.                           *)
Passed(q, i) == i \in 1 .. Len(Steps(q)) /\ i < pc[q]

(* Somebody has closed the store.                                          *)
Closed ==
  \E q \in Processes : \E i \in 1 .. Len(Steps(q)) :
    Passed(q, i) /\ Steps(q)[i].op = "close"

(* What has happened when a process is past a step.                        *)
Effects(s) ==
  /\ s.op \in {"put", "get", "wait"} => s.key \in DOMAIN items
  /\ \A r \in Processes : s.op = "join" /\ s.process = r => Ended(r)
  /\ s.op = "start" => pc[s.process] > 0
  /\ s.op = "open" => up \/ Closed

(* What is in the store was put by a process that is past the put.         *)
PutBySomeone(key) ==
  \E q \in Processes : \E i \in 1 .. Len(Steps(q)) :
    Passed(q, i) /\ Steps(q)[i].op = "put" /\ Steps(q)[i].key = key

(* The past explains the state: steps that were taken have had their       *)
(* effects, items were put, and nobody sleeps too long.                    *)
History ==
  /\ \A q \in Processes : \A i \in 1 .. Len(Steps(q)) : Passed(q, i) => Effects(Steps(q)[i])
  /\ \A key \in DOMAIN items : PutBySomeone(key)
  /\ \A q \in Processes :
       /\ pc[q] = 0 => age[q] = 0
       /\ At(q, {"sleep"}) => age[q] <= Step(q).seconds * Second

(* The database is ready when its driver wakes up: until then the driver   *)
(* has slept no longer than the database took to get where it is.          *)
RedisInTime ==
  /\ pc["main"] = 2 /\ pc["db"] = 1 => age["main"] <= late["db"]
  /\ pc["main"] = 2 /\ pc["db"] = 2 => age["main"] <= StartUp + late["db"]
  /\ pc["main"] > 2 => pc["db"] > 2

(* RHAPSODY's example, whose consumer takes a nap with Redis.              *)
WithNaps(n) ==
  IF n = 0 THEN Rhapsody("dragon", <<>>) ELSE Rhapsody("smartredis", <<Sleep(2)>>)

(* The consumer has waited no longer than the producer, which was started  *)
(* first, took to get where it is.                                         *)
RhapsodyInTime(n) ==
  pc["consume"] \in {n + 2, n + 3} =>
    /\ pc["produce"] = 1 => age["consume"] <= late["produce"]
    /\ pc["produce"] = 2 => age["consume"] <= StartUp + late["produce"]
    /\ pc["produce"] = 3 => age["consume"] <= StartUp + Delay + late["produce"]

(* By the sleeps of the driver, no more than x has passed since it started *)
(* the app.                                                                *)
Behind(x) ==
  \A i \in 0 .. 5 :
    /\ pc["main"] = 2 * i + 4 => i * Second + age["main"] <= x
    /\ pc["main"] = 2 * i + 3 => i * Second <= x

(* The app has waited for its kth item no longer than the driver took for  *)
(* the nap before it and the put.                                          *)
AppWaits ==
  \A k \in 1 .. 5 :
    pc["app"] = k + 1 /\ pc["main"] <= 2 * k + 3 =>
      \/ pc["main"] = 2 * k + 2 /\ age["app"] <= age["main"] + late["main"]
      \/ pc["main"] = 2 * k + 3 /\ age["app"] <= Second + Delay + late["main"]

(* How long the driver has slept since it started the app, by the step the *)
(* app is at: what FastEnough leaves it to start, and a nap per message.   *)
AppFollows ==
  /\ pc["app"] = 1 => Behind(late["app"])
  /\ \A k \in 1 .. 5 :
       pc["app"] = k + 1 => Behind((k + 2) * Second - Delay - 1 + late["app"])
  /\ pc["app"] = 7 => Behind(7 * Second - 1 + age["app"] + late["app"])
  /\ pc["app"] = 8 => Behind(8 * Second + Delay - 1 + late["app"])

(* The driver has waited for the second item and those after it no longer  *)
(* than the app took for the nap before it and the put.                    *)
DriverWaits ==
  \A k \in 2 .. 4 :
    pc["main"] = k + 13 /\ pc["app"] <= 2 * k + 6 =>
      \/ pc["app"] = 2 * k + 5 /\ age["main"] <= age["app"] + late["app"]
      \/ pc["app"] = 2 * k + 6 /\ age["main"] <= Second + Delay + late["app"]

(* The clocks of the examples whose processes wait or sleep.               *)
InTime ==
  /\ example = RedisExchange => RedisInTime
  /\ example = PyCppExchange => AppWaits /\ AppFollows /\ DriverWaits
  /\ \A n \in {0, 1} : example = WithNaps(n) => RhapsodyInTime(n)

(* The invariant: somebody was killed, or nobody has failed, the past      *)
(* explains the state, and nobody is behind its time.                      *)
Caused == Crashed \/ (Healthy /\ History /\ InTime)

(* A process goes on from its step, perhaps by starting another.           *)
Advances(p) ==
  LET s == Step(p) IN
  /\ Running(p) /\ pc'[p] = pc[p] + 1
  /\ \A q \in Processes \ {p} :
       \/ pc'[q] = pc[q]
       \/ s.op = "start" /\ s.process = q /\ pc[q] = 0 /\ pc'[q] = 1
  /\ s.op = "start" => s.process \in Processes \ {p} /\ pc'[s.process] = 1
  /\ \A q \in Processes :
       /\ age'[q] = IF q = p THEN 0 ELSE age[q]
       /\ late'[q] = IF q = p THEN 0 ELSE late[q]
  /\ DOMAIN items' = DOMAIN items \cup (IF s.op = "put" THEN {s.key} ELSE {})
  /\ s.op \in {"put", "get", "wait"} => s.key \in DOMAIN items'
  /\ s.op = "open" => up'
  /\ s.op # "close" => (up => up')
  /\ UNCHANGED <<example, error>>

(* Only main starts others, and only what is not running.                  *)
LEMMA Starting ==
  ASSUME Inv, NEW p \in Processes, At(p, {"start"})
  PROVE  p = "main" /\ Step(p).process \in Processes \ {p} /\ pc[Step(p).process] = 0
<1>1. /\ pc[p] \in 1 .. Len(Steps(p)) /\ Steps(p)[pc[p]].op = "start" /\ example \in Examples
  BY DEF At, Running, Step, Inv
<1>2. p = "main" /\ Steps(p)[pc[p]].process \in Processes \ {"main"}
  BY <1>1, StepFacts
<1>3. pc[Steps(p)[pc[p]].process] = 0
  BY <1>1, <1>2 DEF Inv, Moving, NotYet
<1> QED BY <1>2, <1>3 DEF Step

(* The programs are those of the example.                                  *)
LEMMA Unchanging ==
  ASSUME example' = example
  PROVE  Processes' = Processes /\ \A q \in Processes : Steps(q)' = Steps(q)
BY DEF Processes, Steps

(* A process that can go on without failing goes on to its next step.      *)
LEMMA ActAdvances ==
  ASSUME Inv, Healthy, NEW p \in Processes, Act(p), Fine(p)
  PROVE  Advances(p)
<1>1. /\ Running(p) /\ Step(p) \in PlainSteps \cup Starts
      /\ pc \in [Processes -> Nat] /\ age \in [Processes -> Nat] /\ late \in [Processes -> Nat]
  BY StepFacts, WorkflowsAssumption
     DEF Act, Ready, Inv, Running, Step, Moving, Places, Clocks
<1>2. ASSUME Arrive(p)
      PROVE  /\ example' = example
             /\ \A q \in Processes :
                  /\ age'[q] = IF q = p THEN 0 ELSE age[q]
                  /\ late'[q] = IF q = p THEN 0 ELSE late[q]
  BY <1>1, <1>2 DEF Arrive
<1>3. ASSUME Continue(p), items' = items, up => up' , Step(p).op \notin {"start", "put", "open"},
             Step(p).op \in {"get", "wait"} => Step(p).key \in DOMAIN items
      PROVE  Advances(p)
  <2>1. pc'[p] = pc[p] + 1 /\ \A q \in Processes \ {p} : pc'[q] = pc[q]
    BY <1>1, <1>3 DEF Continue
  <2> QED BY <1>1, <1>2, <1>3, <2>1 DEF Advances, Continue
<1>4. CASE Proceed(p)
  BY <1>3, <1>4 DEF Proceed, At
<1>5. CASE StartProcess(p)
  <2> DEFINE c == Step(p).process
  <2>1. Step(p).op = "start" /\ c \in Processes \ {p} /\ pc[c] = 0
    BY <1>5, Starting DEF StartProcess, At
  <2>2. pc' = [pc EXCEPT ![p] = pc[p] + 1, ![c] = 1]
    BY <1>5 DEF StartProcess
  <2> HIDE DEF c
  <2>3. /\ pc'[p] = pc[p] + 1 /\ pc'[c] = 1
        /\ \A q \in Processes \ {p} : q # c => pc'[q] = pc[q]
    BY <1>1, <2>1, <2>2
  <2>4. items' = items /\ up' = up /\ error' = error /\ Arrive(p)
    BY <1>5 DEF StartProcess
  <2> QED BY <1>1, <1>2, <2>1, <2>3, <2>4 DEF Advances, c
<1>6. CASE OpenStore(p)
  <2>1. pc'[p] = pc[p] + 1 /\ \A q \in Processes \ {p} : pc'[q] = pc[q]
    BY <1>1, <1>6 DEF OpenStore, Continue
  <2> QED BY <1>1, <1>2, <1>6, <2>1 DEF Advances, OpenStore, Continue, At
<1>7. CASE CloseStore(p)
  <2>1. pc'[p] = pc[p] + 1 /\ \A q \in Processes \ {p} : pc'[q] = pc[q]
    BY <1>1, <1>7 DEF CloseStore, Continue
  <2> QED BY <1>1, <1>2, <1>7, <2>1 DEF Advances, CloseStore, Continue, At
<1>8. CASE NoStore(p)
  BY <1>8 DEF NoStore, Fine, At
<1>9. CASE PutItem(p)
  <2>1. pc'[p] = pc[p] + 1 /\ \A q \in Processes \ {p} : pc'[q] = pc[q]
    BY <1>1, <1>9 DEF PutItem, Continue
  <2>2. DOMAIN items' = DOMAIN items \cup {Step(p).key}
    BY <1>9 DEF PutItem
  <2> QED BY <1>1, <1>2, <1>9, <2>1, <2>2 DEF Advances, PutItem, Continue, At
<1>10. CASE ReadItem(p)
  <2> DEFINE found == items[Step(p).key]  wanted == Step(p).item
  <2>1. found = Agreed(Step(p).key)
    BY <1>10 DEF ReadItem, Inv, ItemsAgree
  <2>2. wanted.rank = found.rank /\ wanted.dtype \in {found.dtype, AnyDType}
    BY <1>1, <1>10, <2>1, ExchangeFacts DEF ReadItem, At
  <2>3. Continue(p) /\ UNCHANGED <<up, items>>
    BY <1>10, <2>2 DEF ReadItem
  <2> QED BY <1>3, <1>10, <2>3 DEF ReadItem, At
<1>11. CASE MissItem(p)
  BY <1>11 DEF MissItem, Fine, At
<1> QED BY <1>4, <1>5, <1>6, <1>7, <1>8, <1>9, <1>10, <1>11 DEF Act

(* What a process is past it stays past.                                   *)
LEMMA PastStays ==
  ASSUME Inv, NEW p \in Processes, Advances(p)
  PROVE  /\ Processes' = Processes /\ \A q \in Processes : Steps(q)' = Steps(q)
         /\ \A q \in Processes :
              /\ pc[q] \in Nat /\ pc'[q] \in Nat /\ pc[q] <= pc'[q] /\ Len(Steps(q)) \in Nat
              /\ \A i \in 1 .. Len(Steps(q)) :
                   Passed(q, i)' <=> (Passed(q, i) \/ (q = p /\ i = pc[p]))
<1>1. Processes' = Processes /\ \A q \in Processes : Steps(q)' = Steps(q)
  BY Unchanging DEF Advances
<1>2. ASSUME NEW q \in Processes
      PROVE  /\ pc[q] \in Nat /\ Len(Steps(q)) \in Nat /\ pc'[q] \in Nat /\ pc[q] <= pc'[q]
             /\ pc'[q] = IF q = p THEN pc[q] + 1 ELSE pc'[q]
             /\ q # p => pc'[q] = pc[q] \/ (pc[q] = 0 /\ pc'[q] = 1)
  BY StepFacts DEF Inv, Moving, Places, Advances
<1>3. ASSUME NEW q \in Processes, NEW i \in 1 .. Len(Steps(q))
      PROVE  Passed(q, i)' <=> (Passed(q, i) \/ (q = p /\ i = pc[p]))
  <2>1. Passed(q, i)' <=> i < pc'[q]
    BY <1>1 DEF Passed
  <2>2. Passed(q, i) <=> i < pc[q]
    BY DEF Passed
  <2>3. pc[q] \in Nat /\ pc'[q] \in Nat /\ i \in Nat /\ i > 0
    BY <1>2
  <2>4. CASE q = p
    BY <1>2, <2>1, <2>2, <2>3, <2>4
  <2>5. CASE q # p
    BY <1>2, <2>1, <2>2, <2>3, <2>5
  <2> QED BY <2>4, <2>5
<1> QED BY <1>1, <1>2, <1>3

(* The step that is taken has its effects, and no later step undoes them.  *)
LEMMA HistoryGrows ==
  ASSUME Inv, History, NEW p \in Processes, Ready(p), Advances(p)
  PROVE  History'
<1>1. /\ Processes' = Processes /\ \A q \in Processes : Steps(q)' = Steps(q)
      /\ pc[p] \in 1 .. Len(Steps(p)) /\ Step(p) = Steps(p)[pc[p]]
      /\ \A q \in Processes : pc[q] \in Nat /\ pc'[q] \in Nat /\ pc[q] <= pc'[q]
           /\ Len(Steps(q)) \in Nat
  BY PastStays DEF Advances, Running, Step
<1>2. \A q \in Processes : \A i \in 1 .. Len(Steps(q)) :
        Passed(q, i)' <=> (Passed(q, i) \/ (q = p /\ i = pc[p]))
  BY PastStays
<1>3. DOMAIN items \subseteq DOMAIN items'
  BY DEF Advances
<1>4. \A r \in Processes : Ended(r) => Ended(r)'
  BY <1>1 DEF Ended
<1>5. Closed => Closed'
  BY <1>1, <1>2 DEF Closed
<1>6. up \/ Closed => up' \/ Closed'
  <2>1. CASE Step(p).op = "close"
    BY <1>1, <1>2, <2>1 DEF Closed
  <2>2. CASE Step(p).op # "close"
    BY <1>5, <2>2 DEF Advances
  <2> QED BY <2>1, <2>2
<1>7. ASSUME NEW t, Effects(t), t.op = "start" => t.process \in Processes
      PROVE  Effects(t)'
  <2>1. t.op \in {"put", "get", "wait"} => t.key \in DOMAIN items'
    BY <1>3, <1>7 DEF Effects
  <2>2. \A r \in Processes : t.op = "join" /\ t.process = r => Ended(r)'
    BY <1>4, <1>7 DEF Effects
  <2>3. t.op = "start" => pc'[t.process] > 0
    <3>1. t.op = "start" => pc[t.process] \in Nat /\ pc'[t.process] \in Nat
                            /\ pc[t.process] <= pc'[t.process] /\ pc[t.process] > 0
      BY <1>1, <1>7 DEF Effects
    <3> QED BY <3>1
  <2>4. t.op = "open" => up' \/ Closed'
    BY <1>6, <1>7 DEF Effects
  <2> QED BY <1>1, <2>1, <2>2, <2>3, <2>4 DEF Effects
<1>8. PICK s : s = Step(p)
  OBVIOUS
<1>9. Effects(s)'
  <2>1. s.op \in {"put", "get", "wait"} => s.key \in DOMAIN items'
    BY <1>8 DEF Advances
  <2>2. \A r \in Processes : s.op = "join" /\ s.process = r => Ended(r)'
    BY <1>4, <1>8 DEF Ready, At
  <2>3. s.op = "start" => pc'[s.process] > 0
    BY <1>8 DEF Advances
  <2>4. s.op = "open" => up' \/ Closed'
    BY <1>8 DEF Advances
  <2> QED BY <1>1, <2>1, <2>2, <2>3, <2>4 DEF Effects
<1>10. ASSUME NEW q \in Processes, NEW i \in 1 .. Len(Steps(q)), Passed(q, i)'
       PROVE  \E t : t = Steps(q)[i] /\ Effects(t)'
  <2>1. CASE Passed(q, i)
    <3>1. Effects(Steps(q)[i]) /\ (Steps(q)[i].op = "start" => Steps(q)[i].process \in Processes)
      BY <2>1, StepFacts DEF History, Inv
    <3>2. PICK t : t = Steps(q)[i]
      OBVIOUS
    <3> QED BY <1>7, <3>1, <3>2
  <2>2. CASE q = p /\ i = pc[p]
    BY <1>1, <1>8, <1>9, <2>2
  <2> QED BY <1>2, <1>10, <2>1, <2>2
<1>11. ASSUME NEW q \in Processes, NEW i \in 1 .. Len(Steps(q)), Passed(q, i)'
       PROVE  Effects(Steps(q)[i])'
  <2>1. PICK t : t = Steps(q)[i] /\ Effects(t)'
    BY <1>10, <1>11
  <2>2. Steps(q)[i]' = t
    BY <1>1, <2>1
  <2> QED BY <2>1, <2>2 DEF Effects
<1>12. ASSUME NEW key \in DOMAIN items' PROVE PutBySomeone(key)'
  <2>1. CASE key \in DOMAIN items
    <3>1. PutBySomeone(key)
      BY <2>1 DEF History
    <3> QED BY <1>1, <1>2, <3>1 DEF PutBySomeone
  <2>2. CASE key \notin DOMAIN items
    <3>1. Step(p).op = "put" /\ Step(p).key = key
      BY <2>2 DEF Advances
    <3> QED BY <1>1, <1>2, <3>1 DEF PutBySomeone
  <2> QED BY <2>1, <2>2
<1>13. ASSUME NEW q \in Processes
       PROVE  /\ pc'[q] = 0 => age'[q] = 0
              /\ At(q, {"sleep"})' => age'[q] <= Step(q)'.seconds * Second
  <2>1. CASE q = p \/ pc'[q] # pc[q]
    <3>1. age'[q] = 0
      BY <2>1 DEF Advances, History
    <3>2. Running(q)' => Step(q)' \in PlainSteps \cup Starts
      BY <1>1, StepFacts DEF Running, Step, Inv
    <3>3. At(q, {"sleep"})' => Step(q)'.seconds \in Nat
      BY <3>2 DEF At, PlainSteps, Exchanges, Starts
    <3>4. \A n \in Nat : 0 <= n * Second
      BY WorkflowsAssumption
    <3> QED BY <3>1, <3>3, <3>4
  <2>2. CASE q # p /\ pc'[q] = pc[q]
    <3>1. Step(q)' = Step(q) /\ Running(q)' = Running(q) /\ age'[q] = age[q]
      BY <1>1, <2>2 DEF Step, Running, Advances
    <3> QED BY <2>2, <3>1 DEF At, History
  <2> QED BY <2>1, <2>2
<1> QED BY <1>1, <1>11, <1>12, <1>13 DEF History

(* What time changes: who can go on gets later, who sleeps or waits gets   *)
(* older.                                                                  *)
LEMMA TickFacts ==
  ASSUME Inv, Tick
  PROVE  /\ Processes' = Processes /\ pc' = pc /\ up' = up /\ items' = items
         /\ error' = error /\ example' = example
         /\ \A q \in Processes :
              /\ Steps(q)' = Steps(q) /\ Step(q)' = Step(q) /\ Running(q)' = Running(q)
              /\ age[q] \in 0 .. MaxAge /\ late[q] \in Nat
              /\ Ready(q) => age'[q] = age[q] /\ late'[q] = late[q] + 1
              /\ ~ Ready(q) =>
                   /\ late'[q] = late[q]
                   /\ age'[q] = IF At(q, {"sleep", "wait"}) /\ age[q] < MaxAge
                                THEN age[q] + 1 ELSE age[q]
BY DEF Tick, Processes, Steps, Step, Running, Inv, Moving, Clocks

(* As time passes the past stays as it was, and a sleeper wakes in time.   *)
LEMMA HistoryWaits ==
  ASSUME Inv, History, Tick
  PROVE  History'
<1>1. /\ Processes' = Processes /\ pc' = pc /\ up' = up /\ items' = items
      /\ \A q \in Processes : Steps(q)' = Steps(q)
  BY TickFacts
<1>2. \A q \in Processes : \A i : Passed(q, i)' <=> Passed(q, i)
  BY <1>1 DEF Passed
<1>3. Closed' <=> Closed
  BY <1>1, <1>2 DEF Closed
<1>4. \A q \in Processes : Ended(q)' <=> Ended(q)
  BY <1>1 DEF Ended
<1>5. ASSUME NEW q \in Processes, NEW i \in 1 .. Len(Steps(q)), Passed(q, i)
      PROVE  Effects(Steps(q)[i])'
  BY <1>1, <1>3, <1>4, <1>5 DEF Effects, History
<1>6. \A key \in DOMAIN items : PutBySomeone(key)'
  BY <1>1, <1>2 DEF PutBySomeone, History
<1>7. ASSUME NEW q \in Processes
      PROVE  /\ pc[q] = 0 => age'[q] = 0
             /\ At(q, {"sleep"})' => age'[q] <= Step(q)'.seconds * Second
  <2>1. /\ Step(q)' = Step(q) /\ Running(q)' = Running(q)
        /\ age[q] \in Nat /\ age'[q] \in {age[q], age[q] + 1}
        /\ age'[q] = age[q] + 1 => ~ Ready(q) /\ Running(q)
    BY TickFacts DEF At
  <2>2. pc[q] = 0 => ~ Running(q)
    BY DEF Running
  <2>3. CASE age'[q] = age[q]
    BY <2>1, <2>3 DEF At, History
  <2>4. CASE age'[q] = age[q] + 1
    <3>1. ~ Ready(q) /\ pc[q] # 0
      BY <2>1, <2>2, <2>4
    <3>2. ASSUME At(q, {"sleep"})' PROVE age'[q] <= Step(q)'.seconds * Second
      <4>1. At(q, {"sleep"}) /\ ~ (age[q] >= Step(q).seconds * Second)
        BY <2>1, <3>1, <3>2 DEF At, Ready
      <4>2. Step(q).seconds \in Nat
        BY <4>1, StepFacts DEF At, Running, Step, PlainSteps, Exchanges, Starts, Inv
      <4>3. Step(q).seconds * Second \in Nat
        BY <4>2, WorkflowsAssumption
      <4> QED BY <2>1, <2>4, <4>1, <4>3
    <3> QED BY <3>1, <3>2
  <2> QED BY <2>1, <2>3, <2>4
<1> QED BY <1>1, <1>2, <1>5, <1>6, <1>7 DEF History

-----------------------------------------------------------------------------
(* Each example. *)

(* A program with no cleanup is its steps.                                 *)
LEMMA StraightSteps ==
  ASSUME NEW p, NEW S, NEW s \in Seq(S), example.programs[p] = Straight(s)
  PROVE  Steps(p) = s
BY DEF Steps, Straight, Program

(* A process that is there has been started.                               *)
LEMMA Started ==
  ASSUME Inv, NEW i \in 1 .. Len(Steps("main")), Steps("main")[i].op = "start",
         pc[Steps("main")[i].process] # 0
  PROVE  Passed("main", i)
BY MainRuns, StepFacts DEF Inv, Moving, NotYet, Places, Passed

(* How late a process may be, and who need not wait for anything.          *)
LEMMA Patient ==
  ASSUME Inv, NEW p \in Processes
  PROVE  /\ pc[p] \in Nat /\ age[p] \in Nat /\ late[p] \in Nat
         /\ late[p] <= IF At(p, {"launch"}) THEN StartUp ELSE Delay
         /\ Second \in Nat /\ Delay \in Nat /\ StartUp \in Nat
         /\ Running(p) /\ Step(p).op \notin {"sleep", "join", "wait"} => Ready(p)
BY WorkflowsAssumption DEF Inv, Moving, Places, Clocks, Patience, Ready, At

(* A process runs while main is between its start and the join.            *)
LEMMA Supervised ==
  ASSUME Inv, History, NEW q \in Processes, Running(q),
         NEW i \in 1 .. Len(Steps("main")), Steps("main")[i] = Start(q),
         NEW j \in 1 .. Len(Steps("main")), Steps("main")[j] = Join(q)
  PROVE  i < pc["main"] /\ pc["main"] <= j
<1>1. pc[q] # 0 /\ ~ Ended(q)
  BY StepFacts DEF Running, Ended, Inv, Moving, Places
<1>2. Steps("main")[i].op = "start" /\ Steps("main")[i].process = q
  BY DEF Start
<1>3. i < pc["main"]
  BY <1>1, <1>2, Started DEF Passed
<1>4. Steps("main")[j].op = "join" /\ Steps("main")[j].process = q
  BY DEF Join
<1>5. ~ Passed("main", j)
  BY <1>1, <1>4, MainRuns DEF History, Effects, Inv
<1>6. pc["main"] \in Nat /\ j \in Nat
  BY MainRuns, Patient DEF Inv
<1> QED BY <1>3, <1>5, <1>6 DEF Passed

(* A store that was opened and not closed is up.                           *)
LEMMA StaysUp ==
  ASSUME History, ~ Closed, NEW q \in Processes, NEW i \in 1 .. Len(Steps(q)),
         Passed(q, i), Steps(q)[i] = Open
  PROVE  up
<1>1. Effects(Steps(q)[i]) /\ Steps(q)[i].op = "open"
  BY DEF History, Open
<1> QED BY <1>1 DEF Effects

(* The store is closed by main only, at this step.                         *)
ClosesAt(n) ==
  \A q \in Processes : \A i \in 1 .. Len(Steps(q)) :
    Steps(q)[i].op = "close" => q = "main" /\ i = n

(* It is not closed before main is there.                                  *)
LEMMA NotClosed ==
  ASSUME NEW n \in Nat, ClosesAt(n), pc["main"] <= n, pc["main"] \in Nat
  PROVE  ~ Closed
BY DEF Closed, ClosesAt, Passed

(* The programs of the exchange over Dragon, step by step.                 *)
LEMMA DragonShape ==
  ASSUME example = DragonExchange
  PROVE  /\ Processes = {"main", "producer", "consumer"}
         /\ Len(Steps("main")) = 6 /\ Steps("main")[1] = Open
         /\ Steps("main")[2] = Start("producer") /\ Steps("main")[3] = Join("producer")
         /\ Steps("main")[4] = Start("consumer") /\ Steps("main")[5] = Join("consumer")
         /\ Steps("main")[6] = Close
         /\ Steps("producer") = Producer.try /\ Steps("consumer") = Consumer.try
<1> DEFINE steps == <<Open>> \o OneAfterTheOther \o <<Close>>
<1>1. /\ Len(steps) = 6 /\ steps[1] = Open /\ steps[2] = Start("producer")
      /\ steps[3] = Join("producer") /\ steps[4] = Start("consumer")
      /\ steps[5] = Join("consumer") /\ steps[6] = Close
  BY DEF OneAfterTheOther
<1>2. steps \in Seq({Open, Close, Start("producer"), Join("producer"), Start("consumer"),
                     Join("consumer")})
  BY DEF OneAfterTheOther
<1>3. /\ DOMAIN example.programs = {"main", "producer", "consumer"}
      /\ example.programs["main"] = Straight(steps)
      /\ example.programs["producer"] = Producer /\ example.programs["consumer"] = Consumer
  BY DEF DragonExchange
<1> HIDE DEF steps
<1>4. Steps("main") = steps
  BY <1>2, <1>3, StraightSteps
<1>5. Producer = Straight(Producer.try) /\ Consumer = Straight(Consumer.try)
  BY DEF Producer, Consumer, Straight, Program
<1>6. Steps("producer") = Producer.try /\ Steps("consumer") = Consumer.try
  BY <1>3, <1>5, StraightSteps, ProducerPlain, ConsumerPlain
<1> QED BY <1>1, <1>3, <1>4, <1>6 DEF Processes

(* The programs of the exchange over a database, step by step.             *)
LEMMA RedisShape ==
  ASSUME example = RedisExchange
  PROVE  /\ Processes = {"main", "db", "producer", "consumer"}
         /\ Len(Steps("main")) = 7 /\ Steps("main")[1] = Start("db")
         /\ Steps("main")[2] = Sleep(3)
         /\ Steps("main")[3] = Start("producer") /\ Steps("main")[4] = Join("producer")
         /\ Steps("main")[5] = Start("consumer") /\ Steps("main")[6] = Join("consumer")
         /\ Steps("main")[7] = Close
         /\ Len(Steps("db")) = 2 /\ Steps("db")[1] = Launch /\ Steps("db")[2] = Open
         /\ Steps("producer") = Producer.try /\ Steps("consumer") = Consumer.try
<1> DEFINE steps == <<Start("db"), Sleep(3)>> \o OneAfterTheOther
<1>1. /\ Len(steps \o <<Close>>) = 7
      /\ (steps \o <<Close>>)[1] = Start("db") /\ (steps \o <<Close>>)[2] = Sleep(3)
      /\ (steps \o <<Close>>)[3] = Start("producer")
      /\ (steps \o <<Close>>)[4] = Join("producer")
      /\ (steps \o <<Close>>)[5] = Start("consumer")
      /\ (steps \o <<Close>>)[6] = Join("consumer") /\ (steps \o <<Close>>)[7] = Close
  BY DEF OneAfterTheOther
<1>2. /\ DOMAIN example.programs = {"main", "db", "producer", "consumer"}
      /\ example.programs["main"] = Program(steps, <<Close>>)
      /\ example.programs["db"] = Straight(<<Launch, Open>>)
      /\ example.programs["producer"] = Producer /\ example.programs["consumer"] = Consumer
  BY DEF RedisExchange
<1> HIDE DEF steps
<1>3. Steps("main") = steps \o <<Close>>
  BY <1>2 DEF Steps, Program
<1>4. Producer = Straight(Producer.try) /\ Consumer = Straight(Consumer.try)
  BY DEF Producer, Consumer, Straight, Program
<1>5. Steps("producer") = Producer.try /\ Steps("consumer") = Consumer.try
  BY <1>2, <1>4, StraightSteps, ProducerPlain, ConsumerPlain
<1>6. <<Launch, Open>> \in Seq(PlainSteps)
  BY OtherSteps
<1>7. Steps("db") = <<Launch, Open>>
  BY <1>2, <1>6, StraightSteps
<1>8. Len(Steps("db")) = 2 /\ Steps("db")[1] = Launch /\ Steps("db")[2] = Open
  BY <1>7
<1> QED BY <1>1, <1>2, <1>3, <1>5, <1>8 DEF Processes

(* The consumer gets what the producer puts.                               *)
LEMMA ProducerConsumer ==
  /\ Len(Producer.try) = 5 /\ Len(Consumer.try) = 5
  /\ \A i \in 1 .. 5 :
       /\ Producer.try[i].op = IF i = 1 THEN "launch" ELSE "put"
       /\ Consumer.try[i].op = IF i = 1 THEN "launch" ELSE "get"
       /\ i > 1 => \E j \in 2 .. 5 : Producer.try[j].key = Consumer.try[i].key
<1>1. \A i \in 1 .. 5 : i \in {1, 2, 3, 4, 5}
  OBVIOUS
<1>2. /\ Len(Producer.try) = 5 /\ Producer.try[1].op = "launch"
      /\ Producer.try[2].op = "put" /\ Producer.try[2].key = "some-int"
      /\ Producer.try[3].op = "put" /\ Producer.try[3].key = "some-float"
      /\ Producer.try[4].op = "put" /\ Producer.try[4].key = "some-float-tensor"
      /\ Producer.try[5].op = "put" /\ Producer.try[5].key = "some-int-tensor"
  BY DEF Producer, Straight, Program, Launch, Put
<1>3. /\ Len(Consumer.try) = 5 /\ Consumer.try[1].op = "launch"
      /\ Consumer.try[2].op = "get" /\ Consumer.try[2].key = "some-int"
      /\ Consumer.try[3].op = "get" /\ Consumer.try[3].key = "some-int-tensor"
      /\ Consumer.try[4].op = "get" /\ Consumer.try[4].key = "some-float"
      /\ Consumer.try[5].op = "get" /\ Consumer.try[5].key = "some-float-tensor"
  BY DEF Consumer, Straight, Program, Launch, Get
<1> QED BY <1>1, <1>2, <1>3

(* Neither closes the store.                                               *)
LEMMA ProducerConsumerOps ==
  \A i \in 1 .. 5 : Producer.try[i].op # "close" /\ Consumer.try[i].op # "close"
<1>1. \A i \in 1 .. 5 :
        Producer.try[i].op \in {"launch", "put"} /\ Consumer.try[i].op \in {"launch", "get"}
  BY ProducerConsumer
<1> QED BY <1>1

(* If the store is up when the producer starts and until the consumer has  *)
(* ended, and the consumer starts after the producer has, nothing is       *)
(* missing.                                                                *)
LEMMA ProducerConsumerFine ==
  ASSUME Inv, History, {"producer", "consumer"} \subseteq Processes,
         Steps("producer") = Producer.try, Steps("consumer") = Consumer.try,
         NEW p \in {"producer", "consumer"}, Running(p) => up,
         Running("consumer") => Ended("producer")
  PROVE  Fine(p)
<1> SUFFICES ASSUME At(p, {"put", "get", "wait"}), Step(p).op # "put"
             PROVE  Step(p).key \in DOMAIN items
  BY DEF Fine, At
<1>1. pc[p] \in 1 .. 5 /\ Step(p) = Steps(p)[pc[p]]
  BY ProducerConsumer DEF At, Running, Step
<1>2. p = "consumer"
  BY <1>1, ProducerConsumer DEF At
<1>3. PICK j \in 2 .. 5 : Producer.try[j].key = Step(p).key
  BY <1>1, <1>2, ProducerConsumer DEF At
<1>4. Passed("producer", j)
  <2>1. pc["producer"] \in Nat /\ pc["producer"] > 5
    BY <1>2, ProducerConsumer, Patient DEF Ended, At
  <2> QED BY <2>1, ProducerConsumer DEF Passed
<1>5. Steps("producer")[j].op = "put" /\ Effects(Steps("producer")[j])
  BY <1>4, ProducerConsumer DEF History, Passed
<1> QED BY <1>3, <1>5 DEF Effects

(* The driver closes the store when both have ended.                       *)
LEMMA DragonCloses == example = DragonExchange => ClosesAt(6)
<1> SUFFICES ASSUME example = DragonExchange PROVE ClosesAt(6)
  OBVIOUS
<1>1. \A i \in 1 .. 6 : i \in {1, 2, 3, 4, 5, 6}
  OBVIOUS
<1>2. \A i \in 1 .. 6 : Steps("main")[i].op = "close" => i = 6
  BY <1>1, DragonShape DEF Open, Start, Join
<1>3. \A q \in {"producer", "consumer"} : \A i \in 1 .. Len(Steps(q)) : Steps(q)[i].op # "close"
  <2>1. /\ Steps("producer") = Producer.try /\ Steps("consumer") = Consumer.try
        /\ Len(Steps("producer")) = 5 /\ Len(Steps("consumer")) = 5
    BY DragonShape, ProducerConsumer
  <2> QED BY <2>1, ProducerConsumerOps
<1> QED BY <1>2, <1>3, DragonShape DEF ClosesAt

(* Joins keep the consumer behind the producer and the store up for both.  *)
LEMMA DragonFine ==
  ASSUME Inv, History, example = DragonExchange, NEW p \in Processes
  PROVE  Fine(p)
<1> DEFINE m == pc["main"]
<1>1. m \in Nat
  BY DragonShape, Patient
<1>2. Running("producer") => m = 3
  <2>1. Running("producer") => 2 < m /\ m <= 3
    BY DragonShape, Supervised
  <2> QED BY <1>1, <2>1
<1>3. Running("consumer") => m = 5
  <2>1. Running("consumer") => 4 < m /\ m <= 5
    BY DragonShape, Supervised
  <2> QED BY <1>1, <2>1
<1>4. m \in {3, 5} => up
  <2>1. m \in {3, 5} => Passed("main", 1)
    BY DragonShape DEF Passed
  <2>2. m \in {3, 5} => ~ Closed
    BY <1>1, DragonCloses, NotClosed
  <2> QED BY <2>1, <2>2, DragonShape, StaysUp
<1>5. Running("consumer") => Ended("producer")
  <2>1. m = 5 => Passed("main", 3)
    BY DragonShape DEF Passed
  <2>2. Steps("main")[3].op = "join" /\ Steps("main")[3].process = "producer"
    BY DragonShape DEF Join
  <2> QED BY <1>3, <2>1, <2>2, DragonShape DEF History, Effects
<1>6. Fine("main")
  <2>1. \A i \in 1 .. 6 : Steps("main")[i].op \in {"open", "start", "join", "close"}
    <3>1. \A i \in 1 .. 6 : i \in {1, 2, 3, 4, 5, 6}
      OBVIOUS
    <3> QED BY <3>1, DragonShape DEF Open, Start, Join, Close
  <2> QED BY <2>1, DragonShape DEF Fine, At, Running, Step
<1> QED BY <1>2, <1>3, <1>4, <1>5, <1>6, DragonShape, ProducerConsumerFine

(* The driver closes the store when both have ended.                       *)
LEMMA RedisCloses == example = RedisExchange => ClosesAt(7)
<1> SUFFICES ASSUME example = RedisExchange PROVE ClosesAt(7)
  OBVIOUS
<1>1. \A i \in 1 .. 7 : i \in {1, 2, 3, 4, 5, 6, 7}
  OBVIOUS
<1>2. \A i \in 1 .. 7 : Steps("main")[i].op = "close" => i = 7
  BY <1>1, RedisShape DEF Sleep, Start, Join
<1>3. \A q \in {"producer", "consumer"} : \A i \in 1 .. Len(Steps(q)) : Steps(q)[i].op # "close"
  <2>1. /\ Steps("producer") = Producer.try /\ Steps("consumer") = Consumer.try
        /\ Len(Steps("producer")) = 5 /\ Len(Steps("consumer")) = 5
    BY RedisShape, ProducerConsumer
  <2> QED BY <2>1, ProducerConsumerOps
<1>4. \A i \in 1 .. Len(Steps("db")) : Steps("db")[i].op # "close"
  <2>1. \A i \in 1 .. 2 : i \in {1, 2}
    OBVIOUS
  <2>2. \A i \in 1 .. 2 : Steps("db")[i].op # "close"
    BY <2>1, RedisShape DEF Launch, Open
  <2>3. Len(Steps("db")) = 2
    BY RedisShape
  <2> QED BY <2>2, <2>3
<1>5. Processes = {"main", "db", "producer", "consumer"} /\ Len(Steps("main")) = 7
  BY RedisShape
<1> QED BY <1>2, <1>3, <1>4, <1>5 DEF ClosesAt

(* The database is up when the driver has slept.                           *)
LEMMA RedisFine ==
  ASSUME Inv, History, example = RedisExchange, RedisInTime, NEW p \in Processes
  PROVE  Fine(p)
<1> DEFINE m == pc["main"]
<1>1. m \in Nat /\ pc["db"] \in Nat
  BY RedisShape, Patient
<1>2. Running("producer") => m = 4
  <2>1. Running("producer") => 3 < m /\ m <= 4
    BY RedisShape, Supervised
  <2> QED BY <1>1, <2>1
<1>3. Running("consumer") => m = 6
  <2>1. Running("consumer") => 5 < m /\ m <= 6
    BY RedisShape, Supervised
  <2> QED BY <1>1, <2>1
<1>4. m \in {4, 6} => up
  <2>1. m \in {4, 6} => Passed("db", 2)
    BY <1>1, RedisShape DEF Passed, RedisInTime
  <2>2. m \in {4, 6} => ~ Closed
    BY <1>1, RedisCloses, NotClosed
  <2> QED BY <2>1, <2>2, RedisShape, StaysUp
<1>5. Running("consumer") => Ended("producer")
  <2>1. m = 6 => Passed("main", 4)
    BY RedisShape DEF Passed
  <2>2. Steps("main")[4].op = "join" /\ Steps("main")[4].process = "producer"
    BY RedisShape DEF Join
  <2> QED BY <1>3, <2>1, <2>2, RedisShape DEF History, Effects
<1>6. Fine("main") /\ Fine("db")
  <2>1. \A i \in 1 .. 7 : Steps("main")[i].op \in {"sleep", "start", "join", "close"}
    <3>1. \A i \in 1 .. 7 : i \in {1, 2, 3, 4, 5, 6, 7}
      OBVIOUS
    <3> QED BY <3>1, RedisShape DEF Sleep, Start, Join, Close
  <2>2. \A i \in 1 .. 2 : Steps("db")[i].op \in {"launch", "open"}
    BY RedisShape DEF Launch, Open
  <2> QED BY <2>1, <2>2, RedisShape DEF Fine, At, Running, Step
<1> QED BY <1>2, <1>3, <1>4, <1>5, <1>6, RedisShape, ProducerConsumerFine

(* The driver sleeps longer than the database needs to come up.            *)
LEMMA RedisSteps ==
  ASSUME Inv, History, FastEnough, example = RedisExchange, RedisInTime,
         NEW p \in Processes, Ready(p), Advances(p)
  PROVE  RedisInTime'
<1>1. /\ \A q \in {"main", "db"} : q \in Processes /\ pc[q] \in Nat /\ pc'[q] \in Nat
           /\ pc[q] <= pc'[q] /\ age[q] \in Nat /\ late[q] \in Nat
           /\ (q # p => age'[q] = age[q] /\ late'[q] = late[q])
           /\ (q = p => age'[q] = 0 /\ late'[q] = 0 /\ pc'[q] = pc[q] + 1)
      /\ Second \in Nat /\ Delay \in Nat /\ StartUp \in Nat
  BY RedisShape, Patient, PastStays DEF Advances
<1>2. \A q \in {"main", "db"} : q # p /\ p # "main" => pc'[q] = pc[q]
  BY Starting, RedisShape DEF Advances, At
<1>3. CASE p = "main"
  <2>1. pc["main"] \in 1 .. 7
    BY <1>3, RedisShape DEF Advances, Running
  <2>2. CASE pc["main"] = 1
    <3>1. pc'["db"] = 1 /\ pc'["main"] = 2
      BY <1>1, <1>3, <2>2, RedisShape DEF Advances, Step, Start
    <3> QED BY <1>1, <1>3, <3>1 DEF RedisInTime
  <2>3. CASE pc["main"] = 2
    <3>1. age["main"] >= 3 * Second
      BY <1>3, <2>3, RedisShape DEF Ready, At, Step, Sleep, Running
    <3>2. pc["db"] # 0
      <4>1. Passed("main", 1) /\ 1 \in 1 .. Len(Steps("main"))
        BY <2>3, RedisShape DEF Passed
      <4>2. Steps("main")[1].op = "start" /\ Steps("main")[1].process = "db"
        BY RedisShape DEF Start
      <4>3. pc["db"] > 0
        BY <4>1, <4>2, RedisShape DEF History, Effects
      <4> QED BY <1>1, <4>3
    <3>3. pc["db"] # 1
      <4>1. pc["db"] = 1 => At("db", {"launch"})
        BY RedisShape DEF At, Running, Step, Launch
      <4>2. pc["db"] = 1 => late["db"] <= StartUp
        BY <1>1, <4>1, Patient
      <4> QED BY <1>1, <2>3, <3>1, <4>2 DEF RedisInTime, FastEnough
    <3>4. pc["db"] # 2
      <4>1. pc["db"] = 2 => ~ At("db", {"launch"})
        BY RedisShape DEF At, Running, Step, Open
      <4>2. pc["db"] = 2 => late["db"] <= Delay
        BY <1>1, <4>1, Patient
      <4> QED BY <1>1, <2>3, <3>1, <4>2 DEF RedisInTime, FastEnough
    <3> QED BY <1>1, <1>3, <2>3, <3>2, <3>3, <3>4 DEF RedisInTime
  <2>4. CASE pc["main"] > 2
    BY <1>1, <1>3, <2>4 DEF RedisInTime
  <2> QED BY <2>1, <2>2, <2>3, <2>4
<1>4. CASE p = "db"
  <2>1. pc["db"] \in {1, 2}
    <3>1. pc["db"] \in 1 .. 2
      BY <1>4, RedisShape DEF Advances, Running
    <3> QED BY <3>1
  <2>2. pc["db"] = 1 => late["db"] <= StartUp
    <3>1. pc["db"] = 1 => At("db", {"launch"})
      BY RedisShape DEF At, Running, Step, Launch
    <3> QED BY <1>1, <3>1, Patient
  <2>3. pc'["main"] = pc["main"]
    BY <1>1, <1>2, <1>4
  <2> QED BY <1>1, <1>4, <2>1, <2>2, <2>3 DEF RedisInTime
<1>5. CASE p \notin {"main", "db"}
  BY <1>1, <1>2, <1>5 DEF RedisInTime
<1> QED BY <1>3, <1>4, <1>5

(* While the driver sleeps, the database only gets later.                  *)
LEMMA RedisTicks ==
  ASSUME Inv, example = RedisExchange, RedisInTime, Tick
  PROVE  RedisInTime'
<1>1. /\ "main" \in Processes /\ "db" \in Processes
      /\ Len(Steps("db")) = 2 /\ Steps("db")[1] = Launch /\ Steps("db")[2] = Open
  BY RedisShape
<1>2. pc["db"] \in {1, 2} => Ready("db")
  BY <1>1, Patient DEF Running, Step, Launch, Open
<1> QED BY <1>1, <1>2, TickFacts, Patient DEF RedisInTime

(* The programs of RHAPSODY's example, step by step, without a nap and     *)
(* with one.                                                               *)
LEMMA RhapsodyShape ==
  ASSUME NEW n \in {0, 1}, example = WithNaps(n)
  PROVE  /\ Processes = {"main", "produce", "consume"}
         /\ example.backend \in {"dragon", "smartredis"}
         /\ Len(Steps("main")) = 6 /\ Steps("main")[1] = Open
         /\ Steps("main")[2] = Start("produce") /\ Steps("main")[3] = Start("consume")
         /\ Steps("main")[4] = Join("produce") /\ Steps("main")[5] = Join("consume")
         /\ Steps("main")[6] = Close
         /\ Len(Steps("produce")) = 3 /\ Steps("produce")[1] = Launch
         /\ Steps("produce")[2] = Put("samples", NumPyArray("float64"))
         /\ Steps("produce")[3] = Put("sample-count", Number("int"))
         /\ Len(Steps("consume")) = n + 3
         /\ Steps("consume")[1] = Launch
         /\ n = 1 => Steps("consume")[2] = Sleep(2)
         /\ Steps("consume")[n + 2] = Wait("samples", Tensor(AnyDType))
         /\ Steps("consume")[n + 3] = Wait("sample-count", Scalar(AnyDType))
<1> DEFINE backend == IF n = 0 THEN "dragon" ELSE "smartredis"
           nap == IF n = 0 THEN <<>> ELSE <<Sleep(2)>>
           main == <<Open, Start("produce"), Start("consume"),
                     Join("produce"), Join("consume"), Close>>
           produce == <<Launch, Put("samples", NumPyArray("float64")),
                        Put("sample-count", Number("int"))>>
           consume == <<Launch>> \o nap \o
                      <<Wait("samples", Tensor(AnyDType)), Wait("sample-count", Scalar(AnyDType))>>
<1>1. example = Rhapsody(backend, nap)
  BY DEF WithNaps
<1>2. /\ DOMAIN example.programs = {"main", "produce", "consume"}
      /\ example.backend = backend
      /\ example.programs["main"] = Straight(main)
      /\ example.programs["produce"] = Straight(produce)
      /\ example.programs["consume"] = Straight(consume)
  <2> HIDE DEF backend, nap
  <2> QED BY <1>1 DEF Rhapsody, Produce, Consume
<1>3. main \in Seq(PlainSteps \cup Starts)
  BY OtherSteps DEF Names
<1>4. produce \in Seq(PlainSteps)
  BY ProducePlain DEF Produce, Straight, Program
<1>5. nap \in Seq(PlainSteps)
  <2>1. <<>> \in Seq(PlainSteps) /\ <<Sleep(2)>> \in Seq(PlainSteps)
    BY OtherSteps
  <2> QED BY <2>1
<1>6. consume \in Seq(PlainSteps)
  <2> HIDE DEF nap
  <2> QED BY <1>5, ConsumePlain DEF Consume, Straight, Program
<1>7. /\ Len(consume) = n + 3 /\ consume[1] = Launch
      /\ n = 1 => consume[2] = Sleep(2)
      /\ consume[n + 2] = Wait("samples", Tensor(AnyDType))
      /\ consume[n + 3] = Wait("sample-count", Scalar(AnyDType))
  <2>1. CASE n = 0
    BY <2>1
  <2>2. CASE n = 1
    BY <2>2
  <2> QED BY <2>1, <2>2
<1> HIDE DEF main, produce, consume
<1>8. Steps("main") = main /\ Steps("produce") = produce /\ Steps("consume") = consume
  BY <1>2, <1>3, <1>4, <1>6, StraightSteps
<1>9. /\ Len(main) = 6 /\ main[1] = Open /\ main[2] = Start("produce")
      /\ main[3] = Start("consume") /\ main[4] = Join("produce")
      /\ main[5] = Join("consume") /\ main[6] = Close
  BY DEF main
<1>10. /\ Len(produce) = 3 /\ produce[1] = Launch
       /\ produce[2] = Put("samples", NumPyArray("float64"))
       /\ produce[3] = Put("sample-count", Number("int"))
  BY DEF produce
<1> QED BY <1>2, <1>7, <1>8, <1>9, <1>10 DEF Processes

(* What those steps do.                                                    *)
LEMMA RhapsodyOps ==
  ASSUME NEW n \in {0, 1}, example = WithNaps(n)
  PROVE  /\ \A i \in 1 .. 6 : Steps("main")[i].op \in {"open", "start", "join", "close"}
         /\ \A i \in 1 .. 6 : Steps("main")[i].op = "close" => i = 6
         /\ \A i \in 4 .. 6 : Steps("main")[i].op # "start"
         /\ \A i \in 1 .. 3 : Steps("produce")[i].op = IF i = 1 THEN "launch" ELSE "put"
         /\ Steps("produce")[2].key = "samples" /\ Steps("produce")[3].key = "sample-count"
         /\ \A i \in 1 .. n + 3 :
              /\ i < n + 2 => Steps("consume")[i].op \in {"launch", "sleep"}
              /\ i >= n + 2 => /\ Steps("consume")[i].op = "wait"
                               /\ Steps("consume")[i].key \in {"samples", "sample-count"}
<1>1. \A i \in 1 .. 6 : i \in {1, 2, 3, 4, 5, 6}
  OBVIOUS
<1>2. \A i \in 1 .. 6 : /\ Steps("main")[i].op \in {"open", "start", "join", "close"}
                        /\ Steps("main")[i].op = "close" => i = 6
                        /\ i > 3 => Steps("main")[i].op # "start"
  BY <1>1, RhapsodyShape DEF Open, Start, Join, Close
<1>3. \A i \in 1 .. 3 : i \in {1, 2, 3}
  OBVIOUS
<1>4. \A i \in 1 .. 3 : Steps("produce")[i].op = IF i = 1 THEN "launch" ELSE "put"
  BY <1>3, RhapsodyShape DEF Launch, Put
<1>5. Steps("produce")[2].key = "samples" /\ Steps("produce")[3].key = "sample-count"
  BY RhapsodyShape DEF Put
<1>6. \A i \in 1 .. n + 3 : i = 1 \/ (n = 1 /\ i = 2) \/ i = n + 2 \/ i = n + 3
  OBVIOUS
<1>7. \A i \in 1 .. n + 3 :
        /\ i < n + 2 => Steps("consume")[i].op \in {"launch", "sleep"}
        /\ i >= n + 2 => /\ Steps("consume")[i].op = "wait"
                         /\ Steps("consume")[i].key \in {"samples", "sample-count"}
  BY <1>6, RhapsodyShape DEF Launch, Sleep, Wait
<1> QED BY <1>2, <1>4, <1>5, <1>7

(* The store is closed when both tasks have ended.                         *)
LEMMA RhapsodyCloses == \A n \in {0, 1} : example = WithNaps(n) => ClosesAt(6)
<1> SUFFICES ASSUME NEW n \in {0, 1}, example = WithNaps(n) PROVE ClosesAt(6)
  OBVIOUS
<1>1. \A i \in 1 .. 3 : Steps("produce")[i].op # "close"
  <2>1. \A i \in 1 .. 3 : Steps("produce")[i].op \in {"launch", "put"}
    BY RhapsodyOps
  <2> QED BY <2>1
<1>2. \A i \in 1 .. n + 3 : Steps("consume")[i].op # "close"
  <2>1. \A i \in 1 .. n + 3 : i < n + 2 \/ i >= n + 2
    OBVIOUS
  <2>2. \A i \in 1 .. n + 3 : Steps("consume")[i].op \in {"launch", "sleep", "wait"}
    BY <2>1, RhapsodyOps
  <2> QED BY <2>2
<1>3. \A i \in 1 .. 6 : Steps("main")[i].op = "close" => i = 6
  BY RhapsodyOps
<1>4. /\ Processes = {"main", "produce", "consume"}
      /\ Len(Steps("main")) = 6 /\ Len(Steps("produce")) = 3 /\ Len(Steps("consume")) = n + 3
  BY RhapsodyShape
<1> QED BY <1>1, <1>2, <1>3, <1>4 DEF ClosesAt

(* How late the producer may be.                                           *)
LEMMA RhapsodyLate ==
  ASSUME Inv, NEW n \in {0, 1}, example = WithNaps(n), pc["produce"] \in 1 .. 3
  PROVE  late["produce"] <= IF pc["produce"] = 1 THEN StartUp ELSE Delay
<1>1. Running("produce") /\ Step("produce").op = IF pc["produce"] = 1 THEN "launch" ELSE "put"
  BY RhapsodyShape, RhapsodyOps DEF Running, Step
<1> QED BY <1>1, RhapsodyShape, Patient DEF At

(* The consumer waits longer than the producer takes.                      *)
LEMMA RhapsodyFine ==
  ASSUME Inv, History, FastEnough, NEW n \in {0, 1}, example = WithNaps(n), RhapsodyInTime(n),
         NEW p \in Processes, Ready(p)
  PROVE  Fine(p)
<1> DEFINE m == pc["main"]
<1>1. m \in Nat /\ Running(p)
  BY RhapsodyShape, Patient DEF Ready
<1>2. ASSUME p \in {"produce", "consume"} PROVE up /\ pc["produce"] > 0
  <2>1. 2 < m /\ m <= 5
    <3>1. p = "produce" => 2 < m /\ m <= 4
      BY <1>1, RhapsodyShape, Supervised
    <3>2. p = "consume" => 3 < m /\ m <= 5
      BY <1>1, RhapsodyShape, Supervised
    <3> QED BY <1>1, <1>2, <3>1, <3>2
  <2>2. Passed("main", 1) /\ Passed("main", 2)
    BY <1>1, <2>1, RhapsodyShape DEF Passed
  <2>3. ~ Closed
    BY <1>1, <2>1, RhapsodyCloses, NotClosed
  <2>4. Steps("main")[2].op = "start" /\ Steps("main")[2].process = "produce"
    BY RhapsodyShape DEF Start
  <2>5. pc["produce"] > 0
    BY <2>2, <2>4, RhapsodyShape DEF History, Effects
  <2> QED BY <2>2, <2>3, <2>5, RhapsodyShape, StaysUp
<1>3. ASSUME p = "main" PROVE Fine(p)
  <2>1. Step(p).op \in {"open", "start", "join", "close"}
    BY <1>1, <1>3, RhapsodyShape, RhapsodyOps DEF Running, Step
  <2> QED BY <2>1 DEF Fine, At
<1>4. ASSUME p = "produce" PROVE Fine(p)
  <2>1. Step(p).op \in {"launch", "put"}
    BY <1>1, <1>4, RhapsodyShape, RhapsodyOps DEF Running, Step
  <2> QED BY <1>2, <1>4, <2>1 DEF Fine, At
<1>5. ASSUME p = "consume" PROVE Fine(p)
  <2> SUFFICES ASSUME At(p, {"put", "get", "wait"}), Step(p).key \notin DOMAIN items
               PROVE  FALSE
    BY <1>2, <1>5 DEF Fine
  <2>1. /\ pc[p] \in {n + 2, n + 3} /\ Step(p).op = "wait"
        /\ Step(p).key \in {"samples", "sample-count"}
    <3>1. pc[p] \in 1 .. n + 3 /\ Step(p) = Steps(p)[pc[p]]
      BY <1>1, <1>5, RhapsodyShape DEF Running, Step
    <3>2. pc[p] >= n + 2
      <4>1. pc[p] < n + 2 => Step(p).op \in {"launch", "sleep"}
        BY <1>5, <3>1, RhapsodyOps
      <4>2. ~ (pc[p] < n + 2)
        BY <4>1 DEF At
      <4> QED BY <3>1, <4>2
    <3>3. pc[p] \in {n + 2, n + 3}
      BY <3>1, <3>2
    <3> QED BY <1>5, <3>1, <3>2, <3>3, RhapsodyOps
  <2>2. pc["produce"] \in 1 .. 3
    <3>1. \A i \in 2 .. 3 : Passed("produce", i) => Steps("produce")[i].key \in DOMAIN items
      BY RhapsodyShape, RhapsodyOps DEF History, Effects
    <3>2. pc["produce"] > 3 => Passed("produce", 2) /\ Passed("produce", 3)
      BY RhapsodyShape, Patient DEF Passed
    <3>3. ~ (pc["produce"] > 3)
      BY <2>1, <3>1, <3>2, RhapsodyOps
    <3> QED BY <1>2, <1>5, <3>3, RhapsodyShape, Patient
  <2>3. age["consume"] >= Deadline("consume")
    BY <1>2, <1>5, <2>1 DEF Ready, At
  <2>4. Deadline("consume") >= 5 * Second
    BY RhapsodyShape, WorkflowsAssumption DEF Deadline, Asked, Attached
  <2>5. late["produce"] <= IF pc["produce"] = 1 THEN StartUp ELSE Delay
    BY <2>2, RhapsodyLate
  <2>6. age["consume"] <= StartUp + Delay + Delay
    <3>1. /\ "consume" \in Processes /\ "produce" \in Processes
          /\ age["consume"] \in Nat /\ late["produce"] \in Nat
          /\ Delay \in Nat /\ StartUp \in Nat
      BY RhapsodyShape, Patient
    <3>2. pc["consume"] \in {n + 2, n + 3}
      BY <1>5, <2>1
    <3>3. CASE pc["produce"] = 1
      BY <2>5, <3>1, <3>2, <3>3 DEF RhapsodyInTime
    <3>4. CASE pc["produce"] = 2
      BY <2>5, <3>1, <3>2, <3>4 DEF RhapsodyInTime
    <3>5. CASE pc["produce"] = 3
      BY <2>5, <3>1, <3>2, <3>5 DEF RhapsodyInTime
    <3> QED BY <2>2, <3>3, <3>4, <3>5
  <2>7. /\ age["consume"] \in Nat /\ Second \in Nat /\ Delay \in Nat /\ StartUp \in Nat
        /\ Deadline("consume") \in Nat
    BY RhapsodyShape, Patient, WorkflowsAssumption DEF Deadline, Asked, Attached
  <2> QED BY <2>3, <2>4, <2>6, <2>7 DEF FastEnough
<1> QED BY <1>3, <1>4, <1>5, RhapsodyShape

(* The producer is not later than it may be, and the consumer waits afresh *)
(* for the second item.                                                    *)
LEMMA RhapsodySteps ==
  ASSUME Inv, NEW n \in {0, 1}, example = WithNaps(n), RhapsodyInTime(n),
         NEW p \in Processes, Advances(p)
  PROVE  RhapsodyInTime(n)'
<1> SUFFICES ASSUME pc'["consume"] \in {n + 2, n + 3}
             PROVE  /\ pc'["produce"] = 1 => age'["consume"] <= late'["produce"]
                    /\ pc'["produce"] = 2 => age'["consume"] <= StartUp + late'["produce"]
                    /\ pc'["produce"] = 3 => age'["consume"] <= StartUp + Delay + late'["produce"]
  BY DEF RhapsodyInTime
<1>1. /\ \A q \in {"produce", "consume"} : q \in Processes /\ pc[q] \in Nat /\ pc'[q] \in Nat
           /\ age[q] \in Nat /\ late[q] \in Nat
           /\ (q # p => age'[q] = age[q] /\ late'[q] = late[q])
           /\ (q = p => age'[q] = 0 /\ late'[q] = 0 /\ pc'[q] = pc[q] + 1)
      /\ Second \in Nat /\ Delay \in Nat /\ StartUp \in Nat
  BY RhapsodyShape, Patient, PastStays DEF Advances
<1>2. \A q \in {"produce", "consume"} : q # p /\ p # "main" => pc'[q] = pc[q]
  BY Starting, RhapsodyShape DEF Advances, At
<1>3. CASE p = "main"
  <2>1. pc'["consume"] = pc["consume"]
    BY <1>1, <1>3 DEF Advances
  <2>2. pc["main"] \in 4 .. 6
    <3>1. Steps("main")[3].op = "start" /\ Steps("main")[3].process = "consume"
      BY RhapsodyShape DEF Start
    <3>2. pc["consume"] # 0
      BY <1>1, <2>1
    <3>3. pc["main"] > 3
      BY <3>1, <3>2, RhapsodyShape, Started DEF Passed
    <3>4. pc["main"] \in 1 .. 6
      BY <1>3, RhapsodyShape DEF Advances, Running
    <3> QED BY <3>3, <3>4
  <2>3. Step("main").op # "start"
    BY <2>2, RhapsodyOps DEF Step
  <2>4. pc'["produce"] = pc["produce"]
    BY <1>1, <1>3, <2>3 DEF Advances
  <2> QED BY <1>1, <1>3, <2>1, <2>4 DEF RhapsodyInTime
<1>4. CASE p = "produce"
  <2>1. pc["consume"] = pc'["consume"]
    BY <1>2, <1>4
  <2>2. pc["produce"] \in 1 .. 3
    BY <1>4, RhapsodyShape DEF Advances, Running
  <2>3. late["produce"] <= IF pc["produce"] = 1 THEN StartUp ELSE Delay
    BY <2>2, RhapsodyLate
  <2>4. pc'["produce"] = pc["produce"] + 1 /\ late'["produce"] = 0 /\ age'["consume"] = age["consume"]
    BY <1>1, <1>4
  <2>5. CASE pc["produce"] = 1
    BY <1>1, <2>1, <2>3, <2>4, <2>5 DEF RhapsodyInTime
  <2>6. CASE pc["produce"] = 2
    BY <1>1, <2>1, <2>3, <2>4, <2>6 DEF RhapsodyInTime
  <2>7. CASE pc["produce"] = 3
    BY <2>4, <2>7
  <2> QED BY <2>2, <2>5, <2>6, <2>7
<1>5. CASE p = "consume"
  BY <1>1, <1>5
<1> QED BY <1>3, <1>4, <1>5, RhapsodyShape

(* While the consumer waits, the producer only gets later.                 *)
LEMMA RhapsodyTicks ==
  ASSUME Inv, NEW n \in {0, 1}, example = WithNaps(n), RhapsodyInTime(n), Tick
  PROVE  RhapsodyInTime(n)'
<1>1. "produce" \in Processes /\ "consume" \in Processes
  BY RhapsodyShape
<1>2. pc["produce"] \in 1 .. 3 => Ready("produce")
  <2> SUFFICES ASSUME pc["produce"] \in 1 .. 3 PROVE Ready("produce")
    OBVIOUS
  <2>1. Running("produce") /\ Step("produce").op \in {"launch", "put"}
    BY RhapsodyShape, RhapsodyOps DEF Running, Step
  <2> QED BY <1>1, <2>1, Patient
<1>3. pc["produce"] \in 1 .. 3 => late'["produce"] = late["produce"] + 1
  BY <1>1, <1>2, TickFacts
<1>4. /\ age'["consume"] <= age["consume"] + 1 /\ pc' = pc
      /\ age["consume"] \in Nat /\ age'["consume"] \in Nat /\ late["produce"] \in Nat
      /\ StartUp \in Nat /\ Delay \in Nat
  BY <1>1, TickFacts, Patient
<1> QED BY <1>3, <1>4 DEF RhapsodyInTime

(* The keys that the driver puts for the app, and the app for the driver,  *)
(* in the order in which they are put and awaited.                         *)
ToApp == <<"py-int", "py-double", "py-np-float", "py-int-tensor", "py-float-tensor">>
ToDriver == <<"cpp-double", "cpp-int", "cpp-double-tensor", "cpp-long-tensor">>

(* A sequence with one more element.                                       *)
LEMMA OneMore ==
  ASSUME NEW S, NEW s \in Seq(S), NEW x \in S
  PROVE  /\ Len(s \o <<x>>) = Len(s) + 1 /\ (s \o <<x>>)[Len(s) + 1] = x
         /\ \A i \in 1 .. Len(s) : (s \o <<x>>)[i] = s[i]
OBVIOUS

(* What main is in the exchange between Python and C++.                    *)
LEMMA DriverShape ==
  ASSUME example = PyCppExchange
  PROVE  /\ Processes = {"main", "app"} /\ example.backend = "dragon"
         /\ Len(Steps("main")) = 20
         /\ \A i \in 1 .. 19 : Steps("main")[i] = Driver.try[i]
         /\ Steps("main")[20] = Join("app")
         /\ Steps("app") = App.try
<1>1. /\ DOMAIN example.programs = {"main", "app"} /\ example.backend = "dragon"
      /\ example.programs["main"] = Driver /\ example.programs["app"] = App
  BY DEF PyCppExchange
<1>2. Driver.try \in Seq(PlainSteps \cup Starts) /\ Driver.finally = <<Join("app")>>
  BY DriverSteps DEF Driver, Program
<1>3. Len(Driver.try) = 19
  BY DEF Driver, Program
<1>4. Steps("main") = Driver.try \o <<Join("app")>>
  BY <1>1, <1>2 DEF Steps
<1> DEFINE try == Driver.try  last == Join("app")  all == PlainSteps \cup Starts
<1>5. last \in all
  BY OtherSteps DEF Names
<1>6. try \in Seq(all)
  BY <1>2
<1> HIDE DEF try, last, all
<1>7. /\ Len(Steps("main")) = 20 /\ Steps("main")[20] = last
      /\ \A i \in 1 .. 19 : Steps("main")[i] = try[i]
  <2>1. PICK steps : steps = try \o <<last>>
    OBVIOUS
  <2>2. /\ Len(steps) = Len(try) + 1 /\ steps[Len(try) + 1] = last
        /\ \A i \in 1 .. Len(try) : steps[i] = try[i]
    BY <1>5, <1>6, <2>1, OneMore
  <2>3. Steps("main") = steps
    BY <1>4, <2>1 DEF try, last
  <2>4. Len(try) = 19
    BY <1>3 DEF try
  <2> QED BY <2>2, <2>3, <2>4
<1>8. App = Straight(App.try)
  BY DEF App, Straight, Program
<1>9. Steps("app") = App.try
  BY <1>1, <1>8, StraightSteps, AppPlain
<1> QED BY <1>1, <1>7, <1>9 DEF Processes, try, last

(* The driver's program: a nap before each message, then waits.            *)
LEMMA DriverProgram ==
  /\ Driver.try[1] = Open /\ Driver.try[2] = Launch /\ Driver.try[3] = Start("app")
  /\ \A k \in 1 .. 5 :
       /\ Driver.try[2 * k + 2] = Sleep(1)
       /\ Driver.try[2 * k + 3].op = "put" /\ Driver.try[2 * k + 3].key = ToApp[k]
  /\ \A k \in 1 .. 4 :
       Driver.try[k + 13].op = "wait" /\ Driver.try[k + 13].key = ToDriver[k]
  /\ Driver.try[18].op = "put" /\ Driver.try[18].key = "my-py-obj"
  /\ Driver.try[19].op = "get" /\ Driver.try[19].key = "my-py-obj"
<1>1. \A k \in 1 .. 5 : k \in {1, 2, 3, 4, 5}
  OBVIOUS
<1>2. \A k \in 1 .. 4 : k \in {1, 2, 3, 4}
  OBVIOUS
<1>3. /\ Driver.try[4] = Sleep(1) /\ Driver.try[6] = Sleep(1) /\ Driver.try[8] = Sleep(1)
      /\ Driver.try[10] = Sleep(1) /\ Driver.try[12] = Sleep(1)
  BY DEF Driver, Program
<1>4. /\ Driver.try[5].op = "put" /\ Driver.try[5].key = "py-int"
      /\ Driver.try[7].op = "put" /\ Driver.try[7].key = "py-double"
      /\ Driver.try[9].op = "put" /\ Driver.try[9].key = "py-np-float"
      /\ Driver.try[11].op = "put" /\ Driver.try[11].key = "py-int-tensor"
      /\ Driver.try[13].op = "put" /\ Driver.try[13].key = "py-float-tensor"
  BY DEF Driver, Program, Put
<1>5. /\ Driver.try[14].op = "wait" /\ Driver.try[14].key = "cpp-double"
      /\ Driver.try[15].op = "wait" /\ Driver.try[15].key = "cpp-int"
      /\ Driver.try[16].op = "wait" /\ Driver.try[16].key = "cpp-double-tensor"
      /\ Driver.try[17].op = "wait" /\ Driver.try[17].key = "cpp-long-tensor"
  BY DEF Driver, Program, Wait
<1>6. /\ Driver.try[1] = Open /\ Driver.try[2] = Launch /\ Driver.try[3] = Start("app")
      /\ Driver.try[18].op = "put" /\ Driver.try[18].key = "my-py-obj"
      /\ Driver.try[19].op = "get" /\ Driver.try[19].key = "my-py-obj"
  BY DEF Driver, Program, Put, Get
<1>7. \A k \in 1 .. 5 :
       /\ Driver.try[2 * k + 2] = Sleep(1)
       /\ Driver.try[2 * k + 3].op = "put" /\ Driver.try[2 * k + 3].key = ToApp[k]
  BY <1>1, <1>3, <1>4 DEF ToApp
<1>8. \A k \in 1 .. 4 : Driver.try[k + 13].op = "wait" /\ Driver.try[k + 13].key = ToDriver[k]
  BY <1>2, <1>5 DEF ToDriver
<1> QED BY <1>6, <1>7, <1>8

(* The app's program: waits, then a nap before each answer.                *)
LEMMA AppProgram ==
  /\ Len(App.try) = 14 /\ App.try[1] = Launch
  /\ \A k \in 1 .. 5 : App.try[k + 1].op = "wait" /\ App.try[k + 1].key = ToApp[k]
  /\ \A k \in 1 .. 4 :
       /\ App.try[2 * k + 5] = Sleep(1)
       /\ App.try[2 * k + 6].op = "put" /\ App.try[2 * k + 6].key = ToDriver[k]
<1>1. \A k \in 1 .. 5 : k \in {1, 2, 3, 4, 5}
  OBVIOUS
<1>2. \A k \in 1 .. 4 : k \in {1, 2, 3, 4}
  OBVIOUS
<1>3. /\ App.try[2].op = "wait" /\ App.try[2].key = "py-int"
      /\ App.try[3].op = "wait" /\ App.try[3].key = "py-double"
      /\ App.try[4].op = "wait" /\ App.try[4].key = "py-np-float"
      /\ App.try[5].op = "wait" /\ App.try[5].key = "py-int-tensor"
      /\ App.try[6].op = "wait" /\ App.try[6].key = "py-float-tensor"
  BY DEF App, Straight, Program, Wait
<1>4. /\ App.try[7] = Sleep(1) /\ App.try[9] = Sleep(1) /\ App.try[11] = Sleep(1)
      /\ App.try[13] = Sleep(1)
  BY DEF App, Straight, Program
<1>5. /\ App.try[8].op = "put" /\ App.try[8].key = "cpp-double"
      /\ App.try[10].op = "put" /\ App.try[10].key = "cpp-int"
      /\ App.try[12].op = "put" /\ App.try[12].key = "cpp-double-tensor"
      /\ App.try[14].op = "put" /\ App.try[14].key = "cpp-long-tensor"
  BY DEF App, Straight, Program, Put
<1>6. Len(App.try) = 14 /\ App.try[1] = Launch
  BY DEF App, Straight, Program
<1>7. \A k \in 1 .. 5 : App.try[k + 1].op = "wait" /\ App.try[k + 1].key = ToApp[k]
  BY <1>1, <1>3 DEF ToApp
<1>8. \A k \in 1 .. 4 :
       /\ App.try[2 * k + 5] = Sleep(1)
       /\ App.try[2 * k + 6].op = "put" /\ App.try[2 * k + 6].key = ToDriver[k]
  BY <1>2, <1>4, <1>5 DEF ToDriver
<1> QED BY <1>6, <1>7, <1>8

(* The programs of the driver and the app, step by step.                   *)
LEMMA PyCppShape ==
  ASSUME example = PyCppExchange
  PROVE  /\ Processes = {"main", "app"} /\ example.backend = "dragon"
         /\ Len(Steps("main")) = 20 /\ Len(Steps("app")) = 14
         /\ Steps("main")[1] = Open /\ Steps("main")[2] = Launch
         /\ Steps("main")[3] = Start("app") /\ Steps("main")[20] = Join("app")
         /\ Steps("app")[1] = Launch
         /\ \A k \in 1 .. 5 :
              /\ Steps("main")[2 * k + 2] = Sleep(1)
              /\ Steps("main")[2 * k + 3].op = "put" /\ Steps("main")[2 * k + 3].key = ToApp[k]
              /\ Steps("app")[k + 1].op = "wait" /\ Steps("app")[k + 1].key = ToApp[k]
         /\ \A k \in 1 .. 4 :
              /\ Steps("main")[k + 13].op = "wait" /\ Steps("main")[k + 13].key = ToDriver[k]
              /\ Steps("app")[2 * k + 5] = Sleep(1)
              /\ Steps("app")[2 * k + 6].op = "put" /\ Steps("app")[2 * k + 6].key = ToDriver[k]
         /\ Steps("main")[18].op = "put" /\ Steps("main")[18].key = "my-py-obj"
         /\ Steps("main")[19].op = "get" /\ Steps("main")[19].key = "my-py-obj"
<1>1. \A k \in 1 .. 5 : 2 * k + 2 \in 1 .. 19 /\ 2 * k + 3 \in 1 .. 19
  OBVIOUS
<1>2. \A k \in 1 .. 4 : k + 13 \in 1 .. 19
  OBVIOUS
<1>3. /\ Processes = {"main", "app"} /\ example.backend = "dragon"
      /\ Len(Steps("main")) = 20 /\ Steps("main")[20] = Join("app") /\ Steps("app") = App.try
      /\ \A i \in 1 .. 19 : Steps("main")[i] = Driver.try[i]
  BY DriverShape
<1>4. /\ Steps("main")[1] = Open /\ Steps("main")[2] = Launch /\ Steps("main")[3] = Start("app")
      /\ Steps("main")[18].op = "put" /\ Steps("main")[18].key = "my-py-obj"
      /\ Steps("main")[19].op = "get" /\ Steps("main")[19].key = "my-py-obj"
  BY <1>3, DriverProgram
<1>5. \A k \in 1 .. 5 :
        /\ Steps("main")[2 * k + 2] = Sleep(1)
        /\ Steps("main")[2 * k + 3].op = "put" /\ Steps("main")[2 * k + 3].key = ToApp[k]
  BY <1>1, <1>3, DriverProgram
<1>6. \A k \in 1 .. 4 :
        Steps("main")[k + 13].op = "wait" /\ Steps("main")[k + 13].key = ToDriver[k]
  BY <1>2, <1>3, DriverProgram
<1>7. /\ Len(Steps("app")) = 14 /\ Steps("app")[1] = Launch
      /\ \A k \in 1 .. 5 : Steps("app")[k + 1].op = "wait" /\ Steps("app")[k + 1].key = ToApp[k]
      /\ \A k \in 1 .. 4 :
           /\ Steps("app")[2 * k + 5] = Sleep(1)
           /\ Steps("app")[2 * k + 6].op = "put" /\ Steps("app")[2 * k + 6].key = ToDriver[k]
  BY <1>3, AppProgram
<1> QED BY <1>3, <1>4, <1>5, <1>6, <1>7

(* Every position is one of these.                                         *)
LEMMA DriverPositions ==
  \A i \in 1 .. 20 :
    \/ i \in {1, 2, 3, 18, 19, 20}
    \/ \E k \in 1 .. 5 : i = 2 * k + 2 \/ i = 2 * k + 3
    \/ \E k \in 1 .. 4 : i = k + 13
OBVIOUS

LEMMA AppPositions ==
  \A i \in 1 .. 14 :
    \/ i = 1 \/ \E k \in 1 .. 5 : i = k + 1
    \/ \E k \in 1 .. 4 : i = 2 * k + 5 \/ i = 2 * k + 6
OBVIOUS

(* No key is used for two messages.                                        *)
LEMMA DistinctKeys ==
  /\ \A k \in 1 .. 5 : /\ ToApp[k] # "my-py-obj"
                       /\ \A j \in 1 .. 5 : ToApp[j] = ToApp[k] => j = k
                       /\ \A j \in 1 .. 4 : ToDriver[j] # ToApp[k]
  /\ \A k \in 1 .. 4 : /\ ToDriver[k] # "my-py-obj"
                       /\ \A j \in 1 .. 4 : ToDriver[j] = ToDriver[k] => j = k
<1>1. \A k \in 1 .. 5 : k \in {1, 2, 3, 4, 5}
  OBVIOUS
<1>2. \A k \in 1 .. 4 : k \in {1, 2, 3, 4}
  OBVIOUS
<1>3. /\ ToApp[1] = "py-int" /\ ToApp[2] = "py-double" /\ ToApp[3] = "py-np-float"
      /\ ToApp[4] = "py-int-tensor" /\ ToApp[5] = "py-float-tensor"
      /\ ToDriver[1] = "cpp-double" /\ ToDriver[2] = "cpp-int"
      /\ ToDriver[3] = "cpp-double-tensor" /\ ToDriver[4] = "cpp-long-tensor"
  BY DEF ToApp, ToDriver
<1> QED BY <1>1, <1>2, <1>3

(* Who puts what at which step.                                            *)
LEMMA PyCppOps ==
  ASSUME example = PyCppExchange
  PROVE  /\ \A i \in 1 .. 20 :
              /\ Steps("main")[i].op # "close"
              /\ Steps("main")[i].op = "start" => i = 3
              /\ Steps("main")[i].op = "get" => i = 19
              /\ Steps("main")[i].op = "wait" => \E k \in 1 .. 4 : i = k + 13
              /\ Steps("main")[i].op = "put" =>
                   i = 18 \/ \E k \in 1 .. 5 : i = 2 * k + 3
         /\ \A i \in 1 .. 14 :
              /\ Steps("app")[i].op \notin {"close", "start", "get"}
              /\ Steps("app")[i].op = "wait" => \E k \in 1 .. 5 : i = k + 1
              /\ Steps("app")[i].op = "put" => \E k \in 1 .. 4 : i = 2 * k + 6
<1> DEFINE main == Steps("main")  app == Steps("app")
<1>1. /\ main[1].op = "open" /\ main[2].op = "launch" /\ main[3].op = "start"
      /\ main[18].op = "put" /\ main[19].op = "get" /\ main[20].op = "join"
      /\ \A k \in 1 .. 5 : main[2 * k + 2].op = "sleep" /\ main[2 * k + 3].op = "put"
      /\ \A k \in 1 .. 4 : main[k + 13].op = "wait"
  BY PyCppShape DEF Open, Launch, Start, Join, Sleep
<1>2. /\ app[1].op = "launch"
      /\ \A k \in 1 .. 5 : app[k + 1].op = "wait"
      /\ \A k \in 1 .. 4 : app[2 * k + 5].op = "sleep" /\ app[2 * k + 6].op = "put"
  BY PyCppShape DEF Launch, Sleep
<1> HIDE DEF main, app
<1>3. ASSUME NEW i \in 1 .. 20
      PROVE  /\ main[i].op # "close"
             /\ main[i].op = "start" => i = 3
             /\ main[i].op = "get" => i = 19
             /\ main[i].op = "wait" => \E k \in 1 .. 4 : i = k + 13
             /\ main[i].op = "put" => i = 18 \/ \E k \in 1 .. 5 : i = 2 * k + 3
  <2>1. CASE i \in {1, 2, 3, 18, 19, 20}
    BY <1>1, <2>1
  <2>2. CASE \E k \in 1 .. 5 : i = 2 * k + 2 \/ i = 2 * k + 3
    BY <1>1, <2>2
  <2>3. CASE \E k \in 1 .. 4 : i = k + 13
    BY <1>1, <2>3
  <2> QED BY <2>1, <2>2, <2>3, DriverPositions
<1>4. ASSUME NEW i \in 1 .. 14
      PROVE  /\ app[i].op \notin {"close", "start", "get"}
             /\ app[i].op = "wait" => \E k \in 1 .. 5 : i = k + 1
             /\ app[i].op = "put" => \E k \in 1 .. 4 : i = 2 * k + 6
  <2>1. CASE i = 1
    BY <1>2, <2>1
  <2>2. CASE \E k \in 1 .. 5 : i = k + 1
    BY <1>2, <2>2
  <2>3. CASE \E k \in 1 .. 4 : i = 2 * k + 5 \/ i = 2 * k + 6
    BY <1>2, <2>3
  <2> QED BY <2>1, <2>2, <2>3, AppPositions
<1> QED BY <1>3, <1>4 DEF main, app

(* Its processes and the lengths of their programs.                        *)
LEMMA PyCppSize ==
  ASSUME example = PyCppExchange
  PROVE  /\ Processes = {"main", "app"} /\ example.backend = "dragon"
         /\ Len(Steps("main")) = 20 /\ Len(Steps("app")) = 14
BY PyCppShape

(* The steps of the two.                                                   *)
LEMMA PyCppRange ==
  ASSUME example = PyCppExchange
  PROVE  /\ "main" \in Processes /\ "app" \in Processes
         /\ 1 .. Len(Steps("main")) = 1 .. 20 /\ 1 .. Len(Steps("app")) = 1 .. 14
BY PyCppSize

(* The messages to the app, and those to the driver.                       *)
LEMMA PyCppToApp ==
  ASSUME example = PyCppExchange, NEW k \in 1 .. 5
  PROVE  /\ 2 * k + 2 \in 1 .. 20 /\ 2 * k + 3 \in 1 .. 20 /\ k + 1 \in 1 .. 14
         /\ Steps("main")[2 * k + 2].op = "sleep" /\ Steps("main")[2 * k + 2].seconds = 1
         /\ Steps("main")[2 * k + 3].op = "put" /\ Steps("main")[2 * k + 3].key = ToApp[k]
         /\ Steps("app")[k + 1].op = "wait" /\ Steps("app")[k + 1].key = ToApp[k]
         /\ ToApp[k] # "my-py-obj"
         /\ \A j \in 1 .. 5 : ToApp[j] = ToApp[k] => j = k
         /\ \A j \in 1 .. 4 : ToDriver[j] # ToApp[k]
<1>1. 2 * k + 2 \in 1 .. 20 /\ 2 * k + 3 \in 1 .. 20 /\ k + 1 \in 1 .. 14
  OBVIOUS
<1>2. Steps("main")[2 * k + 2].op = "sleep" /\ Steps("main")[2 * k + 2].seconds = 1
  BY PyCppShape DEF Sleep
<1>3. /\ Steps("main")[2 * k + 3].op = "put" /\ Steps("main")[2 * k + 3].key = ToApp[k]
      /\ Steps("app")[k + 1].op = "wait" /\ Steps("app")[k + 1].key = ToApp[k]
  BY PyCppShape
<1> QED BY <1>1, <1>2, <1>3, DistinctKeys

(* The answers to the driver.                                              *)
LEMMA PyCppToDriver ==
  ASSUME example = PyCppExchange, NEW k \in 1 .. 4
  PROVE  /\ k + 13 \in 1 .. 20 /\ 2 * k + 5 \in 1 .. 14 /\ 2 * k + 6 \in 1 .. 14
         /\ Steps("app")[2 * k + 5].op = "sleep" /\ Steps("app")[2 * k + 5].seconds = 1
         /\ Steps("app")[2 * k + 6].op = "put" /\ Steps("app")[2 * k + 6].key = ToDriver[k]
         /\ Steps("main")[k + 13].op = "wait" /\ Steps("main")[k + 13].key = ToDriver[k]
         /\ ToDriver[k] # "my-py-obj"
         /\ \A j \in 1 .. 4 : ToDriver[j] = ToDriver[k] => j = k
<1>1. k + 13 \in 1 .. 20 /\ 2 * k + 5 \in 1 .. 14 /\ 2 * k + 6 \in 1 .. 14
  OBVIOUS
<1>2. Steps("app")[2 * k + 5].op = "sleep" /\ Steps("app")[2 * k + 5].seconds = 1
  BY PyCppShape DEF Sleep
<1>3. /\ Steps("app")[2 * k + 6].op = "put" /\ Steps("app")[2 * k + 6].key = ToDriver[k]
      /\ Steps("main")[k + 13].op = "wait" /\ Steps("main")[k + 13].key = ToDriver[k]
  BY PyCppShape
<1> QED BY <1>1, <1>2, <1>3, DistinctKeys

(* Nobody closes the store.                                                *)
LEMMA PyCppUp ==
  ASSUME Inv, History, example = PyCppExchange, pc["main"] > 1
  PROVE  up
<1>1. ~ Closed
  <2>1. \A i \in 1 .. 20 : Steps("main")[i].op # "close"
    BY PyCppOps
  <2>2. \A i \in 1 .. 14 : Steps("app")[i].op # "close"
    BY PyCppOps
  <2> QED BY <2>1, <2>2, PyCppSize DEF Closed
<1>2. Passed("main", 1) /\ 1 \in 1 .. Len(Steps("main")) /\ "main" \in Processes
  BY PyCppRange DEF Passed
<1>3. Steps("main")[1] = Open
  BY PyCppShape
<1> QED BY <1>1, <1>2, <1>3, StaysUp

(* Where the driver and the app are, by what is in the store.              *)
LEMMA PyCppOrder ==
  ASSUME Inv, History, example = PyCppExchange
  PROVE  /\ \A k \in 1 .. 5 : ToApp[k] \in DOMAIN items <=> pc["main"] > 2 * k + 3
         /\ \A k \in 1 .. 4 : ToDriver[k] \in DOMAIN items <=> pc["app"] > 2 * k + 6
         /\ pc["app"] # 0 <=> pc["main"] > 3
<1>1. pc["main"] \in Nat /\ pc["app"] \in Nat
  BY PyCppSize, Patient
<1>2. ASSUME NEW k \in 1 .. 5 PROVE ToApp[k] \in DOMAIN items <=> pc["main"] > 2 * k + 3
  <2>1. ASSUME pc["main"] > 2 * k + 3 PROVE ToApp[k] \in DOMAIN items
    <3>1. Passed("main", 2 * k + 3) /\ 2 * k + 3 \in 1 .. 20
      BY <2>1, PyCppSize, PyCppToApp DEF Passed
    <3>2. Effects(Steps("main")[2 * k + 3])
      BY <3>1, PyCppSize DEF History
    <3> QED BY <3>2, PyCppToApp DEF Effects
  <2>2. ASSUME ToApp[k] \in DOMAIN items PROVE pc["main"] > 2 * k + 3
    <3>1. PICK q \in Processes : \E i \in 1 .. Len(Steps(q)) :
            Passed(q, i) /\ Steps(q)[i].op = "put" /\ Steps(q)[i].key = ToApp[k]
      BY <2>2 DEF History, PutBySomeone
    <3>2. PICK i \in 1 .. Len(Steps(q)) :
            Passed(q, i) /\ Steps(q)[i].op = "put" /\ Steps(q)[i].key = ToApp[k]
      BY <3>1
    <3>3. CASE q = "main"
      <4>1. i \in 1 .. 20 /\ i < pc["main"]
        BY <3>2, <3>3, PyCppSize DEF Passed
      <4>2. i # 18
        <5>1. Steps("main")[18].key = "my-py-obj"
          BY PyCppShape
        <5>2. ToApp[k] # "my-py-obj"
          BY DistinctKeys
        <5> QED BY <3>2, <3>3, <5>1, <5>2
      <4>3. PICK j \in 1 .. 5 : i = 2 * j + 3
        BY <3>2, <3>3, <4>1, <4>2, PyCppOps
      <4>4. ToApp[j] = ToApp[k]
        BY <3>2, <3>3, <4>3, PyCppToApp
      <4>5. j = k
        BY <4>4, DistinctKeys
      <4> QED BY <1>1, <4>1, <4>3, <4>5
    <3>4. CASE q = "app"
      <4>1. i \in 1 .. 14
        BY <3>4, PyCppSize
      <4>2. PICK j \in 1 .. 4 : i = 2 * j + 6
        BY <3>2, <3>4, <4>1, PyCppOps
      <4>3. ToDriver[j] = ToApp[k]
        BY <3>2, <3>4, <4>2, PyCppToDriver
      <4> QED BY <4>3, DistinctKeys
    <3> QED BY <3>3, <3>4, PyCppSize
  <2> QED BY <2>1, <2>2
<1>3. ASSUME NEW k \in 1 .. 4 PROVE ToDriver[k] \in DOMAIN items <=> pc["app"] > 2 * k + 6
  <2>1. ASSUME pc["app"] > 2 * k + 6 PROVE ToDriver[k] \in DOMAIN items
    <3>1. Passed("app", 2 * k + 6) /\ 2 * k + 6 \in 1 .. 14
      BY <2>1, PyCppSize, PyCppToDriver DEF Passed
    <3>2. Effects(Steps("app")[2 * k + 6])
      BY <3>1, PyCppSize DEF History
    <3> QED BY <3>2, PyCppToDriver DEF Effects
  <2>2. ASSUME ToDriver[k] \in DOMAIN items PROVE pc["app"] > 2 * k + 6
    <3>1. PICK q \in Processes : \E i \in 1 .. Len(Steps(q)) :
            Passed(q, i) /\ Steps(q)[i].op = "put" /\ Steps(q)[i].key = ToDriver[k]
      BY <2>2 DEF History, PutBySomeone
    <3>2. PICK i \in 1 .. Len(Steps(q)) :
            Passed(q, i) /\ Steps(q)[i].op = "put" /\ Steps(q)[i].key = ToDriver[k]
      BY <3>1
    <3>3. CASE q = "main"
      <4>1. i \in 1 .. 20
        BY <3>3, PyCppSize
      <4>2. i # 18
        <5>1. Steps("main")[18].key = "my-py-obj"
          BY PyCppShape
        <5>2. ToDriver[k] # "my-py-obj"
          BY DistinctKeys
        <5> QED BY <3>2, <3>3, <5>1, <5>2
      <4>3. PICK j \in 1 .. 5 : i = 2 * j + 3
        BY <3>2, <3>3, <4>1, <4>2, PyCppOps
      <4>4. ToApp[j] = ToDriver[k]
        BY <3>2, <3>3, <4>3, PyCppToApp
      <4> QED BY <4>4, DistinctKeys
    <3>4. CASE q = "app"
      <4>1. i \in 1 .. 14 /\ i < pc["app"]
        BY <3>2, <3>4, PyCppSize DEF Passed
      <4>2. PICK j \in 1 .. 4 : i = 2 * j + 6
        BY <3>2, <3>4, <4>1, PyCppOps
      <4>3. ToDriver[j] = ToDriver[k]
        BY <3>2, <3>4, <4>2, PyCppToDriver
      <4>4. j = k
        BY <4>3, DistinctKeys
      <4> QED BY <1>1, <4>1, <4>2, <4>4
    <3> QED BY <3>3, <3>4, PyCppSize
  <2> QED BY <2>1, <2>2
<1>4. pc["app"] # 0 <=> pc["main"] > 3
  <2>1. Steps("main")[3].op = "start" /\ Steps("main")[3].process = "app"
    BY PyCppShape DEF Start
  <2>2. 3 \in 1 .. Len(Steps("main")) /\ "main" \in Processes
    BY PyCppRange
  <2>3. pc["app"] # 0 => pc["main"] > 3
    BY <2>1, <2>2, Started DEF Passed
  <2>4. pc["main"] > 3 => pc["app"] > 0
    BY <2>1, <2>2 DEF History, Passed, Effects
  <2> QED BY <1>1, <2>3, <2>4
<1> QED BY <1>2, <1>3, <1>4

(* Neither sleeps too long nor is it late for what it does.                *)
LEMMA DriverClock ==
  ASSUME Inv, History, example = PyCppExchange, NEW k \in 1 .. 5
  PROVE  /\ pc["main"] = 2 * k + 2 =>
              /\ At("main", {"sleep"}) /\ Step("main").seconds = 1
              /\ age["main"] <= Second /\ late["main"] <= Delay
              /\ Ready("main") <=> age["main"] >= Second
         /\ pc["main"] = 2 * k + 3 => Ready("main") /\ late["main"] <= Delay
<1>0. "main" \in Processes /\ Second \in Nat /\ age["main"] \in Nat
  BY PyCppSize, Patient
<1>1. ASSUME pc["main"] = 2 * k + 2
      PROVE  /\ At("main", {"sleep"}) /\ Step("main").seconds = 1
             /\ age["main"] <= Second /\ late["main"] <= Delay
             /\ Ready("main") <=> age["main"] >= Second
  <2>1. Running("main") /\ Step("main").op = "sleep" /\ Step("main").seconds = 1
    <3>1. pc["main"] \in 1 .. Len(Steps("main"))
      <4>1. pc["main"] \in 1 .. 20
        BY <1>1
      <4> QED BY <4>1, PyCppRange
    <3>2. Step("main").op = "sleep" /\ Step("main").seconds = 1
      BY <1>1, PyCppToApp DEF Step
    <3> QED BY <3>1, <3>2 DEF Running
  <2>2. late["main"] <= Delay
    BY <1>0, <2>1, Patient DEF At
  <2>3. age["main"] <= Second
    <3>1. age["main"] <= Step("main").seconds * Second
      BY <1>0, <2>1 DEF At, History
    <3> QED BY <1>0, <2>1, <3>1
  <2>4. Ready("main") <=> age["main"] >= 1 * Second
    BY <2>1 DEF At, Ready
  <2> QED BY <1>0, <2>1, <2>2, <2>3, <2>4 DEF At
<1>2. ASSUME pc["main"] = 2 * k + 3
      PROVE  Ready("main") /\ late["main"] <= Delay
  <2>1. Running("main") /\ Step("main").op = "put"
    <3>1. pc["main"] \in 1 .. Len(Steps("main"))
      <4>1. pc["main"] \in 1 .. 20
        BY <1>2
      <4> QED BY <4>1, PyCppRange
    <3>2. Step("main").op = "put"
      BY <1>2, PyCppToApp DEF Step
    <3> QED BY <3>1, <3>2 DEF Running
  <2> QED BY <1>0, <2>1, Patient DEF At
<1> QED BY <1>1, <1>2

(* The same for the app, which may take longer to start.                   *)
LEMMA AppClock ==
  ASSUME Inv, History, example = PyCppExchange
  PROVE  /\ pc["app"] = 1 => Ready("app") /\ late["app"] <= StartUp
         /\ \A k \in 1 .. 5 : pc["app"] = k + 1 => late["app"] <= Delay
         /\ \A k \in 1 .. 4 :
              /\ pc["app"] = 2 * k + 5 =>
                   /\ At("app", {"sleep"}) /\ Step("app").seconds = 1
                   /\ age["app"] <= Second /\ late["app"] <= Delay
                   /\ Ready("app") <=> age["app"] >= Second
              /\ pc["app"] = 2 * k + 6 => Ready("app") /\ late["app"] <= Delay
<1>0. "app" \in Processes /\ Second \in Nat /\ age["app"] \in Nat
  BY PyCppSize, Patient
<1>1. ASSUME pc["app"] = 1 PROVE Ready("app") /\ late["app"] <= StartUp
  <2>1. Step("app").op = "launch"
    <3>1. Steps("app")[1].op = "launch"
      BY PyCppShape DEF Launch
    <3> QED BY <1>1, <3>1 DEF Step
  <2>2. Running("app")
    BY <1>1, PyCppRange DEF Running
  <2> QED BY <1>0, <2>1, <2>2, Patient DEF At
<1>2. ASSUME NEW k \in 1 .. 5, pc["app"] = k + 1 PROVE late["app"] <= Delay
  <2>1. Running("app") /\ Step("app").op = "wait"
    <3>1. pc["app"] \in 1 .. Len(Steps("app"))
      <4>1. pc["app"] \in 1 .. 14
        BY <1>2
      <4> QED BY <4>1, PyCppRange
    <3>2. Step("app").op = "wait"
      BY <1>2, PyCppToApp DEF Step
    <3> QED BY <3>1, <3>2 DEF Running
  <2> QED BY <1>0, <2>1, Patient DEF At
<1>3. ASSUME NEW k \in 1 .. 4, pc["app"] = 2 * k + 5
      PROVE  /\ At("app", {"sleep"}) /\ Step("app").seconds = 1
             /\ age["app"] <= Second /\ late["app"] <= Delay
             /\ Ready("app") <=> age["app"] >= Second
  <2>1. Running("app") /\ Step("app").op = "sleep" /\ Step("app").seconds = 1
    <3>1. pc["app"] \in 1 .. Len(Steps("app"))
      <4>1. pc["app"] \in 1 .. 14
        BY <1>3
      <4> QED BY <4>1, PyCppRange
    <3>2. Step("app").op = "sleep" /\ Step("app").seconds = 1
      BY <1>3, PyCppToDriver DEF Step
    <3> QED BY <3>1, <3>2 DEF Running
  <2>2. late["app"] <= Delay
    BY <1>0, <2>1, Patient DEF At
  <2>3. age["app"] <= Second
    <3>1. age["app"] <= Step("app").seconds * Second
      BY <1>0, <2>1 DEF At, History
    <3> QED BY <1>0, <2>1, <3>1
  <2>4. Ready("app") <=> age["app"] >= 1 * Second
    BY <2>1 DEF At, Ready
  <2> QED BY <1>0, <2>1, <2>2, <2>3, <2>4 DEF At
<1>4. ASSUME NEW k \in 1 .. 4, pc["app"] = 2 * k + 6 PROVE Ready("app") /\ late["app"] <= Delay
  <2>1. Running("app") /\ Step("app").op = "put"
    <3>1. pc["app"] \in 1 .. Len(Steps("app"))
      <4>1. pc["app"] \in 1 .. 14
        BY <1>4
      <4> QED BY <4>1, PyCppRange
    <3>2. Step("app").op = "put"
      BY <1>4, PyCppToDriver DEF Step
    <3> QED BY <3>1, <3>2 DEF Running
  <2> QED BY <1>0, <2>1, Patient DEF At
<1> QED BY <1>1, <1>2, <1>3, <1>4

(* No wait of the two lasts until it times out.                            *)
LEMMA AppFine ==
  ASSUME Inv, History, FastEnough, example = PyCppExchange, AppWaits, Ready("app")
  PROVE  Fine("app")
<1>0. /\ \A q \in {"main", "app"} : pc[q] \in Nat /\ age[q] \in Nat /\ late[q] \in Nat
      /\ Second \in Nat /\ Delay \in Nat /\ StartUp \in Nat
  BY PyCppSize, Patient
<1>1. pc["app"] \in 1 .. 14 /\ Step("app") = Steps("app")[pc["app"]] /\ up
  <2>1. pc["app"] \in 1 .. 14
    BY PyCppSize DEF Ready, Running
  <2>2. pc["main"] > 3
    BY <2>1, PyCppOrder
  <2>3. pc["main"] > 1
    BY <1>0, <2>2
  <2> QED BY <2>1, <2>3, PyCppUp DEF Step
<1> SUFFICES ASSUME At("app", {"put", "get", "wait"}), Step("app").op # "put",
                    Step("app").key \notin DOMAIN items
             PROVE  FALSE
  BY <1>1 DEF Fine
<1>2. Step("app").op = "wait"
  BY <1>1, PyCppOps DEF At
<1>3. PICK k \in 1 .. 5 : pc["app"] = k + 1
  BY <1>1, <1>2, PyCppOps
<1>4. pc["main"] <= 2 * k + 3
  <2>1. Step("app").key = ToApp[k]
    BY <1>1, <1>3, PyCppToApp
  <2>2. ~ (pc["main"] > 2 * k + 3)
    BY <2>1, PyCppOrder
  <2> QED BY <1>0, <2>2
<1>5. age["app"] >= 5 * Second
  <2>1. age["app"] >= Deadline("app")
    BY <1>1, <1>2 DEF Ready, At
  <2> QED BY <2>1, PyCppSize DEF Deadline, Attached
<1>6. \/ age["app"] <= age["main"] + late["main"] /\ age["main"] <= Second /\ late["main"] <= Delay
      \/ age["app"] <= Second + Delay + late["main"] /\ late["main"] <= Delay
  BY <1>3, <1>4, DriverClock DEF AppWaits
<1> QED BY <1>0, <1>5, <1>6 DEF FastEnough

(* The wait for the first answer is the tight one: the driver has slept at *)
(* most as long as the app has followed.                                   *)
LEMMA DriverFine ==
  ASSUME Inv, History, FastEnough, example = PyCppExchange, AppFollows, DriverWaits, Ready("main")
  PROVE  Fine("main")
<1>0. /\ \A q \in {"main", "app"} : pc[q] \in Nat /\ age[q] \in Nat /\ late[q] \in Nat
      /\ Second \in Nat /\ Delay \in Nat /\ StartUp \in Nat
  BY PyCppSize, Patient
<1>1. pc["main"] \in 1 .. 20 /\ Step("main") = Steps("main")[pc["main"]]
  BY PyCppSize DEF Ready, Running, Step
<1> SUFFICES ASSUME At("main", {"put", "get", "wait"})
             PROVE  up /\ (Step("main").op # "put" => Step("main").key \in DOMAIN items)
  BY DEF Fine
<1>2. Step("main").op \in {"put", "get", "wait"}
  BY DEF At
<1>3. pc["main"] > 1
  <2>1. pc["main"] # 1
    BY <1>1, <1>2, PyCppShape DEF Open
  <2> QED BY <1>1, <2>1
<1>4. up
  BY <1>3, PyCppUp
<1>5. ASSUME Step("main").op = "get" PROVE Step("main").key \in DOMAIN items
  <2>1. pc["main"] = 19
    <3>1. \A i \in 1 .. 20 : Steps("main")[i].op = "get" => i = 19
      BY PyCppOps
    <3> QED BY <1>1, <1>5, <3>1
  <2>2. Passed("main", 18) /\ 18 \in 1 .. Len(Steps("main")) /\ "main" \in Processes
    BY <2>1, PyCppRange DEF Passed
  <2>3. Effects(Steps("main")[18])
    BY <2>2 DEF History
  <2> QED BY <1>1, <2>1, <2>3, PyCppShape DEF Effects
<1>6. ASSUME Step("main").op = "wait", Step("main").key \notin DOMAIN items PROVE FALSE
  <2>1. PICK k \in 1 .. 4 : pc["main"] = k + 13
    BY <1>1, <1>6, PyCppOps
  <2>2. pc["app"] <= 2 * k + 6
    <3>1. Step("main").key = ToDriver[k]
      BY <1>1, <2>1, PyCppToDriver
    <3>2. ~ (pc["app"] > 2 * k + 6)
      BY <1>6, <3>1, PyCppOrder
    <3> QED BY <1>0, <3>2
  <2>3. age["main"] >= 5 * Second
    <3>1. age["main"] >= Deadline("main")
      BY <1>1, <1>4, <1>6 DEF Ready, At
    <3> QED BY <3>1, PyCppSize DEF Deadline, Attached
  <2>4. CASE k = 1
    <3>1. pc["app"] \in {1, 7, 8} \/ \E j \in 1 .. 5 : pc["app"] = j + 1
      <4>1. pc["app"] \in 1 .. 8
        <5>1. pc["main"] > 3
          BY <2>1
        <5>2. pc["app"] # 0
          BY <5>1, PyCppOrder
        <5> QED BY <1>0, <2>2, <2>4, <5>2
      <4> QED BY <4>1
    <3>2. \A x : Behind(x) => 5 * Second + age["main"] <= x
      BY <2>1, <2>4 DEF Behind
    <3>3. CASE pc["app"] = 1
      <4>1. 5 * Second + age["main"] <= late["app"] /\ late["app"] <= StartUp
        BY <3>2, <3>3, AppClock DEF AppFollows
      <4> QED BY <1>0, <4>1 DEF FastEnough
    <3>4. ASSUME NEW j \in 1 .. 5, pc["app"] = j + 1 PROVE FALSE
      <4>1. /\ 5 * Second + age["main"] <= (j + 2) * Second - Delay - 1 + late["app"]
            /\ late["app"] <= Delay
        BY <3>2, <3>4, AppClock DEF AppFollows
      <4>2. (j + 2) * Second <= 7 * Second
        BY <1>0
      <4> QED BY <1>0, <2>3, <4>1, <4>2
    <3>5. CASE pc["app"] = 7
      <4>1. /\ 5 * Second + age["main"] <= 7 * Second - 1 + age["app"] + late["app"]
            /\ late["app"] <= Delay /\ age["app"] <= Second
        <5>1. pc["app"] = 2 * 1 + 5
          BY <3>5
        <5> QED BY <3>2, <3>5, <5>1, AppClock DEF AppFollows
      <4> QED BY <1>0, <2>3, <4>1 DEF FastEnough
    <3>6. CASE pc["app"] = 8
      <4>1. /\ 5 * Second + age["main"] <= 8 * Second + Delay - 1 + late["app"]
            /\ late["app"] <= Delay
        <5>1. pc["app"] = 2 * 1 + 6
          BY <3>6
        <5> QED BY <3>2, <3>6, <5>1, AppClock DEF AppFollows
      <4> QED BY <1>0, <2>3, <4>1 DEF FastEnough
    <3> QED BY <3>1, <3>3, <3>4, <3>5, <3>6
  <2>5. CASE k \in 2 .. 4
    <3>1. \/ /\ age["main"] <= age["app"] + late["app"]
             /\ age["app"] <= Second /\ late["app"] <= Delay
          \/ age["main"] <= Second + Delay + late["app"] /\ late["app"] <= Delay
      BY <2>1, <2>2, <2>5, AppClock DEF DriverWaits
    <3> QED BY <1>0, <2>3, <3>1 DEF FastEnough
  <2> QED BY <2>4, <2>5
<1> QED BY <1>2, <1>4, <1>5, <1>6

(* Behind, one step on.                                                    *)
BehindNext(x) ==
  \A i \in 0 .. 5 :
    /\ pc'["main"] = 2 * i + 4 => i * Second + age'["main"] <= x
    /\ pc'["main"] = 2 * i + 3 => i * Second <= x

(* AppFollows, one step on.                                                *)
LEMMA FollowsNext ==
  AppFollows' <=>
    /\ pc'["app"] = 1 => BehindNext(late'["app"])
    /\ \A k \in 1 .. 5 :
         pc'["app"] = k + 1 => BehindNext((k + 2) * Second - Delay - 1 + late'["app"])
    /\ pc'["app"] = 7 => BehindNext(7 * Second - 1 + age'["app"] + late'["app"])
    /\ pc'["app"] = 8 => BehindNext(8 * Second + Delay - 1 + late'["app"])
BY DEF AppFollows, Behind, BehindNext

(* Naps add up.                                                            *)
LEMMA Naps == \A i \in 0 .. 5 : i * Second \in Nat /\ (i + 1) * Second = i * Second + Second
BY WorkflowsAssumption

(* The driver sleeps before each message.                                  *)
LEMMA BehindDrives ==
  ASSUME Inv, History, example = PyCppExchange, Ready("main"), Advances("main"), pc["main"] > 3
  PROVE  \A x \in Int : Behind(x) => BehindNext(x)
<1> SUFFICES ASSUME NEW x \in Int, Behind(x), NEW i \in 0 .. 5
             PROVE  /\ pc'["main"] = 2 * i + 4 => i * Second + age'["main"] <= x
                    /\ pc'["main"] = 2 * i + 3 => i * Second <= x
  BY DEF BehindNext
<1>1. pc["main"] \in Nat /\ pc'["main"] = pc["main"] + 1 /\ age'["main"] = 0
      /\ age["main"] \in Nat /\ Second \in Nat
  BY PyCppSize, Patient DEF Advances
<1>2. ASSUME pc'["main"] = 2 * i + 4 PROVE i * Second + age'["main"] <= x
  <2>1. pc["main"] = 2 * i + 3
    BY <1>1, <1>2
  <2>2. i * Second <= x
    BY <2>1 DEF Behind
  <2> QED BY <1>1, <2>2, Naps
<1>3. ASSUME pc'["main"] = 2 * i + 3 PROVE i * Second <= x
  <2>1. PICK j \in 0 .. 4 : i = j + 1
    BY <1>1, <1>3
  <2>2. pc["main"] = 2 * j + 4 /\ j + 1 \in 1 .. 5
    BY <1>1, <1>3, <2>1
  <2>3. j * Second + age["main"] <= x
    BY <2>2 DEF Behind
  <2>4. age["main"] >= Second
    <3>1. pc["main"] = 2 * (j + 1) + 2
      BY <2>2
    <3> QED BY <2>2, <3>1, DriverClock
  <2>5. i * Second = j * Second + Second /\ j * Second \in Nat
    BY <2>1, Naps
  <2> QED BY <1>1, <2>3, <2>4, <2>5
<1> QED BY <1>2, <1>3

(* More time is enough if less is.                                         *)
LEMMA BehindMore ==
  ASSUME NEW p \in Nat, NEW a \in Nat, pc'["main"] = p, age'["main"] = a
  PROVE  \A x, y \in Int : x <= y /\ BehindNext(x) => BehindNext(y)
<1> SUFFICES ASSUME NEW x \in Int, NEW y \in Int, x <= y, BehindNext(x), NEW i \in 0 .. 5
             PROVE  /\ p = 2 * i + 4 => i * Second + a <= y
                    /\ p = 2 * i + 3 => i * Second <= y
  BY DEF BehindNext
<1>1. i * Second \in Nat
  BY Naps
<1>2. p = 2 * i + 4 => i * Second + a <= x
  BY DEF BehindNext
<1>3. p = 2 * i + 3 => i * Second <= x
  BY DEF BehindNext
<1> QED BY <1>1, <1>2, <1>3

(* A step of the app leaves the driver where it is.                        *)
LEMMA BehindStays ==
  ASSUME pc'["main"] = pc["main"], age'["main"] = age["main"]
  PROVE  \A x : Behind(x) => BehindNext(x)
BY DEF Behind, BehindNext

(* A tick adds one.                                                        *)
LEMMA BehindTicks ==
  ASSUME Inv, example = PyCppExchange, Tick
  PROVE  /\ \A x \in Int : Behind(x) => BehindNext(x + 1)
         /\ BehindNext(5 * Second + MaxAge)
<1>1. /\ pc' = pc /\ age["main"] \in 0 .. MaxAge /\ age'["main"] \in {age["main"], age["main"] + 1}
      /\ age'["main"] <= MaxAge /\ MaxAge \in Nat /\ Second \in Nat
  BY PyCppSize, TickFacts, WorkflowsAssumption
<1>2. ASSUME NEW x \in Int, Behind(x) PROVE BehindNext(x + 1)
  <2> SUFFICES ASSUME NEW i \in 0 .. 5
               PROVE  /\ pc'["main"] = 2 * i + 4 => i * Second + age'["main"] <= x + 1
                      /\ pc'["main"] = 2 * i + 3 => i * Second <= x + 1
    BY DEF BehindNext
  <2>1. /\ pc["main"] = 2 * i + 4 => i * Second + age["main"] <= x
        /\ pc["main"] = 2 * i + 3 => i * Second <= x
    BY <1>2 DEF Behind
  <2>2. i * Second \in Nat
    BY Naps
  <2> QED BY <1>1, <2>1, <2>2
<1>3. BehindNext(5 * Second + MaxAge)
  <2> SUFFICES ASSUME NEW i \in 0 .. 5
               PROVE  /\ i * Second + age'["main"] <= 5 * Second + MaxAge
                      /\ i * Second <= 5 * Second + MaxAge
    BY DEF BehindNext
  <2>1. i * Second <= 5 * Second /\ i * Second \in Nat
    BY <1>1
  <2> QED BY <1>1, <2>1
<1> QED BY <1>2, <1>3

(* The driver has not slept more than k times before it puts the kth key. *)
LEMMA BehindWaits ==
  ASSUME Inv, History, example = PyCppExchange, Tick,
         NEW k \in 1 .. 5, pc["main"] <= 2 * k + 3
  PROVE  BehindNext(k * Second)
<1>1. /\ pc' = pc /\ pc["main"] \in Nat /\ age["main"] \in Nat /\ age'["main"] \in Nat
      /\ Second \in Nat
  BY PyCppSize, Patient, TickFacts
<1> SUFFICES ASSUME NEW i \in 0 .. 5
             PROVE  /\ pc["main"] = 2 * i + 4 => i * Second + age'["main"] <= k * Second
                    /\ pc["main"] = 2 * i + 3 => i * Second <= k * Second
  BY <1>1 DEF BehindNext
<1>2. ASSUME pc["main"] = 2 * i + 4 PROVE i * Second + age'["main"] <= k * Second
  <2>1. i + 1 <= k /\ i + 1 \in 1 .. 5 /\ pc["main"] = 2 * (i + 1) + 2
    BY <1>2
  <2>2. age'["main"] <= Second
    <3>1. /\ age["main"] <= Second
          /\ Ready("main") <=> age["main"] >= Second
      BY <2>1, DriverClock
    <3>2. /\ Ready("main") => age'["main"] = age["main"]
          /\ age'["main"] \in {age["main"], age["main"] + 1}
      BY PyCppSize, TickFacts
    <3> QED BY <1>1, <3>1, <3>2
  <2>3. (i + 1) * Second = i * Second + Second /\ i * Second \in Nat
    BY Naps
  <2>4. (i + 1) * Second <= k * Second
    BY <1>1, <2>1
  <2>5. k * Second \in Nat
    BY <1>1
  <2> QED BY <1>1, <2>2, <2>3, <2>4, <2>5
<1>3. ASSUME pc["main"] = 2 * i + 3 PROVE i * Second <= k * Second
  <2>1. i <= k
    BY <1>3
  <2> QED BY <1>1, <2>1
<1> QED BY <1>2, <1>3

(* A step of one of the two.                                               *)
LEMMA PyCppStep ==
  ASSUME Inv, example = PyCppExchange, NEW p \in Processes, Advances(p)
  PROVE  /\ \A q \in {"main", "app"} :
              /\ pc[q] \in Nat /\ pc'[q] \in Nat /\ age[q] \in Nat /\ late[q] \in Nat
              /\ q = p => pc'[q] = pc[q] + 1 /\ age'[q] = 0 /\ late'[q] = 0
              /\ q # p => age'[q] = age[q] /\ late'[q] = late[q]
         /\ p = "main" => IF pc["main"] = 3 THEN pc["app"] = 0 /\ pc'["app"] = 1
                                            ELSE pc'["app"] = pc["app"]
         /\ p = "app" => pc'["main"] = pc["main"]
         /\ Second \in Nat /\ Delay \in Nat /\ StartUp \in Nat
<1>1. \A q \in {"main", "app"} :
              /\ pc[q] \in Nat /\ pc'[q] \in Nat /\ age[q] \in Nat /\ late[q] \in Nat
              /\ q = p => pc'[q] = pc[q] + 1 /\ age'[q] = 0 /\ late'[q] = 0
              /\ q # p => age'[q] = age[q] /\ late'[q] = late[q]
  BY PyCppSize, Patient, PastStays DEF Advances
<1>2. ASSUME p = "main", pc["main"] = 3 PROVE pc["app"] = 0 /\ pc'["app"] = 1
  <2>1. Step("main").op = "start" /\ Step("main").process = "app"
    BY <1>2, PyCppShape DEF Step, Start
  <2>2. At("main", {"start"})
    BY <1>2, <2>1 DEF At, Advances
  <2> QED BY <1>2, <2>1, <2>2, Starting DEF Advances
<1>3. ASSUME p = "main", pc["main"] # 3 PROVE pc'["app"] = pc["app"]
  <2>1. pc["main"] \in 1 .. 20
    BY <1>3, PyCppRange DEF Advances, Running
  <2>2. Step("main").op # "start"
    BY <1>3, <2>1, PyCppOps DEF Step
  <2> QED BY <1>3, <2>2, PyCppRange DEF Advances
<1>4. ASSUME p = "app" PROVE pc'["main"] = pc["main"]
  <2>1. pc["app"] \in 1 .. 14
    BY <1>4, PyCppRange DEF Advances, Running
  <2>2. Step("app").op # "start"
    BY <1>4, <2>1, PyCppOps DEF Step
  <2> QED BY <1>4, <2>2, PyCppRange DEF Advances
<1>5. Second \in Nat /\ Delay \in Nat /\ StartUp \in Nat
  BY WorkflowsAssumption
<1> QED BY <1>1, <1>2, <1>3, <1>4, <1>5

(* The app begins to wait when the driver is in the nap before the put.    *)
LEMMA AppWaitsSteps ==
  ASSUME Inv, History, FastEnough, example = PyCppExchange, AppWaits,
         NEW p \in Processes, Ready(p), Advances(p)
  PROVE  AppWaits'
<1> SUFFICES ASSUME NEW k \in 1 .. 5, pc'["app"] = k + 1, pc'["main"] <= 2 * k + 3
             PROVE  \/ pc'["main"] = 2 * k + 2 /\ age'["app"] <= age'["main"] + late'["main"]
                    \/ pc'["main"] = 2 * k + 3 /\ age'["app"] <= Second + Delay + late'["main"]
  BY DEF AppWaits
<1>1. CASE p = "app"
  <2>1. pc["app"] = k /\ pc["main"] <= 2 * k + 3
    BY <1>1, PyCppStep
  <2>2. pc["main"] >= 2 * k + 2
    <3>1. pc["main"] > 3
      BY <2>1, PyCppOrder
    <3>2. CASE k = 1
      BY <1>1, <3>1, <3>2, PyCppStep
    <3>3. CASE k > 1
      <4>1. PICK j \in 1 .. 4 : k = j + 1
        BY <3>3
      <4>2. Step("app").op = "wait" /\ Step("app").key = ToApp[j] /\ j \in 1 .. 5
        BY <2>1, <4>1, PyCppToApp DEF Step
      <4>3. ToApp[j] \in DOMAIN items
        BY <1>1, <4>2 DEF Advances
      <4>4. pc["main"] > 2 * j + 3
        BY <4>2, <4>3, PyCppOrder
      <4> QED BY <1>1, <4>1, <4>4, PyCppStep
    <3> QED BY <3>2, <3>3
  <2> QED BY <1>1, <2>1, <2>2, PyCppStep
<1>2. CASE p = "main"
  <2>1. pc["app"] = k + 1
    BY <1>2, PyCppStep
  <2>2. pc["main"] + 1 <= 2 * k + 3 /\ pc["main"] \in Nat
    BY <1>2, PyCppStep
  <2>3. pc["main"] = 2 * k + 2 /\ age["app"] <= age["main"] + late["main"]
    BY <2>1, <2>2 DEF AppWaits
  <2>4. age["main"] <= Second /\ late["main"] <= Delay
    BY <2>3, DriverClock
  <2> QED BY <1>2, <2>3, <2>4, PyCppStep
<1> QED BY <1>1, <1>2, PyCppSize

(* The driver begins to wait again when the app is in the nap before the   *)
(* put.                                                                    *)
LEMMA DriverWaitsSteps ==
  ASSUME Inv, History, FastEnough, example = PyCppExchange, DriverWaits,
         NEW p \in Processes, Ready(p), Advances(p)
  PROVE  DriverWaits'
<1> SUFFICES ASSUME NEW k \in 2 .. 4, pc'["main"] = k + 13, pc'["app"] <= 2 * k + 6
             PROVE  \/ pc'["app"] = 2 * k + 5 /\ age'["main"] <= age'["app"] + late'["app"]
                    \/ pc'["app"] = 2 * k + 6 /\ age'["main"] <= Second + Delay + late'["app"]
  BY DEF DriverWaits
<1>1. CASE p = "main"
  <2>1. PICK j \in 1 .. 3 : k = j + 1
    OBVIOUS
  <2>2. pc["main"] = j + 13
    BY <1>1, <2>1, PyCppStep
  <2>3. Step("main").op = "wait" /\ Step("main").key = ToDriver[j] /\ j \in 1 .. 4
    BY <2>2, PyCppToDriver DEF Step
  <2>4. ToDriver[j] \in DOMAIN items
    BY <1>1, <2>3 DEF Advances
  <2>5. pc["app"] > 2 * j + 6
    BY <2>3, <2>4, PyCppOrder
  <2>6. pc'["app"] = pc["app"]
    BY <1>1, <2>2, PyCppStep
  <2> QED BY <1>1, <2>1, <2>5, <2>6, PyCppStep
<1>2. CASE p = "app"
  <2>1. pc["main"] = k + 13 /\ pc["app"] + 1 <= 2 * k + 6 /\ pc["app"] \in Nat
    BY <1>2, PyCppStep
  <2>2. pc["app"] = 2 * k + 5 /\ age["main"] <= age["app"] + late["app"]
    BY <2>1 DEF DriverWaits
  <2>3. age["app"] <= Second /\ late["app"] <= Delay
    BY <2>2, AppClock
  <2> QED BY <1>2, <2>2, <2>3, PyCppStep
<1> QED BY <1>1, <1>2, PyCppSize

(* The driver sleeps once before each message; the app, once it is there,  *)
(* is at most as late as it may be.                                        *)
LEMMA AppFollowsSteps ==
  ASSUME Inv, History, FastEnough, example = PyCppExchange, AppFollows,
         NEW p \in Processes, Ready(p), Advances(p)
  PROVE  AppFollows'
<1>0. /\ \A q \in {"main", "app"} :
           /\ pc[q] \in Nat /\ pc'[q] \in Nat /\ age[q] \in Nat /\ late[q] \in Nat
      /\ Second \in Nat /\ Delay \in Nat /\ StartUp \in Nat
  BY PyCppStep
<1>1. CASE p = "main" /\ pc["main"] = 3
  <2>1. pc'["main"] = 4 /\ age'["main"] = 0 /\ pc'["app"] = 1 /\ late'["app"] = late["app"]
    BY <1>1, PyCppStep
  <2>2. BehindNext(late'["app"])
    <3> SUFFICES ASSUME NEW i \in 0 .. 5
                 PROVE  /\ 4 = 2 * i + 4 => i * Second + 0 <= late'["app"]
                        /\ 4 # 2 * i + 3
      BY <2>1 DEF BehindNext
    <3>1. 4 = 2 * i + 4 => i * Second = 0
      BY <1>0
    <3> QED BY <1>0, <2>1, <3>1
  <2> QED BY <2>1, <2>2, FollowsNext
<1>2. CASE p = "main" /\ pc["main"] # 3
  <2>1. pc'["app"] = pc["app"] /\ age'["app"] = age["app"] /\ late'["app"] = late["app"]
    BY <1>2, PyCppStep
  <2>2. CASE pc["app"] = 0
    BY <2>1, <2>2, FollowsNext
  <2>3. CASE pc["app"] # 0
    <3>1. pc["main"] > 3
      BY <2>3, PyCppOrder
    <3>2. \A x \in Int : Behind(x) => BehindNext(x)
      BY <1>2, <3>1, BehindDrives
    <3>3. /\ late["app"] \in Int
          /\ \A k \in 1 .. 5 : (k + 2) * Second - Delay - 1 + late["app"] \in Int
          /\ 7 * Second - 1 + age["app"] + late["app"] \in Int
          /\ 8 * Second + Delay - 1 + late["app"] \in Int
      BY <1>0
    <3> QED BY <2>1, <3>2, <3>3, FollowsNext DEF AppFollows
  <2> QED BY <2>2, <2>3
<1>3. CASE p = "app"
  <2>1. /\ pc'["main"] = pc["main"] /\ age'["main"] = age["main"]
        /\ pc'["app"] = pc["app"] + 1 /\ age'["app"] = 0 /\ late'["app"] = 0
    BY <1>3, PyCppSize, PyCppStep
  <2>2. \A x : Behind(x) => BehindNext(x)
    BY <2>1, BehindStays
  <2>3. \A x, y \in Int : x <= y /\ BehindNext(x) => BehindNext(y)
    BY <1>0, <2>1, BehindMore
  <2>4. pc["app"] \in 1 .. 14
    BY <1>3, PyCppRange DEF Advances, Running
  <2>5. CASE pc["app"] = 1
    <3>1. BehindNext(late["app"]) /\ late["app"] <= StartUp
      BY <2>2, <2>5, AppClock DEF AppFollows
    <3>2. late["app"] <= 3 * Second - Delay - 1 + 0 /\ 3 * Second - Delay - 1 + 0 \in Int
          /\ late["app"] \in Int
      BY <1>0, <3>1 DEF FastEnough
    <3>3. BehindNext(3 * Second - Delay - 1 + 0)
      BY <2>3, <3>1, <3>2
    <3>4. \A k \in 1 .. 5 : pc'["app"] = k + 1 => k + 2 = 3
      BY <2>1, <2>5
    <3>5. \A k \in 1 .. 5 :
            pc'["app"] = k + 1 => BehindNext((k + 2) * Second - Delay - 1 + late'["app"])
      BY <2>1, <3>3, <3>4
    <3> QED BY <2>1, <2>5, <3>5, FollowsNext
  <2>6. ASSUME NEW k \in 1 .. 5, pc["app"] = k + 1 PROVE AppFollows'
    <3> DEFINE x == (k + 2) * Second - Delay - 1 + late["app"]
    <3>1. BehindNext(x) /\ late["app"] <= Delay
      BY <2>2, <2>6, AppClock DEF AppFollows
    <3>2. x \in Int /\ (k + 2) * Second \in Nat /\ (k + 3) * Second = (k + 2) * Second + Second
      BY <1>0
    <3>3. CASE k = 5
      <4> DEFINE y == 7 * Second - 1 + 0 + 0
      <4>1. x <= y /\ y \in Int
        BY <1>0, <3>1, <3>3 DEF FastEnough
      <4> HIDE DEF x, y
      <4>2. BehindNext(y)
        BY <2>3, <3>1, <3>2, <4>1
      <4>3. BehindNext(7 * Second - 1 + age'["app"] + late'["app"])
        BY <2>1, <4>2 DEF y
      <4>4. pc'["app"] = 7
        BY <2>1, <2>6, <3>3
      <4> QED BY <4>3, <4>4, FollowsNext
    <3>4. CASE k # 5
      <4> DEFINE y == (k + 3) * Second - Delay - 1 + 0
      <4>1. x <= y /\ y \in Int
        BY <1>0, <3>1, <3>2 DEF FastEnough
      <4> HIDE DEF x, y
      <4>2. BehindNext(y)
        BY <2>3, <3>1, <3>2, <4>1
      <4>3. \A j \in 1 .. 5 : pc'["app"] = j + 1 => j + 2 = k + 3
        BY <2>1, <2>6
      <4>4. \A j \in 1 .. 5 :
              pc'["app"] = j + 1 => BehindNext((j + 2) * Second - Delay - 1 + late'["app"])
        BY <2>1, <4>2, <4>3 DEF y
      <4>5. pc'["app"] \in 3 .. 6
        BY <2>1, <2>6, <3>4
      <4> QED BY <4>4, <4>5, FollowsNext
    <3> QED BY <3>3, <3>4
  <2>7. CASE pc["app"] = 7
    <3> DEFINE x == 7 * Second - 1 + age["app"] + late["app"]
               y == 8 * Second + Delay - 1 + 0
    <3>1. BehindNext(x) /\ age["app"] <= Second /\ late["app"] <= Delay
      <4>1. pc["app"] = 2 * 1 + 5
        BY <2>7
      <4> QED BY <2>2, <2>7, <4>1, AppClock DEF AppFollows
    <3>2. x <= y /\ x \in Int /\ y \in Int
      BY <1>0, <3>1
    <3> HIDE DEF x, y
    <3>3. BehindNext(y)
      BY <2>3, <3>1, <3>2
    <3>4. BehindNext(8 * Second + Delay - 1 + late'["app"])
      BY <2>1, <3>3 DEF y
    <3> QED BY <2>1, <2>7, <3>4, FollowsNext
  <2>8. CASE pc["app"] > 7
    BY <2>1, <2>4, <2>8, FollowsNext
  <2>9. pc["app"] = 1 \/ pc["app"] = 7 \/ pc["app"] > 7 \/ \E k \in 1 .. 5 : pc["app"] = k + 1
    BY <2>4
  <2> QED BY <2>5, <2>6, <2>7, <2>8, <2>9
<1> QED BY <1>1, <1>2, <1>3, PyCppSize

(* As time passes, a wait lasts no longer than what it waits for is late.  *)
LEMMA PyCppTick ==
  ASSUME Inv, example = PyCppExchange, Tick
  PROVE  /\ pc' = pc
         /\ \A q \in {"main", "app"} :
              /\ pc[q] \in Nat /\ age[q] \in 0 .. MaxAge /\ late[q] \in Nat
              /\ age'[q] \in {age[q], age[q] + 1} /\ age'[q] <= MaxAge
              /\ late'[q] \in {late[q], late[q] + 1}
              /\ Ready(q) => age'[q] = age[q] /\ late'[q] = late[q] + 1
              /\ ~ Ready(q) => late'[q] = late[q]
              /\ ~ Ready(q) /\ At(q, {"sleep"}) =>
                   age'[q] = IF age[q] < MaxAge THEN age[q] + 1 ELSE age[q]
         /\ MaxAge \in Nat /\ Second \in Nat /\ Delay \in Nat /\ StartUp \in Nat
<1>1. pc' = pc /\ \A q \in {"main", "app"} : q \in Processes /\ pc[q] \in Nat
  BY PyCppSize, TickFacts, Patient
<1>2. MaxAge \in Nat /\ Second \in Nat /\ Delay \in Nat /\ StartUp \in Nat
  BY WorkflowsAssumption
<1>3. ASSUME NEW q \in {"main", "app"}
      PROVE  /\ age[q] \in 0 .. MaxAge /\ late[q] \in Nat
             /\ Ready(q) => age'[q] = age[q] /\ late'[q] = late[q] + 1
             /\ ~ Ready(q) => late'[q] = late[q]
             /\ ~ Ready(q) /\ At(q, {"sleep"}) =>
                  age'[q] = IF age[q] < MaxAge THEN age[q] + 1 ELSE age[q]
             /\ ~ Ready(q) => age'[q] = age[q] \/ (age[q] < MaxAge /\ age'[q] = age[q] + 1)
  BY <1>1, TickFacts DEF At
<1>4. ASSUME NEW q \in {"main", "app"}
      PROVE  /\ age'[q] \in {age[q], age[q] + 1} /\ age'[q] <= MaxAge
             /\ late'[q] \in {late[q], late[q] + 1}
  BY <1>2, <1>3
<1> QED BY <1>1, <1>2, <1>3, <1>4

LEMMA AppWaitsTicks ==
  ASSUME Inv, History, example = PyCppExchange, AppWaits, Tick
  PROVE  AppWaits'
<1> SUFFICES ASSUME NEW k \in 1 .. 5, pc["app"] = k + 1, pc["main"] <= 2 * k + 3
             PROVE  \/ pc["main"] = 2 * k + 2 /\ age'["app"] <= age'["main"] + late'["main"]
                    \/ pc["main"] = 2 * k + 3 /\ age'["app"] <= Second + Delay + late'["main"]
  BY PyCppTick DEF AppWaits
<1>1. \/ pc["main"] = 2 * k + 2 /\ age["app"] <= age["main"] + late["main"]
      \/ pc["main"] = 2 * k + 3 /\ age["app"] <= Second + Delay + late["main"]
  BY DEF AppWaits
<1>2. CASE pc["main"] = 2 * k + 2
  <2>1. At("main", {"sleep"}) /\ age["app"] <= age["main"] + late["main"]
    BY <1>1, <1>2, DriverClock
  <2> QED BY <1>2, <2>1, PyCppTick
<1>3. CASE pc["main"] = 2 * k + 3
  <2>1. Ready("main") /\ age["app"] <= Second + Delay + late["main"]
    BY <1>1, <1>3, DriverClock
  <2> QED BY <1>3, <2>1, PyCppTick
<1> QED BY <1>1, <1>2, <1>3

(* The same for the driver.                                                *)
LEMMA DriverWaitsTicks ==
  ASSUME Inv, History, example = PyCppExchange, DriverWaits, Tick
  PROVE  DriverWaits'
<1> SUFFICES ASSUME NEW k \in 2 .. 4, pc["main"] = k + 13, pc["app"] <= 2 * k + 6
             PROVE  \/ pc["app"] = 2 * k + 5 /\ age'["main"] <= age'["app"] + late'["app"]
                    \/ pc["app"] = 2 * k + 6 /\ age'["main"] <= Second + Delay + late'["app"]
  BY PyCppTick DEF DriverWaits
<1>1. \/ pc["app"] = 2 * k + 5 /\ age["main"] <= age["app"] + late["app"]
      \/ pc["app"] = 2 * k + 6 /\ age["main"] <= Second + Delay + late["app"]
  BY DEF DriverWaits
<1>2. CASE pc["app"] = 2 * k + 5
  <2>1. At("app", {"sleep"}) /\ age["main"] <= age["app"] + late["app"]
    BY <1>1, <1>2, AppClock
  <2> QED BY <1>2, <2>1, PyCppTick
<1>3. CASE pc["app"] = 2 * k + 6
  <2>1. Ready("app") /\ age["main"] <= Second + Delay + late["app"]
    BY <1>1, <1>3, AppClock
  <2> QED BY <1>3, <2>1, PyCppTick
<1> QED BY <1>1, <1>2, <1>3

(* A tick makes the app later, or it waits for a message that the driver   *)
(* has not put, or both sleep.                                             *)
LEMMA AppFollowsTicks ==
  ASSUME Inv, History, FastEnough, example = PyCppExchange, AppFollows, Tick
  PROVE  AppFollows'
<1>0. /\ pc' = pc /\ pc["main"] \in Nat /\ pc["app"] \in Nat
      /\ age["app"] \in Nat /\ late["app"] \in Nat
      /\ late'["app"] \in {late["app"], late["app"] + 1}
      /\ age'["app"] \in {age["app"], age["app"] + 1}
      /\ MaxAge \in Nat /\ Second \in Nat /\ Delay \in Nat /\ StartUp \in Nat
  BY PyCppTick
<1>1. \A x \in Int : Behind(x) => BehindNext(x + 1)
  BY BehindTicks
<1>2. \A x, y \in Int : x <= y /\ BehindNext(x) => BehindNext(y)
  BY <1>0, PyCppTick, BehindMore
<1>3. CASE pc["app"] = 1
  <2>1. late'["app"] = late["app"] + 1
    BY <1>3, AppClock, PyCppTick
  <2>2. BehindNext(late'["app"])
    BY <1>0, <1>1, <1>3, <2>1 DEF AppFollows
  <2> QED BY <1>0, <1>3, <2>2, FollowsNext
<1>4. ASSUME NEW k \in 1 .. 5, pc["app"] = k + 1 PROVE AppFollows'
  <2> DEFINE x == (k + 2) * Second - Delay - 1 + late["app"]
             y == (k + 2) * Second - Delay - 1 + late'["app"]
  <2>1. x \in Int /\ y \in Int /\ (k + 2) * Second \in Nat
    BY <1>0
  <2>2. BehindNext(y)
    <3>1. CASE Ready("app")
      <4>1. late'["app"] = late["app"] + 1
        BY <3>1, PyCppTick
      <4>2. y = x + 1
        BY <1>0, <2>1, <4>1
      <4>3. Behind(x)
        BY <1>4 DEF AppFollows
      <4> HIDE DEF x, y
      <4> QED BY <1>1, <2>1, <4>2, <4>3
    <3>2. CASE ~ Ready("app")
      <4>1. Running("app") /\ Step("app").op = "wait" /\ Step("app").key = ToApp[k]
        <5>1. pc["app"] \in 1 .. Len(Steps("app"))
          BY <1>4, PyCppToApp, PyCppRange
        <5>2. Step("app").op = "wait" /\ Step("app").key = ToApp[k]
          BY <1>4, PyCppToApp DEF Step
        <5> QED BY <5>1, <5>2 DEF Running
      <4>2. ToApp[k] \notin DOMAIN items
        BY <3>2, <4>1 DEF Ready, At
      <4>3. pc["main"] <= 2 * k + 3
        <5>1. ~ (pc["main"] > 2 * k + 3)
          BY <4>2, PyCppOrder
        <5> QED BY <1>0, <5>1
      <4>4. BehindNext(k * Second)
        BY <4>3, BehindWaits
      <4>5. k * Second <= y /\ k * Second \in Int
        <5>1. (k + 2) * Second = k * Second + Second + Second /\ k * Second \in Int
          BY <1>0
        <5> QED BY <1>0, <5>1 DEF FastEnough
      <4> HIDE DEF x, y
      <4> QED BY <1>2, <2>1, <4>4, <4>5
    <3> QED BY <3>1, <3>2
  <2> HIDE DEF x
  <2>3. \A j \in 1 .. 5 : pc'["app"] = j + 1 => j = k
    BY <1>0, <1>4
  <2>4. \A j \in 1 .. 5 :
          pc'["app"] = j + 1 => BehindNext((j + 2) * Second - Delay - 1 + late'["app"])
    BY <2>2, <2>3
  <2>5. pc'["app"] \in 2 .. 6
    BY <1>0, <1>4
  <2> QED BY <2>4, <2>5, FollowsNext
<1>5. CASE pc["app"] = 7
  <2> DEFINE x == 7 * Second - 1 + age["app"] + late["app"]
             y == 7 * Second - 1 + age'["app"] + late'["app"]
             z == 5 * Second + MaxAge
  <2>1. x \in Int /\ y \in Int /\ z \in Int
    BY <1>0
  <2>2. At("app", {"sleep"})
    <3>1. pc["app"] = 2 * 1 + 5
      BY <1>5
    <3> QED BY <3>1, AppClock
  <2>3. Behind(x) /\ BehindNext(z)
    BY <1>5, BehindTicks DEF AppFollows
  <2>4. y = x + 1 \/ z <= y
    <3>1. \/ age'["app"] = age["app"] /\ late'["app"] = late["app"] + 1
          \/ age'["app"] = age["app"] + 1 /\ late'["app"] = late["app"]
          \/ age'["app"] = MaxAge
      BY <2>2, PyCppTick
    <3> QED BY <1>0, <3>1 DEF FastEnough
  <2> HIDE DEF x, z
  <2>5. BehindNext(y)
    <3> HIDE DEF y
    <3> QED BY <1>1, <1>2, <2>1, <2>3, <2>4
  <2> QED BY <1>0, <1>5, <2>5, FollowsNext
<1>6. CASE pc["app"] = 8
  <2> DEFINE x == 8 * Second + Delay - 1 + late["app"]
             y == 8 * Second + Delay - 1 + late'["app"]
  <2>1. late'["app"] = late["app"] + 1
    <3>1. pc["app"] = 2 * 1 + 6
      BY <1>6
    <3> QED BY <3>1, AppClock, PyCppTick
  <2>2. x \in Int /\ y = x + 1
    BY <1>0, <2>1
  <2>3. Behind(x)
    BY <1>6 DEF AppFollows
  <2> HIDE DEF x
  <2>4. BehindNext(y)
    <3> HIDE DEF y
    <3> QED BY <1>1, <2>2, <2>3
  <2> QED BY <1>0, <1>6, <2>4, FollowsNext
<1>7. CASE pc["app"] = 0 \/ pc["app"] > 8
  BY <1>0, <1>7, FollowsNext
<1>8. pc["app"] \in {0, 1, 7, 8} \/ pc["app"] > 8 \/ \E k \in 1 .. 5 : pc["app"] = k + 1
  BY <1>0
<1> QED BY <1>3, <1>4, <1>5, <1>6, <1>7, <1>8

(* The program of the in-memory example: every get after its put.          *)
LEMMA InMemoryShape ==
  ASSUME example = InMemory
  PROVE  /\ 1 .. Len(Steps("main")) = 1 .. 9
         /\ Processes = {"main"} /\ Len(Steps("main")) = 9 /\ Steps("main")[1] = Open
         /\ \A i \in {2, 3, 6, 7} : Steps("main")[i].op = "put"
         /\ \A i \in {4, 5, 8, 9} :
              Steps("main")[i].op = "get" /\ Steps("main")[i].key = Steps("main")[i - 2].key
<1> DEFINE steps == <<Open,
     Put("some-int", Scalar("INT32")), Put("some-double", Scalar("FLOAT64")),
     Get("some-int", Scalar("INT32")), Get("some-double", Scalar("FLOAT64")),
     Put("int-tensor", Tensor("INT32")), Put("double-tensor", Tensor("FLOAT64")),
     Get("int-tensor", Tensor("INT32")), Get("double-tensor", Tensor("FLOAT64"))>>
<1>1. /\ DOMAIN example.programs = {"main"} /\ example.programs["main"] = Straight(steps)
  BY DEF InMemory
<1>2. Straight(steps).try = steps
  BY DEF Straight, Program
<1>3. /\ Len(steps) = 9 /\ steps[1] = Open
      /\ steps[2].op = "put" /\ steps[2].key = "some-int"
      /\ steps[3].op = "put" /\ steps[3].key = "some-double"
      /\ steps[4].op = "get" /\ steps[4].key = "some-int"
      /\ steps[5].op = "get" /\ steps[5].key = "some-double"
      /\ steps[6].op = "put" /\ steps[6].key = "int-tensor"
      /\ steps[7].op = "put" /\ steps[7].key = "double-tensor"
      /\ steps[8].op = "get" /\ steps[8].key = "int-tensor"
      /\ steps[9].op = "get" /\ steps[9].key = "double-tensor"
  BY DEF Put, Get
<1> HIDE DEF steps
<1>4. Steps("main") = steps
  <2>1. InMemory.programs["main"] = Straight(steps)
    BY <1>1
  <2>2. steps \in Seq(PlainSteps)
    BY <1>2, <2>1, InMemoryPlain
  <2> QED BY <1>1, <2>2, StraightSteps
<1>5. Processes = {"main"}
  BY <1>1 DEF Processes
<1>6. Len(steps) = 9
  BY <1>3
<1>7. 1 .. Len(steps) = 1 .. 9
  BY <1>6
<1>8. /\ \A i \in {2, 3, 6, 7} : steps[i].op = "put"
      /\ \A i \in {4, 5, 8, 9} : steps[i].op = "get" /\ steps[i].key = steps[i - 2].key
  BY <1>3
<1>9. steps[1] = Open
  BY <1>3
<1> QED BY <1>4, <1>5, <1>6, <1>7, <1>8, <1>9

(* One process that gets what it has put.                                  *)
LEMMA InMemoryFine ==
  ASSUME Inv, History, example = InMemory, NEW p \in Processes
  PROVE  Fine(p)
<1> SUFFICES ASSUME At("main", {"put", "get", "wait"})
             PROVE  up /\ (Step("main").op # "put" => Step("main").key \in DOMAIN items)
  BY InMemoryShape DEF Fine
<1>1. /\ pc["main"] \in {1, 2, 3, 4, 5, 6, 7, 8, 9} /\ Step("main") = Steps("main")[pc["main"]]
      /\ Step("main").op \in {"put", "get", "wait"}
  <2>1. pc["main"] \in 1 .. 9
    BY InMemoryShape DEF At, Running
  <2>2. \A i \in 1 .. 9 : i \in {1, 2, 3, 4, 5, 6, 7, 8, 9}
    OBVIOUS
  <2> QED BY <2>1, <2>2 DEF Step, At
<1>2. pc["main"] # 1
  BY <1>1, InMemoryShape DEF Open
<1>3. ~ Closed
  <2>1. \A i \in 1 .. 9 : i \in {1, 2, 3, 4, 5, 6, 7, 8, 9}
    OBVIOUS
  <2>2. \A i \in 1 .. 9 : Steps("main")[i].op # "close"
    BY <2>1, InMemoryShape DEF Open
  <2>3. Processes = {"main"} /\ 1 .. Len(Steps("main")) = 1 .. 9
    BY InMemoryShape
  <2> QED BY <2>2, <2>3 DEF Closed
<1>4. up
  <2>1. Passed("main", 1)
    BY <1>1, <1>2, InMemoryShape DEF Passed
  <2> QED BY <1>3, <2>1, InMemoryShape, StaysUp
<1>5. ASSUME Step("main").op # "put" PROVE Step("main").key \in DOMAIN items
  <2>1. pc["main"] \in {4, 5, 8, 9}
    BY <1>1, <1>2, <1>5, InMemoryShape
  <2> DEFINE i == pc["main"] - 2
  <2>2. Passed("main", i) /\ i \in {2, 3, 6, 7} /\ i \in 1 .. Len(Steps("main"))
    BY <2>1, InMemoryShape DEF Passed
  <2>3. Step("main").key = Steps("main")[i].key
    BY <1>1, <2>1, InMemoryShape
  <2> HIDE DEF i
  <2>4. Effects(Steps("main")[i]) /\ Steps("main")[i].op = "put"
    BY <2>2, InMemoryShape DEF History
  <2> QED BY <2>3, <2>4 DEF Effects
<1> QED BY <1>4, <1>5

(* The six examples.                                                       *)
LEMMA WhichExample ==
  ASSUME example \in Examples
  PROVE  \/ example \in {DragonExchange, RedisExchange, PyCppExchange, InMemory}
         \/ \E n \in {0, 1} : example = WithNaps(n)
<1>1. WithNaps(0) = Rhapsody("dragon", <<>>)
  BY DEF WithNaps
<1>2. WithNaps(1) = Rhapsody("smartredis", <<Sleep(2)>>)
  BY DEF WithNaps
<1> QED BY <1>1, <1>2 DEF Examples

(* In time, no process finds the store closed or an item missing.          *)
LEMMA InTimeFine ==
  ASSUME Inv, History, InTime, FastEnough, NEW p \in Processes, Ready(p)
  PROVE  Fine(p)
<1>1. CASE example = DragonExchange
  BY <1>1, DragonFine
<1>2. CASE example = RedisExchange
  BY <1>2, RedisFine DEF InTime
<1>3. CASE example = PyCppExchange
  BY <1>3, AppFine, DriverFine, PyCppSize DEF InTime
<1>4. ASSUME NEW n \in {0, 1}, example = WithNaps(n) PROVE Fine(p)
  BY <1>4, RhapsodyFine DEF InTime
<1>5. CASE example = InMemory
  BY <1>5, InMemoryFine
<1> QED BY <1>1, <1>2, <1>3, <1>4, <1>5, WhichExample DEF Inv

(* The clocks stay in time whoever goes on and as time passes.             *)
LEMMA InTimeSteps ==
  ASSUME Inv, History, InTime, FastEnough, NEW p \in Processes, Ready(p), Advances(p)
  PROVE  InTime'
<1>1. example' = example
  BY DEF Advances
<1>2. ASSUME example = RedisExchange PROVE RedisInTime'
  BY <1>2, RedisSteps DEF InTime
<1>3. ASSUME example = PyCppExchange PROVE AppWaits' /\ AppFollows' /\ DriverWaits'
  BY <1>3, AppWaitsSteps, AppFollowsSteps, DriverWaitsSteps DEF InTime
<1>4. ASSUME NEW n \in {0, 1}, example = WithNaps(n) PROVE RhapsodyInTime(n)'
  BY <1>4, RhapsodySteps DEF InTime
<1>5. \A n \in {0, 1} : WithNaps(n)' = WithNaps(n)
  BY DEF WithNaps, Rhapsody, Straight, Program
<1> QED BY <1>1, <1>2, <1>3, <1>4, <1>5 DEF InTime

LEMMA InTimeTicks ==
  ASSUME Inv, History, InTime, FastEnough, Tick
  PROVE  InTime'
<1>1. example' = example
  BY TickFacts
<1>2. ASSUME example = RedisExchange PROVE RedisInTime'
  BY <1>2, RedisTicks DEF InTime
<1>3. ASSUME example = PyCppExchange PROVE AppWaits' /\ AppFollows' /\ DriverWaits'
  BY <1>3, AppWaitsTicks, AppFollowsTicks, DriverWaitsTicks DEF InTime
<1>4. ASSUME NEW n \in {0, 1}, example = WithNaps(n) PROVE RhapsodyInTime(n)'
  BY <1>4, RhapsodyTicks DEF InTime
<1> QED BY <1>1, <1>2, <1>3, <1>4 DEF InTime

(* Whoever has crashed stays where it is.                                  *)
LEMMA CrashesStay ==
  ASSUME Inv, Crashed, [Next]_vars
  PROVE  Crashed'
<1>1. PICK q \in Processes : error[q] = "crashed" /\ Ended(q)
  BY DEF Crashed
<1>2. /\ pc \in [Processes -> Nat] /\ error \in [Processes -> Expected]
      /\ pc[q] > Len(Steps(q)) /\ Len(Steps(q)) \in Nat
  BY <1>1, StepFacts DEF Ended, Inv, Moving, Places
<1>3. SUFFICES example' = example /\ error'[q] = error[q] /\ pc'[q] = pc[q]
  BY <1>1 DEF Crashed, Processes, Ended, Steps
<1>4. ASSUME NEW p \in Processes, Act(p)
      PROVE  example' = example /\ error'[q] = error[q] /\ pc'[q] = pc[q]
  <2>1. Running(p) /\ p # q
    BY <1>1, <1>2, <1>4 DEF Act, Ready, Running
  <2>2. ASSUME Continue(p) PROVE example' = example /\ error'[q] = error[q] /\ pc'[q] = pc[q]
    BY <1>2, <2>1, <2>2 DEF Continue, Arrive
  <2>3. ASSUME NEW x, Raise(p, x)
        PROVE  example' = example /\ error'[q] = error[q] /\ pc'[q] = pc[q]
    BY <1>2, <2>1, <2>3 DEF Raise, Arrive
  <2>4. ASSUME StartProcess(p)
        PROVE  example' = example /\ error'[q] = error[q] /\ pc'[q] = pc[q]
    <3> DEFINE c == Step(p).process
    <3>1. c \in Processes /\ pc[c] = 0
      BY <2>4, Starting DEF StartProcess
    <3>2. pc' = [pc EXCEPT ![p] = pc[p] + 1, ![c] = 1] /\ error' = error /\ example' = example
      BY <2>4 DEF StartProcess, Arrive
    <3> HIDE DEF c
    <3>3. c # q
      BY <1>2, <3>1
    <3> QED BY <1>2, <2>1, <3>2, <3>3
  <2> QED BY <1>4, <2>2, <2>3, <2>4
          DEF Act, Proceed, OpenStore, CloseStore, NoStore, PutItem, ReadItem, MissItem
<1>5. ASSUME NEW p \in Processes, Crash(p)
      PROVE  example' = example /\ error'[q] = error[q] /\ pc'[q] = pc[q]
  <2>1. p # q
    BY <1>2, <1>5 DEF Crash, Running
  <2> QED BY <1>2, <1>5, <2>1 DEF Crash, Arrive
<1>6. CASE Tick
  BY <1>6 DEF Tick
<1>7. CASE UNCHANGED vars
  BY <1>7 DEF vars
<1> QED BY <1>4, <1>5, <1>6, <1>7 DEF Next

(* Nothing has happened yet.                                               *)
LEMMA CausedInit == ASSUME Inv, Init PROVE Caused
<1>1. \A q \in Processes :
        /\ pc[q] = IF q = "main" THEN 1 ELSE 0
        /\ age[q] = 0 /\ late[q] = 0 /\ error[q] = None
  BY DEF Init
<1>2. Healthy
  BY <1>1 DEF Healthy
<1>3. History
  <2>1. DOMAIN items = {}
    BY DEF Init
  <2>2. ASSUME NEW q \in Processes, NEW i \in 1 .. Len(Steps(q)) PROVE ~ Passed(q, i)
    BY <1>1, StepFacts DEF Passed, Inv
  <2>3. ASSUME NEW q \in Processes, At(q, {"sleep"}) PROVE 0 <= Step(q).seconds * Second
    <3>1. Step(q) \in PlainSteps \cup Starts /\ Step(q).op = "sleep"
      BY <2>3, StepFacts DEF At, Running, Step, Inv
    <3>2. Step(q).seconds \in Nat
      BY <3>1 DEF PlainSteps, Exchanges, Starts
    <3> QED BY <3>2, WorkflowsAssumption
  <2> QED BY <1>1, <2>1, <2>2, <2>3 DEF History
<1>4. InTime
  <2>1. "main" \in Processes /\ pc["main"] = 1
    BY <1>1, MainRuns DEF Inv
  <2>2. ASSUME example = RedisExchange PROVE RedisInTime
    BY <2>1 DEF RedisInTime
  <2>3. ASSUME example = PyCppExchange PROVE AppWaits /\ AppFollows /\ DriverWaits
    <3>1. pc["app"] = 0
      BY <1>1, <2>3, PyCppSize
    <3> QED BY <2>1, <3>1 DEF AppWaits, AppFollows, DriverWaits
  <2>4. ASSUME NEW n \in {0, 1}, example = WithNaps(n) PROVE RhapsodyInTime(n)
    <3>1. pc["consume"] = 0
      BY <1>1, <2>4, RhapsodyShape
    <3> QED BY <3>1 DEF RhapsodyInTime
  <2> QED BY <2>2, <2>3, <2>4 DEF InTime
<1> QED BY <1>2, <1>3, <1>4 DEF Caused

(* A step that is not a crash does not fail.                               *)
LEMMA CausedStep ==
  ASSUME FastEnough, Inv, Caused, [Next]_vars
  PROVE  Caused'
<1>1. CASE Crashed
  BY <1>1, CrashesStay DEF Caused
<1>2. CASE Healthy /\ History /\ InTime
  <2>1. ASSUME NEW p \in Processes, Act(p) PROVE Caused'
    <3>1. Ready(p)
      BY <2>1 DEF Act
    <3>2. Advances(p)
      BY <1>2, <2>1, <3>1, InTimeFine, ActAdvances
    <3>3. History' /\ InTime'
      BY <1>2, <3>1, <3>2, HistoryGrows, InTimeSteps
    <3>4. Healthy'
      BY <1>2, <3>2, Unchanging DEF Healthy, Advances
    <3> QED BY <3>3, <3>4 DEF Caused
  <2>2. ASSUME NEW p \in Processes, Crash(p) PROVE Caused'
    <3>1. /\ example' = example /\ pc' = [pc EXCEPT ![p] = Len(Steps(p)) + 1]
          /\ error' = [error EXCEPT ![p] = "crashed"]
      BY <2>2 DEF Crash, Arrive
    <3>2. /\ pc \in [Processes -> Nat] /\ error \in [Processes -> Expected]
          /\ Len(Steps(p)) \in Nat
      BY StepFacts DEF Inv, Moving, Places
    <3>3. error'[p] = "crashed" /\ pc'[p] > Len(Steps(p))
      BY <3>1, <3>2
    <3> QED BY <3>1, <3>3, Unchanging DEF Caused, Crashed, Ended
  <2>3. CASE Tick
    <3>1. History' /\ InTime'
      BY <1>2, <2>3, HistoryWaits, InTimeTicks
    <3>2. Healthy'
      BY <1>2, <2>3, TickFacts DEF Healthy
    <3> QED BY <3>1, <3>2 DEF Caused
  <2>4. CASE UNCHANGED vars
    <3>1. /\ Processes' = Processes
          /\ \A q \in Processes :
               Steps(q)' = Steps(q) /\ Step(q)' = Step(q) /\ Running(q)' = Running(q)
      BY <2>4 DEF vars, Processes, Steps, Step, Running
    <3>2. /\ \A q \in Processes : Ended(q)' = Ended(q)
          /\ \A q \in Processes : \A i : Passed(q, i)' = Passed(q, i)
      BY <2>4, <3>1 DEF vars, Ended, Passed
    <3>3. Closed' = Closed
      BY <3>1, <3>2 DEF Closed
    <3>4. ASSUME NEW q \in Processes, NEW i \in 1 .. Len(Steps(q)), Passed(q, i)
          PROVE  Effects(Steps(q)[i])'
      BY <1>2, <2>4, <3>1, <3>2, <3>3, <3>4 DEF vars, Effects, History
    <3>5. \A key \in DOMAIN items : PutBySomeone(key)'
      BY <1>2, <3>1, <3>2 DEF PutBySomeone, History
    <3>6. History'
      BY <1>2, <2>4, <3>1, <3>2, <3>4, <3>5 DEF vars, History, At
    <3>7. InTime'
      BY <1>2, <2>4 DEF vars, InTime, RedisInTime, RhapsodyInTime, AppWaits, AppFollows,
                        Behind, DriverWaits
    <3>8. Healthy'
      BY <1>2, <2>4, <3>1 DEF vars, Healthy
    <3> QED BY <3>6, <3>7, <3>8 DEF Caused
  <2> QED BY <2>1, <2>2, <2>3, <2>4 DEF Next
<1> QED BY <1>1, <1>2 DEF Caused

(* If processes are up and at work soon enough for the sleeps and waits in *)
(* the examples, then whoever times out, misses a key or finds no store    *)
(* has another's crash to blame, in every example and every interleaving.  *)
THEOREM FailuresAreExplained ==
  ASSUME FastEnough
  PROVE  Spec => []FailuresHaveACause
<1>1. Init => Caused
  BY InvInit, CausedInit
<1>2. Inv /\ Caused /\ [Next]_vars => Caused'
  BY CausedStep
<1>3. Caused => FailuresHaveACause
  BY NoneAssumption DEF Caused, Crashed, Healthy, FailuresHaveACause, Reasons
<1> QED BY <1>1, <1>2, <1>3, InvHolds, PTL DEF Spec
=============================================================================
