------------------------- MODULE ClientLifecycleProofs -------------------------
(***************************************************************************)
(* The safety properties of ClientLifecycle, for any slots, stores,        *)
(* environments, timeouts and build.                                       *)
(***************************************************************************)
EXTENDS ClientLifecycle, TLAPS

(* A failed Python constructor has raised the type that goes with what the *)
(* library has thrown.                                                     *)
Named(c) ==
  c.lang = "python" /\ c.phase = "failed" =>
    /\ c.backend \notin built => c.error \in {"BackendUnavailableError", "ValueError", "OverflowError"}
    /\ c.error = "BackendUnavailableError" <=> c.thrown = "BackendUnavailableError"
    /\ c.thrown = "invalid_argument" => c.error = "ValueError"
    /\ c.thrown = "runtime_error"    => c.error = "RuntimeError"

(* What holds of the client of every slot. *)
Good(c) ==
  /\ Named(c)
  /\ c.phase \in {"attaching", "attached", "open"} => c.backend \in built
  /\ c.phase = "open" /\ c.backend = "dragon" => Kind[c.store] = "waits"
  /\ c.lang = "python" /\ c.backend = "dragon" /\ c.phase \in {"attaching", "attached", "open"} =>
       /\ c.timeout \in 0 .. UIntLimit - 1
       /\ c.from = "arguments" => c.timeout = c.asked

Inv == TypeOK /\ NoLeaks /\ \A s \in Slots : Good(client[s])

(* std::stoul and the cast yield an unsigned int, whatever the text says.  *)
LEMMA StoulRange ==
  ASSUME NEW n \in Int
  PROVE  Stoul(n) \in 0 .. UIntLimit - 1
<1>1. UIntLimit \in Nat \ {0} /\ ULongLimit \in Nat \ {0}
  BY ConfigurationAssumption DEF UIntLimit
<1>2. n % ULongLimit \in 0 .. ULongLimit - 1
  BY <1>1
<1>3. (n % ULongLimit) % UIntLimit \in 0 .. UIntLimit - 1
  BY <1>1, <1>2
<1>. QED  BY <1>3 DEF Stoul

(* A class has no ancestors outside a set that contains it and the base of *)
(* each of its members.                                                    *)
LEMMA AncestorsWithin ==
  ASSUME NEW x, NEW S, x \in S, \A y \in S : Base[y] \in S
  PROVE  x \in Ancestors(x) /\ Base[x] \in Ancestors(x) /\ Ancestors(x) \subseteq S
<1>. DEFINE up(T) == T \cup {Base[y] : y \in T}
<1>1. ASSUME NEW T, T \subseteq S PROVE up(T) \subseteq S
  BY <1>1
<1>2. up({x}) \subseteq S
  OBVIOUS
<1>3. x \in up({x}) /\ Base[x] \in up({x})
  OBVIOUS
<1>4. \A T : T \subseteq up(T)
  OBVIOUS
<1>5. Ancestors(x) = up(up(up(up({x}))))
  BY DEF Ancestors
<1>. HIDE DEF up
<1>. QED  BY <1>1, <1>2, <1>3, <1>4, <1>5

(* The first handler that catches an exception gives it its Python type.   *)
LEMMA PyTypeOf ==
  ASSUME NEW x, NEW S, x \in S, \A y \in S : Base[y] \in S, NEW i \in 1 .. 12,
         PyHandlers[i].class \in {x, Base[x]},
         \A j \in 1 .. i - 1 : PyHandlers[j].class \notin S
  PROVE  PyType(x) = PyHandlers[i].as
<1>. DEFINE first(k) == /\ PyHandlers[k].class \in Ancestors(x)
                        /\ \A j \in 1 .. k - 1 : ~(PyHandlers[j].class \in Ancestors(x))
<1>1. DOMAIN PyHandlers = 1 .. 12
  BY DEF PyHandlers
<1>2. PyHandlers[i].class \in Ancestors(x) /\ Ancestors(x) \subseteq S
  BY AncestorsWithin
<1>3. first(i)
  BY <1>2
<1>4. \A k \in DOMAIN PyHandlers : first(k) => k = i
  BY <1>1, <1>2, <1>3
<1>5. i = CHOOSE k \in DOMAIN PyHandlers : first(k)
  <2>. HIDE DEF first
  <2>. QED  BY <1>1, <1>3, <1>4
<1>. QED  BY <1>5 DEF PyType, Translate

(* What constructors throw, and what Python programs get.                  *)
Thrown ==
  {"BackendUnavailableError", "invalid_argument", "out_of_range", "runtime_error",
   "StoreException"}

LEMMA PyTypes ==
  /\ PyType("BackendUnavailableError") = "BackendUnavailableError"
  /\ PyType("invalid_argument")        = "ValueError"
  /\ PyType("out_of_range")            = "IndexError"
  /\ PyType("runtime_error")           = "RuntimeError"
  /\ PyType("StoreException")          = "RuntimeError"
<1>1. PyType("BackendUnavailableError") = "BackendUnavailableError"
  <2>. DEFINE S == {"BackendUnavailableError", "Error", "runtime_error", "exception"}
  <2>1. "BackendUnavailableError" \in S /\ \A y \in S : Base[y] \in S
    BY DEF Base
  <2>2. /\ PyHandlers[7].class = "BackendUnavailableError" /\ PyHandlers[7].as = "BackendUnavailableError"
        /\ \A j \in 1 .. 7 - 1 : PyHandlers[j].class \notin S
    BY DEF PyHandlers, Handler
  <2>. HIDE DEF S
  <2>. QED  BY <2>1, <2>2, PyTypeOf
<1>2. PyType("invalid_argument") = "ValueError"
  <2>. DEFINE S == {"invalid_argument", "exception"}
  <2>1. "invalid_argument" \in S /\ \A y \in S : Base[y] \in S
    BY DEF Base
  <2>2. /\ PyHandlers[9].class = "invalid_argument" /\ PyHandlers[9].as = "ValueError"
        /\ \A j \in 1 .. 9 - 1 : PyHandlers[j].class \notin S
    BY DEF PyHandlers, Handler
  <2>. HIDE DEF S
  <2>. QED  BY <2>1, <2>2, PyTypeOf
<1>3. PyType("out_of_range") = "IndexError"
  <2>. DEFINE S == {"out_of_range", "exception"}
  <2>1. "out_of_range" \in S /\ \A y \in S : Base[y] \in S
    BY DEF Base
  <2>2. /\ PyHandlers[10].class = "out_of_range" /\ PyHandlers[10].as = "IndexError"
        /\ \A j \in 1 .. 10 - 1 : PyHandlers[j].class \notin S
    BY DEF PyHandlers, Handler
  <2>. HIDE DEF S
  <2>. QED  BY <2>1, <2>2, PyTypeOf
<1>4. PyType("runtime_error") = "RuntimeError"
  <2>. DEFINE S == {"runtime_error", "exception"}
  <2>1. "runtime_error" \in S /\ \A y \in S : Base[y] \in S
    BY DEF Base
  <2>2. /\ PyHandlers[12].class = Base["runtime_error"] /\ PyHandlers[12].as = "RuntimeError"
        /\ \A j \in 1 .. 12 - 1 : PyHandlers[j].class \notin S
    BY DEF PyHandlers, Handler, Base
  <2>. HIDE DEF S
  <2>. QED  BY <2>1, <2>2, PyTypeOf
<1>5. PyType("StoreException") = "RuntimeError"
  <2>. DEFINE S == {"StoreException", "exception"}
  <2>1. "StoreException" \in S /\ \A y \in S : Base[y] \in S
    BY DEF Base
  <2>2. /\ PyHandlers[12].class = Base["StoreException"] /\ PyHandlers[12].as = "RuntimeError"
        /\ \A j \in 1 .. 12 - 1 : PyHandlers[j].class \notin S
    BY DEF PyHandlers, Handler, Base
  <2>. HIDE DEF S
  <2>. QED  BY <2>1, <2>2, PyTypeOf
<1>. QED  BY <1>1, <1>2, <1>3, <1>4, <1>5

(* A step that gives one slot another client, and the store the matching   *)
(* attachment, preserves the invariant.                                    *)
LEMMA SlotStep ==
  ASSUME Inv, ~aborted, NEW s \in Slots, NEW d \in Clients,
         client' = [client EXCEPT ![s] = d], built' = built, env' = env, aborted' \in BOOLEAN,
         attached' = IF d.phase \in {"attached", "open"}
                     THEN attached \cup {s} ELSE attached \ {s},
         Good(d)
  PROVE  Inv'
<1>. USE DEF Inv
<1>1. /\ client \in [Slots -> Clients] /\ client' \in [Slots -> Clients]
      /\ \A r \in Slots : client'[r] = IF r = s THEN d ELSE client[r]
  BY DEF TypeOK
<1>2. TypeOK'
  BY <1>1 DEF TypeOK
<1>3. NoLeaks'
  BY <1>1 DEF TypeOK, NoLeaks
<1>4. \A r \in Slots : Good(client'[r])
  BY <1>1
<1>. QED  BY <1>2, <1>3, <1>4 DEF Good, Named

(* A constructor that throws, in a slot that is attached no more. *)
LEMMA FailedStep ==
  ASSUME Inv, ~aborted, NEW s \in Slots, NEW c \in Clients, NEW x \in Thrown,
         c.backend \notin built => x = "BackendUnavailableError",
         Failed(s, c, x), built' = built, env' = env, attached' = attached \ {s}
  PROVE  Inv'
<1>. DEFINE told == IF c.lang = "python" THEN PyType(x) ELSE x
            d == [c EXCEPT !.phase = "failed", !.thrown = x, !.error = told]
<1>0. x \in Classes
  BY DEF Thrown, Classes, Base
<1>1. told \in Outcomes
  BY <1>0 DEF Outcomes
<1>2. /\ d \in Clients /\ d.phase = "failed" /\ d.thrown = x
      /\ d.backend = c.backend
      /\ d.lang = "python" => d.error = PyType(x)
  <2>1. c.lang = "python" => told = PyType(x)
    OBVIOUS
  <2>. HIDE DEF told
  <2>2. d \in Clients
    BY <1>0, <1>1 DEF Clients
  <2>3. d.phase = "failed" /\ d.thrown = x /\ d.error = told
    BY DEF Clients
  <2>4. d.backend = c.backend /\ d.lang = c.lang
    BY DEF Clients
  <2>. QED  BY <2>1, <2>2, <2>3, <2>4
<1>3. client' = [client EXCEPT ![s] = d] /\ aborted' \in BOOLEAN
  BY DEF Failed
<1>. HIDE DEF d
<1>4. Good(d)
  BY <1>2, PyTypes DEF Good, Named, Thrown
<1>. QED  BY <1>2, <1>3, <1>4, SlotStep

(* A Python constructor that refuses its arguments. *)
LEMMA RefusedStep ==
  ASSUME Inv, ~aborted, NEW s \in Slots, NEW c \in Clients,
         NEW type \in {"ValueError", "OverflowError"},
         c.thrown = "none", Refused(s, c, type), built' = built, env' = env, attached' = attached \ {s}
  PROVE  Inv'
<1>. DEFINE d == [c EXCEPT !.phase = "failed", !.error = type]
<1>0. type \in Outcomes
  BY DEF Outcomes
<1>1. d \in Clients /\ d.phase = "failed" /\ d.thrown = "none" /\ d.error = type
  BY <1>0 DEF Clients
<1>2. client' = [client EXCEPT ![s] = d] /\ aborted' \in BOOLEAN
  BY DEF Refused, Inv, TypeOK
<1>. HIDE DEF d
<1>3. Good(d)
  BY <1>1 DEF Good, Named
<1>. QED  BY <1>1, <1>2, <1>3, SlotStep

(* A constructor that begins, with a timeout that a Python program may use.*)
LEMMA ConstructStep ==
  ASSUME Inv, NEW s \in Slots, Free(s), NEW c \in Clients,
         Construct(s, c), built' = built, env' = env, attached' = attached,
         c.lang = "python" /\ c.backend = "dragon" /\ c.backend \in built =>
           /\ c.timeout \in 0 .. UIntLimit - 1
           /\ c.from = "arguments" => c.timeout = c.asked
  PROVE  Inv'
<1>1. ~aborted /\ attached' = attached \ {s}
  BY DEF Inv, NoLeaks, Free
<1>2. CASE c.backend \notin built
  <2>1. "BackendUnavailableError" \in Thrown
    BY DEF Thrown
  <2>. QED  BY <1>1, <1>2, <2>1, FailedStep DEF Construct
<1>3. CASE c.backend \in built
  <2>. DEFINE d == [c EXCEPT !.phase = "attaching"]
  <2>1. /\ d \in Clients /\ d.phase = "attaching" /\ d.lang = c.lang
        /\ d.backend = c.backend /\ d.timeout = c.timeout
        /\ d.from = c.from /\ d.asked = c.asked
    BY DEF Clients
  <2>2. client' = [client EXCEPT ![s] = d] /\ aborted' \in BOOLEAN
    BY <1>3 DEF Construct, Inv, TypeOK
  <2>. HIDE DEF d
  <2>3. Good(d)
    BY <1>3, <2>1 DEF Good, Named
  <2>. QED  BY <1>1, <2>1, <2>2, <2>3, SlotStep
<1>. QED  BY <1>2, <1>3

-----------------------------------------------------------------------------
LEMMA NoClientIsAClient == NoClient \in Clients
BY DEF NoClient, Clients, Outcomes

LEMMA InitGood == Init => Inv
<1>. SUFFICES ASSUME Init PROVE Inv
  OBVIOUS
<1>1. \A s \in Slots : client[s] = NoClient
  BY DEF Init
<1>2. TypeOK
  BY NoClientIsAClient DEF Init, TypeOK
<1>3. NoLeaks
  BY <1>1 DEF Init, NoLeaks, NoClient
<1>4. \A s \in Slots : Good(client[s])
  BY <1>1 DEF Good, Named, NoClient
<1>. QED  BY <1>2, <1>3, <1>4 DEF Inv

LEMMA FromEnvironmentGood ==
  ASSUME Inv, NEW s \in Slots, NEW lang \in {"c++", "c", "python"},
         NEW backend \in {"dragon", "smartredis"}, FromEnvironment(s, lang, backend),
         built' = built
  PROVE  Inv'
<1>. DEFINE c == [NoClient EXCEPT !.lang = lang, !.backend = backend,
                                  !.from = "environment", !.store = env.store]
            t == [c EXCEPT !.timeout = DragonTimeout, !.asked = env.timeout]
            x == EnvironmentError(backend)
            k == IF backend # "dragon" \/ x # "none" THEN c ELSE t
<1>1. /\ env.store \in Descriptors \cup {Unset}
      /\ env.timeout \in Numbers \cup {Unset, Garbage}
  BY ConfigurationAssumption DEF Inv, TypeOK
<1>2. x \in {"none", "invalid_argument", "out_of_range"}
  BY DEF EnvironmentError, NumberError
<1>3. c \in Clients /\ c.backend = backend /\ c.from = "environment"
  BY <1>1, NoClientIsAClient DEF Clients, NoClient
<1>4. ~aborted /\ env' = env /\ attached' = attached \ {s} /\ attached' = attached
  BY DEF FromEnvironment, Free, Inv, NoLeaks
<1>5. CASE backend \in built /\ x # "none"
  <2>1. Failed(s, c, x)
    BY <1>5 DEF FromEnvironment
  <2>2. x \in Thrown
    BY <1>2, <1>5 DEF Thrown
  <2>. HIDE DEF c, x
  <2>. QED  BY <1>3, <1>5, <1>4, <2>1, <2>2, FailedStep
<1>6. CASE ~(backend \in built /\ x # "none")
  <2>1. Construct(s, k) /\ Free(s)
    BY <1>6 DEF FromEnvironment
  <2>2. x = "none" => env.timeout \in Numbers \cup {Unset}
    BY <1>1 DEF EnvironmentError, NumberError
  <2>3. x = "none" => DragonTimeout \in 0 .. UIntLimit - 1
    <3>1. DefaultTimeout \in 0 .. UIntLimit - 1
      BY ConfigurationAssumption DEF UIntLimit
    <3>2. env.timeout \in Numbers => Stoul(env.timeout) \in 0 .. UIntLimit - 1
      BY StoulRange, ConfigurationAssumption
    <3>. QED  BY <2>2, <3>1, <3>2 DEF DragonTimeout
  <2>4. /\ k \in Clients /\ k.backend = backend /\ k.from = "environment"
        /\ x = "none" /\ backend = "dragon" => k.timeout = DragonTimeout
    <3>. HIDE DEF x
    <3>1. CASE backend # "dragon" \/ x # "none"
      BY <1>3, <3>1
    <3>2. CASE backend = "dragon" /\ x = "none"
      <4>1. DragonTimeout \in Int /\ env.timeout \in Int \cup {Unset}
        <5>1. DragonTimeout \in 0 .. UIntLimit - 1
          BY <2>3, <3>2
        <5>2. DragonTimeout \in Int
          BY <5>1
        <5>3. env.timeout \in Int \cup {Unset}
          BY <2>2, <3>2, ConfigurationAssumption
        <5>. QED  BY <5>2, <5>3
      <4>2. k = t
        BY <3>2
      <4>. HIDE DEF c, k
      <4>3. t \in Clients /\ t.backend = c.backend /\ t.from = c.from /\ t.timeout = DragonTimeout
        BY <1>3, <4>1 DEF Clients
      <4>. QED  BY <1>3, <4>2, <4>3
    <3>. QED  BY <3>1, <3>2
  <2>. HIDE DEF c, t, k, x
  <2>. QED  BY <1>4, <1>6, <2>1, <2>3, <2>4, ConstructStep
<1>. QED  BY <1>5, <1>6

LEMMA FromArgumentsGood ==
  ASSUME Inv, NEW s \in Slots, NEW store \in Descriptors, NEW n \in Numbers,
         FromArguments(s, store, n),
         built' = built
  PROVE  Inv'
<1>. DEFINE c == [NoClient EXCEPT !.from = "arguments", !.store = store,
                                  !.timeout = n, !.asked = n]
<1>1. c \in Clients /\ c.lang = "c++"
  BY NoClientIsAClient, ConfigurationAssumption DEF Clients, NoClient
<1>2. Free(s) /\ Construct(s, c) /\ env' = env /\ attached' = attached
  BY DEF FromArguments
<1>. HIDE DEF c
<1>. QED  BY <1>1, <1>2, ConstructStep

LEMMA FromPythonArgumentsGood ==
  ASSUME Inv, NEW s \in Slots, NEW store \in Descriptors \cup {Unset, Empty},
         NEW n \in Numbers \cup {Unset}, FromPythonArguments(s, store, n),
         built' = built
  PROVE  Inv'
<1>. DEFINE c == [NoClient EXCEPT !.lang = "python", !.from = "arguments",
                    !.store = store, !.timeout = n, !.asked = n]
<1>1. c \in Clients /\ c.timeout = n /\ c.asked = n /\ c.thrown = "none"
  BY NoClientIsAClient, ConfigurationAssumption DEF Clients, NoClient
<1>2. Free(s) /\ ~aborted /\ env' = env /\ attached' = attached /\ attached' = attached \ {s}
  BY DEF FromPythonArguments, Free, Inv, NoLeaks
<1>3. \/ Refused(s, c, "ValueError")
      \/ Refused(s, c, "OverflowError")
      \/ Construct(s, c) /\ n \in Numbers /\ FitsInt(n) /\ ~(n < 0)
  BY DEF FromPythonArguments
<1>4. FitsInt(n) /\ ~(n < 0) => n \in 0 .. UIntLimit - 1
  BY ConfigurationAssumption DEF FitsInt, UIntLimit
<1>. HIDE DEF c
<1>. QED  BY <1>1, <1>2, <1>3, <1>4, RefusedStep, ConstructStep

LEMMA FromLoggerNameGood ==
  ASSUME Inv, NEW s \in Slots, NEW lang \in {"c++", "python"}, FromLoggerName(s, lang),
         built' = built
  PROVE  Inv'
<1>. DEFINE c == [NoClient EXCEPT !.lang = lang, !.backend = "smartredis",
                                  !.from = "logger name", !.store = env.ssdb]
<1>1. env.ssdb \in Descriptors \cup {Unset}
  BY ConfigurationAssumption DEF Inv, TypeOK
<1>2. c \in Clients /\ c.backend = "smartredis"
  BY <1>1, NoClientIsAClient DEF Clients, NoClient
<1>3. Free(s) /\ Construct(s, c) /\ env' = env /\ attached' = attached
  BY DEF FromLoggerName
<1>. HIDE DEF c
<1>. QED  BY <1>2, <1>3, ConstructStep

LEMMA AttachGood ==
  ASSUME Inv, NEW s \in Slots, Attach(s),
         built' = built
  PROVE  Inv'
<1>. DEFINE c == client[s]
            d == [c EXCEPT !.phase = IF c.backend = "dragon" THEN "attached" ELSE "open"]
<1>1. c \in Clients /\ Good(c) /\ c.phase = "attaching" /\ ~aborted /\ env' = env
  BY DEF Attach, Inv, TypeOK
<1>2. \/ /\ attached' = attached \cup {s} /\ aborted' = aborted
         /\ client' = [client EXCEPT ![s] = d]
      \/ Failed(s, c, "StoreException") /\ attached' = attached
  BY DEF Attach
<1>3. /\ d \in Clients /\ d.phase \in {"attached", "open"}
      /\ d.backend = "dragon" => d.phase = "attached"
      /\ d.lang = c.lang /\ d.backend = c.backend /\ d.timeout = c.timeout
      /\ d.from = c.from /\ d.asked = c.asked
  BY <1>1 DEF Clients
<1>4. attached = attached \ {s} /\ aborted \in BOOLEAN
  BY <1>1 DEF Inv, NoLeaks, TypeOK
<1>5. "StoreException" \in Thrown /\ c.backend \in built
  BY <1>1 DEF Thrown, Good
<1>. HIDE DEF c, d
<1>6. Good(d)
  BY <1>1, <1>3 DEF Good, Named
<1>. QED  BY <1>1, <1>2, <1>3, <1>4, <1>5, <1>6, SlotStep, FailedStep

LEMMA ValidateGood ==
  ASSUME Inv, NEW s \in Slots, Validate(s),
         built' = built
  PROVE  Inv'
<1>. DEFINE c == client[s]
            d == [c EXCEPT !.phase = "open"]
<1>1. c \in Clients /\ Good(c) /\ c.phase = "attached" /\ ~aborted /\ env' = env
  BY DEF Validate, Inv, TypeOK
<1>2. \/ /\ Kind[c.store] = "waits" /\ attached' = attached /\ aborted' = aborted
         /\ client' = [client EXCEPT ![s] = d]
      \/ \E x \in {"runtime_error", "StoreException"} :
           Failed(s, c, x) /\ attached' = attached \ {s}
  BY DEF Validate
<1>3. /\ d \in Clients /\ d.phase = "open" /\ d.store = c.store
      /\ d.lang = c.lang /\ d.backend = c.backend /\ d.timeout = c.timeout
      /\ d.from = c.from /\ d.asked = c.asked
  BY <1>1 DEF Clients
<1>4. attached = attached \cup {s} /\ aborted \in BOOLEAN
  BY <1>1 DEF Inv, NoLeaks, TypeOK
<1>5. {"runtime_error", "StoreException"} \subseteq Thrown /\ c.backend \in built
  BY <1>1 DEF Thrown, Good
<1>. HIDE DEF c, d
<1>6. Kind[c.store] = "waits" => Good(d)
  BY <1>1, <1>3 DEF Good, Named
<1>. QED  BY <1>1, <1>2, <1>3, <1>4, <1>5, <1>6, SlotStep, FailedStep

LEMMA DestroyGood ==
  ASSUME Inv, NEW s \in Slots, Destroy(s),
         built' = built
  PROVE  Inv'
<1>1. NoClient.phase = "none" /\ Good(NoClient)
  BY DEF NoClient, Good, Named
<1>. QED  BY <1>1, NoClientIsAClient, SlotStep DEF Destroy, Inv, TypeOK

LEMMA StepGood ==
  ASSUME Inv, NEW s \in Slots, Step(s), built' = built
  PROVE  Inv'
<1>1. ASSUME NEW lang \in {"c++", "c", "python"}, NEW backend \in {"dragon", "smartredis"},
             FromEnvironment(s, lang, backend)
      PROVE  Inv'
  BY <1>1, FromEnvironmentGood
<1>2. ASSUME NEW store \in Descriptors, NEW n \in Numbers, FromArguments(s, store, n)
      PROVE  Inv'
  BY <1>2, FromArgumentsGood
<1>3. ASSUME NEW store \in Descriptors \cup {Unset, Empty}, NEW n \in Numbers \cup {Unset},
             FromPythonArguments(s, store, n)
      PROVE  Inv'
  BY <1>3, FromPythonArgumentsGood
<1>4. ASSUME NEW lang \in {"c++", "python"}, FromLoggerName(s, lang) PROVE Inv'
  BY <1>4, FromLoggerNameGood
<1>5. CASE Attach(s) \/ Validate(s) \/ Destroy(s)
  BY <1>5, AttachGood, ValidateGood, DestroyGood
<1>. QED  BY <1>1, <1>2, <1>3, <1>4, <1>5 DEF Step

LEMMA NextGood == Inv /\ [Next]_vars => Inv'
<1>. SUFFICES ASSUME Inv, [Next]_vars PROVE Inv'
  OBVIOUS
<1>1. CASE UNCHANGED vars
  BY <1>1 DEF vars, Inv, TypeOK, NoLeaks, Good, Named
<1>2. ASSUME NEW e \in Environments, SetEnvironment(e), built' = built PROVE Inv'
  BY <1>2 DEF SetEnvironment, Inv, TypeOK, NoLeaks, Good, Named
<1>3. ASSUME NEW s \in Slots, Step(s), built' = built PROVE Inv'
  BY <1>3, StepGood
<1>. QED  BY <1>1, <1>2, <1>3 DEF Next

LEMMA InvHolds == Spec => []Inv
<1>. QED  BY InitGood, NextGood, PTL DEF Spec

(* Slots hold clients and the store counts slots.                          *)
THEOREM TypeCorrect == Spec => []TypeOK
<1>1. Inv => TypeOK
  BY DEF Inv
<1>. QED  BY <1>1, InvHolds, PTL

(* A constructor that throws, in whatever language and after whatever step,*)
(* leaves the store with exactly the clients that the process has.         *)
THEOREM ConstructorsDoNotLeak == Spec => []NoLeaks
<1>1. Inv => NoLeaks
  BY DEF Inv
<1>. QED  BY <1>1, InvHolds, PTL

(* No program gets hold of a Dragon client whose DDict does not wait for   *)
(* keys.                                                                   *)
THEOREM ClientsWaitForKeys == Spec => []OnlyWaitingStores
<1>1. Inv => OnlyWaitingStores
  BY DEF Inv, Good, Open, OnlyWaitingStores
<1>. QED  BY <1>1, InvHolds, PTL

(* A Python program never attaches with a negative timeout, nor with       *)
(* another than it asked for.                                              *)
THEOREM PythonTimeoutsAreUsable == Spec => []TimeoutsAreUsable
<1>1. Inv => TimeoutsAreUsable
  BY DEF Inv, Good, TimeoutsAreUsable
<1>. QED  BY <1>1, InvHolds, PTL

(* A Python program that cannot have a client is told why.                 *)
THEOREM PythonErrorsTellTheCause == Spec => []PythonNamesTheCause
<1>1. Inv => PythonNamesTheCause
  BY DEF Inv, Good, Named, PythonNamesTheCause
<1>. QED  BY <1>1, InvHolds, PTL
=============================================================================
