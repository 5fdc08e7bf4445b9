---------------------------- MODULE ClientLifecycle ----------------------------
(***************************************************************************)
(* Creation and destruction of clients in one process: from arguments or   *)
(* from an environment that changes meanwhile, in C++, C or Python, for a  *)
(* backend that may be missing from the build.                             *)
(*                                                                         *)
(* A constructor reads its configuration, attaches to the store, and in    *)
(* the case of Dragon validates what it has attached to; several           *)
(* constructors may be under way in the threads of the process.            *)
(***************************************************************************)
EXTENDS Exceptions

CONSTANTS
  Slots,          \* places of the program that hold a client
  Descriptors,    \* what RADEX_STORE may hold, the names of backends included
  Kind,           \* what there is at each: "waits", "returns" (DDicts with and
                  \* without wait_for_keys), "redis" or "nothing"
  Numbers,        \* timeouts a program or a user may write
  Environments,   \* the environments of the instance
  Builds,         \* the builds of the instance, each a set of backends
  MayFail,        \* attaching may fail, or the validation
  Unset,          \* no such variable, no such argument
  Garbage,        \* text that is not a number
  Empty,          \* the empty descriptor
  DefaultTimeout, \* RADEX_DEFAULT_CONNECTION_TIMEOUT_SECONDS
  IntLimit,       \* int has the values -IntLimit .. IntLimit - 1
  ULongLimit      \* unsigned long has the values 0 .. ULongLimit - 1

UIntLimit == 2 * IntLimit

ASSUME ConfigurationAssumption ==
  /\ Kind \in [Descriptors -> {"waits", "returns", "redis", "nothing"}]
  /\ Builds \subseteq SUBSET {"dragon", "smartredis"}
  /\ Numbers \subseteq Int
  /\ IntLimit \in Nat /\ DefaultTimeout \in 0 .. IntLimit - 1
  /\ ULongLimit \in Nat \ {0} /\ ULongLimit % UIntLimit = 0
  /\ Environments \subseteq [store : Descriptors \cup {Unset}, opts : BOOLEAN,
                             timeout : Numbers \cup {Unset, Garbage},
                             ssdb : Descriptors \cup {Unset}]

VARIABLES
  built,     \* the backends in the build, which does not change
  env,       \* the environment: RADEX_STORE, whether RADEX_STORE_OPTS is set,
             \* RADEX_CONNECTION_TIMEOUT and SmartRedis's own SSDB
  client,    \* the client of each slot
  attached,  \* the slots whose client the store counts as attached
  aborted    \* the process has called std::abort

vars == <<built, env, client, attached, aborted>>

(* asked is the timeout the caller or the user wrote, error what came out  *)
(* of the constructor and thrown the C++ exception behind it.              *)
NoClient ==
  [phase |-> "none", lang |-> "c++", backend |-> "dragon", from |-> "none",
   store |-> Unset, timeout |-> Unset, asked |-> Unset,
   thrown |-> "none", error |-> "none"]

-----------------------------------------------------------------------------
(* Configuration. *)

(* std::stoul accepts a minus sign and negates in the unsigned type, the   *)
(* cast to unsigned int drops the upper half.                              *)
Stoul(n) == (n % ULongLimit) % UIntLimit

(* std::stoul for Dragon, std::stoll for SmartRedis                        *)
OutOfRange(backend, n) ==
  IF backend = "dragon"
  THEN n >= ULongLimit \/ n <= -ULongLimit
  ELSE 2 * n >= ULongLimit \/ 2 * n < -ULongLimit

DragonTimeout ==
  IF env.timeout = Unset THEN DefaultTimeout ELSE Stoul(env.timeout)

NumberError(backend, text) ==
  IF text = Unset THEN "none"
  ELSE IF text = Garbage THEN "invalid_argument"
  ELSE IF OutOfRange(backend, text) THEN "out_of_range" ELSE "none"

(* _ddict_from_radex_env and _configOptions_from_radex_env, up to the      *)
(* connection                                                              *)
EnvironmentError(backend) ==
  IF env.store = Unset \/ (backend = "smartredis" /\ ~env.opts)
  THEN "invalid_argument"
  ELSE NumberError(backend, env.timeout)

-----------------------------------------------------------------------------
(* Outcomes of a constructor. *)

(* A C function that creates a client aborts the process, a C++ caller     *)
(* gets the exception and a Python caller its translation.                 *)
Failed(s, c, x) ==
  /\ client' = [client EXCEPT ![s] =
       [c EXCEPT !.phase = "failed", !.thrown = x,
          !.error = IF c.lang = "python" THEN PyType(x) ELSE x]]
  /\ aborted' = (c.lang = "c")

(* A Python constructor refuses its arguments. *)
Refused(s, c, type) ==
  /\ client' = [client EXCEPT ![s] = [c EXCEPT !.phase = "failed", !.error = type]]
  /\ UNCHANGED aborted

(* The C++ constructor of a backend: the placeholder of a backend that is  *)
(* not in the build throws.                                                *)
Construct(s, c) ==
  IF c.backend \notin built
  THEN Failed(s, c, "BackendUnavailableError")
  ELSE /\ client' = [client EXCEPT ![s] = [c EXCEPT !.phase = "attaching"]]
       /\ UNCHANGED aborted

-----------------------------------------------------------------------------
Init ==
  /\ built \in Builds
  /\ env \in Environments
  /\ client = [s \in Slots |-> NoClient]
  /\ attached = {}
  /\ aborted = FALSE

Free(s) == ~aborted /\ client[s].phase \in {"none", "failed"}

(* Client(), radex_client_*_create(), DragonClient() and RedisClient()     *)
FromEnvironment(s, lang, backend) ==
  /\ Free(s)
  /\ LET c == [NoClient EXCEPT !.lang = lang, !.backend = backend,
                               !.from = "environment", !.store = env.store]
         x == EnvironmentError(backend)
     IN  IF backend \in built /\ x # "none"
         THEN Failed(s, c, x)
         ELSE Construct(s, IF backend # "dragon" \/ x # "none" THEN c
                           ELSE [c EXCEPT !.timeout = DragonTimeout,
                                          !.asked = env.timeout])
  /\ UNCHANGED <<env, attached>>

(* drg::ddict::Client(descriptor, timeout): the timeout is the caller's.   *)
FromArguments(s, store, timeout) ==
  /\ Free(s)
  /\ Construct(s, [NoClient EXCEPT !.from = "arguments", !.store = store,
                                   !.timeout = timeout, !.asked = timeout])
  /\ UNCHANGED <<env, attached>>

FitsInt(n) == n \in -IntLimit .. IntLimit - 1

\* Mutation: a negative timeout is not refused.
FromPythonArgumentsNegative(s, store, timeout) ==
  /\ Free(s)
  /\ LET c == [NoClient EXCEPT !.lang = "python", !.from = "arguments",
                 !.store = store, !.timeout = timeout, !.asked = timeout]
     IN  IF store = Unset \/ timeout = Unset THEN Refused(s, c, "ValueError")
         ELSE IF ~FitsInt(timeout) THEN Refused(s, c, "OverflowError")
         ELSE IF store = Empty THEN Refused(s, c, "ValueError")
         ELSE Construct(s, c)
  /\ UNCHANGED <<env, attached>>

(* DragonClient(descriptor, timeout), one of which may be missing.  The    *)
(* timeout becomes an int before _init_from_args looks at it.              *)
FromPythonArguments(s, store, timeout) ==
  /\ Free(s)
  /\ LET c == [NoClient EXCEPT !.lang = "python", !.from = "arguments",
                 !.store = store, !.timeout = timeout, !.asked = timeout]
     IN  IF store = Unset \/ timeout = Unset THEN Refused(s, c, "ValueError")
         ELSE IF ~FitsInt(timeout) THEN Refused(s, c, "OverflowError")
         ELSE IF store = Empty \/ timeout < 0 THEN Refused(s, c, "ValueError")
         ELSE Construct(s, c)
  /\ UNCHANGED <<env, attached>>

\* Mutation: the name is taken for the address of the database.
FromLoggerNameAddress(s, lang) ==
  /\ Free(s)
  /\ Construct(s, [NoClient EXCEPT !.lang = lang, !.backend = "smartredis",
                                   !.from = "logger name", !.store = "radex-client"])
  /\ UNCHANGED <<env, attached>>

(* redis::smartredis::Client(logger_name): SmartRedis reads its own        *)
(* environment, and fails on its own if it is not set.                     *)
FromLoggerName(s, lang) ==
  /\ Free(s)
  /\ Construct(s, [NoClient EXCEPT !.lang = lang, !.backend = "smartredis",
                                   !.from = "logger name", !.store = env.ssdb])
  /\ UNCHANGED <<env, attached>>

(* What a backend can attach to. *)
Suits(c) ==
  /\ c.store \in Descriptors
  /\ Kind[c.store] \in IF c.backend = "dragon" THEN {"waits", "returns"} ELSE {"redis"}

(* The member ddict, or client, is constructed. *)
Attach(s) ==
  LET c == client[s] IN
  /\ ~aborted /\ c.phase = "attaching"
  /\ \/ /\ Suits(c)
        /\ attached' = attached \cup {s}
        /\ client' = [client EXCEPT ![s].phase =
             IF c.backend = "dragon" THEN "attached" ELSE "open"]
        /\ UNCHANGED aborted
     \/ /\ MayFail \/ ~Suits(c)
        /\ Failed(s, c, "StoreException")
        /\ UNCHANGED attached
  /\ UNCHANGED env

\* Mutation: the DDict outlives the constructor that threw.
ValidateLeaks(s) ==
  LET c == client[s] IN
  /\ ~aborted /\ c.phase = "attached"
  /\ \/ /\ Kind[c.store] = "waits"
        /\ client' = [client EXCEPT ![s].phase = "open"]
        /\ UNCHANGED <<attached, aborted>>
     \/ /\ Kind[c.store] = "returns"
        /\ Failed(s, c, "runtime_error")
        /\ UNCHANGED attached
     \/ /\ MayFail
        /\ Failed(s, c, "StoreException")
        /\ UNCHANGED attached
  /\ UNCHANGED env

\* Mutation: nothing is validated.
ValidateNot(s) ==
  LET c == client[s] IN
  /\ ~aborted /\ c.phase = "attached"
  /\ client' = [client EXCEPT ![s].phase = "open"]
  /\ UNCHANGED <<env, attached, aborted>>

(* _validate_ddict.  If it throws, the member ddict is destroyed.          *)
Validate(s) ==
  LET c == client[s] IN
  /\ ~aborted /\ c.phase = "attached"
  /\ \/ /\ Kind[c.store] = "waits"
        /\ client' = [client EXCEPT ![s].phase = "open"]
        /\ UNCHANGED <<attached, aborted>>
     \/ /\ Kind[c.store] = "returns"
        /\ Failed(s, c, "runtime_error")
        /\ attached' = attached \ {s}
     \/ /\ MayFail
        /\ Failed(s, c, "StoreException")
        /\ attached' = attached \ {s}
  /\ UNCHANGED env

(* radex_client_destroy, __dealloc__, the destructor                       *)
Destroy(s) ==
  /\ ~aborted /\ client[s].phase = "open"
  /\ client' = [client EXCEPT ![s] = NoClient]
  /\ attached' = attached \ {s}
  /\ UNCHANGED <<env, aborted>>

(* The program, or a test, changes the environment. *)
SetEnvironment(e) ==
  /\ ~aborted /\ e # env
  /\ env' = e
  /\ UNCHANGED <<client, attached, aborted>>

Step(s) ==
  \/ \E lang \in {"c++", "c", "python"}, backend \in {"dragon", "smartredis"} :
       FromEnvironment(s, lang, backend)
  \/ \E store \in Descriptors, n \in Numbers : FromArguments(s, store, n)
  \/ \E store \in Descriptors \cup {Unset, Empty}, n \in Numbers \cup {Unset} :
       /\ store # Unset \/ n # Unset
       /\ FromPythonArguments(s, store, n)
  \/ \E lang \in {"c++", "python"} : FromLoggerName(s, lang)
  \/ Attach(s) \/ Validate(s) \/ Destroy(s)

Next ==
  /\ \/ \E s \in Slots : Step(s)
     \/ \E e \in Environments : SetEnvironment(e)
  /\ UNCHANGED built

Spec == Init /\ [][Next]_vars

-----------------------------------------------------------------------------
(* Correctness. *)

Outcomes ==
  Classes \cup {PyType(x) : x \in Classes} \cup {"none", "ValueError", "OverflowError"}

Clients ==
  [phase   : {"none", "attaching", "attached", "open", "failed"},
   lang    : {"c++", "c", "python"},
   backend : {"dragon", "smartredis"},
   from    : {"none", "environment", "arguments", "logger name"},
   store   : Descriptors \cup {Unset, Empty},
   timeout : Int \cup {Unset},
   asked   : Int \cup {Unset},
   thrown  : Classes \cup {"none"},
   error   : Outcomes]

TypeOK ==
  /\ built \in Builds
  /\ env \in Environments
  /\ client \in [Slots -> Clients]
  /\ attached \subseteq Slots
  /\ aborted \in BOOLEAN

Open(s) == client[s].phase = "open"

(* The store counts exactly the clients that the process has, or is about  *)
(* to have: a constructor that throws after it has attached leaves no      *)
(* attachment behind.                                                      *)
NoLeaks == ~aborted => attached = {s \in Slots : client[s].phase \in {"attached", "open"}}

(* A client that blocks on absent keys is what the exchange layer relies   *)
(* on (ItemExchange): no program gets hold of a Dragon client without it,  *)
(* however it was created.                                                 *)
OnlyWaitingStores ==
  \A s \in Slots : Open(s) /\ client[s].backend = "dragon" => Kind[client[s].store] = "waits"

(* A Python program gets to use the timeout it asked for, and none that is *)
(* negative, wherever it came from ("ValueError: ... if timeout is         *)
(* negative", DragonClient).                                               *)
TimeoutsAreUsable ==
  \A s \in Slots :
    LET c == client[s] IN
    c.lang = "python" /\ c.backend = "dragon" /\ c.phase \in {"attaching", "attached", "open"} =>
      /\ c.timeout \in 0 .. UIntLimit - 1
      /\ c.from = "arguments" => c.timeout = c.asked

(* The Python exception names the cause of a failed construction: a backend*)
(* that is not built, a variable that is not set, a DDict without          *)
(* wait_for_keys (test_init_raises_if_wait_for_keys_is_disabled).          *)
PythonNamesTheCause ==
  \A s \in Slots :
    LET c == client[s] IN
    c.lang = "python" /\ c.phase = "failed" =>
      /\ c.backend \notin built => c.error \in {"BackendUnavailableError", "ValueError", "OverflowError"}
      /\ c.error = "BackendUnavailableError" <=> c.thrown = "BackendUnavailableError"
      /\ c.thrown = "invalid_argument" => c.error = "ValueError"
      /\ c.thrown = "runtime_error"    => c.error = "RuntimeError"

(* "Opaque pointer to a client, or NULL on error" (client_c.h): a program  *)
(* that asks for a client lives on.                                        *)
CreateReturns == ~aborted

(* "Environment variable naming which backend to use (e.g. dragon)"        *)
(* (constants.hpp): with stores running, the name is enough.               *)
StoreNamesBackend ==
  \A s \in Slots :
    LET c == client[s] IN
    c.from = "environment" /\ c.store = c.backend => c.phase # "failed"

(* "Environment variable overriding the default backend connection         *)
(* timeout" (constants.hpp): a Dragon client attaches with that timeout.   *)
EnvironmentTimeoutIsUsed ==
  \A s \in Slots :
    LET c == client[s] IN
    Open(s) /\ c.from = "environment" /\ c.asked # Unset => c.timeout = c.asked
=============================================================================
