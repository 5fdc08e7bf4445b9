# RaDex in TLA+

RaDex exchanges typed items (scalars, tensors, pickled Python objects) between
the processes of a workflow through a key-value store: a Dragon distributed
dictionary (DDict) or Redis. C++, C and Python programs use it. This directory
holds TLA+ models of it, the TLC runs that check them on small instances, and
theorems about them that TLAPS proves for all instances.

Paths below are relative to the repository.

## 1. Inventory

| component | source | state | operations |
|---|---|---|---|
| `IClient`, the exchange layer | `include/radex/client_base.hpp`, `src/cpp/client.cpp` | none of its own; a call holds the bytes it has fetched | `put_scalar`, `put_tensor`, `get_*`, `wait_for_*`, `delete_item`, `get_item_info_ptr`, `wait_for_item_info_ptr`, `wait_for_bytes` |
| Dragon backend | `src/cpp/dragon.cpp` | the DDict (shared), a warn-once flag | `contains`, `put_bytes`, `get_bytes`, `wait_for_bytes`, `delete_key`, construction from arguments or environment |
| SmartRedis backend | `src/cpp/smartredis.cpp` | the Redis database (shared) | the same |
| in-memory client | `tests/cpp/test_c_interface.cpp`, `tests/cpp/test_local_client.cpp`, `example/cpp-exchange/in-mem` | a map | the same, with `insert` |
| unsupported backend | `client_base.hpp:193` | none | its constructor throws |
| metadata record | `src/cpp/metadata.cpp` | an array of `size_t`: dtype, rank, dimensions | `make_buffer`, `from_buffer`, `n_elements` |
| handles | `src/cpp/handles.cpp` | a name | `key`, `metadata_key`, creation and destruction through C |
| C interface | `src/cpp/client_c.cpp`, `include/radex/macros` | opaque pointers | one function per operation and element type; exceptions become codes |
| Python clients | `src/python/src/radex` | an owned `IClient` | the typed operations over numbers and arrays, `put_picklable`, `get_picklable`, `wait_for_picklable` |
| small examples | `example/cpp-exchange`, `example/py-cpp-exchange`, `example/rhapsody-exchange` | the items they exchange | producers, consumers, and drivers that start and join them |
| active-learning workflow | `example/active-learn` | iteration counters and results in the store | simulation (MPI), training, query and stop tasks |

How they interact. Everything goes through the store. A typed item lives under
two keys: the name of the handle (the raw bytes) and `metadata::` followed by
the name (dtype and dimensions). A put is two backend calls, metadata first. A
read is two backend calls, data first. `delete_item` is up to three. The
backend is atomic for one call only, and clients are processes, MPI ranks or
threads that do not know of each other, so all of these interleave.

What is hard:

- every typed operation is a sequence of backend calls that others see halfway,
  and that a failed call or a dying client leaves halfway;
- `contains` is asked before `get_bytes` in three places (the polling wait,
  Dragon's `get_bytes`, `delete_item`), and its answer may be stale;
- waits: deadlines, poll intervals, late replies; programs that sleep and wait
  for so long for one another;
- the element count is computed on both sides in different integer types;
- the two languages find the element type, the shape and the order of the elements
  of an item in different ways, and the key space is shared by kinds and names.

What makes the components correct: as long as the puts of a handle agree on its
type and shape, the operations together behave like an atomic store of whole
items; where they do not, a read pairs data with metadata that is no older; a wait
that can be answered is answered, and gives up neither early nor very late; what a
delete reports as deleted is gone; the buffers of a C program hold what one read
fetched; both sides agree on the number of elements; what was put last under a
name comes back to a reader of its kind, from and to either language.

The hazards of this code, each at its line, are the list `hazards` of
`PROJECT.json`; the properties below are aimed at them.

## 2. Modules

| module | what it is |
|---|---|
| `HandleKeys` | the two keys of a handle |
| `RadexTypes` | descriptors, items, calls, results; `Assemble` and `Unpickle`, what a reader makes of what it fetched |
| `ItemStore` | the promise: an atomic store of whole items, without metadata records |
| `ItemExchange` | the exchange layer over a backend, one action per backend call |
| `MCItemExchange` | its instances |
| `ItemHistory`, `MCItemHistory` | `ItemExchange` with a history of which put wrote what |
| `ItemExchangeProofs` | theorems about `ItemExchange` and `ItemHistory`, and that the exchange implements `ItemStore` |
| `PollingWait` | `IClient::wait_for_bytes` against a clock |
| `PollingWaitProofs` | theorems about it |
| `MetaData`, `MCMetaData` | the metadata record and the two element counts |
| `MetaDataProofs` | theorems about it |
| `Exceptions` | the exception classes, and the handlers that make codes and Python exceptions of them |
| `CInterface`, `MCCInterface` | what a C program has in its hands after each call |
| `CInterfaceProofs` | theorems about it |
| `PythonNumbers` | the dtype Python finds for a number |
| `Interop`, `MCInterop` | what Python and C++ programs read of what the others have put |
| `InteropProofs` | theorems about it, and about row-major order for any dimensions |
| `ClientLifecycle`, `MCClientLifecycle` | construction and destruction of clients in C++, C and Python |
| `ClientLifecycleProofs` | theorems about it |
| `Workflows` | the small examples: producers, consumers and drivers against a clock |
| `WorkflowsProofs` | theorems about it |
| `ActiveLearning` | the active-learning example: an MPI simulation and three tasks that meet in the store |
| `ActiveLearningProofs` | theorems about it |

`CInterface` and `ClientLifecycle` extend `Exceptions`. `CInterface` makes the backend
calls of `ItemExchange` one by one, over the two keys of one handle, and shares the
store with others who reshape and delete the item: the conditions under which the
exchange is atomic do not hold there, and it does not assume them. `ActiveLearning` and
`Workflows` do work on an atomic store of whole items, which is what `ItemExchange` is
proved to implement: their keys each have one writer at a time, which always puts the
same type and shape, and are never deleted. `RadexTypes` and `Interop` extend `HandleKeys`;
`Interop` and `Workflows` extend `PythonNumbers`; `ItemHistory` extends `ItemExchange`.

### ItemExchange

`store` is the backend: a value (or `None`) for every key. Under a data key it
holds an item, that is the bytes *together with the descriptor they were encoded
from*; the code does not store that descriptor there, and no action reads it
except to say, in properties, what the bytes really are (and `Unpickle`, because
`cloudpickle.loads` does fail on foreign bytes). Under a metadata key it holds a
descriptor. `call[c]` is the call of client `c`, `pc[c]` the backend call it makes
next, `buffer[c]` the bytes `get_item_info` holds in `buf` while it fetches the
metadata, `outcome[c]` what the last call returned or threw.

| action | code |
|---|---|
| `Begin` | the call, up to its first backend call (`Entry`) |
| `PutMetadata`, `PutData` | `put_scalar` / `put_tensor`, `client_base.hpp:76-80, 123-129`; `put_picklable` enters at `PutData` |
| `Poll`, `TimeOut` | one turn of the loop of `wait_for_bytes`, `client.cpp:30-41` |
| `Exists` | the `contains` of Dragon's `get_bytes`, `dragon.cpp:115` |
| `FetchData`, `FetchMetadata` | `get_item_info`, `client.cpp:48-49`, and the assembly of the result |
| `FetchMissing` | the backend is asked for an absent key |
| `DeleteData`, `CheckMetadata`, `DeleteMetadata` | `delete_item`, `client.cpp:70-72` |
| `Contains` | `contains` |
| `Interrupt` | a backend call fails, with or without its effect, or the client dies |

`Backend` selects the call sequences: `"smartredis"` polls in a wait and asks
for a key directly in a get; `"dragon"` lets the store block in a wait and asks
`contains` before a get; `"map"` is the in-memory client of the tests, whose
`insert` does not overwrite.

What the backends themselves do is external and modelled as the code uses it:
one call is atomic; SmartRedis raises an exception of its own for an absent key;
the DDict, opened with `wait_for_keys`, blocks on an absent key until the timeout
of its connection and then raises; deleting an absent key may raise. Those
exceptions are not radex errors: the model calls them `StoreKeyError`. A step that
blocks is simply not enabled (`FetchData` needs the key); that the store gives up
is `FetchMissing`.

Abstractions: payloads are model values, sleeping between polls is stuttering
(time is the subject of `PollingWait`), an effect that reaches the backend after
the client was told of a failure is not delayed any further.

### ItemHistory

When the puts of a handle differ in dtype or shape, a read may decode the data of one
put with the metadata of another (run `reshape`). What the code does guarantee then is
an order: `put` writes the metadata first and `get_item_info` fetches it last, so the
metadata a read decodes with is that of the put that wrote the data, or of a later one.
To say so, `ItemHistory` numbers the puts in the order of their first writes:
`ticket[c]` is the number of the put of client `c`, `written[key]` that of the put which
wrote what is under a key, `fetched[c]` that of the put whose data a reader holds, `puts`
how many there have been. These are history variables: no guard reads them except
the bound `MaxPuts`, and a step of `HNext` is one of `Next` (lemma `HistoryStep`).

### PollingWait

The loop of `wait_for_bytes`, `client.cpp:21-43`. `contains` is a request and
a reply: the store is looked at (`Contains`) at some instant before the reply is
handled (`Reply`), and replies and wake-ups take up to `Latency`. Others publish
and delete the key at any time. Time is a counter that `Tick` advances, never past
the moment the current step must be over. The clock stops when the wait has
returned.

### MetaData

One writer, one reader, one handle after another. `size_t` has `SizeLimit`
values, `int` goes from `-IntLimit` to `IntLimit - 1`. `Count` is the product of
the C `put_tensor`, `Read` one step of `std::accumulate` in `n_elements`, whose
accumulator is an `int` because it starts from the literal `1`. `product` is a
history variable with the exact products. `PutRaw` puts other bytes under the
metadata key: Python's `put_picklable` takes any name. Such bytes may announce a rank so
large that the length `from_buffer` expects wraps around a `size_t` and is the one the
record has. `n_elements` then reads on behind the words that are there: `DimsFound` lets
it find any word, and `AtEnd` lets the loop end where the address of its end, which wraps
too, says.

### Exceptions

`Base` is the class hierarchy of `exceptions.hpp` and of the standard exceptions
the code names. `StoreException` stands for what the backends throw themselves; it
derives from `std::exception` only. `CHandlers` and `PyHandlers` are
`RADEX_C_CATCH_EXCEPTIONS` and `raise_py_error` with their handlers in order, and
`Translate` picks the first that catches.

### CInterface

`store.bytes` and `store.meta` are what is under the two keys of one handle,
`store.backend` the kind of store, which is chosen initially. `pc` is the
backend call that the C function makes next, as in `ItemExchange`, `call` the function with
its arguments, `fetched` the bytes that a read holds while it asks for the metadata.

| action | code |
|---|---|
| `PutScalar`, `PutTensor`, `Read` | the C function up to its first backend call; `PutTensor` refuses a rank of 0 |
| `PutMetadata`, `PutData` | the two writes of a put, `client_base.hpp:76-80, 123-129` |
| `Poll`, `Exists`, `FetchBytes`, `FetchMissing` | the wait, Dragon's `contains`, `get_item_info`, `client.cpp:30-49` |
| `FetchMetadata` | the metadata, then `ReadError`, `CopyOut` or `Query` |
| `Contains`, `Fail` | `contains`; a backend call that fails, with or without its effect |
| `Others` | one backend call of another client: it writes or deletes one of the two keys |

Since the calls of others come between, the metadata a read ends up with may describe other
bytes than those it holds, and a put that fails at its second call leaves new metadata over
old data. `ReadError` is the exception of the C++ call (metadata, then rank, then dtype,
as `assemble_scalar` and `assemble_tensor` compare them; none compares the size of the
bytes), `CopyOut` the two checks and three writes of the C macro, `Query` the same function
with null buffers and large limits. `data`, `dims` and `rank` are the memory the program
lends to a read: its buffers have `DataSize` and `DimsSize` cells and lie in an `Area` with
room behind them, so that an overrun would show. The elements of an item are all equal, and
an `Element` taken from bytes that are of another type, too few or no elements at all is
`Garbage`. `held`, `whole` and `answers` are history variables: what the last read that
succeeded fetched, whether the item was whole when its bytes were fetched and nothing has
been written since, and what reads have been told since the last write. The int32, int64,
float32 and float64 instances are the same macro, with the type as a parameter. The number
that a scalar read gives back is the subject of `Interop`. `handle` is the program's pointer
variable and `live` what is allocated: typed calls need a handle (`Has`), `CreateHandle` may
run out of memory and `DestroyHandle` leaves the pointer dangling, as `delete` does.

### Interop

Calls come one after the other; the subject is what they leave in the store for
whom. `store` maps keys to listed elements, metadata records or pickled objects,
`given[n]` is a history variable with the item last put under a name, as its writer
knows it: a function from indices to elements. It is `None` when the item has been
disturbed by a call under a name that shares one of its keys, and when a tensor was put
with less data than its dimensions say (of too much, a reader takes the first elements).
An array has a start and strides in its memory
(`Elements`), `Ravel` is `tensor.ravel()`, `Reshape` is what a reader makes of flat
data, in either language; both go by `Position`, the place of an index in row-major
order. `Numbers` have a Python class: `PutNumber` is the coercion,
the dispatch on the NumPy class and the put. NumPy is not pinned: an int that does not fit
`np.int32` is refused by NumPy 2 and wrapped by NumPy 1, and `PutNumber` does either (what
is "put" is then the wrapped number). Nothing compares sizes: a read whose bytes are not
what the metadata says succeeds, with `Garbage` for each element that `Take` finds in bytes
of another kind, another dtype or behind the end, and `cloudpickle.loads` may make an object
of other bytes. Bytes that are no record may be refused by `from_buffer` or pass for one:
`Lookalikes` are the dtypes and dimensions they may be taken for.

### Workflows

An example is a function from processes to programs, and a program a sequence of
steps: `Put`, `Get`, `Wait`, `Sleep`, `Start`, `Join`, `Open` and `Close` of the
store, `Launch` for the time a process needs until its client is attached. `pc` is
the step a process is at, `age` the time it has slept or waited there, `late` for
how long it could have gone on. `Tick` advances both and never makes a process later
than `Delay` (or `StartUp`, for a launch). A failed step goes to the `finally` of the
program or ends it. `Deadline` is the timeout of a wait: Dragon ignores the ten
seconds the programs ask for and takes the five they attach with. Which example runs
is chosen initially.

### ClientLifecycle

`client[s]` is the client in a place of the program, with what its constructor has
read so far; `attached` is the store's side. `FromEnvironment`, `FromArguments`,
`FromPythonArguments` and `FromLoggerName` are the constructors up to the connection
(configuration, argument checks, the placeholder of a missing backend), `Attach` is
the construction of the member `ddict` or `client`, `Validate` is
`_validate_ddict`, `Destroy` the destructor by its three names. A C function that
fails sets `aborted`, after which the process does nothing. `Stoul` is
`std::stoul` and the cast behind it. That a Python constructor raises what its
`cdef void` helpers raise is Cython 3's rule.

### ActiveLearning

`example/active-learn/cpp-mpi-with-ddict`: `simulation.cpp` is `Rank`, one action
per store access, and `MPI_Barrier` is `Barrier`; the tasks of `driver.py` are
`StartTraining` to `Check`. `items` is the set of keys with samples, models, errors
and query points; `simCount`, `modelCount` and `mseCount` are the three counters
(the last is never read). `iteration[r]` and `current` are the local variables in
which a rank and a task keep what they made of a counter, `iter` is the iteration
the learner is in, which no task is told. `contains` and the `get` behind it are one
step, because nothing is deleted. A `get` of an absent key, which blocks until the
client's timeout and then throws, is the task `"failed"`. ROSE, which runs the tasks
one after the other and stops at `MAX_ITER` or a small error, is external; whether
an error is small is a free choice.

## 3. Runs

| run | what it shows |
|---|---|
| `exchange_smartredis` | three clients, one tensor handle, right and wrong reads, waits, deletes, failures and crashes: types, no data without metadata, complete deletes, and the exchange implements `ItemStore` |
| `exchange_dragon` | the same refinement for Dragon's call sequences, with a typed and a pickled handle that are also read as the other kind |
| `publish_dragon` | tensors and scalars put over one another, failing clients, fair scheduling: a wait for an item that is there is answered, and no read decodes data with metadata older than the data |
| `polling_wait` | a timeout is never reported before the deadline nor later than one interval and the delays after it, never against a key that had been there for longer than a reply takes; a key that stays is noticed within an interval; every wait ends |
| `metadata` | every shape of rank 1 to 3 and foreign records, some with ranks that wrap: a record is validated unless its length wraps, reader and writer agree on the number of elements while it fits an `int`, and the accumulator stays an `int` whatever is multiplied |
| `c_interface` | a handle is freed once and a failed create leaves nothing to free; buffers are written within their limits or not at all, and hold the dimensions and the elements that one read fetched, whatever others do between its two fetches; every radex error comes back as its own code; retrying with another dtype or shape converges |
| `interop` | numbers, arrays of any layout, vectors and pickled objects put over one another under colliding names: a read of the kind that was put last returns what was put, and requests for another shape or dtype are refused as mismatches |
| `workflows` | in all six small examples both sides agree on types; nobody times out, misses a key or finds no store unless another has crashed; all programs end, whoever crashes |
| `lifecycle` | constructors that overlap and throw halfway leave no attachment, and none hands out an unvalidated Dragon client or attaches with a timeout a Python program did not ask for; with a backend missing from the build too, the Python exception names the cause |
| `active_learning` | ranks that read, write and increase the same counter agree on the iteration, a counter announces complete iterations only, no task asks for a key that is not there, the summary is complete, and the workflow ends |

Runs that show a disagreement between the code and what the repository says of
it (`findings` in `PROJECT.json` quotes the lines):

| run | what it shows |
|---|---|
| `reshape` | a reader that overlaps an overwrite with another shape returns an item nobody put |
| `metadata_large` | element counts beyond `int` are read back wrong |

The modules state some more expectations that the code does not meet, at all or under
the conditions given. They are kept as definitions, each with the text it comes from;
TLC refutes each as the only `INVARIANT` or `PROPERTY` of the configuration named here.

| definition | configuration | what happens |
|---|---|---|
| `ItemExchange!WaitNeverMisses` | `exchange_smartredis` | a wait that overlaps a delete ends with a missing key, before its timeout |
| `ItemExchange!GetNeverBlocks` | `exchange_dragon`, `Calls <- RetireCalls` | a Dragon get that overlaps a delete makes its blocking call on an absent key, as every get of one did before the regression test |
| `Interop!KindsAreKeptApart` | `interop` | a pickle put over a typed item leaves the old metadata, and a typed read succeeds with the first bytes of the pickle; `get_picklable` of a typed item may succeed as well |
| `PollingWait!WaitsAtMostTimeout` | `polling_wait` | a wait takes up to one poll interval longer than its timeout |
| `CInterface!AbsentIsKeyNotFound` | `c_interface`, `Backends = {"smartredis"}`, `MayFail = FALSE` | a C get of an absent key returns `RADEX_ERR_UNKNOWN` |
| `CInterface!TimeoutIsReported` | `c_interface`, `Backends = {"dragon"}`, `MayFail = FALSE` | a C wait that times out in the DDict returns `RADEX_ERR_UNKNOWN` |
| `CInterface!ContainsErrorsAreNegative` | `c_interface` | a failed C `contains` returns a positive code, which reads as true |
| `ClientLifecycle!CreateReturns` | `lifecycle` | a C function that cannot create a client aborts instead of returning NULL |
| `ClientLifecycle!StoreNamesBackend` | `lifecycle`, `MayFail = FALSE` | `RADEX_STORE` holds a descriptor or an address, not the name of a backend |
| `ClientLifecycle!EnvironmentTimeoutIsUsed` | `lifecycle` | `RADEX_CONNECTION_TIMEOUT=-1` is a timeout of 136 years |

With `Backend = "map"`, `exchange_smartredis` refutes `Linearizable` and `publish_dragon`
refutes `MetadataIsNeverOlder`: the in-memory client of the tests does not overwrite
(`insert`, where `client_base.hpp:39` says "overwriting any existing value").

One more, noticed and not run: `tests/python/dragon/test_delete.py:13` asserts
that `meta::` keys are gone, while the code writes `metadata::`, so the assertion
holds whatever `delete_item` does.

### Conditions

`SerialDeletes`: no put and delete of the same handle at the same time. The code
does not enforce it. `delete_item` takes an `OutgoingHandle`, the producer's, and
the examples and tests delete what they have put; without it, a put that
overlaps a delete leaves data without metadata. Deletes may race deletes, and puts
puts.

`Homogeneous`: all puts of a handle write the same dtype and dimensions. Not
enforced either; `reshape` shows what happens otherwise, and `ItemHistory` what holds
nevertheless. Only `Linearizable` depends on it.

`Backend # "map"` (`MetadataNeverOlder`, `ExchangeIsLinearizable`): the client is Dragon's or
SmartRedis's, which overwrite.

Constants have assumptions (`ASSUME`), which TLC evaluates in every run. They say that
the library has element types, that `int` holds 1 and is at most as wide as `size_t`,
that the words of a record are those its bytes contain and at least two (`from_buffer`
reads the rank before it looks at the length; of shorter bytes that is undefined), that an array's elements lie within its memory, that items have
a supported dtype, that the dimensions bytes may be taken for are numbers, and that the
markers for "nothing" are not values.

### Bounds

Three clients are a writer, a second writer or a deleter, and a reader: a torn
read needs one reader and one writer, an orphaned descriptor two writers or a
writer and a crash, a racing delete two deleters and a reader. Two values tell an
overwrite from the original. One handle is enough where the property is about
one; two, of the two kinds, where kinds may be confused. Calls repeat without a
bound, so long sequences are covered, not only one call per client. Clients and
values are symmetric in the safety runs; the liveness run uses no symmetry.

`ItemHistory`: two puts (`MaxPuts`), the fewest that can be paired wrongly, of two
descriptors, by three clients that may all be reading or writing; the data tells the puts
apart by their descriptors, so one value is enough. With three puts and deletes,
for safety alone, and with `Backend = "smartredis"` TLC finds no violation either, and the
theorem has no bound.

`PollingWait`: timeouts of 0, of less than, a little more than and three times
the interval; an interval longer than the latency, which is 1. `MetaData`: a 4-bit
`int` and a 6-bit `size_t`, so that rank 3 overflows both, and dimensions 0, 1, 2,
3 and 8, which meet and cross each limit; foreign records of two to five words, with ranks
that match and do not, and the ranks 32 and 33, whose expected lengths wrap to those of
ranks 0 and 1.

`CInterface`: buffers for two elements and one dimension, and tensors that fit
both, exceed the one or exceed the other; two element types, so that "wrong for
every type" can be told from "wrong for this one"; records that cannot be decoded,
bytes without a record and bytes that are no elements. One value is enough, because bytes
that do not fit a record give `Garbage`, and one address, because the program has one
handle at a time. The run covers Dragon and SmartRedis; TLC finds no violation with
`Backends = {"map"}` either. `ClientLifecycle`: two places, since what two
constructors share is the environment, the process and the store; a DDict of each
sort, a Redis database and a name at which there is nothing; a 4-bit `unsigned int`
and a 6-bit `unsigned long`, with timeouts inside and beyond each. The environment
changes between any two steps. Deadlock is not checked there because an aborted
process stops.

`Interop`: two names, one of which is the metadata key of the other; numbers of every
class, inside and outside a 3-bit `int32`; arrays in row-major and column-major order,
reversed, without dimensions, without elements and of a dtype that is not supported;
vectors that fit their dimensions, are shorter, longer, empty and without dimensions;
bytes that may be taken for the record of a scalar, of a tensor and of an unknown dtype.

`Workflows`: a second has four ticks; a step is up to 0.75 s late and a process takes
up to 2 s to start. `MaxAge` is the longest wait. What breaks first is the Redis example,
whose driver sleeps 3 s for its database: with steps up to 1 s late, or a
database that needs up to 2.5 s, TLC finds a producer without a store.

`ActiveLearning`: three ranks, so that one can be at the barrier while two differ, and
three iterations: the first has no query points, the second is the first that has, and
the third follows one of its kind. The workflow stops when it is done, so deadlock is
not checked; `Terminates` says that it stops nowhere else.

### Fairness

`ItemExchange!FairSpec` has weak fairness on the progress of each client: the
operating system runs it and the backend answers, which is what a process that
makes blocking calls relies on. There is none on timeouts, on failures, or on the
application's next call. `HFairSpec` is the same with the history.
`PollingWait!FairSpec` has weak fairness on time and on the steps of the client, not on
other clients. `Workflows!FairSpec` has weak fairness on time and on the processes, which
`Tick` would wait for anyway. `ActiveLearning!FairSpec` has weak fairness on each rank (MPI
processes run), on the end of the job and on the Python tasks, which the learner awaits one
by one.

## 4. Proofs

`ItemExchangeProofs`, for any clients, handles, values, calls and backend:

- `TypeCorrect`: `Spec => []TypeOK`. Data keys hold items and metadata keys
  descriptors because no handle is itself a metadata key (`HandlesAssumption`);
  what a reader fetches depends on which key it asks for, hence the lemma
  `KeysApart`. The inductive invariant `IndTyped` adds what a client at each step is
  doing: the step belongs to its operation, and a full buffer means that it reads.
- `DataAlwaysHasMetadata` (assumes `SerialDeletes`). `DataHasMetadata` alone is not
  inductive: a put that has written its metadata must still find it when it
  writes the data. The strengthening `IndPairs` says so, and that no delete of the
  handle is under way then.
- `DeletesAreComplete` (assumes `SerialDeletes`): a delete beyond its first step
  finds no data, since no put of the handle runs.

Each is proved in the same way: the initial states satisfy the invariant, one
step per action preserves it, and the temporal step is left to PTL.

For Dragon and SmartRedis only (the in-memory client does not overwrite, see
section 3):

- `ExchangeIsLinearizable` (assumes `SerialDeletes` and `Homogeneous`):
  `Spec => Linearizable`, that is, `ItemExchange` implements `ItemStore` under the
  mapping `Abstract`. The items are what the data keys hold; the result of a call is
  decided (`Seen`) when a put writes its data, a delete removes it, or a read
  fetches it. One lemma per action shows which step of `ItemStore` it is, or that
  it is a stutter. The invariants above say why the later backend calls of a
  read or a delete cannot change its result: metadata that is there fits the data
  the reader holds (`MetadataFits`, from `IndRecorded`), and metadata that is not
  there means that the item has been deleted since (`MissingWasDeleted`, from
  `IndPairs`) or was pickled (`Reading`).
- `MetadataNeverOlder`, about `ItemHistory`, for any descriptors, with puts and deletes of
  one handle at any time: `HSpec => MetadataIsNeverOlder`. The property speaks of the end
  of a read. The invariant `IndHistory` follows the data instead, from the put that is about
  to write it, through the store, to the buffer of a reader (`InOrder`): in each of these
  places, metadata that is there is at least as young as the data, and has the data's
  descriptor if it has its number (`Fits`). It is preserved because metadata that is
  overwritten becomes younger and metadata that is deleted makes `Fits` vacuous; a put
  gets its number with the metadata, so that later metadata has a higher one.
  `Numbered` says that numbers are of puts that have written.

`PollingWaitProofs`, for any timeouts, poll interval and latency (and one
client, one key):

- `TimeoutsAreOnTime`, `TimeoutsAreHonest`, `KeysAreNoticed`. The three properties
  speak of the end of a wait. The invariant follows one turn of the loop instead:
  `Timing` bounds the clock by the step the client is at, and `Freshness` says how
  long a key can have been there given the client's last answer: no longer than a
  reply while the client holds a "no", one interval more after its sleep. The sum
  over a turn is the bound in the properties.
- `TypeCorrect`, from the same invariant.

`MetaDataProofs`, for shapes of any rank, any bytes that others put, any widths of
`int` and `size_t`:

- `CountsAgree`: as long as the exact product fits an `int`, reader and writer count
  alike. The two sides multiply in different types and at different times, and a product
  that fits may have had factors that do not: with a zero among the dimensions both may
  overflow before they meet it. `IndCounts` relates each count to the exact products so
  far (`product`, tied together by `Chain`): `Counted` and `Accumulated` say that a count
  is exact while the product is small, and zero once it is zero. `Origin` says whose
  record the reader has. `SizeStep` and `IntStep` are one multiplication on either side,
  `SmallProduct` the arithmetic under both.
- `RecordsChecked` and `TypeCorrect`, without a condition on the ranks of foreign records.
  The invariant `IndChecked` is `IndCounts`, the types and the property itself. `OwnRecord`
  and `RawRecord` are its two cases: the length of a record that `make_buffer` has made is
  the one expected; if the length of another is the one expected, the words are all there
  or the length has wrapped. Then the reader multiplies words behind the record, any words
  (`WordsAreFound`), and its accumulator is still an `int`.

`CInterfaceProofs`, for any shapes, buffers, addresses, element types and backend:

- `NothingIsOverrun`, `BuffersHoldOneRead`. The invariant `IndBuffers` adds where the call is
  (`ControlOK`): each backend call belongs to its function, a read holds bytes only
  between its fetches, and as long as `whole` holds, what it holds fits the metadata that
  is there. A read that is not refused has found a tensor (`TensorThere`), and
  copies as many cells as it compares with the limits (`CopyPreserves`). `Others` is one
  write at any point; nothing is assumed about what it writes.
  `ShapesAssumption` says that element counts are natural numbers.
- `HandlesStaySafe`: the conjuncts are inductive on their own.
- `CodesTellTheCause`. It rests on lemmas about the operators: `AncestorsWithin` lists
  the ancestors a class can have, from which `CCodeOf` computes the first handler of
  `RADEX_C_CATCH_EXCEPTIONS` that catches it. Each class has its code because no handler
  before its own names one of its ancestors.
- `RetriesMakeSense`. The answers of a program are given one after the other, so the
  property relates answers of different times. `IndRetries` ties each to the metadata
  instead: what a read has answered is what `store.meta` would answer still
  (`AnswersHold`), because any write to either key clears the history. Of one record,
  a wrong rank is wrong for every type, and a refused type is not the record's own
  (`Mismatches`).
- `TypeCorrect`, from `IndTypes`.

`InteropProofs`, for any names, numbers, arrays, vectors and objects:

- `RowMajorRoundTrip`: an array of any rank, any dimensions, start and strides is read
  back, element by element, from its elements in row-major order. This is an induction
  over the dimensions. The library's induction theorems take an operator, which the
  provers cannot instantiate, but `WFMin` takes sets only, and `LeastNumber`, `Induction`
  and `Recursion` are made from it: the first says that a non-empty set of numbers has a
  least one, the second is induction with a set for the predicate, the third that the
  recursive functions of this module satisfy their equations. With these,
  `BeforeWithin`, `BeforeInjective` and `BeforeOnto` make `Position` a bijection between
  the indices and the cells (`RowMajorPositions`); the step from one dimension to the
  next is division with remainder (`Division`).
- `ItemsComeBack`. The invariant `IndItems` says that the keys of every item that is known
  still hold the bytes of its put (`Kept`); a write disturbs another item only if it takes
  one of its keys, and then the item is no longer known (`WriteKeeps`). That a read of its
  kind makes the item of those bytes is `RowMajorRoundTrip`, and what other bytes may be
  taken for plays no part. What a read of the other kind returns is `Garbage`, about which
  nothing is claimed: see `KindsAreKeptApart`.
- `RequestsJudged`, from the same invariant.
- `TypeCorrect`: what a read returns has its elements at the indices of its dimensions.

`ClientLifecycleProofs`, for any slots, stores, environments, widths and build:

- `ConstructorsDoNotLeak`, `ClientsWaitForKeys`, `PythonTimeoutsAreUsable`. The
  invariant is `TypeOK`, `NoLeaks` and a condition on each client (`Good`). Every step
  gives one slot another client and the store the matching attachment, which is
  `SlotStep`; `FailedStep`, `RefusedStep` and `ConstructStep` are its instances for
  the three ways a constructor goes on, and each action is one of those.
  `StoulRange` is the arithmetic: both conversions end in an `unsigned int`.
- `PythonErrorsTellTheCause`. `Good` also says that a client that is under construction
  or open has a backend that is built, and that what a Python constructor raised is what
  `raise_py_error` makes of what was thrown (`Named`). As for the C codes,
  `AncestorsWithin` and `PyTypeOf` compute the handler that catches each class. (They
  are stated in both modules, each of which extends its own component.)
- `TypeCorrect`.

`ActiveLearningProofs`, for any ranks and any `MaxIter`:

- `CountersAnnounceWholeIterations`, `RanksWorkTogether`, `TasksFindTheirInput`,
  `SummariesAreComplete`. None of the four is inductive. The invariant ties the two
  counters to `iter` in every task, says what the finished iterations have left behind
  (`Complete`) and what the current one has so far, and `RankOK` carries the argument
  about the barrier: when rank 0 is past it, every rank has stored its samples and
  none has yet to read the counter.
- `TypeCorrect` needs the same invariant: that a counter, and with it the iteration of a
  sample, is at most `MaxIter` depends on the learner's `iter`.

`WorkflowsProofs`, for any length of a second, delays, start-up times and crashes (the
programs are the repository's own six):

- `ExamplesAgreeOnTypes`. First, without any state, that every program is made of
  `PlainSteps`: `Agreed` gives one item to each key, every put puts that one and every
  read asks for it, or for any dtype (`ExamplesAreWellFormed`). What Python numbers and
  arrays become on the way is computed by the definitions of `PythonNumbers`. The
  invariant then needs only `ItemsAgree`, that the store holds what is agreed.
- `TypeCorrect`. A process that is started must be at 0, where it has never been late:
  `NotYet` says so of every start that is still ahead of the driver, and holds because a
  driver starts each process once (`StartsOnce`) and never goes back.
- `FailuresAreExplained`, for processes that are fast enough. `FastEnough` is
  `StartUp + Delay < 3 * Second /\ Delay <= Second`: a process is up in less than the
  three seconds for which the Redis driver sleeps, and no step is later than a second.
  The invariant `Caused` says that somebody was killed, or that nobody has failed,
  the past explains the state (`History`: the effects of every step that a process is
  past still hold, every item was put by somebody) and the clocks are in time
  (`InTime`). A process that can go on then finds its store and its item
  (`InTimeFine`), one lemma for each example. Where joins order the processes `History`
  is enough. Where sleeps and waits do, `InTime` bounds the age of who sleeps or waits
  by the lateness of whoever it relies on. The hard one is the exchange between Python and
  C++: the driver sleeps five times before its first wait, and `AppFollows` bounds how
  long it has slept by the step the app is at (`Behind`), so that the app's last
  put comes within the five seconds that the wait lasts, and each next wait starts when
  the app is at most a nap away (`DriverWaits`). The hypothesis is not stronger than
  it needs to be: with `StartUp + Delay = 3 * Second`, or with `Delay` one tick longer
  than a second, TLC finds `FailuresHaveACause` violated without any crash, for
  seconds of one, two and four ticks.

Only model-checked: the liveness properties `WaitIsAnswered`, `WaitReturns`,
`EveryProgramEnds` and `Terminates`, because liveness under fairness is beyond TLAPS.
Every invariant of a passing run is a theorem.

## 5. Not modelled

Calls on destroyed or null C pointers, and what undefined behaviour does beyond giving
values (a read behind the end of the bytes ends with `Garbage` in `Interop` and `CInterface`
and with any words in `MetaData`, never with a crash); buffer ownership
(`BytesBuffer` and `ItemInfo`, single-threaded moves that no operation shares between
threads); build files, packaging and documentation. The DDict, Redis, SmartSim,
RHAPSODY and NumPy are not in the repository: they are modelled as the code uses them.
SmartRedis's own timeouts and its environment are known only by the variables the code
sets. `wait_for_*` in C++, C and Python converts its timeout between widths, which no
model follows. Python reads of tensors without elements and puts of them or of arrays
without dimensions raise (`ValueError`, `IndexError`); `Interop` has them as refusals.

## 6. Plan

The active-learning workflow with a learner that retries or goes on after a failed
task, over `ItemStore`.
