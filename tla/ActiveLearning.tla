---------------------------- MODULE ActiveLearning ----------------------------
(***************************************************************************)
(* The active-learning example: an MPI simulation and three Python tasks   *)
(* hand samples, models and query points to each other under keys that     *)
(* carry the number of the iteration.  Nobody tells a task which iteration *)
(* it is in: it reads a counter from the store, which another task, or     *)
(* rank 0 of another launch of the simulation, has left there.             *)
(*                                                                         *)
(* The learner runs the tasks one after the other; the ranks of a          *)
(* simulation run concurrently.  Items are whole (see ItemExchange), and   *)
(* nothing is ever deleted.                                                *)
(***************************************************************************)
EXTENDS Integers

CONSTANTS
  Ranks,     \* N_MPI_RANKS ranks
  Root,      \* rank 0
  MaxIter,   \* MAX_ITER
  None       \* an absent counter

ASSUME RanksAssumption == Root \in Ranks
ASSUME MaxIterAssumption == MaxIter \in Nat \ {0}
ASSUME NoneAssumption == None \notin Int

VARIABLES
  items,      \* the keys of samples, models, errors and query points in the store
  simCount,   \* sim_meta_iter_count
  modelCount, \* model_iter_count
  mseCount,   \* mse_iter_count
  task,       \* the task that runs, "summary", "done", or "failed"
  iter,       \* the iteration of the learner
  pc,         \* the next step of each rank of the running simulation
  iteration,  \* what each rank takes for the iteration
  current,    \* what the running Python task takes for it
  step        \* the next step of the running Python task

store == <<items, simCount, modelCount, mseCount>>
mpi   == <<pc, iteration>>
py    == <<current, step>>
vars  == <<store, task, iter, mpi, py>>

Samples(r, i) == {<<"X", r, i>>, <<"y", r, i>>}
Query(i) == {<<"query", i>>}
Model(i) == {<<"model", i>>}
Mse(i)   == {<<"mse", i>>}

AllSamples(i) == UNION {Samples(r, i) : r \in Ranks}

(* contains, and get_scalar if so: counters are never deleted, so the two  *)
(* calls see what one would.                                               *)
Value(counter) == IF counter = None THEN 0 ELSE counter

-----------------------------------------------------------------------------
Init ==
  /\ items = {} /\ simCount = None /\ modelCount = None /\ mseCount = None
  /\ task = "simulation" /\ iter = 0
  /\ pc = [r \in Ranks |-> "start"] /\ iteration = [r \in Ranks |-> 0]
  /\ current = 0 /\ step = "start"

(* The learner starts the next task. *)
Follow(next) ==
  /\ task' = next
  /\ step' = "start"

-----------------------------------------------------------------------------
(* Simulation, rank r. *)

At(r, label) == task = "simulation" /\ pc[r] = label

Goto(r, label) == pc' = [pc EXCEPT ![r] = label]

\* Mutation: the first simulation is number 1.
ReadCountFromOne(r) ==
  /\ At(r, "start")
  /\ iteration' = [iteration EXCEPT ![r] = IF simCount = None THEN 1 ELSE simCount]
  /\ Goto(r, IF Value(simCount) > 0 THEN "query" ELSE "put X")
  /\ UNCHANGED <<store, task, iter, py>>

(* The rank finds out the iteration. *)
ReadCount(r) ==
  /\ At(r, "start")
  /\ iteration' = [iteration EXCEPT ![r] = Value(simCount)]
  /\ Goto(r, IF Value(simCount) > 0 THEN "query" ELSE "put X")
  /\ UNCHANGED <<store, task, iter, py>>

(* The points that the last iteration asks for; the program throws if      *)
(* there are none.                                                         *)
ReadQuery(r) ==
  /\ At(r, "query")
  /\ IF Query(iteration[r] - 1) \subseteq items
     THEN Goto(r, "put X") /\ UNCHANGED task
     ELSE task' = "failed" /\ UNCHANGED pc
  /\ UNCHANGED <<store, iter, iteration, py>>

PutX(r) ==
  /\ At(r, "put X")
  /\ items' = items \cup {<<"X", r, iteration[r]>>}
  /\ Goto(r, "put y")
  /\ UNCHANGED <<simCount, modelCount, mseCount, task, iter, iteration, py>>

PutY(r) ==
  /\ At(r, "put y")
  /\ items' = items \cup {<<"y", r, iteration[r]>>}
  /\ Goto(r, "barrier")
  /\ UNCHANGED <<simCount, modelCount, mseCount, task, iter, iteration, py>>

Leave(r) ==
  /\ Goto(r, IF r = Root THEN "count" ELSE "done")
  /\ UNCHANGED <<store, task, iter, iteration, py>>

\* Mutation: the ranks do not wait for each other.
NoBarrier(r) == At(r, "barrier") /\ Leave(r)

\* Mutation: only rank 0 calls MPI_Barrier.
RootBarrier(r) ==
  /\ At(r, "barrier")
  /\ r = Root => \A q \in Ranks : pc[q] = "barrier"
  /\ Leave(r)

(* MPI_Barrier *)
Barrier(r) ==
  /\ At(r, "barrier")
  /\ \A q \in Ranks : pc[q] \in {"barrier", "count", "done"}
  /\ Leave(r)

\* Mutation: the counter is increased, whatever the rank took it for.
PutCountIncrease(r) ==
  /\ At(r, "count")
  /\ simCount' = Value(simCount) + 2
  /\ Goto(r, "done")
  /\ UNCHANGED <<items, modelCount, mseCount, task, iter, iteration, py>>

PutCount(r) ==
  /\ At(r, "count")
  /\ simCount' = iteration[r] + 1
  /\ Goto(r, "done")
  /\ UNCHANGED <<items, modelCount, mseCount, task, iter, iteration, py>>

(* MPI_Finalize: the job is over when the last rank is.                    *)
Finalize ==
  /\ task = "simulation" /\ \A r \in Ranks : pc[r] = "done"
  /\ Follow("training")
  /\ UNCHANGED <<store, iter, mpi, current>>

-----------------------------------------------------------------------------
(* Python tasks. *)

Latest(counter) == Value(counter) - 1

(* A task takes i for the iteration and fetches its input; get raises if   *)
(* some of it is not there.                                                *)
Fetch(name, i, input, next) ==
  /\ task = name /\ step = "start"
  /\ current' = i
  /\ IF input \subseteq items
     THEN step' = next /\ UNCHANGED task
     ELSE task' = "failed" /\ UNCHANGED step
  /\ UNCHANGED <<store, iter, mpi>>

StartTraining ==
  LET i == Latest(simCount) IN Fetch("training", i, AllSamples(i), "put count")

PutModelCount ==
  /\ task = "training" /\ step = "put count"
  /\ modelCount' = current + 1
  /\ step' = "put model"
  /\ UNCHANGED <<items, simCount, mseCount, task, iter, mpi, current>>

PutModel ==
  /\ task = "training" /\ step = "put model"
  /\ items' = items \cup Model(current)
  /\ step' = "put mse"
  /\ UNCHANGED <<simCount, modelCount, mseCount, task, iter, mpi, current>>

PutMse ==
  /\ task = "training" /\ step = "put mse"
  /\ items' = items \cup Mse(current)
  /\ Follow("active_learn")
  /\ UNCHANGED <<simCount, modelCount, mseCount, iter, mpi, current>>

StartActiveLearn ==
  LET i == Latest(modelCount) IN Fetch("active_learn", i, Model(i), "put query")

PutQuery ==
  /\ task = "active_learn" /\ step = "put query"
  /\ items' = items \cup Query(current)
  /\ step' = "put count"
  /\ UNCHANGED <<simCount, modelCount, mseCount, task, iter, mpi, current>>

\* Mutation: the counter moves on to the next iteration.
PutModelCountAgainNext ==
  /\ task = "active_learn" /\ step = "put count"
  /\ modelCount' = current + 2
  /\ Follow("check_mse")
  /\ UNCHANGED <<items, simCount, mseCount, iter, mpi, current>>

PutModelCountAgain ==
  /\ task = "active_learn" /\ step = "put count"
  /\ modelCount' = current + 1
  /\ Follow("check_mse")
  /\ UNCHANGED <<items, simCount, mseCount, iter, mpi, current>>

StartCheck ==
  LET i == Latest(modelCount) IN Fetch("check_mse", i, Mse(i), "put count")

(* check_mse returns the error, and the learner goes on if it is too large *)
(* and iterations remain.                                                  *)
Check ==
  /\ task = "check_mse" /\ step = "put count"
  /\ mseCount' = current + 1
  /\ \/ /\ iter + 1 < MaxIter
        /\ Follow("simulation")
        /\ iter' = iter + 1
        /\ pc' = [r \in Ranks |-> "start"]
     \/ Follow("summary") /\ UNCHANGED <<iter, pc>>
  /\ UNCHANGED <<items, simCount, modelCount, iteration, current>>

(* The driver prints the errors of all iterations. *)
Summary ==
  /\ task = "summary"
  /\ task' = "done"
  /\ UNCHANGED <<store, iter, mpi, py>>

Rank(r) == ReadCount(r) \/ ReadQuery(r) \/ PutX(r) \/ PutY(r) \/ Barrier(r) \/ PutCount(r)

Python ==
  \/ StartTraining \/ PutModelCount \/ PutModel \/ PutMse
  \/ StartActiveLearn \/ PutQuery \/ PutModelCountAgain
  \/ StartCheck \/ Check \/ Summary

Next == (\E r \in Ranks : Rank(r)) \/ Finalize \/ Python

Spec == Init /\ [][Next]_vars

(* The ranks and the tasks run, and the learner starts the next one.       *)
FairSpec == Spec /\ (\A r \in Ranks : WF_vars(Rank(r))) /\ WF_vars(Finalize) /\ WF_vars(Python)

-----------------------------------------------------------------------------
(* Correctness. *)

Iterations == 0 .. MaxIter - 1

Keys ==
  UNION {AllSamples(i) \cup Query(i) \cup Model(i) \cup Mse(i) : i \in Iterations}

TypeOK ==
  /\ items \subseteq Keys
  /\ {simCount, modelCount, mseCount} \subseteq 1 .. MaxIter \cup {None}
  /\ task \in {"simulation", "training", "active_learn", "check_mse",
               "summary", "done", "failed"}
  /\ iter \in Iterations
  /\ pc \in [Ranks -> {"start", "query", "put X", "put y", "barrier", "count", "done"}]
  /\ iteration \in [Ranks -> Iterations]
  /\ current \in -1 .. MaxIter - 1
  /\ step \in {"start", "put count", "put model", "put mse", "put query"}

(* The counter announces an iteration when all ranks have stored all of    *)
(* their samples, and not before.                                          *)
CountedIsComplete ==
  \A i \in 0 .. Value(simCount) - 1, r \in Ranks : Samples(r, i) \subseteq items

(* All ranks of a launch work on the iteration the learner is in, although *)
(* each reads the counter on its own and rank 0 increases it.              *)
RanksAgree ==
  task = "simulation" =>
    \A r \in Ranks : pc[r] # "start" => iteration[r] = iter

(* No task misses an input, whichever counter it goes by.                  *)
NothingMissing == task # "failed"

(* When the loop ends, the errors of all iterations are there to print.    *)
SummaryIsComplete ==
  task \in {"summary", "done"} => \A i \in 0 .. iter : Mse(i) \subseteq items

(* The workflow ends: no rank waits forever for another, and no task fails.*)
Terminates == <>(task = "done")
=============================================================================
