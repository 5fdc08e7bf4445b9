------------------------- MODULE ActiveLearningProofs -------------------------
(***************************************************************************)
(* The safety properties of ActiveLearning, for any ranks and any number   *)
(* of iterations.                                                          *)
(***************************************************************************)
EXTENDS ActiveLearning, TLAPS

Labels == {"start", "query", "put X", "put y", "barrier", "count", "done"}

Types ==
  /\ iter \in Nat
  /\ simCount \in Int \cup {None} /\ modelCount \in Int \cup {None}
  /\ pc \in [Ranks -> Labels]
  /\ iteration \in [Ranks -> Int]
  /\ current \in Int

(* Everything that the iterations before n leave behind. *)
Complete(n) ==
  \A i \in 0 .. n - 1 :
    /\ \A r \in Ranks : Samples(r, i) \subseteq items
    /\ Query(i) \cup Model(i) \cup Mse(i) \subseteq items

(* The simulation: a rank past its first read knows the iteration; rank 0  *)
(* passes the barrier when all samples are there, and the counter moves    *)
(* when no rank has still to read it.                                      *)
RankOK(r) ==
  /\ pc[r] # "start" => iteration[r] = iter
  /\ pc[r] = "query" => iter > 0
  /\ pc[r] = "start" => pc[Root] \notin {"count", "done"}
  /\ pc[r] \in {"put y", "barrier", "count", "done"} => <<"X", r, iter>> \in items
  /\ pc[r] \in {"barrier", "count", "done"} => <<"y", r, iter>> \in items
  /\ pc[Root] \in {"count", "done"} => pc[r] \in {"barrier", "count", "done"}
  /\ pc[r] = "count" => r = Root

Simulating ==
  task = "simulation" =>
    /\ Value(simCount) = IF pc[Root] = "done" THEN iter + 1 ELSE iter
    /\ Value(modelCount) = iter
    /\ \A r \in Ranks : RankOK(r)

(* The Python tasks: the samples of the iteration are there, and so is     *)
(* what the tasks before, and the steps before, have put.                  *)
Sampled ==
  task # "simulation" =>
    /\ Value(simCount) = iter + 1
    /\ \A r \in Ranks : Samples(r, iter) \subseteq items

Training ==
  task = "training" =>
    /\ step \in {"start", "put count", "put model", "put mse"}
    /\ step # "start" => current = iter
    /\ Value(modelCount) = IF step \in {"start", "put count"} THEN iter ELSE iter + 1
    /\ step = "put mse" => Model(iter) \subseteq items

Trained ==
  task \in {"active_learn", "check_mse", "summary", "done"} =>
    /\ Value(modelCount) = iter + 1
    /\ Model(iter) \cup Mse(iter) \subseteq items

ActivelyLearning ==
  task = "active_learn" =>
    /\ step \in {"start", "put query", "put count"}
    /\ step # "start" => current = iter
    /\ step = "put count" => Query(iter) \subseteq items

Checking ==
  task = "check_mse" =>
    /\ step # "start" => current = iter
    /\ Query(iter) \subseteq items

Tasks == {"simulation", "training", "active_learn", "check_mse", "summary", "done"}

Inv ==
  /\ Types
  /\ task \in Tasks
  /\ Complete(iter)
  /\ Simulating /\ Sampled /\ Training /\ Trained /\ ActivelyLearning /\ Checking

(* The invariant implies the properties. *)
LEMMA InvImplies ==
  ASSUME Inv
  PROVE  CountedIsComplete /\ RanksAgree /\ NothingMissing /\ SummaryIsComplete
<1>. USE DEF Inv
<1>1. NothingMissing
  BY DEF NothingMissing, Tasks
<1>2. RanksAgree
  BY DEF RanksAgree, Simulating, RankOK
<1>3. SummaryIsComplete
  BY DEF SummaryIsComplete, Complete, Trained, Types
<1>4. CountedIsComplete
  <2>1. SUFFICES ASSUME NEW i \in 0 .. Value(simCount) - 1, NEW r \in Ranks
                 PROVE  Samples(r, i) \subseteq items
    BY DEF CountedIsComplete
  <2>2. Value(simCount) \in {iter, iter + 1}
    BY DEF Simulating, Sampled
  <2>3. CASE i < iter
    BY <2>2, <2>3 DEF Complete, Types
  <2>4. CASE i = iter
    <3>1. CASE task = "simulation"
      <4>1. Value(simCount) = iter + 1
        BY <2>2, <2>4 DEF Types
      <4>2. pc[Root] = "done"
        BY <3>1, <4>1 DEF Simulating, Types
      <4>. QED  BY <2>4, <3>1, <4>2, RanksAssumption DEF Simulating, RankOK, Samples
    <3>2. CASE task # "simulation"
      BY <2>4, <3>2 DEF Sampled
    <3>. QED  BY <3>1, <3>2
  <2>. QED  BY <2>2, <2>3, <2>4 DEF Types
<1>. QED  BY <1>1, <1>2, <1>3, <1>4

LEMMA Initially == Init => Inv
<1>. SUFFICES ASSUME Init PROVE Inv
  OBVIOUS
<1>. USE DEF Init
<1>1. Types
  BY DEF Types, Labels
<1>2. Complete(iter)
  BY DEF Complete
<1>3. Simulating
  BY RanksAssumption DEF Simulating, RankOK, Value
<1>. QED
  BY <1>1, <1>2, <1>3
  DEF Inv, Tasks, Sampled, Training, Trained, ActivelyLearning, Checking

(* A step of one rank that keeps to RankOK preserves the invariant. *)
LEMMA OneRank ==
  ASSUME Inv, task = "simulation", task' = task, iter' = iter, modelCount' = modelCount,
         current' = current, items \subseteq items', simCount' \in Int \cup {None},
         NEW r \in Ranks, NEW label \in Labels, NEW i \in Int,
         pc' = [pc EXCEPT ![r] = label], iteration' = [iteration EXCEPT ![r] = i],
         Value(simCount') = IF pc'[Root] = "done" THEN iter + 1 ELSE iter,
         \A q \in Ranks : RankOK(q)'
  PROVE  Inv'
<1>. USE DEF Inv
<1>1. Types'
  BY DEF Types
<1>2. Complete(iter)'
  BY DEF Complete
<1>3. Simulating'
  BY DEF Simulating, Value
<1>. QED
  BY <1>1, <1>2, <1>3
  DEF Tasks, Sampled, Training, Trained, ActivelyLearning, Checking

(* Each step of a rank of the simulation. *)
LEMMA RankStep ==
  ASSUME Inv, NEW r \in Ranks, Rank(r)
  PROVE  Inv'
<1>. USE DEF At, Goto, store, py
<1>0. /\ task = "simulation" /\ Root \in Ranks /\ \A q \in Ranks : RankOK(q)
      /\ Value(simCount) = IF pc[Root] = "done" THEN iter + 1 ELSE iter
      /\ pc \in [Ranks -> Labels] /\ iteration \in [Ranks -> Int]
      /\ iter \in Nat /\ simCount \in Int \cup {None} /\ Complete(iter)
  BY RanksAssumption
  DEF Inv, Types, Rank, ReadCount, ReadQuery, PutX, PutY, Barrier, PutCount, Simulating
<1>a. iter \in Int /\ simCount \in Int \cup {None}
  BY <1>0
<1>1. CASE ReadCount(r)
  <2>1. pc[Root] # "done" /\ Value(simCount) = iter
    BY <1>0, <1>1 DEF ReadCount, RankOK
  <2>. DEFINE label == IF iter > 0 THEN "query" ELSE "put X"
  <2>2. /\ pc' = [pc EXCEPT ![r] = label] /\ iteration' = [iteration EXCEPT ![r] = iter]
        /\ label \in {"query", "put X"}
        /\ label = "query" => iter > 0
    BY <1>1, <2>1 DEF ReadCount
  <2>3. UNCHANGED <<items, simCount, modelCount, task, iter, current>>
    BY <1>1 DEF ReadCount
  <2>. HIDE DEF label
  <2>4. pc'[Root] # "done" /\ \A q \in Ranks : RankOK(q)'
    BY <1>0, <1>1, <2>2, <2>3 DEF RankOK, ReadCount
  <2>5. label \in Labels
    BY <2>2 DEF Labels
  <2>6. Value(simCount') = IF pc'[Root] = "done" THEN iter + 1 ELSE iter
    BY <2>1, <2>3, <2>4
  <2>7. items \subseteq items' /\ iter \in Int /\ simCount' \in Int \cup {None}
    BY <1>a, <2>3
  <2>8. task = "simulation" /\ UNCHANGED <<task, iter, modelCount, current>>
    BY <1>0, <2>3
  <2>9. pc' = [pc EXCEPT ![r] = label] /\ iteration' = [iteration EXCEPT ![r] = iter]
    BY <2>2
  <2>. QED  BY <2>4, <2>5, <2>6, <2>7, <2>8, <2>9, OneRank
<1>2. CASE ReadQuery(r)
  <2>1. iteration[r] = iter /\ iter > 0
    BY <1>0, <1>2 DEF ReadQuery, RankOK
  <2>2. Query(iter - 1) \subseteq items
    BY <1>0, <2>1 DEF Complete
  <2>3. /\ pc[r] = "query" /\ pc' = [pc EXCEPT ![r] = "put X"]
        /\ UNCHANGED <<items, simCount, modelCount, task, iter, current, iteration>>
    BY <1>2, <2>1, <2>2 DEF ReadQuery
  <2>4. /\ iteration' = [iteration EXCEPT ![r] = iter]
        /\ pc'[Root] = "done" <=> pc[Root] = "done"
        /\ \A q \in Ranks : RankOK(q)'
    BY <1>0, <2>1, <2>3 DEF RankOK
  <2>5. "put X" \in Labels
    BY DEF Labels
  <2>6. Value(simCount') = IF pc'[Root] = "done" THEN iter + 1 ELSE iter
    BY <1>0, <2>3, <2>4
  <2>7. items \subseteq items' /\ iter \in Int /\ simCount' \in Int \cup {None}
    BY <1>a, <2>3
  <2>8. task = "simulation" /\ UNCHANGED <<task, iter, modelCount, current>>
    BY <1>0, <2>3
  <2>9. pc' = [pc EXCEPT ![r] = "put X"] /\ iteration' = [iteration EXCEPT ![r] = iter]
    BY <2>3, <2>4
  <2>. QED  BY <2>4, <2>5, <2>6, <2>7, <2>8, <2>9, OneRank
<1>3. CASE PutX(r)
  <2>1. /\ pc[r] = "put X" /\ pc' = [pc EXCEPT ![r] = "put y"]
        /\ items' = items \cup {<<"X", r, iter>>} /\ iteration[r] = iter
        /\ UNCHANGED <<simCount, modelCount, task, iter, current, iteration>>
    BY <1>0, <1>3 DEF PutX, RankOK
  <2>2. /\ iteration' = [iteration EXCEPT ![r] = iter]
        /\ pc'[Root] = "done" <=> pc[Root] = "done"
        /\ \A q \in Ranks : RankOK(q)'
    BY <1>0, <2>1 DEF RankOK
  <2>. QED  BY <1>0, <2>1, <2>2, OneRank DEF Labels
<1>4. CASE PutY(r)
  <2>1. /\ pc[r] = "put y" /\ pc' = [pc EXCEPT ![r] = "barrier"]
        /\ items' = items \cup {<<"y", r, iter>>} /\ iteration[r] = iter
        /\ UNCHANGED <<simCount, modelCount, task, iter, current, iteration>>
    BY <1>0, <1>4 DEF PutY, RankOK
  <2>2. /\ iteration' = [iteration EXCEPT ![r] = iter]
        /\ pc'[Root] = "done" <=> pc[Root] = "done"
        /\ \A q \in Ranks : RankOK(q)'
    BY <1>0, <2>1 DEF RankOK
  <2>. QED  BY <1>0, <2>1, <2>2, OneRank DEF Labels
<1>5. CASE Barrier(r)
  <2>. DEFINE label == IF r = Root THEN "count" ELSE "done"
  <2>1. /\ pc[r] = "barrier" /\ pc' = [pc EXCEPT ![r] = label] /\ iteration[r] = iter
        /\ \A q \in Ranks : pc[q] \in {"barrier", "count", "done"}
        /\ UNCHANGED <<items, simCount, modelCount, task, iter, current, iteration>>
    BY <1>0, <1>5 DEF Barrier, Leave, RankOK
  <2>2. label \in {"count", "done"} /\ (label = "count" <=> r = Root)
    OBVIOUS
  <2>. HIDE DEF label
  <2>3. /\ iteration' = [iteration EXCEPT ![r] = iter]
        /\ pc'[Root] = "done" <=> pc[Root] = "done"
        /\ \A q \in Ranks : RankOK(q)'
    BY <1>0, <2>1, <2>2 DEF RankOK
  <2>. QED  BY <1>0, <2>1, <2>2, <2>3, OneRank DEF Labels
<1>6. CASE PutCount(r)
  <2>1. /\ pc[r] = "count" /\ r = Root /\ pc' = [pc EXCEPT ![r] = "done"]
        /\ iteration[r] = iter /\ simCount' = iter + 1
        /\ UNCHANGED <<items, modelCount, task, iter, current, iteration>>
    BY <1>0, <1>6 DEF PutCount, RankOK
  <2>2. /\ iteration' = [iteration EXCEPT ![r] = iter]
        /\ pc'[Root] = "done"
        /\ \A q \in Ranks : RankOK(q)'
    BY <1>0, <2>1 DEF RankOK
  <2>3. Value(simCount') = iter + 1 /\ simCount' \in Int
    BY <1>0, <2>1, NoneAssumption DEF Value
  <2>. QED  BY <1>0, <2>1, <2>2, <2>3, OneRank DEF Labels
<1>. QED  BY <1>1, <1>2, <1>3, <1>4, <1>5, <1>6 DEF Rank

(* The job is over. *)
LEMMA FinalizeStep ==
  ASSUME Inv, Finalize
  PROVE  Inv'
<1>. USE DEF Inv, Finalize, Follow, store, mpi
<1>1. pc[Root] = "done" /\ \A r \in Ranks : pc[r] = "done" /\ RankOK(r)
  BY RanksAssumption DEF Simulating
<1>2. Value(simCount) = iter + 1 /\ Value(modelCount) = iter
  BY <1>1 DEF Simulating
<1>3. \A r \in Ranks : Samples(r, iter) \subseteq items
  BY <1>1 DEF RankOK, Samples
<1>4. Types' /\ task' = "training" /\ step' = "start" /\ Complete(iter)'
  BY DEF Types, Complete
<1>. QED
  BY <1>2, <1>3, <1>4
  DEF Tasks, Simulating, Sampled, Training, Trained, ActivelyLearning, Checking, Value, Samples

(* A task whose counter stands at the iteration, and whose input is there, *)
(* takes the iteration of the learner for its own and does not fail.       *)
LEMMA FetchStep ==
  ASSUME Inv, task' = task, task \in {"training", "active_learn", "check_mse"},
         task = "training" => step = "start" /\ step' = "put count",
         task = "active_learn" => step' = "put query",
         current' = iter, current' \in Int,
         UNCHANGED <<items, simCount, modelCount, iter, pc, iteration>>
  PROVE  Inv'
<1>. USE DEF Inv
<1>1. Types' /\ Complete(iter)'
  BY DEF Types, Complete
<1>. QED
  BY <1>1
  DEF Tasks, Simulating, Sampled, Training, Trained, ActivelyLearning, Checking, Value, Samples

(* Each step of the Python tasks. *)
LEMMA PythonStep ==
  ASSUME Inv, Python
  PROVE  Inv'
<1>. USE DEF Inv
<1>0. iter \in Nat /\ iter \in Int /\ iter + 1 \in Int
  BY DEF Types
<1>1. CASE StartTraining
  <2>1. task = "training" /\ step = "start"
    BY <1>1 DEF StartTraining, Fetch
  <2>2. Latest(simCount) = iter
    BY <2>1 DEF Latest, Sampled, Types
  <2>3. AllSamples(iter) \subseteq items
    BY <2>1 DEF Sampled, AllSamples
  <2>4. current' = iter /\ UNCHANGED <<items, simCount, modelCount, iter, pc, iteration>>
    BY <1>1, <2>2 DEF StartTraining, Fetch, store, mpi
  <2>5. current' \in Int
    BY <1>0, <2>4
  <2>. QED  BY <1>1, <2>1, <2>2, <2>3, <2>4, <2>5, FetchStep DEF StartTraining, Fetch
<1>2. CASE PutModelCount
  <2>0. modelCount' = iter + 1
    BY <1>2 DEF PutModelCount, Training
  <2>1. Value(modelCount') = iter + 1 /\ modelCount' \in Int
    BY <1>0, <2>0, NoneAssumption DEF Value
  <2>2. Types' /\ Complete(iter)'
    BY <1>2, <2>1 DEF PutModelCount, Types, Complete, mpi
  <2>. QED
    BY <1>2, <2>1, <2>2
    DEF PutModelCount, Tasks, Simulating, Sampled, Training, Trained, ActivelyLearning, Checking,
        Value, Samples
<1>3. CASE PutModel
  <2>1. Types' /\ Complete(iter)' /\ Model(iter) \subseteq items' /\ items \subseteq items'
    BY <1>3 DEF PutModel, Training, Types, Complete, mpi
  <2>. QED
    BY <1>3, <2>1
    DEF PutModel, Tasks, Simulating, Sampled, Training, Trained, ActivelyLearning, Checking,
        Value, Model
<1>4. CASE PutMse
  <2>1. /\ Types' /\ Complete(iter)' /\ Model(iter) \cup Mse(iter) \subseteq items'
        /\ items \subseteq items' /\ Value(modelCount) = iter + 1
    BY <1>4 DEF PutMse, Follow, Training, Types, Complete, mpi
  <2>. QED
    BY <1>4, <2>1
    DEF PutMse, Follow, Tasks, Simulating, Sampled, Training, Trained, ActivelyLearning, Checking,
        Value, Model, Mse
<1>5. CASE StartActiveLearn
  <2>1. task = "active_learn"
    BY <1>5 DEF StartActiveLearn, Fetch
  <2>2. Latest(modelCount) = iter
    BY <2>1 DEF Latest, Trained, Types
  <2>3. Model(iter) \subseteq items
    BY <2>1 DEF Trained
  <2>4. current' = iter /\ UNCHANGED <<items, simCount, modelCount, iter, pc, iteration>>
    BY <1>5, <2>2 DEF StartActiveLearn, Fetch, store, mpi
  <2>5. current' \in Int
    BY <1>0, <2>4
  <2>. QED  BY <1>5, <2>1, <2>2, <2>3, <2>4, <2>5, FetchStep DEF StartActiveLearn, Fetch
<1>6. CASE PutQuery
  <2>1. Types' /\ Complete(iter)' /\ Query(iter) \subseteq items' /\ items \subseteq items'
    BY <1>6 DEF PutQuery, ActivelyLearning, Types, Complete, mpi
  <2>. QED
    BY <1>6, <2>1
    DEF PutQuery, Tasks, Simulating, Sampled, Training, Trained, ActivelyLearning, Checking,
        Value, Query, Model, Mse
<1>7. CASE PutModelCountAgain
  <2>0. modelCount' = iter + 1 /\ Query(iter) \subseteq items
    BY <1>7 DEF PutModelCountAgain, ActivelyLearning
  <2>1. Value(modelCount') = iter + 1 /\ modelCount' \in Int
    BY <1>0, <2>0, NoneAssumption DEF Value
  <2>2. Types' /\ Complete(iter)'
    BY <1>7, <2>1 DEF PutModelCountAgain, Types, Complete, mpi
  <2>. QED
    BY <1>7, <2>0, <2>1, <2>2
    DEF PutModelCountAgain, Follow, Tasks, Simulating, Sampled, Training, Trained,
        ActivelyLearning, Checking, Value, Samples, Query, Model, Mse
<1>8. CASE StartCheck
  <2>1. task = "check_mse"
    BY <1>8 DEF StartCheck, Fetch
  <2>2. Latest(modelCount) = iter
    BY <2>1 DEF Latest, Trained, Types
  <2>3. Mse(iter) \subseteq items
    BY <2>1 DEF Trained
  <2>4. current' = iter /\ UNCHANGED <<items, simCount, modelCount, iter, pc, iteration>>
    BY <1>8, <2>2 DEF StartCheck, Fetch, store, mpi
  <2>5. current' \in Int
    BY <1>0, <2>4
  <2>. QED  BY <1>8, <2>1, <2>2, <2>3, <2>4, <2>5, FetchStep DEF StartCheck, Fetch
<1>9. CASE Check
  <2>1. UNCHANGED <<items, simCount, modelCount, iteration, current>> /\ task = "check_mse"
    BY <1>9 DEF Check
  <2>2. CASE task' = "simulation"
    <3>1. iter' = iter + 1 /\ pc' = [r \in Ranks |-> "start"]
      BY <1>9, <2>2 DEF Check, Follow
    <3>2. iter' \in Nat /\ pc' \in [Ranks -> Labels]
      BY <1>0, <3>1 DEF Labels
    <3>3. Types'
      BY <2>1, <3>2 DEF Types
    <3>4. /\ \A r \in Ranks : Samples(r, iter) \subseteq items
          /\ Query(iter) \cup Model(iter) \cup Mse(iter) \subseteq items
      BY <2>1 DEF Sampled, Trained, Checking
    <3>5. \A i \in 0 .. iter' - 1 : i = iter \/ i \in 0 .. iter - 1
      BY <1>0, <3>1
    <3>6. Complete(iter)'
      BY <2>1, <3>4, <3>5 DEF Complete
    <3>7. Simulating'
      BY <2>1, <2>2, <3>1, RanksAssumption DEF Simulating, RankOK, Sampled, Trained, Value
    <3>. QED
      BY <2>2, <3>3, <3>6, <3>7 DEF Tasks, Sampled, Training, Trained, ActivelyLearning, Checking
  <2>3. CASE task' = "summary"
    <3>1. UNCHANGED <<iter, pc>>
      BY <1>9, <2>3 DEF Check, Follow
    <3>2. Types' /\ Complete(iter)'
      BY <2>1, <3>1 DEF Types, Complete
    <3>. QED
      BY <2>1, <2>3, <3>1, <3>2
      DEF Tasks, Simulating, Sampled, Training, Trained, ActivelyLearning, Checking, Value
  <2>. QED  BY <1>9, <2>2, <2>3 DEF Check, Follow
<1>10. CASE Summary
  <2>1. Types' /\ Complete(iter)'
    BY <1>10 DEF Summary, Types, Complete, store, mpi, py
  <2>. QED
    BY <1>10, <2>1
    DEF Summary, Tasks, Simulating, Sampled, Training, Trained, ActivelyLearning, Checking,
        Value, store, mpi, py
<1>. QED
  BY <1>1, <1>2, <1>3, <1>4, <1>5, <1>6, <1>7, <1>8, <1>9, <1>10 DEF Python

LEMMA Stutters ==
  ASSUME Inv, UNCHANGED vars
  PROVE  Inv'
<1>. USE DEF Inv, vars, store, mpi, py
<1>1. Types' /\ Complete(iter)' /\ Simulating'
  BY DEF Types, Complete, Simulating, RankOK, Value
<1>. QED  BY <1>1 DEF Tasks, Sampled, Training, Trained, ActivelyLearning, Checking, Value

LEMMA Invariance == Spec => []Inv
<1>1. Inv /\ [Next]_vars => Inv'
  BY RankStep, FinalizeStep, PythonStep, Stutters DEF Next
<1>. QED  BY <1>1, Initially, PTL DEF Spec

(* However many ranks store their samples at the same time, the counter    *)
(* announces no iteration before all of its samples are there.             *)
THEOREM CountersAnnounceWholeIterations == Spec => []CountedIsComplete
<1>. QED  BY Invariance, InvImplies, PTL

(* However many ranks there are, all of a launch work on the iteration of  *)
(* the learner.                                                            *)
THEOREM RanksWorkTogether == Spec => []RanksAgree
<1>. QED  BY Invariance, InvImplies, PTL

(* No task of the workflow misses an input, in any number of iterations.   *)
THEOREM TasksFindTheirInput == Spec => []NothingMissing
<1>. QED  BY Invariance, InvImplies, PTL

(* The summary finds the errors of all iterations. *)
THEOREM SummariesAreComplete == Spec => []SummaryIsComplete
<1>. QED  BY Invariance, InvImplies, PTL

-----------------------------------------------------------------------------
(* Types.  Keys and counters stay within the iterations because every task *)
(* takes the iteration of the learner for its own, which Inv says.         *)

LEMMA KeysOfIteration ==
  ASSUME NEW i \in Iterations
  PROVE  /\ \A r \in Ranks : Samples(r, i) \subseteq Keys
         /\ Query(i) \cup Model(i) \cup Mse(i) \subseteq Keys
BY DEF Keys, AllSamples

LEMMA IterationRange ==
  ASSUME TypeOK
  PROVE  /\ iter \in Iterations /\ iter \in Nat
         /\ iter \in -1 .. MaxIter - 1 /\ iter + 1 \in 1 .. MaxIter
         /\ iter + 1 < MaxIter => iter + 1 \in Iterations
<1>1. iter \in Iterations
  BY DEF TypeOK
<1>. QED  BY <1>1, MaxIterAssumption DEF Iterations

(* A rank works in the iteration of the learner.                           *)
LEMMA RankTyped ==
  ASSUME Inv, TypeOK, NEW r \in Ranks, Rank(r)
  PROVE  TypeOK'
<1>. USE DEF At, Goto, store, py
<1>1. /\ task = "simulation" /\ RankOK(r) /\ RankOK(Root)
      /\ Value(simCount) = IF pc[Root] = "done" THEN iter + 1 ELSE iter
  BY RanksAssumption
  DEF Inv, Rank, ReadCount, ReadQuery, PutX, PutY, Barrier, PutCount, Simulating
<1>2. iter \in Iterations /\ iter \in Nat /\ iter + 1 \in 1 .. MaxIter
  BY IterationRange
<1>3. Samples(r, iter) \subseteq Keys
  BY <1>2, KeysOfIteration
<1>4. ASSUME task' \in {task, "failed"}, items' \subseteq Keys,
             simCount' \in {simCount, iter + 1}, UNCHANGED <<modelCount, mseCount, iter, current, step>>,
             pc' \in [Ranks -> Labels], iteration' \in [Ranks -> Iterations]
      PROVE  TypeOK'
  BY <1>2, <1>4 DEF TypeOK, Labels
<1>5. items \subseteq Keys /\ iteration \in [Ranks -> Iterations] /\ pc \in [Ranks -> Labels]
  BY DEF TypeOK, Labels
<1>6. CASE ReadCount(r)
  <2>1. Value(simCount) = iter
    BY <1>1, <1>6 DEF ReadCount, RankOK
  <2>2. iteration' \in [Ranks -> Iterations]
    BY <1>2, <1>5, <1>6, <2>1 DEF ReadCount
  <2>3. pc' \in [Ranks -> Labels]
    BY <1>5, <1>6 DEF ReadCount, Labels
  <2>. QED  BY <1>4, <1>5, <1>6, <2>2, <2>3 DEF ReadCount
<1>7. CASE ReadQuery(r) \/ Barrier(r)
  <2>1. pc' \in [Ranks -> Labels]
    BY <1>5, <1>7 DEF ReadQuery, Barrier, Leave, Labels
  <2>. QED  BY <1>4, <1>5, <1>7, <2>1 DEF ReadQuery, Barrier, Leave
<1>8. CASE PutX(r) \/ PutY(r)
  <2>1. iteration[r] = iter
    BY <1>1, <1>8 DEF PutX, PutY, RankOK
  <2>2. items' \subseteq Keys
    BY <1>3, <1>5, <1>8, <2>1 DEF PutX, PutY, Samples
  <2>3. pc' \in [Ranks -> Labels]
    BY <1>5, <1>8 DEF PutX, PutY, Labels
  <2>. QED  BY <1>4, <1>5, <1>8, <2>2, <2>3 DEF PutX, PutY
<1>9. CASE PutCount(r)
  <2>1. iteration[r] = iter
    BY <1>1, <1>9 DEF PutCount, RankOK
  <2>2. pc' \in [Ranks -> Labels]
    BY <1>5, <1>9 DEF PutCount, Labels
  <2>. QED  BY <1>4, <1>5, <1>9, <2>1, <2>2 DEF PutCount
<1>. QED  BY <1>6, <1>7, <1>8, <1>9 DEF Rank

(* A Python task fetches what belongs to the iteration, and puts the same. *)
LEMMA PythonTyped ==
  ASSUME Inv, TypeOK, Python
  PROVE  TypeOK'
<1>1. iter \in Iterations /\ iter \in Nat /\ iter \in -1 .. MaxIter - 1 /\ iter + 1 \in 1 .. MaxIter
  BY IterationRange
<1>2. Query(iter) \cup Model(iter) \cup Mse(iter) \subseteq Keys /\ items \subseteq Keys
  BY <1>1, KeysOfIteration DEF TypeOK
<1>. DEFINE Steps == {"start", "put count", "put model", "put mse", "put query"}
            Names == {"simulation", "training", "active_learn", "check_mse",
                      "summary", "done", "failed"}
<1>3. ASSUME items' \subseteq Keys, UNCHANGED simCount,
             modelCount' \in {modelCount, iter + 1}, mseCount' \in {mseCount, iter + 1},
             iter' \in Iterations, pc' \in [Ranks -> Labels], UNCHANGED iteration,
             current' \in {current, iter}, task' \in Names, step' \in Steps
      PROVE  TypeOK'
  BY <1>1, <1>3 DEF TypeOK, Labels
<1>4. task \in Names /\ step \in Steps /\ pc \in [Ranks -> Labels] /\ iter \in Iterations
  BY DEF TypeOK, Labels
<1>5. /\ task = "training" => Latest(simCount) = iter
      /\ task \in {"active_learn", "check_mse"} => Latest(modelCount) = iter
      /\ task \in {"training", "active_learn", "check_mse"} /\ step # "start" => current = iter
  <2>1. /\ task = "training" => Value(simCount) = iter + 1
        /\ task \in {"active_learn", "check_mse"} => Value(modelCount) = iter + 1
    BY DEF Inv, Sampled, Trained
  <2>2. task \in {"training", "active_learn", "check_mse"} /\ step # "start" => current = iter
    BY DEF Inv, Training, ActivelyLearning, Checking
  <2>. QED  BY <1>1, <2>1, <2>2 DEF Latest
<1>. HIDE DEF Steps, Names
<1>6. {"simulation", "training", "active_learn", "check_mse", "summary", "done", "failed"}
        \subseteq Names
  BY DEF Names
<1>7. {"start", "put count", "put model", "put mse", "put query"} \subseteq Steps
  BY DEF Steps
<1>8. CASE StartTraining \/ StartActiveLearn \/ StartCheck
  BY <1>2, <1>3, <1>4, <1>5, <1>6, <1>7, <1>8
  DEF StartTraining, StartActiveLearn, StartCheck, Fetch, store, mpi
<1>9. CASE PutModelCount \/ PutModelCountAgain
  BY <1>2, <1>3, <1>4, <1>5, <1>6, <1>7, <1>9
  DEF PutModelCount, PutModelCountAgain, Follow, mpi
<1>10. CASE PutModel \/ PutMse \/ PutQuery
  BY <1>2, <1>3, <1>4, <1>5, <1>6, <1>7, <1>10 DEF PutModel, PutMse, PutQuery, Follow, mpi
<1>11. CASE Check
  <2>1. iter' \in Iterations
    BY <1>11, IterationRange DEF Check
  <2>2. pc' \in [Ranks -> Labels]
    BY <1>4, <1>11 DEF Check, Labels
  <2>. QED  BY <1>2, <1>3, <1>5, <1>6, <1>7, <1>11, <2>1, <2>2 DEF Check, Follow
<1>12. CASE Summary
  BY <1>2, <1>3, <1>4, <1>6, <1>12 DEF Summary, store, mpi, py
<1>. QED  BY <1>8, <1>9, <1>10, <1>11, <1>12 DEF Python

(* The workflow stays within its iterations, whatever counter a task goes  *)
(* by.                                                                     *)
THEOREM TypeCorrect == Spec => []TypeOK
<1>1. Init => TypeOK
  BY MaxIterAssumption DEF Init, TypeOK, Iterations
<1>2. Inv /\ TypeOK /\ [Next]_vars => TypeOK'
  <2>. SUFFICES ASSUME Inv, TypeOK, [Next]_vars PROVE TypeOK'
    OBVIOUS
  <2>1. CASE Finalize
    BY <2>1 DEF Finalize, Follow, TypeOK, store, mpi
  <2>2. CASE UNCHANGED vars
    BY <2>2 DEF vars, store, mpi, py, TypeOK
  <2>. QED  BY <2>1, <2>2, RankTyped, PythonTyped DEF Next
<1>. QED  BY <1>1, <1>2, Invariance, PTL DEF Spec
=============================================================================
