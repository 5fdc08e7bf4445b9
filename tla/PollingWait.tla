------------------------------ MODULE PollingWait ------------------------------
(***************************************************************************)
(* IClient::wait_for_bytes against the clock: one client polls for one key *)
(* while others publish and delete it.                                     *)
(*                                                                         *)
(* The loop asks contains, and only when the answer is no compares the     *)
(* clock with the deadline and sleeps.  The answer describes the store at  *)
(* an instant between the request and the reply, and the reply is compared *)
(* with the clock later still.  Every request is answered, and every       *)
(* sleeper woken, at most Latency late.  Times are in milliseconds.        *)
(***************************************************************************)
EXTENDS Integers

CONSTANTS
  Timeouts,   \* timeouts that callers pass
  Interval,   \* RADEX_POLL_INTERVAL
  Latency     \* longest delay of a reply or of a wake-up

ASSUME TimesAssumption ==
  /\ Timeouts \subseteq Nat
  /\ Interval \in Nat /\ Latency \in Nat

VARIABLES
  now,       \* steady_clock; the wait begins at 0
  present,   \* the key is in the store
  since,     \* the key has been there, if it is, since then
  pc,        \* "idle", "ask", "reply", "sleep", "get" or "done"
  due,       \* the step at pc is over by then
  endTime,   \* end_time: the deadline
  answer,    \* what contains found
  wake,      \* when the sleep is over
  result,    \* "none", "bytes", "missing" or "TimeoutError"
  ended      \* when it returned

clock  == <<now>>
key    == <<present, since>>
caller == <<pc, due, endTime, answer, wake, result, ended>>
vars   == <<clock, key, caller>>

-----------------------------------------------------------------------------
Init ==
  /\ now = 0 /\ present \in BOOLEAN /\ since = 0
  /\ pc = "idle" /\ due = 0 /\ endTime = 0 /\ answer = FALSE /\ wake = 0
  /\ result = "none" /\ ended = 0

(* Time passes, but not past the moment the current step must be over.     *)
Tick ==
  /\ now < due
  /\ now' = now + 1
  /\ UNCHANGED <<key, caller>>

(* Other clients. *)
Publish ==
  /\ present' = TRUE
  /\ since' = IF present THEN since ELSE now
  /\ UNCHANGED <<clock, caller>>

Retract ==
  /\ present' = FALSE /\ UNCHANGED since
  /\ UNCHANGED <<clock, caller>>

Ask ==
  /\ pc' = "ask"
  /\ due' = now + Latency

Return(r) ==
  /\ pc' = "done"
  /\ result' = r
  /\ ended' = now

\* Mutation: the timeout is taken off the clock.
BeginBackwards(timeout) ==
  /\ pc = "idle"
  /\ endTime' = now - timeout
  /\ Ask
  /\ UNCHANGED <<clock, key, answer, wake, result, ended>>

Begin(timeout) ==
  /\ pc = "idle"
  /\ endTime' = now + timeout
  /\ Ask
  /\ UNCHANGED <<clock, key, answer, wake, result, ended>>

(* contains looks the key up.                                              *)
Contains ==
  /\ pc = "ask"
  /\ answer' = present
  /\ pc' = "reply"
  /\ UNCHANGED <<clock, key, due, endTime, wake, result, ended>>

\* Mutation: the wait gives up when the deadline is reached, not passed.
ReplyTooSoon ==
  /\ pc = "reply"
  /\ \/ /\ answer
        /\ pc' = "get" /\ due' = now + Latency
        /\ UNCHANGED <<wake, result, ended>>
     \/ /\ ~answer /\ now + Interval > endTime
        /\ Return("TimeoutError")
        /\ UNCHANGED <<due, wake>>
     \/ /\ ~answer /\ now + Interval <= endTime
        /\ pc' = "sleep" /\ wake' = now + Interval
        /\ due' = now + Interval + Latency
        /\ UNCHANGED <<result, ended>>
  /\ UNCHANGED <<clock, key, endTime, answer>>

\* Mutation: the client sleeps until the deadline.
ReplySleepsLong ==
  /\ pc = "reply"
  /\ \/ /\ answer
        /\ pc' = "get" /\ due' = now + Latency
        /\ UNCHANGED <<wake, result, ended>>
     \/ /\ ~answer /\ now > endTime
        /\ Return("TimeoutError")
        /\ UNCHANGED <<due, wake>>
     \/ /\ ~answer /\ now <= endTime
        /\ pc' = "sleep" /\ wake' = endTime + 1
        /\ due' = endTime + 1 + Latency
        /\ UNCHANGED <<result, ended>>
  /\ UNCHANGED <<clock, key, endTime, answer>>

(* The loop condition, the check of the deadline and sleep_for.            *)
Reply ==
  /\ pc = "reply"
  /\ \/ /\ answer
        /\ pc' = "get" /\ due' = now + Latency
        /\ UNCHANGED <<wake, result, ended>>
     \/ /\ ~answer /\ now > endTime
        /\ Return("TimeoutError")
        /\ UNCHANGED <<due, wake>>
     \/ /\ ~answer /\ now <= endTime
        /\ pc' = "sleep" /\ wake' = now + Interval
        /\ due' = now + Interval + Latency
        /\ UNCHANGED <<result, ended>>
  /\ UNCHANGED <<clock, key, endTime, answer>>

\* Mutation: after a sleep the old answer is compared with the clock again.
WakeWithoutAsking ==
  /\ pc = "sleep" /\ now >= wake
  /\ IF now > endTime
     THEN Return("TimeoutError") /\ UNCHANGED due
     ELSE Ask /\ UNCHANGED <<result, ended>>
  /\ UNCHANGED <<clock, key, endTime, answer, wake>>

\* Mutation: the client sleeps until the key is published.
WakeWhenPresent ==
  /\ pc = "sleep" /\ now >= wake
  /\ present
  /\ Ask
  /\ UNCHANGED <<clock, key, endTime, answer, wake, result, ended>>

Wake ==
  /\ pc = "sleep" /\ now >= wake
  /\ Ask
  /\ UNCHANGED <<clock, key, endTime, answer, wake, result, ended>>

(* get_bytes after the loop: the key may be gone again.                    *)
Get ==
  /\ pc = "get"
  /\ Return(IF present THEN "bytes" ELSE "missing")
  /\ UNCHANGED <<clock, key, due, endTime, answer, wake>>

Wait == \/ \E t \in Timeouts : Begin(t)
        \/ Contains \/ Reply \/ Wake \/ Get

Next == Tick \/ Publish \/ Retract \/ Wait

Spec == Init /\ [][Next]_vars

(* Time passes, the scheduler runs the client and the backend answers it.  *)
FairSpec == Spec /\ WF_vars(Tick) /\ WF_vars(Contains) /\ WF_vars(Reply)
                 /\ WF_vars(Wake) /\ WF_vars(Get)

-----------------------------------------------------------------------------
(* Correctness. *)

TypeOK ==
  /\ now \in Nat /\ since \in Nat /\ due \in Nat /\ endTime \in Nat
  /\ wake \in Nat /\ ended \in Nat
  /\ present \in BOOLEAN /\ answer \in BOOLEAN
  /\ pc \in {"idle", "ask", "reply", "sleep", "get", "done"}
  /\ result \in {"none", "bytes", "missing", "TimeoutError"}

(* A wait reports a timeout only after its deadline, and at most one poll  *)
(* interval, one late wake-up and one late reply after it.                 *)
TimesOutOnTime ==
  result = "TimeoutError" =>
    /\ ended > endTime
    /\ ended <= endTime + Interval + 2 * Latency

(* A wait that times out has asked for the key again after its last sleep: *)
(* a key that is there was published less than a reply ago.                *)
TimeoutIsHonest ==
  result = "TimeoutError" /\ present => since >= ended - Latency

(* A key that stays is noticed within one poll interval, however the       *)
(* publication falls between two polls ("Wait for item time appears slower *)
(* than polling", tests/python/dragon/test_wait_for_item.py).              *)
AnswersPromptly ==
  pc # "done" /\ present => now <= since + Interval + 4 * Latency

(* The caller is back within the time it allowed ("Maximum time to wait    *)
(* for the key to appear"), save for the delay of one reply.               *)
WaitsAtMostTimeout ==
  result = "TimeoutError" => ended <= endTime + Latency

(* Every wait ends, also for a key that is published and deleted again and *)
(* again.                                                                  *)
WaitReturns == pc = "ask" ~> pc = "done"
=============================================================================
