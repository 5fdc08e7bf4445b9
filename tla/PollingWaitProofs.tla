--------------------------- MODULE PollingWaitProofs ---------------------------
(***************************************************************************)
(* The timing of IClient::wait_for_bytes for any timeouts, poll interval   *)
(* and latency.  The argument follows one turn of the loop: where the      *)
(* client is bounds the clock from both sides (Timing), and an absent key  *)
(* in its last answer bounds how long the key can have been there          *)
(* (Freshness).                                                            *)
(***************************************************************************)
EXTENDS PollingWait, TLAPS

(* The clock, relative to the end of the current step and to the deadline. *)
Timing ==
  /\ since <= now
  /\ pc = "idle" => now = 0 /\ due = 0
  /\ pc # "done" => now <= due
  /\ pc \in {"ask", "reply"} =>
       due <= now + Latency /\ due <= endTime + Interval + 2 * Latency
  /\ pc = "sleep" =>
       due = wake + Latency /\ wake <= endTime + Interval /\ wake <= now + Interval
  /\ pc = "get" => due <= now + Latency
  /\ pc = "done" => ended <= now
  /\ result = "TimeoutError" => pc = "done"

(* A key that is there has not been there for long. *)
Freshness ==
  present =>
    /\ pc = "ask" \/ (pc = "reply" /\ answer) => due <= since + Interval + 3 * Latency
    /\ pc = "reply" /\ ~answer                => due <= since + Latency
    /\ pc = "sleep"                           => due <= since + Interval + 2 * Latency
    /\ pc = "get"                             => due <= since + Interval + 4 * Latency

Inv == TypeOK /\ Timing /\ Freshness /\ TimesOutOnTime /\ TimeoutIsHonest

LEMMA InitInv == Init => Inv
<1>. SUFFICES ASSUME Init PROVE Inv
  OBVIOUS
<1>1. TypeOK
  BY DEF Init, TypeOK
<1>2. Timing
  BY DEF Init, Timing
<1>3. Freshness /\ TimesOutOnTime /\ TimeoutIsHonest
  BY DEF Init, Freshness, TimesOutOnTime, TimeoutIsHonest
<1>. QED  BY <1>1, <1>2, <1>3 DEF Inv

LEMMA NextInv == Inv /\ [Next]_vars => Inv'
<1>. SUFFICES ASSUME Inv, [Next]_vars PROVE Inv'
  OBVIOUS
<1>. USE TimesAssumption
     DEF Inv, TypeOK, Timing, Freshness, TimesOutOnTime, TimeoutIsHonest,
         clock, key, caller
<1>1. CASE Tick
  BY <1>1 DEF Tick
<1>2. CASE Publish
  BY <1>2 DEF Publish
<1>3. CASE Retract
  BY <1>3 DEF Retract
<1>4. ASSUME NEW t \in Timeouts, Begin(t) PROVE Inv'
  BY <1>4 DEF Begin, Ask
<1>5. CASE Contains
  BY <1>5 DEF Contains
<1>6. CASE Reply
  <2>1. CASE answer
    BY <1>6, <2>1 DEF Reply, Return
  <2>2. CASE ~answer /\ now > endTime
    BY <1>6, <2>2 DEF Reply, Return
  <2>3. CASE ~answer /\ now <= endTime
    BY <1>6, <2>3 DEF Reply
  <2>. QED  BY <2>1, <2>2, <2>3
<1>7. CASE Wake
  BY <1>7 DEF Wake, Ask
<1>8. CASE Get
  BY <1>8 DEF Get, Return
<1>9. CASE UNCHANGED vars
  BY <1>9 DEF vars
<1>. QED  BY <1>1, <1>2, <1>3, <1>4, <1>5, <1>6, <1>7, <1>8, <1>9 DEF Next, Wait

LEMMA InvHolds == Spec => []Inv
<1>. QED  BY InitInv, NextInv, PTL DEF Spec

(* Times stay natural numbers and steps in their order.                    *)
THEOREM TypeCorrect == Spec => []TypeOK
<1>1. Inv => TypeOK
  BY DEF Inv
<1>. QED  BY <1>1, InvHolds, PTL

(* A wait gives up after its deadline, and not later than one poll         *)
(* interval, a late wake-up and a late reply after it.                     *)
THEOREM TimeoutsAreOnTime == Spec => []TimesOutOnTime
<1>1. Inv => TimesOutOnTime
  BY DEF Inv
<1>. QED  BY <1>1, InvHolds, PTL

(* A wait that gives up has missed a key by no more than the delay of one  *)
(* reply.                                                                  *)
THEOREM TimeoutsAreHonest == Spec => []TimeoutIsHonest
<1>1. Inv => TimeoutIsHonest
  BY DEF Inv
<1>. QED  BY <1>1, InvHolds, PTL

(* A key that stays is noticed within one poll interval and the delays.    *)
THEOREM KeysAreNoticed == Spec => []AnswersPromptly
<1>1. Inv => AnswersPromptly
  BY TimesAssumption DEF Inv, TypeOK, Timing, Freshness, AnswersPromptly
<1>. QED  BY <1>1, InvHolds, PTL
=============================================================================
