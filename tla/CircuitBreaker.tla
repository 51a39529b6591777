---------------------------- MODULE CircuitBreaker ----------------------------
(***************************************************************************)
(* The circuit breaker that stands before every outbound provider          *)
(* (src/src/lib/adapters/circuit-breaker.ts), shared by concurrent callers *)
(* of one adapter: routing, distance matrix, geocoding, map matching and   *)
(* weather each hold one breaker object.                                   *)
(*                                                                         *)
(* A caller suspends only while the provider's answer is awaited, so the   *)
(* admission of a call and the treatment of its answer are one step each,  *)
(* and an answer may arrive in any state of the breaker.  The fallback     *)
(* that serves a refused or failed call touches no state of the breaker.   *)
(***************************************************************************)
EXTENDS Integers

CONSTANTS
  Caller,             \* requests that can be under way at once
  FailureThreshold, SuccessThreshold,
  Recovery            \* recoveryTimeoutMs, in ticks of the clock

ASSUME BreakerAssumption ==
  /\ FailureThreshold \in Nat \ {0} /\ SuccessThreshold \in Nat \ {0}
  /\ Recovery \in Nat \ {0}

VARIABLES
  state,
  failureCount,  \* saturates at FailureThreshold, the only value compared with
  successCount,
  wait,          \* ticks until nextAttemptTimestamp; 0 once it has passed
  call,          \* the callers awaiting the provider
  up,            \* how the provider answers now
  \* history
  counted,       \* counted failures since the last success
  broken,        \* 429 and 5xx answers since the last success
  goods,         \* successes since the last counted failure or trip
  rest           \* ticks since the last counted failure or trip

breaker == <<state, failureCount, successCount, wait>>
history == <<counted, broken, goods, rest>>
breakerVars == <<breaker, call, up, history>>

BreakerTypeOK ==
  /\ state \in {"CLOSED", "OPEN", "HALF_OPEN"}
  /\ failureCount \in 0..FailureThreshold
  /\ successCount \in 0..SuccessThreshold
  /\ wait \in 0..Recovery
  /\ call \in [Caller -> {"idle", "primary"}]
  /\ up \in BOOLEAN
  /\ counted \in 0..FailureThreshold /\ broken \in 0..FailureThreshold
  /\ goods \in 0..SuccessThreshold /\ rest \in 0..Recovery

BreakerInit ==
  /\ state = "CLOSED" /\ failureCount = 0 /\ successCount = 0 /\ wait = 0
  /\ call = [c \in Caller |-> "idle"] /\ up = TRUE
  /\ counted = 0 /\ broken = 0 /\ goods = 0 /\ rest = Recovery

UpTo(max, n) == IF n < max THEN n ELSE max

-----------------------------------------------------------------------------
(* Errors. *)

(* What the awaited action can reject with: an HTTP status carried by the  *)
(* error object (0: none) and what its message says.                       *)
Error == [status : {0, 404, 429, 500, 503},
          text : {"quota", "gateway", "internal", "network", "empty"}]

(* What the adapters throw: an Error whose message quotes the HTTP status  *)
(* and that carries no status field, the rejection of fetch itself, or     *)
(* "returned no routes".                                                   *)
Raised == {e \in Error : e.status = 0}

(* defaultIsFailure, which every breaker of the program uses: the status   *)
(* decides where there is one, else the wording: quota, rate limit, 429,   *)
(* 502, 503, 504, timeout and econnrefused count; "HTTP 500" and "fetch    *)
(* failed" do not.                                                         *)
defaultIsFailure(e) ==
  IF e.status # 0 THEN e.status = 429 \/ e.status \in 500..599
                  ELSE e.text \in {"quota", "gateway"}

(* What the provider answered was a 429 or a 5xx. *)
Server(e) == e.status \in {429, 500, 503} \/ e.text \in {"quota", "gateway", "internal"}

-----------------------------------------------------------------------------
(* Plausible slip: the successes of an earlier probation still count.      *)
ProbationKeepsCount == UNCHANGED successCount

(* The probation starts with no success. *)
Probation == successCount' = 0

(* getState: an open circuit whose cooldown has passed is half open. *)
CooldownOver == state = "OPEN" /\ wait = 0

getState ==
  IF CooldownOver THEN state' = "HALF_OPEN" /\ Probation
                  ELSE UNCHANGED <<state, successCount>>

(* getState or getStats, read by anybody. *)
Observe ==
  /\ CooldownOver
  /\ getState
  /\ UNCHANGED <<failureCount, wait, call, up, history>>

(* execute, up to the call of the provider; an open circuit refuses.       *)
Execute(c) ==
  /\ call[c] = "idle"
  /\ state = "OPEN" => CooldownOver
  /\ getState
  /\ call' = [call EXCEPT ![c] = "primary"]
  /\ UNCHANGED <<failureCount, wait, up, history>>

(* Plausible slip: nothing is done about a success in a half-open circuit. *)
SuccessOnlyClears ==
  /\ failureCount' = IF state = "CLOSED" THEN 0 ELSE failureCount
  /\ UNCHANGED <<state, successCount>>

onSuccess ==
  \/ /\ state = "HALF_OPEN"
     /\ IF successCount + 1 >= SuccessThreshold
        THEN state' = "CLOSED" /\ failureCount' = 0 /\ successCount' = 0
        ELSE successCount' = successCount + 1 /\ UNCHANGED <<state, failureCount>>
  \/ state = "CLOSED" /\ failureCount' = 0 /\ UNCHANGED <<state, successCount>>
  \/ state = "OPEN" /\ UNCHANGED <<state, failureCount, successCount>>

(* The provider answers; the breaker may be in any state by now.           *)
Succeed(c) ==
  /\ call[c] = "primary" /\ up
  /\ onSuccess
  /\ call' = [call EXCEPT ![c] = "idle"]
  /\ counted' = 0 /\ broken' = 0 /\ goods' = UpTo(SuccessThreshold, goods + 1)
  /\ UNCHANGED <<wait, up, rest>>

(* Plausible slip: more than the threshold is needed to open.              *)
OpensLate ==
  /\ failureCount' = UpTo(FailureThreshold, failureCount + 1)
  /\ IF state = "HALF_OPEN" \/ failureCount >= FailureThreshold
     THEN state' = "OPEN" /\ wait' = Recovery
     ELSE UNCHANGED <<state, wait>>

(* Plausible slip: a failure that arrives in an open circuit is only       *)
(* counted.                                                                *)
LateFailureOnlyCounted ==
  /\ failureCount' = UpTo(FailureThreshold, failureCount + 1)
  /\ IF state = "HALF_OPEN" \/ (state = "CLOSED" /\ failureCount + 1 >= FailureThreshold)
     THEN state' = "OPEN" /\ wait' = Recovery
     ELSE UNCHANGED <<state, wait>>

onFailure ==
  /\ failureCount' = UpTo(FailureThreshold, failureCount + 1)
  /\ IF state = "HALF_OPEN" \/ failureCount + 1 >= FailureThreshold
     THEN state' = "OPEN" /\ wait' = Recovery
     ELSE UNCHANGED <<state, wait>>

Fail(c, e) ==
  /\ call[c] = "primary" /\ ~up
  /\ IF defaultIsFailure(e)
     THEN /\ onFailure
          /\ counted' = UpTo(FailureThreshold, counted + 1)
          /\ goods' = 0 /\ rest' = 0
     ELSE UNCHANGED <<state, failureCount, wait, counted, goods, rest>>
  /\ broken' = IF Server(e) THEN UpTo(FailureThreshold, broken + 1) ELSE broken
  /\ call' = [call EXCEPT ![c] = "idle"]
  /\ UNCHANGED <<successCount, up>>

-----------------------------------------------------------------------------
(* Administration, and the world outside. *)

reset ==
  /\ state' = "CLOSED" /\ failureCount' = 0 /\ successCount' = 0 /\ wait' = 0
  /\ counted' = 0 /\ broken' = 0
  /\ UNCHANGED <<call, up, goods, rest>>

(* trip, called by an administrator.                                       *)
tripByHand ==
  /\ state' = "OPEN" /\ wait' = Recovery
  /\ goods' = 0 /\ rest' = 0
  /\ UNCHANGED <<failureCount, successCount, call, up, counted, broken>>

(* The clock, as the breaker reads it: nextAttemptInMs runs down to zero.  *)
Tick ==
  /\ wait > 0 \/ rest < Recovery
  /\ wait' = IF wait > 0 THEN wait - 1 ELSE 0
  /\ rest' = UpTo(Recovery, rest + 1)
  /\ UNCHANGED <<state, failureCount, successCount, call, up, counted, broken, goods>>

ProviderTurns == up' = ~up /\ UNCHANGED <<breaker, call, history>>

Answer(c) == Succeed(c) \/ \E e \in Raised : Fail(c, e)

BreakerNext ==
  \/ Observe \/ reset \/ tripByHand \/ Tick \/ ProviderTurns
  \/ \E c \in Caller : Execute(c) \/ Answer(c)

BreakerSpec == BreakerInit /\ [][BreakerNext]_breakerVars

(* The clock runs, requests keep coming, and a provider that is up         *)
(* answers.                                                                *)
FairBreakerSpec ==
  /\ BreakerSpec /\ WF_breakerVars(Tick)
  /\ \A c \in Caller : WF_breakerVars(Execute(c)) /\ WF_breakerVars(Succeed(c))

-----------------------------------------------------------------------------
(* Properties. *)

(* A closed circuit has not just seen as many counted failures in a row as *)
(* the threshold allows, in whatever order concurrent answers, late ones   *)
(* from before an opening included, arrive.                                *)
ClosedMeansHealthy == state = "CLOSED" => counted < FailureThreshold

(* A provider is probed only after it was left alone for the whole         *)
(* recovery time since its last counted failure or trip, also when a       *)
(* failure of an earlier call arrives in the middle of the cooldown.  A    *)
(* circuit tripped by hand below the threshold is the exception: there     *)
(* such a failure does not prolong the cooldown.                           *)
ProbedAfterRest ==
  state = "HALF_OPEN" => rest = Recovery \/ failureCount < FailureThreshold

(* Unless an administrator resets it, a circuit closes only after          *)
(* SuccessThreshold successes with no counted failure among them.          *)
ClosesOnEvidence ==
  [][state # "CLOSED" /\ state' = "CLOSED"
       => reset \/ goods' = SuccessThreshold]_breakerVars

(* Once the provider stays up, and somebody keeps asking, the circuit      *)
(* closes for good, if no administrator keeps tripping it.                 *)
Recovers == <>[]up => <>[](state = "CLOSED") \/ []<><<tripByHand>>_breakerVars

(* "Check for HTTP 429 (Rate Limit / Quota) or HTTP 5xx": as many 429 or   *)
(* 5xx answers in a row as the threshold allows leave the circuit open.    *)
ServerErrorsOpen == state = "CLOSED" => broken < FailureThreshold
=============================================================================
