----------------------------- MODULE RoutingProofs -----------------------------
(***************************************************************************)
(* Proofs about what a route goes through: the circuit breaker before the  *)
(* routing provider (CircuitBreaker), for every number of callers, every   *)
(* threshold and every recovery time, and the proposals that put a trip on *)
(* another route (Replanning), for any number of proposals, of requests    *)
(* under way at once and of versions.  The two keep apart: Replanning      *)
(* takes what the provider or its fallback answers as given.               *)
(***************************************************************************)
EXTENDS CircuitBreaker, Replanning, TLAPS

-----------------------------------------------------------------------------
(* The circuit breaker. *)

(* Why the properties hold.  While the circuit is closed, the failure      *)
(* counter is exactly the number of counted failures in a row, so a closed *)
(* circuit is below the threshold; while it is open, what is left of the   *)
(* cooldown and the rest so far make up the recovery time; while it is     *)
(* half open, every success counted is a success of this rest.             *)
ClosedCounts ==
  state = "CLOSED" => failureCount = counted /\ failureCount < FailureThreshold
OpenRests ==
  state = "OPEN" => rest + wait >= Recovery \/ failureCount < FailureThreshold
ProbationCounts ==
  state = "HALF_OPEN" => successCount < SuccessThreshold /\ successCount <= goods

BreakerInv == BreakerTypeOK /\ ClosedCounts /\ OpenRests /\ ProbedAfterRest /\ ProbationCounts

USE DEF UpTo

(* The steps, one lemma for each action, from the typed invariant.         *)
LEMMA BreakerInitHolds == BreakerInit => BreakerInv
BY BreakerAssumption DEF BreakerInit, BreakerInv, BreakerTypeOK, ClosedCounts, OpenRests,
  ProbedAfterRest, ProbationCounts

LEMMA GetStateKeeps ==
  ASSUME BreakerInv, getState, UNCHANGED <<failureCount, wait, up, history>>,
         call' \in [Caller -> {"idle", "primary"}]
  PROVE  BreakerInv'
<1>1. CASE CooldownOver
  <2>1. state = "OPEN" /\ wait = 0 /\ state' = "HALF_OPEN" /\ successCount' = 0
    BY <1>1 DEF getState, CooldownOver, Probation
  <2>2. rest' = Recovery \/ failureCount' < FailureThreshold
    BY <2>1, BreakerAssumption DEF BreakerInv, BreakerTypeOK, OpenRests, history
  <2> QED
    BY <2>1, <2>2, BreakerAssumption
    DEF BreakerInv, BreakerTypeOK, ClosedCounts, OpenRests, ProbedAfterRest, ProbationCounts, history
<1>2. CASE ~CooldownOver
  BY <1>2 DEF getState, BreakerInv, BreakerTypeOK, ClosedCounts, OpenRests, ProbedAfterRest,
    ProbationCounts, history
<1> QED BY <1>1, <1>2

LEMMA SucceedKeeps ==
  ASSUME BreakerInv, NEW c \in Caller, Succeed(c)
  PROVE  BreakerInv'
<1>1. call' \in [Caller -> {"idle", "primary"}]
  BY DEF BreakerInv, BreakerTypeOK, Succeed
<1>2. CASE state = "HALF_OPEN"
  <2>1. successCount' <= goods' /\ successCount' \in 0..SuccessThreshold
    BY <1>2, BreakerAssumption DEF BreakerInv, BreakerTypeOK, ProbationCounts, Succeed, onSuccess
  <2> QED
    BY <1>1, <1>2, <2>1, BreakerAssumption
    DEF BreakerInv, BreakerTypeOK, ClosedCounts, OpenRests, ProbedAfterRest, ProbationCounts,
      Succeed, onSuccess
<1>3. CASE state # "HALF_OPEN"
  BY <1>1, <1>3, BreakerAssumption
  DEF BreakerInv, BreakerTypeOK, ClosedCounts, OpenRests, ProbedAfterRest, ProbationCounts,
    Succeed, onSuccess
<1> QED BY <1>2, <1>3

LEMMA FailKeeps ==
  ASSUME BreakerInv, NEW c \in Caller, NEW e \in Raised, Fail(c, e)
  PROVE  BreakerInv'
<1>1. call' \in [Caller -> {"idle", "primary"}]
  BY DEF BreakerInv, BreakerTypeOK, Fail
<1>2. CASE defaultIsFailure(e)
  BY <1>1, <1>2, BreakerAssumption
  DEF BreakerInv, BreakerTypeOK, ClosedCounts, OpenRests, ProbedAfterRest, ProbationCounts,
    Fail, onFailure
<1>3. CASE ~defaultIsFailure(e)
  BY <1>1, <1>3, BreakerAssumption
  DEF BreakerInv, BreakerTypeOK, ClosedCounts, OpenRests, ProbedAfterRest, ProbationCounts, Fail
<1> QED BY <1>2, <1>3

LEMMA BreakerStepKeeps == BreakerInv /\ [BreakerNext]_breakerVars => BreakerInv'
<1> SUFFICES ASSUME BreakerInv, [BreakerNext]_breakerVars PROVE BreakerInv'
  OBVIOUS
<1>1. CASE Observe
  BY <1>1, GetStateKeeps DEF Observe, BreakerInv, BreakerTypeOK
<1>2. ASSUME NEW c \in Caller, Execute(c) PROVE BreakerInv'
  <2>1. call' \in [Caller -> {"idle", "primary"}]
    BY <1>2 DEF Execute, BreakerInv, BreakerTypeOK
  <2> QED BY <1>2, <2>1, GetStateKeeps DEF Execute
<1>3. ASSUME NEW c \in Caller, Answer(c) PROVE BreakerInv'
  BY <1>3, SucceedKeeps, FailKeeps DEF Answer
<1>4. CASE reset
  BY <1>4, BreakerAssumption DEF reset, BreakerInv, BreakerTypeOK, ClosedCounts, OpenRests,
    ProbedAfterRest, ProbationCounts
<1>5. CASE tripByHand
  BY <1>5, BreakerAssumption DEF tripByHand, BreakerInv, BreakerTypeOK, ClosedCounts, OpenRests,
    ProbedAfterRest, ProbationCounts
<1>6. CASE Tick
  BY <1>6, BreakerAssumption DEF Tick, BreakerInv, BreakerTypeOK, ClosedCounts, OpenRests,
    ProbedAfterRest, ProbationCounts
<1>7. CASE ProviderTurns
  BY <1>7 DEF ProviderTurns, breaker, history, BreakerInv, BreakerTypeOK, ClosedCounts,
    OpenRests, ProbedAfterRest, ProbationCounts
<1>8. CASE UNCHANGED breakerVars
  BY <1>8 DEF breakerVars, breaker, history, BreakerInv, BreakerTypeOK, ClosedCounts, OpenRests,
    ProbedAfterRest, ProbationCounts
<1> QED BY <1>1, <1>2, <1>3, <1>4, <1>5, <1>6, <1>7, <1>8 DEF BreakerNext

(* The strengthening is an invariant of the breaker. *)
THEOREM BreakerInvariance == BreakerSpec => []BreakerInv
<1>1. BreakerInit => BreakerInv BY BreakerInitHolds
<1>2. BreakerInv /\ [BreakerNext]_breakerVars => BreakerInv' BY BreakerStepKeeps
<1> QED BY <1>1, <1>2, PTL DEF BreakerSpec

(* The counters stay in their ranges: successCount never passes its        *)
(* threshold although late successes are counted too.                      *)
THEOREM BreakerTyped == BreakerSpec => []BreakerTypeOK
<1>1. BreakerInv => BreakerTypeOK BY DEF BreakerInv
<1> QED BY <1>1, BreakerInvariance, PTL

(* A closed circuit has not just seen a threshold of counted failures.     *)
THEOREM ClosedIsHealthy == BreakerSpec => []ClosedMeansHealthy
<1>1. BreakerInv => ClosedMeansHealthy
  BY BreakerAssumption DEF BreakerInv, BreakerTypeOK, ClosedCounts, ClosedMeansHealthy
<1> QED BY <1>1, BreakerInvariance, PTL

(* No provider is probed before its rest is over. *)
THEOREM ProviderRests == BreakerSpec => []ProbedAfterRest
<1>1. BreakerInv => ProbedAfterRest BY DEF BreakerInv
<1> QED BY <1>1, BreakerInvariance, PTL

(* A circuit closes only on the evidence of enough successes. *)
THEOREM ClosingIsEarned == BreakerSpec => ClosesOnEvidence
<1> DEFINE Earned ==
      state # "CLOSED" /\ state' = "CLOSED" => reset \/ goods' = SuccessThreshold
<1>1. BreakerInv /\ [BreakerNext]_breakerVars => [Earned]_breakerVars
  <2> SUFFICES ASSUME BreakerInv, BreakerNext, state # "CLOSED", state' = "CLOSED"
               PROVE  reset \/ goods' = SuccessThreshold
    OBVIOUS
  <2>1. CASE reset
    BY <2>1
  <2>2. ASSUME NEW c \in Caller, Succeed(c) PROVE goods' = SuccessThreshold
    BY <2>2, BreakerAssumption
    DEF BreakerInv, BreakerTypeOK, ProbationCounts, Succeed, onSuccess
  <2>3. ~ Observe /\ ~ tripByHand /\ ~ Tick /\ ~ ProviderTurns
    BY DEF Observe, getState, tripByHand, Tick, ProviderTurns, breaker
  <2>4. ASSUME NEW c \in Caller PROVE ~ Execute(c)
    BY <2>4 DEF Execute, getState
  <2>5. ASSUME NEW c \in Caller, NEW e \in Raised PROVE ~ Fail(c, e)
    BY <2>5 DEF Fail, onFailure
  <2> QED BY <2>1, <2>2, <2>3, <2>4, <2>5 DEF BreakerNext, Answer
<1> QED BY <1>1, BreakerInvariance, PTL DEF BreakerSpec, ClosesOnEvidence

-----------------------------------------------------------------------------
(* Replanning. *)

(* A proposal that is still being synthesised has no other request and no  *)
(* past; so what makes it infeasible is decided before anybody can approve *)
(* it, and approvals never meet an infeasible one.                         *)
Synthesised ==
  \A r \in Request : req[r].kind = "propose" =>
    /\ req[r].of \in Proposal /\ proposal[req[r].of].status = "NONE"
    /\ \A q \in Request \ {r} : req[q].kind = "propose" => req[q].of # req[r].of

FreshUnknown ==
  \A p \in Proposal : proposal[p].status = "NONE" => p \notin signed \cup infeasible

InfeasibleRefused ==
  /\ infeasible \cap signed = {}
  /\ \A p \in infeasible : proposal[p].status \in {"FAILED", "REJECTED"}

(* Who waits for what, and on whose behalf. *)
Approvals ==
  /\ \A r \in Request : req[r].kind \in {"approve", "apply"} => req[r].of \in signed
  /\ \A r \in Request : req[r].kind = "approve" /\ req[r].at = "logging" =>
       req[r].version \in 1..made /\ origin[req[r].version] = req[r].of
  /\ \A p \in Proposal : proposal[p].approval = "APPROVED" => p \in signed

(* Whose versions there are, and which of them can be found in the trip's  *)
(* record or in a copy of it.                                              *)
Origins ==
  /\ origin[1] = Baseline
  /\ \A v \in 1..made : origin[v] \in {Baseline, Planner} \cup signed

Bindable(v) == v \in 1..made /\ origin[v] \in {Baseline} \cup signed

Bindings ==
  /\ Bindable(trip.version)
  /\ \A r \in Request : Bindable(req[r].copy.version)
  /\ \A p \in Proposal : proposal[p].candidate # 0 =>
       /\ proposal[p].candidate \in 1..made
       /\ origin[proposal[p].candidate] = p
       /\ p \in signed

IInv ==
  /\ TypeOK /\ VersionHistory
  /\ Synthesised /\ FreshUnknown /\ InfeasibleRefused /\ Approvals
  /\ Origins /\ Bindings

LEMMA InitHolds == Init => IInv
<1> SUFFICES ASSUME Init PROVE IInv
  OBVIOUS
<1>1. TypeOK /\ VersionHistory
  BY ReplanningAssumption DEF Init, TypeOK, VersionHistory, Version, Trip, Record,
    Waiting, Free, Scheduled
<1>2. Synthesised /\ FreshUnknown /\ InfeasibleRefused /\ Approvals
  BY DEF Init, Synthesised, FreshUnknown, InfeasibleRefused, Approvals, Free
<1>3. Origins /\ Bindings
  BY ReplanningAssumption DEF Init, Origins, Bindings, Bindable, Version, Free, Scheduled
<1> QED BY <1>1, <1>2, <1>3 DEF IInv

(* Typing of the records. *)
LEMMA DoneTyped ==
  ASSUME TypeOK, NEW r \in Request, Done(r)
  PROVE  /\ req' \in [Request -> Waiting]
         /\ req'[r] = Free
         /\ \A q \in Request \ {r} : req'[q] = req[q]
<1>1. Free \in Waiting
  BY ReplanningAssumption DEF Free, Waiting, Scheduled, Trip, Version
<1> QED BY <1>1 DEF TypeOK, Done

LEMMA AwaitTyped ==
  ASSUME TypeOK, NEW r \in Request,
         NEW k \in {"propose", "approve", "apply", "version", "depart", "complete"},
         NEW w \in {"planning", "logging", "binding", "writing"},
         NEW p \in Proposal \cup {None}, NEW now \in BOOLEAN, Await(r, k, w, p, now)
  PROVE  /\ req' \in [Request -> Waiting]
         /\ req'[r].kind = k /\ req'[r].at = w /\ req'[r].of = p
         /\ req'[r].copy = trip
         /\ \A q \in Request \ {r} : req'[q] = req[q]
BY ReplanningAssumption DEF TypeOK, Await, Waiting, Version

LEMMA ProposalTyped ==
  ASSUME TypeOK, NEW p \in Proposal, NEW x \in Record,
         proposal' = [proposal EXCEPT ![p] = x]
  PROVE  /\ proposal' \in [Proposal -> Record]
         /\ proposal'[p] = x
         /\ \A q \in Proposal \ {p} : proposal'[q] = proposal[q]
BY DEF TypeOK

-----------------------------------------------------------------------------
(* Every step keeps the strengthening. *)

LEMMA ProposeStartKeeps ==
  ASSUME IInv, NEW r \in Request, NEW p \in Proposal, ProposeStart(r, p)
  PROVE  IInv'
<1> USE DEF IInv
<1>1. Await(r, "propose", "planning", p, FALSE)
  BY DEF ProposeStart
<1>2. /\ req' \in [Request -> Waiting]
      /\ req'[r].kind = "propose" /\ req'[r].at = "planning" /\ req'[r].of = p
      /\ req'[r].copy = trip
      /\ \A q \in Request \ {r} : req'[q] = req[q]
  BY <1>1, AwaitTyped
<1>3. TypeOK'
  BY <1>2 DEF TypeOK, ProposeStart, route
<1>4. Synthesised'
  BY <1>2 DEF Synthesised, ProposeStart, Idle
<1>5. Approvals'
  BY <1>2 DEF Approvals, ProposeStart, route
<1>6. Bindings'
  BY <1>2 DEF Bindings, Bindable, ProposeStart, route
<1>7. VersionHistory' /\ FreshUnknown' /\ InfeasibleRefused' /\ Origins'
  BY DEF ProposeStart, route, VersionHistory, FreshUnknown, InfeasibleRefused, Origins
<1> QED BY <1>3, <1>4, <1>5, <1>6, <1>7

LEMMA ProposeEndKeeps ==
  ASSUME IInv, NEW r \in Request, ProposeEnd(r)
  PROVE  IInv'
<1> USE DEF IInv
<1> DEFINE p == req[r].of
<1>1. /\ req' \in [Request -> Waiting] /\ req'[r] = Free
      /\ \A q \in Request \ {r} : req'[q] = req[q]
  BY DoneTyped DEF ProposeEnd
<1>2. /\ req[r].kind = "propose" /\ p \in Proposal /\ proposal[p].status = "NONE"
      /\ p \notin signed \cup infeasible
  BY DEF ProposeEnd, At, Synthesised, FreshUnknown
<1>3. /\ proposal' \in [Proposal -> Record]
      /\ \A q \in Proposal \ {p} : proposal'[q] = proposal[q]
      /\ proposal'[p].status \in {"FAILED", "PENDING_APPROVAL", "PROPOSED"}
      /\ proposal'[p].approval # "APPROVED"
      /\ proposal'[p].candidate = proposal[p].candidate
      /\ infeasible' \subseteq infeasible \cup {p} /\ infeasible \subseteq infeasible'
      /\ p \in infeasible' => proposal'[p].status = "FAILED"
  <2>1. proposal \in [Proposal -> Record] /\ proposal[p].approval # "APPROVED"
    BY <1>2 DEF TypeOK, Approvals
  <2>2. ASSUME NEW x \in Record, proposal' = [proposal EXCEPT ![p] = x]
        PROVE  /\ proposal' \in [Proposal -> Record] /\ proposal'[p] = x
               /\ \A q \in Proposal \ {p} : proposal'[q] = proposal[q]
    BY <1>2, <2>2, ProposalTyped
  <2>3. CASE proposal' = [proposal EXCEPT ![p].status = "FAILED"]
             /\ infeasible' = infeasible \cup {p}
    <3> DEFINE x == [proposal[p] EXCEPT !.status = "FAILED"]
    <3>1. /\ x \in Record /\ x.status = "FAILED" /\ x.approval # "APPROVED"
          /\ x.candidate = proposal[p].candidate
      BY <1>2, <2>1 DEF Record
    <3>2. proposal' = [proposal EXCEPT ![p] = x]
      BY <2>3
    <3> HIDE DEF x
    <3> QED BY <2>2, <2>3, <3>1, <3>2
  <2>4. CASE proposal' = [proposal EXCEPT ![p].status = "PENDING_APPROVAL",
                                          ![p].approval = "PENDING"]
             /\ infeasible' = infeasible
    <3> DEFINE x == [proposal[p] EXCEPT !.status = "PENDING_APPROVAL",
                                        !.approval = "PENDING"]
    <3>1. /\ x \in Record /\ x.status = "PENDING_APPROVAL" /\ x.approval = "PENDING"
          /\ x.candidate = proposal[p].candidate
      BY <1>2, <2>1 DEF Record
    <3>2. proposal' = [proposal EXCEPT ![p] = x]
      BY <2>4
    <3> HIDE DEF x
    <3> QED BY <1>2, <2>2, <2>4, <3>1, <3>2
  <2>5. CASE proposal' = [proposal EXCEPT ![p].status = "PROPOSED"]
             /\ infeasible' = infeasible
    <3> DEFINE x == [proposal[p] EXCEPT !.status = "PROPOSED"]
    <3>1. /\ x \in Record /\ x.status = "PROPOSED" /\ x.approval # "APPROVED"
          /\ x.candidate = proposal[p].candidate
      BY <1>2, <2>1 DEF Record
    <3>2. proposal' = [proposal EXCEPT ![p] = x]
      BY <2>5
    <3> HIDE DEF x
    <3> QED BY <1>2, <2>2, <2>5, <3>1, <3>2
  <2> QED BY <2>3, <2>4, <2>5 DEF ProposeEnd
<1>4. TypeOK'
  BY <1>1, <1>2, <1>3 DEF TypeOK, ProposeEnd, route
<1>5. Synthesised'
  BY <1>1, <1>2, <1>3 DEF Synthesised, Free
<1>6. FreshUnknown' /\ InfeasibleRefused'
  <2>1. signed' = signed
    BY DEF ProposeEnd
  <2>2. FreshUnknown'
    BY <1>2, <1>3, <2>1 DEF FreshUnknown
  <2>3. InfeasibleRefused'
    BY <1>2, <1>3, <2>1 DEF InfeasibleRefused, TypeOK
  <2> QED BY <2>2, <2>3
<1>7. Approvals'
  BY <1>1, <1>2, <1>3 DEF Approvals, ProposeEnd, route, Free
<1>8. Bindings'
  <2>1. Bindable(1)
    BY DEF Bindable, TypeOK, Version, Origins
  <2>2. Bindable(1)' /\ \A v : Bindable(v) => Bindable(v)'
    BY <2>1 DEF Bindable, ProposeEnd, route
  <2>3. req'[r].copy.version = 1
    BY <1>1 DEF Free, Scheduled
  <2> QED BY <1>1, <1>2, <1>3, <2>2, <2>3 DEF Bindings, ProposeEnd, route
<1>9. VersionHistory' /\ Origins'
  BY DEF ProposeEnd, route, VersionHistory, Origins
<1> QED BY <1>4, <1>5, <1>6, <1>7, <1>8, <1>9

LEMMA VersionStartKeeps ==
  ASSUME IInv, NEW r \in Request, VersionStart(r)
  PROVE  IInv'
<1> USE DEF IInv
<1>1. Await(r, "version", "planning", None, FALSE)
  BY DEF VersionStart
<1>2. /\ req' \in [Request -> Waiting]
      /\ req'[r].kind = "version" /\ req'[r].copy = trip
      /\ \A q \in Request \ {r} : req'[q] = req[q]
  BY <1>1, AwaitTyped
<1>3. TypeOK'
  BY <1>2 DEF TypeOK, VersionStart, route
<1>4. Synthesised' /\ Approvals'
  BY <1>2 DEF Synthesised, Approvals, VersionStart, route
<1>5. Bindings'
  BY <1>2 DEF Bindings, Bindable, VersionStart, route
<1>6. VersionHistory' /\ FreshUnknown' /\ InfeasibleRefused' /\ Origins'
  BY DEF VersionStart, route, VersionHistory, FreshUnknown, InfeasibleRefused, Origins
<1> QED BY <1>3, <1>4, <1>5, <1>6

LEMMA CommitKeeps ==
  ASSUME IInv, NEW r \in Request, Commit(r)
  PROVE  IInv'
<1> USE DEF IInv
<1> DEFINE v == made + 1
           for == IF req[r].kind = "approve" THEN req[r].of ELSE Planner
<1>1. /\ made \in Version /\ v \in Version /\ made' = v /\ v # 1
      /\ 1..made' = 1..made \cup {v}
      /\ \A w \in 1..made : w \in Version \ {v}
  BY ReplanningAssumption DEF Commit, TypeOK, Version
<1>2. /\ for \in signed \cup {Planner}
      /\ for \in Proposal \cup {Planner}
      /\ req[r].kind = "approve" => for = req[r].of
  BY DEF Commit, At, Approvals, TypeOK
<1>3. /\ origin' \in [Version -> Proposal \cup {Baseline, Planner, None}]
      /\ origin'[v] = for
      /\ \A w \in Version \ {v} : origin'[w] = origin[w]
  BY <1>1, <1>2 DEF Commit, TypeOK
<1>4. /\ number' \in [Version -> 0..MaxVersions]
      /\ number'[v] = v
      /\ \A w \in Version \ {v} : number'[w] = number[w]
  BY <1>1 DEF Commit, Existing, TypeOK, Version
<1>5. /\ req' \in [Request -> Waiting]
      /\ \A q \in Request \ {r} : req'[q] = req[q]
      /\ req'[r].kind \in {"approve", "idle"}
      /\ req'[r].kind = "approve" =>
           req[r].kind = "approve" /\ req'[r].of = req[r].of /\ req'[r].version = v
      /\ req'[r].copy.version \in {req[r].copy.version, 1}
  <2>1. CASE req[r].kind = "version"
    <3>1. Done(r)
      BY <2>1 DEF Commit
    <3> QED BY <3>1, DoneTyped DEF Free, Scheduled
  <2>2. CASE req[r].kind # "version"
    <3>1. req[r].kind = "approve" /\ req[r] \in Waiting
      BY <2>2 DEF Commit, At, TypeOK
    <3>2. req' = [req EXCEPT ![r].at = "logging", ![r].version = v]
      BY <2>2 DEF Commit
    <3> DEFINE x == [req[r] EXCEPT !.at = "logging", !.version = v]
    <3>3. /\ x \in Waiting /\ x.kind = req[r].kind /\ x.of = req[r].of
          /\ x.version = v /\ x.copy = req[r].copy
      BY <1>1, <3>1 DEF Waiting
    <3>4. req' = [req EXCEPT ![r] = x]
      BY <3>2
    <3> HIDE DEF x
    <3> QED BY <3>1, <3>3, <3>4 DEF TypeOK
  <2> QED BY <2>1, <2>2
<1>6. UNCHANGED <<trip, proposal, infeasible, signed>>
  BY DEF Commit
<1>7. TypeOK'
  BY <1>1, <1>3, <1>4, <1>5, <1>6 DEF TypeOK, Commit, Retire
<1>8. VersionHistory'
  BY <1>1, <1>4 DEF VersionHistory, Commit, Retire, Version, TypeOK
<1>9. Synthesised' /\ FreshUnknown' /\ InfeasibleRefused'
  BY <1>5, <1>6 DEF Synthesised, FreshUnknown, InfeasibleRefused
<1>10. Approvals'
  <2>1. ASSUME NEW q \in Request, req'[q].kind = "approve", req'[q].at = "logging"
        PROVE  req'[q].version \in 1..made' /\ origin'[req'[q].version] = req'[q].of
    BY <1>1, <1>2, <1>3, <1>5, <2>1 DEF Approvals
  <2>2. ASSUME NEW q \in Request, req'[q].kind \in {"approve", "apply"}
        PROVE  req'[q].of \in signed'
    BY <1>5, <1>6, <2>2 DEF Approvals
  <2> QED BY <1>6, <2>1, <2>2 DEF Approvals
<1>11. Origins'
  BY <1>1, <1>2, <1>3, <1>6 DEF Origins
<1>12. Bindings'
  <2>1. \A w \in 1..made : w \in 1..made' /\ origin'[w] = origin[w]
    BY <1>1, <1>3
  <2>2. Bindable(1)' /\ \A w : Bindable(w) => Bindable(w)'
    BY <1>1, <1>6, <2>1 DEF Bindable, Origins, Version
  <2> QED BY <1>5, <1>6, <2>1, <2>2 DEF Bindings
<1> QED BY <1>7, <1>8, <1>9, <1>10, <1>11, <1>12

LEMMA PlanFailsKeeps ==
  ASSUME IInv, NEW r \in Request, PlanFails(r)
  PROVE  IInv'
<1> USE DEF IInv
<1>1. /\ req' \in [Request -> Waiting] /\ req'[r] = Free
      /\ \A q \in Request \ {r} : req'[q] = req[q]
  BY DoneTyped DEF PlanFails
<1>2. TypeOK'
  BY <1>1 DEF TypeOK, PlanFails, route
<1>3. Synthesised' /\ Approvals'
  BY <1>1 DEF Synthesised, Approvals, PlanFails, route, Free
<1>4. Bindings'
  <2>1. Bindable(1)' /\ \A w : Bindable(w) => Bindable(w)'
    BY DEF Bindable, Origins, TypeOK, Version, PlanFails, route
  <2>2. req'[r].copy.version = 1
    BY <1>1 DEF Free, Scheduled
  <2> QED BY <1>1, <2>1, <2>2 DEF Bindings, PlanFails, route
<1>5. VersionHistory' /\ FreshUnknown' /\ InfeasibleRefused' /\ Origins'
  BY DEF PlanFails, route, VersionHistory, FreshUnknown, InfeasibleRefused, Origins
<1> QED BY <1>2, <1>3, <1>4, <1>5

LEMMA ApproveStartKeeps ==
  ASSUME IInv, NEW r \in Request, NEW p \in Proposal, NEW now \in BOOLEAN,
         ApproveStart(r, p, now)
  PROVE  IInv'
<1> USE DEF IInv
<1>1. Await(r, "approve", "planning", p, now)
  BY DEF ApproveStart
<1>2. /\ req' \in [Request -> Waiting]
      /\ req'[r].kind = "approve" /\ req'[r].at = "planning" /\ req'[r].of = p
      /\ req'[r].copy = trip
      /\ \A q \in Request \ {r} : req'[q] = req[q]
  BY <1>1, AwaitTyped
<1>3. /\ signed' = signed \cup {p} /\ p \notin infeasible /\ proposal[p].status # "NONE"
      /\ UNCHANGED <<route, trip, proposal, infeasible>>
  BY DEF ApproveStart, Approvable, InfeasibleRefused
<1>4. TypeOK'
  BY <1>2, <1>3 DEF TypeOK, route
<1>5. Synthesised'
  BY <1>2, <1>3 DEF Synthesised
<1>6. FreshUnknown' /\ InfeasibleRefused'
  BY <1>3 DEF FreshUnknown, InfeasibleRefused
<1>7. Approvals'
  BY <1>2, <1>3 DEF Approvals, route
<1>8. VersionHistory' /\ Origins'
  BY <1>3 DEF VersionHistory, Origins, route
<1>9. Bindings'
  BY <1>2, <1>3 DEF Bindings, Bindable, route
<1> QED BY <1>4, <1>5, <1>6, <1>7, <1>8, <1>9

LEMMA BindKeeps ==
  ASSUME IInv, NEW r \in Request, Bind(r)
  PROVE  IInv'
<1> USE DEF IInv
<1> DEFINE p == req[r].of
           v == req[r].version
<1>1. /\ req[r] \in Waiting /\ req[r].kind = "approve" /\ req[r].at = "logging"
      /\ v \in 1..made /\ origin[v] = p /\ p \in signed /\ p \in Proposal
      /\ proposal[p].status # "NONE" /\ proposal[p] \in Record
  BY DEF Bind, At, TypeOK, Approvals, FreshUnknown
<1>2. v \in Version /\ Bindable(v) /\ Bindable(1)
  BY <1>1, ReplanningAssumption DEF TypeOK, Version, Bindable, Origins
<1>3. UNCHANGED <<route, infeasible, signed>>
  BY DEF Bind
<1>4. /\ proposal' \in [Proposal -> Record]
      /\ \A q \in Proposal \ {p} : proposal'[q] = proposal[q]
      /\ proposal'[p].status \in {proposal[p].status, "APPROVED"}
      /\ proposal'[p].candidate = v
  <2> DEFINE x == [proposal[p] EXCEPT !.approval = "APPROVED", !.candidate = v]
             y == [status |-> "APPROVED", approval |-> "APPROVED", candidate |-> v]
  <2>1. /\ x \in Record /\ y \in Record /\ x.candidate = v /\ y.candidate = v
        /\ x.status = proposal[p].status /\ y.status = "APPROVED"
    BY <1>1, <1>2 DEF Record
  <2>2. proposal' = [proposal EXCEPT ![p] = x] \/ proposal' = [proposal EXCEPT ![p] = y]
    BY DEF Bind, Candidate
  <2> HIDE DEF x, y
  <2> QED BY <1>1, <2>1, <2>2, ProposalTyped
<1>5. /\ req' \in [Request -> Waiting]
      /\ \A q \in Request \ {r} : req'[q] = req[q]
      /\ req'[r].kind \in {"approve", "idle"} /\ req'[r].at # "logging"
      /\ req'[r].kind = "approve" => req'[r].of = p
      /\ req'[r].copy.version \in {req[r].copy.version, 1}
  <2>1. CASE ~req[r].apply
    <3>1. Done(r)
      BY <2>1 DEF Bind
    <3> QED BY <3>1, DoneTyped DEF Free, Scheduled
  <2>2. CASE req[r].apply
    <3> DEFINE x == [req[r] EXCEPT !.at = "binding"]
    <3>1. /\ x \in Waiting /\ x.kind = "approve" /\ x.at = "binding"
          /\ x.of = p /\ x.copy = req[r].copy
      BY <1>1 DEF Waiting
    <3>2. req' = [req EXCEPT ![r] = x]
      BY <2>2 DEF Bind
    <3> HIDE DEF x
    <3> QED BY <3>1, <3>2 DEF TypeOK
  <2> QED BY <2>1, <2>2
<1>6. trip' \in Trip /\ trip'.version \in {trip.version, v}
  BY <1>2 DEF Bind, Candidate, TypeOK, Trip
<1>7. TypeOK'
  BY <1>3, <1>4, <1>5, <1>6 DEF TypeOK, route
<1>8. VersionHistory' /\ Origins'
  BY <1>3 DEF VersionHistory, Origins, route
<1>9. Synthesised'
  BY <1>1, <1>4, <1>5 DEF Synthesised
<1>10. FreshUnknown' /\ InfeasibleRefused'
  <2>1. p \notin infeasible
    BY <1>1 DEF InfeasibleRefused
  <2>2. FreshUnknown'
    BY <1>1, <1>3, <1>4 DEF FreshUnknown
  <2>3. InfeasibleRefused'
    BY <1>3, <1>4, <2>1 DEF InfeasibleRefused, TypeOK
  <2> QED BY <2>2, <2>3
<1>11. Approvals'
  BY <1>1, <1>3, <1>4, <1>5 DEF Approvals, route
<1>12. Bindings'
  <2>1. Bindable(trip'.version) /\ \A q \in Request : Bindable(req'[q].copy.version)
    BY <1>2, <1>5, <1>6 DEF Bindings
  <2>2. /\ Bindable(trip.version)'
        /\ \A q \in Request : Bindable(req[q].copy.version)'
    BY <1>3, <2>1 DEF Bindable, route
  <2>3. ASSUME NEW q \in Proposal, proposal'[q].candidate # 0
        PROVE  /\ proposal'[q].candidate \in 1..made'
               /\ origin'[proposal'[q].candidate] = q /\ q \in signed'
    BY <1>1, <1>3, <1>4, <2>3 DEF Bindings, route
  <2> QED BY <2>2, <2>3 DEF Bindings
<1> QED BY <1>7, <1>8, <1>9, <1>10, <1>11, <1>12

LEMMA AppliedKeeps ==
  ASSUME IInv, NEW r \in Request, Applied(r)
  PROVE  IInv'
<1> USE DEF IInv
<1> DEFINE p == req[r].of
           x == [proposal[p] EXCEPT !.status = "APPLIED"]
<1>1. /\ req' \in [Request -> Waiting] /\ req'[r] = Free
      /\ \A q \in Request \ {r} : req'[q] = req[q]
  BY DoneTyped DEF Applied
<1>2. p \in signed /\ p \in Proposal /\ p \notin infeasible
      /\ proposal[p] \in Record /\ proposal[p].status # "NONE"
  BY DEF Applied, At, Approvals, TypeOK, InfeasibleRefused, FreshUnknown
<1>3. /\ x \in Record /\ x.status = "APPLIED" /\ x.approval = proposal[p].approval
      /\ x.candidate = proposal[p].candidate
  BY <1>2 DEF Record
<1>4. UNCHANGED <<route, trip, infeasible, signed>>
      /\ proposal' = [proposal EXCEPT ![p] = x]
  BY DEF Applied
<1> HIDE DEF x
<1>5. /\ proposal' \in [Proposal -> Record] /\ proposal'[p] = x
      /\ \A q \in Proposal \ {p} : proposal'[q] = proposal[q]
  BY <1>2, <1>3, <1>4, ProposalTyped
<1>6. TypeOK'
  BY <1>1, <1>4, <1>5 DEF TypeOK, route
<1>7. VersionHistory' /\ Origins'
  BY <1>4 DEF VersionHistory, Origins, route
<1>8. Synthesised'
  BY <1>1, <1>2, <1>5 DEF Synthesised, Free
<1>9. FreshUnknown' /\ InfeasibleRefused'
  BY <1>2, <1>3, <1>4, <1>5 DEF FreshUnknown, InfeasibleRefused, TypeOK
<1>10. Approvals'
  BY <1>1, <1>2, <1>3, <1>4, <1>5 DEF Approvals, route, Free
<1>11. Bindings'
  <2>1. Bindable(1)
    BY DEF Bindable, Origins, TypeOK, Version
  <2>2. req'[r].copy.version = 1
    BY <1>1 DEF Free, Scheduled
  <2>3. Bindable(trip'.version) /\ \A q \in Request : Bindable(req'[q].copy.version)
    BY <1>1, <1>4, <2>1, <2>2 DEF Bindings
  <2>4. /\ Bindable(trip.version)'
        /\ \A q \in Request : Bindable(req[q].copy.version)'
    BY <1>4, <2>3 DEF Bindable, route
  <2>5. \A q \in Proposal : proposal'[q].candidate = proposal[q].candidate
    BY <1>3, <1>5
  <2> QED BY <1>4, <2>4, <2>5 DEF Bindings, route
<1> QED BY <1>6, <1>7, <1>8, <1>9, <1>10, <1>11

LEMMA RejectKeeps ==
  ASSUME IInv, NEW p \in Proposal, Reject(p)
  PROVE  IInv'
<1> USE DEF IInv
<1> DEFINE x == [proposal[p] EXCEPT !.status = "REJECTED", !.approval = "REJECTED"]
<1>1. /\ x \in Record /\ x.status = "REJECTED" /\ x.approval = "REJECTED"
      /\ x.candidate = proposal[p].candidate
  BY DEF TypeOK, Record
<1>2. /\ UNCHANGED <<route, trip, req, infeasible, signed>>
      /\ proposal' = [proposal EXCEPT ![p] = x] /\ proposal[p].status # "NONE"
  BY DEF Reject
<1> HIDE DEF x
<1>3. /\ proposal' \in [Proposal -> Record] /\ proposal'[p] = x
      /\ \A q \in Proposal \ {p} : proposal'[q] = proposal[q]
  BY <1>1, <1>2, ProposalTyped
<1>4. TypeOK'
  BY <1>2, <1>3 DEF TypeOK, route
<1>5. VersionHistory' /\ Origins'
  BY <1>2 DEF VersionHistory, Origins, route
<1>6. Synthesised' /\ FreshUnknown' /\ InfeasibleRefused'
  BY <1>1, <1>2, <1>3 DEF Synthesised, FreshUnknown, InfeasibleRefused, TypeOK
<1>7. Approvals'
  BY <1>1, <1>2, <1>3 DEF Approvals, route
<1>8. Bindings'
  <2>1. \A q \in Proposal : proposal'[q].candidate = proposal[q].candidate
    BY <1>1, <1>3
  <2> QED BY <1>2, <2>1 DEF Bindings, Bindable, route
<1> QED BY <1>4, <1>5, <1>6, <1>7, <1>8

LEMMA ApplyStartKeeps ==
  ASSUME IInv, NEW r \in Request, NEW p \in Proposal, ApplyStart(r, p)
  PROVE  IInv'
<1> USE DEF IInv
<1>1. Await(r, "apply", "binding", p, TRUE)
  BY DEF ApplyStart
<1>2. /\ req' \in [Request -> Waiting]
      /\ req'[r].kind = "apply" /\ req'[r].at = "binding" /\ req'[r].of = p
      /\ req'[r].copy = trip
      /\ \A q \in Request \ {r} : req'[q] = req[q]
  BY <1>1, AwaitTyped
<1>3. /\ UNCHANGED <<route, proposal, infeasible, signed>>
      /\ p \in signed /\ trip' = [trip EXCEPT !.version = proposal[p].candidate]
      /\ proposal[p].candidate \in 1..made /\ origin[proposal[p].candidate] = p
  BY DEF ApplyStart, Approvals, Bindings
<1>4. trip' \in Trip /\ trip'.version = proposal[p].candidate
  BY <1>3, ReplanningAssumption DEF TypeOK, Trip, Version
<1>5. TypeOK'
  BY <1>2, <1>3, <1>4 DEF TypeOK, route
<1>6. VersionHistory' /\ Origins' /\ FreshUnknown' /\ InfeasibleRefused'
  BY <1>3 DEF VersionHistory, Origins, FreshUnknown, InfeasibleRefused, route
<1>7. Synthesised' /\ Approvals'
  BY <1>2, <1>3 DEF Synthesised, Approvals, route
<1>8. Bindings'
  BY <1>2, <1>3, <1>4 DEF Bindings, Bindable, route
<1> QED BY <1>5, <1>6, <1>7, <1>8

LEMMA TripStatusKeeps ==
  ASSUME IInv, NEW st \in {"EN_ROUTE", "OTHER"}, TripStatusSet(st)
  PROVE  IInv'
<1> USE DEF IInv
<1>1. /\ UNCHANGED <<route, proposal, req, infeasible, signed>>
      /\ trip' \in Trip /\ trip'.version = trip.version
  BY DEF TripStatusSet, TypeOK, Trip
<1>2. TypeOK'
  BY <1>1 DEF TypeOK, route
<1>3. Bindings'
  BY <1>1 DEF Bindings, Bindable, route
<1>4. /\ VersionHistory' /\ Origins' /\ Synthesised' /\ FreshUnknown'
      /\ InfeasibleRefused' /\ Approvals'
  BY <1>1 DEF VersionHistory, Origins, Synthesised, FreshUnknown, InfeasibleRefused,
    Approvals, route
<1> QED BY <1>2, <1>3, <1>4

LEMMA TripUpdateStartKeeps ==
  ASSUME IInv, NEW r \in Request, NEW k \in {"depart", "complete"}, TripUpdateStart(r, k)
  PROVE  IInv'
<1> USE DEF IInv
<1>1. Await(r, k, "writing", None, FALSE)
  BY DEF TripUpdateStart
<1>2. /\ req' \in [Request -> Waiting]
      /\ req'[r].kind = k /\ req'[r].copy = trip
      /\ \A q \in Request \ {r} : req'[q] = req[q]
  BY <1>1, AwaitTyped
<1>3. UNCHANGED <<route, trip, proposal, infeasible, signed>>
  BY DEF TripUpdateStart
<1>4. TypeOK'
  BY <1>2, <1>3 DEF TypeOK, route
<1>5. Synthesised' /\ Approvals'
  BY <1>2, <1>3 DEF Synthesised, Approvals, route
<1>6. Bindings'
  BY <1>2, <1>3 DEF Bindings, Bindable, route
<1>7. VersionHistory' /\ FreshUnknown' /\ InfeasibleRefused' /\ Origins'
  BY <1>3 DEF route, VersionHistory, FreshUnknown, InfeasibleRefused, Origins
<1> QED BY <1>4, <1>5, <1>6, <1>7

(* The stale copy is written back: its version was the trip's once.        *)
LEMMA TripUpdateEndKeeps ==
  ASSUME IInv, NEW r \in Request, TripUpdateEnd(r)
  PROVE  IInv'
<1> USE DEF IInv
<1>1. /\ req' \in [Request -> Waiting] /\ req'[r] = Free
      /\ \A q \in Request \ {r} : req'[q] = req[q]
  BY DoneTyped DEF TripUpdateEnd
<1>2. req[r].copy \in Trip
  BY DEF TypeOK, Waiting
<1>3. trip' \in Trip /\ trip'.version = req[r].copy.version
  BY <1>2 DEF TripUpdateEnd, Trip
<1>4. UNCHANGED <<route, proposal, infeasible, signed>>
  BY DEF TripUpdateEnd
<1>5. TypeOK'
  BY <1>1, <1>3, <1>4 DEF TypeOK, route
<1>6. Synthesised' /\ Approvals'
  BY <1>1, <1>4 DEF Synthesised, Approvals, Free, route
<1>7. VersionHistory' /\ FreshUnknown' /\ InfeasibleRefused' /\ Origins'
  BY <1>4 DEF route, VersionHistory, FreshUnknown, InfeasibleRefused, Origins
<1>8. Bindings'
  <2>1. Bindable(1)
    BY DEF Bindable, Origins, TypeOK, Version
  <2>2. req'[r].copy.version = 1
    BY <1>1 DEF Free, Scheduled
  <2>3. Bindable(trip'.version) /\ \A q \in Request : Bindable(req'[q].copy.version)
    BY <1>1, <1>3, <2>1, <2>2 DEF Bindings
  <2>4. /\ Bindable(trip.version)'
        /\ \A q \in Request : Bindable(req[q].copy.version)'
    BY <1>4, <2>3 DEF Bindable, route
  <2> QED BY <1>4, <2>4 DEF Bindings, route
<1> QED BY <1>5, <1>6, <1>7, <1>8

LEMMA StutterKeeps ==
  ASSUME IInv, UNCHANGED vars
  PROVE  IInv'
BY DEF IInv, vars, route, TypeOK, VersionHistory, Synthesised, FreshUnknown,
  InfeasibleRefused, Approvals, Origins, Bindings, Bindable

LEMMA StepKeeps ==
  ASSUME IInv, [Next]_vars
  PROVE  IInv'
<1>1. CASE \E p \in Proposal : Reject(p)
  BY <1>1, RejectKeeps
<1>2. CASE \E st \in {"EN_ROUTE", "OTHER"} : TripStatusSet(st)
  BY <1>2, TripStatusKeeps
<1>3. ASSUME NEW r \in Request, Replan(r)
      PROVE  IInv'
  BY <1>3, ProposeStartKeeps, ApplyStartKeeps, ApproveStartKeeps, ProposeEndKeeps,
    BindKeeps, AppliedKeeps DEF Replan
<1>4. ASSUME NEW r \in Request, Versioning(r)
      PROVE  IInv'
  BY <1>4, VersionStartKeeps, CommitKeeps, PlanFailsKeeps DEF Versioning
<1>5. ASSUME NEW r \in Request, TripUpdate(r)
      PROVE  IInv'
  BY <1>5, TripUpdateStartKeeps, TripUpdateEndKeeps DEF TripUpdate
<1>6. CASE UNCHANGED vars
  BY <1>6, StutterKeeps
<1> QED BY <1>1, <1>2, <1>3, <1>4, <1>5, <1>6 DEF Next

-----------------------------------------------------------------------------
(* The theorems. *)

(* Whatever the dispatchers' requests do at once, the strengthening holds. *)
THEOREM ReplanningInvariance == Spec => []IInv
<1>1. Init => IInv
  BY InitHolds
<1>2. IInv /\ [Next]_vars => IInv'
  BY StepKeeps
<1> QED BY <1>1, <1>2, PTL DEF Spec

(* Every record keeps its shape: no request leaves a trip bound to a       *)
(* version number that is none, nor a proposal in a status of no meaning.  *)
THEOREM ReplanningTyped == Spec => []TypeOK
<1>1. IInv => TypeOK
  BY DEF IInv
<1> QED BY <1>1, ReplanningInvariance, PTL

(* Route versions: createRouteVersion counts and appends after its last    *)
(* await, so overlapping requests leave one active version and a numbering *)
(* without gap or repetition.                                              *)
THEOREM HistoryKept == Spec => []VersionHistory
<1>1. IInv => VersionHistory
  BY DEF IInv
<1> QED BY <1>1, ReplanningInvariance, PTL

(* No version is ever made on behalf of a proposal found infeasible: what  *)
(* is infeasible was never approved, and versions come from approvals.     *)
THEOREM InfeasibleStaysOut == Spec => []InfeasibleNeverCommitted
<1>1. IInv => InfeasibleNeverCommitted
  <2> SUFFICES ASSUME IInv, NEW v \in 1..made
               PROVE  origin[v] \notin infeasible
    BY DEF InfeasibleNeverCommitted
  <2>1. origin[v] \in {Baseline, Planner} \cup signed
    BY DEF IInv, Origins
  <2>2. infeasible \subseteq Proposal /\ infeasible \cap signed = {}
    BY DEF IInv, TypeOK, InfeasibleRefused
  <2> QED BY <2>1, <2>2, ReplanningAssumption
<1> QED BY <1>1, ReplanningInvariance, PTL

(* The trip runs on its baseline or on the version of a proposal some      *)
(* dispatcher approved, whatever stale copy is written back meanwhile.     *)
THEOREM SignedOnly == Spec => []OnlySignedBinds
<1>1. IInv => OnlySignedBinds
  BY DEF IInv, Bindings, Bindable, OnlySignedBinds
<1> QED BY <1>1, ReplanningInvariance, PTL
=============================================================================
