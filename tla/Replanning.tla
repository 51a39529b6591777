------------------------------ MODULE Replanning ------------------------------
(***************************************************************************)
(* Replanning of a trip: proposals and their approval                      *)
(* (src/src/lib/services/replanning.service.ts), the version history of    *)
(* the trip's route (route.service.ts) and the trip record they repoint    *)
(* (trip.service.ts), kept in the server's memory.                         *)
(*                                                                         *)
(* Several dispatchers' requests are under way at once.  A request yields  *)
(* where it awaits the routing engine or a write to the audit log or the   *)
(* fleet tables; a step is what runs between two such awaits.  "req" holds *)
(* what each request read before its await and uses after it.              *)
(***************************************************************************)
EXTENDS Integers

CONSTANTS
  Proposal, Request,
  Baseline, Planner, \* origins of a version that no proposal asked for
  None,
  MaxVersions        \* bound on the versions made

ASSUME ReplanningAssumption ==
  /\ Baseline \notin Proposal /\ Planner \notin Proposal /\ None \notin Proposal
  /\ MaxVersions \in Nat \ {0}

VARIABLES
  \* the route: versions 1..made in the order of creation
  made, live, activeVersion,
  number,       \* the versionNumber recorded in each
  origin,       \* on whose behalf each was created
  trip, proposal, req,
  \* history
  infeasible,   \* proposals whose alternative violates a constraint
  signed        \* proposals some dispatcher has approved

route == <<made, live, activeVersion, number, origin>>
vars == <<route, trip, proposal, req, infeasible, signed>>

Version == 1..MaxVersions
Trip == [status : {"EN_ROUTE", "COMPLETED", "OTHER"}, started : BOOLEAN,
         version : Version]
Record ==
  [status : {"NONE", "PROPOSED", "PENDING_APPROVAL", "FAILED", "APPROVED",
             "APPLIED", "REJECTED"},
   approval : {"NOT_REQUIRED", "PENDING", "APPROVED", "REJECTED"},
   candidate : Version \cup {0}]

(* A request: what it does, where it waits, the proposal it is about,      *)
(* whether the approval is to be applied at once, the version it made, and *)
(* its copies of the trip and of the route's list of versions (its length).*)
Waiting == [kind : {"idle", "propose", "approve", "apply", "version", "depart",
                    "complete"},
            at : {"planning", "logging", "binding", "writing"},
            of : Proposal \cup {None}, apply : BOOLEAN, version : Version \cup {0},
            copy : Trip, count : 0..MaxVersions]
Scheduled == [status |-> "OTHER", started |-> FALSE, version |-> 1]
Free == [kind |-> "idle", at |-> "planning", of |-> None, apply |-> FALSE,
         version |-> 0, copy |-> Scheduled, count |-> 0]

TypeOK ==
  /\ made \in Version /\ live \subseteq Version /\ activeVersion \in Version
  /\ number \in [Version -> 0..MaxVersions]
  /\ origin \in [Version -> Proposal \cup {Baseline, Planner, None}]
  /\ trip \in Trip
  /\ proposal \in [Proposal -> Record]
  /\ req \in [Request -> Waiting]
  /\ infeasible \subseteq Proposal /\ signed \subseteq Proposal

Init ==
  /\ made = 1 /\ live = {1} /\ activeVersion = 1
  /\ number = [v \in Version |-> IF v = 1 THEN 1 ELSE 0]
  /\ origin = [v \in Version |-> IF v = 1 THEN Baseline ELSE None]
  /\ trip = Scheduled
  /\ proposal = [p \in Proposal |->
       [status |-> "NONE", approval |-> "NOT_REQUIRED", candidate |-> 0]]
  /\ req = [r \in Request |-> Free]
  /\ infeasible = {} /\ signed = {}

(* Request r now waits at w; what it read is what is on record.            *)
Await(r, k, w, p, now) ==
  req' = [req EXCEPT ![r] =
    [kind |-> k, at |-> w, of |-> p, apply |-> now, version |-> 0,
     copy |-> trip, count |-> made]]

Done(r) == req' = [req EXCEPT ![r] = Free]
At(r, k, w) == req[r].kind \in k /\ req[r].at = w
Idle(r) == req[r].kind = "idle"

-----------------------------------------------------------------------------
(* proposeReplanning. *)

ProposeStart(r, p) ==
  /\ Idle(r) /\ proposal[p].status = "NONE"
  /\ \A q \in Request : Idle(q) \/ req[q].of # p
  /\ Await(r, "propose", "planning", p, FALSE)
  /\ UNCHANGED <<route, trip, proposal, infeasible, signed>>

(* The alternative is there: infeasible, critical, or neither.  A trip     *)
(* that was en route when the request read it makes any diversion          *)
(* critical.                                                               *)
ProposeEnd(r) ==
  LET p == req[r].of IN
  /\ At(r, {"propose"}, "planning")
  /\ \/ /\ proposal' = [proposal EXCEPT ![p].status = "FAILED"]
        /\ infeasible' = infeasible \cup {p}
     \/ /\ proposal' = [proposal EXCEPT ![p].status = "PENDING_APPROVAL",
                                        ![p].approval = "PENDING"]
        /\ UNCHANGED infeasible
     \/ /\ req[r].copy.status # "EN_ROUTE"
        /\ proposal' = [proposal EXCEPT ![p].status = "PROPOSED"]
        /\ UNCHANGED infeasible
  /\ Done(r)
  /\ UNCHANGED <<route, trip, signed>>

-----------------------------------------------------------------------------
(* createRouteVersion, for an approval or for a planner's own request.     *)

VersionStart(r) ==
  /\ Idle(r)
  /\ Await(r, "version", "planning", None, FALSE)
  /\ UNCHANGED <<route, trip, proposal, infeasible, signed>>

(* Plausible slip: the versions were counted before the routing engine was *)
(* asked.                                                                  *)
CountedBefore(r) == req[r].count

(* The versions on record, read after the routing engine has answered.     *)
Existing(r) == made

(* Every existing version is marked inactive; the new one is active.       *)
Retire(v) == {v}

(* The routing engine has answered: version N+1 is made, and made active.  *)
Commit(r) ==
  LET v == made + 1
      for == IF req[r].kind = "approve" THEN req[r].of ELSE Planner
  IN
  /\ At(r, {"approve", "version"}, "planning")
  /\ made < MaxVersions
  /\ made' = v
  /\ live' = Retire(v)
  /\ activeVersion' = v
  /\ number' = [number EXCEPT ![v] = Existing(r) + 1]
  /\ origin' = [origin EXCEPT ![v] = for]
  /\ IF req[r].kind = "version" THEN Done(r)
     ELSE req' = [req EXCEPT ![r].at = "logging", ![r].version = v]
  /\ UNCHANGED <<trip, proposal, infeasible, signed>>

(* The routing engine fails: the request ends with an error.               *)
PlanFails(r) ==
  /\ At(r, {"propose", "approve", "version"}, "planning")
  /\ Done(r)
  /\ UNCHANGED <<route, trip, proposal, infeasible, signed>>

-----------------------------------------------------------------------------
(* approveReplanning, rejectReplanning, applyReplanning. *)

(* Plausible slip: a rejected proposal can be taken up again.              *)
RejectedReopens(p) ==
  /\ proposal[p].status \notin {"NONE", "APPLIED", "FAILED"}
  /\ proposal[p].approval # "APPROVED"

(* Approving again what is approved or applied returns it unchanged;       *)
(* a failed or rejected proposal cannot be approved.                       *)
Approvable(p) ==
  /\ proposal[p].status \notin {"NONE", "APPLIED", "FAILED", "REJECTED"}
  /\ proposal[p].approval # "APPROVED"

ApproveStart(r, p, now) ==
  /\ Idle(r) /\ Approvable(p)
  /\ Await(r, "approve", "planning", p, now)
  /\ signed' = signed \cup {p}
  /\ UNCHANGED <<route, trip, proposal, infeasible>>

(* Plausible slip: whatever version of the route is active is taken.       *)
ActiveOne(r) == activeVersion

(* The version the request itself has made. *)
Candidate(r) == req[r].version

(* The new version is logged: the proposal is approved and, if asked for,  *)
(* the trip is bound to the new version.                                   *)
Bind(r) ==
  LET p == req[r].of IN
  /\ At(r, {"approve"}, "logging")
  /\ IF req[r].apply
     THEN /\ trip' = [trip EXCEPT !.version = Candidate(r)]
          /\ proposal' = [proposal EXCEPT ![p].approval = "APPROVED",
                                          ![p].candidate = Candidate(r)]
          /\ req' = [req EXCEPT ![r].at = "binding"]
     ELSE /\ proposal' = [proposal EXCEPT ![p] =
               [status |-> "APPROVED", approval |-> "APPROVED", candidate |-> Candidate(r)]]
          /\ Done(r) /\ UNCHANGED trip
  /\ UNCHANGED <<route, infeasible, signed>>

(* The trip's update is logged. *)
Applied(r) ==
  /\ At(r, {"approve", "apply"}, "binding")
  /\ proposal' = [proposal EXCEPT ![req[r].of].status = "APPLIED"]
  /\ Done(r)
  /\ UNCHANGED <<route, trip, infeasible, signed>>

Reject(p) ==
  /\ proposal[p].status \notin {"NONE", "APPLIED"}
  /\ proposal' = [proposal EXCEPT ![p].status = "REJECTED", ![p].approval = "REJECTED"]
  /\ UNCHANGED <<route, trip, req, infeasible, signed>>

ApplyStart(r, p) ==
  /\ Idle(r)
  /\ proposal[p].approval = "APPROVED" /\ proposal[p].candidate # 0
  /\ trip' = [trip EXCEPT !.version = proposal[p].candidate]
  /\ Await(r, "apply", "binding", p, TRUE)
  /\ UNCHANGED <<route, proposal, infeasible, signed>>

-----------------------------------------------------------------------------
(* updateTripRecord for a change of the trip's status.  Departure and      *)
(* completion first update vehicle, driver and shipments, one awaited      *)
(* write after the other; the record written back at the end is the copy   *)
(* read at the start.                                                      *)
TripUpdateStart(r, k) ==
  /\ Idle(r)
  /\ k = "depart" => ~trip.started
  /\ Await(r, k, "writing", None, FALSE)
  /\ UNCHANGED <<route, trip, proposal, infeasible, signed>>

TripUpdateEnd(r) ==
  /\ At(r, {"depart", "complete"}, "writing")
  /\ trip' = IF req[r].kind = "complete" THEN [req[r].copy EXCEPT !.status = "COMPLETED"]
             ELSE [req[r].copy EXCEPT !.status = "EN_ROUTE", !.started = TRUE]
  /\ Done(r)
  /\ UNCHANGED <<route, proposal, infeasible, signed>>

(* Any other update of the status is a single step; departure is one of    *)
(* them for a trip that has departed before.                               *)
TripStatusSet(st) ==
  /\ st = "EN_ROUTE" => trip.started
  /\ st # trip.status
  /\ trip' = [trip EXCEPT !.status = st]
  /\ UNCHANGED <<route, proposal, req, infeasible, signed>>

Replan(r) ==
  \/ \E p \in Proposal :
       ProposeStart(r, p) \/ ApplyStart(r, p) \/ \E now \in BOOLEAN : ApproveStart(r, p, now)
  \/ ProposeEnd(r) \/ Bind(r) \/ Applied(r)

Versioning(r) == VersionStart(r) \/ Commit(r) \/ PlanFails(r)

TripUpdate(r) == TripUpdateEnd(r) \/ \E k \in {"depart", "complete"} : TripUpdateStart(r, k)

Next ==
  \/ \E p \in Proposal : Reject(p)
  \/ \E st \in {"EN_ROUTE", "OTHER"} : TripStatusSet(st)
  \/ \E r \in Request : Replan(r) \/ Versioning(r) \/ TripUpdate(r)

Spec == Init /\ [][Next]_vars

-----------------------------------------------------------------------------
(* Properties. *)

(* The route's history survives every overlap of approvals and planners'   *)
(* requests: exactly one version is active, it is the last one, it is the  *)
(* one the route names, and the versions are numbered 1..N without gap.    *)
VersionHistory ==
  /\ live = {activeVersion} /\ activeVersion = made
  /\ \A v \in 1..made : number[v] = v

(* A proposal found infeasible never gets a route version, be it approved  *)
(* directly or after a rejection.                                          *)
InfeasibleNeverCommitted ==
  \A v \in 1..made : origin[v] \notin infeasible

(* Non-silent mutation: the trip runs on its baseline or on a version that *)
(* was made for a proposal a dispatcher approved, never on one a planner   *)
(* made meanwhile; and a proposal's candidate is its own version.          *)
OnlySignedBinds ==
  /\ origin[trip.version] \in {Baseline} \cup signed
  /\ \A p \in Proposal :
       proposal[p].candidate # 0 => origin[proposal[p].candidate] = p

(* "REJECTED: dispatcher rejected alternative proposal; trip remains on    *)
(* existing route baseline": the trip is never moved to the version of a   *)
(* proposal that stands rejected.                                          *)
RejectionStands ==
  [][\A p \in Proposal :
       proposal[p].status = "REJECTED" /\ trip'.version # trip.version
         => origin[trip'.version] # p]_vars

(* "APPLIED: Route Version N+1 committed and trip repointed": while no     *)
(* other proposal is approved, an applied one keeps the trip on its        *)
(* version.                                                                *)
AppliedIsBound ==
  \A p \in Proposal :
    proposal[p].status = "APPLIED" /\ signed = {p}
      /\ (\A v \in 1..made : origin[v] = p => v = proposal[p].candidate)
      => trip.version = proposal[p].candidate
=============================================================================
