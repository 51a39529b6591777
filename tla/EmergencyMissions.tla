--------------------------- MODULE EmergencyMissions ---------------------------
(***************************************************************************)
(* Emergency missions: the server's store with its audit trails            *)
(* (src/src/lib/services/emergency.service.ts, /api/v1/emergency) and the  *)
(* officers' pages that show and decide them                               *)
(* (src/src/app/(app)/emergency/page.tsx).                                 *)
(*                                                                         *)
(* A page shows the copy of a mission it was sent last.  Its buttons are   *)
(* not locked while an answer is awaited, answers come back in any order   *)
(* or not at all, and other officers decide the same mission meanwhile.    *)
(* The button that asks for a mission does not look at the status of the   *)
(* answer: an error's JSON becomes the mission shown.                      *)
(***************************************************************************)
EXTENDS Naturals, Sequences, FiniteSets

CONSTANTS
  Officer,   \* officers with the page open
  Request,   \* HTTP requests under way at once
  Id,        \* mission ids: the last six digits of the clock, which come round again
  Seed,      \* the id of the mission the store starts with
  Measure,   \* the recommended actions of a mission
  MaxPlans,  \* bound: missions ever generated
  MaxPresses, \* bound: buttons pressed on missions shown
  ErrorBody, \* the JSON of an error: success false, no field of a mission
  None

ASSUME EmergencyAssumption ==
  /\ Seed \in Id /\ Measure # {}
  /\ None \notin Officer /\ None \notin Measure /\ None \notin Id

VARIABLES
  store,   \* missionsStore: mission by id
  plans,   \* missions generated so far
  opened,  \* officers whose page has been mounted
  screen,  \* what a page shows as its mission: result
  req,     \* the requests under way
  pressed  \* buttons pressed so far

vars == <<store, plans, opened, screen, req, pressed>>

Status == {"PENDING", "ACCEPTED", "MODIFIED", "OVERRIDDEN"}
Decision == {"CREATED", "ACCEPTED", "MODIFIED", "OVERRIDDEN"}
Becomes(kind) == IF kind = "CREATED" THEN "PENDING" ELSE kind

(* One line of the audit trail; sight is how many lines of it the officer  *)
(* had seen when the button was pressed (history).                         *)
Line == [kind : Decision \cup {"EXECUTED"}, from : Status \cup {None},
         item : Measure \cup {None}, sight : Nat]

(* plan tells missions apart that were generated under one id (history).   *)
Mission == [id : Id, plan : Nat, status : Status,
            act : [Measure -> {"PENDING", "ACCEPTED", "EXECUTING", "OVERRIDDEN"}],
            ruled : BOOLEAN, trail : Seq(Line)]

Button == {"ACCEPT", "MODIFY", "OVERRIDE", "EXECUTE"}
Operation == Button \cup {"LOAD", "DISPATCH"}
(* What an answer carries and a page shows.                                *)
Copy == Mission \cup {ErrorBody}
Call == [by : Officer \cup {None}, op : Operation, id : Id \cup {None},
         item : Measure \cup {None}, plan : Nat, sight : Nat,
         answer : Copy \cup {None}]

ASSUME NoMissionAssumption ==
  None \notin Mission /\ None \notin Call /\ ErrorBody \notin Mission \cup {None}

TypeOK ==
  /\ store \in [Id -> Mission \cup {None}]
  /\ plans \in Nat
  /\ opened \subseteq Officer
  /\ screen \in [Officer -> Copy \cup {None}]
  /\ req \in [Request -> Call \cup {None}]
  /\ pressed \in Nat

-----------------------------------------------------------------------------
(* The mission record and what the handlers make of it. *)

Wrote(kind, from, item, sight) ==
  [kind |-> kind, from |-> from, item |-> item, sight |-> sight]

Generated(id, p) ==
  [id |-> id, plan |-> p, status |-> "PENDING", act |-> [i \in Measure |-> "PENDING"],
   ruled |-> FALSE, trail |-> <<Wrote("CREATED", None, None, 0)>>]

(* Plausible slip: every action becomes accepted, one under way too.       *)
AcceptedAll(m) ==
  [m EXCEPT !.status = "ACCEPTED", !.act = [i \in Measure |-> "ACCEPTED"],
            !.trail = Append(@, Wrote("ACCEPTED", m.status, None, 0))]

Accepted(m) ==
  [m EXCEPT !.status = "ACCEPTED",
            !.act = [i \in Measure |-> IF @[i] = "PENDING" THEN "ACCEPTED" ELSE @[i]],
            !.trail = Append(@, Wrote("ACCEPTED", m.status, None, 0))]

Modified(m) ==
  [m EXCEPT !.status = "MODIFIED",
            !.trail = Append(@, Wrote("MODIFIED", m.status, None, 0))]

Overridden(m) ==
  [m EXCEPT !.status = "OVERRIDDEN", !.act = [i \in Measure |-> "OVERRIDDEN"],
            !.ruled = TRUE,
            !.trail = Append(@, Wrote("OVERRIDDEN", m.status, None, 0))]

(* An execution leaves the mission's status alone, and asks for none.      *)
Executed(m, i, sight) ==
  [m EXCEPT !.act[i] = "EXECUTING",
            !.trail = Append(@, Wrote("EXECUTED", None, i, sight))]

Init ==
  /\ store = [id \in Id |-> IF id = Seed THEN Generated(Seed, 1) ELSE None]
  /\ plans = 1
  /\ opened = {}
  /\ screen = [o \in Officer |-> None]
  /\ req = [r \in Request |-> None]
  /\ pressed = 0

-----------------------------------------------------------------------------
(* The page. *)

Sent(r, c) == req[r] = None /\ req' = [req EXCEPT ![r] = c]

(* Missions asked for that the server has yet to generate.                 *)
Expected ==
  Cardinality({r \in Request : req[r] # None /\ req[r].answer = None /\ req[r].op = "DISPATCH"})

Awaits(o, op) == \E r \in Request : req[r] # None /\ req[r].by = o /\ req[r].op = op

Asked(o, op) == [by |-> o, op |-> op, id |-> None, item |-> None,
                 plan |-> 0, sight |-> 0, answer |-> None]

(* The page is opened and asks for the missions.                           *)
Open(o, r) ==
  /\ o \notin opened
  /\ opened' = opened \cup {o}
  /\ Sent(r, Asked(o, "LOAD"))
  /\ UNCHANGED <<store, plans, screen, pressed>>

(* dispatch: the only button that is locked while its answer is awaited.   *)
Dispatch(o, r) ==
  /\ o \in opened /\ ~Awaits(o, "DISPATCH")
  /\ plans + Expected < MaxPlans
  /\ Sent(r, Asked(o, "DISPATCH"))
  /\ UNCHANGED <<store, plans, opened, screen, pressed>>

(* Plausible slip: the button stays enabled.                               *)
OffersAll(m, op, i) == op # "ACCEPT" \/ m.status # "ACCEPTED"

(* The buttons of a mission shown, and when they are enabled.              *)
Offers(m, op, i) ==
  CASE op = "ACCEPT"  -> m.status # "ACCEPTED"
    [] op = "EXECUTE" -> m.act[i] # "OVERRIDDEN"
    [] OTHER          -> TRUE

Decide(o, op, m) == [Asked(o, op) EXCEPT !.id = m.id]

(* The request to execute action i, with what its officer had seen.        *)
Execute(o, i, m) ==
  [Decide(o, "EXECUTE", m) EXCEPT !.item = i, !.plan = m.plan, !.sight = Len(m.trail)]

(* An error has no actions, but the mission's own buttons are shown for it. *)
Press(o, r) ==
  /\ screen[o] # None /\ pressed < MaxPresses
  /\ pressed' = pressed + 1
  /\ \/ /\ screen[o] = ErrorBody
        /\ \E op \in Button \ {"EXECUTE"} : Sent(r, Asked(o, op))
     \/ /\ screen[o] # ErrorBody
        /\ LET m == screen[o] IN
           \E op \in Button, i \in Measure :
             /\ Offers(m, op, i)
             /\ Sent(r, IF op = "EXECUTE" THEN Execute(o, i, m) ELSE Decide(o, op, m))
  /\ UNCHANGED <<store, plans, opened, screen>>

Receive(r) ==
  /\ req[r] # None /\ req[r].by # None /\ req[r].answer # None
  /\ screen' = [screen EXCEPT ![req[r].by] = req[r].answer]
  /\ req' = [req EXCEPT ![r] = None]
  /\ UNCHANGED <<store, plans, opened, pressed>>

(* The connection fails: the page shows an error and keeps its copy, while *)
(* the request may still reach the server.                                 *)
Fail(r) ==
  /\ req[r] # None /\ req[r].by # None
  /\ req' = [req EXCEPT ![r] =
       IF req[r].answer # None THEN None ELSE [req[r] EXCEPT !.by = None]]
  /\ UNCHANGED <<store, plans, opened, screen, pressed>>

-----------------------------------------------------------------------------
(* The server. *)

(* The answer leaves with the mission as the handler left it.              *)
Answer(r, m) ==
  req' = [req EXCEPT ![r] =
    IF req[r].by = None THEN None ELSE [req[r] EXCEPT !.answer = m]]

Waiting(r, op) == req[r] # None /\ req[r].answer = None /\ req[r].op = op

(* listMissions: the mission generated last comes first, whatever its      *)
(* status.  Dispatches overlap in the alert they await before they store   *)
(* theirs, so of several missions generated any may be the one.            *)
ServeLoad(r) ==
  /\ Waiting(r, "LOAD")
  /\ \E id \in Id :
       /\ store[id] # None
       /\ store[id].plan = 1 => \A k \in Id : store[k] # None => store[k].plan = 1
       /\ Answer(r, store[id])
  /\ UNCHANGED <<store, plans, opened, screen, pressed>>

(* The optimiser's mission is stored under its id, whatever was there.     *)
ServeDispatch(r) ==
  /\ Waiting(r, "DISPATCH")
  /\ plans' = plans + 1
  /\ \E id \in Id :
       /\ store' = [store EXCEPT ![id] = Generated(id, plans + 1)]
       /\ Answer(r, Generated(id, plans + 1))
  /\ UNCHANGED <<opened, screen, pressed>>

(* What the officer of call c had seen of the trail of m.                  *)
Sight(c, m) == IF c.plan = m.plan THEN c.sight ELSE 0

Decided(c, m) ==
  CASE c.op = "ACCEPT"   -> Accepted(m)
    [] c.op = "MODIFY"   -> Modified(m)
    [] c.op = "OVERRIDE" -> Overridden(m)
    [] c.op = "EXECUTE"  -> Executed(m, c.item, Sight(c, m))

(* A second acceptance is refused, and so is what names no mission; the    *)
(* page then keeps its copy.                                               *)
Refused(c) == c.id = None \/ (c.op = "ACCEPT" /\ store[c.id].status = "ACCEPTED")

ServeDecision(r) ==
  /\ \E op \in Button : Waiting(r, op)
  /\ LET c == req[r] IN
     IF Refused(c)
     THEN req' = [req EXCEPT ![r] = None] /\ UNCHANGED store
     ELSE LET w == Decided(c, store[c.id]) IN
          store' = [store EXCEPT ![c.id] = w] /\ Answer(r, w)
  /\ UNCHANGED <<plans, opened, screen, pressed>>

(* HTTP 401, 429 or 500, before anything was done: only dispatch takes the *)
(* body for a mission, the other buttons keep the copy shown.              *)
ServeError(r) ==
  /\ \E op \in Operation : Waiting(r, op)
  /\ IF req[r].op = "DISPATCH" THEN Answer(r, ErrorBody)
     ELSE req' = [req EXCEPT ![r] = None]
  /\ UNCHANGED <<store, plans, opened, screen, pressed>>

Next ==
  \/ \E o \in Officer, r \in Request : Open(o, r) \/ Dispatch(o, r) \/ Press(o, r)
  \/ \E r \in Request :
       \/ Receive(r) \/ Fail(r)
       \/ ServeLoad(r) \/ ServeDispatch(r) \/ ServeDecision(r) \/ ServeError(r)

Spec == Init /\ [][Next]_vars

-----------------------------------------------------------------------------
(* Properties. *)

Decisions(t) == {k \in DOMAIN t : t[k].kind \in Decision}
Overrides(t) == {k \in DOMAIN t : t[k].kind = "OVERRIDDEN"}
Touches(t, i) == Overrides(t) \cup {k \in DOMAIN t : t[k].kind = "EXECUTED" /\ t[k].item = i}
Newest(K, k) == k \in K /\ \A l \in K : l <= k

(* What the trail says the state of a mission is. *)
StatusTold(m) ==
  \E k \in DOMAIN m.trail :
    Newest(Decisions(m.trail), k) /\ m.status = Becomes(m.trail[k].kind)

ActionTold(m, i) ==
  \/ /\ Touches(m.trail, i) = {}
     /\ m.act[i] = IF \E k \in DOMAIN m.trail : m.trail[k].kind = "ACCEPTED"
                   THEN "ACCEPTED" ELSE "PENDING"
  \/ \E k \in DOMAIN m.trail :
       /\ Newest(Touches(m.trail, i), k)
       /\ m.act[i] = IF k \in Overrides(m.trail) THEN "OVERRIDDEN" ELSE "EXECUTING"

(* Each decision starts from where the one before it ended, and none       *)
(* accepts what is accepted already.                                       *)
Chained(t) ==
  \A k \in Decisions(t) :
    k > 1 =>
      /\ \E j \in 1..(k - 1) :
           /\ Newest(Decisions(t) \cap 1..(k - 1), j)
           /\ t[k].from = Becomes(t[j].kind)
      /\ t[k].kind = "ACCEPTED" => t[k].from # "ACCEPTED"

TrailTells(m) ==
  /\ StatusTold(m) /\ Chained(m.trail)
  /\ m.ruled <=> Overrides(m.trail) # {}
  /\ \A i \in Measure : ActionTold(m, i)

(* m is an earlier state of the mission n, or n itself, unless another     *)
(* mission has taken its id.                                               *)
Precedes(m, n) ==
  m.plan = n.plan =>
    /\ Len(m.trail) <= Len(n.trail)
    /\ \A k \in DOMAIN m.trail : m.trail[k] = n.trail[k]

Shown == {screen[o] : o \in Officer} \cup {req[r].answer : r \in {q \in Request : req[q] # None}}

(* The audit trail of a mission accounts for its status, its override and  *)
(* the state of each of its actions; and every copy on a page, or on its   *)
(* way there, is the error a dispatch was answered with or the mission as  *)
(* its trail had it at some moment, not always the latest, however         *)
(* requests and answers overtook each other or were lost.                  *)
CopiesTellTrail ==
  /\ \A id \in Id : store[id] # None => TrailTells(store[id])
  /\ \A r \in Request : req[r] # None /\ req[r].answer = ErrorBody => req[r].op = "DISPATCH"
  /\ \A m \in Shown \ {None, ErrorBody} : TrailTells(m) /\ Precedes(m, store[m.id])

(* Whoever executed an action that had been overridden pressed the button  *)
(* on a copy of the mission from before the override: the server lets it   *)
(* pass, so only the copy shown keeps officers from it.  That copy need    *)
(* not be the newest the page has had (see PagesMoveOn).                   *)
OverruledUnseen ==
  \A id \in Id : store[id] # None =>
    LET t == store[id].trail IN
    \A k \in DOMAIN t : t[k].kind = "EXECUTED" =>
      \A j \in 1..(k - 1) :
        (j \in Overrides(t) /\ \A l \in Touches(t, t[k].item) : l <= j \/ l >= k)
          => t[k].sight < j

(* Claims of the comments that the code does not keep. *)

(* "transitions status PENDING -> ACCEPTED".                               *)
AcceptedFromPending ==
  \A id \in Id : store[id] # None =>
    \A k \in DOMAIN store[id].trail :
      store[id].trail[k].kind = "ACCEPTED" => store[id].trail[k].from = "PENDING"

(* "persistent life-cycle across application runtime".                     *)
MissionsPersist ==
  [][\A id \in Id : store[id] # None => store'[id].plan = store[id].plan]_vars

(* What officers may expect of a page and the code does not see to: that   *)
(* it never goes back to an older copy of the mission it shows.  A late    *)
(* answer does that, and may take an override off the page again.          *)
PagesMoveOn ==
  [][\A o \in Officer :
       LET m == screen[o] n == screen'[o] IN
       ({m, n} \cap {None, ErrorBody} = {} /\ n.plan = m.plan)
         => Len(m.trail) <= Len(n.trail)]_vars
=============================================================================
