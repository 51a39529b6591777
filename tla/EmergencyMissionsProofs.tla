------------------------ MODULE EmergencyMissionsProofs ------------------------
(* Theorems about EmergencyMissions, for any officers, ids and actions. *)
EXTENDS EmergencyMissions, TLAPS

-----------------------------------------------------------------------------
(* A line added to a trail. *)

LEMMA Added ==
  ASSUME NEW t \in Seq(Line), NEW e \in Line
  PROVE  LET u == Append(t, e) n == Len(t) + 1 IN
         /\ u \in Seq(Line) /\ DOMAIN u = 1..n /\ Len(u) = n /\ u[n] = e
         /\ DOMAIN t = 1..Len(t) /\ Len(t) \in Nat
         /\ \A k \in DOMAIN t : u[k] = t[k] /\ k < n
OBVIOUS

LEMMA SetsAdded ==
  ASSUME NEW t \in Seq(Line), NEW e \in Line, NEW i \in Measure
  PROVE  LET u == Append(t, e) n == Len(t) + 1 IN
         /\ Decisions(u) = Decisions(t) \cup IF e.kind \in Decision THEN {n} ELSE {}
         /\ Overrides(u) = Overrides(t) \cup IF e.kind = "OVERRIDDEN" THEN {n} ELSE {}
         /\ Touches(u, i) = Touches(t, i) \cup
              IF e.kind = "OVERRIDDEN" \/ (e.kind = "EXECUTED" /\ e.item = i) THEN {n} ELSE {}
         /\ Decisions(t) \subseteq 1..Len(t) /\ Overrides(t) \subseteq 1..Len(t)
         /\ Touches(t, i) \subseteq 1..Len(t)
<1> DEFINE u == Append(t, e) n == Len(t) + 1
<1>1. /\ DOMAIN u = 1..n /\ u[n] = e /\ DOMAIN t = 1..Len(t) /\ Len(t) \in Nat
      /\ \A k \in DOMAIN t : u[k] = t[k] /\ k < n
  BY Added
<1>2. \A k : k \in 1..n <=> k \in 1..Len(t) \/ k = n
  BY <1>1
<1> HIDE DEF u, n
<1>3. /\ Decisions(u) = Decisions(t) \cup IF e.kind \in Decision THEN {n} ELSE {}
      /\ Overrides(u) = Overrides(t) \cup IF e.kind = "OVERRIDDEN" THEN {n} ELSE {}
  BY <1>1, <1>2 DEF Decisions, Overrides
<1>4. Touches(u, i) = Touches(t, i) \cup
        IF e.kind = "OVERRIDDEN" \/ (e.kind = "EXECUTED" /\ e.item = i) THEN {n} ELSE {}
  BY <1>1, <1>2 DEF Touches, Overrides
<1>5. /\ Decisions(t) \subseteq 1..Len(t) /\ Overrides(t) \subseteq 1..Len(t)
      /\ Touches(t, i) \subseteq 1..Len(t)
  BY <1>1 DEF Decisions, Overrides, Touches
<1> QED BY <1>3, <1>4, <1>5 DEF u, n

-----------------------------------------------------------------------------
(* What the trail tells of the decisions, after one more line. *)

LEMMA StatusAdded ==
  ASSUME NEW m \in Mission, TrailTells(m), NEW w \in Mission, NEW e \in Line,
         w.trail = Append(m.trail, e), Measure # {},
         w.status = IF e.kind \in Decision THEN Becomes(e.kind) ELSE m.status
  PROVE  StatusTold(w)
<1> DEFINE t == m.trail u == w.trail n == Len(t) + 1
<1>0. PICK i : i \in Measure
  OBVIOUS
<1>1. t \in Seq(Line)
  BY DEF Mission
<1>2. /\ DOMAIN u = 1..n /\ u[n] = e /\ DOMAIN t = 1..Len(t) /\ Len(t) \in Nat
      /\ \A k \in DOMAIN t : u[k] = t[k] /\ k < n
  BY <1>1, Added
<1>3. /\ Decisions(u) = Decisions(t) \cup IF e.kind \in Decision THEN {n} ELSE {}
      /\ Decisions(t) \subseteq 1..Len(t)
  BY <1>0, <1>1, SetsAdded
<1>4. PICK k \in DOMAIN t : Newest(Decisions(t), k) /\ m.status = Becomes(t[k].kind)
  BY DEF TrailTells, StatusTold
<1> HIDE DEF n
<1>5. CASE e.kind \in Decision
  <2>0. n = Len(t) + 1 /\ n \in 1..n
    BY <1>2 DEF n
  <2>1. Newest(Decisions(u), n)
    BY <1>2, <1>3, <1>5, <2>0 DEF Newest
  <2> QED BY <1>2, <1>5, <2>0, <2>1 DEF StatusTold
<1>6. CASE e.kind \notin Decision
  <2>1. Newest(Decisions(u), k)
    BY <1>3, <1>4, <1>6 DEF Newest
  <2>2. k \in DOMAIN u /\ u[k] = t[k]
    BY <1>2, n = Len(t) + 1 DEF n
  <2> QED BY <1>4, <1>6, <2>1, <2>2 DEF StatusTold
<1> QED BY <1>5, <1>6

LEMMA ChainAdded ==
  ASSUME NEW m \in Mission, TrailTells(m), NEW e \in Line, Measure # {},
         e.kind \in Decision => e.from = m.status,
         e.kind = "ACCEPTED" => m.status # "ACCEPTED"
  PROVE  Chained(Append(m.trail, e))
<1> DEFINE t == m.trail u == Append(t, e) n == Len(t) + 1
<1>0. PICK i : i \in Measure
  OBVIOUS
<1>1. t \in Seq(Line)
  BY DEF Mission
<1>2. /\ DOMAIN u = 1..n /\ u[n] = e /\ DOMAIN t = 1..Len(t) /\ Len(t) \in Nat
      /\ \A k \in DOMAIN t : u[k] = t[k] /\ k < n
  BY <1>1, Added
<1>3. /\ Decisions(u) = Decisions(t) \cup IF e.kind \in Decision THEN {n} ELSE {}
      /\ Decisions(t) \subseteq 1..Len(t)
  BY <1>0, <1>1, SetsAdded
<1>4. PICK j \in DOMAIN t : Newest(Decisions(t), j) /\ m.status = Becomes(t[j].kind)
  BY DEF TrailTells, StatusTold
<1>5. n = Len(t) + 1
  OBVIOUS
<1> HIDE DEF n, u
<1>6. SUFFICES ASSUME NEW k \in Decisions(u), k > 1
               PROVE  /\ \E l \in 1..(k - 1) :
                           /\ Newest(Decisions(u) \cap 1..(k - 1), l)
                           /\ u[k].from = Becomes(u[l].kind)
                      /\ u[k].kind = "ACCEPTED" => u[k].from # "ACCEPTED"
  BY DEF Chained, u
<1>7. CASE k \in Decisions(t)
  <2>1. k \in 1..Len(t) /\ u[k] = t[k] /\ k < n
    BY <1>2, <1>3, <1>7
  <2>2. Decisions(u) \cap 1..(k - 1) = Decisions(t) \cap 1..(k - 1)
    BY <1>3, <2>1, <1>5
  <2>3. PICK l \in 1..(k - 1) : /\ Newest(Decisions(t) \cap 1..(k - 1), l)
                                /\ t[k].from = Becomes(t[l].kind)
    BY <1>6, <1>7 DEF TrailTells, Chained
  <2>4. u[l] = t[l]
    BY <1>2, <2>1, <2>3
  <2>5. t[k].kind = "ACCEPTED" => t[k].from # "ACCEPTED"
    BY <1>6, <1>7 DEF TrailTells, Chained
  <2> QED BY <2>1, <2>2, <2>3, <2>4, <2>5
<1>8. CASE k = n /\ e.kind \in Decision
  <2>1. Decisions(u) \cap 1..(k - 1) = Decisions(t)
    BY <1>2, <1>3, <1>5, <1>8
  <2>2. j \in 1..(k - 1) /\ u[j] = t[j]
    BY <1>2, <1>4, <1>5, <1>8
  <2> QED BY <1>2, <1>4, <1>8, <2>1, <2>2
<1> QED BY <1>3, <1>7, <1>8

-----------------------------------------------------------------------------
(* Each handler keeps the trail true to the mission. *)

LEMMA GeneratedTells ==
  ASSUME NEW id \in Id, NEW p \in Nat
  PROVE  Generated(id, p) \in Mission /\ TrailTells(Generated(id, p))
<1> DEFINE g == Generated(id, p)
<1>1. Wrote("CREATED", None, None, 0) \in Line
  BY DEF Wrote, Line, Decision
<1>2. /\ g \in Mission /\ g.trail = <<Wrote("CREATED", None, None, 0)>>
      /\ g.status = "PENDING" /\ ~g.ruled /\ \A i \in Measure : g.act[i] = "PENDING"
  BY <1>1 DEF Generated, Mission, Status
<1>3. /\ DOMAIN g.trail = {1} /\ g.trail[1].kind = "CREATED"
  BY <1>2 DEF Wrote
<1> HIDE DEF g
<1>4. Decisions(g.trail) = {1} /\ Overrides(g.trail) = {}
      /\ \A i \in Measure : Touches(g.trail, i) = {}
  BY <1>3 DEF Decisions, Overrides, Touches, Decision
<1>5. StatusTold(g)
  BY <1>2, <1>3, <1>4 DEF StatusTold, Newest, Becomes
<1>6. Chained(g.trail)
  BY <1>4 DEF Chained
<1>7. \A i \in Measure : ActionTold(g, i)
  BY <1>2, <1>3, <1>4 DEF ActionTold
<1>8. g.ruled <=> Overrides(g.trail) # {}
  BY <1>2, <1>4
<1>9. TrailTells(g)
  BY <1>5, <1>6, <1>7, <1>8 DEF TrailTells
<1> QED BY <1>2, <1>9 DEF g

LEMMA AcceptedTells ==
  ASSUME NEW m \in Mission, TrailTells(m), m.status # "ACCEPTED", Measure # {}
  PROVE  Accepted(m) \in Mission /\ TrailTells(Accepted(m))
<1> DEFINE w == Accepted(m) e == Wrote("ACCEPTED", m.status, None, 0)
           t == m.trail u == Append(t, e) n == Len(t) + 1
<1>1. e \in Line /\ e.kind = "ACCEPTED" /\ e.from = m.status /\ t \in Seq(Line)
  BY DEF Wrote, Line, Decision, Mission
<1>2. /\ DOMAIN u = 1..n /\ u \in Seq(Line) /\ u[n] = e /\ DOMAIN t = 1..Len(t)
      /\ Len(t) \in Nat /\ \A k \in DOMAIN t : u[k] = t[k] /\ k < n
  BY <1>1, Added
<1>3. /\ w \in Mission /\ w.trail = u /\ w.status = "ACCEPTED" /\ (w.ruled <=> m.ruled)
      /\ \A i \in Measure :
           w.act[i] = IF m.act[i] = "PENDING" THEN "ACCEPTED" ELSE m.act[i]
  BY <1>2 DEF Accepted, Mission, Status
<1> HIDE DEF w, e
<1>4. StatusTold(w) /\ Chained(u)
  BY <1>1, <1>3, StatusAdded, ChainAdded DEF Decision, Becomes
<1>5. ASSUME NEW i \in Measure
      PROVE  /\ Overrides(u) = Overrides(t) /\ Touches(u, i) = Touches(t, i)
             /\ Touches(t, i) \subseteq 1..Len(t)
  <2>1. /\ Overrides(u) = Overrides(t) \cup {} /\ Touches(u, i) = Touches(t, i) \cup {}
        /\ Touches(t, i) \subseteq 1..Len(t)
    BY <1>1, SetsAdded
  <2> QED BY <2>1
<1>6. w.ruled <=> Overrides(u) # {}
  BY <1>3, <1>5 DEF TrailTells
<1>7. ASSUME NEW i \in Measure PROVE ActionTold(w, i)
  <2>1. ActionTold(m, i)
    BY DEF TrailTells
  <2>2. CASE Touches(t, i) = {}
    BY <1>1, <1>2, <1>3, <1>5, <2>1, <2>2 DEF ActionTold, Newest
  <2>3. CASE Touches(t, i) # {}
    <3>1. PICK k \in DOMAIN t : Newest(Touches(t, i), k) /\
            m.act[i] = IF k \in Overrides(t) THEN "OVERRIDDEN" ELSE "EXECUTING"
      BY <2>1, <2>3 DEF ActionTold
    <3>2. k \in DOMAIN u /\ w.act[i] = m.act[i]
      BY <1>2, <1>3, <3>1
    <3> QED BY <1>3, <1>5, <3>1, <3>2 DEF ActionTold
  <2> QED BY <2>2, <2>3
<1> QED BY <1>3, <1>4, <1>6, <1>7 DEF TrailTells, w

LEMMA ModifiedTells ==
  ASSUME NEW m \in Mission, TrailTells(m), Measure # {}
  PROVE  Modified(m) \in Mission /\ TrailTells(Modified(m))
<1> DEFINE w == Modified(m) e == Wrote("MODIFIED", m.status, None, 0)
           t == m.trail u == Append(t, e) n == Len(t) + 1
<1>1. e \in Line /\ e.kind = "MODIFIED" /\ e.from = m.status /\ t \in Seq(Line)
  BY DEF Wrote, Line, Decision, Mission
<1>2. /\ DOMAIN u = 1..n /\ u \in Seq(Line) /\ u[n] = e /\ DOMAIN t = 1..Len(t)
      /\ Len(t) \in Nat /\ \A k \in DOMAIN t : u[k] = t[k] /\ k < n
  BY <1>1, Added
<1>3. /\ w \in Mission /\ w.trail = u /\ w.status = "MODIFIED" /\ (w.ruled <=> m.ruled)
      /\ w.act = m.act
  BY <1>2 DEF Modified, Mission, Status
<1> HIDE DEF w, e
<1>4. StatusTold(w) /\ Chained(u)
  BY <1>1, <1>3, StatusAdded, ChainAdded DEF Decision, Becomes
<1>5. ASSUME NEW i \in Measure
      PROVE  Overrides(u) = Overrides(t) /\ Touches(u, i) = Touches(t, i)
  <2>1. Overrides(u) = Overrides(t) \cup {} /\ Touches(u, i) = Touches(t, i) \cup {}
    BY <1>1, SetsAdded
  <2> QED BY <2>1
<1>6. w.ruled <=> Overrides(u) # {}
  BY <1>3, <1>5 DEF TrailTells
<1>7. ASSUME NEW i \in Measure PROVE ActionTold(w, i)
  <2>1. ActionTold(m, i)
    BY DEF TrailTells
  <2>2. (\E k \in DOMAIN u : u[k].kind = "ACCEPTED")
          <=> (\E k \in DOMAIN t : t[k].kind = "ACCEPTED")
    BY <1>1, <1>2
  <2>3. \A k \in DOMAIN t : k \in DOMAIN u
    BY <1>2
  <2> QED BY <1>3, <1>5, <2>1, <2>2, <2>3 DEF ActionTold
<1> QED BY <1>3, <1>4, <1>6, <1>7 DEF TrailTells, w

LEMMA OverriddenTells ==
  ASSUME NEW m \in Mission, TrailTells(m), Measure # {}
  PROVE  Overridden(m) \in Mission /\ TrailTells(Overridden(m))
<1> DEFINE w == Overridden(m) e == Wrote("OVERRIDDEN", m.status, None, 0)
           t == m.trail u == Append(t, e) n == Len(t) + 1
<1>1. e \in Line /\ e.kind = "OVERRIDDEN" /\ e.from = m.status /\ t \in Seq(Line)
  BY DEF Wrote, Line, Decision, Mission
<1>2. /\ DOMAIN u = 1..n /\ u \in Seq(Line) /\ u[n] = e /\ DOMAIN t = 1..Len(t)
      /\ Len(t) \in Nat /\ n \in 1..n
  BY <1>1, Added
<1>3. /\ w \in Mission /\ w.trail = u /\ w.status = "OVERRIDDEN" /\ w.ruled
      /\ \A i \in Measure : w.act[i] = "OVERRIDDEN"
  BY <1>2 DEF Overridden, Mission, Status
<1> HIDE DEF w, e
<1>4. StatusTold(w) /\ Chained(u)
  BY <1>1, <1>3, StatusAdded, ChainAdded DEF Decision, Becomes
<1>5. ASSUME NEW i \in Measure
      PROVE  /\ Overrides(u) = Overrides(t) \cup {n} /\ Touches(u, i) = Touches(t, i) \cup {n}
             /\ Touches(t, i) \subseteq 1..Len(t)
  BY <1>1, SetsAdded
<1>6. w.ruled <=> Overrides(u) # {}
  BY <1>3, <1>5
<1>7. ASSUME NEW i \in Measure PROVE ActionTold(w, i)
  <2>1. Newest(Touches(u, i), n) /\ n \in Overrides(u) /\ n \in DOMAIN u
    BY <1>2, <1>5 DEF Newest
  <2> QED BY <1>3, <2>1 DEF ActionTold
<1> QED BY <1>3, <1>4, <1>6, <1>7 DEF TrailTells, w

LEMMA ExecutedTells ==
  ASSUME NEW m \in Mission, TrailTells(m), NEW h \in Measure, NEW sight \in Nat
  PROVE  Executed(m, h, sight) \in Mission /\ TrailTells(Executed(m, h, sight))
<1> DEFINE w == Executed(m, h, sight) e == Wrote("EXECUTED", None, h, sight)
           t == m.trail u == Append(t, e) n == Len(t) + 1
<1>1. e \in Line /\ e.kind = "EXECUTED" /\ e.item = h /\ t \in Seq(Line)
  BY DEF Wrote, Line, Decision, Mission
<1>2. /\ DOMAIN u = 1..n /\ u \in Seq(Line) /\ u[n] = e /\ DOMAIN t = 1..Len(t)
      /\ Len(t) \in Nat /\ n \in 1..n /\ \A k \in DOMAIN t : u[k] = t[k] /\ k < n
  BY <1>1, Added
<1>3. /\ w \in Mission /\ w.trail = u /\ w.status = m.status /\ (w.ruled <=> m.ruled)
      /\ w.act[h] = "EXECUTING" /\ \A i \in Measure : i # h => w.act[i] = m.act[i]
  BY <1>2 DEF Executed, Mission
<1> HIDE DEF w, e
<1>4. StatusTold(w) /\ Chained(u)
  BY <1>1, <1>3, StatusAdded, ChainAdded DEF Decision, Becomes
<1>5. ASSUME NEW i \in Measure
      PROVE  /\ Overrides(u) = Overrides(t) /\ Overrides(t) \subseteq 1..Len(t)
             /\ Touches(u, i) = Touches(t, i) \cup (IF i = h THEN {n} ELSE {})
             /\ Touches(t, i) \subseteq 1..Len(t)
  <2>1. /\ Overrides(u) = Overrides(t) \cup {} /\ Overrides(t) \subseteq 1..Len(t)
        /\ Touches(u, i) = Touches(t, i) \cup (IF i = h THEN {n} ELSE {})
        /\ Touches(t, i) \subseteq 1..Len(t)
    BY <1>1, SetsAdded
  <2> QED BY <2>1
<1>6. w.ruled <=> Overrides(u) # {}
  BY <1>3, <1>5 DEF TrailTells
<1>7. ASSUME NEW i \in Measure PROVE ActionTold(w, i)
  <2>1. ActionTold(m, i)
    BY DEF TrailTells
  <2>2. CASE i = h
    <3>1. Newest(Touches(u, i), n) /\ n \notin Overrides(u) /\ n \in DOMAIN u
      BY <1>2, <1>5, <2>2 DEF Newest
    <3> QED BY <1>3, <2>2, <3>1 DEF ActionTold
  <2>3. CASE i # h
    <3>1. Touches(u, i) = Touches(t, i)
      BY <1>5, <2>3
    <3>2. (\E k \in DOMAIN u : u[k].kind = "ACCEPTED")
            <=> (\E k \in DOMAIN t : t[k].kind = "ACCEPTED")
      BY <1>1, <1>2
    <3>3. \A k \in DOMAIN t : k \in DOMAIN u
      BY <1>2
    <3> QED BY <1>3, <1>5, <2>1, <2>3, <3>1, <3>2, <3>3 DEF ActionTold
  <2> QED BY <2>2, <2>3
<1> QED BY <1>3, <1>4, <1>6, <1>7 DEF TrailTells, w

-----------------------------------------------------------------------------
(* The invariant. *)

(* A mission in the store: under its id, and true to its trail.            *)
Stored(id) ==
  store[id] # None =>
    store[id].id = id /\ store[id].plan <= plans /\ TrailTells(store[id])

(* A copy of a mission: an earlier state of the one under its id.          *)
Copied(m) ==
  m \notin {None, ErrorBody} =>
    /\ store[m.id] # None /\ m.plan <= plans
    /\ TrailTells(m) /\ Precedes(m, store[m.id])

(* Only a dispatch is answered with an error that is shown.                *)
Erred(c) == c.answer = ErrorBody => c.op = "DISPATCH"

(* In the first n lines of t no override of action i stood at the end.     *)
Foreseen(n, t, i) ==
  /\ n <= Len(t)
  /\ \A j \in Overrides(t) : j <= n => \E l \in Touches(t, i) : j < l /\ l <= n

(* A request to execute an action stems from a page that offered it.       *)
Founded(c) ==
  c.op \in Button /\ c.id # None =>
    /\ c.id \in Id /\ store[c.id] # None
    /\ c.op = "EXECUTE" =>
         /\ c.item \in Measure /\ c.plan <= plans
         /\ c.plan = store[c.id].plan => Foreseen(c.sight, store[c.id].trail, c.item)

(* Of one trail, what OverruledUnseen says of all.                         *)
SeenLate(t) ==
  \A k \in DOMAIN t : t[k].kind = "EXECUTED" =>
    \A j \in 1..(k - 1) :
      (j \in Overrides(t) /\ \A l \in Touches(t, t[k].item) : l <= j \/ l >= k)
        => t[k].sight < j

IInv ==
  /\ TypeOK
  /\ \A id \in Id : Stored(id)
  /\ \A id \in Id : store[id] # None => SeenLate(store[id].trail)
  /\ \A o \in Officer : Copied(screen[o])
  /\ \A r \in Request : req[r] # None => Copied(req[r].answer)
  /\ \A r \in Request : req[r] # None => Founded(req[r]) /\ Erred(req[r])

LEMMA InvImplies == IInv => CopiesTellTrail /\ OverruledUnseen
<1> SUFFICES ASSUME IInv PROVE CopiesTellTrail /\ OverruledUnseen
  OBVIOUS
<1>1. \A id \in Id : store[id] # None => TrailTells(store[id])
  BY DEF IInv, Stored
<1>2. \A m \in Shown \ {None, ErrorBody} : TrailTells(m) /\ Precedes(m, store[m.id])
  BY DEF IInv, Copied, Shown
<1>4. \A r \in Request : req[r] # None /\ req[r].answer = ErrorBody => req[r].op = "DISPATCH"
  BY DEF IInv, Erred
<1>3. OverruledUnseen
  BY DEF IInv, OverruledUnseen, SeenLate
<1> QED BY <1>1, <1>2, <1>3, <1>4 DEF CopiesTellTrail

LEMMA SeenLateAdded ==
  ASSUME NEW t \in Seq(Line), NEW e \in Line, SeenLate(t),
         e.kind = "EXECUTED" => Foreseen(e.sight, t, e.item)
  PROVE  SeenLate(Append(t, e))
<1> DEFINE u == Append(t, e) n == Len(t) + 1
<1>1. /\ DOMAIN u = 1..n /\ u[n] = e /\ DOMAIN t = 1..Len(t) /\ Len(t) \in Nat
      /\ \A k \in DOMAIN t : u[k] = t[k] /\ k < n
  BY Added
<1>2. n = Len(t) + 1
  OBVIOUS
<1> HIDE DEF u, n
<1>3. \A j : j \in Overrides(u) /\ j \in DOMAIN t => j \in Overrides(t)
  BY <1>1 DEF Overrides
<1>4. \A i : Touches(t, i) \subseteq Touches(u, i) /\ Touches(t, i) \subseteq 1..Len(t)
  BY <1>1, <1>2 DEF Touches, Overrides
<1>5. SUFFICES ASSUME NEW k \in DOMAIN u, u[k].kind = "EXECUTED", NEW j \in 1..(k - 1),
                      j \in Overrides(u),
                      \A l \in Touches(u, u[k].item) : l <= j \/ l >= k
               PROVE  u[k].sight < j
  BY DEF SeenLate, u
<1>6. j \in DOMAIN t /\ j \in Overrides(t) /\ j \in Nat /\ k \in Nat
  BY <1>1, <1>2, <1>3, <1>5
<1>7. CASE k \in DOMAIN t
  <2>1. u[k] = t[k]
    BY <1>1, <1>7
  <2>2. \A l \in Touches(t, t[k].item) : l <= j \/ l >= k
    BY <1>4, <1>5, <2>1
  <2> QED BY <1>5, <1>6, <1>7, <2>1, <2>2 DEF SeenLate
<1>8. CASE k = n
  <2>1. Foreseen(e.sight, t, e.item) /\ e.sight \in Nat /\ u[k] = e
    BY <1>1, <1>5, <1>8 DEF Line
  <2>2. ASSUME j <= e.sight PROVE FALSE
    <3>1. PICK l \in Touches(t, e.item) : j < l /\ l <= e.sight
      BY <1>6, <2>1, <2>2 DEF Foreseen
    <3>2. l \in 1..Len(t) /\ (l <= j \/ l >= k)
      BY <1>4, <1>5, <2>1, <3>1
    <3> QED BY <1>1, <1>2, <1>6, <1>8, <3>1, <3>2
  <2> QED BY <1>6, <2>1, <2>2
<1> QED BY <1>1, <1>2, <1>7, <1>8

(* A page that offers an action has seen no override of it that stands.    *)
LEMMA OfferForeseen ==
  ASSUME NEW m \in Mission, TrailTells(m), NEW i \in Measure, m.act[i] # "OVERRIDDEN"
  PROVE  Foreseen(Len(m.trail), m.trail, i)
<1> DEFINE t == m.trail
<1>1. t \in Seq(Line) /\ Len(t) \in Nat /\ DOMAIN t = 1..Len(t)
  BY DEF Mission
<1>2. ActionTold(m, i)
  BY DEF TrailTells
<1>3. Overrides(t) \subseteq Touches(t, i) /\ Touches(t, i) \subseteq 1..Len(t)
  BY <1>1 DEF Touches, Overrides
<1>4. ASSUME NEW j \in Overrides(t)
      PROVE  \E l \in Touches(t, i) : j < l /\ l <= Len(t)
  <2>1. PICK k \in DOMAIN t : Newest(Touches(t, i), k) /\ k \notin Overrides(t)
    BY <1>2, <1>3 DEF ActionTold
  <2> QED BY <1>1, <1>3, <2>1 DEF Newest
<1> QED BY <1>1, <1>4 DEF Foreseen

LEMMA ForeseenLater ==
  ASSUME NEW m \in Mission, NEW n \in Mission, m.plan = n.plan, Precedes(m, n),
         NEW s \in Nat, NEW i, Foreseen(s, m.trail, i)
  PROVE  Foreseen(s, n.trail, i)
<1> DEFINE t == m.trail u == n.trail
<1>1. /\ t \in Seq(Line) /\ Len(t) \in Nat /\ DOMAIN t = 1..Len(t)
      /\ u \in Seq(Line) /\ Len(u) \in Nat /\ DOMAIN u = 1..Len(u)
  BY DEF Mission
<1>2. Len(t) <= Len(u) /\ \A k \in DOMAIN t : t[k] = u[k]
  BY DEF Precedes
<1>3. \A j : j \in Overrides(u) /\ j <= s => j \in Overrides(t)
  BY <1>1, <1>2 DEF Overrides, Foreseen
<1>4. Touches(t, i) \subseteq Touches(u, i)
  BY <1>1, <1>2 DEF Touches, Overrides
<1> QED BY <1>1, <1>2, <1>3, <1>4 DEF Foreseen

-----------------------------------------------------------------------------
(* The store only moves on: each mission goes on from where it was, or     *)
(* gives way to a newer one.                                               *)

Follows(m, n) == n.plan = m.plan /\ Precedes(m, n)

MovesOn ==
  /\ TypeOK' /\ plans \in Nat /\ plans' \in Nat /\ plans <= plans'
  /\ \A id \in Id : store[id] # None =>
       store'[id] # None /\ (Follows(store[id], store'[id]) \/ store'[id].plan > plans)

LEMMA CopiedKept ==
  ASSUME TypeOK, MovesOn, NEW m \in Copy \cup {None}, Copied(m)
  PROVE  Copied(m)'
<1> SUFFICES ASSUME m \notin {None, ErrorBody}
             PROVE  /\ store'[m.id] # None /\ m.plan <= plans'
                    /\ TrailTells(m) /\ Precedes(m, store'[m.id])
  BY DEF Copied
<1> DEFINE n == store[m.id] p == store'[m.id]
<1>1. m \in Mission /\ m.id \in Id /\ m.plan \in Nat /\ m.trail \in Seq(Line)
  BY DEF Mission, Copy
<1>2. /\ n # None /\ m.plan <= plans /\ TrailTells(m) /\ Precedes(m, n)
      /\ p # None /\ (Follows(n, p) \/ p.plan > plans)
  BY <1>1 DEF Copied, MovesOn
<1>3. n \in Mission /\ p \in Mission
  BY <1>1, <1>2 DEF MovesOn, TypeOK
<1>4. p.plan \in Nat /\ n.trail \in Seq(Line) /\ p.trail \in Seq(Line)
  BY <1>3 DEF Mission
<1> HIDE DEF n, p
<1>5. Precedes(m, p)
  <2>1. CASE Follows(n, p)
    <3>1. SUFFICES ASSUME m.plan = p.plan
                   PROVE  /\ Len(m.trail) <= Len(p.trail)
                          /\ \A k \in DOMAIN m.trail : m.trail[k] = p.trail[k]
      BY DEF Precedes
    <3>2. /\ Len(m.trail) <= Len(n.trail) /\ \A k \in DOMAIN m.trail : m.trail[k] = n.trail[k]
          /\ Len(n.trail) <= Len(p.trail) /\ \A k \in DOMAIN n.trail : n.trail[k] = p.trail[k]
      BY <1>2, <2>1, <3>1 DEF Follows, Precedes
    <3>3. \A k \in DOMAIN m.trail : k \in DOMAIN n.trail
      BY <1>1, <1>4, <3>2
    <3>4. Len(m.trail) <= Len(p.trail)
      BY <1>1, <1>4, <3>2
    <3> QED BY <3>2, <3>3, <3>4
  <2>2. CASE p.plan > plans
    BY <1>1, <1>2, <1>4, <2>2 DEF Precedes, TypeOK
  <2> QED BY <1>2, <2>1, <2>2
<1> QED BY <1>1, <1>2, <1>5, plans \in Nat, plans' \in Nat, plans <= plans' DEF p, MovesOn

LEMMA FoundedKept ==
  ASSUME TypeOK, MovesOn, NEW c \in Call, Founded(c)
  PROVE  Founded(c)'
<1> SUFFICES ASSUME c.op \in Button, c.id # None
             PROVE  /\ c.id \in Id /\ store'[c.id] # None
                    /\ c.op = "EXECUTE" =>
                         /\ c.item \in Measure /\ c.plan <= plans'
                         /\ c.plan = store'[c.id].plan =>
                              Foreseen(c.sight, store'[c.id].trail, c.item)
  BY DEF Founded
<1> DEFINE n == store[c.id] p == store'[c.id]
<1>1. /\ c.id \in Id /\ n # None /\ p # None /\ (Follows(n, p) \/ p.plan > plans)
      /\ c.plan \in Nat /\ c.sight \in Nat
  BY DEF Founded, MovesOn, Call
<1>2. n \in Mission /\ p \in Mission
  BY <1>1 DEF MovesOn, TypeOK
<1>3. p.plan \in Nat
  BY <1>2 DEF Mission
<1> HIDE DEF n, p
<1>4. ASSUME c.op = "EXECUTE"
      PROVE  /\ c.item \in Measure /\ c.plan <= plans'
             /\ c.plan = p.plan => Foreseen(c.sight, p.trail, c.item)
  <2>1. /\ c.item \in Measure /\ c.plan <= plans
        /\ c.plan = n.plan => Foreseen(c.sight, n.trail, c.item)
    BY <1>4 DEF Founded, n
  <2>2. c.plan <= plans'
    BY <1>1, <2>1 DEF MovesOn
  <2>3. CASE Follows(n, p)
    BY <1>1, <1>2, <2>1, <2>2, <2>3, ForeseenLater DEF Follows
  <2>4. CASE p.plan > plans
    BY <1>1, <1>3, <2>1, <2>2, <2>4 DEF MovesOn
  <2> QED BY <1>1, <2>3, <2>4
<1> QED BY <1>1, <1>4 DEF p

(* A step that leaves the store alone.                                     *)
LEMMA StoreStays ==
  ASSUME TypeOK, TypeOK', UNCHANGED <<store, plans>>
  PROVE  MovesOn
BY DEF TypeOK, MovesOn, Follows, Precedes, Mission

LEMMA InitInv == Init => IInv
<1> SUFFICES ASSUME Init PROVE IInv
  OBVIOUS
<1>1. /\ Generated(Seed, 1) \in Mission /\ TrailTells(Generated(Seed, 1))
  BY GeneratedTells, EmergencyAssumption
<1>2. TypeOK
  BY <1>1 DEF Init, TypeOK
<1>3. \A id \in Id : Stored(id)
  BY <1>1, EmergencyAssumption DEF Init, Stored, Generated
<1>4. \A id \in Id : store[id] # None => SeenLate(store[id].trail)
  BY DEF Init, SeenLate, Generated, Wrote
<1>5. /\ \A o \in Officer : Copied(screen[o])
      /\ \A r \in Request : req[r] = None
  BY DEF Init, Copied
<1> QED BY <1>2, <1>3, <1>4, <1>5 DEF IInv

-----------------------------------------------------------------------------
(* What a step must show: its new copies are true, and requests it sends   *)
(* are founded.  The rest carries over.                                    *)

SameRequest(c, d) ==
  c.op = d.op /\ c.id = d.id /\ c.item = d.item /\ c.plan = d.plan /\ c.sight = d.sight

LEMMA Carry ==
  ASSUME IInv, MovesOn,
         \A id \in Id : Stored(id)',
         \A id \in Id : store'[id] # None => SeenLate(store'[id].trail),
         \A o \in Officer : screen'[o] = screen[o] \/ Copied(screen[o])',
         \A r \in Request : req'[r] # None =>
           /\ \/ req[r] # None /\ req'[r].answer = req[r].answer /\ req'[r].op = req[r].op
              \/ Copied(req[r].answer)' /\ Erred(req[r])'
           /\ \/ req[r] # None /\ SameRequest(req[r], req'[r])
              \/ Founded(req[r])'
  PROVE  IInv'
<1>1. TypeOK /\ TypeOK'
  BY DEF IInv, MovesOn
<1>2. ASSUME NEW o \in Officer PROVE Copied(screen[o])'
  <2>1. CASE screen'[o] = screen[o]
    <3>1. screen[o] \in Copy \cup {None} /\ Copied(screen[o])
      BY <1>1 DEF IInv, TypeOK
    <3>2. ASSUME NEW m \in Copy \cup {None}, m = screen[o] PROVE Copied(m)'
      BY <1>1, <3>1, <3>2, CopiedKept
    <3> QED BY <2>1, <3>1, <3>2 DEF Copied
  <2> QED BY <2>1
<1>3. ASSUME NEW r \in Request, req'[r] # None PROVE Copied(req[r].answer)'
  <2>1. CASE req[r] # None /\ req'[r].answer = req[r].answer /\ req'[r].op = req[r].op
    <3>1. req[r].answer \in Copy \cup {None} /\ Copied(req[r].answer)
      BY <1>1, <2>1 DEF IInv, TypeOK, Call
    <3>2. ASSUME NEW m \in Copy \cup {None}, m = req[r].answer PROVE Copied(m)'
      BY <1>1, <3>1, <3>2, CopiedKept
    <3> QED BY <2>1, <3>1, <3>2 DEF Copied
  <2> QED BY <1>3, <2>1
<1>4. ASSUME NEW r \in Request, req'[r] # None PROVE Founded(req[r])'
  <2>1. CASE req[r] # None /\ SameRequest(req[r], req'[r])
    <3>1. req[r] \in Call /\ Founded(req[r])
      BY <1>1, <2>1 DEF IInv, TypeOK
    <3>2. ASSUME NEW c \in Call, c = req[r] PROVE Founded(c)'
      BY <1>1, <3>1, <3>2, FoundedKept
    <3> QED BY <2>1, <3>1, <3>2 DEF Founded, SameRequest
  <2> QED BY <1>4, <2>1
<1>5. ASSUME NEW r \in Request, req'[r] # None PROVE Erred(req[r])'
  BY <1>5 DEF IInv, Erred
<1> QED BY <1>1, <1>2, <1>3, <1>4, <1>5 DEF IInv

(* Steps of the page and those that leave the store alone.                 *)
LEMMA CarryStill ==
  ASSUME IInv, TypeOK', UNCHANGED <<store, plans>>,
         \A o \in Officer : screen'[o] = screen[o] \/ Copied(screen[o])',
         \A r \in Request : req'[r] # None =>
           /\ \/ req[r] # None /\ req'[r].answer = req[r].answer /\ req'[r].op = req[r].op
              \/ Copied(req[r].answer)' /\ Erred(req[r])'
           /\ \/ req[r] # None /\ SameRequest(req[r], req'[r])
              \/ Founded(req[r])'
  PROVE  IInv'
<1>1. MovesOn
  BY StoreStays DEF IInv
<1>2. /\ \A id \in Id : Stored(id)'
      /\ \A id \in Id : store'[id] # None => SeenLate(store'[id].trail)
  BY DEF IInv, Stored
<1> QED BY <1>1, <1>2, Carry

LEMMA SentInv ==
  ASSUME IInv, NEW r \in Request, NEW c \in Call, c.answer = None, Founded(c),
         Sent(r, c), UNCHANGED <<store, plans, screen>>,
         opened' \subseteq Officer, pressed' \in Nat
  PROVE  IInv'
<1>1. TypeOK'
  BY DEF IInv, TypeOK, Sent
<1>2. ASSUME NEW q \in Request, req'[q] # None
      PROVE  /\ \/ req[q] # None /\ req'[q].answer = req[q].answer /\ req'[q].op = req[q].op
                \/ (Copied(req[q].answer)' /\ Erred(req[q])')
             /\ \/ req[q] # None /\ SameRequest(req[q], req'[q])
                \/ Founded(req[q])'
  <2>1. CASE q = r
    <3>1. req'[q] = c
      BY <2>1 DEF Sent, IInv, TypeOK
    <3> QED BY <3>1, NoMissionAssumption DEF Copied, Founded, Erred
  <2>2. CASE q # r
    BY <1>2, <2>2 DEF Sent, IInv, TypeOK, SameRequest
  <2> QED BY <2>1, <2>2
<1> QED BY <1>1, <1>2, CarryStill

LEMMA AskedFounded ==
  ASSUME NEW o \in Officer, NEW op \in {"LOAD", "DISPATCH"}
  PROVE  Asked(o, op) \in Call /\ Asked(o, op).answer = None /\ Founded(Asked(o, op))
BY DEF Asked, Call, Operation, Button, Founded

LEMMA PressInv ==
  ASSUME IInv, NEW o \in Officer, NEW r \in Request, Press(o, r)
  PROVE  IInv'
<1> DEFINE m == screen[o] n == store[m.id]
<1>0. CASE m = ErrorBody
  <2>1. PICK op \in Button : Sent(r, Asked(o, op))
    BY <1>0 DEF Press
  <2>2. /\ Asked(o, op) \in Call /\ Asked(o, op).answer = None /\ Asked(o, op).id = None
    BY DEF Asked, Call, Operation
  <2>3. Founded(Asked(o, op))
    BY <2>2 DEF Founded
  <2>4. UNCHANGED <<store, plans, screen>> /\ opened' \subseteq Officer /\ pressed' \in Nat
    BY DEF Press, IInv, TypeOK
  <2> QED BY <2>1, <2>2, <2>3, <2>4, SentInv
<1> SUFFICES ASSUME m # ErrorBody PROVE IInv'
  BY <1>0
<1>1. PICK op \in Button, i \in Measure :
        Offers(m, op, i) /\ Sent(r, IF op = "EXECUTE" THEN Execute(o, i, m) ELSE Decide(o, op, m))
  BY DEF Press
<1>2. m \in Mission /\ Copied(m) /\ m # None
  BY DEF Press, IInv, TypeOK, Copy
<1>3. /\ m.id \in Id /\ m.plan \in Nat /\ m.trail \in Seq(Line) /\ Len(m.trail) \in Nat
      /\ n # None /\ m.plan <= plans /\ TrailTells(m) /\ Precedes(m, n)
  BY <1>2 DEF Mission, Copied
<1>4. n \in Mission
  BY <1>3 DEF IInv, TypeOK
<1>5. UNCHANGED <<store, plans, screen>> /\ opened' \subseteq Officer /\ pressed' \in Nat
  BY DEF Press, IInv, TypeOK
<1>6. CASE op = "EXECUTE"
  <2> DEFINE c == Execute(o, i, m)
  <2>1. /\ c \in Call /\ c.answer = None /\ c.op = "EXECUTE" /\ c.id = m.id /\ c.item = i
        /\ c.plan = m.plan /\ c.sight = Len(m.trail)
    BY <1>3 DEF Execute, Decide, Asked, Call, Operation, Button
  <2>2. m.plan = n.plan => Foreseen(Len(m.trail), n.trail, i)
    <3>1. m.act[i] # "OVERRIDDEN"
      BY <1>1, <1>6 DEF Offers
    <3> HIDE DEF m, n
    <3>2. Foreseen(Len(m.trail), m.trail, i)
      BY <1>2, <1>3, <3>1, OfferForeseen
    <3> QED BY <1>2, <1>3, <1>4, <3>2, ForeseenLater
  <2> HIDE DEF c
  <2>3. Founded(c)
    BY <1>3, <2>1, <2>2 DEF Founded
  <2> QED BY <1>1, <1>5, <1>6, <2>1, <2>3, SentInv DEF c
<1>7. CASE op # "EXECUTE"
  <2> DEFINE c == Decide(o, op, m)
  <2>1. c \in Call /\ c.answer = None /\ c.op = op /\ c.id = m.id
    BY <1>3 DEF Decide, Asked, Call, Operation
  <2> HIDE DEF c
  <2>2. Founded(c)
    BY <1>3, <1>7, <2>1 DEF Founded
  <2> QED BY <1>1, <1>5, <1>7, <2>1, <2>2, SentInv DEF c
<1> QED BY <1>6, <1>7

LEMMA ReceiveInv ==
  ASSUME IInv, NEW r \in Request, Receive(r)
  PROVE  IInv'
<1> DEFINE b == req[r].by m == req[r].answer
<1>1. req[r] \in Call /\ b \in Officer /\ m \in Copy /\ Copied(m)
  BY DEF Receive, IInv, TypeOK, Call
<1>2. /\ screen' = [screen EXCEPT ![b] = m] /\ req' = [req EXCEPT ![r] = None]
      /\ UNCHANGED <<store, plans, opened, pressed>>
  BY DEF Receive
<1>3. TypeOK'
  BY <1>1, <1>2 DEF IInv, TypeOK
<1>4. ASSUME NEW o \in Officer PROVE screen'[o] = screen[o] \/ Copied(screen[o])'
  BY <1>1, <1>2 DEF IInv, TypeOK, Copied
<1>5. \A q \in Request : req'[q] # None => req[q] # None /\ req'[q] = req[q]
  BY <1>2 DEF IInv, TypeOK
<1> QED BY <1>2, <1>3, <1>4, <1>5, CarryStill DEF SameRequest

LEMMA FailInv ==
  ASSUME IInv, NEW r \in Request, Fail(r)
  PROVE  IInv'
<1>1. req[r] \in Call /\ UNCHANGED <<store, plans, opened, screen, pressed>>
  BY DEF Fail, IInv, TypeOK
<1>2. TypeOK'
  BY <1>1 DEF Fail, IInv, TypeOK, Call
<1>3. ASSUME NEW q \in Request, req'[q] # None
      PROVE  req[q] # None /\ req'[q].answer = req[q].answer /\ SameRequest(req[q], req'[q])
  BY <1>1, <1>3 DEF Fail, IInv, TypeOK, Call, SameRequest
<1> QED BY <1>1, <1>2, <1>3, CarryStill DEF SameRequest

LEMMA ServeLoadInv ==
  ASSUME IInv, NEW r \in Request, ServeLoad(r)
  PROVE  IInv'
<1>1. req[r] \in Call /\ UNCHANGED <<store, plans, opened, screen, pressed>>
  BY DEF ServeLoad, Waiting, IInv, TypeOK
<1>2. PICK id \in Id : store[id] # None /\ Answer(r, store[id])
  BY DEF ServeLoad
<1>3. store[id] \in Mission /\ store[id].id = id /\ Stored(id)
  BY <1>2 DEF IInv, TypeOK, Stored
<1>4. Copied(store[id])
  BY <1>2, <1>3 DEF Copied, Stored, Precedes, Mission
<1>5. TypeOK'
  BY <1>1, <1>2, <1>3 DEF Answer, IInv, TypeOK, Call, Copy
<1>6. ASSUME NEW q \in Request, req'[q] # None
      PROVE  /\ req[q] # None /\ SameRequest(req[q], req'[q])
             /\ req'[q].answer = req[q].answer \/ (Copied(req[q].answer)' /\ Erred(req[q])')
  <2>1. CASE q = r
    <3>1. req'[q] = [req[r] EXCEPT !.answer = store[id]]
      BY <1>2, <1>6, <2>1 DEF Answer, IInv, TypeOK
    <3>2. req'[q].answer = store[id] /\ SameRequest(req[q], req'[q])
      BY <1>1, <2>1, <3>1 DEF Call, SameRequest
    <3> QED BY <1>1, <1>3, <1>4, <2>1, <3>2, NoMissionAssumption
         DEF ServeLoad, Waiting, Copied, Erred
  <2>2. CASE q # r
    BY <1>2, <1>6, <2>2 DEF Answer, IInv, TypeOK, SameRequest
  <2> QED BY <2>1, <2>2
<1> QED BY <1>1, <1>5, <1>6, CarryStill DEF SameRequest

(* The store takes the mission w, which the answer carries.                *)
LEMMA StoreInv ==
  ASSUME IInv, NEW r \in Request, NEW op \in Operation, Waiting(r, op),
         NEW id \in Id, NEW w \in Mission, w.id = id, TrailTells(w), SeenLate(w.trail),
         plans' \in Nat, plans <= plans', w.plan <= plans',
         store[id] # None => Follows(store[id], w) \/ w.plan > plans,
         store' = [store EXCEPT ![id] = w], Answer(r, w),
         UNCHANGED <<opened, screen, pressed>>
  PROVE  IInv'
<1>1. req[r] \in Call /\ req[r] # None
  BY DEF Waiting, IInv, TypeOK
<1>2. TypeOK'
  BY <1>1 DEF Answer, IInv, TypeOK, Call, Copy
<1>3. store'[id] = w /\ w # None /\ \A k \in Id : k # id => store'[k] = store[k]
  BY NoMissionAssumption DEF IInv, TypeOK
<1>4. ASSUME NEW k \in Id, store[k] # None
      PROVE  store'[k] # None /\ (Follows(store[k], store'[k]) \/ store'[k].plan > plans)
  <2>1. CASE k = id
    BY <1>3, <1>4, <2>1
  <2>2. CASE k # id
    <3>1. store'[k] = store[k] /\ store[k] \in Mission
      BY <1>3, <1>4, <2>2 DEF IInv, TypeOK
    <3> QED BY <1>4, <3>1 DEF Follows, Precedes, Mission
  <2> QED BY <2>1, <2>2
<1>5. MovesOn
  BY <1>2, <1>4 DEF MovesOn, IInv, TypeOK
<1>6. ASSUME NEW k \in Id, store'[k] # None
      PROVE  /\ store'[k].id = k /\ store'[k].plan <= plans' /\ TrailTells(store'[k])
             /\ SeenLate(store'[k].trail)
  <2>1. CASE k = id
    BY <1>3, <2>1
  <2>2. CASE k # id
    <3>1. store'[k] = store[k] /\ store[k] \in Mission
      BY <1>3, <1>6, <2>2 DEF IInv, TypeOK
    <3>2. /\ store[k].id = k /\ store[k].plan <= plans /\ TrailTells(store[k])
          /\ SeenLate(store[k].trail) /\ store[k].plan \in Nat /\ plans \in Nat
      BY <1>6, <3>1 DEF IInv, TypeOK, Stored, Mission
    <3> QED BY <3>1, <3>2
  <2> QED BY <2>1, <2>2
<1>7. \A k \in Id : Stored(k)'
  BY <1>6 DEF Stored
<1>8. ASSUME NEW q \in Request, req'[q] # None
      PROVE  /\ req[q] # None /\ SameRequest(req[q], req'[q])
             /\ req'[q].answer = req[q].answer \/ (Copied(req[q].answer)' /\ Erred(req[q])')
  <2>1. CASE q = r
    <3>1. req'[q] = [req[r] EXCEPT !.answer = w]
      BY <1>8, <2>1 DEF Answer, IInv, TypeOK
    <3>2. req'[q].answer = w /\ SameRequest(req[q], req'[q])
      BY <1>1, <2>1, <3>1 DEF Call, SameRequest
    <3>3. Precedes(w, w)
      BY DEF Precedes, Mission
    <3> QED BY <1>1, <1>3, <2>1, <3>2, <3>3, NoMissionAssumption DEF Copied, Erred
  <2>2. CASE q # r
    BY <1>8, <2>2 DEF Answer, IInv, TypeOK, SameRequest
  <2> QED BY <2>1, <2>2
<1> QED BY <1>5, <1>6, <1>7, <1>8, Carry DEF SameRequest

LEMMA ServeDispatchInv ==
  ASSUME IInv, NEW r \in Request, ServeDispatch(r)
  PROVE  IInv'
<1>1. PICK id \in Id : /\ store' = [store EXCEPT ![id] = Generated(id, plans + 1)]
                      /\ Answer(r, Generated(id, plans + 1))
  BY DEF ServeDispatch
<1>2. Waiting(r, "DISPATCH") /\ plans \in Nat /\ plans' = plans + 1
      /\ UNCHANGED <<opened, screen, pressed>>
  BY DEF ServeDispatch, IInv, TypeOK
<1> DEFINE w == Generated(id, plans + 1)
<1>3. w \in Mission /\ TrailTells(w)
  BY <1>2, GeneratedTells
<1>4. w.id = id /\ w.plan = plans + 1 /\ SeenLate(w.trail)
  BY DEF Generated, SeenLate, Wrote
<1>5. plans' \in Nat /\ plans <= plans' /\ w.plan <= plans' /\ w.plan > plans
  BY <1>2, <1>4
<1> HIDE DEF w
<1> QED BY <1>1, <1>2, <1>3, <1>4, <1>5, StoreInv DEF w, Operation

(* A decision extends its mission's trail by one line.                     *)
LEMMA DecidedFollows ==
  ASSUME NEW m \in Mission, TrailTells(m), SeenLate(m.trail), NEW w \in Mission, NEW e \in Line,
         w.trail = Append(m.trail, e), w.plan = m.plan,
         e.kind = "EXECUTED" => Foreseen(e.sight, m.trail, e.item)
  PROVE  Follows(m, w) /\ SeenLate(w.trail)
<1>1. m.trail \in Seq(Line)
  BY DEF Mission
<1>2. /\ Len(w.trail) = Len(m.trail) + 1 /\ Len(m.trail) \in Nat
      /\ \A k \in DOMAIN m.trail : w.trail[k] = m.trail[k]
  BY <1>1, Added
<1>3. Follows(m, w)
  BY <1>2 DEF Follows, Precedes
<1>4. SeenLate(w.trail)
  BY <1>1, SeenLateAdded
<1> QED BY <1>3, <1>4

(* A request that ends without an answer to show.                          *)
LEMMA DroppedInv ==
  ASSUME IInv, NEW r \in Request, req' = [req EXCEPT ![r] = None],
         UNCHANGED <<store, plans, opened, screen, pressed>>
  PROVE  IInv'
<1>1. TypeOK'
  BY DEF IInv, TypeOK
<1>2. \A q \in Request : req'[q] # None => req[q] # None /\ req'[q] = req[q]
  BY DEF IInv, TypeOK
<1> QED BY <1>1, <1>2, CarryStill DEF SameRequest

LEMMA ServeErrorInv ==
  ASSUME IInv, NEW r \in Request, ServeError(r)
  PROVE  IInv'
<1>1. req[r] \in Call /\ UNCHANGED <<store, plans, opened, screen, pressed>>
  BY DEF ServeError, Waiting, IInv, TypeOK
<1>2. CASE req[r].op # "DISPATCH"
  BY <1>1, <1>2, DroppedInv DEF ServeError
<1>3. CASE req[r].op = "DISPATCH"
  <2>1. Answer(r, ErrorBody)
    BY <1>3 DEF ServeError
  <2>2. TypeOK'
    BY <1>1, <2>1 DEF Answer, IInv, TypeOK, Call, Copy
  <2>3. ASSUME NEW q \in Request, req'[q] # None
        PROVE  /\ req[q] # None /\ SameRequest(req[q], req'[q])
               /\ req'[q].answer = req[q].answer \/ (Copied(req[q].answer)' /\ Erred(req[q])')
    <3>1. CASE q = r
      <4>1. req'[q] = [req[r] EXCEPT !.answer = ErrorBody]
        BY <2>1, <2>3, <3>1 DEF Answer, IInv, TypeOK
      <4>2. req'[q].answer = ErrorBody /\ SameRequest(req[q], req'[q])
        BY <1>1, <3>1, <4>1 DEF Call, SameRequest
      <4>3. req[q] # None
        BY <3>1 DEF ServeError, Waiting
      <4> QED BY <1>3, <3>1, <4>2, <4>3 DEF Copied, Erred, SameRequest
    <3>2. CASE q # r
      BY <2>1, <2>3, <3>2 DEF Answer, IInv, TypeOK, SameRequest
    <3> QED BY <3>1, <3>2
  <2> QED BY <1>1, <2>2, <2>3, CarryStill DEF SameRequest
<1> QED BY <1>2, <1>3

LEMMA ServeDecisionInv ==
  ASSUME IInv, NEW r \in Request, ServeDecision(r)
  PROVE  IInv'
<1> DEFINE c == req[r] m == store[c.id] w == Decided(c, m)
<1>0. CASE Refused(c)
  <2>1. req' = [req EXCEPT ![r] = None] /\ UNCHANGED <<store, plans, opened, screen, pressed>>
    BY <1>0 DEF ServeDecision
  <2> QED BY <2>1, DroppedInv
<1> SUFFICES ASSUME ~Refused(c) PROVE IInv'
  BY <1>0
<1>1. PICK op \in Button : Waiting(r, op)
  BY DEF ServeDecision
<1>2. c \in Call /\ c # None /\ c.op = op /\ Founded(c)
  BY <1>1 DEF Waiting, IInv, TypeOK
<1>3. /\ c.id \in Id /\ m # None /\ c.sight \in Nat /\ c.plan \in Nat
      /\ op = "EXECUTE" => c.item \in Measure
      /\ op = "EXECUTE" /\ c.plan = m.plan => Foreseen(c.sight, m.trail, c.item)
  BY <1>2 DEF Founded, Call, Refused
<1>4. /\ m \in Mission /\ m.id = c.id /\ m.plan <= plans /\ TrailTells(m)
      /\ SeenLate(m.trail) /\ m.plan \in Nat /\ m.trail \in Seq(Line)
  BY <1>3 DEF IInv, TypeOK, Stored, Mission
<1>5. UNCHANGED <<plans, opened, screen, pressed>>
  BY DEF ServeDecision
<1>7. CASE ~Refused(c)
  <2>1. store' = [store EXCEPT ![c.id] = w] /\ Answer(r, w)
    BY <1>7 DEF ServeDecision
  <2>2. /\ w \in Mission /\ TrailTells(w) /\ w.id = m.id /\ w.plan = m.plan
        /\ Follows(m, w) /\ SeenLate(w.trail)
    <3> HIDE DEF c, m
    <3>1. CASE op = "ACCEPT"
      <4> DEFINE e == Wrote("ACCEPTED", m.status, None, 0)
      <4>1. m.status # "ACCEPTED" /\ w = Accepted(m)
        BY <1>2, <1>7, <3>1 DEF Refused, Decided, m
      <4>2. e \in Line /\ e.kind = "ACCEPTED"
        BY <1>4 DEF Wrote, Line, Decision, Mission
      <4> HIDE DEF w, e
      <4>3. w.trail = Append(m.trail, e) /\ w.id = m.id /\ w.plan = m.plan
        BY <1>4, <4>1 DEF Accepted, Mission, e
      <4>4. w \in Mission /\ TrailTells(w)
        BY <1>4, <4>1, AcceptedTells, EmergencyAssumption
      <4> QED BY <1>4, <4>2, <4>3, <4>4, DecidedFollows
    <3>2. CASE op = "MODIFY"
      <4> DEFINE e == Wrote("MODIFIED", m.status, None, 0)
      <4>1. w = Modified(m)
        BY <1>2, <3>2 DEF Decided
      <4>2. e \in Line /\ e.kind = "MODIFIED"
        BY <1>4 DEF Wrote, Line, Decision, Mission
      <4> HIDE DEF w, e
      <4>3. w.trail = Append(m.trail, e) /\ w.id = m.id /\ w.plan = m.plan
        BY <1>4, <4>1 DEF Modified, Mission, e
      <4>4. w \in Mission /\ TrailTells(w)
        BY <1>4, <4>1, ModifiedTells, EmergencyAssumption
      <4> QED BY <1>4, <4>2, <4>3, <4>4, DecidedFollows
    <3>3. CASE op = "OVERRIDE"
      <4> DEFINE e == Wrote("OVERRIDDEN", m.status, None, 0)
      <4>1. w = Overridden(m)
        BY <1>2, <3>3 DEF Decided
      <4>2. e \in Line /\ e.kind = "OVERRIDDEN"
        BY <1>4 DEF Wrote, Line, Decision, Mission
      <4> HIDE DEF w, e
      <4>3. w.trail = Append(m.trail, e) /\ w.id = m.id /\ w.plan = m.plan
        BY <1>4, <4>1 DEF Overridden, Mission, e
      <4>4. w \in Mission /\ TrailTells(w)
        BY <1>4, <4>1, OverriddenTells, EmergencyAssumption
      <4> QED BY <1>4, <4>2, <4>3, <4>4, DecidedFollows
    <3>4. CASE op = "EXECUTE"
      <4> DEFINE s == Sight(c, m) e == Wrote("EXECUTED", None, c.item, s)
      <4>1. w = Executed(m, c.item, s) /\ s \in Nat /\ c.item \in Measure
        BY <1>2, <1>3, <3>4 DEF Decided, Sight
      <4>2. Foreseen(s, m.trail, c.item)
        <5>1. CASE c.plan = m.plan
          BY <1>3, <3>4, <5>1 DEF Sight
        <5>2. CASE c.plan # m.plan
          <6>1. s = 0 /\ Len(m.trail) \in Nat /\ DOMAIN m.trail = 1..Len(m.trail)
            BY <1>4, <5>2 DEF Sight
          <6> QED BY <6>1 DEF Foreseen, Overrides
        <5> QED BY <5>1, <5>2
      <4>3. e \in Line /\ e.kind = "EXECUTED" /\ e.sight = s /\ e.item = c.item
        BY <4>1 DEF Wrote, Line
      <4> HIDE DEF w, e, s
      <4>4. w.trail = Append(m.trail, e) /\ w.id = m.id /\ w.plan = m.plan
        BY <1>4, <4>1 DEF Executed, Mission, e
      <4>5. w \in Mission /\ TrailTells(w)
        BY <1>4, <4>1, ExecutedTells
      <4> QED BY <1>4, <4>2, <4>3, <4>4, <4>5, DecidedFollows
    <3> QED BY <3>1, <3>2, <3>3, <3>4 DEF Button
  <2>3. /\ plans' \in Nat /\ plans <= plans' /\ w.id = c.id /\ w.plan <= plans'
        /\ op \in Operation /\ UNCHANGED <<opened, screen, pressed>>
    BY <1>4, <1>5, <2>2 DEF IInv, TypeOK, Operation
  <2> HIDE DEF w
  <2>4. ASSUME NEW id \in Id, id = c.id PROVE IInv'
    <3>1. /\ store' = [store EXCEPT ![id] = w] /\ w.id = id
          /\ store[id] # None => Follows(store[id], w)
      BY <2>1, <2>2, <2>3, <2>4
    <3> HIDE DEF c, m
    <3> QED BY <1>1, <2>1, <2>2, <2>3, <3>1, StoreInv
  <2> QED BY <1>3, <2>4
<1> QED BY <1>7

LEMMA StepInv == IInv /\ [Next]_vars => IInv'
<1> SUFFICES ASSUME IInv, [Next]_vars PROVE IInv'
  OBVIOUS
<1>1. ASSUME NEW o \in Officer, NEW r \in Request, Open(o, r) PROVE IInv'
  <2>1. /\ Sent(r, Asked(o, "LOAD")) /\ UNCHANGED <<store, plans, screen>>
        /\ opened' \subseteq Officer /\ pressed' \in Nat
    BY <1>1 DEF Open, IInv, TypeOK
  <2> QED BY <2>1, AskedFounded, SentInv
<1>2. ASSUME NEW o \in Officer, NEW r \in Request, Dispatch(o, r) PROVE IInv'
  <2>1. /\ Sent(r, Asked(o, "DISPATCH")) /\ UNCHANGED <<store, plans, screen>>
        /\ opened' \subseteq Officer /\ pressed' \in Nat
    BY <1>2 DEF Dispatch, IInv, TypeOK
  <2> QED BY <2>1, AskedFounded, SentInv
<1>3. CASE UNCHANGED vars
  <2>1. TypeOK' /\ UNCHANGED <<store, plans, screen, req>>
    BY <1>3 DEF vars, IInv, TypeOK
  <2>2. \A r \in Request : SameRequest(req[r], req[r])
    BY DEF SameRequest
  <2> QED BY <2>1, <2>2, CarryStill
<1> QED BY <1>1, <1>2, <1>3, PressInv, ReceiveInv, FailInv, ServeLoadInv, ServeDispatchInv,
           ServeDecisionInv, ServeErrorInv DEF Next

-----------------------------------------------------------------------------
(* The theorems. *)

(* The invariant: copies are true to the store, and a request to execute   *)
(* an action stems from a page that showed no standing override of it.     *)
THEOREM MissionsSound == Spec => []IInv
BY InitInv, StepInv, PTL DEF Spec

(* Missions, requests and pages are well formed, for any number of them.   *)
THEOREM MissionsTyped == Spec => []TypeOK
<1>1. IInv => TypeOK
  BY DEF IInv
<1> QED BY <1>1, MissionsSound, PTL

(* Every audit trail accounts for the state of its mission, and every copy *)
(* on a page or on its way to one is a state that mission went through, or *)
(* the error a dispatch was answered with.                                 *)
THEOREM CopiesTrue == Spec => []CopiesTellTrail
BY InvImplies, MissionsSound, PTL

(* executeAction takes an overridden action only from an officer who       *)
(* pressed the button on a copy from before the override; the page may     *)
(* have shown a newer one already.                                         *)
THEOREM OverrulesUnseen == Spec => []OverruledUnseen
BY InvImplies, MissionsSound, PTL

=============================================================================
