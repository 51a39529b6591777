----------------------------- MODULE TrackingProofs -----------------------------
(***************************************************************************)
(* What Tracking guarantees whatever the number of trips, requests and     *)
(* fixes, the size of the queue and the limit on batches: no fix is        *)
(* forgotten, the latest position never goes back, and a fix is stored     *)
(* again only as often as the phone was left in doubt about it.            *)
(***************************************************************************)
EXTENDS Tracking, TLAPS, FiniteSetTheorems, SequenceTheorems, WellFoundedInduction

-----------------------------------------------------------------------------
(* The inductive invariant. *)

Requests ==
  [kind : {"none", "single", "batch"}, load : SUBSET Fix, left : SUBSET Fix,
   at : {"road", "store", "emit", "done", "gone"}, ok : BOOLEAN, waiting : BOOLEAN]

Least(S) == CHOOSE n \in S : \A k \in S : n <= k

(* What holds of a request at any time: one that carries a single fix      *)
(* fails only where its trip does not fit, and what a request has behind   *)
(* it is on record.                                                        *)
Sound(q) ==
  /\ q.load \subseteq 1..taken /\ q.left \subseteq q.load
  /\ q.at = "road" => q.left = q.load
  /\ q.at = "emit" => q.left # {} /\ stored[Least(q.left)] > 0
  /\ q.at = "done" /\ q.ok => q.left = {}
  /\ q.kind = "batch" /\ q.at \in {"road", "store", "emit"} => q.ok
  /\ q.kind = "single" => \E n \in Fix : q.load = {n}
  /\ q.kind = "single" /\ ~q.ok => \A n \in q.load : trip[n] \in Unfit
  /\ \A n \in q.load \ q.left : stored[n] > 0 \/ trip[n] \in Unfit

AllSound == \A r \in Request, q \in Requests : q = req[r] => Sound(q)

QueueKnown == ToSet(queue) \subseteq 1..taken

OnlyFitStored == \A n \in Fix : n > taken \/ trip[n] \in Unfit => stored[n] = 0

TrackInv == TypeOK /\ QueueKnown /\ OnlyFitStored /\ AllSound

(* What NothingForgotten says of one fix.                                  *)
Accounted(n) ==
  \/ stored[n] > 0 \/ trip[n] \in Unfit
  \/ n \in ToSet(queue) \/ n \in dropped
  \/ \E r \in Request : req[r].kind = "single" /\ req[r].waiting /\ n \in req[r].load

(* A request that may yet store the fix, or a batch refused with it that   *)
(* the phone waits for.                                                    *)
MayStore(q, n) ==
  /\ n \in q.load
  /\ \/ q.at \in {"road", "store"} /\ n \in q.left
     \/ q.at = "emit" /\ n \in q.left /\ n # Least(q.left)
     \/ q.at = "done" /\ q.kind = "batch" /\ q.waiting /\ ~q.ok

Carriers(n) == {r \in Request : MayStore(req[r], n)}

Waits(q, n) == q.kind = "batch" /\ q.waiting /\ n \in q.load

(* Queued and on its way with no batch: the next flush may take it.        *)
Loose(n) == n \in ToSet(queue) /\ ~\E r \in Request : Waits(req[r], n)

Worth(b) == IF b THEN 1 ELSE 0

(* How often a fix has been stored and may yet be, but for new doubts.     *)
Chances(n) == stored[n] + Cardinality(Carriers(n)) + Worth(Loose(n))

ChanceInv == \A n \in Fix : trip[n] \notin Unfit => Chances(n) <= 1 + doubts[n]

-----------------------------------------------------------------------------
(* Numbers, sets and sequences. *)

(* Induction over the naturals, for a set. *)
LEMMA Climb ==
  ASSUME NEW S, 0 \in S, \A i \in Nat : i \in S => i + 1 \in S
  PROVE  Nat \subseteq S
<1> DEFINE Out == Nat \ S
<1>1. SUFFICES ASSUME Out # {} PROVE FALSE
  OBVIOUS
<1>2. PICK m \in Out : \A n \in Out : ~(<<n, m>> \in OpToRel(<, Nat))
  BY <1>1, NatLessThanWellFounded, WFMin
<1>3. m \in Nat /\ m # 0 /\ m \notin S
  BY <1>2
<1>4. m - 1 \in Nat /\ m - 1 < m /\ (m - 1) + 1 = m
  BY <1>3
<1>5. m - 1 \in Out
  BY <1>3, <1>4
<1>6. <<m - 1, m>> \in OpToRel(<, Nat)
  BY <1>3, <1>4 DEF OpToRel
<1> QED BY <1>2, <1>5, <1>6

(* Among some numbers there is a least one. *)
LEMMA LeastOne ==
  ASSUME NEW S, S \subseteq Nat, S # {}
  PROVE  \E n \in S : \A k \in S : n <= k
<1>1. PICK m \in S : \A n \in S : ~(<<n, m>> \in OpToRel(<, Nat))
  BY NatLessThanWellFounded, WFMin
<1>2. ASSUME NEW n \in S PROVE m <= n
  <2>1. ~(n < m)
    BY <1>1 DEF OpToRel
  <2> QED BY <2>1
<1> QED BY <1>2

(* The next fix of a request is one of those left. *)
LEMMA NextLeft ==
  ASSUME NEW r, req[r].left \subseteq Fix, req[r].left # {}
  PROVE  Next1(r) \in req[r].left
<1>1. req[r].left \subseteq Nat
  BY DEF Fix
<1>2. \E n \in req[r].left : \A k \in req[r].left : n <= k
  BY <1>1, LeastOne
<1> QED BY <1>2 DEF Next1

LEMMA SetOfAppended ==
  ASSUME NEW s \in Seq(Fix), NEW n \in Fix
  PROVE  /\ Append(s, n) \in Seq(Fix) /\ Len(Append(s, n)) = Len(s) + 1
         /\ ToSet(Append(s, n)) = ToSet(s) \cup {n}
<1>1. /\ Append(s, n) \in Seq(Fix) /\ Len(Append(s, n)) = Len(s) + 1
      /\ \A i \in 1..Len(s) : Append(s, n)[i] = s[i]
      /\ Append(s, n)[Len(s) + 1] = n
  BY AppendProperties
<1>2. DOMAIN Append(s, n) = 1..(Len(s) + 1) /\ DOMAIN s = 1..Len(s) /\ Len(s) \in Nat
  BY <1>1
<1>3. ToSet(Append(s, n)) \subseteq ToSet(s) \cup {n}
  <2> SUFFICES ASSUME NEW i \in 1..(Len(s) + 1)
               PROVE  Append(s, n)[i] \in ToSet(s) \cup {n}
    BY <1>2 DEF ToSet
  <2>1. CASE i \in 1..Len(s)
    BY <1>1, <1>2, <2>1 DEF ToSet
  <2>2. CASE i = Len(s) + 1
    BY <1>1, <2>2
  <2> QED BY <2>1, <2>2, <1>2
<1>4. ToSet(s) \cup {n} \subseteq ToSet(Append(s, n))
  <2>1. ASSUME NEW i \in 1..Len(s) PROVE s[i] \in ToSet(Append(s, n))
    <3>1. i \in 1..(Len(s) + 1) /\ s[i] = Append(s, n)[i]
      BY <1>1, <1>2
    <3> QED BY <3>1, <1>2 DEF ToSet
  <2>2. n \in ToSet(Append(s, n))
    <3>1. Len(s) + 1 \in 1..(Len(s) + 1)
      BY <1>2
    <3> QED BY <3>1, <1>1, <1>2 DEF ToSet
  <2> QED BY <2>1, <2>2, <1>2 DEF ToSet
<1> QED BY <1>1, <1>3, <1>4

LEMMA SetOfRest ==
  ASSUME NEW s \in Seq(Fix), s # <<>>
  PROVE  /\ Head(s) \in Fix /\ Tail(s) \in Seq(Fix) /\ Len(Tail(s)) = Len(s) - 1
         /\ ToSet(s) = {Head(s)} \cup ToSet(Tail(s))
<1>1. /\ Head(s) \in Fix /\ Tail(s) \in Seq(Fix) /\ Len(Tail(s)) = Len(s) - 1
      /\ \A i \in 1..Len(Tail(s)) : Tail(s)[i] = s[i + 1]
      /\ Head(s) = s[1] /\ Len(s) \in Nat /\ Len(s) >= 1
  BY HeadTailProperties
<1>2. DOMAIN Tail(s) = 1..(Len(s) - 1) /\ DOMAIN s = 1..Len(s)
  BY <1>1
<1>3. ToSet(s) \subseteq {Head(s)} \cup ToSet(Tail(s))
  <2> SUFFICES ASSUME NEW i \in 1..Len(s), i # 1 PROVE s[i] \in ToSet(Tail(s))
    BY <1>1, <1>2 DEF ToSet
  <2>1. i - 1 \in 1..(Len(s) - 1) /\ (i - 1) + 1 = i
    BY <1>1
  <2>2. s[i] = Tail(s)[i - 1]
    BY <1>1, <2>1
  <2> QED BY <1>2, <2>1, <2>2 DEF ToSet
<1>4. {Head(s)} \cup ToSet(Tail(s)) \subseteq ToSet(s)
  <2>1. ASSUME NEW i \in 1..(Len(s) - 1) PROVE Tail(s)[i] \in ToSet(s)
    <3>1. i + 1 \in 1..Len(s) /\ Tail(s)[i] = s[i + 1]
      BY <1>1
    <3> QED BY <1>2, <3>1 DEF ToSet
  <2>2. 1 \in 1..Len(s)
    BY <1>1
  <2> QED BY <1>1, <1>2, <2>1, <2>2 DEF ToSet
<1> QED BY <1>1, <1>3, <1>4
-----------------------------------------------------------------------------
(* What is left in the queue once a batch has been taken out. *)

KeptTo(g, load, m) ==
  g = [i \in 0..m |->
        IF i = 0 THEN <<>>
        ELSE IF queue[i] \in load THEN g[i - 1] ELSE Append(g[i - 1], queue[i])]

LEMMA KeptExists ==
  ASSUME NEW load, NEW n \in Nat
  PROVE  \E g : KeptTo(g, load, n)
<1> DEFINE P == {m \in Nat : \E g : KeptTo(g, load, m)}
<1>1. 0 \in P
  <2> DEFINE z == [i \in 0..0 |-> <<>>]
  <2>1. KeptTo(z, load, 0)
    BY DEF KeptTo
  <2> QED BY <2>1
<1>2. ASSUME NEW m \in Nat, m \in P PROVE m + 1 \in P
  <2>1. PICK g : KeptTo(g, load, m)
    BY <1>2
  <2> DEFINE k == m + 1
             Newest == IF queue[k] \in load THEN g[m] ELSE Append(g[m], queue[k])
             h == [i \in 0..k |-> IF i <= m THEN g[i] ELSE Newest]
  <2>2. ASSUME NEW i \in 0..k
        PROVE  h[i] = IF i = 0 THEN <<>>
                      ELSE IF queue[i] \in load THEN h[i - 1] ELSE Append(h[i - 1], queue[i])
    <3>1. CASE i = 0
      BY <2>1, <3>1 DEF KeptTo
    <3>2. CASE i \in 1..m
      <4>1. h[i] = g[i] /\ h[i - 1] = g[i - 1]
        BY <3>2
      <4>2. g[i] = IF queue[i] \in load THEN g[i - 1] ELSE Append(g[i - 1], queue[i])
        <5>1. i \in 0..m /\ i # 0
          BY <3>2
        <5> HIDE DEF h
        <5> QED BY <2>1, <5>1 DEF KeptTo
      <4> HIDE DEF h
      <4> QED BY <3>2, <4>1, <4>2
    <3>3. CASE i = k
      <4>1. h[i] = Newest /\ h[i - 1] = g[m]
        BY <3>3
      <4> HIDE DEF h
      <4> QED BY <3>3, <4>1
    <3> QED BY <3>1, <3>2, <3>3
  <2>3. KeptTo(h, load, k)
    BY <2>2 DEF KeptTo
  <2> HIDE DEF h
  <2> QED BY <2>3
<1> HIDE DEF P
<1>3. Nat \subseteq P
  BY <1>1, <1>2, Climb
<1> QED BY <1>3 DEF P

LEMMA KeptIs ==
  ASSUME queue \in Seq(Fix), NEW load, NEW g, KeptTo(g, load, Len(queue)), NEW n \in 0..Len(queue)
  PROVE  /\ g[n] \in Seq(Fix) /\ Len(g[n]) <= n
         /\ ToSet(g[n]) = {queue[k] : k \in 1..n} \ load
<1>1. Len(queue) \in Nat /\ \A i \in 1..Len(queue) : queue[i] \in Fix
  OBVIOUS
<1> DEFINE Fits(m) == /\ g[m] \in Seq(Fix) /\ Len(g[m]) <= m
                      /\ ToSet(g[m]) = {queue[k] : k \in 1..m} \ load
           P == {m \in Nat : m <= Len(queue) => Fits(m)}
<1>2. 0 \in P
  <2>1. g[0] = <<>>
    BY <1>1 DEF KeptTo
  <2>2. <<>> \in Seq(Fix) /\ Len(<<>>) = 0 /\ ToSet(<<>>) = {}
    BY DEF ToSet
  <2>3. {queue[k] : k \in 1..0} = {}
    OBVIOUS
  <2>4. Fits(0)
    BY <2>1, <2>2, <2>3
  <2> HIDE DEF Fits
  <2> QED BY <2>4
<1>3. ASSUME NEW m \in Nat, m \in P PROVE m + 1 \in P
  <2> SUFFICES ASSUME m + 1 <= Len(queue) PROVE Fits(m + 1)
    OBVIOUS
  <2> DEFINE n1 == m + 1
  <2>1. Fits(m)
    BY <1>1, <1>3
  <2>2. g[n1] = IF queue[n1] \in load THEN g[m] ELSE Append(g[m], queue[n1])
    <3>1. n1 \in 0..Len(queue) /\ n1 # 0 /\ n1 - 1 = m
      BY <1>1
    <3> HIDE DEF n1
    <3> QED BY <3>1 DEF KeptTo
  <2>3. {queue[k] : k \in 1..n1} = {queue[k] : k \in 1..m} \cup {queue[n1]}
    OBVIOUS
  <2>4. queue[n1] \in Fix
    BY <1>1
  <2>5. CASE queue[n1] \in load
    BY <2>1, <2>2, <2>3, <2>5
  <2>6. CASE queue[n1] \notin load
    <3>1. /\ Append(g[m], queue[n1]) \in Seq(Fix)
          /\ Len(Append(g[m], queue[n1])) = Len(g[m]) + 1
          /\ ToSet(Append(g[m], queue[n1])) = ToSet(g[m]) \cup {queue[n1]}
      BY <2>1, <2>4, SetOfAppended
    <3>2. g[n1] = Append(g[m], queue[n1])
      BY <2>2, <2>6
    <3>3. Len(g[m]) \in Nat
      BY <2>1
    <3> HIDE DEF n1
    <3>4. ToSet(g[n1]) = {queue[k] : k \in 1..n1} \ load
      BY <2>1, <2>3, <2>6, <3>1, <3>2
    <3>5. g[n1] \in Seq(Fix) /\ Len(g[n1]) <= n1
      BY <2>1, <3>1, <3>2, <3>3 DEF n1
    <3> QED BY <3>4, <3>5 DEF n1
  <2> QED BY <2>5, <2>6
<1> HIDE DEF P
<1>4. Nat \subseteq P
  BY <1>2, <1>3, Climb
<1>5. Fits(n)
  <2>1. n \in Nat /\ n <= Len(queue)
    BY <1>1
  <2> HIDE DEF Fits
  <2> QED BY <2>1, <1>4 DEF P
<1> QED BY <1>5

(* Taking a batch out leaves the others queued, and no more of them.       *)
LEMMA ClearedIs ==
  ASSUME queue \in Seq(Fix), NEW load
  PROVE  /\ Cleared(load) \in Seq(Fix) /\ Len(Cleared(load)) <= Len(queue)
         /\ ToSet(Cleared(load)) = ToSet(queue) \ load
<1> DEFINE g == CHOOSE g : KeptTo(g, load, Len(queue))
<1>1. Len(queue) \in Nat
  OBVIOUS
<1>2. KeptTo(g, load, Len(queue))
  BY <1>1, KeptExists
<1>3. Cleared(load) = g[Len(queue)]
  BY DEF Cleared, KeptTo
<1>4. ToSet(queue) = {queue[k] : k \in 1..Len(queue)}
  BY DEF ToSet
<1> HIDE DEF g
<1>5. Len(queue) \in 0..Len(queue)
  BY <1>1
<1>6. /\ g[Len(queue)] \in Seq(Fix) /\ Len(g[Len(queue)]) <= Len(queue)
      /\ ToSet(g[Len(queue)]) = {queue[k] : k \in 1..Len(queue)} \ load
  BY <1>2, <1>5, KeptIs
<1> QED BY <1>3, <1>4, <1>6
-----------------------------------------------------------------------------
(* Types. *)

(* What goes into the queue is in it, and what falls out is known.         *)
LEMMA Enqueued ==
  ASSUME TypeOK, NEW n \in Fix, Enqueue(n)
  PROVE  /\ queue' \in Seq(Fix) /\ Len(queue') <= Capacity
         /\ dropped' \subseteq Fix /\ dropped \subseteq dropped'
         /\ ToSet(queue') \subseteq ToSet(queue) \cup {n} /\ n \in ToSet(queue')
         /\ ToSet(queue) \subseteq ToSet(queue') \cup dropped'
<1>1. queue \in Seq(Fix) /\ Len(queue) <= Capacity /\ Len(queue) \in Nat /\ dropped \subseteq Fix
  BY DEF TypeOK
<1>2. Capacity \in Nat /\ Capacity > 0
  BY TrackingAssumption
<1>3. CASE Len(queue) >= Capacity
  <2>1. queue' = Append(Tail(queue), n) /\ dropped' = dropped \cup {Head(queue)}
    BY <1>3 DEF Enqueue
  <2>2. queue # <<>>
    BY <1>1, <1>2, <1>3
  <2>3. /\ Head(queue) \in Fix /\ Tail(queue) \in Seq(Fix) /\ Len(Tail(queue)) = Len(queue) - 1
        /\ ToSet(queue) = {Head(queue)} \cup ToSet(Tail(queue))
    BY <1>1, <2>2, SetOfRest
  <2>4. /\ queue' \in Seq(Fix) /\ Len(queue') = Len(Tail(queue)) + 1
        /\ ToSet(queue') = ToSet(Tail(queue)) \cup {n}
    BY <2>1, <2>3, SetOfAppended
  <2>5. Len(queue') <= Capacity
    BY <1>1, <2>3, <2>4
  <2> QED BY <1>1, <2>1, <2>3, <2>4, <2>5
<1>4. CASE ~(Len(queue) >= Capacity)
  <2>1. queue' = Append(queue, n) /\ dropped' = dropped
    BY <1>4 DEF Enqueue
  <2>2. /\ queue' \in Seq(Fix) /\ Len(queue') = Len(queue) + 1
        /\ ToSet(queue') = ToSet(queue) \cup {n}
    BY <1>1, <2>1, SetOfAppended
  <2> QED BY <1>1, <1>2, <1>4, <2>1, <2>2
<1> QED BY <1>3, <1>4

LEMMA Doubted ==
  ASSUME TypeOK, NEW load, Doubt(load)
  PROVE  /\ doubts' \in [Fix -> Nat]
         /\ \A n \in Fix : doubts'[n] = doubts[n] + Worth(n \in load)
BY DEF TypeOK, Doubt, Worth

LEMMA SentTyped ==
  ASSUME NEW kind \in {"single", "batch"}, NEW load \in SUBSET Fix
  PROVE  Sent(kind, load) \in Requests
BY DEF Sent, Requests

LEMMA NoRequestTyped == NoRequest \in Requests
BY DEF NoRequest, Requests

LEMMA QueueSet == TypeOK => ToSet(queue) \subseteq Fix
BY DEF TypeOK, ToSet

(* The parts of the type invariant that a step may concern.                *)
Typed ==
  /\ session \in Session \cup {None} /\ fixing \in [Session -> 0..MaxPending]
  /\ taken \in 0..MaxFixes /\ trip \in [Fix -> Session \cup {None}]
  /\ queue \in Seq(Fix) /\ Len(queue) <= Capacity
  /\ req \in [Request -> Requests]
  /\ stored \in [Fix -> Nat] /\ latest \in 0..MaxFixes
  /\ heard \subseteq Fix /\ dropped \subseteq Fix
  /\ doubts \in [Fix -> Nat]

LEMMA TypeParts == (TypeOK <=> Typed) /\ (Typed' => TypeOK')
BY DEF TypeOK, Requests, Typed

LEMMA InitTyped == Init => TypeOK
<1> SUFFICES ASSUME Init PROVE TypeOK
  OBVIOUS
<1>1. MaxFixes \in Nat /\ MaxPending \in Nat /\ Capacity \in Nat
  BY TrackingAssumption
<1>2. req \in [Request -> Requests]
  BY NoRequestTyped DEF Init
<1>3. queue \in Seq(Fix) /\ Len(queue) = 0
  BY DEF Init
<1> QED BY <1>1, <1>2, <1>3, TypeParts DEF Init, Typed

(* One request is another, its place and what is left of it.               *)
LEMMA ChangedTyped ==
  ASSUME NEW q \in Requests
  PROVE  /\ [q EXCEPT !.waiting = FALSE] \in Requests
         /\ \A at \in {"road", "store", "emit", "done", "gone"} : [q EXCEPT !.at = at] \in Requests
         /\ [q EXCEPT !.at = "done", !.ok = FALSE] \in Requests
         /\ \A left \in SUBSET Fix : /\ [q EXCEPT !.left = left, !.at = "store"] \in Requests
                                     /\ \A ok \in BOOLEAN : [q EXCEPT !.left = left, !.ok = ok] \in Requests
BY DEF Requests

LEMMA PhoneTyped ==
  ASSUME TypeOK, Phone
  PROVE  TypeOK'
<1> USE TypeParts DEF Typed
<1>1. MaxFixes \in Nat /\ MaxPending \in Nat /\ Fix = 1..MaxFixes
  BY TrackingAssumption DEF Fix
<1>2. CASE Stop
  BY <1>2 DEF Stop, server
<1>3. CASE Tick
  BY <1>1, <1>3, TrackingAssumption DEF Tick, Begun, server
<1>4. ASSUME NEW s \in Session, Start(s) PROVE TypeOK'
  BY <1>1, <1>4 DEF Start, Begun, server
<1>5. ASSUME NEW s \in Session, NoFix(s) PROVE TypeOK'
  BY <1>1, <1>5 DEF NoFix, Ended, server
<1>6. ASSUME NEW s \in Session, NEW r \in Request, FixComes(s, r) PROVE TypeOK'
  <2>1. fixing' \in [Session -> 0..MaxPending]
    BY <1>1, <1>6 DEF FixComes, Ended
  <2>2. taken' \in 0..MaxFixes /\ trip' \in [Fix -> Session \cup {None}] /\ req' \in [Request -> Requests]
    <3>1. CASE session # None
      <4>1. taken + 1 \in Fix /\ taken' = taken + 1
        <5>1. taken < MaxFixes /\ taken' = taken + 1
          BY <1>6, <3>1 DEF FixComes
        <5>2. taken \in 0..MaxFixes
          OBVIOUS
        <5> QED BY <1>1, <5>1, <5>2
      <4>2. Sent("single", {taken + 1}) \in Requests
        BY <4>1, SentTyped
      <4>3. req' = [req EXCEPT ![r] = Sent("single", {taken + 1})] /\ trip' = [trip EXCEPT ![taken + 1] = session]
        BY <1>6, <3>1 DEF FixComes
      <4> QED BY <1>1, <4>1, <4>2, <4>3
    <3>2. CASE session = None
      BY <1>6, <3>2 DEF FixComes
    <3> QED BY <3>1, <3>2
  <2> QED BY <1>6, <2>1, <2>2 DEF FixComes, server
<1>7. ASSUME NEW r \in Request, SingleAnswered(r) PROVE TypeOK'
  <2>1. req[r] \in Requests /\ req[r].load \subseteq Fix
    BY DEF Requests
  <2>2. CASE req[r].ok
    <3>1. Flush(r) /\ UNCHANGED <<session, fixing, taken, trip, server, queue, dropped>>
      BY <1>7, <2>2 DEF SingleAnswered
    <3>2. Sent("batch", ToSet(queue)) \in Requests
      BY QueueSet, SentTyped
    <3>3. req' \in [Request -> Requests]
      BY <3>1, <3>2, NoRequestTyped DEF Flush
    <3>4. doubts' \in [Fix -> Nat]
      BY <3>1, Doubted DEF Flush
    <3> QED BY <3>1, <3>3, <3>4 DEF server
  <2>3. CASE ~req[r].ok
    <3>1. PICK n \in req[r].load : Enqueue(n)
      BY <1>7, <2>3 DEF SingleAnswered, EnqueueAll
    <3>2. queue' \in Seq(Fix) /\ Len(queue') <= Capacity /\ dropped' \subseteq Fix
      BY <2>1, <3>1, Enqueued
    <3>3. req' \in [Request -> Requests]
      BY <1>7, <2>3, NoRequestTyped DEF SingleAnswered
    <3> QED BY <1>7, <2>3, <3>2, <3>3 DEF SingleAnswered, server
  <2> QED BY <2>2, <2>3
<1>8. ASSUME NEW r \in Request, BatchAnswered(r) PROVE TypeOK'
  <2>1. queue' \in Seq(Fix) /\ Len(queue') <= Capacity
    <3>1. CASE req[r].ok
      <4>1. queue' = Cleared(req[r].load)
        BY <1>8, <3>1 DEF BatchAnswered
      <4>2. queue \in Seq(Fix)
        OBVIOUS
      <4>3. Cleared(req[r].load) \in Seq(Fix) /\ Len(Cleared(req[r].load)) <= Len(queue)
        BY <4>2, ClearedIs
      <4>4. Len(queue) \in Nat /\ Capacity \in Nat /\ Len(queue') \in Nat
        BY <4>1, <4>3, TrackingAssumption
      <4> QED BY <4>1, <4>3, <4>4
    <3>2. CASE ~req[r].ok
      BY <1>8, <3>2 DEF BatchAnswered
    <3> QED BY <3>1, <3>2
  <2>2. req' \in [Request -> Requests]
    BY <1>8, NoRequestTyped DEF BatchAnswered
  <2> QED BY <1>8, <2>1, <2>2 DEF BatchAnswered, server
<1>9. ASSUME NEW r \in Request, GiveUp(r) PROVE TypeOK'
  <2>1. req[r] \in Requests /\ req[r].load \subseteq Fix
    BY DEF Requests
  <2>2. queue' \in Seq(Fix) /\ Len(queue') <= Capacity /\ dropped' \subseteq Fix
    <3>1. CASE req[r].kind = "single"
      <4>1. PICK n \in req[r].load : Enqueue(n)
        BY <1>9, <3>1 DEF GiveUp, EnqueueAll
      <4> QED BY <2>1, <4>1, Enqueued
    <3>2. CASE req[r].kind # "single"
      BY <1>9, <3>2 DEF GiveUp
    <3> QED BY <3>1, <3>2
  <2>3. req' = [req EXCEPT ![r] = [req[r] EXCEPT !.waiting = FALSE]]
    BY <1>9 DEF GiveUp
  <2>4. req' \in [Request -> Requests]
    BY <2>1, <2>3, ChangedTyped
  <2>5. doubts' \in [Fix -> Nat]
    BY <1>9, Doubted DEF GiveUp
  <2> QED BY <1>9, <2>2, <2>4, <2>5 DEF GiveUp, server
<1> QED BY <1>2, <1>3, <1>4, <1>5, <1>6, <1>7, <1>8, <1>9 DEF Phone

LEMMA NextTyped ==
  ASSUME TypeOK, NEW r \in Request, req[r].left # {}
  PROVE  Next1(r) \in req[r].left /\ Next1(r) \in Fix
<1>1. req[r].left \subseteq Fix
  BY DEF TypeOK
<1> QED BY <1>1, NextLeft

LEMMA ServerTyped ==
  ASSUME TypeOK, Server, \A r \in Request : req[r].at = "emit" => req[r].left # {}
  PROVE  TypeOK'
<1> USE TypeParts DEF Typed
<1>1. MaxFixes \in Nat /\ Fix = 1..MaxFixes
  BY TrackingAssumption DEF Fix
<1> SUFFICES ASSUME NEW r \in Request,
                    Lose(r) \/ Arrive(r) \/ Store(r) \/ Skip(r) \/ Emit(r) \/ Reply(r)
             PROVE  TypeOK'
  BY DEF Server
<1>2. req[r] \in Requests /\ req[r].left \subseteq Fix
  BY DEF Requests
<1>3. UNCHANGED <<phone, dropped, doubts>>
  BY DEF Lose, Arrive, Store, Skip, Emit, Reply
<1>4. CASE Lose(r)
  <2>1. req' = [req EXCEPT ![r] = [req[r] EXCEPT !.at = "gone"]]
    BY <1>4 DEF Lose
  <2> QED BY <1>2, <1>3, <1>4, <2>1, ChangedTyped DEF Lose, phone, server
<1>5. CASE Arrive(r)
  <2>1. \/ req' = [req EXCEPT ![r] = [req[r] EXCEPT !.at = "done", !.ok = FALSE]]
        \/ req' = [req EXCEPT ![r] = [req[r] EXCEPT !.at = "store"]]
    BY <1>5 DEF Arrive
  <2> QED BY <1>2, <1>3, <1>5, <2>1, ChangedTyped DEF Arrive, phone, server
<1>6. CASE Store(r)
  <2>1. req' = [req EXCEPT ![r] = [req[r] EXCEPT !.at = "emit"]]
    BY <1>6 DEF Store
  <2>2. Next1(r) \in Fix
    BY <1>6, NextTyped DEF Store
  <2>3. latest' \in 0..MaxFixes /\ stored' \in [Fix -> Nat]
    BY <1>1, <1>6, <2>2 DEF Store, Newer
  <2> QED BY <1>2, <1>3, <1>6, <2>1, <2>3, ChangedTyped DEF Store, phone
<1>7. CASE Skip(r)
  <2>1. req' = [req EXCEPT ![r] = [req[r] EXCEPT !.left = req[r].left \ {Next1(r)}, !.ok = (req[r].kind = "batch")]]
    BY <1>7 DEF Skip
  <2>2. (req[r].kind = "batch") \in BOOLEAN /\ req[r].left \ {Next1(r)} \subseteq Fix
    BY <1>2
  <2> DEFINE q == [req[r] EXCEPT !.left = req[r].left \ {Next1(r)}, !.ok = (req[r].kind = "batch")]
  <2>3. q \in Requests
    BY <1>2, <2>2, ChangedTyped
  <2>4. req' \in [Request -> Requests]
    BY <2>1, <2>3
  <2> QED BY <1>3, <1>7, <2>4 DEF Skip, phone, server
<1>8. CASE Emit(r)
  <2>1. req' = [req EXCEPT ![r] = [req[r] EXCEPT !.left = req[r].left \ {Next1(r)}, !.at = "store"]]
    BY <1>8 DEF Emit
  <2>2. req[r].left \ {Next1(r)} \subseteq Fix
    BY <1>2
  <2>3. Next1(r) \in Fix
    BY <1>8, NextTyped DEF Emit
  <2> DEFINE q == [req[r] EXCEPT !.left = req[r].left \ {Next1(r)}, !.at = "store"]
  <2>4. q \in Requests
    BY <1>2, <2>2, ChangedTyped
  <2>5. req' \in [Request -> Requests] /\ heard' \subseteq Fix
    BY <1>8, <2>1, <2>3, <2>4 DEF Emit
  <2> QED BY <1>3, <1>8, <2>5 DEF Emit, phone
<1>9. CASE Reply(r)
  <2>1. req' = [req EXCEPT ![r] = [req[r] EXCEPT !.at = "done"]]
    BY <1>9 DEF Reply
  <2> QED BY <1>2, <1>3, <1>9, <2>1, ChangedTyped DEF Reply, phone, server
<1> QED BY <1>4, <1>5, <1>6, <1>7, <1>8, <1>9
-----------------------------------------------------------------------------
(* Requests. *)

LEMMA NextIsLeast == \A r \in Request : Next1(r) = Least(req[r].left)
BY DEF Next1, Least

(* What is sent and stored only grows.                                     *)
Grows ==
  /\ taken <= taken' /\ taken' \in Nat
  /\ \A n \in 1..taken : trip'[n] = trip[n]
  /\ \A n \in Fix : stored[n] <= stored'[n] /\ stored[n] \in Nat /\ stored'[n] \in Nat

LEMMA StandsStill ==
  ASSUME TypeOK, UNCHANGED <<taken, trip, stored>>
  PROVE  Grows
BY TypeParts, TrackingAssumption DEF Typed, Grows

LEMMA LeastIsFix ==
  ASSUME NEW S \in SUBSET Fix, S # {}
  PROVE  Least(S) \in S /\ Least(S) \in Fix
<1>1. S \subseteq Nat
  BY DEF Fix
<1>2. \E n \in S : \A k \in S : n <= k
  BY <1>1, LeastOne
<1> QED BY <1>2 DEF Least

LEMMA StaysSound ==
  ASSUME TypeOK, NEW q \in Requests, Sound(q), Grows
  PROVE  Sound(q)'
<1>1. q.load \subseteq 1..taken /\ q.left \subseteq q.load /\ q.left \subseteq Fix /\ q.load \subseteq Fix
  BY DEF Sound, Requests
<1>2. \A n \in q.load : trip'[n] = trip[n] /\ (stored[n] > 0 => stored'[n] > 0)
  BY <1>1 DEF Grows
<1>3. q.load \subseteq 1..taken'
  <2>1. taken \in Nat /\ taken' \in Nat /\ taken <= taken'
    BY TypeParts DEF Typed, Grows
  <2> QED BY <1>1, <2>1
<1>4. q.left # {} => Least(q.left) \in q.load
  BY <1>1, LeastIsFix
<1> QED BY <1>1, <1>2, <1>3, <1>4 DEF Sound

LEMMA OneChanges ==
  ASSUME TypeOK, AllSound, Grows, NEW r \in Request, NEW q \in Requests,
         req' = [req EXCEPT ![r] = q], Sound(q)'
  PROVE  AllSound'
<1> SUFFICES ASSUME NEW p \in Request, NEW z \in Requests, z = req'[p]
             PROVE  Sound(z)'
  BY DEF AllSound
<1>1. req \in [Request -> Requests]
  BY TypeParts DEF Typed
<1>2. CASE p = r
  BY <1>1, <1>2
<1>3. CASE p # r
  <2>1. z = req[p]
    BY <1>1, <1>3
  <2> QED BY <2>1, StaysSound DEF AllSound
<1> QED BY <1>2, <1>3

LEMMA NoneChanges ==
  ASSUME TypeOK, AllSound, Grows, UNCHANGED req
  PROVE  AllSound'
<1> SUFFICES ASSUME NEW p \in Request, NEW z \in Requests, z = req[p]
             PROVE  Sound(z)'
  BY DEF AllSound
<1> QED BY StaysSound DEF AllSound

LEMMA NoRequestSound == Sound(NoRequest)'
BY DEF Sound, NoRequest

LEMMA SentSound ==
  ASSUME NEW kind \in {"single", "batch"}, NEW load \in SUBSET Fix, load \subseteq 1..taken',
         kind = "single" => \E n \in Fix : load = {n}
  PROVE  Sound(Sent(kind, load))'
BY DEF Sound, Sent

(* The next state of one request, by action of the server.                 *)
LEMMA ServerSound ==
  ASSUME TrackInv, NEW r \in Request, NEW q \in Requests, q = req[r], Grows,
         UNCHANGED <<taken, trip>>
  PROVE  /\ Sound([q EXCEPT !.at = "gone"])'
         /\ q.at = "road" /\ q.kind # "single" => Sound([q EXCEPT !.at = "done", !.ok = FALSE])'
         /\ q.at = "road" => Sound([q EXCEPT !.at = "store"])'
         /\ q.left # {} /\ stored'[Least(q.left)] > 0 /\ q.at = "store" => Sound([q EXCEPT !.at = "emit"])'
         /\ q.at = "store" /\ q.left = {} => Sound([q EXCEPT !.at = "done"])'
<1>1. Sound(q)
  BY DEF TrackInv, AllSound
<1>2. Sound(q)'
  BY <1>1, StaysSound DEF TrackInv
<1>3. Sound([q EXCEPT !.at = "gone"])'
  BY <1>2 DEF Sound, Requests
<1>4. q.at = "road" /\ q.kind # "single" => Sound([q EXCEPT !.at = "done", !.ok = FALSE])'
  BY <1>2 DEF Sound, Requests
<1>5. q.at = "road" => Sound([q EXCEPT !.at = "store"])'
  BY <1>2 DEF Sound, Requests
<1>6. q.left # {} /\ stored'[Least(q.left)] > 0 /\ q.at = "store" => Sound([q EXCEPT !.at = "emit"])'
  BY <1>2 DEF Sound, Requests
<1>7. q.at = "store" /\ q.left = {} => Sound([q EXCEPT !.at = "done"])'
  BY <1>2 DEF Sound, Requests
<1> QED BY <1>3, <1>4, <1>5, <1>6, <1>7

(* The fix a request has dealt with comes off, stored or skipped.          *)
LEMMA OffSound ==
  ASSUME TrackInv, NEW r \in Request, NEW q \in Requests, q = req[r], Grows,
         UNCHANGED <<taken, trip>>, q.left # {}
  PROVE  /\ q.at = "emit" => Sound([q EXCEPT !.left = q.left \ {Least(q.left)}, !.at = "store"])'
         /\ q.at = "store" /\ trip[Least(q.left)] \in Unfit =>
              Sound([q EXCEPT !.left = q.left \ {Least(q.left)}, !.ok = (q.kind = "batch")])'
<1>1. Sound(q)
  BY DEF TrackInv, AllSound
<1>2. Sound(q)'
  BY <1>1, StaysSound DEF TrackInv
<1> DEFINE m == Least(q.left)
<1>3. m \in q.left
  BY LeastIsFix DEF Requests
<1> HIDE DEF m
<1>4. CASE q.at = "emit"
  <2> DEFINE z == [q EXCEPT !.left = q.left \ {m}, !.at = "store"]
  <2>1. /\ z.load = q.load /\ z.left = q.left \ {m} /\ z.at = "store" /\ z.ok = q.ok
        /\ z.kind = q.kind
    BY DEF Requests
  <2>2. stored'[m] > 0
    BY <1>2, <1>4 DEF Sound, m
  <2> HIDE DEF z
  <2>3. Sound(z)'
    BY <1>2, <1>4, <2>1, <2>2 DEF Sound
  <2> QED BY <1>4, <2>3 DEF z, m
<1>5. CASE q.at = "store" /\ trip[m] \in Unfit
  <2> DEFINE z == [q EXCEPT !.left = q.left \ {m}, !.ok = (q.kind = "batch")]
  <2>1. /\ z.load = q.load /\ z.left = q.left \ {m} /\ z.at = "store" /\ z.ok = (q.kind = "batch")
        /\ z.kind = q.kind
    BY <1>5 DEF Requests
  <2>2. trip'[m] \in Unfit
    BY <1>5
  <2> HIDE DEF z
  <2>3. q.kind = "single" => \A n \in q.load : trip'[n] \in Unfit
    BY <1>2, <1>3, <2>2 DEF Sound
  <2>4. Sound(z)'
    BY <1>2, <1>5, <2>1, <2>2, <2>3 DEF Sound
  <2> QED BY <1>5, <2>4 DEF z, m
<1> QED BY <1>4, <1>5 DEF m
-----------------------------------------------------------------------------
(* Every step keeps what holds of the queue and of the requests, and       *)
(* accounts for every fix.                                                 *)

KnownInv == TrackInv /\ NothingForgotten

LEMMA AccountedMeans == (NothingForgotten <=> \A n \in 1..taken : Accounted(n))
                     /\ ((\A n \in 1..taken : Accounted(n))' => NothingForgotten')
BY DEF NothingForgotten, Accounted

LEMMA InitKnown == Init => KnownInv
<1> SUFFICES ASSUME Init PROVE KnownInv
  OBVIOUS
<1>1. TypeOK
  BY InitTyped
<1>2. QueueKnown
  BY DEF Init, QueueKnown, ToSet
<1>3. OnlyFitStored
  BY DEF Init, OnlyFitStored
<1>4. AllSound
  BY DEF Init, AllSound, Sound, NoRequest
<1>5. NothingForgotten
  BY DEF Init, NothingForgotten
<1> QED BY <1>1, <1>2, <1>3, <1>4, <1>5 DEF KnownInv, TrackInv

LEMMA QuietKnown ==
  ASSUME KnownInv, UNCHANGED <<taken, trip, queue, req, stored, dropped>>
  PROVE  QueueKnown' /\ OnlyFitStored' /\ AllSound' /\ NothingForgotten'
<1>1. AllSound'
  BY StandsStill, NoneChanges DEF KnownInv, TrackInv
<1> QED BY <1>1 DEF KnownInv, TrackInv, QueueKnown, OnlyFitStored, NothingForgotten

LEMMA FixComesKnown ==
  ASSUME KnownInv, NEW s \in Session, NEW r \in Request, FixComes(s, r), session # None
  PROVE  QueueKnown' /\ OnlyFitStored' /\ AllSound' /\ NothingForgotten'
<1> PICK n : n = taken + 1
  OBVIOUS
<1>1. /\ taken < MaxFixes /\ Spare(r) /\ taken' = n /\ trip' = [trip EXCEPT ![n] = session]
      /\ req' = [req EXCEPT ![r] = Sent("single", {n})]
      /\ UNCHANGED <<queue, stored, dropped>>
  BY DEF FixComes, server
<1>2. TypeOK /\ Typed /\ QueueKnown /\ OnlyFitStored /\ AllSound /\ NothingForgotten
  BY TypeParts DEF KnownInv, TrackInv
<1>3. MaxFixes \in Nat /\ taken \in Nat /\ Fix = 1..MaxFixes
  BY <1>2, TrackingAssumption DEF Fix, Typed
<1>4. n \in Fix /\ n \in 1..taken' /\ n \notin 1..taken
  BY <1>1, <1>3
<1>5. \A k \in 1..taken : k \in Fix /\ k # n /\ trip'[k] = trip[k]
  BY <1>1, <1>2, <1>3 DEF Typed
<1>6. 1..taken' = 1..taken \cup {n}
  BY <1>1, <1>3
<1>7. \A k \in Fix : k > taken' => k > taken
  BY <1>1, <1>3
<1>8. n > taken
  BY <1>3
<1>9. Grows
  <2>1. taken <= taken' /\ taken' \in Nat
    BY <1>1, <1>3
  <2> QED BY <2>1, <1>1, <1>2, <1>5 DEF Grows, Typed
<1>10. Sent("single", {n}) \in Requests /\ Sound(Sent("single", {n}))'
  BY <1>4, SentTyped, SentSound
<1>11. AllSound'
  BY <1>1, <1>2, <1>9, <1>10, OneChanges
<1>12. QueueKnown'
  BY <1>1, <1>2, <1>6 DEF QueueKnown
<1>13. OnlyFitStored'
  <2> SUFFICES ASSUME NEW k \in Fix, k > taken' \/ trip'[k] \in Unfit PROVE stored[k] = 0
    BY <1>1 DEF OnlyFitStored
  <2>1. CASE k = n
    BY <1>2, <1>8, <2>1 DEF OnlyFitStored
  <2>2. CASE k # n
    <3>1. trip'[k] = trip[k]
      BY <1>1, <1>2, <2>2 DEF Typed
    <3> QED BY <1>2, <1>7, <3>1 DEF OnlyFitStored
  <2> QED BY <2>1, <2>2
<1>14. NothingForgotten'
  <2> SUFFICES ASSUME NEW k \in 1..taken' PROVE Accounted(k)'
    BY AccountedMeans
  <2>1. CASE k = n
    <3>1. req'[r] = Sent("single", {n})
      BY <1>1, <1>2 DEF Typed
    <3>2. req'[r].kind = "single" /\ req'[r].waiting /\ n \in req'[r].load
      BY <3>1 DEF Sent
    <3> QED BY <2>1, <3>2 DEF Accounted
  <2>2. CASE k \in 1..taken
    <3>1. Accounted(k)
      BY <1>2, <2>2, AccountedMeans
    <3>2. trip'[k] = trip[k]
      BY <1>5, <2>2
    <3>3. \A p \in Request : req[p].waiting => req'[p] = req[p]
      BY <1>1, <1>2 DEF Spare, Typed
    <3> QED BY <1>1, <3>1, <3>2, <3>3 DEF Accounted
  <2> QED BY <1>6, <2>1, <2>2
<1> QED BY <1>11, <1>12, <1>13, <1>14

(* A request ends or takes the queue along; what it was about is on record *)
(* or goes into the queue.                                                 *)
LEMMA AnsweredKnown ==
  ASSUME KnownInv, NEW r \in Request, SingleAnswered(r) \/ BatchAnswered(r) \/ GiveUp(r)
  PROVE  QueueKnown' /\ OnlyFitStored' /\ AllSound' /\ NothingForgotten'
<1>1. TypeOK /\ Typed /\ QueueKnown /\ OnlyFitStored /\ AllSound /\ NothingForgotten
  BY TypeParts DEF KnownInv, TrackInv
<1>2. UNCHANGED <<taken, trip, stored>>
  BY DEF SingleAnswered, BatchAnswered, GiveUp, server
<1>3. Grows
  BY <1>1, <1>2, StandsStill
<1>4. OnlyFitStored'
  BY <1>1, <1>2 DEF OnlyFitStored
<1>5. PICK q \in Requests : q = req[r]
  BY <1>1 DEF Typed
<1>6. Sound(q) /\ q.load \subseteq Fix /\ q.load \subseteq 1..taken
  BY <1>1, <1>5 DEF AllSound, Sound, Requests
<1>7. QueueKnown' /\ (\A n \in 1..taken : n \in ToSet(queue) =>
                         n \in ToSet(queue') \/ n \in dropped' \/ stored[n] > 0 \/ trip[n] \in Unfit)
      /\ dropped \subseteq dropped'
      /\ (q.kind = "single" /\ req'[r] # q => \A n \in q.load : n \in ToSet(queue') \/ stored[n] > 0 \/ trip[n] \in Unfit)
  <2>1. CASE SingleAnswered(r) /\ q.ok
    <3>1. UNCHANGED <<queue, dropped>> /\ q.at = "done"
      BY <1>5, <2>1 DEF SingleAnswered
    <3>2. \A n \in q.load : stored[n] > 0 \/ trip[n] \in Unfit
      BY <1>6, <2>1, <3>1 DEF Sound
    <3> QED BY <1>1, <1>2, <3>1, <3>2 DEF QueueKnown
  <2>2. CASE BatchAnswered(r)
    <3>1. q.kind = "batch" /\ q.at = "done" /\ UNCHANGED dropped /\ queue' = IF q.ok THEN Cleared(q.load) ELSE queue
      BY <1>5, <2>2 DEF BatchAnswered
    <3>2. CASE q.ok
      <4>1. ToSet(queue') = ToSet(queue) \ q.load
        BY <1>1, <3>1, <3>2, ClearedIs DEF Typed
      <4>2. \A n \in q.load : stored[n] > 0 \/ trip[n] \in Unfit
        BY <1>6, <3>1, <3>2 DEF Sound
      <4> QED BY <1>1, <1>2, <3>1, <4>1, <4>2 DEF QueueKnown
    <3>3. CASE ~q.ok
      BY <1>1, <1>2, <3>1, <3>3 DEF QueueKnown
    <3> QED BY <3>2, <3>3
  <2>3. CASE GiveUp(r) /\ q.kind # "single"
    <3>1. UNCHANGED <<queue, dropped>>
      BY <1>5, <2>3 DEF GiveUp
    <3> QED BY <1>1, <1>2, <2>3, <3>1 DEF QueueKnown
  <2>4. CASE (SingleAnswered(r) /\ ~q.ok) \/ (GiveUp(r) /\ q.kind = "single")
    <3>1. q.kind = "single" /\ EnqueueAll(q.load)
      BY <1>5, <2>4 DEF SingleAnswered, GiveUp
    <3>2. PICK n \in q.load : Enqueue(n)
      BY <3>1 DEF EnqueueAll
    <3>3. q.load = {n}
      BY <1>6, <3>1, <3>2 DEF Sound
    <3>4. /\ ToSet(queue') \subseteq ToSet(queue) \cup {n} /\ n \in ToSet(queue')
          /\ ToSet(queue) \subseteq ToSet(queue') \cup dropped' /\ dropped \subseteq dropped'
      BY <1>1, <1>6, <3>2, Enqueued
    <3>5. ToSet(queue') \subseteq 1..taken
      BY <1>1, <1>6, <3>2, <3>4 DEF QueueKnown
    <3> QED BY <1>2, <3>3, <3>4, <3>5 DEF QueueKnown
  <2> QED BY <2>1, <2>2, <2>3, <2>4
<1>8. PICK z \in Requests : req' = [req EXCEPT ![r] = z] /\ Sound(z)' /\ (GiveUp(r) => z = [q EXCEPT !.waiting = FALSE])
  <2>1. CASE req' = [req EXCEPT ![r] = NoRequest] /\ ~GiveUp(r)
    BY <2>1, NoRequestTyped, NoRequestSound
  <2>2. CASE req' = [req EXCEPT ![r] = Sent("batch", ToSet(queue))] /\ ~GiveUp(r)
    <3>1. PICK load : load = ToSet(queue)
      OBVIOUS
    <3>2. load \in SUBSET Fix /\ load \subseteq 1..taken'
      BY <1>1, <1>2, <3>1, QueueSet DEF QueueKnown
    <3>3. Sent("batch", load) \in Requests /\ Sound(Sent("batch", load))'
      BY <3>2, SentTyped, SentSound
    <3> QED BY <2>2, <3>1, <3>3
  <2>3. CASE GiveUp(r)
    <3>1. req' = [req EXCEPT ![r] = [q EXCEPT !.waiting = FALSE]]
      BY <1>5, <2>3 DEF GiveUp
    <3>2. [q EXCEPT !.waiting = FALSE] \in Requests
      BY ChangedTyped
    <3>3. Sound(q)'
      BY <1>1, <1>3, <1>6, StaysSound
    <3>4. Sound([q EXCEPT !.waiting = FALSE])'
      BY <3>3 DEF Sound, Requests
    <3> QED BY <3>1, <3>2, <3>4
  <2> QED BY <2>1, <2>2, <2>3 DEF SingleAnswered, BatchAnswered, Flush
<1>9. AllSound'
  BY <1>1, <1>3, <1>8, OneChanges
<1>10. NothingForgotten'
  <2> SUFFICES ASSUME NEW n \in 1..taken PROVE Accounted(n)'
    BY <1>2, AccountedMeans
  <2>1. Accounted(n)
    BY <1>1, AccountedMeans
  <2>2. stored'[n] = stored[n] /\ trip'[n] = trip[n]
    BY <1>2
  <2>3. \A p \in Request : p # r => req'[p] = req[p]
    BY <1>1, <1>8 DEF Typed
  <2>4. CASE \E p \in Request : req[p].kind = "single" /\ req[p].waiting /\ n \in req[p].load
    <3>1. PICK p \in Request : req[p].kind = "single" /\ req[p].waiting /\ n \in req[p].load
      BY <2>4
    <3>2. CASE p = r
      <4>1. q.kind = "single" /\ q.waiting /\ n \in q.load
        BY <1>5, <3>1, <3>2
      <4>2. CASE req'[r] # q
        BY <1>7, <2>2, <4>1, <4>2 DEF Accounted
      <4>3. CASE req'[r] = q
        BY <4>1, <4>3 DEF Accounted
      <4> QED BY <4>2, <4>3
    <3>3. CASE p # r
      BY <2>3, <3>1, <3>3 DEF Accounted
    <3> QED BY <3>2, <3>3
  <2>5. CASE n \in ToSet(queue)
    BY <1>7, <2>2, <2>5 DEF Accounted
  <2> QED BY <1>7, <2>1, <2>2, <2>4, <2>5 DEF Accounted
<1> QED BY <1>4, <1>7, <1>9, <1>10

(* A batch can be refused for its size, a single ping never.               *)
LEMMA SingleFits ==
  ASSUME TrackInv, NEW r \in Request, NEW q \in Requests, q = req[r], q.kind = "single"
  PROVE  ~(Cardinality(q.load) > BatchMax)
<1>1. PICK n \in Fix : q.load = {n}
  BY DEF TrackInv, AllSound, Sound
<1>2. Cardinality({n}) = 1
  BY FS_Singleton
<1>3. BatchMax \in Nat /\ BatchMax > 0
  BY TrackingAssumption
<1> QED BY <1>1, <1>2, <1>3

(* What a step of the server does to its request.                          *)
LEMMA ServerMoves ==
  ASSUME TrackInv, NEW r \in Request, NEW q \in Requests, q = req[r],
         Lose(r) \/ Arrive(r) \/ Store(r) \/ Skip(r) \/ Emit(r) \/ Reply(r)
  PROVE  /\ UNCHANGED <<session, fixing, taken, trip, queue, dropped, doubts>>
         /\ Store(r) \/ UNCHANGED <<stored, latest>>
         /\ \E z \in Requests :
              /\ req' = [req EXCEPT ![r] = z] /\ Grows /\ Sound(z)'
              /\ z.kind = q.kind /\ z.load = q.load /\ z.waiting = q.waiting
<1>1. TypeOK /\ Typed
  BY TypeParts DEF TrackInv
<1>2. q.left \subseteq Fix /\ Next1(r) = Least(q.left)
  BY NextIsLeast DEF Requests
<1>3. /\ UNCHANGED <<session, fixing, taken, trip, queue, dropped, doubts>>
      /\ Store(r) \/ UNCHANGED <<stored, latest>>
  BY DEF Lose, Arrive, Store, Skip, Emit, Reply, phone, server
<1>4. ~Store(r) => Grows
  BY <1>1, <1>3, StandsStill
<1> SUFFICES \E z \in Requests :
               /\ req' = [req EXCEPT ![r] = z] /\ Grows /\ Sound(z)'
               /\ z.kind = q.kind /\ z.load = q.load /\ z.waiting = q.waiting
  BY <1>3
<1>5. CASE Lose(r) /\ ~Store(r)
  <2> DEFINE z == [q EXCEPT !.at = "gone"]
  <2>1. req' = [req EXCEPT ![r] = z]
    BY <1>5 DEF Lose
  <2>2. z \in Requests /\ z.kind = q.kind /\ z.load = q.load /\ z.waiting = q.waiting
    BY DEF Requests
  <2>3. Sound(z)'
    BY <1>3, <1>4, <1>5, ServerSound
  <2> QED BY <1>4, <1>5, <2>1, <2>2, <2>3
<1>6. CASE Arrive(r) /\ ~Store(r)
  <2>1. q.at = "road"
    BY <1>6 DEF Arrive
  <2>2. CASE Cardinality(q.load) > BatchMax
    <3> DEFINE z == [q EXCEPT !.at = "done", !.ok = FALSE]
    <3>1. req' = [req EXCEPT ![r] = z]
      BY <1>6, <2>2 DEF Arrive
    <3>2. z \in Requests /\ z.kind = q.kind /\ z.load = q.load /\ z.waiting = q.waiting
      BY DEF Requests
    <3>3. q.kind # "single"
      BY <2>2, SingleFits
    <3>4. Sound(z)'
      BY <1>3, <1>4, <1>6, <2>1, <3>3, ServerSound
    <3> QED BY <1>4, <1>6, <3>1, <3>2, <3>4
  <2>3. CASE ~(Cardinality(q.load) > BatchMax)
    <3> DEFINE z == [q EXCEPT !.at = "store"]
    <3>1. req' = [req EXCEPT ![r] = z]
      BY <1>6, <2>3 DEF Arrive
    <3>2. z \in Requests /\ z.kind = q.kind /\ z.load = q.load /\ z.waiting = q.waiting
      BY DEF Requests
    <3>3. Sound(z)'
      BY <1>3, <1>4, <1>6, <2>1, ServerSound
    <3> QED BY <1>4, <1>6, <3>1, <3>2, <3>3
  <2> QED BY <2>2, <2>3
<1>7. CASE Store(r)
  <2> DEFINE z == [q EXCEPT !.at = "emit"]
             m == Least(q.left)
  <2>1. /\ req' = [req EXCEPT ![r] = z] /\ q.at = "store" /\ q.left # {}
        /\ stored' = [stored EXCEPT ![m] = @ + 1]
    BY <1>2, <1>7 DEF Store
  <2>2. z \in Requests /\ z.kind = q.kind /\ z.load = q.load /\ z.waiting = q.waiting
    BY DEF Requests
  <2>3. m \in Fix
    BY <1>2, <2>1, LeastIsFix
  <2> HIDE DEF m
  <2>4. stored'[m] > 0
    BY <1>1, <2>1, <2>3 DEF Typed
  <2>5. Grows
    <3>1. taken <= taken' /\ taken' \in Nat
      BY <1>1, <1>3, TrackingAssumption DEF Typed
    <3> QED BY <1>1, <1>3, <2>1, <2>3, <3>1 DEF Typed, Grows
  <2>6. Sound(z)'
    BY <1>3, <2>1, <2>4, <2>5, ServerSound DEF m
  <2> QED BY <2>1, <2>2, <2>5, <2>6
<1>8. CASE Skip(r) /\ ~Store(r)
  <2> DEFINE z == [q EXCEPT !.left = q.left \ {Least(q.left)}, !.ok = (q.kind = "batch")]
  <2>1. req' = [req EXCEPT ![r] = z] /\ q.at = "store" /\ q.left # {} /\ trip[Least(q.left)] \in Unfit
    BY <1>2, <1>8 DEF Skip
  <2>2. z \in Requests /\ z.kind = q.kind /\ z.load = q.load /\ z.waiting = q.waiting
    BY <1>2 DEF Requests
  <2>3. Sound(z)'
    BY <1>3, <1>4, <1>8, <2>1, OffSound
  <2> QED BY <1>4, <1>8, <2>1, <2>2, <2>3
<1>9. CASE Emit(r) /\ ~Store(r)
  <2> DEFINE z == [q EXCEPT !.left = q.left \ {Least(q.left)}, !.at = "store"]
  <2>1. req' = [req EXCEPT ![r] = z] /\ q.at = "emit"
    BY <1>2, <1>9 DEF Emit
  <2>2. z \in Requests /\ z.kind = q.kind /\ z.load = q.load /\ z.waiting = q.waiting
    BY <1>2 DEF Requests
  <2>3. q.left # {}
    BY <2>1 DEF TrackInv, AllSound, Sound
  <2>4. Sound(z)'
    BY <1>3, <1>4, <1>9, <2>1, <2>3, OffSound
  <2> QED BY <1>4, <1>9, <2>1, <2>2, <2>4
<1>10. CASE Reply(r) /\ ~Store(r)
  <2> DEFINE z == [q EXCEPT !.at = "done"]
  <2>1. req' = [req EXCEPT ![r] = z] /\ q.at = "store" /\ q.left = {}
    BY <1>10 DEF Reply
  <2>2. z \in Requests /\ z.kind = q.kind /\ z.load = q.load /\ z.waiting = q.waiting
    BY DEF Requests
  <2>3. Sound(z)'
    BY <1>3, <1>4, <1>10, <2>1, ServerSound
  <2> QED BY <1>4, <1>10, <2>1, <2>2, <2>3
<1> QED BY <1>5, <1>6, <1>7, <1>8, <1>9, <1>10

LEMMA ServerKnown ==
  ASSUME KnownInv, NEW r \in Request,
         Lose(r) \/ Arrive(r) \/ Store(r) \/ Skip(r) \/ Emit(r) \/ Reply(r)
  PROVE  QueueKnown' /\ OnlyFitStored' /\ AllSound' /\ NothingForgotten'
<1>1. TrackInv /\ TypeOK /\ Typed /\ QueueKnown /\ OnlyFitStored /\ AllSound /\ NothingForgotten
  BY TypeParts DEF KnownInv, TrackInv
<1>2. PICK q \in Requests : q = req[r]
  BY <1>1 DEF Typed
<1>3. /\ UNCHANGED <<session, fixing, taken, trip, queue, dropped, doubts>>
      /\ Store(r) \/ UNCHANGED <<stored, latest>>
  BY <1>1, <1>2, ServerMoves
<1>4. PICK z \in Requests : /\ req' = [req EXCEPT ![r] = z] /\ Grows /\ Sound(z)'
                            /\ z.kind = q.kind /\ z.load = q.load /\ z.waiting = q.waiting
  BY <1>1, <1>2, ServerMoves
<1>5. AllSound'
  BY <1>1, <1>4, OneChanges
<1>6. QueueKnown'
  BY <1>1, <1>3 DEF QueueKnown
<1>7. OnlyFitStored'
  <2>1. CASE UNCHANGED <<stored, latest>>
    BY <1>1, <1>3, <2>1 DEF OnlyFitStored
  <2>2. CASE Store(r)
    <3>1. PICK n : n = Least(q.left)
      OBVIOUS
    <3>2. q.left # {} /\ trip[n] \notin Unfit /\ stored' = [stored EXCEPT ![n] = @ + 1]
      BY <1>2, <2>2, <3>1, NextIsLeast DEF Store
    <3>3. n \in q.load /\ n \in Fix /\ q.load \subseteq 1..taken
      BY <1>1, <1>2, <3>1, <3>2, LeastIsFix DEF AllSound, Sound, Requests
    <3>4. ~(n > taken)
      BY <1>1, <3>3, TrackingAssumption DEF Typed
    <3> QED BY <1>1, <1>3, <3>2, <3>3, <3>4 DEF OnlyFitStored, Typed
  <2> QED BY <1>3, <2>1, <2>2
<1>8. NothingForgotten'
  <2> SUFFICES ASSUME NEW n \in 1..taken PROVE Accounted(n)'
    BY <1>3, AccountedMeans
  <2>1. Accounted(n)
    BY <1>1, AccountedMeans
  <2>2. stored[n] > 0 => stored'[n] > 0
    <3>1. n \in Fix
      BY <1>1, TrackingAssumption DEF Typed, Fix
    <3> QED BY <1>4, <3>1 DEF Grows
  <2>3. \A p \in Request : /\ req'[p].kind = req[p].kind /\ req'[p].load = req[p].load
                           /\ req'[p].waiting = req[p].waiting
    BY <1>1, <1>2, <1>4 DEF Typed
  <2> QED BY <1>3, <2>1, <2>2, <2>3 DEF Accounted
<1> QED BY <1>5, <1>6, <1>7, <1>8

LEMMA EmitHasLeft == TrackInv => \A r \in Request : req[r].at = "emit" => req[r].left # {}
<1> SUFFICES ASSUME TrackInv, NEW r \in Request, req[r].at = "emit" PROVE req[r].left # {}
  OBVIOUS
<1>1. PICK q \in Requests : q = req[r]
  BY TypeParts DEF TrackInv, Typed
<1> QED BY <1>1 DEF TrackInv, AllSound, Sound

LEMMA StepKnown == KnownInv /\ [Next]_vars => KnownInv'
<1> SUFFICES ASSUME KnownInv, [Next]_vars PROVE KnownInv'
  OBVIOUS
<1>1. TypeOK /\ Typed /\ TrackInv
  BY TypeParts DEF KnownInv, TrackInv
<1>2. TypeOK'
  <2>1. UNCHANGED vars => TypeOK'
    BY <1>1, TypeParts DEF Typed, vars, phone, server
  <2> QED BY <1>1, <2>1, PhoneTyped, ServerTyped, EmitHasLeft DEF Next
<1>3. QueueKnown' /\ OnlyFitStored' /\ AllSound' /\ NothingForgotten'
  <2>1. CASE UNCHANGED <<taken, trip, queue, req, stored, dropped>>
    BY <2>1, QuietKnown
  <2>2. Stop \/ Tick \/ UNCHANGED vars => UNCHANGED <<taken, trip, queue, req, stored, dropped>>
    BY DEF Stop, Tick, vars, phone, server
  <2>3. ASSUME NEW s \in Session, Start(s) \/ NoFix(s)
        PROVE  UNCHANGED <<taken, trip, queue, req, stored, dropped>>
    BY <2>3 DEF Start, NoFix, server
  <2>4. ASSUME NEW s \in Session, NEW r \in Request, FixComes(s, r), session = None
        PROVE  UNCHANGED <<taken, trip, queue, req, stored, dropped>>
    BY <2>4 DEF FixComes, server
  <2>5. CASE Server
    BY <2>5, ServerKnown DEF Server
  <2>6. CASE Phone
    BY <2>1, <2>2, <2>3, <2>4, <2>6, FixComesKnown, AnsweredKnown DEF Phone
  <2> QED BY <2>1, <2>2, <2>5, <2>6 DEF Next
<1> QED BY <1>2, <1>3 DEF KnownInv, TrackInv

(* Sent, queued, flushed, cleared and stored, whatever is lost on the way: *)
(* the positions stay of their types, the queue within its capacity        *)
(* (queueOfflinePing).                                                     *)
THEOREM TrackingTyped == Spec => []TypeOK
<1>1. KnownInv => TypeOK
  BY DEF KnownInv, TrackInv
<1> QED BY <1>1, InitKnown, StepKnown, PTL DEF Spec

(* Every fix sent is on record, on the phone, or gone for a reason         *)
(* (transmitLivePing, flushOfflineOutbox).                                 *)
THEOREM NothingIsForgotten == Spec => []NothingForgotten
<1>1. KnownInv => NothingForgotten
  BY DEF KnownInv
<1> QED BY <1>1, InitKnown, StepKnown, PTL DEF Spec

(* Overlapping batches and late pings leave the newest position stored as  *)
(* the latest (ingestGpsPosition).                                         *)
THEOREM LatestNeverGoesBack == Spec => []LatestIsNewest
<1> DEFINE Inv == KnownInv /\ LatestIsNewest
<1>1. Init => Inv
  BY InitKnown DEF Init, LatestIsNewest
<1>2. Inv /\ [Next]_vars => Inv'
  <2> SUFFICES ASSUME KnownInv, LatestIsNewest, [Next]_vars PROVE LatestIsNewest'
    BY StepKnown
  <2>1. TrackInv /\ TypeOK /\ Typed
    BY TypeParts DEF KnownInv, TrackInv
  <2>2. CASE UNCHANGED <<stored, latest>>
    BY <2>2 DEF LatestIsNewest
  <2>3. Phone \/ UNCHANGED vars => UNCHANGED <<stored, latest>>
    BY DEF Phone, vars, server, Stop, Tick, Start, NoFix, FixComes, SingleAnswered, BatchAnswered, GiveUp
  <2>4. ASSUME NEW r \in Request, Store(r) PROVE LatestIsNewest'
    <3> DEFINE n == Next1(r)
    <3>1. n \in Fix
      BY <2>1, <2>4, NextTyped DEF Store
    <3>2. stored' = [stored EXCEPT ![n] = @ + 1] /\ latest' = IF n >= latest THEN n ELSE latest
      BY <2>4 DEF Store, Newer
    <3> HIDE DEF n
    <3>3. MaxFixes \in Nat /\ Fix = 1..MaxFixes /\ latest \in 0..MaxFixes
      BY <2>1, TrackingAssumption DEF Fix, Typed
    <3>4. \A k \in Fix : stored[k] \in Nat /\ k \in Nat
      BY <2>1, <3>3 DEF Typed
    <3>5. stored'[n] > 0 /\ \A k \in Fix : k # n => stored'[k] = stored[k]
      BY <2>1, <3>1, <3>2, <3>4 DEF Typed
    <3>6. latest \in Fix \/ latest = 0
      BY <3>3
    <3> QED BY <3>1, <3>2, <3>3, <3>4, <3>5, <3>6 DEF LatestIsNewest
  <2>5. Server => UNCHANGED <<stored, latest>> \/ \E r \in Request : Store(r)
    BY DEF Server, server, Lose, Arrive, Skip, Emit, Reply
  <2> QED BY <2>2, <2>3, <2>4, <2>5 DEF Next
<1> QED BY <1>1, <1>2, PTL DEF Spec
-----------------------------------------------------------------------------
(* How often a fix may be stored.  Each step changes at most one request,  *)
(* so what a step does to the chances of a fix is seen on that request,    *)
(* on the queue and on the server's record.                                *)

LEMMA WorthIs == \A b \in BOOLEAN : Worth(b) \in {0, 1} /\ (Worth(b) = 1 <=> b)
BY DEF Worth

LEMMA CountSplit ==
  ASSUME NEW f, NEW r \in Request, NEW n
  PROVE  /\ Cardinality({p \in Request : MayStore(f[p], n)}) \in Nat
         /\ Cardinality({p \in Request \ {r} : MayStore(f[p], n)}) \in Nat
         /\ Cardinality({p \in Request : MayStore(f[p], n)}) =
              Cardinality({p \in Request \ {r} : MayStore(f[p], n)}) + Worth(MayStore(f[r], n))
<1> DEFINE All == {p \in Request : MayStore(f[p], n)}
           Rest == {p \in Request \ {r} : MayStore(f[p], n)}
<1>1. IsFiniteSet(Request) /\ All \subseteq Request /\ Rest \subseteq Request /\ r \notin Rest
  BY TrackingAssumption
<1>2. All = IF MayStore(f[r], n) THEN Rest \cup {r} ELSE Rest
  OBVIOUS
<1> HIDE DEF All, Rest
<1>3. IsFiniteSet(All) /\ IsFiniteSet(Rest)
  BY <1>1, FS_Subset
<1>4. Cardinality(All) \in Nat /\ Cardinality(Rest) \in Nat
  BY <1>3, FS_CardinalityType
<1>5. Cardinality(Rest \cup {r}) = Cardinality(Rest) + 1
  BY <1>1, <1>3, FS_AddElement
<1>6. Cardinality(All) = Cardinality(Rest) + Worth(MayStore(f[r], n))
  BY <1>2, <1>4, <1>5 DEF Worth
<1> QED BY <1>4, <1>6 DEF All, Rest

LEMMA ChancesMove ==
  ASSUME TypeOK, TypeOK', NEW r \in Request, NEW q, q = req[r], NEW z,
         req' = [req EXCEPT ![r] = z], NEW n \in Fix
  PROVE  /\ Chances(n) \in Nat /\ Chances(n)' \in Nat
         /\ stored[n] \in Nat /\ stored'[n] \in Nat /\ doubts[n] \in Nat /\ doubts'[n] \in Nat
         /\ Chances(n)' + stored[n] + Worth(MayStore(q, n)) + Worth(Loose(n)) =
              Chances(n) + stored'[n] + Worth(MayStore(z, n)) + Worth(Loose(n)')
<1> DEFINE C0 == Cardinality(Carriers(n))
           C1 == Cardinality(Carriers(n)')
           R0 == {p \in Request \ {r} : MayStore(req[p], n)}
           R1 == {p \in Request \ {r} : MayStore(req'[p], n)}
<1>1. /\ stored[n] \in Nat /\ stored'[n] \in Nat /\ doubts[n] \in Nat /\ doubts'[n] \in Nat
      /\ req \in [Request -> Requests]
  BY DEF TypeOK, Requests
<1>2. req'[r] = z /\ \A p \in Request \ {r} : req'[p] = req[p]
  BY <1>1
<1>3. R0 = R1
  BY <1>2
<1>4. C0 \in Nat /\ Cardinality(R0) \in Nat /\ C0 = Cardinality(R0) + Worth(MayStore(q, n))
  BY CountSplit DEF Carriers
<1>5. C1 \in Nat /\ C1 = Cardinality(R1) + Worth(MayStore(z, n))
  <2>1. PICK f : f = req'
    OBVIOUS
  <2>2. Carriers(n)' = {p \in Request : MayStore(f[p], n)}
    BY <2>1 DEF Carriers, MayStore
  <2>3. R1 = {p \in Request \ {r} : MayStore(f[p], n)} /\ f[r] = z
    BY <1>2, <2>1
  <2> HIDE DEF R1
  <2> QED BY <2>2, <2>3, CountSplit
<1>6. /\ Worth(MayStore(q, n)) \in Nat /\ Worth(MayStore(z, n)) \in Nat
      /\ Worth(Loose(n)) \in Nat /\ Worth(Loose(n)') \in Nat
  BY DEF Worth
<1>7. /\ Chances(n) = stored[n] + C0 + Worth(Loose(n))
      /\ Chances(n)' = stored'[n] + C1 + Worth(Loose(n)')
  BY DEF Chances, Worth
<1> HIDE DEF C0, C1, R0, R1
<1> QED BY <1>1, <1>3, <1>4, <1>5, <1>6, <1>7

(* Whether a queued fix is loose depends on the batches the phone waits    *)
(* for.                                                                    *)
LEMMA LooseMoves ==
  ASSUME TypeOK, NEW r \in Request, NEW q, q = req[r], NEW z,
         req' = [req EXCEPT ![r] = z], NEW n,
         Waits(q, n) => Waits(z, n) \/ n \notin ToSet(queue'),
         n \in ToSet(queue') => n \in ToSet(queue)
  PROVE  Loose(n)' => Loose(n)
<1>1. req \in [Request -> Requests]
  BY DEF TypeOK, Requests
<1>2. req'[r] = z /\ \A p \in Request \ {r} : req'[p] = req[p]
  BY <1>1
<1> SUFFICES ASSUME Loose(n)' PROVE Loose(n)
  OBVIOUS
<1>3. n \in ToSet(queue') /\ \A p \in Request : ~Waits(req'[p], n)
  BY DEF Loose
<1>4. \A p \in Request : ~Waits(req[p], n)
  BY <1>2, <1>3
<1> QED BY <1>3, <1>4 DEF Loose

LEMMA NoRequestHarmless == \A n : ~MayStore(NoRequest, n) /\ ~Waits(NoRequest, n)
BY DEF MayStore, Waits, NoRequest

(* No step of the server adds to the chances of a fix that fits.           *)
LEMMA ServerChances ==
  ASSUME TrackInv, NEW r \in Request, NEW q \in Requests, q = req[r], NEW z, z = req'[r],
         Lose(r) \/ Arrive(r) \/ Store(r) \/ Skip(r) \/ Emit(r) \/ Reply(r),
         NEW n \in Fix, trip[n] \notin Unfit
  PROVE  stored'[n] + Worth(MayStore(z, n)) <= stored[n] + Worth(MayStore(q, n))
<1>1. req \in [Request -> Requests] /\ stored \in [Fix -> Nat]
  BY DEF TrackInv, TypeOK, Requests
<1>2. Sound(q)
  BY DEF TrackInv, AllSound
<1> DEFINE m == Least(q.left)
<1>3. Next1(r) = m /\ (q.left # {} => m \in q.left /\ m \in Fix)
  BY NextIsLeast, LeastIsFix DEF Requests
<1> HIDE DEF m
<1>4. \/ stored' = stored /\ (MayStore(z, n) => MayStore(q, n))
      \/ stored' = [stored EXCEPT ![m] = @ + 1] /\ m \in Fix
           /\ ~MayStore(z, m) /\ MayStore(q, m) /\ (n # m => (MayStore(z, n) => MayStore(q, n)))
  <2>1. CASE Lose(r)
    <3>1. z = [q EXCEPT !.at = "gone"] /\ stored' = stored
      BY <1>1, <2>1 DEF Lose, server
    <3>2. z.at = "gone"
      BY <3>1 DEF Requests
    <3> QED BY <3>1, <3>2 DEF MayStore
  <2>2. CASE Arrive(r)
    <3>1. /\ q.at = "road" /\ stored' = stored
          /\ z = [q EXCEPT !.at = "done", !.ok = FALSE] \/ z = [q EXCEPT !.at = "store"]
      BY <1>1, <2>2 DEF Arrive, server
    <3>2. z.load = q.load /\ z.left = q.left /\ z.at \in {"done", "store"}
      BY <3>1 DEF Requests
    <3>3. q.left = q.load
      BY <1>2, <3>1 DEF Sound
    <3> QED BY <3>1, <3>2, <3>3 DEF MayStore
  <2>3. CASE Store(r)
    <3>1. /\ q.at = "store" /\ q.left # {} /\ stored' = [stored EXCEPT ![m] = @ + 1]
          /\ z = [q EXCEPT !.at = "emit"]
      BY <1>1, <1>3, <2>3 DEF Store
    <3>2. z.load = q.load /\ z.left = q.left /\ z.at = "emit"
      BY <3>1 DEF Requests
    <3>3. m \in q.left /\ m \in Fix /\ m \in q.load
      BY <1>2, <1>3, <3>1 DEF Sound
    <3>4. ~MayStore(z, m) /\ MayStore(q, m)
      BY <3>1, <3>2, <3>3 DEF MayStore, m
    <3>5. MayStore(z, n) => MayStore(q, n)
      BY <3>1, <3>2 DEF MayStore
    <3> QED BY <3>1, <3>3, <3>4, <3>5
  <2>4. CASE Skip(r)
    <3>1. /\ q.at = "store" /\ q.left # {} /\ stored' = stored
          /\ z = [q EXCEPT !.left = q.left \ {m}, !.ok = (q.kind = "batch")]
      BY <1>1, <1>3, <2>4 DEF Skip, server
    <3>2. z.load = q.load /\ z.left = q.left \ {m} /\ z.at = "store"
      BY <3>1 DEF Requests
    <3> QED BY <3>1, <3>2 DEF MayStore
  <2>5. CASE Emit(r)
    <3>1. /\ q.at = "emit" /\ stored' = stored
          /\ z = [q EXCEPT !.left = q.left \ {m}, !.at = "store"]
      BY <1>1, <1>3, <2>5 DEF Emit
    <3>2. z.load = q.load /\ z.left = q.left \ {m} /\ z.at = "store"
      BY <3>1 DEF Requests
    <3> QED BY <3>1, <3>2 DEF MayStore, m
  <2>6. CASE Reply(r)
    <3>1. q.at = "store" /\ q.left = {} /\ stored' = stored /\ z = [q EXCEPT !.at = "done"]
      BY <1>1, <2>6 DEF Reply, server
    <3>2. z.at = "done" /\ z.kind = q.kind /\ z.ok = q.ok
      BY <3>1 DEF Requests
    <3>3. ~MayStore(z, n)
      BY <1>2, <3>1, <3>2 DEF MayStore, Sound
    <3> QED BY <3>1, <3>3
  <2> QED BY <2>1, <2>2, <2>3, <2>4, <2>5, <2>6
<1>5. stored[n] \in Nat
  BY <1>1
<1>6. CASE stored' = stored /\ (MayStore(z, n) => MayStore(q, n))
  BY <1>5, <1>6 DEF Worth
<1>7. CASE /\ stored' = [stored EXCEPT ![m] = @ + 1] /\ m \in Fix
           /\ ~MayStore(z, m) /\ MayStore(q, m) /\ (n # m => (MayStore(z, n) => MayStore(q, n)))
  <2>1. CASE n = m
    <3>1. stored'[n] = stored[n] + 1
      BY <1>1, <1>7, <2>1
    <3> QED BY <1>5, <1>7, <2>1, <3>1 DEF Worth
  <2>2. CASE n # m
    <3>1. stored'[n] = stored[n]
      BY <1>1, <1>7, <2>2
    <3> QED BY <1>5, <1>7, <2>2, <3>1 DEF Worth
  <2> QED BY <2>1, <2>2
<1> QED BY <1>4, <1>6, <1>7

(* A fix that has not been taken has no chances.                           *)
LEMMA NoChancesYet ==
  ASSUME TrackInv, NEW n \in Fix, n > taken
  PROVE  Chances(n) = 0
<1>1. taken \in Nat /\ n \notin 1..taken /\ req \in [Request -> Requests]
  BY TrackingAssumption DEF TrackInv, TypeOK, Fix, Requests
<1>2. stored[n] = 0
  BY DEF TrackInv, OnlyFitStored
<1>3. \A p \in Request : n \notin req[p].load
  <2> SUFFICES ASSUME NEW p \in Request PROVE n \notin req[p].load
    OBVIOUS
  <2>1. PICK q \in Requests : q = req[p]
    BY <1>1
  <2> QED BY <1>1, <2>1 DEF TrackInv, AllSound, Sound
<1>4. Carriers(n) = {}
  BY <1>3 DEF Carriers, MayStore
<1>5. ~Loose(n)
  BY <1>1 DEF Loose, TrackInv, QueueKnown
<1> QED BY <1>2, <1>4, <1>5, FS_EmptySet DEF Chances, Worth

(* Nothing about the fix changes.                                          *)
LEMMA QuietChances ==
  ASSUME UNCHANGED <<queue, req, stored>>, NEW n
  PROVE  Chances(n)' = Chances(n)
BY DEF Chances, Carriers, Loose, MayStore, Waits, Worth

LEMMA FixComesChances ==
  ASSUME TrackInv, TypeOK', ChanceInv, NEW s \in Session, NEW r \in Request,
         FixComes(s, r), session # None
  PROVE  ChanceInv'
<1> SUFFICES ASSUME NEW n \in Fix, trip'[n] \notin Unfit PROVE Chances(n)' <= 1 + doubts'[n]
  BY DEF ChanceInv
<1>1. PICK k : k = taken + 1
  OBVIOUS
<1>2. PICK z : z = Sent("single", {k})
  OBVIOUS
<1>3. /\ Spare(r) /\ trip' = [trip EXCEPT ![k] = session] /\ req' = [req EXCEPT ![r] = z]
      /\ UNCHANGED <<queue, stored, doubts>>
  BY <1>1, <1>2 DEF FixComes, server
<1>4. PICK q \in Requests : q = req[r]
  BY DEF TrackInv, TypeOK, Requests
<1>5. TypeOK /\ taken \in Nat
  BY TrackingAssumption DEF TrackInv, TypeOK
<1>6. ~MayStore(q, n) /\ ~Waits(q, n)
  BY <1>3, <1>4 DEF Spare, MayStore, Waits
<1>7. Loose(n)' => Loose(n)
  BY <1>3, <1>4, <1>5, <1>6, LooseMoves
<1>8. MayStore(z, n) => n = k
  BY <1>2 DEF MayStore, Sent
<1>9. /\ Chances(n) \in Nat /\ Chances(n)' \in Nat
      /\ stored[n] \in Nat /\ stored'[n] \in Nat /\ doubts[n] \in Nat /\ doubts'[n] \in Nat
      /\ Chances(n)' + stored[n] + Worth(MayStore(q, n)) + Worth(Loose(n)) =
           Chances(n) + stored'[n] + Worth(MayStore(z, n)) + Worth(Loose(n)')
  BY <1>3, <1>4, <1>5, ChancesMove
<1>10. Chances(n)' <= Chances(n) + Worth(MayStore(z, n))
  BY <1>3, <1>6, <1>7, <1>9 DEF Worth
<1>11. CASE n = k
  <2>1. Chances(n) = 0
    BY <1>1, <1>5, <1>11, NoChancesYet
  <2> QED BY <1>9, <1>10, <2>1 DEF Worth
<1>12. CASE n # k
  <2>1. trip'[n] = trip[n]
    BY <1>3, <1>5, <1>12 DEF TypeOK
  <2>2. Chances(n) <= 1 + doubts[n]
    BY <2>1 DEF ChanceInv
  <2> QED BY <1>3, <1>8, <1>9, <1>10, <1>12, <2>2 DEF Worth
<1> QED BY <1>11, <1>12

(* The step leaves the fix its chances, or gives one more and a new doubt. *)
LEMMA AnsweredChances ==
  ASSUME TrackInv, TypeOK', ChanceInv, NEW r \in Request,
         SingleAnswered(r) \/ BatchAnswered(r) \/ GiveUp(r)
  PROVE  ChanceInv'
<1>1. UNCHANGED <<trip, stored>>
  BY DEF SingleAnswered, BatchAnswered, GiveUp, server
<1> SUFFICES ASSUME NEW n \in Fix, trip[n] \notin Unfit PROVE Chances(n)' <= 1 + doubts'[n]
  BY <1>1 DEF ChanceInv
<1>2. TypeOK /\ Chances(n) <= 1 + doubts[n] /\ req \in [Request -> Requests]
  BY DEF TrackInv, ChanceInv, TypeOK, Requests
<1>3. PICK q \in Requests : q = req[r]
  BY <1>2
<1>4. Sound(q) /\ q.load \subseteq Fix
  BY <1>3 DEF TrackInv, AllSound, Requests
<1>5. PICK z : z = req'[r] /\ req' = [req EXCEPT ![r] = z]
  BY <1>2 DEF SingleAnswered, Flush, BatchAnswered, GiveUp
<1>6. req' = [req EXCEPT ![r] = z]
  BY <1>5
<1>7. /\ Chances(n) \in Nat /\ Chances(n)' \in Nat
      /\ stored[n] \in Nat /\ stored'[n] \in Nat /\ doubts[n] \in Nat /\ doubts'[n] \in Nat
      /\ Chances(n)' + stored[n] + Worth(MayStore(q, n)) + Worth(Loose(n)) =
           Chances(n) + stored'[n] + Worth(MayStore(z, n)) + Worth(Loose(n)')
  BY <1>2, <1>3, <1>6, ChancesMove
<1> SUFFICES Worth(MayStore(z, n)) + Worth(Loose(n)') + doubts[n]
               <= Worth(MayStore(q, n)) + Worth(Loose(n)) + doubts'[n]
  <2>1. /\ Worth(MayStore(z, n)) \in Nat /\ Worth(Loose(n)') \in Nat
        /\ Worth(MayStore(q, n)) \in Nat /\ Worth(Loose(n)) \in Nat
    BY DEF Worth
  <2> QED BY <1>1, <1>2, <1>7, <2>1
<1>8. CASE SingleAnswered(r) /\ q.ok
  <2>1. q.kind = "single" /\ UNCHANGED queue /\ Flush(r)
    BY <1>3, <1>8 DEF SingleAnswered
  <2>2. ~Waits(q, n)
    BY <2>1 DEF Waits
  <2>3. Loose(n)' => Loose(n)
    BY <1>2, <1>3, <1>5, <2>1, <2>2, LooseMoves
  <2>4. CASE queue = <<>>
    <3>1. z = NoRequest /\ UNCHANGED doubts
      BY <1>2, <1>5, <2>1, <2>4 DEF Flush
    <3> QED BY <1>7, <2>3, <3>1, NoRequestHarmless DEF Worth
  <2>5. CASE queue # <<>>
    <3>1. PICK load : load = ToSet(queue)
      OBVIOUS
    <3> DEFINE others == {p \in Request : p # r /\ req[p].kind = "batch" /\ req[p].waiting}
               again == load \cap UNION {req[p].load : p \in others}
    <3>2. z = Sent("batch", load) /\ Doubt(again)
      BY <1>2, <1>5, <2>1, <2>5, <3>1 DEF Flush
    <3>3. doubts'[n] = doubts[n] + Worth(n \in again)
      BY <1>2, <3>2, Doubted
    <3>4. MayStore(z, n) => n \in load
      BY <3>2 DEF MayStore, Sent
    <3>5. n \in load => Waits(z, n)
      BY <3>2 DEF Waits, Sent
    <3>6. ~Loose(n)'
      <4>1. n \in ToSet(queue') => Waits(req'[r], n)
        BY <1>5, <2>1, <3>1, <3>5
      <4> QED BY <4>1 DEF Loose, Waits
    <3>7. n \in load => Loose(n) \/ n \in again
      BY <2>2, <1>3, <3>1 DEF Loose, Waits
    <3> HIDE DEF again
    <3> QED BY <1>7, <3>3, <3>4, <3>6, <3>7 DEF Worth
  <2> QED BY <2>4, <2>5
<1>9. CASE SingleAnswered(r) /\ ~q.ok
  <2>1. q.kind = "single" /\ UNCHANGED doubts /\ EnqueueAll(q.load) /\ req' = [req EXCEPT ![r] = NoRequest]
    BY <1>3, <1>9 DEF SingleAnswered
  <2>2. PICK m \in q.load : Enqueue(m)
    BY <2>1 DEF EnqueueAll
  <2>3. m # n /\ m \in Fix
    BY <1>4, <1>9, <2>1, <2>2 DEF Sound
  <2>4. ToSet(queue') \subseteq ToSet(queue) \cup {m}
    BY <1>2, <2>2, <2>3, Enqueued
  <2>5. ~Waits(q, n) /\ z = NoRequest
    BY <1>2, <1>5, <2>1 DEF Waits
  <2>6. Loose(n)' => Loose(n)
    BY <1>2, <1>3, <1>5, <2>3, <2>4, <2>5, LooseMoves
  <2> QED BY <1>7, <2>1, <2>5, <2>6, NoRequestHarmless DEF Worth
<1>10. CASE BatchAnswered(r)
  <2>1. /\ q.kind = "batch" /\ q.waiting /\ q.at = "done" /\ UNCHANGED doubts
        /\ queue' = (IF q.ok THEN Cleared(q.load) ELSE queue) /\ z = NoRequest
    BY <1>2, <1>3, <1>5, <1>10 DEF BatchAnswered
  <2>2. ToSet(queue') \subseteq ToSet(queue) /\ (q.ok => ToSet(queue') = ToSet(queue) \ q.load)
    BY <1>2, <2>1, ClearedIs DEF TypeOK
  <2>3. CASE n \in q.load /\ ~q.ok
    <3>1. MayStore(q, n) /\ ~MayStore(z, n)
      BY <2>1, <2>3, NoRequestHarmless DEF MayStore
    <3> QED BY <1>7, <2>1, <3>1 DEF Worth
  <2>4. CASE n \notin q.load \/ q.ok
    <3>1. Waits(q, n) => n \notin ToSet(queue')
      BY <2>2, <2>4 DEF Waits
    <3>2. Loose(n)' => Loose(n)
      BY <1>2, <1>3, <1>5, <2>2, <3>1, LooseMoves
    <3> QED BY <1>7, <2>1, <3>2, NoRequestHarmless DEF Worth
  <2> QED BY <2>3, <2>4
<1>11. CASE GiveUp(r)
  <2>1. z = [q EXCEPT !.waiting = FALSE] /\ Doubt(q.load)
    BY <1>2, <1>3, <1>5, <1>11 DEF GiveUp
  <2>2. doubts'[n] = doubts[n] + Worth(n \in q.load)
    BY <1>2, <2>1, Doubted
  <2>3. MayStore(z, n) => MayStore(q, n)
    <3>1. z.load = q.load /\ z.left = q.left /\ z.at = q.at /\ ~z.waiting
      BY <2>1 DEF Requests
    <3> QED BY <3>1 DEF MayStore
  <2>4. CASE n \in q.load
    BY <1>7, <2>2, <2>3, <2>4 DEF Worth
  <2>5. CASE n \notin q.load
    <3>1. n \in ToSet(queue') => n \in ToSet(queue)
      <4>1. CASE q.kind = "single"
        <5>1. PICK m \in q.load : Enqueue(m)
          BY <1>3, <1>11, <4>1 DEF GiveUp, EnqueueAll
        <5>2. ToSet(queue') \subseteq ToSet(queue) \cup {m}
          BY <1>2, <1>4, <5>1, Enqueued
        <5> QED BY <2>5, <5>1, <5>2
      <4>2. CASE q.kind # "single"
        BY <1>3, <1>11, <4>2 DEF GiveUp
      <4> QED BY <4>1, <4>2
    <3>2. ~Waits(q, n)
      BY <2>5 DEF Waits
    <3>3. Loose(n)' => Loose(n)
      BY <1>2, <1>3, <1>5, <3>1, <3>2, LooseMoves
    <3> QED BY <1>7, <2>2, <2>3, <2>5, <3>3 DEF Worth
  <2> QED BY <2>4, <2>5
<1> QED BY <1>8, <1>9, <1>10, <1>11

LEMMA ServerStepChances ==
  ASSUME TrackInv, TypeOK', ChanceInv, NEW r \in Request,
         Lose(r) \/ Arrive(r) \/ Store(r) \/ Skip(r) \/ Emit(r) \/ Reply(r)
  PROVE  ChanceInv'
<1>1. TypeOK /\ req \in [Request -> Requests]
  BY DEF TrackInv, TypeOK, Requests
<1>2. PICK q \in Requests : q = req[r]
  BY <1>1
<1>3. UNCHANGED <<trip, queue, doubts>>
  BY <1>2, ServerMoves
<1>4. PICK z \in Requests : /\ req' = [req EXCEPT ![r] = z]
                            /\ z.kind = q.kind /\ z.load = q.load /\ z.waiting = q.waiting
  BY <1>2, ServerMoves
<1> SUFFICES ASSUME NEW n \in Fix, trip[n] \notin Unfit PROVE Chances(n)' <= 1 + doubts'[n]
  BY <1>3 DEF ChanceInv
<1>5. Chances(n) <= 1 + doubts[n]
  BY DEF ChanceInv
<1>6. /\ Chances(n) \in Nat /\ Chances(n)' \in Nat
      /\ stored[n] \in Nat /\ stored'[n] \in Nat /\ doubts[n] \in Nat /\ doubts'[n] \in Nat
      /\ Chances(n)' + stored[n] + Worth(MayStore(q, n)) + Worth(Loose(n)) =
           Chances(n) + stored'[n] + Worth(MayStore(z, n)) + Worth(Loose(n)')
  BY <1>1, <1>2, <1>4, ChancesMove
<1>7. z = req'[r]
  BY <1>1, <1>4
<1>8. stored'[n] + Worth(MayStore(z, n)) <= stored[n] + Worth(MayStore(q, n))
  BY <1>2, <1>7, ServerChances
<1>9. Loose(n)' => Loose(n)
  <2>1. Waits(q, n) => Waits(z, n)
    BY <1>4 DEF Waits
  <2> QED BY <1>1, <1>2, <1>3, <1>4, <2>1, LooseMoves
<1>10. /\ Worth(MayStore(z, n)) \in Nat /\ Worth(MayStore(q, n)) \in Nat
       /\ Worth(Loose(n)') <= Worth(Loose(n)) /\ Worth(Loose(n)) \in Nat /\ Worth(Loose(n)') \in Nat
  BY <1>9 DEF Worth
<1> QED BY <1>3, <1>5, <1>6, <1>8, <1>10

(* A lost answer, or a flush that doubles another, is what it takes for a  *)
(* position to be stored once more (flushOfflineOutbox, ingestGpsBatch).   *)
THEOREM TwiceOnlyForAReason == Spec => []TwiceForAReason
<1> DEFINE Inv == KnownInv /\ ChanceInv
<1>1. Init => Inv
  <2> SUFFICES ASSUME Init PROVE ChanceInv
    BY InitKnown
  <2>1. KnownInv /\ TrackInv
    BY InitKnown DEF KnownInv
  <2>2. \A n \in Fix : n > taken /\ doubts[n] = 0
    BY DEF Init, Fix
  <2>3. \A n \in Fix : Chances(n) = 0
    BY <2>1, <2>2, NoChancesYet
  <2> QED BY <2>2, <2>3 DEF ChanceInv
<1>2. Inv /\ [Next]_vars => Inv'
  <2> SUFFICES ASSUME KnownInv, ChanceInv, [Next]_vars PROVE ChanceInv'
    BY StepKnown
  <2>1. TrackInv /\ TypeOK'
    BY StepKnown DEF KnownInv, TrackInv
  <2>2. CASE UNCHANGED <<queue, req, stored, trip, doubts>>
    BY <2>2, QuietChances DEF ChanceInv
  <2>3. Stop \/ Tick \/ UNCHANGED vars => UNCHANGED <<queue, req, stored, trip, doubts>>
    BY DEF Stop, Tick, vars, phone, server
  <2>4. ASSUME NEW s \in Session, Start(s) \/ NoFix(s)
        PROVE  UNCHANGED <<queue, req, stored, trip, doubts>>
    BY <2>4 DEF Start, NoFix, server
  <2>5. ASSUME NEW s \in Session, NEW r \in Request, FixComes(s, r), session = None
        PROVE  UNCHANGED <<queue, req, stored, trip, doubts>>
    BY <2>5 DEF FixComes, server
  <2>6. CASE Server
    BY <2>1, <2>6, ServerStepChances DEF Server
  <2>7. CASE Phone
    BY <2>1, <2>2, <2>3, <2>4, <2>5, <2>7, FixComesChances, AnsweredChances DEF Phone
  <2> QED BY <2>2, <2>3, <2>6, <2>7 DEF Next
<1>3. Inv => TwiceForAReason
  <2> SUFFICES ASSUME KnownInv, ChanceInv, NEW n \in Fix PROVE stored[n] <= 1 + doubts[n]
    BY DEF TwiceForAReason
  <2>1. TrackInv /\ stored[n] \in Nat /\ doubts[n] \in Nat
    BY DEF KnownInv, TrackInv, TypeOK
  <2>2. CASE trip[n] \in Unfit
    BY <2>1, <2>2 DEF TrackInv, OnlyFitStored
  <2>3. CASE trip[n] \notin Unfit
    <3>1. Chances(n) <= 1 + doubts[n]
      BY <2>3 DEF ChanceInv
    <3>2. Cardinality(Carriers(n)) \in Nat
      <4>1. IsFiniteSet(Carriers(n))
        BY TrackingAssumption, FS_Subset DEF Carriers
      <4> QED BY <4>1, FS_CardinalityType
    <3> QED BY <2>1, <3>1, <3>2 DEF Chances, Worth
  <2> QED BY <2>2, <2>3
<1> QED BY <1>1, <1>2, <1>3, PTL DEF Spec
=============================================================================
