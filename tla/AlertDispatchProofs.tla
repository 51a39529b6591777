-------------------------- MODULE AlertDispatchProofs --------------------------
(***************************************************************************)
(* Proofs about AlertDispatch, for any number of alerts, keys, recipients, *)
(* attempts and overlapping requests.                                      *)
(***************************************************************************)
EXTENDS AlertDispatch, TLAPS

(* The recipient being served is on the alert's list.                      *)
ServingListed ==
  \A a \in Alert : serving[a] > 0 =>
    /\ serving[a] <= alert[a].recipients
    /\ alert[a].status # "NONE"

(* An alert that is closed now has been closed.                            *)
ClosedKnown == \A a \in Alert : alert[a].status \in Closed => a \in closed

IInv == TypeOK /\ ServingListed

USE AlertAssumption, NoNoteAssumption

LEMMA NoteOfAlert ==
  ASSUME NEW a \in Alert, NEW i \in 1..MaxRecipients
  PROVE  <<a, i>> \in Note
BY DEF Note

LEMMA NoteFields ==
  ASSUME NEW n \in Note
  PROVE  \/ n[1] \in Alert /\ n[2] \in 1..MaxRecipients /\ n = <<n[1], n[2]>>
         \/ n[1] \in Message /\ n[2] = 1 /\ n[1] \notin Alert /\ n = <<n[1], 1>>
BY DEF Note

-----------------------------------------------------------------------------
(* Types: the records a step writes. *)

LEMMA AlertField ==
  ASSUME NEW rec \in AlertRecord
  PROVE  /\ rec.status \in Status /\ rec.key \in Key \cup {None}
         /\ rec.recipients \in 0..MaxRecipients /\ rec.age \in 0..Cooldown
         /\ \A s \in Status : [rec EXCEPT !.status = s] \in AlertRecord
         /\ \A t \in 0..Cooldown : [rec EXCEPT !.age = t] \in AlertRecord
BY DEF AlertRecord

LEMMA NoteField ==
  ASSUME NEW rec \in NoteRecord
  PROVE  /\ rec.status \in Delivery /\ rec.attempts \in 0..MaxRetries
         /\ \A s \in Delivery : [rec EXCEPT !.status = s] \in NoteRecord
BY DEF NoteRecord

LEMMA FreshRecords ==
  /\ Sending \in NoteRecord
  /\ [status |-> "RETRYING", attempts |-> 1] \in NoteRecord
BY DEF Sending, Delivery, NoteRecord

LEMMA StatusTyped ==
  ASSUME alert \in [Alert -> AlertRecord], NEW b \in Alert, NEW st \in Status
  PROVE  [alert EXCEPT ![b].status = st] \in [Alert -> AlertRecord]
BY AlertField

LEMMA RecordsTyped ==
  ASSUME note \in [Note -> NoteRecord], NEW n \in Note
  PROVE  /\ Delivered(n) \in [Note -> NoteRecord]
         /\ GivenUp(n) \in [Note -> NoteRecord]
         /\ MoreAttempts(n) => Retried(n) \in [Note -> NoteRecord]
<1>1. Delivered(n) \in [Note -> NoteRecord] /\ GivenUp(n) \in [Note -> NoteRecord]
  BY NoteField DEF Delivered, GivenUp, Delivery
<1>2. ASSUME MoreAttempts(n)
      PROVE  Retried(n) \in [Note -> NoteRecord]
  <2>1. note[n].attempts + 1 \in 0..MaxRetries
    BY <1>2, NoteField DEF MoreAttempts
  <2>2. [status |-> "RETRYING", attempts |-> note[n].attempts + 1] \in NoteRecord
    BY <2>1 DEF NoteRecord, Delivery
  <2> QED BY <2>2 DEF Retried
<1> QED BY <1>1, <1>2

(* The end of one recipient, whatever its outcome, written out: another    *)
(* one is served, or the delivery is over.                                 *)
ServesNext(a, n) ==
  /\ serving[a] + 1 \in 1..MaxRecipients
  /\ serving[a] + 1 <= alert[a].recipients
  /\ <<a, serving[a] + 1>> \in Note
  /\ serving' = [serving EXCEPT ![a] = serving[a] + 1]
  /\ note' = [n EXCEPT ![<<a, serving[a] + 1>>] = Sending]
  /\ alert' = alert

Finishes(a, n) ==
  /\ serving' = [serving EXCEPT ![a] = 0]
  /\ note' = n
  /\ \/ alert' = alert
     \/ /\ alert' = [alert EXCEPT ![a].status = "DELIVERED"]
        /\ \E j \in 1..alert[a].recipients : rcpt'[<<a, j>>] = "DELIVERED"

LEMMA NextRecipientStep ==
  ASSUME TypeOK, ServingListed, NEW a \in Alert, Serving(a), NEW s \in {"DELIVERED", "FAILED"},
         NEW n \in [Note -> NoteRecord], NextRecipient(a, s, n)
  PROVE  /\ serving[a] \in 1..MaxRecipients /\ <<a, serving[a]>> \in Note
         /\ serving[a] <= alert[a].recipients
         /\ rcpt' = [rcpt EXCEPT ![<<a, serving[a]>>] = s]
         /\ ServesNext(a, n) \/ Finishes(a, n)
<1>1. /\ serving[a] \in 1..MaxRecipients /\ serving[a] <= alert[a].recipients
      /\ alert[a].recipients \in 0..MaxRecipients /\ alert \in [Alert -> AlertRecord]
  BY AlertField DEF TypeOK, ServingListed, Serving
<1>2. <<a, serving[a]>> \in Note
  BY <1>1, NoteOfAlert
<1>3. rcpt' = [rcpt EXCEPT ![<<a, serving[a]>>] = s]
  BY DEF NextRecipient
<1>4. CASE serving[a] < alert[a].recipients
  <2>1. serving[a] + 1 \in 1..MaxRecipients /\ serving[a] + 1 <= alert[a].recipients
    BY <1>1, <1>4
  <2>2. <<a, serving[a] + 1>> \in Note
    BY <2>1, NoteOfAlert
  <2>3. /\ serving' = [serving EXCEPT ![a] = serving[a] + 1]
        /\ note' = [n EXCEPT ![<<a, serving[a] + 1>>] = Sending] /\ alert' = alert
    BY <1>4 DEF NextRecipient
  <2> QED BY <1>1, <1>2, <1>3, <2>1, <2>2, <2>3 DEF ServesNext
<1>5. CASE ~(serving[a] < alert[a].recipients)
  <2> DEFINE reached == \E j \in 1..alert[a].recipients : rcpt'[<<a, j>>] = "DELIVERED"
  <2>1. /\ serving' = [serving EXCEPT ![a] = 0] /\ note' = n
        /\ alert' = [alert EXCEPT ![a].status = IF reached THEN "DELIVERED" ELSE @]
    BY <1>3, <1>5 DEF NextRecipient
  <2> HIDE DEF reached
  <2>2. CASE reached
    <3>1. alert' = [alert EXCEPT ![a].status = "DELIVERED"]
      BY <2>1, <2>2
    <3> QED BY <1>1, <1>2, <1>3, <2>1, <2>2, <3>1 DEF reached, Finishes
  <2>3. CASE ~reached
    <3>1. alert' = [alert EXCEPT ![a].status = @]
      BY <2>1, <2>3
    <3>2. alert' = alert
      BY <3>1, <1>1 DEF AlertRecord
    <3> QED BY <1>1, <1>2, <1>3, <2>1, <3>2 DEF Finishes
  <2> QED BY <2>2, <2>3
<1> QED BY <1>4, <1>5

-----------------------------------------------------------------------------
(* The steps, as far as they concern the records: a notification that is   *)
(* put in somebody's hand, one that is done with, a delivery's next step.  *)

LEMMA CreateTyped ==
  ASSUME IInv, NEW a \in Alert, NEW k \in Key, NEW c \in 0..MaxRecipients, CreateAlert(a, k, c)
  PROVE  IInv'
<1> DEFINE rec == [status |-> "SENT", key |-> k, recipients |-> c, age |-> 0]
<1>1. rec \in AlertRecord
  BY DEF AlertRecord, Status, Open
<1>2. alert' = [alert EXCEPT ![a] = rec]
  BY DEF CreateAlert
<1>3. rec.status # "NONE" /\ rec.recipients = c
  OBVIOUS
<1> HIDE DEF rec
<1>4. alert' \in [Alert -> AlertRecord] /\ rcpt' \in [Note -> Delivery]
  BY <1>1, <1>2 DEF CreateAlert, IInv, TypeOK, Delivery
<1>5. UNCHANGED <<resend, accepted, closed>>
  BY DEF CreateAlert, history
<1>6. CASE c > 0
  <2>1. 1 \in 1..MaxRecipients /\ 1 <= c
    BY <1>6
  <2>2. <<a, 1>> \in Note
    BY <2>1, NoteOfAlert
  <2>3. serving' = [serving EXCEPT ![a] = 1] /\ note' = [note EXCEPT ![<<a, 1>>] = Sending]
    BY <1>6 DEF CreateAlert
  <2>4. serving' \in [Alert -> 0..MaxRecipients] /\ note' \in [Note -> NoteRecord]
    BY <2>1, <2>2, <2>3, FreshRecords DEF IInv, TypeOK
  <2>5. ServingListed'
    BY <1>2, <1>3, <2>1, <2>3, <2>4 DEF IInv, TypeOK, ServingListed
  <2> QED BY <1>4, <1>5, <2>4, <2>5 DEF IInv, TypeOK
<1>7. CASE ~(c > 0)
  <2>1. UNCHANGED <<serving, note>>
    BY <1>7 DEF CreateAlert
  <2>2. alert[a].status = "NONE"
    BY DEF CreateAlert
  <2>3. ServingListed'
    BY <1>2, <2>1, <2>2 DEF IInv, TypeOK, ServingListed
  <2> QED BY <1>4, <1>5, <2>1, <2>3 DEF IInv, TypeOK
<1> QED BY <1>6, <1>7

LEMMA AcknowledgeTyped ==
  ASSUME IInv, NEW a \in Alert, NEW s \in Closed \cup {"ESCALATED"}, Acknowledge(a, s)
  PROVE  IInv'
<1>1. s \in Status /\ s # "NONE"
  BY DEF Status, Open, Closed
<1>2. alert' = [alert EXCEPT ![a].status = s] /\ UNCHANGED <<note, rcpt, serving, resend, accepted>>
  BY DEF Acknowledge
<1>3. alert' \in [Alert -> AlertRecord]
  BY <1>1, <1>2, StatusTyped DEF IInv, TypeOK
<1>4. closed' \subseteq Alert
  BY DEF Acknowledge, IInv, TypeOK
<1>5. \A b \in Alert : alert'[b].recipients = alert[b].recipients
                       /\ (alert[b].status # "NONE" => alert'[b].status # "NONE")
  BY <1>1, <1>2 DEF IInv, TypeOK, AlertRecord
<1> QED BY <1>2, <1>3, <1>4, <1>5 DEF IInv, TypeOK, ServingListed

(* Direct sends and retries put a fresh record in a request's hand.        *)
LEMMA DispatcherStep ==
  ASSUME Dispatcher
  PROVE  \E r \in Request, n \in Note, rec \in NoteRecord :
           /\ resend[r] = None
           /\ rec.status \in {"QUEUED", "RETRYING"} /\ rec.attempts = 1
           /\ note' = [note EXCEPT ![n] = rec] /\ resend' = [resend EXCEPT ![r] = n]
           /\ UNCHANGED <<alert, rcpt, serving, accepted, closed>>
<1>1. ASSUME NEW r \in Request, NEW m \in Message, SendDirect(r, m)
      PROVE  <<m, 1>> \in Note /\ Sending.status = "QUEUED" /\ Sending.attempts = 1
  BY DEF Note, Sending
<1>2. ASSUME NEW r \in Request, NEW m \in Message, SendDirect(r, m)
      PROVE  /\ resend[r] = None
             /\ note' = [note EXCEPT ![<<m, 1>>] = Sending]
             /\ resend' = [resend EXCEPT ![r] = <<m, 1>>]
             /\ UNCHANGED <<alert, rcpt, serving, accepted, closed>>
  BY <1>2 DEF SendDirect, Free, history
<1>3. CASE \E r \in Request, m \in Message : SendDirect(r, m)
  BY <1>1, <1>2, <1>3, FreshRecords
<1>4. CASE \E r \in Request, n \in Note : Retry(r, n)
  <2> PICK r \in Request, n \in Note : Retry(r, n)
    BY <1>4
  <2> DEFINE rec == [status |-> "RETRYING", attempts |-> 1]
  <2>1. rec \in NoteRecord /\ rec.status = "RETRYING" /\ rec.attempts = 1
    BY FreshRecords
  <2>2. /\ resend[r] = None
        /\ note' = [note EXCEPT ![n] = rec] /\ resend' = [resend EXCEPT ![r] = n]
        /\ UNCHANGED <<alert, rcpt, serving, accepted, closed>>
    BY DEF Retry, Free, history
  <2> HIDE DEF rec
  <2> QED BY <2>1, <2>2
<1> QED BY <1>3, <1>4 DEF Dispatcher

LEMMA DispatcherTyped ==
  ASSUME IInv, Dispatcher
  PROVE  IInv'
BY DispatcherStep DEF IInv, TypeOK, ServingListed

LEMMA NextRecipientTyped ==
  ASSUME IInv, NEW a \in Alert, Serving(a), NEW s \in {"DELIVERED", "FAILED"},
         NEW n \in [Note -> NoteRecord], NextRecipient(a, s, n),
         resend' = resend, closed' = closed, accepted' \subseteq Note
  PROVE  IInv'
<1> TypeOK /\ ServingListed
  BY DEF IInv
<1>0. rcpt' = [rcpt EXCEPT ![<<a, serving[a]>>] = s]
  BY NextRecipientStep
<1>1. rcpt' \in [Note -> Delivery]
  BY <1>0 DEF TypeOK, Delivery
<1>2. CASE ServesNext(a, n)
  <2>1. note' \in [Note -> NoteRecord] /\ serving' \in [Alert -> 0..MaxRecipients]
    BY <1>2, FreshRecords DEF ServesNext, IInv, TypeOK
  <2>2. ServingListed'
    BY <1>2 DEF ServesNext, IInv, TypeOK, ServingListed, Serving
  <2> QED BY <1>1, <1>2, <2>1, <2>2 DEF ServesNext, IInv, TypeOK
<1>3. CASE Finishes(a, n)
  <2>1. "DELIVERED" \in Status
    BY DEF Status, Open
  <2>2. alert' \in [Alert -> AlertRecord] /\ serving' \in [Alert -> 0..MaxRecipients]
    BY <1>3, <2>1, StatusTyped DEF Finishes, IInv, TypeOK
  <2>3. \A b \in Alert : alert'[b].recipients = alert[b].recipients
                         /\ (alert[b].status # "NONE" => alert'[b].status # "NONE")
    BY <1>3 DEF Finishes, IInv, TypeOK, AlertRecord
  <2>4. ServingListed'
    BY <1>3, <2>3 DEF Finishes, IInv, TypeOK, ServingListed
  <2> QED BY <1>1, <1>3, <2>2, <2>4 DEF Finishes, IInv, TypeOK
<1> QED BY <1>2, <1>3, NextRecipientStep

LEMMA ServedNote ==
  ASSUME IInv, NEW a \in Alert, Serving(a)
  PROVE  <<a, serving[a]>> \in Note /\ note \in [Note -> NoteRecord]
BY NoteOfAlert DEF Serving, IInv, TypeOK

LEMMA SendTyped ==
  ASSUME IInv, NEW a \in Alert, SendSucceeds(a) \/ SendFails(a)
  PROVE  IInv'
<1> DEFINE n == <<a, serving[a]>>
<1>1. Serving(a)
  BY DEF SendSucceeds, SendFails
<1>2. n \in Note /\ note \in [Note -> NoteRecord]
  BY <1>1, ServedNote
<1>3. CASE SendSucceeds(a)
  <2>1. Delivered(n) \in [Note -> NoteRecord]
    BY <1>2, RecordsTyped
  <2>2. NextRecipient(a, "DELIVERED", Delivered(n)) /\ UNCHANGED <<resend, closed>>
        /\ accepted' \subseteq Note
    BY <1>2, <1>3 DEF SendSucceeds, IInv, TypeOK
  <2> QED BY <1>1, <2>1, <2>2, NextRecipientTyped
<1>4. CASE SendFails(a) /\ MoreAttempts(n) /\ note' = Retried(n)
           /\ rcpt' = [rcpt EXCEPT ![n] = "RETRYING"] /\ UNCHANGED <<alert, serving>>
  <2>1. note' \in [Note -> NoteRecord]
    BY <1>2, <1>4, RecordsTyped
  <2>2. rcpt' \in [Note -> Delivery]
    BY <1>4 DEF IInv, TypeOK, Delivery
  <2>3. UNCHANGED <<resend, accepted, closed>>
    BY <1>4 DEF SendFails, history
  <2> QED BY <1>4, <2>1, <2>2, <2>3 DEF IInv, TypeOK, ServingListed
<1>5. CASE SendFails(a) /\ NextRecipient(a, "FAILED", GivenUp(n))
  <2>1. GivenUp(n) \in [Note -> NoteRecord]
    BY <1>2, RecordsTyped
  <2>2. UNCHANGED <<resend, closed>> /\ accepted' \subseteq Note
    BY <1>5 DEF SendFails, history, IInv, TypeOK
  <2> QED BY <1>1, <1>5, <2>1, <2>2, NextRecipientTyped
<1> QED BY <1>3, <1>4, <1>5 DEF SendFails

LEMMA ResendTyped ==
  ASSUME IInv, NEW r \in Request, ResendSucceeds(r) \/ ResendFails(r)
  PROVE  IInv'
<1>1. resend[r] \in Note /\ note \in [Note -> NoteRecord]
  BY DEF ResendSucceeds, ResendFails, Free, IInv, TypeOK
<1>2. note' \in [Note -> NoteRecord]
  BY <1>1, RecordsTyped DEF ResendSucceeds, ResendFails
<1>3. /\ resend' \in [Request -> Note \cup {None}] /\ accepted' \subseteq Note
      /\ UNCHANGED <<alert, rcpt, serving, closed>>
  BY <1>1 DEF ResendSucceeds, ResendFails, history, IInv, TypeOK
<1> QED BY <1>2, <1>3 DEF IInv, TypeOK, ServingListed

(* Time passes: ages grow, nothing else changes.                           *)
LEMMA TickStep ==
  ASSUME TypeOK, Tick
  PROVE  /\ alert' \in [Alert -> AlertRecord]
         /\ UNCHANGED <<note, rcpt, serving, resend, accepted, closed>>
         /\ \A a \in Alert :
              /\ alert'[a].status = alert[a].status /\ alert'[a].key = alert[a].key
              /\ alert'[a].recipients = alert[a].recipients
              /\ alert'[a].age >= alert[a].age
<1> DEFINE new(a) == IF alert[a].status # "NONE" /\ Young(a)
                     THEN [alert[a] EXCEPT !.age = @ + 1] ELSE alert[a]
<1>1. ASSUME NEW a \in Alert
      PROVE  /\ new(a) \in AlertRecord
             /\ new(a).status = alert[a].status /\ new(a).key = alert[a].key
             /\ new(a).recipients = alert[a].recipients
             /\ new(a).age >= alert[a].age
  <2>1. alert[a] \in AlertRecord /\ alert[a].age \in 0..Cooldown
    BY AlertField DEF TypeOK
  <2>2. Young(a) => alert[a].age + 1 \in 0..Cooldown
    BY <2>1 DEF Young
  <2>3. CASE alert[a].status # "NONE" /\ Young(a)
    <3>1. new(a) = [alert[a] EXCEPT !.age = alert[a].age + 1]
      BY <2>3
    <3>2. new(a) \in AlertRecord
      BY <2>1, <2>2, <2>3, <3>1, AlertField
    <3> QED BY <2>1, <3>1, <3>2 DEF AlertRecord
  <2>4. CASE ~(alert[a].status # "NONE" /\ Young(a))
    BY <2>1, <2>4
  <2> QED BY <2>3, <2>4
<1>2. alert' = [a \in Alert |-> new(a)] /\ UNCHANGED <<note, rcpt, serving, resend, accepted, closed>>
  BY DEF Tick, history
<1> HIDE DEF new
<1> QED BY <1>1, <1>2

LEMMA StepTyped == IInv /\ [Next]_vars => IInv'
<1> SUFFICES ASSUME IInv, [Next]_vars PROVE IInv'
  OBVIOUS
<1>1. CASE Raise
  BY <1>1, CreateTyped DEF Raise
<1>2. CASE Desk
  BY <1>2, AcknowledgeTyped DEF Desk
<1>3. CASE Dispatcher
  BY <1>3, DispatcherTyped
<1>4. CASE Provider
  BY <1>4, SendTyped, ResendTyped DEF Provider
<1>5. CASE Tick
  BY <1>5, TickStep DEF IInv, TypeOK, ServingListed
<1>6. CASE UNCHANGED vars
  BY <1>6 DEF vars, records, history, IInv, TypeOK, ServingListed
<1> QED BY <1>1, <1>2, <1>3, <1>4, <1>5, <1>6 DEF Next

LEMMA Invariant == Spec => []IInv
<1>1. Init => IInv
  <2> SUFFICES ASSUME Init PROVE IInv
    OBVIOUS
  <2>1. [status |-> "NONE", key |-> None, recipients |-> 0, age |-> 0] \in AlertRecord
    BY DEF AlertRecord, Status
  <2>2. [status |-> "NONE", attempts |-> 0] \in NoteRecord
    BY DEF NoteRecord, Delivery
  <2> QED BY <2>1, <2>2 DEF Init, IInv, TypeOK, ServingListed, Delivery
<1> QED BY <1>1, StepTyped, PTL DEF Spec

(* Alerts, notifications and recipients keep their types: a delivery never *)
(* serves anyone beyond the list, and no attempt is counted beyond the     *)
(* limit (createAlert, executeNotificationDispatch).                       *)
THEOREM AlertsTyped == Spec => []TypeOK
<1>1. IInv => TypeOK
  BY DEF IInv
<1> QED BY Invariant, <1>1, PTL

-----------------------------------------------------------------------------
(* Attempts. *)

AttemptsInv == IInv /\ AttemptsKept

LEMMA AttemptsNextRecipient ==
  ASSUME AttemptsInv, NEW a \in Alert, Serving(a), NEW s \in {"DELIVERED", "FAILED"},
         NEW n \in [Note -> NoteRecord], NextRecipient(a, s, n), UNCHANGED resend,
         n[<<a, serving[a]>>].status = s,
         s = "FAILED" => n[<<a, serving[a]>>].attempts = MaxRetries,
         \A m \in Note : m # <<a, serving[a]>> => n[m] = note[m]
  PROVE  AttemptsKept'
<1> IInv /\ TypeOK /\ ServingListed
  BY DEF AttemptsInv, IInv
<1>1. \A m \in Note : n[m].attempts <= MaxRetries
  BY NoteField
<1>2. SUFFICES ASSUME NEW m \in Note
      PROVE  /\ note'[m].attempts <= MaxRetries
             /\ note'[m].status = "FAILED" => note'[m].attempts = MaxRetries
             /\ note'[m].status \in {"QUEUED", "RETRYING"} => InHand(m)'
  BY DEF AttemptsKept
<1>3. /\ n[m].status = "FAILED" => n[m].attempts = MaxRetries
      /\ n[m].status \in {"QUEUED", "RETRYING"} => InHand(m) /\ m # <<a, serving[a]>>
  BY DEF AttemptsInv, AttemptsKept
<1>4. m # <<a, serving[a]>> /\ InHand(m) =>
        \/ m[1] \in Alert /\ m[1] # a /\ serving[m[1]] = m[2]
        \/ \E r \in Request : resend[r] = m
  BY NoteFields DEF InHand
<1>5. CASE ServesNext(a, n)
  <2>1. CASE m = <<a, serving[a] + 1>>
    <3>1. note'[m] = Sending
      BY <1>5, <2>1 DEF ServesNext
    <3>2. Sending.status = "QUEUED" /\ Sending.attempts = 1 /\ 1 <= MaxRetries
      BY DEF Sending
    <3>3. serving'[a] = serving[a] + 1
      BY <1>5 DEF ServesNext, TypeOK
    <3>4. InHand(m)'
      BY <2>1, <3>3 DEF InHand
    <3> QED BY <3>1, <3>2, <3>4
  <2>2. CASE m # <<a, serving[a] + 1>>
    <3>1. note'[m] = n[m]
      BY <1>5, <2>2 DEF ServesNext
    <3>2. m[1] \in Alert /\ m[1] # a => serving'[m[1]] = serving[m[1]]
      BY <1>5 DEF ServesNext, TypeOK
    <3> QED BY <1>1, <1>3, <1>4, <3>1, <3>2 DEF InHand
  <2> QED BY <2>1, <2>2
<1>6. CASE Finishes(a, n)
  <2>1. m[1] \in Alert /\ m[1] # a => serving'[m[1]] = serving[m[1]]
    BY <1>6 DEF Finishes, TypeOK
  <2> QED BY <1>1, <1>3, <1>4, <1>6, <2>1 DEF Finishes, InHand
<1> QED BY <1>5, <1>6, NextRecipientStep

LEMMA AttemptsSend ==
  ASSUME AttemptsInv, NEW a \in Alert, SendSucceeds(a) \/ SendFails(a)
  PROVE  AttemptsKept'
<1> DEFINE n == <<a, serving[a]>>
<1>1. Serving(a) /\ IInv
  BY DEF SendSucceeds, SendFails, AttemptsInv
<1>2. n \in Note /\ note \in [Note -> NoteRecord] /\ note[n].attempts \in 0..MaxRetries
  BY <1>1, ServedNote, NoteField
<1>3. CASE SendSucceeds(a)
  <2>1. /\ Delivered(n) \in [Note -> NoteRecord] /\ Delivered(n)[n].status = "DELIVERED"
        /\ \A m \in Note : m # n => Delivered(n)[m] = note[m]
    BY <1>2, RecordsTyped DEF Delivered, NoteRecord
  <2>2. NextRecipient(a, "DELIVERED", Delivered(n)) /\ UNCHANGED resend
    BY <1>3 DEF SendSucceeds
  <2> QED BY <1>1, <2>1, <2>2, AttemptsNextRecipient
<1>4. CASE SendFails(a) /\ MoreAttempts(n) /\ note' = Retried(n) /\ UNCHANGED <<alert, serving>>
  <2>1. UNCHANGED resend
    BY <1>4 DEF SendFails
  <2>2. /\ note'[n].status = "RETRYING" /\ note'[n].attempts <= MaxRetries
        /\ \A m \in Note : m # n => note'[m] = note[m]
    BY <1>2, <1>4 DEF Retried, MoreAttempts
  <2>3. \A m \in Note : InHand(m) => InHand(m)'
    BY <1>4, <2>1 DEF InHand
  <2>4. InHand(n)
    BY DEF InHand
  <2> QED BY <2>2, <2>3, <2>4 DEF AttemptsInv, AttemptsKept
<1>5. CASE SendFails(a) /\ ~MoreAttempts(n) /\ NextRecipient(a, "FAILED", GivenUp(n))
  <2>1. /\ GivenUp(n) \in [Note -> NoteRecord] /\ GivenUp(n)[n].status = "FAILED"
        /\ GivenUp(n)[n].attempts = note[n].attempts
        /\ \A m \in Note : m # n => GivenUp(n)[m] = note[m]
    BY <1>2, RecordsTyped DEF GivenUp, NoteRecord
  <2>2. note[n].attempts = MaxRetries
    BY <1>2, <1>5 DEF MoreAttempts
  <2>3. UNCHANGED resend
    BY <1>5 DEF SendFails
  <2> QED BY <1>1, <1>5, <2>1, <2>2, <2>3, AttemptsNextRecipient
<1> QED BY <1>3, <1>4, <1>5 DEF SendFails

LEMMA AttemptsResend ==
  ASSUME AttemptsInv, NEW r \in Request, ResendSucceeds(r) \/ ResendFails(r)
  PROVE  AttemptsKept'
<1>0. PICK n \in Note : n = resend[r]
  BY DEF ResendSucceeds, ResendFails, Free, AttemptsInv, IInv, TypeOK
<1>1. n \in Note /\ note \in [Note -> NoteRecord] /\ serving' = serving
      /\ note[n].attempts \in 0..MaxRetries
  BY NoteField DEF ResendSucceeds, ResendFails, Free, AttemptsInv, IInv, TypeOK
<1>2. \/ note' = Delivered(n) /\ resend' = [resend EXCEPT ![r] = None]
      \/ MoreAttempts(n) /\ note' = Retried(n) /\ resend' = resend
      \/ ~MoreAttempts(n) /\ note' = GivenUp(n) /\ resend' = [resend EXCEPT ![r] = None]
  BY <1>0 DEF ResendSucceeds, ResendFails
<1>3. \A m \in Note : m # n => note'[m] = note[m] /\ (InHand(m) => InHand(m)')
  <2>1. \A m \in Note : m # n => note'[m] = note[m]
    BY <1>1, <1>2 DEF Delivered, Retried, GivenUp
  <2>2. \A q \in Request : q # r => resend'[q] = resend[q]
    BY <1>2 DEF AttemptsInv, IInv, TypeOK
  <2> QED BY <1>0, <1>1, <2>1, <2>2 DEF InHand
<1>4. /\ note'[n].attempts <= MaxRetries
      /\ note'[n].status = "FAILED" => note'[n].attempts = MaxRetries
      /\ note'[n].status \in {"QUEUED", "RETRYING"} => InHand(n)'
  <2>1. CASE note' = Delivered(n)
    <3>1. note'[n].status = "DELIVERED" /\ note'[n].attempts = note[n].attempts
      BY <1>1, <2>1 DEF Delivered, NoteRecord
    <3> QED BY <1>1, <3>1
  <2>2. CASE MoreAttempts(n) /\ note' = Retried(n) /\ resend' = resend
    <3>1. note'[n].status = "RETRYING" /\ note'[n].attempts = note[n].attempts + 1
      BY <1>1, <2>2 DEF Retried
    <3>2. note[n].attempts + 1 <= MaxRetries
      BY <1>1, <2>2 DEF MoreAttempts
    <3> QED BY <1>0, <2>2, <3>1, <3>2 DEF InHand
  <2>3. CASE ~MoreAttempts(n) /\ note' = GivenUp(n)
    <3>1. note'[n].status = "FAILED" /\ note'[n].attempts = note[n].attempts
      BY <1>1, <2>3 DEF GivenUp, NoteRecord
    <3>2. note[n].attempts = MaxRetries
      BY <1>1, <2>3 DEF MoreAttempts
    <3> QED BY <1>1, <3>1, <3>2
  <2> QED BY <1>2, <2>1, <2>2, <2>3
<1>5. SUFFICES ASSUME NEW m \in Note
      PROVE  /\ note'[m].attempts <= MaxRetries
             /\ note'[m].status = "FAILED" => note'[m].attempts = MaxRetries
             /\ note'[m].status \in {"QUEUED", "RETRYING"} => InHand(m)'
  BY DEF AttemptsKept
<1>6. CASE m = n
  BY <1>4, <1>6
<1>7. CASE m # n
  BY <1>3, <1>7 DEF AttemptsInv, AttemptsKept
<1> QED BY <1>6, <1>7

(* A record put in somebody's hand, the hands of all others kept.          *)
LEMMA AttemptsFresh ==
  ASSUME AttemptsInv, NEW n \in Note, NEW rec, rec.attempts = 1,
         rec.status \in {"QUEUED", "RETRYING"}, note' = [note EXCEPT ![n] = rec], InHand(n)',
         \A m \in Note : m # n /\ InHand(m) => InHand(m)'
  PROVE  AttemptsKept'
<1>1. \A m \in Note : m # n => note'[m] = note[m]
  BY DEF AttemptsInv, IInv, TypeOK
<1>2. note'[n] = rec /\ 1 <= MaxRetries
  BY DEF AttemptsInv, IInv, TypeOK
<1> QED BY <1>1, <1>2 DEF AttemptsInv, AttemptsKept

LEMMA AttemptsStep == AttemptsInv /\ [Next]_vars => AttemptsKept'
<1> SUFFICES ASSUME AttemptsInv, [Next]_vars PROVE AttemptsKept'
  OBVIOUS
<1>1. CASE Raise
  <2> PICK a \in Alert, k \in Key, c \in 0..MaxRecipients : CreateAlert(a, k, c)
    BY <1>1 DEF Raise
  <2>1. serving[a] = 0 /\ serving \in [Alert -> 0..MaxRecipients]
    BY DEF CreateAlert, AttemptsInv, IInv, TypeOK, ServingListed
  <2>2. \A m \in Note : m[2] \in Nat \ {0}
    BY NoteFields
  <2>3. CASE c > 0
    <3>1. /\ serving' = [serving EXCEPT ![a] = 1] /\ UNCHANGED resend
          /\ note' = [note EXCEPT ![<<a, 1>>] = Sending] /\ <<a, 1>> \in Note
      BY <2>3, NoteOfAlert DEF CreateAlert
    <3>2. \A m \in Note : InHand(m) => InHand(m)'
      BY <2>1, <2>2, <3>1 DEF InHand
    <3>3. InHand(<<a, 1>>)'
      BY <2>1, <3>1 DEF InHand
    <3>4. Sending.attempts = 1 /\ Sending.status = "QUEUED"
      BY DEF Sending
    <3> QED BY <3>1, <3>2, <3>3, <3>4, AttemptsFresh
  <2>4. CASE ~(c > 0)
    <3>1. UNCHANGED <<serving, note, resend>>
      BY <2>4 DEF CreateAlert
    <3> QED BY <3>1 DEF AttemptsInv, AttemptsKept, InHand
  <2> QED BY <2>3, <2>4
<1>2. CASE Desk
  BY <1>2 DEF Desk, Acknowledge, AttemptsInv, AttemptsKept, InHand
<1>3. CASE Dispatcher
  <2>1. PICK r \in Request, n \in Note, rec \in NoteRecord :
           /\ resend[r] = None
           /\ rec.status \in {"QUEUED", "RETRYING"} /\ rec.attempts = 1
           /\ note' = [note EXCEPT ![n] = rec] /\ resend' = [resend EXCEPT ![r] = n]
           /\ UNCHANGED <<alert, rcpt, serving, accepted, closed>>
    BY <1>3, DispatcherStep
  <2>2. resend'[r] = n /\ \A q \in Request : q # r => resend'[q] = resend[q]
    BY <2>1 DEF AttemptsInv, IInv, TypeOK
  <2>3. \A m \in Note : InHand(m) => InHand(m)'
    BY <2>1, <2>2 DEF InHand
  <2>4. InHand(n)'
    BY <2>2 DEF InHand
  <2> QED BY <2>1, <2>3, <2>4, AttemptsFresh
<1>4. CASE Provider
  BY <1>4, AttemptsSend, AttemptsResend DEF Provider
<1>5. CASE Tick
  BY <1>5 DEF Tick, AttemptsInv, AttemptsKept, InHand
<1>6. CASE UNCHANGED vars
  BY <1>6 DEF vars, records, AttemptsInv, AttemptsKept, InHand
<1> QED BY <1>1, <1>2, <1>3, <1>4, <1>5, <1>6 DEF Next

(* However deliveries and manual retries overlap on one record, attempts   *)
(* stay within the limit, nothing is given up early, and nothing is left   *)
(* in a transient status with nobody sending it                            *)
(* (executeNotificationDispatch, retryNotification).                       *)
THEOREM AttemptsAreKept == Spec => []AttemptsKept
<1>1. Init => AttemptsKept
  BY DEF Init, AttemptsKept
<1>2. IInv /\ AttemptsKept /\ [Next]_vars => AttemptsKept'
  BY AttemptsStep DEF AttemptsInv
<1> QED BY <1>1, <1>2, Invariant, PTL DEF Spec

-----------------------------------------------------------------------------
(* What is reported as delivered. *)

DeliveredInv == IInv /\ DeliveredIsTrue

(* Accepted messages stay accepted, and nobody leaves a list.              *)
LEMMA DeliveredKept ==
  ASSUME DeliveredIsTrue, accepted \subseteq accepted',
         \A n \in Note : \/ "DELIVERED" \notin {note'[n].status, rcpt'[n]}
                         \/ "DELIVERED" \in {note[n].status, rcpt[n]}
                         \/ n \in accepted',
         \A a \in Alert : alert'[a].status = "DELIVERED" =>
           \/ alert[a].status = "DELIVERED" /\ alert'[a].recipients = alert[a].recipients
           \/ \E i \in 1..alert'[a].recipients : <<a, i>> \in accepted'
  PROVE  DeliveredIsTrue'
BY DEF DeliveredIsTrue

LEMMA DeliveredNextRecipient ==
  ASSUME DeliveredInv, NEW a \in Alert, Serving(a), NEW s \in {"DELIVERED", "FAILED"},
         NEW n \in [Note -> NoteRecord], NextRecipient(a, s, n),
         n[<<a, serving[a]>>].status = s,
         \A m \in Note : m # <<a, serving[a]>> => n[m] = note[m],
         accepted \subseteq accepted', s = "DELIVERED" => <<a, serving[a]>> \in accepted'
  PROVE  DeliveredIsTrue'
<1> TypeOK /\ ServingListed /\ DeliveredIsTrue
  BY DEF DeliveredInv, IInv
<1>1. /\ <<a, serving[a]>> \in Note /\ rcpt' = [rcpt EXCEPT ![<<a, serving[a]>>] = s]
      /\ ServesNext(a, n) \/ Finishes(a, n)
  BY NextRecipientStep
<1>2. \A m \in Note : rcpt'[m] = "DELIVERED" => rcpt[m] = "DELIVERED" \/ m \in accepted'
  BY <1>1 DEF TypeOK
<1>3. \A m \in Note : note'[m].status = "DELIVERED" =>
        note[m].status = "DELIVERED" \/ m \in accepted'
  <2>1. Sending.status = "QUEUED"
    BY DEF Sending
  <2>2. \A m \in Note : n[m].status = "DELIVERED" =>
          note[m].status = "DELIVERED" \/ m \in accepted'
    BY <1>1
  <2>3. \A m \in Note : note'[m] \in {n[m], Sending}
    BY <1>1 DEF ServesNext, Finishes
  <2> QED BY <2>1, <2>2, <2>3
<1>4. ASSUME NEW b \in Alert, alert'[b].status = "DELIVERED"
      PROVE  \/ alert[b].status = "DELIVERED" /\ alert'[b].recipients = alert[b].recipients
             \/ \E i \in 1..alert'[b].recipients : <<b, i>> \in accepted'
  <2>1. CASE alert' = alert
    BY <1>4, <2>1
  <2>2. CASE /\ alert' = [alert EXCEPT ![a].status = "DELIVERED"]
             /\ \E j \in 1..alert[a].recipients : rcpt'[<<a, j>>] = "DELIVERED"
    <3>1. \A c \in Alert : alert'[c].recipients = alert[c].recipients
                           /\ (c # a => alert'[c] = alert[c])
      BY <2>2 DEF TypeOK, AlertRecord
    <3>2. PICK j \in 1..alert[a].recipients : rcpt'[<<a, j>>] = "DELIVERED"
      BY <2>2
    <3>3. <<a, j>> \in Note
      <4>1. alert[a].recipients \in 0..MaxRecipients
        BY AlertField DEF TypeOK
      <4>2. j \in 1..MaxRecipients
        BY <3>2, <4>1
      <4> QED BY <4>2, NoteOfAlert
    <3>4. <<a, j>> \in accepted'
      BY <1>2, <3>2, <3>3 DEF DeliveredIsTrue
    <3> QED BY <1>4, <3>1, <3>2, <3>4
  <2> QED BY <1>1, <2>1, <2>2 DEF ServesNext, Finishes
<1> QED BY <1>2, <1>3, <1>4, DeliveredKept

LEMMA DeliveredSend ==
  ASSUME DeliveredInv, NEW a \in Alert, SendSucceeds(a) \/ SendFails(a)
  PROVE  DeliveredIsTrue'
<1> DEFINE n == <<a, serving[a]>>
<1>1. Serving(a) /\ IInv /\ DeliveredIsTrue
  BY DEF SendSucceeds, SendFails, DeliveredInv
<1>2. n \in Note /\ note \in [Note -> NoteRecord] /\ rcpt \in [Note -> Delivery]
  BY <1>1, ServedNote DEF IInv, TypeOK
<1>3. CASE SendSucceeds(a)
  <2>1. /\ Delivered(n) \in [Note -> NoteRecord] /\ Delivered(n)[n].status = "DELIVERED"
        /\ \A m \in Note : m # n => Delivered(n)[m] = note[m]
    BY <1>2, RecordsTyped DEF Delivered, NoteRecord
  <2>2. NextRecipient(a, "DELIVERED", Delivered(n)) /\ accepted' = accepted \cup {n}
    BY <1>3 DEF SendSucceeds
  <2> QED BY <1>1, <2>1, <2>2, DeliveredNextRecipient
<1>4. CASE SendFails(a) /\ MoreAttempts(n) /\ note' = Retried(n) /\ UNCHANGED <<alert, serving>>
           /\ rcpt' = [rcpt EXCEPT ![n] = "RETRYING"]
  <2>1. accepted' = accepted
    BY <1>4 DEF SendFails, history
  <2>2. \A m \in Note : "DELIVERED" \in {note'[m].status, rcpt'[m]} =>
                        "DELIVERED" \in {note[m].status, rcpt[m]}
    BY <1>2, <1>4 DEF Retried
  <2> QED BY <1>1, <1>4, <2>1, <2>2, DeliveredKept
<1>5. CASE SendFails(a) /\ NextRecipient(a, "FAILED", GivenUp(n))
  <2>1. /\ GivenUp(n) \in [Note -> NoteRecord] /\ GivenUp(n)[n].status = "FAILED"
        /\ \A m \in Note : m # n => GivenUp(n)[m] = note[m]
    BY <1>2, RecordsTyped DEF GivenUp, NoteRecord
  <2>2. accepted' = accepted
    BY <1>5 DEF SendFails, history
  <2> QED BY <1>1, <1>5, <2>1, <2>2, DeliveredNextRecipient
<1> QED BY <1>3, <1>4, <1>5 DEF SendFails

LEMMA DeliveredResend ==
  ASSUME DeliveredInv, NEW r \in Request, ResendSucceeds(r) \/ ResendFails(r)
  PROVE  DeliveredIsTrue'
<1>0. PICK n \in Note : n = resend[r]
  BY DEF ResendSucceeds, ResendFails, Free, DeliveredInv, IInv, TypeOK
<1>1. /\ note \in [Note -> NoteRecord] /\ UNCHANGED <<alert, rcpt>> /\ DeliveredIsTrue
      /\ accepted \subseteq accepted'
  BY DEF ResendSucceeds, ResendFails, history, DeliveredInv, IInv, TypeOK
<1>2. \/ note' = Delivered(n) /\ n \in accepted'
      \/ note' = Retried(n)
      \/ note' = GivenUp(n)
  BY <1>0 DEF ResendSucceeds, ResendFails
<1>3. \A m \in Note : note'[m].status = "DELIVERED" =>
        note[m].status = "DELIVERED" \/ m \in accepted'
  BY <1>1, <1>2 DEF Delivered, Retried, GivenUp, NoteRecord
<1> QED BY <1>1, <1>3, DeliveredKept

LEMMA DeliveredStep == DeliveredInv /\ [Next]_vars => DeliveredIsTrue'
<1> SUFFICES ASSUME DeliveredInv, [Next]_vars PROVE DeliveredIsTrue'
  OBVIOUS
<1> DeliveredIsTrue /\ TypeOK
  BY DEF DeliveredInv, IInv
<1>1. CASE Raise
  <2> PICK a \in Alert, k \in Key, c \in 0..MaxRecipients : CreateAlert(a, k, c)
    BY <1>1 DEF Raise
  <2>1. \A b \in Alert : alert'[b] = alert[b] \/ alert'[b].status = "SENT"
    BY DEF CreateAlert, TypeOK
  <2>2. \A m \in Note : rcpt'[m] \in {rcpt[m], "QUEUED"}
    BY DEF CreateAlert
  <2>3. \A m \in Note : note'[m] = note[m] \/ note'[m].status = "QUEUED"
    BY DEF CreateAlert, Sending, TypeOK
  <2>4. accepted' = accepted
    BY DEF CreateAlert, history
  <2> QED BY <2>1, <2>2, <2>3, <2>4, DeliveredKept
<1>2. CASE Desk
  <2> PICK a \in Alert, s \in Closed \cup {"ESCALATED"} : Acknowledge(a, s)
    BY <1>2 DEF Desk
  <2>1. s # "DELIVERED"
    BY DEF Closed
  <2>2. \A b \in Alert : alert'[b].status = "DELIVERED" => alert'[b] = alert[b]
    BY <2>1 DEF Acknowledge, TypeOK, AlertRecord
  <2>3. UNCHANGED <<note, rcpt, accepted>>
    BY DEF Acknowledge
  <2> QED BY <2>2, <2>3, DeliveredKept
<1>3. CASE Dispatcher
  <2>1. PICK r \in Request, n \in Note, rec \in NoteRecord :
           /\ rec.status \in {"QUEUED", "RETRYING"}
           /\ note' = [note EXCEPT ![n] = rec]
           /\ UNCHANGED <<alert, rcpt, accepted>>
    BY <1>3, DispatcherStep
  <2>2. \A m \in Note : note'[m] = note[m] \/ note'[m].status # "DELIVERED"
    BY <2>1 DEF TypeOK
  <2> QED BY <2>1, <2>2, DeliveredKept
<1>4. CASE Provider
  BY <1>4, DeliveredSend, DeliveredResend DEF Provider
<1>5. CASE Tick
  BY <1>5, TickStep, DeliveredKept
<1>6. CASE UNCHANGED vars
  BY <1>6 DEF vars, records, history, DeliveredIsTrue
<1> QED BY <1>1, <1>2, <1>3, <1>4, <1>5, <1>6 DEF Next

(* A record says DELIVERED only of what the provider accepted              *)
(* (createAlert, executeNotificationDispatch, acknowledgeAlert).           *)
THEOREM DeliveriesTrue == Spec => []DeliveredIsTrue
<1>1. Init => DeliveredIsTrue
  BY DEF Init, DeliveredIsTrue
<1>2. IInv /\ DeliveredIsTrue /\ [Next]_vars => DeliveredIsTrue'
  BY DeliveredStep DEF DeliveredInv
<1> QED BY <1>1, <1>2, Invariant, PTL DEF Spec

-----------------------------------------------------------------------------
(* Deduplication. *)

DupInv == IInv /\ ClosedKnown /\ OneActivePerKey

(* What keeps the two facts: an alert that is active and young afterwards  *)
(* was so before, or has been closed once.                                 *)
LEMMA DupKept ==
  ASSUME DupInv, closed \subseteq closed',
         \A a \in Alert :
           /\ alert'[a].key = alert[a].key
           /\ alert'[a].status \in Closed => a \in closed'
           /\ (Active(a) /\ Young(a))' => (Active(a) /\ Young(a)) \/ a \in closed'
  PROVE  ClosedKnown' /\ OneActivePerKey'
BY DEF DupInv, ClosedKnown, OneActivePerKey

LEMMA DupSend ==
  ASSUME DupInv, NEW a \in Alert, SendSucceeds(a) \/ SendFails(a)
  PROVE  ClosedKnown' /\ OneActivePerKey'
<1> DEFINE n == <<a, serving[a]>>
<1>1. /\ Serving(a) /\ IInv /\ TypeOK /\ ServingListed /\ closed' = closed
      /\ ClosedKnown /\ alert \in [Alert -> AlertRecord]
  BY DEF SendSucceeds, SendFails, DupInv, IInv, TypeOK, history
<1>2. n \in Note /\ note \in [Note -> NoteRecord]
  BY <1>1, ServedNote
<1>3. alert' = alert \/ alert' = [alert EXCEPT ![a].status = "DELIVERED"]
  <2>1. CASE SendSucceeds(a)
    BY <1>1, <1>2, <2>1, RecordsTyped, NextRecipientStep DEF ServesNext, Finishes, SendSucceeds
  <2>2. CASE SendFails(a)
    BY <1>1, <1>2, <2>2, RecordsTyped, NextRecipientStep DEF ServesNext, Finishes, SendFails
  <2> QED BY <2>1, <2>2
<1>4. alert[a].status # "NONE" /\ alert[a].status \in Status
  BY <1>1, AlertField DEF ServingListed, Serving
<1>5. alert[a].status \in Open \/ a \in closed
  BY <1>1, <1>4 DEF ClosedKnown, Status
<1>6. CASE alert' = alert
  BY <1>1, <1>6, DupKept DEF ClosedKnown, Active, Young
<1>7. CASE alert' = [alert EXCEPT ![a].status = "DELIVERED"]
  <2>1. \A b \in Alert : /\ alert'[b].key = alert[b].key /\ alert'[b].age = alert[b].age
                         /\ b # a => alert'[b].status = alert[b].status
    BY <1>1, <1>7 DEF AlertRecord
  <2>2. alert'[a].status \notin Closed
    BY <1>1, <1>7 DEF AlertRecord, Closed
  <2>3. \A b \in Alert : (Active(b) /\ Young(b))' => (Active(b) /\ Young(b)) \/ b \in closed'
    BY <1>1, <1>5, <2>1 DEF Active, Young
  <2> QED BY <1>1, <2>1, <2>2, <2>3, DupKept DEF ClosedKnown
<1> QED BY <1>3, <1>6, <1>7

LEMMA DupStep == DupInv /\ [Next]_vars => ClosedKnown' /\ OneActivePerKey'
<1> SUFFICES ASSUME DupInv, [Next]_vars PROVE ClosedKnown' /\ OneActivePerKey'
  OBVIOUS
<1> ClosedKnown /\ OneActivePerKey /\ TypeOK /\ IInv /\ alert \in [Alert -> AlertRecord]
  BY DEF DupInv, IInv, TypeOK
<1>1. CASE Raise
  <2> PICK a \in Alert, k \in Key, c \in 0..MaxRecipients : CreateAlert(a, k, c)
    BY <1>1 DEF Raise
  <2>1. /\ ~Suppressed(k) /\ closed' = closed
        /\ alert'[a].status = "SENT" /\ alert'[a].key = k
        /\ \A b \in Alert : b # a => alert'[b] = alert[b]
    BY DEF CreateAlert, history
  <2>2. \A b \in Alert : b # a /\ alert'[b].key = k => ~(Active(b) /\ Young(b))'
    BY <2>1 DEF Suppressed, Active, Young
  <2>3. ClosedKnown'
    BY <2>1 DEF ClosedKnown, Closed
  <2>4. OneActivePerKey'
    <3> SUFFICES ASSUME NEW b \in Alert, NEW c1 \in Alert, b # c1, alert'[b].key = alert'[c1].key,
                        (Active(b) /\ Young(b))', (Active(c1) /\ Young(c1))'
                 PROVE  {b, c1} \cap closed' # {}
      BY DEF OneActivePerKey
    <3>1. b # a /\ c1 # a
      BY <2>1, <2>2
    <3> QED BY <2>1, <3>1 DEF OneActivePerKey, Active, Young
  <2> QED BY <2>3, <2>4
<1>2. CASE Desk
  <2> PICK a \in Alert, s \in Closed \cup {"ESCALATED"} : Acknowledge(a, s)
    BY <1>2 DEF Desk
  <2>1. /\ alert[a].status # "NONE" /\ closed \subseteq closed'
        /\ alert' = [alert EXCEPT ![a].status = s]
        /\ s \in Closed => a \in closed'
    BY DEF Acknowledge
  <2>2. \A b \in Alert : /\ alert'[b].key = alert[b].key /\ alert'[b].age = alert[b].age
                         /\ b # a => alert'[b].status = alert[b].status
    BY <2>1 DEF AlertRecord
  <2>3. alert[a].status \in Open \/ a \in closed
    BY <2>1, AlertField DEF ClosedKnown, Status
  <2>4. alert'[a].status \in Closed => a \in closed'
    BY <2>1 DEF AlertRecord
  <2>5. \A b \in Alert : (Active(b) /\ Young(b))' => (Active(b) /\ Young(b)) \/ b \in closed'
    BY <2>1, <2>2, <2>3 DEF Active, Young
  <2> QED BY <2>1, <2>2, <2>4, <2>5, DupKept DEF ClosedKnown
<1>3. CASE Dispatcher
  BY <1>3, DispatcherStep, DupKept DEF ClosedKnown, Active, Young
<1>4. CASE Provider
  <2>1. CASE \E r \in Request : ResendSucceeds(r) \/ ResendFails(r)
    <3>1. UNCHANGED <<alert, closed>>
      BY <2>1 DEF ResendSucceeds, ResendFails, history
    <3> QED BY <3>1, DupKept DEF ClosedKnown, Active, Young
  <2> QED BY <1>4, <2>1, DupSend DEF Provider
<1>5. CASE Tick
  <2>1. \A a \in Alert : alert[a].age \in Nat /\ alert'[a].age \in Nat
    BY <1>5, TickStep, AlertField
  <2>2. \A a \in Alert : Young(a)' => Young(a)
    BY <1>5, <2>1, TickStep DEF Young
  <2> QED BY <1>5, <2>2, TickStep, DupKept DEF ClosedKnown, Active
<1>6. CASE UNCHANGED vars
  BY <1>6 DEF vars, records, history, ClosedKnown, OneActivePerKey, Active, Young
<1> QED BY <1>1, <1>2, <1>3, <1>4, <1>5, <1>6 DEF Next

(* Two alerts of one key are active in one window only after one of them   *)
(* was closed (createAlert, acknowledgeAlert).                             *)
THEOREM OneActive == Spec => []OneActivePerKey
<1>1. Init => ClosedKnown /\ OneActivePerKey
  BY DEF Init, ClosedKnown, OneActivePerKey, Active, Open, Closed
<1>2. IInv /\ ClosedKnown /\ OneActivePerKey /\ [Next]_vars => (ClosedKnown /\ OneActivePerKey)'
  BY DupStep DEF DupInv
<1> QED BY <1>1, <1>2, Invariant, PTL DEF Spec
=============================================================================
