----------------------------- MODULE AlertDispatch -----------------------------
(***************************************************************************)
(* Alerts and the notifications they send                                  *)
(* (src/src/lib/services/alert.service.ts), kept in the server's memory.   *)
(*                                                                         *)
(* createAlert stores the alert, then serves its recipients one after the  *)
(* other; every send awaits the notification provider, and meanwhile other *)
(* requests acknowledge, escalate or resolve the alert, raise it again,    *)
(* retry its notifications or send notifications of their own.  A step is  *)
(* what runs between two answers of the provider.  Time is counted in      *)
(* ticks of the ages of alerts.                                            *)
(***************************************************************************)
EXTENDS Naturals, FiniteSets

CONSTANTS
  Alert,          \* alerts that may ever be raised
  Key,            \* deduplication keys
  Message,        \* notifications sent directly, without an alert
  Request,        \* manual retries and direct sends under way at once
  MaxRecipients,  \* recipients of one alert
  MaxAudience,    \* bound: recipients of all alerts together
  MaxRetries,     \* maxRetries of a notification (3 in the code)
  Cooldown,       \* the suppression window, in ticks
  None

ASSUME AlertAssumption ==
  /\ MaxRecipients \in Nat /\ MaxAudience \in Nat
  /\ MaxRetries \in Nat \ {0} /\ Cooldown \in Nat \ {0}
  /\ Alert \cap Message = {}
  /\ None \notin Key

Note == (Alert \X (1..MaxRecipients)) \cup (Message \X {1})

ASSUME NoNoteAssumption == None \notin Note

VARIABLES
  alert,    \* the alert records
  note,     \* the notification records
  rcpt,     \* status of each recipient inside its alert
  serving,  \* the recipient createAlert is sending to, 0 when it is not under way
  resend,   \* the notification a manual retry or direct send is sending
  \* history
  accepted, \* notifications the provider has accepted at least once
  closed    \* alerts that have been acknowledged, resolved or dismissed

records == <<alert, note, rcpt>>
history == <<accepted, closed>>
vars == <<records, serving, resend, history>>

Open == {"SENT", "DELIVERED", "ESCALATED"}
Closed == {"CLOSED"}   \* ACKNOWLEDGED, RESOLVED and DISMISSED: nothing tells them apart
Delivery == {"NONE", "QUEUED", "RETRYING", "DELIVERED", "FAILED"}

Status == Open \cup Closed \cup {"NONE"}

AlertRecord ==
  [status : Status, key : Key \cup {None}, recipients : 0..MaxRecipients, age : 0..Cooldown]
NoteRecord == [status : Delivery, attempts : 0..MaxRetries]

TypeOK ==
  /\ alert \in [Alert -> AlertRecord]
  /\ note \in [Note -> NoteRecord]
  /\ rcpt \in [Note -> Delivery]
  /\ serving \in [Alert -> 0..MaxRecipients]
  /\ resend \in [Request -> Note \cup {None}]
  /\ accepted \subseteq Note /\ closed \subseteq Alert

Init ==
  /\ alert = [a \in Alert |->
       [status |-> "NONE", key |-> None, recipients |-> 0, age |-> 0]]
  /\ note = [n \in Note |-> [status |-> "NONE", attempts |-> 0]]
  /\ rcpt = [n \in Note |-> "NONE"]
  /\ serving = [a \in Alert |-> 0]
  /\ resend = [r \in Request |-> None]
  /\ accepted = {} /\ closed = {}

-----------------------------------------------------------------------------
(* Deduplication: an active alert of the same key younger than the window. *)

Active(a) == alert[a].status \in Open
Young(a) == alert[a].age < Cooldown

(* Plausible slip: only alerts whose delivery is finished are looked at.   *)
SuppressedWhenSent(k) ==
  \E a \in Alert : alert[a].key = k /\ alert[a].status = "DELIVERED" /\ Young(a)

Suppressed(k) == \E a \in Alert : alert[a].key = k /\ Active(a) /\ Young(a)

-----------------------------------------------------------------------------
(* executeNotificationDispatch: attempts follow each other until the       *)
(* provider accepts or the attempts, which concurrent loops over the same  *)
(* record share, are used up.                                              *)

Sending == [status |-> "QUEUED", attempts |-> 1]

Delivered(n) == [note EXCEPT ![n].status = "DELIVERED"]

MoreAttempts(n) == note[n].attempts < MaxRetries

(* The next attempt starts in the same step that found the last one failed.*)
Retried(n) ==
  [note EXCEPT ![n] = [status |-> "RETRYING", attempts |-> note[n].attempts + 1]]

(* Plausible slip: a failure that follows the last attempt is left to be   *)
(* retried by nobody.                                                      *)
GivenUpRetrying(n) == [note EXCEPT ![n].status = "RETRYING"]

GivenUp(n) == [note EXCEPT ![n].status = "FAILED"]

-----------------------------------------------------------------------------
(* createAlert. *)

Audience == {n \in Note : n[1] \in Alert /\ n[2] <= alert[n[1]].recipients}

(* The alert is stored and the first recipient, if any, is being served.   *)
CreateAlert(a, k, count) ==
  /\ alert[a].status = "NONE"
  /\ ~Suppressed(k)
  /\ Cardinality(Audience) + count <= MaxAudience
  /\ alert' = [alert EXCEPT ![a] =
       [status |-> "SENT", key |-> k, recipients |-> count, age |-> 0]]
  /\ rcpt' = [n \in Note |->
       IF n[1] = a /\ n[2] <= count THEN "QUEUED" ELSE rcpt[n]]
  /\ IF count > 0
     THEN /\ serving' = [serving EXCEPT ![a] = 1]
          /\ note' = [note EXCEPT ![<<a, 1>>] = Sending]
     ELSE UNCHANGED <<serving, note>>
  /\ UNCHANGED <<resend, history>>

(* Plausible slip: the alert counts as delivered once everybody was tried. *)
NextRecipientTried(a, s, n) ==
  LET i == serving[a] IN
  /\ rcpt' = [rcpt EXCEPT ![<<a, i>>] = s]
  /\ IF i < alert[a].recipients
     THEN /\ serving' = [serving EXCEPT ![a] = i + 1]
          /\ note' = [n EXCEPT ![<<a, i + 1>>] = Sending]
          /\ UNCHANGED alert
     ELSE /\ serving' = [serving EXCEPT ![a] = 0]
          /\ note' = n
          /\ alert' = [alert EXCEPT ![a].status = "DELIVERED"]

(* Plausible slip: the loop serves the same recipient again.               *)
NextRecipientAgain(a, s, n) ==
  LET i == serving[a] IN
  /\ rcpt' = [rcpt EXCEPT ![<<a, i>>] = s]
  /\ note' = IF i < alert[a].recipients THEN [n EXCEPT ![<<a, i>>] = Sending] ELSE n
  /\ serving' = IF i < alert[a].recipients THEN serving ELSE [serving EXCEPT ![a] = 0]
  /\ UNCHANGED alert

(* Recipient serving[a] is done with, with outcome s and n the records as  *)
(* its loop left them: the next one is served, or the alert is marked      *)
(* delivered if any recipient was reached, whatever has become of it.      *)
NextRecipient(a, s, n) ==
  LET i == serving[a]
      outcome == [rcpt EXCEPT ![<<a, i>>] = s]
      reached == \E j \in 1..alert[a].recipients : outcome[<<a, j>>] = "DELIVERED"
  IN /\ rcpt' = outcome
     /\ IF i < alert[a].recipients
        THEN /\ serving' = [serving EXCEPT ![a] = i + 1]
             /\ note' = [n EXCEPT ![<<a, i + 1>>] = Sending]
             /\ UNCHANGED alert
        ELSE /\ serving' = [serving EXCEPT ![a] = 0]
             /\ note' = n
             /\ alert' = [alert EXCEPT ![a].status = IF reached THEN "DELIVERED" ELSE @]

Serving(a) == serving[a] > 0

SendSucceeds(a) ==
  LET n == <<a, serving[a]>> IN
  /\ Serving(a)
  /\ NextRecipient(a, "DELIVERED", Delivered(n))
  /\ accepted' = accepted \cup {n}
  /\ UNCHANGED <<resend, closed>>

SendFails(a) ==
  LET n == <<a, serving[a]>> IN
  /\ Serving(a)
  /\ \/ /\ MoreAttempts(n)
        /\ note' = Retried(n)
        /\ rcpt' = [rcpt EXCEPT ![n] = "RETRYING"]
        /\ UNCHANGED <<alert, serving>>
     \/ /\ ~MoreAttempts(n)
        /\ NextRecipient(a, "FAILED", GivenUp(n))
  /\ UNCHANGED <<resend, history>>

-----------------------------------------------------------------------------
(* acknowledgeAlert: any action in any status, during delivery too. *)

Acknowledge(a, status) ==
  /\ alert[a].status # "NONE"
  /\ alert' = [alert EXCEPT ![a].status = status]
  /\ closed' = IF status \in Closed THEN closed \cup {a} ELSE closed
  /\ UNCHANGED <<note, rcpt, serving, resend, accepted>>

-----------------------------------------------------------------------------
(* sendDirectNotification and retryNotification: a loop of its own, which  *)
(* leaves the alert and its list of recipients alone.                      *)

Free(r) == resend[r] = None

SendDirect(r, m) ==
  /\ Free(r) /\ note[<<m, 1>>].status = "NONE"
  /\ note' = [note EXCEPT ![<<m, 1>>] = Sending]
  /\ resend' = [resend EXCEPT ![r] = <<m, 1>>]
  /\ UNCHANGED <<alert, rcpt, serving, history>>

(* The counter starts again, also under a loop that is still running.      *)
Retry(r, n) ==
  /\ Free(r) /\ note[n].status # "NONE"
  /\ note' = [note EXCEPT ![n] = [status |-> "RETRYING", attempts |-> 1]]
  /\ resend' = [resend EXCEPT ![r] = n]
  /\ UNCHANGED <<alert, rcpt, serving, history>>

ResendSucceeds(r) ==
  /\ ~Free(r)
  /\ note' = Delivered(resend[r])
  /\ accepted' = accepted \cup {resend[r]}
  /\ resend' = [resend EXCEPT ![r] = None]
  /\ UNCHANGED <<alert, rcpt, serving, closed>>

ResendFails(r) ==
  LET n == resend[r] IN
  /\ ~Free(r)
  /\ \/ /\ MoreAttempts(n)
        /\ note' = Retried(n)
        /\ UNCHANGED resend
     \/ /\ ~MoreAttempts(n)
        /\ note' = GivenUp(n)
        /\ resend' = [resend EXCEPT ![r] = None]
  /\ UNCHANGED <<alert, rcpt, serving, history>>

-----------------------------------------------------------------------------
(* Time passes for every alert that is still inside the window.            *)
Tick ==
  /\ \E a \in Alert : alert[a].status # "NONE" /\ Young(a)
  /\ alert' = [a \in Alert |->
       IF alert[a].status # "NONE" /\ Young(a)
       THEN [alert[a] EXCEPT !.age = @ + 1] ELSE alert[a]]
  /\ UNCHANGED <<note, rcpt, serving, resend, history>>

-----------------------------------------------------------------------------

Raise == \E a \in Alert, k \in Key, c \in 0..MaxRecipients : CreateAlert(a, k, c)
Desk == \E a \in Alert, s \in Closed \cup {"ESCALATED"} : Acknowledge(a, s)
Dispatcher ==
  \E r \in Request : (\E m \in Message : SendDirect(r, m)) \/ (\E n \in Note : Retry(r, n))

(* The provider's answers. *)
Provider ==
  \/ \E a \in Alert : SendSucceeds(a) \/ SendFails(a)
  \/ \E r \in Request : ResendSucceeds(r) \/ ResendFails(r)

Next == Raise \/ Desk \/ Dispatcher \/ Provider \/ Tick

Spec == Init /\ [][Next]_vars

(* The provider answers every call, with success or failure: the adapters  *)
(* return or throw (notification.provider.ts:43-71, 78-144).               *)
FairSpec ==
  /\ Spec
  /\ \A a \in Alert : WF_vars(SendSucceeds(a) \/ SendFails(a))
  /\ \A r \in Request : WF_vars(ResendSucceeds(r) \/ ResendFails(r))

-----------------------------------------------------------------------------
(* Properties. *)

InHand(n) ==
  \/ n[1] \in Alert /\ serving[n[1]] = n[2]
  \/ \E r \in Request : resend[r] = n

(* However the loops of a creation and of manual retries overlap on one    *)
(* record and reset its counter, no notification makes more attempts than  *)
(* allowed, none is given up before the last one, and none that nobody is  *)
(* sending is left in a transient status.                                  *)
AttemptsKept ==
  \A n \in Note :
    /\ note[n].attempts <= MaxRetries
    /\ note[n].status = "FAILED" => note[n].attempts = MaxRetries
    /\ note[n].status \in {"QUEUED", "RETRYING"} => InHand(n)

(* An alert says DELIVERED, and so does a recipient or a notification,     *)
(* only if the provider has accepted a message for it.                     *)
DeliveredIsTrue ==
  /\ \A n \in Note :
       "DELIVERED" \in {note[n].status, rcpt[n]} => n \in accepted
  /\ \A a \in Alert : alert[a].status = "DELIVERED" =>
       \E i \in 1..alert[a].recipients : <<a, i>> \in accepted

(* Two alerts of one key are active within one window only if one of them  *)
(* was closed by a dispatcher and became active again.                     *)
OneActivePerKey ==
  \A a, b \in Alert :
    /\ a # b /\ alert[a].key = alert[b].key
    /\ Active(a) /\ Young(a) /\ Active(b) /\ Young(b)
    => {a, b} \cap closed # {}

(* Every creation comes to its end, unless manual retries keep resetting   *)
(* the counter it works with.                                              *)
DispatchEnds ==
  (<>[][~Dispatcher]_vars) => \A a \in Alert : Serving(a) ~> ~Serving(a)

(* Claim of docs/alerts-notifications-architecture.md:21, "suppresses      *)
(* duplicate alerts ... within a temporal cooldown window": at most one    *)
(* alert of a key is active inside it.                                     *)
DuplicatesSuppressed ==
  \A a, b \in Alert :
    /\ a # b /\ alert[a].key = alert[b].key
    /\ Active(a) /\ Young(a) /\ Active(b) /\ Young(b)
    => FALSE
=============================================================================
