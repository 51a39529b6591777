-------------------------------- MODULE Ingestion --------------------------------
(***************************************************************************)
(* Ingestion runs over authoritative data sources                          *)
(* (src/src/lib/services/ingestion.service.ts).                            *)
(*                                                                         *)
(* A run takes the source's record at its start, fetches the feed with up  *)
(* to three attempts, handles all of it in one turn and writes the record  *)
(* back.  Runs overlap, and a source may be updated meanwhile: an update   *)
(* makes a new record, a run changes the one it holds.  So records are     *)
(* objects here, and the registry and the runs hold references to them.    *)
(*                                                                         *)
(* Which events a feed item makes is left out: an item is well formed or   *)
(* not, and has the key its hash is computed from.                         *)
(***************************************************************************)
EXTENDS Naturals, FiniteSets

CONSTANTS
  Source, Seeded,   \* data sources, and those registered at the start
  Run,              \* runs
  Item, WellFormed, \* feed items, and those that pass validation
  Key, KeyOf,       \* what items are told apart by
  Feed,             \* the payloads a feed may have
  Attempts,         \* fetch attempts (3)
  Objects,          \* bound: source records ever made
  None

ASSUME IngestionAssumption ==
  /\ Seeded \subseteq Source /\ WellFormed \subseteq Item
  /\ KeyOf \in [Item -> Key] /\ Feed \subseteq SUBSET Item
  /\ Attempts \in Nat \ {0} /\ Objects \in Nat
  /\ None \notin Nat

(* What is hashed names the source, too.                                   *)
Hash == Source \X Key

Config == [active : BOOLEAN, url : BOOLEAN]
Seed == [active |-> TRUE, url |-> TRUE]

VARIABLES
  held,    \* localDataSources: the record each source has, None before
  obj,     \* the records
  objects, \* how many there are beside the first of each source
  run,     \* localIngestionRuns and what each run is at
  hashes,  \* ingestedPayloadHashes
  events,  \* how many events there are of each hash
  \* history
  wanted,  \* what each source was last configured to be
  streak,  \* runs of each source in a row, as they ended, that reported FAILED
  unfed,   \* runs of each source in a row that ended without a payload
  raced    \* sources updated while a run held their record

registry == <<held, obj, objects, wanted, raced>>
ends == <<streak, unfed>>
vars == <<registry, run, hashes, events, ends>>

Object == (Source \X {0}) \cup (Source \X (1..Objects))

ASSUME NoObjectAssumption == None \notin Object

RunRecord ==
  [stage : {"unused", "begun", "fetch", "body", "pause", "closing", "done"},
   source : Source \cup {None}, record : Object \cup {None},
   dry : BOOLEAN, attempts : 0..(Attempts - 1),
   given : (SUBSET Item) \cup {None}, \* a payload handed in
   items : SUBSET Item,               \* what was handled
   status : {"RUNNING", "SUCCESS", "PARTIAL", "FAILED"}]

TypeOK ==
  /\ held \in [Source -> Object \cup {None}]
  /\ obj \in [Object -> [config : Config, failures : Nat]]
  /\ objects \in 0..Objects
  /\ run \in [Run -> RunRecord]
  /\ hashes \subseteq Hash /\ events \in [Hash -> Nat]
  /\ wanted \in [Source -> Config] /\ streak \in [Source -> Nat] /\ unfed \in [Source -> Nat]
  /\ raced \subseteq Source

Unused ==
  [stage |-> "unused", source |-> None, record |-> None, dry |-> FALSE, attempts |-> 0,
   given |-> None, items |-> {}, status |-> "RUNNING"]

Init ==
  /\ held = [s \in Source |-> IF s \in Seeded THEN <<s, 0>> ELSE None]
  /\ obj = [o \in Object |-> [config |-> Seed, failures |-> 0]]
  /\ objects = 0
  /\ run = [r \in Run |-> Unused]
  /\ hashes = {} /\ events = [h \in Hash |-> 0]
  /\ wanted = [s \in Source |-> Seed]
  /\ streak = [s \in Source |-> 0] /\ unfed = [s \in Source |-> 0]
  /\ raced = {}

Under(r) == run[r].stage \notin {"unused", "closing", "done"}

-----------------------------------------------------------------------------
(* The registry. *)

(* registerDataSource, for a code that is not taken.                       *)
Register(s, c) ==
  /\ held[s] = None
  /\ held' = [held EXCEPT ![s] = <<s, 0>>]
  /\ obj' = [obj EXCEPT ![<<s, 0>>] = [config |-> c, failures |-> 0]]
  /\ wanted' = [wanted EXCEPT ![s] = c]
  /\ UNCHANGED <<objects, raced, run, hashes, events, ends>>

(* updateDataSource: a new record takes the place of the old one.          *)
Update(s, c) ==
  LET new == <<s, objects + 1>> IN
  /\ held[s] # None /\ objects < Objects
  /\ objects' = objects + 1
  /\ obj' = [obj EXCEPT ![new] = [obj[held[s]] EXCEPT !.config = c]]
  /\ held' = [held EXCEPT ![s] = new]
  /\ wanted' = [wanted EXCEPT ![s] = c]
  /\ raced' = IF \E r \in Run : Under(r) /\ run[r].source = s THEN raced \cup {s} ELSE raced
  /\ UNCHANGED <<run, hashes, events, ends>>

-----------------------------------------------------------------------------
(* executeIngestionRun *)

(* An inactive source is only run if forced to.                            *)
Begin(r, s, dry, force, given) ==
  /\ run[r].stage = "unused" /\ held[s] # None
  /\ obj[held[s]].config.active \/ force
  /\ run' = [run EXCEPT ![r] =
       [Unused EXCEPT !.stage = "begun", !.source = s, !.record = held[s],
                      !.dry = dry, !.given = given]]
  /\ UNCHANGED <<registry, hashes, events, ends>>

Hashes(r, items) == {<<run[r].source, KeyOf[i]>> : i \in items}

(* Plausible slip: the run's id is part of what is hashed.                 *)
FreshOwn(r, items) == Hashes(r, items \cap WellFormed)

(* The hashes for which the items make an event.                           *)
Fresh(r, items) == Hashes(r, items \cap WellFormed) \ hashes

(* A dry run leaves nothing behind.                                        *)
Keep(r, items) ==
  IF run[r].dry THEN UNCHANGED <<hashes, events>>
  ELSE /\ hashes' = hashes \cup Fresh(r, items)
       /\ events' = [h \in Hash |-> events[h] + IF h \in Fresh(r, items) THEN 1 ELSE 0]

(* Plausible slip: duplicates are forgotten when the run is judged.        *)
StatusOfNew(r, items) ==
  IF items \subseteq WellFormed THEN "SUCCESS"
  ELSE IF Fresh(r, items) # {} THEN "PARTIAL"
  ELSE "FAILED"

(* A record that fails validation is counted and passed over.              *)
StatusOf(r, items) ==
  IF items \subseteq WellFormed THEN "SUCCESS"
  ELSE IF Fresh(r, items) # {} THEN "PARTIAL"
  ELSE IF items \cap WellFormed = {} THEN "FAILED"
  ELSE "SUCCESS"

(* Plausible slip: earlier failures stay on the record.                    *)
HealedNot(o) == obj[o]

Healed(o) == [obj[o] EXCEPT !.failures = 0]

(* The record the run holds is written back, whatever the registry has.    *)
WriteBack(r, record) ==
  /\ obj' = [obj EXCEPT ![run[r].record] = record]
  /\ held' = [held EXCEPT ![run[r].source] = run[r].record]
  /\ UNCHANGED <<objects, wanted, raced>>

Ended(r, items, status) ==
  [Unused EXCEPT !.stage = "closing", !.source = run[r].source, !.dry = run[r].dry,
                 !.items = items, !.status = status]

(* How often in a row runs of the source ended so, this one included.      *)
Counted(r, row, so) == [row EXCEPT ![run[r].source] = IF so THEN @ + 1 ELSE 0]

(* A feed of malformed items only fails the run, too, and heals the record. *)
Handle(r, items) ==
  /\ Keep(r, items)
  /\ run' = [run EXCEPT ![r] = Ended(r, items, StatusOf(r, items))]
  /\ WriteBack(r, Healed(run[r].record))
  /\ streak' = Counted(r, streak, StatusOf(r, items) = "FAILED")
  /\ unfed' = Counted(r, unfed, FALSE)

Fail(r) ==
  LET o == run[r].record IN
  /\ run' = [run EXCEPT ![r] = Ended(r, {}, "FAILED")]
  /\ WriteBack(r, [obj[o] EXCEPT !.failures = @ + 1])
  /\ streak' = Counted(r, streak, TRUE) /\ unfed' = Counted(r, unfed, TRUE)
  /\ UNCHANGED <<hashes, events>>

(* After the audit entry: a payload handed in is handled, a dry run has    *)
(* none, and a source without address fails.                               *)
Open(r) ==
  /\ run[r].stage = "begun"
  /\ IF run[r].given # None THEN Handle(r, run[r].given)
     ELSE IF run[r].dry THEN Handle(r, {})
     ELSE IF ~obj[run[r].record].config.url THEN Fail(r)
     ELSE /\ run' = [run EXCEPT ![r].stage = "fetch"]
          /\ UNCHANGED <<registry, hashes, events, ends>>

(* An answer without error: its body is read with no timer running.        *)
Answered(r) ==
  /\ run[r].stage = "fetch"
  /\ run' = [run EXCEPT ![r].stage = "body"]
  /\ UNCHANGED <<registry, hashes, events, ends>>

Fetched(r, items) ==
  /\ run[r].stage = "body"
  /\ Handle(r, items)

(* HTTP 5xx: tried again at once.                                          *)
ServerError(r) ==
  /\ run[r].stage = "fetch"
  /\ IF run[r].attempts + 1 >= Attempts THEN Fail(r)
     ELSE /\ run' = [run EXCEPT ![r].attempts = @ + 1]
          /\ UNCHANGED <<registry, hashes, events, ends>>

(* Plausible slip: an attempt that threw is no attempt.                    *)
AgainFree(r) ==
  /\ run' = [run EXCEPT ![r].stage = "pause"]
  /\ UNCHANGED <<registry, hashes, events, ends>>

(* What was thrown is tried again after a pause.                           *)
Again(r) ==
  IF run[r].attempts + 1 >= Attempts THEN Fail(r)
  ELSE /\ run' = [run EXCEPT ![r].attempts = @ + 1, ![r].stage = "pause"]
       /\ UNCHANGED <<registry, hashes, events, ends>>

(* No connection, no answer in six seconds, HTTP 4xx.                      *)
OtherError(r) == run[r].stage = "fetch" /\ Again(r)

(* The connection breaks, or what came is not JSON.                        *)
BodyFails(r) == run[r].stage = "body" /\ Again(r)

PauseOver(r) ==
  /\ run[r].stage = "pause"
  /\ run' = [run EXCEPT ![r].stage = "fetch"]
  /\ UNCHANGED <<registry, hashes, events, ends>>

(* The second audit entry.                                                 *)
Close(r) ==
  /\ run[r].stage = "closing"
  /\ run' = [run EXCEPT ![r].stage = "done"]
  /\ UNCHANGED <<registry, hashes, events, ends>>

(* What a timer or the program itself brings about.                        *)
Timed(r) ==
  Open(r) \/ Answered(r) \/ ServerError(r) \/ OtherError(r) \/ PauseOver(r) \/ Close(r)

Body(r) == BodyFails(r) \/ \E items \in Feed : Fetched(r, items)

Go(r) == Timed(r) \/ Body(r)

Next ==
  \/ \E s \in Source, c \in Config : Register(s, c) \/ Update(s, c)
  \/ \E r \in Run, s \in Source, dry, force \in BOOLEAN, given \in Feed \cup {None} :
       Begin(r, s, dry, force, given)
  \/ \E r \in Run : Go(r)

Spec == Init /\ [][Next]_vars

(* A run goes on: a fetch is answered, fails or is aborted after six       *)
(* seconds, and timers fire.  Nothing is assumed of a body, which the      *)
(* abort no longer covers.                                                 *)
FairSpec == Spec /\ \A r \in Run : WF_vars(Timed(r))

-----------------------------------------------------------------------------
(* Properties. *)

(* No two events are made of one hash, by overlapping runs neither, and    *)
(* nothing is taken for a duplicate without an event being there.          *)
OncePerKey == \A h \in Hash : events[h] = IF h \in hashes THEN 1 ELSE 0

(* What a run reports is what readers find: after SUCCESS every            *)
(* well-formed item of the feed has an event, made by this run or an       *)
(* earlier one, and after FAILED nothing was taken from it.                *)
RunsTellTruth ==
  \A r \in Run : run[r].stage \in {"closing", "done"} /\ ~run[r].dry =>
    /\ run[r].status # "RUNNING"
    /\ \A i \in run[r].items \cap WellFormed : events[<<run[r].source, KeyOf[i]>>] > 0
    /\ run[r].status = "FAILED" => run[r].items \cap WellFormed = {}

(* The registry shows a source as last configured, and as failures the     *)
(* runs in a row that ended without a payload, however runs overlap: never *)
(* more than the runs in a row that reported FAILED, but fewer if one of   *)
(* them had a payload.  Not so for a source updated during a run, whose    *)
(* old record then comes back.                                             *)
SourceTrue ==
  \A s \in Source \ raced : held[s] # None =>
    /\ obj[held[s]] = [config |-> wanted[s], failures |-> unfed[s]]
    /\ unfed[s] <= streak[s]

(* The counter is that of the runs in a row that failed, as                *)
(* docs/ner-data-ingestion-architecture.md:108 has it.  False: a feed of   *)
(* malformed items only fails the run and sets the counter to 0.           *)
FailuresCounted ==
  \A s \in Source \ raced : held[s] # None => obj[held[s]].failures = streak[s]

(* A run ends unless a body it reads neither arrives nor breaks off.       *)
RunsEnd ==
  \A r \in Run :
    (run[r].stage = "body" ~> run[r].stage # "body")
      => (run[r].stage = "begun" ~> run[r].stage = "done")
=============================================================================
