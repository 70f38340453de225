------------------------------ MODULE Triggers ------------------------------
(***************************************************************************)
(* How runs come to be: workflow_definitions.py publishes and archives     *)
(* versions, execution_starts.py accepts a run under an idempotency key,   *)
(* and three parties ask for one: clients, the deliveries of a webhook     *)
(* (webhooks.py) and the ticks of a schedule (schedules.py).               *)
(*                                                                         *)
(* Transactions read committed rows and lock those they decide on.  One    *)
(* that holds its lock from its first decision to its commit is one action *)
(* here.  The start of a client is three: it looks for its receipt before  *)
(* it waits for the definition, and may die or meet others in between.     *)
(* The nested start of a webhook or a schedule holds the row of its        *)
(* trigger all along, under which its key is the only one of its kind.     *)
(*                                                                         *)
(* What only decides whether a request goes on is left to choice: payloads, *)
(* signatures and their rotation, service principals.  So is the            *)
(* configuration of the triggers, which anybody may edit, pause and resume  *)
(* between any two of their transactions; an edit counts where it resets    *)
(* the pending tick of the schedule.                                        *)
(***************************************************************************)
EXTENDS Integers, Sequences, FiniteSets

CONSTANTS
  Definitions,   \* workflow_definitions
  Clients,       \* requests of clients in flight
  Keys,          \* idempotency keys that clients use
  Events,        \* event ids of deliveries to the webhook
  Target,        \* the definition that webhook and schedule start
  Ticks,         \* moments at which the cron expression is due
  MaxTime,       \* bound: the clock stops here
  MaxRevision,   \* bound: the draft revision of each definition
  MaxRuns        \* bound: runs of all kinds

Published == 0   \* version_policy "published": the selection names no version
Never == MaxTime + 1

ASSUME DefinitionAssumption ==
  /\ Target \in Definitions
  /\ MaxRevision \in [Definitions -> Nat \ {0}]
ASSUME TimeAssumption == MaxTime \in Nat /\ Ticks \subseteq 0..MaxTime

VARIABLES
  definitions,   \* drafts by revision, the published version, the versions
  runs,          \* workflow_executions with their execution_starts receipts
  requests,      \* what each client's request holds in its transaction
  deliveries,    \* webhook_deliveries by event
  schedule,      \* workflow_schedules: next_fire_at, active_execution_id
  fires,         \* schedule_fires, in order
  now

vars == <<definitions, runs, requests, deliveries, schedule, fires, now>>

Revision(d) == Len(definitions[d].drafts)
Versions(d) == DOMAIN definitions[d].versions

-----------------------------------------------------------------------------
(* Definitions.  An editor saves, publishes or archives what it has loaded  *)
(* at some revision, however long ago.                                      *)

\* Fault: a transaction does not wait for the lock of the definition.
LockIgnored(d) == FALSE
\* definition(lock=True): a client's start holds the row.
Locked(d) ==
  \E c \in Clients :
    requests[c].phase = "holding" /\ requests[c].definition = d

Current(d, seen) ==
  /\ ~Locked(d)
  /\ seen = Revision(d)
  /\ ~definitions[d].archived
  /\ Revision(d) < MaxRevision[d]

SaveDraft(d, seen) ==
  /\ Current(d, seen)
  /\ definitions' = [definitions EXCEPT ![d].drafts = Append(@, Len(@) + 1)]
  /\ UNCHANGED <<runs, requests, deliveries, schedule, fires, now>>

\* Publication and archival raise the revision too, over the same draft.
NextRevision(d) == Append(definitions[d].drafts, definitions[d].drafts[Revision(d)])

Publish(d, seen) ==
  /\ Current(d, seen)
  /\ definitions' = [definitions EXCEPT
       ![d].drafts = NextRevision(d),
       ![d].published = Len(definitions[d].versions) + 1,
       ![d].versions = Append(@, [graph |-> definitions[d].drafts[Revision(d)],
                                  reviewed |-> definitions[d].drafts[seen],
                                  archived |-> FALSE])]
  /\ UNCHANGED <<runs, requests, deliveries, schedule, fires, now>>

ArchiveVersion(d, seen) ==
  /\ Current(d, seen)
  /\ \E v \in Versions(d) :
       definitions' = [definitions EXCEPT
         ![d].drafts = NextRevision(d),
         ![d].published = IF @ = v THEN 0 ELSE @,
         ![d].versions[v].archived = TRUE]
  /\ UNCHANGED <<runs, requests, deliveries, schedule, fires, now>>

ArchiveDefinition(d, seen) ==
  /\ Current(d, seen)
  /\ definitions' = [definitions EXCEPT
       ![d].drafts = NextRevision(d), ![d].published = 0, ![d].archived = TRUE]
  /\ UNCHANGED <<runs, requests, deliveries, schedule, fires, now>>

-----------------------------------------------------------------------------
(* Starts. *)

Resolved(d, selection) ==
  IF selection = Published THEN definitions[d].published ELSE selection

\* require_runnable_version
Runnable(d, v) ==
  /\ v \in Versions(d)
  /\ ~definitions[d].archived
  /\ ~definitions[d].versions[v].archived

MayStart(d, selection) ==
  Runnable(d, Resolved(d, selection)) /\ Len(runs) < MaxRuns

\* The receipt keeps the fingerprint of what was asked, not of the version
\* it was resolved to.
NewRun(by, id, d, selection, v) ==
  [by |-> by, id |-> id, definition |-> d, selection |-> selection,
   version |-> v, live |-> TRUE]

Receipts(by, id) == {i \in DOMAIN runs : runs[i].by = by /\ runs[i].id = id}

\* Fault: a key is enough to be given the run that it names.
KeyAccepted(i, d, selection) == TRUE
\* existing_start: the same key for another request is refused.
SameRequest(i, d, selection) ==
  runs[i].definition = d /\ runs[i].selection = selection

NoRequest ==
  [phase |-> "idle", id |-> 0, definition |-> Target, selection |-> 0, version |-> 0]
Answered(k, d, selection, i) ==
  IF SameRequest(i, d, selection)
  THEN [phase |-> "answered", id |-> k, definition |-> d, selection |-> selection,
        version |-> i]
  ELSE NoRequest

\* The first look for a receipt, before any lock.
Ask(c, k, d, selection) ==
  /\ requests[c].phase = "idle"
  /\ \/ /\ Receipts("client", k) = {}
        /\ requests' = [requests EXCEPT ![c] = [NoRequest EXCEPT
             !.phase = "asking", !.id = k, !.definition = d, !.selection = selection]]
     \/ \E i \in Receipts("client", k) :
          requests' = [requests EXCEPT ![c] = Answered(k, d, selection, i)]
  /\ UNCHANGED <<definitions, runs, deliveries, schedule, fires, now>>

\* The lock of the definition, the second look, and the version.
Hold(c) ==
  LET r == requests[c]
  IN /\ r.phase = "asking"
     /\ ~Locked(r.definition)
     /\ \/ /\ Receipts("client", r.id) = {}
           /\ MayStart(r.definition, r.selection)
           /\ requests' = [requests EXCEPT ![c].phase = "holding",
                ![c].version = Resolved(r.definition, r.selection)]
        \/ \E i \in Receipts("client", r.id) :
             requests' = [requests EXCEPT ![c] =
                            Answered(r.id, r.definition, r.selection, i)]
     /\ UNCHANGED <<definitions, runs, deliveries, schedule, fires, now>>

\* The commit; or the unique key decides for a start on another definition
\* that came first, and its receipt is read once more.
Accept(c) ==
  LET r == requests[c]
  IN /\ r.phase = "holding"
     /\ Len(runs) < MaxRuns
     /\ \/ /\ Receipts("client", r.id) = {}
           /\ runs' = Append(runs, NewRun("client", r.id, r.definition, r.selection, r.version))
           /\ requests' = [requests EXCEPT ![c] =
                [r EXCEPT !.phase = "answered", !.version = Len(runs) + 1]]
        \/ \E i \in Receipts("client", r.id) :
             /\ requests' = [requests EXCEPT ![c] =
                               Answered(r.id, r.definition, r.selection, i)]
             /\ UNCHANGED runs
     /\ UNCHANGED <<definitions, deliveries, schedule, fires, now>>

\* The request is refused, or its process or connection dies: all is rolled
\* back.  An answer that has been read, or lost, makes room for a repetition.
Leave(c) ==
  /\ requests[c].phase # "idle"
  /\ requests' = [requests EXCEPT ![c] = NoRequest]
  /\ UNCHANGED <<definitions, runs, deliveries, schedule, fires, now>>

-----------------------------------------------------------------------------
(* Webhook. *)

\* The published version or any pinned one: validate_config held when the
\* trigger was edited and may not any more.
Selections == {Published} \cup Versions(Target)

\* An event that is known with other bytes is a conflict, one that was
\* accepted is acknowledged again: neither changes anything but a count.
Fresh(e) == deliveries[e].status # "accepted" /\ ~Locked(Target)

ReceiveAccepted(e, s) ==
  /\ Fresh(e)
  /\ MayStart(Target, s)
  /\ LET v == Resolved(Target, s)
     IN /\ runs' = Append(runs, NewRun("webhook", e, Target, s, v))
        /\ deliveries' = [deliveries EXCEPT ![e] =
             [status |-> "accepted", run |-> Len(runs) + 1, version |-> v]]
  /\ UNCHANGED <<definitions, requests, schedule, fires, now>>

\* The payload does not map, or the workflow cannot be started; the delivery
\* may come again.
ReceiveRejected(e) ==
  /\ Fresh(e)
  /\ deliveries' = [deliveries EXCEPT ![e].status = "rejected"]
  /\ UNCHANGED <<definitions, runs, requests, schedule, fires, now>>

-----------------------------------------------------------------------------
(* Schedule. *)

\* next_fire: the first tick strictly after t.
NextTick(t) ==
  IF \E k \in Ticks : k > t
  THEN CHOOSE k \in Ticks : k > t /\ \A h \in Ticks : h > t => k <= h
  ELSE Never

\* update: any edit but of the name and of enabled resets the pending tick.
ResetTick ==
  /\ schedule' = [schedule EXCEPT !.next = NextTick(now)]
  /\ UNCHANGED <<definitions, runs, requests, deliveries, fires, now>>

\* fire_schedule under its lock.  The scan that named the schedule may be
\* stale, of this worker or of another.
Due == schedule.next <= now

\* Fault: every missed tick is made up for, one by one.
NextOfTick == NextTick(schedule.next)
\* Missed ticks are coalesced into one.
NextDue == NextTick(now)

Fired(status, run) ==
  /\ fires' = Append(fires, [scheduled |-> schedule.next, decided |-> now,
                             status |-> status, run |-> run])
  /\ schedule' = [schedule EXCEPT !.next = NextDue,
                                  !.active = IF status = "accepted" THEN run ELSE @]
  /\ UNCHANGED <<definitions, requests, deliveries, now>>

Overlaps == schedule.active # 0 /\ runs[schedule.active].live

FireSkipped ==
  /\ Due
  /\ Overlaps
  /\ Fired("skipped", 0)
  /\ UNCHANGED runs

FireAccepted(s) ==
  /\ Due
  /\ ~Overlaps
  /\ ~Locked(Target)
  /\ MayStart(Target, s)
  /\ runs' = Append(runs, NewRun("schedule", Len(fires) + 1, Target, s, Resolved(Target, s)))
  /\ Fired("accepted", Len(runs) + 1)

\* The principal, the input or the workflow is not available any more.
FireRejected ==
  /\ Due
  /\ ~Locked(Target)
  /\ Fired("rejected", 0)
  /\ UNCHANGED runs

-----------------------------------------------------------------------------
\* The engine ends a run.
EndRun(i) ==
  /\ runs[i].live
  /\ runs' = [runs EXCEPT ![i].live = FALSE]
  /\ UNCHANGED <<definitions, requests, deliveries, schedule, fires, now>>

Tick ==
  /\ now < MaxTime
  /\ now' = now + 1
  /\ UNCHANGED <<definitions, runs, requests, deliveries, schedule, fires>>

\* Definitions as create_definition leaves them, and a trigger of each kind.
Init ==
  /\ definitions = [d \in Definitions |->
       [drafts |-> <<1>>, archived |-> FALSE, published |-> 0, versions |-> <<>>]]
  /\ runs = <<>>
  /\ requests = [c \in Clients |-> NoRequest]
  /\ deliveries = [e \in Events |->
       [status |-> "absent", run |-> 0, version |-> 0]]
  /\ now = 0
  /\ schedule = [next |-> NextTick(0), active |-> 0]
  /\ fires = <<>>

Next ==
  \/ \E d \in Definitions : \E seen \in 1..Revision(d) :
       \/ SaveDraft(d, seen) \/ Publish(d, seen)
       \/ ArchiveVersion(d, seen) \/ ArchiveDefinition(d, seen)
  \/ \E c \in Clients :
       \/ \E k \in Keys, d \in Definitions :
            \E s \in {Published} \cup Versions(d) : Ask(c, k, d, s)
       \/ Hold(c) \/ Accept(c) \/ Leave(c)
  \/ \E e \in Events :
       ReceiveRejected(e) \/ \E s \in Selections : ReceiveAccepted(e, s)
  \/ \E s \in Selections : FireAccepted(s)
  \/ FireSkipped \/ FireRejected \/ ResetTick
  \/ \E i \in DOMAIN runs : EndRun(i)
  \/ Tick

Spec == Init /\ [][Next]_vars

-----------------------------------------------------------------------------
(* Properties. *)

\* There is one run for each occasion and one occasion for each run: no two
\* runs share a key; a client is only ever answered with the run of its own
\* request; the accepted deliveries and the accepted ticks are exactly the
\* runs that name them, and at the version they name.
OneRunPerOccasion ==
  /\ \A i, j \in DOMAIN runs :
       runs[i].by = runs[j].by /\ runs[i].id = runs[j].id => i = j
  /\ \A c \in Clients :
       requests[c].phase = "answered" =>
         LET r == runs[requests[c].version]
         IN /\ r.by = "client" /\ r.id = requests[c].id
            /\ r.definition = requests[c].definition
            /\ r.selection = requests[c].selection
  /\ \A e \in Events :
       Receipts("webhook", e) =
         IF deliveries[e].status = "accepted" THEN {deliveries[e].run} ELSE {}
  /\ \A e \in Events :
       deliveries[e].status = "accepted" =>
         runs[deliveries[e].run].version = deliveries[e].version
  /\ \A f \in DOMAIN fires :
       Receipts("schedule", f) =
         IF fires[f].status = "accepted" THEN {fires[f].run} ELSE {}

\* A schedule decides every tick once and late ticks together: none before it
\* is due, none that was due when an earlier one was decided.  And whatever
\* is edited, paused or resumed meanwhile, its runs never overlap.
TicksCoalesce ==
  /\ \A f \in DOMAIN fires :
       /\ fires[f].scheduled <= fires[f].decided
       /\ f > 1 => fires[f - 1].decided < fires[f].scheduled
  /\ \A i, j \in {k \in DOMAIN runs : runs[k].by = "schedule" /\ runs[k].live} : i = j

\* At the moment a run is accepted its version can be run and is the one that
\* was asked for, the published one if none was named; and what is published
\* is the draft that its publisher has seen.
StartsAsPublished ==
  [][/\ \A i \in DOMAIN runs' \ DOMAIN runs :
          LET r == runs'[i]
          IN /\ Runnable(r.definition, r.version)
             /\ r.version = Resolved(r.definition, r.selection)
     /\ \A d \in Definitions : \A v \in DOMAIN definitions'[d].versions :
          LET version == definitions'[d].versions[v]
          IN version.graph = version.reviewed]_vars
-----------------------------------------------------------------------------
(* The inductive invariant of the proofs (Triggers_proofs). *)

VersionType == [graph : Nat, reviewed : Nat, archived : BOOLEAN]
DefinitionType ==
  [drafts : Seq(Nat), archived : BOOLEAN, published : Nat, versions : Seq(VersionType)]
RunType ==
  [by : {"client", "webhook", "schedule"}, id : Keys \cup Events \cup Nat,
   definition : Definitions, selection : Nat, version : Nat, live : BOOLEAN]
RequestType ==
  [phase : {"idle", "asking", "holding", "answered"}, id : Keys \cup {0},
   definition : Definitions, selection : Nat, version : Nat]
DeliveryType == [status : {"absent", "accepted", "rejected"}, run : Nat, version : Nat]
FireType ==
  [scheduled : Nat, decided : Nat, status : {"accepted", "skipped", "rejected"}, run : Nat]
TypeOK ==
  /\ definitions \in [Definitions -> DefinitionType]
  /\ runs \in Seq(RunType)
  /\ requests \in [Clients -> RequestType]
  /\ deliveries \in [Events -> DeliveryType]
  /\ schedule \in [next : Nat, active : Nat]
  /\ fires \in Seq(FireType)
  /\ now \in 0..MaxTime

\* What is named is there, and a tick to come has no run yet.
NamesHold ==
  /\ \A c \in Clients :
       /\ requests[c].phase # "idle" => requests[c].id \in Keys
       /\ requests[c].phase = "answered" => requests[c].version \in DOMAIN runs
  /\ \A i \in DOMAIN runs : runs[i].by = "schedule" => runs[i].id \in DOMAIN fires

\* A live run of the schedule is the one that it remembers.
ScheduleRemembers ==
  /\ schedule.active \in DOMAIN runs \cup {0}
  /\ \A i \in DOMAIN runs : runs[i].by = "schedule" /\ runs[i].live => i = schedule.active

\* The next tick is later than all decisions.
ScheduleAhead ==
  \A f \in DOMAIN fires : fires[f].decided <= now /\ fires[f].decided < schedule.next

\* What a start has found under the lock is so until it commits.
HeldIsRunnable ==
  \A c \in Clients :
    requests[c].phase = "holding" =>
      /\ Runnable(requests[c].definition, requests[c].version)
      /\ requests[c].version = Resolved(requests[c].definition, requests[c].selection)

\* Every version is the draft that its publisher has seen.
VersionsReviewed ==
  \A d \in Definitions : \A v \in Versions(d) :
    definitions[d].versions[v].graph = definitions[d].versions[v].reviewed

IInv ==
  /\ TypeOK /\ NamesHold /\ ScheduleRemembers /\ ScheduleAhead
  /\ HeldIsRunnable /\ VersionsReviewed
  /\ OneRunPerOccasion /\ TicksCoalesce
=============================================================================
