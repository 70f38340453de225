--------------------------- MODULE Triggers_proofs ---------------------------
(***************************************************************************)
(* Theorems about Triggers, for any definitions, clients, keys, events,    *)
(* ticks and bounds.                                                       *)
(***************************************************************************)
EXTENDS Triggers, SequenceTheorems, FiniteSetTheorems, WellFoundedInduction, TLAPS

-----------------------------------------------------------------------------
(* Positions and lists. *)

\* A set of naturals that is not empty has a first one.
LEMMA FirstExists ==
  ASSUME NEW n \in Nat, NEW S \in SUBSET (0..n), S # {}
  PROVE  \E m \in S : \A j \in S : m <= j
<1> DEFINE R == {p \in Nat \X Nat : p[1] < p[2]}
<1>1. IsWellFoundedOn(R, Nat)
  BY NatLessThanWellFounded, Zenon DEF OpToRel
<1>2. PICK m \in S : \A j \in S : <<j, m>> \notin R
  <2> HIDE DEF R
  <2> QED BY <1>1, WFMin, \A k \in S : k \in Nat
<1>3. ASSUME NEW j \in S, j < m PROVE FALSE
  <2>1. <<j, m>> \in Nat \X Nat /\ <<j, m>>[1] < <<j, m>>[2]
    BY <1>3
  <2> QED BY <2>1, <1>2, Zenon
<1> QED BY <1>3

\* A list with one more element.
LEMMA Appended ==
  ASSUME NEW S, NEW list \in Seq(S), NEW e \in S, NEW new, new = Append(list, e)
  PROVE  /\ new \in Seq(S) /\ Len(list) \in Nat /\ Len(new) = Len(list) + 1
         /\ DOMAIN list = 1..Len(list) /\ DOMAIN new = 1..(Len(list) + 1)
         /\ \A i \in DOMAIN list : new[i] = list[i]
         /\ new[Len(list) + 1] = e
<1>1. Len(list) \in Nat /\ DOMAIN list = 1..Len(list)
  BY LenProperties
<1>2. /\ new \in Seq(S) /\ Len(new) = Len(list) + 1
      /\ \A i \in 1..Len(list) : new[i] = list[i]
      /\ new[Len(list) + 1] = e
  BY AppendProperties
<1>3. DOMAIN new = 1..Len(new)
  BY <1>2, LenProperties
<1> QED BY <1>1, <1>2, <1>3

-----------------------------------------------------------------------------
\* What the types say of the lists.
LEMMA Lists ==
  ASSUME TypeOK
  PROVE  /\ Len(runs) \in Nat /\ DOMAIN runs = 1..Len(runs)
         /\ \A i \in DOMAIN runs : runs[i] \in RunType
         /\ Len(fires) \in Nat /\ DOMAIN fires = 1..Len(fires)
         /\ \A f \in DOMAIN fires : fires[f] \in FireType
<1>1. runs \in Seq(RunType) /\ fires \in Seq(FireType)
  BY DEF TypeOK
<1>2. /\ Len(runs) \in Nat /\ DOMAIN runs = 1..Len(runs)
      /\ \A i \in DOMAIN runs : runs[i] \in RunType
  BY <1>1, LenProperties, ElementOfSeq
<1>3. /\ Len(fires) \in Nat /\ DOMAIN fires = 1..Len(fires)
      /\ \A f \in DOMAIN fires : fires[f] \in FireType
  BY <1>1, LenProperties, ElementOfSeq
<1> QED BY <1>2, <1>3

\* The next tick is later than now, whatever ticks there are.
LEMMA NextTickIsLater ==
  ASSUME NEW t \in 0..MaxTime
  PROVE  NextTick(t) \in Nat /\ NextTick(t) > t
<1> DEFINE later == {k \in Ticks : k > t}
<1>1. MaxTime \in Nat /\ later \in SUBSET (0..MaxTime)
  BY TimeAssumption
<1>2. CASE later = {}
  BY <1>1, <1>2 DEF NextTick, Never
<1>3. CASE later # {}
  <2>1. \E m \in later : \A j \in later : m <= j
    <3> HIDE DEF later
    <3> QED BY <1>1, <1>3, FirstExists
  <2>2. PICK m \in Ticks : m > t /\ \A h \in Ticks : h > t => m <= h
    BY <2>1
  <2>3. NextTick(t) \in Ticks /\ NextTick(t) > t
    <3>1. NextTick(t) = CHOOSE k \in Ticks : k > t /\ \A h \in Ticks : h > t => k <= h
      BY <2>2 DEF NextTick
    <3> QED BY <2>2, <3>1, Zenon
  <2> QED BY <1>1, <2>3, TimeAssumption
<1> QED BY <1>2, <1>3

-----------------------------------------------------------------------------
(* Definitions. *)

\* A definition that nobody holds is another one, its versions reviewed.
LEMMA DefinitionInv ==
  ASSUME IInv, NEW d \in Definitions, ~Locked(d), NEW new \in DefinitionType,
         definitions' = [definitions EXCEPT ![d] = new],
         \A v \in DOMAIN new.versions : new.versions[v].graph = new.versions[v].reviewed,
         UNCHANGED <<runs, requests, deliveries, schedule, fires, now>>
  PROVE  IInv'
<1>1. /\ TypeOK /\ NamesHold /\ ScheduleRemembers /\ ScheduleAhead /\ HeldIsRunnable
      /\ VersionsReviewed /\ OneRunPerOccasion /\ TicksCoalesce
  BY DEF IInv
<1>2. TypeOK'
  BY <1>1 DEF TypeOK
<1>3. NamesHold' /\ ScheduleRemembers' /\ ScheduleAhead' /\ TicksCoalesce'
  BY <1>1 DEF NamesHold, ScheduleRemembers, ScheduleAhead, TicksCoalesce
<1>4. OneRunPerOccasion'
  BY <1>1 DEF OneRunPerOccasion, Receipts
<1>5. HeldIsRunnable'
  <2> SUFFICES ASSUME NEW c \in Clients, requests[c].phase = "holding"
               PROVE  /\ Runnable(requests[c].definition, requests[c].version)'
                      /\ requests[c].version =
                           Resolved(requests[c].definition, requests[c].selection)'
    BY DEF HeldIsRunnable
  <2>1. requests[c].definition \in Definitions /\ requests[c].definition # d
    BY <1>1 DEF Locked, TypeOK, RequestType
  <2>2. definitions'[requests[c].definition] = definitions[requests[c].definition]
    BY <1>1, <2>1 DEF TypeOK
  <2> QED BY <1>1, <2>2 DEF HeldIsRunnable, Runnable, Resolved, Versions
<1>6. VersionsReviewed'
  BY <1>1 DEF VersionsReviewed, Versions, TypeOK
<1> QED BY <1>2, <1>3, <1>4, <1>5, <1>6 DEF IInv

\* One more draft, the one that it was before or the one that is saved.
LEMMA Drafted ==
  ASSUME TypeOK, NEW d \in Definitions, NEW seen, Current(d, seen), seen \in 1..Revision(d)
  PROVE  /\ seen = Revision(d) /\ ~Locked(d)
         /\ definitions[d] \in DefinitionType
         /\ definitions[d].drafts[seen] \in Nat
         /\ NextRevision(d) \in Seq(Nat)
         /\ Append(definitions[d].drafts, Len(definitions[d].drafts) + 1) \in Seq(Nat)
<1>1. seen = Revision(d) /\ ~Locked(d) /\ definitions[d] \in DefinitionType
  BY DEF Current, TypeOK
<1>2. PICK drafts \in Seq(Nat) : drafts = definitions[d].drafts
  BY <1>1 DEF DefinitionType
<1>3. Len(drafts) \in Nat /\ Len(drafts) + 1 \in Nat /\ seen = Len(drafts)
  BY <1>1, <1>2, LenProperties DEF Revision
<1>4. drafts[seen] \in Nat
  BY <1>2, <1>3, ElementOfSeq DEF Revision
<1> QED BY <1>1, <1>2, <1>3, <1>4, AppendProperties DEF NextRevision, Revision

\* An editor saves, publishes or archives.
LEMMA EditorInv ==
  ASSUME IInv, NEW d \in Definitions, NEW seen \in 1..Revision(d),
         \/ SaveDraft(d, seen) \/ Publish(d, seen)
         \/ ArchiveVersion(d, seen) \/ ArchiveDefinition(d, seen)
  PROVE  IInv'
<1>1. TypeOK /\ VersionsReviewed
  BY DEF IInv
<1>2. Current(d, seen)
  BY DEF SaveDraft, Publish, ArchiveVersion, ArchiveDefinition
<1>3. /\ seen = Revision(d) /\ ~Locked(d) /\ definitions[d] \in DefinitionType
      /\ definitions[d].drafts[seen] \in Nat /\ NextRevision(d) \in Seq(Nat)
      /\ Append(definitions[d].drafts, Len(definitions[d].drafts) + 1) \in Seq(Nat)
  BY <1>1, <1>2, Drafted
<1>4. PICK old : old = definitions[d]
  OBVIOUS
<1>5. /\ old \in DefinitionType /\ old.versions \in Seq(VersionType)
      /\ Len(old.versions) \in Nat /\ DOMAIN old.versions = 1..Len(old.versions)
      /\ \A v \in DOMAIN old.versions :
           /\ old.versions[v] \in VersionType
           /\ old.versions[v].graph = old.versions[v].reviewed
  <2>1. old \in DefinitionType /\ old.versions \in Seq(VersionType)
    BY <1>3, <1>4 DEF DefinitionType
  <2>2. /\ Len(old.versions) \in Nat /\ DOMAIN old.versions = 1..Len(old.versions)
        /\ \A v \in DOMAIN old.versions : old.versions[v] \in VersionType
    BY <2>1, LenProperties, ElementOfSeq
  <2> QED BY <1>1, <1>4, <2>1, <2>2 DEF VersionsReviewed, Versions
<1>6. UNCHANGED <<runs, requests, deliveries, schedule, fires, now>>
  BY DEF SaveDraft, Publish, ArchiveVersion, ArchiveDefinition
<1>7. CASE SaveDraft(d, seen)
  <2>1. PICK new : new = [old EXCEPT !.drafts = Append(@, Len(@) + 1)]
    OBVIOUS
  <2>2. new \in DefinitionType /\ new.versions = old.versions
    BY <1>3, <1>4, <1>5, <2>1 DEF DefinitionType
  <2>3. definitions' = [definitions EXCEPT ![d] = new]
    BY <1>4, <1>7, <2>1 DEF SaveDraft
  <2> QED BY <1>3, <1>5, <1>6, <2>2, <2>3, DefinitionInv
<1>8. CASE Publish(d, seen)
  <2>1. PICK version : version = [graph |-> old.drafts[Revision(d)],
                                  reviewed |-> old.drafts[seen], archived |-> FALSE]
    OBVIOUS
  <2>2. version \in VersionType /\ version.graph = version.reviewed
    BY <1>3, <1>4, <2>1 DEF VersionType
  <2>3. PICK versions : versions = Append(old.versions, version)
    OBVIOUS
  <2>4. /\ versions \in Seq(VersionType) /\ DOMAIN versions = 1..(Len(old.versions) + 1)
        /\ \A v \in DOMAIN old.versions : versions[v] = old.versions[v]
        /\ versions[Len(old.versions) + 1] = version
    BY <1>5, <2>2, <2>3, Appended
  <2>5. \A v \in DOMAIN versions : versions[v].graph = versions[v].reviewed
    BY <1>5, <2>2, <2>4
  <2>6. PICK published \in Nat : published = Len(old.versions) + 1
    BY <1>5
  <2>7. PICK new : new = [old EXCEPT !.drafts = NextRevision(d), !.published = published,
                                     !.versions = versions]
    OBVIOUS
  <2>8. new \in DefinitionType /\ new.versions = versions
    BY <1>3, <1>5, <2>4, <2>6, <2>7 DEF DefinitionType
  <2>9. definitions' = [definitions EXCEPT ![d] = new]
    BY <1>1, <1>4, <1>8, <2>1, <2>3, <2>6, <2>7 DEF Publish, TypeOK
  <2> QED BY <1>3, <1>6, <2>5, <2>8, <2>9, DefinitionInv
<1>9. CASE ArchiveVersion(d, seen)
  <2>1. PICK v \in Versions(d) :
          definitions' = [definitions EXCEPT
            ![d].drafts = NextRevision(d),
            ![d].published = IF @ = v THEN 0 ELSE @,
            ![d].versions[v].archived = TRUE]
    BY <1>9 DEF ArchiveVersion
  <2>2. PICK version, versions :
          /\ version = [old.versions[v] EXCEPT !.archived = TRUE]
          /\ versions = [old.versions EXCEPT ![v] = version]
    OBVIOUS
  <2>3. v \in DOMAIN old.versions
    BY <1>4 DEF Versions
  <2>4. version \in VersionType /\ version.graph = version.reviewed
    BY <1>5, <2>2, <2>3 DEF VersionType
  <2>5. versions \in Seq(VersionType) /\ DOMAIN versions = DOMAIN old.versions
        /\ \A u \in DOMAIN versions : versions[u] = IF u = v THEN version ELSE old.versions[u]
    BY <1>5, <2>2, <2>3, <2>4, ExceptSeq
  <2>6. \A u \in DOMAIN versions : versions[u].graph = versions[u].reviewed
    BY <1>5, <2>4, <2>5
  <2>7. PICK published \in Nat : published = IF old.published = v THEN 0 ELSE old.published
    BY <1>5 DEF DefinitionType
  <2>8. PICK new : new = [old EXCEPT !.drafts = NextRevision(d), !.published = published,
                                     !.versions = versions]
    OBVIOUS
  <2>9. new \in DefinitionType /\ new.versions = versions
    BY <1>3, <1>5, <2>5, <2>7, <2>8 DEF DefinitionType
  <2>10. definitions' = [definitions EXCEPT ![d] = new]
    BY <1>1, <1>4, <1>5, <2>1, <2>2, <2>7, <2>8 DEF TypeOK, DefinitionType
  <2> QED BY <1>3, <1>6, <2>6, <2>9, <2>10, DefinitionInv
<1>10. CASE ArchiveDefinition(d, seen)
  <2>1. PICK new : new = [old EXCEPT !.drafts = NextRevision(d), !.published = 0,
                                     !.archived = TRUE]
    OBVIOUS
  <2>2. new \in DefinitionType /\ new.versions = old.versions
    BY <1>3, <1>5, <2>1 DEF DefinitionType
  <2>3. definitions' = [definitions EXCEPT ![d] = new]
    BY <1>1, <1>4, <1>10, <2>1 DEF ArchiveDefinition, TypeOK
  <2> QED BY <1>3, <1>5, <1>6, <2>2, <2>3, DefinitionInv
<1> QED BY <1>7, <1>8, <1>9, <1>10

-----------------------------------------------------------------------------
(* Requests of clients. *)

\* What a request may hold or be answered with.
Honest(q) ==
  /\ q \in RequestType
  /\ q.phase # "idle" => q.id \in Keys
  /\ q.phase = "answered" =>
       /\ q.version \in DOMAIN runs
       /\ runs[q.version].by = "client" /\ runs[q.version].id = q.id
       /\ runs[q.version].definition = q.definition
       /\ runs[q.version].selection = q.selection
  /\ q.phase = "holding" =>
       Runnable(q.definition, q.version) /\ q.version = Resolved(q.definition, q.selection)

\* One request goes on, honestly.
LEMMA RequestInv ==
  ASSUME IInv, NEW c \in Clients, NEW q, Honest(q),
         requests' = [requests EXCEPT ![c] = q],
         UNCHANGED <<definitions, runs, deliveries, schedule, fires, now>>
  PROVE  IInv'
<1>1. /\ TypeOK /\ NamesHold /\ ScheduleRemembers /\ ScheduleAhead /\ HeldIsRunnable
      /\ VersionsReviewed /\ OneRunPerOccasion /\ TicksCoalesce
  BY DEF IInv
<1>2. \A b \in Clients : requests'[b] = IF b = c THEN q ELSE requests[b]
  BY <1>1 DEF TypeOK
<1>3. TypeOK'
  BY <1>1 DEF TypeOK, Honest
<1>4. ScheduleRemembers' /\ ScheduleAhead' /\ TicksCoalesce' /\ VersionsReviewed'
  BY <1>1 DEF ScheduleRemembers, ScheduleAhead, TicksCoalesce, VersionsReviewed, Versions
<1>5. NamesHold'
  BY <1>1, <1>2 DEF NamesHold, Honest
<1>6. HeldIsRunnable'
  BY <1>1, <1>2 DEF HeldIsRunnable, Honest, Runnable, Resolved, Versions
<1>7. OneRunPerOccasion'
  BY <1>1, <1>2 DEF OneRunPerOccasion, Receipts, Honest
<1> QED BY <1>3, <1>4, <1>5, <1>6, <1>7 DEF IInv

\* A request that is refused, or gone, holds nothing.
LEMMA NoRequestHonest == Honest(NoRequest)
BY DefinitionAssumption DEF Honest, NoRequest, RequestType

\* An answer is the run of the key, if it is one of the same request.
LEMMA AnsweredHonest ==
  ASSUME TypeOK, NEW k \in Keys, NEW d \in Definitions, NEW selection \in Nat,
         NEW i \in Receipts("client", k)
  PROVE  Honest(Answered(k, d, selection, i))
<1>1. i \in DOMAIN runs /\ i \in Nat /\ runs[i].by = "client" /\ runs[i].id = k
  BY Lists DEF Receipts
<1>2. CASE SameRequest(i, d, selection)
  <2>1. PICK q : q = [phase |-> "answered", id |-> k, definition |-> d,
                      selection |-> selection, version |-> i]
    OBVIOUS
  <2>2. q \in RequestType
    BY <1>1, <2>1 DEF RequestType
  <2> QED BY <1>1, <1>2, <2>1, <2>2 DEF Honest, Answered, SameRequest
<1>3. CASE ~SameRequest(i, d, selection)
  BY <1>3, NoRequestHonest DEF Answered
<1> QED BY <1>2, <1>3

\* A request looks for a receipt of its key.
LEMMA AskInv ==
  ASSUME IInv, NEW c \in Clients, NEW k \in Keys, NEW d \in Definitions,
         NEW s \in {Published} \cup Versions(d), Ask(c, k, d, s)
  PROVE  IInv'
<1>1. TypeOK /\ UNCHANGED <<definitions, runs, deliveries, schedule, fires, now>>
  BY DEF IInv, Ask
<1>2. s \in Nat
  <2>1. definitions[d].versions \in Seq(VersionType)
    BY <1>1 DEF TypeOK, DefinitionType
  <2> QED BY <2>1, LenProperties DEF Versions, Published
<1>3. CASE requests' = [requests EXCEPT ![c] = [NoRequest EXCEPT
             !.phase = "asking", !.id = k, !.definition = d, !.selection = s]]
  <2>1. PICK q : q = [NoRequest EXCEPT !.phase = "asking", !.id = k, !.definition = d,
                                       !.selection = s]
    OBVIOUS
  <2>2. q.phase = "asking" /\ q.id = k
    BY <2>1 DEF NoRequest
  <2>3. q \in RequestType
    BY <1>2, <2>1, NoRequestHonest DEF Honest, RequestType
  <2>4. Honest(q)
    BY <2>2, <2>3 DEF Honest
  <2> QED BY <1>1, <1>3, <2>1, <2>4, RequestInv
<1>4. ASSUME NEW i \in Receipts("client", k),
             requests' = [requests EXCEPT ![c] = Answered(k, d, s, i)]
      PROVE  IInv'
  BY <1>1, <1>2, <1>4, AnsweredHonest, RequestInv
<1> QED BY <1>3, <1>4 DEF Ask

\* It finds what it may start, or a receipt.
LEMMA HoldInv ==
  ASSUME IInv, NEW c \in Clients, Hold(c)
  PROVE  IInv'
<1>1. /\ TypeOK /\ UNCHANGED <<definitions, runs, deliveries, schedule, fires, now>>
  BY DEF IInv, Hold
<1>2. PICK r \in RequestType : r = requests[c] /\ r.id \in Keys
  BY <1>1 DEF TypeOK, IInv, NamesHold, Hold
<1>3. r.definition \in Definitions /\ r.selection \in Nat
  BY <1>2 DEF RequestType
<1>4. ASSUME MayStart(r.definition, r.selection),
             requests' = [requests EXCEPT ![c].phase = "holding",
                            ![c].version = Resolved(r.definition, r.selection)]
      PROVE  IInv'
  <2>1. PICK v : v = Resolved(r.definition, r.selection)
    OBVIOUS
  <2>2. v \in Nat /\ Runnable(r.definition, v)
    <3>1. definitions[r.definition].published \in Nat
      BY <1>1, <1>3 DEF TypeOK, DefinitionType
    <3> QED BY <1>3, <1>4, <2>1, <3>1 DEF Resolved, MayStart
  <2>3. PICK q : q = [r EXCEPT !.phase = "holding", !.version = v]
    OBVIOUS
  <2>4. /\ q \in RequestType /\ q.phase = "holding" /\ q.version = v
        /\ q.definition = r.definition /\ q.selection = r.selection /\ q.id = r.id
    BY <1>2, <2>2, <2>3 DEF RequestType
  <2>5. Honest(q)
    BY <1>2, <2>1, <2>2, <2>4 DEF Honest
  <2>6. requests' = [requests EXCEPT ![c] = q]
    BY <1>1, <1>2, <1>4, <2>1, <2>3 DEF TypeOK
  <2> QED BY <1>1, <2>5, <2>6, RequestInv
<1>5. ASSUME NEW i \in Receipts("client", r.id),
             requests' = [requests EXCEPT ![c] = Answered(r.id, r.definition, r.selection, i)]
      PROVE  IInv'
  BY <1>1, <1>2, <1>3, <1>5, AnsweredHonest, RequestInv
<1> QED BY <1>2, <1>4, <1>5 DEF Hold

\* It is refused or gone.
LEMMA LeaveInv ==
  ASSUME IInv, NEW c \in Clients, Leave(c)
  PROVE  IInv'
<1>1. /\ requests' = [requests EXCEPT ![c] = NoRequest]
      /\ UNCHANGED <<definitions, runs, deliveries, schedule, fires, now>>
  BY DEF Leave
<1> QED BY <1>1, NoRequestHonest, RequestInv

-----------------------------------------------------------------------------
(* Runs. *)

\* One more run, and one more receipt.
LEMMA Grown ==
  ASSUME TypeOK, NEW by \in {"client", "webhook", "schedule"},
         NEW id \in Keys \cup Events \cup Nat, NEW d \in Definitions,
         NEW selection \in Nat, NEW version \in Nat, NEW n, n = Len(runs) + 1,
         runs' = Append(runs, NewRun(by, id, d, selection, version))
  PROVE  /\ runs' \in Seq(RunType) /\ n \in Nat /\ n # 0 /\ n \notin DOMAIN runs
         /\ DOMAIN runs' = DOMAIN runs \cup {n}
         /\ \A i \in DOMAIN runs : runs'[i] = runs[i]
         /\ runs'[n] = NewRun(by, id, d, selection, version)
         /\ \A b, k : Receipts(b, k)' =
              Receipts(b, k) \cup (IF b = by /\ k = id THEN {n} ELSE {})
<1>1. PICK run : run = NewRun(by, id, d, selection, version)
  OBVIOUS
<1>2. run \in RunType /\ run.by = by /\ run.id = id
  BY <1>1 DEF NewRun, RunType
<1>3. /\ runs' \in Seq(RunType) /\ Len(runs) \in Nat /\ DOMAIN runs = 1..Len(runs)
      /\ DOMAIN runs' = 1..(Len(runs) + 1)
      /\ \A i \in DOMAIN runs : runs'[i] = runs[i]
      /\ runs'[Len(runs) + 1] = run
  BY <1>1, <1>2, Appended DEF TypeOK
<1>4. n \in Nat /\ n # 0 /\ n \notin DOMAIN runs /\ DOMAIN runs' = DOMAIN runs \cup {n}
  BY <1>3
<1>5. \A b, k : Receipts(b, k)' =
        Receipts(b, k) \cup (IF b = by /\ k = id THEN {n} ELSE {})
  BY <1>2, <1>3, <1>4 DEF Receipts
<1> QED BY <1>1, <1>3, <1>4, <1>5

\* What stays right of the occasions, and of the names, where the key is new.
LEMMA GrownInv ==
  ASSUME IInv, NEW by \in {"client", "webhook", "schedule"},
         NEW id \in Keys \cup Events \cup Nat, NEW d \in Definitions,
         NEW selection \in Nat, NEW version \in Nat, NEW n, n = Len(runs) + 1,
         runs' = Append(runs, NewRun(by, id, d, selection, version)),
         Receipts(by, id) = {}
  PROVE  /\ \A i, j \in DOMAIN runs' :
              runs'[i].by = runs'[j].by /\ runs'[i].id = runs'[j].id => i = j
         /\ \A c \in Clients :
              requests[c].phase = "answered" =>
                /\ requests[c].version \in DOMAIN runs
                /\ LET r == runs'[requests[c].version]
                   IN /\ r.by = "client" /\ r.id = requests[c].id
                      /\ r.definition = requests[c].definition
                      /\ r.selection = requests[c].selection
<1>1. TypeOK /\ OneRunPerOccasion /\ NamesHold
  BY DEF IInv
<1>2. /\ n \notin DOMAIN runs /\ DOMAIN runs' = DOMAIN runs \cup {n}
      /\ \A i \in DOMAIN runs : runs'[i] = runs[i]
      /\ runs'[n] = NewRun(by, id, d, selection, version)
  BY <1>1, Grown
<1>3. runs'[n].by = by /\ runs'[n].id = id
  BY <1>2 DEF NewRun
<1>4. ASSUME NEW i \in DOMAIN runs PROVE ~(runs'[i].by = by /\ runs'[i].id = id)
  BY <1>2 DEF Receipts
<1>5. \A i, j \in DOMAIN runs' :
        runs'[i].by = runs'[j].by /\ runs'[i].id = runs'[j].id => i = j
  BY <1>1, <1>2, <1>3, <1>4 DEF OneRunPerOccasion
<1> QED BY <1>1, <1>2, <1>5 DEF OneRunPerOccasion, NamesHold

\* What is held remains so where no definition changes and nobody else holds.
LEMMA HeldKept ==
  ASSUME HeldIsRunnable, VersionsReviewed, definitions' = definitions,
         \A c \in Clients : requests'[c].phase = "holding" => requests'[c] = requests[c]
  PROVE  HeldIsRunnable' /\ VersionsReviewed'
BY DEF HeldIsRunnable, VersionsReviewed, Runnable, Resolved, Versions

\* A client's start commits, or is answered after all.
LEMMA AcceptInv ==
  ASSUME IInv, NEW c \in Clients, Accept(c)
  PROVE  IInv'
<1>1. /\ TypeOK /\ NamesHold /\ ScheduleRemembers /\ ScheduleAhead /\ HeldIsRunnable
      /\ VersionsReviewed /\ OneRunPerOccasion /\ TicksCoalesce
  BY DEF IInv
<1>2. UNCHANGED <<definitions, deliveries, schedule, fires, now>>
  BY DEF Accept
<1>3. PICK r \in RequestType : r = requests[c] /\ r.id \in Keys /\ r.phase = "holding"
  BY <1>1 DEF TypeOK, Accept, NamesHold
<1>4. r.definition \in Definitions /\ r.selection \in Nat /\ r.version \in Nat
  BY <1>3 DEF RequestType
<1>5. ASSUME NEW i \in Receipts("client", r.id), runs' = runs,
             requests' = [requests EXCEPT ![c] = Answered(r.id, r.definition, r.selection, i)]
      PROVE  IInv'
  BY <1>1, <1>2, <1>3, <1>4, <1>5, AnsweredHonest, RequestInv
<1>6. ASSUME Receipts("client", r.id) = {},
             runs' = Append(runs, NewRun("client", r.id, r.definition, r.selection, r.version)),
             requests' = [requests EXCEPT ![c] =
                            [r EXCEPT !.phase = "answered", !.version = Len(runs) + 1]]
      PROVE  IInv'
  <2>1. PICK n : n = Len(runs) + 1
    OBVIOUS
  <2>2. PICK key \in Keys : key = r.id
    BY <1>3
  <2>3. /\ runs' \in Seq(RunType) /\ n \in Nat /\ n \notin DOMAIN runs
        /\ DOMAIN runs' = DOMAIN runs \cup {n}
        /\ \A i \in DOMAIN runs : runs'[i] = runs[i]
        /\ runs'[n] = NewRun("client", r.id, r.definition, r.selection, r.version)
        /\ \A b, k : Receipts(b, k)' =
             Receipts(b, k) \cup (IF b = "client" /\ k = key THEN {n} ELSE {})
    BY <1>1, <1>4, <1>6, <2>1, <2>2, Grown
  <2>4. PICK q : q = [r EXCEPT !.phase = "answered", !.version = n]
    OBVIOUS
  <2>5. /\ q \in RequestType /\ q.phase = "answered" /\ q.version = n
        /\ q.id = r.id /\ q.definition = r.definition /\ q.selection = r.selection
    BY <1>3, <2>3, <2>4 DEF RequestType
  <2>6. \A b \in Clients : requests'[b] = IF b = c THEN q ELSE requests[b]
    BY <1>1, <1>6, <2>1, <2>4 DEF TypeOK
  <2>7. TypeOK'
    <3>1. requests' = [requests EXCEPT ![c] = q]
      BY <1>6, <2>1, <2>4
    <3> QED BY <1>1, <1>2, <2>3, <2>5, <3>1 DEF TypeOK
  <2>8. HeldIsRunnable' /\ VersionsReviewed'
    BY <1>1, <1>2, <2>5, <2>6, HeldKept
  <2>9. /\ runs'[n].by = "client" /\ runs'[n].id = r.id
        /\ runs'[n].definition = r.definition /\ runs'[n].selection = r.selection
    BY <2>3 DEF NewRun
  <2>10. NamesHold' /\ ScheduleRemembers' /\ ScheduleAhead'
    BY <1>1, <1>2, <1>3, <2>3, <2>5, <2>6, <2>9
       DEF NamesHold, ScheduleRemembers, ScheduleAhead
  <2>11. TicksCoalesce'
    BY <1>1, <1>2, <2>10 DEF TicksCoalesce, ScheduleRemembers
  <2>12. OneRunPerOccasion'
    <3>1. /\ \A i, j \in DOMAIN runs' :
               runs'[i].by = runs'[j].by /\ runs'[i].id = runs'[j].id => i = j
          /\ \A b \in Clients :
               requests[b].phase = "answered" =>
                 /\ runs'[requests[b].version].by = "client"
                 /\ runs'[requests[b].version].id = requests[b].id
                 /\ runs'[requests[b].version].definition = requests[b].definition
                 /\ runs'[requests[b].version].selection = requests[b].selection
      BY <1>4, <1>6, <2>1, <2>2, GrownInv
    <3>2. \A b \in Clients :
            requests'[b].phase = "answered" =>
              LET t == runs'[requests'[b].version]
              IN /\ t.by = "client" /\ t.id = requests'[b].id
                 /\ t.definition = requests'[b].definition
                 /\ t.selection = requests'[b].selection
      BY <2>5, <2>6, <2>9, <3>1
    <3>3. \A k : Receipts("webhook", k)' = Receipts("webhook", k)
                 /\ Receipts("schedule", k)' = Receipts("schedule", k)
      BY <2>3
    <3>4. \A e \in Events :
            deliveries[e].status = "accepted" =>
              runs'[deliveries[e].run].version = deliveries[e].version
      <4> SUFFICES ASSUME NEW e \in Events, deliveries[e].status = "accepted"
                   PROVE  runs'[deliveries[e].run].version = deliveries[e].version
        OBVIOUS
      <4>1. deliveries[e].run \in DOMAIN runs
        BY <1>1 DEF OneRunPerOccasion, Receipts
      <4> QED BY <1>1, <2>3, <4>1 DEF OneRunPerOccasion
    <3> QED BY <1>1, <1>2, <3>1, <3>2, <3>3, <3>4 DEF OneRunPerOccasion
  <2> QED BY <2>7, <2>8, <2>10, <2>11, <2>12 DEF IInv
<1> QED BY <1>3, <1>5, <1>6 DEF Accept

\* A published or pinned version of the target can be named in a run.
LEMMA Startable ==
  ASSUME TypeOK, NEW s \in Selections, MayStart(Target, s)
  PROVE  s \in Nat /\ Resolved(Target, s) \in Nat
<1>1. definitions[Target] \in DefinitionType
  BY DefinitionAssumption DEF TypeOK
<1>2. definitions[Target].versions \in Seq(VersionType) /\ definitions[Target].published \in Nat
  BY <1>1 DEF DefinitionType
<1>3. s \in Nat
  BY <1>2, LenProperties DEF Selections, Versions, Published
<1> QED BY <1>2, <1>3 DEF Resolved

\* A delivery is accepted with its run.
LEMMA ReceiveAcceptedInv ==
  ASSUME IInv, NEW e \in Events, NEW s \in Selections, ReceiveAccepted(e, s)
  PROVE  IInv'
<1>1. /\ TypeOK /\ NamesHold /\ ScheduleRemembers /\ ScheduleAhead /\ HeldIsRunnable
      /\ VersionsReviewed /\ OneRunPerOccasion /\ TicksCoalesce
  BY DEF IInv
<1>2. PICK n, v, delivery :
        /\ n = Len(runs) + 1 /\ v = Resolved(Target, s)
        /\ delivery = [status |-> "accepted", run |-> n, version |-> v]
  OBVIOUS
<1>3. /\ UNCHANGED <<definitions, requests, schedule, fires, now>>
      /\ deliveries[e].status # "accepted"
      /\ runs' = Append(runs, NewRun("webhook", e, Target, s, v))
      /\ deliveries' = [deliveries EXCEPT ![e] = delivery]
  BY <1>2 DEF ReceiveAccepted, Fresh
<1>4. s \in Nat /\ v \in Nat /\ Target \in Definitions
  BY <1>1, <1>2, Startable, DefinitionAssumption DEF ReceiveAccepted
<1>5. Receipts("webhook", e) = {}
  BY <1>1, <1>3 DEF OneRunPerOccasion
<1>6. /\ runs' \in Seq(RunType) /\ n \in Nat /\ n \notin DOMAIN runs
      /\ DOMAIN runs' = DOMAIN runs \cup {n}
      /\ \A i \in DOMAIN runs : runs'[i] = runs[i]
      /\ runs'[n] = NewRun("webhook", e, Target, s, v)
      /\ \A b, k : Receipts(b, k)' =
           Receipts(b, k) \cup (IF b = "webhook" /\ k = e THEN {n} ELSE {})
  BY <1>1, <1>2, <1>3, <1>4, Grown
<1>7. /\ delivery \in DeliveryType /\ delivery.status = "accepted"
      /\ delivery.run = n /\ delivery.version = v
  BY <1>2, <1>4, <1>6 DEF DeliveryType
<1>8. \A f \in Events : deliveries'[f] = IF f = e THEN delivery ELSE deliveries[f]
  BY <1>1, <1>3 DEF TypeOK
<1>9. TypeOK'
  BY <1>1, <1>3, <1>6, <1>7 DEF TypeOK
<1>10. HeldIsRunnable' /\ VersionsReviewed'
  BY <1>1, <1>3, HeldKept
<1>11. runs'[n].by = "webhook" /\ runs'[n].version = v
  BY <1>6 DEF NewRun
<1>12. NamesHold' /\ ScheduleRemembers' /\ ScheduleAhead'
  BY <1>1, <1>3, <1>6, <1>11 DEF NamesHold, ScheduleRemembers, ScheduleAhead
<1>13. TicksCoalesce'
  BY <1>1, <1>3, <1>12 DEF TicksCoalesce, ScheduleRemembers
<1>14. OneRunPerOccasion'
  <2>1. /\ \A i, j \in DOMAIN runs' :
             runs'[i].by = runs'[j].by /\ runs'[i].id = runs'[j].id => i = j
        /\ \A c \in Clients :
             requests[c].phase = "answered" =>
               LET r == runs'[requests[c].version]
               IN /\ r.by = "client" /\ r.id = requests[c].id
                  /\ r.definition = requests[c].definition
                  /\ r.selection = requests[c].selection
    BY <1>2, <1>3, <1>4, <1>5, GrownInv
  <2>2. \A f \in Events :
          Receipts("webhook", f)' =
            IF deliveries'[f].status = "accepted" THEN {deliveries'[f].run} ELSE {}
    BY <1>1, <1>5, <1>6, <1>7, <1>8 DEF OneRunPerOccasion
  <2>3. ASSUME NEW f \in Events, deliveries'[f].status = "accepted"
        PROVE  runs'[deliveries'[f].run].version = deliveries'[f].version
    <3>1. CASE f = e
      BY <1>7, <1>8, <1>11, <3>1
    <3>2. CASE f # e
      <4>1. deliveries[f].run \in DOMAIN runs /\ deliveries'[f] = deliveries[f]
        BY <1>1, <1>8, <2>3, <3>2 DEF OneRunPerOccasion, Receipts
      <4> QED BY <1>1, <1>6, <2>3, <4>1 DEF OneRunPerOccasion
    <3> QED BY <3>1, <3>2
  <2>4. \A f \in DOMAIN fires' :
          Receipts("schedule", f)' =
            IF fires'[f].status = "accepted" THEN {fires'[f].run} ELSE {}
    BY <1>1, <1>3, <1>6 DEF OneRunPerOccasion
  <2>5. \A c \in Clients :
          requests'[c].phase = "answered" =>
            LET r == runs'[requests'[c].version]
            IN /\ r.by = "client" /\ r.id = requests'[c].id
               /\ r.definition = requests'[c].definition
               /\ r.selection = requests'[c].selection
    BY <1>3, <2>1
  <2> QED BY <2>1, <2>2, <2>3, <2>4, <2>5 DEF OneRunPerOccasion
<1> QED BY <1>9, <1>10, <1>12, <1>13, <1>14 DEF IInv

\* A delivery is rejected, and may come again.
LEMMA ReceiveRejectedInv ==
  ASSUME IInv, NEW e \in Events, ReceiveRejected(e)
  PROVE  IInv'
<1>1. /\ TypeOK /\ NamesHold /\ ScheduleRemembers /\ ScheduleAhead /\ HeldIsRunnable
      /\ VersionsReviewed /\ OneRunPerOccasion /\ TicksCoalesce
  BY DEF IInv
<1>2. /\ UNCHANGED <<definitions, runs, requests, schedule, fires, now>>
      /\ deliveries[e].status # "accepted"
      /\ deliveries' = [deliveries EXCEPT ![e].status = "rejected"]
  BY DEF ReceiveRejected, Fresh
<1>3. PICK delivery : delivery = [deliveries[e] EXCEPT !.status = "rejected"]
  OBVIOUS
<1>4. delivery \in DeliveryType /\ delivery.status = "rejected"
  BY <1>1, <1>3 DEF TypeOK, DeliveryType
<1>5. deliveries' = [deliveries EXCEPT ![e] = delivery]
  BY <1>2, <1>3
<1>6. \A f \in Events : deliveries'[f] = IF f = e THEN delivery ELSE deliveries[f]
  BY <1>1, <1>5 DEF TypeOK
<1>7. TypeOK'
  BY <1>1, <1>2, <1>4, <1>5 DEF TypeOK
<1>8. HeldIsRunnable' /\ VersionsReviewed'
  BY <1>1, <1>2, HeldKept
<1>9. NamesHold' /\ ScheduleRemembers' /\ ScheduleAhead' /\ TicksCoalesce'
  BY <1>1, <1>2 DEF NamesHold, ScheduleRemembers, ScheduleAhead, TicksCoalesce
<1>10. OneRunPerOccasion'
  BY <1>1, <1>2, <1>4, <1>6 DEF OneRunPerOccasion, Receipts
<1> QED BY <1>7, <1>8, <1>9, <1>10 DEF IInv

-----------------------------------------------------------------------------
(* The schedule. *)

\* A tick is decided after it was due and before the next one, whatever is
\* decided.
LEMMA FiredInOrder ==
  ASSUME IInv, NEW status \in {"accepted", "skipped", "rejected"}, NEW run \in Nat,
         Due, Fired(status, run), NEW m \in Nat, m = Len(fires) + 1
  PROVE  /\ fires' \in Seq(FireType) /\ schedule' \in [next : Nat, active : Nat]
         /\ status = "accepted" => schedule'.active = run
         /\ status # "accepted" => schedule'.active = schedule.active
         /\ m \notin DOMAIN fires /\ DOMAIN fires' = DOMAIN fires \cup {m}
         /\ \A f \in DOMAIN fires : fires'[f] = fires[f]
         /\ fires'[m].status = status /\ fires'[m].run = run
         /\ ScheduleAhead'
         /\ \A f \in DOMAIN fires' :
              /\ fires'[f].scheduled <= fires'[f].decided
              /\ f > 1 => fires'[f - 1].decided < fires'[f].scheduled
<1>1. TypeOK /\ ScheduleAhead /\ TicksCoalesce
  BY DEF IInv
<1>2. /\ Len(fires) \in Nat /\ DOMAIN fires = 1..Len(fires)
      /\ \A f \in DOMAIN fires : fires[f] \in FireType
  BY <1>1, Lists
<1>3. /\ schedule \in [next : Nat, active : Nat] /\ schedule.next \in Nat
      /\ now \in 0..MaxTime /\ now \in Nat /\ MaxTime \in Nat
  BY <1>1, TimeAssumption DEF TypeOK
<1>4. PICK fire : fire = [scheduled |-> schedule.next, decided |-> now,
                          status |-> status, run |-> run]
  OBVIOUS
<1>5. /\ fire \in FireType /\ fire.scheduled = schedule.next /\ fire.decided = now
      /\ fire.status = status /\ fire.run = run
  BY <1>3, <1>4 DEF FireType
<1>6. fires \in Seq(FireType) /\ fires' = Append(fires, fire) /\ now' = now
  BY <1>1, <1>4 DEF Fired, TypeOK
<1>7. /\ fires' \in Seq(FireType) /\ DOMAIN fires' = 1..(Len(fires) + 1)
      /\ \A f \in DOMAIN fires : fires'[f] = fires[f]
      /\ fires'[Len(fires) + 1] = fire
  BY <1>5, <1>6, Appended
<1>8. /\ m \notin DOMAIN fires /\ DOMAIN fires' = DOMAIN fires \cup {m}
      /\ fires'[m] = fire
  BY <1>2, <1>7
<1>9. PICK next \in Nat : next = NextTick(now) /\ next > now
  BY <1>3, NextTickIsLater
<1>10. PICK active \in Nat : active = IF status = "accepted" THEN run ELSE schedule.active
  BY <1>3
<1>11. schedule' = [schedule EXCEPT !.next = next, !.active = active]
  BY <1>9, <1>10 DEF Fired, NextDue
<1>12. /\ schedule' \in [next : Nat, active : Nat]
       /\ schedule'.next = next /\ schedule'.active = active
  BY <1>3, <1>11
<1>13. ScheduleAhead'
  <2> SUFFICES ASSUME NEW f \in DOMAIN fires'
               PROVE  fires'[f].decided <= now' /\ fires'[f].decided < schedule'.next
    BY DEF ScheduleAhead
  <2>1. CASE f = m
    BY <1>3, <1>5, <1>6, <1>8, <1>9, <1>12, <2>1
  <2>2. CASE f # m
    <3>1. /\ f \in DOMAIN fires /\ fires'[f] = fires[f]
          /\ fires[f].decided <= now /\ fires[f].decided \in Nat
      BY <1>1, <1>2, <1>7, <1>8, <2>2 DEF ScheduleAhead, FireType
    <3> QED BY <1>3, <1>6, <1>9, <1>12, <3>1
  <2> QED BY <2>1, <2>2
<1>14. ASSUME NEW f \in DOMAIN fires'
       PROVE  /\ fires'[f].scheduled <= fires'[f].decided
              /\ f > 1 => fires'[f - 1].decided < fires'[f].scheduled
  <2>1. CASE f = m
    <3>1. fires'[m].scheduled <= fires'[m].decided
      BY <1>5, <1>8 DEF Due
    <3>2. ASSUME m > 1 PROVE fires'[m - 1].decided < fires'[m].scheduled
      <4>1. m - 1 \in DOMAIN fires
        BY <1>2, <3>2
      <4> QED BY <1>1, <1>5, <1>7, <1>8, <4>1 DEF ScheduleAhead
    <3> QED BY <2>1, <3>1, <3>2
  <2>2. CASE f # m
    <3>1. f \in DOMAIN fires /\ (f > 1 => f - 1 \in DOMAIN fires)
      BY <1>2, <1>8, <2>2
    <3> QED BY <1>1, <1>7, <3>1 DEF TicksCoalesce
  <2> QED BY <2>1, <2>2
<1> QED BY <1>5, <1>7, <1>8, <1>10, <1>12, <1>13, <1>14

\* An accepted tick's run is the schedule's active one.
LEMMA AcceptedIsActive ==
  ASSUME IInv, NEW run \in Nat, Fired("accepted", run)
  PROVE  schedule'.active = run
<1>1. schedule \in [next : Nat, active : Nat]
  BY DEF IInv, TypeOK
<1>2. now \in 0..MaxTime
  BY DEF IInv, TypeOK
<1>3. PICK next \in Nat : next = NextTick(now)
  BY <1>2, NextTickIsLater
<1>4. schedule' = [schedule EXCEPT !.next = next, !.active = run]
  BY <1>3 DEF Fired, NextDue
<1> QED BY <1>1, <1>4

\* A tick is skipped or rejected: no run of it.
LEMMA FireNothingInv ==
  ASSUME IInv, FireSkipped \/ FireRejected
  PROVE  IInv'
<1>1. /\ TypeOK /\ NamesHold /\ ScheduleRemembers /\ ScheduleAhead /\ HeldIsRunnable
      /\ VersionsReviewed /\ OneRunPerOccasion /\ TicksCoalesce
  BY DEF IInv
<1>2. PICK status \in {"skipped", "rejected"} : Due /\ Fired(status, 0) /\ runs' = runs
  BY DEF FireSkipped, FireRejected
<1>3. UNCHANGED <<definitions, requests, deliveries, now>>
  BY <1>2 DEF Fired
<1>4. PICK m \in Nat : m = Len(fires) + 1
  BY <1>1, Lists
<1>5. /\ fires' \in Seq(FireType) /\ schedule' \in [next : Nat, active : Nat]
      /\ schedule'.active = schedule.active
      /\ m \notin DOMAIN fires /\ DOMAIN fires' = DOMAIN fires \cup {m}
      /\ \A f \in DOMAIN fires : fires'[f] = fires[f]
      /\ fires'[m].status # "accepted"
      /\ ScheduleAhead'
      /\ \A f \in DOMAIN fires' :
           /\ fires'[f].scheduled <= fires'[f].decided
           /\ f > 1 => fires'[f - 1].decided < fires'[f].scheduled
  BY <1>2, <1>4, FiredInOrder
<1>6. TypeOK'
  BY <1>1, <1>2, <1>3, <1>5 DEF TypeOK
<1>7. HeldIsRunnable' /\ VersionsReviewed'
  BY <1>1, <1>3, HeldKept
<1>8. NamesHold' /\ ScheduleRemembers'
  BY <1>1, <1>2, <1>3, <1>5 DEF NamesHold, ScheduleRemembers
<1>9. TicksCoalesce'
  BY <1>1, <1>2, <1>5 DEF TicksCoalesce
<1>10. OneRunPerOccasion'
  <2>1. \A b, k : Receipts(b, k)' = Receipts(b, k)
    BY <1>2 DEF Receipts
  <2>2. Receipts("schedule", m) = {}
    BY <1>1, <1>5 DEF NamesHold, Receipts
  <2>3. \A f \in DOMAIN fires' :
          Receipts("schedule", f)' =
            IF fires'[f].status = "accepted" THEN {fires'[f].run} ELSE {}
    BY <1>1, <1>5, <2>1, <2>2 DEF OneRunPerOccasion
  <2> QED BY <1>1, <1>2, <1>3, <2>1, <2>3 DEF OneRunPerOccasion
<1> QED BY <1>5, <1>6, <1>7, <1>8, <1>9, <1>10 DEF IInv

\* A tick starts its run, and no other run of the schedule is alive.
LEMMA FireAcceptedInv ==
  ASSUME IInv, NEW s \in Selections, FireAccepted(s)
  PROVE  IInv'
<1>1. /\ TypeOK /\ NamesHold /\ ScheduleRemembers /\ ScheduleAhead /\ HeldIsRunnable
      /\ VersionsReviewed /\ OneRunPerOccasion /\ TicksCoalesce
  BY DEF IInv
<1>2. PICK n \in Nat, m \in Nat, v \in Nat :
        n = Len(runs) + 1 /\ m = Len(fires) + 1 /\ v = Resolved(Target, s)
  BY <1>1, Startable, Lists DEF FireAccepted
<1>3. /\ Due /\ ~Overlaps /\ Fired("accepted", n)
      /\ runs' = Append(runs, NewRun("schedule", m, Target, s, v))
  BY <1>2 DEF FireAccepted
<1>4. UNCHANGED <<definitions, requests, deliveries, now>>
  BY <1>3 DEF Fired
<1>5. s \in Nat /\ Target \in Definitions
  BY <1>1, Startable, DefinitionAssumption DEF FireAccepted
<1>6. /\ fires' \in Seq(FireType) /\ schedule' \in [next : Nat, active : Nat]
      /\ schedule'.active = n
      /\ m \notin DOMAIN fires /\ DOMAIN fires' = DOMAIN fires \cup {m}
      /\ \A f \in DOMAIN fires : fires'[f] = fires[f]
      /\ fires'[m].status = "accepted" /\ fires'[m].run = n
      /\ ScheduleAhead'
      /\ \A f \in DOMAIN fires' :
           /\ fires'[f].scheduled <= fires'[f].decided
           /\ f > 1 => fires'[f - 1].decided < fires'[f].scheduled
  <2>1. PICK status \in {"accepted", "skipped", "rejected"} :
          status = "accepted" /\ Due /\ Fired(status, n)
    BY <1>3
  <2>2. m = Len(fires) + 1
    BY <1>2
  <2>3. fires' \in Seq(FireType)
    BY <2>1, <2>2, FiredInOrder
  <2>4. schedule' \in [next : Nat, active : Nat]
    BY <2>1, <2>2, FiredInOrder
  <2>5. schedule'.active = n
    BY <1>2, <1>3, AcceptedIsActive
  <2>6. m \notin DOMAIN fires /\ DOMAIN fires' = DOMAIN fires \cup {m}
    BY <2>1, <2>2, FiredInOrder
  <2>7. \A f \in DOMAIN fires : fires'[f] = fires[f]
    BY <2>1, <2>2, FiredInOrder
  <2>8. fires'[m].status = "accepted" /\ fires'[m].run = n
    BY <2>1, <2>2, FiredInOrder
  <2>9. ScheduleAhead'
    BY <2>1, <2>2, FiredInOrder
  <2>10. \A f \in DOMAIN fires' :
           /\ fires'[f].scheduled <= fires'[f].decided
           /\ f > 1 => fires'[f - 1].decided < fires'[f].scheduled
    BY <2>1, <2>2, FiredInOrder
  <2> QED BY <2>3, <2>4, <2>5, <2>6, <2>7, <2>8, <2>9, <2>10
<1>7. /\ runs' \in Seq(RunType) /\ n \notin DOMAIN runs
      /\ DOMAIN runs' = DOMAIN runs \cup {n}
      /\ \A i \in DOMAIN runs : runs'[i] = runs[i]
      /\ runs'[n] = NewRun("schedule", m, Target, s, v)
      /\ \A b, k : Receipts(b, k)' =
           Receipts(b, k) \cup (IF b = "schedule" /\ k = m THEN {n} ELSE {})
  BY <1>1, <1>2, <1>3, <1>5, Grown
<1>8. runs'[n].by = "schedule" /\ runs'[n].id = m
  BY <1>7 DEF NewRun
<1>9. Receipts("schedule", m) = {}
  BY <1>1, <1>6 DEF NamesHold, Receipts
<1>10. TypeOK'
  BY <1>1, <1>4, <1>6, <1>7 DEF TypeOK
<1>11. HeldIsRunnable' /\ VersionsReviewed'
  BY <1>1, <1>4, HeldKept
<1>12. NamesHold'
  BY <1>1, <1>4, <1>6, <1>7, <1>8 DEF NamesHold
<1>13. ScheduleRemembers'
  <2>1. \A i \in DOMAIN runs : ~(runs[i].by = "schedule" /\ runs[i].live)
    <3>1. 0 \notin DOMAIN runs
      BY <1>1, Lists
    <3> QED BY <1>1, <1>3, <3>1 DEF ScheduleRemembers, Overlaps
  <2> QED BY <1>6, <1>7, <2>1 DEF ScheduleRemembers
<1>14. TicksCoalesce'
  BY <1>6, <1>13 DEF TicksCoalesce, ScheduleRemembers
<1>15. OneRunPerOccasion'
  <2>1. /\ \A i, j \in DOMAIN runs' :
             runs'[i].by = runs'[j].by /\ runs'[i].id = runs'[j].id => i = j
        /\ \A c \in Clients :
             requests[c].phase = "answered" =>
               LET r == runs'[requests[c].version]
               IN /\ r.by = "client" /\ r.id = requests[c].id
                  /\ r.definition = requests[c].definition
                  /\ r.selection = requests[c].selection
    BY <1>2, <1>3, <1>5, <1>9, GrownInv
  <2>2. \A e \in Events : Receipts("webhook", e)' = Receipts("webhook", e)
    BY <1>7
  <2>3. ASSUME NEW e \in Events, deliveries[e].status = "accepted"
        PROVE  runs'[deliveries[e].run].version = deliveries[e].version
    <3>1. deliveries[e].run \in DOMAIN runs
      BY <1>1, <2>3 DEF OneRunPerOccasion, Receipts
    <3> QED BY <1>1, <1>7, <2>3, <3>1 DEF OneRunPerOccasion
  <2>4. \A f \in DOMAIN fires' :
          Receipts("schedule", f)' =
            IF fires'[f].status = "accepted" THEN {fires'[f].run} ELSE {}
    BY <1>1, <1>6, <1>7, <1>9 DEF OneRunPerOccasion
  <2> QED BY <1>1, <1>4, <2>1, <2>2, <2>3, <2>4 DEF OneRunPerOccasion
<1> QED BY <1>6, <1>10, <1>11, <1>12, <1>13, <1>14, <1>15 DEF IInv

\* An edit resets the pending tick to one that is still to come.
LEMMA ResetTickInv ==
  ASSUME IInv, ResetTick
  PROVE  IInv'
<1>1. /\ TypeOK /\ NamesHold /\ ScheduleRemembers /\ ScheduleAhead /\ HeldIsRunnable
      /\ VersionsReviewed /\ OneRunPerOccasion /\ TicksCoalesce
  BY DEF IInv
<1>2. UNCHANGED <<definitions, runs, requests, deliveries, fires, now>>
  BY DEF ResetTick
<1>3. PICK next \in Nat : next = NextTick(now) /\ next > now
  BY <1>1, NextTickIsLater DEF TypeOK
<1>4. /\ schedule' = [schedule EXCEPT !.next = next]
      /\ schedule' \in [next : Nat, active : Nat]
      /\ schedule'.next = next /\ schedule'.active = schedule.active
  BY <1>1, <1>3 DEF ResetTick, TypeOK
<1>5. TypeOK'
  BY <1>1, <1>2, <1>4 DEF TypeOK
<1>6. HeldIsRunnable' /\ VersionsReviewed'
  BY <1>1, <1>2, HeldKept
<1>7. NamesHold' /\ ScheduleRemembers' /\ TicksCoalesce'
  BY <1>1, <1>2, <1>4 DEF NamesHold, ScheduleRemembers, TicksCoalesce
<1>8. OneRunPerOccasion'
  BY <1>1, <1>2 DEF OneRunPerOccasion, Receipts
<1>9. ScheduleAhead'
  <2> SUFFICES ASSUME NEW f \in DOMAIN fires
               PROVE  fires[f].decided <= now /\ fires[f].decided < next
    BY <1>2, <1>4 DEF ScheduleAhead
  <2>1. fires[f].decided <= now /\ fires[f].decided \in Nat /\ now \in Nat
    BY <1>1, Lists, TimeAssumption DEF ScheduleAhead, TypeOK, FireType
  <2> QED BY <1>3, <2>1
<1> QED BY <1>5, <1>6, <1>7, <1>8, <1>9 DEF IInv

-----------------------------------------------------------------------------
(* The engine and the clock. *)

\* A run that ends is what it was, but not alive.
LEMMA EndRunInv ==
  ASSUME IInv, NEW i \in DOMAIN runs, EndRun(i)
  PROVE  IInv'
<1>1. /\ TypeOK /\ NamesHold /\ ScheduleRemembers /\ ScheduleAhead /\ HeldIsRunnable
      /\ VersionsReviewed /\ OneRunPerOccasion /\ TicksCoalesce
  BY DEF IInv
<1>2. /\ runs' = [runs EXCEPT ![i].live = FALSE]
      /\ UNCHANGED <<definitions, requests, deliveries, schedule, fires, now>>
  BY DEF EndRun
<1>3. /\ runs \in Seq(RunType) /\ DOMAIN runs = 1..Len(runs) /\ runs[i] \in RunType
  BY <1>1, Lists DEF TypeOK
<1>4. PICK run : run = [runs[i] EXCEPT !.live = FALSE]
  OBVIOUS
<1>5. /\ run \in RunType /\ ~run.live /\ run.by = runs[i].by /\ run.id = runs[i].id
      /\ run.definition = runs[i].definition /\ run.selection = runs[i].selection
      /\ run.version = runs[i].version
  BY <1>3, <1>4 DEF RunType
<1>6. runs' = [runs EXCEPT ![i] = run]
  BY <1>2, <1>4
<1>7. /\ runs' \in Seq(RunType) /\ DOMAIN runs' = DOMAIN runs
      /\ \A j \in DOMAIN runs : runs'[j] = IF j = i THEN run ELSE runs[j]
  BY <1>3, <1>5, <1>6, ExceptSeq
<1>8. TypeOK'
  BY <1>1, <1>2, <1>7 DEF TypeOK
<1>9. HeldIsRunnable' /\ VersionsReviewed'
  BY <1>1, <1>2, HeldKept
<1>10. NamesHold' /\ ScheduleRemembers' /\ ScheduleAhead'
  BY <1>1, <1>2, <1>5, <1>7 DEF NamesHold, ScheduleRemembers, ScheduleAhead
<1>11. TicksCoalesce'
  BY <1>1, <1>2, <1>10 DEF TicksCoalesce, ScheduleRemembers
<1>12. OneRunPerOccasion'
  <2>1. \A b, k : Receipts(b, k)' = Receipts(b, k)
    BY <1>5, <1>7 DEF Receipts
  <2>2. \A e \in Events : deliveries[e].status = "accepted" => deliveries[e].run \in DOMAIN runs
    BY <1>1 DEF OneRunPerOccasion, Receipts
  <2> QED BY <1>1, <1>2, <1>5, <1>7, <2>1, <2>2 DEF OneRunPerOccasion, NamesHold
<1> QED BY <1>8, <1>9, <1>10, <1>11, <1>12 DEF IInv

\* Time passes.
LEMMA TickInv ==
  ASSUME IInv, Tick
  PROVE  IInv'
<1>1. /\ TypeOK /\ NamesHold /\ ScheduleRemembers /\ ScheduleAhead /\ HeldIsRunnable
      /\ VersionsReviewed /\ OneRunPerOccasion /\ TicksCoalesce
  BY DEF IInv
<1>2. /\ now' = now + 1 /\ now < MaxTime /\ now \in Nat
      /\ UNCHANGED <<definitions, runs, requests, deliveries, schedule, fires>>
  BY <1>1, TimeAssumption DEF Tick, TypeOK
<1>3. TypeOK'
  BY <1>1, <1>2, TimeAssumption DEF TypeOK
<1>4. HeldIsRunnable' /\ VersionsReviewed'
  BY <1>1, <1>2, HeldKept
<1>5. NamesHold' /\ ScheduleRemembers' /\ TicksCoalesce'
  BY <1>1, <1>2 DEF NamesHold, ScheduleRemembers, TicksCoalesce
<1>6. OneRunPerOccasion'
  BY <1>1, <1>2 DEF OneRunPerOccasion, Receipts
<1>7. ScheduleAhead'
  BY <1>1, <1>2, Lists DEF ScheduleAhead, FireType
<1> QED BY <1>3, <1>4, <1>5, <1>6, <1>7 DEF IInv

-----------------------------------------------------------------------------
(* All of them. *)

\* At first there are drafts and nothing else.
LEMMA InitInv == Init => IInv
<1> SUFFICES ASSUME Init PROVE IInv
  OBVIOUS
<1>1. /\ definitions = [d \in Definitions |->
           [drafts |-> <<1>>, archived |-> FALSE, published |-> 0, versions |-> <<>>]]
      /\ runs = <<>> /\ fires = <<>> /\ now = 0
      /\ requests = [c \in Clients |-> NoRequest]
      /\ deliveries = [e \in Events |-> [status |-> "absent", run |-> 0, version |-> 0]]
      /\ schedule = [next |-> NextTick(0), active |-> 0]
  BY DEF Init
<1>2. runs \in Seq(RunType) /\ DOMAIN runs = {} /\ fires \in Seq(FireType) /\ DOMAIN fires = {}
  BY <1>1, EmptySeq
<1>3. <<1>> \in Seq(Nat) /\ <<>> \in Seq(VersionType)
  BY EmptySeq
<1>4. definitions \in [Definitions -> DefinitionType]
  BY <1>1, <1>3 DEF DefinitionType
<1>5. NoRequest \in RequestType /\ NoRequest.phase = "idle"
  BY NoRequestHonest DEF Honest, NoRequest
<1>6. deliveries \in [Events -> DeliveryType]
  BY <1>1 DEF DeliveryType
<1>7. 0 \in 0..MaxTime
  BY TimeAssumption
<1>8. schedule \in [next : Nat, active : Nat]
  BY <1>1, <1>7, NextTickIsLater
<1>9. TypeOK
  BY <1>1, <1>2, <1>4, <1>5, <1>6, <1>7, <1>8 DEF TypeOK
<1>10. NamesHold /\ HeldIsRunnable
  BY <1>1, <1>2, <1>5 DEF NamesHold, HeldIsRunnable
<1>11. ScheduleRemembers /\ ScheduleAhead /\ TicksCoalesce
  BY <1>1, <1>2 DEF ScheduleRemembers, ScheduleAhead, TicksCoalesce
<1>12. VersionsReviewed
  BY <1>1 DEF VersionsReviewed, Versions
<1>13. OneRunPerOccasion
  BY <1>1, <1>2, <1>5 DEF OneRunPerOccasion, Receipts
<1> QED BY <1>9, <1>10, <1>11, <1>12, <1>13 DEF IInv

\* Every step keeps the invariant.
LEMMA NextInv == IInv /\ [Next]_vars => IInv'
<1> SUFFICES ASSUME IInv, [Next]_vars PROVE IInv'
  OBVIOUS
<1>1. ASSUME NEW d \in Definitions, NEW seen \in 1..Revision(d),
             \/ SaveDraft(d, seen) \/ Publish(d, seen)
             \/ ArchiveVersion(d, seen) \/ ArchiveDefinition(d, seen)
      PROVE  IInv'
  BY <1>1, EditorInv
<1>2. ASSUME NEW c \in Clients, NEW k \in Keys, NEW d \in Definitions,
             NEW s \in {Published} \cup Versions(d), Ask(c, k, d, s)
      PROVE  IInv'
  BY <1>2, AskInv
<1>3. ASSUME NEW c \in Clients, Hold(c) \/ Accept(c) \/ Leave(c)
      PROVE  IInv'
  BY <1>3, HoldInv, AcceptInv, LeaveInv
<1>4. ASSUME NEW e \in Events,
             ReceiveRejected(e) \/ \E s \in Selections : ReceiveAccepted(e, s)
      PROVE  IInv'
  BY <1>4, ReceiveRejectedInv, ReceiveAcceptedInv
<1>5. ASSUME NEW s \in Selections, FireAccepted(s)
      PROVE  IInv'
  BY <1>5, FireAcceptedInv
<1>6. CASE FireSkipped \/ FireRejected \/ ResetTick
  BY <1>6, FireNothingInv, ResetTickInv
<1>7. ASSUME NEW i \in DOMAIN runs, EndRun(i)
      PROVE  IInv'
  BY <1>7, EndRunInv
<1>8. CASE Tick
  BY <1>8, TickInv
<1>9. CASE UNCHANGED vars
  <2>1. UNCHANGED <<definitions, runs, requests, deliveries, schedule, fires, now>>
    BY <1>9 DEF vars
  <2>2. \A b, k : Receipts(b, k)' = Receipts(b, k)
    BY <2>1 DEF Receipts
  <2> QED BY <2>1, <2>2, HeldKept
          DEF IInv, TypeOK, NamesHold, ScheduleRemembers, ScheduleAhead, OneRunPerOccasion,
              TicksCoalesce
<1> QED BY <1>1, <1>2, <1>3, <1>4, <1>5, <1>6, <1>7, <1>8, <1>9 DEF Next

\* The strengthening that closes under steps.
THEOREM Invariance == Spec => []IInv
<1> QED BY InitInv, NextInv, PTL DEF Spec

\* However starts, deliveries and ticks are repeated or meet, one occasion is
\* one run.
THEOREM OccasionsAreOnce == Spec => []OneRunPerOccasion
<1>1. IInv => OneRunPerOccasion
  BY DEF IInv
<1> QED BY <1>1, Invariance, PTL

\* A schedule decides late ticks together, and its runs never overlap.
THEOREM TicksAreCoalesced == Spec => []TicksCoalesce
<1>1. IInv => TicksCoalesce
  BY DEF IInv
<1> QED BY <1>1, Invariance, PTL

\* The version of a run is the one that was asked for, and could be run, when
\* the run was accepted; and every version is what its publisher has seen.
LEMMA NewRunIsRunnable ==
  ASSUME IInv, Next, NEW i \in DOMAIN runs' \ DOMAIN runs
  PROVE  /\ Runnable(runs'[i].definition, runs'[i].version)
         /\ runs'[i].version = Resolved(runs'[i].definition, runs'[i].selection)
<1>1. TypeOK /\ HeldIsRunnable /\ runs' # runs
  BY DEF IInv
<1>2. ASSUME NEW by, NEW id, NEW d, NEW s, NEW v,
             runs' = Append(runs, NewRun(by, id, d, s, v)),
             Runnable(d, v), v = Resolved(d, s)
      PROVE  /\ Runnable(runs'[i].definition, runs'[i].version)
             /\ runs'[i].version = Resolved(runs'[i].definition, runs'[i].selection)
  <2>1. PICK run : run = NewRun(by, id, d, s, v)
    OBVIOUS
  <2>2. runs \in Seq(RunType \cup {run})
    BY <1>1, SeqMonotonic DEF TypeOK
  <2>3. /\ Len(runs) \in Nat /\ DOMAIN runs = 1..Len(runs)
        /\ DOMAIN runs' = 1..(Len(runs) + 1) /\ runs'[Len(runs) + 1] = run
    BY <1>2, <2>1, <2>2, Appended
  <2>4. runs'[i] = run
    BY <2>3
  <2>5. run.definition = d /\ run.version = v /\ run.selection = s
    BY <2>1 DEF NewRun
  <2> QED BY <1>2, <2>4, <2>5
<1>3. ASSUME NEW c \in Clients, Accept(c)
      PROVE  /\ Runnable(runs'[i].definition, runs'[i].version)
             /\ runs'[i].version = Resolved(runs'[i].definition, runs'[i].selection)
  <2>1. PICK r : r = requests[c]
    OBVIOUS
  <2>2. /\ runs' = Append(runs, NewRun("client", r.id, r.definition, r.selection, r.version))
        /\ r.phase = "holding"
    BY <1>1, <1>3, <2>1 DEF Accept
  <2>3. Runnable(r.definition, r.version) /\ r.version = Resolved(r.definition, r.selection)
    BY <1>1, <2>1, <2>2 DEF HeldIsRunnable
  <2> QED BY <1>2, <2>2, <2>3
<1>4. ASSUME NEW e \in Events, NEW s \in Selections, ReceiveAccepted(e, s)
      PROVE  /\ Runnable(runs'[i].definition, runs'[i].version)
             /\ runs'[i].version = Resolved(runs'[i].definition, runs'[i].selection)
  <2>1. PICK v : v = Resolved(Target, s)
    OBVIOUS
  <2>2. runs' = Append(runs, NewRun("webhook", e, Target, s, v)) /\ Runnable(Target, v)
    BY <1>4, <2>1 DEF ReceiveAccepted, MayStart
  <2> QED BY <1>2, <2>1, <2>2
<1>5. ASSUME NEW s \in Selections, FireAccepted(s)
      PROVE  /\ Runnable(runs'[i].definition, runs'[i].version)
             /\ runs'[i].version = Resolved(runs'[i].definition, runs'[i].selection)
  <2>1. PICK v : v = Resolved(Target, s)
    OBVIOUS
  <2>2. /\ runs' = Append(runs, NewRun("schedule", Len(fires) + 1, Target, s, v))
        /\ Runnable(Target, v)
    BY <1>5, <2>1 DEF FireAccepted, MayStart
  <2> QED BY <1>2, <2>1, <2>2
<1>6. ASSUME NEW j \in DOMAIN runs, EndRun(j) PROVE FALSE
  BY <1>6 DEF EndRun
<1>7. \/ \E c \in Clients : Accept(c)
      \/ \E e \in Events, s \in Selections : ReceiveAccepted(e, s)
      \/ \E s \in Selections : FireAccepted(s)
  BY <1>1, <1>6
     DEF Next, SaveDraft, Publish, ArchiveVersion, ArchiveDefinition, Ask, Hold, Leave,
         ReceiveRejected, FireSkipped, FireRejected, ResetTick, Tick
<1> QED BY <1>3, <1>4, <1>5, <1>7

\* A run is of the published version, or of the one that was asked for, and
\* what is published is what its publisher has seen.
THEOREM StartsArePublished == Spec => StartsAsPublished
<1> DEFINE Step ==
       /\ \A i \in DOMAIN runs' \ DOMAIN runs :
            LET r == runs'[i]
            IN /\ Runnable(r.definition, r.version)
               /\ r.version = Resolved(r.definition, r.selection)
       /\ \A d \in Definitions : \A v \in DOMAIN definitions'[d].versions :
            LET version == definitions'[d].versions[v]
            IN version.graph = version.reviewed
<1>1. IInv /\ [Next]_vars => [Step]_vars
  <2> SUFFICES ASSUME IInv, Next PROVE Step
    OBVIOUS
  <2>1. VersionsReviewed'
    BY NextInv DEF IInv
  <2>2. \A d \in Definitions : \A v \in DOMAIN definitions'[d].versions :
          definitions'[d].versions[v].graph = definitions'[d].versions[v].reviewed
    BY <2>1 DEF VersionsReviewed, Versions
  <2> QED BY <2>2, NewRunIsRunnable
<1>2. Spec => [][Step]_vars
  BY <1>1, Invariance, PTL DEF Spec
<1> QED BY <1>2 DEF StartsAsPublished

=============================================================================
