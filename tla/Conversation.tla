---------------------------- MODULE Conversation ----------------------------
(***************************************************************************)
(* The tool-calling conversation of one LLM step (llm_tool_execution.py)   *)
(* along a lineage of recovery runs (execution_recovery.py,                *)
(* recovery_lineage.py).  Each run of the lineage keeps the conversation in *)
(* a row of its own; a recovery run starts from the last one before it.    *)
(*                                                                         *)
(* Attempts follow one another as DurableRun has them; the worker of one   *)
(* that has lost its claim goes on until one of its transactions is        *)
(* refused, and its request may still be answered.  Whatever ends a worker *)
(* (a crash, a deadline, a refusal, a limit, a tool that fails, a starter  *)
(* without rights) is Stop; what becomes of its attempt and of the run is  *)
(* left to choice.  A tool call is one step: EffectLedger says why it can  *)
(* be repeated.  Messages are reduced to what a provider insists on: which *)
(* calls they hold and which of them they answer.                          *)
(***************************************************************************)
EXTENDS Integers, Sequences, FiniteSets

CONSTANTS
  MaxRounds,      \* config.max_provider_rounds
  MaxCost,        \* config.max_cost_usd
  MaxToolCalls,   \* config.max_tool_calls
  MaxRepairs,     \* runtime_config["max_schema_repairs"]
  Reservations,   \* what a request may be estimated to cost at most
  Costs,          \* what it may really cost
  BatchSizes,     \* how many calls an answer may hold
  MaxAttempts,    \* bound: attempts along the lineage
  MaxRuns         \* bound: runs of the lineage

ASSUME LimitAssumption ==
  /\ {MaxRounds, MaxCost, MaxToolCalls} \subseteq Nat \ {0} /\ MaxRepairs \in Nat
  /\ Reservations \cup Costs \subseteq Nat /\ BatchSizes \subseteq Nat \ {0}

VARIABLES
  runs,       \* the lineage: run and step, and the row of the conversation
  owner,      \* the attempt that holds the live claim, 0 if none does
  workers,    \* by attempt: the process and what it holds in memory
  requests    \* to the provider: whose each was, for which round, what it really costs

vars == <<runs, owner, workers, requests>>

NoResponse == [kind |-> "none", calls |-> 0]
\* The state of a new conversation: only the user's message.
NewState ==
  [messages |-> <<>>, rounds |-> <<>>, calls |-> 0, pending |-> <<>>, repairs |-> 0,
   response |-> NoResponse, output |-> FALSE, error |-> FALSE]
\* Before the first transaction of an attempt: there is no row.
NoRow == [NewState EXCEPT !.repairs = -1]

Now == Len(runs)
RunOf(a) == workers[a].run
RowOf(a) == runs[RunOf(a)].row

\* What the entries at some positions cost together, and what all of them cost.
CostAt(positions, entries) ==
  LET sum[i \in 0..Len(entries)] ==
        IF i = 0 THEN 0
        ELSE sum[i - 1] + (IF i \in positions THEN entries[i].cost ELSE 0)
  IN sum[Len(entries)]
Total(entries) == CostAt(DOMAIN entries, entries)

\* A round is charged at its reservation until its usage is known.
Charged(state) == Total(state.rounds)

-----------------------------------------------------------------------------
(* Attempts and runs, as the engine moves them. *)

NewWorker ==
  [run |-> Now, pc |-> "load", state |-> NewState, round |-> 0, request |-> 0]

Dispatch ==
  /\ owner = 0
  /\ runs[Now].status = "running" /\ ~runs[Now].completed
  /\ Len(workers) < MaxAttempts
  /\ workers' = Append(workers, NewWorker)
  /\ owner' = Len(workers) + 1
  /\ UNCHANGED <<runs, requests>>

Ended(a) == [NewWorker EXCEPT !.run = workers[a].run, !.pc = "ended"]

\* The attempt failed, timed out, or its lease ran out and was recovered.  The
\* next transaction of its worker will be refused; what it may still do is to
\* send its request and to record the answer.
LosesClaim ==
  /\ owner' = 0
  /\ workers' = IF owner = 0 \/ workers[owner].pc \in {"send", "wait"} THEN workers
                ELSE [workers EXCEPT ![owner] = Ended(owner)]

LoseClaim ==
  /\ owner # 0
  /\ LosesClaim
  /\ UNCHANGED <<runs, requests>>

\* The run fails, with this step or another one, or is cancelled.
EndRun ==
  /\ runs[Now].status = "running"
  /\ runs' = [runs EXCEPT ![Now].status = "failed"]
  /\ LosesClaim
  /\ UNCHANGED requests

\* blockers: a continuation that was rejected or has nothing left to spend.
Blocked(n) ==
  LET row == runs[n].row
  IN /\ row # NoRow
     /\ ~runs[n].completed
     /\ \/ row.error
        \/ /\ ~row.output /\ row.response = NoResponse
           /\ Len(row.rounds) >= MaxRounds \/ Charged(row) >= MaxCost

\* A completed step is copied, unless it comes after an approval.
Recover(reused) ==
  /\ runs[Now].status = "failed"
  /\ Now < MaxRuns
  /\ ~Blocked(Now)
  /\ reused => runs[Now].completed
  /\ runs' = Append(runs, [status |-> "running", completed |-> reused, row |-> NoRow])
  /\ UNCHANGED <<owner, workers, requests>>

-----------------------------------------------------------------------------
(* Transactions of a worker. *)

\* change without receipt: a live claim, on a run that goes on.
Owns(a) == owner = a /\ runs[RunOf(a)].status = "running"

Written(a, state) == runs' = [runs EXCEPT ![RunOf(a)].row = state]
At(a, pc) == workers[a].pc = pc
Goes(a, pc) == workers' = [workers EXCEPT ![a].pc = pc]

Stop(a) ==
  /\ ~At(a, "ended")
  /\ workers' = [workers EXCEPT ![a] = Ended(a)]
  /\ UNCHANGED <<runs, owner, requests>>

\* Fault: a recovery run starts its conversation anew.
NothingInherited(n) == NewState
\* inherited_conversation: the nearest row back along the lineage, if any.
Inherited(n) ==
  LET before == {m \in 1..(n - 1) : runs[m].row # NoRow}
  IN IF before = {} THEN NewState
     ELSE runs[CHOOSE m \in before : \A k \in before : k <= m].row

Opened(n) == IF runs[n].row = NoRow THEN Inherited(n) ELSE runs[n].row

Decision(state) ==
  IF Charged(state) > MaxCost \/ state.error THEN "ended"
  ELSE IF state.output THEN "finish"
  ELSE IF state.pending # <<>> THEN "tool"
  ELSE IF state.response # NoResponse THEN "reply" ELSE "ask"

Load(a) ==
  /\ At(a, "load") /\ Owns(a)
  /\ LET state == Opened(RunOf(a))
     IN /\ Decision(state) # "ended"
        /\ Written(a, state)
        /\ workers' = [workers EXCEPT ![a].state = state, ![a].pc = Decision(state)]
  /\ UNCHANGED <<owner, requests>>

\* commit_result: the output becomes that of the step.
Finish(a) ==
  /\ At(a, "finish") /\ Owns(a)
  /\ runs' = [runs EXCEPT ![RunOf(a)].completed = TRUE]
  /\ owner' = 0
  /\ workers' = [workers EXCEPT ![a] = Ended(a)]
  /\ UNCHANGED requests

UseTool(a) ==
  /\ At(a, "tool") /\ Owns(a)
  /\ LET state == workers[a].state
     IN workers' = [workers EXCEPT
          ![a].pc = "save",
          ![a].state.messages = Append(@, [kind |-> "answer", call |-> Head(state.pending)]),
          ![a].state.pending = Tail(@)]
  /\ UNCHANGED <<runs, owner, requests>>

\* What a final answer is worth is decided in memory and then saved.
Conclude(a) ==
  /\ At(a, "reply") /\ workers[a].state.response.kind = "final"
  /\ workers' = [workers EXCEPT ![a].pc = "save", ![a].state.output = TRUE,
                                ![a].state.response = NoResponse]
  /\ UNCHANGED <<runs, owner, requests>>

Repair(a) ==
  /\ At(a, "reply") /\ workers[a].state.response.kind = "garbled"
  /\ workers[a].state.repairs < MaxRepairs
  /\ workers' = [workers EXCEPT ![a].pc = "save", ![a].state.repairs = @ + 1,
                                ![a].state.response = NoResponse,
                                ![a].state.messages = Append(@, [kind |-> "repair", call |-> 0])]
  /\ UNCHANGED <<runs, owner, requests>>

\* save: the rounds of the row are kept, all else is the worker's.
Save(a) ==
  /\ At(a, "save") /\ Owns(a)
  /\ Written(a, [workers[a].state EXCEPT !.rounds = RowOf(a).rounds])
  /\ Goes(a, "load")
  /\ UNCHANGED <<owner, requests>>

Batch(a) ==
  LET row == RowOf(a)
      count == workers[a].state.response.calls
      added == [i \in 1..count |-> row.calls + i]
  IN /\ At(a, "reply") /\ workers[a].state.response.kind = "calls" /\ Owns(a)
     /\ row.calls + count <= MaxToolCalls
     /\ Written(a, [row EXCEPT
          !.pending = added, !.calls = @ + count, !.response = NoResponse,
          !.messages = @ \o [i \in 1..count |-> [kind |-> "call", call |-> added[i]]]])
     /\ Goes(a, "load")
     /\ UNCHANGED <<owner, requests>>

-----------------------------------------------------------------------------
(* Requests. *)

\* Fault: an answer that came since the load is not looked for.
NotLookedFor(row) == FALSE
AnsweredMeanwhile(row) == row.response # NoResponse

\* The rounds of attempts that are gone stay charged.
Abandoned(rounds) ==
  [i \in DOMAIN rounds |->
     IF rounds[i].status = "pending" THEN [rounds[i] EXCEPT !.status = "unknown"] ELSE rounds[i]]

Reserve(a, reservation) ==
  LET row == RowOf(a)
  IN /\ At(a, "ask") /\ Owns(a)
     /\ ~AnsweredMeanwhile(row)
     /\ Len(row.rounds) < MaxRounds
     /\ Charged(row) + reservation <= MaxCost
     /\ Written(a, [row EXCEPT !.rounds = Append(Abandoned(@),
          [attempt |-> a, status |-> "pending", cost |-> reservation])])
     /\ workers' = [workers EXCEPT ![a].pc = "send", ![a].round = Len(row.rounds) + 1]
     /\ UNCHANGED <<owner, requests>>

ReserveNothing(a) ==
  /\ At(a, "ask") /\ Owns(a)
  /\ AnsweredMeanwhile(RowOf(a))
  /\ Goes(a, "load")
  /\ UNCHANGED <<runs, owner, requests>>

\* Outside any transaction: nothing asks whether the claim is still live.
\* The reservation is conservative: a request costs that much at most.
Send(a, cost) ==
  /\ At(a, "send")
  /\ cost <= RowOf(a).rounds[workers[a].round].cost
  /\ requests' = Append(requests,
       [attempt |-> a, round |-> workers[a].round, cost |-> cost])
  /\ workers' = [workers EXCEPT ![a].pc = "wait", ![a].request = Len(requests) + 1]
  /\ UNCHANGED <<runs, owner>>

GoesOn(a) == IF Owns(a) THEN Goes(a, "load") ELSE workers' = [workers EXCEPT ![a] = Ended(a)]

Responses ==
  {[kind |-> k, calls |-> 0] : k \in {"final", "garbled"}}
    \cup {[kind |-> "calls", calls |-> n] : n \in BatchSizes}

\* receipt, with or without the claim.  Usage that cannot be true fails the
\* conversation whoever continues it; a late answer only counts its cost.
ReceiveInvalid(a) ==
  /\ At(a, "wait")
  /\ Written(a, [RowOf(a) EXCEPT
       !.rounds[workers[a].round].status = "invalid", !.error = TRUE])
  /\ GoesOn(a)
  /\ UNCHANGED <<owner, requests>>

\* Fault: whoever asked, the answer is taken.
AlwaysExpected(a) == TRUE
Expected(a) == RowOf(a).rounds[workers[a].round].status = "pending"

Receipt(a, status) ==
  [RowOf(a) EXCEPT !.rounds[workers[a].round].status = status,
                   !.rounds[workers[a].round].cost =
                      requests[workers[a].request].cost]

ReceiveLate(a) ==
  /\ At(a, "wait") /\ ~Expected(a)
  /\ Written(a, Receipt(a, "late_received"))
  /\ GoesOn(a)
  /\ UNCHANGED <<owner, requests>>

Receive(a, response) ==
  /\ At(a, "wait") /\ Expected(a)
  /\ Written(a, [Receipt(a, "received") EXCEPT !.response = response])
  /\ GoesOn(a)
  /\ UNCHANGED <<owner, requests>>

ReceiveMalformed(a) ==
  /\ At(a, "wait") /\ Expected(a)
  /\ Written(a, [Receipt(a, "received") EXCEPT !.error = TRUE])
  /\ GoesOn(a)
  /\ UNCHANGED <<owner, requests>>

-----------------------------------------------------------------------------
(* metadata: what an attempt is reported to have used, its process dead or *)
(* not.  Where no usage came back, the reservation stands in for the cost.  *)

Metadata(a) ==
  LET rounds == RowOf(a).rounds
      own == {k \in DOMAIN rounds : rounds[k].attempt = a}
      used == {k \in own : rounds[k].status \in {"received", "late_received"}}
  IN [requests |-> Cardinality(own), cost |-> CostAt(used, rounds),
      unconfirmed |-> CostAt(own, rounds) - CostAt(used, rounds)]

-----------------------------------------------------------------------------
Init ==
  /\ runs = <<[status |-> "running", completed |-> FALSE, row |-> NoRow]>>
  /\ owner = 0
  /\ workers = <<>>
  /\ requests = <<>>

Next ==
  \/ Dispatch \/ LoseClaim \/ EndRun
  \/ \E reused \in BOOLEAN : Recover(reused)
  \/ \E a \in DOMAIN workers :
       \/ Stop(a) \/ Load(a) \/ Finish(a) \/ UseTool(a) \/ Conclude(a)
       \/ Repair(a) \/ Save(a) \/ Batch(a) \/ ReserveNothing(a)
       \/ \E reservation \in Reservations : Reserve(a, reservation)
       \/ \E cost \in Costs : Send(a, cost)
       \/ ReceiveInvalid(a) \/ ReceiveLate(a) \/ ReceiveMalformed(a)
       \/ \E response \in Responses : Receive(a, response)

Spec == Init /\ [][Next]_vars

-----------------------------------------------------------------------------
(* Properties. *)

\* Whatever crashes, is taken over, answered late or recovered: the provider
\* is asked no more often, and bills no more, than one conversation allows.
\* And each attempt is reported with the cost it really had, within what is
\* left unconfirmed (attempt_metadata).
WithinBudget ==
  /\ Len(requests) <= MaxRounds
  /\ Total(requests) <= MaxCost
  /\ \A a \in DOMAIN workers :
       LET made == {r \in DOMAIN requests : requests[r].attempt = a}
       IN /\ Cardinality(made) <= Metadata(a).requests
          /\ CostAt(made, requests)
               \in Metadata(a).cost .. (Metadata(a).cost + Metadata(a).unconfirmed)

\* The messages of a kind are for the calls 1..count, one each and in order.
InOrder(messages, kind, count) ==
  /\ \A i \in DOMAIN messages : messages[i].kind = kind => messages[i].call \in 1..count
  /\ \A c \in 1..count : \E i \in DOMAIN messages : messages[i] = [kind |-> kind, call |-> c]
  /\ \A i, j \in DOMAIN messages :
       i < j /\ messages[i].kind = kind /\ messages[j].kind = kind
         => messages[i].call < messages[j].call

\* Every call has its answer, and none twice.
AllAnswered(state) ==
  \A kind \in {"call", "answer"} : InOrder(state.messages, kind, state.calls)

\* The conversation continues where it stopped: no answer of the provider
\* that was accepted is lost or replaced before it was acted on, and no
\* request goes out before every call of the model has its one result.
Continues ==
  [][/\ \A n \in DOMAIN runs :
          LET old == runs[n].row
              new == runs'[n].row
          IN old.response # NoResponse /\ new.response # old.response =>
               \/ new.output
               \/ Len(new.messages) > Len(old.messages)
     /\ \A a \in DOMAIN workers :
          At(a, "send") /\ workers'[a].pc = "wait" => AllAnswered(workers[a].state)]_vars

=============================================================================
