---------------------------- MODULE ToolAdapters ----------------------------
(***************************************************************************)
(* What the built-in tool adapters (http_tool.py, github_tool.py,          *)
(* postgres_tool.py) register with the effect ledger, and what each makes  *)
(* of a request that goes wrong: a failure that is certain lets the ledger *)
(* record that nothing was done, any other leaves the effect in doubt.     *)
(*                                                                         *)
(* A request is what happened to it: the step at which it stopped, or the  *)
(* status and the body of its answer.  URLs, headers, sizes and schemas    *)
(* are left out.  An abort raises no ToolFailure and is never certain      *)
(* (EffectLedger, GiveUp).                                                 *)
(***************************************************************************)
EXTENDS Integers, FiniteSets, Sequences

-----------------------------------------------------------------------------
(* Registration. *)

ReadMethods == {"GET", "HEAD"}

\* POST stands for every method that is no read; retains: the server answers
\* a repeated key with the first receipt.
HTTPAdapters == [tool : {"http"}, method : ReadMethods \cup {"POST"}, retains : BOOLEAN]
\* read_issues and create_issue; GitHub knows no keys.
GitHubAdapters == [tool : {"github"}, method : {"GET", "POST"}, retains : {FALSE}]
\* One registered SELECT.
PostgreSQLAdapters == [tool : {"postgresql"}, method : {"SELECT"}, retains : {FALSE}]

Adapters == HTTPAdapters \cup GitHubAdapters \cup PostgreSQLAdapters

SideEffecting(a) == a.method = "POST"

Recovery(a) ==
  CASE a.tool = "http" /\ a.retains -> "reconcile"
    [] a.tool = "github" /\ SideEffecting(a) -> "reconcile"
    [] OTHER -> "none"

\* The adapter as EffectLedger sees it.
ProviderOf(a) == [recovery |-> Recovery(a), keyed |-> a.retains]
BuiltIn == {ProviderOf(a) : a \in {b \in Adapters : SideEffecting(b)}}

-----------------------------------------------------------------------------
(* A request over HTTP. *)

\* Before anything is sent: arguments that do not fit, a credential that may
\* not be sent, no slot for a lookup, no address, a forbidden one, no
\* connection, no time left.
Unsent == {"arguments", "credential", "slots", "lookup", "address", "connect",
           "deadline"}
Statuses == {200, 201, 204, 302, 304, 400, 401, 403, 404, 408, 422, 425, 429, 500, 503}

\* An answer may stop half-way, and its body may be something else than the
\* request asked for.  limited: its headers or text speak of a rate limit;
\* pause: what they say of the wait.
Requests ==
  [stops : Unsent \cup {"silence", "reset"}, hops : {0}]
    \cup [stops : (Unsent \ {"arguments", "credential"}) \cup {"silence", "reset"}, hops : {1}]
    \cup [stops : {"answered"}, hops : {0, 1}, status : Statuses,
          body : {"good", "other", "malformed", "late"}, limited : BOOLEAN,
          pause : {"short", "garbled", "beyond a day"}]

\* A redirect is followed by a read alone, within the origin.
MayHappen(a, q) == q.hops > 0 => a.method \in ReadMethods

Sent(q) == q.hops > 0 \/ q.stops \notin Unsent

Success == [code |-> "none", certain |-> FALSE]
Failure(code, certain) == [code |-> code, certain |-> certain]

UnsentCode(q) ==
  CASE q.stops = "arguments" -> "tool_input_invalid"
    [] q.stops \in {"credential", "address"} -> "tool_denied"
    [] q.stops \in {"slots", "lookup"} -> "tool_unavailable"
    [] q.stops = "connect" -> "tool_unavailable"
    [] OTHER -> "tool_timeout"

Unavailable(status) == status >= 500 \/ status \in {408, 425}

\* response_error of the GitHub adapter.  A pause that cannot be read counts
\* as an hour, one beyond a day denies the call.
GitHubError(q) ==
  IF q.body = "late" /\ q.status = 403 THEN Failure("tool_timeout", FALSE)
  ELSE IF q.status = 429 \/ (q.status = 403 /\ q.limited)
  THEN IF q.pause = "beyond a day" THEN Failure("tool_denied", TRUE)
       ELSE Failure("tool_rate_limit", TRUE)
  ELSE Failure(CASE Unavailable(q.status) -> "tool_unavailable"
                 [] q.status \in {400, 422} -> "tool_input_invalid"
                 [] OTHER -> "tool_denied",
               ~Unavailable(q.status))

\* Any other server's refusal proves nothing.
HTTPError(q) ==
  Failure(CASE q.status = 429 -> "tool_rate_limit"
            [] Unavailable(q.status) -> "tool_unavailable"
            [] OTHER -> "tool_denied", FALSE)

\* The answer to a POST of GitHub must be the created issue, by the right
\* author; HEAD and 204 have no body to be wrong, and any other body is left
\* to the contract of the tool (execute_tool).
Accepts(a, q) ==
  /\ \/ q.body = "good" \/ a.method = "HEAD"
     \/ a.tool = "http" /\ (q.body = "other" \/ q.status = 204)
  /\ q.body # "late"
  /\ a.tool = "github" => q.status = (IF SideEffecting(a) THEN 201 ELSE 200)

Answered(a, q) ==
  CASE q.status = 302 -> Failure("tool_denied", FALSE)
    [] q.status >= 400 -> IF a.tool = "github" THEN GitHubError(q) ELSE HTTPError(q)
    [] q.status = 304 -> Failure("tool_response_invalid", FALSE)
    [] OTHER -> IF Accepts(a, q) THEN Success
                ELSE Failure(IF q.body = "late" THEN "tool_timeout"
                             ELSE "tool_response_invalid", FALSE)

\* What invoke returns or raises.  Once a hop was sent only a failure that is
\* certain of itself stays so.
Outcome(a, q) ==
  CASE q.stops = "answered" -> Answered(a, q)
    [] q.stops = "silence" -> Failure("tool_timeout", FALSE)
    [] q.stops = "reset" -> Failure("tool_unavailable", FALSE)
    [] OTHER -> Failure(UnsentCode(q),
                        ~Sent(q) \/ q.stops \in {"slots", "lookup", "address"})

-----------------------------------------------------------------------------
(* Recovery of an effect in doubt. *)

\* HTTP: the key is sent again while the server is sure to remember it; the
\* age counts from the row, which was there before the first request.
Replayed(a, q, age, timeout, retention) ==
  IF age < 0 \/ age + timeout >= retention THEN "unknown"
  ELSE IF Outcome(a, q).code = "none" THEN "succeeded" ELSE "raises"

\* GitHub: issues are listed, newest first, until the pages or the listing end,
\* and those that carry the marker, our text and our author are counted.
\* Nothing found proves nothing.
Searched(listing, pages, size) ==
  LET seen == {listing[i] : i \in 1..(IF Len(listing) < pages * size
                                      THEN Len(listing) ELSE pages * size)}
      matches == {r.number : r \in {x \in seen : x.ours}}
  IN IF Cardinality(matches) = 1 THEN "succeeded" ELSE "unknown"

-----------------------------------------------------------------------------
(* A query of PostgreSQL: a read in a transaction that is never committed. *)

Queries == {"arguments", "credential", "slots", "deadline", "role", "rows", "size",
            "malformed", "57014", "28000", "42501", "25006", "22012", "42P02", "08006",
            "53300", "40001", "40P01", "57P01", "no code", "XX000", "done"}

Queried(x) ==
  IF x = "done" THEN Success
  ELSE Failure(
    CASE x \in {"deadline", "57014"} -> "tool_timeout"
      [] x \in {"credential", "role", "28000", "42501", "25006"} -> "tool_denied"
      [] x \in {"arguments", "22012", "42P02"} -> "tool_input_invalid"
      [] x \in {"slots", "08006", "53300", "40001", "40P01", "57P01", "no code"} ->
           "tool_unavailable"
      [] x \in {"rows", "size", "malformed"} -> "tool_response_invalid"
      [] OTHER -> "tool_failed", TRUE)

-----------------------------------------------------------------------------
(* What EffectLedger takes from here. *)

\* Outside: a server that answers so has not carried out the request.
Refusals == {400, 401, 403, 404, 422, 429}
MayHaveActed(q) == Sent(q) /\ (q.stops = "answered" => q.status \notin Refusals)

\* A write that fails for certain was never sent, or was refused, so the ledger
\* may say that nothing was done (EffectLedger, Refuse and GiveUp); what a
\* write returns as its success was sent.
ASSUME CertainMeansNothing ==
  \A a \in {b \in HTTPAdapters \cup GitHubAdapters : SideEffecting(b)} :
    \A q \in {r \in Requests : MayHappen(a, r)} :
      /\ Outcome(a, q).certain => ~MayHaveActed(q)
      /\ Outcome(a, q).code = "none" => Sent(q)

\* An effect in doubt is settled only by an answer that the server gives while
\* it remembers the key, or by one issue of ours; an issue that a moving
\* listing shows twice is one.
ASSUME DoubtIsKept ==
  /\ \A a \in {b \in HTTPAdapters : SideEffecting(b)}, q \in Requests :
       \A age \in -1..3, timeout \in 1..2, retention \in 0..3, spent \in 0..2 :
         Replayed(a, q, age, timeout, retention) = "succeeded" /\ spent <= timeout =>
           /\ q.stops = "answered" /\ q.status \in 200..299
           /\ age + spent \in 0..(retention - 1)
  /\ \A listing \in UNION {[1..k -> [number : 1..3, ours : BOOLEAN]] : k \in 1..3} :
       \A i \in DOMAIN listing :
         Searched(SubSeq(listing, 1, i) \o SubSeq(listing, i, Len(listing)), 2, 2)
           = Searched(listing, 2, 2)
=============================================================================
