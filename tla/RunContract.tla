----------------------------- MODULE RunContract -----------------------------
(***************************************************************************)
(* What the durable engine promises of one linear run, without queue,      *)
(* leases, clocks or workers: nodes are tried one at a time, each within   *)
(* its attempt budget, each is done at most once and stays done, and the   *)
(* run ends once, successfully only with nothing left half done.           *)
(***************************************************************************)
EXTENDS Naturals

CONSTANTS Nodes, MaxAttempts

VARIABLES status, done, tries

contractVars == <<status, done, tries>>

Ended == {"completed", "failed", "cancelled"}
InProgress(n) == tries[n] > 0 /\ n \notin done

Init ==
  /\ status = "pending"
  /\ done = {}
  /\ tries = [n \in Nodes |-> 0]

\* Node n is tried; no other node may be in progress.
Try(n) ==
  /\ n \notin done
  /\ tries[n] < MaxAttempts[n]
  /\ \A m \in Nodes : InProgress(m) => m = n
  /\ tries' = [tries EXCEPT ![n] = @ + 1]
  /\ UNCHANGED done

Start(n) ==
  /\ status \in {"pending", "running"}
  /\ Try(n)
  /\ status' \in {"running", "waiting"}

\* The node in progress is done, its result recorded for good.
Complete(n) ==
  /\ status \in {"running", "waiting"}
  /\ InProgress(n)
  /\ done' = done \cup {n}
  /\ status' = "running"
  /\ UNCHANGED tries

\* Success leaves nothing in progress.
Finish ==
  /\ status \in {"pending", "running"}
  /\ \A n \in Nodes : ~InProgress(n)
  /\ status' = "completed"
  /\ UNCHANGED <<done, tries>>

\* Failure and cancellation may come at any time, once.
Stop ==
  /\ status \notin Ended
  /\ status' \in {"failed", "cancelled"}
  /\ \/ UNCHANGED <<done, tries>>
     \/ \E n \in Nodes : Try(n)

Next ==
  \/ \E n \in Nodes : Start(n) \/ Complete(n)
  \/ Finish \/ Stop

Spec == Init /\ [][Next]_contractVars
=============================================================================
