--------------------------- MODULE MCEffectLedger ---------------------------
(***************************************************************************)
(* Small instances of EffectLedger for TLC.                                *)
(***************************************************************************)
EXTENDS EffectLedger, ToolAdapters, TLC

\* A plain POST; a provider that honours keys on every request; GitHub, which
\* is searched for the effect; HTTP with a key, which recovers by replaying.
AllProviders ==
  { [recovery |-> "none", keyed |-> FALSE],
    [recovery |-> "idempotent", keyed |-> TRUE],
    [recovery |-> "reconcile", keyed |-> FALSE],
    [recovery |-> "reconcile", keyed |-> TRUE] }

\* The adapters that come with the program are among them.
ASSUME BuiltInProviders == BuiltIn \subseteq AllProviders

WorkerSymmetry == Permutations(Workers)
=============================================================================
