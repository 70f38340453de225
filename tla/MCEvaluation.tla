---- MODULE MCEvaluation ----
\* A multi-agent run and a baseline of the same input that can be promoted.
EXTENDS Evaluation
BothModes == <<"multi_agent", "baseline">>
OneBaseline == <<"baseline">>
====
