----------------------------- MODULE MCContext ------------------------------
(* Instances of Context for TLC: two coroutines that call twice, so that    *)
(* one can be served before and after the other and the heartbeat.          *)
EXTENDS Context

CONSTANTS a, b

TwoCallers == {a, b}
=============================================================================
