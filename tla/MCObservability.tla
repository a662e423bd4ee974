--------------------------- MODULE MCObservability ---------------------------
(* Two requests, so that one may be pending while the other one is over.    *)
EXTENDS Observability

CONSTANTS t1, t2

TwoTransactions == {t1, t2}
=============================================================================
