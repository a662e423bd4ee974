--------------------------- MODULE MCTaskExchange ---------------------------
(* Instances of TaskExchange for TLC: the worker ids are model values that  *)
(* the safety runs may permute.                                             *)
EXTENDS TaskExchange, TLC

CONSTANTS w1, w2

OneExchange == {w1}
TwoExchanges == {w1, w2}
Symmetry == Permutations(TwoExchanges)

\* A task without retries, and one in its last attempt.
FreshOrLastRetry == {NotSet, 1}
OnlyNotSet == {NotSet}
AllOutcomes == Results \cup Exceptions
CoreOutcomes == {"execute.complete", "Retry"}
FatalOnly == {"Fatal"}
GivenRetries == {0, 1}
NoGivenRetries == {0}
=============================================================================
