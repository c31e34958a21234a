-------------------------- MODULE MCRetryBudget --------------------------
EXTENDS RetryBudget

(* Totals up to 3 against limits by kind below, at and above them. *)
MCStarts ==
    { NewRetry(total, connect, read, redirect) :
        total \in {0, 1, 3, Disabled}, connect \in {0, 2, None, Disabled},
        read \in {1, None, Disabled}, redirect \in {0, 2, None, Disabled} }
=============================================================================
