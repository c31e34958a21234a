----------------------------- MODULE MCTimeouts -----------------------------
EXTENDS Timeouts, TLC

CONSTANTS t1, t2, shared

TwoTasks  == {t1, t2}
OneObject == {shared}

(* Limits below, at and above the totals, and none. *)
AnySettings ==
    [connect : {1, 3, None, Default}, read : {1, 3, None, Default}, total : {0, 2, None}]

Interchangeable == Permutations(Tasks)
=============================================================================
