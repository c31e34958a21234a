---------------------------- MODULE MCPoolManager ----------------------------
(***************************************************************************)
(* Instances of PoolManager for TLC: plain HTTP through a proxy's pool,    *)
(* and secure hosts with pools of their own.                               *)
(***************************************************************************)
EXTENDS PoolManager, TLC

CONSTANTS t1, t2, http1, http2, https1, https2, p1, p2, p3, p4

OneTask  == {t1}
TwoTasks == {t1, t2}
Plain    == {http1}
Secure   == {https1, https2}
Both     == Plain \cup Secure
FourPools == {p1, p2, p3, p4}

(* retries=1, and a Retry that allows an error but no redirect. *)
OneRetry    == {CountArg(1)}
NoRedirects == {RetryArg(NewRetry(1, None, None, 0))}

ClearAndShut == {"clear", "shut"}
Undisturbed  == {}

Interchangeable == Permutations(Tasks) \cup Permutations(Pools) \cup Permutations(SecureHosts)
=============================================================================
