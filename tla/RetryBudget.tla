---------------------------- MODULE RetryBudget ----------------------------
(***************************************************************************)
(* The life of a Retry through one logical request: attempts fail or are   *)
(* answered in any order, increment() is called on what happened, and the  *)
(* Retry it returns is passed to the next attempt (urlopen calls itself    *)
(* with it), until increment() raises or an attempt is final.              *)
(***************************************************************************)
EXTENDS RetryPolicy

CONSTANT Starts  \* the Retry objects a request may be started with

ASSUME StartsAreFresh ==
    /\ Starts \subseteq Retry
    /\ \A r \in Starts : /\ r.observed = 0
                         /\ r.redirect # Disabled
                         /\ r.total = Disabled => r.redirect = 0
                         /\ \A count \in {r.total, r.connect, r.read, r.redirect} :
                                count \in Int => count >= 0

VARIABLES initial,  \* the Retry the caller passed
          retry,    \* the Retry of the current attempt
          granted,  \* how many retries increment() has granted, by kind
          verdict   \* how the request ended, or "running"

vars == <<initial, retry, granted, verdict>>

Init ==
    /\ initial \in Starts
    /\ retry = initial
    /\ granted = [ev \in Events |-> 0]
    /\ verdict = "running"

(***************************************************************************)
(* urlopen calls increment() on an attempt that ended in ev; a redirect    *)
(* past the limit is returned to the caller when raise_on_redirect is off. *)
(***************************************************************************)
Increment(ev) ==
    /\ verdict = "running"
    /\ IF Verdict(retry, ev) = "retry"
       THEN /\ retry' = Incremented(retry, ev)
            /\ granted' = [granted EXCEPT ![ev] = @ + 1]
            /\ UNCHANGED verdict
       ELSE /\ verdict' = IF ev = "redirect" /\ ~retry.raise_on_redirect
                          THEN "response" ELSE Verdict(retry, ev)
            /\ UNCHANGED <<retry, granted>>
    /\ UNCHANGED initial

(* An attempt whose response is neither redirected nor retried. *)
Answer ==
    /\ verdict = "running"
    /\ verdict' = "response"
    /\ UNCHANGED <<initial, retry, granted>>

Next == Answer \/ \E ev \in Events : Increment(ev)

Spec == Init /\ [][Next]_vars
-----------------------------------------------------------------------------
GrantedTotal == granted["connect"] + granted["read"] + granted["other"]
                + granted["redirect"] + granted["status"]

(* No attempt is made on a count that has gone below zero. *)
TypeOK ==
    /\ initial \in Starts
    /\ retry \in Retry
    /\ \A count \in {retry.total, retry.connect, retry.read, retry.redirect} :
           count \in Int => count >= 0
    /\ granted \in [Events -> Nat]
    /\ verdict \in {"running", "response", "MaxRetryError", "reraise"}

(***************************************************************************)
(* "Total number of retries to allow. Takes precedence over other counts"  *)
(* (retry.py:41): whatever the mix of events, no more retries are granted  *)
(* than the total.  None is granted when the total is False: an error is   *)
(* raised again, and after a response the total would be -1.               *)
(***************************************************************************)
TotalHonoured ==
    /\ initial.total \in Int => GrantedTotal <= initial.total
    /\ initial.total = Disabled => GrantedTotal = 0

(***************************************************************************)
(* The limits by kind (connect, read, redirect) hold for their kind, at    *)
(* the same time as the total.                                             *)
(***************************************************************************)
KindsHonoured ==
    /\ initial.connect \in Int => granted["connect"] <= initial.connect
    /\ initial.connect = Disabled => granted["connect"] = 0
    /\ initial.read \in Int => granted["read"] <= initial.read
    /\ initial.read = Disabled => granted["read"] = 0
    /\ initial.redirect \in Int => granted["redirect"] <= initial.redirect

(***************************************************************************)
(* MaxRetryError is only raised for a limit that is really used up: some   *)
(* limit of the caller's equals the retries granted against it.            *)
(***************************************************************************)
ExhaustedOnlyAtALimit ==
    verdict = "MaxRetryError" =>
        \/ initial.total \in Int /\ GrantedTotal = initial.total
        \/ initial.total = Disabled
        \/ \E ev \in {"connect", "read", "redirect"} :
               initial[ev] \in Int /\ granted[ev] = initial[ev]

(***************************************************************************)
(* sleep() never waits less after one more attempt, and never more than    *)
(* BACKOFF_MAX.                                                            *)
(***************************************************************************)
BackoffGrows ==
    [][ /\ BackoffTime(retry') >= BackoffTime(retry)
        /\ BackoffTime(retry') <= BackoffMax ]_vars
=============================================================================
