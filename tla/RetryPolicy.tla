---------------------------- MODULE RetryPolicy ----------------------------
(***************************************************************************)
(* The immutable Retry object of yieldfrom_t/urllib3/util/retry.py, as     *)
(* operators on records.                                                   *)
(*                                                                         *)
(* A counter of a Retry is an integer, None (no limit) or Python's False   *)
(* (here Disabled).  False is an int in Python: subtracting one from it    *)
(* gives -1, and filter(None, ...) drops it as it drops 0 and None.        *)
(***************************************************************************)
EXTENDS Integers

CONSTANTS None,      \* Python's None: the counter sets no limit
          Disabled,  \* Python's False: retries of this kind are disabled
          BackoffMax \* Retry.BACKOFF_MAX, in units of the backoff factor

ASSUME RetryConstants ==
    /\ None \notin Int
    /\ Disabled \notin Int
    /\ None # Disabled
    /\ BackoffMax \in Nat

Counter == Int \cup {None, Disabled}

(***************************************************************************)
(* What increment() is told about: an error of a class it distinguishes, a *)
(* redirect response, or a response whose status forces a retry.           *)
(*   connect  ConnectTimeoutError                                          *)
(*   read     ReadTimeoutError or ProtocolError                            *)
(*   other    any other error (ProxyError)                                 *)
(*   redirect a response with a redirect location                          *)
(*   status   anything else: a response without one, or no response at all *)
(***************************************************************************)
ErrorEvents == {"connect", "read", "other"}
Events      == ErrorEvents \cup {"redirect", "status"}

Retry == [total : Counter, connect : Counter, read : Counter,
          redirect : Counter, raise_on_redirect : BOOLEAN, observed : Nat]

(***************************************************************************)
(* Retry(total, connect, read, redirect): a disabled total or redirect     *)
(* becomes a redirect limit of 0 that returns the response.                *)
(***************************************************************************)
NewRetry(total, connect, read, redirect) ==
    LET off == redirect = Disabled \/ total = Disabled
    IN  [total |-> total, connect |-> connect, read |-> read,
         redirect |-> IF off THEN 0 ELSE redirect,
         raise_on_redirect |-> ~off, observed |-> 0]

(***************************************************************************)
(* Retry.from_int(retries, redirect, default) for a count or False;        *)
(* `bool(redirect) and None` is None when redirects are followed and False *)
(* when they are not.                                                      *)
(***************************************************************************)
FromInt(count, redirect, default) ==
    IF count = None THEN default
    ELSE NewRetry(count, None, None, IF redirect THEN None ELSE Disabled)

(* `count -= 1` on a counter that is not None. *)
Decremented(count) ==
    IF count = None THEN None ELSE IF count = Disabled THEN -1 ELSE count - 1

(***************************************************************************)
(* increment() raises the error itself, and counts nothing, when retries   *)
(* (of this kind) are disabled.                                            *)
(***************************************************************************)
Reraises(r, ev) ==
    \/ r.total = Disabled /\ ev \in ErrorEvents
    \/ r.connect = Disabled /\ ev = "connect"
    \/ r.read = Disabled /\ ev = "read"

(* A bug-shaped variant for sensitivity checks: the read counter forgotten. *)
IncrementedNoRead(r, ev) ==
    [r EXCEPT !.total = Decremented(@),
              !.connect = IF ev = "connect" THEN Decremented(@) ELSE @,
              !.redirect = IF ev = "redirect" THEN Decremented(@) ELSE @,
              !.observed = IF ev = "redirect" THEN @ ELSE @ + 1]

(* The same, with the total left alone by redirects. *)
IncrementedFreeRedirect(r, ev) ==
    [r EXCEPT !.total = IF ev = "redirect" THEN @ ELSE Decremented(@),
              !.connect = IF ev = "connect" THEN Decremented(@) ELSE @,
              !.read = IF ev = "read" THEN Decremented(@) ELSE @,
              !.redirect = IF ev = "redirect" THEN Decremented(@) ELSE @,
              !.observed = IF ev = "redirect" THEN @ ELSE @ + 1]

(***************************************************************************)
(* The Retry that increment() builds: the total and the counter of the     *)
(* event's kind go down, and everything but a redirect is an observed      *)
(* error, on which the backoff grows.                                      *)
(***************************************************************************)
Incremented(r, ev) ==
    [r EXCEPT !.total = Decremented(@),
              !.connect = IF ev = "connect" THEN Decremented(@) ELSE @,
              !.read = IF ev = "read" THEN Decremented(@) ELSE @,
              !.redirect = IF ev = "redirect" THEN Decremented(@) ELSE @,
              !.observed = IF ev = "redirect" THEN @ ELSE @ + 1]

IsExhaustedLate(r) ==
    \E count \in {r.total, r.connect, r.read, r.redirect} \ {None, Disabled} :
        count < -1

(* is_exhausted(): the smallest of the non-zero counts is negative. *)
IsExhausted(r) ==
    \E count \in {r.total, r.connect, r.read, r.redirect} \ {None, Disabled} :
        count < 0

VerdictAtZero(r, ev) ==
    IF Reraises(r, ev) THEN "reraise"
    ELSE IF \E count \in {Incremented(r, ev).total, Incremented(r, ev).connect,
                         Incremented(r, ev).read, Incremented(r, ev).redirect}
                        \ {None, Disabled} : count <= 0
         THEN "MaxRetryError"
    ELSE "retry"

(* What a call of increment() comes to. *)
Verdict(r, ev) ==
    IF Reraises(r, ev) THEN "reraise"
    ELSE IF IsExhausted(Incremented(r, ev)) THEN "MaxRetryError"
    ELSE "retry"

BackoffEager(r) ==
    LET wait == 2 ^ (r.observed - 1)
    IN  IF r.observed = 0 THEN 0 ELSE wait

(***************************************************************************)
(* get_backoff_time() in units of the backoff factor: none after the first *)
(* error, then doubling up to the cap.                                     *)
(***************************************************************************)
BackoffTime(r) ==
    IF r.observed <= 1 THEN 0
    ELSE LET wait == 2 ^ (r.observed - 1)
         IN  IF wait < BackoffMax THEN wait ELSE BackoffMax
=============================================================================
