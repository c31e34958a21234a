------------------------- MODULE RetryBudgetProofs -------------------------
(***************************************************************************)
(* Proofs that a request is granted no more retries than its Retry allows, *)
(* for any Retry it may start with.                                        *)
(***************************************************************************)
EXTENDS RetryBudget, FiniteSetTheorems, TLAPS

(* Retry objects stay Retry objects. *)
LEMMA IncrementedType ==
    ASSUME NEW r \in Retry, NEW ev \in Events
    PROVE  Incremented(r, ev) \in Retry
<1>1. \A count \in Counter : Decremented(count) \in Counter
    BY RetryConstants DEF Decremented, Counter
<1>2. r.observed + 1 \in Nat
    BY DEF Retry
<1> QED
    BY <1>1, <1>2 DEF Incremented, Retry

(* The counters of a Retry that is not exhausted are not negative. *)
LEMMA NotExhausted ==
    ASSUME NEW r, ~IsExhausted(r)
    PROVE  /\ r.total \in Int => r.total >= 0
           /\ r.connect \in Int => r.connect >= 0
           /\ r.read \in Int => r.read >= 0
           /\ r.redirect \in Int => r.redirect >= 0
<1>1. \A count \in {r.total, r.connect, r.read, r.redirect} :
          count \in Int => count \notin {None, Disabled} /\ ~(count < 0)
    BY RetryConstants DEF IsExhausted
<1> QED
    BY <1>1


LEMMA TypeStep == TypeOK /\ [Next]_vars => TypeOK'
<1> SUFFICES ASSUME TypeOK, [Next]_vars PROVE TypeOK'
    OBVIOUS
<1>1. ASSUME NEW ev \in Events, Increment(ev) PROVE TypeOK'
  <2>1. retry' \in Retry
      BY <1>1, IncrementedType DEF TypeOK, Increment
  <2>2. granted' \in [Events -> Nat]
      BY <1>1 DEF TypeOK, Increment
  <2>3. verdict' \in {"running", "response", "MaxRetryError", "reraise"}
      BY <1>1 DEF TypeOK, Increment, Verdict
  <2>4. \A count \in {retry'.total, retry'.connect, retry'.read, retry'.redirect} :
            count \in Int => count >= 0
      BY <1>1, NotExhausted DEF TypeOK, Increment, Verdict
  <2> QED
      BY <1>1, <2>1, <2>2, <2>3, <2>4 DEF TypeOK, Increment
<1>2. ASSUME Answer PROVE TypeOK'
    BY <1>2 DEF TypeOK, Answer
<1>3. ASSUME UNCHANGED vars PROVE TypeOK'
    BY <1>3 DEF TypeOK, vars
<1> QED
    BY <1>1, <1>2, <1>3 DEF Next

(***************************************************************************)
(* The Retry of an attempt keeps account of the retries granted so far:    *)
(* each limit of the caller's has gone down by those granted against it,   *)
(* and never below zero.                                                   *)
(***************************************************************************)
Used(count, first, n) ==
    /\ first \in Int => count = first - n /\ count >= 0
    /\ first = None => count = None
    /\ first = Disabled => count = Disabled /\ n = 0

Account ==
    /\ Used(retry.total, initial.total, GrantedTotal)
    /\ Used(retry.connect, initial.connect, granted["connect"])
    /\ Used(retry.read, initial.read, granted["read"])
    /\ Used(retry.redirect, initial.redirect, granted["redirect"])

(* One more retry of a kind, granted because nothing is exhausted by it. *)
LEMMA UsedOnce ==
    ASSUME NEW count, NEW first \in Counter, NEW n \in Nat, Used(count, first, n),
           count # Disabled,
           Decremented(count) \in Int => Decremented(count) >= 0
    PROVE  Used(Decremented(count), first, n + 1)
<1>1. CASE first \in Int
    BY <1>1, RetryConstants DEF Used, Decremented
<1>2. CASE first = None
    BY <1>2, RetryConstants DEF Used, Decremented
<1>3. CASE first = Disabled
    BY <1>3 DEF Used
<1> QED
    BY <1>1, <1>2, <1>3 DEF Counter

(* A count that the next retry would take below zero has nothing left. *)
LEMMA UsedUp ==
    ASSUME NEW count, NEW first \in Counter, NEW n \in Nat, Used(count, first, n),
           count # Disabled, Decremented(count) \notin {None, Disabled},
           Decremented(count) < 0
    PROVE  first \in Int /\ n = first
<1>1. CASE first \in Int
    BY <1>1, RetryConstants DEF Used, Decremented
<1>2. CASE first = None
    BY <1>2, RetryConstants DEF Used, Decremented
<1>3. CASE first = Disabled
    BY <1>3 DEF Used
<1> QED
    BY <1>1, <1>2, <1>3 DEF Counter

(* A count that is not touched is not below zero. *)
LEMMA Unspent ==
    ASSUME NEW count, NEW first \in Counter, NEW n \in Nat, Used(count, first, n),
           count \notin {None, Disabled}
    PROVE  ~(count < 0)
BY RetryConstants DEF Used, Counter

LEMMA CountsGranted ==
    ASSUME TypeOK, NEW ev \in Events, granted' = [granted EXCEPT ![ev] = @ + 1]
    PROVE  /\ GrantedTotal \in Nat /\ GrantedTotal' = GrantedTotal + 1
           /\ \A kind \in Events : /\ granted[kind] \in Nat
                                   /\ granted'[kind] = IF kind = ev THEN granted[kind] + 1
                                                       ELSE granted[kind]
<1>1. Events = {"connect", "read", "other", "redirect", "status"}
    BY DEF Events, ErrorEvents
<1>2. \A kind \in Events : /\ granted[kind] \in Nat
                           /\ granted'[kind] = IF kind = ev THEN granted[kind] + 1
                                               ELSE granted[kind]
    BY DEF TypeOK
<1>4. /\ granted["connect"] \in Nat /\ granted["read"] \in Nat
      /\ granted["other"] \in Nat /\ granted["redirect"] \in Nat
      /\ granted["status"] \in Nat
    BY <1>1, <1>2
<1>5. /\ granted'["connect"] \in Nat /\ granted'["read"] \in Nat
      /\ granted'["other"] \in Nat /\ granted'["redirect"] \in Nat
      /\ granted'["status"] \in Nat
    BY <1>1, <1>2
<1>6. /\ granted'["connect"] = granted["connect"] + (IF ev = "connect" THEN 1 ELSE 0)
      /\ granted'["read"] = granted["read"] + (IF ev = "read" THEN 1 ELSE 0)
      /\ granted'["other"] = granted["other"] + (IF ev = "other" THEN 1 ELSE 0)
      /\ granted'["redirect"] = granted["redirect"] + (IF ev = "redirect" THEN 1 ELSE 0)
      /\ granted'["status"] = granted["status"] + (IF ev = "status" THEN 1 ELSE 0)
    BY <1>1, <1>2, <1>4
<1>7. GrantedTotal \in Nat /\ GrantedTotal' = GrantedTotal + 1
  <2>1. GrantedTotal' = granted'["connect"] + granted'["read"] + granted'["other"]
                        + granted'["redirect"] + granted'["status"]
      BY DEF GrantedTotal
  <2>2. GrantedTotal' = granted["connect"] + granted["read"] + granted["other"]
                        + granted["redirect"] + granted["status"] + 1
      BY <1>1, <1>4, <1>5, <1>6, <2>1
  <2> QED
      BY <1>4, <2>2 DEF GrantedTotal
<1> QED
    BY <1>2, <1>7

LEMMA AccountStep == TypeOK /\ Account /\ [Next]_vars => Account'
<1> SUFFICES ASSUME TypeOK, Account, [Next]_vars PROVE Account'
    OBVIOUS
<1>1. ASSUME UNCHANGED <<initial, retry, granted>> PROVE Account'
    BY <1>1 DEF Account, Used, GrantedTotal
<1>2. ASSUME NEW ev \in Events, Increment(ev), Verdict(retry, ev) = "retry"
      PROVE  Account'
  <2>1. /\ retry' = Incremented(retry, ev) /\ initial' = initial
        /\ granted' = [granted EXCEPT ![ev] = @ + 1]
        /\ ~Reraises(retry, ev) /\ ~IsExhausted(Incremented(retry, ev))
      BY <1>2 DEF Increment, Verdict
  <2>2. initial \in Retry /\ initial.redirect # Disabled /\ retry \in Retry
      BY StartsAreFresh DEF TypeOK
  <2>3. /\ initial.total \in Counter /\ initial.connect \in Counter
        /\ initial.read \in Counter /\ initial.redirect \in Counter
      BY <2>2 DEF Retry
  <2>4. /\ retry'.total = Decremented(retry.total)
        /\ retry'.connect = IF ev = "connect" THEN Decremented(retry.connect) ELSE retry.connect
        /\ retry'.read = IF ev = "read" THEN Decremented(retry.read) ELSE retry.read
        /\ retry'.redirect = IF ev = "redirect" THEN Decremented(retry.redirect) ELSE retry.redirect
      BY <2>1, <2>2 DEF Incremented, Retry
  <2>5. /\ retry'.total \in Int => retry'.total >= 0
        /\ retry'.connect \in Int => retry'.connect >= 0
        /\ retry'.read \in Int => retry'.read >= 0
        /\ retry'.redirect \in Int => retry'.redirect >= 0
      BY <2>1, NotExhausted
  <2>6. /\ retry.total # Disabled
        /\ retry.redirect # Disabled
        /\ ev = "connect" => retry.connect # Disabled
        /\ ev = "read" => retry.read # Disabled
    <3>1. retry.total # Disabled
        BY <2>4, <2>5, RetryConstants DEF Decremented
    <3>2. retry.redirect # Disabled
      <4>1. granted["redirect"] \in Nat
          BY DEF TypeOK, Events
      <4>2. initial.redirect \in Int \/ initial.redirect = None
          BY <2>2, <2>3 DEF Counter
      <4>3. CASE initial.redirect \in Int
          BY <4>1, <4>3, RetryConstants DEF Account, Used
      <4>4. CASE initial.redirect = None
          BY <4>4, RetryConstants DEF Account, Used
      <4> QED
          BY <4>2, <4>3, <4>4
    <3> QED
        BY <2>1, <3>1, <3>2 DEF Reraises
  <2>7. /\ GrantedTotal \in Nat /\ GrantedTotal' = GrantedTotal + 1
        /\ \A kind \in Events : /\ granted[kind] \in Nat
                                /\ granted'[kind] = IF kind = ev THEN granted[kind] + 1
                                                    ELSE granted[kind]
      BY <2>1, CountsGranted
  <2>8. {"connect", "read", "redirect"} \subseteq Events
      BY DEF Events, ErrorEvents
  <2>9. Used(retry'.total, initial.total, GrantedTotal')
      BY <2>3, <2>4, <2>5, <2>6, <2>7, UsedOnce DEF Account
  <2>10. Used(retry'.connect, initial.connect, granted'["connect"])
      BY <2>3, <2>4, <2>5, <2>6, <2>7, <2>8, UsedOnce DEF Account
  <2>11. Used(retry'.read, initial.read, granted'["read"])
      BY <2>3, <2>4, <2>5, <2>6, <2>7, <2>8, UsedOnce DEF Account
  <2>12. Used(retry'.redirect, initial.redirect, granted'["redirect"])
      BY <2>3, <2>4, <2>5, <2>6, <2>7, <2>8, UsedOnce DEF Account
  <2> QED
      BY <2>1, <2>9, <2>10, <2>11, <2>12 DEF Account
<1> QED
    BY <1>1, <1>2 DEF Next, Increment, Answer, vars

LEMMA AccountInit == Init => TypeOK /\ Account
<1> SUFFICES ASSUME Init PROVE TypeOK /\ Account
    OBVIOUS
<1>1. initial \in Retry /\ retry = initial
      /\ \A count \in {initial.total, initial.connect, initial.read, initial.redirect} :
            count \in Int => count >= 0
    BY StartsAreFresh DEF Init
<1>2. GrantedTotal = 0 /\ \A ev \in Events : granted[ev] = 0
    BY DEF Init, GrantedTotal, Events, ErrorEvents
<1>3. {"connect", "read", "redirect"} \subseteq Events
    BY DEF Events, ErrorEvents
<1>4. TypeOK
    BY <1>1 DEF Init, TypeOK
<1>5. Account
    BY <1>1, <1>2, <1>3, RetryConstants DEF Account, Used, Retry
<1> QED
    BY <1>4, <1>5

(* Every variable keeps its type. *)
THEOREM BudgetTypeCorrect == Spec => []TypeOK
    BY AccountInit, TypeStep, PTL DEF Spec

(***************************************************************************)
(* increment() grants no more retries than the total, whatever happens in  *)
(* whatever order, and none if the total is False.                         *)
(***************************************************************************)
THEOREM TotalIsHonoured == Spec => []TotalHonoured
<1>1. TypeOK /\ Account => TotalHonoured
  <2> SUFFICES ASSUME TypeOK, Account PROVE TotalHonoured
      OBVIOUS
  <2>1. \A ev \in Events : granted[ev] \in Nat
      BY DEF TypeOK
  <2>2. GrantedTotal \in Nat
      BY <2>1 DEF GrantedTotal, Events, ErrorEvents
  <2> QED
      BY <2>2 DEF Account, Used, TotalHonoured
<1> QED
    BY <1>1, AccountInit, TypeStep, AccountStep, PTL DEF Spec

(* The limits by kind hold at the same time. *)
THEOREM KindsAreHonoured == Spec => []KindsHonoured
<1>1. TypeOK /\ Account => KindsHonoured
  <2> SUFFICES ASSUME TypeOK, Account PROVE KindsHonoured
      OBVIOUS
  <2>1. /\ granted["connect"] \in Nat /\ granted["read"] \in Nat
        /\ granted["redirect"] \in Nat
      BY DEF TypeOK, Events, ErrorEvents
  <2> QED
      BY <2>1 DEF Account, Used, KindsHonoured
<1> QED
    BY <1>1, AccountInit, TypeStep, AccountStep, PTL DEF Spec

(***************************************************************************)
(* MaxRetryError always has a limit of the caller's behind it: the count   *)
(* that went below zero had been used up to its last retry.                *)
(***************************************************************************)
THEOREM ExhaustionIsReal == Spec => []ExhaustedOnlyAtALimit
<1>1. TypeOK /\ Account /\ ExhaustedOnlyAtALimit /\ [Next]_vars => ExhaustedOnlyAtALimit'
  <2> SUFFICES ASSUME TypeOK, Account, ExhaustedOnlyAtALimit, [Next]_vars,
                      verdict' = "MaxRetryError"
               PROVE  ExhaustedOnlyAtALimit'
      BY DEF ExhaustedOnlyAtALimit
  <2>1. CASE UNCHANGED vars
      BY <2>1 DEF ExhaustedOnlyAtALimit, GrantedTotal, vars
  <2>2. CASE Answer
      BY <2>2 DEF Answer
  <2>3. ASSUME NEW ev \in Events, Increment(ev)
        PROVE  ExhaustedOnlyAtALimit'
    <3>1. Verdict(retry, ev) # "retry"
        BY <2>3 DEF Increment, TypeOK
    <3>2. /\ UNCHANGED <<initial, granted>>
          /\ ~Reraises(retry, ev) /\ IsExhausted(Incremented(retry, ev))
        BY <2>3, <3>1 DEF Increment, Verdict
    <3>3. SUFFICES ASSUME initial.total # Disabled PROVE ExhaustedOnlyAtALimit'
        BY <3>2 DEF ExhaustedOnlyAtALimit
    <3>4. /\ initial \in Retry /\ initial.redirect # Disabled
          /\ retry \in Retry
          /\ GrantedTotal' = GrantedTotal
        BY <3>2, StartsAreFresh DEF TypeOK, GrantedTotal
    <3>5. /\ initial.total \in Counter /\ initial.connect \in Counter
          /\ initial.read \in Counter /\ initial.redirect \in Counter
        BY <3>4 DEF Retry
    <3>6. /\ GrantedTotal \in Nat /\ granted["connect"] \in Nat
          /\ granted["read"] \in Nat /\ granted["redirect"] \in Nat
      <4>1. \A kind \in Events : granted[kind] \in Nat
          BY DEF TypeOK
      <4> QED
          BY <4>1 DEF GrantedTotal, Events, ErrorEvents
    <3>7. PICK count \in {Decremented(retry.total),
              IF ev = "connect" THEN Decremented(retry.connect) ELSE retry.connect,
              IF ev = "read" THEN Decremented(retry.read) ELSE retry.read,
              IF ev = "redirect" THEN Decremented(retry.redirect) ELSE retry.redirect}
              \ {None, Disabled} : count < 0
      <4>1. /\ Incremented(retry, ev).total = Decremented(retry.total)
            /\ Incremented(retry, ev).connect =
                   (IF ev = "connect" THEN Decremented(retry.connect) ELSE retry.connect)
            /\ Incremented(retry, ev).read =
                   (IF ev = "read" THEN Decremented(retry.read) ELSE retry.read)
            /\ Incremented(retry, ev).redirect =
                   (IF ev = "redirect" THEN Decremented(retry.redirect) ELSE retry.redirect)
          BY <3>4 DEF Incremented, Retry
      <4> QED
          BY <3>2, <4>1 DEF IsExhausted
    <3>8. CASE count = Decremented(retry.total)
      <4>1. Used(retry.total, initial.total, GrantedTotal)
          BY DEF Account
      <4>2. retry.total # Disabled
          BY <3>3, <3>5, <3>6, <4>1, RetryConstants DEF Used, Counter
      <4>3. initial.total \in Int /\ GrantedTotal = initial.total
          BY <3>5, <3>6, <3>7, <3>8, <4>1, <4>2, UsedUp
      <4> QED
          BY <3>2, <3>4, <4>3 DEF ExhaustedOnlyAtALimit
    <3>9. CASE count = IF ev = "connect" THEN Decremented(retry.connect) ELSE retry.connect
      <4>1. Used(retry.connect, initial.connect, granted["connect"])
          BY DEF Account
      <4>2. ev = "connect"
          BY <3>5, <3>6, <3>7, <3>9, <4>1, Unspent
      <4>3. retry.connect # Disabled
          BY <3>2, <4>2 DEF Reraises
      <4>4. initial.connect \in Int /\ granted["connect"] = initial.connect
          BY <3>5, <3>6, <3>7, <3>9, <4>1, <4>2, <4>3, UsedUp
      <4> QED
          BY <3>2, <4>4 DEF ExhaustedOnlyAtALimit
    <3>10. CASE count = IF ev = "read" THEN Decremented(retry.read) ELSE retry.read
      <4>1. Used(retry.read, initial.read, granted["read"])
          BY DEF Account
      <4>2. ev = "read"
          BY <3>5, <3>6, <3>7, <3>10, <4>1, Unspent
      <4>3. retry.read # Disabled
          BY <3>2, <4>2 DEF Reraises
      <4>4. initial.read \in Int /\ granted["read"] = initial.read
          BY <3>5, <3>6, <3>7, <3>10, <4>1, <4>2, <4>3, UsedUp
      <4> QED
          BY <3>2, <4>4 DEF ExhaustedOnlyAtALimit
    <3>11. CASE count = IF ev = "redirect" THEN Decremented(retry.redirect) ELSE retry.redirect
      <4>1. Used(retry.redirect, initial.redirect, granted["redirect"])
          BY DEF Account
      <4>2. ev = "redirect"
          BY <3>5, <3>6, <3>7, <3>11, <4>1, Unspent
      <4>3. retry.redirect # Disabled
          BY <3>4, <3>5, <3>6, <4>1, RetryConstants DEF Used, Counter
      <4>4. initial.redirect \in Int /\ granted["redirect"] = initial.redirect
          BY <3>5, <3>6, <3>7, <3>11, <4>1, <4>2, <4>3, UsedUp
      <4> QED
          BY <3>2, <4>4 DEF ExhaustedOnlyAtALimit
    <3> QED
        BY <3>7, <3>8, <3>9, <3>10, <3>11
  <2> QED
      BY <2>1, <2>2, <2>3 DEF Next
<1>2. Init => ExhaustedOnlyAtALimit
    BY DEF Init, ExhaustedOnlyAtALimit
<1> QED
    BY <1>1, <1>2, AccountInit, TypeStep, AccountStep, PTL DEF Spec

(* Powers of two are numbers, and the larger the exponent the larger they *)
(* are: they count the subsets of 1..n.                                   *)
LEMMA PowersGrow ==
    ASSUME NEW n \in Nat
    PROVE  2 ^ n \in Nat /\ 2 ^ (n + 1) \in Nat /\ 2 ^ n <= 2 ^ (n + 1)
<1> DEFINE Subsets(m) == SUBSET (1..m)
<1>1. ASSUME NEW m \in Nat
      PROVE  /\ IsFiniteSet(Subsets(m)) /\ Cardinality(Subsets(m)) \in Nat
             /\ Cardinality(Subsets(m)) = 2 ^ m
  <2>1. IsFiniteSet(1..m) /\ Cardinality(1..m) = m
      BY FS_Interval
  <2>2. IsFiniteSet(Subsets(m)) /\ Cardinality(Subsets(m)) = 2 ^ Cardinality(1..m)
      BY <2>1, FS_SUBSET
  <2> QED
      BY <2>1, <2>2, FS_CardinalityType
<1>2. Subsets(n) \subseteq Subsets(n + 1)
    OBVIOUS
<1>3. n + 1 \in Nat
    OBVIOUS
<1> HIDE DEF Subsets
<1>4. Cardinality(Subsets(n)) <= Cardinality(Subsets(n + 1))
    BY <1>1, <1>2, <1>3, FS_Subset
<1> QED
    BY <1>1, <1>3, <1>4

(* One more error doubles the wait, up to the cap. *)
LEMMA BackoffAfterOneMore ==
    ASSUME NEW r \in Retry, NEW later \in Retry,
           later.observed = r.observed \/ later.observed = r.observed + 1
    PROVE  BackoffTime(later) >= BackoffTime(r) /\ BackoffTime(later) <= BackoffMax
<1> DEFINE n == r.observed
<1>1. n \in Nat /\ BackoffMax \in Nat
    BY RetryConstants DEF Retry
<1>2. CASE later.observed = r.observed
  <2>1. CASE n <= 1
      BY <1>1, <1>2, <2>1 DEF BackoffTime
  <2>2. CASE n > 1
    <3>1. n - 1 \in Nat /\ 2 ^ (n - 1) \in Nat
        BY <1>1, <2>2, PowersGrow
    <3> QED
        BY <1>1, <1>2, <2>2, <3>1 DEF BackoffTime
  <2> QED
      BY <1>1, <2>1, <2>2
<1>3. CASE later.observed = r.observed + 1
  <2>1. CASE n = 0
      BY <1>1, <1>3, <2>1 DEF BackoffTime
  <2>2. CASE n >= 1
    <3>1. n - 1 \in Nat /\ (n - 1) + 1 = n /\ later.observed - 1 = n
        BY <1>1, <1>3, <2>2
    <3>2. 2 ^ (n - 1) \in Nat /\ 2 ^ n \in Nat /\ 2 ^ (n - 1) <= 2 ^ n
        BY <3>1, PowersGrow
    <3>3. BackoffTime(later) = IF 2 ^ n < BackoffMax THEN 2 ^ n ELSE BackoffMax
        BY <1>1, <1>3, <2>2, <3>1 DEF BackoffTime
    <3>4. BackoffTime(r) = IF n <= 1 THEN 0
                           ELSE IF 2 ^ (n - 1) < BackoffMax THEN 2 ^ (n - 1) ELSE BackoffMax
        BY DEF BackoffTime
    <3> QED
        BY <1>1, <3>2, <3>3, <3>4
  <2> QED
      BY <1>1, <2>1, <2>2
<1> QED
    BY <1>2, <1>3

(***************************************************************************)
(* Each retry waits at least as long as the one before it, and never       *)
(* longer than BACKOFF_MAX: new() carries over the errors observed.        *)
(***************************************************************************)
THEOREM BackoffIsMonotone == Spec => BackoffGrows
<1>1. TypeOK /\ [Next]_vars =>
         [BackoffTime(retry') >= BackoffTime(retry) /\ BackoffTime(retry') <= BackoffMax]_vars
  <2> SUFFICES ASSUME TypeOK, [Next]_vars
               PROVE  BackoffTime(retry') >= BackoffTime(retry) /\ BackoffTime(retry') <= BackoffMax
      OBVIOUS
  <2>1. retry \in Retry /\ retry' \in Retry
      BY TypeStep DEF TypeOK
  <2>2. retry'.observed = retry.observed \/ retry'.observed = retry.observed + 1
    <3>1. ASSUME NEW ev \in Events
          PROVE  Incremented(retry, ev).observed \in {retry.observed, retry.observed + 1}
        BY <2>1 DEF Incremented, Retry
    <3>2. retry' = retry \/ \E ev \in Events : retry' = Incremented(retry, ev)
        BY DEF Next, Answer, Increment, vars
    <3> QED
        BY <3>1, <3>2
  <2> QED
      BY <2>1, <2>2, BackoffAfterOneMore
<1> QED
    BY <1>1, AccountInit, TypeStep, PTL DEF Spec, BackoffGrows
=============================================================================
