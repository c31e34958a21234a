----------------------------- MODULE PoolManager -----------------------------
(***************************************************************************)
(* PoolManager and ProxyManager of yieldfrom_t/urllib3/poolmanager.py: the *)
(* pools kept by host, and requests that follow redirects between hosts.   *)
(*                                                                         *)
(* Several tasks share one manager.  connection_from_host holds the        *)
(* container's lock from the lookup to the eviction, so it is one step; a  *)
(* task then has a pool, but no connection of it yet.                      *)
(***************************************************************************)
EXTENDS RetryPolicy, RecentlyUsed, FiniteSets

CONSTANTS
    Tasks,        \* the coroutines that make requests
    Hosts,        \* (scheme, host, port) of the URLs in use
    SecureHosts,  \* those of them with the scheme https
    Proxied,      \* whether this is a ProxyManager
    ProxyHost,    \* its proxy
    Pools,        \* identities of connection pools
    NoPool,
    NumPools,     \* how many pools the manager keeps
    RetriesArgs,  \* what callers pass as retries=
    HopBound,     \* where the count of redirects followed saturates
    Disturbances  \* what users of it may do: a subset of {"clear", "shut"}

(***************************************************************************)
(* retries= is a Retry, or a count (an integer, False, or None if absent), *)
(* which each function that meets it turns into a Retry of its own.        *)
(***************************************************************************)
CountArg(count) == [given |-> "count", count |-> count]
RetryArg(retry) == [given |-> "retry", retry |-> retry]

RetriesArg == [given : {"count"}, count : Counter] \cup [given : {"retry"}, retry : Retry]

ASSUME ManagerConstants ==
    /\ IsFiniteSet(Tasks) /\ IsFiniteSet(Pools)
    /\ NoPool \notin Pools
    /\ SecureHosts \subseteq Hosts
    /\ ProxyHost \notin Hosts
    /\ Proxied \in BOOLEAN
    /\ {NumPools, HopBound} \subseteq Nat
    /\ Cardinality(Pools) >= NumPools + Cardinality(Tasks)
    /\ RetriesArgs \subseteq RetriesArg
    /\ Disturbances \subseteq {"clear", "shut"}

VARIABLES
    pools,      \* self.pools: the container, by pool key
    status,     \* of each pool: open, closed by the manager, shut by a user
    call,       \* what each task is doing in urlopen
    since       \* of each key: those looked up after it was, the last time

vars == <<pools, status, call, since>>

managerVars == <<pools, status, since>>

DefaultRetry == NewRetry(3, None, None, None)

(***************************************************************************)
(* A call of urlopen, the calls it makes of itself for redirects included. *)
(*   idle     outside urlopen                                              *)
(*   opening  manager.urlopen called, connection_from_host not yet         *)
(*   called   pool.urlopen called, _get_conn has not looked at its queue   *)
(*   flight   in pool.urlopen, with a connection or waiting for one        *)
(***************************************************************************)
Places == {"idle", "opening", "called", "flight"}

NewCall(h, arg) ==
    [at      |-> "opening",
     host    |-> h,            \* of the current URL
     pool    |-> NoPool,       \* what connection_from_host returned for it
     retries |-> arg,          \* kw['retries']
     attempt |-> DefaultRetry, \* the Retry that the pool's urlopen works on
     passed  |-> arg,          \* what the caller passed as retries=
     hops    |-> 0]            \* how many redirects have been followed

NoCall == [NewCall(ProxyHost, CountArg(None)) EXCEPT !.at = "idle"]

At(t, place) == call[t].at = place

(* Pools that nothing refers to: _new_pool returns one of them. *)
Fresh == Pools \ (ValuesOf(pools) \cup {call[t].pool : t \in Tasks})

Keys == Hosts \cup {ProxyHost}

Init ==
    /\ pools = << >>
    /\ status = [p \in Pools |-> "closed"]
    /\ call = [t \in Tasks |-> NoCall]
    /\ since = [key \in Keys |-> {}]
-----------------------------------------------------------------------------
(* The key of a host's pool: a proxy serves all plain HTTP from one pool. *)
KeyOf(h) == IF Proxied /\ h \notin SecureHosts THEN ProxyHost ELSE h

(* Retry.from_int at a place that follows redirects, or does not. *)
AsRetry(arg, redirect) ==
    IF arg.given = "retry" THEN arg.retry ELSE FromInt(arg.count, redirect, DefaultRetry)

EndedHolding(t) == call' = [call EXCEPT ![t].at = "idle"]

Ended(t) == call' = [call EXCEPT ![t] = NoCall]

Looked(key) ==
    since' = [k \in Keys |-> IF k = key THEN {} ELSE since[k] \cup {key}]

(***************************************************************************)
(* A task calls manager.urlopen.                                           *)
(***************************************************************************)
Request(t, h, arg) ==
    /\ At(t, "idle")
    /\ call' = [call EXCEPT ![t] = NewCall(h, arg)]
    /\ UNCHANGED managerVars

(* urlopen calls the pool's urlopen, with redirect=False. *)
Call(t, p) ==
    call' = [call EXCEPT ![t].pool = p,
                         ![t].attempt = AsRetry(call[t].retries, FALSE),
                         ![t].at = "called"]

(* connection_from_host finds a pool, open or not. *)
Find(t) ==
    LET key == KeyOf(call[t].host) IN
    /\ At(t, "opening")
    /\ key \in KeysOf(pools)
    /\ pools' = Got(pools, key)
    /\ Looked(key)
    /\ Call(t, ValueAt(pools, key))
    /\ UNCHANGED status

MakeWithoutClosing(t) ==
    LET key == KeyOf(call[t].host) IN
    /\ At(t, "opening")
    /\ key \notin KeysOf(pools)
    /\ Looked(key)
    /\ \E new \in Fresh :
          /\ pools' = SetItem(pools, key, new, NumPools).left
          /\ status' = [status EXCEPT ![new] = "open"]
          /\ Call(t, new)

(***************************************************************************)
(* It makes one, and closes the pool that had to go for it.  Closing one   *)
(* that its user has closed raises AttributeError in this request.         *)
(***************************************************************************)
Make(t) ==
    LET key == KeyOf(call[t].host) IN
    /\ At(t, "opening")
    /\ key \notin KeysOf(pools)
    /\ Looked(key)
    /\ \E new \in Fresh :
          LET stored == SetItem(pools, key, new, NumPools)
              made   == [status EXCEPT ![new] = "open"]
          IN  /\ pools' = stored.left
              /\ status' = [p \in Pools |-> IF p \in stored.disposed THEN "closed" ELSE made[p]]
              /\ IF \A p \in stored.disposed : made[p] = "open" THEN Call(t, new) ELSE Ended(t)

(***************************************************************************)
(* The pool's urlopen asks for a connection: ClosedPoolError if the pool   *)
(* has been closed by now.                                                 *)
(***************************************************************************)
Enter(t) ==
    /\ At(t, "called")
    /\ IF status[call[t].pool] = "open"
       THEN call' = [call EXCEPT ![t].at = "flight"]
       ELSE Ended(t)
    /\ UNCHANGED managerVars

(* An attempt fails, or its response forces a retry. *)
Fail(t, ev) ==
    /\ At(t, "flight")
    /\ IF Verdict(call[t].attempt, ev) = "retry"
       THEN call' = [call EXCEPT ![t].attempt = Incremented(@, ev), ![t].at = "called"]
       ELSE Ended(t)
    /\ UNCHANGED managerVars

Respond(t) ==
    /\ At(t, "flight")
    /\ Ended(t)
    /\ UNCHANGED managerVars

RedirectUncounted(t, h) ==
    LET given == AsRetry(call[t].retries, TRUE) IN
    /\ At(t, "flight")
    /\ IF Verdict(given, "status") = "retry"
       THEN call' = [call EXCEPT ![t] =
                        [NewCall(h, call[t].retries) EXCEPT
                            !.passed = call[t].passed,
                            !.hops = IF call[t].hops < HopBound
                                     THEN call[t].hops + 1 ELSE HopBound]]
       ELSE Ended(t)
    /\ UNCHANGED managerVars

(***************************************************************************)
(* The response redirects to h.  increment() is told of neither an error   *)
(* nor the response, and counts "status"; the retries that the pool used   *)
(* are not deducted.  MaxRetryError if no retry is left.                   *)
(***************************************************************************)
Redirect(t, h) ==
    LET given == AsRetry(call[t].retries, TRUE) IN
    /\ At(t, "flight")
    /\ IF Verdict(given, "status") = "retry"
       THEN call' = [call EXCEPT ![t] =
                        [NewCall(h, RetryArg(Incremented(given, "status"))) EXCEPT
                            !.passed = call[t].passed,
                            !.hops = IF call[t].hops < HopBound
                                     THEN call[t].hops + 1 ELSE HopBound]]
       ELSE Ended(t)
    /\ UNCHANGED managerVars
-----------------------------------------------------------------------------
ClearKeeping ==
    /\ "clear" \in Disturbances
    /\ status' = [p \in Pools |-> IF p \in ValuesOf(pools) THEN "closed" ELSE status[p]]
    /\ UNCHANGED <<pools, call, since>>

(***************************************************************************)
(* clear() takes all pools out and closes them, in their order, until one  *)
(* that its user has closed raises AttributeError.                         *)
(***************************************************************************)
Clear ==
    /\ "clear" \in Disturbances
    /\ pools' = << >>
    /\ status' = [p \in Pools |->
                     IF \E i \in DOMAIN pools :
                           /\ pools[i].value = p
                           /\ \A j \in 1..i-1 : status[pools[j].value] = "open"
                     THEN "closed" ELSE status[p]]
    /\ UNCHANGED <<call, since>>

(* A user closes a pool it got from the manager.  Bound: one at a time. *)
Shut(p) ==
    /\ "shut" \in Disturbances
    /\ p \in ValuesOf(pools)
    /\ \A q \in ValuesOf(pools) : status[q] = "open"
    /\ status' = [status EXCEPT ![p] = "shut"]
    /\ UNCHANGED <<pools, call, since>>
-----------------------------------------------------------------------------
Step(t) ==
    \/ Find(t) \/ Make(t) \/ Enter(t) \/ Respond(t)
    \/ \E ev \in ErrorEvents \cup {"status"} : Fail(t, ev)
    \/ \E h \in Hosts : Redirect(t, h)

Next ==
    \/ \E t \in Tasks : \/ Step(t)
                        \/ \E h \in Hosts, arg \in RetriesArgs : Request(t, h, arg)
    \/ Clear
    \/ \E p \in Pools : Shut(p)

Spec == Init /\ [][Next]_vars
-----------------------------------------------------------------------------
TypeOK ==
    /\ pools \in Seq([key : Keys, value : Pools])
    /\ \A i, j \in DOMAIN pools :
          pools[i].key = pools[j].key \/ pools[i].value = pools[j].value => i = j
    /\ status \in [Pools -> {"open", "closed", "shut"}]
    /\ call \in [Tasks -> [at : Places, host : Keys, pool : Pools \cup {NoPool},
                           retries : RetriesArg, attempt : Retry,
                           passed : RetriesArg, hops : 0..HopBound]]
    /\ \A t \in Tasks : (call[t].pool # NoPool) = (call[t].at \in {"called", "flight"})
    /\ since \in [Keys -> SUBSET Keys]

(* The manager keeps no more than num_pools pools. *)
Capacity == Len(pools) <= NumPools

(***************************************************************************)
(* A pool that leaves the container, evicted or cleared, is closed then:   *)
(* none stays open with its connections after the manager has forgotten    *)
(* it, unless closing another one has raised.                              *)
(***************************************************************************)
NoPoolLeak ==
    [][LET left == ValuesOf(pools) \ ValuesOf(pools') IN
       \A p \in left : status'[p] = "closed" \/ \E q \in left : status[q] = "shut"]_vars

(***************************************************************************)
(* The manager never hands out a pool it has closed itself: what it closes *)
(* has left the container before anyone can look it up.                    *)
(***************************************************************************)
CachedPoolsUsable == \A p \in ValuesOf(pools) : status[p] # "closed"

(***************************************************************************)
(* The pool that is discarded for a new one is the least recently used:    *)
(* each of those that stay has been looked up after it was, and it has not *)
(* been looked up after them (poolmanager.py:39-40).                       *)
(***************************************************************************)
EvictsLeastRecentlyUsed ==
    [][\A gone \in KeysOf(pools) \ KeysOf(pools'), stays \in KeysOf(pools') :
           stays \in KeysOf(pools) => stays \in since[gone] /\ gone \notin since[stays]]_vars

(***************************************************************************)
(* A request follows no more redirects than its total, whatever hosts they *)
(* lead to and whatever pools fail on the way.                             *)
(***************************************************************************)
RedirectsWithinTotal ==
    \A t \in Tasks :
        LET total == AsRetry(call[t].passed, TRUE).total IN total \in Nat => call[t].hops <= total

(***************************************************************************)
(* "How many redirects to perform.  Limit this to avoid infinite redirect  *)
(* loops." (retry.py:67-68)                                                *)
(***************************************************************************)
RedirectLimitHonoured ==
    \A t \in Tasks :
        LET limit == AsRetry(call[t].passed, TRUE).redirect IN limit \in Nat => call[t].hops <= limit
=============================================================================
