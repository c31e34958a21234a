------------------------------ MODULE Timeouts ------------------------------
(***************************************************************************)
(* Timeout of yieldfrom_t/urllib3/util/timeout.py, and the waits that      *)
(* _make_request of connectionpool.py gives to a connection.               *)
(*                                                                         *)
(* Requests of several tasks take their limits from the same Timeout: the  *)
(* pool's, or one that callers share.  Time passes in steps, and only      *)
(* while no wait has reached its limit.                                    *)
(***************************************************************************)
EXTENDS Integers

CONSTANTS
    Tasks,          \* the coroutines that make requests
    Objects,        \* the Timeout objects that requests are given
    Settings,       \* what those may be made of: a subset of Timeout
    None,           \* no limit; no clock
    Default,        \* DEFAULT_TIMEOUT: left to the system
    SystemTimeout,  \* what the system makes of it
    TimeBound       \* the runs end at this time

(* What _validate_timeout lets through.  A total is given or None. *)
Limit == Nat \cup {None, Default}

Timeout == [connect : Limit, read : Limit, total : Nat \cup {None}]

ASSUME TimeoutConstants ==
    /\ Settings \subseteq Timeout
    /\ Objects \cap Tasks = {}
    /\ {None, Default} \cap Int = {} /\ None # Default
    /\ SystemTimeout \in Nat \cup {None}
    /\ TimeBound \in Nat

VARIABLES
    now,      \* current_time()
    given,    \* the settings of the objects
    started,  \* _start_connect of the objects, and of each task's clone
    at,       \* where each task is
    own,      \* the settings of the Timeout that a task's attempt uses
    object,   \* which one that is
    timeout,  \* conn.timeout
    since,    \* when the current wait began
    begun     \* when the attempt began

vars == <<now, given, started, at, own, object, timeout, since, begun>>

(***************************************************************************)
(*   idle        no attempt under way                                      *)
(*   connecting  in create_connection, under _validate_conn or request     *)
(*   sending     in conn.request, the connection being open                *)
(*   receiving   in conn.getresponse                                       *)
(*   raised      TimeoutStateError                                         *)
(***************************************************************************)
Places == {"idle", "connecting", "sending", "receiving", "raised"}

Init ==
    /\ now = 0
    /\ given \in [Objects -> Settings]
    /\ started = [o \in Objects \cup Tasks |-> None]
    /\ at = [t \in Tasks |-> "idle"]
    /\ own \in [Tasks -> {[connect |-> None, read |-> None, total |-> None]}]
    /\ object = [t \in Tasks |-> t]
    /\ timeout = [t \in Tasks |-> None]
    /\ since = [t \in Tasks |-> 0] /\ begun = [t \in Tasks |-> 0]
-----------------------------------------------------------------------------
Smaller(a, b) == IF a < b THEN a ELSE b
Larger(a, b)  == IF a > b THEN a ELSE b

ConnectTimeoutOfTotal(o) == IF o.total # None THEN o.total ELSE o.connect

ConnectTimeout(o) ==
    IF o.total = None THEN o.connect
    ELSE IF o.connect \in {None, Default} THEN o.total
    ELSE Smaller(o.connect, o.total)

ReadTimeoutUnclipped(o, elapsed) ==
    IF o.total = None THEN o.read
    ELSE IF o.read \in {None, Default} THEN o.total - elapsed
    ELSE Smaller(o.total - elapsed, o.read)

ReadTimeoutAfresh(o, elapsed) ==
    IF o.total = None THEN o.read
    ELSE IF o.read \in {None, Default} THEN o.total
    ELSE Smaller(o.total, o.read)

(* read_timeout of an object whose clock was started `elapsed` ago. *)
ReadTimeout(o, elapsed) ==
    IF o.total = None THEN o.read
    ELSE IF o.read \in {None, Default} THEN Larger(0, o.total - elapsed)
    ELSE Larger(0, Smaller(o.total - elapsed, o.read))

GetTimeoutItself(t, o) == [object |-> o, clock |-> started[o]]

(* _get_timeout: a clone of the object, with a clock of its own. *)
GetTimeout(t, o) == [object |-> t, clock |-> None]
-----------------------------------------------------------------------------
(***************************************************************************)
(* _make_request starts the clock and sets the connection's timeout.  The  *)
(* connection may be open, or have to be connected first.                  *)
(***************************************************************************)
Begin(t, o) ==
    LET got == GetTimeout(t, o) IN
    /\ at[t] = "idle"
    /\ IF got.clock # None
       THEN /\ at' = [at EXCEPT ![t] = "raised"]
            /\ UNCHANGED <<started, own, object, timeout, since, begun>>
       ELSE /\ \E place \in {"connecting", "sending"} : at' = [at EXCEPT ![t] = place]
            /\ object' = [object EXCEPT ![t] = got.object]
            /\ own' = [own EXCEPT ![t] = given[o]]
            /\ started' = [started EXCEPT ![got.object] = now]
            /\ timeout' = [timeout EXCEPT ![t] = ConnectTimeout(given[o])]
            /\ since' = [since EXCEPT ![t] = now]
            /\ begun' = [begun EXCEPT ![t] = now]
    /\ UNCHANGED <<now, given>>

Connected(t) ==
    /\ at[t] = "connecting"
    /\ at' = [at EXCEPT ![t] = "sending"]
    /\ UNCHANGED <<now, given, started, own, object, timeout, since, begun>>

(* The request is sent; the read timeout is what is left of the total. *)
Sent(t) ==
    /\ at[t] = "sending"
    /\ at' = [at EXCEPT ![t] = "receiving"]
    /\ timeout' = [timeout EXCEPT ![t] = ReadTimeout(own[t], now - started[object[t]])]
    /\ since' = [since EXCEPT ![t] = now]
    /\ UNCHANGED <<now, given, started, own, object, begun>>

(* How long the event loop waits with a timeout. *)
Waits(limit) == IF limit = Default THEN SystemTimeout ELSE limit

Expired(t) ==
    /\ at[t] \in {"connecting", "receiving"}
    /\ Waits(timeout[t]) # None
    /\ now - since[t] >= Waits(timeout[t])

(* The attempt ends, and its clone with it; urlopen may begin another. *)
End(t) ==
    /\ at' = [at EXCEPT ![t] = "idle"]
    /\ started' = [started EXCEPT ![t] = None]
    /\ UNCHANGED <<now, given, own, object, timeout, since, begun>>

Answered(t) == at[t] = "receiving" /\ End(t)

(* ConnectTimeoutError or ReadTimeoutError. *)
TimesOut(t) == Expired(t) /\ End(t)

(* The connection breaks. *)
Fails(t) == at[t] \in {"connecting", "sending", "receiving"} /\ End(t)

Tick ==
    /\ now < TimeBound
    /\ \A t \in Tasks : ~Expired(t)
    /\ now' = now + 1
    /\ UNCHANGED <<given, started, at, own, object, timeout, since, begun>>
-----------------------------------------------------------------------------
Next ==
    \/ Tick
    \/ \E t \in Tasks :
          \/ \E o \in Objects : Begin(t, o)
          \/ Connected(t) \/ Sent(t) \/ Answered(t) \/ TimesOut(t) \/ Fails(t)

Spec == Init /\ [][Next]_vars
-----------------------------------------------------------------------------
(* A limit is never negative: http.client would refuse it. *)
TypeOK ==
    /\ now \in 0..TimeBound
    /\ given \in [Objects -> Settings]
    /\ started \in [Objects \cup Tasks -> Nat \cup {None}]
    /\ at \in [Tasks -> Places]
    /\ own \in [Tasks -> Timeout]
    /\ object \in [Tasks -> Objects \cup Tasks]
    /\ timeout \in [Tasks -> Limit]
    /\ since \in [Tasks -> 0..TimeBound] /\ begun \in [Tasks -> 0..TimeBound]

(***************************************************************************)
(* "each request needs a fresh Timeout object" (timeout.py:157): requests  *)
(* that share one, at once or one after the other, and attempts of one     *)
(* request never meet a clock that is running already.                     *)
(***************************************************************************)
ClocksAreFresh == \A t \in Tasks : at[t] # "raised"

(***************************************************************************)
(* "the read timeout will be set to the time leftover from the connect     *)
(* attempt" (timeout.py:39): connecting and waiting for the answer take no *)
(* longer together than the total; only sending may use up more.           *)
(***************************************************************************)
WithinTotal ==
    \A t \in Tasks :
        own[t].total # None =>
            /\ at[t] = "connecting" => now - begun[t] <= own[t].total
            /\ at[t] = "receiving" => now <= Larger(begun[t] + own[t].total, since[t])

(***************************************************************************)
(* "the shorter timeout will be applied" (timeout.py:42): a total does not *)
(* stretch the limits for connecting and reading.                          *)
(***************************************************************************)
WithinEach ==
    \A t \in Tasks :
        LET waited == now - since[t] IN
        /\ at[t] = "connecting" /\ own[t].connect \in Nat => waited <= own[t].connect
        /\ at[t] = "receiving" /\ own[t].read \in Nat => waited <= own[t].read
=============================================================================
