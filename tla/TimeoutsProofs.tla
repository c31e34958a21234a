--------------------------- MODULE TimeoutsProofs ---------------------------
(***************************************************************************)
(* Proofs about Timeouts: for any number of requests that share any        *)
(* Timeout objects, the waits of an attempt keep to what was asked for.    *)
(***************************************************************************)
EXTENDS Timeouts, TLAPS

Active == {"connecting", "sending", "receiving"}

(***************************************************************************)
(* What ties the state of an attempt together: it works on a clone, whose  *)
(* clock was started when it began, and the connection's timeout is the    *)
(* one the clone gave when the current wait began.                         *)
(***************************************************************************)
Attempt(t) ==
    /\ at[t] # "raised"
    /\ at[t] \in Active =>
          /\ object[t] = t
          /\ started[t] = begun[t]
          /\ begun[t] <= since[t]
          /\ since[t] <= now
    /\ at[t] = "connecting" => since[t] = begun[t] /\ timeout[t] = ConnectTimeout(own[t])
    /\ at[t] = "receiving" => timeout[t] = ReadTimeout(own[t], since[t] - begun[t])

(* No wait outlasts the timeout of its connection. *)
Punctual(t) ==
    at[t] \in {"connecting", "receiving"} /\ Waits(timeout[t]) # None
        => now - since[t] <= Waits(timeout[t])

Inv == TypeOK /\ \A t \in Tasks : Attempt(t) /\ Punctual(t)
-----------------------------------------------------------------------------
(* The operators of Timeout give limits, never negative ones. *)
LEMMA LimitsType ==
    ASSUME NEW o \in Timeout
    PROVE  /\ ConnectTimeout(o) \in Limit
           /\ \A elapsed \in Int : ReadTimeout(o, elapsed) \in Limit
<1>1. o.total \in Nat \cup {None} /\ o.connect \in Limit /\ o.read \in Limit
    BY DEF Timeout
<1> QED
    BY <1>1, TimeoutConstants DEF ConnectTimeout, ReadTimeout, Limit, Smaller, Larger

LEMMA WaitsType ==
    ASSUME NEW limit \in Limit
    PROVE  Waits(limit) \in Nat \cup {None}
    BY TimeoutConstants DEF Waits, Limit

(* A total leaves neither wait without a limit of its own. *)
LEMMA TotalLimits ==
    ASSUME NEW o \in Timeout, o.total # None
    PROVE  /\ ConnectTimeout(o) \in Nat /\ ConnectTimeout(o) <= o.total
           /\ \A elapsed \in Int :
                 /\ ReadTimeout(o, elapsed) \in Nat
                 /\ ReadTimeout(o, elapsed) <= Larger(0, o.total - elapsed)
<1>1. o.total \in Nat /\ o.connect \in Limit /\ o.read \in Limit
    BY DEF Timeout
<1> QED
    BY <1>1, TimeoutConstants DEF ConnectTimeout, ReadTimeout, Limit, Smaller, Larger

(* Nor does it stretch the limit that was asked for. *)
LEMMA EachLimit ==
    ASSUME NEW o \in Timeout
    PROVE  /\ o.connect \in Nat => ConnectTimeout(o) \in Nat /\ ConnectTimeout(o) <= o.connect
           /\ o.read \in Nat => \A elapsed \in Int :
                 ReadTimeout(o, elapsed) \in Nat /\ ReadTimeout(o, elapsed) <= o.read
<1>1. o.total \in Nat \cup {None} /\ o.connect \in Limit /\ o.read \in Limit
    BY DEF Timeout
<1> QED
    BY <1>1, TimeoutConstants DEF ConnectTimeout, ReadTimeout, Limit, Smaller, Larger
-----------------------------------------------------------------------------
LEMMA InvInit == Init => Inv
<1> SUFFICES ASSUME Init PROVE Inv
    OBVIOUS
<1>1. [connect |-> None, read |-> None, total |-> None] \in Timeout
    BY DEF Timeout, Limit
<1>2. TypeOK
    BY <1>1, TimeoutConstants DEF Init, TypeOK, Places, Limit
<1>3. ASSUME NEW t \in Tasks PROVE Attempt(t) /\ Punctual(t)
    BY <1>3 DEF Init, Attempt, Punctual, Active
<1> QED
    BY <1>2, <1>3 DEF Inv

LEMMA InvBegin ==
    ASSUME Inv, NEW t \in Tasks, NEW o \in Objects, Begin(t, o)
    PROVE  Inv'
<1> USE DEF Inv
<1>1. given[o] \in Timeout
    BY TimeoutConstants DEF TypeOK
<1>2. PICK place \in {"connecting", "sending"} :
        /\ at' = [at EXCEPT ![t] = place]
        /\ object' = [object EXCEPT ![t] = t]
        /\ own' = [own EXCEPT ![t] = given[o]]
        /\ started' = [started EXCEPT ![t] = now]
        /\ timeout' = [timeout EXCEPT ![t] = ConnectTimeout(given[o])]
        /\ since' = [since EXCEPT ![t] = now]
        /\ begun' = [begun EXCEPT ![t] = now]
        /\ UNCHANGED <<now, given>>
    BY DEF Begin, GetTimeout
<1>3. ConnectTimeout(given[o]) \in Limit
    BY <1>1, LimitsType
<1>4. TypeOK'
    BY <1>1, <1>2, <1>3, TimeoutConstants DEF TypeOK, Places
<1>5. ASSUME NEW u \in Tasks PROVE Attempt(u)'
  <2>1. CASE u = t
      BY <1>2, <2>1 DEF TypeOK, Attempt, Active
  <2>2. CASE u # t
      BY <1>2, <2>2 DEF TypeOK, Attempt, Active
  <2> QED
      BY <2>1, <2>2
<1>6. ASSUME NEW u \in Tasks PROVE Punctual(u)'
  <2>1. CASE u = t
    <3>1. now' - since'[u] = 0
        BY <1>2, <2>1 DEF TypeOK
    <3>2. Waits(timeout'[u]) \in Nat \cup {None}
        BY <1>4, WaitsType DEF TypeOK
    <3> QED
        BY <3>1, <3>2 DEF Punctual, Waits
  <2>2. CASE u # t
      BY <1>2, <2>2 DEF TypeOK, Punctual, Waits
  <2> QED
      BY <2>1, <2>2
<1> QED
    BY <1>4, <1>5, <1>6

LEMMA InvSent ==
    ASSUME Inv, NEW t \in Tasks, Sent(t)
    PROVE  Inv'
<1> USE DEF Inv
<1>1. own[t] \in Timeout /\ object[t] = t /\ started[t] = begun[t] /\ begun[t] \in Int
    BY DEF Sent, TypeOK, Attempt, Active
<1>2. ReadTimeout(own[t], now - begun[t]) \in Limit
    BY <1>1, LimitsType DEF TypeOK
<1>3. timeout' = [timeout EXCEPT ![t] = ReadTimeout(own[t], now - begun[t])]
    BY <1>1 DEF Sent
<1>4. TypeOK'
    BY <1>2, <1>3 DEF Sent, TypeOK, Places
<1>5. ASSUME NEW u \in Tasks PROVE Attempt(u)'
  <2>1. CASE u = t
      BY <1>1, <1>3, <2>1 DEF Sent, TypeOK, Attempt, Active
  <2>2. CASE u # t
      BY <1>3, <2>2 DEF Sent, TypeOK, Attempt, Active
  <2> QED
      BY <2>1, <2>2
<1>6. ASSUME NEW u \in Tasks PROVE Punctual(u)'
  <2>1. CASE u = t
    <3>1. now' - since'[u] = 0
        BY <2>1 DEF Sent, TypeOK
    <3>2. Waits(timeout'[u]) \in Nat \cup {None}
        BY <1>4, WaitsType DEF TypeOK
    <3> QED
        BY <3>1, <3>2 DEF Punctual, Waits
  <2>2. CASE u # t
      BY <1>3, <2>2 DEF Sent, TypeOK, Punctual, Waits
  <2> QED
      BY <2>1, <2>2
<1> QED
    BY <1>4, <1>5, <1>6

LEMMA InvEnd ==
    ASSUME Inv, NEW t \in Tasks, End(t)
    PROVE  Inv'
<1> USE DEF Inv
<1>1. TypeOK'
    BY DEF End, TypeOK, Places
<1>2. ASSUME NEW u \in Tasks PROVE (Attempt(u) /\ Punctual(u))'
    BY DEF End, TypeOK, Attempt, Punctual, Waits, Active
<1> QED
    BY <1>1, <1>2

LEMMA InvTick ==
    ASSUME Inv, Tick
    PROVE  Inv'
<1> USE DEF Inv
<1>1. TypeOK'
    BY TimeoutConstants DEF Tick, TypeOK
<1>2. ASSUME NEW u \in Tasks PROVE Attempt(u)'
    BY DEF Tick, TypeOK, Attempt, Active
<1>3. ASSUME NEW u \in Tasks PROVE Punctual(u)'
  <2>1. Waits(timeout[u]) \in Nat \cup {None}
      BY WaitsType DEF TypeOK
  <2>2. ~Expired(u) /\ now' = now + 1 /\ UNCHANGED <<at, timeout, since>>
      BY DEF Tick
  <2>3. now \in Int /\ since[u] \in Int
      BY DEF TypeOK
  <2> QED
      BY <2>1, <2>2, <2>3 DEF Punctual, Expired, Waits
<1> QED
    BY <1>1, <1>2, <1>3

LEMMA InvStep == Inv /\ [Next]_vars => Inv'
<1> SUFFICES ASSUME Inv, [Next]_vars PROVE Inv'
    OBVIOUS
<1>1. CASE UNCHANGED vars
    BY <1>1 DEF Inv, vars, TypeOK, Attempt, Punctual, Waits, Active
<1>2. CASE Tick
    BY <1>2, InvTick
<1>3. ASSUME NEW t \in Tasks, NEW o \in Objects, Begin(t, o) PROVE Inv'
    BY <1>3, InvBegin
<1>4. ASSUME NEW t \in Tasks, Connected(t) PROVE Inv'
    BY <1>4 DEF Inv, Connected, TypeOK, Places, Attempt, Punctual, Waits, Active
<1>5. ASSUME NEW t \in Tasks, Sent(t) PROVE Inv'
    BY <1>5, InvSent
<1>6. ASSUME NEW t \in Tasks, Answered(t) \/ TimesOut(t) \/ Fails(t) PROVE Inv'
    BY <1>6, InvEnd DEF Answered, TimesOut, Fails
<1> QED
    BY <1>1, <1>2, <1>3, <1>4, <1>5, <1>6 DEF Next
-----------------------------------------------------------------------------
LEMMA Invariant == Spec => []Inv
    BY InvInit, InvStep, PTL DEF Spec

(* Every variable keeps its type: no connection gets a negative timeout. *)
THEOREM TimeoutTypeCorrect == Spec => []TypeOK
<1>1. Inv => TypeOK
    BY DEF Inv
<1> QED
    BY <1>1, Invariant, PTL

(* No request meets a clock that is running: TimeoutStateError is never    *)
(* raised, however many requests share a Timeout.                          *)
THEOREM FreshClocks == Spec => []ClocksAreFresh
<1>1. Inv => ClocksAreFresh
    BY DEF Inv, Attempt, ClocksAreFresh
<1> QED
    BY <1>1, Invariant, PTL

(* Connecting and waiting for the answer stay within the total. *)
THEOREM TotalIsKept == Spec => []WithinTotal
<1>1. Inv => WithinTotal
  <2> SUFFICES ASSUME Inv, NEW t \in Tasks, own[t].total # None
               PROVE  /\ at[t] = "connecting" => now - begun[t] <= own[t].total
                      /\ at[t] = "receiving" =>
                            now <= Larger(begun[t] + own[t].total, since[t])
      BY DEF WithinTotal
  <2>1. own[t] \in Timeout /\ now \in Int /\ since[t] \in Int /\ begun[t] \in Int
      BY DEF Inv, TypeOK
  <2>2. own[t].total \in Nat
      BY <2>1 DEF Timeout
  <2>3. Attempt(t) /\ Punctual(t)
      BY DEF Inv
  <2>4. CASE at[t] = "connecting"
    <3>1. timeout[t] \in Nat /\ timeout[t] <= own[t].total /\ since[t] = begun[t]
        BY <2>1, <2>3, <2>4, TotalLimits DEF Attempt
    <3>2. Waits(timeout[t]) = timeout[t] /\ timeout[t] # None
        BY <3>1, TimeoutConstants DEF Waits
    <3> QED
        BY <2>1, <2>2, <2>3, <2>4, <3>1, <3>2 DEF Punctual
  <2>5. CASE at[t] = "receiving"
    <3>1. since[t] - begun[t] \in Int
        BY <2>1
    <3>2. timeout[t] = ReadTimeout(own[t], since[t] - begun[t])
        BY <2>3, <2>5 DEF Attempt
    <3>3. /\ timeout[t] \in Nat
          /\ timeout[t] <= Larger(0, own[t].total - (since[t] - begun[t]))
        BY <2>1, <3>1, <3>2, TotalLimits
    <3>4. Waits(timeout[t]) = timeout[t] /\ timeout[t] # None
        BY <3>3, TimeoutConstants DEF Waits
    <3>5. now - since[t] <= timeout[t]
        BY <2>3, <2>5, <3>4 DEF Punctual
    <3> QED
        BY <2>1, <2>2, <2>5, <3>3, <3>5 DEF Larger
  <2> QED
      BY <2>4, <2>5
<1> QED
    BY <1>1, Invariant, PTL

(* The limits for connecting and for reading hold whatever the total is. *)
THEOREM EachIsKept == Spec => []WithinEach
<1>1. Inv => WithinEach
  <2> SUFFICES ASSUME Inv, NEW t \in Tasks
               PROVE  /\ at[t] = "connecting" /\ own[t].connect \in Nat =>
                            now - since[t] <= own[t].connect
                      /\ at[t] = "receiving" /\ own[t].read \in Nat =>
                            now - since[t] <= own[t].read
      BY DEF WithinEach
  <2>1. own[t] \in Timeout /\ now \in Int /\ since[t] \in Int /\ begun[t] \in Int
      BY DEF Inv, TypeOK
  <2>2. Attempt(t) /\ Punctual(t)
      BY DEF Inv
  <2>3. CASE at[t] = "connecting" /\ own[t].connect \in Nat
    <3>1. timeout[t] \in Nat /\ timeout[t] <= own[t].connect
        BY <2>1, <2>2, <2>3, EachLimit DEF Attempt
    <3>2. Waits(timeout[t]) = timeout[t] /\ timeout[t] # None
        BY <3>1, TimeoutConstants DEF Waits
    <3> QED
        BY <2>1, <2>2, <2>3, <3>1, <3>2 DEF Punctual
  <2>4. CASE at[t] = "receiving" /\ own[t].read \in Nat
    <3>1. since[t] - begun[t] \in Int
        BY <2>1
    <3>2. timeout[t] \in Nat /\ timeout[t] <= own[t].read
        BY <2>1, <2>2, <2>4, <3>1, EachLimit DEF Attempt
    <3>3. Waits(timeout[t]) = timeout[t] /\ timeout[t] # None
        BY <3>2, TimeoutConstants DEF Waits
    <3> QED
        BY <2>1, <2>2, <2>4, <3>2, <3>3 DEF Punctual
  <2> QED
      BY <2>3, <2>4
<1> QED
    BY <1>1, Invariant, PTL
=============================================================================
