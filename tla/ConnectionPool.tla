--------------------------- MODULE ConnectionPool ---------------------------
(***************************************************************************)
(* HTTPConnectionPool of yieldfrom_t/urllib3/connectionpool.py and the     *)
(* part of HTTPResponse that gives a connection back.                      *)
(*                                                                         *)
(* Coroutines of one event loop call urlopen() on one pool.  They suspend  *)
(* only at a `yield From`, so the code between two of them is one action.  *)
(* trollius runs the operand of a `yield From` as a task of its own: a     *)
(* coroutine that has entered another one may be overtaken by the rest     *)
(* before the first line of the callee runs.                               *)
(***************************************************************************)
EXTENDS RetryPolicy, Sequences, SequencesExt

CONSTANTS
    Tasks,          \* the coroutines that make requests
    Conns,          \* identities of HTTPConnection objects
    NoConn,         \* no connection: None in urlopen, 0 in the queue
    MaxSize, Block, \* the pool's parameters
    PoolTimeout,    \* whether requests pass a pool_timeout
    Proxy,          \* whether the pool's connections go to a proxy
    Modes,          \* the (preload_content, release_conn) pairs in use
    InitialRetries, \* the Retry objects requests are started with
    Responses,      \* what the server may answer: a subset of ResponseKinds
    Disturbances    \* what else may happen: a subset of DisturbanceKinds

ResponseKinds == {"final", "redirect", "foreign", "forced"}

(***************************************************************************)
(*   peer    the peer closes, or a stray byte makes the socket readable    *)
(*   close   someone calls pool.close()                                    *)
(*   cancel  a coroutine is cancelled at a suspension point of urlopen     *)
(*   early   a caller calls release_conn() before reading to the end       *)
(*   drop    a caller forgets an unread response                           *)
(***************************************************************************)
DisturbanceKinds == {"peer", "close", "cancel", "early", "drop"}

(* There is always another connection to be made: _new_conn does not fail. *)
ASSUME PoolConstants ==
    /\ IsFiniteSet(Tasks)
    /\ IsFiniteSet(Conns)
    /\ Cardinality(Conns) >= MaxSize + Cardinality(Tasks)
    /\ NoConn \notin Conns
    /\ MaxSize \in Nat \ {0}
    /\ {Block, PoolTimeout, Proxy} \subseteq BOOLEAN
    /\ Modes \subseteq [preload : BOOLEAN, release : BOOLEAN]
    /\ InitialRetries \subseteq Retry
    /\ Responses \subseteq ResponseKinds
    /\ Disturbances \subseteq DisturbanceKinds

VARIABLES
    closed,  \* self.pool is None
    queue,   \* the LifoQueue: what is put last is taken first
    sock,    \* the socket of each connection
    pc,      \* where each task is
    conn,    \* the connection that urlopen, or the response, of a task holds
    mode,    \* the mode of each task's request
    retries  \* the Retry of each task's current attempt

vars == <<closed, queue, sock, pc, conn, mode, retries>>

(***************************************************************************)
(*   none     conn.sock is None: never connected, or closed                *)
(*   idle     connected, no response outstanding                           *)
(*   busy     a response is outstanding or not read to its end             *)
(*   dropped  readable between requests, which reads as disconnected       *)
(***************************************************************************)
SocketStates == {"none", "idle", "busy", "dropped"}

(***************************************************************************)
(*   idle       outside urlopen, no response in hand                       *)
(*   start      urlopen entered, _get_conn not yet running                 *)
(*   waiting    in pool.get()                                              *)
(*   sending    in _validate_conn or conn.request                          *)
(*   receiving  in conn.getresponse                                        *)
(*   reading    preloading the body, in HTTPResponse.init                  *)
(*   response   the caller has a response that holds its connection        *)
(***************************************************************************)
Places == {"idle", "start", "waiting", "sending", "receiving", "reading",
           "response"}

Elements == {queue[i] : i \in DOMAIN queue}

Lent == {conn[t] : t \in Tasks} \ {NoConn}

(* The tasks that use up a slot of the pool. *)
Borrowers == {t \in Tasks : conn[t] # NoConn}

(* Connections that nothing refers to: _new_conn returns one of them. *)
Fresh == Conns \ (Elements \cup Lent)

At(t, place) == pc[t] = place

Goto(t, place) == pc' = [pc EXCEPT ![t] = place]

Socket(c, state) == [sock EXCEPT ![c] = state]

(* __init__ fills the queue with placeholders, so that get() waits properly. *)
Init ==
    /\ closed = FALSE
    /\ queue = [i \in 1..MaxSize |-> NoConn]
    /\ sock = [c \in Conns |-> "none"]
    /\ pc = [t \in Tasks |-> "idle"]
    /\ conn = [t \in Tasks |-> NoConn]
    /\ mode \in [Tasks -> Modes]
    /\ retries \in [Tasks -> InitialRetries]
-----------------------------------------------------------------------------
(***************************************************************************)
(* _put_conn(c), the sockets being in the states socks: the queue takes c  *)
(* or its placeholder, unless the pool is closed or full.                  *)
(***************************************************************************)
Refused == closed \/ Len(queue) >= MaxSize

PutWithoutClosing(c, socks) ==
    /\ queue' = IF Refused THEN queue ELSE Append(queue, c)
    /\ sock' = socks

Put(c, socks) ==
    /\ queue' = IF Refused THEN queue ELSE Append(queue, c)
    /\ sock' = IF Refused /\ c # NoConn THEN [socks EXCEPT ![c] = "none"] ELSE socks

(* The finally clause of urlopen: put c back if release says so. *)
Finally(release, c, socks) ==
    IF release THEN Put(c, socks) ELSE sock' = socks /\ UNCHANGED queue

(***************************************************************************)
(* A task calls urlopen.                                                   *)
(***************************************************************************)
Request(t) ==
    /\ At(t, "idle")
    /\ \E m \in Modes : mode' = [mode EXCEPT ![t] = m]
    /\ \E r \in InitialRetries : retries' = [retries EXCEPT ![t] = r]
    /\ Goto(t, "start")
    /\ UNCHANGED <<closed, queue, sock, conn>>

(***************************************************************************)
(* _get_conn looks up self.pool.  None has no get(): ClosedPoolError.      *)
(***************************************************************************)
Enter(t) ==
    /\ At(t, "start")
    /\ Goto(t, IF closed THEN "idle" ELSE "waiting")
    /\ UNCHANGED <<closed, queue, sock, conn, mode, retries>>

(***************************************************************************)
(* pool.get() returns the last element put.  A connection whose socket is  *)
(* gone is closed and reused, or replaced if it was a tunnel (auto_open);  *)
(* for a placeholder a connection is made.                                 *)
(***************************************************************************)
Stale(c) == c # NoConn /\ sock[c] \in {"none", "dropped"}

TakeSlot(t) ==
    LET c == Last(queue) IN
    /\ At(t, "waiting")
    /\ queue # << >>
    /\ queue' = Front(queue)
    /\ \/ /\ c # NoConn
          /\ conn' = [conn EXCEPT ![t] = c]
          /\ sock' = IF Stale(c) THEN Socket(c, "none") ELSE sock
       \/ /\ c = NoConn \/ (Proxy /\ Stale(c))
          /\ \E new \in Fresh :
                /\ conn' = [conn EXCEPT ![t] = new]
                /\ sock' = [d \in Conns |->
                               IF d = new \/ d = c THEN "none" ELSE sock[d]]
    /\ Goto(t, "sending")
    /\ UNCHANGED <<closed, mode, retries>>

(***************************************************************************)
(* No element arrived within pool_timeout: EmptyPoolError if the pool      *)
(* blocks, and the finally clause puts back a connection that was never    *)
(* taken; otherwise an additional connection.                              *)
(***************************************************************************)
PoolTimeoutFires(t) ==
    /\ PoolTimeout
    /\ At(t, "waiting")
    /\ IF Block
       THEN /\ Finally(mode[t].release, NoConn, sock)
            /\ Goto(t, "idle")
            /\ UNCHANGED conn
       ELSE /\ \E new \in Fresh :
                  /\ conn' = [conn EXCEPT ![t] = new]
                  /\ sock' = Socket(new, "none")
            /\ Goto(t, "sending")
            /\ UNCHANGED queue
    /\ UNCHANGED <<closed, mode, retries>>

(***************************************************************************)
(* conn.request: connects if there is no socket.  http.client refuses to   *)
(* send on a connection with a response outstanding.                       *)
(***************************************************************************)
Send(t) ==
    /\ At(t, "sending")
    /\ sock[conn[t]] # "busy"
    /\ sock' = IF sock[conn[t]] = "dropped" THEN sock ELSE Socket(conn[t], "busy")
    /\ Goto(t, "receiving")
    /\ UNCHANGED <<closed, queue, conn, mode, retries>>
-----------------------------------------------------------------------------
(***************************************************************************)
(* The connection the response is told about: none if urlopen releases it, *)
(* or both would.                                                          *)
(***************************************************************************)
ResponseConnAlways(t) == conn[t]

ResponseConn(t) == IF mode[t].release THEN NoConn ELSE conn[t]

(***************************************************************************)
(* urlopen returns the response.  A preloaded one has given its connection *)
(* back when it was read to the end.                                       *)
(***************************************************************************)
Deliver(t) ==
    LET kept == IF mode[t].preload THEN NoConn ELSE ResponseConn(t) IN
    /\ conn' = [conn EXCEPT ![t] = kept]
    /\ Goto(t, IF kept = NoConn THEN "idle" ELSE "response")
    /\ UNCHANGED retries

RaiseHolding(t) ==
    /\ Goto(t, "idle")
    /\ UNCHANGED <<conn, retries>>

(* urlopen raises, and its frame lets go of the connection. *)
Raise(t) ==
    /\ conn' = [conn EXCEPT ![t] = NoConn]
    /\ Goto(t, "idle")
    /\ UNCHANGED retries

(***************************************************************************)
(* increment() allows another attempt: urlopen calls itself, and the outer *)
(* frame only passes the result on.  A redirect to another host raises     *)
(* HostChangedError there.                                                 *)
(***************************************************************************)
Again(t, ev, place) ==
    /\ retries' = [retries EXCEPT ![t] = Incremented(@, ev)]
    /\ conn' = [conn EXCEPT ![t] = NoConn]
    /\ Goto(t, place)

(* What urlopen does with a response, after its finally clause. *)
Answered(t, kind) ==
    \/ kind = "final" /\ Deliver(t)
    \/ /\ kind \in {"redirect", "foreign"}
       /\ IF Verdict(retries[t], "redirect") = "retry"
          THEN Again(t, "redirect", IF kind = "redirect" THEN "start" ELSE "idle")
          ELSE IF retries[t].raise_on_redirect THEN Raise(t) ELSE Deliver(t)
    \/ /\ kind = "forced"
       /\ IF Verdict(retries[t], "status") = "retry"
          THEN Again(t, "status", "start") ELSE Raise(t)

(***************************************************************************)
(* getresponse returns; http.client drops the socket of a connection that  *)
(* will close.  The body is preloaded ...                                  *)
(***************************************************************************)
Receive(t) ==
    /\ At(t, "receiving")
    /\ mode[t].preload
    /\ sock[conn[t]] = "busy"
    /\ \E state \in {"busy", "none"} : sock' = Socket(conn[t], state)
    /\ Goto(t, "reading")
    /\ UNCHANGED <<closed, queue, conn, mode, retries>>

(* ... or left to the caller. *)
ReceiveHead(t) ==
    /\ At(t, "receiving")
    /\ ~mode[t].preload
    /\ sock[conn[t]] = "busy"
    /\ \E state \in {"busy", "none"} :
          Finally(mode[t].release, conn[t], Socket(conn[t], state))
    /\ \E kind \in Responses : Answered(t, kind)
    /\ UNCHANGED <<closed, mode>>

(* The socket states once the body of t's response is read. *)
BodyRead(t) == IF sock[conn[t]] = "busy" THEN Socket(conn[t], "idle") ELSE sock

(***************************************************************************)
(* The body is preloaded.  Either the response has released the connection *)
(* when it was read to the end, or the finally clause does.                *)
(***************************************************************************)
Preload(t) ==
    /\ At(t, "reading")
    /\ Put(conn[t], BodyRead(t))
    /\ \E kind \in Responses : Answered(t, kind)
    /\ UNCHANGED <<closed, mode>>
-----------------------------------------------------------------------------
(***************************************************************************)
(* Failures of an attempt, by the except clause of urlopen they reach.     *)
(*   connect  ConnectTimeoutError      socket  OSError                     *)
(*   http     HTTPException            timeout ReadTimeoutError            *)
(***************************************************************************)
RetryableAt(t) ==
    CASE At(t, "sending") -> IF sock[conn[t]] = "busy" THEN {"http"}
                             ELSE {"socket"} \cup IF sock[conn[t]] = "none" THEN {"connect"} ELSE {}
      [] At(t, "receiving") -> {"socket", "http", "timeout"}
      [] At(t, "reading") -> {"socket", "timeout"}
      [] OTHER -> {}

(* The class increment() sees, once urlopen has wrapped the error. *)
ErrorEvent(error) ==
    IF Proxy /\ error \in {"connect", "socket"} THEN "other"
    ELSE IF error = "connect" THEN "connect" ELSE "read"

(***************************************************************************)
(* A retryable error: the connection is closed and forgotten, and the      *)
(* finally clause puts a placeholder in its slot.                          *)
(***************************************************************************)
FailLeavingSlot(t) ==
    /\ sock' = Socket(conn[t], "none")
    /\ UNCHANGED queue
    /\ \E error \in RetryableAt(t) :
          LET ev == ErrorEvent(error) IN
          IF Verdict(retries[t], ev) = "retry" THEN Again(t, ev, "start") ELSE Raise(t)
    /\ UNCHANGED <<closed, mode>>

FailKeepingSocket(t) ==
    /\ \E error \in RetryableAt(t) :
          LET ev == ErrorEvent(error) IN
          IF Verdict(retries[t], ev) = "retry" THEN Again(t, ev, "start") ELSE Raise(t)
    /\ Finally(mode[t].release, NoConn, sock)
    /\ UNCHANGED <<closed, mode>>

Fail(t) ==
    /\ \E error \in RetryableAt(t) :
          LET ev == ErrorEvent(error) IN
          IF Verdict(retries[t], ev) = "retry" THEN Again(t, ev, "start") ELSE Raise(t)
    /\ Finally(mode[t].release, NoConn, Socket(conn[t], "none"))
    /\ UNCHANGED <<closed, mode>>

InFlight(t) == pc[t] \in {"sending", "receiving", "reading"}

FailSSLTwice(t) ==
    LET c == conn[t] IN
    /\ InFlight(t)
    /\ IF closed \/ Len(queue) + 2 > MaxSize THEN Put(c, sock)
       ELSE queue' = queue \o <<c, c>> /\ UNCHANGED sock
    /\ Raise(t)
    /\ UNCHANGED <<closed, mode>>

(* BaseSSLError or CertificateError: the connection is put back as it is. *)
FailSSL(t) ==
    /\ InFlight(t)
    /\ Put(conn[t], sock)
    /\ Raise(t)
    /\ UNCHANGED <<closed, mode>>

(***************************************************************************)
(* Errors no except clause names: an unknown host while connecting, a body *)
(* that is cut short or cannot be decoded.  A body that cannot be decoded  *)
(* was read to the end, so the response has released its connection.       *)
(***************************************************************************)
FailOtherwise(t) ==
    /\ \/ /\ At(t, "sending") /\ sock[conn[t]] = "none"
          /\ Finally(mode[t].release, conn[t], sock)
       \/ At(t, "reading") /\ Finally(mode[t].release, conn[t], sock)
       \/ At(t, "reading") /\ Put(conn[t], BodyRead(t))
    /\ Raise(t)
    /\ UNCHANGED <<closed, mode>>

(***************************************************************************)
(* CancelledError is thrown into the coroutine: only the finally clause    *)
(* runs, with whatever connection urlopen has by then.  That is still None *)
(* for a moment after the queue gave one: pool.get, wait_for and _get_conn *)
(* each hand it on in a later iteration of the loop.                       *)
(***************************************************************************)
Cancel(t) ==
    /\ "cancel" \in Disturbances
    /\ InFlight(t) \/ At(t, "waiting")
    /\ \E known \in {conn[t]} \cup (IF At(t, "sending") THEN {NoConn} ELSE {}) :
          Finally(mode[t].release, known, sock)
    /\ Raise(t)
    /\ UNCHANGED <<closed, mode>>
-----------------------------------------------------------------------------
(***************************************************************************)
(* The caller reads a response to its end, which releases the connection.  *)
(***************************************************************************)
Read(t) ==
    /\ At(t, "response")
    /\ Put(conn[t], BodyRead(t))
    /\ Raise(t)
    /\ UNCHANGED <<closed, mode>>

(* The caller calls release_conn() on a response it has not read. *)
Release(t) ==
    /\ "early" \in Disturbances
    /\ At(t, "response")
    /\ Put(conn[t], sock)
    /\ Raise(t)
    /\ UNCHANGED <<closed, mode>>

(* It may still read that response: the connection is clean from then on. *)
ReadReleased(c) ==
    /\ "early" \in Disturbances
    /\ sock[c] = "busy"
    /\ \A t \in Tasks : conn[t] = c => At(t, "sending")
    /\ sock' = Socket(c, "idle")
    /\ UNCHANGED <<closed, queue, pc, conn, mode, retries>>

(* The caller forgets the response. *)
Drop(t) ==
    /\ "drop" \in Disturbances
    /\ At(t, "response")
    /\ Raise(t)
    /\ UNCHANGED <<closed, queue, sock, mode>>

(***************************************************************************)
(* close(): drains the queue and closes what is in it.  Tasks that wait in *)
(* pool.get() wait on the queue the pool no longer has.                    *)
(***************************************************************************)
CloseUndrained ==
    /\ "close" \in Disturbances
    /\ ~closed
    /\ closed' = TRUE
    /\ UNCHANGED <<queue, sock, pc, conn, mode, retries>>

Close ==
    /\ "close" \in Disturbances
    /\ ~closed
    /\ closed' = TRUE
    /\ queue' = << >>
    /\ sock' = [c \in Conns |-> IF c \in Elements THEN "none" ELSE sock[c]]
    /\ UNCHANGED <<pc, conn, mode, retries>>

PeerDrop(c) ==
    /\ "peer" \in Disturbances
    /\ sock[c] \in {"idle", "busy"}
    /\ sock' = Socket(c, "dropped")
    /\ UNCHANGED <<closed, queue, pc, conn, mode, retries>>
-----------------------------------------------------------------------------
(* The steps the event loop and the network owe a task in urlopen. *)
Serve(t) == Enter(t) \/ Send(t) \/ Receive(t) \/ ReceiveHead(t) \/ Preload(t)
            \/ Fail(t) \/ FailSSL(t) \/ FailOtherwise(t)

Next ==
    \/ \E t \in Tasks :
          \/ Request(t) \/ Serve(t) \/ TakeSlot(t) \/ PoolTimeoutFires(t)
          \/ Cancel(t) \/ Read(t) \/ Release(t) \/ Drop(t)
    \/ \E c \in Conns : ReadReleased(c) \/ PeerDrop(c)
    \/ Close

Spec == Init /\ [][Next]_vars

(***************************************************************************)
(* Network operations end, in an answer or an error.  A queue serves the   *)
(* getter that has waited longest, so a task that waits cannot be          *)
(* overtaken for ever: strong fairness, for the slot comes and goes.       *)
(* Nothing is assumed of pool_timeout: it is an argument of urlopen (:402) *)
(* that a request may leave out.                                           *)
(***************************************************************************)
FairSpec ==
    /\ Spec
    /\ \A t \in Tasks : /\ WF_vars(Serve(t))
                        /\ SF_vars(TakeSlot(t))
-----------------------------------------------------------------------------
TypeOK ==
    /\ closed \in BOOLEAN
    /\ queue \in Seq(Conns \cup {NoConn})
    /\ sock \in [Conns -> SocketStates]
    /\ pc \in [Tasks -> Places]
    /\ conn \in [Tasks -> Conns \cup {NoConn}]
    /\ \A t \in Tasks : (conn[t] # NoConn) = (InFlight(t) \/ At(t, "response"))
    /\ mode \in [Tasks -> Modes]
    /\ retries \in [Tasks -> Retry]

(***************************************************************************)
(* A connection serves one request at a time: it is not held by two tasks, *)
(* not in the queue while it is held, and not twice in the queue, in spite *)
(* of the three places that may release it (urlopen's finally clause, the  *)
(* response read to its end, the caller): connectionpool.py:520-524.       *)
(***************************************************************************)
Exclusive ==
    /\ \A t, u \in Tasks : conn[t] = conn[u] /\ conn[t] # NoConn => t = u
    /\ \A t \in Tasks : conn[t] # NoConn => conn[t] \notin Elements
    /\ \A i, j \in DOMAIN queue : queue[i] = queue[j] /\ queue[i] # NoConn => i = j

(***************************************************************************)
(* "no more than maxsize connections will be used at a time"               *)
(* (connectionpool.py:110).                                                *)
(***************************************************************************)
WithinMaxSize == Block => Cardinality(Borrowers) <= MaxSize

(***************************************************************************)
(* Slots are neither made nor lost: on every path through urlopen, the     *)
(* errors included, what is taken out of the queue once is put back once.  *)
(***************************************************************************)
SlotsConserved == ~closed => Len(queue) + Cardinality(Borrowers) = MaxSize

(***************************************************************************)
(* A host is not flooded: the sockets open to it are at most maxsize, the  *)
(* ones that nobody holds any more included.                               *)
(***************************************************************************)
NoFlood == Cardinality({c \in Conns : sock[c] # "none"}) <= MaxSize

(***************************************************************************)
(* No socket is left open that is neither in use nor in the pool: a late   *)
(* return to a closed or full pool closes it (connectionpool.py:263-265).  *)
(***************************************************************************)
NoSocketLeak == \A c \in Conns : sock[c] # "none" => c \in Elements \cup Lent

(***************************************************************************)
(* No slot is lost, whatever is cancelled or times out: a request that has *)
(* ended has put back all that it took, so the pool cannot run dry.        *)
(***************************************************************************)
SlotsNeverLost == ~closed => Len(queue) + Cardinality(Borrowers) >= MaxSize

(***************************************************************************)
(* "Close all pooled connections and disable the pool": a closed blocking  *)
(* pool lends nothing any more, to waiting or retrying tasks either.       *)
(***************************************************************************)
NothingLentAfterClose ==
    [][closed => \A t \in Tasks : conn'[t] \in {conn[t], NoConn}]_vars

(* Every request ends: no task waits for a slot, or retries, for ever. *)
RequestCompletes == \A t \in Tasks : ~At(t, "idle") ~> At(t, "idle")

(* A task that asks for a connection gets out of the queue again. *)
WaitEnds == \A t \in Tasks : At(t, "waiting") ~> ~At(t, "waiting")
-----------------------------------------------------------------------------
(***************************************************************************)
(* The pool as ConnectionLending sees it: the connections in the queue are *)
(* saved, the ones that requests and responses hold are lent.              *)
(***************************************************************************)
Lending == INSTANCE ConnectionLending WITH
    Borrower <- Tasks, Connection <- Conns, Nothing <- NoConn,
    Capacity <- MaxSize,
    open <- ~closed, saved <- Elements \ {NoConn}, lent <- conn

(***************************************************************************)
(* A blocking pool implements ConnectionLending in every mode of request,  *)
(* through every error, redirect, close and premature release.             *)
(***************************************************************************)
LendsOneAtATime == Lending!LSpec
=============================================================================
