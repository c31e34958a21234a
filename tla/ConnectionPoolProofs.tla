------------------------ MODULE ConnectionPoolProofs ------------------------
(***************************************************************************)
(* Proofs about ConnectionPool, for any number of tasks and connections,   *)
(* any maxsize and any use of the pool.                                    *)
(***************************************************************************)
EXTENDS ConnectionPool, FiniteSetTheorems, SequenceTheorems, TLAPS

(* Retry objects stay Retry objects. *)
LEMMA IncrementedType ==
    ASSUME NEW r \in Retry, NEW ev \in Events
    PROVE  Incremented(r, ev) \in Retry
<1>1. \A count \in Counter : Decremented(count) \in Counter
    BY RetryConstants DEF Decremented, Counter
<1>2. r.observed + 1 \in Nat
    BY DEF Retry
<1> QED
    BY <1>1, <1>2 DEF Incremented, Retry

Held == Conns \cup {NoConn}

LEMMA RetryableType ==
    ASSUME NEW t \in Tasks, NEW error \in RetryableAt(t)
    PROVE  InFlight(t) /\ ErrorEvent(error) \in Events
    BY DEF RetryableAt, InFlight, At, ErrorEvent, Events, ErrorEvents

LEMMA PutType ==
    ASSUME queue \in Seq(Held), NEW c \in Held,
           NEW socks \in [Conns -> SocketStates], Put(c, socks)
    PROVE  queue' \in Seq(Held) /\ sock' \in [Conns -> SocketStates]
    BY DEF Put, Held, SocketStates

LEMMA FinallyType ==
    ASSUME queue \in Seq(Held), NEW c \in Held, NEW release \in BOOLEAN,
           NEW socks \in [Conns -> SocketStates], Finally(release, c, socks)
    PROVE  queue' \in Seq(Held) /\ sock' \in [Conns -> SocketStates]
    BY PutType DEF Finally

(* The part of TypeOK that is about the tasks. *)
TasksOK ==
    /\ pc \in [Tasks -> Places]
    /\ conn \in [Tasks -> Held]
    /\ \A t \in Tasks : (conn[t] # NoConn) = (InFlight(t) \/ At(t, "response"))
    /\ retries \in [Tasks -> Retry]

LEMMA RaiseType ==
    ASSUME TasksOK, NEW t \in Tasks, Raise(t)
    PROVE  TasksOK'
    BY DEF TasksOK, Raise, Goto, Held, Places, InFlight, At

LEMMA DeliverType ==
    ASSUME TasksOK, NEW t \in Tasks, conn[t] # NoConn, Deliver(t)
    PROVE  TasksOK'
    BY DEF TasksOK, Deliver, ResponseConn, Goto, Held, Places, InFlight, At

LEMMA AgainType ==
    ASSUME TasksOK, NEW t \in Tasks, NEW ev \in Events,
           NEW place \in {"start", "idle"}, Again(t, ev, place)
    PROVE  TasksOK'
<1>1. retries' \in [Tasks -> Retry]
    BY IncrementedType DEF TasksOK, Again
<1> QED
    BY <1>1 DEF TasksOK, Again, Goto, Held, Places, InFlight, At

LEMMA AnsweredType ==
    ASSUME TasksOK, NEW t \in Tasks, conn[t] # NoConn, NEW kind, Answered(t, kind)
    PROVE  TasksOK'
<1>1. {"redirect", "status"} \subseteq Events
    BY DEF Events
<1> QED
    BY <1>1, RaiseType, DeliverType, AgainType DEF Answered

(***************************************************************************)
(* Type correctness, one step per action.                                  *)
(***************************************************************************)
LEMMA TypeStep == TypeOK /\ [Next]_vars => TypeOK'
<1> SUFFICES ASSUME TypeOK, [Next]_vars PROVE TypeOK'
    OBVIOUS
<1> USE DEF Held
<1>0. TasksOK
    BY DEF TypeOK, TasksOK
<1>1. ASSUME TasksOK', UNCHANGED <<closed, mode>>,
             queue' \in Seq(Held), sock' \in [Conns -> SocketStates]
      PROVE  TypeOK'
    BY <1>1 DEF TypeOK, TasksOK
<1>2. \A t \in Tasks : conn[t] \in Held /\ mode[t].release \in BOOLEAN
    BY PoolConstants DEF TypeOK
<1>3. \A t \in Tasks : InFlight(t) \/ At(t, "response") => conn[t] \in Conns
    BY DEF TypeOK
<1>4. \A c \in Conns : \A state \in SocketStates :
          Socket(c, state) \in [Conns -> SocketStates]
    BY DEF Socket, TypeOK
<1>5. \A t \in Tasks : BodyRead(t) \in [Conns -> SocketStates]
    BY <1>4 DEF BodyRead, Socket, SocketStates, TypeOK
<1>6. queue \in Seq(Held) /\ sock \in [Conns -> SocketStates] /\ NoConn \in Held
    BY DEF TypeOK
<1>a. ASSUME NEW t \in Tasks, Request(t) PROVE TypeOK'
  <2>1. mode' \in [Tasks -> Modes] /\ retries' \in [Tasks -> Retry]
      BY <1>a, PoolConstants DEF Request, TypeOK
  <2> QED
      BY <1>a, <2>1 DEF Request, TypeOK, Goto, At, InFlight, Places
<1>b. ASSUME NEW t \in Tasks, Enter(t) PROVE TypeOK'
    BY <1>b DEF Enter, TypeOK, Goto, At, InFlight, Places
<1>c. ASSUME NEW t \in Tasks, TakeSlot(t) PROVE TypeOK'
  <2>1. Last(queue) \in Held /\ Front(queue) \in Seq(Held)
      BY <1>c, <1>6, ElementOfSeq, SubSeqProperties DEF TakeSlot, Last, Front
  <2>2. Fresh \subseteq Conns
      BY DEF Fresh
  <2>3. conn' \in [Tasks -> Held] /\ conn'[t] # NoConn
        /\ \A u \in Tasks \ {t} : conn'[u] = conn[u]
      BY <1>c, <2>1, <2>2, PoolConstants DEF TakeSlot, TypeOK
  <2>4. TasksOK'
      BY <1>c, <2>3 DEF TakeSlot, TypeOK, TasksOK, Goto, At, InFlight, Places
  <2>5. sock' \in [Conns -> SocketStates]
      BY <1>c, <2>1, <2>2 DEF TakeSlot, TypeOK, Stale, Socket, SocketStates
  <2> QED
      BY <1>c, <1>1, <2>1, <2>4, <2>5 DEF TakeSlot
<1>d. ASSUME NEW t \in Tasks, PoolTimeoutFires(t) PROVE TypeOK'
  <2>1. queue' \in Seq(Held) /\ sock' \in [Conns -> SocketStates]
      BY <1>d, <1>2, <1>4, <1>6, FinallyType
      DEF PoolTimeoutFires, Fresh, SocketStates
  <2>2. CASE conn' = conn /\ Goto(t, "idle")
    <3>1. TasksOK'
        BY <1>d, <2>2 DEF PoolTimeoutFires, TypeOK, TasksOK, Goto, At, InFlight, Places
    <3> QED
        BY <1>d, <1>1, <2>1, <3>1 DEF PoolTimeoutFires
  <2>3. CASE Goto(t, "sending") /\ \E new \in Fresh : conn' = [conn EXCEPT ![t] = new]
    <3>1. TasksOK'
        BY <1>d, <2>3, PoolConstants
        DEF PoolTimeoutFires, TypeOK, TasksOK, Goto, At, InFlight, Places, Fresh
    <3> QED
        BY <1>d, <1>1, <2>1, <3>1 DEF PoolTimeoutFires
  <2> QED
      BY <1>d, <2>2, <2>3 DEF PoolTimeoutFires
<1>e. ASSUME NEW t \in Tasks, Send(t) PROVE TypeOK'
  <2>1. sock' \in [Conns -> SocketStates]
      BY <1>e, <1>3, <1>4, <1>6 DEF Send, InFlight, At, SocketStates
  <2> QED
      BY <1>e, <2>1 DEF Send, TypeOK, Goto, At, InFlight, Places
<1>f. ASSUME NEW t \in Tasks, Receive(t) PROVE TypeOK'
  <2>1. sock' \in [Conns -> SocketStates]
      BY <1>f, <1>3, <1>4 DEF Receive, InFlight, At, SocketStates
  <2> QED
      BY <1>f, <2>1 DEF Receive, TypeOK, Goto, At, InFlight, Places
<1>g. ASSUME NEW t \in Tasks, ReceiveHead(t) PROVE TypeOK'
  <2>1. conn[t] \in Conns
      BY <1>g, <1>3 DEF ReceiveHead, InFlight, At
  <2>2. queue' \in Seq(Held) /\ sock' \in [Conns -> SocketStates]
      BY <1>g, <2>1, <1>2, <1>4, <1>6, FinallyType DEF ReceiveHead, SocketStates
  <2>3. TasksOK'
      BY <1>g, <2>1, <1>0, AnsweredType, PoolConstants DEF ReceiveHead
  <2> QED
      BY <1>g, <1>1, <2>2, <2>3 DEF ReceiveHead
<1>h. ASSUME NEW t \in Tasks, Preload(t) PROVE TypeOK'
  <2>1. conn[t] \in Conns
      BY <1>h, <1>3 DEF Preload, InFlight, At
  <2>2. queue' \in Seq(Held) /\ sock' \in [Conns -> SocketStates]
      BY <1>h, <2>1, <1>5, <1>6, PutType DEF Preload
  <2>3. TasksOK'
      BY <1>h, <2>1, <1>0, AnsweredType, PoolConstants DEF Preload
  <2> QED
      BY <1>h, <1>1, <2>2, <2>3 DEF Preload
<1>i. ASSUME NEW t \in Tasks, Fail(t) PROVE TypeOK'
  <2>1. PICK error \in RetryableAt(t) :
            \/ Again(t, ErrorEvent(error), "start")
            \/ Raise(t)
      BY <1>i DEF Fail
  <2>2. InFlight(t) /\ ErrorEvent(error) \in Events
      BY RetryableType
  <2>3. TasksOK'
      BY <2>1, <2>2, <1>0, AgainType, RaiseType
  <2>4. queue' \in Seq(Held) /\ sock' \in [Conns -> SocketStates]
      BY <1>i, <2>2, <1>2, <1>3, <1>4, <1>6, FinallyType DEF Fail, SocketStates
  <2> QED
      BY <1>i, <1>1, <2>3, <2>4 DEF Fail
<1>j. ASSUME NEW t \in Tasks, FailSSL(t) PROVE TypeOK'
  <2>1. queue' \in Seq(Held) /\ sock' \in [Conns -> SocketStates]
      BY <1>j, <1>2, <1>6, PutType DEF FailSSL
  <2> QED
      BY <1>j, <1>0, <1>1, <2>1, RaiseType DEF FailSSL
<1>k. ASSUME NEW t \in Tasks, FailOtherwise(t) PROVE TypeOK'
  <2>1. queue' \in Seq(Held) /\ sock' \in [Conns -> SocketStates]
      BY <1>k, <1>2, <1>5, <1>6, PutType, FinallyType DEF FailOtherwise
  <2> QED
      BY <1>k, <1>0, <1>1, <2>1, RaiseType DEF FailOtherwise
<1>l. ASSUME NEW t \in Tasks, Cancel(t) PROVE TypeOK'
  <2>1. queue' \in Seq(Held) /\ sock' \in [Conns -> SocketStates]
      BY <1>l, <1>2, <1>6, FinallyType DEF Cancel
  <2> QED
      BY <1>l, <1>0, <1>1, <2>1, RaiseType DEF Cancel
<1>m. ASSUME NEW t \in Tasks, Read(t) PROVE TypeOK'
  <2>1. queue' \in Seq(Held) /\ sock' \in [Conns -> SocketStates]
      BY <1>m, <1>2, <1>5, <1>6, PutType DEF Read
  <2> QED
      BY <1>m, <1>0, <1>1, <2>1, RaiseType DEF Read
<1>n. ASSUME NEW t \in Tasks, Release(t) PROVE TypeOK'
  <2>1. queue' \in Seq(Held) /\ sock' \in [Conns -> SocketStates]
      BY <1>n, <1>2, <1>6, PutType DEF Release
  <2> QED
      BY <1>n, <1>0, <1>1, <2>1, RaiseType DEF Release
<1>o. ASSUME NEW t \in Tasks, Drop(t) PROVE TypeOK'
    BY <1>o, <1>0, <1>1, <1>6, RaiseType DEF Drop
<1>p. ASSUME NEW c \in Conns, ReadReleased(c) \/ PeerDrop(c) PROVE TypeOK'
    BY <1>p DEF ReadReleased, PeerDrop, Socket, SocketStates, TypeOK, InFlight, At
<1>q. ASSUME Close PROVE TypeOK'
    BY <1>q DEF Close, SocketStates, TypeOK, InFlight, At
<1>r. ASSUME UNCHANGED vars PROVE TypeOK'
    BY <1>r DEF vars, TypeOK, InFlight, At
<1> QED
    BY <1>a, <1>b, <1>c, <1>d, <1>e, <1>f, <1>g, <1>h, <1>i, <1>j, <1>k, <1>l,
       <1>m, <1>n, <1>o, <1>p, <1>q, <1>r DEF Next, Serve

(***************************************************************************)
(* Every variable keeps its type; a task holds a connection exactly while  *)
(* an attempt is under way or the caller has an unread response.           *)
(***************************************************************************)
THEOREM TypeCorrect == Spec => []TypeOK
<1>1. Init => TypeOK
  <2> SUFFICES ASSUME Init PROVE TypeOK
      OBVIOUS
  <2>1. queue \in Seq(Held)
      BY PoolConstants, IsASeq DEF Init, Held
  <2>2. retries \in [Tasks -> Retry] /\ mode \in [Tasks -> Modes]
      BY PoolConstants DEF Init
  <2> QED
      BY <2>1, <2>2 DEF Init, TypeOK, Held, SocketStates, Places, InFlight, At
<1> QED
    BY <1>1, TypeStep, PTL DEF Spec
-----------------------------------------------------------------------------
(***************************************************************************)
(* What steps do to the queue and to the connections held, whichever part  *)
(* of the code they are: a step either keeps both, drains the queue, puts  *)
(* a placeholder nobody took, or moves a connection of one task.           *)
(***************************************************************************)
Streams == \E m \in Modes : ~m.release

Puts(S) ==
    \/ /\ UNCHANGED queue
       /\ closed \/ Len(queue) >= MaxSize \/ Streams
    \/ /\ ~closed /\ Len(queue) < MaxSize
       /\ \E c \in S : queue' = Append(queue, c)

Returns(t) ==
    /\ conn[t] # NoConn
    /\ conn' = [conn EXCEPT ![t] = NoConn]
    /\ Puts({conn[t], NoConn})

Takes(t) ==
    /\ conn[t] = NoConn
    /\ queue # << >>
    /\ queue' = Front(queue)
    /\ \E c \in (Fresh \cup {Last(queue)}) \ {NoConn} : conn' = [conn EXCEPT ![t] = c]

Extra(t) ==
    /\ ~Block
    /\ conn[t] = NoConn
    /\ UNCHANGED queue
    /\ \E c \in Fresh : conn' = [conn EXCEPT ![t] = c]

Phantom ==
    /\ PoolTimeout \/ "cancel" \in Disturbances
    /\ UNCHANGED conn
    /\ Puts({NoConn})

Move ==
    \/ ~closed /\ closed' /\ queue' = << >> /\ UNCHANGED conn
    \/ /\ closed' = closed
       /\ \/ UNCHANGED <<queue, conn>>
          \/ Phantom
          \/ \E t \in Tasks : Returns(t) \/ Takes(t) \/ Extra(t)

(***************************************************************************)
(* Only a response whose request did not release its connection holds one, *)
(* and only a body that is to be preloaded is read by urlopen.             *)
(***************************************************************************)
OnlyStreamsHold ==
    \A t \in Tasks : /\ At(t, "response") => ~mode[t].release
                     /\ At(t, "reading") => mode[t].preload

LEMMA PutPuts ==
    ASSUME NEW c, NEW socks, Put(c, socks)
    PROVE  Puts({c})
    BY PoolConstants DEF Put, Puts, Refused

LEMMA FinallyPuts ==
    ASSUME TypeOK, NEW t \in Tasks, NEW c, NEW socks,
           Finally(mode[t].release, c, socks)
    PROVE  Puts({c})
<1>1. mode[t] \in Modes
    BY DEF TypeOK
<1> QED
    BY <1>1, PutPuts DEF Finally, Puts, Streams

LEMMA PutsMore ==
    ASSUME NEW S, NEW T, S \subseteq T, Puts(S)
    PROVE  Puts(T)
    BY DEF Puts

(***************************************************************************)
(* However urlopen goes on after its finally clause, the task lets go of   *)
(* the connection, or the finally clause has left it to the response.      *)
(***************************************************************************)
LEMMA AnsweredLetsGo ==
    ASSUME TypeOK, NEW t \in Tasks, NEW kind, Answered(t, kind)
    PROVE  \/ conn' = [conn EXCEPT ![t] = NoConn]
           \/ conn' = conn /\ ~mode[t].preload /\ ~mode[t].release
<1>1. mode[t].release \in BOOLEAN /\ mode[t].preload \in BOOLEAN
    BY PoolConstants DEF TypeOK
<1>2. CASE Deliver(t)
    BY <1>1, <1>2 DEF Deliver, ResponseConn, TypeOK
<1>3. CASE \E ev, place : Again(t, ev, place)
    BY <1>3 DEF Again
<1>4. CASE Raise(t)
    BY <1>4 DEF Raise
<1> QED
    BY <1>2, <1>3, <1>4 DEF Answered

LEMMA Moves ==
    ASSUME TypeOK, OnlyStreamsHold, [Next]_vars
    PROVE  Move
<1>1. \A t \in Tasks : (conn[t] # NoConn) = (InFlight(t) \/ At(t, "response"))
    BY DEF TypeOK
<1>2. ASSUME NEW t \in Tasks, Raise(t), InFlight(t) \/ At(t, "response"),
             closed' = closed, Puts({conn[t]}) \/ Puts({NoConn})
      PROVE  Move
  <2>1. Returns(t)
      BY <1>1, <1>2, PutsMore DEF Returns, Raise
  <2> QED
      BY <1>2, <2>1 DEF Move
<1>a. ASSUME NEW t \in Tasks, Request(t) \/ Enter(t) \/ Send(t) \/ Receive(t)
      PROVE  Move
    BY <1>a DEF Request, Enter, Send, Receive, Move
<1>c. ASSUME NEW t \in Tasks, TakeSlot(t) PROVE Move
  <2>1. conn[t] = NoConn
      BY <1>c, <1>1 DEF TakeSlot, At, InFlight
  <2>2. Fresh \subseteq Conns
      BY DEF Fresh
  <2>3. Takes(t)
      BY <1>c, <2>1, <2>2, PoolConstants DEF TakeSlot, Takes
  <2> QED
      BY <1>c, <2>3 DEF TakeSlot, Move
<1>d. ASSUME NEW t \in Tasks, PoolTimeoutFires(t) PROVE Move
  <2>1. conn[t] = NoConn
      BY <1>d, <1>1 DEF PoolTimeoutFires, At, InFlight
  <2>2. CASE Block
    <3>1. Phantom
        BY <1>d, <2>2, FinallyPuts DEF PoolTimeoutFires, Phantom
    <3> QED
        BY <1>d, <3>1 DEF PoolTimeoutFires, Move
  <2>3. CASE ~Block
    <3>1. Extra(t)
        BY <1>d, <2>1, <2>3 DEF PoolTimeoutFires, Extra
    <3> QED
        BY <1>d, <3>1 DEF PoolTimeoutFires, Move
  <2> QED
      BY <2>2, <2>3
<1>g. ASSUME NEW t \in Tasks, ReceiveHead(t) PROVE Move
  <2>1. conn[t] # NoConn
      BY <1>g, <1>1 DEF ReceiveHead, InFlight, At
  <2>2. Puts({conn[t]})
      BY <1>g, FinallyPuts DEF ReceiveHead
  <2>3. CASE conn' = [conn EXCEPT ![t] = NoConn]
    <3>1. Returns(t)
        BY <2>1, <2>2, <2>3, PutsMore DEF Returns
    <3> QED
        BY <1>g, <3>1 DEF ReceiveHead, Move
  <2>4. CASE conn' = conn /\ ~mode[t].release
      BY <1>g, <2>4 DEF ReceiveHead, Finally, Move
  <2> QED
      BY <1>g, <2>3, <2>4, AnsweredLetsGo DEF ReceiveHead
<1>h. ASSUME NEW t \in Tasks, Preload(t) PROVE Move
  <2>1. conn[t] # NoConn
      BY <1>h, <1>1 DEF Preload, InFlight, At
  <2>2. Puts({conn[t]})
      BY <1>h, PutPuts DEF Preload
  <2>3. CASE conn' = [conn EXCEPT ![t] = NoConn]
    <3>1. Returns(t)
        BY <2>1, <2>2, <2>3, PutsMore DEF Returns
    <3> QED
        BY <1>h, <3>1 DEF Preload, Move
  <2> QED
      BY <1>h, <2>3, AnsweredLetsGo DEF Preload, OnlyStreamsHold
<1>i. ASSUME NEW t \in Tasks, Fail(t) PROVE Move
  <2>1. InFlight(t) /\ Puts({NoConn}) /\ closed' = closed
      BY <1>i, FinallyPuts, RetryableType DEF Fail
  <2>2. conn' = [conn EXCEPT ![t] = NoConn]
      BY <1>i DEF Fail, Raise, Again
  <2>3. Returns(t)
      BY <1>1, <2>1, <2>2, PutsMore DEF Returns
  <2> QED
      BY <2>1, <2>3 DEF Move
<1>j. ASSUME NEW t \in Tasks, FailSSL(t) PROVE Move
    BY <1>j, <1>2, PutPuts DEF FailSSL
<1>k. ASSUME NEW t \in Tasks, FailOtherwise(t) PROVE Move
  <2>1. InFlight(t) /\ Puts({conn[t]})
      BY <1>k, PutPuts, FinallyPuts DEF FailOtherwise, InFlight, At
  <2> QED
      BY <1>k, <1>2, <2>1 DEF FailOtherwise
<1>l. ASSUME NEW t \in Tasks, Cancel(t) PROVE Move
  <2>1. Puts({conn[t]}) \/ Puts({NoConn})
      BY <1>l, FinallyPuts DEF Cancel
  <2>2. CASE InFlight(t)
      BY <1>l, <1>2, <2>1, <2>2 DEF Cancel
  <2>3. CASE At(t, "waiting")
    <3>1. conn[t] = NoConn
        BY <1>1, <2>3 DEF At, InFlight
    <3>2. conn' = conn
        BY <1>l, <3>1 DEF Cancel, Raise, TypeOK
    <3>3. Phantom
        BY <1>l, <2>1, <3>1, <3>2 DEF Cancel, Phantom
    <3> QED
        BY <1>l, <3>3 DEF Cancel, Move
  <2> QED
      BY <1>l, <2>2, <2>3 DEF Cancel
<1>m. ASSUME NEW t \in Tasks, Read(t) PROVE Move
    BY <1>m, <1>2, PutPuts DEF Read
<1>n. ASSUME NEW t \in Tasks, Release(t) PROVE Move
    BY <1>n, <1>2, PutPuts DEF Release
<1>o. ASSUME NEW t \in Tasks, Drop(t) PROVE Move
  <2>1. Streams
      BY <1>o DEF Drop, OnlyStreamsHold, Streams, TypeOK
  <2>2. Puts({conn[t]})
      BY <1>o, <2>1 DEF Drop, Puts
  <2> QED
      BY <1>o, <1>2, <2>2 DEF Drop
<1>p. ASSUME NEW c \in Conns, ReadReleased(c) \/ PeerDrop(c) PROVE Move
    BY <1>p DEF ReadReleased, PeerDrop, Move
<1>q. ASSUME Close PROVE Move
    BY <1>q DEF Close, Move
<1>r. ASSUME UNCHANGED vars PROVE Move
    BY <1>r DEF vars, Move
<1> QED
    BY <1>a, <1>c, <1>d, <1>g, <1>h, <1>i, <1>j, <1>k, <1>l, <1>m, <1>n, <1>o,
       <1>p, <1>q, <1>r DEF Next, Serve

LEMMA StreamsHoldStep ==
    TypeOK /\ OnlyStreamsHold /\ [Next]_vars => OnlyStreamsHold'
<1> SUFFICES ASSUME TypeOK, OnlyStreamsHold, [Next]_vars PROVE OnlyStreamsHold'
    OBVIOUS
<1> USE DEF At
<1>1. ASSUME UNCHANGED mode, NEW t \in Tasks, NEW place, Goto(t, place),
             place = "response" => ~mode[t].release,
             place = "reading" => mode[t].preload
      PROVE  OnlyStreamsHold'
    BY <1>1 DEF OnlyStreamsHold, Goto, TypeOK
<1>2. ASSUME UNCHANGED mode, NEW t \in Tasks, Raise(t) PROVE OnlyStreamsHold'
    BY <1>1, <1>2 DEF Raise
<1>3. ASSUME UNCHANGED mode, NEW t \in Tasks, NEW ev,
             NEW place \in {"start", "idle"}, Again(t, ev, place)
      PROVE OnlyStreamsHold'
    BY <1>1, <1>3 DEF Again
<1>4. ASSUME UNCHANGED mode, NEW t \in Tasks, Deliver(t) PROVE OnlyStreamsHold'
    BY <1>1, <1>4 DEF Deliver, ResponseConn
<1>5. ASSUME UNCHANGED mode, NEW t \in Tasks, NEW kind, Answered(t, kind)
      PROVE  OnlyStreamsHold'
    BY <1>2, <1>3, <1>4, <1>5 DEF Answered
<1>6. ASSUME NEW t \in Tasks, Request(t) PROVE OnlyStreamsHold'
    BY <1>6 DEF Request, OnlyStreamsHold, Goto, TypeOK
<1>7. ASSUME NEW t \in Tasks,
             Enter(t) \/ TakeSlot(t) \/ PoolTimeoutFires(t) \/ Send(t) \/ Receive(t)
      PROVE  OnlyStreamsHold'
    BY <1>1, <1>7 DEF Enter, TakeSlot, PoolTimeoutFires, Send, Receive
<1>8. ASSUME NEW t \in Tasks, ReceiveHead(t) \/ Preload(t) PROVE OnlyStreamsHold'
    BY <1>5, <1>8 DEF ReceiveHead, Preload
<1>9. ASSUME NEW t \in Tasks, Fail(t) PROVE OnlyStreamsHold'
    BY <1>2, <1>3, <1>9 DEF Fail
<1>10. ASSUME NEW t \in Tasks,
              FailSSL(t) \/ FailOtherwise(t) \/ Cancel(t) \/ Read(t)
              \/ Release(t) \/ Drop(t)
       PROVE  OnlyStreamsHold'
    BY <1>2, <1>10 DEF FailSSL, FailOtherwise, Cancel, Read, Release, Drop
<1>11. ASSUME UNCHANGED <<pc, mode>> PROVE OnlyStreamsHold'
    BY <1>11 DEF OnlyStreamsHold
<1> QED
    BY <1>6, <1>7, <1>8, <1>9, <1>10, <1>11
    DEF Next, Serve, Close, PeerDrop, ReadReleased, vars
-----------------------------------------------------------------------------
(* What Append and Front do to a queue whose connections are distinct. *)
Distinct(q) ==
    \A i, j \in DOMAIN q : q[i] = q[j] /\ q[i] # NoConn => i = j

LEMMA AppendDistinct ==
    ASSUME queue \in Seq(Held), NEW c \in Held, Distinct(queue),
           c = NoConn \/ c \notin Elements, queue' = Append(queue, c)
    PROVE  Distinct(queue)' /\ Elements' = Elements \cup {c}
<1>1. /\ DOMAIN queue = 1..Len(queue) /\ Len(queue) \in Nat
      /\ DOMAIN queue' = 1..(Len(queue) + 1)
      /\ \A i \in 1..Len(queue) : queue'[i] = queue[i]
      /\ queue'[Len(queue) + 1] = c
    BY AppendProperties, LenProperties
<1>2. Elements' = Elements \cup {c}
    BY <1>1 DEF Elements
<1>3. \A i \in DOMAIN queue : queue[i] \in Elements
    BY DEF Elements
<1>4. ASSUME NEW i \in DOMAIN queue', NEW j \in DOMAIN queue',
             queue'[i] = queue'[j], queue'[i] # NoConn, i # j
      PROVE  FALSE
  <2>1. CASE i \in 1..Len(queue) /\ j \in 1..Len(queue)
      BY <1>1, <1>4, <2>1 DEF Distinct
  <2>2. CASE i = Len(queue) + 1 /\ j \in 1..Len(queue)
      BY <1>1, <1>3, <1>4, <2>2
  <2>3. CASE j = Len(queue) + 1 /\ i \in 1..Len(queue)
      BY <1>1, <1>3, <1>4, <2>3
  <2> QED
      BY <1>1, <1>4, <2>1, <2>2, <2>3
<1> QED
    BY <1>2, <1>4 DEF Distinct

LEMMA FrontDistinct ==
    ASSUME queue \in Seq(Held), queue # << >>, Distinct(queue), queue' = Front(queue)
    PROVE  /\ Distinct(queue)'
           /\ Elements' \subseteq Elements
           /\ Last(queue) \in Elements
           /\ Last(queue) # NoConn => Last(queue) \notin Elements'
           /\ Elements \subseteq Elements' \cup {Last(queue)}
           /\ Len(queue') = Len(queue) - 1
<1>1. Len(queue) \in Nat \ {0} /\ DOMAIN queue = 1..Len(queue)
    BY LenProperties, EmptySeq
<1>2. /\ DOMAIN queue' = 1..(Len(queue) - 1)
      /\ Len(queue') = Len(queue) - 1
      /\ \A i \in 1..(Len(queue) - 1) : queue'[i] = queue[i]
    BY <1>1 DEF Front
<1> QED
    BY <1>1, <1>2 DEF Elements, Distinct, Last

LEMMA PutsAny ==
    ASSUME NEW S, Puts(S)
    PROVE  UNCHANGED queue \/ \E c \in S : queue' = Append(queue, c)
    BY DEF Puts

LEMMA ExclusiveStep ==
    TypeOK /\ OnlyStreamsHold /\ Exclusive /\ [Next]_vars => Exclusive'
<1> SUFFICES ASSUME TypeOK, Exclusive, Move PROVE Exclusive'
    BY Moves
<1>1. /\ queue \in Seq(Held) /\ conn \in [Tasks -> Held] /\ NoConn \in Held
      /\ Distinct(queue)
    BY DEF TypeOK, Held, Exclusive, Distinct
<1>2. /\ \A t, u \in Tasks : conn[t] = conn[u] /\ conn[t] # NoConn => t = u
      /\ \A t \in Tasks : conn[t] # NoConn => conn[t] \notin Elements
    BY DEF Exclusive
<1>3. ASSUME Distinct(queue)',
             \A t, u \in Tasks : conn'[t] = conn'[u] /\ conn'[t] # NoConn => t = u,
             \A t \in Tasks : conn'[t] # NoConn => conn'[t] \notin Elements'
      PROVE  Exclusive'
    BY <1>3 DEF Exclusive, Distinct
<1>4. CASE queue' = << >> /\ UNCHANGED conn
  <2>1. Distinct(queue)' /\ Elements' = {}
      BY <1>4 DEF Distinct, Elements
  <2> QED
      BY <1>2, <1>3, <1>4, <2>1
<1>5. CASE UNCHANGED <<queue, conn>>
    BY <1>5 DEF Exclusive, Elements
<1>6. CASE Phantom
  <2>1. CASE UNCHANGED queue
      BY <1>6, <2>1 DEF Phantom, Exclusive, Elements
  <2>2. CASE queue' = Append(queue, NoConn)
    <3>1. Distinct(queue)' /\ Elements' = Elements \cup {NoConn}
        BY <1>1, <2>2, AppendDistinct
    <3> QED
        BY <1>2, <1>3, <1>6, <3>1 DEF Phantom
  <2> QED
      BY <1>6, <2>1, <2>2, PutsAny DEF Phantom
<1>7. CASE \E t \in Tasks : Returns(t)
  <2>1. PICK t \in Tasks : Returns(t)
      BY <1>7
  <2>2. conn' = [conn EXCEPT ![t] = NoConn] /\ conn[t] \notin Elements
      BY <1>2, <2>1 DEF Returns
  <2>3. /\ \A u, v \in Tasks : conn'[u] = conn'[v] /\ conn'[u] # NoConn => u = v
        /\ \A u \in Tasks : conn'[u] # NoConn => conn'[u] \notin Elements \cup {conn[t]}
      BY <1>1, <1>2, <2>2
  <2>4. CASE UNCHANGED queue
      BY <1>1, <1>3, <2>3, <2>4 DEF Distinct, Elements
  <2>5. CASE \E c \in {conn[t], NoConn} : queue' = Append(queue, c)
    <3>1. PICK c \in {conn[t], NoConn} : queue' = Append(queue, c)
        BY <2>5
    <3>2. Distinct(queue)' /\ Elements' = Elements \cup {c}
        BY <1>1, <2>2, <3>1, AppendDistinct
    <3> QED
        BY <1>3, <2>3, <3>1, <3>2
  <2> QED
      BY <2>1, <2>4, <2>5, PutsAny DEF Returns
<1>8. CASE \E t \in Tasks : Takes(t)
  <2>1. PICK t \in Tasks : Takes(t)
      BY <1>8
  <2>2. PICK c \in (Fresh \cup {Last(queue)}) \ {NoConn} : conn' = [conn EXCEPT ![t] = c]
      BY <2>1 DEF Takes
  <2>3. /\ Distinct(queue)' /\ Elements' \subseteq Elements
        /\ Last(queue) \in Elements
        /\ Last(queue) # NoConn => Last(queue) \notin Elements'
      BY <1>1, <2>1, FrontDistinct DEF Takes
  <2>4. c \notin Elements' /\ \A u \in Tasks : conn[u] # c
      BY <1>2, <2>2, <2>3 DEF Fresh, Lent
  <2> QED
      BY <1>1, <1>2, <1>3, <2>2, <2>3, <2>4
<1>9. CASE \E t \in Tasks : Extra(t)
  <2>1. PICK t \in Tasks : Extra(t)
      BY <1>9
  <2>2. PICK c \in Fresh : conn' = [conn EXCEPT ![t] = c]
      BY <2>1 DEF Extra
  <2>3. c \notin Elements /\ (\A u \in Tasks : conn[u] # c) /\ UNCHANGED queue
      BY <2>1, PoolConstants DEF Fresh, Lent, Extra
  <2> QED
      BY <1>1, <1>2, <1>3, <2>2, <2>3 DEF Distinct, Elements
<1> QED
    BY <1>4, <1>5, <1>6, <1>7, <1>8, <1>9 DEF Move

(***************************************************************************)
(* A connection never serves two requests at once, for any use of the      *)
(* pool: all modes, cancellations, timeouts, errors and a close included.  *)
(***************************************************************************)
THEOREM Exclusivity == Spec => []Exclusive
<1>1. Init => OnlyStreamsHold /\ Exclusive
    BY PoolConstants DEF Init, OnlyStreamsHold, At, Exclusive
<1> QED
    BY <1>1, TypeCorrect, StreamsHoldStep, ExclusiveStep, PTL DEF Spec
-----------------------------------------------------------------------------
(***************************************************************************)
(* The slots of the pool: the elements of the queue and the borrowers.     *)
(***************************************************************************)
Slots == Len(queue) + Cardinality(Borrowers)

LEMMA BorrowersFinite ==
    /\ IsFiniteSet(Borrowers) /\ Cardinality(Borrowers) \in Nat
    /\ Cardinality(Borrowers') \in Nat
<1>1. Borrowers \in SUBSET Tasks /\ Borrowers' \in SUBSET Tasks
    BY DEF Borrowers
<1> QED
    BY <1>1, PoolConstants, FS_Subset, FS_CardinalityType

LEMMA QueueLength ==
    ASSUME queue \in Seq(Held)
    PROVE  /\ Len(queue) \in Nat
           /\ \A c \in Held : Len(Append(queue, c)) = Len(queue) + 1
           /\ queue # << >> /\ queue' = Front(queue) => Len(queue') = Len(queue) - 1
<1>1. Len(queue) \in Nat /\ (queue # << >> => Len(queue) # 0)
    BY EmptySeq
<1>2. \A c \in Held : Len(Append(queue, c)) = Len(queue) + 1
    BY AppendProperties
<1>3. ASSUME queue # << >>, queue' = Front(queue) PROVE Len(queue') = Len(queue) - 1
  <2>1. Len(queue) \in Nat \ {0} /\ DOMAIN queue = 1..Len(queue)
      BY <1>1, <1>3, LenProperties
  <2>2. /\ DOMAIN queue' = 1..(Len(queue) - 1)
        /\ Len(queue') = Len(queue) - 1
      BY <1>3, <2>1 DEF Front
  <2> QED
      BY <2>2
<1> QED
    BY <1>1, <1>2, <1>3

LEMMA Return1 ==
    ASSUME conn \in [Tasks -> Held], NEW t \in Tasks, conn[t] # NoConn,
           conn' = [conn EXCEPT ![t] = NoConn]
    PROVE  /\ Cardinality(Borrowers') = Cardinality(Borrowers) - 1
           /\ Cardinality(Borrowers') \in Nat
<1>1. Borrowers' = Borrowers \ {t} /\ t \in Borrowers
    BY DEF Borrowers
<1> QED
    BY <1>1, BorrowersFinite, FS_RemoveElement, FS_CardinalityType

LEMMA Borrow1 ==
    ASSUME conn \in [Tasks -> Held], NEW t \in Tasks, conn[t] = NoConn,
           NEW c \in Held \ {NoConn}, conn' = [conn EXCEPT ![t] = c]
    PROVE  Cardinality(Borrowers') = Cardinality(Borrowers) + 1
<1>1. Borrowers' = Borrowers \cup {t} /\ t \notin Borrowers
    BY DEF Borrowers
<1> QED
    BY <1>1, BorrowersFinite, FS_AddElement

(***************************************************************************)
(* How a step changes the number of slots.  A connection that comes back   *)
(* to a queue with room restores its slot, unless a request streams; only  *)
(* a wait that is given up, or a pool that does not block, adds one.       *)
(***************************************************************************)
Restored ==
    /\ Slots' \in {Slots, Slots - 1}
    /\ Slots' = Slots \/ closed \/ Slots' >= MaxSize \/ Streams

Added == Slots' \in {Slots, Slots + 1}

LEMMA SlotsMove ==
    ASSUME TypeOK, Move, closed' = closed
    PROVE  /\ Slots \in Nat /\ Slots' \in Nat
           /\ Restored \/ (Added /\ (~Block \/ PoolTimeout \/ "cancel" \in Disturbances))
<1>1. conn \in [Tasks -> Held] /\ queue \in Seq(Held) /\ NoConn \in Held
    BY DEF TypeOK, Held
<1>2. Len(queue) \in Nat /\ Cardinality(Borrowers) \in Nat
    BY <1>1, QueueLength, BorrowersFinite
<1>3. CASE UNCHANGED <<queue, conn>>
    BY <1>2, <1>3 DEF Slots, Restored, Borrowers
<1>4. CASE Phantom
  <2>1. Borrowers' = Borrowers
      BY <1>4 DEF Phantom, Borrowers
  <2>2. Len(queue') \in {Len(queue), Len(queue) + 1}
      BY <1>1, <1>4, QueueLength, PutsAny DEF Phantom
  <2> QED
      BY <1>2, <1>4, <2>1, <2>2 DEF Phantom, Slots, Added
<1>5. CASE \E t \in Tasks : Returns(t)
  <2>1. PICK t \in Tasks : Returns(t)
      BY <1>5
  <2>2. Cardinality(Borrowers') = Cardinality(Borrowers) - 1
        /\ Cardinality(Borrowers') \in Nat
      BY <1>1, <2>1, Return1 DEF Returns
  <2>3. \/ Len(queue') = Len(queue) /\ (closed \/ Len(queue) >= MaxSize \/ Streams)
        \/ Len(queue') = Len(queue) + 1
      BY <1>1, <2>1, QueueLength DEF Returns, Puts
  <2> QED
      BY <1>2, <2>2, <2>3, PoolConstants DEF Slots, Restored
<1>6. CASE \E t \in Tasks : Takes(t)
  <2>1. PICK t \in Tasks : Takes(t)
      BY <1>6
  <2>2. Last(queue) \in Held /\ Fresh \subseteq Held
      BY <1>1, <2>1, ElementOfSeq, EmptySeq DEF Takes, Last, Fresh, Held
  <2>3. Cardinality(Borrowers') = Cardinality(Borrowers) + 1
      BY <1>1, <2>1, <2>2, Borrow1 DEF Takes
  <2>4. Len(queue') = Len(queue) - 1
      BY <1>1, <2>1, QueueLength DEF Takes
  <2> QED
      BY <1>2, <2>3, <2>4 DEF Slots, Restored
<1>7. CASE \E t \in Tasks : Extra(t)
  <2>1. PICK t \in Tasks : Extra(t)
      BY <1>7
  <2>2. Cardinality(Borrowers') = Cardinality(Borrowers) + 1
      BY <1>1, <2>1, Borrow1, PoolConstants DEF Extra, Fresh, Held
  <2> QED
      BY <1>2, <2>1, <2>2 DEF Slots, Added, Extra
<1> QED
    BY <1>3, <1>4, <1>5, <1>6, <1>7 DEF Move

SlotBound == ~closed => Slots <= MaxSize

(* A blocking pool that nobody stops waiting for. *)
Patient == Block /\ ~PoolTimeout /\ "cancel" \notin Disturbances

LEMMA SlotsInit == Init => Slots = MaxSize /\ OnlyStreamsHold
<1> SUFFICES ASSUME Init PROVE Slots = MaxSize /\ OnlyStreamsHold
    OBVIOUS
<1>1. Len(queue) = MaxSize /\ Borrowers = {}
    BY PoolConstants DEF Init, Borrowers
<1> QED
    BY <1>1, FS_EmptySet, PoolConstants DEF Slots, Init, OnlyStreamsHold, At

LEMMA SlotBoundStep ==
    ASSUME Patient
    PROVE  TypeOK /\ OnlyStreamsHold /\ SlotBound /\ [Next]_vars => SlotBound'
<1> SUFFICES ASSUME TypeOK, SlotBound, Move PROVE SlotBound'
    BY Moves
<1>1. CASE closed'
    BY <1>1 DEF SlotBound
<1>2. CASE ~closed' /\ closed' = closed
    BY <1>2, SlotsMove, PoolConstants DEF SlotBound, Restored, Patient
<1> QED
    BY <1>1, <1>2 DEF Move

(***************************************************************************)
(* After a close a patient pool holds only connections that are in use.    *)
(***************************************************************************)
ClosedIsEmpty == closed => queue = << >>

LEMMA ClosedIsEmptyStep ==
    TypeOK /\ OnlyStreamsHold /\ ClosedIsEmpty /\ [Next]_vars => ClosedIsEmpty'
<1> SUFFICES ASSUME ClosedIsEmpty, Move PROVE ClosedIsEmpty'
    BY Moves
<1> QED
    BY DEF ClosedIsEmpty, Move, Phantom, Returns, Takes, Extra, Puts

(***************************************************************************)
(* The borrowers of a pool that was closed only become fewer.              *)
(***************************************************************************)
BorrowersBound == Cardinality(Borrowers) <= MaxSize

LEMMA BorrowersBoundStep ==
    ASSUME Patient
    PROVE  TypeOK /\ OnlyStreamsHold /\ SlotBound /\ SlotBound' /\ ClosedIsEmpty
           /\ BorrowersBound /\ [Next]_vars => BorrowersBound'
<1> SUFFICES ASSUME TypeOK, SlotBound, SlotBound', ClosedIsEmpty, BorrowersBound, Move,
                    TypeOK'
             PROVE  BorrowersBound'
    BY Moves, TypeStep
<1>1. conn \in [Tasks -> Held] /\ queue' \in Seq(Held)
    BY DEF TypeOK, Held
<1>2. Cardinality(Borrowers) \in Nat /\ Cardinality(Borrowers') \in Nat
    BY BorrowersFinite
<1>3. CASE ~closed'
    BY <1>1, <1>2, <1>3, QueueLength, PoolConstants DEF SlotBound, BorrowersBound, Slots
<1>4. CASE conn' = conn
    BY <1>4 DEF BorrowersBound, Borrowers
<1>5. CASE closed /\ \E t \in Tasks : Returns(t)
  <2>1. PICK t \in Tasks : Returns(t)
      BY <1>5
  <2>2. Cardinality(Borrowers') = Cardinality(Borrowers) - 1
      BY <1>1, <2>1, Return1 DEF Returns
  <2> QED
      BY <1>2, <2>2, PoolConstants DEF BorrowersBound
<1> QED
    BY <1>3, <1>4, <1>5 DEF Move, Phantom, Takes, Extra, ClosedIsEmpty, Patient

(***************************************************************************)
(* "No more than maxsize connections will be used at a time": true of a    *)
(* blocking pool as long as no wait is given up.                           *)
(***************************************************************************)
THEOREM PatientWithinMaxSize ==
    ASSUME Patient
    PROVE  Spec => []WithinMaxSize
<1>1. Init => OnlyStreamsHold /\ SlotBound /\ ClosedIsEmpty /\ BorrowersBound
  <2> SUFFICES ASSUME Init
               PROVE  OnlyStreamsHold /\ SlotBound /\ ClosedIsEmpty /\ BorrowersBound
      OBVIOUS
  <2>1. Slots = MaxSize /\ closed = FALSE /\ OnlyStreamsHold
      BY SlotsInit DEF Init, OnlyStreamsHold, At
  <2>2. Borrowers = {}
      BY DEF Init, Borrowers
  <2> QED
      BY <2>1, <2>2, FS_EmptySet, PoolConstants DEF SlotBound, ClosedIsEmpty, BorrowersBound
<1>2. BorrowersBound => WithinMaxSize
    BY DEF BorrowersBound, WithinMaxSize
<1> QED
    BY <1>1, <1>2, TypeCorrect, StreamsHoldStep, SlotBoundStep, ClosedIsEmptyStep,
       BorrowersBoundStep, PTL DEF Spec

(***************************************************************************)
(* A pool whose requests release what they take never loses a slot,        *)
(* whatever fails, times out or is cancelled.                              *)
(***************************************************************************)
THEOREM NoSlotLost ==
    ASSUME \A m \in Modes : m.release
    PROVE  Spec => []SlotsNeverLost
<1>1. ASSUME TypeOK, SlotsNeverLost, Move PROVE SlotsNeverLost'
  <2>1. CASE closed'
      BY <2>1 DEF SlotsNeverLost
  <2>2. CASE ~closed' /\ closed' = closed
      BY <1>1, <2>2, SlotsMove, PoolConstants
      DEF SlotsNeverLost, Restored, Added, Streams, Slots
  <2> QED
      BY <1>1, <2>1, <2>2 DEF Move
<1>2. Init => OnlyStreamsHold /\ SlotsNeverLost
    BY SlotsInit, PoolConstants DEF SlotsNeverLost, Slots
<1>3. TypeOK /\ OnlyStreamsHold /\ SlotsNeverLost /\ [Next]_vars => SlotsNeverLost'
    BY <1>1, Moves
<1> QED
    BY <1>2, <1>3, TypeCorrect, StreamsHoldStep, PTL DEF Spec

(***************************************************************************)
(* With both: the slots of a patient pool whose requests release what they *)
(* take are maxsize at all times.                                          *)
(***************************************************************************)
THEOREM PatientConservesSlots ==
    ASSUME Patient, \A m \in Modes : m.release
    PROVE  Spec => []SlotsConserved
<1>1. Init => OnlyStreamsHold /\ SlotBound
    BY SlotsInit, PoolConstants DEF SlotBound
<1>2. TypeOK /\ SlotBound /\ SlotsNeverLost => SlotsConserved
  <2> SUFFICES ASSUME TypeOK, SlotBound, SlotsNeverLost PROVE SlotsConserved
      OBVIOUS
  <2>1. Slots \in Nat
      BY QueueLength, BorrowersFinite DEF TypeOK, Held, Slots
  <2> QED
      BY <2>1, PoolConstants DEF SlotBound, SlotsNeverLost, SlotsConserved, Slots
<1>3. Spec => []SlotsNeverLost
    BY NoSlotLost
<1> QED
    BY <1>1, <1>2, <1>3, TypeCorrect, StreamsHoldStep, SlotBoundStep, PTL DEF Spec

(***************************************************************************)
(* A closed blocking pool lends nothing: its queue is empty, and only an   *)
(* element of the queue becomes a loan.                                    *)
(***************************************************************************)
THEOREM ClosedLendsNothing ==
    ASSUME Block
    PROVE  Spec => NothingLentAfterClose
<1>1. Init => OnlyStreamsHold /\ ClosedIsEmpty
    BY DEF Init, OnlyStreamsHold, At, ClosedIsEmpty
<1>2. TypeOK /\ OnlyStreamsHold /\ ClosedIsEmpty /\ [Next]_vars
          => [closed => \A t \in Tasks : conn'[t] \in {conn[t], NoConn}]_vars
  <2> SUFFICES ASSUME TypeOK, ClosedIsEmpty, Move, closed, NEW t \in Tasks
               PROVE  conn'[t] \in {conn[t], NoConn}
      BY Moves
  <2>1. CASE conn' = conn
      BY <2>1
  <2>2. CASE \E u \in Tasks : Returns(u)
      BY <2>2 DEF Returns, TypeOK
  <2> QED
      BY <2>1, <2>2 DEF Move, Phantom, Takes, Extra, ClosedIsEmpty
<1> QED
    BY <1>1, <1>2, TypeCorrect, StreamsHoldStep, ClosedIsEmptyStep, PTL
    DEF Spec, NothingLentAfterClose
-----------------------------------------------------------------------------
(***************************************************************************)
(* Every step of a patient pool is a step of ConnectionLending.            *)
(***************************************************************************)
LEMMA LendingStep ==
    ASSUME Patient, TypeOK, Exclusive, SlotBound, ClosedIsEmpty, Move
    PROVE  Lending!LNext \/ UNCHANGED Lending!lvars
<1>1. /\ queue \in Seq(Held) /\ conn \in [Tasks -> Held] /\ NoConn \in Held
      /\ Distinct(queue) /\ closed \in BOOLEAN
    BY DEF TypeOK, Held, Exclusive, Distinct
<1>2. CASE ~closed /\ closed' /\ queue' = << >> /\ UNCHANGED conn
  <2>1. Elements' = {}
      BY <1>2 DEF Elements
  <2>2. Lending!Shut
      BY <1>2, <2>1 DEF Lending!Shut
  <2> QED
      BY <2>2 DEF Lending!LNext
<1>3. CASE closed' = closed /\ UNCHANGED <<queue, conn>>
    BY <1>3 DEF Lending!lvars, Elements
<1>4. CASE closed' = closed /\ \E t \in Tasks : Returns(t)
  <2>1. PICK t \in Tasks : Returns(t)
      BY <1>4
  <2>2. Elements' = Elements
        \/ (~closed /\ \E c \in {conn[t], NoConn} : Elements' = Elements \cup {c})
    <3>1. CASE UNCHANGED queue
        BY <3>1 DEF Elements
    <3>2. CASE ~closed /\ \E c \in {conn[t], NoConn} : queue' = Append(queue, c)
      <4>1. conn[t] \notin Elements
          BY <2>1 DEF Returns, Exclusive
      <4> QED
          BY <1>1, <3>2, <4>1, AppendDistinct
    <3> QED
        BY <2>1, <3>1, <3>2 DEF Returns, Puts
  <2>3. Lending!Return(t)
      BY <1>4, <2>1, <2>2 DEF Lending!Return, Returns
  <2> QED
      BY <2>3 DEF Lending!LNext
<1>5. CASE closed' = closed /\ \E t \in Tasks : Takes(t)
  <2>1. PICK t \in Tasks : Takes(t)
      BY <1>5
  <2>2. PICK c \in (Fresh \cup {Last(queue)}) \ {NoConn} : conn' = [conn EXCEPT ![t] = c]
      BY <2>1 DEF Takes
  <2>3. ~closed /\ Cardinality(Borrowers) < MaxSize
    <3>1. ~closed
        BY <2>1 DEF ClosedIsEmpty, Takes
    <3>2. Len(queue) \in Nat /\ Len(queue) # 0 /\ Cardinality(Borrowers) \in Nat
        BY <1>1, <2>1, EmptySeq, BorrowersFinite DEF Takes
    <3> QED
        BY <3>1, <3>2, PoolConstants DEF SlotBound, Slots
  <2>4. /\ Elements' \subseteq Elements
        /\ Last(queue) \in Elements
        /\ Last(queue) # NoConn => Last(queue) \notin Elements'
        /\ Elements \subseteq Elements' \cup {Last(queue)}
      BY <1>1, <2>1, FrontDistinct DEF Takes
  <2>5. c \in Conns /\ \A u \in Tasks : conn[u] # c
    <3>1. Last(queue) \in Held
        BY <1>1, <2>1, ElementOfSeq, EmptySeq DEF Takes, Last
    <3> QED
        BY <2>2, <2>4, <3>1 DEF Fresh, Lent, Exclusive, Held
  <2>6. \/ (Elements \ {NoConn})' = (Elements \ {NoConn}) \ {c}
        \/ /\ c \notin Elements \ {NoConn}
           /\ \E old \in Elements \ {NoConn} :
                 (Elements \ {NoConn})' = (Elements \ {NoConn}) \ {old}
    <3>1. CASE c = Last(queue)
        BY <2>2, <2>4, <3>1
    <3>2. CASE c \in Fresh /\ Last(queue) = NoConn
        BY <2>2, <2>4, <3>2 DEF Fresh
    <3>3. CASE c \in Fresh /\ Last(queue) # NoConn
        BY <2>2, <2>4, <3>3 DEF Fresh
    <3> QED
        BY <2>2, <3>1, <3>2, <3>3
  <2>7. Lending!Lend(t, c)
    <3>1. Lending!Busy = Borrowers
        BY DEF Lending!Busy, Borrowers
    <3>2. conn[t] = NoConn /\ (~closed)' = ~closed
        BY <1>5, <2>1 DEF Takes
    <3>3. Lending!Cardinality(Lending!Busy) < MaxSize
      <4>1. Lending!Cardinality(Borrowers) = Cardinality(Borrowers)
          BY DEF Lending!Cardinality, Cardinality
      <4> QED
          BY <2>3, <3>1, <4>1
    <3>4. \A other \in Tasks : conn[other] # c
        BY <2>5
    <3>5. conn' = [conn EXCEPT ![t] = c]
        BY <2>2
    <3> QED
        BY <2>3, <2>6, <3>2, <3>3, <3>4, <3>5 DEF Lending!Lend
  <2> QED
      BY <2>5, <2>7 DEF Lending!LNext
<1> QED
    BY <1>2, <1>3, <1>4, <1>5 DEF Move, Phantom, Extra, Patient

(***************************************************************************)
(* A patient pool, however it is used otherwise, implements lending of at  *)
(* most maxsize connections, each to one borrower at a time.               *)
(***************************************************************************)
THEOREM PatientLends ==
    ASSUME Patient
    PROVE  Spec => LendsOneAtATime
<1>1. Init => OnlyStreamsHold /\ Exclusive /\ SlotBound /\ ClosedIsEmpty
    BY SlotsInit, PoolConstants DEF Init, Exclusive, SlotBound, ClosedIsEmpty
<1>2. Init => Lending!LInit
  <2>1. Init => Elements \subseteq {NoConn}
      BY PoolConstants DEF Init, Elements
  <2> QED
      BY <2>1 DEF Init, Lending!LInit
<1>3. TypeOK /\ OnlyStreamsHold /\ Exclusive /\ SlotBound /\ ClosedIsEmpty
          /\ [Next]_vars => [Lending!LNext]_(Lending!lvars)
    BY LendingStep, Moves
<1> QED
    BY <1>1, <1>2, <1>3, TypeCorrect, StreamsHoldStep, ExclusiveStep, SlotBoundStep,
       ClosedIsEmptyStep, PTL DEF Spec, LendsOneAtATime, Lending!LSpec
-----------------------------------------------------------------------------
(***************************************************************************)
(* A use of the pool in which no connection is forgotten on the way: no    *)
(* request is cancelled, and those that stream read their response to its  *)
(* end, or hold it, and are answered by no redirect (a redirect, a retry   *)
(* or an error leaves a streaming request's connection behind).            *)
(***************************************************************************)
Careful ==
    /\ "cancel" \notin Disturbances
    /\ \/ ~Streams
       \/ /\ Responses \subseteq {"final"}
          /\ "drop" \notin Disturbances
          /\ \A m \in Modes : m.release \/ ~m.preload

(* Sockets in the states socks would all be in the queue or in use. *)
Accounted(socks) == \A c \in Conns : socks[c] # "none" => c \in Elements \cup Lent

LEMMA ElementsMove ==
    ASSUME queue \in Seq(Held)
    PROVE  /\ \A c \in Held : queue' = Append(queue, c) => Elements' = Elements \cup {c}
           /\ queue # << >> /\ queue' = Front(queue) => Elements \subseteq Elements' \cup {Last(queue)}
<1>1. DOMAIN queue = 1..Len(queue) /\ Len(queue) \in Nat
    BY LenProperties
<1>2. ASSUME NEW c \in Held, queue' = Append(queue, c) PROVE Elements' = Elements \cup {c}
  <2>1. /\ DOMAIN queue' = 1..Len(queue) + 1
        /\ \A i \in 1..Len(queue) : queue'[i] = queue[i]
        /\ queue'[Len(queue) + 1] = c
      BY <1>1, <1>2, AppendProperties, LenProperties
  <2> QED
      BY <1>1, <2>1 DEF Elements
<1>3. ASSUME queue # << >>, queue' = Front(queue)
      PROVE  Elements \subseteq Elements' \cup {Last(queue)}
  <2>1. Len(queue) \in Nat \ {0}
      BY <1>3, EmptySeq
  <2>2. /\ DOMAIN queue' = 1..Len(queue) - 1
        /\ \A i \in 1..Len(queue) - 1 : queue'[i] = queue[i]
      BY <1>1, <1>3, <2>1 DEF Front
  <2>3. Last(queue) = queue[Len(queue)]
      BY DEF Last
  <2> QED
      BY <1>1, <2>1, <2>2, <2>3 DEF Elements
<1> QED
    BY <1>2, <1>3

(***************************************************************************)
(* A task may put back what it holds, or a placeholder for a connection    *)
(* without a socket: nothing stays open that nobody has.                   *)
(***************************************************************************)
LEMMA PutLeaksNothing ==
    ASSUME TypeOK, NEW t \in Tasks, NEW c \in {conn[t], NoConn},
           NEW socks \in [Conns -> SocketStates], Accounted(socks), Put(c, socks),
           \A u \in Tasks \ {t} : conn'[u] = conn[u],
           c = NoConn /\ conn[t] # NoConn => socks[conn[t]] = "none"
    PROVE  NoSocketLeak'
<1>1. queue \in Seq(Held) /\ c \in Held /\ conn[t] \in Held
    BY PoolConstants DEF TypeOK, Held
<1>2. Lent \ {conn[t]} \subseteq Lent'
    BY DEF Lent
<1>3. CASE Refused
  <2>1. Elements' = Elements
      BY <1>3 DEF Put, Elements
  <2>2. \A d \in Conns : sock'[d] # "none" => socks[d] # "none" /\ d # conn[t]
    <3>1. CASE c = NoConn
        BY <3>1, <1>3, PoolConstants DEF Put
    <3>2. CASE c # NoConn
      <4>1. c = conn[t] /\ sock' = [socks EXCEPT ![c] = "none"]
          BY <3>2, <1>3 DEF Put
      <4> QED
          BY <4>1
    <3> QED
        BY <3>1, <3>2
  <2> QED
      BY <1>2, <2>1, <2>2 DEF Accounted, NoSocketLeak
<1>4. CASE ~Refused
  <2>1. Elements' = Elements \cup {c} /\ sock' = socks
      BY <1>1, <1>4, ElementsMove DEF Put
  <2>2. \A d \in Conns : sock'[d] # "none" => d # conn[t] \/ d = c
      BY <1>1, <2>1 DEF Held
  <2> QED
      BY <1>2, <2>1, <2>2 DEF Accounted, NoSocketLeak
<1> QED
    BY <1>3, <1>4

(* A socket of a connection in use may come and go. *)
LEMMA HeldAccounted ==
    ASSUME TypeOK, NoSocketLeak, NEW t \in Tasks, conn[t] # NoConn
    PROVE  /\ conn[t] \in Conns
           /\ sock \in [Conns -> SocketStates] /\ Accounted(sock)
           /\ \A state \in SocketStates : /\ Socket(conn[t], state) \in [Conns -> SocketStates]
                                          /\ Accounted(Socket(conn[t], state))
           /\ BodyRead(t) \in [Conns -> SocketStates] /\ Accounted(BodyRead(t))
<1>1. conn[t] \in Conns /\ conn[t] \in Lent
    BY DEF TypeOK, Lent
<1>2. sock \in [Conns -> SocketStates] /\ Accounted(sock)
    BY DEF TypeOK, NoSocketLeak, Accounted
<1>3. \A state \in SocketStates : /\ Socket(conn[t], state) \in [Conns -> SocketStates]
                                  /\ Accounted(Socket(conn[t], state))
    BY <1>1, <1>2 DEF Socket, Accounted
<1>4. "idle" \in SocketStates
    BY DEF SocketStates
<1> QED
    BY <1>1, <1>2, <1>3, <1>4 DEF BodyRead

LEMMA LeakStep ==
    ASSUME Careful
    PROVE  TypeOK /\ OnlyStreamsHold /\ NoSocketLeak /\ [Next]_vars => NoSocketLeak'
<1> SUFFICES ASSUME TypeOK, OnlyStreamsHold, NoSocketLeak, [Next]_vars PROVE NoSocketLeak'
    OBVIOUS
<1>0. /\ queue \in Seq(Held) /\ conn \in [Tasks -> Held]
      /\ sock \in [Conns -> SocketStates] /\ Accounted(sock)
      /\ \A t \in Tasks : mode[t] \in Modes /\ mode[t].release \in BOOLEAN
      /\ \A t \in Tasks : (conn[t] # NoConn) = (InFlight(t) \/ At(t, "response"))
      /\ {"none", "idle", "busy", "dropped"} \subseteq SocketStates
    BY PoolConstants DEF TypeOK, Held, NoSocketLeak, Accounted, SocketStates
<1>1. ASSUME UNCHANGED <<queue, conn>>, NEW t \in Tasks, conn[t] # NoConn,
             \E state : sock' = Socket(conn[t], state)
      PROVE  NoSocketLeak'
  <2>1. conn[t] \in Lent
      BY <1>1 DEF Lent
  <2>2. Elements' = Elements /\ Lent' = Lent
      BY <1>1 DEF Elements, Lent
  <2>3. \A d \in Conns : d # conn[t] => sock'[d] = sock[d]
      BY <1>0, <1>1 DEF Socket
  <2> QED
      BY <1>0, <2>1, <2>2, <2>3 DEF Accounted, NoSocketLeak
<1>2. ASSUME UNCHANGED <<queue, conn>>,
             \A c \in Conns : sock'[c] # "none" => sock[c] # "none"
      PROVE  NoSocketLeak'
    BY <1>0, <1>2 DEF Accounted, NoSocketLeak, Elements, Lent
<1>3. ASSUME NEW t \in Tasks, Raise(t) \/ \E ev, place : Again(t, ev, place)
      PROVE  \A u \in Tasks \ {t} : conn'[u] = conn[u]
    BY <1>0, <1>3 DEF Raise, Again
<1>4. ASSUME NEW t \in Tasks, NEW kind, Answered(t, kind)
      PROVE  \A u \in Tasks \ {t} : conn'[u] = conn[u]
    BY <1>0, <1>4, AnsweredLetsGo
<1>a. ASSUME NEW t \in Tasks, Request(t) \/ Enter(t) PROVE NoSocketLeak'
    BY <1>2, <1>a DEF Request, Enter
<1>c. ASSUME NEW t \in Tasks, TakeSlot(t) PROVE NoSocketLeak'
  <2>1. conn[t] = NoConn
      BY <1>0, <1>c DEF TakeSlot, At, InFlight
  <2>2. Elements \subseteq Elements' \cup {Last(queue)}
      BY <1>0, <1>c, ElementsMove DEF TakeSlot
  <2>3. CASE /\ Last(queue) # NoConn /\ conn' = [conn EXCEPT ![t] = Last(queue)]
             /\ sock' = IF Stale(Last(queue)) THEN Socket(Last(queue), "none") ELSE sock
    <3>1. Lent \cup {Last(queue)} \subseteq Lent'
        BY <1>0, <2>1, <2>3 DEF Lent
    <3>2. \A d \in Conns : sock'[d] # "none" => sock[d] # "none"
        BY <1>0, <2>3 DEF Socket
    <3> QED
        BY <1>0, <2>2, <3>1, <3>2 DEF Accounted, NoSocketLeak
  <2>4. ASSUME NEW new \in Fresh, conn' = [conn EXCEPT ![t] = new],
               sock' = [d \in Conns |-> IF d = new \/ d = Last(queue) THEN "none" ELSE sock[d]]
        PROVE  NoSocketLeak'
    <3>1. Lent \subseteq Lent'
        BY <1>0, <2>1, <2>4 DEF Lent
    <3> QED
        BY <1>0, <2>2, <2>4, <3>1 DEF Accounted, NoSocketLeak
  <2> QED
      BY <1>c, <2>3, <2>4 DEF TakeSlot
<1>d. ASSUME NEW t \in Tasks, PoolTimeoutFires(t) PROVE NoSocketLeak'
  <2>1. conn[t] = NoConn
      BY <1>0, <1>d DEF PoolTimeoutFires, At, InFlight
  <2>2. CASE Block /\ mode[t].release
    <3>1. Put(NoConn, sock) /\ conn' = conn
        BY <1>d, <2>2 DEF PoolTimeoutFires, Finally
    <3> QED
        BY <1>0, <2>1, <3>1, PutLeaksNothing
  <2>3. CASE Block /\ ~mode[t].release
      BY <1>2, <1>d, <2>3 DEF PoolTimeoutFires, Finally
  <2>4. CASE ~Block
    <3>1. PICK new \in Fresh : conn' = [conn EXCEPT ![t] = new] /\ sock' = Socket(new, "none")
        BY <1>d, <2>4 DEF PoolTimeoutFires
    <3>2. Elements' = Elements
        BY <1>d, <2>4 DEF PoolTimeoutFires, Elements
    <3>3. Lent \subseteq Lent'
        BY <1>0, <2>1, <3>1 DEF Lent
    <3>4. \A d \in Conns : sock'[d] # "none" => sock[d] # "none"
        BY <1>0, <3>1 DEF Socket
    <3> QED
        BY <1>0, <3>2, <3>3, <3>4 DEF Accounted, NoSocketLeak
  <2> QED
      BY <2>2, <2>3, <2>4
<1>e. ASSUME NEW t \in Tasks, Send(t) PROVE NoSocketLeak'
  <2>1. conn[t] # NoConn
      BY <1>0, <1>e DEF Send, InFlight, At
  <2> QED
      BY <1>1, <1>2, <1>e, <2>1 DEF Send
<1>f. ASSUME NEW t \in Tasks, Receive(t) PROVE NoSocketLeak'
  <2>1. conn[t] # NoConn
      BY <1>0, <1>f DEF Receive, InFlight, At
  <2> QED
      BY <1>1, <1>f, <2>1 DEF Receive
<1>g. ASSUME NEW t \in Tasks, ReceiveHead(t) PROVE NoSocketLeak'
  <2>1. conn[t] # NoConn
      BY <1>0, <1>g DEF ReceiveHead, InFlight, At
  <2>2. PICK state \in {"busy", "none"} :
            Finally(mode[t].release, conn[t], Socket(conn[t], state))
      BY <1>g DEF ReceiveHead
  <2>3. PICK kind \in Responses : Answered(t, kind)
      BY <1>g DEF ReceiveHead
  <2>4. CASE mode[t].release
    <3>1. Put(conn[t], Socket(conn[t], state))
        BY <2>2, <2>4 DEF Finally
    <3> QED
        BY <1>0, <1>4, <2>1, <2>3, <3>1, HeldAccounted, PutLeaksNothing
  <2>5. CASE ~mode[t].release
    <3>1. kind = "final"
        BY <1>0, <2>5 DEF Careful, Streams
    <3>2. Deliver(t)
        BY <2>3, <3>1 DEF Answered
    <3>3. conn' = conn
        BY <1>0, <1>g, <2>5, <3>2 DEF Deliver, ResponseConn, ReceiveHead
    <3> QED
        BY <1>1, <2>1, <2>2, <2>5, <3>3 DEF Finally
  <2> QED
      BY <2>4, <2>5
<1>h. ASSUME NEW t \in Tasks, Preload(t) PROVE NoSocketLeak'
  <2>1. conn[t] # NoConn
      BY <1>0, <1>h DEF Preload, InFlight, At
  <2> QED
      BY <1>4, <1>h, <2>1, HeldAccounted, PutLeaksNothing DEF Preload
<1>i. ASSUME NEW t \in Tasks, Fail(t) PROVE NoSocketLeak'
  <2>1. PICK error \in RetryableAt(t) :
            Again(t, ErrorEvent(error), "start") \/ Raise(t)
      BY <1>i DEF Fail
  <2>2. conn[t] # NoConn
      BY <1>0, <2>1, RetryableType
  <2>3. \A u \in Tasks \ {t} : conn'[u] = conn[u]
      BY <1>3, <2>1
  <2>4. Socket(conn[t], "none")[conn[t]] = "none"
      BY <1>0, <2>2, HeldAccounted DEF Socket
  <2>5. CASE mode[t].release
    <3>1. Put(NoConn, Socket(conn[t], "none"))
        BY <1>i, <2>5 DEF Fail, Finally
    <3> QED
        BY <1>0, <2>2, <2>3, <2>4, <3>1, HeldAccounted, PutLeaksNothing
  <2>6. CASE ~mode[t].release
    <3>1. sock' = Socket(conn[t], "none") /\ UNCHANGED queue
        BY <1>i, <2>6 DEF Fail, Finally
    <3>2. Lent \ {conn[t]} \subseteq Lent' /\ Elements' = Elements
        BY <2>3, <3>1 DEF Lent, Elements
    <3>3. \A d \in Conns : sock'[d] # "none" => sock[d] # "none" /\ d # conn[t]
        BY <1>0, <3>1 DEF Socket
    <3> QED
        BY <1>0, <3>2, <3>3 DEF Accounted, NoSocketLeak
  <2> QED
      BY <2>5, <2>6
<1>5. ASSUME NEW t \in Tasks, conn[t] # NoConn, Raise(t),
             \E socks \in {sock, BodyRead(t)} : Put(conn[t], socks)
      PROVE  NoSocketLeak'
    BY <1>0, <1>3, <1>5, HeldAccounted, PutLeaksNothing
<1>j. ASSUME NEW t \in Tasks, FailSSL(t) PROVE NoSocketLeak'
    BY <1>0, <1>5, <1>j DEF FailSSL
<1>k. ASSUME NEW t \in Tasks, FailOtherwise(t) PROVE NoSocketLeak'
  <2>1. conn[t] # NoConn /\ Raise(t)
      BY <1>0, <1>k DEF FailOtherwise, InFlight, At
  <2>2. CASE \E socks \in {sock, BodyRead(t)} : Put(conn[t], socks)
      BY <1>5, <2>1, <2>2
  <2>3. CASE sock[conn[t]] = "none" /\ ~mode[t].release /\ Finally(FALSE, conn[t], sock)
    <3>1. UNCHANGED <<queue, sock>>
        BY <2>3 DEF Finally
    <3>2. Lent \ {conn[t]} \subseteq Lent' /\ Elements' = Elements
        BY <1>3, <2>1, <3>1 DEF Lent, Elements
    <3> QED
        BY <1>0, <2>3, <3>1, <3>2 DEF Accounted, NoSocketLeak
  <2>4. At(t, "reading") => mode[t].release
      BY <1>0 DEF OnlyStreamsHold, Careful, Streams
  <2> QED
      BY <1>0, <1>k, <2>2, <2>3, <2>4 DEF FailOtherwise, Finally
<1>m. ASSUME NEW t \in Tasks, Read(t) \/ Release(t) PROVE NoSocketLeak'
    BY <1>0, <1>5, <1>m DEF Read, Release
<1>o. ASSUME NEW t \in Tasks, Drop(t) PROVE FALSE
    BY <1>0, <1>o DEF Drop, Careful, OnlyStreamsHold, Streams
<1>p. ASSUME NEW c \in Conns, ReadReleased(c) \/ PeerDrop(c) PROVE NoSocketLeak'
  <2>1. \A d \in Conns : sock'[d] # "none" => sock[d] # "none"
      BY <1>0, <1>p DEF ReadReleased, PeerDrop, Socket
  <2> QED
      BY <1>2, <1>p, <2>1 DEF ReadReleased, PeerDrop
<1>q. CASE Close
  <2>1. Lent' = Lent /\ \A d \in Conns : sock'[d] # "none" => sock[d] # "none" /\ d \notin Elements
      BY <1>q DEF Close, Lent
  <2> QED
      BY <1>0, <2>1 DEF Accounted, NoSocketLeak
<1>r. CASE UNCHANGED vars
    BY <1>2, <1>r DEF vars
<1> QED
    BY <1>a, <1>c, <1>d, <1>e, <1>f, <1>g, <1>h, <1>i, <1>j, <1>k, <1>m, <1>o,
       <1>p, <1>q, <1>r DEF Next, Serve, Cancel, Careful

(***************************************************************************)
(* No socket is left open that neither the pool nor a request has.         *)
(***************************************************************************)
THEOREM CarefulLeaksNothing ==
    ASSUME Careful
    PROVE  Spec => []NoSocketLeak
<1>1. Init => OnlyStreamsHold /\ NoSocketLeak
    BY DEF Init, OnlyStreamsHold, At, NoSocketLeak
<1> QED
    BY <1>1, TypeCorrect, StreamsHoldStep, LeakStep, PTL DEF Spec

(***************************************************************************)
(* A queue has no more elements than places, and the tasks hold no more    *)
(* connections than there are borrowers.                                   *)
(***************************************************************************)
LEMMA AtHand ==
    ASSUME TypeOK
    PROVE  /\ IsFiniteSet(Elements \cup Lent)
           /\ Cardinality(Elements \cup Lent) <= Slots
<1>1. queue \in [1..Len(queue) -> Held] /\ Len(queue) \in Nat /\ DOMAIN queue = 1..Len(queue)
    BY LenProperties DEF TypeOK, Held
<1>2. /\ IsFiniteSet(Elements) /\ Cardinality(Elements) \in Nat
      /\ Cardinality(Elements) <= Len(queue)
  <2>1. IsFiniteSet(1..Len(queue)) /\ Cardinality(1..Len(queue)) = Len(queue)
    <3>1. ASSUME NEW n \in Nat
          PROVE  IsFiniteSet(1..n) /\ Cardinality(1..n) = n
      <4>1. 1 \in Int /\ n \in Int /\ (IF 1 > n THEN 0 ELSE n - 1 + 1) = n
          OBVIOUS
      <4> QED
          BY <4>1, FS_Interval
    <3> QED
        BY <1>1, <3>1
  <2>2. queue \in Surjection(1..Len(queue), Elements)
      BY <1>1 DEF Surjection, Elements
  <2> QED
      BY <2>1, <2>2, FS_Surjection, FS_CardinalityType
<1>3. /\ IsFiniteSet(Lent) /\ Cardinality(Lent) \in Nat
      /\ Cardinality(Lent) <= Cardinality(Borrowers)
  <2> DEFINE held == [t \in Borrowers |-> conn[t]]
  <2>1. held \in Surjection(Borrowers, Lent)
      BY DEF Surjection, Borrowers, Lent
  <2> QED
      BY <2>1, BorrowersFinite, FS_Surjection, FS_CardinalityType
<1>4. /\ IsFiniteSet(Elements \cup Lent)
      /\ Cardinality(Elements \cup Lent)
            = Cardinality(Elements) + Cardinality(Lent) - Cardinality(Elements \cap Lent)
    BY <1>2, <1>3, FS_Union
<1>5. Cardinality(Elements \cap Lent) \in Nat
    BY <1>2, FS_Intersection, FS_CardinalityType
<1>6. Cardinality(Borrowers) \in Nat /\ Cardinality(Elements \cup Lent) \in Nat
    BY <1>4, BorrowersFinite, FS_CardinalityType
<1> QED
    BY <1>1, <1>2, <1>3, <1>4, <1>5, <1>6 DEF Slots

(***************************************************************************)
(* A patient pool used with care has at most maxsize sockets open, those   *)
(* of the connections it keeps included, before a close and after.         *)
(***************************************************************************)
THEOREM PatientFloodsNobody ==
    ASSUME Patient, Careful
    PROVE  Spec => []NoFlood
<1>1. Init => OnlyStreamsHold /\ SlotBound /\ ClosedIsEmpty /\ BorrowersBound
  <2> SUFFICES ASSUME Init
               PROVE  OnlyStreamsHold /\ SlotBound /\ ClosedIsEmpty /\ BorrowersBound
      OBVIOUS
  <2>1. Slots = MaxSize /\ closed = FALSE /\ OnlyStreamsHold
      BY SlotsInit DEF Init, OnlyStreamsHold, At
  <2>2. Borrowers = {}
      BY DEF Init, Borrowers
  <2> QED
      BY <2>1, <2>2, FS_EmptySet, PoolConstants DEF SlotBound, ClosedIsEmpty, BorrowersBound
<1>2. ASSUME TypeOK, NoSocketLeak, SlotBound, ClosedIsEmpty, BorrowersBound
      PROVE  NoFlood
  <2> DEFINE open == {c \in Conns : sock[c] # "none"}
  <2>1. Slots \in Nat /\ Slots <= MaxSize
    <3>1. Len(queue) \in Nat /\ Cardinality(Borrowers) \in Nat
        BY <1>2, QueueLength, BorrowersFinite DEF TypeOK, Held
    <3>2. CASE closed
      <4>1. Len(queue) = 0
          BY <1>2, <3>2, EmptySeq DEF ClosedIsEmpty
      <4> QED
          BY <1>2, <3>1, <4>1 DEF BorrowersBound, Slots
    <3> QED
        BY <1>2, <3>1, <3>2 DEF SlotBound, Slots
  <2>2. open \in SUBSET (Elements \cup Lent)
      BY <1>2 DEF NoSocketLeak
  <2>3. /\ IsFiniteSet(Elements \cup Lent) /\ Cardinality(Elements \cup Lent) <= Slots
        /\ Cardinality(Elements \cup Lent) \in Nat
      BY <1>2, AtHand, FS_CardinalityType
  <2>4. IsFiniteSet(open) /\ Cardinality(open) <= Cardinality(Elements \cup Lent)
        /\ Cardinality(open) \in Nat
      BY <2>2, <2>3, FS_Subset, FS_CardinalityType
  <2>5. Cardinality(open) <= MaxSize
      BY <2>1, <2>3, <2>4, PoolConstants
  <2> QED
      BY <2>5 DEF NoFlood
<1>3. Spec => []NoSocketLeak
    BY CarefulLeaksNothing
<1> QED
    BY <1>1, <1>2, <1>3, TypeCorrect, StreamsHoldStep, SlotBoundStep, ClosedIsEmptyStep,
       BorrowersBoundStep, PTL DEF Spec
=============================================================================
