----------------------------- MODULE MCBothPools -----------------------------
(***************************************************************************)
(* Two pools, so that the same is asked of both kinds: a blocking one, and *)
(* one that goes beyond its size after a pool_timeout.  A behaviour uses   *)
(* one of them and leaves the other as it was made.                        *)
(***************************************************************************)
EXTENDS MCConnectionPool, TLC

CONSTANTS t1, t2, t3, c1, c2, c3, c4, c5

ThreeTasks == {t1, t2, t3}
FiveConns  == {c1, c2, c3, c4, c5}

(* retries=1, and retries=False, which lets errors and redirects through. *)
OneRetryOrOff == OneRetry \cup {FromInt(Disabled, TRUE, Disabled)}

PeerAndClose == {"peer", "close"}

VARIABLES block,  \* whether the blocking pool is the one in use
          gclosed, gqueue, gsock, gpc, gconn, gmode, gretries

gvars == <<gclosed, gqueue, gsock, gpc, gconn, gmode, gretries>>

Growing == INSTANCE ConnectionPool WITH
    Tasks <- {t1, t2}, Block <- FALSE, PoolTimeout <- TRUE, InitialRetries <- OneRetry,
    closed <- gclosed, queue <- gqueue, sock <- gsock, pc <- gpc, conn <- gconn,
    mode <- gmode, retries <- gretries

BothInit ==
    /\ block \in BOOLEAN
    /\ Init /\ Growing!Init
    /\ ~block => retries \in [Tasks -> OneRetry]

BothNext ==
    \/ block /\ Next /\ UNCHANGED <<block, gvars>>
    \/ ~block /\ Growing!Next /\ UNCHANGED <<block, vars>>

BothSpec == BothInit /\ [][BothNext]_<<block, vars, gvars>>

Interchangeable == Permutations({t1, t2}) \cup Permutations(Conns)

(***************************************************************************)
(* Connections beyond maxsize that come back to a full or a closed pool    *)
(* are closed (connectionpool.py:263-265).                                 *)
(***************************************************************************)
GrowingLeaksNothing == Growing!NoSocketLeak
=============================================================================
