-------------------------- MODULE ConnectionLending --------------------------
(***************************************************************************)
(* What a blocking pool promises, with no queue, sockets or retries in it: *)
(* it lends each connection to one borrower at a time, at most Capacity of *)
(* them, saves some of those that come back, and after it is shut lends    *)
(* and saves nothing.                                                      *)
(***************************************************************************)
EXTENDS Naturals, FiniteSets

CONSTANTS Borrower, Connection, Nothing, Capacity

VARIABLES open,   \* the pool has not been shut
          saved,  \* the connections it keeps for the next borrower
          lent    \* what each borrower has, or Nothing

lvars == <<open, saved, lent>>

Busy == {b \in Borrower : lent[b] # Nothing}

LInit ==
    /\ open = TRUE
    /\ saved = {}
    /\ lent = [b \in Borrower |-> Nothing]

(* A saved connection or a new one, which may replace a worn-out one. *)
Lend(b, c) ==
    /\ open
    /\ lent[b] = Nothing
    /\ Cardinality(Busy) < Capacity
    /\ \A other \in Borrower : lent[other] # c
    /\ lent' = [lent EXCEPT ![b] = c]
    /\ \/ saved' = saved \ {c}
       \/ c \notin saved /\ \E old \in saved : saved' = saved \ {old}
    /\ UNCHANGED open

(* The borrower is done; the pool may save the connection. *)
Return(b) ==
    /\ lent[b] # Nothing
    /\ lent' = [lent EXCEPT ![b] = Nothing]
    /\ saved' = saved \/ (open /\ saved' = saved \cup {lent[b]})
    /\ UNCHANGED open

Shut ==
    /\ open
    /\ open' = FALSE
    /\ saved' = {}
    /\ UNCHANGED lent

LNext ==
    \/ Shut
    \/ \E b \in Borrower : Return(b) \/ \E c \in Connection : Lend(b, c)

LSpec == LInit /\ [][LNext]_lvars
=============================================================================
