-------------------------- MODULE MCConnectionPool --------------------------
(***************************************************************************)
(* Instances of ConnectionPool for TLC: how requests are made, which Retry *)
(* they start with, and what may disturb them.                             *)
(***************************************************************************)
EXTENDS ConnectionPool

(* The default: the body is preloaded and the connection released. *)
Preloading == {[preload |-> TRUE, release |-> TRUE]}

AnyMode == [preload : BOOLEAN, release : BOOLEAN]

OneRetry == {NewRetry(1, None, None, None)}

FinalOnly     == {"final"}
Redirecting   == {"final", "redirect"}
AnyResponse   == ResponseKinds

CloseOnly     == {"close"}
PeerAndCancel == {"peer", "cancel"}
NoCancel      == {"peer", "close", "early", "drop"}
Undisturbed   == {}
=============================================================================
