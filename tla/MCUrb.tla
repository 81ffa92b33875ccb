------------------------------- MODULE MCUrb --------------------------------
(***************************************************************************)
(* Values for the constants of Urb.                                        *)
(***************************************************************************)
EXTENDS Urb

\* Process 1 broadcasts one message, the others only relay.
MCOneBroadcaster == [p \in 1 .. N |-> IF p = 1 THEN 1 ELSE 0]
=============================================================================
