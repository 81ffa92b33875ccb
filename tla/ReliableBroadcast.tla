------------------------- MODULE ReliableBroadcast -------------------------
(***************************************************************************)
(* What the URB layer promises to the layer above it.  A message is        *)
(* broadcast at most once; a process that has not stopped delivers any     *)
(* broadcast message, once, in any order; a stopped process does nothing.  *)
(***************************************************************************)
EXTENDS Naturals

CONSTANTS Proc,   \* the processes
          Msg     \* the messages that may be broadcast

VARIABLES broadcast,   \* the messages broadcast so far
          deliveries,  \* deliveries[p][m]: how often p has delivered m
          up           \* up[p]: process p has not stopped

vars == <<broadcast, deliveries, up>>

Init ==
  /\ broadcast = {}
  /\ deliveries = [p \in Proc |-> [m \in Msg |-> 0]]
  /\ up = [p \in Proc |-> TRUE]

Broadcast(m) ==
  /\ m \notin broadcast
  /\ broadcast' = broadcast \cup {m}
  /\ UNCHANGED <<deliveries, up>>

Deliver(p, m) ==
  /\ up[p]
  /\ m \in broadcast
  /\ deliveries[p][m] = 0
  /\ deliveries' = [deliveries EXCEPT ![p][m] = 1]
  /\ UNCHANGED <<broadcast, up>>

Stop(p) ==
  /\ up[p]
  /\ up' = [up EXCEPT ![p] = FALSE]
  /\ UNCHANGED <<broadcast, deliveries>>

Next ==
  \/ \E m \in Msg : Broadcast(m)
  \/ \E p \in Proc, m \in Msg : Deliver(p, m)
  \/ \E p \in Proc : Stop(p)

Spec == Init /\ [][Next]_vars

=============================================================================
