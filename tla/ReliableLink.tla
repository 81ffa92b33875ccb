---------------------------- MODULE ReliableLink ----------------------------
(***************************************************************************)
(* What the perfect link layer promises to the layer above it: a packet    *)
(* that was sent is handed over at its destination once, in any order with *)
(* respect to other packets, while the destination runs.  Module Urb is    *)
(* built on these links.                                                   *)
(***************************************************************************)
EXTENDS Naturals

CONSTANTS Proc,     \* the processes
          Request   \* the packets that may be sent: records with a field dst

VARIABLES sent,     \* the packets sent so far
          handed,   \* handed[k]: how often packet k was handed over
          up        \* up[p]: process p has not stopped

vars == <<sent, handed, up>>

Init ==
  /\ sent = {}
  /\ handed = [k \in Request |-> 0]
  /\ up = [p \in Proc |-> TRUE]

Send(k) ==
  /\ k \notin sent
  /\ sent' = sent \cup {k}
  /\ UNCHANGED <<handed, up>>

Deliver(k) ==
  /\ up[k.dst]
  /\ k \in sent
  /\ handed[k] = 0
  /\ handed' = [handed EXCEPT ![k] = 1]
  /\ UNCHANGED <<sent, up>>

Stop(p) ==
  /\ up[p]
  /\ up' = [up EXCEPT ![p] = FALSE]
  /\ UNCHANGED <<sent, handed>>

Next ==
  \/ \E k \in Request : Send(k) \/ Deliver(k)
  \/ \E p \in Proc : Stop(p)

Spec == Init /\ [][Next]_vars
=============================================================================
