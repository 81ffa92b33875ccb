---------------------------- MODULE PerfectLink -----------------------------
(***************************************************************************)
(* Perfect links (src/plink.c) over UDP (src/flink.c, src/layerzero.c):    *)
(* the sender threads of a process (src/sender.c) repeat each task of its  *)
(* task queue (src/mqueue.c) until the receiver thread (src/receiver.c)    *)
(* has got an acknowledgement; the receiver acknowledges every data        *)
(* packet it gets and hands each one to deliver_beb once.                  *)
(*                                                                         *)
(* What the layer above sends is a parameter: the packets of Request, each *)
(* asked for at most once (RelayedIffSeen of module Urb).  The queue is a  *)
(* sequence here; its ring buffer, which grows on demand, never refuses a  *)
(* task while memory lasts.  A lock of the code is held for one step.      *)
(***************************************************************************)
EXTENDS Integers, Sequences, FiniteSets

CONSTANTS Proc,           \* the processes
          Thread,         \* the sender threads of a process
          Request,        \* packets [id, src, dst] the layer above may send
          Threshold,      \* THRESHOLD: sends of a task before it is put back
          MaxStops,       \* bound: how many processes may stop
          MaxSendErrors   \* bound: how many calls of sendto may fail

\* A packet is determined by the id of its message and its two ends.
ASSUME LinkAssumption ==
  /\ \A k \in Request : k.src \in Proc /\ k.dst \in Proc \ {k.src}
  /\ \A k, l \in Request : k.id = l.id /\ k.src = l.src /\ k.dst = l.dst => k = l
  /\ Threshold \in Nat \ {0}
  /\ MaxStops \in Nat
  /\ MaxSendErrors \in Nat

VARIABLES asked,         \* packets given to send_beb
          task_q,        \* task_q[p]: the task queue of p
          sender,        \* sender[p][t]: where sender thread t of p is
          pl_acks,       \* pl_acks[p]: the ackids with an entry at p
          pl_delivered,  \* pl_delivered[p]: the mids with an entry at p
          receiver,      \* receiver[p]: the data packets deliver_pl is busy with
          upcalls,       \* upcalls[k]: calls of deliver_beb with packet k
          net,           \* datagrams between sendto and recvfrom
          dropped,       \* tasks lost with the sender thread that held them
          up             \* up[p]: the process has not exited

vars == <<asked, task_q, sender, pl_acks, pl_delivered, receiver, upcalls, net,
          dropped, up>>

\* The ids send_beb computes: of the message at its sender, for the table of the
\* receiver, and of the message for its destination, for the sender's table.
MidOfMessage(k) == k.id               \* Mutant
Mid(k) == <<k.id, k.src>>
AckId(k) == <<k.id, k.dst>>

Data(k) == [mtype |-> "data", pkt |-> k]
Ack(k) == [mtype |-> "ack", pkt |-> k]

Idle == [pc |-> "idle"]
Exited == [pc |-> "exited"]
At(label, k, i) == [pc |-> label, task |-> k, i |-> i]

\* Thread t of p is at a label of send_pl with a task.
Busy(p, t, label) == sender[p][t].pc = label

\* What the network may make of a datagram that is sent: keep it or lose it.
Transit(d, kept) == IF kept THEN net \cup {d} ELSE net

\* Thread t of the sender of k works on k.
Holds(t, k) == sender[k.src][t].pc \notin {"idle", "exited"} /\ sender[k.src][t].task = k

-----------------------------------------------------------------------------
Init ==
  /\ asked = {}
  /\ task_q = [p \in Proc |-> <<>>]
  /\ sender = [p \in Proc |-> [t \in Thread |-> Idle]]
  /\ pl_acks = [p \in Proc |-> {}]
  /\ pl_delivered = [p \in Proc |-> {}]
  /\ receiver = [p \in Proc |-> {}]
  /\ upcalls = [k \in Request |-> 0]
  /\ net = {}
  /\ dropped = {}
  /\ up = [p \in Proc |-> TRUE]

\* send_beb, for one destination: by the main thread for a broadcast, by the
\* receiver thread for a relay.
Enqueue(k) ==
  /\ up[k.src]
  /\ k \notin asked
  /\ asked' = asked \cup {k}
  /\ task_q' = [task_q EXCEPT ![k.src] = Append(@, k)]
  /\ UNCHANGED <<sender, pl_acks, pl_delivered, receiver, upcalls, net, dropped, up>>

\* sender_f: take the first task.  An empty queue is polled again.
Dequeue(p, t) ==
  /\ up[p]
  /\ Busy(p, t, "idle")
  /\ task_q[p] # <<>>
  /\ sender' = [sender EXCEPT ![p][t] = At("check", Head(task_q[p]), 0)]
  /\ task_q' = [task_q EXCEPT ![p] = Tail(@)]
  /\ UNCHANGED <<asked, pl_acks, pl_delivered, receiver, upcalls, net, dropped, up>>

\* Mutants: send_pl never gives up; it starts over instead of putting back.
AfterCheckNoThreshold(p, s) ==
  IF AckId(s.task) \in pl_acks[p] THEN Idle ELSE [s EXCEPT !.pc = "send"]
AfterCheckStartOver(p, s) ==
  IF AckId(s.task) \in pl_acks[p] THEN Idle
  ELSE [s EXCEPT !.pc = "send", !.i = IF @ >= Threshold THEN 0 ELSE @]

\* send_pl after is_ack: the task is done, put back, or sent again.
AfterCheck(p, s) ==
  IF AckId(s.task) \in pl_acks[p] THEN Idle
  ELSE [s EXCEPT !.pc = IF s.i >= Threshold THEN "requeue" ELSE "send"]

\* send_pl: look for the acknowledgement.
CheckAck(p, t) ==
  /\ up[p]
  /\ Busy(p, t, "check")
  /\ sender' = [sender EXCEPT ![p][t] = AfterCheck(p, @)]
  /\ UNCHANGED <<asked, task_q, pl_acks, pl_delivered, receiver, upcalls, net, dropped, up>>

\* send_pl: put the task back (BACK_TO_QUEUE).
BackOf(p, k) == task_q[p]              \* Mutant: the task is forgotten
Back(p, k) == Append(task_q[p], k)

Requeue(p, t) ==
  /\ up[p]
  /\ Busy(p, t, "requeue")
  /\ task_q' = [task_q EXCEPT ![p] = Back(p, sender[p][t].task)]
  /\ sender' = [sender EXCEPT ![p][t] = Idle]
  /\ UNCHANGED <<asked, pl_acks, pl_delivered, receiver, upcalls, net, dropped, up>>

\* send_pl: send_fl, then look for the acknowledgement again.
SendFl(p, t, kept) ==
  /\ up[p]
  /\ Busy(p, t, "send")
  /\ net' = Transit(Data(sender[p][t].task), kept)
  /\ sender' = [sender EXCEPT ![p][t] = At("check", @.task, @.i + 1)]
  /\ UNCHANGED <<asked, task_q, pl_acks, pl_delivered, receiver, upcalls, dropped, up>>

\* send_pl: sendto fails (it does not wait for room in the socket buffer), send_pl
\* returns ERROR_SEND and the thread exits with its task.
SendError(p, t) ==
  /\ up[p]
  /\ Busy(p, t, "send")
  /\ Cardinality(dropped) < MaxSendErrors
  /\ dropped' = dropped \cup {sender[p][t].task}
  /\ sender' = [sender EXCEPT ![p][t] = Exited]
  /\ UNCHANGED <<asked, task_q, pl_acks, pl_delivered, receiver, upcalls, net, up>>

\* The network hands a datagram over and may keep a copy of it.
Take(d, copy) == IF copy THEN net ELSE net \ {d}

\* deliver_pl of an acknowledgement.
ReceiveAck(k, copy) ==
  LET p == k.src IN
  /\ up[p]
  /\ receiver[p] = {}
  /\ Ack(k) \in net
  /\ net' = Take(Ack(k), copy)
  /\ pl_acks' = [pl_acks EXCEPT ![p] = @ \cup {AckId(k)}]
  /\ UNCHANGED <<asked, task_q, sender, pl_delivered, receiver, upcalls, dropped, up>>

\* deliver_pl: the process has not delivered k yet.
IsNewAlways(p, k) == TRUE              \* Mutant
IsNew(p, k) == Mid(k) \notin pl_delivered[p]

\* The acknowledgement deliver_pl sends for k.
AckIfNew(k) == IF IsNew(k.dst, k) THEN {Ack(k)} ELSE {}     \* Mutant
AckAlways(k) == {Ack(k)}

\* deliver_pl of a data packet: acknowledge it, even if it was delivered before.
ReceiveData(k, copy, kept) ==
  LET p == k.dst IN
  /\ up[p]
  /\ receiver[p] = {}
  /\ Data(k) \in net
  /\ net' = Take(Data(k), copy) \cup (IF kept THEN AckAlways(k) ELSE {})
  /\ receiver' = [receiver EXCEPT ![p] = {k}]
  /\ UNCHANGED <<asked, task_q, sender, pl_acks, pl_delivered, upcalls, dropped, up>>

\* deliver_pl after the acknowledgement: a new packet is marked and handed up.
DeliverPl(p, k) ==
  /\ up[p]
  /\ k \in receiver[p]
  /\ receiver' = [receiver EXCEPT ![p] = {}]
  /\ IF IsNew(p, k)
       THEN /\ pl_delivered' = [pl_delivered EXCEPT ![p] = @ \cup {Mid(k)}]
            /\ upcalls' = [upcalls EXCEPT ![k] = @ + 1]
       ELSE UNCHANGED <<pl_delivered, upcalls>>
  /\ UNCHANGED <<asked, task_q, sender, pl_acks, net, dropped, up>>

\* A signal, or exit() by the receiver thread: among others when the acknowledgement
\* cannot be sent, or a table refuses an id beyond its limit.
Stop(p) ==
  /\ up[p]
  /\ Cardinality({q \in Proc : ~up[q]}) < MaxStops
  /\ up' = [up EXCEPT ![p] = FALSE]
  /\ UNCHANGED <<asked, task_q, sender, pl_acks, pl_delivered, receiver, upcalls, net, dropped>>

SenderStep(p, t) ==
  \/ Dequeue(p, t)
  \/ CheckAck(p, t)
  \/ Requeue(p, t)
  \/ \E kept \in BOOLEAN : SendFl(p, t, kept)

Next ==
  \/ \E k \in Request : Enqueue(k)
  \/ \E p \in Proc, t \in Thread : SenderStep(p, t) \/ SendError(p, t)
  \/ \E k \in Request, copy \in BOOLEAN :
       \/ ReceiveAck(k, copy)
       \/ \E kept \in BOOLEAN : ReceiveData(k, copy, kept)
  \/ \E p \in Proc, k \in Request : DeliverPl(p, k)
  \/ \E p \in Proc : Stop(p)

Spec == Init /\ [][Next]_vars

\* Threads are scheduled.  A datagram that is sent again and again is kept now and
\* then, whoever sends it, and one that is kept is received (fair-loss links).
Fairness ==
  /\ \A p \in Proc, t \in Thread : WF_vars(SenderStep(p, t))
  /\ \A k \in Request : WF_vars(DeliverPl(k.dst, k))
  /\ \A k \in Request :
       SF_vars(\E t \in Thread : Holds(t, k) /\ SendFl(k.src, t, TRUE))
  /\ \A k \in Request : SF_vars(\E copy \in BOOLEAN : ReceiveData(k, copy, TRUE))
  /\ \A k \in Request : SF_vars(\E copy \in BOOLEAN : ReceiveAck(k, copy))

FairSpec == Spec /\ Fairness

-----------------------------------------------------------------------------
\* A sender thread in send_pl, and anywhere.
Sending == [pc : {"check", "send", "requeue"}, task : Request, i : 0 .. Threshold]
SenderState == {Idle, Exited} \cup Sending

\* The variables have their types; a task is sent at most Threshold times in a
\* row before it goes back to the queue.
TypeOK ==
  /\ asked \subseteq Request
  /\ task_q \in [Proc -> Seq(Request)]
  /\ sender \in [Proc -> [Thread -> SenderState]]
  /\ pl_acks \in [Proc -> SUBSET {AckId(k) : k \in Request}]
  /\ pl_delivered \in [Proc -> SUBSET {Mid(k) : k \in Request}]
  /\ receiver \in [Proc -> SUBSET Request]
  /\ upcalls \in [Request -> Nat]
  /\ net \subseteq {Data(k) : k \in Request} \cup {Ack(k) : k \in Request}
  /\ dropped \subseteq Request
  /\ up \in [Proc -> BOOLEAN]

\* The places of the task of k: in the queue, and in the hands of threads.
Queued(k) == {j \in DOMAIN task_q[k.src] : task_q[k.src][j] = k}
Working(k) == {t \in Thread : Holds(t, k)}

\* A task is never in two places (two threads would send it, and both free its
\* vector clock) and is given up only when its acknowledgement is in the table or
\* its thread has exited; between is_ack and enqueue an ack may come in.
OneHolder ==
  \A k \in asked :
    \/ (\E j \in Queued(k) : Queued(k) = {j}) /\ Working(k) = {} /\ k \notin dropped
    \/ Queued(k) = {} /\ (\E t \in Working(k) : Working(k) = {t}) /\ k \notin dropped
    \/ /\ Queued(k) = {} /\ Working(k) = {}
       /\ AckId(k) \in pl_acks[k.src] \/ k \in dropped

\* An acknowledgement, in flight or in the table, belongs to a packet that was
\* handed up at its destination, or that deliver_pl there is about to hand up.
AckMeansTaken ==
  \A k \in Request :
    Ack(k) \in net \/ AckId(k) \in pl_acks[k.src]
      => upcalls[k] = 1 \/ k \in receiver[k.dst]

\* The layer implements reliable links: no creation, no duplication at
\* deliver_beb, whatever is repeated or duplicated below.
RL == INSTANCE ReliableLink WITH sent <- asked, handed <- upcalls

RLSpec == RL!Spec

\* "Perfect using Fair-Loss.txt":16, "Validity: if pi and pj are correct then every
\* msg sent by pi to pj is eventually delivered by pj": in spite of losses, and
\* of tasks for processes that have stopped, which send_pl puts back.
Delivery ==
  \A k \in Request :
    (k \in asked) ~> (upcalls[k] > 0 \/ ~up[k.src] \/ ~up[k.dst])

\* A task between two running processes is finished and freed in the end: a lost
\* acknowledgement is sent again.
Completion ==
  \A k \in Request :
    (k \in asked)
      ~> ((Queued(k) = {} /\ Working(k) = {}) \/ ~up[k.src] \/ ~up[k.dst])
=============================================================================
