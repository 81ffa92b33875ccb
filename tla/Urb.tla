-------------------------------- MODULE Urb --------------------------------
(***************************************************************************)
(* Uniform reliable broadcast (src/urb.c over src/beb.c) in a group of N   *)
(* processes, over links that hand every packet to deliver_beb at most     *)
(* once (src/plink.c, module PerfectLink).                                 *)
(*                                                                         *)
(* Two threads of a process touch this layer: the main thread runs         *)
(* send_urb, the receiver thread runs deliver_urb.  send_urb is one step:  *)
(* the entries it writes belong to a message nobody has heard of until its *)
(* tasks are queued.  deliver_urb is two steps, so that a process may stop *)
(* after it has relayed a message and before it decides to deliver it.     *)
(*                                                                         *)
(* A packet from a process that has stopped may never arrive: this covers  *)
(* a stop in the middle of send_beb, and tasks left in the task queue.     *)
(*                                                                         *)
(* A process that asks a table for an id beyond MAX_SIZE gets ERROR_TABLE  *)
(* and exits before it has queued a task of that message: the step that    *)
(* needs the id is not enabled, and Stop is what happens.                  *)
(***************************************************************************)
EXTENDS Integers, FiniteSets

CONSTANTS N,           \* data->num_proc
          NumMsg,      \* NumMsg[p]: data->num_msg of process p
          TableMsgs,   \* ORIG_TABLE_SIZE, messages per process in a new table
          MAX_SIZE,    \* the highest id that table_write_entry takes
          MaxStops     \* bound: how many processes may stop

\* The regime without reallocation: every id of every message is inside the
\* tables that init_data allocates (module Tables covers their growth).  It may be
\* beyond MAX_SIZE all the same: the first tables of eight processes have 9600 entries.
ASSUME UrbAssumption ==
  /\ N \in Nat \ {0}
  /\ TableMsgs \in Nat
  /\ MAX_SIZE \in Nat
  /\ NumMsg \in [1 .. N -> 0 .. TableMsgs]
  /\ MaxStops \in Nat

Proc == 1 .. N

Msg == UNION {[orig : {p}, seq : 1 .. NumMsg[p]] : p \in Proc}

\* A message as the link layer of src hands it to dst.
Packet == UNION {[msg : Msg, src : {p}, dst : Proc \ {p}] : p \in Proc}

VARIABLES nextSeq,     \* nextSeq[p]: messages p's main thread has broadcast
          seen,        \* seen[p]: messages with urb_table.seen set
          urbacks,     \* urbacks[p][m]: processes p knows to have seen m
          delivered,   \* delivered[p]: messages with urb_table.delivered set
          lcbCalls,    \* lcbCalls[p][m]: calls of deliver_lcb for m
          rcv,         \* rcv[p]: messages deliver_urb is busy with (0 or 1)
          sent,        \* packets given to the link layer
          got,         \* packets the link layer has handed to deliver_beb
          up           \* up[p]: the process has not exited

vars == <<nextSeq, seen, urbacks, delivered, lcbCalls, rcv, sent, got, up>>

\* The message's number in every table of the layer.
SeenId(m) == N * (m.seq - 1) + m.orig - 1

\* The ids that send_beb and urb.c compute from it: with p the process that sends the
\* message, mid; with p the process that it is for, ackid.
LinkIdOneLess(m, p) == (N - 1) * SeenId(m) + p - 1    \* Mutant
LinkId(m, p) == N * SeenId(m) + p - 1

\* table_write_entry takes the id of m and p: set_ack_urb, and set_delivered of the link
\* that brings m from p, do not fail.
InLimit(m, p) == LinkId(m, p) <= MAX_SIZE

\* Size of the urbacks table of a process, and of pl_acks and pl_delivered.
TotalEntries == TableMsgs * N * N

\* can_deliver: the row of m does not end at the end of the table.
HasRoom(m) == N * SeenId(m) + N < TotalEntries

\* Mutant: half of the processes are enough.
CanDeliverHalf(p, m) ==
  /\ HasRoom(m)
  /\ Cardinality(urbacks[p][m]) >= N \div 2

CanDeliver(p, m) ==
  /\ HasRoom(m)
  /\ Cardinality(urbacks[p][m]) > N \div 2

\* Mutant: the loop of send_beb ends one too early.
BebUpToLast(p, m) == {[msg |-> m, src |-> p, dst |-> q] : q \in (1 .. N - 1) \ {p}}

\* The packets send_beb queues: one to everybody else.
Beb(p, m) == {[msg |-> m, src |-> p, dst |-> q] : q \in Proc \ {p}}

\* What deliver_urb relays: the message, when it is new.
NoRelay(p, m) == {}       \* Mutant
Relay(p, m) == IF m \in seen[p] THEN {} ELSE Beb(p, m)

\* Who is known to have m once p has got it from q.
AcksOfNewOnly(p, m, q) ==  \* Mutant: set_ack_urb moved under the test of seen
  IF m \in seen[p] THEN urbacks[p][m] ELSE urbacks[p][m] \cup {p, q}
Acks(p, m, q) ==
  urbacks[p][m] \cup {q} \cup (IF m \in seen[p] THEN {} ELSE {p})

\* add_seen_urb.
SeenForgotten(p, m) == seen     \* Mutant
AddSeen(p, m) == [seen EXCEPT ![p] = @ \cup {m}]

-----------------------------------------------------------------------------
Init ==
  /\ nextSeq = [p \in Proc |-> 0]
  /\ seen = [p \in Proc |-> {}]
  /\ urbacks = [p \in Proc |-> [m \in Msg |-> {}]]
  /\ delivered = [p \in Proc |-> {}]
  /\ lcbCalls = [p \in Proc |-> [m \in Msg |-> 0]]
  /\ rcv = [p \in Proc |-> {}]
  /\ sent = {}
  /\ got = {}
  /\ up = [p \in Proc |-> TRUE]

\* Mutant: the loop of send_lcb runs once too often.
MayBroadcastOneMore(p) == nextSeq[p] <= NumMsg[p]
MayBroadcast(p) == nextSeq[p] < NumMsg[p]

\* Main thread: send_urb for the next sequence number.
SendUrb(p) ==
  LET m == [orig |-> p, seq |-> nextSeq[p] + 1] IN
  /\ up[p]
  /\ MayBroadcast(p)
  /\ InLimit(m, p)
  /\ nextSeq' = [nextSeq EXCEPT ![p] = @ + 1]
  /\ seen' = AddSeen(p, m)
  /\ urbacks' = [urbacks EXCEPT ![p][m] = @ \cup {p}]
  /\ sent' = sent \cup Beb(p, m)
  /\ UNCHANGED <<delivered, lcbCalls, rcv, got, up>>

\* Receiver thread, deliver_urb up to the relay: note that the sender has the
\* message; if it is new, note that we have it too and send it to everybody.
ReceiveUrb(pkt) ==
  LET p == pkt.dst
      m == pkt.msg
  IN
  /\ up[p]
  /\ rcv[p] = {}
  /\ pkt \in sent \ got
  /\ InLimit(m, pkt.src) /\ InLimit(m, p)
  /\ got' = got \cup {pkt}
  /\ rcv' = [rcv EXCEPT ![p] = {m}]
  /\ urbacks' = [urbacks EXCEPT ![p][m] = Acks(p, m, pkt.src)]
  /\ seen' = AddSeen(p, m)
  /\ sent' = sent \cup Relay(p, m)
  /\ UNCHANGED <<nextSeq, delivered, lcbCalls, up>>

\* Mutant: is_delivered_urb is not asked.
MayDeliverAgain(p, m) == CanDeliver(p, m)
MayDeliver(p, m) == CanDeliver(p, m) /\ m \notin delivered[p]

\* Receiver thread, the end of deliver_urb: hand the message to the LCB layer
\* once more than half of the processes are known to have it.
TryDeliver(p, m) ==
  /\ up[p]
  /\ m \in rcv[p]
  /\ rcv' = [rcv EXCEPT ![p] = {}]
  /\ IF MayDeliver(p, m)
       THEN /\ delivered' = [delivered EXCEPT ![p] = @ \cup {m}]
            /\ lcbCalls' = [lcbCalls EXCEPT ![p][m] = @ + 1]
       ELSE UNCHANGED <<delivered, lcbCalls>>
  /\ UNCHANGED <<nextSeq, seen, urbacks, sent, got, up>>

\* A signal, or exit() after an error of any layer, also of a table that refuses an id.
Stop(p) ==
  /\ up[p]
  /\ Cardinality({q \in Proc : ~up[q]}) < MaxStops
  /\ up' = [up EXCEPT ![p] = FALSE]
  /\ UNCHANGED <<nextSeq, seen, urbacks, delivered, lcbCalls, rcv, sent, got>>

Next ==
  \/ \E p \in Proc : SendUrb(p)
  \/ \E pkt \in Packet : ReceiveUrb(pkt)
  \/ \E p \in Proc, m \in Msg : TryDeliver(p, m)
  \/ \E p \in Proc : Stop(p)

Spec == Init /\ [][Next]_vars

\* The links owe a packet only while both its ends are up; the receiver thread
\* is scheduled.
Fairness ==
  /\ \A p \in Proc : WF_vars(\E m \in Msg : TryDeliver(p, m))
  /\ \A pkt \in Packet : WF_vars(up[pkt.src] /\ ReceiveUrb(pkt))

FairSpec == Spec /\ Fairness

-----------------------------------------------------------------------------
\* The messages whose send_urb has run.
Broadcasted == {m \in Msg : m.seq <= nextSeq[m.orig]}

\* The processes that hold m.
Holders(m) == {q \in Proc : m \in seen[q]}

\* The variables have their types; the receiver thread handles one message.
TypeOK ==
  /\ nextSeq \in [Proc -> Nat]
  /\ \A p \in Proc : nextSeq[p] <= NumMsg[p]
  /\ seen \in [Proc -> SUBSET Msg]
  /\ urbacks \in [Proc -> [Msg -> SUBSET Proc]]
  /\ delivered \in [Proc -> SUBSET Msg]
  /\ lcbCalls \in [Proc -> [Msg -> Nat]]
  /\ rcv \in [Proc -> SUBSET Msg]
  /\ sent \in SUBSET Packet
  /\ got \in SUBSET sent
  /\ up \in [Proc -> BOOLEAN]

\* The urbacks table of a process never claims that another one has a message
\* that it does not have: set_ack_urb runs for a mid only after the owner of the
\* mid has run add_seen_urb, whatever the order in which packets arrive.
AcksAreTrue ==
  \A p \in Proc, m \in Msg : urbacks[p][m] \subseteq Holders(m)

\* A message that any process has given to deliver_lcb, running or stopped
\* since, is in the tables of more than half of the processes (can_deliver).
MajorityHolds ==
  \A p \in Proc : \A m \in delivered[p] : 2 * Cardinality(Holders(m)) > N

\* A process has queued a message to everybody if it has it, and to nobody if
\* it does not: the (seen_id, sender) pairs from which send_beb builds link ids
\* are used once, which deliver_pl relies on to tell a new message from an old.
RelayedIffSeen ==
  \A p \in Proc, m \in Msg :
    IF m \in seen[p] THEN Beb(p, m) \subseteq sent
                     ELSE Beb(p, m) \cap sent = {}

\* The messages for which a new table has entries.  Their ids are below its size: they
\* never wrap around in the unsigned int that holds them.
Fits == [orig : Proc, seq : 1 .. TableMsgs]

\* The entries of a message that was broadcast, one for each process, are inside the
\* tables and of no other message or process: else deliver_pl would take a new message
\* for an old one, send_pl the acknowledgement of another packet for its own, and
\* can_deliver would count a process that has another message (beb.c:25-26,
\* urb.c:122-123, plink.c:148, plink.c:204, urb.c:237).
IdsDiffer ==
  \A m \in Broadcasted, p \in Proc :
    /\ LinkId(m, p) \in 0 .. TotalEntries - 1
    /\ \A n \in Fits, q \in Proc : LinkId(n, q) = LinkId(m, p) => n = m /\ q = p

\* Uniform agreement, the part that is safety: when less than half of the
\* processes may stop, a message delivered anywhere has been queued to everybody
\* by a process that is still running, even if its deliverer and its broadcaster
\* are gone.
SurvivorRelays ==
  2 * MaxStops < N =>
    \A p \in Proc : \A m \in delivered[p] :
      \E q \in Proc : up[q] /\ m \in seen[q] /\ Beb(q, m) \subseteq sent

\* Nothing is left to do: the links have handed over what they owe, and no receiver
\* thread is inside deliver_urb.
AtRest ==
  /\ \A pkt \in sent : up[pkt.src] /\ up[pkt.dst] => pkt \in got
  /\ \A p \in Proc : up[p] => rcv[p] = {}

\* What uniform agreement and validity come to once nothing is left to do, when less
\* than half of the processes may stop: all that run have delivered what any process
\* has delivered, and also what a process that runs holds, but for the last row of the
\* table.  A process alone in its group delivers nothing: only deliver_urb asks
\* can_deliver, and nobody relays to it.
AgreementAtRest ==
  N > 1 /\ 2 * MaxStops < N /\ AtRest =>
    \A m \in Msg :
      \/ \E q \in Proc : m \in delivered[q]
      \/ HasRoom(m) /\ \E q \in Holders(m) : up[q]
      => \A p \in Proc : up[p] => m \in delivered[p]

\* The layer implements reliable broadcast: deliver_lcb is called at most once
\* per process and message, for messages that were broadcast, and by running
\* processes only.
RB == INSTANCE ReliableBroadcast
        WITH broadcast <- Broadcasted, deliveries <- lcbCalls

RBSpec == RB!Spec

\* Uniform agreement: what one process has delivered, and then perhaps stopped,
\* every process delivers or stops.
UniformAgreement ==
  \A m \in Msg, q \in Proc :
    (\E p \in Proc : lcbCalls[p][m] > 0) ~> (lcbCalls[q][m] > 0 \/ ~up[q])

\* Validity: a process that has broadcast a message delivers it or stops.  It
\* learns of its majority from the relays of the others only.
Validity ==
  \A m \in Msg : (m \in Broadcasted)
                   ~> (lcbCalls[m.orig][m] > 0 \/ ~up[m.orig])
=============================================================================
