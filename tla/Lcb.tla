-------------------------------- MODULE Lcb --------------------------------
(***************************************************************************)
(* Localized causal broadcast (src/lcb.c, src/pending.c) over uniform      *)
(* reliable broadcast (src/urb.c, module Urb), and the order of the lines  *)
(* in the log of a process (src/log.c).                                    *)
(*                                                                         *)
(* The main thread copies the vector clock into a message and then hands   *)
(* the message to send_urb, which logs "b".  The receiver thread tests     *)
(* each message that deliver_urb hands over against the vector clock; it   *)
(* counts it in the clock and logs "d", or puts it in the pending list of  *)
(* its sender.  find_pending reads list nodes that it has freed: what it   *)
(* finds there is undefined.                                               *)
(*                                                                         *)
(* Messages do not carry their sequence number to this layer.  The fields  *)
(* seq and past of the messages below, and msg of the log lines, are there *)
(* for the properties only.                                                *)
(***************************************************************************)
EXTENDS Integers, Sequences, FiniteSets

CONSTANTS N,        \* data->num_proc
          NumMsg,   \* NumMsg[p]: data->num_msg of process p
          Deps,     \* Deps[p]: the list that get_dependencies returns for p
          MaxStops  \* bound: how many processes may be stopped by a signal

ASSUME LcbAssumption ==
  /\ N \in Nat \ {0}
  /\ NumMsg \in [1 .. N -> Nat]
  /\ Deps \in [1 .. N -> SUBSET (1 .. N)]
  /\ MaxStops \in Nat

Proc == 1 .. N

VARIABLES nextSeq,       \* nextSeq[p]: messages p's main thread has started
          outgoing,      \* outgoing[p]: the message send_lcb is busy with (0 or 1)
          broadcast,     \* the messages that send_urb has given to the links
          urbDelivered,  \* urbDelivered[p]: messages deliver_urb has handed over
          vector_clock,  \* vector_clock[p]: deliveries per sender
          lcb_pending,   \* lcb_pending[p][q]: pending messages of sender q
          receiver,      \* receiver[p]: where p's receiver thread is
          log,           \* log[p]: lines written by write_log
          killed,        \* processes stopped by a signal
          up             \* up[p]: the process has not exited

vars == <<nextSeq, outgoing, broadcast, urbDelivered, vector_clock, lcb_pending,
          receiver, log, killed, up>>

\* A line for a delivery that find_pending made up from a freed node.
NoMsg == [orig |-> 0]

Id(m) == [orig |-> m.orig, seq |-> m.seq]

\* Positions of the receiver thread: waiting; about to log a delivery, of a
\* message of deliver_lcb or of find_pending; at a list in find_pending, with the
\* pointer on its head or on a freed node; in a loop that never ends.
Idle == [pc |-> "idle"]
Hung == [pc |-> "hung"]
Logging(m) == [pc |-> "log", msg |-> m]
AtList(q) == [pc |-> "find", list |-> q]
FoundIn(q, m) == [pc |-> "findlog", list |-> q, msg |-> m]
NotRemoving(q, m) == AtList(q)      \* Mutant: the node stays where it is
Removing(q, m) == [pc |-> "remove", list |-> q, msg |-> m]
AtFreed(q) == [pc |-> "freed", list |-> q]

\* Mutant: the wrong entries are compared.
TestOthers(p, m) == \A q \in Proc \ Deps[m.orig] : m.vec[q] <= vector_clock[p][q]
\* test_vec_clock: only the dependencies of the original sender are compared.
TestVecClock(p, m) == \A q \in Deps[m.orig] : m.vec[q] <= vector_clock[p][q]

\* add_pending_lcb: at the end of the list of the sender.
AddPending(p, m) == [lcb_pending EXCEPT ![p][m.orig] = Append(@, m)]

\* remove_veclist, of the second node of a list.
WithoutSecond(list) == <<Head(list)>> \o Tail(Tail(list))

\* update_vec_clock.
CountedForSelf(p, q) == [vector_clock EXCEPT ![p][p] = @ + 1]         \* Mutant
Counted(p, q) == [vector_clock EXCEPT ![p][q] = @ + 1]

\* The messages that vector_clock[p] counts: logged, or about to be.
InLog(p) == {i \in DOMAIN log[p] : log[p][i].ev = "d"}
Logged(p) == {log[p][i].msg : i \in InLog(p)} \ {NoMsg}
Applied(p) ==
  Logged(p) \cup (IF receiver[p].pc \in {"log", "findlog"} THEN {receiver[p].msg} \ {NoMsg}
                                                         ELSE {})

\* send_lcb: the clock with the entry of the process itself set to seq - 1.
OwnEntryTooHigh(p, seq) == [vector_clock[p] EXCEPT ![p] = seq]        \* Mutant
OwnEntryTooLow(p, seq) == [vector_clock[p] EXCEPT ![p] = seq - 2]     \* Mutant
ClockCopy(p, seq) == [vector_clock[p] EXCEPT ![p] = seq - 1]

\* log_deliver_lcb: the line holds the value of the clock, not a number that came
\* with the message.
LineOfOwnCount(p, q, m) ==                                      \* Mutant
  [ev |-> "d", pid |-> q, seq |-> vector_clock[p][p], msg |-> m]
Line(p, q, m) == [ev |-> "d", pid |-> q, seq |-> vector_clock[p][q], msg |-> m]

-----------------------------------------------------------------------------
Init ==
  /\ nextSeq = [p \in Proc |-> 0]
  /\ outgoing = [p \in Proc |-> {}]
  /\ broadcast = {}
  /\ urbDelivered = [p \in Proc |-> {}]
  /\ vector_clock = [p \in Proc |-> [q \in Proc |-> 0]]
  /\ lcb_pending = [p \in Proc |-> [q \in Proc |-> <<>>]]
  /\ receiver = [p \in Proc |-> Idle]
  /\ log = [p \in Proc |-> <<>>]
  /\ killed = {}
  /\ up = [p \in Proc |-> TRUE]

\* Main thread, send_lcb: copy the clock for the next message.
CopyClock(p) ==
  LET seq == nextSeq[p] + 1 IN
  /\ up[p]
  /\ outgoing[p] = {}
  /\ nextSeq[p] < NumMsg[p]
  /\ nextSeq' = [nextSeq EXCEPT ![p] = seq]
  /\ outgoing' = [outgoing EXCEPT ![p] =
       {[orig |-> p, seq |-> seq, vec |-> ClockCopy(p, seq),
         past |-> {Id(m) : m \in Applied(p)} \cup {[orig |-> p, seq |-> s] : s \in 1 .. seq - 1}]}]
  /\ UNCHANGED <<broadcast, urbDelivered, vector_clock, lcb_pending, receiver, log, killed, up>>

\* Main thread, send_urb: log the broadcast, then queue it.
SendUrb(p, m) ==
  /\ up[p]
  /\ m \in outgoing[p]
  /\ outgoing' = [outgoing EXCEPT ![p] = {}]
  /\ log' = [log EXCEPT ![p] = Append(@, [ev |-> "b", seq |-> m.seq])]
  /\ broadcast' = broadcast \cup {m}
  /\ UNCHANGED <<nextSeq, urbDelivered, vector_clock, lcb_pending, receiver, killed, up>>

\* Receiver thread, deliver_lcb: count the message, or keep it for later.
DeliverLcb(p, m) ==
  /\ up[p]
  /\ receiver[p] = Idle
  /\ m \in broadcast \ urbDelivered[p]
  /\ urbDelivered' = [urbDelivered EXCEPT ![p] = @ \cup {m}]
  /\ IF TestVecClock(p, m)
       THEN /\ vector_clock' = Counted(p, m.orig)
            /\ receiver' = [receiver EXCEPT ![p] = Logging(m)]
            /\ UNCHANGED lcb_pending
       ELSE /\ lcb_pending' = AddPending(p, m)
            /\ UNCHANGED <<vector_clock, receiver>>
  /\ UNCHANGED <<nextSeq, outgoing, broadcast, log, killed, up>>

\* Receiver thread, log_deliver_lcb in deliver_lcb, then the call of find_pending.
NoFind == Idle                 \* Mutant: deliver_lcb does not look for pending ones
AfterLog == AtList(1)

LogDeliver(p) ==
  /\ up[p]
  /\ receiver[p].pc = "log"
  /\ log' = [log EXCEPT ![p] = Append(@, Line(p, receiver[p].msg.orig, receiver[p].msg))]
  /\ receiver' = [receiver EXCEPT ![p] = AfterLog]
  /\ UNCHANGED <<nextSeq, outgoing, broadcast, urbDelivered, vector_clock, lcb_pending, killed, up>>

\* find_pending at an empty list: go to the next one, and after the last return 0,
\* which ends deliver_lcb.  (It never returns 1: see RemoveNext.)
FindNext(p) ==
  /\ up[p]
  /\ receiver[p].pc = "find"
  /\ LET q == receiver[p].list IN
       /\ lcb_pending[p][q] = <<>>
       /\ receiver' = [receiver EXCEPT ![p] = IF q < N THEN AtList(q + 1) ELSE Idle]
  /\ UNCHANGED <<nextSeq, outgoing, broadcast, urbDelivered, vector_clock, lcb_pending,
                 log, killed, up>>

\* find_pending at the head of a list: deliver it if its vector allows; if not, the
\* loop tests the same node again, and nobody else updates the clock.
FindHead(p) ==
  /\ up[p]
  /\ receiver[p].pc = "find"
  /\ LET q == receiver[p].list IN
       /\ lcb_pending[p][q] # <<>>
       /\ LET m == Head(lcb_pending[p][q]) IN
          IF TestVecClock(p, m)
            THEN /\ vector_clock' = Counted(p, q)
                 /\ receiver' = [receiver EXCEPT ![p] = FoundIn(q, m)]
            ELSE /\ receiver' = [receiver EXCEPT ![p] = Hung]
                 /\ UNCHANGED vector_clock
  /\ UNCHANGED <<nextSeq, outgoing, broadcast, urbDelivered, lcb_pending, log, killed, up>>

\* find_pending: log the delivery.
FindLog(p) ==
  /\ up[p]
  /\ receiver[p].pc = "findlog"
  /\ LET q == receiver[p].list IN
       /\ log' = [log EXCEPT ![p] = Append(@, Line(p, q, receiver[p].msg))]
       /\ receiver' = [receiver EXCEPT ![p] = Removing(q, receiver[p].msg)]
  /\ UNCHANGED <<nextSeq, outgoing, broadcast, urbDelivered, vector_clock, lcb_pending, killed, up>>

\* find_pending: move the pointer on and remove the node it then points to, the
\* second of the list.  Without one, remove_veclist returns ERROR_POINTER and
\* receiver_f exits the process.
RemoveNext(p) ==
  /\ up[p]
  /\ receiver[p].pc = "remove"
  /\ LET q == receiver[p].list
         list == lcb_pending[p][q]
     IN IF Len(list) > 1
          THEN /\ lcb_pending' = [lcb_pending EXCEPT ![p][q] = WithoutSecond(list)]
               /\ receiver' = [receiver EXCEPT ![p] = AtFreed(q)]
               /\ UNCHANGED up
          ELSE /\ up' = [up EXCEPT ![p] = FALSE]
               /\ UNCHANGED <<lcb_pending, receiver>>
  /\ UNCHANGED <<nextSeq, outgoing, broadcast, urbDelivered, vector_clock, log, killed>>

\* find_pending tests a vector in freed memory: the process crashes, or the test
\* fails for ever, or it succeeds and a delivery is counted for no message.
ReadFreed(p) ==
  /\ up[p]
  /\ receiver[p].pc = "freed"
  /\ \/ /\ up' = [up EXCEPT ![p] = FALSE]
        /\ UNCHANGED <<receiver, vector_clock>>
     \/ /\ receiver' = [receiver EXCEPT ![p] = Hung]
        /\ UNCHANGED <<up, vector_clock>>
     \/ /\ vector_clock' = Counted(p, receiver[p].list)
        /\ receiver' = [receiver EXCEPT ![p] = FoundIn(receiver[p].list, NoMsg)]
        /\ UNCHANGED up
  /\ UNCHANGED <<nextSeq, outgoing, broadcast, urbDelivered, lcb_pending, log, killed>>

\* A signal.
Stop(p) ==
  /\ up[p]
  /\ Cardinality(killed) < MaxStops
  /\ killed' = killed \cup {p}
  /\ up' = [up EXCEPT ![p] = FALSE]
  /\ UNCHANGED <<nextSeq, outgoing, broadcast, urbDelivered, vector_clock, lcb_pending,
                 receiver, log>>

MainStep(p) == CopyClock(p) \/ \E m \in outgoing[p] : SendUrb(p, m)

\* The receiver thread, once it has a message.
ReceiverStep(p) ==
  LogDeliver(p) \/ FindNext(p) \/ FindHead(p) \/ FindLog(p) \/ RemoveNext(p) \/ ReadFreed(p)

Next ==
  \E p \in Proc :
    \/ MainStep(p)
    \/ \E m \in broadcast : DeliverLcb(p, m)
    \/ ReceiverStep(p)
    \/ Stop(p)

Spec == Init /\ [][Next]_vars

\* Threads are scheduled; uniform reliable broadcast hands over every message to
\* every process that runs.
Fairness ==
  \A p \in Proc : /\ WF_vars(MainStep(p))
                  /\ WF_vars(ReceiverStep(p))
                  /\ WF_vars(\E m \in broadcast : DeliverLcb(p, m))

FairSpec == Spec /\ Fairness

-----------------------------------------------------------------------------
MsgId == UNION {[orig : {p}, seq : 1 .. NumMsg[p]] : p \in Proc}

\* The lines "d" at p whose message is known, and the pending messages of p.
Known(p) == {i \in InLog(p) : log[p][i].msg # NoMsg}
Pending(p) == UNION {{lcb_pending[p][q][i] : i \in DOMAIN lcb_pending[p][q]} : q \in Proc}

\* The variables have their types; a pending message is in the list of its sender.
TypeOK ==
  /\ \A p \in Proc : nextSeq[p] \in 0 .. NumMsg[p]
  /\ \A p \in Proc : \A m \in outgoing[p] \cup urbDelivered[p] \cup broadcast :
       /\ Id(m) \in MsgId
       /\ m.past \subseteq MsgId
       /\ m.vec \in [Proc -> Nat]
  /\ vector_clock \in [Proc -> [Proc -> Nat]]
  /\ \A p, q \in Proc : \A i \in DOMAIN lcb_pending[p][q] : lcb_pending[p][q][i].orig = q
  /\ \A p \in Proc : receiver[p].pc \in
       {"idle", "hung", "log", "find", "findlog", "remove", "freed"}
  /\ killed \subseteq Proc
  /\ up \in [Proc -> BOOLEAN]

\* A process that is in its own list of dependencies: everybody tests its messages
\* against the number of those of its own that came before.
SelfListed(q) == q \in Deps[q]

\* What every process waits for before a message: the earlier messages from the
\* dependencies of its sender, of those senders whose messages are kept in order.
Awaited(m) == {x \in m.past : x.orig \in Deps[m.orig] /\ SelfListed(x.orig)}

\* Localized causality: when the line of a message is written, the lines of all
\* messages its sender had counted when it copied the clock, and of the sender's own
\* earlier ones, are in the log, as far as their senders are in the list of
\* dependencies of the sender and in their own.  It holds although find_pending may
\* deliver, although main and receiver thread share the clock, although a clock counts
\* the messages of the other senders in any order and may count deliveries that never
\* happened.
CausalOrder ==
  \A p \in Proc : \A j \in Known(p) :
    \A x \in Awaited(log[p][j].msg) :
      \E i \in Known(p) : i < j /\ Id(log[p][i].msg) = x

\* A line "d" names the sender of the message that is delivered; when the sender is in
\* its own list, the number in the line, which is the value of a counter, is the number
\* of that message.
FifoLines ==
  \A p \in Proc : \A j \in Known(p) :
    LET m == log[p][j].msg IN
      /\ log[p][j].pid = m.orig
      /\ SelfListed(m.orig) => log[p][j].seq = m.seq

\* Causality line by line, as test/testlocal.py compares logs, and for any lists: when the
\* line of a message is written, as many lines of each dependency of its sender are in
\* the log, numbered from 1, as the clock that send_lcb copied says; lines of deliveries
\* that never happened are among them.
LineCausality ==
  \A p \in Proc : \A j \in Known(p) :
    LET m == log[p][j].msg IN
      \A q \in Deps[m.orig] : \A s \in 1 .. m.vec[q] :
        \E i \in InLog(p) : i < j /\ log[p][i].pid = q /\ log[p][i].seq = s

\* The clock agrees with the log, but for the line that the receiver thread is
\* about to write: nothing is counted twice or logged without being counted.
ClockCountsLog ==
  \A p, q \in Proc :
    vector_clock[p][q] =
      Cardinality({i \in InLog(p) : log[p][i].pid = q})
        + (IF \/ receiver[p].pc = "log" /\ receiver[p].msg.orig = q
              \/ receiver[p].pc = "findlog" /\ receiver[p].list = q THEN 1 ELSE 0)

\* A process writes at most one line for a message, whether deliver_lcb or
\* find_pending delivers it, even when find_pending removes the wrong node.
NoDuplication ==
  \A p \in Proc : \A i, j \in Known(p) : log[p][i].msg = log[p][j].msg => i = j

\* No wake-up is lost: while the receiver thread waits for the network, no pending
\* message could be delivered.
NothingDeliverablePending ==
  \A p \in Proc : up[p] /\ receiver[p] = Idle =>
    \A m \in Pending(p) : ~TestVecClock(p, m)

\* p has counted a delivery that find_pending made up from a freed node.
MadeUp(p) ==
  \/ \E i \in InLog(p) : log[p][i].msg = NoMsg
  \/ receiver[p].pc = "findlog" /\ receiver[p].msg = NoMsg

\* Nobody is left behind, whatever the lists of dependencies are: a process whose
\* receiver thread waits, and to which deliver_urb has handed every message, has
\* written them all.  The vector of a message asks for no more than what its sender
\* had seen, in whatever order, unless that sender had counted made-up deliveries.
AllWrittenAtRest ==
  (\A q \in Proc : ~MadeUp(q)) =>
    \A p \in Proc :
      up[p] /\ receiver[p] = Idle /\ broadcast \subseteq urbDelivered[p]
        => broadcast \subseteq Logged(p)

-----------------------------------------------------------------------------
(* What the layer promises to its user.                                    *)

\* A message without its vector clock.
Bare(m) == [orig |-> m.orig, seq |-> m.seq, past |-> m.past]

CB == INSTANCE CausalBroadcast WITH
        started <- nextSeq,
        preparing <- [p \in Proc |-> {Bare(m) : m \in outgoing[p]}],
        sent <- {Bare(m) : m \in broadcast},
        delivered <- [p \in Proc |-> {Bare(m) : m \in Applied(p)}],
        written <- [p \in Proc |-> {Bare(m) : m \in Logged(p)}],
        lines <- [p \in Proc |-> Cardinality(Known(p))]

\* The vector clocks, the pending lists and find_pending implement localized causal
\* broadcast, with every thread switch between the copy of the clock, the lines of the
\* log and the deliveries.
ImplementsCausalBroadcast == CB!Spec

\* Whatever a process waits for before it delivers a cause of a message is a cause of
\* that message, too: the clock that send_lcb copies covers the causes of all that it
\* counts, a delivery whose line is not yet written included.
CausesOfCauses == CB!CausesOfCauses

-----------------------------------------------------------------------------
(* What the documents and tests of the repository say and the code does not. *)

\* test/testlocal.py:31 takes as the causes of a message the lines "d" of
\* dependencies that precede its line "b" in the log of its sender, and checks at
\* lines 48 to 52 that every process has written them before the message's "d".
LogOrderCausality ==
  \A p, r \in Proc : \A j \in Known(p), k, i \in DOMAIN log[r] :
    LET m == log[p][j].msg IN
      (/\ r = m.orig
       /\ log[r][k].ev = "b" /\ log[r][k].seq = m.seq
       /\ i < k /\ log[r][i].ev = "d" /\ log[r][i].pid \in Deps[r])
      => \E h \in InLog(p) : /\ h < j
                             /\ log[p][h].pid = log[r][i].pid
                             /\ log[p][h].seq = log[r][i].seq

\* include/pending.h:140, "@return 1 if at least one vector was valid, 0 if not,
\* < 0 if error" of find_pending: a call returns, or takes the process down.
FindPendingReturns ==
  \A p \in Proc : (receiver[p].pc = "find") ~> (receiver[p] = Idle \/ ~up[p])

\* include/pending.h:137, "Whenever it finds a valid vector, it deletes it from the
\* list and delivers the corresponding message": after the removal, no message
\* with a line of its own is pending.
DeliveredIsDeleted ==
  \A p \in Proc : up[p] /\ receiver[p].pc \in {"idle", "find", "freed"} =>
    Pending(p) \cap Logged(p) = {}
=============================================================================
