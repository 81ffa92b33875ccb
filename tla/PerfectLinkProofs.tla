------------------------- MODULE PerfectLinkProofs --------------------------
(***************************************************************************)
(* Proofs about PerfectLink, for any processes, sender threads, packets,   *)
(* threshold and bounds.                                                   *)
(***************************************************************************)
EXTENDS PerfectLink, TLAPS

-----------------------------------------------------------------------------
(* Packets and their ids.                                                  *)

\* The ends of a packet are processes.
LEMMA Ends ==
  ASSUME NEW k \in Request
  PROVE  k.src \in Proc /\ k.dst \in Proc
BY LinkAssumption

\* At one receiver a mid belongs to one packet; so does an ackid at one sender.
LEMMA IdsUnique ==
  ASSUME NEW k \in Request, NEW l \in Request
  PROVE  /\ Mid(k) = Mid(l) /\ k.dst = l.dst => k = l
         /\ AckId(k) = AckId(l) /\ k.src = l.src => k = l
BY LinkAssumption DEF Mid, AckId

\* Datagrams of different packets or kinds differ.
LEMMA DatagramsDiffer ==
  ASSUME NEW k, NEW l
  PROVE  /\ Data(k) = Data(l) => k = l
         /\ Ack(k) = Ack(l) => k = l
         /\ Data(k) # Ack(l)
BY DEF Data, Ack

\* A thread at a label of send_pl has a task.
LEMMA SendingState ==
  ASSUME TypeOK, NEW p \in Proc, NEW t \in Thread,
         NEW label \in {"check", "send", "requeue"}, Busy(p, t, label)
  PROVE  sender[p][t] \in Sending
<1>1. sender[p][t] \in SenderState
  BY DEF TypeOK
<1>2. sender[p][t].pc = label
  BY DEF Busy
<1>3. Idle.pc = "idle" /\ Exited.pc = "exited"
  BY DEF Idle, Exited
<1> QED BY <1>1, <1>2, <1>3 DEF SenderState

-----------------------------------------------------------------------------
(* Type correctness.                                                       *)

\* send_fl runs only while i is below the threshold.
SendsBelowThreshold ==
  \A p \in Proc, t \in Thread :
    Busy(p, t, "send") => sender[p][t].i < Threshold

TypeInv == TypeOK /\ SendsBelowThreshold

\* A step of a thread that only moves the thread: the rest of the types follow.
LEMMA SenderMoves ==
  ASSUME TypeInv, NEW p \in Proc, NEW t \in Thread, NEW s \in SenderState,
         sender' = [sender EXCEPT ![p][t] = s],
         s.pc = "send" => s.i < Threshold
  PROVE  /\ sender' \in [Proc -> [Thread -> SenderState]]
         /\ SendsBelowThreshold'
<1>1. sender \in [Proc -> [Thread -> SenderState]]
  BY DEF TypeInv, TypeOK
<1>2. sender' \in [Proc -> [Thread -> SenderState]]
  BY <1>1
<1>3. ASSUME NEW q \in Proc, NEW u \in Thread, sender'[q][u].pc = "send"
      PROVE  sender'[q][u].i < Threshold
  BY <1>1, <1>3 DEF TypeInv, SendsBelowThreshold, Busy
<1> QED
  BY <1>2, <1>3 DEF SendsBelowThreshold, Busy

\* A step of any thread or of the network keeps the types.
LEMMA TypeStep ==
  ASSUME TypeInv, [Next]_vars
  PROVE  TypeInv'
<1> USE DEF TypeInv
<1>1. ASSUME NEW k \in Request, Enqueue(k)
      PROVE  TypeInv'
  <2>1. task_q' \in [Proc -> Seq(Request)]
    BY <1>1, Ends DEF TypeOK, Enqueue
  <2> QED
    BY <1>1, <2>1 DEF TypeOK, Enqueue, SendsBelowThreshold, Busy
<1>2. ASSUME NEW p \in Proc, NEW t \in Thread, Dequeue(p, t)
      PROVE  TypeInv'
  <2>1. task_q[p] \in Seq(Request) /\ task_q[p] # <<>>
    BY <1>2 DEF TypeOK, Dequeue
  <2>2. Head(task_q[p]) \in Request /\ Tail(task_q[p]) \in Seq(Request)
    BY <2>1
  <2>3. At("check", Head(task_q[p]), 0) \in SenderState
    BY <2>2, LinkAssumption DEF SenderState, Sending, At
  <2>4. sender' \in [Proc -> [Thread -> SenderState]] /\ SendsBelowThreshold'
    BY <1>2, <2>3, SenderMoves DEF Dequeue, At
  <2>5. task_q' \in [Proc -> Seq(Request)]
    BY <1>2, <2>2 DEF TypeOK, Dequeue
  <2> QED
    BY <1>2, <2>4, <2>5 DEF TypeOK, Dequeue
<1>3. ASSUME NEW p \in Proc, NEW t \in Thread, CheckAck(p, t)
      PROVE  TypeInv'
  <2> DEFINE s == AfterCheck(p, sender[p][t])
  <2>1. sender[p][t] \in Sending
    BY <1>3, SendingState DEF CheckAck
  <2>2. s \in SenderState /\ (s.pc = "send" => s.i < Threshold)
    BY <2>1, LinkAssumption DEF AfterCheck, SenderState, Sending, Idle
  <2>3. sender' = [sender EXCEPT ![p][t] = s]
    BY <1>3 DEF CheckAck, TypeOK
  <2>4. sender' \in [Proc -> [Thread -> SenderState]] /\ SendsBelowThreshold'
    BY <2>2, <2>3, SenderMoves
  <2> QED
    BY <1>3, <2>4 DEF TypeOK, CheckAck
<1>4. ASSUME NEW p \in Proc, NEW t \in Thread, Requeue(p, t)
      PROVE  TypeInv'
  <2>1. sender[p][t].task \in Request
    BY <1>4, SendingState DEF Requeue, Sending
  <2>2. task_q' \in [Proc -> Seq(Request)]
    BY <1>4, <2>1 DEF TypeOK, Requeue, Back
  <2>3. sender' \in [Proc -> [Thread -> SenderState]] /\ SendsBelowThreshold'
    BY <1>4, SenderMoves DEF Requeue, SenderState, Idle
  <2> QED
    BY <1>4, <2>2, <2>3 DEF TypeOK, Requeue
<1>5. ASSUME NEW p \in Proc, NEW t \in Thread, NEW kept \in BOOLEAN, SendFl(p, t, kept)
      PROVE  TypeInv'
  <2> DEFINE s == At("check", sender[p][t].task, sender[p][t].i + 1)
  <2>1. sender[p][t] \in Sending /\ sender[p][t].i < Threshold
    BY <1>5, SendingState DEF SendFl, SendsBelowThreshold
  <2>2. s \in SenderState /\ s.pc # "send"
    <3>1. sender[p][t].i \in 0 .. Threshold /\ sender[p][t].task \in Request
      BY <2>1 DEF Sending
    <3>2. sender[p][t].i + 1 \in 0 .. Threshold
      BY <2>1, <3>1, LinkAssumption
    <3> QED
      BY <3>1, <3>2 DEF SenderState, Sending, At
  <2>3. sender' = [sender EXCEPT ![p][t] = s]
    BY <1>5 DEF SendFl, TypeOK
  <2>4. sender' \in [Proc -> [Thread -> SenderState]] /\ SendsBelowThreshold'
    BY <2>2, <2>3, SenderMoves
  <2>5. net' \subseteq {Data(k) : k \in Request} \cup {Ack(k) : k \in Request}
    BY <1>5, <2>1 DEF TypeOK, SendFl, Transit, Sending
  <2> QED
    BY <1>5, <2>4, <2>5 DEF TypeOK, SendFl
<1>6. ASSUME NEW p \in Proc, NEW t \in Thread, SendError(p, t)
      PROVE  TypeInv'
  <2>1. sender[p][t].task \in Request
    BY <1>6, SendingState DEF SendError, Sending
  <2>2. sender' \in [Proc -> [Thread -> SenderState]] /\ SendsBelowThreshold'
    BY <1>6, SenderMoves DEF SendError, SenderState, Exited
  <2> QED
    BY <1>6, <2>1, <2>2 DEF TypeOK, SendError
<1>7. ASSUME NEW k \in Request, NEW copy \in BOOLEAN, ReceiveAck(k, copy)
      PROVE  TypeInv'
  <2>1. pl_acks' \in [Proc -> SUBSET {AckId(l) : l \in Request}]
    BY <1>7, Ends DEF TypeOK, ReceiveAck
  <2> QED
    BY <1>7, <2>1 DEF TypeOK, ReceiveAck, Take, SendsBelowThreshold, Busy
<1>8. ASSUME NEW k \in Request, NEW copy \in BOOLEAN, NEW kept \in BOOLEAN,
             ReceiveData(k, copy, kept)
      PROVE  TypeInv'
  <2>1. receiver' \in [Proc -> SUBSET Request]
    BY <1>8, Ends DEF TypeOK, ReceiveData
  <2>2. net' \subseteq {Data(l) : l \in Request} \cup {Ack(l) : l \in Request}
    BY <1>8 DEF TypeOK, ReceiveData, Take, AckAlways
  <2> QED
    BY <1>8, <2>1, <2>2 DEF TypeOK, ReceiveData, SendsBelowThreshold, Busy
<1>9. ASSUME NEW p \in Proc, NEW k \in Request, DeliverPl(p, k)
      PROVE  TypeInv'
  <2> DEFINE Mids == {Mid(l) : l \in Request}
  <2>1. pl_delivered' \in [Proc -> SUBSET Mids]
    <3>1. Mid(k) \in Mids
      OBVIOUS
    <3>2. pl_delivered \in [Proc -> SUBSET Mids]
      BY DEF TypeOK
    <3> HIDE DEF Mids
    <3> QED
      BY <1>9, <3>1, <3>2 DEF DeliverPl
  <2>2. upcalls' \in [Request -> Nat] /\ receiver' \in [Proc -> SUBSET Request]
    BY <1>9 DEF TypeOK, DeliverPl
  <2> QED
    BY <1>9, <2>1, <2>2 DEF TypeOK, DeliverPl, SendsBelowThreshold, Busy
<1>10. ASSUME NEW p \in Proc, Stop(p)
       PROVE  TypeInv'
  BY <1>10 DEF TypeOK, Stop, SendsBelowThreshold, Busy
<1>11. ASSUME UNCHANGED vars
       PROVE  TypeInv'
  BY <1>11 DEF TypeOK, vars, SendsBelowThreshold, Busy
<1> QED
  BY <1>1, <1>2, <1>3, <1>4, <1>5, <1>6, <1>7, <1>8, <1>9, <1>10, <1>11
  DEF Next, SenderStep

\* The initial state has the types.
LEMMA TypeInit == Init => TypeInv
BY DEF Init, TypeInv, TypeOK, SendsBelowThreshold, Busy, SenderState, Idle

\* The variables always have their types: in particular no task is sent more than
\* Threshold times in a row.
THEOREM LinkTypeCorrect == Spec => []TypeOK
<1>1. TypeInv /\ [Next]_vars => TypeInv'
  BY TypeStep
<1>2. TypeInv => TypeOK
  BY DEF TypeInv
<1> QED
  BY TypeInit, <1>1, <1>2, PTL DEF Spec

-----------------------------------------------------------------------------
(* The inductive invariant.                                                *)

\* What send_beb of p was asked for.
Mine(p) == {k \in asked : k.src = p}

\* Every task, in the queue or with a thread, was asked for by its process.
TasksAsked ==
  /\ \A p \in Proc : \A j \in 1 .. Len(task_q[p]) : task_q[p][j] \in Mine(p)
  /\ \A p \in Proc, t \in Thread :
       sender[p][t].pc \in {"check", "send", "requeue"} => sender[p][t].task \in Mine(p)

\* So was every task that was lost.
DroppedAsked == dropped \subseteq asked

\* Every data packet in flight was asked for.
DataAsked == \A k \in Request : Data(k) \in net => k \in asked

\* deliver_pl is busy with one packet, for its own process, that was asked for.
ReceiverHasOne ==
  \A p \in Proc : \A k \in receiver[p] :
    k.dst = p /\ k \in asked /\ receiver[p] = {k}

\* A packet was handed up once if its mid is in the table of its destination, and
\* not at all otherwise.
UpcallsCounted ==
  \A k \in Request :
    upcalls[k] = IF Mid(k) \in pl_delivered[k.dst] THEN 1 ELSE 0

IInv ==
  /\ TypeInv
  /\ TasksAsked
  /\ DroppedAsked
  /\ DataAsked
  /\ ReceiverHasOne
  /\ UpcallsCounted
  /\ AckMeansTaken
  /\ OneHolder

\* The initial state.
LEMMA IInvInit == Init => IInv
<1> SUFFICES ASSUME Init
             PROVE  IInv
  OBVIOUS
<1>1. TypeInv
  BY TypeInit
<1>2. TasksAsked /\ DroppedAsked /\ OneHolder
  BY DEF Init, TasksAsked, DroppedAsked, OneHolder, Idle
<1>3. DataAsked /\ ReceiverHasOne
  BY DEF Init, DataAsked, ReceiverHasOne
<1>4. UpcallsCounted /\ AckMeansTaken
  BY Ends DEF Init, UpcallsCounted, AckMeansTaken
<1> QED
  BY <1>1, <1>2, <1>3, <1>4 DEF IInv

\* Tasks move between the queue and the threads; new ones are asked for.
LEMMA TasksStep ==
  ASSUME IInv, [Next]_vars
  PROVE  TasksAsked'
<1> USE DEF IInv, TasksAsked, Mine
<1>1. TypeOK /\ TypeInv
  BY DEF TypeInv
<1>2. ASSUME NEW k \in Request, Enqueue(k)
      PROVE  TasksAsked'
  <2>1. task_q[k.src] \in Seq(Request) /\ k.src \in Proc
    BY <1>1, Ends DEF TypeOK
  <2>2. ASSUME NEW p \in Proc, NEW j \in 1 .. Len(task_q'[p])
        PROVE  task_q'[p][j] \in Mine(p)'
    <3>1. CASE p = k.src
      BY <1>1, <1>2, <2>1, <2>2, <3>1 DEF Enqueue, TypeOK
    <3>2. CASE p # k.src
      BY <1>1, <1>2, <2>2, <3>2 DEF Enqueue, TypeOK
    <3> QED
      BY <3>1, <3>2
  <2> QED
    BY <1>2, <2>2 DEF Enqueue
<1>3. ASSUME NEW p \in Proc, NEW t \in Thread, Dequeue(p, t)
      PROVE  TasksAsked'
  <2>1. task_q[p] \in Seq(Request) /\ task_q[p] # <<>>
    BY <1>1, <1>3 DEF TypeOK, Dequeue
  <2>2. Head(task_q[p]) \in Mine(p)
    BY <2>1
  <2>3. \A j \in 1 .. Len(Tail(task_q[p])) : Tail(task_q[p])[j] \in Mine(p)
    BY <2>1
  <2>4. \A q \in Proc : \A j \in 1 .. Len(task_q'[q]) : task_q'[q][j] \in Mine(q)'
    BY <1>1, <1>3, <2>3 DEF Dequeue, TypeOK
  <2>5. \A q \in Proc, u \in Thread :
          sender'[q][u].pc \in {"check", "send", "requeue"} => sender'[q][u].task \in Mine(q)'
    BY <1>1, <1>3, <2>2 DEF Dequeue, TypeOK, At
  <2> QED
    BY <1>3, <2>4, <2>5 DEF Dequeue
<1>4. ASSUME NEW p \in Proc, NEW t \in Thread, CheckAck(p, t)
      PROVE  TasksAsked'
  <2>1. sender[p][t] \in Sending /\ sender[p][t].pc = "check"
    BY <1>1, <1>4, SendingState DEF CheckAck, Busy
  <2>2. LET s == AfterCheck(p, sender[p][t]) IN
          s.pc \in {"check", "send", "requeue"} => s.task \in Mine(p)
    BY <2>1 DEF AfterCheck, Idle, Sending
  <2>3. \A q \in Proc, u \in Thread :
          sender'[q][u].pc \in {"check", "send", "requeue"} => sender'[q][u].task \in Mine(q)'
    BY <1>1, <1>4, <2>2 DEF CheckAck, TypeOK
  <2> QED
    BY <1>4, <2>3 DEF CheckAck
<1>5. ASSUME NEW p \in Proc, NEW t \in Thread, Requeue(p, t)
      PROVE  TasksAsked'
  <2>1. sender[p][t].task \in Mine(p)
    BY <1>5 DEF Requeue, Busy
  <2>2. task_q[p] \in Seq(Request) /\ sender[p][t].task \in Request
    BY <1>1, <1>5, SendingState DEF Requeue, TypeOK, Sending
  <2>3. \A j \in 1 .. Len(Back(p, sender[p][t].task)) : Back(p, sender[p][t].task)[j] \in Mine(p)
    BY <2>1, <2>2 DEF Back
  <2>4. \A q \in Proc : \A j \in 1 .. Len(task_q'[q]) : task_q'[q][j] \in Mine(q)'
    BY <1>1, <1>5, <2>3 DEF Requeue, TypeOK
  <2>5. \A q \in Proc, u \in Thread :
          sender'[q][u].pc \in {"check", "send", "requeue"} => sender'[q][u].task \in Mine(q)'
    BY <1>1, <1>5 DEF Requeue, TypeOK, Idle
  <2> QED
    BY <1>5, <2>4, <2>5 DEF Requeue
<1>6. ASSUME NEW p \in Proc, NEW t \in Thread, NEW kept \in BOOLEAN, SendFl(p, t, kept)
      PROVE  TasksAsked'
  <2>1. sender[p][t].task \in Mine(p)
    BY <1>6 DEF SendFl, Busy
  <2> QED
    BY <1>1, <1>6, <2>1 DEF SendFl, TypeOK, At
<1>7. ASSUME NEW p \in Proc, NEW t \in Thread, SendError(p, t)
      PROVE  TasksAsked'
  BY <1>1, <1>7 DEF SendError, TypeOK, Exited
<1>8. ASSUME UNCHANGED <<asked, task_q, sender>>
      PROVE  TasksAsked'
  BY <1>8
<1> HIDE DEF TasksAsked, Mine
<1> QED
  BY <1>2, <1>3, <1>4, <1>5, <1>6, <1>7, <1>8
  DEF Next, SenderStep, ReceiveAck, ReceiveData, DeliverPl, Stop, vars

\* send_fl sends tasks, the network copies datagrams.
LEMMA DataStep ==
  ASSUME IInv, [Next]_vars
  PROVE  DataAsked'
<1> USE DEF IInv, DataAsked
<1>1. TypeOK
  BY DEF TypeInv
<1>2. ASSUME NEW k \in Request, Enqueue(k)
      PROVE  DataAsked'
  BY <1>2 DEF Enqueue
<1>3. ASSUME NEW p \in Proc, NEW t \in Thread, NEW kept \in BOOLEAN, SendFl(p, t, kept)
      PROVE  DataAsked'
  <2>1. sender[p][t].task \in asked
    BY <1>3 DEF SendFl, Busy, TasksAsked, Mine
  <2>2. ASSUME NEW k \in Request, Data(k) \in net'
        PROVE  Data(k) \in net \/ k = sender[p][t].task
    BY <1>3, <2>2, DatagramsDiffer DEF SendFl, Transit
  <2> QED
    BY <1>3, <2>1, <2>2 DEF SendFl
<1>4. ASSUME NEW k \in Request, NEW copy \in BOOLEAN, ReceiveAck(k, copy)
      PROVE  DataAsked'
  BY <1>4 DEF ReceiveAck, Take
<1>5. ASSUME NEW k \in Request, NEW copy \in BOOLEAN, NEW kept \in BOOLEAN,
             ReceiveData(k, copy, kept)
      PROVE  DataAsked'
  BY <1>5, DatagramsDiffer DEF ReceiveData, Take, AckAlways
<1>6. ASSUME UNCHANGED <<asked, net>>
      PROVE  DataAsked'
  BY <1>6
<1> QED
  BY <1>2, <1>3, <1>4, <1>5, <1>6
  DEF Next, SenderStep, Dequeue, CheckAck, Requeue, SendError, DeliverPl, Stop, vars

\* deliver_pl takes one packet at a time, from its own process's socket.
LEMMA ReceiverStep ==
  ASSUME IInv, [Next]_vars
  PROVE  ReceiverHasOne'
<1> USE DEF IInv
<1>1. TypeOK
  BY DEF TypeInv
<1>2. ASSUME NEW k \in Request, Enqueue(k)
      PROVE  ReceiverHasOne'
  BY <1>2 DEF Enqueue, ReceiverHasOne
<1>3. ASSUME NEW k \in Request, NEW copy \in BOOLEAN, NEW kept \in BOOLEAN,
             ReceiveData(k, copy, kept)
      PROVE  ReceiverHasOne'
  <2>1. k \in asked
    BY <1>3 DEF ReceiveData, DataAsked
  <2> QED
    BY <1>1, <1>3, <2>1, Ends DEF ReceiveData, TypeOK, ReceiverHasOne
<1>4. ASSUME NEW p \in Proc, NEW k \in Request, DeliverPl(p, k)
      PROVE  ReceiverHasOne'
  BY <1>1, <1>4 DEF DeliverPl, TypeOK, ReceiverHasOne
<1>5. ASSUME UNCHANGED <<asked, receiver>>
      PROVE  ReceiverHasOne'
  BY <1>5 DEF ReceiverHasOne
<1>6. ASSUME NEW p \in Proc, NEW t \in Thread, SenderStep(p, t) \/ SendError(p, t)
      PROVE  UNCHANGED <<asked, receiver>>
  BY <1>6 DEF SenderStep, Dequeue, CheckAck, Requeue, SendFl, SendError
<1>7. ASSUME NEW k \in Request, NEW copy \in BOOLEAN, ReceiveAck(k, copy)
      PROVE  UNCHANGED <<asked, receiver>>
  BY <1>7 DEF ReceiveAck
<1> QED
  BY <1>2, <1>3, <1>4, <1>5, <1>6, <1>7 DEF Next, Stop, vars

\* What deliver_pl does with packet k of process p, when p has it in hand.
LEMMA DeliverEffect ==
  ASSUME IInv, NEW p \in Proc, NEW k \in Request, DeliverPl(p, k)
  PROVE  /\ k.dst = p /\ k \in asked
         /\ upcalls[k] = IF IsNew(p, k) THEN 0 ELSE 1
         /\ upcalls'[k] = 1
         /\ \A l \in Request \ {k} :
              /\ upcalls'[l] = upcalls[l]
              /\ Mid(l) \in pl_delivered'[l.dst] <=> Mid(l) \in pl_delivered[l.dst]
         /\ Mid(k) \in pl_delivered'[p]
<1> USE DEF IInv
<1>1. TypeOK
  BY DEF TypeInv
<1>2. k.dst = p /\ k \in asked
  BY DEF DeliverPl, ReceiverHasOne
<1>3. upcalls[k] = IF IsNew(p, k) THEN 0 ELSE 1
  BY <1>2 DEF UpcallsCounted, IsNew
<1>4. CASE IsNew(p, k)
  <2>1. upcalls' = [upcalls EXCEPT ![k] = @ + 1]
    BY <1>4 DEF DeliverPl
  <2>2. upcalls'[k] = 1 /\ \A l \in Request \ {k} : upcalls'[l] = upcalls[l]
    BY <1>1, <1>3, <1>4, <2>1 DEF TypeOK
  <2>3. pl_delivered' = [pl_delivered EXCEPT ![p] = @ \cup {Mid(k)}]
    BY <1>4 DEF DeliverPl
  <2>4. Mid(k) \in pl_delivered'[p]
    BY <1>1, <2>3 DEF TypeOK
  <2>5. ASSUME NEW l \in Request \ {k}
        PROVE  Mid(l) \in pl_delivered'[l.dst] <=> Mid(l) \in pl_delivered[l.dst]
    BY <1>1, <1>2, <2>3, Ends, IdsUnique DEF TypeOK
  <2> QED
    BY <1>2, <1>3, <2>2, <2>4, <2>5
<1>5. CASE ~IsNew(p, k)
  <2>1. upcalls' = upcalls /\ pl_delivered' = pl_delivered
    BY <1>5 DEF DeliverPl
  <2>2. Mid(k) \in pl_delivered[p]
    BY <1>5 DEF IsNew
  <2> QED
    BY <1>2, <1>3, <1>5, <2>1, <2>2
<1> QED
  BY <1>4, <1>5

\* The table and the number of upcalls move together.
LEMMA UpcallsStep ==
  ASSUME IInv, [Next]_vars
  PROVE  UpcallsCounted'
<1> USE DEF IInv
<1>1. ASSUME NEW p \in Proc, NEW k \in Request, DeliverPl(p, k)
      PROVE  UpcallsCounted'
  <2>1. ASSUME NEW l \in Request
        PROVE  upcalls'[l] = IF Mid(l) \in pl_delivered'[l.dst] THEN 1 ELSE 0
    <3>1. CASE l = k
      BY <1>1, <3>1, DeliverEffect
    <3>2. CASE l # k
      BY <1>1, <3>2, DeliverEffect DEF UpcallsCounted
    <3> QED
      BY <3>1, <3>2
  <2> QED
    BY <2>1 DEF UpcallsCounted
<1>2. ASSUME UNCHANGED <<upcalls, pl_delivered>>
      PROVE  UpcallsCounted'
  BY <1>2 DEF UpcallsCounted
<1> QED
  BY <1>1, <1>2
  DEF Next, SenderStep, Enqueue, Dequeue, CheckAck, Requeue, SendFl, SendError, ReceiveAck,
      ReceiveData, Stop, vars

\* An acknowledgement is sent for the packet in hand; it stays true of its packet.
LEMMA AcksStep ==
  ASSUME IInv, [Next]_vars
  PROVE  AckMeansTaken'
<1> USE DEF IInv
<1>1. TypeOK
  BY DEF TypeInv
<1>2. ASSUME NEW p \in Proc, NEW t \in Thread, NEW kept \in BOOLEAN, SendFl(p, t, kept)
      PROVE  AckMeansTaken'
  BY <1>2, DatagramsDiffer DEF SendFl, Transit, AckMeansTaken
<1>3. ASSUME NEW k \in Request, NEW copy \in BOOLEAN, ReceiveAck(k, copy)
      PROVE  AckMeansTaken'
  <2>1. ASSUME NEW l \in Request, Ack(l) \in net' \/ AckId(l) \in pl_acks'[l.src]
        PROVE  Ack(l) \in net \/ AckId(l) \in pl_acks[l.src]
    <3>1. CASE Ack(l) \in net'
      BY <1>3, <3>1 DEF ReceiveAck, Take
    <3>2. CASE AckId(l) \in pl_acks'[l.src]
      <4>1. pl_acks' = [pl_acks EXCEPT ![k.src] = @ \cup {AckId(k)}] /\ Ack(k) \in net
        BY <1>3 DEF ReceiveAck
      <4>2. AckId(l) \in pl_acks[l.src] \/ l = k
        BY <1>1, <3>2, <4>1, Ends, IdsUnique DEF TypeOK
      <4> QED
        BY <4>1, <4>2
    <3> QED
      BY <2>1, <3>1, <3>2
  <2> QED
    BY <1>3, <2>1 DEF ReceiveAck, AckMeansTaken
<1>4. ASSUME NEW k \in Request, NEW copy \in BOOLEAN, NEW kept \in BOOLEAN,
             ReceiveData(k, copy, kept)
      PROVE  AckMeansTaken'
  <2>1. ASSUME NEW l \in Request, Ack(l) \in net' \/ AckId(l) \in pl_acks'[l.src]
        PROVE  upcalls'[l] = 1 \/ l \in receiver'[l.dst]
    <3>1. CASE l = k
      BY <1>1, <1>4, <3>1, Ends DEF ReceiveData, TypeOK
    <3>2. CASE l # k
      <4>1. Ack(l) \in net \/ AckId(l) \in pl_acks[l.src]
        BY <1>4, <2>1, <3>2, DatagramsDiffer DEF ReceiveData, Take, AckAlways
      <4>2. upcalls[l] = 1 \/ l \in receiver[l.dst]
        BY <4>1 DEF AckMeansTaken
      <4>3. receiver[k.dst] = {} /\ receiver' = [receiver EXCEPT ![k.dst] = {k}]
        BY <1>4 DEF ReceiveData
      <4> QED
        BY <1>1, <1>4, <4>2, <4>3, Ends DEF ReceiveData, TypeOK
    <3> QED
      BY <3>1, <3>2
  <2> QED
    BY <2>1 DEF AckMeansTaken
<1>5. ASSUME NEW p \in Proc, NEW k \in Request, DeliverPl(p, k)
      PROVE  AckMeansTaken'
  <2>1. ASSUME NEW l \in Request, upcalls[l] = 1 \/ l \in receiver[l.dst]
        PROVE  upcalls'[l] = 1 \/ l \in receiver'[l.dst]
    <3>1. CASE l = k
      BY <1>5, <3>1, DeliverEffect
    <3>2. CASE l # k
      <4>1. upcalls'[l] = upcalls[l]
        BY <1>5, <3>2, DeliverEffect
      <4>2. receiver[p] = {k} /\ receiver' = [receiver EXCEPT ![p] = {}]
        BY <1>5 DEF DeliverPl, ReceiverHasOne
      <4> QED
        BY <1>1, <2>1, <3>2, <4>1, <4>2, Ends DEF TypeOK
    <3> QED
      BY <3>1, <3>2
  <2> QED
    BY <1>5, <2>1 DEF DeliverPl, AckMeansTaken
<1>6. ASSUME UNCHANGED <<upcalls, receiver, net, pl_acks>>
      PROVE  AckMeansTaken'
  BY <1>6 DEF AckMeansTaken
<1> QED
  BY <1>2, <1>3, <1>4, <1>5, <1>6
  DEF Next, SenderStep, Enqueue, Dequeue, CheckAck, Requeue, SendError, Stop, vars

-----------------------------------------------------------------------------
(* One holder for each task.                                               *)

\* The positions of k in a queue.
Places(q, k) == {j \in 1 .. Len(q) : q[j] = k}

\* enqueue puts a task behind the others.
LEMMA AppendPlaces ==
  ASSUME NEW q \in Seq(Request), NEW l \in Request, NEW k \in Request
  PROVE  Places(Append(q, l), k)
           = IF k = l THEN Places(q, k) \cup {Len(q) + 1} ELSE Places(q, k)
<1>1. /\ Len(Append(q, l)) = Len(q) + 1 /\ Len(q) \in Nat
      /\ Append(q, l)[Len(q) + 1] = l
      /\ \A j \in 1 .. Len(q) : Append(q, l)[j] = q[j]
  OBVIOUS
<1>2. 1 .. Len(q) + 1 = (1 .. Len(q)) \cup {Len(q) + 1}
  BY <1>1
<1> QED
  BY <1>1, <1>2 DEF Places

\* dequeue takes the first task; the others move up by one.
LEMMA TailPlaces ==
  ASSUME NEW q \in Seq(Request), q # <<>>, NEW k \in Request
  PROVE  /\ k = Head(q) <=> 1 \in Places(q, k)
         /\ Places(q, k) = {} => Places(Tail(q), k) = {}
         /\ \A j : Places(q, k) = {j} =>
              Places(Tail(q), k) = IF j = 1 THEN {} ELSE {j - 1}
<1>1. /\ Len(q) \in Nat \ {0} /\ Len(Tail(q)) = Len(q) - 1
      /\ Head(q) = q[1]
      /\ \A j \in 1 .. Len(q) - 1 : Tail(q)[j] = q[j + 1]
  OBVIOUS
<1>2. \A j \in 1 .. Len(q) - 1 : j + 1 \in 1 .. Len(q) /\ j \in Int
  BY <1>1
<1>3. k = Head(q) <=> 1 \in Places(q, k)
  BY <1>1 DEF Places
<1>4. \A j : j \in Places(Tail(q), k) <=> j \in 1 .. Len(q) - 1 /\ j + 1 \in Places(q, k)
  BY <1>1, <1>2 DEF Places
<1>5. ASSUME Places(q, k) = {}
      PROVE  Places(Tail(q), k) = {}
  BY <1>4, <1>5
<1>6. ASSUME NEW j, Places(q, k) = {j}
      PROVE  Places(Tail(q), k) = IF j = 1 THEN {} ELSE {j - 1}
  <2>1. j \in 1 .. Len(q)
    BY <1>6 DEF Places
  <2>2. \A i : i \in Places(Tail(q), k) <=> i \in 1 .. Len(q) - 1 /\ i + 1 = j
    BY <1>4, <1>6
  <2> QED
    BY <1>1, <2>1, <2>2
<1> QED
  BY <1>3, <1>5, <1>6

\* The queue of k's sender holds k at the positions Queued says.
LEMMA QueuedPlaces ==
  ASSUME TypeOK, NEW k \in Request
  PROVE  Queued(k) = Places(task_q[k.src], k) /\ task_q[k.src] \in Seq(Request)
BY Ends DEF TypeOK, Queued, Places

\* After a step, too.
LEMMA QueuedNext ==
  ASSUME TypeInv, [Next]_vars, NEW k \in Request
  PROVE  Queued(k)' = Places(task_q'[k.src], k)
<1>1. TypeOK'
  BY TypeStep DEF TypeInv
<1> QED
  BY <1>1, Ends DEF TypeOK, Queued, Places

\* Thread t works on its task, at the label it is at.
LEMMA BusyWorks ==
  ASSUME TypeOK, NEW p \in Proc, NEW t \in Thread, NEW k \in Request, k.src = p
  PROVE  /\ t \in Working(k) <=> sender[p][t] \in Sending /\ sender[p][t].task = k
         /\ Busy(p, t, "idle") => t \notin Working(k)
BY DEF TypeOK, Working, Holds, Busy, SenderState, Sending, Idle, Exited

\* Thread t of p gets to state s; the other threads stay where they are.
Moves(p, t, s) ==
  /\ sender'[p][t] = s
  /\ \A u \in Thread \ {t} : sender'[p][u] = sender[p][u]
  /\ \A q \in Proc \ {p} : sender'[q] = sender[q]

\* A step of a thread changes the holders of one task at most.
LEMMA WorkingMoves ==
  ASSUME NEW p \in Proc, NEW t \in Thread, NEW s \in SenderState,
         Moves(p, t, s), NEW k \in Request
  PROVE  Working(k)' =
           IF k.src # p THEN Working(k)
           ELSE IF s \in Sending /\ s.task = k THEN Working(k) \cup {t}
           ELSE Working(k) \ {t}
<1>1. s \in Sending <=> s.pc \notin {"idle", "exited"}
  BY DEF SenderState, Sending, Idle, Exited
<1>2. CASE k.src # p
  BY <1>2, Ends DEF Moves, Working, Holds
<1>3. CASE k.src = p
  BY <1>1, <1>3 DEF Moves, Working, Holds
<1> QED
  BY <1>2, <1>3

\* What OneHolder says of packet k.
Held(k) ==
  \/ (\E j \in Queued(k) : Queued(k) = {j}) /\ Working(k) = {} /\ k \notin dropped
  \/ Queued(k) = {} /\ (\E t \in Working(k) : Working(k) = {t}) /\ k \notin dropped
  \/ /\ Queued(k) = {} /\ Working(k) = {}
     /\ AckId(k) \in pl_acks[k.src] \/ k \in dropped

LEMMA HeldAll == OneHolder <=> \A k \in asked : Held(k)
BY DEF OneHolder, Held

\* After a step: k is in the queue, with a thread, or done.
LEMMA HeldAfter ==
  ASSUME NEW k \in Request
  PROVE  /\ \A j : Queued(k)' = {j} /\ Working(k)' = {} /\ k \notin dropped' => Held(k)'
         /\ \A t : Queued(k)' = {} /\ Working(k)' = {t} /\ k \notin dropped' => Held(k)'
         /\ /\ Queued(k)' = {} /\ Working(k)' = {}
            /\ AckId(k) \in pl_acks'[k.src] \/ k \in dropped'
            => Held(k)'
BY DEF Held, AckId

\* A step that leaves the places of k alone; acknowledgements are never removed.
LEMMA HeldFrame ==
  ASSUME NEW k \in Request, Held(k),
         Queued(k)' = Queued(k), Working(k)' = Working(k),
         k \in dropped' <=> k \in dropped,
         AckId(k) \in pl_acks[k.src] => AckId(k) \in pl_acks'[k.src]
  PROVE  Held(k)'
BY DEF Held, AckId

\* Only send_pl's error path drops a task.
LEMMA DroppedStep ==
  ASSUME IInv, [Next]_vars
  PROVE  DroppedAsked'
<1> USE DEF IInv, DroppedAsked
<1>1. ASSUME NEW p \in Proc, NEW t \in Thread, SendError(p, t)
      PROVE  DroppedAsked'
  <2>1. sender[p][t].task \in asked
    BY <1>1 DEF SendError, Busy, TasksAsked, Mine
  <2> QED
    BY <1>1, <2>1 DEF SendError
<1>2. ASSUME asked \subseteq asked', dropped' = dropped
      PROVE  DroppedAsked'
  BY <1>2
<1> QED
  BY <1>1, <1>2
  DEF Next, SenderStep, Enqueue, Dequeue, CheckAck, Requeue, SendFl, ReceiveAck, ReceiveData,
      DeliverPl, Stop, vars

\* A task with a thread is nowhere else.
LEMMA HolderAlone ==
  ASSUME IInv, NEW p \in Proc, NEW t \in Thread,
         NEW label \in {"check", "send", "requeue"}, Busy(p, t, label)
  PROVE  LET k == sender[p][t].task IN
           /\ k \in asked /\ k \in Request /\ k.src = p /\ k \notin dropped
           /\ Queued(k) = {} /\ Working(k) = {t}
           /\ sender[p][t] \in Sending
<1> DEFINE k == sender[p][t].task
<1>1. sender[p][t] \in Sending
  BY SendingState DEF IInv, TypeInv
<1>2. k \in asked /\ k.src = p /\ k \in Request
  BY <1>1 DEF IInv, TasksAsked, Mine, Sending
<1>3. t \in Working(k)
  BY <1>1, <1>2, BusyWorks DEF IInv, TypeInv
<1>4. Held(k)
  BY <1>2, HeldAll DEF IInv
<1> HIDE DEF k
<1>5. Queued(k) = {} /\ Working(k) = {t} /\ k \notin dropped
  BY <1>3, <1>4 DEF Held
<1> QED
  BY <1>1, <1>2, <1>5 DEF k

\* The task of a packet not asked for is nowhere.
LEMMA NewIsNowhere ==
  ASSUME IInv, NEW k \in Request, k \notin asked
  PROVE  Queued(k) = {} /\ Working(k) = {} /\ k \notin dropped
<1>1. Queued(k) = {}
  BY Ends, QueuedPlaces DEF IInv, TypeInv, TasksAsked, Mine, Places
<1>2. Working(k) = {}
  BY Ends, BusyWorks DEF IInv, TypeInv, TasksAsked, Mine, Sending, Working
<1> QED
  BY <1>1, <1>2 DEF IInv, DroppedAsked

\* Whatever moves a task moves it from its one holder to the next.
LEMMA HolderStep ==
  ASSUME IInv, [Next]_vars
  PROVE  OneHolder'
<1>1. /\ TypeOK /\ TypeInv
      /\ \A k \in asked : k \in Request /\ k.src \in Proc /\ Held(k)
  BY HeldAll, Ends DEF IInv, TypeInv, TypeOK
<1>2. ASSUME NEW l \in Request, Enqueue(l), NEW k \in asked'
      PROVE  Held(k)'
  <2>1. /\ k \in Request /\ k.src \in Proc /\ l.src \in Proc
        /\ task_q' = [task_q EXCEPT ![l.src] = Append(@, l)]
        /\ UNCHANGED <<sender, dropped, pl_acks>>
    BY <1>1, <1>2, Ends DEF Enqueue
  <2>2. Working(k)' = Working(k)
    BY <2>1 DEF Working, Holds
  <2>3. Queued(k)' = Places(task_q'[k.src], k)
    BY <1>1, <2>1, QueuedNext
  <2>4. task_q'[k.src] = IF k.src = l.src THEN Append(task_q[k.src], l) ELSE task_q[k.src]
    BY <1>1, <2>1 DEF TypeOK
  <2>5. CASE k = l
    <3>1. Queued(k) = {} /\ Working(k) = {} /\ k \notin dropped
      BY <1>2, <2>5, NewIsNowhere DEF Enqueue
    <3>2. Queued(k)' = {Len(task_q[k.src]) + 1}
      BY <1>1, <2>1, <2>3, <2>4, <2>5, <3>1, AppendPlaces, QueuedPlaces
    <3> QED
      BY <2>1, <2>2, <3>1, <3>2, HeldAfter
  <2>6. CASE k # l
    <3>1. k \in asked
      BY <1>2, <2>6 DEF Enqueue
    <3>2. Queued(k)' = Queued(k)
      BY <1>1, <2>1, <2>3, <2>4, <2>6, AppendPlaces, QueuedPlaces
    <3> QED
      BY <1>1, <2>1, <2>2, <3>1, <3>2, HeldFrame
  <2> QED
    BY <2>5, <2>6
<1>3. ASSUME NEW p \in Proc, NEW t \in Thread, Dequeue(p, t), NEW k \in asked'
      PROVE  Held(k)'
  <2> DEFINE q == task_q[p]
             h == Head(task_q[p])
             s == At("check", Head(task_q[p]), 0)
  <2>1. /\ k \in Request /\ k \in asked /\ Held(k)
        /\ Moves(p, t, s)
        /\ UNCHANGED <<dropped, pl_acks>>
    BY <1>1, <1>3 DEF Dequeue, Moves, TypeOK
  <2>2. /\ q \in Seq(Request) /\ q # <<>> /\ h \in Request
        /\ task_q'[p] = Tail(q)
        /\ k.src = p => task_q[k.src] = q /\ task_q'[k.src] = Tail(q)
        /\ k.src # p => task_q'[k.src] = task_q[k.src]
    BY <1>1, <1>3, <2>1, Ends DEF Dequeue, TypeOK
  <2>3. s \in Sending /\ s.task = h /\ s \in SenderState
    BY <2>2, LinkAssumption DEF Sending, SenderState, At
  <2>4. Queued(k) = Places(task_q[k.src], k) /\ Queued(k)' = Places(task_q'[k.src], k)
    BY <1>1, <1>3, <2>1, QueuedNext, QueuedPlaces
  <2>5. k.src = p => t \notin Working(k)
    BY <1>1, <1>3, <2>1, BusyWorks DEF Dequeue
  <2>6. k.src = p => (k = h <=> k = Head(q))
    OBVIOUS
  <2> HIDE DEF q, h, s
  <2>7. Working(k)' = IF k.src # p THEN Working(k)
                      ELSE IF s \in Sending /\ s.task = k THEN Working(k) \cup {t}
                      ELSE Working(k) \ {t}
    BY <2>1, <2>3, WorkingMoves
  <2>8. CASE k.src # p
    BY <2>1, <2>2, <2>4, <2>7, <2>8, HeldFrame
  <2>9. CASE k.src = p
    <3>1. Queued(k) = Places(q, k) /\ Queued(k)' = Places(Tail(q), k)
      BY <2>2, <2>4, <2>9
    <3>2. /\ k = h <=> 1 \in Queued(k)
          /\ Queued(k) = {} => Queued(k)' = {}
          /\ \A j : Queued(k) = {j} => Queued(k)' = IF j = 1 THEN {} ELSE {j - 1}
      <4>1. /\ k = Head(q) <=> 1 \in Places(q, k)
            /\ Places(q, k) = {} => Places(Tail(q), k) = {}
            /\ \A j : Places(q, k) = {j} =>
                 Places(Tail(q), k) = IF j = 1 THEN {} ELSE {j - 1}
        BY <2>1, <2>2, TailPlaces
      <4> QED
        BY <2>6, <2>9, <3>1, <4>1
    <3>3. CASE k = h
      <4>1. Queued(k) = {1} /\ Working(k) = {} /\ k \notin dropped
        BY <2>1, <3>2, <3>3 DEF Held
      <4>2. Queued(k)' = {} /\ Working(k)' = {t}
        BY <2>3, <2>7, <2>9, <3>2, <3>3, <4>1
      <4> QED
        BY <2>1, <4>1, <4>2, HeldAfter
    <3>4. CASE k # h
      <4>1. Working(k)' = Working(k)
        BY <2>3, <2>5, <2>7, <2>9, <3>4
      <4>2. CASE Queued(k) = {}
        BY <2>1, <3>2, <4>1, <4>2, HeldFrame
      <4>3. CASE Queued(k) # {}
        <5>1. PICK j : Queued(k) = {j} /\ Working(k) = {} /\ k \notin dropped
          BY <2>1, <4>3 DEF Held
        <5>2. Queued(k)' = {j - 1}
          BY <3>2, <3>4, <5>1
        <5> QED
          BY <2>1, <4>1, <5>1, <5>2, HeldAfter
      <4> QED
        BY <4>2, <4>3
    <3> QED
      BY <3>3, <3>4
  <2> QED
    BY <2>8, <2>9
<1>4. ASSUME NEW p \in Proc, NEW t \in Thread, CheckAck(p, t), NEW k \in asked'
      PROVE  Held(k)'
  <2> DEFINE h == sender[p][t].task
             s == AfterCheck(p, sender[p][t])
  <2>1. /\ k \in Request /\ k \in asked /\ Held(k)
        /\ Moves(p, t, s)
        /\ UNCHANGED <<task_q, dropped, pl_acks>>
    BY <1>1, <1>4 DEF CheckAck, Moves, TypeOK
  <2>2. /\ h.src = p /\ h \notin dropped /\ sender[p][t] \in Sending
        /\ Queued(h) = {} /\ Working(h) = {t}
    BY <1>4, HolderAlone DEF CheckAck
  <2>3. \/ s = Idle /\ AckId(h) \in pl_acks[p]
        \/ s \in Sending /\ s.task = h
    BY <2>2 DEF AfterCheck, Sending
  <2>4. Queued(k)' = Queued(k)
    BY <2>1 DEF Queued
  <2>5. k.src = p /\ k # h => t \notin Working(k)
    BY <1>1, <2>1, BusyWorks
  <2>6. s \in SenderState /\ (s = Idle => s \notin Sending)
    BY <2>3 DEF SenderState, Sending, Idle
  <2> HIDE DEF s, h
  <2>7. Working(k)' = IF k.src # p THEN Working(k)
                      ELSE IF s \in Sending /\ s.task = k THEN Working(k) \cup {t}
                      ELSE Working(k) \ {t}
    BY <2>1, <2>6, WorkingMoves
  <2>8. CASE k = h /\ s = Idle
    <3>1. Working(k)' = {} /\ Queued(k)' = {} /\ AckId(k) \in pl_acks[k.src]
      BY <2>2, <2>3, <2>4, <2>6, <2>7, <2>8
    <3> QED
      BY <2>1, <3>1, HeldAfter
  <2>9. CASE ~(k = h /\ s = Idle)
    <3>1. Working(k)' = Working(k)
      BY <2>2, <2>3, <2>5, <2>6, <2>7, <2>9
    <3> QED
      BY <2>1, <2>4, <3>1, HeldFrame
  <2> QED
    BY <2>8, <2>9
<1>5. ASSUME NEW p \in Proc, NEW t \in Thread, Requeue(p, t), NEW k \in asked'
      PROVE  Held(k)'
  <2> DEFINE h == sender[p][t].task
  <2>1. /\ k \in Request /\ k \in asked /\ Held(k)
        /\ Moves(p, t, Idle)
        /\ UNCHANGED <<dropped, pl_acks>>
    BY <1>1, <1>5 DEF Requeue, Moves, TypeOK
  <2>2. /\ h \in Request /\ h.src = p /\ h \notin dropped
        /\ Queued(h) = {} /\ Working(h) = {t}
    BY <1>5, HolderAlone DEF Requeue
  <2>3. /\ k.src = p => task_q'[k.src] = Append(task_q[k.src], h)
        /\ k.src # p => task_q'[k.src] = task_q[k.src]
    BY <1>1, <1>5, <2>1 DEF Requeue, Back, TypeOK
  <2>4. /\ Queued(k) = Places(task_q[k.src], k) /\ Queued(k)' = Places(task_q'[k.src], k)
        /\ task_q[k.src] \in Seq(Request)
    BY <1>1, <1>5, <2>1, QueuedNext, QueuedPlaces DEF Next, SenderStep
  <2>5. k.src = p /\ k # h => t \notin Working(k)
    BY <1>1, <2>1, BusyWorks
  <2>6. Idle \in SenderState /\ Idle \notin Sending
    BY DEF SenderState, Sending, Idle
  <2> HIDE DEF h
  <2>7. Working(k)' = IF k.src # p THEN Working(k) ELSE Working(k) \ {t}
    BY <2>1, <2>6, WorkingMoves
  <2>8. Queued(k)' = IF k = h THEN Queued(k) \cup {Len(task_q[k.src]) + 1} ELSE Queued(k)
    <3>1. Places(Append(task_q[k.src], h), k)
            = IF k = h THEN Places(task_q[k.src], k) \cup {Len(task_q[k.src]) + 1}
              ELSE Places(task_q[k.src], k)
      BY <2>1, <2>2, <2>4, AppendPlaces
    <3> QED
      BY <2>2, <2>3, <2>4, <3>1
  <2>9. CASE k = h
    <3>1. Queued(k)' = {Len(task_q[k.src]) + 1} /\ Working(k)' = {}
      BY <2>2, <2>7, <2>8, <2>9
    <3> QED
      BY <2>1, <2>2, <2>9, <3>1, HeldAfter
  <2>10. CASE k # h
    BY <2>1, <2>5, <2>7, <2>8, <2>10, HeldFrame
  <2> QED
    BY <2>9, <2>10
<1>6. ASSUME NEW p \in Proc, NEW t \in Thread, NEW kept \in BOOLEAN, SendFl(p, t, kept),
             NEW k \in asked'
      PROVE  Held(k)'
  <2> DEFINE h == sender[p][t].task
             s == At("check", sender[p][t].task, sender[p][t].i + 1)
  <2>1. /\ k \in Request /\ k \in asked /\ Held(k)
        /\ Moves(p, t, s)
        /\ UNCHANGED <<task_q, dropped, pl_acks>>
    BY <1>1, <1>6 DEF SendFl, Moves, TypeOK
  <2>2. Working(h) = {t} /\ sender[p][t] \in Sending
    BY <1>6, HolderAlone DEF SendFl
  <2>3. s \in Sending /\ s.task = h /\ s \in SenderState
    BY <1>1, <1>6, <2>2, LinkAssumption
    DEF SendFl, Sending, SenderState, At, TypeInv, SendsBelowThreshold
  <2>4. k.src = p /\ k # h => t \notin Working(k)
    BY <1>1, <2>1, BusyWorks
  <2>5. Queued(k)' = Queued(k)
    BY <2>1 DEF Queued
  <2> HIDE DEF h, s
  <2>6. Working(k)' = IF k.src # p THEN Working(k)
                      ELSE IF s \in Sending /\ s.task = k THEN Working(k) \cup {t}
                      ELSE Working(k) \ {t}
    BY <2>1, <2>3, WorkingMoves
  <2>7. Working(k)' = Working(k)
    BY <2>2, <2>3, <2>4, <2>6
  <2> QED
    BY <2>1, <2>5, <2>7, HeldFrame
<1>7. ASSUME NEW p \in Proc, NEW t \in Thread, SendError(p, t), NEW k \in asked'
      PROVE  Held(k)'
  <2> DEFINE h == sender[p][t].task
  <2>1. /\ k \in Request /\ k \in asked /\ Held(k)
        /\ Moves(p, t, Exited)
        /\ dropped' = dropped \cup {h}
        /\ UNCHANGED <<task_q, pl_acks>>
    BY <1>1, <1>7 DEF SendError, Moves, TypeOK
  <2>2. h.src = p /\ Queued(h) = {} /\ Working(h) = {t}
    BY <1>7, HolderAlone DEF SendError
  <2>3. k.src = p /\ k # h => t \notin Working(k)
    BY <1>1, <2>1, BusyWorks
  <2>4. Queued(k)' = Queued(k)
    BY <2>1 DEF Queued
  <2>5. Exited \in SenderState /\ Exited \notin Sending
    BY DEF SenderState, Sending, Exited
  <2> HIDE DEF h
  <2>6. Working(k)' = IF k.src # p THEN Working(k) ELSE Working(k) \ {t}
    BY <2>1, <2>5, WorkingMoves
  <2>7. CASE k = h
    <3>1. Queued(k)' = {} /\ Working(k)' = {} /\ k \in dropped'
      BY <2>1, <2>2, <2>4, <2>6, <2>7
    <3> QED
      BY <2>1, <3>1, HeldAfter
  <2>8. CASE k # h
    BY <2>1, <2>3, <2>4, <2>6, <2>8, HeldFrame
  <2> QED
    BY <2>7, <2>8
<1>8. ASSUME UNCHANGED <<asked, task_q, sender, dropped>>,
             \A k \in asked : AckId(k) \in pl_acks[k.src] => AckId(k) \in pl_acks'[k.src],
             NEW k \in asked'
      PROVE  Held(k)'
  <2>1. Queued(k)' = Queued(k) /\ Working(k)' = Working(k)
    BY <1>8 DEF Queued, Working, Holds
  <2> QED
    BY <1>1, <1>8, <2>1, HeldFrame
<1>9. ASSUME NEW l \in Request, NEW copy \in BOOLEAN, ReceiveAck(l, copy)
      PROVE  /\ UNCHANGED <<asked, task_q, sender, dropped>>
             /\ \A k \in asked : AckId(k) \in pl_acks[k.src] => AckId(k) \in pl_acks'[k.src]
  BY <1>1, <1>9, Ends DEF ReceiveAck, TypeOK
<1>10. ASSUME \/ \E l \in Request, copy \in BOOLEAN, kept \in BOOLEAN : ReceiveData(l, copy, kept)
              \/ \E p \in Proc, l \in Request : DeliverPl(p, l)
              \/ \E p \in Proc : Stop(p)
              \/ UNCHANGED vars
       PROVE  UNCHANGED <<asked, task_q, sender, dropped, pl_acks>>
  BY <1>10 DEF ReceiveData, DeliverPl, Stop, vars
<1>11. ASSUME NEW k \in asked'
       PROVE  Held(k)'
  BY <1>2, <1>3, <1>4, <1>5, <1>6, <1>7, <1>8, <1>9, <1>10, <1>11 DEF Next, SenderStep
<1> QED
  BY <1>11 DEF OneHolder, Held

\* The invariant is inductive.
LEMMA LinkInvariance == Spec => []IInv
<1>1. IInv /\ [Next]_vars => IInv'
  BY TypeStep, TasksStep, DataStep, ReceiverStep, UpcallsStep, AcksStep,
     DroppedStep, HolderStep DEF IInv
<1> QED
  BY IInvInit, <1>1, PTL DEF Spec

-----------------------------------------------------------------------------
(* The theorems.                                                           *)

\* deliver_pl acknowledges before it hands up; still, whoever has or will get the
\* acknowledgement may forget a packet that its destination has taken.
THEOREM AcksMeanTaken == Spec => []AckMeansTaken
<1>1. IInv => AckMeansTaken
  BY DEF IInv
<1> QED
  BY LinkInvariance, <1>1, PTL

\* No task is in two places, and none is forgotten unless it was acknowledged or the
\* thread that held it has exited: send_pl, enqueue and dequeue hand it on whole.
THEOREM OneHolderCorrect == Spec => []OneHolder
<1>1. IInv => OneHolder
  BY DEF IInv
<1> QED
  BY LinkInvariance, <1>1, PTL

\* A packet whose task is in no queue and in no thread's hands has been handed to
\* deliver_beb at its destination, or is about to be, unless sendto failed.
FinishedMeansTaken ==
  \A k \in asked \ dropped :
    Queued(k) = {} /\ Working(k) = {} => upcalls[k] = 1 \/ k \in receiver[k.dst]

\* Nothing that was asked for gets lost between the threads: when send_pl and the task
\* queue have finished with a packet, its destination has taken it, once, although it is
\* the sender that decides (is_ack), whatever the network loses, repeats or reorders.
THEOREM FinishedMeansTakenCorrect == Spec => []FinishedMeansTaken
<1>1. IInv => FinishedMeansTaken
  <2> SUFFICES ASSUME IInv, NEW k \in asked \ dropped, Queued(k) = {}, Working(k) = {}
               PROVE  upcalls[k] = 1 \/ k \in receiver[k.dst]
    BY DEF FinishedMeansTaken
  <2>1. k \in Request /\ OneHolder /\ AckMeansTaken
    BY DEF IInv, TypeInv, TypeOK
  <2>2. AckId(k) \in pl_acks[k.src]
    BY <2>1 DEF OneHolder
  <2> QED
    BY <2>1, <2>2 DEF AckMeansTaken
<1> QED
  BY LinkInvariance, <1>1, PTL

\* The initial state is one of reliable links.
LEMMA RefinesInit == Init => RL!Init
BY DEF Init, RL!Init

\* Every step is a step of reliable links, or none.
LEMMA RefinesStep ==
  ASSUME IInv, [Next]_vars
  PROVE  [RL!Next]_(RL!vars)
<1> USE DEF RL!vars
<1>1. ASSUME NEW k \in Request, Enqueue(k)
      PROVE  RL!Send(k)
  BY <1>1 DEF Enqueue, RL!Send
<1>2. ASSUME NEW p \in Proc, NEW k \in Request, DeliverPl(p, k)
      PROVE  RL!Deliver(k) \/ UNCHANGED RL!vars
  <2>1. k.dst = p /\ k \in asked /\ upcalls[k] = IF IsNew(p, k) THEN 0 ELSE 1
    BY <1>2, DeliverEffect
  <2>2. CASE IsNew(p, k)
    BY <1>2, <2>1, <2>2 DEF DeliverPl, RL!Deliver, IInv, TypeInv, TypeOK
  <2>3. CASE ~IsNew(p, k)
    BY <1>2, <2>3 DEF DeliverPl
  <2> QED
    BY <2>2, <2>3
<1>3. ASSUME NEW p \in Proc, Stop(p)
      PROVE  RL!Stop(p)
  BY <1>3 DEF Stop, RL!Stop
<1>4. ASSUME UNCHANGED <<asked, upcalls, up>>
      PROVE  UNCHANGED RL!vars
  BY <1>4
<1> QED
  BY <1>1, <1>2, <1>3, <1>4
  DEF Next, SenderStep, Dequeue, CheckAck, Requeue, SendFl, SendError, ReceiveAck, ReceiveData,
      RL!Next, vars

\* Perfect links over fair-loss links implement reliable links: no creation and no
\* duplication at deliver_beb.
THEOREM ImplementsRL == Spec => RLSpec
<1>1. IInv /\ [Next]_vars => [RL!Next]_(RL!vars)
  BY RefinesStep
<1> QED
  BY RefinesInit, LinkInvariance, <1>1, PTL DEF Spec, RLSpec, RL!Spec
=============================================================================
