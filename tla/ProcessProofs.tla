--------------------------- MODULE ProcessProofs ----------------------------
(***************************************************************************)
(* Proofs about Process, for any number of sender threads, messages and    *)
(* processes, any length of queue and buffer, and any bounds.              *)
(***************************************************************************)
EXTENDS Process, TaskQueueProofs

-----------------------------------------------------------------------------
(* The inductive invariant.                                                *)

\* Labels of write_log behind its lock.
InLog == {"fwrite", "reset", "copy", "unlock_log"}

\* The queue holds tasks only, never a cleared slot.
QueueOK == QueueTypeOK /\ Contents \in Seq(Task)

\* The senders put and send tasks, and do not log.
SenderCall == {PutCall(task) : task \in Task} \cup {SendCall(task) : task \in Task}
SendersDoNotLog == \A s \in Sender : work[s] \in Seq(SenderCall)

\* Whoever is in write_log owns the log, and has the line at hand.
LogHasOwner ==
  \A t \in Thread : pc[t] \in InLog => loglok = t /\ work[t] # <<>> /\ Head(work[t]).op = "log"

\* There is room for the line when it is copied.
LineFits == \A t \in Thread : pc[t] = "copy" => Len(buffer) < BufLines

\* init_receiver finds no receiver at work.
ReceiverStarts == phase = "init_receiver" => pc[Receiver] \in {"none", "cancelled"}

\* What the file and the buffer hold while a thread is in write_log, and while none is,
\* as long as no short write has lost lines.
LogAccounts ==
  ~ShortWrite =>
    /\ \A t \in Thread :
         /\ pc[t] \in {"fwrite", "copy"} => file \o buffer = logged
         /\ pc[t] = "reset" => file = logged
         /\ pc[t] = "unlock_log" => file \o buffer = Append(logged, Arg(t))
    /\ (\A t \in Thread : pc[t] \notin InLog) => file \o buffer = logged

\* stop gets past terminate_senders without the senders and past terminate_receiver
\* without the receiver; then nobody is in write_log.
StopQuiets ==
  /\ handler \in {"terminate_receiver", "write_to_file", "exit"} =>
       /\ \A s \in Sender : pc[s] \in {"failed", "cancelled"}
       /\ pc[Main] \notin InLog
  /\ handler = "terminate_receiver" => loglok = Main
  /\ handler \in {"write_to_file", "exit"} => pc[Receiver] = "cancelled"

\* Behind the last write_to_file the buffer is empty, if fwrite has not failed.
StopFlushes ==
  /\ handler = "exit" /\ "failed" \notin faults => buffer = <<>>
  /\ outcome = "stopped" => handler = "exit"

IInv ==
  /\ TypeOK
  /\ QueueOK
  /\ SendersDoNotLog
  /\ LogHasOwner
  /\ LineFits
  /\ LogAccounts
  /\ ReceiverStarts
  /\ StopQuiets
  /\ StopFlushes

-----------------------------------------------------------------------------
(* Calls.                                                                  *)

\* The threads are different from each other and from nobody.
LEMMA Threads ==
  /\ Main \in Thread /\ Receiver \in Thread /\ Main # Receiver
  /\ \A s \in Sender : s \in Thread /\ s # Main /\ s # Receiver
  /\ \A t \in Thread : t # NoThread
BY ProcessAssumption DEF Thread

\* What the three kinds of call carry.
LEMMA CallArgs ==
  ASSUME NEW c \in Call
  PROVE  /\ c.op = "log" => c.arg \in Line
         /\ c.op \in {"put", "send"} => c.arg \in Task
BY DEF Call, LogCall, PutCall, SendCall

\* A thread that has calls to make has a current one, and goes on to the others.
LEMMA CurrentCall ==
  ASSUME work \in [Thread -> Seq(Call)], NEW t \in Thread, work[t] # <<>>
  PROVE  /\ Tail(work[t]) \in Seq(Call)
         /\ Head(work[t]).op = "log" => Arg(t) \in Line
         /\ Head(work[t]).op \in {"put", "send"} => Arg(t) \in Task
<1>1. work[t] \in Seq(Call)
  OBVIOUS
<1>2. Head(work[t]) \in Call /\ Tail(work[t]) \in Seq(Call)
  BY <1>1
<1> QED
  BY <1>2, CallArgs DEF Arg

\* send_beb puts a task of the queue for each process.
LEMMA PutsAreCalls ==
  ASSUME NEW line \in Line
  PROVE  Puts(line) \in Seq(Call)
<1>1. NumProc \in Nat
  BY ProcessAssumption
<1>2. \A d \in 1 .. NumProc : PutCall(<<line, d>>) \in Call
  BY ProcessAssumption DEF Call
<1> QED
  BY <1>1, <1>2 DEF Puts

\* The calls of the main and the receiver thread.
LEMMA MessageCalls ==
  ASSUME TypeOK
  PROVE  /\ Broadcast =>
              \E calls \in Seq(Call) : work' = [work EXCEPT ![Main] = calls]
         /\ \A relay, deliver \in BOOLEAN : Receive(relay, deliver) =>
              \E calls \in Seq(Call) : work' = [work EXCEPT ![Receiver] = calls]
<1>1. /\ NumMsg \in Nat /\ MaxReceived \in Nat
      /\ count.broadcast \in Nat /\ count.received \in Nat
  BY ProcessAssumption DEF TypeOK
<1>2. ASSUME Broadcast
      PROVE  \E calls \in Seq(Call) : work' = [work EXCEPT ![Main] = calls]
  <2> DEFINE line == <<Main, count.broadcast + 1>>
  <2>1. count.broadcast + 1 \in 1 .. NumMsg + MaxReceived
    BY <1>1, <1>2 DEF Broadcast
  <2>2. line \in Line
    BY <2>1 DEF Line
  <2>3. LogCall(line) \in Call /\ Puts(line) \in Seq(Call)
    BY <2>2, PutsAreCalls DEF Call
  <2>4. <<LogCall(line)>> \o Puts(line) \in Seq(Call)
    BY <2>3
  <2> QED
    BY <1>2, <2>4 DEF Broadcast, Do
<1>3. ASSUME NEW relay \in BOOLEAN, NEW deliver \in BOOLEAN, Receive(relay, deliver)
      PROVE  \E calls \in Seq(Call) : work' = [work EXCEPT ![Receiver] = calls]
  <2> DEFINE line == <<Receiver, count.received + 1>>
             puts == IF relay THEN Puts(line) ELSE <<>>
             logs == IF deliver THEN <<LogCall(line)>> ELSE <<>>
  <2>1. count.received + 1 \in 1 .. NumMsg + MaxReceived
    BY <1>1, <1>3 DEF Receive
  <2>2. line \in Line
    BY <2>1 DEF Line
  <2>3. LogCall(line) \in Call /\ Puts(line) \in Seq(Call)
    BY <2>2, PutsAreCalls DEF Call
  <2>4. puts \in Seq(Call) /\ logs \in Seq(Call)
    BY <2>3
  <2>5. puts \o logs \in Seq(Call)
    BY <2>4
  <2> QED
    BY <1>3, <2>5 DEF Receive, Do
<1> QED
  BY <1>2, <1>3

-----------------------------------------------------------------------------
(* The queue.                                                              *)

\* A step of the process is a step of the queue, or leaves it alone.
LEMMA QueueSteps ==
  ASSUME TypeOK, QueueOK, [Next]_vars
  PROVE  [QueueNext]_queueVars
<1>1. ASSUME NEW s \in Sender, GetTask(s)
      PROVE  [QueueNext]_queueVars
  BY <1>1 DEF GetTask, QueueNext
<1>2. ASSUME NEW t \in Thread, PutTask(t)
      PROVE  [QueueNext]_queueVars
  <2>1. Arg(t) \in Task
    BY <1>2, CurrentCall DEF PutTask, Calls, TypeOK
  <2> QED
    BY <1>2, <2>1 DEF PutTask, QueueNext
<1>3. CASE UNCHANGED queueVars
  BY <1>3
<1> QED
  BY <1>1, <1>2, <1>3
  DEF Next, MainStep, InitReceiver, InitSenders, Start, Broadcast, ReceiverStep, Receive,
      SenderStep, SendTask, CallStep, PutFails, UnlockQueue, LockLog, WriteToFile, ResetBuffer,
      CopyLine, UnlockLog, ExitOnError, Signal, StopStep, NoSenders, CancelSender, LockForStop,
      TerminateReceiver, StopWrites, StopExits, vars

\* Only tasks get into the queue.
LEMMA QueueStep ==
  ASSUME QueueOK, [QueueNext]_queueVars
  PROVE  QueueOK'
<1>1. ASSUME NEW x \in Task, Enqueue(x)
      PROVE  QueueOK'
  BY <1>1, EnqueueEffect DEF QueueOK
<1>2. CASE Dequeue
  BY <1>2, DequeueEffect DEF QueueOK
<1>3. CASE UNCHANGED queueVars
  BY <1>3 DEF QueueOK, queueVars, QueueTypeOK, Contents, Slot
<1> QED
  BY <1>1, <1>2, <1>3 DEF QueueNext

\* dequeue hands out a task.
LEMMA FirstIsTask ==
  ASSUME QueueOK, Dequeue
  PROVE  First \in Task
<1>1. Contents # <<>> /\ First = Head(Contents) /\ Contents \in Seq(Task)
  BY DequeueEffect DEF QueueOK
<1> QED
  BY <1>1

-----------------------------------------------------------------------------
(* Type correctness.                                                       *)

\* A step gives no thread a call that is none.
LEMMA WorkStep ==
  ASSUME TypeOK, QueueOK, LogHasOwner, [Next]_vars
  PROVE  work' \in [Thread -> Seq(Call)]
<1> USE Threads
<1>1. work \in [Thread -> Seq(Call)]
  BY DEF TypeOK
<1>2. ASSUME NEW t \in Thread, NEW calls \in Seq(Call), work' = [work EXCEPT ![t] = calls]
      PROVE  work' \in [Thread -> Seq(Call)]
  BY <1>1, <1>2
<1>3. CASE Broadcast
  BY <1>2, <1>3, MessageCalls
<1>4. ASSUME NEW relay \in BOOLEAN, NEW deliver \in BOOLEAN, Receive(relay, deliver)
      PROVE  work' \in [Thread -> Seq(Call)]
  BY <1>2, <1>4, MessageCalls
<1>5. ASSUME NEW s \in Sender, GetTask(s)
      PROVE  work' \in [Thread -> Seq(Call)]
  <2>1. CASE Dequeue /\ Do(s, <<SendCall(First)>>)
    <3>1. SendCall(First) \in Call
      BY <2>1, FirstIsTask DEF Call
    <3>2. <<SendCall(First)>> \in Seq(Call)
      BY <3>1
    <3> QED
      BY <1>2, <2>1, <3>2 DEF Do
  <2> QED
    BY <1>1, <1>5, <2>1 DEF GetTask
<1>6. ASSUME NEW t \in Thread, PutTask(t) \/ UnlockLog(t)
      PROVE  work' \in [Thread -> Seq(Call)]
  <2>1. work[t] # <<>> => Tail(work[t]) \in Seq(Call)
    BY <1>1, CurrentCall
  <2>2. CASE work[t] # <<>>
    BY <1>2, <1>6, <2>1, <2>2 DEF PutTask, UnlockLog, Do
  <2> QED
    BY <1>6, <2>2 DEF PutTask, Calls, UnlockLog, At, LogHasOwner, InLog
<1>7. ASSUME NEW s \in Sender, SendTask(s)
      PROVE  work' \in [Thread -> Seq(Call)]
  <2>1. Arg(s) \in Task
    BY <1>1, <1>7, CurrentCall DEF SendTask, Calls
  <2>2. <<PutCall(Arg(s))>> \in Seq(Call) /\ <<>> \in Seq(Call)
    BY <2>1 DEF Call
  <2> QED
    BY <1>1, <1>2, <1>7, <2>2 DEF SendTask, Do
<1>8. CASE UNCHANGED work
  BY <1>1, <1>8
<1> QED
  BY <1>3, <1>4, <1>5, <1>6, <1>7, <1>8
  DEF Next, MainStep, InitReceiver, InitSenders, Start, ReceiverStep, SenderStep, CallStep,
      PutFails, UnlockQueue, LockLog, WriteToFile, ResetBuffer, CopyLine, ExitOnError, Signal,
      StopStep, NoSenders, CancelSender, LockForStop, TerminateReceiver, StopWrites, StopExits,
      vars, threadVars

\* The senders only send and put back.
LEMMA SendersStep ==
  ASSUME TypeOK, QueueOK, SendersDoNotLog, LogHasOwner, [Next]_vars
  PROVE  SendersDoNotLog'
<1> SUFFICES ASSUME NEW s \in Sender
             PROVE  work'[s] \in Seq(SenderCall)
  BY DEF SendersDoNotLog
<1> USE Threads
<1>1. work \in [Thread -> Seq(Call)] /\ work[s] \in Seq(SenderCall)
  BY DEF TypeOK, SendersDoNotLog
<1>2. ASSUME NEW t \in Thread, NEW calls, work' = [work EXCEPT ![t] = calls],
             t = s => calls \in Seq(SenderCall)
      PROVE  work'[s] \in Seq(SenderCall)
  BY <1>1, <1>2
<1>3. CASE Broadcast
  BY <1>1, <1>3 DEF Broadcast, Do
<1>4. ASSUME NEW relay \in BOOLEAN, NEW deliver \in BOOLEAN, Receive(relay, deliver)
      PROVE  work'[s] \in Seq(SenderCall)
  BY <1>1, <1>4 DEF Receive, Do
<1>5. ASSUME NEW t \in Sender, GetTask(t)
      PROVE  work'[s] \in Seq(SenderCall)
  <2>1. CASE Dequeue /\ Do(t, <<SendCall(First)>>)
    <3>1. SendCall(First) \in SenderCall
      BY <2>1, FirstIsTask DEF SenderCall
    <3>2. <<SendCall(First)>> \in Seq(SenderCall)
      BY <3>1
    <3> QED
      BY <1>2, <2>1, <3>2 DEF Do
  <2> QED
    BY <1>1, <1>5, <2>1 DEF GetTask
<1>6. ASSUME NEW t \in Thread, PutTask(t) \/ UnlockLog(t)
      PROVE  work'[s] \in Seq(SenderCall)
  <2>1. work[t] # <<>>
    BY <1>6 DEF PutTask, Calls, UnlockLog, At, LogHasOwner, InLog
  <2>2. t = s => Tail(work[t]) \in Seq(SenderCall)
    BY <1>1, <2>1
  <2>3. work' = [work EXCEPT ![t] = Tail(work[t])]
    BY <1>6 DEF PutTask, UnlockLog, Do
  <2> QED
    BY <1>2, <2>2, <2>3
<1>7. ASSUME NEW t \in Sender, SendTask(t)
      PROVE  work'[s] \in Seq(SenderCall)
  <2>1. Arg(t) \in Task
    BY <1>1, <1>7, CurrentCall DEF SendTask, Calls
  <2>2. <<PutCall(Arg(t))>> \in Seq(SenderCall) /\ <<>> \in Seq(SenderCall)
    BY <2>1 DEF SenderCall
  <2> QED
    BY <1>1, <1>2, <1>7, <2>2 DEF SendTask, Do
<1>8. CASE UNCHANGED work
  BY <1>1, <1>8
<1> QED
  BY <1>3, <1>4, <1>5, <1>6, <1>7, <1>8
  DEF Next, MainStep, InitReceiver, InitSenders, Start, ReceiverStep, SenderStep, CallStep,
      PutFails, UnlockQueue, LockLog, WriteToFile, ResetBuffer, CopyLine, ExitOnError, Signal,
      StopStep, NoSenders, CancelSender, LockForStop, TerminateReceiver, StopWrites, StopExits,
      vars, threadVars

\* What fwrite leaves in the file are lines, of a part of the buffer also.
LEMMA FwriteType ==
  ASSUME file \in Seq(Line), buffer \in Seq(Line), FwriteTakes \/ FwriteFails
  PROVE  file' \in Seq(Line)
<1>1. ASSUME NEW k \in 0 .. Len(buffer) - 1, file' = file \o SubSeq(buffer, 1, k)
      PROVE  file' \in Seq(Line)
  <2>1. \A i \in 1 .. k : buffer[i] \in Line
    OBVIOUS
  <2>2. SubSeq(buffer, 1, k) \in Seq(Line)
    BY <2>1
  <2> QED
    BY <1>1, <2>2
<1>2. file \o buffer \in Seq(Line)
  OBVIOUS
<1> QED
  BY <1>1, <1>2 DEF FwriteTakes, FwriteFails

\* write_log takes lines, as many as fit.
LEMMA LogTypeStep ==
  ASSUME TypeOK, LogHasOwner, LineFits, [Next]_vars
  PROVE  /\ buffer' \in Seq(Line) /\ Len(buffer') <= BufLines
         /\ file' \in Seq(Line) /\ logged' \in Seq(Line)
<1> DEFINE Goal == /\ buffer' \in Seq(Line) /\ Len(buffer') <= BufLines
                   /\ file' \in Seq(Line) /\ logged' \in Seq(Line)
<1>1. /\ buffer \in Seq(Line) /\ Len(buffer) <= BufLines
      /\ file \in Seq(Line) /\ logged \in Seq(Line) /\ BufLines \in Nat
      /\ work \in [Thread -> Seq(Call)]
  BY ProcessAssumption DEF TypeOK
<1>2. /\ file \o buffer \in Seq(Line)
      /\ <<>> \in Seq(Line) /\ Len(<<>>) <= BufLines
      /\ \A line \in Line : /\ Append(buffer, line) \in Seq(Line)
                            /\ Len(Append(buffer, line)) = Len(buffer) + 1
                            /\ Append(logged, line) \in Seq(Line)
  BY <1>1
<1>3. ASSUME NEW t \in Thread, pc[t] \in InLog
      PROVE  Arg(t) \in Line
  BY <1>1, <1>3, CurrentCall DEF LogHasOwner
<1>4. FwriteTakes \/ FwriteFails => file' \in Seq(Line)
  BY <1>1, <1>2, FwriteType
<1>5. ASSUME NEW t \in Thread, WriteToFile(t) \/ ResetBuffer(t)
      PROVE  Goal
  BY <1>1, <1>2, <1>4, <1>5 DEF WriteToFile, ResetBuffer, Emptied
<1>6. ASSUME NEW t \in Thread, CopyLine(t)
      PROVE  Goal
  <2>1. Len(buffer) < BufLines /\ Arg(t) \in Line
    BY <1>3, <1>6 DEF CopyLine, At, LineFits, InLog
  <2>2. Len(buffer) + 1 <= BufLines
    BY <1>1, <2>1
  <2> QED
    BY <1>1, <1>2, <1>6, <2>1, <2>2 DEF CopyLine
<1>7. ASSUME NEW t \in Thread, UnlockLog(t)
      PROVE  Goal
  BY <1>1, <1>2, <1>3, <1>7 DEF UnlockLog, At, InLog
<1>8. CASE StopWrites
  BY <1>1, <1>2, <1>4, <1>8 DEF StopWrites, Emptied
<1>9. CASE UNCHANGED <<buffer, file, logged>>
  BY <1>1, <1>9
<1> QED
  BY <1>5, <1>6, <1>7, <1>8, <1>9
  DEF Next, MainStep, InitReceiver, InitSenders, Start, Broadcast, ReceiverStep, Receive,
      SenderStep, GetTask, SendTask, CallStep, PutTask, PutFails, UnlockQueue, LockLog,
      ExitOnError, Signal, StopStep, NoSenders, CancelSender, LockForStop, TerminateReceiver,
      StopExits, vars, logVars

\* Counting one more keeps the type of the counters.
LEMMA CountType ==
  ASSUME NEW Kinds, count \in [Kinds -> Nat], NEW what \in Kinds, Count(what)
  PROVE  count' \in [Kinds -> Nat]
<1>1. count[what] + 1 \in Nat
  OBVIOUS
<1> QED
  BY <1>1 DEF Count

\* A step keeps the types of what no lemma above is about.
LEMMA ControlTypeStep ==
  ASSUME TypeOK, [Next]_vars
  PROVE  /\ queue_mutex' \in Thread \cup {NoThread}
         /\ loglok' \in Thread \cup {NoThread}
         /\ pc' \in [Thread -> Labels]
         /\ phase' \in {"init_receiver", "init_senders", "wait_for_start", "broadcast"}
         /\ count' \in [{"broadcast", "received", "requeued", "errors"} -> Nat]
         /\ handler' \in {"none", "terminate_senders", "terminate_receiver", "write_to_file",
                          "exit"}
         /\ outcome' \in {"running", "crashed", "exited", "stopped"}
         /\ faults' \subseteq {"failed", "short"}
<1> USE Threads
    DEF Next, MainStep, InitReceiver, InitSenders, Start, Broadcast, ReceiverStep, Receive,
        SenderStep, GetTask, SendTask, CallStep, PutTask, PutFails, UnlockQueue, LockLog,
        WriteToFile, ResetBuffer, CopyLine, UnlockLog, ExitOnError, Signal, StopStep,
        NoSenders, CancelSender, LockForStop, TerminateReceiver, StopWrites, StopExits,
        FwriteTakes, FwriteFails, Fault, vars, threadVars, logVars
<1>1. queue_mutex' \in Thread \cup {NoThread}
  BY DEF TypeOK
<1>2. loglok' \in Thread \cup {NoThread}
  BY DEF TypeOK, AfterLog
<1>3. pc' \in [Thread -> Labels]
  BY DEF TypeOK, Labels, Goto
<1>4. phase' \in {"init_receiver", "init_senders", "wait_for_start", "broadcast"}
  BY DEF TypeOK
<1>5. count' \in [{"broadcast", "received", "requeued", "errors"} -> Nat]
  <2>1. ASSUME NEW what \in {"broadcast", "received", "requeued", "errors"}, Count(what)
        PROVE  count' \in [{"broadcast", "received", "requeued", "errors"} -> Nat]
    <3>1. count \in [{"broadcast", "received", "requeued", "errors"} -> Nat]
      BY DEF TypeOK
    <3> QED
      BY <2>1, <3>1, CountType
  <2>2. CASE UNCHANGED count
    BY <2>2 DEF TypeOK
  <2>3. \/ UNCHANGED count
        \/ Count("broadcast") \/ Count("received") \/ Count("requeued") \/ Count("errors")
    OBVIOUS
  <2> QED
    BY <2>1, <2>2, <2>3
<1>6. handler' \in {"none", "terminate_senders", "terminate_receiver", "write_to_file", "exit"}
  BY DEF TypeOK
<1>7. outcome' \in {"running", "crashed", "exited", "stopped"}
  BY DEF TypeOK
<1>8. faults' \subseteq {"failed", "short"}
  <2>1. UNCHANGED faults \/ \E kind \in {"failed", "short"} : faults' = faults \cup {kind}
    OBVIOUS
  <2> QED
    BY <2>1 DEF TypeOK
<1> QED
  BY <1>1, <1>2, <1>3, <1>4, <1>5, <1>6, <1>7, <1>8

\* A step keeps the types.
LEMMA TypeStep ==
  ASSUME TypeOK, QueueOK, LogHasOwner, LineFits, [Next]_vars
  PROVE  TypeOK'
<1>1. QueueTypeOK'
  BY QueueSteps, QueueStep DEF QueueOK
<1>2. work' \in [Thread -> Seq(Call)]
  BY WorkStep
<1>3. /\ buffer' \in Seq(Line) /\ Len(buffer') <= BufLines
      /\ file' \in Seq(Line) /\ logged' \in Seq(Line)
  BY LogTypeStep
<1> QED
  BY <1>1, <1>2, <1>3, ControlTypeStep DEF TypeOK

-----------------------------------------------------------------------------
(* The log.                                                                *)

LogInv == LogHasOwner /\ LineFits /\ LogAccounts

\* A sender is nowhere in write_log.
LEMMA SendersOutsideLog ==
  ASSUME LogHasOwner, SendersDoNotLog, NEW s \in Sender
  PROVE  pc[s] \notin InLog
<1> SUFFICES ASSUME pc[s] \in InLog
             PROVE  FALSE
  OBVIOUS
<1>1. work[s] \in Seq(SenderCall) /\ work[s] # <<>> /\ Head(work[s]).op = "log"
  BY Threads DEF LogHasOwner, SendersDoNotLog
<1>2. Head(work[s]) \in SenderCall
  BY <1>1
<1> QED
  BY <1>1, <1>2 DEF SenderCall, PutCall, SendCall

\* A step outside write_log: no thread enters or leaves it.
Quiet ==
  /\ UNCHANGED logVars
  /\ \A t \in Thread : pc[t] \in InLog \/ pc'[t] \in InLog => pc'[t] = pc[t] /\ work'[t] = work[t]

LEMMA QuietKeepsLog ==
  ASSUME LogInv, Quiet
  PROVE  LogInv'
<1>1. LogHasOwner'
  BY DEF LogInv, LogHasOwner, Quiet, logVars
<1>2. LineFits'
  BY DEF LogInv, LineFits, Quiet, logVars, InLog
<1>3. LogAccounts'
  <2>1. ASSUME NEW t \in Thread, pc'[t] \in InLog
        PROVE  pc'[t] = pc[t] /\ Arg(t)' = Arg(t)
    BY <2>1 DEF Quiet, Arg
  <2>2. ASSUME \A t \in Thread : pc'[t] \notin InLog
        PROVE  \A t \in Thread : pc[t] \notin InLog
    BY <2>2 DEF Quiet
  <2>3. UNCHANGED <<buffer, file, logged, faults>>
    BY DEF Quiet, logVars
  <2> QED
    BY <2>1, <2>2, <2>3 DEF LogInv, LogAccounts, ShortWrite, InLog
<1> QED
  BY <1>1, <1>2, <1>3 DEF LogInv

\* A thread of its own leaves all others where they are, and its calls alone.
LEMMA OneMoves ==
  ASSUME TypeOK, NEW t \in Thread, NEW label, Goto(t, label), UNCHANGED work
  PROVE  /\ pc'[t] = label
         /\ \A u \in Thread : u # t => pc'[u] = pc[u]
         /\ \A u \in Thread : Arg(u)' = Arg(u) /\ work'[u] = work[u]
BY DEF TypeOK, Goto, Arg

\* Taking, filling and letting go of the log.
LEMMA LockLogKeeps ==
  ASSUME TypeOK, LogInv, NEW t \in Thread, LockLog(t)
  PROVE  LogInv'
<1> DEFINE label == IF Len(buffer) + 1 > BufLines THEN "fwrite" ELSE "copy"
<1>1. /\ loglok = NoThread /\ loglok' = t /\ Goto(t, label)
      /\ work[t] # <<>> /\ Head(work[t]).op = "log"
      /\ UNCHANGED <<buffer, file, logged, faults, work>>
  BY DEF LockLog, Calls
<1>2. \A u \in Thread : pc[u] \notin InLog
  BY <1>1, Threads DEF LogInv, LogHasOwner
<1>3. ~ShortWrite => file \o buffer = logged
  BY <1>2 DEF LogInv, LogAccounts
<1>4. /\ pc'[t] = label /\ \A u \in Thread : u # t => pc'[u] \notin InLog
      /\ \A u \in Thread : work'[u] = work[u]
  BY <1>1, <1>2, OneMoves
<1>5. label \in {"fwrite", "copy"} /\ (label = "copy" => Len(buffer) < BufLines)
  BY ProcessAssumption DEF TypeOK
<1> HIDE DEF label
<1>6. LogHasOwner'
  BY <1>1, <1>4 DEF LogHasOwner
<1>7. LineFits'
  BY <1>1, <1>4, <1>5 DEF LineFits, InLog
<1>8. LogAccounts'
  BY <1>1, <1>3, <1>4, <1>5 DEF LogAccounts, ShortWrite, InLog
<1> QED
  BY <1>6, <1>7, <1>8 DEF LogInv

\* The others, while thread t is in write_log.
LEMMA OthersOutsideLog ==
  ASSUME LogHasOwner, NEW t \in Thread, pc[t] \in InLog
  PROVE  /\ loglok = t /\ work[t] # <<>> /\ Head(work[t]).op = "log"
         /\ \A u \in Thread : u # t => pc[u] \notin InLog
BY DEF LogHasOwner

\* fwrite takes the whole buffer but for a short write, which is remembered.
LEMMA FwriteEffect ==
  /\ FwriteTakes => /\ ShortWrite => ShortWrite'
                    /\ ~ShortWrite' => file' = file \o buffer
  /\ FwriteFails => UNCHANGED file /\ (ShortWrite => ShortWrite')
BY DEF FwriteTakes, FwriteFails, Fault, ShortWrite

LEMMA WriteToFileKeeps ==
  ASSUME TypeOK, LogInv, NEW t \in Thread, WriteToFile(t)
  PROVE  LogInv'
<1>1. /\ pc[t] = "fwrite" /\ UNCHANGED <<loglok, buffer, logged, work>>
      /\ ~ShortWrite' => \/ file' = file \o buffer /\ Goto(t, "reset")
                         \/ UNCHANGED file /\ Goto(t, "failed")
      /\ Goto(t, "reset") \/ Goto(t, "failed")
      /\ ShortWrite => ShortWrite'
  BY FwriteEffect DEF WriteToFile, At
<1>2. /\ loglok = t /\ work[t] # <<>> /\ Head(work[t]).op = "log"
      /\ \A u \in Thread : u # t => pc[u] \notin InLog
  BY <1>1, OthersOutsideLog DEF LogInv, InLog
<1>3. ~ShortWrite => file \o buffer = logged
  BY <1>1 DEF LogInv, LogAccounts
<1>4. /\ pc'[t] \in {"reset", "failed"} /\ \A u \in Thread : u # t => pc'[u] \notin InLog
      /\ \A u \in Thread : work'[u] = work[u]
      /\ ~ShortWrite' /\ pc'[t] = "reset" => file' = file \o buffer
      /\ ~ShortWrite' /\ pc'[t] = "failed" => file' = file
  BY <1>1, <1>2, OneMoves
<1>5. LogHasOwner'
  BY <1>1, <1>2, <1>4 DEF LogHasOwner
<1>6. LineFits'
  BY <1>4 DEF LineFits, InLog
<1>7. LogAccounts'
  BY <1>1, <1>3, <1>4 DEF LogAccounts, InLog
<1> QED
  BY <1>5, <1>6, <1>7 DEF LogInv

LEMMA ResetBufferKeeps ==
  ASSUME TypeOK, LogInv, NEW t \in Thread, ResetBuffer(t)
  PROVE  LogInv'
<1>1. /\ pc[t] = "reset" /\ UNCHANGED <<loglok, file, logged, faults, work>>
      /\ buffer' = <<>> /\ Goto(t, "copy")
  BY DEF ResetBuffer, At, Emptied
<1>2. /\ loglok = t /\ work[t] # <<>> /\ Head(work[t]).op = "log"
      /\ \A u \in Thread : u # t => pc[u] \notin InLog
  BY <1>1, OthersOutsideLog DEF LogInv, InLog
<1>3. (~ShortWrite => file' \o buffer' = logged') /\ Len(buffer') < BufLines
  <2>1. (~ShortWrite => file = logged) /\ file \in Seq(Line) /\ BufLines \in Nat \ {0}
    BY <1>1, ProcessAssumption DEF LogInv, LogAccounts, TypeOK
  <2>2. file \o <<>> = file
    BY <2>1, ConcatEmptySeq
  <2> QED
    BY <1>1, <2>1, <2>2
<1>4. /\ pc'[t] = "copy" /\ \A u \in Thread : u # t => pc'[u] \notin InLog
      /\ \A u \in Thread : work'[u] = work[u]
  BY <1>1, <1>2, OneMoves
<1>5. LogHasOwner'
  BY <1>1, <1>2, <1>4 DEF LogHasOwner
<1>6. LineFits'
  BY <1>3, <1>4 DEF LineFits, InLog
<1>7. LogAccounts'
  BY <1>1, <1>3, <1>4 DEF LogAccounts, ShortWrite, InLog
<1> QED
  BY <1>5, <1>6, <1>7 DEF LogInv

\* A line at the end of the buffer is a line at the end of file and buffer.
LEMMA AppendAssociative ==
  ASSUME NEW S, NEW a \in Seq(S), NEW b \in Seq(S), NEW x \in S
  PROVE  a \o Append(b, x) = Append(a \o b, x)
<1>1. <<x>> \in Seq(S) /\ a \o b \in Seq(S)
  OBVIOUS
<1>2. Append(b, x) = b \o <<x>>
  BY AppendIsConcat
<1>3. Append(a \o b, x) = (a \o b) \o <<x>>
  BY <1>1, AppendIsConcat
<1>4. (a \o b) \o <<x>> = a \o (b \o <<x>>)
  BY <1>1, ConcatAssociative
<1> QED
  BY <1>2, <1>3, <1>4

LEMMA CopyLineKeeps ==
  ASSUME TypeOK, LogInv, NEW t \in Thread, CopyLine(t)
  PROVE  LogInv'
<1>1. /\ pc[t] = "copy" /\ UNCHANGED <<loglok, file, logged, faults, work>>
      /\ buffer' = Append(buffer, Arg(t)) /\ Goto(t, "unlock_log")
  BY DEF CopyLine, At
<1>2. /\ loglok = t /\ work[t] # <<>> /\ Head(work[t]).op = "log"
      /\ \A u \in Thread : u # t => pc[u] \notin InLog
  BY <1>1, OthersOutsideLog DEF LogInv, InLog
<1>3. ~ShortWrite => file' \o buffer' = Append(logged, Arg(t))
  <2>1. ~ShortWrite => file \o buffer = logged
    BY <1>1 DEF LogInv, LogAccounts
  <2>2. file \in Seq(Line) /\ buffer \in Seq(Line) /\ Arg(t) \in Line
    BY <1>2, CurrentCall DEF TypeOK
  <2>3. file \o Append(buffer, Arg(t)) = Append(file \o buffer, Arg(t))
    BY <2>2, AppendAssociative
  <2> QED
    BY <1>1, <2>1, <2>3
<1>4. /\ pc'[t] = "unlock_log" /\ \A u \in Thread : u # t => pc'[u] \notin InLog
      /\ \A u \in Thread : Arg(u)' = Arg(u) /\ work'[u] = work[u]
  BY <1>1, <1>2, OneMoves
<1>5. LogHasOwner'
  BY <1>1, <1>2, <1>4 DEF LogHasOwner
<1>6. LineFits'
  BY <1>4 DEF LineFits, InLog
<1>7. LogAccounts'
  BY <1>1, <1>3, <1>4 DEF LogAccounts, ShortWrite, InLog
<1> QED
  BY <1>5, <1>6, <1>7 DEF LogInv

LEMMA UnlockLogKeeps ==
  ASSUME TypeOK, LogInv, NEW t \in Thread, UnlockLog(t)
  PROVE  LogInv'
<1>1. /\ pc[t] = "unlock_log" /\ UNCHANGED <<file, buffer, faults>>
      /\ logged' = Append(logged, Arg(t)) /\ Goto(t, "run")
  BY DEF UnlockLog, At
<1>2. \A u \in Thread : u # t => pc[u] \notin InLog
  BY <1>1, OthersOutsideLog DEF LogInv, InLog
<1>3. ~ShortWrite => file' \o buffer' = logged'
  BY <1>1 DEF LogInv, LogAccounts
<1>4. \A u \in Thread : pc'[u] \notin InLog
  BY <1>1, <1>2 DEF TypeOK, Goto, InLog
<1> QED
  BY <1>1, <1>3, <1>4 DEF LogInv, LogHasOwner, LineFits, LogAccounts, ShortWrite, InLog

\* The steps outside write_log and outside stop's use of the log.
LEMMA QuietSteps ==
  ASSUME TypeOK, LogHasOwner, SendersDoNotLog, ReceiverStarts, [Next]_vars
  PROVE  \/ Quiet
         \/ \E t \in Thread : \/ LockLog(t) \/ WriteToFile(t) \/ ResetBuffer(t)
                             \/ CopyLine(t) \/ UnlockLog(t)
         \/ LockForStop \/ TerminateReceiver \/ StopWrites
<1>1. /\ pc \in [Thread -> Labels] /\ work \in [Thread -> Seq(Call)]
      /\ \A s \in Sender : s \in Thread /\ pc[s] \notin InLog
      /\ Main \in Thread /\ Receiver \in Thread
  BY SendersOutsideLog, Threads DEF TypeOK
<1>2. ASSUME NEW t \in Thread, pc[t] \notin InLog,
             UNCHANGED logVars,
             \/ UNCHANGED pc
             \/ \E label \in Labels \ InLog : Goto(t, label),
             \/ UNCHANGED work
             \/ \E calls : Do(t, calls)
      PROVE  Quiet
  BY <1>1, <1>2 DEF Quiet, logVars, Goto, Do
<1>3. CASE InitReceiver
  <2>1. pc[Receiver] \notin InLog
    BY <1>3 DEF InitReceiver, ReceiverStarts, InLog
  <2> QED
    BY <1>1, <1>2, <1>3, <2>1 DEF InitReceiver, Labels, InLog
<1>4. CASE InitSenders
  <2>1. \A t \in Thread : pc[t] \in InLog \/ pc'[t] \in InLog => pc'[t] = pc[t]
    BY <1>1, <1>4 DEF InitSenders, InLog
  <2> QED
    BY <1>4, <2>1 DEF InitSenders, Quiet, logVars
<1>5. CASE Broadcast
  BY <1>1, <1>2, <1>5 DEF Broadcast, Free, At, InLog
<1>6. ASSUME NEW relay \in BOOLEAN, NEW deliver \in BOOLEAN, Receive(relay, deliver)
      PROVE  Quiet
  BY <1>1, <1>2, <1>6 DEF Receive, Free, At, InLog
<1>7. ASSUME NEW s \in Sender, GetTask(s) \/ SendTask(s) \/ CancelSender(s)
      PROVE  Quiet
  BY <1>1, <1>2, <1>7 DEF GetTask, SendTask, CancelSender, Labels, InLog
<1>8. ASSUME NEW t \in Thread, PutTask(t) \/ PutFails(t) \/ UnlockQueue(t)
      PROVE  Quiet
  BY <1>1, <1>2, <1>8 DEF PutTask, PutFails, UnlockQueue, Calls, At, Labels, InLog
<1>9. CASE UNCHANGED <<logVars, pc, work>>
  BY <1>9 DEF Quiet, logVars
<1> QED
  BY <1>3, <1>4, <1>5, <1>6, <1>7, <1>8, <1>9
  DEF Next, MainStep, Start, ReceiverStep, SenderStep, CallStep, ExitOnError, Signal, StopStep,
      NoSenders, StopExits, vars, threadVars

\* With nobody in write_log the file and the buffer account for all lines.
LEMMA NobodyLogs ==
  ASSUME \A t \in Thread : pc'[t] \notin InLog, ~ShortWrite' => file' \o buffer' = logged'
  PROVE  LogInv'
BY DEF LogInv, LogHasOwner, LineFits, LogAccounts, InLog

\* stop comes to the log when nobody is in write_log.
LEMMA NobodyLogsForStop ==
  ASSUME TypeOK, LogInv, SendersDoNotLog, StopQuiets,
         LockForStop \/ TerminateReceiver \/ StopWrites
  PROVE  /\ \A t \in Thread : pc[t] \notin InLog
         /\ ~ShortWrite => file \o buffer = logged
<1>1. CASE LockForStop
  BY <1>1, Threads DEF LockForStop, StopMayLock, LogInv, LogHasOwner, LogAccounts
<1>2. CASE TerminateReceiver
  BY <1>2, Threads DEF TerminateReceiver, Handling, StopQuiets, LogInv, LogHasOwner, LogAccounts
<1>3. CASE StopWrites
  <2>1. pc[Receiver] = "cancelled" /\ pc[Main] \notin InLog
    BY <1>3 DEF StopWrites, Handling, StopQuiets
  <2>2. \A t \in Thread : pc[t] \notin InLog
    BY <2>1, SendersOutsideLog DEF Thread, InLog, LogInv
  <2> QED
    BY <2>2 DEF LogInv, LogAccounts
<1> QED
  BY <1>1, <1>2, <1>3

\* The stop handler keeps the accounts.
LEMMA StopKeepsAccounts ==
  ASSUME TypeOK, LogInv, SendersDoNotLog, StopQuiets,
         LockForStop \/ TerminateReceiver \/ StopWrites
  PROVE  LogInv'
<1>1. /\ \A t \in Thread : pc[t] \notin InLog
      /\ ~ShortWrite => file \o buffer = logged
  BY NobodyLogsForStop
<1>2. \A t \in Thread : pc'[t] \notin InLog
  <2>1. "cancelled" \notin InLog
    BY DEF InLog
  <2> QED
    BY <1>1, <2>1 DEF LockForStop, TerminateReceiver, StopWrites, Goto, TypeOK, threadVars
<1>3. ~ShortWrite' => file' \o buffer' = logged'
  <2>1. (file \o buffer) \o <<>> = file \o buffer
    <3>1. file \o buffer \in Seq(Line)
      BY DEF TypeOK
    <3> QED
      BY <3>1, ConcatEmptySeq
  <2> QED
    BY <1>1, <2>1, FwriteEffect
    DEF LockForStop, TerminateReceiver, StopWrites, Emptied, ShortWrite
<1> QED
  BY <1>2, <1>3, NobodyLogs

\* Every step keeps the accounts.
LEMMA LogStep ==
  ASSUME TypeOK, LogInv, SendersDoNotLog, ReceiverStarts, StopQuiets, [Next]_vars
  PROVE  LogInv'
BY QuietSteps, QuietKeepsLog, LockLogKeeps, WriteToFileKeeps, ResetBufferKeeps, CopyLineKeeps,
   UnlockLogKeeps, StopKeepsAccounts DEF LogInv

-----------------------------------------------------------------------------
(* The stop handler.                                                       *)

\* A thread moves by itself: it is started and has not ended, and the main thread moves
\* only without the handler.
ThreadMoves ==
  \E t \in Thread, label \in Labels :
    /\ Goto(t, label)
    /\ pc[t] \notin {"none", "failed", "cancelled"}
    /\ t = Main => handler = "none"

\* Threads move by themselves, or are started or cancelled.
LEMMA Movers ==
  ASSUME [Next]_vars
  PROVE  \/ UNCHANGED pc
         \/ handler = "none" /\ Goto(Receiver, "run") /\ phase = "init_receiver"
         \/ InitSenders
         \/ ThreadMoves
         \/ \E s \in Sender : CancelSender(s)
         \/ TerminateReceiver
<1>1. ASSUME NEW s \in Sender, SenderStep(s)
      PROVE  UNCHANGED pc \/ ThreadMoves
  BY <1>1, Threads
  DEF SenderStep, GetTask, SendTask, Free, Calls, At, Labels, ThreadMoves
<1>2. ASSUME NEW t \in Thread, CallStep(t)
      PROVE  UNCHANGED pc \/ ThreadMoves
  BY <1>2
  DEF CallStep, PutTask, PutFails, UnlockQueue, LockLog, WriteToFile, ResetBuffer, CopyLine,
      UnlockLog, ExitOnError, Calls, At, Labels, threadVars, ThreadMoves
<1>3. InitReceiver => handler = "none" /\ Goto(Receiver, "run") /\ phase = "init_receiver"
  BY DEF InitReceiver, Free, At
<1>4. Start \/ Broadcast \/ ReceiverStep => UNCHANGED pc
  BY DEF Start, Broadcast, ReceiverStep, Receive
<1>5. Signal \/ NoSenders \/ LockForStop \/ StopWrites \/ StopExits \/ UNCHANGED vars =>
        UNCHANGED pc
  BY DEF Signal, NoSenders, LockForStop, StopWrites, StopExits, vars, threadVars
<1> QED
  BY <1>1, <1>2, <1>3, <1>4, <1>5 DEF Next, MainStep, StopStep

\* The receiver is started once.
LEMMA ReceiverStartsStep ==
  ASSUME TypeOK, ReceiverStarts, [Next]_vars
  PROVE  ReceiverStarts'
<1> SUFFICES ASSUME phase' = "init_receiver"
             PROVE  pc'[Receiver] \in {"none", "cancelled"}
  BY DEF ReceiverStarts
<1>1. UNCHANGED phase
  BY DEF Next, MainStep, InitReceiver, InitSenders, Start, Broadcast, ReceiverStep, Receive,
      SenderStep, GetTask, SendTask, CallStep, PutTask, PutFails, UnlockQueue, LockLog,
      WriteToFile, ResetBuffer, CopyLine, UnlockLog, ExitOnError, Signal, StopStep, NoSenders,
      CancelSender, LockForStop, TerminateReceiver, StopWrites, StopExits, vars, threadVars
<1>2. pc[Receiver] \in {"none", "cancelled"} /\ ~InitReceiver
  <2>1. InitReceiver => phase' = "init_senders"
    BY DEF InitReceiver
  <2> QED
    BY <1>1, <2>1 DEF ReceiverStarts
<1>3. ASSUME NEW t \in Thread, NEW label, Goto(t, label), t # Receiver \/ label = "cancelled"
      PROVE  pc'[Receiver] \in {"none", "cancelled"}
  BY <1>2, <1>3, Threads DEF Goto, TypeOK
<1>4. CASE InitSenders
  BY <1>1, <1>4 DEF InitSenders
<1>5. CASE UNCHANGED pc
  BY <1>2, <1>5
<1> QED
  BY <1>2, <1>3, <1>4, <1>5, Threads
  DEF Next, MainStep, Start, Broadcast, ReceiverStep, Receive, SenderStep, GetTask, SendTask,
      CallStep, PutTask, PutFails, UnlockQueue, LockLog, WriteToFile, ResetBuffer, CopyLine,
      UnlockLog, ExitOnError, Signal, StopStep, NoSenders, CancelSender, LockForStop,
      TerminateReceiver, StopWrites, StopExits, Free, Calls, At, vars, threadVars

\* Behind terminate_senders the senders have ended and the main thread stands still.
LEMMA StopStandsStill ==
  ASSUME TypeOK, handler # "none", [Next]_vars
  PROVE  /\ pc'[Main] = pc[Main]
         /\ \A t \in Thread : pc[t] \in {"failed", "cancelled"} =>
              pc'[t] \in {"failed", "cancelled"}
         /\ pc[Receiver] = "cancelled" => pc'[Receiver] = "cancelled"
<1>1. pc \in [Thread -> Labels]
  BY DEF TypeOK
<1>2. ~InitSenders
  BY DEF InitSenders, Free, At
<1> QED
  BY <1>1, <1>2, Movers, Threads DEF ThreadMoves, Goto, CancelSender, TerminateReceiver

\* terminate_receiver has the log from the moment it asks for it to its end.
LEMMA StopOwnsLog ==
  ASSUME TypeOK, LogHasOwner, StopQuiets, handler = "terminate_receiver", [Next]_vars
  PROVE  loglok' = Main \/ TerminateReceiver
<1>1. loglok = Main
  BY DEF StopQuiets
<1>2. ASSUME NEW t \in Thread, UnlockLog(t)
      PROVE  FALSE
  BY <1>1, <1>2 DEF UnlockLog, At, LogHasOwner, InLog
<1> QED
  BY <1>1, <1>2, Threads
  DEF Next, MainStep, InitReceiver, InitSenders, Start, Broadcast, ReceiverStep, Receive,
      SenderStep, GetTask, SendTask, CallStep, PutTask, PutFails, UnlockQueue, LockLog,
      WriteToFile, ResetBuffer, CopyLine, ExitOnError, Signal, StopStep, NoSenders,
      CancelSender, LockForStop, StopWrites, StopExits, Handling, vars, logVars

\* How the handler goes on.
LEMMA HandlerMoves ==
  ASSUME [Next]_vars
  PROVE  UNCHANGED handler \/ Signal \/ LockForStop \/ TerminateReceiver \/ StopWrites
BY DEF Next, MainStep, InitReceiver, InitSenders, Start, Broadcast, ReceiverStep, Receive,
      SenderStep, GetTask, SendTask, CallStep, PutTask, PutFails, UnlockQueue, LockLog,
      WriteToFile, ResetBuffer, CopyLine, UnlockLog, ExitOnError, StopStep, NoSenders,
      CancelSender, StopExits, vars

LEMMA StopQuietsStep ==
  ASSUME TypeOK, LogHasOwner, StopQuiets, [Next]_vars
  PROVE  StopQuiets'
<1>1. CASE Signal
  BY <1>1 DEF Signal, StopQuiets
<1>2. CASE LockForStop
  <2>1. handler' = "terminate_receiver" /\ loglok' = Main /\ UNCHANGED pc
        /\ \A s \in Sender : pc[s] \in {"failed", "cancelled"}
    BY <1>2 DEF LockForStop, threadVars
  <2>2. pc[Main] \notin InLog
    BY <1>2, Threads DEF LockForStop, StopMayLock, LogHasOwner
  <2> QED
    BY <2>1, <2>2 DEF StopQuiets
<1>3. CASE TerminateReceiver
  <2>1. handler = "terminate_receiver" /\ handler' = "write_to_file" /\ Goto(Receiver, "cancelled")
    BY <1>3 DEF TerminateReceiver, Handling
  <2>2. pc'[Receiver] = "cancelled"
    BY <2>1, Threads DEF Goto, TypeOK
  <2> QED
    BY <2>1, <2>2, StopStandsStill, Threads DEF StopQuiets
<1>4. CASE StopWrites
  <2>1. handler = "write_to_file" /\ handler' = "exit" /\ UNCHANGED pc
    BY <1>4 DEF StopWrites, Handling
  <2> QED
    BY <2>1 DEF StopQuiets
<1>5. CASE UNCHANGED handler /\ ~TerminateReceiver
  BY <1>5, StopStandsStill, StopOwnsLog, Threads DEF StopQuiets
<1> QED
  BY <1>1, <1>2, <1>3, <1>4, <1>5, HandlerMoves

\* Nobody writes to the log behind stop.
LEMMA StopFlushesStep ==
  ASSUME TypeOK, LogHasOwner, SendersDoNotLog, StopQuiets, StopFlushes, [Next]_vars
  PROVE  StopFlushes'
<1>1. outcome' = "stopped" => outcome = "stopped" \/ StopExits
  BY DEF Next, MainStep, InitReceiver, InitSenders, Start, Broadcast, ReceiverStep, Receive,
      SenderStep, GetTask, SendTask, CallStep, PutTask, PutFails, UnlockQueue, LockLog,
      WriteToFile, ResetBuffer, CopyLine, UnlockLog, ExitOnError, Signal, StopStep, NoSenders,
      CancelSender, LockForStop, TerminateReceiver, StopWrites, vars
<1>2. handler = "exit" => UNCHANGED handler
  BY HandlerMoves DEF Signal, LockForStop, TerminateReceiver, StopWrites, Handling
<1>3. outcome' = "stopped" => handler' = "exit"
  BY <1>1, <1>2 DEF StopFlushes, StopExits, Handling
<1>4. CASE StopWrites
  BY <1>3, <1>4 DEF StopWrites, FwriteTakes, FwriteFails, Fault, StopFlushes, Emptied
<1>5. ASSUME handler = "exit"
      PROVE  UNCHANGED <<buffer, faults>>
  <2>1. pc[Receiver] = "cancelled" /\ pc[Main] \notin InLog
    BY <1>5 DEF StopQuiets
  <2>2. \A t \in Thread : pc[t] \notin InLog
    BY <2>1, SendersOutsideLog DEF Thread, InLog
  <2>3. ASSUME NEW t \in Thread, WriteToFile(t) \/ ResetBuffer(t) \/ CopyLine(t)
        PROVE  FALSE
    BY <2>2, <2>3 DEF WriteToFile, ResetBuffer, CopyLine, At, InLog
  <2>4. ~StopWrites
    BY <1>5 DEF StopWrites, Handling
  <2> QED
    BY <2>3, <2>4
    DEF Next, MainStep, InitReceiver, InitSenders, Start, Broadcast, ReceiverStep, Receive,
      SenderStep, GetTask, SendTask, CallStep, PutTask, PutFails, UnlockQueue, LockLog,
      UnlockLog, ExitOnError, Signal, StopStep, NoSenders, CancelSender, LockForStop,
      TerminateReceiver, StopExits, vars, logVars
<1>6. handler' = "exit" => handler = "exit" \/ StopWrites
  BY HandlerMoves DEF Signal, LockForStop, TerminateReceiver
<1> QED
  BY <1>3, <1>4, <1>5, <1>6 DEF StopFlushes

-----------------------------------------------------------------------------
(* The theorems.                                                           *)

\* The process before init_receiver.
LEMMA IInvInit == Init => IInv
<1> SUFFICES ASSUME Init
             PROVE  IInv
  OBVIOUS
<1>1. QueueTypeOK /\ Contents = <<>>
  BY QueueInitOK DEF Init
<1>2. TypeOK
  <2>1. /\ <<>> \in Seq(Line) /\ <<>> \in Seq(Call) /\ Len(<<>>) <= BufLines
    BY ProcessAssumption
  <2>2. count \in [{"broadcast", "received", "requeued", "errors"} -> Nat]
    BY DEF Init
  <2>3. pc \in [Thread -> Labels] /\ work \in [Thread -> Seq(Call)]
    BY <2>1 DEF Init, Labels
  <2> QED
    BY <1>1, <2>1, <2>2, <2>3 DEF Init, TypeOK
<1>3. \A t \in Thread : pc[t] \in {"run", "none"} /\ work[t] = <<>>
  BY DEF Init
<1>4. LogHasOwner /\ LineFits /\ LogAccounts
  <2>1. <<>> \o <<>> = <<>>
    BY ConcatEmptySeq
  <2> QED
    BY <1>3, <2>1 DEF Init, LogHasOwner, LineFits, LogAccounts, InLog
<1>5. SendersDoNotLog /\ ReceiverStarts
  BY <1>3, Threads DEF Init, SendersDoNotLog, ReceiverStarts
<1>6. StopQuiets /\ StopFlushes
  BY DEF Init, StopQuiets, StopFlushes
<1> QED
  BY <1>1, <1>2, <1>4, <1>5, <1>6 DEF IInv, QueueOK

\* The invariant is inductive.
LEMMA ProcessInvariance == Spec => []IInv
<1>1. IInv /\ [Next]_vars => IInv'
  BY TypeStep, QueueSteps, QueueStep, SendersStep, LogStep, ReceiverStartsStep, StopQuietsStep,
     StopFlushesStep DEF IInv, LogInv
<1> QED
  BY IInvInit, <1>1, PTL DEF Spec

\* Threads, queue and log keep their types, and the buffer never holds more than fits it.
THEOREM ProcessTypeCorrect == Spec => []TypeOK
<1>1. IInv => TypeOK
  BY DEF IInv
<1> QED
  BY ProcessInvariance, <1>1, PTL

\* Whoever takes loglok, the stop handler included, finds all lines in file and buffer,
\* unless fwrite has taken a part of a buffer.
THEOREM LogKeptCorrect == Spec => []LogKept
<1>1. IInv => LogKept
  BY Threads DEF IInv, LogHasOwner, LogAccounts, LogKept
<1> QED
  BY ProcessInvariance, <1>1, PTL

\* A process that stop has ended has all its lines in the file, or fwrite has gone wrong.
THEOREM StopKeepsLogCorrect == Spec => []StopKeepsLog
<1>1. IInv => StopKeepsLog
  <2> SUFFICES ASSUME IInv, outcome = "stopped", faults = {}
               PROVE  file = logged
    BY DEF StopKeepsLog
  <2>1. handler = "exit" /\ buffer = <<>>
    BY DEF IInv, StopFlushes
  <2>2. \A t \in Thread : pc[t] \notin InLog
    BY <2>1, SendersOutsideLog DEF IInv, StopQuiets, Thread, InLog
  <2>3. file \o <<>> = file
    BY ConcatEmptySeq DEF IInv, TypeOK
  <2> QED
    BY <2>1, <2>2, <2>3 DEF IInv, LogAccounts, ShortWrite
<1> QED
  BY ProcessInvariance, <1>1, PTL

\* The threads use the ring buffer as a queue: every task is put whole, at the end, and
\* taken from the front, while threads fail and are cancelled.
THEOREM ProcessImplementsFifo == Spec => FifoSpec
<1>1. Init => QueueInit
  BY DEF Init
<1>2. IInv /\ [Next]_vars => [QueueNext]_queueVars
  BY QueueSteps DEF IInv
<1>3. Spec => QueueSpec
  BY ProcessInvariance, <1>1, <1>2, PTL DEF Spec, QueueSpec
<1> QED
  BY <1>3, QueueImplementsFifo
=============================================================================
