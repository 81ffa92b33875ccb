------------------------------ MODULE Process -------------------------------
(***************************************************************************)
(* One process: its main thread, receiver thread and sender threads share  *)
(* the task queue (src/mqueue.c, module TaskQueue) and the log             *)
(* (src/log.c), each behind a mutex, while errors end threads and a signal *)
(* stops the process (stop of src/da_proc.c).                              *)
(*                                                                         *)
(* A thread works through a list of calls: "log" of a line (write_log),    *)
(* "put" of a task (enqueue), "send" of a task (send_pl).  A signal to the *)
(* process is handled on the main thread, which does not go on.  Threads   *)
(* are cancelled asynchronously, wherever they are.  What a thread does to *)
(* the queue while it owns the mutex is one step with taking it.           *)
(***************************************************************************)
EXTENDS TaskQueue

CONSTANTS Sender,        \* the sender threads
          Main, Receiver,
          NoThread,      \* the owner of a mutex that is free
          NumMsg,        \* num_msg
          NumProc,       \* num_proc: tasks for one message
          BufLines,      \* lines that fit MSG_BUF_MAX_SIZE
          MaxReceived,   \* bound: messages the receiver thread reacts to
          MaxRequeues,   \* bound: tasks put back
          MaxErrors      \* bound: calls of fwrite and calloc that go wrong

Thread == {Main, Receiver} \cup Sender

\* A line and a task say whose message they are about; a task also for whom it is.
Line == {Main, Receiver} \X (1 .. NumMsg + MaxReceived)

ASSUME ProcessAssumption ==
  /\ Main # Receiver /\ Main \notin Sender /\ Receiver \notin Sender
  /\ NoThread \notin Thread
  /\ NumMsg \in Nat /\ NumProc \in Nat
  /\ BufLines \in Nat \ {0}
  /\ MaxReceived \in Nat /\ MaxRequeues \in Nat /\ MaxErrors \in Nat
  /\ \A line \in Line, d \in 1 .. NumProc : <<line, d>> \in Task

VARIABLES
  queue_mutex,    \* task_q->queue_mutex: the thread that owns it
  loglok,         \* logdata->loglok: the thread that owns it
  buffer,         \* logdata->buffer: lines
  file,           \* lines that fwrite has taken whole
  pc,             \* pc[t]: where thread t is
  work,           \* work[t]: the calls thread t has to make, the current one first
  phase,          \* how far init_data and main are
  count,          \* messages broadcast and received, tasks put back, errors
  handler,        \* where stop is
  outcome,        \* "running", or how the process ended
  logged,         \* history: lines whose write_log has returned, in that order
  faults          \* history: how fwrite has gone wrong

logVars == <<loglok, buffer, file, logged, faults>>
threadVars == <<pc, work, phase, count>>
vars == <<queueVars, queue_mutex, logVars, threadVars, handler, outcome>>

LogCall(line) == [op |-> "log", arg |-> line]
PutCall(task) == [op |-> "put", arg |-> task]
SendCall(task) == [op |-> "send", arg |-> task]

\* send_beb: one task for each process.
Puts(line) == [d \in 1 .. NumProc |-> PutCall(<<line, d>>)]

\* Thread t is at a label and can go on: the main thread does not while it handles
\* the signal.
At(t, label) ==
  /\ outcome = "running"
  /\ pc[t] = label
  /\ t = Main => handler = "none"

Free(t) == At(t, "run") /\ work[t] = <<>>
Calls(t, op) == At(t, "run") /\ work[t] # <<>> /\ Head(work[t]).op = op
Arg(t) == Head(work[t]).arg

Goto(t, label) == pc' = [pc EXCEPT ![t] = label]
Do(t, calls) == work' = [work EXCEPT ![t] = calls]
Count(what) == count' = [count EXCEPT ![what] = @ + 1]

-----------------------------------------------------------------------------
Init ==
  /\ QueueInit
  /\ queue_mutex = NoThread
  /\ loglok = NoThread
  /\ buffer = <<>>
  /\ file = <<>>
  /\ pc = [t \in Thread |-> IF t = Main THEN "run" ELSE "none"]
  /\ work = [t \in Thread |-> <<>>]
  /\ phase = "init_receiver"
  /\ count = [broadcast |-> 0, received |-> 0, requeued |-> 0, errors |-> 0]
  /\ handler = "none"
  /\ outcome = "running"
  /\ logged = <<>>
  /\ faults = {}

\* init_data: init_receiver creates the receiver thread, init_senders the array of senders
\* and the threads.  That is one step: a signal in between makes terminate_senders cancel
\* threads that are not there, and the process crashes as it does without the array.
InitReceiver ==
  /\ Free(Main)
  /\ phase = "init_receiver"
  /\ phase' = "init_senders"
  /\ Goto(Receiver, "run")
  /\ UNCHANGED <<queueVars, queue_mutex, logVars, work, count, handler, outcome>>

InitSenders ==
  /\ Free(Main)
  /\ phase = "init_senders"
  /\ phase' = "wait_for_start"
  /\ pc' = [t \in Thread |-> IF t \in Sender THEN "run" ELSE pc[t]]
  /\ UNCHANGED <<queueVars, queue_mutex, logVars, work, count, handler, outcome>>

\* SIGUSR2
Start ==
  /\ Free(Main)
  /\ phase = "wait_for_start"
  /\ phase' = "broadcast"
  /\ UNCHANGED <<queueVars, queue_mutex, logVars, pc, work, count, handler, outcome>>

\* send_urb of the next message: the line b, then a task for each process.
Broadcast ==
  LET line == <<Main, count.broadcast + 1>> IN
  /\ Free(Main)
  /\ phase = "broadcast"
  /\ count.broadcast < NumMsg
  /\ Count("broadcast")
  /\ Do(Main, <<LogCall(line)>> \o Puts(line))
  /\ UNCHANGED <<queueVars, queue_mutex, logVars, pc, phase, handler, outcome>>

\* deliver_urb of a packet of some message: relay it if it is new, deliver it if it
\* may be delivered.
Receive(relay, deliver) ==
  LET line == <<Receiver, count.received + 1>> IN
  /\ Free(Receiver)
  /\ relay \/ deliver
  /\ count.received < MaxReceived
  /\ Count("received")
  /\ Do(Receiver, (IF relay THEN Puts(line) ELSE <<>>)
                  \o (IF deliver THEN <<LogCall(line)>> ELSE <<>>))
  /\ UNCHANGED <<queueVars, queue_mutex, logVars, pc, phase, handler, outcome>>

-----------------------------------------------------------------------------
(* The task queue, behind queue_mutex.                                     *)

\* sender_f: dequeue.  From an empty queue the thread comes away without a task.
GetTask(s) ==
  /\ Free(s)
  /\ queue_mutex = NoThread
  /\ queue_mutex' = s
  /\ \/ ~Empty /\ Dequeue /\ Do(s, <<SendCall(First)>>)
     \/ Empty /\ UNCHANGED <<queueVars, work>>
  /\ Goto(s, "unlock_queue")
  /\ UNCHANGED <<logVars, phase, count, handler, outcome>>

PutTask(t) ==
  /\ Calls(t, "put")
  /\ queue_mutex = NoThread
  /\ queue_mutex' = t
  /\ Enqueue(Arg(t))
  /\ Do(t, Tail(work[t]))
  /\ Goto(t, "unlock_queue")
  /\ UNCHANGED <<logVars, phase, count, handler, outcome>>

\* enqueue: calloc fails in realloc_queue; the mutex stays locked.
PutFails(t) ==
  /\ Calls(t, "put")
  /\ queue_mutex = NoThread
  /\ Full
  /\ count.errors < MaxErrors
  /\ queue_mutex' = t
  /\ Count("errors")
  /\ Goto(t, "failed")
  /\ UNCHANGED <<queueVars, logVars, work, phase, handler, outcome>>

UnlockQueue(t) ==
  /\ At(t, "unlock_queue")
  /\ queue_mutex' = NoThread
  /\ Goto(t, "run")
  /\ UNCHANGED <<queueVars, logVars, work, phase, count, handler, outcome>>

\* send_pl: the task is done, or put back; or the thread exits.
SendTask(s) ==
  /\ Calls(s, "send")
  /\ \/ /\ Do(s, <<>>)
        /\ UNCHANGED <<pc, count>>
     \/ /\ count.requeued < MaxRequeues
        /\ Count("requeued")
        /\ Do(s, <<PutCall(Arg(s))>>)
        /\ UNCHANGED pc
     \/ /\ count.errors < MaxErrors
        /\ Count("errors")
        /\ Goto(s, "failed")
        /\ UNCHANGED work
  /\ UNCHANGED <<queueVars, queue_mutex, logVars, phase, handler, outcome>>

-----------------------------------------------------------------------------
(* The log, behind loglok.                                                 *)

\* write_log: the lock, and the test whether the line still fits.
LockLog(t) ==
  /\ Calls(t, "log")
  /\ loglok = NoThread
  /\ loglok' = t
  /\ Goto(t, IF Len(buffer) + 1 > BufLines THEN "fwrite" ELSE "copy")
  /\ UNCHANGED <<queueVars, queue_mutex, buffer, file, logged, faults, work, phase, count,
                 handler, outcome>>

\* fwrite in write_to_file takes the buffer, a part of it, or nothing.  The result is
\* compared with 0 only, so that a part passes for the whole; a line that is cut is one the
\* file does not have.
Fault(kind) ==
  /\ count.errors < MaxErrors
  /\ Count("errors")
  /\ faults' = faults \cup {kind}

FwriteTakes ==
  \/ /\ file' = file \o buffer
     /\ UNCHANGED <<faults, count>>
  \/ /\ Fault("short")
     /\ \E k \in 0 .. Len(buffer) - 1 : file' = file \o SubSeq(buffer, 1, k)

FwriteFails ==
  /\ Fault("failed")
  /\ UNCHANGED file

\* write_to_file, from write_log, which returns with the mutex locked if fwrite fails.
WriteToFile(t) ==
  /\ At(t, "fwrite")
  /\ \/ FwriteTakes /\ Goto(t, "reset")
     \/ FwriteFails /\ Goto(t, "failed")
  /\ UNCHANGED <<queueVars, queue_mutex, loglok, buffer, logged, work, phase, handler, outcome>>

\* write_to_file: the buffer is empty again.
NotEmptied == buffer                                                  \* Mutant
Emptied == <<>>

ResetBuffer(t) ==
  /\ At(t, "reset")
  /\ buffer' = Emptied
  /\ Goto(t, "copy")
  /\ UNCHANGED <<queueVars, queue_mutex, loglok, file, logged, faults, work, phase, count,
                 handler, outcome>>

CopyLine(t) ==
  /\ At(t, "copy")
  /\ buffer' = Append(buffer, Arg(t))
  /\ Goto(t, "unlock_log")
  /\ UNCHANGED <<queueVars, queue_mutex, loglok, file, logged, faults, work, phase, count,
                 handler, outcome>>

\* write_log lets the log go and returns.
AfterLogKept == loglok                                                \* Mutant
AfterLog == NoThread

UnlockLog(t) ==
  /\ At(t, "unlock_log")
  /\ loglok' = AfterLog
  /\ logged' = Append(logged, Arg(t))
  /\ Do(t, Tail(work[t]))
  /\ Goto(t, "run")
  /\ UNCHANGED <<queueVars, queue_mutex, buffer, file, faults, phase, count, handler, outcome>>

-----------------------------------------------------------------------------
(* The end of the process.                                                 *)

\* An error of the main thread leaves main, one of the receiver calls exit; neither
\* writes the buffer.  A sender thread exits alone.
ExitOnError(t) ==
  /\ t \in {Main, Receiver}
  /\ At(t, "failed")
  /\ outcome' = "exited"
  /\ UNCHANGED <<queueVars, queue_mutex, logVars, threadVars, handler>>

\* SIGTERM or SIGINT: stop runs, once, in the place of the main thread.
Signal ==
  /\ outcome = "running"
  /\ handler = "none"
  /\ handler' = "terminate_senders"
  /\ UNCHANGED <<queueVars, queue_mutex, logVars, threadVars, outcome>>

Handling(label) == outcome = "running" /\ handler = label

\* terminate_senders: the threads are cancelled where they are, one by one.  Before
\* init_senders there is no array of threads to read.
HaveSenders == phase \in {"wait_for_start", "broadcast"}

NoSenders ==
  /\ Handling("terminate_senders")
  /\ ~HaveSenders
  /\ outcome' = "crashed"
  /\ UNCHANGED <<queueVars, queue_mutex, logVars, threadVars, handler>>

CancelSender(s) ==
  /\ Handling("terminate_senders")
  /\ HaveSenders
  /\ pc[s] \notin {"failed", "cancelled"}
  /\ Goto(s, "cancelled")
  /\ UNCHANGED <<queueVars, queue_mutex, logVars, work, phase, count, handler, outcome>>

\* terminate_senders has joined the threads; terminate_receiver waits for the log, so
\* that the receiver is not cancelled in write_log.
StopMayLockAlways == TRUE                                             \* Mutant
StopMayLock == loglok = NoThread

LockForStop ==
  /\ Handling("terminate_senders")
  /\ HaveSenders
  /\ \A s \in Sender : pc[s] \in {"failed", "cancelled"}
  /\ StopMayLock
  /\ loglok' = Main
  /\ handler' = "terminate_receiver"
  /\ UNCHANGED <<queueVars, queue_mutex, buffer, file, logged, faults, threadVars, outcome>>

\* terminate_receiver: cancel and join the receiver, let the log go.
TerminateReceiver ==
  /\ Handling("terminate_receiver")
  /\ Goto(Receiver, "cancelled")
  /\ loglok' = NoThread
  /\ handler' = "write_to_file"
  /\ UNCHANGED <<queueVars, queue_mutex, buffer, file, logged, faults, work, phase, count, outcome>>

\* write_to_file, from stop, which does not look at the result.
StopWrites ==
  /\ Handling("write_to_file")
  /\ handler' = "exit"
  /\ \/ FwriteTakes /\ buffer' = Emptied
     \/ FwriteFails /\ UNCHANGED buffer
  /\ UNCHANGED <<queueVars, queue_mutex, loglok, logged, pc, work, phase, outcome>>

\* free_data, exit
StopExits ==
  /\ Handling("exit")
  /\ outcome' = "stopped"
  /\ UNCHANGED <<queueVars, queue_mutex, logVars, threadVars, handler>>

-----------------------------------------------------------------------------
MainStep == InitReceiver \/ InitSenders \/ Start \/ Broadcast

ReceiverStep == \E relay, deliver \in BOOLEAN : Receive(relay, deliver)

SenderStep(s) == GetTask(s) \/ SendTask(s)

\* What the main and the receiver thread share with the others.
CallStep(t) ==
  \/ PutTask(t) \/ PutFails(t) \/ UnlockQueue(t)
  \/ LockLog(t) \/ WriteToFile(t) \/ ResetBuffer(t) \/ CopyLine(t) \/ UnlockLog(t)
  \/ ExitOnError(t)

StopStep ==
  \/ NoSenders
  \/ \E s \in Sender : CancelSender(s)
  \/ LockForStop \/ TerminateReceiver \/ StopWrites \/ StopExits

Next ==
  \/ MainStep
  \/ ReceiverStep
  \/ \E s \in Sender : SenderStep(s)
  \/ \E t \in Thread : CallStep(t)
  \/ Signal
  \/ StopStep

Spec == Init /\ [][Next]_vars

\* The operating system runs every thread that can go on.
FairSpec ==
  /\ Spec
  /\ \A t \in Thread : WF_vars(CallStep(t))
  /\ WF_vars(StopStep)

-----------------------------------------------------------------------------
Labels == {"none", "run", "unlock_queue", "fwrite", "reset", "copy", "unlock_log", "failed",
           "cancelled"}

Call == {LogCall(line) : line \in Line}
        \cup {PutCall(task) : task \in Task} \cup {SendCall(task) : task \in Task}

\* The variables have their types: the queue is never handed a cleared slot.
TypeOK ==
  /\ QueueTypeOK
  /\ queue_mutex \in Thread \cup {NoThread}
  /\ loglok \in Thread \cup {NoThread}
  /\ buffer \in Seq(Line) /\ Len(buffer) <= BufLines
  /\ file \in Seq(Line) /\ logged \in Seq(Line)
  /\ pc \in [Thread -> Labels]
  /\ work \in [Thread -> Seq(Call)]
  /\ phase \in {"init_receiver", "init_senders", "wait_for_start", "broadcast"}
  /\ count \in [{"broadcast", "received", "requeued", "errors"} -> Nat]
  /\ handler \in {"none", "terminate_senders", "terminate_receiver", "write_to_file", "exit"}
  /\ outcome \in {"running", "crashed", "exited", "stopped"}
  /\ faults \subseteq {"failed", "short"}

\* fwrite has taken a part of a buffer.
ShortWrite == "short" \in faults

\* Whoever gets the log finds every line that was logged, once and in order, in the
\* file and the buffer: write_log empties the buffer behind fwrite.  A short write loses
\* lines, as log.c:51 takes it for a whole one.
LogKept == loglok = NoThread /\ ~ShortWrite => file \o buffer = logged

\* da_proc.c:166, "write/flush output file if necessary": when stop has come to its
\* end, all that any thread has logged is in the file, if fwrite has not gone wrong.
StopKeepsLog == outcome = "stopped" /\ faults = {} => file = logged

\* da_proc.c:162 and 172, "immediately stop network packet processing" and "exit
\* directly from signal handler": a signal ends the process.
SignalEndsProcess == (handler # "none") ~> (outcome # "running")

\* It does when it does not find the main thread in write_log: the receiver lets the
\* log go, and no cancelled thread is waited for.
SignalEndsProcessUnlessLogging ==
  (handler = "terminate_senders" /\ loglok # Main) ~> (outcome # "running")
=============================================================================
