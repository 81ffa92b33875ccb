# Distributed_process: a TLA+ verification

`Distributed_process` is a C program (`da_proc`) that runs in a group of N
processes over UDP. Every process broadcasts `m` numbered messages with localized
causal broadcast and writes a log of what it broadcast (`b seq`) and what it
delivered (`d pid seq`). This directory holds TLA+ models of the program, the TLC
configurations that check them and proofs for TLAPS. Paths are relative to the
root of the repository; the C files are in its own `src/` directory.

## 1. Inventory

### Threads of a process

| thread | code | runs |
|---|---|---|
| main | `da_proc.c` `main` | `init_data`, waits for SIGUSR2, then `send_lcb` → `send_urb` → `send_beb` → `enqueue`; the handlers of SIGUSR2, SIGTERM, SIGINT |
| 10 senders | `sender.c` `sender_f` | `dequeue` → `send_pl` → `send_fl` → `sendto`; `enqueue` when a task is put back |
| receiver | `receiver.c` `receiver_f` | `recvfrom` → `deliver_fl` → `deliver_pl` → `deliver_beb` → `deliver_urb` → `deliver_lcb` → `find_pending`, `write_log` |

Upcalls are plain function calls on the receiver thread. A relay by `deliver_urb` goes
down only as far as the task queue. An acknowledgement of the perfect link is sent
from the receiver thread directly.

### Components

| component | state | operations | shared between | lock |
|---|---|---|---|---|
| `layerzero`, `flink` | sockets | `send_message`, `receive_msg`, `serialize`, `deserialize` | one socket per sender, one for the receiver | – |
| `plink` | `pl_acks`, `pl_delivered` (`uid_table_t`) | `send_pl`, `deliver_pl`, `table_read_entry`, `table_write_entry` (grows) | `pl_acks`: senders and receiver | `table_mutex` |
| `sender` | sender threads | `sender_f`, `init_senders`, `terminate_senders` | – | – |
| `mqueue` | ring buffer `task_q` (grows) | `enqueue`, `dequeue`, `realloc_queue` | everybody | `queue_mutex` |
| `beb` | – | `send_beb`, `deliver_beb` | – | – |
| `urb` | `urb_table` (seen, delivered), `urbacks` | `send_urb`, `deliver_urb`, `can_deliver`, `realloc_table` | main and receiver | none |
| `lcb`, `pending` | `vector_clock`, `lcb_pending` | `send_lcb`, `deliver_lcb`, `test_vec_clock`, `update_vec_clock`, `find_pending` | clock: main and receiver | `vec_clock.mutex` |
| `log` | buffer, file | `write_log`, `write_to_file`, `log_deliver` | main, receiver, stop handler | `loglok` |
| `da_proc`, `receiver` | `wait_for_start` | `init_data`, `start`, `stop`, `terminate_receiver` | handler and everybody | – |
| `parser`, `dependencies`, `addrbook` | address book, dependency lists | `parse_membership_args`, `add_entry`, `set_dependencies`, `get_dependencies` | read-only after `init_data` | – |
| `fifo`, `causal` | – | not in the Makefile | – | – |

### What makes each part correct, and what makes that hard

* **Perfect link.** A packet is handed up exactly once at a running destination,
  although datagrams are lost, repeated and reordered. Hard: the acknowledgement
  leaves before the packet is marked; a lost acknowledgement must be repeated; a
  task moves between the queue and ten threads and must neither be lost nor
  doubled; tasks for dead processes circulate for ever and must not starve the
  others; link ids are computed from the message and two process numbers.
* **URB.** If any process, alive or since dead, delivers a message, then every
  running process does (majority of correct processes). Hard: processes stop
  between relay and delivery; acknowledgements arrive in any order.
* **LCB.** The log of each process respects the dependencies of the sender of each
  message. Hard: main and receiver thread share the clock; a delivery makes
  pending messages deliverable; `find_pending` loses its place in its list.
* **Tables, queue.** They behave like a map and a FIFO queue while they grow under
  their users. Hard: `realloc` moves a table that another thread reads, and leaves
  its new part uninitialised; `memset` and `realloc` are given numbers of entries
  where they take bytes; a limit on ids must end the process before memory does.
* **Membership.** A file gives the addresses and dependency lists that it says. Hard:
  `fgets` cuts lines; lines come in any order and may be missing or repeated; arrays
  are indexed with numbers from the file.
* **Log, life cycle.** No line is lost when the process is stopped; the stop handler
  ends.

`PROJECT.json` lists the hazards line by line with the properties that would notice.

## 2. The modules

```
ReliableBroadcast   <- refined by -  Urb  ------------ UrbProofs           MCUrb
ReliableLink        <- refined by -  PerfectLink  ---- PerfectLinkProofs   MCPerfectLink
CausalBroadcast     <- refined by -  Lcb  ------------ LcbProofs           MCLcb
  `-- CausalBroadcastProofs, instantiated by LcbProofs
FifoQueue           <- refined by -  TaskQueue  ------ TaskQueueProofs
                                       ^ extended by
                                     Process  -------- ProcessProofs       MCProcess
                                     Tables  --------- TablesProofs        MCTables
                                     Membership  ----- MembershipProofs    MCMembership
```

The layers are modelled one at a time, each over what the layer below promises:
`Urb` receives packets from links that hand over each packet at most once
(`ReliableLink`), `PerfectLink` is used by a layer that asks for each packet at most
once (`RelayedIffSeen`, checked and proved for `Urb`), and `Lcb` sits on a layer that
hands over a broadcast message at most once per process, in any order
(`ReliableBroadcast`); what it promises itself, to the user of the program, is
`CausalBroadcast`. `Process` looks at one process from the other side: what its
threads do to the memory they share, whatever the messages mean. `Tables` does the same
for the tables which `Urb` and `PerfectLink` take for sets, and `Membership` models where
the constant `Deps` of `Lcb` comes from (`WellFormedLists` proves what `LcbAssumption` says
of it).

### Urb (src/urb.c, src/beb.c)

| model | code |
|---|---|
| `nextSeq[p]` | `i` in the loop of `send_lcb` |
| `seen`, `delivered` | the flags of `urb_table` |
| `urbacks[p][m]` | the row of `seen_id` in the `urbacks` table |
| `rcv[p]` | `deliver_urb` between its relay and its delivery |
| `lcbCalls` | calls of `deliver_lcb`, counted |
| `sent`, `got` | packets given to, and handed over by, the link |
| `SendUrb` | `send_urb` |
| `ReceiveUrb` | `deliver_urb`, lines 157–192 |
| `TryDeliver` | `deliver_urb`, lines 193–210 |
| `Stop` | a signal, or `exit` after an error |

`send_urb` is one step, because no thread of any process touches the entries of its
message before `send_beb` has queued the first task. `deliver_urb` is cut in two, so
that a process can stop with the message relayed and not delivered. A stop in the
middle of `send_beb` is covered too: the fairness promises nothing about packets of a
process that has stopped, so any part of them may arrive. The module assumes that no
table grows (`UrbAssumption`): `NumMsg[p] <= TableMsgs`, where the code's
`ORIG_TABLE_SIZE` is 150. An id may still be beyond `MAX_SIZE`, which `table_write_entry`
refuses (`plink.c:53`): with eight processes or more the first block is longer than that. The
process then exits before it has queued a task of the message. In the model the step is
not enabled (`InLimit`) and `Stop` takes its place, in `PerfectLink` as well. So the
safety properties hold of such processes too; what they promise under the premise that fewer than
half of the processes stop, and the liveness properties, say nothing once more have exited for
this reason.

### PerfectLink (src/plink.c, src/sender.c, src/flink.c, src/layerzero.c)

| model | code |
|---|---|
| `asked` | packets `send_beb` has been asked to send |
| `task_q` | the task queue, as a sequence |
| `sender[p][t]` | a sender thread: `idle` (`sender_f`), `check` (`is_ack`), `send` (`send_fl`), `requeue` (`enqueue`), exited |
| `pl_acks`, `pl_delivered` | the two tables, as sets of ids |
| `receiver[p]` | `deliver_pl` between its acknowledgement and `is_delivered` |
| `net` | datagrams in flight |
| `upcalls` | calls of `deliver_beb`, counted |
| `dropped` | tasks that went with their thread |
| `Enqueue`, `Dequeue`, `CheckAck`, `Requeue`, `SendFl`, `SendError`, `ReceiveAck`, `ReceiveData`, `DeliverPl`, `Stop` | `send_beb`, `dequeue`, `is_ack`, `enqueue`, `send_fl`, the error returns, the two halves and the two branches of `deliver_pl`, signals |

A datagram may be lost when it is sent (`kept`), duplicated when it is taken
(`copy`), and is taken in any order. Ids are pairs, `Mid` and `AckId`, where the code has the
numbers `seen_id * num_proc + pid - 1`; `IdsDiffer` (`LinkId` in `Urb`) says that the
numbers tell messages and processes apart and are inside the tables.

### Lcb (src/lcb.c, src/pending.c, the order of lines of src/log.c)

| model | code |
|---|---|
| `vector_clock` | `data->vector_clock` |
| `lcb_pending[p][q]` | the list `lists[q-1]`, head first |
| `outgoing[p]` | `send_lcb` between `get_vec_clock_copy` and `send_urb` |
| `receiver[p]` | where the receiver thread is: `log` (counted, not yet logged), `find` (head of a list in `find_pending`), `findlog`, `remove`, `freed` (pointer on a freed node), `hung` |
| `log[p]` | the lines that `write_log` has taken |
| `CopyClock`, `SendUrb` | `send_lcb` and `send_urb` on the main thread |
| `DeliverLcb`, `LogDeliver` | `deliver_lcb` |
| `FindNext`, `FindHead`, `FindLog`, `RemoveNext`, `ReadFreed` | `find_pending` |

Each action holds at most one lock of the code, so that the two threads interleave
wherever the code lets them. After `find_pending` has delivered a head, it moves its
pointer and removes the node it then points to. If there is none, the process
exits (`ERROR_POINTER`). Otherwise it goes on reading the freed node, which C leaves
undefined: `ReadFreed` chooses between a crash, a test that fails for ever and a test
that succeeds, which counts and logs a delivery of no message (`NoMsg`). The
fields `seq`, `past` and `msg` are history for the properties: at this layer the
program does not know the number of a message.

`CausalBroadcast` is the layer as its user sees it, without clocks, lists and threads: a
process fixes the causes of a message and later writes the line `b`; it delivers a message
after those causes of it whose senders are in the list of its sender and in their own, and
writes the line before it delivers another. `ImplementsCausalBroadcast` maps `send_lcb` to these
two steps, because the receiver thread may deliver in between (that is the finding
`lcb_log_order`), the updates of the clock for a known message to deliveries, and the lines
of known messages to lines; phantom deliveries, `find_pending` at a head or a freed node,
and the pending lists are invisible.

### TaskQueue and Process (src/mqueue.c, src/log.c, and the threads around them)

| model | code |
|---|---|
| `elems`, `qsize`, `no_elem`, `front`, `back` | the fields of `msg_queue_t`; `elems` counts slots, not bytes |
| `Enqueue`, `Grown`, `Dequeue` | `enqueue`, `realloc_queue`, `dequeue` between lock and unlock |
| `queue_mutex`, `loglok` | the two mutexes, by owner |
| `buffer`, `file` | `logdata_t`, in whole lines |
| `FwriteTakes`, `FwriteFails` | `fwrite` and the comparison of its result with 0 |
| `pc[t]`, `work[t]` | where thread `t` is, and the calls it still has to make |
| `InitReceiver`, `InitSenders`, `Start` | `init_data` and SIGUSR2 |
| `Broadcast`, `Receive` | `send_urb`, `deliver_urb` as the calls they make on queue and log |
| `GetTask`, `PutTask`, `PutFails`, `UnlockQueue` | `dequeue`, `enqueue` |
| `SendTask` | `send_pl`: done, put back, or an error |
| `LockLog`, `WriteToFile`, `ResetBuffer`, `CopyLine`, `UnlockLog` | `write_log` |
| `Signal`, `NoSenders`, `CancelSender`, `LockForStop`, `TerminateReceiver`, `StopWrites`, `StopExits` | `stop` |
| `ExitOnError` | `return` from `main`, `exit` on the receiver thread |

`FifoQueue` says what the queue promises. Linux offers a signal
for the process to its main thread first, which then stands still inside whatever it was
doing, with whatever it has locked, while the handler runs. Sender threads
are cancelled wherever they are (`PTHREAD_CANCEL_ASYNCHRONOUS`), mutexes included, which
is harmless only because nobody waits for `queue_mutex` after that. What a thread does to
the queue while it owns the mutex is one step with taking it; the release is a step of its
own, so that a thread can be cancelled in between. `write_log` is cut at each statement
that changes something, because the handler writes the same buffer. `fwrite` takes the buffer, a
part of it, or nothing; `write_to_file` takes a part for the whole (`log.c:51`) and empties the
buffer, so that lines are lost (`ShortWrite`). A line of which the file has only a part is one it does not
have. A signal before `init_senders` finds no array of threads (`NoSenders`); `init_senders` is one
step, because a signal between its array and its threads ends in the same crash. Left out: a second signal, whose
default action `stop` has restored, and the chance that `free_data` waits for a lock
inside `malloc`.

### Tables (the tables of src/plink.c and src/urb.c)

| model | code |
|---|---|
| `table` | which of `pl_acks`, `pl_delivered`, `urbacks`, `urb_table` the behaviour is about |
| `entries` | the block of memory; its domain is its length |
| `total_entries` | the field of the same name, which is not always the length |
| `mutex` | `table_mutex` of `pl_acks`; the other tables have none |
| `thread[t]` | where thread `t` is: `write` (comparison with the size), `realloc`, `memset`, `resize`, `store`; `read`, `load` |
| `BeginWrite`, `Refuse`, `Test`, `Realloc`, `Memset`, `Resize`, `Store` | `table_write_entry` statement by statement; `add_seen_urb`, `add_delivered_urb` with `realloc_table` |
| `BeginRead`, `Compare`, `Return` | `table_read_entry`, `is_seen_urb`, `is_delivered_urb` |
| `CanDeliver` | `can_deliver` |

`realloc` makes a new block in which the new part holds anything (`Fresh`); a pointer that
a thread has loaded stands for the block it was loaded from (`ptr`). An access outside a
block, or to a freed one, is undefined in C: `overrun` is set and the behaviour ends.
`grown`, `written` and `beyond` are history. Three quarters of what a growth adds to a
table of links are never initialised (`plink.c:64`), `urb_table` shrinks when it is to
grow for the first time (`urb.c:30`), and the tables of URB are used by two threads
without a lock (`urb.c:131`). So the properties have the premise `Safe`: the table is one
of perfect links, or no id has been asked for that the first block of the table
lacks, which is the assumption `UrbAssumption` of `Urb`. The main thread and the
receiver thread both write to tables of URB, in any order, with any ids.

### Membership (src/parser.c, src/dependencies.c, src/addrbook.c)

| model | code |
|---|---|
| `file` | the membership file: the number of processes and the other lines, in words |
| `lines_read`, `parts_read` | where the file stands: whole lines, and parts of the next one |
| `Fgets`, `Unread`, `Part` | a call of `fgets` and what it returns: a part of a line that does not fit the buffer |
| `line_counter` | the counter of the current loop |
| `parser` | where `parse_membership_args` is |
| `address_book`, `dependencies` | what it fills |
| `taken` | what `fgets` has returned to the loop over the dependencies (history) |
| `ReadHeader`, `ReadAddress`, `EndAddresses`, `ReadDependencies`, `EndDependencies` | `parse_membership_args` with `alloc_addr_book`, `add_entry`, `alloc_dependencies`, `set_dependencies`, `get_dependencies` |

A word stands for the number that `atoi` makes of it: `NoNumber` for text, 0 for a line
break that `strtok` returns as a word of its own, the last of its line. All words have one character, so that
the place where a line is cut follows from the number of its words. `add_entry` and
`get_dependencies` compare a pid with `num_proc + 1` and with `num_proc`, and nothing
compares the number of dependencies with the size of `dep_pid_buf`: then `overrun` is set. An
empty file is the file of no processes, which ends in the same error (`parser.c:61`, `parser.c:66`);
what a first line has beyond the buffer is the next line, which is how `fgets` returns it.

## 3. The runs

| run | instance | properties |
|---|---|---|
| `urb` | N = 4, one broadcaster, one stop, fairness; 185,860 states | `TypeOK`, `AcksAreTrue`, `MajorityHolds`, `RelayedIffSeen`, `IdsDiffer`, `SurvivorRelays`, `AgreementAtRest`, `RBSpec`, `UniformAgreement`, `Validity` |
| `link_safety` | 3 processes, 2 sender threads each, one message from its broadcaster and from a relay, threshold 2, one stop, one send error; 200,340 states | `TypeOK`, `OneHolder`, `AckMeansTaken`, `RLSpec` |
| `link_live` | 3 processes, 1 sender thread, threshold 2, one stop, fairness; 57,460 states | `Delivery`, `Completion` |
| `link_error` | 2 processes, 2 sender threads, one send error, fairness | `Delivery` is violated |
| `lcb_safety` | N = 2, messages 3 and 1, both lists are {1}, one stop; 1.3 million states | `TypeOK`, `ClockCountsLog`, `NothingDeliverablePending`, `CausalOrder`, `FifoLines`, `LineCausality`, `NoDuplication`, `AllWrittenAtRest`, `ImplementsCausalBroadcast` |
| `lcb_log_order` | N = 2 | `LogOrderCausality` is violated |
| `lcb_hang` | N = 2, fairness | `FindPendingReturns` is violated |
| `lcb_remove` | N = 2, 3 messages | `DeliveredIsDeleted` is violated |
| `process` | main, receiver, 2 senders, 4 puts into a queue of one slot, buffer of one line, one error, fairness; 787,232 states | `TypeOK`, `LogKept`, `StopKeepsLog`, `FifoSpec`, `SignalEndsProcessUnlessLogging` |
| `process_stop` | main, receiver, 1 sender, no errors, fairness | `SignalEndsProcess` is violated |
| `tables` | each of the four tables of 2 processes, main, receiver, 1 sender, limit 8, 7 ids, fairness; 209,407 states | `TypeOK`, `NoOverrun`, `WrittenIsFound`, `UnwrittenReadsZero`, `CanDeliverIsMajority`, `CallsReturn` |
| `membership` | all files of at most 3 of 15 different lines for 0 to 2 processes, and the addresses of 2 or 3 processes with at most 3 such lines; buffer of 8; 90,673 states | `TypeOK`, `WellFormedIsParsed`, `StaysInside`, `LastLineWins` |

Deadlock is not checked: every model may rightly come to a halt (all messages sent, all
processes stopped, the file read, an error that ends the process); the liveness properties say what
must have happened by then.

**Bounds.** URB treats messages independently (they share no table entry: `IdsDiffer`,
which compares with all messages that the tables have room for), so one message shows what a message can meet. N = 4 is the smallest even group in which a
strict majority (3) differs from half (2) and one stop leaves a strict majority. In
`link_safety` a task moves between the queue and two threads, and one process receives
two packets with the same `seen_id` from two senders; with threshold 2 a task is sent
twice in a row before it goes back. In `link_live` one thread serves two destinations,
one of which may stop: the case in which `send_pl` must give up for a while. Three
messages of one sender are what it takes for a pending list of two nodes behind a
delivered message, hence for the read of a freed node; `CausalOrder` is about two
messages and one log, and is proved for every number of processes. Process 2 depends on 1
and not on itself, so both kinds of sender are there; several messages of one that is not
in its own list are left to the proofs. In `process` two broadcasts, one
relay and one task put back make the queue grow from one slot to two and to four, with
the first task not in slot 0; the buffer holds one line, so that each second line
flushes; the one error may be a failing `calloc` or send, or an `fwrite` that fails or takes
only a part of the line. In `tables` the first
blocks have four and two entries: an id that needs one growth, one that needs two, one at
the limit and one beyond it are all asked for, and the second growth has entries that
`memset` clears and others that it does not; one sender thread is enough to compete with
the receiver for the mutex. In `membership` lines are too long by one character and by
several, end in a blank, name a pid one and two beyond the last, are empty or no numbers;
the buffer is even, like the program's.

**Fairness.** *URB*: a packet between two processes that are up is handed over in the
end (this is `Delivery` of `PerfectLink` without send errors), and the receiver thread
finishes what it has begun. Nothing is owed by a process that has stopped, and nobody is
obliged to broadcast. *Link*: threads are scheduled by the operating system (weak
fairness of each thread); the network is the fair-loss link of `Perfect using
Fair-Loss.txt`: a datagram that is sent again and again is kept and received again and
again (strong fairness per packet, for whichever thread sends it). *LCB*: threads are
scheduled, URB hands over every message. *Process*: every thread finishes the calls that it
can go on with (weak fairness of the calls of each thread, and of the handler). The
mutexes need no more than that: the handler asks for `loglok` only when the senders are
gone and the main thread stands still, and the receiver has finitely many lines to log.
*Tables*: a thread that is inside a function of a table is scheduled (weak fairness); nobody
is obliged to call one. A thread that waits for the mutex is not yet inside for
`CallsReturn`: the kernel's queue of waiters is not modelled.

### What disagrees with the documents

* A send that fails once loses the task and the thread (`plink.c:162`).
* `find_pending` never returns when it meets a head that is not deliverable
  (`pending.c:207`), and removes the wrong node when it meets one that is
  (`pending.c:220`); if that one is alone in its list, the process exits.
* The log may show a delivery before a broadcast that did not depend on it
  (`lcb.c:13`), which `test/testlocal.py` counts as a fault of the other processes.
* `stop`, which is to end the process, waits for ever for `loglok` when the signal
  interrupts the main thread in `write_log` (`receiver.c:92`).

Three more are no run of their own. `can_deliver` (`urb.c:233`, `>=`) refuses the last
message of its table although everybody has it, until a later id makes the table grow;
`CanDeliverIsMajority` says exactly for which messages it is right. Only `deliver_urb` asks
it, so a process alone in its group never delivers its own messages (`N > 1` in
`AgreementAtRest`). And messages of a
process that is not in its own dependency list are not ordered at all, and the numbers in
their lines `d` are those of a counter; the example files of the repository
(`new_design/Things_to_do.md:33`, `test_correctness.sh:28`) list no process for itself. What
holds for any lists is proved: `CausalOrder` and `FifoLines` for the senders that are in their
own, and `LineCausality` for all, which speaks of the numbers in the lines as
`test/testlocal.py` reads them.

The LCB safety properties hold in spite of `find_pending`: the node that is
wrongly removed is always preceded by its predecessor in the same list, and a phantom
delivery is counted and logged under the sender it is counted for.

## 4. The proofs

`UrbProofs` proves, for every N, `NumMsg`, `TableMsgs` and `MaxStops` that satisfy
`UrbAssumption`, the safety properties of run `urb`: `TypeCorrect`, `AcksCorrect`,
`MajorityCorrect`, `RelaysCorrect`, `IdsCorrect`, `SurvivorCorrect` and the refinement
`ImplementsRB`.

The inductive invariant `IInv` conjoins `TypeOK` and

* `SeenIsBroadcast`: what is seen, queued or in hand has been broadcast. Needed for "no
  creation", and to know that a new sequence number is unused;
* `OneCallPerDelivery`: `lcbCalls[p][m]` is 1 or 0 as `m` is in `delivered[p]` or not.
  Needed for "at most once" of the refinement;
* `StopsBounded`: at most `MaxStops` processes are down;
* `AcksAreTrue`, `RelayedIffSeen`, `MajorityHolds`: inductive together. `AcksAreTrue` needs
  `RelayedIffSeen` (a packet in flight shows that its sender has the message), and
  `MajorityHolds` needs `AcksAreTrue` (can_deliver counts the table, the property counts
  the holders).

`SurvivorRelays` follows from `IInv` by counting: more than N/2 processes hold the message,
fewer than N/2 are down. `IdsDiffer` is arithmetic: a multiple of N and a remainder below N
are determined by their sum (`Division`), which is used twice, once for `seen_id` and once for
the ids made from it; and a row of N entries ends inside the table (`RowInside`). Ids that
are below the size of a table do not wrap around in 32 bits. Every disjunct of `Next` has one lemma per
conjunct that it can disturb; the temporal theorems combine them with PTL.

`AgreementCorrect` proves `AgreementAtRest`, the part of uniform agreement and validity that
needs no fairness: once the links owe nothing and no receiver thread is inside `deliver_urb`,
every process that runs has delivered what any process, alive or since dead, has delivered, and
what a process that runs holds. Its invariant `RestInv` says that whatever a link hands over is
noted in both tables with its sender (`GotIsNoted`, `OwnAck`), and that `deliver_urb` leaves
nothing undelivered that `can_deliver` would allow (`Decided`), although it asks for one message
only, the one it has just received. Then a process that runs and holds the message (for a
delivered one there is such a process, by `SurvivorCorrect`) has relayed it to everybody that
runs, each of them has relayed it to everybody in turn, and so each has a row with an entry for every
process that runs, which is a majority (`RunningMajority`, `HeldIsDelivered`). What remains for
fairness, and for TLC, is that this state of rest is reached.

`PerfectLinkProofs` proves, for every set of processes, threads and packets, every
threshold and every bound that satisfy `LinkAssumption`, the safety properties of run
`link_safety`: `LinkTypeCorrect`, `OneHolderCorrect`, `AcksMeanTaken` and the refinement
`ImplementsRL`. The assumption that matters is that two packets never share message id,
source and destination; from it follows that a mid belongs to one packet at a receiver
and an ackid to one packet at a sender (`IdsUnique`). The inductive invariant `IInv`
conjoins

* `TypeInv`: `TypeOK`, and a thread about to send is below the threshold. Without that,
  the counter of `send_pl` could leave its type;
* `TasksAsked`, `DroppedAsked`: a task in the queue or with a thread of p, or lost, is one
  that p was asked for. They give `OneHolder` its start: a packet not yet asked for is
  nowhere, so `send_beb` puts it in one place;
* `OneHolder`: inductive with the two above. The lemmas say where a task is in a queue
  after `enqueue` and `dequeue` (`AppendPlaces`, `TailPlaces`) and which threads work on it
  after one of them moves (`WorkingMoves`);
* `DataAsked`, `ReceiverHasOne`: what is in flight, or in the hands of `deliver_pl`, was
  asked for. This is "no creation";
* `UpcallsCounted`: a packet was handed up once or not at all, as its mid is in the table
  of its destination or not. This is "no duplication" at the moment when `is_delivered`
  says no, and it turns `AckMeansTaken` from "at least once" into "once";
* `AckMeansTaken`: inductive with `ReceiverHasOne`, because `deliver_pl` sends the
  acknowledgement while it has the packet in hand.

`FinishedMeansTakenCorrect` puts the two ends together: a packet whose task is in no queue and
with no thread was handed up at its destination, or is about to be, unless a `sendto` failed. It
joins `OneHolder`, about the sender, with `AckMeansTaken`, about the receiver.

`TaskQueueProofs` proves, for every set of tasks and every initial size that satisfy
`QueueAssumption`, `QueueTypeCorrect` and the refinement `QueueImplementsFifo`. The
invariant is `QueueTypeOK`, inductive because it says where `back` is (`no_elem` slots behind
`front`): that makes the slot which `enqueue` fills different from those of the tasks. The
lemmas `EnqueueEffect` and `DequeueEffect` say what the operations do to the contents, and
are all that a user of the queue needs. The provers know little of `%`; `SlotWraps` turns it
into a comparison once.

`ProcessProofs` proves, for every number of sender threads, messages and processes, every
size of queue and buffer and all bounds that satisfy `ProcessAssumption` and
`QueueAssumption`, the safety properties of run `process`: `ProcessTypeCorrect`,
`LogKeptCorrect`, `StopKeepsLogCorrect` and, on top of `QueueImplementsFifo`,
`ProcessImplementsFifo`. The inductive invariant `IInv` conjoins `TypeOK` and

* `QueueOK`: the queue holds tasks and no cleared slot, so that `dequeue` hands out tasks;
* `LogHasOwner`: a thread in `write_log` owns `loglok` and has its line at hand, hence at
  most one thread is there;
* `LineFits`: there is room for the line where it is copied;
* `LogAccounts`: what file and buffer hold at each label of `write_log`, and when no thread
  is there, as long as no short write has lost lines; `LogKept` is the case of a free mutex;
* `SendersDoNotLog`, `ReceiverStarts`: a sender that is cancelled, or a thread that is
  started, cannot be in `write_log`, so that the accounts survive it;
* `StopQuiets`: from `terminate_receiver` on, senders have ended, the main thread is
  not in `write_log`, and behind it the receiver is cancelled. So nobody is in `write_log`
  when `stop` writes the buffer;
* `StopFlushes`: behind the last `write_to_file` the buffer stays empty, if `fwrite` has not
  failed. `StopKeepsLog` is this with `LogAccounts`.

Most steps do not touch the log; `QuietSteps` sorts them out once, so that `LogAccounts` is
proved for the eight others only.

`LcbProofs` proves, for every N, `NumMsg`, `Deps` and `MaxStops` that satisfy
`LcbAssumption`, the safety properties of run `lcb_safety`. The lists are
arbitrary: a process may depend on anybody, itself or nobody. There are four layers of
invariants. `BaseInv`:

* `Types`: what `TypeOK` says and the shape of messages, lines and positions;
* `Handed`: what is pending or applied has been handed over by URB;
* `Apart`, `Unlogged`, `Once`: until `find_pending` has logged its first delivery, nothing
  pending is applied; what is about to be logged is not in the log. They give
  `NoDuplication`;
* `Looking`: `find_pending` leaves a list only when it is empty, since it never returns
  from a head that is not deliverable; what waits while the thread is idle is not
  deliverable;
* `Counting`: the clock is the number of lines, plus the one that is about to be written.

`OrderInv`, whose clauses on numbers speak of senders in their own list (`SelfListed`):
`Messages` (`Covered`, `Unique`: the vector of a message covers what its sender had
counted, and its own entry is its number less one) and `Ordered` (`AtMost`, `Complete`, `Due`, `Causes`, `Numbers`: the messages of
such a sender are applied by number without a gap, so a clock that has reached the vector
of a message has the lines of its past). `find_pending` is what makes this hard: after it has logged a
delivery the receiver thread never comes back to a state in which it delivers another
known message (it hangs, exits, or makes up deliveries from a freed node), so `Complete`
and `Apart` need to hold only up to there (`Orderly`), and the phantom deliveries that
follow change what the clock says of messages, not the lines.

`LineInv`, for every sender: the lines of deliveries from one sender carry the numbers from
1 to the entry of the clock (`Gapless`), so the ones a message waits for are in the log
when it is about to be logged (`Ready`) and before its own line for good (`Preceded`). This
is `LineCausality`. It survives the phantom deliveries, which count and number their
lines like real ones, and needs nothing of `OrderInv`.

`RestInv`, for `AllWrittenCorrect`: a process whose receiver thread waits, and to which every
message has been handed, has written them all. `NothingDeliverablePending` alone does not give
that: each pending message could wait for another. Two facts exclude it. No message is in its
own past through others (`WellFounded`: among any messages that were sent, one has none of the others in its
past), since `send_urb` sends after the copy of the clock and a main thread sends one message at a time
(`InTurn`, `PastSent`). And an entry of a vector is at most the number of messages of that
process in the past (`Modest`), because a clock counts each message once (`Exact`). So the first message
that is missing somewhere waits for no more than what is written there: `FS_Subset` compares
the two numbers, whatever the order in which the messages of one sender came, and whether or not the sender
is in its own list. Well-foundedness is stated over sets of messages, as an invariant, and
needs no induction. The premise of the property is that nobody has counted a phantom delivery
(`MadeUp`): one that has may send vectors that ask for messages which were never sent, and
those who test such an entry then wait for ever.

`TablesProofs` proves, for any number of processes, messages and sender threads, any limit,
any ids and any contents of fresh memory, the five invariants of run `tables` and `GrowthBounded`. The inductive
invariant `IInv` is `Types`, `IdsOK` and, under the premise `Safe`,

* `Exclusive`: at most one thread is inside the functions of a table of perfect links, by
  the mutex for `pl_acks`, and for `pl_delivered` because only the receiver thread calls them;
* `NoGrowth`: the tables of URB keep their first block;
* `Positions`, `Shape`: what a thread has read of the table is still so when it uses it, and
  the block is as long as the position of the thread that grows it says;
* `Sizes`, `Content`: the limit, and what the entries hold. `WrittenIsFound` needs both,
  because an id must stay below `total_entries` to be read.

**The refinement of localized causal broadcast.** `CausalBroadcastImplemented` proves, for
every N, `NumMsg`, `Deps` and `MaxStops`, that `Lcb` implements `CausalBroadcast`. Nothing is
added to the invariants: a step of `Lcb` from a state of `BaseInv`
and `OrderInv` is a step of `CausalBroadcast` or none (`StepImplemented`, one lemma for each
kind of step). Two steps carry the weight. `DeliverLcb` and `FindHead` count a message when
its vector is covered, which is a comparison of counters; that the causes have their *lines*
comes from `Ordered`. And a delivery must be new, which for `find_pending` is `Apart`: the
nodes it wrongly leaves in the lists are never reached again with a known message. The vectors
are dropped by the mapping (`Bare`), which loses nothing because a message is determined
by its sender and number (`Unique`).

`CausalBroadcastProofs` proves about the abstract module alone, for any lists,
`CausesOfCauses`: a process that waits for the causes of a message has also waited for
theirs, where the lists chain, so a log need not be searched for causes of causes. Its
invariant `CausalInv` adds that a sender's later message has the causes of its earlier ones
(`Succession`), and that what is delivered has its causes delivered (`DeliveredOK`).
`CausesOfCausesKept` carries this over to the program through the refinement.

`MembershipProofs` proves the four invariants of run `membership`, for any set of files and any
size of the buffer that satisfy `MembershipAssumption`. The lemmas on operators come first:
a part of a line is a stretch of it or a line break (`PartFacts`), the first part of a line
that fits is the line (`PartWhole`), `Pids` returns pids only, up to a word that is none
(`PidsFacts`). `TypeCorrect` is inductive as it stands. `StaysInsideArrays` then counts: the pids
of a part, with the one before them, are pids of the line (`PidsInLine`). `LastLine` needs that
nothing is taken before the lists exist (`NotYet`). `WellFormedCorrect` has the invariant
`ParsedInv`: in a well-formed file the reader is where the counter of the loop says (`Reader`),
and holds what the lines before that place say (`AddressesRead`, `DependenciesRead`); addresses
need that no other line has their pid. `WellFormedLists` follows from the same invariant.

The least element that `Pids` chooses exists because `<` is well founded on the natural
numbers (`Least`, from `WFMin` of the library). This is induction by a smallest
counterexample, with a set in the place of a predicate, and the form of it that the provers
here can use.

`GrowthBounded`, a part of `TypeOK` of `Tables`, has a theorem of its own (`Bounded`).
`CausesOfCauses` (`CausesOfCausesKept`) is an invariant that only theorems state.

Only model-checked: liveness and whatever else speaks of fairness (`UniformAgreement`,
`Validity`, `Delivery`, `Completion`, `SignalEndsProcessUnlessLogging`, `CallsReturn`), which
TLAPS does not reason about here. What they say of
states in which nothing is left to do is proved: `AgreementAtRest` for URB, `FinishedMeansTaken`
for links, `AllWrittenAtRest` for the causal layer. Every invariant and every refinement that a passing run
checks is proved.

## 5. Not modelled

* What a table of URB does once it grows: undefined in C from the first growth of
  `urb_table` on, and from the first growth of `urbacks` that meets the other thread.
* That a link may read one of the uninitialised entries of a grown table as an
  acknowledgement: `PerfectLink` has tables as sets, which is right while no table grows, that is
  while a process broadcasts at most `ORIG_TABLE_SIZE` messages. `UnwrittenReadsZero` says where
  the difference lies. (Where an id is beyond `MAX_SIZE` before that, from eight processes
  on, the process exits: `Stop`.)
* The text of a log line or of the name of the log file (`log_deliver`, `LINE_MAX_LENGTH`,
  `log_filename`); what `free_data` frees.
* The arguments of the command line; `alloc_reverse_dependencies` and `depends_on`, whose only
  call is commented out (`parser.c:170`).
* `fifo.c`, `causal.c`: not in the Makefile.
* The layout of datagrams (`serialize`, `deserialize`): fixed words, both ends alike.
* Memory exhaustion, except in the growth of the task queue (`PutFails`).
* What a line that was cut by a short write does to the next one in the file.
* A second start of a process: it keeps nothing over one.

## 6. What could come next

The composition of `Tables` with `PerfectLink`: what a link promises beyond
`ORIG_TABLE_SIZE` messages, where an entry that `memset` has not cleared may make
`send_pl` take a packet for acknowledged. And the words of a datagram, with the message that the
receiver thread keeps from one datagram to the next (`receiver.c:42`).
