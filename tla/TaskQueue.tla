----------------------------- MODULE TaskQueue ------------------------------
(***************************************************************************)
(* The task queue (src/mqueue.c): a ring buffer that doubles when it is    *)
(* full.  Its operations are the bodies of enqueue and dequeue between     *)
(* pthread_mutex_lock and pthread_mutex_unlock; module Process composes    *)
(* them with the threads and the mutex.                                    *)
(***************************************************************************)
EXTENDS Integers, Sequences

CONSTANTS Task,       \* what the queue holds
          NoTask,     \* a slot that calloc has cleared
          QueueLen    \* QUEUE_LEN: the number of slots at the start

ASSUME QueueAssumption ==
  /\ NoTask \notin Task
  /\ QueueLen \in Nat \ {0}

VARIABLES elems,      \* elems[i]: slot i of the block
          qsize,      \* the number of slots
          no_elem,    \* the number of tasks
          front,      \* the slot of the first task
          back        \* the slot for the next task

queueVars == <<elems, qsize, no_elem, front, back>>

\* The slot that is i slots behind slot s.
SlotNoWrap(s, i) == s + i                                             \* Mutant
Slot(s, i) == (s + i) % qsize

\* init_queue
QueueInit ==
  /\ elems = [i \in 0 .. QueueLen - 1 |-> NoTask]
  /\ qsize = QueueLen
  /\ no_elem = 0
  /\ front = 0
  /\ back = 0

\* realloc_queue: the block of twice the size, the tasks moved to its start.
GrownInPlace == [i \in 0 .. 2 * qsize - 1 |->
                   IF i < no_elem THEN elems[i] ELSE NoTask]          \* Mutant
Grown == [i \in 0 .. 2 * qsize - 1 |->
            IF i < no_elem THEN elems[Slot(front, i)] ELSE NoTask]

Full == no_elem = qsize

\* enqueue
Enqueue(x) ==
  \/ /\ ~Full
     /\ elems' = [elems EXCEPT ![back] = x]
     /\ back' = Slot(back, 1)
     /\ no_elem' = no_elem + 1
     /\ UNCHANGED <<qsize, front>>
  \/ /\ Full
     /\ elems' = [Grown EXCEPT ![no_elem] = x]
     /\ qsize' = 2 * qsize
     /\ back' = (no_elem + 1) % (2 * qsize)
     /\ no_elem' = no_elem + 1
     /\ front' = 0

\* queue_empty, and the task that dequeue copies out.
Empty == no_elem = 0
First == elems[front]

\* dequeue of a queue that is not empty; the slot keeps its old contents.
Dequeue ==
  /\ ~Empty
  /\ no_elem' = no_elem - 1
  /\ front' = Slot(front, 1)
  /\ UNCHANGED <<elems, qsize, back>>

QueueNext == (\E x \in Task : Enqueue(x)) \/ Dequeue

QueueSpec == QueueInit /\ [][QueueNext]_queueVars

-----------------------------------------------------------------------------
\* The variables have their types, and the tasks lie between front and back.
QueueTypeOK ==
  /\ qsize \in Nat \ {0}
  /\ elems \in [0 .. qsize - 1 -> Task \cup {NoTask}]
  /\ no_elem \in 0 .. qsize
  /\ front \in 0 .. qsize - 1
  /\ back = Slot(front, no_elem)

\* The tasks, first to last.
Contents == [i \in 1 .. no_elem |-> elems[Slot(front, i - 1)]]

\* The ring buffer, growth included, is a queue.
Fifo == INSTANCE FifoQueue WITH q <- Contents
FifoSpec == Fifo!Spec
=============================================================================
