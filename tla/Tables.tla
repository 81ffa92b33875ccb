------------------------------- MODULE Tables -------------------------------
(***************************************************************************)
(* The tables of a process that grow with the ids they are asked for: of   *)
(* perfect links (src/plink.c), the acknowledgements that the receiver     *)
(* thread writes and the sender threads read under a mutex, and the        *)
(* deliveries, which only the receiver thread uses; of uniform reliable    *)
(* broadcast (src/urb.c), the acknowledgements and the messages seen and   *)
(* delivered, which the main thread and the receiver thread use without a  *)
(* lock.  A behaviour is about one of the four.                            *)
(*                                                                         *)
(* realloc moves a table to a new block, in which the new part is not      *)
(* initialised, and frees the old one; memset then clears a number of      *)
(* BYTES.  A C statement that loads a pointer of the table and uses it is  *)
(* two steps.  An access outside a block, or to a freed one, is undefined: *)
(* the behaviour ends there, with overrun = TRUE.  Memory never runs out.  *)
(***************************************************************************)
EXTENDS Integers, FiniteSets

CONSTANTS num_proc,  \* data->num_proc
          no_msgs,   \* ORIG_TABLE_SIZE: messages per process the tables start with
          MAX_SIZE,  \* MAX_SIZE and MAX_SIZE_URB
          Senders,   \* the sender threads
          Ids,       \* bound: the ids that the layers ask for
          Fresh      \* what an entry of uninitialised memory may hold

ASSUME TablesAssumption ==
  /\ num_proc \in Nat \ {0}
  /\ no_msgs \in Nat \ {0}
  /\ MAX_SIZE \in Nat
  /\ Senders \cap {"main", "recv"} = {}
  /\ Ids \subseteq Nat
  /\ Fresh \subseteq Nat

Thread == Senders \cup {"main", "recv"}
Table == {"acks", "delivered", "urbacks", "urb_table"}

VARIABLES table,          \* which of the tables this is
          entries,        \* its block: what the entries hold
          total_entries,  \* how many entries the table believes to have
          mutex,          \* the threads that hold table_mutex
          thread,         \* thread[t]: where thread t is
          grown,          \* the sizes from which the table has grown
          written,        \* ids whose write has returned 0
          beyond,         \* a write was asked for an id the first block lacks
          overrun,        \* memory outside the block was used
          up              \* no error has ended the process

vars == <<table, entries, total_entries, mutex, thread, grown, written,
          beyond, overrun, up>>

\* init_table_uid and init_urb_table: one entry for each message, and for a table
\* of ids of acknowledgements one for each pair of processes, too.
Initial(tab) == IF tab = "urb_table" THEN no_msgs * num_proc
                ELSE no_msgs * num_proc * num_proc

\* Who calls the functions that write, and those that read.
Writer(tab) == IF tab \in {"acks", "delivered"} THEN {"recv"} ELSE {"main", "recv"}
Reader(tab) == IF tab = "acks" THEN Senders ELSE {"recv"}

\* Positions of a thread: outside; at the comparison with the size; in the loop
\* that lets the table grow, with the size it has read; about to use an entry, with
\* the block the loaded pointer points to (blocks differ in their lengths).
Outside == [pc |-> "outside"]
At(label, id) == [pc |-> label, id |-> id]
Growing(label, id, old) == [pc |-> label, id |-> id, old |-> old]
Loaded(label, id) == [pc |-> label, id |-> id, ptr |-> DOMAIN entries]

\* is_ack and set_ack take the mutex, the functions of the other tables do not.
NoLock(tab) == FALSE                                             \* Mutant
Locked(tab) == tab = "acks"
MayEnter(t) == Locked(table) => mutex = {}
Enter(t) == IF Locked(table) THEN {t} ELSE mutex
Leave(t) == mutex \ {t}

\* sizeof of an entry.
Bytes(tab) == IF tab = "urb_table" THEN 8 ELSE 4

\* How many entries have room in the block that realloc is asked for to make a
\* table of new entries: realloc_table gives realloc the number of entries.
Room(tab, new) == IF tab = "urb_table" THEN new \div Bytes(tab) ELSE new

\* The entries memset touches, and those it clears, when it is given the number of
\* entries, old, as a number of bytes.
Touched(tab, old) == old .. old + ((old - 1) \div Bytes(tab))
\* Mutants: all of the table is cleared; nothing is.
ClearedAll(tab, old) == 0 .. old + (old \div Bytes(tab)) - 1
ClearedNone(tab, old) == {}
Cleared(tab, old) == old .. old + (old \div Bytes(tab)) - 1

-----------------------------------------------------------------------------
Init ==
  /\ table \in Table
  /\ entries = [i \in 0 .. Initial(table) - 1 |-> 0]
  /\ total_entries = Initial(table)
  /\ mutex = {}
  /\ thread = [t \in Thread |-> Outside]
  /\ grown = {}
  /\ written = {}
  /\ beyond = FALSE
  /\ overrun = FALSE
  /\ up = TRUE

Running == up /\ ~overrun

\* set_ack, set_delivered, set_ack_urb, add_seen_urb and add_delivered_urb.
BeginWrite(t, id) ==
  /\ Running
  /\ t \in Writer(table)
  /\ thread[t] = Outside
  /\ MayEnter(t)
  /\ mutex' = Enter(t)
  /\ thread' = [thread EXCEPT ![t] = At("write", id)]
  /\ beyond' = (beyond \/ id >= Initial(table))
  /\ UNCHANGED <<table, entries, total_entries, grown, written, overrun, up>>

\* An id above the limit: ERROR_TABLE, on which the caller ends the process.
TooLarge(id) == id > MAX_SIZE

Refuse(t) ==
  /\ Running
  /\ thread[t].pc = "write"
  /\ TooLarge(thread[t].id)
  /\ thread' = [thread EXCEPT ![t] = Outside]
  /\ mutex' = Leave(t)
  /\ up' = FALSE
  /\ UNCHANGED <<table, entries, total_entries, grown, written, beyond, overrun>>

\* The test of the loop in table_write_entry: grow again, or load the pointer.
AfterTest(s) ==
  IF s.id >= total_entries THEN Growing("realloc", s.id, total_entries)
                           ELSE Loaded("store", s.id)

Test(t) ==
  /\ Running
  /\ thread[t].pc = "write"
  /\ ~TooLarge(thread[t].id)
  /\ thread' = [thread EXCEPT ![t] = AfterTest(thread[t])]
  /\ UNCHANGED <<table, entries, total_entries, mutex, grown, written, beyond,
                 overrun, up>>

\* realloc: the contents move as far as they fit, the rest is what memory holds.
Realloc(t) ==
  /\ Running
  /\ thread[t].pc = "realloc"
  /\ LET new == 0 .. Room(table, 2 * thread[t].old) - 1 IN
       \E fresh \in [new \ DOMAIN entries -> Fresh] :
         entries' = [i \in new |-> IF i \in DOMAIN entries THEN entries[i] ELSE fresh[i]]
  /\ thread' = [thread EXCEPT ![t].pc = "memset"]
  /\ UNCHANGED <<table, total_entries, mutex, grown, written, beyond, overrun, up>>

\* memset: clear what it is told to.
Memset(t) ==
  /\ Running
  /\ thread[t].pc = "memset"
  /\ LET old == thread[t].old IN
       /\ entries' = [i \in DOMAIN entries |-> IF i \in Cleared(table, old) THEN 0 ELSE entries[i]]
       /\ overrun' = ~(Touched(table, old) \subseteq DOMAIN entries)
  /\ thread' = [thread EXCEPT ![t].pc = "resize"]
  /\ UNCHANGED <<table, total_entries, mutex, grown, written, beyond, up>>

\* Mutants: the table keeps its size; it counts one entry too many.
SizeKept(old) == old
SizeOneMore(old) == 2 * old + 1
\* The new size, and back to the test of the loop.
NewSize(old) == 2 * old

Resize(t) ==
  /\ Running
  /\ thread[t].pc = "resize"
  /\ total_entries' = NewSize(thread[t].old)
  /\ grown' = grown \cup {thread[t].old}
  /\ thread' = [thread EXCEPT ![t] = At("write", @.id)]
  /\ UNCHANGED <<table, entries, mutex, written, beyond, overrun, up>>

\* An entry of the block that a loaded pointer points to.
InBlock(s) == s.ptr = DOMAIN entries /\ s.id \in DOMAIN entries

\* entries[mid] = value, and the end of the function.
Store(t) ==
  /\ Running
  /\ thread[t].pc = "store"
  /\ IF InBlock(thread[t])
       THEN /\ entries' = [entries EXCEPT ![thread[t].id] = 1]
            /\ UNCHANGED overrun
       ELSE /\ overrun' = TRUE
            /\ UNCHANGED entries
  /\ written' = written \cup {thread[t].id}
  /\ thread' = [thread EXCEPT ![t] = Outside]
  /\ mutex' = Leave(t)
  /\ UNCHANGED <<table, total_entries, grown, beyond, up>>

\* is_ack, is_delivered, is_seen_urb, is_delivered_urb, and one entry of the row
\* that can_deliver reads: an id that the table has no entry for is 0.
BeginRead(t, id) ==
  /\ Running
  /\ t \in Reader(table)
  /\ thread[t] = Outside
  /\ MayEnter(t)
  /\ mutex' = Enter(t)
  /\ thread' = [thread EXCEPT ![t] = At("read", id)]
  /\ UNCHANGED <<table, entries, total_entries, grown, written, beyond, overrun, up>>

Compare(t) ==
  /\ Running
  /\ thread[t].pc = "read"
  /\ thread[t].id < total_entries
  /\ thread' = [thread EXCEPT ![t] = Loaded("load", thread[t].id)]
  /\ UNCHANGED <<table, entries, total_entries, mutex, grown, written, beyond,
                 overrun, up>>

\* The end of a read, with 0 or with the entry.
ReadEntry(id) == IF id >= total_entries THEN 0 ELSE entries[id]

Return(t) ==
  /\ Running
  /\ \/ /\ thread[t].pc = "read"
        /\ thread[t].id >= total_entries
        /\ UNCHANGED overrun
     \/ /\ thread[t].pc = "load"
        /\ overrun' = ~InBlock(thread[t])
  /\ thread' = [thread EXCEPT ![t] = Outside]
  /\ mutex' = Leave(t)
  /\ UNCHANGED <<table, entries, total_entries, grown, written, beyond, up>>

Step(t) ==
  \/ Refuse(t) \/ Test(t) \/ Realloc(t) \/ Memset(t) \/ Resize(t) \/ Store(t)
  \/ Compare(t) \/ Return(t)

Next ==
  \E t \in Thread :
    \/ \E id \in Ids : BeginWrite(t, id) \/ BeginRead(t, id)
    \/ Step(t)

Spec == Init /\ [][Next]_vars

\* A thread that is in a function of the table is scheduled.
FairSpec == Spec /\ \A t \in Thread : WF_vars(Step(t))

\* can_deliver: the processes with an entry in the row of a message are a majority.
\* The comparison with the size leaves out the last row of the table.
Row(seen_id) == num_proc * seen_id .. num_proc * seen_id + num_proc - 1
Count(seen_id) == Cardinality({i \in Row(seen_id) : entries[i] = 1})
InTable(seen_id) == num_proc * seen_id + num_proc < total_entries
CanDeliverHalf(seen_id) == InTable(seen_id) /\ 2 * Count(seen_id) >= num_proc   \* Mutant
CanDeliver(seen_id) == InTable(seen_id) /\ Count(seen_id) > num_proc \div 2

-----------------------------------------------------------------------------
\* No table is used while it moves, or grows without a lock: the tables of perfect
\* links, and those of uniform reliable broadcast until a process broadcasts more
\* messages than ORIG_TABLE_SIZE.
Safe == table \in {"acks", "delivered"} \/ ~beyond

\* Entries that hold what was written or 0: of the first block, and the first
\* quarter of what each growth has added.
Defined(id) ==
  id < Initial(table) \/ \E old \in grown : id >= old /\ id < old + old \div 4

\* A table never has more entries than twice the limit on ids, or than its first
\* block: an id above the limit ends the process before the table grows for it.
GrowthBounded ==
  Safe => total_entries <= Initial(table) \/ total_entries <= 2 * MAX_SIZE

\* The variables have their types; the table has no more entries than its block, nor
\* than the limit on ids lets it get.
TypeOK ==
  /\ table \in Table
  /\ total_entries \in Nat \ {0}
  /\ Safe => 0 .. total_entries - 1 \subseteq DOMAIN entries
  /\ GrowthBounded
  /\ mutex \subseteq Thread
  /\ \A t \in Thread :
       thread[t].pc \in {"outside", "write", "realloc", "memset", "resize", "store", "read", "load"}
  /\ grown \subseteq Nat \ {0}
  /\ written \subseteq Ids
  /\ beyond \in BOOLEAN /\ overrun \in BOOLEAN /\ up \in BOOLEAN

\* No access of a table leaves its block or uses a freed one, whatever the ids and
\* however far the table has to grow; but for the tables of uniform reliable broadcast
\* once they grow, as realloc_table shrinks the block and two threads do not lock.
NoOverrun == Safe => ~overrun

\* What is written is found, through every growth, and also while it goes on.
WrittenIsFound == Safe => \A id \in written : ReadEntry(id) = 1

\* What is not written reads as 0 if no growth has added it, or if it is in the part
\* that memset clears.  The other three quarters may hold anything: an
\* acknowledgement that never came, a message that was never delivered.
UnwrittenReadsZero ==
  Safe => \A id \in Ids \ written :
            (id >= total_entries \/ Defined(id)) => ReadEntry(id) = 0

\* can_deliver tells a majority of acknowledgements of a message, but for the message
\* in the last row of the table: that one it refuses although everybody has it.
Acked(seen_id) == Row(seen_id) \cap written

CanDeliverIsMajority ==
  table = "urbacks" /\ Safe =>
    \A seen_id \in 0 .. no_msgs * num_proc - 1 :
      CanDeliver(seen_id) <=>
        seen_id < no_msgs * num_proc - 1 /\ 2 * Cardinality(Acked(seen_id)) > num_proc

\* A call of a table function ends: the loop reaches the id, and nobody waits for a
\* mutex that is kept.
CallsReturn ==
  \A t \in Thread : (thread[t] # Outside) ~> (thread[t] = Outside \/ ~Running)
=============================================================================
