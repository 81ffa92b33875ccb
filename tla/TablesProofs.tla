---------------------------- MODULE TablesProofs ----------------------------
(***************************************************************************)
(* Proofs about Tables: for any number of processes and sender threads,    *)
(* first size, limit, ids, and contents of uninitialised memory.           *)
(***************************************************************************)
EXTENDS Tables, FiniteSetTheorems, TLAPS

-----------------------------------------------------------------------------
(* The inductive invariant.                                                *)

ThreadState ==
  {Outside}
    \cup [pc : {"write", "read"}, id : Nat]
    \cup [pc : {"realloc", "memset", "resize"}, id : Nat, old : Nat \ {0}]
    \cup [pc : {"store", "load"}, id : Nat, ptr : SUBSET Int]

Types ==
  /\ table \in Table
  /\ total_entries \in Nat \ {0}
  /\ DOMAIN entries \subseteq Int
  /\ mutex \subseteq Thread
  /\ thread \in [Thread -> ThreadState]
  /\ grown \subseteq Nat \ {0}
  /\ written \subseteq Ids

In(t, labels) == thread[t].pc \in labels

\* At most one thread is in the functions of a table of perfect links.
Exclusive ==
  /\ table = "acks" => \A t \in Thread : thread[t] # Outside => t \in mutex
  /\ table = "delivered" => \A t \in Thread : thread[t] # Outside => t = "recv"
  /\ table \in {"acks", "delivered"} =>
       \A t, u \in Thread : thread[t] # Outside /\ thread[u] # Outside => t = u

\* The tables of uniform reliable broadcast do not grow while all ids are small.
NoGrowth ==
  table \in {"urbacks", "urb_table"} =>
    /\ total_entries = Initial(table)
    /\ grown = {}
    /\ \A t \in Thread : /\ ~In(t, {"realloc", "memset", "resize"})
                         /\ In(t, {"write"}) => thread[t].id < Initial(table)

\* What a thread has read is still so; the block has the size the thread believes.
Positions ==
  \A t \in Thread :
    /\ In(t, {"store", "load"}) =>
         thread[t].id < total_entries /\ thread[t].ptr = DOMAIN entries
    /\ In(t, {"realloc", "memset", "resize"}) =>
         /\ thread[t].old = total_entries
         /\ thread[t].id >= total_entries
         /\ thread[t].id <= MAX_SIZE
    /\ In(t, {"store"}) => thread[t].id \in Ids
    /\ In(t, {"memset", "resize"}) => DOMAIN entries = 0 .. 2 * total_entries - 1
    /\ In(t, {"resize"}) =>
         \A i \in total_entries .. total_entries + total_entries \div 4 - 1 : entries[i] = 0

Shape ==
  /\ 0 .. total_entries - 1 \subseteq DOMAIN entries
  /\ (\A t \in Thread : ~In(t, {"memset", "resize"})) => DOMAIN entries = 0 .. total_entries - 1

Sizes ==
  /\ Initial(table) <= total_entries
  /\ \A old \in grown : old + old \div 4 <= total_entries
  /\ total_entries <= Initial(table) \/ total_entries <= 2 * MAX_SIZE

Content ==
  /\ written \subseteq 0 .. total_entries - 1
  /\ \A i \in 0 .. total_entries - 1 :
       /\ i \in written => entries[i] = 1
       /\ i \notin written /\ Defined(i) => entries[i] = 0

SafeInv == Exclusive /\ NoGrowth /\ Positions /\ Shape /\ Sizes /\ Content /\ ~overrun

IdsOK == \A t \in Thread : In(t, {"write", "realloc", "memset", "resize", "store"}) => thread[t].id \in Ids

IInv == Types /\ IdsOK /\ (Safe => SafeInv)

LEMMA InitialPositive ==
  ASSUME NEW tab
  PROVE  Initial(tab) \in Nat \ {0}
<1>1. no_msgs * num_proc \in Nat \ {0}
  BY TablesAssumption
<1>2. \A a, b \in Nat \ {0} : a * b \in Nat \ {0}
  OBVIOUS
<1> QED
  BY <1>1, <1>2, TablesAssumption DEF Initial

LEMMA IInvInit == Init => IInv
<1> SUFFICES ASSUME Init PROVE IInv
  OBVIOUS
<1> USE InitialPositive DEF Init
<1>1. Types
  BY DEF Types, ThreadState
<1>2. IdsOK /\ Exclusive /\ NoGrowth /\ Positions
  BY DEF IdsOK, Exclusive, NoGrowth, Positions, In, Outside
<1>3. Shape /\ Sizes /\ Content
  BY DEF Shape, Sizes, Content, Defined
<1> QED
  BY <1>1, <1>2, <1>3 DEF IInv, SafeInv

-----------------------------------------------------------------------------
(* Every action keeps the invariant.                                       *)

\* What a safe state has been safe before.
LEMMA SafeBefore ==
  ASSUME table' = table, beyond => beyond', Safe'
  PROVE  Safe
BY DEF Safe

\* A thread enters: nobody else is in, where that matters.
LEMMA EnterWrite ==
  ASSUME IInv, NEW t \in Thread, NEW id \in Ids, BeginWrite(t, id)
  PROVE  IInv'
<1> USE DEF IInv
<1>0. id \in Nat
  BY TablesAssumption
<1>1. thread' = [thread EXCEPT ![t] = At("write", id)]
  BY DEF BeginWrite
<1>2. Types'
  BY <1>0, <1>1 DEF Types, BeginWrite, ThreadState, At, Enter, Leave
<1>3. IdsOK'
  BY <1>1 DEF Types, IdsOK, In, At
<1>4. ASSUME Safe' PROVE SafeInv'
  <2>1. Safe /\ SafeInv
    BY <1>4, SafeBefore DEF BeginWrite
  <2> USE <2>1 DEF SafeInv
  <2>2. \A u \in Thread : u # t => thread'[u] = thread[u]
    BY <1>1 DEF Types
  <2>3. thread'[t] = At("write", id) /\ thread[t] = Outside
    BY <1>1 DEF Types, BeginWrite
  <2>4. Exclusive'
    BY <2>2, <2>3 DEF Exclusive, BeginWrite, MayEnter, Enter, Locked, Writer
  <2>5. NoGrowth'
    <3>1. ASSUME table \in {"urbacks", "urb_table"}
          PROVE  id < Initial(table)
      <4>1. table' = table /\ beyond' = (beyond \/ id >= Initial(table))
        BY DEF BeginWrite
      <4>2. ~beyond'
        BY <1>4, <3>1, <4>1 DEF Safe
      <4>3. ~(id >= Initial(table))
        BY <4>1, <4>2
      <4> QED
        BY <1>0, <4>3, InitialPositive
    <3> QED
      BY <2>2, <2>3, <3>1 DEF NoGrowth, In, At, BeginWrite
  <2>6. Positions'
    BY <2>2, <2>3 DEF Positions, In, At, BeginWrite
  <2>7. Shape'
    BY <2>2, <2>3 DEF Shape, In, At, Outside, BeginWrite
  <2>8. Sizes' /\ Content' /\ ~overrun'
    BY DEF Sizes, Content, Defined, BeginWrite
  <2> QED
    BY <2>4, <2>5, <2>6, <2>7, <2>8
<1> QED
  BY <1>2, <1>3, <1>4

LEMMA EnterRead ==
  ASSUME IInv, NEW t \in Thread, NEW id \in Ids, BeginRead(t, id)
  PROVE  IInv'
<1> USE DEF IInv
<1>0. id \in Nat
  BY TablesAssumption
<1>1. thread' = [thread EXCEPT ![t] = At("read", id)]
  BY DEF BeginRead
<1>2. Types'
  BY <1>0, <1>1 DEF Types, BeginRead, ThreadState, At, Enter, Leave
<1>3. IdsOK'
  BY <1>1 DEF Types, IdsOK, In, At
<1>4. ASSUME Safe' PROVE SafeInv'
  <2>1. Safe /\ SafeInv
    BY <1>4, SafeBefore DEF BeginRead
  <2> USE <2>1 DEF SafeInv
  <2>2. \A u \in Thread : u # t => thread'[u] = thread[u]
    BY <1>1 DEF Types
  <2>3. thread'[t] = At("read", id) /\ thread[t] = Outside
    BY <1>1 DEF Types, BeginRead
  <2>4. Exclusive'
    BY <2>2, <2>3 DEF Exclusive, BeginRead, MayEnter, Enter, Locked, Reader
  <2>5. NoGrowth'
    BY <2>2, <2>3 DEF NoGrowth, In, At, BeginRead
  <2>6. Positions'
    BY <2>2, <2>3 DEF Positions, In, At, BeginRead
  <2>7. Shape'
    BY <2>2, <2>3 DEF Shape, In, At, Outside, BeginRead
  <2>8. Sizes' /\ Content' /\ ~overrun'
    BY DEF Sizes, Content, Defined, BeginRead
  <2> QED
    BY <2>4, <2>5, <2>6, <2>7, <2>8
<1> QED
  BY <1>2, <1>3, <1>4

\* A thread leaves without writing: refused, or at the end of a read.
LEMMA Leaves ==
  ASSUME IInv, NEW t \in Thread, Refuse(t) \/ Return(t)
  PROVE  IInv'
<1> USE DEF IInv
<1>1. /\ thread' = [thread EXCEPT ![t] = Outside]
      /\ mutex' = mutex \ {t}
      /\ UNCHANGED <<table, entries, total_entries, grown, written, beyond>>
  BY DEF Refuse, Return, Leave
<1>2. Types'
  BY <1>1 DEF Types, Refuse, Return, ThreadState
<1>3. IdsOK'
  BY <1>1 DEF Types, IdsOK, In, Outside
<1>4. ASSUME Safe' PROVE SafeInv'
  <2>1. Safe /\ SafeInv
    BY <1>1, <1>4, SafeBefore
  <2> USE <2>1 DEF SafeInv
  <2>2. \A u \in Thread : u # t => thread'[u] = thread[u]
    BY <1>1 DEF Types
  <2>3. thread'[t] = Outside /\ ~In(t, {"memset", "resize"})
    BY <1>1 DEF Types, Refuse, Return, In
  <2>4. Exclusive'
    BY <1>1, <2>2, <2>3 DEF Exclusive
  <2>5. NoGrowth'
    BY <1>1, <2>2, <2>3 DEF NoGrowth, In, Outside
  <2>6. Positions'
    BY <1>1, <2>2, <2>3 DEF Positions, In, Outside
  <2>7. Shape'
    BY <1>1, <2>2, <2>3 DEF Shape, In, Outside
  <2>8. Sizes' /\ Content'
    BY <1>1 DEF Sizes, Content, Defined
  <2>9. ~overrun'
    <3>1. CASE thread[t].pc = "load"
      <4>1. thread[t].id \in Nat
        BY <3>1 DEF Types, ThreadState, Outside
      <4>2. InBlock(thread[t])
        BY <3>1, <4>1 DEF Positions, In, Shape, InBlock, Types
      <4> QED
        BY <3>1, <4>2 DEF Refuse, Return
    <3>2. CASE thread[t].pc # "load"
      BY <3>2 DEF Refuse, Return
    <3> QED
      BY <3>1, <3>2
  <2> QED
    BY <2>4, <2>5, <2>6, <2>7, <2>8, <2>9
<1> QED
  BY <1>2, <1>3, <1>4

\* The test of the loop, and the comparison of a read: only the thread moves.
LEMMA Tests ==
  ASSUME IInv, NEW t \in Thread, Test(t) \/ Compare(t)
  PROVE  IInv'
<1> USE DEF IInv
<1> DEFINE s == thread'[t]
<1>1. /\ \A u \in Thread : u # t => thread'[u] = thread[u]
      /\ UNCHANGED <<table, entries, total_entries, mutex, grown, written, beyond, overrun, up>>
      /\ thread' = [thread EXCEPT ![t] = s]
  BY DEF Types, Test, Compare
<1>2. thread[t].id \in Nat /\ thread[t].pc \in {"write", "read"} /\ total_entries \in Nat \ {0}
  BY DEF Types, Test, Compare, ThreadState, Outside
<1>3. \/ /\ thread[t].pc = "write"
         /\ thread[t].id <= MAX_SIZE
         /\ thread[t].id >= total_entries
         /\ s = Growing("realloc", thread[t].id, total_entries)
      \/ /\ thread[t].id < total_entries
         /\ \/ thread[t].pc = "write" /\ s = Loaded("store", thread[t].id)
            \/ thread[t].pc = "read" /\ s = Loaded("load", thread[t].id)
  BY <1>2, TablesAssumption DEF Types, Test, Compare, AfterTest, TooLarge
<1>4. s \in ThreadState
  BY <1>2, <1>3 DEF ThreadState, Types, Growing, Loaded
<1>5. Types'
  BY <1>1, <1>4 DEF Types
<1>6. IdsOK'
  BY <1>1, <1>3 DEF Types, IdsOK, In, Growing, Loaded
<1>7. ASSUME Safe' PROVE SafeInv'
  <2>1. Safe /\ SafeInv
    BY <1>1, <1>7, SafeBefore
  <2> USE <2>1 DEF SafeInv
  <2>2. thread[t] # Outside
    BY <1>2 DEF Outside
  <2>3. Exclusive'
    BY <1>1, <2>2 DEF Exclusive
  <2>4. NoGrowth'
    BY <1>1, <1>2, <1>3, InitialPositive DEF NoGrowth, In, Growing, Loaded
  <2>5. Positions'
    BY <1>1, <1>3, <1>2 DEF Positions, In, Growing, Loaded, IdsOK
  <2>6. Shape'
    BY <1>1, <1>2, <1>3 DEF Shape, In, Growing, Loaded
  <2>7. Sizes' /\ Content' /\ ~overrun'
    BY <1>1 DEF Sizes, Content, Defined
  <2> QED
    BY <2>3, <2>4, <2>5, <2>6, <2>7
<1> QED
  BY <1>5, <1>6, <1>7

\* realloc: what the entries held stays, and the block has twice the size.
LEMMA Moves ==
  ASSUME IInv, NEW t \in Thread, Realloc(t)
  PROVE  IInv'
<1> USE DEF IInv
<1> DEFINE old == thread[t].old
           new == 0 .. Room(table, 2 * old) - 1
<1>1. /\ thread' = [thread EXCEPT ![t].pc = "memset"]
      /\ UNCHANGED <<table, total_entries, mutex, grown, written, beyond, overrun, up>>
  BY DEF Realloc
<1>2. /\ thread[t] \in [pc : {"realloc", "memset", "resize"}, id : Nat, old : Nat \ {0}]
      /\ thread[t].pc = "realloc"
  BY DEF Types, Realloc, ThreadState, Outside
<1>3. /\ \A u \in Thread : u # t => thread'[u] = thread[u]
      /\ thread'[t] = [pc |-> "memset", id |-> thread[t].id, old |-> old]
  BY <1>1, <1>2 DEF Types
<1>4. PICK fresh \in [new \ DOMAIN entries -> Fresh] :
        entries' = [i \in new |-> IF i \in DOMAIN entries THEN entries[i] ELSE fresh[i]]
  BY DEF Realloc
<1>5. DOMAIN entries' = new /\ new \subseteq Int
  BY <1>4
<1>6. Types'
  BY <1>1, <1>2, <1>3, <1>5 DEF Types, ThreadState
<1>7. IdsOK'
  BY <1>1, <1>2, <1>3 DEF IdsOK, In
<1>8. ASSUME Safe' PROVE SafeInv'
  <2>1. Safe /\ SafeInv
    BY <1>1, <1>8, SafeBefore
  <2> USE <2>1 DEF SafeInv
  <2>2. table \in {"acks", "delivered"}
    BY <1>2 DEF NoGrowth, In, Types, Table
  <2>3. \A u \in Thread : u # t => thread'[u] = Outside
    BY <1>2, <1>3, <2>2 DEF Exclusive, Outside
  <2>4. old = total_entries /\ DOMAIN entries = 0 .. total_entries - 1 /\ total_entries \in Nat \ {0}
    <3>1. \A u \in Thread : ~In(u, {"memset", "resize"})
      BY <1>2, <1>3, <2>3 DEF In, Outside
    <3> QED
      BY <1>2, <3>1 DEF Positions, Shape, In, Types
  <2>5. DOMAIN entries' = 0 .. 2 * total_entries - 1
    BY <1>5, <2>2, <2>4 DEF Room
  <2>6. \A i \in 0 .. total_entries - 1 : entries'[i] = entries[i]
    <3>1. \A i \in 0 .. total_entries - 1 : i \in new /\ i \in DOMAIN entries
      <4>1. new = 0 .. 2 * total_entries - 1
        BY <1>5, <2>5
      <4> HIDE DEF new, old
      <4> QED
        BY <2>4, <4>1
    <3> QED
      BY <1>4, <3>1
  <2>7. Exclusive'
    BY <1>1, <1>3, <2>3, <1>2 DEF Exclusive, Outside
  <2>8. NoGrowth'
    BY <1>1, <2>2 DEF NoGrowth
  <2>9. Positions'
    <3>1. thread[t].id >= total_entries /\ thread[t].id <= MAX_SIZE
      BY <1>2 DEF Positions, In
    <3> QED
      BY <1>1, <1>3, <2>3, <2>4, <2>5, <3>1 DEF Positions, In, Outside
  <2>10. Shape'
    <3>1. In(t, {"memset", "resize"})'
      BY <1>3 DEF In
    <3> QED
      BY <1>1, <2>4, <2>5, <3>1 DEF Shape
  <2>11. Sizes' /\ Content'
    BY <1>1, <2>4, <2>6 DEF Sizes, Content, Defined
  <2> QED
    BY <1>1, <2>7, <2>8, <2>9, <2>10, <2>11
<1> QED
  BY <1>6, <1>7, <1>8

\* memset: only new entries change, and none outside the block.
LEMMA Clears ==
  ASSUME IInv, NEW t \in Thread, Memset(t)
  PROVE  IInv'
<1> USE DEF IInv
<1> DEFINE old == thread[t].old
<1>1. /\ thread' = [thread EXCEPT ![t].pc = "resize"]
      /\ entries' = [i \in DOMAIN entries |-> IF i \in Cleared(table, old) THEN 0 ELSE entries[i]]
      /\ overrun' = ~(Touched(table, old) \subseteq DOMAIN entries)
      /\ UNCHANGED <<table, total_entries, mutex, grown, written, beyond, up>>
  BY DEF Memset
<1>2. /\ thread[t] \in [pc : {"realloc", "memset", "resize"}, id : Nat, old : Nat \ {0}]
      /\ thread[t].pc = "memset"
  BY DEF Types, Memset, ThreadState, Outside
<1>3. /\ \A u \in Thread : u # t => thread'[u] = thread[u]
      /\ thread'[t] = [pc |-> "resize", id |-> thread[t].id, old |-> old]
  BY <1>1, <1>2 DEF Types
<1>4. DOMAIN entries' = DOMAIN entries
  BY <1>1
<1>5. Types'
  BY <1>1, <1>2, <1>3, <1>4 DEF Types, ThreadState
<1>6. IdsOK'
  BY <1>1, <1>2, <1>3 DEF IdsOK, In
<1>7. ASSUME Safe' PROVE SafeInv'
  <2>1. Safe /\ SafeInv
    BY <1>1, <1>7, SafeBefore
  <2> USE <2>1 DEF SafeInv
  <2>2. table \in {"acks", "delivered"}
    BY <1>2 DEF NoGrowth, In, Types, Table
  <2>3. \A u \in Thread : u # t => thread'[u] = Outside
    BY <1>2, <1>3, <2>2 DEF Exclusive, Outside
  <2>4. /\ old = total_entries
        /\ DOMAIN entries = 0 .. 2 * total_entries - 1
        /\ total_entries \in Nat \ {0}
        /\ thread[t].id >= total_entries /\ thread[t].id <= MAX_SIZE
    BY <1>2 DEF Positions, In, Types
  <2>5. /\ \A i \in 0 .. total_entries - 1 : entries'[i] = entries[i]
        /\ \A i \in total_entries .. total_entries + total_entries \div 4 - 1 : entries'[i] = 0
    <3>1. Cleared(table, old) = total_entries .. total_entries + total_entries \div 4 - 1
      BY <2>2, <2>4 DEF Cleared, Bytes
    <3> QED
      BY <1>1, <2>4, <3>1
  <2>6. ~overrun'
    <3>1. Touched(table, old) \subseteq 0 .. 2 * total_entries - 1
      BY <2>2, <2>4 DEF Touched, Bytes
    <3> QED
      BY <1>1, <2>4, <3>1
  <2>7. Exclusive'
    BY <1>1, <1>2, <1>3, <2>3 DEF Exclusive, Outside
  <2>8. NoGrowth'
    BY <1>1, <2>2 DEF NoGrowth
  <2>9. Positions'
    <3> HIDE DEF old
    <3>1. \A u \in Thread : u # t => Outside.pc = "outside" /\ thread'[u] = Outside
      BY <2>3 DEF Outside
    <3>2. DOMAIN entries' = 0 .. 2 * total_entries' - 1
      BY <1>1, <1>4, <2>4
    <3>3. /\ thread'[t].pc = "resize"
          /\ thread'[t].old = total_entries'
          /\ thread'[t].id >= total_entries'
          /\ thread'[t].id <= MAX_SIZE
      BY <1>1, <1>3, <2>4
    <3>4. \A i \in total_entries' .. total_entries' + total_entries' \div 4 - 1 : entries'[i] = 0
      BY <1>1, <2>5
    <3> QED
      BY <3>1, <3>2, <3>3, <3>4 DEF Positions, In
  <2>10. Shape'
    <3>1. In(t, {"memset", "resize"})'
      BY <1>3 DEF In
    <3> QED
      BY <1>1, <1>4, <2>4, <3>1 DEF Shape
  <2>11. Sizes' /\ Content'
    BY <1>1, <2>4, <2>5 DEF Sizes, Content, Defined
  <2> QED
    BY <2>6, <2>7, <2>8, <2>9, <2>10, <2>11
<1> QED
  BY <1>5, <1>6, <1>7

\* The new size: the entries it adds are new, and a quarter of them are 0.
LEMMA Resizes ==
  ASSUME IInv, NEW t \in Thread, Resize(t)
  PROVE  IInv'
<1> USE DEF IInv
<1> DEFINE old == thread[t].old
<1>1. /\ thread' = [thread EXCEPT ![t] = At("write", @.id)]
      /\ total_entries' = 2 * old
      /\ grown' = grown \cup {old}
      /\ UNCHANGED <<table, entries, mutex, written, beyond, overrun, up>>
  BY DEF Resize, NewSize
<1>2. /\ thread[t] \in [pc : {"realloc", "memset", "resize"}, id : Nat, old : Nat \ {0}]
      /\ thread[t].pc = "resize"
  BY DEF Types, Resize, ThreadState, Outside
<1>3. /\ \A u \in Thread : u # t => thread'[u] = thread[u]
      /\ thread'[t] = [pc |-> "write", id |-> thread[t].id]
  BY <1>1, <1>2 DEF Types, At
<1>4. Types'
  BY <1>1, <1>2, <1>3 DEF Types, ThreadState
<1>5. IdsOK'
  BY <1>1, <1>2, <1>3 DEF IdsOK, In
<1>6. ASSUME Safe' PROVE SafeInv'
  <2>1. Safe /\ SafeInv
    BY <1>1, <1>6, SafeBefore
  <2> USE <2>1 DEF SafeInv
  <2>2. table \in {"acks", "delivered"}
    BY <1>2 DEF NoGrowth, In, Types, Table
  <2>3. \A u \in Thread : u # t => thread'[u] = Outside
    BY <1>2, <1>3, <2>2 DEF Exclusive, Outside
  <2>4. /\ old = total_entries
        /\ DOMAIN entries = 0 .. 2 * total_entries - 1
        /\ total_entries \in Nat \ {0}
        /\ thread[t].id >= total_entries /\ thread[t].id <= MAX_SIZE
        /\ \A i \in total_entries .. total_entries + total_entries \div 4 - 1 : entries[i] = 0
    BY <1>2 DEF Positions, In, Types
  <2>5. Exclusive'
    BY <1>1, <1>2, <1>3, <2>3 DEF Exclusive, Outside
  <2>6. NoGrowth'
    BY <1>1, <2>2 DEF NoGrowth
  <2>7. Positions'
    BY <1>1, <1>3, <2>3 DEF Positions, In, Outside
  <2>8. Shape'
    BY <1>1, <2>4 DEF Shape
  <2>9. Sizes'
    <3> HIDE DEF old
    <3>1. Initial(table) \in Nat /\ MAX_SIZE \in Nat
      BY InitialPositive, TablesAssumption
    <3>2. total_entries' = 2 * total_entries /\ grown' = grown \cup {total_entries}
      BY <1>1, <2>4
    <3>3. Initial(table) <= total_entries'
      BY <2>4, <3>1, <3>2 DEF Sizes
    <3>4. ASSUME NEW o \in grown' PROVE o + o \div 4 <= total_entries'
      BY <2>4, <3>2 DEF Sizes, Types
    <3>5. total_entries' <= 2 * MAX_SIZE
      BY <1>2, <2>4, <3>1, <3>2
    <3> QED
      BY <1>1, <3>3, <3>4, <3>5 DEF Sizes
  <2>10. Content'
    <3>1. written' \subseteq 0 .. total_entries' - 1
      BY <1>1, <2>4 DEF Content
    <3>2. ASSUME NEW i \in 0 .. total_entries' - 1, i \in written'
          PROVE  entries'[i] = 1
      BY <1>1, <2>4, <3>2 DEF Content
    <3>3. ASSUME NEW i \in 0 .. total_entries' - 1, i \notin written', Defined(i)'
          PROVE  entries'[i] = 0
      <4>1. CASE i < total_entries
        <5>1. Defined(i)
          BY <1>1, <2>4, <3>3, <4>1 DEF Defined
        <5> QED
          BY <1>1, <2>4, <3>3, <4>1, <5>1 DEF Content
      <4>2. CASE i >= total_entries
        <5>1. i < total_entries + total_entries \div 4
          BY <1>1, <2>4, <3>3, <4>2, InitialPositive DEF Defined, Sizes, Types
        <5> QED
          BY <1>1, <2>4, <4>2, <5>1
      <4> QED
        BY <1>1, <2>4, <4>1, <4>2
    <3> QED
      BY <3>1, <3>2, <3>3 DEF Content
  <2> QED
    BY <1>1, <2>5, <2>6, <2>7, <2>8, <2>9, <2>10
<1> QED
  BY <1>4, <1>5, <1>6

\* A write: of an entry of the table.
LEMMA Stores ==
  ASSUME IInv, NEW t \in Thread, Store(t)
  PROVE  IInv'
<1> USE DEF IInv
<1> DEFINE id == thread[t].id
<1>1. /\ thread' = [thread EXCEPT ![t] = Outside]
      /\ mutex' = mutex \ {t}
      /\ written' = written \cup {id}
      /\ UNCHANGED <<table, total_entries, grown, beyond, up>>
  BY DEF Store, Leave
<1>2. thread[t].pc = "store" /\ id \in Nat /\ id \in Ids
  BY DEF Types, Store, ThreadState, Outside, IdsOK, In
<1>3. /\ \A u \in Thread : u # t => thread'[u] = thread[u]
      /\ thread'[t] = Outside
  BY <1>1 DEF Types
<1>4. DOMAIN entries' = DOMAIN entries
  BY DEF Store
<1>5. Types'
  BY <1>1, <1>2, <1>4 DEF Types, ThreadState
<1>6. IdsOK'
  BY <1>1, <1>3 DEF IdsOK, In, Outside
<1>7. ASSUME Safe' PROVE SafeInv'
  <2>1. Safe /\ SafeInv
    BY <1>1, <1>7, SafeBefore
  <2> USE <2>1 DEF SafeInv
  <2>2. InBlock(thread[t]) /\ id < total_entries
    BY <1>2 DEF Positions, In, Shape, InBlock, Types
  <2>3. entries' = [entries EXCEPT ![id] = 1] /\ ~overrun'
    BY <2>2 DEF Store
  <2>4. /\ entries'[id] = 1
        /\ \A i \in DOMAIN entries : i # id => entries'[i] = entries[i]
    BY <2>2, <2>3 DEF InBlock
  <2>5. Exclusive'
    BY <1>1, <1>2, <1>3 DEF Exclusive, Outside
  <2>6. NoGrowth'
    BY <1>1, <1>3 DEF NoGrowth, In, Outside
  <2>7. Positions'
    <3>1. ASSUME NEW u \in Thread, In(u, {"resize"})'
          PROVE  \A i \in total_entries .. total_entries + total_entries \div 4 - 1 : entries'[i] = 0
      <4>1. u # t /\ In(u, {"resize"})
        BY <1>3, <3>1 DEF In, Outside
      <4>2. table \in {"urbacks", "urb_table"}
        BY <1>2, <4>1 DEF Exclusive, In, Outside, Types, Table
      <4> QED
        BY <4>1, <4>2 DEF NoGrowth, In
    <3> QED
      BY <1>1, <1>3, <1>4, <3>1 DEF Positions, In, Outside
  <2>8. Shape'
    BY <1>1, <1>2, <1>3, <1>4 DEF Shape, In, Outside
  <2>9. Sizes'
    BY <1>1 DEF Sizes
  <2>10. Content'
    <3>1. \A i \in 0 .. total_entries - 1 : i # id => entries'[i] = entries[i]
      BY <2>4 DEF Shape
    <3>2. \A i \in 0 .. total_entries - 1 : Defined(i)' <=> Defined(i)
      BY <1>1 DEF Defined
    <3>3. written' \subseteq 0 .. total_entries - 1
      <4>1. id \in 0 .. total_entries - 1
        BY <1>2, <2>2 DEF Types
      <4> HIDE DEF id
      <4> QED
        BY <1>1, <4>1 DEF Content
    <3> QED
      BY <1>1, <2>4, <3>1, <3>2, <3>3 DEF Content
  <2> QED
    BY <2>3, <2>5, <2>6, <2>7, <2>8, <2>9, <2>10
<1> QED
  BY <1>5, <1>6, <1>7

LEMMA IInvStep ==
  ASSUME IInv, [Next]_vars
  PROVE  IInv'
<1>1. CASE UNCHANGED vars
  BY <1>1 DEF vars, IInv, Types, IdsOK, In, Safe, SafeInv, Exclusive, NoGrowth, Positions,
              Shape, Sizes, Content, Defined
<1>2. CASE Next
  BY <1>2, EnterWrite, EnterRead, Leaves, Tests, Moves, Clears, Resizes, Stores DEF Next, Step
<1> QED
  BY <1>1, <1>2

LEMMA IInvAlways == Spec => []IInv
BY IInvInit, IInvStep, PTL DEF Spec

-----------------------------------------------------------------------------
(* What follows from the invariant.                                        *)

\* The flags stay booleans.
LEMMA BooleansStay ==
  ASSUME beyond \in BOOLEAN /\ overrun \in BOOLEAN /\ up \in BOOLEAN, [Next]_vars
  PROVE  (beyond \in BOOLEAN /\ overrun \in BOOLEAN /\ up \in BOOLEAN)'
<1>1. ASSUME NEW t \in Thread, NEW id \in Ids, BeginWrite(t, id)
      PROVE  (beyond \in BOOLEAN /\ overrun \in BOOLEAN /\ up \in BOOLEAN)'
  BY <1>1, Zenon DEF BeginWrite
<1>2. ASSUME NEW t \in Thread, NEW id \in Ids, BeginRead(t, id)
      PROVE  (beyond \in BOOLEAN /\ overrun \in BOOLEAN /\ up \in BOOLEAN)'
  BY <1>2, Zenon DEF BeginRead
<1>3. ASSUME NEW t \in Thread, Step(t)
      PROVE  (beyond \in BOOLEAN /\ overrun \in BOOLEAN /\ up \in BOOLEAN)'
  <2>1. CASE Refuse(t)
    BY <2>1, Zenon DEF Refuse
  <2>2. CASE Test(t)
    BY <2>2, Zenon DEF Test
  <2>3. CASE Realloc(t)
    BY <2>3, Zenon DEF Realloc
  <2>4. CASE Memset(t)
    BY <2>4, Zenon DEF Memset
  <2>5. CASE Resize(t)
    BY <2>5, Zenon DEF Resize
  <2>6. CASE Store(t)
    BY <2>6, Zenon DEF Store
  <2>7. CASE Compare(t)
    BY <2>7, Zenon DEF Compare
  <2>8. CASE Return(t)
    BY <2>8, Zenon DEF Return
  <2> QED
    BY <1>3, <2>1, <2>2, <2>3, <2>4, <2>5, <2>6, <2>7, <2>8, Zenon DEF Step
<1>4. CASE UNCHANGED vars
  BY <1>4, Zenon DEF vars
<1> QED
  BY <1>1, <1>2, <1>3, <1>4, Zenon DEF Next

\* The variables have their types, and a table never believes to have more entries
\* than the block that realloc gave it (src/plink.c:57-66).
THEOREM TypeCorrect == Spec => []TypeOK
<1> DEFINE Booleans == beyond \in BOOLEAN /\ overrun \in BOOLEAN /\ up \in BOOLEAN
<1>1. Init => Booleans
  BY DEF Init
<1>2. Booleans /\ [Next]_vars => Booleans'
  BY BooleansStay
<1>3. IInv /\ Booleans => TypeOK
  BY DEF IInv, Types, SafeInv, Shape, Sizes, GrowthBounded, TypeOK, ThreadState, Outside
<1> QED
  BY <1>1, <1>2, <1>3, IInvAlways, PTL DEF Spec

\* Memory safety of the tables of perfect links for all ids, and of those of uniform
\* reliable broadcast for the ids of the first block.
THEOREM MemorySafe == Spec => []NoOverrun
<1>1. IInv => NoOverrun
  BY DEF IInv, SafeInv, NoOverrun
<1> QED
  BY <1>1, IInvAlways, PTL

\* table_read_entry finds what table_write_entry has written, whatever growths came
\* between.
THEOREM Remembered == Spec => []WrittenIsFound
<1>1. IInv => WrittenIsFound
  <2> SUFFICES ASSUME IInv, Safe, NEW id \in written PROVE ReadEntry(id) = 1
    BY DEF WrittenIsFound
  <2>1. id \in 0 .. total_entries - 1
    BY DEF IInv, SafeInv, Content
  <2> QED
    BY <2>1 DEF IInv, Types, SafeInv, Content, ReadEntry
<1> QED
  BY <1>1, IInvAlways, PTL

\* table_read_entry returns 0 for an id that is not written, outside the three
\* quarters of a growth that memset leaves as they are (src/plink.c:64).
THEOREM ZeroUnlessWritten == Spec => []UnwrittenReadsZero
<1>1. IInv => UnwrittenReadsZero
  <2> SUFFICES ASSUME IInv, Safe, NEW id \in Ids \ written,
                      id >= total_entries \/ Defined(id)
               PROVE  ReadEntry(id) = 0
    BY DEF UnwrittenReadsZero
  <2>1. id \in Nat /\ total_entries \in Nat
    BY TablesAssumption DEF IInv, Types
  <2>2. CASE id >= total_entries
    BY <2>2 DEF ReadEntry
  <2>3. CASE id < total_entries
    BY <2>1, <2>3 DEF IInv, SafeInv, Content, ReadEntry
  <2> QED
    BY <2>1, <2>2, <2>3
<1> QED
  BY <1>1, IInvAlways, PTL

\* The limit on ids bounds the memory of a table (src/plink.c:53).
THEOREM Bounded == Spec => []GrowthBounded
<1>1. IInv => GrowthBounded
  BY DEF IInv, SafeInv, Sizes, GrowthBounded
<1> QED
  BY <1>1, IInvAlways, PTL

\* The rows of the first block: the row of a message is inside, and followed by
\* another entry unless it is the last.
LEMMA RowsFit ==
  ASSUME NEW s \in 0 .. no_msgs * num_proc - 1
  PROVE  /\ num_proc * s \in Nat
         /\ num_proc * s + num_proc <= no_msgs * num_proc * num_proc
         /\ num_proc * s + num_proc < no_msgs * num_proc * num_proc
              <=> s < no_msgs * num_proc - 1
<1> DEFINE M == no_msgs * num_proc
<1>1. M \in Nat \ {0} /\ num_proc \in Nat \ {0} /\ s \in Nat /\ s <= M - 1
  BY TablesAssumption
<1>2. num_proc * s + num_proc = num_proc * (s + 1) /\ M * num_proc = num_proc * M
  BY <1>1
<1>3. num_proc * s \in Nat
  BY <1>1
<1> HIDE DEF M
<1>4. \A n \in Nat \ {0}, a, b \in Nat : a < b => n * a < n * b
  OBVIOUS
<1>5. s < M - 1 => num_proc * (s + 1) < num_proc * M
  BY <1>1, <1>4
<1>6. s = M - 1 => num_proc * (s + 1) = num_proc * M
  BY <1>1
<1>7. num_proc * (s + 1) \in Int /\ num_proc * M \in Int
  BY <1>1
<1>8. s < M - 1 \/ s = M - 1
  BY <1>1
<1>9. /\ num_proc * (s + 1) <= num_proc * M
      /\ num_proc * (s + 1) < num_proc * M <=> s < M - 1
  BY <1>1, <1>5, <1>6, <1>7, <1>8
<1> QED
  BY <1>2, <1>3, <1>9 DEF M

\* can_deliver counts a majority (src/urb.c:229-246), and never that of the message
\* in the last row.
THEOREM MajorityCounted == Spec => []CanDeliverIsMajority
<1>1. IInv => CanDeliverIsMajority
  <2> SUFFICES ASSUME IInv, table = "urbacks", Safe, NEW s \in 0 .. no_msgs * num_proc - 1
               PROVE  CanDeliver(s) <=>
                        s < no_msgs * num_proc - 1 /\ 2 * Cardinality(Acked(s)) > num_proc
    BY DEF CanDeliverIsMajority
  <2>1. total_entries = no_msgs * num_proc * num_proc
    BY DEF IInv, SafeInv, NoGrowth, Initial
  <2>2. InTable(s) <=> s < no_msgs * num_proc - 1
    BY <2>1, RowsFit DEF InTable
  <2>3. Row(s) \subseteq 0 .. total_entries - 1
    BY <2>1, RowsFit, TablesAssumption DEF Row, IInv, Types
  <2>4. \A i \in Row(s) : entries[i] = 1 <=> i \in written
    <3>1. \A i \in 0 .. total_entries - 1 : Defined(i)
      BY <2>1 DEF Defined, Initial
    <3> QED
      BY <2>3, <3>1 DEF IInv, SafeInv, Content
  <2>5. Count(s) = Cardinality(Acked(s))
    <3>1. {i \in Row(s) : entries[i] = 1} = Acked(s)
      BY <2>4 DEF Acked
    <3> QED
      BY <3>1 DEF Count
  <2>6. Cardinality(Acked(s)) \in Nat
    <3>1. IsFiniteSet(Row(s))
      BY FS_Interval, RowsFit, TablesAssumption DEF Row
    <3> QED
      BY <3>1, FS_Subset, FS_CardinalityType DEF Acked
  <2>7. Count(s) > num_proc \div 2 <=> 2 * Cardinality(Acked(s)) > num_proc
    BY <2>5, <2>6, TablesAssumption
  <2> QED
    BY <2>2, <2>7 DEF CanDeliver
<1> QED
  BY <1>1, IInvAlways, PTL
=============================================================================
