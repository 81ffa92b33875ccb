----------------------------- MODULE LcbProofs ------------------------------
(***************************************************************************)
(* Proofs about Lcb, for any number of processes and messages, any lists   *)
(* of dependencies and any number of stops.                                *)
(*                                                                         *)
(* Once find_pending has delivered a message, its receiver thread never    *)
(* leaves find_pending again: it ends in an error, a crash or a loop.      *)
(* Until then, the pending messages are those handed over and not applied, *)
(* and the clock counts what is applied; later, the clock may be wrong,    *)
(* but no message is delivered any more.                                   *)
(***************************************************************************)
EXTENDS Lcb, FiniteSetTheorems, TLAPS

-----------------------------------------------------------------------------
(* Types.                                                                  *)

Message ==
  {m \in [orig : Proc, seq : Nat, vec : [Proc -> Nat], past : SUBSET MsgId] : Id(m) \in MsgId}
LogLine ==
  [ev : {"b"}, seq : Nat] \cup [ev : {"d"}, pid : Proc, seq : Nat, msg : Message \cup {NoMsg}]

ReceiverOK(s) ==
  /\ s.pc \in {"idle", "hung", "log", "find", "findlog", "remove", "freed"}
  /\ s.pc = "log" => s.msg \in Message
  /\ s.pc \in {"find", "findlog", "remove", "freed"} => s.list \in Proc
  /\ s.pc \in {"findlog", "remove"} => s.msg \in Message \cup {NoMsg}

Types ==
  /\ nextSeq \in [Proc -> Nat]
  /\ \A p \in Proc : nextSeq[p] <= NumMsg[p]
  /\ outgoing \in [Proc -> SUBSET Message]
  /\ broadcast \subseteq Message
  /\ urbDelivered \in [Proc -> SUBSET Message]
  /\ vector_clock \in [Proc -> [Proc -> Nat]]
  /\ lcb_pending \in [Proc -> [Proc -> Seq(Message)]]
  /\ \A p, q \in Proc : \A i \in DOMAIN lcb_pending[p][q] : lcb_pending[p][q][i].orig = q
  /\ DOMAIN receiver = Proc
  /\ \A p \in Proc : ReceiverOK(receiver[p])
  /\ log \in [Proc -> Seq(LogLine)]
  /\ killed \subseteq Proc
  /\ up \in [Proc -> BOOLEAN]

-----------------------------------------------------------------------------
(* What the receiver thread of a process r relies on.                      *)

\* What is applied or pending has been handed over by uniform reliable broadcast.
Handed(r) ==
  /\ urbDelivered[r] \subseteq broadcast
  /\ Applied(r) \subseteq urbDelivered[r]
  /\ Pending(r) \subseteq urbDelivered[r]

\* Nothing from find_pending's list has been delivered yet.
Orderly(r) == receiver[r].pc \in {"idle", "log", "find"}

\* A delivery of a known message is under way.
Delivering(r) ==
  receiver[r].pc = "log" \/ (receiver[r].pc = "findlog" /\ receiver[r].msg # NoMsg)

Apart(r) == Orderly(r) => Pending(r) \cap Applied(r) = {}
Unlogged(r) == Delivering(r) => receiver[r].msg \notin Logged(r)
Once(r) == \A i, j \in Known(r) : log[r][i].msg = log[r][j].msg => i = j

\* find_pending has emptied the lists before the one it is at; a pending message that
\* waits while the thread is idle is not deliverable.
Looking(r) ==
  /\ receiver[r].pc = "find" =>
       \A q \in Proc : q < receiver[r].list => lcb_pending[r][q] = <<>>
  /\ receiver[r].pc = "idle" => \A m \in Pending(r) : ~TestVecClock(r, m)

\* One entry of the clock agrees with the log.
LinesOf(r, q) == {i \in InLog(r) : log[r][i].pid = q}
Owed(r, q) == IF \/ receiver[r].pc = "log" /\ receiver[r].msg.orig = q
                 \/ receiver[r].pc = "findlog" /\ receiver[r].list = q THEN 1 ELSE 0
Counting(r) == \A q \in Proc : vector_clock[r][q] = Cardinality(LinesOf(r, q)) + Owed(r, q)

Local(r) == Handed(r) /\ Apart(r) /\ Unlogged(r) /\ Once(r) /\ Looking(r) /\ Counting(r)

BaseInv == Types /\ \A r \in Proc : Local(r)

-----------------------------------------------------------------------------
(* Lemmas about messages, lines and lists.                                 *)

LEMMA MessageElim ==
  ASSUME NEW m \in Message
  PROVE  /\ m.orig \in Proc
         /\ m.seq \in 1 .. NumMsg[m.orig]
         /\ m.vec \in [Proc -> Nat]
         /\ m.past \subseteq MsgId
         /\ Id(m) \in MsgId
         /\ m # NoMsg
<1>1. m.orig \in Proc /\ m.vec \in [Proc -> Nat] /\ m.past \subseteq MsgId /\ Id(m) \in MsgId
  BY DEF Message
<1>2. m.seq \in 1 .. NumMsg[m.orig]
  BY <1>1 DEF MsgId, Id
<1>3. m # NoMsg
  BY <1>1, LcbAssumption DEF NoMsg, Proc
<1> QED BY <1>1, <1>2, <1>3

\* A line for a broadcast changes neither the lines of deliveries nor their indices.
LEMMA AppendB ==
  ASSUME NEW l \in Seq(LogLine), NEW e \in LogLine, e.ev = "b"
  PROVE  LET k == Append(l, e)
         IN /\ k \in Seq(LogLine)
            /\ {i \in DOMAIN k : k[i].ev = "d"} = {i \in DOMAIN l : l[i].ev = "d"}
            /\ \A i \in DOMAIN l : k[i] = l[i]
OBVIOUS

\* A line for a delivery adds one index, after all others.
LEMMA AppendD ==
  ASSUME NEW l \in Seq(LogLine), NEW e \in LogLine, e.ev = "d"
  PROVE  LET k == Append(l, e)
             n == Len(l) + 1
         IN /\ k \in Seq(LogLine)
            /\ {i \in DOMAIN k : k[i].ev = "d"} = {i \in DOMAIN l : l[i].ev = "d"} \cup {n}
            /\ \A i \in DOMAIN l : k[i] = l[i] /\ i < n /\ i # n /\ i \in Nat
            /\ k[n] = e
            /\ n \in Nat
OBVIOUS

LEMMA LogB ==
  ASSUME Types, NEW p \in Proc, NEW e \in LogLine, e.ev = "b",
         log' = [log EXCEPT ![p] = Append(@, e)]
  PROVE  /\ log' \in [Proc -> Seq(LogLine)]
         /\ InLog(p)' = InLog(p)
         /\ Known(p)' = Known(p)
         /\ Logged(p)' = Logged(p)
         /\ \A i \in InLog(p) : log'[p][i] = log[p][i]
<1>1. log[p] \in Seq(LogLine) /\ log'[p] = Append(log[p], e)
  BY DEF Types
<1>2. /\ log'[p] \in Seq(LogLine)
      /\ InLog(p)' = InLog(p)
      /\ \A i \in DOMAIN log[p] : log'[p][i] = log[p][i]
  BY <1>1, AppendB DEF InLog
<1>3. \A i \in InLog(p) : log'[p][i] = log[p][i]
  BY <1>2 DEF InLog
<1>4. log' \in [Proc -> Seq(LogLine)]
  BY <1>2 DEF Types
<1>5. Known(p)' = Known(p)
  BY <1>2, <1>3 DEF Known
<1>6. Logged(p)' = Logged(p)
  BY <1>2, <1>3 DEF Logged
<1> QED BY <1>2, <1>3, <1>4, <1>5, <1>6

\* A line for a delivery is written at the end of the log of p.
LogGrows(p, e) ==
  /\ log' \in [Proc -> Seq(LogLine)]
  /\ InLog(p)' = InLog(p) \cup {Len(log[p]) + 1}
  /\ Known(p)' = Known(p) \cup (IF e.msg = NoMsg THEN {} ELSE {Len(log[p]) + 1})
  /\ Logged(p)' = Logged(p) \cup ({e.msg} \ {NoMsg})
  /\ \A i \in InLog(p) : /\ log'[p][i] = log[p][i]
                        /\ i < Len(log[p]) + 1 /\ i # Len(log[p]) + 1
                        /\ i \in Nat
  /\ log'[p][Len(log[p]) + 1] = e
  /\ Len(log[p]) + 1 \in Nat

LEMMA LogD ==
  ASSUME Types, NEW p \in Proc, NEW e \in LogLine, e.ev = "d",
         log' = [log EXCEPT ![p] = Append(@, e)]
  PROVE  LogGrows(p, e)
<1> DEFINE n == Len(log[p]) + 1
<1>1. log[p] \in Seq(LogLine) /\ log'[p] = Append(log[p], e)
  BY DEF Types
<1>2. /\ log'[p] \in Seq(LogLine)
      /\ InLog(p)' = InLog(p) \cup {n}
      /\ \A i \in DOMAIN log[p] : log'[p][i] = log[p][i] /\ i < n /\ i # n /\ i \in Nat
      /\ log'[p][n] = e
      /\ n \in Nat
  BY <1>1, AppendD DEF InLog
<1>3. \A i \in InLog(p) : log'[p][i] = log[p][i] /\ i < n /\ i # n /\ i \in Nat
  BY <1>2 DEF InLog
<1>4. log' \in [Proc -> Seq(LogLine)]
  BY <1>2 DEF Types
<1> HIDE DEF n
<1>5. Known(p)' = Known(p) \cup (IF e.msg = NoMsg THEN {} ELSE {n})
  BY <1>2, <1>3 DEF Known
<1>6. Logged(p)' = Logged(p) \cup ({e.msg} \ {NoMsg})
  BY <1>2, <1>3 DEF Logged
<1> QED BY <1>2, <1>3, <1>4, <1>5, <1>6 DEF n, LogGrows

\* The lines of deliveries of a process are finitely many.
LEMMA InLogFinite ==
  ASSUME Types, NEW p \in Proc, NEW q
  PROVE  IsFiniteSet(LinesOf(p, q))
<1>1. log[p] \in Seq(LogLine) /\ Len(log[p]) \in Nat /\ DOMAIN log[p] = 1 .. Len(log[p])
  BY DEF Types
<1>2. IsFiniteSet(1 .. Len(log[p]))
  <2>1. 1 \in Int /\ Len(log[p]) \in Int
    BY <1>1
  <2> QED BY <2>1, FS_Interval
<1>3. LinesOf(p, q) \subseteq 1 .. Len(log[p])
  BY <1>1 DEF LinesOf, InLog
<1> QED BY <1>2, <1>3, FS_Subset

\* A pending message is in the list of its sender.
LEMMA PendingElim ==
  ASSUME Types, NEW p \in Proc, NEW m \in Pending(p)
  PROVE  /\ m.orig \in Proc
         /\ \E i \in DOMAIN lcb_pending[p][m.orig] : lcb_pending[p][m.orig][i] = m
<1>1. PICK q \in Proc : \E i \in DOMAIN lcb_pending[p][q] : lcb_pending[p][q][i] = m
  BY DEF Pending
<1>2. m.orig = q
  BY <1>1 DEF Types
<1> QED BY <1>1, <1>2

\* A message at the end of the list of its sender.
LEMMA PendingAdded ==
  ASSUME Types, NEW p \in Proc, NEW m \in Message, lcb_pending' = AddPending(p, m)
  PROVE  /\ lcb_pending' \in [Proc -> [Proc -> Seq(Message)]]
         /\ \A q \in Proc : \A i \in DOMAIN lcb_pending'[p][q] : lcb_pending'[p][q][i].orig = q
         /\ Pending(p)' = Pending(p) \cup {m}
<1> DEFINE o == m.orig
           l == lcb_pending[p][o]
<1>1. /\ o \in Proc
      /\ l \in Seq(Message)
      /\ lcb_pending' = [lcb_pending EXCEPT ![p][o] = Append(l, m)]
      /\ lcb_pending \in [Proc -> [Proc -> Seq(Message)]]
  BY MessageElim DEF Types, AddPending
<1>2. /\ Append(l, m) \in Seq(Message)
      /\ DOMAIN Append(l, m) = DOMAIN l \cup {Len(l) + 1}
      /\ \A i \in DOMAIN l : Append(l, m)[i] = l[i]
      /\ Append(l, m)[Len(l) + 1] = m
  BY <1>1
<1> HIDE DEF l
<1>3. /\ lcb_pending'[p][o] = Append(l, m)
      /\ \A q \in Proc \ {o} : lcb_pending'[p][q] = lcb_pending[p][q]
  BY <1>1 DEF l
<1>4. lcb_pending' \in [Proc -> [Proc -> Seq(Message)]]
  BY <1>1, <1>2
<1>5. \A q \in Proc : \A i \in DOMAIN lcb_pending'[p][q] : lcb_pending'[p][q][i].orig = q
  <2>1. \A i \in DOMAIN l : l[i].orig = o
    BY <1>1 DEF Types, l
  <2>2. \A i \in DOMAIN lcb_pending'[p][o] : lcb_pending'[p][o][i].orig = o
    BY <1>2, <1>3, <2>1
  <2>3. \A q \in Proc \ {o} : \A i \in DOMAIN lcb_pending'[p][q] : lcb_pending'[p][q][i].orig = q
    BY <1>3 DEF Types
  <2> QED BY <2>2, <2>3
<1>6. Pending(p)' = Pending(p) \cup {m}
  <2> DEFINE In(q) == {lcb_pending[p][q][i] : i \in DOMAIN lcb_pending[p][q]}
             New(q) == {lcb_pending'[p][q][i] : i \in DOMAIN lcb_pending'[p][q]}
  <2>1. New(o) = In(o) \cup {m}
    <3>1. In(o) = {l[i] : i \in DOMAIN l}
      BY DEF l
    <3>2. New(o) = {Append(l, m)[i] : i \in DOMAIN l \cup {Len(l) + 1}}
      BY <1>2, <1>3
    <3> QED BY <1>2, <3>1, <3>2
  <2>2. \A q \in Proc \ {o} : New(q) = In(q)
    BY <1>3
  <2>3. Pending(p) = UNION {In(q) : q \in Proc} /\ Pending(p)' = UNION {New(q) : q \in Proc}
    BY DEF Pending
  <2> HIDE DEF In, New
  <2>4. \A x : x \in UNION {New(q) : q \in Proc} <=> \E q \in Proc : x \in New(q)
    OBVIOUS
  <2>5. \A x : x \in UNION {In(q) : q \in Proc} <=> \E q \in Proc : x \in In(q)
    OBVIOUS
  <2>6. UNION {New(q) : q \in Proc} = (UNION {In(q) : q \in Proc}) \cup {m}
    BY <1>1, <2>1, <2>2, <2>4, <2>5
  <2> QED BY <2>3, <2>6
<1> QED BY <1>4, <1>5, <1>6

\* The list keeps its messages but for the second.
LEMMA SecondRemoved ==
  ASSUME NEW l \in Seq(Message), Len(l) > 1
  PROVE  /\ WithoutSecond(l) \in Seq(Message)
         /\ \A i \in DOMAIN WithoutSecond(l) : \E j \in DOMAIN l : WithoutSecond(l)[i] = l[j]
<1>1. /\ Tail(l) \in Seq(Message) /\ Len(Tail(l)) = Len(l) - 1
      /\ \A i \in DOMAIN Tail(l) : Tail(l)[i] = l[i + 1]
      /\ Len(l) \in Nat /\ Head(l) \in Message /\ Head(l) = l[1]
  OBVIOUS
<1>2. /\ Tail(Tail(l)) \in Seq(Message) /\ Len(Tail(Tail(l))) = Len(l) - 2
      /\ \A i \in 1 .. Len(l) - 2 : Tail(Tail(l))[i] = l[i + 2]
  <2> DEFINE t == Tail(l)
  <2>1. /\ t \in Seq(Message) /\ Len(t) = Len(l) - 1 /\ Len(t) > 0
        /\ \A i \in 1 .. Len(t) : t[i] = l[i + 1]
    BY <1>1
  <2> HIDE DEF t
  <2>2. /\ Tail(t) \in Seq(Message) /\ Len(Tail(t)) = Len(t) - 1
        /\ \A i \in 1 .. Len(t) - 1 : Tail(t)[i] = t[i + 1] /\ i + 1 \in 1 .. Len(t)
    BY <2>1
  <2>3. \A i \in 1 .. Len(l) - 2 : Tail(t)[i] = l[i + 1 + 1] /\ i + 1 + 1 = i + 2
    BY <1>1, <2>1, <2>2
  <2> QED BY <1>1, <2>1, <2>2, <2>3 DEF t
<1>3. /\ WithoutSecond(l) \in Seq(Message)
      /\ DOMAIN WithoutSecond(l) = 1 .. Len(l) - 1
      /\ WithoutSecond(l)[1] = l[1]
      /\ \A i \in 2 .. Len(l) - 1 : WithoutSecond(l)[i] = l[i + 1]
  BY <1>1, <1>2 DEF WithoutSecond
<1>4. \A i \in 1 .. Len(l) - 1 : i = 1 \/ (i \in 2 .. Len(l) - 1 /\ i + 1 \in DOMAIN l)
  BY <1>1
<1>5. 1 \in DOMAIN l
  BY <1>1
<1> QED BY <1>3, <1>4, <1>5

-----------------------------------------------------------------------------
(* Steps.                                                                  *)

\* A process whose receiver thread and lines of deliveries are left alone keeps its
\* invariant.
LEMMA Frame ==
  ASSUME NEW r \in Proc, Local(r),
         InLog(r)' = InLog(r), \A i \in InLog(r) : log'[r][i] = log[r][i],
         receiver'[r] = receiver[r], vector_clock'[r] = vector_clock[r],
         lcb_pending'[r] = lcb_pending[r], urbDelivered'[r] = urbDelivered[r],
         broadcast \subseteq broadcast'
  PROVE  Local(r)'
<1>1. /\ Known(r)' = Known(r) /\ Logged(r)' = Logged(r)
      /\ Applied(r)' = Applied(r) /\ Pending(r)' = Pending(r)
      /\ \A q : LinesOf(r, q)' = LinesOf(r, q)
  <2>1. Known(r)' = Known(r)
    BY DEF Known
  <2>2. Logged(r)' = Logged(r)
    BY DEF Logged
  <2>3. Applied(r)' = Applied(r)
    BY <2>2 DEF Applied
  <2>4. Pending(r)' = Pending(r)
    BY DEF Pending
  <2>5. \A q : LinesOf(r, q)' = LinesOf(r, q)
    BY DEF LinesOf
  <2> QED BY <2>1, <2>2, <2>3, <2>4, <2>5
<1>2. Handed(r)'
  BY <1>1 DEF Local, Handed
<1>3. Apart(r)' /\ Unlogged(r)' /\ Once(r)'
  <2>1. Apart(r)' /\ Unlogged(r)'
    BY <1>1 DEF Local, Apart, Orderly, Unlogged, Delivering
  <2>2. Once(r)'
    BY <1>1 DEF Local, Once, Known
  <2> QED BY <2>1, <2>2
<1>4. Looking(r)'
  BY <1>1 DEF Local, Looking, TestVecClock
<1>5. Counting(r)'
  BY <1>1 DEF Local, Counting, Owed
<1> QED BY <1>2, <1>3, <1>4, <1>5 DEF Local

\* The step of one process p: the others keep theirs by Frame.
LEMMA StepOf ==
  ASSUME BaseInv, NEW p \in Proc, Types', Local(p)',
         \A r \in Proc \ {p} :
           /\ log'[r] = log[r] /\ receiver'[r] = receiver[r]
           /\ vector_clock'[r] = vector_clock[r] /\ lcb_pending'[r] = lcb_pending[r]
           /\ urbDelivered'[r] = urbDelivered[r],
         broadcast \subseteq broadcast'
  PROVE  BaseInv'
<1>1. ASSUME NEW r \in Proc \ {p} PROVE Local(r)'
  <2>1. InLog(r)' = InLog(r) /\ \A i \in InLog(r) : log'[r][i] = log[r][i]
    BY DEF InLog
  <2> QED BY <2>1, Frame DEF BaseInv
<1> QED BY <1>1 DEF BaseInv

LEMMA BaseInit == Init => BaseInv
<1> SUFFICES ASSUME Init PROVE BaseInv
  OBVIOUS
<1>1. Types
  <2>1. /\ nextSeq \in [Proc -> Nat]
        /\ \A p \in Proc : nextSeq[p] <= NumMsg[p]
        /\ outgoing \in [Proc -> SUBSET Message]
        /\ broadcast \subseteq Message
        /\ urbDelivered \in [Proc -> SUBSET Message]
        /\ vector_clock \in [Proc -> [Proc -> Nat]]
    BY LcbAssumption DEF Init, Proc
  <2>2. /\ lcb_pending \in [Proc -> [Proc -> Seq(Message)]]
        /\ log \in [Proc -> Seq(LogLine)]
    <3>1. <<>> \in Seq(Message) /\ <<>> \in Seq(LogLine)
      OBVIOUS
    <3> QED BY <3>1 DEF Init
  <2>3. \A p, q \in Proc : \A i \in DOMAIN lcb_pending[p][q] : lcb_pending[p][q][i].orig = q
    BY DEF Init
  <2>4. DOMAIN receiver = Proc /\ \A p \in Proc : ReceiverOK(receiver[p])
    BY DEF Init, ReceiverOK, Idle
  <2>5. killed \subseteq Proc /\ up \in [Proc -> BOOLEAN]
    BY DEF Init
  <2> QED BY <2>1, <2>2, <2>3, <2>4, <2>5 DEF Types
<1>2. ASSUME NEW r \in Proc PROVE Local(r)
  <2>1. /\ InLog(r) = {} /\ Known(r) = {} /\ Logged(r) = {} /\ Applied(r) = {}
        /\ Pending(r) = {}
        /\ receiver[r].pc = "idle"
    BY DEF Init, InLog, Known, Logged, Applied, Pending, Idle
  <2>2. \A q \in Proc : LinesOf(r, q) = {} /\ vector_clock[r][q] = 0
    BY <2>1 DEF LinesOf, Init
  <2>3. Counting(r)
    BY <2>1, <2>2, FS_EmptySet DEF Counting, Owed
  <2>4. urbDelivered[r] = {}
    BY DEF Init
  <2>5. Handed(r) /\ Apart(r) /\ Once(r)
    BY <2>1, <2>4 DEF Handed, Apart, Once
  <2>6. Unlogged(r) /\ Looking(r)
    BY <2>1 DEF Unlogged, Delivering, Looking
  <2> QED BY <2>3, <2>5, <2>6 DEF Local
<1> QED BY <1>1, <1>2 DEF BaseInv

\* A delivery is counted, and is then owed to the log.
LEMMA CountStep ==
  ASSUME Types, NEW p \in Proc, NEW q \in Proc, Counting(p), vector_clock' = Counted(p, q),
         log' = log, \A o \in Proc : Owed(p, o) = 0,
         \A o \in Proc : Owed(p, o)' = IF o = q THEN 1 ELSE 0
  PROVE  /\ vector_clock' \in [Proc -> [Proc -> Nat]]
         /\ \A r \in Proc \ {p} : vector_clock'[r] = vector_clock[r]
         /\ Counting(p)'
<1>1. /\ vector_clock' \in [Proc -> [Proc -> Nat]]
      /\ \A r \in Proc \ {p} : vector_clock'[r] = vector_clock[r]
      /\ \A o \in Proc : vector_clock'[p][o] = IF o = q THEN vector_clock[p][o] + 1
                                                        ELSE vector_clock[p][o]
  <2>1. vector_clock \in [Proc -> [Proc -> Nat]]
    BY DEF Types
  <2> QED BY <2>1 DEF Counted
<1>2. \A o \in Proc : LinesOf(p, o)' = LinesOf(p, o)
  BY DEF LinesOf, InLog
<1>3. \A o \in Proc : vector_clock[p][o] \in Nat /\ Cardinality(LinesOf(p, o)) = vector_clock[p][o]
  <2>1. ASSUME NEW o \in Proc
        PROVE  vector_clock[p][o] \in Nat /\ Cardinality(LinesOf(p, o)) = vector_clock[p][o]
    <3>1. Cardinality(LinesOf(p, o)) \in Nat
      BY InLogFinite, FS_CardinalityType
    <3> QED BY <3>1 DEF Counting, Types
  <2> QED BY <2>1
<1>4. Counting(p)'
  BY <1>1, <1>2, <1>3 DEF Counting
<1> QED BY <1>1, <1>4

\* The line that is owed is written.
LEMMA OwedStep ==
  ASSUME Types, NEW p \in Proc, NEW q \in Proc, NEW e \in LogLine, e.ev = "d", e.pid = q,
         log' = [log EXCEPT ![p] = Append(@, e)],
         Counting(p), vector_clock' = vector_clock,
         \A o \in Proc : Owed(p, o) = IF o = q THEN 1 ELSE 0,
         \A o \in Proc : Owed(p, o)' = 0
  PROVE  Counting(p)'
<1> DEFINE n == Len(log[p]) + 1
<1>1. /\ InLog(p)' = InLog(p) \cup {n}
      /\ \A i \in InLog(p) : log'[p][i] = log[p][i] /\ i # n
      /\ log'[p][n] = e
  <2>1. LogGrows(p, e)
    BY LogD, Zenon
  <2> QED BY <2>1 DEF LogGrows
<1> HIDE DEF n
<1>2. ASSUME NEW o \in Proc
      PROVE  vector_clock'[p][o] = Cardinality(LinesOf(p, o)') + Owed(p, o)'
  <2>1. /\ IsFiniteSet(LinesOf(p, o))
        /\ Cardinality(LinesOf(p, o)) \in Nat
    BY InLogFinite, FS_CardinalityType
  <2>2. vector_clock[p][o] = Cardinality(LinesOf(p, o)) + Owed(p, o)
    BY DEF Counting
  <2>3. CASE o = q
    <3>1. LinesOf(p, o)' = LinesOf(p, o) \cup {n} /\ n \notin LinesOf(p, o)
      BY <1>1, <2>3 DEF LinesOf
    <3>2. Cardinality(LinesOf(p, o) \cup {n}) = Cardinality(LinesOf(p, o)) + 1
      BY <2>1, <3>1, FS_AddElement
    <3> QED BY <2>1, <2>2, <2>3, <3>1, <3>2
  <2>4. CASE o # q
    <3>1. LinesOf(p, o)' = LinesOf(p, o)
      BY <1>1, <2>4 DEF LinesOf
    <3> QED BY <2>1, <2>2, <2>4, <3>1
  <2> QED BY <2>3, <2>4
<1> QED BY <1>2 DEF Counting

\* The receiver thread of one process moves on.
LEMMA ReceiverMoves ==
  ASSUME Types, NEW p \in Proc, NEW s, ReceiverOK(s), receiver' = [receiver EXCEPT ![p] = s]
  PROVE  /\ DOMAIN receiver' = Proc
         /\ \A r \in Proc : ReceiverOK(receiver'[r])
         /\ receiver'[p] = s
         /\ \A r \in Proc \ {p} : receiver'[r] = receiver[r]
<1>1. DOMAIN receiver = Proc /\ \A r \in Proc : ReceiverOK(receiver[r])
  BY DEF Types
<1>2. DOMAIN receiver' = Proc /\ \A r \in Proc : receiver'[r] = IF r = p THEN s ELSE receiver[r]
  BY <1>1
<1> QED BY <1>1, <1>2

LEMMA BaseCopyClock ==
  ASSUME BaseInv, NEW p \in Proc, CopyClock(p)
  PROVE  BaseInv'
<1> DEFINE seq == nextSeq[p] + 1
           own == {[orig |-> p, seq |-> s] : s \in 1 .. seq - 1}
           past == {Id(m) : m \in Applied(p)} \cup own
           new == [orig |-> p, seq |-> seq, vec |-> ClockCopy(p, seq), past |-> past]
<1>1. /\ nextSeq[p] \in Nat /\ nextSeq[p] < NumMsg[p] /\ NumMsg[p] \in Nat
      /\ nextSeq' = [nextSeq EXCEPT ![p] = seq]
      /\ outgoing' = [outgoing EXCEPT ![p] = {new}]
      /\ UNCHANGED <<broadcast, urbDelivered, vector_clock, lcb_pending, receiver, log, killed, up>>
  BY LcbAssumption DEF CopyClock, BaseInv, Types, Proc
<1>2. past \subseteq MsgId
  <2>1. \A m \in Applied(p) : Id(m) \in MsgId
    <3>1. Applied(p) \subseteq Message
      BY DEF BaseInv, Local, Handed, Types
    <3> QED BY <3>1, MessageElim
  <2>2. own \subseteq MsgId
    BY <1>1 DEF MsgId
  <2> QED BY <2>1, <2>2
<1> HIDE DEF past
<1>3. new \in Message
  <2>1. ClockCopy(p, seq) \in [Proc -> Nat]
    BY <1>1 DEF ClockCopy, BaseInv, Types
  <2>2. new \in [orig : Proc, seq : Nat, vec : [Proc -> Nat], past : SUBSET MsgId]
    BY <1>1, <1>2, <2>1
  <2>3. Id(new) \in MsgId
    BY <1>1 DEF Id, MsgId
  <2> QED BY <2>2, <2>3 DEF Message
<1> HIDE DEF new
<1>4. Types'
  <2>1. nextSeq' \in [Proc -> Nat] /\ \A r \in Proc : nextSeq'[r] <= NumMsg[r]
    BY <1>1, LcbAssumption DEF BaseInv, Types, Proc
  <2>2. outgoing' \in [Proc -> SUBSET Message]
    BY <1>1, <1>3 DEF BaseInv, Types
  <2> QED BY <1>1, <2>1, <2>2 DEF BaseInv, Types
<1>5. Local(p)'
  <2>1. InLog(p)' = InLog(p) /\ \A i \in InLog(p) : log'[p][i] = log[p][i]
    BY <1>1 DEF InLog
  <2> QED BY <1>1, <2>1, Frame DEF BaseInv
<1> QED BY <1>1, <1>4, <1>5, StepOf

LEMMA BaseSendUrb ==
  ASSUME BaseInv, NEW p \in Proc, NEW m, SendUrb(p, m)
  PROVE  BaseInv'
<1> DEFINE e == [ev |-> "b", seq |-> m.seq]
<1>1. /\ m \in outgoing[p] /\ m \in Message
      /\ outgoing' = [outgoing EXCEPT ![p] = {}]
      /\ log' = [log EXCEPT ![p] = Append(@, e)]
      /\ broadcast' = broadcast \cup {m}
      /\ UNCHANGED <<nextSeq, urbDelivered, vector_clock, lcb_pending, receiver, killed, up>>
      /\ Types
  BY DEF SendUrb, BaseInv, Types
<1>2. e \in LogLine /\ e.ev = "b"
  BY <1>1, MessageElim DEF LogLine
<1> HIDE DEF e
<1>3. /\ log' \in [Proc -> Seq(LogLine)]
      /\ InLog(p)' = InLog(p)
      /\ \A i \in InLog(p) : log'[p][i] = log[p][i]
  BY <1>1, <1>2, LogB, Zenon
<1>4. Types'
  <2>1. outgoing' \in [Proc -> SUBSET Message] /\ broadcast' \subseteq Message
    BY <1>1 DEF Types
  <2> QED BY <1>1, <1>3, <2>1 DEF Types
<1>5. Local(p)'
  BY <1>1, <1>3, Frame DEF BaseInv
<1>6. \A r \in Proc \ {p} : log'[r] = log[r]
  BY <1>1 DEF Types
<1> QED BY <1>1, <1>4, <1>5, <1>6, StepOf

LEMMA BaseDeliverLcb ==
  ASSUME BaseInv, NEW p \in Proc, NEW m, m \in broadcast, DeliverLcb(p, m)
  PROVE  BaseInv'
<1>1. /\ receiver[p].pc = "idle" /\ m \in Message /\ m \notin urbDelivered[p]
      /\ m.orig \in Proc /\ m # NoMsg
      /\ urbDelivered' = [urbDelivered EXCEPT ![p] = @ \cup {m}]
      /\ urbDelivered'[p] = urbDelivered[p] \cup {m}
      /\ UNCHANGED <<nextSeq, outgoing, broadcast, log, killed, up>>
      /\ Types /\ Local(p)
  BY MessageElim DEF DeliverLcb, BaseInv, Types, Idle
<1>2. /\ Applied(p) = Logged(p)
      /\ InLog(p)' = InLog(p) /\ Known(p)' = Known(p) /\ Logged(p)' = Logged(p)
      /\ \A o \in Proc : Owed(p, o) = 0
  BY <1>1 DEF Applied, InLog, Known, Logged, Owed
<1>3. Once(p)'
  BY <1>1, <1>2 DEF Local, Once
<1>4. urbDelivered' \in [Proc -> SUBSET Message]
  BY <1>1 DEF Types
<1>5. CASE TestVecClock(p, m)
  <2>1. /\ vector_clock' = Counted(p, m.orig)
        /\ receiver' = [receiver EXCEPT ![p] = Logging(m)]
        /\ receiver'[p] = Logging(m) /\ receiver'[p].pc = "log" /\ receiver'[p].msg = m
        /\ lcb_pending' = lcb_pending
    BY <1>1, <1>5 DEF DeliverLcb, Types, Logging
  <2>2. Applied(p)' = Logged(p) \cup {m} /\ Pending(p)' = Pending(p)
    BY <1>1, <1>2, <2>1 DEF Applied, Pending
  <2>3. /\ vector_clock' \in [Proc -> [Proc -> Nat]]
        /\ \A r \in Proc \ {p} : vector_clock'[r] = vector_clock[r]
        /\ Counting(p)'
    <3>1. \A o \in Proc : Owed(p, o)' = IF o = m.orig THEN 1 ELSE 0
      BY <2>1 DEF Owed
    <3> QED BY <1>1, <1>2, <2>1, <3>1, CountStep DEF Local
  <2>4. Handed(p)' /\ Apart(p)' /\ Unlogged(p)'
    BY <1>1, <1>2, <2>1, <2>2 DEF Local, Handed, Apart, Orderly, Unlogged
  <2>5. Looking(p)'
    BY <2>1 DEF Looking
  <2>6. Types'
    <3>1. DOMAIN receiver' = Proc /\ \A r \in Proc : ReceiverOK(receiver'[r])
      BY <1>1, <2>1 DEF Types, ReceiverOK
    <3>2. /\ UNCHANGED <<nextSeq, outgoing, broadcast, log, killed, up, lcb_pending>>
          /\ Types
      BY <1>1, <2>1
    <3> QED BY <1>4, <2>3, <3>1, <3>2 DEF Types
  <2>7. Local(p)'
    BY <1>3, <2>3, <2>4, <2>5 DEF Local
  <2>8. \A r \in Proc \ {p} : receiver'[r] = receiver[r] /\ urbDelivered'[r] = urbDelivered[r]
    BY <1>1, <2>1 DEF Types
  <2> QED BY <1>1, <2>1, <2>3, <2>6, <2>7, <2>8, StepOf
<1>6. CASE ~TestVecClock(p, m)
  <2>1. lcb_pending' = AddPending(p, m) /\ UNCHANGED <<vector_clock, receiver>>
    BY <1>6 DEF DeliverLcb
  <2>2. /\ lcb_pending' \in [Proc -> [Proc -> Seq(Message)]]
        /\ \A q \in Proc : \A i \in DOMAIN lcb_pending'[p][q] : lcb_pending'[p][q][i].orig = q
        /\ Pending(p)' = Pending(p) \cup {m}
    BY <1>1, <2>1, PendingAdded
  <2>3. Applied(p)' = Logged(p)
    BY <1>1, <1>2, <2>1 DEF Applied
  <2>4. Handed(p)' /\ Apart(p)' /\ Unlogged(p)'
    BY <1>1, <1>2, <2>1, <2>2, <2>3 DEF Local, Handed, Apart, Orderly, Unlogged, Delivering
  <2>5. Looking(p)'
    <3>1. ~TestVecClock(p, m)' /\ \A n \in Pending(p) : ~TestVecClock(p, n)'
      BY <1>1, <1>6, <2>1 DEF Local, Looking, TestVecClock
    <3> QED BY <1>1, <2>1, <2>2, <3>1 DEF Looking
  <2>6. Counting(p)'
    BY <1>1, <2>1 DEF Local, Counting, LinesOf, InLog, Owed
  <2>7. \A r \in Proc \ {p} : lcb_pending'[r] = lcb_pending[r] /\ urbDelivered'[r] = urbDelivered[r]
    BY <1>1, <2>1 DEF Types, AddPending
  <2>8. Types'
    <3>1. \A r, q \in Proc : \A i \in DOMAIN lcb_pending'[r][q] : lcb_pending'[r][q][i].orig = q
      <4>1. \A r, q \in Proc : \A i \in DOMAIN lcb_pending[r][q] : lcb_pending[r][q][i].orig = q
        BY <1>1 DEF Types
      <4>2. ASSUME NEW r \in Proc, NEW q \in Proc, NEW i \in DOMAIN lcb_pending'[r][q]
            PROVE  lcb_pending'[r][q][i].orig = q
        <5>1. CASE r = p
          BY <2>2, <5>1
        <5>2. CASE r # p
          BY <2>7, <4>1, <5>2
        <5> QED BY <5>1, <5>2
      <4> QED BY <4>2
    <3> QED BY <1>1, <1>4, <2>1, <2>2, <3>1 DEF Types
  <2>9. Local(p)'
    BY <1>3, <2>4, <2>5, <2>6 DEF Local
  <2> QED BY <1>1, <2>1, <2>7, <2>8, <2>9, StepOf
<1> QED BY <1>5, <1>6

LEMMA BaseLogDeliver ==
  ASSUME BaseInv, NEW p \in Proc, LogDeliver(p)
  PROVE  BaseInv'
<1> DEFINE m == receiver[p].msg
           e == Line(p, m.orig, m)
           n == Len(log[p]) + 1
<1>1. /\ receiver[p].pc = "log" /\ m \in Message /\ m.orig \in Proc /\ m # NoMsg
      /\ log' = [log EXCEPT ![p] = Append(@, e)]
      /\ receiver' = [receiver EXCEPT ![p] = AtList(1)]
      /\ receiver'[p] = AtList(1) /\ receiver'[p].pc = "find" /\ receiver'[p].list = 1
      /\ UNCHANGED <<nextSeq, outgoing, broadcast, urbDelivered, vector_clock, lcb_pending,
                     killed, up>>
      /\ Types /\ Local(p)
  BY MessageElim DEF LogDeliver, AfterLog, BaseInv, Types, ReceiverOK, AtList
<1>2. e \in LogLine /\ e.ev = "d" /\ e.pid = m.orig /\ e.msg = m
  BY <1>1 DEF Line, LogLine, Types
<1> HIDE DEF e
<1>3. /\ log' \in [Proc -> Seq(LogLine)]
      /\ Known(p)' = Known(p) \cup {n}
      /\ Logged(p)' = Logged(p) \cup {m}
      /\ \A i \in InLog(p) : log'[p][i] = log[p][i] /\ i # n
      /\ log'[p][n] = e
  <2>1. {e.msg} \ {NoMsg} = {m} /\ (IF e.msg = NoMsg THEN {} ELSE {n}) = {n}
    BY <1>1, <1>2
  <2>2. /\ log' \in [Proc -> Seq(LogLine)]
        /\ Known(p)' = Known(p) \cup (IF e.msg = NoMsg THEN {} ELSE {n})
        /\ Logged(p)' = Logged(p) \cup ({e.msg} \ {NoMsg})
        /\ \A i \in InLog(p) : log'[p][i] = log[p][i] /\ i # n
        /\ log'[p][n] = e
    <3>1. LogGrows(p, e)
      BY <1>1, <1>2, LogD, Zenon
    <3> QED BY <3>1 DEF LogGrows
  <2> QED BY <2>1, <2>2
<1> HIDE DEF m, n
<1>4. Applied(p)' = Applied(p) /\ Applied(p) = Logged(p) \cup {m} /\ Pending(p)' = Pending(p)
  BY <1>1, <1>3 DEF Applied, Pending, m
<1>5. Handed(p)' /\ Apart(p)' /\ Unlogged(p)'
  BY <1>1, <1>4 DEF Local, Handed, Apart, Orderly, Unlogged, Delivering
<1>6. Once(p)'
  <2>1. m \notin Logged(p)
    BY <1>1 DEF Local, Unlogged, Delivering, m
  <2>2. \A i \in Known(p) : i \in InLog(p) /\ log[p][i].msg \in Logged(p)
    BY DEF Known, Logged
  <2>3. \A i, j \in Known(p) : log[p][i].msg = log[p][j].msg => i = j
    BY <1>1 DEF Local, Once
  <2> QED BY <1>2, <1>3, <2>1, <2>2, <2>3 DEF Once
<1>7. Looking(p)'
  BY <1>1, LcbAssumption DEF Looking, Proc
<1>8. Counting(p)'
  <2>1. \A o \in Proc : Owed(p, o) = IF o = m.orig THEN 1 ELSE 0
    BY <1>1 DEF Owed, m
  <2>2. \A o \in Proc : Owed(p, o)' = 0
    BY <1>1 DEF Owed
  <2> QED BY <1>1, <1>2, <2>1, <2>2, OwedStep DEF Local
<1>9. Types'
  <2>1. ReceiverOK(AtList(1))
    BY LcbAssumption DEF ReceiverOK, AtList, Proc
  <2>2. DOMAIN receiver' = Proc /\ \A r \in Proc : ReceiverOK(receiver'[r])
    BY <1>1, <2>1, ReceiverMoves
  <2> QED BY <1>1, <1>3, <2>2 DEF Types
<1>10. \A r \in Proc \ {p} : log'[r] = log[r] /\ receiver'[r] = receiver[r]
  BY <1>1 DEF Types
<1>11. Local(p)'
  BY <1>5, <1>6, <1>7, <1>8 DEF Local
<1> QED BY <1>1, <1>9, <1>10, <1>11, StepOf

LEMMA BaseFindNext ==
  ASSUME BaseInv, NEW p \in Proc, FindNext(p)
  PROVE  BaseInv'
<1> DEFINE q == receiver[p].list
<1>1. /\ receiver[p].pc = "find" /\ q \in Proc /\ lcb_pending[p][q] = <<>>
      /\ receiver' = [receiver EXCEPT ![p] = IF q < N THEN AtList(q + 1) ELSE Idle]
      /\ UNCHANGED <<nextSeq, outgoing, broadcast, urbDelivered, vector_clock, lcb_pending,
                     log, killed, up>>
      /\ Types /\ Local(p)
  BY DEF FindNext, BaseInv, Types, ReceiverOK
<1>2. /\ receiver'[p].pc \in {"find", "idle"}
      /\ receiver'[p].pc = "find" => receiver'[p].list = q + 1 /\ q + 1 \in Proc
      /\ receiver'[p].pc = "idle" => q = N
  <2>1. receiver'[p] = IF q < N THEN AtList(q + 1) ELSE Idle
    BY <1>1 DEF Types
  <2>2. q \in 1 .. N /\ N \in Nat
    BY <1>1, LcbAssumption DEF Proc
  <2>3. CASE q < N
    BY <2>1, <2>2, <2>3 DEF AtList, Proc
  <2>4. CASE ~(q < N)
    BY <2>1, <2>2, <2>4 DEF Idle
  <2> QED BY <2>3, <2>4
<1>3. \A o \in Proc : o <= q => lcb_pending[p][o] = <<>>
  BY <1>1 DEF Local, Looking, Proc
<1>4. /\ InLog(p)' = InLog(p) /\ Known(p)' = Known(p) /\ Logged(p)' = Logged(p)
      /\ Pending(p)' = Pending(p)
      /\ \A o \in Proc : LinesOf(p, o)' = LinesOf(p, o)
  BY <1>1 DEF InLog, Known, Logged, Pending, LinesOf
<1>5. Applied(p)' = Applied(p)
  BY <1>1, <1>2, <1>4 DEF Applied
<1>6. Handed(p)' /\ Apart(p)' /\ Unlogged(p)' /\ Once(p)'
  BY <1>1, <1>2, <1>4, <1>5
     DEF Local, Handed, Apart, Orderly, Unlogged, Delivering, Once
<1>7. Looking(p)'
  <2>1. receiver'[p].pc = "idle" => Pending(p)' = {}
    <3>1. q = N => \A o \in Proc : lcb_pending[p][o] = <<>>
      BY <1>3, LcbAssumption DEF Proc
    <3> QED BY <1>1, <1>2, <3>1 DEF Pending
  <2>2. receiver'[p].pc = "find" =>
          \A o \in Proc : o < receiver'[p].list => lcb_pending'[p][o] = <<>>
    BY <1>1, <1>2, <1>3 DEF Proc
  <2> QED BY <1>1, <2>1, <2>2 DEF Looking
<1>8. Counting(p)'
  BY <1>1, <1>2, <1>4 DEF Local, Counting, Owed
<1>9. Types'
  <2>1. DOMAIN receiver' = Proc /\ \A r \in Proc : ReceiverOK(receiver'[r])
    BY <1>1, <1>2 DEF Types, ReceiverOK
  <2> QED BY <1>1, <2>1 DEF Types
<1>10. \A r \in Proc \ {p} : receiver'[r] = receiver[r]
  BY <1>1 DEF Types
<1>11. Local(p)'
  BY <1>6, <1>7, <1>8 DEF Local
<1> QED BY <1>1, <1>9, <1>10, <1>11, StepOf

LEMMA BaseFindHead ==
  ASSUME BaseInv, NEW p \in Proc, FindHead(p)
  PROVE  BaseInv'
<1> DEFINE q == receiver[p].list
           m == Head(lcb_pending[p][q])
<1>1. /\ receiver[p].pc = "find" /\ q \in Proc
      /\ lcb_pending[p][q] # <<>>
      /\ UNCHANGED <<nextSeq, outgoing, broadcast, urbDelivered, lcb_pending, log, killed, up>>
      /\ Types /\ Local(p)
  BY DEF FindHead, BaseInv, Types, ReceiverOK
<1>2. /\ m \in Message /\ m # NoMsg
      /\ m \in Pending(p)
      /\ m.orig = q
  <2>1. lcb_pending[p][q] \in Seq(Message)
    BY <1>1 DEF Types
  <2>2. m \in Message /\ 1 \in DOMAIN lcb_pending[p][q] /\ m = lcb_pending[p][q][1]
    BY <1>1, <2>1
  <2>3. m \in Pending(p)
    BY <1>1, <2>2 DEF Pending
  <2>4. m.orig = q
    BY <1>1, <2>2 DEF Types
  <2> HIDE DEF m
  <2> QED BY <2>2, <2>3, <2>4, MessageElim
<1>3. /\ InLog(p)' = InLog(p) /\ Known(p)' = Known(p) /\ Logged(p)' = Logged(p)
      /\ Pending(p)' = Pending(p) /\ Applied(p) = Logged(p)
      /\ \A o \in Proc : LinesOf(p, o)' = LinesOf(p, o)
      /\ \A o \in Proc : Owed(p, o) = 0
  BY <1>1 DEF InLog, Known, Logged, Pending, LinesOf, Applied, Owed
<1>4. Once(p)'
  BY <1>1, <1>3 DEF Local, Once
<1>5. CASE TestVecClock(p, m)
  <2>1. vector_clock' = Counted(p, q) /\ receiver' = [receiver EXCEPT ![p] = FoundIn(q, m)]
    BY <1>1, <1>5 DEF FindHead
  <2>2. ReceiverOK(FoundIn(q, m))
    BY <1>1, <1>2 DEF ReceiverOK, FoundIn
  <2> HIDE DEF m, q
  <2>3. /\ DOMAIN receiver' = Proc /\ \A r \in Proc : ReceiverOK(receiver'[r])
        /\ receiver'[p] = FoundIn(q, m)
        /\ \A r \in Proc \ {p} : receiver'[r] = receiver[r]
    BY <1>1, <2>1, <2>2, ReceiverMoves
  <2>4. receiver'[p].pc = "findlog" /\ receiver'[p].list = q /\ receiver'[p].msg = m
    BY <2>3 DEF FoundIn
  <2>5. /\ vector_clock' \in [Proc -> [Proc -> Nat]]
        /\ \A r \in Proc \ {p} : vector_clock'[r] = vector_clock[r]
        /\ Counting(p)'
    <3>1. \A o \in Proc : Owed(p, o)' = IF o = q THEN 1 ELSE 0
      BY <2>4 DEF Owed
    <3> QED BY <1>1, <1>3, <2>1, <3>1, CountStep DEF Local
  <2>6. Applied(p)' = Logged(p) \cup {m}
    BY <1>2, <1>3, <2>4 DEF Applied
  <2>7. Handed(p)' /\ Apart(p)' /\ Unlogged(p)' /\ Looking(p)'
    BY <1>1, <1>2, <1>3, <2>4, <2>6
       DEF Local, Handed, Apart, Orderly, Unlogged, Delivering, Looking
  <2>8. Local(p)'
    BY <1>4, <2>5, <2>7 DEF Local
  <2>9. Types'
    BY <1>1, <2>3, <2>5 DEF Types
  <2> QED BY <1>1, <2>3, <2>5, <2>8, <2>9, StepOf
<1>6. CASE ~TestVecClock(p, m)
  <2>1. receiver' = [receiver EXCEPT ![p] = Hung] /\ vector_clock' = vector_clock
    BY <1>1, <1>6 DEF FindHead
  <2>2. ReceiverOK(Hung) /\ Hung.pc = "hung"
    BY DEF ReceiverOK, Hung
  <2>3. /\ DOMAIN receiver' = Proc /\ \A r \in Proc : ReceiverOK(receiver'[r])
        /\ receiver'[p].pc = "hung"
        /\ \A r \in Proc \ {p} : receiver'[r] = receiver[r]
    BY <1>1, <2>1, <2>2, ReceiverMoves
  <2>4. Applied(p)' = Logged(p)
    BY <1>3, <2>3 DEF Applied
  <2>5. Handed(p)' /\ Apart(p)' /\ Unlogged(p)' /\ Looking(p)'
    BY <1>1, <1>3, <2>3, <2>4 DEF Local, Handed, Apart, Orderly, Unlogged, Delivering, Looking
  <2>6. Counting(p)'
    BY <1>1, <1>3, <2>1, <2>3 DEF Local, Counting, Owed
  <2>7. Local(p)'
    BY <1>4, <2>5, <2>6 DEF Local
  <2>8. Types'
    BY <1>1, <2>1, <2>3 DEF Types
  <2> QED BY <1>1, <2>1, <2>3, <2>7, <2>8, StepOf
<1> QED BY <1>5, <1>6

LEMMA BaseFindLog ==
  ASSUME BaseInv, NEW p \in Proc, FindLog(p)
  PROVE  BaseInv'
<1> DEFINE q == receiver[p].list
           m == receiver[p].msg
           e == Line(p, q, m)
           n == Len(log[p]) + 1
<1>1. /\ receiver[p].pc = "findlog" /\ q \in Proc /\ m \in Message \cup {NoMsg}
      /\ log' = [log EXCEPT ![p] = Append(@, e)]
      /\ receiver' = [receiver EXCEPT ![p] = Removing(q, m)]
      /\ UNCHANGED <<nextSeq, outgoing, broadcast, urbDelivered, vector_clock, lcb_pending,
                     killed, up>>
      /\ Types /\ Local(p)
  BY DEF FindLog, BaseInv, Types, ReceiverOK
<1>2. e \in LogLine /\ e.ev = "d" /\ e.pid = q /\ e.msg = m
  BY <1>1 DEF Line, LogLine, Types
<1> HIDE DEF e
<1>3. /\ log' \in [Proc -> Seq(LogLine)]
      /\ Known(p)' = Known(p) \cup (IF e.msg = NoMsg THEN {} ELSE {n})
      /\ Logged(p)' = Logged(p) \cup ({e.msg} \ {NoMsg})
      /\ \A i \in InLog(p) : log'[p][i] = log[p][i] /\ i # n
      /\ log'[p][n] = e
  <2>1. LogGrows(p, e)
    BY <1>1, <1>2, LogD, Zenon
  <2> QED BY <2>1 DEF LogGrows
<1>4. ReceiverOK(Removing(q, m))
  BY <1>1 DEF ReceiverOK, Removing
<1>5. Applied(p) = Logged(p) \cup ({m} \ {NoMsg})
  BY <1>1 DEF Applied
<1>6. Delivering(p) <=> m # NoMsg
  BY <1>1 DEF Delivering
<1>7. \A o \in Proc : Owed(p, o) = IF o = q THEN 1 ELSE 0
  BY <1>1 DEF Owed
<1>8. m # NoMsg => m \notin Logged(p)
  BY <1>1, <1>6 DEF Local, Unlogged
<1> HIDE DEF m, n, q
<1>9. /\ DOMAIN receiver' = Proc /\ \A r \in Proc : ReceiverOK(receiver'[r])
      /\ receiver'[p] = Removing(q, m)
      /\ \A r \in Proc \ {p} : receiver'[r] = receiver[r]
  BY <1>1, <1>4, ReceiverMoves
<1>10. receiver'[p].pc = "remove"
  BY <1>9 DEF Removing
<1>11. Applied(p)' = Applied(p) /\ Pending(p)' = Pending(p)
  BY <1>1, <1>2, <1>3, <1>5, <1>10 DEF Applied, Pending
<1>12. Handed(p)' /\ Apart(p)' /\ Unlogged(p)' /\ Looking(p)'
  BY <1>1, <1>10, <1>11 DEF Local, Handed, Apart, Orderly, Unlogged, Delivering, Looking
<1>13. Once(p)'
  <2>1. \A i \in Known(p) : i \in InLog(p) /\ log[p][i].msg \in Logged(p)
    BY DEF Known, Logged
  <2>2. \A i, j \in Known(p) : log[p][i].msg = log[p][j].msg => i = j
    BY <1>1 DEF Local, Once
  <2> QED BY <1>2, <1>3, <1>8, <2>1, <2>2 DEF Once
<1>14. Counting(p)'
  <2>1. \A o \in Proc : Owed(p, o)' = 0
    BY <1>10 DEF Owed
  <2> QED BY <1>1, <1>2, <1>7, <2>1, OwedStep DEF Local
<1>15. Types'
  BY <1>1, <1>3, <1>9 DEF Types
<1>16. \A r \in Proc \ {p} : log'[r] = log[r]
  BY <1>1 DEF Types
<1>17. Local(p)'
  BY <1>12, <1>13, <1>14 DEF Local
<1> QED BY <1>1, <1>9, <1>15, <1>16, <1>17, StepOf

LEMMA BaseRemoveNext ==
  ASSUME BaseInv, NEW p \in Proc, RemoveNext(p)
  PROVE  BaseInv'
<1> DEFINE q == receiver[p].list
           l == lcb_pending[p][q]
<1>1. /\ receiver[p].pc = "remove" /\ q \in Proc /\ l \in Seq(Message)
      /\ UNCHANGED <<nextSeq, outgoing, broadcast, urbDelivered, vector_clock, log, killed>>
      /\ Types /\ Local(p)
  <2>1. Types /\ Local(p) /\ receiver[p].pc = "remove"
    BY DEF RemoveNext, BaseInv
  <2>2. UNCHANGED <<nextSeq, outgoing, broadcast, urbDelivered, vector_clock, log, killed>>
    BY DEF RemoveNext
  <2>3. q \in Proc /\ lcb_pending \in [Proc -> [Proc -> Seq(Message)]]
    BY <2>1 DEF Types, ReceiverOK
  <2> QED BY <2>1, <2>2, <2>3
<1>2. CASE Len(l) > 1
  <2>1. /\ lcb_pending' = [lcb_pending EXCEPT ![p][q] = WithoutSecond(l)]
        /\ receiver' = [receiver EXCEPT ![p] = AtFreed(q)]
        /\ up' = up
    BY <1>1, <1>2 DEF RemoveNext
  <2>2. ReceiverOK(AtFreed(q)) /\ AtFreed(q).pc = "freed"
    BY <1>1 DEF ReceiverOK, AtFreed
  <2>3. /\ WithoutSecond(l) \in Seq(Message)
        /\ \A i \in DOMAIN WithoutSecond(l) : \E j \in DOMAIN l : WithoutSecond(l)[i] = l[j]
    BY <1>1, <1>2, SecondRemoved
  <2>4. /\ lcb_pending' \in [Proc -> [Proc -> Seq(Message)]]
        /\ \A r \in Proc \ {p} : lcb_pending'[r] = lcb_pending[r]
        /\ \A r, o \in Proc : \A i \in DOMAIN lcb_pending'[r][o] :
             \E j \in DOMAIN lcb_pending[r][o] : lcb_pending'[r][o][i] = lcb_pending[r][o][j]
    <3>1. lcb_pending \in [Proc -> [Proc -> Seq(Message)]]
      BY <1>1 DEF Types
    <3> HIDE DEF q
    <3> QED BY <1>1, <2>1, <2>3, <3>1
  <2>5. \A r, o \in Proc : \A i \in DOMAIN lcb_pending'[r][o] : lcb_pending'[r][o][i].orig = o
    <3>1. \A r, o \in Proc : \A i \in DOMAIN lcb_pending[r][o] : lcb_pending[r][o][i].orig = o
      BY <1>1 DEF Types
    <3>2. ASSUME NEW r \in Proc, NEW o \in Proc, NEW i \in DOMAIN lcb_pending'[r][o]
          PROVE  lcb_pending'[r][o][i].orig = o
      <4>1. PICK j \in DOMAIN lcb_pending[r][o] : lcb_pending'[r][o][i] = lcb_pending[r][o][j]
        BY <2>4
      <4> QED BY <3>1, <4>1
    <3> QED BY <3>2
  <2>6. Pending(p)' \subseteq Pending(p)
    <3>1. ASSUME NEW x \in Pending(p)' PROVE x \in Pending(p)
      <4>1. PICK o \in Proc : \E i \in DOMAIN lcb_pending'[p][o] : x = lcb_pending'[p][o][i]
        BY DEF Pending
      <4>2. PICK i \in DOMAIN lcb_pending'[p][o] : x = lcb_pending'[p][o][i]
        BY <4>1
      <4>3. PICK j \in DOMAIN lcb_pending[p][o] : lcb_pending'[p][o][i] = lcb_pending[p][o][j]
        BY <2>4
      <4> QED BY <4>2, <4>3 DEF Pending
    <3> QED BY <3>1
  <2> HIDE DEF q
  <2>7. /\ DOMAIN receiver' = Proc /\ \A r \in Proc : ReceiverOK(receiver'[r])
        /\ receiver'[p].pc = "freed"
        /\ \A r \in Proc \ {p} : receiver'[r] = receiver[r]
    BY <1>1, <2>1, <2>2, ReceiverMoves
  <2>8. /\ InLog(p)' = InLog(p) /\ Known(p)' = Known(p) /\ Logged(p)' = Logged(p)
        /\ \A o \in Proc : LinesOf(p, o)' = LinesOf(p, o)
    BY <1>1 DEF InLog, Known, Logged, LinesOf
  <2>9. Applied(p)' = Applied(p)
    BY <1>1, <2>7, <2>8 DEF Applied
  <2>10. Handed(p)' /\ Apart(p)' /\ Unlogged(p)' /\ Looking(p)'
    BY <1>1, <2>6, <2>7, <2>9 DEF Local, Handed, Apart, Orderly, Unlogged, Delivering, Looking
  <2>11. Once(p)'
    BY <1>1, <2>8 DEF Local, Once
  <2>12. Counting(p)'
    BY <1>1, <2>7, <2>8 DEF Local, Counting, Owed
  <2>13. Local(p)'
    BY <2>10, <2>11, <2>12 DEF Local
  <2>14. Types'
    BY <1>1, <2>1, <2>4, <2>5, <2>7 DEF Types
  <2> QED BY <1>1, <2>4, <2>7, <2>13, <2>14, StepOf
<1>3. CASE ~(Len(l) > 1)
  <2>1. up' = [up EXCEPT ![p] = FALSE] /\ UNCHANGED <<lcb_pending, receiver>>
    BY <1>1, <1>3 DEF RemoveNext
  <2>2. Types'
    BY <1>1, <2>1 DEF Types
  <2>3. InLog(p)' = InLog(p) /\ \A i \in InLog(p) : log'[p][i] = log[p][i]
    BY <1>1 DEF InLog
  <2>4. Local(p)'
    BY <1>1, <2>1, <2>3, Frame
  <2> QED BY <1>1, <2>1, <2>2, <2>4, StepOf
<1> QED BY <1>2, <1>3

LEMMA BaseReadFreed ==
  ASSUME BaseInv, NEW p \in Proc, ReadFreed(p)
  PROVE  BaseInv'
<1> DEFINE q == receiver[p].list
<1>1. /\ receiver[p].pc = "freed" /\ q \in Proc
      /\ UNCHANGED <<nextSeq, outgoing, broadcast, urbDelivered, lcb_pending, log, killed>>
      /\ Types /\ Local(p)
  BY DEF ReadFreed, BaseInv, Types, ReceiverOK
<1>2. /\ InLog(p)' = InLog(p) /\ Known(p)' = Known(p) /\ Logged(p)' = Logged(p)
      /\ Pending(p)' = Pending(p) /\ Applied(p) = Logged(p)
      /\ \A o \in Proc : LinesOf(p, o)' = LinesOf(p, o)
      /\ \A o \in Proc : Owed(p, o) = 0
      /\ \A i \in InLog(p) : log'[p][i] = log[p][i]
  BY <1>1 DEF InLog, Known, Logged, Pending, LinesOf, Applied, Owed
<1>3. Once(p)'
  BY <1>1, <1>2 DEF Local, Once
<1>4. CASE up' = [up EXCEPT ![p] = FALSE] /\ UNCHANGED <<receiver, vector_clock>>
  <2>1. Types'
    BY <1>1, <1>4 DEF Types
  <2>2. Local(p)'
    BY <1>1, <1>2, <1>4, Frame
  <2> QED BY <1>1, <1>4, <2>1, <2>2, StepOf
<1>5. CASE receiver' = [receiver EXCEPT ![p] = Hung] /\ UNCHANGED <<up, vector_clock>>
  <2>1. ReceiverOK(Hung) /\ Hung.pc = "hung"
    BY DEF ReceiverOK, Hung
  <2>2. /\ DOMAIN receiver' = Proc /\ \A r \in Proc : ReceiverOK(receiver'[r])
        /\ receiver'[p].pc = "hung"
        /\ \A r \in Proc \ {p} : receiver'[r] = receiver[r]
    BY <1>1, <1>5, <2>1, ReceiverMoves
  <2>3. Applied(p)' = Logged(p)
    BY <1>2, <2>2 DEF Applied
  <2>4. Handed(p)' /\ Apart(p)' /\ Unlogged(p)' /\ Looking(p)'
    BY <1>1, <1>2, <2>2, <2>3 DEF Local, Handed, Apart, Orderly, Unlogged, Delivering, Looking
  <2>5. Counting(p)'
    BY <1>1, <1>2, <1>5, <2>2 DEF Local, Counting, Owed
  <2>6. Local(p)'
    BY <1>3, <2>4, <2>5 DEF Local
  <2>7. Types'
    BY <1>1, <1>5, <2>2 DEF Types
  <2> QED BY <1>1, <1>5, <2>2, <2>6, <2>7, StepOf
<1>6. CASE /\ vector_clock' = Counted(p, q)
           /\ receiver' = [receiver EXCEPT ![p] = FoundIn(q, NoMsg)]
           /\ up' = up
  <2>1. ReceiverOK(FoundIn(q, NoMsg))
    BY <1>1 DEF ReceiverOK, FoundIn
  <2> HIDE DEF q
  <2>2. /\ DOMAIN receiver' = Proc /\ \A r \in Proc : ReceiverOK(receiver'[r])
        /\ receiver'[p] = FoundIn(q, NoMsg)
        /\ \A r \in Proc \ {p} : receiver'[r] = receiver[r]
    BY <1>1, <1>6, <2>1, ReceiverMoves
  <2>3. receiver'[p].pc = "findlog" /\ receiver'[p].list = q /\ receiver'[p].msg = NoMsg
    BY <2>2 DEF FoundIn
  <2>4. /\ vector_clock' \in [Proc -> [Proc -> Nat]]
        /\ \A r \in Proc \ {p} : vector_clock'[r] = vector_clock[r]
        /\ Counting(p)'
    <3>1. \A o \in Proc : Owed(p, o)' = IF o = q THEN 1 ELSE 0
      BY <2>3 DEF Owed
    <3> QED BY <1>1, <1>2, <1>6, <3>1, CountStep DEF Local
  <2>5. Applied(p)' = Logged(p)
    BY <1>2, <2>3 DEF Applied
  <2>6. Handed(p)' /\ Apart(p)' /\ Unlogged(p)' /\ Looking(p)'
    BY <1>1, <1>2, <2>3, <2>5 DEF Local, Handed, Apart, Orderly, Unlogged, Delivering, Looking
  <2>7. Local(p)'
    BY <1>3, <2>4, <2>6 DEF Local
  <2>8. Types'
    BY <1>1, <1>6, <2>2, <2>4 DEF Types
  <2> QED BY <1>1, <2>2, <2>4, <2>7, <2>8, StepOf
<1> QED BY <1>4, <1>5, <1>6 DEF ReadFreed

LEMMA BaseStop ==
  ASSUME BaseInv, NEW p \in Proc, Stop(p)
  PROVE  BaseInv'
<1>1. Types'
  BY DEF BaseInv, Types, Stop
<1>2. Local(p)'
  <2>1. InLog(p)' = InLog(p) /\ \A i \in InLog(p) : log'[p][i] = log[p][i]
    BY DEF Stop, InLog
  <2> QED BY <2>1, Frame DEF BaseInv, Stop
<1> QED BY <1>1, <1>2, StepOf DEF Stop

LEMMA BaseStep == BaseInv /\ [Next]_vars => BaseInv'
<1> SUFFICES ASSUME BaseInv, [Next]_vars PROVE BaseInv'
  OBVIOUS
<1>1. CASE UNCHANGED vars
  <2>1. Types'
    BY <1>1 DEF vars, BaseInv, Types
  <2>2. ASSUME NEW r \in Proc PROVE Local(r)'
    <3>1. InLog(r)' = InLog(r) /\ \A i \in InLog(r) : log'[r][i] = log[r][i]
      BY <1>1 DEF vars, InLog
    <3> QED BY <1>1, <3>1, Frame DEF vars, BaseInv
  <2> QED BY <2>1, <2>2 DEF BaseInv
<1>2. ASSUME NEW p \in Proc, MainStep(p) PROVE BaseInv'
  BY <1>2, BaseCopyClock, BaseSendUrb DEF MainStep
<1>3. ASSUME NEW p \in Proc, NEW m \in broadcast, DeliverLcb(p, m) PROVE BaseInv'
  BY <1>3, BaseDeliverLcb
<1>4. ASSUME NEW p \in Proc, ReceiverStep(p) PROVE BaseInv'
  BY <1>4, BaseLogDeliver, BaseFindNext, BaseFindHead, BaseFindLog, BaseRemoveNext, BaseReadFreed
     DEF ReceiverStep
<1>5. ASSUME NEW p \in Proc, Stop(p) PROVE BaseInv'
  BY <1>5, BaseStop
<1> QED BY <1>1, <1>2, <1>3, <1>4, <1>5 DEF Next

-----------------------------------------------------------------------------
(* What holds for any lists of dependencies.                               *)

\* Type correctness, for any number of processes, messages and stops.
THEOREM TypeCorrect == Spec => []TypeOK
<1>1. BaseInv => TypeOK
  <2> SUFFICES ASSUME Types PROVE TypeOK
    BY DEF BaseInv
  <2>1. ASSUME NEW p \in Proc PROVE nextSeq[p] \in 0 .. NumMsg[p]
    <3>1. nextSeq[p] \in Nat /\ nextSeq[p] <= NumMsg[p]
      BY DEF Types
    <3>2. NumMsg[p] \in Nat
      BY LcbAssumption DEF Proc
    <3> QED BY <3>1, <3>2
  <2>2. ASSUME NEW p \in Proc, NEW m \in outgoing[p] \cup urbDelivered[p] \cup broadcast
        PROVE  Id(m) \in MsgId /\ m.past \subseteq MsgId /\ m.vec \in [Proc -> Nat]
    <3>1. m \in Message
      BY DEF Types
    <3> QED BY <3>1, MessageElim
  <2>3. \A p \in Proc : receiver[p].pc \in
          {"idle", "hung", "log", "find", "findlog", "remove", "freed"}
    BY DEF Types, ReceiverOK
  <2> QED BY <2>1, <2>2, <2>3 DEF TypeOK, Types
<1> QED BY BaseInit, BaseStep, <1>1, PTL DEF Spec

\* A process writes at most one line for a message (deliver_lcb, find_pending).
THEOREM NoDuplicationCorrect == Spec => []NoDuplication
<1>1. BaseInv => NoDuplication
  BY DEF BaseInv, Local, Once, NoDuplication
<1> QED BY BaseInit, BaseStep, <1>1, PTL DEF Spec

\* The clock agrees with the lines of the log (update_vec_clock, log_deliver_lcb).
THEOREM ClockCorrect == Spec => []ClockCountsLog
<1>1. BaseInv => ClockCountsLog
  BY DEF BaseInv, Local, Counting, LinesOf, Owed, ClockCountsLog
<1> QED BY BaseInit, BaseStep, <1>1, PTL DEF Spec

\* While the receiver thread waits, no pending message is deliverable (deliver_lcb).
THEOREM NoneForgotten == Spec => []NothingDeliverablePending
<1>1. BaseInv => NothingDeliverablePending
  BY DEF BaseInv, Local, Looking, NothingDeliverablePending, Idle
<1> QED BY BaseInit, BaseStep, <1>1, PTL DEF Spec

-----------------------------------------------------------------------------
(* The order of deliveries.                                                *)

Sent == broadcast \cup UNION {outgoing[p] : p \in Proc}

\* The vector of a message covers all that its sender has counted of the processes in
\* their own lists, and its number is its own.
Covered(m) ==
  /\ m.seq <= nextSeq[m.orig]
  /\ m.vec[m.orig] = m.seq - 1
  /\ \A x \in m.past : SelfListed(x.orig) => x.seq <= m.vec[x.orig]
Unique == \A m, n \in Sent : Id(m) = Id(n) => m = n
Messages == (\A m \in Sent : Covered(m)) /\ Unique

\* The entry of the clock for a process in its own list counts what is applied, and
\* until find_pending delivers nothing else.
AtMost(r) == \A m \in Applied(r) : SelfListed(m.orig) => m.seq <= vector_clock[r][m.orig]
Complete(r) ==
  Orderly(r) => \A q \in Proc : SelfListed(q) =>
                  \A s \in 1 .. vector_clock[r][q] :
                    \E m \in Applied(r) : m.orig = q /\ m.seq = s

\* The causes that a message waits for have been logged.
CausesLogged(r, m) == \A x \in Awaited(m) : \E n \in Logged(r) : Id(n) = x

\* The message that is about to be logged is the next one, and its causes are logged.
Due(r) ==
  Delivering(r) =>
    LET m == receiver[r].msg IN
      /\ SelfListed(m.orig) => m.seq = vector_clock[r][m.orig]
      /\ receiver[r].pc = "findlog" => m.orig = receiver[r].list
      /\ CausesLogged(r, m)

Causes(r) ==
  \A j \in Known(r) :
    \A x \in Awaited(log[r][j].msg) :
      \E i \in Known(r) : i < j /\ Id(log[r][i].msg) = x
Numbers(r) ==
  \A j \in Known(r) :
    LET m == log[r][j].msg IN
      /\ log[r][j].pid = m.orig
      /\ SelfListed(m.orig) => log[r][j].seq = m.seq

Ordered(r) == AtMost(r) /\ Complete(r) /\ Due(r) /\ Causes(r) /\ Numbers(r)
OrderInv == Messages /\ \A r \in Proc : Ordered(r)

\* What is applied has been sent, and is a message.
LEMMA AppliedElim ==
  ASSUME BaseInv, NEW p \in Proc, NEW m \in Applied(p)
  PROVE  m \in Message /\ m \in Sent
BY DEF BaseInv, Types, Local, Handed, Sent

\* A message that passes the test for the first time is the next of its sender, if this
\* is in its own list, and the causes it waits for are logged.
LEMMA Deliverable ==
  ASSUME BaseInv, OrderInv, NEW p \in Proc,
         receiver[p].pc \in {"idle", "find"},
         NEW m \in broadcast, m \notin Applied(p), TestVecClock(p, m)
  PROVE  /\ SelfListed(m.orig) => m.seq = vector_clock[p][m.orig] + 1
         /\ CausesLogged(p, m)
<1>1. m \in Message /\ m \in Sent
  BY DEF BaseInv, Types, Sent
<1>2. /\ m.orig \in Proc /\ m.seq \in Nat \ {0} /\ m.vec \in [Proc -> Nat]
      /\ m.past \subseteq MsgId
      /\ vector_clock[p] \in [Proc -> Nat]
      /\ m.vec[m.orig] = m.seq - 1
      /\ \A x \in m.past : SelfListed(x.orig) => x.seq <= m.vec[x.orig]
  <2>1. m.orig \in Proc /\ m.seq \in 1 .. NumMsg[m.orig] /\ m.vec \in [Proc -> Nat]
        /\ m.past \subseteq MsgId
    BY <1>1, MessageElim
  <2>2. vector_clock[p] \in [Proc -> Nat]
    BY DEF BaseInv, Types
  <2>3. Covered(m)
    BY <1>1 DEF OrderInv, Messages
  <2>4. m.seq \in Nat \ {0}
    BY <2>1
  <2> QED BY <2>1, <2>2, <2>3, <2>4 DEF Covered
<1>3. Applied(p) = Logged(p)
  BY DEF Applied
<1>4. \A q \in Proc : SelfListed(q) => \A s \in 1 .. vector_clock[p][q] :
        \E n \in Applied(p) : n.orig = q /\ n.seq = s
  BY DEF OrderInv, Ordered, Complete, Orderly
<1>5. ASSUME SelfListed(m.orig) PROVE m.seq = vector_clock[p][m.orig] + 1
  <2>1. m.seq - 1 <= vector_clock[p][m.orig]
    BY <1>2, <1>5 DEF SelfListed, TestVecClock
  <2>2. ASSUME m.seq <= vector_clock[p][m.orig] PROVE FALSE
    <3>1. PICK n \in Applied(p) : n.orig = m.orig /\ n.seq = m.seq
      BY <1>2, <1>4, <1>5, <2>2
    <3>2. n = m
      BY <1>1, <3>1, AppliedElim DEF OrderInv, Messages, Unique, Id
    <3> QED BY <3>2
  <2> QED BY <1>2, <2>1, <2>2
<1>6. ASSUME NEW x \in Awaited(m)
      PROVE  \E n \in Logged(p) : Id(n) = x
  <2>0. x \in m.past /\ x.orig \in Deps[m.orig] /\ SelfListed(x.orig)
    BY DEF Awaited
  <2>1. x.orig \in Proc /\ x.seq \in Nat \ {0} /\ x = [orig |-> x.orig, seq |-> x.seq]
    <3>1. x \in MsgId
      BY <1>2, <2>0
    <3>2. PICK q \in Proc : x \in [orig : {q}, seq : 1 .. NumMsg[q]]
      BY <3>1 DEF MsgId
    <3>3. NumMsg[q] \in Nat
      BY LcbAssumption DEF Proc
    <3> QED BY <3>2, <3>3
  <2>2. x.seq <= vector_clock[p][x.orig]
    <3>1. x.seq <= m.vec[x.orig] /\ m.vec[x.orig] <= vector_clock[p][x.orig]
      BY <1>2, <2>0 DEF TestVecClock
    <3> QED BY <1>2, <2>1, <3>1
  <2>3. PICK n \in Applied(p) : n.orig = x.orig /\ n.seq = x.seq
    BY <1>2, <1>4, <2>0, <2>1, <2>2
  <2> QED BY <1>3, <2>1, <2>3 DEF Id
<1> QED BY <1>5, <1>6 DEF CausesLogged

\* A process whose receiver thread and lines of deliveries are left alone.
LEMMA OrderedFrame ==
  ASSUME NEW r \in Proc, Ordered(r),
         InLog(r)' = InLog(r), \A i \in InLog(r) : log'[r][i] = log[r][i],
         receiver'[r] = receiver[r], vector_clock'[r] = vector_clock[r]
  PROVE  Ordered(r)'
<1>1. Known(r)' = Known(r) /\ \A i \in Known(r) : log'[r][i] = log[r][i]
  BY DEF Known
<1>2. Logged(r)' = Logged(r)
  BY DEF Logged
<1>3. Applied(r)' = Applied(r)
  BY <1>2 DEF Applied
<1>4. AtMost(r)' /\ Complete(r)'
  BY <1>3 DEF Ordered, AtMost, Complete, Orderly
<1>5. Due(r)'
  BY <1>2 DEF Ordered, Due, Delivering, CausesLogged
<1>6. Causes(r)' /\ Numbers(r)'
  BY <1>1 DEF Ordered, Causes, Numbers
<1> QED BY <1>4, <1>5, <1>6 DEF Ordered

\* The receiver thread moves on without a delivery; the clock may count one that
\* never happened, after find_pending has delivered.
LEMMA OrderedRest ==
  ASSUME BaseInv, NEW p \in Proc, Ordered(p), log' = log, Applied(p)' = Applied(p),
         ~Delivering(p)',
         \A q \in Proc : vector_clock'[p][q] \in Nat /\ vector_clock[p][q] <= vector_clock'[p][q],
         Orderly(p)' => Orderly(p) /\ vector_clock'[p] = vector_clock[p]
  PROVE  Ordered(p)'
<1>1. Known(p)' = Known(p)
  BY DEF Known, InLog
<1>2. AtMost(p)'
  <2>1. ASSUME NEW m \in Applied(p), SelfListed(m.orig) PROVE m.seq <= vector_clock'[p][m.orig]
    <3>1. m.orig \in Proc /\ m.seq \in Nat /\ m.seq <= vector_clock[p][m.orig]
      BY <2>1, AppliedElim, MessageElim DEF Message, Ordered, AtMost
    <3>2. vector_clock[p][m.orig] \in Nat
      BY <3>1 DEF BaseInv, Types
    <3> QED BY <3>1, <3>2
  <2> QED BY <2>1 DEF AtMost
<1>3. Complete(p)'
  BY DEF Ordered, Complete
<1>4. Due(p)'
  BY DEF Due
<1>5. Causes(p)' /\ Numbers(p)'
  BY <1>1 DEF Ordered, Causes, Numbers
<1> QED BY <1>2, <1>3, <1>4, <1>5 DEF Ordered

\* The receiver thread counts a message that passes the test.
LEMMA OrderedCount ==
  ASSUME BaseInv, OrderInv, NEW p \in Proc,
         receiver[p].pc \in {"idle", "find"},
         NEW m \in broadcast, m \notin Applied(p), TestVecClock(p, m),
         vector_clock' = Counted(p, m.orig), log' = log,
         receiver'[p].pc \in {"log", "findlog"}, receiver'[p].msg = m,
         receiver'[p].pc = "findlog" => receiver'[p].list = m.orig
  PROVE  Ordered(p)'
<1>1. /\ SelfListed(m.orig) => m.seq = vector_clock[p][m.orig] + 1
      /\ CausesLogged(p, m)
  BY Deliverable
<1>2. m \in Message /\ m # NoMsg /\ m.orig \in Proc /\ m.seq \in Nat
  <2>1. m \in Message
    BY DEF BaseInv, Types
  <2> QED BY <2>1, MessageElim DEF Message
<1>3. /\ vector_clock[p] \in [Proc -> Nat]
      /\ \A q \in Proc : vector_clock'[p][q] = IF q = m.orig THEN vector_clock[p][q] + 1
                                                           ELSE vector_clock[p][q]
  <2>1. vector_clock \in [Proc -> [Proc -> Nat]]
    BY DEF BaseInv, Types
  <2> QED BY <2>1 DEF Counted
<1>4. Known(p)' = Known(p) /\ Logged(p)' = Logged(p)
  BY DEF Known, InLog, Logged
<1>5. Applied(p)' = Applied(p) \cup {m} /\ Applied(p) = Logged(p)
  BY <1>2, <1>4 DEF Applied
<1>6. AtMost(p)'
  <2>1. ASSUME NEW n \in Applied(p), SelfListed(n.orig) PROVE n.seq <= vector_clock'[p][n.orig]
    <3>1. n.orig \in Proc /\ n.seq \in Nat /\ n.seq <= vector_clock[p][n.orig]
      BY <2>1, AppliedElim, MessageElim DEF Message, OrderInv, Ordered, AtMost
    <3>2. vector_clock[p][n.orig] \in Nat
      BY <1>3, <3>1
    <3> QED BY <1>3, <3>1, <3>2
  <2>2. SelfListed(m.orig) => m.seq <= vector_clock'[p][m.orig]
    BY <1>1, <1>2, <1>3
  <2> QED BY <1>5, <2>1, <2>2 DEF AtMost
<1>7. Complete(p)'
  <2>1. ASSUME NEW q \in Proc, SelfListed(q), NEW s \in 1 .. vector_clock'[p][q]
        PROVE  \E n \in Applied(p) \cup {m} : n.orig = q /\ n.seq = s
    <3>1. CASE s \in 1 .. vector_clock[p][q]
      BY <2>1, <3>1 DEF OrderInv, Ordered, Complete, Orderly
    <3>2. CASE s \notin 1 .. vector_clock[p][q]
      <4>1. q = m.orig /\ s = vector_clock[p][q] + 1
        BY <1>2, <1>3, <3>2
      <4> QED BY <1>1, <2>1, <4>1
    <3> QED BY <3>1, <3>2
  <2> QED BY <1>5, <2>1 DEF Complete
<1>8. Due(p)'
  BY <1>1, <1>2, <1>3, <1>4 DEF Due, CausesLogged
<1>9. Causes(p)' /\ Numbers(p)'
  BY <1>4 DEF OrderInv, Ordered, Causes, Numbers
<1> QED BY <1>6, <1>7, <1>8, <1>9 DEF Ordered

\* A line for a known message that is due, or for none.
LEMMA OrderedLog ==
  ASSUME BaseInv, NEW p \in Proc, Ordered(p),
         receiver[p].pc \in {"log", "findlog"},
         NEW e \in LogLine, e.ev = "d", e.msg = receiver[p].msg,
         e.msg # NoMsg => e.pid = e.msg.orig /\ e.seq = vector_clock[p][e.pid],
         log' = [log EXCEPT ![p] = Append(@, e)], vector_clock' = vector_clock,
         receiver'[p].pc \in {"find", "remove"},
         receiver'[p].pc = "find" => receiver[p].pc = "log"
  PROVE  Ordered(p)'
<1> DEFINE n == Len(log[p]) + 1
           m == receiver[p].msg
<1>1. Types
  BY DEF BaseInv
<1>2. /\ Known(p)' = Known(p) \cup (IF e.msg = NoMsg THEN {} ELSE {n})
      /\ Logged(p)' = Logged(p) \cup ({e.msg} \ {NoMsg})
      /\ \A i \in InLog(p) : log'[p][i] = log[p][i] /\ i < n /\ i # n
      /\ log'[p][n] = e
  <2>1. LogGrows(p, e)
    BY <1>1, LogD, Zenon
  <2> QED BY <2>1 DEF LogGrows
<1>3. Applied(p)' = Applied(p)
  BY <1>2 DEF Applied
<1>4. m # NoMsg => Delivering(p)
  BY DEF Delivering
<1>5. m # NoMsg => /\ SelfListed(m.orig) => m.seq = vector_clock[p][m.orig]
                   /\ CausesLogged(p, m)
  BY <1>4 DEF Ordered, Due
<1> HIDE DEF n, m
<1>6. \A i \in Known(p) : i \in InLog(p) /\ log'[p][i] = log[p][i] /\ i < n
  BY <1>2 DEF Known
<1>7. AtMost(p)' /\ Complete(p)'
  BY <1>3 DEF Ordered, AtMost, Complete, Orderly
<1>8. Due(p)'
  BY DEF Due, Delivering
<1>9. CASE e.msg = NoMsg
  <2>1. Known(p)' = Known(p)
    BY <1>2, <1>9
  <2>2. \A i \in Known(p) : log'[p][i] = log[p][i]
    BY <1>6
  <2>3. Causes(p)'
    <3>1. ASSUME NEW j \in Known(p)', NEW x \in Awaited(log'[p][j].msg)
          PROVE  \E i \in Known(p)' : i < j /\ Id(log'[p][i].msg) = x
      <4>1. j \in Known(p) /\ x \in Awaited(log[p][j].msg)
        BY <2>1, <2>2, <3>1
      <4>2. PICK i \in Known(p) : i < j /\ Id(log[p][i].msg) = x
        BY <4>1 DEF Ordered, Causes
      <4> QED BY <2>1, <2>2, <4>2
    <3> QED BY <3>1 DEF Causes
  <2>4. Numbers(p)'
    BY <2>1, <2>2 DEF Ordered, Numbers
  <2> QED BY <1>7, <1>8, <2>3, <2>4 DEF Ordered
<1>10. CASE e.msg # NoMsg
  <2>1. Known(p)' = Known(p) \cup {n} /\ log'[p][n] = e /\ e.msg = m
    BY <1>2, <1>10 DEF m
  <2>2. Numbers(p)'
    <3>1. ASSUME NEW j \in Known(p)
          PROVE  LET o == log'[p][j].msg IN
                   /\ log'[p][j].pid = o.orig
                   /\ SelfListed(o.orig) => log'[p][j].seq = o.seq
      BY <1>6, <3>1 DEF Ordered, Numbers
    <3>2. e.pid = m.orig /\ (SelfListed(m.orig) => e.seq = m.seq)
      BY <1>5, <1>10, <2>1
    <3> QED BY <2>1, <3>1, <3>2 DEF Numbers
  <2>3. ASSUME NEW x \in Awaited(m)
        PROVE  \E i \in Known(p) : i < n /\ Id(log'[p][i].msg) = x
    <3>1. PICK k \in Logged(p) : Id(k) = x
      BY <1>5, <1>10, <2>1, <2>3 DEF CausesLogged
    <3>2. PICK i \in Known(p) : log[p][i].msg = k
      BY DEF Logged, Known
    <3> QED BY <1>6, <3>1, <3>2
  <2>4. ASSUME NEW j \in Known(p), NEW x \in Awaited(log[p][j].msg)
        PROVE  \E i \in Known(p) : i < j /\ Id(log'[p][i].msg) = x
    <3>1. PICK i \in Known(p) : i < j /\ Id(log[p][i].msg) = x
      BY <2>4 DEF Ordered, Causes
    <3> QED BY <1>6, <3>1
  <2>5. Causes(p)'
    <3>1. ASSUME NEW j \in Known(p)', NEW x \in Awaited(log'[p][j].msg)
          PROVE  \E i \in Known(p)' : i < j /\ Id(log'[p][i].msg) = x
      <4>1. CASE j = n
        <5>1. x \in Awaited(m)
          BY <2>1, <3>1, <4>1
        <5> QED BY <2>1, <2>3, <4>1, <5>1
      <4>2. CASE j \in Known(p)
        <5>1. x \in Awaited(log[p][j].msg)
          BY <1>6, <3>1, <4>2
        <5> QED BY <2>1, <2>4, <4>2, <5>1
      <4> QED BY <2>1, <4>1, <4>2
    <3> QED BY <3>1 DEF Causes
  <2> QED BY <1>7, <1>8, <2>2, <2>5 DEF Ordered
<1> QED BY <1>9, <1>10

\* Messages are sent with vectors that cover what their sender has counted.
LEMMA MessagesCopyClock ==
  ASSUME BaseInv, OrderInv, NEW p \in Proc, CopyClock(p)
  PROVE  Messages'
<1> DEFINE seq == nextSeq[p] + 1
           own == {[orig |-> p, seq |-> s] : s \in 1 .. seq - 1}
           past == {Id(m) : m \in Applied(p)} \cup own
           new == [orig |-> p, seq |-> seq, vec |-> ClockCopy(p, seq), past |-> past]
<1>1. /\ nextSeq \in [Proc -> Nat] /\ outgoing \in [Proc -> SUBSET Message]
      /\ nextSeq' = [nextSeq EXCEPT ![p] = seq]
      /\ outgoing' = [outgoing EXCEPT ![p] = {new}]
      /\ broadcast' = broadcast
      /\ outgoing[p] = {}
      /\ vector_clock[p] \in [Proc -> Nat]
  BY DEF CopyClock, BaseInv, Types
<1>2. new.orig = p /\ new.seq = seq /\ new.past = past /\ new.vec = ClockCopy(p, seq)
  OBVIOUS
<1>3. ASSUME NEW x \in past, SelfListed(x.orig) PROVE x.seq <= ClockCopy(p, seq)[x.orig]
  <2>1. CASE x \in own
    BY <1>1, <2>1 DEF ClockCopy
  <2>2. ASSUME NEW m \in Applied(p), x = Id(m) PROVE x.seq <= ClockCopy(p, seq)[x.orig]
    <3>1. /\ m \in Sent /\ m.orig \in Proc /\ m.seq \in Nat /\ x.orig = m.orig /\ x.seq = m.seq
      BY <2>2, AppliedElim, MessageElim DEF Message, Id
    <3>2. m.seq <= nextSeq[m.orig] /\ m.seq <= vector_clock[p][m.orig]
      BY <1>3, <3>1 DEF OrderInv, Messages, Covered, Ordered, AtMost
    <3> QED BY <1>1, <3>1, <3>2 DEF ClockCopy
  <2> QED BY <2>1, <2>2
<1>4. Sent' = Sent \cup {new}
  <2> HIDE DEF new
  <2>1. \A r \in Proc : outgoing'[r] = IF r = p THEN {new} ELSE outgoing[r]
    BY <1>1
  <2>2. ASSUME NEW x PROVE x \in Sent' <=> x \in Sent \cup {new}
    BY <1>1, <2>1 DEF Sent
  <2> QED BY <2>2
<1>5. ClockCopy(p, seq)[p] = seq - 1
  BY <1>1 DEF ClockCopy
<1> HIDE DEF past, new
<1>6. \A m \in Sent : m.orig \in Proc /\ m.seq \in Nat
  <2>1. Sent \subseteq Message
    BY DEF Sent, BaseInv, Types
  <2> QED BY <2>1, MessageElim DEF Message
<1>7. \A m \in Sent' : Covered(m)'
  <2>1. ASSUME NEW m \in Sent PROVE Covered(m)'
    <3>1. Covered(m) /\ m.orig \in Proc /\ m.seq \in Nat
      BY <1>6 DEF OrderInv, Messages
    <3>2. m.seq <= nextSeq'[m.orig]
      BY <1>1, <3>1 DEF Covered
    <3> QED BY <3>1, <3>2 DEF Covered
  <2>2. ASSUME NEW m, m = new PROVE Covered(m)'
    BY <1>1, <1>2, <1>3, <1>5, <2>2 DEF Covered
  <2> QED BY <1>4, <2>1, <2>2
<1>8. Unique'
  <2>1. \A m \in Sent : Id(m) # Id(new)
    <3>1. ASSUME NEW m \in Sent, Id(m) = Id(new) PROVE FALSE
      <4>1. m.orig = p /\ m.seq = seq
        BY <1>2, <3>1 DEF Id
      <4>2. m.seq <= nextSeq[m.orig]
        BY DEF OrderInv, Messages, Covered
      <4> QED BY <1>1, <4>1, <4>2
    <3> QED BY <3>1
  <2>2. Unique
    BY DEF OrderInv, Messages
  <2> QED BY <1>4, <2>1, <2>2 DEF Unique
<1> QED BY <1>7, <1>8 DEF Messages

LEMMA MessagesSendUrb ==
  ASSUME BaseInv, OrderInv, NEW p \in Proc, NEW m, SendUrb(p, m)
  PROVE  Messages'
<1>1. /\ m \in outgoing[p] /\ outgoing \in [Proc -> SUBSET Message]
      /\ outgoing' = [outgoing EXCEPT ![p] = {}]
      /\ broadcast' = broadcast \cup {m}
      /\ nextSeq' = nextSeq
  BY DEF SendUrb, BaseInv, Types
<1>2. Sent' \subseteq Sent
  BY <1>1 DEF Sent
<1> QED BY <1>1, <1>2 DEF OrderInv, Messages, Unique, Covered

LEMMA OrderInit == Init => OrderInv
<1> SUFFICES ASSUME Init PROVE OrderInv
  OBVIOUS
<1>1. Sent = {}
  BY DEF Init, Sent
<1>2. ASSUME NEW r \in Proc PROVE Ordered(r)
  <2>1. /\ Known(r) = {} /\ Applied(r) = {} /\ receiver[r].pc = "idle"
        /\ \A q \in Proc : vector_clock[r][q] = 0
    BY DEF Init, InLog, Known, Logged, Applied, Idle
  <2> QED BY <2>1 DEF Ordered, AtMost, Complete, Due, Delivering, Causes, Numbers
<1> QED BY <1>1, <1>2 DEF OrderInv, Messages, Unique

\* Steps that send nothing keep what holds of messages.
LEMMA MessagesFrame ==
  ASSUME Messages, UNCHANGED <<nextSeq, outgoing, broadcast>>
  PROVE  Messages'
<1>1. Sent' = Sent
  BY DEF Sent
<1> QED BY <1>1 DEF Messages, Unique, Covered

\* The step of one process p.
LEMMA OrderOf ==
  ASSUME OrderInv, NEW p \in Proc, Messages', Ordered(p)',
         \A r \in Proc \ {p} :
           log'[r] = log[r] /\ receiver'[r] = receiver[r] /\ vector_clock'[r] = vector_clock[r]
  PROVE  OrderInv'
<1>1. ASSUME NEW r \in Proc \ {p} PROVE Ordered(r)'
  <2>1. InLog(r)' = InLog(r) /\ \A i \in InLog(r) : log'[r][i] = log[r][i]
    BY DEF InLog
  <2> QED BY <2>1, OrderedFrame DEF OrderInv
<1> QED BY <1>1 DEF OrderInv

LEMMA OrderMainStep ==
  ASSUME BaseInv, OrderInv, NEW p \in Proc, MainStep(p)
  PROVE  OrderInv'
<1>1. CASE CopyClock(p)
  <2>1. InLog(p)' = InLog(p) /\ \A i \in InLog(p) : log'[p][i] = log[p][i]
    BY <1>1 DEF CopyClock, InLog
  <2>2. Ordered(p)'
    BY <1>1, <2>1, OrderedFrame DEF CopyClock, OrderInv
  <2> QED BY <1>1, <2>2, MessagesCopyClock, OrderOf DEF CopyClock
<1>2. ASSUME NEW m \in outgoing[p], SendUrb(p, m) PROVE OrderInv'
  <2> DEFINE e == [ev |-> "b", seq |-> m.seq]
  <2>1. /\ m \in Message /\ Types /\ log' = [log EXCEPT ![p] = Append(@, e)]
        /\ UNCHANGED <<vector_clock, receiver>>
    BY <1>2 DEF SendUrb, BaseInv, Types
  <2>2. e \in LogLine /\ e.ev = "b"
    BY <2>1, MessageElim DEF LogLine
  <2> HIDE DEF e
  <2>3. InLog(p)' = InLog(p) /\ \A i \in InLog(p) : log'[p][i] = log[p][i]
    BY <2>1, <2>2, LogB, Zenon
  <2>4. Ordered(p)'
    BY <2>1, <2>3, OrderedFrame DEF OrderInv
  <2>5. \A r \in Proc \ {p} : log'[r] = log[r]
    BY <2>1 DEF Types
  <2> QED BY <1>2, <2>1, <2>4, <2>5, MessagesSendUrb, OrderOf
<1> QED BY <1>1, <1>2 DEF MainStep

\* The other receivers, the lists and the clocks of the others in a receiver's step.
LEMMA OthersStay ==
  ASSUME BaseInv, NEW p \in Proc,
         ReceiverStep(p) \/ \E m \in broadcast : DeliverLcb(p, m)
  PROVE  \A r \in Proc \ {p} :
           log'[r] = log[r] /\ receiver'[r] = receiver[r] /\ vector_clock'[r] = vector_clock[r]
<1>1. /\ log \in [Proc -> Seq(LogLine)] /\ DOMAIN receiver = Proc
      /\ vector_clock \in [Proc -> [Proc -> Nat]]
  BY DEF BaseInv, Types
<1>2. CASE \E m \in broadcast : DeliverLcb(p, m)
  BY <1>1, <1>2 DEF DeliverLcb, Counted
<1>3. CASE LogDeliver(p) \/ FindNext(p) \/ FindLog(p)
  BY <1>1, <1>3 DEF LogDeliver, FindNext, FindLog
<1>4. CASE FindHead(p)
  BY <1>1, <1>4 DEF FindHead, Counted
<1>5. CASE RemoveNext(p)
  BY <1>1, <1>5 DEF RemoveNext
<1>6. CASE ReadFreed(p)
  BY <1>1, <1>6 DEF ReadFreed, Counted
<1> QED BY <1>2, <1>3, <1>4, <1>5, <1>6 DEF ReceiverStep

LEMMA OrderDeliverLcb ==
  ASSUME BaseInv, OrderInv, NEW p \in Proc, NEW m \in broadcast, DeliverLcb(p, m)
  PROVE  OrderInv'
<1>1. /\ receiver[p].pc = "idle" /\ m \notin urbDelivered[p] /\ log' = log
      /\ UNCHANGED <<nextSeq, outgoing, broadcast>>
      /\ DOMAIN receiver = Proc /\ vector_clock[p] \in [Proc -> Nat]
  BY DEF DeliverLcb, BaseInv, Types, Idle
<1>2. m \notin Applied(p)
  BY <1>1 DEF BaseInv, Local, Handed
<1>3. Ordered(p)'
  <2>1. CASE TestVecClock(p, m)
    <3>1. /\ vector_clock' = Counted(p, m.orig)
          /\ receiver'[p].pc = "log" /\ receiver'[p].msg = m
      BY <1>1, <2>1 DEF DeliverLcb, Logging
    <3> QED BY <1>1, <1>2, <2>1, <3>1, OrderedCount
  <2>2. CASE ~TestVecClock(p, m)
    <3>1. UNCHANGED <<vector_clock, receiver>>
      BY <2>2 DEF DeliverLcb
    <3>2. Applied(p)' = Applied(p)
      BY <1>1, <3>1 DEF Applied, Logged, InLog
    <3>3. ~Delivering(p)' /\ Orderly(p)
      BY <1>1, <3>1 DEF Delivering, Orderly
    <3>4. \A q \in Proc : vector_clock'[p][q] \in Nat /\ vector_clock[p][q] <= vector_clock'[p][q]
      BY <1>1, <3>1
    <3> QED BY <1>1, <3>1, <3>2, <3>3, <3>4, OrderedRest DEF OrderInv
  <2> QED BY <2>1, <2>2
<1>4. Messages'
  BY <1>1, MessagesFrame DEF OrderInv
<1>5. \A r \in Proc \ {p} :
        log'[r] = log[r] /\ receiver'[r] = receiver[r] /\ vector_clock'[r] = vector_clock[r]
  BY OthersStay
<1> QED BY <1>3, <1>4, <1>5, OrderOf

\* The lines of deliver_lcb and find_pending.
LEMMA OrderedWrites ==
  ASSUME BaseInv, OrderInv, NEW p \in Proc, LogDeliver(p) \/ FindLog(p)
  PROVE  Ordered(p)'
<1>1. Types /\ Ordered(p) /\ ReceiverOK(receiver[p]) /\ DOMAIN receiver = Proc
  BY DEF BaseInv, OrderInv, Types
<1>2. CASE LogDeliver(p)
  <2> DEFINE m == receiver[p].msg
             e == Line(p, m.orig, m)
  <2>1. /\ receiver[p].pc = "log" /\ m \in Message /\ m.orig \in Proc
        /\ log' = [log EXCEPT ![p] = Append(@, e)] /\ vector_clock' = vector_clock
        /\ receiver'[p].pc = "find"
    BY <1>1, <1>2, MessageElim DEF LogDeliver, AfterLog, AtList, ReceiverOK
  <2>2. e \in LogLine /\ e.ev = "d" /\ e.msg = m /\ e.pid = m.orig
        /\ e.seq = vector_clock[p][m.orig]
    BY <1>1, <2>1 DEF Line, LogLine, Types
  <2> HIDE DEF e
  <2> QED BY <1>1, <2>1, <2>2, OrderedLog
<1>3. CASE FindLog(p)
  <2> DEFINE m == receiver[p].msg
             q == receiver[p].list
             e == Line(p, q, m)
  <2>1. /\ receiver[p].pc = "findlog" /\ m \in Message \cup {NoMsg} /\ q \in Proc
        /\ log' = [log EXCEPT ![p] = Append(@, e)] /\ vector_clock' = vector_clock
        /\ receiver'[p].pc = "remove"
    BY <1>1, <1>3 DEF FindLog, Removing, ReceiverOK
  <2>2. e \in LogLine /\ e.ev = "d" /\ e.msg = m /\ e.pid = q /\ e.seq = vector_clock[p][q]
    BY <1>1, <2>1 DEF Line, LogLine, Types
  <2>3. m # NoMsg => m.orig = q
    BY <1>1, <2>1 DEF Ordered, Due, Delivering
  <2> HIDE DEF e
  <2> QED BY <1>1, <2>1, <2>2, <2>3, OrderedLog
<1> QED BY <1>2, <1>3

\* The steps of find_pending that write nothing.
LEMMA OrderedMoves ==
  ASSUME BaseInv, OrderInv, NEW p \in Proc,
         FindNext(p) \/ FindHead(p) \/ RemoveNext(p) \/ ReadFreed(p)
  PROVE  Ordered(p)'
<1>1. /\ Types /\ Ordered(p) /\ DOMAIN receiver = Proc /\ log' = log
      /\ vector_clock \in [Proc -> [Proc -> Nat]]
      /\ ReceiverOK(receiver[p])
  BY DEF BaseInv, OrderInv, Types, FindNext, FindHead, RemoveNext, ReadFreed
<1>2. Logged(p)' = Logged(p)
  BY <1>1 DEF Logged, InLog
\* A step to s without a delivery.
<1>3. ASSUME Applied(p) = Logged(p), receiver'[p].pc \notin {"log", "findlog"},
             vector_clock' = vector_clock,
             Orderly(p)' => Orderly(p)
      PROVE  Ordered(p)'
  <2>1. Applied(p)' = Applied(p) /\ ~Delivering(p)'
    BY <1>2, <1>3 DEF Applied, Delivering
  <2>2. \A q \in Proc : vector_clock'[p][q] \in Nat /\ vector_clock[p][q] <= vector_clock'[p][q]
    BY <1>1, <1>3
  <2> QED BY <1>1, <1>3, <2>1, <2>2, OrderedRest
<1>4. CASE FindNext(p)
  <2>1. /\ receiver[p].pc = "find" /\ receiver'[p].pc \in {"find", "idle"}
        /\ vector_clock' = vector_clock
    BY <1>1, <1>4 DEF FindNext, AtList, Idle
  <2> QED BY <1>3, <2>1 DEF Applied, Orderly
<1>5. CASE FindHead(p)
  <2> DEFINE q == receiver[p].list
             m == Head(lcb_pending[p][q])
  <2>1. receiver[p].pc = "find" /\ q \in Proc /\ lcb_pending[p][q] # <<>>
    BY <1>1, <1>5 DEF FindHead, ReceiverOK
  <2>2. m \in Pending(p) /\ m.orig = q
    <3>1. lcb_pending[p][q] \in Seq(Message)
      BY <1>1, <2>1 DEF Types
    <3>2. 1 \in DOMAIN lcb_pending[p][q] /\ m = lcb_pending[p][q][1]
      BY <2>1, <3>1
    <3> QED BY <1>1, <2>1, <3>2 DEF Pending, Types
  <2>3. CASE TestVecClock(p, m)
    <3>1. /\ vector_clock' = Counted(p, q)
          /\ receiver'[p].pc = "findlog" /\ receiver'[p].list = q /\ receiver'[p].msg = m
      BY <1>1, <1>5, <2>1, <2>3 DEF FindHead, FoundIn
    <3>2. m \in broadcast /\ m \notin Applied(p)
      BY <2>1, <2>2 DEF BaseInv, Local, Handed, Apart, Orderly
    <3> HIDE DEF m
    <3> QED BY <1>1, <2>1, <2>2, <2>3, <3>1, <3>2, OrderedCount
  <2>4. CASE ~TestVecClock(p, m)
    <3>1. receiver'[p].pc = "hung" /\ vector_clock' = vector_clock
      BY <1>1, <1>5, <2>4 DEF FindHead, Hung
    <3> QED BY <1>3, <2>1, <3>1 DEF Applied, Orderly
  <2> QED BY <2>3, <2>4
<1>6. CASE RemoveNext(p)
  <2>1. /\ receiver[p].pc = "remove" /\ receiver'[p].pc \in {"remove", "freed"}
        /\ vector_clock' = vector_clock
    BY <1>1, <1>6 DEF RemoveNext, AtFreed
  <2> QED BY <1>3, <2>1 DEF Applied, Orderly
<1>7. CASE ReadFreed(p)
  <2>1. receiver[p].pc = "freed" /\ receiver[p].list \in Proc
    BY <1>1, <1>7 DEF ReadFreed, ReceiverOK
  <2>2. CASE vector_clock' = vector_clock /\ receiver'[p].pc \in {"freed", "hung"}
    BY <1>3, <2>1, <2>2 DEF Applied, Orderly
  <2>3. CASE /\ vector_clock' = Counted(p, receiver[p].list)
             /\ receiver'[p].pc = "findlog" /\ receiver'[p].msg = NoMsg
    <3>1. Applied(p)' = Applied(p) /\ ~Delivering(p)' /\ ~Orderly(p)'
      BY <1>2, <2>1, <2>3 DEF Applied, Delivering, Orderly
    <3>2. \A q \in Proc : vector_clock'[p][q] \in Nat /\ vector_clock[p][q] <= vector_clock'[p][q]
      BY <1>1, <2>1, <2>3 DEF Counted
    <3> QED BY <1>1, <3>1, <3>2, OrderedRest
  <2>4. \/ vector_clock' = vector_clock /\ receiver'[p].pc \in {"freed", "hung"}
        \/ /\ vector_clock' = Counted(p, receiver[p].list)
           /\ receiver'[p].pc = "findlog" /\ receiver'[p].msg = NoMsg
    BY <1>1, <1>7, <2>1 DEF ReadFreed, Hung, FoundIn
  <2> QED BY <2>2, <2>3, <2>4
<1> QED BY <1>4, <1>5, <1>6, <1>7

LEMMA OrderStep == BaseInv /\ OrderInv /\ [Next]_vars => OrderInv'
<1> SUFFICES ASSUME BaseInv, OrderInv, [Next]_vars PROVE OrderInv'
  OBVIOUS
<1>1. CASE UNCHANGED vars
  <2>1. Messages'
    BY <1>1, MessagesFrame DEF OrderInv, vars
  <2>2. ASSUME NEW r \in Proc PROVE Ordered(r)'
    <3>1. InLog(r)' = InLog(r) /\ \A i \in InLog(r) : log'[r][i] = log[r][i]
      BY <1>1 DEF vars, InLog
    <3> QED BY <1>1, <3>1, OrderedFrame DEF vars, OrderInv
  <2> QED BY <2>1, <2>2 DEF OrderInv
<1>2. ASSUME NEW p \in Proc, MainStep(p) PROVE OrderInv'
  BY <1>2, OrderMainStep
<1>3. ASSUME NEW p \in Proc, NEW m \in broadcast, DeliverLcb(p, m) PROVE OrderInv'
  BY <1>3, OrderDeliverLcb
<1>4. ASSUME NEW p \in Proc, ReceiverStep(p) PROVE OrderInv'
  <2>1. Ordered(p)'
    BY <1>4, OrderedWrites, OrderedMoves DEF ReceiverStep
  <2>2. UNCHANGED <<nextSeq, outgoing, broadcast>>
    BY <1>4 DEF ReceiverStep, LogDeliver, FindNext, FindHead, FindLog, RemoveNext, ReadFreed
  <2>3. Messages'
    BY <2>2, MessagesFrame DEF OrderInv
  <2>4. \A r \in Proc \ {p} :
          log'[r] = log[r] /\ receiver'[r] = receiver[r] /\ vector_clock'[r] = vector_clock[r]
    BY <1>4, OthersStay
  <2> QED BY <2>1, <2>3, <2>4, OrderOf
<1>5. ASSUME NEW p \in Proc, Stop(p) PROVE OrderInv'
  <2>1. UNCHANGED <<nextSeq, outgoing, broadcast, log, receiver, vector_clock>>
    BY <1>5 DEF Stop
  <2>2. Messages'
    BY <2>1, MessagesFrame DEF OrderInv
  <2>3. ASSUME NEW r \in Proc PROVE Ordered(r)'
    <3>1. InLog(r)' = InLog(r) /\ \A i \in InLog(r) : log'[r][i] = log[r][i]
      BY <2>1 DEF InLog
    <3> QED BY <2>1, <3>1, OrderedFrame DEF OrderInv
  <2> QED BY <2>2, <2>3 DEF OrderInv
<1> QED BY <1>1, <1>2, <1>3, <1>4, <1>5 DEF Next

\* Localized causal order (test_vec_clock, send_lcb): every process writes the causes
\* that a message waits for before it, whatever the lists of dependencies are.
THEOREM CausalOrderCorrect == Spec => []CausalOrder
<1>1. Init => BaseInv /\ OrderInv
  BY BaseInit, OrderInit
<1>2. BaseInv /\ OrderInv /\ [Next]_vars => (BaseInv /\ OrderInv)'
  BY BaseStep, OrderStep
<1>3. BaseInv /\ OrderInv => CausalOrder
  BY DEF OrderInv, Ordered, Causes, CausalOrder
<1> QED BY <1>1, <1>2, <1>3, PTL DEF Spec

\* A line of a delivery names the sender, and the number in it is the number of the
\* message (log_deliver_lcb) when the sender is in its own list of dependencies.
THEOREM FifoCorrect == Spec => []FifoLines
<1>1. Init => BaseInv /\ OrderInv
  BY BaseInit, OrderInit
<1>2. BaseInv /\ OrderInv /\ [Next]_vars => (BaseInv /\ OrderInv)'
  BY BaseStep, OrderStep
<1>3. BaseInv /\ OrderInv => FifoLines
  BY DEF OrderInv, Ordered, Numbers, FifoLines
<1> QED BY <1>1, <1>2, <1>3, PTL DEF Spec

-----------------------------------------------------------------------------
(* The lines of deliveries, whatever the lists are.                        *)

\* Process r has lines of deliveries from q with the numbers 1 to n.
Lines(r, q, n) == \A s \in 1 .. n : \E i \in LinesOf(r, q) : log[r][i].seq = s

\* The lines for q are numbered without a gap up to the entry of the clock, but for
\* the line that is about to be written.
Gapless(r) == \A q \in Proc : Lines(r, q, vector_clock[r][q] - Owed(r, q))

\* The lines that the message about to be logged waits for are in the log, and those
\* that a logged message waited for come before its own.
Ready(r) ==
  Delivering(r) =>
    LET m == receiver[r].msg IN \A q \in Deps[m.orig] : Lines(r, q, m.vec[q])
LinesBefore(r, m, j) ==
  \A q \in Deps[m.orig] : \A s \in 1 .. m.vec[q] :
    \E i \in LinesOf(r, q) : i < j /\ log[r][i].seq = s
Preceded(r) == \A j \in Known(r) : LinesBefore(r, log[r][j].msg, j)

LineLocal(r) == Gapless(r) /\ Ready(r) /\ Preceded(r)
LineInv == \A r \in Proc : LineLocal(r)

LEMMA LineInit == Init => LineInv
<1> SUFFICES ASSUME Init, NEW r \in Proc PROVE LineLocal(r)
  BY DEF LineInv
<1>1. /\ Known(r) = {} /\ receiver[r].pc = "idle"
      /\ \A q \in Proc : vector_clock[r][q] = 0
  BY DEF Init, InLog, Known, Idle
<1>2. \A q \in Proc : vector_clock[r][q] - Owed(r, q) = 0
  BY <1>1 DEF Owed
<1> QED BY <1>1, <1>2 DEF LineLocal, Gapless, Lines, Ready, Delivering, Preceded

\* No line is written, and none becomes due.
LEMMA LineFrame ==
  ASSUME NEW r \in Proc, LineLocal(r),
         InLog(r)' = InLog(r), \A i \in InLog(r) : log'[r][i] = log[r][i],
         vector_clock'[r] = vector_clock[r],
         \A q \in Proc : Owed(r, q)' = Owed(r, q),
         receiver'[r] = receiver[r] \/ ~Delivering(r)'
  PROVE  LineLocal(r)'
<1>1. Known(r)' = Known(r) /\ \A i \in Known(r) : log'[r][i] = log[r][i]
  BY DEF Known
<1>2. \A q : LinesOf(r, q)' = LinesOf(r, q) /\ \A i \in LinesOf(r, q) : log'[r][i] = log[r][i]
  BY DEF LinesOf
<1>3. Gapless(r)'
  BY <1>2 DEF LineLocal, Gapless, Lines
<1>4. Ready(r)'
  BY <1>2 DEF LineLocal, Ready, Delivering, Lines
<1>5. Preceded(r)'
  BY <1>1, <1>2 DEF LineLocal, Preceded, LinesBefore
<1> QED BY <1>3, <1>4, <1>5 DEF LineLocal

\* The clock counts a message that passes the test, or one that never was.
LEMMA LineCount ==
  ASSUME BaseInv, NEW p \in Proc, LineLocal(p), NEW q \in Proc,
         receiver[p].pc \notin {"log", "findlog"},
         vector_clock' = Counted(p, q), log' = log,
         \A k \in Proc : Owed(p, k)' = IF k = q THEN 1 ELSE 0,
         Delivering(p)' => receiver'[p].msg \in Message /\ TestVecClock(p, receiver'[p].msg)
  PROVE  LineLocal(p)'
<1>1. /\ vector_clock[p] \in [Proc -> Nat]
      /\ \A k \in Proc : vector_clock'[p][k] = IF k = q THEN vector_clock[p][k] + 1
                                                       ELSE vector_clock[p][k]
  <2>1. vector_clock \in [Proc -> [Proc -> Nat]]
    BY DEF BaseInv, Types
  <2> QED BY <2>1 DEF Counted
<1>2. /\ Known(p)' = Known(p)
      /\ \A k : LinesOf(p, k)' = LinesOf(p, k)
  BY DEF Known, LinesOf, InLog
<1>3. \A k \in Proc : Owed(p, k) = 0
  BY DEF Owed
<1>4. \A k \in Proc : Lines(p, k, vector_clock[p][k])
  <2>1. \A k \in Proc : vector_clock[p][k] - Owed(p, k) = vector_clock[p][k]
    BY <1>1, <1>3
  <2> QED BY <2>1 DEF LineLocal, Gapless
<1>5. Gapless(p)'
  <2>1. \A k \in Proc : vector_clock'[p][k] - Owed(p, k)' = vector_clock[p][k]
    BY <1>1
  <2>2. ASSUME NEW k \in Proc, NEW s \in 1 .. (vector_clock'[p][k] - Owed(p, k)')
        PROVE  \E i \in LinesOf(p, k)' : log'[p][i].seq = s
    BY <1>2, <1>4, <2>1, <2>2 DEF Lines
  <2> QED BY <2>2 DEF Gapless, Lines
<1>6. Ready(p)'
  <2> SUFFICES ASSUME Delivering(p)', NEW k \in Deps[receiver'[p].msg.orig],
                      NEW s \in 1 .. receiver'[p].msg.vec[k]
               PROVE  \E i \in LinesOf(p, k)' : log'[p][i].seq = s
    BY DEF Ready, Lines
  <2> DEFINE m == receiver'[p].msg
  <2>1. m \in Message /\ TestVecClock(p, m)
    OBVIOUS
  <2>2. m.orig \in Proc /\ m.vec \in [Proc -> Nat]
    BY <2>1, MessageElim
  <2>3. k \in Proc
    BY <2>2, LcbAssumption DEF Proc
  <2>4. m.vec[k] <= vector_clock[p][k] /\ m.vec[k] \in Nat /\ vector_clock[p][k] \in Nat
    BY <1>1, <2>1, <2>2, <2>3 DEF TestVecClock
  <2>5. s \in 1 .. vector_clock[p][k]
    BY <2>4
  <2> QED BY <1>2, <1>4, <2>3, <2>5 DEF Lines
<1>7. Preceded(p)'
  BY <1>2 DEF LineLocal, Preceded, LinesBefore
<1> QED BY <1>5, <1>6, <1>7 DEF LineLocal

\* The line that is owed is written.
LEMMA LineWrite ==
  ASSUME BaseInv, NEW p \in Proc, LineLocal(p), NEW q \in Proc,
         \A k \in Proc : Owed(p, k) = IF k = q THEN 1 ELSE 0,
         NEW e \in LogLine, e.ev = "d", e.pid = q, e.seq = vector_clock[p][q],
         e.msg = receiver[p].msg, e.msg # NoMsg => Delivering(p),
         log' = [log EXCEPT ![p] = Append(@, e)], vector_clock' = vector_clock,
         receiver'[p].pc \notin {"log", "findlog"}
  PROVE  LineLocal(p)'
<1> DEFINE n == Len(log[p]) + 1
<1>0. Types /\ vector_clock[p] \in [Proc -> Nat]
  BY DEF BaseInv, Types
<1>1. /\ InLog(p)' = InLog(p) \cup {n}
      /\ Known(p)' = Known(p) \cup (IF e.msg = NoMsg THEN {} ELSE {n})
      /\ \A i \in InLog(p) : log'[p][i] = log[p][i] /\ i < n
      /\ log'[p][n] = e
  <2>1. LogGrows(p, e)
    BY <1>0, LogD, Zenon
  <2> QED BY <2>1 DEF LogGrows
<1> HIDE DEF n
<1>2. \A k : \A i \in LinesOf(p, k) : i \in LinesOf(p, k)' /\ log'[p][i] = log[p][i] /\ i < n
  BY <1>1 DEF LinesOf
<1>3. n \in LinesOf(p, q)'
  BY <1>1 DEF LinesOf
<1>4. \A k \in Proc : Owed(p, k)' = 0
  BY DEF Owed
<1>5. Gapless(p)'
  <2>1. ASSUME NEW k \in Proc, NEW s \in 1 .. vector_clock[p][k]
        PROVE  \E i \in LinesOf(p, k)' : log'[p][i].seq = s
    <3>1. CASE s \in 1 .. (vector_clock[p][k] - Owed(p, k))
      <4>1. PICK i \in LinesOf(p, k) : log[p][i].seq = s
        BY <3>1 DEF LineLocal, Gapless, Lines
      <4> QED BY <1>2, <4>1
    <3>2. CASE s \notin 1 .. (vector_clock[p][k] - Owed(p, k))
      <4>1. k = q /\ s = vector_clock[p][q]
        BY <1>0, <3>2
      <4> QED BY <1>1, <1>3, <4>1
    <3> QED BY <3>1, <3>2
  <2>2. \A k \in Proc : vector_clock'[p][k] - Owed(p, k)' = vector_clock[p][k]
    BY <1>0, <1>4
  <2>3. ASSUME NEW k \in Proc, NEW s \in 1 .. (vector_clock'[p][k] - Owed(p, k)')
        PROVE  \E i \in LinesOf(p, k)' : log'[p][i].seq = s
    BY <2>1, <2>2, <2>3
  <2> QED BY <2>3 DEF Gapless, Lines
<1>6. Ready(p)'
  BY DEF Ready, Delivering
<1>7. ASSUME NEW m, NEW j, LinesBefore(p, m, j) PROVE LinesBefore(p, m, j)'
  <2>1. ASSUME NEW k \in Deps[m.orig], NEW s \in 1 .. m.vec[k]
        PROVE  \E i \in LinesOf(p, k)' : i < j /\ log'[p][i].seq = s
    <3>1. PICK i \in LinesOf(p, k) : i < j /\ log[p][i].seq = s
      BY <1>7, <2>1 DEF LinesBefore
    <3> QED BY <1>2, <3>1
  <2> QED BY <2>1 DEF LinesBefore
<1>8. ASSUME NEW m, m = e.msg, m # NoMsg, NEW j, j = n PROVE LinesBefore(p, m, j)'
  <2>1. ASSUME NEW k \in Deps[m.orig], NEW s \in 1 .. m.vec[k]
        PROVE  \E i \in LinesOf(p, k)' : i < j /\ log'[p][i].seq = s
    <3>1. PICK i \in LinesOf(p, k) : log[p][i].seq = s
      BY <1>8, <2>1 DEF LineLocal, Ready, Lines
    <3> QED BY <1>2, <1>8, <3>1
  <2> QED BY <2>1 DEF LinesBefore
<1>9. Preceded(p)'
  <2>1. ASSUME NEW j \in Known(p)', NEW m, m = log'[p][j].msg PROVE LinesBefore(p, m, j)'
    <3>1. CASE j \in Known(p)
      <4>1. log'[p][j] = log[p][j]
        BY <1>1, <3>1 DEF Known
      <4>2. LinesBefore(p, m, j)
        BY <2>1, <3>1, <4>1 DEF LineLocal, Preceded
      <4> QED BY <1>7, <4>2
    <3>2. CASE j \notin Known(p)
      <4>1. j = n /\ e.msg # NoMsg /\ log'[p][j] = e
        BY <1>1, <3>2
      <4> QED BY <1>8, <2>1, <4>1
    <3> QED BY <3>1, <3>2
  <2>2. ASSUME NEW j \in Known(p)', NEW k \in Deps[log'[p][j].msg.orig],
               NEW s \in 1 .. log'[p][j].msg.vec[k]
        PROVE  \E i \in LinesOf(p, k)' : i < j /\ log'[p][i].seq = s
    <3>1. PICK m : m = log'[p][j].msg
      OBVIOUS
    <3>2. LinesBefore(p, m, j)'
      BY <2>1, <2>2, <3>1
    <3>3. k \in Deps[m.orig] /\ s \in 1 .. m.vec[k]
      BY <2>2, <3>1
    <3> QED BY <3>2, <3>3 DEF LinesBefore
  <2> QED BY <2>2 DEF Preceded, LinesBefore
<1> QED BY <1>5, <1>6, <1>9 DEF LineLocal

LEMMA LineDeliverLcb ==
  ASSUME BaseInv, LineInv, NEW p \in Proc, NEW m \in broadcast, DeliverLcb(p, m)
  PROVE  LineLocal(p)'
<1>1. /\ receiver[p].pc = "idle" /\ DOMAIN receiver = Proc /\ log' = log
      /\ m \in Message /\ m.orig \in Proc /\ LineLocal(p)
  <2>1. m \in Message
    BY DEF BaseInv, Types
  <2> QED BY <2>1, MessageElim DEF DeliverLcb, Idle, BaseInv, Types, LineInv
<1>2. CASE TestVecClock(p, m)
  <2>1. /\ vector_clock' = Counted(p, m.orig)
        /\ receiver'[p].pc = "log" /\ receiver'[p].msg = m
    BY <1>1, <1>2 DEF DeliverLcb, Logging
  <2>2. \A k \in Proc : Owed(p, k)' = IF k = m.orig THEN 1 ELSE 0
    BY <2>1 DEF Owed
  <2> QED BY <1>1, <1>2, <2>1, <2>2, LineCount
<1>3. CASE ~TestVecClock(p, m)
  <2>1. UNCHANGED <<vector_clock, receiver>>
    BY <1>3 DEF DeliverLcb
  <2>2. InLog(p)' = InLog(p) /\ \A q \in Proc : Owed(p, q)' = Owed(p, q)
    BY <1>1, <2>1 DEF InLog, Owed
  <2> QED BY <1>1, <2>1, <2>2, LineFrame
<1> QED BY <1>2, <1>3

LEMMA LineReceiverStep ==
  ASSUME BaseInv, LineInv, NEW p \in Proc, ReceiverStep(p)
  PROVE  LineLocal(p)'
<1>1. /\ Types /\ ReceiverOK(receiver[p]) /\ DOMAIN receiver = Proc /\ LineLocal(p)
  BY DEF BaseInv, Types, LineInv
\* A step that neither counts nor writes anything.
<1>2. ASSUME log' = log, vector_clock' = vector_clock,
             receiver[p].pc \notin {"log", "findlog"}, receiver'[p].pc \notin {"log", "findlog"}
      PROVE  LineLocal(p)'
  <2>1. InLog(p)' = InLog(p) /\ \A q \in Proc : Owed(p, q)' = Owed(p, q)
    BY <1>2 DEF InLog, Owed
  <2>2. ~Delivering(p)'
    BY <1>2 DEF Delivering
  <2> QED BY <1>1, <1>2, <2>1, <2>2, LineFrame
<1>3. CASE LogDeliver(p)
  <2> DEFINE m == receiver[p].msg
             e == Line(p, m.orig, m)
  <2>1. /\ receiver[p].pc = "log" /\ m \in Message /\ m.orig \in Proc
        /\ log' = [log EXCEPT ![p] = Append(@, e)] /\ vector_clock' = vector_clock
        /\ receiver'[p].pc = "find"
    BY <1>1, <1>3, MessageElim DEF LogDeliver, AfterLog, AtList, ReceiverOK
  <2>2. e \in LogLine /\ e.ev = "d" /\ e.msg = m /\ e.pid = m.orig
        /\ e.seq = vector_clock[p][m.orig]
    BY <1>1, <2>1 DEF Line, LogLine, Types
  <2>3. Delivering(p) /\ \A k \in Proc : Owed(p, k) = IF k = m.orig THEN 1 ELSE 0
    BY <2>1 DEF Delivering, Owed
  <2> HIDE DEF e
  <2> QED BY <1>1, <2>1, <2>2, <2>3, LineWrite
<1>4. CASE FindLog(p)
  <2> DEFINE m == receiver[p].msg
             q == receiver[p].list
             e == Line(p, q, m)
  <2>1. /\ receiver[p].pc = "findlog" /\ m \in Message \cup {NoMsg} /\ q \in Proc
        /\ log' = [log EXCEPT ![p] = Append(@, e)] /\ vector_clock' = vector_clock
        /\ receiver'[p].pc = "remove"
    BY <1>1, <1>4 DEF FindLog, Removing, ReceiverOK
  <2>2. e \in LogLine /\ e.ev = "d" /\ e.msg = m /\ e.pid = q /\ e.seq = vector_clock[p][q]
    BY <1>1, <2>1 DEF Line, LogLine, Types
  <2>3. (m # NoMsg => Delivering(p)) /\ \A k \in Proc : Owed(p, k) = IF k = q THEN 1 ELSE 0
    BY <2>1 DEF Delivering, Owed
  <2> HIDE DEF e
  <2> QED BY <1>1, <2>1, <2>2, <2>3, LineWrite
<1>5. CASE FindNext(p)
  BY <1>1, <1>2, <1>5 DEF FindNext, AtList, Idle
<1>6. CASE FindHead(p)
  <2> DEFINE q == receiver[p].list
             m == Head(lcb_pending[p][q])
  <2>1. receiver[p].pc = "find" /\ q \in Proc /\ lcb_pending[p][q] # <<>> /\ log' = log
    BY <1>1, <1>6 DEF FindHead, ReceiverOK
  <2>2. m \in Message
    BY <1>1, <2>1 DEF Types
  <2>3. CASE TestVecClock(p, m)
    <3>1. /\ vector_clock' = Counted(p, q)
          /\ receiver'[p].pc = "findlog" /\ receiver'[p].list = q /\ receiver'[p].msg = m
      BY <1>1, <1>6, <2>1, <2>3 DEF FindHead, FoundIn
    <3>2. \A k \in Proc : Owed(p, k)' = IF k = q THEN 1 ELSE 0
      BY <3>1 DEF Owed
    <3> HIDE DEF m
    <3> QED BY <1>1, <2>1, <2>2, <2>3, <3>1, <3>2, LineCount
  <2>4. CASE ~TestVecClock(p, m)
    <3>1. receiver'[p].pc = "hung" /\ vector_clock' = vector_clock
      BY <1>1, <1>6, <2>4 DEF FindHead, Hung
    <3> QED BY <1>2, <2>1, <3>1
  <2> QED BY <2>3, <2>4
<1>7. CASE RemoveNext(p)
  BY <1>1, <1>2, <1>7 DEF RemoveNext, AtFreed
<1>8. CASE ReadFreed(p)
  <2>1. receiver[p].pc = "freed" /\ receiver[p].list \in Proc /\ log' = log
    BY <1>1, <1>8 DEF ReadFreed, ReceiverOK
  <2>2. CASE vector_clock' = vector_clock /\ receiver'[p].pc \in {"freed", "hung"}
    BY <1>2, <2>1, <2>2
  <2>3. CASE vector_clock' = Counted(p, receiver[p].list)
             /\ receiver'[p] = FoundIn(receiver[p].list, NoMsg)
    <3>1. ~Delivering(p)' /\ \A k \in Proc : Owed(p, k)' = IF k = receiver[p].list THEN 1 ELSE 0
      BY <2>3 DEF Delivering, Owed, FoundIn
    <3> QED BY <1>1, <2>1, <2>3, <3>1, LineCount
  <2>4. \/ vector_clock' = vector_clock /\ receiver'[p].pc \in {"freed", "hung"}
        \/ /\ vector_clock' = Counted(p, receiver[p].list)
           /\ receiver'[p] = FoundIn(receiver[p].list, NoMsg)
    BY <1>1, <1>8, <2>1 DEF ReadFreed, Hung
  <2> QED BY <2>2, <2>3, <2>4
<1> QED BY <1>3, <1>4, <1>5, <1>6, <1>7, <1>8 DEF ReceiverStep

LEMMA LineStep == BaseInv /\ LineInv /\ [Next]_vars => LineInv'
<1> SUFFICES ASSUME BaseInv, LineInv, [Next]_vars, NEW r \in Proc PROVE LineLocal(r)'
  BY DEF LineInv
<1>1. LineLocal(r)
  BY DEF LineInv
\* A step in which r neither writes a line of a delivery nor moves its receiver.
<1>2. ASSUME InLog(r)' = InLog(r), \A i \in InLog(r) : log'[r][i] = log[r][i],
             receiver'[r] = receiver[r], vector_clock'[r] = vector_clock[r]
      PROVE  LineLocal(r)'
  BY <1>1, <1>2, LineFrame DEF Owed
<1>3. ASSUME log'[r] = log[r], receiver'[r] = receiver[r], vector_clock'[r] = vector_clock[r]
      PROVE  LineLocal(r)'
  BY <1>2, <1>3 DEF InLog
<1>4. ASSUME NEW p \in Proc, CopyClock(p) \/ Stop(p) PROVE LineLocal(r)'
  BY <1>3, <1>4 DEF CopyClock, Stop
<1>5. ASSUME NEW p \in Proc, NEW m \in outgoing[p], SendUrb(p, m) PROVE LineLocal(r)'
  <2> DEFINE e == [ev |-> "b", seq |-> m.seq]
  <2>1. /\ m \in Message /\ Types /\ log' = [log EXCEPT ![p] = Append(@, e)]
        /\ UNCHANGED <<vector_clock, receiver>>
    BY <1>5 DEF SendUrb, BaseInv, Types
  <2>2. e \in LogLine /\ e.ev = "b"
    BY <2>1, MessageElim DEF LogLine
  <2> HIDE DEF e
  <2>3. CASE r = p
    <3>1. InLog(p)' = InLog(p) /\ \A i \in InLog(p) : log'[p][i] = log[p][i]
      BY <2>1, <2>2, LogB, Zenon
    <3> QED BY <1>2, <2>1, <2>3, <3>1
  <2>4. CASE r # p
    BY <1>3, <2>1, <2>4 DEF Types
  <2> QED BY <2>3, <2>4
<1>6. ASSUME NEW p \in Proc, ReceiverStep(p) \/ \E m \in broadcast : DeliverLcb(p, m)
      PROVE  LineLocal(r)'
  <2>1. CASE r = p
    BY <1>6, <2>1, LineReceiverStep, LineDeliverLcb
  <2>2. CASE r # p
    BY <1>3, <1>6, <2>2, OthersStay
  <2> QED BY <2>1, <2>2
<1>7. CASE UNCHANGED vars
  BY <1>3, <1>7 DEF vars
<1> QED BY <1>4, <1>5, <1>6, <1>7 DEF Next, MainStep

\* Line by line, a log is in causal order (test_vec_clock, update_vec_clock,
\* log_deliver_lcb), for any lists of dependencies.
THEOREM LineCausalityCorrect == Spec => []LineCausality
<1>1. Init => BaseInv /\ LineInv
  BY BaseInit, LineInit
<1>2. BaseInv /\ LineInv /\ [Next]_vars => (BaseInv /\ LineInv)'
  BY BaseStep, LineStep
<1>3. LineInv => LineCausality
  <2> SUFFICES ASSUME LineInv, NEW p \in Proc, NEW j \in Known(p),
                      NEW q \in Deps[log[p][j].msg.orig], NEW s \in 1 .. log[p][j].msg.vec[q]
               PROVE  \E i \in InLog(p) : i < j /\ log[p][i].pid = q /\ log[p][i].seq = s
    BY DEF LineCausality
  <2>1. PICK i \in LinesOf(p, q) : i < j /\ log[p][i].seq = s
    BY DEF LineInv, LineLocal, Preceded, LinesBefore
  <2> QED BY <2>1 DEF LinesOf
<1> QED BY <1>1, <1>2, <1>3, PTL DEF Spec

-----------------------------------------------------------------------------
(* Localized causal broadcast is implemented.                              *)

Bares(S) == {Bare(m) : m \in S}

\* What the user of the layer sees of process r, and of all.
Seen(r) == <<Applied(r), Logged(r), Known(r)>>

LEMMA BareDistinct ==
  ASSUME OrderInv, NEW S \in SUBSET Sent, NEW m \in Sent, m \notin S
  PROVE  Bare(m) \notin Bares(S)
<1> SUFFICES ASSUME NEW n \in S, Bare(n) = Bare(m) PROVE FALSE
  BY DEF Bares
<1>1. Bare(n).orig = n.orig /\ Bare(n).seq = n.seq /\ Bare(m).orig = m.orig /\ Bare(m).seq = m.seq
  BY DEF Bare
<1>2. Id(n) = Id(m)
  BY <1>1 DEF Id
<1> QED BY <1>2 DEF OrderInv, Messages, Unique

LEMMA BareIds ==
  ASSUME NEW S
  PROVE  CB!Ids(Bares(S)) = {Id(m) : m \in S}
<1>1. \A m : CB!Id(Bare(m)) = Id(m)
  BY DEF CB!Id, Bare, Id
<1> QED BY <1>1 DEF CB!Ids, Bares

LEMMA SeenStays ==
  ASSUME NEW r \in Proc, log'[r] = log[r], receiver'[r] = receiver[r]
  PROVE  Seen(r)' = Seen(r)
BY DEF Seen, Applied, Logged, Known, InLog

LEMMA Stutter ==
  ASSUME UNCHANGED <<nextSeq, outgoing, broadcast, up>>, \A r \in Proc : Seen(r)' = Seen(r)
  PROVE  UNCHANGED CB!vars
<1>1. \A r \in Proc : Applied(r)' = Applied(r) /\ Logged(r)' = Logged(r) /\ Known(r)' = Known(r)
  BY DEF Seen
<1> QED BY <1>1 DEF CB!vars

\* A process that has exited does nothing.
LEMMA StopImplemented ==
  ASSUME BaseInv, NEW p \in Proc, up[p], up' = [up EXCEPT ![p] = FALSE],
         UNCHANGED <<nextSeq, outgoing, broadcast>>, \A r \in Proc : Seen(r)' = Seen(r)
  PROVE  CB!Stop(p)
<1>1. \A r \in Proc : Applied(r)' = Applied(r) /\ Logged(r)' = Logged(r) /\ Known(r)' = Known(r)
  BY DEF Seen
<1> QED BY <1>1 DEF CB!Stop

LEMMA CopyClockImplemented ==
  ASSUME BaseInv, NEW p \in Proc, CopyClock(p)
  PROVE  CB!Begin(p)
<1> DEFINE seq == nextSeq[p] + 1
           own == {[orig |-> p, seq |-> s] : s \in 1 .. seq - 1}
           past == {Id(m) : m \in Applied(p)} \cup own
           new == [orig |-> p, seq |-> seq, vec |-> ClockCopy(p, seq), past |-> past]
<1>1. /\ nextSeq \in [Proc -> Nat] /\ outgoing \in [Proc -> SUBSET Message]
      /\ nextSeq' = [nextSeq EXCEPT ![p] = seq]
      /\ outgoing' = [outgoing EXCEPT ![p] = {new}]
      /\ up[p] /\ outgoing[p] = {}
      /\ UNCHANGED <<broadcast, log, receiver, up>>
  <2>1. nextSeq \in [Proc -> Nat] /\ outgoing \in [Proc -> SUBSET Message]
    BY DEF BaseInv, Types
  <2>2. /\ nextSeq' = [nextSeq EXCEPT ![p] = seq]
        /\ outgoing' = [outgoing EXCEPT ![p] = {new}]
        /\ up[p] /\ outgoing[p] = {}
        /\ UNCHANGED <<broadcast, log, receiver, up>>
    BY DEF CopyClock
  <2> QED BY <2>1, <2>2
<1>2. \A r \in Proc : Applied(r)' = Applied(r) /\ Logged(r)' = Logged(r) /\ Known(r)' = Known(r)
  BY <1>1, SeenStays DEF Seen
<1>3. own = CB!Own(p, nextSeq[p])
  <2>1. seq - 1 = nextSeq[p]
    BY <1>1
  <2> QED BY <2>1 DEF CB!Own
<1>4. past = CB!Ids(Bares(Applied(p))) \cup CB!Own(p, nextSeq[p])
  <2>1. CB!Ids(Bares(Applied(p))) = {Id(m) : m \in Applied(p)}
    BY BareIds
  <2> QED BY <1>3, <2>1
<1>5. Bare(new) = [orig |-> p, seq |-> seq, past |-> past]
  BY DEF Bare
<1> HIDE DEF past, new
<1>6. ASSUME NEW r \in Proc
      PROVE  Bares(outgoing'[r]) = IF r = p THEN {Bare(new)} ELSE Bares(outgoing[r])
  BY <1>1 DEF Bares
<1>7. [r \in Proc |-> Bares(outgoing'[r])]
        = [[r \in Proc |-> Bares(outgoing[r])] EXCEPT ![p] = {Bare(new)}]
  BY <1>6
<1> QED BY <1>1, <1>2, <1>4, <1>5, <1>7 DEF CB!Begin, Bares

LEMMA SendUrbImplemented ==
  ASSUME BaseInv, NEW p \in Proc, NEW m, SendUrb(p, m)
  PROVE  CB!Broadcast(p, Bare(m))
<1>1. /\ outgoing \in [Proc -> SUBSET Message] /\ m \in outgoing[p] /\ m \in Message
      /\ outgoing' = [outgoing EXCEPT ![p] = {}]
      /\ log' = [log EXCEPT ![p] = Append(@, [ev |-> "b", seq |-> m.seq])]
      /\ broadcast' = broadcast \cup {m}
      /\ up[p] /\ Types
      /\ UNCHANGED <<nextSeq, receiver, up>>
  BY DEF SendUrb, BaseInv, Types
<1>2. ASSUME NEW r \in Proc PROVE Seen(r)' = Seen(r)
  <2>1. CASE r = p
    <3> DEFINE e == [ev |-> "b", seq |-> m.seq]
    <3>1. e \in LogLine /\ e.ev = "b"
      BY <1>1, MessageElim DEF LogLine
    <3> HIDE DEF e
    <3>2. Known(p)' = Known(p) /\ Logged(p)' = Logged(p)
      BY <1>1, <3>1, LogB, Zenon DEF e
    <3>3. Applied(p)' = Applied(p)
      BY <1>1, <3>2 DEF Applied
    <3> QED BY <2>1, <3>2, <3>3 DEF Seen
  <2>2. CASE r # p
    <3>1. log'[r] = log[r]
      BY <1>1, <2>2 DEF Types
    <3> QED BY <1>1, <3>1, SeenStays
  <2> QED BY <2>1, <2>2
<1>3. \A r \in Proc : Applied(r)' = Applied(r) /\ Logged(r)' = Logged(r) /\ Known(r)' = Known(r)
  BY <1>2 DEF Seen
<1>4. Bares(broadcast') = Bares(broadcast) \cup {Bare(m)}
  BY <1>1 DEF Bares
<1>5. \A r \in Proc : Bares(outgoing'[r]) = IF r = p THEN {} ELSE Bares(outgoing[r])
  BY <1>1 DEF Bares
<1>6. [r \in Proc |-> Bares(outgoing'[r])] = [[r \in Proc |-> Bares(outgoing[r])] EXCEPT ![p] = {}]
  BY <1>5
<1>7. Bare(m) \in Bares(outgoing[p])
  BY <1>1 DEF Bares
<1> QED BY <1>1, <1>3, <1>4, <1>6, <1>7 DEF CB!Broadcast, Bares

\* A message is counted: by deliver_lcb, or by find_pending.
LEMMA CountImplemented ==
  ASSUME BaseInv, OrderInv, NEW p \in Proc, up[p],
         receiver[p].pc \in {"idle", "find"},
         NEW m \in broadcast, m \notin Applied(p), TestVecClock(p, m),
         receiver'[p].pc \in {"log", "findlog"}, receiver'[p].msg = m,
         \A r \in Proc \ {p} : receiver'[r] = receiver[r],
         UNCHANGED <<nextSeq, outgoing, broadcast, log, up>>
  PROVE  CB!Deliver(p, Bare(m))
<1>1. \A r \in Proc : Logged(r)' = Logged(r) /\ Known(r)' = Known(r)
  BY DEF Logged, Known, InLog
<1>2. \A r \in Proc \ {p} : Applied(r)' = Applied(r)
  BY <1>1 DEF Applied
<1>3. Applied(p) = Logged(p) /\ Applied(p)' = Applied(p) \cup {m}
  <2>1. m # NoMsg
    BY MessageElim DEF BaseInv, Types
  <2> QED BY <1>1, <2>1 DEF Applied
<1>4. Bare(m) \in Bares(broadcast) /\ Bare(m) \notin Bares(Applied(p))
  <2>1. Applied(p) \subseteq Sent /\ m \in Sent
    BY AppliedElim DEF Sent
  <2> QED BY <2>1, BareDistinct DEF Bares
<1>5. CB!Causes(Bare(m)) \subseteq CB!Ids(Bares(Logged(p)))
  <2>1. CausesLogged(p, m)
    BY Deliverable
  <2>2. CB!Ids(Bares(Logged(p))) = {Id(n) : n \in Logged(p)}
    BY BareIds
  <2>3. CB!Causes(Bare(m)) = Awaited(m)
    BY DEF CB!Causes, Bare, Awaited, SelfListed
  <2> QED BY <2>1, <2>2, <2>3 DEF CausesLogged
<1>6. \A r \in Proc : Bares(Applied(r)') = IF r = p THEN Bares(Applied(p)) \cup {Bare(m)}
                                                   ELSE Bares(Applied(r))
  BY <1>2, <1>3 DEF Bares
<1>7. [r \in Proc |-> Bares(Applied(r)')]
        = [[r \in Proc |-> Bares(Applied(r))] EXCEPT ![p] = @ \cup {Bare(m)}]
  BY <1>6
<1> QED BY <1>1, <1>3, <1>4, <1>5, <1>7 DEF CB!Deliver, Bares

\* The line for it is written, or one for a message that never was.
LEMMA WriteImplemented ==
  ASSUME BaseInv, OrderInv, NEW p \in Proc, up[p],
         receiver[p].pc \in {"log", "findlog"}, receiver'[p].pc \notin {"log", "findlog"},
         NEW e \in LogLine, e.ev = "d", e.msg = receiver[p].msg,
         log' = [log EXCEPT ![p] = Append(@, e)],
         \A r \in Proc \ {p} : receiver'[r] = receiver[r],
         UNCHANGED <<nextSeq, outgoing, broadcast, up>>
  PROVE  [CB!Next]_(CB!vars)
<1> DEFINE n == Len(log[p]) + 1
           m == receiver[p].msg
<1>1. Types
  BY DEF BaseInv
<1>2. /\ Known(p)' = Known(p) \cup (IF e.msg = NoMsg THEN {} ELSE {n})
      /\ Logged(p)' = Logged(p) \cup ({e.msg} \ {NoMsg})
      /\ \A i \in InLog(p) : i # n
  <2>1. LogGrows(p, e)
    BY <1>1, LogD, Zenon
  <2> QED BY <2>1 DEF LogGrows
<1>3. \A r \in Proc \ {p} : Seen(r)' = Seen(r)
  <2>1. \A r \in Proc \ {p} : log'[r] = log[r]
    BY <1>1 DEF Types
  <2> QED BY <2>1, SeenStays
<1> HIDE DEF n, m
<1>4. Applied(p)' = Applied(p) /\ Logged(p)' = Applied(p)
  BY <1>2 DEF Applied
<1>5. CASE m = NoMsg
  <2>1. Logged(p)' = Logged(p) /\ Known(p)' = Known(p)
    BY <1>2, <1>5 DEF m
  <2>2. \A r \in Proc : Seen(r)' = Seen(r)
    BY <1>3, <1>4, <2>1 DEF Seen
  <2> QED BY <2>2, Stutter
<1>6. CASE m # NoMsg
  <2>1. m \in Applied(p) /\ m \notin Logged(p)
    BY <1>6 DEF BaseInv, Local, Unlogged, Delivering, Applied, m
  <2>2. Bares(Logged(p)) # Bares(Applied(p))
    <3>1. Bare(m) \in Bares(Applied(p))
      BY <2>1 DEF Bares
    <3>2. Logged(p) \subseteq Sent /\ m \in Sent
      BY <2>1, AppliedElim DEF Applied
    <3>3. Bare(m) \notin Bares(Logged(p))
      BY <2>1, <3>2, BareDistinct
    <3> QED BY <3>1, <3>3
  <2>3. Cardinality(Known(p)') = Cardinality(Known(p)) + 1
    <3>1. Known(p)' = Known(p) \cup {n} /\ n \notin Known(p)
      BY <1>2, <1>6 DEF Known, m
    <3>2. IsFiniteSet(Known(p))
      <4>1. log[p] \in Seq(LogLine)
        BY <1>1 DEF Types
      <4>2. Known(p) \subseteq 1 .. Len(log[p]) /\ Len(log[p]) \in Nat
        BY <4>1 DEF Known, InLog
      <4>3. IsFiniteSet(1 .. Len(log[p]))
        BY <4>2, FS_Interval
      <4> QED BY <4>2, <4>3, FS_Subset
    <3> QED BY <3>1, <3>2, FS_AddElement
  <2>4. ASSUME NEW r \in Proc
        PROVE  /\ Bares(Applied(r)') = Bares(Applied(r))
               /\ Bares(Logged(r)') = IF r = p THEN Bares(Applied(p)) ELSE Bares(Logged(r))
               /\ Cardinality(Known(r)') = IF r = p THEN Cardinality(Known(p)) + 1
                                                    ELSE Cardinality(Known(r))
    BY <1>3, <1>4, <2>3 DEF Seen
  <2>5. /\ [r \in Proc |-> Bares(Applied(r)')] = [r \in Proc |-> Bares(Applied(r))]
        /\ [r \in Proc |-> Bares(Logged(r)')]
             = [[r \in Proc |-> Bares(Logged(r))] EXCEPT ![p] = Bares(Applied(p))]
        /\ [r \in Proc |-> Cardinality(Known(r)')]
             = [[r \in Proc |-> Cardinality(Known(r))] EXCEPT ![p] = @ + 1]
    BY <2>4
  <2>6. CB!Write(p)
    BY <2>2, <2>5 DEF CB!Write, Bares
  <2> QED BY <2>6 DEF CB!Next
<1> QED BY <1>5, <1>6

LEMMA InitImplemented == Init => CB!Init
<1> SUFFICES ASSUME Init PROVE CB!Init
  OBVIOUS
<1>1. ASSUME NEW r \in Proc
      PROVE  Applied(r) = {} /\ Logged(r) = {} /\ Known(r) = {} /\ outgoing[r] = {}
  BY DEF Init, InLog, Known, Logged, Applied, Idle
<1>2. Cardinality({}) = 0
  BY FS_EmptySet
<1> QED BY <1>1, <1>2 DEF Init, CB!Init

LEMMA ReceiverImplemented ==
  ASSUME BaseInv, OrderInv, NEW p \in Proc, ReceiverStep(p)
  PROVE  [CB!Next]_(CB!vars)
<1>1. /\ Types /\ ReceiverOK(receiver[p]) /\ up[p]
      /\ UNCHANGED <<nextSeq, outgoing, broadcast>>
      /\ \A r \in Proc \ {p} : log'[r] = log[r] /\ receiver'[r] = receiver[r]
  <2>1. \A r \in Proc \ {p} : log'[r] = log[r] /\ receiver'[r] = receiver[r]
    BY OthersStay
  <2>2. UNCHANGED <<nextSeq, outgoing, broadcast>> /\ up[p]
    BY DEF ReceiverStep, LogDeliver, FindNext, FindHead, FindLog, RemoveNext, ReadFreed
  <2> QED BY <2>1, <2>2 DEF BaseInv, Types
<1>2. \A r \in Proc \ {p} : Seen(r)' = Seen(r)
  BY <1>1, SeenStays
\* A step that neither counts nor writes anything.
<1>3. ASSUME log' = log, Applied(p) = Logged(p),
             receiver'[p].pc \in {"log", "findlog"} => receiver'[p].msg = NoMsg
      PROVE  Seen(p)' = Seen(p)
  <2>1. Logged(p)' = Logged(p) /\ Known(p)' = Known(p)
    BY <1>3 DEF Logged, Known, InLog
  <2>2. Applied(p)' = Logged(p)
    BY <1>3, <2>1 DEF Applied
  <2> QED BY <1>3, <2>1, <2>2 DEF Seen
<1>4. CASE LogDeliver(p)
  <2> DEFINE m == receiver[p].msg
             e == Line(p, m.orig, m)
  <2>1. /\ receiver[p].pc = "log" /\ m \in Message /\ m.orig \in Proc
        /\ log' = [log EXCEPT ![p] = Append(@, e)] /\ up' = up
        /\ receiver'[p].pc = "find"
    BY <1>1, <1>4, MessageElim DEF LogDeliver, AfterLog, AtList, ReceiverOK, Types
  <2>2. e \in LogLine /\ e.ev = "d" /\ e.msg = m
    BY <1>1, <2>1 DEF Line, LogLine, Types
  <2> HIDE DEF e
  <2> QED BY <1>1, <2>1, <2>2, WriteImplemented
<1>5. CASE FindLog(p)
  <2> DEFINE m == receiver[p].msg
             q == receiver[p].list
             e == Line(p, q, m)
  <2>1. /\ receiver[p].pc = "findlog" /\ m \in Message \cup {NoMsg} /\ q \in Proc
        /\ log' = [log EXCEPT ![p] = Append(@, e)] /\ up' = up
        /\ receiver'[p].pc = "remove"
    BY <1>1, <1>5 DEF FindLog, Removing, ReceiverOK, Types
  <2>2. e \in LogLine /\ e.ev = "d" /\ e.msg = m
    BY <1>1, <2>1 DEF Line, LogLine, Types
  <2> HIDE DEF e
  <2> QED BY <1>1, <2>1, <2>2, WriteImplemented
<1>6. CASE FindNext(p)
  <2>1. /\ receiver[p].pc = "find" /\ receiver'[p].pc \in {"find", "idle"}
        /\ log' = log /\ up' = up
    BY <1>1, <1>6 DEF FindNext, AtList, Idle, Types
  <2>2. Seen(p)' = Seen(p)
    BY <1>3, <2>1 DEF Applied
  <2> QED BY <1>1, <1>2, <2>1, <2>2, Stutter
<1>7. CASE FindHead(p)
  <2> DEFINE q == receiver[p].list
             m == Head(lcb_pending[p][q])
  <2>1. /\ receiver[p].pc = "find" /\ q \in Proc /\ lcb_pending[p][q] # <<>>
        /\ log' = log /\ up' = up /\ Applied(p) = Logged(p)
    BY <1>1, <1>7 DEF FindHead, ReceiverOK, Applied
  <2>2. m \in Pending(p)
    <3>1. lcb_pending[p][q] \in Seq(Message)
      BY <1>1, <2>1 DEF Types
    <3>2. 1 \in DOMAIN lcb_pending[p][q] /\ m = lcb_pending[p][q][1]
      BY <2>1, <3>1
    <3> QED BY <2>1, <3>2 DEF Pending
  <2>3. CASE TestVecClock(p, m)
    <3>1. receiver'[p].pc = "findlog" /\ receiver'[p].msg = m
      BY <1>1, <1>7, <2>1, <2>3 DEF FindHead, FoundIn, Types
    <3>2. m \in broadcast /\ m \notin Applied(p)
      BY <2>1, <2>2 DEF BaseInv, Local, Handed, Apart, Orderly
    <3> HIDE DEF m
    <3>3. CB!Deliver(p, Bare(m))
      BY <1>1, <2>1, <2>3, <3>1, <3>2, CountImplemented
    <3>4. Bare(m) \in {Bare(n) : n \in broadcast}
      BY <3>2
    <3> QED BY <3>3, <3>4 DEF CB!Next
  <2>4. CASE ~TestVecClock(p, m)
    <3>1. receiver'[p].pc = "hung"
      BY <1>1, <1>7, <2>1, <2>4 DEF FindHead, Hung, Types
    <3>2. Seen(p)' = Seen(p)
      BY <1>3, <2>1, <3>1
    <3> QED BY <1>1, <1>2, <2>1, <3>2, Stutter
  <2> QED BY <2>3, <2>4
<1>8. CASE RemoveNext(p)
  <2>1. /\ receiver[p].pc = "remove" /\ receiver'[p].pc \in {"remove", "freed"} /\ log' = log
        /\ up' = up \/ up' = [up EXCEPT ![p] = FALSE]
    BY <1>1, <1>8 DEF RemoveNext, AtFreed, Types
  <2>2. \A r \in Proc : Seen(r)' = Seen(r)
    BY <1>2, <1>3, <2>1 DEF Applied
  <2>3. CASE up' = up
    BY <1>1, <2>2, <2>3, Stutter
  <2>4. CASE up' = [up EXCEPT ![p] = FALSE]
    BY <1>1, <2>2, <2>4, StopImplemented DEF CB!Next
  <2> QED BY <2>1, <2>3, <2>4
<1>9. CASE ReadFreed(p)
  <2>1. /\ receiver[p].pc = "freed" /\ log' = log
        /\ receiver'[p].pc \in {"log", "findlog"} => receiver'[p].msg = NoMsg
        /\ up' = up \/ up' = [up EXCEPT ![p] = FALSE]
    BY <1>1, <1>9 DEF ReadFreed, Hung, FoundIn, Types
  <2>2. \A r \in Proc : Seen(r)' = Seen(r)
    BY <1>2, <1>3, <2>1 DEF Applied
  <2>3. CASE up' = up
    BY <1>1, <2>2, <2>3, Stutter
  <2>4. CASE up' = [up EXCEPT ![p] = FALSE]
    BY <1>1, <2>2, <2>4, StopImplemented DEF CB!Next
  <2> QED BY <2>1, <2>3, <2>4
<1> QED BY <1>4, <1>5, <1>6, <1>7, <1>8, <1>9 DEF ReceiverStep

LEMMA DeliverImplemented ==
  ASSUME BaseInv, OrderInv, NEW p \in Proc, NEW m \in broadcast, DeliverLcb(p, m)
  PROVE  [CB!Next]_(CB!vars)
<1>1. /\ receiver[p].pc = "idle" /\ m \notin Applied(p) /\ up[p]
      /\ UNCHANGED <<nextSeq, outgoing, broadcast, log, up>>
  BY DEF DeliverLcb, Idle, BaseInv, Local, Handed
<1>2. CASE TestVecClock(p, m)
  <2>1. /\ receiver'[p].pc = "log" /\ receiver'[p].msg = m
        /\ \A r \in Proc \ {p} : receiver'[r] = receiver[r]
    BY <1>2 DEF DeliverLcb, Logging, BaseInv, Types
  <2>2. CB!Deliver(p, Bare(m))
    BY <1>1, <1>2, <2>1, CountImplemented
  <2>3. Bare(m) \in {Bare(n) : n \in broadcast}
    OBVIOUS
  <2> QED BY <2>2, <2>3 DEF CB!Next
<1>3. CASE ~TestVecClock(p, m)
  <2>1. receiver' = receiver
    BY <1>3 DEF DeliverLcb
  <2>2. \A r \in Proc : Seen(r)' = Seen(r)
    BY <1>1, <2>1, SeenStays
  <2> QED BY <1>1, <2>2, Stutter
<1> QED BY <1>2, <1>3

LEMMA StepImplemented ==
  ASSUME BaseInv, OrderInv, [Next]_vars
  PROVE  [CB!Next]_(CB!vars)
<1>1. ASSUME NEW p \in Proc, MainStep(p) PROVE [CB!Next]_(CB!vars)
  <2>1. CASE CopyClock(p)
    BY <2>1, CopyClockImplemented DEF CB!Next
  <2>2. ASSUME NEW m \in outgoing[p], SendUrb(p, m) PROVE [CB!Next]_(CB!vars)
    <3>1. CB!Broadcast(p, Bare(m))
      BY <2>2, SendUrbImplemented
    <3>2. Bare(m) \in [r \in Proc |-> {Bare(n) : n \in outgoing[r]}][p]
      OBVIOUS
    <3> QED BY <3>1, <3>2 DEF CB!Next
  <2> QED BY <1>1, <2>1, <2>2 DEF MainStep
<1>2. ASSUME NEW p \in Proc, NEW m \in broadcast, DeliverLcb(p, m) PROVE [CB!Next]_(CB!vars)
  BY <1>2, DeliverImplemented
<1>3. ASSUME NEW p \in Proc, ReceiverStep(p) PROVE [CB!Next]_(CB!vars)
  BY <1>3, ReceiverImplemented
<1>4. ASSUME NEW p \in Proc, Stop(p) PROVE [CB!Next]_(CB!vars)
  <2>1. \A r \in Proc : Seen(r)' = Seen(r)
    BY <1>4, SeenStays DEF Stop
  <2>2. CB!Stop(p)
    BY <1>4, <2>1, StopImplemented DEF Stop
  <2> QED BY <2>2 DEF CB!Next
<1>5. CASE UNCHANGED vars
  <2>1. \A r \in Proc : Seen(r)' = Seen(r)
    BY <1>5, SeenStays DEF vars
  <2> QED BY <1>5, <2>1, Stutter DEF vars
<1> QED BY <1>1, <1>2, <1>3, <1>4, <1>5 DEF Next

\* The layer implements localized causal broadcast for any number of processes and
\* messages, any lists of dependencies, any interleaving of its threads and any stops,
\* whatever find_pending reads from freed nodes.
THEOREM CausalBroadcastImplemented == Spec => ImplementsCausalBroadcast
<1>1. Init => BaseInv /\ OrderInv /\ CB!Init
  BY BaseInit, OrderInit, InitImplemented
<1>2. BaseInv /\ OrderInv /\ [Next]_vars => (BaseInv /\ OrderInv)' /\ [CB!Next]_(CB!vars)
  BY BaseStep, OrderStep, StepImplemented
<1> QED BY <1>1, <1>2, PTL DEF Spec, ImplementsCausalBroadcast, CB!Spec

\* What CausalBroadcastProofs proves of localized causal broadcast, here.
CBP == INSTANCE CausalBroadcastProofs WITH
         started <- nextSeq,
         preparing <- [p \in Proc |-> {Bare(m) : m \in outgoing[p]}],
         sent <- {Bare(m) : m \in broadcast},
         delivered <- [p \in Proc |-> {Bare(m) : m \in Applied(p)}],
         written <- [p \in Proc |-> {Bare(m) : m \in Logged(p)}],
         lines <- [p \in Proc |-> Cardinality(Known(p))]

\* The causes that what a message's sender had counted waits for are causes of the
\* message (send_lcb, test_vec_clock).
THEOREM CausesOfCausesKept == Spec => []CausesOfCauses
<1>1. Spec => ImplementsCausalBroadcast
  BY CausalBroadcastImplemented
<1>2. CB!Init => CBP!Init
  BY DEF CB!Init, CBP!Init
<1>3. [CB!Next]_(CB!vars) => [CBP!Next]_(CBP!vars)
  BY DEF CB!Next, CB!vars, CB!Begin, CB!Broadcast, CB!Deliver, CB!Write, CB!Stop,
         CB!Id, CB!Ids, CB!Own, CB!Causes,
         CBP!Next, CBP!vars, CBP!Begin, CBP!Broadcast, CBP!Deliver, CBP!Write, CBP!Stop,
         CBP!Id, CBP!Ids, CBP!Own, CBP!Causes
<1>4. CBP!CausesOfCauses => CausesOfCauses
  BY DEF CausesOfCauses, CB!CausesOfCauses, CB!Begun, CB!Id, CB!Causes,
         CBP!CausesOfCauses, CBP!Begun, CBP!Id, CBP!Causes
<1>5. CBP!Spec => []CBP!CausesOfCauses
  BY CBP!CausesOfCausesCorrect
<1> QED BY <1>1, <1>2, <1>3, <1>4, <1>5, PTL DEF ImplementsCausalBroadcast, CB!Spec, CBP!Spec
-----------------------------------------------------------------------------
(* Nobody is left behind.                                                  *)

\* The messages of q among those of S, and in the past of m.
IdsFrom(S, q) == {Id(m) : m \in {n \in S : n.orig = q}}
Past(m, q) == {x \in m.past : x.orig = q}

\* Without made-up deliveries, the clock of r counts the messages that are applied.
Exact(r) ==
  ~MadeUp(r) => \A q \in Proc : vector_clock[r][q] = Cardinality(IdsFrom(Applied(r), q))

\* Until find_pending delivers, what has been handed over is applied or pending.
Kept(r) == Orderly(r) => urbDelivered[r] \subseteq Applied(r) \cup Pending(r)

\* The main thread of r sends one message after the other.
InTurn(r) ==
  /\ \A m \in outgoing[r] : m.orig = r /\ m \notin broadcast
  /\ \A m, n \in outgoing[r] : m = n
  /\ \A s \in 1 .. nextSeq[r] : \E m \in broadcast \cup outgoing[r] : m.orig = r /\ m.seq = s

\* A message asks for as many messages of each process as its sender had seen, at most,
\* and those had been sent.
Modest(m) == ~MadeUp(m.orig) => \A q \in Proc : m.vec[q] <= Cardinality(Past(m, q))
PastSent(m) == \A x \in m.past : \E n \in broadcast : Id(n) = x

\* No message is in its own past, through others: among any messages there is one
\* that has none of them in its past.
WellFounded ==
  \A S \in SUBSET broadcast : S # {} => \E m \in S : \A n \in S : Id(n) \notin m.past

RestInv ==
  /\ \A m \in Sent : Modest(m) /\ PastSent(m)
  /\ WellFounded
  /\ \A r \in Proc : Exact(r) /\ Kept(r) /\ InTurn(r)

\* The first n messages of a process are n.
LEMMA FirstOf ==
  ASSUME NEW q \in Proc, NEW n \in Nat
  PROVE  LET S == {[orig |-> q, seq |-> s] : s \in 1 .. n}
         IN  IsFiniteSet(S) /\ Cardinality(S) = n
<1> DEFINE S == {[orig |-> q, seq |-> s] : s \in 1 .. n}
           f == [s \in 1 .. n |-> [orig |-> q, seq |-> s]]
<1>1. IsFiniteSet(1 .. n) /\ Cardinality(1 .. n) = n
  BY FS_Interval
<1>2. f \in Injection(1 .. n, S)
  BY DEF Injection, IsInjective
<1>3. f \in Surjection(1 .. n, S)
  BY DEF Surjection
<1>4. ExistsBijection(1 .. n, S)
  BY <1>2, <1>3 DEF ExistsBijection, Bijection
<1> HIDE DEF S
<1>5. IsFiniteSet(S) /\ Cardinality(S) = n
  BY <1>1, <1>4, FS_Bijection, Zenon
<1> QED BY <1>5 DEF S

\* Messages of one sender are finitely many.
LEMMA FiniteIds ==
  ASSUME NEW q \in Proc, NEW S \in SUBSET MsgId, \A x \in S : x.orig = q
  PROVE  IsFiniteSet(S) /\ Cardinality(S) \in Nat
<1> DEFINE T == {[orig |-> q, seq |-> s] : s \in 1 .. NumMsg[q]}
<1>1. NumMsg[q] \in Nat
  BY LcbAssumption DEF Proc
<1>2. IsFiniteSet(T)
  BY <1>1, FirstOf
<1>3. ASSUME NEW x \in S PROVE x \in T
  <2>1. PICK r \in Proc : x \in [orig : {r}, seq : 1 .. NumMsg[r]]
    BY DEF MsgId
  <2>2. x.orig = q /\ r = q /\ x.seq \in 1 .. NumMsg[q] /\ x = [orig |-> q, seq |-> x.seq]
    BY <2>1
  <2> QED BY <2>2
<1> HIDE DEF T
<1>4. IsFiniteSet(S)
  BY <1>2, <1>3, FS_Subset
<1> QED BY <1>4, FS_CardinalityType

LEMMA PastFinite ==
  ASSUME NEW m \in Message, NEW q \in Proc
  PROVE  IsFiniteSet(Past(m, q)) /\ Cardinality(Past(m, q)) \in Nat
<1>1. Past(m, q) \in SUBSET MsgId /\ \A x \in Past(m, q) : x.orig = q
  BY MessageElim DEF Past
<1> QED BY <1>1, FiniteIds

LEMMA IdsFromFinite ==
  ASSUME NEW S \in SUBSET Message, NEW q \in Proc
  PROVE  IsFiniteSet(IdsFrom(S, q)) /\ Cardinality(IdsFrom(S, q)) \in Nat
<1>1. IdsFrom(S, q) \in SUBSET MsgId /\ \A x \in IdsFrom(S, q) : x.orig = q
  BY MessageElim DEF IdsFrom, Id
<1> QED BY <1>1, FiniteIds

LEMMA RestInit == Init => RestInv
<1> SUFFICES ASSUME Init PROVE RestInv
  OBVIOUS
<1>1. Sent = {} /\ broadcast = {}
  BY DEF Init, Sent
<1>2. WellFounded
  BY <1>1 DEF WellFounded
<1>3. ASSUME NEW r \in Proc PROVE Exact(r) /\ Kept(r) /\ InTurn(r)
  <2>1. Applied(r) = {} /\ urbDelivered[r] = {} /\ outgoing[r] = {} /\ nextSeq[r] = 0
    BY DEF Init, InLog, Logged, Applied, Idle
  <2>2. \A q \in Proc : vector_clock[r][q] = 0
    BY DEF Init
  <2>3. \A q \in Proc : IdsFrom(Applied(r), q) = {}
    BY <2>1 DEF IdsFrom
  <2> QED BY <2>1, <2>2, <2>3, FS_EmptySet DEF Exact, Kept, InTurn
<1> QED BY <1>1, <1>2, <1>3 DEF RestInv

\* What the main threads rely on in steps that send nothing.
LEMMA SentFrame ==
  ASSUME RestInv, UNCHANGED <<nextSeq, outgoing, broadcast>>,
         \A r \in Proc : MadeUp(r) => MadeUp(r)', BaseInv
  PROVE  /\ \A m \in Sent' : Modest(m)' /\ PastSent(m)'
         /\ WellFounded'
         /\ \A r \in Proc : InTurn(r)'
<1>1. Sent' = Sent /\ Sent \subseteq Message
  BY DEF Sent, BaseInv, Types
<1>2. \A m \in Sent : Modest(m)' /\ PastSent(m)'
  <2>1. \A m \in Sent : m.orig \in Proc
    BY <1>1, MessageElim
  <2> QED BY <2>1 DEF RestInv, Modest, PastSent, Past
<1>3. WellFounded' /\ \A r \in Proc : InTurn(r)'
  BY DEF RestInv, WellFounded, InTurn
<1> QED BY <1>1, <1>2, <1>3

\* The receiver thread of r does nothing.
LEMMA QuietReceiver ==
  ASSUME NEW r \in Proc, Exact(r), Kept(r), log'[r] = log[r] \/ (/\ InLog(r)' = InLog(r)
                                                               /\ \A i \in InLog(r) : log'[r][i] = log[r][i]),
         receiver'[r] = receiver[r], vector_clock'[r] = vector_clock[r],
         lcb_pending'[r] = lcb_pending[r], urbDelivered'[r] = urbDelivered[r]
  PROVE  Exact(r)' /\ Kept(r)' /\ (MadeUp(r) <=> MadeUp(r)')
<1>1. InLog(r)' = InLog(r) /\ \A i \in InLog(r) : log'[r][i] = log[r][i]
  BY DEF InLog
<1>2. Applied(r)' = Applied(r) /\ Pending(r)' = Pending(r)
  BY <1>1 DEF Applied, Logged, Pending
<1>3. MadeUp(r) <=> MadeUp(r)'
  BY <1>1 DEF MadeUp
<1>4. Exact(r)'
  BY <1>2, <1>3 DEF Exact
<1>5. Kept(r)'
  BY <1>2 DEF Kept, Orderly
<1> QED BY <1>3, <1>4, <1>5

\* A message that is new to r is counted once, and its identifier is new.
LEMMA ExactCount ==
  ASSUME BaseInv, OrderInv, NEW p \in Proc, Exact(p), MadeUp(p) => MadeUp(p)',
         NEW m \in broadcast, m \notin Applied(p),
         Applied(p)' = Applied(p) \cup {m}, vector_clock' = Counted(p, m.orig)
  PROVE  Exact(p)'
<1>1. /\ m \in Message /\ m \in Sent /\ m.orig \in Proc
      /\ Applied(p) \subseteq Message /\ Applied(p) \subseteq Sent
  <2>1. m \in Message /\ m \in Sent
    BY DEF BaseInv, Types, Sent
  <2> QED BY <2>1, MessageElim, AppliedElim
<1>2. \A q \in Proc : vector_clock'[p][q] = IF q = m.orig THEN vector_clock[p][q] + 1
                                                        ELSE vector_clock[p][q]
  BY DEF BaseInv, Types, Counted
<1>3. Id(m) \notin IdsFrom(Applied(p), m.orig)
  BY <1>1 DEF IdsFrom, OrderInv, Messages, Unique
<1>4. \A q \in Proc : IdsFrom(Applied(p)', q) =
        IF q = m.orig THEN IdsFrom(Applied(p), q) \cup {Id(m)} ELSE IdsFrom(Applied(p), q)
  BY DEF IdsFrom
<1>5. \A q \in Proc : IsFiniteSet(IdsFrom(Applied(p), q))
  BY <1>1, IdsFromFinite
<1>6. Cardinality(IdsFrom(Applied(p), m.orig) \cup {Id(m)})
        = Cardinality(IdsFrom(Applied(p), m.orig)) + 1
  BY <1>1, <1>3, <1>5, FS_AddElement
<1>7. ASSUME ~MadeUp(p)', NEW q \in Proc
      PROVE  vector_clock'[p][q] = Cardinality(IdsFrom(Applied(p)', q))
  <2>1. vector_clock[p][q] = Cardinality(IdsFrom(Applied(p), q))
    BY <1>7 DEF Exact
  <2>2. CASE q = m.orig
    BY <1>2, <1>4, <1>6, <2>1, <2>2
  <2>3. CASE q # m.orig
    BY <1>2, <1>4, <2>1, <2>3
  <2> QED BY <2>2, <2>3
<1> QED BY <1>7 DEF Exact

\* A made-up delivery is counted for good.
LEMMA MadeUpStays ==
  ASSUME BaseInv, NEW p \in Proc, MadeUp(p),
         ReceiverStep(p) \/ \E m \in broadcast : DeliverLcb(p, m)
  PROVE  MadeUp(p)'
<1>1. Types /\ ReceiverOK(receiver[p]) /\ DOMAIN receiver = Proc
  BY DEF BaseInv, Types
<1>2. ASSUME log' = log, receiver[p].pc # "findlog" PROVE MadeUp(p)'
  BY <1>2 DEF MadeUp, InLog
<1>3. ASSUME NEW e \in LogLine, e.ev = "d", log' = [log EXCEPT ![p] = Append(@, e)],
             receiver[p].pc = "findlog" => e.msg = receiver[p].msg
      PROVE  MadeUp(p)'
  <2>1. LogGrows(p, e)
    BY <1>1, <1>3, LogD, Zenon
  <2>2. /\ \A i \in InLog(p) : i \in InLog(p)' /\ log'[p][i] = log[p][i]
        /\ \E i \in InLog(p)' : log'[p][i] = e
    BY <2>1 DEF LogGrows
  <2> QED BY <1>3, <2>2 DEF MadeUp
<1>4. CASE \E m \in broadcast : DeliverLcb(p, m)
  BY <1>2, <1>4 DEF DeliverLcb, Idle
<1>5. CASE LogDeliver(p)
  <2> DEFINE m == receiver[p].msg
             e == Line(p, m.orig, m)
  <2>1. /\ receiver[p].pc = "log" /\ m \in Message /\ m.orig \in Proc
        /\ log' = [log EXCEPT ![p] = Append(@, e)]
    BY <1>1, <1>5, MessageElim DEF LogDeliver, ReceiverOK
  <2>2. e \in LogLine /\ e.ev = "d"
    BY <1>1, <2>1 DEF Line, LogLine, Types
  <2> QED BY <1>3, <2>1, <2>2
<1>6. CASE FindLog(p)
  <2> DEFINE m == receiver[p].msg
             q == receiver[p].list
             e == Line(p, q, m)
  <2>1. /\ receiver[p].pc = "findlog" /\ m \in Message \cup {NoMsg} /\ q \in Proc
        /\ log' = [log EXCEPT ![p] = Append(@, e)]
    BY <1>1, <1>6 DEF FindLog, ReceiverOK
  <2>2. e \in LogLine /\ e.ev = "d" /\ e.msg = m
    BY <1>1, <2>1 DEF Line, LogLine, Types
  <2> QED BY <1>3, <2>1, <2>2
<1>7. CASE FindNext(p) \/ FindHead(p) \/ RemoveNext(p) \/ ReadFreed(p)
  BY <1>2, <1>7 DEF FindNext, FindHead, RemoveNext, ReadFreed
<1> QED BY <1>4, <1>5, <1>6, <1>7 DEF ReceiverStep

\* deliver_lcb and find_pending count what they apply.
LEMMA ExactReceiver ==
  ASSUME BaseInv, OrderInv, NEW p \in Proc, Exact(p),
         ReceiverStep(p) \/ \E m \in broadcast : DeliverLcb(p, m)
  PROVE  Exact(p)'
<1>1. Types /\ ReceiverOK(receiver[p]) /\ DOMAIN receiver = Proc /\ (MadeUp(p) => MadeUp(p)')
  BY MadeUpStays DEF BaseInv, Types
<1>2. ASSUME Applied(p)' = Applied(p), vector_clock'[p] = vector_clock[p] PROVE Exact(p)'
  BY <1>1, <1>2 DEF Exact
<1>3. ASSUME log' = log, receiver[p].pc \notin {"log", "findlog"},
             receiver'[p].pc \notin {"log", "findlog"}
      PROVE  Applied(p)' = Applied(p)
  BY <1>3 DEF Applied, Logged, InLog
\* A message that passes the test.
<1>4. ASSUME NEW m \in broadcast, m \notin Applied(p), log' = log,
             receiver[p].pc \notin {"log", "findlog"},
             receiver'[p].pc \in {"log", "findlog"}, receiver'[p].msg = m,
             vector_clock' = Counted(p, m.orig)
      PROVE  Exact(p)'
  <2>1. m # NoMsg
    BY MessageElim DEF BaseInv, Types
  <2>2. Applied(p)' = Applied(p) \cup {m}
    BY <1>4, <2>1 DEF Applied, Logged, InLog
  <2> QED BY <1>1, <1>4, <2>2, ExactCount
\* A line for what is already counted.
<1>5. ASSUME NEW e \in LogLine, e.ev = "d", e.msg = receiver[p].msg,
             log' = [log EXCEPT ![p] = Append(@, e)], vector_clock' = vector_clock,
             receiver[p].pc \in {"log", "findlog"}, receiver'[p].pc \notin {"log", "findlog"}
      PROVE  Exact(p)'
  <2>1. LogGrows(p, e)
    BY <1>1, <1>5, LogD, Zenon
  <2>2. Applied(p)' = Applied(p)
    BY <1>5, <2>1 DEF LogGrows, Applied
  <2> QED BY <1>2, <1>5, <2>2
<1>6. ASSUME NEW m \in broadcast, DeliverLcb(p, m) PROVE Exact(p)'
  <2>1. receiver[p].pc = "idle" /\ m \notin Applied(p) /\ log' = log
    BY <1>6 DEF DeliverLcb, Idle, BaseInv, Local, Handed
  <2>2. CASE TestVecClock(p, m)
    <3>1. /\ vector_clock' = Counted(p, m.orig)
          /\ receiver'[p].pc = "log" /\ receiver'[p].msg = m
      BY <1>1, <1>6, <2>2 DEF DeliverLcb, Logging
    <3> QED BY <1>4, <2>1, <3>1
  <2>3. CASE ~TestVecClock(p, m)
    BY <1>2, <1>3, <1>6, <2>1, <2>3 DEF DeliverLcb
  <2> QED BY <2>2, <2>3
<1>7. CASE LogDeliver(p)
  <2> DEFINE m == receiver[p].msg
             e == Line(p, m.orig, m)
  <2>1. /\ receiver[p].pc = "log" /\ m \in Message /\ m.orig \in Proc
        /\ log' = [log EXCEPT ![p] = Append(@, e)] /\ vector_clock' = vector_clock
        /\ receiver'[p].pc = "find"
    BY <1>1, <1>7, MessageElim DEF LogDeliver, AfterLog, AtList, ReceiverOK
  <2>2. e \in LogLine /\ e.ev = "d" /\ e.msg = m
    BY <1>1, <2>1 DEF Line, LogLine, Types
  <2> HIDE DEF e
  <2> QED BY <1>5, <2>1, <2>2
<1>8. CASE FindLog(p)
  <2> DEFINE m == receiver[p].msg
             q == receiver[p].list
             e == Line(p, q, m)
  <2>1. /\ receiver[p].pc = "findlog" /\ m \in Message \cup {NoMsg} /\ q \in Proc
        /\ log' = [log EXCEPT ![p] = Append(@, e)] /\ vector_clock' = vector_clock
        /\ receiver'[p].pc = "remove"
    BY <1>1, <1>8 DEF FindLog, Removing, ReceiverOK
  <2>2. e \in LogLine /\ e.ev = "d" /\ e.msg = m
    BY <1>1, <2>1 DEF Line, LogLine, Types
  <2> HIDE DEF e
  <2> QED BY <1>5, <2>1, <2>2
<1>9. CASE FindNext(p)
  BY <1>1, <1>2, <1>3, <1>9 DEF FindNext, AtList, Idle
<1>10. CASE FindHead(p)
  <2> DEFINE q == receiver[p].list
             m == Head(lcb_pending[p][q])
  <2>1. receiver[p].pc = "find" /\ q \in Proc /\ lcb_pending[p][q] # <<>> /\ log' = log
    BY <1>1, <1>10 DEF FindHead, ReceiverOK
  <2>2. m \in Pending(p) /\ m.orig = q
    <3>1. lcb_pending[p][q] \in Seq(Message)
      BY <1>1, <2>1 DEF Types
    <3>2. 1 \in DOMAIN lcb_pending[p][q] /\ m = lcb_pending[p][q][1]
      BY <2>1, <3>1
    <3> QED BY <1>1, <2>1, <3>2 DEF Pending, Types
  <2>3. m \in broadcast /\ m \notin Applied(p)
    BY <2>1, <2>2 DEF BaseInv, Local, Handed, Apart, Orderly
  <2>4. CASE TestVecClock(p, m)
    <3>1. /\ vector_clock' = Counted(p, m.orig)
          /\ receiver'[p].pc = "findlog" /\ receiver'[p].msg = m
      BY <1>1, <1>10, <2>1, <2>2, <2>4 DEF FindHead, FoundIn
    <3> HIDE DEF m
    <3> QED BY <1>4, <2>1, <2>3, <3>1
  <2>5. CASE ~TestVecClock(p, m)
    <3>1. receiver'[p].pc = "hung" /\ vector_clock' = vector_clock
      BY <1>1, <1>10, <2>5 DEF FindHead, Hung
    <3> QED BY <1>2, <1>3, <2>1, <3>1
  <2> QED BY <2>4, <2>5
<1>11. CASE RemoveNext(p)
  BY <1>1, <1>2, <1>3, <1>11 DEF RemoveNext, AtFreed
<1>12. CASE ReadFreed(p)
  <2>1. receiver[p].pc = "freed" /\ log' = log
    BY <1>12 DEF ReadFreed
  <2>2. CASE vector_clock' = vector_clock /\ receiver'[p].pc \in {"freed", "hung"}
    BY <1>2, <1>3, <2>1, <2>2
  <2>3. CASE receiver'[p] = FoundIn(receiver[p].list, NoMsg)
    <3>1. MadeUp(p)'
      BY <2>3 DEF MadeUp, FoundIn
    <3> QED BY <3>1 DEF Exact
  <2>4. \/ vector_clock' = vector_clock /\ receiver'[p].pc \in {"freed", "hung"}
        \/ receiver'[p] = FoundIn(receiver[p].list, NoMsg)
    BY <1>1, <1>12, <2>1 DEF ReadFreed, Hung
  <2> QED BY <2>2, <2>3, <2>4
<1> QED BY <1>6, <1>7, <1>8, <1>9, <1>10, <1>11, <1>12 DEF ReceiverStep

LEMMA KeptReceiver ==
  ASSUME BaseInv, NEW p \in Proc, Kept(p),
         ReceiverStep(p) \/ \E m \in broadcast : DeliverLcb(p, m)
  PROVE  Kept(p)'
<1>1. Types /\ ReceiverOK(receiver[p]) /\ DOMAIN receiver = Proc
  BY DEF BaseInv, Types
<1>2. ASSUME NEW m \in broadcast, DeliverLcb(p, m) PROVE Kept(p)'
  <2>1. /\ receiver[p].pc = "idle" /\ Applied(p) = Logged(p) /\ log' = log
        /\ urbDelivered'[p] = urbDelivered[p] \cup {m}
        /\ m \in Message /\ m # NoMsg
    <3>1. m \in Message
      BY DEF BaseInv, Types
    <3>2. urbDelivered'[p] = urbDelivered[p] \cup {m}
      BY <1>1, <1>2 DEF DeliverLcb, Types
    <3> QED BY <1>2, <3>1, <3>2, MessageElim DEF DeliverLcb, Idle, Applied
  <2>2. Logged(p)' = Logged(p) /\ urbDelivered[p] \subseteq Logged(p) \cup Pending(p)
    BY <2>1 DEF Logged, InLog, Kept, Orderly
  <2>3. CASE TestVecClock(p, m)
    <3>1. /\ lcb_pending' = lcb_pending
          /\ receiver'[p].pc = "log" /\ receiver'[p].msg = m
      BY <1>1, <1>2, <2>3 DEF DeliverLcb, Logging
    <3>2. Applied(p)' = Logged(p) \cup {m} /\ Pending(p)' = Pending(p)
      BY <2>1, <2>2, <3>1 DEF Applied, Pending
    <3> QED BY <2>1, <2>2, <3>2 DEF Kept
  <2>4. CASE ~TestVecClock(p, m)
    <3>1. lcb_pending' = AddPending(p, m) /\ receiver' = receiver
      BY <1>2, <2>4 DEF DeliverLcb
    <3>2. Pending(p)' = Pending(p) \cup {m}
      BY <1>1, <2>1, <3>1, PendingAdded
    <3>3. Applied(p)' = Logged(p)
      BY <2>1, <2>2, <3>1 DEF Applied
    <3> QED BY <2>1, <2>2, <3>2, <3>3 DEF Kept
  <2> QED BY <2>3, <2>4
<1>3. CASE LogDeliver(p)
  <2> DEFINE m == receiver[p].msg
             e == Line(p, m.orig, m)
  <2>1. /\ receiver[p].pc = "log" /\ m \in Message /\ m.orig \in Proc
        /\ log' = [log EXCEPT ![p] = Append(@, e)]
        /\ receiver'[p].pc = "find"
        /\ UNCHANGED <<lcb_pending, urbDelivered>>
    BY <1>1, <1>3, MessageElim DEF LogDeliver, AfterLog, AtList, ReceiverOK
  <2>2. e \in LogLine /\ e.ev = "d" /\ e.msg = m
    BY <1>1, <2>1 DEF Line, LogLine, Types
  <2> HIDE DEF e
  <2>3. LogGrows(p, e)
    BY <1>1, <2>1, <2>2, LogD, Zenon
  <2>4. Applied(p)' = Applied(p) /\ Pending(p)' = Pending(p)
    BY <2>1, <2>2, <2>3 DEF LogGrows, Applied, Pending
  <2> QED BY <2>1, <2>4 DEF Kept, Orderly
<1>4. CASE FindNext(p)
  <2>1. /\ receiver[p].pc = "find" /\ receiver'[p].pc \in {"find", "idle"}
        /\ UNCHANGED <<log, lcb_pending, urbDelivered>>
    BY <1>1, <1>4 DEF FindNext, AtList, Idle
  <2>2. Applied(p)' = Applied(p) /\ Pending(p)' = Pending(p)
    BY <2>1 DEF Applied, Logged, InLog, Pending
  <2> QED BY <2>1, <2>2 DEF Kept, Orderly
\* The other steps leave the order of deliveries of deliver_lcb for good.
<1>5. CASE FindHead(p) \/ FindLog(p)
  BY <1>1, <1>5 DEF FindHead, FindLog, FoundIn, Hung, Removing, Kept, Orderly
<1>6. CASE RemoveNext(p) \/ ReadFreed(p)
  BY <1>1, <1>6 DEF RemoveNext, ReadFreed, AtFreed, FoundIn, Hung, Kept, Orderly
<1> QED BY <1>2, <1>3, <1>4, <1>5, <1>6 DEF ReceiverStep

\* The step of a receiver thread.
LEMMA RestReceiver ==
  ASSUME BaseInv, OrderInv, RestInv, NEW p \in Proc,
         ReceiverStep(p) \/ \E m \in broadcast : DeliverLcb(p, m)
  PROVE  RestInv'
<1>1. /\ UNCHANGED <<nextSeq, outgoing, broadcast>>
      /\ \A r \in Proc \ {p} : /\ log'[r] = log[r] /\ receiver'[r] = receiver[r]
                              /\ vector_clock'[r] = vector_clock[r]
                              /\ lcb_pending'[r] = lcb_pending[r]
                              /\ urbDelivered'[r] = urbDelivered[r]
  <2>1. /\ lcb_pending \in [Proc -> [Proc -> Seq(Message)]]
        /\ urbDelivered \in [Proc -> SUBSET Message]
    BY DEF BaseInv, Types
  <2>2. CASE \E m \in broadcast : DeliverLcb(p, m)
    BY <2>1, <2>2, OthersStay DEF DeliverLcb, AddPending
  <2>3. CASE LogDeliver(p) \/ FindNext(p) \/ FindHead(p) \/ FindLog(p) \/ ReadFreed(p)
    BY <2>3, OthersStay DEF ReceiverStep, LogDeliver, FindNext, FindHead, FindLog, ReadFreed
  <2>4. CASE RemoveNext(p)
    BY <2>1, <2>4, OthersStay DEF ReceiverStep, RemoveNext
  <2> QED BY <2>2, <2>3, <2>4 DEF ReceiverStep
<1>2. ASSUME NEW r \in Proc
      PROVE  Exact(r)' /\ Kept(r)' /\ (MadeUp(r) => MadeUp(r)')
  <2>1. Exact(r) /\ Kept(r)
    BY DEF RestInv
  <2>2. CASE r = p
    BY <2>1, <2>2, ExactReceiver, KeptReceiver, MadeUpStays
  <2>3. CASE r # p
    BY <1>1, <2>1, <2>3, QuietReceiver
  <2> QED BY <2>2, <2>3
<1>3. /\ \A m \in Sent' : Modest(m)' /\ PastSent(m)'
      /\ WellFounded'
      /\ \A r \in Proc : InTurn(r)'
  BY <1>1, <1>2, SentFrame
<1> QED BY <1>2, <1>3 DEF RestInv

\* A new message covers in its past all that its sender has applied, and the sender's
\* own messages, which have been sent.
LEMMA RestCopyClock ==
  ASSUME BaseInv, BaseInv', OrderInv, RestInv, NEW p \in Proc, CopyClock(p)
  PROVE  RestInv'
<1> DEFINE seq == nextSeq[p] + 1
           own == {[orig |-> p, seq |-> s] : s \in 1 .. seq - 1}
           past == {Id(m) : m \in Applied(p)} \cup own
           new == [orig |-> p, seq |-> seq, vec |-> ClockCopy(p, seq), past |-> past]
<1>1. /\ nextSeq \in [Proc -> Nat] /\ outgoing \in [Proc -> SUBSET Message]
      /\ nextSeq' = [nextSeq EXCEPT ![p] = seq]
      /\ outgoing' = [outgoing EXCEPT ![p] = {new}]
      /\ outgoing[p] = {}
      /\ vector_clock \in [Proc -> [Proc -> Nat]]
      /\ UNCHANGED <<broadcast, urbDelivered, vector_clock, lcb_pending, receiver, log>>
  BY DEF CopyClock, BaseInv, Types
<1>2. ASSUME NEW r \in Proc
      PROVE  Exact(r)' /\ Kept(r)' /\ (MadeUp(r) <=> MadeUp(r)')
  BY <1>1, QuietReceiver DEF RestInv
<1>3. new.orig = p /\ new.seq = seq /\ new.past = past /\ new.vec = ClockCopy(p, seq)
  OBVIOUS
<1>4. new \in Message
  <2> HIDE DEF new
  <2>1. new \in outgoing'[p] /\ outgoing' \in [Proc -> SUBSET Message]
    BY <1>1 DEF BaseInv, Types
  <2> QED BY <2>1
<1>5. ASSUME NEW q \in Proc, ~MadeUp(p)
      PROVE  ClockCopy(p, seq)[q] <= Cardinality(Past(new, q))
  <2>1. IsFiniteSet(Past(new, q)) /\ Cardinality(Past(new, q)) \in Nat
    <3> HIDE DEF new
    <3> QED BY <1>4, PastFinite
  <2>2. CASE q = p
    <3>1. own \subseteq Past(new, p)
      BY DEF Past
    <3>2. Cardinality(own) = seq - 1
      <4>1. seq - 1 \in Nat
        BY <1>1
      <4> HIDE DEF seq
      <4> QED BY <4>1, FirstOf
    <3>3. ClockCopy(p, seq)[p] = seq - 1
      BY <1>1 DEF ClockCopy
    <3> HIDE DEF own, new
    <3>4. Cardinality(own) <= Cardinality(Past(new, p))
      BY <2>1, <2>2, <3>1, FS_Subset
    <3> QED BY <2>2, <3>2, <3>3, <3>4
  <2>3. CASE q # p
    <3> DEFINE ids == IdsFrom(Applied(p), q)
    <3>1. ids \subseteq Past(new, q)
      BY DEF IdsFrom, Past, Id
    <3>2. vector_clock[p][q] = Cardinality(ids)
      BY <1>5 DEF RestInv, Exact
    <3>3. ClockCopy(p, seq)[q] = vector_clock[p][q]
      BY <1>1, <2>3 DEF ClockCopy
    <3> HIDE DEF ids, new
    <3>4. Cardinality(ids) <= Cardinality(Past(new, q))
      BY <2>1, <3>1, FS_Subset
    <3> QED BY <3>2, <3>3, <3>4
  <2> QED BY <2>2, <2>3
<1>6. \A x \in past : \E n \in broadcast : Id(n) = x
  <2>1. ASSUME NEW m \in Applied(p) PROVE m \in broadcast
    BY DEF BaseInv, Local, Handed
  <2>2. ASSUME NEW s \in 1 .. seq - 1
        PROVE  \E n \in broadcast : Id(n) = [orig |-> p, seq |-> s]
    <3>1. PICK n \in broadcast : n.orig = p /\ n.seq = s
      BY <1>1 DEF RestInv, InTurn
    <3> QED BY <3>1 DEF Id
  <2> QED BY <2>1, <2>2
<1>7. ASSUME NEW m, m = new PROVE Modest(m)' /\ PastSent(m)'
  <2> HIDE DEF new, past, seq
  <2>1. m.orig = p /\ m.past = past /\ m.vec = ClockCopy(p, seq)
    BY <1>3, <1>7
  <2>2. \A q : Past(m, q)' = Past(m, q)
    BY DEF Past
  <2>3. ~MadeUp(p)' => \A q \in Proc : m.vec[q] <= Cardinality(Past(m, q))
    BY <1>2, <1>5, <1>7, <2>1
  <2> QED BY <1>1, <1>6, <2>1, <2>2, <2>3 DEF Modest, PastSent
<1>8. \A m \in broadcast : ~(m.orig = p /\ m.seq = seq)
  <2>1. ASSUME NEW m \in broadcast, m.orig = p, m.seq = seq PROVE FALSE
    <3>1. m.seq <= nextSeq[m.orig]
      BY DEF Sent, OrderInv, Messages, Covered
    <3> QED BY <1>1, <2>1, <3>1
  <2> QED BY <2>1
<1>9. new \notin broadcast
  BY <1>3, <1>8
<1> HIDE DEF past, own, new
<1>10. \A m \in Sent' : Modest(m)' /\ PastSent(m)'
  <2>1. ASSUME NEW m \in Sent PROVE Modest(m)' /\ PastSent(m)'
    <3>1. m.orig \in Proc
      BY MessageElim DEF Sent, BaseInv, Types
    <3> QED BY <1>1, <1>2, <3>1 DEF RestInv, Modest, PastSent, Past
  <2>2. \A m \in Sent' : m \in Sent \/ m = new
    BY <1>1 DEF Sent
  <2> QED BY <1>7, <2>1, <2>2
<1>11. WellFounded'
  BY <1>1 DEF RestInv, WellFounded
<1>12. ASSUME NEW r \in Proc PROVE InTurn(r)'
  <2>1. CASE r # p
    BY <1>1, <2>1 DEF RestInv, InTurn
  <2>2. CASE r = p
    <3>1. outgoing'[p] = {new} /\ nextSeq'[p] = seq
      BY <1>1
    <3>2. ASSUME NEW s \in 1 .. seq
          PROVE  \E m \in broadcast \cup {new} : m.orig = p /\ m.seq = s
      <4>1. CASE s = seq
        BY <1>3, <4>1
      <4>2. CASE s # seq
        <5>1. s \in 1 .. nextSeq[p]
          BY <1>1, <4>2
        <5> QED BY <1>1, <5>1 DEF RestInv, InTurn
      <4> QED BY <4>1, <4>2
    <3> QED BY <1>1, <1>3, <1>9, <2>2, <3>1, <3>2 DEF InTurn
  <2> QED BY <2>1, <2>2
<1> QED BY <1>2, <1>10, <1>11, <1>12 DEF RestInv

\* The links get a message whose past they have, and which is in no other's past.
LEMMA RestSendUrb ==
  ASSUME BaseInv, OrderInv, RestInv, NEW p \in Proc, NEW m, SendUrb(p, m)
  PROVE  RestInv'
<1>1. /\ m \in outgoing[p] /\ m \in Message /\ Types
      /\ outgoing \in [Proc -> SUBSET Message]
      /\ outgoing' = [outgoing EXCEPT ![p] = {}]
      /\ broadcast' = broadcast \cup {m}
      /\ log' = [log EXCEPT ![p] = Append(@, [ev |-> "b", seq |-> m.seq])]
      /\ UNCHANGED <<nextSeq, urbDelivered, vector_clock, lcb_pending, receiver>>
  BY DEF SendUrb, BaseInv, Types
<1>2. ASSUME NEW r \in Proc
      PROVE  Exact(r)' /\ Kept(r)' /\ (MadeUp(r) <=> MadeUp(r)')
  <2> DEFINE e == [ev |-> "b", seq |-> m.seq]
  <2>1. e \in LogLine /\ e.ev = "b"
    BY <1>1, MessageElim DEF LogLine
  <2>2. log'[r] = log[r] \/ /\ InLog(r)' = InLog(r)
                            /\ \A i \in InLog(r) : log'[r][i] = log[r][i]
    <3>1. CASE r = p
      <4> HIDE DEF e
      <4>1. log' = [log EXCEPT ![p] = Append(@, e)]
        BY <1>1 DEF e
      <4> QED BY <1>1, <2>1, <3>1, <4>1, LogB, Zenon
    <3>2. CASE r # p
      BY <1>1, <3>2 DEF Types
    <3> QED BY <3>1, <3>2
  <2> QED BY <1>1, <2>2, QuietReceiver DEF RestInv
<1>3. \A n \in Sent' : n \in Sent
  BY <1>1 DEF Sent
<1>4. \A n \in Sent' : Modest(n)' /\ PastSent(n)'
  <2>1. ASSUME NEW n \in Sent' PROVE Modest(n)' /\ PastSent(n)'
    <3>1. n \in Sent /\ n.orig \in Proc
      BY <1>3, MessageElim DEF Sent, BaseInv, Types
    <3> QED BY <1>1, <1>2, <3>1 DEF RestInv, Modest, PastSent, Past
  <2> QED BY <2>1
<1>5. m \in Sent /\ broadcast \subseteq Sent /\ m \notin broadcast
  BY <1>1 DEF Sent, RestInv, InTurn
<1>6. \A n \in broadcast : Id(n) # Id(m)
  BY <1>5 DEF OrderInv, Messages, Unique
<1>7. \A n \in broadcast \cup {m} : Id(m) \notin n.past
  BY <1>5, <1>6 DEF RestInv, PastSent
<1>8. WellFounded'
  <2> SUFFICES ASSUME NEW S \in SUBSET (broadcast \cup {m}), S # {}
               PROVE  \E k \in S : \A n \in S : Id(n) \notin k.past
    BY <1>1 DEF WellFounded
  <2>1. CASE S \ {m} = {}
    <3>1. S = {m}
      BY <2>1
    <3> QED BY <1>7, <3>1
  <2>2. CASE S \ {m} # {}
    <3>1. S \ {m} \in SUBSET broadcast
      OBVIOUS
    <3>2. PICK k \in S \ {m} : \A n \in S \ {m} : Id(n) \notin k.past
      BY <2>2, <3>1 DEF RestInv, WellFounded
    <3> QED BY <1>7, <3>2
  <2> QED BY <2>1, <2>2
<1>9. ASSUME NEW r \in Proc PROVE InTurn(r)'
  <2>1. CASE r = p
    <3>1. outgoing'[p] = {} /\ \A n \in outgoing[p] : n = m
      BY <1>1 DEF RestInv, InTurn
    <3> QED BY <1>1, <2>1, <3>1 DEF RestInv, InTurn
  <2>2. CASE r # p
    <3>1. outgoing'[r] = outgoing[r] /\ m.orig = p /\ \A n \in outgoing[r] : n.orig = r
      BY <1>1, <2>2 DEF RestInv, InTurn
    <3> QED BY <1>1, <2>2, <3>1 DEF RestInv, InTurn
  <2> QED BY <2>1, <2>2
<1> QED BY <1>2, <1>4, <1>8, <1>9 DEF RestInv

LEMMA RestStep == BaseInv /\ OrderInv /\ RestInv /\ [Next]_vars => RestInv'
<1> SUFFICES ASSUME BaseInv, OrderInv, RestInv, [Next]_vars PROVE RestInv'
  OBVIOUS
<1>1. ASSUME UNCHANGED <<nextSeq, outgoing, broadcast, urbDelivered, vector_clock, lcb_pending,
                         receiver, log>>
      PROVE  RestInv'
  <2>1. \A r \in Proc : Exact(r)' /\ Kept(r)' /\ (MadeUp(r) <=> MadeUp(r)')
    BY <1>1, QuietReceiver DEF RestInv
  <2> QED BY <1>1, <2>1, SentFrame DEF RestInv
<1>2. ASSUME NEW p \in Proc, CopyClock(p) PROVE RestInv'
  <2>1. BaseInv'
    BY BaseStep
  <2> QED BY <1>2, <2>1, RestCopyClock
<1>3. ASSUME NEW p \in Proc, NEW m \in outgoing[p], SendUrb(p, m) PROVE RestInv'
  BY <1>3, RestSendUrb
<1>4. ASSUME NEW p \in Proc, ReceiverStep(p) \/ \E m \in broadcast : DeliverLcb(p, m)
      PROVE  RestInv'
  BY <1>4, RestReceiver
<1>5. ASSUME NEW p \in Proc, Stop(p) PROVE RestInv'
  BY <1>1, <1>5 DEF Stop
<1>6. CASE UNCHANGED vars
  BY <1>1, <1>6 DEF vars
<1> QED BY <1>2, <1>3, <1>4, <1>5, <1>6 DEF Next, MainStep

\* Whatever the lists of dependencies are, a process whose receiver thread waits has
\* written every message, once all have been handed to it (deliver_lcb, find_pending,
\* test_vec_clock), unless somebody has counted a delivery that find_pending made up.
\* A first message among those that are missing would be pending; but its past is
\* written, and its vector asks for no more than that.
THEOREM AllWrittenCorrect == Spec => []AllWrittenAtRest
<1>1. Init => BaseInv /\ OrderInv /\ RestInv
  BY BaseInit, OrderInit, RestInit
<1>2. BaseInv /\ OrderInv /\ RestInv /\ [Next]_vars => (BaseInv /\ OrderInv /\ RestInv)'
  BY BaseStep, OrderStep, RestStep
<1>3. BaseInv /\ OrderInv /\ RestInv => AllWrittenAtRest
  <2> SUFFICES ASSUME BaseInv, OrderInv, RestInv, \A q \in Proc : ~MadeUp(q),
                      NEW p \in Proc, receiver[p] = Idle, broadcast \subseteq urbDelivered[p],
                      broadcast \ Logged(p) # {}
               PROVE  FALSE
    BY DEF AllWrittenAtRest
  <2>1. Applied(p) = Logged(p) /\ receiver[p].pc = "idle" /\ Applied(p) \subseteq Message
    BY AppliedElim DEF Applied, Idle
  <2>2. PICK m \in broadcast \ Logged(p) :
               \A n \in broadcast \ Logged(p) : Id(n) \notin m.past
    BY DEF RestInv, WellFounded
  <2>3. /\ m \in Message /\ m \in Sent /\ m.orig \in Proc
        /\ m.vec \in [Proc -> Nat] /\ Deps[m.orig] \subseteq Proc
    <3>1. m \in Message /\ m \in Sent
      BY DEF BaseInv, Types, Sent
    <3> QED BY <3>1, MessageElim, LcbAssumption DEF Proc
  <2>4. m \in Pending(p)
    BY <2>1 DEF RestInv, Kept, Orderly
  <2>5. PICK q \in Proc : ~(m.vec[q] <= vector_clock[p][q])
    BY <2>1, <2>3, <2>4 DEF BaseInv, Local, Looking, TestVecClock
  <2>6. Past(m, q) \subseteq IdsFrom(Applied(p), q)
    <3>1. ASSUME NEW x \in m.past, x.orig = q PROVE x \in IdsFrom(Applied(p), q)
      <4>1. PICK n \in broadcast : Id(n) = x
        BY <2>3 DEF RestInv, PastSent
      <4>2. n \in Applied(p) /\ n.orig = q
        BY <2>1, <2>2, <3>1, <4>1 DEF Id
      <4> QED BY <4>1, <4>2 DEF IdsFrom
    <3> QED BY <3>1 DEF Past
  <2>7. /\ IsFiniteSet(IdsFrom(Applied(p), q)) /\ Cardinality(IdsFrom(Applied(p), q)) \in Nat
        /\ Cardinality(Past(m, q)) \in Nat
    BY <2>1, <2>3, PastFinite, IdsFromFinite
  <2>8. Cardinality(Past(m, q)) <= Cardinality(IdsFrom(Applied(p), q))
    BY <2>6, <2>7, FS_Subset
  <2>9. /\ m.vec[q] <= Cardinality(Past(m, q)) /\ m.vec[q] \in Nat
        /\ vector_clock[p][q] = Cardinality(IdsFrom(Applied(p), q))
    BY <2>3 DEF RestInv, Modest, Exact
  <2> QED BY <2>5, <2>7, <2>8, <2>9
<1> QED BY <1>1, <1>2, <1>3, PTL DEF Spec
=============================================================================
