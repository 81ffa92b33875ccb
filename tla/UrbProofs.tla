----------------------------- MODULE UrbProofs ------------------------------
(***************************************************************************)
(* Proofs about Urb, for any number of processes and messages and any      *)
(* bound on stops.                                                         *)
(***************************************************************************)
EXTENDS Urb, FiniteSetTheorems, TLAPS

-----------------------------------------------------------------------------
(* Messages, packets and broadcasts as sets.                               *)

\* The message that send_urb builds for an allowed sequence number is in Msg.
LEMMA MsgIntro ==
  ASSUME NEW p \in Proc, NEW s \in 1 .. NumMsg[p]
  PROVE  [orig |-> p, seq |-> s] \in Msg
BY DEF Msg

\* A message is determined by its original sender and its sequence number.
LEMMA MsgElim ==
  ASSUME NEW m \in Msg
  PROVE  /\ m.orig \in Proc
         /\ m.seq \in 1 .. NumMsg[m.orig]
         /\ m = [orig |-> m.orig, seq |-> m.seq]
BY DEF Msg

\* A packet goes from one process to another one.
LEMMA PacketElim ==
  ASSUME NEW k \in Packet
  PROVE  /\ k.msg \in Msg
         /\ k.src \in Proc
         /\ k.dst \in Proc
         /\ k \in Beb(k.src, k.msg)
BY DEF Packet, Beb

\* send_beb builds packets.
LEMMA BebPackets ==
  ASSUME NEW p \in Proc, NEW m \in Msg
  PROVE  Beb(p, m) \subseteq Packet
BY DEF Packet, Beb

\* Packets of different senders or messages differ.
LEMMA BebDisjoint ==
  ASSUME NEW p, NEW m, NEW q, NEW n, Beb(p, m) \cap Beb(q, n) # {}
  PROVE  p = q /\ m = n
BY DEF Beb

\* The processes are finitely many.
LEMMA ProcFinite == IsFiniteSet(Proc) /\ Cardinality(Proc) = N
BY FS_Interval, UrbAssumption DEF Proc

\* Sets of processes are finite, and larger sets have more elements.
LEMMA ProcSubset ==
  ASSUME NEW S \in SUBSET Proc, NEW T \in SUBSET S
  PROVE  /\ Cardinality(S) \in Nat
         /\ Cardinality(T) \in Nat
         /\ Cardinality(T) <= Cardinality(S)
<1>1. IsFiniteSet(S)
  BY ProcFinite, FS_Subset
<1>2. IsFiniteSet(T) /\ Cardinality(T) <= Cardinality(S)
  BY <1>1, FS_Subset
<1> QED
  BY <1>1, <1>2, FS_CardinalityType

-----------------------------------------------------------------------------
(* Type correctness.                                                       *)

\* A step of any thread keeps the types.
LEMMA TypeStep ==
  ASSUME TypeOK, [Next]_vars
  PROVE  TypeOK'
<1> USE DEF TypeOK
<1>1. ASSUME NEW p \in Proc, SendUrb(p)
      PROVE  TypeOK'
  <2> DEFINE m == [orig |-> p, seq |-> nextSeq[p] + 1]
  <2>1. NumMsg[p] \in Nat /\ nextSeq[p] \in Nat /\ nextSeq[p] < NumMsg[p]
    BY <1>1, UrbAssumption DEF Proc, SendUrb, MayBroadcast
  <2>2. m \in Msg
    BY <2>1, MsgIntro
  <2>3. Beb(p, m) \subseteq Packet
    BY <2>2, BebPackets
  <2>4. nextSeq' \in [Proc -> Nat] /\ \A q \in Proc : nextSeq'[q] <= NumMsg[q]
    BY <1>1, <2>1 DEF SendUrb
  <2>5. seen' \in [Proc -> SUBSET Msg] /\ urbacks' \in [Proc -> [Msg -> SUBSET Proc]]
    BY <1>1, <2>2 DEF SendUrb, AddSeen
  <2>6. sent' \subseteq Packet /\ got' \subseteq sent'
    BY <1>1, <2>3 DEF SendUrb
  <2> QED
    BY <1>1, <2>4, <2>5, <2>6 DEF SendUrb
<1>2. ASSUME NEW k \in Packet, ReceiveUrb(k)
      PROVE  TypeOK'
  <2> DEFINE p == k.dst
             m == k.msg
  <2>1. p \in Proc /\ m \in Msg /\ k.src \in Proc
    BY PacketElim
  <2>2. Relay(p, m) \subseteq Packet
    BY <2>1, BebPackets DEF Relay
  <2>3. Acks(p, m, k.src) \subseteq Proc
    BY <2>1 DEF Acks
  <2>4. seen' \in [Proc -> SUBSET Msg] /\ rcv' \in [Proc -> SUBSET Msg]
    BY <1>2, <2>1 DEF ReceiveUrb, AddSeen
  <2>5. urbacks' \in [Proc -> [Msg -> SUBSET Proc]]
    BY <1>2, <2>1, <2>3 DEF ReceiveUrb
  <2>6. sent' \subseteq Packet /\ got' \subseteq sent'
    BY <1>2, <2>2 DEF ReceiveUrb
  <2> QED
    BY <1>2, <2>4, <2>5, <2>6 DEF ReceiveUrb
<1>3. ASSUME NEW p \in Proc, NEW m \in Msg, TryDeliver(p, m)
      PROVE  TypeOK'
  <2>1. CASE MayDeliver(p, m)
    <3>1. lcbCalls[p] \in [Msg -> Nat] /\ lcbCalls[p][m] + 1 \in Nat
      OBVIOUS
    <3>2. lcbCalls' = [lcbCalls EXCEPT ![p] = [lcbCalls[p] EXCEPT ![m] = lcbCalls[p][m] + 1]]
      BY <1>3, <2>1 DEF TryDeliver
    <3>3. [lcbCalls[p] EXCEPT ![m] = lcbCalls[p][m] + 1] \in [Msg -> Nat]
      BY <3>1
    <3>4. lcbCalls' \in [Proc -> [Msg -> Nat]]
      BY <3>2, <3>3
    <3>5. delivered' \in [Proc -> SUBSET Msg] /\ rcv' \in [Proc -> SUBSET Msg]
      BY <1>3, <2>1 DEF TryDeliver
    <3> QED
      BY <1>3, <3>4, <3>5 DEF TryDeliver
  <2>2. CASE ~MayDeliver(p, m)
    BY <1>3, <2>2 DEF TryDeliver
  <2> QED
    BY <2>1, <2>2
<1>4. ASSUME NEW p \in Proc, Stop(p)
      PROVE  TypeOK'
  BY <1>4 DEF Stop
<1>5. ASSUME UNCHANGED vars
      PROVE  TypeOK'
  BY <1>5 DEF vars
<1> QED
  BY <1>1, <1>2, <1>3, <1>4, <1>5 DEF Next

\* The initial state has the types.
LEMMA TypeInit == Init => TypeOK
BY UrbAssumption DEF Init, TypeOK, Proc

\* The variables always have their types.
THEOREM TypeCorrect == Spec => []TypeOK
<1>1. TypeOK /\ [Next]_vars => TypeOK'
  BY TypeStep
<1> QED
  BY TypeInit, <1>1, PTL DEF Spec

-----------------------------------------------------------------------------
(* The inductive invariant.  Besides the properties of Urb it says how the  *)
(* tables of one process relate to each other.                              *)

\* Only messages that were broadcast are in the tables of a process; a
\* message is recorded as seen before deliver_urb decides about it and before
\* it is recorded as delivered.
SeenIsBroadcast ==
  \A p \in Proc : /\ seen[p] \subseteq Broadcasted
                  /\ rcv[p] \subseteq seen[p]
                  /\ delivered[p] \subseteq seen[p]

\* deliver_lcb has been called once for the messages marked as delivered.
OneCallPerDelivery ==
  \A p \in Proc, m \in Msg : lcbCalls[p][m] = IF m \in delivered[p] THEN 1 ELSE 0

Stopped == {q \in Proc : ~up[q]}

StopsBounded == Cardinality(Stopped) <= MaxStops

IInv ==
  /\ TypeOK
  /\ SeenIsBroadcast
  /\ OneCallPerDelivery
  /\ StopsBounded
  /\ AcksAreTrue
  /\ RelayedIffSeen
  /\ MajorityHolds

\* The initial state satisfies the invariant.
LEMMA IInvInit == Init => IInv
<1> SUFFICES ASSUME Init PROVE IInv
  OBVIOUS
<1>1. TypeOK
  BY TypeInit
<1>2. Stopped = {}
  BY DEF Init, Stopped
<1>3. StopsBounded
  BY <1>2, FS_EmptySet, UrbAssumption DEF StopsBounded
<1> QED
  BY <1>1, <1>3 DEF Init, IInv, SeenIsBroadcast, OneCallPerDelivery,
     AcksAreTrue, RelayedIffSeen, MajorityHolds

\* No step takes a message out of a table of seen messages, a packet out of
\* the links or the history of broadcasts.
LEMMA TablesGrow ==
  ASSUME TypeOK, [Next]_vars
  PROVE  /\ \A p \in Proc : seen[p] \subseteq seen'[p]
         /\ sent \subseteq sent'
         /\ Broadcasted \subseteq Broadcasted'
<1> USE DEF TypeOK
<1>1. ASSUME NEW p \in Proc, SendUrb(p)
      PROVE  /\ \A q \in Proc : seen[q] \subseteq seen'[q]
             /\ sent \subseteq sent'
             /\ \A q \in Proc : nextSeq[q] <= nextSeq'[q]
  BY <1>1 DEF SendUrb, AddSeen
<1>2. ASSUME NEW k \in Packet, ReceiveUrb(k)
      PROVE  /\ \A q \in Proc : seen[q] \subseteq seen'[q]
             /\ sent \subseteq sent'
             /\ \A q \in Proc : nextSeq[q] <= nextSeq'[q]
  BY <1>2, PacketElim DEF ReceiveUrb, AddSeen
<1>3. ASSUME \/ \E p \in Proc, m \in Msg : TryDeliver(p, m)
             \/ \E p \in Proc : Stop(p)
             \/ UNCHANGED vars
      PROVE  /\ \A q \in Proc : seen[q] \subseteq seen'[q]
             /\ sent \subseteq sent'
             /\ \A q \in Proc : nextSeq[q] <= nextSeq'[q]
  <2>1. UNCHANGED <<seen, sent, nextSeq>>
    BY <1>3 DEF TryDeliver, Stop, vars
  <2> QED
    BY <2>1
<1>4. /\ \A q \in Proc : seen[q] \subseteq seen'[q]
      /\ sent \subseteq sent'
      /\ \A q \in Proc : nextSeq[q] <= nextSeq'[q]
  BY <1>1, <1>2, <1>3 DEF Next
<1>5. ASSUME NEW m \in Broadcasted
      PROVE  m \in Broadcasted'
  <2>1. m \in Msg /\ m.orig \in Proc /\ m.seq \in Int /\ m.seq <= nextSeq[m.orig]
    BY MsgElim DEF Broadcasted
  <2>2. nextSeq[m.orig] \in Int /\ nextSeq'[m.orig] \in Int
    BY <2>1, TypeStep
  <2> QED
    BY <1>4, <2>1, <2>2 DEF Broadcasted
<1> QED
  BY <1>4, <1>5

\* More than half of a set of processes is counted by can_deliver's test, which
\* divides with truncation.
LEMMA MajorityTest ==
  ASSUME NEW c \in Nat, c > N \div 2
  PROVE  2 * c > N
BY UrbAssumption

\* What is delivered stays held by a majority: tables of seen messages only grow.
LEMMA MajorityStays ==
  ASSUME TypeOK, MajorityHolds, [Next]_vars, UNCHANGED delivered
  PROVE  MajorityHolds'
<1> SUFFICES ASSUME NEW q \in Proc, NEW n \in delivered[q]
             PROVE  2 * Cardinality(Holders(n)') > N
  BY DEF MajorityHolds
<1>1. 2 * Cardinality(Holders(n)) > N
  BY DEF MajorityHolds
<1>2. Holders(n) \subseteq Holders(n)' /\ Holders(n)' \subseteq Proc
  BY TablesGrow DEF Holders
<1> QED
  BY <1>1, <1>2, ProcSubset, UrbAssumption

\* send_urb keeps the invariant: its message is in no table and on no link yet.
LEMMA SendUrbStep ==
  ASSUME IInv, NEW p \in Proc, SendUrb(p)
  PROVE  IInv'
<1> DEFINE m == [orig |-> p, seq |-> nextSeq[p] + 1]
<1>1. TypeOK /\ TypeOK' /\ [Next]_vars
  BY TypeStep DEF IInv, Next
<1>2. NumMsg[p] \in Nat /\ nextSeq[p] \in Nat /\ nextSeq[p] < NumMsg[p]
  BY <1>1, UrbAssumption DEF Proc, SendUrb, MayBroadcast, TypeOK
<1>3. m \in Msg /\ m \notin Broadcasted /\ m \in Broadcasted'
  <2>1. m \in Msg
    BY <1>2, MsgIntro
  <2>2. nextSeq' = [nextSeq EXCEPT ![p] = nextSeq[p] + 1]
    BY DEF SendUrb
  <2>3. nextSeq'[p] = nextSeq[p] + 1
    BY <1>1, <2>2 DEF TypeOK
  <2> QED
    BY <1>2, <2>1, <2>3 DEF Broadcasted
<1>4. /\ \A q \in Proc : m \notin seen[q]
      /\ \A q \in Proc : Beb(q, m) \cap sent = {}
  BY <1>3 DEF IInv, SeenIsBroadcast, RelayedIffSeen
<1>5. /\ seen' = [seen EXCEPT ![p] = seen[p] \cup {m}]
      /\ urbacks' = [urbacks EXCEPT ![p][m] = urbacks[p][m] \cup {p}]
      /\ sent' = sent \cup Beb(p, m)
      /\ UNCHANGED <<delivered, lcbCalls, rcv, got, up>>
  BY DEF SendUrb, AddSeen
<1>6. /\ \A q \in Proc : seen[q] \subseteq seen'[q]
      /\ sent \subseteq sent'
      /\ Broadcasted \subseteq Broadcasted'
  BY <1>1, TablesGrow
<1>7. SeenIsBroadcast'
  BY <1>1, <1>3, <1>5, <1>6 DEF IInv, SeenIsBroadcast, TypeOK
<1>8. OneCallPerDelivery' /\ StopsBounded'
  BY <1>5 DEF IInv, OneCallPerDelivery, StopsBounded, Stopped
<1>9. AcksAreTrue'
  <2> SUFFICES ASSUME NEW q \in Proc, NEW n \in Msg, NEW r \in urbacks'[q][n]
               PROVE  r \in Proc /\ n \in seen'[r]
    BY DEF AcksAreTrue, Holders
  <2>1. CASE r \in urbacks[q][n]
    BY <1>6, <2>1 DEF IInv, AcksAreTrue, Holders
  <2>2. CASE q = p /\ n = m /\ r = p
    BY <1>1, <1>5, <2>2 DEF TypeOK
  <2> QED
    BY <1>1, <1>3, <1>5, <2>1, <2>2 DEF TypeOK
<1>10. RelayedIffSeen'
  <2> SUFFICES ASSUME NEW q \in Proc, NEW n \in Msg
               PROVE  /\ n \in seen'[q] => Beb(q, n) \subseteq sent'
                      /\ n \notin seen'[q] => Beb(q, n) \cap sent' = {}
    BY DEF RelayedIffSeen, Beb
  <2>1. CASE q = p /\ n = m
    BY <1>1, <1>5, <2>1 DEF TypeOK
  <2>2. CASE ~(q = p /\ n = m)
    <3>1. n \in seen'[q] <=> n \in seen[q]
      BY <1>1, <1>5, <2>2 DEF TypeOK
    <3>2. Beb(q, n) \cap Beb(p, m) = {}
      BY <2>2, BebDisjoint
    <3> QED
      BY <1>5, <3>1, <3>2 DEF IInv, RelayedIffSeen
  <2> QED
    BY <2>1, <2>2
<1>11. MajorityHolds'
  BY <1>1, <1>5, MajorityStays DEF IInv
<1> QED
  BY <1>1, <1>7, <1>8, <1>9, <1>10, <1>11 DEF IInv

\* The first part of deliver_urb keeps the invariant: the packet proves that its
\* sender has the message, and a relay is sent by a process that never sent one.
LEMMA ReceiveUrbStep ==
  ASSUME IInv, NEW k \in Packet, ReceiveUrb(k)
  PROVE  IInv'
<1> DEFINE p == k.dst
           m == k.msg
<1>1. TypeOK /\ TypeOK' /\ [Next]_vars
  BY TypeStep DEF IInv, Next
<1>2. p \in Proc /\ m \in Msg /\ k.src \in Proc /\ k \in Beb(k.src, m) /\ k \in sent
  BY PacketElim DEF ReceiveUrb
<1>3. m \in seen[k.src]
  BY <1>2 DEF IInv, RelayedIffSeen
<1>4. /\ seen' = [seen EXCEPT ![p] = seen[p] \cup {m}]
      /\ urbacks' = [urbacks EXCEPT ![p][m] = Acks(p, m, k.src)]
      /\ sent' = sent \cup Relay(p, m)
      /\ rcv' = [rcv EXCEPT ![p] = {m}]
      /\ UNCHANGED <<nextSeq, delivered, lcbCalls, up>>
  BY DEF ReceiveUrb, AddSeen
<1>5. /\ \A q \in Proc : seen[q] \subseteq seen'[q]
      /\ sent \subseteq sent'
      /\ Broadcasted = Broadcasted'
  BY <1>1, <1>4, TablesGrow DEF Broadcasted
<1>6. p \in Proc /\ m \in seen'[p]
  BY <1>1, <1>2, <1>4 DEF TypeOK
<1>7. SeenIsBroadcast'
  BY <1>1, <1>2, <1>3, <1>4, <1>5 DEF IInv, SeenIsBroadcast, TypeOK
<1>8. OneCallPerDelivery' /\ StopsBounded'
  BY <1>4 DEF IInv, OneCallPerDelivery, StopsBounded, Stopped
<1>9. AcksAreTrue'
  <2> SUFFICES ASSUME NEW q \in Proc, NEW n \in Msg, NEW r \in urbacks'[q][n]
               PROVE  r \in Proc /\ n \in seen'[r]
    BY DEF AcksAreTrue, Holders
  <2>1. CASE r \in urbacks[q][n]
    BY <1>5, <2>1 DEF IInv, AcksAreTrue, Holders
  <2>2. CASE n = m /\ r \in {p, k.src}
    BY <1>2, <1>3, <1>5, <1>6, <2>2
  <2>3. r \in urbacks[q][n] \/ (n = m /\ r \in {p, k.src})
    BY <1>1, <1>2, <1>4 DEF TypeOK, Acks
  <2> QED
    BY <2>1, <2>2, <2>3
<1>10. RelayedIffSeen'
  <2> SUFFICES ASSUME NEW q \in Proc, NEW n \in Msg
               PROVE  /\ n \in seen'[q] => Beb(q, n) \subseteq sent'
                      /\ n \notin seen'[q] => Beb(q, n) \cap sent' = {}
    BY DEF RelayedIffSeen, Beb
  <2>1. CASE q = p /\ n = m
    BY <1>4, <1>6, <2>1 DEF IInv, RelayedIffSeen, Relay
  <2>2. CASE ~(q = p /\ n = m)
    <3>1. n \in seen'[q] <=> n \in seen[q]
      BY <1>1, <1>2, <1>4, <2>2 DEF TypeOK
    <3>2. Beb(q, n) \cap Relay(p, m) = {}
      BY <2>2, BebDisjoint DEF Relay
    <3> QED
      BY <1>4, <3>1, <3>2 DEF IInv, RelayedIffSeen
  <2> QED
    BY <2>1, <2>2
<1>11. MajorityHolds'
  BY <1>1, <1>4, MajorityStays DEF IInv
<1> QED
  BY <1>1, <1>7, <1>8, <1>9, <1>10, <1>11 DEF IInv

\* The end of deliver_urb keeps the invariant: the table of acks is true, so the
\* majority it shows is a majority of holders.
LEMMA TryDeliverStep ==
  ASSUME IInv, NEW p \in Proc, NEW m \in Msg, TryDeliver(p, m)
  PROVE  IInv'
<1>1. TypeOK /\ TypeOK' /\ [Next]_vars
  BY TypeStep DEF IInv, Next
<1>2. m \in rcv[p] /\ rcv' = [rcv EXCEPT ![p] = {}]
      /\ UNCHANGED <<nextSeq, seen, urbacks, sent, got, up>>
  BY DEF TryDeliver
<1>3. AcksAreTrue' /\ RelayedIffSeen' /\ StopsBounded'
  BY <1>2 DEF IInv, AcksAreTrue, Holders, RelayedIffSeen, StopsBounded, Stopped
<1>4. CASE MayDeliver(p, m)
  <2>1. /\ delivered' = [delivered EXCEPT ![p] = delivered[p] \cup {m}]
        /\ lcbCalls' = [lcbCalls EXCEPT ![p][m] = lcbCalls[p][m] + 1]
    BY <1>4 DEF TryDeliver
  <2>2. SeenIsBroadcast'
    BY <1>1, <1>2, <2>1 DEF IInv, SeenIsBroadcast, Broadcasted, TypeOK
  <2>3. OneCallPerDelivery'
    <3> SUFFICES ASSUME NEW q \in Proc, NEW n \in Msg
                 PROVE  lcbCalls'[q][n] = IF n \in delivered'[q] THEN 1 ELSE 0
      BY DEF OneCallPerDelivery
    <3>1. CASE q = p /\ n = m
      <4>1. lcbCalls[p][m] = 0
        BY <1>4 DEF MayDeliver, IInv, OneCallPerDelivery
      <4> QED
        BY <1>1, <2>1, <3>1, <4>1 DEF TypeOK
    <3>2. CASE ~(q = p /\ n = m)
      BY <1>1, <2>1, <3>2 DEF TypeOK, IInv, OneCallPerDelivery
    <3> QED
      BY <3>1, <3>2
  <2>4. 2 * Cardinality(Holders(m)) > N
    <3>1. Holders(m) \subseteq Proc /\ urbacks[p][m] \subseteq Holders(m)
      BY DEF IInv, AcksAreTrue, Holders
    <3>2. Cardinality(urbacks[p][m]) > N \div 2
      BY <1>4 DEF MayDeliver, CanDeliver
    <3>3. /\ Cardinality(Holders(m)) \in Nat
          /\ Cardinality(urbacks[p][m]) \in Nat
          /\ Cardinality(urbacks[p][m]) <= Cardinality(Holders(m))
      BY <3>1, ProcSubset
    <3> QED
      BY <3>2, <3>3, MajorityTest, UrbAssumption
  <2>5. MajorityHolds'
    <3> SUFFICES ASSUME NEW q \in Proc, NEW n \in delivered'[q]
                 PROVE  2 * Cardinality(Holders(n)') > N
      BY DEF MajorityHolds
    <3>1. Holders(n)' = Holders(n)
      BY <1>2 DEF Holders
    <3>2. n \in delivered[q] \/ n = m
      BY <1>1, <2>1 DEF TypeOK
    <3> QED
      BY <2>4, <3>1, <3>2 DEF IInv, MajorityHolds
  <2> QED
    BY <1>1, <1>3, <2>2, <2>3, <2>5 DEF IInv
<1>5. CASE ~MayDeliver(p, m)
  <2>1. UNCHANGED <<delivered, lcbCalls>>
    BY <1>5 DEF TryDeliver
  <2>2. SeenIsBroadcast' /\ OneCallPerDelivery'
    BY <1>1, <1>2, <2>1
       DEF IInv, SeenIsBroadcast, Broadcasted, TypeOK, OneCallPerDelivery
  <2>3. MajorityHolds'
    BY <1>1, <2>1, MajorityStays DEF IInv
  <2> QED
    BY <1>1, <1>3, <2>2, <2>3 DEF IInv
<1> QED
  BY <1>4, <1>5

\* A stop keeps the invariant: it adds one to the stopped processes.
LEMMA StopStep ==
  ASSUME IInv, NEW p \in Proc, Stop(p)
  PROVE  IInv'
<1>1. TypeOK /\ TypeOK' /\ [Next]_vars
  BY TypeStep DEF IInv, Next
<1>2. /\ up' = [up EXCEPT ![p] = FALSE]
      /\ UNCHANGED <<nextSeq, seen, urbacks, delivered, lcbCalls, rcv, sent, got>>
      /\ Cardinality(Stopped) < MaxStops
  BY DEF Stop, Stopped
<1>3. StopsBounded'
  <2>1. Stopped' \subseteq Stopped \cup {p}
    BY <1>1, <1>2 DEF Stopped, TypeOK
  <2>2. IsFiniteSet(Stopped)
    BY ProcFinite, FS_Subset DEF Stopped
  <2>3. /\ IsFiniteSet(Stopped \cup {p})
        /\ Cardinality(Stopped) \in Nat
        /\ Cardinality(Stopped \cup {p}) <= Cardinality(Stopped) + 1
    <3>1. /\ IsFiniteSet(Stopped \cup {p})
          /\ Cardinality(Stopped \cup {p}) = Cardinality(Stopped)
             \/ Cardinality(Stopped \cup {p}) = Cardinality(Stopped) + 1
      BY <2>2, FS_AddElement
    <3>2. Cardinality(Stopped) \in Nat
      BY <2>2, FS_CardinalityType
    <3> QED
      BY <3>1, <3>2
  <2>4. /\ IsFiniteSet(Stopped')
        /\ Cardinality(Stopped') <= Cardinality(Stopped \cup {p})
    BY <2>1, <2>3, FS_Subset
  <2>5. Cardinality(Stopped') \in Nat /\ Cardinality(Stopped \cup {p}) \in Nat
    BY <2>3, <2>4, FS_CardinalityType
  <2> QED
    BY <1>2, <2>3, <2>4, <2>5, UrbAssumption DEF StopsBounded
<1>4. SeenIsBroadcast' /\ OneCallPerDelivery'
  BY <1>2 DEF IInv, SeenIsBroadcast, OneCallPerDelivery, Broadcasted
<1>5. AcksAreTrue' /\ RelayedIffSeen'
  BY <1>2 DEF IInv, AcksAreTrue, RelayedIffSeen, Holders
<1>6. MajorityHolds'
  BY <1>1, <1>2, MajorityStays DEF IInv
<1> QED
  BY <1>1, <1>3, <1>4, <1>5, <1>6 DEF IInv

\* Every step keeps the invariant.
LEMMA IInvStep ==
  ASSUME IInv, [Next]_vars
  PROVE  IInv'
<1>1. CASE UNCHANGED vars
  BY <1>1 DEF vars, IInv, TypeOK, SeenIsBroadcast, OneCallPerDelivery, Broadcasted,
     StopsBounded, Stopped, AcksAreTrue, RelayedIffSeen, MajorityHolds, Holders
<1> QED
  BY <1>1, SendUrbStep, ReceiveUrbStep, TryDeliverStep, StopStep DEF Next

\* The invariant always holds.
LEMMA Invariance == Spec => []IInv
<1>1. IInv /\ [Next]_vars => IInv'
  BY IInvStep
<1> QED
  BY IInvInit, <1>1, PTL DEF Spec

-----------------------------------------------------------------------------
(* The theorems.                                                           *)

\* urbacks never claims that a process has a message that it does not have.
THEOREM AcksCorrect == Spec => []AcksAreTrue
<1>1. IInv => AcksAreTrue
  BY DEF IInv
<1> QED
  BY Invariance, <1>1, PTL

\* deliver_urb hands over only messages that a majority of the group holds.
THEOREM MajorityCorrect == Spec => []MajorityHolds
<1>1. IInv => MajorityHolds
  BY DEF IInv
<1> QED
  BY Invariance, <1>1, PTL

\* Every process sends a message to the others at most once, and exactly when it
\* records it as seen: the link layer never meets a second use of an id.
THEOREM RelaysCorrect == Spec => []RelayedIffSeen
<1>1. IInv => RelayedIffSeen
  BY DEF IInv
<1> QED
  BY Invariance, <1>1, PTL

\* A multiple of N and a remainder below N are determined by their sum.
LEMMA Division ==
  ASSUME NEW a \in Nat, NEW b \in Nat, NEW x \in 0 .. N - 1, NEW y \in 0 .. N - 1,
         N * a + x = N * b + y
  PROVE  a = b /\ x = y
<1>1. ASSUME NEW c \in Nat, NEW d \in Nat, c < d
      PROVE  N * c + N <= N * d
  <2>1. PICK e \in Nat : d = c + 1 + e
    <3>1. d - c - 1 \in Nat /\ d = c + 1 + (d - c - 1)
      BY <1>1
    <3> QED
      BY <3>1
  <2>2. N * (c + 1 + e) = N * c + N + N * e /\ N * e \in Nat /\ N * c \in Nat
    BY UrbAssumption
  <2> QED
    BY <2>1, <2>2, UrbAssumption
<1>2. N * a \in Nat /\ N * b \in Nat /\ N \in Nat
  BY UrbAssumption
<1>3. ~(a < b)
  BY <1>1, <1>2
<1>4. ~(b < a)
  BY <1>1, <1>2
<1> QED
  BY <1>2, <1>3, <1>4

\* The row of a message, N entries, ends inside a table with M rows.
LEMMA RowInside ==
  ASSUME NEW a \in Nat, NEW M \in Nat, a < M, NEW x \in 0 .. N - 1
  PROVE  N * a + x \in 0 .. N * M - 1
<1>1. PICK e \in Nat : M = a + 1 + e
  <2>1. M - a - 1 \in Nat /\ M = a + 1 + (M - a - 1)
    OBVIOUS
  <2> QED
    BY <2>1
<1>2. /\ N * (a + 1 + e) = N * a + N + N * e
      /\ N * e \in Nat /\ N * a \in Nat /\ N \in Nat
  BY UrbAssumption
<1> QED
  BY <1>1, <1>2

\* The number of a message is one of the numbers of the rows.
LEMMA SeenIds ==
  ASSUME NEW m \in Fits
  PROVE  /\ m.orig - 1 \in 0 .. N - 1 /\ m.seq - 1 \in Nat /\ m.seq - 1 < TableMsgs
         /\ SeenId(m) = N * (m.seq - 1) + (m.orig - 1)
         /\ SeenId(m) \in Nat /\ SeenId(m) < N * TableMsgs
<1>1. m.orig - 1 \in 0 .. N - 1 /\ m.seq - 1 \in Nat /\ m.seq - 1 < TableMsgs
  BY UrbAssumption DEF Fits, Proc
<1>2. N * (m.seq - 1) \in Nat
  BY <1>1, UrbAssumption
<1>3. SeenId(m) = N * (m.seq - 1) + (m.orig - 1)
  BY <1>1, <1>2 DEF SeenId, Fits, Proc
<1>4. N * (m.seq - 1) + (m.orig - 1) \in 0 .. N * TableMsgs - 1
  BY <1>1, RowInside, UrbAssumption
<1>5. N * TableMsgs \in Nat
  BY UrbAssumption
<1> QED
  BY <1>1, <1>3, <1>4, <1>5

\* Messages differ in their numbers.
LEMMA SeenIdsDiffer ==
  ASSUME NEW m \in Fits, NEW n \in Fits, SeenId(m) = SeenId(n)
  PROVE  m = n
<1>1. m.seq - 1 = n.seq - 1 /\ m.orig - 1 = n.orig - 1
  BY SeenIds, Division
<1>2. m.seq = n.seq /\ m.orig = n.orig
  BY <1>1 DEF Fits, Proc
<1> QED
  BY <1>2 DEF Fits

\* Messages and processes differ in the entries of the tables, which have them all.
LEMMA LinkIds ==
  ASSUME NEW m \in Fits, NEW p \in Proc
  PROVE  /\ LinkId(m, p) \in 0 .. TotalEntries - 1
         /\ \A n \in Fits, q \in Proc : LinkId(n, q) = LinkId(m, p) => n = m /\ q = p
<1>1. \A n \in Fits, q \in Proc : /\ q - 1 \in 0 .. N - 1
                                  /\ SeenId(n) \in Nat /\ N * SeenId(n) \in Nat
                                  /\ LinkId(n, q) = N * SeenId(n) + (q - 1)
  BY SeenIds, UrbAssumption DEF LinkId, Proc
<1>2. N * TableMsgs \in Nat /\ TotalEntries = N * (N * TableMsgs)
  BY UrbAssumption DEF TotalEntries
<1>3. LinkId(m, p) \in 0 .. TotalEntries - 1
  BY <1>1, <1>2, SeenIds, RowInside
<1>4. ASSUME NEW n \in Fits, NEW q \in Proc, LinkId(n, q) = LinkId(m, p)
      PROVE  n = m /\ q = p
  <2>1. SeenId(n) = SeenId(m) /\ q - 1 = p - 1
    BY <1>1, <1>4, Division
  <2>2. n = m
    BY <2>1, SeenIdsDiffer
  <2> QED
    BY <2>1, <2>2 DEF Proc
<1> QED
  BY <1>3, <1>4

\* For any number of processes and messages that the tables are made for, no two
\* packets, relays or acknowledgements meet in an entry.
THEOREM IdsCorrect == Spec => []IdsDiffer
<1>1. Msg \subseteq Fits
  <2> SUFFICES ASSUME NEW m \in Msg PROVE m \in Fits
    OBVIOUS
  <2>1. m.orig \in Proc /\ m.seq \in 1 .. NumMsg[m.orig] /\ m = [orig |-> m.orig, seq |-> m.seq]
    BY MsgElim
  <2>2. m.seq \in 1 .. TableMsgs
    BY <2>1, UrbAssumption DEF Proc
  <2> QED
    BY <2>1, <2>2 DEF Fits
<1>2. IdsDiffer
  BY <1>1, LinkIds DEF IdsDiffer, Broadcasted
<1> QED
  BY <1>2, PTL

\* Fewer processes have stopped than hold a delivered message: some holder runs.
LEMMA SurvivorExists ==
  ASSUME IInv
  PROVE  SurvivorRelays
<1> SUFFICES ASSUME 2 * MaxStops < N, NEW p \in Proc, NEW m \in delivered[p]
             PROVE  \E q \in Proc : up[q] /\ m \in seen[q] /\ Beb(q, m) \subseteq sent
  BY DEF SurvivorRelays
<1>1. TypeOK /\ m \in Msg /\ 2 * Cardinality(Holders(m)) > N
  BY DEF IInv, TypeOK, MajorityHolds
<1>2. Cardinality(Stopped) <= MaxStops
  BY DEF IInv, StopsBounded
<1>3. ~(Holders(m) \subseteq Stopped)
  <2>1. Stopped \subseteq Proc
    BY DEF Stopped
  <2>2. ASSUME Holders(m) \subseteq Stopped
        PROVE  FALSE
    <3>1. /\ Cardinality(Stopped) \in Nat
          /\ Cardinality(Holders(m)) \in Nat
          /\ Cardinality(Holders(m)) <= Cardinality(Stopped)
      BY <2>1, <2>2, ProcSubset
    <3> QED
      BY <1>1, <1>2, <3>1, UrbAssumption
  <2> QED
    BY <2>2
<1>4. PICK q \in Proc : m \in seen[q] /\ up[q]
  BY <1>3 DEF Holders, Stopped
<1>5. Beb(q, m) \subseteq sent
  BY <1>1, <1>4 DEF IInv, RelayedIffSeen
<1> QED
  BY <1>4, <1>5

\* Whatever stops, a delivered message has been relayed by a process that runs,
\* as long as less than half of the processes stop.
THEOREM SurvivorCorrect == Spec => []SurvivorRelays
<1>1. IInv => SurvivorRelays
  BY SurvivorExists
<1> QED
  BY Invariance, <1>1, PTL

-----------------------------------------------------------------------------
(* What is true when nothing is left to do.                                *)

\* The receiver thread handles one message.
OneAtATime == \A p \in Proc : \A m, n \in rcv[p] : m = n

\* A packet that was handed over is in the tables, with its sender; who holds a message
\* is in its own row.
GotIsNoted ==
  \A k \in got : k.msg \in seen[k.dst] /\ k.src \in urbacks[k.dst][k.msg]
OwnAck == \A p \in Proc : \A m \in seen[p] : p \in urbacks[p][m]

\* deliver_urb leaves no message that can be delivered; send_urb does not ask, but has
\* one entry in the row of its message only.
Decided ==
  N > 1 => \A p \in Proc : \A m \in Msg \ rcv[p] : CanDeliver(p, m) => m \in delivered[p]
DeliveredRoom == \A p \in Proc : \A m \in delivered[p] : HasRoom(m)

RestInv == OneAtATime /\ GotIsNoted /\ OwnAck /\ Decided /\ DeliveredRoom

LEMMA RestInit == Init => RestInv
<1> SUFFICES ASSUME Init PROVE RestInv
  OBVIOUS
<1>1. OneAtATime /\ GotIsNoted /\ OwnAck /\ DeliveredRoom
  BY DEF Init, OneAtATime, GotIsNoted, OwnAck, DeliveredRoom
<1>2. ASSUME NEW p \in Proc, NEW m \in Msg PROVE ~CanDeliver(p, m)
  <2>1. urbacks[p][m] = {}
    BY DEF Init
  <2>2. Cardinality(urbacks[p][m]) = 0 /\ ~(0 > N \div 2)
    BY <2>1, FS_EmptySet, UrbAssumption
  <2> QED
    BY <2>2 DEF CanDeliver
<1>3. Decided
  BY <1>2 DEF Decided
<1> QED
  BY <1>1, <1>3 DEF RestInv

\* The message of send_urb has one entry in the row, less than a majority.
LEMMA RestSendUrb ==
  ASSUME IInv, RestInv, NEW p \in Proc, SendUrb(p)
  PROVE  RestInv'
<1> DEFINE m == [orig |-> p, seq |-> nextSeq[p] + 1]
<1>1. TypeOK
  BY DEF IInv
<1>2. NumMsg[p] \in Nat /\ nextSeq[p] \in Nat /\ nextSeq[p] < NumMsg[p]
  BY <1>1, UrbAssumption DEF Proc, SendUrb, MayBroadcast, TypeOK
<1>3. m \in Msg /\ m \notin Broadcasted
  BY <1>2, MsgIntro DEF Broadcasted
<1>4. /\ seen' = [seen EXCEPT ![p] = seen[p] \cup {m}]
      /\ urbacks' = [urbacks EXCEPT ![p][m] = urbacks[p][m] \cup {p}]
      /\ UNCHANGED <<delivered, rcv, got>>
  BY DEF SendUrb, AddSeen
<1> HIDE DEF m
<1>5. urbacks[p][m] = {}
  BY <1>3 DEF IInv, AcksAreTrue, Holders, SeenIsBroadcast
<1>6. /\ urbacks'[p][m] = {p}
      /\ \A q \in Proc, n \in Msg : q # p \/ n # m => urbacks'[q][n] = urbacks[q][n]
      /\ \A q \in Proc, n \in Msg : urbacks[q][n] \subseteq urbacks'[q][n]
      /\ seen'[p] = seen[p] \cup {m}
      /\ \A q \in Proc : q # p => seen'[q] = seen[q]
  BY <1>1, <1>3, <1>4, <1>5 DEF TypeOK
<1>7. OneAtATime' /\ DeliveredRoom'
  BY <1>4 DEF RestInv, OneAtATime, DeliveredRoom, HasRoom, SeenId, TotalEntries
<1>8. GotIsNoted'
  <2> SUFFICES ASSUME NEW k \in got
               PROVE  k.msg \in seen'[k.dst] /\ k.src \in urbacks'[k.dst][k.msg]
    BY <1>4 DEF GotIsNoted
  <2>1. k.msg \in Msg /\ k.dst \in Proc
    BY <1>1, PacketElim DEF TypeOK
  <2>2. k.msg \in seen[k.dst] /\ k.src \in urbacks[k.dst][k.msg]
    BY DEF RestInv, GotIsNoted
  <2> QED
    BY <1>6, <2>1, <2>2
<1>9. OwnAck'
  <2> SUFFICES ASSUME NEW q \in Proc, NEW n \in seen'[q] PROVE q \in urbacks'[q][n]
    BY DEF OwnAck
  <2>1. CASE q = p /\ n = m
    BY <1>6, <2>1
  <2>2. CASE ~(q = p /\ n = m)
    <3>1. n \in seen[q] /\ n \in Msg
      BY <1>1, <1>6, <2>2 DEF TypeOK
    <3> QED
      BY <1>6, <3>1 DEF RestInv, OwnAck
  <2> QED
    BY <2>1, <2>2
<1>10. Decided'
  <2> SUFFICES ASSUME N > 1, NEW q \in Proc, NEW n \in Msg \ rcv[q], CanDeliver(q, n)'
               PROVE  n \in delivered[q]
    BY <1>4 DEF Decided
  <2>1. HasRoom(n) /\ Cardinality(urbacks'[q][n]) > N \div 2
    BY DEF CanDeliver, HasRoom, SeenId, TotalEntries
  <2>2. ~(q = p /\ n = m)
    <3>1. ASSUME q = p /\ n = m PROVE FALSE
      <4>1. Cardinality(urbacks'[q][n]) = 1
        BY <1>6, <3>1, FS_Singleton
      <4> QED
        BY <2>1, <4>1, UrbAssumption
    <3> QED
      BY <3>1
  <2>3. CanDeliver(q, n)
    BY <1>6, <2>1, <2>2 DEF CanDeliver
  <2> QED
    BY <2>3 DEF RestInv, Decided
<1> QED
  BY <1>7, <1>8, <1>9, <1>10 DEF RestInv

\* A packet adds to the row of its message, which the thread then decides about.
LEMMA RestReceiveUrb ==
  ASSUME IInv, RestInv, NEW k \in Packet, ReceiveUrb(k)
  PROVE  RestInv'
<1> DEFINE p == k.dst
           m == k.msg
<1>1. TypeOK
  BY DEF IInv
<1>2. p \in Proc /\ m \in Msg /\ k.src \in Proc
  BY PacketElim
<1>3. /\ seen' = [seen EXCEPT ![p] = seen[p] \cup {m}]
      /\ urbacks' = [urbacks EXCEPT ![p][m] = Acks(p, m, k.src)]
      /\ rcv' = [rcv EXCEPT ![p] = {m}] /\ rcv[p] = {}
      /\ got' = got \cup {k}
      /\ delivered' = delivered
  BY DEF ReceiveUrb, AddSeen
<1> HIDE DEF p, m
<1>4. /\ urbacks'[p][m] = Acks(p, m, k.src)
      /\ \A q \in Proc, n \in Msg : q # p \/ n # m => urbacks'[q][n] = urbacks[q][n]
      /\ seen'[p] = seen[p] \cup {m}
      /\ \A q \in Proc : q # p => seen'[q] = seen[q]
      /\ rcv'[p] = {m}
      /\ \A q \in Proc : q # p => rcv'[q] = rcv[q]
  BY <1>1, <1>2, <1>3 DEF TypeOK
<1>5. /\ urbacks[p][m] \subseteq Acks(p, m, k.src) /\ k.src \in Acks(p, m, k.src)
      /\ p \in Acks(p, m, k.src)
  BY <1>2 DEF Acks, RestInv, OwnAck
<1>6. OneAtATime' /\ DeliveredRoom'
  BY <1>3, <1>4 DEF RestInv, OneAtATime, DeliveredRoom, HasRoom, SeenId, TotalEntries
<1>7. GotIsNoted'
  <2> SUFFICES ASSUME NEW l \in got'
               PROVE  l.msg \in seen'[l.dst] /\ l.src \in urbacks'[l.dst][l.msg]
    BY DEF GotIsNoted
  <2>1. CASE l = k
    BY <1>4, <1>5, <2>1 DEF p, m
  <2>2. CASE l \in got
    <3>1. l.msg \in Msg /\ l.dst \in Proc
      BY <1>1, <2>2, PacketElim DEF TypeOK
    <3>2. l.msg \in seen[l.dst] /\ l.src \in urbacks[l.dst][l.msg]
      BY <2>2 DEF RestInv, GotIsNoted
    <3> QED
      BY <1>4, <1>5, <3>1, <3>2
  <2> QED
    BY <1>3, <2>1, <2>2
<1>8. OwnAck'
  <2> SUFFICES ASSUME NEW q \in Proc, NEW n \in seen'[q] PROVE q \in urbacks'[q][n]
    BY DEF OwnAck
  <2>1. CASE q = p /\ n = m
    BY <1>4, <1>5, <2>1
  <2>2. CASE ~(q = p /\ n = m)
    <3>1. n \in seen[q] /\ n \in Msg
      BY <1>1, <1>4, <2>2 DEF TypeOK
    <3> QED
      BY <1>4, <2>2, <3>1 DEF RestInv, OwnAck
  <2> QED
    BY <2>1, <2>2
<1>9. Decided'
  <2> SUFFICES ASSUME N > 1, NEW q \in Proc, NEW n \in Msg, n \notin rcv'[q], CanDeliver(q, n)'
               PROVE  n \in delivered[q]
    BY <1>3 DEF Decided
  <2>1. n \notin rcv[q] /\ (q # p \/ n # m)
    BY <1>3, <1>4
  <2>2. CanDeliver(q, n)
    BY <1>4, <2>1 DEF CanDeliver, HasRoom, SeenId, TotalEntries
  <2> QED
    BY <2>1, <2>2 DEF RestInv, Decided
<1> QED
  BY <1>6, <1>7, <1>8, <1>9 DEF RestInv

\* The decision: what can be delivered is, now or already.
LEMMA RestTryDeliver ==
  ASSUME IInv, RestInv, NEW p \in Proc, NEW m \in Msg, TryDeliver(p, m)
  PROVE  RestInv'
<1>1. TypeOK
  BY DEF IInv
<1>2. /\ m \in rcv[p] /\ rcv' = [rcv EXCEPT ![p] = {}]
      /\ UNCHANGED <<seen, urbacks, got>>
  BY DEF TryDeliver
<1>3. /\ \A q \in Proc : delivered[q] \subseteq delivered'[q]
      /\ \A q \in Proc : \A n \in delivered'[q] :
           n \in delivered[q] \/ (n = m /\ CanDeliver(p, m))
      /\ CanDeliver(p, m) => m \in delivered'[p]
  <2>1. CASE MayDeliver(p, m)
    <3>1. delivered' = [delivered EXCEPT ![p] = delivered[p] \cup {m}]
      BY <2>1 DEF TryDeliver
    <3> QED
      BY <1>1, <2>1, <3>1 DEF TypeOK, MayDeliver
  <2>2. CASE ~MayDeliver(p, m)
    <3>1. delivered' = delivered
      BY <2>2 DEF TryDeliver
    <3> QED
      BY <2>2, <3>1 DEF MayDeliver
  <2> QED
    BY <2>1, <2>2
<1>4. /\ rcv'[p] = {} /\ rcv[p] = {m}
      /\ \A q \in Proc : q # p => rcv'[q] = rcv[q]
  BY <1>1, <1>2 DEF TypeOK, RestInv, OneAtATime
<1>5. OneAtATime'
  BY <1>4 DEF RestInv, OneAtATime
<1>6. GotIsNoted' /\ OwnAck'
  BY <1>2 DEF RestInv, GotIsNoted, OwnAck
<1>7. DeliveredRoom'
  <2>1. \A q \in Proc : \A n \in delivered'[q] : HasRoom(n)
    BY <1>3 DEF RestInv, DeliveredRoom, CanDeliver
  <2> QED
    BY <2>1 DEF DeliveredRoom, HasRoom, SeenId, TotalEntries
<1>8. Decided'
  <2> SUFFICES ASSUME N > 1, NEW q \in Proc, NEW n \in Msg, n \notin rcv'[q], CanDeliver(q, n)'
               PROVE  n \in delivered'[q]
    BY DEF Decided
  <2>1. CanDeliver(q, n)
    BY <1>2 DEF CanDeliver, HasRoom, SeenId, TotalEntries
  <2>2. CASE q = p /\ n = m
    BY <1>3, <2>1, <2>2
  <2>3. CASE ~(q = p /\ n = m)
    <3>1. n \notin rcv[q]
      BY <1>4, <2>3
    <3> QED
      BY <1>3, <2>1, <3>1 DEF RestInv, Decided
  <2> QED
    BY <2>2, <2>3
<1> QED
  BY <1>5, <1>6, <1>7, <1>8 DEF RestInv

LEMMA RestStep ==
  ASSUME IInv, RestInv, [Next]_vars
  PROVE  RestInv'
<1>1. CASE \/ \E p \in Proc : Stop(p)
           \/ UNCHANGED vars
  <2>1. UNCHANGED <<seen, urbacks, rcv, got, delivered>>
    BY <1>1 DEF Stop, vars
  <2> QED
    BY <2>1 DEF RestInv, OneAtATime, GotIsNoted, OwnAck, Decided, DeliveredRoom, CanDeliver,
       HasRoom, SeenId, TotalEntries
<1> QED
  BY <1>1, RestSendUrb, RestReceiveUrb, RestTryDeliver DEF Next

\* More than half of the processes run.
LEMMA RunningMajority ==
  ASSUME IInv, 2 * MaxStops < N, NEW S \in SUBSET Proc, \A q \in Proc : up[q] => q \in S
  PROVE  Cardinality(S) > N \div 2
<1>1. Stopped \subseteq Proc /\ Proc \ Stopped \subseteq S
  BY DEF Stopped
<1>2. Cardinality(Stopped) \in Nat /\ Cardinality(Proc \ Stopped) = N - Cardinality(Stopped)
  <2>1. Cardinality(Proc \ Stopped) = Cardinality(Proc) - Cardinality(Proc \cap Stopped)
    BY ProcFinite, FS_Difference
  <2>2. Proc \cap Stopped = Stopped
    BY <1>1
  <2> QED
    BY <1>1, <2>1, <2>2, ProcFinite, ProcSubset
<1>3. /\ Cardinality(S) \in Nat /\ Cardinality(Proc \ Stopped) \in Nat
      /\ Cardinality(Proc \ Stopped) <= Cardinality(S)
  BY <1>1, ProcSubset
<1>4. Cardinality(Stopped) <= MaxStops
  BY DEF IInv, StopsBounded
<1> QED
  BY <1>2, <1>3, <1>4, UrbAssumption

\* What a process that runs holds has been relayed by all that run, to all that run.
LEMMA HeldIsDelivered ==
  ASSUME IInv, RestInv, N > 1, 2 * MaxStops < N, AtRest,
         NEW m \in Msg, HasRoom(m), NEW q \in Proc, up[q], m \in seen[q],
         NEW p \in Proc, up[p]
  PROVE  m \in delivered[p]
<1>1. ASSUME NEW r \in Proc, up[r], m \in seen[r], NEW s \in Proc, up[s], s # r
      PROVE  m \in seen[s] /\ r \in urbacks[s][m]
  <2> DEFINE k == [msg |-> m, src |-> r, dst |-> s]
  <2>1. k \in sent
    BY <1>1 DEF IInv, RelayedIffSeen, Beb
  <2>2. k \in got
    BY <1>1, <2>1 DEF AtRest
  <2> QED
    BY <2>2 DEF RestInv, GotIsNoted
<1>2. \A r \in Proc : up[r] => m \in seen[r]
  BY <1>1
<1>3. \A r \in Proc : up[r] => r \in urbacks[p][m]
  BY <1>1, <1>2 DEF RestInv, OwnAck
<1>4. urbacks[p][m] \in SUBSET Proc
  BY DEF IInv, TypeOK
<1>5. CanDeliver(p, m)
  BY <1>3, <1>4, RunningMajority DEF CanDeliver
<1>6. rcv[p] = {}
  BY DEF AtRest
<1> QED
  BY <1>5, <1>6 DEF RestInv, Decided

\* Uniform agreement and validity, up to the fairness of links and threads: at rest, the
\* processes that run have delivered the same messages, whatever stopped before.
THEOREM AgreementCorrect == Spec => []AgreementAtRest
<1>1. IInv /\ RestInv => AgreementAtRest
  <2> SUFFICES ASSUME IInv, RestInv, N > 1, 2 * MaxStops < N, AtRest, NEW m \in Msg,
                      \/ \E q \in Proc : m \in delivered[q]
                      \/ HasRoom(m) /\ \E q \in Holders(m) : up[q],
                      NEW p \in Proc, up[p]
               PROVE  m \in delivered[p]
    BY DEF AgreementAtRest
  <2>1. HasRoom(m) /\ \E q \in Proc : up[q] /\ m \in seen[q]
    <3>1. CASE \E q \in Proc : m \in delivered[q]
      BY <3>1, SurvivorExists DEF SurvivorRelays, RestInv, DeliveredRoom
    <3>2. CASE HasRoom(m) /\ \E q \in Holders(m) : up[q]
      BY <3>2 DEF Holders
    <3> QED
      BY <3>1, <3>2
  <2> QED
    BY <2>1, HeldIsDelivered
<1>2. RestInv /\ IInv /\ [Next]_vars => RestInv'
  BY RestStep
<1> QED
  BY Invariance, RestInit, <1>1, <1>2, PTL DEF Spec

-----------------------------------------------------------------------------
(* The refinement of reliable broadcast.                                   *)

\* A step of the layer is a step of reliable broadcast or changes nothing there.
LEMMA RBStep ==
  ASSUME IInv, [Next]_vars
  PROVE  [RB!Next]_(RB!vars)
<1> USE DEF RB!Next, RB!vars
<1>1. TypeOK
  BY DEF IInv
<1>2. ASSUME NEW p \in Proc, SendUrb(p)
      PROVE  [RB!Next]_(RB!vars)
  <2> DEFINE m == [orig |-> p, seq |-> nextSeq[p] + 1]
  <2>1. NumMsg[p] \in Nat /\ nextSeq[p] \in Nat /\ nextSeq[p] < NumMsg[p]
    BY <1>1, <1>2, UrbAssumption DEF Proc, SendUrb, MayBroadcast, TypeOK
  <2>2. m \in Msg
    BY <2>1, MsgIntro
  <2>3. nextSeq' = [nextSeq EXCEPT ![p] = nextSeq[p] + 1]
        /\ UNCHANGED <<lcbCalls, up>>
    BY <1>2 DEF SendUrb
  <2>4. m \notin Broadcasted
    BY <2>1 DEF Broadcasted
  <2>5. Broadcasted' = Broadcasted \cup {m}
    <3> SUFFICES ASSUME NEW n \in Msg
                 PROVE  n \in Broadcasted' <=> n \in Broadcasted \/ n = m
      BY <2>2 DEF Broadcasted
    <3>1. /\ n.orig \in Proc
          /\ n.seq \in Nat
          /\ n = [orig |-> n.orig, seq |-> n.seq]
      BY MsgElim, UrbAssumption DEF Proc
    <3>2. CASE n.orig = p
      <4>1. nextSeq'[p] = nextSeq[p] + 1
        BY <1>1, <2>3 DEF TypeOK
      <4>2. n = m <=> n.seq = nextSeq[p] + 1
        BY <3>1, <3>2
      <4> QED
        BY <2>1, <3>1, <3>2, <4>1, <4>2 DEF Broadcasted
    <3>3. CASE n.orig # p
      <4>1. n # m /\ nextSeq'[n.orig] = nextSeq[n.orig]
        BY <1>1, <2>3, <3>1, <3>3 DEF TypeOK
      <4> QED
        BY <4>1 DEF Broadcasted
    <3> QED
      BY <3>2, <3>3
  <2>6. RB!Broadcast(m)
    BY <2>3, <2>4, <2>5 DEF RB!Broadcast
  <2> QED
    BY <2>2, <2>6
<1>3. ASSUME NEW k \in Packet, ReceiveUrb(k)
      PROVE  [RB!Next]_(RB!vars)
  BY <1>3 DEF ReceiveUrb, Broadcasted
<1>4. ASSUME NEW p \in Proc, NEW m \in Msg, TryDeliver(p, m), MayDeliver(p, m)
      PROVE  [RB!Next]_(RB!vars)
  <2>1. /\ up[p] /\ m \in rcv[p]
        /\ lcbCalls' = [lcbCalls EXCEPT ![p][m] = lcbCalls[p][m] + 1]
        /\ UNCHANGED <<nextSeq, up>>
    BY <1>4 DEF TryDeliver
  <2>2. lcbCalls[p][m] = 0
    BY <1>4 DEF MayDeliver, IInv, OneCallPerDelivery
  <2>3. m \in Broadcasted
    BY <2>1 DEF IInv, SeenIsBroadcast
  <2>4. lcbCalls' = [lcbCalls EXCEPT ![p][m] = 1]
    BY <2>1, <2>2
  <2>5. RB!Deliver(p, m)
    BY <2>1, <2>2, <2>3, <2>4 DEF RB!Deliver, Broadcasted
  <2> QED
    BY <2>5
<1>5. ASSUME NEW p \in Proc, NEW m \in Msg, TryDeliver(p, m), ~MayDeliver(p, m)
      PROVE  [RB!Next]_(RB!vars)
  BY <1>5 DEF TryDeliver, Broadcasted
<1>6. ASSUME NEW p \in Proc, Stop(p)
      PROVE  [RB!Next]_(RB!vars)
  <2>1. RB!Stop(p)
    BY <1>6 DEF Stop, RB!Stop, Broadcasted
  <2> QED
    BY <2>1
<1>7. CASE UNCHANGED vars
  BY <1>7 DEF vars, Broadcasted
<1> QED
  BY <1>2, <1>3, <1>4, <1>5, <1>6, <1>7 DEF Next

\* The initial state of the layer is one of reliable broadcast.
LEMMA RBInit ==
  ASSUME Init
  PROVE  RB!Init
<1>1. ASSUME NEW m \in Msg
      PROVE  m \notin Broadcasted
  <2>1. m.orig \in Proc /\ m.seq \in 1 .. NumMsg[m.orig]
    BY MsgElim
  <2>2. nextSeq[m.orig] = 0
    BY <2>1 DEF Init
  <2> QED
    BY <2>1, <2>2 DEF Broadcasted
<1>2. Broadcasted = {}
  BY <1>1 DEF Broadcasted
<1> QED
  BY <1>2 DEF Init, RB!Init

\* The layer implements reliable broadcast: no message is delivered twice by a
\* process, before it was broadcast, or by a process that has stopped.
THEOREM ImplementsRB == Spec => RBSpec
<1>1. Init => RB!Init
  BY RBInit
<1>2. IInv /\ [Next]_vars => [RB!Next]_(RB!vars)
  BY RBStep
<1> QED
  BY Invariance, <1>1, <1>2, PTL DEF Spec, RBSpec, RB!Spec
=============================================================================
