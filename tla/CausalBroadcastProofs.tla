----------------------- MODULE CausalBroadcastProofs -----------------------
(***************************************************************************)
(* Proofs about CausalBroadcast, for any processes and lists.              *)
(***************************************************************************)
EXTENDS CausalBroadcast, TLAPS

\* A message that has been begun: its number is its sender's, and its causes are what
\* the sender has delivered by now, and its own earlier ones.
BegunOK(m) ==
  /\ m.orig \in Proc
  /\ m.seq \in Nat \ {0}
  /\ m.seq <= started[m.orig]
  /\ m.past \subseteq Ids(delivered[m.orig]) \cup Own(m.orig, m.seq - 1)
  /\ Own(m.orig, m.seq - 1) \subseteq m.past

\* Two messages of one sender have two numbers, and the later one has the causes of
\* the earlier one.
Succession ==
  \A m, n \in Begun :
    m.orig = n.orig /\ n.seq <= m.seq => n.past \subseteq m.past /\ (n.seq = m.seq => n = m)

\* What is delivered has been sent, and so are its causes, there.
DeliveredOK(p) ==
  /\ delivered[p] \subseteq sent
  /\ \A m \in delivered[p] : Causes(m) \subseteq Ids(delivered[p])

CausalInv ==
  /\ started \in [Proc -> Nat]
  /\ DOMAIN preparing = Proc
  /\ DOMAIN delivered = Proc
  /\ \A p \in Proc : \A m \in preparing[p] : m.orig = p
  /\ \A m \in Begun : BegunOK(m)
  /\ Succession
  /\ \A p \in Proc : DeliveredOK(p)
  /\ CausesOfCauses

LEMMA InOwn ==
  ASSUME NEW m, NEW p, NEW n
  PROVE  Id(m) \in Own(p, n) <=> m.orig = p /\ m.seq \in 1 .. n
<1>1. ASSUME NEW s \in 1 .. n, Id(m) = [orig |-> p, seq |-> s]
      PROVE  m.orig = p /\ m.seq \in 1 .. n
  <2>1. Id(m).orig = p /\ Id(m).seq = s
    BY <1>1
  <2> QED BY <2>1 DEF Id
<1>2. Id(m) \in Own(p, n) => m.orig = p /\ m.seq \in 1 .. n
  BY <1>1 DEF Own
<1>3. m.orig = p /\ m.seq \in 1 .. n => Id(m) \in Own(p, n)
  BY DEF Own, Id
<1> QED BY <1>2, <1>3

LEMMA CausalInit == Init => CausalInv
BY DEF Init, CausalInv, Begun, Succession, DeliveredOK, CausesOfCauses

LEMMA StepBegin ==
  ASSUME CausalInv, NEW p \in Proc, Begin(p)
  PROVE  CausalInv'
<1> DEFINE seq == started[p] + 1
           past == Ids(delivered[p]) \cup Own(p, started[p])
<1>0. PICK new : new = [orig |-> p, seq |-> seq, past |-> past]
  OBVIOUS
<1>1. /\ started \in [Proc -> Nat] /\ preparing[p] = {}
      /\ started' = [started EXCEPT ![p] = seq]
      /\ preparing' = [preparing EXCEPT ![p] = {new}]
      /\ sent' = sent /\ delivered' = delivered
      /\ DOMAIN preparing = Proc
  BY <1>0 DEF Begin, CausalInv
<1>2. new.orig = p /\ new.seq = seq /\ new.past = past
  BY <1>0
<1>3. Own(p, seq - 1) = Own(p, started[p])
  BY <1>1 DEF Own
<1>4. Begun' = Begun \cup {new}
  <2>1. \A r \in Proc : preparing'[r] = IF r = p THEN {new} ELSE preparing[r]
    BY <1>1
  <2>2. ASSUME NEW x PROVE x \in Begun' <=> x \in Begun \cup {new}
    BY <1>1, <2>1 DEF Begun
  <2> QED BY <2>2
<1>5. \A m \in Begun : BegunOK(m)
  BY DEF CausalInv
<1>6. \A m \in Begun' : BegunOK(m)'
  <2>1. ASSUME NEW m \in Begun PROVE BegunOK(m)'
    <3>1. BegunOK(m)
      BY <1>5
    <3>2. m.seq <= started'[m.orig]
      BY <1>1, <3>1 DEF BegunOK
    <3> QED BY <1>1, <3>1, <3>2 DEF BegunOK
  <2>2. BegunOK(new)'
    <3>1. new.seq \in Nat \ {0} /\ new.seq <= started'[p]
      BY <1>1, <1>2
    <3>2. new.past = Ids(delivered'[p]) \cup Own(p, new.seq - 1)
      BY <1>1, <1>2, <1>3
    <3> QED BY <1>2, <3>1, <3>2 DEF BegunOK
  <2>3. ASSUME NEW m \in Begun' PROVE BegunOK(m)'
    BY <1>4, <2>1, <2>2
  <2> QED BY <2>3
<1>7. \A n \in Begun : n.orig = p => n.seq < seq /\ n.past \subseteq past /\ Id(n) \in past
  <2>1. ASSUME NEW n \in Begun, n.orig = p
        PROVE  n.seq < seq /\ n.past \subseteq past /\ Id(n) \in past
    <3>1. /\ n.seq \in Nat \ {0} /\ n.seq <= started[p]
          /\ n.past \subseteq Ids(delivered[p]) \cup Own(p, n.seq - 1)
      BY <1>5, <2>1 DEF BegunOK
    <3>2. started[p] \in Nat /\ Own(p, n.seq - 1) \subseteq Own(p, started[p])
      BY <1>1, <3>1 DEF Own
    <3>3. Id(n) \in Own(p, started[p])
      BY <2>1, <3>1, <3>2, InOwn
    <3>4. n.seq < seq
      BY <3>1, <3>2
    <3> QED BY <3>1, <3>2, <3>3, <3>4
  <2> QED BY <2>1
<1>8. /\ \A r \in Proc : Id(new) \notin Ids(delivered[r])
      /\ \A r \in Proc : \A k \in 0 .. started[r] : Id(new) \notin Own(r, k)
  <2>1. ASSUME NEW r \in Proc, Id(new) \in Ids(delivered[r]) PROVE FALSE
    <3>1. PICK d \in Begun : Id(d) = Id(new)
      BY <2>1 DEF Ids, CausalInv, DeliveredOK, Begun
    <3> QED BY <1>1, <1>2, <1>5, <3>1 DEF Id, BegunOK
  <2>2. ASSUME NEW r \in Proc, NEW k \in 0 .. started[r], Id(new) \in Own(r, k) PROVE FALSE
    BY <1>1, <1>2, <2>2, InOwn
  <2>3. \A r \in Proc : Id(new) \notin Ids(delivered[r])
    BY <2>1
  <2>4. \A r \in Proc : \A k \in 0 .. started[r] : Id(new) \notin Own(r, k)
    BY <2>2
  <2> QED BY <2>3, <2>4
<1>9. Succession'
  <2>1. Succession
    BY DEF CausalInv
  <2>2. \A m \in Begun : m.seq \in Nat
    BY <1>5 DEF BegunOK
  <2>3. seq \in Nat
    BY <1>1
  <2>4. ASSUME NEW m \in Begun', NEW n \in Begun', m.orig = n.orig, n.seq <= m.seq
        PROVE  n.past \subseteq m.past /\ (n.seq = m.seq => n = m)
    <3>1. CASE m \in Begun /\ n \in Begun
      BY <2>1, <2>4, <3>1 DEF Succession
    <3>2. CASE m = new /\ n \in Begun
      BY <1>2, <1>7, <2>2, <2>3, <2>4, <3>2
    <3>3. CASE m \in Begun /\ n = new
      <4>1. m.seq < seq
        BY <1>2, <1>7, <2>4, <3>3
      <4> QED BY <1>2, <2>2, <2>3, <2>4, <3>3, <4>1
    <3>4. CASE m = new /\ n = new
      BY <3>4
    <3> QED BY <1>4, <3>1, <3>2, <3>3, <3>4
  <2> QED BY <2>4 DEF Succession
<1>10. ASSUME NEW m \in Begun, NEW n \in Begun, Id(n) \in m.past PROVE Causes(n) \subseteq m.past
  BY <1>10 DEF CausalInv, CausesOfCauses
<1>11. ASSUME NEW n \in Begun, Id(n) \in past PROVE Causes(n) \subseteq past
  <2>1. CASE Id(n) \in Ids(delivered[p])
    <3>1. PICK d \in delivered[p] : Id(d) = Id(n)
      BY <2>1 DEF Ids
    <3>2. d \in Begun /\ Causes(d) \subseteq Ids(delivered[p])
      BY DEF CausalInv, DeliveredOK, Begun
    <3>3. d = n
      <4>1. d.orig = n.orig /\ d.seq = n.seq /\ d.seq \in Nat
        BY <1>5, <3>1, <3>2 DEF Id, BegunOK
      <4> QED BY <3>2, <4>1 DEF CausalInv, Succession
    <3> QED BY <3>2, <3>3
  <2>2. CASE Id(n) \in Own(p, started[p])
    <3>1. n.orig = p
      BY <2>2 DEF Own, Id
    <3> QED BY <1>7, <3>1 DEF Causes
  <2> QED BY <1>11, <2>1, <2>2
<1>12. \A m \in Begun : Id(new) \notin m.past
  <2>1. ASSUME NEW m \in Begun, Id(new) \in m.past PROVE FALSE
    <3>1. BegunOK(m) /\ started[m.orig] \in Nat
      BY <1>1, <1>5 DEF BegunOK
    <3>2. m.seq - 1 \in 0 .. started[m.orig]
      BY <3>1 DEF BegunOK
    <3> QED BY <1>8, <2>1, <3>1, <3>2 DEF BegunOK
  <2> QED BY <2>1
<1>13. Id(new) \notin past
  <2>1. started[p] \in 0 .. started[p]
    BY <1>1
  <2> QED BY <1>8, <2>1
<1> HIDE DEF past
<1>14. CausesOfCauses'
  <2>1. ASSUME NEW m \in Begun \cup {new}, NEW n \in Begun \cup {new}, Id(n) \in m.past
        PROVE  Causes(n) \subseteq m.past
    BY <1>2, <1>10, <1>11, <1>12, <1>13, <2>1
  <2> QED BY <1>4, <2>1 DEF CausesOfCauses
<1>15. \A r \in Proc : DeliveredOK(r)'
  BY <1>1 DEF CausalInv, DeliveredOK
<1>16. \A r \in Proc : \A m \in preparing'[r] : m.orig = r
  BY <1>1, <1>2 DEF CausalInv
<1> QED BY <1>1, <1>6, <1>9, <1>14, <1>15, <1>16 DEF CausalInv

LEMMA StepBroadcast ==
  ASSUME CausalInv, NEW p \in Proc, NEW m, Broadcast(p, m)
  PROVE  CausalInv'
<1>1. /\ DOMAIN preparing = Proc
      /\ m \in preparing[p]
      /\ sent' = sent \cup {m}
      /\ preparing' = [preparing EXCEPT ![p] = {}]
      /\ started' = started /\ delivered' = delivered
  BY DEF Broadcast, CausalInv
<1>2. Begun' \subseteq Begun
  <2>1. \A r \in Proc : preparing'[r] = IF r = p THEN {} ELSE preparing[r]
    BY <1>1
  <2>2. ASSUME NEW x \in Begun' PROVE x \in Begun
    BY <1>1, <2>1 DEF Begun
  <2> QED BY <2>2
<1>3. \A n \in Begun' : BegunOK(n)'
  BY <1>1, <1>2 DEF CausalInv, BegunOK
<1>4. Succession' /\ CausesOfCauses'
  BY <1>2 DEF CausalInv, Succession, CausesOfCauses
<1>5. \A r \in Proc : DeliveredOK(r)'
  BY <1>1 DEF CausalInv, DeliveredOK
<1>6. \A r \in Proc : \A n \in preparing'[r] : n.orig = r
  BY <1>1 DEF CausalInv
<1> QED BY <1>1, <1>3, <1>4, <1>5, <1>6 DEF CausalInv

LEMMA StepDeliver ==
  ASSUME CausalInv, NEW p \in Proc, NEW m, Deliver(p, m)
  PROVE  CausalInv'
<1>1. /\ DOMAIN delivered = Proc
      /\ m \in sent /\ Causes(m) \subseteq Ids(delivered[p])
      /\ delivered' = [delivered EXCEPT ![p] = @ \cup {m}]
      /\ UNCHANGED <<started, preparing, sent>>
  BY DEF Deliver, CausalInv
<1>2. Begun' = Begun
  BY <1>1 DEF Begun
<1>3. \A r \in Proc : /\ delivered'[r] = IF r = p THEN delivered[r] \cup {m} ELSE delivered[r]
                      /\ Ids(delivered[r]) \subseteq Ids(delivered'[r])
  BY <1>1 DEF Ids
<1>4. ASSUME NEW n \in Begun PROVE BegunOK(n)'
  <2>1. BegunOK(n)
    BY DEF CausalInv
  <2> QED BY <1>1, <1>3, <2>1 DEF BegunOK
<1>5. Succession' /\ CausesOfCauses'
  BY <1>2 DEF CausalInv, Succession, CausesOfCauses
<1>6. ASSUME NEW r \in Proc PROVE DeliveredOK(r)'
  <2>1. DeliveredOK(r)
    BY DEF CausalInv
  <2>2. ASSUME NEW n \in delivered'[r] PROVE Causes(n) \subseteq Ids(delivered'[r])
    BY <1>1, <1>3, <2>1 DEF DeliveredOK
  <2>3. delivered'[r] \subseteq sent'
    BY <1>1, <1>3, <2>1 DEF DeliveredOK
  <2> QED BY <2>2, <2>3 DEF DeliveredOK
<1> QED BY <1>1, <1>2, <1>4, <1>5, <1>6 DEF CausalInv

LEMMA CausalStep == CausalInv /\ [Next]_vars => CausalInv'
<1> SUFFICES ASSUME CausalInv, [Next]_vars PROVE CausalInv'
  OBVIOUS
<1>1. ASSUME UNCHANGED <<started, preparing, sent, delivered>> PROVE CausalInv'
  BY <1>1 DEF CausalInv, Begun, BegunOK, Succession, DeliveredOK, CausesOfCauses
<1>2. ASSUME NEW p \in Proc, Begin(p) PROVE CausalInv'
  BY <1>2, StepBegin
<1>3. ASSUME NEW p \in Proc, NEW m \in preparing[p], Broadcast(p, m) PROVE CausalInv'
  BY <1>3, StepBroadcast
<1>4. ASSUME NEW p \in Proc, NEW m \in sent, Deliver(p, m) PROVE CausalInv'
  BY <1>4, StepDeliver
<1>5. ASSUME NEW p \in Proc, Write(p) \/ Stop(p) PROVE CausalInv'
  BY <1>1, <1>5 DEF Write, Stop
<1>6. CASE UNCHANGED vars
  BY <1>1, <1>6 DEF vars
<1> QED BY <1>2, <1>3, <1>4, <1>5, <1>6 DEF Next

-----------------------------------------------------------------------------
\* What localized causal broadcast promises is transitive: a cause of a cause that
\* processes wait for is itself in the list of causes of the message (send_lcb copies
\* the clock of all that the process has delivered).
THEOREM CausesOfCausesCorrect == Spec => []CausesOfCauses
<1>1. CausalInv => CausesOfCauses
  BY DEF CausalInv
<1> QED BY CausalInit, CausalStep, <1>1, PTL DEF Spec
=============================================================================
