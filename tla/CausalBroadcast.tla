-------------------------- MODULE CausalBroadcast --------------------------
(***************************************************************************)
(* What localized causal broadcast promises to its user: the lines "b" and *)
(* "d" of a process.  The causes of a message are fixed before its line    *)
(* "b" is written: they are the messages its sender has delivered by then, *)
(* and the sender's own earlier ones.  A process delivers a message once,  *)
(* after those causes of it whose senders are in the list of dependencies  *)
(* of its sender and in their own, and writes the line before it delivers  *)
(* another one.  The messages of a process that is not in its own list are *)
(* delivered in any order, and nobody waits for a particular one.          *)
(***************************************************************************)
EXTENDS Naturals

CONSTANTS Proc,  \* the processes
          Deps   \* Deps[p]: the processes p depends on

VARIABLES started,    \* started[p]: messages that p has begun to broadcast
          preparing,  \* preparing[p]: the message whose causes p has fixed (0 or 1)
          sent,       \* the messages broadcast so far
          delivered,  \* delivered[p]: the messages that p has delivered
          written,    \* written[p]: those for which p has written a line
          lines,      \* lines[p]: how many lines these are
          up          \* up[p]: process p has not stopped

vars == <<started, preparing, sent, delivered, written, lines, up>>

Id(m) == [orig |-> m.orig, seq |-> m.seq]
Ids(S) == {Id(m) : m \in S}
Own(p, n) == {[orig |-> p, seq |-> s] : s \in 1 .. n}

\* The causes of a message that every process waits for.
Causes(m) == {x \in m.past : x.orig \in Deps[m.orig] /\ x.orig \in Deps[x.orig]}

-----------------------------------------------------------------------------
Init ==
  /\ started = [p \in Proc |-> 0]
  /\ preparing = [p \in Proc |-> {}]
  /\ sent = {}
  /\ delivered = [p \in Proc |-> {}]
  /\ written = [p \in Proc |-> {}]
  /\ lines = [p \in Proc |-> 0]
  /\ up = [p \in Proc |-> TRUE]

\* Fix the causes of the next message.
Begin(p) ==
  /\ up[p]
  /\ preparing[p] = {}
  /\ started' = [started EXCEPT ![p] = @ + 1]
  /\ preparing' = [preparing EXCEPT ![p] =
       {[orig |-> p, seq |-> started[p] + 1, past |-> Ids(delivered[p]) \cup Own(p, started[p])]}]
  /\ UNCHANGED <<sent, delivered, written, lines, up>>

Broadcast(p, m) ==
  /\ up[p]
  /\ m \in preparing[p]
  /\ sent' = sent \cup {m}
  /\ preparing' = [preparing EXCEPT ![p] = {}]
  /\ UNCHANGED <<started, delivered, written, lines, up>>

Deliver(p, m) ==
  /\ up[p]
  /\ m \in sent \ delivered[p]
  /\ written[p] = delivered[p]
  /\ Causes(m) \subseteq Ids(written[p])
  /\ delivered' = [delivered EXCEPT ![p] = @ \cup {m}]
  /\ UNCHANGED <<started, preparing, sent, written, lines, up>>

\* Write the line of the last delivery.
Write(p) ==
  /\ up[p]
  /\ written[p] # delivered[p]
  /\ written' = [written EXCEPT ![p] = delivered[p]]
  /\ lines' = [lines EXCEPT ![p] = @ + 1]
  /\ UNCHANGED <<started, preparing, sent, delivered, up>>

Stop(p) ==
  /\ up[p]
  /\ up' = [up EXCEPT ![p] = FALSE]
  /\ UNCHANGED <<started, preparing, sent, delivered, written, lines>>

Next ==
  \E p \in Proc :
    \/ Begin(p)
    \/ \E m \in preparing[p] : Broadcast(p, m)
    \/ \E m \in sent : Deliver(p, m)
    \/ Write(p)
    \/ Stop(p)

Spec == Init /\ [][Next]_vars

-----------------------------------------------------------------------------
Begun == sent \cup UNION {preparing[p] : p \in Proc}

\* Causality is transitive along the lists of dependencies: whatever a process waits for
\* before a cause of a message is a cause of that message, too.
CausesOfCauses ==
  \A m, n \in Begun : Id(n) \in m.past => Causes(n) \subseteq m.past
=============================================================================
