--------------------------- MODULE MCPerfectLink ----------------------------
(***************************************************************************)
(* Values for the constants of PerfectLink.                                *)
(***************************************************************************)
EXTENDS PerfectLink, TLC

CONSTANTS t1, t2    \* two sender threads

MCThreads == {t1, t2}
MCThreadSymmetry == Permutations(MCThreads)

Link(i, s, d) == [id |-> i, src |-> s, dst |-> d]

\* One message from its broadcaster and from a relay: two packets with the same
\* seen_id at one receiver.
MCRelay == {Link("a", 1, 3), Link("a", 2, 3)}

\* One message from process 1 to two others.
MCBroadcast == {Link("a", 1, 2), Link("a", 1, 3)}

\* Two messages on one link.
MCTwoMessages == {Link("a", 1, 2), Link("b", 1, 2)}
=============================================================================
