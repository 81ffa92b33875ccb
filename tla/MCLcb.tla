------------------------------- MODULE MCLcb --------------------------------
(***************************************************************************)
(* Values for the constants of Lcb.                                        *)
(***************************************************************************)
EXTENDS Lcb

MCOneEach == [p \in 1 .. N |-> 1]
MCTwoAndOne == [p \in 1 .. N |-> IF p = 1 THEN 2 ELSE 1]
MCThreeAndNone == [p \in 1 .. N |-> IF p = 1 THEN 3 ELSE 0]
MCThreeAndOne == [p \in 1 .. N |-> IF p = 1 THEN 3 ELSE 1]

\* Membership files: everybody depends on itself; everybody on process 1, which leaves
\* process 2 out of its own list; process 1 on process 2.
MCSelfDeps == [p \in 1 .. N |-> {p}]
MCAllOnOne == [p \in 1 .. N |-> {1}]
MCOneOnTwo == [p \in 1 .. N |-> IF p = 1 THEN {2} ELSE {}]
=============================================================================
