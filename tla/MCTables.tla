------------------------------ MODULE MCTables ------------------------------
(***************************************************************************)
(* Values for the constants of Tables.                                     *)
(***************************************************************************)
EXTENDS Tables

CONSTANT sender    \* a sender thread

\* The first blocks have 4 and 2 entries; id 8, at the limit, needs two growths, of
\* which the second has two entries that memset clears, 8 and 9; id 17 is beyond what
\* two growths can give.  Memory that is not initialised holds what an entry that was
\* written holds, the worst there is.
MCIds == {0, 1, 2, 3, 4, 8, 17}
MCFresh == {1}
=============================================================================
