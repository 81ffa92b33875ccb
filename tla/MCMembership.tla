---------------------------- MODULE MCMembership ----------------------------
(***************************************************************************)
(* Small instance of Membership.  The buffer holds three words, the blanks *)
(* between them, a blank at the end and the line break, or four words and  *)
(* no line break; like the program's its size is even.                     *)
(***************************************************************************)
EXTENDS Membership

\* Addresses, lists of dependencies, one that just fits and ends in a blank, four lines
\* that are too long, a pid that is too high, an empty line and a word that is no number.
SomeLines == {<<1, 9, 5>>, <<2, 8, 6>>, <<3, 9, 7>>, <<4, 9, 8>>, <<1>>, <<2, 1>>, <<1, 2, 1, 0>>,
              <<1, 2, 0>>, <<3, 1>>, <<2, 1, 2, 1>>, <<2, 1, 2, 1, 3, 1>>, <<1, 9, 5, 7, 2, 9, 6>>,
              <<0>>, <<1, NoNumber>>, <<1, 9, NoNumber, 7, 2, 9, 6>>}

UpTo3 == UNION {[1 .. n -> SomeLines] : n \in 0 .. 3}

\* Any three lines or fewer for at most two processes and, for two and three, the
\* addresses followed by any three lines or fewer.
Addresses2 == <<<<2, 8, 6>>, <<1, 9, 5>>>>
Addresses3 == <<<<2, 8, 6>>, <<3, 9, 7>>, <<1, 9, 5>>>>
MCFiles ==
  [num_proc : 0 .. 2, lines : UpTo3]
    \cup {[num_proc |-> 2, lines |-> Addresses2 \o d] : d \in UpTo3}
    \cup {[num_proc |-> 3, lines |-> Addresses3 \o d] : d \in UpTo3}
=============================================================================
