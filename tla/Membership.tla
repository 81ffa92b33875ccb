----------------------------- MODULE Membership -----------------------------
(***************************************************************************)
(* The parser of the membership file (src/parser.c), which fills the       *)
(* address book (src/addrbook.c) and the lists of dependencies             *)
(* (src/dependencies.c) before any thread starts.                          *)
(*                                                                         *)
(* A line of the file is a sequence of words.  A word is the number that   *)
(* atoi makes of it; NoNumber is one that is no number, and 0 is the line  *)
(* break when strtok sees it as a word: alone, or after a blank.  Words    *)
(* have one character, as the pids below 10.  An access outside an array   *)
(* is undefined: the behaviour ends there, with overrun = TRUE.            *)
(*                                                                         *)
(* An empty file ends in the same error as one that names no processes.    *)
(* What a first line has beyond the buffer is the next line: fgets cuts    *)
(* it from there on as it cuts a line.                                     *)
(*                                                                         *)
(* taken is a history variable, for the properties only.                   *)
(***************************************************************************)
EXTENDS Integers, Sequences, FiniteSets, SequencesExt

CONSTANTS LINE_MAX_LENGTH,  \* size of the buffer given to fgets
          Files             \* bound: the files, [num_proc, lines]

NoNumber == -1
Word == Nat \cup {NoNumber}

ASSUME MembershipAssumption ==
  /\ LINE_MAX_LENGTH \in Nat /\ LINE_MAX_LENGTH > 2
  /\ \A f \in Files : /\ f.num_proc \in Nat
                      /\ f.lines \in Seq(Seq(Word) \ {<<>>})
                      /\ \A i \in DOMAIN f.lines : \A j \in DOMAIN f.lines[i] :
                           f.lines[i][j] = 0 => j = Len(f.lines[i])

VARIABLES file,          \* the membership file
          lines_read,    \* how many of its lines, after the first, fgets has returned
          parts_read,    \* how many parts of the line after those
          parser,        \* where parse_membership_args is
          line_counter,  \* its counter, in both loops
          address_book,  \* address_book[p]: entry p - 1 of the array
          dependencies,  \* dependencies[p]: the list of p
          taken,         \* what fgets has returned to the loop over the dependencies
          overrun        \* memory outside an array was used

vars == <<file, lines_read, parts_read, parser, line_counter, address_book, dependencies,
          taken, overrun>>

num_proc == file.num_proc
Proc == 1 .. num_proc

\* An entry: the address and the port, which is 0 for a word that is no number.  calloc
\* leaves zeros in it.
Entry(words) == <<words[2], IF words[3] = NoNumber THEN 0 ELSE words[3]>>
NoAddress == <<0, 0>>

\* fgets returns at most this many characters.
CapacityOneLess == LINE_MAX_LENGTH - 2                           \* Mutant
Capacity == LINE_MAX_LENGTH - 1

\* The characters of a line: one for each word and one after it, a blank or the line
\* break; a last word 0 is itself the line break.
Chars(line) == IF line[Len(line)] = 0 THEN 2 * Len(line) - 1 ELSE 2 * Len(line)

\* The words that begin in the k-th part of a line.  A part without one holds the
\* line break only.
Part(line, k) ==
  LET first == ((k - 1) * Capacity + 1) \div 2 + 1
      last == IF (k * Capacity + 1) \div 2 < Len(line) THEN (k * Capacity + 1) \div 2 ELSE Len(line)
  IN IF first > last THEN <<0>> ELSE SubSeq(line, first, last)

\* fgets returns the next part of the line: the whole of it, if the buffer holds it.
Unread == Part(file.lines[lines_read + 1], parts_read + 1)
Fgets ==
  /\ lines_read < Len(file.lines)
  /\ IF (parts_read + 1) * Capacity < Chars(file.lines[lines_read + 1])
       THEN parts_read' = parts_read + 1 /\ UNCHANGED lines_read
       ELSE parts_read' = 0 /\ lines_read' = lines_read + 1

IsPid(word) == word \notin {0, NoNumber}
Fails == parser' = "error" /\ UNCHANGED <<line_counter, address_book, dependencies, overrun>>

-----------------------------------------------------------------------------
Init ==
  /\ file \in Files
  /\ lines_read = 0
  /\ parts_read = 0
  /\ parser = "header"
  /\ line_counter = 0
  /\ address_book = <<>>
  /\ dependencies = <<>>
  /\ taken = <<>>
  /\ overrun = FALSE

\* The first line: the number of processes, and the address book for them.
ReadHeader ==
  /\ parser = "header"
  /\ IF num_proc = 0 THEN parser' = "error" /\ UNCHANGED address_book
                     ELSE /\ parser' = "addresses"
                          /\ address_book' = [p \in Proc |-> NoAddress]
  /\ UNCHANGED <<file, lines_read, parts_read, line_counter, dependencies, taken, overrun>>

\* One line in a loop over the processes.
NextLine(loop) ==
  /\ parser = loop
  /\ ~overrun
  /\ line_counter < num_proc
  /\ Fgets

LoopEnds(loop) ==
  /\ parser = loop
  /\ ~overrun
  /\ line_counter = num_proc \/ lines_read = Len(file.lines)

\* add_entry lets one pid too many through.
RefusesNone(pid) == FALSE                                        \* Mutant
RefusedEntry(pid) == pid > num_proc + 1

\* An address: three words, of which the first is a pid and the second an address.
ReadAddress ==
  /\ NextLine("addresses")
  /\ LET words == Unread IN
     IF \/ Len(words) < 3
        \/ ~IsPid(words[1]) \/ ~IsPid(words[2])
        \/ RefusedEntry(words[1])
       THEN Fails
       ELSE /\ line_counter' = line_counter + 1
            /\ IF words[1] \in Proc
                 THEN /\ address_book' = [address_book EXCEPT ![words[1]] = Entry(words)]
                      /\ UNCHANGED overrun
                 ELSE /\ overrun' = TRUE
                      /\ UNCHANGED address_book
            /\ UNCHANGED <<parser, dependencies>>
  /\ UNCHANGED <<file, taken>>

\* alloc_dependencies: every list is empty.
EndAddresses ==
  /\ LoopEnds("addresses")
  /\ parser' = "dependencies"
  /\ line_counter' = 0
  /\ dependencies' = [p \in Proc |-> <<>>]
  /\ UNCHANGED <<file, lines_read, parts_read, address_book, taken, overrun>>

\* The words after the first, up to one that is no number: they go to dep_pid_buf.  A
\* line break is skipped; nothing follows it.
UpTo(words, ends) == SubSeq(words, 2, (CHOOSE i \in ends : \A j \in ends : i <= j) - 1)
PidsAndBreak(words) ==                                           \* Mutant
  UpTo(words, {i \in 2 .. Len(words) + 1 : i = Len(words) + 1 \/ words[i] = NoNumber})
Pids(words) ==
  UpTo(words, {i \in 2 .. Len(words) + 1 : i = Len(words) + 1 \/ ~IsPid(words[i])})

\* set_dependencies: the list replaces what the process has.
SetMerged(p, list) == [dependencies EXCEPT ![p] = @ \o list]     \* Mutant
SetDependencies(p, list) == [dependencies EXCEPT ![p] = list]

\* get_dependencies knows the process.
Knows(pid) == pid <= num_proc

\* The dependencies of a process: its pid and theirs.  The buffer has room for as many
\* as there are processes, and the pids in it are not compared with their number.
ReadDependencies ==
  /\ NextLine("dependencies")
  /\ LET words == Unread IN
     IF ~IsPid(words[1]) THEN Fails
     ELSE IF Len(Pids(words)) > num_proc
       THEN /\ overrun' = TRUE
            /\ UNCHANGED <<parser, line_counter, address_book, dependencies>>
     ELSE IF NoNumber \in ToSet(words) \/ ~Knows(words[1]) THEN Fails
     ELSE /\ line_counter' = line_counter + 1
          /\ IF words[1] \in Proc
               THEN /\ dependencies' = SetDependencies(words[1], Pids(words))
                    /\ UNCHANGED overrun
               ELSE /\ overrun' = TRUE
                    /\ UNCHANGED dependencies
          /\ UNCHANGED <<parser, address_book>>
  /\ taken' = Append(taken, Unread)
  /\ UNCHANGED file

EndDependencies ==
  /\ LoopEnds("dependencies")
  /\ parser' = "done"
  /\ UNCHANGED <<file, lines_read, parts_read, line_counter, address_book, dependencies,
                 taken, overrun>>

Next == ReadHeader \/ ReadAddress \/ EndAddresses \/ ReadDependencies \/ EndDependencies

Spec == Init /\ [][Next]_vars

-----------------------------------------------------------------------------
TypeOK ==
  /\ file \in Files
  /\ lines_read \in 0 .. Len(file.lines)
  /\ parts_read \in Nat
  /\ parts_read > 0 => /\ lines_read < Len(file.lines)
                       /\ parts_read * Capacity < Chars(file.lines[lines_read + 1])
  /\ parser \in {"header", "addresses", "dependencies", "done", "error"}
  /\ line_counter \in 0 .. num_proc
  /\ DOMAIN address_book \in {{}, Proc}
  /\ \A p \in DOMAIN address_book : address_book[p] \in Nat \X Nat
  /\ DOMAIN dependencies \in {{}, Proc}
  /\ \A p \in DOMAIN dependencies :
       /\ dependencies[p] \in Seq(Nat \ {0})
       /\ Len(dependencies[p]) <= num_proc
  /\ taken \in Seq(Seq(Word) \ {<<>>})
  /\ overrun \in BOOLEAN

\* A file as src/test_correctness.sh writes it: a line for the address of each process,
\* then one for the dependencies of each process that has any, in any order, none
\* longer than the buffer.
AddressLines == SubSeq(file.lines, 1, num_proc)
DependencyLines == SubSeq(file.lines, num_proc + 1, Len(file.lines))
Listed(words) == IF words[Len(words)] = 0 THEN SubSeq(words, 2, Len(words) - 1)
                                          ELSE Tail(words)
OneEach(lines) == \A i, j \in DOMAIN lines : lines[i][1] = lines[j][1] => i = j
WellFormed ==
  /\ num_proc > 0
  /\ Len(file.lines) \in num_proc .. 2 * num_proc
  /\ OneEach(AddressLines) /\ OneEach(DependencyLines)
  /\ \A i \in DOMAIN file.lines : Chars(file.lines[i]) < LINE_MAX_LENGTH
  /\ \A i \in DOMAIN AddressLines :
       /\ Len(AddressLines[i]) = 3
       /\ AddressLines[i][1] \in Proc /\ IsPid(AddressLines[i][2]) /\ IsPid(AddressLines[i][3])
  /\ \A i \in DOMAIN DependencyLines :
       /\ ToSet(DependencyLines[i]) \subseteq Proc \cup {0}
       /\ DependencyLines[i][1] \in Proc
       /\ Len(Listed(DependencyLines[i])) <= num_proc

\* A well-formed file is never refused and never leads outside an array, and the parser
\* ends with the address of every process and with the dependencies that the file has
\* for it, none for a process without a line (parser.c:79-169, fgets in parts).
WellFormedIsParsed ==
  WellFormed =>
    /\ parser # "error"
    /\ ~overrun
    /\ parser = "done" =>
         /\ \A i \in DOMAIN AddressLines :
              address_book[AddressLines[i][1]] = Tail(AddressLines[i])
         /\ \A p \in Proc :
              \/ /\ dependencies[p] = <<>>
                 /\ \A i \in DOMAIN DependencyLines : DependencyLines[i][1] # p
              \/ \E i \in DOMAIN DependencyLines :
                   /\ DependencyLines[i][1] = p
                   /\ dependencies[p] = Listed(DependencyLines[i])

\* However the lines of a file are cut, memory outside the address book, the lists and
\* the buffer of pids is used in two cases only: an address with the pid that add_entry
\* lets through, or a line with more pids than the buffer and the pid before them take
\* (addrbook.c:56, parser.c:145-161, dependencies.c:195-200).
StaysInside ==
  overrun => \E i \in DOMAIN file.lines :
    LET words == file.lines[i] IN
       \/ parser = "addresses" /\ num_proc + 1 \in ToSet(words)
       \/ parser = "dependencies" /\ Cardinality({j \in DOMAIN words : IsPid(words[j])}) > num_proc + 1

\* The list of a process is what the last line read for it says, whatever a line before
\* it said, or the line cut in two: the parts of it since the addresses were read
\* (set_dependencies, dependencies.c:160-183).
LastLineWins ==
  parser \in {"dependencies", "done"} /\ ~overrun =>
    LET linesOf(p) == {i \in DOMAIN taken : taken[i][1] = p}
    IN \A p \in Proc :
         \/ linesOf(p) = {} /\ dependencies[p] = <<>>
         \/ \E i \in linesOf(p) : /\ \A j \in linesOf(p) : j <= i
                                  /\ dependencies[p] = Pids(taken[i])
=============================================================================
