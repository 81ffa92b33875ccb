-------------------------- MODULE MembershipProofs --------------------------
(***************************************************************************)
(* The parser of the membership file, for every file and every size of the *)
(* buffer: types, the arrays, what a file means to it however its lines    *)
(* are cut, and that a well-formed file is read as it is meant.            *)
(***************************************************************************)
EXTENDS Membership, FiniteSetTheorems, WellFoundedInduction, TLAPS

Line == Seq(Word) \ {<<>>}

-----------------------------------------------------------------------------
(* The operators on lines.                                                 *)

\* Every set of natural numbers but the empty one has a least element.
LEMMA Least ==
  ASSUME NEW S \in SUBSET Nat, S # {}
  PROVE  \E n \in S : \A m \in S : n <= m
<1> DEFINE R == OpToRel(<, Nat)
<1>1. IsWellFoundedOn(R, Nat)
  BY NatLessThanWellFounded
<1> HIDE DEF R
<1>2. PICK n \in S : \A m \in S : <<m, n>> \notin R
  BY <1>1, WFMin
<1>3. \A m, k \in Nat : m < k => <<m, k>> \in R
  BY DEF R, OpToRel
<1>4. \A m \in S : ~(m < n)
  BY <1>2, <1>3
<1> QED BY <1>4

LEMMA CapacityType == Capacity \in Nat /\ Capacity > 1
  BY MembershipAssumption DEF Capacity

\* Half of a number, as the prover divides.
LEMMA Half ==
  ASSUME NEW x \in Nat
  PROVE  (x + 1) \div 2 \in Nat /\ x <= 2 * ((x + 1) \div 2) /\ 2 * ((x + 1) \div 2) <= x + 1
  OBVIOUS

\* What the file is made of.
LEMMA FileFacts ==
  ASSUME file \in Files
  PROVE  /\ num_proc \in Nat
         /\ file.lines \in Seq(Line)
         /\ \A i \in 1 .. Len(file.lines) :
              /\ file.lines[i] \in Line
              /\ \A j \in 1 .. Len(file.lines[i]) :
                   /\ file.lines[i][j] \in Word
                   /\ file.lines[i][j] = 0 => j = Len(file.lines[i])
  BY MembershipAssumption DEF num_proc, Line

LEMMA CharsType ==
  ASSUME NEW line \in Line
  PROVE  /\ Len(line) \in Nat /\ Len(line) > 0
         /\ Chars(line) \in Nat
         /\ 2 * Len(line) - 1 <= Chars(line) /\ Chars(line) <= 2 * Len(line)
  BY DEF Line, Chars

\* A part of a line is a line: a stretch of it, or the line break alone.
LEMMA PartFacts ==
  ASSUME NEW line \in Line, NEW k \in Nat \ {0}
  PROVE  /\ Part(line, k) \in Line
         /\ \/ Part(line, k) = <<0>>
            \/ \E first, last \in 1 .. Len(line) :
                 first <= last /\ Part(line, k) = SubSeq(line, first, last)
<1> DEFINE x == (k - 1) * Capacity
           y == k * Capacity
<1>1. x \in Nat /\ y \in Nat
  BY CapacityType
<1>2. PICK n \in Nat : n = Len(line) /\ n > 0
  BY CharsType
<1>3. PICK first \in Nat : first = (x + 1) \div 2 + 1 /\ first > 0
  BY <1>1, Half
<1>4. PICK last \in Nat : last = (IF (y + 1) \div 2 < n THEN (y + 1) \div 2 ELSE n) /\ last <= n
  BY <1>1, <1>2, Half
<1>5. Part(line, k) = IF first > last THEN <<0>> ELSE SubSeq(line, first, last)
  BY <1>2, <1>3, <1>4 DEF Part
<1>6. CASE first > last
  BY <1>5, <1>6 DEF Line, Word
<1>7. CASE ~(first > last)
  <2>1. first \in 1 .. n /\ last \in 1 .. n /\ first <= last
    BY <1>2, <1>3, <1>4, <1>7
  <2>2. Part(line, k) = SubSeq(line, first, last)
    BY <1>5, <1>7
  <2>3. SubSeq(line, first, last) \in Seq(Word) /\ Len(SubSeq(line, first, last)) = last - first + 1
    BY <1>2, <2>1 DEF Line
  <2>4. PICK s : s = SubSeq(line, first, last)
    OBVIOUS
  <2>5. s # <<>>
    <3>1. s \in Seq(Word) /\ Len(s) = last - first + 1 /\ last - first + 1 > 0
      BY <2>1, <2>3, <2>4
    <3> QED BY <2>1, <3>1
  <2>6. SubSeq(line, first, last) \in Line
    BY <2>3, <2>4, <2>5 DEF Line
  <2> QED BY <1>2, <2>1, <2>2, <2>6
<1> QED BY <1>6, <1>7

\* The first part of a line that the buffer holds is the line.
LEMMA PartWhole ==
  ASSUME NEW line \in Line, Chars(line) < LINE_MAX_LENGTH
  PROVE  Part(line, 1) = line
<1>1. PICK n \in Nat : n = Len(line) /\ n > 0 /\ 2 * n - 1 <= Capacity
  BY CharsType, MembershipAssumption DEF Capacity
<1>2. (1 - 1) * Capacity = 0 /\ 1 * Capacity = Capacity
  BY CapacityType
<1>3. (0 + 1) \div 2 = 0 /\ n <= (Capacity + 1) \div 2
  BY <1>1, CapacityType, Half
<1> DEFINE first == ((1 - 1) * Capacity + 1) \div 2 + 1
           last == IF (1 * Capacity + 1) \div 2 < n THEN (1 * Capacity + 1) \div 2 ELSE n
<1>4. Part(line, 1) = IF first > last THEN <<0>> ELSE SubSeq(line, first, last)
  BY <1>1 DEF Part
<1>5. first = 1 /\ last = n
  BY <1>1, <1>2, <1>3, CapacityType
<1> HIDE DEF first, last
<1> QED BY <1>1, <1>4, <1>5 DEF Line

\* The pids of a line are its words after the first, up to a word that is no pid.
LEMMA PidsFacts ==
  ASSUME NEW words \in Line
  PROVE  \E e \in 2 .. Len(words) + 1 :
           /\ Pids(words) = SubSeq(words, 2, e - 1)
           /\ e = Len(words) + 1 \/ ~IsPid(words[e])
           /\ \A j \in 2 .. e - 1 : IsPid(words[j])
<1>1. PICK n \in Nat : n = Len(words) /\ n > 0
  BY CharsType
<1> DEFINE ends == {i \in 2 .. n + 1 : i = n + 1 \/ ~IsPid(words[i])}
           e == CHOOSE i \in ends : \A j \in ends : i <= j
<1>2. ends \in SUBSET Nat /\ n + 1 \in ends
  BY <1>1
<1>3. \E i \in ends : \A j \in ends : i <= j
  BY <1>2, Least
<1>4. e \in ends /\ \A j \in ends : e <= j
  BY <1>3
<1>5. Pids(words) = SubSeq(words, 2, e - 1)
  BY <1>1 DEF Pids, UpTo
<1>6. \A j \in 2 .. e - 1 : IsPid(words[j])
  <2> SUFFICES ASSUME NEW j \in 2 .. e - 1, ~IsPid(words[j]) PROVE FALSE
    OBVIOUS
  <2>1. j \in ends /\ j < e
    BY <1>1, <1>4
  <2> QED BY <1>1, <1>4, <2>1
<1> QED BY <1>1, <1>4, <1>5, <1>6

LEMMA PidsType ==
  ASSUME NEW words \in Line
  PROVE  /\ Pids(words) \in Seq(Nat \ {0})
         /\ Len(Pids(words)) < Len(words)
         /\ \A j \in 2 .. Len(Pids(words)) + 1 : IsPid(words[j])
<1>1. PICK n \in Nat : n = Len(words) /\ n > 0
  BY CharsType
<1>2. PICK e \in 2 .. n + 1 : /\ Pids(words) = SubSeq(words, 2, e - 1)
                              /\ \A j \in 2 .. e - 1 : IsPid(words[j])
  BY <1>1, PidsFacts
<1>3. words \in Seq(Word)
  BY DEF Line
<1>4. /\ Len(Pids(words)) = e - 2
      /\ \A i \in 1 .. e - 2 : Pids(words)[i] = words[i + 1]
      /\ Pids(words) \in Seq(Word)
  BY <1>1, <1>2, <1>3
<1>5. \A i \in 1 .. e - 2 : Pids(words)[i] \in Nat \ {0}
  BY <1>1, <1>2, <1>3, <1>4 DEF IsPid, Word, NoNumber
<1>6. Pids(words) \in Seq(Nat \ {0})
  BY <1>1, <1>4, <1>5
<1> QED BY <1>1, <1>2, <1>4, <1>6

\* In a line of pids, they are all that is listed.
LEMMA PidsListed ==
  ASSUME NEW words \in Line, IsPid(words[1]),
         \A j \in 1 .. Len(words) : /\ words[j] # NoNumber
                                    /\ words[j] = 0 => j = Len(words)
  PROVE  Pids(words) = Listed(words)
<1>1. PICK n \in Nat : n = Len(words) /\ n > 0
  BY CharsType
<1>2. PICK e \in 2 .. n + 1 : /\ Pids(words) = SubSeq(words, 2, e - 1)
                              /\ e = n + 1 \/ ~IsPid(words[e])
                              /\ \A j \in 2 .. e - 1 : IsPid(words[j])
  BY <1>1, PidsFacts
<1>3. CASE words[n] = 0
  <2>1. n > 1 /\ e = n
    BY <1>1, <1>2, <1>3 DEF IsPid, NoNumber
  <2> QED BY <1>1, <1>2, <1>3, <2>1 DEF Listed
<1>4. CASE words[n] # 0
  <2>1. e = n + 1
    BY <1>1, <1>2, <1>4 DEF IsPid
  <2>2. Tail(words) = SubSeq(words, 2, n)
    BY <1>1 DEF Line
  <2> QED BY <1>1, <1>2, <1>4, <2>1, <2>2 DEF Listed
<1> QED BY <1>3, <1>4

-----------------------------------------------------------------------------
(* The types, for every file and every size of the buffer.                 *)

ReadTypes ==
  /\ lines_read \in 0 .. Len(file.lines)
  /\ parts_read \in Nat
  /\ parts_read > 0 => /\ lines_read < Len(file.lines)
                       /\ parts_read * Capacity < Chars(file.lines[lines_read + 1])

\* What fgets returns is a part of a line of the file.
LEMMA FgetsFacts ==
  ASSUME TypeOK, Fgets, file' = file
  PROVE  /\ lines_read + 1 \in 1 .. Len(file.lines)
         /\ file.lines[lines_read + 1] \in Line
         /\ Unread = Part(file.lines[lines_read + 1], parts_read + 1)
         /\ Unread \in Line
         /\ \A j \in 1 .. Len(Unread) : Unread[j] \in Word
         /\ \/ Unread = <<0>>
            \/ \E first, last \in 1 .. Len(file.lines[lines_read + 1]) :
                 /\ first <= last
                 /\ Unread = SubSeq(file.lines[lines_read + 1], first, last)
         /\ ReadTypes'
<1>1. PICK n \in Nat : n = Len(file.lines) /\ lines_read \in 0 .. n /\ lines_read < n
  BY FileFacts DEF TypeOK, Fgets
<1>2. lines_read + 1 \in 1 .. Len(file.lines) /\ parts_read \in Nat
  BY <1>1 DEF TypeOK
<1>3. PICK line \in Line : line = file.lines[lines_read + 1]
  BY <1>2, FileFacts DEF TypeOK
<1>4. Unread = Part(line, parts_read + 1) /\ parts_read + 1 \in Nat \ {0}
  BY <1>2, <1>3 DEF Unread
<1>5. /\ Unread \in Line
      /\ \/ Unread = <<0>>
         \/ \E first, last \in 1 .. Len(line) :
              first <= last /\ Unread = SubSeq(line, first, last)
  BY <1>4, PartFacts
<1>6. \A j \in 1 .. Len(Unread) : Unread[j] \in Word
  BY <1>5 DEF Line
<1>7. ReadTypes'
  BY <1>1, <1>2, <1>3 DEF Fgets, ReadTypes, Capacity, Chars
<1> QED BY <1>2, <1>3, <1>4, <1>5, <1>6, <1>7

LEMMA EntryType ==
  ASSUME NEW words, IsPid(words[2]), words[2] \in Word, words[3] \in Word
  PROVE  Entry(words) \in Nat \X Nat
  BY DEF Entry, IsPid, Word, NoNumber

LEMMA InitType == Init => TypeOK
<1> SUFFICES ASSUME Init PROVE TypeOK
  OBVIOUS
<1>1. num_proc \in Nat /\ Len(file.lines) \in Nat
  BY FileFacts DEF Init
<1>2. DOMAIN address_book = {} /\ DOMAIN dependencies = {}
  BY DEF Init
<1>3. taken \in Seq(Seq(Word) \ {<<>>})
  BY DEF Init
<1>4. /\ \A p \in DOMAIN address_book : address_book[p] \in Nat \X Nat
      /\ \A p \in DOMAIN dependencies : /\ dependencies[p] \in Seq(Nat \ {0})
                                        /\ Len(dependencies[p]) <= num_proc
  BY <1>2
<1>5. /\ file \in Files /\ lines_read = 0 /\ parts_read = 0 /\ parser = "header"
      /\ line_counter = 0 /\ overrun = FALSE
  BY DEF Init
<1>6. /\ lines_read \in 0 .. Len(file.lines) /\ line_counter \in 0 .. num_proc
      /\ parts_read \in Nat /\ ~(parts_read > 0)
      /\ parser \in {"header", "addresses", "dependencies", "done", "error"}
  BY <1>1, <1>5
<1>7. DOMAIN address_book \in {{}, Proc} /\ DOMAIN dependencies \in {{}, Proc}
  BY <1>2
<1>8. overrun \in BOOLEAN
  BY <1>5
<1> QED BY <1>3, <1>4, <1>5, <1>6, <1>7, <1>8 DEF TypeOK

LEMMA ReadHeaderType ==
  ASSUME TypeOK, ReadHeader
  PROVE  TypeOK'
<1>1. /\ UNCHANGED <<file, lines_read, parts_read, line_counter, dependencies, taken, overrun>>
      /\ parser' \in {"addresses", "error"}
      /\ address_book' = address_book \/ address_book' = [p \in Proc |-> NoAddress]
  BY DEF ReadHeader
<1>2. /\ num_proc' = num_proc /\ Proc' = Proc
  BY <1>1 DEF num_proc, Proc
<1>3. DOMAIN address_book' \in {{}, Proc} /\ \A p \in DOMAIN address_book' : address_book'[p] \in Nat \X Nat
  BY <1>1 DEF TypeOK, NoAddress
<1> QED BY <1>1, <1>2, <1>3 DEF TypeOK, Capacity, Chars

LEMMA ReadAddressType ==
  ASSUME TypeOK, ReadAddress
  PROVE  TypeOK'
<1>1. /\ UNCHANGED <<file, taken, dependencies>>
      /\ num_proc' = num_proc /\ Proc' = Proc
      /\ parser' \in {"addresses", "error"}
      /\ overrun' \in BOOLEAN
  BY DEF ReadAddress, NextLine, Fails, num_proc, Proc, TypeOK
<1>2. ReadTypes' /\ Unread \in Line /\ \A j \in 1 .. Len(Unread) : Unread[j] \in Word
  BY <1>1, FgetsFacts DEF ReadAddress, NextLine
<1>3. line_counter' \in 0 .. num_proc
  <2>1. num_proc \in Nat /\ line_counter \in 0 .. num_proc /\ line_counter < num_proc
    BY FileFacts DEF TypeOK, ReadAddress, NextLine
  <2>2. line_counter' = line_counter \/ line_counter' = line_counter + 1
    BY DEF ReadAddress, Fails
  <2> QED BY <2>1, <2>2
<1>4. DOMAIN address_book' \in {{}, Proc} /\ \A p \in DOMAIN address_book' : address_book'[p] \in Nat \X Nat
  <2>1. CASE address_book' = address_book
    BY <2>1 DEF TypeOK
  <2>2. CASE address_book' # address_book
    <3>1. /\ address_book' = [address_book EXCEPT ![Unread[1]] = Entry(Unread)]
          /\ ~(Len(Unread) < 3) /\ IsPid(Unread[2])
      BY <2>2 DEF ReadAddress, Fails
    <3>2. Len(Unread) \in Nat /\ 2 \in 1 .. Len(Unread) /\ 3 \in 1 .. Len(Unread)
      BY <1>2, <3>1 DEF Line
    <3>3. Entry(Unread) \in Nat \X Nat
      BY <1>2, <3>1, <3>2, EntryType
    <3> QED BY <3>1, <3>3 DEF TypeOK
  <2> QED BY <2>1, <2>2
<1> QED BY <1>1, <1>2, <1>3, <1>4 DEF TypeOK, ReadTypes

LEMMA EndAddressesType ==
  ASSUME TypeOK, EndAddresses
  PROVE  TypeOK'
<1>1. /\ UNCHANGED <<file, lines_read, parts_read, address_book, taken, overrun>>
      /\ parser' = "dependencies" /\ line_counter' = 0
      /\ dependencies' = [p \in Proc |-> <<>>]
      /\ num_proc' = num_proc /\ Proc' = Proc /\ num_proc \in Nat
  BY FileFacts DEF EndAddresses, num_proc, Proc, TypeOK
<1>2. /\ DOMAIN dependencies' = Proc
      /\ \A p \in Proc : dependencies'[p] \in Seq(Nat \ {0}) /\ Len(dependencies'[p]) <= num_proc
  BY <1>1
<1>3. line_counter' \in 0 .. num_proc
  BY <1>1
<1> QED BY <1>1, <1>2, <1>3 DEF TypeOK, Capacity, Chars

LEMMA ReadDependenciesType ==
  ASSUME TypeOK, ReadDependencies
  PROVE  TypeOK'
<1>1. /\ UNCHANGED <<file, address_book>>
      /\ num_proc' = num_proc /\ Proc' = Proc
      /\ parser' \in {"dependencies", "error"}
      /\ overrun' \in BOOLEAN
      /\ taken' = Append(taken, Unread)
  BY DEF ReadDependencies, NextLine, Fails, num_proc, Proc, TypeOK
<1>2. ReadTypes' /\ Unread \in Line
  BY <1>1, FgetsFacts DEF ReadDependencies, NextLine
<1>3. line_counter' \in 0 .. num_proc
  <2>1. num_proc \in Nat /\ line_counter \in 0 .. num_proc /\ line_counter < num_proc
    BY FileFacts DEF TypeOK, ReadDependencies, NextLine
  <2>2. line_counter' = line_counter \/ line_counter' = line_counter + 1
    BY DEF ReadDependencies, Fails
  <2> QED BY <2>1, <2>2
<1>4. /\ DOMAIN dependencies' \in {{}, Proc}
      /\ \A p \in DOMAIN dependencies' : /\ dependencies'[p] \in Seq(Nat \ {0})
                                         /\ Len(dependencies'[p]) <= num_proc
  <2>1. CASE dependencies' = dependencies
    BY <2>1 DEF TypeOK
  <2>2. CASE dependencies' # dependencies
    <3>1. /\ dependencies' = [dependencies EXCEPT ![Unread[1]] = Pids(Unread)]
          /\ ~(Len(Pids(Unread)) > num_proc)
      BY <2>2 DEF ReadDependencies, SetDependencies, Fails
    <3>2. Pids(Unread) \in Seq(Nat \ {0})
      BY <1>2, PidsType
    <3>3. Len(Pids(Unread)) <= num_proc
      BY <3>1, <3>2, FileFacts DEF TypeOK
    <3> QED BY <3>1, <3>2, <3>3 DEF TypeOK
  <2> QED BY <2>1, <2>2
<1>5. taken' \in Seq(Seq(Word) \ {<<>>})
  BY <1>1, <1>2 DEF TypeOK, Line
<1> QED BY <1>1, <1>2, <1>3, <1>4, <1>5 DEF TypeOK, ReadTypes

LEMMA TypeStep == TypeOK /\ [Next]_vars => TypeOK'
<1> SUFFICES ASSUME TypeOK, [Next]_vars PROVE TypeOK'
  OBVIOUS
<1>1. CASE EndDependencies
  BY <1>1 DEF EndDependencies, TypeOK, num_proc, Proc, Capacity, Chars
<1>2. CASE UNCHANGED vars
  BY <1>2 DEF vars, TypeOK, num_proc, Proc, Capacity, Chars
<1> QED BY <1>1, <1>2, ReadHeaderType, ReadAddressType, EndAddressesType,
           ReadDependenciesType DEF Next

\* Every variable of the parser has its type, for every membership file: the lists hold
\* pids only, and never more of them than there are processes (parser.c:79-169).
THEOREM TypeCorrect == Spec => []TypeOK
  BY InitType, TypeStep, PTL DEF Spec

-----------------------------------------------------------------------------
(* The two ways out of the arrays.                                         *)

StaysInv == TypeOK /\ StaysInside

\* The words of a part are words of the line.
LEMMA PartWords ==
  ASSUME NEW line \in Line, NEW first \in 1 .. Len(line), NEW last \in 1 .. Len(line),
         first <= last,
         NEW words, words = SubSeq(line, first, last)
  PROVE  /\ Len(words) = last - first + 1
         /\ \A j \in 1 .. Len(words) : words[j] = line[first + j - 1] /\ first + j - 1 \in 1 .. Len(line)
  BY DEF Line

LEMMA FinitePids ==
  ASSUME NEW line \in Line
  PROVE  /\ DOMAIN line = 1 .. Len(line)
         /\ IsFiniteSet({j \in DOMAIN line : IsPid(line[j])})
         /\ Cardinality({j \in DOMAIN line : IsPid(line[j])}) \in Nat
<1> DEFINE all == {j \in DOMAIN line : IsPid(line[j])}
<1>1. DOMAIN line = 1 .. Len(line)
  BY DEF Line
<1>2. Len(line) \in Int
  BY CharsType
<1>3. IsFiniteSet(DOMAIN line)
  BY <1>1, <1>2, FS_Interval
<1>4. all \in SUBSET DOMAIN line
  OBVIOUS
<1> HIDE DEF all
<1>5. IsFiniteSet(all) /\ Cardinality(all) \in Nat
  BY <1>3, <1>4, FS_Subset, FS_CardinalityType
<1> QED BY <1>1, <1>5 DEF all

\* The pids of a part, and the one before them, are pids of the line.
LEMMA PidsInLine ==
  ASSUME NEW line \in Line, NEW first \in 1 .. Len(line), NEW last \in 1 .. Len(line),
         first <= last,
         NEW words \in Line, words = SubSeq(line, first, last), IsPid(words[1])
  PROVE  Cardinality({j \in DOMAIN line : IsPid(line[j])}) >= Len(Pids(words)) + 1
<1> DEFINE all == {j \in DOMAIN line : IsPid(line[j])}
<1>1. PICK len \in Nat : /\ len = Len(Pids(words)) /\ len + 1 <= Len(words)
                         /\ \A j \in 2 .. len + 1 : IsPid(words[j])
  <2>1. Pids(words) \in Seq(Nat \ {0}) /\ Len(Pids(words)) < Len(words)
    BY PidsType
  <2>2. Len(Pids(words)) \in Nat /\ Len(words) \in Nat
    BY <2>1, CharsType
  <2>3. \A j \in 2 .. Len(Pids(words)) + 1 : IsPid(words[j])
    BY PidsType
  <2> QED BY <2>1, <2>2, <2>3
<1>2. \A j \in 1 .. len + 1 : IsPid(words[j])
  BY <1>1
<1>3. \A i \in first .. first + len : i \in all
  <2> SUFFICES ASSUME NEW i \in first .. first + len PROVE i \in all
    OBVIOUS
  <2>1. PICK j \in 1 .. len + 1 : i = first + j - 1
    <3>1. i - first + 1 \in 1 .. len + 1 /\ i = first + (i - first + 1) - 1
      BY <1>1
    <3> QED BY <3>1
  <2>2. j \in 1 .. Len(words)
    BY <1>1, <2>1, CharsType
  <2>3. words[j] = line[i] /\ i \in DOMAIN line
    BY <2>1, <2>2, PartWords, FinitePids
  <2> QED BY <1>2, <2>1, <2>3
<1>4. IsFiniteSet(all) /\ Cardinality(all) \in Nat
  BY FinitePids
<1>5. Cardinality(first .. first + len) = len + 1 /\ first + len \in Int /\ first \in Int
  BY <1>1, FS_Interval
<1>6. Cardinality(all) >= len + 1
  <2>1. first .. first + len \in SUBSET all
    BY <1>3
  <2>2. Cardinality(first .. first + len) <= Cardinality(all)
    BY <1>4, <2>1, FS_Subset
  <2> QED BY <1>1, <1>4, <1>5, <2>2
<1> QED BY <1>1, <1>6

LEMMA ReadAddressStays ==
  ASSUME TypeOK, ReadAddress
  PROVE  StaysInside'
<1> SUFFICES ASSUME overrun' PROVE StaysInside'
  BY DEF StaysInside
<1>1. /\ UNCHANGED file /\ num_proc' = num_proc /\ num_proc \in Nat
      /\ parser' = "addresses"
      /\ ~(Len(Unread) < 3) /\ IsPid(Unread[1])
      /\ ~(Unread[1] > num_proc + 1) /\ Unread[1] \notin Proc
  BY FileFacts DEF TypeOK, ReadAddress, NextLine, Fails, RefusedEntry, num_proc
<1>2. PICK i \in 1 .. Len(file.lines) :
        /\ file.lines[i] \in Line /\ Unread \in Line
        /\ \/ Unread = <<0>>
           \/ \E first, last \in 1 .. Len(file.lines[i]) :
                first <= last /\ Unread = SubSeq(file.lines[i], first, last)
  BY <1>1, FgetsFacts DEF ReadAddress, NextLine
<1>3. PICK first, last \in 1 .. Len(file.lines[i]) :
        first <= last /\ Unread = SubSeq(file.lines[i], first, last)
  <2>1. Len(<<0>>) < 3
    OBVIOUS
  <2>2. Unread # <<0>>
    BY <1>1, <2>1, Zenon
  <2> QED BY <1>2, <2>2
<1>4. 1 \in 1 .. Len(Unread)
  BY <1>2, CharsType
<1>5. Unread[1] = file.lines[i][first]
  BY <1>2, <1>3, <1>4, PartWords
<1>6. Unread[1] = num_proc + 1
  <2>1. Unread[1] \in Word
    BY <1>2, <1>4 DEF Line
  <2> QED BY <1>1, <2>1 DEF Proc, IsPid, Word, NoNumber
<1>7. num_proc + 1 \in ToSet(file.lines[i]) /\ i \in DOMAIN file.lines
  <2>1. file.lines \in Seq(Line)
    BY FileFacts DEF TypeOK
  <2> QED BY <1>2, <1>3, <1>5, <1>6, <2>1 DEF ToSet, Line
<1> QED BY <1>1, <1>7 DEF StaysInside

LEMMA ReadDependenciesStays ==
  ASSUME TypeOK, ReadDependencies
  PROVE  StaysInside'
<1> SUFFICES ASSUME overrun' PROVE StaysInside'
  BY DEF StaysInside
<1>1. /\ UNCHANGED file /\ num_proc' = num_proc /\ num_proc \in Nat
      /\ parser' = "dependencies"
      /\ IsPid(Unread[1])
      /\ Len(Pids(Unread)) > num_proc \/ (Knows(Unread[1]) /\ Unread[1] \notin Proc)
  BY FileFacts DEF TypeOK, ReadDependencies, NextLine, Fails, num_proc
<1>2. PICK i \in 1 .. Len(file.lines) :
        /\ file.lines[i] \in Line /\ Unread \in Line
        /\ \/ Unread = <<0>>
           \/ \E first, last \in 1 .. Len(file.lines[i]) :
                first <= last /\ Unread = SubSeq(file.lines[i], first, last)
  BY <1>1, FgetsFacts DEF ReadDependencies, NextLine
<1>3. PICK first, last \in 1 .. Len(file.lines[i]) :
        first <= last /\ Unread = SubSeq(file.lines[i], first, last)
  BY <1>1, <1>2 DEF IsPid
<1>4. Len(Pids(Unread)) > num_proc
  <2>1. Unread[1] \in Word
    BY <1>2, CharsType DEF Line
  <2> QED BY <1>1, <2>1 DEF Knows, Proc, IsPid, Word, NoNumber
<1>5. Cardinality({j \in DOMAIN file.lines[i] : IsPid(file.lines[i][j])}) >= Len(Pids(Unread)) + 1
  BY <1>1, <1>2, <1>3, PidsInLine
<1>6. Cardinality({j \in DOMAIN file.lines[i] : IsPid(file.lines[i][j])}) > num_proc + 1
  <2>1. Len(Pids(Unread)) \in Nat
    BY <1>2, PidsType
  <2>2. Cardinality({j \in DOMAIN file.lines[i] : IsPid(file.lines[i][j])}) \in Nat
    BY <1>2, FinitePids
  <2> QED BY <1>1, <1>4, <1>5, <2>1, <2>2
<1>7. i \in DOMAIN file.lines
  <2>1. file.lines \in Seq(Line)
    BY FileFacts DEF TypeOK
  <2> QED BY <1>2, <2>1
<1> QED BY <1>1, <1>6, <1>7 DEF StaysInside

LEMMA StaysStep == StaysInv /\ [Next]_vars => StaysInv'
<1> SUFFICES ASSUME StaysInv, [Next]_vars PROVE StaysInv'
  OBVIOUS
<1>1. TypeOK /\ TypeOK'
  BY TypeStep DEF StaysInv
<1>2. CASE ReadHeader
  BY <1>1, <1>2 DEF ReadHeader, StaysInv, StaysInside
<1>3. CASE ReadAddress
  BY <1>1, <1>3, ReadAddressStays DEF StaysInv
<1>4. CASE EndAddresses \/ EndDependencies
  BY <1>1, <1>4 DEF EndAddresses, EndDependencies, LoopEnds, StaysInv, StaysInside
<1>5. CASE ReadDependencies
  BY <1>1, <1>5, ReadDependenciesStays DEF StaysInv
<1>6. CASE UNCHANGED vars
  BY <1>1, <1>6 DEF vars, StaysInv, StaysInside, num_proc
<1> QED BY <1>2, <1>3, <1>4, <1>5, <1>6 DEF Next

\* However a file is cut by a buffer of any size, the parser leaves its arrays in two
\* cases only: the pid one above the number of processes in the address part, and a
\* line of dependencies with more pids than processes (addrbook.c:56, parser.c:145-161,
\* dependencies.c:195-200).
THEOREM StaysInsideArrays == Spec => []StaysInside
<1>1. Init => StaysInv
  BY InitType DEF Init, StaysInv, StaysInside
<1>2. StaysInv => StaysInside
  BY DEF StaysInv
<1> QED BY <1>1, <1>2, StaysStep, PTL DEF Spec

-----------------------------------------------------------------------------
(* What the parser leaves in the lists of dependencies, for every file and *)
(* every size of the buffer: however a file cuts its lines and repeats its *)
(* processes, the last part read for a process decides.                    *)

InLoop == parser \in {"dependencies", "done"} /\ ~overrun

\* Nothing is taken before the lists are allocated.
NotYet ==
  /\ parser \in {"header", "addresses"} => taken = <<>>
  /\ parser \in {"dependencies", "done"} => DOMAIN dependencies = Proc

LastInv == TypeOK /\ NotYet /\ LastLineWins

\* The loop that reads addresses does not touch what the invariant is about.
LEMMA AddressesLast ==
  ASSUME NotYet, ReadHeader \/ ReadAddress
  PROVE  NotYet' /\ LastLineWins'
  BY DEF ReadHeader, ReadAddress, NextLine, Fails, NotYet, LastLineWins

\* The lists are empty before the first line is read.
LEMMA EndAddressesLast ==
  ASSUME NotYet, EndAddresses
  PROVE  NotYet' /\ LastLineWins'
<1>1. /\ taken' = <<>>
      /\ parser' = "dependencies"
      /\ dependencies' = [p \in Proc |-> <<>>]
      /\ Proc' = Proc
  BY DEF NotYet, EndAddresses, LoopEnds, Proc, num_proc
<1>2. NotYet'
  BY <1>1 DEF NotYet
<1>3. LastLineWins'
  BY <1>1 DEF LastLineWins
<1> QED BY <1>2, <1>3

\* A line replaces the list of its process and no other.
LEMMA ReadDependenciesLast ==
  ASSUME TypeOK, NotYet, LastLineWins, ReadDependencies
  PROVE  NotYet' /\ LastLineWins'
<1>1. /\ taken' = Append(taken, Unread)
      /\ parser = "dependencies" /\ ~overrun
      /\ Proc' = Proc
      /\ DOMAIN dependencies' = DOMAIN dependencies
      /\ parser' \in {"dependencies", "error"}
  BY DEF ReadDependencies, NextLine, Fails, SetDependencies, Proc, num_proc
<1>2. NotYet'
  BY <1>1 DEF NotYet
<1>3. LastLineWins'
  <2> SUFFICES ASSUME InLoop' PROVE LastLineWins'
    BY DEF LastLineWins, InLoop
  <2> DEFINE linesOf(p) == {i \in DOMAIN taken : taken[i][1] = p}
  <2>0. PICK source, list : source = Unread[1] /\ list = Pids(Unread)
    OBVIOUS
  <2>1. source \in Proc /\ dependencies' = [dependencies EXCEPT ![source] = list]
    BY <2>0 DEF ReadDependencies, InLoop, Fails, SetDependencies
  <2>2. DOMAIN dependencies = Proc
    BY <1>1 DEF NotYet
  <2>3. PICK n \in Nat : n = Len(taken) /\ DOMAIN taken = 1 .. n
    BY DEF TypeOK
  <2>4. PICK new : new = Append(taken, Unread)
    OBVIOUS
  <2>5. /\ DOMAIN new = 1 .. n + 1
        /\ new[n + 1] = Unread
        /\ \A i \in 1 .. n : new[i] = taken[i]
    <3>1. Unread \in Seq(Word) \ {<<>>}
      <4>1. file' = file
        BY DEF ReadDependencies
      <4> QED BY <4>1, FgetsFacts DEF ReadDependencies, NextLine, Line
    <3> QED BY <2>3, <2>4, <3>1 DEF TypeOK
  <2>6. ASSUME NEW p \in Proc
        PROVE  LET of == {i \in DOMAIN new : new[i][1] = p}
               IN \/ of = {} /\ dependencies'[p] = <<>>
                  \/ \E i \in of : /\ \A j \in of : j <= i
                                   /\ dependencies'[p] = Pids(new[i])
    <3> DEFINE of == {i \in DOMAIN new : new[i][1] = p}
    <3>1. CASE p = source
      <4>1. n + 1 \in of
        BY <2>0, <2>3, <2>5, <3>1
      <4>2. \A j \in of : j <= n + 1
        BY <2>3, <2>5
      <4>3. dependencies'[p] = Pids(new[n + 1])
        BY <2>0, <2>1, <2>2, <2>5, <3>1
      <4> QED BY <4>1, <4>2, <4>3
    <3>2. CASE p # source
      <4>1. of = linesOf(p)
        BY <2>0, <2>3, <2>5, <3>2
      <4>2. dependencies'[p] = dependencies[p]
        BY <2>1, <2>2, <3>2
      <4>3. \/ linesOf(p) = {} /\ dependencies[p] = <<>>
            \/ \E i \in linesOf(p) : /\ \A j \in linesOf(p) : j <= i
                                     /\ dependencies[p] = Pids(taken[i])
        BY <1>1 DEF LastLineWins
      <4>4. \A i \in linesOf(p) : new[i] = taken[i]
        BY <2>3, <2>5
      <4> QED BY <4>1, <4>2, <4>3, <4>4
    <3> QED BY <3>1, <3>2
  <2>7. taken' = new
    BY <1>1, <2>4
  <2> QED BY <1>1, <2>6, <2>7 DEF LastLineWins
<1> QED BY <1>2, <1>3

LEMMA LastStep == LastInv /\ [Next]_vars => LastInv'
<1> SUFFICES ASSUME LastInv, [Next]_vars PROVE LastInv'
  OBVIOUS
<1>1. TypeOK /\ NotYet /\ LastLineWins /\ TypeOK'
  BY TypeStep DEF LastInv
<1>2. CASE ReadHeader \/ ReadAddress
  BY <1>1, <1>2, AddressesLast DEF LastInv
<1>3. CASE EndAddresses
  BY <1>1, <1>3, EndAddressesLast DEF LastInv
<1>4. CASE ReadDependencies
  BY <1>1, <1>4, ReadDependenciesLast DEF LastInv
<1>5. CASE EndDependencies
  BY <1>1, <1>5 DEF EndDependencies, LoopEnds, LastInv, NotYet, LastLineWins, num_proc, Proc
<1>6. CASE UNCHANGED vars
  BY <1>1, <1>6 DEF vars, LastInv, NotYet, LastLineWins, num_proc, Proc
<1> QED BY <1>2, <1>3, <1>4, <1>5, <1>6 DEF Next

\* The list of a process is the one on the last part of a line read for it, and empty
\* if there is none, for every membership file (set_dependencies,
\* dependencies.c:160-183).
THEOREM LastLine == Spec => []LastLineWins
<1>1. Init => LastInv
  BY InitType DEF Init, LastInv, NotYet, LastLineWins
<1>2. LastInv => LastLineWins
  BY DEF LastInv
<1> QED BY <1>1, <1>2, LastStep, PTL DEF Spec

-----------------------------------------------------------------------------
(* A well-formed file.  The invariant says where the parser is in the file *)
(* and that it holds what the lines before that place say.                 *)

Lines == file.lines

\* No trouble so far; where the reader is.
Untroubled == parts_read = 0 /\ ~overrun /\ parser # "error"
Reader ==
  /\ parser = "header" => lines_read = 0 /\ line_counter = 0
  /\ parser = "addresses" => lines_read = line_counter /\ DOMAIN address_book = Proc
  /\ parser = "dependencies" => lines_read = num_proc + line_counter
  /\ parser = "done" => lines_read = Len(Lines)
  /\ parser \in {"dependencies", "done"} => DOMAIN dependencies = Proc /\ lines_read >= num_proc

\* What the lines read so far say is what is stored.
AddressesRead ==
  parser # "header" =>
    \A i \in 1 .. num_proc : i <= lines_read => address_book[Lines[i][1]] = Tail(Lines[i])
DependenciesRead ==
  parser \in {"dependencies", "done"} =>
    \A p \in Proc :
      \/ dependencies[p] = <<>> /\ \A i \in num_proc + 1 .. lines_read : Lines[i][1] # p
      \/ \E i \in num_proc + 1 .. lines_read :
           Lines[i][1] = p /\ dependencies[p] = Listed(Lines[i])

Parsed == Untroubled /\ Reader /\ AddressesRead /\ DependenciesRead
ParsedInv == TypeOK /\ (WellFormed => Parsed)

LEMMA LineTypes ==
  ASSUME TypeOK
  PROVE  /\ num_proc \in Nat /\ Len(Lines) \in Nat
         /\ Lines \in Seq(Line)
         /\ \A i \in 1 .. Len(Lines) : Lines[i] \in Line
  BY FileFacts DEF TypeOK, Lines

\* The lines of a well-formed file, numbered from the first address.
LEMMA WellFormedLines ==
  ASSUME TypeOK, WellFormed
  PROVE  /\ num_proc \in Nat /\ num_proc > 0
         /\ Len(Lines) \in Nat /\ num_proc <= Len(Lines) /\ Len(Lines) <= 2 * num_proc
         /\ \A i \in 1 .. Len(Lines) : Lines[i] \in Line /\ Chars(Lines[i]) < LINE_MAX_LENGTH
         /\ Len(AddressLines) = num_proc /\ \A i \in 1 .. num_proc : AddressLines[i] = Lines[i]
         /\ Len(DependencyLines) = Len(Lines) - num_proc
         /\ \A i \in 1 .. Len(Lines) - num_proc : DependencyLines[i] = Lines[num_proc + i]
         /\ DOMAIN AddressLines = 1 .. num_proc
         /\ DOMAIN DependencyLines = 1 .. Len(Lines) - num_proc
<1>1. /\ num_proc \in Nat /\ num_proc > 0
      /\ Len(Lines) \in Nat /\ num_proc <= Len(Lines) /\ Len(Lines) <= 2 * num_proc
      /\ Lines \in Seq(Line)
      /\ \A i \in 1 .. Len(Lines) : Lines[i] \in Line
  BY LineTypes DEF WellFormed, Lines
<1>2. \A i \in 1 .. Len(Lines) : Chars(Lines[i]) < LINE_MAX_LENGTH
  BY <1>1 DEF WellFormed, Lines
<1>3. PICK n, len \in Nat : n = num_proc /\ len = Len(Lines) /\ n > 0 /\ n <= len
  BY <1>1
<1>4. /\ AddressLines = SubSeq(Lines, 1, n)
      /\ DependencyLines = SubSeq(Lines, n + 1, len)
  BY <1>3 DEF AddressLines, DependencyLines, Lines
<1>5. /\ Len(AddressLines) = n
      /\ DOMAIN AddressLines = 1 .. n
      /\ \A i \in 1 .. n : AddressLines[i] = Lines[i]
  BY <1>1, <1>3, <1>4
<1>6. /\ Len(DependencyLines) = len - n
      /\ DOMAIN DependencyLines = 1 .. len - n
      /\ \A i \in 1 .. len - n : DependencyLines[i] = Lines[n + i]
  BY <1>1, <1>3, <1>4
<1> QED BY <1>1, <1>2, <1>3, <1>5, <1>6

LEMMA WellFormedAddress ==
  ASSUME TypeOK, WellFormed, NEW i \in 1 .. num_proc
  PROVE  /\ Len(Lines[i]) = 3 /\ Lines[i][1] \in Proc
         /\ IsPid(Lines[i][2]) /\ IsPid(Lines[i][3])
         /\ \A j \in 1 .. num_proc : Lines[i][1] = Lines[j][1] => i = j
<1>1. /\ DOMAIN AddressLines = 1 .. num_proc
      /\ \A j \in 1 .. num_proc : AddressLines[j] = Lines[j]
  BY WellFormedLines
<1>2. /\ \A j \in DOMAIN AddressLines :
           /\ Len(AddressLines[j]) = 3
           /\ AddressLines[j][1] \in Proc /\ IsPid(AddressLines[j][2]) /\ IsPid(AddressLines[j][3])
      /\ \A j, k \in DOMAIN AddressLines : AddressLines[j][1] = AddressLines[k][1] => j = k
  BY DEF WellFormed, OneEach
<1>3. i \in DOMAIN AddressLines /\ AddressLines[i] = Lines[i]
  BY <1>1
<1>4. /\ Len(Lines[i]) = 3 /\ Lines[i][1] \in Proc
      /\ IsPid(Lines[i][2]) /\ IsPid(Lines[i][3])
  BY <1>2, <1>3
<1>5. ASSUME NEW j \in 1 .. num_proc, Lines[i][1] = Lines[j][1] PROVE i = j
  <2>1. j \in DOMAIN AddressLines /\ AddressLines[j] = Lines[j]
    BY <1>1
  <2> QED BY <1>2, <1>3, <1>5, <2>1
<1> QED BY <1>4, <1>5

LEMMA WellFormedDependencies ==
  ASSUME TypeOK, WellFormed, NEW i \in num_proc + 1 .. Len(Lines)
  PROVE  /\ Lines[i] \in Line /\ Lines[i][1] \in Proc
         /\ Len(Listed(Lines[i])) <= num_proc
         /\ \A j \in 1 .. Len(Lines[i]) : /\ Lines[i][j] \in Proc \cup {0}
                                          /\ Lines[i][j] = 0 => j = Len(Lines[i])
<1>1. i - num_proc \in 1 .. Len(Lines) - num_proc /\ num_proc + (i - num_proc) = i
      /\ i \in 1 .. Len(Lines)
  BY WellFormedLines
<1>2. DependencyLines[i - num_proc] = Lines[i] /\ i - num_proc \in DOMAIN DependencyLines
  BY <1>1, WellFormedLines
<1>3. /\ Lines[i][1] \in Proc /\ Len(Listed(Lines[i])) <= num_proc
      /\ ToSet(Lines[i]) \subseteq Proc \cup {0}
  BY <1>2 DEF WellFormed
<1>4. Lines[i] \in Line /\ DOMAIN Lines[i] = 1 .. Len(Lines[i])
  BY <1>1, WellFormedLines DEF Line
<1>5. \A j \in 1 .. Len(Lines[i]) : Lines[i][j] \in Proc \cup {0}
  BY <1>3, <1>4 DEF ToSet
<1>6. \A j \in 1 .. Len(Lines[i]) : Lines[i][j] = 0 => j = Len(Lines[i])
  BY <1>1, FileFacts DEF TypeOK, Lines
<1> QED BY <1>3, <1>4, <1>5, <1>6

\* fgets returns the lines whole.
LEMMA WellFormedFgets ==
  ASSUME TypeOK, WellFormed, Untroubled, Fgets
  PROVE  /\ lines_read + 1 \in 1 .. Len(Lines)
         /\ Unread = Lines[lines_read + 1]
         /\ lines_read' = lines_read + 1 /\ parts_read' = 0
<1>1. lines_read \in Nat /\ lines_read < Len(Lines) /\ Len(Lines) \in Nat
  BY LineTypes DEF TypeOK, Fgets, Lines
<1>2. lines_read + 1 \in 1 .. Len(Lines)
  BY <1>1
<1>3. PICK line \in Line : line = Lines[lines_read + 1] /\ Chars(line) < LINE_MAX_LENGTH
  BY <1>2, WellFormedLines
<1>4. ~((parts_read + 1) * Capacity < Chars(line))
  <2>1. (0 + 1) * Capacity = Capacity /\ Capacity = LINE_MAX_LENGTH - 1
    BY CapacityType DEF Capacity
  <2>2. (parts_read + 1) * Capacity = (0 + 1) * Capacity
    BY DEF Untroubled
  <2> QED BY <1>3, <2>1, <2>2, CharsType, MembershipAssumption
<1>5. lines_read' = lines_read + 1 /\ parts_read' = 0
  BY <1>3, <1>4 DEF Fgets, Lines
<1>6. Unread = Part(line, 1)
  BY <1>3 DEF Unread, Untroubled, Lines
<1> QED BY <1>2, <1>3, <1>5, <1>6, PartWhole

LEMMA ReadHeaderParsed ==
  ASSUME TypeOK, WellFormed, Parsed, ReadHeader
  PROVE  Parsed'
<1>1. /\ UNCHANGED <<file, lines_read, parts_read, line_counter, overrun>>
      /\ parser = "header" /\ parser' = "addresses"
      /\ address_book' = [p \in Proc |-> NoAddress]
      /\ num_proc' = num_proc /\ Proc' = Proc /\ Lines' = Lines
  BY WellFormedLines DEF ReadHeader, num_proc, Proc, Lines
<1>2. lines_read = 0 /\ line_counter = 0
  BY <1>1 DEF Parsed, Reader
<1>3. Untroubled' /\ Reader'
  BY <1>1, <1>2 DEF Parsed, Untroubled, Reader
<1>4. AddressesRead' /\ DependenciesRead'
  BY <1>1, <1>2 DEF AddressesRead, DependenciesRead
<1> QED BY <1>3, <1>4 DEF Parsed

\* The entry of an address is the rest of its line; no other line has its pid.
LEMMA ReadAddressParsed ==
  ASSUME TypeOK, WellFormed, Parsed, ReadAddress
  PROVE  Parsed'
<1>1. /\ parser = "addresses" /\ line_counter < num_proc /\ UNCHANGED file
      /\ num_proc' = num_proc /\ Proc' = Proc /\ Lines' = Lines
      /\ lines_read = line_counter /\ DOMAIN address_book = Proc
  BY DEF Parsed, Reader, ReadAddress, NextLine, num_proc, Proc, Lines
<1>2. PICK i \in 1 .. num_proc : i = lines_read + 1
  <2>1. lines_read \in Nat /\ num_proc \in Nat /\ lines_read < num_proc
    BY <1>1, LineTypes DEF TypeOK
  <2> QED BY <2>1
<1>3. /\ i \in 1 .. Len(Lines) /\ Unread = Lines[i]
      /\ lines_read' = i /\ parts_read' = 0
  BY <1>2, WellFormedFgets DEF Parsed, ReadAddress, NextLine
<1>4. /\ Len(Unread) = 3 /\ Unread[1] \in Proc /\ IsPid(Unread[2]) /\ IsPid(Unread[3])
      /\ \A j \in 1 .. num_proc : Lines[i][1] = Lines[j][1] => i = j
  BY <1>3, WellFormedAddress
<1>5. IsPid(Unread[1]) /\ ~RefusedEntry(Unread[1]) /\ ~(Len(Unread) < 3)
  BY <1>4, LineTypes DEF IsPid, NoNumber, RefusedEntry, Proc
<1>6. /\ line_counter' = line_counter + 1 /\ UNCHANGED <<parser, overrun>>
      /\ address_book' = [address_book EXCEPT ![Unread[1]] = Entry(Unread)]
  BY <1>4, <1>5 DEF ReadAddress
<1>7. Entry(Unread) = Tail(Lines[i])
  <2>1. Unread \in Seq(Word)
    BY <1>3, LineTypes DEF Line
  <2>2. Entry(Unread) = <<Unread[2], Unread[3]>>
    BY <1>4 DEF Entry, IsPid
  <2>3. ASSUME NEW w \in Seq(Word), Len(w) = 3
        PROVE  Tail(w) = <<w[2], w[3]>>
    <3>1. /\ Tail(w) \in Seq(Word) /\ Len(Tail(w)) = 2
          /\ Tail(w)[1] = w[2] /\ Tail(w)[2] = w[3]
      BY <2>3
    <3>2. \A t \in Seq(Word) : Len(t) = 2 => t = <<t[1], t[2]>>
      OBVIOUS
    <3> QED BY <3>1, <3>2
  <2> QED BY <1>3, <1>4, <2>1, <2>2, <2>3
<1>8. Untroubled' /\ Reader'
  BY <1>1, <1>2, <1>3, <1>6 DEF Parsed, Untroubled, Reader
<1>9. AddressesRead'
  <2>1. ASSUME NEW j \in 1 .. num_proc, j <= i
        PROVE  address_book'[Lines[j][1]] = Tail(Lines[j])
    <3>1. CASE j = i
      BY <1>1, <1>3, <1>4, <1>6, <1>7, <3>1
    <3>2. CASE j # i
      <4>1. j <= lines_read
        BY <1>1, <1>2, <2>1, <3>2, LineTypes DEF TypeOK
      <4>2. address_book[Lines[j][1]] = Tail(Lines[j])
        BY <1>1, <4>1 DEF Parsed, AddressesRead
      <4>3. Lines[j][1] # Unread[1] /\ Lines[j][1] \in Proc
        BY <1>3, <1>4, <3>2, WellFormedAddress
      <4> QED BY <1>1, <1>6, <4>2, <4>3
    <3> QED BY <3>1, <3>2
  <2> QED BY <1>1, <1>3, <2>1 DEF AddressesRead
<1>10. DependenciesRead'
  BY <1>1, <1>6 DEF DependenciesRead
<1> QED BY <1>8, <1>9, <1>10 DEF Parsed

\* All addresses have been read when the loop over them ends.
LEMMA EndAddressesParsed ==
  ASSUME TypeOK, WellFormed, Parsed, EndAddresses
  PROVE  Parsed'
<1>1. /\ UNCHANGED <<file, lines_read, parts_read, address_book, overrun>>
      /\ parser = "addresses" /\ parser' = "dependencies" /\ line_counter' = 0
      /\ line_counter = num_proc \/ lines_read = Len(Lines)
      /\ dependencies' = [p \in Proc |-> <<>>]
      /\ num_proc' = num_proc /\ Proc' = Proc /\ Lines' = Lines
  BY DEF EndAddresses, LoopEnds, num_proc, Proc, Lines
<1>2. lines_read = line_counter /\ line_counter <= num_proc /\ line_counter \in Nat
  BY <1>1, LineTypes DEF Parsed, Reader, TypeOK
<1>3. lines_read = num_proc /\ num_proc \in Nat
  BY <1>1, <1>2, WellFormedLines
<1>4. Untroubled' /\ Reader'
  BY <1>1, <1>3 DEF Parsed, Untroubled, Reader
<1>5. AddressesRead'
  BY <1>1 DEF Parsed, AddressesRead
<1>6. DependenciesRead'
  BY <1>1, <1>3 DEF DependenciesRead
<1> QED BY <1>4, <1>5, <1>6 DEF Parsed

\* The list of a process is what its line lists.
LEMMA ReadDependenciesParsed ==
  ASSUME TypeOK, WellFormed, Parsed, ReadDependencies
  PROVE  Parsed'
<1>1. /\ parser = "dependencies" /\ UNCHANGED file
      /\ num_proc' = num_proc /\ Proc' = Proc /\ Lines' = Lines
      /\ lines_read = num_proc + line_counter /\ DOMAIN dependencies = Proc
  BY DEF Parsed, Reader, ReadDependencies, NextLine, num_proc, Proc, Lines
<1>2. /\ lines_read \in Nat /\ num_proc \in Nat /\ line_counter \in Nat
      /\ lines_read >= num_proc
  BY <1>1, LineTypes DEF TypeOK
<1>3. PICK i \in num_proc + 1 .. Len(Lines) : i = lines_read + 1
  BY <1>2, WellFormedFgets, LineTypes DEF Parsed, ReadDependencies, NextLine
<1>4. Unread = Lines[i] /\ lines_read' = i /\ parts_read' = 0
  BY <1>3, WellFormedFgets DEF Parsed, ReadDependencies, NextLine
<1>5. /\ Unread \in Line /\ Unread[1] \in Proc /\ Len(Listed(Unread)) <= num_proc
      /\ \A j \in 1 .. Len(Unread) : /\ Unread[j] \in Proc \cup {0}
                                     /\ Unread[j] = 0 => j = Len(Unread)
  BY <1>4, WellFormedDependencies
<1>6. IsPid(Unread[1]) /\ Knows(Unread[1])
  BY <1>2, <1>5 DEF IsPid, NoNumber, Knows, Proc
<1>7. \A j \in 1 .. Len(Unread) : Unread[j] # NoNumber
  BY <1>2, <1>5 DEF NoNumber, Proc
<1>8. Pids(Unread) = Listed(Unread)
  BY <1>5, <1>6, <1>7, PidsListed
<1>9. ~(Len(Pids(Unread)) > num_proc) /\ NoNumber \notin ToSet(Unread)
  <2>1. Len(Pids(Unread)) \in Nat
    BY <1>5, PidsType
  <2>2. NoNumber \notin ToSet(Unread)
    BY <1>5, <1>7 DEF ToSet, Line
  <2> QED BY <1>2, <1>5, <1>8, <2>1, <2>2
<1>10. /\ line_counter' = line_counter + 1 /\ UNCHANGED <<parser, address_book, overrun>>
       /\ dependencies' = [dependencies EXCEPT ![Unread[1]] = Listed(Unread)]
  BY <1>5, <1>6, <1>8, <1>9 DEF ReadDependencies, SetDependencies
<1>11. Untroubled' /\ Reader'
  BY <1>1, <1>2, <1>3, <1>4, <1>10 DEF Parsed, Untroubled, Reader
<1>12. AddressesRead'
  BY <1>1, <1>2, <1>3, <1>4, <1>10 DEF Parsed, AddressesRead
<1>13. DependenciesRead'
  <2>1. ASSUME NEW p \in Proc
        PROVE  \/ dependencies'[p] = <<>> /\ \A j \in num_proc + 1 .. i : Lines[j][1] # p
               \/ \E j \in num_proc + 1 .. i :
                    Lines[j][1] = p /\ dependencies'[p] = Listed(Lines[j])
    <3>1. CASE p = Unread[1]
      BY <1>1, <1>2, <1>3, <1>4, <1>10, <3>1
    <3>2. CASE p # Unread[1]
      <4>1. dependencies'[p] = dependencies[p]
        BY <1>1, <1>10, <3>2
      <4>2. \/ dependencies[p] = <<>> /\ \A j \in num_proc + 1 .. lines_read : Lines[j][1] # p
            \/ \E j \in num_proc + 1 .. lines_read :
                 Lines[j][1] = p /\ dependencies[p] = Listed(Lines[j])
        BY <1>1 DEF Parsed, DependenciesRead
      <4>3. num_proc + 1 .. i = (num_proc + 1 .. lines_read) \cup {i}
        BY <1>2, <1>3
      <4> QED BY <1>4, <3>2, <4>1, <4>2, <4>3
    <3> QED BY <3>1, <3>2
  <2> QED BY <1>1, <1>4, <2>1 DEF DependenciesRead
<1> QED BY <1>11, <1>12, <1>13 DEF Parsed

\* Nothing is left to read when the parser ends.
LEMMA EndDependenciesParsed ==
  ASSUME TypeOK, WellFormed, Parsed, EndDependencies
  PROVE  Parsed'
<1>1. /\ UNCHANGED <<file, lines_read, parts_read, address_book, dependencies, overrun>>
      /\ parser = "dependencies" /\ parser' = "done"
      /\ line_counter = num_proc \/ lines_read = Len(Lines)
      /\ num_proc' = num_proc /\ Proc' = Proc /\ Lines' = Lines
  BY DEF EndDependencies, LoopEnds, num_proc, Proc, Lines
<1>2. lines_read = Len(Lines)
  <2>1. num_proc \in Nat /\ Len(Lines) \in Nat /\ Len(Lines) <= 2 * num_proc
    BY WellFormedLines
  <2>2. lines_read = num_proc + line_counter /\ lines_read <= Len(Lines)
    BY <1>1 DEF Parsed, Reader, TypeOK, Lines
  <2>3. line_counter \in Nat /\ lines_read \in Nat
    BY DEF TypeOK
  <2> QED BY <1>1, <2>1, <2>2, <2>3
<1>3. Untroubled' /\ Reader'
  BY <1>1, <1>2 DEF Parsed, Untroubled, Reader
<1>4. AddressesRead' /\ DependenciesRead'
  BY <1>1 DEF Parsed, AddressesRead, DependenciesRead
<1> QED BY <1>3, <1>4 DEF Parsed

LEMMA ParsedStep == ParsedInv /\ [Next]_vars => ParsedInv'
<1> SUFFICES ASSUME ParsedInv, [Next]_vars, WellFormed' PROVE TypeOK' /\ Parsed'
  BY TypeStep DEF ParsedInv
<1>1. TypeOK /\ TypeOK'
  BY TypeStep DEF ParsedInv
<1>2. UNCHANGED file
  BY DEF Next, ReadHeader, ReadAddress, EndAddresses, ReadDependencies, EndDependencies, vars
<1>3. WellFormed
  <2>1. num_proc' = num_proc /\ Proc' = Proc
    BY <1>2 DEF num_proc, Proc
  <2>2. AddressLines' = AddressLines /\ DependencyLines' = DependencyLines
    BY <1>2, <2>1 DEF AddressLines, DependencyLines
  <2> QED BY <1>2, <2>1, <2>2 DEF WellFormed, OneEach, Listed, Chars
<1>4. Parsed
  BY <1>3 DEF ParsedInv
<1>5. CASE UNCHANGED vars
  BY <1>1, <1>4, <1>5 DEF vars, Parsed, Untroubled, Reader, AddressesRead, DependenciesRead,
                    Lines, num_proc, Proc, Listed
<1>6. CASE Next
  BY <1>1, <1>3, <1>4, <1>6, ReadHeaderParsed, ReadAddressParsed, EndAddressesParsed,
     ReadDependenciesParsed, EndDependenciesParsed DEF Next
<1> QED BY <1>1, <1>5, <1>6

LEMMA ParsedInit == Init => ParsedInv
<1> SUFFICES ASSUME Init, WellFormed PROVE Parsed
  BY InitType DEF ParsedInv
<1>1. Untroubled /\ Reader
  BY DEF Init, Untroubled, Reader
<1>2. AddressesRead /\ DependenciesRead
  BY DEF Init, AddressesRead, DependenciesRead
<1> QED BY <1>1, <1>2 DEF Parsed

LEMMA ParsedResult == ParsedInv => WellFormedIsParsed
<1> SUFFICES ASSUME ParsedInv, WellFormed PROVE WellFormedIsParsed
  BY DEF WellFormedIsParsed
<1>1. TypeOK /\ Parsed
  BY DEF ParsedInv
<1>2. parser # "error" /\ ~overrun
  BY <1>1 DEF Parsed, Untroubled
<1>3. ASSUME parser = "done"
      PROVE  \A i \in DOMAIN AddressLines : address_book[AddressLines[i][1]] = Tail(AddressLines[i])
  BY <1>1, <1>3, WellFormedLines DEF Parsed, Reader, AddressesRead
<1>4. ASSUME parser = "done", NEW p \in Proc
      PROVE  \/ /\ dependencies[p] = <<>>
                /\ \A i \in DOMAIN DependencyLines : DependencyLines[i][1] # p
             \/ \E i \in DOMAIN DependencyLines :
                  DependencyLines[i][1] = p /\ dependencies[p] = Listed(DependencyLines[i])
  <2>1. PICK n, len \in Nat : n = num_proc /\ len = Len(Lines)
    BY <1>1, LineTypes
  <2>2. /\ DOMAIN DependencyLines = 1 .. len - n
        /\ \A i \in 1 .. len - n : DependencyLines[i] = Lines[n + i]
    BY <1>1, <2>1, WellFormedLines
  <2>3. \/ dependencies[p] = <<>> /\ \A i \in n + 1 .. len : Lines[i][1] # p
        \/ \E i \in n + 1 .. len : Lines[i][1] = p /\ dependencies[p] = Listed(Lines[i])
    BY <1>1, <1>4, <2>1 DEF Parsed, Reader, DependenciesRead
  <2>4. CASE dependencies[p] = <<>> /\ \A i \in n + 1 .. len : Lines[i][1] # p
    <3>1. \A i \in 1 .. len - n : n + i \in n + 1 .. len
      BY <2>1
    <3> QED BY <2>2, <2>4, <3>1
  <2>5. CASE \E i \in n + 1 .. len : Lines[i][1] = p /\ dependencies[p] = Listed(Lines[i])
    <3>1. PICK i \in n + 1 .. len : Lines[i][1] = p /\ dependencies[p] = Listed(Lines[i])
      BY <2>5
    <3>2. i - n \in 1 .. len - n /\ n + (i - n) = i
      BY <2>1
    <3>3. DependencyLines[i - n] = Lines[i]
      BY <2>2, <3>2
    <3> QED BY <2>2, <3>1, <3>2, <3>3
  <2> QED BY <2>3, <2>4, <2>5
<1> QED BY <1>2, <1>3, <1>4 DEF WellFormedIsParsed

\* A well-formed file, of any number of processes and with a buffer of any size that
\* holds its lines, is read as it is meant: no error, no memory outside the arrays, and
\* in the end the address of each process and its dependencies (parser.c:79-169).
THEOREM WellFormedCorrect == Spec => []WellFormedIsParsed
  BY ParsedInit, ParsedStep, ParsedResult, PTL DEF Spec

\* What module Lcb assumes of the lists.
ListsOfProcesses ==
  WellFormed /\ parser = "done" => \A p \in Proc : ToSet(dependencies[p]) \subseteq Proc

LEMMA ParsedLists == ParsedInv => ListsOfProcesses
<1> SUFFICES ASSUME ParsedInv, WellFormed, parser = "done", NEW p \in Proc
             PROVE  ToSet(dependencies[p]) \subseteq Proc
  BY DEF ListsOfProcesses
<1>1. TypeOK /\ Parsed
  BY DEF ParsedInv
<1>2. PICK list \in Seq(Nat \ {0}) : list = dependencies[p]
  BY <1>1 DEF TypeOK, Parsed, Reader
<1>3. CASE list = <<>>
  BY <1>2, <1>3 DEF ToSet
<1>4. CASE list # <<>>
  <2>1. PICK i \in num_proc + 1 .. Len(Lines) : list = Listed(Lines[i])
    BY <1>1, <1>2, <1>4 DEF Parsed, Reader, DependenciesRead
  <2>2. PICK line \in Line : line = Lines[i] /\ \A j \in 1 .. Len(line) : line[j] \in Proc \cup {0}
    BY <1>1, <2>1, WellFormedDependencies
  <2>3. \A k \in 1 .. Len(list) : list[k] \in Proc \cup {0}
    <3>1. list = SubSeq(line, 2, Len(line) - 1) \/ list = Tail(line)
      BY <2>1, <2>2 DEF Listed
    <3>2. CASE list = SubSeq(line, 2, Len(line) - 1)
      BY <2>2, <3>2 DEF Line
    <3>3. CASE list = Tail(line)
      BY <2>2, <3>3 DEF Line
    <3> QED BY <3>1, <3>2, <3>3
  <2>4. \A k \in 1 .. Len(list) : list[k] \in Proc
    BY <2>3
  <2>5. DOMAIN list = 1 .. Len(list)
    OBVIOUS
  <2> QED BY <1>2, <2>4, <2>5 DEF ToSet
<1> QED BY <1>3, <1>4

\* From a well-formed file every process gets a list of processes, which the layer
\* that orders the deliveries takes for granted (parser.c:161, lcb.c, pending.c).
THEOREM WellFormedLists == Spec => []ListsOfProcesses
  BY ParsedInit, ParsedStep, ParsedLists, PTL DEF Spec
=============================================================================
