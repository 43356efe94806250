--------------------------- MODULE CostLedgerProofs ---------------------------
(***************************************************************************)
(* Proofs about CostLedger, for any number of servers, calls and faults    *)
(* and any assignment of keys to calls; and, at the end, about Savings,    *)
(* for any model and any call.                                             *)
(***************************************************************************)
EXTENDS CostLedger, Savings, SequenceTheorems, FiniteSetTheorems, TLAPS

(* The servers of the database are started one after the other.            *)
InTurn == ~Overlap

Pc == {"off", "keys", "fill", "serve", "emit", "record"}

(* Fragments of the calls up to n                                          *)
FragUpTo(n) == [call : 1 .. n, seg : 1 .. 3]

ServerState(n) ==
    [pc : Pc, call : 0 .. n, buffer : Seq(FragUpTo(n)), read : SUBSET (1 .. n),
     todo : SUBSET [at : Nat, call : 1 .. n], seen : SUBSET Nat, whole : BOOLEAN]

Typed ==
    /\ calls \in 0 .. MaxCalls /\ priced \subseteq 1 .. calls
    /\ sink \in Seq(FragUpTo(calls)) /\ torn \subseteq 1 .. calls
    /\ ledger \in [Call -> Nat]
    /\ server \in [Server -> ServerState(calls)]
    /\ \A s \in Server : server[s].pc = "emit" => server[s].call \in 1 .. calls

--------------------------------------------------------------------------------
(* Parts of sequences                                                      *)

(* A part of a sequence, and a part of its beginning                       *)
LEMMA Parts ==
    ASSUME NEW S, NEW seq \in Seq(S), NEW m \in 0 .. Len(seq), NEW n \in 0 .. m
    PROVE  /\ SubSeq(seq, 1, m) \in Seq(S) /\ Len(SubSeq(seq, 1, m)) = m
           /\ \A i \in 1 .. m : SubSeq(seq, 1, m)[i] = seq[i]
           /\ SubSeq(seq, n + 1, m) \in Seq(S) /\ Len(SubSeq(seq, n + 1, m)) = m - n
           /\ \A i \in 1 .. m - n : SubSeq(seq, n + 1, m)[i] = seq[n + i]
           /\ SubSeq(SubSeq(seq, 1, m), 1, n) = SubSeq(seq, 1, n)
           /\ SubSeq(SubSeq(seq, 1, m), n + 1, m) = SubSeq(seq, n + 1, m)
<1>0. Len(seq) \in Nat /\ m \in Nat /\ n \in Nat /\ n <= m /\ m <= Len(seq)
  BY LenProperties
<1>1. \A i \in 1 .. Len(seq) : seq[i] \in S
  BY ElementOfSeq
<1>2. ASSUME NEW a \in 1 .. Len(seq) + 1, NEW b \in 0 .. Len(seq), a <= b + 1
      PROVE  /\ SubSeq(seq, a, b) \in Seq(S) /\ Len(SubSeq(seq, a, b)) = b + 1 - a
             /\ \A i \in 1 .. b + 1 - a : SubSeq(seq, a, b)[i] = seq[a + i - 1]
  <2>0. a \in Int /\ b \in Int /\ (a <= b => b - a + 1 = b + 1 - a) /\ (~(a <= b) => b + 1 - a = 0)
    BY <1>0, <1>2
  <2>1. \A i \in a .. b : seq[i] \in S
    BY <1>0, <1>1, <1>2
  <2>2. /\ SubSeq(seq, a, b) \in Seq(S)
        /\ Len(SubSeq(seq, a, b)) = IF a <= b THEN b - a + 1 ELSE 0
        /\ \A i \in 1 .. b - a + 1 : SubSeq(seq, a, b)[i] = seq[a + i - 1]
    BY <2>0, <2>1, SubSeqProperties
  <2> DEFINE part == SubSeq(seq, a, b)
  <2> HIDE DEF part
  <2>3. part \in Seq(S) /\ Len(part) = b + 1 - a /\ \A i \in 1 .. b + 1 - a : part[i] = seq[a + i - 1]
    BY <2>0, <2>2 DEF part
  <2>4. QED
    BY <2>3 DEF part
<1>3. ASSUME NEW k \in 0 .. Len(seq)
      PROVE  /\ SubSeq(seq, 1, k) \in Seq(S) /\ Len(SubSeq(seq, 1, k)) = k
             /\ \A i \in 1 .. k : SubSeq(seq, 1, k)[i] = seq[i]
  <2> DEFINE part == SubSeq(seq, 1, k)
  <2>0. 1 \in 1 .. Len(seq) + 1 /\ 1 <= k + 1 /\ k + 1 - 1 = k /\ \A i \in 1 .. k : 1 + i - 1 = i
    BY <1>0
  <2>1. /\ part \in Seq(S) /\ Len(part) = k + 1 - 1
        /\ \A i \in 1 .. k + 1 - 1 : part[i] = seq[1 + i - 1]
    BY <1>2, <2>0
  <2> HIDE DEF part
  <2>2. part \in Seq(S) /\ Len(part) = k /\ \A i \in 1 .. k : part[i] = seq[i]
    BY <2>0, <2>1
  <2>3. QED
    BY <2>2 DEF part
<1>4. /\ SubSeq(seq, n + 1, m) \in Seq(S) /\ Len(SubSeq(seq, n + 1, m)) = m - n
      /\ \A i \in 1 .. m - n : SubSeq(seq, n + 1, m)[i] = seq[n + i]
  <2> DEFINE part == SubSeq(seq, n + 1, m)
  <2>0. /\ n + 1 \in 1 .. Len(seq) + 1 /\ n + 1 <= m + 1 /\ m + 1 - (n + 1) = m - n
        /\ \A i \in 1 .. m - n : n + 1 + i - 1 = n + i
    BY <1>0
  <2>1. /\ part \in Seq(S) /\ Len(part) = m + 1 - (n + 1)
        /\ \A i \in 1 .. m + 1 - (n + 1) : part[i] = seq[n + 1 + i - 1]
    BY <1>0, <1>2, <2>0
  <2> HIDE DEF part
  <2>2. part \in Seq(S) /\ Len(part) = m - n /\ \A i \in 1 .. m - n : part[i] = seq[n + i]
    BY <2>0, <2>1
  <2>3. QED
    BY <2>2 DEF part
<1>5. /\ SubSeq(SubSeq(seq, 1, m), 1, n) = SubSeq(seq, 1, n)
      /\ SubSeq(SubSeq(seq, 1, m), n + 1, m) = SubSeq(seq, n + 1, m)
  <2> DEFINE first == SubSeq(seq, 1, m)
  <2>1. first \in Seq(S) /\ Len(first) = m /\ \A i \in 1 .. m : first[i] = seq[i]
    BY <1>3
  <2> HIDE DEF first
  <2>2. \A i \in 1 .. m : first[i] \in S
    BY <1>0, <1>1, <2>1
  <2>3. SubSeq(first, 1, n) = SubSeq(seq, 1, n)
    BY <1>0, <2>1 DEF SubSeq
  <2>4. SubSeq(first, n + 1, m) = SubSeq(seq, n + 1, m)
    BY <1>0, <2>1 DEF SubSeq
  <2>5. QED
    BY <2>3, <2>4 DEF first
<1>6. QED
  BY <1>3, <1>4, <1>5

(* The whole of it, and none                                               *)
LEMMA Ends ==
    ASSUME NEW S, NEW seq \in Seq(S)
    PROVE  Len(seq) \in 0 .. Len(seq) /\ SubSeq(seq, 1, Len(seq)) = seq
<1>1. Len(seq) \in Nat
  BY LenProperties
<1>2. QED
  BY <1>1, SubSeqFull

Begins(part, seq) == \E m \in 0 .. Len(seq) : part = SubSeq(seq, 1, m)

(* What begins like a line, behind what was held, is a beginning of both.  *)
LEMMA Beginnings ==
    ASSUME NEW S, NEW held \in Seq(S), NEW line \in Seq(S), NEW part \in Seq(S),
           Len(part) <= Len(line), \A i \in 1 .. Len(part) : part[i] = line[i]
    PROVE  Begins(held \o part, held \o line)
<1> DEFINE lines == held \o line
           m == Len(held) + Len(part)
           first == SubSeq(lines, 1, m)
<1>1. Len(held) \in Nat /\ Len(line) \in Nat /\ Len(part) \in Nat
  BY LenProperties
<1>2. /\ lines \in Seq(S) /\ Len(lines) = Len(held) + Len(line)
      /\ \A i \in 1 .. Len(held) + Len(line) :
             lines[i] = IF i <= Len(held) THEN held[i] ELSE line[i - Len(held)]
  BY ConcatProperties
<1>3. /\ held \o part \in Seq(S) /\ Len(held \o part) = Len(held) + Len(part)
      /\ \A i \in 1 .. Len(held) + Len(part) :
             (held \o part)[i] = IF i <= Len(held) THEN held[i] ELSE part[i - Len(held)]
  BY ConcatProperties
<1> HIDE DEF lines
<1>4. m \in 0 .. Len(lines) /\ 0 \in 0 .. m
  BY <1>1, <1>2
<1>5. first \in Seq(S) /\ Len(first) = m /\ \A i \in 1 .. m : first[i] = lines[i]
  BY <1>2, <1>4, Parts
<1> HIDE DEF first
<1>6. ASSUME NEW i \in 1 .. m PROVE first[i] = (held \o part)[i]
  <2>1. i \in 1 .. Len(held) + Len(line) /\ (~(i <= Len(held)) => i - Len(held) \in 1 .. Len(part))
    BY <1>1
  <2>2. QED
    BY <1>2, <1>3, <1>5, <2>1
<1>7. held \o part = first
  BY <1>3, <1>5, <1>6, SeqEqual
<1>8. QED
  BY <1>4, <1>7 DEF Begins, first, lines

LEMMA SameInterval ==
    ASSUME NEW m \in Nat, NEW n \in Nat, 1 .. m = 1 .. n
    PROVE  m = n
<1>1. (m > n => m \in 1 .. m /\ m \notin 1 .. n) /\ (n > m => n \in 1 .. n /\ n \notin 1 .. m)
  OBVIOUS
<1>2. ~(m > n) /\ ~(n > m)
  BY <1>1
<1>3. QED
  BY <1>2

(* The line of a call                                                      *)
LEMMA LineType ==
    ASSUME NEW n \in Nat, NEW c \in 1 .. n
    PROVE  /\ LineOf(c) \in Seq(FragUpTo(n)) /\ Len(LineOf(c)) = 3
           /\ \A i \in 1 .. 3 : LineOf(c)[i] = [call |-> c, seg |-> i]
           /\ Text(c) \in Seq(FragUpTo(n)) /\ Len(Text(c)) = 2
           /\ \A i \in 1 .. 2 : Text(c)[i] = [call |-> c, seg |-> i]
<1>1. LineOf(c) \in [1 .. 3 -> FragUpTo(n)] /\ Text(c) \in [1 .. 2 -> FragUpTo(n)]
  BY DEF LineOf, Text, FragUpTo
<1>2. LineOf(c) \in Seq(FragUpTo(n)) /\ Text(c) \in Seq(FragUpTo(n))
  BY <1>1, SeqDef
<1>3. DOMAIN LineOf(c) = 1 .. 3 /\ DOMAIN Text(c) = 1 .. 2
  BY DEF LineOf, Text
<1>4. Len(LineOf(c)) = 3 /\ Len(Text(c)) = 2
  <2>1. Len(LineOf(c)) \in Nat /\ 1 .. Len(LineOf(c)) = 1 .. 3
    BY <1>2, <1>3, LenProperties
  <2>2. Len(Text(c)) \in Nat /\ 1 .. Len(Text(c)) = 1 .. 2
    BY <1>2, <1>3, LenProperties
  <2>3. QED
    BY <2>1, <2>2, SameInterval
<1>5. QED
  BY <1>2, <1>4 DEF LineOf, Text

(* What has found room of the line of a call, behind what was held, is a   *)
(* beginning of both.                                                      *)
FoundRoom(part, c) ==
    \/ part \in {<<>>, Text(c), LineOf(c)}
    \/ \E k \in 0 .. 1 : part = SubSeq(Text(c), 1, k)

LEMMA LineBegins ==
    ASSUME NEW n \in Nat, NEW c \in 1 .. n, NEW held \in Seq(FragUpTo(n)),
           NEW part, FoundRoom(part, c)
    PROVE  /\ held \o part \in Seq(FragUpTo(n))
           /\ Begins(held \o part, held \o LineOf(c))
<1> DEFINE line == LineOf(c)
           text == Text(c)
           Part(p) == /\ p \in Seq(FragUpTo(n)) /\ Len(p) <= Len(line)
                      /\ \A i \in 1 .. Len(p) : p[i] = line[i]
<1>1. line \in Seq(FragUpTo(n)) /\ Len(line) = 3 /\ text \in Seq(FragUpTo(n)) /\ Len(text) = 2
  BY LineType
<1>2. text[1] = line[1] /\ text[2] = line[2]
  BY DEF LineOf, Text
<1> HIDE DEF line, text
<1>3. ASSUME NEW p \in Seq(FragUpTo(n)), Len(p) = 0 PROVE Part(p)
  BY <1>1, <1>3
<1>4. Part(line)
  BY <1>1
<1>5. Part(text)
  <2>1. \A i \in 1 .. 2 : i = 1 \/ i = 2
    OBVIOUS
  <2>2. QED
    BY <1>1, <1>2, <2>1
<1>6. ASSUME NEW k \in 0 .. 1 PROVE Part(SubSeq(text, 1, k))
  <2> DEFINE p == SubSeq(text, 1, k)
  <2>1. p \in Seq(FragUpTo(n)) /\ Len(p) = k /\ \A i \in 1 .. k : p[i] = text[i]
    <3>1. k \in 0 .. Len(text) /\ 0 \in 0 .. k
      BY <1>1
    <3>2. QED
      BY <1>1, <3>1, Parts
  <2> HIDE DEF p
  <2>2. \A i \in 1 .. k : i = 1
    OBVIOUS
  <2>3. Part(p)
    BY <1>1, <1>2, <2>1, <2>2
  <2>4. QED
    BY <2>3 DEF p
<1>7. Part(part)
  <2>1. <<>> \in Seq(FragUpTo(n)) /\ Len(<<>>) = 0
    BY EmptySeq
  <2>2. Part(<<>>)
    BY <1>3, <2>1
  <2> HIDE DEF Part
  <2>3. QED
    BY <1>4, <1>5, <1>6, <2>2 DEF FoundRoom, line, text
<1>8. held \o part \in Seq(FragUpTo(n))
  BY <1>7, ConcatProperties
<1>9. Begins(held \o part, held \o line)
  BY <1>1, <1>7, Beginnings
<1>10. QED
  BY <1>8, <1>9 DEF line

LEMMA CutType ==
    ASSUME NEW n \in Nat, NEW seq \in Seq(FragUpTo(n))
    PROVE  Cut(seq) \subseteq 1 .. n
<1>1. CASE seq = <<>>
  BY <1>1 DEF Cut
<1>2. CASE seq # <<>>
  <2>1. Len(seq) \in 1 .. Len(seq)
    <3>1. Len(seq) \in Nat \ {0}
      BY <1>2, EmptySeq
    <3>2. QED
      BY <3>1
  <2>2. Last(seq) \in FragUpTo(n)
    BY <2>1, ElementOfSeq DEF Last
  <2>3. QED
    BY <2>2 DEF Cut, FragUpTo
<1>3. QED
  BY <1>1, <1>2

--------------------------------------------------------------------------------
(* What a step writes                                                      *)

(* What a server has to write: what it still holds and the line in hand    *)
Lines(s) == IF server[s].pc = "emit" THEN server[s].buffer \o LineOf(server[s].call)
            ELSE server[s].buffer

(* It has written n fragments and kept those up to m, or none.             *)
Wrote(s, n, m, rest) ==
    /\ sink' = sink \o SubSeq(Lines(s), 1, n)
    /\ torn' \subseteq torn \union Cut(SubSeq(Lines(s), 1, n)) \union Cut(SubSeq(Lines(s), 1, m))
    /\ torn \union Cut(SubSeq(Lines(s), 1, n)) \subseteq torn'
    /\ rest # <<>> => Cut(SubSeq(Lines(s), 1, m)) \subseteq torn'
    /\ rest \in {<<>>, SubSeq(Lines(s), n + 1, m)}

LEMMA LinesType ==
    ASSUME Typed, NEW s \in Server
    PROVE  /\ Lines(s) \in Seq(FragUpTo(calls)) /\ Len(Lines(s)) \in Nat
           /\ server[s].buffer \in Seq(FragUpTo(calls)) /\ calls \in Nat
<1>1. server[s].buffer \in Seq(FragUpTo(calls)) /\ calls \in Nat
  BY LedgerAssumption DEF Typed, ServerState
<1>2. Lines(s) \in Seq(FragUpTo(calls))
  <2>1. CASE server[s].pc = "emit"
    <3>1. LineOf(server[s].call) \in Seq(FragUpTo(calls))
      BY <1>1, <2>1, LineType DEF Typed
    <3>2. QED
      BY <1>1, <2>1, <3>1, ConcatProperties DEF Lines
  <2>2. CASE server[s].pc # "emit"
    BY <1>1, <2>2 DEF Lines
  <2>3. QED
    BY <2>1, <2>2
<1>3. QED
  BY <1>1, <1>2, LenProperties

(* An emit that fails leaves a beginning of its lines in the file and, at  *)
(* most, what follows it in the buffer.                                    *)
LEMMA EmitFailsWrites ==
    ASSUME Typed, NEW s \in Server, EmitFails(s)
    PROVE  \E m \in 0 .. Len(Lines(s)) : \E n \in 0 .. m : \E rest :
              /\ Wrote(s, n, m, rest) /\ Emitted(s, rest)
<1> DEFINE held == server[s].buffer
           c == server[s].call
<1>1. server[s].pc = "emit" /\ c \in 1 .. calls /\ Lines(s) = held \o LineOf(c)
  BY Zenon DEF EmitFails, Typed, Lines
<1>2. Lines(s) \in Seq(FragUpTo(calls)) /\ held \in Seq(FragUpTo(calls)) /\ calls \in Nat
  BY LinesType
<1>3. ASSUME NEW part, FoundRoom(part, c)
      PROVE  /\ held \o part \in Seq(FragUpTo(calls))
             /\ Begins(held \o part, Lines(s))
  BY <1>1, <1>2, <1>3, LineBegins
<1>7. CASE \E taken \in {held, held \o Text(c), held \o LineOf(c)} :
              \E n \in 0 .. Len(taken) - 1 : Flushes(taken, n) /\ Emitted(s, Rest(taken, n))
  <2>0. PICK taken \in {held, held \o Text(c), held \o LineOf(c)} :
            \E n \in 0 .. Len(taken) - 1 : Flushes(taken, n) /\ Emitted(s, Rest(taken, n))
    BY <1>7
  <2>1. PICK n \in 0 .. Len(taken) - 1 : Flushes(taken, n) /\ Emitted(s, Rest(taken, n))
    BY <2>0
  <2>2. \E part : FoundRoom(part, c) /\ taken = held \o part
    <3>1. held = held \o <<>>
      BY <1>2, ConcatEmptySeq
    <3>2. QED
      BY <3>1 DEF FoundRoom
  <2>3. PICK m \in 0 .. Len(Lines(s)) : taken = SubSeq(Lines(s), 1, m)
    BY <1>3, <2>2 DEF Begins
  <2>4. 0 \in 0 .. m /\ m \in Nat
    BY <2>3
  <2>5. Len(taken) = m
    BY <1>2, <2>3, <2>4, Parts
  <2>6. n \in 0 .. m
    BY <2>4, <2>5
  <2>7. /\ SubSeq(taken, 1, n) = SubSeq(Lines(s), 1, n)
        /\ Rest(taken, n) = SubSeq(Lines(s), n + 1, m)
    BY <1>2, <2>3, <2>5, <2>6, Parts DEF Rest
  <2>8. Wrote(s, n, m, Rest(taken, n))
    BY <2>1, <2>3, <2>7 DEF Wrote, Flushes
  <2>9. QED
    BY <2>1, <2>6, <2>8
<1>8. CASE \E n \in 0 .. 1 : LET written == held \o SubSeq(Text(c), 1, n)
                             IN Flushes(written, Len(written)) /\ Emitted(s, <<>>)
  <2>1. PICK k \in 0 .. 1 : LET written == held \o SubSeq(Text(c), 1, k)
                            IN Flushes(written, Len(written)) /\ Emitted(s, <<>>)
    BY <1>8
  <2> DEFINE part == SubSeq(Text(c), 1, k)
             written == held \o part
  <2>2. Flushes(written, Len(written)) /\ Emitted(s, <<>>)
    BY <2>1
  <2>3. FoundRoom(part, c)
    BY DEF FoundRoom
  <2> HIDE DEF part
  <2>4. written \in Seq(FragUpTo(calls))
    BY <1>3, <2>3
  <2>5. PICK n \in 0 .. Len(Lines(s)) : written = SubSeq(Lines(s), 1, n)
    BY <1>3, <2>3 DEF Begins
  <2>6. SubSeq(written, 1, Len(written)) = written
    BY <2>4, Ends
  <2> HIDE DEF written
  <2>7. Wrote(s, n, n, <<>>)
    BY <2>2, <2>5, <2>6 DEF Wrote, Flushes
  <2>8. n \in 0 .. n
    BY <2>5
  <2>9. QED
    BY <2>2, <2>5, <2>7, <2>8
<1>9. QED
  BY <1>7, <1>8, Zenon DEF EmitFails

(* An emit that succeeds writes all of them.                               *)
LEMMA EmitWrites ==
    ASSUME Typed, NEW s \in Server, Emit(s)
    PROVE  /\ sink' = sink \o Lines(s) /\ Emitted(s, <<>>) /\ UNCHANGED <<torn, faults>>
<1>1. Lines(s) = server[s].buffer \o LineOf(server[s].call)
  BY Zenon DEF Emit, Lines
<1>2. sink' = sink \o Lines(s) /\ Emitted(s, Rest(Lines(s), Len(Lines(s)))) /\ UNCHANGED <<torn, faults>>
  BY <1>1, Zenon DEF Emit
<1>3. Rest(Lines(s), Len(Lines(s))) = <<>>
  <2>1. Len(Lines(s)) \in Nat
    BY LinesType
  <2> DEFINE n == Len(Lines(s))
  <2>2. n \in Int /\ n + 1 \in Int /\ n < n + 1
    BY <2>1
  <2> HIDE DEF n
  <2>3. SubSeq(Lines(s), n + 1, n) = <<>>
    BY <2>2, SubSeqEmpty
  <2>4. QED
    BY <2>3 DEF Rest, n
<1>4. QED
  BY <1>2, <1>3

(* The end of a server writes all, a beginning, or nothing.                *)
LEMMA EndWrites ==
    ASSUME Typed, NEW s \in Server, Stop(s) \/ Crash(s)
    PROVE  /\ server' = [server EXCEPT ![s] = Off]
           /\ \/ sink' = sink \o Lines(s) /\ UNCHANGED <<torn, faults>>
              \/ UNCHANGED <<sink, torn>> /\ Fault
              \/ /\ Fault
                 /\ \E n \in 0 .. Len(Lines(s)) : Wrote(s, n, Len(Lines(s)), <<>>)
<1>1. Len(Lines(s)) \in Nat /\ SubSeq(Lines(s), 1, Len(Lines(s))) = Lines(s)
  BY LinesType, Ends
<1>2. ASSUME NEW n, Flushes(Lines(s), n) PROVE Wrote(s, n, Len(Lines(s)), <<>>)
  BY <1>1, <1>2 DEF Flushes, Wrote
<1>3. CASE Stop(s)
  <2>1. Lines(s) = server[s].buffer
    BY <1>3 DEF Stop, Lines
  <2>2. \A n \in 0 .. Len(Lines(s)) - 1 : n \in 0 .. Len(Lines(s))
    BY <1>1
  <2>3. QED
    BY <1>2, <1>3, <2>1, <2>2 DEF Stop
<1>4. CASE Crash(s)
  <2>1. server' = [server EXCEPT ![s] = Off] /\ Fault
    BY <1>4, Zenon DEF Crash
  <2>2. \/ UNCHANGED <<sink, torn>>
        \/ \E n \in 1 .. Len(Lines(s)) : Flushes(Lines(s), n)
    BY <1>4 DEF Crash, Lines, file
  <2>3. \A n \in 1 .. Len(Lines(s)) : n \in 0 .. Len(Lines(s))
    BY <1>1
  <2>4. QED
    BY <1>2, <2>1, <2>2, <2>3
<1>5. QED
  BY <1>3, <1>4

--------------------------------------------------------------------------------
(* Types                                                                   *)

(* What holds for the fragments of the first m calls holds for n.          *)
LEMMA CallsGrow ==
    ASSUME NEW m \in Nat, NEW n \in Nat, m <= n
    PROVE  /\ Seq(FragUpTo(m)) \subseteq Seq(FragUpTo(n))
           /\ ServerState(m) \subseteq ServerState(n)
<1>1. FragUpTo(m) \subseteq FragUpTo(n)
  BY DEF FragUpTo
<1>2. Seq(FragUpTo(m)) \subseteq Seq(FragUpTo(n))
  BY <1>1, SeqMonotonic
<1>3. 0 .. m \subseteq 0 .. n /\ SUBSET (1 .. m) \subseteq SUBSET (1 .. n)
  OBVIOUS
<1>4. SUBSET [at : Nat, call : 1 .. m] \subseteq SUBSET [at : Nat, call : 1 .. n]
  OBVIOUS
<1>5. QED
  BY <1>2, <1>3, <1>4, Zenon DEF ServerState

(* The other state of a server is left alone.                              *)
LEMMA TypedServer ==
    ASSUME Typed, NEW s \in Server, NEW rec \in ServerState(calls),
           rec.pc = "emit" => rec.call \in 1 .. calls,
           server' = [server EXCEPT ![s] = rec], calls' = calls
    PROVE  /\ server' \in [Server -> ServerState(calls')]
           /\ \A o \in Server : server'[o].pc = "emit" => server'[o].call \in 1 .. calls'
BY DEF Typed

LEMMA WroteType ==
    ASSUME Typed, NEW s \in Server, NEW m \in 0 .. Len(Lines(s)), NEW n \in 0 .. m, NEW rest,
           Wrote(s, n, m, rest)
    PROVE  sink' \in Seq(FragUpTo(calls)) /\ torn' \subseteq 1 .. calls /\ rest \in Seq(FragUpTo(calls))
<1>1. Lines(s) \in Seq(FragUpTo(calls)) /\ calls \in Nat /\ sink \in Seq(FragUpTo(calls))
  BY LinesType DEF Typed
<1>2. n \in 0 .. Len(Lines(s)) /\ 0 \in 0 .. n
  BY LinesType
<1>3. /\ SubSeq(Lines(s), 1, n) \in Seq(FragUpTo(calls))
      /\ SubSeq(Lines(s), 1, m) \in Seq(FragUpTo(calls))
      /\ SubSeq(Lines(s), n + 1, m) \in Seq(FragUpTo(calls))
  BY <1>1, <1>2, Parts
<1>4. sink' \in Seq(FragUpTo(calls))
  BY <1>1, <1>3, ConcatProperties DEF Wrote
<1>5. torn' \subseteq 1 .. calls
  BY <1>1, <1>3, CutType DEF Wrote, Typed
<1>6. rest \in Seq(FragUpTo(calls))
  BY <1>3, EmptySeq DEF Wrote
<1>7. QED
  BY <1>4, <1>5, <1>6

LEMMA EmittedType ==
    ASSUME Typed, NEW s \in Server, NEW rest \in Seq(FragUpTo(calls)), Emitted(s, rest), calls' = calls
    PROVE  /\ server' \in [Server -> ServerState(calls')]
           /\ \A o \in Server : server'[o].pc = "emit" => server'[o].call \in 1 .. calls'
<1> DEFINE rec == [server[s] EXCEPT !.pc = "record", !.buffer = rest]
<1>1. rec \in ServerState(calls) /\ rec.pc = "record"
  BY DEF Typed, ServerState, Pc
<1>2. server' = [server EXCEPT ![s] = rec]
  BY DEF Emitted
<1> HIDE DEF rec
<1>3. QED
  BY <1>1, <1>2, TypedServer

LEMMA TypedInit == Init => Typed
<1> SUFFICES ASSUME Init PROVE Typed
  OBVIOUS
<1>1. <<>> \in Seq(FragUpTo(0))
  BY EmptySeq
<1>2. Off \in ServerState(0)
  BY <1>1 DEF Off, ServerState, Pc
<1>3. QED
  BY <1>1, <1>2, LedgerAssumption DEF Init, Typed, Call, Off

LEMMA TypedStep == Typed /\ [Next]_vars => Typed'
<1> SUFFICES ASSUME Typed, [Next]_vars PROVE Typed'
  OBVIOUS
<1>c. calls \in Nat /\ MaxCalls \in Nat
  BY LedgerAssumption DEF Typed
<1>o. Off \in ServerState(calls) /\ Off.pc = "off"
  BY <1>c, EmptySeq DEF Off, ServerState, Pc
<1>s. ASSUME NEW s \in Server
      PROVE  /\ server[s] \in ServerState(calls)
             /\ server[s].todo \subseteq [at : Nat, call : 1 .. calls]
  BY <1>c DEF Typed, ServerState
<1>p. priced \subseteq Call /\ 1 .. calls \subseteq Call
  BY <1>c DEF Typed, Call
<1>w. ASSUME NEW s \in Server, NEW rec \in ServerState(calls),
             rec.pc = "emit" => rec.call \in 1 .. calls,
             server' = [server EXCEPT ![s] = rec], UNCHANGED <<calls, priced, file>>,
             ledger' \in [Call -> Nat]
      PROVE  Typed'
  BY <1>w, TypedServer DEF Typed, file
<1>1. ASSUME NEW s \in Server, Start(s) PROVE Typed'
  <2> DEFINE reads == [Off EXCEPT !.pc = "keys", !.todo = Events,
                                  !.read = {line.call : line \in Events}]
             serves == [Off EXCEPT !.pc = "serve"]
  <2>1. Events \subseteq [at : Nat, call : 1 .. calls]
    <3>1. \A i \in DOMAIN sink : i \in Nat
      BY LenProperties DEF Typed
    <3>2. \A i \in DOMAIN sink : sink[i].call \in priced => [at |-> i, call |-> sink[i].call] \in [at : Nat, call : 1 .. calls]
      BY <3>1 DEF Typed
    <3>3. QED
      BY <3>2 DEF Events
  <2>2. reads \in ServerState(calls) /\ reads.pc = "keys"
    <3>1. {line.call : line \in Events} \subseteq 1 .. calls
      BY <2>1
    <3> DEFINE lines == Events
               read == {line.call : line \in Events}
    <3> HIDE DEF lines, read
    <3>2. lines \subseteq [at : Nat, call : 1 .. calls] /\ read \subseteq 1 .. calls
      BY <2>1, <3>1 DEF lines, read
    <3>3. LET rec == [Off EXCEPT !.pc = "keys", !.todo = lines, !.read = read]
          IN rec \in ServerState(calls) /\ rec.pc = "keys"
      BY <1>o, <3>2 DEF ServerState, Pc, Off
    <3>4. QED
      BY <3>3 DEF lines, read
  <2>3. serves \in ServerState(calls) /\ serves.pc = "serve"
    BY <1>o DEF ServerState, Pc, Off
  <2>4. /\ server' = [server EXCEPT ![s] = reads] \/ server' = [server EXCEPT ![s] = serves]
        /\ UNCHANGED <<calls, priced, file, ledger>>
    BY <1>1, Zenon DEF Start, tables
  <2> HIDE DEF reads, serves
  <2>5. ledger' \in [Call -> Nat]
    BY <2>4 DEF Typed
  <2>6. QED
    BY <1>w, <2>2, <2>3, <2>4, <2>5
<1>f. ASSUME NEW s \in Server
      PROVE  /\ [server[s] EXCEPT !.pc = "serve", !.todo = {}] \in ServerState(calls)
             /\ [server[s] EXCEPT !.pc = "serve", !.todo = {}].pc = "serve"
  BY <1>s DEF ServerState, Pc
<1>2. ASSUME NEW s \in Server, LoadKeys(s) PROVE Typed'
  <2> DEFINE loaded == [server[s] EXCEPT !.pc = "fill", !.seen = Keys(Counted)]
             failed == [server[s] EXCEPT !.pc = "serve", !.todo = {}]
  <2>1. Keys(Counted) \subseteq Nat
    BY LedgerAssumption DEF Keys, Counted
  <2>2. loaded \in ServerState(calls) /\ loaded.pc = "fill"
    BY <1>s, <2>1 DEF ServerState, Pc
  <2>3. failed \in ServerState(calls) /\ failed.pc = "serve"
    BY <1>f
  <2>4. /\ server' = [server EXCEPT ![s] = loaded] \/ server' = [server EXCEPT ![s] = failed]
        /\ UNCHANGED <<calls, priced, file, ledger>>
    BY <1>2, Zenon DEF LoadKeys, ReplayFails, tables
  <2> HIDE DEF loaded, failed
  <2>5. ledger' \in [Call -> Nat]
    BY <2>4 DEF Typed
  <2>6. QED
    BY <1>w, <2>2, <2>3, <2>4, <2>5
<1>3. ASSUME NEW s \in Server, Fill(s) PROVE Typed'
  <2>1. PICK line \in server[s].todo :
            /\ UNCHANGED <<calls, priced, file>>
            /\ \/ /\ server' = [server EXCEPT ![s].todo = @ \ {line}]
                  /\ UNCHANGED ledger
               \/ /\ ledger' = [ledger EXCEPT ![line.call] = @ + 1]
                  /\ server' = [server EXCEPT ![s].todo = @ \ {line},
                                              ![s].seen = @ \union {Key[line.call]}]
               \/ server' = [server EXCEPT ![s].pc = "serve", ![s].todo = {}] /\ UNCHANGED ledger
    BY <1>3, Zenon DEF Fill, ReplayFails
  <2> DEFINE skipped == [server[s] EXCEPT !.todo = @ \ {line}]
             filled == [server[s] EXCEPT !.todo = @ \ {line}, !.seen = @ \union {Key[line.call]}]
             failed == [server[s] EXCEPT !.pc = "serve", !.todo = {}]
  <2>2. line.call \in Call /\ Key[line.call] \in Nat
    BY <1>s, <1>p, LedgerAssumption
  <2>3. server[s].pc = "fill"
    BY <1>3, Zenon DEF Fill
  <2>4. skipped \in ServerState(calls) /\ skipped.pc = "fill"
    BY <1>s, <2>3 DEF ServerState
  <2>5. filled \in ServerState(calls) /\ filled.pc = "fill"
    BY <1>s, <2>2, <2>3 DEF ServerState
  <2>6. failed \in ServerState(calls) /\ failed.pc = "serve"
    BY <1>f
  <2>7. ledger' \in [Call -> Nat]
    <3>1. ledger' = ledger \/ ledger' = [ledger EXCEPT ![line.call] = @ + 1]
      BY <2>1, Zenon
    <3>2. QED
      BY <2>2, <3>1 DEF Typed
  <2>8. \/ server' = [server EXCEPT ![s] = skipped]
        \/ server' = [server EXCEPT ![s] = filled]
        \/ server' = [server EXCEPT ![s] = failed]
    <3>1. ASSUME server' = [server EXCEPT ![s].todo = @ \ {line}, ![s].seen = @ \union {Key[line.call]}]
          PROVE  server' = [server EXCEPT ![s] = filled]
      BY <3>1, Zenon DEF Typed
    <3>2. ASSUME server' = [server EXCEPT ![s].pc = "serve", ![s].todo = {}]
          PROVE  server' = [server EXCEPT ![s] = failed]
      BY <3>2, Zenon DEF Typed
    <3>3. QED
      BY <2>1, <3>1, <3>2
  <2> HIDE DEF skipped, filled, failed
  <2>9. QED
    BY <1>w, <2>1, <2>4, <2>5, <2>6, <2>7, <2>8
<1>4. ASSUME NEW s \in Server, Ready(s) PROVE Typed'
  <2> DEFINE rec == [server[s] EXCEPT !.pc = "serve", !.whole = TRUE]
  <2>1. rec \in ServerState(calls) /\ rec.pc = "serve"
    BY <1>s DEF ServerState, Pc
  <2>2. server' = [server EXCEPT ![s] = rec] /\ UNCHANGED <<calls, priced, file, ledger>>
    BY <1>4, Zenon DEF Ready, tables
  <2> HIDE DEF rec
  <2>3. QED
    BY <1>w, <2>1, <2>2 DEF Typed
<1>5. ASSUME NEW s \in Server, Answer(s) PROVE Typed'
  <2> DEFINE answered == [server[s] EXCEPT !.pc = "emit", !.call = calls']
  <2>1. /\ calls' \in 0 .. MaxCalls /\ calls' = calls + 1 /\ UNCHANGED <<ledger, file>>
        /\ server' = [server EXCEPT ![s] = answered]
    <3>1. /\ calls' = calls + 1 /\ calls < MaxCalls /\ UNCHANGED <<ledger, file>>
          /\ server' = [server EXCEPT ![s] = [server[s] EXCEPT !.pc = "emit", !.call = calls + 1]]
      BY <1>5, Zenon DEF Answer
    <3>2. calls' \in 0 .. MaxCalls
      BY <3>1, <1>c
    <3>3. QED
      BY <3>1, <3>2
  <2>2. priced' \subseteq 1 .. calls'
    BY <1>5, <1>c, <2>1 DEF Answer, Typed
  <2>3. /\ Seq(FragUpTo(calls)) \subseteq Seq(FragUpTo(calls'))
        /\ ServerState(calls) \subseteq ServerState(calls')
    BY <1>c, <2>1, CallsGrow
  <2>4. answered \in ServerState(calls') /\ answered.call = calls'
    <3>1. server[s] \in ServerState(calls') /\ calls' \in 0 .. calls'
      BY <1>s, <1>c, <2>1, <2>3
    <3>2. QED
      BY <3>1 DEF ServerState, Pc
  <2> HIDE DEF answered
  <2>5. server' \in [Server -> ServerState(calls')]
    BY <2>1, <2>3, <2>4 DEF Typed
  <2>6. ASSUME NEW o \in Server, server'[o].pc = "emit" PROVE server'[o].call \in 1 .. calls'
    <3>1. CASE o = s
      BY <1>c, <2>1, <2>4, <3>1 DEF Typed
    <3>2. CASE o # s
      BY <1>c, <2>1, <2>6, <3>2 DEF Typed
    <3>3. QED
      BY <3>1, <3>2
  <2>7. sink' \in Seq(FragUpTo(calls')) /\ torn' \subseteq 1 .. calls'
    BY <1>c, <2>1, <2>3 DEF Typed, file
  <2>8. QED
    BY <2>1, <2>2, <2>5, <2>6, <2>7 DEF Typed
<1>6. ASSUME NEW s \in Server, Emit(s) PROVE Typed'
  <2>1. sink' = sink \o Lines(s) /\ Emitted(s, <<>>) /\ UNCHANGED torn
    BY <1>6, EmitWrites
  <2>2. UNCHANGED <<calls, priced, ledger>>
    BY <1>6 DEF Emit, tables
  <2>3. sink' \in Seq(FragUpTo(calls))
    BY <2>1, LinesType, ConcatProperties DEF Typed
  <2>4. <<>> \in Seq(FragUpTo(calls))
    BY EmptySeq
  <2>5. /\ server' \in [Server -> ServerState(calls')]
        /\ \A o \in Server : server'[o].pc = "emit" => server'[o].call \in 1 .. calls'
    BY <2>1, <2>2, <2>4, EmittedType
  <2>6. QED
    BY <2>1, <2>2, <2>3, <2>5 DEF Typed
<1>7. ASSUME NEW s \in Server, EmitFails(s) PROVE Typed'
  <2>1. PICK m \in 0 .. Len(Lines(s)) : \E n \in 0 .. m : \E rest :
            Wrote(s, n, m, rest) /\ Emitted(s, rest)
    BY <1>7, EmitFailsWrites
  <2>a. PICK n \in 0 .. m : \E rest : Wrote(s, n, m, rest) /\ Emitted(s, rest)
    BY <2>1
  <2>2. PICK rest : Wrote(s, n, m, rest) /\ Emitted(s, rest)
    BY <2>a
  <2>3. UNCHANGED <<calls, priced, ledger>>
    BY <1>7, Zenon DEF EmitFails, tables
  <2>4. sink' \in Seq(FragUpTo(calls)) /\ torn' \subseteq 1 .. calls /\ rest \in Seq(FragUpTo(calls))
    BY <2>2, WroteType
  <2>5. /\ server' \in [Server -> ServerState(calls')]
        /\ \A o \in Server : server'[o].pc = "emit" => server'[o].call \in 1 .. calls'
    BY <2>2, <2>3, <2>4, EmittedType
  <2>6. QED
    BY <2>3, <2>4, <2>5 DEF Typed
<1>8. ASSUME NEW s \in Server, Record(s) PROVE Typed'
  <2> DEFINE rec == [server[s] EXCEPT !.pc = "serve", !.call = 0]
  <2>1. rec \in ServerState(calls) /\ rec.pc = "serve"
    <3>1. 0 \in 0 .. calls
      BY <1>c
    <3>2. QED
      BY <1>s, <3>1 DEF ServerState, Pc
  <2>2. ledger' \in [Call -> Nat]
    BY <1>8 DEF Record, Typed
  <2>3. server' = [server EXCEPT ![s] = rec] /\ UNCHANGED <<calls, priced, file>>
    BY <1>8, Zenon DEF Record
  <2> HIDE DEF rec
  <2>4. QED
    BY <1>w, <2>1, <2>2, <2>3
<1>9. ASSUME NEW s \in Server, Stop(s) \/ Crash(s) PROVE Typed'
  <2>1. server' = [server EXCEPT ![s] = Off] /\ UNCHANGED <<calls, priced, ledger>>
    BY <1>9, Zenon DEF Stop, Crash, tables
  <2>2. /\ server' \in [Server -> ServerState(calls')]
        /\ \A o \in Server : server'[o].pc = "emit" => server'[o].call \in 1 .. calls'
    BY <1>o, <2>1, TypedServer
  <2>3. sink' \in Seq(FragUpTo(calls)) /\ torn' \subseteq 1 .. calls
    <3>1. CASE sink' = sink \o Lines(s) /\ UNCHANGED <<torn, faults>>
      BY <3>1, LinesType, ConcatProperties DEF Typed
    <3>2. CASE UNCHANGED <<sink, torn>>
      BY <3>2 DEF Typed
    <3>3. CASE \E n \in 0 .. Len(Lines(s)) : Wrote(s, n, Len(Lines(s)), <<>>)
      <4>1. Len(Lines(s)) \in 0 .. Len(Lines(s))
        BY LinesType
      <4>2. QED
        BY <3>3, <4>1, WroteType
    <3>4. QED
      BY <1>9, <3>1, <3>2, <3>3, EndWrites
  <2>4. QED
    BY <2>1, <2>2, <2>3 DEF Typed
<1>10. CASE Rebuild
  BY <1>10 DEF Rebuild, Typed, file
<1>11. CASE UNCHANGED vars
  BY <1>11 DEF vars, Typed, file, tables
<1>12. QED
  BY <1>1, <1>2, <1>3, <1>4, <1>5, <1>6, <1>7, <1>8, <1>9, <1>10, <1>11 DEF Next

--------------------------------------------------------------------------------
(* Why a replay that has got through has all it has read: an event of the  *)
(* file is in the ledger, by its key, or still to do; and what the replay  *)
(* takes as known is known.                                                *)
Known(c) == Key[c] \in Keys(Counted)

Replaying(s) == server[s].pc \in {"keys", "fill"}

ToDo(s, c) == \E line \in server[s].todo : line.call = c

Accounts(s) ==
    /\ server[s].pc = "fill" => server[s].seen \subseteq Keys(Counted)
    /\ Replaying(s) => \A c \in server[s].read : Known(c) \/ ToDo(s, c)
    /\ server[s].whole => \A c \in server[s].read : Known(c)
    /\ Replaying(s) \/ server[s].pc = "off" => ~server[s].whole

ReplayInv == Typed /\ \A s \in Server : Accounts(s)

(* What Fill does, as steps of a record.                                   *)
LEMMA FillSteps ==
    ASSUME Typed, NEW s \in Server, Fill(s)
    PROVE  /\ server[s].pc = "fill" /\ UNCHANGED <<calls, priced, file>>
           /\ \E line \in server[s].todo :
                /\ \/ /\ Skips(s, line.call) /\ UNCHANGED ledger
                      /\ server' = [server EXCEPT ![s] = [server[s] EXCEPT !.todo = @ \ {line}]]
                   \/ /\ ~Skips(s, line.call) /\ ledger' = [ledger EXCEPT ![line.call] = @ + 1]
                      /\ server' = [server EXCEPT ![s] =
                            [server[s] EXCEPT !.todo = @ \ {line}, !.seen = @ \union {Key[line.call]}]]
                   \/ /\ UNCHANGED ledger
                      /\ server' = [server EXCEPT ![s] = [server[s] EXCEPT !.pc = "serve", !.todo = {}]]
<1>1. server[s].pc = "fill" /\ UNCHANGED <<calls, priced, file>>
  BY Zenon DEF Fill
<1>2. PICK line \in server[s].todo :
        \/ /\ Skips(s, line.call) /\ UNCHANGED ledger
           /\ server' = [server EXCEPT ![s].todo = @ \ {line}]
        \/ /\ ~Skips(s, line.call) /\ ledger' = [ledger EXCEPT ![line.call] = @ + 1]
           /\ server' = [server EXCEPT ![s].todo = @ \ {line}, ![s].seen = @ \union {Key[line.call]}]
        \/ /\ UNCHANGED ledger
           /\ server' = [server EXCEPT ![s].pc = "serve", ![s].todo = {}]
  BY Zenon DEF Fill, ReplayFails
<1>3. ASSUME server' = [server EXCEPT ![s].todo = @ \ {line}, ![s].seen = @ \union {Key[line.call]}]
      PROVE  server' = [server EXCEPT ![s] =
                [server[s] EXCEPT !.todo = @ \ {line}, !.seen = @ \union {Key[line.call]}]]
  BY <1>3, Zenon DEF Typed
<1>4. ASSUME server' = [server EXCEPT ![s].pc = "serve", ![s].todo = {}]
      PROVE  server' = [server EXCEPT ![s] = [server[s] EXCEPT !.pc = "serve", !.todo = {}]]
  BY <1>4, Zenon DEF Typed
<1>5. \/ /\ Skips(s, line.call) /\ UNCHANGED ledger
         /\ server' = [server EXCEPT ![s] = [server[s] EXCEPT !.todo = @ \ {line}]]
      \/ /\ ~Skips(s, line.call) /\ ledger' = [ledger EXCEPT ![line.call] = @ + 1]
         /\ server' = [server EXCEPT ![s] =
               [server[s] EXCEPT !.todo = @ \ {line}, !.seen = @ \union {Key[line.call]}]]
      \/ /\ UNCHANGED ledger
         /\ server' = [server EXCEPT ![s] = [server[s] EXCEPT !.pc = "serve", !.todo = {}]]
  BY <1>2, <1>3, <1>4
<1>6. QED
  BY <1>1, <1>5

(* Until the database is deleted no row and no price goes away.            *)
LEMMA LedgerGrows ==
    ASSUME Typed, Next, ~Rebuild
    PROVE  Counted \subseteq Counted' /\ priced \subseteq priced' /\ Keys(Counted) \subseteq Keys(Counted)'
<1>1. priced \subseteq priced'
  BY DEF Next, Start, LoadKeys, Fill, Ready, Answer, Emit, EmitFails, Record, Stop, Crash
<1>2. ledger' = ledger \/ \E c : ledger' = [ledger EXCEPT ![c] = @ + 1]
  BY Zenon
     DEF Next, Start, LoadKeys, Fill, Ready, Answer, Emit, EmitFails, Record, Stop, Crash, tables
<1>3. \A c \in Call : ledger[c] \in Nat
  BY DEF Typed
<1>4. Counted \subseteq Counted'
  BY <1>2, <1>3 DEF Counted, Typed
<1>5. QED
  BY <1>1, <1>4 DEF Keys

(* A server that does nothing keeps its account.                           *)
LEMMA OthersAccount ==
    ASSUME Typed, Next, ~Rebuild, NEW o \in Server, Accounts(o), server'[o] = server[o]
    PROVE  Accounts(o)'
<1>1. Keys(Counted) \subseteq Keys(Counted)'
  BY LedgerGrows
<1>2. \A c : Known(c) => Known(c)'
  BY <1>1 DEF Known
<1>3. QED
  BY <1>1, <1>2 DEF Accounts, Replaying, ToDo

LEMMA ReplayInit == Init => ReplayInv
BY TypedInit DEF Init, ReplayInv, Accounts, Replaying, Off

LEMMA ReplayStep == ReplayInv /\ [Next]_vars => ReplayInv'
<1> SUFFICES ASSUME ReplayInv, [Next]_vars PROVE \A o \in Server : Accounts(o)'
  BY TypedStep DEF ReplayInv
<1>t. Typed /\ \A o \in Server : Accounts(o) /\ server[o] \in ServerState(calls)
  BY DEF ReplayInv, Typed
<1>u. ASSUME NEW s \in Server, Next, ~Rebuild, NEW rec, server' = [server EXCEPT ![s] = rec],
             Accounts(s)'
      PROVE  \A o \in Server : Accounts(o)'
  <2>1. \A o \in Server \ {s} : server'[o] = server[o]
    BY <1>t, <1>u DEF Typed
  <2>2. QED
    BY <1>t, <1>u, <2>1, OthersAccount
<1>g. ASSUME Next, ~Rebuild
      PROVE  Keys(Counted) \subseteq Keys(Counted)' /\ \A c : Known(c) => Known(c)'
  BY <1>g, <1>t, LedgerGrows DEF Known
<1>r. ASSUME NEW s \in Server, server[s].pc # "off" PROVE ~Rebuild
  BY <1>r DEF Rebuild
<1>5. ASSUME NEW s \in Server, NEW rec, Next, ~Rebuild, ~(rec.pc \in {"off", "keys", "fill"}),
             server' = [server EXCEPT ![s] = rec], rec.read = server[s].read,
             rec.whole => server[s].whole
      PROVE  \A o \in Server : Accounts(o)'
  <2>1. server'[s] = rec
    BY <1>t, <1>5 DEF Typed
  <2>2. Accounts(s)'
    BY <1>g, <1>t, <1>5, <2>1 DEF Accounts, Replaying
  <2>3. QED
    BY <1>u, <1>5, <2>2
<1>1. ASSUME NEW s \in Server, Start(s) PROVE \A o \in Server : Accounts(o)'
  <2> DEFINE reads == [Off EXCEPT !.pc = "keys", !.todo = Events,
                                  !.read = {line.call : line \in Events}]
             serves == [Off EXCEPT !.pc = "serve"]
  <2>1. /\ server' = [server EXCEPT ![s] = reads] \/ server' = [server EXCEPT ![s] = serves]
        /\ UNCHANGED ledger /\ Next
    BY <1>1, Zenon DEF Start, Next, tables
  <2>2. /\ reads.pc = "keys" /\ reads.todo = Events /\ reads.whole = FALSE
        /\ reads.read = {line.call : line \in Events}
    BY DEF Off
  <2>3. serves.pc = "serve" /\ serves.whole = FALSE
    BY DEF Off
  <2>4. \A c \in reads.read : \E line \in reads.todo : line.call = c
    BY <2>2
  <2> HIDE DEF reads, serves
  <2>5. Accounts(s)'
    <3>1. server'[s] = reads \/ server'[s] = serves
      BY <1>t, <2>1 DEF Typed
    <3>2. QED
      BY <2>2, <2>3, <2>4, <3>1 DEF Accounts, Replaying, ToDo
  <2>6. \A o \in Server \ {s} : server'[o] = server[o]
    BY <2>1, <1>t DEF Typed
  <2>7. ASSUME NEW o \in Server \ {s} PROVE Accounts(o)'
    BY <1>t, <2>1, <2>6 DEF Accounts, Replaying, ToDo, Known, Counted, Keys
  <2>8. QED
    BY <2>5, <2>7
<1>f. ASSUME NEW s \in Server
      PROVE  LET failed == [server[s] EXCEPT !.pc = "serve", !.todo = {}]
             IN failed.pc = "serve" /\ failed.read = server[s].read /\ failed.whole = server[s].whole
  BY <1>t DEF ServerState
<1>2. ASSUME NEW s \in Server, LoadKeys(s) PROVE \A o \in Server : Accounts(o)'
  <2> DEFINE rec == [server[s] EXCEPT !.pc = "fill", !.seen = Keys(Counted)]
             failed == [server[s] EXCEPT !.pc = "serve", !.todo = {}]
  <2>1. /\ Next /\ ~Rebuild /\ server[s].pc = "keys" /\ UNCHANGED ledger
        /\ server' = [server EXCEPT ![s] = rec] \/ server' = [server EXCEPT ![s] = failed]
    BY <1>2, <1>r, Zenon DEF LoadKeys, ReplayFails, Next, tables
  <2>2. CASE server' = [server EXCEPT ![s] = rec]
    <3>1. server'[s] = rec
      BY <1>t, <2>2 DEF Typed
    <3>2. /\ rec.pc = "fill" /\ rec.seen = Keys(Counted) /\ rec.todo = server[s].todo
          /\ rec.read = server[s].read /\ rec.whole = server[s].whole
      BY <1>t DEF ServerState
    <3> HIDE DEF rec
    <3>3. Accounts(s)'
      BY <1>g, <1>t, <2>1, <3>1, <3>2 DEF Accounts, Replaying, ToDo
    <3>4. QED
      BY <1>u, <2>1, <2>2, <3>3
  <2>3. CASE server' = [server EXCEPT ![s] = failed]
    <3>1. failed.pc = "serve" /\ failed.read = server[s].read /\ failed.whole = server[s].whole
      BY <1>f
    <3> HIDE DEF failed
    <3>2. QED
      BY <1>5, <2>1, <2>3, <3>1
  <2>4. QED
    BY <2>1, <2>2, <2>3
<1>3. ASSUME NEW s \in Server, Fill(s) PROVE \A o \in Server : Accounts(o)'
  <2> DEFINE skipped(line) == [server[s] EXCEPT !.todo = @ \ {line}]
             filled(line) == [server[s] EXCEPT !.todo = @ \ {line}, !.seen = @ \union {Key[line.call]}]
             failed == [server[s] EXCEPT !.pc = "serve", !.todo = {}]
  <2>0. Next /\ ~Rebuild /\ server[s].pc = "fill"
    BY <1>3, <1>r, Zenon DEF Fill, Next
  <2>1. PICK line \in server[s].todo :
          \/ /\ Skips(s, line.call) /\ UNCHANGED ledger
             /\ server' = [server EXCEPT ![s] = skipped(line)]
          \/ /\ ~Skips(s, line.call) /\ ledger' = [ledger EXCEPT ![line.call] = @ + 1]
             /\ server' = [server EXCEPT ![s] = filled(line)]
          \/ /\ UNCHANGED ledger
             /\ server' = [server EXCEPT ![s] = failed]
    BY <1>3, <1>t, FillSteps
  <2>2. CASE Skips(s, line.call) /\ server' = [server EXCEPT ![s] = skipped(line)]
    <3> DEFINE rec == skipped(line)
    <3>1. server'[s] = rec
      BY <1>t, <2>2 DEF Typed
    <3>2. /\ rec.pc = "fill" /\ rec.seen = server[s].seen /\ rec.todo = server[s].todo \ {line}
          /\ rec.read = server[s].read /\ rec.whole = server[s].whole
      BY <1>t, <2>0 DEF ServerState
    <3>3. Known(line.call)
      BY <1>t, <2>0, <2>2 DEF Skips, Accounts, Known
    <3>4. server' = [server EXCEPT ![s] = rec]
      BY <2>2
    <3> HIDE DEF rec
    <3>5. Accounts(s)'
      BY <1>g, <1>t, <2>0, <3>1, <3>2, <3>3 DEF Accounts, Replaying, ToDo
    <3>6. QED
      BY <1>u, <2>0, <3>4, <3>5
  <2>3. CASE /\ ledger' = [ledger EXCEPT ![line.call] = @ + 1]
             /\ server' = [server EXCEPT ![s] = filled(line)]
    <3> DEFINE rec == filled(line)
    <3>1. server'[s] = rec
      BY <1>t, <2>3 DEF Typed
    <3>2. /\ rec.pc = "fill" /\ rec.seen = server[s].seen \union {Key[line.call]}
          /\ rec.todo = server[s].todo \ {line}
          /\ rec.read = server[s].read /\ rec.whole = server[s].whole
      BY <1>t, <2>0 DEF ServerState
    <3>3. line.call \in Call
      <4>1. line.call \in 1 .. calls
        BY <1>t DEF ServerState
      <4>2. QED
        BY <1>t, <4>1, LedgerAssumption DEF Typed, Call
    <3>4. line.call \in Counted'
      <4>1. ledger'[line.call] = ledger[line.call] + 1 /\ ledger[line.call] \in Nat
        BY <1>t, <2>3, <3>3 DEF Typed
      <4>2. QED
        BY <3>3, <4>1 DEF Counted
    <3>5. Key[line.call] \in Keys(Counted)'
      BY <3>4 DEF Keys
    <3>6. server' = [server EXCEPT ![s] = rec]
      BY <2>3
    <3> HIDE DEF rec
    <3>7. Known(line.call)'
      BY <3>5 DEF Known
    <3>8. Accounts(s)'
      BY <1>g, <1>t, <2>0, <3>1, <3>2, <3>5, <3>7 DEF Accounts, Replaying, ToDo
    <3>9. QED
      BY <1>u, <2>0, <3>6, <3>8
  <2>4. CASE server' = [server EXCEPT ![s] = failed]
    <3>1. failed.pc = "serve" /\ failed.read = server[s].read /\ failed.whole = server[s].whole
      BY <1>f
    <3> HIDE DEF failed
    <3>2. QED
      BY <1>5, <2>0, <2>4, <3>1
  <2>5. QED
    BY <2>1, <2>2, <2>3, <2>4
<1>4. ASSUME NEW s \in Server, Ready(s) PROVE \A o \in Server : Accounts(o)'
  <2> DEFINE rec == [server[s] EXCEPT !.pc = "serve", !.whole = TRUE]
  <2>1. /\ server' = [server EXCEPT ![s] = rec] /\ Next /\ ~Rebuild
        /\ server[s].pc = "fill" /\ server[s].todo = {}
    BY <1>4, <1>r, Zenon DEF Ready, Next
  <2>2. server'[s] = rec
    BY <1>t, <2>1 DEF Typed
  <2>3. rec.pc = "serve" /\ rec.read = server[s].read
    BY <1>t DEF ServerState
  <2> HIDE DEF rec
  <2>4. \A c \in server[s].read : Known(c)
    BY <1>t, <2>1 DEF Accounts, Replaying, ToDo
  <2>5. Accounts(s)'
    BY <1>g, <2>1, <2>2, <2>3, <2>4 DEF Accounts, Replaying
  <2>6. QED
    BY <1>u, <2>1, <2>5
<1>6. ASSUME NEW s \in Server, Answer(s) PROVE \A o \in Server : Accounts(o)'
  <2> DEFINE rec == [server[s] EXCEPT !.pc = "emit", !.call = calls + 1]
  <2>1. server' = [server EXCEPT ![s] = rec] /\ Next /\ ~Rebuild
    BY <1>6, <1>r, Zenon DEF Answer, Next
  <2>2. rec.pc = "emit" /\ rec.read = server[s].read /\ rec.whole = server[s].whole
    BY <1>t DEF ServerState
  <2> HIDE DEF rec
  <2>3. QED
    BY <1>5, <2>1, <2>2
<1>7. ASSUME NEW s \in Server, Emit(s) \/ EmitFails(s) PROVE \A o \in Server : Accounts(o)'
  <2> DEFINE with(rest) == [server[s] EXCEPT !.pc = "record", !.buffer = rest]
  <2>1. PICK rest : Emitted(s, rest)
    BY <1>7, <1>t, EmitWrites, EmitFailsWrites
  <2>2. server' = [server EXCEPT ![s] = with(rest)]
    BY <2>1 DEF Emitted
  <2>3. with(rest).pc = "record" /\ with(rest).read = server[s].read /\ with(rest).whole = server[s].whole
    BY <1>t DEF ServerState
  <2>4. Next /\ ~Rebuild
    BY <1>7, <1>r, Zenon DEF Emit, EmitFails, Next
  <2> HIDE DEF with
  <2>5. QED
    BY <1>5, <2>2, <2>3, <2>4
<1>8. ASSUME NEW s \in Server, Record(s) PROVE \A o \in Server : Accounts(o)'
  <2> DEFINE rec == [server[s] EXCEPT !.pc = "serve", !.call = 0]
  <2>1. server' = [server EXCEPT ![s] = rec] /\ Next /\ ~Rebuild
    BY <1>8, <1>r, Zenon DEF Record, Next
  <2>2. rec.pc = "serve" /\ rec.read = server[s].read /\ rec.whole = server[s].whole
    BY <1>t DEF ServerState
  <2> HIDE DEF rec
  <2>3. QED
    BY <1>5, <2>1, <2>2
<1>9. ASSUME NEW s \in Server, Stop(s) \/ Crash(s) PROVE \A o \in Server : Accounts(o)'
  <2>1. server' = [server EXCEPT ![s] = Off] /\ Next /\ ~Rebuild
    BY <1>9, <1>r, Zenon DEF Stop, Crash, Next
  <2>2. server'[s] = Off
    BY <1>t, <2>1 DEF Typed
  <2>3. Accounts(s)'
    BY <2>2 DEF Accounts, Replaying, Off
  <2>4. QED
    BY <1>u, <2>1, <2>3
<1>10. CASE Rebuild
  BY <1>t, <1>10 DEF Rebuild, Accounts, Replaying
<1>11. CASE UNCHANGED vars
  BY <1>t, <1>11 DEF vars, tables, Accounts, Replaying, ToDo, Known, Counted, Keys
<1>12. QED
  BY <1>1, <1>2, <1>3, <1>4, <1>6, <1>7, <1>8, <1>9, <1>10, <1>11 DEF Next

(* Whatever other servers do meanwhile: a server whose replay has got      *)
(* through has every event it read in the ledger, by its key               *)
(* (backfill_from_jsonl).                                                  *)
THEOREM ReplayReconciles == Spec => []Reconciled
<1>1. ReplayInv => Reconciled
  BY DEF ReplayInv, Accounts, Known, Reconciled, Keys
<1>2. QED
  BY <1>1, ReplayInit, ReplayStep, PTL DEF Spec

--------------------------------------------------------------------------------
(* Why no call is counted twice while servers start in turn: a call under  *)
(* way has no row and is in nobody's replay, there is one replay, and what *)
(* it has still to do is known to it where it has its row.                 *)
Flying(s) == server[s].pc \in {"emit", "record"}

Fresh(s) == Flying(s) => server[s].call \in Call /\ ledger[server[s].call] = 0

Apart(s, o) ==
    /\ ~(Replaying(s) /\ Replaying(o))
    /\ Flying(s) /\ Flying(o) => server[s].call # server[o].call

Clear(s, o) ==
    Replaying(s) /\ Flying(o) => \A line \in server[s].todo : line.call # server[o].call

Aware(s) ==
    /\ Replaying(s) => \A line \in server[s].todo : line.call \in priced
    /\ server[s].pc = "fill" =>
          \A line \in server[s].todo : ledger[line.call] > 0 => Key[line.call] \in server[s].seen

OnceInv ==
    /\ Typed /\ CountedOnce
    /\ \A s \in Server : Fresh(s) /\ Aware(s)
    /\ \A s, o \in Server : (s # o => Apart(s, o)) /\ Clear(s, o)

LEMMA OnceInit == Init => OnceInv
BY TypedInit
   DEF Init, OnceInv, CountedOnce, Counted, Fresh, Aware, Apart, Clear, Flying, Replaying, Off

(* What a step of one server that leaves the ledger and the prices alone   *)
(* has to show.                                                            *)
LEMMA OnceByOne ==
    ASSUME OnceInv, Typed', NEW s \in Server, UNCHANGED <<ledger, priced>>,
           NEW rec, server' = [server EXCEPT ![s] = rec],
           rec.pc \in {"emit", "record"} => Flying(s) /\ rec.call = server[s].call,
           rec.pc \in {"keys", "fill"} => Replaying(s) /\ rec.todo \subseteq server[s].todo,
           rec.pc = "fill" => server[s].pc = "fill" /\ rec.seen = server[s].seen
    PROVE  OnceInv'
<1>1. server'[s] = rec /\ \A o \in Server \ {s} : server'[o] = server[o]
  BY DEF OnceInv, Typed
<1>3. CountedOnce'
  BY DEF OnceInv, CountedOnce, Counted
<1>4. \A o \in Server : Flying(o)' => Flying(o) /\ server'[o].call = server[o].call
  BY <1>1 DEF Flying
<1>5. ASSUME NEW o \in Server, Replaying(o)'
      PROVE  Replaying(o) /\ server'[o].todo \subseteq server[o].todo
  BY <1>1, <1>5 DEF Replaying
<1>6. \A o \in Server : server'[o].pc = "fill" => server[o].pc = "fill" /\ server'[o].seen = server[o].seen
  BY <1>1
<1>7. ASSUME NEW o \in Server PROVE Fresh(o)'
  BY <1>4 DEF OnceInv, Fresh
<1>8. ASSUME NEW o \in Server PROVE Aware(o)'
  BY <1>5, <1>6 DEF OnceInv, Aware, Replaying
<1>9. ASSUME NEW o \in Server, NEW q \in Server, o # q PROVE Apart(o, q)'
  BY <1>4, <1>5, <1>9 DEF OnceInv, Apart
<1>10. ASSUME NEW o \in Server, NEW q \in Server PROVE Clear(o, q)'
  BY <1>4, <1>5 DEF OnceInv, Clear
<1>11. QED
  BY <1>3, <1>7, <1>8, <1>9, <1>10 DEF OnceInv

LEMMA OnceStep ==
    ASSUME InTurn
    PROVE  OnceInv /\ [Next]_vars => OnceInv'
<1> SUFFICES ASSUME OnceInv, [Next]_vars PROVE OnceInv'
  OBVIOUS
<1>t. Typed /\ Typed' /\ \A s \in Server : server[s] \in ServerState(calls)
  BY TypedStep DEF OnceInv, Typed
<1>w. ASSUME NEW s \in Server, NEW rec, server' = [server EXCEPT ![s] = rec]
      PROVE  server'[s] = rec /\ \A o \in Server \ {s} : server'[o] = server[o]
  BY <1>t, <1>w DEF Typed
<1>p. priced \subseteq Call /\ 1 .. calls \subseteq Call
  BY <1>t, LedgerAssumption DEF Typed, Call
<1>b. ASSUME NEW s \in Server PROVE \A line \in server[s].todo : line.call \in 1 .. calls
  BY <1>t DEF ServerState
<1>f. ASSUME NEW s \in Server
      PROVE  [server[s] EXCEPT !.pc = "serve", !.todo = {}].pc = "serve"
  BY <1>t DEF ServerState
<1>1. ASSUME NEW s \in Server, Start(s) PROVE OnceInv'
  <2> DEFINE reads == [Off EXCEPT !.pc = "keys", !.todo = Events,
                                  !.read = {line.call : line \in Events}]
             serves == [Off EXCEPT !.pc = "serve"]
  <2>1. /\ server' = [server EXCEPT ![s] = reads] \/ server' = [server EXCEPT ![s] = serves]
        /\ UNCHANGED <<ledger, priced>>
    BY <1>1, Zenon DEF Start, tables
  <2>2. reads.pc = "keys" /\ reads.todo = Events /\ serves.pc = "serve"
    BY DEF Off
  <2>3. \A line \in Events : line.call \in priced
    BY DEF Events
  <2> HIDE DEF reads, serves
  <2>4. \A o \in Server : ~Replaying(o) /\ ~Flying(o)
    BY <1>1 DEF Start, InTurn, Recording, Replaying, Flying
  <2>5. CountedOnce'
    BY <2>1 DEF OnceInv, CountedOnce, Counted
  <2>6. server'[s] \in {reads, serves} /\ \A o \in Server \ {s} : server'[o] = server[o]
    BY <1>w, <2>1
  <2>7. \A o \in Server : /\ ~Flying(o)' /\ server'[o].pc # "fill"
                          /\ Replaying(o)' => o = s /\ server'[o].todo = Events
    BY <2>2, <2>4, <2>6 DEF Flying, Replaying
  <2>8. QED
    BY <1>t, <2>1, <2>3, <2>5, <2>7 DEF OnceInv, Fresh, Aware, Apart, Clear
<1>2. ASSUME NEW s \in Server, LoadKeys(s) PROVE OnceInv'
  <2> DEFINE rec == [server[s] EXCEPT !.pc = "fill", !.seen = Keys(Counted)]
             failed == [server[s] EXCEPT !.pc = "serve", !.todo = {}]
  <2>1. /\ UNCHANGED <<ledger, priced>> /\ server[s].pc = "keys"
        /\ server' = [server EXCEPT ![s] = rec] \/ server' = [server EXCEPT ![s] = failed]
    BY <1>2, Zenon DEF LoadKeys, ReplayFails, tables
  <2>2. CASE server' = [server EXCEPT ![s] = failed]
    <3>1. failed.pc = "serve"
      BY <1>f
    <3> HIDE DEF failed
    <3>2. QED
      BY <1>t, <2>1, <2>2, <3>1, OnceByOne
  <2>3. CASE server' = [server EXCEPT ![s] = rec]
    <3>1. rec.pc = "fill" /\ rec.todo = server[s].todo /\ rec.seen = Keys(Counted)
      BY <1>t DEF ServerState
    <3> HIDE DEF rec
    <3>2. server'[s] = rec /\ \A o \in Server \ {s} : server'[o] = server[o]
      BY <1>w, <2>3
    <3>3. CountedOnce'
      BY <2>1 DEF OnceInv, CountedOnce, Counted
    <3>4. ASSUME NEW o \in Server
          PROVE  /\ (Replaying(o)' <=> Replaying(o)) /\ (Flying(o)' <=> Flying(o))
                 /\ server'[o].todo = server[o].todo
      BY <2>1, <3>1, <3>2 DEF Replaying, Flying
    <3>5. Aware(s)'
      <4>1. ASSUME NEW line \in server[s].todo, ledger[line.call] > 0
            PROVE  Key[line.call] \in Keys(Counted)
        <5>1. line.call \in Call
          BY <1>b, <1>p
        <5>2. QED
          BY <4>1, <5>1 DEF Keys, Counted
      <4>2. \A line \in server[s].todo : line.call \in priced
        BY <2>1 DEF OnceInv, Aware, Replaying
      <4>3. QED
        BY <2>1, <3>1, <3>2, <4>1, <4>2 DEF Aware
    <3>6. ASSUME NEW o \in Server PROVE Fresh(o)' /\ Aware(o)'
      <4>1. Fresh(o)'
        BY <2>1, <2>3, <3>2, <3>4 DEF OnceInv, Fresh, Flying
      <4>2. o # s => Aware(o)'
        BY <2>1, <3>2, <3>4 DEF OnceInv, Aware
      <4>3. QED
        BY <3>5, <4>1, <4>2
    <3>7. ASSUME NEW o \in Server, NEW q \in Server PROVE (o # q => Apart(o, q)') /\ Clear(o, q)'
      BY <2>1, <3>2, <3>4 DEF OnceInv, Apart, Clear, Flying
    <3>8. QED
      BY <1>t, <3>3, <3>6, <3>7 DEF OnceInv
  <2>4. QED
    BY <2>1, <2>2, <2>3
<1>3. ASSUME NEW s \in Server, Fill(s) PROVE OnceInv'
  <2> DEFINE skipped(line) == [server[s] EXCEPT !.todo = @ \ {line}]
             filled(line) == [server[s] EXCEPT !.todo = @ \ {line}, !.seen = @ \union {Key[line.call]}]
             failed == [server[s] EXCEPT !.pc = "serve", !.todo = {}]
  <2>0. UNCHANGED priced /\ server[s].pc = "fill"
    BY <1>3, Zenon DEF Fill
  <2>1. PICK line \in server[s].todo :
          \/ /\ Skips(s, line.call) /\ UNCHANGED ledger
             /\ server' = [server EXCEPT ![s] = skipped(line)]
          \/ /\ ~Skips(s, line.call) /\ ledger' = [ledger EXCEPT ![line.call] = @ + 1]
             /\ server' = [server EXCEPT ![s] = filled(line)]
          \/ /\ UNCHANGED ledger
             /\ server' = [server EXCEPT ![s] = failed]
    BY <1>3, <1>t, FillSteps
  <2>2. CASE UNCHANGED ledger /\ server' = [server EXCEPT ![s] = skipped(line)]
    <3> DEFINE rec == skipped(line)
    <3>1. rec.pc = "fill" /\ rec.seen = server[s].seen /\ rec.todo \subseteq server[s].todo
      BY <1>t, <2>0 DEF ServerState
    <3>2. server' = [server EXCEPT ![s] = rec]
      BY <2>2
    <3> HIDE DEF rec
    <3>3. QED
      BY <1>t, <2>0, <2>2, <3>1, <3>2, OnceByOne DEF Replaying
  <2>3. CASE UNCHANGED ledger /\ server' = [server EXCEPT ![s] = failed]
    <3>1. failed.pc = "serve"
      BY <1>f
    <3> HIDE DEF failed
    <3>2. QED
      BY <1>t, <2>0, <2>3, <3>1, OnceByOne
  <2>4. CASE /\ ~Skips(s, line.call) /\ ledger' = [ledger EXCEPT ![line.call] = @ + 1]
             /\ server' = [server EXCEPT ![s] = filled(line)]
    <3> DEFINE fill == filled(line)
    <3>1. /\ fill.pc = "fill" /\ fill.seen = server[s].seen \union {Key[line.call]}
          /\ fill.todo = server[s].todo \ {line}
      BY <1>t, <2>0 DEF ServerState
    <3>2. Key[line.call] \notin server[s].seen
      BY <2>4 DEF Skips
    <3>3. server' = [server EXCEPT ![s] = fill]
      BY <2>4
    <3> HIDE DEF fill
    <3>4. line.call \in priced /\ line.call \in Call
      BY <1>p, <2>0 DEF OnceInv, Aware, Replaying
    <3>5. ledger[line.call] = 0
      <4>1. ~(ledger[line.call] > 0)
        BY <2>0, <3>2 DEF OnceInv, Aware
      <4>2. QED
        BY <1>t, <3>4, <4>1 DEF Typed
    <3>6. \A c \in Call : ledger'[c] = IF c = line.call THEN 1 ELSE ledger[c]
      BY <1>t, <2>4, <3>4, <3>5 DEF Typed
    <3>7. CountedOnce'
      BY <2>0, <3>4, <3>6 DEF OnceInv, CountedOnce, Counted
    <3>8. server'[s] = fill /\ \A o \in Server \ {s} : server'[o] = server[o]
      BY <1>w, <3>3
    <3>9. ASSUME NEW o \in Server
          PROVE  /\ (Replaying(o)' <=> Replaying(o)) /\ (Flying(o)' <=> Flying(o))
                 /\ Flying(o) => server'[o].call = server[o].call
                 /\ server'[o].todo \subseteq server[o].todo
      BY <2>0, <3>1, <3>8 DEF Replaying, Flying
    <3>10. ASSUME NEW o \in Server PROVE Fresh(o)'
      <4>1. Flying(o) => server[o].call # line.call
        BY <2>0 DEF OnceInv, Clear, Replaying
      <4>2. QED
        BY <3>6, <3>9, <4>1 DEF OnceInv, Fresh
    <3>11. ASSUME NEW o \in Server PROVE Aware(o)'
      <4>1. CASE o # s
        <5>1. ~Replaying(o) /\ server'[o].pc # "fill"
          BY <2>0, <3>8, <4>1 DEF OnceInv, Apart, Replaying
        <5>2. QED
          BY <3>9, <5>1 DEF Aware
      <4>2. CASE o = s
        <5>1. \A other \in fill.todo : other.call \in priced /\ other.call \in Call
          BY <1>p, <2>0, <3>1 DEF OnceInv, Aware, Replaying
        <5>2. ASSUME NEW other \in fill.todo, ledger'[other.call] > 0 PROVE Key[other.call] \in fill.seen
          <6>1. CASE other.call = line.call
            BY <3>1, <6>1
          <6>2. CASE other.call # line.call
            <7>1. ledger[other.call] > 0
              BY <3>6, <5>1, <5>2, <6>2
            <7>2. QED
              BY <2>0, <3>1, <7>1 DEF OnceInv, Aware
          <6>3. QED
            BY <6>1, <6>2
        <5>3. QED
          BY <2>0, <3>8, <4>2, <5>1, <5>2 DEF Aware
      <4>3. QED
        BY <4>1, <4>2
    <3>12. ASSUME NEW o \in Server, NEW q \in Server PROVE (o # q => Apart(o, q)') /\ Clear(o, q)'
      BY <3>9 DEF OnceInv, Apart, Clear
    <3>13. QED
      BY <1>t, <3>7, <3>10, <3>11, <3>12 DEF OnceInv
  <2>5. QED
    BY <2>1, <2>2, <2>3, <2>4
<1>4. ASSUME NEW s \in Server, Ready(s) PROVE OnceInv'
  <2> DEFINE rec == [server[s] EXCEPT !.pc = "serve", !.whole = TRUE]
  <2>1. server' = [server EXCEPT ![s] = rec] /\ UNCHANGED <<ledger, priced>>
    BY <1>4, Zenon DEF Ready, tables
  <2>2. rec.pc = "serve"
    BY <1>t DEF ServerState
  <2> HIDE DEF rec
  <2>3. QED
    BY <1>t, <2>1, <2>2, OnceByOne
<1>5. ASSUME NEW s \in Server, Answer(s) PROVE OnceInv'
  <2> DEFINE c == calls + 1
             rec == [server[s] EXCEPT !.pc = "emit", !.call = c]
  <2>1. /\ server' = [server EXCEPT ![s] = rec] /\ UNCHANGED ledger
        /\ server[s].pc = "serve" /\ priced' \in {priced, priced \union {c}} /\ calls < MaxCalls
    BY <1>5, Zenon DEF Answer
  <2>2. rec.pc = "emit" /\ rec.call = c
    BY <1>t DEF ServerState
  <2> HIDE DEF rec
  <2>3. server'[s] = rec /\ \A o \in Server \ {s} : server'[o] = server[o]
    BY <1>w, <2>1
  <2>4. calls \in Nat /\ c \in Call /\ c \notin priced /\ c > calls
    BY <1>t, <2>1, LedgerAssumption DEF Typed, Call
  <2>5. ledger[c] = 0
    BY <1>t, <2>4 DEF OnceInv, CountedOnce, Counted, Typed
  <2>6. CountedOnce'
    BY <2>1 DEF OnceInv, CountedOnce, Counted
  <2>7. priced \subseteq priced'
    BY <2>1
  <2>8. ASSUME NEW o \in Server PROVE \A line \in server[o].todo : line.call # c
    BY <1>b, <2>4
  <2>9. ASSUME NEW o \in Server, Flying(o) PROVE server[o].call # c
    BY <1>t, <2>4, <2>9 DEF ServerState
  <2> HIDE DEF c
  <2>10. ASSUME NEW o \in Server
         PROVE  (Replaying(o)' => o # s /\ Replaying(o)) /\ (Flying(o)' => o = s \/ (o # s /\ Flying(o)))
    BY <2>2, <2>3 DEF Replaying, Flying
  <2>11. ASSUME NEW o \in Server PROVE Fresh(o)'
    BY <2>1, <2>2, <2>3, <2>4, <2>5, <2>10 DEF OnceInv, Fresh
  <2>12. ASSUME NEW o \in Server PROVE Aware(o)'
    <3>1. CASE o # s
      BY <2>1, <2>3, <2>7, <2>10, <3>1 DEF OnceInv, Aware
    <3>2. CASE o = s
      BY <2>2, <2>3, <2>10, <3>2 DEF Aware
    <3>3. QED
      BY <3>1, <3>2
  <2>13. ASSUME NEW o \in Server, NEW q \in Server PROVE (o # q => Apart(o, q)') /\ Clear(o, q)'
    BY <2>2, <2>3, <2>8, <2>9, <2>10 DEF OnceInv, Apart, Clear
  <2>14. QED
    BY <1>t, <2>6, <2>11, <2>12, <2>13 DEF OnceInv
<1>6. ASSUME NEW s \in Server, Emit(s) \/ EmitFails(s) PROVE OnceInv'
  <2> DEFINE with(rest) == [server[s] EXCEPT !.pc = "record", !.buffer = rest]
  <2>1. PICK rest : Emitted(s, rest)
    BY <1>6, <1>t, EmitWrites, EmitFailsWrites
  <2>2. server' = [server EXCEPT ![s] = with(rest)]
    BY <2>1 DEF Emitted
  <2>3. UNCHANGED <<ledger, priced>> /\ server[s].pc = "emit"
    BY <1>6, Zenon DEF Emit, EmitFails, tables
  <2>4. with(rest).pc = "record" /\ with(rest).call = server[s].call
    BY <1>t DEF ServerState
  <2> HIDE DEF with
  <2>5. QED
    BY <1>t, <2>2, <2>3, <2>4, OnceByOne DEF Flying
<1>7. ASSUME NEW s \in Server, Record(s) PROVE OnceInv'
  <2> DEFINE c == server[s].call
             rec == [server[s] EXCEPT !.pc = "serve", !.call = 0]
  <2>1. /\ server' = [server EXCEPT ![s] = rec] /\ UNCHANGED priced /\ server[s].pc = "record"
        /\ \/ UNCHANGED ledger
           \/ c \in priced /\ ledger' = [ledger EXCEPT ![c] = @ + 1]
    BY <1>7, Zenon DEF Record, Records
  <2>2. rec.pc = "serve"
    BY <1>t DEF ServerState
  <2> HIDE DEF rec
  <2>3. CASE UNCHANGED ledger
    BY <1>t, <2>1, <2>2, <2>3, OnceByOne
  <2>4. CASE c \in priced /\ ledger' = [ledger EXCEPT ![c] = @ + 1]
    <3>1. server'[s] = rec /\ \A o \in Server \ {s} : server'[o] = server[o]
      BY <1>w, <2>1
    <3>2. Flying(s) /\ c \in Call /\ ledger[c] = 0
      BY <2>1 DEF OnceInv, Fresh, Flying
    <3>3. \A d \in Call : ledger'[d] = IF d = c THEN 1 ELSE ledger[d]
      BY <1>t, <2>4, <3>2 DEF Typed
    <3>4. CountedOnce'
      BY <2>1, <2>4, <3>3 DEF OnceInv, CountedOnce, Counted
    <3>5. ASSUME NEW o \in Server
          PROVE  (Replaying(o)' => o # s /\ Replaying(o)) /\ (Flying(o)' => o # s /\ Flying(o))
      BY <2>2, <3>1 DEF Replaying, Flying
    <3>6. ASSUME NEW o \in Server PROVE Fresh(o)'
      BY <3>1, <3>2, <3>3, <3>5 DEF OnceInv, Fresh, Apart
    <3>7. ASSUME NEW o \in Server PROVE Aware(o)'
      <4>1. ASSUME Replaying(o)', NEW line \in server[o].todo
            PROVE  /\ line.call \in priced /\ line.call \in Call
                   /\ ledger'[line.call] = ledger[line.call]
        <5>1. o # s /\ Replaying(o)
          BY <3>5, <4>1
        <5>2. line.call # c
          BY <3>2, <5>1 DEF OnceInv, Clear
        <5>3. line.call \in priced /\ line.call \in Call
          BY <1>p, <5>1 DEF OnceInv, Aware
        <5>4. QED
          BY <3>3, <5>2, <5>3
      <4>2. Replaying(o)' => server'[o] = server[o]
        BY <3>1, <3>5
      <4>3. server'[o].pc = "fill" => Replaying(o)'
        BY DEF Replaying
      <4>4. QED
        BY <2>1, <4>1, <4>2, <4>3 DEF OnceInv, Aware
    <3>8. ASSUME NEW o \in Server, NEW q \in Server PROVE (o # q => Apart(o, q)') /\ Clear(o, q)'
      BY <3>1, <3>5 DEF OnceInv, Apart, Clear
    <3>9. QED
      BY <1>t, <3>4, <3>6, <3>7, <3>8 DEF OnceInv
  <2>5. QED
    BY <2>1, <2>3, <2>4
<1>8. ASSUME NEW s \in Server, Stop(s) \/ Crash(s) PROVE OnceInv'
  <2>1. server' = [server EXCEPT ![s] = Off] /\ UNCHANGED <<ledger, priced>>
    BY <1>8, Zenon DEF Stop, Crash, tables
  <2>2. Off.pc = "off"
    BY DEF Off
  <2>3. QED
    BY <1>t, <2>1, <2>2, OnceByOne
<1>9. CASE Rebuild
  <2>1. \A s \in Server : ~Flying(s)' /\ ~Replaying(s)' /\ server'[s].pc # "fill"
    BY <1>9 DEF Rebuild, Flying, Replaying
  <2>2. CountedOnce'
    BY <1>9 DEF Rebuild, CountedOnce, Counted
  <2>3. QED
    BY <1>t, <2>1, <2>2 DEF OnceInv, Fresh, Aware, Apart, Clear
<1>10. CASE UNCHANGED vars
  BY <1>t, <1>10
     DEF vars, tables, OnceInv, CountedOnce, Counted, Fresh, Aware, Apart, Clear, Flying, Replaying
<1>11. QED
  BY <1>1, <1>2, <1>3, <1>4, <1>5, <1>6, <1>7, <1>8, <1>9, <1>10 DEF Next

(* While servers start in turn no call is counted twice, and none that has *)
(* no price, whatever fails and whoever is killed (backfill_from_jsonl,    *)
(* record_event).                                                          *)
THEOREM NeverCountedTwice ==
    ASSUME InTurn
    PROVE  Spec => []CountedOnce
<1>1. OnceInv => CountedOnce
  BY DEF OnceInv
<1>2. OnceInv /\ [Next]_vars => OnceInv'
  BY OnceStep
<1>3. QED
  BY <1>1, <1>2, OnceInit, PTL DEF Spec

--------------------------------------------------------------------------------
(* Why the file is a log.  Fragments follow each other as they do in a     *)
(* line, or one line ends and another begins; where a line ends too early  *)
(* or begins too late, its call is torn.                                   *)
Opens(b, T) == b.seg = 1 \/ b.call \in T

Closes(a, T) == a.seg = 3 \/ a.call \in T

Follows(a, b, T) ==
    \/ a.seg # 3 /\ b = [call |-> a.call, seg |-> a.seg + 1]
    \/ Closes(a, T) /\ Opens(b, T)

Log(seq, T) ==
    \A i \in 1 .. Len(seq) :
        /\ i = 1 => Opens(seq[i], T)
        /\ i = Len(seq) => Closes(seq[i], T)
        /\ i < Len(seq) => Follows(seq[i], seq[i + 1], T)

Distinct(seq) == \A i, j \in 1 .. Len(seq) : i # j => seq[i] # seq[j]

Fragments(seq) == {seq[i] : i \in 1 .. Len(seq)}

Tidy(s) ==
    /\ Log(Lines(s), torn) /\ Distinct(Lines(s))
    /\ Fragments(Lines(s)) \intersect Fragments(sink) = {}

SinkInv ==
    /\ Typed /\ faults \in Nat
    /\ Log(sink, torn) /\ Distinct(sink)
    /\ IsFiniteSet(torn) /\ Cardinality(torn) <= 2 * faults
    /\ \A s \in Server : Tidy(s)
    /\ \A s, o \in Server : s # o => Fragments(Lines(s)) \intersect Fragments(Lines(o)) = {}

(* A log is one with more that is torn.                                    *)
LEMMA LogGrows ==
    ASSUME NEW seq, NEW T, NEW U, Log(seq, T), T \subseteq U
    PROVE  Log(seq, U)
BY DEF Log, Opens, Closes, Follows

(* Two logs are one.                                                       *)
LEMMA LogJoins ==
    ASSUME NEW S, NEW a \in Seq(S), NEW b \in Seq(S), NEW T, Log(a, T), Log(b, T)
    PROVE  Log(a \o b, T)
<1> DEFINE ab == a \o b
<1>1. Len(a) \in Nat /\ Len(b) \in Nat
  BY LenProperties
<1>2. /\ Len(ab) = Len(a) + Len(b)
      /\ \A i \in 1 .. Len(a) + Len(b) : ab[i] = IF i <= Len(a) THEN a[i] ELSE b[i - Len(a)]
  BY ConcatProperties
<1> HIDE DEF ab
<1>3. ASSUME NEW i \in 1 .. Len(a) + Len(b)
      PROVE  /\ i = 1 => Opens(ab[i], T)
             /\ i = Len(ab) => Closes(ab[i], T)
             /\ i < Len(ab) => Follows(ab[i], ab[i + 1], T)
  <2>1. CASE i < Len(a)
    <3>1. i \in 1 .. Len(a) /\ i + 1 \in 1 .. Len(a) + Len(b) /\ ab[i] = a[i] /\ ab[i + 1] = a[i + 1]
      BY <1>1, <1>2, <2>1
    <3>2. QED
      BY <1>1, <1>2, <2>1, <3>1 DEF Log
  <2>2. CASE i = Len(a)
    <3>1. i \in 1 .. Len(a) /\ ab[i] = a[i] /\ Closes(a[i], T) /\ (i = 1 => Opens(a[i], T))
      BY <1>1, <1>2, <2>2 DEF Log
    <3>2. ASSUME i < Len(ab) PROVE Opens(ab[i + 1], T)
      <4>1. i + 1 \in 1 .. Len(a) + Len(b) /\ ~(i + 1 <= Len(a)) /\ i + 1 - Len(a) = 1 /\ 1 \in 1 .. Len(b)
        BY <1>1, <1>2, <2>2, <3>2
      <4>2. ab[i + 1] = b[1]
        BY <1>2, <4>1
      <4>3. QED
        BY <4>1, <4>2 DEF Log
    <3>3. QED
      BY <3>1, <3>2 DEF Follows
  <2>3. CASE i > Len(a)
    <3> DEFINE k == i - Len(a)
    <3>1. /\ k \in 1 .. Len(b) /\ ~(i <= Len(a)) /\ (i = Len(ab) <=> k = Len(b))
          /\ (i < Len(ab) <=> k < Len(b)) /\ (i = 1 => k = 1)
          /\ (i < Len(ab) => i + 1 \in 1 .. Len(a) + Len(b) /\ ~(i + 1 <= Len(a)) /\ i + 1 - Len(a) = k + 1)
      BY <1>1, <1>2, <2>3
    <3>2. ab[i] = b[k] /\ (i < Len(ab) => ab[i + 1] = b[k + 1])
      BY <1>2, <3>1
    <3> HIDE DEF k
    <3>3. QED
      BY <3>1, <3>2 DEF Log
  <2>4. QED
    BY <1>1, <2>1, <2>2, <2>3
<1>4. QED
  BY <1>2, <1>3 DEF Log, ab

(* A beginning of a log is one when the line it cuts is torn.              *)
LEMMA LogBegins ==
    ASSUME NEW S, NEW seq \in Seq(S), NEW n \in 0 .. Len(seq), NEW T, NEW U,
           Log(seq, T), T \subseteq U, Cut(SubSeq(seq, 1, n)) \subseteq U
    PROVE  Log(SubSeq(seq, 1, n), U)
<1> DEFINE part == SubSeq(seq, 1, n)
<1>1. Len(seq) \in Nat /\ n \in Nat /\ 0 \in 0 .. n
  BY LenProperties
<1>2. part \in Seq(S) /\ Len(part) = n /\ \A i \in 1 .. n : part[i] = seq[i]
  BY <1>1, Parts
<1>3. Log(seq, U)
  BY LogGrows
<1> HIDE DEF part
<1>4. n > 0 => Closes(part[n], U)
  <2>1. CASE n > 0
    <3>1. part # <<>>
      BY <1>1, <1>2, <2>1, EmptySeq
    <3>2. part[n].seg = 3 \/ part[n].call \in Cut(part)
      BY <1>2, <3>1 DEF Cut, Last
    <3>3. QED
      BY <3>2 DEF Closes, part
  <2>2. QED
    BY <2>1
<1>5. ASSUME NEW i \in 1 .. n
      PROVE  /\ i = 1 => Opens(part[i], U)
             /\ i = n => Closes(part[i], U)
             /\ i < n => Follows(part[i], part[i + 1], U)
  <2>1. i \in 1 .. Len(seq) /\ (i < n => i + 1 \in 1 .. n /\ i < Len(seq)) /\ n > 0
    BY <1>1
  <2>2. QED
    BY <1>2, <1>3, <1>4, <2>1 DEF Log
<1>6. QED
  BY <1>2, <1>5 DEF Log, part

(* And so is what follows it.                                              *)
LEMMA LogRests ==
    ASSUME NEW S, NEW seq \in Seq(S), NEW m \in 0 .. Len(seq), NEW n \in 0 .. m, NEW T, NEW U,
           Log(seq, T), T \subseteq U, Cut(SubSeq(seq, 1, n)) \subseteq U,
           Cut(SubSeq(seq, 1, m)) \subseteq U
    PROVE  Log(SubSeq(seq, n + 1, m), U)
<1> DEFINE part == SubSeq(seq, n + 1, m)
           first == SubSeq(seq, 1, m)
           before == SubSeq(seq, 1, n)
<1>1. Len(seq) \in Nat /\ m \in Nat /\ n \in Nat /\ n <= m /\ m <= Len(seq)
  BY LenProperties
<1>2. /\ part \in Seq(S) /\ Len(part) = m - n /\ \A i \in 1 .. m - n : part[i] = seq[n + i]
  BY Parts
<1>3. Log(first, U) /\ Len(first) = m /\ \A i \in 1 .. m : first[i] = seq[i]
  BY Parts, LogBegins
<1>b. n \in 0 .. Len(seq) /\ 0 \in 0 .. n
  BY <1>1
<1>4. before \in Seq(S) /\ Len(before) = n /\ \A i \in 1 .. n : before[i] = seq[i]
  BY <1>b, Parts
<1> HIDE DEF part, first, before
<1>5. n < m => Opens(seq[n + 1], U)
  <2>1. CASE n = 0 /\ n < m
    <3>1. 1 \in 1 .. m
      BY <1>1, <2>1
    <3>2. QED
      BY <1>3, <2>1, <3>1 DEF Log
  <2>2. CASE n > 0 /\ n < m
    <3>1. n \in 1 .. m /\ n + 1 \in 1 .. m /\ n \in 1 .. n
      BY <1>1, <2>2
    <3>2. Follows(seq[n], seq[n + 1], U)
      BY <1>3, <2>2, <3>1 DEF Log
    <3>3. seq[n].seg # 3 => seq[n].call \in U
      <4>1. before # <<>>
        BY <1>1, <1>4, <2>2, EmptySeq
      <4>2. seq[n].seg # 3 => seq[n].call \in Cut(before)
        BY <1>4, <3>1, <4>1 DEF Cut, Last
      <4>3. QED
        BY <4>2 DEF before
    <3>4. QED
      BY <3>2, <3>3 DEF Follows, Opens
  <2>3. QED
    BY <1>1, <2>1, <2>2
<1>6. ASSUME NEW i \in 1 .. m - n
      PROVE  /\ i = 1 => Opens(part[i], U)
             /\ i = m - n => Closes(part[i], U)
             /\ i < m - n => Follows(part[i], part[i + 1], U)
  <2>1. /\ n + i \in 1 .. m /\ (i = m - n => n + i = m) /\ n < m
        /\ (i < m - n => i + 1 \in 1 .. m - n /\ n + i < m /\ n + i + 1 \in 1 .. m /\ n + (i + 1) = n + i + 1)
    BY <1>1
  <2>2. part[i] = seq[n + i] /\ first[n + i] = seq[n + i]
    BY <1>2, <1>3, <2>1
  <2>3. i = 1 => Opens(part[i], U)
    BY <1>5, <2>1, <2>2
  <2>4. i = m - n => Closes(part[i], U)
    BY <1>3, <2>1, <2>2 DEF Log
  <2>5. i < m - n => Follows(part[i], part[i + 1], U)
    <3>1. i < m - n => part[i + 1] = seq[n + i + 1] /\ first[n + i + 1] = seq[n + i + 1]
      BY <1>2, <1>3, <2>1
    <3>2. QED
      BY <1>3, <2>1, <2>2, <3>1 DEF Log
  <2>6. QED
    BY <2>3, <2>4, <2>5
<1>7. QED
  BY <1>2, <1>6 DEF Log, part

(* The line of a call is a log of its fragments.                           *)
LEMMA LineIsLog ==
    ASSUME NEW n \in Nat, NEW c \in 1 .. n, NEW T
    PROVE  /\ Log(LineOf(c), T) /\ Distinct(LineOf(c))
           /\ \A x \in Fragments(LineOf(c)) : x.call = c
<1> DEFINE line == LineOf(c)
<1>1. Len(line) = 3 /\ \A i \in 1 .. 3 : line[i] = [call |-> c, seg |-> i]
  BY LineType
<1> HIDE DEF line
<1>2. \A i \in 1 .. 3 : line[i].call = c /\ line[i].seg = i
  BY <1>1
<1>3. \A i \in 1 .. 3 : (i < 3 => i + 1 \in 1 .. 3 /\ i # 3)
  OBVIOUS
<1>4. Log(line, T)
  BY <1>1, <1>2, <1>3 DEF Log, Opens, Closes, Follows
<1>5. Distinct(line) /\ \A x \in Fragments(line) : x.call = c
  BY <1>1, <1>2 DEF Distinct, Fragments
<1>6. QED
  BY <1>4, <1>5 DEF line

LEMMA DistinctJoins ==
    ASSUME NEW S, NEW a \in Seq(S), NEW b \in Seq(S)
    PROVE  /\ Fragments(a \o b) = Fragments(a) \union Fragments(b)
           /\ Distinct(a) /\ Distinct(b) /\ Fragments(a) \intersect Fragments(b) = {}
                => Distinct(a \o b)
<1> DEFINE ab == a \o b
<1>1. Len(a) \in Nat /\ Len(b) \in Nat
  BY LenProperties
<1>2. /\ Len(ab) = Len(a) + Len(b)
      /\ \A i \in 1 .. Len(a) + Len(b) : ab[i] = IF i <= Len(a) THEN a[i] ELSE b[i - Len(a)]
  BY ConcatProperties
<1> HIDE DEF ab
<1>3. /\ \A i \in 1 .. Len(a) : i \in 1 .. Len(a) + Len(b) /\ ab[i] = a[i]
      /\ \A i \in 1 .. Len(b) : Len(a) + i \in 1 .. Len(a) + Len(b) /\ ab[Len(a) + i] = b[i]
  <2>1. ASSUME NEW i \in 1 .. Len(b)
        PROVE  Len(a) + i \in 1 .. Len(a) + Len(b) /\ ~(Len(a) + i <= Len(a)) /\ Len(a) + i - Len(a) = i
    BY <1>1
  <2>2. \A i \in 1 .. Len(a) : i \in 1 .. Len(a) + Len(b) /\ i <= Len(a)
    BY <1>1
  <2>3. QED
    BY <1>2, <2>1, <2>2
<1>4. \A i \in 1 .. Len(a) + Len(b) :
        \/ i \in 1 .. Len(a) /\ ab[i] = a[i]
        \/ ~(i <= Len(a)) /\ i - Len(a) \in 1 .. Len(b) /\ ab[i] = b[i - Len(a)]
  BY <1>1, <1>2
<1>5. Fragments(ab) \subseteq Fragments(a) \union Fragments(b)
  BY <1>2, <1>4 DEF Fragments
<1>6. Fragments(a) \subseteq Fragments(ab) /\ Fragments(b) \subseteq Fragments(ab)
  BY <1>2, <1>3 DEF Fragments
<1>7. ASSUME Distinct(a), Distinct(b), Fragments(a) \intersect Fragments(b) = {}
      PROVE  Distinct(ab)
  <2>1. \A i \in 1 .. Len(a) : \A j \in 1 .. Len(b) : a[i] # b[j]
    BY <1>7 DEF Fragments
  <2>2. ASSUME NEW i \in 1 .. Len(a) + Len(b), NEW j \in 1 .. Len(a) + Len(b), i # j
        PROVE  ab[i] # ab[j]
    <3>1. CASE i <= Len(a) /\ j <= Len(a)
      BY <1>4, <1>7, <2>2, <3>1 DEF Distinct
    <3>2. CASE ~(i <= Len(a)) /\ ~(j <= Len(a))
      <4>1. i - Len(a) # j - Len(a)
        BY <1>1, <2>2
      <4>2. i \notin 1 .. Len(a) /\ j \notin 1 .. Len(a)
        BY <1>1, <3>2
      <4>3. QED
        BY <1>4, <1>7, <4>1, <4>2 DEF Distinct
    <3>3. CASE ~(i <= Len(a) <=> j <= Len(a))
      <4>1. (~(i <= Len(a)) => i \notin 1 .. Len(a)) /\ (~(j <= Len(a)) => j \notin 1 .. Len(a))
        BY <1>1
      <4>2. QED
        BY <1>4, <2>1, <3>3, <4>1
    <3>4. QED
      BY <3>1, <3>2, <3>3
  <2>3. QED
    BY <1>2, <2>2 DEF Distinct
<1>8. QED
  BY <1>5, <1>6, <1>7 DEF ab

(* The parts of a sequence have what it has, each its own.                 *)
LEMMA PartFragments ==
    ASSUME NEW S, NEW seq \in Seq(S), NEW m \in 0 .. Len(seq), NEW n \in 0 .. m, Distinct(seq)
    PROVE  LET first == SubSeq(seq, 1, n)
               rest == SubSeq(seq, n + 1, m)
           IN  /\ Distinct(first) /\ Distinct(rest)
               /\ Fragments(first) \union Fragments(rest) \subseteq Fragments(seq)
               /\ Fragments(first) \intersect Fragments(rest) = {}
<1> DEFINE first == SubSeq(seq, 1, n)
           rest == SubSeq(seq, n + 1, m)
<1>1. Len(seq) \in Nat /\ m \in Nat /\ n \in Nat /\ n <= m /\ m <= Len(seq)
  BY LenProperties
<1>2. n \in 0 .. Len(seq) /\ 0 \in 0 .. n
  BY <1>1
<1>3. Len(first) = n /\ \A i \in 1 .. n : first[i] = seq[i]
  BY <1>2, Parts
<1>4. Len(rest) = m - n /\ \A i \in 1 .. m - n : rest[i] = seq[n + i]
  BY Parts
<1> HIDE DEF first, rest
<1>5. /\ \A i \in 1 .. n : i \in 1 .. Len(seq)
      /\ \A i \in 1 .. m - n : n + i \in 1 .. Len(seq)
      /\ \A i \in 1 .. n : \A j \in 1 .. m - n : i # n + j
      /\ \A i, j \in 1 .. m - n : i # j => n + i # n + j
  BY <1>1
<1>6. Distinct(first) /\ Distinct(rest)
  <2>1. ASSUME NEW i \in 1 .. n, NEW j \in 1 .. n, i # j PROVE first[i] # first[j]
    BY <1>3, <1>5, <2>1 DEF Distinct
  <2>2. ASSUME NEW i \in 1 .. m - n, NEW j \in 1 .. m - n, i # j PROVE rest[i] # rest[j]
    <3>1. n + i # n + j /\ n + i \in 1 .. Len(seq) /\ n + j \in 1 .. Len(seq)
      BY <1>5, <2>2
    <3>2. seq[n + i] # seq[n + j]
      BY <3>1 DEF Distinct
    <3>3. QED
      BY <1>4, <3>2
  <2>3. QED
    BY <1>3, <1>4, <2>1, <2>2 DEF Distinct
<1>7. Fragments(first) \union Fragments(rest) \subseteq Fragments(seq)
  BY <1>3, <1>4, <1>5 DEF Fragments
<1>8. Fragments(first) \intersect Fragments(rest) = {}
  <2>1. ASSUME NEW i \in 1 .. n, NEW j \in 1 .. m - n PROVE first[i] # rest[j]
    <3>1. i # n + j /\ i \in 1 .. Len(seq) /\ n + j \in 1 .. Len(seq)
      BY <1>5
    <3>2. seq[i] # seq[n + j]
      BY <3>1 DEF Distinct
    <3>3. QED
      BY <1>3, <1>4, <3>2
  <2>2. QED
    BY <1>3, <1>4, <2>1 DEF Fragments
<1>9. QED
  BY <1>6, <1>7, <1>8 DEF first, rest

(* What is cut by one fault: the line it is in, and that of its call.      *)
LEMMA CutSmall ==
    ASSUME IsFiniteSet(torn), faults \in Nat, Cardinality(torn) <= 2 * faults, NEW a, NEW b,
           NEW more, more \subseteq torn \union Cut(a) \union Cut(b)
    PROVE  IsFiniteSet(more) /\ Cardinality(more) <= 2 * (faults + 1)
<1>1. ASSUME NEW x PROVE IsFiniteSet(Cut(x)) /\ Cardinality(Cut(x)) <= 1
  <2>1. Cut(x) = {} \/ Cut(x) = {Last(x).call}
    BY DEF Cut
  <2>2. CASE Cut(x) = {}
    BY <2>2, FS_EmptySet
  <2>3. CASE Cut(x) = {Last(x).call}
    <3>1. IsFiniteSet({Last(x).call}) /\ Cardinality({Last(x).call}) = 1
      BY FS_Singleton, Zenon
    <3>2. IsFiniteSet(Cut(x)) /\ Cardinality(Cut(x)) = 1
      BY <2>3, <3>1, Zenon
    <3>3. QED
      BY <3>2
  <2>4. QED
    BY <2>1, <2>2, <2>3
<1>2. ASSUME NEW A, NEW B, IsFiniteSet(A), IsFiniteSet(B)
      PROVE  /\ IsFiniteSet(A \union B) /\ Cardinality(A \union B) \in Nat /\ Cardinality(A) \in Nat
             /\ Cardinality(B) \in Nat /\ Cardinality(A \union B) <= Cardinality(A) + Cardinality(B)
  <2> DEFINE AB == A \union B
             C == A \intersect B
  <2>1. IsFiniteSet(C) /\ C \in SUBSET A
    BY <1>2, FS_Subset
  <2>2. IsFiniteSet(AB) /\ Cardinality(AB) = Cardinality(A) + Cardinality(B) - Cardinality(C)
    BY <1>2, FS_Union
  <2> HIDE DEF AB, C
  <2>3. /\ Cardinality(A) \in Nat /\ Cardinality(B) \in Nat /\ Cardinality(C) \in Nat
        /\ Cardinality(AB) \in Nat
    BY <1>2, <2>1, <2>2, FS_CardinalityType
  <2>4. Cardinality(AB) <= Cardinality(A) + Cardinality(B)
    BY <2>2, <2>3
  <2>5. QED
    BY <2>2, <2>3, <2>4 DEF AB
<1> DEFINE one == torn \union Cut(a)
           two == one \union Cut(b)
<1>3. /\ IsFiniteSet(one) /\ Cardinality(one) \in Nat /\ Cardinality(torn) \in Nat
      /\ Cardinality(one) <= Cardinality(torn) + Cardinality(Cut(a)) /\ Cardinality(Cut(a)) \in Nat
  BY <1>1, <1>2
<1> HIDE DEF one
<1>4. /\ IsFiniteSet(two) /\ Cardinality(two) \in Nat
      /\ Cardinality(two) <= Cardinality(one) + Cardinality(Cut(b)) /\ Cardinality(Cut(b)) \in Nat
  BY <1>1, <1>2, <1>3
<1>5. more \in SUBSET two
  BY DEF one
<1> HIDE DEF two
<1>6. IsFiniteSet(more) /\ Cardinality(more) <= Cardinality(two) /\ Cardinality(more) \in Nat
  BY <1>4, <1>5, FS_Subset, FS_CardinalityType
<1>7. Cardinality(Cut(a)) <= 1 /\ Cardinality(Cut(b)) <= 1
  BY <1>1
<1>8. Cardinality(more) <= 2 * (faults + 1)
  BY <1>3, <1>4, <1>6, <1>7
<1>9. QED
  BY <1>6, <1>8

(* What a server holds next, named.                                        *)
LEMMA TidyNext ==
    ASSUME NEW o, NEW seq, Lines(o)' = seq, Log(seq, torn'), Distinct(seq),
           Fragments(seq) \intersect Fragments(sink') = {}
    PROVE  Tidy(o)'
<1>1. Log(Lines(o), torn)'
  BY DEF Log, Opens, Closes, Follows
<1>2. Distinct(Lines(o))'
  BY DEF Distinct
<1>3. Fragments(Lines(o))' = Fragments(seq) /\ Fragments(sink)' = Fragments(sink')
  BY DEF Fragments
<1>4. QED
  BY <1>1, <1>2, <1>3 DEF Tidy

LEMMA ApartNext ==
    ASSUME NEW o, NEW q, NEW a, NEW b, Lines(o)' = a, Lines(q)' = b,
           Fragments(a) \intersect Fragments(b) = {}
    PROVE  (Fragments(Lines(o)) \intersect Fragments(Lines(q)) = {})'
<1>1. Fragments(Lines(o))' = Fragments(a) /\ Fragments(Lines(q))' = Fragments(b)
  BY DEF Fragments
<1>2. QED
  BY <1>1

(* A server moves what it has to write: some goes to the file, some stays. *)
LEMMA SinkMoves ==
    ASSUME SinkInv, Typed', NEW s \in Server,
           NEW written \in Seq(FragUpTo(calls)), NEW rest,
           sink' = sink \o written, Lines(s)' = rest,
           \A o \in Server \ {s} : Lines(o)' = Lines(o),
           torn \subseteq torn', Log(written, torn'), Log(rest, torn'),
           Distinct(written), Distinct(rest),
           Fragments(written) \union Fragments(rest) \subseteq Fragments(Lines(s)),
           Fragments(written) \intersect Fragments(rest) = {},
           faults' \in Nat, IsFiniteSet(torn'), Cardinality(torn') <= 2 * faults'
    PROVE  SinkInv'
<1>1. sink \in Seq(FragUpTo(calls))
  BY DEF SinkInv, Typed
<1>2. Log(sink', torn')
  <2>1. Log(sink, torn')
    BY LogGrows DEF SinkInv
  <2>2. QED
    BY <1>1, <2>1, LogJoins
<1>3. Fragments(sink') = Fragments(sink) \union Fragments(written) /\ Distinct(sink')
  BY <1>1, DistinctJoins DEF SinkInv, Tidy
<1>4. ASSUME NEW o \in Server PROVE Tidy(o)'
  <2>1. CASE o = s
    <3>1. Fragments(rest) \intersect Fragments(sink') = {}
      BY <1>3 DEF SinkInv, Tidy
    <3>2. Lines(s)' = rest
      BY Zenon
    <3>3. QED
      BY <2>1, <3>1, <3>2, TidyNext
  <2>2. CASE o # s
    <3>1. Lines(o)' = Lines(o)
      BY <2>2
    <3>2. Log(Lines(o), torn') /\ Distinct(Lines(o))
      BY LogGrows DEF SinkInv, Tidy
    <3>3. Fragments(Lines(o)) \intersect Fragments(sink') = {}
      BY <1>3, <2>2 DEF SinkInv, Tidy
    <3>4. QED
      BY <3>1, <3>2, <3>3, TidyNext
  <2>3. QED
    BY <2>1, <2>2
<1>5. ASSUME NEW o \in Server, NEW q \in Server, o # q
      PROVE  (Fragments(Lines(o)) \intersect Fragments(Lines(q)) = {})'
  <2>1. ASSUME NEW p \in Server PROVE Fragments(Lines(p))' \subseteq Fragments(Lines(p))
    <3>1. CASE p = s
      <4>1. Lines(p)' = rest
        BY <3>1
      <4>2. Fragments(Lines(p))' = Fragments(rest)
        BY <4>1 DEF Fragments
      <4>3. QED
        BY <3>1, <4>2
    <3>2. CASE p # s
      BY <3>2 DEF Fragments
    <3>3. QED
      BY <3>1, <3>2
  <2>2. Fragments(Lines(o)) \intersect Fragments(Lines(q)) = {}
    BY <1>5 DEF SinkInv
  <2>3. QED
    BY <2>1, <2>2
<1>6. Log(sink, torn)' /\ Distinct(sink)'
  BY <1>2, <1>3 DEF Log, Distinct, Opens, Closes, Follows
<1>7. QED
  BY <1>4, <1>5, <1>6 DEF SinkInv

LEMMA NoLines ==
    ASSUME NEW T
    PROVE  /\ Log(<<>>, T) /\ Distinct(<<>>) /\ Fragments(<<>>) = {}
           /\ \A S : <<>> \in Seq(S)
BY DEF Log, Distinct, Fragments

(* Nothing is written, and no server has other lines.                      *)
LEMMA SinkRests ==
    ASSUME SinkInv, Typed', UNCHANGED file, \A o \in Server : Lines(o)' = Lines(o),
           faults' \in {faults, faults + 1}
    PROVE  SinkInv'
<1>1. UNCHANGED <<sink, torn>>
  BY DEF file
<1>2. faults' \in Nat /\ Cardinality(torn) <= 2 * faults'
  <2>1. Cardinality(torn) \in Nat
    BY FS_CardinalityType DEF SinkInv
  <2>2. QED
    BY <2>1 DEF SinkInv
<1>3. ASSUME NEW o \in Server PROVE Tidy(o)'
  <2>1. Lines(o)' = Lines(o) /\ sink' = sink /\ torn' = torn
    BY <1>1
  <2>2. Log(Lines(o), torn) /\ Distinct(Lines(o)) /\ Fragments(Lines(o)) \intersect Fragments(sink) = {}
    BY DEF SinkInv, Tidy
  <2>3. QED
    BY <2>1, <2>2, TidyNext
<1>4. ASSUME NEW o \in Server, NEW q \in Server, o # q
      PROVE  (Fragments(Lines(o)) \intersect Fragments(Lines(q)) = {})'
  <2>1. Lines(o)' = Lines(o) /\ Lines(q)' = Lines(q)
    OBVIOUS
  <2>2. Fragments(Lines(o)) \intersect Fragments(Lines(q)) = {}
    BY <1>4 DEF SinkInv
  <2>3. QED
    BY <2>1, <2>2, ApartNext
<1>5. Log(sink, torn)' /\ Distinct(sink)'
  BY <1>1 DEF SinkInv, Log, Distinct, Opens, Closes, Follows
<1>6. QED
  BY <1>1, <1>2, <1>3, <1>4, <1>5 DEF SinkInv

LEMMA SinkInit == Init => SinkInv
<1> SUFFICES ASSUME Init PROVE SinkInv
  OBVIOUS
<1>1. sink = <<>> /\ torn = {} /\ faults = 0 /\ \A s \in Server : Lines(s) = <<>>
  BY DEF Init, Lines, Off
<1>2. IsFiniteSet(torn) /\ Cardinality(torn) = 0
  BY <1>1, FS_EmptySet
<1>3. Log(<<>>, torn) /\ Distinct(<<>>) /\ Fragments(<<>>) = {}
  BY NoLines
<1>4. QED
  BY <1>1, <1>2, <1>3, TypedInit DEF SinkInv, Tidy

LEMMA SinkStep == SinkInv /\ [Next]_vars => SinkInv'
<1> SUFFICES ASSUME SinkInv, [Next]_vars PROVE SinkInv'
  OBVIOUS
<1>t. Typed /\ Typed' /\ faults \in Nat /\ calls \in Nat /\ \A s \in Server : server[s] \in ServerState(calls)
  BY TypedStep, LedgerAssumption DEF SinkInv, Typed
<1>f. Fault => faults' = faults + 1 /\ faults' \in Nat
  BY <1>t DEF Fault
<1>o. ASSUME NEW s \in Server, NEW rec, server' = [server EXCEPT ![s] = rec]
      PROVE  server'[s] = rec /\ \A o \in Server \ {s} : Lines(o)' = Lines(o)
  BY <1>t, <1>o DEF Typed, Lines
<1>l. ASSUME NEW s \in Server
      PROVE  /\ Lines(s) \in Seq(FragUpTo(calls)) /\ Len(Lines(s)) \in Nat
             /\ Log(Lines(s), torn) /\ Distinct(Lines(s))
  BY <1>t, LinesType DEF SinkInv, Tidy
<1>n. ASSUME NEW T
      PROVE  /\ Log(<<>>, T) /\ Distinct(<<>>) /\ Fragments(<<>>) = {}
             /\ <<>> \in Seq(FragUpTo(calls))
  BY NoLines
(* Nothing is written and the lines of the server are what they were.      *)
<1>k. ASSUME NEW s \in Server, NEW rec, server' = [server EXCEPT ![s] = rec], UNCHANGED file,
             faults' \in {faults, faults + 1}, server[s].pc # "emit", rec.pc # "emit",
             rec.buffer = server[s].buffer
      PROVE  SinkInv'
  <2>1. Lines(s)' = Lines(s)
    BY <1>k, <1>o DEF Lines
  <2>2. QED
    BY <1>k, <1>o, <1>t, <2>1, SinkRests
(* All is written.                                                         *)
<1>a. ASSUME NEW s \in Server, NEW rec, server' = [server EXCEPT ![s] = rec],
             sink' = sink \o Lines(s), UNCHANGED <<torn, faults>>, rec.pc # "emit", rec.buffer = <<>>
      PROVE  SinkInv'
  <2>1. Lines(s)' = <<>>
    BY <1>a, <1>o DEF Lines
  <2>2. \A o \in Server \ {s} : Lines(o)' = Lines(o)
    BY <1>a, <1>o
  <2>3. /\ Log(Lines(s), torn') /\ torn \subseteq torn' /\ faults' \in Nat /\ IsFiniteSet(torn')
        /\ Cardinality(torn') <= 2 * faults'
    BY <1>a, <1>l DEF SinkInv
  <2>4. Log(<<>>, torn') /\ Distinct(<<>>) /\ Fragments(<<>>) = {}
    BY <1>n
  <2>5. QED
    BY <1>a, <1>l, <1>t, <2>1, <2>2, <2>3, <2>4, SinkMoves
(* A beginning is written, and what follows is kept or lost.               *)
<1>b. ASSUME NEW s \in Server, NEW rec, server' = [server EXCEPT ![s] = rec], rec.pc # "emit",
             NEW m \in 0 .. Len(Lines(s)), NEW n \in 0 .. m, Wrote(s, n, m, rec.buffer), Fault
      PROVE  SinkInv'
  <2> DEFINE written == SubSeq(Lines(s), 1, n)
             kept == SubSeq(Lines(s), n + 1, m)
             rest == rec.buffer
  <2>1. Lines(s)' = rest /\ \A o \in Server \ {s} : Lines(o)' = Lines(o)
    BY <1>b, <1>o DEF Lines
  <2>2. /\ sink' = sink \o written /\ torn \subseteq torn' /\ Cut(written) \subseteq torn'
        /\ torn' \subseteq torn \union Cut(written) \union Cut(SubSeq(Lines(s), 1, m))
        /\ rest # <<>> => Cut(SubSeq(Lines(s), 1, m)) \subseteq torn'
        /\ rest \in {<<>>, kept}
    BY <1>b DEF Wrote
  <2>3. n \in 0 .. Len(Lines(s)) /\ 0 \in 0 .. n
    BY <1>l
  <2>4. written \in Seq(FragUpTo(calls)) /\ Log(written, torn')
    BY <1>l, <2>2, <2>3, Parts, LogBegins
  <2>5. rest # <<>> => Log(kept, torn')
    BY <1>l, <2>2, LogRests
  <2>6. /\ Distinct(written) /\ Distinct(kept)
        /\ Fragments(written) \union Fragments(kept) \subseteq Fragments(Lines(s))
        /\ Fragments(written) \intersect Fragments(kept) = {}
    BY <1>l, PartFragments
  <2>7. Log(<<>>, torn') /\ Distinct(<<>>) /\ Fragments(<<>>) = {}
    BY <1>n
  <2>8. IsFiniteSet(torn') /\ Cardinality(torn') <= 2 * faults' /\ faults' \in Nat
    <3>1. IsFiniteSet(torn') /\ Cardinality(torn') <= 2 * (faults + 1)
      BY <2>2, CutSmall DEF SinkInv
    <3>2. QED
      BY <1>b, <1>f, <3>1
  <2> HIDE DEF written, kept, rest
  <2>9. /\ Log(rest, torn') /\ Distinct(rest)
        /\ Fragments(written) \union Fragments(rest) \subseteq Fragments(Lines(s))
        /\ Fragments(written) \intersect Fragments(rest) = {}
    <3>1. CASE rest = <<>>
      BY <2>6, <2>7, <3>1
    <3>2. CASE rest # <<>>
      BY <2>2, <2>5, <2>6, <3>2
    <3>3. QED
      BY <3>1, <3>2
  <2>10. QED
    BY <1>t, <2>1, <2>2, <2>4, <2>6, <2>8, <2>9, SinkMoves
<1>1. ASSUME NEW s \in Server, Start(s) PROVE SinkInv'
  <2> DEFINE reads == [Off EXCEPT !.pc = "keys", !.todo = Events,
                                  !.read = {line.call : line \in Events}]
             serves == [Off EXCEPT !.pc = "serve"]
  <2>1. /\ server' = [server EXCEPT ![s] = reads] \/ server' = [server EXCEPT ![s] = serves]
        /\ UNCHANGED file /\ faults' \in {faults, faults + 1} /\ server[s].pc = "off"
    BY <1>1, Zenon DEF Start, Fault
  <2>2. reads.pc = "keys" /\ serves.pc = "serve" /\ reads.buffer = <<>> /\ serves.buffer = <<>>
    BY DEF Off
  <2> HIDE DEF reads, serves
  <2>3. PICK rec \in {reads, serves} : server' = [server EXCEPT ![s] = rec]
    BY <2>1
  <2>4. rec.pc # "emit" /\ rec.buffer = <<>>
    BY <2>2
  <2>5. Lines(s)' = <<>> /\ \A o \in Server \ {s} : Lines(o)' = Lines(o)
    BY <1>o, <2>3, <2>4 DEF Lines
  <2>6. /\ sink' = sink \o <<>> /\ torn' = torn /\ sink' = sink
    <3>1. sink' = sink /\ torn' = torn
      BY <2>1 DEF file
    <3>2. sink \o <<>> = sink
      BY <1>t, ConcatEmptySeq DEF Typed
    <3>3. QED
      BY <3>1, <3>2
  <2>7. faults' \in Nat /\ IsFiniteSet(torn') /\ Cardinality(torn') <= 2 * faults'
    <3>1. Cardinality(torn) \in Nat
      BY FS_CardinalityType DEF SinkInv
    <3>2. QED
      BY <2>1, <2>6, <3>1 DEF SinkInv
  <2>8. Log(<<>>, torn') /\ Distinct(<<>>) /\ Fragments(<<>>) = {} /\ <<>> \in Seq(FragUpTo(calls))
    BY <1>n
  <2>9. QED
    BY <1>t, <2>5, <2>6, <2>7, <2>8, SinkMoves
<1>2. ASSUME NEW s \in Server, LoadKeys(s) PROVE SinkInv'
  <2> DEFINE rec == [server[s] EXCEPT !.pc = "fill", !.seen = Keys(Counted)]
             failed == [server[s] EXCEPT !.pc = "serve", !.todo = {}]
  <2>1. /\ UNCHANGED file /\ server[s].pc = "keys" /\ faults' \in {faults, faults + 1}
        /\ server' = [server EXCEPT ![s] = rec] \/ server' = [server EXCEPT ![s] = failed]
    BY <1>2, Zenon DEF LoadKeys, ReplayFails, Fault
  <2>2. /\ rec.pc = "fill" /\ rec.buffer = server[s].buffer
        /\ failed.pc = "serve" /\ failed.buffer = server[s].buffer
    BY <1>t DEF ServerState
  <2> HIDE DEF rec, failed
  <2>3. QED
    BY <1>k, <2>1, <2>2
<1>3. ASSUME NEW s \in Server, Fill(s) PROVE SinkInv'
  <2> DEFINE skipped(line) == [server[s] EXCEPT !.todo = @ \ {line}]
             filled(line) == [server[s] EXCEPT !.todo = @ \ {line}, !.seen = @ \union {Key[line.call]}]
             failed == [server[s] EXCEPT !.pc = "serve", !.todo = {}]
  <2>1. UNCHANGED file /\ server[s].pc = "fill" /\ faults' \in {faults, faults + 1}
    BY <1>3, Zenon DEF Fill, ReplayFails, Fault
  <2>2. PICK line \in server[s].todo :
          \/ server' = [server EXCEPT ![s] = skipped(line)]
          \/ server' = [server EXCEPT ![s] = filled(line)]
          \/ server' = [server EXCEPT ![s] = failed]
    BY <1>3, <1>t, FillSteps
  <2>3. /\ skipped(line).pc = "fill" /\ skipped(line).buffer = server[s].buffer
        /\ filled(line).pc = "fill" /\ filled(line).buffer = server[s].buffer
        /\ failed.pc = "serve" /\ failed.buffer = server[s].buffer
    BY <1>t, <2>1 DEF ServerState
  <2> HIDE DEF skipped, filled, failed
  <2>4. QED
    BY <1>k, <2>1, <2>2, <2>3
<1>4. ASSUME NEW s \in Server, Ready(s) PROVE SinkInv'
  <2> DEFINE rec == [server[s] EXCEPT !.pc = "serve", !.whole = TRUE]
  <2>1. server' = [server EXCEPT ![s] = rec] /\ UNCHANGED <<file, faults>> /\ server[s].pc = "fill"
    BY <1>4, Zenon DEF Ready
  <2>2. rec.pc = "serve" /\ rec.buffer = server[s].buffer
    BY <1>t DEF ServerState
  <2> HIDE DEF rec
  <2>3. QED
    BY <1>k, <2>1, <2>2
<1>5. ASSUME NEW s \in Server, Answer(s) PROVE SinkInv'
  <2> DEFINE c == calls + 1
             rec == [server[s] EXCEPT !.pc = "emit", !.call = c]
  <2>1. /\ server' = [server EXCEPT ![s] = rec] /\ UNCHANGED file /\ calls' = c
        /\ server[s].pc = "serve" /\ faults' \in {faults, faults + 1}
    BY <1>5, Zenon DEF Answer, Fault
  <2>2. rec.pc = "emit" /\ rec.call = c /\ rec.buffer = server[s].buffer
    BY <1>t DEF ServerState
  <2>3. c \in Nat /\ c \in 1 .. c /\ c \notin 1 .. calls
    BY <1>t
  <2> HIDE DEF c, rec
  <2> DEFINE line == LineOf(c)
  <2>4. Lines(s)' = Lines(s) \o line /\ \A o \in Server \ {s} : Lines(o)' = Lines(o)
    BY <1>o, <2>1, <2>2 DEF Lines
  <2>5. sink' = sink /\ torn' = torn
    BY <2>1 DEF file
  <2>6. /\ Log(line, torn) /\ Distinct(line) /\ \A x \in Fragments(line) : x.call = c
        /\ line \in Seq(FragUpTo(c))
    BY <2>3, LineIsLog, LineType
  <2>7. ASSUME NEW seq \in Seq(FragUpTo(calls)) PROVE Fragments(seq) \intersect Fragments(line) = {}
    <3>1. ASSUME NEW i \in 1 .. Len(seq) PROVE seq[i].call \in 1 .. calls
      <4>1. seq[i] \in FragUpTo(calls)
        BY ElementOfSeq
      <4>2. QED
        BY <4>1 DEF FragUpTo
    <3>2. QED
      BY <2>3, <2>6, <3>1 DEF Fragments
  <2>8. Lines(s) \in Seq(FragUpTo(c))
    <3>1. calls <= c
      BY <1>t DEF c
    <3>2. QED
      BY <1>l, <1>t, <2>3, <3>1, CallsGrow
  <2> DEFINE lines == Lines(s) \o line
  <2>9. /\ Log(lines, torn) /\ Distinct(lines)
        /\ Fragments(lines) = Fragments(Lines(s)) \union Fragments(line)
    BY <1>l, <2>6, <2>7, <2>8, LogJoins, DistinctJoins
  <2>10. Fragments(line) \intersect Fragments(sink) = {}
    BY <1>t, <2>7 DEF Typed
  <2>11. \A o \in Server : Fragments(line) \intersect Fragments(Lines(o)) = {}
    BY <1>l, <2>7
  <2> HIDE DEF lines, line
  <2>12. Tidy(s)'
    <3>1. Fragments(lines) \intersect Fragments(sink) = {}
      BY <2>9, <2>10 DEF SinkInv, Tidy
    <3>2. Lines(s)' = lines
      BY <2>4 DEF lines
    <3>3. QED
      BY <2>5, <2>9, <3>1, <3>2, TidyNext
  <2>13. ASSUME NEW o \in Server \ {s} PROVE Tidy(o)'
    <3>1. Log(Lines(o), torn) /\ Distinct(Lines(o)) /\ Fragments(Lines(o)) \intersect Fragments(sink) = {}
      BY DEF SinkInv, Tidy
    <3>2. Lines(o)' = Lines(o)
      BY <2>4
    <3>3. QED
      BY <2>5, <3>1, <3>2, TidyNext
  <2>14. ASSUME NEW o \in Server, NEW q \in Server, o # q
         PROVE  (Fragments(Lines(o)) \intersect Fragments(Lines(q)) = {})'
    <3>1. ASSUME NEW p \in Server
          PROVE  Fragments(Lines(p))' = IF p = s THEN Fragments(Lines(s)) \union Fragments(line)
                                        ELSE Fragments(Lines(p))
      <4>1. CASE p = s
        <5>1. Lines(p)' = lines
          BY <2>4, <4>1 DEF lines
        <5>2. Fragments(Lines(p))' = Fragments(lines)
          BY <5>1 DEF Fragments
        <5>3. QED
          BY <2>9, <4>1, <5>2
      <4>2. CASE p # s
        BY <2>4, <4>2 DEF Fragments
      <4>3. QED
        BY <4>1, <4>2
    <3>2. Fragments(Lines(o)) \intersect Fragments(Lines(q)) = {}
      BY <2>14 DEF SinkInv
    <3>3. QED
      BY <2>11, <2>14, <3>1, <3>2
  <2>15. (Log(sink, torn) /\ Distinct(sink) /\ IsFiniteSet(torn) /\ Cardinality(torn) <= 2 * faults)'
         /\ faults' \in Nat
    <3>1. Cardinality(torn) \in Nat
      BY FS_CardinalityType DEF SinkInv
    <3>2. Cardinality(torn) <= 2 * faults' /\ faults' \in Nat
      BY <1>t, <2>1, <3>1 DEF SinkInv
    <3>3. QED
      BY <2>5, <3>2 DEF SinkInv, Log, Distinct, Opens, Closes, Follows
  <2>16. \A o \in Server : Tidy(o)'
    BY <2>12, <2>13
  <2>17. QED
    BY <1>t, <2>14, <2>15, <2>16 DEF SinkInv
<1>e. ASSUME NEW s \in Server, NEW rest, Emitted(s, rest)
      PROVE  \E rec : server' = [server EXCEPT ![s] = rec] /\ rec.pc = "record" /\ rec.buffer = rest
  <2> DEFINE rec == [server[s] EXCEPT !.pc = "record", !.buffer = rest]
  <2>1. server' = [server EXCEPT ![s] = rec]
    BY <1>e DEF Emitted
  <2>2. rec.pc = "record" /\ rec.buffer = rest
    BY <1>t DEF ServerState
  <2> HIDE DEF rec
  <2>3. QED
    BY <2>1, <2>2
<1>6. ASSUME NEW s \in Server, Emit(s) PROVE SinkInv'
  <2>1. sink' = sink \o Lines(s) /\ Emitted(s, <<>>) /\ UNCHANGED <<torn, faults>>
    BY <1>6, <1>t, EmitWrites
  <2>2. PICK rec : server' = [server EXCEPT ![s] = rec] /\ rec.pc = "record" /\ rec.buffer = <<>>
    BY <1>e, <2>1
  <2>3. QED
    BY <1>a, <2>1, <2>2
<1>7. ASSUME NEW s \in Server, EmitFails(s) PROVE SinkInv'
  <2>1. PICK m \in 0 .. Len(Lines(s)) : \E n \in 0 .. m : \E rest :
            Wrote(s, n, m, rest) /\ Emitted(s, rest)
    BY <1>7, <1>t, EmitFailsWrites
  <2>a. PICK n \in 0 .. m : \E rest : Wrote(s, n, m, rest) /\ Emitted(s, rest)
    BY <2>1
  <2>2. PICK rest : Wrote(s, n, m, rest) /\ Emitted(s, rest)
    BY <2>a
  <2>3. PICK rec : server' = [server EXCEPT ![s] = rec] /\ rec.pc = "record" /\ rec.buffer = rest
    BY <1>e, <2>2
  <2>4. Fault
    BY <1>7, Zenon DEF EmitFails
  <2>5. QED
    BY <1>b, <2>2, <2>3, <2>4
<1>8. ASSUME NEW s \in Server, Record(s) PROVE SinkInv'
  <2> DEFINE rec == [server[s] EXCEPT !.pc = "serve", !.call = 0]
  <2>1. /\ server' = [server EXCEPT ![s] = rec] /\ UNCHANGED file /\ server[s].pc = "record"
        /\ faults' \in {faults, faults + 1}
    BY <1>8, Zenon DEF Record, Fault
  <2>2. rec.pc = "serve" /\ rec.buffer = server[s].buffer
    BY <1>t DEF ServerState
  <2> HIDE DEF rec
  <2>3. QED
    BY <1>k, <2>1, <2>2
<1>9. ASSUME NEW s \in Server, Stop(s) \/ Crash(s) PROVE SinkInv'
  <2>1. Off.pc = "off" /\ Off.buffer = <<>>
    BY DEF Off
  <2>2. server' = [server EXCEPT ![s] = Off]
    BY <1>9, <1>t, EndWrites
  <2>3. CASE sink' = sink \o Lines(s) /\ UNCHANGED <<torn, faults>>
    BY <1>a, <2>1, <2>2, <2>3
  <2>4. CASE UNCHANGED <<sink, torn>> /\ Fault
    <3> DEFINE none == SubSeq(Lines(s), 1, 0)
    <3>1. none = <<>> /\ Cut(none) = {} /\ 0 \in 0 .. 0 /\ 0 \in 0 .. Len(Lines(s))
      BY <1>l, SubSeqEmpty DEF Cut
    <3>2. sink \o <<>> = sink
      BY <1>t, ConcatEmptySeq DEF Typed
    <3>3. Wrote(s, 0, 0, Off.buffer)
      BY <2>1, <2>4, <3>1, <3>2 DEF Wrote
    <3> HIDE DEF none
    <3>4. QED
      BY <1>b, <2>1, <2>2, <2>4, <3>1, <3>3
  <2>5. CASE Fault /\ \E n \in 0 .. Len(Lines(s)) : Wrote(s, n, Len(Lines(s)), <<>>)
    <3>1. Len(Lines(s)) \in 0 .. Len(Lines(s))
      BY <1>l
    <3>2. QED
      BY <1>b, <2>1, <2>2, <2>5, <3>1
  <2>6. QED
    BY <1>9, <1>t, <2>3, <2>4, <2>5, EndWrites
<1>10. CASE Rebuild
  BY <1>t, <1>10, SinkRests DEF Rebuild, Lines
<1>11. CASE UNCHANGED vars
  BY <1>t, <1>11, SinkRests DEF vars, Lines
<1>12. QED
  BY <1>1, <1>2, <1>3, <1>4, <1>5, <1>6, <1>7, <1>8, <1>9, <1>10, <1>11 DEF Next

(* In a log a line that holds nothing of a torn call is the whole text of  *)
(* one call.                                                               *)
LEMMA LogIsLegible ==
    ASSUME Typed, Log(sink, torn), NEW i \in DOMAIN sink, BeginsAt(i), ~HoldsTorn(i)
    PROVE  LegibleAt(i)
<1>1. Len(sink) \in Nat /\ DOMAIN sink = 1 .. Len(sink)
  BY LenProperties DEF Typed
<1>2. \A j \in 1 .. Len(sink) :
         j >= i /\ (\A k \in i .. j - 1 : sink[k].seg # 3) => sink[j].call \notin torn
  BY <1>1 DEF HoldsTorn
<1>3. \A k \in i .. i - 1 : sink[k].seg # 3
  BY <1>1
<1>4. sink[i].call \notin torn
  BY <1>1, <1>2, <1>3
<1>5. sink[i].seg = 1
  <2>1. CASE i = 1
    BY <1>1, <1>4, <2>1 DEF Log, Opens
  <2>2. CASE i # 1
    <3>1. sink[i - 1].seg = 3 /\ i - 1 \in 1 .. Len(sink) /\ i - 1 < Len(sink) /\ i - 1 + 1 = i
      BY <1>1, <2>2 DEF BeginsAt
    <3>2. Follows(sink[i - 1], sink[i], torn)
      BY <3>1 DEF Log
    <3>3. QED
      BY <1>4, <3>1, <3>2 DEF Follows, Opens
  <2>3. QED
    BY <2>1, <2>2
<1>6. i < Len(sink) /\ i + 1 \in 1 .. Len(sink)
  <2>1. ~Closes(sink[i], torn)
    BY <1>4, <1>5 DEF Closes
  <2>2. i # Len(sink)
    BY <1>1, <2>1 DEF Log
  <2>3. QED
    BY <1>1, <2>2
<1>7. sink[i + 1] = [call |-> sink[i].call, seg |-> 2]
  <2>1. Follows(sink[i], sink[i + 1], torn)
    BY <1>1, <1>6 DEF Log
  <2>2. QED
    BY <1>4, <1>5, <2>1 DEF Follows, Closes
<1>8. i + 2 \in DOMAIN sink => sink[i + 2].seg = 3
  <2>1. CASE i + 2 \in DOMAIN sink
    <3>1. i + 1 < Len(sink) /\ i + 1 + 1 = i + 2
      BY <1>1, <2>1
    <3>2. Follows(sink[i + 1], sink[i + 2], torn)
      BY <1>6, <3>1 DEF Log
    <3>3. sink[i + 1].call = sink[i].call /\ sink[i + 1].seg = 2
      BY <1>7
    <3>4. QED
      BY <1>4, <3>2, <3>3 DEF Follows, Closes
  <2>2. QED
    BY <2>1
<1>9. QED
  BY <1>1, <1>5, <1>6, <1>7, <1>8 DEF LegibleAt

(* However servers take turns, fail in the middle of a write or are killed:*)
(* nothing is in the file twice, a line that cannot be read holds part of  *)
(* one that a fault cut, and a fault cuts two at most (MetricsSink::emit). *)
THEOREM SinkStaysALog == Spec => []SinkIsLog
<1>1. SinkInv => SinkIsLog
  <2> SUFFICES ASSUME SinkInv PROVE SinkIsLog
    OBVIOUS
  <2>1. DOMAIN sink = 1 .. Len(sink)
    BY LenProperties DEF SinkInv, Typed
  <2>2. \A i, j \in DOMAIN sink : i # j => sink[i] # sink[j]
    BY <2>1 DEF SinkInv, Distinct
  <2>3. \A i \in DOMAIN sink : BeginsAt(i) /\ ~LegibleAt(i) => HoldsTorn(i)
    BY LogIsLegible DEF SinkInv
  <2>4. QED
    BY <2>2, <2>3 DEF SinkInv, SinkIsLog
<1>2. QED
  BY <1>1, SinkInit, SinkStep, PTL DEF Spec

--------------------------------------------------------------------------------
(* What a call has saved (Savings)                                         *)

(* What calibration.toml may say, and an answer of any size: the types of  *)
(* calibration.rs.  The factor is any number of tenths.                    *)
IsModel(model) ==
    /\ model.overhead \in Nat /\ model.factor \in Nat /\ model.zeroMatch \in Int
    /\ \A t \in DOMAIN model.tools : model.tools[t].p50 \in Nat /\ model.tools[t].p95 \in Nat

IsCall(call) == call.result \in Nat /\ call.returned \in Nat

(* A factor of one or more leaves the search its overhead.                 *)
LEMMA FloorLeavesOverhead ==
    ASSUME NEW model, IsModel(model), NEW result \in Nat
    PROVE  /\ Floor(model, result) \in Int
           /\ model.factor >= 10 => Floor(model, result) >= result + model.overhead
<1> DEFINE f == model.factor
           o == model.overhead
           tokens == result * f
<1>1. f \in Nat /\ o \in Nat
  BY DEF IsModel
<1>2. Floor(model, result) = (tokens + 5) \div 10 + o
  BY DEF Floor
<1> HIDE DEF f, o
<1>3. tokens \in Int
  BY <1>1
<1>4. f >= 10 => tokens >= result * 10
  BY <1>1
<1> HIDE DEF tokens
<1>5. (tokens + 5) \div 10 \in Int /\ (f >= 10 => (tokens + 5) \div 10 >= result)
  BY <1>1, <1>3, <1>4
<1>6. QED
  BY <1>1, <1>2, <1>5 DEF f, o

(* Whatever the model and the size of the answer, what from_entry puts     *)
(* down as saved is the by-hand cost less the result: never below the      *)
(* overhead for a call that found something (with a factor of one or       *)
(* more), exactly the knob's for one that found nothing, nothing for an    *)
(* administrative tool; and 0 <= p50 <= p95.                               *)
THEOREM SavingsAreHonest ==
    ASSUME NEW model, NEW call, model = None \/ IsModel(model), IsCall(call)
    PROVE  HonestSaving(model, call)
<1> SUFFICES ASSUME NEW l \in Layer2(model, call), NEW entry \in Tool(model, call.tool)
             PROVE  /\ 0 <= l.p50 /\ l.p50 <= l.p95
                    /\ entry.p50 = 0 => l.saved = 0
                    /\ entry.p50 # 0 /\ l.p50 > 0 => l.saved = l.p50 - call.result
                    /\ entry.p50 # 0 /\ call.returned = 0 => l.saved = model.zeroMatch
                    /\ entry.p50 # 0 /\ call.returned > 0 /\ model.factor >= 10 =>
                          l.saved >= model.overhead
  BY DEF HonestSaving
<1>1. IsModel(model) /\ l \in Compute(model, call.tool, call.result, call.returned)
  BY DEF Layer2
<1>2. /\ entry = model.tools[call.tool] /\ call.tool \in DOMAIN model.tools
      /\ l = FromEntry(model, entry, call.result, call.returned)
  BY <1>1 DEF Compute, Tool
<1> DEFINE result == call.result
           p50 == entry.p50
           p95 == entry.p95
           zero == model.zeroMatch
           floor == Floor(model, result)
           e == Effective(model, entry, result, call.returned)
<1>3. p50 \in Nat /\ p95 \in Nat /\ zero \in Int /\ result \in Nat /\ call.returned \in Nat
  BY <1>1, <1>2 DEF IsModel, IsCall
<1>4. floor \in Int /\ model.overhead \in Nat /\ model.factor \in Nat
      /\ (model.factor >= 10 => floor >= result + model.overhead)
  BY <1>1, <1>3, FloorLeavesOverhead DEF IsModel
<1>5. l.p50 = AtLeast(e.p50, 0) /\ l.p95 = AtLeast(AtLeast(p95, e.p50), 0) /\ l.saved = e.saved
  BY <1>2 DEF FromEntry
<1>6. /\ p50 = 0 => e.p50 = 0 /\ e.saved = 0
      /\ p50 # 0 /\ call.returned = 0 =>
             e.p50 = AtLeast(result + zero, 0) /\ e.saved = zero
      /\ p50 # 0 /\ call.returned # 0 =>
             e.p50 = AtLeast(p50, floor) /\ e.saved = AtLeast(p50, floor) - result
  BY DEF Effective
<1> HIDE DEF result, p50, p95, zero, floor, e
<1>7. e.p50 \in Int /\ e.saved \in Int
  BY <1>3, <1>4, <1>6 DEF AtLeast
<1>8. /\ 0 <= l.p50 /\ l.p50 <= l.p95
      /\ l.p50 > 0 => l.p50 = e.p50
  BY <1>3, <1>5, <1>7 DEF AtLeast
<1>9. p50 # 0 /\ l.p50 > 0 => l.saved = l.p50 - result
  BY <1>3, <1>4, <1>5, <1>6, <1>8 DEF AtLeast
<1>10. p50 # 0 /\ call.returned > 0 /\ model.factor >= 10 => l.saved >= model.overhead
  <2> SUFFICES ASSUME p50 # 0, call.returned > 0, model.factor >= 10
               PROVE  l.saved >= model.overhead
    OBVIOUS
  <2>1. l.saved = AtLeast(p50, floor) - result /\ AtLeast(p50, floor) >= floor
        /\ AtLeast(p50, floor) \in Int
    BY <1>3, <1>4, <1>5, <1>6 DEF AtLeast
  <2>2. QED
    BY <1>3, <1>4, <2>1
<1>11. /\ p50 = 0 => l.saved = 0
       /\ p50 # 0 /\ call.returned = 0 => l.saved = zero
  BY <1>5, <1>6
<1>12. QED
  BY <1>8, <1>9, <1>10, <1>11 DEF result, p50, p95, zero
================================================================================
