------------------------- MODULE MessageStreamProofs -------------------------
(***************************************************************************)
(* Proofs about the wire protocol: that a number, a string, a chat, a list *)
(* and the begin of a file are read as they were written, and nothing else *)
(* is; that tryParse takes from the front of a buffer the packet that      *)
(* serialize put there, once all of it has come; that with the receive     *)
(* loops around it the stream is a channel of packets, and a conversation; *)
(* and that of packets harmed on their way nothing is handled.             *)
(*                                                                         *)
(* What the loops over bytes and items compute is a recursive function,    *)
(* and the sequence of packets on the wire has any length, so the proofs   *)
(* need induction.  Its use here is always the same: a set of the numbers  *)
(* of which something holds has 0 and, with a number, the next one, or the *)
(* least number outside of it would be a contradiction.                    *)
(***************************************************************************)
EXTENDS MessageStream, SequenceTheorems, WellFoundedInduction, TLAPS

-----------------------------------------------------------------------------
(* Induction and recursion over the naturals.                               *)

\* A set of numbers has a least one.
LEMMA LeastNumber ==
    ASSUME NEW T, T \subseteq Nat, T # {}
    PROVE  \E x \in T : \A y \in T : x <= y
<1>1. PICK x \in T : \A y \in T : <<y, x>> \notin OpToRel(<, Nat)
  BY NatLessThanWellFounded, WFMin
<1>2. ASSUME NEW y \in T PROVE x <= y
  <2>1. x \in Nat /\ y \in Nat
    OBVIOUS
  <2>2. y < x => <<y, x>> \in OpToRel(<, Nat)
    BY <2>1 DEF OpToRel
  <2>3. ~(y < x)
    BY <1>1, <2>2, Zenon
  <2> QED
    BY <2>1, <2>3
<1> QED
  BY <1>2

\* A set that has 0 and, with a number, the next one, has all numbers.
LEMMA Induction ==
    ASSUME NEW S, 0 \in S, \A n \in Nat : n \in S => n + 1 \in S
    PROVE  Nat \subseteq S
<1> DEFINE T == Nat \ S
<1> SUFFICES ASSUME T # {} PROVE FALSE
    OBVIOUS
<1>1. PICK x \in T : \A y \in T : x <= y
  <2>1. T \subseteq Nat
    OBVIOUS
  <2> HIDE DEF T
  <2> QED
    BY <2>1, LeastNumber
<1>2. x # 0 /\ x \in Nat
  OBVIOUS
<1>3. x - 1 \in Nat /\ ~(x <= x - 1) /\ (x - 1) + 1 = x
  BY <1>2
<1>4. x - 1 \in T
  BY <1>3
<1> QED
  BY <1>1, <1>3, <1>4

\* f holds what n steps make of the first value.
Iterates(S, first, step, n, f) ==
    /\ f \in [0..n -> S]
    /\ f[0] = first
    /\ \A i \in 1..n : f[i] = step[i][f[i - 1]]

\* There is such an f for any first value and step.
LEMMA Recursion ==
    ASSUME NEW S, NEW first \in S, NEW step \in [Nat -> [S -> S]], NEW n \in Nat
    PROVE  \E f : Iterates(S, first, step, n, f)
<1> DEFINE T == {k \in Nat : \E f : Iterates(S, first, step, k, f)}
<1>1. 0 \in T
  <2> DEFINE f == [i \in 0..0 |-> first]
  <2>1. Iterates(S, first, step, 0, f)
    BY DEF Iterates
  <2> QED
    BY <2>1
<1>2. ASSUME NEW k \in Nat, k \in T PROVE k + 1 \in T
  <2>1. PICK f : Iterates(S, first, step, k, f)
    BY <1>2
  <2> DEFINE g == [i \in 0..(k + 1) |-> IF i <= k THEN f[i] ELSE step[k + 1][f[k]]]
  <2>2. g \in [0..(k + 1) -> S] /\ g[0] = first
    BY <2>1 DEF Iterates
  <2>3. ASSUME NEW i \in 1..(k + 1) PROVE g[i] = step[i][g[i - 1]]
    BY <2>1 DEF Iterates
  <2> HIDE DEF g
  <2>4. Iterates(S, first, step, k + 1, g)
    BY <2>2, <2>3 DEF Iterates
  <2> QED
    BY <2>4
<1> HIDE DEF T
<1>3. Nat \subseteq T
  BY <1>1, <1>2, Induction
<1> QED
  BY <1>3 DEF T

-----------------------------------------------------------------------------
(* What the loops over a payload compute.                                   *)

\* A Word wraps around.
LEMMA Wraps == \A n \in Nat : n % 65536 \in Word
BY DEF Word

\* Bytes are numbers.
LEMMA Bytes == \A n : n \in Byte <=> n \in Nat /\ n < 256
BY DEF Byte

\* Payloads are made of them.
LEMMA BytesOf ==
    \A b \in Seq(Byte) : Len(b) \in Nat /\ \A i \in 1..Len(b) : b[i] \in Byte
OBVIOUS

\* All turns of the loop over the bytes, each made from the one before it.
SumTurns(payload, s) ==
    [i \in 0..Len(payload) |->
        IF i = 0 THEN 0 ELSE (s[i - 1] + payload[i]) % 65536]

\* The sums of the bytes are defined, and Words.
LEMMA SumsAreWords ==
    ASSUME NEW payload \in Seq(Byte)
    PROVE  /\ Sums(payload) = SumTurns(payload, Sums(payload))
           /\ \A i \in 0..Len(payload) : Sums(payload)[i] \in Word
<1> DEFINE n == Len(payload)
           step == [i \in Nat |-> [sum \in Word |->
                      IF i \in 1..n THEN (sum + payload[i]) % 65536 ELSE 0]]
<1>1. n \in Nat /\ \A i \in 1..n : payload[i] \in Nat
  BY Bytes, BytesOf
<1>2. Word \subseteq Nat /\ 0 \in Word
  BY DEF Word
<1>3. step \in [Nat -> [Word -> Word]]
  <2>1. ASSUME NEW i \in Nat, NEW sum \in Word
        PROVE  (IF i \in 1..n THEN (sum + payload[i]) % 65536 ELSE 0) \in Word
    BY <1>1, <1>2, Wraps
  <2> QED
    BY <2>1
<1>4. PICK f : Iterates(Word, 0, step, n, f)
  <2> HIDE DEF step, n
  <2> QED
    BY <1>1, <1>2, <1>3, Recursion
<1>5. ASSUME NEW i \in 1..n
      PROVE  f[i] = (f[i - 1] + payload[i]) % 65536
  <2>1. i \in Nat /\ f[i - 1] \in Word
    BY <1>1, <1>4 DEF Iterates
  <2> QED
    BY <1>4, <2>1 DEF Iterates
<1>6. f = SumTurns(payload, f)
  BY <1>1, <1>4, <1>5 DEF Iterates, SumTurns
<1>7. Sums(payload) = SumTurns(payload, Sums(payload))
  <2>1. Sums(payload) = CHOOSE s : s = SumTurns(payload, s)
    BY DEF Sums, SumTurns
  <2> QED
    BY <1>6, <2>1
<1> DEFINE T == {i \in Nat : i <= n => Sums(payload)[i] \in Word}
<1>8. Nat \subseteq T
  <2>1. 0 \in T
    BY <1>1, <1>2, <1>7 DEF SumTurns
  <2>2. ASSUME NEW i \in Nat, i \in T PROVE i + 1 \in T
    <3> SUFFICES ASSUME i + 1 <= n
                 PROVE  Sums(payload)[i + 1] \in Word
        OBVIOUS
    <3>1. i + 1 \in 1..n /\ (i + 1) - 1 = i
      BY <1>1
    <3>2. Sums(payload)[i + 1] = (Sums(payload)[i] + payload[i + 1]) % 65536
      BY <1>7, <3>1 DEF SumTurns
    <3>3. Sums(payload)[i] \in Nat
      <4>1. i <= n
        BY <1>1
      <4>2. Sums(payload)[i] \in Word
        BY <2>2, <4>1
      <4> QED
        BY <1>2, <4>2
    <3>4. payload[i + 1] \in Nat
      BY <1>1, <3>1
    <3> QED
      BY <3>2, <3>3, <3>4, Wraps
  <2> HIDE DEF T
  <2> QED
    BY <2>1, <2>2, Induction
<1>9. \A i \in 0..n : i \in Nat /\ i <= n
  BY <1>1
<1> QED
  BY <1>7, <1>8, <1>9

LEMMA ChecksumIsWord ==
    ASSUME NEW payload \in Seq(Byte)
    PROVE  Checksum(payload) \in Word
<1>1. Len(payload) \in 0..Len(payload)
  BY BytesOf
<1> QED
  BY <1>1, SumsAreWords DEF Checksum

-----------------------------------------------------------------------------
(* Numbers are read as they were written.                                   *)

\* Quotient and remainder by 2^8 and by 2^16.
LEMMA DividedByte ==
    \A v \in Nat : /\ v \div 256 \in Nat /\ v % 256 \in Byte
                   /\ v = 256 * (v \div 256) + (v % 256)
BY Bytes

LEMMA DividedWord ==
    \A v \in Nat : /\ v \div 65536 \in Nat /\ v % 65536 \in Word
                   /\ v = 65536 * (v \div 65536) + (v % 65536)
BY DEF Word

\* They are the only ones.
LEMMA ComposedByte ==
    \A q \in Nat, r \in Byte : (256 * q + r) \div 256 = q /\ (256 * q + r) % 256 = r
BY Bytes

LEMMA ComposedWord ==
    \A q \in Nat, r \in Word :
        (65536 * q + r) \div 65536 = q /\ (65536 * q + r) % 65536 = r
BY DEF Word

\* A byte or a Word is its own remainder.
LEMMA SmallIsRemainder ==
    /\ \A r \in Byte : r % 256 = r
    /\ \A r \in Word : r % 65536 = r
BY Bytes DEF Word

\* The two bytes of a Word, and of the lower half of a larger number.
LEMMA WordWritten ==
    ASSUME NEW v \in Nat
    PROVE  /\ WordBytes(v) \in Seq(Byte)
           /\ Len(WordBytes(v)) = 2
           /\ WordAt(WordBytes(v), 0) = v % 65536
<1>1. v % 256 \in Byte /\ (v \div 256) % 256 \in Byte
  BY DividedByte, Zenon
<1>2. PICK a \in Nat, h \in Nat, l \in Nat :
        /\ h < 256 /\ l < 256
        /\ a = (v \div 256) \div 256
        /\ h = (v \div 256) % 256 /\ l = v % 256
        /\ v = 65536 * a + (256 * h + l)
  <2>1. v \div 256 \in Nat /\ v = 256 * (v \div 256) + (v % 256)
    BY DividedByte
  <2>2. /\ (v \div 256) \div 256 \in Nat
        /\ v \div 256 = 256 * ((v \div 256) \div 256) + ((v \div 256) % 256)
    BY <2>1, DividedByte
  <2> QED
    BY <1>1, <2>1, <2>2, Bytes
<1>3. PICK w \in Word : w = 256 * h + l
  BY <1>2 DEF Word
<1>4. v % 65536 = 256 * h + l
  <2>1. (65536 * a + w) % 65536 = w
    BY DEF Word
  <2> QED
    BY <1>2, <1>3, <2>1
<1> QED
  BY <1>1, <1>2, <1>4, Bytes DEF WordBytes, WordAt

\* A Word is read back.
LEMMA WordRead ==
    ASSUME NEW v \in Word
    PROVE  WordAt(WordBytes(v), 0) = v
<1>1. v \in Nat
  BY DEF Word
<1>2. v % 65536 = v
  BY SmallIsRemainder
<1> QED
  BY <1>1, <1>2, WordWritten

\* Two bytes are written back as they were read.
LEMMA WordRewritten ==
    ASSUME NEW b, NEW at \in Nat, b[at + 1] \in Byte, b[at + 2] \in Byte
    PROVE  /\ WordAt(b, at) \in Word
           /\ WordBytes(WordAt(b, at)) = <<b[at + 1], b[at + 2]>>
<1>1. PICK l \in Byte, h \in Byte : b[at + 1] = l /\ b[at + 2] = h
  OBVIOUS
<1>2. /\ l \in Nat /\ h \in Nat
      /\ WordAt(b, at) = 256 * h + l
  BY <1>1, Bytes DEF WordAt
<1>3. (256 * h + l) % 256 = l /\ (256 * h + l) \div 256 = h
  BY <1>2, ComposedByte
<1>4. h % 256 = h
  BY SmallIsRemainder
<1>5. WordAt(b, at) \in Word
  BY <1>2, Bytes DEF Word
<1> QED
  BY <1>1, <1>2, <1>3, <1>4, <1>5 DEF WordBytes

\* Numbers of 32 bits.
LEMMA DWordBound == \A n \in Nat : n \in DWord <=> n < 65536 * 65536
<1> SUFFICES ASSUME NEW n \in Nat PROVE n \in DWord <=> n < 65536 * 65536
    OBVIOUS
<1>1. PICK q \in Nat, r \in Nat : q = n \div 65536 /\ r < 65536 /\ n = 65536 * q + r
  BY DividedWord DEF Word
<1>2. q < 65536 <=> n < 65536 * 65536
  BY <1>1
<1> QED
  BY <1>1, <1>2 DEF DWord, Word

\* The four bytes of a DWord.
LEMMA DWordWritten ==
    ASSUME NEW v \in Nat
    PROVE  DWordBytes(v) \in Seq(Byte) /\ Len(DWordBytes(v)) = 4
<1>1. v \div 256 \in Nat /\ v % 256 \in Byte
  BY DividedByte
<1>2. v \div 65536 \in Nat
  BY DividedWord
<1>3. (v \div 65536) % 256 \in Byte /\ (v \div 65536) \div 256 \in Nat
  BY <1>2, DividedByte
<1>4. (v \div 256) % 256 \in Byte /\ ((v \div 65536) \div 256) % 256 \in Byte
  BY <1>1, <1>3, DividedByte
<1>5. \A x1, x2, x3, x4 \in Byte :
        <<x1, x2, x3, x4>> \in Seq(Byte) /\ Len(<<x1, x2, x3, x4>>) = 4
  OBVIOUS
<1> QED
  BY <1>1, <1>3, <1>4, <1>5 DEF DWordBytes

\* Its halves are those of two Words.
LEMMA DWordOfWords ==
    ASSUME NEW v \in Nat
    PROVE  /\ DWordBytes(v)[1] = WordBytes(v)[1]
           /\ DWordBytes(v)[2] = WordBytes(v)[2]
           /\ DWordBytes(v)[3] = WordBytes(v \div 65536)[1]
           /\ DWordBytes(v)[4] = WordBytes(v \div 65536)[2]
BY DEF DWordBytes, WordBytes

\* A DWord is read back from wherever its bytes are.
LEMMA DWordRead ==
    ASSUME NEW v \in DWord, NEW b, NEW at \in Nat,
           \A i \in 1..4 : b[at + i] = DWordBytes(v)[i]
    PROVE  DWordAt(b, at) = v
<1>1. v \in Nat /\ v < 65536 * 65536
  BY DWordBound DEF DWord
<1>2. /\ v \div 65536 \in Nat
      /\ v = 65536 * (v \div 65536) + (v % 65536)
      /\ v % 65536 \in Nat
  BY <1>1, DividedWord DEF Word
<1>3. v \div 65536 \in Word
  BY <1>1, <1>2 DEF Word
<1>4. /\ WordAt(WordBytes(v), 0) = v % 65536
      /\ WordAt(WordBytes(v \div 65536), 0) = v \div 65536
  <2> DEFINE h == v \div 65536
  <2> HIDE DEF h
  <2>1. WordAt(WordBytes(v), 0) = v % 65536
    BY <1>1, WordWritten
  <2>2. WordAt(WordBytes(h), 0) = h
    BY <1>3, WordRead DEF h
  <2> QED
    BY <2>1, <2>2 DEF h
<1>5. /\ b[at + 1] = DWordBytes(v)[1] /\ b[at + 2] = DWordBytes(v)[2]
      /\ b[(at + 2) + 1] = DWordBytes(v)[3] /\ b[(at + 2) + 2] = DWordBytes(v)[4]
  <2>1. (at + 2) + 1 = at + 3 /\ (at + 2) + 2 = at + 4
    OBVIOUS
  <2> QED
    BY <2>1
<1>6. WordAt(b, at) = WordAt(WordBytes(v), 0)
  BY <1>1, <1>5, DWordOfWords DEF WordAt
<1>7. WordAt(b, at + 2) = WordAt(WordBytes(v \div 65536), 0)
  BY <1>1, <1>5, DWordOfWords DEF WordAt
<1> QED
  BY <1>2, <1>4, <1>6, <1>7 DEF DWordAt

\* Four bytes are a DWord, and are written back as they were read.
LEMMA DWordRewritten ==
    ASSUME NEW b, NEW at \in Nat, \A i \in 1..4 : b[at + i] \in Byte
    PROVE  /\ DWordAt(b, at) \in DWord
           /\ DWordBytes(DWordAt(b, at)) =
                <<b[at + 1], b[at + 2], b[at + 3], b[at + 4]>>
<1>1. /\ b[at + 1] \in Byte /\ b[at + 2] \in Byte
      /\ b[(at + 2) + 1] \in Byte /\ b[(at + 2) + 2] \in Byte
      /\ at + 2 \in Nat /\ (at + 2) + 1 = at + 3 /\ (at + 2) + 2 = at + 4
  OBVIOUS
<1>2. PICK l \in Word, h \in Word :
        /\ l = WordAt(b, at) /\ h = WordAt(b, at + 2)
        /\ WordBytes(l) = <<b[at + 1], b[at + 2]>>
        /\ WordBytes(h) = <<b[at + 3], b[at + 4]>>
  BY <1>1, WordRewritten
<1> DEFINE v == 65536 * h + l
<1>3. DWordAt(b, at) = v /\ l \in Nat /\ h \in Nat /\ v \in Nat
  BY <1>2 DEF DWordAt, Word
<1>4. v \div 65536 = h /\ v % 65536 = l
  BY <1>2, <1>3, ComposedWord
<1>5. v \in DWord
  <2>1. v < 65536 * 65536
    BY <1>2, <1>3 DEF Word
  <2> QED
    BY <1>3, <2>1, DWordBound
<1>6. v % 256 = l % 256 /\ (v \div 256) % 256 = (l \div 256) % 256
  <2>1. l % 256 \in Byte /\ l \div 256 \in Nat /\ l = 256 * (l \div 256) + (l % 256)
    BY <1>3, DividedByte
  <2>2. l \div 256 \in Byte
    BY <1>2, <2>1, Bytes DEF Word
  <2>3. 256 * h + (l \div 256) \in Nat /\ v = 256 * (256 * h + (l \div 256)) + (l % 256)
    BY <1>3, <2>1
  <2>4. v % 256 = l % 256 /\ v \div 256 = 256 * h + (l \div 256)
    BY <2>1, <2>3, ComposedByte
  <2>5. (256 * h + (l \div 256)) % 256 = l \div 256
    BY <1>3, <2>2, ComposedByte
  <2>6. (l \div 256) % 256 = l \div 256
    BY <2>2, SmallIsRemainder
  <2> QED
    BY <2>4, <2>5, <2>6
<1> HIDE DEF v
<1>7. DWordBytes(v) = <<WordBytes(l)[1], WordBytes(l)[2], WordBytes(h)[1], WordBytes(h)[2]>>
  BY <1>4, <1>6 DEF DWordBytes, WordBytes
<1> QED
  BY <1>2, <1>3, <1>5, <1>7

-----------------------------------------------------------------------------
(* A packet in a buffer.                                                    *)

\* u is s, of length m, followed by t, of length n.
Joins(u, s, m, t, n) ==
    /\ u \in Seq(Byte)
    /\ Len(u) = m + n
    /\ \A i \in 1..m : u[i] = s[i]
    /\ \A i \in 1..n : u[m + i] = t[i]

\* So is a concatenation.
LEMMA Joined ==
    ASSUME NEW s \in Seq(Byte), NEW t \in Seq(Byte),
           NEW m \in Nat, NEW n \in Nat, Len(s) = m, Len(t) = n
    PROVE  Joins(s \o t, s, m, t, n)
<1>1. /\ s \o t \in Seq(Byte)
      /\ Len(s \o t) = m + n
      /\ \A i \in 1..(m + n) : (s \o t)[i] = IF i <= m THEN s[i] ELSE t[i - m]
  BY ConcatProperties
<1>2. ASSUME NEW i \in 1..m PROVE (s \o t)[i] = s[i]
  BY <1>1
<1>3. ASSUME NEW i \in 1..n PROVE (s \o t)[m + i] = t[i]
  <2>1. m + i \in 1..(m + n) /\ ~(m + i <= m) /\ (m + i) - m = i
    OBVIOUS
  <2> QED
    BY <1>1, <2>1
<1> QED
  BY <1>1, <1>2, <1>3 DEF Joins

\* The concatenation of three is the same either way.
LEMMA Regroup ==
    ASSUME NEW s \in Seq(Byte), NEW t \in Seq(Byte), NEW u \in Seq(Byte)
    PROVE  (s \o t) \o u = s \o (t \o u)
BY ConcatAssociative

\* What is behind the first n bytes.
Behind(b, n) == SubSeq(b, n + 1, Len(b))

LEMMA BehindParts ==
    ASSUME NEW b \in Seq(Byte), NEW n \in Nat, n <= Len(b)
    PROVE  /\ Behind(b, n) \in Seq(Byte)
           /\ Len(Behind(b, n)) = Len(b) - n
           /\ \A i \in 1..(Len(b) - n) : Behind(b, n)[i] = b[n + i]
<1>1. Len(b) \in Nat /\ \A i \in (n + 1)..Len(b) : b[i] \in Byte
  BY BytesOf
<1>2. /\ Behind(b, n) \in Seq(Byte)
      /\ Len(Behind(b, n))
            = IF n + 1 <= Len(b) THEN Len(b) - (n + 1) + 1 ELSE 0
      /\ \A i \in 1..(Len(b) - (n + 1) + 1) : Behind(b, n)[i] = b[(n + 1) + i - 1]
  BY <1>1, SubSeqProperties DEF Behind
<1>3. Len(b) - (n + 1) + 1 = Len(b) - n
  BY <1>1
<1>4. Len(Behind(b, n)) = Len(b) - n
  BY <1>1, <1>2
<1>5. ASSUME NEW i \in 1..(Len(b) - n) PROVE Behind(b, n)[i] = b[n + i]
  <2>1. (n + 1) + i - 1 = n + i
    BY <1>1
  <2> QED
    BY <1>2, <1>3, <2>1
<1> QED
  BY <1>2, <1>4, <1>5

\* Taking from the front leaves alone what is joined at the end.
LEMMA BehindJoined ==
    ASSUME NEW s \in Seq(Byte), NEW t \in Seq(Byte), NEW n \in Nat, n <= Len(s)
    PROVE  Behind(s, n) \o t = Behind(s \o t, n)
<1> DEFINE m == Len(s)
           k == Len(t)
           a == Behind(s, n)
           b == Behind(s \o t, n)
<1>1. m \in Nat /\ k \in Nat /\ n <= m
  BY BytesOf
<1>2. Joins(s \o t, s, m, t, k)
  BY <1>1, Joined
<1>3. a \in Seq(Byte) /\ Len(a) = m - n /\ \A i \in 1..(m - n) : a[i] = s[n + i]
  BY BehindParts
<1>4. /\ b \in Seq(Byte) /\ Len(b) = (m + k) - n
      /\ \A i \in 1..((m + k) - n) : b[i] = (s \o t)[n + i]
  <2>1. s \o t \in Seq(Byte) /\ Len(s \o t) = m + k
    BY <1>2 DEF Joins
  <2> DEFINE u == s \o t
  <2> HIDE DEF u, m, k
  <2>2. u \in Seq(Byte) /\ Len(u) = m + k /\ n <= Len(u)
    BY <1>1, <2>1 DEF u
  <2>3. /\ Behind(u, n) \in Seq(Byte) /\ Len(Behind(u, n)) = Len(u) - n
        /\ \A i \in 1..(Len(u) - n) : Behind(u, n)[i] = u[n + i]
    BY <2>2, BehindParts
  <2> QED
    BY <2>2, <2>3 DEF u
<1> HIDE DEF m, k, a, b
<1>5. Joins(a \o t, a, m - n, t, k)
  <2>1. m - n \in Nat /\ Len(t) = k
    BY <1>1 DEF k
  <2> QED
    BY <1>1, <1>3, <2>1, Joined
<1>6. ASSUME NEW i \in 1..((m + k) - n) PROVE (a \o t)[i] = b[i]
  <2>1. CASE i <= m - n
    <3>1. i \in 1..(m - n) /\ n + i \in 1..m
      BY <1>1, <2>1
    <3> QED
      BY <1>2, <1>3, <1>4, <1>5, <3>1 DEF Joins
  <2>2. CASE ~(i <= m - n)
    <3> DEFINE j == i - (m - n)
    <3>1. j \in 1..k /\ (m - n) + j = i /\ m + j = n + i
      BY <1>1, <2>2
    <3> HIDE DEF j
    <3>2. (a \o t)[i] = t[j] /\ (s \o t)[n + i] = t[j]
      BY <1>2, <1>5, <3>1 DEF Joins
    <3> QED
      BY <1>4, <3>2
  <2> QED
    BY <2>1, <2>2
<1>7. Len(a \o t) = (m + k) - n /\ a \o t \in Seq(Byte)
  BY <1>1, <1>5 DEF Joins
<1>8. a \o t = b
  BY <1>4, <1>6, <1>7, SeqEqual
<1> QED
  BY <1>8 DEF a, b

\* What a packet is made of.
LEMMA PacketParts ==
    ASSUME NEW p \in Packets
    PROVE  /\ p \in AnyPacket
           /\ p.payload \in Seq(Byte)
           /\ Len(p.payload) \in Nat
           /\ p.cmd \in Word
           /\ Len(p.payload) + 4 \in DWord
           /\ Checksum(p.payload) \in Word
<1>1. p \in AnyPacket /\ Len(p.payload) <= MaxPayload
  BY StreamAssumption DEF StreamAssumption
<1>2. p.payload \in Seq(Byte) /\ p.cmd \in Word
  BY <1>1 DEF AnyPacket
<1>3. Len(p.payload) \in Nat
  BY <1>2, BytesOf
<1>4. Len(p.payload) + 4 \in DWord
  BY <1>1, <1>3, DWordBound DEF MaxPayload
<1> QED
  BY <1>1, <1>2, <1>3, <1>4, ChecksumIsWord

\* The layout of its bytes.
LEMMA Layout ==
    ASSUME NEW p \in Packets
    PROVE  LET s == Serialize(p)
               n == Len(p.payload)
           IN  /\ s \in Seq(Byte)
               /\ Len(s) = n + 10
               /\ \A i \in 1..2 : s[i] = HeadBytes[i]
               /\ \A i \in 1..4 : s[2 + i] = DWordBytes(n + 4)[i]
               /\ \A i \in 1..2 : s[6 + i] = WordBytes(p.cmd)[i]
               /\ \A i \in 1..n : s[8 + i] = p.payload[i]
               /\ \A i \in 1..2 : s[8 + n + i] = WordBytes(Checksum(p.payload))[i]
<1> DEFINE n == Len(p.payload)
           length == DWordBytes(n + 4)
           cmd == WordBytes(p.cmd)
           sum == WordBytes(Checksum(p.payload))
<1>1. n \in Nat /\ n + 4 \in Nat /\ p.payload \in Seq(Byte)
  BY PacketParts
<1>2. HeadBytes \in Seq(Byte) /\ Len(HeadBytes) = 2
  <2>1. kPacketHead \in Nat
    BY DEF kPacketHead
  <2> QED
    BY <2>1, WordWritten DEF HeadBytes
<1>3. length \in Seq(Byte) /\ Len(length) = 4
  BY <1>1, DWordWritten
<1>4. cmd \in Seq(Byte) /\ Len(cmd) = 2
  <2>1. p.cmd \in Nat
    BY PacketParts DEF Word
  <2> QED
    BY <2>1, WordWritten
<1>5. sum \in Seq(Byte) /\ Len(sum) = 2
  <2>1. Checksum(p.payload) \in Nat
    BY PacketParts DEF Word
  <2> QED
    BY <2>1, WordWritten
<1> DEFINE h1 == HeadBytes \o length
           h2 == h1 \o cmd
           h3 == h2 \o p.payload
           s == h3 \o sum
<1>6. Serialize(p) = s
  BY DEF Serialize
<1> HIDE DEF length, cmd, sum
<1>7. Joins(h1, HeadBytes, 2, length, 4)
  BY <1>2, <1>3, Joined
<1> HIDE DEF h1
<1>8. Joins(h2, h1, 6, cmd, 2)
  <2>1. h1 \in Seq(Byte) /\ Len(h1) = 6
    BY <1>7 DEF Joins
  <2> QED
    BY <1>4, <2>1, Joined
<1> HIDE DEF h2
<1>9. Joins(h3, h2, 8, p.payload, n)
  <2>1. h2 \in Seq(Byte) /\ Len(h2) = 8
    BY <1>8 DEF Joins
  <2> QED
    BY <1>1, <2>1, Joined
<1> HIDE DEF h3
<1>10. Joins(s, h3, 8 + n, sum, 2)
  <2>1. h3 \in Seq(Byte) /\ Len(h3) = 8 + n /\ 8 + n \in Nat
    BY <1>1, <1>9 DEF Joins
  <2> HIDE DEF n
  <2> QED
    BY <1>5, <2>1, Joined
<1> HIDE DEF s
<1>11. \A i \in 1..8 : s[i] = h2[i]
  <2>1. \A i \in 1..8 : i \in 1..(8 + n)
    BY <1>1
  <2> QED
    BY <1>9, <1>10, <2>1 DEF Joins
<1>12. \A i \in 1..6 : s[i] = h1[i]
  BY <1>8, <1>11 DEF Joins
<1>13. \A i \in 1..2 : s[i] = HeadBytes[i]
  BY <1>7, <1>12 DEF Joins
<1>14. \A i \in 1..4 : s[2 + i] = length[i]
  BY <1>7, <1>12 DEF Joins
<1>15. \A i \in 1..2 : s[6 + i] = cmd[i]
  BY <1>8, <1>11 DEF Joins
<1>16. \A i \in 1..n : s[8 + i] = p.payload[i]
  BY <1>1, <1>9, <1>10 DEF Joins
<1>17. /\ s \in Seq(Byte) /\ Len(s) = n + 10
       /\ \A i \in 1..2 : s[8 + n + i] = sum[i]
  BY <1>1, <1>10 DEF Joins
<1> QED
  BY <1>6, <1>13, <1>14, <1>15, <1>16, <1>17 DEF length, cmd, sum

\* What a buffer that begins with a head keeps of itself.
LEMMA HeadAtFront ==
    ASSUME NEW b \in Seq(Byte),
           1 < Len(b) => b[1] = HeadBytes[1] /\ b[2] = HeadBytes[2]
    PROVE  FromHead(b) = b
<1>1. Len(b) \in Nat
  BY BytesOf
<1>2. 1 < Len(b) => WordAt(b, 0) = kPacketHead
  <2>1. kPacketHead \in Word
    BY DEF kPacketHead, Word
  <2>2. WordAt(HeadBytes, 0) = kPacketHead
    BY <2>1, WordRead DEF HeadBytes
  <2> QED
    BY <2>2 DEF WordAt
<1>3. 0 \in Stops(b) /\ Stops(b) \subseteq Nat
  BY <1>1, <1>2 DEF Stops
<1>4. Min(Stops(b)) = 0
  BY <1>3 DEF Min
<1>5. Min(Stops(b)) + 1 = 1
  BY <1>4
<1> QED
  BY <1>5, SubSeqFull DEF FromHead

\* The search for a head stops somewhere, and there first.
LEMMA SearchStops ==
    ASSUME NEW b \in Seq(Byte)
    PROVE  /\ Stops(b) \subseteq Nat
           /\ Min(Stops(b)) \in Stops(b)
           /\ \A y \in Stops(b) : Min(Stops(b)) <= y
<1>1. Len(b) \in Nat
  BY BytesOf
<1>2. Len(b) \in Stops(b) /\ Stops(b) \subseteq Nat
  BY <1>1 DEF Stops
<1>3. PICK x \in Stops(b) : \A y \in Stops(b) : x <= y
  BY <1>2, LeastNumber
<1>4. Min(Stops(b)) \in Stops(b) /\ \A y \in Stops(b) : Min(Stops(b)) <= y
  BY <1>3 DEF Min
<1> QED
  BY <1>2, <1>4

\* It ends in the buffer.
LEMMA SearchEnds ==
    ASSUME NEW b \in Seq(Byte)
    PROVE  FromHead(b) \in Seq(Byte)
<1>1. Len(b) \in Nat /\ \A i \in 1..Len(b) : b[i] \in Byte
  BY BytesOf
<1>2. Min(Stops(b)) + 1 \in Int /\ 1 <= Min(Stops(b)) + 1
  BY SearchStops
<1>3. \A i \in (Min(Stops(b)) + 1)..Len(b) : b[i] \in Byte
  BY <1>1, <1>2
<1> QED
  BY <1>1, <1>2, <1>3, SubSeqProperties DEF FromHead

\* What tryParse makes of a buffer: bytes that are left and, possibly, a packet.
LEMMA TryParseTyped ==
    ASSUME NEW b \in Seq(Byte)
    PROVE  /\ TryParse(b).rest \in Seq(Byte)
           /\ TryParse(b).packet # NoPacket => TryParse(b).packet \in AnyPacket
<1> DEFINE h == FromHead(b)
           need == Needs(h)
           payload == SubSeq(h, 9, need - 2)
<1>1. /\ h \in Seq(Byte)
      /\ Len(h) \in Nat
      /\ \A i \in 1..Len(h) : h[i] \in Byte
  BY SearchEnds, BytesOf
<1>0. TryParse(b) = ParseAtHead(h)
  BY DEF TryParse
<1> HIDE DEF h
<1>2. ASSUME NEW m \in Nat, NEW n \in Int, 1 <= m, n <= Len(h)
      PROVE  SubSeq(h, m, n) \in Seq(Byte)
  <2>1. \A i \in m..n : h[i] \in Byte
    BY <1>1, <1>2
  <2> QED
    BY <2>1, SubSeqProperties
<1>3. CASE Len(h) < 10 \/ DWordAt(h, 2) < 4 \/ Len(h) < need
  <2>1. SubSeq(h, 3, Len(h)) \in Seq(Byte)
    BY <1>1, <1>2
  <2>2. \/ ParseAtHead(h) = Parsed(h, NoPacket)
        \/ ParseAtHead(h) = Parsed(SubSeq(h, 3, Len(h)), NoPacket)
    BY <1>3 DEF ParseAtHead
  <2> HIDE DEF need, payload
  <2>3. PICK rest \in Seq(Byte) : TryParse(b) = Parsed(rest, NoPacket)
    BY <1>0, <1>1, <2>1, <2>2
  <2> QED
    BY <2>3 DEF Parsed
<1>4. CASE ~(Len(h) < 10) /\ ~(DWordAt(h, 2) < 4) /\ ~(Len(h) < need)
  <2>1. need \in Nat /\ need >= 10
    <3>1. \A i \in 1..4 : 2 + i \in 1..Len(h)
      BY <1>1, <1>4
    <3>2. DWordAt(h, 2) \in DWord
      BY <1>1, <3>1, DWordRewritten
    <3> QED
      BY <1>4, <3>2 DEF Needs, DWord
  <2> HIDE DEF need
  <2>2. payload \in Seq(Byte)
    BY <1>1, <1>2, <1>4, <2>1
  <2>3. SubSeq(h, need + 1, Len(h)) \in Seq(Byte)
    BY <1>1, <1>2, <2>1
  <2>4. WordAt(h, 6) \in Word
    BY <1>1, <1>4, WordRewritten
  <2>5. [cmd |-> WordAt(h, 6), payload |-> payload] \in AnyPacket
    BY <2>2, <2>4 DEF AnyPacket
  <2>6. \/ ParseAtHead(h) = Parsed(SubSeq(h, need + 1, Len(h)), NoPacket)
        \/ ParseAtHead(h) = Parsed(SubSeq(h, need + 1, Len(h)),
                                   [cmd |-> WordAt(h, 6), payload |-> payload])
    BY <1>4 DEF ParseAtHead, need
  <2> DEFINE packet == [cmd |-> WordAt(h, 6), payload |-> payload]
             rest == SubSeq(h, need + 1, Len(h))
  <2> HIDE DEF packet, rest
  <2>7. \/ TryParse(b) = Parsed(rest, NoPacket)
        \/ TryParse(b) = Parsed(rest, packet)
    BY <1>0, <2>6 DEF packet, rest
  <2>8. rest \in Seq(Byte) /\ packet \in AnyPacket
    BY <2>3, <2>5 DEF packet, rest
  <2> QED
    BY <2>7, <2>8 DEF Parsed
<1> QED
  BY <1>3, <1>4

\* A packet of which a part has come is left where it is.
LEMMA ParseIncomplete ==
    ASSUME NEW p \in Packets, NEW b \in Seq(Byte), Len(b) < Len(Serialize(p)),
           \A i \in 1..Len(b) : b[i] = Serialize(p)[i]
    PROVE  TryParse(b) = Parsed(b, NoPacket)
<1> DEFINE n == Len(p.payload)
<1>1. Len(b) \in Nat /\ n \in Nat /\ n + 4 \in DWord /\ Len(b) < n + 10
  BY BytesOf, PacketParts, Layout
<1>2. FromHead(b) = b
  <2>1. ASSUME 1 < Len(b) PROVE b[1] = HeadBytes[1] /\ b[2] = HeadBytes[2]
    <3>1. 1 \in 1..Len(b) /\ 2 \in 1..Len(b) /\ 1 \in 1..2 /\ 2 \in 1..2
      BY <1>1, <2>1
    <3> QED
      BY <3>1, Layout
  <2> QED
    BY <2>1, HeadAtFront
<1>3. CASE Len(b) < 10
  BY <1>2, <1>3 DEF TryParse, ParseAtHead
<1>4. CASE ~(Len(b) < 10)
  <2>1. \A i \in 1..4 : 2 + i \in 1..Len(b)
    BY <1>1, <1>4
  <2>2. \A i \in 1..4 : b[2 + i] = DWordBytes(n + 4)[i]
    BY <2>1, Layout
  <2>3. DWordAt(b, 2) = n + 4
    BY <1>1, <2>2, DWordRead
  <2>4. ~(DWordAt(b, 2) < 4) /\ Len(b) < Needs(b)
    BY <1>1, <2>3 DEF Needs
  <2> QED
    BY <1>2, <1>4, <2>4 DEF TryParse, ParseAtHead
<1> QED
  BY <1>3, <1>4

\* A packet that has come is taken out of the buffer, and nothing else is.
LEMMA ParseComplete ==
    ASSUME NEW p \in Packets, NEW b \in Seq(Byte), Len(Serialize(p)) <= Len(b),
           \A i \in 1..Len(Serialize(p)) : b[i] = Serialize(p)[i]
    PROVE  TryParse(b) = Parsed(SubSeq(b, Len(Serialize(p)) + 1, Len(b)), p)
<1> DEFINE n == Len(p.payload)
           s == Serialize(p)
<1>1. /\ Len(b) \in Nat /\ n \in Nat /\ n + 4 \in DWord /\ Len(s) = n + 10
      /\ n + 10 <= Len(b)
  BY BytesOf, PacketParts, Layout
<1>2. \A i \in 1..(n + 10) : b[i] = s[i]
  BY <1>1
<1> HIDE DEF s
<1>3. /\ \A i \in 1..2 : b[i] = HeadBytes[i]
      /\ \A i \in 1..4 : b[2 + i] = DWordBytes(n + 4)[i]
      /\ \A i \in 1..2 : b[6 + i] = WordBytes(p.cmd)[i]
      /\ \A i \in 1..n : b[8 + i] = p.payload[i]
      /\ \A i \in 1..2 : b[8 + n + i] = WordBytes(Checksum(p.payload))[i]
  <2>0. n \in Nat
    BY <1>1
  <2>1. /\ \A i \in 1..2 : i \in 1..(n + 10) /\ 6 + i \in 1..(n + 10)
                           /\ 8 + n + i \in 1..(n + 10)
        /\ \A i \in 1..4 : 2 + i \in 1..(n + 10)
        /\ \A i \in 1..n : 8 + i \in 1..(n + 10)
    <3> HIDE DEF n
    <3>1. \A i \in 1..2 : i \in 1..(n + 10) /\ 6 + i \in 1..(n + 10)
      BY <2>0
    <3>2. \A i \in 1..2 : 8 + n + i \in 1..(n + 10)
      BY <2>0
    <3>3. \A i \in 1..4 : 2 + i \in 1..(n + 10)
      BY <2>0
    <3>4. \A i \in 1..n : 8 + i \in 1..(n + 10)
      BY <2>0
    <3> QED
      BY <3>1, <3>2, <3>3, <3>4
  <2>2. /\ \A i \in 1..2 : s[i] = HeadBytes[i]
        /\ \A i \in 1..4 : s[2 + i] = DWordBytes(n + 4)[i]
        /\ \A i \in 1..2 : s[6 + i] = WordBytes(p.cmd)[i]
        /\ \A i \in 1..n : s[8 + i] = p.payload[i]
        /\ \A i \in 1..2 : s[8 + n + i] = WordBytes(Checksum(p.payload))[i]
    BY Layout DEF s
  <2> HIDE DEF n
  <2> QED
    BY <1>2, <2>1, <2>2
<1>4. FromHead(b) = b
  BY <1>3, HeadAtFront
<1>5. DWordAt(b, 2) = n + 4
  BY <1>1, <1>3, DWordRead
<1>6. Needs(b) = n + 10
  BY <1>1, <1>5 DEF Needs
<1>7. SubSeq(b, 9, Needs(b) - 2) = p.payload
  <2>1. Needs(b) - 2 = 8 + n
    BY <1>1, <1>6
  <2>2. \A i \in 9..(8 + n) : b[i] \in Byte
    BY <1>1, BytesOf
  <2>3. /\ SubSeq(b, 9, 8 + n) \in Seq(Byte)
        /\ Len(SubSeq(b, 9, 8 + n)) = n
        /\ \A i \in 1..n : SubSeq(b, 9, 8 + n)[i] = b[8 + i]
    BY <1>1, <2>2, SubSeqProperties
  <2>4. \A i \in 1..n : SubSeq(b, 9, 8 + n)[i] = p.payload[i]
    BY <1>3, <2>3
  <2> QED
    BY <2>1, <2>3, <2>4, PacketParts, SeqEqual
<1>8. WordAt(b, 6) = p.cmd
  BY <1>3, PacketParts, WordRead DEF WordAt
<1>9. WordAt(b, Needs(b) - 2) = Checksum(p.payload)
  <2>1. /\ (Needs(b) - 2) + 1 = 8 + n + 1
        /\ (Needs(b) - 2) + 2 = 8 + n + 2
    BY <1>1, <1>6
  <2>2. /\ b[(Needs(b) - 2) + 1] = WordBytes(Checksum(p.payload))[1]
        /\ b[(Needs(b) - 2) + 2] = WordBytes(Checksum(p.payload))[2]
    BY <1>3, <2>1
  <2> QED
    BY <2>2, PacketParts, WordRead DEF WordAt
<1>10. ~(Len(b) < 10) /\ ~(DWordAt(b, 2) < 4) /\ ~(Len(b) < Needs(b))
  BY <1>1, <1>5, <1>6
<1>11. p = [cmd |-> p.cmd, payload |-> p.payload]
  BY PacketParts DEF AnyPacket
<1> QED
  BY <1>1, <1>4, <1>6, <1>7, <1>8, <1>9, <1>10, <1>11
     DEF TryParse, ParseAtHead, s

-----------------------------------------------------------------------------
(* Types.                                                                   *)

\* Nothing but bytes is ever on the way, and nothing but packets handled,
\* with or without damage.
LEMMA InitTyped == Init => TypeOK
BY EmptySeq DEF Init, TypeOK

\* Receive moves the first k bytes of the wire to the end of the buffer.
LEMMA ReceiveMoves ==
    ASSUME TypeOK, Receive
    PROVE  \E k \in Nat :
             /\ k <= Len(wire)
             /\ SubSeq(wire, 1, k) \in Seq(Byte)
             /\ SubSeq(wire, k + 1, Len(wire)) \in Seq(Byte)
             /\ buffer' = buffer \o SubSeq(wire, 1, k)
             /\ wire' = SubSeq(wire, k + 1, Len(wire))
<1>1. wire \in Seq(Byte) /\ Len(wire) \in Nat /\ \A i \in 1..Len(wire) : wire[i] \in Byte
  BY BytesOf DEF TypeOK
<1>2. PICK k \in {k \in Pieces : k < Len(wire)} \cup {Len(wire)} :
        /\ buffer' = buffer \o SubSeq(wire, 1, k)
        /\ wire' = SubSeq(wire, k + 1, Len(wire))
  BY DEF Receive
<1>3. k \in Nat /\ k <= Len(wire)
  BY <1>1, StreamAssumption DEF StreamAssumption
<1>4. /\ \A i \in 1..k : wire[i] \in Byte
      /\ \A i \in (k + 1)..Len(wire) : wire[i] \in Byte
  BY <1>1, <1>3
<1>5. SubSeq(wire, 1, k) \in Seq(Byte) /\ SubSeq(wire, k + 1, Len(wire)) \in Seq(Byte)
  BY <1>1, <1>3, <1>4, SubSeqProperties
<1> QED
  BY <1>2, <1>3, <1>5

LEMMA NextTyped == TypeOK /\ [Next]_vars => TypeOK'
<1> SUFFICES ASSUME TypeOK, [Next]_vars PROVE TypeOK'
    OBVIOUS
<1> USE DEF TypeOK
<1>1. ASSUME NEW p \in Packets, SendPacket(p) PROVE TypeOK'
  <2>1. Serialize(p) \in Seq(Byte)
    BY Layout
  <2>2. wire' \in Seq(Byte)
    BY <1>1, <2>1 DEF SendPacket
  <2>3. sent' \in Seq(Packets) /\ intact' \in Seq(Packets)
    BY <1>1 DEF SendPacket
  <2> QED
    BY <1>1, <2>2, <2>3 DEF SendPacket
<1>2. ASSUME NEW p \in Packets, SendHarmed(p) PROVE TypeOK'
  <2>1. Serialize(p) \in Seq(Byte) /\ Len(Serialize(p)) \in Nat
        /\ Len(Serialize(p)) >= 10
    <3>1. Serialize(p) \in Seq(Byte) /\ Len(Serialize(p)) = Len(p.payload) + 10
      BY Layout
    <3>2. Len(p.payload) \in Nat
      BY PacketParts
    <3> QED
      BY <3>1, <3>2
  <2>2. PICK i \in {1, 2} \cup 9..Len(Serialize(p)) :
          wire' = wire \o [Serialize(p) EXCEPT ![i] = (@ + 1) % 256]
    BY <1>2 DEF SendHarmed
  <2>3. i \in 1..Len(Serialize(p)) /\ Serialize(p)[i] \in Byte
    BY <2>1, BytesOf
  <2>4. (Serialize(p)[i] + 1) % 256 \in Byte
    <3>1. Serialize(p)[i] + 1 \in Nat
      BY <2>3, Bytes
    <3> QED
      BY <3>1, DividedByte
  <2>5. [Serialize(p) EXCEPT ![i] = (@ + 1) % 256] \in Seq(Byte)
    BY <2>1, <2>3, <2>4, ExceptSeq
  <2>6. wire' \in Seq(Byte)
    BY <2>2, <2>5, ConcatProperties
  <2>7. sent' \in Seq(Packets)
    BY <1>2 DEF SendHarmed
  <2> QED
    BY <1>2, <2>6, <2>7 DEF SendHarmed
<1>3. ASSUME Receive PROVE TypeOK'
  <2>1. PICK k \in Nat : /\ SubSeq(wire, 1, k) \in Seq(Byte)
                         /\ SubSeq(wire, k + 1, Len(wire)) \in Seq(Byte)
                         /\ buffer' = buffer \o SubSeq(wire, 1, k)
                         /\ wire' = SubSeq(wire, k + 1, Len(wire))
    BY <1>3, ReceiveMoves
  <2>2. buffer' \in Seq(Byte)
    BY <2>1, ConcatProperties
  <2> QED
    BY <1>3, <2>1, <2>2 DEF Receive
<1>4. ASSUME Parse PROVE TypeOK'
  <2>1. /\ buffer' = TryParse(buffer).rest
        /\ parsing' \in BOOLEAN
        /\ \/ /\ TryParse(buffer).packet # NoPacket
              /\ delivered' = Append(delivered, TryParse(buffer).packet)
           \/ delivered' = delivered
        /\ UNCHANGED <<sent, intact, wire>>
    BY <1>4 DEF Parse
  <2>2. buffer' \in Seq(Byte)
    BY <2>1, TryParseTyped
  <2>3. delivered' \in Seq(AnyPacket)
    <3>1. CASE delivered' = delivered
      BY <3>1
    <3>2. CASE delivered' = Append(delivered, TryParse(buffer).packet)
               /\ TryParse(buffer).packet # NoPacket
      <4>1. TryParse(buffer).packet \in AnyPacket
        BY <3>2, TryParseTyped
      <4> QED
        BY <3>2, <4>1
    <3> QED
      BY <2>1, <3>1, <3>2
  <2> QED
    BY <2>1, <2>2, <2>3
<1>5. CASE UNCHANGED vars
  BY <1>5 DEF vars
<1> QED
  BY <1>1, <1>2, <1>3, <1>4, <1>5 DEF Next

\* Whatever arrives, harmed or not, and in whatever pieces: tryParse never
\* reads past the buffer, and the checksum and all numbers stay in their widths.
THEOREM StreamTyped == Spec => []TypeOK
BY InitTyped, NextTyped, PTL DEF Spec

-----------------------------------------------------------------------------
(* A stream of packets.                                                     *)

\* The bytes are those of the packets after the first d, one behind the other:
\* each ends where cut says.
CutAt(bytes, packets, d, cut) ==
    /\ cut \in [d..Len(packets) -> Nat]
    /\ cut[d] = 0
    /\ cut[Len(packets)] = Len(bytes)
    /\ \A i, j \in d..Len(packets) : i <= j => cut[i] <= cut[j]
    /\ \A i \in (d + 1)..Len(packets) :
        /\ cut[i] = cut[i - 1] + Len(Serialize(packets[i]))
        /\ \A k \in 1..Len(Serialize(packets[i])) :
            bytes[cut[i - 1] + k] = Serialize(packets[i])[k]

Framed(bytes, packets, d) == \E cut : CutAt(bytes, packets, d, cut)

\* Nothing is sent, nothing is on the way.
LEMMA FramedEmpty == Framed(<<>>, <<>>, 0)
<1> DEFINE cut == [i \in 0..0 |-> 0]
<1>1. Len(<<>>) = 0
  BY EmptySeq
<1>2. CutAt(<<>>, <<>>, 0, cut)
  BY <1>1 DEF CutAt
<1> QED
  BY <1>2 DEF Framed

\* When all packets are taken no byte is left.
LEMMA FramedEnd ==
    ASSUME NEW bytes \in Seq(Byte), NEW packets, Len(packets) \in Nat,
           Framed(bytes, packets, Len(packets))
    PROVE  bytes = <<>>
<1>1. Len(bytes) = 0
  BY DEF Framed, CutAt
<1> QED
  BY <1>1, EmptySeq

\* A packet is put behind the others.
LEMMA FramedSend ==
    ASSUME NEW packets \in Seq(Packets), NEW d \in 0..Len(packets),
           NEW bytes \in Seq(Byte), Framed(bytes, packets, d), NEW p \in Packets
    PROVE  Framed(bytes \o Serialize(p), Append(packets, p), d)
<1> DEFINE n == Len(packets)
           s == Serialize(p)
           m == Len(s)
           more == Append(packets, p)
           all == bytes \o s
<1>1. PICK cut : CutAt(bytes, packets, d, cut)
  BY DEF Framed
<1>2. /\ n \in Nat /\ Len(more) = n + 1
      /\ more[n + 1] = p
      /\ \A i \in 1..n : more[i] = packets[i]
  OBVIOUS
<1>3. /\ s \in Seq(Byte) /\ m \in Nat
      /\ Joins(all, bytes, Len(bytes), s, m)
  BY Layout, BytesOf, Joined
<1> DEFINE next == [i \in d..(n + 1) |-> IF i <= n THEN cut[i] ELSE cut[n] + m]
<1>4. /\ cut \in [d..n -> Nat] /\ cut[d] = 0 /\ cut[n] = Len(bytes) /\ d <= n /\ d \in Nat
      /\ \A i, j \in d..n : i <= j => cut[i] <= cut[j]
      /\ \A i \in (d + 1)..n :
            /\ cut[i] = cut[i - 1] + Len(Serialize(packets[i]))
            /\ \A k \in 1..Len(Serialize(packets[i])) :
                bytes[cut[i - 1] + k] = Serialize(packets[i])[k]
  BY <1>1, <1>2 DEF CutAt
<1> HIDE DEF n, s, m, more, all
<1>5. /\ next \in [d..(n + 1) -> Nat] /\ next[d] = 0 /\ next[n + 1] = Len(bytes) + m
      /\ \A i, j \in d..(n + 1) : i <= j => next[i] <= next[j]
  <2>1. cut[n] \in Nat /\ \A i \in d..n : cut[i] \in Nat /\ cut[i] <= cut[n]
    BY <1>2, <1>4
  <2>2. next \in [d..(n + 1) -> Nat] /\ next[d] = 0 /\ next[n + 1] = Len(bytes) + m
    BY <1>2, <1>3, <1>4, <2>1
  <2>3. ASSUME NEW i \in d..(n + 1), NEW j \in d..(n + 1), i <= j
        PROVE  next[i] <= next[j]
    <3>1. CASE j <= n
      BY <1>2, <1>4, <2>3, <3>1
    <3>2. CASE j = n + 1
      BY <1>2, <1>3, <1>4, <2>1, <2>3, <3>2
    <3> QED
      BY <1>2, <1>4, <3>1, <3>2
  <2> QED
    BY <2>2, <2>3
<1>9. next[n + 1] = cut[n] + m /\ \A i \in d..n : next[i] = cut[i]
  BY <1>2, <1>4
<1> HIDE DEF next
<1>6. ASSUME NEW i \in (d + 1)..(n + 1)
      PROVE  /\ next[i] = next[i - 1] + Len(Serialize(more[i]))
             /\ \A k \in 1..Len(Serialize(more[i])) :
                  all[next[i - 1] + k] = Serialize(more[i])[k]
  <2>1. CASE i = n + 1
    <3>1. next[i] = cut[n] + m /\ next[i - 1] = cut[n] /\ more[i] = p
      BY <1>2, <1>4, <1>9, <2>1
    <3>2. \A k \in 1..m : all[Len(bytes) + k] = s[k]
      BY <1>3 DEF Joins
    <3>3. Len(Serialize(more[i])) = m /\ Serialize(more[i]) = s
      BY <3>1 DEF s, m
    <3> QED
      BY <1>4, <3>1, <3>2, <3>3
  <2>2. CASE i <= n
    <3>1. i \in (d + 1)..n /\ i - 1 \in d..n /\ i \in d..n /\ i \in 1..n
      BY <1>2, <1>4, <2>2
    <3>2. next[i] = cut[i] /\ next[i - 1] = cut[i - 1] /\ more[i] = packets[i]
      BY <1>2, <1>9, <3>1
    <3>3. ASSUME NEW k \in 1..Len(Serialize(packets[i]))
          PROVE  all[cut[i - 1] + k] = Serialize(packets[i])[k]
      <4>1. packets[i] \in Packets
        BY <3>1 DEF n
      <4>2. Len(Serialize(packets[i])) \in Nat
        BY <4>1, Layout, BytesOf
      <4>3. cut[i] <= cut[n] /\ cut[i - 1] \in Nat /\ cut[i] = cut[i - 1] + Len(Serialize(packets[i]))
        BY <1>2, <1>4, <3>1
      <4>4. cut[i - 1] + k \in 1..Len(bytes)
        BY <1>4, <4>2, <4>3
      <4>5. all[cut[i - 1] + k] = bytes[cut[i - 1] + k]
        BY <1>3, <4>4 DEF Joins
      <4> QED
        BY <1>4, <3>1, <4>5
    <3> QED
      BY <1>4, <3>1, <3>2, <3>3
  <2>3. i = n + 1 \/ i <= n
    BY <1>2, <1>4
  <2> QED
    BY <2>1, <2>2, <2>3
<1>7. Len(all) = Len(bytes) + m
  BY <1>3 DEF Joins
<1>8. CutAt(all, more, d, next)
  BY <1>2, <1>5, <1>6, <1>7 DEF CutAt
<1> QED
  BY <1>8 DEF Framed, all, more, s

\* The next packet is at the front, and the others are behind it.
LEMMA FramedTake ==
    ASSUME NEW packets \in Seq(Packets), NEW d \in 0..Len(packets), d # Len(packets),
           NEW bytes \in Seq(Byte), Framed(bytes, packets, d)
    PROVE  LET n == Len(Serialize(packets[d + 1]))
           IN  /\ n <= Len(bytes)
               /\ \A k \in 1..n : bytes[k] = Serialize(packets[d + 1])[k]
               /\ Framed(SubSeq(bytes, n + 1, Len(bytes)), packets, d + 1)
<1> DEFINE last == Len(packets)
           n == Len(Serialize(packets[d + 1]))
           rest == SubSeq(bytes, n + 1, Len(bytes))
<1>1. PICK cut : CutAt(bytes, packets, d, cut)
  BY DEF Framed
<1>2. /\ last \in Nat /\ d \in Nat /\ d + 1 <= last /\ packets[d + 1] \in Packets
      /\ \A i \in 1..last : packets[i] \in Packets
  OBVIOUS
<1>3. n \in Nat /\ Len(bytes) \in Nat
  BY <1>2, Layout, BytesOf
<1>4. /\ cut \in [d..last -> Nat] /\ cut[d] = 0 /\ cut[last] = Len(bytes)
      /\ \A i, j \in d..last : i <= j => cut[i] <= cut[j]
      /\ \A i \in (d + 1)..last :
            /\ cut[i] = cut[i - 1] + Len(Serialize(packets[i]))
            /\ \A k \in 1..Len(Serialize(packets[i])) :
                bytes[cut[i - 1] + k] = Serialize(packets[i])[k]
  BY <1>1 DEF CutAt
<1> HIDE DEF last
<1>5. /\ cut[d + 1] = n /\ n <= Len(bytes)
      /\ \A k \in 1..n : bytes[k] = Serialize(packets[d + 1])[k]
  <2>1. d + 1 \in (d + 1)..last /\ (d + 1) - 1 = d /\ d + 1 \in d..last /\ last \in d..last
    BY <1>2
  <2>2. cut[d + 1] = 0 + n
    BY <1>4, <2>1
  <2>3. \A k \in 1..n : bytes[0 + k] = Serialize(packets[d + 1])[k]
    <3>1. \A k \in 1..n : bytes[cut[(d + 1) - 1] + k] = Serialize(packets[d + 1])[k]
      BY <1>4, <2>1
    <3> HIDE DEF n
    <3> QED
      BY <1>4, <2>1, <3>1
  <2>4. cut[d + 1] <= Len(bytes)
    BY <1>2, <1>4, <2>1
  <2>5. \A k \in 1..n : 0 + k = k
    BY <1>3
  <2> QED
    BY <1>3, <2>2, <2>3, <2>4, <2>5
<1> HIDE DEF n
<1> DEFINE next == [i \in (d + 1)..last |-> cut[i] - n]
<1>6. ASSUME NEW i \in (d + 1)..last
      PROVE  cut[i] \in Nat /\ n <= cut[i] /\ cut[i] <= Len(bytes) /\ i \in d..last
  <2>1. i \in d..last /\ d + 1 \in d..last /\ last \in d..last /\ d + 1 <= i /\ i <= last
    BY <1>2
  <2> QED
    BY <1>4, <1>5, <2>1
<1>7. next[last] = Len(bytes) - n /\ next[d + 1] = 0
  <2>1. last \in (d + 1)..last /\ d + 1 \in (d + 1)..last
    BY <1>2
  <2>2. next[last] = cut[last] - n /\ next[d + 1] = cut[d + 1] - n
    BY <2>1
  <2> QED
    BY <1>3, <1>4, <1>5, <2>2
<1>8. /\ next \in [(d + 1)..last -> Nat]
      /\ \A i \in (d + 1)..last : next[i] = cut[i] - n
  <2>1. \A i \in (d + 1)..last : cut[i] - n \in Nat
    BY <1>3, <1>6
  <2> QED
    BY <2>1
<1> HIDE DEF next
<1>12. ASSUME NEW i \in (d + 1)..last, NEW j \in (d + 1)..last, i <= j
       PROVE  next[i] <= next[j]
  <2>1. cut[i] <= cut[j] /\ cut[i] \in Nat /\ cut[j] \in Nat
    BY <1>4, <1>6, <1>12
  <2> QED
    BY <1>3, <1>8, <2>1
<1>9. /\ rest \in Seq(Byte) /\ Len(rest) = Len(bytes) - n
      /\ \A k \in 1..(Len(bytes) - n) : rest[k] = bytes[n + k]
  BY <1>3, <1>5, BehindParts DEF Behind
<1> HIDE DEF rest
<1>10. ASSUME NEW i \in (d + 2)..last
       PROVE  /\ next[i] = next[i - 1] + Len(Serialize(packets[i]))
              /\ \A k \in 1..Len(Serialize(packets[i])) :
                    rest[next[i - 1] + k] = Serialize(packets[i])[k]
  <2>1. /\ i \in (d + 1)..last /\ i - 1 \in (d + 1)..last /\ i \in 1..last
        /\ packets[i] \in Packets
    BY <1>2
  <2>2. Len(Serialize(packets[i])) \in Nat
    BY <2>1, Layout, BytesOf
  <2>3. /\ next[i] = cut[i] - n /\ next[i - 1] = cut[i - 1] - n
        /\ cut[i] = cut[i - 1] + Len(Serialize(packets[i]))
        /\ cut[i] \in Nat /\ cut[i - 1] \in Nat /\ n <= cut[i - 1]
        /\ cut[i] <= Len(bytes)
    BY <1>4, <1>6, <1>8, <2>1
  <2>4. ASSUME NEW k \in 1..Len(Serialize(packets[i]))
        PROVE  rest[next[i - 1] + k] = Serialize(packets[i])[k]
    <3>1. /\ next[i - 1] + k \in 1..(Len(bytes) - n)
          /\ n + (next[i - 1] + k) = cut[i - 1] + k
      <4>1. \A x, y \in Nat : n <= x /\ x + k <= y /\ y <= Len(bytes)
              => (x - n) + k \in 1..(Len(bytes) - n) /\ n + ((x - n) + k) = x + k
        BY <1>3, <2>2
      <4>2. cut[i - 1] + k <= cut[i]
        BY <2>2, <2>3
      <4> QED
        BY <2>3, <4>1, <4>2
    <3>2. rest[next[i - 1] + k] = bytes[cut[i - 1] + k]
      BY <1>9, <3>1
    <3> QED
      BY <1>4, <2>1, <3>2
  <2>5. next[i] = next[i - 1] + Len(Serialize(packets[i]))
    BY <1>3, <2>2, <2>3
  <2> QED
    BY <2>4, <2>5
<1>11. CutAt(rest, packets, d + 1, next)
  <2>1. (d + 1) + 1 = d + 2
    BY <1>2
  <2> QED
    BY <1>7, <1>8, <1>9, <1>10, <1>12, <2>1 DEF CutAt, last
<1> QED
  BY <1>5, <1>11 DEF Framed, rest, n

-----------------------------------------------------------------------------
(* Without damage.                                                          *)

\* What was handled are the first packets sent; the bytes of the others are
\* in the buffer and on the wire.
StreamInv ==
    /\ TypeOK
    /\ intact = sent
    /\ Len(delivered) <= Len(sent)
    /\ \A i \in 1..Len(delivered) : delivered[i] = sent[i]
    /\ Framed(buffer \o wire, sent, Len(delivered))

\* The channel of packets.
Packet == INSTANCE PacketChannel

\* Init: the channel is empty.
LEMMA InitStream == Init => StreamInv /\ Packet!ChannelInit
<1> SUFFICES ASSUME Init PROVE StreamInv /\ Packet!ChannelInit
    OBVIOUS
<1>1. Packet!ChannelInit
  BY DEF Init, Packet!ChannelInit
<1>2. buffer \o wire = <<>>
  <2>1. buffer = <<>> /\ wire = <<>> /\ <<>> \in Seq(Byte)
    BY EmptySeq DEF Init
  <2> QED
    BY <2>1, ConcatEmptySeq
<1>3. Len(delivered) = 0 /\ Len(sent) = 0 /\ sent = <<>>
  BY EmptySeq DEF Init
<1>4. Framed(buffer \o wire, sent, Len(delivered))
  BY <1>2, <1>3, FramedEmpty
<1>5. intact = sent /\ Len(delivered) <= Len(sent)
      /\ \A i \in 1..Len(delivered) : delivered[i] = sent[i]
  BY <1>3 DEF Init
<1> QED
  BY <1>1, <1>4, <1>5, InitTyped DEF StreamInv

\* sendPacket puts a packet into the channel.
LEMMA SendStream ==
    ASSUME StreamInv, NEW p \in Packets, SendPacket(p)
    PROVE  StreamInv' /\ Packet!Put(p)
<1>1. TypeOK'
  BY NextTyped DEF StreamInv, Next
<1>2. /\ sent \in Seq(Packets) /\ delivered \in Seq(AnyPacket)
      /\ buffer \in Seq(Byte) /\ wire \in Seq(Byte) /\ Serialize(p) \in Seq(Byte)
  BY Layout DEF StreamInv, TypeOK
<1>3. Len(sent) \in Nat /\ Len(delivered) \in Nat /\ Len(delivered) <= Len(sent)
  BY <1>2 DEF StreamInv
<1>4. buffer' \o wire' = (buffer \o wire) \o Serialize(p)
  <2>1. buffer' = buffer /\ wire' = wire \o Serialize(p)
    BY DEF SendPacket
  <2> QED
    BY <1>2, <2>1, Regroup
<1>5. Framed((buffer \o wire) \o Serialize(p), Append(sent, p), Len(delivered))
  <2>1. buffer \o wire \in Seq(Byte) /\ Len(delivered) \in 0..Len(sent)
    BY <1>2, <1>3, ConcatProperties
  <2> QED
    BY <1>2, <2>1, FramedSend DEF StreamInv
<1>6. Framed(buffer' \o wire', sent', Len(delivered'))
  BY <1>4, <1>5 DEF SendPacket
<1>7. /\ intact' = sent' /\ Len(delivered') <= Len(sent')
      /\ \A i \in 1..Len(delivered') : delivered'[i] = sent'[i]
  BY <1>2, <1>3 DEF StreamInv, SendPacket
<1>8. Packet!Put(p)
  BY DEF SendPacket, Packet!Put
<1> QED
  BY <1>1, <1>6, <1>7, <1>8 DEF StreamInv

\* recv moves bytes, and loses none.
LEMMA ReceiveLosesNone ==
    ASSUME TypeOK, Receive
    PROVE  buffer' \o wire' = buffer \o wire
<1>1. buffer \in Seq(Byte) /\ wire \in Seq(Byte) /\ Len(wire) \in Nat
  BY BytesOf DEF TypeOK
<1>2. PICK k \in Nat :
        /\ k <= Len(wire)
        /\ SubSeq(wire, 1, k) \in Seq(Byte)
        /\ SubSeq(wire, k + 1, Len(wire)) \in Seq(Byte)
        /\ buffer' = buffer \o SubSeq(wire, 1, k)
        /\ wire' = SubSeq(wire, k + 1, Len(wire))
  BY <1>1, ReceiveMoves
<1>3. SubSeq(wire, 1, k) \o SubSeq(wire, k + 1, Len(wire)) = wire
  <2>1. 1 \in 1..(Len(wire) + 1) /\ k \in (1 - 1)..Len(wire) /\ Len(wire) \in k..Len(wire)
    BY <1>1, <1>2
  <2>2. SubSeq(wire, 1, k) \o SubSeq(wire, k + 1, Len(wire)) = SubSeq(wire, 1, Len(wire))
    BY <1>1, <2>1, ConcatAdjacentSubSeq
  <2> QED
    BY <1>1, <2>2, SubSeqFull
<1>4. buffer' \o wire' = buffer \o wire
  <2> DEFINE first == SubSeq(wire, 1, k)
             rest == SubSeq(wire, k + 1, Len(wire))
  <2>1. /\ first \in Seq(Byte) /\ rest \in Seq(Byte) /\ first \o rest = wire
        /\ buffer' = buffer \o first /\ wire' = rest
    BY <1>2, <1>3
  <2> HIDE DEF first, rest
  <2>2. (buffer \o first) \o rest = buffer \o (first \o rest)
    BY <1>1, <2>1, Regroup
  <2> QED
    BY <2>1, <2>2
<1> QED
  BY <1>4

LEMMA ReceiveStream ==
    ASSUME StreamInv, Receive
    PROVE  StreamInv' /\ UNCHANGED <<sent, delivered>>
<1>1. TypeOK /\ TypeOK'
  BY NextTyped DEF StreamInv, Next
<1>2. buffer' \o wire' = buffer \o wire
  BY <1>1, ReceiveLosesNone
<1>3. UNCHANGED <<sent, intact, delivered>>
  BY DEF Receive
<1> QED
  BY <1>1, <1>2, <1>3 DEF StreamInv

\* The next packet.
LEMMA ParseStream ==
    ASSUME StreamInv, Parse
    PROVE  StreamInv' /\ (Packet!Deliver \/ UNCHANGED <<sent, delivered>>)
<1> DEFINE d == Len(delivered)
           all == buffer \o wire
<1>1. TypeOK'
  BY NextTyped DEF StreamInv, Next
<1>2. /\ sent \in Seq(Packets) /\ delivered \in Seq(AnyPacket)
      /\ buffer \in Seq(Byte) /\ wire \in Seq(Byte) /\ all \in Seq(Byte)
      /\ Len(sent) \in Nat /\ d \in 0..Len(sent) /\ d \in Nat
      /\ Len(buffer) \in Nat /\ Len(wire) \in Nat
      /\ Joins(all, buffer, Len(buffer), wire, Len(wire))
  BY Joined, BytesOf, ConcatProperties DEF StreamInv, TypeOK
<1>3. /\ buffer' = TryParse(buffer).rest
      /\ \/ /\ TryParse(buffer).packet # NoPacket
            /\ delivered' = Append(delivered, TryParse(buffer).packet)
         \/ /\ TryParse(buffer).packet = NoPacket
            /\ delivered' = delivered
      /\ UNCHANGED <<sent, intact, wire>>
  BY DEF Parse
<1>4. CASE TryParse(buffer) = Parsed(buffer, NoPacket)
  <2>1. buffer' = buffer /\ delivered' = delivered
    BY <1>3, <1>4 DEF Parsed
  <2> QED
    BY <1>1, <1>3, <2>1 DEF StreamInv
<1>5. CASE d = Len(sent)
  <2>1. all = <<>>
    <3>1. Framed(all, sent, Len(sent))
      BY <1>5 DEF StreamInv
    <3> QED
      BY <1>2, <3>1, FramedEnd
  <2>2. Len(buffer) = 0
    BY <1>2, <2>1, EmptySeq DEF Joins
  <2>3. FromHead(buffer) = buffer
    <3>1. ~(1 < Len(buffer))
      BY <2>2
    <3> HIDE DEF all, d
    <3> QED
      BY <1>2, <3>1, HeadAtFront
  <2>4. TryParse(buffer) = Parsed(buffer, NoPacket)
    BY <2>2, <2>3 DEF TryParse, ParseAtHead
  <2> QED
    BY <1>4, <2>4
<1>6. CASE d # Len(sent)
  <2> DEFINE p == sent[d + 1]
             n == Len(Serialize(p))
  <2>1. p \in Packets /\ n \in Nat /\ Serialize(p) \in Seq(Byte)
    <3>1. d + 1 \in 1..Len(sent)
      BY <1>2, <1>6
    <3>2. p \in Packets
      BY <1>2, <3>1, ElementOfSeq
    <3> QED
      BY <3>2, Layout, BytesOf
  <2>2. /\ n <= Len(all)
        /\ \A k \in 1..n : all[k] = Serialize(p)[k]
        /\ Framed(SubSeq(all, n + 1, Len(all)), sent, d + 1)
    BY <1>2, <1>6, FramedTake DEF StreamInv
  <2>3. \A k \in 1..Len(buffer) : all[k] = buffer[k]
    BY <1>2 DEF Joins
  <2>4. Len(all) = Len(buffer) + Len(wire)
    BY <1>2 DEF Joins
  <2> HIDE DEF p, n, all
  <2>5. CASE Len(buffer) < n
    <3>1. \A k \in 1..Len(buffer) : buffer[k] = Serialize(p)[k]
      BY <1>2, <2>1, <2>2, <2>3, <2>5
    <3>2. TryParse(buffer) = Parsed(buffer, NoPacket)
      BY <1>2, <2>1, <2>5, <3>1, ParseIncomplete DEF n
    <3> QED
      BY <1>4, <3>2
  <2>6. CASE ~(Len(buffer) < n)
    <3>1. \A k \in 1..n : buffer[k] = Serialize(p)[k]
      BY <1>2, <2>1, <2>2, <2>3, <2>6
    <3>2. TryParse(buffer) = Parsed(SubSeq(buffer, n + 1, Len(buffer)), p)
      BY <1>2, <2>1, <2>6, <3>1, ParseComplete DEF n
    <3>3. p # NoPacket
      <4>1. p.cmd \in Word
        BY <2>1, PacketParts
      <4> QED
        BY <4>1 DEF Word, NoPacket
    <3>4. buffer' = SubSeq(buffer, n + 1, Len(buffer)) /\ delivered' = Append(delivered, p)
      <4> DEFINE rest == SubSeq(buffer, n + 1, Len(buffer))
      <4> HIDE DEF rest
      <4>1. TryParse(buffer) = Parsed(rest, p)
        BY <3>2 DEF rest
      <4>2. TryParse(buffer).packet = p /\ TryParse(buffer).rest = rest
        BY <4>1 DEF Parsed
      <4>3. buffer' = rest /\ delivered' = Append(delivered, p)
        BY <1>3, <3>3, <4>2
      <4> QED
        BY <4>3 DEF rest
    <3>5. buffer' \o wire' = SubSeq(all, n + 1, Len(all))
      <4>1. n <= Len(buffer)
        BY <1>2, <2>1, <2>6
      <4>2. Behind(buffer, n) \o wire = Behind(buffer \o wire, n)
        BY <1>2, <2>1, <4>1, BehindJoined
      <4>3. buffer' = Behind(buffer, n) /\ wire' = wire
        BY <1>3, <3>4 DEF Behind
      <4> QED
        BY <4>2, <4>3 DEF Behind, all
    <3>6. Len(delivered') = d + 1 /\ d + 1 <= Len(sent)
      BY <1>2, <1>6, <3>4
    <3>7. Framed(buffer' \o wire', sent', Len(delivered'))
      BY <1>3, <2>2, <3>5, <3>6
    <3>8. \A i \in 1..Len(delivered') : delivered'[i] = sent'[i]
      <4> SUFFICES ASSUME NEW i \in 1..(d + 1) PROVE delivered'[i] = sent[i]
        BY <1>3, <3>6
      <4>1. CASE i = d + 1
        <5>1. delivered'[d + 1] = p
          BY <1>2, <3>4
        <5> QED
          BY <4>1, <5>1 DEF p
      <4>2. CASE i # d + 1
        <5>1. i \in 1..d
          BY <1>2, <4>2
        <5>2. delivered'[i] = delivered[i]
          BY <1>2, <3>4, <5>1
        <5> QED
          BY <5>1, <5>2 DEF StreamInv
      <4> QED
        BY <4>1, <4>2
    <3>9. Packet!Deliver
      BY <1>2, <1>3, <1>6, <3>4 DEF Packet!Deliver, p
    <3> QED
      BY <1>1, <1>3, <3>6, <3>7, <3>8, <3>9 DEF StreamInv
  <2> QED
    BY <2>5, <2>6
<1> QED
  BY <1>5, <1>6


\* Every step is one of the channel, or moves bytes only.
LEMMA NextStream ==
    ASSUME ~Damage, StreamInv, [Next]_vars
    PROVE  StreamInv' /\ [Packet!ChannelNext]_(Packet!channelVars)
<1>1. CASE UNCHANGED vars
  <2>1. UNCHANGED <<sent, delivered>>
    BY <1>1 DEF vars
  <2>2. StreamInv'
    BY <1>1 DEF vars, StreamInv, TypeOK
  <2> QED
    BY <2>1, <2>2 DEF Packet!channelVars
<1>2. ASSUME NEW p \in Packets, SendPacket(p)
      PROVE  StreamInv' /\ [Packet!ChannelNext]_(Packet!channelVars)
  BY <1>2, SendStream DEF Packet!ChannelNext
<1>3. ASSUME NEW p \in Packets, SendHarmed(p) PROVE FALSE
  BY <1>3 DEF SendHarmed
<1>4. CASE Receive
  BY <1>4, ReceiveStream DEF Packet!channelVars
<1>5. CASE Parse
  BY <1>5, ParseStream DEF Packet!channelVars, Packet!ChannelNext
<1> QED
  BY <1>1, <1>2, <1>3, <1>4, <1>5 DEF Next

\* A prefix of the packets sent is a prefix.
LEMMA StreamPrefix == StreamInv => OnlyIntact
<1> SUFFICES ASSUME StreamInv PROVE OnlyIntact
    OBVIOUS
<1> DEFINE d == Len(delivered)
<1>1. /\ delivered \in Seq(AnyPacket) /\ sent \in Seq(Packets) /\ intact = sent
      /\ d \in Nat /\ Len(sent) \in Nat /\ d <= Len(sent)
      /\ \A i \in 1..d : delivered[i] = sent[i]
  <2>1. delivered \in Seq(AnyPacket) /\ sent \in Seq(Packets) /\ intact = sent
    BY DEF StreamInv, TypeOK
  <2>2. Len(delivered) \in Nat /\ Len(sent) \in Nat
    BY <2>1
  <2> QED
    BY <2>1, <2>2 DEF StreamInv
<1>2. \A i \in 1..Len(sent) : sent[i] \in AnyPacket
  BY <1>1, StreamAssumption DEF StreamAssumption
<1> DEFINE first == SubSeq(sent, 1, d)
<1>3. first \in Seq(AnyPacket) /\ Len(first) = d /\ \A i \in 1..d : first[i] = sent[i]
  <2>1. \A i \in 1..d : sent[i] \in AnyPacket
    BY <1>1, <1>2
  <2>2. /\ first \in Seq(AnyPacket) /\ Len(first) = IF 1 <= d THEN d - 1 + 1 ELSE 0
        /\ \A i \in 1..(d - 1 + 1) : first[i] = sent[1 + i - 1]
    BY <1>1, <2>1, SubSeqProperties
  <2> HIDE DEF first, d
  <2>3. \A i \in 1..d : 1 + i - 1 = i
    BY <1>1
  <2> QED
    BY <1>1, <2>2, <2>3
<1>4. delivered = first
  <2> HIDE DEF first
  <2> QED
    BY <1>1, <1>3, SeqEqual
<1> QED
  BY <1>1, <1>4 DEF OnlyIntact, IsPrefix

\* Init and every step keep the invariant.
LEMMA StreamStays == ~Damage /\ Init /\ [][Next]_vars => []StreamInv
<1> SUFFICES ASSUME ~Damage PROVE Init /\ [][Next]_vars => []StreamInv
    OBVIOUS
<1>1. Init => StreamInv
  BY InitStream
<1>2. StreamInv /\ [Next]_vars => StreamInv'
  BY NextStream
<1> QED
  BY <1>1, <1>2, PTL

\* Where no byte is changed on its way, whatever pieces recv returns and
\* however often tryParse is called between them, the packets handled are the
\* first of those that were sent.
THEOREM PacketsInOrder == ~Damage => (Spec => []OnlyIntact)
<1> SUFFICES ASSUME ~Damage PROVE Spec => []OnlyIntact
    OBVIOUS
<1>1. Init /\ [][Next]_vars => []StreamInv
  BY StreamStays
<1> QED
  BY <1>1, StreamPrefix, PTL DEF Spec

\* The receive loops around tryParse are a channel of packets: each step takes
\* the next packet that was sent, puts one in, or is not seen. (That none is
\* held back is a matter of fairness.)
THEOREM StreamImplementsChannel ==
    ~Damage => (Spec => Packet!ChannelInit /\ [][Packet!ChannelNext]_(Packet!channelVars))
<1> SUFFICES ASSUME ~Damage
             PROVE  Spec => Packet!ChannelInit /\ [][Packet!ChannelNext]_(Packet!channelVars)
    OBVIOUS
<1>1. Init /\ [][Next]_vars => []StreamInv
  BY StreamStays
<1>2. Init => Packet!ChannelInit
  BY InitStream
<1>3. StreamInv /\ [Next]_vars => [Packet!ChannelNext]_(Packet!channelVars)
  BY NextStream
<1> QED
  BY <1>1, <1>2, <1>3, PTL DEF Spec

\* What tryParse finds in the buffer: nothing where all was handled, a part of
\* the next packet, which it leaves, or that packet.
LEMMA WhatIsFound ==
    ASSUME StreamInv, TryParse(buffer).packet = NoPacket
    PROVE  /\ TryParse(buffer).rest = buffer
           /\ \/ Len(delivered) = Len(sent) /\ buffer = <<>>
              \/ /\ Len(delivered) < Len(sent)
                 /\ IsStrictPrefix(buffer, Serialize(sent[Len(delivered) + 1]))
<1> DEFINE d == Len(delivered)
           all == buffer \o wire
<1>1. /\ sent \in Seq(Packets) /\ buffer \in Seq(Byte) /\ all \in Seq(Byte)
      /\ Len(sent) \in Nat /\ d \in 0..Len(sent) /\ d \in Nat
      /\ Len(buffer) \in Nat /\ Len(wire) \in Nat
      /\ Joins(all, buffer, Len(buffer), wire, Len(wire))
  BY Joined, BytesOf, ConcatProperties DEF StreamInv, TypeOK
<1>2. CASE d = Len(sent)
  <2>1. all = <<>>
    <3>1. Framed(all, sent, Len(sent))
      BY <1>2 DEF StreamInv
    <3> QED
      BY <1>1, <3>1, FramedEnd
  <2>2. Len(buffer) = 0 /\ buffer = <<>>
    BY <1>1, <2>1, EmptySeq DEF Joins
  <2>3. FromHead(buffer) = buffer
    <3>1. ~(1 < Len(buffer))
      BY <2>2
    <3> HIDE DEF all, d
    <3> QED
      BY <1>1, <3>1, HeadAtFront
  <2>4. TryParse(buffer) = Parsed(buffer, NoPacket)
    BY <2>2, <2>3 DEF TryParse, ParseAtHead
  <2> QED
    BY <1>2, <2>2, <2>4 DEF Parsed
<1>3. CASE d # Len(sent)
  <2> DEFINE p == sent[d + 1]
             s == Serialize(p)
             n == Len(s)
  <2>1. p \in Packets /\ n \in Nat /\ s \in Seq(Byte)
    <3>1. d + 1 \in 1..Len(sent)
      BY <1>1, <1>3
    <3>2. p \in Packets
      BY <1>1, <3>1, ElementOfSeq
    <3> QED
      BY <3>2, Layout, BytesOf
  <2>2. n <= Len(all) /\ \A k \in 1..n : all[k] = s[k]
    BY <1>1, <1>3, FramedTake DEF StreamInv
  <2>3. /\ \A k \in 1..Len(buffer) : all[k] = buffer[k]
        /\ Len(all) = Len(buffer) + Len(wire)
    BY <1>1 DEF Joins
  <2>4. Len(delivered) < Len(sent) /\ s = Serialize(sent[Len(delivered) + 1])
    BY <1>1, <1>3
  <2>5. p # NoPacket
    <3>1. p.cmd \in Word
      BY <2>1, PacketParts
    <3> QED
      BY <3>1 DEF Word, NoPacket
  <2> HIDE DEF p, all, d
  <2>6. Len(buffer) < n
    <3> SUFFICES ASSUME ~(Len(buffer) < n) PROVE FALSE
      OBVIOUS
    <3>1. \A k \in 1..n : buffer[k] = s[k]
      BY <1>1, <2>1, <2>2, <2>3
    <3>2. TryParse(buffer) = Parsed(SubSeq(buffer, n + 1, Len(buffer)), p)
      BY <1>1, <2>1, <3>1, ParseComplete
    <3>3. TryParse(buffer).packet = p
      <4> DEFINE rest == SubSeq(buffer, n + 1, Len(buffer))
      <4> HIDE DEF rest
      <4>1. TryParse(buffer) = Parsed(rest, p)
        BY <3>2 DEF rest
      <4> QED
        BY <4>1 DEF Parsed
    <3> QED
      BY <2>5, <3>3
  <2> HIDE DEF s
  <2>7. \A k \in 1..Len(buffer) : buffer[k] = s[k]
    BY <1>1, <2>1, <2>2, <2>3, <2>6
  <2>8. TryParse(buffer) = Parsed(buffer, NoPacket)
    BY <1>1, <2>1, <2>6, <2>7, ParseIncomplete DEF s
  <2>9. IsStrictPrefix(buffer, s)
    <3> DEFINE m == Len(buffer)
               first == SubSeq(s, 1, m)
    <3>1. m \in 0..n /\ m \in Nat
      BY <1>1, <2>1, <2>6
    <3>2. \A i \in 1..m : s[i] \in Byte
      BY <2>1, <3>1, ElementOfSeq
    <3>3. /\ first \in Seq(Byte) /\ Len(first) = IF 1 <= m THEN m - 1 + 1 ELSE 0
          /\ \A i \in 1..(m - 1 + 1) : first[i] = s[1 + i - 1]
      BY <3>1, <3>2, SubSeqProperties
    <3> HIDE DEF first, m
    <3>4. Len(first) = m /\ \A i \in 1..m : first[i] = s[i]
      <4>1. \A i \in 1..m : 1 + i - 1 = i
        BY <3>1
      <4> QED
        BY <3>1, <3>3, <4>1
    <3>5. buffer = first
      BY <1>1, <2>7, <3>3, <3>4, SeqEqual DEF m
    <3>6. SubSeq(buffer, 1, m) = buffer
      BY <1>1, SubSeqFull DEF m
    <3> QED
      BY <2>6, <3>1, <3>5, <3>6 DEF IsStrictPrefix, IsPrefix, first, m
  <2> QED
    BY <2>4, <2>8, <2>9 DEF Parsed
<1> QED
  BY <1>2, <1>3

HeldInv == StreamInv /\ NothingHeldBack

LEMMA HeldStays == ASSUME ~Damage, HeldInv, [Next]_vars PROVE HeldInv'
<1>1. StreamInv /\ StreamInv' /\ parsing \in BOOLEAN
  BY NextStream DEF HeldInv, StreamInv, TypeOK
<1> SUFFICES NothingHeldBack'
  BY <1>1 DEF HeldInv
<1>2. ASSUME NEW p \in Packets, SendPacket(p) PROVE NothingHeldBack'
  <2>1. /\ sent \in Seq(Packets) /\ Serialize(p) \in Seq(Byte)
        /\ Len(sent) \in Nat /\ Len(delivered) \in Nat
        /\ Len(delivered) <= Len(sent)
    BY <1>1, Layout DEF StreamInv, TypeOK
  <2>2. /\ UNCHANGED <<buffer, parsing, delivered>>
        /\ sent' = Append(sent, p)
        /\ Len(sent') = Len(sent) + 1 /\ sent'[Len(sent) + 1] = p
        /\ \A i \in 1..Len(sent) : sent'[i] = sent[i]
    BY <1>2, <2>1 DEF SendPacket
  <2>3. IsStrictPrefix(<<>>, Serialize(p))
    <3>1. Len(Serialize(p)) \in Nat /\ Len(Serialize(p)) > 0
      BY Layout, PacketParts, BytesOf
    <3>2. Serialize(p) # <<>> /\ Len(<<>>) = 0
      BY <3>1, EmptySeq
    <3>3. SubSeq(<<>>, 1, 0) = <<>> /\ SubSeq(Serialize(p), 1, 0) = <<>>
      BY <2>1, SubSeqEmpty, EmptySeq
    <3> QED
      BY <3>1, <3>2, <3>3 DEF IsStrictPrefix, IsPrefix
  <2>4. CASE Len(delivered) = Len(sent) /\ buffer = <<>>
    BY <2>1, <2>2, <2>3, <2>4 DEF NothingHeldBack
  <2>5. CASE /\ Len(delivered) < Len(sent)
             /\ IsStrictPrefix(buffer, Serialize(sent[Len(delivered) + 1]))
    <3>1. sent'[Len(delivered) + 1] = sent[Len(delivered) + 1]
      BY <2>1, <2>2, <2>5
    <3> QED
      BY <2>1, <2>2, <2>5, <3>1 DEF NothingHeldBack
  <2>6. CASE parsing
    BY <2>2, <2>6 DEF NothingHeldBack
  <2> QED
    BY <2>4, <2>5, <2>6 DEF HeldInv, NothingHeldBack
<1>3. ASSUME NEW p \in Packets, SendHarmed(p) PROVE FALSE
  BY <1>3 DEF SendHarmed
<1>4. CASE Receive
  <2>1. parsing' = TRUE
    BY <1>4 DEF Receive
  <2> QED
    BY <2>1 DEF NothingHeldBack
<1>5. CASE Parse
  <2>1. CASE TryParse(buffer).packet = NoPacket
    <3>1. /\ buffer' = TryParse(buffer).rest
          /\ delivered' = delivered /\ sent' = sent
      BY <1>5, <2>1 DEF Parse
    <3>2. /\ buffer' = buffer
          /\ \/ Len(delivered) = Len(sent) /\ buffer = <<>>
             \/ /\ Len(delivered) < Len(sent)
                /\ IsStrictPrefix(buffer, Serialize(sent[Len(delivered) + 1]))
      BY <1>1, <2>1, <3>1, WhatIsFound
    <3> QED
      BY <3>1, <3>2 DEF NothingHeldBack
  <2>2. CASE TryParse(buffer).packet # NoPacket
    <3>1. parsing /\ parsing' = parsing
      BY <1>5, <2>2 DEF Parse
    <3> QED
      BY <3>1 DEF NothingHeldBack
  <2> QED
    BY <2>1, <2>2
<1>6. CASE UNCHANGED vars
  <2>1. UNCHANGED <<sent, buffer, parsing, delivered>>
    BY <1>6 DEF vars
  <2> QED
    BY <2>1 DEF HeldInv, NothingHeldBack
<1> QED
  BY <1>2, <1>3, <1>4, <1>5, <1>6 DEF Next

\* Where no byte is changed on its way, the loops around tryParse leave nothing
\* behind but the beginning of the packet that comes next.
THEOREM LoopTakesAll == ~Damage => (Spec => []NothingHeldBack)
<1> SUFFICES ASSUME ~Damage PROVE Spec => []NothingHeldBack
    OBVIOUS
<1>1. Init => HeldInv
  <2> SUFFICES ASSUME Init PROVE HeldInv
    OBVIOUS
  <2>1. Len(delivered) = Len(sent) /\ buffer = <<>>
    BY DEF Init
  <2> QED
    BY <2>1, InitStream DEF HeldInv, NothingHeldBack
<1>2. HeldInv /\ [Next]_vars => HeldInv'
  BY HeldStays
<1>3. HeldInv => NothingHeldBack
  BY DEF HeldInv
<1> QED
  BY <1>1, <1>2, <1>3, PTL DEF Spec

-----------------------------------------------------------------------------
(* With damage: what is on the way.                                         *)

\* A packet of which byte i arrives as another one.
Harmed(p, i) == [Serialize(p) EXCEPT ![i] = (@ + 1) % 256]

\* Packets with a head that was not harmed.
Spoilt == UNION {{Harmed(p, i) : i \in 9..Len(Serialize(p))} : p \in Packets}

\* Bytes among which there is no head, not even across the end, when what is
\* behind them begins as a packet does, harmed or not.
Headless ==
    {b \in Seq(Byte) : \A i \in 1..Len(b) :
        i < Len(b) => ~(b[i] = HeadBytes[1] /\ b[i + 1] = HeadBytes[2])}
Begins(b) == b[1] \in {HeadBytes[1], (HeadBytes[1] + 1) % 256}
Beheaded == {b \in Headless : b # <<>> /\ Begins(b)}

\* Bytes on the way, and the packets that will be handled of them: the least
\* set that has nothing, and what has a packet, sound, spoilt or beheaded, in
\* front of what it has.
Streams == Seq(Byte) \X Seq(Packets)
WithSound(p, x) == <<Serialize(p) \o x[1], <<p>> \o x[2]>>
WithLost(b, x) == <<b \o x[1], x[2]>>
Nil == <<<<>>, <<>>>>
Grows(S) ==
    /\ Nil \in S
    /\ \A x \in S : /\ \A p \in Packets : WithSound(p, x) \in S
                    /\ \A b \in Spoilt \cup Beheaded : WithLost(b, x) \in S
OnTheWay == {x \in Streams : \A S \in SUBSET Streams : Grows(S) => x \in S}

LEMMA HeadBytesAre ==
    /\ HeadBytes[1] = 255 /\ HeadBytes[2] = 254
    /\ (HeadBytes[1] + 1) % 256 = 0 /\ (HeadBytes[2] + 1) % 256 = 255
BY DEF HeadBytes, WordBytes, kPacketHead

\* How a packet begins.
LEMMA PacketFront ==
    ASSUME NEW p \in Packets
    PROVE  /\ Serialize(p) \in Seq(Byte)
           /\ Len(Serialize(p)) \in Nat /\ Len(Serialize(p)) >= 10
           /\ Serialize(p)[1] = HeadBytes[1] /\ Serialize(p)[2] = HeadBytes[2]
<1>1. /\ Serialize(p) \in Seq(Byte)
      /\ Len(Serialize(p)) = Len(p.payload) + 10 /\ Len(p.payload) \in Nat
  BY Layout, PacketParts
<1>2. \A j \in 1..2 : Serialize(p)[j] = HeadBytes[j]
  BY Layout
<1>3. 1 \in 1..2 /\ 2 \in 1..2
  OBVIOUS
<1> QED
  BY <1>1, <1>2, <1>3

LEMMA HarmedBytes ==
    ASSUME NEW p \in Packets, NEW i \in 1..Len(Serialize(p))
    PROVE  /\ Harmed(p, i) \in Seq(Byte)
           /\ Len(Harmed(p, i)) = Len(Serialize(p))
           /\ Harmed(p, i)[i] = (Serialize(p)[i] + 1) % 256
           /\ \A j \in 1..Len(Serialize(p)) : j # i => Harmed(p, i)[j] = Serialize(p)[j]
<1> DEFINE s == Serialize(p)
           e == (s[i] + 1) % 256
<1>1. s \in Seq(Byte) /\ s[i] \in Byte
  BY Layout, BytesOf
<1>2. e \in Byte
  <2>1. s[i] + 1 \in Nat
    BY <1>1, Bytes
  <2> QED
    BY <2>1, DividedByte
<1>3. Harmed(p, i) = [s EXCEPT ![i] = e]
  BY DEF Harmed
<1> HIDE DEF s, e
<1>4. /\ [s EXCEPT ![i] = e] \in Seq(Byte)
      /\ Len([s EXCEPT ![i] = e]) = Len(s)
      /\ \A j \in 1..Len(s) : [s EXCEPT ![i] = e][j] = IF j = i THEN e ELSE s[j]
  <2>1. i \in 1..Len(s)
    BY DEF s
  <2> QED
    BY <1>1, <1>2, <2>1, ExceptSeq
<1> QED
  BY <1>3, <1>4 DEF s, e

LEMMA LostBytes == Spoilt \cup Beheaded \subseteq Seq(Byte)
<1>1. ASSUME NEW p \in Packets, NEW i \in 9..Len(Serialize(p))
      PROVE  Harmed(p, i) \in Seq(Byte)
  <2>1. i \in 1..Len(Serialize(p))
    BY Layout, BytesOf
  <2> QED
    BY <2>1, HarmedBytes
<1> QED
  BY <1>1 DEF Spoilt, Beheaded, Headless

LEMMA StreamsGrow == Grows(Streams)
<1>1. Nil \in Streams
  BY EmptySeq DEF Nil, Streams
<1>2. ASSUME NEW x \in Streams, NEW p \in Packets PROVE WithSound(p, x) \in Streams
  <2>1. x[1] \in Seq(Byte) /\ x[2] \in Seq(Packets)
    BY DEF Streams
  <2>2. Serialize(p) \o x[1] \in Seq(Byte) /\ <<p>> \o x[2] \in Seq(Packets)
    BY <2>1, Layout, ConcatProperties
  <2> QED
    BY <2>2 DEF WithSound, Streams
<1>3. ASSUME NEW x \in Streams, NEW b \in Spoilt \cup Beheaded
      PROVE  WithLost(b, x) \in Streams
  <2>1. x[1] \in Seq(Byte) /\ x[2] \in Seq(Packets) /\ b \in Seq(Byte)
    BY LostBytes DEF Streams
  <2>2. b \o x[1] \in Seq(Byte)
    BY <2>1, ConcatProperties
  <2> QED
    BY <2>1, <2>2 DEF WithLost, Streams
<1> QED
  BY <1>1, <1>2, <1>3 DEF Grows

LEMMA OnTheWayGrows == OnTheWay \subseteq Streams /\ Grows(OnTheWay)
<1>1. Nil \in OnTheWay
  BY StreamsGrow DEF OnTheWay, Grows
<1>2. ASSUME NEW x \in OnTheWay, NEW p \in Packets PROVE WithSound(p, x) \in OnTheWay
  <2>1. ASSUME NEW S \in SUBSET Streams, Grows(S) PROVE WithSound(p, x) \in S
    <3>1. x \in S
      BY <2>1 DEF OnTheWay
    <3> QED
      BY <2>1, <3>1 DEF Grows
  <2>2. WithSound(p, x) \in Streams
    BY StreamsGrow DEF OnTheWay, Grows
  <2> QED
    BY <2>1, <2>2 DEF OnTheWay
<1>3. ASSUME NEW x \in OnTheWay, NEW b \in Spoilt \cup Beheaded
      PROVE  WithLost(b, x) \in OnTheWay
  <2>1. ASSUME NEW S \in SUBSET Streams, Grows(S) PROVE WithLost(b, x) \in S
    <3>1. x \in S
      BY <2>1 DEF OnTheWay
    <3> QED
      BY <2>1, <3>1 DEF Grows
  <2>2. WithLost(b, x) \in Streams
    BY StreamsGrow DEF OnTheWay, Grows
  <2> QED
    BY <2>1, <2>2 DEF OnTheWay
<1> QED
  BY <1>1, <1>2, <1>3 DEF Grows, OnTheWay

\* What is on the way is nothing, or has a packet in front.
LEMMA WhatIsInFront ==
    ASSUME NEW x \in OnTheWay
    PROVE  \/ x = Nil
           \/ \E y \in OnTheWay : \/ \E p \in Packets : x = WithSound(p, y)
                                  \/ \E b \in Spoilt \cup Beheaded : x = WithLost(b, y)
<1> DEFINE Begun(z) ==
             \/ z = Nil
             \/ \E y \in OnTheWay : \/ \E p \in Packets : z = WithSound(p, y)
                                    \/ \E b \in Spoilt \cup Beheaded : z = WithLost(b, y)
           S == {z \in OnTheWay : Begun(z)}
<1>1. \A z \in S : z \in OnTheWay
  OBVIOUS
<1>2. Nil \in S
  BY OnTheWayGrows DEF Grows
<1>3. ASSUME NEW z \in S, NEW p \in Packets PROVE WithSound(p, z) \in S
  BY OnTheWayGrows DEF Grows
<1>4. ASSUME NEW z \in S, NEW b \in Spoilt \cup Beheaded PROVE WithLost(b, z) \in S
  BY OnTheWayGrows DEF Grows
<1>5. S \in SUBSET Streams
  BY OnTheWayGrows
<1> HIDE DEF S
<1>6. Grows(S)
  BY <1>2, <1>3, <1>4 DEF Grows
<1>7. x \in S
  BY <1>5, <1>6 DEF OnTheWay
<1> QED
  BY <1>7 DEF S

\* What is on the way may be followed by what may be on the way.
LEMMA FollowedBy ==
    ASSUME NEW x \in OnTheWay, NEW y \in OnTheWay
    PROVE  <<x[1] \o y[1], x[2] \o y[2]>> \in OnTheWay
<1> DEFINE Both(z) == <<z[1] \o y[1], z[2] \o y[2]>>
           S == {z \in OnTheWay : Both(z) \in OnTheWay}
<1>1. OnTheWay \subseteq Streams /\ Grows(OnTheWay) /\ y[1] \in Seq(Byte) /\ y[2] \in Seq(Packets)
  BY OnTheWayGrows DEF Streams
<1>2. Nil \in S
  <2>1. <<>> \o y[1] = y[1] /\ <<>> \o y[2] = y[2]
    BY <1>1, ConcatEmptySeq
  <2>2. Both(Nil) = <<y[1], y[2]>>
    BY <2>1 DEF Nil
  <2>3. y = <<y[1], y[2]>>
    BY <1>1 DEF Streams
  <2> QED
    BY <1>1, <2>2, <2>3 DEF Grows
<1>3. ASSUME NEW z \in S
      PROVE  /\ z \in OnTheWay /\ Both(z) \in OnTheWay
             /\ z[1] \in Seq(Byte) /\ z[2] \in Seq(Packets)
  BY <1>1 DEF Streams
<1>4. ASSUME NEW z \in OnTheWay, Both(z) \in OnTheWay PROVE z \in S
  BY <1>4
<1> HIDE DEF S
<1>5. ASSUME NEW z \in S, NEW p \in Packets PROVE WithSound(p, z) \in S
  <2>1. Serialize(p) \in Seq(Byte) /\ <<p>> \in Seq(Packets)
    BY Layout
  <2>2. z[1] \in Seq(Byte) /\ z[2] \in Seq(Packets)
    BY <1>3
  <2>3. (Serialize(p) \o z[1]) \o y[1] = Serialize(p) \o (z[1] \o y[1])
    BY <1>1, <2>1, <2>2, Regroup
  <2>4. (<<p>> \o z[2]) \o y[2] = <<p>> \o (z[2] \o y[2])
    <3>1. ASSUME NEW q \in Seq(Packets), NEW t \in Seq(Packets), NEW u \in Seq(Packets)
          PROVE  (q \o t) \o u = q \o (t \o u)
      BY ConcatAssociative
    <3> QED
      BY <1>1, <2>1, <2>2, <3>1
  <2>5. Both(WithSound(p, z)) = WithSound(p, Both(z))
    BY <2>3, <2>4 DEF WithSound
  <2> HIDE DEF Both
  <2>6. WithSound(p, z) \in OnTheWay /\ WithSound(p, Both(z)) \in OnTheWay
    BY <1>1, <1>3 DEF Grows
  <2> QED
    BY <1>4, <2>5, <2>6
<1>6. ASSUME NEW z \in S, NEW b \in Spoilt \cup Beheaded PROVE WithLost(b, z) \in S
  <2>1. b \in Seq(Byte) /\ z[1] \in Seq(Byte)
    BY <1>3, LostBytes
  <2>2. (b \o z[1]) \o y[1] = b \o (z[1] \o y[1])
    BY <1>1, <2>1, Regroup
  <2>3. Both(WithLost(b, z)) = WithLost(b, Both(z))
    BY <2>2 DEF WithLost
  <2> HIDE DEF Both
  <2>4. WithLost(b, z) \in OnTheWay /\ WithLost(b, Both(z)) \in OnTheWay
    BY <1>1, <1>3 DEF Grows
  <2> QED
    BY <1>4, <2>3, <2>4
<1>7. S \in SUBSET Streams
  BY <1>1 DEF S
<1> HIDE DEF Both
<1>8. Grows(S)
  BY <1>2, <1>5, <1>6 DEF Grows
<1>9. x \in S
  BY <1>7, <1>8 DEF OnTheWay
<1> QED
  BY <1>9 DEF S, Both

\* A packet is put behind what is on the way.
LEMMA PutSound ==
    ASSUME NEW x \in OnTheWay, NEW p \in Packets
    PROVE  <<x[1] \o Serialize(p), Append(x[2], p)>> \in OnTheWay
<1> DEFINE y == WithSound(p, Nil)
<1>1. y \in OnTheWay /\ x[2] \in Seq(Packets)
  BY OnTheWayGrows DEF Grows, Streams
<1>2. y[1] = Serialize(p) /\ y[2] = <<p>>
  <2>1. Serialize(p) \in Seq(Byte) /\ <<p>> \in Seq(Packets)
    BY Layout
  <2>2. Serialize(p) \o <<>> = Serialize(p) /\ <<p>> \o <<>> = <<p>>
    BY <2>1, ConcatEmptySeq
  <2> QED
    BY <2>2 DEF WithSound, Nil
<1>3. Append(x[2], p) = x[2] \o <<p>>
  BY <1>1, AppendIsConcat
<1> HIDE DEF y
<1> QED
  BY <1>1, <1>2, <1>3, FollowedBy

LEMMA PutLost ==
    ASSUME NEW x \in OnTheWay, NEW b \in Spoilt \cup Beheaded
    PROVE  <<x[1] \o b, x[2]>> \in OnTheWay
<1> DEFINE y == WithLost(b, Nil)
<1>1. y \in OnTheWay /\ x[2] \in Seq(Packets)
  BY OnTheWayGrows DEF Grows, Streams
<1>2. y[1] = b /\ y[2] = <<>>
  <2>1. b \o <<>> = b
    BY LostBytes, ConcatEmptySeq
  <2> QED
    BY <2>1 DEF WithLost, Nil
<1>3. x[2] \o <<>> = x[2]
  BY <1>1, ConcatEmptySeq
<1> HIDE DEF y
<1> QED
  BY <1>1, <1>2, <1>3, FollowedBy

\* A packet whose head is harmed is beheaded, if it is plain.
LEMMA HarmedHead ==
    ASSUME NEW p \in Packets, Plain(p), NEW i \in {1, 2}
    PROVE  Harmed(p, i) \in Beheaded
<1> DEFINE s == Serialize(p)
           h == Harmed(p, i)
<1>1. /\ s \in Seq(Byte) /\ Len(s) \in Nat /\ Len(s) >= 10
      /\ s[1] = HeadBytes[1] /\ s[2] = HeadBytes[2]
  BY PacketFront
<1>2. /\ h \in Seq(Byte) /\ Len(h) = Len(s) /\ h[i] = (s[i] + 1) % 256
      /\ \A j \in 1..Len(s) : j # i => h[j] = s[j]
  <2>1. i \in 1..Len(s)
    BY <1>1
  <2> QED
    BY <2>1, HarmedBytes
<1>3. \A j \in 3..Len(s) : s[j] = HeadBytes[2] => j > 3 /\ s[j - 1] # HeadBytes[1]
  BY DEF Plain
<1> HIDE DEF s, h
<1>4. \/ h[1] = 0 /\ h[2] = 254
      \/ h[1] = 255 /\ h[2] = 255
  <2>1. 1 \in 1..Len(s) /\ 2 \in 1..Len(s)
    BY <1>1
  <2> QED
    BY <1>1, <1>2, <2>1, HeadBytesAre
<1>5. ASSUME NEW j \in 1..Len(h), j < Len(h), h[j] = 255, h[j + 1] = 254
      PROVE  FALSE
  <2>1. j # 1
    BY <1>4, <1>5
  <2>2. j + 1 \in 3..Len(s) /\ j + 1 # i /\ (j + 1) - 1 = j /\ j + 1 \in 1..Len(s)
    BY <1>1, <1>2, <1>5, <2>1
  <2>3. s[j + 1] = HeadBytes[2]
    BY <1>2, <1>5, <2>2, HeadBytesAre
  <2>4. j + 1 > 3 /\ s[j] # HeadBytes[1]
    BY <1>3, <2>2, <2>3
  <2>5. j # i /\ j \in 1..Len(s)
    BY <1>1, <1>2, <2>4
  <2> QED
    BY <1>2, <1>5, <2>4, <2>5, HeadBytesAre
<1>6. h \in Headless
  BY <1>2, <1>5, HeadBytesAre DEF Headless
<1>7. h # <<>> /\ Begins(h)
  BY <1>1, <1>2, <1>4, HeadBytesAre, EmptySeq DEF Begins
<1> QED
  BY <1>6, <1>7 DEF Beheaded, h

\* What is on the way begins as a packet does.
LEMMA FrontBegins ==
    ASSUME NEW x \in OnTheWay, x[1] # <<>>
    PROVE  Begins(x[1])
<1>1. ASSUME NEW b \in Seq(Byte), Len(b) > 0, b[1] \in {0, 255}, NEW y \in OnTheWay
      PROVE  Begins(b \o y[1])
  <2>1. y[1] \in Seq(Byte) /\ Len(b) \in Nat /\ Len(y[1]) \in Nat
    BY <1>1, BytesOf, OnTheWayGrows DEF Streams
  <2>2. (b \o y[1])[1] = b[1]
    <3>1. 1 \in 1..(Len(b) + Len(y[1])) /\ 1 <= Len(b)
      BY <1>1, <2>1
    <3> QED
      BY <1>1, <2>1, <3>1, ConcatProperties
  <2> QED
    BY <1>1, <2>2, HeadBytesAre DEF Begins
<1>2. ASSUME NEW p \in Packets, NEW y \in OnTheWay, x = WithSound(p, y)
      PROVE  Begins(x[1])
  <2>1. Serialize(p) \in Seq(Byte) /\ Len(Serialize(p)) > 0 /\ Serialize(p)[1] = 255
    BY PacketFront, HeadBytesAre
  <2> QED
    BY <1>1, <1>2, <2>1 DEF WithSound
<1>3. ASSUME NEW b \in Spoilt \cup Beheaded, NEW y \in OnTheWay, x = WithLost(b, y)
      PROVE  Begins(x[1])
  <2>1. b \in Seq(Byte) /\ Len(b) > 0 /\ b[1] \in {0, 255}
    <3>1. CASE b \in Beheaded
      BY <3>1, EmptySeq, HeadBytesAre, LostBytes DEF Beheaded, Begins
    <3>2. CASE b \in Spoilt
      <4>1. PICK p \in Packets : \E i \in 9..Len(Serialize(p)) : b = Harmed(p, i)
        BY <3>2 DEF Spoilt
      <4>2. PICK i \in 9..Len(Serialize(p)) : b = Harmed(p, i)
        BY <4>1
      <4>3. /\ Len(Serialize(p)) \in Nat /\ Len(Serialize(p)) >= 10
            /\ Serialize(p)[1] = 255
        BY PacketFront, HeadBytesAre
      <4>4. i \in 1..Len(Serialize(p)) /\ 1 # i /\ 1 \in 1..Len(Serialize(p))
        BY <4>3
      <4> QED
        BY <4>2, <4>3, <4>4, HarmedBytes
    <3> QED
      BY <3>1, <3>2
  <2> QED
    BY <1>1, <1>3, <2>1 DEF WithLost
<1>4. x # Nil
  BY DEF Nil
<1> QED
  BY <1>2, <1>3, <1>4, WhatIsInFront

-----------------------------------------------------------------------------
(* With damage: what tryParse makes of a packet of which a byte changed.    *)

\* A Word is added to two others: their sums are only the same if they are.
LEMMA WordsCancel ==
    ASSUME NEW s \in Word, NEW t \in Word, NEW x \in Word,
           (s + x) % 65536 = (t + x) % 65536
    PROVE  s = t
<1>1. s \in Nat /\ t \in Nat /\ x \in Nat /\ s < 65536 /\ t < 65536
  BY DEF Word
<1> QED
  BY <1>1

\* A byte that is made another one is another one.
LEMMA NextByte ==
    ASSUME NEW x \in Byte
    PROVE  (x + 1) % 256 \in Byte /\ (x + 1) % 256 # x
<1>1. x \in Nat /\ x < 256
  BY Bytes
<1>2. (x + 1) % 256 \in Byte
  BY <1>1, DividedByte
<1> QED
  BY <1>1, <1>2

\* One byte changed is noticed in the checksum.
LEMMA ChecksumNotices ==
    ASSUME NEW b \in Seq(Byte), NEW c \in Seq(Byte), Len(c) = Len(b),
           NEW k \in 1..Len(b), c[k] # b[k],
           \A i \in 1..Len(b) : i # k => c[i] = b[i]
    PROVE  Checksum(b) # Checksum(c)
<1> DEFINE n == Len(b)
           T == {i \in Nat : i <= n => (Sums(b)[i] = Sums(c)[i] <=> i < k)}
<1>1. /\ n \in Nat /\ k \in Nat /\ k <= n
      /\ \A i \in 1..n : b[i] \in Byte /\ c[i] \in Byte
  BY BytesOf
<1>2. /\ \A i \in 0..n : Sums(b)[i] \in Word /\ Sums(c)[i] \in Word
      /\ Sums(b) = SumTurns(b, Sums(b)) /\ Sums(c) = SumTurns(c, Sums(c))
  BY SumsAreWords
<1>3. Sums(b)[0] = 0 /\ Sums(c)[0] = 0
  BY <1>1, <1>2 DEF SumTurns
<1>4. ASSUME NEW i \in 0..(n - 1)
      PROVE  /\ Sums(b)[i + 1] = (Sums(b)[i] + b[i + 1]) % 65536
             /\ Sums(c)[i + 1] = (Sums(c)[i] + c[i + 1]) % 65536
             /\ Sums(b)[i] \in Word /\ Sums(c)[i] \in Word
             /\ b[i + 1] \in Word /\ c[i + 1] \in Word
  <2>1. i + 1 \in 0..n /\ i \in 0..n /\ i + 1 # 0 /\ (i + 1) - 1 = i /\ i + 1 \in 1..n
    BY <1>1
  <2>2. /\ Sums(b)[i + 1] = (Sums(b)[(i + 1) - 1] + b[i + 1]) % 65536
        /\ Sums(c)[i + 1] = (Sums(c)[(i + 1) - 1] + c[i + 1]) % 65536
    BY <1>2, <2>1 DEF SumTurns
  <2>3. \A x \in Byte : x \in Word
    BY Bytes DEF Word
  <2> QED
    BY <1>1, <1>2, <2>1, <2>2, <2>3
<1> HIDE DEF n
<1>5. 0 \in T
  BY <1>1, <1>3
<1>6. ASSUME NEW i \in Nat, i \in T PROVE i + 1 \in T
  <2> SUFFICES ASSUME i + 1 <= n
               PROVE  Sums(b)[i + 1] = Sums(c)[i + 1] <=> i + 1 < k
      OBVIOUS
  <2>1. i \in 0..(n - 1) /\ i + 1 \in 1..n
    BY <1>1
  <2>2. Sums(b)[i] = Sums(c)[i] <=> i < k
    BY <1>1, <1>6
  <2> DEFINE s == Sums(b)[i]
             t == Sums(c)[i]
             x == b[i + 1]
             y == c[i + 1]
  <2>3. /\ s \in Word /\ t \in Word /\ x \in Word /\ y \in Word
        /\ Sums(b)[i + 1] = (s + x) % 65536 /\ Sums(c)[i + 1] = (t + y) % 65536
    BY <1>4, <2>1
  <2>4. IF i + 1 = k THEN x # y ELSE x = y
    BY <2>1 DEF n
  <2>5. s = t <=> i < k
    BY <2>2
  <2> HIDE DEF s, t, x, y
  <2>6. CASE i + 1 < k
    BY <1>1, <2>3, <2>4, <2>5, <2>6
  <2>7. CASE i + 1 = k
    <3>1. s = t /\ x # y
      BY <1>1, <2>4, <2>5, <2>7
    <3>2. x + s = s + x /\ y + t = t + y
      BY <2>3 DEF Word
    <3>3. (x + s) % 65536 # (y + s) % 65536
      BY <2>3, <3>1, WordsCancel
    <3>4. (s + x) % 65536 # (t + y) % 65536
      BY <3>1, <3>2, <3>3
    <3> QED
      BY <1>1, <2>3, <2>7, <3>4
  <2>8. CASE i + 1 > k
    <3>1. s # t /\ x = y
      BY <1>1, <2>4, <2>5, <2>8
    <3>2. (s + x) % 65536 # (t + x) % 65536
      BY <2>3, <3>1, WordsCancel
    <3> QED
      BY <1>1, <2>3, <2>8, <3>1, <3>2
  <2> QED
    BY <1>1, <2>6, <2>7, <2>8
<1> HIDE DEF T
<1>7. n \in T
  BY <1>1, <1>5, <1>6, Induction
<1>8. Sums(b)[n] # Sums(c)[n]
  BY <1>1, <1>7 DEF T
<1> QED
  BY <1>8 DEF Checksum, n

\* A Word of which a byte changed is another one.
LEMMA WordNotices ==
    ASSUME NEW l \in Byte, NEW h \in Byte, NEW x \in Byte, NEW y \in Byte,
           l + 256 * h = x + 256 * y
    PROVE  l = x /\ h = y
<1>1. l \in Nat /\ h \in Nat /\ x \in Nat /\ y \in Nat
  BY Bytes
<1>2. 256 * h + l = 256 * y + x
  BY <1>1
<1>3. (256 * h + l) % 256 = l /\ (256 * h + l) \div 256 = h
  BY <1>1, ComposedByte
<1>4. (256 * y + x) % 256 = x /\ (256 * y + x) \div 256 = y
  BY <1>1, ComposedByte
<1> QED
  BY <1>2, <1>3, <1>4

\* Payload and checksum do not fit, if a byte of one of them changed.
LEMMA SpoiltLayout ==
    ASSUME NEW b \in Spoilt
    PROVE  \E n \in Nat :
             /\ b \in Seq(Byte) /\ Len(b) = n + 10 /\ n + 4 \in DWord
             /\ b[1] = HeadBytes[1] /\ b[2] = HeadBytes[2]
             /\ \A j \in 1..4 : b[2 + j] = DWordBytes(n + 4)[j]
             /\ SubSeq(b, 9, 8 + n) \in Seq(Byte)
             /\ Len(SubSeq(b, 9, 8 + n)) = n
             /\ \A j \in 1..n : SubSeq(b, 9, 8 + n)[j] = b[8 + j]
             /\ Checksum(SubSeq(b, 9, 8 + n)) # WordAt(b, 8 + n)
<1>1. PICK p \in Packets : \E i \in 9..Len(Serialize(p)) : b = Harmed(p, i)
  BY DEF Spoilt
<1>2. PICK i \in 9..Len(Serialize(p)) : b = Harmed(p, i)
  BY <1>1
<1> DEFINE n == Len(p.payload)
           s == Serialize(p)
           payload == SubSeq(b, 9, 8 + n)
           sum == Checksum(p.payload)
<1>3. /\ n \in Nat /\ n + 4 \in DWord /\ p.payload \in Seq(Byte) /\ sum \in Word
      /\ s \in Seq(Byte) /\ Len(s) = n + 10
      /\ \A j \in 1..2 : s[j] = HeadBytes[j]
      /\ \A j \in 1..4 : s[2 + j] = DWordBytes(n + 4)[j]
      /\ \A j \in 1..n : s[8 + j] = p.payload[j]
      /\ \A j \in 1..2 : s[8 + n + j] = WordBytes(sum)[j]
  BY PacketParts, Layout
<1>4. i \in 9..(n + 10) /\ i \in 1..Len(s)
  BY <1>3
<1>5. /\ b \in Seq(Byte) /\ Len(b) = n + 10
      /\ b[i] = (s[i] + 1) % 256
      /\ \A j \in 1..(n + 10) : j # i => b[j] = s[j]
  BY <1>2, <1>3, <1>4, HarmedBytes
<1> HIDE DEF n, s, sum
<1>6. b[i] # s[i] /\ \A j \in 1..(n + 10) : b[j] \in Byte /\ s[j] \in Byte
  <2>1. \A j \in 1..(n + 10) : b[j] \in Byte /\ s[j] \in Byte
    BY <1>3, <1>5, BytesOf
  <2>2. i \in 1..(n + 10)
    BY <1>3, <1>4
  <2> QED
    BY <1>5, <2>1, <2>2, NextByte
<1>7. /\ b[1] = HeadBytes[1] /\ b[2] = HeadBytes[2]
      /\ \A j \in 1..4 : b[2 + j] = DWordBytes(n + 4)[j]
  <2>1. \A j \in 1..8 : j \in 1..(n + 10) /\ j # i
    BY <1>3, <1>4
  <2>2. \A j \in 1..8 : b[j] = s[j]
    BY <1>5, <2>1
  <2> QED
    BY <1>3, <2>2
<1>8. payload \in Seq(Byte) /\ Len(payload) = n /\ \A j \in 1..n : payload[j] = b[8 + j]
  <2>1. \A j \in 9..(8 + n) : b[j] \in Byte
    BY <1>3, <1>6
  <2> QED
    BY <1>3, <2>1, SubSeqProperties
<1> HIDE DEF payload
<1>9. /\ s[8 + n + 1] + 256 * s[8 + n + 2] = sum
      /\ WordAt(b, 8 + n) = b[8 + n + 1] + 256 * b[8 + n + 2]
  <2>1. s[8 + n + 1] = WordBytes(sum)[1] /\ s[8 + n + 2] = WordBytes(sum)[2]
    BY <1>3
  <2>2. WordAt(WordBytes(sum), 0) = sum
    BY <1>3, WordRead
  <2>3. WordBytes(sum)[1] + 256 * WordBytes(sum)[2] = sum
    BY <2>2 DEF WordAt
  <2> QED
    BY <2>1, <2>3 DEF WordAt
<1>10. Checksum(payload) # WordAt(b, 8 + n)
  <2>1. CASE i <= 8 + n
    <3> DEFINE k == i - 8
    <3>1. k \in 1..n /\ 8 + k = i
      BY <1>3, <1>4, <2>1
    <3> HIDE DEF k
    <3>2. payload[k] # p.payload[k]
      BY <1>3, <1>6, <1>8, <3>1
    <3>3. ASSUME NEW j \in 1..n, j # k PROVE payload[j] = p.payload[j]
      <4>1. 8 + j \in 1..(n + 10) /\ 8 + j # i
        BY <1>3, <3>1, <3>3
      <4>2. payload[j] = b[8 + j]
        BY <1>8
      <4>3. b[8 + j] = s[8 + j]
        BY <1>5, <4>1
      <4>4. s[8 + j] = p.payload[j]
        BY <1>3
      <4> QED
        BY <4>2, <4>3, <4>4
    <3>4. sum # Checksum(payload)
      BY <1>3, <1>8, <3>1, <3>2, <3>3, ChecksumNotices DEF sum, n
    <3>5. 8 + n + 1 \in 1..(n + 10) /\ 8 + n + 1 # i /\ 8 + n + 2 \in 1..(n + 10) /\ 8 + n + 2 # i
      BY <1>3, <2>1, <1>4
    <3>6. WordAt(b, 8 + n) = sum
      BY <1>5, <1>9, <3>5
    <3> QED
      BY <3>4, <3>6
  <2>2. CASE ~(i <= 8 + n)
    <3>1. ASSUME NEW j \in 1..n PROVE payload[j] = p.payload[j]
      <4>1. n \in Nat /\ i \in 9..(n + 10)
        BY <1>3, <1>4
      <4>2. 8 + j \in 1..(n + 10) /\ 8 + j # i
        BY <2>2, <4>1
      <4>3. payload[j] = b[8 + j]
        BY <1>8
      <4>4. b[8 + j] = s[8 + j]
        BY <1>5, <4>2
      <4>5. s[8 + j] = p.payload[j]
        BY <1>3
      <4> QED
        BY <4>3, <4>4, <4>5
    <3>2. \A j \in 1..n : payload[j] = p.payload[j]
      BY <3>1
    <3>3. payload = p.payload
      BY <1>3, <1>8, <3>2, SeqEqual DEF n
    <3>4. i = 8 + n + 1 \/ i = 8 + n + 2
      BY <1>3, <1>4, <2>2
    <3>5. /\ b[8 + n + 1] \in Byte /\ b[8 + n + 2] \in Byte
          /\ s[8 + n + 1] \in Byte /\ s[8 + n + 2] \in Byte
      <4>1. 8 + n + 1 \in 1..(n + 10) /\ 8 + n + 2 \in 1..(n + 10)
        BY <1>3
      <4> QED
        BY <1>6, <4>1
    <3>6. WordAt(b, 8 + n) # sum
      BY <1>6, <1>9, <3>4, <3>5, WordNotices
    <3> QED
      BY <3>3, <3>6 DEF sum
  <2> QED
    BY <2>1, <2>2
<1> QED
  BY <1>3, <1>5, <1>7, <1>8, <1>10 DEF payload

\* Such a packet is waited for as if it were sound, and then dropped.
LEMMA ParseSpoilt ==
    ASSUME NEW b \in Spoilt, NEW c \in Seq(Byte),
           \A i \in 1..Len(c) : i <= Len(b) => c[i] = b[i]
    PROVE  TryParse(c) = IF Len(c) < Len(b) THEN Parsed(c, NoPacket)
                         ELSE Parsed(Behind(c, Len(b)), NoPacket)
<1>1. PICK n \in Nat :
        /\ b \in Seq(Byte) /\ Len(b) = n + 10 /\ n + 4 \in DWord
        /\ b[1] = HeadBytes[1] /\ b[2] = HeadBytes[2]
        /\ \A j \in 1..4 : b[2 + j] = DWordBytes(n + 4)[j]
        /\ SubSeq(b, 9, 8 + n) \in Seq(Byte)
        /\ Len(SubSeq(b, 9, 8 + n)) = n
        /\ \A j \in 1..n : SubSeq(b, 9, 8 + n)[j] = b[8 + j]
        /\ Checksum(SubSeq(b, 9, 8 + n)) # WordAt(b, 8 + n)
  BY SpoiltLayout
<1>2. Len(c) \in Nat /\ \A j \in 1..Len(c) : c[j] \in Byte
  BY BytesOf
<1>3. FromHead(c) = c
  <2>1. 1 < Len(c) => c[1] = HeadBytes[1] /\ c[2] = HeadBytes[2]
    BY <1>1, <1>2
  <2> QED
    BY <2>1, HeadAtFront
<1>4. CASE Len(c) < 10
  BY <1>1, <1>3, <1>4 DEF TryParse, ParseAtHead
<1>5. CASE ~(Len(c) < 10)
  <2>1. DWordAt(c, 2) = n + 4
    <3>1. \A j \in 1..4 : 2 + j \in 1..Len(c) /\ 2 + j <= Len(b)
      BY <1>1, <1>2, <1>5
    <3>2. \A j \in 1..4 : c[2 + j] = DWordBytes(n + 4)[j]
      BY <1>1, <3>1
    <3>3. n + 4 \in DWord
      BY <1>1
    <3> QED
      BY <3>2, <3>3, DWordRead
  <2>2. ~(DWordAt(c, 2) < 4) /\ Needs(c) = n + 10
    BY <2>1 DEF Needs
  <2>3. CASE Len(c) < Len(b)
    BY <1>1, <1>3, <1>5, <2>2, <2>3 DEF TryParse, ParseAtHead
  <2>4. CASE ~(Len(c) < Len(b))
    <3>1. n + 10 <= Len(c) /\ Len(b) = n + 10
      <4>1. Len(b) = n + 10 /\ n + 10 \in Nat /\ Len(c) \in Nat
        BY <1>1, <1>2
      <4>2. ~(Len(c) < n + 10)
        BY <2>4, <4>1
      <4> QED
        BY <4>1, <4>2
    <3>2. \A j \in 1..(n + 10) : c[j] = b[j] /\ c[j] \in Byte
      <4>1. \A j \in 1..(n + 10) : j \in 1..Len(c) /\ j <= Len(b)
        BY <1>2, <3>1
      <4> QED
        BY <1>2, <4>1
    <3>3. SubSeq(c, 9, 8 + n) = SubSeq(b, 9, 8 + n)
      <4>1. \A j \in 9..(8 + n) : c[j] \in Byte
        BY <3>2
      <4>2. /\ SubSeq(c, 9, 8 + n) \in Seq(Byte)
            /\ Len(SubSeq(c, 9, 8 + n)) = n
            /\ \A j \in 1..n : SubSeq(c, 9, 8 + n)[j] = c[8 + j]
        BY <4>1, SubSeqProperties
      <4>3. ASSUME NEW j \in 1..n
            PROVE  SubSeq(c, 9, 8 + n)[j] = SubSeq(b, 9, 8 + n)[j]
        <5>1. 8 + j \in 1..(n + 10)
          OBVIOUS
        <5>2. c[8 + j] = b[8 + j]
          BY <3>2, <5>1
        <5>3. SubSeq(c, 9, 8 + n)[j] = c[8 + j]
          BY <4>2
        <5>4. SubSeq(b, 9, 8 + n)[j] = b[8 + j]
          BY <1>1
        <5> QED
          BY <5>2, <5>3, <5>4
      <4> QED
        BY <1>1, <4>2, <4>3, SeqEqual
    <3>4. WordAt(c, 8 + n) = WordAt(b, 8 + n)
      <4>1. (8 + n) + 1 \in 1..(n + 10) /\ (8 + n) + 2 \in 1..(n + 10)
        BY <1>1
      <4>2. c[(8 + n) + 1] = b[(8 + n) + 1] /\ c[(8 + n) + 2] = b[(8 + n) + 2]
        BY <3>2, <4>1
      <4> QED
        BY <4>2 DEF WordAt
    <3>5. Needs(c) - 2 = 8 + n
      BY <2>2
    <3>6. ~(Len(c) < Needs(c))
      BY <1>1, <1>2, <2>2, <2>4
    <3>7. Checksum(SubSeq(c, 9, Needs(c) - 2)) # WordAt(c, Needs(c) - 2)
      BY <1>1, <3>3, <3>4, <3>5
    <3>8. ParseAtHead(c) = Parsed(SubSeq(c, Needs(c) + 1, Len(c)), NoPacket)
      BY <1>5, <2>2, <3>6, <3>7 DEF ParseAtHead
    <3> QED
      BY <1>1, <1>3, <2>2, <2>4, <3>8 DEF TryParse, Behind
  <2> QED
    BY <2>3, <2>4
<1> QED
  BY <1>4, <1>5

-----------------------------------------------------------------------------
(* With damage: the search for a head, and what tryParse takes.             *)

\* The bytes are those of what is on the way, with bytes in front among which
\* there is no head, and the packets are those that will be handled of it.
Unhandled(bytes, packets) ==
    \E b \in Headless, x \in OnTheWay : bytes = b \o x[1] /\ packets = x[2]

\* A packet head is in front.
AtHead(b) == b[1] = HeadBytes[1] /\ b[2] = HeadBytes[2]

\* What is behind a part of what is behind.
LEMMA BehindBehind ==
    ASSUME NEW b \in Seq(Byte), NEW m \in Nat, NEW n \in Nat, m + n <= Len(b)
    PROVE  Behind(Behind(b, m), n) = Behind(b, m + n)
<1>1. Len(b) \in Nat /\ m <= Len(b) /\ m + n \in Nat
  BY BytesOf
<1> DEFINE c == Behind(b, m)
<1>2. c \in Seq(Byte) /\ Len(c) = Len(b) - m /\ \A i \in 1..(Len(b) - m) : c[i] = b[m + i]
  BY <1>1, BehindParts
<1> HIDE DEF c
<1>3. n <= Len(c)
  BY <1>1, <1>2
<1>4. /\ Behind(c, n) \in Seq(Byte) /\ Len(Behind(c, n)) = Len(c) - n
      /\ \A i \in 1..(Len(c) - n) : Behind(c, n)[i] = c[n + i]
  BY <1>2, <1>3, BehindParts
<1>5. /\ Behind(b, m + n) \in Seq(Byte) /\ Len(Behind(b, m + n)) = Len(b) - (m + n)
      /\ \A i \in 1..(Len(b) - (m + n)) : Behind(b, m + n)[i] = b[(m + n) + i]
  BY <1>1, BehindParts
<1>6. Len(c) - n = Len(b) - (m + n)
  BY <1>1, <1>2
<1>7. ASSUME NEW i \in 1..(Len(b) - (m + n)) PROVE Behind(c, n)[i] = Behind(b, m + n)[i]
  <2>1. n + i \in 1..(Len(b) - m) /\ m + (n + i) = (m + n) + i
    BY <1>1
  <2> QED
    BY <1>2, <1>4, <1>5, <1>6, <2>1
<1>8. Behind(c, n) = Behind(b, m + n)
  BY <1>4, <1>5, <1>6, <1>7, SeqEqual
<1> QED
  BY <1>8 DEF c

\* Bytes without a head in front: none is found there, nor if one is dropped.
LEMMA HeadlessFront ==
    ASSUME NEW b \in Headless, b # <<>>, NEW y \in OnTheWay, 1 < Len(b \o y[1])
    PROVE  ~AtHead(b \o y[1]) /\ Unhandled(Behind(b \o y[1], 1), y[2])
<1> DEFINE c == b \o y[1]
           m == Len(b)
           n == Len(y[1])
<1>1. b \in Seq(Byte) /\ y[1] \in Seq(Byte) /\ m \in Nat /\ n \in Nat /\ m > 0
  <2>1. b \in Seq(Byte) /\ y[1] \in Seq(Byte)
    BY OnTheWayGrows DEF Headless, Streams
  <2> QED
    BY <2>1, BytesOf, EmptySeq
<1>2. Joins(c, b, m, y[1], n)
  BY <1>1, Joined
<1> HIDE DEF c, m, n
<1>3. ~AtHead(c)
  <2> SUFFICES ASSUME c[1] = 255, c[2] = 254 PROVE FALSE
      BY HeadBytesAre DEF AtHead
  <2>1. CASE m = 1
    <3>1. 1 < m + n
      BY <1>2 DEF Joins, c
    <3>2. 1 \in 1..n /\ n > 0
      BY <1>1, <2>1, <3>1
    <3>3. c[m + 1] = y[1][1]
      BY <1>2, <3>2 DEF Joins
    <3>4. c[2] = y[1][1]
      BY <2>1, <3>3
    <3>5. y[1] # <<>>
      BY <3>2, EmptySeq DEF n
    <3>6. y[1][1] \in {0, 255}
      BY <3>5, FrontBegins, HeadBytesAre DEF Begins
    <3> QED
      BY <3>4, <3>6
  <2>2. CASE m # 1
    <3>1. 1 \in 1..m /\ 2 \in 1..m /\ 1 < m
      BY <1>1, <2>2
    <3>2. b[1] = 255 /\ b[2] = 254
      BY <1>2, <3>1 DEF Joins
    <3>3. 1 < m => ~(b[1] = HeadBytes[1] /\ b[1 + 1] = HeadBytes[2])
      BY <3>1 DEF Headless, m
    <3> QED
      BY <3>1, <3>2, <3>3, HeadBytesAre
  <2> QED
    BY <2>1, <2>2
<1>4. Unhandled(Behind(c, 1), y[2])
  <2> DEFINE t == Behind(b, 1)
  <2>1. 1 <= m /\ 1 \in Nat
    BY <1>1
  <2>2. /\ t \in Seq(Byte) /\ Len(t) = m - 1
        /\ \A i \in 1..(m - 1) : t[i] = b[1 + i]
    BY <1>1, <2>1, BehindParts DEF m
  <2>3. t \o y[1] = Behind(c, 1)
    BY <1>1, <2>1, BehindJoined DEF c, m
  <2> HIDE DEF t
  <2>4. ASSUME NEW i \in 1..Len(t), i < Len(t)
        PROVE  ~(t[i] = HeadBytes[1] /\ t[i + 1] = HeadBytes[2])
    <3>1. /\ i \in 1..(m - 1) /\ i + 1 \in 1..(m - 1)
          /\ i + 1 \in 1..m /\ i + 1 < m /\ 1 + i = i + 1 /\ 1 + (i + 1) = (i + 1) + 1
      BY <1>1, <2>2, <2>4
    <3>2. t[i] = b[i + 1] /\ t[i + 1] = b[(i + 1) + 1]
      BY <2>2, <3>1
    <3>3. ~(b[i + 1] = HeadBytes[1] /\ b[(i + 1) + 1] = HeadBytes[2])
      BY <3>1 DEF Headless, m
    <3> QED
      BY <3>2, <3>3
  <2>5. t \in Headless
    BY <2>2, <2>4 DEF Headless
  <2> QED
    BY <2>3, <2>5 DEF Unhandled
<1> QED
  BY <1>3, <1>4 DEF c

\* With a head in front there is a packet with a sound head; without, the first
\* byte may be dropped.
LEMMA FrontOf ==
    ASSUME NEW c \in Seq(Byte), NEW r, Unhandled(c, r), 1 < Len(c)
    PROVE  IF AtHead(c)
           THEN \E y \in OnTheWay :
                  \/ \E p \in Packets : c = Serialize(p) \o y[1] /\ r = <<p>> \o y[2]
                  \/ \E b \in Spoilt : c = b \o y[1] /\ r = y[2]
           ELSE Unhandled(Behind(c, 1), r)
<1>1. PICK b \in Headless, x \in OnTheWay : c = b \o x[1] /\ r = x[2]
  BY DEF Unhandled
<1>2. CASE b # <<>>
  BY <1>1, <1>2, HeadlessFront
<1>3. CASE b = <<>>
  <2>1. c = x[1]
    <3>1. x[1] \in Seq(Byte)
      BY OnTheWayGrows DEF Streams
    <3> QED
      BY <1>1, <1>3, <3>1, ConcatEmptySeq
  <2>2. x # Nil
    BY <2>1, EmptySeq DEF Nil
  <2>3. PICK y \in OnTheWay : \/ \E p \in Packets : x = WithSound(p, y)
                              \/ \E d \in Spoilt \cup Beheaded : x = WithLost(d, y)
    BY <2>2, WhatIsInFront
  <2>4. y[1] \in Seq(Byte) /\ Len(y[1]) \in Nat
    BY OnTheWayGrows, BytesOf DEF Streams
  <2>5. ASSUME NEW d \in Seq(Byte), Len(d) >= 2, AtHead(d), c = d \o y[1] PROVE AtHead(c)
    <3>1. Len(d) \in Nat
      BY BytesOf
    <3>2. Joins(c, d, Len(d), y[1], Len(y[1]))
      BY <2>4, <2>5, <3>1, Joined
    <3>3. 1 \in 1..Len(d) /\ 2 \in 1..Len(d)
      BY <2>5, <3>1
    <3> QED
      BY <2>5, <3>2, <3>3 DEF Joins, AtHead
  <2>6. ASSUME NEW p \in Packets, x = WithSound(p, y)
        PROVE  AtHead(c) /\ c = Serialize(p) \o y[1] /\ r = <<p>> \o y[2]
    <3>1. c = Serialize(p) \o y[1] /\ r = <<p>> \o y[2]
      BY <1>1, <2>1, <2>6 DEF WithSound
    <3>2. Serialize(p) \in Seq(Byte) /\ Len(Serialize(p)) >= 2 /\ AtHead(Serialize(p))
      BY PacketFront DEF AtHead
    <3> QED
      BY <2>5, <3>1, <3>2
  <2>7. ASSUME NEW d \in Spoilt, x = WithLost(d, y)
        PROVE  AtHead(c) /\ c = d \o y[1] /\ r = y[2]
    <3>1. c = d \o y[1] /\ r = y[2]
      BY <1>1, <2>1, <2>7 DEF WithLost
    <3>2. d \in Seq(Byte) /\ Len(d) >= 2 /\ AtHead(d)
      <4>1. PICK n \in Nat : /\ d \in Seq(Byte) /\ Len(d) = n + 10
                            /\ d[1] = HeadBytes[1] /\ d[2] = HeadBytes[2]
        BY SpoiltLayout
      <4> QED
        BY <4>1 DEF AtHead
    <3> QED
      BY <2>5, <3>1, <3>2
  <2>8. ASSUME NEW d \in Beheaded, x = WithLost(d, y)
        PROVE  ~AtHead(c) /\ Unhandled(Behind(c, 1), r)
    <3>1. c = d \o y[1] /\ r = y[2]
      BY <1>1, <2>1, <2>8 DEF WithLost
    <3>2. d \in Headless /\ d # <<>>
      BY DEF Beheaded
    <3> QED
      BY <3>1, <3>2, HeadlessFront
  <2> QED
    BY <2>3, <2>6, <2>7, <2>8
<1> QED
  BY <1>2, <1>3

\* The two bytes of a head are one, and nothing else is.
LEMMA HeadIsWord ==
    ASSUME NEW b, NEW at \in Nat, b[at + 1] \in Byte, b[at + 2] \in Byte
    PROVE  WordAt(b, at) = kPacketHead
             <=> b[at + 1] = HeadBytes[1] /\ b[at + 2] = HeadBytes[2]
<1>1. kPacketHead = 255 + 256 * 254 /\ 255 \in Byte /\ 254 \in Byte
  BY Bytes DEF kPacketHead
<1>2. WordAt(b, at) = b[at + 1] + 256 * b[at + 2]
  BY DEF WordAt
<1>3. WordAt(b, at) = kPacketHead => b[at + 1] = 255 /\ b[at + 2] = 254
  BY <1>1, <1>2, WordNotices
<1> QED
  BY <1>1, <1>2, <1>3, HeadBytesAre

\* The search drops nothing that will be handled, and stops at a head.
LEMMA SearchKeeps ==
    ASSUME NEW b \in Seq(Byte), NEW w \in Seq(Byte), NEW r, Unhandled(b \o w, r)
    PROVE  /\ Unhandled(FromHead(b) \o w, r)
           /\ 1 < Len(FromHead(b)) => AtHead(FromHead(b))
<1> DEFINE m == Min(Stops(b))
           n == Len(b)
           T == {k \in Nat : k <= m => Unhandled(Behind(b, k) \o w, r)}
<1>1. n \in Nat /\ Len(w) \in Nat /\ \A i \in 1..n : b[i] \in Byte
  BY BytesOf
<1>2. /\ m \in 0..n /\ (m + 1 < n => WordAt(b, m) = kPacketHead)
      /\ \A k \in 0..n : k < m => k + 1 < n /\ WordAt(b, k) # kPacketHead
  <2>1. m \in Stops(b) /\ (\A k \in Stops(b) : m <= k)
    BY SearchStops
  <2>2. m \in 0..n /\ (m + 1 < n => WordAt(b, m) = kPacketHead)
    BY <2>1 DEF Stops
  <2>3. ASSUME NEW k \in 0..n, k < m PROVE k + 1 < n /\ WordAt(b, k) # kPacketHead
    <3>1. k \notin Stops(b)
      <4>1. ~(m <= k)
        BY <1>1, <2>2, <2>3
      <4> QED
        BY <2>1, <4>1
    <3> QED
      BY <3>1 DEF Stops
  <2> QED
    BY <2>2, <2>3
<1>3. FromHead(b) = Behind(b, m)
  BY DEF FromHead, Behind
<1> HIDE DEF m, n
<1>4. ASSUME NEW k \in 0..n, k + 1 < n
      PROVE  /\ Behind(b, k) \in Seq(Byte) /\ Len(Behind(b, k)) = n - k
             /\ \A i \in 1..(n - k) : Behind(b, k)[i] = b[k + i]
             /\ WordAt(b, k) = kPacketHead <=> AtHead(Behind(b, k))
  <2>1. /\ Behind(b, k) \in Seq(Byte) /\ Len(Behind(b, k)) = n - k
        /\ \A i \in 1..(n - k) : Behind(b, k)[i] = b[k + i]
    <3>1. k \in Nat /\ k <= Len(b)
      BY <1>1 DEF n
    <3> QED
      BY <3>1, BehindParts DEF n
  <2>2. 1 \in 1..(n - k) /\ 2 \in 1..(n - k) /\ k + 1 \in 1..n /\ k + 2 \in 1..n /\ k \in Nat
    BY <1>1, <1>4
  <2>3. Behind(b, k)[1] = b[k + 1] /\ Behind(b, k)[2] = b[k + 2]
    BY <2>1, <2>2
  <2>4. WordAt(b, k) = kPacketHead
          <=> b[k + 1] = HeadBytes[1] /\ b[k + 2] = HeadBytes[2]
    BY <1>1, <2>2, HeadIsWord
  <2> QED
    BY <2>1, <2>3, <2>4 DEF AtHead
<1>5. 0 \in T
  <2>1. Behind(b, 0) = b
    BY SubSeqFull DEF Behind
  <2> QED
    BY <2>1
<1>6. ASSUME NEW k \in Nat, k \in T PROVE k + 1 \in T
  <2> SUFFICES ASSUME k + 1 <= m PROVE Unhandled(Behind(b, k + 1) \o w, r)
      OBVIOUS
  <2> DEFINE h == Behind(b, k)
             c == h \o w
  <2>1. k \in 0..n /\ k < m /\ k <= m
    BY <1>1, <1>2
  <2>2. k + 1 < n /\ WordAt(b, k) # kPacketHead
    BY <1>2, <2>1
  <2>3. h \in Seq(Byte) /\ Len(h) = n - k /\ ~AtHead(h)
    BY <1>4, <2>1, <2>2
  <2>4. Unhandled(c, r)
    BY <1>6, <2>1
  <2>9. Behind(h, 1) = Behind(b, k + 1)
    <3>1. k + 1 <= Len(b) /\ 1 \in Nat
      BY <1>1, <2>2 DEF n
    <3> QED
      BY <3>1, BehindBehind
  <2> HIDE DEF h
  <2>5. Joins(c, h, n - k, w, Len(w))
    <3>1. n - k \in Nat
      BY <1>1, <2>1
    <3> QED
      BY <1>1, <2>3, <3>1, Joined
  <2>6. 1 < Len(c) /\ c \in Seq(Byte) /\ c[1] = h[1] /\ c[2] = h[2]
    <3>1. 1 \in 1..(n - k) /\ 2 \in 1..(n - k)
      BY <1>1, <2>1, <2>2
    <3> QED
      BY <1>1, <2>1, <2>2, <2>5, <3>1 DEF Joins
  <2>8. Behind(h, 1) \o w = Behind(c, 1)
    <3>1. 1 <= Len(h) /\ 1 \in Nat
      BY <1>1, <2>1, <2>2, <2>3
    <3> QED
      BY <2>3, <3>1, BehindJoined
  <2> HIDE DEF c
  <2>7. Unhandled(Behind(c, 1), r)
    <3>1. ~AtHead(c)
      BY <2>3, <2>6 DEF AtHead
    <3> QED
      BY <2>4, <2>6, <3>1, FrontOf
  <2> QED
    BY <2>7, <2>8, <2>9
<1> HIDE DEF T
<1>7. m \in T
  BY <1>2, <1>5, <1>6, Induction
<1>8. Unhandled(FromHead(b) \o w, r)
  BY <1>2, <1>3, <1>7 DEF T
<1>9. ASSUME 1 < Len(FromHead(b)) PROVE AtHead(FromHead(b))
  <2>1. Len(Behind(b, m)) = n - m
    <3>1. m \in Nat /\ m <= Len(b)
      BY <1>1, <1>2 DEF n
    <3> QED
      BY <3>1, BehindParts DEF n
  <2>2. m + 1 < n
    BY <1>1, <1>2, <1>3, <1>9, <2>1
  <2> QED
    BY <1>2, <1>3, <1>4, <2>2
<1> QED
  BY <1>8, <1>9

\* The bytes h begin as s does, and what is behind s in them, with w behind it,
\* is t.
SplitAt(h, w, s, t) ==
    /\ \A i \in 1..Len(h) : i <= Len(s) => h[i] = s[i]
    /\ Len(s) <= Len(h) => Behind(h, Len(s)) \o w = t

\* So it is if h with w behind it is s with t behind it.
LEMMA InFront ==
    ASSUME NEW h \in Seq(Byte), NEW w \in Seq(Byte), NEW s \in Seq(Byte), NEW t \in Seq(Byte),
           h \o w = s \o t
    PROVE  SplitAt(h, w, s, t)
<1> DEFINE m == Len(h)
           n == Len(s)
           k == Len(t)
           c == h \o w
<1>1. m \in Nat /\ n \in Nat /\ k \in Nat /\ Len(w) \in Nat
  BY BytesOf
<1>2. Joins(c, h, m, w, Len(w)) /\ Joins(c, s, n, t, k)
  <2>1. Joins(h \o w, h, m, w, Len(w)) /\ Joins(s \o t, s, n, t, k)
    BY <1>1, Joined
  <2> QED
    BY <2>1
<1>3. n <= m => Behind(h, n) \o w = Behind(c, n)
  BY <1>1, BehindJoined
<1> HIDE DEF m, n, k, c
<1>4. ASSUME NEW i \in 1..m, i <= n PROVE h[i] = s[i]
  <2>1. i \in 1..n
    BY <1>1, <1>4
  <2> QED
    BY <1>2, <2>1 DEF Joins
<1>5. ASSUME n <= m PROVE Behind(c, n) = t
  <2>1. c \in Seq(Byte) /\ Len(c) = n + k /\ \A i \in 1..k : c[n + i] = t[i]
    BY <1>2 DEF Joins
  <2>2. n <= Len(c) /\ Len(c) - n = k
    BY <1>1, <2>1
  <2>3. /\ Behind(c, n) \in Seq(Byte) /\ Len(Behind(c, n)) = k
        /\ \A i \in 1..k : Behind(c, n)[i] = c[n + i]
    BY <1>1, <2>1, <2>2, BehindParts
  <2>4. \A i \in 1..k : Behind(c, n)[i] = t[i]
    BY <2>1, <2>3
  <2> QED
    BY <2>3, <2>4, SeqEqual DEF k
<1> QED
  BY <1>3, <1>4, <1>5 DEF SplitAt, m, n

\* What is on the way may be unhandled.
LEMMA OnTheWayUnhandled ==
    ASSUME NEW x \in OnTheWay
    PROVE  Unhandled(x[1], x[2])
<1>1. <<>> \in Headless
  BY EmptySeq DEF Headless
<1>2. <<>> \o x[1] = x[1]
  BY OnTheWayGrows, ConcatEmptySeq DEF Streams
<1> QED
  BY <1>1, <1>2 DEF Unhandled

\* tryParse takes from b nothing of the packets r that will be handled of it and
\* of w behind it, or the next one of them.
TakesNext(b, w, r) ==
    \/ /\ TryParse(b).packet = NoPacket
       /\ Unhandled(TryParse(b).rest \o w, r)
    \/ \E p \in Packets, y \in OnTheWay :
         /\ TryParse(b).packet = p /\ p # NoPacket
         /\ r = <<p>> \o y[2]
         /\ Unhandled(TryParse(b).rest \o w, y[2])

LEMMA ParseKeeps ==
    ASSUME NEW b \in Seq(Byte), NEW w \in Seq(Byte), NEW r, Unhandled(b \o w, r)
    PROVE  TakesNext(b, w, r)
<1> DEFINE h == FromHead(b)
           c == h \o w
<1>1. h \in Seq(Byte) /\ Len(h) \in Nat /\ Len(w) \in Nat
  BY SearchEnds, BytesOf
<1>2. Unhandled(c, r) /\ (1 < Len(h) => AtHead(h))
  BY SearchKeeps
<1>3. TryParse(b) = ParseAtHead(h)
  BY DEF TryParse
<1> HIDE DEF h
<1>4. TryParse(b) = TryParse(h)
  <2>1. FromHead(h) = h
    BY <1>1, <1>2, HeadAtFront DEF AtHead
  <2> QED
    BY <1>3, <2>1 DEF TryParse
<1>5. \A rest, p : Parsed(rest, p).rest = rest /\ Parsed(rest, p).packet = p
  BY DEF Parsed
<1>6. CASE TryParse(b) = Parsed(h, NoPacket)
  BY <1>2, <1>5, <1>6 DEF TakesNext
<1>7. CASE Len(h) < 10
  BY <1>3, <1>6, <1>7 DEF ParseAtHead
<1>8. CASE ~(Len(h) < 10)
  <2>1. c \in Seq(Byte) /\ 1 < Len(c) /\ AtHead(c)
    <3>1. Joins(c, h, Len(h), w, Len(w))
      BY <1>1, Joined
    <3>2. 1 \in 1..Len(h) /\ 2 \in 1..Len(h) /\ 1 < Len(h)
      BY <1>1, <1>8
    <3> QED
      BY <1>1, <1>2, <3>1, <3>2 DEF Joins, AtHead
  <2>2. PICK y \in OnTheWay :
          \/ \E p \in Packets : c = Serialize(p) \o y[1] /\ r = <<p>> \o y[2]
          \/ \E d \in Spoilt : c = d \o y[1] /\ r = y[2]
    BY <1>2, <2>1, FrontOf
  <2>3. y[1] \in Seq(Byte) /\ Unhandled(y[1], y[2])
    BY OnTheWayGrows, OnTheWayUnhandled DEF Streams
  <2>4. ASSUME NEW p \in Packets, c = Serialize(p) \o y[1], r = <<p>> \o y[2]
        PROVE  \/ TryParse(b) = Parsed(h, NoPacket)
               \/ /\ TryParse(b) = Parsed(Behind(h, Len(Serialize(p))), p)
                  /\ Behind(h, Len(Serialize(p))) \o w = y[1]
                  /\ p # NoPacket
    <3> DEFINE s == Serialize(p)
    <3>1. s \in Seq(Byte) /\ Len(s) \in Nat
      BY Layout, BytesOf
    <3>2. /\ \A i \in 1..Len(h) : i <= Len(s) => h[i] = s[i]
          /\ Len(s) <= Len(h) => Behind(h, Len(s)) \o w = y[1]
      <4>1. /\ h \in Seq(Byte) /\ s \in Seq(Byte) /\ y[1] \in Seq(Byte)
            /\ h \o w = s \o y[1]
        BY <1>1, <2>3, <2>4, <3>1
      <4>2. SplitAt(h, w, s, y[1])
        BY <4>1, InFront
      <4> QED
        BY <4>2 DEF SplitAt
    <3> HIDE DEF s
    <3>3. CASE Len(h) < Len(s)
      <4>1. \A i \in 1..Len(h) : h[i] = s[i]
        BY <1>1, <3>1, <3>2, <3>3
      <4> QED
        BY <1>1, <1>4, <3>3, <4>1, ParseIncomplete DEF s
    <3>4. CASE ~(Len(h) < Len(s))
      <4>1. Len(s) <= Len(h) /\ \A i \in 1..Len(s) : h[i] = s[i]
        BY <1>1, <3>1, <3>2, <3>4
      <4>2. TryParse(h) = Parsed(Behind(h, Len(s)), p)
        BY <1>1, <4>1, ParseComplete DEF s, Behind
      <4>3. p # NoPacket
        BY PacketParts DEF NoPacket, Word
      <4> QED
        BY <1>4, <3>2, <4>1, <4>2, <4>3 DEF s
    <3> QED
      BY <3>3, <3>4
  <2>5. ASSUME NEW d \in Spoilt, c = d \o y[1], r = y[2]
        PROVE  \/ TryParse(b) = Parsed(h, NoPacket)
               \/ /\ TryParse(b) = Parsed(Behind(h, Len(d)), NoPacket)
                  /\ Behind(h, Len(d)) \o w = y[1]
    <3>1. d \in Seq(Byte) /\ Len(d) \in Nat
      BY LostBytes, BytesOf
    <3>2. /\ \A i \in 1..Len(h) : i <= Len(d) => h[i] = d[i]
          /\ Len(d) <= Len(h) => Behind(h, Len(d)) \o w = y[1]
      <4>1. /\ h \in Seq(Byte) /\ d \in Seq(Byte) /\ y[1] \in Seq(Byte)
            /\ h \o w = d \o y[1]
        BY <1>1, <2>3, <2>5, <3>1
      <4>2. SplitAt(h, w, d, y[1])
        BY <4>1, InFront
      <4> QED
        BY <4>2 DEF SplitAt
    <3>3. TryParse(h) = IF Len(h) < Len(d) THEN Parsed(h, NoPacket)
                        ELSE Parsed(Behind(h, Len(d)), NoPacket)
      BY <1>1, <3>2, ParseSpoilt
    <3>4. ~(Len(h) < Len(d)) => Len(d) <= Len(h)
      BY <1>1, <3>1
    <3> QED
      BY <1>4, <3>2, <3>3, <3>4
  <2> HIDE DEF c
  <2>6. ASSUME NEW p \in Packets, NEW n, p # NoPacket, r = <<p>> \o y[2],
               TryParse(b) = Parsed(Behind(h, n), p), Behind(h, n) \o w = y[1]
        PROVE  TakesNext(b, w, r)
    <3>1. TryParse(b).packet = p /\ TryParse(b).rest = Behind(h, n)
      BY <1>5, <2>6
    <3> QED
      BY <2>3, <2>6, <3>1 DEF TakesNext
  <2>7. ASSUME NEW n, r = y[2],
               TryParse(b) = Parsed(Behind(h, n), NoPacket), Behind(h, n) \o w = y[1]
        PROVE  TakesNext(b, w, r)
    <3>1. TryParse(b).packet = NoPacket /\ TryParse(b).rest = Behind(h, n)
      BY <1>5, <2>7
    <3> QED
      BY <2>3, <2>7, <3>1 DEF TakesNext
  <2>8. CASE \E p \in Packets : c = Serialize(p) \o y[1] /\ r = <<p>> \o y[2]
    <3>1. PICK p \in Packets : c = Serialize(p) \o y[1] /\ r = <<p>> \o y[2]
      BY <2>8
    <3>2. CASE /\ TryParse(b) = Parsed(Behind(h, Len(Serialize(p))), p)
               /\ Behind(h, Len(Serialize(p))) \o w = y[1]
               /\ p # NoPacket
      BY <2>6, <3>1, <3>2
    <3> QED
      BY <1>6, <2>4, <3>1, <3>2
  <2>9. CASE \E d \in Spoilt : c = d \o y[1] /\ r = y[2]
    <3>1. PICK d \in Spoilt : c = d \o y[1] /\ r = y[2]
      BY <2>9
    <3>2. CASE /\ TryParse(b) = Parsed(Behind(h, Len(d)), NoPacket)
               /\ Behind(h, Len(d)) \o w = y[1]
      BY <2>7, <3>1, <3>2
    <3> QED
      BY <1>6, <2>5, <3>1, <3>2
  <2> QED
    BY <2>2, <2>8, <2>9
<1> QED
  BY <1>7, <1>8

-----------------------------------------------------------------------------
(* With damage: only what is intact is handled.                             *)

\* Of what is on the way and in the buffer there will be handled what is intact
\* and not handled yet.
HarmInv ==
    /\ TypeOK
    /\ \E r \in Seq(Packets) : intact = delivered \o r /\ Unhandled(buffer \o wire, r)

\* A packet is put behind a sequence, or taken from the front of one.
LEMMA Requeued ==
    ASSUME NEW s \in Seq(AnyPacket), NEW t \in Seq(AnyPacket), NEW p \in AnyPacket
    PROVE  /\ s \o Append(t, p) = Append(s \o t, p)
           /\ Append(s, p) \o t = s \o (<<p>> \o t)
<1>1. ASSUME NEW u \in Seq(AnyPacket), NEW v \in Seq(AnyPacket)
      PROVE  (s \o u) \o v = s \o (u \o v)
  BY ConcatAssociative
<1>2. \A u \in Seq(AnyPacket) : Append(u, p) = u \o <<p>>
  BY AppendIsConcat
<1>3. <<p>> \in Seq(AnyPacket) /\ s \o t \in Seq(AnyPacket)
  OBVIOUS
<1>4. (s \o t) \o <<p>> = s \o (t \o <<p>>) /\ (s \o <<p>>) \o t = s \o (<<p>> \o t)
  BY <1>1, <1>3
<1> QED
  BY <1>2, <1>3, <1>4

\* Bytes are put behind those that are unhandled.
LEMMA PutBehind ==
    ASSUME NEW b \in Seq(Byte), NEW w \in Seq(Byte), NEW r, Unhandled(b \o w, r),
           NEW d \in Seq(Byte), NEW q,
           \A x \in OnTheWay : x[2] = r => <<x[1] \o d, q>> \in OnTheWay
    PROVE  Unhandled(b \o (w \o d), q)
<1>1. PICK j \in Headless, x \in OnTheWay : b \o w = j \o x[1] /\ r = x[2]
  BY DEF Unhandled
<1>2. j \in Seq(Byte) /\ x[1] \in Seq(Byte)
  BY OnTheWayGrows DEF Streams, Headless
<1>3. (b \o w) \o d = b \o (w \o d)
  BY Regroup
<1>4. (j \o x[1]) \o d = j \o (x[1] \o d)
  <2>1. ASSUME NEW s \in Seq(Byte), NEW t \in Seq(Byte)
        PROVE  (s \o t) \o d = s \o (t \o d)
    BY Regroup
  <2> QED
    BY <1>2, <2>1
<1>5. b \o (w \o d) = j \o (x[1] \o d)
  BY <1>1, <1>3, <1>4
<1>6. <<x[1] \o d, q>> \in OnTheWay
  BY <1>1
<1> QED
  BY <1>5, <1>6 DEF Unhandled

LEMMA InitHarm == Init => HarmInv
<1> SUFFICES ASSUME Init PROVE HarmInv
    OBVIOUS
<1>1. Unhandled(<<>>, <<>>)
  <2>1. Nil \in OnTheWay
    BY OnTheWayGrows DEF Grows
  <2>2. Unhandled(Nil[1], Nil[2])
    BY <2>1, OnTheWayUnhandled
  <2> QED
    BY <2>2 DEF Nil
<1>2. <<>> \o <<>> = <<>> /\ <<>> \in Seq(Packets)
  BY EmptySeq, ConcatEmptySeq
<1>3. intact = <<>> \o <<>> /\ delivered = <<>> /\ buffer \o wire = <<>>
  BY <1>2 DEF Init
<1> QED
  BY <1>1, <1>2, <1>3, InitTyped DEF HarmInv

\* A packet is sent, and arrives as it was sent,
LEMMA SendHarm ==
    ASSUME HarmInv, NEW p \in Packets, SendPacket(p), TypeOK'
    PROVE  HarmInv'
<1>1. PICK r \in Seq(Packets) : intact = delivered \o r /\ Unhandled(buffer \o wire, r)
  BY DEF HarmInv
<1>2. /\ buffer \in Seq(Byte) /\ wire \in Seq(Byte) /\ delivered \in Seq(AnyPacket)
      /\ Serialize(p) \in Seq(Byte) /\ p \in AnyPacket
  BY PacketFront, PacketParts DEF HarmInv, TypeOK
<1>3. r \in Seq(AnyPacket) /\ Append(r, p) \in Seq(Packets)
  BY StreamAssumption DEF StreamAssumption
<1>4. /\ wire' = wire \o Serialize(p) /\ intact' = Append(intact, p)
      /\ buffer' = buffer /\ delivered' = delivered
  BY DEF SendPacket
<1>5. \A x \in OnTheWay : x[2] = r => <<x[1] \o Serialize(p), Append(r, p)>> \in OnTheWay
  BY PutSound
<1>6. Unhandled(buffer \o (wire \o Serialize(p)), Append(r, p))
  BY <1>1, <1>2, <1>5, PutBehind
<1>7. intact' = delivered' \o Append(r, p)
  BY <1>1, <1>2, <1>3, <1>4, Requeued
<1> QED
  BY <1>3, <1>4, <1>6, <1>7 DEF HarmInv

\* or is harmed on the way.
LEMMA SendHarmedHarm ==
    ASSUME HarmInv, NEW p \in Packets, Plain(p), SendHarmed(p), TypeOK'
    PROVE  HarmInv'
<1>1. PICK r \in Seq(Packets) : intact = delivered \o r /\ Unhandled(buffer \o wire, r)
  BY DEF HarmInv
<1>2. PICK i \in {1, 2} \cup 9..Len(Serialize(p)) : wire' = wire \o Harmed(p, i)
  BY DEF SendHarmed, Harmed
<1> DEFINE d == Harmed(p, i)
<1>3. d \in Spoilt \cup Beheaded
  <2>1. CASE i \in {1, 2}
    BY <2>1, HarmedHead
  <2>2. CASE i \in 9..Len(Serialize(p))
    BY <2>2 DEF Spoilt
  <2> QED
    BY <2>1, <2>2
<1>4. wire' = wire \o d /\ UNCHANGED <<buffer, delivered, intact>>
  BY <1>2 DEF SendHarmed
<1> HIDE DEF d
<1>5. buffer \in Seq(Byte) /\ wire \in Seq(Byte) /\ d \in Seq(Byte)
  BY <1>3, LostBytes DEF HarmInv, TypeOK
<1>6. \A x \in OnTheWay : x[2] = r => <<x[1] \o d, r>> \in OnTheWay
  BY <1>3, PutLost
<1>7. Unhandled(buffer \o (wire \o d), r)
  BY <1>1, <1>5, <1>6, PutBehind
<1> QED
  BY <1>1, <1>4, <1>7 DEF HarmInv

\* Bytes move from the wire to the buffer.
LEMMA ReceiveHarm ==
    ASSUME HarmInv, Receive, TypeOK'
    PROVE  HarmInv'
<1>1. PICK r \in Seq(Packets) : intact = delivered \o r /\ Unhandled(buffer \o wire, r)
  BY DEF HarmInv
<1>2. buffer' \o wire' = buffer \o wire
  BY ReceiveLosesNone DEF HarmInv
<1> QED
  BY <1>1, <1>2 DEF HarmInv, Receive

\* The next packet is handled, or none.
LEMMA ParseHarm ==
    ASSUME HarmInv, Parse, TypeOK'
    PROVE  HarmInv'
<1>1. PICK r \in Seq(Packets) : intact = delivered \o r /\ Unhandled(buffer \o wire, r)
  BY DEF HarmInv
<1>2. buffer \in Seq(Byte) /\ wire \in Seq(Byte) /\ delivered \in Seq(AnyPacket)
  BY DEF HarmInv, TypeOK
<1>3. /\ buffer' = TryParse(buffer).rest
      /\ \/ /\ TryParse(buffer).packet # NoPacket
            /\ delivered' = Append(delivered, TryParse(buffer).packet)
         \/ /\ TryParse(buffer).packet = NoPacket
            /\ delivered' = delivered
      /\ UNCHANGED <<intact, wire>>
  BY DEF Parse
<1>4. CASE /\ TryParse(buffer).packet = NoPacket
           /\ Unhandled(TryParse(buffer).rest \o wire, r)
  BY <1>1, <1>3, <1>4 DEF HarmInv
<1>5. ASSUME NEW p \in Packets, NEW y \in OnTheWay,
             TryParse(buffer).packet = p, p # NoPacket, r = <<p>> \o y[2],
             Unhandled(TryParse(buffer).rest \o wire, y[2])
      PROVE  HarmInv'
  <2>1. delivered' = Append(delivered, p) /\ intact' = intact
    BY <1>3, <1>5
  <2>2. p \in AnyPacket /\ y[2] \in Seq(Packets) /\ y[2] \in Seq(AnyPacket)
    <3>1. y[2] \in Seq(Packets)
      BY OnTheWayGrows DEF Streams
    <3>2. y[2] \in Seq(AnyPacket)
      BY <3>1, StreamAssumption DEF StreamAssumption
    <3> QED
      BY <3>1, <3>2, PacketParts
  <2>3. Append(delivered, p) \o y[2] = delivered \o (<<p>> \o y[2])
    BY <1>2, <2>2, Requeued
  <2>4. intact' = delivered' \o y[2]
    BY <1>1, <1>5, <2>1, <2>3
  <2> QED
    BY <1>3, <1>5, <2>2, <2>4 DEF HarmInv
<1>6. TakesNext(buffer, wire, r)
  BY <1>1, <1>2, ParseKeeps
<1> QED
  BY <1>4, <1>5, <1>6 DEF TakesNext

\* What is handled is a prefix of what is intact.
LEMMA HarmPrefix == HarmInv => OnlyIntact
<1> SUFFICES ASSUME HarmInv PROVE OnlyIntact
    OBVIOUS
<1>1. PICK r \in Seq(Packets) : intact = delivered \o r
  BY DEF HarmInv
<1>2. r \in Seq(AnyPacket) /\ delivered \in Seq(AnyPacket)
  BY StreamAssumption DEF HarmInv, TypeOK, StreamAssumption
<1> QED
  BY <1>1, <1>2 DEF OnlyIntact, IsPrefix

\* Where nothing in a packet looks like a head: whatever byte of a packet's head,
\* payload or checksum arrives as the next one, in however many packets, and in
\* whatever pieces it all comes, the packets handled are the first of those that
\* were not harmed, in order and without a gap.
THEOREM HarmNoticed == (\A p \in Packets : Plain(p)) => (Spec => []OnlyIntact)
<1> SUFFICES ASSUME \A p \in Packets : Plain(p) PROVE Spec => []OnlyIntact
    OBVIOUS
<1>1. Init => HarmInv
  BY InitHarm
<1>2. HarmInv /\ [Next]_vars => HarmInv'
  <2> SUFFICES ASSUME HarmInv, [Next]_vars PROVE HarmInv'
      OBVIOUS
  <2>1. TypeOK'
    BY NextTyped DEF HarmInv
  <2>2. ASSUME NEW p \in Packets, SendPacket(p) PROVE HarmInv'
    BY <2>1, <2>2, SendHarm
  <2>3. ASSUME NEW p \in Packets, SendHarmed(p) PROVE HarmInv'
    BY <2>1, <2>3, SendHarmedHarm
  <2>4. CASE Receive
    BY <2>1, <2>4, ReceiveHarm
  <2>5. CASE Parse
    BY <2>1, <2>5, ParseHarm
  <2>6. CASE UNCHANGED vars
    BY <2>1, <2>6 DEF HarmInv, vars
  <2> QED
    BY <2>2, <2>3, <2>4, <2>5, <2>6 DEF Next
<1>3. HarmInv => OnlyIntact
  BY HarmPrefix
<1> QED
  BY <1>1, <1>2, <1>3, PTL DEF Spec

-----------------------------------------------------------------------------
(* Payloads are understood as they were made.                               *)

\* The bytes of s are in b, after the first at.
At(b, at, s) == \A i \in 1..Len(s) : b[at + i] = s[i]

\* What a reader's state may be.
Reader == [ok : BOOLEAN, at : Nat, value : Seq(Byte)]

\* The layout of a string.
LEMMA StringParts ==
    ASSUME NEW text \in Text
    PROVE  /\ text \in Seq(Byte) /\ Len(text) \in DWord /\ Len(text) \in Nat
           /\ Joins(StringBytes(text), DWordBytes(Len(text)), 4, text, Len(text))
<1>1. text \in Seq(Byte) /\ Len(text) \in DWord /\ Len(text) \in Nat
  BY DEF Text, DWord
<1>2. DWordBytes(Len(text)) \in Seq(Byte) /\ Len(DWordBytes(Len(text))) = 4
  BY <1>1, DWordWritten
<1> DEFINE length == DWordBytes(Len(text))
<1> HIDE DEF length
<1>3. Joins(length \o text, length, 4, text, Len(text))
  BY <1>1, <1>2, Joined DEF length
<1> QED
  BY <1>1, <1>3 DEF length, StringBytes

\* A string is read where it was written.
LEMMA ReadMade ==
    ASSUME NEW b \in Seq(Byte), NEW text \in Text, NEW r, NEW at \in Nat,
           r.ok = TRUE, r.at = at,
           at + (4 + Len(text)) <= Len(b), At(b, at, StringBytes(text))
    PROVE  ReadString(b, r) = [ok |-> TRUE, at |-> at + (4 + Len(text)), value |-> text]
<1> DEFINE n == Len(text)
           s == StringBytes(text)
           length == DWordBytes(n)
<1>1. /\ n \in Nat /\ n \in DWord /\ text \in Seq(Byte) /\ Len(b) \in Nat
      /\ Joins(s, length, 4, text, n)
  BY StringParts, BytesOf
<1> HIDE DEF n, s, length
<1>2. at + (4 + n) <= Len(b) /\ At(b, at, s)
  BY DEF n, s
<1>3. /\ Len(s) = 4 + n
      /\ \A i \in 1..4 : s[i] = length[i]
      /\ \A i \in 1..n : s[4 + i] = text[i]
  BY <1>1 DEF Joins
<1>4. \A i \in 1..4 : b[at + i] = length[i]
  BY <1>1, <1>2, <1>3 DEF At
<1>5. DWordAt(b, at) = n
  BY <1>1, <1>4, DWordRead DEF length
<1> DEFINE end == at + (4 + n)
<1>6. SubSeq(b, at + 5, end) = text
  <2>1. \A i \in (at + 5)..end : b[i] \in Byte
    BY <1>1, <1>2, BytesOf
  <2> DEFINE v == SubSeq(b, at + 5, end)
             m == at + 5
  <2>2. /\ v \in Seq(Byte) /\ Len(v) = IF m <= end THEN end - m + 1 ELSE 0
        /\ \A i \in 1..(end - m + 1) : v[i] = b[m + i - 1]
    BY <1>1, <2>1, SubSeqProperties
  <2> HIDE DEF v
  <2>3. Len(v) = n
    BY <1>1, <2>2
  <2>4. ASSUME NEW i \in 1..n PROVE v[i] = text[i]
    <3>1. i \in 1..(end - m + 1) /\ m + i - 1 = at + (4 + i) /\ 4 + i \in 1..(4 + n)
      BY <1>1
    <3>2. b[at + (4 + i)] = s[4 + i]
      BY <1>2, <1>3, <3>1 DEF At
    <3> QED
      BY <1>3, <2>2, <3>1, <3>2
  <2>5. v = text
    BY <1>1, <2>2, <2>3, <2>4, SeqEqual DEF n
  <2> QED
    BY <2>5 DEF v
<1>7. at + 4 <= Len(b) /\ at + 4 + n = end /\ end <= Len(b)
  BY <1>1, <1>2
<1>9. end \in Nat
  BY <1>1
<1> HIDE DEF end
<1>8. ReadString(b, r) = [ok |-> TRUE, at |-> end, value |-> text]
  <2>1. r.ok /\ ~(r.at + 4 > Len(b))
    BY <1>1, <1>7
  <2>2. r.at + 4 + DWordAt(b, r.at) = end /\ ~(end > Len(b))
    BY <1>1, <1>5, <1>7, <1>9
  <2>3. SubSeq(b, r.at + 5, end) = text
    BY <1>6
  <2> QED
    BY <2>1, <2>2, <2>3 DEF ReadString
<1> QED
  BY <1>8 DEF end, n

\* What is read as a string was written as one.
LEMMA ReadMeans ==
    ASSUME NEW b \in Seq(Byte), NEW r \in Reader, ReadString(b, r).ok = TRUE,
           NEW text, text = ReadString(b, r).value
    PROVE  /\ r.ok = TRUE
           /\ text \in Text
           /\ ReadString(b, r).at = r.at + (4 + Len(text))
           /\ r.at + (4 + Len(text)) <= Len(b)
           /\ At(b, r.at, StringBytes(text))
<1> DEFINE at == r.at
           n == DWordAt(b, at)
           end == at + 4 + n
           v == SubSeq(b, at + 5, end)
<1>1. Len(b) \in Nat /\ at \in Nat /\ \A i \in 1..Len(b) : b[i] \in Byte
  BY BytesOf DEF Reader
<1>2. /\ r.ok /\ ~(at + 4 > Len(b)) /\ ~(end > Len(b))
      /\ ReadString(b, r) = [ok |-> TRUE, at |-> end, value |-> v]
  <2>1. ReadString(b, r) # Failed
    BY DEF Failed
  <2>2. r.ok /\ ~(r.at + 4 > Len(b))
    BY <2>1 DEF ReadString
  <2>3. ~(r.at + 4 + DWordAt(b, r.at) > Len(b))
    BY <2>1, <2>2 DEF ReadString
  <2> QED
    BY <2>2, <2>3 DEF ReadString
<1>3. \A i \in 1..4 : at + i \in 1..Len(b)
  BY <1>1, <1>2
<1>4. /\ n \in DWord /\ n \in Nat
      /\ DWordBytes(n) = <<b[at + 1], b[at + 2], b[at + 3], b[at + 4]>>
  <2>1. \A i \in 1..4 : b[at + i] \in Byte
    BY <1>1, <1>3
  <2> QED
    BY <1>1, <2>1, DWordRewritten DEF DWord
<1>5. /\ v \in Seq(Byte) /\ Len(v) = n
      /\ \A i \in 1..n : v[i] = b[at + (4 + i)]
  <2> DEFINE m == at + 5
  <2> HIDE DEF n, at
  <2>1. m \in Int /\ end \in Int /\ \A i \in m..end : b[i] \in Byte
    BY <1>1, <1>2, <1>4
  <2>2. /\ v \in Seq(Byte) /\ Len(v) = IF m <= end THEN end - m + 1 ELSE 0
        /\ \A i \in 1..(end - m + 1) : v[i] = b[m + i - 1]
    <3>1. v = SubSeq(b, m, end)
      OBVIOUS
    <3> HIDE DEF m, end, v
    <3> QED
      BY <2>1, <3>1, SubSeqProperties
  <2> HIDE DEF v
  <2>3. Len(v) = n /\ end - m + 1 = n
    BY <1>1, <1>4, <2>2
  <2>4. \A i \in 1..n : m + i - 1 = at + (4 + i)
    BY <1>1, <1>4
  <2> QED
    BY <2>2, <2>3, <2>4
<1> HIDE DEF n, v
<1>6. v \in Text
  BY <1>4, <1>5 DEF Text
<1> DEFINE s == StringBytes(v)
<1>7. Joins(s, DWordBytes(n), 4, v, n)
  BY <1>5, <1>6, StringParts
<1> HIDE DEF s
<1>8. At(b, at, s)
  <2> SUFFICES ASSUME NEW i \in 1..(4 + n) PROVE b[at + i] = s[i]
    BY <1>7 DEF At, Joins
  <2>1. CASE i <= 4
    <3>1. i \in 1..4
      BY <1>4, <2>1
    <3>2. s[i] = DWordBytes(n)[i]
      BY <1>7, <3>1 DEF Joins
    <3> QED
      BY <1>4, <3>1, <3>2
  <2>2. CASE ~(i <= 4)
    <3>1. i - 4 \in 1..n /\ 4 + (i - 4) = i
      BY <1>4, <2>2
    <3>2. s[i] = v[i - 4]
      BY <1>7, <3>1 DEF Joins
    <3> QED
      BY <1>5, <3>1, <3>2
  <2> QED
    BY <2>1, <2>2
<1>9. end = at + (4 + Len(v)) /\ end <= Len(b)
  BY <1>1, <1>2, <1>4, <1>5
<1> HIDE DEF at, end
<1>10. text = v /\ ReadString(b, r).at = end
  BY <1>2
<1>11. r.ok = TRUE
  BY <1>2 DEF Reader
<1> QED
  BY <1>6, <1>8, <1>9, <1>10, <1>11 DEF s, at

\* The reader's state stays one.
LEMMA ReadTyped ==
    ASSUME NEW b \in Seq(Byte), NEW r \in Reader
    PROVE  ReadString(b, r) \in Reader
<1>1. ReadString(b, r) = Failed \/ ReadString(b, r).ok = TRUE
  BY DEF ReadString
<1>2. CASE ReadString(b, r) = Failed
  BY <1>2, EmptySeq DEF Failed, Reader
<1>3. CASE ReadString(b, r).ok = TRUE
  <2> DEFINE at == ReadString(b, r).at
             v == ReadString(b, r).value
  <2>1. ReadString(b, r) = [ok |-> TRUE, at |-> at, value |-> v]
    BY <1>3 DEF ReadString, Failed
  <2>2. r.at \in Nat
    BY DEF Reader
  <2>0. v = ReadString(b, r).value
    OBVIOUS
  <2> HIDE DEF v
  <2>3. v \in Text /\ ReadString(b, r).at = r.at + (4 + Len(v))
    BY <1>3, <2>0, ReadMeans
  <2> HIDE DEF at
  <2>4. v \in Seq(Byte) /\ at \in Nat
    BY <2>2, <2>3 DEF Text, at
  <2> QED
    BY <2>1, <2>4 DEF Reader
<1> QED
  BY <1>1, <1>2, <1>3

\* Two strings of bytes behind each other are where the first ends.
LEMMA AtJoin ==
    ASSUME NEW s \in Seq(Byte), NEW t \in Seq(Byte), NEW b, NEW at \in Nat
    PROVE  At(b, at, s \o t) <=> At(b, at, s) /\ At(b, at + Len(s), t)
<1> DEFINE m == Len(s)
           n == Len(t)
           u == s \o t
<1>1. m \in Nat /\ n \in Nat /\ Joins(u, s, m, t, n)
  BY BytesOf, Joined
<1> HIDE DEF m, n, u
<1>2. /\ Len(u) = m + n
      /\ \A i \in 1..m : u[i] = s[i]
      /\ \A i \in 1..n : u[m + i] = t[i]
  BY <1>1 DEF Joins
<1>3. ASSUME \A i \in 1..(m + n) : b[at + i] = u[i]
      PROVE  /\ \A i \in 1..m : b[at + i] = s[i]
             /\ \A i \in 1..n : b[(at + m) + i] = t[i]
  <2>1. ASSUME NEW i \in 1..m PROVE b[at + i] = s[i]
    <3>1. i \in 1..(m + n)
      BY <1>1
    <3> QED
      BY <1>2, <1>3, <3>1
  <2>2. ASSUME NEW i \in 1..n PROVE b[(at + m) + i] = t[i]
    <3>1. m + i \in 1..(m + n) /\ at + (m + i) = (at + m) + i
      BY <1>1
    <3> QED
      BY <1>2, <1>3, <3>1
  <2> QED
    BY <2>1, <2>2
<1>4. ASSUME \A i \in 1..m : b[at + i] = s[i],
             \A i \in 1..n : b[(at + m) + i] = t[i],
             NEW i \in 1..(m + n)
      PROVE  b[at + i] = u[i]
  <2>1. CASE i <= m
    <3>1. i \in 1..m
      BY <1>1, <2>1
    <3> QED
      BY <1>2, <1>4, <3>1
  <2>2. CASE ~(i <= m)
    <3> DEFINE j == i - m
    <3>1. j \in 1..n /\ m + j = i /\ (at + m) + j = at + i
      BY <1>1, <2>2
    <3> HIDE DEF j
    <3> QED
      BY <1>2, <1>4, <3>1
  <2> QED
    BY <2>1, <2>2
<1> QED
  BY <1>2, <1>3, <1>4 DEF At, m, n, u

\* Bytes that are everywhere the same are the same.
LEMMA AtWhole ==
    ASSUME NEW s \in Seq(Byte), NEW b \in Seq(Byte), Len(b) = Len(s)
    PROVE  At(b, 0, s) <=> b = s
<1>1. \A i \in 1..Len(s) : 0 + i = i
  BY BytesOf
<1>2. ASSUME At(b, 0, s) PROVE b = s
  <2>1. \A i \in 1..Len(b) : b[i] = s[i]
    BY <1>1, <1>2 DEF At
  <2> QED
    BY <2>1, SeqEqual
<1>3. ASSUME b = s PROVE At(b, 0, s)
  BY <1>1, <1>3 DEF At
<1> QED
  BY <1>2, <1>3

\* The length of a string, with its length field.
LEMMA StringLength ==
    ASSUME NEW text \in Text
    PROVE  /\ StringBytes(text) \in Seq(Byte)
           /\ Len(StringBytes(text)) = 4 + Len(text)
           /\ Len(text) \in Nat
BY StringParts DEF Joins

\* The reading begins at the front.
LEMMA StartReader == Start \in Reader /\ Start.ok = TRUE /\ Start.at = 0
BY EmptySeq DEF Start, Reader

\* A string at the front.
LEMMA FirstMade ==
    ASSUME NEW b \in Seq(Byte), NEW text \in Text,
           4 + Len(text) <= Len(b), At(b, 0, StringBytes(text))
    PROVE  ReadString(b, Start) = [ok |-> TRUE, at |-> 4 + Len(text), value |-> text]
<1>1. Len(text) \in Nat
  BY StringLength
<1>2. PICK at \in Nat, n \in Nat : at = 0 /\ n = 4 + Len(text) /\ n = at + (4 + Len(text))
  BY <1>1
<1>3. PICK r : r = Start /\ r.ok = TRUE /\ r.at = at
  BY <1>2, StartReader
<1>4. at + (4 + Len(text)) <= Len(b) /\ At(b, at, StringBytes(text))
  BY <1>1, <1>2
<1>5. ReadString(b, r) = [ok |-> TRUE, at |-> at + (4 + Len(text)), value |-> text]
  BY <1>3, <1>4, ReadMade
<1> QED
  BY <1>2, <1>3, <1>5

LEMMA FirstMeans ==
    ASSUME NEW b \in Seq(Byte), ReadString(b, Start).ok = TRUE,
           NEW text, text = ReadString(b, Start).value
    PROVE  /\ text \in Text
           /\ ReadString(b, Start).at = 4 + Len(text)
           /\ At(b, 0, StringBytes(text))
<1>1. PICK r \in Reader : r = Start /\ r.ok = TRUE /\ r.at = 0
  BY StartReader
<1>2. /\ text \in Text /\ ReadString(b, r).at = r.at + (4 + Len(text))
      /\ At(b, r.at, StringBytes(text))
  BY <1>1, ReadMeans
<1>3. Len(text) \in Nat
  BY <1>2, StringLength
<1>4. r.at + (4 + Len(text)) = 4 + Len(text)
  BY <1>1, <1>3
<1> QED
  BY <1>1, <1>2, <1>4

\* A string.
LEMMA StringUnderstood ==
    ASSUME NEW text \in Text
    PROVE  ParseString(StringBytes(text)) = [is |-> "string", text |-> text]
<1> DEFINE b == StringBytes(text)
<1>1. b \in Seq(Byte) /\ Len(b) = 4 + Len(text) /\ Len(text) \in Nat
  BY StringLength
<1> HIDE DEF b
<1>2. At(b, 0, b)
  BY <1>1, AtWhole
<1>3. ReadString(b, Start) = [ok |-> TRUE, at |-> 4 + Len(text), value |-> text]
  <2>1. 4 + Len(text) <= Len(b) /\ At(b, 0, StringBytes(text))
    BY <1>1, <1>2 DEF b
  <2> QED
    BY <1>1, <2>1, FirstMade
<1>5. ParseString(b) = [is |-> "string", text |-> text]
  BY <1>1, <1>3 DEF ParseString, Exactly
<1> QED
  BY <1>5 DEF b

LEMMA StringMeant ==
    ASSUME NEW b \in Seq(Byte), ParseString(b) # Invalid
    PROVE  \E text \in Text :
              ParseString(b) = [is |-> "string", text |-> text] /\ b = StringBytes(text)
<1> DEFINE r == ReadString(b, Start)
           text == r.value
<1>1. r.ok /\ r.at = Len(b) /\ ParseString(b) = [is |-> "string", text |-> text]
  BY DEF ParseString, Exactly
<1>2. r.ok = TRUE
  BY <1>1, ReadTyped, StartReader DEF Reader
<1>3. text = r.value
  OBVIOUS
<1> HIDE DEF text
<1>4. text \in Text /\ r.at = 4 + Len(text) /\ At(b, 0, StringBytes(text))
  BY <1>2, <1>3, FirstMeans
<1> HIDE DEF r
<1>5. b = StringBytes(text)
  <2> DEFINE s == StringBytes(text)
  <2>1. s \in Seq(Byte) /\ Len(s) = Len(b) /\ At(b, 0, s)
    BY <1>1, <1>4, StringLength
  <2> HIDE DEF s
  <2>2. b = s
    BY <2>1, AtWhole
  <2> QED
    BY <2>2 DEF s
<1> QED
  BY <1>1, <1>4, <1>5

\* Two strings.
LEMMA ChatUnderstood ==
    ASSUME NEW sender \in Text, NEW message \in Text
    PROVE  ParseChat(ChatBytes(sender, message))
             = [is |-> "chat", sender |-> sender, message |-> message]
<1> DEFINE s == StringBytes(sender)
           t == StringBytes(message)
           b == s \o t
           m == 4 + Len(sender)
           n == 4 + Len(message)
<1>1. /\ s \in Seq(Byte) /\ t \in Seq(Byte) /\ m \in Nat /\ n \in Nat
      /\ Len(s) = m /\ Len(t) = n
  BY StringLength
<1>2. b \in Seq(Byte) /\ Len(b) = m + n
  <2> HIDE DEF s, t, m, n
  <2> QED
    BY <1>1, Joined DEF Joins
<1>3. At(b, 0, s) /\ At(b, 0 + m, t)
  <2> HIDE DEF s, t, m, n
  <2>1. At(b, 0, b)
    <3> HIDE DEF b
    <3> QED
      BY <1>2, AtWhole
  <2> QED
    BY <1>1, <2>1, AtJoin
<1> HIDE DEF b
<1>4. ReadString(b, Start) = [ok |-> TRUE, at |-> m, value |-> sender]
  <2>1. 4 + Len(sender) <= Len(b) /\ At(b, 0, StringBytes(sender))
    BY <1>1, <1>2, <1>3
  <2> QED
    BY <1>2, <2>1, FirstMade
<1> DEFINE r == [ok |-> TRUE, at |-> m, value |-> sender]
<1>5. ReadString(b, r) = [ok |-> TRUE, at |-> m + n, value |-> message]
  <2>1. m + (4 + Len(message)) <= Len(b) /\ At(b, m, StringBytes(message))
    BY <1>1, <1>2, <1>3
  <2>2. r.ok = TRUE /\ r.at = m
    OBVIOUS
  <2> HIDE DEF r, m
  <2> QED
    BY <1>1, <1>2, <2>1, <2>2, ReadMade
<1> HIDE DEF m, n
<1>6. ParseChat(b) = [is |-> "chat", sender |-> sender, message |-> message]
  BY <1>2, <1>4, <1>5 DEF ParseChat, Exactly
<1> QED
  BY <1>6 DEF b, ChatBytes

LEMMA ChatMeant ==
    ASSUME NEW b \in Seq(Byte), ParseChat(b) # Invalid
    PROVE  \E sender \in Text, message \in Text :
              /\ ParseChat(b) = [is |-> "chat", sender |-> sender, message |-> message]
              /\ b = ChatBytes(sender, message)
<1> DEFINE r1 == ReadString(b, Start)
           r2 == ReadString(b, r1)
           sender == r1.value
           message == r2.value
<1>1. /\ r2.ok /\ r2.at = Len(b)
      /\ ParseChat(b) = [is |-> "chat", sender |-> sender, message |-> message]
  BY DEF ParseChat, Exactly
<1>2. r1 \in Reader
  BY ReadTyped, StartReader
<1>3. sender = r1.value /\ message = r2.value
  OBVIOUS
<1> HIDE DEF sender, message
<1>4. /\ r1.ok = TRUE /\ message \in Text
      /\ r2.at = r1.at + (4 + Len(message)) /\ At(b, r1.at, StringBytes(message))
  <2> HIDE DEF r1
  <2>1. r2 \in Reader
    BY <1>2, ReadTyped
  <2>2. r2.ok = TRUE
    BY <1>1, <2>1 DEF Reader
  <2> QED
    BY <1>2, <1>3, <2>2, ReadMeans
<1> HIDE DEF r2
<1>5. /\ sender \in Text
      /\ r1.at = 4 + Len(sender) /\ At(b, 0, StringBytes(sender))
  BY <1>3, <1>4, FirstMeans
<1> HIDE DEF r1
<1>6. b = ChatBytes(sender, message)
  <2> DEFINE s == StringBytes(sender)
             t == StringBytes(message)
  <2>1. /\ s \in Seq(Byte) /\ t \in Seq(Byte)
        /\ Len(s) = 4 + Len(sender) /\ Len(t) = 4 + Len(message)
        /\ Len(sender) \in Nat /\ Len(message) \in Nat
    BY <1>4, <1>5, StringLength
  <2>2. r1.at = 0 + Len(s)
    BY <1>5, <2>1
  <2>3. At(b, 0, s) /\ At(b, 0 + Len(s), t)
    BY <1>4, <1>5, <2>2
  <2> HIDE DEF s, t
  <2>4. At(b, 0, s \o t)
    BY <2>1, <2>3, AtJoin
  <2>5. s \o t \in Seq(Byte) /\ Len(s \o t) = Len(s) + Len(t)
    BY <2>1, Joined DEF Joins
  <2>6. Len(b) = Len(s) + Len(t)
    BY <1>1, <1>4, <2>1, <2>2
  <2> DEFINE u == s \o t
  <2> HIDE DEF u
  <2>7. b = u
    BY <2>4, <2>5, <2>6, AtWhole DEF u
  <2> QED
    BY <2>7 DEF u, s, t, ChatBytes
<1> QED
  BY <1>1, <1>4, <1>5, <1>6

\* Only the lower half of a number is in the bytes of a Word, and only the two
\* lower quarters are in those of a DWord.
LEMMA WordOfLarge ==
    ASSUME NEW v \in Nat
    PROVE  WordBytes(v % 65536) = WordBytes(v)
<1> DEFINE b == WordBytes(v)
<1>1. b \in Seq(Byte) /\ Len(b) = 2 /\ WordAt(b, 0) = v % 65536
  BY WordWritten
<1>0. b \in Seq(Byte) /\ Len(b) = 2
  BY WordWritten
<1>2. b = <<b[1], b[2]>>
  BY DEF WordBytes
<1> HIDE DEF b
<1>3. b[0 + 1] \in Byte /\ b[0 + 2] \in Byte
  <2>1. \A i \in 1..Len(b) : b[i] \in Byte
    BY <1>0, BytesOf
  <2>2. 0 + 1 = 1 /\ 0 + 2 = 2 /\ 1 \in 1..Len(b) /\ 2 \in 1..Len(b)
    BY <1>0
  <2> QED
    BY <2>1, <2>2
<1>4. WordBytes(WordAt(b, 0)) = <<b[0 + 1], b[0 + 2]>>
  BY <1>3, WordRewritten
<1> QED
  BY <1>1, <1>2, <1>4 DEF b

QWordOf(h, d) == 65536 * (65536 * h) + d

LEMMA DWordOfLarge ==
    ASSUME NEW h \in Nat, NEW d \in DWord
    PROVE  /\ QWordOf(h, d) \in Nat
           /\ DWordBytes(QWordOf(h, d)) = DWordBytes(d)
           /\ (QWordOf(h, d) \div 65536) \div 65536 = h
<1> DEFINE v == QWordOf(h, d)
<1>1. PICK l \in Word, m \in Word :
        l = d % 65536 /\ m = d \div 65536 /\ d = 65536 * m + l
  BY DividedWord DEF DWord
<1>2. l \in Nat /\ m \in Nat /\ l < 65536 /\ m < 65536
  BY DEF Word
<1> DEFINE u == 65536 * h + m
<1>3. u \in Nat /\ v \in Nat /\ v = 65536 * u + l
  BY <1>1, <1>2 DEF QWordOf
<1>4. u \div 65536 = h /\ u % 65536 = m
  BY <1>2, ComposedWord
<1> HIDE DEF u, v
<1>5. v \div 65536 = u /\ v % 65536 = l
  BY <1>3, ComposedWord
<1>6. WordBytes(v) = WordBytes(l) /\ WordBytes(u) = WordBytes(m)
  BY <1>3, <1>4, <1>5, WordOfLarge
<1>7. WordBytes(d) = WordBytes(l)
  BY <1>1, WordOfLarge DEF DWord
<1>8. DWordBytes(v) = <<WordBytes(v)[1], WordBytes(v)[2], WordBytes(u)[1], WordBytes(u)[2]>>
  BY <1>5 DEF DWordBytes, WordBytes
<1>9. DWordBytes(d) = <<WordBytes(d)[1], WordBytes(d)[2], WordBytes(m)[1], WordBytes(m)[2]>>
  BY <1>1 DEF DWordBytes, WordBytes
<1>10. DWordBytes(v) = DWordBytes(d)
  BY <1>6, <1>7, <1>8, <1>9
<1>11. (v \div 65536) \div 65536 = h
  BY <1>4, <1>5
<1> QED
  BY <1>3, <1>10, <1>11 DEF v

\* A QWord is two DWords.
LEMMA QWordParts ==
    ASSUME NEW v \in QWord
    PROVE  /\ QWordBytes(v) \in Seq(Byte) /\ Len(QWordBytes(v)) = 8
           /\ \E h \in DWord, d \in DWord :
                /\ v = QWordOf(h, d)
                /\ \A i \in 1..4 : QWordBytes(v)[i] = DWordBytes(d)[i]
                /\ \A i \in 1..4 : QWordBytes(v)[4 + i] = DWordBytes(h)[i]
<1> DEFINE u == v \div 65536
           h == u \div 65536
<1>1. v \in Nat /\ u \in Nat /\ h \in Nat
  BY DividedWord DEF QWord
<1>4. h \in DWord
  BY DEF QWord
<1>3. PICK m \in Word : u = 65536 * h + m
  BY <1>1, DividedWord
<1> HIDE DEF h
<1>2. PICK l \in Word : v = 65536 * u + l
  BY <1>1, DividedWord
<1> HIDE DEF u
<1>5. PICK d \in Nat : d = 65536 * m + l
  BY DEF Word
<1>6. d \in DWord /\ v = QWordOf(h, d)
  <2>1. d < 65536 * 65536
    BY <1>5 DEF Word
  <2>2. v = 65536 * (65536 * h) + d
    BY <1>1, <1>2, <1>3, <1>5 DEF Word
  <2> QED
    BY <2>1, <2>2, DWordBound DEF QWordOf
<1>7. DWordBytes(v) = DWordBytes(d) /\ (v \div 65536) \div 65536 = h
  BY <1>1, <1>6, DWordOfLarge
<1> DEFINE low == DWordBytes(d)
           high == DWordBytes(h)
<1>8. low \in Seq(Byte) /\ Len(low) = 4 /\ high \in Seq(Byte) /\ Len(high) = 4
  BY <1>1, DWordWritten
<1> HIDE DEF low, high
<1>9. QWordBytes(v) = low \o high
  BY <1>7 DEF QWordBytes, low, high
<1>10. Joins(low \o high, low, 4, high, 4)
  BY <1>8, Joined
<1>11. /\ QWordBytes(v) \in Seq(Byte) /\ Len(QWordBytes(v)) = 8
       /\ \A i \in 1..4 : QWordBytes(v)[i] = low[i]
       /\ \A i \in 1..4 : QWordBytes(v)[4 + i] = high[i]
  <2>1. Joins(QWordBytes(v), low, 4, high, 4)
    BY <1>9, <1>10
  <2> QED
    BY <2>1 DEF Joins
<1> QED
  BY <1>4, <1>6, <1>11 DEF low, high

\* It is read back from wherever its bytes are.
LEMMA QWordRead ==
    ASSUME NEW v \in QWord, NEW b, NEW at \in Nat, At(b, at, QWordBytes(v))
    PROVE  QWordAt(b, at) = v
<1> DEFINE q == QWordBytes(v)
<1>1. Len(q) = 8
  BY QWordParts
<1>2. PICK h \in DWord, d \in DWord :
        /\ v = QWordOf(h, d)
        /\ \A i \in 1..4 : q[i] = DWordBytes(d)[i]
        /\ \A i \in 1..4 : q[4 + i] = DWordBytes(h)[i]
  BY QWordParts
<1> HIDE DEF q
<1>3. \A i \in 1..8 : b[at + i] = q[i]
  BY <1>1 DEF At, q
<1>4. DWordAt(b, at) = d
  <2>1. \A i \in 1..4 : b[at + i] = DWordBytes(d)[i]
    BY <1>2, <1>3
  <2> QED
    BY <2>1, DWordRead
<1>5. DWordAt(b, at + 4) = h
  <2> DEFINE up == at + 4
  <2>1. up \in Nat /\ \A i \in 1..4 : up + i = at + (4 + i) /\ 4 + i \in 1..8
    OBVIOUS
  <2> HIDE DEF up
  <2>2. \A i \in 1..4 : b[up + i] = DWordBytes(h)[i]
    BY <1>2, <1>3, <2>1
  <2>3. DWordAt(b, up) = h
    BY <2>1, <2>2, DWordRead
  <2> QED
    BY <2>3 DEF up
<1>6. h \in Nat /\ d \in Nat
  BY DEF DWord
<1> QED
  <2>1. QWordAt(b, at) = d + 65536 * (65536 * h)
    BY <1>4, <1>5 DEF QWordAt
  <2> QED
    BY <1>2, <1>6, <2>1 DEF QWordOf

\* Eight bytes are a QWord, and are written back as they were read.
LEMMA QWordRewritten ==
    ASSUME NEW b, NEW at \in Nat, \A i \in 1..8 : b[at + i] \in Byte
    PROVE  QWordAt(b, at) \in QWord /\ At(b, at, QWordBytes(QWordAt(b, at)))
<1> DEFINE up == at + 4
           d == DWordAt(b, at)
           h == DWordAt(b, up)
           v == QWordAt(b, at)
<1>1. up \in Nat /\ \A i \in 1..4 : up + i = at + (4 + i) /\ 4 + i \in 1..8 /\ i \in 1..8
  OBVIOUS
<1>2. /\ d \in DWord
      /\ DWordBytes(d) = <<b[at + 1], b[at + 2], b[at + 3], b[at + 4]>>
  BY DWordRewritten
<1>3. /\ h \in DWord
      /\ DWordBytes(h) = <<b[up + 1], b[up + 2], b[up + 3], b[up + 4]>>
  <2> HIDE DEF up
  <2>1. \A i \in 1..4 : b[up + i] \in Byte
    BY <1>1
  <2> QED
    BY <1>1, <2>1, DWordRewritten
<1>4. h \in Nat /\ d \in Nat
  BY <1>2, <1>3 DEF DWord
<1>5. v = QWordOf(h, d)
  <2>1. v = d + 65536 * (65536 * h)
    BY DEF QWordAt
  <2> HIDE DEF v, d, h
  <2> QED
    BY <1>4, <2>1 DEF QWordOf
<1> HIDE DEF v, d, h
<1>6. v \in Nat /\ DWordBytes(v) = DWordBytes(d) /\ (v \div 65536) \div 65536 = h
  BY <1>2, <1>4, <1>5, DWordOfLarge
<1>7. v \in QWord
  BY <1>3, <1>6 DEF QWord
<1> DEFINE low == DWordBytes(d)
           high == DWordBytes(h)
<1>8. low \in Seq(Byte) /\ Len(low) = 4 /\ high \in Seq(Byte) /\ Len(high) = 4
  BY <1>4, DWordWritten
<1>9. At(b, at, low) /\ At(b, at + 4, high)
  <2>1. /\ \A i \in 1..4 : b[at + i] = low[i]
        /\ \A i \in 1..4 : b[up + i] = high[i]
    BY <1>2, <1>3
  <2> HIDE DEF low, high
  <2> QED
    BY <1>8, <2>1 DEF At
<1> HIDE DEF low, high
<1>10. At(b, at, low \o high)
  BY <1>8, <1>9, AtJoin
<1>11. QWordBytes(v) = low \o high
  BY <1>6 DEF QWordBytes, low, high
<1>12. At(b, at, QWordBytes(v))
  BY <1>10, <1>11
<1> QED
  BY <1>7, <1>12 DEF v

\* A name and a size.
LEMMA FileUnderstood ==
    ASSUME NEW name \in Text, NEW size \in QWord
    PROVE  ParseFileBegin(FileBeginBytes(name, size))
             = [is |-> "file", name |-> name, size |-> size]
<1> DEFINE s == StringBytes(name)
           t == QWordBytes(size)
           b == s \o t
           m == 4 + Len(name)
<1>1. s \in Seq(Byte) /\ t \in Seq(Byte) /\ m \in Nat /\ Len(s) = m /\ Len(t) = 8
  BY StringLength, QWordParts
<1>2. b \in Seq(Byte) /\ Len(b) = m + 8
  <2> HIDE DEF s, t, m
  <2>1. Joins(b, s, m, t, 8)
    BY <1>1, Joined
  <2> QED
    BY <2>1 DEF Joins
<1>3. At(b, 0, s) /\ At(b, m, t)
  <2> HIDE DEF s, t, m
  <2>1. At(b, 0, b)
    <3> HIDE DEF b
    <3> QED
      BY <1>2, AtWhole
  <2>2. At(b, 0, s) /\ At(b, 0 + m, t) /\ 0 + m = m
    BY <1>1, <2>1, AtJoin
  <2> QED
    BY <2>2
<1> HIDE DEF b
<1>4. ReadString(b, Start) = [ok |-> TRUE, at |-> m, value |-> name]
  <2>1. 4 + Len(name) <= Len(b) /\ At(b, 0, StringBytes(name))
    BY <1>1, <1>2, <1>3
  <2> QED
    BY <1>2, <2>1, FirstMade
<1>5. QWordAt(b, m) = size
  <2> HIDE DEF m
  <2> QED
    BY <1>1, <1>3, QWordRead
<1> HIDE DEF m
<1>6. ~(m + 8 > Len(b))
  BY <1>1, <1>2
<1>7. ParseFileBegin(b) = [is |-> "file", name |-> name, size |-> size]
  BY <1>2, <1>4, <1>5, <1>6 DEF ParseFileBegin, Exactly
<1> QED
  BY <1>7 DEF b, FileBeginBytes

LEMMA FileMeant ==
    ASSUME NEW b \in Seq(Byte), ParseFileBegin(b) # Invalid
    PROVE  \E name \in Text, size \in QWord :
              /\ ParseFileBegin(b) = [is |-> "file", name |-> name, size |-> size]
              /\ b = FileBeginBytes(name, size)
<1> DEFINE r == ReadString(b, Start)
           name == r.value
           size == QWordAt(b, r.at)
<1>1. /\ r.ok /\ r.at + 8 = Len(b)
      /\ ParseFileBegin(b) = [is |-> "file", name |-> name, size |-> size]
  BY DEF ParseFileBegin, Exactly
<1>2. r.ok = TRUE
  BY <1>1, ReadTyped, StartReader DEF Reader
<1>3. name = r.value
  OBVIOUS
<1> HIDE DEF name
<1>4. name \in Text /\ r.at = 4 + Len(name) /\ At(b, 0, StringBytes(name))
  BY <1>2, <1>3, FirstMeans
<1> DEFINE s == StringBytes(name)
<1>5. /\ s \in Seq(Byte) /\ Len(s) = r.at /\ r.at \in Nat /\ At(b, 0, s)
  BY <1>4, StringLength
<1> HIDE DEF r, s
<1>6. size \in QWord /\ At(b, r.at, QWordBytes(size))
  <2>1. \A i \in 1..8 : r.at + i \in 1..Len(b)
    BY <1>1, <1>5
  <2>2. \A i \in 1..8 : b[r.at + i] \in Byte
    BY <2>1, BytesOf
  <2> QED
    BY <1>5, <2>2, QWordRewritten
<1> HIDE DEF size
<1> DEFINE t == QWordBytes(size)
<1>7. t \in Seq(Byte) /\ Len(t) = 8 /\ At(b, r.at, t)
  BY <1>6, QWordParts
<1> HIDE DEF t
<1>8. b = s \o t
  <2>1. At(b, 0 + Len(s), t)
    BY <1>5, <1>7
  <2>2. At(b, 0, s \o t)
    BY <1>5, <1>7, <2>1, AtJoin
  <2>3. s \o t \in Seq(Byte) /\ Len(s \o t) = r.at + 8
    <3>1. Joins(s \o t, s, r.at, t, 8)
      BY <1>5, <1>7, Joined
    <3> QED
      BY <3>1 DEF Joins
  <2> DEFINE u == s \o t
  <2> HIDE DEF u
  <2>4. b = u
    BY <1>1, <2>2, <2>3, AtWhole DEF u
  <2> QED
    BY <2>4 DEF u
<1> QED
  BY <1>1, <1>4, <1>6, <1>8 DEF FileBeginBytes, s, t

\* What holds at the end of a count, and with a number at the one before it,
\* holds for all.
LEMMA Downwards ==
    ASSUME NEW n \in Nat, NEW S, n \in S, \A i \in 1..n : i \in S => i - 1 \in S
    PROVE  0..n \subseteq S
<1> DEFINE T == {k \in Nat : k <= n => n - k \in S}
<1>1. 0 \in T
  OBVIOUS
<1>2. ASSUME NEW k \in Nat, k \in T PROVE k + 1 \in T
  <2> SUFFICES ASSUME k + 1 <= n PROVE n - (k + 1) \in S
      OBVIOUS
  <2> DEFINE i == n - k
  <2>1. i \in 1..n /\ i \in S /\ i - 1 = n - (k + 1)
    BY <1>2
  <2> HIDE DEF i
  <2>2. i - 1 \in S
    BY <2>1
  <2> QED
    BY <2>1, <2>2
<1>3. Nat \subseteq T
  <2> HIDE DEF T
  <2> QED
    BY <1>1, <1>2, Induction
<1>4. ASSUME NEW i \in 0..n PROVE i \in S
  <2>1. n - i \in T /\ n - i <= n /\ n - (n - i) = i
    BY <1>3
  <2> QED
    BY <2>1
<1> QED
  BY <1>4

\* The same, upwards.
LEMMA Upwards ==
    ASSUME NEW n \in Nat, NEW S, 0 \in S, \A i \in 1..n : i - 1 \in S => i \in S
    PROVE  0..n \subseteq S
<1> DEFINE T == {k \in Nat : k <= n => k \in S}
<1>1. 0 \in T
  OBVIOUS
<1>2. ASSUME NEW k \in Nat, k \in T PROVE k + 1 \in T
  <2> SUFFICES ASSUME k + 1 <= n PROVE k + 1 \in S
      OBVIOUS
  <2>1. k + 1 \in 1..n /\ k \in S /\ (k + 1) - 1 = k
    BY <1>2
  <2> QED
    BY <2>1
<1>3. Nat \subseteq T
  <2> HIDE DEF T
  <2> QED
    BY <1>1, <1>2, Induction
<1> QED
  BY <1>3

\* All turns of the loop over the items, each made from the one before it.
ItemTurns(items, m) ==
    [i \in 0..Len(items) |->
        IF i = 0 THEN DWordBytes(Len(items)) ELSE m[i - 1] \o StringBytes(items[i])]

\* The payload after each of them is defined.
LEMMA ListMadeSteps ==
    ASSUME NEW items \in Seq(Text)
    PROVE  /\ ListMade(items)[0] = DWordBytes(Len(items))
           /\ \A i \in 0..Len(items) : ListMade(items)[i] \in Seq(Byte)
           /\ \A i \in 1..Len(items) :
                ListMade(items)[i] = ListMade(items)[i - 1] \o StringBytes(items[i])
<1> DEFINE n == Len(items)
           first == DWordBytes(n)
           step == [i \in Nat |-> [b \in Seq(Byte) |->
                      IF i \in 1..n THEN b \o StringBytes(items[i]) ELSE b]]
           made == ListMade(items)
<1>1. n \in Nat /\ \A i \in 1..n : items[i] \in Text
  OBVIOUS
<1>2. first \in Seq(Byte)
  BY <1>1, DWordWritten
<1>3. step \in [Nat -> [Seq(Byte) -> Seq(Byte)]]
  <2>1. ASSUME NEW i \in Nat, NEW b \in Seq(Byte), i \in 1..n
        PROVE  b \o StringBytes(items[i]) \in Seq(Byte)
    <3>1. StringBytes(items[i]) \in Seq(Byte)
      BY <1>1, <2>1, StringLength
    <3> QED
      BY <3>1, ConcatProperties
  <2> QED
    BY <2>1
<1> HIDE DEF first
<1>4. PICK f : Iterates(Seq(Byte), first, step, n, f)
  <2> HIDE DEF step, n
  <2> QED
    BY <1>1, <1>2, <1>3, Recursion
<1>5. ASSUME NEW i \in 1..n
      PROVE  f[i] = f[i - 1] \o StringBytes(items[i])
  <2>1. i \in Nat /\ f[i - 1] \in Seq(Byte)
    <3> HIDE DEF n, step
    <3> QED
      BY <1>1, <1>4 DEF Iterates
  <2>2. step[i][f[i - 1]] = f[i - 1] \o StringBytes(items[i])
    <3> DEFINE x == f[i - 1]
    <3> HIDE DEF x
    <3> QED
      BY <2>1 DEF x
  <2> HIDE DEF n, step
  <2> QED
    BY <1>4, <2>2 DEF Iterates
<1>6. f = ItemTurns(items, f)
  <2> HIDE DEF step
  <2>1. f \in [0..n -> Seq(Byte)] /\ f[0] = first
    BY <1>4 DEF Iterates
  <2>2. f = [i \in 0..n |-> f[i]]
    BY <2>1
  <2>3. \A i \in 0..n : f[i] = IF i = 0 THEN first ELSE f[i - 1] \o StringBytes(items[i])
    <3> HIDE DEF n
    <3> SUFFICES ASSUME NEW i \in 0..n, i # 0
                 PROVE  f[i] = f[i - 1] \o StringBytes(items[i])
        BY <2>1
    <3>1. i \in 1..n
      BY <1>1
    <3> QED
      BY <1>5, <3>1
  <2> QED
    BY <2>2, <2>3 DEF ItemTurns, first
<1>7. made = ItemTurns(items, made)
  <2>1. made = CHOOSE m : m = ItemTurns(items, m)
    BY DEF ListMade, ItemTurns
  <2> QED
    BY <1>6, <2>1
<1> HIDE DEF made, step
<1>8. made[0] = first /\ \A i \in 1..n : made[i] = made[i - 1] \o StringBytes(items[i])
  BY <1>1, <1>7 DEF ItemTurns, first
<1> DEFINE T == {i \in 0..n : made[i] \in Seq(Byte)}
<1>9. 0..n \subseteq T
  <2>1. 0 \in T
    BY <1>1, <1>2, <1>8
  <2>2. ASSUME NEW i \in 1..n, i - 1 \in T PROVE i \in T
    <3>1. made[i - 1] \in Seq(Byte) /\ StringBytes(items[i]) \in Seq(Byte)
      BY <1>1, <2>2, StringLength
    <3>2. made[i] \in Seq(Byte)
      BY <1>8, <3>1, ConcatProperties
    <3> QED
      BY <1>1, <3>2
  <2> HIDE DEF T
  <2> QED
    BY <1>1, <2>1, <2>2, Upwards
<1> QED
  BY <1>8, <1>9 DEF made, first

\* All turns of the loop that reads the items.
ReadTurns(b, count, r) ==
    [i \in 0..count |->
        IF i = 0 THEN [ok |-> TRUE, at |-> 4, value |-> <<>>]
        ELSE ReadString(b, r[i - 1])]

\* The reader's state after each of them is defined.
LEMMA ListReadSteps ==
    ASSUME NEW b \in Seq(Byte), NEW count \in Nat
    PROVE  /\ ListRead(b, count)[0] = [ok |-> TRUE, at |-> 4, value |-> <<>>]
           /\ \A i \in 0..count : ListRead(b, count)[i] \in Reader
           /\ \A i \in 1..count :
                ListRead(b, count)[i] = ReadString(b, ListRead(b, count)[i - 1])
<1> DEFINE first == [ok |-> TRUE, at |-> 4, value |-> <<>>]
           step == [i \in Nat |-> [r \in Reader |-> ReadString(b, r)]]
           read == ListRead(b, count)
<1>2. first \in Reader
  BY EmptySeq DEF Reader
<1>3. step \in [Nat -> [Reader -> Reader]]
  BY ReadTyped
<1> HIDE DEF first
<1>4. PICK f : Iterates(Reader, first, step, count, f)
  <2> HIDE DEF step
  <2> QED
    BY <1>2, <1>3, Recursion
<1>5. ASSUME NEW i \in 1..count
      PROVE  f[i] = ReadString(b, f[i - 1])
  <2>1. i \in Nat /\ f[i - 1] \in Reader
    BY <1>4 DEF Iterates
  <2> QED
    BY <1>4, <2>1 DEF Iterates
<1>6. f = ReadTurns(b, count, f)
  BY <1>4, <1>5 DEF Iterates, ReadTurns, first
<1>7. read = ReadTurns(b, count, read)
  <2>1. read = CHOOSE r : r = ReadTurns(b, count, r)
    BY DEF ListRead, ReadTurns
  <2> QED
    BY <1>6, <2>1
<1> HIDE DEF read, step
<1>8. read[0] = first /\ \A i \in 1..count : read[i] = ReadString(b, read[i - 1])
  <2>1. read = [i \in 0..count |-> IF i = 0 THEN first ELSE ReadString(b, read[i - 1])]
    BY <1>7 DEF ReadTurns, first
  <2>2. \A i \in 0..count : read[i] = IF i = 0 THEN first ELSE ReadString(b, read[i - 1])
    BY <2>1
  <2>3. 0 \in 0..count /\ \A i \in 1..count : i \in 0..count /\ i # 0
    OBVIOUS
  <2> QED
    BY <2>2, <2>3
<1> DEFINE T == {i \in 0..count : read[i] \in Reader}
<1>9. 0..count \subseteq T
  <2>1. 0 \in T
    BY <1>2, <1>8
  <2>2. ASSUME NEW i \in 1..count, i - 1 \in T PROVE i \in T
    BY <1>8, <2>2, ReadTyped
  <2> HIDE DEF T
  <2> QED
    BY <2>1, <2>2, Upwards
<1> QED
  BY <1>8, <1>9 DEF read, first

\* A list.
LEMMA ListUnderstood ==
    ASSUME NEW items \in Seq(Text), Len(items) \in DWord
    PROVE  ParseList(ListBytes(items)) = [is |-> "list", items |-> items]
<1> DEFINE n == Len(items)
           made == ListMade(items)
           b == made[n]
           read == ListRead(b, n)
           s(i) == StringBytes(items[i])
<1>1. n \in Nat /\ n \in DWord /\ \A i \in 1..n : items[i] \in Text
  OBVIOUS
<1>2. /\ made[0] = DWordBytes(n)
      /\ \A i \in 0..n : made[i] \in Seq(Byte)
      /\ \A i \in 1..n : made[i] = made[i - 1] \o s(i)
  BY ListMadeSteps
<1>3. ASSUME NEW i \in 1..n
      PROVE  /\ s(i) \in Seq(Byte) /\ Len(items[i]) \in Nat /\ Len(s(i)) = 4 + Len(items[i])
             /\ made[i - 1] \in Seq(Byte) /\ made[i] \in Seq(Byte)
             /\ Len(made[i - 1]) \in Nat
             /\ Len(made[i]) = Len(made[i - 1]) + (4 + Len(items[i]))
  <2>1. i \in 0..n /\ i - 1 \in 0..n
    BY <1>1
  <2>2. s(i) \in Seq(Byte) /\ Len(items[i]) \in Nat /\ Len(s(i)) = 4 + Len(items[i])
    BY <1>1, StringLength
  <2> HIDE DEF made, s, n
  <2>3. made[i - 1] \in Seq(Byte) /\ made[i] \in Seq(Byte) /\ made[i] = made[i - 1] \o s(i)
    BY <1>2, <2>1
  <2>4. Len(made[i]) = Len(made[i - 1]) + Len(s(i)) /\ Len(made[i - 1]) \in Nat
    BY <2>2, <2>3, ConcatProperties, BytesOf
  <2> QED
    BY <2>2, <2>3, <2>4
<1>4. b \in Seq(Byte) /\ Len(b) \in Nat
  <2>1. n \in 0..n
    BY <1>1
  <2> HIDE DEF made
  <2> QED
    BY <1>2, <2>1, BytesOf
<1> HIDE DEF n, made, s
\* Every part made is at the front of the whole.
<1> DEFINE AtFront == {i \in 0..n : At(b, 0, made[i]) /\ Len(made[i]) <= Len(b)}
<1>5. 0..n \subseteq AtFront
  <2>1. n \in AtFront
    <3> DEFINE u == b
    <3> HIDE DEF u
    <3>1. At(u, 0, u)
      BY <1>4, AtWhole DEF u
    <3> QED
      BY <1>1, <1>4, <3>1 DEF u
  <2>2. ASSUME NEW i \in 1..n, i \in AtFront PROVE i - 1 \in AtFront
    <3> HIDE DEF b
    <3>1. At(b, 0, made[i - 1] \o s(i)) /\ Len(made[i]) <= Len(b)
      BY <1>2, <2>2
    <3>2. At(b, 0, made[i - 1])
      BY <1>3, <3>1, AtJoin
    <3>3. Len(made[i - 1]) <= Len(b)
      <4>1. /\ Len(made[i - 1]) \in Nat /\ Len(items[i]) \in Nat
            /\ Len(made[i]) = Len(made[i - 1]) + (4 + Len(items[i]))
        BY <1>3
      <4>2. Len(made[i]) <= Len(b) /\ Len(b) \in Nat
        BY <1>4, <3>1
      <4>3. \A x, y, z \in Nat : x + (4 + y) <= z => x <= z
        OBVIOUS
      <4> DEFINE before == Len(made[i - 1])
                 after == Len(made[i])
                 all == Len(b)
                 k == Len(items[i])
      <4>4. /\ before \in Nat /\ k \in Nat /\ all \in Nat
            /\ after = before + (4 + k) /\ after <= all
        BY <4>1, <4>2
      <4> HIDE DEF before, after, all, k
      <4>5. before <= all
        BY <4>3, <4>4
      <4> QED
        BY <4>5 DEF before, all
    <3> QED
      BY <1>1, <3>2, <3>3
  <2> HIDE DEF AtFront
  <2> QED
    BY <1>1, <2>1, <2>2, Downwards
<1>6. \A i \in 0..n : At(b, 0, made[i]) /\ Len(made[i]) <= Len(b)
  BY <1>5
<1> HIDE DEF AtFront
<1>7. Len(made[0]) = 4 /\ 4 <= Len(b) /\ DWordAt(b, 0) = n
  <2>1. Len(made[0]) = 4
    BY <1>1, <1>2, DWordWritten
  <2>2. 0 \in 0..n
    BY <1>1
  <2> HIDE DEF b
  <2>3. At(b, 0, made[0]) /\ 4 <= Len(b)
    BY <1>6, <2>1, <2>2
  <2>4. \A i \in 1..4 : b[0 + i] = DWordBytes(n)[i]
    BY <1>2, <2>1, <2>3 DEF At
  <2>5. DWordAt(b, 0) = n
    BY <1>1, <2>4, DWordRead
  <2> QED
    BY <2>1, <2>3, <2>5
<1>8. /\ read[0] = [ok |-> TRUE, at |-> 4, value |-> <<>>]
      /\ \A i \in 0..n : read[i] \in Reader
      /\ \A i \in 1..n : read[i] = ReadString(b, read[i - 1])
  <2> HIDE DEF b
  <2> QED
    BY <1>1, <1>4, ListReadSteps
<1> HIDE DEF read, b
\* After each turn the reader is where the part ends.
<1>9. ASSUME NEW i \in 1..n,
             read[i - 1].ok = TRUE, read[i - 1].at = Len(made[i - 1])
      PROVE  read[i] = [ok |-> TRUE, at |-> Len(made[i]), value |-> items[i]]
  <2>1. i \in 0..n
    BY <1>1
  <2>2. At(b, 0, made[i - 1] \o s(i)) /\ Len(made[i]) <= Len(b)
    BY <1>2, <1>6, <2>1
  <2> DEFINE at == Len(made[i - 1])
  <2>3. at \in Nat /\ 0 + at = at
    BY <1>3
  <2>4. At(b, 0 + at, s(i))
    BY <1>3, <2>2, AtJoin
  <2> HIDE DEF at
  <2>5. At(b, at, StringBytes(items[i])) /\ at + (4 + Len(items[i])) <= Len(b)
    BY <1>3, <2>2, <2>3, <2>4 DEF s, at
  <2> DEFINE r == read[i - 1]
  <2>6. r.ok = TRUE /\ r.at = at
    BY <1>9 DEF at
  <2> HIDE DEF r
  <2>7. ReadString(b, r) = [ok |-> TRUE, at |-> at + (4 + Len(items[i])), value |-> items[i]]
    BY <1>1, <1>4, <2>3, <2>5, <2>6, ReadMade
  <2>8. at + (4 + Len(items[i])) = Len(made[i])
    BY <1>3 DEF at
  <2> QED
    BY <1>8, <2>7, <2>8 DEF r
<1> DEFINE Well == {i \in 0..n : read[i].ok = TRUE /\ read[i].at = Len(made[i])}
<1>10. 0..n \subseteq Well
  <2>1. 0 \in Well
    <3>1. read[0].ok = TRUE /\ read[0].at = 4
      BY <1>8
    <3>2. 0 \in 0..n
      BY <1>1
    <3> QED
      BY <1>7, <3>1, <3>2
  <2>2. ASSUME NEW i \in 1..n, i - 1 \in Well PROVE i \in Well
    <3>1. read[i] = [ok |-> TRUE, at |-> Len(made[i]), value |-> items[i]]
      BY <1>9, <2>2
    <3> QED
      BY <1>1, <3>1
  <2> HIDE DEF Well
  <2> QED
    BY <1>1, <2>1, <2>2, Upwards
<1>11. ASSUME NEW i \in 1..n PROVE read[i].value = items[i]
  <2>1. i - 1 \in Well
    BY <1>1, <1>10
  <2>2. read[i] = [ok |-> TRUE, at |-> Len(made[i]), value |-> items[i]]
    BY <1>9, <2>1
  <2> QED
    BY <2>2
<1>12. read[n].ok /\ read[n].at = Len(b)
  BY <1>1, <1>10 DEF b
<1>13. [i \in 1..n |-> read[i].value] = items
  <2>1. items = [i \in 1..n |-> items[i]]
    BY DEF n
  <2> QED
    BY <1>11, <2>1
<1>14. ParseList(b) = [is |-> "list", items |-> items]
  <2>1. read = ListRead(b, DWordAt(b, 0)) /\ ~(Len(b) < 4)
    BY <1>4, <1>7 DEF read
  <2> QED
    BY <1>7, <1>12, <1>13, <2>1 DEF ParseList, Exactly
<1> QED
  BY <1>14 DEF b, made, n, ListBytes

LEMMA ListMeant ==
    ASSUME NEW b \in Seq(Byte), ParseList(b) # Invalid
    PROVE  \E items \in Seq(Text) :
              /\ Len(items) \in DWord
              /\ ParseList(b) = [is |-> "list", items |-> items]
              /\ b = ListBytes(items)
<1> DEFINE n == DWordAt(b, 0)
           read == ListRead(b, n)
           items == [i \in 1..n |-> read[i].value]
<1>1. /\ ~(Len(b) < 4) /\ read[n].ok /\ read[n].at = Len(b)
      /\ ParseList(b) = [is |-> "list", items |-> items]
  BY DEF ParseList, Exactly
<1>2. /\ n \in DWord /\ n \in Nat
      /\ DWordBytes(n) = <<b[0 + 1], b[0 + 2], b[0 + 3], b[0 + 4]>>
  <2>1. Len(b) \in Nat /\ \A i \in 1..Len(b) : b[i] \in Byte
    BY BytesOf
  <2>2. \A i \in 1..4 : 0 + i \in 1..Len(b)
    BY <1>1, <2>1
  <2>3. \A i \in 1..4 : b[0 + i] \in Byte
    BY <2>1, <2>2
  <2> QED
    BY <2>3, DWordRewritten DEF DWord
<1> HIDE DEF n
<1>3. /\ read[0] = [ok |-> TRUE, at |-> 4, value |-> <<>>]
      /\ \A i \in 0..n : read[i] \in Reader
      /\ \A i \in 1..n : read[i] = ReadString(b, read[i - 1])
  BY <1>2, ListReadSteps
<1> HIDE DEF read
\* No turn failed, as the last did not.
<1>4. ASSUME NEW i \in 1..n, read[i].ok = TRUE
      PROVE  /\ read[i - 1].ok = TRUE
             /\ read[i].value \in Text
             /\ read[i].at = read[i - 1].at + (4 + Len(read[i].value))
             /\ At(b, read[i - 1].at, StringBytes(read[i].value))
  <2> DEFINE r == read[i - 1]
             text == read[i].value
  <2>1. i - 1 \in 0..n
    BY <1>2
  <2>2. r \in Reader /\ read[i] = ReadString(b, r)
    BY <1>3, <2>1
  <2>3. ReadString(b, r).ok = TRUE /\ text = ReadString(b, r).value
    BY <1>4, <2>2
  <2> HIDE DEF r, text
  <2>4. /\ r.ok = TRUE /\ text \in Text
        /\ ReadString(b, r).at = r.at + (4 + Len(text))
        /\ At(b, r.at, StringBytes(text))
    BY <2>2, <2>3, ReadMeans
  <2> QED
    BY <2>2, <2>4 DEF r, text
<1> DEFINE Well == {i \in 0..n : read[i].ok = TRUE}
<1>5. 0..n \subseteq Well
  <2>1. n \in Well
    BY <1>1, <1>2, <1>3 DEF Reader
  <2>2. ASSUME NEW i \in 1..n, i \in Well PROVE i - 1 \in Well
    <3>1. read[i - 1].ok = TRUE
      BY <1>4, <2>2
    <3>2. i - 1 \in 0..n
      BY <1>2
    <3> QED
      BY <3>1, <3>2
  <2> HIDE DEF Well
  <2> QED
    BY <1>2, <2>1, <2>2, Downwards
<1>6. ASSUME NEW i \in 1..n
      PROVE  /\ read[i].value \in Text
             /\ read[i].at = read[i - 1].at + (4 + Len(read[i].value))
             /\ At(b, read[i - 1].at, StringBytes(read[i].value))
  <2>1. i \in 0..n
    BY <1>2
  <2>2. read[i].ok = TRUE
    BY <1>5, <2>1
  <2> QED
    BY <1>4, <2>2
<1> HIDE DEF Well
<1>7. items \in Seq(Text) /\ Len(items) = n /\ \A i \in 1..n : items[i] = read[i].value
  BY <1>2, <1>6
<1> DEFINE made == ListMade(items)
<1> HIDE DEF items
<1>8. /\ made[0] = DWordBytes(n)
      /\ \A i \in 0..n : made[i] \in Seq(Byte)
      /\ \A i \in 1..n : made[i] = made[i - 1] \o StringBytes(items[i])
  BY <1>7, ListMadeSteps
<1> HIDE DEF made
\* The reader is where the part made ends.
<1> DEFINE ReadSoFar == {i \in 0..n : Len(made[i]) = read[i].at /\ At(b, 0, made[i])}
<1>9. 0..n \subseteq ReadSoFar
  <2>1. 0 \in ReadSoFar
    <3>1. Len(made[0]) = 4
      BY <1>2, <1>8, DWordWritten
    <3>2. At(b, 0, made[0])
      BY <1>2, <1>8, <3>1 DEF At
    <3>3. read[0].at = 4 /\ 0 \in 0..n
      BY <1>2, <1>3
    <3> QED
      BY <3>1, <3>2, <3>3
  <2>2. ASSUME NEW i \in 1..n, i - 1 \in ReadSoFar PROVE i \in ReadSoFar
    <3> DEFINE m == made[i - 1]
               s == StringBytes(items[i])
    <3>1. i - 1 \in 0..n /\ i \in 0..n
      BY <1>2
    <3>2. m \in Seq(Byte) /\ Len(m) = read[i - 1].at /\ At(b, 0, m) /\ made[i] = m \o s
      BY <1>8, <2>2, <3>1
    <3>3. items[i] \in Text /\ items[i] = read[i].value
      BY <1>6, <1>7
    <3>4. s \in Seq(Byte) /\ Len(s) = 4 + Len(items[i])
      BY <3>3, StringLength
    <3>5. read[i].at = Len(m) + Len(s) /\ At(b, Len(m), s)
      BY <1>6, <3>2, <3>3, <3>4
    <3> HIDE DEF m, s
    <3>6. Len(m) \in Nat /\ 0 + Len(m) = Len(m)
      BY <3>2, BytesOf
    <3>7. At(b, 0, m \o s)
      BY <3>2, <3>4, <3>5, <3>6, AtJoin
    <3>8. Len(m \o s) = Len(m) + Len(s)
      BY <3>2, <3>4, ConcatProperties
    <3> QED
      BY <3>1, <3>2, <3>5, <3>7, <3>8
  <2> HIDE DEF ReadSoFar
  <2> QED
    BY <1>2, <2>1, <2>2, Upwards
<1>10. b = made[n]
  <2>1. n \in 0..n
    BY <1>2
  <2>2. made[n] \in Seq(Byte) /\ Len(b) = Len(made[n]) /\ At(b, 0, made[n])
    BY <1>1, <1>8, <1>9, <2>1
  <2> DEFINE u == made[n]
  <2> HIDE DEF u
  <2>3. b = u
    BY <2>2, AtWhole DEF u
  <2> QED
    BY <2>3 DEF u
<1>11. b = ListBytes(items)
  BY <1>7, <1>10 DEF made, ListBytes
<1> QED
  BY <1>1, <1>2, <1>7, <1>11

-----------------------------------------------------------------------------
(* Every payload.                                                           *)

\* No command is of two kinds.
LEMMA Distinct ==
    /\ \A c \in StringCommands :
        c \notin ChatCommands \cup ListCommands \cup FileCommands \cup DataCommands
    /\ \A c \in ChatCommands :
        c \notin StringCommands \cup ListCommands \cup FileCommands \cup DataCommands
    /\ \A c \in ListCommands :
        c \notin StringCommands \cup ChatCommands \cup FileCommands \cup DataCommands
    /\ \A c \in FileCommands :
        c \notin StringCommands \cup ChatCommands \cup ListCommands \cup DataCommands
    /\ \A c \in DataCommands :
        c \notin StringCommands \cup ChatCommands \cup ListCommands \cup FileCommands
BY DEF StringCommands, ChatCommands, ListCommands, FileCommands, DataCommands

\* Which function parses the payload of which command,
LEMMA ParsedBy ==
    ASSUME NEW b
    PROVE  /\ \A c \in StringCommands : ParsePayload(c, b) = ParseString(b)
           /\ \A c \in ChatCommands : ParsePayload(c, b) = ParseChat(b)
           /\ \A c \in ListCommands : ParsePayload(c, b) = ParseList(b)
           /\ \A c \in FileCommands : ParsePayload(c, b) = ParseFileBegin(b)
           /\ \A c \in DataCommands : ParsePayload(c, b) = [is |-> "data", bytes |-> b]
BY Distinct, Zenon DEF ParsePayload

\* and which makes it.
LEMMA MadeBy ==
    ASSUME NEW body
    PROVE  /\ body.is = "string" => MakePayload(body) = StringBytes(body.text)
           /\ body.is = "chat" => MakePayload(body) = ChatBytes(body.sender, body.message)
           /\ body.is = "list" => MakePayload(body) = ListBytes(body.items)
           /\ body.is = "file" => MakePayload(body) = FileBeginBytes(body.name, body.size)
           /\ body.is = "data" => MakePayload(body) = body.bytes
BY Zenon DEF MakePayload

\* Whatever the server says, the client understands, and as it was meant.
THEOREM PayloadsUnderstood == \A m \in AnyMessage : Understood(Made(m)) = m
<1> SUFFICES ASSUME NEW m \in AnyMessage PROVE Understood(Made(m)) = m
    OBVIOUS
<1>1. CASE m \in [cmd : StringCommands, body : [is : {"string"}, text : Text]]
  <2>1. PICK c \in StringCommands, text \in Text :
          m = [cmd |-> c, body |-> [is |-> "string", text |-> text]]
    BY <1>1
  <2>2. Made(m) = [cmd |-> c, payload |-> StringBytes(text)]
    BY <2>1, MadeBy DEF Made
  <2>3. ParsePayload(c, StringBytes(text)) = [is |-> "string", text |-> text]
    BY StringUnderstood, ParsedBy
  <2> QED
    BY <2>1, <2>2, <2>3 DEF Understood
<1>2. CASE m \in [cmd : ChatCommands, body : [is : {"chat"}, sender : Text, message : Text]]
  <2>1. PICK c \in ChatCommands, sender \in Text, message \in Text :
          m = [cmd |-> c, body |-> [is |-> "chat", sender |-> sender, message |-> message]]
    BY <1>2
  <2>2. Made(m) = [cmd |-> c, payload |-> ChatBytes(sender, message)]
    BY <2>1, MadeBy DEF Made
  <2>3. ParsePayload(c, ChatBytes(sender, message))
          = [is |-> "chat", sender |-> sender, message |-> message]
    BY ChatUnderstood, ParsedBy
  <2> QED
    BY <2>1, <2>2, <2>3 DEF Understood
<1>3. CASE m \in [cmd : ListCommands,
                  body : [is : {"list"}, items : {items \in Seq(Text) : Len(items) \in DWord}]]
  <2>1. PICK c \in ListCommands, items \in Seq(Text) :
          /\ Len(items) \in DWord
          /\ m = [cmd |-> c, body |-> [is |-> "list", items |-> items]]
    BY <1>3
  <2>2. Made(m) = [cmd |-> c, payload |-> ListBytes(items)]
    BY <2>1, MadeBy DEF Made
  <2>3. ParsePayload(c, ListBytes(items)) = [is |-> "list", items |-> items]
    BY <2>1, ListUnderstood, ParsedBy
  <2> QED
    BY <2>1, <2>2, <2>3 DEF Understood
<1>4. CASE m \in [cmd : FileCommands, body : [is : {"file"}, name : Text, size : QWord]]
  <2>1. PICK c \in FileCommands, name \in Text, size \in QWord :
          m = [cmd |-> c, body |-> [is |-> "file", name |-> name, size |-> size]]
    BY <1>4
  <2>2. Made(m) = [cmd |-> c, payload |-> FileBeginBytes(name, size)]
    BY <2>1, MadeBy DEF Made
  <2>3. ParsePayload(c, FileBeginBytes(name, size))
          = [is |-> "file", name |-> name, size |-> size]
    BY FileUnderstood, ParsedBy
  <2> QED
    BY <2>1, <2>2, <2>3 DEF Understood
<1>5. CASE m \in [cmd : DataCommands, body : [is : {"data"}, bytes : Seq(Byte)]]
  <2>1. PICK c \in DataCommands, bytes \in Seq(Byte) :
          m = [cmd |-> c, body |-> [is |-> "data", bytes |-> bytes]]
    BY <1>5
  <2>2. Made(m) = [cmd |-> c, payload |-> bytes]
    BY <2>1, MadeBy DEF Made
  <2>3. ParsePayload(c, bytes) = [is |-> "data", bytes |-> bytes]
    BY ParsedBy
  <2> QED
    BY <2>1, <2>2, <2>3 DEF Understood
<1> QED
  BY <1>1, <1>2, <1>3, <1>4, <1>5 DEF AnyMessage

\* And what it understands was meant: a payload that is parsed is the one that
\* was made of what is parsed, without a byte too few or too many.
THEOREM NothingElseUnderstood ==
    \A cmd \in Commands, b \in Seq(Byte) :
        LET body == ParsePayload(cmd, b)
        IN  body = Invalid \/ ([cmd |-> cmd, body |-> body] \in AnyMessage
                               /\ MakePayload(body) = b)
<1> SUFFICES ASSUME NEW cmd \in Commands, NEW b \in Seq(Byte),
                    ParsePayload(cmd, b) # Invalid
             PROVE  /\ [cmd |-> cmd, body |-> ParsePayload(cmd, b)] \in AnyMessage
                    /\ MakePayload(ParsePayload(cmd, b)) = b
    OBVIOUS
<1>1. CASE cmd \in StringCommands
  <2>1. ParsePayload(cmd, b) = ParseString(b)
    BY <1>1, ParsedBy
  <2>2. PICK text \in Text :
          ParseString(b) = [is |-> "string", text |-> text] /\ b = StringBytes(text)
    BY <2>1, StringMeant
  <2>3. MakePayload(ParsePayload(cmd, b)) = b
    BY <2>1, <2>2, MadeBy
  <2> QED
    BY <1>1, <2>1, <2>2, <2>3 DEF AnyMessage
<1>2. CASE cmd \in ChatCommands
  <2>1. ParsePayload(cmd, b) = ParseChat(b)
    BY <1>2, ParsedBy
  <2>2. PICK sender \in Text, message \in Text :
          /\ ParseChat(b) = [is |-> "chat", sender |-> sender, message |-> message]
          /\ b = ChatBytes(sender, message)
    BY <2>1, ChatMeant
  <2>3. MakePayload(ParsePayload(cmd, b)) = b
    BY <2>1, <2>2, MadeBy
  <2> QED
    BY <1>2, <2>1, <2>2, <2>3 DEF AnyMessage
<1>3. CASE cmd \in ListCommands
  <2>1. ParsePayload(cmd, b) = ParseList(b)
    BY <1>3, ParsedBy
  <2>2. PICK items \in Seq(Text) :
          /\ Len(items) \in DWord
          /\ ParseList(b) = [is |-> "list", items |-> items]
          /\ b = ListBytes(items)
    BY <2>1, ListMeant
  <2>3. MakePayload(ParsePayload(cmd, b)) = b
    BY <2>1, <2>2, MadeBy
  <2> QED
    BY <1>3, <2>1, <2>2, <2>3 DEF AnyMessage
<1>4. CASE cmd \in FileCommands
  <2>1. ParsePayload(cmd, b) = ParseFileBegin(b)
    BY <1>4, ParsedBy
  <2>2. PICK name \in Text, size \in QWord :
          /\ ParseFileBegin(b) = [is |-> "file", name |-> name, size |-> size]
          /\ b = FileBeginBytes(name, size)
    BY <2>1, FileMeant
  <2>3. MakePayload(ParsePayload(cmd, b)) = b
    BY <2>1, <2>2, MadeBy
  <2> QED
    BY <1>4, <2>1, <2>2, <2>3 DEF AnyMessage
<1>5. CASE cmd \in DataCommands
  <2>1. ParsePayload(cmd, b) = [is |-> "data", bytes |-> b]
    BY <1>5, ParsedBy
  <2>2. MakePayload(ParsePayload(cmd, b)) = b
    BY <2>1, MadeBy
  <2> QED
    BY <1>5, <2>1, <2>2 DEF AnyMessage
<1> QED
  BY <1>1, <1>2, <1>3, <1>4, <1>5 DEF Commands

-----------------------------------------------------------------------------
(* The conversation.                                                        *)

\* The client understands of a packet what the server meant by it.
LEMMA MeansUnderstood == \A p \in Packets : Meant[p] = Understood(p)
<1> SUFFICES ASSUME NEW p \in Packets PROVE Meant[p] = Understood(p)
    OBVIOUS
<1>1. CASE \E m \in Messages : Made(m) = p
  <2>1. PICK m \in Messages : Made(m) = p /\ Meant[p] = m
    BY <1>1, Zenon DEF Meant
  <2>2. m \in AnyMessage
    BY MessageAssumption DEF MessageAssumption
  <2> QED
    BY <2>1, <2>2, PayloadsUnderstood
<1>2. CASE ~\E m \in Messages : Made(m) = p
  <2> DEFINE body == ParsePayload(p.cmd, p.payload)
  <2>1. Meant[p] = [cmd |-> p.cmd, body |-> Invalid]
    BY <1>2, Zenon DEF Meant
  <2>2. Understood(p) = [cmd |-> p.cmd, body |-> body]
    BY DEF Understood
  <2>3. /\ p.cmd \in Commands
        /\ Understood(p).body # Invalid => Understood(p) \in Messages
    BY MessageAssumption DEF MessageAssumption
  <2>4. p = [cmd |-> p.cmd, payload |-> p.payload] /\ p.payload \in Seq(Byte)
    BY PacketParts DEF AnyPacket
  <2> HIDE DEF body
  <2>5. ASSUME body # Invalid PROVE FALSE
    <3>1. Understood(p) \in Messages
      BY <2>2, <2>3, <2>5
    <3>2. MakePayload(body) = p.payload
      BY <2>3, <2>4, <2>5, NothingElseUnderstood DEF body
    <3>3. Made(Understood(p)) = p
      BY <2>2, <2>4, <3>2 DEF Made
    <3> QED
      BY <1>2, <3>1, <3>3
  <2> QED
    BY <2>1, <2>2, <2>5
<1> QED
  BY <1>1, <1>2

\* A sequence with f applied to each element.
Each(f, s) == [i \in DOMAIN s |-> f[s[i]]]

LEMMA EachElement ==
    ASSUME NEW S, NEW s \in Seq(S), NEW f
    PROVE  /\ Len(Each(f, s)) = Len(s)
           /\ \A i \in 1..Len(s) : Each(f, s)[i] = f[s[i]]
<1> DEFINE T == {f[x] : x \in S}
<1>1. Each(f, s) = [i \in 1..Len(s) |-> f[s[i]]]
  BY DEF Each
<1>2. Each(f, s) \in Seq(T)
  BY <1>1
<1> QED
  BY <1>1, <1>2

LEMMA EachAppend ==
    ASSUME NEW S, NEW s \in Seq(S), NEW x \in S, NEW f
    PROVE  Each(f, Append(s, x)) = Append(Each(f, s), f[x])
<1> DEFINE T == {f[y] : y \in S}
           n == Len(s)
           e == Each(f, s)
           t == Append(s, x)
<1>1. n \in Nat /\ DOMAIN s = 1..n /\ \A i \in 1..n : s[i] \in S
  OBVIOUS
<1>2. /\ DOMAIN t = 1..(n + 1) /\ t[n + 1] = x
      /\ \A i \in 1..n : t[i] = s[i]
  OBVIOUS
<1> HIDE DEF t, n
<1>3. e = [i \in 1..n |-> f[s[i]]]
  BY <1>1 DEF Each
<1>4. e \in Seq(T) /\ Len(e) = n /\ \A i \in 1..n : e[i] = f[s[i]]
  BY <1>1, <1>3
<1>5. Each(f, t) = [i \in 1..(n + 1) |-> f[t[i]]]
  BY <1>2 DEF Each
<1> HIDE DEF e
<1>6. Append(e, f[x]) = [i \in 1..(n + 1) |-> IF i <= n THEN e[i] ELSE f[x]]
  BY <1>1, <1>4
<1>7. ASSUME NEW i \in 1..(n + 1) PROVE f[t[i]] = IF i <= n THEN e[i] ELSE f[x]
  <2>1. CASE i <= n
    <3>1. i \in 1..n
      BY <1>1, <2>1
    <3> QED
      BY <1>2, <1>4, <2>1, <3>1
  <2>2. CASE ~(i <= n)
    <3>1. i = n + 1
      BY <1>1, <2>2
    <3> QED
      BY <1>2, <2>2, <3>1
  <2> QED
    BY <2>1, <2>2
<1>8. Each(f, t) = Append(e, f[x])
  BY <1>5, <1>6, <1>7
<1> QED
  BY <1>8 DEF e, t

\* What the client understands, as a function on packets.
Understanding == [p \in AnyPacket |-> Understood(p)]

\* The variables of the conversation are made from those of the stream.
LEMMA ConversationStates ==
    ASSUME NEW s, NEW d \in Seq(AnyPacket)
    PROVE  /\ [i \in DOMAIN s |-> Meant[s[i]]] = Each(Meant, s)
           /\ [i \in DOMAIN d |-> Understood(d[i])] = Each(Understanding, d)
<1>1. \A i \in DOMAIN d : Understood(d[i]) = Understanding[d[i]]
  <2>1. \A i \in DOMAIN d : d[i] \in AnyPacket
    OBVIOUS
  <2> QED
    BY <2>1 DEF Understanding
<1> QED
  BY <1>1 DEF Each

\* Each step of the channel is one of the conversation.
LEMMA NextConversation ==
    ASSUME TypeOK, TypeOK', [Packet!ChannelNext]_(Packet!channelVars)
    PROVE  [Conversation!ChannelNext]_(Conversation!channelVars)
<1>1. sent \in Seq(Packets) /\ delivered \in Seq(AnyPacket)
  BY DEF TypeOK
<1>2. delivered' \in Seq(AnyPacket)
  BY DEF TypeOK
<1>3. /\ [i \in DOMAIN sent |-> Meant[sent[i]]] = Each(Meant, sent)
      /\ [i \in DOMAIN delivered |-> Understood(delivered[i])] = Each(Understanding, delivered)
  BY <1>1, ConversationStates
<1>4. /\ [i \in DOMAIN sent' |-> Meant[sent'[i]]] = Each(Meant, sent')
      /\ [i \in DOMAIN delivered' |-> Understood(delivered'[i])] = Each(Understanding, delivered')
  BY <1>2, ConversationStates
<1>5. CASE UNCHANGED <<sent, delivered>>
  BY <1>3, <1>4, <1>5 DEF Conversation!channelVars
<1>6. ASSUME NEW p \in Packets, Packet!Put(p)
      PROVE  \E m \in Range(Meant) : Conversation!Put(m)
  <2>1. sent' = Append(sent, p) /\ Len(sent) < MaxPackets /\ delivered' = delivered
    BY <1>6 DEF Packet!Put
  <2>2. Each(Meant, sent') = Append(Each(Meant, sent), Meant[p]) /\ Len(Each(Meant, sent)) = Len(sent)
    BY <1>1, <2>1, EachAppend, EachElement
  <2>3. Meant[p] \in Range(Meant)
    BY DEF Range, Meant
  <2>4. Conversation!Put(Meant[p])
    BY <1>3, <1>4, <2>1, <2>2 DEF Conversation!Put
  <2> QED
    BY <2>3, <2>4
<1>7. ASSUME Packet!Deliver PROVE Conversation!Deliver
  <2> DEFINE d == Len(delivered)
             p == sent[d + 1]
  <2>1. delivered' = Append(delivered, p) /\ d < Len(sent) /\ sent' = sent
    BY <1>7 DEF Packet!Deliver
  <2>2. d + 1 \in 1..Len(sent) /\ p \in Packets /\ p \in AnyPacket
    <3>1. d + 1 \in 1..Len(sent)
      BY <1>1, <2>1
    <3>2. p \in Packets
      BY <1>1, <3>1, ElementOfSeq
    <3> QED
      BY <3>1, <3>2, PacketParts
  <2> HIDE DEF p
  <2>3. /\ Each(Understanding, delivered') = Append(Each(Understanding, delivered), Understanding[p])
        /\ Len(Each(Understanding, delivered)) = d
    BY <1>1, <2>1, <2>2, EachAppend, EachElement
  <2>4. /\ Len(Each(Meant, sent)) = Len(sent)
        /\ Each(Meant, sent)[d + 1] = Meant[sent[d + 1]]
    BY <1>1, <2>2, EachElement
  <2>5. Understanding[p] = Each(Meant, sent)[d + 1]
    BY <2>2, <2>4, MeansUnderstood DEF Understanding, p
  <2> QED
    BY <1>3, <1>4, <2>1, <2>3, <2>4, <2>5 DEF Conversation!Deliver
<1>8. CASE Packet!ChannelNext
  BY <1>6, <1>7, <1>8 DEF Packet!ChannelNext, Conversation!ChannelNext
<1> QED
  BY <1>5, <1>8 DEF Packet!channelVars

\* It begins with nothing said.
LEMMA InitConversation == Init => Conversation!ChannelInit
<1> SUFFICES ASSUME Init PROVE Conversation!ChannelInit
    OBVIOUS
<1>1. sent = <<>> /\ delivered = <<>>
  BY DEF Init
<1>2. \A f : Each(f, <<>>) = <<>>
  BY DEF Each
<1>3. delivered \in Seq(AnyPacket)
  BY InitTyped DEF TypeOK
<1> QED
  BY <1>1, <1>2, <1>3, ConversationStates DEF Conversation!ChannelInit

\* From what the server means to what the client understands, through make,
\* serialize, recv, tryParse and parse: each message once, in order, and of a
\* packet that is no message, that it is none. (That the client comes to know
\* all of them is a matter of fairness.)
THEOREM StreamImplementsConversation ==
    ~Damage => (Spec => /\ Conversation!ChannelInit
                        /\ [][Conversation!ChannelNext]_(Conversation!channelVars))
<1> SUFFICES ASSUME ~Damage
             PROVE  Spec => /\ Conversation!ChannelInit
                            /\ [][Conversation!ChannelNext]_(Conversation!channelVars)
    OBVIOUS
<1>1. Init /\ [][Next]_vars => []StreamInv
  BY StreamStays
<1>2. Init => Conversation!ChannelInit
  BY InitConversation
<1>3. StreamInv /\ [Next]_vars => [Conversation!ChannelNext]_(Conversation!channelVars)
  <2> SUFFICES ASSUME StreamInv, [Next]_vars
               PROVE  [Conversation!ChannelNext]_(Conversation!channelVars)
      OBVIOUS
  <2>1. StreamInv' /\ [Packet!ChannelNext]_(Packet!channelVars)
    BY NextStream
  <2>2. TypeOK /\ TypeOK'
    BY <2>1 DEF StreamInv
  <2> QED
    BY <2>1, <2>2, NextConversation
<1> QED
  BY <1>1, <1>2, <1>3, PTL DEF Spec
=============================================================================
