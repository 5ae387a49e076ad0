-------------------------- MODULE PcapReader_proofs --------------------------
(***************************************************************************)
(* Proofs about the trace reader, for every file, byte order and           *)
(* resolution.                                                             *)
(***************************************************************************)
EXTENDS PcapReader, Arithmetic_proofs

-----------------------------------------------------------------------------
(* Byte orders.                                                            *)

\* Quotient and remainder of a number given by them.
LEMMA Digits ==
    ASSUME NEW d \in Nat \ {0}, NEW q \in Nat, NEW r \in 0 .. d - 1
    PROVE  (r + d * q) \div d = q /\ (r + d * q) % d = r
<1> DEFINE a == r + d * q
<1>1. d * q = q * d /\ q * d \in Nat /\ r \in Nat
  OBVIOUS
<1>2. a \in Nat /\ q * d <= a /\ a < q * d + d
  BY <1>1
<1> HIDE DEF a
<1>3. a \div d = q
  BY <1>2, DivisionUnique
<1>4. a = q * d + (a % d) /\ a % d \in 0 .. d - 1
  BY <1>2, <1>3, RemainderBounds
<1>5. a = q * d + r
  BY <1>1 DEF a
<1>6. a % d = r
  BY <1>1, <1>4, <1>5
<1> QED  BY <1>3, <1>6 DEF a

\* A number below d, and one below e, make a number below d * e.
LEMMA DigitBounds ==
    ASSUME NEW d \in Nat \ {0}, NEW e \in Nat \ {0},
           NEW r \in 0 .. d - 1, NEW q \in 0 .. e - 1
    PROVE  r + d * q \in 0 .. d * e - 1
<1>1. d * q \in Nat /\ d * e \in Nat
  OBVIOUS
<1>2. PICK k \in Nat : e = q + 1 + k
  <2>1. e - q - 1 \in Nat
    OBVIOUS
  <2> QED  BY <2>1
<1>3. d * e = d * q + d + d * k /\ d * k \in Nat
  BY <1>2
<1> QED  BY <1>1, <1>3

\* Reading a word yields a natural number.
LEMMA ReadType ==
    ASSUME NEW word \in Words
    PROVE  Read(word) \in Nat
<1>1. Base \in Nat /\ \A k \in 1 .. 4 : word[k] \in Nat
  BY NumbersAssumption DEF Words, Bytes
<1>2. \A x, y \in Nat : x + Base * y \in Nat
  BY <1>1
<1>3. word[3] + Base * word[4] \in Nat
  BY <1>1, <1>2
<1>4. word[2] + Base * (word[3] + Base * word[4]) \in Nat
  BY <1>1, <1>2, <1>3
<1>5. word[1] + Base * (word[2] + Base * (word[3] + Base * word[4])) \in Nat
  BY <1>1, <1>2, <1>4
<1> QED  BY <1>5 DEF Read

\* swap_bytes32 reads the bytes of a word in the opposite order
\* (PacketParser.h).
LEMMA SwapReverses ==
    ASSUME NEW word \in Words
    PROVE  swap_bytes32(Read(word)) = Read([k \in 1 .. 4 |-> word[5 - k]])
<1> DEFINE B == Base
           a == word[1]
           b == word[2]
           c == word[3]
           d == word[4]
           v == Read(word)
<1>1. /\ B \in Nat \ {0}
      /\ a \in 0 .. B - 1
      /\ b \in 0 .. B - 1
      /\ c \in 0 .. B - 1
      /\ d \in 0 .. B - 1
  BY NumbersAssumption DEF Words, Bytes
<1>2. v = a + B * (b + B * (c + B * d))
  BY DEF Read
<1>3. Read([k \in 1 .. 4 |-> word[5 - k]]) = d + B * (c + B * (b + B * a))
  BY DEF Read
<1> HIDE DEF B, a, b, c, d, v
<1>4. /\ B * d \in Nat /\ B * a \in Nat
      /\ c + B * d \in Nat /\ B * (c + B * d) \in Nat
      /\ b + B * (c + B * d) \in Nat
      /\ B * (b + B * (c + B * d)) \in Nat
  <2>1. \A x, y \in Nat : x + y \in Nat /\ x * y \in Nat
    OBVIOUS
  <2>2. a \in Nat /\ b \in Nat /\ c \in Nat /\ d \in Nat /\ B \in Nat
    BY <1>1
  <2> QED  BY <2>1, <2>2
<1>5. v % B = a
  BY <1>1, <1>2, <1>4, Digits
<1>6. v \div B = b + B * (c + B * d)
  BY <1>1, <1>2, <1>4, Digits
<1>7. (v \div B) % B = b
  <2> DEFINE q == c + B * d
  <2>1. q \in Nat /\ v \div B = b + B * q
    BY <1>4, <1>6
  <2> HIDE DEF q
  <2>2. (b + B * q) % B = b
    BY <1>1, <2>1, Digits
  <2> QED  BY <2>1, <2>2
<1>8. (v \div (B * B)) = c + B * d
  <2> DEFINE S == B * B
             low == a + B * b
             high == c + B * d
  <2>1. S \in Nat \ {0} /\ low \in 0 .. S - 1
    BY <1>1, DigitBounds
  <2>2. v = low + S * high
    BY <1>1, <1>2
  <2> HIDE DEF S, low, high
  <2>3. high \in Nat
    BY <1>4 DEF high
  <2>4. v \div S = high
    BY <2>1, <2>2, <2>3, Digits
  <2> QED  BY <2>4 DEF S, high
<1>9. (v \div (B * B)) % B = c
  <2>1. (c + B * d) % B = c
    BY <1>1, Digits
  <2> QED  BY <1>8, <2>1
<1>10. v \div (B * B * B) = d
  <2> DEFINE S == B * B
             T == S * B
             low == (a + B * b) + S * c
  <2>1. S \in Nat \ {0} /\ a + B * b \in 0 .. S - 1
    BY <1>1, DigitBounds
  <2>2. T \in Nat \ {0}
    <3> HIDE DEF S
    <3> QED  BY <1>1, <2>1
  <2>3. low \in 0 .. T - 1
    <3> HIDE DEF S
    <3> QED  BY <1>1, <2>1, DigitBounds
  <2>4. v = low + T * d
    BY <1>1, <1>2
  <2> HIDE DEF T, low
  <2>5. v \div T = d
    BY <1>1, <2>2, <2>3, <2>4, Digits
  <2> QED  BY <2>5 DEF S, T
<1>11. swap_bytes32(v) = a * (B * B * B) + b * (B * B) + c * B + d
  BY <1>5, <1>7, <1>9, <1>10 DEF swap_bytes32, Place, B
<1>12. d + B * (c + B * (b + B * a)) = a * (B * B * B) + b * (B * B) + c * B + d
  BY <1>1
<1> QED  BY <1>3, <1>11, <1>12 DEF v

\* A field is read as its writer meant it.
LEMMA FieldIsMeant ==
    ASSUME NEW word \in Words
    PROVE  Field(word) = Meant(word) /\ Field(word) \in Nat
<1>1. [k \in 1 .. 4 |-> word[5 - k]] \in Words
  BY DEF Words
<1> QED  BY <1>1, SwapReverses, ReadType DEF Field, Meant, is_big_endian

-----------------------------------------------------------------------------
(* The invariant.                                                          *)

\* The wanted records before the file position.
WantedBefore(n) == {k \in Wanted : k < n}

\* packets holds one packet for each record in W, in some order.
Holds(s, W) ==
    \E origin \in Bijection(DOMAIN s, W) :
        \A k \in DOMAIN s :
            s[k] = [flow |-> trace.records[origin[k]].data,
                    timestamp |-> MeantTime(trace.records[origin[k]])]

LastIllegal == ~LegalLength(trace.records[Len(trace.records)])

\* The packets read so far are those of the wanted records before the file
\* position.  A reader that has passed the last record of a file cut off in
\* that record's data has found it to have no legal length.
IInv ==
    /\ TypeOK
    /\ phase = "open" => packets = <<>> /\ next = 1
    /\ phase \in {"reading", "closed", "done"} =>
          /\ trace.end \in {"whole", "packet header", "packet data"}
          /\ Holds(packets, WantedBefore(next))
          /\ next > Len(trace.records) /\ trace.end = "packet data" => LastIllegal
    /\ phase \in {"closed", "done"} => ~HeaderRead
    /\ phase = "done" => Sorted(packets)

\* What the assumptions say of the file that is read.
LEMMA TraceFacts ==
    ASSUME trace \in Traces
    PROVE  /\ trace.records \in Seq(Records)
           /\ Len(trace.records) \in Nat
           /\ DOMAIN trace.records = 1 .. Len(trace.records)
           /\ trace.end \in Ends
           /\ trace.end \in {"packet header", "packet data"} => Len(trace.records) > 0
<1> DEFINE r == trace.records
           cut == trace.end \in {"packet header", "packet data"}
<1>1. r \in Seq(Records) /\ trace.end \in Ends /\ (cut => r # <<>>)
  BY TracesAssumption
<1> HIDE DEF r, cut
<1>2. Len(r) \in Nat /\ DOMAIN r = 1 .. Len(r) /\ (cut => Len(r) > 0)
  BY <1>1
<1> QED  BY <1>1, <1>2 DEF r, cut

\* The reader passes over exactly the records without a legal length, and
\* gives the others the time that their writer meant.
LEMMA RecordRead ==
    ASSUME NEW record \in Records
    PROVE  /\ Skipped(record) <=> ~LegalLength(record)
           /\ Timestamp(record) = MeantTime(record)
           /\ Timestamp(record) \in Nat
<1>1. /\ record.ts_sec \in Words
      /\ record.ts_usec \in Words
      /\ record.incl_len \in Words
  BY DEF Records
<1>2. /\ Field(record.ts_sec) = Meant(record.ts_sec)
      /\ Field(record.ts_usec) = Meant(record.ts_usec)
      /\ Field(record.incl_len) = Meant(record.incl_len)
      /\ Field(record.ts_sec) \in Nat
      /\ Field(record.ts_usec) \in Nat
      /\ Field(record.incl_len) \in Nat
  BY <1>1, FieldIsMeant
<1>3. MaxPacketSize \in Nat /\ NanosPerMicro \in Nat /\ NanosPerSecond \in Nat
  BY NumbersAssumption
<1>4. Skipped(record) <=> ~LegalLength(record)
  BY <1>2, <1>3 DEF Skipped, Oversized, LegalLength
<1>5. Timestamp(record) = MeantTime(record)
  BY <1>2 DEF Timestamp, MeantTime, has_nano_precision
<1>6. Timestamp(record) \in Nat
  <2>1. \A x, y \in Nat : x * y \in Nat /\ x + y \in Nat
    OBVIOUS
  <2>2. (IF has_nano_precision THEN 1 ELSE NanosPerMicro) \in Nat
    BY <1>3
  <2> QED  BY <1>2, <1>3, <2>1, <2>2 DEF Timestamp
<1> QED  BY <1>4, <1>5, <1>6

\* Appending the packet of one more record.
LEMMA HoldsAppend ==
    ASSUME NEW S, NEW s \in Seq(S), NEW W, Holds(s, W), NEW k, k \notin W,
           NEW x \in S,
           x = [flow |-> trace.records[k].data,
                timestamp |-> MeantTime(trace.records[k])]
    PROVE  Holds(Append(s, x), W \cup {k})
<1> DEFINE P(y, j) == y = [flow |-> trace.records[j].data,
                           timestamp |-> MeantTime(trace.records[j])]
           t == Append(s, x)
           n == Len(s) + 1
<1>1. PICK o \in Bijection(DOMAIN s, W) : \A j \in DOMAIN s : P(s[j], o[j])
  BY DEF Holds
<1>2. /\ Len(s) \in Nat
      /\ DOMAIN s = 1 .. Len(s)
      /\ DOMAIN t = 1 .. n
      /\ \A j \in DOMAIN s : t[j] = s[j]
      /\ t[n] = x
      /\ n \notin DOMAIN s
      /\ DOMAIN t = DOMAIN s \cup {n}
  OBVIOUS
<1>3. /\ o \in [DOMAIN s -> W]
      /\ \A a, b \in DOMAIN s : o[a] = o[b] => a = b
      /\ \A w \in W : \E a \in DOMAIN s : o[a] = w
  BY DEF Bijection, Injection, Surjection, IsInjective
<1> DEFINE q == [j \in DOMAIN t |-> IF j = n THEN k ELSE o[j]]
<1> HIDE DEF t, n, P
<1>4. /\ q \in [DOMAIN t -> W \cup {k}]
      /\ q[n] = k
      /\ \A j \in DOMAIN s : q[j] = o[j]
  BY <1>2, <1>3
<1>5. \A a, b \in DOMAIN t : q[a] = q[b] => a = b
  <2> HIDE DEF q
  <2>1. \A a \in DOMAIN s : q[a] \in W /\ q[a] # k
    BY <1>3, <1>4
  <2>2. \A a \in DOMAIN t : a \in DOMAIN s \/ a = n
    BY <1>2
  <2>3. \A a, b \in DOMAIN s : q[a] = q[b] => a = b
    BY <1>3, <1>4
  <2> QED  BY <1>4, <2>1, <2>2, <2>3, Zenon
<1>6. \A w \in W \cup {k} : \E a \in DOMAIN t : q[a] = w
  <2> HIDE DEF q
  <2> QED  BY <1>2, <1>3, <1>4
<1>7. q \in Bijection(DOMAIN t, W \cup {k})
  <2>1. DOMAIN q = DOMAIN t
    OBVIOUS
  <2> HIDE DEF q
  <2> QED  BY <1>4, <1>5, <1>6, <2>1
           DEF Bijection, Injection, Surjection, IsInjective
<1>8. \A j \in DOMAIN t : P(t[j], q[j])
  <2>1. P(x, k)
    BY DEF P
  <2> HIDE DEF q
  <2> QED  BY <1>1, <1>2, <1>4, <2>1
<1> QED  BY <1>7, <1>8 DEF Holds, P, t

\* Any arrangement of the packets will do.
LEMMA HoldsPermuted ==
    ASSUME NEW S, NEW s \in Seq(S), NEW W, Holds(s, W),
           NEW p \in Bijection(DOMAIN s, DOMAIN s)
    PROVE  /\ [k \in DOMAIN s |-> s[p[k]]] \in Seq(S)
           /\ Len([k \in DOMAIN s |-> s[p[k]]]) = Len(s)
           /\ DOMAIN [k \in DOMAIN s |-> s[p[k]]] = DOMAIN s
           /\ Holds([k \in DOMAIN s |-> s[p[k]]], W)
<1> DEFINE P(y, j) == y = [flow |-> trace.records[j].data,
                           timestamp |-> MeantTime(trace.records[j])]
           D == DOMAIN s
           t == [k \in D |-> s[p[k]]]
<1>1. PICK o \in Bijection(D, W) : \A j \in D : P(s[j], o[j])
  BY DEF Holds
<1>2. /\ o \in [D -> W]
      /\ \A a, b \in D : o[a] = o[b] => a = b
      /\ \A w \in W : \E a \in D : o[a] = w
  BY DEF Bijection, Injection, Surjection, IsInjective
<1>5. /\ p \in [D -> D]
      /\ \A a, b \in D : p[a] = p[b] => a = b
      /\ \A w \in D : \E a \in D : p[a] = w
  BY DEF Bijection, Injection, Surjection, IsInjective
<1> DEFINE q == [k \in D |-> o[p[k]]]
<1>6. t \in Seq(S) /\ Len(t) = Len(s) /\ DOMAIN t = D
  BY <1>5
<1> HIDE DEF D, P
<1>7. q \in [D -> W] /\ DOMAIN q = D
  BY <1>2, <1>5
<1>8. \A a, b \in D : q[a] = q[b] => a = b
  BY <1>2, <1>5
<1>9. \A w \in W : \E a \in D : q[a] = w
  BY <1>2, <1>5
<1>10. q \in Bijection(D, W)
  <2> HIDE DEF q
  <2> QED  BY <1>7, <1>8, <1>9 DEF Bijection, Injection, Surjection, IsInjective
<1>11. \A k \in D : P(t[k], q[k])
  BY <1>1, <1>5
<1>12. Holds(t, W)
  <2> HIDE DEF t, q
  <2> QED  BY <1>6, <1>10, <1>11 DEF Holds, P
<1> QED  BY <1>6, <1>12 DEF D

\* What is said of a file does not change while it is read.
LEMMA SameTrace ==
    ASSUME UNCHANGED trace
    PROVE  /\ Holds(packets', WantedBefore(next'))
                 => Holds(packets, WantedBefore(next))'
           /\ LastIllegal' <=> LastIllegal
<1>1. \A word : Meant(word)' = Meant(word)
  BY DEF Meant
<1>2. \A record : /\ MeantTime(record)' = MeantTime(record)
                  /\ LegalLength(record)' <=> LegalLength(record)
  BY <1>1 DEF MeantTime, LegalLength
<1>3. Wanted' = Wanted
  BY <1>2 DEF Wanted
<1>4. LastIllegal' <=> LastIllegal
  BY <1>2 DEF LastIllegal
<1>5. WantedBefore(next)' = WantedBefore(next')
  BY <1>3 DEF WantedBefore
<1>6. Holds(packets', WantedBefore(next')) => Holds(packets, WantedBefore(next))'
  BY <1>2, <1>5 DEF Holds
<1> QED  BY <1>4, <1>6

\* The first wanted record is at or after the first record.
LEMMA InitIInv == Init => IInv
<1> SUFFICES ASSUME Init PROVE IInv
  OBVIOUS
<1>1. /\ trace \in Traces
      /\ phase = "open"
      /\ next = 1
      /\ packets = <<>>
  BY DEF Init
<1>2. packets \in Seq(PacketRecords) /\ Len(packets) = 0
  BY <1>1
<1>3. Len(trace.records) \in Nat
  BY <1>1, TraceFacts
<1> QED  BY <1>1, <1>2, <1>3 DEF IInv, TypeOK

\* No packet is held for no record.
LEMMA HoldsNothing == Holds(<<>>, {})
<1>1. DOMAIN <<>> = {}
  OBVIOUS
<1>2. <<>> \in Bijection({}, {})
  BY <1>1 DEF Bijection, Injection, Surjection, IsInjective
<1> QED  BY <1>1, <1>2 DEF Holds

LEMMA OpenIInv == IInv /\ Open => IInv'
<1> SUFFICES ASSUME IInv, Open PROVE IInv'
  OBVIOUS
<1>1. /\ trace \in Traces
      /\ trace' = trace
      /\ next' = next /\ next = 1
      /\ packets' = packets /\ packets = <<>>
      /\ TypeOK
      /\ phase' \in {"failed", "reading"}
      /\ phase' = "reading" => trace.end \notin {"missing", "file header"}
  BY DEF IInv, TypeOK, Open
<1>2. TypeOK'
  BY <1>1 DEF TypeOK
<1>3. WantedBefore(next') = {}
  <2>1. \A k \in Wanted : k \in 1 .. Len(trace.records)
    BY <1>1, TraceFacts DEF Wanted
  <2>2. \A k \in Wanted : ~(k < next')
    <3>1. \A n : \A k \in 1 .. n : ~(k < 1)
      OBVIOUS
    <3> QED  BY <1>1, <2>1, <3>1
  <2> QED  BY <2>2 DEF WantedBefore
<1>4. Holds(packets, WantedBefore(next))'
  <2>1. Holds(packets', WantedBefore(next'))
    BY <1>1, <1>3, HoldsNothing
  <2> QED  BY <1>1, <2>1, SameTrace
<1>5. trace.end \in Ends /\ Len(trace.records) \in Nat
      /\ (trace.end = "packet data" => Len(trace.records) > 0)
  BY <1>1, TraceFacts
<1>6. phase' = "reading" =>
         trace.end \in {"whole", "packet header", "packet data"}
  BY <1>1, <1>5 DEF Ends
<1>7. ~(next' > Len(trace'.records) /\ trace'.end = "packet data")
  <2> DEFINE n == Len(trace.records)
             cut == trace.end = "packet data"
  <2>1. n \in Nat /\ (cut => n > 0)
    BY <1>5
  <2> HIDE DEF n, cut
  <2>2. ~(1 > n /\ cut)
    BY <2>1
  <2> QED  BY <1>1, <2>2 DEF n, cut
<1> QED  BY <1>1, <1>2, <1>4, <1>6, <1>7 DEF IInv

LEMMA EndOfFileIInv == IInv /\ EndOfFile => IInv'
<1> SUFFICES ASSUME IInv, EndOfFile PROVE IInv'
  OBVIOUS
<1>1. /\ trace' = trace /\ next' = next /\ packets' = packets
      /\ phase = "reading" /\ phase' = "closed"
      /\ ~HeaderRead
  BY DEF EndOfFile
<1>2. TypeOK'
  BY <1>1 DEF IInv, TypeOK
<1>3. Holds(packets, WantedBefore(next))'
  <2>1. Holds(packets', WantedBefore(next'))
    BY <1>1 DEF IInv
  <2> QED  BY <1>1, <2>1, SameTrace
<1>4. ~HeaderRead'
  BY <1>1 DEF HeaderRead
<1>5. (next > Len(trace.records) /\ trace.end = "packet data" => LastIllegal)'
  BY <1>1, SameTrace DEF IInv
<1> QED  BY <1>1, <1>2, <1>3, <1>4, <1>5 DEF IInv

\* What is known of the record at the file position.
LEMMA NextRecord ==
    ASSUME IInv, phase = "reading", HeaderRead
    PROVE  /\ next \in DOMAIN trace.records
           /\ next \in Nat
           /\ next + 1 \in 1 .. Len(trace.records) + 1
           /\ trace.records[next] \in Records
           /\ next = Len(trace.records) => trace.end # "packet header"
           /\ Len(trace.records) \in Nat
           /\ WantedBefore(next + 1) =
                 WantedBefore(next) \cup (IF next \in Wanted THEN {next} ELSE {})
           /\ next \notin WantedBefore(next)
<1> DEFINE r == trace.records
<1>1. /\ r \in Seq(Records)
      /\ Len(r) \in Nat
      /\ DOMAIN r = 1 .. Len(r)
  BY TraceFacts DEF IInv, TypeOK
<1>2. next \in 1 .. Len(r) + 1 /\ next <= Len(r)
  BY DEF IInv, TypeOK, HeaderRead
<1>3. next = Len(r) => trace.end # "packet header"
  BY DEF HeaderRead
<1>4. Wanted \subseteq DOMAIN r
  BY DEF Wanted
<1> HIDE DEF r
<1>5. next \in DOMAIN r /\ next \in Nat /\ next + 1 \in 1 .. Len(r) + 1
  BY <1>1, <1>2
<1>6. r[next] \in Records
  BY <1>1, <1>5
<1>7. \A k \in Wanted : k < next + 1 <=> k < next \/ k = next
  BY <1>1, <1>4, <1>5
<1>8. /\ WantedBefore(next + 1) =
             WantedBefore(next) \cup (IF next \in Wanted THEN {next} ELSE {})
      /\ next \notin WantedBefore(next)
  BY <1>5, <1>7 DEF WantedBefore
<1> QED  BY <1>1, <1>3, <1>5, <1>6, <1>8 DEF r

\* A record passed over is not wanted.
LEMMA SkipIInv == IInv /\ Skip => IInv'
<1> SUFFICES ASSUME IInv, Skip PROVE IInv'
  OBVIOUS
<1>1. /\ trace' = trace /\ next' = next + 1 /\ packets' = packets
      /\ phase = "reading" /\ phase' = "reading"
      /\ HeaderRead
      /\ Skipped(trace.records[next])
  BY DEF Skip
<1>2. /\ next \in DOMAIN trace.records
      /\ next \in Nat
      /\ next + 1 \in 1 .. Len(trace.records) + 1
      /\ trace.records[next] \in Records
      /\ Len(trace.records) \in Nat
      /\ WantedBefore(next + 1) =
            WantedBefore(next) \cup (IF next \in Wanted THEN {next} ELSE {})
  BY <1>1, NextRecord
<1>3. ~LegalLength(trace.records[next])
  BY <1>1, <1>2, RecordRead
<1>4. next \notin Wanted
  BY <1>3 DEF Wanted
<1>5. TypeOK'
  <2>1. packets \in Seq(PacketRecords) /\ Len(packets) < next
    BY DEF IInv, TypeOK
  <2>2. Len(packets) \in Nat
    BY <2>1
  <2>3. Len(packets) < next + 1
    BY <1>2, <2>1, <2>2
  <2> QED  BY <1>1, <1>2, <2>3 DEF IInv, TypeOK
<1>6. Holds(packets, WantedBefore(next))'
  <2>1. Holds(packets', WantedBefore(next'))
    BY <1>1, <1>2, <1>4 DEF IInv
  <2> QED  BY <1>1, <2>1, SameTrace
<1>7. next' > Len(trace.records) => LastIllegal
  BY <1>1, <1>2, <1>3 DEF LastIllegal
<1>8. (next > Len(trace.records) /\ trace.end = "packet data" => LastIllegal)'
  BY <1>1, <1>7, SameTrace
<1>9. trace'.end \in {"whole", "packet header", "packet data"}
  BY <1>1 DEF IInv
<1> QED  BY <1>1, <1>5, <1>6, <1>8, <1>9 DEF IInv

LEMMA IncompleteDataIInv == IInv /\ IncompleteData => IInv'
BY DEF IInv, IncompleteData, TypeOK

\* A whole record of a legal length is wanted if it holds an IPv4 packet.
LEMMA PacketIInv == IInv /\ Packet => IInv'
<1> SUFFICES ASSUME IInv, Packet PROVE IInv'
  OBVIOUS
<1> DEFINE record == trace.records[next]
           x == [flow |-> record.data, timestamp |-> Timestamp(record)]
<1>1. /\ trace' = trace /\ next' = next + 1
      /\ phase = "reading" /\ phase' = "reading"
      /\ HeaderRead
      /\ ~Skipped(record)
      /\ ~DataCut
      /\ packets' = IF record.data = NotIPv4 THEN packets ELSE Append(packets, x)
  BY DEF Packet
<1>2. /\ next \in DOMAIN trace.records
      /\ next \in Nat
      /\ next + 1 \in 1 .. Len(trace.records) + 1
      /\ record \in Records
      /\ Len(trace.records) \in Nat
      /\ next = Len(trace.records) => trace.end # "packet header"
      /\ WantedBefore(next + 1) =
            WantedBefore(next) \cup (IF next \in Wanted THEN {next} ELSE {})
      /\ next \notin WantedBefore(next)
  BY <1>1, NextRecord
<1>3. /\ LegalLength(record)
      /\ Timestamp(record) = MeantTime(record)
      /\ Timestamp(record) \in Nat
  BY <1>1, <1>2, RecordRead
<1>4. trace.end \in {"whole", "packet header", "packet data"}
  BY <1>1 DEF IInv
<1>5. next = Len(trace.records) => trace.end = "whole"
  BY <1>1, <1>2, <1>4 DEF DataCut
<1>6. next \in Wanted <=> record.data # NotIPv4
  BY <1>2, <1>3, <1>5 DEF Wanted
<1>7. /\ packets \in Seq(PacketRecords)
      /\ Len(packets) < next
      /\ Holds(packets, WantedBefore(next))
  BY <1>1 DEF IInv, TypeOK
<1>13. /\ Len(packets) < next + 1
       /\ Len(packets) + 1 < next + 1
  <2>1. next \in Nat
    BY <1>1, NextRecord
  <2>2. \A q \in Seq(PacketRecords) : Len(q) \in Nat
    OBVIOUS
  <2> DEFINE m == Len(packets)
  <2>3. m \in Nat /\ m < next
    BY <1>7, <2>2
  <2> HIDE DEF m
  <2>4. m < next + 1 /\ m + 1 < next + 1
    BY <2>1, <2>3
  <2> QED  BY <2>4 DEF m
<1>8. record.data # NotIPv4 => x \in PacketRecords
  BY <1>2, <1>3 DEF Records, PacketRecords
<1>9. /\ packets' \in Seq(PacketRecords)
      /\ Len(packets') < next'
      /\ Holds(packets', WantedBefore(next'))
  <2>1. CASE record.data = NotIPv4
    <3>1. packets' = packets /\ Len(packets) \in Nat
      BY <1>1, <1>7, <2>1
    <3>2. WantedBefore(next') = WantedBefore(next)
      BY <1>1, <1>2, <1>6, <2>1
    <3> QED  BY <1>1, <1>7, <1>13, <3>1, <3>2
  <2>2. CASE record.data # NotIPv4
    <3>1. packets' = Append(packets, x) /\ x \in PacketRecords
      BY <1>1, <1>8, <2>2
    <3>2. WantedBefore(next') = WantedBefore(next) \cup {next}
      BY <1>1, <1>2, <1>6, <2>2
    <3>3. x = [flow |-> trace.records[next].data,
               timestamp |-> MeantTime(trace.records[next])]
      BY <1>3
    <3> HIDE DEF x, record
    <3>4. Holds(Append(packets, x), WantedBefore(next) \cup {next})
      BY <1>2, <1>7, <3>1, <3>3, HoldsAppend
    <3>5. /\ Append(packets, x) \in Seq(PacketRecords)
          /\ Len(Append(packets, x)) = Len(packets) + 1
          /\ Len(packets) \in Nat
      BY <1>7, <3>1
    <3> QED  BY <1>1, <1>13, <3>1, <3>2, <3>4, <3>5
  <2> QED  BY <2>1, <2>2
<1>10. TypeOK'
  BY <1>1, <1>2, <1>9 DEF IInv, TypeOK
<1>11. Holds(packets, WantedBefore(next))'
  BY <1>1, <1>9, SameTrace
<1>12. ~(next' > Len(trace'.records) /\ trace'.end = "packet data")
  <2> DEFINE n == Len(trace.records)
             cut == trace.end = "packet data"
  <2>1. n \in Nat /\ next \in Nat /\ next + 1 \in 1 .. n + 1
    BY <1>2
  <2>2. next = n => ~cut
    BY <1>5
  <2> HIDE DEF n, cut
  <2>3. ~(next + 1 > n /\ cut)
    BY <2>1, <2>2
  <2> QED  BY <1>1, <2>3 DEF n, cut
<1> QED  BY <1>1, <1>4, <1>10, <1>11, <1>12 DEF IInv

\* Sorting rearranges the packets.
LEMMA SortIInv == IInv /\ Sort => IInv'
<1> SUFFICES ASSUME IInv, Sort PROVE IInv'
  OBVIOUS
<1>1. /\ trace' = trace /\ next' = next
      /\ phase = "closed" /\ phase' = "done"
      /\ Sorted(packets')
  BY DEF Sort
<1>2. PICK p \in Bijection(DOMAIN packets, DOMAIN packets) :
          packets' = [k \in DOMAIN packets |-> packets[p[k]]]
  BY DEF Sort
<1>3. /\ packets \in Seq(PacketRecords)
      /\ Holds(packets, WantedBefore(next))
  BY <1>1 DEF IInv, TypeOK
<1>4. /\ packets' \in Seq(PacketRecords)
      /\ Len(packets') = Len(packets)
      /\ Holds(packets', WantedBefore(next))
  BY <1>2, <1>3, HoldsPermuted
<1>5. TypeOK'
  BY <1>1, <1>4 DEF IInv, TypeOK
<1>6. Holds(packets, WantedBefore(next))'
  <2>1. Holds(packets', WantedBefore(next'))
    BY <1>1, <1>4
  <2> QED  BY <1>1, <2>1, SameTrace
<1>7. ~HeaderRead'
  BY <1>1 DEF IInv, HeaderRead
<1>8. /\ (next > Len(trace.records) /\ trace.end = "packet data" => LastIllegal)'
      /\ trace'.end \in {"whole", "packet header", "packet data"}
  BY <1>1, SameTrace DEF IInv
<1>9. Sorted(packets)'
  BY <1>1 DEF Sorted
<1> QED  BY <1>1, <1>5, <1>6, <1>7, <1>8, <1>9 DEF IInv

LEMMA StutterIInv == IInv /\ UNCHANGED vars => IInv'
<1> SUFFICES ASSUME IInv, UNCHANGED vars PROVE IInv'
  OBVIOUS
<1>1. trace' = trace /\ phase' = phase /\ next' = next /\ packets' = packets
  BY DEF vars
<1>2. Holds(packets, WantedBefore(next)) => Holds(packets, WantedBefore(next))'
  <2>1. Holds(packets, WantedBefore(next)) => Holds(packets', WantedBefore(next'))
    BY <1>1
  <2> QED  BY <1>1, <2>1, SameTrace
<1>3. TypeOK' /\ (HeaderRead' <=> HeaderRead) /\ (LastIllegal' <=> LastIllegal)
  BY <1>1, SameTrace DEF IInv, TypeOK, HeaderRead
<1>4. Sorted(packets)' <=> Sorted(packets)
  BY <1>1 DEF Sorted
<1> QED  BY <1>1, <1>2, <1>3, <1>4 DEF IInv

\* The inductive invariant.
THEOREM Invariance == Spec => []IInv
<1>1. IInv /\ [Next]_vars => IInv'
  BY OpenIInv, EndOfFileIInv, SkipIInv, IncompleteDataIInv, PacketIInv,
     SortIInv, StutterIInv DEF Next
<1> QED  BY <1>1, InitIInv, PTL DEF Spec

\* The reader never moves beyond the record after the last, and holds fewer
\* packets than it has read records.
THEOREM TypeCorrect == Spec => []TypeOK
<1>1. IInv => TypeOK
  BY DEF IInv
<1> QED  BY <1>1, Invariance, PTL

\* What parse_pcap returns is what the file says, in the order of time, for
\* every file, byte order and resolution (PacketParser.cpp:122-183, 187-227).
THEOREM ResultCorrect == Spec => []ResultMatchesTrace
<1>1. IInv => ResultMatchesTrace
  <2> SUFFICES ASSUME IInv, phase = "done" PROVE ResultMatchesTrace
    BY DEF ResultMatchesTrace
  <2>1. /\ Holds(packets, WantedBefore(next))
        /\ Sorted(packets)
        /\ ~HeaderRead
        /\ next > Len(trace.records) /\ trace.end = "packet data" => LastIllegal
        /\ next \in 1 .. Len(trace.records) + 1
        /\ trace \in Traces
    BY DEF IInv, TypeOK
  <2>2. /\ Len(trace.records) \in Nat
        /\ DOMAIN trace.records = 1 .. Len(trace.records)
    BY <2>1, TraceFacts
  <2> DEFINE n == Len(trace.records)
             short == trace.end = "packet header"
             cut == trace.end = "packet data"
  <2>3. /\ n \in Nat
        /\ next \in 1 .. n + 1
        /\ ~(next <= n /\ ~(short /\ next = n))
        /\ ~(short /\ cut)
        /\ \A k \in Wanted : k \in 1 .. n /\ (k = n => ~short)
        /\ next > n /\ cut => LastIllegal
    BY <2>1, <2>2 DEF HeaderRead, Wanted
  <2> HIDE DEF n, short, cut
  <2>4. (\A k \in Wanted : k < next) /\ (cut => LastIllegal)
    BY <2>3
  <2>5. WantedBefore(next) = Wanted
    BY <2>4 DEF WantedBefore
  <2>6. \E origin \in Bijection(DOMAIN packets, Wanted) :
            \A k \in DOMAIN packets :
                packets[k] = [flow |-> trace.records[origin[k]].data,
                              timestamp |-> MeantTime(trace.records[origin[k]])]
    BY <2>1, <2>5 DEF Holds
  <2>7. trace.end = "packet data" => LastIllegal
    BY <2>4 DEF cut
  <2> QED  BY <2>1, <2>6, <2>7 DEF ResultMatchesTrace, LastIllegal
<1> QED  BY <1>1, Invariance, PTL

=============================================================================
