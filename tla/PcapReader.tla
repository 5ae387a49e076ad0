----------------------------- MODULE PcapReader -----------------------------
(***************************************************************************)
(* The trace reader (PacketParser.cpp): PcapReader reads a pcap file       *)
(* record by record, in either byte order and with micro- or nanosecond    *)
(* times, and parse_pcap keeps the IPv4 packets and sorts them by time.    *)
(*                                                                         *)
(* A file is a header and a sequence of records and may end inside any of  *)
(* them.  The integers of a record's header are words of four bytes in     *)
(* file order; the host is little-endian.  Of a record's data only the     *)
(* flow of the packet is kept.  estimate_packet_count only reserves memory *)
(* and is left out.                                                        *)
(***************************************************************************)
EXTENDS Integers, Sequences, Functions

CONSTANTS Traces,         \* the files that may be read
          Flows, NotIPv4, \* what the data of a record may hold
          Base,           \* values of a byte
          MaxPacketSize,  \* PCPP_MAX_PACKET_SIZE
          NanosPerMicro, NanosPerSecond

Bytes == 0 .. Base - 1
Words == [1 .. 4 -> Bytes]

Magics == {"MICROSECONDS_LE", "MICROSECONDS_BE", "NANOSECONDS_LE",
           "NANOSECONDS_BE", "unknown"}

\* PcapPacketHeader and data; orig_len is not used.
Records == [ts_sec : Words, ts_usec : Words, incl_len : Words,
            data : Flows \cup {NotIPv4}]

\* Where the file ends: not at all, or too early in the file header; or
\* after the last record, or in its header or its data.
Ends == {"missing", "file header", "whole", "packet header", "packet data"}

ASSUME NumbersAssumption ==
    /\ Base \in Nat \ {0, 1}
    /\ {MaxPacketSize, NanosPerMicro, NanosPerSecond} \subseteq Nat

ASSUME TracesAssumption ==
    \A f \in Traces :
        /\ f.magic \in Magics
        /\ f.records \in Seq(Records)
        /\ f.end \in Ends
        /\ f.end \in {"packet header", "packet data"} => f.records # <<>>
        /\ f.end = "packet data" =>
              f.records[Len(f.records)].incl_len # [k \in 1 .. 4 |-> 0]

VARIABLES trace, phase, next, packets

vars == <<trace, phase, next, packets>>

PacketRecords == [flow : Flows, timestamp : Nat]

Init ==
    /\ trace \in Traces
    /\ phase = "open"
    /\ next = 1       \* the record at the file position
    /\ packets = <<>>

\* An integer as the host reads it: the first byte is the lowest.
Read(word) ==
    word[1] + Base * (word[2] + Base * (word[3] + Base * word[4]))

\* What the bytes of an integer count for, from the lowest to the highest.
Place == <<1, Base, Base * Base, Base * Base * Base>>

\* Mutant: two bytes are masked at the wrong place.
swap_bytes32Short(val) ==
    (val % Base) * Place[4] + ((val \div Place[2]) % Base) * Place[2]
    + ((val \div Place[3]) % Base) * Place[3] + val \div Place[4]

swap_bytes32(val) ==
    (val % Base) * Place[4] + ((val \div Place[2]) % Base) * Place[3]
    + ((val \div Place[3]) % Base) * Place[2] + val \div Place[4]

is_big_endian == trace.magic \in {"MICROSECONDS_BE", "NANOSECONDS_BE"}
has_nano_precision == trace.magic \in {"NANOSECONDS_LE", "NANOSECONDS_BE"}

\* A field of a packet header.
Field(word) == IF is_big_endian THEN swap_bytes32(Read(word)) ELSE Read(word)

\* What setRawData and parse_pcap make of the two fields.
Timestamp(record) ==
    Field(record.ts_sec) * NanosPerSecond
    + Field(record.ts_usec) * (IF has_nano_precision THEN 1 ELSE NanosPerMicro)

Open ==
    /\ phase = "open"
    /\ phase' = IF trace.end \in {"missing", "file header"} \/ trace.magic = "unknown"
                THEN "failed" ELSE "reading"
    /\ UNCHANGED <<trace, next, packets>>

\* Is there a whole packet header at the file position?  A header that is cut
\* off sets the stream's failbit, exactly like the end of the file.
HeaderRead ==
    /\ next <= Len(trace.records)
    /\ ~(trace.end = "packet header" /\ next = Len(trace.records))

DataCut == trace.end = "packet data" /\ next = Len(trace.records)

Oversized(record) == Field(record.incl_len) > MaxPacketSize
Skipped(record) == Field(record.incl_len) = 0 \/ Oversized(record)

\* get_next_packet returns false and the file is closed.
EndOfFile ==
    /\ phase = "reading"
    /\ ~HeaderRead
    /\ phase' = "closed"
    /\ UNCHANGED <<trace, next, packets>>

\* Mutant: the file position stays in front of the record.
SkipNothing ==
    /\ phase = "reading"
    /\ HeaderRead
    /\ Skipped(trace.records[next])
    /\ UNCHANGED vars

\* Mutant: the distance is counted from the wrong place, and the record that
\* follows is passed over with it.
SkipFurther ==
    /\ phase = "reading"
    /\ HeaderRead
    /\ Skipped(trace.records[next])
    /\ next' = next + 2
    /\ UNCHANGED <<trace, phase, packets>>

\* The record is passed over, by a recursive call.  Seeking beyond the end of
\* the file does not fail; the next read does.
Skip ==
    /\ phase = "reading"
    /\ HeaderRead
    /\ Skipped(trace.records[next])
    /\ next' = next + 1
    /\ UNCHANGED <<trace, phase, packets>>

\* The exception loses the packets read so far.
IncompleteData ==
    /\ phase = "reading"
    /\ HeaderRead
    /\ ~Skipped(trace.records[next])
    /\ DataCut
    /\ phase' = "failed"
    /\ UNCHANGED <<trace, next, packets>>

\* A whole packet; one without an IPv4 layer is dropped.
Packet ==
    /\ phase = "reading"
    /\ HeaderRead
    /\ ~Skipped(trace.records[next])
    /\ ~DataCut
    /\ LET record == trace.records[next]
       IN  packets' = IF record.data = NotIPv4 THEN packets
                      ELSE Append(packets, [flow |-> record.data,
                                            timestamp |-> Timestamp(record)])
    /\ next' = next + 1
    /\ UNCHANGED <<trace, phase>>

Sorted(s) == \A j, k \in DOMAIN s : j < k => s[j].timestamp <= s[k].timestamp

\* std::sort is not stable: any sorted arrangement may come out.
Sort ==
    /\ phase = "closed"
    /\ packets' \in {[k \in DOMAIN packets |-> packets[p[k]]] :
                       p \in Bijection(DOMAIN packets, DOMAIN packets)}
    /\ Sorted(packets')
    /\ phase' = "done"
    /\ UNCHANGED <<trace, next>>

Next == Open \/ EndOfFile \/ Skip \/ IncompleteData \/ Packet \/ Sort

Spec == Init /\ [][Next]_vars

\* One thread reads without waiting for anyone.
FairSpec == Spec /\ WF_vars(Next)

-----------------------------------------------------------------------------
TypeOK ==
    /\ trace \in Traces
    /\ phase \in {"open", "reading", "closed", "done", "failed"}
    /\ next \in 1 .. Len(trace.records) + 1
    /\ packets \in Seq(PacketRecords)
    /\ Len(packets) < next

\* The number a word stands for in the byte order its file declares.
Meant(word) ==
    IF trace.magic \in {"MICROSECONDS_BE", "NANOSECONDS_BE"}
    THEN Read([k \in 1 .. 4 |-> word[5 - k]]) ELSE Read(word)

\* The time of a record in nanoseconds, in the resolution its file declares.
MeantTime(record) ==
    LET resolution == IF trace.magic \in {"NANOSECONDS_LE", "NANOSECONDS_BE"}
                      THEN 1 ELSE NanosPerMicro
    IN  Meant(record.ts_sec) * NanosPerSecond + Meant(record.ts_usec) * resolution

LegalLength(record) == Meant(record.incl_len) \in 1 .. MaxPacketSize

\* The whole records of a legal length that hold an IPv4 packet.
Wanted ==
    {k \in DOMAIN trace.records :
        /\ LegalLength(trace.records[k])
        /\ trace.records[k].data # NotIPv4
        /\ k = Len(trace.records) => trace.end = "whole"}

\* What parse_pcap returns is what the file says: each packet of a whole
\* record once, with the time its writer meant, whatever the byte order and
\* the resolution, in the order of time that run() relies on; and a file that
\* ends inside the data of such a packet returns nothing
\* (PacketParser.cpp:122-183, 187-227; DiSketch.cpp:15-16, 60-70).
ResultMatchesTrace ==
    phase = "done" =>
        /\ Sorted(packets)
        /\ \E origin \in Bijection(DOMAIN packets, Wanted) :
              \A k \in DOMAIN packets :
                 LET record == trace.records[origin[k]]
                 IN  packets[k] = [flow |-> record.data,
                                   timestamp |-> MeantTime(record)]
        /\ trace.end = "packet data" =>
              ~LegalLength(trace.records[Len(trace.records)])

\* Every file is read to its end or refused, records that are passed over in a
\* row included (PacketParser.cpp:143-147, 198-217).
ReadingEnds == <>(phase \in {"done", "failed"})

\* A file that ends inside a packet header is refused: this is the exception
\* "Incomplete packet header" of PacketParser.cpp:131-133.
PartialHeaderReported == trace.end = "packet header" => phase # "done"

=============================================================================
