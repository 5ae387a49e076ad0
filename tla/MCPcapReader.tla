---------------------------- MODULE MCPcapReader ----------------------------
(***************************************************************************)
(* Instances of PcapReader for TLC: bytes have four values, and the words  *)
(* are chosen so that the two byte orders disagree on which time is the    *)
(* later one and on which length is legal.                                 *)
(***************************************************************************)
EXTENDS PcapReader

CONSTANTS f, g, none, MaxRecords

Zero == [k \in 1 .. 4 |-> 0]

\* With MaxPacketSize = 32 the word <<1, 0, 0, 0>> is a legal length in a
\* little-endian file and too large in a big-endian one, where <<0, 0, 0, 1>>
\* is legal.
MCRecords ==
    {record \in [ts_sec : {<<1, 0, 2, 0>>, <<2, 0, 1, 0>>}, ts_usec : {<<3, 1, 0, 0>>},
                 incl_len : {Zero, <<1, 0, 0, 0>>, <<0, 0, 0, 1>>},
                 data : Flows \cup {NotIPv4}] :
        record.incl_len = Zero => record.data = NotIPv4}

MCSequences == UNION {[1 .. n -> MCRecords] : n \in 0 .. MaxRecords}

\* Files that can be opened, cut off or not, and files that cannot.
MCTraces ==
    {file \in [magic : Magics \ {"unknown"}, records : MCSequences,
               end : {"whole", "packet header", "packet data"}] :
        /\ file.end # "whole" => file.records # <<>>
        /\ file.end = "packet data" =>
              file.records[Len(file.records)].incl_len # Zero}
    \cup [magic : Magics, records : {<<>>}, end : {"missing", "file header"}]
    \cup [magic : {"unknown"}, records : {<<>>}, end : {"whole"}]

=============================================================================
