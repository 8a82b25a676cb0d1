---------------------------- MODULE GoMultiplex -----------------------------
(***************************************************************************)
(* The multiplexed data as the Go port writes and reads it                 *)
(* (multiplexSingleThread of lepton/encode.go, newDemultiplexer of         *)
(* lepton/decode.go): all of it at once, with no error for data that ends  *)
(* early or that belongs to no partition.                                  *)
(***************************************************************************)
EXTENDS MultiplexFormat

\* The footer with the file size, which DecodeLepton cuts off and never compares.
Footer == 4
WithoutFooter(bytes) == SubSeq(bytes, 1, Len(bytes) - Footer)

Least(a, b) == IF a < b THEN a ELSE b

\* The block at pos: where its data starts, and how long it says it is.
DataStart(data, pos) == IF MarkerNeedsLength(data[pos]) THEN pos + 3 ELSE pos + 1
DataLen(data, pos) ==
    IF MarkerNeedsLength(data[pos]) THEN U16Len(data[pos + 1], data[pos + 2])
    ELSE MarkerLen(data[pos])

\* One turn of the loop: a length that does not fit ends the loop, a block that does
\* not fit is shortened. from[pos] is what the data from pos on adds.
GoTurn(data, n, from, pos) ==
    IF pos > Len(data) \/ (MarkerNeedsLength(data[pos]) /\ pos + 2 > Len(data))
    THEN [p \in 0 .. n - 1 |-> << >>]
    ELSE LET start == DataStart(data, pos)
             end   == Least(start + DataLen(data, pos), Len(data) + 1)
         IN  [p \in 0 .. n - 1 |->
                 IF p = MarkerPartition(data[pos])
                 THEN SubSeq(data, start, end - 1) \o from[end][p] ELSE from[end][p]]

\* The data of each of n partitions, from each position of the stream on.
GoDemultiplexFrom(data, n) ==
    LET from[pos \in 1 .. Len(data) + 1] == GoTurn(data, n, from, pos) IN from

GoDemultiplex(data, n) == GoDemultiplexFrom(data, n)[1]

\* Blocks of one partition, each with an explicit length even if a flag stands for it.
GoMultiplex(data) ==
    LET from[pos \in 1 .. Len(data) + 1] ==
            LET len == Least(Len(data) + 1 - pos, FlaggedLen(3))
            IN  IF pos > Len(data) THEN << >>
                ELSE <<0, (len - 1) % 256, (len - 1) \div 256>>
                     \o SubSeq(data, pos, pos + len - 1) \o from[pos + len]
    IN  from[1]
=============================================================================
