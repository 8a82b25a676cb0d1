--------------------------- MODULE MultiplexFormat ---------------------------
(***************************************************************************)
(* The wire format shared by the two halves of                             *)
(* rust/lib/src/structs/multiplexer.rs: a stream of blocks, each with a    *)
(* header that names its partition and its length.  A block whose length   *)
(* is one of three powers of two has a one-byte header, any other block a  *)
(* three-byte header.                                                      *)
(***************************************************************************)
EXTENDS Naturals, Sequences

CONSTANT BlockLen  \* block length of each 2-bit length flag; <<1024, 4096, 16384, 65536>>

\* WRITE_BUFFER_SIZE: no block is longer, and its length less one fits 16 bits.
WriteBufferSize == 65536

ASSUME BlockLenAssumption ==
    /\ DOMAIN BlockLen = 1..4
    /\ \A f \in 1..4 : BlockLen[f] \in 1..WriteBufferSize

\* Length named by flags f: 1024 << (2 * f) in the code.
FlaggedLen(f) == BlockLen[f + 1]

\* The lengths the writer abbreviates (4096, 16384, 65536: never flag 0).
HasFlag(len) == \E f \in 1..3 : FlaggedLen(f) = len
FlagOf(len) == CHOOSE f \in 1..3 : FlaggedLen(f) = len

\* What multiplex_write puts before a block of len bytes of partition tid.
BlockHeader(tid, len) ==
    IF HasFlag(len) THEN <<tid + 16 * FlagOf(len)>>
    ELSE <<tid, (len - 1) % 256, (len - 1) \div 256>>

\* What MultiplexReaderState makes of a marker byte.
MarkerPartition(marker) == marker % 16
MarkerNeedsLength(marker) == marker < 16
MarkerLen(marker) == FlaggedLen((marker \div 16) % 4)
U16Len(b0, b1) == b1 * 256 + b0 + 1

HeaderLen(header) ==
    IF MarkerNeedsLength(header[1]) THEN U16Len(header[2], header[3])
    ELSE MarkerLen(header[1])

\* The header the writer puts before a block of any length up to WRITE_BUFFER_SIZE is
\* made of bytes, and the reader takes the same partition, length and number of
\* header bytes from it: the two ends never lose step.
HeaderRoundTrip(tid, len) ==
    LET header == BlockHeader(tid, len)
    IN  /\ \A i \in 1..Len(header) : header[i] \in 0..255
        /\ MarkerPartition(header[1]) = tid
        /\ Len(header) = IF MarkerNeedsLength(header[1]) THEN 3 ELSE 1
        /\ HeaderLen(header) = len
==============================================================================
