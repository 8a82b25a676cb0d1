--------------------------- MODULE MCMultiplexRead ---------------------------
(* Two partitions; files with flagged and explicit block lengths, interleaved *)
(* blocks, an empty partition, and files that are damaged in different ways. *)
EXTENDS MultiplexRead

Scaled == <<9, 8, 7, 2>>  \* length flag 3 stands for 2 bytes

B(p, i) == 32 * (p + 1) + i
Size(n) == <<n, 0, 0, 0>>
File(bytes, p0, p1, valid) ==
    [bytes |-> bytes, payload |-> [p \in 0..1 |-> IF p = 0 THEN p0 ELSE p1], valid |-> valid]

\* A flagged block, an explicit one of partition 1, and a second one of partition 0.
Body == <<48, B(0, 1), B(0, 2), 1, 2, 0, B(1, 1), B(1, 2), B(1, 3), 0, 0, 0, B(0, 3)>>
Good == File(Body \o Size(17), <<B(0, 1), B(0, 2), B(0, 3)>>, <<B(1, 1), B(1, 2), B(1, 3)>>, TRUE)
OnlySecond == File(<<49, B(1, 1), B(1, 2)>> \o Size(7), <<>>, <<B(1, 1), B(1, 2)>>, TRUE)
\* As the Go port writes it: blocks of one partition with explicit lengths.
FromGo == LET data == <<B(0, 1), B(0, 2), B(0, 3)>>
          IN  File(GoMultiplex(data) \o Size(13), data, <<>>, TRUE)
\* A whole block of a partition that does not exist, with a marker of partition 1 in it,
\* and a block of partition 0 behind it.
BadPartition == File(<<48, B(0, 1), B(0, 2), 53, 1, 0, 0, 0, 0, B(0, 3)>> \o Size(14),
                     <<B(0, 1), B(0, 2), B(0, 3)>>, <<>>, FALSE)
WrongSize == File(SubSeq(Body, 1, 3) \o Size(8), <<B(0, 1), B(0, 2)>>, <<>>, FALSE)
CutShort == File(SubSeq(Body, 1, 11), <<B(0, 1), B(0, 2)>>, <<B(1, 1), B(1, 2), B(1, 3)>>, FALSE)
TooShort == File(<<48, 33>>, <<>>, <<>>, FALSE)

MCFiles == {Good, OnlySecond, FromGo, BadPartition, WrongSize, CutShort, TooShort}

Want(n, e) == [want |-> n, ending |-> e]
MCPlans ==
    { [p \in 0..1 |-> IF p = 0 THEN x[1] ELSE x[2]] :
        x \in {<<Want(3, "ok"), Want(4, "ok")>>,
               <<Want(1, "ok"), Want(0, "err")>>,
               <<Want(2, "panic"), Want(1, "ok")>>,
               <<Want(3, "ok"), Want(1, "panic")>>} }
==============================================================================
