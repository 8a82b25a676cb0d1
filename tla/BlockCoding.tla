---------------------------- MODULE BlockCoding -----------------------------
(***************************************************************************)
(* How one block becomes bits and back, given its neighbours:               *)
(* write_coefficient_block of lepton_encoder.rs, read_coefficient_block of  *)
(* lepton_decoder.rs, and the position in a component that both keep        *)
(* (block_context.rs). q is the table of quantisers, transposed.            *)
(***************************************************************************)
EXTENDS Prediction

Deq(b, q) ==     \* the raster: dequantised, with 0 for DC
    Vec(LAMBDA u : Vec(LAMBDA v : IF u = 1 /\ v = 1 THEN 0 ELSE b[u][v] * q[u][v]))

\* The lanes of an edge: 1 .. 7 of the first row (horizontal) or column.
EdgeCoord(horizontal, lane) == IF horizontal THEN 8 * lane ELSE lane
Zig15(horizontal, lane) == IF horizontal THEN lane - 1 ELSE lane + 6

\* The bins that both sides derive from the inner coefficients.
NumNonZerosBin(n) == (n + 3) \div 7
Furthest(S) == Max({0} \cup S)
EobX(b) == Furthest({c \div 8 : c \in {c \in Range(Unzigzag49Tr) : At(b, c) # 0}})
EobY(b) == Furthest({c % 8 : c \in {c \in Range(Unzigzag49Tr) : At(b, c) # 0}})

EdgeCounts(horizontal, eob, bin) == <<IF horizontal THEN "count8x1" ELSE "count1x8", eob, bin>>

EdgeContext(pt, pred, q, horizontal, lane, left) ==
    LET coord == EdgeCoord(horizontal, lane)
        z     == Zig15(horizontal, lane)
    IN  [nonZeros |-> left, zig15 |-> z,
         prior |-> CalcCoefficientContext8Lak(pt, horizontal, At(q, coord), coord, pred),
         threshold |-> MinNoiseThreshold(FreqMax[z + 1], At(q, coord))]

InnerContext(pt, near, z) == BitLength(AavgPrior(pt, near, Unzigzag49Tr[z]))

\* A context needs a quotient that does not exist (UnsupportedJpegWithZeroIdct0).
NoQuotient(pt, q, horizontal, lane) ==
    At(q, EdgeCoord(horizontal, lane)) = 0 /\ IF horizontal THEN pt.above ELSE pt.left

-----------------------------------------------------------------------------
(* Writing                                                                  *)

\* The coefficients up to the last one that is not 0, each with the number of
\* those left: Write(k, left) for the k-th of the coefficients coefs.
WriteUntilLast(coefs, Write(_, _)) ==
    LET nonZero == {k \in DOMAIN coefs : coefs[k] # 0}
    IN  FlattenSeq([k \in 1 .. Furthest(nonZero) |->
                       Write(k, Cardinality({j \in nonZero : j >= k}))])

Inner(b) == [z \in 1 .. 49 |-> At(b, Unzigzag49Tr[z])]
Edge(b, horizontal) == [lane \in 1 .. 7 |-> At(b, EdgeCoord(horizontal, lane))]
NonZeros(coefs) == Cardinality({k \in DOMAIN coefs : coefs[k] # 0})

\* encode_one_edge
EncodeOneEdge(b, pt, pred, q, bin, eob, horizontal) ==
    PutGrid(EdgeCounts(horizontal, eob, bin), NonZeros(Edge(b, horizontal)), 3)
        \o WriteUntilLast(Edge(b, horizontal),
               LAMBDA lane, left :
                   WriteEdgeCoefficient(Edge(b, horizontal)[lane],
                                        EdgeContext(pt, pred, q, horizontal, lane, left)).puts)

\* One of the edge coefficients that are written has no context, or any
\* coefficient is too long: the block is refused.
Unwritable(b, pt, q) ==
    \/ \E coord \in 1 .. 63 : BitLength(AbsVal(At(b, coord))) > MaxExponent
    \/ \E horizontal \in BOOLEAN : \E lane \in 1 .. 7 :
          /\ NoQuotient(pt, q, horizontal, lane)
          /\ \E after \in lane .. 7 : Edge(b, horizontal)[after] # 0

\* write_coefficient_block, with encode_edge: [ok, puts, summary].
WriteCoefficientBlock(pt, near, b, q, f) ==
    LET n      == NonZeros(Inner(b))
        inner  == PutGrid(<<"count7x7", CalcNumNonZeros7x7ContextBin(pt, near)>>, n, 6)
                    \o WriteUntilLast(Inner(b),
                           LAMBDA z, left : WriteCoef(Inner(b)[z], NonZeroToBin7x7(left), z - 1,
                                                      InnerContext(pt, near, z)).puts)
        raster == Deq(b, q)
        curr   == PredictCurrentEdges(near, raster)
        next   == PredictNextEdges(raster)
        bin    == NumNonZerosBin(n)
        edges  == EncodeOneEdge(b, pt, curr.horiz, q, bin, EobX(b), TRUE)
                    \o EncodeOneEdge(b, pt, curr.vert, q, bin, EobY(b), FALSE)
        dc     == AdvPredictDcPix(pt, raster, q[1][1], near, f)
        wrote  == WriteBlockDc([coef |-> b[1][1], predicted |-> dc.predicted,
                                uncertainty |-> dc.uncertainty, uncertainty2 |-> dc.uncertainty2])
    IN  IF Unwritable(b, pt, q) \/ ~wrote.ok THEN Refused
        ELSE [ok |-> TRUE, puts |-> inner \o edges \o wrote.puts,
              summary |-> NeighborSummary(dc.nextH, dc.nextV, b[1][1] * q[1][1], n,
                                          next.horiz, next.vert)]

-----------------------------------------------------------------------------
(* Reading                                                                  *)

\* Reads up to n coefficients into block b until left of them were not 0;
\* Get(r, k, left) reads the k-th, Coord(k) is its place.
ReadUntilLast(r, b, n, left, Coord(_), Get(_, _, _)) ==
    LET upTo[k \in 0 .. n] ==
            IF k = 0 THEN [reader |-> r, block |-> b, left |-> left]
            ELSE LET s   == upTo[k - 1]
                     got == Get(s.reader, k, s.left)
                 IN  IF s.left = 0 THEN s
                     ELSE [reader |-> got.reader,
                           block |-> SetAt(s.block, Coord(k), got.value),
                           left |-> IF got.value = 0 THEN s.left ELSE s.left - 1]
    IN  upTo[n]

\* How many coefficients of an edge precede the first without a context.
Readable(pt, q, horizontal) ==
    Min({8} \cup {lane \in 1 .. 7 : NoQuotient(pt, q, horizontal, lane)}) - 1

\* decode_one_edge; s is [reader, block, left]. It ends with left > 0 where the
\* code fails: too few coefficients, or one without a context.
DecodeOneEdge(s, pt, pred, q, bin, eob, horizontal) ==
    LET count == GetGrid(s.reader, EdgeCounts(horizontal, eob, bin), 3)
    IN  ReadUntilLast(count[1], s.block, Readable(pt, q, horizontal), count[2], LAMBDA lane : EdgeCoord(horizontal, lane),
                      LAMBDA r, lane, left :
                          ReadEdgeCoefficient(r, EdgeContext(pt, pred, q, horizontal, lane, left)))

\* StreamInconsistent, or UnsupportedJpegWithZeroIdct0
BlockFailed(reader, inconsistent) == [ok |-> FALSE, reader |-> reader, inconsistent |-> inconsistent]

\* The end of read_coefficient_block: s holds everything but the DC coefficient, which
\* was predicted as dc and read as got.
BlockRead(s, n, q, dc, got) ==
    LET next == PredictNextEdges(Deq(s.block, q))
    IN  [ok |-> TRUE, reader |-> got.reader, block |-> SetAt(s.block, 0, got.value),
         summary |-> NeighborSummary(dc.nextH, dc.nextV, got.value * q[1][1], n, next.horiz, next.vert)]

ReadDc(s, n, q, dc) ==
    BlockRead(s, n, q, dc, ReadBlockDc(s.reader, [predicted |-> dc.predicted,
                                                  uncertainty |-> dc.uncertainty,
                                                  uncertainty2 |-> dc.uncertainty2]))

\* Both edges have been read into s, the second one perhaps not to its end.
AfterEdges(pt, near, s, n, q, f) ==
    IF s.left > 0 THEN BlockFailed(s.reader, Readable(pt, q, FALSE) = 7)
    ELSE ReadDc(s, n, q, AdvPredictDcPix(pt, Deq(s.block, q), q[1][1], near, f))

\* decode_edge. The edges are predicted from a raster that only holds the inner
\* coefficients.
DecodeEdge(pt, near, inner, n, q, f) ==
    LET curr  == PredictCurrentEdges(near, Deq(inner.block, q))
        bin   == NumNonZerosBin(n)
        horiz == DecodeOneEdge(inner, pt, curr.horiz, q, bin, EobX(inner.block), TRUE)
    IN  IF inner.left > 0 THEN BlockFailed(inner.reader, TRUE)
        ELSE IF horiz.left > 0 THEN BlockFailed(horiz.reader, Readable(pt, q, TRUE) = 7)
        ELSE AfterEdges(pt, near, DecodeOneEdge(horiz, pt, curr.vert, q, bin, EobY(inner.block), FALSE),
                        n, q, f)

\* The inner coefficients, of which count[2] are not 0.
ReadInner(pt, near, count, q, f) ==
    IF count[2] > 49 THEN BlockFailed(count[1], TRUE)
    ELSE DecodeEdge(pt, near,
                    ReadUntilLast(count[1], EmptyBlock, 49, count[2], LAMBDA z : Unzigzag49Tr[z],
                        LAMBDA r, z, left : ReadCoef(r, NonZeroToBin7x7(left), z - 1,
                                                     InnerContext(pt, near, z))),
                    count[2], q, f)

\* read_coefficient_block: [ok, reader, block, summary] or BlockFailed
ReadCoefficientBlock(pt, near, r, q, f) ==
    ReadInner(pt, near, GetGrid(r, <<"count7x7", CalcNumNonZeros7x7ContextBin(pt, near)>>, 6), q, f)

-----------------------------------------------------------------------------
(* BlockContext: the place of a block, and the places of its summary and of *)
(* that of the block above in the ring of two rows of summaries.            *)

OffY(y, width) ==
    [here |-> width * y, cur |-> IF y % 2 = 1 THEN width ELSE 0,
     above |-> IF y % 2 = 1 THEN 0 ELSE width]

NextBlock(ctx) == [here |-> ctx.here + 1, cur |-> ctx.cur + 1, above |-> ctx.above + 1]

\* get_block, of an image whose first block is number offset.
GetBlock(image, offset, dpos) ==
    IF dpos - offset < Len(image) THEN image[dpos - offset + 1] ELSE EmptyBlock

GetNeighborData(ctx, width, image, offset, cache, pt) ==
    [aboveLeft |-> IF pt = All THEN GetBlock(image, offset, ctx.here - width - 1) ELSE EmptyBlock,
     above |-> IF pt.above THEN GetBlock(image, offset, ctx.here - width) ELSE EmptyBlock,
     left |-> IF pt.left THEN GetBlock(image, offset, ctx.here - 1) ELSE EmptyBlock,
     ofAbove |-> IF pt.above THEN cache[ctx.above + 1] ELSE NeighborDataEmpty,
     ofLeft |-> IF pt.left THEN cache[ctx.cur] ELSE NeighborDataEmpty]
=============================================================================
