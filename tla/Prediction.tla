----------------------------- MODULE Prediction -----------------------------
(***************************************************************************)
(* What the coder of a block expects from its neighbours:                   *)
(* probability_tables.rs, neighbor_summary.rs and idct.rs. Everything here  *)
(* is a function of the neighbours and of the coefficients coded so far.    *)
(*                                                                         *)
(* A vector (i16x8, i32x8) is a tuple of eight numbers, a block eight       *)
(* vectors: block[u][v] is the coefficient of horizontal frequency u - 1    *)
(* and vertical frequency v - 1, number 8 (u - 1) + v - 1 of the transposed *)
(* order. Sums of 32 bits are wrapped only in R2Times: the pictures are     *)
(* chosen so that the others fit.                                           *)
(***************************************************************************)
EXTENDS CoefCoding

Lanes == 1 .. 8

Vec(F(_)) == <<F(1), F(2), F(3), F(4), F(5), F(6), F(7), F(8)>>
Sum8(v) == v[1] + v[2] + v[3] + v[4] + v[5] + v[6] + v[7] + v[8]     \* reduce_add
Dot(v, w) == Sum8(Vec(LAMBDA k : v[k] * w[k]))
Column(b, v) == Vec(LAMBDA u : b[u][v])                              \* from_stride

ZeroVec == <<0, 0, 0, 0, 0, 0, 0, 0>>
EmptyBlock == Vec(LAMBDA k : ZeroVec)

At(b, coord) == b[coord \div 8 + 1][(coord % 8) + 1]
SetAt(b, coord, x) == [b EXCEPT ![coord \div 8 + 1] = [@ EXCEPT ![(coord % 8) + 1] = x]]

TruncDiv(a, b) == IF a < 0 THEN -((-a) \div b) ELSE a \div b         \* division of i32

-----------------------------------------------------------------------------
(* Tables (consts.rs)                                                       *)

Unzigzag49Tr ==
    << 9, 17, 10, 11, 18, 25, 33, 26, 19, 12, 13, 20, 27, 34, 41, 49, 42, 35, 28, 21, 14, 15, 22,
       29, 36, 43, 50, 57, 58, 51, 44, 37, 30, 23, 31, 38, 45, 52, 59, 60, 53, 46, 39, 47, 54, 61,
       62, 55, 63 >>

\* ICOS_BASED_8192_SCALED and _PM
MutIcos == <<8192, 11363, 10703, 9633, 8192, 6436, 4433, 2260>>

Icos == <<0, 11363, 10703, 9633, 8192, 6436, 4433, 2260>>
IcosPm == <<8192, -11363, 10703, -9633, 8192, -6436, 4433, -2260>>

FreqMax == << 931, 985, 968, 1020, 968, 1020, 1020, 932, 985, 967, 1020, 969, 1020, 1020 >>

\* NON_ZERO_TO_BIN and NON_ZERO_TO_BIN_7X7: the first count of each bin after 0.
BinOf(n, firsts) == Cardinality({k \in DOMAIN firsts : firsts[k] <= n})
NonZeroToBin(n) == BinOf(n, <<1, 2, 3, 4, 6, 9, 13, 21>>)
NonZeroToBin7x7(n) == BinOf(n, <<2, 3, 4, 6, 9, 13, 21, 32>>)

-----------------------------------------------------------------------------
(* The inverse cosine transform. The two passes differ in their scales:     *)
(* up is the shift of the even terms that are not multiplied, r and s the   *)
(* rounding of products, down the shift of the results.                     *)

W3 == 2408
W6 == 1108
W7 == 565
W1MW7 == 2276
W1PW7 == 3406
W2PW6 == 3784
W2MW6 == 1568
W3PW5 == 4017
W3MW5 == 799
R2 == 181

\* (R2 * x + 128) >> 8, where the product may wrap around 32 bits.
R2Times(x) ==
    LET exact == R2 * (x \div 256) + (R2 * (x % 256) + 128) \div 256
    IN  ((exact + 2^23) % 2^24) - 2^23

IdctPass(t, up, bias, r, s, down) ==
    LET x0 == t[1] * up + bias
        x4 == t[5] * up
        \* Stage 1
        a8 == W7 * (t[2] + t[8]) + r
        a1 == (a8 + W1MW7 * t[2]) \div s
        a7 == (a8 - W1PW7 * t[8]) \div s
        b8 == W3 * (t[6] + t[4]) + r
        a5 == (b8 - W3MW5 * t[6]) \div s
        a3 == (b8 - W3PW5 * t[4]) \div s
        \* Stage 2
        c4 == W6 * (t[3] + t[7]) + r
        c6 == (c4 - W2PW6 * t[7]) \div s
        c2 == (c4 + W2MW6 * t[3]) \div s
        \* Stage 3
        d3 == x0 + x4 + c2
        d8 == x0 + x4 - c2
        d2 == x0 - x4 + c6
        d0 == x0 - x4 - c6
        d4 == a1 + a5
        d5 == a7 + a3
        d6 == R2Times((a1 - a5) + (a7 - a3))
        d1 == R2Times((a1 - a5) - (a7 - a3))
    IN  << (d3 + d4) \div down, (d2 + d6) \div down, (d0 + d1) \div down, (d8 + d5) \div down,
           (d8 - d5) \div down, (d0 - d1) \div down, (d2 - d6) \div down, (d3 - d4) \div down >>

RunIdct(raster) ==
    LET rows == Vec(LAMBDA k : IdctPass(Column(raster, k), 2048, 128, 0, 1, 256))
        cols == Vec(LAMBDA k : IdctPass(Column(rows, k), 256, 8192, 4, 8, 2048))
    IN  Vec(LAMBDA k : Vec(LAMBDA j : AsI16(cols[j][k])))

-----------------------------------------------------------------------------
(* Neighbours: pt says which are present, near holds the blocks left, above *)
(* and aboveLeft, and the summaries ofLeft and ofAbove.                     *)

NoNeighbors == [left |-> FALSE, above |-> FALSE]
TopOnly     == [left |-> FALSE, above |-> TRUE]
LeftOnly    == [left |-> TRUE, above |-> FALSE]
All         == [left |-> TRUE, above |-> TRUE]

NeighborDataEmpty ==
    [pixH |-> ZeroVec, pixV |-> ZeroVec, coefH |-> ZeroVec, coefV |-> ZeroVec, nonZeros |-> 0]

NeighborSummary(edgeH, edgeV, dcDeq, nonZeros, horiz, vert) ==
    [pixH |-> Vec(LAMBDA k : AsI16(edgeH[k] + AsI16(dcDeq))),
     pixV |-> Vec(LAMBDA k : AsI16(edgeV[k] + AsI16(dcDeq))),
     coefH |-> horiz, coefV |-> vert, nonZeros |-> nonZeros]

CalcNumNonZeros7x7ContextBin(pt, near) ==
    LET above == near.ofAbove.nonZeros
        left  == near.ofLeft.nonZeros
    IN  NonZeroToBin(CASE pt = TopOnly -> (above + 1) \div 2
                       [] pt = LeftOnly -> (left + 1) \div 2
                       [] pt = All -> (above + left + 2) \div 4
                       [] pt = NoNeighbors -> 0)

\* calc_coefficient_context_7x7_aavg_block, for one coefficient.
AavgPrior(pt, near, coord) ==
    LET left  == AbsVal(At(near.left, coord))
        above == AbsVal(At(near.above, coord))
        diag  == AbsVal(At(near.aboveLeft, coord))
    IN  CASE pt = All -> (((left + above) * 13 + diag * 6) % 65536) \div 32
          [] pt = LeftOnly -> left
          [] pt = TopOnly -> above
          [] pt = NoNeighbors -> 0

\* predict_current_edges: [horiz, vert]. The raster of the encoder already holds
\* the edges of the block, that of the decoder does not.
PredictCurrentEdges(near, raster) ==
    [horiz |-> Vec(LAMBDA u : IF u = 1 THEN near.ofAbove.coefH[u]
                              ELSE near.ofAbove.coefH[u] - Dot(raster[u], Icos)),
     vert  |-> Vec(LAMBDA v : near.ofLeft.coefV[v]
                                - (Dot(Column(raster, v), Icos) - raster[1][v] * Icos[1]))]

\* predict_next_edges
PredictNextEdges(raster) ==
    [horiz |-> Vec(LAMBDA u : IF u = 1 THEN 0 ELSE Dot(IcosPm, raster[u])),
     vert  |-> Vec(LAMBDA v : Dot(IcosPm, Column(raster, v)))]

\* calc_coefficient_context8_lak, for a quantiser other than 0.
CalcCoefficientContext8Lak(pt, horizontal, q, coord, pred) ==
    IF (horizontal /\ ~pt.above) \/ (~horizontal /\ ~pt.left) THEN 0
    ELSE TruncDiv(pred[IF horizontal THEN coord \div 8 + 1 ELSE coord + 1], q * 8192)

\* calc_pred, in 16 bits (as files of the C++ coder with SIMD have it) or in 32.
CalcPred(a1, a2, is16) ==
    Vec(LAMBDA k : LET Narrow(x) == IF is16 THEN AsI16(x) ELSE x
                       delta == Narrow(a1[k] - a2[k])
                       half  == Narrow(delta - (IF delta < 0 THEN -1 ELSE 0)) \div 2
                   IN  AsI16(a1[k] + half))

\* What the pixels of a block without its DC say of it. f holds the features
\* use_16bit_adv_predict and use_16bit_dc_estimate.
PredictFromPixels(pt, pix, q0, near, f) ==
    LET vPred  == CalcPred(pix[1], pix[2], f.advPredict16)
        hPred  == CalcPred(Column(pix, 1), Column(pix, 2), f.advPredict16)
        nextV  == CalcPred(pix[8], pix[7], f.dcEstimate16)
        nextH  == CalcPred(Column(pix, 8), Column(pix, 7), f.dcEstimate16)
        horiz  == Vec(LAMBDA k : AsI16(near.ofLeft.pixH[k] - hPred[k]))
        vert   == Vec(LAMBDA k : AsI16(near.ofAbove.pixV[k] - vPred[k]))
        seen   == (IF pt.left THEN {horiz[k] : k \in Lanes} ELSE {})
                    \cup (IF pt.above THEN {vert[k] : k \in Lanes} ELSE {})
        avgH   == IF pt.left THEN Sum8(horiz) ELSE Sum8(vert)
        avgV   == IF pt.above THEN Sum8(vert) ELSE Sum8(horiz)
        avgmed == (avgV + avgH) \div 2
        far    == IF AbsVal(avgH - avgmed) < AbsVal(avgV - avgmed) THEN avgH - avgmed ELSE avgV - avgmed
    IN  IF pt = NoNeighbors
        THEN [predicted |-> 0, uncertainty |-> 0, uncertainty2 |-> 0, nextH |-> nextH, nextV |-> nextV]
        ELSE [predicted |-> (TruncDiv(avgmed, q0) + 4) \div 8,
              uncertainty |-> AsI16((Max(seen) - Min(seen)) \div 8),
              uncertainty2 |-> AsI16(far \div 8),
              nextH |-> nextH, nextV |-> nextV]

AdvPredictDcPix(pt, raster, q0, near, f) == PredictFromPixels(pt, RunIdct(raster), q0, near, f)
=============================================================================
