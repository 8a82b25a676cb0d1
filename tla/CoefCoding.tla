----------------------------- MODULE CoefCoding -----------------------------
(***************************************************************************)
(* How one number becomes bits for the arithmetic coder, and back: model.rs,*)
(* the DC part of lepton_encoder.rs and lepton_decoder.rs, and their Go     *)
(* counterparts (lepton/model.go, lepton_encoder.go), which differ in one   *)
(* place. A bit is coded in a branch, an adaptive probability out of one of *)
(* the arrays of Model; the arithmetic coder gives a bit back only to a     *)
(* reader that consults the branch the writer used (BoolCoder), so here a   *)
(* stream is a sequence of pairs << branch, bit >> and a branch is the name *)
(* of its array with its indices.                                           *)
(***************************************************************************)
EXTENDS Integers, Sequences, SequencesExt, FiniteSetsExt

MaxExponent == 11           \* MAX_EXPONENT
NumericLengthMax == 12
ResidualNoiseFloor == 7
ThresholdCounts == 2^ResidualNoiseFloor   \* RESIDUAL_THRESHOLD_COUNTS_D3

AbsVal(x) == IF x < 0 THEN -x ELSE x
Least(a, b) == IF a < b THEN a ELSE b
BitLength(x) == CHOOSE n \in 0 .. 30 : x < 2^n /\ (n > 0 => x >= 2^(n - 1))
BitOf(x, i) == (x \div 2^i) % 2 = 1
AsI16(x) == ((x + 32768) % 65536) - 32768     \* a cast to i16

CalcSignIndex(v) == IF v = 0 THEN 0 ELSE IF v > 0 THEN 1 ELSE 2

\* The dimensions of the arrays of branches of Model, ModelPerColor, Counts7x7,
\* CountsEdge and CountsDC.
Dimensions ==
    [count7x7  |-> <<9, 64>>,
     count8x1  |-> <<8, 8, 8>>,
     count1x8  |-> <<8, 8, 8>>,
     exp7x7    |-> <<9, 49, NumericLengthMax, MaxExponent>>,
     noise7x7  |-> <<9, 49, MaxExponent - 1>>,
     expEdge   |-> <<7, 14, MaxExponent, MaxExponent>>,
     noiseEdge |-> <<7, 14, 3>>,
     threshold |-> <<2^(1 + ResidualNoiseFloor), ResidualNoiseFloor - 1, ThresholdCounts>>,
     sign      |-> <<3, NumericLengthMax>>,
     expDC     |-> <<NumericLengthMax, 17, MaxExponent>>,
     noiseDC   |-> <<NumericLengthMax, MaxExponent - 1>>]

InBounds(branch) ==
    LET dim == Dimensions[branch[1]]
    IN  Len(branch) = Len(dim) + 1 /\ \A k \in DOMAIN dim : branch[k + 1] \in 0 .. dim[k] - 1

-----------------------------------------------------------------------------
(* The operations of VPXBoolWriter as streams, and of VPXBoolReader. A      *)
(* reader is [stream, pos, inStep, exists]: inStep turns false when a branch *)
(* is consulted that the writer did not use for this bit, exists when one   *)
(* is that is in no array; past the end the arithmetic decoder yields false *)
(* bits.                                                                    *)

PutUnaryEncoded(branch, v, a) ==
    [k \in 1 .. Least(v + 1, a) |-> <<Append(branch, k - 1), v # k - 1>>]

PutGrid(branch, v, n) ==
    [k \in 1 .. n |-> <<Append(branch, 2^(k - 1) + v \div 2^(n + 1 - k)), BitOf(v, n - k)>>]

PutNBits(branch, v, n) == [k \in 1 .. n |-> <<Append(branch, n - k), BitOf(v, n - k)>>]

Peek(r) == r.pos < Len(r.stream) /\ r.stream[r.pos + 1][2]

Reader(stream) == [stream |-> stream, pos |-> 0, inStep |-> TRUE, exists |-> TRUE]

Consult(r, branch) ==
    [r EXCEPT !.pos = @ + 1,
              !.inStep = @ /\ r.pos < Len(r.stream) /\ r.stream[r.pos + 1][1] = branch,
              !.exists = @ /\ InBounds(branch)]

Bit01(b) == IF b THEN 1 ELSE 0

\* Each Get returns << reader, value >>.
GetUnaryEncoded(r, branch, a) ==
    LET step(s, i) == IF s[2] < i THEN s
                      ELSE <<Consult(s[1], Append(branch, i)), s[2] + Bit01(Peek(s[1]))>>
    IN  FoldLeft(step, <<r, 0>>, [k \in 1 .. a |-> k - 1])

GetGrid(r, branch, n) ==
    LET step(s, i) == <<Consult(s[1], Append(branch, s[2])), 2 * s[2] + Bit01(Peek(s[1]))>>
        got == FoldLeft(step, <<r, 1>>, [k \in 1 .. n |-> k])
    IN  <<got[1], got[2] - 2^n>>

GetNBits(r, branch, n) ==
    LET step(s, i) == <<Consult(s[1], Append(branch, i)), s[2] + Bit01(Peek(s[1])) * 2^i>>
    IN  FoldLeft(step, <<r, 0>>, [k \in 1 .. n |-> n - k])

-----------------------------------------------------------------------------
(* Length, sign and bits: the inner coefficients and DC. br holds the       *)
(* branches [exp, sign, bits].                                              *)

GetCoefBranches(bin, zig49, priorLen) ==
    [exp |-> <<"exp7x7", bin, zig49, priorLen>>, sign |-> <<"sign", 0, 0>>,
     bits |-> <<"noise7x7", bin, zig49>>]

GetDcBranches(uncertainty, uncertainty2) ==
    LET mxm == Least(BitLength(AbsVal(uncertainty)), NumericLengthMax - 1)
    IN  [exp  |-> <<"expDC", mxm, BitLength(AbsVal(uncertainty2))>>,
         sign |-> <<"sign", 0, CalcSignIndex(uncertainty2) + 1>>,
         bits |-> <<"noiseDC", mxm>>]

Refused == [ok |-> FALSE, puts |-> << >>]   \* ExitCode::CoefficientOutOfRange

WriteLengthSignCoef(coef, br) ==
    LET len == BitLength(AbsVal(coef))
    IN  IF len > MaxExponent THEN Refused
        ELSE [ok |-> TRUE,
              puts |-> PutUnaryEncoded(br.exp, len, MaxExponent)
                       \o (IF coef # 0 THEN << <<br.sign, coef > 0>> >> ELSE << >>)
                       \o (IF len > 1 THEN PutNBits(br.bits, AbsVal(coef), len - 1) ELSE << >>)]

MutReadLengthSignCoef(r, br) ==
    LET len  == GetUnaryEncoded(r, br.exp, MaxExponent)
        rest == GetNBits(Consult(len[1], br.sign), br.bits, IF len[2] > 1 THEN len[2] - 1 ELSE 0)
        abs  == rest[2] + 2^len[2]
    IN  IF len[2] = 0 THEN [reader |-> len[1], value |-> 0]
        ELSE [reader |-> rest[1], value |-> IF Peek(len[1]) THEN abs ELSE -abs]

\* The bits below the leading 1 follow the sign.
ReadLengthSignCoef(r, br) ==
    LET len  == GetUnaryEncoded(r, br.exp, MaxExponent)
        rest == GetNBits(Consult(len[1], br.sign), br.bits, IF len[2] > 1 THEN len[2] - 1 ELSE 0)
        abs  == rest[2] + 2^(len[2] - 1)
    IN  IF len[2] = 0 THEN [reader |-> len[1], value |-> 0]
        ELSE [reader |-> rest[1], value |-> IF Peek(len[1]) THEN abs ELSE -abs]

WriteCoef(coef, bin, zig49, priorLen) ==
    WriteLengthSignCoef(coef, GetCoefBranches(bin, zig49, priorLen))

ReadCoef(r, bin, zig49, priorLen) ==
    ReadLengthSignCoef(r, GetCoefBranches(bin, zig49, priorLen))

-----------------------------------------------------------------------------
(* Edge coefficients: the bits above a threshold that depends on the        *)
(* quantiser have branches that depend on the bits before them.             *)

\* min_noise_threshold of QuantizationTables, for the edge coefficient whose
\* greatest magnitude is freqMax.
MinNoiseThreshold(freqMax, q) ==
    LET most == (freqMax + q - 1) \div (IF q = 0 THEN 1 ELSE q)
    IN  IF q < 9 /\ BitLength(most) > ResidualNoiseFloor
        THEN BitLength(most) - ResidualNoiseFloor ELSE 0

EdgeExp(in) ==
    <<"expEdge", in.nonZeros - 1, in.zig15, Least(MaxExponent - 1, BitLength(AbsVal(in.prior)))>>

EdgeSign(in) ==
    <<"sign", CalcSignIndex(AsI16(in.prior)), Least(MaxExponent - 1, BitLength(AbsVal(in.prior)))>>

EdgeNoise(in) == <<"noiseEdge", in.nonZeros - 1, in.zig15>>

MutThreshold(in, len) ==
    <<"threshold", Least(AbsVal(in.prior) \div 2^in.threshold, 2^(1 + ResidualNoiseFloor)),
      len - in.threshold - 2>>

\* get_residual_threshold_counts_mut
Threshold(in, len) ==
    <<"threshold", Least((AbsVal(in.prior) % 65536) \div 2^in.threshold, 2^(1 + ResidualNoiseFloor) - 1),
      Least(len - in.threshold - 2, ResidualNoiseFloor - 2)>>

\* The writer's index after one more bit: doubled from the index, and capped.
EncodedSoFar(soFar, bit) == Least(2 * soFar + Bit01(bit), ThresholdCounts - 1)

\* The bits len - 2 down to the threshold, each in the branch of what precedes it.
PutResidual(in, abs, len) ==
    LET step(s, i) == << Append(s[1], <<Append(Threshold(in, len), s[2]), BitOf(abs, i)>>),
                         EncodedSoFar(s[2], BitOf(abs, i)) >>
    IN  FoldLeft(step, << << >>, 1 >>,
                 [k \in 1 .. (len - 1 - in.threshold) |-> len - 1 - k])[1]

WriteEdgeCoefficient(coef, in) ==
    LET abs   == AbsVal(coef)
        len   == BitLength(abs)
    IN  IF len > MaxExponent THEN Refused
        ELSE [ok |-> TRUE,
              puts |-> PutUnaryEncoded(EdgeExp(in), len, MaxExponent)
                       \o (IF coef # 0 THEN << <<EdgeSign(in), coef >= 0>> >> ELSE << >>)
                       \o (IF len > 1 THEN PutResidual(in, abs, len)
                                           \o PutNBits(EdgeNoise(in), abs, Least(len - 1, in.threshold))
                           ELSE << >>)]

\* The reader's index is the coefficient so far, capped only when it is used.
ReadEdgeCoefficient(r, in) ==
    LET len   == GetUnaryEncoded(r, EdgeExp(in), MaxExponent)
        step(s, i) == << Consult(s[1], Append(Threshold(in, len[2]), Least(s[2], ThresholdCounts - 1))),
                         2 * s[2] + Bit01(Peek(s[1])) >>
        high  == FoldLeft(step, <<Consult(len[1], EdgeSign(in)), 1>>,
                          [k \in 1 .. (len[2] - 1 - in.threshold) |-> k])
        n     == IF len[2] > 1 THEN Least(len[2] - 1, in.threshold) ELSE 0
        low   == GetNBits(high[1], EdgeNoise(in), n)
        abs   == high[2] * 2^n + low[2]
    IN  IF len[2] = 0 THEN [reader |-> len[1], value |-> 0]
        ELSE [reader |-> low[1], value |-> IF Peek(len[1]) THEN abs ELSE -abs]

-----------------------------------------------------------------------------
(* The DC coefficient is coded as its difference from a prediction.         *)

\* One turn around the 2049 values that a DC coefficient may have.
AdvPredictOrUnpredictDc(saved, recover, predicted) ==
    LET max == 2^(MaxExponent - 1)
        sum == saved + (IF recover THEN predicted ELSE -predicted)
        up  == IF sum < -max THEN sum + 2 * max + 1 ELSE sum
    IN  IF up > max THEN up - (2 * max + 1) ELSE up

\* A DC value outside the 2049 does not survive: the Rust encoder finds out by
\* undoing the prediction, and refuses it; the Go encoder does not look.
WriteBlockDc(in) ==
    LET diff == AsI16(AdvPredictOrUnpredictDc(in.coef, FALSE, in.predicted))
    IN  IF in.coef # AdvPredictOrUnpredictDc(diff, TRUE, in.predicted) THEN Refused
        ELSE WriteLengthSignCoef(diff, GetDcBranches(in.uncertainty, in.uncertainty2))

GoWriteBlockDc(in) ==
    WriteLengthSignCoef(AsI16(AdvPredictOrUnpredictDc(in.coef, FALSE, in.predicted)),
                        GetDcBranches(in.uncertainty, in.uncertainty2))

ReadBlockDc(r, in) ==
    LET got == ReadLengthSignCoef(r, GetDcBranches(in.uncertainty, in.uncertainty2))
    IN  [got EXCEPT !.value = AsI16(AdvPredictOrUnpredictDc(got.value, TRUE, in.predicted))]
=============================================================================
