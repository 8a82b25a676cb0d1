--------------------------- MODULE MCStreamCoding ---------------------------
(***************************************************************************)
(* Numbers on both sides of every power of two and of both limits, with     *)
(* the extremes of what contexts depend on; and ranges of up to three rows  *)
(* of two blocks, so that every neighbourhood occurs and the ring of        *)
(* summaries is overwritten. For the coder a 24-bit word: fresh contexts    *)
(* may follow an opening after which the interval straddles a boundary with *)
(* two 0xFF bytes in the buffer, so that a carry is one put away; skewed    *)
(* (most biased) contexts make one put consume up to 7 bits, also several   *)
(* times in a row.                                                          *)
(***************************************************************************)
EXTENDS StreamCoding, BlockCoding

Around == UNION {{2^n - 2, 2^n - 1, 2^n, 2^n + 1} : n \in 1 .. 11} \cup {341, 682, 683, 1365, 1706}
Both(S) == S \cup {-k : k \in S}
Coefs == Both(0 .. 140 \cup Around)

CoefInputs ==
    [kind : {"coef"}, coef : -2050 .. 2050, bin : {0}, zig49 : {0}, priorLen : {0}] \cup
    [kind : {"coef"}, coef : -2050 .. 2050, bin : {8}, zig49 : {48}, priorLen : {11}]

EdgePriors == Both({0, 1, 3, 255, 1500, 2047, 32768, 65536, 65540, 1000000000})

EdgeInputs ==
    {[kind |-> "edge", coef |-> c, nonZeros |-> 7, zig15 |-> z, prior |-> p,
      threshold |-> MinNoiseThreshold(f, q)] :
        c \in Coefs, z \in {13}, p \in EdgePriors, f \in {1020}, q \in {0, 1, 2, 4, 9}}

DcValues == -1030 .. 1030 \cup Both({1500, 2047, 2048, 4000, 32767}) \cup {-32768}
Predictions == Both({0, 1, 1023, 1024, 1025, 2048, 2049, 2050, 3072, 3073, 4096, 32767})

DcInputs(kind, predictions) ==
    [kind : {kind}, coef : DcValues, predicted : predictions,
     uncertainty : {4095}, uncertainty2 : {-32768}]

NumberInputs ==
    CoefInputs \cup EdgeInputs \cup DcInputs("dc", Predictions) \cup DcInputs("goDc", Both({0, 1024, 3072})) \cup
    [kind : {"dc"}, coef : {-1024, 0, 7, 1024}, predicted : {0, 900},
     uncertainty : {0, -3, 8191}, uncertainty2 : Both({0, 1, 511, 32767})]

-----------------------------------------------------------------------------

MakeBlock(F(_, _)) == Vec(LAMBDA u : Vec(LAMBDA v : F(u, v)))

Flat(dc) == MakeBlock(LAMBDA u, v : IF u = 1 /\ v = 1 THEN dc ELSE 0)
\* All coefficients, of both signs.
Full == MakeBlock(LAMBDA u, v : IF (u + v) % 2 = 0 THEN 9 - u ELSE v - 9)
\* Only edges, with gaps.
Edges == MakeBlock(LAMBDA u, v : IF u = 1 /\ v \in {3, 8} THEN 40 ELSE IF v = 1 /\ u \in {2, 7} THEN -300 ELSE 0)
\* The last inner coefficient and long edges.
Long == MakeBlock(LAMBDA u, v : IF u = 8 /\ v = 8 THEN -2047 ELSE IF u = 1 /\ v = 2 THEN 1023 ELSE 0)
Sparse == MakeBlock(LAMBDA u, v : IF u = 4 /\ v = 2 THEN 5 ELSE IF u = 3 /\ v = 1 THEN 1 ELSE IF u * v = 1 THEN -900 ELSE 0)
TooLong == MakeBlock(LAMBDA u, v : IF u = 2 /\ v = 1 THEN 2048 ELSE 0)

BlockKinds == {Flat(0), Flat(1024), Full, Edges, Long, Sparse}

Quantisers(q, odd) == MakeBlock(LAMBDA u, v : IF u = 1 /\ v = 4 THEN odd ELSE q)

Narrow == {[advPredict16 |-> b, dcEstimate16 |-> b] : b \in BOOLEAN}

Picture(kind, start, rows, size, blocks, q, f) ==
    [kind |-> kind, width |-> 2, startY |-> start, endY |-> rows, size |-> size, blocks |-> blocks,
     q |-> q, f |-> f, stated |-> TRUE, flag |-> TRUE]

\* Steep edges, so that the two arithmetics differ: a picture whose header does
\* not tell which one was used, and one whose header corrects the caller.
Steep(k) == MakeBlock(LAMBDA u, v : IF u = 1 /\ v = 5 THEN k ELSE IF u = 2 /\ v = 5 THEN 100 ELSE 0)

DllInputs ==
    {[Picture("picture", 0, 3, 6, <<Steep(500), a, b, Sparse, b, a>>, Quantisers(20, 20),
              [advPredict16 |-> TRUE, dcEstimate16 |-> b16])
         EXCEPT !.stated = s, !.flag = given] :
        a \in {Sparse} \cup {Steep(k) : k \in {700, 800, 820, 900}}, b \in {Flat(7), Full}, b16, s, given \in BOOLEAN}

\* Every arrangement of the first row and the left block of the second.
PictureInputs ==
    {Picture("picture", 0, 3, 6, <<a, b, c, Sparse, b, a>>, Quantisers(1, 9), [advPredict16 |-> FALSE, dcEstimate16 |-> FALSE]) :
        a, b, c \in BlockKinds}
    \cup
    {Picture("picture", 1, 4, 7, <<Full, Full, a, b, Full, a, b, Edges>>, Quantisers(3, odd), f) :
        a, b \in {Full, Edges, Sparse}, odd \in {0, 2}, f \in Narrow}
    \cup
    {Picture("picture", 0, 2, 4, <<Full, a, b, Full>>, Quantisers(1, 1), [advPredict16 |-> FALSE, dcEstimate16 |-> FALSE]) :
        a, b \in {TooLong, Flat(1025), Flat(-1024)}}

\* Bits that repeat a pattern.
NoiseInputs ==
    {[[stream |-> [k \in 1 .. 600 |-> << <<"noise">>, bits[(k % Len(bits)) + 1]>>]]
        @@ Picture("noise", 0, 3, 6, << >>, Quantisers(1, 2), [advPredict16 |-> FALSE, dcEstimate16 |-> FALSE])
        EXCEPT !.flag = given] :
        bits \in UNION {[1 .. n -> BOOLEAN] : n \in 1 .. 6}, given \in BOOLEAN}

Fresh  == [i \in 0 .. 3 |-> 257]
Skewed == [i \in 0 .. 3 |-> IF i % 2 = 0 THEN 65281 ELSE 511]

MCContexts == {Fresh, Skewed}
MCOpenings == [start \in MCContexts |->
    IF start = Skewed THEN { << >>, <<1,1,1>> }
    ELSE { << >>, <<0,0,1,0,0,1,1,1,1,1,1,0,0,0,1,1,1,0,0,0,0,1,0,1,0,1,0>> }]

\* For a run of the model alone.
NoStreams == {}

MCInputs == NumberInputs \cup PictureInputs \cup DllInputs \cup NoiseInputs

\* The DC values that 8-bit samples and a quantiser of 1 can give, and a few that
\* only the entropy code can express.
MCGoInputs == [kind : {"goDc"}, coef : -1100 .. 1100, predicted : Both({0, 1, 1023, 1024}),
               uncertainty : {0}, uncertainty2 : {0}]
=============================================================================
