---------------------------- MODULE MCRowRanges -----------------------------
(***************************************************************************)
(* Pictures with one to three components in the usual samplings and an     *)
(* unusual one (a first component that is smaller than the second), one to *)
(* three blocks wide and up to ten MCU rows high, so that there are up to  *)
(* four threads of two or three rows; each may be cut after any block.     *)
(***************************************************************************)
EXTENDS RowRanges

SF(v, h) == [v |-> v, h |-> h]

Samplings == { <<SF(1, 1)>>, <<SF(2, 2)>>, <<SF(2, 2), SF(1, 1)>>, <<SF(1, 1), SF(2, 2)>>,
               <<SF(1, 2), SF(1, 1), SF(1, 1)>> }

\* Heights of this many MCU rows, in blocks; the last row may be incomplete.
MCPictures ==
    {Header(height, width, sf, [i \in DOMAIN sf |-> i], 0, TRUE) :
        height \in {1, 2, 3, 5, 7, 8, 10}, width \in {1, 2, 3}, sf \in Samplings}

\* A picture that is not interleaved and whose first scan is that of its last
\* component.
MCLastComponentFirst ==
    {Header(height, width, <<SF(1, 1), SF(1, 1)>>, <<2>>, 0, TRUE) : height \in 1 .. 4, width \in 1 .. 2}
=============================================================================
