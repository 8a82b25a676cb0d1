----------------------------- MODULE JpegScans ------------------------------
(***************************************************************************)
(* A scan of a JPEG file, read (jpeg_read.rs) and written again            *)
(* (jpeg_write.rs), at six levels, one per behaviour:                      *)
(*   "file"   the headers and scans of a whole file: ScanSequence;         *)
(*   "first"  the order of the blocks of a first scan, the only one of a   *)
(*            sequential picture (read_first_scan): ScanOrder;             *)
(*   "ac"     the runs of empty blocks of a later AC scan                  *)
(*            (read_progressive_scan): AcScan;                             *)
(*   "block"  the symbols of one block, in each of the three passes:       *)
(*            BlockCodes;                                                  *)
(*   "bits"   a table of Huffman codes and the bits of one symbol:         *)
(*            HuffmanTable;                                                *)
(*   "bytes"  codes and literals one after another, in the bytes of a scan   *)
(*            that threads share: BitIO.                                   *)
(* Each level takes what the next one codes for granted. They share their  *)
(* variables: what is read is codes, what is written out; s and ws are the *)
(* reader and the writer, sta how far they are.                            *)
(***************************************************************************)
CONSTANTS Headers,   \* the pictures of first scans
          Scans,     \* those of AC scans
          MaxRuns,   \* max_eob_run of the Huffman tables of AC scans
          Last63, MaxZeros, MaxSize, Half, BlockInputs,   \* of BlockCodes
          Runs, Sizes, MaxLen, PeekBits, Segments,        \* of HuffmanTable
          NumQ, LastBand, HalfI16, DcValues, AcValues, JpegFiles,  \* of ScanSequence
          RegBytes, BufSizes, LiteralLens, CodeLens, MaxPastEof, Files   \* of BitIO

VARIABLES kind, jf, s, sta, ws, wsta,
          cpos, seen, twice, handoffs, rowEnded, markers,
          first, max, codes, image, covered, odd, bits, out

positions == <<s, ws, wsta>>
firstOnly == <<cpos, seen, twice, handoffs, rowEnded, markers>>
acOnly == <<first, max, codes, image, covered, odd, bits, out>>
vars == <<kind, jf, sta, positions, firstOnly, acOnly>>

FirstScan == INSTANCE ScanOrder
Ac == INSTANCE AcScan
Block == INSTANCE BlockCodes WITH input <- jf, block <- image, bpos <- covered
Huffman == INSTANCE HuffmanTable WITH segment <- jf, table <- image, coef <- bits
File == INSTANCE ScanSequence WITH jpeg <- jf, hdr <- s, dec <- ws, next <- covered,
                                   coefs <- image, known <- bits
Bytes == INSTANCE BitIO WITH go <- first, r <- s, pad <- max, w <- ws, from <- covered,
                             resets <- markers, asked <- bits, phase <- sta

NoOrder ==
    /\ cpos = 0 /\ seen = {} /\ handoffs = {} /\ markers = 0
    /\ twice = FALSE /\ rowEnded = FALSE

NoPosition == s = << >> /\ ws = << >> /\ wsta = "none" /\ first = FALSE /\ max = 0

Init ==
    \/ /\ kind = "first"
       /\ FirstScan!Init
       /\ first = FALSE /\ max = 0 /\ covered = 0 /\ odd = {}
       /\ codes = << >> /\ image = << >> /\ bits = << >> /\ out = << >>
    \/ /\ kind = "ac"
       /\ Ac!Init
       /\ NoOrder
    \/ /\ kind = "block"
       /\ Block!Init
       /\ bits = << >>
       /\ NoOrder /\ NoPosition
    \/ /\ kind = "bits"
       /\ Huffman!Init
       /\ covered = 0 /\ odd = {}
       /\ NoOrder /\ NoPosition
    \/ /\ kind = "file"
       /\ File!Init
       /\ NoOrder
       /\ wsta = "none" /\ first = FALSE /\ max = 0
    \/ /\ kind = "bytes"
       /\ Bytes!Init
       /\ NoOrder
       /\ jf = << >> /\ wsta = "none" /\ odd = {} /\ codes = << >> /\ image = << >>

Next ==
    \/ /\ kind = "first"
       /\ FirstScan!Next
       /\ UNCHANGED <<kind, acOnly>>
    \/ /\ kind = "ac"
       /\ Ac!Next
       /\ UNCHANGED <<kind, firstOnly>>
    \/ /\ kind = "block"
       /\ Block!Next
       /\ UNCHANGED <<kind, positions, firstOnly, first, max, bits>>
    \/ /\ kind = "bits"
       /\ Huffman!Next
       /\ UNCHANGED <<kind, positions, firstOnly, first, max, covered, odd>>
    \/ /\ kind = "file"
       /\ File!Next
       /\ UNCHANGED <<kind, wsta, firstOnly, first, max>>
    \/ /\ kind = "bytes"
       /\ Bytes!Next
       /\ UNCHANGED <<kind, jf, wsta, cpos, seen, twice, handoffs, rowEnded, codes, image, odd>>

Spec == Init /\ [][Next]_vars

-----------------------------------------------------------------------------
(* The properties of the six modules, each of its own level.               *)

\* A row that is written from its number alone is written where, and with the
\* reset codes with which, the whole scan was read.
RowsRestartInStep == kind = "first" => FirstScan!RowsRestartInStep

\* next_mcu_pos visits every block of a scan once.
EveryBlockOnce == kind = "first" => FirstScan!EveryBlockOnce

\* decode_baseline_rst takes a handoff at every row and nowhere else, also if a
\* restart interval ends there.
HandoffsAtRows == kind = "first" => FirstScan!HandoffsAtRows

\* skip_eobrun lands where next_mcu_pos would, and never outside the image.
PositionsAgree == kind = "ac" => Ac!PositionsAgree

\* What the reader accepted is written back: process_progressive writes each scan
\* with the header and the approximations it was read with, recode_one_mcu_row gathers the runs
\* of blocks that read_progressive_scan met, the encoders of a block choose the
\* symbols that its decoders met, and a symbol's code and literal the bits.
Rewritten ==
    CASE kind \in {"first", "bytes"} -> TRUE
      [] kind = "ac" -> Ac!Rewritten
      [] kind = "block" -> Block!Rewritten
      [] kind = "bits" -> Huffman!Rewritten
      [] kind = "file" -> File!Rewritten

\* Tables that are updated between scans, quantization tables included, leave a file
\* restorable. This is what jpeg_read.rs:382 expects, and it does not hold.
UpdatedTablesRestored == kind = "file" => File!UpdatedTablesRestored

\* The reader refuses only what cannot be written back: check_optimal_eobrun and
\* skip_eobrun for runs, the decoders of a block for symbols, construct_from_segment,
\* construct_hufftree and next_huff_code for tables and bits.
NoSpuriousRefusal ==
    CASE kind \in {"first", "file", "bytes"} -> TRUE
      [] kind = "ac" -> Ac!NoSpuriousRefusal
      [] kind = "block" -> Block!NoSpuriousRefusal
      [] kind = "bits" -> Huffman!NoSpuriousRefusal

\* stream_position, overhang and undo_read_ahead, with the writers of the threads split
\* there: what was read so far is what has been written so far, to the bit.
RebuildsFile == kind = "bytes" => Bytes!RebuildsFile

\* read_and_verify_fill_bits and pad, at the end of the scan or of a cut file: the
\* threads together write the bytes that were read, and nothing else.
ScanRebuilt == kind = "bytes" => Bytes!ScanRebuilt

\* fill_register_slow fails on a marker only once the bits before it are used up.
MarkerOnlyWhenReached == [][kind = "bytes" => Bytes!MarkerReached]_vars
=============================================================================
