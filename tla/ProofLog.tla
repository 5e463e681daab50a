------------------------------- MODULE ProofLog -------------------------------
(***************************************************************************)
(* The process log a saved file carries (sigan/src/prooflog.cpp): drawn    *)
(* operations counted from the frames of the journal and nothing else.     *)
(*                                                                         *)
(* A frame is its number and the flags the log reads: Down and Up on the   *)
(* first and last point of an operation, Synthetic on a region's two.      *)
(* Times, positions and origins are left out: one session, one agent.      *)
(***************************************************************************)
EXTENDS Naturals, Sequences, FiniteSets

\* StrokeEntry and onRegionOp: frame seq of the operations drawn, two for each.
FrameOf(drawn, seq) ==
  [seq |-> seq, down |-> seq % 2 = 1, up |-> seq % 2 = 0,
   synthetic |-> drawn[(seq + 1) \div 2] = "region"]

\* What a summary says of its frames so far.
Begun(f)        == [first |-> f.seq, last |-> f.seq, points |-> 1, synthetic |-> f.synthetic]
Continued(s, f) == [s EXCEPT !.last = f.seq, !.points = @ + 1]

\* One frame: a Down begins a summary even if the one before had no Up.
Summarized(acc, f) ==
  LET begins == acc.cur = <<>> \/ f.down
      cur    == IF begins THEN Begun(f) ELSE Continued(acc.cur[1], f)
      done   == IF begins THEN acc.done \o acc.cur ELSE acc.done
  IN  IF f.up THEN [done |-> Append(done, cur), cur |-> <<>>]
              ELSE [done |-> done, cur |-> <<cur>>]

\* summarizeStrokes: one that was cut off is not hidden.
SummarizeStrokes(frames) ==
  LET upTo[i \in 0..Len(frames)] ==
        IF i = 0 THEN [done |-> <<>>, cur |-> <<>>] ELSE Summarized(upTo[i - 1], frames[i])
      end == upTo[Len(frames)]
  IN  end.done \o end.cur

\* brushStrokeStats and regionOpStats: two axes that are never added up.
Counts(strokes, synthetic) ==
  Cardinality({i \in DOMAIN strokes : strokes[i].synthetic = synthetic})

\* JournalScan::seqGaps: the numbers missing between two frames; what is missing
\* at the end does not show.
SeqGaps(frames) ==
  UNION {frames[i - 1].seq + 1 .. frames[i].seq - 1 : i \in 2..Len(frames)}

\* buildProofLog.
BuildProofLog(frames) ==
  LET strokes == SummarizeStrokes(frames)
  IN  [strokes |-> strokes, brushStrokes |-> Counts(strokes, FALSE),
       regionOps |-> Counts(strokes, TRUE), lostFrames |-> SeqGaps(frames)]
=============================================================================
