---------------------------- MODULE MCMarkerScan ----------------------------
(***************************************************************************)
(* The marker scan on every file of at most MaxLines lines.                *)
(***************************************************************************)
EXTENDS MarkerScan, SequencesExt

MaxLines == 5
MCInputs == SeqOf(Line, MaxLines)
MCBaseline == <<>>
MCTerminate == [l \in Line |-> l]
=============================================================================
