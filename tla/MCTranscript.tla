----------------------------- MODULE MCTranscript -----------------------------
(* Instances of Transcript for TLC.                                         *)
EXTENDS Transcript

CONSTANTS u1, f1, w1

(* Bound: once an entry has been put before the one being written,          *)
(* SegmentsWhole, FramesReplay and WatchersSettle claim nothing any more.   *)
InPlace == ~displaced
=============================================================================
