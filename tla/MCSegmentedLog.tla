--------------------------- MODULE MCSegmentedLog ---------------------------
(* Model checking of SegmentedLog: no operation looks into a record.       *)
EXTENDS SegmentedLog, TLC

RecordSymmetry == Permutations(Record)
=============================================================================
