------------------------------ MODULE AppendLog ------------------------------
(***************************************************************************)
(* What a log promises to the runtime that uses it: a sequence of records  *)
(* to which one can append, and whose end can be cut off.  Nothing else    *)
(* changes it: a record that was appended keeps its place and its value.   *)
(***************************************************************************)
EXTENDS Naturals, Sequences

CONSTANT Record

VARIABLE entries

Init == entries = <<>>

AppendRecord ==
    \E r \in Record : entries' = Append(entries, r)

CutEnd ==
    \E n \in 0..Len(entries) : entries' = SubSeq(entries, 1, n)

Spec == Init /\ [][AppendRecord \/ CutEnd]_entries
=============================================================================
