---------------------------- MODULE SegmentedLog ----------------------------
(***************************************************************************)
(* The segmented log of src/src/log.rs with its segments (log/segment.rs), *)
(* their store files written through a buffer (log/store.rs) and their     *)
(* memory-mapped index files (log/index.rs).  Sizes of index files are in  *)
(* bytes, as is_maxed and Index::write compare them; sizes and positions   *)
(* in store files count records.                                           *)
(*                                                                         *)
(* A crash is the death of the process: what was written to a file or to a *)
(* mapped page survives, what is in the write buffer does not.  It may     *)
(* fall between any two steps that leave different files behind, those of  *)
(* Index::new and of Segment::remove included; a segment remembers when it *)
(* fell inside one of these two, because its files then say what they      *)
(* should not.                                                             *)
(***************************************************************************)
EXTENDS Naturals, Sequences, FiniteSets, SequencesExt

CONSTANTS
    Record,          \* what clients append
    Torn,            \* a record of which only a part reached the file
    inital_offset,   \* Config::inital_offset (sic)
    max_index_bytes, \* Config::max_size_bytes, the size of an index file
    max_store,       \* Config::max_store_bytes, in records
    MayCrash,        \* whether the process may die
    MayTruncate,     \* whether the log is ever truncated
    MaxOffset,       \* bound: offsets handed out
    MaxLost          \* bound: stored records that no index entry names

ASSUME ConfigAssumption ==
    /\ inital_offset \in Nat /\ max_index_bytes \in Nat /\ max_store \in Nat
    /\ MayCrash \in BOOLEAN /\ MayTruncate \in BOOLEAN
    /\ MaxOffset \in Nat /\ MaxLost \in Nat
    /\ Torn \notin Record

ENTIRE_WIDTH == 12

VARIABLES
    segments,     \* Log::segments, each with its two files
    active_index, \* Log::active_index, counted from 1
    sync_writes,  \* Config::sync_writes, fixed when the log is created
    crashed       \* history: a crash has hit a log without sync_writes

vars == <<segments, active_index, sync_writes, crashed>>

Segment ==
    [base_offset : Nat,
     next_offset : Nat,
     index  : Seq(Nat),                    \* the position of each entry
     index_file_len : Nat,                 \* bytes of the index file
     padding : {"marked", "zeros"},        \* its bytes while it has no entry
     store  : Seq(Record \cup {Torn}),     \* what is in the store file
     buffer : Seq(Record),                 \* what is in the BufWriter
     state : {"whole", "damaged"}]  \* history: whether a crash fell inside
                                    \* the creation of its index file or
                                    \* the removal of its files

TypeOK ==
    /\ segments \in Seq(Segment)
    /\ active_index \in Nat
    /\ sync_writes \in BOOLEAN /\ crashed \in BOOLEAN

active == segments[active_index]

-----------------------------------------------------------------------------
(* Segments.                                                               *)

Contents(s) == s.store \o s.buffer

index_len(s) == Len(s.index) * ENTIRE_WIDTH

store_len(s) == Len(Contents(s))

index_is_full(s) == index_len(s) + ENTIRE_WIDTH > max_index_bytes

is_maxed_late(s) ==
    index_len(s) > max_index_bytes \/ store_len(s) > max_store
is_maxed(s) ==
    index_len(s) >= max_index_bytes \/ store_len(s) >= max_store

is_in_range(s, off) == s.base_offset <= off /\ off < s.next_offset

is_lesser_than_range(s, off) == off < s.base_offset

flush(s) == [s EXCEPT !.store = Contents(s), !.buffer = <<>>]

(* Index::close cuts the file to its entries.                              *)
index_close(s) == [s EXCEPT !.index_file_len = index_len(s)]

close(s) == index_close(flush(s))

(* Store::append; with sync_writes the record is in the file on return.    *)
store_append(s, r) ==
    LET written == [s EXCEPT !.buffer = Append(@, r)]
    IN  IF sync_writes THEN flush(written) ELSE written

index_write(s, pos) == [s EXCEPT !.index = Append(@, pos)]

(* Segment::append when the index has room: the store first, then the      *)
(* index entry with the position the record got.                           *)
segment_append_after(s, r) ==
    [index_write(store_append(s, r), store_len(s) + 1) EXCEPT
        !.next_offset = @ + 1]
segment_append(s, r) ==
    [index_write(store_append(s, r), store_len(s)) EXCEPT
        !.next_offset = @ + 1]

(* The position Index::read gives for an offset of the segment, and what   *)
(* Store::read finds at a position.                                        *)
index_read(s, off) == s.index[off - s.base_offset + 1]

store_read(s, pos) ==
    IF pos < store_len(s) THEN Contents(s)[pos + 1] ELSE Torn

(* The record at an offset, as Log::read finds it in the first segment     *)
(* that has the offset in its range.                                       *)
Readable(off) ==
    \E i \in 1..Len(segments) : is_in_range(segments[i], off)

SegmentOf(off) ==
    CHOOSE i \in 1..Len(segments) :
        /\ is_in_range(segments[i], off)
        /\ \A j \in 1..(i - 1) : ~is_in_range(segments[j], off)

RecordAt(off) ==
    LET s == segments[SegmentOf(off)]
    IN  store_read(s, index_read(s, off))

(* How many records the store files hold beyond those the indexes name.    *)
Lost ==
    FoldSeq(LAMBDA s, n : n + Cardinality({p \in 0..(store_len(s) - 1) :
                                             p \notin Range(s.index)}),
            0, segments)

-----------------------------------------------------------------------------
(* Opening a directory.                                                    *)

(* The bytes of an index file of full length that hold entries: all slots  *)
(* before the first one whose offset is not the number of the slot.  Zeros *)
(* are the offset of the first slot and of no other, so the padding is of  *)
(* interest only as long as there are no entries.                          *)
recover_size(s) ==
    IF /\ s.index = <<>>
       /\ s.padding = "zeros"
       /\ ENTIRE_WIDTH <= max_index_bytes
    THEN ENTIRE_WIDTH ELSE index_len(s)

(* Index::new: an empty file is new, and one that close has cut holds      *)
(* entries up to its end.                                                  *)
IndexSize(s) ==
    IF s.index_file_len # 0 /\ s.index_file_len = max_index_bytes
    THEN recover_size(s) ELSE s.index_file_len

(* Index::new then extends the file with zeros, and fills a new one with   *)
(* 0xFF.                                                                   *)
PaddingUnmarked(s) ==
    IF s.index_file_len = 0 THEN "zeros" ELSE s.padding
Padding(s) ==
    IF s.index_file_len = 0 THEN "marked" ELSE s.padding

(* A new file when the process dies before the fill: it has its full       *)
(* length and looks like one that was in use.                              *)
set_len(s) ==
    [s EXCEPT !.index_file_len = max_index_bytes,
              !.padding = "zeros",
              !.state = "damaged"]

NextAfter(s) == s.base_offset + IndexSize(s) \div ENTIRE_WIDTH

(* Segment::new continues after the entries of the index; the store keeps  *)
(* what is in the file, whether an index entry names it or not.  An entry  *)
(* taken from zeros has position 0.                                        *)
ReopenedAtLast(s) ==
    [s EXCEPT !.next_offset = NextAfter(s) - 1,
              !.index_file_len = max_index_bytes,
              !.padding = Padding(s),
              !.buffer = <<>>]
ReopenedEmpty(s) ==
    [s EXCEPT !.next_offset = NextAfter(s),
              !.index = IF IndexSize(s) > index_len(s) THEN <<0>> ELSE @,
              !.index_file_len = max_index_bytes,
              !.padding = Padding(s),
              !.store = <<>>,
              !.buffer = <<>>]
Reopened(s) ==
    [s EXCEPT !.next_offset = NextAfter(s),
              !.index = IF IndexSize(s) > index_len(s) THEN <<0>> ELSE @,
              !.index_file_len = max_index_bytes,
              !.padding = Padding(s),
              !.buffer = <<>>]

(* The files Segment::new creates for a base offset that has none.         *)
NewFiles(base) ==
    [base_offset |-> base, next_offset |-> base, index |-> <<>>,
     index_file_len |-> 0, padding |-> "zeros",
     store |-> <<>>, buffer |-> <<>>, state |-> "whole"]

(* Those of the segment that follows the one whose last offset is off.     *)
SuccessorAtLast(off) == NewFiles(off)
Successor(off) == NewFiles(off + 1)

(* Where Log::new may have died before it was called again: after set_len  *)
(* of an index file that had no bytes.  Anywhere else it leaves the files  *)
(* as it found them, or as it would make them.                             *)
TornSets(files) ==
    {torn \in SUBSET {i \in DOMAIN files : files[i].index_file_len = 0} :
        MayCrash \/ torn = {}}

Opened(files, torn) ==
    [i \in DOMAIN files |->
        Reopened(IF i \in torn THEN set_len(files[i]) ELSE files[i])]

Open(files) ==
    LET found == IF files = <<>> THEN <<NewFiles(inital_offset)>> ELSE files
    IN  /\ \E torn \in TornSets(found) : segments' = Opened(found, torn)
        /\ active_index' = Len(segments')
        /\ UNCHANGED sync_writes

Init ==
    /\ \E torn \in TornSets(<<NewFiles(inital_offset)>>) :
          segments = Opened(<<NewFiles(inital_offset)>>, torn)
    /\ active_index = 1
    /\ sync_writes \in BOOLEAN
    /\ crashed = FALSE

-----------------------------------------------------------------------------
(* Operations of Log.                                                      *)

(* Log::append with room in the index; a segment that is now full gets a   *)
(* successor at once.                                                      *)
append(r) ==
    LET s == segment_append(active, r)
        grown == [segments EXCEPT ![active_index] = s]
    IN  /\ active.next_offset < MaxOffset
        /\ ~index_is_full(active)
        /\ IF is_maxed(s)
           THEN /\ segments' = Append(grown,
                                     Reopened(Successor(active.next_offset)))
                /\ active_index' = active_index + 1
           ELSE /\ segments' = grown
                /\ UNCHANGED active_index
        /\ UNCHANGED <<sync_writes, crashed>>

(* Log::append when the index is full: the store has taken the record, the *)
(* caller gets an error.                                                   *)
append_fails(r) ==
    /\ index_is_full(active)
    /\ Lost < MaxLost
    /\ segments' = [segments EXCEPT ![active_index] = store_append(active, r)]
    /\ UNCHANGED <<active_index, sync_writes, crashed>>

(* Log::read leaves nothing in the write buffer of the segment.            *)
read(off) ==
    /\ Readable(off)
    /\ segments' = [segments EXCEPT ![SegmentOf(off)] = flush(@)]
    /\ UNCHANGED <<active_index, sync_writes, crashed>>

(* Log::truncate drops the last segment as long as it begins after off.    *)
truncate(off) ==
    \E n \in 0..Len(segments) :
        /\ MayTruncate
        /\ \A i \in (n + 1)..Len(segments) :
              is_lesser_than_range(segments[i], off)
        /\ n # 0 => ~is_lesser_than_range(segments[n], off)
        /\ segments' = SubSeq(segments, 1, n)
        /\ active_index' = active_index - (Len(segments) - n)
        /\ UNCHANGED <<sync_writes, crashed>>

(* Log::close, and Log::new on the same directory.                         *)
close_and_reopen ==
    /\ Open([i \in DOMAIN segments |-> close(segments[i])])
    /\ UNCHANGED crashed

(* The process dies, and the log is opened again.                          *)
Restart(files) ==
    /\ MayCrash
    /\ Open(files)
    /\ crashed' = (crashed \/ ~sync_writes)

(* Of the write buffers any part may have reached the files.               *)
crash ==
    \E n \in [DOMAIN segments -> UNION {0..Len(segments[i].buffer) :
                                          i \in DOMAIN segments}] :
        /\ \A i \in DOMAIN segments : n[i] <= Len(segments[i].buffer)
        /\ Restart([i \in DOMAIN segments |->
                     [segments[i] EXCEPT
                        !.store = @ \o SubSeq(segments[i].buffer, 1, n[i])]])

(* It dies inside Store::append or before Index::write: the store has the  *)
(* record or a part of it, the index does not know.                        *)
crash_during_append(r) ==
    /\ Lost < MaxLost
    /\ \E stored \in {r, Torn} :
          Restart([segments EXCEPT ![active_index].store =
                    @ \o active.buffer \o <<stored>>])

(* It dies after Index::write and before Log::append creates the segment   *)
(* that follows a full one.                                                *)
crash_before_rotation(r) ==
    /\ active.next_offset < MaxOffset
    /\ ~index_is_full(active)
    /\ Restart([segments EXCEPT ![active_index] = segment_append(active, r)])

(* It dies in the Segment::new of that rotation, which has created the     *)
(* files; Open says what Index::new may have done to them.                 *)
crash_during_rotation(r) ==
    LET s == segment_append(active, r)
        grown == [segments EXCEPT ![active_index] = s]
    IN  /\ active.next_offset < MaxOffset
        /\ ~index_is_full(active)
        /\ is_maxed(s)
        /\ Restart(Append(grown, Successor(active.next_offset)))

(* It dies in Log::close, which has closed the first segments.             *)
crash_during_close ==
    \E n \in 0..Len(segments) :
        Restart([i \in DOMAIN segments |->
                    IF i <= n THEN close(segments[i]) ELSE segments[i]])

(* It dies in Log::truncate: some of the segments to be dropped are gone.  *)
(* Segment::remove has closed the one that is then the last, and may have  *)
(* removed its store file but not yet its index file.                      *)
store_removed(s) == [s EXCEPT !.store = <<>>, !.state = "damaged"]

crash_during_truncate(off) ==
    /\ MayTruncate
    /\ \E n \in {i \in DOMAIN segments :
                    is_lesser_than_range(segments[i], off)} :
          LET closed == close(segments[n])
          IN  \E last \in {closed, store_removed(closed)} :
                 Restart([i \in 1..n |-> IF i = n THEN last
                                                 ELSE segments[i]])

Next ==
    \/ \E r \in Record : \/ append(r) \/ append_fails(r)
                         \/ crash_during_append(r) \/ crash_before_rotation(r)
                         \/ crash_during_rotation(r)
    \/ \E off \in inital_offset..MaxOffset : \/ read(off) \/ truncate(off)
                                               \/ crash_during_truncate(off)
    \/ close_and_reopen
    \/ crash
    \/ crash_during_close

Spec == Init /\ [][Next]_vars

-----------------------------------------------------------------------------
(* Properties.                                                             *)

(* The log as its users see it: the records read back, offset by offset.   *)
ReadBack ==
    LET first == inital_offset
        last  == active.next_offset - 1
    IN  [i \in 1..(last + 1 - first) |-> RecordAt(first + i - 1)]

(* The first offset the log does not answer for: the end, or where the     *)
(* first damaged segment begins.                                           *)
SureEnd ==
    Min({active.next_offset} \cup
        {s.base_offset : s \in {t \in Range(segments) :
                              t.state = "damaged"}})

(* The records the log answers for: all of them up to there, until a crash *)
(* hits a log that does not sync its writes.                               *)
Promised ==
    IF crashed THEN <<>>
    ELSE SubSeq(ReadBack, 1, SureEnd - inital_offset)

Abstract == INSTANCE AppendLog WITH entries <- Promised

(* The segmented log is an append log up to its first damaged segment: no  *)
(* rotation, reopening, failed append, read of a buffered record or, with  *)
(* sync_writes, crash ever changes, moves or drops a record that an append *)
(* has acknowledged there (log.rs, segment.rs, store.rs and index.rs       *)
(* together).                                                              *)
ImplementsAppendLog == Abstract!Spec

(* A record that has reached the store file stays readable with its value  *)
(* for as long as its offset is in the log, whatever else a crash without  *)
(* sync_writes loses, unless the crash left its segment damaged            *)
(* (Store::append, Index::recover_size, Log::new).                         *)
InFile(off) ==
    LET s == segments[SegmentOf(off)]
    IN  index_read(s, off) < Len(s.store)

InDamaged(off) == segments[SegmentOf(off)].state = "damaged"

StoredRecordsStay ==
    [][\A off \in inital_offset..MaxOffset :
         Readable(off) /\ InFile(off) /\ Readable(off)' /\ ~InDamaged(off)'
         => RecordAt(off)' = RecordAt(off)]_vars

(* What README.md says of truncation and recovery: a segment is removed or *)
(* it is kept, so a stored record whose offset is in the log is readable.  *)
(* Segment::remove takes the store file away first (segment.rs:124).  What *)
(* a segment holds that was damaged already is not asked for.              *)
RemovedOrKept ==
    [][\A off \in inital_offset..MaxOffset :
         Readable(off) /\ InFile(off) /\ ~InDamaged(off) /\ Readable(off)'
         => RecordAt(off)' = RecordAt(off)]_vars

(* The segments follow one another without gap or overlap, and the active  *)
(* one is the last: an offset is found in exactly one segment, and append  *)
(* continues where the log ends (Log::append, truncate and new).           *)
SegmentsAreContiguous ==
    /\ active_index = Len(segments)
    /\ \A i \in 1..(Len(segments) - 1) :
          segments[i].next_offset = segments[i + 1].base_offset

(* With sync_writes every entry of an undamaged segment names a record in  *)
(* its store file: neither the 0xFF of a new index file nor the zeros that *)
(* follow the entries of one that was closed are taken for entries, and no *)
(* crash loses the record of an entry (Index::new, recover_size and close, *)
(* Segment::append).                                                       *)
EntriesAreReal ==
    sync_writes => \A s \in Range(segments) :
                       s.state = "whole" =>
                           \A i \in DOMAIN s.index :
                                        s.index[i] < Len(s.store)

(* What the comment in Index::new says: recover_size can tell a real entry *)
(* from padding, in every index file (index.rs:36).  It cannot in one that *)
(* has its length but not yet its marks.                                   *)
PaddingIsNoEntry ==
    sync_writes => \A s \in Range(segments) : \A i \in DOMAIN s.index :
                       s.index[i] < Len(s.store)

(* Rotation is in time (Log::append, is_maxed, Index::write): an append    *)
(* that succeeds leaves an active segment with room for one more entry.    *)
(* The one exception is an index file whose size is no whole number of     *)
(* entries: it is full below its size, where is_maxed does not see it, and *)
(* only a full store rotates the segment.                                  *)
RotationIsInTime ==
    [][(\E r \in Record : append(r))
       => \/ ~index_is_full(active)'
          \/ /\ max_index_bytes % ENTIRE_WIDTH # 0
             /\ store_len(active)' < max_store]_vars

(* What README.md says of rotation, the comment on Segment::append of its  *)
(* callers, that they check is_maxed before they append (segment.rs:332),  *)
(* and the tests of log.rs of an append to a full log: between two         *)
(* operations the active segment has room for an entry.  It does not hold: *)
(* not when the size of the index file is no whole number of entries, and  *)
(* for no size after truncate or Log::new made a full segment active.      *)
ActiveHasRoom == ~index_is_full(active)
=============================================================================
