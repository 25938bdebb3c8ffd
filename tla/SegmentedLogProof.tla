------------------------- MODULE SegmentedLogProof -------------------------
(***************************************************************************)
(* Theorems about SegmentedLog, for every configuration of the log.        *)
(***************************************************************************)
EXTENDS SegmentedLog, SequenceTheorems, WellFoundedInduction, TLAPS

-----------------------------------------------------------------------------
(* Segments.                                                               *)

(* The padding of an index file is not taken for an entry: it is marked,   *)
(* it follows entries, or there is no room for one.                        *)
Marked(s) ==
    s.padding = "marked" \/ s.index # <<>> \/ max_index_bytes < 12

(* The entries of an open segment are those its offsets say, they fit into *)
(* the index file, and the file has its full length and marked padding.    *)
Sound(s) ==
    /\ s.next_offset = s.base_offset + Len(s.index)
    /\ s.index_file_len = max_index_bytes
    /\ Marked(s)
    /\ index_len(s) <= max_index_bytes

(* What the fields of a segment are.                                       *)
LEMMA SegmentFields ==
    ASSUME NEW s \in Segment
    PROVE  /\ s.base_offset \in Nat /\ s.next_offset \in Nat
           /\ s.index \in Seq(Nat) /\ s.index_file_len \in Nat
           /\ s.padding \in {"marked", "zeros"}
           /\ s.state \in {"whole", "damaged"}
           /\ s.store \in Seq(Record \cup {Torn}) /\ s.buffer \in Seq(Record)
           /\ Contents(s) \in Seq(Record \cup {Torn})
           /\ store_len(s) = Len(s.store) + Len(s.buffer)
           /\ index_len(s) = 12 * Len(s.index) /\ Len(s.index) \in Nat
           /\ Len(s.store) \in Nat /\ Len(s.buffer) \in Nat
           /\ store_len(s) \in Nat
<1>1. /\ s.base_offset \in Nat /\ s.next_offset \in Nat
      /\ s.index \in Seq(Nat) /\ s.index_file_len \in Nat
      /\ s.padding \in {"marked", "zeros"}
      /\ s.state \in {"whole", "damaged"}
      /\ s.store \in Seq(Record \cup {Torn}) /\ s.buffer \in Seq(Record)
  BY DEF Segment
<1>2. s.buffer \in Seq(Record \cup {Torn})
  BY <1>1, SeqMonotonic
<1>3. /\ Contents(s) \in Seq(Record \cup {Torn})
      /\ store_len(s) = Len(s.store) + Len(s.buffer)
  BY <1>1, <1>2, ConcatProperties DEF Contents, store_len
<1>4. /\ Len(s.index) \in Nat /\ Len(s.store) \in Nat /\ Len(s.buffer) \in Nat
  BY <1>1
<1>5. index_len(s) = 12 * Len(s.index)
  BY <1>4 DEF index_len, ENTIRE_WIDTH
<1>6. store_len(s) \in Nat
  BY <1>3, LenProperties DEF store_len
<1> QED BY <1>1, <1>3, <1>4, <1>5, <1>6

(* Changing one field of a segment changes no other.                       *)
LEMMA StoreSet ==
    ASSUME NEW s \in Segment, NEW c \in Seq(Record \cup {Torn}),
           NEW t, t = [s EXCEPT !.store = c]
    PROVE  /\ t \in Segment /\ t.base_offset = s.base_offset
           /\ t.next_offset = s.next_offset /\ t.index = s.index
           /\ t.index_file_len = s.index_file_len /\ t.padding = s.padding
           /\ t.state = s.state
           /\ t.store = c /\ t.buffer = s.buffer
BY DEF Segment

(* The same for the buffer.                                                *)
LEMMA BufferSet ==
    ASSUME NEW s \in Segment, NEW c \in Seq(Record),
           NEW t, t = [s EXCEPT !.buffer = c]
    PROVE  /\ t \in Segment /\ t.base_offset = s.base_offset
           /\ t.next_offset = s.next_offset /\ t.index = s.index
           /\ t.index_file_len = s.index_file_len /\ t.padding = s.padding
           /\ t.state = s.state
           /\ t.store = s.store /\ t.buffer = c
BY DEF Segment

(* For the index.                                                          *)
LEMMA IndexSet ==
    ASSUME NEW s \in Segment, NEW c \in Seq(Nat),
           NEW t, t = [s EXCEPT !.index = c]
    PROVE  /\ t \in Segment /\ t.base_offset = s.base_offset
           /\ t.next_offset = s.next_offset /\ t.index = c
           /\ t.index_file_len = s.index_file_len /\ t.padding = s.padding
           /\ t.state = s.state
           /\ t.store = s.store /\ t.buffer = s.buffer
BY DEF Segment

(* For the next offset.                                                    *)
LEMMA NextSet ==
    ASSUME NEW s \in Segment, NEW c \in Nat,
           NEW t, t = [s EXCEPT !.next_offset = c]
    PROVE  /\ t \in Segment /\ t.base_offset = s.base_offset
           /\ t.next_offset = c /\ t.index = s.index
           /\ t.index_file_len = s.index_file_len /\ t.padding = s.padding
           /\ t.state = s.state
           /\ t.store = s.store /\ t.buffer = s.buffer
BY DEF Segment

(* For the length of the index file.                                       *)
LEMMA FileLenSet ==
    ASSUME NEW s \in Segment, NEW c \in Nat,
           NEW t, t = [s EXCEPT !.index_file_len = c]
    PROVE  /\ t \in Segment /\ t.base_offset = s.base_offset
           /\ t.next_offset = s.next_offset /\ t.index = s.index
           /\ t.index_file_len = c /\ t.padding = s.padding
           /\ t.state = s.state
           /\ t.store = s.store /\ t.buffer = s.buffer
BY DEF Segment

(* For the history of damage.                                              *)
LEMMA StateSet ==
    ASSUME NEW s \in Segment, NEW c \in {"whole", "damaged"},
           NEW t, t = [s EXCEPT !.state = c]
    PROVE  /\ t \in Segment /\ t.base_offset = s.base_offset
           /\ t.next_offset = s.next_offset /\ t.index = s.index
           /\ t.index_file_len = s.index_file_len /\ t.padding = s.padding
           /\ t.store = s.store /\ t.buffer = s.buffer /\ t.state = c
BY DEF Segment

(* flush moves the buffer into the file.                                   *)
LEMMA Flushed ==
    ASSUME NEW s \in Segment, NEW t, t = flush(s)
    PROVE  /\ t \in Segment /\ t.base_offset = s.base_offset
           /\ t.next_offset = s.next_offset /\ t.index = s.index
           /\ t.index_file_len = s.index_file_len /\ t.padding = s.padding
           /\ t.state = s.state
           /\ t.store = Contents(s) /\ t.buffer = <<>>
<1> DEFINE c == Contents(s)
           a == [s EXCEPT !.store = c]
<1>1. c \in Seq(Record \cup {Torn})
  BY SegmentFields
<1>2. <<>> \in Seq(Record)
  BY EmptySeq
<1>3. t = [a EXCEPT !.buffer = <<>>]
  BY Zenon DEF flush
<1> HIDE DEF c
<1>4. a \in Segment /\ a.base_offset = s.base_offset
      /\ a.next_offset = s.next_offset /\ a.index = s.index
      /\ a.index_file_len = s.index_file_len /\ a.padding = s.padding
      /\ a.state = s.state
      /\ a.store = c
  BY <1>1, StoreSet
<1> HIDE DEF a
<1>5. /\ t \in Segment /\ t.base_offset = a.base_offset
      /\ t.next_offset = a.next_offset /\ t.index = a.index
      /\ t.index_file_len = a.index_file_len /\ t.padding = a.padding
      /\ t.state = a.state
      /\ t.store = a.store /\ t.buffer = <<>>
  BY <1>2, <1>3, <1>4, BufferSet, ZenonT(60)
<1> QED BY <1>4, <1>5 DEF c

(* Segment::close flushes the store and cuts the index file.               *)
LEMMA Closed ==
    ASSUME NEW s \in Segment, NEW t, t = close(s)
    PROVE  /\ t \in Segment /\ t.base_offset = s.base_offset
           /\ t.next_offset = s.next_offset /\ t.index = s.index
           /\ t.index_file_len = index_len(s) /\ t.padding = s.padding
           /\ t.state = s.state
           /\ t.store = Contents(s) /\ t.buffer = <<>>
<1> DEFINE a == flush(s)
           l == index_len(a)
<1>1. t = [a EXCEPT !.index_file_len = l]
  BY Zenon DEF close, index_close
<1>2. a \in Segment /\ a.base_offset = s.base_offset
      /\ a.next_offset = s.next_offset /\ a.index = s.index
      /\ a.padding = s.padding /\ a.store = Contents(s) /\ a.buffer = <<>>
      /\ a.state = s.state
  BY Flushed
<1> HIDE DEF a
<1>3. l = index_len(s) /\ l \in Nat
  BY <1>2, SegmentFields DEF index_len, ENTIRE_WIDTH
<1> HIDE DEF l
<1>4. /\ t \in Segment /\ t.base_offset = a.base_offset
      /\ t.next_offset = a.next_offset /\ t.index = a.index
      /\ t.index_file_len = l /\ t.padding = a.padding
      /\ t.state = a.state
      /\ t.store = a.store /\ t.buffer = a.buffer
  BY <1>1, <1>2, <1>3, FileLenSet
<1> QED BY <1>2, <1>3, <1>4

(* Index entries have 12 bytes.                                            *)
LEMMA TwelveTimes ==
    ASSUME NEW k \in Nat
    PROVE  (12 * k) \div 12 = k
OBVIOUS

(* The fields that Segment::new changes have the values it gives them, and *)
(* it changes no other.                                                    *)
LEMMA ReopenedFields ==
    ASSUME NEW s \in Segment, NextAfter(s) \in Nat,
           NEW x \in Seq(Nat),
           x = IF IndexSize(s) > index_len(s) THEN << 0 >> ELSE s.index,
           Padding(s) \in {"marked", "zeros"}
    PROVE  /\ Reopened(s) \in Segment
           /\ Reopened(s).base_offset = s.base_offset
           /\ Reopened(s).next_offset = NextAfter(s)
           /\ Reopened(s).index = x
           /\ Reopened(s).index_file_len = max_index_bytes
           /\ Reopened(s).padding = Padding(s)
           /\ Reopened(s).store = s.store /\ Reopened(s).buffer = <<>>
           /\ Reopened(s).state = s.state
<1> DEFINE n == NextAfter(s)
           p == Padding(s)
           t == Reopened(s)
<1>1. t = [s EXCEPT !.next_offset = n, !.index = x,
                    !.index_file_len = max_index_bytes, !.padding = p,
                    !.buffer = <<>>]
  BY Zenon DEF Reopened
<1>2. max_index_bytes \in Nat /\ <<>> \in Seq(Record)
  BY ConfigAssumption, EmptySeq
<1>3. n \in Nat /\ p \in {"marked", "zeros"}
  OBVIOUS
<1> HIDE DEF n, p, t
<1>5. s = [base_offset |-> s.base_offset, next_offset |-> s.next_offset,
           index |-> s.index, index_file_len |-> s.index_file_len,
           padding |-> s.padding, store |-> s.store, buffer |-> s.buffer,
           state |-> s.state]
  BY DEF Segment
<1>6. t = [base_offset |-> s.base_offset, next_offset |-> n, index |-> x,
           index_file_len |-> max_index_bytes, padding |-> p,
           store |-> s.store, buffer |-> <<>>, state |-> s.state]
  BY <1>1, <1>5
<1>4. /\ t \in Segment /\ t.base_offset = s.base_offset
      /\ t.next_offset = n /\ t.index = x
      /\ t.index_file_len = max_index_bytes /\ t.padding = p
      /\ t.store = s.store /\ t.buffer = <<>> /\ t.state = s.state
  BY <1>2, <1>3, <1>6 DEF Segment
<1> QED BY <1>4 DEF n, p, t

(* A segment file that was closed, or was open when the process died, is   *)
(* reopened with the entries it had; so is a new, empty one.               *)
LEMMA ReopenedIs ==
    ASSUME NEW s \in Segment, NEW t, t = Reopened(s),
           s.index_file_len \in {max_index_bytes, index_len(s)},
           index_len(s) <= max_index_bytes,
           Marked(s) \/ s.index_file_len = 0
    PROVE  /\ t \in Segment /\ Sound(t)
           /\ t.base_offset = s.base_offset
           /\ t.next_offset = s.base_offset + Len(s.index)
           /\ t.index = s.index /\ t.store = s.store /\ t.buffer = <<>>
           /\ t.state = s.state
<1>0. /\ s.base_offset \in Nat /\ s.index \in Seq(Nat)
      /\ Len(s.index) \in Nat /\ index_len(s) = 12 * Len(s.index)
      /\ max_index_bytes \in Nat
      /\ s.padding \in {"marked", "zeros"}
  BY SegmentFields, ConfigAssumption
<1>1. IndexSize(s) = index_len(s)
  <2> DEFINE l == index_len(s)
             f == s.index_file_len
  <2>1. l \in Nat /\ f \in Nat
    BY <1>0, SegmentFields
  <2>2. CASE f = 0
    <3>1. l = 0
      <4> HIDE DEF l, f
      <4> QED BY <1>0, <2>1, <2>2 DEF l, f
    <3> QED BY <2>2, <3>1 DEF IndexSize
  <2>3. CASE f # 0 /\ f = max_index_bytes
    <3>1. ~(/\ s.index = <<>> /\ s.padding = "zeros"
            /\ ENTIRE_WIDTH <= max_index_bytes)
      <4>1. Marked(s)
        BY <2>3
      <4> QED BY <1>0, <4>1 DEF Marked, ENTIRE_WIDTH
    <3>2. recover_size(s) = l
      BY <3>1, Zenon DEF recover_size
    <3> QED BY <2>3, <3>2 DEF IndexSize
  <2>4. CASE f # max_index_bytes
    BY <2>4 DEF IndexSize
  <2> QED BY <2>2, <2>3, <2>4
<1> DEFINE n == NextAfter(s)
           x == IF IndexSize(s) > index_len(s) THEN <<0>> ELSE s.index
           p == Padding(s)
<1>2. n = s.base_offset + Len(s.index) /\ n \in Nat
  <2>1. IndexSize(s) \div 12 = Len(s.index)
    BY <1>0, <1>1, TwelveTimes
  <2>2. n = s.base_offset + IndexSize(s) \div 12
    BY DEF NextAfter, ENTIRE_WIDTH
  <2> HIDE DEF n
  <2> QED BY <1>0, <2>1, <2>2
<1>3. x = s.index
  BY <1>0, <1>1
<1>4. p \in {"marked", "zeros"}
      /\ (p = "marked" \/ s.index # <<>> \/ max_index_bytes < 12)
  BY <1>0 DEF Padding, Marked
<1>7. x = IF IndexSize(s) > index_len(s) THEN <<0>> ELSE s.index
  OBVIOUS
<1>8. n = NextAfter(s) /\ p = Padding(s)
  OBVIOUS
<1> HIDE DEF n, x, p
<1>5. /\ t \in Segment /\ t.base_offset = s.base_offset
      /\ t.next_offset = n /\ t.index = s.index
      /\ t.index_file_len = max_index_bytes /\ t.padding = p
      /\ t.store = s.store /\ t.buffer = <<>> /\ t.state = s.state
  <2>1. x \in Seq(Nat) /\ n \in Nat /\ p \in {"marked", "zeros"}
    BY <1>0, <1>2, <1>3, <1>4
  <2>2. NextAfter(s) \in Nat /\ Padding(s) \in {"marked", "zeros"}
    BY <1>8, <2>1
  <2>3. /\ Reopened(s) \in Segment
        /\ Reopened(s).base_offset = s.base_offset
        /\ Reopened(s).next_offset = NextAfter(s)
        /\ Reopened(s).index = x
        /\ Reopened(s).index_file_len = max_index_bytes
        /\ Reopened(s).padding = Padding(s)
        /\ Reopened(s).store = s.store /\ Reopened(s).buffer = <<>>
        /\ Reopened(s).state = s.state
    BY <1>7, <2>1, <2>2, ReopenedFields, Zenon
  <2> QED BY <1>3, <1>8, <2>3
<1>6. Sound(t)
  BY <1>0, <1>2, <1>4, <1>5 DEF Sound, Marked, index_len
<1> QED BY <1>2, <1>5, <1>6

(* The files of a segment without entries.                                 *)
LEMMA NewFilesAre ==
    ASSUME NEW base \in Nat, NEW s, s = NewFiles(base)
    PROVE  /\ s \in Segment
           /\ s.base_offset = base /\ s.next_offset = base
           /\ s.index = <<>> /\ s.store = <<>> /\ s.buffer = <<>>
           /\ s.index_file_len = 0 /\ s.state = "whole"
BY EmptySeq DEF Segment, NewFiles

(* Segment::new without files gives an empty segment.                      *)
LEMMA Created ==
    ASSUME NEW base \in Nat, NEW t, t = Reopened(NewFiles(base))
    PROVE  /\ t \in Segment /\ Sound(t)
           /\ t.base_offset = base /\ t.next_offset = base
           /\ t.index = <<>> /\ t.store = <<>> /\ t.buffer = <<>>
           /\ t.state = "whole"
<1> DEFINE s == NewFiles(base)
<1>1. /\ s \in Segment /\ s.base_offset = base /\ s.index = <<>>
      /\ s.store = <<>> /\ s.index_file_len = 0 /\ s.state = "whole"
      /\ t = Reopened(s)
  BY NewFilesAre
<1> HIDE DEF s
<1>2. Len(s.index) = 0 /\ index_len(s) = 0 /\ 0 <= max_index_bytes
  BY <1>1, ConfigAssumption DEF index_len, ENTIRE_WIDTH
<1>3. /\ t \in Segment /\ Sound(t) /\ t.base_offset = s.base_offset
      /\ t.next_offset = s.base_offset + Len(s.index)
      /\ t.index = s.index /\ t.store = s.store /\ t.buffer = <<>>
      /\ t.state = s.state
  BY <1>1, <1>2, ReopenedIs
<1> QED BY <1>1, <1>2, <1>3

(* Index::new after set_len of a file without bytes, and no further.       *)
LEMMA LengthSet ==
    ASSUME NEW s \in Segment
    PROVE  /\ set_len(s) \in Segment
           /\ set_len(s).base_offset = s.base_offset
           /\ set_len(s).index = s.index
           /\ set_len(s).index_file_len = max_index_bytes
           /\ set_len(s).padding = "zeros"
           /\ set_len(s).state = "damaged"
<1> DEFINE t == set_len(s)
<1>1. max_index_bytes \in Nat
  BY ConfigAssumption
<1>2. s = [base_offset |-> s.base_offset, next_offset |-> s.next_offset,
           index |-> s.index, index_file_len |-> s.index_file_len,
           padding |-> s.padding, store |-> s.store, buffer |-> s.buffer,
           state |-> s.state]
  BY DEF Segment
<1>5. t = [s EXCEPT !.index_file_len = max_index_bytes,
                    !.padding = "zeros", !.state = "damaged"]
  BY Zenon DEF set_len
<1> HIDE DEF t
<1>3. t = [base_offset |-> s.base_offset, next_offset |-> s.next_offset,
           index |-> s.index, index_file_len |-> max_index_bytes,
           padding |-> "zeros", store |-> s.store, buffer |-> s.buffer,
           state |-> "damaged"]
  BY <1>2, <1>5
<1>4. /\ t \in Segment /\ t.base_offset = s.base_offset
      /\ t.index = s.index /\ t.index_file_len = max_index_bytes
      /\ t.padding = "zeros" /\ t.state = "damaged"
  BY <1>1, <1>3 DEF Segment
<1> QED BY <1>4 DEF t

(* An index file without entries that has its length and not its marks is  *)
(* reopened as a sound segment, which may have one entry that is none.     *)
LEMMA TornIs ==
    ASSUME NEW s \in Segment, s.index = <<>>, s.index_file_len = 0,
           NEW t, t = Reopened(set_len(s))
    PROVE  /\ t \in Segment /\ Sound(t) /\ t.state = "damaged"
           /\ t.base_offset = s.base_offset
           /\ s.base_offset <= t.next_offset
           /\ t.buffer = <<>>
<1> DEFINE u == set_len(s)
<1>0. max_index_bytes \in Nat /\ s.base_offset \in Nat
  BY SegmentFields, ConfigAssumption
<1>1. t = Reopened(u)
  OBVIOUS
<1>4. u \in Segment /\ u.base_offset = s.base_offset /\ u.index = <<>>
      /\ u.index_file_len = max_index_bytes /\ u.padding = "zeros"
      /\ u.state = "damaged"
  BY LengthSet
<1> HIDE DEF u
<1>5. index_len(u) = 0
  BY <1>4 DEF index_len, ENTIRE_WIDTH
<1>6. IndexSize(u) = IF ENTIRE_WIDTH <= max_index_bytes THEN 12 ELSE 0
  BY <1>0, <1>4, <1>5 DEF IndexSize, recover_size, ENTIRE_WIDTH
<1> DEFINE n == NextAfter(u)
           x == IF IndexSize(u) > index_len(u) THEN <<0>> ELSE u.index
           p == Padding(u)
<1>7. n = s.base_offset + IndexSize(u) \div 12
  BY <1>4 DEF NextAfter, ENTIRE_WIDTH
<1>8. /\ x \in Seq(Nat) /\ n \in Nat /\ n = s.base_offset + Len(x)
      /\ 12 * Len(x) <= max_index_bytes
      /\ x # <<>> \/ max_index_bytes < 12
  <2> HIDE DEF n
  <2>1. CASE 12 <= max_index_bytes
    <3>1. IndexSize(u) = 12 /\ x = <<0>>
      BY <1>5, <1>6, <2>1 DEF ENTIRE_WIDTH
    <3>2. n = s.base_offset + 1
      BY <1>0, <1>7, <3>1
    <3> HIDE DEF x
    <3>3. x \in Seq(Nat) /\ Len(x) = 1 /\ x # <<>>
      BY <3>1
    <3> QED BY <1>0, <2>1, <3>2, <3>3
  <2>2. CASE ~(12 <= max_index_bytes)
    <3>1. IndexSize(u) = 0 /\ x = <<>>
      BY <1>4, <1>5, <1>6, <2>2 DEF ENTIRE_WIDTH
    <3>2. n = s.base_offset
      BY <1>0, <1>7, <3>1
    <3> HIDE DEF x
    <3>3. x \in Seq(Nat) /\ Len(x) = 0
      BY <3>1, EmptySeq
    <3> QED BY <1>0, <2>2, <3>2, <3>3
  <2> QED BY <2>1, <2>2
<1>9. p \in {"marked", "zeros"}
  BY <1>4 DEF Padding
<1>14. x = IF IndexSize(u) > index_len(u) THEN <<0>> ELSE u.index
  OBVIOUS
<1>15. n = NextAfter(u) /\ p = Padding(u)
  OBVIOUS
<1> HIDE DEF n, x, p
<1>10. /\ t \in Segment /\ t.base_offset = u.base_offset
       /\ t.next_offset = n /\ t.index = x
       /\ t.index_file_len = max_index_bytes /\ t.padding = p
       /\ t.store = u.store /\ t.buffer = <<>> /\ t.state = u.state
  <2>1. u \in Segment /\ x \in Seq(Nat) /\ NextAfter(u) \in Nat
        /\ Padding(u) \in {"marked", "zeros"}
    BY <1>4, <1>8, <1>9, <1>15
  <2>2. /\ Reopened(u) \in Segment
        /\ Reopened(u).base_offset = u.base_offset
        /\ Reopened(u).next_offset = NextAfter(u)
        /\ Reopened(u).index = x
        /\ Reopened(u).index_file_len = max_index_bytes
        /\ Reopened(u).padding = Padding(u)
        /\ Reopened(u).store = u.store /\ Reopened(u).buffer = <<>>
        /\ Reopened(u).state = u.state
    BY <1>14, <2>1, ReopenedFields, Zenon
  <2> QED BY <1>1, <1>15, <2>2
<1>11. Len(x) \in Nat
  BY <1>8
<1>12. Sound(t)
  BY <1>4, <1>8, <1>10, <1>11 DEF Sound, Marked, index_len, ENTIRE_WIDTH
<1>13. s.base_offset <= t.next_offset
  BY <1>0, <1>8, <1>10, <1>11
<1> QED BY <1>4, <1>10, <1>12, <1>13

(* Sequence d begins with sequence c.                                      *)
BeginsWith(d, c) == \A p \in 1..Len(c) : p <= Len(d) /\ d[p] = c[p]

(* A sequence begins with itself, with what it was before something was    *)
(* added to it, and with everything that its own beginning begins with.    *)
LEMMA Beginnings ==
    ASSUME NEW S, NEW c \in Seq(S), NEW d \in Seq(S)
    PROVE  /\ BeginsWith(c, c)
           /\ BeginsWith(c \o d, c)
           /\ \A e \in Seq(S) : BeginsWith(e, d) /\ BeginsWith(d, c)
                                  => BeginsWith(e, c)
<1>1. Len(c) \in Nat /\ Len(d) \in Nat
  OBVIOUS
<1>2. BeginsWith(c, c)
  BY <1>1 DEF BeginsWith
<1>3. BeginsWith(c \o d, c)
  BY <1>1, ConcatProperties DEF BeginsWith
<1>4. ASSUME NEW e \in Seq(S), BeginsWith(e, d), BeginsWith(d, c)
      PROVE  BeginsWith(e, c)
  BY <1>1, <1>4 DEF BeginsWith
<1> QED BY <1>2, <1>3, <1>4

(* The contents of a segment begin with its file.                          *)
LEMMA FileFirst ==
    ASSUME NEW s \in Segment
    PROVE  /\ BeginsWith(Contents(s), s.store)
           /\ s.buffer = <<>> => Contents(s) = s.store
<1>1. /\ s.store \in Seq(Record \cup {Torn})
      /\ s.buffer \in Seq(Record \cup {Torn})
      /\ Len(s.store) \in Nat /\ Len(s.buffer) \in Nat
  BY SegmentFields, SeqMonotonic
<1>2. BeginsWith(Contents(s), s.store)
  BY <1>1, Beginnings DEF Contents
<1>3. s.buffer = <<>> => Contents(s) = s.store
  BY <1>1, ConcatEmptySeq DEF Contents
<1> QED BY <1>2, <1>3

(* Store::append adds the record to the contents, and to the file itself   *)
(* with sync_writes.                                                       *)
LEMMA StoreAppended ==
    ASSUME NEW s \in Segment, NEW r \in Record, NEW t, t = store_append(s, r)
    PROVE  /\ t \in Segment /\ t.base_offset = s.base_offset
           /\ t.next_offset = s.next_offset /\ t.index = s.index
           /\ t.index_file_len = s.index_file_len /\ t.padding = s.padding
           /\ t.state = s.state
           /\ Contents(t) = Contents(s) \o <<r>>
           /\ BeginsWith(t.store, s.store)
           /\ sync_writes => t.buffer = <<>>
<1> DEFINE w == [s EXCEPT !.buffer = Append(@, r)]
<1>0. /\ s.buffer \in Seq(Record) /\ Append(s.buffer, r) \in Seq(Record)
      /\ s.store \in Seq(Record \cup {Torn})
      /\ s.buffer \in Seq(Record \cup {Torn}) /\ <<r>> \in Seq(Record)
      /\ <<r>> \in Seq(Record \cup {Torn})
  <2>1. s.buffer \in Seq(Record) /\ s.store \in Seq(Record \cup {Torn})
    BY SegmentFields
  <2>2. Append(s.buffer, r) \in Seq(Record) /\ <<r>> \in Seq(Record)
    BY <2>1
  <2> QED BY <2>1, <2>2, SeqMonotonic
<1>1. w \in Segment /\ w.base_offset = s.base_offset
      /\ w.next_offset = s.next_offset /\ w.index = s.index
      /\ w.index_file_len = s.index_file_len /\ w.padding = s.padding
      /\ w.state = s.state
      /\ w.store = s.store /\ w.buffer = Append(s.buffer, r)
  <2>1. Append(s.buffer, r) \in Seq(Record) /\ s \in Segment
    BY <1>0
  <2> DEFINE e == Append(s.buffer, r)
  <2>2. w = [s EXCEPT !.buffer = e]
    OBVIOUS
  <2> HIDE DEF e, w
  <2>3. /\ w \in Segment /\ w.base_offset = s.base_offset
        /\ w.next_offset = s.next_offset /\ w.index = s.index
        /\ w.index_file_len = s.index_file_len /\ w.padding = s.padding
        /\ w.state = s.state /\ w.store = s.store /\ w.buffer = e
    BY <2>1, <2>2 DEF e, Segment
  <2> QED BY <2>3 DEF e
<1>2. t = IF sync_writes THEN flush(w) ELSE w
  BY Zenon DEF store_append
<1> HIDE DEF w
<1>3. Contents(w) = Contents(s) \o <<r>>
  <2>1. Append(s.buffer, r) = s.buffer \o <<r>>
    BY <1>0, AppendIsConcat
  <2>2. (s.store \o s.buffer) \o <<r>> = s.store \o (s.buffer \o <<r>>)
    <3> DEFINE a == s.store
               b == s.buffer
               u == <<r>>
    <3>1. /\ a \in Seq(Record \cup {Torn}) /\ b \in Seq(Record \cup {Torn})
          /\ u \in Seq(Record \cup {Torn})
      BY <1>0
    <3> HIDE DEF a, b, u
    <3>2. (a \o b) \o u = a \o (b \o u)
      BY <3>1, ConcatAssociative
    <3> QED BY <3>2 DEF a, b, u
  <2> QED BY <1>1, <2>1, <2>2 DEF Contents
<1>4. CASE sync_writes
  <2>1. t = flush(w)
    BY <1>2, <1>4
  <2>2. t \in Segment /\ t.base_offset = w.base_offset
        /\ t.next_offset = w.next_offset /\ t.index = w.index
        /\ t.index_file_len = w.index_file_len /\ t.padding = w.padding
        /\ t.state = w.state
        /\ t.store = Contents(w) /\ t.buffer = <<>>
    BY <1>1, <2>1, Flushed
  <2>3. Contents(t) = Contents(w)
    BY <2>2, FileFirst
  <2>4. BeginsWith(t.store, s.store)
    BY <1>1, <2>2, FileFirst
  <2> QED BY <1>1, <1>3, <2>2, <2>3, <2>4
<1>5. CASE ~sync_writes
  <2>1. t = w
    BY <1>2, <1>5
  <2>2. BeginsWith(t.store, s.store)
    BY <1>0, <1>1, <2>1, Beginnings
  <2> QED BY <1>1, <1>3, <1>5, <2>1, <2>2
<1> QED BY <1>4, <1>5

(* Segment::append adds the record and an entry with its position.         *)
LEMMA SegmentAppended ==
    ASSUME NEW s \in Segment, NEW r \in Record, NEW t,
           t = segment_append(s, r)
    PROVE  /\ t \in Segment /\ t.base_offset = s.base_offset
           /\ t.next_offset = s.next_offset + 1
           /\ t.index = Append(s.index, store_len(s))
           /\ t.index_file_len = s.index_file_len /\ t.padding = s.padding
           /\ t.state = s.state
           /\ Contents(t) = Contents(s) \o <<r>>
           /\ BeginsWith(t.store, s.store)
           /\ sync_writes => t.buffer = <<>>
<1> DEFINE l == store_len(s)
           a == store_append(s, r)
           x == Append(a.index, l)
           b == [a EXCEPT !.index = x]
           n == b.next_offset + 1
<1>1. t = [b EXCEPT !.next_offset = n]
  BY Zenon DEF segment_append, index_write
<1>2. l \in Nat
  BY SegmentFields
<1>3. /\ a \in Segment /\ a.base_offset = s.base_offset
      /\ a.next_offset = s.next_offset /\ a.index = s.index
      /\ a.index_file_len = s.index_file_len /\ a.padding = s.padding
      /\ a.state = s.state
      /\ Contents(a) = Contents(s) \o <<r>>
      /\ BeginsWith(a.store, s.store)
      /\ sync_writes => a.buffer = <<>>
  BY StoreAppended
<1> HIDE DEF a, l
<1>4. x \in Seq(Nat) /\ x = Append(s.index, l)
  <2>1. s.index \in Seq(Nat)
    BY SegmentFields
  <2> QED BY <1>2, <1>3, <2>1
<1> HIDE DEF x
<1>5. b \in Segment /\ b.base_offset = a.base_offset
      /\ b.next_offset = a.next_offset /\ b.index = x
      /\ b.index_file_len = a.index_file_len /\ b.padding = a.padding
      /\ b.state = a.state
      /\ b.store = a.store /\ b.buffer = a.buffer
  <2>1. a \in Segment /\ x \in Seq(Nat)
    BY <1>3, <1>4
  <2> QED BY <2>1, IndexSet
<1> HIDE DEF b
<1>6. n \in Nat
  <2>1. b.next_offset \in Nat
    BY <1>5, SegmentFields
  <2> QED BY <2>1
<1>7. n = s.next_offset + 1
  BY <1>3, <1>5
<1> HIDE DEF n
<1>8. t \in Segment /\ t.base_offset = b.base_offset
      /\ t.next_offset = n /\ t.index = b.index
      /\ t.index_file_len = b.index_file_len /\ t.padding = b.padding
      /\ t.state = b.state
      /\ t.store = b.store /\ t.buffer = b.buffer
  BY <1>1, <1>5, <1>6, NextSet
<1>9. Contents(t) = Contents(a)
  BY <1>5, <1>8 DEF Contents
<1> QED BY <1>3, <1>4, <1>5, <1>7, <1>8, <1>9 DEF l

-----------------------------------------------------------------------------
(* The inductive invariant.                                                *)

(* The segments are sound, start at the first offset, follow one another   *)
(* and leave no offset out, and only the last may be without entries.      *)
(* That no two of them overlap and that none of the offsets is missing     *)
(* follows from the adjacent ones by induction over the segments; it is    *)
(* part of the invariant instead.                                          *)
Layout ==
    /\ Len(segments) >= 1
    /\ active_index = Len(segments)
    /\ segments[1].base_offset = inital_offset
    /\ \A i \in 1..Len(segments) : Sound(segments[i])
    /\ \A i, j \in 1..Len(segments) :
          i < j => segments[i].next_offset <= segments[j].base_offset
    /\ \A i \in 1..(Len(segments) - 1) :
          /\ segments[i].next_offset = segments[i + 1].base_offset
          /\ segments[i].index # <<>>
    /\ \A off \in inital_offset..(segments[Len(segments)].next_offset - 1) :
          Readable(off)

(* Every entry of the index names a record.                                *)
Backed(s) == \A k \in 1..Len(s.index) : s.index[k] < store_len(s)

(* With sync_writes nothing is in a buffer, and a crash loses no record;   *)
(* as long as none did, all entries of undamaged segments name records.    *)
Backing ==
    /\ sync_writes => /\ ~crashed
                      /\ \A i \in 1..Len(segments) : segments[i].buffer = <<>>
    /\ ~crashed => \A i \in 1..Len(segments) :
                      segments[i].state = "whole" => Backed(segments[i])

IInv == TypeOK /\ Layout /\ Backing

-----------------------------------------------------------------------------
(* What steps do to the segments.                                          *)

(* Segment t is segment s after a step that gives it no new entry; what    *)
(* was in the store file still is.                                         *)
Kept(s, t) ==
    /\ t \in Segment /\ Sound(t)
    /\ t.base_offset = s.base_offset
    /\ t.next_offset = s.next_offset
    /\ t.index = s.index
    /\ t.state = s.state
    /\ BeginsWith(Contents(t), s.store)
    /\ sync_writes => t.buffer = <<>>

(* Nor has it lost what was in the buffer.                                 *)
Whole(s, t) == BeginsWith(Contents(t), Contents(s))

(* Segment t is segment s after a crash that damaged it.                   *)
Harmed(s, t) ==
    /\ t \in Segment /\ Sound(t)
    /\ t.state = "damaged"
    /\ t.base_offset = s.base_offset
    /\ s.next_offset <= t.next_offset
    /\ s.index # <<>> => t.index = s.index /\ t.next_offset = s.next_offset
    /\ sync_writes => t.buffer = <<>>

(* Segment t is segment s after an append of r.                            *)
Pushed(s, t, r) ==
    /\ t \in Segment /\ Sound(t)
    /\ t.base_offset = s.base_offset
    /\ t.next_offset = s.next_offset + 1
    /\ t.index = Append(s.index, store_len(s))
    /\ t.state = s.state
    /\ BeginsWith(Contents(t), s.store)
    /\ sync_writes => t.buffer = <<>>
    /\ ~crashed' => Contents(t) = Contents(s) \o <<r>>

(* A new segment that begins at offset base, and has no entry but one that *)
(* a crash may have left it.                                               *)
Fresh(t, base) ==
    /\ t \in Segment /\ Sound(t)
    /\ t.base_offset = base /\ base <= t.next_offset
    /\ t.state = "whole" => t.index = <<>> /\ t.next_offset = base
    /\ t.buffer = <<>>

(* The first n segments are kept, and the others dropped; the last of the  *)
(* n may have been damaged.                                                *)
Cuts(n) ==
    /\ segments' \in Seq(Segment) /\ Len(segments') = n
    /\ active_index' = n
    /\ \A i \in 1..n :
          \/ /\ Kept(segments[i], segments'[i])
             /\ ~crashed' => Whole(segments[i], segments'[i])
          \/ i = n /\ Harmed(segments[i], segments'[i])

(* The last segment gets r, and perhaps a successor.                       *)
Grows(r) ==
    /\ segments' \in Seq(Segment)
    /\ Len(segments') \in {Len(segments), Len(segments) + 1}
    /\ active_index' = Len(segments')
    /\ \A i \in 1..(Len(segments) - 1) :
          /\ Kept(segments[i], segments'[i])
          /\ ~crashed' => Whole(segments[i], segments'[i])
    /\ Pushed(segments[Len(segments)], segments'[Len(segments)], r)
    /\ Len(segments') = Len(segments) + 1 =>
          Fresh(segments'[Len(segments) + 1],
                segments[Len(segments)].next_offset + 1)

Flags ==
    /\ sync_writes' = sync_writes
    /\ crashed' \in BOOLEAN
    /\ crashed => crashed'
    /\ crashed' => crashed \/ ~sync_writes

(* A segment that is left alone is kept.                                   *)
LEMMA SameIsKept ==
    ASSUME IInv, NEW i \in 1..Len(segments)
    PROVE  Kept(segments[i], segments[i]) /\ Whole(segments[i], segments[i])
<1>1. /\ segments[i] \in Segment /\ Sound(segments[i])
      /\ sync_writes => segments[i].buffer = <<>>
  BY DEF IInv, TypeOK, Layout, Backing
<1>2. Whole(segments[i], segments[i])
  <2>1. Contents(segments[i]) \in Seq(Record \cup {Torn})
    BY <1>1, SegmentFields
  <2> QED BY <2>1, Beginnings DEF Whole
<1> QED BY <1>1, <1>2, FileFirst DEF Kept

(* So is one that is flushed.                                              *)
LEMMA FlushedIsKept ==
    ASSUME IInv, NEW i \in 1..Len(segments), NEW t, t = flush(segments[i])
    PROVE  Kept(segments[i], t) /\ Whole(segments[i], t)
<1> DEFINE s == segments[i]
<1>1. s \in Segment /\ Sound(s)
  BY DEF IInv, TypeOK, Layout
<1>2. t = flush(s)
  OBVIOUS
<1> HIDE DEF s
<1>3. t \in Segment /\ t.base_offset = s.base_offset
      /\ t.next_offset = s.next_offset /\ t.index = s.index
      /\ t.index_file_len = s.index_file_len /\ t.padding = s.padding
      /\ t.state = s.state
      /\ t.store = Contents(s) /\ t.buffer = <<>>
  BY <1>1, <1>2, Flushed
<1>4. Contents(t) = Contents(s)
  BY <1>3, FileFirst
<1>5. Whole(s, t)
  <2>1. Contents(s) \in Seq(Record \cup {Torn})
    BY <1>1, SegmentFields
  <2> QED BY <1>4, <2>1, Beginnings DEF Whole
<1>6. BeginsWith(Contents(t), s.store)
  BY <1>1, <1>4, FileFirst
<1>7. Sound(t)
  BY <1>1, <1>3 DEF Sound, Marked, index_len
<1> QED BY <1>3, <1>5, <1>6, <1>7 DEF Kept, s

(* What the process leaves on disk of segment s.                           *)
FileOf(s, f) ==
    /\ f \in Segment
    /\ f.base_offset = s.base_offset
    /\ f.index = s.index
    /\ f.padding = s.padding
    /\ f.state = s.state
    /\ f.index_file_len \in {max_index_bytes, index_len(s)}
    /\ BeginsWith(f.store, s.store)

(* And when it was removing it, and the store file is gone.                *)
RemnantOf(s, f) ==
    /\ f \in Segment
    /\ f.base_offset = s.base_offset
    /\ f.index = s.index
    /\ f.padding = s.padding
    /\ f.state = "damaged"
    /\ f.index_file_len \in {max_index_bytes, index_len(s)}

(* The files of a segment that is still open, of one that was closed, and  *)
(* of one whose store file was then removed.                               *)
LEMMA OpenFile ==
    ASSUME IInv, NEW i \in 1..Len(segments)
    PROVE  /\ FileOf(segments[i], segments[i])
           /\ sync_writes => segments[i].store = Contents(segments[i])
           /\ FileOf(segments[i], close(segments[i]))
           /\ close(segments[i]).store = Contents(segments[i])
           /\ RemnantOf(segments[i], store_removed(close(segments[i])))
<1> DEFINE s == segments[i]
           c == close(s)
           a == [c EXCEPT !.store = <<>>]
           d == store_removed(c)
<1>1. /\ s \in Segment /\ Sound(s)
      /\ sync_writes => s.buffer = <<>>
  BY DEF IInv, TypeOK, Layout, Backing
<1> HIDE DEF s
<1>2. /\ c \in Segment /\ c.base_offset = s.base_offset
      /\ c.index = s.index /\ c.index_file_len = index_len(s)
      /\ c.padding = s.padding /\ c.store = Contents(s)
      /\ c.state = s.state
  BY <1>1, Closed
<1>3. FileOf(s, s)
  <2>1. s.store \in Seq(Record \cup {Torn})
    BY <1>1, SegmentFields
  <2>2. BeginsWith(s.store, s.store)
    BY <2>1, Beginnings
  <2> QED BY <1>1, <2>2 DEF FileOf, Sound
<1>4. d = [a EXCEPT !.state = "damaged"]
  BY Zenon DEF store_removed
<1> HIDE DEF c, d
<1>5. FileOf(s, c)
  BY <1>1, <1>2, FileFirst DEF FileOf
<1>6. sync_writes => s.store = Contents(s)
  BY <1>1, FileFirst
<1>7. RemnantOf(s, d)
  <2>1. a \in Segment /\ a.base_offset = c.base_offset /\ a.index = c.index
        /\ a.padding = c.padding /\ a.index_file_len = c.index_file_len
    <3>1. <<>> \in Seq(Record \cup {Torn}) /\ c \in Segment
      BY <1>2, EmptySeq
    <3>2. a = [c EXCEPT !.store = <<>>]
      OBVIOUS
    <3> HIDE DEF a
    <3> QED BY <3>1, <3>2 DEF Segment
  <2> HIDE DEF a
  <2>2. "damaged" \in {"whole", "damaged"}
    OBVIOUS
  <2>3. d \in Segment /\ d.base_offset = a.base_offset /\ d.index = a.index
        /\ d.padding = a.padding /\ d.index_file_len = a.index_file_len
        /\ d.state = "damaged"
    BY <1>4, <2>1, <2>2, StateSet
  <2> QED BY <1>2, <2>1, <2>3 DEF RemnantOf
<1> QED BY <1>2, <1>3, <1>5, <1>6, <1>7 DEF s, c, d

(* A file that is opened without a crash gives the segment back.           *)
LEMMA FileReopened ==
    ASSUME IInv, NEW i \in 1..Len(segments), NEW f, FileOf(segments[i], f),
           NEW t, t = Reopened(f)
    PROVE  /\ Kept(segments[i], t)
           /\ BeginsWith(f.store, Contents(segments[i]))
                 => Whole(segments[i], t)
<1> DEFINE s == segments[i]
<1>1. s \in Segment /\ Sound(s) /\ FileOf(s, f)
  BY DEF IInv, TypeOK, Layout
<1> HIDE DEF s
<1>2. index_len(f) = index_len(s)
  BY <1>1 DEF FileOf, index_len
<1>3. /\ f \in Segment
      /\ f.index_file_len \in {max_index_bytes, index_len(f)}
      /\ index_len(f) <= max_index_bytes /\ Marked(f)
  BY <1>1, <1>2 DEF FileOf, Sound, Marked
<1>4. /\ t \in Segment /\ Sound(t)
      /\ t.base_offset = f.base_offset
      /\ t.next_offset = f.base_offset + Len(f.index)
      /\ t.index = f.index /\ t.store = f.store /\ t.buffer = <<>>
      /\ t.state = f.state
  BY <1>3, ReopenedIs
<1>5. Contents(t) = f.store
  BY <1>4, FileFirst
<1>6. Kept(s, t)
  BY <1>1, <1>4, <1>5 DEF Kept, FileOf, Sound
<1>7. BeginsWith(f.store, Contents(s)) => Whole(s, t)
  BY <1>5 DEF Whole
<1> QED BY <1>6, <1>7 DEF s

(* What is left of a segment that was being removed gives a damaged one.   *)
LEMMA RemnantReopened ==
    ASSUME IInv, NEW i \in 1..Len(segments), NEW f, RemnantOf(segments[i], f),
           NEW t, t = Reopened(f)
    PROVE  Harmed(segments[i], t)
<1> DEFINE s == segments[i]
<1>1. s \in Segment /\ Sound(s) /\ RemnantOf(s, f)
  BY DEF IInv, TypeOK, Layout
<1> HIDE DEF s
<1>2. index_len(f) = index_len(s)
  BY <1>1 DEF RemnantOf, index_len
<1>3. /\ f \in Segment
      /\ f.index_file_len \in {max_index_bytes, index_len(f)}
      /\ index_len(f) <= max_index_bytes /\ Marked(f)
  BY <1>1, <1>2 DEF RemnantOf, Sound, Marked
<1>4. /\ t \in Segment /\ Sound(t)
      /\ t.base_offset = f.base_offset
      /\ t.next_offset = f.base_offset + Len(f.index)
      /\ t.index = f.index /\ t.buffer = <<>>
      /\ t.state = f.state
  BY <1>3, ReopenedIs
<1>5. s.next_offset \in Nat /\ t.next_offset = s.next_offset
  BY <1>1, <1>4, SegmentFields DEF RemnantOf, Sound
<1>6. Harmed(s, t)
  BY <1>1, <1>4, <1>5 DEF Harmed, RemnantOf
<1> QED BY <1>6 DEF s

(* Only the last segment can have an index file without bytes, and one     *)
(* that is opened with its length and without its marks is damaged.        *)
LEMMA TornReopened ==
    ASSUME IInv, NEW i \in 1..Len(segments), NEW f,
           FileOf(segments[i], f) \/ RemnantOf(segments[i], f),
           f.index_file_len = 0, NEW t, t = Reopened(set_len(f))
    PROVE  /\ segments[i].index = <<>> /\ i = Len(segments)
           /\ Harmed(segments[i], t)
<1> DEFINE s == segments[i]
<1>1. s \in Segment /\ Sound(s)
  BY DEF IInv, TypeOK, Layout
<1>2. /\ f \in Segment /\ f.base_offset = s.base_offset /\ f.index = s.index
      /\ f.index_file_len \in {max_index_bytes, index_len(s)}
  BY DEF FileOf, RemnantOf
<1>3. i # Len(segments) => s.index # <<>>
  <2>1. i # Len(segments) => i \in 1..(Len(segments) - 1)
    BY DEF IInv, TypeOK
  <2> QED BY <2>1 DEF IInv, Layout
<1> HIDE DEF s
<1>4. s.index = <<>>
  <2>1. /\ s.index \in Seq(Nat) /\ Len(s.index) \in Nat
        /\ index_len(s) = 12 * Len(s.index) /\ max_index_bytes \in Nat
        /\ index_len(s) <= max_index_bytes
    BY <1>1, SegmentFields, ConfigAssumption DEF Sound
  <2>2. Len(s.index) = 0
    BY <1>2, <2>1
  <2> QED BY <2>1, <2>2, EmptySeq
<1>5. /\ t \in Segment /\ Sound(t) /\ t.state = "damaged"
      /\ t.base_offset = f.base_offset /\ f.base_offset <= t.next_offset
      /\ t.buffer = <<>>
  BY <1>2, <1>4, TornIs
<1>6. s.next_offset = s.base_offset
  <2>1. s.base_offset \in Nat /\ Len(s.index) = 0
    BY <1>1, <1>4, SegmentFields
  <2> QED BY <1>1, <2>1 DEF Sound
<1>7. Harmed(s, t)
  BY <1>2, <1>4, <1>5, <1>6 DEF Harmed
<1> QED BY <1>3, <1>4, <1>7 DEF s

(* Log::new finds the segments whose files it is given.                    *)
LEMMA OpenCuts ==
    ASSUME IInv, NEW n \in 1..Len(segments), NEW files, DOMAIN files = 1..n,
           Open(files),
           \A i \in 1..n :
              \/ /\ FileOf(segments[i], files[i])
                 /\ ~crashed' => BeginsWith(files[i].store,
                                            Contents(segments[i]))
              \/ i = n /\ RemnantOf(segments[i], files[i])
    PROVE  Cuts(n)
<1>1. n \in Nat /\ n >= 1 /\ n <= Len(segments)
  BY DEF IInv, TypeOK
<1>2. files # <<>>
  BY <1>1
<1>3. PICK torn \in TornSets(files) : segments' = Opened(files, torn)
  BY <1>2 DEF Open
<1>4. \A i \in torn : files[i].index_file_len = 0
  BY <1>3 DEF TornSets
<1>5. segments' = [i \in 1..n |->
        Reopened(IF i \in torn THEN set_len(files[i]) ELSE files[i])]
  BY <1>3 DEF Opened
<1>6. ASSUME NEW i \in 1..n
      PROVE  \/ /\ Kept(segments[i], segments'[i])
                /\ ~crashed' => Whole(segments[i], segments'[i])
             \/ i = n /\ Harmed(segments[i], segments'[i])
  <2> DEFINE s == segments[i]
             f == files[i]
             t == segments'[i]
  <2>0. i \in 1..Len(segments)
    BY <1>1
  <2>1. \/ FileOf(s, f) /\ (~crashed' => BeginsWith(f.store, Contents(s)))
        \/ i = n /\ RemnantOf(s, f)
    OBVIOUS
  <2>2. CASE i \in torn
    <3>1. t = Reopened(set_len(f)) /\ f.index_file_len = 0
      BY <1>4, <1>5, <2>2
    <3>2. i = Len(segments) /\ Harmed(s, t)
      BY <2>0, <2>1, <3>1, TornReopened
    <3>3. i = n
      BY <1>1, <3>2
    <3> QED BY <3>2, <3>3
  <2>3. CASE i \notin torn
    <3>1. t = Reopened(f)
      BY <1>5, <2>3
    <3>2. CASE FileOf(s, f) /\ (~crashed' => BeginsWith(f.store, Contents(s)))
      BY <2>0, <3>1, <3>2, FileReopened
    <3>3. CASE i = n /\ RemnantOf(s, f)
      BY <2>0, <3>1, <3>3, RemnantReopened
    <3> QED BY <2>1, <3>2, <3>3
  <2> QED BY <2>2, <2>3
<1>7. segments' \in Seq(Segment) /\ Len(segments') = n
  <2>1. \A i \in 1..n : segments'[i] \in Segment
    BY <1>6 DEF Kept, Harmed
  <2>2. segments' \in [1..n -> Segment]
    BY <1>5, <2>1
  <2> QED BY <1>1, <2>2, IsASeq, LenProperties
<1>8. active_index' = n
  BY <1>2, <1>7 DEF Open
<1> QED BY <1>6, <1>7, <1>8 DEF Cuts

(* The types of the parts of the state in the invariant.                   *)
LEMMA SegmentsType ==
    ASSUME IInv
    PROVE  /\ segments \in Seq(Segment) /\ Len(segments) \in Nat
           /\ DOMAIN segments = 1..Len(segments)
           /\ Len(segments) >= 1 /\ active_index = Len(segments)
           /\ active_index \in 1..Len(segments)
           /\ active = segments[Len(segments)]
           /\ \A i \in 1..Len(segments) : /\ segments[i] \in Segment
                                           /\ Sound(segments[i])
           /\ sync_writes \in BOOLEAN /\ crashed \in BOOLEAN
<1>1. /\ segments \in Seq(Segment) /\ sync_writes \in BOOLEAN
      /\ crashed \in BOOLEAN
  BY DEF IInv, TypeOK
<1>2. /\ Len(segments) >= 1 /\ active_index = Len(segments)
      /\ \A i \in 1..Len(segments) : Sound(segments[i])
  BY DEF IInv, Layout
<1>3. Len(segments) \in Nat /\ DOMAIN segments = 1..Len(segments)
      /\ \A i \in 1..Len(segments) : segments[i] \in Segment
  BY <1>1, LenProperties
<1>4. active_index \in 1..Len(segments)
  BY <1>2, <1>3
<1> QED BY <1>1, <1>2, <1>3, <1>4 DEF active

(* The steps of Log::close and of the crashes end in Log::new.             *)
LEMMA CloseAndReopenShape ==
    ASSUME IInv, close_and_reopen
    PROVE  Flags /\ Cuts(Len(segments))
<1> DEFINE n == Len(segments)
           files == [i \in DOMAIN segments |-> close(segments[i])]
<1>1. n \in 1..Len(segments) /\ DOMAIN files = 1..n
      /\ crashed \in BOOLEAN
  BY SegmentsType
<1>2. Open(files) /\ crashed' = crashed
  BY DEF close_and_reopen
<1>3. \A i \in 1..n : files[i] = close(segments[i])
  BY <1>1
<1>4. \A i \in 1..n : /\ FileOf(segments[i], files[i])
                      /\ files[i].store = Contents(segments[i])
  BY <1>3, OpenFile
<1>5. \A i \in 1..n : BeginsWith(files[i].store, Contents(segments[i]))
  <2>1. \A i \in 1..n : Contents(segments[i]) \in Seq(Record \cup {Torn})
    BY SegmentsType, SegmentFields
  <2> QED BY <1>4, <2>1, Beginnings
<1>6. Cuts(n)
  <2> HIDE DEF files, n
  <2> QED BY <1>1, <1>2, <1>4, <1>5, OpenCuts
<1> QED BY <1>1, <1>2, <1>6 DEF Flags, Open

(* The log is opened on the files of its first n segments.                 *)
LEMMA RestartCuts ==
    ASSUME IInv, NEW n \in 1..Len(segments), NEW files, DOMAIN files = 1..n,
           Restart(files),
           \A i \in 1..n :
              \/ /\ FileOf(segments[i], files[i])
                 /\ sync_writes => BeginsWith(files[i].store,
                                              Contents(segments[i]))
              \/ i = n /\ RemnantOf(segments[i], files[i])
    PROVE  Flags /\ Cuts(n)
<1>1. Open(files) /\ crashed' = (crashed \/ ~sync_writes)
  BY DEF Restart
<1>2. crashed \in BOOLEAN /\ sync_writes \in BOOLEAN
  BY SegmentsType
<1>3. Cuts(n)
  BY <1>1, OpenCuts
<1> QED BY <1>1, <1>2, <1>3 DEF Flags, Open

(* A crash keeps every segment and what is in its store file.              *)
LEMMA CrashShape ==
    ASSUME IInv, crash
    PROVE  Flags /\ Cuts(Len(segments))
<1>1. PICK n \in [DOMAIN segments -> UNION {0..Len(segments[i].buffer) :
                                            i \in DOMAIN segments}] :
        /\ \A i \in DOMAIN segments : n[i] <= Len(segments[i].buffer)
        /\ Restart([i \in DOMAIN segments |->
                     [segments[i] EXCEPT
                        !.store = @ \o SubSeq(segments[i].buffer, 1, n[i])]])
  BY DEF crash
<1> DEFINE files == [i \in DOMAIN segments |->
                     [segments[i] EXCEPT
                        !.store = @ \o SubSeq(segments[i].buffer, 1, n[i])]]
<1>2. DOMAIN files = 1..Len(segments) /\ Len(segments) \in 1..Len(segments)
  BY SegmentsType
<1>3. ASSUME NEW i \in 1..Len(segments)
      PROVE  /\ FileOf(segments[i], files[i])
             /\ sync_writes => BeginsWith(files[i].store,
                                          Contents(segments[i]))
  <2> DEFINE s == segments[i]
             f == files[i]
             a == s.store
             d == SubSeq(s.buffer, 1, n[i])
             c == a \o d
  <2>1. /\ s \in Segment /\ Sound(s) /\ i \in DOMAIN segments
        /\ sync_writes => s.store = Contents(s)
    BY SegmentsType, OpenFile
  <2>2. f = [s EXCEPT !.store = c]
    BY <2>1
  <2>3. a \in Seq(Record \cup {Torn}) /\ s.buffer \in Seq(Record)
    BY <2>1, SegmentFields
  <2>4. d \in Seq(Record \cup {Torn})
    <3>1. n[i] \in Int /\ n[i] >= 0 /\ n[i] <= Len(s.buffer)
      <4>1. \A j \in DOMAIN segments : Len(segments[j].buffer) \in Nat
        BY SegmentsType, SegmentFields
      <4>2. n[i] \in UNION {0..Len(segments[j].buffer) : j \in DOMAIN segments}
        BY <1>1, <2>1
      <4>3. PICK j \in DOMAIN segments : n[i] \in 0..Len(segments[j].buffer)
        BY <4>2
      <4> QED BY <1>1, <2>1, <4>1, <4>3
    <3>2. \A k \in 1..n[i] : s.buffer[k] \in Record \cup {Torn}
      <4> DEFINE b == s.buffer
                 l == n[i]
      <4>1. b \in Seq(Record) /\ l \in Int /\ l >= 0 /\ l <= Len(b)
        BY <2>3, <3>1
      <4> HIDE DEF b, l
      <4>2. \A k \in 1..l : b[k] \in Record
        BY <4>1
      <4> QED BY <4>2 DEF b, l
    <3> QED BY <3>1, <3>2, SubSeqProperties
  <2> HIDE DEF s, f, d, a
  <2>5. c \in Seq(Record \cup {Torn}) /\ BeginsWith(c, a)
    BY <2>3, <2>4, ConcatProperties, Beginnings
  <2> HIDE DEF c
  <2>6. /\ f \in Segment /\ f.base_offset = s.base_offset
        /\ f.index = s.index /\ f.index_file_len = s.index_file_len
        /\ f.padding = s.padding /\ f.store = c
        /\ f.state = s.state
    BY <2>1, <2>2, <2>5 DEF Segment
  <2>7. FileOf(s, f)
    BY <2>1, <2>5, <2>6 DEF FileOf, Sound, a
  <2>8. sync_writes => BeginsWith(f.store, Contents(s))
    BY <2>1, <2>5, <2>6 DEF a
  <2> QED BY <2>7, <2>8 DEF s, f
<1>4. Restart(files)
  BY <1>1
<1> HIDE DEF files
<1> QED BY <1>2, <1>3, <1>4, RestartCuts

(* So does one in the middle of Log::close.                                *)
LEMMA CrashDuringCloseShape ==
    ASSUME IInv, crash_during_close
    PROVE  Flags /\ Cuts(Len(segments))
<1>1. PICK n \in 0..Len(segments) :
        Restart([i \in DOMAIN segments |->
                    IF i <= n THEN close(segments[i]) ELSE segments[i]])
  BY DEF crash_during_close
<1> DEFINE files == [i \in DOMAIN segments |->
                        IF i <= n THEN close(segments[i]) ELSE segments[i]]
<1>2. DOMAIN files = 1..Len(segments) /\ Len(segments) \in 1..Len(segments)
  BY SegmentsType
<1>3. ASSUME NEW i \in 1..Len(segments)
      PROVE  /\ FileOf(segments[i], files[i])
             /\ sync_writes => BeginsWith(files[i].store,
                                          Contents(segments[i]))
  <2>1. files[i] \in {close(segments[i]), segments[i]}
    BY <1>2
  <2>2. Contents(segments[i]) \in Seq(Record \cup {Torn})
    BY SegmentsType, SegmentFields
  <2> HIDE DEF files
  <2> QED BY <2>1, <2>2, OpenFile, Beginnings
<1>4. Restart(files)
  BY <1>1
<1> HIDE DEF files
<1> QED BY <1>2, <1>3, <1>4, RestartCuts

(* One in the middle of Log::truncate drops the last segments.             *)
LEMMA CrashDuringTruncateShape ==
    ASSUME IInv, NEW off, crash_during_truncate(off)
    PROVE  Flags /\ \E n \in 1..Len(segments) : Cuts(n)
<1>1. PICK n \in DOMAIN segments :
        \E last \in {close(segments[n]), store_removed(close(segments[n]))} :
          Restart([i \in 1..n |-> IF i = n THEN last ELSE segments[i]])
  BY Zenon DEF crash_during_truncate
<1>2. PICK last \in {close(segments[n]), store_removed(close(segments[n]))} :
          Restart([i \in 1..n |-> IF i = n THEN last ELSE segments[i]])
  BY <1>1
<1> DEFINE files == [i \in 1..n |-> IF i = n THEN last ELSE segments[i]]
<1>3. DOMAIN files = 1..n /\ n \in 1..Len(segments) /\ Len(segments) \in Nat
  BY SegmentsType
<1>4. ASSUME NEW i \in 1..n
      PROVE  \/ /\ FileOf(segments[i], files[i])
                /\ sync_writes => BeginsWith(files[i].store,
                                             Contents(segments[i]))
             \/ i = n /\ RemnantOf(segments[i], files[i])
  <2>1. i \in 1..Len(segments)
    BY <1>3
  <2>2. \/ files[i] \in {close(segments[i]), segments[i]}
        \/ i = n /\ files[i] = store_removed(close(segments[i]))
    OBVIOUS
  <2>3. Contents(segments[i]) \in Seq(Record \cup {Torn})
    BY <2>1, SegmentsType, SegmentFields
  <2> HIDE DEF files
  <2> QED BY <2>1, <2>2, <2>3, OpenFile, Beginnings
<1>5. Restart(files)
  BY <1>2
<1> HIDE DEF files
<1> QED BY <1>3, <1>4, <1>5, RestartCuts

(* A step that replaces segment k by t and leaves the others alone.        *)
LEMMA ReplaceCuts ==
    ASSUME IInv, NEW k \in 1..Len(segments), NEW t,
           segments' = [segments EXCEPT ![k] = t],
           Kept(segments[k], t), Whole(segments[k], t),
           UNCHANGED <<active_index, sync_writes, crashed>>
    PROVE  Flags /\ Cuts(Len(segments))
<1>1. segments \in Seq(Segment) /\ t \in Segment /\ Len(segments) \in Nat
      /\ active_index = Len(segments) /\ crashed \in BOOLEAN
  BY SegmentsType DEF Kept
<1>2. segments' \in Seq(Segment) /\ Len(segments') = Len(segments)
  BY <1>1, ExceptSeq
<1>3. ASSUME NEW i \in 1..Len(segments)
      PROVE  Kept(segments[i], segments'[i]) /\ Whole(segments[i], segments'[i])
  <2>1. CASE i = k
    <3>1. segments'[i] = t
      BY <1>1, <2>1
    <3> QED BY <2>1, <3>1
  <2>2. CASE i # k
    <3>1. segments'[i] = segments[i]
      BY <1>1, <2>2
    <3> QED BY <3>1, SameIsKept
  <2> QED BY <2>1, <2>2
<1> QED BY <1>1, <1>2, <1>3 DEF Flags, Cuts

(* A segment whose store has taken a record that the index refused.        *)
LEMMA AppendFailsShape ==
    ASSUME IInv, NEW r \in Record, append_fails(r)
    PROVE  Flags /\ Cuts(Len(segments))
<1> DEFINE k == Len(segments)
           s == segments[k]
           t == store_append(s, r)
<1>1. /\ k \in 1..Len(segments) /\ active = s /\ active_index = k
      /\ s \in Segment /\ Sound(s)
  BY SegmentsType
<1>2. segments' = [segments EXCEPT ![k] = t]
      /\ UNCHANGED <<active_index, sync_writes, crashed>>
  BY <1>1 DEF append_fails
<1> HIDE DEF s
<1>3. /\ t \in Segment /\ t.base_offset = s.base_offset
      /\ t.next_offset = s.next_offset /\ t.index = s.index
      /\ t.index_file_len = s.index_file_len /\ t.padding = s.padding
      /\ t.state = s.state
      /\ Contents(t) = Contents(s) \o <<r>>
      /\ sync_writes => t.buffer = <<>>
  BY <1>1, StoreAppended
<1> HIDE DEF t
<1>4. BeginsWith(Contents(t), Contents(s)) /\ BeginsWith(Contents(t), s.store)
  <2> DEFINE c == Contents(s)
             u == <<r>>
             f == s.store
             e == Contents(t)
  <2>1. /\ c \in Seq(Record \cup {Torn}) /\ f \in Seq(Record \cup {Torn})
        /\ e \in Seq(Record \cup {Torn}) /\ BeginsWith(c, f)
    BY <1>1, <1>3, SegmentFields, FileFirst
  <2>2. u \in Seq(Record \cup {Torn}) /\ e = c \o u
    BY <1>3
  <2> HIDE DEF c, u, f, e
  <2>3. BeginsWith(e, c)
    BY <2>1, <2>2, Beginnings
  <2>4. BeginsWith(e, f)
    BY <2>1, <2>3, Beginnings
  <2> QED BY <2>3, <2>4 DEF c, f, e
<1>5. Kept(s, t) /\ Whole(s, t)
  BY <1>1, <1>3, <1>4 DEF Kept, Whole, Sound, Marked, index_len
<1> HIDE DEF k
<1> QED BY <1>1, <1>2, <1>5, ReplaceCuts DEF s

(* Two segments have no offset in common, so the search of Log::read finds *)
(* the one segment that has it.                                            *)
LEMMA OneSegment ==
    ASSUME NEW segs, Len(segs) \in Nat, NEW i \in 1..Len(segs),
           NEW off \in Nat,
           \A j \in 1..Len(segs) : /\ segs[j].base_offset \in Nat
                                  /\ segs[j].next_offset \in Nat,
           \A j, k \in 1..Len(segs) :
              j < k => segs[j].next_offset <= segs[k].base_offset,
           is_in_range(segs[i], off)
    PROVE  /\ \A j \in 1..Len(segs) : is_in_range(segs[j], off) => j = i
           /\ i = CHOOSE k \in 1..Len(segs) :
                      /\ is_in_range(segs[k], off)
                      /\ \A j \in 1..(k - 1) : ~is_in_range(segs[j], off)
<1>1. \A j \in 1..Len(segs) : is_in_range(segs[j], off) => j = i
  BY DEF is_in_range
<1>2. \A j \in 1..(i - 1) : ~is_in_range(segs[j], off)
  BY <1>1
<1> QED BY <1>1, <1>2

(* Log::read finds the one segment that has the offset.                    *)
LEMMA SegmentOfIs ==
    ASSUME IInv, NEW i \in 1..Len(segments), NEW off \in Nat,
           is_in_range(segments[i], off)
    PROVE  /\ SegmentOf(off) = i
           /\ \A j \in 1..Len(segments) : is_in_range(segments[j], off) => j = i
<1>1. /\ Len(segments) \in Nat
      /\ \A j \in 1..Len(segments) : /\ segments[j].base_offset \in Nat
                                      /\ segments[j].next_offset \in Nat
      /\ \A j, k \in 1..Len(segments) :
            j < k => segments[j].next_offset <= segments[k].base_offset
  BY SegmentsType, SegmentFields DEF IInv, Layout
<1> QED BY <1>1, OneSegment DEF SegmentOf

(* Log::read flushes one segment.                                          *)
LEMMA ReadShape ==
    ASSUME IInv, NEW off \in Nat, read(off)
    PROVE  Flags /\ Cuts(Len(segments))
<1>1. PICK k \in 1..Len(segments) : is_in_range(segments[k], off)
  BY DEF read, Readable
<1>2. SegmentOf(off) = k
  BY <1>1, SegmentOfIs
<1> DEFINE t == flush(segments[k])
<1>3. /\ segments' = [segments EXCEPT ![k] = t]
      /\ UNCHANGED <<active_index, sync_writes, crashed>>
  BY <1>2 DEF read
<1>4. Kept(segments[k], t) /\ Whole(segments[k], t)
  BY FlushedIsKept
<1> HIDE DEF t
<1> QED BY <1>3, <1>4, ReplaceCuts

(* Log::truncate drops the last segments and never the first one.          *)
LEMMA TruncateShape ==
    ASSUME IInv, NEW off \in Nat, off >= inital_offset, truncate(off)
    PROVE  Flags /\ \E n \in 1..Len(segments) : Cuts(n)
<1>1. PICK n \in 0..Len(segments) :
        /\ \A i \in (n + 1)..Len(segments) :
              is_lesser_than_range(segments[i], off)
        /\ segments' = SubSeq(segments, 1, n)
        /\ active_index' = active_index - (Len(segments) - n)
        /\ UNCHANGED <<sync_writes, crashed>>
  BY DEF truncate
<1>2. /\ segments \in Seq(Segment) /\ Len(segments) \in Nat
      /\ Len(segments) >= 1 /\ active_index = Len(segments)
      /\ crashed \in BOOLEAN
  BY SegmentsType
<1>3. n \in 1..Len(segments)
  <2>1. segments[1].base_offset = inital_offset /\ inital_offset \in Nat
    BY ConfigAssumption DEF IInv, Layout
  <2>2. n # 0
    BY <1>1, <1>2, <2>1 DEF is_lesser_than_range
  <2> QED BY <1>2, <2>2
<1>4. /\ segments' \in Seq(Segment) /\ Len(segments') = n
      /\ \A i \in 1..n : segments'[i] = segments[i]
  <2>1. \A i \in 1..n : segments[i] \in Segment
    BY <1>2, <1>3
  <2> QED BY <1>1, <1>2, <1>3, <2>1, SubSeqProperties
<1>5. \A i \in 1..n : /\ Kept(segments[i], segments'[i])
                      /\ Whole(segments[i], segments'[i])
  BY <1>2, <1>3, <1>4, SameIsKept
<1>6. active_index' = n
  BY <1>1, <1>2, <1>3
<1> QED BY <1>1, <1>2, <1>3, <1>4, <1>5, <1>6 DEF Flags, Cuts

(* A crash before Index::write leaves a record that no entry names.        *)
LEMMA CrashDuringAppendShape ==
    ASSUME IInv, NEW r \in Record, crash_during_append(r)
    PROVE  Flags /\ Cuts(Len(segments))
<1>1. PICK stored \in {r, Torn} :
          Restart([segments EXCEPT ![active_index].store =
                    @ \o active.buffer \o <<stored>>])
  BY DEF crash_during_append
<1> DEFINE k == Len(segments)
           s == segments[k]
           c == (s.store \o s.buffer) \o <<stored>>
           f == [s EXCEPT !.store = c]
           files == [segments EXCEPT ![k] = f]
<1>2. /\ k \in 1..Len(segments) /\ active = s /\ active_index = k
      /\ s \in Segment /\ Sound(s) /\ segments \in Seq(Segment)
      /\ DOMAIN segments = 1..k
  BY SegmentsType
<1>3. Restart(files)
  BY <1>1, <1>2, Zenon
<1>4. DOMAIN files = 1..k
  BY <1>2
<1>5. /\ c \in Seq(Record \cup {Torn}) /\ BeginsWith(c, s.store)
      /\ BeginsWith(c, Contents(s))
  <2> DEFINE a == Contents(s)
             u == <<stored>>
             g == s.store
  <2>1. /\ a \in Seq(Record \cup {Torn}) /\ g \in Seq(Record \cup {Torn})
        /\ BeginsWith(a, g)
    BY <1>2, SegmentFields, FileFirst
  <2>2. u \in Seq(Record \cup {Torn}) /\ c = a \o u
    BY DEF Contents
  <2> HIDE DEF a, u, g, c
  <2>3. c \in Seq(Record \cup {Torn}) /\ BeginsWith(c, a)
    BY <2>1, <2>2, ConcatProperties, Beginnings
  <2>4. BeginsWith(c, g)
    BY <2>1, <2>3, Beginnings
  <2> QED BY <2>3, <2>4 DEF a, g
<1>6. /\ FileOf(s, f) /\ f.store = c
  <2> HIDE DEF c, s
  <2>1. /\ f \in Segment /\ f.base_offset = s.base_offset
        /\ f.index = s.index /\ f.index_file_len = s.index_file_len
        /\ f.padding = s.padding /\ f.store = c
        /\ f.state = s.state
    BY <1>2, <1>5 DEF Segment
  <2> HIDE DEF f
  <2> QED BY <1>2, <1>5, <2>1 DEF FileOf, Sound
<1>7. ASSUME NEW i \in 1..k
      PROVE  /\ FileOf(segments[i], files[i])
             /\ sync_writes => BeginsWith(files[i].store,
                                          Contents(segments[i]))
  <2>1. CASE i = k
    <3>1. files[i] = f
      BY <1>2, <2>1
    <3> HIDE DEF files, f, c
    <3> QED BY <1>5, <1>6, <2>1, <3>1
  <2>2. CASE i # k
    <3>1. files[i] = segments[i] /\ i \in 1..Len(segments)
      BY <1>2, <2>2
    <3>2. Contents(segments[i]) \in Seq(Record \cup {Torn})
      BY <3>1, SegmentsType, SegmentFields
    <3> HIDE DEF files
    <3> QED BY <3>1, <3>2, OpenFile, Beginnings
  <2> QED BY <2>1, <2>2
<1> HIDE DEF files
<1> QED BY <1>2, <1>3, <1>4, <1>7, RestartCuts

(* The segment an append has filled, on disk or in memory.                 *)
LEMMA AppendedSegment ==
    ASSUME IInv, NEW r \in Record, ~index_is_full(active), NEW f,
           f = segment_append(active, r)
    PROVE  /\ f \in Segment /\ Sound(f)
           /\ f.base_offset = active.base_offset
           /\ f.next_offset = active.next_offset + 1
           /\ f.index = Append(active.index, store_len(active))
           /\ f.state = active.state
           /\ Contents(f) = Contents(active) \o <<r>>
           /\ BeginsWith(f.store, active.store)
           /\ sync_writes => f.buffer = <<>>
<1> DEFINE s == active
           l == store_len(s)
<1>1. s \in Segment /\ Sound(s)
  BY SegmentsType
<1>2. f = segment_append(s, r) /\ ~index_is_full(s)
  OBVIOUS
<1> HIDE DEF s
<1>3. /\ f \in Segment /\ f.base_offset = s.base_offset
      /\ f.next_offset = s.next_offset + 1
      /\ f.index = Append(s.index, l)
      /\ f.index_file_len = s.index_file_len /\ f.padding = s.padding
      /\ f.state = s.state
      /\ Contents(f) = Contents(s) \o <<r>>
      /\ BeginsWith(f.store, s.store)
      /\ sync_writes => f.buffer = <<>>
  BY <1>1, <1>2, SegmentAppended
<1>4. /\ Len(s.index) \in Nat /\ index_len(s) = 12 * Len(s.index)
      /\ index_len(f) = 12 * Len(f.index) /\ s.index \in Seq(Nat)
      /\ l \in Nat /\ s.base_offset \in Nat
  BY <1>1, <1>3, SegmentFields
<1> HIDE DEF l
<1>5. Len(f.index) = Len(s.index) + 1
  BY <1>3, <1>4
<1>6. index_len(f) <= max_index_bytes
  <2>1. index_len(s) + 12 <= max_index_bytes
    BY <1>2, <1>4, ConfigAssumption DEF index_is_full, ENTIRE_WIDTH
  <2>2. index_len(f) = index_len(s) + 12
    BY <1>4, <1>5
  <2> QED BY <2>1, <2>2
<1>7. Sound(f)
  <2>1. f.next_offset = f.base_offset + Len(f.index)
    <3>1. s.next_offset = s.base_offset + Len(s.index)
      BY <1>1 DEF Sound
    <3>2. /\ f.base_offset = s.base_offset
          /\ f.next_offset = s.next_offset + 1
      BY <1>3
    <3>3. f.next_offset = (s.base_offset + Len(s.index)) + 1
      BY <3>1, <3>2
    <3>4. s.base_offset \in Nat /\ Len(s.index) \in Nat
      BY <1>4
    <3>5. (s.base_offset + Len(s.index)) + 1
             = s.base_offset + (Len(s.index) + 1)
      BY <3>4
    <3> QED BY <1>5, <3>2, <3>3, <3>5, Zenon
  <2>2. Marked(f)
    <3>1. f.padding = s.padding /\ Marked(s) /\ f.index # <<>>
      BY <1>1, <1>3, <1>4, <1>5 DEF Sound
    <3> QED BY <3>1 DEF Marked
  <2> QED BY <1>1, <1>3, <1>6, <2>1, <2>2 DEF Sound
<1> QED BY <1>3, <1>7 DEF s, l

(* Log::append adds one record, and perhaps a segment.                     *)
LEMMA AppendShape ==
    ASSUME IInv, NEW r \in Record, append(r)
    PROVE  Flags /\ Grows(r)
<1> DEFINE k == Len(segments)
           s == segments[k]
           f == segment_append(active, r)
           grown == [segments EXCEPT ![k] = f]
           next == Reopened(NewFiles(s.next_offset + 1))
<1>1. /\ k \in Nat /\ k >= 1 /\ active = s /\ active_index = k
      /\ s \in Segment /\ segments \in Seq(Segment) /\ crashed \in BOOLEAN
      /\ k \in 1..Len(segments) /\ s.next_offset \in Nat
  BY SegmentsType, SegmentFields
<1>2. /\ UNCHANGED <<sync_writes, crashed>> /\ ~index_is_full(active)
      /\ \/ segments' = Append(grown, next) /\ active_index' = k + 1
         \/ segments' = grown /\ active_index' = k
  <2>1. grown = [segments EXCEPT ![active_index] = f]
    BY <1>1
  <2>2. next = Reopened(Successor(active.next_offset))
    BY <1>1 DEF Successor
  <2> HIDE DEF f, grown, next
  <2> QED BY <1>1, <2>1, <2>2 DEF append, f
<1>3. /\ f \in Segment /\ Sound(f)
      /\ f.base_offset = s.base_offset
      /\ f.next_offset = s.next_offset + 1
      /\ f.index = Append(s.index, store_len(s))
      /\ f.state = s.state
      /\ Contents(f) = Contents(s) \o <<r>>
      /\ BeginsWith(f.store, s.store)
      /\ sync_writes => f.buffer = <<>>
  BY <1>1, <1>2, AppendedSegment
<1> HIDE DEF f
<1>4. BeginsWith(Contents(f), s.store)
  <2> DEFINE a == Contents(f)
             b == f.store
             c == s.store
  <2>1. /\ a \in Seq(Record \cup {Torn}) /\ b \in Seq(Record \cup {Torn})
        /\ c \in Seq(Record \cup {Torn})
        /\ BeginsWith(a, b) /\ BeginsWith(b, c)
    BY <1>1, <1>3, SegmentFields, FileFirst
  <2> HIDE DEF a, b, c
  <2>2. BeginsWith(a, c)
    BY <2>1, Beginnings
  <2> QED BY <2>2 DEF a, c
<1>5. Pushed(s, f, r)
  BY <1>3, <1>4 DEF Pushed
<1>6. Fresh(next, s.next_offset + 1)
  BY <1>1, Created DEF Fresh
<1>7. next \in Segment
  BY <1>6 DEF Fresh
<1> HIDE DEF next, s
<1>8. /\ grown \in Seq(Segment) /\ Len(grown) = k
      /\ grown[k] = f
      /\ \A i \in 1..(k - 1) : grown[i] = segments[i]
  BY <1>1, <1>3
<1> HIDE DEF grown
<1>9. /\ segments' \in Seq(Segment) /\ Len(segments') \in {k, k + 1}
      /\ active_index' = Len(segments')
      /\ \A i \in 1..k : segments'[i] = grown[i]
      /\ Len(segments') = k + 1 => segments'[k + 1] = next
  <2>1. CASE segments' = Append(grown, next) /\ active_index' = k + 1
    <3>1. /\ segments' \in Seq(Segment) /\ Len(segments') = k + 1
          /\ \A i \in 1..Len(grown) : segments'[i] = grown[i]
          /\ segments'[Len(grown) + 1] = next
      BY <1>7, <1>8, <2>1, AppendProperties
    <3> HIDE DEF k
    <3> QED BY <1>8, <2>1, <3>1
  <2>2. CASE segments' = grown /\ active_index' = k
    <3>1. k \in Nat /\ k # k + 1
      BY <1>1
    <3> HIDE DEF k
    <3> QED BY <1>8, <2>2, <3>1
  <2> QED BY <1>2, <2>1, <2>2
<1>10. \A i \in 1..(k - 1) : /\ Kept(segments[i], segments'[i])
                             /\ Whole(segments[i], segments'[i])
  BY <1>1, <1>8, <1>9, SameIsKept
<1>11. segments'[k] = f
  BY <1>1, <1>8, <1>9
<1>12. Grows(r)
  BY <1>5, <1>6, <1>9, <1>10, <1>11 DEF Grows, s
<1> QED BY <1>1, <1>2, <1>12 DEF Flags

(* A crash after Index::write leaves the record appended, and perhaps the  *)
(* files of a successor.                                                   *)
LEMMA CrashAfterWriteShape ==
    ASSUME IInv, NEW r \in Record, ~index_is_full(active),
           NEW f, f = segment_append(active, r),
           NEW grown, grown = [segments EXCEPT ![active_index] = f],
           NEW files, Restart(files),
           files \in {grown, Append(grown, Successor(active.next_offset))}
    PROVE  Flags /\ Grows(r)
<1> DEFINE k == Len(segments)
           s == segments[k]
           g == NewFiles(s.next_offset + 1)
           M == Len(files)
<1>1. /\ k \in Nat /\ k >= 1 /\ active = s /\ active_index = k
      /\ s \in Segment /\ segments \in Seq(Segment) /\ crashed \in BOOLEAN
      /\ sync_writes \in BOOLEAN /\ DOMAIN segments = 1..k
      /\ s.next_offset \in Nat /\ k \in 1..Len(segments) /\ Sound(s)
  BY SegmentsType, SegmentFields
<1>2. /\ f \in Segment /\ Sound(f)
      /\ f.base_offset = s.base_offset
      /\ f.next_offset = s.next_offset + 1
      /\ f.index = Append(s.index, store_len(s))
      /\ f.state = s.state
      /\ Contents(f) = Contents(s) \o <<r>>
      /\ BeginsWith(f.store, s.store)
      /\ sync_writes => f.buffer = <<>>
  BY <1>1, AppendedSegment
<1>3. /\ g \in Segment /\ g.index = <<>> /\ g.index_file_len = 0
      /\ g.base_offset = s.next_offset + 1 /\ s.next_offset + 1 \in Nat
      /\ g = Successor(active.next_offset)
  <2>1. s.next_offset + 1 \in Nat
    BY <1>1
  <2>2. g = Successor(active.next_offset)
    BY <1>1 DEF Successor
  <2> QED BY <2>1, <2>2, NewFilesAre
<1>4. Open(files) /\ crashed' = (crashed \/ ~sync_writes)
      /\ sync_writes' = sync_writes
  BY DEF Restart, Open
<1>5. /\ grown \in Seq(Segment) /\ Len(grown) = k /\ grown[k] = f
      /\ \A i \in 1..(k - 1) : grown[i] = segments[i]
  <2> HIDE DEF s
  <2> QED BY <1>1, <1>2
<1>6. /\ files \in Seq(Segment) /\ M \in {k, k + 1} /\ DOMAIN files = 1..M
      /\ files[k] = f /\ files # <<>>
      /\ \A i \in 1..(k - 1) : files[i] = segments[i]
      /\ M = k + 1 => files[k + 1] = g
  <2> HIDE DEF g, k
  <2>1. CASE files = grown
    <3>1. k # k + 1
      BY <1>1
    <3> QED BY <1>1, <1>5, <2>1, <3>1
  <2>2. CASE files = Append(grown, g)
    <3>1. /\ files \in Seq(Segment) /\ Len(files) = k + 1
          /\ \A i \in 1..k : files[i] = grown[i]
          /\ files[k + 1] = g
      BY <1>1, <1>3, <1>5, <2>2, AppendProperties
    <3> QED BY <1>1, <1>5, <3>1
  <2> QED BY <1>3, <2>1, <2>2
<1> HIDE DEF k, g, M
<1>7. PICK torn \in TornSets(files) : segments' = Opened(files, torn)
  BY <1>4, <1>6 DEF Open
<1>8. \A i \in torn : files[i].index_file_len = 0
  BY <1>7 DEF TornSets
<1>9. segments' = [i \in 1..M |->
        Reopened(IF i \in torn THEN set_len(files[i]) ELSE files[i])]
  BY <1>6, <1>7 DEF Opened
<1> HIDE DEF s
<1>10. Pushed(s, segments'[k], r)
  <2> DEFINE t == segments'[k]
  <2>1. f.index_file_len # 0 /\ f.index_file_len = max_index_bytes
        /\ index_len(f) <= max_index_bytes /\ Marked(f)
    <3>1. /\ index_len(f) = 12 * Len(f.index) /\ f.index \in Seq(Nat)
          /\ s.index \in Seq(Nat) /\ store_len(s) \in Nat
          /\ max_index_bytes \in Nat
      BY <1>1, <1>2, SegmentFields, ConfigAssumption
    <3>2. Len(f.index) = Len(s.index) + 1 /\ Len(s.index) \in Nat
      BY <1>2, <3>1
    <3> QED BY <1>2, <3>1, <3>2 DEF Sound
  <2>2. t = Reopened(f)
    <3>1. k \in 1..M /\ k \notin torn
      BY <1>1, <1>6, <1>8, <2>1
    <3> QED BY <1>6, <1>9, <3>1
  <2> HIDE DEF t
  <2>3. /\ t \in Segment /\ Sound(t)
        /\ t.base_offset = f.base_offset
        /\ t.next_offset = f.base_offset + Len(f.index)
        /\ t.index = f.index /\ t.store = f.store /\ t.buffer = <<>>
        /\ t.state = f.state
    BY <1>2, <2>1, <2>2, ReopenedIs
  <2>4. Contents(t) = f.store
    BY <2>3, FileFirst
  <2>5. ~crashed' => Contents(t) = Contents(s) \o <<r>>
    BY <1>1, <1>2, <1>4, <2>4, FileFirst
  <2>6. t.next_offset = s.next_offset + 1
    BY <1>2, <2>3 DEF Sound
  <2>7. Pushed(s, t, r)
    BY <1>2, <2>3, <2>4, <2>5, <2>6 DEF Pushed
  <2> QED BY <2>7 DEF t
<1>11. ASSUME NEW i \in 1..(k - 1)
       PROVE  /\ Kept(segments[i], segments'[i])
              /\ ~crashed' => Whole(segments[i], segments'[i])
  <2>1. i \in 1..k /\ i \in 1..M /\ i \in 1..Len(segments)
        /\ i # Len(segments) /\ files[i] = segments[i]
    BY <1>1, <1>6 DEF k
  <2>2. /\ FileOf(segments[i], segments[i])
        /\ sync_writes => segments[i].store = Contents(segments[i])
    BY <2>1, OpenFile
  <2>3. i \notin torn
    BY <1>8, <2>1, <2>2, TornReopened
  <2>4. segments'[i] = Reopened(segments[i])
    BY <1>9, <2>1, <2>3
  <2>5. BeginsWith(Contents(segments[i]), Contents(segments[i]))
    <3>1. Contents(segments[i]) \in Seq(Record \cup {Torn})
      BY <2>1, SegmentsType, SegmentFields
    <3> QED BY <3>1, Beginnings
  <2>6. ~crashed' => sync_writes
    BY <1>1, <1>4
  <2> QED BY <2>1, <2>2, <2>4, <2>5, <2>6, FileReopened
<1>12. M = k + 1 => Fresh(segments'[k + 1], s.next_offset + 1)
  <2> SUFFICES ASSUME M = k + 1
               PROVE  Fresh(segments'[k + 1], s.next_offset + 1)
    OBVIOUS
  <2> DEFINE t == segments'[k + 1]
             base == s.next_offset + 1
  <2>1. k + 1 \in 1..M /\ files[k + 1] = g
    BY <1>1, <1>6
  <2>2. CASE k + 1 \in torn
    <3>1. t = Reopened(set_len(g))
      BY <1>9, <2>1, <2>2
    <3> HIDE DEF t
    <3>2. /\ t \in Segment /\ Sound(t) /\ t.state = "damaged"
          /\ t.base_offset = base /\ base <= t.next_offset
          /\ t.buffer = <<>>
      BY <1>3, <3>1, TornIs
    <3>3. Fresh(t, base)
      BY <3>2 DEF Fresh
    <3> QED BY <3>3 DEF t
  <2>3. CASE k + 1 \notin torn
    <3>1. t = Reopened(NewFiles(base)) /\ base \in Nat
      BY <1>3, <1>9, <2>1, <2>3 DEF g
    <3> HIDE DEF t, base
    <3>2. Fresh(t, base)
      BY <3>1, Created DEF Fresh
    <3> QED BY <3>2 DEF t, base
  <2> QED BY <2>2, <2>3
<1>13. segments' \in Seq(Segment) /\ Len(segments') = M
  <2>1. ASSUME NEW i \in 1..M PROVE segments'[i] \in Segment
    <3>1. i \in 1..(k - 1) \/ i = k \/ (M = k + 1 /\ i = k + 1)
      BY <1>1, <1>6
    <3> QED BY <1>10, <1>11, <1>12, <3>1 DEF Kept, Pushed, Fresh
  <2>2. segments' \in [1..M -> Segment]
    BY <1>9, <2>1
  <2>3. M \in Nat
    BY <1>1, <1>6
  <2> QED BY <2>2, <2>3, IsASeq, LenProperties
<1>14. active_index' = Len(segments')
  BY <1>4, <1>6 DEF Open
<1>15. Grows(r)
  BY <1>6, <1>10, <1>11, <1>12, <1>13, <1>14 DEF Grows, k, s
<1> QED BY <1>1, <1>4, <1>15 DEF Flags

(* The two crashes in Log::append after Index::write.                      *)
LEMMA CrashInRotationShape ==
    ASSUME IInv, NEW r \in Record,
           crash_before_rotation(r) \/ crash_during_rotation(r)
    PROVE  Flags /\ Grows(r)
<1> DEFINE f == segment_append(active, r)
           grown == [segments EXCEPT ![active_index] = f]
<1>1. CASE crash_before_rotation(r)
  <2>1. ~index_is_full(active) /\ Restart(grown)
    BY <1>1 DEF crash_before_rotation
  <2> HIDE DEF f, grown
  <2> QED BY <2>1, CrashAfterWriteShape DEF f, grown
<1>2. CASE crash_during_rotation(r)
  <2>1. /\ ~index_is_full(active)
        /\ Restart(Append(grown, Successor(active.next_offset)))
    BY <1>2 DEF crash_during_rotation
  <2> DEFINE files == Append(grown, Successor(active.next_offset))
  <2>2. Restart(files)
    BY <2>1
  <2>3. files \in {grown, Append(grown, Successor(active.next_offset))}
    OBVIOUS
  <2> HIDE DEF f, grown, files
  <2> QED BY <2>1, <2>2, <2>3, CrashAfterWriteShape DEF f, grown
<1> QED BY <1>1, <1>2

(* Every step keeps a beginning of the segments or appends one record.     *)
LEMMA StepShape ==
    ASSUME IInv, Next
    PROVE  /\ Flags
           /\ \/ \E n \in 1..Len(segments) : Cuts(n)
              \/ \E r \in Record : Grows(r)
<1>1. Len(segments) \in 1..Len(segments)
  BY SegmentsType
<1>2. \A off \in inital_offset..MaxOffset : off \in Nat /\ off >= inital_offset
  BY ConfigAssumption
<1>3. CASE \E r \in Record : \/ append(r) \/ crash_before_rotation(r)
                            \/ crash_during_rotation(r)
  BY <1>3, AppendShape, CrashInRotationShape
<1>4. CASE \E r \in Record : append_fails(r) \/ crash_during_append(r)
  BY <1>1, <1>4, AppendFailsShape, CrashDuringAppendShape
<1>5. CASE \E off \in inital_offset..MaxOffset : read(off)
  BY <1>1, <1>2, <1>5, ReadShape
<1>6. CASE \E off \in inital_offset..MaxOffset :
               truncate(off) \/ crash_during_truncate(off)
  BY <1>2, <1>6, TruncateShape, CrashDuringTruncateShape
<1>7. CASE close_and_reopen \/ crash \/ crash_during_close
  BY <1>1, <1>7, CloseAndReopenShape, CrashShape, CrashDuringCloseShape
<1> QED BY <1>3, <1>4, <1>5, <1>6, <1>7 DEF Next

-----------------------------------------------------------------------------
(* The invariant is inductive.                                             *)

(* The offsets of a segment are natural numbers, the first not above the   *)
(* next.                                                                   *)
LEMMA Offsets ==
    ASSUME NEW s \in Segment, Sound(s)
    PROVE  /\ s.base_offset \in Nat /\ s.next_offset \in Nat
           /\ s.base_offset <= s.next_offset
<1>1. /\ s.base_offset \in Nat /\ s.next_offset \in Nat
      /\ Len(s.index) \in Nat
  BY SegmentFields
<1> QED BY <1>1 DEF Sound

(* The layout survives a step that keeps a beginning of the segments.      *)
LEMMA CutsLayout ==
    ASSUME IInv, NEW n \in 1..Len(segments), Cuts(n)
    PROVE  Layout'
<1> DEFINE N == Len(segments)
<1>1. N \in Nat /\ n \in Nat /\ 1 <= n /\ n <= N
  BY SegmentsType
<1>2. \A i \in 1..N : /\ segments[i].base_offset \in Nat
                      /\ segments[i].next_offset \in Nat
                      /\ segments[i].base_offset <= segments[i].next_offset
  BY SegmentsType, Offsets
<1>3. /\ Len(segments') = n /\ active_index' = n
      /\ \A i \in 1..n :
            /\ Sound(segments'[i])
            /\ segments'[i].base_offset = segments[i].base_offset
            /\ segments[i].next_offset <= segments'[i].next_offset
            /\ i < n => /\ segments'[i].next_offset = segments[i].next_offset
                        /\ segments'[i].index = segments[i].index
            /\ segments'[i].next_offset \in Nat
  <2>1. Len(segments') = n /\ active_index' = n
    BY DEF Cuts
  <2>2. ASSUME NEW i \in 1..n
        PROVE  /\ Sound(segments'[i])
               /\ segments'[i].base_offset = segments[i].base_offset
               /\ segments[i].next_offset <= segments'[i].next_offset
               /\ i < n => /\ segments'[i].next_offset
                                  = segments[i].next_offset
                           /\ segments'[i].index = segments[i].index
               /\ segments'[i].next_offset \in Nat
    <3>1. segments[i].next_offset \in Nat
      BY <1>1, <1>2
    <3>2. CASE Kept(segments[i], segments'[i])
      <4>1. segments'[i].next_offset = segments[i].next_offset
        BY <3>2 DEF Kept
      <4> QED BY <3>1, <3>2, <4>1 DEF Kept
    <3>3. CASE i = n /\ Harmed(segments[i], segments'[i])
      <4>1. segments'[i] \in Segment
        BY <3>3 DEF Harmed
      <4>2. segments'[i].next_offset \in Nat
        BY <4>1, SegmentFields
      <4>3. ~(i < n)
        BY <1>1, <3>3
      <4> QED BY <3>3, <4>2, <4>3 DEF Harmed
    <3> QED BY <3>2, <3>3 DEF Cuts
  <2> QED BY <2>1, <2>2
<1>4. /\ segments[1].base_offset = inital_offset
      /\ \A i, j \in 1..N :
            i < j => segments[i].next_offset <= segments[j].base_offset
      /\ \A i \in 1..(N - 1) :
            /\ segments[i].next_offset = segments[i + 1].base_offset
            /\ segments[i].index # <<>>
      /\ \A off \in inital_offset..(segments[N].next_offset - 1) :
            Readable(off)
  BY DEF IInv, Layout
<1> HIDE DEF N
<1>5. ASSUME NEW off \in inital_offset..(segments'[n].next_offset - 1)
      PROVE  \E i \in 1..n : is_in_range(segments'[i], off)
  <2>1. /\ inital_offset \in Nat /\ segments[n].next_offset \in Nat
        /\ segments[N].next_offset \in Nat /\ segments[n].base_offset \in Nat
        /\ segments[n].base_offset <= segments[n].next_offset
        /\ segments'[n].next_offset \in Nat
    BY <1>1, <1>2, <1>3, ConfigAssumption
  <2>2. off \in Nat /\ inital_offset <= off /\ off < segments'[n].next_offset
    BY <2>1
  <2>3. CASE segments[n].base_offset <= off
    BY <1>1, <1>3, <2>2, <2>3 DEF is_in_range
  <2>4. CASE off < segments[n].base_offset
    <3>1. segments[n].next_offset <= segments[N].next_offset
      <4>1. n \in 1..N /\ N \in 1..N
        BY <1>1
      <4>2. CASE n = N
        BY <1>2, <4>1, <4>2
      <4>3. CASE n # N
        <5>1. segments[n].next_offset <= segments[N].base_offset
          BY <1>1, <1>4, <4>1, <4>3
        <5> QED BY <1>2, <4>1, <5>1
      <4> QED BY <4>2, <4>3
    <3>2. Readable(off)
      BY <1>4, <2>1, <2>2, <2>4, <3>1
    <3>3. PICK i \in 1..N : is_in_range(segments[i], off)
      BY <3>2 DEF Readable, N
    <3>4. i < n
      <4>1. segments[i].base_offset <= off
        BY <3>3 DEF is_in_range
      <4>2. CASE i = n
        BY <2>1, <2>2, <2>4, <4>1, <4>2
      <4>3. CASE i > n
        <5>1. segments[n].next_offset <= segments[i].base_offset
              /\ segments[i].base_offset \in Nat
          BY <1>1, <1>2, <1>4, <4>3
        <5> QED BY <2>1, <2>2, <2>4, <4>1, <5>1
      <4> QED BY <1>1, <4>2, <4>3
    <3> QED BY <1>1, <1>3, <3>3, <3>4 DEF is_in_range
  <2> QED BY <2>1, <2>2, <2>3, <2>4
<1>6. \A off \in inital_offset..(segments'[n].next_offset - 1) : Readable(off)'
  BY <1>3, <1>5 DEF Readable
<1>7. \A i, j \in 1..n :
          i < j => segments'[i].next_offset <= segments'[j].base_offset
  BY <1>1, <1>3, <1>4
<1>8. \A i \in 1..(n - 1) :
          /\ segments'[i].next_offset = segments'[i + 1].base_offset
          /\ segments'[i].index # <<>>
  <2> TAKE i \in 1..(n - 1)
  <2>1. i \in 1..n /\ i + 1 \in 1..n /\ i \in 1..(N - 1) /\ i < n
    BY <1>1
  <2>2. /\ segments[i].next_offset = segments[i + 1].base_offset
        /\ segments[i].index # <<>>
    BY <1>4, <2>1
  <2> QED BY <1>3, <2>1, <2>2
<1> QED BY <1>1, <1>3, <1>4, <1>6, <1>7, <1>8 DEF Layout

(* And one that appends a record.                                          *)
LEMMA GrowsLayout ==
    ASSUME IInv, NEW r, Grows(r)
    PROVE  Layout'
<1> DEFINE N == Len(segments)
           M == Len(segments')
<1>1. N \in Nat /\ 1 <= N /\ M \in {N, N + 1} /\ active_index' = M
  BY SegmentsType DEF Grows
<1>2. \A i \in 1..N : /\ segments[i].base_offset \in Nat
                      /\ segments[i].next_offset \in Nat
                      /\ segments[i].base_offset <= segments[i].next_offset
  BY SegmentsType, Offsets
<1>3. /\ \A i \in 1..(N - 1) :
            /\ Sound(segments'[i])
            /\ segments'[i].base_offset = segments[i].base_offset
            /\ segments'[i].next_offset = segments[i].next_offset
            /\ segments'[i].index = segments[i].index
      /\ Sound(segments'[N])
      /\ segments'[N].base_offset = segments[N].base_offset
      /\ segments'[N].next_offset = segments[N].next_offset + 1
      /\ M = N + 1 =>
            /\ segments'[M] \in Segment /\ Sound(segments'[M])
            /\ segments'[M].base_offset = segments[N].next_offset + 1
            /\ segments[N].next_offset + 1 <= segments'[M].next_offset
  BY DEF Grows, Kept, Pushed, Fresh
<1>4. /\ segments[1].base_offset = inital_offset
      /\ \A i, j \in 1..N :
            i < j => segments[i].next_offset <= segments[j].base_offset
      /\ \A i \in 1..(N - 1) :
            /\ segments[i].next_offset = segments[i + 1].base_offset
            /\ segments[i].index # <<>>
      /\ \A off \in inital_offset..(segments[N].next_offset - 1) :
            Readable(off)
  BY DEF IInv, Layout
<1>11. segments'[N].index # <<>>
  <2>1. segments[N] \in Segment
    BY SegmentsType
  <2>2. /\ segments[N].index \in Seq(Nat) /\ store_len(segments[N]) \in Nat
        /\ segments'[N].index = Append(segments[N].index,
                                      store_len(segments[N]))
    BY <2>1, SegmentFields DEF Grows, Pushed
  <2> QED BY <2>2
<1>12. M = N + 1 => segments'[M].next_offset \in Nat
  BY <1>3, SegmentFields
<1> HIDE DEF N, M
<1>5. ASSUME NEW off \in inital_offset..(segments'[M].next_offset - 1)
      PROVE  \E i \in 1..M : is_in_range(segments'[i], off)
  <2>1. inital_offset \in Nat /\ segments[N].next_offset \in Nat
        /\ segments[N].base_offset <= segments[N].next_offset
        /\ segments[N].base_offset \in Nat
    BY <1>1, <1>2, ConfigAssumption
  <2>2. off \in Nat /\ inital_offset <= off
        /\ off < segments'[M].next_offset
    BY <1>1, <1>3, <1>12, <2>1
  <2>5. CASE off > segments[N].next_offset
    <3>1. M = N + 1
      BY <1>1, <1>3, <2>1, <2>2, <2>5
    <3>2. is_in_range(segments'[M], off)
      BY <1>3, <2>1, <2>2, <2>5, <3>1 DEF is_in_range
    <3>3. M \in 1..M
      BY <1>1
    <3> QED BY <3>2, <3>3
  <2>3. CASE off = segments[N].next_offset
    BY <1>1, <1>3, <2>1, <2>3 DEF is_in_range
  <2>4. CASE off < segments[N].next_offset
    <3>1. Readable(off)
      BY <1>4, <2>1, <2>2, <2>4
    <3>2. PICK i \in 1..N : is_in_range(segments[i], off)
      BY <3>1 DEF Readable, N
    <3>3. CASE i = N
      BY <1>1, <1>3, <2>1, <2>2, <3>2, <3>3 DEF is_in_range
    <3>4. CASE i # N
      BY <1>1, <1>3, <3>2, <3>4 DEF is_in_range
    <3> QED BY <3>3, <3>4
  <2> QED BY <2>1, <2>2, <2>3, <2>4, <2>5
<1>6. \A off \in inital_offset..(segments'[M].next_offset - 1) : Readable(off)'
  BY <1>5 DEF Readable, M
<1>7. \A i, j \in 1..M :
          i < j => segments'[i].next_offset <= segments'[j].base_offset
  <2> TAKE i, j \in 1..M
  <2> HAVE i < j
  <2>1. i \in 1..N /\ segments[i].next_offset \in Nat
        /\ segments[N].next_offset \in Nat
        /\ segments[i].next_offset <= segments[N].next_offset
    <3>1. i \in 1..N
      BY <1>1
    <3>2. CASE i = N
      BY <1>1, <1>2, <3>2
    <3>3. CASE i # N
      <4>1. segments[i].next_offset <= segments[N].base_offset
        BY <1>1, <1>4, <3>1, <3>3
      <4> QED BY <1>1, <1>2, <3>1, <4>1
    <3> QED BY <3>1, <3>2, <3>3
  <2>2. CASE j = N + 1
    BY <1>1, <1>3, <2>1, <2>2
  <2>3. CASE j \in 1..N
    <3>1. i \in 1..(N - 1) /\ segments[i].next_offset <= segments[j].base_offset
      BY <1>1, <1>4, <2>1, <2>3
    <3>2. segments'[j].base_offset = segments[j].base_offset
      BY <1>1, <1>3, <2>3
    <3> QED BY <1>3, <3>1, <3>2
  <2> QED BY <1>1, <2>2, <2>3
<1>8. \A i \in 1..(M - 1) :
          /\ segments'[i].next_offset = segments'[i + 1].base_offset
          /\ segments'[i].index # <<>>
  BY <1>1, <1>3, <1>4, <1>11
<1>9. \A i \in 1..M : Sound(segments'[i])
  BY <1>1, <1>3
<1>10. segments'[1].base_offset = inital_offset
  BY <1>1, <1>3, <1>4
<1> QED BY <1>1, <1>6, <1>7, <1>8, <1>9, <1>10 DEF Layout, M

(* A sequence is at least as long as what it begins with.                  *)
LEMMA BeginsLonger ==
    ASSUME NEW S, NEW c \in Seq(S), NEW d \in Seq(S), BeginsWith(d, c)
    PROVE  Len(c) <= Len(d)
<1>1. Len(c) \in Nat /\ Len(d) \in Nat
  OBVIOUS
<1>2. CASE Len(c) = 0
  BY <1>1, <1>2
<1>3. CASE Len(c) # 0
  <2>1. Len(c) \in 1..Len(c)
    BY <1>1, <1>3
  <2> QED BY <2>1 DEF BeginsWith
<1> QED BY <1>2, <1>3

(* The entries of a segment that is kept whole still name records.         *)
LEMMA KeptBacked ==
    ASSUME NEW s \in Segment, NEW t, Kept(s, t), Whole(s, t), Backed(s)
    PROVE  Backed(t)
<1>1. /\ t \in Segment /\ t.index = s.index
      /\ BeginsWith(Contents(t), Contents(s))
  BY DEF Kept, Whole
<1>2. /\ Contents(s) \in Seq(Record \cup {Torn})
      /\ Contents(t) \in Seq(Record \cup {Torn})
      /\ store_len(s) \in Nat /\ store_len(t) \in Nat
      /\ s.index \in Seq(Nat)
  BY <1>1, SegmentFields
<1>3. store_len(s) <= store_len(t)
  <2> DEFINE c == Contents(s)
             d == Contents(t)
  <2>1. c \in Seq(Record \cup {Torn}) /\ d \in Seq(Record \cup {Torn})
        /\ BeginsWith(d, c)
    BY <1>1, <1>2
  <2> HIDE DEF c, d
  <2>2. Len(c) <= Len(d)
    BY <2>1, BeginsLonger
  <2> QED BY <2>2 DEF c, d, store_len
<1>4. \A k \in 1..Len(s.index) : s.index[k] \in Nat /\ s.index[k] < store_len(s)
  BY <1>2 DEF Backed
<1> QED BY <1>1, <1>2, <1>3, <1>4 DEF Backed

(* The entry that an append adds names the record it added.                *)
LEMMA PushedBacked ==
    ASSUME NEW s \in Segment, NEW r \in Record, NEW t, Pushed(s, t, r),
           ~crashed', Backed(s)
    PROVE  Backed(t)
<1>1. /\ t \in Segment /\ t.index = Append(s.index, store_len(s))
      /\ Contents(t) = Contents(s) \o <<r>>
  BY DEF Pushed
<1>2. /\ Contents(s) \in Seq(Record \cup {Torn})
      /\ store_len(s) \in Nat /\ s.index \in Seq(Nat)
      /\ Len(s.index) \in Nat
  BY SegmentFields
<1>3. store_len(t) = store_len(s) + 1
  <2> DEFINE c == Contents(s)
  <2>1. c \in Seq(Record \cup {Torn}) /\ <<r>> \in Seq(Record \cup {Torn})
        /\ Contents(t) = c \o <<r>>
    BY <1>1, <1>2
  <2> HIDE DEF c
  <2>2. Len(c \o <<r>>) = Len(c) + 1
    BY <2>1
  <2> QED BY <2>1, <2>2 DEF c, store_len
<1>4. ASSUME NEW k \in 1..Len(t.index)
      PROVE  t.index[k] < store_len(t)
  <2> DEFINE x == s.index
             l == store_len(s)
  <2>1. x \in Seq(Nat) /\ l \in Nat /\ t.index = Append(x, l) /\ Len(x) \in Nat
        /\ store_len(t) = l + 1
    BY <1>1, <1>2, <1>3
  <2>2. \A i \in 1..Len(x) : x[i] < l
    BY DEF Backed
  <2> HIDE DEF x, l
  <2>3. CASE k = Len(x) + 1
    BY <2>1, <2>3
  <2>4. CASE k \in 1..Len(x)
    <3>1. t.index[k] = x[k] /\ x[k] \in Nat /\ x[k] < l
      BY <2>1, <2>2, <2>4
    <3> QED BY <2>1, <3>1
  <2> QED BY <2>1, <2>3, <2>4
<1> QED BY <1>4 DEF Backed

(* Backing is preserved by both shapes of a step.                          *)
LEMMA CutsBacking ==
    ASSUME IInv, Flags, NEW n \in 1..Len(segments), Cuts(n)
    PROVE  Backing'
<1>1. sync_writes' => ~crashed'
  BY DEF IInv, Backing, Flags
<1>2. Len(segments') = n /\ Len(segments) \in Nat
  BY SegmentsType DEF Cuts
<1>3. ASSUME NEW i \in 1..n
      PROVE  /\ sync_writes' => segments'[i].buffer = <<>>
             /\ ~crashed' => (segments'[i].state = "whole"
                                => Backed(segments'[i]))
  <2>1. i \in 1..Len(segments)
    BY <1>2
  <2>2. /\ segments[i] \in Segment
        /\ ~crashed' => (segments[i].state = "whole" => Backed(segments[i]))
    BY <2>1, SegmentsType DEF IInv, Backing, Flags
  <2>3. CASE /\ Kept(segments[i], segments'[i])
             /\ ~crashed' => Whole(segments[i], segments'[i])
    <3>1. segments'[i].state = segments[i].state
      BY <2>3 DEF Kept
    <3>2. ~crashed' => (segments'[i].state = "whole" => Backed(segments'[i]))
      BY <2>2, <2>3, <3>1, KeptBacked
    <3>3. sync_writes' => segments'[i].buffer = <<>>
      BY <2>3 DEF Kept, Flags
    <3> QED BY <3>2, <3>3
  <2>4. CASE Harmed(segments[i], segments'[i])
    BY <2>4 DEF Harmed, Flags
  <2> QED BY <2>3, <2>4 DEF Cuts
<1>4. sync_writes' => \A i \in 1..Len(segments') : segments'[i].buffer = <<>>
  BY <1>2, <1>3
<1>5. ~crashed' => \A i \in 1..Len(segments') :
                       segments'[i].state = "whole" => Backed(segments'[i])
  BY <1>2, <1>3
<1> QED BY <1>1, <1>4, <1>5 DEF Backing, Backed, store_len, Contents

(* The same for a step that appends a record.                              *)
LEMMA GrowsBacking ==
    ASSUME IInv, Flags, NEW r \in Record, Grows(r)
    PROVE  Backing'
<1> DEFINE N == Len(segments)
           M == Len(segments')
<1>1. sync_writes' => ~crashed'
  BY DEF IInv, Backing, Flags
<1>2. N \in Nat /\ N >= 1 /\ M \in {N, N + 1}
  BY SegmentsType DEF Grows
<1>3. ASSUME NEW i \in 1..M
      PROVE  /\ sync_writes' => segments'[i].buffer = <<>>
             /\ ~crashed' => (segments'[i].state = "whole"
                                => Backed(segments'[i]))
  <2>1. CASE i \in 1..(N - 1)
    <3>1. /\ Kept(segments[i], segments'[i])
          /\ ~crashed' => Whole(segments[i], segments'[i])
      BY <2>1 DEF Grows
    <3>2. i \in 1..N
      BY <1>2, <2>1
    <3>3. /\ segments[i] \in Segment
          /\ ~crashed' => (segments[i].state = "whole" => Backed(segments[i]))
      BY <3>2, SegmentsType DEF IInv, Backing, Flags
    <3>6. segments'[i].state = segments[i].state
      BY <3>1 DEF Kept
    <3>4. ~crashed' => (segments'[i].state = "whole" => Backed(segments'[i]))
      BY <3>1, <3>3, <3>6, KeptBacked
    <3>5. sync_writes' => segments'[i].buffer = <<>>
      BY <3>1 DEF Kept, Flags
    <3> QED BY <3>4, <3>5
  <2>2. CASE i = N
    <3>1. Pushed(segments[i], segments'[i], r)
      BY <2>2 DEF Grows
    <3>2. i \in 1..N
      BY <1>2, <2>2
    <3>3. /\ segments[i] \in Segment
          /\ ~crashed' => (segments[i].state = "whole" => Backed(segments[i]))
      BY <3>2, SegmentsType DEF IInv, Backing, Flags
    <3>6. segments'[i].state = segments[i].state
      BY <3>1 DEF Pushed
    <3>4. ~crashed' => (segments'[i].state = "whole" => Backed(segments'[i]))
      BY <3>1, <3>3, <3>6, PushedBacked
    <3>5. sync_writes' => segments'[i].buffer = <<>>
      BY <3>1 DEF Pushed, Flags
    <3> QED BY <3>4, <3>5
  <2>3. CASE i = N + 1
    <3>1. M = N + 1
      BY <1>2, <2>3
    <3>2. /\ segments'[i].state = "whole" => segments'[i].index = <<>>
          /\ segments'[i].buffer = <<>>
      BY <2>3, <3>1 DEF Grows, Fresh
    <3> QED BY <3>2 DEF Backed
  <2> QED BY <1>2, <2>1, <2>2, <2>3
<1>4. sync_writes' => \A i \in 1..Len(segments') : segments'[i].buffer = <<>>
  BY <1>3
<1>5. ~crashed' => \A i \in 1..Len(segments') :
                       segments'[i].state = "whole" => Backed(segments'[i])
  BY <1>3
<1> QED BY <1>1, <1>4, <1>5 DEF Backing, Backed, store_len, Contents

(* Log::new makes of no files one segment, with no entry but one that a    *)
(* crash may have left it.                                                 *)
LEMMA InitFresh ==
    ASSUME Init
    PROVE  /\ Len(segments) = 1 /\ segments \in Seq(Segment)
           /\ Fresh(segments[1], inital_offset)
<1> DEFINE g == NewFiles(inital_offset)
           t == segments[1]
<1>1. inital_offset \in Nat
  BY ConfigAssumption
<1>2. PICK torn \in TornSets(<<g>>) : segments = Opened(<<g>>, torn)
  BY DEF Init
<1>3. /\ g \in Segment /\ g.base_offset = inital_offset
      /\ g.index = <<>> /\ g.index_file_len = 0
  BY <1>1, NewFilesAre
<1>4. segments = [i \in 1..1 |->
        Reopened(IF i \in torn THEN set_len(g) ELSE g)]
  <2> HIDE DEF g
  <2>1. DOMAIN <<g>> = 1..1 /\ \A i \in 1..1 : <<g>>[i] = g
    OBVIOUS
  <2> QED BY <1>2, <2>1 DEF Opened
<1>5. Fresh(t, inital_offset)
  <2>1. CASE 1 \in torn
    <3>1. t = Reopened(set_len(g))
      BY <1>4, <2>1
    <3> HIDE DEF t, g
    <3>2. /\ t \in Segment /\ Sound(t) /\ t.state = "damaged"
          /\ t.base_offset = inital_offset /\ inital_offset <= t.next_offset
          /\ t.buffer = <<>>
      BY <1>3, <3>1, TornIs
    <3> QED BY <3>2 DEF Fresh
  <2>2. CASE 1 \notin torn
    <3>1. t = Reopened(NewFiles(inital_offset))
      BY <1>4, <2>2
    <3> HIDE DEF t
    <3> QED BY <1>1, <3>1, Created DEF Fresh
  <2> QED BY <2>1, <2>2
<1>6. segments \in Seq(Segment) /\ Len(segments) = 1
  <2>1. segments \in [1..1 -> Segment]
    <3>1. \A i \in 1..1 : segments[i] = t
      <4>1. \A i \in 1..1 : i = 1
        OBVIOUS
      <4> QED BY <4>1
    <3>2. t \in Segment
      BY <1>5 DEF Fresh
    <3> HIDE DEF t
    <3> QED BY <1>4, <3>1, <3>2
  <2> DEFINE n == 1
  <2>2. segments \in [1..n -> Segment] /\ n \in Nat
    BY <2>1
  <2>4. n = 1
    OBVIOUS
  <2> HIDE DEF n
  <2>3. segments \in Seq(Segment) /\ Len(segments) = n
    BY <2>2, IsASeq, LenProperties
  <2> QED BY <2>3, <2>4
<1> QED BY <1>5, <1>6

(* The log begins with that segment.                                       *)
LEMMA InitIInv == Init => IInv
<1> SUFFICES ASSUME Init PROVE IInv
  OBVIOUS
<1> DEFINE t == segments[1]
<1>1. inital_offset \in Nat
  BY ConfigAssumption
<1>2. /\ Len(segments) = 1 /\ segments \in Seq(Segment)
      /\ t \in Segment /\ Sound(t)
      /\ t.base_offset = inital_offset /\ inital_offset <= t.next_offset
      /\ t.state = "whole" => t.index = <<>> /\ t.next_offset = inital_offset
      /\ t.buffer = <<>>
  BY InitFresh DEF Fresh
<1>3. active_index = 1 /\ sync_writes \in BOOLEAN /\ crashed = FALSE
  BY DEF Init
<1>4. TypeOK
  <2>1. crashed \in BOOLEAN
    BY <1>3, Zenon
  <2>2. active_index \in Nat
    BY <1>3
  <2> QED BY <1>2, <1>3, <2>1, <2>2, Zenon DEF TypeOK
<1>5. t.next_offset \in Nat
  BY <1>2, SegmentFields
<1>6. Layout
  <2>1. ASSUME NEW off \in inital_offset..(t.next_offset - 1)
        PROVE  Readable(off)
    BY <1>1, <1>2, <1>5 DEF Readable, is_in_range
  <2> QED BY <1>1, <1>2, <1>3, <2>1 DEF Layout
<1>7. t.state = "whole" => Backed(t)
  BY <1>2 DEF Backed
<1>8. Backing
  BY <1>2, <1>3, <1>7 DEF Backing
<1> QED BY <1>4, <1>6, <1>8 DEF IInv

(* Every step preserves the invariant.                                     *)
LEMMA NextIInv == IInv /\ [Next]_vars => IInv'
<1> SUFFICES ASSUME IInv, [Next]_vars PROVE IInv'
  OBVIOUS
<1>1. CASE UNCHANGED vars
  BY <1>1 DEF vars, IInv, TypeOK, Layout, Backing, Readable, is_in_range,
              Sound, Marked, index_len, Backed, store_len, Contents
<1>2. CASE Next
  <2>1. /\ Flags
        /\ \/ \E n \in 1..Len(segments) : Cuts(n)
           \/ \E r \in Record : Grows(r)
    BY <1>2, StepShape
  <2>2. CASE \E n \in 1..Len(segments) : Cuts(n)
    <3>1. PICK n \in 1..Len(segments) : Cuts(n)
      BY <2>2
    <3>2. Layout' /\ Backing'
      BY <2>1, <3>1, CutsLayout, CutsBacking
    <3>3. TypeOK'
      BY <2>1, <3>1, SegmentsType DEF IInv, TypeOK, Flags, Cuts
    <3> QED BY <3>2, <3>3 DEF IInv
  <2>3. CASE \E r \in Record : Grows(r)
    <3>1. PICK r \in Record : Grows(r)
      BY <2>3
    <3>2. Layout' /\ Backing'
      BY <2>1, <3>1, GrowsLayout, GrowsBacking
    <3>3. TypeOK'
      <4>1. segments' \in Seq(Segment) /\ active_index' = Len(segments')
        BY <3>1 DEF Grows
      <4> QED BY <2>1, <4>1 DEF IInv, TypeOK, Flags
    <3> QED BY <3>2, <3>3 DEF IInv
  <2> QED BY <2>1, <2>2, <2>3
<1> QED BY <1>1, <1>2

(* The invariant holds in every state of the log.                          *)
LEMMA AlwaysIInv == Spec => []IInv
BY InitIInv, NextIInv, PTL DEF Spec

-----------------------------------------------------------------------------
(* Invariants.                                                             *)

(* The log keeps its types: no operation and no crash leaves a segment     *)
(* that is not one, or an active index that is not a number.               *)
THEOREM TypeCorrect == Spec => []TypeOK
BY AlwaysIInv, PTL DEF IInv

(* The segments follow one another and the active one is the last, after   *)
(* every rotation, truncation, reopening and crash (Log::append, truncate, *)
(* new), for every size of the index and the store.                        *)
THEOREM SegmentsFollow == Spec => []SegmentsAreContiguous
<1>1. IInv => SegmentsAreContiguous
  BY DEF IInv, Layout, SegmentsAreContiguous
<1> QED BY <1>1, AlwaysIInv, PTL

(* With sync_writes every entry of a segment that no crash has damaged     *)
(* names a record in the store file, whatever Index::new recovers after a  *)
(* close or a crash.  That a crash inside Index::new or Segment::remove    *)
(* does damage is what TornIndex.cfg and HalfRemoved.cfg show.             *)
THEOREM EntriesHold == Spec => []EntriesAreReal
<1>1. IInv => EntriesAreReal
  <2> SUFFICES ASSUME IInv, sync_writes, NEW s \in Range(segments),
                      s.state = "whole", NEW k \in DOMAIN s.index
               PROVE  s.index[k] < Len(s.store)
    BY DEF EntriesAreReal
  <2>1. PICK i \in 1..Len(segments) : s = segments[i]
    BY SegmentsType DEF Range
  <2>2. s \in Segment /\ s.buffer = <<>> /\ Backed(s)
    BY <2>1, SegmentsType DEF IInv, Backing
  <2>3. s.index \in Seq(Nat) /\ store_len(s) = Len(s.store)
    BY <2>2, SegmentFields, FileFirst DEF store_len
  <2>4. k \in 1..Len(s.index)
    BY <2>3
  <2> QED BY <2>2, <2>3, <2>4 DEF Backed
<1> QED BY <1>1, AlwaysIInv, PTL

-----------------------------------------------------------------------------
(* What a step leaves of the records.                                      *)

(* Segment t has the entries of segment s at their places, and all that    *)
(* was in the store file of s.                                             *)
Stays(s, t) ==
    /\ t \in Segment /\ Sound(t)
    /\ t.base_offset = s.base_offset
    /\ s.next_offset <= t.next_offset
    /\ \A k \in 1..Len(s.index) : t.index[k] = s.index[k]
    /\ t.state = s.state
    /\ BeginsWith(Contents(t), s.store)
    /\ ~crashed' => Whole(s, t)

(* A segment that is kept stays, and so does one that gets a record.       *)
LEMMA KeptStays ==
    ASSUME NEW s \in Segment, Sound(s), NEW t, Kept(s, t),
           ~crashed' => Whole(s, t)
    PROVE  Stays(s, t)
<1>1. s.next_offset \in Nat
  BY SegmentFields
<1> QED BY <1>1 DEF Kept, Stays

(* The same for a segment that gets a record.                              *)
LEMMA PushedStays ==
    ASSUME NEW s \in Segment, Sound(s), NEW r \in Record, NEW t,
           Pushed(s, t, r)
    PROVE  Stays(s, t)
<1>1. /\ s.next_offset \in Nat /\ s.index \in Seq(Nat)
      /\ store_len(s) \in Nat
      /\ Contents(s) \in Seq(Record \cup {Torn})
  BY SegmentFields
<1>2. s.next_offset <= t.next_offset
  BY <1>1 DEF Pushed
<1>3. \A k \in 1..Len(s.index) : t.index[k] = s.index[k]
  <2> DEFINE x == s.index
             l == store_len(s)
  <2>1. x \in Seq(Nat) /\ l \in Nat /\ t.index = Append(x, l)
    BY <1>1 DEF Pushed
  <2> HIDE DEF x, l
  <2>2. \A k \in 1..Len(x) : t.index[k] = x[k]
    BY <2>1
  <2> QED BY <2>2 DEF x
<1>4. ~crashed' => Whole(s, t)
  <2> DEFINE c == Contents(s)
  <2>1. c \in Seq(Record \cup {Torn}) /\ <<r>> \in Seq(Record \cup {Torn})
        /\ (~crashed' => Contents(t) = c \o <<r>>)
    BY <1>1 DEF Pushed
  <2> HIDE DEF c
  <2>2. BeginsWith(c \o <<r>>, c)
    BY <2>1, Beginnings
  <2> QED BY <2>1, <2>2 DEF Whole, c
<1> QED BY <1>2, <1>3, <1>4 DEF Pushed, Stays

(* Every segment that a step does not drop stays, or is damaged.           *)
LEMMA SegmentsStay ==
    ASSUME IInv, Next, NEW i \in 1..Len(segments), i <= Len(segments')
    PROVE  \/ Stays(segments[i], segments'[i])
           \/ Harmed(segments[i], segments'[i])
<1>1. segments[i] \in Segment /\ Sound(segments[i]) /\ Len(segments) \in Nat
      /\ i \in Nat /\ 1 <= i
  BY SegmentsType
<1>2. CASE \E n \in 1..Len(segments) : Cuts(n)
  <2>1. PICK n \in 1..Len(segments) : Cuts(n)
    BY <1>2
  <2>2. i \in 1..n
    BY <1>1, <2>1 DEF Cuts
  <2> QED BY <1>1, <2>1, <2>2, KeptStays DEF Cuts
<1>3. CASE \E r \in Record : Grows(r)
  <2>1. PICK r \in Record : Grows(r)
    BY <1>3
  <2>2. CASE i = Len(segments)
    BY <1>1, <2>1, <2>2, PushedStays DEF Grows
  <2>3. CASE i # Len(segments)
    <3>1. i \in 1..(Len(segments) - 1)
      BY <1>1, <2>3
    <3> QED BY <1>1, <2>1, <3>1, KeptStays DEF Grows
  <2> QED BY <2>2, <2>3
<1> QED BY <1>2, <1>3, StepShape

(* In a segment that stays, an offset keeps its position, and the record   *)
(* there its value.                                                        *)
LEMMA StaysRecord ==
    ASSUME NEW s \in Segment, Sound(s), NEW t, Stays(s, t),
           NEW off \in Nat, is_in_range(s, off)
    PROVE  /\ is_in_range(t, off)
           /\ index_read(t, off) = index_read(s, off)
           /\ index_read(s, off) \in Nat
           /\ index_read(s, off) < Len(s.store) =>
                store_read(t, index_read(s, off)) =
                    store_read(s, index_read(s, off))
           /\ ~crashed' /\ Backed(s) =>
                store_read(t, index_read(s, off)) =
                    store_read(s, index_read(s, off))
<1> DEFINE k == off - s.base_offset + 1
           pos == s.index[k]
           c == Contents(s)
           d == Contents(t)
           f == s.store
<1>1. /\ s.base_offset \in Nat /\ s.next_offset \in Nat
      /\ s.index \in Seq(Nat) /\ Len(s.index) \in Nat
      /\ t.next_offset \in Nat /\ t.base_offset \in Nat
  BY SegmentFields DEF Stays
<1>2. is_in_range(t, off)
  BY <1>1 DEF Stays, is_in_range
<1>3. k \in 1..Len(s.index)
  BY <1>1 DEF Sound, is_in_range
<1>4. t.index[k] = pos /\ pos \in Nat /\ t.base_offset = s.base_offset
  <2> HIDE DEF k
  <2> QED BY <1>1, <1>3 DEF Stays
<1>5. index_read(s, off) = pos /\ index_read(t, off) = pos
  <2>1. index_read(s, off) = s.index[off - s.base_offset + 1]
    BY DEF index_read
  <2>2. index_read(t, off) = t.index[off - t.base_offset + 1]
    BY DEF index_read
  <2> QED BY <1>4, <2>1, <2>2
<1>6. /\ c \in Seq(Record \cup {Torn}) /\ d \in Seq(Record \cup {Torn})
      /\ f \in Seq(Record \cup {Torn})
      /\ BeginsWith(d, f) /\ BeginsWith(c, f)
      /\ ~crashed' => BeginsWith(d, c)
  <2>1. t \in Segment
    BY DEF Stays
  <2> QED BY <2>1, SegmentFields, FileFirst DEF Stays, Whole
<1>7. Backed(s) => pos < Len(c)
  BY <1>3 DEF Backed, store_len
<1>8. /\ store_read(s, pos) = IF pos < Len(c) THEN c[pos + 1] ELSE Torn
      /\ store_read(t, pos) = IF pos < Len(d) THEN d[pos + 1] ELSE Torn
  BY DEF store_read, store_len
<1> HIDE DEF k, pos, c, d, f
<1>9. Len(c) \in Nat /\ Len(d) \in Nat /\ Len(f) \in Nat
  BY <1>6
<1>10. pos < Len(f) => store_read(t, pos) = store_read(s, pos)
  <2> SUFFICES ASSUME pos < Len(f)
               PROVE  store_read(t, pos) = store_read(s, pos)
    OBVIOUS
  <2>1. pos + 1 \in 1..Len(f)
    BY <1>4, <1>9
  <2>2. /\ pos + 1 <= Len(d) /\ d[pos + 1] = f[pos + 1]
        /\ pos + 1 <= Len(c) /\ c[pos + 1] = f[pos + 1]
    BY <1>6, <2>1 DEF BeginsWith
  <2>3. pos < Len(d) /\ pos < Len(c)
    BY <1>4, <1>9, <2>2
  <2> QED BY <1>8, <2>2, <2>3
<1>11. ~crashed' /\ Backed(s) => store_read(t, pos) = store_read(s, pos)
  <2> SUFFICES ASSUME ~crashed', Backed(s)
               PROVE  store_read(t, pos) = store_read(s, pos)
    OBVIOUS
  <2>1. pos < Len(c)
    BY <1>7
  <2>2. pos + 1 \in 1..Len(c)
    BY <1>4, <1>9, <2>1
  <2>3. pos + 1 <= Len(d) /\ d[pos + 1] = c[pos + 1]
    BY <1>6, <2>2 DEF BeginsWith
  <2>4. pos < Len(d)
    BY <1>4, <1>9, <2>3
  <2> QED BY <1>8, <2>1, <2>3, <2>4
<1>12. pos < Len(f) <=> index_read(s, off) < Len(s.store)
  BY <1>5 DEF f
<1> QED BY <1>2, <1>4, <1>5, <1>10, <1>11, <1>12

(* An offset of the log is found in one segment.                           *)
Located ==
    \A i \in 1..Len(segments) : \A off \in Nat :
        is_in_range(segments[i], off)
        => /\ SegmentOf(off) = i
           /\ RecordAt(off) = store_read(segments[i],
                                         index_read(segments[i], off))

(* It is, in a state and in the next one.                                  *)
LEMMA AllLocated == IInv => Located
<1> SUFFICES ASSUME IInv, NEW i \in 1..Len(segments), NEW off \in Nat,
                    is_in_range(segments[i], off)
             PROVE  /\ SegmentOf(off) = i
                    /\ RecordAt(off) = store_read(segments[i],
                                                  index_read(segments[i], off))
  BY DEF Located
<1>1. SegmentOf(off) = i
  BY SegmentOfIs
<1> QED BY <1>1 DEF RecordAt

(* The same in the next state.                                             *)
LEMMA AllLocatedNext == (IInv => Located)'
BY AllLocated, PTL

(* Where the record at an offset is found after a step.                    *)
LEMMA RecordNext ==
    ASSUME IInv', NEW i \in 1..Len(segments'), NEW off \in Nat,
           is_in_range(segments'[i], off)
    PROVE  /\ RecordAt(off)' = store_read(segments'[i],
                                          index_read(segments'[i], off))
           /\ InDamaged(off)' <=> segments'[i].state = "damaged"
<1>1. Located'
  BY AllLocatedNext
<1>2. (is_in_range(segments[i], off))'
  BY DEF is_in_range
<1>3. (store_read(segments[i], index_read(segments[i], off)))'
          = store_read(segments'[i], index_read(segments'[i], off))
  BY DEF store_read, index_read, store_len, Contents
<1>4. SegmentOf(off)' = i
  BY <1>1, <1>2 DEF Located
<1>5. InDamaged(off)' <=> segments'[i].state = "damaged"
  BY <1>4 DEF InDamaged
<1> QED BY <1>1, <1>2, <1>3, <1>5 DEF Located

(* What a step does to the record at an offset: as long as the offset is   *)
(* in the log and its segment undamaged, a record in the store file stays, *)
(* and with no crash that loses records every record stays.                *)
LEMMA RecordsStay ==
    ASSUME IInv, Next, NEW off \in Nat, Readable(off), ~InDamaged(off)'
    PROVE  /\ Readable(off)' /\ InFile(off) => RecordAt(off)' = RecordAt(off)
           /\ Readable(off)' /\ ~crashed' => RecordAt(off)' = RecordAt(off)
<1>1. PICK i \in 1..Len(segments) : is_in_range(segments[i], off)
  BY DEF Readable
<1>2. /\ SegmentOf(off) = i
      /\ RecordAt(off) = store_read(segments[i], index_read(segments[i], off))
  BY <1>1, AllLocated DEF Located
<1>3. /\ segments[i] \in Segment /\ Sound(segments[i])
      /\ ~crashed' => (segments[i].state = "whole" => Backed(segments[i]))
  BY StepShape, SegmentsType DEF IInv, Backing, Flags
<1>4. IInv'
  BY NextIInv
<1>5. CASE i <= Len(segments')
  <2>2. i \in 1..Len(segments')
    BY <1>4, <1>5 DEF IInv, TypeOK
  <2>1. Stays(segments[i], segments'[i])
    <3>1. ASSUME Harmed(segments[i], segments'[i]) PROVE FALSE
      <4>1. segments'[i] \in Segment
        BY <3>1 DEF Harmed
      <4>2. is_in_range(segments'[i], off)
        <5>1. /\ segments[i].next_offset \in Nat
              /\ segments'[i].next_offset \in Nat
          BY <1>3, <4>1, SegmentFields
        <5> QED BY <1>1, <3>1, <5>1 DEF Harmed, is_in_range
      <4> QED BY <1>4, <2>2, <3>1, <4>2, RecordNext DEF Harmed
    <3> QED BY <1>5, <3>1, SegmentsStay
  <2>3. /\ is_in_range(segments'[i], off)
        /\ index_read(segments'[i], off) = index_read(segments[i], off)
        /\ index_read(segments[i], off) < Len(segments[i].store) =>
             store_read(segments'[i], index_read(segments[i], off)) =
                 store_read(segments[i], index_read(segments[i], off))
        /\ ~crashed' /\ Backed(segments[i]) =>
             store_read(segments'[i], index_read(segments[i], off)) =
                 store_read(segments[i], index_read(segments[i], off))
    BY <1>1, <1>3, <2>1, StaysRecord
  <2>4. RecordAt(off)' = store_read(segments'[i],
                                    index_read(segments'[i], off))
    BY <1>4, <2>2, <2>3, RecordNext
  <2>6. segments[i].state = "whole"
    <3>1. InDamaged(off)' <=> segments'[i].state = "damaged"
      BY <1>4, <2>2, <2>3, RecordNext
    <3>2. segments'[i] \in Segment /\ segments'[i].state = segments[i].state
      BY <2>1 DEF Stays
    <3>3. segments'[i].state \in {"whole", "damaged"}
      BY <3>2, SegmentFields
    <3> QED BY <3>1, <3>2, <3>3
  <2>5. InFile(off) => index_read(segments[i], off) < Len(segments[i].store)
    BY <1>2 DEF InFile
  <2> QED BY <1>2, <1>3, <2>3, <2>4, <2>5, <2>6
<1>6. CASE ~(i <= Len(segments'))
  <2>1. Len(segments) \in Nat /\ Len(segments') \in Nat /\ i \in Nat
    BY <1>4, SegmentsType DEF IInv, TypeOK
  <2>2. PICK n \in 1..Len(segments) : Cuts(n)
    <3>1. ~\E r \in Record : Grows(r)
      BY <1>6, <2>1 DEF Grows
    <3> QED BY <3>1, StepShape
  <2>3. n < i /\ Len(segments') = n
    BY <1>6, <2>1, <2>2 DEF Cuts
  <2>4. ASSUME NEW j \in 1..n PROVE ~is_in_range(segments'[j], off)
    <3>1. j \in 1..Len(segments) /\ j < i
      BY <2>1, <2>3
    <3>2. j \in 1..(Len(segments) - 1)
      BY <2>1, <3>1
    <3>3. /\ segments'[j].base_offset = segments[j].base_offset
          /\ segments'[j].next_offset = segments[j].next_offset
      BY <2>2, <3>2 DEF Cuts, Kept, Harmed, IInv, Layout
    <3>4. ~is_in_range(segments[j], off)
      BY <1>1, <3>1, SegmentOfIs
    <3> QED BY <3>3, <3>4 DEF is_in_range
  <2>5. ~Readable(off)'
    BY <2>3, <2>4 DEF Readable
  <2> QED BY <2>5
<1> QED BY <1>5, <1>6

(* A record in the store file stays readable with its value as long as its *)
(* offset is in the log, whatever a crash without sync_writes loses, in    *)
(* every segment that no crash has damaged (Store::append,                 *)
(* Index::recover_size, Log::new).                                         *)
THEOREM StoredStay == Spec => StoredRecordsStay
<1> DEFINE A == \A off \in inital_offset..MaxOffset :
                    Readable(off) /\ InFile(off) /\ Readable(off)'
                    /\ ~InDamaged(off)'
                    => RecordAt(off)' = RecordAt(off)
<1>1. IInv /\ [Next]_vars => [A]_vars
  <2> SUFFICES ASSUME IInv, Next PROVE A
    OBVIOUS
  <2>1. \A off \in inital_offset..MaxOffset : off \in Nat
    BY ConfigAssumption
  <2> QED BY <2>1, RecordsStay
<1>2. [][A]_vars <=> StoredRecordsStay
  BY PTL DEF StoredRecordsStay
<1> HIDE DEF A
<1> QED BY <1>1, <1>2, AlwaysIInv, PTL DEF Spec

-----------------------------------------------------------------------------
(* Rotation.                                                               *)

(* Log::append rotates in time, whatever the size of an index file: after  *)
(* an append that succeeds the index of the active segment has room for    *)
(* one more entry, unless that size is no whole number of entries and the  *)
(* store has not reached its limit either (log.rs, Segment::is_maxed).     *)
THEOREM RotationInTime == Spec => RotationIsInTime
<1> DEFINE B == \/ ~index_is_full(active)'
                \/ /\ max_index_bytes % ENTIRE_WIDTH # 0
                   /\ store_len(active)' < max_store
           A == (\E r \in Record : append(r)) => B
<1>1. IInv /\ [Next]_vars => [A]_vars
  <2> SUFFICES ASSUME IInv, NEW r \in Record, append(r)
               PROVE  B
    OBVIOUS
  <2> DEFINE s == segment_append(active, r)
             n == active_index
  <2>1. /\ active \in Segment /\ n \in Nat /\ n = Len(segments)
        /\ segments \in Seq(Segment) /\ n \in 1..Len(segments)
    BY SegmentsType
  <2>2. /\ ~index_is_full(active)
        /\ \/ /\ is_maxed(s)
              /\ segments' = Append([segments EXCEPT ![n] = s],
                                    Reopened(Successor(active.next_offset)))
              /\ active_index' = n + 1
           \/ /\ ~is_maxed(s)
              /\ segments' = [segments EXCEPT ![n] = s]
              /\ active_index' = n
    BY DEF append
  <2>3. s \in Segment /\ s.index = Append(active.index, store_len(active))
    BY <2>1, SegmentAppended
  <2>4. /\ Len(s.index) = Len(active.index) + 1
        /\ Len(active.index) \in Nat /\ Len(s.index) \in Nat
    <3>1. active.index \in Seq(Nat) /\ store_len(active) \in Nat
      BY <2>1, SegmentFields
    <3> QED BY <2>3, <3>1
  <2>5. 12 <= max_index_bytes /\ max_index_bytes \in Nat
    BY <2>2, <2>4, ConfigAssumption
       DEF index_is_full, index_len, ENTIRE_WIDTH
  <2> HIDE DEF s, n
  <2>6. CASE is_maxed(s)
    <3> DEFINE t == Reopened(Successor(active.next_offset))
    <3>1. active.next_offset + 1 \in Nat
      <4>1. active.next_offset \in Nat
        BY <2>1, SegmentFields
      <4> QED BY <4>1
    <3>2. t \in Segment /\ t.index = <<>>
      BY <3>1, Created DEF Successor
    <3>3. active' = t
      <4>1. segments' = Append([segments EXCEPT ![n] = s], t)
            /\ active_index' = n + 1
        BY <2>2, <2>6
      <4>2. /\ [segments EXCEPT ![n] = s] \in Seq(Segment)
            /\ Len([segments EXCEPT ![n] = s]) = n
        BY <2>1, <2>3, ExceptSeq
      <4> HIDE DEF t
      <4>3. segments'[n + 1] = t
        BY <2>1, <3>2, <4>1, <4>2
      <4> QED BY <4>1, <4>3 DEF active
    <3> HIDE DEF t
    <3>4. Len(active.index)' = 0
      BY <3>2, <3>3
    <3>5. ~index_is_full(active)'
      BY <2>5, <3>4 DEF index_is_full, index_len, ENTIRE_WIDTH
    <3> QED BY <3>5
  <2>7. CASE ~is_maxed(s)
    <3>1. active' = s
      BY <2>1, <2>2, <2>7 DEF active
    <3>2. 12 * Len(s.index) < max_index_bytes /\ store_len(s) < max_store
      <4>1. store_len(s) \in Nat /\ max_store \in Nat
        BY <2>3, SegmentFields, ConfigAssumption
      <4> QED BY <2>4, <2>5, <2>7, <4>1
              DEF is_maxed, index_len, ENTIRE_WIDTH
    <3>3. store_len(active)' < max_store
      BY <3>1, <3>2 DEF store_len, Contents
    <3>4. max_index_bytes % 12 = 0 => ~index_is_full(active)'
      <4>1. Len(active.index)' = Len(s.index)
        BY <3>1
      <4> DEFINE l == Len(s.index)
      <4>2. l \in Nat /\ 12 * l < max_index_bytes
        BY <2>4, <3>2
      <4> HIDE DEF l
      <4>3. max_index_bytes % 12 = 0 => 12 * l + 12 <= max_index_bytes
        BY <2>5, <4>2
      <4> QED BY <2>4, <2>5, <4>1, <4>3
              DEF index_is_full, index_len, ENTIRE_WIDTH, l
    <3> QED BY <3>3, <3>4 DEF ENTIRE_WIDTH
  <2> QED BY <2>6, <2>7
<1>2. [][A]_vars <=> RotationIsInTime
  BY PTL DEF RotationIsInTime
<1> HIDE DEF A
<1> QED BY <1>1, <1>2, AlwaysIInv, PTL DEF Spec

-----------------------------------------------------------------------------
(* The segmented log is an append log.                                     *)

(* How many offsets the log has.                                           *)
Length == segments[Len(segments)].next_offset - inital_offset

(* What is read back is one record for each offset, in order.              *)
ReadsAll ==
    /\ Length \in Nat
    /\ ReadBack \in Seq(Record \cup {Torn})
    /\ Len(ReadBack) = Length
    /\ \A i \in 1..Length : /\ inital_offset + i - 1 \in Nat
                            /\ Readable(inital_offset + i - 1)
                            /\ ReadBack[i] = RecordAt(inital_offset + i - 1)

(* It is, in a state and in the next one.                                  *)
LEMMA AllRead == IInv => ReadsAll
<1> SUFFICES ASSUME IInv PROVE ReadsAll
  OBVIOUS
<1> DEFINE N == Len(segments)
           next == segments[N].next_offset
<1>1. /\ N \in Nat /\ 1 <= N /\ active = segments[N]
      /\ \A i \in 1..N : segments[i] \in Segment /\ Sound(segments[i])
  BY SegmentsType
<1>2. \A i \in 1..N : /\ segments[i].base_offset \in Nat
                      /\ segments[i].next_offset \in Nat
                      /\ segments[i].base_offset <= segments[i].next_offset
  BY <1>1, Offsets
<1>3. inital_offset \in Nat /\ next \in Nat /\ inital_offset <= next
  <2>1. 1 \in 1..N /\ N \in 1..N
    BY <1>1
  <2>2. segments[1].base_offset = inital_offset
        /\ (1 < N => segments[1].next_offset <= segments[N].base_offset)
    BY <2>1 DEF IInv, Layout
  <2> HIDE DEF N
  <2>3. CASE N = 1
    BY <1>2, <2>1, <2>2, <2>3
  <2>4. CASE 1 < N
    BY <1>2, <2>1, <2>2, <2>4
  <2> QED BY <1>1, <2>3, <2>4
<1>4. Length = next - inital_offset
  BY DEF Length
<1>5. ASSUME NEW i \in 1..Length
      PROVE  /\ inital_offset + i - 1 \in Nat
             /\ Readable(inital_offset + i - 1)
             /\ RecordAt(inital_offset + i - 1) \in Record \cup {Torn}
  <2> DEFINE off == inital_offset + i - 1
  <2>1. off \in Nat /\ off \in inital_offset..(next - 1)
    <3> HIDE DEF next
    <3> QED BY <1>3, <1>4
  <2>2. Readable(off)
    BY <2>1 DEF IInv, Layout
  <2> HIDE DEF off
  <2>3. PICK k \in 1..N : is_in_range(segments[k], off)
    BY <2>2 DEF Readable
  <2>4. RecordAt(off) = store_read(segments[k], index_read(segments[k], off))
    BY <2>1, <2>3, AllLocated DEF Located
  <2> DEFINE s == segments[k]
             c == Contents(s)
             j == off - s.base_offset + 1
  <2>5. s \in Segment /\ Sound(s)
    BY <1>1
  <2>6. /\ s.index \in Seq(Nat) /\ s.base_offset \in Nat
        /\ Len(s.index) \in Nat /\ c \in Seq(Record \cup {Torn})
    BY <2>5, SegmentFields
  <2>7. j \in 1..Len(s.index)
    <3>1. /\ s.base_offset <= off /\ off < s.next_offset
          /\ s.next_offset = s.base_offset + Len(s.index)
      BY <2>3, <2>5 DEF is_in_range, Sound
    <3>2. off \in Nat
      BY <2>1
    <3> HIDE DEF s
    <3> QED BY <2>6, <3>1, <3>2
  <2>8. index_read(s, off) \in Nat
    <3>1. s.index[j] \in Nat
      <4> HIDE DEF s, j
      <4> QED BY <2>6, <2>7
    <3> QED BY <3>1 DEF index_read
  <2> DEFINE pos == index_read(s, off)
  <2>9. store_read(s, pos) = IF pos < Len(c) THEN c[pos + 1] ELSE Torn
    BY DEF store_read, store_len
  <2> HIDE DEF c, pos
  <2>10. store_read(s, pos) \in Record \cup {Torn}
    BY <2>6, <2>8, <2>9 DEF pos
  <2>11. RecordAt(off) \in Record \cup {Torn}
    BY <2>4, <2>10 DEF pos
  <2> QED BY <2>1, <2>2, <2>11 DEF off
<1> HIDE DEF N, next
<1>6. Length \in Nat
  BY <1>3, <1>4
<1>7. ReadBack = [i \in 1..Length |-> RecordAt(inital_offset + i - 1)]
  <2>1. (next - 1) + 1 - inital_offset = Length
    BY <1>3, <1>4
  <2> QED BY <1>1, <2>1 DEF ReadBack, next
<1>8. ReadBack \in Seq(Record \cup {Torn}) /\ Len(ReadBack) = Length
  <2>1. ReadBack \in [1..Length -> Record \cup {Torn}]
    BY <1>5, <1>7
  <2> QED BY <1>6, <2>1, IsASeq, LenProperties
<1>9. \A i \in 1..Length : ReadBack[i] = RecordAt(inital_offset + i - 1)
  BY <1>7
<1> QED BY <1>5, <1>6, <1>8, <1>9 DEF ReadsAll

(* A set of natural numbers has a least element.                           *)
LEMMA LeastIs ==
    ASSUME NEW S \in SUBSET Nat, S # {}
    PROVE  Min(S) \in S /\ \A y \in S : Min(S) <= y
<1> DEFINE R == OpToRel(<, Nat)
<1>1. IsWellFoundedOn(R, Nat)
  BY NatLessThanWellFounded
<1>2. \A x, y \in Nat : y < x => <<y, x>> \in R
  BY DEF OpToRel
<1> HIDE DEF R
<1>3. PICK x \in S : \A y \in S : ~ (<<y, x>> \in R)
  BY <1>1, WFMin, Zenon
<1>4. ASSUME NEW y \in S PROVE x <= y
  <2>1. x \in Nat /\ y \in Nat
    OBVIOUS
  <2>2. ~(y < x)
    BY <1>2, <1>3, <2>1
  <2> QED BY <2>1, <2>2
<1>5. \E m \in S : \A y \in S : m <= y
  BY <1>4
<1> QED BY <1>5, Zenon DEF Min

(* The log answers up to its end or to where the first damaged segment     *)
(* begins, and no further than where any of these begins.                  *)
EndBounds ==
    LET N == Len(segments)
    IN  /\ SureEnd \in Nat
        /\ inital_offset <= SureEnd
        /\ SureEnd <= segments[N].next_offset
        /\ \A i \in 1..N : segments[i].state = "damaged"
                             => SureEnd <= segments[i].base_offset
        /\ \/ SureEnd = segments[N].next_offset
           \/ \E i \in 1..N : /\ segments[i].state = "damaged"
                              /\ SureEnd = segments[i].base_offset

(* That is so in every state, and in the next one.                         *)
LEMMA AllBounded == IInv => EndBounds
<1> SUFFICES ASSUME IInv PROVE EndBounds
  OBVIOUS
<1> DEFINE N == Len(segments)
           D == {s.base_offset : s \in {t \in Range(segments) :
                                            t.state = "damaged"}}
           S == {segments[N].next_offset} \cup D
<1>1. /\ N \in Nat /\ 1 <= N /\ active = segments[N]
      /\ segments \in Seq(Segment)
      /\ \A i \in 1..N : segments[i] \in Segment /\ Sound(segments[i])
  BY SegmentsType
<1>2. \A i \in 1..N : /\ segments[i].base_offset \in Nat
                      /\ segments[i].next_offset \in Nat
                      /\ segments[i].base_offset <= segments[i].next_offset
  BY <1>1, Offsets
<1>3. \A b : b \in D <=> \E i \in 1..N : /\ segments[i].state = "damaged"
                                        /\ b = segments[i].base_offset
  <2>1. Range(segments) = {segments[i] : i \in 1..N}
    <3>1. DOMAIN segments = 1..N
      BY <1>1
    <3> QED BY <3>1 DEF Range
  <2> QED BY <2>1
<1>4. SureEnd = Min(S)
  BY <1>1 DEF SureEnd
<1> HIDE DEF D
<1>5. N \in 1..N /\ 1 \in 1..N
  BY <1>1
<1>6. S \in SUBSET Nat /\ S # {} /\ segments[N].next_offset \in S
  BY <1>2, <1>3, <1>5
<1>7. \A b : b \in S <=> b = segments[N].next_offset \/ b \in D
  OBVIOUS
<1> HIDE DEF S
<1>8. SureEnd \in S /\ \A y \in S : SureEnd <= y
  BY <1>4, <1>6, LeastIs
<1>9. \A i \in 1..N : inital_offset <= segments[i].base_offset
  <2> SUFFICES ASSUME NEW i \in 1..N
               PROVE  inital_offset <= segments[i].base_offset
    OBVIOUS
  <2>1. segments[1].base_offset = inital_offset
        /\ (1 < i => segments[1].next_offset <= segments[i].base_offset)
    BY <1>5 DEF IInv, Layout
  <2> HIDE DEF N
  <2>2. CASE i = 1
    BY <1>2, <2>1, <2>2
  <2>3. CASE i # 1
    <3>1. 1 < i
      BY <1>1, <2>3
    <3> QED BY <1>2, <1>5, <2>1, <3>1
  <2> QED BY <2>2, <2>3
<1>10. inital_offset <= segments[N].next_offset /\ inital_offset \in Nat
  <2>1. inital_offset \in Nat
    BY ConfigAssumption
  <2> HIDE DEF N
  <2> QED BY <1>2, <1>5, <1>9, <2>1
<1>11. /\ SureEnd = segments[N].next_offset
          \/ \E i \in 1..N : /\ segments[i].state = "damaged"
                             /\ SureEnd = segments[i].base_offset
       /\ SureEnd \in Nat /\ SureEnd <= segments[N].next_offset
       /\ \A i \in 1..N : segments[i].state = "damaged"
                             => SureEnd <= segments[i].base_offset
  BY <1>3, <1>6, <1>7, <1>8
<1>12. inital_offset <= SureEnd
  BY <1>9, <1>10, <1>11
<1> QED BY <1>11, <1>12 DEF EndBounds

(* The same in the next state.                                             *)
LEMMA AllBoundedNext == (IInv => EndBounds)'
BY AllBounded, PTL

(* How many records the log answers for, and what they are until a crash   *)
(* loses some.                                                             *)
SureLength == SureEnd - inital_offset

PromisesAll ==
    /\ SureLength \in Nat
    /\ Promised \in Seq(Record \cup {Torn})
    /\ ~crashed =>
         /\ Len(Promised) = SureLength
         /\ \A i \in 1..SureLength :
               /\ inital_offset + i - 1 \in Nat
               /\ inital_offset + i - 1 < SureEnd
               /\ Readable(inital_offset + i - 1)
               /\ Promised[i] = RecordAt(inital_offset + i - 1)

(* They are, in a state and in the next one.                               *)
LEMMA AllPromised == IInv => PromisesAll
<1> SUFFICES ASSUME IInv PROVE PromisesAll
  OBVIOUS
<1> DEFINE R == Record \cup {Torn}
           P == SubSeq(ReadBack, 1, SureLength)
           N == Len(segments)
<1>1. ReadsAll /\ EndBounds
  BY AllRead, AllBounded
<1>2. /\ SureEnd \in Nat /\ inital_offset \in Nat /\ inital_offset <= SureEnd
      /\ SureEnd <= segments[N].next_offset
      /\ Length = segments[N].next_offset - inital_offset
      /\ segments[N].next_offset \in Nat
  <2>1. N \in 1..N /\ \A i \in 1..N : segments[i] \in Segment
    BY SegmentsType
  <2>2. segments[N].next_offset \in Nat
    BY <2>1, SegmentFields
  <2> QED BY <1>1, <2>2, ConfigAssumption DEF EndBounds, Length
<1>3. SureLength \in Nat /\ SureLength <= Length /\ Length \in Nat
  <2> HIDE DEF N
  <2> QED BY <1>2 DEF SureLength
<1> DEFINE l == SureLength
           u == ReadBack
           w == SubSeq(u, 1, l)
<1>4. /\ P \in Seq(R) /\ Len(P) = SureLength
      /\ \A i \in 1..SureLength : P[i] = ReadBack[i]
  <2>1. u \in Seq(R) /\ Len(u) = Length
    BY <1>1 DEF ReadsAll
  <2> HIDE DEF R, u
  <2>2. l \in Nat /\ \A i \in 1..l : u[i] \in R
    BY <1>3, <2>1
  <2> HIDE DEF l
  <2>3. w \in Seq(R) /\ Len(w) = l /\ \A i \in 1..l : w[i] = u[i]
    BY <2>2, SubSeqProperties
  <2> QED BY <2>3 DEF l, u
<1> HIDE DEF P
<1>5. \A i \in 1..SureLength :
          /\ inital_offset + i - 1 \in Nat
          /\ inital_offset + i - 1 < SureEnd
          /\ Readable(inital_offset + i - 1)
          /\ P[i] = RecordAt(inital_offset + i - 1)
  <2> SUFFICES ASSUME NEW i \in 1..SureLength
               PROVE  /\ inital_offset + i - 1 \in Nat
                      /\ inital_offset + i - 1 < SureEnd
                      /\ Readable(inital_offset + i - 1)
                      /\ P[i] = RecordAt(inital_offset + i - 1)
    OBVIOUS
  <2>1. i \in 1..Length
    BY <1>3
  <2>2. inital_offset + i - 1 < SureEnd
    BY <1>2, <1>3 DEF SureLength
  <2> QED BY <1>1, <1>4, <2>1, <2>2 DEF ReadsAll
<1>6. Promised = IF crashed THEN <<>> ELSE P
  BY DEF Promised, P, SureLength
<1>7. <<>> \in Seq(R)
  BY EmptySeq
<1> QED BY <1>3, <1>4, <1>5, <1>6, <1>7 DEF PromisesAll

(* The same in the next state.                                             *)
LEMMA AllPromisedNext == (IInv => PromisesAll)'
BY AllPromised, PTL

(* What the log answers for before and after a step is the same record.    *)
LEMMA PromisesStay ==
    ASSUME IInv, Next, ~crashed, ~crashed',
           NEW i \in 1..SureLength, i \in 1..SureLength'
    PROVE  Promised'[i] = Promised[i]
<1> DEFINE off == inital_offset + i - 1
<1>0. IInv'
  BY NextIInv
<1>1. PromisesAll /\ PromisesAll' /\ EndBounds'
  BY <1>0, AllPromised, AllPromisedNext, AllBoundedNext
<1>2. /\ off \in Nat /\ Readable(off) /\ Promised[i] = RecordAt(off)
  BY <1>1 DEF PromisesAll
<1>3. /\ off < SureEnd' /\ Readable(off)' /\ Promised'[i] = RecordAt(off)'
  BY <1>1 DEF PromisesAll
<1> HIDE DEF off
<1>4. ~InDamaged(off)'
  <2>1. PICK k \in 1..Len(segments') : is_in_range(segments'[k], off)
    BY <1>3 DEF Readable, is_in_range
  <2>2. InDamaged(off)' <=> segments'[k].state = "damaged"
    BY <1>0, <1>2, <2>1, RecordNext
  <2>3. ASSUME segments'[k].state = "damaged" PROVE FALSE
    <3>1. SureEnd' <= segments'[k].base_offset /\ SureEnd' \in Nat
      BY <1>1, <2>3 DEF EndBounds
    <3>2. segments'[k].base_offset <= off
      BY <2>1 DEF is_in_range
    <3>3. segments'[k].base_offset \in Nat
      <4>1. segments' \in Seq(Segment)
        BY <1>0 DEF IInv, TypeOK
      <4>2. segments'[k] \in Segment
        BY <4>1
      <4> QED BY <4>2, SegmentFields
    <3> QED BY <1>2, <1>3, <3>1, <3>2, <3>3
  <2> QED BY <2>2, <2>3
<1>5. RecordAt(off)' = RecordAt(off)
  BY <1>2, <1>3, <1>4, RecordsStay
<1> QED BY <1>2, <1>3, <1>5

(* A step that keeps a beginning of the segments moves the end of what the *)
(* log answers for only down.                                              *)
LEMMA CutsEnd ==
    ASSUME IInv, Next, NEW n \in 1..Len(segments), Cuts(n)
    PROVE  SureEnd' <= SureEnd
<1> DEFINE N == Len(segments)
<1>1. /\ N \in Nat /\ n \in 1..N /\ N \in 1..N
      /\ \A i \in 1..N : segments[i] \in Segment /\ Sound(segments[i])
  BY SegmentsType
<1>2. \A i \in 1..N : /\ segments[i].base_offset \in Nat
                      /\ segments[i].next_offset \in Nat
                      /\ segments[i].base_offset <= segments[i].next_offset
  BY <1>1, Offsets
<1>3. EndBounds /\ EndBounds' /\ Len(segments') = n
  BY NextIInv, AllBounded, AllBoundedNext DEF Cuts
<1>4. SureEnd \in Nat /\ SureEnd' \in Nat
  BY <1>3 DEF EndBounds
<1>5. \A i \in 1..n : segments[i].state = "damaged"
                        => SureEnd' <= segments[i].base_offset
  BY <1>3 DEF Cuts, Kept, Harmed, EndBounds
<1>6. SureEnd' <= segments[n].next_offset
  <2>1. CASE Kept(segments[n], segments'[n])
    BY <1>3, <2>1 DEF Kept, EndBounds
  <2>2. CASE Harmed(segments[n], segments'[n])
    <3>1. SureEnd' <= segments[n].base_offset
      BY <1>1, <1>3, <2>2 DEF Harmed, EndBounds
    <3> QED BY <1>1, <1>2, <1>4, <3>1
  <2>3. n \in 1..n
    BY <1>1
  <2> QED BY <2>1, <2>2, <2>3 DEF Cuts
<1>7. \A i \in 1..N :
          n < i => segments[n].next_offset <= segments[i].base_offset
  BY <1>1 DEF IInv, Layout
<1>8. \A i \in 1..N : n < i => SureEnd' <= segments[i].base_offset
  <2> HIDE DEF N
  <2> QED BY <1>1, <1>2, <1>4, <1>6, <1>7
<1>9. SureEnd' <= segments[N].next_offset
  <2> HIDE DEF N
  <2>1. CASE n = N
    BY <1>6, <2>1
  <2>2. CASE n < N
    BY <1>1, <1>2, <1>4, <1>8, <2>2
  <2> QED BY <1>1, <2>1, <2>2
<1>10. \A i \in 1..N : segments[i].state = "damaged"
                        => SureEnd' <= segments[i].base_offset
  <2> HIDE DEF N
  <2> QED BY <1>1, <1>5, <1>8
<1> QED BY <1>3, <1>9, <1>10 DEF EndBounds

(* The record of a step that appends is the one at the offset it gets.     *)
LEMMA LastRecord ==
    ASSUME IInv, Next, NEW r \in Record, Grows(r), ~crashed',
           NEW off \in Nat, off = segments[Len(segments)].next_offset
    PROVE  RecordAt(off)' = r
<1> DEFINE N == Len(segments)
           R == Record \cup {Torn}
           last == segments[N].next_offset
<1>0. IInv'
  BY NextIInv
<1>2. /\ N \in Nat /\ 1 <= N /\ Len(segments') \in {N, N + 1}
      /\ segments[N] \in Segment /\ Sound(segments[N])
      /\ Pushed(segments[N], segments'[N], r)
  BY SegmentsType DEF Grows
<1>3. last \in Nat /\ inital_offset \in Nat
  BY <1>2, SegmentFields, ConfigAssumption
<1>6. RecordAt(off)' = r
  <2> DEFINE s == segments[N]
             t == segments'[N]
             c == Contents(s)
  <2>1. /\ t \in Segment /\ Sound(t) /\ t.base_offset = s.base_offset
        /\ t.next_offset = last + 1
        /\ t.index = Append(s.index, store_len(s))
        /\ Contents(t) = c \o <<r>>
    BY <1>2 DEF Pushed
  <2>2. /\ s.base_offset \in Nat /\ s.index \in Seq(Nat)
        /\ Len(s.index) \in Nat /\ store_len(s) \in Nat
        /\ c \in Seq(R) /\ store_len(s) = Len(c)
        /\ last = s.base_offset + Len(s.index)
    BY <1>2, SegmentFields DEF Sound, store_len
  <2>3. is_in_range(t, last)
    <3> HIDE DEF s, t, last
    <3> QED BY <1>3, <2>1, <2>2 DEF is_in_range
  <2>4. index_read(t, last) = store_len(s)
    <3> DEFINE x == s.index
               l == store_len(s)
    <3>1. last - t.base_offset + 1 = Len(x) + 1
      <4> HIDE DEF last, t, s
      <4> QED BY <1>3, <2>1, <2>2
    <3>2. Append(x, l)[Len(x) + 1] = l
      <4>1. x \in Seq(Nat) /\ l \in Nat
        BY <2>2
      <4> HIDE DEF x, l
      <4> QED BY <4>1
    <3>3. index_read(t, last) = t.index[last - t.base_offset + 1]
      BY DEF index_read
    <3> QED BY <2>1, <3>1, <3>2, <3>3
  <2>5. store_read(t, Len(c)) = r
    <3> DEFINE d == Contents(t)
    <3>1. store_read(t, Len(c)) =
             IF Len(c) < Len(d) THEN d[Len(c) + 1] ELSE Torn
      BY DEF store_read, store_len
    <3>2. c \in Seq(R) /\ r \in R /\ d = c \o <<r>>
      BY <2>1, <2>2
    <3> HIDE DEF c, d, R
    <3>3. Len(c) \in Nat /\ Len(d) = Len(c) + 1 /\ d[Len(c) + 1] = r
      BY <3>2
    <3> QED BY <3>1, <3>3
  <2>8. RecordAt(off)' = store_read(t, index_read(t, off))
    <3>1. N \in 1..Len(segments')
      BY <1>2
    <3>2. is_in_range(segments'[N], off)
      BY <2>3
    <3> HIDE DEF N
    <3> QED BY <1>0, <3>1, <3>2, RecordNext
  <2> QED BY <2>2, <2>4, <2>5, <2>8
<1> QED BY <1>6

(* A step that appends a record moves the end of what the log answers for  *)
(* by one if no segment is damaged, and not at all otherwise.              *)
LEMMA GrowsEnd ==
    ASSUME IInv, Next, NEW r \in Record, Grows(r)
    PROVE  LET next == segments[Len(segments)].next_offset
           IN  \/ SureEnd' = SureEnd
               \/ SureEnd = next /\ SureEnd' = next + 1
<1> DEFINE N == Len(segments)
           M == Len(segments')
           next == segments[N].next_offset
<1>1. /\ N \in Nat /\ 1 <= N /\ N \in 1..N
      /\ \A i \in 1..N : segments[i] \in Segment /\ Sound(segments[i])
  BY SegmentsType
<1>2. \A i \in 1..N : /\ segments[i].base_offset \in Nat
                      /\ segments[i].next_offset \in Nat
                      /\ segments[i].base_offset <= segments[i].next_offset
  BY <1>1, Offsets
<1>3. EndBounds /\ EndBounds'
  BY NextIInv, AllBounded, AllBoundedNext
<1>4. SureEnd \in Nat /\ SureEnd' \in Nat /\ next \in Nat
      /\ SureEnd <= next
  BY <1>1, <1>2, <1>3 DEF EndBounds
<1>5. M \in {N, N + 1}
  BY DEF Grows
<1>6. \A i \in 1..N : /\ segments'[i].state = segments[i].state
                      /\ segments'[i].base_offset = segments[i].base_offset
  <2> SUFFICES ASSUME NEW i \in 1..N
               PROVE  /\ segments'[i].state = segments[i].state
                      /\ segments'[i].base_offset = segments[i].base_offset
    OBVIOUS
  <2>1. CASE i = N
    BY <2>1 DEF Grows, Pushed
  <2>2. CASE i # N
    <3>1. i \in 1..(N - 1)
      BY <1>1, <2>2
    <3> QED BY <3>1 DEF Grows, Kept
  <2> QED BY <2>1, <2>2
<1>7. M = N => segments'[M].next_offset = next + 1
  BY DEF Grows, Pushed
<1>8. M = N + 1 => /\ segments'[M] \in Segment /\ Sound(segments'[M])
                   /\ segments'[M].base_offset = next + 1
                   /\ segments'[M].state = "whole"
                        => segments'[M].next_offset = next + 1
  BY DEF Grows, Fresh
<1>9. M = N + 1 => /\ segments'[M].next_offset \in Nat
                   /\ next + 1 <= segments'[M].next_offset
                   /\ segments'[M].state \in {"whole", "damaged"}
  BY <1>8, Offsets, SegmentFields
<1>10. \A i \in 1..M : i \in 1..N \/ (i = M /\ M = N + 1)
  <2> HIDE DEF N, M
  <2> QED BY <1>1, <1>5
<1>11. /\ \/ SureEnd' = segments'[M].next_offset
          \/ \E i \in 1..M : /\ segments'[i].state = "damaged"
                             /\ SureEnd' = segments'[i].base_offset
       /\ SureEnd' <= segments'[M].next_offset
       /\ \A i \in 1..M : segments'[i].state = "damaged"
                            => SureEnd' <= segments'[i].base_offset
  BY <1>3 DEF EndBounds
<1>12. M \in 1..M /\ \A i \in 1..N : i \in 1..M
  <2> HIDE DEF N, M
  <2> QED BY <1>1, <1>5
<1>13. CASE \E i \in 1..N : /\ segments[i].state = "damaged"
                            /\ SureEnd = segments[i].base_offset
  <2>1. SureEnd' <= SureEnd
    BY <1>6, <1>11, <1>12, <1>13
  <2>2. SureEnd <= SureEnd'
    <3>1. SureEnd <= segments'[M].next_offset
      <4> HIDE DEF N, M
      <4>1. next + 1 <= segments'[M].next_offset
            /\ segments'[M].next_offset \in Nat
        BY <1>4, <1>5, <1>7, <1>9
      <4> HIDE DEF next
      <4> QED BY <1>4, <4>1
    <3>2. ASSUME NEW i \in 1..M, segments'[i].state = "damaged"
          PROVE  SureEnd <= segments'[i].base_offset
      <4>1. CASE i \in 1..N
        BY <1>3, <1>6, <3>2, <4>1 DEF EndBounds
      <4>2. CASE i = M /\ M = N + 1
        <5>1. segments'[i].base_offset = next + 1
          BY <1>8, <4>2
        <5> HIDE DEF next, N, M
        <5> QED BY <1>4, <5>1
      <4> QED BY <1>10, <4>1, <4>2
    <3> QED BY <1>11, <3>1, <3>2
  <2> QED BY <1>4, <2>1, <2>2
<1>14. CASE \A i \in 1..N : segments[i].state = "damaged"
                              => SureEnd # segments[i].base_offset
  <2>1. SureEnd = next
    BY <1>3, <1>14 DEF EndBounds
  <2>2. CASE \E i \in 1..N : segments[i].state = "damaged"
    <3>1. PICK i \in 1..N : segments[i].state = "damaged"
      BY <2>2
    <3>2. next <= segments[i].base_offset
          /\ segments[i].base_offset <= segments[i].next_offset
      BY <1>2, <1>3, <2>1, <3>1 DEF EndBounds
    <3>3. segments[i].next_offset <= next
      <4>1. i < N => segments[i].next_offset <= segments[N].base_offset
        BY <1>1 DEF IInv, Layout
      <4> HIDE DEF N
      <4> QED BY <1>1, <1>2, <4>1
    <3>4. segments[i].base_offset = next
      <4> HIDE DEF next, N
      <4> QED BY <1>2, <1>4, <3>2, <3>3
    <3> QED BY <1>14, <2>1, <3>1, <3>4
  <2>3. CASE ~\E i \in 1..N : segments[i].state = "damaged"
    <3>1. ASSUME NEW i \in 1..M, segments'[i].state = "damaged"
          PROVE  i = M /\ M = N + 1
      BY <1>6, <1>10, <2>3, <3>1
    <3>2. SureEnd' = next + 1
      <4> HIDE DEF N, M
      <4>1. CASE M = N
        <5>1. N # N + 1
          BY <1>1
        <5> QED BY <1>7, <1>11, <3>1, <4>1, <5>1
      <4>2. CASE M = N + 1 /\ segments'[M].state = "whole"
        <5>1. SureEnd' = segments'[M].next_offset
          BY <1>11, <3>1, <4>2
        <5> QED BY <1>8, <4>2, <5>1
      <4>3. CASE M = N + 1 /\ segments'[M].state = "damaged"
        <5>1. SureEnd' <= next + 1
          BY <1>8, <1>11, <1>12, <4>3
        <5>2. next + 1 <= SureEnd'
          BY <1>8, <1>9, <1>11, <3>1, <4>3
        <5> HIDE DEF next
        <5> QED BY <1>4, <5>1, <5>2
      <4> QED BY <1>5, <1>9, <4>1, <4>2, <4>3
    <3> QED BY <2>1, <3>2
  <2> QED BY <2>2, <2>3
<1> QED BY <1>13, <1>14

(* Where the end does not move up, the promised records lose their end.    *)
LEMMA EndIsCut ==
    ASSUME IInv, Next, ~crashed, ~crashed', SureEnd' <= SureEnd
    PROVE  Abstract!CutEnd
<1> DEFINE R == Record \cup {Torn}
           u == Promised
           v == Promised'
           m == SureLength'
           w == SubSeq(u, 1, m)
<1>1. PromisesAll /\ PromisesAll' /\ EndBounds /\ EndBounds'
  BY NextIInv, AllPromised, AllPromisedNext, AllBounded, AllBoundedNext
<1>2. m \in Nat /\ SureLength \in Nat /\ m <= SureLength
  <2>1. SureEnd \in Nat /\ SureEnd' \in Nat /\ inital_offset \in Nat
    BY <1>1, ConfigAssumption DEF EndBounds
  <2>2. m = SureEnd' - inital_offset /\ SureLength = SureEnd - inital_offset
    BY DEF SureLength
  <2> DEFINE a == SureEnd
             b == SureEnd'
             l == SureLength
  <2>3. m \in Nat /\ l \in Nat
    BY <1>1 DEF PromisesAll
  <2>4. a \in Nat /\ b \in Nat /\ b <= a
    BY <2>1
  <2>5. m = b - inital_offset /\ l = a - inital_offset
    BY <2>2
  <2> HIDE DEF a, b, l, m
  <2>6. m <= l
    BY <2>1, <2>3, <2>4, <2>5
  <2> QED BY <2>3, <2>6 DEF l
<1>3. /\ u \in Seq(R) /\ Len(u) = SureLength
      /\ v \in Seq(R) /\ Len(v) = m
  BY <1>1 DEF PromisesAll
<1>4. \A i \in 1..m : v[i] = u[i]
  BY <1>2, PromisesStay
<1>5. v = w
  <2> HIDE DEF u, v, m, R
  <2>1. \A i \in 1..m : u[i] \in R
    BY <1>2, <1>3
  <2>2. w \in Seq(R) /\ Len(w) = m /\ \A i \in 1..m : w[i] = u[i]
    BY <1>2, <2>1, SubSeqProperties
  <2> HIDE DEF w
  <2> QED BY <1>3, <1>4, <2>2, SeqEqual
<1>6. m \in 0..Len(u)
  <2> HIDE DEF m, u
  <2> QED BY <1>2, <1>3
<1> HIDE DEF m
<1> QED BY <1>5, <1>6 DEF Abstract!CutEnd

(* Where it moves up with an append, they get the record appended.         *)
LEMMA EndIsAppended ==
    ASSUME IInv, Next, ~crashed, ~crashed', NEW r \in Record, Grows(r),
           SureEnd = segments[Len(segments)].next_offset,
           SureEnd' = SureEnd + 1
    PROVE  Abstract!AppendRecord
<1> DEFINE R == Record \cup {Torn}
           u == Promised
           v == Promised'
           w == Append(u, r)
<1>1. PromisesAll /\ PromisesAll' /\ EndBounds
  BY NextIInv, AllPromised, AllPromisedNext, AllBounded
<1>2. SureLength' = SureLength + 1 /\ SureLength \in Nat
  <2>1. SureEnd \in Nat /\ inital_offset \in Nat
    BY <1>1, ConfigAssumption DEF EndBounds
  <2>2. SureLength' = SureEnd' - inital_offset
        /\ SureLength = SureEnd - inital_offset
    BY DEF SureLength
  <2> DEFINE a == SureEnd
             b == SureEnd'
             l == SureLength
             m == SureLength'
  <2>3. l \in Nat
    BY <1>1 DEF PromisesAll
  <2>4. a \in Nat /\ b = a + 1
    BY <2>1
  <2>5. m = b - inital_offset /\ l = a - inital_offset
    BY <2>2
  <2> HIDE DEF a, b, l, m
  <2>6. m = l + 1
    BY <2>1, <2>3, <2>4, <2>5
  <2> QED BY <2>3, <2>6 DEF l, m
<1>3. /\ u \in Seq(R) /\ Len(u) = SureLength
      /\ v \in Seq(R) /\ Len(v) = SureLength + 1
  BY <1>1, <1>2 DEF PromisesAll
<1>4. \A i \in 1..SureLength : v[i] = u[i]
  BY <1>2, PromisesStay
<1>5. v[SureLength + 1] = r
  <2>1. PICK k \in 1..SureLength' : k = SureLength + 1
    BY <1>2
  <2>2. v[k] = RecordAt(inital_offset + k - 1)'
    BY <1>1 DEF PromisesAll
  <2>3. PICK off \in Nat : off = SureEnd
    BY <1>1 DEF EndBounds
  <2>4. inital_offset + k - 1 = off
    <3>1. off \in Nat /\ inital_offset \in Nat
      BY ConfigAssumption
    <3>2. k = (off - inital_offset) + 1
      BY <2>1, <2>3, Zenon DEF SureLength
    <3> QED BY <3>1, <3>2
  <2>5. RecordAt(off)' = r
    BY <2>3, LastRecord
  <2> QED BY <2>1, <2>2, <2>4, <2>5
<1>6. r \in R
  OBVIOUS
<1>7. v = w
  <2> HIDE DEF u, v, R
  <2>1. /\ w \in Seq(R) /\ Len(w) = Len(u) + 1
        /\ \A i \in 1..Len(u) : w[i] = u[i]
        /\ w[Len(u) + 1] = r
    BY <1>3, <1>6, AppendProperties
  <2> HIDE DEF w
  <2>2. \A i \in 1..Len(v) : v[i] = w[i]
    <3> SUFFICES ASSUME NEW i \in 1..Len(v) PROVE v[i] = w[i]
      OBVIOUS
    <3> DEFINE l == SureLength
    <3>1. l \in Nat /\ Len(v) = l + 1 /\ Len(u) = l
      BY <1>2, <1>3
    <3> HIDE DEF l
    <3>2. i \in 1..Len(u) \/ i = l + 1
      BY <3>1
    <3>3. CASE i \in 1..Len(u)
      <4>1. v[i] = u[i] /\ w[i] = u[i]
        BY <1>3, <1>4, <2>1, <3>3
      <4> QED BY <4>1
    <3>4. CASE i = l + 1
      <4>1. v[i] = r
        BY <1>5, <3>4 DEF l
      <4>2. w[i] = r
        BY <2>1, <3>1, <3>4
      <4> QED BY <4>1, <4>2
    <3> QED BY <3>2, <3>3, <3>4
  <2> QED BY <1>3, <2>1, <2>2, SeqEqual
<1> QED BY <1>7 DEF Abstract!AppendRecord

(* Every step of the segmented log appends one record to the promised ones *)
(* or cuts their end off.                                                  *)
LEMMA StepRefines ==
    ASSUME IInv, Next
    PROVE  Abstract!AppendRecord \/ Abstract!CutEnd
<1>1. /\ Flags
      /\ \/ \E n \in 1..Len(segments) : Cuts(n)
         \/ \E r \in Record : Grows(r)
  BY StepShape
<1>2. CASE crashed'
  <2>1. Promised' = <<>>
    BY <1>2 DEF Promised
  <2>2. Promised \in Seq(Record \cup {Torn})
    BY AllPromised DEF PromisesAll
  <2>3. Len(Promised) \in Nat
    BY <2>2, LenProperties
  <2>4. SubSeq(Promised, 1, 0) = <<>>
    BY SubSeqEmpty
  <2>5. 0 \in 0..Len(Promised) /\ Promised' = SubSeq(Promised, 1, 0)
    BY <2>1, <2>3, <2>4
  <2> QED BY <2>5 DEF Abstract!CutEnd
<1>3. CASE ~crashed'
  <2>1. ~crashed
    BY <1>1, <1>3 DEF Flags
  <2>2. CASE \E n \in 1..Len(segments) : Cuts(n)
    BY <1>3, <2>1, <2>2, CutsEnd, EndIsCut
  <2>3. CASE \E r \in Record : Grows(r)
    <3>1. PICK r \in Record : Grows(r)
      BY <2>3
    <3>2. SureEnd \in Nat
      BY AllBounded DEF EndBounds
    <3>3. CASE SureEnd' = SureEnd
      <4>1. SureEnd' <= SureEnd
        BY <3>2, <3>3
      <4> QED BY <1>3, <2>1, <4>1, EndIsCut
    <3>4. CASE /\ SureEnd = segments[Len(segments)].next_offset
               /\ SureEnd' = segments[Len(segments)].next_offset + 1
      <4>1. SureEnd' = SureEnd + 1
        BY <3>4
      <4> QED BY <1>3, <2>1, <3>1, <3>4, <4>1, EndIsAppended
    <3> QED BY <3>1, <3>3, <3>4, GrowsEnd
  <2> QED BY <1>1, <2>2, <2>3
<1> QED BY <1>2, <1>3

(* The segmented log implements the append log: the records that are read  *)
(* back offset by offset, up to the first segment that a crash damaged,    *)
(* change only by the append of one record or by the loss of their end,    *)
(* and until a crash hits a log without sync_writes every one of them      *)
(* keeps its place and its value (log.rs, segment.rs, store.rs, index.rs). *)
THEOREM Refinement == Spec => ImplementsAppendLog
<1>1. Init => Abstract!Init
  <2> SUFFICES ASSUME Init PROVE Promised = <<>>
    BY DEF Abstract!Init
  <2>1. IInv /\ ~crashed
    BY InitIInv DEF Init
  <2>2. PromisesAll /\ EndBounds
    BY <2>1, AllPromised, AllBounded
  <2>3. SureEnd <= inital_offset
    <3>1. /\ Len(segments) = 1
          /\ Fresh(segments[1], inital_offset)
      BY InitFresh
    <3>2. segments[1].state \in {"whole", "damaged"}
      BY <3>1, SegmentFields DEF Fresh
    <3>3. CASE segments[1].state = "whole"
      BY <2>2, <3>1, <3>3 DEF EndBounds, Fresh
    <3>4. CASE segments[1].state = "damaged"
      BY <2>2, <3>1, <3>4 DEF EndBounds, Fresh
    <3> QED BY <3>2, <3>3, <3>4
  <2>4. SureLength = 0
    <3>1. SureEnd \in Nat /\ inital_offset \in Nat /\ inital_offset <= SureEnd
      BY <2>2, ConfigAssumption DEF EndBounds
    <3> QED BY <2>3, <3>1 DEF SureLength
  <2>5. Promised \in Seq(Record \cup {Torn}) /\ Len(Promised) = 0
    BY <2>1, <2>2, <2>4 DEF PromisesAll
  <2> QED BY <2>5, EmptySeq
<1>2. IInv /\ [Next]_vars => [Abstract!AppendRecord \/ Abstract!CutEnd]_Promised
  <2>1. UNCHANGED vars => UNCHANGED Promised
    BY DEF vars, Promised, SureEnd, ReadBack, RecordAt, SegmentOf, active,
           store_read, index_read, is_in_range, store_len, Contents
  <2> QED BY <2>1, StepRefines
<1> QED BY <1>1, <1>2, AlwaysIInv, PTL
           DEF Spec, ImplementsAppendLog, Abstract!Spec
=============================================================================
