----------------------- MODULE HardStateStorageProof -----------------------
(***************************************************************************)
(* Theorems about HardStateStorage, for every alphabet of names and every  *)
(* bound on names and terms: what save_state confirmed is never lost and   *)
(* never misread, wherever saves are cut.                                  *)
(***************************************************************************)
EXTENDS HardStateStorage, SequenceTheorems, TLAPS

(* The fields of the file, also of one that a cut save has left: a term, a *)
(* length, and bytes of names.                                             *)
FileOK(f) ==
    /\ f \in Seq(Nat)
    /\ Len(f) >= 1 => f[1] \in 0..MaxTerm
    /\ Len(f) >= 2 => f[2] \in 0..MaxName
    /\ \A i \in 3..Len(f) : f[i] \in Byte

TypeOK ==
    /\ FileOK(file)
    /\ memory \in State /\ saved \in State
    /\ alive \in BOOLEAN

(* A state that may replace a confirmed one: no earlier term, and in the   *)
(* same term the same vote.                                                *)
NotBehind(s, t) ==
    \/ t.current_term > s.current_term
    \/ /\ t.current_term = s.current_term
       /\ s.voted_for # None => t.voted_for = s.voted_for

(* The file begins with the term and the length of the name of a state;    *)
(* it holds the name as well; and it ends there.                           *)
HasTerm(f, s) == Len(f) >= 1 /\ f[1] = s.current_term
HasSize(f, s) == HasTerm(f, s) /\ Len(f) >= 2 /\ f[2] = Len(s.voted_for)
HasName(f, s) ==
    /\ HasSize(f, s)
    /\ Len(f) >= 2 + Len(s.voted_for)
    /\ \A i \in 1..Len(s.voted_for) : f[2 + i] = s.voted_for[i]
Holds(f, s) == HasName(f, s) /\ Len(f) = 2 + Len(s.voted_for)

(* The calls of save_state.                                                *)
TermCall(s) == write_all_at(1, <<s.current_term>>)
SizeCall(s) == write_all_at(2, <<Len(s.voted_for)>>)
NameCall(s) == write_all_at(3, s.voted_for)
CutCall(s)  == set_len(2 + Len(s.voted_for))

(* How far save_state has come: what the calls it has left tell of what    *)
(* the file holds.                                                         *)
Progress ==
    \/ writes = <<>>
    \/ writes = WritesOf(memory)
    \/ writes = Tail(WritesOf(memory)) /\ HasTerm(file, memory)
    \/ writes = Tail(Tail(WritesOf(memory))) /\ HasSize(file, memory)
    \/ writes = <<CutCall(memory), sync_all>> /\ HasName(file, memory)
    \/ writes = <<sync_all>> /\ Holds(file, memory)

(* The inductive invariant: a save under way is of a state that follows    *)
(* the confirmed one.                                                      *)
IInv ==
    /\ TypeOK
    /\ NotBehind(saved, memory)
    /\ writes # <<>> => Follows(saved, memory)
    /\ Progress
    /\ ConfirmedVoteSurvives
    /\ ConfirmedStateIsReadBack

-----------------------------------------------------------------------------
(* The operators of the model.                                             *)

(* The name voted for is a sequence of bytes of bounded length.            *)
LEMMA VoteIsSeq ==
    ASSUME NEW s \in State
    PROVE  /\ s.current_term \in 0..MaxTerm
           /\ s.voted_for \in Seq(Byte)
           /\ Len(s.voted_for) \in 0..MaxName
           /\ s.voted_for = None <=> Len(s.voted_for) = 0
<1>1. s.current_term \in 0..MaxTerm /\ s.voted_for \in Name \cup {None}
  BY DEF State
<1>2. CASE s.voted_for = None
  BY <1>1, <1>2, StorageAssumption DEF None
<1>3. CASE s.voted_for \in Name
  <2>1. PICK k \in 1..MaxName : s.voted_for \in [1..k -> Byte]
    BY <1>3 DEF Name
  <2>2. s.voted_for \in Seq(Byte) /\ Len(s.voted_for) = k
    BY <2>1, StorageAssumption
  <2> QED
    BY <1>1, <2>1, <2>2, StorageAssumption DEF None
<1> QED BY <1>1, <1>2, <1>3

(* Concatenations of short tuples.                                         *)
LEMMA Join ==
    ASSUME NEW a, NEW b, NEW c, NEW d, NEW e
    PROVE  /\ <<a, b>> \o <<d, e>> = <<a, b, d, e>>
           /\ <<a, b>> \o <<c>> \o <<d, e>> = <<a, b, c, d, e>>
<1> DEFINE S == {a, b, c, d, e}
<1>1. /\ <<a, b>> \in Seq(S) /\ <<c>> \in Seq(S) /\ <<d, e>> \in Seq(S)
      /\ <<a, b, c>> \in Seq(S) /\ <<a, b, d, e>> \in Seq(S)
      /\ <<a, b, c, d, e>> \in Seq(S)
  OBVIOUS
<1>2. <<a, b>> \o <<d, e>> = <<a, b, d, e>>
  <2>1. \A i \in 1..4 : (<<a, b>> \o <<d, e>>)[i] = <<a, b, d, e>>[i]
    BY <1>1
  <2>2. Len(<<a, b>> \o <<d, e>>) = 4 /\ Len(<<a, b, d, e>>) = 4
    BY <1>1
  <2> HIDE DEF S
  <2> QED BY <1>1, <2>1, <2>2, SeqEqual, ConcatProperties, ZenonT(60)
<1>3. <<a, b>> \o <<c>> = <<a, b, c>>
  <2>1. \A i \in 1..3 : (<<a, b>> \o <<c>>)[i] = <<a, b, c>>[i]
    BY <1>1
  <2>2. Len(<<a, b>> \o <<c>>) = 3 /\ Len(<<a, b, c>>) = 3
    BY <1>1
  <2> HIDE DEF S
  <2> QED BY <1>1, <2>1, <2>2, SeqEqual, ConcatProperties, ZenonT(60)
<1>4. <<a, b, c>> \o <<d, e>> = <<a, b, c, d, e>>
  <2>1. \A i \in 1..5 : (<<a, b, c>> \o <<d, e>>)[i] = <<a, b, c, d, e>>[i]
    BY <1>1
  <2>2. Len(<<a, b, c>> \o <<d, e>>) = 5 /\ Len(<<a, b, c, d, e>>) = 5
    BY <1>1
  <2> HIDE DEF S
  <2> QED BY <1>1, <2>1, <2>2, SeqEqual, ConcatProperties, ZenonT(60)
<1> QED BY <1>2, <1>3, <1>4

(* The calls that save_state makes, in order; without a vote there are no  *)
(* bytes of a name to write.                                               *)
LEMMA CallsOfSave ==
    ASSUME NEW s
    PROVE  /\ s.voted_for = None =>
                WritesOf(s) = <<TermCall(s), SizeCall(s), CutCall(s), sync_all>>
           /\ s.voted_for # None =>
                WritesOf(s) = <<TermCall(s), SizeCall(s), NameCall(s),
                                CutCall(s), sync_all>>
<1> DEFINE front == <<TermCall(s), SizeCall(s)>>
           back  == <<CutCall(s), sync_all>>
<1>1. /\ s.voted_for = None => WritesOf(s) = front \o <<>> \o back
      /\ s.voted_for # None => WritesOf(s) = front \o <<NameCall(s)>> \o back
  BY DEF WritesOf, TermCall, SizeCall, NameCall, CutCall
<1>2. front \o <<>> = front
  OBVIOUS
<1> QED BY <1>1, <1>2, Join

(* write_all_at leaves no hole when it starts within the file or at its    *)
(* end: it replaces the fields it covers and keeps the others.             *)
LEMMA WriteCall ==
    ASSUME NEW f \in Seq(Nat), NEW pos \in 1..(Len(f) + 1),
           NEW fields \in Seq(Nat), fields # <<>>
    PROVE  LET g    == After(f, write_all_at(pos, fields))
               last == pos + Len(fields) - 1
           IN  /\ g \in Seq(Nat)
               /\ Len(g) = IF last > Len(f) THEN last ELSE Len(f)
               /\ \A i \in 1..Len(fields) : g[pos + i - 1] = fields[i]
               /\ \A i \in 1..Len(g) : i \notin pos..last =>
                     i \in 1..Len(f) /\ g[i] = f[i]
<1> DEFINE last == pos + Len(fields) - 1
           len  == IF last > Len(f) THEN last ELSE Len(f)
           g    == [i \in 1..len |->
                      CASE i \in pos..last -> fields[i - pos + 1]
                        [] i \in DOMAIN f \ (pos..last) -> f[i]
                        [] OTHER -> 0]
<1>1. After(f, write_all_at(pos, fields)) = g
  BY DEF After, write_all_at
<1>2. last \in Nat /\ len \in Nat /\ Len(f) \in Nat /\ DOMAIN f = 1..Len(f)
      /\ Len(fields) \in Nat
  OBVIOUS
<1>3. \A i \in 1..len : i \in pos..last =>
          i - pos + 1 \in 1..Len(fields) /\ g[i] = fields[i - pos + 1]
  OBVIOUS
<1>4. \A i \in 1..len : i \notin pos..last => i \in 1..Len(f) /\ g[i] = f[i]
  BY <1>2
<1>5. \A i \in 1..len : g[i] \in Nat
  <2> SUFFICES ASSUME NEW i \in 1..len
               PROVE  g[i] \in Nat
    OBVIOUS
  <2> HIDE DEF g, len
  <2>1. \A j \in 1..Len(fields) : fields[j] \in Nat
    BY ElementOfSeq
  <2>2. \A j \in 1..Len(f) : f[j] \in Nat
    BY ElementOfSeq
  <2>3. CASE i \in pos..last
    <3> HIDE DEF last
    <3> QED BY <1>3, <2>1, <2>3
  <2>4. CASE i \notin pos..last
    <3> HIDE DEF last
    <3> QED BY <1>4, <2>2, <2>4
  <2> QED BY <2>3, <2>4
<1>6. g \in Seq(Nat) /\ Len(g) = len
  <2>1. g \in [1..len -> Nat]
    BY <1>5
  <2> HIDE DEF g, len
  <2> QED BY <1>2, <2>1
<1>7. \A i \in 1..Len(fields) : g[pos + i - 1] = fields[i]
  <2> SUFFICES ASSUME NEW i \in 1..Len(fields)
               PROVE  g[pos + i - 1] = fields[i]
    OBVIOUS
  <2>1. /\ pos + i - 1 \in 1..len /\ pos + i - 1 \in pos..last
        /\ (pos + i - 1) - pos + 1 = i
    BY <1>2
  <2> HIDE DEF g
  <2> QED BY <1>3, <2>1
<1> HIDE DEF g
<1> QED BY <1>1, <1>4, <1>6, <1>7

(* set_len within the file drops what lies beyond.                         *)
LEMMA CutCallResult ==
    ASSUME NEW f \in Seq(Nat), NEW len \in 0..Len(f)
    PROVE  LET g == After(f, set_len(len))
           IN  /\ g \in Seq(Nat) /\ Len(g) = len
               /\ \A i \in 1..len : g[i] = f[i]
<1>1. After(f, set_len(len)) = SubSeq(f, 1, len)
  BY DEF After, set_len
<1>2. /\ SubSeq(f, 1, len) \in Seq(Nat) /\ Len(SubSeq(f, 1, len)) = len
      /\ \A i \in 1..len : SubSeq(f, 1, len)[i] = f[i]
  OBVIOUS
<1> QED BY <1>1, <1>2

(* sync_all changes no byte of the file.                                   *)
LEMMA SyncResult == ASSUME NEW f PROVE After(f, sync_all) = f
BY DEF After, sync_all

(* What load_state makes of a file that a save, complete or cut, has left  *)
(* is a state, as long as it does not panic.                               *)
LEMMA LoadedIsState ==
    ASSUME NEW f, FileOK(f), Loadable(f)
    PROVE  load_state(f) \in State
<1>1. CASE f = <<>>
  BY <1>1, StorageAssumption DEF load_state, State
<1>2. CASE f # <<>>
  <2>1. /\ f \in Seq(Nat) /\ Len(f) >= 2 /\ f[1] \in 0..MaxTerm
        /\ f[2] \in 0..MaxName /\ f[2] \in Nat /\ Len(f) >= 2 + f[2]
    BY <1>2 DEF FileOK, Loadable
  <2> DEFINE k == f[2]
             v == SubSeq(f, 3, 2 + k)
  <2>2. \A i \in 3..(2 + k) : f[i] \in Byte
    BY <2>1 DEF FileOK
  <2>3. v \in Seq(Byte) /\ Len(v) = k
    <3> HIDE DEF k
    <3>1. k \in Nat
      BY <2>1 DEF k
    <3> QED BY <2>2, <3>1, SubSeqProperties
  <2>4. v \in Name \cup {None}
    <3>1. CASE k = 0
      BY <2>3, <3>1 DEF None
    <3>2. CASE k # 0
      <4>1. k \in 1..MaxName
        BY <2>1, <3>2
      <4>2. v \in [1..k -> Byte]
        <5> HIDE DEF v
        <5> QED BY <2>3, LenProperties
      <4> QED BY <4>1, <4>2 DEF Name
    <3> QED BY <3>1, <3>2
  <2>5. load_state(f) = [current_term |-> f[1], voted_for |-> v]
    BY <1>2 DEF load_state
  <2> HIDE DEF v
  <2> QED BY <2>1, <2>4, <2>5 DEF State
<1> QED BY <1>1, <1>2

(* A complete file is read back exactly.                                   *)
LEMMA HoldsIsReadBack ==
    ASSUME NEW f, FileOK(f), NEW s \in State, Holds(f, s)
    PROVE  Loadable(f) /\ load_state(f) = s
<1>1. /\ f \in Seq(Nat) /\ f # <<>> /\ f[1] = s.current_term
      /\ f[2] = Len(s.voted_for) /\ Len(f) = 2 + Len(s.voted_for)
      /\ \A i \in 1..Len(s.voted_for) : f[2 + i] = s.voted_for[i]
  BY DEF Holds, HasName, HasSize, HasTerm, FileOK
<1>2. s.voted_for \in Seq(Byte) /\ Len(s.voted_for) \in Nat
  BY VoteIsSeq
<1>3. Loadable(f)
  BY <1>1, <1>2 DEF Loadable
<1> DEFINE n == Len(s.voted_for)
           v == SubSeq(f, 3, 2 + n)
<1>4. v = s.voted_for
  <2>1. \A i \in 3..(2 + n) : f[i] \in Byte
    BY <1>1 DEF FileOK
  <2> HIDE DEF n
  <2>2. n \in Nat
    BY <1>2 DEF n
  <2>3. v \in Seq(Byte) /\ Len(v) = n /\ \A i \in 1..n : v[i] = f[2 + i]
    <3>1. /\ v \in Seq(Byte) /\ Len(v) = IF 3 <= 2 + n THEN 2 + n - 3 + 1 ELSE 0
          /\ \A i \in 1..(2 + n - 3 + 1) : v[i] = f[3 + i - 1]
      BY <2>1, <2>2, SubSeqProperties
    <3> HIDE DEF v
    <3>2. \A i \in 1..n : i \in 1..(2 + n - 3 + 1) /\ 3 + i - 1 = 2 + i
      BY <2>2
    <3>3. Len(v) = n
      BY <2>2, <3>1
    <3> QED BY <3>1, <3>2, <3>3
  <2> HIDE DEF v
  <2>4. \A i \in 1..n : v[i] = s.voted_for[i]
    BY <1>1, <2>3 DEF n
  <2> QED
    BY <1>2, <2>3, <2>4, SeqEqual DEF n
<1>5. load_state(f) = [current_term |-> s.current_term, voted_for |-> v]
  BY <1>1 DEF load_state
<1> HIDE DEF v
<1>6. load_state(f) = s
  BY <1>4, <1>5 DEF State
<1> QED BY <1>3, <1>6

-----------------------------------------------------------------------------
(* What the file holds after each call of save_state.                      *)

(* The first write of save_state leaves the new term in the file.          *)
LEMMA TermWritten ==
    ASSUME NEW f, FileOK(f), NEW s \in State
    PROVE  FileOK(After(f, TermCall(s))) /\ HasTerm(After(f, TermCall(s)), s)
<1> DEFINE g == After(f, TermCall(s))
           fields == <<s.current_term>>
<1>1. /\ f \in Seq(Nat) /\ Len(f) \in Nat /\ s.current_term \in 0..MaxTerm
      /\ s.current_term \in Nat
  BY VoteIsSeq, StorageAssumption DEF FileOK
<1>2. fields \in Seq(Nat) /\ fields # <<>> /\ Len(fields) = 1
      /\ fields[1] = s.current_term
  BY <1>1
<1>3. /\ g \in Seq(Nat) /\ Len(g) = IF 1 > Len(f) THEN 1 ELSE Len(f)
      /\ g[1] = s.current_term
      /\ \A i \in 1..Len(g) : i # 1 => i \in 1..Len(f) /\ g[i] = f[i]
  <2> HIDE DEF fields
  <2>0. 1 \in 1..(Len(f) + 1)
    BY <1>1
  <2>1. /\ g \in Seq(Nat)
        /\ Len(g) = IF 1 + Len(fields) - 1 > Len(f) THEN 1 + Len(fields) - 1
                                                    ELSE Len(f)
        /\ \A i \in 1..Len(fields) : g[1 + i - 1] = fields[i]
        /\ \A i \in 1..Len(g) : i \notin 1..(1 + Len(fields) - 1) =>
              i \in 1..Len(f) /\ g[i] = f[i]
    <3>1. g = After(f, write_all_at(1, fields))
      BY DEF TermCall, fields
    <3>2. f \in Seq(Nat) /\ fields \in Seq(Nat) /\ fields # <<>>
      BY <1>1, <1>2
    <3> HIDE DEF g
    <3> QED BY <3>1, <3>2, <2>0, WriteCall, SMTT(60)
  <2> HIDE DEF g
  <2>2. g[1] = s.current_term
    BY <1>2, <2>1
  <2> QED BY <1>1, <1>2, <2>1, <2>2
<1> HIDE DEF g
<1>4. Len(g) >= 1 /\ Len(g) \in Nat /\ Len(g) >= Len(f)
      /\ (Len(g) >= 2 => Len(f) >= 2 /\ Len(g) = Len(f))
  BY <1>1, <1>3
<1>5. HasTerm(g, s)
  BY <1>3, <1>4 DEF HasTerm
<1>6. Len(g) >= 2 => g[2] \in 0..MaxName
  BY <1>3, <1>4 DEF FileOK
<1>7. \A i \in 3..Len(g) : g[i] \in Byte
  BY <1>3, <1>4 DEF FileOK
<1> QED
  BY <1>1, <1>3, <1>5, <1>6, <1>7 DEF FileOK, g

(* The second leaves the length of the new vote behind the term.           *)
LEMMA SizeWritten ==
    ASSUME NEW f, FileOK(f), NEW s \in State, HasTerm(f, s)
    PROVE  FileOK(After(f, SizeCall(s))) /\ HasSize(After(f, SizeCall(s)), s)
<1> DEFINE g == After(f, SizeCall(s))
           n == Len(s.voted_for)
           fields == <<n>>
<1>1. /\ f \in Seq(Nat) /\ Len(f) \in Nat /\ Len(f) >= 1
      /\ n \in 0..MaxName /\ n \in Nat
  BY VoteIsSeq, StorageAssumption DEF FileOK, HasTerm
<1>2. fields \in Seq(Nat) /\ fields # <<>> /\ Len(fields) = 1
      /\ fields[1] = n
  <2> HIDE DEF n
  <2> QED BY <1>1
<1>3. /\ g \in Seq(Nat) /\ Len(g) = IF 2 > Len(f) THEN 2 ELSE Len(f)
      /\ g[2] = n
      /\ \A i \in 1..Len(g) : i # 2 => i \in 1..Len(f) /\ g[i] = f[i]
  <2> HIDE DEF fields
  <2>0. 2 \in 1..(Len(f) + 1)
    BY <1>1
  <2>1. /\ g \in Seq(Nat)
        /\ Len(g) = IF 2 + Len(fields) - 1 > Len(f) THEN 2 + Len(fields) - 1
                                                    ELSE Len(f)
        /\ \A i \in 1..Len(fields) : g[2 + i - 1] = fields[i]
        /\ \A i \in 1..Len(g) : i \notin 2..(2 + Len(fields) - 1) =>
              i \in 1..Len(f) /\ g[i] = f[i]
    <3>1. g = After(f, write_all_at(2, fields))
      BY DEF SizeCall, fields
    <3>2. f \in Seq(Nat) /\ fields \in Seq(Nat) /\ fields # <<>>
      BY <1>1, <1>2
    <3> HIDE DEF g
    <3> QED BY <3>1, <3>2, <2>0, WriteCall, SMTT(60)
  <2> HIDE DEF g
  <2>2. g[2] = n
    BY <1>2, <2>1
  <2> QED BY <1>1, <1>2, <2>1, <2>2
<1> HIDE DEF g
<1>4. Len(g) >= 2 /\ Len(g) \in Nat /\ (Len(g) >= 3 => Len(g) = Len(f))
  BY <1>1, <1>3
<1>5. g[1] = f[1]
  BY <1>3, <1>4
<1>6. HasSize(g, s)
  BY <1>3, <1>4, <1>5 DEF HasSize, HasTerm
<1>7. \A i \in 3..Len(g) : g[i] \in Byte
  BY <1>3, <1>4 DEF FileOK
<1>8. g[1] \in 0..MaxTerm /\ g[2] \in 0..MaxName
  BY <1>1, <1>3, <1>5 DEF FileOK
<1> QED
  BY <1>3, <1>6, <1>7, <1>8 DEF FileOK, g

(* The third leaves the name of the candidate behind its length.           *)
LEMMA NameWritten ==
    ASSUME NEW f, FileOK(f), NEW s \in State, HasSize(f, s),
           s.voted_for # None
    PROVE  FileOK(After(f, NameCall(s))) /\ HasName(After(f, NameCall(s)), s)
<1> DEFINE g == After(f, NameCall(s))
           v == s.voted_for
<1>1. /\ f \in Seq(Nat) /\ Len(f) \in Nat /\ Len(f) >= 2
      /\ v \in Seq(Byte) /\ Len(v) \in Nat /\ v # <<>> /\ Len(v) >= 1
  BY VoteIsSeq DEF FileOK, HasSize, None
<1>2. v \in Seq(Nat)
  BY <1>1, StorageAssumption, SeqMonotonic
<1> HIDE DEF v
<1>3. /\ g \in Seq(Nat)
      /\ Len(g) = IF 3 + Len(v) - 1 > Len(f) THEN 3 + Len(v) - 1 ELSE Len(f)
      /\ \A i \in 1..Len(v) : g[3 + i - 1] = v[i]
      /\ \A i \in 1..Len(g) : i \notin 3..(3 + Len(v) - 1) =>
            i \in 1..Len(f) /\ g[i] = f[i]
  <2>1. 3 \in 1..(Len(f) + 1)
    BY <1>1
  <2> QED
    <3>1. g = After(f, write_all_at(3, v))
      BY DEF NameCall, v
    <3>2. f \in Seq(Nat) /\ v \in Seq(Nat) /\ v # <<>>
      BY <1>1, <1>2
    <3> HIDE DEF g
    <3> QED BY <3>1, <3>2, <2>1, WriteCall, SMTT(60)
<1> HIDE DEF g
<1>4. Len(g) \in Nat /\ Len(g) >= 2 + Len(v)
  BY <1>1, <1>3
<1>5. g[1] = f[1] /\ g[2] = f[2]
  BY <1>1, <1>3, <1>4
<1>6. \A i \in 1..Len(v) : g[2 + i] = v[i]
  <2>1. \A i \in 1..Len(v) : 3 + i - 1 = 2 + i
    BY <1>1
  <2> QED BY <1>3, <2>1
<1>7. HasName(g, s)
  BY <1>1, <1>4, <1>5, <1>6 DEF HasName, HasSize, HasTerm, v
<1>8. \A i \in 3..Len(g) : g[i] \in Byte
  <2> SUFFICES ASSUME NEW i \in 3..Len(g) PROVE g[i] \in Byte
    OBVIOUS
  <2>1. CASE i \in 3..(3 + Len(v) - 1)
    <3>1. i - 2 \in 1..Len(v) /\ 2 + (i - 2) = i
      BY <1>1, <2>1
    <3>2. g[i] = v[i - 2]
      BY <1>6, <3>1
    <3> QED BY <1>1, <3>1, <3>2
  <2>2. CASE i \notin 3..(3 + Len(v) - 1)
    <3>1. i \in 3..Len(f) /\ g[i] = f[i]
      BY <1>1, <1>3, <1>4, <2>2
    <3> QED BY <3>1 DEF FileOK
  <2> QED BY <2>1, <2>2
<1>9. g[1] \in 0..MaxTerm /\ g[2] \in 0..MaxName
  BY <1>1, <1>5 DEF FileOK
<1> QED
  BY <1>3, <1>7, <1>8, <1>9 DEF FileOK, g

(* set_len leaves a file that holds the new state and nothing more.        *)
LEMMA CutMade ==
    ASSUME NEW f, FileOK(f), NEW s \in State, HasName(f, s)
    PROVE  FileOK(After(f, CutCall(s))) /\ Holds(After(f, CutCall(s)), s)
<1> DEFINE g == After(f, CutCall(s))
           len == 2 + Len(s.voted_for)
<1>1. /\ f \in Seq(Nat) /\ Len(f) \in Nat /\ Len(s.voted_for) \in Nat
      /\ len \in 2..Len(f) /\ len \in 0..Len(f)
  BY VoteIsSeq DEF FileOK, HasName, HasSize
<1>2. g \in Seq(Nat) /\ Len(g) = len /\ \A i \in 1..len : g[i] = f[i]
  <2> HIDE DEF len
  <2> QED BY <1>1, CutCallResult DEF CutCall, len
<1> HIDE DEF g
<1>3. g[1] = f[1] /\ g[2] = f[2]
  BY <1>1, <1>2
<1>4. \A i \in 1..Len(s.voted_for) : g[2 + i] = f[2 + i]
  BY <1>1, <1>2
<1>5. Holds(g, s)
  BY <1>1, <1>2, <1>3, <1>4 DEF Holds, HasName, HasSize, HasTerm
<1>6. \A i \in 3..Len(g) : g[i] \in Byte
  <2> HIDE DEF len
  <2>1. \A i \in 3..len : i \in 3..Len(f) /\ i \in 1..len
    BY <1>1
  <2> QED BY <1>2, <2>1 DEF FileOK
<1>7. g[1] \in 0..MaxTerm /\ g[2] \in 0..MaxName
  BY <1>1, <1>3 DEF FileOK
<1> QED
  BY <1>2, <1>5, <1>6, <1>7 DEF FileOK, g

-----------------------------------------------------------------------------
(* The inductive invariant.                                                *)

(* Nothing that the core may hold after a state that is not behind the     *)
(* confirmed one undoes a confirmed vote.                                  *)
LEMMA FollowsNotBehind ==
    ASSUME NEW s \in State, NEW m \in State, NEW t \in State,
           NotBehind(s, m), Follows(m, t)
    PROVE  Follows(s, t) /\ NotBehind(s, t)
<1>1. /\ s.current_term \in Nat /\ m.current_term \in Nat
      /\ t.current_term \in Nat
  BY VoteIsSeq, StorageAssumption
<1> QED
  BY <1>1 DEF NotBehind, Follows

(* A state that follows the confirmed one is another state.                *)
LEMMA FollowsDiffers ==
    ASSUME NEW s \in State, NEW t \in State, Follows(s, t)
    PROVE  s # t
<1>1. s.current_term \in Nat /\ t.current_term \in Nat
  BY VoteIsSeq, StorageAssumption
<1> QED
  BY <1>1 DEF Follows

(* The invariant holds of an empty file.                                   *)
LEMMA InitIInv == Init => IInv
<1> SUFFICES ASSUME Init PROVE IInv
  OBVIOUS
<1>1. file = <<>> /\ writes = <<>> /\ memory = load_state(file)
      /\ saved = load_state(file) /\ alive = TRUE
  BY DEF Init
<1>2. FileOK(file)
  BY <1>1 DEF FileOK
<1>3. Loadable(file)
  BY <1>1 DEF Loadable
<1>4. TypeOK
  BY <1>1, <1>2, <1>3, LoadedIsState DEF TypeOK
<1>5. NotBehind(saved, memory) /\ ConfirmedVoteSurvives
      /\ ConfirmedStateIsReadBack
  BY <1>1, <1>3 DEF NotBehind, ConfirmedVoteSurvives, ConfirmedStateIsReadBack
<1> QED
  BY <1>1, <1>4, <1>5 DEF IInv, Progress

(* save_state starts.                                                      *)
LEMMA SaveStep ==
    ASSUME IInv, NEW s \in State, save_state(s)
    PROVE  IInv'
<1>1. /\ memory' = s /\ writes' = WritesOf(s) /\ Follows(memory, s)
      /\ UNCHANGED <<file, saved, alive>>
  BY DEF save_state
<1>2. memory \in State /\ saved \in State /\ NotBehind(saved, memory)
  BY DEF IInv, TypeOK
<1>3. Follows(saved, s) /\ NotBehind(saved, s)
  BY <1>1, <1>2, FollowsNotBehind
<1>4. TypeOK'
  BY <1>1 DEF IInv, TypeOK
<1>5. Progress'
  BY <1>1 DEF Progress
<1>6. ConfirmedVoteSurvives'
  BY <1>1 DEF IInv, ConfirmedVoteSurvives
<1>7. ConfirmedStateIsReadBack'
  BY <1>1, <1>2, <1>3, FollowsDiffers DEF ConfirmedStateIsReadBack
<1> QED
  BY <1>1, <1>3, <1>4, <1>5, <1>6, <1>7 DEF IInv, NotBehind, Follows

(* One call of save_state: either it is not the last, and the file has the *)
(* term of the state being saved, or it is sync_all and the file is        *)
(* complete.                                                               *)
LEMMA CallMade ==
    ASSUME IInv, write_next
    PROVE  /\ FileOK(file') /\ HasTerm(file', memory)
           /\ \/ Tail(writes) # <<>> /\ Progress'
              \/ Tail(writes) = <<>> /\ Holds(file', memory)
<1>1. /\ writes # <<>> /\ file' = After(file, Head(writes))
      /\ writes' = Tail(writes) /\ memory' = memory
  BY DEF write_next
<1>2. FileOK(file) /\ memory \in State
  BY DEF IInv, TypeOK
<1> DEFINE T == TermCall(memory)
           Z == SizeCall(memory)
           N == NameCall(memory)
           C == CutCall(memory)
           v == memory.voted_for
<1>3. /\ v = None => WritesOf(memory) = <<T, Z, C, sync_all>>
      /\ v # None => WritesOf(memory) = <<T, Z, N, C, sync_all>>
  BY CallsOfSave
<1> HIDE DEF T, Z, N, C
<1>a. /\ Head(<<T, Z, C, sync_all>>) = T /\ Head(<<Z, C, sync_all>>) = Z
      /\ Head(<<T, Z, N, C, sync_all>>) = T
      /\ Head(<<Z, N, C, sync_all>>) = Z /\ Head(<<N, C, sync_all>>) = N
  OBVIOUS
<1>b. Tail(<<T, Z, C, sync_all>>) = <<Z, C, sync_all>>
  OBVIOUS
<1>c. Tail(<<Z, C, sync_all>>) = <<C, sync_all>>
  OBVIOUS
<1>d. Tail(<<T, Z, N, C, sync_all>>) = <<Z, N, C, sync_all>>
  OBVIOUS
<1>e. Tail(<<Z, N, C, sync_all>>) = <<N, C, sync_all>>
  OBVIOUS
<1>f. Tail(<<N, C, sync_all>>) = <<C, sync_all>>
  OBVIOUS
<1>4. /\ v = None => /\ Tail(WritesOf(memory)) = <<Z, C, sync_all>>
                     /\ Tail(Tail(WritesOf(memory))) = <<C, sync_all>>
      /\ v # None => /\ Tail(WritesOf(memory)) = <<Z, N, C, sync_all>>
                     /\ Tail(Tail(WritesOf(memory))) = <<N, C, sync_all>>
  BY <1>3, <1>b, <1>c, <1>d, <1>e, Zenon
<1>5. CASE writes = WritesOf(memory)
  <2>1. Head(writes) = T /\ Tail(writes) # <<>>
    <3>1. CASE v = None
      <4>1. writes = <<T, Z, C, sync_all>>
        BY <1>3, <1>5, <3>1, Zenon
      <4>2. Tail(writes) = <<Z, C, sync_all>>
        BY <1>b, <4>1, Zenon
      <4> QED BY <1>a, <4>1, <4>2
    <3>2. CASE v # None
      <4>1. writes = <<T, Z, N, C, sync_all>>
        BY <1>3, <1>5, <3>2, Zenon
      <4>2. Tail(writes) = <<Z, N, C, sync_all>>
        BY <1>d, <4>1, Zenon
      <4> QED BY <1>a, <4>1, <4>2
    <3> QED BY <3>1, <3>2
  <2>2. FileOK(file') /\ HasTerm(file', memory)
    BY <1>1, <1>2, <2>1, TermWritten DEF T
  <2>3. Progress'
    BY <1>1, <1>5, <2>2 DEF Progress
  <2> QED BY <2>1, <2>2, <2>3
<1>6. CASE writes = Tail(WritesOf(memory)) /\ HasTerm(file, memory)
  <2>1. Head(writes) = Z /\ Tail(writes) # <<>>
    <3>1. v = None => Head(writes) = Z /\ Tail(writes) = <<C, sync_all>>
      BY <1>4, <1>6, <1>a, <1>c, <1>e, Zenon
    <3>2. v # None => Head(writes) = Z /\ Tail(writes) = <<N, C, sync_all>>
      BY <1>4, <1>6, <1>a, <1>c, <1>e, Zenon
    <3>3. <<C, sync_all>> # <<>> /\ <<N, C, sync_all>> # <<>>
      OBVIOUS
    <3> QED BY <3>1, <3>2, <3>3, Zenon
  <2>2. FileOK(file') /\ HasSize(file', memory)
    BY <1>1, <1>2, <1>6, <2>1, SizeWritten DEF Z
  <2>3. Progress'
    BY <1>1, <1>6, <2>2 DEF Progress
  <2> QED BY <2>1, <2>2, <2>3 DEF HasSize
<1>7. CASE \/ /\ writes = Tail(Tail(WritesOf(memory))) /\ v = None
              /\ HasSize(file, memory)
           \/ writes = <<C, sync_all>> /\ HasName(file, memory)
  <2>0. HasName(file, memory) /\ writes = <<C, sync_all>>
    <3>1. v = None /\ HasSize(file, memory) => HasName(file, memory)
      BY <1>2, VoteIsSeq DEF HasName, HasSize
    <3> QED BY <1>4, <1>7, <3>1
  <2>1. Head(writes) = C /\ Tail(writes) = <<sync_all>>
    BY <2>0
  <2>2. FileOK(file') /\ Holds(file', memory)
    BY <1>1, <1>2, <2>0, <2>1, CutMade DEF C
  <2>3. Progress'
    BY <1>1, <2>1, <2>2 DEF Progress
  <2>4. Tail(writes) # <<>>
    BY <2>1
  <2> QED BY <2>2, <2>3, <2>4 DEF Holds, HasName, HasSize
<1>8. CASE /\ writes = Tail(Tail(WritesOf(memory))) /\ v # None
           /\ HasSize(file, memory)
  <2>1. Head(writes) = N /\ Tail(writes) = <<C, sync_all>>
    BY <1>4, <1>8, <1>a, <1>f, Zenon
  <2>2. FileOK(file') /\ HasName(file', memory)
    BY <1>1, <1>2, <1>8, <2>1, NameWritten DEF N
  <2>3. Progress'
    BY <1>1, <2>1, <2>2 DEF Progress, C
  <2>4. Tail(writes) # <<>>
    BY <2>1
  <2> QED BY <2>2, <2>3, <2>4 DEF HasName, HasSize
<1>9. CASE writes = <<sync_all>> /\ Holds(file, memory)
  <2>1. Head(writes) = sync_all /\ Tail(writes) = <<>>
    BY <1>9
  <2>2. file' = file
    BY <1>1, <2>1, SyncResult
  <2> QED
    BY <1>2, <1>9, <2>1, <2>2 DEF Holds, HasName, HasSize
<1> QED
  BY <1>1, <1>5, <1>6, <1>7, <1>8, <1>9 DEF IInv, Progress, C

(* The next call of save_state preserves the invariant, whichever of the   *)
(* calls it is.                                                            *)
LEMMA WriteStep ==
    ASSUME IInv, write_next
    PROVE  IInv'
<1>1. /\ writes # <<>> /\ writes' = Tail(writes)
      /\ saved' = IF Tail(writes) = <<>> THEN memory ELSE saved
      /\ UNCHANGED <<memory, alive>>
  BY DEF write_next
<1>2. /\ memory \in State /\ saved \in State /\ alive \in BOOLEAN
      /\ NotBehind(saved, memory) /\ Follows(saved, memory)
  BY <1>1 DEF IInv, TypeOK
<1>3. FileOK(file') /\ HasTerm(file', memory)
  BY CallMade
<1>4. CASE Tail(writes) # <<>>
  <2>1. Progress' /\ saved' = saved
    BY <1>1, <1>4, CallMade
  <2>2. TypeOK'
    BY <1>1, <1>2, <1>3, <2>1 DEF TypeOK
  <2>3. ConfirmedVoteSurvives'
    <3>1. load_state(file').current_term = memory.current_term
      BY <1>3 DEF HasTerm, load_state
    <3> QED
      BY <1>2, <2>1, <3>1 DEF ConfirmedVoteSurvives, Follows
  <2>4. ConfirmedStateIsReadBack'
    BY <1>1, <1>4 DEF ConfirmedStateIsReadBack
  <2> QED
    BY <1>1, <1>2, <2>1, <2>2, <2>3, <2>4 DEF IInv, NotBehind, Follows
<1>5. CASE Tail(writes) = <<>>
  <2>1. Holds(file', memory) /\ saved' = memory /\ memory' = memory
        /\ writes' = <<>>
    BY <1>1, <1>5, CallMade
  <2>2. Loadable(file') /\ load_state(file') = memory
    BY <1>2, <1>3, <2>1, HoldsIsReadBack
  <2>3. TypeOK'
    BY <1>1, <1>2, <1>3, <2>1 DEF TypeOK
  <2>4. ConfirmedVoteSurvives' /\ ConfirmedStateIsReadBack'
    BY <2>1, <2>2 DEF ConfirmedVoteSurvives, ConfirmedStateIsReadBack
  <2>5. NotBehind(saved, memory)' /\ Progress'
    BY <2>1 DEF NotBehind, Progress
  <2> QED
    BY <2>1, <2>3, <2>4, <2>5 DEF IInv
<1> QED BY <1>4, <1>5

(* A save that fails leaves the core with a state that was not confirmed.  *)
LEMMA FailStep ==
    ASSUME IInv, write_fails
    PROVE  IInv'
<1>1. writes # <<>> /\ writes' = <<>> /\ UNCHANGED <<file, memory, saved, alive>>
  BY DEF write_fails
<1>2. saved # memory
  BY <1>1, FollowsDiffers DEF IInv, TypeOK
<1>3. TypeOK' /\ ConfirmedVoteSurvives'
  BY <1>1 DEF IInv, TypeOK, ConfirmedVoteSurvives
<1>4. ConfirmedStateIsReadBack' /\ Progress' /\ NotBehind(saved, memory)'
  BY <1>1, <1>2 DEF IInv, ConfirmedStateIsReadBack, Progress, NotBehind
<1> QED
  BY <1>1, <1>3, <1>4 DEF IInv

(* A restart takes over what load_state finds.                             *)
LEMMA CrashStep ==
    ASSUME IInv, crash
    PROVE  IInv'
<1>1. /\ writes' = <<>> /\ alive' = Loadable(file)
      /\ memory' = IF Loadable(file) THEN load_state(file) ELSE memory
      /\ UNCHANGED <<file, saved>>
  BY DEF crash
<1>2. FileOK(file) /\ memory \in State /\ saved \in State
  BY DEF IInv, TypeOK
<1>3. ConfirmedVoteSurvives'
  BY <1>1 DEF IInv, ConfirmedVoteSurvives
<1>4. Progress' /\ (writes # <<>> => Follows(saved, memory))'
  BY <1>1 DEF Progress
<1>5. alive' \in BOOLEAN
  BY <1>1 DEF Loadable
<1>6. CASE Loadable(file)
  <2>1. memory' \in State /\ memory' = load_state(file)
    BY <1>1, <1>2, <1>6, LoadedIsState
  <2>2. TypeOK'
    BY <1>1, <1>2, <1>5, <2>1 DEF TypeOK
  <2>3. NotBehind(saved, memory)'
    BY <1>1, <1>6, <2>1 DEF IInv, ConfirmedVoteSurvives, NotBehind
  <2>4. ConfirmedStateIsReadBack'
    BY <1>1, <1>6, <2>1 DEF ConfirmedStateIsReadBack
  <2> QED
    BY <1>3, <1>4, <2>2, <2>3, <2>4 DEF IInv
<1>7. CASE ~Loadable(file)
  <2>1. memory' = memory
    BY <1>1, <1>7
  <2>2. saved # memory
    BY <1>2, <1>7, FollowsDiffers DEF IInv, ConfirmedStateIsReadBack
  <2>3. TypeOK'
    BY <1>1, <1>2, <1>5, <2>1 DEF TypeOK
  <2>4. ConfirmedStateIsReadBack' /\ NotBehind(saved, memory)'
    BY <1>1, <2>1, <2>2 DEF IInv, ConfirmedStateIsReadBack, NotBehind
  <2> QED
    BY <1>3, <1>4, <2>3, <2>4 DEF IInv
<1> QED BY <1>6, <1>7

(* Every step preserves the invariant.                                     *)
LEMMA NextIInv == IInv /\ [Next]_vars => IInv'
<1>1. ASSUME IInv, Next PROVE IInv'
  BY <1>1, SaveStep, WriteStep, FailStep, CrashStep DEF Next
<1>2. ASSUME IInv, UNCHANGED vars PROVE IInv'
  BY <1>2 DEF IInv, vars, TypeOK, NotBehind, Follows, Progress,
     ConfirmedVoteSurvives, ConfirmedStateIsReadBack
<1> QED BY <1>1, <1>2

(* The invariant holds in every state.                                     *)
LEMMA AlwaysIInv == Spec => []IInv
BY InitIInv, NextIInv, PTL DEF Spec

-----------------------------------------------------------------------------
(* The theorems.                                                           *)

(* Wherever a save is cut, by a crash or by an error, load_state finds no  *)
(* earlier term than the one confirmed and, in that term, the same vote.   *)
THEOREM VoteSurvives == Spec => []ConfirmedVoteSurvives
<1>1. IInv => ConfirmedVoteSurvives
  BY DEF IInv
<1> QED BY <1>1, AlwaysIInv, PTL

(* A confirmed state is read back exactly: set_len leaves nothing of the   *)
(* longer names of earlier saves, complete or cut.                         *)
THEOREM StateIsReadBack == Spec => []ConfirmedStateIsReadBack
<1>1. IInv => ConfirmedStateIsReadBack
  BY DEF IInv
<1> QED BY <1>1, AlwaysIInv, PTL

=============================================================================
