-------------------------- MODULE HardStateStorage --------------------------
(***************************************************************************)
(* The state.metadata file of src/src/raft/storage.rs, write by write.     *)
(* The file is a sequence of fields: the term (8 bytes), the length of the *)
(* name voted for (8 bytes), and the bytes of that name.  save_state puts  *)
(* them there with separate calls; the process may die, or a call may      *)
(* fail, between any two.  One call is atomic, and a crash keeps the calls *)
(* made before it: all of the file lies within one sector.                 *)
(*                                                                         *)
(* What a cut save leaves behind is what module RaftElection takes from    *)
(* its HalfSaved: a later term, with any vote.                             *)
(***************************************************************************)
EXTENDS Naturals, Sequences

CONSTANTS
    Byte,     \* the bytes of node names
    MaxName,  \* bound on the length of a node name
    MaxTerm   \* bound on the terms

ASSUME StorageAssumption ==
    Byte \subseteq Nat /\ MaxName \in Nat \ {0} /\ MaxTerm \in Nat

VARIABLES
    file,    \* the fields of state.metadata
    writes,  \* the calls that save_state has still to make
    memory,  \* the hard state of the core
    saved,   \* the last state for which save_state returned Ok
    alive    \* the node is up, or can be started again

vars == <<file, writes, memory, saved, alive>>

(* A name has at least one byte, as the file has no other sign of None.    *)
None == <<>>
Name == UNION {[1..k -> Byte] : k \in 1..MaxName}
State == [current_term : 0..MaxTerm, voted_for : Name \cup {None}]

-----------------------------------------------------------------------------
(* The calls.                                                              *)

write_all_at(pos, fields) ==
    [call |-> "write_all_at", pos |-> pos, fields |-> fields]
set_len(len) == [call |-> "set_len", pos |-> len, fields |-> <<>>]
sync_all == [call |-> "sync_all", pos |-> 0, fields |-> <<>>]

(* The file after a call; a hole before the written fields reads as zeros. *)
After(f, c) ==
    LET last == c.pos + Len(c.fields) - 1
        len  == IF last > Len(f) THEN last ELSE Len(f)
    IN  CASE c.call = "write_all_at" ->
                [i \in 1..len |-> CASE i \in c.pos..last -> c.fields[i - c.pos + 1]
                                    [] i \in DOMAIN f \ (c.pos..last) -> f[i]
                                    [] OTHER -> 0]
          [] c.call = "set_len"  -> SubSeq(f, 1, c.pos)
          [] c.call = "sync_all" -> f

WritesOfVoteFirst(s) ==
    << write_all_at(2, <<Len(s.voted_for)>>), write_all_at(3, s.voted_for),
       write_all_at(1, <<s.current_term>>), set_len(2 + Len(s.voted_for)),
       sync_all >>
WritesOfTermOnly(s) ==
    IF s.voted_for = None
    THEN << write_all_at(1, <<s.current_term>>), sync_all >>
    ELSE << write_all_at(1, <<s.current_term>>),
            write_all_at(2, <<Len(s.voted_for)>>),
            write_all_at(3, s.voted_for),
            set_len(2 + Len(s.voted_for)), sync_all >>
WritesOf(s) ==
    << write_all_at(1, <<s.current_term>>),
       write_all_at(2, <<Len(s.voted_for)>>) >>
    \o (IF s.voted_for = None THEN <<>> ELSE << write_all_at(3, s.voted_for) >>)
    \o << set_len(2 + Len(s.voted_for)), sync_all >>

(* load_state does not panic: every field it reads is there.               *)
Loadable(f) ==
    \/ f = <<>>
    \/ Len(f) >= 2 /\ Len(f) >= 2 + f[2]

load_state(f) ==
    IF f = <<>> THEN [current_term |-> 0, voted_for |-> None]
    ELSE [current_term |-> f[1], voted_for |-> SubSeq(f, 3, 2 + f[2])]

-----------------------------------------------------------------------------
(* Storage::new in an empty directory.                                     *)
Init ==
    /\ file = <<>>
    /\ writes = <<>>
    /\ memory = load_state(file)
    /\ saved = load_state(file)
    /\ alive = TRUE

(* The states the core may hold after s: a later term, or a vote in a term *)
(* in which there was none (every caller of persist_hard_state).           *)
Follows(s, t) ==
    \/ t.current_term > s.current_term
    \/ /\ t.current_term = s.current_term
       /\ s.voted_for = None
       /\ t.voted_for # None

save_state(s) ==
    /\ alive
    /\ writes = <<>>
    /\ Follows(memory, s)
    /\ memory' = s
    /\ writes' = WritesOf(s)
    /\ UNCHANGED <<file, saved, alive>>

write_next ==
    /\ alive
    /\ writes # <<>>
    /\ file' = After(file, Head(writes))
    /\ writes' = Tail(writes)
    /\ saved' = IF Tail(writes) = <<>> THEN memory ELSE saved
    /\ UNCHANGED <<memory, alive>>

(* The ? of save_state: the calls left are not made, and the core keeps    *)
(* what it has in memory.                                                  *)
write_fails ==
    /\ alive
    /\ writes # <<>>
    /\ writes' = <<>>
    /\ UNCHANGED <<file, memory, saved, alive>>

(* The process dies and is started again, if load_state can read the file. *)
crash ==
    /\ alive
    /\ writes' = <<>>
    /\ alive' = Loadable(file)
    /\ memory' = IF Loadable(file) THEN load_state(file) ELSE memory
    /\ UNCHANGED <<file, saved>>

Next ==
    \/ \E s \in State : save_state(s)
    \/ write_next
    \/ write_fails
    \/ crash

Spec == Init /\ [][Next]_vars

-----------------------------------------------------------------------------
(* Properties.                                                             *)

(* Whenever the process dies, load_state finds at least what save_state    *)
(* had confirmed: no earlier term, and in the same term the same vote.  So *)
(* no vote that was sent is forgotten or replaced, wherever a later save   *)
(* is cut or fails.                                                        *)
ConfirmedVoteSurvives ==
    Loadable(file) =>
        LET s == load_state(file)
        IN  \/ s.current_term > saved.current_term
            \/ /\ s.current_term = saved.current_term
               /\ saved.voted_for # None => s.voted_for = saved.voted_for

(* The core never acts on a state that load_state misread: a state that    *)
(* save_state confirmed is read back exactly, however long the names that  *)
(* earlier saves, complete or cut, have left in the file.                  *)
ConfirmedStateIsReadBack ==
    writes = <<>> /\ saved = memory =>
        Loadable(file) /\ load_state(file) = memory
=============================================================================
