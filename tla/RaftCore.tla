------------------------------ MODULE RaftCore ------------------------------
(***************************************************************************)
(* The deterministic Raft core of src/src/raft/core.rs: the state of the   *)
(* struct Raft, one function per field, and one action per event handler.  *)
(* A handler changes the state of its node and leaves the work it asks for *)
(* in effect[n]; the executor (module RaftElection) performs that work.    *)
(* The runtime task owns the core, so a handler runs only when the effect  *)
(* of the previous event has been executed.                                *)
(*                                                                         *)
(* Voters are the fixed set Node: Runtime::new takes a static voter set    *)
(* and an empty learner map, and nothing ever inserts into either, so the  *)
(* learner branches of the handlers are unreachable and are left out.      *)
(*                                                                         *)
(* Handlers that return an error or None without having changed the state  *)
(* are stuttering steps.  The AppendEntries handlers are in module         *)
(* RaftReplication: today the executor of Effect::SendAppendEntries sends  *)
(* nothing, and no such event is delivered to a core.                      *)
(*                                                                         *)
(* A definition may follow the form a plausible bug would give it (a       *)
(* dropped check, a swapped comparison).  The specification never uses     *)
(* that form: it is there to show that the properties notice the bug.      *)
(***************************************************************************)
EXTENDS Naturals, FiniteSets

CONSTANTS
    Node,     \* the voters, identified by NodeId
    Nil,      \* Option::None for a NodeId
    MaxTerm,  \* largest term; u64::MAX in the code
    MaxIndex  \* largest log index; u64::MAX in the code

ASSUME NodeAssumption == IsFiniteSet(Node) /\ Nil \notin Node

ASSUME BoundAssumption == MaxTerm \in Nat /\ MaxIndex \in Nat

VARIABLES
    role, current_term, voted_for, leader_id, granted_votes,
    last_log_index, last_log_term,
    commit_index, last_applied,
    match_index, next_index,
    effect          \* the Effect returned by the last handler, until executed

electionVars == <<role, current_term, voted_for, leader_id, granted_votes>>
positionVars == <<last_log_index, last_log_term>>
commitVars   == <<commit_index, last_applied>>
progressVars == <<match_index, next_index>>
coreVars     == <<electionVars, positionVars, commitVars, progressVars, effect>>

-----------------------------------------------------------------------------
(* Messages.  A request goes to every other voter, so it is one record     *)
(* without destination.                                                    *)

Role == {"Follower", "Candidate", "Leader"}

NodeOrNil == Node \cup {Nil}

VoteRequest ==
    [type : {"RequestVote"}, term : Nat, candidate_id : Node,
     last_log_index : Nat, last_log_term : Nat]

VoteResponse ==
    [type : {"VoteResponse"}, from : Node, to : Node, term : Nat,
     vote_granted : BOOLEAN]

HeartbeatRequest ==
    [type : {"Heartbeat"}, term : Nat, leader_id : Node,
     log_index : Nat, log_term : Nat, leader_commit_index : Nat]

HeartbeatResponse ==
    [type : {"HeartbeatResponse"}, from : Node, to : Node, term : Nat,
     success : BOOLEAN, last_log_index : Nat, last_log_term : Nat,
     leader_id : NodeOrNil]

Message == VoteRequest \cup VoteResponse \cup HeartbeatRequest
                       \cup HeartbeatResponse

(* An effect is what the executor still has to do: save the hard state     *)
(* (current_term, voted_for), which cannot change before it is saved, and  *)
(* then hand the messages in out to the transport.                         *)
Effect == [save : BOOLEAN, out : SUBSET Message]

NoEffect == [save |-> FALSE, out |-> {}]

Idle(n) == effect[n] = NoEffect

Emit(n, save, out) ==
    effect' = [effect EXCEPT ![n] = [save |-> save, out |-> out]]

-----------------------------------------------------------------------------
(* Helpers.                                                                *)

Least(a, b) == IF a < b THEN a ELSE b

Greatest(a, b) == IF a > b THEN a ELSE b

(* saturating_sub(1) on a u64.                                             *)
PredUnchecked(i) == i - 1
SaturatingPred(i) == IF i = 0 THEN 0 ELSE i - 1

(* granted_votes.len() > voters.len() / 2, in integer arithmetic.          *)
MajorityPlusOne(S) == Cardinality(S) > Cardinality(Node) \div 2 + 1
Majority(S) == Cardinality(S) > Cardinality(Node) \div 2

(* Log position <<index, term>> is at least as up to date as another.      *)
UpToDateSwapped(term, index, otherTerm, otherIndex) ==
    \/ otherTerm > term
    \/ otherTerm = term /\ otherIndex >= index
UpToDate(term, index, otherTerm, otherIndex) ==
    \/ term > otherTerm
    \/ term = otherTerm /\ index >= otherIndex

(* The vote of this term is free, or already the candidate's.              *)
CanAlwaysVote(vote, candidate) == TRUE
CanVote(vote, candidate) == vote \in {Nil, candidate}

(* Response m is a vote of the current term that n has not counted yet.    *)
IsNewResponse(n, m) ==
    /\ m.term = current_term[n]
    /\ role[n] = "Candidate"
    /\ m.from \notin granted_votes[n]
IsNewVote(n, m) ==
    /\ m.term = current_term[n]
    /\ role[n] = "Candidate"
    /\ m.vote_granted
    /\ m.from \notin granted_votes[n]

(* A newer term seen in a response: the vote, the candidacy and the        *)
(* leadership of the old term are over.                                    *)
StepDown(n, term, leader) ==
    /\ current_term' = [current_term EXCEPT ![n] = term]
    /\ role' = [role EXCEPT ![n] = "Follower"]
    /\ voted_for' = [voted_for EXCEPT ![n] = Nil]
    /\ leader_id' = [leader_id EXCEPT ![n] = leader]
    /\ granted_votes' = [granted_votes EXCEPT ![n] = {}]

(* The heartbeat a leader of the given term sends to its peers.            *)
HeartbeatOf(n) ==
    [type |-> "Heartbeat", term |-> current_term[n], leader_id |-> n,
     log_index |-> last_log_index[n], log_term |-> last_log_term[n],
     leader_commit_index |-> commit_index[n]]

(* The answer to a heartbeat; it names the leader this node will report    *)
(* once the handler is done.                                               *)
HeartbeatResponseOf(n, leader, term, success, known) ==
    [type |-> "HeartbeatResponse", from |-> n, to |-> leader, term |-> term,
     success |-> success, last_log_index |-> last_log_index[n],
     last_log_term |-> last_log_term[n], leader_id |-> known]

-----------------------------------------------------------------------------
(* Event handlers.                                                         *)

handle_election_timeout(n) ==
    /\ Idle(n)
    /\ current_term[n] < MaxTerm
    /\ current_term' = [current_term EXCEPT ![n] = @ + 1]
    /\ voted_for' = [voted_for EXCEPT ![n] = n]
    /\ granted_votes' = [granted_votes EXCEPT ![n] = {n}]
    /\ role' = [role EXCEPT ![n] = "Candidate"]
    /\ Emit(n, TRUE, {[type |-> "RequestVote", term |-> current_term[n] + 1,
                       candidate_id |-> n,
                       last_log_index |-> last_log_index[n],
                       last_log_term |-> last_log_term[n]]})
    /\ UNCHANGED <<leader_id, positionVars, commitVars, progressVars>>

handle_request_vote(n, m) ==
    LET newer   == m.term > current_term[n]
        term    == IF newer THEN m.term ELSE current_term[n]
        vote    == IF newer THEN Nil ELSE voted_for[n]
        granted == /\ m.term = term
                   /\ UpToDate(m.last_log_term, m.last_log_index,
                               last_log_term[n], last_log_index[n])
                   /\ CanVote(vote, m.candidate_id)
        changed == newer \/ (granted /\ vote # m.candidate_id)
    IN  /\ Idle(n)
        /\ current_term' = [current_term EXCEPT ![n] = term]
        /\ voted_for' = [voted_for EXCEPT
                            ![n] = IF granted THEN m.candidate_id ELSE vote]
        /\ role' = [role EXCEPT ![n] = IF newer THEN "Follower" ELSE @]
        /\ leader_id' = [leader_id EXCEPT ![n] = IF newer THEN Nil ELSE @]
        /\ granted_votes' = [granted_votes EXCEPT
                                ![n] = IF newer THEN {} ELSE @]
        /\ Emit(n, changed,
                {[type |-> "VoteResponse", from |-> n, to |-> m.candidate_id,
                  term |-> term, vote_granted |-> granted]})
        /\ UNCHANGED <<positionVars, commitVars, progressVars>>

handle_vote_response(n, m) ==
    /\ Idle(n)
    /\ \/ /\ m.term > current_term[n]
          /\ StepDown(n, m.term, Nil)
          /\ UNCHANGED effect
       \/ LET granted == granted_votes[n] \cup {m.from}
          IN  /\ IsNewVote(n, m)
              /\ granted_votes' = [granted_votes EXCEPT ![n] = granted]
              /\ IF Majority(granted)
                 THEN /\ role' = [role EXCEPT ![n] = "Leader"]
                      /\ Emit(n, FALSE, {HeartbeatOf(n)})
                 ELSE UNCHANGED <<role, effect>>
              /\ UNCHANGED <<current_term, voted_for, leader_id>>
    /\ UNCHANGED <<positionVars, commitVars, progressVars>>

handle_heartbeat_timeout(n) ==
    /\ Idle(n)
    /\ role[n] = "Leader"
    /\ Emit(n, FALSE, {HeartbeatOf(n)})
    /\ UNCHANGED <<electionVars, positionVars, commitVars, progressVars>>

handle_heartbeat(n, m) ==
    LET matches == /\ m.log_index = last_log_index[n]
                   /\ m.log_term = last_log_term[n]
        commit  == Least(m.leader_commit_index, last_log_index[n])
    IN  /\ Idle(n)
        /\ \/ /\ m.term < current_term[n]
              /\ Emit(n, FALSE, {HeartbeatResponseOf(n, m.leader_id,
                                    current_term[n], FALSE, leader_id[n])})
              /\ UNCHANGED <<electionVars, commitVars>>
           \/ /\ m.term >= current_term[n]
              /\ current_term' = [current_term EXCEPT ![n] = m.term]
              /\ voted_for' = [voted_for EXCEPT
                    ![n] = IF m.term > current_term[n] THEN Nil ELSE @]
              /\ role' = [role EXCEPT ![n] = "Follower"]
              /\ granted_votes' = [granted_votes EXCEPT ![n] = {}]
              /\ leader_id' = [leader_id EXCEPT ![n] = m.leader_id]
              /\ commit_index' = [commit_index EXCEPT
                    ![n] = IF matches THEN Greatest(@, commit) ELSE @]
              /\ Emit(n, FALSE, {HeartbeatResponseOf(n, m.leader_id,
                                    m.term, matches, m.leader_id)})
              /\ UNCHANGED last_applied
        /\ UNCHANGED <<positionVars, progressVars>>

handle_heartbeat_response(n, m) ==
    /\ Idle(n)
    /\ \/ /\ m.term > current_term[n]
          /\ StepDown(n, m.term, m.leader_id)
          /\ UNCHANGED progressVars
       \/ LET old     == match_index[n][m.from]
              matched == Greatest(old, Least(m.last_log_index,
                                             last_log_index[n]))
              next    == next_index[n][m.from]
              rewound == Least(SaturatingPred(next), m.last_log_index + 1)
          IN  /\ m.term = current_term[n]
              /\ role[n] = "Leader"
              /\ match_index' = [match_index EXCEPT ![n][m.from] =
                    IF m.success THEN matched ELSE old]
              /\ next_index' = [next_index EXCEPT ![n][m.from] =
                    IF m.success THEN Greatest(next, matched + 1)
                                 ELSE rewound]
              /\ UNCHANGED electionVars
    /\ UNCHANGED <<positionVars, commitVars, effect>>

(* Event::Write, Effect::AppendLocal and Event::LocalEntriesAppended in    *)
(* one step: handle_write only checks the role, index is the offset        *)
(* Log::append returned, and the effect, SendAppendEntries to the peers,   *)
(* is left to module RaftReplication.  A sole voter commits at once; that  *)
(* path is not taken here, because a sole voter is never elected.          *)
handle_local_entry_appended(n, index) ==
    /\ Idle(n)
    /\ role[n] = "Leader"
    /\ Node # {n}
    /\ last_log_index' = [last_log_index EXCEPT ![n] = index]
    /\ last_log_term' = [last_log_term EXCEPT ![n] = current_term[n]]
    /\ match_index' = [match_index EXCEPT ![n][n] = index]
    /\ next_index' = [next_index EXCEPT ![n][n] = index + 1]
    /\ UNCHANGED <<electionVars, commitVars, effect>>

-----------------------------------------------------------------------------
(* The type of the state of the core.                                      *)
CoreTypeOK ==
    /\ role \in [Node -> Role]
    /\ current_term \in [Node -> Nat]
    /\ voted_for \in [Node -> NodeOrNil]
    /\ leader_id \in [Node -> NodeOrNil]
    /\ granted_votes \in [Node -> SUBSET Node]
    /\ last_log_index \in [Node -> Nat]
    /\ last_log_term \in [Node -> Nat]
    /\ commit_index \in [Node -> Nat]
    /\ last_applied \in [Node -> Nat]
    /\ match_index \in [Node -> [Node -> Nat]]
    /\ next_index \in [Node -> [Node -> Nat]]
    /\ effect \in [Node -> Effect]
=============================================================================
