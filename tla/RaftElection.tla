---------------------------- MODULE RaftElection ----------------------------
(***************************************************************************)
(* A cluster of Raft cores, each run by its own Runtime: the executor that *)
(* saves the hard state before it sends (src/src/raft/runtime.rs), the     *)
(* state.metadata file (src/src/raft/storage.rs), the persistent log seen  *)
(* as the terms of its entries, crashes and restarts, and a transport that *)
(* may delay, duplicate and reorder messages, and lose them (a message is  *)
(* lost when nobody receives it).  The transport is the part that the      *)
(* repository leaves open (todo!() in Runtime::execute).                   *)
(***************************************************************************)
EXTENDS RaftCore, Sequences

(* What the environment may do; each run names its choice.                 *)
CONSTANTS
    Starter,  \* the nodes whose election timer may fire
    Beater,   \* the nodes whose heartbeat timer may fire
    Faulty    \* the nodes that may crash and restart

ASSUME EnvironmentAssumption ==
    Starter \subseteq Node /\ Beater \subseteq Node /\ Faulty \subseteq Node

VARIABLES
    storage,  \* per node, the State held by state.metadata
    log,      \* per node, the terms of the entries in the persistent log
    msgs      \* every message handed to the transport so far

vars == <<coreVars, storage, log, msgs>>

State == [current_term : Nat, voted_for : NodeOrNil]

TypeOK ==
    /\ CoreTypeOK
    /\ storage \in [Node -> State]
    /\ log \in [Node -> Seq(Nat)]
    /\ msgs \in SUBSET Message

-----------------------------------------------------------------------------
(* Runtime::new on an empty directory; load_state gives the default state, *)
(* and the first offset of the log is 1.                                   *)
Init ==
    /\ role = [n \in Node |-> "Follower"]
    /\ current_term = [n \in Node |-> 0]
    /\ voted_for = [n \in Node |-> Nil]
    /\ leader_id = [n \in Node |-> Nil]
    /\ granted_votes = [n \in Node |-> {}]
    /\ last_log_index = [n \in Node |-> 0]
    /\ last_log_term = [n \in Node |-> 0]
    /\ commit_index = [n \in Node |-> 0]
    /\ last_applied = [n \in Node |-> 0]
    /\ match_index = [n \in Node |-> [p \in Node |-> 0]]
    /\ next_index = [n \in Node |-> [p \in Node |-> 1]]
    /\ effect = [n \in Node |-> NoEffect]
    /\ storage = [n \in Node |-> [current_term |-> 0, voted_for |-> Nil]]
    /\ log = [n \in Node |-> <<>>]
    /\ msgs = {}

-----------------------------------------------------------------------------
(* Events.                                                                 *)

Timeout(n) ==
    /\ \/ n \in Starter /\ handle_election_timeout(n)
       \/ n \in Beater /\ handle_heartbeat_timeout(n)
    /\ UNCHANGED <<storage, log, msgs>>

Receive(n, m) ==
    /\ \/ /\ m.type = "RequestVote"
          /\ m.candidate_id # n
          /\ handle_request_vote(n, m)
       \/ /\ m.type = "VoteResponse"
          /\ m.to = n
          /\ handle_vote_response(n, m)
       \/ /\ m.type = "Heartbeat"
          /\ m.leader_id # n
          /\ handle_heartbeat(n, m)
       \/ /\ m.type = "HeartbeatResponse"
          /\ m.to = n
          /\ handle_heartbeat_response(n, m)
    /\ UNCHANGED <<storage, log, msgs>>

(* A client write on a leader: the log grows first.                        *)
Write(n) ==
    /\ Len(log[n]) < MaxIndex
    /\ log' = [log EXCEPT ![n] = Append(@, current_term[n])]
    /\ handle_local_entry_appended(n, Len(log[n]) + 1)
    /\ UNCHANGED <<storage, msgs>>

-----------------------------------------------------------------------------
(* The executor.                                                           *)

HardState(n) ==
    [current_term |-> current_term[n], voted_for |-> voted_for[n]]

persist_hard_state(n) ==
    /\ effect[n].save
    /\ storage' = [storage EXCEPT ![n] = HardState(n)]
    /\ effect' = [effect EXCEPT ![n].save = FALSE]
    /\ UNCHANGED <<electionVars, positionVars, commitVars, progressVars,
                   log, msgs>>

(* What a save that does not complete may leave in the file: save_state    *)
(* writes the term first and the vote with separate writes, so a file with *)
(* the new term may still hold an earlier vote (module HardStateStorage).  *)
HalfSavedVoteFirst(n) ==
    {[current_term |-> storage[n].current_term, voted_for |-> v] :
            v \in Starter \cup {Nil}}
HalfSaved(n) ==
    {[current_term |-> current_term[n], voted_for |-> v] :
            v \in Starter \cup {Nil}}

(* save_state fails at one of its writes: the error ends the drive cycle,  *)
(* the effect is lost and the core keeps what it had changed in memory.    *)
persist_hard_state_fails(n) ==
    /\ effect[n].save
    /\ \/ UNCHANGED storage
       \/ /\ storage[n].current_term # 0
          /\ \E s \in HalfSaved(n) : storage' = [storage EXCEPT ![n] = s]
       \/ storage' = [storage EXCEPT ![n] = HardState(n)]
    /\ effect' = [effect EXCEPT ![n] = NoEffect]
    /\ UNCHANGED <<electionVars, positionVars, commitVars, progressVars,
                   log, msgs>>

(* The transport takes the messages, but only of an effect whose hard      *)
(* state has been saved.                                                   *)
SendBeforeSave(n) ==
    /\ effect[n].out # {}
    /\ msgs' = msgs \cup effect[n].out
    /\ effect' = [effect EXCEPT ![n].out = {}]
    /\ UNCHANGED <<electionVars, positionVars, commitVars, progressVars,
                   storage, log>>
Send(n) ==
    /\ ~effect[n].save
    /\ effect[n].out # {}
    /\ msgs' = msgs \cup effect[n].out
    /\ effect' = [effect EXCEPT ![n] = NoEffect]
    /\ UNCHANGED <<electionVars, positionVars, commitVars, progressVars,
                   storage, log>>

-----------------------------------------------------------------------------
(* Crash and restart.  Runtime::new reads the hard state back; it starts   *)
(* with an empty log position whatever the log holds, and derives only the *)
(* progress table from the log.                                            *)
Boot(n, state) ==
    /\ n \in Faulty
    /\ role' = [role EXCEPT ![n] = "Follower"]
    /\ current_term' = [current_term EXCEPT ![n] = state.current_term]
    /\ voted_for' = [voted_for EXCEPT ![n] = state.voted_for]
    /\ leader_id' = [leader_id EXCEPT ![n] = Nil]
    /\ granted_votes' = [granted_votes EXCEPT ![n] = {}]
    /\ last_log_index' = [last_log_index EXCEPT ![n] = 0]
    /\ last_log_term' = [last_log_term EXCEPT ![n] = 0]
    /\ commit_index' = [commit_index EXCEPT ![n] = 0]
    /\ last_applied' = [last_applied EXCEPT ![n] = 0]
    /\ match_index' = [match_index EXCEPT
            ![n] = [p \in Node |-> IF p = n THEN Len(log[n]) ELSE 0]]
    /\ next_index' = [next_index EXCEPT
            ![n] = [p \in Node |-> Len(log[n]) + 1]]
    /\ effect' = [effect EXCEPT ![n] = NoEffect]
    /\ UNCHANGED <<log, msgs>>

load_term(n) == [storage[n] EXCEPT !.voted_for = Nil]
load_state(n) == storage[n]

Crash(n) ==
    /\ Boot(n, load_state(n))
    /\ UNCHANGED storage

(* A file cut short in its first save, or before the last bytes of a name  *)
(* that is longer than the one before, cannot be loaded, and the node does *)
(* not come back.                                                          *)
CrashDuringSave(n) ==
    /\ effect[n].save
    /\ storage[n].current_term # 0
    /\ \E s \in HalfSaved(n) : /\ Boot(n, s)
                               /\ storage' = [storage EXCEPT ![n] = s]

-----------------------------------------------------------------------------
Step(n) ==
    \/ Timeout(n)
    \/ \E m \in msgs : Receive(n, m)
    \/ Write(n)
    \/ persist_hard_state(n)
    \/ Send(n)

Next == \E n \in Node : Step(n) \/ Crash(n) \/ CrashDuringSave(n)

Spec == Init /\ [][Next]_vars

(* The same cluster when a save may also fail with an I/O error.           *)
NextWithSaveErrors == Next \/ \E n \in Node : persist_hard_state_fails(n)

SpecWithSaveErrors == Init /\ [][NextWithSaveErrors]_vars

(* No crashes, and a cluster that keeps working: an effect is executed, as *)
(* drive awaits it before it takes another event, and a vote response that *)
(* is in the channel of a node is taken out of it, as the channel is first *)
(* in, first out (strong fairness: other events may come in between).      *)
DeliverVote(n, p) ==
    \E m \in msgs : /\ m.type = "VoteResponse"
                    /\ m.from = p
                    /\ m.term = current_term[n]
                    /\ Receive(n, m)

FairSpec ==
    /\ Init
    /\ [][\E n \in Node : Step(n)]_vars
    /\ \A n \in Node : /\ WF_vars(persist_hard_state(n))
                       /\ WF_vars(Send(n))
                       /\ \A p \in Node \ {n} : SF_vars(DeliverVote(n, p))
-----------------------------------------------------------------------------
(* Properties.                                                             *)

(* The votes that left their voter, as <<voter, term, candidate>>: the     *)
(* granted responses, and the vote a candidate gives itself when it asks   *)
(* the others for theirs.                                                  *)
Votes ==
    {<<m.from, m.term, m.to>> : m \in {r \in msgs :
            r.type = "VoteResponse" /\ r.vote_granted}}
    \cup
    {<<m.candidate_id, m.term, m.candidate_id>> : m \in {r \in msgs :
            r.type = "RequestVote"}}

(* c has the votes that make it leader of term t.                          *)
Elected(c, t) ==
    \E Q \in SUBSET Node : /\ 2 * Cardinality(Q) > Cardinality(Node)
                           /\ \A v \in Q : <<v, t, c>> \in Votes

(* Election safety: handle_vote_response never makes two nodes leaders of  *)
(* the same term, whatever messages are lost, repeated or late and however *)
(* often nodes crash between changing, saving and sending their vote.      *)
ElectionSafety ==
    \A n, p \in Node :
        /\ role[n] = "Leader"
        /\ role[p] = "Leader"
        /\ current_term[n] = current_term[p]
        => n = p

(* A node never gives its vote to two candidates of one term, itself       *)
(* included, also when it crashed and restarted in between                 *)
(* (handle_election_timeout, handle_request_vote, load_state).             *)
OneVotePerTerm ==
    \A v, w \in Votes : v[1] = w[1] /\ v[2] = w[2] => v[3] = w[3]

(* A vote that was sent is on disk: state.metadata of the voter holds that *)
(* vote or a later term, so a restart cannot forget it (Runtime::execute   *)
(* persists the hard state before it sends a vote request or response).    *)
VoteIsDurable ==
    \A v \in Votes :
        \/ storage[v[1]].current_term > v[2]
        \/ storage[v[1]] = [current_term |-> v[2], voted_for |-> v[3]]

(* The state.metadata file never goes back: its term only grows, and a     *)
(* vote recorded for a term is never replaced in that term (save_state     *)
(* with every caller of persist_hard_state).                               *)
DurableVoteIsStable ==
    [][\A n \in Node :
         /\ storage'[n].current_term >= storage[n].current_term
         /\ storage'[n].current_term = storage[n].current_term
            /\ storage[n].voted_for # Nil
            => storage'[n].voted_for = storage[n].voted_for]_vars

(* The freshness check of handle_request_vote does its job: the log        *)
(* position of a leader is at least as up to date as that of every voter   *)
(* that elected it, as long as the voter is still in that term.            *)
LeaderCoversItsVoters ==
    \A n, v \in Node :
        /\ role[n] = "Leader"
        /\ v \in granted_votes[n]
        /\ current_term[v] = current_term[n]
        => \/ last_log_term[v] < last_log_term[n]
           \/ /\ last_log_term[v] = last_log_term[n]
              /\ last_log_index[v] <= last_log_index[n]

(* The leader a node reports to clients (Error::NotLeader) did win an      *)
(* election, in a term the node has reached; the name may have travelled   *)
(* through the heartbeat response of a third node.                         *)
LeaderHintWasElected ==
    \A n \in Node : leader_id[n] # Nil =>
        \E t \in 1..MaxTerm : t <= current_term[n] /\ Elected(leader_id[n], t)

(* A candidate that has the votes of a majority becomes leader, unless it  *)
(* moves to a later term first (handle_vote_response counts every vote     *)
(* that arrives and compares the count with the majority).                 *)
VotesLeadToLeader ==
    \A c \in Node, t \in 1..MaxTerm :
        Elected(c, t) ~> (role[c] = "Leader" \/ current_term[c] > t)

-----------------------------------------------------------------------------
(* The inductive invariant behind ElectionSafety (RaftElectionProof).      *)

(* The file is never ahead of the memory, agrees with it on a vote of the  *)
(* same term, equals it when a vote is held and no save is pending, and    *)
(* holds no vote that a pending save of the same term would replace.       *)
DiskFollowsMemory(n) ==
    /\ storage[n].current_term <= current_term[n]
    /\ storage[n].current_term = current_term[n]
       /\ storage[n].voted_for # Nil
       => voted_for[n] = storage[n].voted_for
    /\ ~effect[n].save /\ voted_for[n] # Nil => storage[n] = HardState(n)
    /\ effect[n].save /\ storage[n].current_term = current_term[n]
       => storage[n].voted_for = Nil

(* A vote that waits to be sent is the vote its sender holds.              *)
PendingVoteIsHeld(n) ==
    \A m \in effect[n].out :
        /\ m.type = "VoteResponse" =>
               /\ m.from = n
               /\ m.term = current_term[n]
               /\ m.vote_granted => voted_for[n] = m.to
        /\ m.type = "RequestVote" =>
               /\ m.candidate_id = n
               /\ m.term = current_term[n]
               /\ voted_for[n] = n

(* A candidate holds its own vote and counts only votes that were sent; a  *)
(* leader has counted a majority.                                          *)
CountedVotesWereSent(n) ==
    role[n] # "Follower" =>
        /\ voted_for[n] = n
        /\ \A v \in granted_votes[n] \ {n} : <<v, current_term[n], n>> \in Votes
        /\ role[n] = "Leader" => Majority(granted_votes[n])

NodeInvariant(n) ==
    /\ DiskFollowsMemory(n)
    /\ PendingVoteIsHeld(n)
    /\ CountedVotesWereSent(n)

VoteInvariant ==
    /\ \A n \in Node : NodeInvariant(n)
    /\ VoteIsDurable
    /\ OneVotePerTerm
=============================================================================
