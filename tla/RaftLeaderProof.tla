-------------------------- MODULE RaftLeaderProof --------------------------
(***************************************************************************)
(* Theorems about the leaders of RaftElection, on top of the vote          *)
(* invariant of RaftElectionProof: the leader that a node names has won an *)
(* election, and a leader's log position covers those of its voters.       *)
(***************************************************************************)
EXTENDS RaftElectionProof

(* c has been elected in some term up to t.                                *)
WasElected(c, t) == \E u \in 1..MaxTerm : u <= t /\ Elected(c, u)

(* A message, sent or about to be, has a term within the bound and names   *)
(* as leader only nodes that were elected.                                 *)
Honest(m) ==
    /\ m.term <= MaxTerm
    /\ m.type = "Heartbeat" => m.term >= 1 /\ Elected(m.leader_id, m.term)
    /\ m.type = "HeartbeatResponse" /\ m.leader_id # Nil =>
           WasElected(m.leader_id, m.term)

(* A candidate's own vote has left it together with its request, or still  *)
(* waits in its executor.                                                  *)
OwnVote(n) ==
    role[n] # "Follower" =>
        /\ current_term[n] >= 1
        /\ \/ <<n, current_term[n], n>> \in Votes
           \/ /\ role[n] = "Candidate"
              /\ \E r \in effect[n].out : r.type = "RequestVote"

HintIsElected(n) ==
    leader_id[n] # Nil => WasElected(leader_id[n], current_term[n])

NodeHint(n) ==
    /\ current_term[n] <= MaxTerm /\ storage[n].current_term <= MaxTerm
    /\ OwnVote(n)
    /\ HintIsElected(n)
    /\ \A m \in effect[n].out : Honest(m)

HintInvariant ==
    /\ \A n \in Node : NodeHint(n)
    /\ \A m \in msgs : Honest(m)

-----------------------------------------------------------------------------
(* A granted vote answers a request that was sent by another node, and the *)
(* position in the request covers the voter's while the voter is in that   *)
(* term.                                                                   *)
VoteIsBacked(m) ==
    m.type = "VoteResponse" /\ m.vote_granted =>
        /\ m.from # m.to
        /\ \E r \in msgs :
              /\ r.type = "RequestVote"
              /\ r.candidate_id = m.to
              /\ r.term = m.term
              /\ current_term[m.from] = m.term =>
                    UpToDate(r.last_log_term, r.last_log_index,
                             last_log_term[m.from], last_log_index[m.from])

(* A candidate or leader is at least where it said when it asked for votes *)
(* in this term.                                                           *)
RequestIsCovered(n, r) ==
    /\ role[n] # "Follower"
    /\ r.type = "RequestVote"
    /\ r.candidate_id = n
    /\ r.term = current_term[n]
    => UpToDate(last_log_term[n], last_log_index[n],
                r.last_log_term, r.last_log_index)

NodeCover(n) ==
    /\ last_log_term[n] <= current_term[n]
    /\ last_log_index[n] <= Len(log[n])
    /\ \A r \in msgs \cup effect[n].out : RequestIsCovered(n, r)
    /\ \A m \in effect[n].out : VoteIsBacked(m)

CoverInvariant ==
    /\ \A n \in Node : NodeCover(n)
    /\ \A m \in msgs : VoteIsBacked(m)

-----------------------------------------------------------------------------
(* Facts about all steps.                                                  *)

(* The state of a node that its own handlers and its executor change.      *)
Keeps(p) ==
    /\ role'[p] = role[p]
    /\ current_term'[p] = current_term[p]
    /\ leader_id'[p] = leader_id[p]
    /\ last_log_index'[p] = last_log_index[p]
    /\ last_log_term'[p] = last_log_term[p]
    /\ effect'[p] = effect[p]
    /\ storage'[p] = storage[p]
    /\ log'[p] = log[p]

(* The steps of node n.                                                    *)
Acts(n) == Step(n) \/ Crash(n) \/ CrashDuringSave(n)

(* The step of one node leaves the other nodes alone, and messages that    *)
(* were sent stay sent.                                                    *)
LEMMA OthersKeep ==
    ASSUME TypeOK, NEW n \in Node, Acts(n)
    PROVE  /\ msgs \subseteq msgs'
           /\ \A p \in Node \ {n} : Keeps(p)
<1> USE DEF TypeOK, CoreTypeOK, electionVars, positionVars, commitVars,
            progressVars
<1>1. CASE Timeout(n)
  BY <1>1 DEF Timeout, handle_election_timeout, handle_heartbeat_timeout,
              Emit, Keeps
<1>2. ASSUME NEW m \in msgs, Receive(n, m)
      PROVE  /\ msgs \subseteq msgs'
             /\ \A p \in Node \ {n} : Keeps(p)
  <2>0. UNCHANGED <<storage, log, msgs>>
    BY <1>2 DEF Receive
  <2>1. CASE handle_request_vote(n, m)
    BY <2>0, <2>1, SMTT(60) DEF handle_request_vote, Emit, Keeps
  <2>2. CASE handle_vote_response(n, m)
    BY <2>0, <2>2, SMTT(60) DEF handle_vote_response, StepDown, Emit, Keeps
  <2>3. CASE handle_heartbeat(n, m)
    <3>1. /\ \A p \in Node \ {n} : effect'[p] = effect[p]
          /\ UNCHANGED positionVars
      <4>1. \E o : Emit(n, FALSE, o)
        BY <2>3 DEF handle_heartbeat
      <4>2. \A p \in Node \ {n} : effect'[p] = effect[p]
        BY <4>1 DEF Emit
      <4> QED BY <2>3, <4>2 DEF handle_heartbeat
    <3>2. CASE UNCHANGED electionVars
      BY <2>0, <3>1, <3>2 DEF Keeps
    <3>3. CASE /\ current_term' = [current_term EXCEPT ![n] = m.term]
               /\ role' = [role EXCEPT ![n] = "Follower"]
               /\ leader_id' = [leader_id EXCEPT ![n] = m.leader_id]
      <4>1. \A p \in Node \ {n} : /\ role'[p] = role[p]
                                  /\ current_term'[p] = current_term[p]
                                  /\ leader_id'[p] = leader_id[p]
        BY <3>3
      <4> QED BY <2>0, <3>1, <4>1 DEF Keeps
    <3> QED BY <2>3, <3>2, <3>3 DEF handle_heartbeat
  <2>4. CASE handle_heartbeat_response(n, m)
    BY <2>0, <2>4, SMTT(60) DEF handle_heartbeat_response, StepDown, Keeps
  <2> QED BY <1>2, <2>1, <2>2, <2>3, <2>4 DEF Receive
<1>3. CASE Write(n)
  BY <1>3 DEF Write, handle_local_entry_appended, Keeps
<1>4. CASE persist_hard_state(n)
  BY <1>4 DEF persist_hard_state, Keeps
<1>5. CASE Send(n)
  BY <1>5 DEF Send, Keeps
<1>6. CASE Crash(n)
  BY <1>6 DEF Crash, Boot, Keeps
<1>7. CASE CrashDuringSave(n)
  <2>1. PICK s \in HalfSaved(n) : /\ Boot(n, s)
                                  /\ storage' = [storage EXCEPT ![n] = s]
    BY <1>7 DEF CrashDuringSave
  <2> QED BY <2>1 DEF Boot, Keeps
<1> QED
  BY <1>1, <1>2, <1>3, <1>4, <1>5, <1>6, <1>7 DEF Acts, Step

(* Elections are never undone: the votes that decided them stay sent.      *)
LEMMA ElectedStays ==
    ASSUME msgs \subseteq msgs'
    PROVE  /\ Votes \subseteq Votes'
           /\ \A c, t : Elected(c, t) => Elected(c, t)'
           /\ \A c, t : WasElected(c, t) => WasElected(c, t)'
<1>1. Votes \subseteq Votes'
  BY DEF Votes
<1>2. \A c, t : Elected(c, t) => Elected(c, t)'
  BY <1>1 DEF Elected
<1>3. \A c, t : WasElected(c, t) => WasElected(c, t)'
  BY <1>2 DEF WasElected
<1> QED BY <1>1, <1>2, <1>3

(* What was honest stays honest.                                           *)
LEMMA HonestStays ==
    ASSUME msgs \subseteq msgs', NEW m, Honest(m)
    PROVE  Honest(m)'
BY ElectedStays DEF Honest

(* A majority of counted votes that were all sent is an election.          *)
LEMMA CountedIsElected ==
    ASSUME NEW c \in Node, NEW t, NEW S \in SUBSET Node, Majority(S),
           \A v \in S : <<v, t, c>> \in Votes
    PROVE  Elected(c, t)
<1> DEFINE N == Cardinality(Node)
           a == Cardinality(S)
<1>1. N \in Nat /\ a \in Nat /\ a > N \div 2
  BY NodeAssumption, FS_CardinalityType, FS_Subset DEF Majority
<1>2. 2 * a > N
  <2> HIDE DEF N, a
  <2> QED BY <1>1
<1> QED BY <1>2 DEF Elected

-----------------------------------------------------------------------------
(* The leader hints.                                                       *)

(* A step of node n keeps the invariant if it keeps the part of n and      *)
(* sends only what was pending.                                            *)
LEMMA HintOfOthers ==
    ASSUME TypeOK, HintInvariant, NEW n \in Node, Acts(n), NodeHint(n)',
           msgs' \subseteq msgs \cup effect[n].out
    PROVE  HintInvariant'
<1>1. msgs \subseteq msgs' /\ \A p \in Node \ {n} : Keeps(p)
  BY OthersKeep
<1>2. ASSUME NEW p \in Node \ {n}
      PROVE  NodeHint(p)'
  <2>1. Keeps(p) /\ NodeHint(p)
    BY <1>1 DEF HintInvariant
  <2>2. OwnVote(p)'
    BY <1>1, <2>1, ElectedStays DEF NodeHint, OwnVote, Keeps
  <2>3. HintIsElected(p)'
    BY <1>1, <2>1, ElectedStays DEF NodeHint, HintIsElected, Keeps
  <2>4. \A m \in effect'[p].out : Honest(m)'
    BY <1>1, <2>1, HonestStays DEF NodeHint, Keeps
  <2> QED
    BY <2>1, <2>2, <2>3, <2>4 DEF NodeHint, Keeps
<1>3. \A m \in msgs' : Honest(m)'
  BY <1>1, HonestStays DEF HintInvariant, NodeHint
<1> QED BY <1>2, <1>3 DEF HintInvariant

(* An idle node that is not a follower has sent its own vote.              *)
LEMMA IdleVote ==
    ASSUME NEW n \in Node, OwnVote(n), Idle(n), role[n] # "Follower"
    PROVE  current_term[n] >= 1 /\ <<n, current_term[n], n>> \in Votes
BY DEF OwnVote, Idle, NoEffect

(* A leader with nothing pending has been elected in its term.             *)
LEMMA LeaderIsElected ==
    ASSUME TypeOK, VoteInvariant, HintInvariant, NEW n \in Node, Idle(n),
           role[n] = "Leader"
    PROVE  current_term[n] >= 1 /\ Elected(n, current_term[n])
<1>1. current_term[n] >= 1 /\ <<n, current_term[n], n>> \in Votes
  BY IdleVote DEF HintInvariant, NodeHint
<1>2. CountedVotesWereSent(n) /\ granted_votes[n] \in SUBSET Node
  BY DEF VoteInvariant, NodeInvariant, TypeOK, CoreTypeOK
<1>3. /\ Majority(granted_votes[n])
      /\ \A v \in granted_votes[n] : <<v, current_term[n], n>> \in Votes
  BY <1>1, <1>2 DEF CountedVotesWereSent
<1> QED BY <1>1, <1>2, <1>3, CountedIsElected

(* The heartbeat of an elected leader is honest.                           *)
LEMMA HeartbeatIsHonest ==
    ASSUME NEW n \in Node, current_term[n] >= 1, current_term[n] <= MaxTerm,
           Elected(n, current_term[n])
    PROVE  Honest(HeartbeatOf(n))
BY DEF Honest, HeartbeatOf

(* A candidate forgets the leader it knew.                                 *)
LEMMA ElectionTimeoutHint ==
    ASSUME TypeOK, HintInvariant, NEW n \in Node, handle_election_timeout(n),
           UNCHANGED <<storage, msgs>>
    PROVE  NodeHint(n)'
<1> DEFINE req == [type |-> "RequestVote", term |-> current_term[n] + 1,
                   candidate_id |-> n,
                   last_log_index |-> last_log_index[n],
                   last_log_term |-> last_log_term[n]]
<1>1. /\ current_term'[n] = current_term[n] + 1
      /\ role'[n] = "Candidate" /\ leader_id'[n] = leader_id[n]
      /\ effect'[n].out = {req} /\ current_term[n] < MaxTerm
  BY DEF handle_election_timeout, Emit, TypeOK, CoreTypeOK
<1>2. current_term[n] \in Nat /\ NodeHint(n) /\ MaxTerm \in Nat
  BY BoundAssumption DEF TypeOK, CoreTypeOK, HintInvariant
<1>3. OwnVote(n)'
  BY <1>1, <1>2 DEF OwnVote
<1>4. HintIsElected(n)'
  BY <1>1, <1>2, ElectedStays DEF NodeHint, HintIsElected, WasElected
<1>5. \A r \in effect'[n].out : Honest(r)'
  <2>1. Honest(req)
    BY <1>1, <1>2 DEF Honest
  <2> HIDE DEF req
  <2> QED BY <1>1, <2>1, HonestStays
<1> QED BY <1>1, <1>2, <1>3, <1>4, <1>5 DEF NodeHint

(* Entering a newer term as a follower, with an honest leader name.        *)
LEMMA NewTermHint ==
    ASSUME TypeOK, HintInvariant, NEW n \in Node, UNCHANGED <<storage, msgs>>,
           current_term'[n] <= MaxTerm, role'[n] = "Follower",
           leader_id'[n] # Nil => WasElected(leader_id'[n], current_term'[n]),
           \A m \in effect'[n].out : Honest(m)'
    PROVE  NodeHint(n)'
BY ElectedStays DEF NodeHint, OwnVote, HintIsElected, HintInvariant

(* A vote request sets no leader hint.                                     *)
LEMMA RequestVoteHint ==
    ASSUME TypeOK, HintInvariant, NEW n \in Node, NEW m \in msgs,
           m \in VoteRequest, handle_request_vote(n, m),
           UNCHANGED <<storage, msgs>>
    PROVE  NodeHint(n)'
<1>0. /\ m.term \in Nat /\ current_term[n] \in Nat /\ NodeHint(n)
      /\ Honest(m) /\ MaxTerm \in Nat
  BY BoundAssumption DEF VoteRequest, TypeOK, CoreTypeOK, HintInvariant
<1>1. \A r \in effect'[n].out : /\ r.type = "VoteResponse"
                                 /\ r.term = current_term'[n]
  BY DEF handle_request_vote, Emit, TypeOK, CoreTypeOK
<1>2. ASSUME current_term'[n] <= MaxTerm
      PROVE  \A r \in effect'[n].out : Honest(r)'
  BY <1>1, <1>2 DEF Honest
<1>3. CASE m.term > current_term[n]
  <2>1. /\ current_term'[n] = m.term /\ role'[n] = "Follower"
        /\ leader_id'[n] = Nil
    BY <1>3 DEF handle_request_vote, TypeOK, CoreTypeOK
  <2>2. current_term'[n] <= MaxTerm
    BY <1>0, <2>1 DEF Honest
  <2> QED BY <1>2, <2>1, <2>2, NewTermHint
<1>4. CASE ~(m.term > current_term[n])
  <2>1. /\ current_term'[n] = current_term[n] /\ role'[n] = role[n]
        /\ leader_id'[n] = leader_id[n] /\ Idle(n)
    BY <1>4 DEF handle_request_vote, TypeOK, CoreTypeOK
  <2>2. OwnVote(n)'
    BY <1>0, <2>1, IdleVote, ElectedStays DEF NodeHint, OwnVote
  <2>3. HintIsElected(n)'
    BY <1>0, <2>1, ElectedStays DEF NodeHint, HintIsElected
  <2> QED BY <1>0, <1>2, <2>1, <2>2, <2>3 DEF NodeHint
<1> QED BY <1>3, <1>4

(* A candidate that becomes leader of its term has a majority, and the     *)
(* heartbeat it sends says no more than that.                              *)
LEMMA VoteResponseHint ==
    ASSUME TypeOK, VoteInvariant, HintInvariant, NEW n \in Node,
           NEW m \in msgs, m \in VoteResponse, m.to = n,
           handle_vote_response(n, m), UNCHANGED <<storage, msgs>>
    PROVE  NodeHint(n)'
<1>0. /\ m.term \in Nat /\ current_term[n] \in Nat /\ NodeHint(n)
      /\ Honest(m) /\ MaxTerm \in Nat /\ Idle(n) /\ m.from \in Node
      /\ m.type = "VoteResponse" /\ granted_votes[n] \in SUBSET Node
  BY BoundAssumption DEF VoteResponse, TypeOK, CoreTypeOK, HintInvariant,
                         handle_vote_response
<1>1. CASE m.term > current_term[n] /\ StepDown(n, m.term, Nil)
           /\ UNCHANGED effect
  <2>1. /\ current_term'[n] = m.term /\ role'[n] = "Follower"
        /\ leader_id'[n] = Nil /\ effect'[n].out = {}
    BY <1>0, <1>1 DEF StepDown, TypeOK, CoreTypeOK, Idle, NoEffect
  <2> QED BY <1>0, <2>1, NewTermHint DEF Honest
<1>2. CASE IsNewVote(n, m) /\ UNCHANGED <<role, effect, current_term, leader_id>>
  <2>1. OwnVote(n)' /\ HintIsElected(n)' /\ \A r \in effect'[n].out : Honest(r)'
    BY <1>0, <1>2, ElectedStays, HonestStays
       DEF NodeHint, OwnVote, HintIsElected
  <2> QED BY <1>0, <1>2, <2>1 DEF NodeHint
<1>3. CASE /\ IsNewVote(n, m) /\ Majority(granted_votes[n] \cup {m.from})
           /\ role' = [role EXCEPT ![n] = "Leader"]
           /\ Emit(n, FALSE, {HeartbeatOf(n)})
           /\ UNCHANGED <<current_term, leader_id>>
  <2>1. current_term[n] >= 1 /\ <<n, current_term[n], n>> \in Votes
    BY <1>0, <1>3, IdleVote DEF NodeHint, IsNewVote
  <2>2. <<m.from, current_term[n], n>> \in Votes
    BY <1>0, <1>3, VoteMembership DEF IsNewVote
  <2>3. \A v \in granted_votes[n] \cup {m.from} :
            <<v, current_term[n], n>> \in Votes
    BY <1>3, <2>1, <2>2 DEF VoteInvariant, NodeInvariant,
                            CountedVotesWereSent, IsNewVote
  <2>4. Elected(n, current_term[n])
    BY <1>0, <1>3, <2>3, CountedIsElected
  <2>6. effect'[n].out = {HeartbeatOf(n)}
    BY <1>3 DEF Emit, TypeOK, CoreTypeOK
  <2>7. OwnVote(n)' /\ HintIsElected(n)'
    BY <1>0, <1>3, <2>1, ElectedStays DEF NodeHint, OwnVote, HintIsElected
  <2>8. \A r \in effect'[n].out : Honest(r)'
    <3>1. Honest(HeartbeatOf(n))
      BY <1>0, <2>1, <2>4, HeartbeatIsHonest DEF NodeHint
    <3> QED BY <2>6, <3>1, HonestStays
  <2> QED BY <1>0, <1>3, <2>7, <2>8 DEF NodeHint
<1> QED
  BY <1>1, <1>2, <1>3 DEF handle_vote_response

(* The heartbeat a timer sends comes from a leader that was elected.       *)
LEMMA HeartbeatTimeoutHint ==
    ASSUME TypeOK, VoteInvariant, HintInvariant, NEW n \in Node,
           handle_heartbeat_timeout(n), UNCHANGED <<storage, msgs>>
    PROVE  NodeHint(n)'
<1>1. /\ Idle(n) /\ role[n] = "Leader" /\ UNCHANGED electionVars
      /\ effect'[n].out = {HeartbeatOf(n)}
  BY DEF handle_heartbeat_timeout, Emit, TypeOK, CoreTypeOK
<1>2. NodeHint(n)
  BY DEF HintInvariant
<1>3. Honest(HeartbeatOf(n))
  BY <1>1, <1>2, LeaderIsElected, HeartbeatIsHonest DEF NodeHint
<1>4. \A r \in effect'[n].out : Honest(r)'
  BY <1>1, <1>3, HonestStays
<1>5. OwnVote(n)' /\ HintIsElected(n)'
  BY <1>1, <1>2, IdleVote, ElectedStays
     DEF NodeHint, OwnVote, HintIsElected, electionVars
<1> QED BY <1>1, <1>2, <1>4, <1>5 DEF NodeHint, electionVars

(* A follower takes over the leader that a heartbeat names, and that one   *)
(* was elected.                                                            *)
LEMMA HeartbeatHint ==
    ASSUME TypeOK, HintInvariant, NEW n \in Node, NEW m \in msgs,
           m \in HeartbeatRequest, handle_heartbeat(n, m),
           UNCHANGED <<storage, msgs>>
    PROVE  NodeHint(n)'
<1>0. /\ m.term \in Nat /\ current_term[n] \in Nat /\ NodeHint(n)
      /\ Honest(m) /\ MaxTerm \in Nat /\ Idle(n) /\ m.type = "Heartbeat"
  BY BoundAssumption DEF HeartbeatRequest, TypeOK, CoreTypeOK, HintInvariant,
                         handle_heartbeat
<1>1. CASE m.term < current_term[n]
  <2>1. /\ UNCHANGED electionVars
        /\ \A r \in effect'[n].out : /\ r.type = "HeartbeatResponse"
                                     /\ r.term = current_term[n]
                                     /\ r.leader_id = leader_id[n]
    BY <1>0, <1>1 DEF handle_heartbeat, Emit, HeartbeatResponseOf, TypeOK,
                      CoreTypeOK
  <2>2. \A r \in effect'[n].out : Honest(r)
    BY <1>0, <2>1 DEF Honest, NodeHint, HintIsElected
  <2>3. \A r \in effect'[n].out : Honest(r)'
    BY <2>2, HonestStays
  <2>4. OwnVote(n)' /\ HintIsElected(n)'
    BY <1>0, <2>1, IdleVote, ElectedStays
       DEF NodeHint, OwnVote, HintIsElected, electionVars
  <2> QED BY <1>0, <2>1, <2>3, <2>4 DEF NodeHint, electionVars
<1>2. CASE m.term >= current_term[n]
  <2>1. /\ current_term'[n] = m.term /\ role'[n] = "Follower"
        /\ leader_id'[n] = m.leader_id
        /\ \A r \in effect'[n].out : /\ r.type = "HeartbeatResponse"
                                     /\ r.term = m.term
                                     /\ r.leader_id = m.leader_id
    BY <1>0, <1>2 DEF handle_heartbeat, Emit, HeartbeatResponseOf, TypeOK,
                      CoreTypeOK
  <2>2. WasElected(m.leader_id, m.term)
    BY <1>0 DEF Honest, WasElected
  <2>3. \A r \in effect'[n].out : Honest(r)
    BY <1>0, <2>1, <2>2 DEF Honest
  <2>4. \A r \in effect'[n].out : Honest(r)'
    BY <2>3, HonestStays
  <2> QED BY <1>0, <2>1, <2>2, <2>4, NewTermHint DEF Honest
<1> QED BY <1>0, <1>1, <1>2

(* A leader that steps down takes over the hint of the answer.             *)
LEMMA HeartbeatResponseHint ==
    ASSUME TypeOK, HintInvariant, NEW n \in Node, NEW m \in msgs,
           m \in HeartbeatResponse, handle_heartbeat_response(n, m),
           UNCHANGED <<storage, msgs>>
    PROVE  NodeHint(n)'
<1>0. /\ m.term \in Nat /\ current_term[n] \in Nat /\ NodeHint(n)
      /\ Honest(m) /\ Idle(n) /\ m.type = "HeartbeatResponse"
      /\ UNCHANGED effect
  BY DEF HeartbeatResponse, TypeOK, CoreTypeOK, HintInvariant,
         handle_heartbeat_response
<1>1. CASE m.term > current_term[n] /\ StepDown(n, m.term, m.leader_id)
  <2>1. /\ current_term'[n] = m.term /\ role'[n] = "Follower"
        /\ leader_id'[n] = m.leader_id /\ effect'[n].out = {}
    BY <1>0, <1>1 DEF StepDown, TypeOK, CoreTypeOK, Idle, NoEffect
  <2> QED BY <1>0, <2>1, NewTermHint DEF Honest
<1>2. CASE UNCHANGED electionVars
  <2>1. OwnVote(n)' /\ HintIsElected(n)' /\ \A r \in effect'[n].out : Honest(r)'
    BY <1>0, <1>2, ElectedStays, HonestStays
       DEF NodeHint, OwnVote, HintIsElected, electionVars
  <2> QED BY <1>0, <1>2, <2>1 DEF NodeHint, electionVars
<1> QED BY <1>1, <1>2 DEF handle_heartbeat_response

(* A node that starts has no hint.                                         *)
LEMMA BootHint ==
    ASSUME TypeOK, HintInvariant, NEW n \in Node, NEW s \in State,
           Boot(n, s), storage' = [storage EXCEPT ![n] = s],
           s.current_term <= MaxTerm
    PROVE  NodeHint(n)'
<1>1. /\ current_term'[n] = s.current_term /\ role'[n] = "Follower"
      /\ leader_id'[n] = Nil /\ effect'[n].out = {} /\ storage'[n] = s
  BY DEF Boot, TypeOK, CoreTypeOK, NoEffect
<1> QED BY <1>1 DEF NodeHint, OwnVote, HintIsElected

(* Executing an effect changes no hint.                                    *)
LEMMA ExecutorHint ==
    ASSUME TypeOK, VoteInvariant, HintInvariant, NEW n \in Node,
           persist_hard_state(n) \/ Send(n)
    PROVE  NodeHint(n)'
<1>0. NodeHint(n) /\ current_term[n] \in Nat
  BY DEF HintInvariant, TypeOK, CoreTypeOK
<1>1. CASE persist_hard_state(n)
  <2>1. /\ UNCHANGED <<electionVars, msgs>>
        /\ effect'[n].out = effect[n].out
        /\ storage'[n].current_term = current_term[n]
    BY <1>1 DEF persist_hard_state, TypeOK, CoreTypeOK, HardState, Effect
  <2>2. \A r \in effect'[n].out : Honest(r)'
    BY <1>0, <2>1, HonestStays DEF NodeHint
  <2>3. OwnVote(n)' /\ HintIsElected(n)'
    BY <1>0, <2>1, ElectedStays
       DEF NodeHint, OwnVote, HintIsElected, electionVars
  <2> QED BY <1>0, <2>1, <2>2, <2>3 DEF NodeHint, electionVars
<1>2. CASE Send(n)
  <2>1. /\ UNCHANGED <<electionVars, storage>> /\ msgs \subseteq msgs'
        /\ effect[n].out \subseteq msgs' /\ effect'[n].out = {}
    BY <1>2 DEF Send, TypeOK, CoreTypeOK, NoEffect
  <2>2. HintIsElected(n)'
    BY <1>0, <2>1, ElectedStays DEF NodeHint, HintIsElected, electionVars
  <2>3. ASSUME NEW r \in effect[n].out, r.type = "RequestVote"
        PROVE  <<n, current_term[n], n>> \in Votes'
    <3>1. r.candidate_id = n /\ r.term = current_term[n]
      BY <2>3 DEF VoteInvariant, NodeInvariant, PendingVoteIsHeld
    <3> QED BY <2>1, <2>3, <3>1 DEF Votes
  <2>4. OwnVote(n)'
    BY <1>0, <2>1, <2>3, ElectedStays DEF NodeHint, OwnVote, electionVars
  <2> QED BY <1>0, <2>1, <2>2, <2>4 DEF NodeHint, electionVars
<1> QED BY <1>1, <1>2

(* Nor does a client write.                                                *)
LEMMA WriteHint ==
    ASSUME TypeOK, HintInvariant, NEW n \in Node, Write(n)
    PROVE  NodeHint(n)'
<1>1. UNCHANGED <<electionVars, effect, storage, msgs>> /\ NodeHint(n)
  BY DEF Write, handle_local_entry_appended, HintInvariant
<1>2. OwnVote(n)' /\ HintIsElected(n)' /\ \A r \in effect'[n].out : Honest(r)'
  BY <1>1, ElectedStays, HonestStays
     DEF NodeHint, OwnVote, HintIsElected, electionVars
<1> QED BY <1>1, <1>2 DEF NodeHint, electionVars

(* No node has a hint in the initial state.                                *)
LEMMA InitHint == Init => HintInvariant
<1> SUFFICES ASSUME Init
             PROVE  HintInvariant
  OBVIOUS
<1> QED BY BoundAssumption DEF Init, HintInvariant, NodeHint, OwnVote,
                               HintIsElected, NoEffect

(* Every step preserves the hint invariant.                                *)
LEMMA NextHint ==
    TypeOK /\ VoteInvariant /\ HintInvariant /\ [Next]_vars => HintInvariant'
<1> SUFFICES ASSUME TypeOK, VoteInvariant, HintInvariant, [Next]_vars
             PROVE  HintInvariant'
  OBVIOUS
<1>1. CASE UNCHANGED vars
  <2>1. /\ UNCHANGED <<role, current_term, leader_id, effect, storage, msgs>>
        /\ msgs \subseteq msgs'
    BY <1>1 DEF vars, coreVars, electionVars
  <2>2. \A n \in Node : OwnVote(n)' /\ HintIsElected(n)'
    BY <2>1, ElectedStays
       DEF HintInvariant, NodeHint, OwnVote, HintIsElected
  <2>3. /\ \A n \in Node : \A m \in effect'[n].out : Honest(m)'
        /\ \A m \in msgs' : Honest(m)'
    BY <2>1, HonestStays DEF HintInvariant, NodeHint
  <2> QED BY <2>1, <2>2, <2>3 DEF HintInvariant, NodeHint
<1>2. ASSUME NEW n \in Node, Acts(n)
      PROVE  HintInvariant'
  <2> SUFFICES NodeHint(n)' /\ msgs' \subseteq msgs \cup effect[n].out
    BY <1>2, HintOfOthers
  <2>1. CASE Timeout(n)
    BY <2>1, ElectionTimeoutHint, HeartbeatTimeoutHint DEF Timeout
  <2>2. ASSUME NEW m \in msgs, Receive(n, m)
        PROVE  NodeHint(n)' /\ msgs' \subseteq msgs \cup effect[n].out
    <3>1. m \in Message
      BY DEF TypeOK
    <3> QED
      BY <2>2, <3>1, MessageKinds, RequestVoteHint, VoteResponseHint,
         HeartbeatHint, HeartbeatResponseHint DEF Receive
  <2>3. CASE Write(n)
    BY <2>3, WriteHint DEF Write
  <2>4. CASE persist_hard_state(n)
    BY <2>4, ExecutorHint DEF persist_hard_state
  <2>5. CASE Send(n)
    BY <2>5, ExecutorHint DEF Send
  <2>6. CASE Crash(n)
    <3>1. storage' = [storage EXCEPT ![n] = storage[n]]
      BY <2>6 DEF Crash, TypeOK
    <3>2. storage[n].current_term <= MaxTerm
      BY DEF HintInvariant, NodeHint
    <3> QED BY <2>6, <3>1, <3>2, StateType, BootHint
            DEF Crash, load_state, Boot
  <2>7. CASE CrashDuringSave(n)
    <3>1. PICK s \in HalfSaved(n) : /\ Boot(n, s)
                                    /\ storage' = [storage EXCEPT ![n] = s]
      BY <2>7 DEF CrashDuringSave
    <3>2. s \in State /\ s.current_term <= MaxTerm
      BY StateType DEF HalfSaved, HintInvariant, NodeHint
    <3> QED BY <3>1, <3>2, BootHint DEF Boot
  <2> QED
    BY <1>2, <2>1, <2>2, <2>3, <2>4, <2>5, <2>6, <2>7 DEF Acts, Step
<1> QED BY <1>1, <1>2 DEF Next, Acts

(* The leader a node names has won an election in a term the node has      *)
(* reached, also when the name came with the heartbeat response of a third *)
(* node (handle_heartbeat, handle_heartbeat_response, Error::NotLeader).   *)
THEOREM HintsAreElected == Spec => []LeaderHintWasElected
<1>1. HintInvariant => LeaderHintWasElected
  BY DEF HintInvariant, NodeHint, HintIsElected, WasElected,
         LeaderHintWasElected
<1> QED BY <1>1, InitHint, NextHint, VotesCorrect, PTL DEF Spec

-----------------------------------------------------------------------------
(* The positions of leaders and their voters.                              *)

(* A node is not behind a vote that it sent.                               *)
LEMMA SentVoteTerm ==
    ASSUME TypeOK, VoteInvariant, NEW n \in Node, NEW t \in Nat, NEW c,
           <<n, t, c>> \in Votes
    PROVE  t <= current_term[n]
<1>1. \/ storage[n].current_term > t
      \/ storage[n] = [current_term |-> t, voted_for |-> c]
  BY DEF VoteInvariant, VoteIsDurable
<1>2. /\ current_term[n] \in Nat /\ storage[n].current_term \in Nat
      /\ storage[n].current_term <= current_term[n]
  BY DEF TypeOK, CoreTypeOK, State, VoteInvariant, NodeInvariant,
         DiskFollowsMemory
<1> QED BY <1>1, <1>2

(* A node is in the term of every vote that it sent or is about to send,   *)
(* or in a later one; in that term it still holds the vote.                *)
LEMMA VoteIsHeld ==
    ASSUME TypeOK, VoteInvariant, NEW n \in Node,
           NEW m \in msgs \cup effect[n].out
    PROVE  /\ m \in Message
           /\ m.type = "RequestVote" /\ m.candidate_id = n =>
                 m.term \in Nat /\ m.term <= current_term[n]
           /\ m.type = "VoteResponse" /\ m.vote_granted /\ m.from = n =>
                 /\ m.term \in Nat /\ m.term <= current_term[n]
                 /\ m.term = current_term[n] => voted_for[n] = m.to
<1>1. m \in Message
  BY DEF TypeOK, CoreTypeOK, Effect
<1>2. /\ storage[n].current_term \in Nat /\ current_term[n] \in Nat
      /\ storage[n].current_term <= current_term[n]
  BY DEF TypeOK, CoreTypeOK, State, VoteInvariant, NodeInvariant,
         DiskFollowsMemory
<1>3. ASSUME m.type = "RequestVote", m.candidate_id = n
      PROVE  m.term \in Nat /\ m.term <= current_term[n]
  <2>1. m.term \in Nat
    BY <1>1, <1>3, MessageKinds DEF VoteRequest
  <2>2. CASE m \in effect[n].out
    BY <1>2, <1>3, <2>2 DEF VoteInvariant, NodeInvariant, PendingVoteIsHeld
  <2>3. CASE m \in msgs
    <3>1. <<n, m.term, n>> \in Votes
      BY <1>3, <2>3, VoteMembership
    <3> QED BY <1>2, <2>1, <3>1, SentVoteTerm
  <2> QED BY <2>1, <2>2, <2>3
<1>4. ASSUME m.type = "VoteResponse", m.vote_granted, m.from = n
      PROVE  /\ m.term \in Nat /\ m.term <= current_term[n]
             /\ m.term = current_term[n] => voted_for[n] = m.to
  <2>1. m.term \in Nat /\ m.to \in Node
    BY <1>1, <1>4, MessageKinds DEF VoteResponse
  <2>2. CASE m \in effect[n].out
    BY <1>2, <1>4, <2>2 DEF VoteInvariant, NodeInvariant, PendingVoteIsHeld
  <2>3. CASE m \in msgs
    <3>1. <<n, m.term, m.to>> \in Votes
      BY <1>4, <2>3, VoteMembership
    <3> QED BY <1>2, <2>1, <3>1, SentVoteTerm, SentVoteBinds
  <2> QED BY <2>1, <2>2, <2>3
<1> QED BY <1>1, <1>3, <1>4

(* How a step may move a node: to a later term or nowhere, back to an      *)
(* empty position as a follower, or forward in its log as a leader.        *)
Stays(n) ==
    /\ last_log_index'[n] = last_log_index[n]
    /\ last_log_term'[n] = last_log_term[n]
    /\ current_term'[n] >= current_term[n]
    /\ current_term'[n] = current_term[n] /\ role'[n] # "Follower"
       => role[n] # "Follower"

Forgets(n) ==
    /\ last_log_index'[n] = 0 /\ last_log_term'[n] = 0
    /\ role'[n] = "Follower"

Grows(n) ==
    /\ role[n] = "Leader"
    /\ current_term'[n] = current_term[n]
    /\ UpToDate(last_log_term'[n], last_log_index'[n],
                last_log_term[n], last_log_index[n])

(* The order on positions is transitive, and everything covers the empty   *)
(* log.                                                                    *)
LEMMA UpToDateOrder ==
    ASSUME NEW a \in Nat, NEW i \in Nat, NEW b \in Nat, NEW j \in Nat,
           NEW c \in Nat, NEW k \in Nat
    PROVE  /\ UpToDate(a, i, b, j) /\ UpToDate(b, j, c, k)
                => UpToDate(a, i, c, k)
           /\ UpToDate(a, i, 0, 0)
           /\ UpToDate(a, i, a, i)
BY DEF UpToDate

(* What a step of n does to a vote that was already given.                 *)
LEMMA BackingStays ==
    ASSUME TypeOK, TypeOK', VoteInvariant, NEW n \in Node, Acts(n),
           Stays(n) \/ Forgets(n) \/ Grows(n),
           NEW q \in Node, NEW m \in msgs \cup effect[q].out, VoteIsBacked(m)
    PROVE  VoteIsBacked(m)'
<1> SUFFICES ASSUME m.type = "VoteResponse", m.vote_granted
             PROVE  VoteIsBacked(m)'
  BY DEF VoteIsBacked
<1>1. m \in VoteResponse
  BY MessageKinds, VoteIsHeld
<1>2. m.from \in Node /\ m.to \in Node /\ m.term \in Nat
  BY <1>1 DEF VoteResponse
<1>3. m \in msgs \cup effect[m.from].out
  BY DEF VoteInvariant, NodeInvariant, PendingVoteIsHeld
<1>4. msgs \subseteq msgs' /\ \A p \in Node \ {n} : Keeps(p)
  BY OthersKeep
<1>5. PICK r \in msgs :
        /\ r.type = "RequestVote" /\ r.candidate_id = m.to /\ r.term = m.term
        /\ current_term[m.from] = m.term =>
              UpToDate(r.last_log_term, r.last_log_index,
                       last_log_term[m.from], last_log_index[m.from])
  BY DEF VoteIsBacked
<1>6. r.last_log_term \in Nat /\ r.last_log_index \in Nat
  BY <1>5, MessageKinds DEF TypeOK, VoteRequest
<1>7. current_term'[m.from] = m.term =>
          UpToDate(r.last_log_term, r.last_log_index,
                   last_log_term'[m.from], last_log_index'[m.from])
  <2>1. CASE m.from # n
    BY <1>2, <1>4, <1>5, <2>1 DEF Keeps
  <2>2. CASE m.from = n /\ Stays(n)
    <3>1. m.term <= current_term[n] /\ current_term[n] \in Nat
          /\ current_term'[n] \in Nat
      BY <1>2, <1>3, <2>2, VoteIsHeld DEF TypeOK, CoreTypeOK
    <3> QED BY <1>2, <1>5, <2>2, <3>1 DEF Stays
  <2>3. CASE m.from = n /\ Forgets(n)
    BY <1>6, <2>3, UpToDateOrder DEF Forgets
  <2>4. CASE m.from = n /\ Grows(n)
    <3>1. voted_for[n] = n
      BY <2>4 DEF Grows, VoteInvariant, NodeInvariant, CountedVotesWereSent
    <3>2. m.term # current_term[n]
      BY <1>3, <2>4, <3>1, VoteIsHeld DEF VoteIsBacked
    <3> QED BY <2>4, <3>2 DEF Grows
  <2> QED BY <2>1, <2>2, <2>3, <2>4
<1>8. m.from # m.to
  BY DEF VoteIsBacked
<1> QED BY <1>4, <1>5, <1>7, <1>8 DEF VoteIsBacked

(* A candidate keeps covering the requests that it sent or made.           *)
LEMMA RequestStaysCovered ==
    ASSUME TypeOK, TypeOK', VoteInvariant, CoverInvariant, NEW n \in Node,
           Stays(n) \/ Forgets(n) \/ Grows(n),
           NEW r \in msgs \cup effect[n].out
    PROVE  RequestIsCovered(n, r)'
<1> SUFFICES ASSUME role'[n] # "Follower", r.type = "RequestVote",
                    r.candidate_id = n, r.term = current_term'[n]
             PROVE  UpToDate(last_log_term'[n], last_log_index'[n],
                             r.last_log_term, r.last_log_index)
  BY DEF RequestIsCovered
<1>1. /\ r \in VoteRequest /\ r.term <= current_term[n]
      /\ RequestIsCovered(n, r)
  BY VoteIsHeld, MessageKinds DEF CoverInvariant, NodeCover
<1>2. /\ r.term \in Nat /\ r.last_log_term \in Nat
      /\ r.last_log_index \in Nat
      /\ current_term[n] \in Nat /\ current_term'[n] \in Nat
      /\ last_log_term[n] \in Nat /\ last_log_index[n] \in Nat
      /\ last_log_term'[n] \in Nat /\ last_log_index'[n] \in Nat
  BY <1>1 DEF VoteRequest, TypeOK, CoreTypeOK
<1>3. CASE Stays(n)
  BY <1>1, <1>2, <1>3 DEF Stays, RequestIsCovered
<1>4. CASE Grows(n)
  <2>1. UpToDate(last_log_term[n], last_log_index[n],
                 r.last_log_term, r.last_log_index)
    BY <1>1, <1>4 DEF Grows, RequestIsCovered
  <2>2. UpToDate(last_log_term'[n], last_log_index'[n],
                 last_log_term[n], last_log_index[n])
    BY <1>4 DEF Grows
  <2> QED BY <1>2, <2>1, <2>2 DEF UpToDate
<1> QED BY <1>3, <1>4 DEF Forgets

(* A step of n keeps the invariant if it moves n in one of these ways and  *)
(* the messages it makes are covered.                                      *)
LEMMA CoverOfStep ==
    ASSUME TypeOK, TypeOK', VoteInvariant, CoverInvariant, NEW n \in Node,
           Acts(n), Stays(n) \/ Forgets(n) \/ Grows(n),
           msgs' \subseteq msgs \cup effect[n].out,
           \A r \in effect'[n].out \ effect[n].out :
              RequestIsCovered(n, r)' /\ VoteIsBacked(r)',
           last_log_term'[n] <= current_term'[n],
           last_log_index'[n] <= Len(log'[n])
    PROVE  CoverInvariant'
<1>1. msgs \subseteq msgs' /\ \A p \in Node \ {n} : Keeps(p)
  BY OthersKeep
<1>2. /\ \A m \in msgs \cup effect[n].out : VoteIsBacked(m)'
      /\ \A p \in Node : \A m \in effect[p].out : VoteIsBacked(m)'
  BY BackingStays DEF CoverInvariant, NodeCover
<1>3. NodeCover(n)'
  <2>1. \A r \in msgs' \cup effect'[n].out : RequestIsCovered(n, r)'
    BY RequestStaysCovered
  <2> QED BY <1>2, <2>1 DEF NodeCover
<1>4. ASSUME NEW p \in Node \ {n}
      PROVE  NodeCover(p)'
  <2>1. Keeps(p) /\ NodeCover(p)
    BY <1>1 DEF CoverInvariant
  <2>2. ASSUME NEW r \in msgs' \cup effect'[p].out
        PROVE  RequestIsCovered(p, r)'
    <3>1. CASE r \in msgs \cup effect[p].out
      BY <2>1, <3>1 DEF NodeCover, RequestIsCovered, Keeps
    <3>2. CASE r \in effect[n].out
      BY <3>2 DEF VoteInvariant, NodeInvariant, PendingVoteIsHeld,
                  RequestIsCovered
    <3> QED BY <2>1, <3>1, <3>2 DEF Keeps
  <2> QED BY <1>2, <2>1, <2>2 DEF NodeCover, Keeps
<1> QED BY <1>2, <1>3, <1>4 DEF CoverInvariant

(* A candidate asks for votes with the end of its own log.                 *)
LEMMA TimeoutCover ==
    ASSUME TypeOK, TypeOK', VoteInvariant, CoverInvariant, NEW n \in Node,
           Timeout(n)
    PROVE  CoverInvariant'
<1>1. /\ current_term[n] \in Nat /\ last_log_term[n] \in Nat
      /\ last_log_index[n] \in Nat /\ NodeCover(n)
      /\ UNCHANGED <<positionVars, log, msgs>>
  BY DEF TypeOK, CoreTypeOK, CoverInvariant, Timeout,
         handle_election_timeout, handle_heartbeat_timeout
<1>2. CASE handle_election_timeout(n)
  <2>1. /\ current_term'[n] = current_term[n] + 1
        /\ \A r \in effect'[n].out : /\ r.type = "RequestVote"
                                     /\ r.last_log_index = last_log_index[n]
                                     /\ r.last_log_term = last_log_term[n]
    BY <1>2, SMTT(60) DEF handle_election_timeout, Emit, TypeOK, CoreTypeOK
  <2>2. Stays(n) /\ last_log_term'[n] <= current_term'[n]
    BY <1>1, <2>1 DEF Stays, NodeCover, positionVars
  <2>3. \A r \in effect'[n].out : RequestIsCovered(n, r)' /\ VoteIsBacked(r)'
    BY <1>1, <2>1 DEF RequestIsCovered, VoteIsBacked, UpToDate, positionVars
  <2> QED BY <1>1, <2>2, <2>3, CoverOfStep
          DEF Acts, Step, NodeCover, positionVars
<1>3. CASE handle_heartbeat_timeout(n)
  <2>1. /\ UNCHANGED electionVars
        /\ \A r \in effect'[n].out : r.type = "Heartbeat"
    BY <1>3 DEF handle_heartbeat_timeout, Emit, HeartbeatOf, TypeOK, CoreTypeOK
  <2>2. Stays(n)
    BY <1>1, <2>1 DEF Stays, positionVars, electionVars
  <2>3. \A r \in effect'[n].out : RequestIsCovered(n, r)' /\ VoteIsBacked(r)'
    BY <2>1 DEF RequestIsCovered, VoteIsBacked
  <2> QED BY <1>1, <2>1, <2>2, <2>3, CoverOfStep
          DEF Acts, Step, NodeCover, positionVars, electionVars
<1> QED BY <1>2, <1>3 DEF Timeout

(* A vote goes to a candidate whose log ends no earlier than the voter's.  *)
LEMMA RequestVoteCover ==
    ASSUME TypeOK, TypeOK', VoteInvariant, CoverInvariant, NEW n \in Node,
           NEW m \in msgs, m \in VoteRequest, m.candidate_id # n,
           handle_request_vote(n, m), Acts(n), UNCHANGED <<log, msgs>>
    PROVE  CoverInvariant'
<1>1. /\ current_term[n] \in Nat /\ last_log_term[n] \in Nat
      /\ last_log_index[n] \in Nat /\ NodeCover(n) /\ m.term \in Nat
      /\ UNCHANGED <<positionVars, log, msgs>> /\ m.type = "RequestVote"
      /\ current_term'[n] \in Nat
  BY DEF TypeOK, CoreTypeOK, CoverInvariant, handle_request_vote, VoteRequest
<1>2. /\ current_term'[n] >= current_term[n]
      /\ current_term'[n] = current_term[n] => role'[n] = role[n]
  BY <1>1, SMTT(60) DEF handle_request_vote, TypeOK, CoreTypeOK
<1>3. \A r \in effect'[n].out :
        /\ r.type = "VoteResponse" /\ r.from = n /\ r.to = m.candidate_id
        /\ r.term = current_term'[n]
        /\ r.vote_granted =>
              /\ m.term = current_term'[n]
              /\ UpToDate(m.last_log_term, m.last_log_index,
                          last_log_term[n], last_log_index[n])
  BY DEF handle_request_vote, Emit, TypeOK, CoreTypeOK
<1>4. Stays(n) /\ last_log_term'[n] <= current_term'[n]
  BY <1>1, <1>2 DEF Stays, NodeCover, positionVars
<1>5. \A r \in effect'[n].out : RequestIsCovered(n, r)' /\ VoteIsBacked(r)'
  BY <1>1, <1>3 DEF RequestIsCovered, VoteIsBacked, positionVars
<1> QED BY <1>1, <1>4, <1>5, CoverOfStep DEF NodeCover, positionVars

(* Handlers that give no vote, ask for none and do not touch the log.      *)
LEMMA NeutralCover ==
    ASSUME TypeOK, TypeOK', VoteInvariant, CoverInvariant, NEW n \in Node,
           Acts(n), UNCHANGED <<positionVars, log, msgs>>,
           current_term'[n] >= current_term[n],
           current_term'[n] = current_term[n] /\ role'[n] # "Follower"
              => role[n] # "Follower",
           \A r \in effect'[n].out \ effect[n].out :
              r.type \notin {"RequestVote", "VoteResponse"}
    PROVE  CoverInvariant'
<1>1. /\ current_term[n] \in Nat /\ last_log_term[n] \in Nat
      /\ current_term'[n] \in Nat /\ NodeCover(n)
  BY DEF TypeOK, CoreTypeOK, CoverInvariant
<1>2. Stays(n) /\ last_log_term'[n] <= current_term'[n]
  BY <1>1 DEF Stays, NodeCover, positionVars
<1>3. \A r \in effect'[n].out \ effect[n].out :
          RequestIsCovered(n, r)' /\ VoteIsBacked(r)'
  BY DEF RequestIsCovered, VoteIsBacked
<1> QED BY <1>1, <1>2, <1>3, CoverOfStep DEF NodeCover, positionVars

(* Taking a message from the network preserves the cover invariant.        *)
LEMMA ReceiveCover ==
    ASSUME TypeOK, TypeOK', VoteInvariant, CoverInvariant, NEW n \in Node,
           NEW m \in msgs, Receive(n, m)
    PROVE  CoverInvariant'
<1>1. /\ m \in Message /\ Acts(n) /\ UNCHANGED <<log, msgs>>
      /\ current_term[n] \in Nat
  BY DEF TypeOK, CoreTypeOK, Acts, Step, Receive
<1>2. CASE m.type = "RequestVote" /\ m.candidate_id # n
           /\ handle_request_vote(n, m)
  BY <1>1, <1>2, MessageKinds, RequestVoteCover
<1>3. CASE m.type = "VoteResponse" /\ handle_vote_response(n, m)
  <2>0. m.term \in Nat /\ UNCHANGED positionVars
    BY <1>1, <1>3, MessageKinds DEF VoteResponse, handle_vote_response
  <2>1. CASE m.term > current_term[n] /\ StepDown(n, m.term, Nil)
             /\ UNCHANGED effect
    <3>1. current_term'[n] = m.term /\ role'[n] = "Follower"
      BY <2>1 DEF StepDown, TypeOK, CoreTypeOK
    <3> QED BY <1>1, <2>0, <2>1, <3>1, NeutralCover
  <2>2. CASE IsNewVote(n, m) /\ UNCHANGED <<role, effect, current_term>>
    BY <1>1, <2>0, <2>2, NeutralCover
  <2>3. CASE IsNewVote(n, m) /\ UNCHANGED current_term
             /\ Emit(n, FALSE, {HeartbeatOf(n)})
    <3>1. \A r \in effect'[n].out : r.type = "Heartbeat"
      BY <2>3 DEF Emit, HeartbeatOf, TypeOK, CoreTypeOK
    <3>2. role[n] # "Follower" /\ current_term'[n] >= current_term[n]
      BY <1>1, <2>3 DEF IsNewVote
    <3> QED BY <1>1, <2>0, <3>1, <3>2, NeutralCover
  <2> QED BY <1>3, <2>1, <2>2, <2>3 DEF handle_vote_response
<1>4. CASE m.type = "Heartbeat" /\ handle_heartbeat(n, m)
  <2>0. m.term \in Nat /\ UNCHANGED positionVars
    BY <1>1, <1>4, MessageKinds DEF HeartbeatRequest, handle_heartbeat
  <2>1. /\ current_term'[n] >= current_term[n]
        /\ role'[n] \in {role[n], "Follower"}
    <3>1. CASE UNCHANGED electionVars
      BY <1>1, <3>1 DEF electionVars
    <3>2. CASE /\ m.term >= current_term[n]
               /\ current_term' = [current_term EXCEPT ![n] = m.term]
               /\ role' = [role EXCEPT ![n] = "Follower"]
      BY <3>2 DEF TypeOK, CoreTypeOK
    <3> QED BY <1>4, <3>1, <3>2 DEF handle_heartbeat
  <2>2. \A r \in effect'[n].out : r.type = "HeartbeatResponse"
    BY <1>4 DEF handle_heartbeat, Emit, HeartbeatResponseOf, TypeOK, CoreTypeOK
  <2> QED BY <1>1, <2>0, <2>1, <2>2, NeutralCover
<1>5. CASE m.type = "HeartbeatResponse" /\ handle_heartbeat_response(n, m)
  <2>0. m.term \in Nat /\ UNCHANGED <<positionVars, effect>>
    BY <1>1, <1>5, MessageKinds DEF HeartbeatResponse, handle_heartbeat_response
  <2>1. /\ current_term'[n] >= current_term[n]
        /\ role'[n] \in {role[n], "Follower"}
    <3>1. CASE UNCHANGED electionVars
      BY <1>1, <3>1 DEF electionVars
    <3>2. CASE m.term > current_term[n] /\ StepDown(n, m.term, m.leader_id)
      BY <1>1, <2>0, <3>2 DEF StepDown, TypeOK, CoreTypeOK
    <3> QED BY <1>5, <3>1, <3>2 DEF handle_heartbeat_response
  <2> QED BY <1>1, <2>0, <2>1, NeutralCover
<1> QED BY <1>2, <1>3, <1>4, <1>5 DEF Receive

(* A client write moves the end of a leader's log only forward.            *)
LEMMA WriteCover ==
    ASSUME TypeOK, TypeOK', VoteInvariant, CoverInvariant, NEW n \in Node,
           Write(n)
    PROVE  CoverInvariant'
<1>1. /\ current_term[n] \in Nat /\ last_log_term[n] \in Nat
      /\ last_log_index[n] \in Nat /\ log[n] \in Seq(Nat) /\ NodeCover(n)
  BY DEF TypeOK, CoreTypeOK, CoverInvariant
<1>2. /\ role[n] = "Leader" /\ UNCHANGED <<electionVars, effect, msgs>>
      /\ last_log_term'[n] = current_term[n]
      /\ last_log_index'[n] = Len(log[n]) + 1
      /\ log'[n] = Append(log[n], current_term[n])
  BY DEF Write, handle_local_entry_appended, TypeOK, CoreTypeOK
<1>3. Len(log[n]) \in Nat /\ Len(log'[n]) = Len(log[n]) + 1
  BY <1>1, <1>2
<1>4. Grows(n)
  BY <1>1, <1>2, <1>3 DEF Grows, NodeCover, UpToDate, electionVars
<1>5. last_log_term'[n] <= current_term'[n] /\ last_log_index'[n] <= Len(log'[n])
  BY <1>1, <1>2, <1>3 DEF electionVars
<1> QED BY <1>2, <1>4, <1>5, CoverOfStep DEF Acts, Step

(* Executing an effect sends what was covered when the handler made it.    *)
LEMMA ExecutorCover ==
    ASSUME TypeOK, TypeOK', VoteInvariant, CoverInvariant, NEW n \in Node,
           persist_hard_state(n) \/ Send(n)
    PROVE  CoverInvariant'
<1>1. /\ UNCHANGED <<electionVars, positionVars, log>>
      /\ effect'[n].out \subseteq effect[n].out
      /\ msgs' \subseteq msgs \cup effect[n].out
  <2>1. effect[n] \in Effect
    BY DEF TypeOK, CoreTypeOK
  <2>2. CASE persist_hard_state(n)
    BY <2>1, <2>2 DEF persist_hard_state, TypeOK, CoreTypeOK, Effect
  <2>3. CASE Send(n)
    BY <2>3 DEF Send, NoEffect, TypeOK, CoreTypeOK
  <2> QED BY <2>2, <2>3
<1>2. current_term[n] \in Nat /\ NodeCover(n)
  BY DEF TypeOK, CoreTypeOK, CoverInvariant
<1>3. Stays(n)
  BY <1>1, <1>2 DEF Stays, electionVars, positionVars
<1> QED BY <1>1, <1>2, <1>3, CoverOfStep
        DEF Acts, Step, NodeCover, electionVars, positionVars

(* A node that starts believes its log to be empty and covers less than    *)
(* before.                                                                 *)
LEMMA BootCover ==
    ASSUME TypeOK, TypeOK', VoteInvariant, CoverInvariant, NEW n \in Node,
           NEW s, Boot(n, s), Acts(n)
    PROVE  CoverInvariant'
<1>1. /\ role'[n] = "Follower" /\ last_log_index'[n] = 0
      /\ last_log_term'[n] = 0 /\ effect'[n].out = {}
      /\ UNCHANGED <<log, msgs>>
  BY DEF Boot, TypeOK, CoreTypeOK, NoEffect
<1>2. current_term'[n] \in Nat /\ log'[n] \in Seq(Nat)
  BY DEF TypeOK, CoreTypeOK
<1>3. Forgets(n) /\ last_log_term'[n] <= current_term'[n]
      /\ last_log_index'[n] <= Len(log'[n])
  BY <1>1, <1>2 DEF Forgets
<1> QED BY <1>1, <1>3, CoverOfStep

(* There is nothing to cover in the initial state.                         *)
LEMMA InitCover == Init => CoverInvariant
<1> SUFFICES ASSUME Init
             PROVE  CoverInvariant
  OBVIOUS
<1> QED BY DEF Init, CoverInvariant, NodeCover, RequestIsCovered, VoteIsBacked,
               NoEffect

(* Every step preserves the cover invariant.                               *)
LEMMA NextCover ==
    TypeOK /\ TypeOK' /\ VoteInvariant /\ CoverInvariant /\ [Next]_vars
        => CoverInvariant'
<1> SUFFICES ASSUME TypeOK, TypeOK', VoteInvariant, CoverInvariant,
                    [Next]_vars
             PROVE  CoverInvariant'
  OBVIOUS
<1>1. CASE UNCHANGED vars
  BY <1>1 DEF vars, coreVars, electionVars, positionVars, CoverInvariant,
              NodeCover, RequestIsCovered, VoteIsBacked
<1>2. ASSUME NEW n \in Node, Crash(n) \/ CrashDuringSave(n)
      PROVE  CoverInvariant'
  BY <1>2, BootCover DEF Crash, CrashDuringSave, Acts
<1> QED
  BY <1>1, <1>2, TimeoutCover, ReceiveCover, WriteCover, ExecutorCover
     DEF Next, Step

(* A leader's position covers that of every voter it counted.              *)
LEMMA CoverOfVoters ==
    TypeOK /\ VoteInvariant /\ CoverInvariant => LeaderCoversItsVoters
<1> SUFFICES ASSUME TypeOK, VoteInvariant, CoverInvariant,
                    NEW n \in Node, NEW v \in Node,
                    role[n] = "Leader", v \in granted_votes[n],
                    current_term[v] = current_term[n]
             PROVE  UpToDate(last_log_term[n], last_log_index[n],
                             last_log_term[v], last_log_index[v])
  <2>1. ASSUME TypeOK, NEW p \in Node, NEW q \in Node,
               UpToDate(last_log_term[p], last_log_index[p],
                        last_log_term[q], last_log_index[q])
        PROVE  \/ last_log_term[q] < last_log_term[p]
               \/ /\ last_log_term[q] = last_log_term[p]
                  /\ last_log_index[q] <= last_log_index[p]
    BY <2>1 DEF TypeOK, CoreTypeOK, UpToDate
  <2> QED BY <2>1 DEF LeaderCoversItsVoters
<1>1. \A p \in Node : last_log_term[p] \in Nat /\ last_log_index[p] \in Nat
  BY DEF TypeOK, CoreTypeOK
<1>2. CASE v = n
  BY <1>1, <1>2 DEF UpToDate
<1>3. CASE v # n
  <2>1. <<v, current_term[n], n>> \in Votes
    BY <1>3 DEF VoteInvariant, NodeInvariant, CountedVotesWereSent
  <2>2. PICK m \in msgs : /\ m.type = "VoteResponse" /\ m.vote_granted
                          /\ m.from = v /\ m.to = n
                          /\ m.term = current_term[n]
    BY <1>3, <2>1 DEF Votes
  <2>3. PICK r \in msgs :
          /\ r.type = "RequestVote" /\ r.candidate_id = n
          /\ r.term = current_term[n]
          /\ UpToDate(r.last_log_term, r.last_log_index,
                      last_log_term[v], last_log_index[v])
    BY <2>2 DEF CoverInvariant, VoteIsBacked
  <2>4. UpToDate(last_log_term[n], last_log_index[n],
                 r.last_log_term, r.last_log_index)
    BY <2>3 DEF CoverInvariant, NodeCover, RequestIsCovered
  <2>5. r.last_log_term \in Nat /\ r.last_log_index \in Nat
    BY <2>3, MessageKinds DEF TypeOK, VoteRequest
  <2> QED BY <1>1, <2>3, <2>4, <2>5 DEF UpToDate
<1> QED BY <1>2, <1>3

(* The freshness check of handle_request_vote makes a leader's position    *)
(* cover that of every voter it counted, for as long as the voter stays in *)
(* that term, also after restarts and the leader's own writes.             *)
THEOREM LeadersCoverVoters == Spec => []LeaderCoversItsVoters
BY VotesCorrect, InitCover, NextCover, CoverOfVoters, PTL DEF Spec

=============================================================================
