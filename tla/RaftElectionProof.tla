-------------------------- MODULE RaftElectionProof --------------------------
(***************************************************************************)
(* Theorems about RaftElection, for every set of nodes and every choice of *)
(* the environment.                                                        *)
(***************************************************************************)
EXTENDS RaftElection, FiniteSetTheorems, TLAPS

(* The type field tells which kind of message a message is.                *)
LEMMA MessageKinds ==
    ASSUME NEW m \in Message
    PROVE  /\ m.type = "RequestVote" => m \in VoteRequest
           /\ m.type = "VoteResponse" => m \in VoteResponse
           /\ m.type = "Heartbeat" => m \in HeartbeatRequest
           /\ m.type = "HeartbeatResponse" => m \in HeartbeatResponse
BY DEF Message, VoteRequest, VoteResponse, HeartbeatRequest, HeartbeatResponse

(* An effect made of messages is a legal value of the effect of a node.    *)
LEMMA EmitType ==
    ASSUME CoreTypeOK, NEW n \in Node, NEW save \in BOOLEAN,
           NEW m \in Message, Emit(n, save, {m})
    PROVE  effect' \in [Node -> Effect]
<1>1. [save |-> save, out |-> {m}] \in Effect
  BY DEF Effect
<1> QED
  BY <1>1 DEF Emit, CoreTypeOK

(* Every handler keeps the state of the core in its type.                  *)
LEMMA ElectionTimeoutType ==
    ASSUME CoreTypeOK, NEW n \in Node, handle_election_timeout(n)
    PROVE  CoreTypeOK'
<1> DEFINE req == [type |-> "RequestVote", term |-> current_term[n] + 1,
                   candidate_id |-> n,
                   last_log_index |-> last_log_index[n],
                   last_log_term |-> last_log_term[n]]
<1>1. req \in Message
  BY DEF CoreTypeOK, Message, VoteRequest
<1>2. effect' \in [Node -> Effect]
  BY <1>1, EmitType DEF handle_election_timeout
<1> QED
  <2>1. current_term' \in [Node -> Nat] /\ granted_votes' \in [Node -> SUBSET Node]
    BY DEF handle_election_timeout, CoreTypeOK
  <2>2. voted_for' \in [Node -> NodeOrNil] /\ role' \in [Node -> Role]
    BY DEF handle_election_timeout, CoreTypeOK, Role, NodeOrNil
  <2> QED
    BY <1>2, <2>1, <2>2 DEF handle_election_timeout, CoreTypeOK,
                            positionVars, commitVars, progressVars

(* A vote request leaves the core well typed.                              *)
LEMMA RequestVoteType ==
    ASSUME CoreTypeOK, NEW n \in Node, NEW m \in VoteRequest,
           handle_request_vote(n, m)
    PROVE  CoreTypeOK'
<1> DEFINE newer   == m.term > current_term[n]
           term    == IF newer THEN m.term ELSE current_term[n]
           vote    == IF newer THEN Nil ELSE voted_for[n]
           granted == /\ m.term = term
                      /\ UpToDate(m.last_log_term, m.last_log_index,
                                  last_log_term[n], last_log_index[n])
                      /\ CanVote(vote, m.candidate_id)
           changed == newer \/ (granted /\ vote # m.candidate_id)
           resp == [type |-> "VoteResponse", from |-> n,
                    to |-> m.candidate_id, term |-> term,
                    vote_granted |-> granted]
<1>1. /\ m.candidate_id \in Node /\ m.term \in Nat
      /\ current_term[n] \in Nat /\ voted_for[n] \in NodeOrNil
  BY DEF CoreTypeOK, VoteRequest
<1>2. granted \in BOOLEAN /\ changed \in BOOLEAN
  OBVIOUS
<1>3. term \in Nat
  BY <1>1
<1>4. resp \in Message
  <2> HIDE DEF granted, term
  <2> QED BY <1>1, <1>2, <1>3 DEF Message, VoteResponse
<1>5. /\ Emit(n, changed, {resp})
      /\ current_term' = [current_term EXCEPT ![n] = term]
      /\ voted_for' = [voted_for EXCEPT
                            ![n] = IF granted THEN m.candidate_id ELSE vote]
      /\ role' = [role EXCEPT ![n] = IF newer THEN "Follower" ELSE @]
      /\ leader_id' = [leader_id EXCEPT ![n] = IF newer THEN Nil ELSE @]
      /\ granted_votes' = [granted_votes EXCEPT
                                ![n] = IF newer THEN {} ELSE @]
      /\ UNCHANGED <<positionVars, commitVars, progressVars>>
  BY DEF handle_request_vote
<1>6. effect' \in [Node -> Effect]
  BY <1>2, <1>4, <1>5, EmitType
<1>7. vote \in NodeOrNil
  BY <1>1 DEF NodeOrNil
<1> HIDE DEF newer, term, vote, granted, changed, resp
<1> QED
  BY <1>1, <1>2, <1>3, <1>5, <1>6, <1>7
  DEF CoreTypeOK, Role, NodeOrNil, positionVars, commitVars, progressVars

(* So does stepping down to a newer term.                                  *)
LEMMA StepDownType ==
    ASSUME CoreTypeOK, NEW n \in Node, NEW term \in Nat,
           NEW leader \in NodeOrNil, StepDown(n, term, leader)
    PROVE  /\ role' \in [Node -> Role]
           /\ current_term' \in [Node -> Nat]
           /\ voted_for' \in [Node -> NodeOrNil]
           /\ leader_id' \in [Node -> NodeOrNil]
           /\ granted_votes' \in [Node -> SUBSET Node]
BY DEF StepDown, CoreTypeOK, Role, NodeOrNil

(* What send_heartbeat sends is a message.                                 *)
LEMMA HeartbeatOfType ==
    ASSUME CoreTypeOK, NEW n \in Node
    PROVE  HeartbeatOf(n) \in Message
BY DEF CoreTypeOK, HeartbeatOf, Message, HeartbeatRequest

(* A vote response leaves the core well typed.                             *)
LEMMA VoteResponseType ==
    ASSUME CoreTypeOK, NEW n \in Node, NEW m \in VoteResponse,
           handle_vote_response(n, m)
    PROVE  CoreTypeOK'
<1>1. m.from \in Node /\ m.term \in Nat
  BY DEF VoteResponse
<1>2. CASE m.term > current_term[n] /\ StepDown(n, m.term, Nil)
           /\ UNCHANGED effect
  BY <1>1, <1>2, StepDownType
  DEF handle_vote_response, CoreTypeOK, NodeOrNil, positionVars, commitVars,
      progressVars
<1>3. CASE /\ granted_votes' = [granted_votes EXCEPT
                                   ![n] = granted_votes[n] \cup {m.from}]
           /\ IF Majority(granted_votes[n] \cup {m.from})
              THEN /\ role' = [role EXCEPT ![n] = "Leader"]
                   /\ Emit(n, FALSE, {HeartbeatOf(n)})
              ELSE UNCHANGED <<role, effect>>
           /\ UNCHANGED <<current_term, voted_for, leader_id>>
  <2>1. effect' \in [Node -> Effect] /\ role' \in [Node -> Role]
    <3>1. CASE Majority(granted_votes[n] \cup {m.from})
      BY <1>3, <3>1, EmitType, HeartbeatOfType DEF CoreTypeOK, Role
    <3>2. CASE ~Majority(granted_votes[n] \cup {m.from})
      BY <1>3, <3>2 DEF CoreTypeOK
    <3> QED BY <3>1, <3>2
  <2> QED
    BY <1>1, <1>3, <2>1
    DEF handle_vote_response, CoreTypeOK, positionVars, commitVars,
        progressVars
<1> QED BY <1>2, <1>3 DEF handle_vote_response

(* So does the heartbeat timer of a leader.                                *)
LEMMA HeartbeatTimeoutType ==
    ASSUME CoreTypeOK, NEW n \in Node, handle_heartbeat_timeout(n)
    PROVE  CoreTypeOK'
<1>1. effect' \in [Node -> Effect]
  BY EmitType, HeartbeatOfType DEF handle_heartbeat_timeout
<1> QED
  BY <1>1 DEF handle_heartbeat_timeout, CoreTypeOK, electionVars,
              positionVars, commitVars, progressVars

(* The answer to a heartbeat is a message.                                 *)
LEMMA HeartbeatResponseOfType ==
    ASSUME CoreTypeOK, NEW n \in Node, NEW leader \in Node,
           NEW term \in Nat, NEW success \in BOOLEAN, NEW known \in NodeOrNil
    PROVE  HeartbeatResponseOf(n, leader, term, success, known) \in Message
BY DEF CoreTypeOK, HeartbeatResponseOf, Message, HeartbeatResponse

(* A heartbeat leaves the core well typed.                                 *)
LEMMA HeartbeatType ==
    ASSUME CoreTypeOK, NEW n \in Node, NEW m \in HeartbeatRequest,
           handle_heartbeat(n, m)
    PROVE  CoreTypeOK'
<1> DEFINE matches == /\ m.log_index = last_log_index[n]
                      /\ m.log_term = last_log_term[n]
           commit  == Least(m.leader_commit_index, last_log_index[n])
<1>1. /\ m.leader_id \in NodeOrNil /\ m.leader_id \in Node /\ m.term \in Nat
      /\ leader_id[n] \in NodeOrNil /\ current_term[n] \in Nat
  BY DEF HeartbeatRequest, CoreTypeOK, NodeOrNil
<1>2. commit \in Nat
  BY DEF HeartbeatRequest, CoreTypeOK, Least
<1>3. matches \in BOOLEAN
  OBVIOUS
<1> HIDE DEF matches, commit
<1>4. CASE /\ m.term < current_term[n]
           /\ Emit(n, FALSE, {HeartbeatResponseOf(n, m.leader_id,
                                 current_term[n], FALSE, leader_id[n])})
           /\ UNCHANGED <<electionVars, commitVars>>
  <2>1. effect' \in [Node -> Effect]
    BY <1>1, <1>4, EmitType, HeartbeatResponseOfType
  <2> QED BY <1>4, <2>1 DEF handle_heartbeat, CoreTypeOK, electionVars,
                            positionVars, commitVars, progressVars
<1>5. CASE /\ m.term >= current_term[n]
           /\ current_term' = [current_term EXCEPT ![n] = m.term]
           /\ voted_for' = [voted_for EXCEPT
                 ![n] = IF m.term > current_term[n] THEN Nil ELSE @]
           /\ role' = [role EXCEPT ![n] = "Follower"]
           /\ granted_votes' = [granted_votes EXCEPT ![n] = {}]
           /\ leader_id' = [leader_id EXCEPT ![n] = m.leader_id]
           /\ commit_index' = [commit_index EXCEPT
                 ![n] = IF matches THEN Greatest(@, commit) ELSE @]
           /\ Emit(n, FALSE, {HeartbeatResponseOf(n, m.leader_id,
                                 m.term, matches, m.leader_id)})
           /\ UNCHANGED last_applied
  <2>1. effect' \in [Node -> Effect]
    BY <1>1, <1>3, <1>5, EmitType, HeartbeatResponseOfType
  <2>2. commit_index' \in [Node -> Nat]
    BY <1>2, <1>5 DEF CoreTypeOK, Greatest
  <2> QED BY <1>1, <1>5, <2>1, <2>2
          DEF handle_heartbeat, CoreTypeOK, Role, NodeOrNil, positionVars,
              progressVars
<1> QED BY <1>4, <1>5 DEF handle_heartbeat, matches, commit

(* So does the answer to one.                                              *)
LEMMA HeartbeatResponseHandlerType ==
    ASSUME CoreTypeOK, NEW n \in Node, NEW m \in HeartbeatResponse,
           handle_heartbeat_response(n, m)
    PROVE  CoreTypeOK'
<1>1. /\ m.from \in Node /\ m.term \in Nat /\ m.leader_id \in NodeOrNil
      /\ m.last_log_index \in Nat
  BY DEF HeartbeatResponse
<1>2. CASE StepDown(n, m.term, m.leader_id) /\ UNCHANGED progressVars
  BY <1>1, <1>2, StepDownType
  DEF handle_heartbeat_response, CoreTypeOK, positionVars, commitVars,
      progressVars
<1>3. CASE role[n] = "Leader" /\ UNCHANGED electionVars
  <2>1. CASE UNCHANGED progressVars
    BY <1>3, <2>1
    DEF handle_heartbeat_response, CoreTypeOK, electionVars, positionVars,
        commitVars, progressVars
  <2>2. CASE \E i, j \in Nat :
               /\ match_index' = [match_index EXCEPT ![n][m.from] = i]
               /\ next_index' = [next_index EXCEPT ![n][m.from] = j]
    BY <1>1, <1>3, <2>2
    DEF handle_heartbeat_response, CoreTypeOK, electionVars, positionVars,
        commitVars
  <2>3. ASSUME ~(UNCHANGED progressVars)
        PROVE  \E i, j \in Nat :
               /\ match_index' = [match_index EXCEPT ![n][m.from] = i]
               /\ next_index' = [next_index EXCEPT ![n][m.from] = j]
    <3> DEFINE old     == match_index[n][m.from]
               matched == Greatest(old, Least(m.last_log_index,
                                              last_log_index[n]))
               next    == next_index[n][m.from]
               rewound == Least(SaturatingPred(next), m.last_log_index + 1)
               i == IF m.success THEN matched ELSE old
               j == IF m.success THEN Greatest(next, matched + 1)
                                 ELSE rewound
    <3>1. old \in Nat /\ next \in Nat /\ last_log_index[n] \in Nat
      BY <1>1 DEF CoreTypeOK
    <3>2. matched \in Nat /\ rewound \in Nat
      BY <1>1, <3>1 DEF Greatest, Least, SaturatingPred
    <3>3. i \in Nat /\ j \in Nat
      <4> HIDE DEF old, matched, next, rewound
      <4> QED BY <3>1, <3>2 DEF Greatest
    <3>4. /\ match_index' = [match_index EXCEPT ![n][m.from] = i]
          /\ next_index' = [next_index EXCEPT ![n][m.from] = j]
      BY <2>3 DEF handle_heartbeat_response
    <3> QED BY <3>3, <3>4
  <2> QED BY <2>1, <2>2, <2>3
<1> QED BY <1>2, <1>3 DEF handle_heartbeat_response

(* And so does an entry that the leader has appended locally.              *)
LEMMA LocalEntryType ==
    ASSUME CoreTypeOK, NEW n \in Node, NEW index \in Nat,
           handle_local_entry_appended(n, index)
    PROVE  CoreTypeOK'
BY DEF handle_local_entry_appended, CoreTypeOK, electionVars, commitVars

-----------------------------------------------------------------------------
(* Type correctness of the whole cluster.                                  *)

(* The initial state is well typed.                                        *)
LEMMA InitType == Init => TypeOK
BY DEF Init, TypeOK, CoreTypeOK, State, Role, NodeOrNil, Effect, NoEffect

(* Taking a message from the network keeps the types.                      *)
LEMMA ReceiveType ==
    ASSUME TypeOK, NEW n \in Node, NEW m \in msgs, Receive(n, m)
    PROVE  TypeOK'
<1>1. m \in Message /\ CoreTypeOK
  BY DEF TypeOK
<1>2. CoreTypeOK'
  BY <1>1, MessageKinds, RequestVoteType, VoteResponseType, HeartbeatType,
     HeartbeatResponseHandlerType
  DEF Receive
<1> QED BY <1>2 DEF Receive, TypeOK

(* A node that starts from a state file is well typed.                     *)
LEMMA BootType ==
    ASSUME TypeOK, NEW n \in Node, NEW state \in State, Boot(n, state)
    PROVE  CoreTypeOK' /\ log' \in [Node -> Seq(Nat)] /\ msgs' \in SUBSET Message
<1>1. effect' \in [Node -> Effect]
  BY DEF Boot, TypeOK, CoreTypeOK, Effect, NoEffect
<1>2. /\ match_index' \in [Node -> [Node -> Nat]]
      /\ next_index' \in [Node -> [Node -> Nat]]
  <2>1. Len(log[n]) \in Nat
    BY DEF TypeOK
  <2> QED BY <2>1 DEF Boot, TypeOK, CoreTypeOK
<1>3. /\ role' \in [Node -> Role]
      /\ current_term' \in [Node -> Nat]
      /\ voted_for' \in [Node -> NodeOrNil]
      /\ leader_id' \in [Node -> NodeOrNil]
      /\ granted_votes' \in [Node -> SUBSET Node]
  BY DEF Boot, TypeOK, CoreTypeOK, State, Role, NodeOrNil
<1>4. /\ last_log_index' \in [Node -> Nat]
      /\ last_log_term' \in [Node -> Nat]
      /\ commit_index' \in [Node -> Nat]
      /\ last_applied' \in [Node -> Nat]
  BY DEF Boot, TypeOK, CoreTypeOK
<1> QED BY <1>1, <1>2, <1>3, <1>4 DEF Boot, TypeOK, CoreTypeOK

(* HalfSaved and HardState are states that load_state can return.          *)
LEMMA StateType ==
    ASSUME TypeOK, NEW n \in Node
    PROVE  /\ HardState(n) \in State
           /\ HalfSaved(n) \subseteq State
           /\ storage[n] \in State
BY EnvironmentAssumption
DEF TypeOK, CoreTypeOK, HardState, HalfSaved, State, NodeOrNil

(* Every step keeps the types.                                             *)
LEMMA NextType == TypeOK /\ [Next]_vars => TypeOK'
<1> SUFFICES ASSUME TypeOK, [Next]_vars
             PROVE  TypeOK'
  OBVIOUS
<1> USE DEF TypeOK
<1>1. CASE UNCHANGED vars
  BY <1>1 DEF vars, coreVars, electionVars, positionVars, commitVars,
              progressVars, CoreTypeOK
<1>2. ASSUME NEW n \in Node, Timeout(n)
      PROVE  TypeOK'
  BY <1>2, ElectionTimeoutType, HeartbeatTimeoutType DEF Timeout
<1>3. ASSUME NEW n \in Node, NEW m \in msgs, Receive(n, m)
      PROVE  TypeOK'
  BY <1>3, ReceiveType
<1>4. ASSUME NEW n \in Node, Write(n)
      PROVE  TypeOK'
  <2>1. /\ Len(log[n]) + 1 \in Nat
        /\ Append(log[n], current_term[n]) \in Seq(Nat)
    BY DEF CoreTypeOK
  <2>2. log' \in [Node -> Seq(Nat)]
    BY <1>4, <2>1 DEF Write
  <2> QED BY <1>4, <2>1, <2>2, LocalEntryType DEF Write
<1>5. ASSUME NEW n \in Node, persist_hard_state(n)
      PROVE  TypeOK'
  <2>1. storage' \in [Node -> State]
    BY <1>5, StateType DEF persist_hard_state
  <2>2. effect' \in [Node -> Effect]
    <3>1. effect[n] \in Effect /\ effect \in [Node -> Effect]
      BY DEF CoreTypeOK
    <3>2. [effect[n] EXCEPT !.save = FALSE] \in Effect
      BY <3>1 DEF Effect
    <3>3. effect' = [effect EXCEPT ![n] = [effect[n] EXCEPT !.save = FALSE]]
      BY <1>5, <3>1 DEF persist_hard_state
    <3> QED BY <3>1, <3>2, <3>3
  <2> QED BY <1>5, <2>1, <2>2
          DEF persist_hard_state, CoreTypeOK, electionVars, positionVars,
              commitVars, progressVars
<1>6. ASSUME NEW n \in Node, Send(n)
      PROVE  TypeOK'
  <2>1. effect' \in [Node -> Effect]
    BY <1>6 DEF Send, CoreTypeOK, Effect, NoEffect
  <2>2. msgs' \in SUBSET Message
    BY <1>6 DEF Send, CoreTypeOK, Effect
  <2> QED BY <1>6, <2>1, <2>2
          DEF Send, CoreTypeOK, electionVars, positionVars, commitVars,
              progressVars
<1>7. ASSUME NEW n \in Node, Crash(n)
      PROVE  TypeOK'
  BY <1>7, BootType, StateType DEF Crash, load_state
<1>8. ASSUME NEW n \in Node, CrashDuringSave(n)
      PROVE  TypeOK'
  BY <1>8, BootType, StateType DEF CrashDuringSave
<1> QED
  BY <1>1, <1>2, <1>3, <1>4, <1>5, <1>6, <1>7, <1>8 DEF Next, Step

(* Every behaviour of the cluster keeps the core, the files and the        *)
(* messages in their types.                                                *)
THEOREM TypeCorrect == Spec => []TypeOK
BY InitType, NextType, PTL DEF Spec

-----------------------------------------------------------------------------
(* Election safety.                                                        *)

(* What it takes to be in Votes.                                           *)
LEMMA VoteMembership ==
    /\ \A m \in msgs :
          /\ m.type = "VoteResponse" /\ m.vote_granted
                => <<m.from, m.term, m.to>> \in Votes
          /\ m.type = "RequestVote"
                => <<m.candidate_id, m.term, m.candidate_id>> \in Votes
    /\ \A v \in Votes : \E m \in msgs :
          \/ /\ m.type = "VoteResponse" /\ m.vote_granted
             /\ v = <<m.from, m.term, m.to>>
          \/ /\ m.type = "RequestVote"
             /\ v = <<m.candidate_id, m.term, m.candidate_id>>
BY DEF Votes

(* A vote that was sent names a voter, a term and a candidate.             *)
LEMMA VoteType ==
    ASSUME TypeOK, NEW v \in Votes
    PROVE  /\ v[1] \in Node /\ v[2] \in Nat /\ v[3] \in Node
           /\ v = <<v[1], v[2], v[3]>>
<1>1. PICK m \in msgs :
          \/ /\ m.type = "VoteResponse" /\ m.vote_granted
             /\ v = <<m.from, m.term, m.to>>
          \/ /\ m.type = "RequestVote"
             /\ v = <<m.candidate_id, m.term, m.candidate_id>>
  BY VoteMembership
<1>2. m \in Message
  BY DEF TypeOK
<1>3. \/ /\ m \in VoteResponse
         /\ v = <<m.from, m.term, m.to>>
      \/ /\ m \in VoteRequest
         /\ v = <<m.candidate_id, m.term, m.candidate_id>>
  BY <1>1, <1>2, MessageKinds
<1> QED BY <1>3 DEF VoteResponse, VoteRequest

(* A vote a node has sent binds the node while it is in that term.         *)
LEMMA SentVoteBinds ==
    ASSUME TypeOK, VoteInvariant, NEW n \in Node, NEW c \in Node,
           <<n, current_term[n], c>> \in Votes
    PROVE  /\ voted_for[n] = c
           /\ storage[n] = [current_term |-> current_term[n], voted_for |-> c]
<1> DEFINE v == <<n, current_term[n], c>>
<1>1. \/ storage[n].current_term > current_term[n]
      \/ storage[n] = [current_term |-> current_term[n], voted_for |-> c]
  BY DEF VoteInvariant, VoteIsDurable
<1>2. /\ current_term[n] \in Nat /\ storage[n].current_term \in Nat
      /\ storage[n].current_term <= current_term[n]
  BY DEF TypeOK, CoreTypeOK, State, VoteInvariant, NodeInvariant,
         DiskFollowsMemory
<1>3. storage[n] = [current_term |-> current_term[n], voted_for |-> c]
  BY <1>1, <1>2
<1>4. c # Nil
  BY NodeAssumption
<1> QED BY <1>3, <1>4 DEF VoteInvariant, NodeInvariant, DiskFollowsMemory

(* Two majorities of the voters have a member in common.                   *)
LEMMA MajoritiesIntersect ==
    ASSUME NEW S \in SUBSET Node, NEW T \in SUBSET Node,
           Majority(S), Majority(T)
    PROVE  S \cap T # {}
<1> DEFINE N == Cardinality(Node)
           a == Cardinality(S)
           b == Cardinality(T)
<1>1. N \in Nat /\ a \in Nat /\ b \in Nat
  BY NodeAssumption, FS_CardinalityType, FS_Subset
<1>2. a > N \div 2 /\ b > N \div 2
  BY DEF Majority
<1>3. a + b > N
  <2> HIDE DEF N, a, b
  <2> QED BY <1>1, <1>2
<1> QED BY <1>3, NodeAssumption, FS_MajoritiesIntersect

(* The invariant implies that a term has one leader.                       *)
LEMMA OneLeader == TypeOK /\ VoteInvariant => ElectionSafety
<1> SUFFICES ASSUME TypeOK, VoteInvariant, NEW n \in Node, NEW p \in Node,
                    role[n] = "Leader", role[p] = "Leader",
                    current_term[n] = current_term[p]
             PROVE  n = p
  BY DEF ElectionSafety
<1>1. /\ granted_votes[n] \in SUBSET Node /\ granted_votes[p] \in SUBSET Node
      /\ Majority(granted_votes[n]) /\ Majority(granted_votes[p])
      /\ voted_for[n] = n /\ voted_for[p] = p
      /\ \A v \in granted_votes[n] \ {n} : <<v, current_term[n], n>> \in Votes
      /\ \A v \in granted_votes[p] \ {p} : <<v, current_term[n], p>> \in Votes
  BY DEF TypeOK, CoreTypeOK, VoteInvariant, NodeInvariant,
         CountedVotesWereSent
<1>2. PICK v \in Node : v \in granted_votes[n] /\ v \in granted_votes[p]
  BY <1>1, MajoritiesIntersect
<1>3. CASE v = n
  BY <1>1, <1>2, <1>3, SentVoteBinds
<1>4. CASE v = p
  BY <1>1, <1>2, <1>4, SentVoteBinds
<1>5. CASE v # n /\ v # p
  <2>1. /\ <<v, current_term[n], n>> \in Votes
        /\ <<v, current_term[n], p>> \in Votes
    BY <1>1, <1>2, <1>5
  <2> QED BY <2>1 DEF VoteInvariant, OneVotePerTerm
<1> QED BY <1>3, <1>4, <1>5

(* A step of node n that sends nothing and writes no file keeps the        *)
(* invariant if it keeps the part of n.                                    *)
LEMMA LocalStep ==
    ASSUME VoteInvariant, NEW n \in Node, UNCHANGED <<storage, msgs>>,
           \A p \in Node \ {n} :
              /\ role'[p] = role[p]
              /\ current_term'[p] = current_term[p]
              /\ voted_for'[p] = voted_for[p]
              /\ granted_votes'[p] = granted_votes[p]
              /\ effect'[p] = effect[p],
           NodeInvariant(n)'
    PROVE  VoteInvariant'
<1>1. Votes' = Votes
  BY DEF Votes
<1>2. VoteIsDurable' /\ OneVotePerTerm'
  BY <1>1 DEF VoteInvariant, VoteIsDurable, OneVotePerTerm
<1>3. ASSUME NEW p \in Node \ {n}
      PROVE  NodeInvariant(p)'
  BY <1>1 DEF VoteInvariant, NodeInvariant, DiskFollowsMemory, HardState,
              PendingVoteIsHeld, CountedVotesWereSent
<1> QED BY <1>2, <1>3 DEF VoteInvariant

(* A candidate votes for itself in a term that nobody has seen it in.      *)
LEMMA ElectionTimeoutVotes ==
    ASSUME TypeOK, VoteInvariant, NEW n \in Node, handle_election_timeout(n),
           UNCHANGED <<storage, msgs>>
    PROVE  VoteInvariant'
<1>1. /\ current_term'[n] = current_term[n] + 1
      /\ voted_for'[n] = n /\ granted_votes'[n] = {n}
      /\ role'[n] = "Candidate" /\ effect'[n].save
      /\ current_term[n] \in Nat /\ storage[n].current_term \in Nat
  BY DEF handle_election_timeout, Emit, TypeOK, CoreTypeOK, State
<1>2. DiskFollowsMemory(n)'
  BY <1>1 DEF DiskFollowsMemory, VoteInvariant, NodeInvariant
<1>3. PendingVoteIsHeld(n)'
  BY <1>1 DEF PendingVoteIsHeld, handle_election_timeout, Emit, TypeOK,
              CoreTypeOK
<1>4. CountedVotesWereSent(n)'
  BY <1>1 DEF CountedVotesWereSent
<1> QED
  BY <1>2, <1>3, <1>4, LocalStep
  DEF NodeInvariant, handle_election_timeout, Emit, TypeOK, CoreTypeOK

(* A voter grants one candidate, and only in its current term.             *)
LEMMA RequestVoteVotes ==
    ASSUME TypeOK, VoteInvariant, NEW n \in Node, NEW m \in VoteRequest,
           handle_request_vote(n, m), UNCHANGED <<storage, msgs>>
    PROVE  VoteInvariant'
<1> DEFINE newer   == m.term > current_term[n]
           term    == IF newer THEN m.term ELSE current_term[n]
           vote    == IF newer THEN Nil ELSE voted_for[n]
           granted == /\ m.term = term
                      /\ UpToDate(m.last_log_term, m.last_log_index,
                                  last_log_term[n], last_log_index[n])
                      /\ CanVote(vote, m.candidate_id)
           changed == newer \/ (granted /\ vote # m.candidate_id)
           resp == [type |-> "VoteResponse", from |-> n,
                    to |-> m.candidate_id, term |-> term,
                    vote_granted |-> granted]
<1>1. /\ m.candidate_id \in Node /\ m.term \in Nat /\ Nil \notin Node
      /\ current_term[n] \in Nat /\ storage[n].current_term \in Nat
  BY NodeAssumption DEF TypeOK, CoreTypeOK, State, VoteRequest
<1>2. /\ current_term'[n] = term
      /\ voted_for'[n] = IF granted THEN m.candidate_id ELSE vote
      /\ role'[n] = IF newer THEN "Follower" ELSE role[n]
      /\ granted_votes'[n] = IF newer THEN {} ELSE granted_votes[n]
      /\ effect'[n] = [save |-> changed, out |-> {resp}]
      /\ ~effect[n].save
  BY DEF handle_request_vote, Emit, Idle, NoEffect, TypeOK, CoreTypeOK
<1>3. granted => vote \in {Nil, m.candidate_id}
  BY DEF CanVote
<1>4. Votes' = Votes
  BY DEF Votes
<1>5. NodeInvariant(n)
  BY DEF VoteInvariant
<1>6. \A p \in Node \ {n} :
         /\ role'[p] = role[p]
         /\ current_term'[p] = current_term[p]
         /\ voted_for'[p] = voted_for[p]
         /\ granted_votes'[p] = granted_votes[p]
         /\ effect'[p] = effect[p]
  BY DEF handle_request_vote, Emit, TypeOK, CoreTypeOK
<1>a. effect'[n].save = changed /\ granted \in BOOLEAN /\ changed \in BOOLEAN
  BY <1>2
<1>b. changed <=> newer \/ (granted /\ vote # m.candidate_id)
  OBVIOUS
<1> HIDE DEF granted, changed
<1>7. DiskFollowsMemory(n)'
  <2>1. CASE newer
    BY <1>1, <1>2, <1>5, <1>a, <1>b, <2>1 DEF NodeInvariant, DiskFollowsMemory
  <2>2. CASE ~newer /\ changed
    <3>1. vote = Nil /\ voted_for[n] = Nil /\ effect'[n].save
      BY <1>3, <1>a, <1>b, <2>2
    <3> QED BY <1>1, <1>2, <1>5, <2>2, <3>1
            DEF NodeInvariant, DiskFollowsMemory
  <2>3. CASE ~newer /\ ~changed
    <3>1. voted_for'[n] = voted_for[n] /\ current_term'[n] = current_term[n]
      BY <1>1, <1>2, <1>b, <2>3
    <3>2. ~effect'[n].save /\ ~effect[n].save
      BY <1>2, <1>a, <2>3
    <3> QED BY <1>5, <3>1, <3>2
            DEF NodeInvariant, DiskFollowsMemory, HardState
  <2> QED BY <2>1, <2>2, <2>3
<1>8. PendingVoteIsHeld(n)'
  BY <1>2 DEF PendingVoteIsHeld
<1>9. CountedVotesWereSent(n)'
  <2>1. CASE newer
    BY <1>2, <2>1 DEF CountedVotesWereSent
  <2>2. CASE ~newer /\ role[n] # "Follower"
    BY <1>1, <1>2, <1>3, <1>4, <1>5, <2>2
    DEF NodeInvariant, CountedVotesWereSent
  <2>3. CASE ~newer /\ role[n] = "Follower"
    BY <1>2, <2>3 DEF CountedVotesWereSent
  <2> QED BY <2>1, <2>2, <2>3
<1> QED
  BY <1>6, <1>7, <1>8, <1>9, LocalStep DEF NodeInvariant

(* Leaving a term for a later one gives up vote, candidacy and leadership. *)
LEMMA NewTermVotes ==
    ASSUME TypeOK, VoteInvariant, NEW n \in Node, NEW term \in Nat,
           term > current_term[n],
           UNCHANGED <<storage, msgs>>,
           \A p \in Node \ {n} :
              /\ role'[p] = role[p]
              /\ current_term'[p] = current_term[p]
              /\ voted_for'[p] = voted_for[p]
              /\ granted_votes'[p] = granted_votes[p]
              /\ effect'[p] = effect[p],
           current_term'[n] = term, voted_for'[n] = Nil,
           role'[n] = "Follower", PendingVoteIsHeld(n)'
    PROVE  VoteInvariant'
<1>1. DiskFollowsMemory(n)'
  BY DEF VoteInvariant, NodeInvariant, DiskFollowsMemory, TypeOK, CoreTypeOK,
         State
<1>2. CountedVotesWereSent(n)'
  BY DEF CountedVotesWereSent
<1> QED BY <1>1, <1>2, LocalStep DEF NodeInvariant

(* A newer term takes the vote of the old one away.                        *)
LEMMA StepDownVotes ==
    ASSUME TypeOK, VoteInvariant, NEW n \in Node, NEW term \in Nat,
           NEW leader, Idle(n), term > current_term[n],
           StepDown(n, term, leader), UNCHANGED <<storage, msgs, effect>>
    PROVE  VoteInvariant'
<1>1. PendingVoteIsHeld(n)'
  BY DEF PendingVoteIsHeld, Idle, NoEffect
<1> QED BY <1>1, NewTermVotes DEF StepDown, TypeOK, CoreTypeOK

(* A candidate counts votes that were sent to it.                          *)
LEMMA VoteResponseVotes ==
    ASSUME TypeOK, VoteInvariant, NEW n \in Node, NEW m \in msgs,
           m \in VoteResponse, m.to = n, handle_vote_response(n, m),
           UNCHANGED <<storage, msgs>>
    PROVE  VoteInvariant'
<1> DEFINE granted == granted_votes[n] \cup {m.from}
<1>0. /\ m.from \in Node /\ m.term \in Nat /\ m.type = "VoteResponse"
      /\ ~effect[n].save
  BY DEF VoteResponse, handle_vote_response, Idle, NoEffect
<1>1. CASE m.term > current_term[n] /\ StepDown(n, m.term, Nil)
           /\ UNCHANGED effect
  BY <1>0, <1>1, StepDownVotes DEF handle_vote_response
<1>2. CASE /\ IsNewVote(n, m)
           /\ granted_votes' = [granted_votes EXCEPT ![n] = granted]
           /\ IF Majority(granted)
              THEN /\ role' = [role EXCEPT ![n] = "Leader"]
                   /\ Emit(n, FALSE, {HeartbeatOf(n)})
              ELSE UNCHANGED <<role, effect>>
           /\ UNCHANGED <<current_term, voted_for, leader_id>>
  <2>1. <<m.from, current_term[n], n>> \in Votes
    BY <1>0, <1>2, VoteMembership DEF IsNewVote
  <2>2. /\ granted_votes'[n] = granted
        /\ ~effect'[n].save
        /\ role'[n] = "Leader" => Majority(granted)
    BY <1>0, <1>2 DEF TypeOK, CoreTypeOK, Emit, IsNewVote
  <2>3. Votes' = Votes
    BY DEF Votes
  <2>4. NodeInvariant(n) /\ role[n] = "Candidate"
    BY <1>2 DEF VoteInvariant, IsNewVote
  <2>5. DiskFollowsMemory(n)'
    BY <1>0, <1>2, <2>2, <2>4 DEF NodeInvariant, DiskFollowsMemory, HardState
  <2>6. PendingVoteIsHeld(n)'
    <3>1. CASE Majority(granted)
      BY <1>2, <3>1 DEF PendingVoteIsHeld, Emit, HeartbeatOf, TypeOK,
                        CoreTypeOK
    <3>2. CASE ~Majority(granted)
      BY <1>2, <2>4, <3>2 DEF PendingVoteIsHeld, NodeInvariant
    <3> QED BY <3>1, <3>2
  <2>7. CountedVotesWereSent(n)'
    BY <1>2, <2>1, <2>2, <2>3, <2>4 DEF NodeInvariant, CountedVotesWereSent
  <2>8. \A p \in Node \ {n} :
              /\ role'[p] = role[p]
              /\ current_term'[p] = current_term[p]
              /\ voted_for'[p] = voted_for[p]
              /\ granted_votes'[p] = granted_votes[p]
              /\ effect'[p] = effect[p]
    BY <1>2 DEF TypeOK, CoreTypeOK, Emit
  <2> QED BY <2>5, <2>6, <2>7, <2>8, LocalStep DEF NodeInvariant
<1> QED BY <1>1, <1>2 DEF handle_vote_response

(* A heartbeat of a newer term takes the vote away, one of the same term   *)
(* does not.                                                               *)
LEMMA HeartbeatVotes ==
    ASSUME TypeOK, VoteInvariant, NEW n \in Node, NEW m \in HeartbeatRequest,
           handle_heartbeat(n, m), UNCHANGED <<storage, msgs>>
    PROVE  VoteInvariant'
<1>1. /\ m.term \in Nat /\ current_term[n] \in Nat /\ ~effect[n].save
      /\ NodeInvariant(n)
  BY DEF HeartbeatRequest, TypeOK, CoreTypeOK, handle_heartbeat, Idle,
         NoEffect, VoteInvariant
<1>2. /\ \A p \in Node \ {n} :
              /\ role'[p] = role[p]
              /\ current_term'[p] = current_term[p]
              /\ voted_for'[p] = voted_for[p]
              /\ granted_votes'[p] = granted_votes[p]
              /\ effect'[p] = effect[p]
  <2>1. \A p \in Node \ {n} : effect'[p] = effect[p]
    BY DEF handle_heartbeat, Emit, TypeOK, CoreTypeOK
  <2>2. CASE UNCHANGED electionVars
    BY <2>1, <2>2 DEF electionVars
  <2>3. CASE /\ current_term' = [current_term EXCEPT ![n] = m.term]
             /\ voted_for' = [voted_for EXCEPT
                   ![n] = IF m.term > current_term[n] THEN Nil ELSE @]
             /\ role' = [role EXCEPT ![n] = "Follower"]
             /\ granted_votes' = [granted_votes EXCEPT ![n] = {}]
    BY <2>1, <2>3 DEF TypeOK, CoreTypeOK
  <2> QED BY <2>2, <2>3 DEF handle_heartbeat
<1>3. PendingVoteIsHeld(n)' /\ ~effect'[n].save
  BY DEF handle_heartbeat, Emit, HeartbeatResponseOf, PendingVoteIsHeld,
         TypeOK, CoreTypeOK
<1>4. CASE m.term < current_term[n]
  <2>1. UNCHANGED electionVars
    BY <1>1, <1>4 DEF handle_heartbeat, Emit, HeartbeatResponseOf
  <2>2. Votes' = Votes
    BY DEF Votes
  <2>3. DiskFollowsMemory(n)' /\ CountedVotesWereSent(n)'
    BY <1>1, <1>3, <2>1, <2>2
    DEF electionVars, NodeInvariant, DiskFollowsMemory, HardState,
        CountedVotesWereSent
  <2> QED BY <1>2, <1>3, <2>3, LocalStep DEF NodeInvariant
<1>5. CASE m.term = current_term[n]
  <2>1. /\ current_term'[n] = current_term[n] /\ voted_for'[n] = voted_for[n]
        /\ role'[n] = "Follower"
    BY <1>1, <1>5
    DEF handle_heartbeat, Emit, HeartbeatResponseOf, TypeOK, CoreTypeOK
  <2>2. DiskFollowsMemory(n)' /\ CountedVotesWereSent(n)'
    BY <1>1, <1>3, <2>1
    DEF NodeInvariant, DiskFollowsMemory, HardState, CountedVotesWereSent
  <2> QED BY <1>2, <1>3, <2>2, LocalStep DEF NodeInvariant
<1>6. CASE m.term > current_term[n]
  <2>1. /\ current_term'[n] = m.term /\ voted_for'[n] = Nil
        /\ role'[n] = "Follower"
    BY <1>1, <1>6
    DEF handle_heartbeat, Emit, HeartbeatResponseOf, TypeOK, CoreTypeOK
  <2> QED BY <1>1, <1>2, <1>3, <1>6, <2>1, NewTermVotes
<1> QED BY <1>1, <1>4, <1>5, <1>6

(* A step that changes no election state and emits no vote.                *)
LEMMA NeutralVotes ==
    ASSUME TypeOK, VoteInvariant, NEW n \in Node,
           UNCHANGED <<electionVars, storage, msgs>>,
           \A p \in Node \ {n} : effect'[p] = effect[p],
           effect'[n].save = effect[n].save,
           PendingVoteIsHeld(n)'
    PROVE  VoteInvariant'
<1>1. Votes' = Votes
  BY DEF Votes
<1>2. DiskFollowsMemory(n)' /\ CountedVotesWereSent(n)'
  BY <1>1 DEF VoteInvariant, NodeInvariant, DiskFollowsMemory, HardState,
              CountedVotesWereSent, electionVars
<1> QED BY <1>2, LocalStep DEF NodeInvariant, electionVars

(* Taking a message from the network preserves the vote invariant.         *)
LEMMA ReceiveVotes ==
    ASSUME TypeOK, VoteInvariant, NEW n \in Node, NEW m \in msgs,
           Receive(n, m)
    PROVE  VoteInvariant'
<1>1. m \in Message
  BY DEF TypeOK
<1>2. CASE m.type = "RequestVote" /\ handle_request_vote(n, m)
  BY <1>1, <1>2, MessageKinds, RequestVoteVotes DEF Receive
<1>3. CASE /\ m.type = "VoteResponse" /\ m.to = n
           /\ handle_vote_response(n, m)
  BY <1>1, <1>3, MessageKinds, VoteResponseVotes DEF Receive
<1>4. CASE m.type = "Heartbeat" /\ handle_heartbeat(n, m)
  BY <1>1, <1>4, MessageKinds, HeartbeatVotes DEF Receive
<1>5. CASE m.type = "HeartbeatResponse" /\ handle_heartbeat_response(n, m)
  <2>1. m.term \in Nat /\ UNCHANGED <<storage, msgs, effect>> /\ Idle(n)
    BY <1>1, <1>5, MessageKinds
    DEF HeartbeatResponse, Receive, handle_heartbeat_response
  <2>2. PendingVoteIsHeld(n)'
    BY <2>1 DEF PendingVoteIsHeld, Idle, NoEffect
  <2>3. CASE m.term > current_term[n] /\ StepDown(n, m.term, m.leader_id)
    BY <2>1, <2>3, StepDownVotes
  <2>4. CASE UNCHANGED electionVars
    BY <2>1, <2>2, <2>4, NeutralVotes
  <2> QED BY <1>5, <2>3, <2>4 DEF handle_heartbeat_response
<1> QED BY <1>2, <1>3, <1>4, <1>5 DEF Receive

(* Saving the hard state makes the vote that waits durable.                *)
LEMMA PersistVotes ==
    ASSUME TypeOK, VoteInvariant, NEW n \in Node, persist_hard_state(n)
    PROVE  VoteInvariant'
<1>1. /\ storage' = [storage EXCEPT ![n] = HardState(n)]
      /\ effect' = [effect EXCEPT ![n].save = FALSE]
      /\ UNCHANGED <<role, current_term, voted_for, granted_votes, msgs>>
  BY DEF persist_hard_state, electionVars
<1>2. Votes' = Votes
  BY <1>1 DEF Votes
<1>3. ASSUME NEW p \in Node
      PROVE  NodeInvariant(p)'
  <2>1. effect'[p].out = effect[p].out
    BY <1>1 DEF TypeOK, CoreTypeOK, Effect
  <2>2. PendingVoteIsHeld(p)' /\ CountedVotesWereSent(p)'
    BY <1>1, <1>2, <2>1
    DEF VoteInvariant, NodeInvariant, PendingVoteIsHeld, CountedVotesWereSent
  <2>3. CASE p = n
    <3>1. storage'[n] = HardState(n) /\ HardState(n)' = HardState(n)
      BY <1>1 DEF TypeOK, HardState
    <3> QED BY <1>1, <2>2, <2>3, <3>1
            DEF NodeInvariant, DiskFollowsMemory, HardState, TypeOK,
                CoreTypeOK
  <2>4. CASE p # n
    <3>1. storage'[p] = storage[p] /\ effect'[p] = effect[p]
      BY <1>1, <2>4 DEF TypeOK, CoreTypeOK
    <3> QED BY <1>1, <2>2, <3>1
            DEF VoteInvariant, NodeInvariant, DiskFollowsMemory, HardState
  <2> QED BY <2>3, <2>4
<1>4. VoteIsDurable'
  <2> SUFFICES ASSUME NEW v \in Votes
               PROVE  \/ storage'[v[1]].current_term > v[2]
                      \/ storage'[v[1]] = [current_term |-> v[2],
                                           voted_for |-> v[3]]
    BY <1>2 DEF VoteIsDurable
  <2>1. v[1] \in Node /\ v[2] \in Nat /\ v[3] \in Node /\ v[3] # Nil
    BY VoteType, NodeAssumption
  <2>2. CASE v[1] # n
    BY <1>1, <2>1, <2>2 DEF VoteInvariant, VoteIsDurable, TypeOK
  <2>3. CASE v[1] = n
    <3>1. /\ storage'[n] = [current_term |-> current_term[n],
                            voted_for |-> voted_for[n]]
          /\ current_term[n] \in Nat /\ storage[n].current_term \in Nat
      BY <1>1 DEF HardState, TypeOK, CoreTypeOK, State
    <3>2. \/ storage[n].current_term > v[2]
          \/ storage[n] = [current_term |-> v[2], voted_for |-> v[3]]
      BY <2>3 DEF VoteInvariant, VoteIsDurable
    <3>3. DiskFollowsMemory(n)
      BY DEF VoteInvariant, NodeInvariant
    <3> QED BY <2>1, <2>3, <3>1, <3>2, <3>3 DEF DiskFollowsMemory
  <2> QED BY <2>2, <2>3
<1>5. OneVotePerTerm'
  BY <1>2 DEF VoteInvariant, OneVotePerTerm
<1> QED BY <1>3, <1>4, <1>5 DEF VoteInvariant

(* Sending.  A new vote of n is for the current term of n and is the vote  *)
(* that memory and, nothing being left to save, the file hold.             *)
LEMMA NewVoteIsHeld ==
    ASSUME TypeOK, VoteInvariant, NEW n \in Node, Send(n),
           NEW v \in Votes', v \notin Votes
    PROVE  /\ v[1] = n /\ v[2] = current_term[n] /\ v[3] = voted_for[n]
           /\ storage[n] = [current_term |-> v[2], voted_for |-> v[3]]
<1>1. PICK m \in msgs' :
          \/ /\ m.type = "VoteResponse" /\ m.vote_granted
             /\ v = <<m.from, m.term, m.to>>
          \/ /\ m.type = "RequestVote"
             /\ v = <<m.candidate_id, m.term, m.candidate_id>>
  BY DEF Votes
<1>2. m \in effect[n].out /\ m \in Message
  <2>1. m \notin msgs
    BY <1>1, VoteMembership
  <2> QED BY <2>1 DEF Send, TypeOK, CoreTypeOK, Effect
<1>3. PendingVoteIsHeld(n) /\ DiskFollowsMemory(n) /\ ~effect[n].save
  BY DEF VoteInvariant, NodeInvariant, Send
<1>4. v[1] = n /\ v[2] = current_term[n] /\ v[3] = voted_for[n]
  BY <1>1, <1>2, <1>3 DEF PendingVoteIsHeld
<1>5. v[3] \in Node
  BY <1>1, <1>2, MessageKinds DEF VoteResponse, VoteRequest
<1> QED BY <1>3, <1>4, <1>5, NodeAssumption DEF DiskFollowsMemory, HardState

(* Only a vote that was saved is sent.                                     *)
LEMMA SendVotes ==
    ASSUME TypeOK, VoteInvariant, NEW n \in Node, Send(n)
    PROVE  VoteInvariant'
<1>1. /\ msgs \subseteq msgs'
      /\ effect' = [effect EXCEPT ![n] = NoEffect]
      /\ UNCHANGED <<role, current_term, voted_for, granted_votes, storage>>
  BY DEF Send, electionVars
<1>2. Votes \subseteq Votes'
  BY <1>1 DEF Votes
<1>3. ASSUME NEW p \in Node
      PROVE  NodeInvariant(p)'
  <2>1. CountedVotesWereSent(p)'
    BY <1>1, <1>2 DEF VoteInvariant, NodeInvariant, CountedVotesWereSent
  <2>2. CASE p = n
    <3>1. effect'[n] = NoEffect /\ ~effect[n].save /\ ~effect'[n].save
      BY <1>1 DEF TypeOK, CoreTypeOK, Send, NoEffect
    <3>2. PendingVoteIsHeld(n)'
      BY <3>1 DEF PendingVoteIsHeld, NoEffect
    <3>3. DiskFollowsMemory(n)'
      BY <1>1, <3>1 DEF VoteInvariant, NodeInvariant, DiskFollowsMemory,
                        HardState
    <3> QED BY <2>1, <2>2, <3>2, <3>3 DEF NodeInvariant
  <2>3. CASE p # n
    <3>1. effect'[p] = effect[p]
      BY <1>1, <2>3 DEF TypeOK, CoreTypeOK
    <3> QED BY <1>1, <2>1, <3>1
            DEF VoteInvariant, NodeInvariant, DiskFollowsMemory, HardState,
                PendingVoteIsHeld
  <2> QED BY <2>2, <2>3
<1>4. VoteIsDurable'
  <2> SUFFICES ASSUME NEW v \in Votes'
               PROVE  \/ storage[v[1]].current_term > v[2]
                      \/ storage[v[1]] = [current_term |-> v[2],
                                          voted_for |-> v[3]]
    BY <1>1 DEF VoteIsDurable
  <2>1. CASE v \in Votes
    BY <2>1 DEF VoteInvariant, VoteIsDurable
  <2>2. CASE v \notin Votes
    BY <2>2, NewVoteIsHeld
  <2> QED BY <2>1, <2>2
<1>5. OneVotePerTerm'
  <2> SUFFICES ASSUME NEW v \in Votes', NEW w \in Votes',
                      v[1] = w[1], v[2] = w[2]
               PROVE  v[3] = w[3]
    BY DEF OneVotePerTerm
  <2>1. ASSUME NEW x \in Votes, x[1] = n, x[2] = current_term[n]
        PROVE  x[3] = voted_for[n]
    <3>1. x[3] \in Node /\ x = <<n, current_term[n], x[3]>>
      BY <2>1, VoteType
    <3>2. <<n, current_term[n], x[3]>> \in Votes
      BY <3>1
    <3> QED BY <3>1, <3>2, SentVoteBinds
  <2>2. CASE v \in Votes /\ w \in Votes
    BY <2>2 DEF VoteInvariant, OneVotePerTerm
  <2>3. ASSUME NEW x \in Votes', x \notin Votes
        PROVE  x[1] = n /\ x[2] = current_term[n] /\ x[3] = voted_for[n]
    BY <2>3, NewVoteIsHeld
  <2>4. CASE v \notin Votes \/ w \notin Votes
    <3>1. v[1] = n /\ v[2] = current_term[n]
      BY <2>3, <2>4
    <3>2. ASSUME NEW x \in Votes', x[1] = n, x[2] = current_term[n]
          PROVE  x[3] = voted_for[n]
      <4>1. CASE x \in Votes
        BY <2>1, <3>2, <4>1
      <4>2. CASE x \notin Votes
        BY <2>3, <4>2
      <4> QED BY <4>1, <4>2
    <3>3. v[3] = voted_for[n]
      BY <3>1, <3>2
    <3>4. w[3] = voted_for[n]
      BY <3>1, <3>2
    <3> QED BY <3>3, <3>4
  <2> QED BY <2>2, <2>4
<1> QED BY <1>3, <1>4, <1>5 DEF VoteInvariant

(* A restart from a file that is the old one or a newer term with the old  *)
(* vote.                                                                   *)
LEMMA BootVotes ==
    ASSUME TypeOK, VoteInvariant, NEW n \in Node, NEW state \in State,
           Boot(n, state), storage' = [storage EXCEPT ![n] = state],
           \/ state = storage[n]
           \/ state.current_term > storage[n].current_term
           \/ /\ state.current_term = storage[n].current_term
              /\ storage[n].voted_for = Nil
    PROVE  VoteInvariant'
<1>1. /\ storage'[n] = state
      /\ current_term'[n] = state.current_term
      /\ voted_for'[n] = state.voted_for
      /\ role'[n] = "Follower"
      /\ effect'[n] = NoEffect
      /\ msgs' = msgs
  BY DEF Boot, TypeOK, CoreTypeOK
<1>2. Votes' = Votes
  BY <1>1 DEF Votes
<1>3. ASSUME NEW p \in Node, p # n
      PROVE  NodeInvariant(p)'
  <2>1. /\ storage'[p] = storage[p] /\ current_term'[p] = current_term[p]
        /\ voted_for'[p] = voted_for[p] /\ role'[p] = role[p]
        /\ granted_votes'[p] = granted_votes[p] /\ effect'[p] = effect[p]
    BY <1>3 DEF Boot, TypeOK, CoreTypeOK
  <2> QED BY <1>2, <2>1
          DEF VoteInvariant, NodeInvariant, DiskFollowsMemory, HardState,
              PendingVoteIsHeld, CountedVotesWereSent
<1>4. NodeInvariant(n)'
  BY <1>1 DEF NodeInvariant, DiskFollowsMemory, HardState, PendingVoteIsHeld,
              CountedVotesWereSent, NoEffect, State
<1>5. VoteIsDurable'
  <2> SUFFICES ASSUME NEW v \in Votes
               PROVE  \/ storage'[v[1]].current_term > v[2]
                      \/ storage'[v[1]] = [current_term |-> v[2],
                                           voted_for |-> v[3]]
    BY <1>2 DEF VoteIsDurable
  <2>1. /\ v[1] \in Node /\ v[2] \in Nat
        /\ \/ storage[v[1]].current_term > v[2]
           \/ storage[v[1]] = [current_term |-> v[2], voted_for |-> v[3]]
    BY VoteType DEF VoteInvariant, VoteIsDurable
  <2>2. CASE v[1] # n \/ state = storage[n]
    BY <2>1, <2>2 DEF TypeOK
  <2>3. CASE v[1] = n /\ state.current_term > storage[n].current_term
    BY <1>1, <2>1, <2>3 DEF TypeOK, State
  <2>4. CASE /\ v[1] = n /\ state.current_term = storage[n].current_term
             /\ storage[n].voted_for = Nil
    <3>1. v[3] # Nil
      BY VoteType, NodeAssumption
    <3> QED BY <1>1, <2>1, <2>4, <3>1 DEF TypeOK, State
  <2> QED BY <2>2, <2>3, <2>4
<1>6. OneVotePerTerm'
  BY <1>2 DEF VoteInvariant, OneVotePerTerm
<1> QED BY <1>3, <1>4, <1>5, <1>6 DEF VoteInvariant

(* What an interrupted save leaves behind is such a file.                  *)
LEMMA HalfSavedIsSafe ==
    ASSUME TypeOK, VoteInvariant, NEW n \in Node, effect[n].save,
           NEW s \in HalfSaved(n)
    PROVE  \/ s.current_term > storage[n].current_term
           \/ /\ s.current_term = storage[n].current_term
              /\ storage[n].voted_for = Nil
<1>1. /\ storage[n].current_term \in Nat /\ current_term[n] \in Nat
      /\ DiskFollowsMemory(n)
  BY DEF TypeOK, CoreTypeOK, State, VoteInvariant, NodeInvariant
<1>2. s.current_term = current_term[n]
  BY DEF HalfSaved
<1> QED BY <1>1, <1>2 DEF DiskFollowsMemory

(* No vote has been sent in the initial state.                             *)
LEMMA InitVotes == Init => VoteInvariant
<1> SUFFICES ASSUME Init
             PROVE  VoteInvariant
  OBVIOUS
<1>1. Votes = {}
  BY DEF Init, Votes
<1> QED
  BY <1>1 DEF Init, VoteInvariant, NodeInvariant, DiskFollowsMemory,
              HardState, PendingVoteIsHeld, CountedVotesWereSent, NoEffect,
              VoteIsDurable, OneVotePerTerm

(* Every step preserves the vote invariant.                                *)
LEMMA NextVotes == TypeOK /\ VoteInvariant /\ [Next]_vars => VoteInvariant'
<1> SUFFICES ASSUME TypeOK, VoteInvariant, [Next]_vars
             PROVE  VoteInvariant'
  OBVIOUS
<1>1. CASE UNCHANGED vars
  BY <1>1 DEF vars, coreVars, electionVars, VoteInvariant, NodeInvariant,
              DiskFollowsMemory, HardState, PendingVoteIsHeld,
              CountedVotesWereSent, VoteIsDurable, OneVotePerTerm, Votes
<1>2. ASSUME NEW n \in Node, Timeout(n)
      PROVE  VoteInvariant'
  <2>1. CASE handle_election_timeout(n)
    BY <1>2, <2>1, ElectionTimeoutVotes DEF Timeout
  <2>2. CASE handle_heartbeat_timeout(n)
    <3>1. PendingVoteIsHeld(n)' /\ effect'[n].save = effect[n].save
      BY <2>2 DEF PendingVoteIsHeld, handle_heartbeat_timeout, Idle, NoEffect,
                  Emit, HeartbeatOf, TypeOK, CoreTypeOK
    <3> QED BY <1>2, <2>2, <3>1, NeutralVotes
            DEF Timeout, handle_heartbeat_timeout, Emit, TypeOK, CoreTypeOK
  <2> QED BY <1>2, <2>1, <2>2 DEF Timeout
<1>3. ASSUME NEW n \in Node, NEW m \in msgs, Receive(n, m)
      PROVE  VoteInvariant'
  BY <1>3, ReceiveVotes
<1>4. ASSUME NEW n \in Node, Write(n)
      PROVE  VoteInvariant'
  <2>1. UNCHANGED <<electionVars, effect, storage, msgs>>
    BY <1>4 DEF Write, handle_local_entry_appended
  <2>2. PendingVoteIsHeld(n)'
    BY <2>1 DEF PendingVoteIsHeld, electionVars, VoteInvariant, NodeInvariant
  <2> QED BY <2>1, <2>2, NeutralVotes
<1>5. ASSUME NEW n \in Node, persist_hard_state(n)
      PROVE  VoteInvariant'
  BY <1>5, PersistVotes
<1>6. ASSUME NEW n \in Node, Send(n)
      PROVE  VoteInvariant'
  BY <1>6, SendVotes
<1>7. ASSUME NEW n \in Node, Crash(n)
      PROVE  VoteInvariant'
  <2>1. storage' = [storage EXCEPT ![n] = storage[n]]
    BY <1>7 DEF Crash, TypeOK
  <2> QED BY <1>7, <2>1, BootVotes, StateType DEF Crash, load_state
<1>8. ASSUME NEW n \in Node, CrashDuringSave(n)
      PROVE  VoteInvariant'
  <2>1. PICK s \in HalfSaved(n) : /\ Boot(n, s)
                                  /\ storage' = [storage EXCEPT ![n] = s]
    BY <1>8 DEF CrashDuringSave
  <2>2. s \in State /\ effect[n].save
    BY <1>8, StateType DEF CrashDuringSave
  <2> QED BY <2>1, <2>2, BootVotes, HalfSavedIsSafe
<1> QED
  BY <1>1, <1>2, <1>3, <1>4, <1>5, <1>6, <1>7, <1>8 DEF Next, Step

(* The vote invariant holds in every behaviour.                            *)
LEMMA VotesCorrect == Spec => [](TypeOK /\ VoteInvariant)
BY InitType, NextType, InitVotes, NextVotes, PTL DEF Spec

(* Two nodes are never leaders of the same term (handle_vote_response),    *)
(* for any number of voters, with crashes between any two steps.           *)
THEOREM ElectionIsSafe == Spec => []ElectionSafety
BY VotesCorrect, OneLeader, PTL

(* No voter gives two votes in one term (handle_request_vote, load_state). *)
THEOREM VotesAreUnique == Spec => []OneVotePerTerm
<1>1. VoteInvariant => OneVotePerTerm
  BY DEF VoteInvariant
<1> QED BY <1>1, VotesCorrect, PTL

(* A vote that was sent is on disk (Runtime::execute saves, then sends).   *)
THEOREM VotesAreDurable == Spec => []VoteIsDurable
<1>1. VoteInvariant => VoteIsDurable
  BY DEF VoteInvariant
<1> QED BY <1>1, VotesCorrect, PTL

(* The state.metadata file never goes back to an older term and never      *)
(* replaces a vote within a term (persist_hard_state, save_state).         *)
THEOREM HardStateIsStable == Spec => DurableVoteIsStable
<1> DEFINE Stable(n) ==
        /\ storage'[n].current_term >= storage[n].current_term
        /\ storage'[n].current_term = storage[n].current_term
           /\ storage[n].voted_for # Nil
           => storage'[n].voted_for = storage[n].voted_for
<1>1. TypeOK /\ VoteInvariant /\ [Next]_vars => [\A n \in Node : Stable(n)]_vars
  <2> SUFFICES ASSUME TypeOK, VoteInvariant, Next, NEW n \in Node
               PROVE  Stable(n)
    OBVIOUS
  <2>1. /\ DiskFollowsMemory(n) /\ storage[n] \in State
        /\ current_term[n] \in Nat /\ voted_for[n] \in NodeOrNil
    BY DEF TypeOK, CoreTypeOK, VoteInvariant, NodeInvariant
  <2>2. CASE storage'[n] = storage[n]
    BY <2>1, <2>2 DEF State
  <2>3. CASE storage'[n] = HardState(n)
    BY <2>1, <2>3 DEF HardState, State, DiskFollowsMemory
  <2>4. CASE effect[n].save /\ storage'[n] \in HalfSaved(n)
    <3>1. storage[n].current_term \in Nat /\ storage'[n].current_term \in Nat
      BY <2>1, <2>4 DEF HalfSaved, State
    <3> QED BY <2>4, <3>1, HalfSavedIsSafe
  <2>5. \/ storage'[n] \in {storage[n], HardState(n)}
        \/ effect[n].save /\ storage'[n] \in HalfSaved(n)
    <3>1. ASSUME NEW p \in Node, persist_hard_state(p)
          PROVE  storage'[n] \in {storage[n], HardState(n)}
      BY <3>1 DEF persist_hard_state, TypeOK
    <3>2. ASSUME NEW p \in Node, CrashDuringSave(p)
          PROVE  \/ storage'[n] = storage[n]
                 \/ effect[n].save /\ storage'[n] \in HalfSaved(n)
      BY <3>2 DEF CrashDuringSave, TypeOK
    <3>3. ASSUME NEW p \in Node,
                 \/ Timeout(p) \/ (\E m \in msgs : Receive(p, m))
                 \/ Write(p) \/ Send(p) \/ Crash(p)
          PROVE  storage'[n] = storage[n]
      BY <3>3 DEF Timeout, Receive, Write, Send, Crash
    <3> QED BY <3>1, <3>2, <3>3 DEF Next, Step
  <2> QED BY <2>2, <2>3, <2>4, <2>5
<1> QED BY <1>1, VotesCorrect, PTL DEF Spec, DurableVoteIsStable
=============================================================================
