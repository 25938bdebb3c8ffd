------------------------ MODULE RaftReplicationProof ------------------------
(***************************************************************************)
(* Theorems about RaftReplication: replication is safe under the first     *)
(* leader of the cluster, for every number of voters, entries and failed   *)
(* elections, and whatever crashes, gets lost or comes late.               *)
(*                                                                         *)
(* That is as far as the code goes.  Under a second leader it breaks the   *)
(* same properties (the runs ConflictCommitted, AssertionFails and         *)
(* StaleTermLeader).                                                       *)
(***************************************************************************)
EXTENDS RaftReplication, RaftLeaderProof, SequenceTheorems

AppendMessage == AppendEntriesRequest \cup AppendEntriesResponse

ReplicationTypeOK == TypeOK /\ appends \subseteq AppendMessage

-----------------------------------------------------------------------------
(* The inductive invariant.  Before the election nothing was written.      *)

(* A granted vote answers a request that was sent.                         *)
Asked(m) ==
    m.type = "VoteResponse" /\ m.vote_granted =>
        \E r \in msgs : /\ r.type = "RequestVote"
                        /\ r.candidate_id = m.to
                        /\ r.term = m.term

(* n has no entries and knows of none.                                     *)
Blank(n) ==
    /\ role[n] # "Leader"
    /\ log[n] = <<>>
    /\ last_log_index[n] = 0
    /\ commit_index[n] = 0
    /\ \A p \in Node : match_index[n][p] = 0

IsElectionMessage(m) == m.type \in {"RequestVote", "VoteResponse"}

Calm ==
    /\ VoteInvariant
    /\ HintInvariant
    /\ appends = {}
    /\ \A n \in Node :
          /\ Blank(n)
          /\ \A m \in effect[n].out : IsElectionMessage(m) /\ Asked(m)
    /\ \A m \in msgs : IsElectionMessage(m) /\ Asked(m)

Quiet == Calm /\ \A v \in Votes : ~Elected(v[3], v[2])

-----------------------------------------------------------------------------
(* After it, c is the one elected leader and t its term.                   *)

(* v is bound to c in term t: memory, file, messages and votes all say so. *)
(* A node that has not voted is not bound, and the reject path of          *)
(* handle_append_entries may carry an old vote of such a node into term t  *)
(* without saving it; VoteInvariant does not hold any more.                *)
Bound(v, c, t) ==
    /\ \/ storage[v].current_term > t
       \/ storage[v] = [current_term |-> t, voted_for |-> c]
    /\ \/ current_term[v] > t
       \/ current_term[v] = t /\ voted_for[v] = c /\ ~effect[v].save
    /\ \A m \in effect[v].out :
          /\ m.type = "VoteResponse" /\ m.vote_granted /\ m.term = t
                => m.to = c
          /\ m.type = "RequestVote" /\ m.term = t => m.candidate_id = c
    /\ \A w \in Votes : w[1] = v /\ w[2] = t => w[3] = c

BoundQuorum(c, t) ==
    \E Q \in SUBSET Node : /\ Majority(Q)
                           /\ c \in Q
                           /\ \A v \in Q : Bound(v, c, t)

(* The requests and answers of n are its own, and no request is ahead of   *)
(* the file of the node that sent it.                                      *)
Requests(n) ==
    /\ storage[n].current_term <= current_term[n]
    /\ \A m \in effect[n].out :
          /\ m.type = "VoteResponse" => m.from = n
          /\ m.type = "RequestVote" =>
                /\ m.candidate_id = n
                /\ m.term = current_term[n]
                /\ effect[n].save \/ m.term <= storage[n].current_term
    /\ \A m \in msgs : m.type = "RequestVote" /\ m.candidate_id = n =>
          m.term <= storage[n].current_term

(* A candidate has counted votes that were sent, but for its own that may  *)
(* wait with its request; or the reject path has carried its candidacy of  *)
(* an earlier term into term t, where nobody was asked to vote for it.     *)
Counts(n, t) ==
    role[n] = "Candidate" =>
        \/ \A v \in granted_votes[n] :
              \/ <<v, current_term[n], n>> \in Votes
              \/ v = n /\ \E r \in effect[n].out : r.type = "RequestVote"
        \/ /\ current_term[n] = t
           /\ \A r \in msgs \cup effect[n].out :
                 r.type = "RequestVote" /\ r.candidate_id = n => r.term # t

(* A majority has the first i entries.                                     *)
Committed(i) == Majority({p \in Node : i <= Len(log[p])})

(* The end of the log that n knows, what it takes for committed, and the   *)
(* progress of its peers lie within the logs they are about.               *)
Positions(n, c, t) ==
    /\ log[n] \in Seq({t})
    /\ Len(log[n]) <= Len(log[c])
    /\ last_log_index[n] <= Len(log[n])
    /\ last_log_index[n] > 0 => current_term[n] >= t
    /\ commit_index[n] <= last_log_index[n]
    /\ Committed(commit_index[n])
    /\ \A p \in Node : match_index[n][p] <= Len(log[p])

(* c leads at most once: it is a candidate of term t before it writes.     *)
Leads(n, c, t) ==
    /\ role[n] = "Leader" => /\ n = c
                             /\ current_term[n] = t
                             /\ last_log_index[n] = Len(log[n])
    /\ role[n] = "Candidate" /\ n = c /\ current_term[n] = t
          => log[n] = <<>>

(* A message says no more than the logs hold.                              *)
Truthful(m, c, t) ==
    /\ Asked(m)
    /\ m.type = "Heartbeat" => /\ m.leader_id = c
                               /\ m.term = t
                               /\ Committed(m.leader_commit_index)
    /\ m.type = "HeartbeatResponse" =>
          m.last_log_index <= Len(log[m.from])

TruthfulAppend(m, c, t) ==
    /\ m.type = "AppendEntries" =>
          /\ m.leader_id = c /\ m.term = t /\ m.to # c
          /\ m.entries \in Seq({t})
          /\ m.prev_log_index + Len(m.entries) <= Len(log[c])
          /\ Committed(m.commit_index)
    /\ m.type = "AppendEntriesResponse" =>
          /\ m.to = c /\ m.from # c
          /\ m.last_log_index <= Len(log[m.from])

NodeIsLed(n, c, t) ==
    /\ Requests(n)
    /\ Counts(n, t)
    /\ Positions(n, c, t)
    /\ Leads(n, c, t)
    /\ \A m \in effect[n].out : Truthful(m, c, t)

Led(c, t) ==
    /\ Elected(c, t)
    /\ BoundQuorum(c, t)
    /\ \A n \in Node : NodeIsLed(n, c, t)
    /\ \A m \in msgs : Truthful(m, c, t)
    /\ \A m \in appends : TruthfulAppend(m, c, t)

LeadershipInvariant ==
    FirstLeadership => Quiet \/ \E v \in Votes : Led(v[3], v[2])

-----------------------------------------------------------------------------
(* Type correctness, which needs no hypothesis.                            *)

(* The type field tells the two kinds of messages apart.                   *)
LEMMA AppendKinds ==
    ASSUME NEW m \in AppendMessage
    PROVE  /\ m.type = "AppendEntries" => m \in AppendEntriesRequest
           /\ m.type = "AppendEntriesResponse" => m \in AppendEntriesResponse
BY DEF AppendMessage, AppendEntriesRequest, AppendEntriesResponse

(* A step of RaftElection, or a write, is a step of that specification.    *)
LEMMA ElectIsNext ==
    ASSUME NEW n \in Node, Elect(n) \/ Write(n)
    PROVE  Acts(n) /\ Next
BY DEF Elect, Acts, Next, Step

(* The request of a leader for a peer is a message.                        *)
LEMMA RequestType ==
    ASSUME CoreTypeOK, NEW n \in Node, NEW p \in Node, NEW prev \in Nat,
           NEW u \in Nat, NEW l \in Seq(Nat)
    PROVE  RequestFor(n, p, prev, u, l) \in AppendEntriesRequest
<1>1. SubSeq(l, prev + 1, Len(l)) \in Seq(Nat)
  BY SubSeqProperties
<1>2. current_term[n] \in Nat /\ commit_index[n] \in Nat
  BY DEF CoreTypeOK
<1> QED BY <1>1, <1>2 DEF RequestFor, AppendEntriesRequest

(* The answer of a follower is a message.                                  *)
LEMMA ResponseType ==
    ASSUME NEW n \in Node, NEW m \in AppendEntriesRequest,
           NEW success \in BOOLEAN, NEW term \in Nat, NEW i \in Nat,
           NEW j \in Nat, NEW leader \in NodeOrNil
    PROVE  ResponseTo(n, m, success, term, <<i, j>>, leader)
                \in AppendEntriesResponse
<1>1. m.leader_id \in Node
  BY DEF AppendEntriesRequest
<1> QED BY <1>1 DEF ResponseTo, AppendEntriesResponse

(* What PersistEntries leaves behind is a log.                             *)
LEMMA PersistedType ==
    ASSUME TypeOK, NEW n \in Node, NEW m \in AppendEntriesRequest,
           PreviousEntryMatches(n, m)
    PROVE  /\ Persisted(n, m) \in Seq(Nat)
           /\ Len(Persisted(n, m)) \in Nat
           /\ TermAt(Persisted(n, m), Len(Persisted(n, m))) \in Nat
<1> DEFINE kept == IF Truncates(n, m) THEN SubSeq(log[n], 1, m.prev_log_index)
                                      ELSE log[n]
           rest == SubSeq(m.entries, Len(kept) - m.prev_log_index + 1,
                          Len(m.entries))
           l    == Persisted(n, m)
<1>1. /\ log[n] \in Seq(Nat) /\ m.entries \in Seq(Nat)
      /\ m.prev_log_index \in 0..Len(log[n])
  BY DEF TypeOK, AppendEntriesRequest, PreviousEntryMatches
<1>2. kept \in Seq(Nat) /\ Len(kept) >= m.prev_log_index
  BY <1>1, SubSeqProperties
<1> HIDE DEF kept
<1>3. rest \in Seq(Nat)
  <2> DEFINE i == Len(kept) - m.prev_log_index + 1
  <2>1. i \in Nat \ {0} /\ Len(m.entries) \in Nat
    BY <1>1, <1>2
  <2> HIDE DEF i
  <2>2. SubSeq(m.entries, i, Len(m.entries)) \in Seq(Nat)
    BY <1>1, <2>1, SubSeqProperties
  <2> QED BY <2>2 DEF i
<1>4. l \in Seq(Nat)
  <2>1. l = kept \o rest
    BY DEF Persisted, kept
  <2> HIDE DEF rest, l
  <2> QED BY <1>2, <1>3, <2>1, ConcatProperties
<1> HIDE DEF l
<1>5. Len(l) \in Nat /\ TermAt(l, Len(l)) \in Nat
  BY <1>4, ElementOfSeq, LenProperties DEF TermAt
<1> QED BY <1>4, <1>5 DEF l

(* handle_entries_persisted keeps the positions in their types.            *)
LEMMA EntriesPersistedType ==
    ASSUME CoreTypeOK, NEW n \in Node, NEW i \in Nat, NEW j \in Nat,
           NEW k \in Nat,
           NEW e, e = [last_log_index |-> i, last_log_term |-> j,
                       leader_commit_index |-> k],
           handle_entries_persisted(n, e)
    PROVE  /\ last_log_index' \in [Node -> Nat]
           /\ last_log_term' \in [Node -> Nat]
           /\ commit_index' \in [Node -> Nat]
           /\ last_applied' \in [Node -> Nat]
<1>1. /\ e.last_log_index = i /\ e.last_log_term = j
      /\ e.leader_commit_index = k /\ Least(k, i) \in Nat
  BY DEF Least
<1>2. /\ last_log_index' = [last_log_index EXCEPT ![n] = i]
      /\ last_log_term' = [last_log_term EXCEPT ![n] = j]
      /\ \/ /\ commit_index' = [commit_index EXCEPT ![n] = Least(k, i)]
            /\ last_applied' = [last_applied EXCEPT ![n] = Least(k, i)]
         \/ UNCHANGED commitVars
  BY <1>1 DEF handle_entries_persisted, CommitThrough, handle_entries_applied
<1> DEFINE least == Least(k, i)
<1>3. /\ last_log_index \in [Node -> Nat] /\ last_log_term \in [Node -> Nat]
      /\ commit_index \in [Node -> Nat] /\ last_applied \in [Node -> Nat]
  BY DEF CoreTypeOK
<1>4. least \in Nat
  BY <1>1
<1>5. \/ /\ commit_index' = [commit_index EXCEPT ![n] = least]
         /\ last_applied' = [last_applied EXCEPT ![n] = least]
      \/ commit_index' = commit_index /\ last_applied' = last_applied
  BY <1>2 DEF commitVars
<1> HIDE DEF least
<1>6. last_log_index' \in [Node -> Nat] /\ last_log_term' \in [Node -> Nat]
  BY <1>2, <1>3
<1>7. commit_index' \in [Node -> Nat] /\ last_applied' \in [Node -> Nat]
  BY <1>3, <1>4, <1>5
<1> QED BY <1>6, <1>7

(* An AppendEntries request leaves everything in its type.                 *)
LEMMA AppendEntriesType ==
    ASSUME ReplicationTypeOK, NEW n \in Node, NEW m \in appends,
           m.type = "AppendEntries", handle_append_entries(n, m)
    PROVE  ReplicationTypeOK'
<1>0. /\ m \in AppendEntriesRequest /\ m.leader_id \in Node /\ m.term \in Nat
      /\ m.commit_index \in Nat /\ m.prev_log_index \in Nat
      /\ m.prev_log_term \in Nat
  BY AppendKinds DEF ReplicationTypeOK, AppendEntriesRequest
<1>1. /\ UNCHANGED <<progressVars, effect, storage, msgs>>
      /\ last_log_index[n] \in Nat /\ last_log_term[n] \in Nat
      /\ current_term[n] \in Nat /\ leader_id[n] \in NodeOrNil
      /\ m.leader_id \in NodeOrNil
      /\ CoreTypeOK /\ TypeOK /\ appends \subseteq AppendMessage
  BY <1>0 DEF handle_append_entries, ReplicationTypeOK, TypeOK, CoreTypeOK,
              NodeOrNil
<1>2. CASE /\ RejectAppendEntries(n, m, current_term[n], leader_id[n])
           /\ UNCHANGED <<electionVars, positionVars, commitVars, log>>
  <2>1. appends' \subseteq AppendMessage
    <3>1. ResponseTo(n, m, FALSE, current_term[n],
              <<last_log_index[n], last_log_term[n]>>, leader_id[n])
            \in AppendEntriesResponse
      BY <1>0, <1>1, ResponseType
    <3> QED BY <1>1, <1>2, <3>1 DEF RejectAppendEntries, AppendMessage
  <2> QED BY <1>1, <1>2, <2>1
          DEF ReplicationTypeOK, TypeOK, CoreTypeOK, electionVars,
              positionVars, commitVars, progressVars
<1>3. CASE /\ current_term' = [current_term EXCEPT ![n] = m.term]
           /\ leader_id' = [leader_id EXCEPT ![n] = m.leader_id]
           /\ RejectAppendEntries(n, m, m.term, m.leader_id)
           /\ UNCHANGED <<role, voted_for, granted_votes, positionVars,
                          commitVars, log>>
  <2>1. appends' \subseteq AppendMessage
    <3>1. ResponseTo(n, m, FALSE, m.term,
              <<last_log_index[n], last_log_term[n]>>, m.leader_id)
            \in AppendEntriesResponse
      BY <1>0, <1>1, ResponseType
    <3> QED BY <1>1, <1>3, <3>1 DEF RejectAppendEntries, AppendMessage
  <2>2. current_term' \in [Node -> Nat] /\ leader_id' \in [Node -> NodeOrNil]
    BY <1>0, <1>1, <1>3 DEF CoreTypeOK
  <2> QED BY <1>1, <1>3, <2>1, <2>2
          DEF ReplicationTypeOK, TypeOK, CoreTypeOK, positionVars,
              commitVars, progressVars
<1>4. CASE /\ PreviousEntryMatches(n, m)
           /\ current_term' = [current_term EXCEPT ![n] = m.term]
           /\ voted_for' = [voted_for EXCEPT
                 ![n] = IF m.term > current_term[n] THEN Nil ELSE @]
           /\ role' = [role EXCEPT ![n] = "Follower"]
           /\ leader_id' = [leader_id EXCEPT ![n] = m.leader_id]
           /\ log' = [log EXCEPT ![n] = Persisted(n, m)]
           /\ appends' = (appends \ {m}) \cup
                 {ResponseTo(n, m, TRUE, m.term, AnsweredPosition(n, m),
                             m.leader_id)}
           /\ handle_entries_persisted(n,
                 PersistedEntries(Persisted(n, m), m.commit_index))
           /\ UNCHANGED granted_votes
  <2> DEFINE l == Persisted(n, m)
  <2>1. l \in Seq(Nat) /\ Len(l) \in Nat /\ TermAt(l, Len(l)) \in Nat
    BY <1>0, <1>1, <1>4, PersistedType
  <2> HIDE DEF l
  <2>2. appends' \subseteq AppendMessage
    <3>1. PICK i \in Nat, j \in Nat : AnsweredPosition(n, m) = <<i, j>>
      BY <1>0, <1>1 DEF AnsweredPosition
    <3>2. ResponseTo(n, m, TRUE, m.term, <<i, j>>, m.leader_id)
            \in AppendEntriesResponse
      BY <1>0, <1>1, ResponseType
    <3> QED BY <1>1, <1>4, <3>1, <3>2 DEF AppendMessage
  <2>3. /\ current_term' \in [Node -> Nat]
        /\ leader_id' \in [Node -> NodeOrNil]
        /\ voted_for' \in [Node -> NodeOrNil]
        /\ role' \in [Node -> Role]
    BY <1>0, <1>1, <1>4 DEF CoreTypeOK, NodeOrNil, Role
  <2>4. log' \in [Node -> Seq(Nat)]
    BY <1>1, <1>4, <2>1 DEF TypeOK, l
  <2>5. /\ last_log_index' \in [Node -> Nat]
        /\ last_log_term' \in [Node -> Nat]
        /\ commit_index' \in [Node -> Nat]
        /\ last_applied' \in [Node -> Nat]
    BY <1>0, <1>1, <1>4, <2>1, EntriesPersistedType DEF PersistedEntries, l
  <2> QED BY <1>1, <1>4, <2>2, <2>3, <2>4, <2>5
          DEF ReplicationTypeOK, TypeOK, CoreTypeOK, progressVars
<1> QED BY <1>2, <1>3, <1>4 DEF handle_append_entries

(* The answer to one does, too.                                            *)
LEMMA AppendEntriesResponseType ==
    ASSUME ReplicationTypeOK, NEW n \in Node, NEW m \in appends,
           m.type = "AppendEntriesResponse",
           handle_append_entries_response(n, m)
    PROVE  ReplicationTypeOK'
<1>0. /\ m \in AppendEntriesResponse /\ m.from \in Node /\ m.term \in Nat
      /\ m.last_log_index \in Nat /\ m.last_log_term \in Nat
      /\ m.leader_id \in NodeOrNil
  BY AppendKinds DEF ReplicationTypeOK, AppendEntriesResponse
<1>1. /\ UNCHANGED <<positionVars, effect, storage, log, msgs>>
      /\ last_log_index[n] \in Nat /\ log[n] \in Seq(Nat)
      /\ CoreTypeOK /\ TypeOK /\ appends \subseteq AppendMessage
  BY DEF handle_append_entries_response, ReplicationTypeOK, TypeOK, CoreTypeOK
<1>2. Resend(n, m) \/ appends' = appends \ {m} => appends' \subseteq AppendMessage
  <2>1. RequestFor(n, m.from, m.last_log_index, m.last_log_term, log[n])
            \in AppendMessage
    BY <1>0, <1>1, RequestType DEF AppendMessage
  <2> QED BY <1>1, <2>1 DEF Resend
<1>3. CASE /\ StepDown(n, m.term, m.leader_id)
           /\ appends' = appends \ {m}
           /\ UNCHANGED <<commitVars, progressVars>>
  BY <1>0, <1>1, <1>2, <1>3, StepDownType
     DEF ReplicationTypeOK, TypeOK, CoreTypeOK, positionVars, commitVars,
         progressVars
<1>4. CASE /\ Resend(n, m)
           /\ UNCHANGED <<electionVars, commitVars, progressVars>>
  BY <1>1, <1>2, <1>4
     DEF ReplicationTypeOK, TypeOK, CoreTypeOK, electionVars, positionVars,
         commitVars, progressVars
<1>5. CASE /\ match_index' = [match_index EXCEPT ![n][m.from] = Reported(m)]
           /\ next_index' = [next_index EXCEPT ![n][m.from] = Reported(m) + 1]
           /\ Resend(n, m) \/ appends' = appends \ {m}
           /\ CommitThrough(n, last_log_index[n]) \/ UNCHANGED commitVars
           /\ UNCHANGED electionVars
  <2>1. /\ match_index' \in [Node -> [Node -> Nat]]
        /\ next_index' \in [Node -> [Node -> Nat]]
    <3>1. /\ match_index \in [Node -> [Node -> Nat]]
          /\ next_index \in [Node -> [Node -> Nat]]
      BY <1>1 DEF CoreTypeOK
    <3>2. Reported(m) \in Nat /\ Reported(m) + 1 \in Nat
      BY <1>0 DEF Reported
    <3>3. match_index' \in [Node -> [Node -> Nat]]
      BY <1>0, <1>5, <3>1, <3>2
    <3>4. next_index' \in [Node -> [Node -> Nat]]
      BY <1>0, <1>5, <3>1, <3>2
    <3> QED BY <3>3, <3>4
  <2>2. commit_index' \in [Node -> Nat] /\ last_applied' \in [Node -> Nat]
    BY <1>1, <1>5 DEF CoreTypeOK, CommitThrough, handle_entries_applied,
                      commitVars
  <2> QED BY <1>1, <1>2, <1>5, <2>1, <2>2
          DEF ReplicationTypeOK, TypeOK, CoreTypeOK, electionVars,
              positionVars
<1> QED BY <1>3, <1>4, <1>5 DEF handle_append_entries_response

(* A write offers well-typed requests.                                     *)
LEMMA WriteType ==
    ASSUME ReplicationTypeOK, TypeOK', NEW n \in Node, WriteAndReplicate(n)
    PROVE  ReplicationTypeOK'
<1> DEFINE l == log'[n]
           first(p) == Least(match_index[n][p], last_log_index[n])
           request(p) == RequestFor(n, p, first(p), TermAt(l, first(p)), l)
<1>1. \A p \in Node \ {n} : request(p) \in AppendMessage
  <2> SUFFICES ASSUME NEW p \in Node \ {n}
               PROVE  request(p) \in AppendMessage
    OBVIOUS
  <2>1. CoreTypeOK /\ l \in Seq(Nat)
    BY DEF ReplicationTypeOK, TypeOK
  <2>2. match_index[n][p] \in Nat /\ last_log_index[n] \in Nat
    BY <2>1 DEF CoreTypeOK
  <2>3. first(p) \in Nat
    BY <2>2 DEF Least
  <2> HIDE DEF first, l
  <2>4. TermAt(l, first(p)) \in Nat
    BY <2>1, ElementOfSeq DEF TermAt
  <2> QED BY <2>1, <2>3, <2>4, RequestType DEF AppendMessage
<1>2. appends' = appends \cup {request(p) : p \in Node \ {n}}
  BY DEF WriteAndReplicate
<1> HIDE DEF request
<1> QED BY <1>1, <1>2 DEF ReplicationTypeOK

(* Every step keeps the types.                                             *)
LEMMA ReplicationNextType ==
    ReplicationTypeOK /\ [ReplicationNext]_replicationVars => ReplicationTypeOK'
<1> SUFFICES ASSUME ReplicationTypeOK, [ReplicationNext]_replicationVars
             PROVE  ReplicationTypeOK'
  OBVIOUS
<1>0. TypeOK
  BY DEF ReplicationTypeOK
<1>1. CASE UNCHANGED replicationVars
  <2>1. UNCHANGED vars /\ UNCHANGED appends
    BY <1>1 DEF replicationVars
  <2> QED BY <1>0, <2>1, NextType DEF ReplicationTypeOK
<1>2. ASSUME NEW n \in Node, WriteAndReplicate(n)
      PROVE  ReplicationTypeOK'
  <2>1. TypeOK'
    BY <1>0, <1>2, ElectIsNext, NextType DEF WriteAndReplicate
  <2> QED BY <1>2, <2>1, WriteType
<1>3. ASSUME NEW n \in Node, NEW m \in appends, ReceiveAppend(n, m)
      PROVE  ReplicationTypeOK'
  BY <1>3, AppendEntriesType, AppendEntriesResponseType DEF ReceiveAppend
<1>4. ASSUME NEW n \in Node, Elect(n)
      PROVE  ReplicationTypeOK'
  <2>1. TypeOK'
    BY <1>0, <1>4, ElectIsNext, NextType
  <2> QED BY <1>4, <2>1 DEF Elect, ReplicationTypeOK
<1> QED BY <1>1, <1>2, <1>3, <1>4 DEF ReplicationNext, Replicate

(* With AppendEntries the core, the files and the messages still keep to   *)
(* their types, for any number of leaders and whatever logs were cut.      *)
THEOREM ReplicationTypeCorrect == ReplicationSpec => []ReplicationTypeOK
<1>1. ReplicationInit => ReplicationTypeOK
  BY InitType DEF ReplicationInit, ReplicationTypeOK
<1> QED BY <1>1, ReplicationNextType, PTL DEF ReplicationSpec

-----------------------------------------------------------------------------
(* Majorities and elections.                                               *)

(* A set that contains a majority is one.                                  *)
LEMMA MajorityGrows ==
    ASSUME NEW T \in SUBSET Node, NEW S \in SUBSET T, Majority(S)
    PROVE  Majority(T)
<1> DEFINE N == Cardinality(Node)
           a == Cardinality(S)
           b == Cardinality(T)
<1>1. IsFiniteSet(T) /\ IsFiniteSet(S)
  BY NodeAssumption, FS_Subset
<1>2. N \in Nat /\ a \in Nat /\ b \in Nat /\ a <= b
  BY <1>1, NodeAssumption, FS_CardinalityType, FS_Subset
<1>3. a > N \div 2
  BY DEF Majority
<1>4. b > N \div 2
  <2> HIDE DEF N, a, b
  <2>1. N \div 2 \in Nat
    BY <1>2
  <2> QED BY <1>2, <1>3, <2>1
<1> QED BY <1>4 DEF Majority

(* The voters are a majority of themselves.                                *)
LEMMA AllAreMajority ==
    ASSUME NEW n \in Node
    PROVE  Majority(Node)
<1> DEFINE N == Cardinality(Node)
<1>1. N \in Nat /\ N # 0
  BY NodeAssumption, FS_CardinalityType, FS_EmptySet
<1>2. N > N \div 2
  <2> HIDE DEF N
  <2> QED BY <1>1
<1> QED BY <1>2 DEF Majority

(* An election is the work of a majority, and so of somebody.              *)
LEMMA ElectedByMajority ==
    ASSUME NEW c, NEW t, Elected(c, t)
    PROVE  /\ \E Q \in SUBSET Node : /\ Majority(Q)
                                     /\ \A v \in Q : <<v, t, c>> \in Votes
           /\ \E v \in Node : <<v, t, c>> \in Votes
<1> DEFINE N == Cardinality(Node)
<1>1. PICK Q \in SUBSET Node : /\ 2 * Cardinality(Q) > N
                               /\ \A v \in Q : <<v, t, c>> \in Votes
  BY DEF Elected
<1> DEFINE a == Cardinality(Q)
<1>2. N \in Nat /\ a \in Nat /\ 2 * a > N
  BY <1>1, NodeAssumption, FS_CardinalityType, FS_Subset
<1>3. a > N \div 2 /\ a # 0
  <2> HIDE DEF N, a
  <2> QED BY <1>2
<1>4. Q # {}
  BY <1>3, FS_EmptySet
<1> QED BY <1>1, <1>3, <1>4 DEF Majority

-----------------------------------------------------------------------------
(* What the steps of the others do not take away.                          *)

(* Messages stay sent and logs are never cut.                              *)
Advances ==
    /\ msgs \subseteq msgs'
    /\ \A p \in Node : Len(log[p]) <= Len(log'[p])

(* What was committed stays committed, and so does what lies before it.    *)
LEMMA CommittedStays ==
    ASSUME TypeOK, TypeOK', Advances, NEW i \in Nat, Committed(i)
    PROVE  Committed(i)'
<1> DEFINE S == {p \in Node : i <= Len(log[p])}
           T == {p \in Node : i <= Len(log'[p])}
<1>1. \A p \in Node : Len(log[p]) \in Nat /\ Len(log'[p]) \in Nat
  BY DEF TypeOK
<1>2. S \subseteq T
  BY <1>1 DEF Advances
<1> QED BY <1>2, MajorityGrows DEF Committed

(* Whoever has the first i entries has the first j of them.                *)
LEMMA CommittedBefore ==
    ASSUME TypeOK, NEW i \in Nat, NEW j \in Nat, j <= i, Committed(i)
    PROVE  Committed(j)
<1> DEFINE S == {p \in Node : i <= Len(log[p])}
           T == {p \in Node : j <= Len(log[p])}
<1>1. \A p \in Node : Len(log[p]) \in Nat
  BY DEF TypeOK
<1>2. S \subseteq T
  BY <1>1
<1> QED BY <1>2, MajorityGrows DEF Committed

(* A request that was sent stays sent.                                     *)
LEMMA AskedStays ==
    ASSUME msgs \subseteq msgs', NEW m, Asked(m)
    PROVE  Asked(m)'
BY DEF Asked

(* A message that said no more than the logs held still does so when logs  *)
(* only grow.                                                              *)
LEMMA TruthfulStays ==
    ASSUME TypeOK, TypeOK', Advances, NEW c, NEW t, NEW m \in Message,
           Truthful(m, c, t)
    PROVE  Truthful(m, c, t)'
<1>1. Asked(m)'
  BY AskedStays DEF Advances, Truthful
<1>2. m.type = "Heartbeat" => Committed(m.leader_commit_index)'
  <2> SUFFICES ASSUME m.type = "Heartbeat"
               PROVE  Committed(m.leader_commit_index)'
    OBVIOUS
  <2>1. m.leader_commit_index \in Nat
    BY MessageKinds DEF HeartbeatRequest
  <2> QED BY <2>1, CommittedStays DEF Truthful
<1>3. m.type = "HeartbeatResponse" => m.last_log_index <= Len(log'[m.from])
  <2> SUFFICES ASSUME m.type = "HeartbeatResponse"
               PROVE  m.last_log_index <= Len(log'[m.from])
    OBVIOUS
  <2>1. m.last_log_index \in Nat /\ m.from \in Node
    BY MessageKinds DEF HeartbeatResponse
  <2>2. /\ Len(log[m.from]) \in Nat /\ Len(log'[m.from]) \in Nat
        /\ Len(log[m.from]) <= Len(log'[m.from])
        /\ m.last_log_index <= Len(log[m.from])
    BY <2>1 DEF TypeOK, Advances, Truthful
  <2> QED BY <2>1, <2>2
<1> QED BY <1>1, <1>2, <1>3 DEF Truthful

(* So does a request or answer about entries.                              *)
LEMMA TruthfulAppendStays ==
    ASSUME TypeOK, TypeOK', Advances, NEW c \in Node, NEW t,
           NEW m \in AppendMessage, TruthfulAppend(m, c, t)
    PROVE  TruthfulAppend(m, c, t)'
<1>1. \A p \in Node : /\ Len(log[p]) \in Nat /\ Len(log'[p]) \in Nat
                      /\ Len(log[p]) <= Len(log'[p])
  BY DEF TypeOK, Advances
<1>2. ASSUME m.type = "AppendEntries"
      PROVE  /\ m.prev_log_index + Len(m.entries) <= Len(log'[c])
             /\ Committed(m.commit_index)'
  <2>1. /\ m.commit_index \in Nat /\ m.prev_log_index \in Nat
        /\ Len(m.entries) \in Nat
    BY <1>2, AppendKinds DEF AppendEntriesRequest
  <2>2. /\ m.prev_log_index + Len(m.entries) <= Len(log[c])
        /\ Committed(m.commit_index)
    BY <1>2 DEF TruthfulAppend
  <2>3. m.prev_log_index + Len(m.entries) <= Len(log'[c])
    BY <1>1, <2>1, <2>2
  <2> QED BY <2>1, <2>2, <2>3, CommittedStays
<1>3. ASSUME m.type = "AppendEntriesResponse"
      PROVE  m.last_log_index <= Len(log'[m.from])
  <2>1. m.last_log_index \in Nat /\ m.from \in Node
    BY <1>3, AppendKinds DEF AppendEntriesResponse
  <2> QED BY <1>1, <1>3, <2>1 DEF TruthfulAppend
<1> QED BY <1>2, <1>3 DEF TruthfulAppend

(* The state of a node that the invariant is about.                        *)
Same(p) ==
    /\ role'[p] = role[p]
    /\ current_term'[p] = current_term[p]
    /\ voted_for'[p] = voted_for[p]
    /\ granted_votes'[p] = granted_votes[p]
    /\ last_log_index'[p] = last_log_index[p]
    /\ commit_index'[p] = commit_index[p]
    /\ match_index'[p] = match_index[p]
    /\ effect'[p] = effect[p]
    /\ storage'[p] = storage[p]
    /\ log'[p] = log[p]

(* A vote that a step of n makes public is a vote of n that was pending.   *)
LEMMA NewVoteIsPending ==
    ASSUME NEW n \in Node, Requests(n), msgs' \subseteq msgs \cup effect[n].out,
           NEW w \in Votes', w \notin Votes
    PROVE  /\ w[1] = n
           /\ \E m \in effect[n].out :
                 \/ /\ m.type = "VoteResponse" /\ m.vote_granted
                    /\ w = <<m.from, m.term, m.to>>
                 \/ /\ m.type = "RequestVote"
                    /\ w = <<m.candidate_id, m.term, m.candidate_id>>
<1>1. PICK m \in msgs' :
          \/ /\ m.type = "VoteResponse" /\ m.vote_granted
             /\ w = <<m.from, m.term, m.to>>
          \/ /\ m.type = "RequestVote"
             /\ w = <<m.candidate_id, m.term, m.candidate_id>>
  BY DEF Votes
<1>2. m \in effect[n].out
  BY <1>1 DEF Votes
<1>3. w[1] = n
  BY <1>1, <1>2 DEF Requests
<1> QED BY <1>1, <1>2, <1>3

(* A step of another node.  Votes that it makes public are its own.        *)
LEMMA OtherStaysBound ==
    ASSUME NEW n \in Node, NEW p \in Node \ {n}, NEW c, NEW t, Same(p),
           Requests(n), msgs' \subseteq msgs \cup effect[n].out,
           Bound(p, c, t)
    PROVE  Bound(p, c, t)'
<1>1. \A w \in Votes' : w[1] = p /\ w[2] = t => w[3] = c
  BY NewVoteIsPending DEF Bound
<1> QED BY <1>1 DEF Bound, Same

(* A step of n leaves the part of another node p in place.                 *)
LEMMA OtherIsLed ==
    ASSUME TypeOK, TypeOK', Advances, NEW n \in Node, NEW p \in Node \ {n},
           NEW c \in Node, NEW t \in Nat, Same(p), Requests(n),
           msgs' \subseteq msgs \cup effect[n].out,
           NodeIsLed(p, c, t)
    PROVE  NodeIsLed(p, c, t)'
<1>0. Votes \subseteq Votes'
  BY ElectedStays DEF Advances
<1>1. Requests(p)'
  <2>1. \A m \in msgs' : m.type = "RequestVote" /\ m.candidate_id = p =>
            m.term <= storage[p].current_term
    BY DEF Requests, NodeIsLed
  <2> QED BY <2>1 DEF Requests, NodeIsLed, Same
<1>2. Counts(p, t)'
  <2>1. \A r \in msgs' : r.type = "RequestVote" /\ r.candidate_id = p =>
            r \in msgs
    BY DEF Requests
  <2> QED BY <1>0, <2>1 DEF Counts, NodeIsLed, Same
<1>3. Positions(p, c, t)'
  <2>1. \A q \in Node : /\ Len(log[q]) \in Nat /\ Len(log'[q]) \in Nat
                        /\ Len(log[q]) <= Len(log'[q])
    BY DEF TypeOK, Advances
  <2>2. Committed(commit_index[p])'
    <3>1. PICK i \in Nat : i = commit_index[p]
      BY DEF TypeOK, CoreTypeOK
    <3>2. Committed(i)
      BY <3>1 DEF NodeIsLed, Positions
    <3>3. Committed(i)'
      BY <3>2, CommittedStays
    <3>4. commit_index'[p] = i
      BY <3>1 DEF Same
    <3> QED BY <3>3, <3>4
  <2>3. \A q \in Node : match_index[p][q] <= Len(log'[q])
    <3>1. \A q \in Node : match_index[p][q] \in Nat
      BY DEF TypeOK, CoreTypeOK
    <3> QED BY <2>1, <3>1 DEF NodeIsLed, Positions
  <2>4. Len(log[p]) <= Len(log'[c])
    BY <2>1 DEF NodeIsLed, Positions
  <2> QED BY <2>2, <2>3, <2>4 DEF NodeIsLed, Positions, Same
<1>4. Leads(p, c, t)'
  BY DEF NodeIsLed, Leads, Same
<1>5. \A m \in effect'[p].out : Truthful(m, c, t)'
  <2>1. \A m \in effect[p].out : m \in Message /\ Truthful(m, c, t)
    BY DEF NodeIsLed, TypeOK, CoreTypeOK, Effect
  <2> QED BY <2>1, TruthfulStays DEF Same
<1> QED BY <1>1, <1>2, <1>3, <1>4, <1>5 DEF NodeIsLed

(* A step of n keeps the invariant if it keeps the part of n, sends only   *)
(* what was pending and offers only entries that are there.                *)
LEMMA LedStep ==
    ASSUME ReplicationTypeOK, ReplicationTypeOK', NEW c \in Node,
           NEW t \in Nat, Led(c, t), Advances, NEW n \in Node,
           \A p \in Node \ {n} : Same(p),
           msgs' \subseteq msgs \cup effect[n].out,
           \A m \in appends' \ appends : TruthfulAppend(m, c, t)',
           NodeIsLed(n, c, t)',
           Bound(n, c, t) => Bound(n, c, t)'
    PROVE  Led(c, t)'
<1>0. TypeOK /\ TypeOK' /\ appends \subseteq AppendMessage /\ Requests(n)
  BY DEF ReplicationTypeOK, Led, NodeIsLed
<1>1. Elected(c, t)'
  BY ElectedStays DEF Advances, Led
<1>2. BoundQuorum(c, t)'
  <2>1. PICK Q \in SUBSET Node : /\ Majority(Q) /\ c \in Q
                                 /\ \A v \in Q : Bound(v, c, t)
    BY DEF Led, BoundQuorum
  <2>2. \A v \in Q : Bound(v, c, t)'
    BY <1>0, <2>1, OtherStaysBound
  <2> QED BY <2>1, <2>2 DEF BoundQuorum, Majority
<1>3. \A p \in Node : NodeIsLed(p, c, t)'
  BY <1>0, OtherIsLed DEF Led
<1>4. \A m \in msgs' : Truthful(m, c, t)'
  <2>1. msgs' \subseteq Message
    BY <1>0 DEF TypeOK
  <2>2. \A m \in msgs' : Truthful(m, c, t)
    BY DEF Led, NodeIsLed
  <2> QED BY <1>0, <2>1, <2>2, TruthfulStays
<1>5. \A m \in appends' : TruthfulAppend(m, c, t)'
  <2>1. \A m \in appends : TruthfulAppend(m, c, t)'
    BY <1>0, TruthfulAppendStays DEF Led
  <2> QED BY <2>1
<1> QED BY <1>1, <1>2, <1>3, <1>4, <1>5 DEF Led

-----------------------------------------------------------------------------
(* The steps of RaftElection under the elected leader.                     *)

(* The parts of the invariant that the steps of n start from.              *)
LEMMA LedFacts ==
    ASSUME ReplicationTypeOK, NEW c \in Node, NEW t \in Nat, Led(c, t),
           NEW n \in Node
    PROVE  /\ TypeOK /\ CoreTypeOK
           /\ Requests(n) /\ Counts(n, t) /\ Positions(n, c, t)
           /\ Leads(n, c, t) /\ Bound(c, c, t)
           /\ current_term[n] \in Nat /\ storage[n].current_term \in Nat
           /\ last_log_index[n] \in Nat /\ commit_index[n] \in Nat
           /\ log[n] \in Seq(Nat) /\ Len(log[n]) \in Nat
           /\ effect[n] \in Effect /\ c # Nil
<1>1. TypeOK /\ CoreTypeOK
  BY DEF ReplicationTypeOK, TypeOK
<1>2. /\ current_term[n] \in Nat /\ storage[n].current_term \in Nat
      /\ last_log_index[n] \in Nat /\ commit_index[n] \in Nat
      /\ log[n] \in Seq(Nat) /\ Len(log[n]) \in Nat
      /\ effect[n] \in Effect
  <2>1. storage[n] \in State /\ log[n] \in Seq(Nat)
    BY <1>1 DEF TypeOK
  <2>2. storage[n].current_term \in Nat /\ Len(log[n]) \in Nat
    BY <2>1 DEF State
  <2> QED BY <1>1, <2>1, <2>2 DEF CoreTypeOK
<1>3. Bound(c, c, t)
  BY DEF Led, BoundQuorum
<1> QED BY <1>1, <1>2, <1>3, NodeAssumption DEF Led, NodeIsLed

(* Nothing that Positions speaks of has changed, unless the term grew.     *)
LEMMA PositionsKept ==
    ASSUME TypeOK, TypeOK', NEW n \in Node, NEW c \in Node, NEW t \in Nat,
           Positions(n, c, t),
           UNCHANGED <<log, last_log_index, commit_index, match_index>>,
           current_term'[n] >= current_term[n]
    PROVE  Positions(n, c, t)'
<1>1. current_term'[n] \in Nat /\ current_term[n] \in Nat
  BY DEF TypeOK, CoreTypeOK
<1>2. last_log_index[n] > 0 => current_term'[n] >= t
  BY <1>1 DEF Positions
<1> QED BY <1>2 DEF Positions, Committed

(* An event handler that neither writes nor sends: what is to be shown of  *)
(* node n.                                                                 *)
LEMMA HandlerStep ==
    ASSUME ReplicationTypeOK, ReplicationTypeOK', NEW c \in Node,
           NEW t \in Nat, Led(c, t), NEW n \in Node,
           UNCHANGED <<storage, log, msgs, appends>>,
           \A p \in Node \ {n} : Same(p),
           Requests(n)', Counts(n, t)', Positions(n, c, t)', Leads(n, c, t)',
           \A m \in effect'[n].out : Truthful(m, c, t)',
           Bound(n, c, t) => Bound(n, c, t)'
    PROVE  Led(c, t)'
<1>1. Advances
  <2>1. \A p \in Node : Len(log[p]) \in Nat
    BY DEF ReplicationTypeOK, TypeOK
  <2> QED BY <2>1 DEF Advances
<1> QED BY <1>1, LedStep DEF NodeIsLed

(* A step of n changes no file, no votes and not what n has pending.       *)
LEMMA BoundInNewTerm ==
    ASSUME ReplicationTypeOK, ReplicationTypeOK', NEW c \in Node,
           NEW t \in Nat, NEW n \in Node, Bound(n, c, t),
           UNCHANGED <<storage, msgs>>,
           \/ current_term'[n] > current_term[n]
           \/ /\ current_term'[n] = current_term[n]
              /\ current_term[n] > t \/ /\ voted_for'[n] = voted_for[n]
                                        /\ ~effect'[n].save,
           \A m \in effect'[n].out :
              /\ m.type = "VoteResponse" /\ m.vote_granted /\ m.term = t
                    => m.to = c
              /\ m.type = "RequestVote" /\ m.term = t => m.candidate_id = c
    PROVE  Bound(n, c, t)'
<1>1. current_term[n] \in Nat /\ current_term'[n] \in Nat
  BY DEF ReplicationTypeOK, TypeOK, CoreTypeOK
<1>2. \/ current_term'[n] > t
      \/ current_term'[n] = t /\ voted_for'[n] = c /\ ~effect'[n].save
  BY <1>1 DEF Bound
<1>3. \A w \in Votes' : w[1] = n /\ w[2] = t => w[3] = c
  BY DEF Bound, Votes
<1>4. \/ storage'[n].current_term > t
      \/ storage'[n] = [current_term |-> t, voted_for |-> c]
  BY DEF Bound
<1> QED BY <1>2, <1>3, <1>4 DEF Bound

(* The elected leader is past its own term when its timer fires again.     *)
LEMMA ElectionTimeoutLed ==
    ASSUME ReplicationTypeOK, ReplicationTypeOK', NEW c \in Node,
           NEW t \in Nat, Led(c, t), NEW n \in Node,
           handle_election_timeout(n), UNCHANGED <<storage, log, msgs, appends>>
    PROVE  Led(c, t)'
<1> DEFINE r == [type |-> "RequestVote", term |-> current_term[n] + 1,
                 candidate_id |-> n, last_log_index |-> last_log_index[n],
                 last_log_term |-> last_log_term[n]]
<1>0. /\ CoreTypeOK /\ TypeOK /\ TypeOK' /\ current_term[n] \in Nat
      /\ storage[n].current_term \in Nat
      /\ Requests(n) /\ Positions(n, c, t) /\ Bound(c, c, t)
  BY LedFacts DEF ReplicationTypeOK
<1>1. /\ current_term'[n] = current_term[n] + 1
      /\ role'[n] = "Candidate"
      /\ granted_votes'[n] = {n}
      /\ effect'[n] = [save |-> TRUE, out |-> {r}]
      /\ UNCHANGED <<last_log_index, commit_index, match_index>>
  BY <1>0 DEF handle_election_timeout, Emit, CoreTypeOK, positionVars,
              commitVars, progressVars
<1>2. \A p \in Node \ {n} : Same(p)
  BY <1>0 DEF handle_election_timeout, Emit, CoreTypeOK, positionVars,
              commitVars, progressVars, Same
<1>3. /\ effect'[n].save /\ effect'[n].out = {r}
      /\ r.type = "RequestVote" /\ r.candidate_id = n
      /\ r.term = current_term[n] + 1
  BY <1>1
<1> HIDE DEF r
<1>4. Requests(n)'
  BY <1>0, <1>1, <1>3 DEF Requests
<1>5. Counts(n, t)'
  BY <1>1, <1>3 DEF Counts
<1>6. Positions(n, c, t)'
  BY <1>0, <1>1, PositionsKept
<1>7. Leads(n, c, t)'
  BY <1>0, <1>1 DEF Leads, Bound
<1>8. \A m \in effect'[n].out : Truthful(m, c, t)'
  BY <1>3 DEF Truthful, Asked
<1>9. Bound(n, c, t) => Bound(n, c, t)'
  <2> SUFFICES ASSUME Bound(n, c, t)
               PROVE  Bound(n, c, t)'
    OBVIOUS
  <2>1. r.term # t
    BY <1>0, <1>3 DEF Bound
  <2> QED BY <1>0, <1>1, <1>3, <2>1, BoundInNewTerm
<1> QED BY <1>2, <1>4, <1>5, <1>6, <1>7, <1>8, <1>9, HandlerStep

(* The heartbeat of the leader tells the followers what is committed.      *)
LEMMA HeartbeatOfLeader ==
    ASSUME ReplicationTypeOK, NEW c \in Node, NEW t \in Nat,
           NEW n \in Node, Positions(n, c, t), n = c, current_term[n] = t
    PROVE  /\ Truthful(HeartbeatOf(n), c, t)
           /\ HeartbeatOf(n).type = "Heartbeat"
BY DEF Positions, HeartbeatOf, Truthful, Asked

(* Only c sends heartbeats, and only in term t.                            *)
LEMMA HeartbeatTimeoutLed ==
    ASSUME ReplicationTypeOK, ReplicationTypeOK', NEW c \in Node,
           NEW t \in Nat, Led(c, t), NEW n \in Node,
           handle_heartbeat_timeout(n),
           UNCHANGED <<storage, log, msgs, appends>>
    PROVE  Led(c, t)'
<1> DEFINE h == HeartbeatOf(n)
<1>0. /\ CoreTypeOK /\ TypeOK /\ TypeOK' /\ current_term[n] \in Nat
      /\ Requests(n) /\ Positions(n, c, t) /\ Leads(n, c, t)
      /\ role[n] = "Leader" /\ n = c /\ current_term[n] = t
  BY LedFacts DEF ReplicationTypeOK, handle_heartbeat_timeout, Leads
<1>1. /\ UNCHANGED <<role, current_term, voted_for, granted_votes,
                     last_log_index, commit_index, match_index>>
      /\ effect' = [effect EXCEPT ![n] = [save |-> FALSE, out |-> {h}]]
  BY DEF handle_heartbeat_timeout, Emit, electionVars, positionVars,
         commitVars, progressVars
<1>2. \A p \in Node \ {n} : Same(p)
  BY <1>0, <1>1 DEF CoreTypeOK, Same
<1>3. ~effect'[n].save /\ effect'[n].out = {h}
  BY <1>0, <1>1 DEF CoreTypeOK
<1>4. Truthful(h, c, t) /\ h.type = "Heartbeat"
  BY <1>0, HeartbeatOfLeader
<1> HIDE DEF h
<1>5. Requests(n)'
  BY <1>0, <1>1, <1>3, <1>4 DEF Requests
<1>6. Counts(n, t)' /\ Leads(n, c, t)'
  BY <1>0, <1>1 DEF Counts, Leads
<1>7. Positions(n, c, t)'
  BY <1>0, <1>1, PositionsKept
<1>8. \A m \in effect'[n].out : Truthful(m, c, t)'
  <2>1. PICK m : m = h
    OBVIOUS
  <2>2. Truthful(m, c, t)'
    BY <1>4, <2>1 DEF Truthful, Asked, Committed
  <2> QED BY <1>3, <2>1, <2>2
<1>9. Bound(n, c, t) => Bound(n, c, t)'
  BY <1>0, <1>1, <1>3, <1>4, BoundInNewTerm
<1> QED BY <1>2, <1>5, <1>6, <1>7, <1>8, <1>9, HandlerStep

(* A bound voter repeats its vote for c and gives no other in term t.      *)
LEMMA RequestVoteLed ==
    ASSUME ReplicationTypeOK, ReplicationTypeOK', NEW c \in Node,
           NEW t \in Nat, Led(c, t), NEW n \in Node, NEW m \in msgs,
           m \in VoteRequest, m.type = "RequestVote",
           handle_request_vote(n, m), UNCHANGED <<storage, log, msgs, appends>>
    PROVE  Led(c, t)'
<1> DEFINE newer   == m.term > current_term[n]
           term    == IF newer THEN m.term ELSE current_term[n]
           vote    == IF newer THEN Nil ELSE voted_for[n]
           granted == /\ m.term = term
                      /\ UpToDate(m.last_log_term, m.last_log_index,
                                  last_log_term[n], last_log_index[n])
                      /\ CanVote(vote, m.candidate_id)
           changed == newer \/ (granted /\ vote # m.candidate_id)
           a == [type |-> "VoteResponse", from |-> n, to |-> m.candidate_id,
                 term |-> term, vote_granted |-> granted]
<1>0. /\ CoreTypeOK /\ TypeOK /\ TypeOK' /\ current_term[n] \in Nat
      /\ storage[n].current_term \in Nat /\ c # Nil
      /\ Requests(n) /\ Positions(n, c, t) /\ Counts(n, t) /\ Leads(n, c, t)
      /\ m.term \in Nat
  BY LedFacts DEF ReplicationTypeOK, VoteRequest
<1>1. /\ current_term'[n] = term
      /\ role'[n] = IF newer THEN "Follower" ELSE role[n]
      /\ voted_for'[n] = IF granted THEN m.candidate_id ELSE vote
      /\ granted_votes'[n] = IF newer THEN {} ELSE granted_votes[n]
      /\ effect'[n] = [save |-> changed, out |-> {a}]
  BY <1>0 DEF handle_request_vote, Emit, CoreTypeOK
<1>2. /\ UNCHANGED <<last_log_index, commit_index, match_index>>
      /\ effect[n].out = {}
  BY DEF handle_request_vote, positionVars, commitVars, progressVars, Idle,
         NoEffect
<1>3. \A p \in Node \ {n} : Same(p)
  <2>1. \A p \in Node \ {n} : /\ role'[p] = role[p]
                              /\ current_term'[p] = current_term[p]
                              /\ voted_for'[p] = voted_for[p]
                              /\ granted_votes'[p] = granted_votes[p]
                              /\ effect'[p] = effect[p]
    BY <1>0 DEF handle_request_vote, Emit, CoreTypeOK
  <2> QED BY <1>2, <2>1 DEF Same
<1>4. /\ effect'[n].save = changed /\ effect'[n].out = {a}
      /\ a.type = "VoteResponse" /\ a.from = n /\ a.to = m.candidate_id
      /\ a.term = term /\ a.vote_granted = granted
  BY <1>1
<1>5. /\ term \in Nat /\ term >= current_term[n]
      /\ granted => m.term = term /\ CanVote(vote, m.candidate_id)
  BY <1>0
<1>6. granted /\ ~newer /\ voted_for[n] = c => m.candidate_id = c /\ ~changed
  BY <1>0 DEF CanVote
<1> HIDE DEF a, granted
<1>7. Requests(n)'
  <2>1. storage'[n].current_term <= current_term'[n]
    BY <1>0, <1>1, <1>5 DEF Requests
  <2> QED BY <1>0, <1>4, <2>1 DEF Requests
<1>8. Counts(n, t)'
  <2>1. CASE newer
    BY <1>1, <2>1 DEF Counts
  <2>2. CASE ~newer
    <3>1. /\ role'[n] = role[n] /\ granted_votes'[n] = granted_votes[n]
          /\ current_term'[n] = current_term[n]
      BY <1>1, <2>2
    <3>2. \A r \in msgs' \cup effect'[n].out : r.type = "RequestVote" =>
              r \in msgs \cup effect[n].out
      BY <1>4
    <3>3. Votes' = Votes
      BY DEF Votes
    <3> QED BY <1>0, <1>2, <3>1, <3>2, <3>3 DEF Counts
  <2> QED BY <2>1, <2>2
<1>9. Positions(n, c, t)'
  BY <1>0, <1>1, <1>2, <1>5, PositionsKept
<1>10. Leads(n, c, t)'
  <2>1. CASE newer
    BY <1>1, <2>1 DEF Leads
  <2>2. CASE ~newer
    BY <1>0, <1>1, <1>2, <2>2 DEF Leads
  <2> QED BY <2>1, <2>2
<1>11. \A x \in effect'[n].out : Truthful(x, c, t)'
  <2>1. a.vote_granted => \E r \in msgs' : /\ r.type = "RequestVote"
                                           /\ r.candidate_id = a.to
                                           /\ r.term = a.term
    BY <1>4, <1>5
  <2>2. PICK x : x = a
    OBVIOUS
  <2>3. Truthful(x, c, t)'
    BY <1>4, <2>1, <2>2 DEF Truthful, Asked
  <2> QED BY <1>4, <2>2, <2>3
<1>12. Bound(n, c, t) => Bound(n, c, t)'
  <2> SUFFICES ASSUME Bound(n, c, t)
               PROVE  Bound(n, c, t)'
    OBVIOUS
  <2>1. \/ current_term[n] > t
        \/ current_term[n] = t /\ voted_for[n] = c
    BY DEF Bound
  <2>2. granted /\ term = t => ~newer /\ voted_for[n] = c
    BY <1>0, <1>5, <2>1
  <2>3. granted /\ term = t => m.candidate_id = c
    BY <1>6, <2>2
  <2>4. \/ current_term'[n] > current_term[n]
        \/ /\ current_term'[n] = current_term[n]
           /\ current_term[n] > t \/ /\ voted_for'[n] = voted_for[n]
                                     /\ ~effect'[n].save
    <3>1. CASE newer
      BY <1>0, <1>1, <3>1
    <3>2. CASE ~newer
      BY <1>0, <1>1, <1>4, <1>6, <2>1, <3>2
    <3> QED BY <3>1, <3>2
  <2>5. \A x \in effect'[n].out :
          /\ x.type = "VoteResponse" /\ x.vote_granted /\ x.term = t
                => x.to = c
          /\ x.type = "RequestVote" /\ x.term = t => x.candidate_id = c
    BY <1>4, <2>3
  <2> QED BY <2>4, <2>5, BoundInNewTerm
<1> QED BY <1>3, <1>7, <1>8, <1>9, <1>10, <1>11, <1>12, HandlerStep

(* A newer term in a response makes any node a follower.                   *)
LEMMA StepDownLed ==
    ASSUME ReplicationTypeOK, ReplicationTypeOK', NEW c \in Node,
           NEW t \in Nat, Led(c, t), NEW n \in Node, Idle(n),
           NEW term \in Nat, term > current_term[n], NEW leader,
           StepDown(n, term, leader),
           UNCHANGED <<last_log_index, commit_index, match_index, effect,
                       storage, log, msgs>>,
           appends' \subseteq appends
    PROVE  Led(c, t)'
<1>0. /\ CoreTypeOK /\ TypeOK /\ TypeOK' /\ current_term[n] \in Nat
      /\ storage[n].current_term \in Nat
      /\ Requests(n) /\ Positions(n, c, t) /\ effect[n].out = {}
  BY LedFacts DEF ReplicationTypeOK, Idle, NoEffect
<1>1. current_term'[n] = term /\ role'[n] = "Follower"
  BY <1>0 DEF StepDown, CoreTypeOK
<1>2. \A p \in Node \ {n} : Same(p)
  BY <1>0 DEF StepDown, CoreTypeOK, Same
<1>3. Requests(n)'
  BY <1>0, <1>1 DEF Requests
<1>4. Counts(n, t)' /\ Leads(n, c, t)'
  BY <1>1 DEF Counts, Leads
<1>5. Positions(n, c, t)'
  BY <1>0, <1>1, PositionsKept
<1>6. Bound(n, c, t) => Bound(n, c, t)'
  BY <1>0, <1>1, BoundInNewTerm
<1>7. Advances
  <2>1. \A p \in Node : Len(log[p]) \in Nat
    BY <1>0 DEF TypeOK
  <2> QED BY <2>1 DEF Advances
<1>8. NodeIsLed(n, c, t)'
  BY <1>0, <1>3, <1>4, <1>5 DEF NodeIsLed
<1> QED BY <1>2, <1>6, <1>7, <1>8, LedStep

(* Within the first leadership only c can win, and only in term t.         *)
LEMMA OnlyWinner ==
    ASSUME FirstLeadership, NEW c \in Node, NEW t \in Nat, Led(c, t),
           NEW n \in Node, NEW u \in Nat, Elected(n, u)
    PROVE  n = c /\ u = t
<1>1. PICK v \in Node : <<v, u, n>> \in Votes
  BY ElectedByMajority
<1>2. PICK w \in Node : <<w, t, c>> \in Votes
  BY ElectedByMajority DEF Led
<1>3. u = t
  <2>1. Elected(c, t)
    BY DEF Led
  <2> DEFINE x == <<v, u, n>>
             y == <<w, t, c>>
  <2>2. x[2] = u /\ x[3] = n /\ y[2] = t /\ y[3] = c
    OBVIOUS
  <2>3. x \in Votes /\ y \in Votes
    BY <1>1, <1>2
  <2> HIDE DEF x, y
  <2> QED BY <2>1, <2>2, <2>3 DEF FirstLeadership
<1>4. PICK Q \in SUBSET Node : /\ Majority(Q)
                               /\ \A q \in Q : Bound(q, c, t)
  BY DEF Led, BoundQuorum
<1>5. PICK R \in SUBSET Node : /\ Majority(R)
                               /\ \A q \in R : <<q, u, n>> \in Votes
  BY ElectedByMajority
<1>6. PICK q \in Q \cap R : TRUE
  BY <1>4, <1>5, MajoritiesIntersect
<1>7. n = c
  <2> DEFINE x == <<q, u, n>>
  <2>1. x \in Votes /\ x[1] = q /\ x[2] = t /\ x[3] = n
    BY <1>3, <1>5, <1>6
  <2>2. Bound(q, c, t)
    BY <1>4, <1>6
  <2> HIDE DEF x
  <2> QED BY <2>1, <2>2 DEF Bound
<1> QED BY <1>3, <1>7

(* A vote that arrives can only make c a leader, and only in term t.       *)
LEMMA VoteResponseLed ==
    ASSUME ReplicationTypeOK, ReplicationTypeOK', FirstLeadership,
           NEW c \in Node, NEW t \in Nat, Led(c, t), NEW n \in Node,
           NEW m \in msgs, m \in VoteResponse, m.type = "VoteResponse",
           m.to = n, handle_vote_response(n, m),
           UNCHANGED <<storage, log, msgs, appends>>
    PROVE  Led(c, t)'
<1> DEFINE granted == granted_votes[n] \cup {m.from}
           h == HeartbeatOf(n)
<1>0. /\ CoreTypeOK /\ TypeOK /\ TypeOK' /\ current_term[n] \in Nat
      /\ Requests(n) /\ Positions(n, c, t) /\ Counts(n, t) /\ Leads(n, c, t)
      /\ m.term \in Nat /\ m.from \in Node /\ Idle(n)
      /\ effect[n].out = {} /\ ~effect[n].save
      /\ last_log_index[n] \in Nat
  BY LedFacts DEF ReplicationTypeOK, VoteResponse, handle_vote_response, Idle,
                  NoEffect
<1>1. UNCHANGED <<last_log_index, commit_index, match_index>>
  BY DEF handle_vote_response, positionVars, commitVars, progressVars
<1>2. CASE /\ m.term > current_term[n]
           /\ StepDown(n, m.term, Nil)
           /\ UNCHANGED effect
  BY <1>0, <1>1, <1>2, StepDownLed
<1>3. CASE /\ IsNewVote(n, m)
           /\ granted_votes' = [granted_votes EXCEPT ![n] = granted]
           /\ IF Majority(granted)
              THEN /\ role' = [role EXCEPT ![n] = "Leader"]
                   /\ Emit(n, FALSE, {h})
              ELSE UNCHANGED <<role, effect>>
           /\ UNCHANGED <<current_term, voted_for, leader_id>>
  <2>1. /\ role[n] = "Candidate" /\ m.term = current_term[n]
        /\ m.vote_granted
    BY <1>3 DEF IsNewVote
  <2>2. PICK r \in msgs : /\ r.type = "RequestVote" /\ r.candidate_id = n
                          /\ r.term = current_term[n]
    BY <2>1 DEF Led, Truthful, Asked
  <2>3. \A v \in granted : <<v, current_term[n], n>> \in Votes
    <3>1. \A v \in granted_votes[n] : <<v, current_term[n], n>> \in Votes
      BY <1>0, <2>1, <2>2 DEF Counts
    <3>2. <<m.from, current_term[n], n>> \in Votes
      BY <2>1, VoteMembership
    <3> QED BY <3>1, <3>2
  <2>4. granted \in SUBSET Node /\ granted_votes'[n] = granted
    BY <1>0, <1>3 DEF CoreTypeOK
  <2>5. \A p \in Node \ {n} : Same(p)
    BY <1>0, <1>1, <1>3 DEF CoreTypeOK, Same, Emit
  <2>6. Positions(n, c, t)'
    BY <1>0, <1>1, <1>3, PositionsKept
  <2> HIDE DEF granted, h
  <2>7. CASE Majority(granted)
    <3>1. n = c /\ current_term[n] = t
      <4>1. PICK u \in Nat : u = current_term[n]
        BY <1>0
      <4>2. Elected(n, u)
        BY <2>3, <2>4, <2>7, <4>1, CountedIsElected
      <4> QED BY <4>1, <4>2, OnlyWinner
    <3>2. last_log_index[n] = Len(log[n])
      <4>1. log[n] = <<>>
        BY <1>0, <2>1, <3>1 DEF Leads
      <4>2. last_log_index[n] <= Len(log[n]) /\ Len(log[n]) = 0
        BY <1>0, <4>1 DEF Positions
      <4> QED BY <1>0, <4>2
    <3>3. /\ role'[n] = "Leader" /\ ~effect'[n].save
          /\ effect'[n].out = {h}
      BY <1>0, <1>3, <2>7 DEF CoreTypeOK, Emit
    <3>4. Truthful(h, c, t) /\ h.type = "Heartbeat"
      BY <1>0, <3>1, HeartbeatOfLeader DEF h
    <3>5. Requests(n)'
      BY <1>0, <1>3, <3>3, <3>4 DEF Requests
    <3>6. Counts(n, t)'
      BY <3>3 DEF Counts
    <3>7. Leads(n, c, t)'
      BY <1>1, <1>3, <3>1, <3>2, <3>3 DEF Leads
    <3>8. \A x \in effect'[n].out : Truthful(x, c, t)'
      <4>1. PICK x : x = h
        OBVIOUS
      <4>2. Truthful(x, c, t)'
        BY <3>4, <4>1 DEF Truthful, Asked, Committed
      <4> QED BY <3>3, <4>1, <4>2
    <3>9. Bound(n, c, t) => Bound(n, c, t)'
      BY <1>0, <1>3, <3>3, <3>4, BoundInNewTerm
    <3> QED BY <2>5, <2>6, <3>5, <3>6, <3>7, <3>8, <3>9, HandlerStep
  <2>8. CASE ~Majority(granted)
    <3>1. UNCHANGED <<role, effect>>
      BY <1>3, <2>8
    <3>2. Requests(n)'
      BY <1>0, <1>3, <3>1 DEF Requests
    <3>3. Counts(n, t)'
      <4>1. Votes' = Votes
        BY DEF Votes
      <4> QED BY <1>3, <2>3, <2>4, <4>1 DEF Counts
    <3>4. Leads(n, c, t)'
      BY <1>0, <1>1, <1>3, <3>1 DEF Leads
    <3>5. \A x \in effect'[n].out : Truthful(x, c, t)'
      BY <1>0, <3>1
    <3>6. Bound(n, c, t) => Bound(n, c, t)'
      BY <1>0, <1>3, <3>1, BoundInNewTerm
    <3> QED BY <2>5, <2>6, <3>2, <3>3, <3>4, <3>5, <3>6, HandlerStep
  <2> QED BY <2>7, <2>8
<1> QED BY <1>2, <1>3 DEF handle_vote_response

(* A heartbeat of the leader raises the commit index to what a majority    *)
(* has; a stale one only gets an answer.                                   *)
LEMMA HeartbeatLed ==
    ASSUME ReplicationTypeOK, ReplicationTypeOK', NEW c \in Node,
           NEW t \in Nat, Led(c, t), NEW n \in Node, NEW m \in msgs,
           m \in HeartbeatRequest, m.type = "Heartbeat",
           handle_heartbeat(n, m), UNCHANGED <<storage, log, msgs, appends>>
    PROVE  Led(c, t)'
<1> DEFINE matches == /\ m.log_index = last_log_index[n]
                      /\ m.log_term = last_log_term[n]
           commit  == Least(m.leader_commit_index, last_log_index[n])
<1>0. /\ CoreTypeOK /\ TypeOK /\ TypeOK' /\ current_term[n] \in Nat
      /\ storage[n].current_term \in Nat
      /\ Requests(n) /\ Positions(n, c, t) /\ Counts(n, t) /\ Leads(n, c, t)
      /\ Idle(n) /\ effect[n].out = {} /\ ~effect[n].save
      /\ last_log_index[n] \in Nat /\ commit_index[n] \in Nat
      /\ m.leader_commit_index \in Nat
  BY LedFacts DEF ReplicationTypeOK, HeartbeatRequest, handle_heartbeat, Idle,
                  NoEffect
<1>1. m.leader_id = c /\ m.term = t /\ Committed(m.leader_commit_index)
  BY DEF Led, Truthful
<1>2. UNCHANGED <<last_log_index, match_index>>
  BY DEF handle_heartbeat, positionVars, progressVars
<1>3. ASSUME NEW a, a.type = "HeartbeatResponse", a.from = n,
             a.last_log_index = last_log_index[n],
             ~effect'[n].save, effect'[n].out = {a}
      PROVE  /\ \A x \in effect'[n].out : Truthful(x, c, t)'
             /\ Requests(n) /\ current_term'[n] >= current_term[n]
                    => Requests(n)'
  <2>1. Truthful(a, c, t)'
    BY <1>0, <1>3 DEF Truthful, Asked, Positions
  <2>2. current_term'[n] \in Nat
    BY <1>0 DEF TypeOK, CoreTypeOK
  <2>3. current_term'[n] >= current_term[n] =>
            storage'[n].current_term <= current_term'[n]
    BY <1>0, <2>2 DEF Requests
  <2> QED BY <1>3, <2>1, <2>3 DEF Requests
<1>4. CASE /\ m.term < current_term[n]
           /\ Emit(n, FALSE, {HeartbeatResponseOf(n, m.leader_id,
                                 current_term[n], FALSE, leader_id[n])})
           /\ UNCHANGED <<electionVars, commitVars>>
  <2> DEFINE a == HeartbeatResponseOf(n, m.leader_id, current_term[n], FALSE,
                                      leader_id[n])
  <2>1. /\ UNCHANGED <<role, current_term, voted_for, granted_votes,
                       commit_index>>
        /\ effect' = [effect EXCEPT ![n] = [save |-> FALSE, out |-> {a}]]
    BY <1>4 DEF electionVars, commitVars, Emit
  <2>2. /\ a.type = "HeartbeatResponse" /\ a.from = n
        /\ a.last_log_index = last_log_index[n]
    BY DEF HeartbeatResponseOf
  <2> HIDE DEF a
  <2>3. \A p \in Node \ {n} : Same(p)
    BY <1>0, <1>2, <2>1 DEF CoreTypeOK, Same
  <2>4. ~effect'[n].save /\ effect'[n].out = {a}
    BY <1>0, <2>1 DEF CoreTypeOK
  <2>5. Requests(n)' /\ \A x \in effect'[n].out : Truthful(x, c, t)'
    BY <1>0, <1>3, <2>1, <2>2, <2>4
  <2>6. Counts(n, t)'
    <3>1. Votes' = Votes
      BY DEF Votes
    <3> QED BY <1>0, <2>1, <2>2, <2>4, <3>1 DEF Counts
  <2>7. Leads(n, c, t)'
    BY <1>0, <1>2, <2>1 DEF Leads
  <2>8. Positions(n, c, t)'
    BY <1>0, <1>2, <2>1, PositionsKept
  <2>9. Bound(n, c, t) => Bound(n, c, t)'
    BY <1>0, <2>1, <2>2, <2>4, BoundInNewTerm
  <2> QED BY <2>3, <2>5, <2>6, <2>7, <2>8, <2>9, HandlerStep
<1>5. CASE /\ m.term >= current_term[n]
           /\ current_term' = [current_term EXCEPT ![n] = m.term]
           /\ voted_for' = [voted_for EXCEPT
                 ![n] = IF m.term > current_term[n] THEN Nil ELSE @]
           /\ role' = [role EXCEPT ![n] = "Follower"]
           /\ granted_votes' = [granted_votes EXCEPT ![n] = {}]
           /\ leader_id' = [leader_id EXCEPT ![n] = m.leader_id]
           /\ commit_index' = [commit_index EXCEPT
                 ![n] = IF matches THEN Greatest(@, commit) ELSE @]
           /\ Emit(n, FALSE, {HeartbeatResponseOf(n, m.leader_id,
                                 m.term, matches, m.leader_id)})
           /\ UNCHANGED last_applied
  <2> DEFINE a == HeartbeatResponseOf(n, m.leader_id, m.term, matches,
                                      m.leader_id)
  <2>1. /\ current_term'[n] = t /\ t >= current_term[n]
        /\ role'[n] = "Follower"
        /\ voted_for'[n] = IF t > current_term[n] THEN Nil ELSE voted_for[n]
        /\ commit_index'[n] = IF matches THEN Greatest(commit_index[n], commit)
                                         ELSE commit_index[n]
        /\ effect'[n] = [save |-> FALSE, out |-> {a}]
    BY <1>0, <1>1, <1>5 DEF CoreTypeOK, Emit
  <2>2. /\ a.type = "HeartbeatResponse" /\ a.from = n
        /\ a.last_log_index = last_log_index[n]
    BY DEF HeartbeatResponseOf
  <2> HIDE DEF a
  <2>3. \A p \in Node \ {n} : Same(p)
    <3>1. \A p \in Node \ {n} : /\ role'[p] = role[p]
                                /\ current_term'[p] = current_term[p]
                                /\ voted_for'[p] = voted_for[p]
                                /\ granted_votes'[p] = granted_votes[p]
                                /\ commit_index'[p] = commit_index[p]
                                /\ effect'[p] = effect[p]
      BY <1>0, <1>5 DEF CoreTypeOK, Emit
    <3> QED BY <1>2, <3>1 DEF Same
  <2>4. ~effect'[n].save /\ effect'[n].out = {a}
    BY <2>1
  <2>5. Requests(n)' /\ \A x \in effect'[n].out : Truthful(x, c, t)'
    BY <1>0, <1>3, <2>1, <2>2, <2>4
  <2>6. Counts(n, t)' /\ Leads(n, c, t)'
    BY <2>1 DEF Counts, Leads
  <2>7. Positions(n, c, t)'
    <3>1. PICK i \in Nat : i = commit_index'[n]
      BY <1>0 DEF TypeOK, CoreTypeOK
    <3>2. PICK j \in Nat : /\ j = commit_index[n] /\ Committed(j)
                           /\ j <= last_log_index[n]
      BY <1>0 DEF Positions
    <3>3. i = j \/ (i <= m.leader_commit_index /\ i <= last_log_index[n])
      BY <1>0, <2>1, <3>1, <3>2 DEF Least, Greatest
    <3>4. Committed(i) /\ i <= last_log_index[n]
      BY <1>0, <1>1, <3>2, <3>3, CommittedBefore
    <3>5. Committed(i)'
      BY <3>4 DEF Committed
    <3> QED BY <1>0, <1>2, <2>1, <3>1, <3>4, <3>5 DEF Positions
  <2>8. Bound(n, c, t) => Bound(n, c, t)'
    BY <1>0, <2>1, <2>2, <2>4, BoundInNewTerm DEF Bound
  <2> QED BY <2>3, <2>5, <2>6, <2>7, <2>8, HandlerStep
<1> QED BY <1>4, <1>5 DEF handle_heartbeat

(* A report about a follower's log raises the match index no further than  *)
(* that log goes.                                                          *)
LEMMA HeartbeatResponseLed ==
    ASSUME ReplicationTypeOK, ReplicationTypeOK', NEW c \in Node,
           NEW t \in Nat, Led(c, t), NEW n \in Node, NEW m \in msgs,
           m \in HeartbeatResponse, m.type = "HeartbeatResponse",
           handle_heartbeat_response(n, m),
           UNCHANGED <<storage, log, msgs, appends>>
    PROVE  Led(c, t)'
<1> DEFINE old     == match_index[n][m.from]
           matched == Greatest(old, Least(m.last_log_index,
                                          last_log_index[n]))
           new     == IF m.success THEN matched ELSE old
<1>0. /\ CoreTypeOK /\ TypeOK /\ TypeOK' /\ current_term[n] \in Nat
      /\ Requests(n) /\ Positions(n, c, t) /\ Counts(n, t) /\ Leads(n, c, t)
      /\ Idle(n) /\ effect[n].out = {} /\ ~effect[n].save
      /\ last_log_index[n] \in Nat
      /\ m.term \in Nat /\ m.from \in Node /\ m.last_log_index \in Nat
  BY LedFacts DEF ReplicationTypeOK, HeartbeatResponse,
                  handle_heartbeat_response, Idle, NoEffect
<1>1. UNCHANGED <<last_log_index, commit_index, effect>>
  BY DEF handle_heartbeat_response, positionVars, commitVars
<1>2. CASE /\ m.term > current_term[n]
           /\ StepDown(n, m.term, m.leader_id)
           /\ UNCHANGED progressVars
  BY <1>0, <1>1, <1>2, StepDownLed DEF progressVars
<1>3. CASE /\ match_index' = [match_index EXCEPT ![n][m.from] = new]
           /\ UNCHANGED electionVars
  <2>1. UNCHANGED <<role, current_term, voted_for, granted_votes>>
    BY <1>3 DEF electionVars
  <2>2. match_index \in [Node -> [Node -> Nat]]
    BY <1>0 DEF CoreTypeOK
  <2>3. \A p \in Node \ {n} : Same(p)
    BY <1>1, <1>3, <2>1, <2>2 DEF Same
  <2>4. old \in Nat /\ old <= Len(log[m.from]) /\ Len(log[m.from]) \in Nat
    <3>1. log[m.from] \in Seq(Nat)
      BY <1>0 DEF TypeOK
    <3>2. old \in Nat
      BY <1>0, <2>2
    <3>3. old <= Len(log[m.from])
      BY <1>0 DEF Positions
    <3> QED BY <3>1, <3>2, <3>3
  <2>5. m.last_log_index <= Len(log[m.from])
    BY DEF Led, Truthful
  <2>6. new <= Len(log[m.from])
    BY <1>0, <2>4, <2>5 DEF Greatest, Least
  <2> HIDE DEF new
  <2>7. \A p \in Node : match_index'[n][p] <= Len(log[p])
    BY <1>0, <1>3, <2>2, <2>6 DEF Positions
  <2>8. Positions(n, c, t)'
    BY <1>0, <1>1, <2>1, <2>7 DEF Positions, Committed
  <2>9. Requests(n)'
    BY <1>0, <1>1, <2>1 DEF Requests
  <2>10. Counts(n, t)'
    <3>1. Votes' = Votes
      BY DEF Votes
    <3> QED BY <1>0, <1>1, <2>1, <3>1 DEF Counts
  <2>11. Leads(n, c, t)'
    BY <1>0, <1>1, <2>1 DEF Leads
  <2>12. Bound(n, c, t) => Bound(n, c, t)'
    BY <1>0, <1>1, <2>1, BoundInNewTerm
  <2>13. \A x \in effect'[n].out : Truthful(x, c, t)'
    BY <1>0, <1>1
  <2> QED BY <2>3, <2>8, <2>9, <2>10, <2>11, <2>12, <2>13, HandlerStep
<1> QED BY <1>2, <1>3 DEF handle_heartbeat_response

(* A bound voter saves again only in a later term.                         *)
LEMMA PersistLed ==
    ASSUME ReplicationTypeOK, ReplicationTypeOK', NEW c \in Node,
           NEW t \in Nat, Led(c, t), NEW n \in Node,
           persist_hard_state(n), UNCHANGED appends
    PROVE  Led(c, t)'
<1>0. /\ CoreTypeOK /\ TypeOK /\ TypeOK' /\ current_term[n] \in Nat
      /\ Requests(n) /\ Positions(n, c, t) /\ Counts(n, t) /\ Leads(n, c, t)
      /\ storage[n].current_term \in Nat
      /\ effect[n] \in Effect /\ effect[n].save
  BY LedFacts DEF ReplicationTypeOK, persist_hard_state
<1>1. /\ UNCHANGED <<role, current_term, voted_for, granted_votes,
                     last_log_index, commit_index, match_index, log, msgs>>
      /\ storage' = [storage EXCEPT ![n] = HardState(n)]
      /\ effect' = [effect EXCEPT ![n].save = FALSE]
  BY DEF persist_hard_state, electionVars, positionVars, commitVars,
         progressVars
<1>2. \A p \in Node \ {n} : Same(p)
  BY <1>0, <1>1 DEF CoreTypeOK, TypeOK, Same
<1>3. /\ storage'[n].current_term = current_term[n]
      /\ effect'[n].out = effect[n].out
  BY <1>0, <1>1 DEF TypeOK, CoreTypeOK, HardState, Effect
<1>4. Requests(n)'
  <2>1. storage'[n].current_term <= current_term'[n]
    BY <1>0, <1>1, <1>3
  <2>2. \A m \in effect'[n].out :
          /\ m.type = "VoteResponse" => m.from = n
          /\ m.type = "RequestVote" =>
                /\ m.candidate_id = n
                /\ m.term = current_term'[n]
                /\ m.term <= storage'[n].current_term
    BY <1>0, <1>1, <1>3 DEF Requests
  <2>3. \A m \in msgs' : m.type = "RequestVote" /\ m.candidate_id = n =>
          m.term <= storage'[n].current_term
    <3> SUFFICES ASSUME NEW m \in msgs, m.type = "RequestVote",
                        m.candidate_id = n
                 PROVE  m.term <= current_term[n]
      BY <1>1, <1>3
    <3>1. m.term \in Nat
      BY <1>0, MessageKinds DEF TypeOK, VoteRequest
    <3> QED BY <1>0, <3>1 DEF Requests
  <2> QED BY <2>1, <2>2, <2>3 DEF Requests
<1>5. Counts(n, t)'
  <2>1. Votes' = Votes
    BY <1>1 DEF Votes
  <2> QED BY <1>0, <1>1, <1>3, <2>1 DEF Counts
<1>6. Positions(n, c, t)'
  BY <1>0, <1>1, PositionsKept
<1>7. Leads(n, c, t)'
  BY <1>0, <1>1 DEF Leads
<1>8. \A p \in Node : Len(log[p]) \in Nat
  BY <1>0 DEF TypeOK
<1>9. Advances
  BY <1>1, <1>8 DEF Advances
<1>10. \A m \in effect'[n].out : Truthful(m, c, t)'
  <2>1. \A m \in effect[n].out : m \in Message /\ Truthful(m, c, t)
    BY <1>0 DEF Led, NodeIsLed, Effect
  <2> QED BY <1>0, <1>3, <1>9, <2>1, TruthfulStays
<1>11. Bound(n, c, t) => Bound(n, c, t)'
  <2> SUFFICES ASSUME Bound(n, c, t)
               PROVE  Bound(n, c, t)'
    OBVIOUS
  <2>1. current_term[n] > t
    BY <1>0 DEF Bound
  <2>2. \A w \in Votes' : w[1] = n /\ w[2] = t => w[3] = c
    BY <1>1 DEF Bound, Votes
  <2> QED BY <1>1, <1>3, <2>1, <2>2 DEF Bound
<1> QED BY <1>1, <1>2, <1>4, <1>5, <1>6, <1>7, <1>9, <1>10, <1>11, LedStep
        DEF NodeIsLed

(* Sending makes a pending request and its own vote public.                *)
LEMMA SendLed ==
    ASSUME ReplicationTypeOK, ReplicationTypeOK', NEW c \in Node,
           NEW t \in Nat, Led(c, t), NEW n \in Node, Send(n),
           UNCHANGED appends
    PROVE  Led(c, t)'
<1>0. /\ CoreTypeOK /\ TypeOK /\ TypeOK' /\ current_term[n] \in Nat
      /\ Requests(n) /\ Positions(n, c, t) /\ Counts(n, t) /\ Leads(n, c, t)
      /\ ~effect[n].save
  BY LedFacts DEF ReplicationTypeOK, Send
<1>1. /\ UNCHANGED <<role, current_term, voted_for, granted_votes,
                     last_log_index, commit_index, match_index, log, storage>>
      /\ msgs' = msgs \cup effect[n].out
      /\ effect' = [effect EXCEPT ![n] = NoEffect]
  BY DEF Send, electionVars, positionVars, commitVars, progressVars
<1>2. \A p \in Node \ {n} : Same(p)
  BY <1>0, <1>1 DEF CoreTypeOK, Same
<1>3. effect'[n].out = {} /\ ~effect'[n].save
  BY <1>0, <1>1 DEF CoreTypeOK, NoEffect
<1>4. Requests(n)'
  BY <1>0, <1>1, <1>3 DEF Requests
<1>5. Counts(n, t)'
  <2>1. Votes \subseteq Votes'
    BY <1>1, ElectedStays
  <2>2. ASSUME NEW r \in effect[n].out, r.type = "RequestVote"
        PROVE  <<n, current_term[n], n>> \in Votes'
    <3>1. /\ r \in msgs' /\ r.candidate_id = n /\ r.term = current_term[n]
      BY <1>0, <1>1, <2>2 DEF Requests
    <3> QED BY <2>2, <3>1 DEF Votes
  <2>3. CASE \A v \in granted_votes[n] :
                \/ <<v, current_term[n], n>> \in Votes
                \/ v = n /\ \E r \in effect[n].out : r.type = "RequestVote"
    <3>1. \A v \in granted_votes[n] : <<v, current_term[n], n>> \in Votes'
      BY <2>1, <2>2, <2>3
    <3> QED BY <1>1, <3>1 DEF Counts
  <2>4. CASE /\ current_term[n] = t
             /\ \A r \in msgs \cup effect[n].out :
                   r.type = "RequestVote" /\ r.candidate_id = n => r.term # t
    BY <1>1, <1>3, <2>4 DEF Counts
  <2>5. CASE role[n] # "Candidate"
    BY <1>1, <2>5 DEF Counts
  <2> QED BY <1>0, <2>3, <2>4, <2>5 DEF Counts
<1>6. Positions(n, c, t)'
  BY <1>0, <1>1, PositionsKept
<1>7. Leads(n, c, t)'
  BY <1>0, <1>1 DEF Leads
<1>8. \A p \in Node : Len(log[p]) \in Nat
  BY <1>0 DEF TypeOK
<1>9. Advances
  BY <1>1, <1>8 DEF Advances
<1>10. Bound(n, c, t) => Bound(n, c, t)'
  <2> SUFFICES ASSUME Bound(n, c, t)
               PROVE  Bound(n, c, t)'
    OBVIOUS
  <2>1. ASSUME NEW w \in Votes', w[1] = n, w[2] = t
        PROVE  w[3] = c
    <3>1. CASE w \in Votes
      BY <2>1, <3>1 DEF Bound
    <3>2. CASE w \notin Votes
      <4>1. PICK m \in effect[n].out :
                 \/ /\ m.type = "VoteResponse" /\ m.vote_granted
                    /\ w = <<m.from, m.term, m.to>>
                 \/ /\ m.type = "RequestVote"
                    /\ w = <<m.candidate_id, m.term, m.candidate_id>>
        BY <1>0, <1>1, <3>2, NewVoteIsPending
      <4> QED BY <2>1, <4>1 DEF Bound
    <3> QED BY <3>1, <3>2
  <2> QED BY <1>1, <1>3, <2>1 DEF Bound
<1> QED BY <1>1, <1>2, <1>3, <1>4, <1>5, <1>6, <1>7, <1>9, <1>10, LedStep
        DEF NodeIsLed

(* A restart finds the vote of a bound voter in the file, or a later term. *)
LEMMA BootLed ==
    ASSUME ReplicationTypeOK, ReplicationTypeOK', NEW c \in Node,
           NEW t \in Nat, Led(c, t), NEW n \in Node, NEW s \in State,
           Boot(n, s), storage' = [storage EXCEPT ![n] = s],
           UNCHANGED appends,
           \/ s = storage[n]
           \/ effect[n].save /\ s.current_term = current_term[n]
    PROVE  Led(c, t)'
<1>0. /\ CoreTypeOK /\ TypeOK /\ TypeOK' /\ current_term[n] \in Nat
      /\ Requests(n) /\ Positions(n, c, t)
      /\ storage[n].current_term \in Nat /\ s.current_term \in Nat
      /\ Len(log[n]) \in Nat
  BY LedFacts DEF ReplicationTypeOK, State
<1>1. /\ role'[n] = "Follower" /\ current_term'[n] = s.current_term
      /\ voted_for'[n] = s.voted_for /\ last_log_index'[n] = 0
      /\ commit_index'[n] = 0 /\ effect'[n] = NoEffect /\ storage'[n] = s
      /\ UNCHANGED <<log, msgs>>
  BY <1>0 DEF Boot, TypeOK, CoreTypeOK
<1>2. \A p \in Node : match_index'[n][p] = IF p = n THEN Len(log[n]) ELSE 0
  <2>1. match_index \in [Node -> [Node -> Nat]]
    BY <1>0 DEF CoreTypeOK
  <2> QED BY <2>1 DEF Boot
<1>3. \A p \in Node \ {n} : Same(p)
  <2>1. \A p \in Node \ {n} : /\ role'[p] = role[p]
                              /\ current_term'[p] = current_term[p]
                              /\ voted_for'[p] = voted_for[p]
                              /\ granted_votes'[p] = granted_votes[p]
                              /\ effect'[p] = effect[p]
    BY <1>0 DEF Boot, CoreTypeOK
  <2>2. \A p \in Node \ {n} : /\ last_log_index'[p] = last_log_index[p]
                              /\ commit_index'[p] = commit_index[p]
                              /\ match_index'[p] = match_index[p]
                              /\ storage'[p] = storage[p]
    BY <1>0 DEF Boot, CoreTypeOK, TypeOK
  <2> QED BY <1>1, <2>1, <2>2 DEF Same
<1>4. effect'[n].out = {} /\ ~effect'[n].save
  BY <1>1 DEF NoEffect
<1>5. Requests(n)'
  <2>1. storage[n].current_term <= s.current_term
    BY <1>0 DEF Requests
  <2>2. \A m \in msgs : m.type = "RequestVote" => m.term \in Nat
    BY <1>0, MessageKinds DEF TypeOK, VoteRequest
  <2>3. \A m \in msgs : m.type = "RequestVote" /\ m.candidate_id = n =>
            m.term <= s.current_term
    BY <1>0, <2>1, <2>2 DEF Requests
  <2> QED BY <1>0, <1>1, <1>4, <2>3 DEF Requests
<1>6. Counts(n, t)' /\ Leads(n, c, t)'
  BY <1>1 DEF Counts, Leads
<1>7. \A p \in Node : Len(log[p]) \in Nat
  BY <1>0 DEF TypeOK
<1>8. Positions(n, c, t)'
  <2>1. Committed(0)
    <3>1. {p \in Node : 0 <= Len(log[p])} = Node
      BY <1>7
    <3> QED BY <3>1, AllAreMajority DEF Committed
  <2>2. Committed(0)'
    BY <1>1, <2>1 DEF Committed
  <2>3. \A p \in Node : match_index'[n][p] <= Len(log'[p])
    BY <1>1, <1>2, <1>7
  <2> QED BY <1>0, <1>1, <1>7, <2>2, <2>3 DEF Positions
<1>9. Advances
  BY <1>1, <1>7 DEF Advances
<1>10. Bound(n, c, t) => Bound(n, c, t)'
  <2> SUFFICES ASSUME Bound(n, c, t)
               PROVE  Bound(n, c, t)'
    OBVIOUS
  <2>1. s.current_term > t \/ s = [current_term |-> t, voted_for |-> c]
    BY DEF Bound
  <2>2. \/ s.current_term > t
        \/ s.current_term = t /\ s.voted_for = c
    BY <2>1
  <2>3. \A w \in Votes' : w[1] = n /\ w[2] = t => w[3] = c
    BY <1>1 DEF Bound, Votes
  <2> QED BY <1>1, <1>4, <2>1, <2>2, <2>3 DEF Bound
<1> QED BY <1>1, <1>3, <1>4, <1>5, <1>6, <1>8, <1>9, <1>10, LedStep
        DEF NodeIsLed

-----------------------------------------------------------------------------
(* The steps that move entries under the elected leader.                   *)

(* A request offers what the log holds beyond the position it starts from. *)
LEMMA RequestFields ==
    ASSUME NEW n \in Node, NEW p \in Node, NEW t \in Nat, NEW l \in Seq({t}),
           NEW i \in Nat, i <= Len(l), NEW u,
           NEW x, x = RequestFor(n, p, i, u, l)
    PROVE  /\ x.type = "AppendEntries" /\ x.leader_id = n /\ x.to = p
           /\ x.term = current_term[n] /\ x.commit_index = commit_index[n]
           /\ x.prev_log_index = i /\ x.entries \in Seq({t})
           /\ i + Len(x.entries) = Len(l)
<1> DEFINE rest == SubSeq(l, i + 1, Len(l))
           size == Len(l)
<1>1. /\ x.type = "AppendEntries" /\ x.leader_id = n /\ x.to = p
      /\ x.term = current_term[n] /\ x.commit_index = commit_index[n]
      /\ x.prev_log_index = i /\ x.entries = rest
  BY DEF RequestFor
<1>2. size \in Nat
  OBVIOUS
<1>3. rest \in Seq({t}) /\ Len(rest) = size - i
  BY <1>2, SubSeqProperties
<1> HIDE DEF rest
<1>4. x.entries \in Seq({t}) /\ Len(x.entries) = size - i
  BY <1>1, <1>3
<1> HIDE DEF size
<1>5. i + Len(x.entries) = size
  BY <1>2, <1>4
<1> QED BY <1>1, <1>4, <1>5 DEF size

(* A write of the leader lengthens its log by an entry of its term.        *)
LEMMA WriteLed ==
    ASSUME ReplicationTypeOK, ReplicationTypeOK', NEW c \in Node,
           NEW t \in Nat, Led(c, t), NEW n \in Node, WriteAndReplicate(n)
    PROVE  Led(c, t)'
<1> DEFINE l == log'[n]
<1>0. /\ CoreTypeOK /\ TypeOK /\ TypeOK' /\ current_term[n] \in Nat
      /\ Requests(n) /\ Positions(n, c, t) /\ Counts(n, t) /\ Leads(n, c, t)
      /\ Idle(n) /\ effect[n].out = {} /\ role[n] = "Leader"
      /\ Len(log[n]) \in Nat /\ last_log_index[n] \in Nat
      /\ commit_index[n] \in Nat
  BY LedFacts DEF ReplicationTypeOK, WriteAndReplicate, Write,
                  handle_local_entry_appended, Idle, NoEffect
<1>1. /\ UNCHANGED <<role, current_term, voted_for, granted_votes,
                     commit_index, effect, storage, msgs>>
      /\ last_log_index' = [last_log_index EXCEPT ![n] = Len(log[n]) + 1]
      /\ match_index' = [match_index EXCEPT ![n][n] = Len(log[n]) + 1]
      /\ log' = [log EXCEPT ![n] = Append(@, current_term[n])]
  BY DEF WriteAndReplicate, Write, handle_local_entry_appended, electionVars,
         commitVars
<1>2. n = c /\ current_term[n] = t /\ last_log_index[n] = Len(log[n])
  BY <1>0 DEF Leads
<1>3. match_index \in [Node -> [Node -> Nat]] /\ log \in [Node -> Seq(Nat)]
  BY <1>0 DEF CoreTypeOK, TypeOK
<1>4. \A p \in Node \ {n} : Same(p)
  BY <1>0, <1>1, <1>3 DEF CoreTypeOK, Same
<1>5. /\ l = Append(log[n], t) /\ l \in Seq({t}) /\ Len(l) = Len(log[n]) + 1
      /\ \A p \in Node \ {n} : log'[p] = log[p]
  <2>1. l = Append(log[n], t) /\ \A p \in Node \ {n} : log'[p] = log[p]
    BY <1>1, <1>2, <1>3
  <2>2. log[n] \in Seq({t})
    BY <1>0 DEF Positions
  <2> QED BY <2>1, <2>2, AppendProperties
<1>6. \A p \in Node : Len(log[p]) \in Nat
  BY <1>3
<1> HIDE DEF l
<1>7. Advances
  BY <1>1, <1>5, <1>6 DEF Advances, l
<1>8. PICK k \in Nat : /\ k = commit_index[n] /\ Committed(k)' /\ Committed(k)
                       /\ k <= last_log_index[n]
  BY <1>0, <1>7, CommittedStays DEF Positions
<1>9. Positions(n, c, t)'
  <2>1. \A p \in Node : match_index'[n][p] <= Len(log'[p])
    <3>1. match_index'[n][n] = Len(log'[n])
      BY <1>1, <1>3, <1>5 DEF l
    <3>2. \A p \in Node \ {n} : match_index'[n][p] = match_index[n][p]
      BY <1>1, <1>3
    <3>3. \A p \in Node \ {n} : match_index'[n][p] <= Len(log'[p])
      BY <1>0, <1>5, <3>2 DEF Positions
    <3>4. Len(log'[n]) \in Nat
      BY <1>0, <1>5 DEF l
    <3> QED BY <3>1, <3>3, <3>4
  <2>2. last_log_index'[n] = Len(log[n]) + 1
    BY <1>0, <1>1 DEF CoreTypeOK
  <2>3. /\ log'[n] \in Seq({t}) /\ Len(log'[n]) = Len(log[n]) + 1
        /\ commit_index'[n] = k /\ k <= Len(log[n]) + 1
        /\ current_term'[n] >= t
    BY <1>0, <1>1, <1>2, <1>5, <1>8 DEF l
  <2> QED BY <1>0, <1>2, <1>8, <2>1, <2>2, <2>3 DEF Positions
<1>10. Leads(n, c, t)'
  BY <1>0, <1>1, <1>2, <1>5 DEF Leads, CoreTypeOK, l
<1>11. Requests(n)'
  BY <1>0, <1>1 DEF Requests
<1>12. Counts(n, t)'
  BY <1>0, <1>1 DEF Counts
<1>13. Bound(n, c, t) => Bound(n, c, t)'
  BY <1>0, <1>1, BoundInNewTerm DEF Bound
<1>14. \A m \in appends' \ appends : TruthfulAppend(m, c, t)'
  <2> SUFFICES ASSUME NEW m \in appends' \ appends
               PROVE  TruthfulAppend(m, c, t)'
    OBVIOUS
  <2>1. PICK p \in Node \ {n}, u \in {TermAt(l, j) : j \in Nat} :
          m = RequestFor(n, p, Least(match_index[n][p], last_log_index[n]),
                         u, l)
    <3>1. PICK p \in Node \ {n} :
            LET prev == Least(match_index[n][p], last_log_index[n])
            IN  m = RequestFor(n, p, prev, TermAt(l, prev), l)
      BY DEF WriteAndReplicate, l
    <3>2. Least(match_index[n][p], last_log_index[n]) \in Nat
      BY <1>0, <1>3 DEF Least
    <3> QED BY <3>1, <3>2
  <2>2. PICK i \in Nat : /\ i = Least(match_index[n][p], last_log_index[n])
                         /\ i <= Len(l)
    <3>1. match_index[n][p] \in Nat
      BY <1>3
    <3> QED BY <1>0, <1>2, <1>5, <3>1 DEF Least
  <2>3. /\ m.type = "AppendEntries" /\ m.leader_id = n /\ m.to = p
        /\ m.term = current_term[n] /\ m.commit_index = commit_index[n]
        /\ m.prev_log_index = i /\ m.entries \in Seq({t})
        /\ i + Len(m.entries) = Len(l)
    <3>1. p \in Node /\ m = RequestFor(n, p, i, u, l)
      BY <2>1, <2>2
    <3>2. l \in Seq({t}) /\ i <= Len(l)
      BY <1>5, <2>2
    <3> QED BY <3>1, <3>2, RequestFields
  <2>4. m.prev_log_index + Len(m.entries) <= Len(log'[c])
    <3>1. Len(l) \in Nat /\ m.prev_log_index + Len(m.entries) = Len(l)
      BY <1>0, <1>5, <2>3
    <3>2. m.prev_log_index + Len(m.entries) <= Len(l)
      BY <3>1
    <3> QED BY <1>2, <3>2 DEF l
  <2>5. m.commit_index = k
    BY <1>8, <2>3
  <2>6. Committed(m.commit_index)'
    BY <1>8, <2>5
  <2> QED BY <1>2, <2>3, <2>4, <2>6 DEF TruthfulAppend
<1> QED BY <1>0, <1>1, <1>4, <1>7, <1>9, <1>10, <1>11, <1>12, <1>13, <1>14,
           LedStep DEF NodeIsLed

(* Under the first leader nothing is cut: a node that knows of entries is  *)
(* in the leader's term already.  What it has after the request is the     *)
(* longer of its own log and the part of the leader's that was offered.    *)
LEMMA PersistedIsLed ==
    ASSUME ReplicationTypeOK, NEW c \in Node, NEW t \in Nat, NEW n \in Node,
           Positions(n, c, t), NEW m \in AppendEntriesRequest,
           PreviousEntryMatches(n, m), m.term = t, m.entries \in Seq({t}),
           m.prev_log_index + Len(m.entries) <= Len(log[c]),
           NEW l, l = Persisted(n, m)
    PROVE  /\ ~Truncates(n, m)
           /\ l \in Seq({t})
           /\ Len(l) \in Nat
           /\ Len(log[n]) <= Len(l)
           /\ Len(l) <= Len(log[c])
<1> DEFINE i == m.prev_log_index
           e == m.entries
           b == log[n]
           j == Len(b) - i + 1
           rest == SubSeq(e, j, Len(e))
<1>0. /\ current_term[n] \in Nat /\ last_log_index[n] \in Nat /\ i \in Nat
      /\ Len(b) \in Nat /\ Len(log[c]) \in Nat
  <2>1. CoreTypeOK /\ log[n] \in Seq(Nat) /\ log[c] \in Seq(Nat)
    BY DEF ReplicationTypeOK, TypeOK
  <2>2. m.prev_log_index \in Nat
    BY DEF AppendEntriesRequest
  <2>3. current_term[n] \in Nat /\ last_log_index[n] \in Nat
    BY <2>1 DEF CoreTypeOK
  <2>4. Len(log[n]) \in Nat /\ Len(log[c]) \in Nat
    BY <2>1, LenProperties
  <2> QED BY <2>2, <2>3, <2>4
<1>1. ~Truncates(n, m)
  BY <1>0 DEF Truncates, Positions
<1>2. i <= Len(b) /\ b \in Seq({t}) /\ Len(b) <= Len(log[c])
  BY <1>0 DEF PreviousEntryMatches, Positions
<1>3. l = b \o rest
  BY <1>1 DEF Persisted
<1>4. e \in Seq({t}) /\ Len(e) \in Nat /\ i + Len(e) <= Len(log[c])
  OBVIOUS
<1>5. j \in Nat \ {0}
  BY <1>0, <1>2
<1> HIDE DEF e, b, i, j
<1>6. /\ rest \in Seq({t})
      /\ Len(rest) = IF j <= Len(e) THEN Len(e) - j + 1 ELSE 0
  BY <1>4, <1>5, SubSeqProperties
<1> HIDE DEF rest
<1>7. l \in Seq({t}) /\ Len(l) = Len(b) + Len(rest) /\ Len(rest) \in Nat
  BY <1>2, <1>3, <1>6, ConcatProperties
<1>8. Len(b) <= Len(l) /\ Len(l) <= Len(log[c])
  BY <1>0, <1>2, <1>4, <1>5, <1>6, <1>7 DEF j
<1> QED BY <1>0, <1>1, <1>7, <1>8 DEF b

(* A follower refuses a request, or takes over what the leader offers.     *)
LEMMA AppendEntriesLed ==
    ASSUME ReplicationTypeOK, ReplicationTypeOK', NEW c \in Node,
           NEW t \in Nat, Led(c, t), NEW n \in Node, NEW m \in appends,
           m.type = "AppendEntries", m.to = n, handle_append_entries(n, m)
    PROVE  Led(c, t)'
<1>0. /\ CoreTypeOK /\ TypeOK /\ TypeOK' /\ current_term[n] \in Nat
      /\ storage[n].current_term \in Nat
      /\ Requests(n) /\ Positions(n, c, t) /\ Counts(n, t) /\ Leads(n, c, t)
      /\ Idle(n) /\ effect[n].out = {} /\ ~effect[n].save
      /\ last_log_index[n] \in Nat /\ commit_index[n] \in Nat
      /\ Len(log[n]) \in Nat
  BY LedFacts DEF ReplicationTypeOK, handle_append_entries, Idle, NoEffect
<1>1. /\ m.leader_id = c /\ m.term = t /\ n # c /\ m.entries \in Seq({t})
      /\ m.prev_log_index + Len(m.entries) <= Len(log[c])
      /\ Committed(m.commit_index)
  BY DEF Led, TruthfulAppend
<1>2. m \in AppendEntriesRequest /\ m.commit_index \in Nat
  BY AppendKinds DEF ReplicationTypeOK, AppendEntriesRequest
<1>3. UNCHANGED <<match_index, effect, storage, msgs>>
  BY DEF handle_append_entries, progressVars
<1>4. \A p \in Node : Len(log[p]) \in Nat
  BY <1>0 DEF TypeOK
<1>5. ASSUME last_log_index[n] <= Len(log'[n]),
             NEW success, NEW term, NEW j, NEW leader,
             appends' = (appends \ {m}) \cup
                {ResponseTo(n, m, success, term, <<last_log_index[n], j>>,
                            leader)}
      PROVE  \A x \in appends' \ appends : TruthfulAppend(x, c, t)'
  <2>1. PICK r : r = ResponseTo(n, m, success, term, <<last_log_index[n], j>>,
                                leader)
    OBVIOUS
  <2>2. /\ r.type = "AppendEntriesResponse" /\ r.from = n /\ r.to = c
        /\ r.last_log_index = last_log_index[n]
    BY <1>1, <2>1 DEF ResponseTo
  <2>3. TruthfulAppend(r, c, t)'
    BY <1>1, <1>5, <2>2 DEF TruthfulAppend
  <2> QED BY <1>5, <2>1, <2>3
<1>6. CASE /\ RejectAppendEntries(n, m, current_term[n], leader_id[n])
           /\ UNCHANGED <<electionVars, positionVars, commitVars, log>>
  <2>1. UNCHANGED <<role, current_term, voted_for, granted_votes,
                    last_log_index, commit_index, log>>
    BY <1>6 DEF electionVars, positionVars, commitVars
  <2>2. \A p \in Node : Same(p)
    BY <1>3, <2>1 DEF Same
  <2>3. Advances
    BY <1>3, <1>4, <2>1 DEF Advances
  <2>4. \A x \in appends' \ appends : TruthfulAppend(x, c, t)'
    <3>1. last_log_index[n] <= Len(log'[n])
      BY <1>0, <2>1 DEF Positions
    <3> QED BY <1>5, <1>6, <3>1 DEF RejectAppendEntries
  <2>5. Requests(n)' /\ Leads(n, c, t)'
    BY <1>0, <1>3, <2>1 DEF Requests, Leads
  <2>6. Counts(n, t)'
    <3>1. Votes' = Votes
      BY <1>3 DEF Votes
    <3> QED BY <1>0, <1>3, <2>1, <3>1 DEF Counts
  <2>7. Positions(n, c, t)'
    BY <1>0, <1>3, <2>1, PositionsKept
  <2>8. Bound(n, c, t) => Bound(n, c, t)'
    BY <1>0, <1>3, <2>1, BoundInNewTerm
  <2>9. NodeIsLed(n, c, t)'
    BY <1>0, <1>3, <2>5, <2>6, <2>7 DEF NodeIsLed
  <2> QED BY <1>3, <2>2, <2>3, <2>4, <2>8, <2>9, LedStep
<1>7. CASE /\ m.term >= current_term[n]
           /\ current_term' = [current_term EXCEPT ![n] = m.term]
           /\ RejectAppendEntries(n, m, m.term, m.leader_id)
           /\ UNCHANGED <<role, voted_for, granted_votes, positionVars,
                          commitVars, log>>
  <2>1. /\ UNCHANGED <<role, voted_for, granted_votes, last_log_index,
                       commit_index, log>>
        /\ current_term'[n] = t /\ t >= current_term[n]
        /\ \A p \in Node \ {n} : current_term'[p] = current_term[p]
    BY <1>0, <1>1, <1>7 DEF positionVars, commitVars, CoreTypeOK
  <2>2. \A p \in Node \ {n} : Same(p)
    BY <1>3, <2>1 DEF Same
  <2>3. Advances
    BY <1>3, <1>4, <2>1 DEF Advances
  <2>4. \A x \in appends' \ appends : TruthfulAppend(x, c, t)'
    <3>1. last_log_index[n] <= Len(log'[n])
      BY <1>0, <2>1 DEF Positions
    <3> QED BY <1>5, <1>7, <3>1 DEF RejectAppendEntries
  <2>5. storage[n].current_term <= t
    BY <1>0, <2>1 DEF Requests
  <2>6. Requests(n)' /\ Leads(n, c, t)'
    BY <1>0, <1>1, <1>3, <2>1, <2>5 DEF Requests, Leads
  <2>7. Counts(n, t)'
    <3>1. Votes' = Votes
      BY <1>3 DEF Votes
    <3>2. CASE current_term[n] = t
      BY <1>0, <1>3, <2>1, <3>1, <3>2 DEF Counts
    <3>3. CASE current_term[n] < t
      <4>1. \A r \in msgs : r.type = "RequestVote" => r.term \in Nat
        BY <1>0, MessageKinds DEF TypeOK, VoteRequest
      <4>2. \A r \in msgs : r.type = "RequestVote" /\ r.candidate_id = n =>
              r.term # t
        BY <1>0, <3>3, <4>1 DEF Requests
      <4> QED BY <1>0, <1>3, <2>1, <4>2 DEF Counts
    <3> QED BY <1>0, <2>1, <3>2, <3>3
  <2>8. Positions(n, c, t)'
    BY <1>0, <1>3, <2>1, PositionsKept
  <2>9. Bound(n, c, t) => Bound(n, c, t)'
    BY <1>0, <1>3, <2>1, BoundInNewTerm DEF Bound
  <2>10. NodeIsLed(n, c, t)'
    BY <1>0, <1>3, <2>6, <2>7, <2>8 DEF NodeIsLed
  <2> QED BY <1>3, <2>2, <2>3, <2>4, <2>9, <2>10, LedStep
<1>8. CASE /\ m.term >= current_term[n]
           /\ PreviousEntryMatches(n, m)
           /\ current_term' = [current_term EXCEPT ![n] = m.term]
           /\ voted_for' = [voted_for EXCEPT
                 ![n] = IF m.term > current_term[n] THEN Nil ELSE @]
           /\ role' = [role EXCEPT ![n] = "Follower"]
           /\ log' = [log EXCEPT ![n] = Persisted(n, m)]
           /\ appends' = (appends \ {m}) \cup
                 {ResponseTo(n, m, TRUE, m.term, AnsweredPosition(n, m),
                             m.leader_id)}
           /\ handle_entries_persisted(n,
                 PersistedEntries(Persisted(n, m), m.commit_index))
           /\ UNCHANGED granted_votes
  <2> DEFINE l == Persisted(n, m)
             commit == Least(m.commit_index, Len(l))
  <2>1. /\ ~Truncates(n, m) /\ l \in Seq({t}) /\ Len(l) \in Nat
        /\ Len(log[n]) <= Len(l) /\ Len(l) <= Len(log[c])
    BY <1>0, <1>1, <1>2, <1>8, PersistedIsLed
  <2>2. /\ last_log_index' = [last_log_index EXCEPT ![n] = Len(l)]
        /\ commit_index' = IF commit > commit_index[n]
                           THEN [commit_index EXCEPT ![n] = commit]
                           ELSE commit_index
    BY <1>8 DEF handle_entries_persisted, PersistedEntries, CommitThrough,
                commitVars
  <2> HIDE DEF l
  <2>3. /\ current_term'[n] = t /\ t >= current_term[n]
        /\ role'[n] = "Follower" /\ log'[n] = l
        /\ voted_for'[n] = IF t > current_term[n] THEN Nil ELSE voted_for[n]
        /\ last_log_index'[n] = Len(l)
        /\ commit_index'[n] = IF commit > commit_index[n] THEN commit
                                                          ELSE commit_index[n]
        /\ \A p \in Node \ {n} : log'[p] = log[p]
    <3>1. /\ current_term'[n] = t /\ t >= current_term[n]
          /\ role'[n] = "Follower"
          /\ voted_for'[n] = IF t > current_term[n] THEN Nil ELSE voted_for[n]
      BY <1>0, <1>1, <1>8 DEF CoreTypeOK
    <3>2. log'[n] = l /\ \A p \in Node \ {n} : log'[p] = log[p]
      BY <1>0, <1>8 DEF TypeOK, l
    <3>3. /\ last_log_index'[n] = Len(l)
          /\ commit_index'[n] = IF commit > commit_index[n] THEN commit
                                                        ELSE commit_index[n]
      BY <1>0, <2>2 DEF CoreTypeOK
    <3> QED BY <3>1, <3>2, <3>3
  <2>4. \A p \in Node \ {n} : Same(p)
    <3>1. \A p \in Node \ {n} : /\ role'[p] = role[p]
                                /\ current_term'[p] = current_term[p]
                                /\ voted_for'[p] = voted_for[p]
                                /\ granted_votes'[p] = granted_votes[p]
      BY <1>0, <1>8 DEF CoreTypeOK
    <3>2. \A p \in Node \ {n} : /\ last_log_index'[p] = last_log_index[p]
                                /\ commit_index'[p] = commit_index[p]
      BY <1>0, <2>2 DEF CoreTypeOK
    <3> QED BY <1>3, <2>3, <3>1, <3>2 DEF Same
  <2>5. Advances
    BY <1>3, <1>4, <2>1, <2>3 DEF Advances
  <2>6. \A x \in appends' \ appends : TruthfulAppend(x, c, t)'
    <3>1. last_log_index[n] <= Len(log'[n])
      BY <1>0, <2>1, <2>3 DEF Positions
    <3>2. AnsweredPosition(n, m) = <<last_log_index[n], last_log_term[n]>>
      BY <2>1 DEF AnsweredPosition
    <3>3. appends' = (appends \ {m}) \cup
            {ResponseTo(n, m, TRUE, m.term,
                        <<last_log_index[n], last_log_term[n]>>, m.leader_id)}
      BY <1>8, <3>2, Zenon
    <3> QED BY <1>5, <3>1, <3>3
  <2>7. storage[n].current_term <= t
    BY <1>0, <2>3 DEF Requests
  <2>8. Requests(n)' /\ Leads(n, c, t)' /\ Counts(n, t)'
    BY <1>0, <1>3, <2>3, <2>7 DEF Requests, Leads, Counts
  <2>9. Positions(n, c, t)'
    <3>1. PICK i \in Nat : i = commit_index'[n]
      BY <1>0 DEF TypeOK, CoreTypeOK
    <3>2. PICK j \in Nat : /\ j = commit_index[n] /\ Committed(j)
                           /\ j <= last_log_index[n]
      BY <1>0 DEF Positions
    <3>3. i = j \/ (i <= m.commit_index /\ i <= Len(l))
      BY <1>2, <2>1, <2>3, <3>1, <3>2 DEF Least
    <3>4. Committed(i) /\ i <= Len(l)
      <4>1. last_log_index[n] <= Len(log[n])
        BY <1>0 DEF Positions
      <4> QED BY <1>0, <1>1, <1>2, <2>1, <3>2, <3>3, <4>1, CommittedBefore
    <3>5. Committed(i)'
      BY <1>0, <2>5, <3>4, CommittedStays
    <3>6. \A p \in Node : match_index[n][p] \in Nat
      BY <1>0 DEF CoreTypeOK
    <3>7. \A p \in Node : match_index'[n][p] <= Len(log'[p])
      <4>1. \A p \in Node : Len(log[p]) <= Len(log'[p]) /\ Len(log'[p]) \in Nat
        BY <1>0, <2>5 DEF Advances, TypeOK
      <4>2. \A p \in Node : match_index[n][p] <= Len(log[p])
        BY <1>0 DEF Positions
      <4> QED BY <1>3, <1>4, <3>6, <4>1, <4>2
    <3>8. Len(log'[n]) <= Len(log'[c]) /\ last_log_index'[n] <= Len(log'[n])
      BY <1>1, <2>1, <2>3
    <3>9. log'[n] \in Seq({t}) /\ current_term'[n] >= t
      BY <2>1, <2>3
    <3> QED BY <2>3, <3>1, <3>4, <3>5, <3>7, <3>8, <3>9 DEF Positions
  <2>10. Bound(n, c, t) => Bound(n, c, t)'
    BY <1>0, <1>3, <2>3, BoundInNewTerm DEF Bound
  <2>11. NodeIsLed(n, c, t)'
    BY <1>0, <1>3, <2>8, <2>9 DEF NodeIsLed
  <2> QED BY <1>3, <2>4, <2>5, <2>6, <2>10, <2>11, LedStep
<1> QED BY <1>6, <1>7, <1>8 DEF handle_append_entries

(* The leader learns how far a follower is, sends it the rest, and commits *)
(* what a majority has.                                                    *)
LEMMA AppendEntriesResponseLed ==
    ASSUME ReplicationTypeOK, ReplicationTypeOK', NEW c \in Node,
           NEW t \in Nat, Led(c, t), NEW n \in Node, NEW m \in appends,
           m.type = "AppendEntriesResponse",
           handle_append_entries_response(n, m)
    PROVE  Led(c, t)'
<1>0. /\ CoreTypeOK /\ TypeOK /\ TypeOK' /\ current_term[n] \in Nat
      /\ Requests(n) /\ Positions(n, c, t) /\ Counts(n, t) /\ Leads(n, c, t)
      /\ Idle(n) /\ effect[n].out = {} /\ ~effect[n].save
      /\ role[n] = "Leader"
      /\ last_log_index[n] \in Nat /\ commit_index[n] \in Nat
      /\ Len(log[n]) \in Nat
  BY LedFacts DEF ReplicationTypeOK, handle_append_entries_response, Idle,
                  NoEffect
<1>1. n = c /\ current_term[n] = t /\ last_log_index[n] = Len(log[n])
  BY <1>0 DEF Leads
<1>2. /\ m.from \in Node /\ m.last_log_index \in Nat /\ m.term \in Nat
  BY AppendKinds DEF ReplicationTypeOK, AppendEntriesResponse
<1>3. m.from # c /\ m.last_log_index <= Len(log[m.from])
  BY DEF Led, TruthfulAppend
<1>4. UNCHANGED <<last_log_index, effect, storage, log, msgs>>
  BY DEF handle_append_entries_response, positionVars
<1>5. \A p \in Node : Len(log[p]) \in Nat
  BY <1>0 DEF TypeOK
<1>6. Advances
  BY <1>4, <1>5 DEF Advances
<1>7. CASE /\ m.term > current_term[n]
           /\ StepDown(n, m.term, m.leader_id)
           /\ appends' = appends \ {m}
           /\ UNCHANGED <<commitVars, progressVars>>
  <2>1. UNCHANGED <<commit_index, match_index>> /\ appends' \subseteq appends
    BY <1>7 DEF commitVars, progressVars
  <2> QED BY <1>0, <1>2, <1>4, <1>7, <2>1, StepDownLed
<1>8. ASSUME m.last_log_index <= last_log_index[n],
             Resend(n, m) \/ appends' = appends \ {m}
      PROVE  \A x \in appends' \ appends : TruthfulAppend(x, c, t)'
  <2> SUFFICES ASSUME NEW x \in appends' \ appends
               PROVE  TruthfulAppend(x, c, t)'
    OBVIOUS
  <2>1. x = RequestFor(n, m.from, m.last_log_index, m.last_log_term, log[n])
    BY <1>8 DEF Resend
  <2>2. PICK i \in Nat, p \in Node, l \in Seq({t}) :
            /\ i = m.last_log_index /\ p = m.from /\ l = log[n] /\ i <= Len(l)
    <3>1. log[n] \in Seq({t})
      BY <1>0 DEF Positions
    <3> QED BY <1>1, <1>2, <1>8, <3>1
  <2>3. PICK u \in {m.last_log_term} : x = RequestFor(n, p, i, u, l)
    BY <2>1, <2>2
  <2>4. /\ x.type = "AppendEntries" /\ x.leader_id = n /\ x.to = p
        /\ x.term = current_term[n] /\ x.commit_index = commit_index[n]
        /\ x.prev_log_index = i /\ x.entries \in Seq({t})
        /\ i + Len(x.entries) = Len(l)
    <3>1. i <= Len(l) /\ x = RequestFor(n, p, i, u, l)
      BY <2>2, <2>3
    <3> QED BY ONLY <3>1, n \in Node, p \in Node, t \in Nat, i \in Nat,
                    l \in Seq({t}), RequestFields
  <2>5. Committed(x.commit_index)'
    <3>1. PICK k \in Nat : k = commit_index[n] /\ Committed(k)
      BY <1>0 DEF Positions
    <3>2. Committed(k)'
      BY <1>0, <1>6, <3>1, CommittedStays
    <3> QED BY <2>4, <3>1, <3>2
  <2>6. x.prev_log_index + Len(x.entries) <= Len(log'[c])
    <3>1. x.prev_log_index + Len(x.entries) = Len(log'[c])
      BY <1>1, <1>4, <2>2, <2>4
    <3> QED BY <1>4, <1>5, <3>1
  <2> QED BY <1>1, <1>3, <2>2, <2>4, <2>5, <2>6 DEF TruthfulAppend
<1>9. ASSUME UNCHANGED electionVars, Positions(n, c, t)',
             \A p \in Node \ {n} : commit_index'[p] = commit_index[p]
                                   /\ match_index'[p] = match_index[p],
             m.last_log_index <= last_log_index[n],
             Resend(n, m) \/ appends' = appends \ {m}
      PROVE  Led(c, t)'
  <2>1. UNCHANGED <<role, current_term, voted_for, granted_votes>>
    BY <1>9 DEF electionVars
  <2>2. \A p \in Node \ {n} : Same(p)
    BY <1>4, <1>9, <2>1 DEF Same
  <2>3. Requests(n)' /\ Leads(n, c, t)' /\ Counts(n, t)'
    BY <1>0, <1>4, <2>1 DEF Requests, Leads, Counts
  <2>4. Bound(n, c, t) => Bound(n, c, t)'
    BY <1>0, <1>4, <2>1, BoundInNewTerm
  <2>5. NodeIsLed(n, c, t)'
    BY <1>0, <1>4, <1>9, <2>3 DEF NodeIsLed
  <2> QED BY <1>4, <1>6, <1>8, <1>9, <2>2, <2>4, <2>5, LedStep
<1>10. CASE /\ m.last_log_index < last_log_index[n]
            /\ Resend(n, m)
            /\ UNCHANGED <<electionVars, commitVars, progressVars>>
  <2>1. UNCHANGED <<commit_index, match_index, current_term>>
    BY <1>10 DEF commitVars, progressVars, electionVars
  <2>2. Positions(n, c, t)'
    BY <1>0, <1>4, <2>1, PositionsKept
  <2> QED BY <1>0, <1>2, <1>9, <1>10, <2>1, <2>2
<1>11. CASE /\ m.last_log_index <= last_log_index[n]
            /\ match_index' = [match_index EXCEPT ![n][m.from] = Reported(m)]
            /\ \/ Resend(n, m) /\ UNCHANGED commitVars
               \/ /\ IF /\ Majority(CaughtUp(n))
                        /\ commit_index[n] < last_log_index[n]
                     THEN CommitThrough(n, last_log_index[n])
                     ELSE UNCHANGED commitVars
                  /\ appends' = appends \ {m}
            /\ UNCHANGED electionVars
  <2>1. match_index \in [Node -> [Node -> Nat]]
        /\ commit_index \in [Node -> Nat]
    BY <1>0 DEF CoreTypeOK
  <2>2. \A p \in Node : match_index'[n][p] <= Len(log[p])
    <3>1. match_index'[n][m.from] = m.last_log_index
      BY <1>2, <1>11, <2>1 DEF Reported
    <3>2. \A p \in Node \ {m.from} : match_index'[n][p] = match_index[n][p]
      BY <1>2, <1>11, <2>1
    <3> QED BY <1>0, <1>3, <3>1, <3>2 DEF Positions
  <2>3. \A p \in Node \ {n} : match_index'[p] = match_index[p]
    BY <1>2, <1>11, <2>1
  <2>4. \/ UNCHANGED commit_index
        \/ /\ Majority(CaughtUp(n))
           /\ commit_index' = [commit_index EXCEPT ![n] = last_log_index[n]]
    BY <1>11 DEF CommitThrough, commitVars
  <2>5. \A p \in Node \ {n} : commit_index'[p] = commit_index[p]
    BY <2>1, <2>4
  <2>6. commit_index'[n] <= last_log_index[n] /\ Committed(commit_index[n])'
    <3>1. CASE UNCHANGED commit_index
      BY <1>0, <1>4, <3>1 DEF Positions, Committed
    <3>2. CASE /\ Majority(CaughtUp(n))
               /\ commit_index' = [commit_index EXCEPT ![n] = last_log_index[n]]
      <4>1. PICK i \in Nat : i = last_log_index[n]
        BY <1>0
      <4>2. CaughtUp(n) \subseteq {p \in Node : i <= Len(log[p])}
        <5>1. \A p \in Node : match_index'[n][p] \in Nat
          BY <1>0 DEF TypeOK, CoreTypeOK
        <5> QED BY <1>5, <2>2, <4>1, <5>1 DEF CaughtUp
      <4>3. Committed(i)
        BY <3>2, <4>2, MajorityGrows DEF Committed
      <4>4. Committed(i)'
        BY <1>4, <4>3 DEF Committed
      <4>5. commit_index'[n] = i
        BY <2>1, <3>2, <4>1
      <4> QED BY <4>1, <4>4, <4>5
    <3> QED BY <2>4, <3>1, <3>2
  <2>7. UNCHANGED current_term
    BY <1>11 DEF electionVars
  <2>8. Positions(n, c, t)'
    BY <1>0, <1>4, <2>2, <2>6, <2>7 DEF Positions
  <2> QED BY <1>9, <1>11, <2>3, <2>5, <2>8
<1> QED BY <1>7, <1>10, <1>11 DEF handle_append_entries_response, Reported

(* Every step keeps what the election of c has established, as long as     *)
(* nobody wins another term.                                               *)
LEMMA LedNext ==
    ASSUME ReplicationTypeOK, ReplicationTypeOK', FirstLeadership,
           NEW c \in Node, NEW t \in Nat, Led(c, t),
           [ReplicationNext]_replicationVars
    PROVE  Led(c, t)'
<1>0. CoreTypeOK /\ TypeOK
  BY DEF ReplicationTypeOK, TypeOK
<1>1. CASE UNCHANGED replicationVars
  <2>1. /\ UNCHANGED <<role, current_term, voted_for, granted_votes,
                       last_log_index, commit_index, match_index>>
        /\ UNCHANGED <<effect, storage, log, msgs, appends>>
    BY <1>1 DEF replicationVars, vars, coreVars, electionVars, positionVars,
                commitVars, progressVars
  <2>2. \A p \in Node : Same(p)
    BY <2>1 DEF Same
  <2>3. Advances
    <3>1. \A p \in Node : Len(log[p]) \in Nat
      BY <1>0 DEF TypeOK
    <3> QED BY <2>1, <3>1 DEF Advances
  <2>4. \A p \in Node : NodeIsLed(p, c, t) /\ Requests(p)
    BY DEF Led, NodeIsLed
  <2>5. NodeIsLed(c, c, t)'
    <3>1. /\ Requests(c) /\ Counts(c, t) /\ Positions(c, c, t)
          /\ Leads(c, c, t) /\ \A m \in effect[c].out : Truthful(m, c, t)
      BY <2>4 DEF NodeIsLed
    <3>2. Requests(c)' /\ Leads(c, c, t)'
      BY <2>1, <3>1 DEF Requests, Leads
    <3>3. Counts(c, t)'
      <4>1. Votes' = Votes
        BY <2>1 DEF Votes
      <4> QED BY <2>1, <3>1, <4>1 DEF Counts
    <3>4. Positions(c, c, t)'
      BY <2>1, <3>1 DEF Positions, Committed
    <3>5. \A m \in effect'[c].out : Truthful(m, c, t)'
      BY <2>1, <3>1 DEF Truthful, Asked, Committed
    <3> QED BY <3>2, <3>3, <3>4, <3>5 DEF NodeIsLed
  <2>6. Bound(c, c, t) => Bound(c, c, t)'
    <3>1. Votes' = Votes
      BY <2>1 DEF Votes
    <3> QED BY <2>1, <3>1 DEF Bound
  <2> QED BY <2>1, <2>2, <2>3, <2>5, <2>6, LedStep
<1>2. ASSUME NEW n \in Node, Replicate(n)
      PROVE  Led(c, t)'
  <2>1. CASE WriteAndReplicate(n)
    BY <2>1, WriteLed
  <2>2. ASSUME NEW m \in appends, ReceiveAppend(n, m)
        PROVE  Led(c, t)'
    BY <2>2, AppendEntriesLed, AppendEntriesResponseLed DEF ReceiveAppend
  <2> QED BY <1>2, <2>1, <2>2 DEF Replicate
<1>3. ASSUME NEW n \in Node, Elect(n)
      PROVE  Led(c, t)'
  <2>0. UNCHANGED appends
    BY <1>3 DEF Elect
  <2>1. CASE Timeout(n)
    BY <2>0, <2>1, ElectionTimeoutLed, HeartbeatTimeoutLed DEF Timeout
  <2>2. ASSUME NEW m \in msgs, Receive(n, m)
        PROVE  Led(c, t)'
    <3>1. m \in Message
      BY <1>0 DEF TypeOK
    <3>2. UNCHANGED <<storage, log, msgs>>
      BY <2>2 DEF Receive
    <3>3. CASE m.type = "RequestVote" /\ handle_request_vote(n, m)
      BY <2>0, <3>1, <3>2, <3>3, MessageKinds, RequestVoteLed
    <3>4. CASE m.type = "VoteResponse" /\ m.to = n /\ handle_vote_response(n, m)
      BY <2>0, <3>1, <3>2, <3>4, MessageKinds, VoteResponseLed
    <3>5. CASE m.type = "Heartbeat" /\ handle_heartbeat(n, m)
      BY <2>0, <3>1, <3>2, <3>5, MessageKinds, HeartbeatLed
    <3>6. CASE m.type = "HeartbeatResponse" /\ handle_heartbeat_response(n, m)
      BY <2>0, <3>1, <3>2, <3>6, MessageKinds, HeartbeatResponseLed
    <3> QED BY <2>2, <3>3, <3>4, <3>5, <3>6 DEF Receive
  <2>3. CASE persist_hard_state(n)
    BY <2>0, <2>3, PersistLed
  <2>4. CASE Send(n)
    BY <2>0, <2>4, SendLed
  <2>5. CASE Crash(n)
    <3>1. PICK s \in State : s = storage[n]
      BY <1>0, StateType
    <3>2. Boot(n, s) /\ storage' = [storage EXCEPT ![n] = s]
      BY <1>0, <2>5, <3>1 DEF Crash, load_state, TypeOK
    <3> QED BY <2>0, <3>1, <3>2, BootLed
  <2>6. CASE CrashDuringSave(n)
    <3>1. PICK s \in HalfSaved(n) : /\ Boot(n, s)
                                    /\ storage' = [storage EXCEPT ![n] = s]
      BY <2>6 DEF CrashDuringSave
    <3>2. s \in State /\ s.current_term = current_term[n]
      BY <1>0, <3>1, StateType DEF HalfSaved
    <3>3. effect[n].save
      BY <2>6 DEF CrashDuringSave
    <3> QED BY <2>0, <3>1, <3>2, <3>3, BootLed
  <2> QED BY <1>3, <2>1, <2>2, <2>3, <2>4, <2>5, <2>6 DEF Elect
<1> QED BY <1>1, <1>2, <1>3 DEF ReplicationNext

-----------------------------------------------------------------------------
(* Until somebody is elected.                                              *)

(* What an election rests on: c asked for the votes, and everyone who gave *)
(* it one is bound to it.                                                  *)
LEMMA VotersAreBound ==
    ASSUME TypeOK, VoteInvariant, NEW c \in Node, NEW t \in Nat,
           NEW v \in Node, <<v, t, c>> \in Votes
    PROVE  Bound(v, c, t)
<1>0. /\ current_term[v] \in Nat /\ storage[v].current_term \in Nat
      /\ DiskFollowsMemory(v) /\ PendingVoteIsHeld(v) /\ c # Nil
  BY NodeAssumption
     DEF TypeOK, CoreTypeOK, State, VoteInvariant, NodeInvariant
<1>1. \/ storage[v].current_term > t
      \/ storage[v] = [current_term |-> t, voted_for |-> c]
  BY DEF VoteInvariant, VoteIsDurable
<1>2. \/ current_term[v] > t
      \/ current_term[v] = t /\ voted_for[v] = c /\ ~effect[v].save
  <2>1. CASE storage[v].current_term > t
    BY <1>0, <2>1 DEF DiskFollowsMemory
  <2>2. CASE storage[v] = [current_term |-> t, voted_for |-> c]
    <3>1. storage[v].current_term = t /\ storage[v].voted_for = c
      BY <2>2
    <3> QED BY <1>0, <3>1 DEF DiskFollowsMemory
  <2> QED BY <1>1, <2>1, <2>2
<1>3. ASSUME NEW m \in effect[v].out
      PROVE  /\ m.type = "VoteResponse" /\ m.vote_granted /\ m.term = t
                    => m.to = c
             /\ m.type = "RequestVote" /\ m.term = t => m.candidate_id = c
  BY <1>0, <1>2, <1>3 DEF PendingVoteIsHeld
<1>4. \A w \in Votes : w[1] = v /\ w[2] = t => w[3] = c
  <2> DEFINE x == <<v, t, c>>
  <2>1. x \in Votes /\ x[1] = v /\ x[2] = t /\ x[3] = c
    OBVIOUS
  <2> HIDE DEF x
  <2> QED BY <2>1 DEF VoteInvariant, OneVotePerTerm
<1> QED BY <1>1, <1>2, <1>3, <1>4 DEF Bound

(* With a first winner, an empty cluster is led by it.                     *)
LEMMA CalmElected ==
    ASSUME NEW c \in Node, NEW t \in Nat
    PROVE  ReplicationTypeOK /\ Calm /\ Elected(c, t) => Led(c, t)
<1> SUFFICES ASSUME ReplicationTypeOK, Calm, Elected(c, t)
             PROVE  Led(c, t)
  OBVIOUS
<1>0. TypeOK /\ CoreTypeOK /\ VoteInvariant /\ HintInvariant /\ appends = {}
  BY DEF ReplicationTypeOK, TypeOK, Calm
<1>1. BoundQuorum(c, t)
  <2>1. PICK Q \in SUBSET Node : /\ Majority(Q)
                                 /\ \A v \in Q : <<v, t, c>> \in Votes
    BY ElectedByMajority
  <2>2. PICK v \in Node : <<v, t, c>> \in Votes
    BY ElectedByMajority
  <2>3. <<c, t, c>> \in Votes
    <3>1. PICK m \in msgs :
            \/ /\ m.type = "VoteResponse" /\ m.vote_granted
               /\ m.term = t /\ m.to = c
            \/ m.type = "RequestVote" /\ m.term = t /\ m.candidate_id = c
      BY <2>2 DEF Votes
    <3>2. PICK r \in msgs : /\ r.type = "RequestVote" /\ r.candidate_id = c
                            /\ r.term = t
      BY <3>1 DEF Calm, Asked
    <3> QED BY <3>2, VoteMembership
  <2> DEFINE R == Q \cup {c}
  <2>4. Majority(R)
    BY <2>1, MajorityGrows
  <2>5. \A u \in R : Bound(u, c, t)
    BY <1>0, <2>1, <2>3, VotersAreBound
  <2> QED BY <2>4, <2>5 DEF BoundQuorum
<1>2. Committed(0)
  <2>1. \A p \in Node : log[p] = <<>>
    BY DEF Calm, Blank
  <2>2. {p \in Node : 0 <= Len(log[p])} = Node
    BY <2>1
  <2> QED BY <2>2, AllAreMajority DEF Committed
<1>3. ASSUME NEW n \in Node
      PROVE  NodeIsLed(n, c, t)
  <2>0. /\ Blank(n) /\ DiskFollowsMemory(n) /\ PendingVoteIsHeld(n)
        /\ CountedVotesWereSent(n) /\ OwnVote(n) /\ n # Nil
        /\ current_term[n] \in Nat /\ storage[n].current_term \in Nat
    BY <1>0, NodeAssumption
       DEF Calm, VoteInvariant, NodeInvariant, HintInvariant, NodeHint,
           TypeOK, CoreTypeOK, State
  <2>1. Requests(n)
    <3>1. ASSUME NEW m \in effect[n].out, m.type = "RequestVote"
          PROVE  effect[n].save \/ m.term <= storage[n].current_term
      <4>1. m.term = current_term[n] /\ voted_for[n] = n
        BY <2>0, <3>1 DEF PendingVoteIsHeld
      <4>2. ~effect[n].save =>
                storage[n].current_term = current_term[n]
        BY <2>0, <4>1 DEF DiskFollowsMemory, HardState
      <4> QED BY <2>0, <4>1, <4>2
    <3>2. ASSUME NEW m \in msgs, m.type = "RequestVote", m.candidate_id = n
          PROVE  m.term <= storage[n].current_term
      <4>1. m.term \in Nat
        BY <1>0, <3>2, MessageKinds DEF TypeOK, VoteRequest
      <4> DEFINE x == <<n, m.term, n>>
      <4>2. x \in Votes /\ x[1] = n /\ x[2] = m.term
        BY <3>2, VoteMembership
      <4> HIDE DEF x
      <4>3. \/ storage[n].current_term > m.term
            \/ storage[n] = [current_term |-> m.term, voted_for |-> x[3]]
        BY <1>0, <4>2 DEF VoteInvariant, VoteIsDurable
      <4>4. \/ storage[n].current_term > m.term
            \/ storage[n].current_term = m.term
        BY <4>3
      <4> QED BY <2>0, <4>1, <4>4
    <3> QED BY <2>0, <3>1, <3>2 DEF Requests, DiskFollowsMemory,
                                    PendingVoteIsHeld
  <2>2. Counts(n, t)
    BY <2>0 DEF Counts, CountedVotesWereSent, OwnVote
  <2>3. Positions(n, c, t)
    <3>1. /\ log[n] = <<>> /\ log[c] = <<>> /\ last_log_index[n] = 0
          /\ commit_index[n] = 0
          /\ \A p \in Node : match_index[n][p] = 0 /\ log[p] = <<>>
      BY DEF Calm, Blank
    <3>2. log[n] \in Seq({t}) /\ Len(log[n]) = 0 /\ Len(log[c]) = 0
      BY <3>1
    <3>3. \A p \in Node : match_index[n][p] <= Len(log[p])
      BY <3>1
    <3> QED BY <1>2, <3>1, <3>2, <3>3 DEF Positions
  <2>4. Leads(n, c, t)
    BY <2>0 DEF Leads, Blank
  <2>5. \A m \in effect[n].out : Truthful(m, c, t)
    BY DEF Calm, IsElectionMessage, Truthful
  <2> QED BY <2>1, <2>2, <2>3, <2>4, <2>5 DEF NodeIsLed
<1>4. \A m \in msgs : Truthful(m, c, t)
  BY DEF Calm, IsElectionMessage, Truthful
<1> QED BY <1>0, <1>1, <1>3, <1>4 DEF Led

(* What is to be shown of a step of n in an empty cluster.                 *)
LEMMA CalmStep ==
    ASSUME Calm, NEW n \in Node, VoteInvariant', HintInvariant',
           UNCHANGED <<log, appends>>,
           msgs \subseteq msgs', msgs' \subseteq msgs \cup effect[n].out,
           \A p \in Node \ {n} : /\ role'[p] = role[p]
                                 /\ last_log_index'[p] = last_log_index[p]
                                 /\ commit_index'[p] = commit_index[p]
                                 /\ match_index'[p] = match_index[p]
                                 /\ effect'[p] = effect[p],
           role'[n] # "Leader", last_log_index'[n] = 0, commit_index'[n] = 0,
           \A p \in Node : match_index'[n][p] = 0,
           \A m \in effect'[n].out : IsElectionMessage(m) /\ Asked(m)'
    PROVE  Calm'
<1>1. ASSUME NEW m, IsElectionMessage(m) /\ Asked(m)
      PROVE  IsElectionMessage(m) /\ Asked(m)'
  BY <1>1, AskedStays
<1>2. ASSUME NEW p \in Node
      PROVE  /\ Blank(p)'
             /\ \A m \in effect'[p].out : IsElectionMessage(m) /\ Asked(m)'
  <2>1. CASE p = n
    BY <2>1 DEF Calm, Blank
  <2>2. CASE p # n
    <3>1. Blank(p)'
      BY <2>2 DEF Calm, Blank
    <3>2. \A m \in effect'[p].out : IsElectionMessage(m) /\ Asked(m)'
      BY <1>1, <2>2 DEF Calm
    <3> QED BY <3>1, <3>2
  <2> QED BY <2>1, <2>2
<1>3. \A m \in msgs' : IsElectionMessage(m) /\ Asked(m)'
  BY <1>1 DEF Calm
<1>4. appends' = {}
  BY DEF Calm
<1>5. \A m : IsElectionMessage(m)' <=> IsElectionMessage(m)
  BY DEF IsElectionMessage
<1> QED BY <1>2, <1>3, <1>4, <1>5 DEF Calm

(* Without a winner no candidate counts a majority.                        *)
LEMMA NobodyWins ==
    ASSUME TypeOK, Quiet, NEW n \in Node, NEW m \in msgs, m \in VoteResponse,
           m.type = "VoteResponse", m.to = n, Idle(n), IsNewVote(n, m)
    PROVE  ~Majority(granted_votes[n] \cup {m.from})
<1> DEFINE granted == granted_votes[n] \cup {m.from}
<1>0. /\ VoteInvariant /\ HintInvariant /\ CountedVotesWereSent(n)
      /\ OwnVote(n) /\ granted_votes[n] \in SUBSET Node /\ m.from \in Node
  BY DEF Quiet, Calm, VoteInvariant, NodeInvariant, HintInvariant, NodeHint,
         TypeOK, CoreTypeOK, VoteResponse
<1>1. /\ role[n] = "Candidate" /\ m.term = current_term[n] /\ m.vote_granted
  BY DEF IsNewVote
<1>2. <<n, current_term[n], n>> \in Votes
  BY <1>0, <1>1, IdleVote
<1>3. \A v \in granted_votes[n] : <<v, current_term[n], n>> \in Votes
  BY <1>0, <1>1, <1>2 DEF CountedVotesWereSent
<1>4. <<m.from, current_term[n], n>> \in Votes
  BY <1>1, VoteMembership
<1> SUFFICES ASSUME Majority(granted)
             PROVE  FALSE
  OBVIOUS
<1>5. PICK u : u = current_term[n]
  OBVIOUS
<1>6. granted \in SUBSET Node /\ \A v \in granted : <<v, u, n>> \in Votes
  BY <1>0, <1>3, <1>4, <1>5
<1> HIDE DEF granted
<1>7. Elected(n, u)
  BY <1>6, CountedIsElected
<1> DEFINE x == <<n, u, n>>
<1>8. x \in Votes /\ x[3] = n /\ x[2] = u
  BY <1>2, <1>5
<1> HIDE DEF x
<1> QED BY <1>7, <1>8 DEF Quiet

(* Until somebody is elected nobody leads, writes or replicates.           *)
LEMMA CalmNext ==
    ASSUME ReplicationTypeOK, ReplicationTypeOK', Quiet,
           [ReplicationNext]_replicationVars
    PROVE  Calm'
<1>0. /\ TypeOK /\ CoreTypeOK /\ Calm /\ VoteInvariant /\ HintInvariant
      /\ appends = {}
      /\ \A n \in Node : Blank(n)
  BY DEF ReplicationTypeOK, TypeOK, Quiet, Calm
<1>1. CASE UNCHANGED replicationVars
  <2>1. UNCHANGED vars
    BY <1>1 DEF replicationVars
  <2>2. VoteInvariant' /\ HintInvariant'
    BY <1>0, <2>1, NextVotes, NextHint
  <2>3. UNCHANGED <<role, last_log_index, commit_index, match_index, effect,
                    log, msgs, appends>>
    BY <1>1 DEF replicationVars, vars, coreVars, electionVars, positionVars,
                commitVars, progressVars
  <2>4. ASSUME NEW m, Asked(m)
        PROVE  Asked(m)'
    BY <2>3, <2>4, AskedStays
  <2>5. \A n \in Node : Blank(n)'
    BY <1>0, <2>3 DEF Blank
  <2>6. \A m \in msgs' : IsElectionMessage(m) /\ Asked(m)'
    BY <1>0, <2>3, <2>4 DEF Calm
  <2>7. \A n \in Node : \A m \in effect'[n].out :
            IsElectionMessage(m) /\ Asked(m)'
    BY <1>0, <2>3, <2>4 DEF Calm
  <2> QED BY <1>0, <2>2, <2>3, <2>5, <2>6, <2>7 DEF Calm, IsElectionMessage
<1>2. ASSUME NEW n \in Node, Replicate(n)
      PROVE  FALSE
  BY <1>0, <1>2 DEF Replicate, WriteAndReplicate, Write,
                    handle_local_entry_appended, Blank
<1>3. ASSUME NEW n \in Node, Elect(n)
      PROVE  Calm'
  <2>0. /\ UNCHANGED appends /\ Acts(n) /\ VoteInvariant' /\ HintInvariant'
        /\ Blank(n) /\ log \in [Node -> Seq(Nat)]
        /\ match_index \in [Node -> [Node -> Nat]]
    BY <1>0, <1>3, ElectIsNext, NextVotes, NextHint
       DEF Elect, TypeOK, CoreTypeOK
  <2>1. msgs \subseteq msgs' /\ \A p \in Node \ {n} : Keeps(p)
    BY <1>0, <2>0, OthersKeep
  <2>2. ASSUME UNCHANGED <<log, last_log_index, commit_index, match_index>>,
               msgs' \subseteq msgs \cup effect[n].out, role'[n] # "Leader",
               \A m \in effect'[n].out : IsElectionMessage(m) /\ Asked(m)'
        PROVE  Calm'
    BY <1>0, <2>0, <2>1, <2>2, CalmStep DEF Keeps, Blank
  <2>3. ASSUME NEW m, Asked(m)
        PROVE  Asked(m)'
    BY <2>1, <2>3, AskedStays
  <2>4. CASE Timeout(n)
    <3>1. /\ handle_election_timeout(n)
          /\ UNCHANGED <<log, msgs>>
      BY <2>0, <2>4 DEF Timeout, handle_heartbeat_timeout, Blank
    <3>2. role'[n] = "Candidate"
      BY <1>0, <3>1 DEF handle_election_timeout, CoreTypeOK
    <3>3. \A m \in effect'[n].out : m.type = "RequestVote"
      BY <1>0, <3>1 DEF handle_election_timeout, Emit, CoreTypeOK
    <3>4. \A m \in effect'[n].out : IsElectionMessage(m) /\ Asked(m)'
      BY <3>3 DEF IsElectionMessage, Asked
    <3> QED BY <2>2, <3>1, <3>2, <3>4
            DEF handle_election_timeout, positionVars, commitVars,
                progressVars
  <2>5. ASSUME NEW m \in msgs, Receive(n, m)
        PROVE  Calm'
    <3>1. m \in Message /\ IsElectionMessage(m) /\ UNCHANGED <<log, msgs>>
      BY <1>0, <2>5 DEF TypeOK, Calm, Receive
    <3>2. CASE m.type = "RequestVote" /\ handle_request_vote(n, m)
      <4>1. role'[n] # "Leader"
        BY <1>0, <2>0, <3>2 DEF handle_request_vote, CoreTypeOK, Blank
      <4>2. \A x \in effect'[n].out : /\ x.type = "VoteResponse"
                                      /\ x.to = m.candidate_id
                                      /\ x.vote_granted => x.term = m.term
        BY <1>0, <3>2 DEF handle_request_vote, Emit, CoreTypeOK
      <4>3. \A x \in effect'[n].out : IsElectionMessage(x) /\ Asked(x)'
        BY <3>1, <3>2, <4>2 DEF IsElectionMessage, Asked
      <4> QED BY <2>2, <3>1, <3>2, <4>1, <4>3
              DEF handle_request_vote, positionVars, commitVars, progressVars
    <3>3. CASE /\ m.type = "VoteResponse" /\ m.to = n
               /\ handle_vote_response(n, m)
      <4>1. m \in VoteResponse
        BY <3>1, <3>3, MessageKinds
      <4>2. IsNewVote(n, m) => ~Majority(granted_votes[n] \cup {m.from})
        BY <1>0, <3>3, <4>1, NobodyWins DEF handle_vote_response
      <4>3. role'[n] # "Leader" /\ UNCHANGED effect
        BY <1>0, <2>0, <3>3, <4>2 DEF handle_vote_response, StepDown, Blank,
                                      CoreTypeOK
      <4>4. \A x \in effect'[n].out : IsElectionMessage(x) /\ Asked(x)'
        BY <1>0, <2>3, <4>3 DEF Calm
      <4> QED BY <2>2, <3>1, <3>3, <4>3, <4>4
              DEF handle_vote_response, positionVars, commitVars, progressVars
    <3> QED BY <2>5, <3>1, <3>2, <3>3 DEF Receive, IsElectionMessage
  <2>6. CASE persist_hard_state(n)
    <3>1. effect'[n].out = effect[n].out /\ role'[n] # "Leader"
      BY <1>0, <2>0, <2>6 DEF persist_hard_state, CoreTypeOK, Effect,
                              electionVars, Blank
    <3>2. \A x \in effect'[n].out : IsElectionMessage(x) /\ Asked(x)'
      BY <1>0, <2>3, <3>1 DEF Calm
    <3> QED BY <2>2, <2>6, <3>1, <3>2
            DEF persist_hard_state, positionVars, commitVars, progressVars
  <2>7. CASE Send(n)
    <3>1. effect'[n].out = {} /\ role'[n] # "Leader"
      BY <1>0, <2>0, <2>7 DEF Send, CoreTypeOK, NoEffect, electionVars, Blank
    <3> QED BY <2>2, <2>7, <3>1
            DEF Send, positionVars, commitVars, progressVars
  <2>8. CASE \E s : Boot(n, s)
    <3>1. /\ role'[n] = "Follower" /\ last_log_index'[n] = 0
          /\ commit_index'[n] = 0 /\ effect'[n].out = {}
          /\ UNCHANGED <<log, msgs>>
      BY <1>0, <2>8 DEF Boot, CoreTypeOK, NoEffect
    <3>2. \A p \in Node : match_index'[n][p] = 0
      <4>1. \A p \in Node : match_index'[n][p] = IF p = n THEN Len(log[n])
                                                          ELSE 0
        BY <2>0, <2>8 DEF Boot
      <4>2. Len(log[n]) = 0
        BY <2>0 DEF Blank
      <4> QED BY <4>1, <4>2
    <3>3. \A p \in Node \ {n} : /\ commit_index'[p] = commit_index[p]
                                /\ match_index'[p] = match_index[p]
      BY <1>0, <2>8 DEF Boot, CoreTypeOK
    <3>4. /\ role'[n] # "Leader"
          /\ \A m \in effect'[n].out : IsElectionMessage(m) /\ Asked(m)'
      BY <3>1
    <3> QED BY <1>0, <2>0, <2>1, <3>1, <3>2, <3>3, <3>4, CalmStep DEF Keeps
  <2> QED BY <1>3, <2>4, <2>5, <2>6, <2>7, <2>8
          DEF Elect, Crash, CrashDuringSave
<1> QED BY <1>1, <1>2, <1>3 DEF ReplicationNext

(* In the initial state nobody has voted, written or been elected.         *)
LEMMA LeadershipInit == ReplicationInit => LeadershipInvariant
<1> SUFFICES ASSUME ReplicationInit
             PROVE  Quiet
  BY DEF LeadershipInvariant
<1>1. Init /\ appends = {} /\ VoteInvariant /\ HintInvariant
  BY InitVotes, InitHint DEF ReplicationInit
<1>2. \A n \in Node : Blank(n) /\ effect[n].out = {}
  BY <1>1 DEF Init, Blank, NoEffect
<1>3. msgs = {} /\ Votes = {}
  BY <1>1 DEF Init, Votes
<1> QED BY <1>1, <1>2, <1>3 DEF Quiet, Calm

(* The same in the state that a step leads to.                             *)
LEMMA CalmElectedNext ==
    ASSUME NEW c \in Node, NEW t \in Nat
    PROVE  (ReplicationTypeOK /\ Calm /\ Elected(c, t) => Led(c, t))'
<1>1. ReplicationTypeOK /\ Calm /\ Elected(c, t) => Led(c, t)
  BY CalmElected
<1> QED BY <1>1, PTL

(* Votes are well typed in that state as well.                             *)
LEMMA VoteTypeNext ==
    (TypeOK => \A v \in Votes : v[2] \in Nat /\ v[3] \in Node)'
<1>1. TypeOK => \A v \in Votes : v[2] \in Nat /\ v[3] \in Node
  BY VoteType
<1> QED BY <1>1, PTL

(* No step takes a message of the election back.                           *)
LEMMA MessagesStay ==
    ASSUME TypeOK, [ReplicationNext]_replicationVars
    PROVE  msgs \subseteq msgs'
<1>1. ASSUME NEW n \in Node, Elect(n) \/ Write(n)
      PROVE  msgs \subseteq msgs'
  BY <1>1, ElectIsNext, OthersKeep
<1>2. ASSUME NEW n \in Node, NEW m \in appends, ReceiveAppend(n, m)
      PROVE  msgs \subseteq msgs'
  BY <1>2 DEF ReceiveAppend, handle_append_entries,
              handle_append_entries_response
<1>3. CASE UNCHANGED replicationVars
  BY <1>3 DEF replicationVars, vars
<1> QED BY <1>1, <1>2, <1>3
        DEF ReplicationNext, Replicate, WriteAndReplicate

(* Every step preserves the invariant.                                     *)
LEMMA LeadershipNext ==
    ReplicationTypeOK /\ LeadershipInvariant /\ [ReplicationNext]_replicationVars
        => LeadershipInvariant'
<1> SUFFICES ASSUME ReplicationTypeOK, LeadershipInvariant,
                    [ReplicationNext]_replicationVars, FirstLeadership'
             PROVE  Quiet' \/ \E v \in Votes' : Led(v[3], v[2])'
  BY DEF LeadershipInvariant
<1>0. ReplicationTypeOK' /\ TypeOK /\ TypeOK'
  BY ReplicationNextType DEF ReplicationTypeOK
<1>1. msgs \subseteq msgs'
  BY <1>0, MessagesStay
<1>2. FirstLeadership
  BY <1>1, ElectedStays DEF FirstLeadership
<1>3. CASE Quiet
  <2>1. Calm'
    BY <1>0, <1>3, CalmNext
  <2>2. ASSUME NEW v \in Votes', Elected(v[3], v[2])'
        PROVE  Led(v[3], v[2])'
    <3>1. PICK c \in Node, t \in Nat : c = v[3] /\ t = v[2]
      BY <1>0, <2>2, VoteTypeNext
    <3>2. Elected(c, t)'
      BY <2>2, <3>1
    <3>3. Led(c, t)'
      BY <1>0, <2>1, <3>2, CalmElectedNext
    <3> QED BY <3>1, <3>3
  <2> QED BY <2>1, <2>2 DEF Quiet
<1>4. ASSUME NEW v \in Votes, Led(v[3], v[2])
      PROVE  \E w \in Votes' : Led(w[3], w[2])'
  <2>1. PICK c \in Node, t \in Nat : c = v[3] /\ t = v[2]
    BY <1>0, VoteType
  <2>2. Led(c, t)'
    BY <1>0, <1>2, <1>4, <2>1, LedNext
  <2>3. v \in Votes'
    BY <1>1, ElectedStays
  <2>4. Led(v[3], v[2])'
    BY <2>1, <2>2
  <2> QED BY <2>3, <2>4
<1> QED BY <1>2, <1>3, <1>4 DEF LeadershipInvariant

(* The invariant holds throughout.                                         *)
LEMMA LeadershipCorrect ==
    ReplicationSpec => [](ReplicationTypeOK /\ LeadershipInvariant)
<1>1. ReplicationInit => ReplicationTypeOK
  BY InitType DEF ReplicationInit, ReplicationTypeOK
<1> QED BY <1>1, ReplicationNextType, LeadershipInit, LeadershipNext, PTL
        DEF ReplicationSpec

-----------------------------------------------------------------------------
(* Safety of replication under the first leader.                           *)

(* Within one leadership logs differ only in their length.                 *)
LEMMA SamePrefix ==
    ASSUME NEW t, NEW a \in Seq({t}), NEW b \in Seq({t}), NEW i \in Nat,
           i <= Len(a), i <= Len(b)
    PROVE  SubSeq(a, 1, i) = SubSeq(b, 1, i)
<1>1. /\ SubSeq(a, 1, i) \in Seq({t}) /\ Len(SubSeq(a, 1, i)) = i
      /\ SubSeq(b, 1, i) \in Seq({t}) /\ Len(SubSeq(b, 1, i)) = i
  BY SubSeqProperties
<1> DEFINE x == SubSeq(a, 1, i)
           y == SubSeq(b, 1, i)
<1>2. x \in Seq({t}) /\ y \in Seq({t}) /\ Len(x) = i /\ Len(y) = i
  BY <1>1
<1> HIDE DEF x, y
<1>3. \A j \in 1..i : x[j] = t /\ y[j] = t
  BY <1>2, ElementOfSeq
<1>4. x = y
  BY <1>2, <1>3, SeqEqual
<1> QED BY <1>4 DEF x, y

(* Under the leader, what one log has up to a length another has, too.     *)
LEMMA LedLogs ==
    ASSUME ReplicationTypeOK, NEW c \in Node, NEW t \in Nat, Led(c, t),
           NEW n \in Node, NEW p \in Node, NEW i \in Nat,
           i <= Len(log[n]), i <= Len(log[p])
    PROVE  SameUpTo(n, p, i)
<1>1. log[n] \in Seq({t}) /\ log[p] \in Seq({t})
  BY DEF Led, NodeIsLed, Positions
<1> QED BY <1>1, SamePrefix DEF SameUpTo

(* The invariant implies the properties.                                   *)
LEMMA LedIsSafe ==
    ASSUME ReplicationTypeOK, NEW c \in Node, NEW t \in Nat, Led(c, t)
    PROVE  /\ CommittedIsOnMajority /\ MatchIndexIsTrue
           /\ FollowersAreNotAhead /\ ElectionSafety
<1>1. \A n \in Node : /\ Positions(n, c, t) /\ Leads(n, c, t)
                      /\ Len(log[n]) \in Nat /\ last_log_index[n] \in Nat
                      /\ commit_index[n] \in Nat
  BY LedFacts
<1>2. CommittedIsOnMajority
  <2> SUFFICES ASSUME NEW n \in Node
               PROVE  Majority({p \in Node : SameUpTo(n, p, commit_index[n])})
    BY DEF CommittedIsOnMajority
  <2>1. PICK i \in Nat : i = commit_index[n]
    BY <1>1
  <2>2. Committed(i) /\ i <= Len(log[n])
    BY <1>1, <2>1 DEF Positions
  <2>3. {p \in Node : i <= Len(log[p])} \subseteq
            {p \in Node : SameUpTo(n, p, i)}
    BY <2>2, LedLogs
  <2>4. Majority({p \in Node : SameUpTo(n, p, i)})
    BY <2>2, <2>3, MajorityGrows DEF Committed
  <2> QED BY <2>1, <2>4
<1>3. MatchIndexIsTrue
  <2> SUFFICES ASSUME NEW n \in Node, NEW p \in Node, role[n] = "Leader"
               PROVE  SameUpTo(n, p, match_index[n][p])
    BY DEF MatchIndexIsTrue
  <2>1. n = c
    BY <1>1 DEF Leads
  <2>2. PICK i \in Nat : i = match_index[n][p]
    BY DEF ReplicationTypeOK, TypeOK, CoreTypeOK
  <2>3. i <= Len(log[p]) /\ Len(log[p]) <= Len(log[n])
    BY <1>1, <2>1, <2>2 DEF Positions
  <2>4. i <= Len(log[n])
    BY <1>1, <2>3
  <2> QED BY <2>2, <2>3, <2>4, LedLogs
<1>4. FollowersAreNotAhead
  <2> SUFFICES ASSUME NEW m \in appends, m.type = "AppendEntriesResponse",
                      role[m.to] = "Leader"
               PROVE  m.last_log_index <= last_log_index[m.to]
    BY DEF FollowersAreNotAhead
  <2>1. m.to = c /\ m.last_log_index <= Len(log[m.from])
    BY DEF Led, TruthfulAppend
  <2>2. m.from \in Node /\ m.last_log_index \in Nat
    BY AppendKinds DEF ReplicationTypeOK, AppendEntriesResponse
  <2>3. Len(log[m.from]) <= Len(log[c]) /\ last_log_index[c] = Len(log[c])
    BY <1>1, <2>1, <2>2 DEF Positions, Leads
  <2> QED BY <1>1, <2>1, <2>2, <2>3
<1>5. ElectionSafety
  BY <1>1 DEF ElectionSafety, Leads
<1> QED BY <1>2, <1>3, <1>4, <1>5

(* And so does the calm before.                                            *)
LEMMA CalmIsSafe ==
    Calm => /\ CommittedIsOnMajority /\ MatchIndexIsTrue
            /\ FollowersAreNotAhead /\ ElectionSafety
<1> SUFFICES ASSUME Calm
             PROVE  /\ CommittedIsOnMajority /\ MatchIndexIsTrue
                    /\ FollowersAreNotAhead /\ ElectionSafety
  OBVIOUS
<1>1. /\ appends = {}
      /\ \A n \in Node : /\ role[n] # "Leader" /\ log[n] = <<>>
                         /\ commit_index[n] = 0
  BY DEF Calm, Blank
<1>2. CommittedIsOnMajority
  <2> SUFFICES ASSUME NEW n \in Node
               PROVE  Majority({p \in Node : SameUpTo(n, p, commit_index[n])})
    BY DEF CommittedIsOnMajority
  <2>1. {p \in Node : SameUpTo(n, p, commit_index[n])} = Node
    BY <1>1 DEF SameUpTo
  <2> QED BY <2>1, AllAreMajority
<1> QED BY <1>1, <1>2
        DEF MatchIndexIsTrue, FollowersAreNotAhead, ElectionSafety

(* The invariant implies the properties of the Replication run.            *)
LEMMA ReplicationIsSafe ==
    ReplicationTypeOK /\ LeadershipInvariant /\ FirstLeadership
        => /\ CommittedIsOnMajority /\ MatchIndexIsTrue
           /\ FollowersAreNotAhead /\ ElectionSafety
<1> SUFFICES ASSUME ReplicationTypeOK, LeadershipInvariant, FirstLeadership
             PROVE  /\ CommittedIsOnMajority /\ MatchIndexIsTrue
                    /\ FollowersAreNotAhead /\ ElectionSafety
  OBVIOUS
<1>1. CASE Quiet
  BY <1>1, CalmIsSafe DEF Quiet
<1>2. ASSUME NEW v \in Votes, Led(v[3], v[2])
      PROVE  /\ CommittedIsOnMajority /\ MatchIndexIsTrue
             /\ FollowersAreNotAhead /\ ElectionSafety
  <2>1. v[3] \in Node /\ v[2] \in Nat
    BY VoteType DEF ReplicationTypeOK
  <2> QED BY <1>2, <2>1, LedIsSafe
<1> QED BY <1>1, <1>2 DEF LeadershipInvariant

(* What a node takes for committed is in the logs of a majority, however   *)
(* requests, answers and crashes fall (handle_append_entries_response,     *)
(* handle_entries_persisted, handle_heartbeat), as long as no second term  *)
(* has had a winner.                                                       *)
THEOREM CommitsAreOnMajority ==
    ReplicationSpec => [](FirstLeadership => CommittedIsOnMajority)
BY LeadershipCorrect, ReplicationIsSafe, PTL

(* The progress table of a leader never claims more than its peers have    *)
(* (handle_append_entries_response, handle_heartbeat_response), as long as *)
(* no second term has had a winner.                                        *)
THEOREM ProgressIsTrue ==
    ReplicationSpec => [](FirstLeadership => MatchIndexIsTrue)
BY LeadershipCorrect, ReplicationIsSafe, PTL

(* The assert! of handle_append_entries_response do not fire, as long as   *)
(* no second term has had a winner; after one they do (AssertionFails).    *)
THEOREM ReportsAreNotAhead ==
    ReplicationSpec => []FirstLeaderAssertsHold
<1>1. (FirstLeadership => FollowersAreNotAhead) => FirstLeaderAssertsHold
  BY DEF FirstLeaderAssertsHold
<1> QED BY <1>1, LeadershipCorrect, ReplicationIsSafe, PTL

(* Two nodes never lead the same term, also when requests carry nodes into *)
(* terms in which they were not asked to vote (handle_append_entries), as  *)
(* long as no second term has had a winner: the two leaders of the run     *)
(* StaleTermLeader need one.                                               *)
THEOREM ReplicationElectsOne ==
    ReplicationSpec => [](FirstLeadership => ElectionSafety)
BY LeadershipCorrect, ReplicationIsSafe, PTL

-----------------------------------------------------------------------------
(* Replication keeps the promise of CommittedLog.                          *)

(* What a node takes for committed.                                        *)
Known == [n \in Node |-> SubSeq(log[n], 1, commit_index[n])]

(* The commit index of a node grows, unless the node restarts.             *)
CommitGrows(n) ==
    /\ \A p \in Node \ {n} : /\ commit_index'[p] = commit_index[p]
                             /\ log'[p] = log[p]
    /\ commit_index'[n] = 0 \/ commit_index'[n] >= commit_index[n]

(* That needs no hypothesis: every handler checks before it assigns.       *)
LEMMA CommitIsMonotonic ==
    ASSUME ReplicationTypeOK, NEW n \in Node, Replicate(n) \/ Elect(n)
    PROVE  CommitGrows(n)
<1>0. /\ TypeOK /\ commit_index \in [Node -> Nat] /\ log \in [Node -> Seq(Nat)]
      /\ last_log_index[n] \in Nat /\ commit_index[n] \in Nat
  BY DEF ReplicationTypeOK, TypeOK, CoreTypeOK
<1>1. ASSUME UNCHANGED commit_index,
             \A p \in Node \ {n} : log'[p] = log[p]
      PROVE  CommitGrows(n)
  BY <1>0, <1>1 DEF CommitGrows
<1>2. CASE WriteAndReplicate(n)
  BY <1>0, <1>1, <1>2 DEF WriteAndReplicate, Write,
                          handle_local_entry_appended, commitVars
<1>3. ASSUME NEW m \in appends, m.type = "AppendEntries",
             handle_append_entries(n, m)
      PROVE  CommitGrows(n)
  <2>1. \A p \in Node \ {n} : log'[p] = log[p]
    BY <1>0, <1>3 DEF handle_append_entries
  <2>2. PICK l : \/ UNCHANGED commit_index
                 \/ handle_entries_persisted(n, PersistedEntries(l,
                                                    m.commit_index))
    BY <1>3 DEF handle_append_entries, commitVars
  <2>3. CASE UNCHANGED commit_index
    BY <1>1, <2>1, <2>3
  <2>4. ASSUME NEW k, k > commit_index[n],
               commit_index' = [commit_index EXCEPT ![n] = k]
        PROVE  CommitGrows(n)
    <3>1. commit_index'[n] = k
      BY <1>0, <2>4
    <3>2. \A p \in Node \ {n} : commit_index'[p] = commit_index[p]
      BY <1>0, <2>4
    <3>3. commit_index'[n] \in Nat
      BY <1>3, AppendEntriesType DEF ReplicationTypeOK, TypeOK, CoreTypeOK
    <3> QED BY <1>0, <2>1, <2>4, <3>1, <3>2, <3>3 DEF CommitGrows
  <2> QED BY <2>2, <2>3, <2>4 DEF handle_entries_persisted, CommitThrough,
                                  commitVars
<1>4. ASSUME NEW m \in appends, handle_append_entries_response(n, m)
      PROVE  CommitGrows(n)
  <2>1. UNCHANGED log
    BY <1>4 DEF handle_append_entries_response
  <2>2. \/ UNCHANGED commit_index
        \/ /\ commit_index[n] < last_log_index[n]
           /\ commit_index' = [commit_index EXCEPT ![n] = last_log_index[n]]
    BY <1>4 DEF handle_append_entries_response, CommitThrough, commitVars
  <2> QED BY <1>0, <1>1, <2>1, <2>2 DEF CommitGrows
<1>5. CASE Timeout(n)
  BY <1>1, <1>5 DEF Timeout, handle_election_timeout,
                    handle_heartbeat_timeout, commitVars
<1>6. ASSUME NEW m \in msgs, Receive(n, m)
      PROVE  CommitGrows(n)
  <2>1. UNCHANGED log
    BY <1>6 DEF Receive
  <2>2. CASE UNCHANGED commit_index
    BY <1>1, <2>1, <2>2
  <2>3. CASE m.type = "Heartbeat" /\ handle_heartbeat(n, m)
    <3>1. m.leader_commit_index \in Nat
      BY <1>0, <2>3, MessageKinds DEF TypeOK, HeartbeatRequest
    <3>2. \/ UNCHANGED commit_index
          \/ \E k : /\ commit_index' = [commit_index EXCEPT ![n] = k]
                    /\ k \in Nat /\ k >= commit_index[n]
      <4> DEFINE commit == Least(m.leader_commit_index, last_log_index[n])
                 k == IF /\ m.log_index = last_log_index[n]
                         /\ m.log_term = last_log_term[n]
                      THEN Greatest(commit_index[n], commit)
                      ELSE commit_index[n]
      <4>1. \/ UNCHANGED commit_index
            \/ commit_index' = [commit_index EXCEPT ![n] = k]
        BY <2>3 DEF handle_heartbeat, commitVars
      <4>2. k \in Nat /\ k >= commit_index[n]
        BY <1>0, <3>1 DEF Greatest, Least
      <4> QED BY <4>1, <4>2
    <3> QED BY <1>0, <1>1, <2>1, <3>2 DEF CommitGrows
  <2> QED BY <1>6, <2>2, <2>3
          DEF Receive, handle_request_vote, handle_vote_response,
              handle_heartbeat_response, commitVars
<1>7. CASE persist_hard_state(n) \/ Send(n)
  BY <1>1, <1>7 DEF persist_hard_state, Send, commitVars
<1>8. ASSUME NEW s, Boot(n, s)
      PROVE  CommitGrows(n)
  BY <1>0, <1>8 DEF Boot, CommitGrows
<1>9. CASE \E m \in appends : ReceiveAppend(n, m)
  BY <1>3, <1>4, <1>9 DEF ReceiveAppend
<1> QED BY <1>2, <1>5, <1>6, <1>7, <1>8, <1>9
        DEF Replicate, Elect, Crash, CrashDuringSave

(* Before the election nothing is known to be committed.                   *)
LEMMA CalmKnows == Calm => Known = [n \in Node |-> <<>>]
<1> SUFFICES ASSUME Calm
             PROVE  Known = [n \in Node |-> <<>>]
  OBVIOUS
<1>1. \A n \in Node : log[n] = <<>> /\ commit_index[n] = 0
  BY DEF Calm, Blank
<1>2. \A n \in Node : SubSeq(log[n], 1, commit_index[n]) = <<>>
  BY <1>1
<1> QED BY <1>2 DEF Known

(* Under the leader a node knows as many entries of the term as its commit *)
(* index says.                                                             *)
KnowsTerm(t) ==
    \A n \in Node : /\ Known[n] \in Seq({t})
                    /\ commit_index[n] \in Nat
                    /\ Len(Known[n]) = commit_index[n]

(* The leader's entries are what everybody knows.                          *)
LEMMA LedKnows ==
    ASSUME NEW c \in Node, NEW t \in Nat
    PROVE  ReplicationTypeOK /\ Led(c, t) => KnowsTerm(t)
<1> SUFFICES ASSUME ReplicationTypeOK, Led(c, t), NEW n \in Node
             PROVE  /\ Known[n] \in Seq({t})
                    /\ commit_index[n] \in Nat
                    /\ Len(Known[n]) = commit_index[n]
  BY DEF KnowsTerm
<1>1. PICK a \in Seq({t}), i \in Nat :
          a = log[n] /\ i = commit_index[n] /\ i <= Len(a)
  BY LedFacts DEF Positions
<1>2. Known[n] = SubSeq(a, 1, i)
  BY <1>1 DEF Known
<1>3. SubSeq(a, 1, i) \in Seq({t}) /\ Len(SubSeq(a, 1, i)) = i
  BY <1>1, SubSeqProperties
<1> QED BY <1>1, <1>2, <1>3

(* Two sequences of the same term: the shorter is a prefix of the longer.  *)
LEMMA ShorterIsPrefix ==
    ASSUME NEW t, NEW a \in Seq({t}), NEW b \in Seq({t}), Len(a) <= Len(b)
    PROVE  Promise!IsPrefix(a, b)
BY SamePrefix, LenProperties DEF Promise!IsPrefix

(* The same in the state that a step leads to.                             *)
LEMMA LedKnowsNext ==
    ASSUME NEW c \in Node, NEW t \in Nat
    PROVE  (ReplicationTypeOK /\ Led(c, t) => KnowsTerm(t))'
<1>1. ReplicationTypeOK /\ Led(c, t) => KnowsTerm(t)
  BY LedKnows
<1> QED BY <1>1, PTL

(* And before the election.                                                *)
LEMMA CalmKnowsNext == (Calm => Known = [n \in Node |-> <<>>])'
<1>1. Calm => Known = [n \in Node |-> <<>>]
  BY CalmKnows
<1> QED BY <1>1, PTL

(* A step under the leader teaches one node more of the entries, or makes  *)
(* it forget them.                                                         *)
LEMMA LedPromise ==
    ASSUME NEW t, KnowsTerm(t), KnowsTerm(t)', NEW n \in Node, CommitGrows(n)
    PROVE  \/ Known' = Known
           \/ Promise!Learn(n)
           \/ Promise!Forget(n)
<1>1. \A p \in Node \ {n} : Known'[p] = Known[p]
  BY DEF Known, CommitGrows
<1>2. Known' = [Known EXCEPT ![n] = Known'[n]]
  BY <1>1 DEF Known
<1>3. PICK a \in Seq({t}), b \in Seq({t}) :
          /\ a = Known[n] /\ b = Known'[n]
          /\ Len(a) = commit_index[n] /\ Len(b) = commit_index'[n]
  BY DEF KnowsTerm
<1>4. commit_index[n] \in Nat /\ commit_index'[n] \in Nat
  BY DEF KnowsTerm
<1>5. CASE commit_index'[n] = 0
  <2>1. b = <<>>
    BY <1>3, <1>5, EmptySeq
  <2> QED BY <1>2, <1>3, <2>1 DEF Promise!Forget, Known
<1>6. CASE commit_index'[n] >= commit_index[n]
  <2>1. Promise!IsPrefix(a, b)
    BY <1>3, <1>4, <1>6, ShorterIsPrefix
  <2>2. CASE a = b
    BY <1>2, <1>3, <2>2 DEF Known
  <2>3. CASE a # b
    <3>1. Promise!IsStrictPrefix(Known[n], Known'[n])
      BY <1>3, <2>1, <2>3 DEF Promise!IsStrictPrefix
    <3>2. ASSUME NEW p \in Node, NEW q \in Node
          PROVE  \/ Promise!IsPrefix(Known'[p], Known'[q])
                 \/ Promise!IsPrefix(Known'[q], Known'[p])
      <4>1. PICK x \in Seq({t}), y \in Seq({t}) :
                x = Known'[p] /\ y = Known'[q]
        BY DEF KnowsTerm
      <4>2. Len(x) \in Nat /\ Len(y) \in Nat
        OBVIOUS
      <4>3. Len(x) <= Len(y) \/ Len(y) <= Len(x)
        BY <4>2
      <4> QED BY <4>1, <4>3, ShorterIsPrefix
    <3>3. Promise!Agree(Known')
      BY <3>2 DEF Promise!Agree
    <3> QED BY <1>2, <3>1, <3>3 DEF Promise!Learn, Known
  <2> QED BY <2>2, <2>3
<1> QED BY <1>5, <1>6 DEF CommitGrows

(* Every step keeps the promise.                                           *)
LEMMA ReplicationPromise ==
    ReplicationTypeOK /\ LeadershipInvariant /\ FirstLeadership
    /\ [ReplicationNext]_replicationVars
        => [Promise!Next]_Known
<1> SUFFICES ASSUME ReplicationTypeOK, LeadershipInvariant, FirstLeadership,
                    [ReplicationNext]_replicationVars
             PROVE  Known' = Known \/ \E n \in Node : Promise!Learn(n)
                                                      \/ Promise!Forget(n)
  BY DEF Promise!Next, Known
<1>0. ReplicationTypeOK' /\ TypeOK
  BY ReplicationNextType DEF ReplicationTypeOK
<1>1. CASE Quiet
  <2>1. Calm /\ Calm'
    BY <1>0, <1>1, CalmNext DEF Quiet
  <2> QED BY <2>1, CalmKnows, CalmKnowsNext
<1>2. ASSUME NEW v \in Votes, Led(v[3], v[2])
      PROVE  Known' = Known \/ \E n \in Node : Promise!Learn(n)
                                               \/ Promise!Forget(n)
  <2>1. PICK c \in Node, t \in Nat : c = v[3] /\ t = v[2]
    BY <1>0, VoteType
  <2>2. Led(c, t) /\ Led(c, t)'
    BY <1>0, <1>2, <2>1, LedNext
  <2>3. KnowsTerm(t) /\ KnowsTerm(t)'
    BY <1>0, <2>2, LedKnows, LedKnowsNext
  <2>4. CASE UNCHANGED replicationVars
    BY <2>4 DEF replicationVars, vars, coreVars, commitVars, Known
  <2>5. ASSUME NEW n \in Node, Replicate(n) \/ Elect(n)
        PROVE  Known' = Known \/ Promise!Learn(n) \/ Promise!Forget(n)
    BY <2>3, <2>5, CommitIsMonotonic, LedPromise
  <2> QED BY <2>4, <2>5 DEF ReplicationNext
<1> QED BY <1>1, <1>2 DEF LeadershipInvariant

(* Replication implements the log it promises to its clients: every node   *)
(* knows a prefix of one sequence, and forgets it only in a restart        *)
(* (handle_append_entries, handle_entries_persisted, handle_heartbeat), in *)
(* every behaviour in which no second term has a winner.                   *)
THEOREM ReplicationKeepsPromise ==
    ReplicationSpec /\ []FirstLeadership => ImplementsCommittedLog
<1>1. ReplicationInit => Promise!Init
  <2>1. ReplicationInit =>
            \A n \in Node : log[n] = <<>> /\ commit_index[n] = 0
    BY DEF ReplicationInit, Init
  <2>2. ReplicationInit =>
            \A n \in Node : SubSeq(log[n], 1, commit_index[n]) = <<>>
    BY <2>1
  <2> QED BY <2>2 DEF Promise!Init
<1>2. ReplicationTypeOK /\ LeadershipInvariant /\ FirstLeadership
      /\ [ReplicationNext]_replicationVars
          => [Promise!Next]_[n \in Node |-> SubSeq(log[n], 1, commit_index[n])]
  BY ReplicationPromise DEF Known
<1> QED BY <1>1, <1>2, LeadershipCorrect, PTL
        DEF ReplicationSpec, ImplementsCommittedLog, Promise!Spec
=============================================================================
