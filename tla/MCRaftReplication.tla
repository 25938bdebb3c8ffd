------------------------- MODULE MCRaftReplication -------------------------
(* Model checking of RaftReplication from the states in which a leader has *)
(* just been elected.                                                      *)
EXTENDS RaftReplication, TLC

CONSTANTS
    Chief,      \* the leader
    Ally,       \* the voter that elected it
    Rival,      \* the third node
    MaxBeats,   \* heartbeats that differ
    MaxAnswers  \* heartbeat answers that reach the network

(* What the election of c in term t, with the vote of v, leaves behind.    *)
ElectionOf(c, t, v) ==
    {[type |-> "RequestVote", term |-> t, candidate_id |-> c,
      last_log_index |-> 0, last_log_term |-> 0],
     [type |-> "VoteResponse", from |-> v, to |-> c, term |-> t,
      vote_granted |-> TRUE],
     [type |-> "Heartbeat", term |-> t, leader_id |-> c,
      log_index |-> 0, log_term |-> 0, leader_commit_index |-> 0]}

ElectionMsgs(t) ==
    ElectionOf(Chief, t, Ally)
    \cup IF t = 1 THEN {} ELSE ElectionOf(Rival, 1, Chief)

(* Chief has won term t with the vote of Ally.  Rival has heard nothing    *)
(* (t = 1), or it is the leader of term 1, elected with the vote of Chief, *)
(* and has written an entry that nobody has seen (t = 2).                  *)
ElectedInit(t) ==
    LET rival   == [n \in Node |-> n = Rival /\ t = 2]
        state   == [n \in Node |->
                        CASE n # Rival -> [current_term |-> t,
                                           voted_for |-> Chief]
                          [] rival[n]  -> [current_term |-> 1,
                                           voted_for |-> Rival]
                          [] OTHER     -> [current_term |-> 0,
                                           voted_for |-> Nil]]
        written == [n \in Node |-> IF rival[n] THEN 1 ELSE 0]
    IN  /\ role = [n \in Node |-> IF n = Chief \/ rival[n] THEN "Leader"
                                                          ELSE "Follower"]
        /\ storage = state
        /\ current_term = [n \in Node |-> state[n].current_term]
        /\ voted_for = [n \in Node |-> state[n].voted_for]
        /\ leader_id = [n \in Node |-> Nil]
        /\ granted_votes = [n \in Node |->
                CASE n = Chief -> {Chief, Ally}
                  [] rival[n]  -> {Rival, Chief}
                  [] OTHER     -> {}]
        /\ last_log_index = written
        /\ last_log_term = written
        /\ log = [n \in Node |-> IF rival[n] THEN <<1>> ELSE <<>>]
        /\ commit_index = [n \in Node |-> 0]
        /\ last_applied = [n \in Node |-> 0]
        /\ match_index = [n \in Node |-> [p \in Node |->
                IF p = n THEN written[n] ELSE 0]]
        /\ next_index = [n \in Node |-> [p \in Node |->
                IF p = n THEN written[n] + 1 ELSE 1]]
        /\ effect = [n \in Node |-> NoEffect]
        /\ msgs = ElectionMsgs(t)
        /\ appends =
              IF t = 1 THEN {}
              ELSE {[type |-> "AppendEntries", to |-> p, leader_id |-> Rival,
                     term |-> 1, prev_log_index |-> 0, prev_log_term |-> 0,
                     commit_index |-> 0, entries |-> <<1>>] :
                            p \in {Chief, Ally}}

ElectedSpec ==
    /\ \E t \in {1, 2} : ElectedInit(t)
    /\ [][ReplicationNext]_replicationVars

-----------------------------------------------------------------------------
(* Behaviours explored: one of two scopes, as the product is too large.    *)

(* AppendEntries among all nodes and no other message.  The old leader     *)
(* neither crashes nor gets an answer, so it learns of the new term from   *)
(* an AppendEntries request (what happens otherwise: ConflictCommitted).   *)
OnlyAppends ==
    LET t == current_term[Chief]
    IN  /\ \A n \in Node : Idle(n)
        /\ msgs = ElectionMsgs(t)
        /\ \A m \in appends : m.type = "AppendEntriesResponse" => m.to = Chief
        /\ t = 2 /\ current_term[Rival] = 1 => role[Rival] = "Leader"

(* AppendEntries and heartbeats between Chief and Ally.                    *)
OnlyPair ==
    /\ current_term[Rival] = 0 /\ log[Rival] = <<>>
    /\ Cardinality({m \in msgs : m.type = "Heartbeat"}) <= MaxBeats
    /\ Cardinality({m \in msgs : m.type = "HeartbeatResponse"}) <= MaxAnswers

Scope == OnlyAppends \/ OnlyPair

(* Nobody accepts or answers a heartbeat, all requested votes are granted  *)
(* and Ally gets no entry: all the same the old leader may come back with  *)
(* the entry it wrote.  The scope of StaleTermLeader.                      *)
OldLeaderReturns ==
    /\ \A n \in Node : leader_id[n] = Nil
    /\ \A m \in msgs : /\ m.type # "HeartbeatResponse"
                       /\ m.type = "VoteResponse" => m.vote_granted
    /\ log[Ally] = <<>>
    /\ log[Rival] \in {<<1>>, <<1, 3>>}
=============================================================================
