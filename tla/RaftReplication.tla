-------------------------- MODULE RaftReplication --------------------------
(***************************************************************************)
(* Log replication and commitment on top of RaftElection: the handlers of  *)
(* src/src/raft/core.rs for AppendEntries requests and responses, and the  *)
(* progress a leader keeps of its peers.                                   *)
(*                                                                         *)
(* A handler and the effects it returns run as one drive cycle of the      *)
(* runtime task, so each event is one step here: a follower checks the     *)
(* request, writes the entries, answers, and applies what became           *)
(* committed before it takes the next event.                               *)
(*                                                                         *)
(* The executor arms for PersistEntries and SendAppendEntries are todo!()  *)
(* or empty.  They are modelled as external, in the way that serves the    *)
(* core best: a request carries the leader's entries after prev_log_index, *)
(* the first one for a write also the term the leader's log has there ("to *)
(* be filed by the executor"), the follower looks local_prev_log_term up   *)
(* in its own log, and PersistEntries cuts the log where the effect says   *)
(* so and appends the entries that lie beyond its end.                     *)
(***************************************************************************)
EXTENDS RaftElection, SequencesExt

VARIABLE appends  \* the AppendEntries requests and responses on their way

replicationVars == <<vars, appends>>

-----------------------------------------------------------------------------
(* Messages.                                                               *)

AppendEntriesRequest ==
    [type : {"AppendEntries"}, to : Node, leader_id : Node, term : Nat,
     prev_log_index : Nat, prev_log_term : Nat, commit_index : Nat,
     entries : Seq(Nat)]

AppendEntriesResponse ==
    [type : {"AppendEntriesResponse"}, from : Node, to : Node, term : Nat,
     success : BOOLEAN, last_log_index : Nat, last_log_term : Nat,
     leader_id : NodeOrNil]

(* The term of entry i of a log; no entry has term 0.                      *)
TermAt(l, i) == IF i \in DOMAIN l THEN l[i] ELSE 0

(* The request the executor of leader n makes of a ReplicationTarget for   *)
(* peer p that starts after entry prev, of term prev_term.                 *)
RequestFor(n, p, prev, prev_term, entries) ==
    [type |-> "AppendEntries", to |-> p, leader_id |-> n,
     term |-> current_term[n], prev_log_index |-> prev,
     prev_log_term |-> prev_term,
     commit_index |-> commit_index[n],
     entries |-> SubSeq(entries, prev + 1, Len(entries))]

(* The answer of n to request m, about a log position <<index, term>>.     *)
ResponseTo(n, m, success, term, position, leader) ==
    [type |-> "AppendEntriesResponse", from |-> n, to |-> m.leader_id,
     term |-> term, success |-> success, last_log_index |-> position[1],
     last_log_term |-> position[2], leader_id |-> leader]

-----------------------------------------------------------------------------
(* The follower.                                                           *)

(* The follower has the entry the request builds on: there is none, or the *)
(* local log has an entry with its term there.                             *)
PreviousEntryMatches(n, m) ==
    /\ m.prev_log_index <= last_log_index[n]
    /\ \/ m.prev_log_index = 0
       \/ /\ m.prev_log_index \in DOMAIN log[n]
          /\ log[n][m.prev_log_index] = m.prev_log_term

(* truncate_after is Some(prev_log_index).                                 *)
TruncatesTwo(n, m) ==
    /\ m.term > current_term[n]
    /\ m.prev_log_index + 1 < last_log_index[n]
Truncates(n, m) ==
    /\ m.term > current_term[n]
    /\ m.prev_log_index < last_log_index[n]

(* The log after Effect::PersistEntries.                                   *)
Persisted(n, m) ==
    LET kept == IF Truncates(n, m) THEN SubSeq(log[n], 1, m.prev_log_index)
                                   ELSE log[n]
    IN  kept \o SubSeq(m.entries, Len(kept) - m.prev_log_index + 1,
                       Len(m.entries))

(* Effect::ApplyCommitted and the EntriesApplied event after it: the       *)
(* entries up to the new commit index go to the FSM.                       *)
handle_entries_applied(n, through) ==
    last_applied' = [last_applied EXCEPT ![n] = through]

CommitThrough(n, index) ==
    /\ commit_index' = [commit_index EXCEPT ![n] = index]
    /\ handle_entries_applied(n, index)

(* What the executor reports when the log has become l.                    *)
PersistedEntries(l, leaderCommit) ==
    [last_log_index |-> Len(l), last_log_term |-> TermAt(l, Len(l)),
     leader_commit_index |-> leaderCommit]

handle_entries_persisted(n, entries) ==
    LET commit == Least(entries.leader_commit_index, entries.last_log_index)
    IN  /\ last_log_index' = [last_log_index EXCEPT
                                ![n] = entries.last_log_index]
        /\ last_log_term' = [last_log_term EXCEPT
                                ![n] = entries.last_log_term]
        /\ IF commit > commit_index[n]
           THEN CommitThrough(n, commit)
           ELSE UNCHANGED commitVars

(* The position an accepting answer names: the one the log is cut to, or   *)
(* else the last one before the entries of the request are written.        *)
CountedPosition(n, m) ==
    <<last_log_index[n] + Len(m.entries), last_log_term[n]>>
AnsweredPosition(n, m) ==
    IF Truncates(n, m) THEN <<m.prev_log_index, m.prev_log_term>>
                       ELSE <<last_log_index[n], last_log_term[n]>>

(* Effect::RejectAppendEntries: the answer goes out at once.               *)
RejectAppendEntries(n, m, term, leader) ==
    appends' = (appends \ {m}) \cup
        {ResponseTo(n, m, FALSE, term,
                    <<last_log_index[n], last_log_term[n]>>, leader)}

handle_append_entries(n, m) ==
    /\ Idle(n)
    /\ \/ /\ m.term < current_term[n]
          /\ RejectAppendEntries(n, m, current_term[n], leader_id[n])
          /\ UNCHANGED <<electionVars, positionVars, commitVars, log>>
       \/ /\ m.term >= current_term[n]
          /\ ~PreviousEntryMatches(n, m)
          /\ current_term' = [current_term EXCEPT ![n] = m.term]
          /\ leader_id' = [leader_id EXCEPT ![n] = m.leader_id]
          /\ RejectAppendEntries(n, m, m.term, m.leader_id)
          /\ UNCHANGED <<role, voted_for, granted_votes, positionVars,
                         commitVars, log>>
       \/ /\ m.term >= current_term[n]
          /\ PreviousEntryMatches(n, m)
          /\ current_term' = [current_term EXCEPT ![n] = m.term]
          /\ voted_for' = [voted_for EXCEPT
                ![n] = IF m.term > current_term[n] THEN Nil ELSE @]
          /\ role' = [role EXCEPT ![n] = "Follower"]
          /\ leader_id' = [leader_id EXCEPT ![n] = m.leader_id]
          /\ log' = [log EXCEPT ![n] = Persisted(n, m)]
          /\ appends' = (appends \ {m}) \cup
                {ResponseTo(n, m, TRUE, m.term, AnsweredPosition(n, m),
                            m.leader_id)}
          /\ handle_entries_persisted(n,
                PersistedEntries(Persisted(n, m), m.commit_index))
          /\ UNCHANGED granted_votes
    /\ UNCHANGED <<progressVars, effect, storage, msgs>>

-----------------------------------------------------------------------------
(* The leader.                                                             *)

(* A client write: the entry is appended locally and offered to every peer *)
(* from the position the leader knows the peer to have; the target gives   *)
(* the term of the leader's last entry, which the executor replaces.       *)
WriteAndReplicate(n) ==
    /\ Write(n)
    /\ appends' = appends \cup
          {LET prev == Least(match_index[n][p], last_log_index[n])
           IN  RequestFor(n, p, prev, TermAt(log'[n], prev), log'[n]) :
                  p \in Node \ {n}}

(* The retry for a peer that is behind, from the position and with the     *)
(* term that the peer reported, whatever entry the leader has there.       *)
ResendNothing(n, m) == appends' = appends \ {m}
Resend(n, m) ==
    appends' = (appends \ {m}) \cup
        {RequestFor(n, m.from, m.last_log_index, m.last_log_term, log[n])}

(* The match index a report about the peer's log gives the peer.           *)
ReportedNext(m) == m.last_log_index + 1
Reported(m) == m.last_log_index

(* The voters that have every entry of the leader, as the progress says.   *)
CaughtUp(n) == {p \in Node : match_index'[n][p] >= last_log_index[n]}

handle_append_entries_response(n, m) ==
    /\ Idle(n)
    /\ role[n] = "Leader"
    /\ \/ /\ m.term > current_term[n]
          /\ StepDown(n, m.term, m.leader_id)
          /\ appends' = appends \ {m}
          /\ UNCHANGED <<commitVars, progressVars>>
       \/ /\ m.term <= current_term[n]
          /\ ~m.success
          /\ m.last_log_index < last_log_index[n]
          /\ Resend(n, m)
          /\ UNCHANGED <<electionVars, commitVars, progressVars>>
       \/ /\ m.term <= current_term[n]
          /\ m.success \/ m.last_log_index >= last_log_index[n]
          /\ m.last_log_index <= last_log_index[n]  \* assert!
          /\ match_index' = [match_index EXCEPT ![n][m.from] = Reported(m)]
          /\ next_index' = [next_index EXCEPT ![n][m.from] = Reported(m) + 1]
          /\ IF Reported(m) < last_log_index[n]
             THEN Resend(n, m) /\ UNCHANGED commitVars
             ELSE /\ IF /\ Majority(CaughtUp(n))
                        /\ commit_index[n] < last_log_index[n]
                     THEN CommitThrough(n, last_log_index[n])
                     ELSE UNCHANGED commitVars
                  /\ appends' = appends \ {m}
          /\ UNCHANGED electionVars
    /\ UNCHANGED <<positionVars, effect, storage, log, msgs>>

-----------------------------------------------------------------------------
ReceiveAppend(n, m) ==
    \/ /\ m.type = "AppendEntries"
       /\ m.to = n
       /\ handle_append_entries(n, m)
    \/ /\ m.type = "AppendEntriesResponse"
       /\ m.to = n
       /\ handle_append_entries_response(n, m)

ReplicationInit == Init /\ appends = {}

Replicate(n) ==
    \/ WriteAndReplicate(n)
    \/ \E m \in appends : ReceiveAppend(n, m)

(* The steps of RaftElection that move no entries.                         *)
Elect(n) ==
    /\ \/ Timeout(n)
       \/ \E m \in msgs : Receive(n, m)
       \/ persist_hard_state(n)
       \/ Send(n)
       \/ Crash(n)
       \/ CrashDuringSave(n)
    /\ UNCHANGED appends

ReplicationNext == \E n \in Node : Replicate(n) \/ Elect(n)

ReplicationSpec == ReplicationInit /\ [][ReplicationNext]_replicationVars

(* A cluster that keeps working: effects are executed, as drive awaits     *)
(* them before it takes another event, and a message in the channel of a   *)
(* node is taken out of it one day, though other events come in between.   *)
ExecuteEffect(n) ==
    /\ persist_hard_state(n) \/ Send(n)
    /\ UNCHANGED appends

TakeVote(n, p) == DeliverVote(n, p) /\ UNCHANGED appends

TakeAppend(n) == \E m \in appends : ReceiveAppend(n, m)

FairReplicationSpec ==
    /\ ReplicationSpec
    /\ \A n \in Node : /\ WF_replicationVars(ExecuteEffect(n))
                       /\ SF_replicationVars(TakeAppend(n))
    /\ \A n \in Starter : \A p \in Node \ {n} :
            SF_replicationVars(TakeVote(n, p))

-----------------------------------------------------------------------------
(* Properties.                                                             *)

(* The logs of n and p have the same first i entries.                      *)
SameUpTo(n, p, i) ==
    /\ i <= Len(log[n])
    /\ i <= Len(log[p])
    /\ SubSeq(log[n], 1, i) = SubSeq(log[p], 1, i)

(* "Commitment means a log position is safe according to Raft's quorum     *)
(* rules": whatever a node takes for committed is in the logs of a         *)
(* majority, so every later leader that a majority elects can have it      *)
(* (handle_append_entries_response, handle_entries_persisted,              *)
(* handle_heartbeat).                                                      *)
CommittedIsOnMajority ==
    \A n \in Node :
        Majority({p \in Node : SameUpTo(n, p, commit_index[n])})

(* The progress table never claims more than a peer has: up to the match   *)
(* index the peer's log is the leader's (handle_append_entries_response    *)
(* and handle_heartbeat_response assign it from reports of the past).      *)
MatchIndexIsTrue ==
    \A n, p \in Node :
        role[n] = "Leader" => SameUpTo(n, p, match_index[n][p])

(* What the two assert! of handle_append_entries_response say: no report   *)
(* that may still reach a leader is about more entries than it has         *)
(* (core.rs:453 and 473).  Once there has been a second leader the code    *)
(* breaks it, and the runtime of the leader panics.                        *)
FollowersAreNotAhead ==
    \A m \in appends :
        /\ m.type = "AppendEntriesResponse"
        /\ role[m.to] = "Leader"
        /\ m.term <= current_term[m.to]
        => m.last_log_index <= last_log_index[m.to]

(* All elections that were won were won in the same term.                  *)
FirstLeadership ==
    \A v, w \in Votes :
        Elected(v[3], v[2]) /\ Elected(w[3], w[2]) => v[2] = w[2]

(* Under the first leader the two assertions hold, whatever reports of     *)
(* handle_append_entries are late, repeated or from before a crash, and    *)
(* though a crash makes a follower forget its position.                    *)
FirstLeaderAssertsHold == FollowersAreNotAhead \/ ~FirstLeadership

Promise == INSTANCE CommittedLog WITH
              known <- [n \in Node |-> SubSeq(log[n], 1, commit_index[n])]

(* Replication implements the promised log: what a node takes for          *)
(* committed and applies is what every other node takes for committed in   *)
(* that place, and no truncation ever removes or replaces it.              *)
ImplementsCommittedLog == Promise!Spec

(* A write that a leader has taken is committed, unless the leader loses   *)
(* its leadership first (the retries of handle_append_entries_response).   *)
(* Entries of earlier terms wait for the next write.                       *)
EveryWriteCommits ==
    \A n \in Node, i \in 1..MaxIndex :
        (role[n] = "Leader" /\ TermAt(log[n], i) = current_term[n])
            ~> (role[n] # "Leader" \/ commit_index[n] >= i)
=============================================================================
