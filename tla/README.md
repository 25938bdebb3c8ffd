# TLA+ verification of raft-distributed-log-rs

This directory models the Raft prototype of the repository in TLA+, checks the
models with TLC on small instances, and proves with TLAPS, for every value of the
parameters, what holds of elections, replication under the cluster's first leader,
the hard-state file, the runtime's operations and the segmented log. Where the code
breaks what the repository says of it, a run shows how (section 3). Paths such as
`src/src/raft/core.rs` are relative to the directory that holds both the repository
(`src/`) and this directory. `PROJECT.json` lists the runs, the code lines each definition models,
the findings, the hazards and the theorems.

## 1. The system

| Component | State | Operations | Talks to |
| --- | --- | --- | --- |
| Raft core (`raft/core.rs`, `raft/types.rs`) | role, term, vote, leader hint, granted votes, last log position, commit and apply index, progress per voter | one handler per `Event`, each returns an `Effect` | called by the runtime; never does I/O |
| Runtime (`raft/runtime.rs`) | the core, the log, the hard-state storage, the FSM, the operation table | `handle_message`, `drive`, `execute`, `fail_operation`, `run` | channel from the client transport, one-shot replies to it, files, FSM |
| Hard-state storage (`raft/storage.rs`) | the file `state.metadata`: term and vote | `save_state`, `load_state` | runtime |
| Log (`log.rs`, `log/*.rs`) | segments, each a buffered store file and a memory-mapped index file | `new`, `append`, `read`, `truncate`, `close` | runtime |
| Client transport (`grpc/client_transport.rs`, `raft/handle.rs`) | a pool of buffers | `write` | runtime channel |
| FSM (`raft/types.rs`) | the application's | `apply` | runtime |
| Membership (`membership.rs`) | a Serf instance | empty event handlers | nothing |

What is hard here:

* **Votes and crashes.** A vote is decided in memory, saved with several writes,
  then sent. A crash, or a failing save, can fall between any two of these, and
  messages can be lost, repeated and reordered.
* **Logs that differ.** Old leaders have entries nobody else has; answers about a
  log arrive late, out of order or in another term; a restarted node has its log and
  no position. The leader commits by what its progress table says.
* **Leader hints.** A node names to clients a leader it heard of from a third node.
* **Two files that must agree.** A record goes to a buffered store and then to a
  mapped index; a crash, a full index or a truncation can part them.
* **One operation, several fallible steps.** A write goes through the table, the
  log, the core and the FSM; each step may fail, and the client must get one
  truthful answer.

What makes each component correct: at most one leader per term, and votes that
survive restarts (core, runtime, storage); a leader that is at least as up to
date as its voters; committed entries that are on a majority and the same for
everyone; hints that name a node that did win an election; a log that
keeps every acknowledged record at its offset with its value; writes that are
answered, `Ok` only when applied, and applied in index order.

## 2. Modules

| Module | Models |
| --- | --- |
| `RaftCore` | The state of `struct Raft` and one action per election, heartbeat and local-append handler. A handler leaves its `Effect` in `effect[n]`. |
| `RaftElection` | A cluster of cores, the persist-then-send executor, `state.metadata`, crashes and restarts (`Runtime::new`), a transport; the election properties and the inductive invariant. |
| `RaftElectionProof` | Theorems about `RaftElection`: types and votes. |
| `RaftLeaderProof` | Theorems about `RaftElection`: leader hints, and leaders against their voters. |
| `CommittedLog` | What replication promises: every node knows a prefix of one sequence. |
| `RaftReplication` | `RaftElection` with the AppendEntries handlers, the progress table and commitment; shown to implement `CommittedLog`. |
| `RaftReplicationProof` | Theorems about `RaftReplication`, the refinement included. |
| `HardStateStorage` | `state.metadata` write by write; it justifies what `RaftElection` assumes of a cut save. |
| `HardStateStorageProof` | Theorems about `HardStateStorage`. |
| `AppendLog` | What a log promises: append at the end, cut at the end, nothing else. |
| `SegmentedLog` | `Log`, `Segment`, `Store`, `Index`: rotation, buffering, truncation, reopening, crashes; shown to implement `AppendLog`. |
| `SegmentedLogProof` | Theorems about `SegmentedLog`, the refinement included. |
| `Runtime` | Client transport, channel, operation table, drive loop, apply loop, shutdown, crash. |
| `RuntimeProof` | Theorems about `Runtime`. |
| `MCRaftElection`, `MCRaftReplication`, `MCSegmentedLog` | Symmetry, scopes and initial states for TLC. |

The other modules are checked directly: their constants get values in the
configurations alone.

### Correspondence

*RaftCore and RaftElection.* The variables are the fields of `struct Raft`, as
functions over the voters. `effect[n]` is the effect between `Raft::handle` and
`Runtime::execute`; a handler needs it to be empty, since `drive` awaits
`execute` before it takes another event. `persist_hard_state` and `Send` are the two halves of
the vote arms of `execute`. `msgs` is every message ever handed to the transport;
a message in it may be received any number of times, in any order, or never, so
loss, duplication, delay and reordering need no action of their own. The transport
itself is `todo!()` in the code and is external here. `Starter`, `Beater` and
`Faulty` name the nodes whose timers may fire and that may crash. `log[n]` is the
persistent log as the terms of its entries. `Crash` restarts a node from its file;
`CrashDuringSave` does so with one of the files `save_state` leaves when it stops
half-way (`HalfSaved`: the new term with any vote).
Handlers that return an error or `None` without a change are stuttering steps.
The learner map is always empty and is left out. `reset_election_timer` and
`apply_through` of the heartbeat response are instructions to an unwritten
executor arm and are left out; election timers may fire at any time.

*RaftReplication.* `handle_append_entries`, `handle_entries_persisted`,
`handle_entries_applied` and `handle_append_entries_response` as steps of the
receiving node; a handler and the effects it returns are one drive cycle, hence one
step. `appends` holds the requests and responses on their way; each is received at
most once, in any order, late or never (a lost message is one nobody takes).
Duplicates are left out: a request is one gRPC call. The executor arms are empty or
`todo!()`, so what they do is assumed, and marked external: a request carries the
leader's entries after `prev_log_index`; the first request for a write has the term
of the leader's own entry there, which the comment at `core.rs:291` leaves to the
executor, and a retry has the term that its target names, the one the follower
reported (`core.rs:465`, `507`); the follower looks up
`local_prev_log_term` in its own log; `PersistEntries` cuts the log where
`truncate_after` says so, and only there, and appends the entries beyond its end.
A failing `assert!` has no step. `FollowersAreNotAhead` is what the two assertions of
`handle_append_entries_response` claim; under the first leader it holds
(`FirstLeaderAssertsHold`), after a second election it does not (`AssertionFails`).

*HardStateStorage.* The file is a sequence of fields: term, length, bytes of the
name. `save_state` becomes the list of calls it makes; `write_next`, `write_fails`
and `crash` are what can happen between two of them. A single call is atomic and a
crash keeps the calls before it, as everything lies in one sector. `load_state`
panics on a file that ends too early (`Loadable`); the node then stays down.

*SegmentedLog.* A segment is one record with what is in its two files and in its
write buffer; of the index file also its length, which `Index::close` cuts to the
entries, and what it holds before the first entry is written. Index sizes are in
bytes, because the code compares them in bytes against two different limits; any
size is allowed, whole entries or not. Store sizes count records. A crash is the
death of the process: file contents and mapped pages survive, any prefix of the
write buffer may have been written.

The process may die wherever the files then differ from those of another point:
inside one `Log::append` before the index entry (`crash_during_append`), after it
(`crash_before_rotation`) and inside the `Segment::new` of the rotation
(`crash_during_rotation`); inside `Log::close` (`crash_during_close`) and
`Log::truncate` (`crash_during_truncate`), there also between the two `remove_file`
calls of `Segment::remove` (`store_removed`); and inside `Log::new` itself, which
is then called again. `Index::new` gives a new index file its length and fills it
with 0xFF in a second step; `TornSets` chooses for which of the files that `Open`
finds without bytes, those of a segment that is being created included, the
process died between the two (`set_len`), and `Open` reopens what that left.

Two of these points leave an index file with entries and no records:
`recover_size` reads the zeros of an unfilled file as one entry (the run `TornIndex`,
in which the first `Log::new` died there), and a half-removed segment comes back
empty (`HalfRemoved.cfg`). The field `state` of a
segment is history: it remembers that a crash fell there. `EntriesAreReal` and
`StoredRecordsStay` speak of the other segments, and the log promises its users
the records below the first damaged segment (`SureEnd`): some offsets beyond have no
record, and an `AppendLog` has no gaps.

Without `sync_writes` an acknowledged record may be lost in a crash, by
design; the history variable `crashed` ends the promise of `AppendLog` there, and
`StoredRecordsStay` says what still holds. A truncation, or a crash just before
rotation, can leave a full segment active; `append_fails` is then the only append
left, and each attempt adds a record to the store that no index entry names
(`FullActiveSegment.cfg`).

*Runtime.* The drive loop is a program counter, `drive`, with one action per handler or
executor step. `reply` is what each client knows: `waiting`, `ok`, `err`, or
`lost` when the process died. A dropped reply sender is an `err`, as `rx.await`
fails. A buffer is the sequence of commands encoded into it; `pool` is a stack as
in the object_pool crate, of which only the reused buffers are kept (fresh ones
are empty). `Large` names the clients whose command exceeds the 1024 bytes of a new
buffer: `resize` then puts zeros (`Zeros`) behind what the buffer holds, in a reused
buffer only when it has not grown enough (`Fill`). The role changes from outside, between two cycles (`role_changes`),
because election messages are not wired to the runtime; the repository's own test
sets the role by hand.

Definitions such as `CanAlwaysVote` or `SendBeforeSave`, placed right before the
definition they resemble, are forms with a plausible bug. No specification uses
them. `PROJECT.json` names for each checked property the form that breaks it.

## 3. Runs

| Run | Instance | Shows |
| --- | --- | --- |
| `ElectionSafety` | 3 voters, 2 candidates, terms up to 2, all may crash; with one write and heartbeats between the 2 candidates | `TypeOK`, `ElectionSafety`, `OneVotePerTerm`, `VoteIsDurable`, `DurableVoteIsStable`, `LeaderCoversItsVoters`, `LeaderHintWasElected` |
| `Replication` | 3 voters, a leader just elected in term 1, or in term 2 against the leader of term 1 with an entry of its own; 2 entries, followers crash | `CommittedIsOnMajority`, `MatchIndexIsTrue`, `FirstLeaderAssertsHold`, `ImplementsCommittedLog` |
| `ReplicationLiveness` | 2 voters, both candidates of term 1, 2 writes, fair | `VotesLeadToLeader`, `EveryWriteCommits` |
| `HardState` | names of 1 and 2 bytes over 2 letters, terms up to 3, crashes and errors | `ConfirmedVoteSurvives`, `ConfirmedStateIsReadBack` |
| `LogRefinement` | 2 records, offsets 0 to 3, 2 entries per segment, both settings of `sync_writes`, truncation, crashes | `TypeOK`, `SegmentsAreContiguous`, `EntriesAreReal`, `ImplementsAppendLog`, `StoredRecordsStay`, `RotationIsInTime` |
| `RuntimeWrites` | 3 clients, sole voter or one peer, channel of 1, all errors, crashes, fair task | `TypeOK`, `OperationIsPresent`, `NoOperationLeaks`, `AppliedAfterPredecessors`, `OkMeansApplied`, `EveryWriteIsAnswered` |

Runs that end in a counterexample, each against a sentence of the repository:

| Run | Property | What happens |
| --- | --- | --- |
| `SaveError` | `VoteIsDurable` | after a failed save the vote is sent on the retry, unsaved |
| `StaleTermLeader` | `ElectionSafety` | a leader that rejects a newer leader's request takes over its term and stays leader |
| `ConflictCommitted` | `CommittedIsOnMajority` | a conflicting entry is reported as a match, and an entry that one node has is committed |
| `AssertionFails` | `FollowersAreNotAhead` | a follower that knows the term already reports the entries it should have cut, and an assertion panics the leader's runtime |
| `TornIndex` | `PaddingIsNoEntry` | a new index file that was not filled yet is read as one entry |
| `NeverRotates` | `ActiveHasRoom` | an index size of 28 bytes: two entries fit, the third append fails and nothing rotates |

Further configurations end in a counterexample each; they show in the same way
what the hazards of `PROJECT.json` that name them say.

| Configuration | Module, property | What happens |
| --- | --- | --- |
| `SingleVoter.cfg` | `RaftElection`, `VotesLeadToLeader` | a sole voter has a majority and stays candidate |
| `ApplyTwice.cfg` | `Runtime`, `AppliedInIndexOrder` | a failing apply makes the next write apply earlier entries again |
| `StaleBuffer.cfg` | `Runtime`, `CommandIsClients` | a reused buffer joins two clients' commands in one entry |
| `ZeroFilled.cfg` | `Runtime`, `CommandIsClients` | a command longer than a new buffer is stored behind zeros |
| `HalfRemoved.cfg` | `MCSegmentedLog`, `RemovedOrKept` | a segment whose store file alone was removed comes back without its records |
| `FullActiveSegment.cfg` | `MCSegmentedLog`, `ActiveHasRoom` | with whole entries too: a truncation makes a full segment active and append does not look |

`NeverRotates` uses 28 bytes for the 1024 of the repository's own configurations
(`runtime.rs:370`, the tests of `log.rs` and `segment.rs`): both leave four bytes
over after the last whole entry, 1024 = 85 * 12 + 4.

`StaleTermLeader`, `ConflictCommitted` and `AssertionFails` show that the properties
of `RaftElection` and of the run `Replication` end where these paths begin: the theorem `ElectionIsSafe` is about the
system as the executor has it today, without AppendEntries events, and the run
`Replication` explores the scopes below. `StaleTermLeader` needs three elections:
the old leader of term 1 comes back in term 3 and repeats its request, from a
position that an answer of term 2 names, to the leader of term 2. In
`AssertionFails` the old leader has written twice; its first request, rejected, has
told it the new term when the request of the new leader arrives, so nothing is cut,
and it reports two entries to a leader of one. It is the one scope with two entries
on the old side and an answer to it, which `Replication` leaves out.

### Bounds

Two terms and two candidates are the smallest instance in which a vote can be
given twice, a message can be late by a term, and a save can be torn over an
older state; the proofs remove these bounds. `MCRaftElection` explores the union of
two scopes: all three nodes with votes only (heartbeats and writes add states and no
votes), and the two candidates with writes and heartbeats, where two voters suffice
for a hint to travel through a rejection and come back.
`MaxIndex = 1` lets a leader's position differ from its voters'. `Replication` starts from
the states right after an election (`ElectedInit`, both reachable from
`ReplicationInit`) and explores two scopes: `OnlyAppends`, all three nodes exchanging
AppendEntries while the old leader learns of the new term from a request;
`OnlyPair`, leader and voter exchanging AppendEntries and heartbeats, with one
heartbeat answer and two heartbeats: the first one and another, each of which may
arrive any number of times. Outside the first scope `ConflictCommitted` and `AssertionFails`
apply. In `Replication` the leader itself does not crash: it would lead again only
after another election. Two entries
and the crash of a follower make it fall behind by one and by two, and let a
response be overtaken. Three terms of names of two lengths let `save_state`
lengthen, shorten and remove a name over the rest of a cut save. Two entries per
segment and offsets up to 3, of which a torn index file may use up one, give up to
three segments, so rotation, reading across
segments and truncating several at once all happen; `MaxLost = 2` lets stored
records without index entry precede indexed ones. Three clients are needed
for a failed write, a successful one that applies both, and a write queued behind
them; `ApplyTwice.cfg` needs four. Deadlock checking is off: the bounds end every
behaviour, a client writes once, and a runtime that was shut down stops.

### Fairness

`FairSpec` of `RaftElection` and `FairReplicationSpec`: `WF` of the executor's
steps, since `drive` awaits each effect before anything else, and `SF` of the
delivery of vote responses of the current term and of AppendEntries messages, since
the runtime's channel is first in, first out and other events may be handled in
between; no crashes. The loss of these messages is thus excluded, as the code has no
timer that would repeat them; vote requests and heartbeats may still be lost.
`EveryWriteCommits` is about entries of the leader's own term: older ones wait for
the next write.
`FairSpec` of `Runtime`: `WF` of the task's steps, as Tokio polls a task that can
go on. Nothing is assumed of clients, timers or elections.

## 4. Proofs

The theorems are checked with Z3, Zenon and LS4. Each is about the specification
that the run of section 3 checks on a small instance (the run `Replication` starts
later in its behaviours), for every value of the constants that satisfies the named
assumption of the module. The hypothesis `FirstLeadership` says that no second term
has had a winner yet; the subsection on replication explains it.

| Module | Theorem | Statement |
| --- | --- | --- |
| `RaftElectionProof` | `TypeCorrect` | `Spec => []TypeOK` |
| | `ElectionIsSafe` | `Spec => []ElectionSafety` |
| | `VotesAreUnique` | `Spec => []OneVotePerTerm` |
| | `VotesAreDurable` | `Spec => []VoteIsDurable` |
| | `HardStateIsStable` | `Spec => DurableVoteIsStable` |
| `RaftLeaderProof` | `HintsAreElected` | `Spec => []LeaderHintWasElected` |
| | `LeadersCoverVoters` | `Spec => []LeaderCoversItsVoters` |
| `RaftReplicationProof` | `ReplicationTypeCorrect` | `ReplicationSpec => []ReplicationTypeOK` |
| | `CommitsAreOnMajority` | `ReplicationSpec => [](FirstLeadership => CommittedIsOnMajority)` |
| | `ProgressIsTrue` | `ReplicationSpec => [](FirstLeadership => MatchIndexIsTrue)` |
| | `ReportsAreNotAhead` | `ReplicationSpec => []FirstLeaderAssertsHold`, that is `[](FirstLeadership => FollowersAreNotAhead)` |
| | `ReplicationElectsOne` | `ReplicationSpec => [](FirstLeadership => ElectionSafety)` |
| | `ReplicationKeepsPromise` | `ReplicationSpec /\ []FirstLeadership => ImplementsCommittedLog` |
| `HardStateStorageProof` | `VoteSurvives` | `Spec => []ConfirmedVoteSurvives` |
| | `StateIsReadBack` | `Spec => []ConfirmedStateIsReadBack` |
| `RuntimeProof` | `TypeCorrect` | `Spec => []TypeOK` |
| | `OperationsArePresent` | `Spec => []OperationIsPresent` |
| | `NothingLeaks` | `Spec => []NoOperationLeaks` |
| | `AppliesInOrder` | `Spec => []AppliedAfterPredecessors` |
| | `OkOnlyAfterApply` | `Spec => OkMeansApplied` |
| `SegmentedLogProof` | `TypeCorrect` | `Spec => []TypeOK` |
| | `SegmentsFollow` | `Spec => []SegmentsAreContiguous` |
| | `EntriesHold` | `Spec => []EntriesAreReal` |
| | `StoredStay` | `Spec => StoredRecordsStay` |
| | `RotationInTime` | `Spec => RotationIsInTime` |
| | `Refinement` | `Spec => ImplementsAppendLog` |

### Elections

Assumptions: the voter set is finite and does not contain `Nil`, the bounds are
natural numbers, starters and faulty nodes are voters. Saves do not fail with an
error (`Spec`, not `SpecWithSaveErrors`: there the run `SaveError` refutes
`VoteIsDurable`), and there are no AppendEntries events (there the run
`StaleTermLeader` refutes `ElectionSafety`; what is left of it is a theorem of the
next subsection).

`ElectionSafety` is not inductive: nothing in it ties a counted vote to
the voter. `VoteInvariant` does, per node: the file is never ahead of the memory,
agrees with it on a vote of the same term and equals it when no save is pending
and a vote is held, and has no vote yet when a save of its own term is pending
(`DiskFollowsMemory`), so that a save cut at any point replaces no vote; a vote
waiting in `effect` is the vote held (`PendingVoteIsHeld`); a candidate or leader
has counted only votes that were sent to it, and a leader a majority
(`CountedVotesWereSent`); and, for the cluster, every sent vote is on disk
(`VoteIsDurable`) and unique (`OneVotePerTerm`). A new vote leaves a node only from
`effect`, after the save, so it equals the file, and any earlier vote of that term
equals the file too. Two leaders of a term share a voter (`MajoritiesIntersect`),
whose vote is unique (`OneLeader`).

A leader hint travels in heartbeats and in answers, so `HintInvariant` says of every
message, sent or waiting in `effect`, that the leader it names was elected in a term
no later than the message's, and of a candidate that its own vote has been sent or
waits with its request (`OwnVote`). `Elected`, being about the votes ever sent, stays
true once it is. `LeaderCoversItsVoters` compares two positions that both change:
`CoverInvariant` keeps, for every request and every vote, that the candidate's
position covers the voter's while both are in the term of the vote. A voter's position
moves only by its own writes as a leader, or back to 0 in a restart.

### Replication

*The hypothesis.* `FirstLeadership`: all elections that were won so far, that is for
which a majority has sent its votes, were won in one term. Within it lies everything
up to the second election that somebody wins: any number of voters, candidates and
failed elections, of entries, retries, crashes and restarts, and messages that are
lost, late or out of order; nodes may already be in later terms, and the leader may
have stepped down. It is no convenience: the runs `ConflictCommitted`,
`AssertionFails` and `StaleTermLeader` need a second winner, and with one the code
breaks `CommittedIsOnMajority`, `FollowersAreNotAhead` and `ElectionSafety`. The behaviours of the run `Replication`
that start with a leader of term 1 satisfy the hypothesis; those with a leader of
term 2 go beyond it. Types need no hypothesis, nor does `CommitIsMonotonic`: a step
raises the commit index of one node, or a restart sets it to 0.

*The invariant.* `LeadershipInvariant` has two phases. `Quiet`: nobody has won, so
nobody has written; `VoteInvariant` and `HintInvariant` hold as above, logs are
empty and there is no AppendEntries message. `Led(c, t)`: `c` has won term `t`. From
then on `VoteInvariant` is not inductive, since the reject path of
`handle_append_entries` takes over the leader's term and keeps the vote of an older
one, without a save. What remains true is about a majority (`BoundQuorum`): its
members have voted for `c`, and their memory, file, pending effect and sent votes
say so as long as they are in term `t`. A second winner of `t` would need one of
them. The candidacy of an older term that the reject path carries into `t` stays
without votes, as nobody was asked for any in `t` (`Requests`, `Counts`). A node
that wins another term ends the hypothesis.

`Positions`, `Truthful` and `TruthfulAppend` are the argument for the logs: no
position, match index, commit index, request, answer or heartbeat says more than the
logs it is about hold. This stays true because logs only grow under one leader: a
node whose position is not 0 is in term `t` or beyond (`Positions`), all entries are
of term `t`, hence every request that names an existing entry agrees with it, and
nothing is cut. A restart sets a position to 0 and keeps the log, which only lowers
what is claimed. `c` leads once: it is no candidate of `t` again after it wrote
(`Leads`). `CommittedIsOnMajority` then follows, since of two logs whose entries are
all of term `t` the shorter is a prefix of the other (`SamePrefix`).

*The proof.* One lemma per handler (`WriteLed`, `PersistedIsLed`,
`AppendEntriesLed`, `AppendEntriesResponseLed`, and one for each step of
`RaftElection`) keeps `Led`; most of them change one node and go through `LedStep`,
which asks only for that node's part. The step that sends the vote that completes a
majority leads from `Quiet` to `Led` (`CalmElected`); that vote may still be on its
way, so `Led` covers a winner that does not know yet. The refinement mapping is
`Known`, the committed prefix of each log; `LedPromise` turns a raised commit index
into `Learn` and a restart into `Forget`.

### Hard state

For every alphabet, length of names and bound on terms. The
invariant follows a save call by call: which of its calls `save_state` has left, and
what of the new state the file holds by then (`Progress`); the state being saved is
no step back from the confirmed one (`NotBehind`, and `Follows` while a save is under
way). What the lemmas `TermWritten` to
`CutMade` say of one call each is all the proof needs of the file format.

### Runtime

For every set of clients, channel capacity and setting of the error switches. The
invariant adds to the properties the shape of the drive loop's program counter
(`Shape`), that queued messages carry data (`MessagesHaveData`), that only leaders append
(`OnlyLeadersAppend`), that after `AppendLocal` the operation's own entry is in
the log at the index the loop carries (`OwnEntryIsLogged`), and that all indexes
below the one to be applied next were applied (`AppliedSoFar`). The last two
give `OkMeansApplied`: `CompleteOperation` comes after the apply loop has passed
the entry's index.

### Segmented log

For every first offset, index and store size and both settings of `sync_writes`.
The invariant is `TypeOK /\ Layout /\ Backing`. `Layout`: every segment is `Sound` (its
offsets count its entries, which fit its index file of full length, and the padding
behind them is not read as another entry), the
segments are adjacent and do not overlap, and every offset of the log is readable. The
last two follow from adjacency by induction over the segments, which the provers
do not do; being inductive over steps they are part of the invariant
instead. `Backing`: with `sync_writes` buffers are empty between steps, and as long as
no crash without `sync_writes` has happened every entry of an undamaged segment names
a record.

Recovery has three cases. A sound segment that was closed, or open when the process
died, comes back with the entries it had (`ReopenedIs`); one whose store file is gone
does so too and is damaged from then on (`RemnantReopened`); a new index file without
its 0xFF comes back sound and damaged, with at most one entry (`TornIs`). `StepShape`
then reduces all actions to two shapes: a beginning of the segments is kept, each
with its entries and at least what was in its file, and the last of them may have been
`Harmed` (`Cuts`), or the last segment
gets one record and perhaps a successor (`Grows`). Invariant,
`StoredRecordsStay` (`RecordsStay`) and the refinement (`CutsEnd`, `GrowsEnd`) follow
from the shapes alone.

The mapping is `Promised`: what is read back offset by offset up to `SureEnd`, or
nothing once a crash has hit a log without `sync_writes`. `SureEnd` is a minimum over
the damaged segments (`LeastIs`, from the well-foundedness of the natural numbers).
Damage never heals and strikes only the last segment that is left or a new one, so a
step cuts the promise (`EndIsCut`) or extends it by the record appended
(`EndIsAppended`).

`RotationInTime` needs no more than `Layout` and the arithmetic of `is_maxed` and
`Index::write`; its exception, an index size that is no multiple of 12, is the case
in which the run `NeverRotates` stops.

### Left to TLC

* Liveness, which needs fairness and ENABLED: `VotesLeadToLeader`,
  `EveryWriteCommits`, `EveryWriteIsAnswered`.
* Replication after a second term had a winner: `MatchIndexIsTrue`,
  `CommittedIsOnMajority` and `ImplementsCommittedLog` in
  the behaviours of the run `Replication` that start with a leader of term 2. They are no
  theorems there, as `ConflictCommitted` shows; that a conflicting
  entry in a follower's log is overwritten rather than committed is only
  model-checked.

## 5. Not modelled

* The executor arms of SendAppendEntries, PersistEntries, SendHeartbeat and
  SendHeartbeatResponse, and the Raft transport, beyond the assumptions of section 2:
  they are not written. A crash inside PersistEntries and duplicated AppendEntries
  messages are left out with them. The vote a node keeps in the reject path of
  `handle_append_entries`, and terms it learns from AppendEntries or heartbeats, are
  not saved by any effect; a restart forgets them (`src/README.md:420`).
* Failures of the operating system below a process crash (unsynced pages lost on
  power failure) and I/O errors of single calls inside the log.
* Truncation below the first offset, which leaves no segment; use of a log after
  `close`.
* In the model but no property: a deposed leader can take its own name for the hint
  from a rejection, and redirect clients to itself.
* Overflow of terms, indexes and operation ids at 2^64: terms and indexes are
  bounded by `MaxTerm` and `MaxIndex`, operation ids by the number of clients.
* Membership (Serf): a wrapper whose event handlers are loops without effect; the
  protobuf schemas, which become generated code; and the entry points.

## 6. Plan

Done: all modules above; the proofs of every safety property of the runs
`ElectionSafety`, `HardState`, `LogRefinement` and `RuntimeWrites`, and of `Replication`
under the first leader. Left:

1. `SegmentedLog`: I/O errors of rotation and removal.
2. `RaftReplication`: committed entries over a second election, with voters that
   restarted at position 0; proofs beyond the first leader, once the code rejects
   conflicting entries and steps down in the reject path.
