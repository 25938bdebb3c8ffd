------------------------------ MODULE Runtime ------------------------------
(***************************************************************************)
(* The life of client writes in one process: the client transport          *)
(* (src/src/grpc/client_transport.rs) encodes a command into a pooled      *)
(* buffer and sends it to the runtime task through a bounded channel; the  *)
(* task (src/src/raft/runtime.rs) tracks it in its operation table, drives *)
(* the Raft core and the executor in turns, and answers on a one-shot      *)
(* channel.  The task runs one drive cycle at a time; the cycle is split   *)
(* into its handler and executor steps so that the process can die between *)
(* any two of them.                                                        *)
(*                                                                         *)
(* The log is the append log that SegmentedLog implements, with first      *)
(* offset 1 and sync_writes.  The messages that elect a leader do not      *)
(* reach the runtime yet, so the role changes from outside, between two    *)
(* drive cycles.                                                           *)
(***************************************************************************)
EXTENDS Naturals, Sequences, SequencesExt

CONSTANTS
    Client,   \* the clients; each writes one command, named after it
    Large,    \* those whose command exceeds the capacity of a new buffer
    Zeros,    \* what a resized buffer is filled with
    Peers,    \* the nodes that may be voters besides this one
    Capacity, \* capacity of the runtime's channel
    IoErrors, \* whether Log::append and Log::read may fail
    FsmErrors,\* whether FSM::apply may fail
    MayCrash  \* whether the process may die

ASSUME RuntimeAssumption ==
    /\ Large \subseteq Client /\ Zeros \notin Client
    /\ Capacity \in Nat \ {0}
    /\ IoErrors \in BOOLEAN /\ FsmErrors \in BOOLEAN /\ MayCrash \in BOOLEAN

VARIABLES
    peers,             \* the other voters, given to Runtime::new
    role, last_log_index, commit_index, last_applied,  \* the core
    log,               \* the persistent log: entries of client and command
    fsm,               \* indexes applied since the process started
    operations,        \* operation table: OperationId -> client, buffer
    next_operation_id,
    drive,             \* the event or effect the drive loop is at
    running,           \* FALSE after shutdown
    channel,           \* messages sent to the runtime
    reply,             \* what each client knows of its write
    held,              \* the buffer a client has filled and not yet sent
    pool               \* buffers free for reuse

coreVars   == <<peers, role, last_log_index, commit_index, last_applied>>
clientVars == <<channel, held>>
vars == <<coreVars, log, fsm, operations, next_operation_id, drive, running,
          clientVars, reply, pool>>

Buffer  == Seq(Client \cup {Zeros})  \* what was put into it, in order
Message == [client : Client, data : Buffer]
Operation == [client : Client, data : Buffer]  \* Operation::Write
Entry   == [client : Client, command : Buffer]
NoData  == <<>>                 \* Operation::Write with data: None

Idle == [at |-> "Idle", op |-> 0, index |-> 0, through |-> 0]

(* What a client knows of its write; "err" stands for every kind of Error, *)
(* and "lost" for the end of the process.                                  *)
Reply == {"none", "waiting", "ok", "err", "lost"}

At(step, op) == [Idle EXCEPT !.at = step, !.op = op]

TypeOK ==
    /\ peers \subseteq Peers
    /\ role \in {"Follower", "Leader"}
    /\ last_log_index \in Nat /\ commit_index \in Nat /\ last_applied \in Nat
    /\ log \in Seq(Entry)
    /\ fsm \in Seq(Nat)
    /\ next_operation_id \in Nat
    /\ DOMAIN operations \subseteq 1..(next_operation_id - 1)
    /\ \A op \in DOMAIN operations : operations[op] \in Operation
    /\ drive \in [at : {"Idle", "Write", "AppendLocal", "LocalEntriesAppended",
                        "ApplyCommitted", "EntriesApplied"},
                  op : Nat, index : Nat, through : Nat]
    /\ running \in BOOLEAN
    /\ channel \in Seq(Message)
    /\ reply \in [Client -> Reply]
    /\ held \in [Client -> Buffer]
    /\ pool \in Seq(Buffer)

-----------------------------------------------------------------------------
(* ClientTransport::new: buffers that nobody has used yet are not told     *)
(* apart from the ones that pull_owned makes when the pool is empty.       *)
NewPool == <<>>

(* Runtime::new on a directory that holds the given log: always a follower *)
(* with nothing committed and nothing applied.                             *)
Boot(entries) ==
    /\ UNCHANGED peers
    /\ role' = "Follower"
    /\ last_log_index' = 0 /\ commit_index' = 0 /\ last_applied' = 0
    /\ log' = entries
    /\ fsm' = <<>>
    /\ operations' = <<>>
    /\ next_operation_id' = 1
    /\ drive' = Idle
    /\ running' = TRUE
    /\ channel' = <<>>
    /\ held' = [c \in Client |-> <<>>]
    /\ pool' = NewPool

Init ==
    /\ peers \in SUBSET Peers
    /\ role = "Follower"
    /\ last_log_index = 0 /\ commit_index = 0 /\ last_applied = 0
    /\ log = <<>>
    /\ fsm = <<>>
    /\ operations = <<>>
    /\ next_operation_id = 1
    /\ drive = Idle
    /\ running = TRUE
    /\ channel = <<>>
    /\ reply = [c \in Client |-> "none"]
    /\ held = [c \in Client |-> <<>>]
    /\ pool = NewPool

-----------------------------------------------------------------------------
(* The client transport.                                                   *)

(* pull_owned takes a free buffer, as its last user left it, or makes one. *)
Pulled == IF pool = <<>> THEN <<>> ELSE Last(pool)

(* resize makes the buffer as long as the command when that exceeds its    *)
(* capacity; a buffer that was used before may have grown.                 *)
Fill(c) ==
    (IF c \in Large THEN {<<Zeros>>} ELSE {}) \cup
    (IF c \in Large /\ pool = <<>> THEN {} ELSE {<<>>})

(* encode appends the command to what the buffer holds.                    *)
write_encode(c) ==
    /\ reply[c] = "none" /\ held[c] = <<>>
    /\ \E fill \in Fill(c) :
          held' = [held EXCEPT ![c] = Append(Pulled \o fill, c)]
    /\ pool' = IF pool = <<>> THEN pool ELSE Front(pool)
    /\ UNCHANGED <<coreVars, log, fsm, operations, next_operation_id, drive,
                   running, channel, reply>>

(* tx.send waits for room in the channel; it fails once the runtime is     *)
(* gone, and the buffer goes back to the pool.                             *)
write_send(c) ==
    /\ held[c] # <<>>
    /\ held' = [held EXCEPT ![c] = <<>>]
    /\ \/ /\ running
          /\ Len(channel) < Capacity
          /\ channel' = Append(channel, [client |-> c, data |-> held[c]])
          /\ reply' = [reply EXCEPT ![c] = "waiting"]
          /\ UNCHANGED pool
       \/ /\ ~running
          /\ reply' = [reply EXCEPT ![c] = "err"]
          /\ pool' = Append(pool, held[c])
          /\ UNCHANGED channel
    /\ UNCHANGED <<coreVars, log, fsm, operations, next_operation_id, drive,
                   running>>

-----------------------------------------------------------------------------
(* The operation table.                                                    *)

Without(op) == [o \in DOMAIN operations \ {op} |-> operations[o]]

(* The table when AppendLocal comes to the log: the operation has given    *)
(* up its buffer and is back in the table before anything can fail.        *)
TakenOut(op) == Without(op)
PutBack(op) == [operations EXCEPT ![op].data = NoData]

(* handle_message after an error: fail_operation takes the operation out   *)
(* of the table, the error goes to its client, and a buffer it still holds *)
(* returns to the pool.                                                    *)
IgnoreError(op, table, free) ==
    /\ drive' = Idle
    /\ operations' = table
    /\ pool' = free
    /\ UNCHANGED reply
fail_operation(op, table, free) ==
    /\ drive' = Idle
    /\ operations' = [o \in DOMAIN table \ {op} |-> table[o]]
    /\ reply' = [reply EXCEPT ![table[op].client] = "err"]
    /\ pool' = IF table[op].data = NoData THEN free
               ELSE Append(free, table[op].data)

-----------------------------------------------------------------------------
(* The runtime task: handle_message and the drive loop.                    *)

(* The counter before it is advanced.                                      *)
AdvancedId == next_operation_id + 1
IssuedId == next_operation_id

handle_message ==
    /\ running /\ drive = Idle /\ channel # <<>>
    /\ operations' = [op \in DOMAIN operations \cup {IssuedId} |->
                        IF op = IssuedId THEN Head(channel)
                                         ELSE operations[op]]
    /\ next_operation_id' = next_operation_id + 1
    /\ channel' = Tail(channel)
    /\ drive' = At("Write", IssuedId)
    /\ UNCHANGED <<coreVars, log, fsm, running, held, reply, pool>>

handle_write ==
    /\ drive.at = "Write"
    /\ IF role = "Leader"
       THEN /\ drive' = [drive EXCEPT !.at = "AppendLocal"]
            /\ UNCHANGED <<operations, reply, pool>>
       ELSE fail_operation(drive.op, operations, pool)
    /\ UNCHANGED <<coreVars, log, fsm, next_operation_id, running, clientVars>>

(* The buffer becomes the command of the entry and returns to the pool     *)
(* with what it holds.                                                     *)
execute_append_local ==
    LET op    == operations[drive.op]
        entry == [client |-> op.client, command |-> op.data]
    IN  /\ drive.at = "AppendLocal"
        /\ operations' = PutBack(drive.op)
        /\ pool' = Append(pool, op.data)
        /\ log' = Append(log, entry)
        /\ drive' = [drive EXCEPT !.at = "LocalEntriesAppended",
                                  !.index = Len(log) + 1]
        /\ UNCHANGED <<coreVars, fsm, next_operation_id, running, clientVars,
                       reply>>

(* Log::append fails: without a trace, or after the record was stored      *)
(* (the segment that follows could not be created).                        *)
execute_append_local_fails ==
    LET op    == operations[drive.op]
        entry == [client |-> op.client, command |-> op.data]
    IN  /\ IoErrors
        /\ drive.at = "AppendLocal"
        /\ log' \in {log, Append(log, entry)}
        /\ fail_operation(drive.op, PutBack(drive.op), Append(pool, op.data))
        /\ UNCHANGED <<coreVars, fsm, next_operation_id, running, clientVars>>

(* Where the loop of ApplyCommitted starts.                                *)
NewestEntry == drive.index
FirstUnapplied == last_applied + 1

(* A sole voter commits at once; with peers the effect SendAppendEntries   *)
(* ends the cycle and the operation stays in the table.                    *)
handle_local_entry_appended ==
    /\ drive.at = "LocalEntriesAppended"
    /\ last_log_index' = drive.index
    /\ \/ /\ peers = {}
          /\ commit_index' = drive.index
          /\ drive' = [drive EXCEPT !.at = "ApplyCommitted",
                                    !.index = FirstUnapplied,
                                    !.through = drive.index]
       \/ /\ peers # {}
          /\ drive' = Idle
          /\ UNCHANGED commit_index
    /\ UNCHANGED <<peers, role, last_applied, log, fsm, operations,
                   next_operation_id, running, clientVars, reply, pool>>

(* The loop over first_unapplied..=through.                                *)
MoreToApplyExclusive == drive.index < drive.through
MoreToApply == drive.index <= drive.through

(* FSM::apply of the entry at an index.                                    *)
apply(index) == fsm' = Append(fsm, index)

execute_apply_one ==
    /\ drive.at = "ApplyCommitted" /\ MoreToApply
    /\ apply(drive.index)
    /\ drive' = [drive EXCEPT !.index = @ + 1]
    /\ UNCHANGED <<coreVars, log, operations, next_operation_id, running,
                   clientVars, reply, pool>>

(* The entry cannot be read, or the FSM refuses it.                        *)
execute_apply_fails ==
    /\ IoErrors \/ FsmErrors
    /\ drive.at = "ApplyCommitted" /\ MoreToApply
    /\ fail_operation(drive.op, operations, pool)
    /\ UNCHANGED <<coreVars, log, fsm, next_operation_id, running, clientVars>>

execute_apply_done ==
    /\ drive.at = "ApplyCommitted" /\ ~MoreToApply
    /\ drive' = [drive EXCEPT !.at = "EntriesApplied"]
    /\ UNCHANGED <<coreVars, log, fsm, operations, next_operation_id, running,
                   clientVars, reply, pool>>

(* Effect::CompleteOperation.                                              *)
complete_operation(op) ==
    /\ operations' = Without(op)
    /\ reply' = [reply EXCEPT ![operations[op].client] = "ok"]

(* On a leader the client gets its answer.                                 *)
handle_entries_applied ==
    /\ drive.at = "EntriesApplied"
    /\ last_applied' = drive.through
    /\ IF role = "Leader"
       THEN complete_operation(drive.op)
       ELSE UNCHANGED <<operations, reply>>
    /\ drive' = Idle
    /\ UNCHANGED <<peers, role, last_log_index, commit_index, log, fsm,
                   next_operation_id, running, clientVars, pool>>

(* The node wins or loses an election between two drive cycles.            *)
role_changes ==
    /\ running /\ drive = Idle
    /\ role' \in {"Follower", "Leader"} \ {role}
    /\ UNCHANGED <<peers, last_log_index, commit_index, last_applied, log, fsm,
                   operations, next_operation_id, drive, running, clientVars,
                   reply, pool>>

-----------------------------------------------------------------------------
(* The end of the task and of the process.                                 *)

(* The loop sees the cancelled token between two messages: the channel and *)
(* the operation table are dropped, and with them the reply senders.       *)
shutdown ==
    /\ running /\ drive = Idle
    /\ running' = FALSE
    /\ channel' = <<>>
    /\ operations' = <<>>
    /\ reply' = [c \in Client |-> IF reply[c] = "waiting" THEN "err"
                                                          ELSE reply[c]]
    /\ pool' = pool \o [i \in DOMAIN channel |-> channel[i].data]
    /\ UNCHANGED <<coreVars, log, fsm, next_operation_id, drive, held>>

(* The process dies and is started again; open calls are cut off.          *)
crash ==
    /\ MayCrash
    /\ Boot(log)
    /\ reply' = [c \in Client |->
          IF reply[c] = "waiting" \/ held[c] # <<>> THEN "lost" ELSE reply[c]]

-----------------------------------------------------------------------------
TaskStep ==
    \/ handle_message
    \/ handle_write
    \/ execute_append_local
    \/ execute_append_local_fails
    \/ handle_local_entry_appended
    \/ execute_apply_one
    \/ execute_apply_fails
    \/ execute_apply_done
    \/ handle_entries_applied

Next ==
    \/ \E c \in Client : write_encode(c) \/ write_send(c)
    \/ TaskStep
    \/ role_changes
    \/ shutdown
    \/ crash

Spec == Init /\ [][Next]_vars

(* The task is polled as long as it can go on.                             *)
FairSpec == Spec /\ WF_vars(TaskStep)

-----------------------------------------------------------------------------
(* Properties.                                                             *)

(* The task never panics for want of its operation: while an event or      *)
(* effect of an operation is under way the table holds that operation, and *)
(* until AppendLocal it holds the command as well (the expect calls of     *)
(* Effect::AppendLocal and get_operation).                                 *)
OperationIsPresent ==
    drive # Idle =>
        /\ drive.op \in DOMAIN operations
        /\ drive.at \in {"Write", "AppendLocal"} =>
               operations[drive.op].data # NoData

(* Between two drive cycles the table holds only writes that are in the    *)
(* log and wait for the peers, never one that no later event can complete: *)
(* no error path leaks an operation with its reply sender and its buffer.  *)
NoOperationLeaks ==
    \A op \in DOMAIN operations \ {drive.op} :
        /\ peers # {}
        /\ operations[op].data = NoData
        /\ \E i \in DOMAIN log : log[i].client = operations[op].client

(* An entry reaches the FSM only after all entries before it, also when    *)
(* an apply failed in between or the process was restarted.                *)
AppliedAfterPredecessors ==
    \A k \in DOMAIN fsm : \A i \in 1..(fsm[k] - 1) :
        \E j \in 1..(k - 1) : fsm[j] = i

(* A client gets Ok only when its own entry has been applied by the FSM    *)
(* (ApplyCommitted comes before CompleteOperation).                        *)
OkMeansApplied ==
    [][\A c \in Client : reply[c] # "ok" /\ reply'[c] = "ok" =>
         \E k \in DOMAIN fsm : log[fsm[k]].client = c]_vars

(* Every write sent to a sole voter is answered, with success, with an     *)
(* error or by the end of the runtime (handle_message, fail_operation).    *)
EveryWriteIsAnswered ==
    \A c \in Client :
        peers = {} /\ reply[c] = "waiting" ~> reply[c] # "waiting"

(* FSM::apply is called in index order: it never goes back to an entry     *)
(* below one that it has already applied.                                  *)
AppliedInIndexOrder ==
    \A j, k \in DOMAIN fsm : j < k => fsm[j] <= fsm[k]

(* The command that is applied for a client is the command it sent.        *)
CommandIsClients ==
    \A k \in DOMAIN fsm : log[fsm[k]].command = <<log[fsm[k]].client>>
=============================================================================
