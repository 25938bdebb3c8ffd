---------------------------- MODULE RuntimeProof ----------------------------
(***************************************************************************)
(* Theorems about Runtime, for every set of clients and peers, every       *)
(* channel capacity and every choice of failures.                          *)
(***************************************************************************)
EXTENDS Runtime, SequenceTheorems, TLAPS

(* What TypeOK leaves out and the proofs need: ids start at 1, and a       *)
(* drive loop at rest is Idle in all its fields.                           *)
Shape ==
    /\ next_operation_id >= 1
    /\ drive.at = "Idle" => drive = Idle
    /\ drive.at # "Idle" => running

(* Every buffer on its way to the runtime holds a command.                 *)
MessagesHaveData ==
    \A i \in DOMAIN channel : channel[i].data # NoData

(* Only a leader gets beyond the Write event; the role does not change     *)
(* within a drive cycle.                                                   *)
OnlyLeadersAppend ==
    drive.at \notin {"Idle", "Write"} => role = "Leader"

(* Once AppendLocal is done, the entry of the operation under way is in    *)
(* the log at the index that will be committed.                            *)
EntryOfOperation(index) ==
    /\ index \in DOMAIN log
    /\ log[index].client = operations[drive.op].client
    /\ operations[drive.op].data = NoData

OwnEntryIsLogged ==
    /\ drive.at = "LocalEntriesAppended" => EntryOfOperation(drive.index)
    /\ drive.at \in {"ApplyCommitted", "EntriesApplied"} =>
           peers = {} /\ EntryOfOperation(drive.through)

(* A history of applies has all entries up to an index; the FSM's has.     *)
Covers(history, index) ==
    \A i \in 1..index : \E k \in DOMAIN history : history[k] = i
AppliedThrough(index) == Covers(fsm, index)

(* The FSM has seen what last_applied claims, and in a loop over the       *)
(* committed entries everything below the loop's index.                    *)
AppliedSoFar ==
    /\ AppliedThrough(last_applied)
    /\ drive.at = "ApplyCommitted" => AppliedThrough(drive.index - 1)
    /\ drive.at = "EntriesApplied" => AppliedThrough(drive.through)

(* The inductive invariant.                                                *)
IInv ==
    /\ TypeOK /\ Shape
    /\ MessagesHaveData
    /\ OperationIsPresent
    /\ OnlyLeadersAppend /\ OwnEntryIsLogged
    /\ NoOperationLeaks
    /\ AppliedSoFar /\ AppliedAfterPredecessors

-----------------------------------------------------------------------------
(* Types.                                                                  *)

(* Every step of a drive loop at rest or under way has a legal position.   *)
Position == [at : {"Idle", "Write", "AppendLocal", "LocalEntriesAppended",
                   "ApplyCommitted", "EntriesApplied"},
             op : Nat, index : Nat, through : Nat]

(* A buffer without commands is a buffer.                                  *)
LEMMA EmptyBuffer == NoData \in Buffer
BY DEF NoData, Buffer

(* Where the drive loop starts with an event of an operation.              *)
LEMMA AtIs ==
    ASSUME NEW step, NEW op
    PROVE  At(step, op) = [at |-> step, op |-> op, index |-> 0, through |-> 0]
<1>1. [Idle EXCEPT !.at = step]
          = [at |-> step, op |-> 0, index |-> 0, through |-> 0]
  BY DEF Idle
<1>2. At(step, op) = [[at |-> step, op |-> 0, index |-> 0, through |-> 0]
                        EXCEPT !.op = op]
  BY <1>1 DEF At
<1> QED BY <1>2

(* The table once an operation has given up its buffer (AppendLocal).      *)
LEMMA PutBackType ==
    ASSUME TypeOK, NEW op \in DOMAIN operations
    PROVE  /\ DOMAIN PutBack(op) = DOMAIN operations
           /\ \A o \in DOMAIN operations : PutBack(op)[o] \in Operation
           /\ PutBack(op)[op].data = NoData
           /\ \A o \in DOMAIN operations :
                 PutBack(op)[o].client = operations[o].client
           /\ \A o \in DOMAIN operations \ {op} :
                 PutBack(op)[o] = operations[o]
<1> DEFINE emptied == [operations[op] EXCEPT !.data = NoData]
<1>1. operations[op] \in Operation
  BY DEF TypeOK
<1>2. /\ emptied = [client |-> operations[op].client, data |-> NoData]
      /\ emptied \in Operation
  BY <1>1, EmptyBuffer DEF Operation
<1>3. PutBack(op) = [operations EXCEPT ![op] = emptied]
  BY DEF PutBack
<1> HIDE DEF emptied
<1>4. /\ DOMAIN PutBack(op) = DOMAIN operations
      /\ PutBack(op)[op] = emptied
      /\ \A o \in DOMAIN operations \ {op} : PutBack(op)[o] = operations[o]
  BY <1>3
<1>5. \A o \in DOMAIN operations : operations[o] \in Operation
  BY DEF TypeOK
<1>6. emptied.client = operations[op].client /\ emptied.data = NoData
  BY <1>2
<1> QED
  BY <1>2, <1>4, <1>5, <1>6

(* fail_operation keeps the types of the table, the replies, the pool and  *)
(* the drive loop.                                                         *)
LEMMA FailType ==
    ASSUME TypeOK, NEW table, NEW op \in DOMAIN table, NEW free \in Seq(Buffer),
           DOMAIN table = DOMAIN operations,
           \A o \in DOMAIN table : table[o] \in Operation,
           fail_operation(op, table, free)
    PROVE  /\ DOMAIN operations' = DOMAIN operations \ {op}
           /\ \A o \in DOMAIN operations' :
                 operations'[o] = table[o] /\ operations'[o] \in Operation
           /\ reply' \in [Client -> Reply]
           /\ pool' \in Seq(Buffer)
           /\ drive' = Idle
<1>1. table[op].client \in Client /\ table[op].data \in Buffer
  BY DEF Operation
<1>2. reply' \in [Client -> Reply]
  BY <1>1 DEF TypeOK, fail_operation, Reply
<1>3. pool' \in Seq(Buffer)
  BY <1>1 DEF fail_operation
<1> QED
  BY <1>2, <1>3 DEF fail_operation

(* The drive loop's resting position is a position.                        *)
LEMMA IdleType == Idle \in Position
BY DEF Idle, Position

(* What the handlers that move the drive loop to an index make of it.      *)
LEMMA ExceptIndex ==
    ASSUME NEW d \in Position, NEW step, NEW index
    PROVE  [d EXCEPT !.at = step, !.index = index]
             = [at |-> step, op |-> d.op, index |-> index,
                through |-> d.through]
<1>1. [d EXCEPT !.at = step] = [at |-> step, op |-> d.op, index |-> d.index,
                                through |-> d.through]
  BY DEF Position
<1>2. [d EXCEPT !.at = step, !.index = index]
          = [[at |-> step, op |-> d.op, index |-> d.index,
              through |-> d.through] EXCEPT !.index = index]
  BY <1>1
<1> QED BY <1>2

(* What changing three fields of a position of the drive loop gives.       *)
LEMMA ExceptThrough ==
    ASSUME NEW d \in Position, NEW step, NEW index, NEW through
    PROVE  [d EXCEPT !.at = step, !.index = index, !.through = through]
             = [at |-> step, op |-> d.op, index |-> index,
                through |-> through]
<1>1. [d EXCEPT !.at = step, !.index = index]
          = [at |-> step, op |-> d.op, index |-> index, through |-> d.through]
  BY ExceptIndex
<1>2. [d EXCEPT !.at = step, !.index = index, !.through = through]
          = [[at |-> step, op |-> d.op, index |-> index,
              through |-> d.through] EXCEPT !.through = through]
  BY <1>1
<1> QED BY <1>2

(* Every step keeps the types.                                             *)
LEMMA TypeStep ==
    ASSUME IInv, Next
    PROVE  TypeOK' /\ Shape'
<1> USE DEF IInv
<1>0. drive \in Position
  BY DEF TypeOK, Position
<1>t. /\ channel \in Seq(Message) /\ pool \in Seq(Buffer)
      /\ reply \in [Client -> Reply] /\ held \in [Client -> Buffer]
      /\ log \in Seq(Entry) /\ fsm \in Seq(Nat)
      /\ \A o \in DOMAIN operations : operations[o] \in Operation
  BY DEF TypeOK
<1>1. ASSUME NEW c \in Client, write_encode(c)
      PROVE  TypeOK' /\ Shape'
  <2>1. pool # <<>> => Last(pool) \in Buffer /\ Front(pool) \in Seq(Buffer)
    BY DEF TypeOK, Last, Front
  <2>2. PICK fill \in Fill(c) :
            held' = [held EXCEPT ![c] = Append(Pulled \o fill, c)]
    BY <1>1 DEF write_encode
  <2>3. Pulled \in Buffer /\ fill \in Buffer
    <3>1. Pulled \in Buffer
      BY <2>1, EmptyBuffer DEF Pulled, NoData
    <3>2. <<Zeros>> \in Buffer /\ <<>> \in Buffer
      BY EmptyBuffer DEF Buffer, NoData
    <3>3. fill \in {<<Zeros>>, <<>>}
      BY DEF Fill
    <3> QED BY <3>1, <3>2, <3>3
  <2>4. Append(Pulled \o fill, c) \in Buffer
    <3>1. Pulled \o fill \in Buffer
      BY <2>3 DEF Buffer
    <3> QED BY <3>1 DEF Buffer
  <2>5. held' \in [Client -> Buffer] /\ pool' \in Seq(Buffer)
    BY <1>1, <1>t, <2>1, <2>2, <2>4 DEF write_encode
  <2> QED
    BY <1>1, <2>5 DEF write_encode, TypeOK, Shape, coreVars
<1>2. ASSUME NEW c \in Client, write_send(c)
      PROVE  TypeOK' /\ Shape'
  <2> DEFINE m == [client |-> c, data |-> held[c]]
  <2>1. held[c] \in Buffer /\ m \in Message
    BY <1>t DEF Message
  <2>2. /\ channel' \in {channel, Append(channel, m)}
        /\ pool' \in {pool, Append(pool, held[c])}
        /\ \/ reply' = [reply EXCEPT ![c] = "waiting"]
           \/ reply' = [reply EXCEPT ![c] = "err"]
        /\ held' = [held EXCEPT ![c] = NoData]
    BY <1>2 DEF write_send, NoData
  <2> HIDE DEF m
  <2>3. channel' \in Seq(Message) /\ pool' \in Seq(Buffer)
    <3>1. Append(channel, m) \in Seq(Message)
      BY <1>t, <2>1
    <3>2. Append(pool, held[c]) \in Seq(Buffer)
      BY <1>t, <2>1
    <3> QED BY <1>t, <2>2, <3>1, <3>2, Zenon
  <2>4. held' \in [Client -> Buffer] /\ reply' \in [Client -> Reply]
    BY <1>t, <2>2, EmptyBuffer DEF Reply
  <2> QED
    BY <1>2, <2>3, <2>4 DEF write_send, TypeOK, Shape, coreVars
<1>3. CASE handle_message
  <2>1. Head(channel) \in Operation /\ channel' \in Seq(Message)
    <3>1. channel # <<>> /\ channel' = Tail(channel)
      BY <1>3 DEF handle_message
    <3>2. Head(channel) \in Message /\ Tail(channel) \in Seq(Message)
      BY <1>t, <3>1
    <3> QED
      BY <3>1, <3>2 DEF Message, Operation
  <2>2. drive' \in Position /\ drive'.at = "Write"
    BY <1>3, AtIs DEF handle_message, Position, IssuedId, TypeOK
  <2>3. /\ DOMAIN operations' \subseteq 1..(next_operation_id' - 1)
        /\ next_operation_id' \in Nat /\ next_operation_id' >= 1
    BY <1>3 DEF handle_message, TypeOK, Shape, IssuedId
  <2>4. \A o \in DOMAIN operations' : operations'[o] \in Operation
    BY <1>3, <1>t, <2>1 DEF handle_message
  <2> QED
    BY <1>3, <2>1, <2>2, <2>3, <2>4
    DEF handle_message, TypeOK, Shape, coreVars, Position
<1>4. CASE handle_write
  <2>1. drive # Idle /\ drive.op \in DOMAIN operations
    BY <1>4 DEF handle_write, Idle, OperationIsPresent
  <2>2. CASE role = "Leader"
    <3>1. drive' \in Position /\ drive'.at = "AppendLocal" /\ running
      BY <1>0, <1>4, <2>2 DEF handle_write, Position, Shape
    <3> QED
      BY <1>4, <2>2, <3>1
      DEF handle_write, TypeOK, Shape, coreVars, clientVars, Position
  <2>3. CASE role # "Leader"
    <3>1. fail_operation(drive.op, operations, pool)
      BY <1>4, <2>3 DEF handle_write
    <3>2. /\ DOMAIN operations' \subseteq DOMAIN operations
          /\ \A o \in DOMAIN operations' : operations'[o] \in Operation
          /\ reply' \in [Client -> Reply] /\ pool' \in Seq(Buffer)
          /\ drive' = Idle
      BY <2>1, <3>1, FailType DEF TypeOK
    <3> QED
      BY <1>4, <2>3, <3>2, IdleType
      DEF handle_write, TypeOK, Shape, coreVars, clientVars, Position, Idle
  <2> QED BY <2>2, <2>3
<1>5. CASE execute_append_local
  <2>1. drive.op \in DOMAIN operations
    BY <1>5 DEF execute_append_local, Idle, OperationIsPresent
  <2> DEFINE data == operations[drive.op].data
             entry == [client |-> operations[drive.op].client,
                       command |-> data]
  <2>2. data \in Buffer /\ entry \in Entry
    BY <1>t, <2>1 DEF Operation, Entry
  <2>3. /\ pool' = Append(pool, data) /\ log' = Append(log, entry)
        /\ operations' = PutBack(drive.op)
        /\ drive' = [drive EXCEPT !.at = "LocalEntriesAppended",
                                  !.index = Len(log) + 1]
    BY <1>5 DEF execute_append_local
  <2> HIDE DEF data, entry
  <2>4. pool' \in Seq(Buffer) /\ log' \in Seq(Entry)
    BY <1>t, <2>2, <2>3
  <2>5. /\ DOMAIN operations' \subseteq DOMAIN operations
        /\ \A o \in DOMAIN operations' : operations'[o] \in Operation
    BY <2>1, <2>3, PutBackType
  <2>6. drive' \in Position /\ drive'.at = "LocalEntriesAppended"
    <3>1. drive' = [at |-> "LocalEntriesAppended", op |-> drive.op,
                    index |-> Len(log) + 1, through |-> drive.through]
      BY <1>0, <2>3, ExceptIndex
    <3>2. Len(log) \in Nat
      BY <1>t
    <3> QED
      BY <1>0, <3>1, <3>2 DEF Position
  <2> QED
    BY <1>5, <2>4, <2>5, <2>6
    DEF execute_append_local, TypeOK, Shape, coreVars, clientVars, Position
<1>6. CASE execute_append_local_fails
  <2>1. drive.op \in DOMAIN operations
    BY <1>6 DEF execute_append_local_fails, Idle, OperationIsPresent
  <2> DEFINE data == operations[drive.op].data
             entry == [client |-> operations[drive.op].client,
                       command |-> data]
  <2>2. data \in Buffer /\ entry \in Entry
    BY <1>t, <2>1 DEF Operation, Entry
  <2>3. /\ log' \in {log, Append(log, entry)}
        /\ fail_operation(drive.op, PutBack(drive.op), Append(pool, data))
    BY <1>6 DEF execute_append_local_fails
  <2> HIDE DEF data, entry
  <2>4. Append(pool, data) \in Seq(Buffer) /\ log' \in Seq(Entry)
    <3>1. Append(pool, data) \in Seq(Buffer)
      BY <1>t, <2>2
    <3>2. Append(log, entry) \in Seq(Entry)
      BY <1>t, <2>2
    <3> QED BY <1>t, <2>3, <3>1, <3>2, Zenon
  <2>5. /\ DOMAIN operations' \subseteq DOMAIN operations
        /\ \A o \in DOMAIN operations' : operations'[o] \in Operation
        /\ reply' \in [Client -> Reply] /\ pool' \in Seq(Buffer)
        /\ drive' = Idle
    BY <2>1, <2>3, <2>4, PutBackType, FailType
  <2> QED
    BY <1>6, <2>4, <2>5, IdleType
    DEF execute_append_local_fails, TypeOK, Shape, coreVars, clientVars,
        Position, Idle
<1>7. CASE handle_local_entry_appended
  <2> DEFINE loop == [at |-> "ApplyCommitted", op |-> drive.op,
                      index |-> last_applied + 1, through |-> drive.index]
  <2>0. drive' \in {loop, Idle} /\ running
    BY <1>0, <1>7, ExceptThrough
    DEF handle_local_entry_appended, Shape, FirstUnapplied
  <2>1. /\ drive' \in Position /\ running
        /\ drive'.at = "Idle" => drive' = Idle
    BY <1>0, <2>0, IdleType DEF Position, TypeOK
  <2>2. last_log_index' \in Nat /\ commit_index' \in Nat
    BY <1>0, <1>7 DEF handle_local_entry_appended, TypeOK, Position
  <2> QED
    BY <1>7, <2>1, <2>2
    DEF handle_local_entry_appended, TypeOK, Shape, clientVars, Position
<1>8. CASE execute_apply_one
  <2>1. drive' \in Position /\ drive'.at = "ApplyCommitted" /\ running
    BY <1>0, <1>8 DEF execute_apply_one, Position, Shape
  <2>2. fsm' \in Seq(Nat)
    BY <1>0, <1>8, <1>t DEF execute_apply_one, apply, Position
  <2> QED
    BY <1>8, <2>1, <2>2
    DEF execute_apply_one, TypeOK, Shape, coreVars, clientVars, Position
<1>9. CASE execute_apply_fails
  <2>1. drive.op \in DOMAIN operations
    BY <1>9 DEF execute_apply_fails, Idle, OperationIsPresent
  <2>2. fail_operation(drive.op, operations, pool)
    BY <1>9 DEF execute_apply_fails
  <2>3. /\ DOMAIN operations' \subseteq DOMAIN operations
        /\ \A o \in DOMAIN operations' : operations'[o] \in Operation
        /\ reply' \in [Client -> Reply] /\ pool' \in Seq(Buffer)
        /\ drive' = Idle
    BY <1>t, <2>1, <2>2, FailType
  <2> QED
    BY <1>9, <2>3, IdleType
    DEF execute_apply_fails, TypeOK, Shape, coreVars, clientVars, Position,
        Idle
<1>10. CASE execute_apply_done
  <2>1. drive' \in Position /\ drive'.at = "EntriesApplied" /\ running
    BY <1>0, <1>10 DEF execute_apply_done, Position, Shape
  <2> QED
    BY <1>10, <2>1
    DEF execute_apply_done, TypeOK, Shape, coreVars, clientVars, Position
<1>11. CASE handle_entries_applied
  <2>1. drive.op \in DOMAIN operations
    BY <1>11 DEF handle_entries_applied, Idle, OperationIsPresent
  <2>2. operations[drive.op].client \in Client
    BY <1>t, <2>1 DEF Operation
  <2>3. /\ DOMAIN operations' \subseteq DOMAIN operations
        /\ \A o \in DOMAIN operations' : operations'[o] = operations[o]
    BY <1>11, <1>t DEF handle_entries_applied, complete_operation, Without
  <2>5. reply' \in [Client -> Reply]
    BY <1>11, <1>t, <2>2 DEF handle_entries_applied, complete_operation, Reply
  <2>4. last_applied' \in Nat
    BY <1>0, <1>11 DEF handle_entries_applied, Position
  <2> QED
    BY <1>11, <1>t, <2>3, <2>4, <2>5, IdleType
    DEF handle_entries_applied, TypeOK, Shape, clientVars, Position, Idle
<1>12. CASE role_changes
  BY <1>12 DEF role_changes, TypeOK, Shape, clientVars
<1>13. CASE shutdown
  <2>1. reply' \in [Client -> Reply]
    BY <1>13, <1>t DEF shutdown, Reply
  <2> DEFINE dropped == [i \in DOMAIN channel |-> channel[i].data]
  <2>2. pool' = pool \o dropped
    BY <1>13 DEF shutdown
  <2>3. dropped \in Seq(Buffer)
    <3>1. \A i \in DOMAIN channel : channel[i] \in Message
      BY <1>t
    <3>2. Len(channel) \in Nat /\ DOMAIN channel = 1..Len(channel)
      BY <1>t
    <3> QED
      BY <3>1, <3>2, IsASeq DEF Message
  <2>4. pool' \in Seq(Buffer)
    <3> HIDE DEF dropped
    <3> QED BY <1>t, <2>2, <2>3
  <2>5. /\ channel' = <<>> /\ operations' = <<>> /\ running' = FALSE
        /\ drive = Idle /\ drive' = drive
        /\ UNCHANGED <<coreVars, log, fsm, next_operation_id, held>>
    BY <1>13 DEF shutdown
  <2>6. channel' \in Seq(Message) /\ DOMAIN operations' = {}
    BY <2>5
  <2> QED
    BY <2>1, <2>4, <2>5, <2>6
    DEF TypeOK, Shape, coreVars, Idle
<1>14. CASE crash
  <2>1. reply' \in [Client -> Reply] /\ held' \in [Client -> Buffer]
    BY <1>14, <1>t, EmptyBuffer DEF crash, Boot, Reply, NoData
  <2>2. channel' \in Seq(Message) /\ pool' \in Seq(Buffer) /\ fsm' \in Seq(Nat)
        /\ DOMAIN operations' = {}
    BY <1>14 DEF crash, Boot, NewPool
  <2> QED
    BY <1>14, <2>1, <2>2, IdleType
    DEF crash, Boot, TypeOK, Shape, Position, Idle
<1> QED
  BY <1>1, <1>2, <1>3, <1>4, <1>5, <1>6, <1>7, <1>8, <1>9, <1>10, <1>11,
     <1>12, <1>13, <1>14 DEF Next, TaskStep

-----------------------------------------------------------------------------
(* The drive loop and the operation table.                                 *)

(* The resting position belongs to no operation.                           *)
LEMMA IdleIs == Idle.at = "Idle" /\ Idle.op = 0
BY DEF Idle

(* What each step of the task does to the drive loop: it goes on with the  *)
(* same operation, or comes to rest.                                       *)
LEMMA DriveMoves ==
    ASSUME IInv
    PROVE  /\ handle_message => drive'.at = "Write" /\ drive'.op = IssuedId
           /\ execute_append_local =>
                /\ drive'.at = "LocalEntriesAppended" /\ drive'.op = drive.op
                /\ drive'.index = Len(log) + 1
           /\ handle_local_entry_appended =>
                \/ /\ peers = {} /\ drive'.at = "ApplyCommitted"
                   /\ drive'.op = drive.op /\ drive'.index = last_applied + 1
                   /\ drive'.through = drive.index
                \/ peers # {} /\ drive' = Idle
           /\ execute_apply_one =>
                /\ drive'.at = "ApplyCommitted" /\ drive'.op = drive.op
                /\ drive'.index = drive.index + 1
                /\ drive'.through = drive.through
           /\ execute_apply_done =>
                /\ drive'.at = "EntriesApplied" /\ drive'.op = drive.op
                /\ drive'.through = drive.through
           /\ handle_write /\ role = "Leader" =>
                drive'.at = "AppendLocal" /\ drive'.op = drive.op
<1>0. drive \in Position
  BY DEF IInv, TypeOK, Position
<1>1. handle_message => drive'.at = "Write" /\ drive'.op = IssuedId
  BY AtIs DEF handle_message
<1>2. ASSUME execute_append_local
      PROVE  /\ drive'.at = "LocalEntriesAppended" /\ drive'.op = drive.op
             /\ drive'.index = Len(log) + 1
  <2>1. drive' = [drive EXCEPT !.at = "LocalEntriesAppended",
                               !.index = Len(log) + 1]
    BY <1>2 DEF execute_append_local
  <2>2. drive' = [at |-> "LocalEntriesAppended", op |-> drive.op,
                  index |-> Len(log) + 1, through |-> drive.through]
    BY <1>0, <2>1, ExceptIndex
  <2> QED BY <2>2
<1>3. ASSUME handle_local_entry_appended, peers = {}
      PROVE  /\ drive'.at = "ApplyCommitted" /\ drive'.op = drive.op
             /\ drive'.index = last_applied + 1
             /\ drive'.through = drive.index
  <2>1. drive' = [drive EXCEPT !.at = "ApplyCommitted",
                               !.index = last_applied + 1,
                               !.through = drive.index]
    BY <1>3 DEF handle_local_entry_appended, FirstUnapplied
  <2>2. drive' = [at |-> "ApplyCommitted", op |-> drive.op,
                  index |-> last_applied + 1, through |-> drive.index]
    BY <1>0, <2>1, ExceptThrough
  <2> QED BY <2>2
<1>4. handle_local_entry_appended /\ peers # {} => drive' = Idle
  BY DEF handle_local_entry_appended
<1>5. ASSUME execute_apply_one
      PROVE  /\ drive'.at = "ApplyCommitted" /\ drive'.op = drive.op
             /\ drive'.index = drive.index + 1
             /\ drive'.through = drive.through
  BY <1>0, <1>5 DEF execute_apply_one, Position
<1>6. ASSUME execute_apply_done
      PROVE  /\ drive'.at = "EntriesApplied" /\ drive'.op = drive.op
             /\ drive'.through = drive.through
  BY <1>0, <1>6 DEF execute_apply_done, Position
<1>7. ASSUME handle_write, role = "Leader"
      PROVE  drive'.at = "AppendLocal" /\ drive'.op = drive.op
  BY <1>0, <1>7 DEF handle_write, Position
<1> QED
  BY <1>1, <1>2, <1>3, <1>4, <1>5, <1>6, <1>7

(* What each step leaves in the operation table.                           *)
LEMMA TableMoves ==
    ASSUME IInv
    PROVE  /\ (\/ handle_write /\ role # "Leader"
               \/ execute_append_local_fails
               \/ execute_apply_fails
               \/ handle_entries_applied) =>
                   /\ drive' = Idle
                   /\ DOMAIN operations' = DOMAIN operations \ {drive.op}
                   /\ \A o \in DOMAIN operations' :
                         operations'[o] = operations[o]
           /\ execute_append_local =>
                   /\ DOMAIN operations' = DOMAIN operations
                   /\ operations'[drive.op].client
                         = operations[drive.op].client
                   /\ operations'[drive.op].data = NoData
                   /\ \A o \in DOMAIN operations \ {drive.op} :
                         operations'[o] = operations[o]
           /\ handle_message =>
                   /\ DOMAIN operations' = DOMAIN operations \cup {IssuedId}
                   /\ operations'[IssuedId] = Head(channel)
                   /\ \A o \in DOMAIN operations \ {IssuedId} :
                         operations'[o] = operations[o]
<1> USE DEF IInv
<1>0. drive.at # "Idle" => drive.op \in DOMAIN operations
  BY DEF OperationIsPresent, Idle
<1>t. \A o \in DOMAIN operations : operations[o] \in Operation
  BY DEF TypeOK
<1>1. ASSUME \/ handle_write /\ role # "Leader"
             \/ execute_apply_fails
      PROVE  /\ drive' = Idle
             /\ DOMAIN operations' = DOMAIN operations \ {drive.op}
             /\ \A o \in DOMAIN operations' : operations'[o] = operations[o]
  BY <1>1 DEF handle_write, execute_apply_fails, fail_operation
<1>2. ASSUME execute_append_local_fails
      PROVE  /\ drive' = Idle
             /\ DOMAIN operations' = DOMAIN operations \ {drive.op}
             /\ \A o \in DOMAIN operations' : operations'[o] = operations[o]
  <2>1. drive.op \in DOMAIN operations
    BY <1>0, <1>2 DEF execute_append_local_fails
  <2>2. /\ drive' = Idle
        /\ operations' = [o \in DOMAIN PutBack(drive.op) \ {drive.op} |->
                             PutBack(drive.op)[o]]
    BY <1>2 DEF execute_append_local_fails, fail_operation
  <2>3. /\ DOMAIN PutBack(drive.op) = DOMAIN operations
        /\ \A o \in DOMAIN operations \ {drive.op} :
              PutBack(drive.op)[o] = operations[o]
    BY <2>1, PutBackType
  <2> QED BY <2>2, <2>3
<1>3. ASSUME handle_entries_applied
      PROVE  /\ drive' = Idle
             /\ DOMAIN operations' = DOMAIN operations \ {drive.op}
             /\ \A o \in DOMAIN operations' : operations'[o] = operations[o]
  <2>1. role = "Leader"
    BY <1>3 DEF handle_entries_applied, OnlyLeadersAppend
  <2> QED
    BY <1>3, <2>1 DEF handle_entries_applied, complete_operation, Without
<1>4. ASSUME execute_append_local
      PROVE  /\ DOMAIN operations' = DOMAIN operations
             /\ operations'[drive.op].client = operations[drive.op].client
             /\ operations'[drive.op].data = NoData
             /\ \A o \in DOMAIN operations \ {drive.op} :
                   operations'[o] = operations[o]
  <2>1. drive.op \in DOMAIN operations
    BY <1>0, <1>4 DEF execute_append_local
  <2>2. operations' = PutBack(drive.op)
    BY <1>4 DEF execute_append_local
  <2> QED BY <2>1, <2>2, PutBackType
<1>5. ASSUME handle_message
      PROVE  /\ DOMAIN operations' = DOMAIN operations \cup {IssuedId}
             /\ operations'[IssuedId] = Head(channel)
             /\ \A o \in DOMAIN operations \ {IssuedId} :
                   operations'[o] = operations[o]
  BY <1>5 DEF handle_message
<1> QED
  BY <1>1, <1>2, <1>3, <1>4, <1>5

(* Steps that touch neither the drive loop nor the operation table.        *)
LEMMA QuietSteps ==
    ASSUME \/ \E c \in Client : write_encode(c) \/ write_send(c)
           \/ role_changes
           \/ UNCHANGED vars
    PROVE  UNCHANGED <<peers, last_applied, log, fsm, operations, drive>>
BY DEF write_encode, write_send, role_changes, vars, coreVars

(* A drive loop under way has its operation.                               *)
LEMMA UnderWay ==
    ASSUME IInv, drive.at # "Idle"
    PROVE  drive # Idle /\ drive.op \in DOMAIN operations
BY DEF IInv, OperationIsPresent, Idle

(* No step takes the operation under way out of the table, and a message   *)
(* that reaches the drive loop brings its command.                         *)
LEMMA PresenceStep ==
    ASSUME IInv, Next
    PROVE  OperationIsPresent' /\ MessagesHaveData'
<1> USE DEF IInv
<1>t. channel \in Seq(Message)
  BY DEF TypeOK
<1>1. ASSUME NEW c \in Client, write_encode(c) \/ write_send(c)
      PROVE  OperationIsPresent' /\ MessagesHaveData'
  <2>1. UNCHANGED <<operations, drive>>
    BY <1>1, QuietSteps
  <2>2. OperationIsPresent'
    BY <2>1 DEF OperationIsPresent
  <2> DEFINE m == [client |-> c, data |-> held[c]]
  <2>3. CASE channel' = channel
    BY <2>2, <2>3 DEF MessagesHaveData
  <2>4. CASE channel' = Append(channel, m) /\ m.data # NoData
    <3>1. m \in Message
      BY DEF TypeOK, Message
    <3> HIDE DEF m
    <3>2. \A i \in DOMAIN channel' :
             \/ i \in DOMAIN channel /\ channel'[i] = channel[i]
             \/ channel'[i] = m
      BY <1>t, <2>4, <3>1
    <3> QED
      BY <2>2, <2>4, <3>2 DEF MessagesHaveData
  <2> QED
    BY <1>1, <2>3, <2>4 DEF write_encode, write_send, NoData
<1>2. CASE handle_message
  <2>1. channel # <<>> /\ channel' = Tail(channel)
    BY <1>2 DEF handle_message
  <2>2. Head(channel).data # NoData
    BY <1>t, <2>1 DEF MessagesHaveData
  <2>3. MessagesHaveData'
    BY <1>t, <2>1 DEF MessagesHaveData
  <2> QED
    BY <1>2, <2>2, <2>3, DriveMoves, TableMoves DEF OperationIsPresent
<1>3. CASE handle_write
  <2>1. UNCHANGED channel /\ drive.at = "Write"
    BY <1>3 DEF handle_write, clientVars
  <2>2. CASE role = "Leader"
    <3>1. UNCHANGED operations
      BY <1>3, <2>2 DEF handle_write
    <3> QED
      BY <1>3, <2>1, <2>2, <3>1, DriveMoves, UnderWay
      DEF OperationIsPresent, MessagesHaveData
  <2>3. CASE role # "Leader"
    BY <1>3, <2>1, <2>3, TableMoves DEF OperationIsPresent, MessagesHaveData
  <2> QED BY <2>2, <2>3
<1>4. CASE execute_append_local
  <2>1. UNCHANGED channel /\ drive.at = "AppendLocal"
    BY <1>4 DEF execute_append_local, clientVars
  <2> QED
    BY <1>4, <2>1, DriveMoves, TableMoves, UnderWay
    DEF OperationIsPresent, MessagesHaveData
<1>5. CASE \/ execute_append_local_fails
           \/ execute_apply_fails
           \/ handle_entries_applied
  <2>1. UNCHANGED channel
    BY <1>5 DEF execute_append_local_fails, execute_apply_fails,
                handle_entries_applied, clientVars
  <2> QED
    BY <1>5, <2>1, TableMoves DEF OperationIsPresent, MessagesHaveData
<1>6. CASE \/ handle_local_entry_appended
           \/ execute_apply_one
           \/ execute_apply_done
  <2>1. UNCHANGED <<channel, operations>> /\ drive.at # "Idle"
    BY <1>6 DEF handle_local_entry_appended, execute_apply_one,
                execute_apply_done, clientVars
  <2> QED
    BY <1>6, <2>1, DriveMoves, UnderWay
    DEF OperationIsPresent, MessagesHaveData
<1>7. CASE role_changes
  BY <1>7 DEF role_changes, clientVars, OperationIsPresent, MessagesHaveData
<1>8. CASE shutdown \/ crash
  <2>1. drive' = Idle /\ channel' = <<>>
    BY <1>8 DEF shutdown, crash, Boot
  <2> QED
    BY <2>1 DEF OperationIsPresent, MessagesHaveData
<1> QED
  BY <1>1, <1>2, <1>3, <1>4, <1>5, <1>6, <1>7, <1>8 DEF Next, TaskStep

(* Only a leader appends, and what it commits for an operation is the      *)
(* entry of that operation.                                                *)
LEMMA LoggedStep ==
    ASSUME IInv, Next
    PROVE  OnlyLeadersAppend' /\ OwnEntryIsLogged'
<1> USE DEF IInv
<1>t. log \in Seq(Entry)
  BY DEF TypeOK
<1>1. CASE \E c \in Client : write_encode(c) \/ write_send(c)
  <2>1. UNCHANGED <<peers, log, operations, drive>>
    BY <1>1, QuietSteps
  <2>2. UNCHANGED role
    BY <1>1 DEF write_encode, write_send, coreVars
  <2> QED
    BY <2>1, <2>2 DEF OnlyLeadersAppend, OwnEntryIsLogged, EntryOfOperation
<1>2. CASE handle_message
  BY <1>2, DriveMoves DEF OnlyLeadersAppend, OwnEntryIsLogged
<1>3. CASE handle_write
  <2>1. role = "Leader" => drive'.at = "AppendLocal"
    BY <1>3, DriveMoves
  <2>2. role # "Leader" => drive'.at = "Idle"
    BY <1>3, TableMoves, IdleIs
  <2>3. UNCHANGED role
    BY <1>3 DEF handle_write, coreVars
  <2> QED
    BY <2>1, <2>2, <2>3 DEF OnlyLeadersAppend, OwnEntryIsLogged
<1>4. CASE execute_append_local
  <2> DEFINE entry == [client |-> operations[drive.op].client,
                       command |-> operations[drive.op].data]
  <2>1. UNCHANGED role /\ drive.at = "AppendLocal"
        /\ log' = Append(log, entry)
    BY <1>4 DEF execute_append_local, coreVars
  <2>2. drive.op \in DOMAIN operations
    BY <2>1, UnderWay
  <2>3. entry \in Entry /\ entry.client = operations[drive.op].client
    BY <2>2 DEF TypeOK, Operation, Entry
  <2> HIDE DEF entry
  <2>4. Len(log) + 1 \in DOMAIN log' /\ log'[Len(log) + 1] = entry
    BY <1>t, <2>1, <2>3
  <2> QED
    BY <1>4, <2>1, <2>3, <2>4, DriveMoves, TableMoves
    DEF OnlyLeadersAppend, OwnEntryIsLogged, EntryOfOperation
<1>5. CASE \/ execute_append_local_fails
           \/ execute_apply_fails
           \/ handle_entries_applied
           \/ shutdown
           \/ crash
  <2>1. drive'.at = "Idle"
    BY <1>5, TableMoves, IdleIs DEF shutdown, crash, Boot
  <2> QED
    BY <2>1 DEF OnlyLeadersAppend, OwnEntryIsLogged
<1>6. CASE \/ handle_local_entry_appended
           \/ execute_apply_one
           \/ execute_apply_done
  <2>1. UNCHANGED <<peers, role, log, operations>>
    BY <1>6 DEF handle_local_entry_appended, execute_apply_one,
                execute_apply_done, coreVars
  <2>2. handle_local_entry_appended => drive.at = "LocalEntriesAppended"
    BY DEF handle_local_entry_appended
  <2>3. execute_apply_one \/ execute_apply_done =>
           drive.at = "ApplyCommitted"
    BY DEF execute_apply_one, execute_apply_done
  <2> QED
    BY <1>6, <2>1, <2>2, <2>3, DriveMoves, IdleIs
    DEF OnlyLeadersAppend, OwnEntryIsLogged, EntryOfOperation
<1>7. CASE role_changes
  <2>1. drive.at = "Idle" /\ UNCHANGED drive
    BY <1>7, IdleIs DEF role_changes
  <2> QED
    BY <2>1 DEF OnlyLeadersAppend, OwnEntryIsLogged
<1> QED
  BY <1>1, <1>2, <1>3, <1>4, <1>5, <1>6, <1>7 DEF Next, TaskStep

(* The log of one process only grows (Log::append, and a restart that      *)
(* opens what is there).                                                   *)
LEMMA LogGrows ==
    ASSUME IInv, Next
    PROVE  \A i \in DOMAIN log : i \in DOMAIN log' /\ log'[i] = log[i]
<1>t. log \in Seq(Entry)
  BY DEF IInv, TypeOK
<1>1. CASE execute_append_local \/ execute_append_local_fails
  <2> DEFINE entry == [client |-> operations[drive.op].client,
                       command |-> operations[drive.op].data]
  <2>1. log' = log \/ log' = Append(log, entry)
    BY <1>1 DEF execute_append_local, execute_append_local_fails
  <2>2. drive.op \in DOMAIN operations
    BY <1>1, UnderWay DEF execute_append_local, execute_append_local_fails
  <2>3. entry \in Entry
    BY <2>2 DEF IInv, TypeOK, Operation, Entry
  <2> HIDE DEF entry
  <2>4. CASE log' = log
    BY <2>4
  <2>5. CASE log' = Append(log, entry)
    BY <1>t, <2>3, <2>5
  <2> QED BY <2>1, <2>4, <2>5
<1>2. CASE UNCHANGED log
  BY <1>2
<1> QED
  BY <1>1, <1>2 DEF Next, TaskStep, write_encode, write_send, handle_message,
     handle_write, handle_local_entry_appended, execute_apply_one,
     execute_apply_fails, execute_apply_done, handle_entries_applied,
     role_changes, shutdown, crash, Boot

(* No step leaves an operation behind that no later event can complete.    *)
LEMMA LeakStep ==
    ASSUME IInv, Next
    PROVE  NoOperationLeaks'
<1> USE DEF IInv
<1>p. UNCHANGED peers
  BY DEF Next, TaskStep, write_encode, write_send, handle_message,
     handle_write, execute_append_local, execute_append_local_fails,
     handle_local_entry_appended, execute_apply_one, execute_apply_fails,
     execute_apply_done, handle_entries_applied, role_changes, shutdown, crash,
     Boot, coreVars
<1> DEFINE Waits(o) == /\ peers # {}
                       /\ operations[o].data = NoData
                       /\ \E i \in DOMAIN log :
                             log[i].client = operations[o].client
<1>q. \A o : Waits(o) /\ operations'[o] = operations[o] =>
           /\ peers' # {}
           /\ operations'[o].data = NoData
           /\ \E i \in DOMAIN log' : log'[i].client = operations'[o].client
  BY <1>p, LogGrows
<1>r. \A o \in DOMAIN operations \ {drive.op} : Waits(o)
  BY DEF NoOperationLeaks
<1> HIDE DEF Waits
<1>0. 0 \notin DOMAIN operations
  BY DEF TypeOK
<1>1. ASSUME \A o \in DOMAIN operations' \ {drive'.op} :
                /\ o \in DOMAIN operations \ {drive.op}
                /\ operations'[o] = operations[o]
      PROVE  NoOperationLeaks'
  BY <1>1, <1>q, <1>r DEF NoOperationLeaks
<1>2. CASE \/ \E c \in Client : write_encode(c) \/ write_send(c)
           \/ role_changes
  BY <1>1, <1>2, QuietSteps
<1>3. CASE handle_message
  <2>1. drive.op = 0
    BY <1>3, IdleIs DEF handle_message
  <2> QED
    BY <1>0, <1>1, <1>3, <2>1, DriveMoves, TableMoves
<1>4. CASE \/ handle_write /\ role = "Leader"
           \/ execute_apply_one
           \/ execute_apply_done
  <2>1. drive'.op = drive.op
    BY <1>4, DriveMoves
  <2>2. UNCHANGED operations
    BY <1>4 DEF handle_write, execute_apply_one, execute_apply_done
  <2> QED
    BY <1>1, <2>1, <2>2
<1>5. CASE execute_append_local
  BY <1>1, <1>5, DriveMoves, TableMoves
<1>6. CASE \/ handle_write /\ role # "Leader"
           \/ execute_append_local_fails
           \/ execute_apply_fails
           \/ handle_entries_applied
  BY <1>1, <1>6, TableMoves
<1>7. CASE handle_local_entry_appended
  <2>1. drive.at = "LocalEntriesAppended" /\ UNCHANGED operations
    BY <1>7 DEF handle_local_entry_appended
  <2>2. CASE peers = {}
    <3>1. drive'.op = drive.op
      BY <1>7, <2>2, DriveMoves
    <3> QED BY <1>1, <2>1, <3>1
  <2>3. CASE peers # {}
    <3>1. Waits(drive.op)
      BY <2>1, <2>3 DEF OwnEntryIsLogged, EntryOfOperation, Waits
    <3>2. \A o \in DOMAIN operations : Waits(o)
      BY <1>r, <3>1
    <3> QED
      BY <1>q, <2>1, <3>2 DEF NoOperationLeaks
  <2> QED BY <2>2, <2>3
<1>8. CASE shutdown \/ crash
  <2>1. operations' = <<>>
    BY <1>8 DEF shutdown, crash, Boot
  <2> QED
    BY <2>1 DEF NoOperationLeaks
<1> QED
  BY <1>2, <1>3, <1>4, <1>5, <1>6, <1>7, <1>8 DEF Next, TaskStep

-----------------------------------------------------------------------------
(* The order of applies.                                                   *)

(* A history in which every entry comes after all entries before it.       *)
Ordered(history) ==
    \A k \in DOMAIN history : \A i \in 1..(history[k] - 1) :
        \E j \in 1..(k - 1) : history[j] = i

(* Applying the entry that follows those already applied keeps the order.  *)
LEMMA ApplyNext ==
    ASSUME NEW h \in Seq(Nat), NEW index \in Nat, Covers(h, index - 1),
           Ordered(h)
    PROVE  /\ Covers(Append(h, index), index)
           /\ Ordered(Append(h, index))
           /\ \A i \in Nat : Covers(h, i) => Covers(Append(h, index), i)
<1> DEFINE g == Append(h, index)
<1>1. /\ DOMAIN h = 1..Len(h) /\ Len(h) \in Nat
      /\ DOMAIN g = 1..(Len(h) + 1)
      /\ \A k \in DOMAIN h : g[k] = h[k]
      /\ g[Len(h) + 1] = index
  OBVIOUS
<1> HIDE DEF g
<1>2. \A i \in Nat : Covers(h, i) => Covers(g, i)
  <2> SUFFICES ASSUME NEW i \in Nat, Covers(h, i), NEW j \in 1..i
               PROVE  \E k \in DOMAIN g : g[k] = j
    BY DEF Covers
  <2>1. PICK k \in DOMAIN h : h[k] = j
    BY DEF Covers
  <2>2. k \in DOMAIN g /\ g[k] = h[k]
    BY <1>1, <2>1
  <2> QED BY <2>1, <2>2
<1>3. Covers(g, index)
  <2> SUFFICES ASSUME NEW i \in 1..index
               PROVE  \E k \in DOMAIN g : g[k] = i
    BY DEF Covers
  <2>1. CASE i = index
    BY <1>1, <2>1
  <2>2. CASE i \in 1..(index - 1)
    <3>1. PICK k \in DOMAIN h : h[k] = i
      BY <2>2 DEF Covers
    <3>2. k \in DOMAIN g /\ g[k] = h[k]
      BY <1>1, <3>1
    <3> QED BY <3>1, <3>2
  <2> QED BY <2>1, <2>2
<1>4. Ordered(g)
  <2> SUFFICES ASSUME NEW k \in DOMAIN g, NEW i \in 1..(g[k] - 1)
               PROVE  \E j \in 1..(k - 1) : g[j] = i
    BY DEF Ordered
  <2>1. CASE k \in DOMAIN h
    <3>1. i \in 1..(h[k] - 1)
      BY <1>1, <2>1
    <3>2. PICK j \in 1..(k - 1) : h[j] = i
      BY <2>1, <3>1 DEF Ordered
    <3>3. j \in DOMAIN h
      BY <1>1, <2>1
    <3> QED BY <1>1, <3>2, <3>3
  <2>2. CASE k = Len(h) + 1
    <3>1. i \in 1..(index - 1)
      BY <1>1, <2>2
    <3>2. PICK j \in DOMAIN h : h[j] = i
      BY <3>1 DEF Covers
    <3> QED BY <1>1, <2>2, <3>2
  <2> QED
    BY <1>1, <2>1, <2>2
<1> QED BY <1>2, <1>3, <1>4 DEF g

(* Every step keeps what last_applied and the apply loop claim, and the    *)
(* order of the applies.                                                   *)
LEMMA AppliedStep ==
    ASSUME IInv, Next
    PROVE  AppliedSoFar' /\ AppliedAfterPredecessors'
<1> USE DEF IInv
<1>t. /\ drive \in Position /\ last_applied \in Nat /\ fsm \in Seq(Nat)
      /\ drive.index \in Nat /\ drive.through \in Nat
  BY DEF TypeOK, Position
<1>o. Ordered(fsm)
  BY DEF AppliedAfterPredecessors, Ordered
<1>1. CASE execute_apply_one
  <2>1. /\ drive.at = "ApplyCommitted" /\ fsm' = Append(fsm, drive.index)
        /\ UNCHANGED last_applied
    BY <1>1 DEF execute_apply_one, apply, coreVars
  <2>2. Covers(fsm, drive.index - 1) /\ Covers(fsm, last_applied)
    BY <2>1 DEF AppliedSoFar, AppliedThrough
  <2>3. /\ Covers(fsm', drive.index) /\ Covers(fsm', last_applied)
        /\ Ordered(fsm')
    BY <1>t, <1>o, <2>1, <2>2, ApplyNext
  <2>4. drive'.at = "ApplyCommitted" /\ drive'.index - 1 = drive.index
    BY <1>1, <1>t, DriveMoves
  <2> QED
    BY <2>1, <2>3, <2>4
    DEF AppliedSoFar, AppliedThrough, AppliedAfterPredecessors, Ordered
<1>2. CASE handle_local_entry_appended
  <2>1. UNCHANGED <<fsm, last_applied>>
    BY <1>2 DEF handle_local_entry_appended
  <2>2. drive'.at = "ApplyCommitted" => drive'.index - 1 = last_applied
    BY <1>2, <1>t, DriveMoves, IdleIs
  <2>3. drive'.at # "EntriesApplied"
    BY <1>2, DriveMoves, IdleIs
  <2> QED
    BY <2>1, <2>2, <2>3
    DEF AppliedSoFar, AppliedThrough, AppliedAfterPredecessors
<1>3. CASE execute_apply_done
  <2>1. /\ UNCHANGED <<fsm, last_applied>>
        /\ drive.at = "ApplyCommitted" /\ ~(drive.index <= drive.through)
    BY <1>3 DEF execute_apply_done, coreVars, MoreToApply
  <2>2. Covers(fsm, drive.index - 1) /\ Covers(fsm, last_applied)
    BY <2>1 DEF AppliedSoFar, AppliedThrough
  <2>3. Covers(fsm, drive.through)
    <3>1. 1..drive.through \subseteq 1..(drive.index - 1)
      BY <1>t, <2>1
    <3> QED BY <2>2, <3>1 DEF Covers
  <2>4. drive'.at = "EntriesApplied" /\ drive'.through = drive.through
    BY <1>3, DriveMoves
  <2> QED
    BY <2>1, <2>2, <2>3, <2>4
    DEF AppliedSoFar, AppliedThrough, AppliedAfterPredecessors
<1>4. CASE handle_entries_applied
  <2>1. /\ UNCHANGED fsm /\ last_applied' = drive.through
        /\ drive.at = "EntriesApplied"
    BY <1>4 DEF handle_entries_applied
  <2>2. drive'.at = "Idle"
    BY <1>4, TableMoves, IdleIs
  <2> QED
    BY <2>1, <2>2 DEF AppliedSoFar, AppliedThrough, AppliedAfterPredecessors
<1>5. CASE \/ \E c \in Client : write_encode(c) \/ write_send(c)
           \/ role_changes
  <2>1. UNCHANGED <<fsm, last_applied, drive>>
    BY <1>5, QuietSteps
  <2> QED
    BY <2>1 DEF AppliedSoFar, AppliedThrough, AppliedAfterPredecessors
<1>6. CASE \/ handle_message
           \/ handle_write
           \/ execute_append_local
           \/ execute_append_local_fails
           \/ execute_apply_fails
           \/ shutdown
  <2>1. UNCHANGED <<fsm, last_applied>>
    BY <1>6 DEF handle_message, handle_write, execute_append_local,
                execute_append_local_fails, execute_apply_fails, shutdown,
                coreVars
  <2>2. drive'.at \notin {"ApplyCommitted", "EntriesApplied"}
    BY <1>6, DriveMoves, TableMoves, IdleIs DEF shutdown
  <2> QED
    BY <2>1, <2>2 DEF AppliedSoFar, AppliedThrough, AppliedAfterPredecessors
<1>7. CASE crash
  <2>1. fsm' = <<>> /\ last_applied' = 0 /\ drive'.at = "Idle"
    BY <1>7, IdleIs DEF crash, Boot
  <2> QED
    BY <2>1
    DEF AppliedSoFar, AppliedThrough, Covers, AppliedAfterPredecessors
<1> QED
  BY <1>1, <1>2, <1>3, <1>4, <1>5, <1>6, <1>7 DEF Next, TaskStep

-----------------------------------------------------------------------------
(* The theorems.                                                           *)

(* The runtime starts in the inductive invariant.                          *)
LEMMA InitIInv == Init => IInv
<1> SUFFICES ASSUME Init PROVE IInv
  OBVIOUS
<1>1. TypeOK
  <2>1. held \in [Client -> Buffer] /\ reply \in [Client -> Reply]
    BY EmptyBuffer DEF Init, Reply, NoData
  <2>2. channel \in Seq(Message) /\ pool \in Seq(Buffer) /\ fsm \in Seq(Nat)
        /\ log \in Seq(Entry) /\ DOMAIN operations = {}
    BY DEF Init, NewPool
  <2> QED
    BY <2>1, <2>2, IdleType DEF Init, TypeOK, Position
<1>2. /\ drive = Idle /\ drive.at = "Idle" /\ DOMAIN operations = {}
      /\ channel = <<>> /\ fsm = <<>> /\ last_applied = 0
  BY IdleIs DEF Init
<1>3. Shape
  BY <1>2 DEF Init, Shape
<1>4. /\ MessagesHaveData /\ OperationIsPresent /\ OnlyLeadersAppend
      /\ OwnEntryIsLogged /\ NoOperationLeaks
  BY <1>2 DEF MessagesHaveData, OperationIsPresent, OnlyLeadersAppend,
              OwnEntryIsLogged, NoOperationLeaks
<1>5. AppliedSoFar /\ AppliedAfterPredecessors
  BY <1>2 DEF AppliedSoFar, AppliedThrough, Covers, AppliedAfterPredecessors
<1> QED
  BY <1>1, <1>3, <1>4, <1>5 DEF IInv

(* Every step of the runtime, its clients and the process keeps it.        *)
LEMMA NextIInv == IInv /\ [Next]_vars => IInv'
<1>1. ASSUME IInv, Next PROVE IInv'
  BY <1>1, TypeStep, PresenceStep, LoggedStep, LeakStep, AppliedStep DEF IInv
<1>2. ASSUME IInv, UNCHANGED vars PROVE IInv'
  <2> USE <1>2 DEF vars, coreVars, clientVars
  <2>1. TypeOK'
    BY DEF IInv, TypeOK
  <2>2. Shape' /\ MessagesHaveData' /\ OperationIsPresent'
    BY DEF IInv, Shape, MessagesHaveData, OperationIsPresent
  <2>3. OnlyLeadersAppend' /\ OwnEntryIsLogged' /\ NoOperationLeaks'
    BY DEF IInv, OnlyLeadersAppend, OwnEntryIsLogged, EntryOfOperation,
           NoOperationLeaks
  <2>4. AppliedSoFar' /\ AppliedAfterPredecessors'
    BY DEF IInv, AppliedSoFar, AppliedThrough, AppliedAfterPredecessors
  <2> QED BY <2>1, <2>2, <2>3, <2>4 DEF IInv
<1> QED BY <1>1, <1>2

(* The invariant holds in every state of the runtime.                      *)
LEMMA AlwaysIInv == Spec => []IInv
BY InitIInv, NextIInv, PTL DEF Spec

(* In every run of the runtime all state has its type: the channel, the    *)
(* operation table with ids below the counter, buffers and replies.        *)
THEOREM TypeCorrect == Spec => []TypeOK
<1>1. IInv => TypeOK
  BY DEF IInv
<1> QED BY <1>1, AlwaysIInv, PTL

(* The expect calls of Effect::AppendLocal and get_operation never panic,  *)
(* whatever fails and whenever the role changes or the process dies.       *)
THEOREM OperationsArePresent == Spec => []OperationIsPresent
<1>1. IInv => OperationIsPresent
  BY DEF IInv
<1> QED BY <1>1, AlwaysIInv, PTL

(* No error path of the drive loop leaks an operation: at rest the table   *)
(* holds only logged writes that wait for peers.                           *)
THEOREM NothingLeaks == Spec => []NoOperationLeaks
<1>1. IInv => NoOperationLeaks
  BY DEF IInv
<1> QED BY <1>1, AlwaysIInv, PTL

(* The FSM never sees an entry before one of its predecessors, although a  *)
(* failed apply makes the loop start again at the first unapplied entry.   *)
THEOREM AppliesInOrder == Spec => []AppliedAfterPredecessors
<1>1. IInv => AppliedAfterPredecessors
  BY DEF IInv
<1> QED BY <1>1, AlwaysIInv, PTL

(* A client that gets Ok finds its own entry among the applied ones.       *)
THEOREM OkOnlyAfterApply == Spec => OkMeansApplied
<1> DEFINE A == \A c \in Client : reply[c] # "ok" /\ reply'[c] = "ok" =>
                  \E k \in DOMAIN fsm : log[fsm[k]].client = c
<1>1. ASSUME IInv, [Next]_vars PROVE A \/ UNCHANGED vars
  <2> SUFFICES ASSUME Next, NEW c \in Client, reply[c] # "ok", reply'[c] = "ok"
               PROVE  \E k \in DOMAIN fsm : log[fsm[k]].client = c
    BY <1>1
  <2> USE <1>1 DEF IInv
  <2>t. reply \in [Client -> Reply]
    BY DEF TypeOK
  <2>1. CASE handle_entries_applied
    <3>1. /\ drive.at = "EntriesApplied"
          /\ \/ reply' = [reply EXCEPT ![operations[drive.op].client] = "ok"]
             \/ reply' = reply
      BY <2>1 DEF handle_entries_applied, complete_operation
    <3>2. c = operations[drive.op].client
      BY <2>t, <3>1
    <3>3. /\ drive.through \in DOMAIN log /\ Covers(fsm, drive.through)
          /\ log[drive.through].client = c
      BY <3>1, <3>2
      DEF OwnEntryIsLogged, EntryOfOperation, AppliedSoFar, AppliedThrough
    <3>4. drive.through \in 1..drive.through
      BY <3>3 DEF TypeOK
    <3> QED
      BY <3>3, <3>4 DEF Covers
  <2>2. CASE \/ handle_write \/ execute_append_local_fails
             \/ execute_apply_fails
    <3>1. \/ reply' = reply
          \/ \E d : reply' = [reply EXCEPT ![d] = "err"]
      BY <2>2 DEF handle_write, execute_append_local_fails,
                  execute_apply_fails, fail_operation
    <3> QED BY <2>t, <3>1
  <2>3. ASSUME NEW d \in Client, write_send(d) PROVE FALSE
    <3>1. \/ reply' = [reply EXCEPT ![d] = "waiting"]
          \/ reply' = [reply EXCEPT ![d] = "err"]
      BY <2>3 DEF write_send
    <3> QED BY <2>t, <3>1
  <2>4. CASE shutdown \/ crash
    <3>1. \A d \in Client : reply'[d] \in {reply[d], "err", "lost"}
      BY <2>4 DEF shutdown, crash
    <3> QED BY <3>1
  <2>5. CASE UNCHANGED reply
    BY <2>5
  <2> QED
    BY <2>1, <2>2, <2>3, <2>4, <2>5
    DEF Next, TaskStep, write_encode, handle_message, execute_append_local,
        handle_local_entry_appended, execute_apply_one, execute_apply_done,
        role_changes
<1>2. [][A]_vars <=> OkMeansApplied
  BY PTL DEF OkMeansApplied
<1>3. IInv /\ [Next]_vars => [A]_vars
  BY <1>1
<1> QED
  BY <1>2, <1>3, AlwaysIInv, PTL DEF Spec
=============================================================================
