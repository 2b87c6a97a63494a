---------------------------- MODULE ModbusMaster ----------------------------
(***************************************************************************)
(* A Modbus master of mb.c: one thread polls the slaves of the master in   *)
(* turn and writes queued output values, one transaction per task; other   *)
(* threads queue values with write_schedule().                             *)
(*                                                                         *)
(* Times are the ticks left until a time is reached (0 = reached), so the  *)
(* model runs for ever.  A transaction lasts up to the response timeout;   *)
(* it succeeds, is answered with an exception, is not answered, or ends in *)
(* an error of the link.  The number queued for a value is the count of    *)
(* its write_schedule() calls.                                             *)
(***************************************************************************)
EXTENDS Integers, Sequences

CONSTANTS
  NumSlaves,
  NumBlocks,       \* slave -> number of input blocks
  Outs,            \* slave -> output values, in list order (value_out_head first)
  ReadOutcomes,    \* <<slave, block>> -> possible outcomes of a read
  Register,        \* output value -> register; bitmask values may share one
  WriteOutcomes,   \* output value -> possible outcomes of a write
  Tcp,             \* tcp: a TCP master (else RTU)
  Interval,        \* interval of the slaves
  Separation,      \* separation_time
  Timeout,         \* response timeout
  ReconnectDelay,  \* MASTER_RECONNECT_DELAY_MS
  NoValue,         \* no value is being written
  MaxVersion       \* bound: write_schedule() calls per value

Slaves  == 1..NumSlaves
Values  == UNION {{Outs[s][i] : i \in DOMAIN Outs[s]} : s \in Slaves}
\* How a transaction may end: with a valid answer, an exception of the slave, an
\* answer libmodbus does not accept (a bad CRC; like exceptions from
\* MODBUS_ENOBASE on), no answer, or an error of the connection.
Outcomes == {"ok", "exception", "garbled", "timeout", "ioerror"}

ASSUME MasterConstants ==
  /\ NumSlaves \in Nat \ {0}
  /\ \A s \in Slaves : NumBlocks[s] \in Nat
  /\ \A s \in Slaves : Len(Outs[s]) \in Nat /\ DOMAIN Outs[s] = 1..Len(Outs[s])
  /\ \A s \in Slaves, t \in Slaves : \A i \in DOMAIN Outs[s], j \in DOMAIN Outs[t] :
       Outs[s][i] = Outs[t][j] => s = t /\ i = j
  /\ \A v \in Values : WriteOutcomes[v] \subseteq Outcomes
  /\ NoValue \notin Values
  /\ Tcp \in BOOLEAN
  /\ {Interval, Separation, Timeout, ReconnectDelay, MaxVersion} \subseteq Nat

VARIABLES
  \* MB_MASTER_T
  next_transaction, reconnect, slave_curr_idx,
  \* MB_SLAVE_T
  block_read_idx, value_out_curr, next_poll, next_write,
  \* MB_SLAVE_VAL_T, protected by write_lock
  write_pending, write_value,
  \* valbuf, the local image of a bitmask register: value -> number in it
  image,
  \* the master thread
  pc, cur, queued,   \* value being written and the number taken from the queue
  spent,             \* time since the task read the clock
  \* environment and history
  link,              \* the connection is open
  dev,               \* value -> number in the device
  latest             \* value -> number queued last

timers == <<next_transaction, next_poll, next_write>>
queue  == <<write_pending, write_value>>
taken  == <<cur, queued, image>>
vars == <<timers, reconnect, slave_curr_idx, block_read_idx, value_out_curr,
          queue, pc, taken, spent, link, dev, latest>>

Init ==
  /\ next_transaction = 0
  /\ reconnect = TRUE
  /\ slave_curr_idx = 1
  /\ block_read_idx = [s \in Slaves |-> 1]
  /\ value_out_curr = [s \in Slaves |-> Len(Outs[s]) + 1]   \* NULL
  /\ next_poll = [s \in Slaves |-> 0]
  /\ next_write = [s \in Slaves |-> 0]
  /\ write_pending = [v \in Values |-> FALSE]
  /\ write_value = [v \in Values |-> 0]
  /\ pc = "idle"
  /\ cur = NoValue /\ queued = 0
  /\ image = [v \in Values |-> 0]
  /\ spent = 0
  /\ link = FALSE
  /\ dev = [v \in Values |-> 0]
  /\ latest = [v \in Values |-> 0]

-----------------------------------------------------------------------------
\* write_schedule(), the dispatcher callback of an output value.
WriteSchedule(v) ==
  /\ latest[v] < MaxVersion
  /\ latest' = [latest EXCEPT ![v] = @ + 1]
  /\ write_value' = [write_value EXCEPT ![v] = latest[v] + 1]
  /\ write_pending' = [write_pending EXCEPT ![v] = TRUE]
  /\ UNCHANGED <<timers, reconnect, slave_curr_idx, block_read_idx,
                 value_out_curr, pc, taken, spent, link, dev>>

-----------------------------------------------------------------------------
(***************************************************************************)
(* master_thread() and master_task().                                      *)
(***************************************************************************)

\* The thread may issue a transaction.
TaskDue == pc = "idle" /\ next_transaction = 0

\* master_connect() fails: try again later.
ConnectFails ==
  /\ TaskDue /\ reconnect
  /\ next_transaction' = ReconnectDelay
  /\ UNCHANGED <<reconnect, slave_curr_idx, block_read_idx, value_out_curr,
                 next_poll, next_write, queue, pc, taken, spent, link, dev, latest>>

\* The task goes on to the current slave, after connecting if that is needed.
TaskBegin ==
  /\ TaskDue
  /\ reconnect' = FALSE
  /\ link' = (link \/ reconnect)
  /\ pc' = "task"
  /\ spent' = 0
  /\ UNCHANGED <<timers, slave_curr_idx, block_read_idx, value_out_curr, queue,
                 taken, dev, latest>>

\* slave_task_read() finds a block to read.
BeginRead ==
  LET s == slave_curr_idx IN
  /\ pc = "task"
  /\ next_poll[s] = 0
  /\ block_read_idx[s] <= NumBlocks[s]
  /\ pc' = "reading"
  /\ UNCHANGED <<timers, reconnect, slave_curr_idx, block_read_idx,
                 value_out_curr, queue, taken, spent, link, dev, latest>>

\* slave_task_read() has nothing to read: it is not time to poll, or all
\* blocks are read and the poll timer is set.
ReadIdle(s) ==
  \/ next_poll[s] > 0 /\ UNCHANGED next_poll
  \/ /\ next_poll[s] = 0
     /\ block_read_idx[s] > NumBlocks[s]
     /\ next_poll' = [next_poll EXCEPT ![s] = Interval]

\* Positions of pending values in the rest of the slave's list.
PendingFrom(s) ==
  {i \in value_out_curr[s]..Len(Outs[s]) : write_pending[Outs[s][i]]}

\* slave_task_write() and write_execute(): the next pending value is taken
\* from the queue and put into the image of its register.
BeginWrite ==
  LET s == slave_curr_idx IN
  /\ pc = "task"
  /\ ReadIdle(s)
  /\ next_write[s] = 0
  /\ \E i \in PendingFrom(s) :
       /\ \A j \in PendingFrom(s) : i <= j
       /\ value_out_curr' = [value_out_curr EXCEPT ![s] = i + 1]
       /\ cur' = Outs[s][i]
       /\ queued' = write_value[Outs[s][i]]
       /\ image' = [image EXCEPT ![Outs[s][i]] = write_value[Outs[s][i]]]
       /\ write_pending' = [write_pending EXCEPT ![Outs[s][i]] = FALSE]
  /\ pc' = "writing"
  /\ UNCHANGED <<next_transaction, next_write, reconnect, slave_curr_idx,
                 block_read_idx, write_value, spent, link, dev, latest>>

\* Mutant: the output list is not started anew.
NextSlaveKeepsCurr ==
  LET s == slave_curr_idx IN
  /\ pc = "task"
  /\ ReadIdle(s)
  /\ next_write[s] > 0 \/ PendingFrom(s) = {}
  /\ block_read_idx' = [block_read_idx EXCEPT ![s] = 1]
  /\ slave_curr_idx' = IF s < NumSlaves THEN s + 1 ELSE 1
  /\ pc' = "idle"
  /\ UNCHANGED <<next_transaction, next_write, reconnect, value_out_curr, queue, taken, spent,
                 link, dev, latest>>

\* Nothing to write either, or writes pause after a failed one: on to the
\* next slave.
NextSlave ==
  LET s == slave_curr_idx IN
  /\ pc = "task"
  /\ ReadIdle(s)
  /\ next_write[s] > 0 \/ PendingFrom(s) = {}
  /\ block_read_idx' = [block_read_idx EXCEPT ![s] = 1]
  /\ value_out_curr' = [value_out_curr EXCEPT ![s] = 1]
  /\ slave_curr_idx' = IF s < NumSlaves THEN s + 1 ELSE 1
  /\ pc' = "idle"
  /\ UNCHANGED <<next_transaction, next_write, reconnect, queue, taken, spent,
                 link, dev, latest>>

\* A transaction has ended; separation time before the next one.
EndTransaction ==
  /\ pc' = "idle"
  /\ next_transaction' = Separation
  /\ spent' = 0

\* link_error(): the connection is closed, unless an RTU slave just does not
\* answer.  Exceptions and answers that are not accepted do not get here.
LinkError(o) ==
  IF o \in {"timeout", "ioerror"} /\ (Tcp \/ o # "timeout")
  THEN reconnect' = TRUE /\ link' = FALSE
  ELSE UNCHANGED <<reconnect, link>>

\* Mutant: a block answered with an exception is read again.
EndReadStays(o) ==
  LET s == slave_curr_idx IN
  /\ pc = "reading"
  /\ o \in ReadOutcomes[<<s, block_read_idx[s]>>]
  /\ block_read_idx' = [block_read_idx EXCEPT ![s] = IF o = "exception" THEN @ ELSE @ + 1]
  /\ next_poll' = IF o \in {"timeout", "ioerror"}
                  THEN [next_poll EXCEPT ![s] = IF spent < Interval THEN Interval - spent ELSE 0]
                  ELSE next_poll
  /\ LinkError(o)
  /\ EndTransaction
  /\ UNCHANGED <<next_write, slave_curr_idx, value_out_curr, queue, taken, dev,
                 latest>>

\* The read ends.  The block index advances always; without an answer the
\* remaining blocks wait for the next poll (counted from the task's start).
EndRead(o) ==
  LET s == slave_curr_idx IN
  /\ pc = "reading"
  /\ o \in ReadOutcomes[<<s, block_read_idx[s]>>]
  /\ block_read_idx' = [block_read_idx EXCEPT ![s] = @ + 1]
  /\ next_poll' = IF o \in {"timeout", "ioerror"}
                  THEN [next_poll EXCEPT ![s] = IF spent < Interval THEN Interval - spent ELSE 0]
                  ELSE next_poll
  /\ LinkError(o)
  /\ EndTransaction
  /\ UNCHANGED <<next_write, slave_curr_idx, value_out_curr, queue, taken, dev,
                 latest>>

\* Mutant: every bitmask value has an image of its own.
WrittenOwn ==
  [v \in Values |-> IF v = cur THEN queued ELSE IF Register[v] = Register[cur] THEN 0 ELSE dev[v]]

\* What a write leaves in the device: the whole register is written, with the
\* other bits from the shared image.
Written ==
  [v \in Values |-> IF Register[v] = Register[cur] THEN image[v] ELSE dev[v]]

\* The write succeeds; libmodbus fails on a connection that is closed.
WriteOk ==
  /\ pc = "writing" /\ link
  /\ "ok" \in WriteOutcomes[cur]
  /\ dev' = Written
  /\ cur' = NoValue /\ queued' = 0 /\ UNCHANGED image
  /\ EndTransaction
  /\ UNCHANGED <<next_poll, next_write, reconnect, slave_curr_idx,
                 block_read_idx, value_out_curr, queue, link, latest>>

\* Mutant: the failed value replaces one queued meanwhile.
WriteFailsOver(o) ==
  LET s == slave_curr_idx IN
  /\ pc = "writing"
  /\ o \in WriteOutcomes[cur] \ {"ok"}
  /\ dev' = dev \/ (o # "exception" /\ dev' = Written)
  /\ write_value' = [write_value EXCEPT ![cur] = queued]
  /\ write_pending' = [write_pending EXCEPT ![cur] = TRUE]
  /\ next_write' = [next_write EXCEPT ![s] = Interval]
  /\ cur' = NoValue /\ queued' = 0 /\ UNCHANGED image
  /\ LinkError(o)
  /\ EndTransaction
  /\ UNCHANGED <<next_poll, slave_curr_idx, block_read_idx, value_out_curr,
                 latest>>

\* The write fails: the value is queued again unless a newer one is, and the
\* slave's writes pause.  A write without a valid answer may have been done.
WriteFails(o) ==
  LET s == slave_curr_idx IN
  /\ pc = "writing"
  /\ o \in WriteOutcomes[cur] \ {"ok"}
  /\ dev' = dev \/ (o # "exception" /\ dev' = Written)
  /\ IF write_pending[cur] THEN UNCHANGED queue
     ELSE /\ write_value' = [write_value EXCEPT ![cur] = queued]
          /\ write_pending' = [write_pending EXCEPT ![cur] = TRUE]
  /\ next_write' = [next_write EXCEPT ![s] = Interval]
  /\ cur' = NoValue /\ queued' = 0 /\ UNCHANGED image
  /\ LinkError(o)
  /\ EndTransaction
  /\ UNCHANGED <<next_poll, slave_curr_idx, block_read_idx, value_out_curr,
                 latest>>

\* master_shutdown(): the thread ends between two tasks.
Shutdown ==
  /\ pc = "idle"
  /\ pc' = "stopped"
  /\ UNCHANGED <<timers, reconnect, slave_curr_idx, block_read_idx,
                 value_out_curr, queue, taken, spent, link, dev, latest>>

Stopped == pc = "stopped" /\ UNCHANGED vars

-----------------------------------------------------------------------------
Less(t) == IF t > 0 THEN t - 1 ELSE 0

InTransaction == pc \in {"reading", "writing"}

\* Time passes: between tasks, and during a transaction up to its timeout.
Tick ==
  /\ pc = "idle" \/ (InTransaction /\ spent < Timeout)
  /\ next_transaction' = Less(next_transaction)
  /\ next_poll' = [s \in Slaves |-> Less(next_poll[s])]
  /\ next_write' = [s \in Slaves |-> Less(next_write[s])]
  /\ spent' = IF InTransaction THEN spent + 1 ELSE spent
  /\ UNCHANGED <<reconnect, slave_curr_idx, block_read_idx, value_out_curr,
                 queue, pc, taken, link, dev, latest>>

Task == TaskBegin \/ BeginRead \/ BeginWrite \/ NextSlave

EndWrite == WriteOk \/ \E o \in Outcomes : WriteFails(o)

Next ==
  \/ \E v \in Values : WriteSchedule(v)
  \/ ConnectFails
  \/ Task
  \/ \E o \in Outcomes : EndRead(o)
  \/ EndWrite
  \/ Shutdown \/ Stopped
  \/ Tick

Spec == Init /\ [][Next]_vars

\* The thread is scheduled and transactions end (libmodbus returns after its
\* response timeout); the thread sleeps after every pass, so time passes
\* although it never rests.  A connection that can be made and a write that
\* can succeed does so some time; nothing forces values to be queued.
Fairness ==
  /\ WF_vars(Task) /\ SF_vars(TaskBegin)
  /\ WF_vars(\E o \in Outcomes : EndRead(o))
  /\ WF_vars(EndWrite)
  /\ \A v \in Values : SF_vars(cur = v /\ WriteOk)
  /\ SF_vars(Tick)

FairSpec == Spec /\ Fairness

-----------------------------------------------------------------------------
Versions == 0..MaxVersion

ControlType ==
  /\ reconnect \in BOOLEAN /\ link \in BOOLEAN
  /\ pc \in {"idle", "task", "reading", "writing", "stopped"}
  /\ slave_curr_idx \in Slaves

TimerType ==
  /\ next_transaction \in Nat
  /\ next_poll \in [Slaves -> 0..Interval] /\ next_write \in [Slaves -> 0..Interval]
  /\ spent \in 0..Timeout

CursorType ==
  /\ block_read_idx \in [Slaves -> Nat] /\ value_out_curr \in [Slaves -> Nat]
  /\ \A s \in Slaves : block_read_idx[s] >= 1 /\ block_read_idx[s] <= NumBlocks[s] + 1
  /\ \A s \in Slaves : value_out_curr[s] >= 1 /\ value_out_curr[s] <= Len(Outs[s]) + 1

QueueType ==
  /\ write_pending \in [Values -> BOOLEAN]
  /\ write_value \in [Values -> Versions] /\ image \in [Values -> Versions]
  /\ dev \in [Values -> Versions] /\ latest \in [Values -> Versions]
  /\ cur \in Values \cup {NoValue} /\ queued \in Versions

TypeOK == ControlType /\ TimerType /\ CursorType /\ QueueType

\* The newest value of an output is never lost: it is in the device, in the
\* queue, or in the write under way, whatever fails and whenever a newer one
\* is queued.
NoWriteLost ==
  \A v \in Values :
    \/ dev[v] = latest[v]
    \/ write_pending[v] /\ write_value[v] = latest[v]
    \/ cur = v /\ queued = latest[v]

\* The device never gets an older number than it has, for any value: not by
\* a retry, not by a write that failed half, and not by the write of another
\* bit of the same register (write_execute(), valbuf).
DeviceNeverGoesBack == [][\A v \in Values : dev'[v] >= dev[v]]_vars

\* Blocks behind no block that leaves the slave's requests unanswered.
Reachable(s, b) ==
  \A a \in 1..(b - 1) : ReadOutcomes[<<s, a>>] \subseteq {"ok", "exception", "garbled"}

\* Every such block is read again and again: neither a block answered with
\* an exception nor a dead slave on the same master starves it.
BlocksAreServed ==
  \A s \in Slaves : \A b \in 1..NumBlocks[s] :
    Reachable(s, b) =>
      []<>((pc = "reading" /\ slave_curr_idx = s /\ block_read_idx[s] = b)
             \/ pc = "stopped")

\* A queued value reaches a device that accepts it, even if the device
\* refuses other values.
AcceptedIsWritten ==
  \A v \in Values :
    "ok" \in WriteOutcomes[v] =>
      (write_pending[v] ~> (dev[v] = latest[v] \/ pc = "stopped"))
=============================================================================
