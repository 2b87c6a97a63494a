---------------------------- MODULE PollersProofs ----------------------------
(***************************************************************************)
(* Proofs about the threads that poll devices: a Modbus master             *)
(* (ModbusMaster), for any slaves, blocks, outputs and outcomes of         *)
(* transactions, and a JSON connection (RestPoller), for any values,       *)
(* documents and times.                                                    *)
(***************************************************************************)
EXTENDS ModbusMaster, RestPoller, TLAPS

-----------------------------------------------------------------------------
(***************************************************************************)
(* ModbusMaster.                                                           *)
(***************************************************************************)

\* A block that is read is one of the slave's.
ReadsABlock ==
  pc = "reading" => block_read_idx[slave_curr_idx] <= NumBlocks[slave_curr_idx]

\* A value is in a write exactly while the thread writes, and the image of its
\* register holds the number taken from the queue.
WriteUnderWay ==
  /\ pc = "writing" <=> cur # NoValue
  /\ cur # NoValue => queued = image[cur]

\* A number moves from the dispatcher to the queue, to the image and to the
\* device, and overtakes none queued later.
Stages ==
  \A v \in Values :
    /\ dev[v] <= image[v] /\ image[v] <= write_value[v] /\ write_value[v] <= latest[v]
    /\ write_pending[v] => write_value[v] = latest[v]

MasterInv == TypeOK /\ ReadsABlock /\ WriteUnderWay /\ Stages /\ NoWriteLost

\* The constants, for the provers.
LEMMA MasterFacts ==
  /\ NumSlaves \in Nat /\ NumSlaves >= 1 /\ 1 \in Slaves
  /\ \A s \in Slaves : s \in Nat /\ s <= NumSlaves /\ (s < NumSlaves => s + 1 \in Slaves)
  /\ \A s \in Slaves : NumBlocks[s] \in Nat /\ Len(Outs[s]) \in Nat
  /\ \A s \in Slaves : \A i \in 1..Len(Outs[s]) : Outs[s][i] \in Values
  /\ NoValue \notin Values
  /\ Interval \in Nat /\ Separation \in Nat /\ Timeout \in Nat /\ ReconnectDelay \in Nat
  /\ MaxVersion \in Nat
<1>1. \A s \in Slaves : \A i \in 1..Len(Outs[s]) : Outs[s][i] \in Values
  <2> SUFFICES ASSUME NEW s \in Slaves, NEW i \in 1..Len(Outs[s]) PROVE Outs[s][i] \in Values
    OBVIOUS
  <2>1. i \in DOMAIN Outs[s]
    BY MasterConstants DEF MasterConstants
  <2>2. QED
    BY <2>1 DEF Values
<1>2. QED
  BY <1>1, MasterConstants DEF MasterConstants, Slaves

LEMMA MasterInitInv == Init => MasterInv
<1> SUFFICES ASSUME Init PROVE MasterInv
  OBVIOUS
<1>1. ControlType /\ ReadsABlock
  BY MasterFacts DEF Init, ControlType, ReadsABlock
<1>t. TimerType
  <2>1. 0 \in Nat /\ 0 \in 0..Interval /\ 0 \in 0..Timeout
    BY MasterFacts
  <2>2. QED
    BY <2>1 DEF Init, TimerType
<1>c. CursorType
  <2>1. \A s \in Slaves : 1 <= NumBlocks[s] + 1 /\ Len(Outs[s]) + 1 \in Nat /\ Len(Outs[s]) + 1 >= 1
    BY MasterFacts
  <2>2. block_read_idx = [s \in Slaves |-> 1] /\ value_out_curr = [s \in Slaves |-> Len(Outs[s]) + 1]
    BY DEF Init
  <2>3. /\ block_read_idx \in [Slaves -> Nat]
        /\ \A s \in Slaves : block_read_idx[s] >= 1 /\ block_read_idx[s] <= NumBlocks[s] + 1
    BY <2>1, <2>2
  <2>4. value_out_curr \in [Slaves -> Nat]
    BY <2>1, <2>2
  <2>5. \A s \in Slaves : value_out_curr[s] = Len(Outs[s]) + 1
    BY <2>2
  <2>6. \A s \in Slaves : value_out_curr[s] >= 1 /\ value_out_curr[s] <= Len(Outs[s]) + 1
    BY <2>1, <2>5
  <2>7. QED
    BY <2>3, <2>4, <2>6 DEF CursorType
<1>2. QueueType
  BY MasterFacts DEF Init, QueueType, Versions
<1>3. WriteUnderWay /\ Stages /\ NoWriteLost
  BY DEF Init, WriteUnderWay, Stages, NoWriteLost
<1>4. QED
  BY <1>1, <1>t, <1>c, <1>2, <1>3 DEF MasterInv, TypeOK

\* What a write, done or not, leaves in the device is what the image holds: no
\* number goes back, and a value that was up to date stays so.
LEMMA DeviceAfterWrite ==
  ASSUME MasterInv, pc = "writing", dev' = Written \/ dev' = dev
  PROVE  /\ dev' \in [Values -> Versions]
         /\ \A v \in Values : dev[v] <= dev'[v] /\ dev'[v] <= image[v]
         /\ \A v \in Values : dev[v] = latest[v] => dev'[v] = latest[v]
         /\ dev' = Written => dev'[cur] = queued
<1>1. cur \in Values /\ queued = image[cur]
  BY DEF MasterInv, WriteUnderWay, TypeOK, QueueType
<1>2. /\ image \in [Values -> Versions] /\ dev \in [Values -> Versions]
      /\ write_value \in [Values -> Versions] /\ latest \in [Values -> Versions]
  BY DEF MasterInv, TypeOK, QueueType
<1>3. \A v \in Values : dev[v] \in Int /\ image[v] \in Int /\ latest[v] \in Int /\ write_value[v] \in Int
  BY <1>2, MasterFacts DEF Versions
<1>4. \A v \in Values : dev'[v] = dev[v] \/ dev'[v] = image[v]
  BY DEF Written
<1>5. dev' \in [Values -> Versions]
  BY <1>2 DEF Written
<1>6. \A v \in Values : dev[v] <= image[v] /\ image[v] <= write_value[v] /\ write_value[v] <= latest[v]
  BY DEF MasterInv, Stages
<1>7. dev' = Written => dev'[cur] = queued
  BY <1>1 DEF Written
<1>8. QED
  BY <1>3, <1>4, <1>5, <1>6, <1>7

\* slave_task_read() leaves a poll timer within the interval.
LEMMA PollTimerSet ==
  ASSUME NEW s, ReadIdle(s), next_poll \in [Slaves -> 0..Interval]
  PROVE  next_poll' \in [Slaves -> 0..Interval]
<1>1. Interval \in 0..Interval
  BY MasterFacts
<1>2. QED
  BY <1>1 DEF ReadIdle

\* One step per action.
LEMMA MasterNextInv == MasterInv /\ [Next]_vars => MasterInv'
<1> SUFFICES ASSUME MasterInv, [Next]_vars PROVE MasterInv'
  OBVIOUS
<1> USE DEF MasterInv
<1>t. ControlType /\ TimerType /\ CursorType /\ QueueType
  BY DEF TypeOK
<1>n. /\ image \in [Values -> Versions] /\ dev \in [Values -> Versions]
      /\ write_value \in [Values -> Versions] /\ latest \in [Values -> Versions]
      /\ \A k \in Versions : k \in Nat /\ k <= MaxVersion
  BY <1>t, MasterFacts DEF QueueType, Versions
<1>1. ASSUME NEW v \in Values, WriteSchedule(v) PROVE MasterInv'
  <2>1. latest[v] + 1 \in Versions
    BY <1>1, <1>n, MasterFacts DEF WriteSchedule, Versions
  <2>2. ControlType' /\ TimerType' /\ CursorType' /\ ReadsABlock'
    BY <1>1, <1>t DEF WriteSchedule, ControlType, TimerType, CursorType, ReadsABlock, timers
  <2>q. QueueType'
    BY <1>1, <1>t, <2>1 DEF WriteSchedule, QueueType, taken
  <2>3. WriteUnderWay'
    BY <1>1 DEF WriteSchedule, WriteUnderWay, taken
  <2>4. Stages'
    BY <1>1, <1>n, <1>t DEF WriteSchedule, Stages, taken, QueueType
  <2>5. NoWriteLost'
    BY <1>1, <1>n, <1>t DEF WriteSchedule, NoWriteLost, taken, QueueType
  <2>6. QED
    BY <2>2, <2>q, <2>3, <2>4, <2>5 DEF TypeOK
<1>2. CASE ConnectFails \/ TaskBegin \/ BeginRead \/ Shutdown
  <2>1. ControlType' /\ CursorType' /\ ReadsABlock'
    BY <1>2, <1>t DEF ConnectFails, TaskBegin, TaskDue, BeginRead, Shutdown,
       ControlType, CursorType, ReadsABlock, timers
  <2>t. TimerType'
    <3>1. ReconnectDelay \in Nat /\ 0 \in 0..Timeout
      BY MasterFacts
    <3>2. QED
      BY <1>2, <3>1, <1>t DEF ConnectFails, TaskBegin, BeginRead, Shutdown, TimerType, timers
  <2>2. QueueType' /\ WriteUnderWay' /\ Stages' /\ NoWriteLost'
    BY <1>2, <1>t DEF ConnectFails, TaskBegin, TaskDue, BeginRead, Shutdown, QueueType,
       WriteUnderWay, Stages, NoWriteLost, queue, taken
  <2>3. QED
    BY <2>1, <2>t, <2>2 DEF TypeOK
<1>3. CASE BeginWrite
  <2> DEFINE s == slave_curr_idx
  <2>1. PICK i \in PendingFrom(s) :
          /\ value_out_curr' = [value_out_curr EXCEPT ![s] = i + 1]
          /\ cur' = Outs[s][i]
          /\ queued' = write_value[Outs[s][i]]
          /\ image' = [image EXCEPT ![Outs[s][i]] = write_value[Outs[s][i]]]
          /\ write_pending' = [write_pending EXCEPT ![Outs[s][i]] = FALSE]
    BY <1>3 DEF BeginWrite
  <2>2. s \in Slaves /\ value_out_curr[s] \in Nat /\ value_out_curr[s] >= 1
    BY <1>t DEF ControlType, CursorType
  <2>3. i \in 1..Len(Outs[s]) /\ write_pending[Outs[s][i]]
    BY <2>2, MasterFacts DEF PendingFrom
  <2> DEFINE v == Outs[s][i]
  <2>4. v \in Values /\ v # NoValue
    BY <2>2, <2>3, MasterFacts
  <2>c. CursorType'
    <3>1. i + 1 >= 1 /\ i + 1 <= Len(Outs[s]) + 1 /\ i + 1 \in Nat
      BY <2>2, <2>3, MasterFacts
    <3>2. value_out_curr' \in [Slaves -> Nat]
      BY <2>1, <3>1, <1>t DEF CursorType
    <3>3. \A r \in Slaves : value_out_curr'[r] = IF r = s THEN i + 1 ELSE value_out_curr[r]
      BY <2>1, <1>t DEF CursorType
    <3>4. \A r \in Slaves : value_out_curr'[r] >= 1 /\ value_out_curr'[r] <= Len(Outs[r]) + 1
      BY <3>1, <3>3, <1>t DEF CursorType
    <3>5. QED
      BY <1>3, <1>t, <3>2, <3>4 DEF BeginWrite, CursorType
  <2>5. ControlType' /\ TimerType' /\ ReadsABlock'
    <3>1. next_poll' \in [Slaves -> 0..Interval]
      BY <1>3, <1>t, PollTimerSet DEF BeginWrite, TimerType
    <3>2. QED
      BY <1>3, <1>t, <3>1 DEF BeginWrite, ControlType, TimerType, ReadsABlock
  <2>q. QueueType'
    BY <1>3, <2>1, <2>4, <1>t DEF BeginWrite, QueueType
  <2>6. WriteUnderWay'
    BY <1>3, <2>1, <2>4, <1>n DEF BeginWrite, WriteUnderWay
  <2>7. Stages'
    BY <1>3, <2>1, <2>3, <2>4, <1>n, <1>t DEF BeginWrite, Stages, QueueType
  <2>8. NoWriteLost'
    <3>1. cur = NoValue
      BY <1>3 DEF BeginWrite, WriteUnderWay
    <3>2. queued' = latest[v] /\ cur' = v
      BY <2>1, <2>3, <2>4 DEF Stages
    <3>3. QED
      BY <1>3, <2>1, <2>4, <3>1, <3>2, <1>t, MasterFacts DEF BeginWrite, NoWriteLost, QueueType
  <2>9. QED
    BY <2>c, <2>5, <2>q, <2>6, <2>7, <2>8 DEF TypeOK
<1>4. CASE NextSlave
  <2> DEFINE s == slave_curr_idx
  <2>0. s \in Slaves /\ slave_curr_idx' \in Slaves
    BY <1>4, <1>t, MasterFacts DEF NextSlave, ControlType
  <2>p. next_poll' \in [Slaves -> 0..Interval]
    BY <1>4, <1>t, PollTimerSet DEF NextSlave, TimerType
  <2>1. ControlType' /\ TimerType' /\ ReadsABlock'
    BY <1>4, <2>0, <2>p, <1>t DEF NextSlave, ControlType, TimerType, ReadsABlock
  <2>c. CursorType'
    <3>1. /\ block_read_idx' = [block_read_idx EXCEPT ![s] = 1]
          /\ value_out_curr' = [value_out_curr EXCEPT ![s] = 1]
      BY <1>4 DEF NextSlave
    <3>2. block_read_idx' \in [Slaves -> Nat] /\ value_out_curr' \in [Slaves -> Nat]
      BY <3>1, <1>t DEF CursorType
    <3>3. \A r \in Slaves : /\ block_read_idx'[r] = 1 \/ block_read_idx'[r] = block_read_idx[r]
                            /\ value_out_curr'[r] = 1 \/ value_out_curr'[r] = value_out_curr[r]
      BY <3>1, <1>t DEF CursorType
    <3>4. \A r \in Slaves : 1 <= NumBlocks[r] + 1 /\ 1 <= Len(Outs[r]) + 1
      BY MasterFacts
    <3>5. \A r \in Slaves : block_read_idx'[r] >= 1 /\ block_read_idx'[r] <= NumBlocks[r] + 1
      BY <3>3, <3>4, <1>t DEF CursorType
    <3>6. \A r \in Slaves : value_out_curr'[r] >= 1 /\ value_out_curr'[r] <= Len(Outs[r]) + 1
      BY <3>3, <3>4, <1>t DEF CursorType
    <3>7. QED
      BY <3>2, <3>5, <3>6 DEF CursorType
  <2>2. QueueType' /\ WriteUnderWay' /\ Stages' /\ NoWriteLost'
    BY <1>4, <1>t DEF NextSlave, QueueType, WriteUnderWay, Stages, NoWriteLost, queue, taken
  <2>3. QED
    BY <2>1, <2>c, <2>2 DEF TypeOK
<1>5. ASSUME NEW o \in Outcomes, EndRead(o) PROVE MasterInv'
  <2> DEFINE s == slave_curr_idx
  <2>0. /\ s \in Slaves /\ block_read_idx[s] \in Nat /\ block_read_idx[s] >= 1
        /\ block_read_idx[s] <= NumBlocks[s] /\ NumBlocks[s] \in Nat
    BY <1>5, <1>t, MasterFacts DEF EndRead, ControlType, CursorType, ReadsABlock
  <2>p. next_poll' \in [Slaves -> 0..Interval]
    <3>1. spent \in Nat
      BY <1>t, MasterFacts DEF TimerType
    <3>2. (IF spent < Interval THEN Interval - spent ELSE 0) \in 0..Interval
      BY <3>1, MasterFacts
    <3>3. QED
      BY <1>5, <3>2, <1>t DEF EndRead, TimerType
  <2>c. CursorType'
    <3>1. block_read_idx' = [block_read_idx EXCEPT ![s] = block_read_idx[s] + 1]
      BY <1>5 DEF EndRead
    <3>2. block_read_idx' \in [Slaves -> Nat]
      BY <3>1, <2>0, <1>t DEF CursorType
    <3>3. \A r \in Slaves : block_read_idx'[r] = IF r = s THEN block_read_idx[s] + 1 ELSE block_read_idx[r]
      BY <3>1, <1>t DEF CursorType
    <3>4. block_read_idx[s] + 1 >= 1 /\ block_read_idx[s] + 1 <= NumBlocks[s] + 1
      BY <2>0
    <3>5. QED
      BY <1>5, <3>2, <3>3, <3>4, <1>t DEF EndRead, CursorType
  <2>1. ControlType' /\ ReadsABlock'
    BY <1>5, <1>t DEF EndRead, LinkError, EndTransaction, ControlType, ReadsABlock
  <2>t. TimerType'
    <3>1. Separation \in Nat /\ 0 \in 0..Timeout
      BY MasterFacts
    <3>2. QED
      BY <1>5, <2>p, <3>1, <1>t DEF EndRead, EndTransaction, TimerType
  <2>2. QueueType' /\ WriteUnderWay' /\ Stages' /\ NoWriteLost'
    BY <1>5, <1>t DEF EndRead, EndTransaction, QueueType, WriteUnderWay, Stages, NoWriteLost, queue,
       taken
  <2>3. QED
    BY <2>1, <2>t, <2>c, <2>2 DEF TypeOK
<1>6. CASE WriteOk
  <2>1. pc = "writing" /\ dev' = Written
    BY <1>6 DEF WriteOk
  <2>2. ControlType' /\ CursorType' /\ ReadsABlock'
    BY <1>6, <1>t DEF WriteOk, EndTransaction, ControlType, CursorType, ReadsABlock
  <2>t. TimerType'
    <3>1. Separation \in Nat /\ 0 \in 0..Timeout
      BY MasterFacts
    <3>2. QED
      BY <1>6, <3>1, <1>t DEF WriteOk, EndTransaction, TimerType
  <2>q. QueueType'
    BY <1>6, <2>1, <1>t, DeviceAfterWrite, MasterFacts DEF WriteOk, QueueType, queue, Versions
  <2>3. WriteUnderWay'
    BY <1>6 DEF WriteOk, EndTransaction, WriteUnderWay
  <2>4. Stages'
    BY <1>6, <2>1, DeviceAfterWrite DEF WriteOk, Stages, queue
  <2>5. NoWriteLost'
    BY <1>6, <2>1, DeviceAfterWrite DEF WriteOk, NoWriteLost, queue
  <2>6. QED
    BY <2>2, <2>t, <2>q, <2>3, <2>4, <2>5 DEF TypeOK
<1>7. ASSUME NEW o \in Outcomes, WriteFails(o) PROVE MasterInv'
  <2>1. pc = "writing" /\ (dev' = Written \/ dev' = dev)
    BY <1>7 DEF WriteFails
  <2>2. cur \in Values /\ queued = image[cur] /\ queued \in Versions
    BY <2>1, <1>n, <1>t DEF WriteUnderWay, QueueType
  <2>3. TypeOK' /\ ReadsABlock'
    <3>1. ControlType' /\ CursorType' /\ ReadsABlock'
      BY <1>7, <1>t DEF WriteFails, LinkError, EndTransaction, ControlType, CursorType, ReadsABlock
    <3>t. TimerType'
      <4>1. Separation \in Nat /\ 0 \in 0..Timeout /\ Interval \in 0..Interval
        BY MasterFacts
      <4>2. QED
        BY <1>7, <4>1, <1>t DEF WriteFails, EndTransaction, TimerType
    <3>2. dev' \in [Values -> Versions]
      BY <2>1, DeviceAfterWrite
    <3>3. QueueType'
      <4>1. /\ write_value' \in [Values -> Versions] /\ write_pending' \in [Values -> BOOLEAN]
        BY <1>7, <2>2, <1>t DEF WriteFails, QueueType, queue
      <4>2. 0 \in Versions
        BY MasterFacts DEF Versions
      <4>3. QED
        BY <1>7, <3>2, <4>1, <4>2, <1>t DEF WriteFails, QueueType
    <3>4. QED
      BY <3>1, <3>t, <3>3 DEF TypeOK
  <2>4. WriteUnderWay'
    BY <1>7 DEF WriteFails, EndTransaction, WriteUnderWay
  <2>5. CASE write_pending[cur]
    <3>1. UNCHANGED <<queue, image, latest>>
      BY <1>7, <2>5 DEF WriteFails
    <3>2. Stages'
      BY <2>1, <3>1, DeviceAfterWrite DEF Stages, queue
    <3>3. NoWriteLost'
      BY <1>7, <2>1, <2>5, <3>1, DeviceAfterWrite DEF NoWriteLost, Stages, queue, WriteFails
    <3>4. QED
      BY <2>3, <2>4, <3>2, <3>3
  <2>6. CASE ~write_pending[cur]
    <3>1. /\ write_value' = [write_value EXCEPT ![cur] = queued]
          /\ write_pending' = [write_pending EXCEPT ![cur] = TRUE]
          /\ UNCHANGED <<image, latest>>
      BY <1>7, <2>6 DEF WriteFails
    <3>2. queued = latest[cur]
      BY <2>2, <2>6, <1>n DEF NoWriteLost, Stages
    <3>3. Stages'
      BY <2>1, <2>2, <3>1, <3>2, <1>n, <1>t, DeviceAfterWrite DEF Stages, QueueType
    <3>4. NoWriteLost'
      BY <2>1, <2>2, <3>1, <3>2, <1>n, <1>t, DeviceAfterWrite DEF NoWriteLost, QueueType
    <3>5. QED
      BY <2>3, <2>4, <3>3, <3>4
  <2>7. QED
    BY <2>5, <2>6
<1>8. CASE Tick
  <2>1. ControlType' /\ CursorType' /\ ReadsABlock'
    BY <1>8, <1>t DEF Tick, ControlType, CursorType, ReadsABlock
  <2>t. TimerType'
    <3>1. /\ \A t \in Nat : Less(t) \in Nat
          /\ \A t \in 0..Interval : Less(t) \in 0..Interval
      BY MasterFacts DEF Less
    <3>2. next_transaction' \in Nat
      BY <1>8, <3>1, <1>t DEF Tick, TimerType
    <3>3. next_poll' \in [Slaves -> 0..Interval] /\ next_write' \in [Slaves -> 0..Interval]
      BY <1>8, <3>1, <1>t DEF Tick, TimerType
    <3>4. spent' \in 0..Timeout
      BY <1>8, <1>t, MasterFacts DEF Tick, TimerType, ControlType, InTransaction
    <3>5. QED
      BY <3>2, <3>3, <3>4 DEF TimerType
  <2>2. QueueType' /\ WriteUnderWay' /\ Stages' /\ NoWriteLost'
    BY <1>8, <1>t DEF Tick, QueueType, WriteUnderWay, Stages, NoWriteLost, queue, taken
  <2>3. QED
    BY <2>1, <2>t, <2>2 DEF TypeOK
<1>9. CASE UNCHANGED vars
  <2>1. TypeOK' /\ ReadsABlock'
    BY <1>9, <1>t DEF vars, timers, queue, taken, TypeOK, ControlType, TimerType, CursorType,
       QueueType, ReadsABlock
  <2>2. WriteUnderWay' /\ Stages' /\ NoWriteLost'
    BY <1>9 DEF vars, timers, queue, taken, WriteUnderWay, Stages, NoWriteLost
  <2>3. QED
    BY <2>1, <2>2
<1>10. QED
  BY <1>1, <1>2, <1>3, <1>4, <1>5, <1>6, <1>7, <1>8, <1>9 DEF Next, Task, EndWrite, Stopped

\* write_schedule(), write_execute(): the newest number of an output is
\* never lost, for any slaves and outputs and whatever transactions fail.
THEOREM WritesAreKept == Spec => []NoWriteLost
<1>1. MasterInv => NoWriteLost
  BY DEF MasterInv
<1>2. QED
  BY MasterInitInv, MasterNextInv, <1>1, PTL DEF Spec

\* No write brings an older number back into a device, also not by the write
\* of another bit of the same register.
THEOREM NumbersGoForward == Spec => DeviceNeverGoesBack
<1> DEFINE Forward == \A v \in Values : dev'[v] >= dev[v]
<1>1. MasterInv /\ [Next]_vars => [Forward]_vars
  <2> SUFFICES ASSUME MasterInv, [Next]_vars PROVE Forward
    OBVIOUS
  <2>1. \A v \in Values : dev[v] \in Int
    BY MasterFacts DEF MasterInv, TypeOK, QueueType, Versions
  <2>2. dev' = dev \/ (pc = "writing" /\ dev' = Written)
    BY DEF Next, WriteSchedule, ConnectFails, Task, TaskBegin, BeginRead, BeginWrite, NextSlave,
       EndRead, EndWrite, WriteOk, WriteFails, Shutdown, Stopped, Tick, vars
  <2>3. CASE dev' = dev
    BY <2>1, <2>3
  <2>4. CASE pc = "writing" /\ dev' = Written
    <3>1. dev' \in [Values -> Versions]
      BY <2>4, DeviceAfterWrite
    <3>2. QED
      BY <2>1, <2>4, <3>1, DeviceAfterWrite, MasterFacts DEF Versions
  <2>5. QED
    BY <2>2, <2>3, <2>4
<1>2. QED
  BY MasterInitInv, MasterNextInv, <1>1, PTL DEF Spec, DeviceNeverGoesBack

-----------------------------------------------------------------------------
(***************************************************************************)
(* RestPoller.                                                             *)
(***************************************************************************)

RestType ==
  /\ since_get \in Nat /\ since_get <= GetTimeout
  /\ val_no \in Nat /\ val_no >= 1
  /\ valid \in [JsonVals -> BOOLEAN]
  /\ until_stale \in [JsonVals -> Nat] /\ age \in [JsonVals -> Nat]
  /\ until_check \in Nat /\ until_check <= CheckPeriod
  /\ until_look \in Nat /\ until_look <= LookPeriod

\* The longest a stale value may wait for the next check: for the check to be
\* due and for the watchdog to look after that.
CheckWait(check, look) == IF check = 0 THEN look ELSE check + LookPeriod

\* A valid value may still grow older by the time until its deadline, and by the
\* wait for the next check after it.
AgeAtReset ==
  \A v \in JsonVals : valid[v] =>
    IF until_stale[v] > 0 THEN age[v] + until_stale[v] <= JsonStale + GetTimeout
    ELSE age[v] + CheckWait(until_check, until_look) <= JsonStale + GetTimeout + CheckPeriod + LookPeriod

RestAgeInv == RestType /\ AgeAtReset

LEMMA RestFacts ==
  /\ NumJson \in Nat /\ PollInterval \in Nat /\ GetTimeout \in Nat /\ JsonStale \in Nat
  /\ JsonStale > 0 /\ CheckPeriod \in Nat /\ CheckPeriod > 0 /\ LookPeriod \in Nat /\ LookPeriod > 0
  /\ \A v \in JsonVals : v \in Nat
BY RestConstants DEF RestConstants, JsonVals

LEMMA CheckWaitBound ==
  ASSUME NEW c \in Nat, c <= CheckPeriod, NEW l \in Nat, l <= LookPeriod
  PROVE  CheckWait(c, l) \in Nat /\ CheckWait(c, l) <= CheckPeriod + LookPeriod
BY RestFacts DEF CheckWait

LEMMA RestAgeInit == RestInit => RestAgeInv
<1> SUFFICES ASSUME RestInit PROVE RestAgeInv
  OBVIOUS
<1>1. RestType
  BY RestFacts DEF RestInit, RestType
<1>2. AgeAtReset
  BY DEF RestInit, AgeAtReset
<1>3. QED
  BY <1>1, <1>2 DEF RestAgeInv

\* A step that leaves the values and the watchdog alone.
LEMMA RestAgeKept ==
  ASSUME RestAgeInv, UNCHANGED <<valid, until_stale, age, until_check, until_look>>,
         since_get' \in {0, since_get}, val_no' \in {1, val_no, val_no + 1}
  PROVE  RestAgeInv'
<1>1. RestType'
  BY RestFacts DEF RestAgeInv, RestType
<1>2. CheckWait(until_check', until_look') = CheckWait(until_check, until_look)
  BY DEF CheckWait
<1>3. AgeAtReset'
  BY <1>2 DEF RestAgeInv, AgeAtReset
<1>4. QED
  BY <1>1, <1>3 DEF RestAgeInv

LEMMA RestAgeNext == RestAgeInv /\ [RestNext]_restVars => RestAgeInv'
<1> SUFFICES ASSUME RestAgeInv, [RestNext]_restVars PROVE RestAgeInv'
  OBVIOUS
<1>t. RestType /\ AgeAtReset
  BY DEF RestAgeInv
<1>1. CASE ProcessValue
  <2>1. UNCHANGED <<since_get, until_check, until_look>> /\ val_no' = val_no + 1
    BY <1>1 DEF ProcessValue, Dispatched, NotFound, watchdog
  <2>2. CASE NotFound(val_no)
    BY <2>1, <2>2, RestAgeKept DEF NotFound, cells
  <2>3. CASE Dispatched(val_no)
    <3>1. RestType'
      <4>1. until_stale' \in [JsonVals -> Nat] /\ age' \in [JsonVals -> Nat]
        BY <2>3, <1>t, RestFacts DEF Dispatched, RestType
      <4>2. valid' \in [JsonVals -> BOOLEAN]
        BY <2>3, <1>t DEF Dispatched, RestType
      <4>3. val_no' \in Nat /\ val_no' >= 1
        BY <2>1, <1>t DEF RestType
      <4>4. QED
        BY <2>1, <4>1, <4>2, <4>3, <1>t DEF RestType
    <3>2. since_get + JsonStale <= JsonStale + GetTimeout /\ JsonStale > 0
      BY <1>t, RestFacts DEF RestType
    <3>3. CheckWait(until_check', until_look') = CheckWait(until_check, until_look)
      BY <2>1 DEF CheckWait
    <3>4. ASSUME NEW v \in JsonVals, valid'[v]
          PROVE  IF until_stale'[v] > 0 THEN age'[v] + until_stale'[v] <= JsonStale + GetTimeout
                 ELSE age'[v] + CheckWait(until_check, until_look) <= JsonStale + GetTimeout + CheckPeriod + LookPeriod
      <4>1. CASE v = val_no
        BY <4>1, <2>3, <3>2, <1>t DEF Dispatched, RestType
      <4>2. CASE v # val_no
        BY <4>2, <2>3, <3>4, <1>t DEF Dispatched, RestType, AgeAtReset
      <4>3. QED
        BY <4>1, <4>2
    <3>5. QED
      BY <3>1, <3>3, <3>4 DEF RestAgeInv, AgeAtReset
  <2>4. QED
    BY <1>1, <2>2, <2>3 DEF ProcessValue
<1>2. CASE WatchdogLooks
  <2>1. /\ until_look = 0 /\ until_look' \in Nat /\ until_look' >= 1 /\ until_look' <= LookPeriod
        /\ UNCHANGED <<since_get, val_no, until_stale>>
    BY <1>2, RestFacts DEF WatchdogLooks
  <2>2. CASE until_check # 0
    <3>1. UNCHANGED <<until_check, valid, age>>
      BY <1>2, <2>2 DEF WatchdogLooks
    <3>2. RestType'
      BY <2>1, <3>1, <1>t DEF RestType
    <3>3. CheckWait(until_check', until_look') = CheckWait(until_check, until_look)
      BY <3>1, <2>2 DEF CheckWait
    <3>4. QED
      BY <2>1, <3>1, <3>2, <3>3, <1>t DEF RestAgeInv, AgeAtReset
  <2>3. CASE until_check = 0
    <3>1. until_check' = CheckPeriod /\ ResetStale
      BY <1>2, <2>3 DEF WatchdogLooks
    <3>2. RestType'
      <4>1. valid' \in [JsonVals -> BOOLEAN]
        BY <3>1, <1>t DEF ResetStale, RestType
      <4>2. age' \in [JsonVals -> Nat]
        BY <3>1, <1>t DEF ResetStale, RestType
      <4>3. QED
        BY <2>1, <3>1, <4>1, <4>2, <1>t, RestFacts DEF RestType
    <3>3. ASSUME NEW v \in JsonVals, valid'[v]
          PROVE  until_stale'[v] > 0 /\ age'[v] + until_stale'[v] <= JsonStale + GetTimeout
      <4>1. valid[v] /\ until_stale[v] > 0 /\ age'[v] = age[v]
        <5>1. valid'[v] = (valid[v] /\ v \notin {w \in JsonVals : valid[w] /\ until_stale[w] = 0})
          BY <3>1 DEF ResetStale
        <5>2. valid[v] /\ until_stale[v] # 0
          BY <5>1, <3>3
        <5>3. age'[v] = age[v]
          BY <3>1, <5>2 DEF ResetStale
        <5>4. QED
          BY <5>2, <5>3, <1>t DEF RestType
      <4>2. QED
        BY <4>1, <2>1, <1>t DEF AgeAtReset
    <3>4. QED
      BY <3>2, <3>3 DEF RestAgeInv, AgeAtReset
  <2>4. QED
    BY <2>2, <2>3
<1>3. CASE RestTick
  <2>1. \A v \in JsonVals : until_stale'[v] = Before(until_stale[v])
    BY <1>3 DEF RestTick
  <2>2. \A v \in JsonVals : age'[v] = IF valid[v] THEN age[v] + 1 ELSE 0
    BY <1>3 DEF RestTick
  <2>b. \A k \in Nat : Before(k) \in Nat /\ Before(k) <= k
    BY DEF Before
  <2>3. RestType'
    <3>2. until_stale' \in [JsonVals -> Nat]
      BY <1>3, <2>b, <1>t DEF RestTick, RestType
    <3>3. age' \in [JsonVals -> Nat]
      BY <1>3, <1>t DEF RestTick, RestType
    <3>4. since_get' \in Nat /\ since_get' <= GetTimeout
      BY <1>3, <1>t, RestFacts DEF RestTick, RestType
    <3>5. until_check' \in Nat /\ until_check' <= CheckPeriod
      BY <1>3, <2>b, <1>t, RestFacts DEF RestTick, RestType
    <3>6. until_look' \in Nat /\ until_look' <= LookPeriod
      BY <1>3, <1>t, RestFacts DEF RestTick, RestType
    <3>7. QED
      BY <1>3, <1>t, <3>2, <3>3, <3>4, <3>5, <3>6 DEF RestTick, RestType
  <2>4. CheckWait(until_check', until_look') + 1 <= CheckWait(until_check, until_look)
    <3>1. until_look > 0 /\ until_look' = until_look - 1 /\ until_check' = Before(until_check)
      BY <1>3 DEF RestTick
    <3>2. CASE until_check = 0
      BY <3>1, <3>2, <1>t DEF CheckWait, Before, RestType
    <3>3. CASE until_check # 0
      BY <3>1, <3>3, <1>t, <2>3, RestFacts DEF CheckWait, Before, RestType
    <3>4. QED
      BY <3>2, <3>3
  <2>5. ASSUME NEW v \in JsonVals, valid'[v]
        PROVE  IF until_stale'[v] > 0 THEN age'[v] + until_stale'[v] <= JsonStale + GetTimeout
               ELSE age'[v] + CheckWait(until_check', until_look') <= JsonStale + GetTimeout + CheckPeriod + LookPeriod
    <3>1. valid[v] /\ age'[v] = age[v] + 1 /\ age[v] \in Nat /\ until_stale[v] \in Nat
      BY <1>3, <2>5, <2>2, <1>t DEF RestTick, RestType
    <3>2. /\ CheckWait(until_check, until_look) \in Nat
          /\ CheckWait(until_check, until_look) <= CheckPeriod + LookPeriod
          /\ CheckWait(until_check', until_look') \in Nat
          /\ CheckWait(until_check', until_look') + 1 <= CheckWait(until_check, until_look)
      <4>1. CheckWait(until_check, until_look) \in Nat /\ CheckWait(until_check, until_look) <= CheckPeriod + LookPeriod
        BY <1>t, CheckWaitBound DEF RestType
      <4>2. CheckWait(until_check', until_look') \in Nat
        BY <2>3, CheckWaitBound DEF RestType
      <4>3. QED
        BY <4>1, <4>2, <2>4
    <3>3. CASE until_stale[v] > 0
      <4>1. until_stale'[v] = until_stale[v] - 1
        BY <3>1, <3>3, <2>1 DEF Before
      <4>2. age[v] + until_stale[v] <= JsonStale + GetTimeout
        BY <3>1, <3>3, <1>t DEF AgeAtReset
      <4>3. age'[v] + until_stale'[v] <= JsonStale + GetTimeout
        BY <3>1, <4>1, <4>2, RestFacts
      <4>4. age'[v] + CheckWait(until_check', until_look') <= JsonStale + GetTimeout + CheckPeriod + LookPeriod
        BY <3>1, <3>2, <3>3, <4>2, RestFacts
      <4>5. QED
        BY <4>3, <4>4
    <3>4. CASE until_stale[v] = 0
      <4>1. until_stale'[v] = 0
        BY <3>1, <3>4, <2>1 DEF Before
      <4>2. age[v] + CheckWait(until_check, until_look) <= JsonStale + GetTimeout + CheckPeriod + LookPeriod
        BY <3>1, <3>4, <1>t DEF AgeAtReset
      <4>3. age'[v] + CheckWait(until_check', until_look') <= JsonStale + GetTimeout + CheckPeriod + LookPeriod
        BY <3>1, <3>2, <4>2, RestFacts
      <4>4. QED
        BY <4>1, <4>3
    <3>5. QED
      BY <3>1, <3>3, <3>4
  <2>6. QED
    BY <2>3, <2>5 DEF RestAgeInv, AgeAtReset
<1>4. QED
  <2>1. CASE RestNext /\ ~ProcessValue /\ ~RestTick /\ ~WatchdogLooks
    BY <2>1, RestAgeKept DEF RestNext, PollStart, ChunkCompletes, GetFails, NoData, GetSucceeds,
       ValuesDone, PollReturns, RestStop, RestDone, restVars, cells, watchdog
  <2>2. CASE UNCHANGED restVars
    BY <2>2, RestAgeKept DEF restVars, cells, watchdog
  <2>3. QED
    BY <1>1, <1>2, <1>3, <2>1, <2>2

\* conn_task() with watchdog_thread(): a number other modules see as valid is
\* never older than stale_timeout, one request, one check period and one round
\* of the watchdog, for any of these times and any answers.
THEOREM NumbersAreFresh == RestSpec => []AgeIsBounded
<1>1. RestAgeInv => AgeIsBounded
  <2> SUFFICES ASSUME RestAgeInv, NEW v \in JsonVals, valid[v]
               PROVE  age[v] <= JsonStale + GetTimeout + CheckPeriod + LookPeriod
    BY DEF AgeIsBounded
  <2>1. age[v] \in Nat /\ until_stale[v] \in Nat /\ CheckWait(until_check, until_look) \in Nat
    BY CheckWaitBound DEF RestAgeInv, RestType
  <2>2. CASE until_stale[v] > 0
    BY <2>1, <2>2, RestFacts DEF RestAgeInv, AgeAtReset
  <2>3. CASE until_stale[v] = 0
    BY <2>1, <2>3, RestFacts DEF RestAgeInv, AgeAtReset
  <2>4. QED
    BY <2>1, <2>2, <2>3
<1>2. QED
  BY RestAgeInit, RestAgeNext, <1>1, PTL DEF RestSpec

\* The values of the document before the n-th that are numbers.
NumbersBefore(n) == {v \in JsonVals : v < n /\ json.entry[v] = "number"}

\* The loop of conn_task() has dispatched the numbers it has passed.
PollInv ==
  /\ val_no \in Nat /\ val_no >= 1
  /\ rest \in {"sleep", "get", "values", "done", "ended"}
  /\ rest \in {"sleep", "get"} => got_vals = {} /\ val_no = 1
  /\ rest = "values" => /\ transfer = "ok" /\ Usable(json)
                        /\ got_vals = NumbersBefore(val_no)
  /\ PollIsComplete

LEMMA PollInit == RestInit => PollInv
BY DEF RestInit, PollInv, PollIsComplete

LEMMA PollNext == PollInv /\ [RestNext]_restVars => PollInv'
<1> SUFFICES ASSUME PollInv, [RestNext]_restVars PROVE PollInv'
  OBVIOUS
<1>1. CASE PollStart
  BY <1>1 DEF PollStart, PollInv, PollIsComplete
<1>2. ASSUME NEW d, ChunkCompletes(d) PROVE PollInv'
  BY <1>2 DEF ChunkCompletes, PollInv, PollIsComplete, cells
<1>3. CASE GetFails
  BY <1>3 DEF GetFails, NoData, PollInv, PollIsComplete, cells
<1>4. CASE GetSucceeds
  <2>1. CASE Usable(json)
    <3>1. NumbersBefore(1) = {}
      BY RestFacts DEF NumbersBefore, JsonVals
    <3>2. /\ rest' = "values" /\ transfer' = "ok" /\ got_vals = {} /\ val_no = 1
          /\ UNCHANGED <<json, val_no, got_vals>>
      BY <1>4, <2>1 DEF GetSucceeds, PollInv, cells
    <3>3. NumbersBefore(val_no)' = NumbersBefore(1)
      BY <3>2 DEF NumbersBefore
    <3>4. Usable(json)'
      BY <2>1, <3>2 DEF Usable
    <3>5. QED
      BY <3>1, <3>2, <3>3, <3>4 DEF PollInv, PollIsComplete
  <2>2. CASE ~Usable(json)
    <3>1. /\ rest' = "done" /\ got_vals = {} /\ UNCHANGED <<json, val_no, got_vals>>
      BY <1>4, <2>2 DEF GetSucceeds, NoData, PollInv, cells
    <3>2. ~Usable(json)'
      BY <2>2, <3>1 DEF Usable
    <3>3. QED
      BY <3>1, <3>2 DEF PollInv, PollIsComplete
  <2>3. QED
    BY <2>1, <2>2
<1>5. CASE ProcessValue
  <2>1. /\ rest = "values" /\ val_no \in JsonVals
        /\ UNCHANGED <<rest, json, transfer>> /\ val_no' = val_no + 1
        /\ got_vals = NumbersBefore(val_no)
    BY <1>5, RestFacts DEF ProcessValue, Dispatched, NotFound, PollInv, JsonVals
  <2>2. got_vals' = IF json.entry[val_no] = "number" THEN got_vals \cup {val_no} ELSE got_vals
    BY <1>5 DEF ProcessValue, Dispatched, NotFound, cells
  <2>3. \A v \in JsonVals : v < val_no + 1 <=> (v < val_no \/ v = val_no)
    BY <2>1, RestFacts DEF JsonVals
  <2>4. NumbersBefore(val_no)' = {v \in JsonVals : v < val_no + 1 /\ json.entry[v] = "number"}
    BY <2>1 DEF NumbersBefore
  <2>5. got_vals' = NumbersBefore(val_no)'
    BY <2>1, <2>2, <2>3, <2>4 DEF NumbersBefore
  <2>6. Usable(json)' /\ transfer' = "ok"
    BY <2>1 DEF PollInv, Usable
  <2>7. QED
    BY <2>1, <2>5, <2>6 DEF PollInv, PollIsComplete
<1>6. CASE ValuesDone
  <2>1. /\ rest = "values" /\ val_no > NumJson /\ rest' = "done"
        /\ UNCHANGED <<json, val_no, got_vals, transfer>>
    BY <1>6 DEF ValuesDone, cells
  <2>2. \A v \in JsonVals : v < val_no
    BY <2>1, RestFacts DEF JsonVals, PollInv
  <2>3. got_vals = {v \in JsonVals : json.entry[v] = "number"} /\ transfer = "ok" /\ Usable(json)
    BY <2>1, <2>2 DEF PollInv, NumbersBefore
  <2>4. PollIsComplete'
    BY <2>1, <2>3 DEF PollIsComplete, Usable
  <2>5. QED
    BY <2>1, <2>4 DEF PollInv
<1>7. CASE PollReturns
  BY <1>7 DEF PollReturns, PollInv, PollIsComplete
<1>8. CASE WatchdogLooks
  BY <1>8 DEF WatchdogLooks, PollInv, PollIsComplete, NumbersBefore, Usable
<1>9. CASE RestStop
  BY <1>9 DEF RestStop, PollInv, PollIsComplete, cells
<1>10. CASE RestTick
  BY <1>10 DEF RestTick, PollInv, PollIsComplete
<1>11. CASE UNCHANGED restVars
  BY <1>11 DEF restVars, cells, PollInv, PollIsComplete, NumbersBefore, Usable
<1>12. QED
  BY <1>1, <1>2, <1>3, <1>4, <1>5, <1>6, <1>7, <1>8, <1>9, <1>10, <1>11 DEF RestNext, RestDone

\* conn_task(), rest_get_json(): a poll ends with exactly the numbers of a
\* usable document dispatched, whatever is missing beside them and however the
\* transfer ended, for any number of values.
THEOREM PollsAreComplete == RestSpec => []PollIsComplete
<1>1. PollInv => PollIsComplete
  BY DEF PollInv
<1>2. QED
  BY PollInit, PollNext, <1>1, PTL DEF RestSpec
=============================================================================
