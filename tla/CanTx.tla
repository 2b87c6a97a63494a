-------------------------------- MODULE CanTx --------------------------------
(***************************************************************************)
(* The transmit side of one CAN interface (can.c): dispatching threads     *)
(* write values into the send buffer of a frame and arm its send time, the *)
(* TX thread of the interface sends the frames that are due and the        *)
(* periodic timestamp.  A failing write loses its frame and ends the pass  *)
(* of the TX thread, which sleeps after every pass.                        *)
(*                                                                         *)
(* Times are relative to the present: send_time is what is left until the  *)
(* frame is due, a clock reading is the time that has passed since.  What  *)
(* has been due for MaxLag is due for every reading, so the time left is   *)
(* not counted down any further.                                           *)
(***************************************************************************)
EXTENDS Integers

CONSTANTS
  NumFrames,       \* output frames of the interface
  Slots,           \* values of a frame
  Threads,         \* dispatching threads
  Timings,         \* pairs of a send_timeout and a timestamp_period; period 0 disables
  TxSleep,         \* longest sleep: IFACE_THREAD_PERIOD_US and the delay of waking up
  MaxLag,          \* bound: a pass or a send_value() call takes at most this
  Updates,         \* frame -> values its slots may be given
  Idle             \* send_time = 0

Frames == 1..NumFrames
Values == 0..1

ASSUME CanTxConstants ==
  /\ NumFrames \in Nat \ {0}
  /\ Timings \subseteq Nat \X Nat
  /\ {TxSleep, MaxLag} \subseteq Nat \ {0}
  /\ Updates \in [Frames -> SUBSET Values]
  /\ Idle \notin Int

VARIABLES
  send_timeout,  \* of the interface, as configured
  stamp_period,  \* timestamp_period of the interface, as configured
  send_buf,      \* frame -> slot -> value
  send_time,     \* frame -> time left, or Idle
  next_stamp,    \* time left until the next timestamp
  pc,            \* TX thread: "sleep", "stamp", "frame", "write"
  frame_idx,     \* TX thread: frame being looked at
  until_pass,    \* TX thread: time left of its sleep
  now_lag,       \* TX thread: age of the clock reading of this pass
  handed,        \* frame -> last contents handed to write()
  call,          \* thread -> send_value() call in progress
  call_lag,      \* thread -> age of its clock reading
  running        \* thread_running

conf == <<send_timeout, stamp_period>>
vars == <<conf, send_buf, send_time, next_stamp, pc, frame_idx, until_pass, now_lag, handed,
          call, call_lag, running>>

NoCall == [frame |-> 0]

\* iface_configure() takes any times.  iface_startup(): cleared buffers, idle
\* frames, the timestamp due at once.
Init ==
  /\ \E c \in Timings : send_timeout = c[1] /\ stamp_period = c[2]
  /\ send_buf = [f \in Frames |-> [s \in Slots |-> 0]]
  /\ send_time = [f \in Frames |-> Idle]
  /\ next_stamp = 0
  /\ pc = "sleep"
  /\ frame_idx = 1
  /\ until_pass = 0
  /\ now_lag = 0
  /\ handed = send_buf
  /\ call = [t \in Threads |-> NoCall]
  /\ call_lag = [t \in Threads |-> 0]
  /\ running = TRUE

\* The TX thread holds the mutex of the frame it writes; every other section
\* under the mutex is a single step.
MutexFree(f) == ~(pc = "write" /\ frame_idx = f)

-----------------------------------------------------------------------------
(***************************************************************************)
(* send_value(), called by the dispatcher.                                 *)
(***************************************************************************)
\* Mutant: the buffer is written before the mutex is taken.
SendBeginWrites(t, f, s, v) ==
  /\ call[t] = NoCall
  /\ call' = [call EXCEPT ![t] = [frame |-> f, slot |-> s, value |-> v]]
  /\ call_lag' = [call_lag EXCEPT ![t] = 0]
  /\ send_buf' = [send_buf EXCEPT ![f][s] = v]
  /\ UNCHANGED <<conf, send_time, next_stamp, pc, frame_idx, until_pass, now_lag, handed,
                 running>>

\* The clock is read before the mutex is taken.
SendBegin(t, f, s, v) ==
  /\ call[t] = NoCall
  /\ call' = [call EXCEPT ![t] = [frame |-> f, slot |-> s, value |-> v]]
  /\ call_lag' = [call_lag EXCEPT ![t] = 0]
  /\ UNCHANGED <<conf, send_buf, send_time, next_stamp, pc, frame_idx, until_pass, now_lag,
                 handed, running>>

\* Under the mutex: write the value, arm the send time unless it is armed.
SendStore(t) ==
  LET c == call[t] IN
  /\ c # NoCall
  /\ MutexFree(c.frame)
  /\ send_buf' = [send_buf EXCEPT ![c.frame][c.slot] = c.value]
  /\ send_time' = IF send_time[c.frame] = Idle
                  THEN [send_time EXCEPT ![c.frame] = send_timeout - call_lag[t]]
                  ELSE send_time
  /\ call' = [call EXCEPT ![t] = NoCall]
  /\ call_lag' = [call_lag EXCEPT ![t] = 0]
  /\ UNCHANGED <<conf, next_stamp, pc, frame_idx, until_pass, now_lag, handed, running>>

-----------------------------------------------------------------------------
(***************************************************************************)
(* iface_thread() and iface_task().                                        *)
(***************************************************************************)
\* The thread wakes up and reads the clock.
PassBegin ==
  /\ pc = "sleep" /\ until_pass = 0
  /\ running
  /\ pc' = "stamp"
  /\ now_lag' = 0
  /\ UNCHANGED <<conf, send_buf, send_time, next_stamp, frame_idx, until_pass, handed, call,
                 call_lag, running>>

\* The pass ends and the thread sleeps.
PassReturns ==
  /\ pc' = "sleep" /\ frame_idx' = 1
  /\ until_pass' \in 1..TxSleep
  /\ now_lag' = 0

StampDue == stamp_period > 0 /\ next_stamp + now_lag <= 0

\* No timestamp is due, or one is sent, or the clock is not synchronised.
Stamp ==
  /\ pc = "stamp"
  /\ next_stamp' = IF StampDue THEN stamp_period - now_lag ELSE next_stamp
  /\ pc' = "frame"
  /\ UNCHANGED <<conf, send_buf, send_time, frame_idx, until_pass, now_lag, handed, call,
                 call_lag, running>>

\* Mutant: the next timestamp is set only after one was sent.
StampFailsRepeats ==
  /\ pc = "stamp"
  /\ StampDue
  /\ PassReturns
  /\ UNCHANGED <<conf, send_buf, send_time, next_stamp, handed, call, call_lag,
                 running>>

\* The timestamp cannot be written: the next one is set already, the pass ends.
StampFails ==
  /\ pc = "stamp"
  /\ StampDue
  /\ next_stamp' = stamp_period - now_lag
  /\ PassReturns
  /\ UNCHANGED <<conf, send_buf, send_time, handed, call, call_lag, running>>

FrameDue(f) == send_time[f] # Idle /\ send_time[f] + now_lag <= 0

\* The frame is not due.
FrameWaits ==
  /\ pc = "frame"
  /\ frame_idx \in Frames
  /\ ~FrameDue(frame_idx)
  /\ frame_idx' = frame_idx + 1
  /\ UNCHANGED <<conf, send_buf, send_time, next_stamp, pc, until_pass, now_lag, handed,
                 call, call_lag, running>>

\* The frame is due: the send time is cleared, write() is called under the
\* mutex.
FrameTaken ==
  /\ pc = "frame"
  /\ frame_idx \in Frames
  /\ FrameDue(frame_idx)
  /\ send_time' = [send_time EXCEPT ![frame_idx] = Idle]
  /\ pc' = "write"
  /\ UNCHANGED <<conf, send_buf, next_stamp, frame_idx, until_pass, now_lag, handed, call,
                 call_lag, running>>

FrameWritten ==
  /\ pc = "write"
  /\ handed' = [handed EXCEPT ![frame_idx] = send_buf[frame_idx]]
  /\ pc' = "frame"
  /\ frame_idx' = frame_idx + 1
  /\ UNCHANGED <<conf, send_buf, send_time, next_stamp, until_pass, now_lag, call, call_lag,
                 running>>

\* iface_write() fails: the frame is lost, it is not armed again; the pass ends.
FrameFails ==
  /\ pc = "write"
  /\ handed' = [handed EXCEPT ![frame_idx] = send_buf[frame_idx]]
  /\ PassReturns
  /\ UNCHANGED <<conf, send_buf, send_time, next_stamp, call, call_lag, running>>

PassEnd ==
  /\ pc = "frame"
  /\ frame_idx > NumFrames
  /\ PassReturns
  /\ UNCHANGED <<conf, send_buf, send_time, next_stamp, handed, call, call_lag,
                 running>>

\* can_shutdown() clears thread_running.
Shutdown ==
  /\ running
  /\ running' = FALSE
  /\ UNCHANGED <<conf, send_buf, send_time, next_stamp, pc, frame_idx, until_pass, now_lag,
                 handed, call, call_lag>>

Before(t) == IF t > -MaxLag THEN t - 1 ELSE t

\* One tick passes, for frames that are due too.  A sleep takes at most TxSleep,
\* a pass and a call at most MaxLag.
Tick ==
  /\ running
  /\ IF pc = "sleep" THEN until_pass > 0 ELSE now_lag < MaxLag
  /\ \A t \in Threads : call_lag[t] < MaxLag
  /\ send_time' = [f \in Frames |-> IF send_time[f] = Idle THEN Idle ELSE Before(send_time[f])]
  /\ next_stamp' = IF stamp_period > 0 THEN Before(next_stamp) ELSE next_stamp
  /\ until_pass' = IF pc = "sleep" THEN until_pass - 1 ELSE until_pass
  /\ now_lag' = IF pc = "sleep" THEN 0 ELSE now_lag + 1
  /\ call_lag' = [t \in Threads |-> IF call[t] = NoCall THEN 0 ELSE call_lag[t] + 1]
  /\ UNCHANGED <<conf, send_buf, pc, frame_idx, handed, call, running>>

Ended == ~running /\ pc = "sleep" /\ UNCHANGED vars

-----------------------------------------------------------------------------
TxStep ==
  PassBegin \/ Stamp \/ StampFails \/ FrameWaits \/ FrameTaken \/ FrameWritten
    \/ FrameFails \/ PassEnd

Next ==
  \/ \E t \in Threads, f \in Frames, s \in Slots : \E v \in Updates[f] : SendBegin(t, f, s, v)
  \/ \E t \in Threads : SendStore(t)
  \/ TxStep
  \/ Shutdown
  \/ Tick
  \/ Ended

Spec == Init /\ [][Next]_vars

\* The TX thread and the dispatching threads are scheduled, time passes.
\* Nothing is assumed of the writes: each of them may fail.
Fairness ==
  /\ WF_vars(TxStep)
  /\ \A t \in Threads : SF_vars(SendStore(t))
  /\ WF_vars(Tick)

FairSpec == Spec /\ Fairness

-----------------------------------------------------------------------------
TypeOK ==
  /\ send_buf \in [Frames -> [Slots -> Values]]
  /\ handed \in [Frames -> [Slots -> Values]]
  /\ send_timeout \in Nat /\ stamp_period \in Nat
  /\ \A f \in Frames : send_time[f] # Idle => send_time[f] \in -MaxLag..send_timeout
  /\ next_stamp \in -MaxLag..stamp_period
  /\ pc \in {"sleep", "stamp", "frame", "write"}
  /\ frame_idx \in 1..(NumFrames + 1)
  /\ until_pass \in 0..TxSleep
  /\ now_lag \in 0..MaxLag
  /\ call_lag \in [Threads -> 0..MaxLag]
  /\ running \in BOOLEAN

\* send_value() and iface_task(): no update falls between the two threads.  A
\* frame that is not armed and not being written holds exactly what was last
\* handed to write(), whatever slot, thread and moment the last update came
\* from.
NoUpdateForgotten ==
  \A f \in Frames :
    send_time[f] = Idle /\ MutexFree(f) => handed[f] = send_buf[f]

\* The longest time between the clock readings of two passes.
PassTime == TxSleep + MaxLag

\* The times leave room for frame f: neither the timestamp nor a frame before it
\* is due a second time before the TX thread had a pass for each of them.
Roomy(f) ==
  /\ stamp_period > 0 => stamp_period > f * PassTime
  /\ f > 1 => send_timeout > f * PassTime + MaxLag

PassCompletes == pc = "frame" /\ frame_idx > NumFrames

\* iface_task(): an armed frame is handed to write().  A failing write ends the
\* pass, but what failed is not what the next pass starts with, so with a
\* timestamp_period and a send_timeout that leave room for the frame no write
\* need ever succeed.  With shorter times it is enough that a pass gets through
\* to its end now and then.
ArmedIsSent ==
  \A f \in Frames :
    []<>(Roomy(f) \/ PassCompletes) => (send_time[f] # Idle ~> send_time[f] = Idle \/ ~running)
=============================================================================
