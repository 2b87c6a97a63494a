------------------------------ MODULE MqttLogger ------------------------------
(***************************************************************************)
(* The schedule of one logger (mqtt_logger.c): snapshots at the multiples  *)
(* of its interval, taken from a wall clock that is not under the          *)
(* program's control.  The clock may be unsynchronised, and may be set     *)
(* forward (first NTP sync) or back at any time; the logger thread may be  *)
(* held up by other loggers.                                               *)
(***************************************************************************)
EXTENDS Integers

CONSTANTS
  Interval,     \* interval of the logger, s
  MaxClock,     \* bound: the wall clock stays below
  MaxSets       \* bound: how often the clock is set

ASSUME MqttLoggerConstants ==
  /\ Interval \in Nat \ {0}
  /\ MaxClock \in Nat
  /\ MaxSets \in Nat

VARIABLES
  clock,        \* the wall clock
  synced,       \* utl_clock_synced()
  next_time,    \* wall clock time of the next snapshot
  thread,       \* logger thread: "startup", "sleep", "task", "ended"
  now,          \* time(NULL) as passed to logger_task()
  slot,         \* time of the last snapshot taken, or None
  set_back,     \* by how much the clock readings went back since then
  sets          \* number of times the clock was set

loggerVars == <<clock, synced, next_time, thread, now, slot, set_back, sets>>

None == -1

NextSlot(t) == (t \div Interval + 1) * Interval

LoggerInit ==
  /\ clock \in 0..MaxClock
  /\ synced \in BOOLEAN
  /\ next_time = 0
  /\ thread = "startup"
  /\ now = 0
  /\ slot = None
  /\ set_back = 0
  /\ sets = 0

-----------------------------------------------------------------------------
\* mqtt_logger_startup(): align, start the thread.
LoggerStartup ==
  /\ thread = "startup"
  /\ next_time' = NextSlot(clock)
  /\ now' = clock
  /\ thread' = "sleep"
  /\ UNCHANGED <<clock, synced, slot, set_back, sets>>

\* logger_thread() reads the clock for this logger.
ReadClock ==
  /\ thread = "sleep"
  /\ now' = clock
  /\ set_back' = IF clock < now THEN set_back + now - clock ELSE set_back
  /\ thread' = "task"
  /\ UNCHANGED <<clock, synced, next_time, slot, sets>>

\* Mutant: no realignment after a jump back.
AlignedNever == next_time

\* The first lines of logger_task(): realign after a jump back.
Aligned ==
  IF next_time - now > Interval THEN NextSlot(now) ELSE next_time

\* The due slot, or the latest one after a jump forward.
DueSlot ==
  IF now - Aligned >= Interval THEN (now \div Interval) * Interval ELSE Aligned

\* logger_task(): nothing is due.
NotDue ==
  /\ thread = "task"
  /\ now < Aligned
  /\ next_time' = Aligned
  /\ thread' = "sleep"
  /\ UNCHANGED <<clock, synced, now, slot, set_back, sets>>

\* Mutant: the schedule does not move on.
DueAgain ==
  /\ thread = "task"
  /\ now >= Aligned
  /\ next_time' = DueSlot
  /\ slot' = IF synced THEN DueSlot ELSE slot
  /\ set_back' = IF synced THEN 0 ELSE set_back
  /\ thread' = "sleep"
  /\ UNCHANGED <<clock, synced, now, sets>>

\* logger_task(): a slot is due; the snapshot is taken if the clock is
\* synchronised, and skipped otherwise.
Due ==
  /\ thread = "task"
  /\ now >= Aligned
  /\ next_time' = DueSlot + Interval
  /\ slot' = IF synced THEN DueSlot ELSE slot
  /\ set_back' = IF synced THEN 0 ELSE set_back
  /\ thread' = "sleep"
  /\ UNCHANGED <<clock, synced, now, sets>>

\* mqtt_logger_shutdown(): the thread ends after its pass.
LoggerShutdown ==
  /\ thread = "sleep"
  /\ thread' = "ended"
  /\ UNCHANGED <<clock, synced, next_time, now, slot, set_back, sets>>

-----------------------------------------------------------------------------
ClockTicks ==
  /\ clock < MaxClock
  /\ clock' = clock + 1
  /\ UNCHANGED <<synced, next_time, thread, now, slot, set_back, sets>>

\* The clock is set, by ntpd or by hand.
SetClock(t) ==
  /\ sets < MaxSets
  /\ sets' = sets + 1
  /\ clock' = t
  /\ UNCHANGED <<synced, next_time, thread, now, slot, set_back>>

SyncChanges ==
  /\ synced' = ~synced
  /\ UNCHANGED <<clock, next_time, thread, now, slot, set_back, sets>>

LoggerNext ==
  \/ LoggerStartup \/ ReadClock \/ NotDue \/ Due \/ LoggerShutdown
  \/ ClockTicks \/ SyncChanges
  \/ \E t \in 0..MaxClock : SetClock(t)

LoggerSpec == LoggerInit /\ [][LoggerNext]_loggerVars

-----------------------------------------------------------------------------
LoggerTypeOK ==
  /\ clock \in 0..MaxClock /\ now \in 0..MaxClock
  /\ synced \in BOOLEAN
  /\ next_time \in 0..(MaxClock + Interval)
  /\ thread \in {"startup", "sleep", "task", "ended"}
  /\ slot \in {None} \cup 0..MaxClock
  /\ set_back \in Nat
  /\ sets \in 0..MaxSets

\* logger_task(): after every pass the next snapshot is an aligned time at
\* most one interval ahead of the clock reading, whatever the clock did: the
\* logger neither falls silent after a jump back nor catches up slot by slot
\* after a jump forward.
NextIsNear ==
  thread = "sleep" =>
    /\ next_time % Interval = 0
    /\ next_time > now /\ next_time - now <= Interval

\* README, "aligned to the clock": a slot is logged once.  As long as the
\* clock is never set back, the times of the snapshots increase.
SlotsIncrease ==
  [][Due /\ synced /\ slot # None /\ set_back = 0 => slot' > slot]_loggerVars
=============================================================================
