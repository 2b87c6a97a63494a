------------------------------ MODULE Counter ------------------------------
(***************************************************************************)
(* A persistent counter of counter.c: readings (or powers) arriving in the *)
(* source's thread, the counter thread that integrates and saves, the      *)
(* state file, crashes and restarts.                                       *)
(*                                                                         *)
(* c->lock is held from the first look at the state to the return of the   *)
(* nested dispatch, so a locked section is one step.  The clock is read    *)
(* before the lock is taken: that is a step of its own.  save_states()     *)
(* copies the state under the lock and writes the file without it.         *)
(*                                                                         *)
(* Energy is an integer multiple of a unit finer than the file's six       *)
(* decimals; Grain units make one in the last decimal.  A power of 1       *)
(* counts 1 unit per tick.  Counters are independent: one is modelled.     *)
(***************************************************************************)
EXTENDS Integers

CONSTANTS
  Configs,          \* counter{} sections, each with the world it is run in
  Grain,            \* units per 10^-6, the last decimal of "%.6f"
  TickPeriod,       \* COUNTER_TICK_MS
  SaveInterval,     \* COUNTER_SAVE_INTERVAL_MS
  Missing, Invalid, \* state file: absent; unreadable or not parsable
  Nothing           \* nothing published yet

ASSUME CounterConstants ==
  /\ Configs \subseteq [integrate_power : BOOLEAN, max_power : Nat, sign : {1, -1},
                        powers : SUBSET Int, steps : SUBSET Nat, glitches : SUBSET Int,
                        energy : Nat, time : Nat, resets : Nat, fails : Nat, loads : Nat]
  /\ \A c \in Configs : c.integrate_power => c.max_power = 0   \* counter_configure()
  /\ Grain \in Nat \ {0}
  /\ TickPeriod \in Nat \ {0} /\ SaveInterval \in Nat \ {0}
  /\ Missing # Invalid
  /\ Missing \notin Nat \X Nat /\ Invalid \notin Nat \X Nat
  /\ Nothing \notin Nat

VARIABLES
  conf,             \* the configuration, chosen once
  \* COUNTER_T
  disabled, initialized, accum, last_read, dirty,
  has_change, change_ts,
  has_power, power, integrated_ts,
  \* the thread that dispatches the source: in source_update() or not
  src_pc, src_now, src_f, src_valid,
  \* the counter thread (its saver part is main's in counter_shutdown())
  thr_pc, thr_now, next_tick, next_save,
  snap,             \* accum and last_read copied by save_states()
  \* program and environment
  phase,            \* "off", "running", "joined", "final"
  file,             \* content of the state file: Missing, Invalid or a pair
  disk,             \* content a power failure may bring back
  published,        \* last total dispatched in this run
  now,              \* utl_get_ticks()
  meter,            \* the device's own counter
  \* history, read by no operation
  energy,           \* energy metered by the device, resets or not
  resets, fails, loads

state    == <<disabled, initialized, accum, last_read, dirty>>
change   == <<has_change, change_ts>>
held     == <<has_power, power, integrated_ts>>
source   == <<src_pc, src_now, src_f, src_valid>>
timers   == <<next_tick, next_save>>
storage  == <<file, disk>>
device   == <<meter, energy, resets>>
vars == <<state, change, held, source, thr_pc, thr_now, timers, snap, phase,
          storage, published, now, device, fails, loads, conf>>

IntegratePower == conf.integrate_power   \* integrate_power
MaxPower       == conf.max_power         \* max_power, 0 = off
Sign           == conf.sign              \* sign: 1 or -1
Powers         == conf.powers            \* source values of a power counter
Steps          == conf.steps             \* energy a device may meter between two readings
Glitches       == conf.glitches          \* readings a device may report for a moment
MaxEnergy      == conf.energy            \* bound: energy metered
MaxTime        == conf.time              \* bound: sources report up to this time
MaxResets      == conf.resets            \* bound: device resets
MaxFails       == conf.fails             \* bound: failed writes of the state file
MaxLoads       == conf.loads             \* bound: starts of the program

Init ==
  /\ conf \in Configs
  /\ disabled = FALSE /\ initialized = FALSE
  /\ accum = 0 /\ last_read = 0 /\ dirty = FALSE
  /\ has_change = FALSE /\ change_ts = 0
  /\ has_power = FALSE /\ power = 0 /\ integrated_ts = 0
  /\ src_pc = "idle" /\ src_now = 0 /\ src_f = 0 /\ src_valid = FALSE
  /\ thr_pc = "sleep" /\ thr_now = 0 /\ next_tick = 0 /\ next_save = 0
  /\ snap = <<0, 0>>
  /\ phase = "off"
  /\ file \in {Missing, Invalid} /\ disk = file
  /\ published = Nothing
  /\ now = 0
  /\ meter = 0 /\ energy = 0 /\ resets = 0 /\ fails = 0 /\ loads = 0

-----------------------------------------------------------------------------
(***************************************************************************)
(* Startup: counter_startup() with load_state().                           *)
(***************************************************************************)

\* Mutant: a file that cannot be parsed is taken for a missing one.
LoadStateOver ==
  /\ disabled' = FALSE
  /\ initialized' = (file \notin {Missing, Invalid})
  /\ accum' = IF initialized' THEN file[1] ELSE 0
  /\ last_read' = IF initialized' THEN file[2] ELSE 0

\* load_state(): a missing file leaves the counter uninitialised, an invalid
\* one disables it, a good one continues the history.
LoadState ==
  /\ disabled' = (file = Invalid)
  /\ initialized' = (file \notin {Missing, Invalid})
  /\ accum' = IF initialized' THEN file[1] ELSE 0
  /\ last_read' = IF initialized' THEN file[2] ELSE 0

\* counter_startup(): the states are loaded, the thread is started.
Startup ==
  /\ phase = "off"
  /\ loads < MaxLoads
  /\ loads' = loads + 1
  /\ phase' = "running"
  /\ LoadState
  /\ next_save' = now + SaveInterval
  /\ UNCHANGED <<dirty, change, held, source, thr_pc, thr_now, next_tick, snap,
                 storage, published, now, device, fails, conf>>

\* The total is dispatched once the counter has one.
Publish == published' = IF ~disabled' /\ initialized' THEN accum' ELSE published

\* counter_publish(), called by main after the outputs are started.
CounterPublish ==
  /\ phase = "running"
  /\ published = Nothing
  /\ UNCHANGED state
  /\ Publish
  /\ UNCHANGED <<change, held, source, thr_pc, thr_now, timers, snap, phase,
                 storage, now, device, fails, loads, conf>>

-----------------------------------------------------------------------------
(***************************************************************************)
(* source_update(), the callback of the source value.                      *)
(***************************************************************************)

\* Entry: the value is the caller's; the clock is read before c->lock.
SourceBegin(f, v) ==
  /\ phase \in {"running", "joined"}
  /\ now <= MaxTime
  /\ src_pc = "idle"
  /\ src_pc' = "update"
  /\ src_now' = now
  /\ src_f' = f
  /\ src_valid' = v
  /\ UNCHANGED <<state, change, held, thr_pc, thr_now, timers, snap, phase,
                 storage, published, now, device, fails, loads, conf>>

\* A device reports its counter, or for a moment nonsense; a power source
\* its power; the watchdog reports either as invalid.
SourceReports ==
  \/ /\ ~IntegratePower
     /\ \E f \in {meter} \cup Glitches : SourceBegin(f, TRUE)
  \/ IntegratePower /\ \E f \in Powers : SourceBegin(f, TRUE)
  \/ SourceBegin(0, FALSE)

\* The locked section is left, the locals are gone.
SourceEnd ==
  /\ src_pc' = "idle"
  /\ src_now' = 0 /\ src_f' = 0 /\ src_valid' = FALSE

\* Mutant: max_power is not applied.
IncreaseUnchecked(raw, t) == IF raw < last_read THEN raw ELSE raw - last_read

\* The energy a changed reading stands for: the difference, or after a
\* device reset the reading itself; nothing if max_power makes it implausible.
Increase(raw, t) ==
  LET delta == IF raw < last_read THEN raw ELSE raw - last_read
  IN  IF MaxPower > 0 /\ has_change /\ delta > MaxPower * (t - change_ts)
      THEN 0 ELSE delta

\* The reading raw, taken at time t, adds delta.
TakeReading(raw, delta, t) ==
  /\ accum' = accum + delta
  /\ last_read' = raw
  /\ initialized' = TRUE
  /\ dirty' = TRUE
  /\ has_change' = TRUE
  /\ change_ts' = t
  /\ UNCHANGED <<disabled, held>>

\* device_update(), and the dispatch of the total.
DeviceUpdate ==
  LET raw == src_f
      t   == src_now
  IN
  /\ ~IntegratePower /\ src_valid /\ src_pc = "update"
  /\ ~disabled
  /\ raw >= 0
  /\ \/ ~initialized /\ TakeReading(raw, raw, t)
     \/ /\ initialized /\ raw # last_read
        /\ TakeReading(raw, Increase(raw, t), t)
     \/ initialized /\ raw = last_read /\ UNCHANGED <<state, change, held>>
  /\ Publish
  /\ SourceEnd
  /\ UNCHANGED <<thr_pc, thr_now, timers, snap, phase, storage, now, device,
                 fails, loads, conf>>

\* Mutant: energy flowing the other way is subtracted.
IntegralBothWays(t) ==
  IF has_power /\ t > integrated_ts
  THEN power * Sign * (t - integrated_ts) ELSE 0

\* The energy integrate() adds when it is called with time t.
Integral(t) ==
  IF has_power /\ t > integrated_ts /\ power * Sign > 0
  THEN power * Sign * (t - integrated_ts) ELSE 0

\* integrate() as far as the total goes; the caller sets the held power.
Integrate(t) ==
  /\ accum' = accum + Integral(t)
  /\ UNCHANGED <<disabled, last_read>>

\* The time integrate() leaves in integrated_ts.
IntegratedTs(t) == IF has_power /\ t > integrated_ts THEN t ELSE integrated_ts

\* power_update(), and the dispatch of the total: the previous power is
\* integrated up to t, then the new one is held from t on.
PowerUpdate ==
  LET t == src_now IN
  /\ IntegratePower /\ src_valid /\ src_pc = "update"
  /\ ~disabled
  /\ Integrate(t)
  /\ initialized' = TRUE
  /\ dirty' = (dirty \/ ~initialized \/ Integral(t) > 0)
  /\ has_power' = TRUE
  /\ power' = src_f
  /\ integrated_ts' = t
  /\ Publish
  /\ SourceEnd
  /\ UNCHANGED <<change, thr_pc, thr_now, timers, snap, phase, storage, now,
                 device, fails, loads, conf>>

\* power_stop(): the source has become invalid.  Nothing is dispatched.
PowerStop ==
  LET t == src_now IN
  /\ IntegratePower /\ ~src_valid /\ src_pc = "update"
  /\ ~disabled
  /\ Integrate(t)
  /\ dirty' = (dirty \/ Integral(t) > 0)
  /\ has_power' = FALSE
  /\ integrated_ts' = IntegratedTs(t)
  /\ UNCHANGED <<initialized, power>>
  /\ SourceEnd
  /\ UNCHANGED <<change, thr_pc, thr_now, timers, snap, phase, storage,
                 published, now, device, fails, loads, conf>>

\* Nothing is taken from the source: the counter is disabled, the reading is
\* negative, or a device counter's source has become invalid.
SourceIgnored ==
  /\ src_pc = "update"
  /\ \/ disabled
     \/ ~IntegratePower /\ (~src_valid \/ src_f < 0)
  /\ SourceEnd
  /\ UNCHANGED <<state, change, held, thr_pc, thr_now, timers, snap, phase,
                 storage, published, now, device, fails, loads, conf>>

SourceUpdate == DeviceUpdate \/ PowerUpdate \/ PowerStop \/ SourceIgnored

-----------------------------------------------------------------------------
(***************************************************************************)
(* counter_thread() and save_states().                                     *)
(***************************************************************************)

\* Loop head: the clock is read once per pass.
ThreadWakes ==
  /\ phase = "running"
  /\ thr_pc = "sleep"
  /\ now >= next_tick \/ now >= next_save
  /\ thr_pc' = "tick"
  /\ thr_now' = now
  /\ UNCHANGED <<state, change, held, source, timers, snap, phase, storage,
                 published, now, device, fails, loads, conf>>

\* The tick, when it is due: a power counter that has a total is integrated
\* up to the pass's time and dispatched.
ThreadTick ==
  /\ thr_pc = "tick"
  /\ thr_pc' = "save"
  /\ next_tick' = IF thr_now >= next_tick THEN thr_now + TickPeriod ELSE next_tick
  /\ IF thr_now >= next_tick /\ IntegratePower /\ ~disabled /\ initialized
     THEN /\ Integrate(thr_now)
          /\ dirty' = (dirty \/ Integral(thr_now) > 0)
          /\ integrated_ts' = IntegratedTs(thr_now)
          /\ UNCHANGED <<initialized, has_power, power>>
          /\ Publish
     ELSE UNCHANGED <<state, held, published>>
  /\ UNCHANGED <<change, source, thr_now, next_save, snap, phase, storage, now,
                 device, fails, loads, conf>>

\* save_states() returns, and the thread's pass ends.
PassEnd ==
  /\ thr_pc' = "sleep"
  /\ thr_now' = 0
  /\ snap' = <<0, 0>>

\* No save is due in this pass.
NoSave ==
  /\ thr_pc = "save"
  /\ phase = "running" /\ thr_now < next_save
  /\ PassEnd
  /\ UNCHANGED <<state, change, held, source, timers, phase, storage, published,
                 now, device, fails, loads, conf>>

\* save_states(): state and flag are copied, the flag is cleared, the lock is
\* released.  Main does the same in counter_shutdown().
SaveSnapshot ==
  /\ thr_pc = "save"
  /\ \/ phase = "final" /\ UNCHANGED next_save
     \/ /\ phase = "running" /\ thr_now >= next_save
        /\ next_save' = thr_now + SaveInterval
  /\ dirty' = FALSE
  /\ IF dirty
     THEN /\ thr_pc' = "write" /\ UNCHANGED thr_now
          /\ snap' = <<accum, last_read>>
     ELSE PassEnd
  /\ UNCHANGED <<disabled, initialized, accum, last_read, change, held, source,
                 next_tick, phase, storage, published, now, device, fails, loads, conf>>

\* "%.6f": the nearest multiple of Grain.
Rounded(x) == ((x + Grain \div 2) \div Grain) * Grain

\* What save_state() writes for the pair s.
FileOf(s) == <<Rounded(s[1]), Rounded(s[2])>>

\* Mutant: the total is written as it is now, not as it was copied.
SaveWriteMixed ==
  /\ thr_pc = "write"
  /\ file' = FileOf(<<accum, snap[2]>>)
  /\ thr_pc' = "sync"
  /\ UNCHANGED <<state, change, held, source, thr_now, timers, snap, phase, disk,
                 published, now, device, fails, loads, conf>>

\* save_state() succeeds: the rename replaces the file as a whole.
SaveWrite ==
  /\ thr_pc = "write"
  /\ file' = FileOf(snap)
  /\ thr_pc' = "sync"
  /\ UNCHANGED <<state, change, held, source, thr_now, timers, snap, phase, disk,
                 published, now, device, fails, loads, conf>>

\* Mutant: a failed write is forgotten.
SaveFailsForgets ==
  /\ thr_pc = "write"
  /\ fails < MaxFails
  /\ fails' = fails + 1
  /\ PassEnd
  /\ UNCHANGED <<state, change, held, source, timers, phase, storage, published,
                 now, device, loads, conf>>

\* save_state() fails at any of its steps: the file is untouched, the state
\* is marked dirty again.
SaveFails ==
  /\ thr_pc = "write"
  /\ fails < MaxFails
  /\ fails' = fails + 1
  /\ dirty' = TRUE
  /\ PassEnd
  /\ UNCHANGED <<disabled, initialized, accum, last_read, change, held, source,
                 timers, phase, storage, published, now, device, loads, conf>>

\* fsync() of the directory makes the rename durable; its failure is ignored.
SaveSync ==
  /\ thr_pc = "sync"
  /\ disk' \in {file, disk}
  /\ PassEnd
  /\ UNCHANGED <<state, change, held, source, timers, phase, file, published,
                 now, device, fails, loads, conf>>

-----------------------------------------------------------------------------
(***************************************************************************)
(* Shutdown and crash.                                                     *)
(***************************************************************************)

\* counter_stop(): the thread ends after its pass and is joined; sources on
\* MQTT and CAN still deliver.
CounterStop ==
  /\ phase = "running"
  /\ thr_pc = "sleep"
  /\ phase' = "joined"
  /\ UNCHANGED <<state, change, held, source, thr_pc, thr_now, timers, snap,
                 storage, published, now, device, fails, loads, conf>>

\* counter_shutdown(): all sources are stopped; the final save begins.
CounterShutdown ==
  /\ phase = "joined"
  /\ src_pc = "idle"
  /\ phase' = "final"
  /\ thr_pc' = "save"
  /\ UNCHANGED <<state, change, held, source, thr_now, timers, snap, storage,
                 published, now, device, fails, loads, conf>>

\* Nothing of the process is left: its memory is that of the next one.
Gone ==
  /\ phase' = "off"
  /\ disabled' = FALSE /\ initialized' = FALSE
  /\ accum' = 0 /\ last_read' = 0 /\ dirty' = FALSE
  /\ has_change' = FALSE /\ change_ts' = 0
  /\ has_power' = FALSE /\ power' = 0 /\ integrated_ts' = 0
  /\ src_pc' = "idle" /\ src_now' = 0 /\ src_f' = 0 /\ src_valid' = FALSE
  /\ thr_pc' = "sleep" /\ thr_now' = 0 /\ next_tick' = 0 /\ next_save' = 0
  /\ snap' = <<0, 0>>
  /\ published' = Nothing
  /\ UNCHANGED <<now, device, fails, loads, conf>>

\* main returns after the final save.
Exit ==
  /\ phase = "final"
  /\ thr_pc = "sleep"
  /\ Gone
  /\ UNCHANGED storage

\* The process is killed, or the power fails; in the second case a rename
\* that was not made durable may be undone.
Crash ==
  /\ phase # "off"
  /\ Gone
  /\ file' \in {file, disk}
  /\ disk' = file'

-----------------------------------------------------------------------------
\* The device meters energy, whether uvrgw runs or not.
Consume(d) ==
  /\ ~IntegratePower
  /\ energy + d <= MaxEnergy
  /\ meter' = meter + d
  /\ energy' = energy + d
  /\ UNCHANGED <<state, change, held, source, thr_pc, thr_now, timers, snap,
                 phase, storage, published, now, resets, fails, loads, conf>>

\* The device loses its count.
DeviceReset ==
  /\ meter > 0
  /\ resets < MaxResets
  /\ meter' = 0
  /\ resets' = resets + 1
  /\ UNCHANGED <<state, change, held, source, thr_pc, thr_now, timers, snap,
                 phase, storage, published, now, energy, fails, loads, conf>>

\* Time passes, up to the bound or the save a device counter still waits for
\* (a power counter has a change to save all the time).
Tick ==
  /\ now < MaxTime \/ (~IntegratePower /\ dirty /\ now < next_save)
  /\ now' = now + 1
  /\ UNCHANGED <<state, change, held, source, thr_pc, thr_now, timers, snap,
                 phase, storage, published, device, fails, loads, conf>>

\* The bounded part of the run is over.
Ended == phase = "off" /\ loads = MaxLoads /\ UNCHANGED vars

ThreadStep ==
  \/ ThreadWakes \/ ThreadTick \/ NoSave \/ SaveSnapshot
  \/ SaveWrite \/ SaveFails \/ SaveSync

Next ==
  \/ Startup \/ CounterPublish
  \/ SourceReports \/ SourceUpdate
  \/ ThreadStep
  \/ CounterStop \/ CounterShutdown \/ Exit \/ Crash
  \/ \E d \in Steps : Consume(d)
  \/ DeviceReset
  \/ Tick
  \/ Ended

Spec == Init /\ [][Next]_vars

\* The counter thread and a source in its callback are scheduled, time passes.
Fairness ==
  /\ WF_vars(ThreadStep)
  /\ WF_vars(SourceUpdate)
  /\ WF_vars(Tick)

FairSpec == Spec /\ Fairness

-----------------------------------------------------------------------------
StateType ==
  /\ disabled \in BOOLEAN /\ initialized \in BOOLEAN /\ dirty \in BOOLEAN
  /\ accum \in Nat /\ last_read \in Nat
  /\ published \in Nat \cup {Nothing}

PowerType ==
  /\ has_change \in BOOLEAN /\ has_power \in BOOLEAN
  /\ change_ts \in Nat /\ integrated_ts \in Nat /\ power \in Int

ThreadType ==
  /\ src_pc \in {"idle", "update"} /\ src_valid \in BOOLEAN
  /\ src_f \in Int /\ src_now \in Nat
  /\ thr_pc \in {"sleep", "tick", "save", "write", "sync"}
  /\ thr_now \in Nat /\ next_tick \in Nat /\ next_save \in Nat /\ now \in Nat
  /\ phase \in {"off", "running", "joined", "final"}

FileType ==
  /\ snap \in Nat \X Nat
  /\ file \in (Nat \X Nat) \cup {Missing, Invalid}
  /\ disk \in (Nat \X Nat) \cup {Missing, Invalid}

WorldType ==
  /\ conf \in Configs
  /\ meter \in Nat /\ energy \in Nat /\ resets \in Nat /\ fails \in Nat /\ loads \in Nat

TypeOK == StateType /\ PowerType /\ ThreadType /\ FileType /\ WorldType

\* A state that is not marked dirty is in the file, unless save_states() is
\* just writing it: a reading that arrives while the file is written, or a
\* failed write, never leaves a change unsaved and unnoticed.
CleanIsSaved ==
  phase # "off" /\ initialized /\ ~dirty /\ thr_pc # "write" =>
    file = FileOf(<<accum, last_read>>)

\* The total dispatched to the outputs never decreases while the program
\* runs, whatever the device or the power does.
TotalNeverDecreases ==
  [][published # Nothing /\ published' # Nothing => published' >= published]_vars

\* A state file that cannot be parsed is never overwritten, and nothing is
\* published in its place.
BrokenFileIsKept ==
  [][file = Invalid => file' = Invalid /\ published' = Nothing]_vars

\* A device counter never counts energy the device has not metered, across
\* device resets, crashes, lost saves and restarts.  Every start may add what
\* the rounding of the saved pair is worth.  (The device reports its count or
\* something negative; for other nonsense see GlitchesAreBounded.)
NeverOvercounts ==
  phase # "off" /\ ~IntegratePower /\ (\A g \in Glitches : g < 0) =>
    accum <= energy + loads * (Grain - 1)

\* With max_power, a device that reports nonsense for a moment and then goes
\* on adds no more than max_power allows for the time that passed, however
\* often it does so.  Nonsense is counted as a whole at most once, as the very
\* first reading.  (In the first run: after a restart the first change is
\* taken unchecked.)
GlitchesAreBounded ==
  phase # "off" /\ MaxPower > 0 /\ loads = 1 =>
    \E first \in {0} \cup Glitches : accum <= energy + MaxPower * now + first

\* A change is saved within the run: either the file has the state, or the
\* program is stopped (and saves it then) or killed.  (A power counter has a
\* change to save all the time, beyond the bound on the clock.)
ChangesAreSaved ==
  dirty /\ phase = "running" /\ ~IntegratePower ~>
    file = FileOf(<<accum, last_read>>) \/ phase # "running"

=============================================================================
