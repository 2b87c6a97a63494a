------------------------------ MODULE Dispatch ------------------------------
(***************************************************************************)
(* The named value dispatcher of uvrgw_conf.c and its stale data watchdog. *)
(*                                                                         *)
(* Every value name has one producer and any number of output callbacks.   *)
(* Input threads publish with uvrgw_conf_disp_val(); one watchdog thread   *)
(* resets names whose source fell silent; any thread may read the stored   *)
(* value with uvrgw_conf_get_val().  Two mutexes per name order them:      *)
(* disp_lock (store + arm + all callbacks) and last_lock (the stored pair).*)
(*                                                                         *)
(* A thread is a program counter with the frame of the one dispatch it is  *)
(* in.  Each access to shared state that another thread can observe is a   *)
(* step of its own.  A callback is one step of arbitrary duration; what    *)
(* the callbacks do inside is modelled with the outputs they belong to.    *)
(***************************************************************************)
EXTENDS Integers, Sequences

CONSTANTS
  NumNames,      \* length of the dispatcher list; names are its positions
  Producers,     \* threads that publish real data
  EarlyThreads,  \* producers running before and after the watchdog (MQTT, counter)
  Watchdog,      \* the watchdog thread
  Readers,       \* threads calling uvrgw_conf_get_val()
  Finite,        \* the finite numbers a producer may publish
  NonFinite,     \* a NaN or infinity
  Writers,       \* name -> threads that publish it
  Computed,      \* names produced by a counter or an eval (producer_input = false)
  Cbs,           \* name -> sequence of registered callback values (value_cbs)
  ProducerVal,   \* name -> value pointer of its producer (producer_val)
  InitValue,     \* name -> init_value
  StaleTimeout,  \* name -> stale_timeout in ticks, 0 = never
  CheckPeriod,   \* WATCHDOG_CHECK_MS in ticks
  NoOne,         \* owner of a free mutex
  None,          \* "nothing delivered yet"
  DataHorizon,   \* bound: no dispatch is begun after this time
  MaxTime        \* bound: the clock stops here

Names   == 1..NumNames
Threads == Producers \cup {Watchdog}
Actors  == Threads \cup Readers
Timed   == {n \in Names : StaleTimeout[n] > 0}
Pairs   == Finite \X BOOLEAN

ASSUME ConstantsOK ==
  /\ NumNames \in Nat \ {0}
  /\ EarlyThreads \subseteq Producers
  /\ Watchdog \notin Producers
  /\ Threads \cap Readers = {}
  /\ NoOne \notin Actors
  /\ Finite # {}
  /\ NonFinite \notin Finite
  /\ None \notin Pairs
  /\ Writers \in [Names -> SUBSET Producers]
  /\ DOMAIN Cbs = Names
  /\ \A n \in Names : Len(Cbs[n]) \in Nat /\ DOMAIN Cbs[n] = 1..Len(Cbs[n])
  /\ DOMAIN ProducerVal = Names
  /\ InitValue \in [Names -> Finite]
  /\ StaleTimeout \in [Names -> Nat]
  /\ Computed \subseteq Names \ Timed
  /\ CheckPeriod \in Nat \ {0}
  /\ DataHorizon \in Nat
  /\ MaxTime \in Nat

VARIABLES
  \* struct UVRGW_CONF_VAL_DISPATCH, one entry per name
  last_value, valid,               \* the stored pair, protected by last_lock
  deadline, timed_out, received,   \* protected by disp_lock
  disp_lock, last_lock,            \* owner of each mutex
  \* the threads
  pc,                              \* where each thread is
  arg_n, arg_f, arg_v,             \* the dispatch it is in: name, number, validity
  cb_i,                            \* and the next callback to call
  next_check, pass_now,            \* watchdog: time of the next pass, `now' of this pass
  \* main thread
  phase, arm_pos, start_now,       \* startup/shutdown progress, position and `now' of the arming loop
  \* environment
  now,                             \* utl_get_ticks()
  delivered,                       \* name -> callback position -> last pair given to the callback
  peek,                            \* reader -> name it reads and the validity read so far
  got,                             \* reader -> what uvrgw_conf_get_val() returned last
  \* history, read by no action
  last_data                        \* name -> time the last real data was stored, 0 = never

store == <<last_value, valid, last_lock>>
reads == <<peek, got>>
frame == <<arg_n, arg_f, arg_v, cb_i>>
wdog  == <<next_check, pass_now>>
main  == <<phase, arm_pos, start_now>>
vars  == <<last_value, valid, deadline, timed_out, received, disp_lock,
           last_lock, pc, arg_n, arg_f, arg_v, cb_i, next_check, pass_now, phase,
           arm_pos, start_now, now, delivered, peek, got, last_data>>

\* A number for the frames of threads that are in no dispatch.
AnyNumber == CHOOSE x \in Finite : TRUE

-----------------------------------------------------------------------------
(***************************************************************************)
(* State after uvrgw_conf_load(): every name holds its init_value, is      *)
(* invalid and disarmed, and no callback has been called.                  *)
(***************************************************************************)
Init ==
  /\ last_value = InitValue
  /\ valid = [n \in Names |-> FALSE]
  /\ deadline = [n \in Names |-> 0]
  /\ timed_out = [n \in Names |-> FALSE]
  /\ received = [n \in Names |-> FALSE]
  /\ disp_lock = [n \in Names |-> NoOne]
  /\ last_lock = [n \in Names |-> NoOne]
  /\ pc = [t \in Actors |-> "idle"]
  /\ arg_n = [t \in Threads |-> 1]
  /\ arg_f = [t \in Threads |-> AnyNumber]
  /\ arg_v = [t \in Threads |-> FALSE]
  /\ cb_i = [t \in Threads |-> 1]
  /\ next_check = 0
  /\ pass_now = 0
  /\ phase = "configured"
  /\ arm_pos = 1
  /\ start_now = 0
  /\ now = 1
  /\ delivered = [n \in Names |-> [i \in DOMAIN Cbs[n] |-> None]]
  /\ peek = [r \in Readers |-> [n |-> 1, v |-> FALSE]]
  /\ got = [r \in Readers |-> [n |-> 1, p |-> <<InitValue[1], FALSE>>]]
  /\ last_data = [n \in Names |-> 0]

-----------------------------------------------------------------------------
\* Thread t enters a dispatch of f, v to name n.
SetFrame(t, n, f, v) ==
  /\ arg_n' = [arg_n EXCEPT ![t] = n]
  /\ arg_f' = [arg_f EXCEPT ![t] = f]
  /\ arg_v' = [arg_v EXCEPT ![t] = v]
  /\ cb_i' = [cb_i EXCEPT ![t] = 1]

\* Thread t is in no dispatch; n is the list position it goes on with.
ClearFrame(t, n) == SetFrame(t, n, AnyNumber, FALSE)

(***************************************************************************)
(* uvrgw_conf_disp_val(), called by producer t.                            *)
(***************************************************************************)

\* main starts the other producers after the watchdog and joins them before
\* it; the MQTT and counter threads run on both sides of it.
MayPublish(t) ==
  \/ phase = "running"
  \/ t \in EarlyThreads /\ phase # "stopped"

\* Entry of uvrgw_conf_disp_val(): non-finite values are dropped.  Inputs
\* always pass valid = true, computed names pass the validity they computed.
DispVal(t, n, f, v) ==
  /\ pc[t] = "idle"
  /\ MayPublish(t)
  /\ t \in Writers[n]
  /\ now <= DataHorizon
  /\ n \in Computed \/ v
  /\ f # NonFinite
  /\ pc' = [pc EXCEPT ![t] = "lock"]
  /\ SetFrame(t, n, f, v)
  /\ UNCHANGED <<store, deadline, timed_out, received, disp_lock, wdog, main,
                 now, delivered, reads, last_data>>

\* Mutant: disp_lock does not exclude anybody.
LockNameShared(t) ==
  LET n == arg_n[t] IN
  /\ pc[t] = "lock"
  /\ disp_lock' = [disp_lock EXCEPT ![n] = t]
  /\ pc' = [pc EXCEPT ![t] = IF t = Watchdog THEN "check" ELSE "store"]
  /\ UNCHANGED <<store, deadline, timed_out, received, frame, wdog, main, now,
                 delivered, reads, last_data>>

\* pthread_mutex_lock(&dp->disp_lock), by a producer or by the watchdog.
LockName(t) ==
  LET n == arg_n[t] IN
  /\ pc[t] = "lock"
  /\ disp_lock[n] = NoOne
  /\ disp_lock' = [disp_lock EXCEPT ![n] = t]
  /\ pc' = [pc EXCEPT ![t] = IF t = Watchdog THEN "check" ELSE "store"]
  /\ UNCHANGED <<store, deadline, timed_out, received, frame, wdog, main, now,
                 delivered, reads, last_data>>

\* Lock last_lock and store the number; the validity follows in StoreValid.
StoreValue(t) ==
  LET n == arg_n[t] IN
  /\ pc[t] = "store"
  /\ last_lock[n] = NoOne
  /\ last_lock' = [last_lock EXCEPT ![n] = t]
  /\ last_value' = [last_value EXCEPT ![n] = arg_f[t]]
  /\ last_data' = IF arg_v[t] THEN [last_data EXCEPT ![n] = now] ELSE last_data
  /\ pc' = [pc EXCEPT ![t] = "storing"]
  /\ UNCHANGED <<valid, deadline, timed_out, received, disp_lock, frame, wdog,
                 main, now, delivered, reads>>

\* Store the validity and unlock last_lock.
StoreValid(t) ==
  LET n == arg_n[t] IN
  /\ pc[t] = "storing"
  /\ valid' = [valid EXCEPT ![n] = arg_v[t]]
  /\ last_lock' = [last_lock EXCEPT ![n] = NoOne]
  /\ pc' = [pc EXCEPT ![t] = IF t = Watchdog THEN "fire" ELSE "arm"]
  /\ UNCHANGED <<last_value, deadline, timed_out, received, disp_lock, frame,
                 wdog, main, now, delivered, reads, last_data>>

\* Mutant: real data leaves timed_out set.
ArmKeepsTimedOut(t) ==
  LET n == arg_n[t] IN
  /\ pc[t] = "arm"
  /\ received' = IF arg_v[t] THEN [received EXCEPT ![n] = TRUE] ELSE received
  /\ deadline' = IF arg_v[t] /\ StaleTimeout[n] > 0
                 THEN [deadline EXCEPT ![n] = now + StaleTimeout[n]]
                 ELSE deadline
  /\ pc' = [pc EXCEPT ![t] = "fire"]
  /\ UNCHANGED <<store, timed_out, disp_lock, frame, wdog, main, now, delivered,
                 reads, last_data>>

\* if (valid): mark received, re-arm the watchdog, clear timed_out.
Arm(t) ==
  LET n == arg_n[t] IN
  /\ pc[t] = "arm"
  /\ IF arg_v[t]
     THEN /\ received' = [received EXCEPT ![n] = TRUE]
          /\ deadline' = IF StaleTimeout[n] > 0
                         THEN [deadline EXCEPT ![n] = now + StaleTimeout[n]]
                         ELSE deadline
          /\ timed_out' = [timed_out EXCEPT ![n] = FALSE]
     ELSE UNCHANGED <<received, deadline, timed_out>>
  /\ pc' = [pc EXCEPT ![t] = "fire"]
  /\ UNCHANGED <<store, disp_lock, frame, wdog, main, now, delivered, reads,
                 last_data>>

\* One iteration of fire_cbs(): the callback of the source is left out.
FireCb(t) ==
  LET n == arg_n[t]
      i == cb_i[t]
  IN
  /\ pc[t] = "fire"
  /\ i <= Len(Cbs[n])
  /\ delivered' = IF Cbs[n][i] # ProducerVal[n]
                  THEN [delivered EXCEPT ![n][i] = <<arg_f[t], arg_v[t]>>]
                  ELSE delivered
  /\ cb_i' = [cb_i EXCEPT ![t] = i + 1]
  /\ UNCHANGED <<arg_n, arg_f, arg_v, store, deadline, timed_out, received, disp_lock, pc, wdog,
                 main, now, reads, last_data>>

\* Mutant: the callback loop ends one callback early.
UnlockNameEarly(t) ==
  LET n == arg_n[t] IN
  /\ pc[t] = "fire"
  /\ cb_i[t] >= Len(Cbs[n])
  /\ disp_lock' = [disp_lock EXCEPT ![n] = NoOne]
  /\ pc' = [pc EXCEPT ![t] = "idle"]
  /\ ClearFrame(t, 1)
  /\ UNCHANGED <<store, deadline, timed_out, received, wdog, main, now,
                 delivered, reads, last_data>>

\* All callbacks have returned: unlock disp_lock.  A producer returns from
\* uvrgw_conf_disp_val().
UnlockName(t) ==
  LET n == arg_n[t] IN
  /\ pc[t] = "fire"
  /\ cb_i[t] > Len(Cbs[n])
  /\ disp_lock' = [disp_lock EXCEPT ![n] = NoOne]
  /\ pc' = [pc EXCEPT ![t] = "idle"]
  /\ ClearFrame(t, 1)
  /\ UNCHANGED <<store, deadline, timed_out, received, wdog, main, now,
                 delivered, reads, last_data>>

-----------------------------------------------------------------------------
(***************************************************************************)
(* uvrgw_conf_get_val(): both fields are read under last_lock alone, so a  *)
(* reader never waits for a callback.                                      *)
(***************************************************************************)

\* Lock last_lock and read the validity.
ReadValid(r, n) ==
  /\ pc[r] = "idle"
  /\ phase # "stopped"
  /\ last_lock[n] = NoOne
  /\ last_lock' = [last_lock EXCEPT ![n] = r]
  /\ peek' = [peek EXCEPT ![r] = [n |-> n, v |-> valid[n]]]
  /\ pc' = [pc EXCEPT ![r] = "reading"]
  /\ UNCHANGED <<last_value, valid, deadline, timed_out, received, disp_lock,
                 frame, wdog, main, now, delivered, got, last_data>>

\* Read the number and unlock last_lock.
ReadValue(r) ==
  LET n == peek[r].n IN
  /\ pc[r] = "reading"
  /\ last_lock' = [last_lock EXCEPT ![n] = NoOne]
  /\ got' = [got EXCEPT ![r] = [n |-> n, p |-> <<last_value[n], peek[r].v>>]]
  /\ pc' = [pc EXCEPT ![r] = "idle"]
  /\ UNCHANGED <<last_value, valid, deadline, timed_out, received, disp_lock,
                 frame, wdog, main, now, delivered, peek, last_data>>

-----------------------------------------------------------------------------
(***************************************************************************)
(* watchdog_thread() and watchdog_check().                                 *)
(***************************************************************************)

\* Loop head: a pass begins when next_check is reached; `now' is read once.
\* The thread runs from uvrgw_conf_startup() to uvrgw_conf_shutdown().
WatchdogPass ==
  /\ pc[Watchdog] = "idle"
  /\ phase = "running"
  /\ Timed # {}
  /\ now >= next_check
  /\ next_check' = now + CheckPeriod
  /\ pass_now' = now
  /\ pc' = [pc EXCEPT ![Watchdog] = "next"]
  /\ ClearFrame(Watchdog, 1)
  /\ UNCHANGED <<store, deadline, timed_out, received, disp_lock, main, now,
                 delivered, reads, last_data>>

\* for (dp = disp; dp != NULL; dp = dp->next): the pass ends behind the last
\* name.
WatchdogPassDone ==
  /\ pc[Watchdog] = "next"
  /\ arg_n[Watchdog] > NumNames
  /\ pc' = [pc EXCEPT ![Watchdog] = "idle"]
  /\ ClearFrame(Watchdog, 1)
  /\ UNCHANGED <<store, deadline, timed_out, received, disp_lock, wdog, main,
                 now, delivered, reads, last_data>>

\* A name without a stale_timeout is skipped.
WatchdogSkip ==
  LET n == arg_n[Watchdog] IN
  /\ pc[Watchdog] = "next"
  /\ n <= NumNames
  /\ StaleTimeout[n] = 0
  /\ ClearFrame(Watchdog, n + 1)
  /\ UNCHANGED <<store, deadline, timed_out, received, disp_lock, pc, wdog,
                 main, now, delivered, reads, last_data>>

\* watchdog_check() is called for the others and waits for disp_lock.
WatchdogVisit ==
  LET n == arg_n[Watchdog] IN
  /\ pc[Watchdog] = "next"
  /\ n <= NumNames
  /\ StaleTimeout[n] > 0
  /\ pc' = [pc EXCEPT ![Watchdog] = "lock"]
  /\ UNCHANGED <<store, deadline, timed_out, received, disp_lock, frame, wdog,
                 main, now, delivered, reads, last_data>>

\* Mutant: expiry is found one tick early.
ExpiredEarly(n) == deadline[n] # 0 /\ pass_now + 1 >= deadline[n]

\* The test of watchdog_check(), made with disp_lock held.
Expired(n) == deadline[n] # 0 /\ pass_now >= deadline[n]

\* An expired name is disarmed; its reset to init_value is stored and fired.
WatchdogExpire ==
  LET n == arg_n[Watchdog] IN
  /\ pc[Watchdog] = "check"
  /\ Expired(n)
  /\ deadline' = [deadline EXCEPT ![n] = 0]
  /\ timed_out' = [timed_out EXCEPT ![n] = TRUE]
  /\ pc' = [pc EXCEPT ![Watchdog] = "store"]
  /\ SetFrame(Watchdog, n, InitValue[n], FALSE)
  /\ UNCHANGED <<store, received, disp_lock, wdog, main, now, delivered, reads,
                 last_data>>

\* Leaving watchdog_check(), on to the next name: nothing was to be done, or
\* all callbacks have been given the reset.
WatchdogLeave ==
  LET n == arg_n[Watchdog] IN
  /\ \/ pc[Watchdog] = "check" /\ ~Expired(n)
     \/ pc[Watchdog] = "fire" /\ cb_i[Watchdog] > Len(Cbs[n])
  /\ disp_lock' = [disp_lock EXCEPT ![n] = NoOne]
  /\ pc' = [pc EXCEPT ![Watchdog] = "next"]
  /\ ClearFrame(Watchdog, n + 1)
  /\ UNCHANGED <<store, deadline, timed_out, received, wdog, main, now,
                 delivered, reads, last_data>>

-----------------------------------------------------------------------------
(***************************************************************************)
(* uvrgw_conf_startup() and uvrgw_conf_shutdown(), called by main.         *)
(***************************************************************************)

\* Entry of uvrgw_conf_startup(): `now' is read before the loop.
StartupBegin ==
  /\ phase = "configured"
  /\ phase' = "arming"
  /\ start_now' = now
  /\ UNCHANGED <<store, deadline, timed_out, received, disp_lock, pc, frame,
                 wdog, arm_pos, now, delivered, reads, last_data>>

\* Mutant: only names that have delivered data are armed at startup.
StartupArmReceived ==
  /\ phase = "arming"
  /\ arm_pos <= NumNames
  /\ StaleTimeout[arm_pos] > 0 => disp_lock[arm_pos] = NoOne
  /\ deadline' = IF StaleTimeout[arm_pos] > 0 /\ received[arm_pos] /\ deadline[arm_pos] = 0
                 THEN [deadline EXCEPT ![arm_pos] = start_now + StaleTimeout[arm_pos]]
                 ELSE deadline
  /\ arm_pos' = arm_pos + 1
  /\ UNCHANGED <<store, timed_out, received, disp_lock, pc, frame, wdog, phase,
                 start_now, now, delivered, reads, last_data>>

\* One iteration of the arming loop.  Lock, test, arm and unlock are one step:
\* nothing in between can block, and only holders of disp_lock see deadline.
StartupArm ==
  /\ phase = "arming"
  /\ arm_pos <= NumNames
  /\ \/ StaleTimeout[arm_pos] = 0 /\ UNCHANGED deadline
     \/ /\ StaleTimeout[arm_pos] > 0
        /\ disp_lock[arm_pos] = NoOne
        /\ deadline' = IF deadline[arm_pos] = 0
                       THEN [deadline EXCEPT ![arm_pos] = start_now + StaleTimeout[arm_pos]]
                       ELSE deadline
  /\ arm_pos' = arm_pos + 1
  /\ UNCHANGED <<store, timed_out, received, disp_lock, pc, frame, wdog, phase,
                 start_now, now, delivered, reads, last_data>>

\* The watchdog thread is started (when a name needs it); main goes on to
\* start the remaining producers.
StartupDone ==
  /\ phase = "arming"
  /\ arm_pos > NumNames
  /\ phase' = "running"
  /\ UNCHANGED <<store, deadline, timed_out, received, disp_lock, pc, frame,
                 wdog, arm_pos, start_now, now, delivered, reads, last_data>>

\* uvrgw_conf_shutdown() clears watchdog_running.  main has joined every
\* producer but the early ones by then, and the readers.
ShutdownBegin ==
  /\ phase = "running"
  /\ \A t \in (Producers \ EarlyThreads) \cup Readers : pc[t] = "idle"
  /\ phase' = "stopping"
  /\ UNCHANGED <<store, deadline, timed_out, received, disp_lock, pc, frame,
                 wdog, arm_pos, start_now, now, delivered, reads, last_data>>

\* The watchdog is joined, then the counter and MQTT threads are stopped.
ShutdownDone ==
  /\ phase = "stopping"
  /\ \A t \in Threads : pc[t] = "idle"
  /\ phase' = "stopped"
  /\ UNCHANGED <<store, deadline, timed_out, received, disp_lock, pc, frame,
                 wdog, arm_pos, start_now, now, delivered, reads, last_data>>

-----------------------------------------------------------------------------
\* Bound on the clock: it stops at MaxTime, but not before the watchdog has
\* had the time to see every armed deadline.
ClockRuns ==
  \/ now < MaxTime
  \/ \E n \in Names : deadline[n] # 0 /\ now < deadline[n] + CheckPeriod

\* Time passes; it may pass between any two steps of a thread.
Tick ==
  /\ ClockRuns
  /\ now' = now + 1
  /\ UNCHANGED <<store, deadline, timed_out, received, disp_lock, pc, frame,
                 wdog, main, delivered, reads, last_data>>

\* The program has ended, or the clock has reached its bound with every
\* thread asleep.
Ended ==
  /\ \/ phase = "stopped"
     \/ phase = "running" /\ ~ClockRuns /\ \A t \in Actors : pc[t] = "idle"
  /\ UNCHANGED vars

\* The steps producers and watchdog share ...
ThreadStep(t) ==
  LockName(t) \/ StoreValue(t) \/ StoreValid(t) \/ FireCb(t)

\* ... and those of their own.
ProducerStep(t) == ThreadStep(t) \/ Arm(t) \/ UnlockName(t)

WatchdogStep ==
  \/ ThreadStep(Watchdog)
  \/ WatchdogPass \/ WatchdogPassDone \/ WatchdogSkip \/ WatchdogVisit
  \/ WatchdogExpire \/ WatchdogLeave

StartupStep == StartupBegin \/ StartupArm \/ StartupDone

Next ==
  \/ \E t \in Producers, n \in Names, f \in Finite \cup {NonFinite}, v \in BOOLEAN :
       DispVal(t, n, f, v)
  \/ \E t \in Producers : ProducerStep(t)
  \/ \E r \in Readers, n \in Names : ReadValid(r, n)
  \/ \E r \in Readers : ReadValue(r)
  \/ WatchdogStep
  \/ StartupStep
  \/ ShutdownBegin
  \/ ShutdownDone
  \/ Tick
  \/ Ended

Spec == Init /\ [][Next]_vars

\* Every thread that can go on does (no thread of the daemon is suspended),
\* startup completes and time passes.  Nothing forces a producer to publish,
\* a reader to read or main to shut down.  Readers look at a value once per
\* evaluation, snapshot or request and then sleep, so last_lock does not stay
\* out of a writer's reach for ever.
Fairness ==
  /\ \A t \in Threads : SF_vars(StoreValue(t))
  /\ \A t \in Producers : WF_vars(ProducerStep(t))
  /\ \A r \in Readers : WF_vars(ReadValue(r))
  /\ WF_vars(WatchdogStep)
  /\ WF_vars(StartupStep)
  /\ WF_vars(Tick)

FairSpec == Spec /\ Fairness

-----------------------------------------------------------------------------
StoreType ==
  /\ last_value \in [Names -> Finite]
  /\ valid \in [Names -> BOOLEAN]
  /\ deadline \in [Names -> Nat]
  /\ timed_out \in [Names -> BOOLEAN]
  /\ received \in [Names -> BOOLEAN]
  /\ disp_lock \in [Names -> Threads \cup {NoOne}]
  /\ last_lock \in [Names -> Actors \cup {NoOne}]
  /\ last_data \in [Names -> Nat]

ThreadType ==
  /\ pc \in [Actors -> {"idle", "next", "lock", "check", "store", "storing",
                        "arm", "fire", "reading"}]
  /\ arg_n \in [Threads -> 1..(NumNames + 1)]
  /\ arg_f \in [Threads -> Finite]
  /\ arg_v \in [Threads -> BOOLEAN]
  /\ cb_i \in [Threads -> Nat \ {0}]
  /\ next_check \in Nat /\ pass_now \in Nat

MainType ==
  /\ phase \in {"configured", "arming", "running", "stopping", "stopped"}
  /\ arm_pos \in 1..(NumNames + 1)
  /\ start_now \in Nat /\ now \in Nat

ObserverType ==
  /\ DOMAIN delivered = Names
  /\ \A n \in Names : delivered[n] \in [DOMAIN Cbs[n] -> Pairs \cup {None}]
  /\ peek \in [Readers -> [n : Names, v : BOOLEAN]]
  /\ got \in [Readers -> [n : Names, p : Pairs]]

\* Shape of the state: in particular the stored value is always a finite
\* number, whatever a producer passes to uvrgw_conf_disp_val().
TypeOK == StoreType /\ ThreadType /\ MainType /\ ObserverType

\* Callback positions of n that fire_cbs() does not leave out.
Outputs(n) == {i \in DOMAIN Cbs[n] : Cbs[n][i] # ProducerVal[n]}

Stable(n) == disp_lock[n] = NoOne

\* Whenever no dispatch of a name is under way, all its outputs were last
\* given the same pair, and it is the stored one: a reset and real data that
\* meet cannot leave an output behind (the reason disp_lock spans the
\* callbacks).
OutputsFollowStore ==
  \A n \in Names : Stable(n) =>
    \/ \A i \in Outputs(n) : delivered[n][i] = <<last_value[n], valid[n]>>
    \/ /\ \A i \in Outputs(n) : delivered[n][i] = None
       /\ <<last_value[n], valid[n]>> = <<InitValue[n], FALSE>>

\* A timed out name is reset and disarmed until real data arrives: the
\* watchdog cannot reset it twice, nor leave it valid or at an old number.
TimedOutIsReset ==
  \A n \in Timed : Stable(n) /\ timed_out[n] =>
    /\ ~valid[n] /\ last_value[n] = InitValue[n]
    /\ deadline[n] = 0

\* Current data with a stale_timeout is always watched: its deadline is armed,
\* and lies no further ahead than the timeout.
ValidIsArmed ==
  \A n \in Timed : Stable(n) /\ valid[n] =>
    deadline[n] \in (last_data[n] + StaleTimeout[n])..(now + StaleTimeout[n])

\* Once the watchdog runs, a name with a stale_timeout is either watched or
\* already reset: a source that never delivers is noticed as well.
WatchedOrReset ==
  phase \in {"running", "stopping"} =>
    \A n \in Timed : Stable(n) => (deadline[n] # 0 \/ timed_out[n])

\* The deadline fits the value, whatever met whatever, and no name with a
\* stale_timeout escapes the watchdog.
DeadlineFitsValue == TimedOutIsReset /\ ValidIsArmed /\ WatchedOrReset

\* The watchdog resets a name only after a full stale_timeout without real
\* data: data that arrives while the watchdog waits for disp_lock wins.
NoPrematureReset ==
  [][\A n \in Names : timed_out'[n] /\ ~timed_out[n] =>
       now >= last_data[n] + StaleTimeout[n]]_vars

\* A source that stays silent (all do, after DataHorizon) is noticed: every
\* name with a stale_timeout ends invalid at its init_value, in the store
\* and at every output, unless the program is shut down before.
SilenceIsNoticed ==
  \A n \in Timed :
    phase = "running" ~>
      \/ /\ Stable(n) /\ timed_out[n]
         /\ \A i \in Outputs(n) : delivered[n][i] = <<InitValue[n], FALSE>>
      \/ phase # "running"

-----------------------------------------------------------------------------
(***************************************************************************)
(* Refinement: each name implements a cell of ValueCell.  The cell changes *)
(* when the number is stored (readers are locked out until the validity is *)
(* too); the outputs still waiting are those behind the owner's position.  *)
(***************************************************************************)
Storing(n)  == {t \in Threads : pc[t] = "storing" /\ arg_n[t] = n}
InFlight(n) == {t \in Threads : pc[t] \in {"storing", "arm", "fire"} /\ arg_n[t] = n}

CellPair(n) ==
  <<last_value[n],
    IF Storing(n) # {} THEN \E t \in Storing(n) : arg_v[t] ELSE valid[n]>>

\* The outputs of n the pair under way has not reached yet.
Waiting(n) == {i \in Outputs(n) : \E t \in InFlight(n) : i >= cb_i[t]}

Cell == INSTANCE ValueCell WITH
  Names   <- Names,
  Outs    <- [n \in Names |-> Outputs(n)],
  Initial <- [n \in Names |-> <<InitValue[n], FALSE>>],
  cell    <- [n \in Names |-> CellPair(n)],
  todo    <- [n \in Names |-> Waiting(n)],
  out     <- [n \in Names |-> [i \in Outputs(n) |-> delivered[n][i]]],
  read    <- got

\* Whatever the interleaving of producers, watchdog and readers, every name
\* behaves like an atomic cell: publications of a name reach all outputs one
\* after the other, and uvrgw_conf_get_val() never returns a number with the
\* validity of another publication.  And every publication does reach every
\* output.
ImplementsFairCell == Cell!FairSpec
=============================================================================
