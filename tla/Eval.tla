-------------------------------- MODULE Eval --------------------------------
(***************************************************************************)
(* The evals of eval.c: source threads mark triggered evals as pending,    *)
(* one eval thread evaluates pending and due evals in config order and     *)
(* publishes their values, which may trigger further evals.                *)
(*                                                                         *)
(* One mutex protects the pending flags; the condition variable wakes the  *)
(* thread.  An evaluation reads the stored values one after the other and  *)
(* publishes without the mutex, so triggers arrive at any point of it.     *)
(* What uvrgw_conf_disp_val() does is in module Dispatch: here it stores   *)
(* the pair and then calls trigger_update() of every eval it triggers.     *)
(* Every eval has one value; how an eval with several of them derives      *)
(* their inputs is in module EvalInputs.                                   *)
(***************************************************************************)
EXTENDS Integers, Sequences

CONSTANTS
  NumEvals,      \* evals in config order
  Inputs,        \* names produced by other modules, each by a thread of its own
  Pub,           \* eval -> name it publishes
  Reads,         \* eval -> sequence of outside names its expression reads
  Triggers,      \* eval -> set of trigger names, {} for a periodic eval
  Period,        \* eval -> period, 0 = triggered
  Numbers,       \* numbers an input may take
  Broken,        \* a number no expression has a finite result for
  Thread,        \* the eval thread
  NoOne,         \* owner of the free mutex
  MaxUpdates,    \* bound: input updates and spurious wakeups together
  MaxTime        \* bound: the clock stops here

Evals == 1..NumEvals
Names == Inputs \cup {Pub[e] : e \in Evals}
Periodic == {e \in Evals : Period[e] > 0}

\* An eval whose triggers are all values it reads (the default).
Covered == {e \in Evals \ Periodic : \A i \in DOMAIN Reads[e] : Reads[e][i] \in Triggers[e]}

\* What setup_triggers() leaves: periodic evals have no triggers, and an eval
\* does not trigger itself.  A name has one producer (module Config).
ASSUME EvalConstants ==
  /\ NumEvals \in Nat
  /\ \A e \in Evals : Pub[e] \notin Inputs /\ Period[e] \in Nat
  /\ \A e \in Periodic : Triggers[e] = {}
  /\ \A e \in Evals : Pub[e] \notin Triggers[e]
  /\ \A e \in Evals : Triggers[e] \subseteq Names
  /\ \A e \in Evals : /\ Len(Reads[e]) \in Nat /\ DOMAIN Reads[e] = 1..Len(Reads[e])
                      /\ \A i \in DOMAIN Reads[e] : Reads[e][i] \in Names
  /\ \A d, e \in Evals : Pub[d] = Pub[e] => d = e
  /\ Thread # NoOne

VARIABLES
  stored,        \* name -> pair <<number, valid>> in the dispatcher
  fire,          \* name -> evals whose trigger_update() is still to be called
  \* EVAL_T
  pending, next, slot,
  lock,          \* owner of the module lock
  running,       \* thread_running
  \* the eval thread
  pc, idx, scan_now, next_due, evaluated,
  got,           \* pairs read so far by the evaluation under way
  \* environment
  now, start, updates

sched == <<pending, next>>
local == <<idx, scan_now, next_due, evaluated>>
env   == <<now, start, updates>>
vars == <<stored, fire, sched, slot, lock, running, pc, local, got, env>>

Forever == MaxTime + 1      \* INT64_MAX

Init ==
  /\ stored = [n \in Names |-> <<0, FALSE>>]
  /\ fire = [n \in Names |-> {}]
  /\ pending = [e \in Evals |-> FALSE]
  /\ next = [e \in Evals |-> 0]
  /\ slot = [e \in Evals |-> 0]
  /\ lock = NoOne
  /\ running = FALSE
  /\ pc = "off"
  /\ idx = 1 /\ scan_now = 0 /\ next_due = Forever /\ evaluated = FALSE
  /\ got = <<>>
  /\ now = 0 /\ start = 0 /\ updates = 0

-----------------------------------------------------------------------------
\* eval_startup(): every eval is evaluated once.
EvalStartup ==
  /\ pc = "off"
  /\ pending' = [e \in Evals |-> TRUE]
  /\ next' = [e \in Evals |-> now]
  /\ start' = now
  /\ running' = TRUE
  /\ pc' = "lock"
  /\ UNCHANGED <<stored, fire, slot, lock, local, got, now, updates>>

\* pthread_cond_signal(): wakes the thread if it is waiting, else is lost.
Signal == pc' = IF pc = "wait" THEN "lock" ELSE pc

\* Evals whose trigger_update() is registered for a name.
TriggeredBy(n) == {e \in Evals : n \in Triggers[e]}

\* An input is updated (or reset by the watchdog): the dispatcher stores the
\* pair and begins to call the callbacks.
InputUpdate(n, f, v) ==
  /\ fire[n] = {}
  /\ updates < MaxUpdates
  /\ updates' = updates + 1
  /\ stored' = [stored EXCEPT ![n] = <<f, v>>]
  /\ fire' = [fire EXCEPT ![n] = TriggeredBy(n)]
  /\ UNCHANGED <<sched, slot, lock, running, pc, local, got, now, start>>

\* trigger_update() of eval e for name n, in the thread that publishes n.
TriggerUpdate(n, e) ==
  /\ e \in fire[n]
  /\ \A d \in fire[n] : e <= d
  /\ lock = NoOne
  /\ pending' = [pending EXCEPT ![e] = TRUE]
  /\ Signal
  /\ fire' = [fire EXCEPT ![n] = @ \ {e}]
  /\ UNCHANGED <<stored, next, slot, lock, running, local, got, env>>

-----------------------------------------------------------------------------
(***************************************************************************)
(* eval_thread() and evaluate().                                           *)
(***************************************************************************)

\* The module lock is taken: at the start and when a wait returns.
ThreadLock ==
  /\ pc = "lock"
  /\ lock = NoOne
  /\ lock' = Thread
  /\ pc' = "loop"
  /\ UNCHANGED <<stored, fire, sched, slot, running, local, got, env>>

\* while (thread_running): a scan of all evals begins, or the thread ends.
LoopHead ==
  /\ pc = "loop"
  /\ IF running
     THEN /\ scan_now' = now
          /\ pc' = "scan"
          /\ UNCHANGED lock
     ELSE /\ lock' = NoOne
          /\ pc' = "ended"
          /\ UNCHANGED scan_now
  /\ idx' = 1
  /\ next_due' = Forever
  /\ evaluated' = FALSE
  /\ UNCHANGED <<stored, fire, sched, slot, running, got, env>>

\* Mutant: the schedule starts anew with every evaluation.
NextOfDrifting(e, t) == t + Period[e]

\* Fixed schedule: the next multiple of the period after t.
NextOf(e, t) == next[e] + ((t - next[e]) \div Period[e] + 1) * Period[e]

\* Mutant: the later of two times is waited for.
SoonerSwapped(a, b) == IF a < b THEN b ELSE a

Sooner(a, b) == IF a < b THEN a ELSE b

\* The eval at idx is due; its flag or schedule is advanced, then the lock is
\* released for the evaluation.
ScanDue ==
  /\ pc = "scan"
  /\ idx <= NumEvals
  /\ \/ /\ Period[idx] > 0
        /\ scan_now >= next[idx]
        /\ next' = [next EXCEPT ![idx] = NextOf(idx, scan_now)]
        /\ next_due' = Sooner(next'[idx], next_due)
        /\ UNCHANGED pending
     \/ /\ Period[idx] = 0
        /\ pending[idx]
        /\ pending' = [pending EXCEPT ![idx] = FALSE]
        /\ UNCHANGED <<next, next_due>>
  /\ lock' = NoOne
  /\ pc' = "read"
  /\ got' = <<>>
  /\ UNCHANGED <<stored, fire, slot, running, idx, scan_now, evaluated, env>>

\* The eval at idx is not due.
ScanNotDue ==
  /\ pc = "scan"
  /\ idx <= NumEvals
  /\ \/ /\ Period[idx] > 0
        /\ scan_now < next[idx]
        /\ next_due' = Sooner(next[idx], next_due)
     \/ Period[idx] = 0 /\ ~pending[idx] /\ UNCHANGED next_due
  /\ idx' = idx + 1
  /\ UNCHANGED <<stored, fire, sched, slot, lock, running, pc, scan_now,
                 evaluated, got, env>>

\* evaluate(): one uvrgw_conf_get_val().
ReadInput ==
  /\ pc = "read"
  /\ Len(got) < Len(Reads[idx])
  /\ got' = Append(got, stored[Reads[idx][Len(got) + 1]])
  /\ UNCHANGED <<stored, fire, sched, slot, lock, running, pc, local, env>>

\* The expression on a sequence of pairs: here the parity of the sum stands
\* for any function of the numbers.
SumOf(s) ==
  LET sum[i \in 0..Len(s)] == IF i = 0 THEN 0 ELSE sum[i - 1] + s[i][1]
  IN  sum[Len(s)] % 2

IsFinite(s) == \A i \in DOMAIN s : s[i][1] # Broken

\* The number an evaluation of s leaves in the slot: a non-finite result
\* keeps the one before.
ResultOf(e, s) == IF IsFinite(s) THEN SumOf(s) ELSE slot[e]

\* The result is valid if it is finite and all outside values read are.
ValidOf(s) == IsFinite(s) /\ \A i \in DOMAIN s : s[i][2]

\* evaluate(): the result is computed and dispatched, changed or not.
PublishResult ==
  /\ pc = "read"
  /\ Len(got) = Len(Reads[idx])
  /\ slot' = [slot EXCEPT ![idx] = ResultOf(idx, got)]
  /\ stored' = [stored EXCEPT ![Pub[idx]] = <<slot'[idx], ValidOf(got)>>]
  /\ fire' = [fire EXCEPT ![Pub[idx]] = TriggeredBy(Pub[idx])]
  /\ pc' = "fire"
  /\ UNCHANGED <<sched, lock, running, local, got, env>>

\* Mutant: the pending flag is cleared after the evaluation.
ScanResumeClears ==
  /\ pc = "fire"
  /\ fire[Pub[idx]] = {}
  /\ lock = NoOne
  /\ lock' = Thread
  /\ pending' = [pending EXCEPT ![idx] = FALSE]
  /\ evaluated' = TRUE
  /\ scan_now' = now
  /\ idx' = idx + 1
  /\ pc' = "scan"
  /\ got' = <<>>
  /\ UNCHANGED <<stored, fire, next, slot, running, next_due, env>>

\* evaluate() has returned: lock again, refresh the time, go on scanning.
ScanResume ==
  /\ pc = "fire"
  /\ fire[Pub[idx]] = {}
  /\ lock = NoOne
  /\ lock' = Thread
  /\ evaluated' = TRUE
  /\ scan_now' = now
  /\ idx' = idx + 1
  /\ pc' = "scan"
  /\ got' = <<>>
  /\ UNCHANGED <<stored, fire, sched, slot, running, next_due, env>>

\* The scan is over: scan again if something was evaluated, else wait for a
\* signal or for the next periodic eval; waiting releases the lock.
ScanEnd ==
  /\ pc = "scan"
  /\ idx > NumEvals
  /\ IF evaluated \/ ~running
     THEN pc' = "loop" /\ UNCHANGED lock
     ELSE pc' = "wait" /\ lock' = NoOne
  /\ UNCHANGED <<stored, fire, sched, slot, running, local, got, env>>

\* pthread_cond_timedwait() times out.
WaitTimeout ==
  /\ pc = "wait"
  /\ now >= next_due
  /\ pc' = "lock"
  /\ UNCHANGED <<stored, fire, sched, slot, lock, running, local, got, env>>

\* pthread_cond_wait() may return without a reason (not without end).
SpuriousWakeup ==
  /\ pc = "wait"
  /\ updates < MaxUpdates
  /\ updates' = updates + 1
  /\ pc' = "lock"
  /\ UNCHANGED <<stored, fire, sched, slot, lock, running, local, got, now,
                 start>>

\* Mutant: the thread is not signalled.
EvalShutdownQuiet ==
  /\ running
  /\ lock = NoOne
  /\ running' = FALSE
  /\ UNCHANGED <<stored, fire, sched, slot, lock, pc, local, got, env>>

\* eval_shutdown(): under the lock the flag is cleared and the thread is
\* signalled; then it is joined.
EvalShutdown ==
  /\ running
  /\ lock = NoOne
  /\ running' = FALSE
  /\ Signal
  /\ UNCHANGED <<stored, fire, sched, slot, lock, local, got, env>>

-----------------------------------------------------------------------------
Tick ==
  /\ now < MaxTime
  /\ now' = now + 1
  /\ UNCHANGED <<stored, fire, sched, slot, lock, running, pc, local, got, start,
                 updates>>

\* The thread has been joined, or waits for triggers that do not come.
Ended == pc \in {"ended", "wait"} /\ UNCHANGED vars

ThreadStep ==
  \/ ThreadLock \/ LoopHead
  \/ ScanDue \/ ScanNotDue
  \/ ReadInput \/ PublishResult \/ ScanResume
  \/ ScanEnd \/ WaitTimeout

\* The thread publishing n calls the next callback.
Notify(n) == \E e \in Evals : TriggerUpdate(n, e)

Next ==
  \/ EvalStartup
  \/ \E n \in Inputs, f \in Numbers, v \in BOOLEAN : InputUpdate(n, f, v)
  \/ \E n \in Names : Notify(n)
  \/ ThreadStep
  \/ SpuriousWakeup
  \/ EvalShutdown
  \/ Tick
  \/ Ended

Spec == Init /\ [][Next]_vars

\* The eval thread and the threads in a dispatch are scheduled, time passes.
\* The mutex need not be fair.
Fairness ==
  /\ WF_vars(EvalStartup)
  /\ WF_vars(ThreadStep)
  /\ \A n \in Names : WF_vars(Notify(n))
  /\ WF_vars(Tick)

FairSpec == Spec /\ Fairness

-----------------------------------------------------------------------------
Pairs == (Numbers \cup {0, 1}) \X BOOLEAN

TypeOK ==
  /\ stored \in [Names -> Pairs]
  /\ fire \in [Names -> SUBSET Evals]
  /\ pending \in [Evals -> BOOLEAN]
  /\ next \in [Evals -> Nat]
  /\ lock \in {NoOne, Thread}
  /\ running \in BOOLEAN /\ evaluated \in BOOLEAN
  /\ pc \in {"off", "lock", "loop", "scan", "read", "fire", "wait", "ended"}
  /\ (pc \in {"loop", "scan"}) = (lock = Thread)
  /\ idx \in 1..(NumEvals + 1)
  /\ got \in Seq(Pairs)

\* What eval e makes of the values stored now.
StoredInputs(e) == [i \in DOMAIN Reads[e] |-> stored[Reads[e][i]]]
UpToDate(e) ==
  /\ stored[Pub[e]][2] = ValidOf(StoredInputs(e))
  /\ IsFinite(StoredInputs(e)) => stored[Pub[e]][1] = SumOf(StoredInputs(e))

\* When the thread waits and every dispatch has returned, no trigger was
\* lost: each eval triggered by what it reads shows the result for the values
\* stored now, through any chain of evals, and with their validity.
NoTriggerLost ==
  pc = "wait" /\ (\A n \in Names : fire[n] = {}) =>
    \A e \in Covered : ~pending[e] /\ UpToDate(e)

\* Periodic evals keep the fixed schedule given at startup: late evaluations
\* shift no later one, missed ones are not made up for.
ScheduleKept ==
  pc # "off" =>
    \A e \in Periodic :
      /\ (next[e] - start) % Period[e] = 0
      /\ next[e] \in start..(now + Period[e])

\* The values settle: once the inputs stop changing, triggered evals end up
\* with the result for the values stored, unless evals are shut down.
ValuesSettle ==
  \A e \in Covered : <>[](UpToDate(e) \/ ~running)

\* A periodic eval is evaluated when it is due, however often the triggered
\* ones run.
DueEvalRuns ==
  \A e \in Periodic :
    running /\ now >= next[e] ~> (now < next[e] \/ ~running)

\* eval_shutdown() always gets its thread back: the signal cannot fall
\* between the thread's last look at thread_running and its wait.
ShutdownCompletes == (pc # "off" /\ ~running) ~> (pc = "ended")
=============================================================================
