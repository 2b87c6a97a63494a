----------------------------- MODULE LockOrder -----------------------------
(***************************************************************************)
(* Who waits for whom in the program that an accepted configuration runs.  *)
(*                                                                         *)
(* uvrgw_conf_disp_val() holds the disp_lock of a name while it calls the  *)
(* callbacks of its readers; the callback of a counter takes the lock of   *)
(* the counter and dispatches its total from there, and the callback of an *)
(* eval takes the lock of the eval thread.  The counter and eval threads   *)
(* come from the other side.  A thread is the stack of these calls; the    *)
(* values themselves are left out (Dispatch, Counter and Eval have them).  *)
(*                                                                         *)
(* The callbacks of CAN, Modbus and MQTT outputs, and uvrgw_conf_get_val(),*)
(* take no lock under which another one is taken, and are one step.        *)
(***************************************************************************)
EXTENDS Config

CONSTANTS
  MainThread,      \* publishes the counter totals once, then receives CAN frames
  InputThreads,    \* the watchdog and the threads of Modbus, MQTT and REST inputs
  CounterThread,   \* counter_thread()
  EvalThread,      \* eval_thread()
  NoOne            \* owner of a free mutex

Threads == InputThreads \cup {MainThread, CounterThread, EvalThread}

ASSUME NoOneIsNoThread == NoOne \notin Threads

NameLock(n)    == <<"name", n>>
CounterLock(i) == <<"counter", i>>
EvalLock       == <<"eval", 1>>
Locks == {NameLock(n) : n \in Names}
           \cup {CounterLock(i) : i \in 1..MaxSections} \cup {EvalLock}

VARIABLES
  owner,      \* mutex -> thread holding it
  stack,      \* thread -> its calls, the innermost one last
  published   \* counters whose total main has published

lockVars == <<owner, stack, published>>

Init ==
  /\ ConfigInit
  /\ owner = [l \in Locks |-> NoOne]
  /\ stack = [t \in Threads |-> <<>>]
  /\ published = 0

-----------------------------------------------------------------------------
\* A call: fn is the function, lock the mutex it takes, at = 0 before the
\* lock, then the number of its next step.
Call(fn, lock, arg) == [fn |-> fn, lock |-> lock, arg |-> arg, at |-> 0]

DispVal(n)      == Call("disp_val", NameLock(n), n)
SourceUpdate(i) == Call("source_update", CounterLock(i), i)
TriggerUpdate   == Call("trigger_update", EvalLock, 0)
EvalLoop        == Call("eval_thread", EvalLock, 0)

Idle(t)    == pc = "running" /\ stack[t] = <<>>
Top(t)     == stack[t][Len(stack[t])]
InCall(t, fn) == stack[t] # <<>> /\ Top(t).fn = fn
At(t, fn, k)  == InCall(t, fn) /\ Top(t).at = k

Popped(t)    == SubSeq(stack[t], 1, Len(stack[t]) - 1)
Moved(t, k)  == Append(Popped(t), [Top(t) EXCEPT !.at = k])
SetStack(t, s) == stack' = [stack EXCEPT ![t] = s]
Release(l)   == owner' = [owner EXCEPT ![l] = NoOne]

\* pthread_mutex_lock() of the call t is in; t waits while it is owned.
Lock(t) ==
  /\ stack[t] # <<>> /\ Top(t).at = 0
  /\ owner[Top(t).lock] = NoOne
  /\ owner' = [owner EXCEPT ![Top(t).lock] = t]
  /\ SetStack(t, Moved(t, 1))
  /\ UNCHANGED <<configVars, published>>

-----------------------------------------------------------------------------
\* An input value arrives, or the watchdog resets it.
InputArrives(t, n) ==
  /\ Idle(t)
  /\ t \in InputThreads \cup {MainThread}
  /\ t = MainThread => published = Len(counters) /\ producer[n] = "can"
  /\ inputs[n] > 0
  /\ SetStack(t, <<DispVal(n)>>)
  /\ UNCHANGED <<configVars, owner, published>>

\* The call a callback begins with, if it takes a lock.
Callee(cb) ==
  IF cb[1] = "counter" THEN <<SourceUpdate(cb[2])>>
  ELSE IF cb[1] = "eval" THEN <<TriggerUpdate>> ELSE <<>>

\* fire_cbs() calls the next callback of the name.
FireCb(t) ==
  LET n  == Top(t).arg
      k  == Top(t).at
      cb == value_cbs[n][k]
  IN
  /\ InCall(t, "disp_val") /\ k > 0 /\ k <= Len(value_cbs[n])
  /\ SetStack(t, Moved(t, k + 1) \o Callee(cb))
  /\ UNCHANGED <<configVars, owner, published>>

\* The end of uvrgw_conf_disp_val().
DispDone(t) ==
  /\ InCall(t, "disp_val") /\ Top(t).at > Len(value_cbs[Top(t).arg])
  /\ Release(Top(t).lock)
  /\ SetStack(t, Popped(t))
  /\ UNCHANGED <<configVars, published>>

\* source_update(), counter_publish() and counter_thread() dispatch the total
\* with the lock of the counter held ...
TotalDispatched(t) ==
  /\ At(t, "source_update", 1)
  /\ SetStack(t, Moved(t, 2) \o <<DispVal(counters[Top(t).arg].name)>>)
  /\ UNCHANGED <<configVars, owner, published>>

\* ... or not at all: disabled, not initialized, or no reading.
TotalKept(t) ==
  /\ At(t, "source_update", 1)
  /\ SetStack(t, Moved(t, 2))
  /\ UNCHANGED <<configVars, owner, published>>

CounterUnlock(t) ==
  /\ At(t, "source_update", 2)
  /\ Release(Top(t).lock)
  /\ SetStack(t, Popped(t))
  /\ UNCHANGED <<configVars, published>>

\* trigger_update() marks the eval and returns.
TriggerDone(t) ==
  /\ At(t, "trigger_update", 1)
  /\ Release(EvalLock)
  /\ SetStack(t, Popped(t))
  /\ UNCHANGED <<configVars, published>>

\* counter_publish(): main, at startup, counter by counter.
CounterPublish ==
  /\ Idle(MainThread) /\ published < Len(counters)
  /\ published' = published + 1
  /\ SetStack(MainThread, <<SourceUpdate(published + 1)>>)
  /\ UNCHANGED <<configVars, owner>>

\* counter_thread(): the tick of an integrating counter.
ThreadTick(i) ==
  /\ Idle(CounterThread)
  /\ counters[i].integrate
  /\ SetStack(CounterThread, <<SourceUpdate(i)>>)
  /\ UNCHANGED <<configVars, owner, published>>

\* eval_thread(): started if there are evals; it locks, then waits or runs.
EvalStarts ==
  /\ Idle(EvalThread) /\ evals # <<>>
  /\ SetStack(EvalThread, <<EvalLoop>>)
  /\ UNCHANGED <<configVars, owner, published>>

\* A due eval: the lock is released, the value dispatched, the lock retaken.
Evaluate(i) ==
  /\ At(EvalThread, "eval_thread", 1)
  /\ Release(EvalLock)
  /\ SetStack(EvalThread, Moved(EvalThread, 0) \o <<DispVal(evals[i].name)>>)
  /\ UNCHANGED <<configVars, published>>

\* pthread_cond_wait() releases the lock; a wakeup takes it again.
EvalWait ==
  /\ At(EvalThread, "eval_thread", 1)
  /\ Release(EvalLock)
  /\ SetStack(EvalThread, Moved(EvalThread, 0))
  /\ UNCHANGED <<configVars, published>>

Next ==
  \/ pc # "running" /\ ConfigNext /\ UNCHANGED lockVars
  \/ \E t \in Threads :
       \/ \E n \in Names : InputArrives(t, n)
       \/ Lock(t) \/ FireCb(t) \/ DispDone(t)
       \/ TotalDispatched(t) \/ TotalKept(t) \/ CounterUnlock(t)
       \/ TriggerDone(t)
  \/ CounterPublish
  \/ \E i \in Counters : ThreadTick(i)
  \/ EvalStarts
  \/ \E i \in Evals : Evaluate(i)
  \/ EvalWait

vars == <<configVars, lockVars>>

Spec == Init /\ [][Next]_vars

TypeOK ==
  /\ ConfigTypeOK
  /\ owner \in [Locks -> Threads \cup {NoOne}]
  /\ DOMAIN stack = Threads
  /\ published \in 0..Len(counters)

-----------------------------------------------------------------------------
Waits(t) == stack[t] # <<>> /\ Top(t).at = 0

\* No accepted configuration can bring threads to wait for each other in a
\* circle, nor a thread to wait for a mutex it holds itself (the mutexes are
\* not recursive): "deadlock free as long as the synchronous data flow has no
\* cycle", uvrgw_conf.h.
NoCircularWait ==
  LET Blocked == {t \in Threads : Waits(t) /\ owner[Top(t).lock] # NoOne}
  IN \A S \in (SUBSET Blocked) \ {{}} : \E t \in S : owner[Top(t).lock] \notin S
=============================================================================
