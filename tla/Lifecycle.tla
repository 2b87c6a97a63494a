------------------------------ MODULE Lifecycle ------------------------------
(***************************************************************************)
(* Startup and shutdown of the daemon: main.c, with the MQTT connections   *)
(* of mqtt.c, the only outputs whose instances are destroyed.              *)
(*                                                                         *)
(* Main starts the modules of Modules in order.  The first failure, or a   *)
(* signal, sends it down the labels at the end of main(): the modules      *)
(* started before are stopped in reverse order.  Meanwhile every running   *)
(* thread that dispatches values may be inside mosquitto_publish() on any  *)
(* connection.  A module that fails has stopped what it had started; only  *)
(* for MQTT this takes steps of its own, as its instances are in use.      *)
(***************************************************************************)
EXTENDS Integers, Sequences, FiniteSets

CONSTANTS
  NumConns,       \* mqtt{} sections
  HasLogger,      \* a logger is configured
  NoCall,         \* the thread is in no mosquitto_publish()
  MaxCalls        \* bound: threads inside mosquitto_publish() at once

ASSUME LifecycleConstants ==
  /\ NumConns \in Nat
  /\ HasLogger \in BOOLEAN
  /\ NoCall \notin 1..NumConns
  /\ MaxCalls \in Nat

Conns == 1..NumConns

\* The calls of main() in startup order.
Modules == <<"counter", "can", "mqtt", "publish", "watchdog", "eval", "mb",
             "rest", "sunspec">>

\* Threads that dispatch values: the module threads, the network thread of
\* each connection, and main in its loop (CAN RX).  The logger publishes its
\* snapshots itself.
ModuleThreads == {"counter", "watchdog", "eval", "mb", "rest", "logger", "main"}
Thread(m) == <<m, 0>>
NetThread(c) == <<"net", c>>
Threads == {Thread(m) : m \in ModuleThreads} \cup {NetThread(c) : c \in Conns}
Sources == Threads \ {Thread("logger")}

VARIABLES
  phase,       \* "start", "loop", "down", "exited"
  pos,         \* index of the next module to start, or of the one to stop
  mqtt_pos,    \* progress inside mqtt_startup() and mqtt_shutdown()
  running,     \* threads that run
  mosq,        \* connection -> "null", "live" or "dangling"
  fed,         \* a source has been running: the counters may have values
  call,        \* thread -> connection it is publishing on, or NoCall
  exit_fd,     \* the eventfd has been written
  saved,       \* counter_shutdown() has saved the states
  mqtt_up      \* history: mqtt_startup() has succeeded

vars == <<phase, pos, mqtt_pos, running, mosq, fed, call, exit_fd, saved, mqtt_up>>

Init ==
  /\ phase = "start"
  /\ pos = 1
  /\ mqtt_pos = 1
  /\ running = {}
  /\ mosq = [c \in Conns |-> "null"]
  /\ fed = FALSE
  /\ call = [t \in Threads |-> NoCall]
  /\ exit_fd = FALSE
  /\ saved = FALSE
  /\ mqtt_up = FALSE

-----------------------------------------------------------------------------
\* A dispatch (or a snapshot) reaches mosquitto_publish(); without an instance
\* the call returns at once.  The counter thread has something to publish
\* only once a source has delivered values.
Publish(t, c) ==
  /\ t \in running
  /\ t = Thread("counter") => fed
  /\ call[t] = NoCall
  /\ mosq[c] # "null"
  /\ Cardinality({u \in Threads : call[u] # NoCall}) < MaxCalls
  /\ call' = [call EXCEPT ![t] = c]
  /\ UNCHANGED <<phase, pos, mqtt_pos, running, mosq, fed, exit_fd, saved, mqtt_up>>

PublishReturns(t) ==
  /\ call[t] # NoCall
  /\ call' = [call EXCEPT ![t] = NoCall]
  /\ UNCHANGED <<phase, pos, mqtt_pos, running, mosq, fed, exit_fd, saved, mqtt_up>>

\* sighandler() on SIGINT or SIGTERM: at any time.
Signal ==
  /\ phase # "exited"
  /\ exit_fd' = TRUE
  /\ UNCHANGED <<phase, pos, mqtt_pos, running, mosq, fed, call, saved, mqtt_up>>

-----------------------------------------------------------------------------
(***************************************************************************)
(* Startup.                                                                *)
(***************************************************************************)
Starting(m) == phase = "start" /\ pos <= Len(Modules) /\ Modules[pos] = m

\* Module m comes up.
StartModule(m) ==
  /\ Starting(m) /\ m # "mqtt"
  /\ running' = running \cup ({Thread(m)} \cap Threads)
  /\ fed' = (fed \/ m \in {"eval", "mb", "rest"})
  /\ pos' = pos + 1
  /\ UNCHANGED <<phase, mqtt_pos, mosq, call, exit_fd, saved, mqtt_up>>

\* Mutant: the wrong label: the module started last is left out.
StartFailsSkips(m) ==
  /\ Starting(m) /\ m \notin {"mqtt", "publish"}
  /\ phase' = "down"
  /\ pos' = IF pos > 1 THEN pos - 2 ELSE 0
  /\ UNCHANGED <<mqtt_pos, running, mosq, call, fed, exit_fd, saved, mqtt_up>>

\* Module m fails: what was started before it is stopped.  counter_publish()
\* cannot fail.
StartFails(m) ==
  /\ Starting(m) /\ m \notin {"mqtt", "publish"}
  /\ phase' = "down"
  /\ pos' = pos - 1
  /\ UNCHANGED <<mqtt_pos, running, mosq, call, fed, exit_fd, saved, mqtt_up>>

\* conn_startup(): the instance is created ...
CreateConn ==
  /\ Starting("mqtt")
  /\ mqtt_pos <= NumConns
  /\ mosq[mqtt_pos] = "null"
  /\ mosq' = [mosq EXCEPT ![mqtt_pos] = "live"]
  /\ UNCHANGED <<phase, pos, mqtt_pos, running, call, fed, exit_fd, saved, mqtt_up>>

\* ... set up, and its network thread is started.
StartConn ==
  /\ Starting("mqtt")
  /\ mqtt_pos <= NumConns
  /\ mosq[mqtt_pos] = "live"
  /\ running' = running \cup {NetThread(mqtt_pos)}
  /\ fed' = TRUE
  /\ mqtt_pos' = mqtt_pos + 1
  /\ UNCHANGED <<phase, pos, mosq, call, exit_fd, saved, mqtt_up>>

\* Label fail2 of conn_startup(): the new instance is destroyed ...
ConnFails ==
  /\ Starting("mqtt")
  /\ mqtt_pos <= NumConns
  /\ mosq[mqtt_pos] = "live"
  /\ mosq' = [mosq EXCEPT ![mqtt_pos] = "dangling"]
  /\ UNCHANGED <<phase, pos, mqtt_pos, running, call, fed, exit_fd, saved, mqtt_up>>

\* ... and forgotten; mqtt_startup() calls mqtt_shutdown().
ForgetConn ==
  /\ Starting("mqtt")
  /\ mqtt_pos <= NumConns
  /\ mosq[mqtt_pos] = "dangling"
  /\ mosq' = [mosq EXCEPT ![mqtt_pos] = "null"]
  /\ phase' = "down"
  /\ mqtt_pos' = 1
  /\ UNCHANGED <<pos, running, call, fed, exit_fd, saved, mqtt_up>>

\* mqtt_logger_startup(), and mqtt_startup() returns.
StartLogger ==
  /\ Starting("mqtt")
  /\ mqtt_pos = NumConns + 1
  /\ running' = IF HasLogger THEN running \cup {Thread("logger")} ELSE running
  /\ mqtt_pos' = 1
  /\ pos' = pos + 1
  /\ mqtt_up' = TRUE
  /\ UNCHANGED <<phase, mosq, call, fed, exit_fd, saved>>

\* No instance can be created, or the logger cannot be started:
\* mqtt_startup() calls mqtt_shutdown() before it returns -1.
MqttFails ==
  /\ Starting("mqtt")
  /\ mqtt_pos <= NumConns => mosq[mqtt_pos] = "null"
  /\ phase' = "down"
  /\ mqtt_pos' = 1
  /\ UNCHANGED <<pos, running, mosq, call, fed, exit_fd, saved, mqtt_up>>

\* Mutant: the eventfd is drained before the loop.
EnterLoopDrains ==
  /\ phase = "start"
  /\ pos > Len(Modules)
  /\ phase' = "loop"
  /\ exit_fd' = FALSE
  /\ running' = running \cup {Thread("main")}
  /\ fed' = TRUE
  /\ UNCHANGED <<pos, mqtt_pos, mosq, call, saved, mqtt_up>>

\* All modules run: main enters its loop.
EnterLoop ==
  /\ phase = "start"
  /\ pos > Len(Modules)
  /\ phase' = "loop"
  /\ running' = running \cup {Thread("main")}
  /\ fed' = TRUE
  /\ UNCHANGED <<pos, mqtt_pos, mosq, call, exit_fd, saved, mqtt_up>>

\* select() sees the eventfd, or fails, or a CAN socket fails.
LeaveLoop ==
  /\ phase = "loop"
  /\ call[Thread("main")] = NoCall
  /\ phase' = "down"
  /\ running' = running \ {Thread("main")}
  /\ pos' = Len(Modules)
  /\ UNCHANGED <<mqtt_pos, mosq, call, fed, exit_fd, saved, mqtt_up>>

-----------------------------------------------------------------------------
(***************************************************************************)
(* Shutdown: the labels of main() in turn.                                 *)
(***************************************************************************)
Stopping(m) == phase = "down" /\ pos >= 1 /\ Modules[pos] = m

\* Thread t is told to stop and joined: it returns from what it is doing.
Joined(t) == call[t] = NoCall /\ running' = running \ {t}

\* rest, mb, eval and the watchdog: the thread is joined.  The SunSpec and
\* CAN threads publish nothing.
StopModule(m) ==
  /\ Stopping(m) /\ m \in {"sunspec", "rest", "mb", "eval", "watchdog", "can"}
  /\ IF m \in ModuleThreads THEN Joined(Thread(m)) ELSE UNCHANGED running
  /\ pos' = pos - 1
  /\ UNCHANGED <<phase, mqtt_pos, mosq, call, fed, exit_fd, saved, mqtt_up>>

\* Mutant: counter_stop() is not called.
CounterStopMissing ==
  /\ Stopping("publish")
  /\ pos' = pos - 1
  /\ mqtt_pos' = 1
  /\ UNCHANGED <<phase, running, mosq, call, fed, exit_fd, saved, mqtt_up>>

\* counter_stop(), in front of mqtt_shutdown().
CounterStop ==
  /\ Stopping("publish")
  /\ Joined(Thread("counter"))
  /\ pos' = pos - 1
  /\ mqtt_pos' = 1
  /\ UNCHANGED <<phase, mosq, call, fed, exit_fd, saved, mqtt_up>>

\* mqtt_shutdown(): the logger first ...
StopLogger ==
  /\ Stopping("mqtt")
  /\ mqtt_pos = 1
  /\ Joined(Thread("logger"))
  /\ mqtt_pos' = 2
  /\ UNCHANGED <<phase, pos, mosq, call, fed, exit_fd, saved, mqtt_up>>

\* Mutant: the network thread is not stopped.
StopConnUnjoined ==
  LET c == mqtt_pos - 1 IN
  /\ Stopping("mqtt")
  /\ c \in Conns
  /\ mqtt_pos' = mqtt_pos + 1
  /\ UNCHANGED <<phase, pos, running, mosq, call, fed, exit_fd, saved, mqtt_up>>

\* ... then the network threads, one after the other ...
StopConn ==
  LET c == mqtt_pos - 1 IN
  /\ Stopping("mqtt")
  /\ c \in Conns
  /\ Joined(NetThread(c))
  /\ mqtt_pos' = mqtt_pos + 1
  /\ UNCHANGED <<phase, pos, mosq, call, fed, exit_fd, saved, mqtt_up>>

\* ... then the instances are destroyed and forgotten, one after the other.
DestroyConn ==
  LET c == mqtt_pos - 1 - NumConns IN
  /\ Stopping("mqtt")
  /\ c \in Conns
  /\ IF mosq[c] = "live"
     THEN mosq' = [mosq EXCEPT ![c] = "dangling"] /\ UNCHANGED mqtt_pos
     ELSE mosq' = [mosq EXCEPT ![c] = "null"] /\ mqtt_pos' = mqtt_pos + 1
  /\ UNCHANGED <<phase, pos, running, call, fed, exit_fd, saved, mqtt_up>>

MqttDown ==
  /\ Stopping("mqtt")
  /\ mqtt_pos = 2 + 2 * NumConns
  /\ pos' = pos - 1
  /\ UNCHANGED <<phase, mqtt_pos, running, mosq, call, fed, exit_fd, saved, mqtt_up>>

\* counter_shutdown(): the thread is joined if it still runs, the states are
\* saved.
CounterShutdown ==
  /\ Stopping("counter")
  /\ Joined(Thread("counter"))
  /\ saved' = TRUE
  /\ pos' = pos - 1
  /\ UNCHANGED <<phase, mqtt_pos, mosq, call, fed, exit_fd, mqtt_up>>

\* uvrgw_conf_cleanup() and return.
ExitMain ==
  /\ phase = "down"
  /\ pos = 0
  /\ phase' = "exited"
  /\ UNCHANGED <<pos, mqtt_pos, running, mosq, call, fed, exit_fd, saved, mqtt_up>>

Exited == phase = "exited" /\ UNCHANGED vars

-----------------------------------------------------------------------------
Startup ==
  \/ \E i \in DOMAIN Modules : StartModule(Modules[i])
  \/ CreateConn \/ StartConn \/ ForgetConn \/ StartLogger \/ EnterLoop

Shutdown ==
  \/ \E i \in DOMAIN Modules : StopModule(Modules[i])
  \/ CounterStop
  \/ StopLogger \/ StopConn \/ DestroyConn \/ MqttDown
  \/ CounterShutdown \/ ExitMain

Next ==
  \/ \E t \in Threads, c \in Conns : Publish(t, c)
  \/ \E t \in Threads : PublishReturns(t)
  \/ Signal
  \/ Startup
  \/ \E i \in DOMAIN Modules : StartFails(Modules[i])
  \/ ConnFails \/ MqttFails
  \/ LeaveLoop
  \/ Shutdown
  \/ Exited

Spec == Init /\ [][Next]_vars

\* Main is scheduled, mosquitto_publish() returns, a running thread that is
\* to be joined comes to the end of its pass (it may publish in between), and
\* select() reports the eventfd.
Fairness ==
  /\ WF_vars(Startup)
  /\ SF_vars(Shutdown)
  /\ \A t \in Threads : WF_vars(PublishReturns(t))
  /\ SF_vars(exit_fd /\ LeaveLoop)

FairSpec == Spec /\ Fairness

-----------------------------------------------------------------------------
TypeOK ==
  /\ phase \in {"start", "loop", "down", "exited"}
  /\ pos \in 0..(Len(Modules) + 1)
  /\ mqtt_pos \in 1..(2 + 2 * NumConns)
  /\ running \subseteq Threads
  /\ mosq \in [Conns -> {"null", "live", "dangling"}]
  /\ call \in [Threads -> Conns \cup {NoCall}]
  /\ {fed, exit_fd, saved, mqtt_up} \subseteq BOOLEAN

\* Every thread producing values is stopped before the outputs are
\* destroyed: no thread is inside mosquitto_publish() on an instance that has
\* been destroyed.
NoUseAfterDestroy ==
  \A t \in Threads : call[t] # NoCall => mosq[call[t]] = "live"

\* Once MQTT has come up, that is so on every path through the labels of
\* main(), whichever module fails to start and whenever a signal arrives.
StoppedBeforeDestroyed == mqtt_up => NoUseAfterDestroy

\* The counter states are saved last: when they are, no thread that could
\* still change a counter runs, on every path through the labels.
SavedAfterLastValue ==
  saved => running \cap Sources = {}

\* main() leaves nothing behind: every thread has been joined and every
\* instance destroyed, wherever startup failed.
NothingLeft ==
  phase = "exited" => running = {} /\ \A c \in Conns : mosq[c] = "null"

\* A signal ends the program, even one that arrives before the loop, and so
\* does a failed startup: nobody waits for anybody for ever.
SignalEndsProgram == exit_fd \/ phase = "down" ~> phase = "exited"
=============================================================================
