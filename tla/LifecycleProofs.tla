--------------------------- MODULE LifecycleProofs ---------------------------
(***************************************************************************)
(* Proofs about Lifecycle: what main() has started and what it has stopped *)
(* at each of its labels, for any number of MQTT connections.              *)
(***************************************************************************)
EXTENDS Lifecycle, TLAPS

\* The module at position k of the startup order has come up and has not been
\* stopped.
Up(k) ==
  \/ phase = "start" /\ pos > k
  \/ phase = "loop"
  \/ phase = "down" /\ pos >= k

\* Shutdown has come as far as mqtt_shutdown().
AtMqtt == phase = "down" /\ pos = 3

\* Which threads may run: those of the modules that are up.  The counter
\* thread is stopped in front of MQTT if MQTT had come up.
RunInv ==
  /\ Thread("counter") \in running => Up(1) /\ ~(mqtt_up /\ phase = "down" /\ pos <= 3)
  /\ Thread("watchdog") \in running => Up(5)
  /\ Thread("eval") \in running => Up(6)
  /\ Thread("mb") \in running => Up(7)
  /\ Thread("rest") \in running => Up(8)
  /\ Thread("main") \in running => phase = "loop"
  /\ Thread("logger") \in running => Up(3) /\ (AtMqtt => mqtt_pos = 1)
  /\ \A c \in Conns : NetThread(c) \in running =>
       /\ Up(3) \/ (phase = "start" /\ pos = 3 /\ c < mqtt_pos)
       /\ AtMqtt => c + 1 >= mqtt_pos

\* Which instances exist: those mqtt_startup() has created and
\* mqtt_shutdown() has not destroyed.
InstanceInv ==
  \A c \in Conns :
    /\ mosq[c] # "null" =>
         \/ Up(3) /\ (AtMqtt => c >= mqtt_pos - 1 - NumConns)
         \/ phase = "start" /\ pos = 3 /\ c <= mqtt_pos
    /\ mosq[c] = "dangling" =>
         /\ pos = 3 /\ phase \in {"start", "down"}
         /\ phase = "start" => c = mqtt_pos
         /\ phase = "down" => c = mqtt_pos - 1 - NumConns

\* A thread inside mosquitto_publish() runs; until something has gone wrong in
\* mqtt_startup() the instance it uses exists.
CallInv ==
  \A t \in Threads : call[t] # NoCall =>
    /\ t \in running
    /\ phase \in {"start", "loop"} \/ mqtt_up => mosq[call[t]] # "null"

\* Where main can be when the flags are set.
MainInv ==
  /\ phase = "loop" => pos = 10
  /\ phase = "exited" => pos = 0
  /\ phase = "start" => pos >= 1
  /\ phase = "down" => pos <= 9
  /\ phase = "start" /\ mqtt_up => pos >= 4
  /\ saved => pos = 0 /\ phase \in {"down", "exited"}

LifeInv == TypeOK /\ MainInv /\ RunInv /\ InstanceInv /\ CallInv

-----------------------------------------------------------------------------
\* The startup order, by position.
LEMMA ModuleOrder ==
  /\ Len(Modules) = 9 /\ DOMAIN Modules = 1..9
  /\ \A k \in 1..9 :
       /\ Modules[k] = "counter" <=> k = 1
       /\ Modules[k] = "can" <=> k = 2
       /\ Modules[k] = "mqtt" <=> k = 3
       /\ Modules[k] = "publish" <=> k = 4
       /\ Modules[k] = "watchdog" <=> k = 5
       /\ Modules[k] = "eval" <=> k = 6
       /\ Modules[k] = "mb" <=> k = 7
       /\ Modules[k] = "rest" <=> k = 8
       /\ Modules[k] = "sunspec" <=> k = 9
       /\ Modules[k] # "net"
BY DEF Modules

\* Threads are told apart by their module and connection.
LEMMA ThreadNames ==
  /\ \A m \in ModuleThreads : Thread(m) \in Threads
  /\ \A c \in Conns : NetThread(c) \in Threads
  /\ \A t \in Threads : (\E m \in ModuleThreads : t = Thread(m)) \/ (\E c \in Conns : t = NetThread(c))
  /\ \A m, n : Thread(m) = Thread(n) <=> m = n
  /\ \A c, d \in Conns : NetThread(c) = NetThread(d) <=> c = d
  /\ \A m \in ModuleThreads, c \in Conns : Thread(m) # NetThread(c)
BY DEF Threads, Thread, NetThread, ModuleThreads

LEMMA ConnFacts ==
  /\ NumConns \in Nat /\ Conns = 1..NumConns /\ NoCall \notin Conns
  /\ \A c \in Conns : c \in Nat /\ c >= 1 /\ c <= NumConns
BY LifecycleConstants DEF Conns

\* Before main() starts anything.
LEMMA LifeInit == Init => LifeInv
<1> SUFFICES ASSUME Init PROVE LifeInv
  OBVIOUS
<1>1. TypeOK
  <2>1. pos \in 0..(Len(Modules) + 1) /\ mqtt_pos \in 1..(2 + 2 * NumConns)
    BY ModuleOrder, ConnFacts DEF Init
  <2>2. {fed, exit_fd, saved, mqtt_up} \subseteq BOOLEAN
    BY DEF Init
  <2>3. QED
    BY <2>1, <2>2 DEF Init, TypeOK
<1>2. MainInv /\ RunInv /\ InstanceInv /\ CallInv
  BY DEF Init, MainInv, RunInv, InstanceInv, CallInv
<1>3. QED
  BY <1>1, <1>2 DEF LifeInv

-----------------------------------------------------------------------------
\* Every step of main() and of the threads keeps it.
LEMMA LifeNext == LifeInv /\ [Next]_vars => LifeInv'
<1> SUFFICES ASSUME LifeInv, [Next]_vars PROVE LifeInv'
  OBVIOUS
<1>t. TypeOK /\ MainInv /\ RunInv /\ InstanceInv /\ CallInv
  BY DEF LifeInv
<1>n. /\ pos \in Int /\ pos >= 0 /\ pos <= 10 /\ mqtt_pos \in Int /\ mqtt_pos >= 1 /\ mqtt_pos <= 2 + 2 * NumConns
      /\ NumConns \in Nat
  BY <1>t, ModuleOrder, ConnFacts DEF TypeOK
<1>b. fed \in BOOLEAN /\ exit_fd \in BOOLEAN /\ saved \in BOOLEAN /\ mqtt_up \in BOOLEAN
  BY <1>t DEF TypeOK
<1>1. ASSUME NEW t \in Threads, NEW c \in Conns, Publish(t, c) PROVE LifeInv'
  <2>1. /\ t \in running /\ mosq[c] # "null" /\ call' = [call EXCEPT ![t] = c]
        /\ UNCHANGED <<phase, pos, mqtt_pos, running, mosq, fed, exit_fd, saved, mqtt_up>>
    BY <1>1 DEF Publish
  <2>2. TypeOK'
    BY <2>1, <1>t DEF TypeOK
  <2>3. CallInv'
    BY <2>1, <1>t DEF CallInv, TypeOK
  <2>4. MainInv' /\ RunInv' /\ InstanceInv'
    BY <2>1, <1>t DEF MainInv, RunInv, InstanceInv, Up, AtMqtt
  <2>5. QED
    BY <2>2, <2>3, <2>4 DEF LifeInv
<1>2. ASSUME NEW t \in Threads, PublishReturns(t) PROVE LifeInv'
  <2>1. /\ call' = [call EXCEPT ![t] = NoCall]
        /\ UNCHANGED <<phase, pos, mqtt_pos, running, mosq, fed, exit_fd, saved, mqtt_up>>
    BY <1>2 DEF PublishReturns
  <2>2. TypeOK'
    BY <2>1, <1>t DEF TypeOK
  <2>3. CallInv'
    BY <2>1, <1>t DEF CallInv, TypeOK
  <2>4. MainInv' /\ RunInv' /\ InstanceInv'
    BY <2>1, <1>t DEF MainInv, RunInv, InstanceInv, Up, AtMqtt
  <2>5. QED
    BY <2>2, <2>3, <2>4 DEF LifeInv
<1>3. CASE Signal
  <2>1. exit_fd' = TRUE /\ UNCHANGED <<phase, pos, mqtt_pos, running, mosq, call, fed, saved, mqtt_up>>
    BY <1>3 DEF Signal
  <2>2. TypeOK'
    BY <2>1, <1>t DEF TypeOK
  <2>3. MainInv' /\ RunInv' /\ InstanceInv' /\ CallInv'
    BY <2>1, <1>t DEF MainInv, RunInv, InstanceInv, CallInv, Up, AtMqtt
  <2>4. QED
    BY <2>2, <2>3 DEF LifeInv
\* Startup.
<1>4. ASSUME NEW i \in DOMAIN Modules, StartModule(Modules[i]) PROVE LifeInv'
  <2>1. /\ phase = "start" /\ phase' = "start" /\ pos >= 1 /\ pos <= 9 /\ pos # 3 /\ pos' = pos + 1
        /\ running' = running \cup ({Thread(Modules[pos])} \cap Threads)
        /\ UNCHANGED <<mqtt_pos, mosq, call, exit_fd, saved, mqtt_up>>
        /\ fed' = (fed \/ Modules[i] \in {"eval", "mb", "rest"})
    BY <1>4, <1>t, <1>n, ModuleOrder DEF StartModule, Starting, MainInv
  <2>2. TypeOK'
    <3>1. pos' \in 0..(Len(Modules) + 1)
      BY <2>1, <1>n, ModuleOrder
    <3>2. fed' \in BOOLEAN
      BY <2>1
    <3>3. running' \subseteq Threads
      BY <2>1, <1>t DEF TypeOK
    <3>4. QED
      BY <2>1, <3>1, <3>2, <3>3, <1>t DEF TypeOK
  <2>3. MainInv'
    BY <2>1, <1>t, <1>n DEF MainInv
  <2>4. RunInv'
    <3>1. \A m \in ModuleThreads : Thread(m) \in running' => Thread(m) \in running \/ m = Modules[pos]
      BY <2>1, ThreadNames
    <3>2. \A c \in Conns : NetThread(c) \in running' => NetThread(c) \in running
      <4>1. pos \in 1..9
        BY <2>1, <1>n
      <4>2. Modules[pos] # "net"
        BY <4>1, ModuleOrder
      <4>3. \A c \in Conns : NetThread(c) # Thread(Modules[pos])
        BY <4>2 DEF Thread, NetThread
      <4>4. QED
        BY <4>3, <2>1
    <3>3. pos' \in Int /\ ~AtMqtt' /\ ~AtMqtt /\ \A k \in 1..9 : Up(k) \/ k = pos => Up(k)'
      BY <2>1, <1>n DEF Up, AtMqtt
    <3>4. Thread("main") \in running' => FALSE
      BY <3>1, <2>1, <1>t, <1>n, ModuleOrder DEF RunInv, ModuleThreads
    <3>5. Thread("logger") \in running' => Thread("logger") \in running
      BY <3>1, <2>1, <1>n, ModuleOrder DEF ModuleThreads
    <3>6. /\ Thread("counter") \in running' => Up(1)'
          /\ Thread("watchdog") \in running' => Up(5)'
          /\ Thread("eval") \in running' => Up(6)'
          /\ Thread("mb") \in running' => Up(7)'
          /\ Thread("rest") \in running' => Up(8)'
      BY <3>1, <3>3, <2>1, <1>n, <1>t, ModuleOrder DEF RunInv, ModuleThreads
    <3>7. ASSUME NEW c \in Conns, NetThread(c) \in running' PROVE Up(3)' \/ (phase' = "start" /\ pos' = 3 /\ c < mqtt_pos')
      BY <3>7, <3>2, <3>3, <2>1, <1>t, <1>n DEF RunInv, Up
    <3>8. QED
      BY <3>3, <3>4, <3>5, <3>6, <3>7, <2>1, <1>t DEF RunInv
  <2>5. InstanceInv'
    BY <2>1, <1>t, <1>n DEF InstanceInv, Up, AtMqtt
  <2>6. CallInv'
    BY <2>1, <1>t DEF CallInv
  <2>7. QED
    BY <2>2, <2>3, <2>4, <2>5, <2>6 DEF LifeInv
<1>5. ASSUME NEW i \in DOMAIN Modules, StartFails(Modules[i]) PROVE LifeInv'
  <2>1. /\ phase = "start" /\ phase' = "down" /\ pos >= 1 /\ pos <= 9 /\ pos # 3 /\ pos # 4 /\ pos' = pos - 1
        /\ UNCHANGED <<mqtt_pos, running, mosq, call, fed, exit_fd, saved, mqtt_up>>
    BY <1>5, <1>t, <1>n, ModuleOrder DEF StartFails, Starting, MainInv
  <2>2. TypeOK'
    BY <2>1, <1>t, <1>n, ModuleOrder DEF TypeOK
  <2>3. MainInv'
    BY <2>1, <1>t, <1>n DEF MainInv
  <2>4. /\ pos' # 3 /\ ~AtMqtt' /\ (mqtt_up' => pos' >= 4) /\ pos' \in Int
        /\ \A k \in 1..9 : Up(k) => Up(k)'
    BY <2>1, <1>t, <1>n DEF Up, AtMqtt, MainInv
  <2>5. RunInv'
    BY <2>1, <2>4, <1>t, <1>n DEF RunInv, Up
  <2>6. InstanceInv'
    BY <2>1, <2>4, <1>t, <1>n DEF InstanceInv, Up
  <2>7. CallInv'
    BY <2>1, <1>t DEF CallInv
  <2>8. QED
    BY <2>2, <2>3, <2>5, <2>6, <2>7 DEF LifeInv
<1>6. CASE CreateConn
  <2>1. /\ phase = "start" /\ pos = 3 /\ mqtt_pos \in Conns /\ mosq[mqtt_pos] = "null"
        /\ mosq' = [mosq EXCEPT ![mqtt_pos] = "live"]
        /\ UNCHANGED <<phase, pos, mqtt_pos, running, call, fed, exit_fd, saved, mqtt_up>>
    BY <1>6, <1>t, <1>n, ModuleOrder, ConnFacts DEF CreateConn, Starting, MainInv
  <2>2. TypeOK'
    BY <2>1, <1>t DEF TypeOK
  <2>3. MainInv' /\ RunInv'
    BY <2>1, <1>t DEF MainInv, RunInv, Up, AtMqtt
  <2>4. InstanceInv'
    BY <2>1, <1>t, <1>n DEF InstanceInv, Up, AtMqtt, TypeOK
  <2>5. CallInv'
    BY <2>1, <1>t DEF CallInv, TypeOK
  <2>6. QED
    BY <2>2, <2>3, <2>4, <2>5 DEF LifeInv
<1>7. CASE StartConn
  <2>1. /\ phase = "start" /\ pos = 3 /\ mqtt_pos \in Conns /\ mosq[mqtt_pos] = "live"
        /\ running' = running \cup {NetThread(mqtt_pos)} /\ mqtt_pos' = mqtt_pos + 1 /\ fed' = TRUE
        /\ UNCHANGED <<phase, pos, mosq, call, exit_fd, saved, mqtt_up>>
    BY <1>7, <1>t, <1>n, ModuleOrder, ConnFacts DEF StartConn, Starting, MainInv
  <2>2. TypeOK'
    <3>1. mqtt_pos' \in 1..(2 + 2 * NumConns)
      BY <2>1, <1>n, ConnFacts
    <3>2. running' \subseteq Threads
      BY <2>1, <1>t, ThreadNames DEF TypeOK
    <3>3. QED
      BY <2>1, <3>1, <3>2, <1>t DEF TypeOK
  <2>3. MainInv'
    BY <2>1, <1>t DEF MainInv
  <2>4. RunInv'
    <3>1. \A m \in ModuleThreads : Thread(m) \in running' => Thread(m) \in running
      BY <2>1, ThreadNames
    <3>2. \A c \in Conns : NetThread(c) \in running' => NetThread(c) \in running \/ c = mqtt_pos
      BY <2>1, ThreadNames
    <3>3. ASSUME NEW c \in Conns, NetThread(c) \in running' PROVE c < mqtt_pos'
      <4>1. c = mqtt_pos \/ c < mqtt_pos
        BY <3>2, <3>3, <2>1, <1>t DEF RunInv, Up
      <4>2. QED
        BY <4>1, <2>1, <1>n, ConnFacts
    <3>4. \A k \in 1..9 : Up(k)' <=> Up(k)
      BY <2>1 DEF Up
    <3>5. QED
      BY <3>1, <3>3, <3>4, <2>1, <1>t DEF RunInv, ModuleThreads, AtMqtt
  <2>5. InstanceInv'
    BY <2>1, <1>t, <1>n, ConnFacts DEF InstanceInv, Up, AtMqtt
  <2>6. CallInv'
    BY <2>1, <1>t DEF CallInv
  <2>7. QED
    BY <2>2, <2>3, <2>4, <2>5, <2>6 DEF LifeInv
<1>8. CASE ConnFails
  <2>1. /\ phase = "start" /\ pos = 3 /\ mqtt_pos \in Conns /\ mosq[mqtt_pos] = "live"
        /\ mosq' = [mosq EXCEPT ![mqtt_pos] = "dangling"]
        /\ UNCHANGED <<phase, pos, mqtt_pos, running, call, fed, exit_fd, saved, mqtt_up>>
    BY <1>8, <1>t, <1>n, ModuleOrder, ConnFacts DEF ConnFails, Starting, MainInv
  <2>2. TypeOK'
    BY <2>1, <1>t DEF TypeOK
  <2>3. MainInv' /\ RunInv'
    BY <2>1, <1>t DEF MainInv, RunInv, Up, AtMqtt
  <2>4. InstanceInv'
    BY <2>1, <1>t, <1>n DEF InstanceInv, Up, AtMqtt, TypeOK
  <2>5. CallInv'
    BY <2>1, <1>t DEF CallInv, TypeOK
  <2>6. QED
    BY <2>2, <2>3, <2>4, <2>5 DEF LifeInv
<1>9. CASE ForgetConn
  <2>1. /\ phase = "start" /\ pos = 3 /\ mqtt_pos \in Conns /\ mosq[mqtt_pos] = "dangling"
        /\ mosq' = [mosq EXCEPT ![mqtt_pos] = "null"] /\ phase' = "down" /\ mqtt_pos' = 1 /\ ~mqtt_up
        /\ UNCHANGED <<pos, running, call, fed, exit_fd, saved, mqtt_up>>
    BY <1>9, <1>t, <1>n, ModuleOrder, ConnFacts DEF ForgetConn, Starting, MainInv
  <2>2. TypeOK'
    <3>1. 1 \in 1..(2 + 2 * NumConns)
      BY <1>n
    <3>2. QED
      BY <2>1, <3>1, <1>t DEF TypeOK
  <2>3. MainInv'
    BY <2>1, <1>t DEF MainInv
  <2>4. \A k \in 1..9 : Up(k) => Up(k)'
    BY <2>1 DEF Up
  <2>5. RunInv'
    BY <2>1, <2>4, <1>t, ConnFacts DEF RunInv, Up, AtMqtt
  <2>6. InstanceInv'
    BY <2>1, <1>t, <1>n, ConnFacts DEF InstanceInv, Up, AtMqtt, TypeOK
  <2>7. CallInv'
    BY <2>1, <1>t DEF CallInv
  <2>8. QED
    BY <2>2, <2>3, <2>5, <2>6, <2>7 DEF LifeInv
<1>10. CASE StartLogger
  <2>1. /\ phase = "start" /\ pos = 3 /\ mqtt_pos = NumConns + 1 /\ mqtt_pos' = 1 /\ pos' = 4 /\ mqtt_up' = TRUE
        /\ running' \in {running, running \cup {Thread("logger")}}
        /\ UNCHANGED <<phase, mosq, call, fed, exit_fd, saved>>
    BY <1>10, <1>t, <1>n, ModuleOrder DEF StartLogger, Starting, MainInv
  <2>2. TypeOK'
    <3>1. 1 \in 1..(2 + 2 * NumConns) /\ 4 \in 0..(Len(Modules) + 1)
      BY <1>n, ModuleOrder
    <3>2. running' \subseteq Threads
      BY <2>1, <1>t, ThreadNames DEF TypeOK, ModuleThreads
    <3>3. QED
      BY <2>1, <3>1, <3>2, <1>t DEF TypeOK
  <2>3. MainInv'
    BY <2>1, <1>t DEF MainInv
  <2>4. RunInv'
    <3>1. \A m \in ModuleThreads : Thread(m) \in running' => Thread(m) \in running \/ m = "logger"
      BY <2>1, ThreadNames DEF ModuleThreads
    <3>2. \A k \in 1..9 : Up(k) \/ k = 3 => Up(k)'
      BY <2>1 DEF Up
    <3>3. QED
      BY <3>1, <3>2, <2>1, <1>t DEF RunInv, ModuleThreads, AtMqtt
  <2>5. InstanceInv'
    BY <2>1, <1>t, <1>n, ConnFacts DEF InstanceInv, Up, AtMqtt
  <2>6. CallInv'
    BY <2>1, <1>t DEF CallInv
  <2>7. QED
    BY <2>2, <2>3, <2>4, <2>5, <2>6 DEF LifeInv
<1>11. CASE MqttFails
  <2>1. /\ phase = "start" /\ pos = 3 /\ mqtt_pos <= NumConns => mosq[mqtt_pos] = "null"
    BY <1>11, <1>t, <1>n, ModuleOrder DEF MqttFails, Starting, MainInv
  <2>2. /\ phase' = "down" /\ mqtt_pos' = 1 /\ UNCHANGED <<pos, running, mosq, call, fed, exit_fd, saved, mqtt_up>>
        /\ phase = "start" /\ pos = 3 /\ ~mqtt_up
    BY <1>11, <1>t, <1>n, ModuleOrder DEF MqttFails, Starting, MainInv
  <2>3. TypeOK'
    <3>1. 1 \in 1..(2 + 2 * NumConns)
      BY <1>n
    <3>2. QED
      BY <2>2, <3>1, <1>t DEF TypeOK
  <2>4. MainInv'
    BY <2>2, <1>t DEF MainInv
  <2>5. \A k \in 1..9 : Up(k) => Up(k)'
    BY <2>2 DEF Up
  <2>6. RunInv'
    BY <2>2, <2>5, <1>t, ConnFacts DEF RunInv, Up, AtMqtt
  <2>7. \A c \in Conns : mosq[c] # "dangling"
    BY <2>1, <2>2, <1>t, <1>n, ConnFacts DEF InstanceInv
  <2>8. InstanceInv'
    BY <2>2, <2>7, <1>t, <1>n, ConnFacts DEF InstanceInv, Up, AtMqtt
  <2>9. CallInv'
    BY <2>2, <1>t DEF CallInv
  <2>10. QED
    BY <2>3, <2>4, <2>6, <2>8, <2>9 DEF LifeInv
<1>12. CASE EnterLoop
  <2>1. /\ phase = "start" /\ phase' = "loop" /\ pos = 10 /\ fed' = TRUE
        /\ running' = running \cup {Thread("main")}
        /\ UNCHANGED <<pos, mqtt_pos, mosq, call, exit_fd, saved, mqtt_up>>
    BY <1>12, <1>n, ModuleOrder DEF EnterLoop
  <2>2. TypeOK'
    <3>1. running' \subseteq Threads
      BY <2>1, <1>t, ThreadNames DEF TypeOK, ModuleThreads
    <3>2. QED
      BY <2>1, <3>1, <1>t DEF TypeOK
  <2>3. MainInv'
    BY <2>1, <1>t DEF MainInv
  <2>4. RunInv'
    BY <2>1 DEF RunInv, Up, AtMqtt
  <2>5. InstanceInv'
    BY <2>1, <1>t DEF InstanceInv, Up, AtMqtt
  <2>6. CallInv'
    BY <2>1, <1>t DEF CallInv
  <2>7. QED
    BY <2>2, <2>3, <2>4, <2>5, <2>6 DEF LifeInv
<1>13. CASE LeaveLoop
  <2>1. /\ phase = "loop" /\ phase' = "down" /\ pos' = 9 /\ call[Thread("main")] = NoCall
        /\ running' = running \ {Thread("main")}
        /\ UNCHANGED <<mqtt_pos, mosq, call, fed, exit_fd, saved, mqtt_up>>
    BY <1>13, ModuleOrder DEF LeaveLoop
  <2>2. TypeOK'
    BY <2>1, <1>t, ModuleOrder DEF TypeOK
  <2>3. MainInv'
    BY <2>1, <1>t DEF MainInv
  <2>4. RunInv'
    BY <2>1 DEF RunInv, Up, AtMqtt
  <2>5. InstanceInv'
    BY <2>1, <1>t DEF InstanceInv, Up, AtMqtt
  <2>6. CallInv'
    BY <2>1, <1>t DEF CallInv
  <2>7. QED
    BY <2>2, <2>3, <2>4, <2>5, <2>6 DEF LifeInv
\* Shutdown.
<1>14. ASSUME NEW i \in DOMAIN Modules, StopModule(Modules[i]) PROVE LifeInv'
  <2>1. /\ phase = "down" /\ phase' = "down" /\ pos \in {2, 5, 6, 7, 8, 9} /\ pos' = pos - 1
        /\ IF Modules[pos] \in ModuleThreads THEN Joined(Thread(Modules[pos])) ELSE UNCHANGED running
        /\ UNCHANGED <<mqtt_pos, mosq, call, fed, exit_fd, saved, mqtt_up>>
    BY <1>14, <1>t, <1>n, ModuleOrder DEF StopModule, Stopping, MainInv
  <2>2. TypeOK'
    <3>1. pos' \in 0..(Len(Modules) + 1)
      BY <2>1, ModuleOrder
    <3>2. running' \subseteq Threads
      BY <2>1, <1>t DEF TypeOK, Joined
    <3>3. QED
      BY <2>1, <3>1, <3>2, <1>t DEF TypeOK
  <2>3. MainInv'
    BY <2>1, <1>t DEF MainInv
  <2>4. running' \subseteq running
    BY <2>1 DEF Joined
  <2>5. /\ pos = 5 => Thread("watchdog") \notin running'
        /\ pos = 6 => Thread("eval") \notin running'
        /\ pos = 7 => Thread("mb") \notin running'
        /\ pos = 8 => Thread("rest") \notin running'
    BY <2>1, ModuleOrder DEF Joined, ModuleThreads
  <2>6. ~AtMqtt' /\ \A k \in 1..9 : Up(k) /\ k # pos => Up(k)'
    BY <2>1 DEF Up, AtMqtt
  <2>7. RunInv'
    <3>1. Thread("main") \notin running'
      BY <2>1, <2>4, <1>t DEF RunInv
    <3>2. mqtt_up => pos >= 4 \/ Thread("counter") \notin running
      BY <2>1, <1>t DEF RunInv
    <3>3. QED
      BY <2>1, <2>4, <2>5, <2>6, <3>1, <3>2, <1>t DEF RunInv
  <2>8. InstanceInv'
    BY <2>1, <2>6, <1>t DEF InstanceInv
  <2>9. CallInv'
    BY <2>1, <1>t DEF CallInv, Joined
  <2>10. QED
    BY <2>2, <2>3, <2>7, <2>8, <2>9 DEF LifeInv
<1>15. CASE CounterStop
  <2>1. /\ phase = "down" /\ pos = 4 /\ pos' = 3 /\ mqtt_pos' = 1
        /\ call[Thread("counter")] = NoCall /\ running' = running \ {Thread("counter")}
        /\ UNCHANGED <<phase, mosq, call, fed, exit_fd, saved, mqtt_up>>
    BY <1>15, <1>t, <1>n, ModuleOrder DEF CounterStop, Stopping, Joined, MainInv
  <2>2. TypeOK'
    <3>1. 1 \in 1..(2 + 2 * NumConns) /\ 3 \in 0..(Len(Modules) + 1)
      BY <1>n, ModuleOrder
    <3>2. QED
      BY <2>1, <3>1, <1>t DEF TypeOK
  <2>3. MainInv'
    BY <2>1, <1>t DEF MainInv
  <2>4. \A k \in 1..9 : Up(k) => Up(k)' \/ k = 4
    BY <2>1 DEF Up
  <2>5. RunInv'
    BY <2>1, <2>4, <1>t, ConnFacts DEF RunInv
  <2>6. \A c \in Conns : mosq[c] # "dangling"
    BY <2>1, <1>t DEF InstanceInv
  <2>7. InstanceInv'
    BY <2>1, <2>4, <2>6, <1>t, <1>n, ConnFacts DEF InstanceInv
  <2>8. CallInv'
    BY <2>1, <1>t DEF CallInv
  <2>9. QED
    BY <2>2, <2>3, <2>5, <2>7, <2>8 DEF LifeInv
<1>16. CASE StopLogger
  <2>1. /\ phase = "down" /\ pos = 3 /\ mqtt_pos = 1 /\ mqtt_pos' = 2
        /\ call[Thread("logger")] = NoCall /\ running' = running \ {Thread("logger")}
        /\ UNCHANGED <<phase, pos, mosq, call, fed, exit_fd, saved, mqtt_up>>
    BY <1>16, <1>t, <1>n, ModuleOrder DEF StopLogger, Stopping, Joined, MainInv
  <2>2. TypeOK'
    <3>1. 2 \in 1..(2 + 2 * NumConns)
      BY <1>n
    <3>2. QED
      BY <2>1, <3>1, <1>t DEF TypeOK
  <2>3. MainInv'
    BY <2>1, <1>t DEF MainInv
  <2>4. RunInv'
    BY <2>1, <1>t, ConnFacts DEF RunInv, Up, AtMqtt
  <2>5. \A c \in Conns : mosq[c] # "dangling"
    BY <2>1, <1>t, <1>n, ConnFacts DEF InstanceInv
  <2>6. InstanceInv'
    BY <2>1, <2>5, <1>t, <1>n, ConnFacts DEF InstanceInv, Up, AtMqtt
  <2>7. CallInv'
    BY <2>1, <1>t DEF CallInv
  <2>8. QED
    BY <2>2, <2>3, <2>4, <2>6, <2>7 DEF LifeInv
<1>17. CASE StopConn
  <2>1. PICK c \in Conns : c = mqtt_pos - 1
    BY <1>17 DEF StopConn
  <2>2. /\ phase = "down" /\ pos = 3 /\ mqtt_pos = c + 1 /\ mqtt_pos' = c + 2
        /\ call[NetThread(c)] = NoCall /\ running' = running \ {NetThread(c)}
        /\ UNCHANGED <<phase, pos, mosq, call, fed, exit_fd, saved, mqtt_up>>
    BY <2>1, <1>17, <1>t, <1>n, ModuleOrder, ConnFacts DEF StopConn, Stopping, Joined, MainInv
  <2>3. TypeOK'
    <3>1. mqtt_pos' \in 1..(2 + 2 * NumConns)
      BY <2>2, <1>n, ConnFacts
    <3>2. QED
      BY <2>2, <3>1, <1>t DEF TypeOK
  <2>4. MainInv'
    BY <2>2, <1>t DEF MainInv
  <2>5. RunInv'
    <3>1. \A d \in Conns : NetThread(d) \in running' => d + 1 >= mqtt_pos'
      BY <2>2, <1>t, ConnFacts DEF RunInv, AtMqtt
    <3>2. Thread("logger") \notin running
      BY <2>2, <1>t, ConnFacts DEF RunInv, AtMqtt
    <3>3. QED
      BY <2>2, <3>1, <3>2, <1>t DEF RunInv, Up, AtMqtt
  <2>6. \A d \in Conns : mosq[d] # "dangling"
    BY <2>2, <1>t, <1>n, ConnFacts DEF InstanceInv
  <2>7. InstanceInv'
    BY <2>2, <2>6, <1>t, <1>n, ConnFacts DEF InstanceInv, Up, AtMqtt
  <2>8. CallInv'
    BY <2>2, <1>t DEF CallInv
  <2>9. QED
    BY <2>3, <2>4, <2>5, <2>7, <2>8 DEF LifeInv
<1>18. CASE DestroyConn
  <2>1. PICK c \in Conns : c = mqtt_pos - 1 - NumConns
    BY <1>18 DEF DestroyConn
  <2>2. /\ phase = "down" /\ pos = 3 /\ mqtt_pos = c + 1 + NumConns
        /\ \/ mosq[c] = "live" /\ mosq' = [mosq EXCEPT ![c] = "dangling"] /\ mqtt_pos' = mqtt_pos
           \/ mosq[c] # "live" /\ mosq' = [mosq EXCEPT ![c] = "null"] /\ mqtt_pos' = mqtt_pos + 1
        /\ UNCHANGED <<phase, pos, running, call, fed, exit_fd, saved, mqtt_up>>
    BY <2>1, <1>18, <1>t, <1>n, ModuleOrder, ConnFacts DEF DestroyConn, Stopping, MainInv
  <2>3. TypeOK'
    <3>1. mqtt_pos' \in 1..(2 + 2 * NumConns)
      BY <2>2, <1>n, ConnFacts
    <3>2. mosq' \in [Conns -> {"null", "live", "dangling"}]
      BY <2>2, <1>t DEF TypeOK
    <3>3. QED
      BY <2>2, <3>1, <3>2, <1>t DEF TypeOK
  <2>4. MainInv'
    BY <2>2, <1>t DEF MainInv
  <2>5. mqtt_pos > NumConns + 1 /\ mqtt_pos' > NumConns + 1 /\ mqtt_pos # 1 /\ mqtt_pos' \in Int
    BY <2>2, <1>n, ConnFacts
  <2>6. /\ Thread("logger") \notin running /\ Thread("main") \notin running
        /\ \A d \in Conns : NetThread(d) \notin running
    BY <2>2, <2>5, <1>t, <1>n, ConnFacts DEF RunInv, AtMqtt
  <2>7. RunInv'
    BY <2>2, <2>6, <1>t DEF RunInv, Up
  <2>8. InstanceInv'
    <3>1. CASE mosq[c] = "live" /\ mosq' = [mosq EXCEPT ![c] = "dangling"] /\ mqtt_pos' = mqtt_pos
      BY <3>1, <2>2, <1>t, <1>n, ConnFacts DEF InstanceInv, Up, AtMqtt, TypeOK
    <3>2. CASE mosq[c] # "live" /\ mosq' = [mosq EXCEPT ![c] = "null"] /\ mqtt_pos' = mqtt_pos + 1
      BY <3>2, <2>2, <1>t, <1>n, ConnFacts DEF InstanceInv, Up, AtMqtt, TypeOK
    <3>3. QED
      BY <2>2, <3>1, <3>2
  <2>9. CallInv'
    <3>1. mqtt_up => running = {}
      <4>1. \A m \in ModuleThreads : mqtt_up => Thread(m) \notin running
        BY <2>2, <2>6, <1>t DEF RunInv, Up, ModuleThreads
      <4>2. \A t \in running : t \in Threads
        BY <1>t DEF TypeOK
      <4>3. QED
        BY <4>1, <4>2, <2>6, ThreadNames
    <3>2. QED
      BY <3>1, <2>2, <1>t DEF CallInv
  <2>10. QED
    BY <2>3, <2>4, <2>7, <2>8, <2>9 DEF LifeInv
<1>19. CASE MqttDown
  <2>1. /\ phase = "down" /\ pos = 3 /\ mqtt_pos = 2 + 2 * NumConns /\ pos' = 2
        /\ UNCHANGED <<phase, mqtt_pos, running, mosq, call, fed, exit_fd, saved, mqtt_up>>
    BY <1>19, <1>t, <1>n, ModuleOrder DEF MqttDown, Stopping, MainInv
  <2>2. TypeOK'
    BY <2>1, <1>t, ModuleOrder DEF TypeOK
  <2>3. MainInv'
    BY <2>1, <1>t DEF MainInv
  <2>4. mqtt_pos > NumConns + 1 /\ mqtt_pos # 1
    BY <2>1, <1>n
  <2>5. /\ Thread("logger") \notin running /\ Thread("main") \notin running
        /\ \A d \in Conns : NetThread(d) \notin running
    BY <2>1, <2>4, <1>t, <1>n, ConnFacts DEF RunInv, AtMqtt
  <2>6. RunInv'
    BY <2>1, <2>5, <1>t DEF RunInv, Up
  <2>7. \A d \in Conns : mosq[d] = "null"
    BY <2>1, <1>t, <1>n, ConnFacts DEF InstanceInv, AtMqtt
  <2>8. InstanceInv'
    BY <2>1, <2>7 DEF InstanceInv
  <2>9. CallInv'
    BY <2>1, <1>t DEF CallInv
  <2>10. QED
    BY <2>2, <2>3, <2>6, <2>8, <2>9 DEF LifeInv
<1>20. CASE CounterShutdown
  <2>1. /\ phase = "down" /\ pos = 1 /\ pos' = 0 /\ saved' = TRUE
        /\ running' = running \ {Thread("counter")} /\ call[Thread("counter")] = NoCall
        /\ UNCHANGED <<phase, mqtt_pos, mosq, call, fed, exit_fd, mqtt_up>>
    BY <1>20, <1>t, <1>n, ModuleOrder DEF CounterShutdown, Stopping, Joined, MainInv
  <2>2. TypeOK'
    BY <2>1, <1>t, ModuleOrder DEF TypeOK
  <2>3. MainInv'
    BY <2>1, <1>t DEF MainInv
  <2>4. RunInv'
    BY <2>1, <1>t DEF RunInv, Up, AtMqtt
  <2>5. InstanceInv'
    BY <2>1, <1>t DEF InstanceInv, Up, AtMqtt
  <2>6. CallInv'
    BY <2>1, <1>t DEF CallInv
  <2>7. QED
    BY <2>2, <2>3, <2>4, <2>5, <2>6 DEF LifeInv
<1>21. CASE ExitMain
  <2>1. /\ phase = "down" /\ phase' = "exited" /\ pos = 0
        /\ UNCHANGED <<pos, mqtt_pos, running, mosq, call, fed, exit_fd, saved, mqtt_up>>
    BY <1>21 DEF ExitMain
  <2>2. TypeOK'
    BY <2>1, <1>t DEF TypeOK
  <2>3. MainInv'
    BY <2>1, <1>t DEF MainInv
  <2>4. RunInv' /\ InstanceInv'
    BY <2>1, <1>t DEF RunInv, InstanceInv, Up, AtMqtt
  <2>5. CallInv'
    BY <2>1, <1>t DEF CallInv
  <2>6. QED
    BY <2>2, <2>3, <2>4, <2>5 DEF LifeInv
<1>22. CASE UNCHANGED vars
  BY <1>22, <1>t DEF vars, LifeInv, TypeOK, MainInv, RunInv, InstanceInv, CallInv, Up, AtMqtt
<1>23. QED
  BY <1>1, <1>2, <1>3, <1>4, <1>5, <1>6, <1>7, <1>8, <1>9, <1>10, <1>11, <1>12, <1>13, <1>14, <1>15,
     <1>16, <1>17, <1>18, <1>19, <1>20, <1>21, <1>22
  DEF Next, Startup, Shutdown, Exited

LEMMA LifeInvHolds == Spec => []LifeInv
BY LifeInit, LifeNext, PTL DEF Spec

\* Shutdown has come past every module thread: nothing runs.
LEMMA NothingRuns == LifeInv /\ phase \in {"down", "exited"} /\ pos = 0 => running = {}
<1> SUFFICES ASSUME LifeInv, phase \in {"down", "exited"}, pos = 0 PROVE running = {}
  OBVIOUS
<1>1. \A m \in ModuleThreads : Thread(m) \notin running
  BY DEF LifeInv, RunInv, Up, ModuleThreads
<1>2. \A c \in Conns : NetThread(c) \notin running
  BY DEF LifeInv, RunInv, Up
<1>3. \A t \in running : t \in Threads
  BY DEF LifeInv, TypeOK
<1>4. QED
  BY <1>1, <1>2, <1>3, ThreadNames

\* Once MQTT has come up, no thread is ever inside mosquitto_publish() on a
\* destroyed instance, whichever module fails to start and whenever a signal
\* arrives: the labels of main() stop every dispatching thread first.
THEOREM ThreadsStopFirst == Spec => []StoppedBeforeDestroyed
<1>1. LifeInv => StoppedBeforeDestroyed
  <2> SUFFICES ASSUME LifeInv, mqtt_up, NEW t \in Threads, call[t] # NoCall
               PROVE  mosq[call[t]] = "live"
    BY DEF StoppedBeforeDestroyed, NoUseAfterDestroy
  <2>1. call[t] \in Conns /\ t \in running /\ mosq[call[t]] # "null"
    BY DEF LifeInv, CallInv, TypeOK
  <2>2. mosq[call[t]] \in {"null", "live", "dangling"}
    BY <2>1 DEF LifeInv, TypeOK
  <2>3. ASSUME mosq[call[t]] = "dangling" PROVE FALSE
    <3>1. phase = "down" /\ pos = 3 /\ call[t] = mqtt_pos - 1 - NumConns
      BY <2>1, <2>3 DEF LifeInv, InstanceInv, MainInv
    <3>2. mqtt_pos > NumConns + 1 /\ mqtt_pos # 1 /\ NumConns \in Nat
      BY <2>1, <3>1, ConnFacts DEF LifeInv, TypeOK
    <3>3. \A m \in ModuleThreads : Thread(m) \notin running
      BY <3>1, <3>2 DEF LifeInv, RunInv, Up, AtMqtt, ModuleThreads
    <3>4. \A c \in Conns : NetThread(c) \notin running
      BY <3>1, <3>2, ConnFacts DEF LifeInv, RunInv, AtMqtt, TypeOK
    <3>5. QED
      BY <2>1, <3>3, <3>4, ThreadNames
  <2>4. QED
    BY <2>1, <2>2, <2>3
<1>2. QED
  BY <1>1, LifeInvHolds, PTL

\* When counter_shutdown() has saved the counters, no thread runs that could
\* change them, on every path through the labels of main().
THEOREM CountersAreSavedLast == Spec => []SavedAfterLastValue
<1>1. LifeInv => SavedAfterLastValue
  BY NothingRuns DEF LifeInv, MainInv, SavedAfterLastValue
<1>2. QED
  BY <1>1, LifeInvHolds, PTL

\* main() returns with every thread joined and every MQTT instance destroyed,
\* wherever startup failed.
THEOREM MainLeavesNothing == Spec => []NothingLeft
<1>1. LifeInv => NothingLeft
  <2> SUFFICES ASSUME LifeInv, phase = "exited" PROVE running = {} /\ \A c \in Conns : mosq[c] = "null"
    BY DEF NothingLeft
  <2>1. pos = 0
    BY DEF LifeInv, MainInv
  <2>2. running = {}
    BY <2>1, NothingRuns
  <2>3. \A c \in Conns : mosq[c] = "null"
    BY <2>1 DEF LifeInv, InstanceInv, Up
  <2>4. QED
    BY <2>2, <2>3
<1>2. QED
  BY <1>1, LifeInvHolds, PTL
=============================================================================
