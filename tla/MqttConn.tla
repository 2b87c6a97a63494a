------------------------------ MODULE MqttConn ------------------------------
(***************************************************************************)
(* A broker connection of mqtt.c: the callbacks libmosquitto calls in its  *)
(* network thread, conn_startup() and conn_stop() in the main thread, and  *)
(* what the broker makes of the packets (QoS 0), the last will included.   *)
(* libmosquitto and the broker are external.                               *)
(*                                                                         *)
(* The state topic shows observers whether the program is there: "ON" is   *)
(* published on connection, "OFF" by conn_stop() or as the last will.      *)
(***************************************************************************)
EXTENDS Integers, Sequences

CONSTANTS
  KeepsId,        \* client_id is given: the broker knows a client again
  MaxLosses       \* bound: how often the connection is lost

ASSUME MqttConnConstants == KeepsId \in BOOLEAN /\ MaxLosses \in Nat

VARIABLES
  \* MQTT_CONN_T
  connected,
  \* the network thread and the main thread
  net,          \* "idle", "connecting", "callback", "subscribe", "up", "ended"
  stop,         \* conn_stop(): "run", "publish", "disconnect", "join", "stopped"; "dead"
  \* libmosquitto
  disc,         \* mosquitto_disconnect() has been called
  wire,         \* packets on their way to the broker
  connack,      \* "none", "accepted", "refused"
  link_up,
  losses,
  \* the broker
  session,      \* there is a session on the present link
  half_open,    \* a session whose loss the broker has not noticed
  subscribed,   \* the session has the subscriptions of all input topics
  state         \* what the state topic shows

clientVars == <<connected, net, stop, disc>>
linkVars   == <<wire, connack, link_up, losses>>
brokerVars == <<session, half_open, subscribed, state>>
connVars   == <<clientVars, linkVars, brokerVars>>

\* conn_startup(): the thread runs and mosquitto_connect_async() was called.
ConnInit ==
  /\ connected = FALSE /\ net = "idle" /\ stop = "run" /\ disc = FALSE
  /\ wire = <<>> /\ connack = "none" /\ link_up = FALSE /\ losses = 0
  /\ session = FALSE /\ half_open = FALSE /\ subscribed = FALSE /\ state = "none"

Send(p) == wire' = IF link_up THEN Append(wire, p) ELSE wire

-----------------------------------------------------------------------------
(***************************************************************************)
(* The network thread.                                                     *)
(***************************************************************************)

\* The connection is made and CONNECT is sent, again and again.
NetConnect ==
  /\ net = "idle" /\ ~disc
  /\ net' = "connecting"
  /\ link_up' = TRUE /\ wire' = <<"CONNECT">> /\ connack' = "none"
  /\ UNCHANGED <<connected, stop, disc, losses, brokerVars>>

\* connect_callback() of a refused connection; the link is closed.
NetRefused ==
  /\ net = "connecting" /\ connack = "refused"
  /\ net' = IF disc THEN "ended" ELSE "idle"
  /\ link_up' = FALSE /\ wire' = <<>> /\ connack' = "none"
  /\ UNCHANGED <<connected, stop, disc, losses, brokerVars>>

\* connect_callback(): the flag is set, ...
NetConnected ==
  /\ net = "connecting" /\ connack = "accepted"
  /\ connected' = TRUE /\ net' = "callback" /\ connack' = "none"
  /\ UNCHANGED <<stop, disc, wire, link_up, losses, brokerVars>>

\* ... "ON" is published, ...
NetPublishOn ==
  /\ net = "callback"
  /\ Send("ON") /\ net' = "subscribe"
  /\ UNCHANGED <<connected, stop, disc, connack, link_up, losses, brokerVars>>

\* Mutant: the broker is thought to know the subscriptions of before.
NetSubscribeOnce ==
  /\ net = "subscribe"
  /\ IF losses = 0 THEN Send("SUBSCRIBE") ELSE UNCHANGED wire
  /\ net' = "up"
  /\ UNCHANGED <<connected, stop, disc, connack, link_up, losses, brokerVars>>

\* ... and all input topics are subscribed, also after a reconnect: the
\* session is a clean one.
NetSubscribe ==
  /\ net = "subscribe"
  /\ Send("SUBSCRIBE") /\ net' = "up"
  /\ UNCHANGED <<connected, stop, disc, connack, link_up, losses, brokerVars>>

\* The end of the link is seen: disconnect_callback().  There is a new
\* attempt unless mosquitto_disconnect() was called.
NetDisconnected ==
  /\ net \in {"connecting", "up"} /\ ~link_up
  /\ connected' = FALSE
  /\ net' = IF disc THEN "ended" ELSE "idle"
  /\ UNCHANGED <<stop, disc, linkVars, brokerVars>>

NetEnds ==
  /\ net = "idle" /\ disc
  /\ net' = "ended"
  /\ UNCHANGED <<connected, stop, disc, linkVars, brokerVars>>

-----------------------------------------------------------------------------
(***************************************************************************)
(* conn_stop() in the main thread.                                         *)
(***************************************************************************)
StopCheck ==
  /\ stop = "run"
  /\ stop' = IF connected THEN "publish" ELSE "disconnect"
  /\ UNCHANGED <<connected, net, disc, linkVars, brokerVars>>

StopPublish ==
  /\ stop = "publish"
  /\ Send("OFF") /\ stop' = "disconnect"
  /\ UNCHANGED <<connected, net, disc, connack, link_up, losses, brokerVars>>

StopDisconnect ==
  /\ stop = "disconnect"
  /\ Send("DISCONNECT") /\ disc' = TRUE /\ stop' = "join"
  /\ UNCHANGED <<connected, net, connack, link_up, losses, brokerVars>>

\* mosquitto_loop_stop() returns.
StopJoin ==
  /\ stop = "join" /\ net = "ended"
  /\ stop' = "stopped"
  /\ UNCHANGED <<connected, net, disc, linkVars, brokerVars>>

-----------------------------------------------------------------------------
(***************************************************************************)
(* The network and the broker.                                             *)
(***************************************************************************)

\* What is on the wire is lost, and the broker does not know.
LinkBreaks ==
  /\ link_up' = FALSE /\ wire' = <<>> /\ connack' = "none"
  /\ session' = FALSE /\ half_open' = (half_open \/ session) /\ subscribed' = FALSE

Lose ==
  /\ link_up /\ losses < MaxLosses
  /\ LinkBreaks
  /\ losses' = losses + 1
  /\ UNCHANGED <<clientVars, state>>

\* The program dies while it runs: its threads end where they are.
Die ==
  /\ stop = "run"
  /\ LinkBreaks
  /\ stop' = "dead" /\ net' = "ended"
  /\ UNCHANGED <<connected, disc, losses, state>>

\* The broker notices a lost session and publishes its will.
BrokerNotices ==
  /\ half_open
  /\ half_open' = FALSE /\ state' = "OFF"
  /\ UNCHANGED <<clientVars, linkVars, session, subscribed>>

BrokerAccepts ==
  /\ wire # <<>> /\ Head(wire) = "CONNECT"
  /\ wire' = Tail(wire)
  /\ connack' = "accepted" /\ session' = TRUE /\ subscribed' = FALSE
  /\ IF half_open /\ KeepsId       \* the client takes its old session over
     THEN half_open' = FALSE /\ state' = "OFF"
     ELSE UNCHANGED <<half_open, state>>
  /\ UNCHANGED <<clientVars, link_up, losses>>

BrokerRefuses ==
  /\ wire # <<>> /\ Head(wire) = "CONNECT"
  /\ wire' = <<>> /\ connack' = "refused"
  /\ UNCHANGED <<clientVars, link_up, losses, brokerVars>>

BrokerReceives ==
  /\ wire # <<>> /\ Head(wire) \in {"ON", "OFF", "SUBSCRIBE"}
  /\ wire' = Tail(wire)
  /\ state' = IF Head(wire) \in {"ON", "OFF"} THEN Head(wire) ELSE state
  /\ subscribed' = (subscribed \/ Head(wire) = "SUBSCRIBE")
  /\ UNCHANGED <<clientVars, connack, link_up, losses, session, half_open>>

\* A session that ends in order has no will.
BrokerDisconnects ==
  /\ wire # <<>> /\ Head(wire) = "DISCONNECT"
  /\ wire' = <<>> /\ link_up' = FALSE /\ connack' = "none"
  /\ session' = FALSE /\ subscribed' = FALSE
  /\ UNCHANGED <<clientVars, losses, half_open, state>>

-----------------------------------------------------------------------------
NetStep ==
  NetConnect \/ NetRefused \/ NetConnected \/ NetPublishOn \/ NetSubscribe
    \/ NetDisconnected \/ NetEnds

StopStep == StopPublish \/ StopDisconnect \/ StopJoin

BrokerStep == BrokerAccepts \/ BrokerRefuses \/ BrokerReceives \/ BrokerDisconnects

ConnDone == stop \in {"stopped", "dead"} /\ UNCHANGED connVars

ConnNext ==
  \/ NetStep \/ StopCheck \/ StopStep
  \/ Lose \/ Die
  \/ BrokerNotices \/ BrokerStep
  \/ ConnDone

\* The threads are scheduled, the broker answers, notices a lost session
\* (keepalive) and does not refuse for ever.  Nobody has to stop the program.
ConnFairness ==
  /\ WF_connVars(NetStep) /\ WF_connVars(StopStep)
  /\ WF_connVars(BrokerStep) /\ SF_connVars(BrokerAccepts)
  /\ WF_connVars(BrokerNotices)

ConnSpec == ConnInit /\ [][ConnNext]_connVars /\ ConnFairness

-----------------------------------------------------------------------------
\* connect_callback(), the will and conn_stop(): when no more connections
\* are lost, the program is shown as present and all its inputs are
\* subscribed, for good; or it is stopped, which always ends; or it died,
\* and then it is not shown as present.
PresenceSettles ==
  \/ <>[](state = "ON" /\ subscribed)
  \/ <>(stop = "stopped")
  \/ <>[](stop = "dead" /\ state # "ON")

\* mqtt.h, mqtt_shutdown(): "OFF" is published before the connection ends, so
\* a program that was stopped is not shown as present.
StoppedIsOff ==
  stop = "stopped" /\ ~half_open => state # "ON"
=============================================================================
