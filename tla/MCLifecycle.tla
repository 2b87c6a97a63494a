----------------------------- MODULE MCLifecycle -----------------------------
(***************************************************************************)
(* The program from start to exit, a broker connection from its startup to *)
(* its stop, and the client connections of a SunSpec server, for TLC.      *)
(* Lifecycle has the order in which threads start and stop, the other two  *)
(* what happens to connections meanwhile; a behaviour shows one of these   *)
(* views, the others rest.                                                 *)
(***************************************************************************)
EXTENDS Lifecycle, MqttConn, SunspecServer

CONSTANTS c1, c2, c3

VARIABLE part   \* the view that is shown

ProgramRests ==
  /\ phase = "exited" /\ pos = 0 /\ mqtt_pos = 1 /\ running = {}
  /\ mosq = [c \in Conns |-> "null"] /\ fed = FALSE
  /\ call = [t \in Threads |-> NoCall] /\ exit_fd = FALSE /\ saved = TRUE
  /\ mqtt_up = FALSE

ConnRests ==
  /\ connected = FALSE /\ net = "ended" /\ stop = "stopped" /\ disc = TRUE
  /\ wire = <<>> /\ connack = "none" /\ link_up = FALSE /\ losses = 0
  /\ session = FALSE /\ half_open = FALSE /\ subscribed = FALSE /\ state = "OFF"

ProgramRuns == part = "program" /\ Next /\ UNCHANGED <<connVars, sunspecVars, part>>
ConnRuns    == part = "broker" /\ ConnNext /\ UNCHANGED <<vars, sunspecVars, part>>
ServerRuns  == part = "server" /\ SunspecNext /\ UNCHANGED <<vars, connVars, part>>

ViewsInit ==
  /\ part \in {"program", "broker", "server"}
  /\ IF part = "program" THEN Init ELSE ProgramRests
  /\ IF part = "broker" THEN ConnInit ELSE ConnRests
  /\ SunspecInit

ProgramSpec ==
  /\ ViewsInit
  /\ [][ProgramRuns \/ ConnRuns \/ ServerRuns]_<<vars, connVars, sunspecVars, part>>
  /\ Fairness /\ ConnFairness /\ SunspecFairness
=============================================================================
