------------------------------- MODULE Config -------------------------------
(***************************************************************************)
(* uvrgw_conf_load(): the modules read their sections one after another    *)
(* and build the table of dispatchers; then the table is checked, callback *)
(* slots are allocated and filled, and the program starts.  A mistake      *)
(* anywhere frees everything and ends the program.                         *)
(*                                                                         *)
(* The configuration file is chosen while it is read: each step takes one  *)
(* more section with any content, or goes on.  Only what a section says    *)
(* about value names is kept; every other option of it is either in range  *)
(* or refused.  An eval has one value, which is not local: EvalInputs and  *)
(* EvalCycles model what is between the values of an eval.                 *)
(***************************************************************************)
EXTENDS Integers, Sequences, FiniteSets, Relation

CONSTANTS
  Names,         \* the value names
  None,          \* a name without producer
  MaxSections,   \* bound: value, counter and eval sections of the file
  MaxReads,      \* bound: names the expression of an eval uses
  MaxTriggers    \* bound: names in the triggers option of an eval

OutModules == {"can", "mb", "mqtt"}
InModules  == OutModules \cup {"rest"}
Producers  == InModules \cup {"counter", "eval"}

ASSUME ConfigConstants ==
  /\ None \notin Producers
  /\ MaxSections \in Nat

Dirs == {"in", "out"}

VARIABLES
  pc,            \* progress of uvrgw_conf_load()
  sections,      \* sections read
  \* struct UVRGW_CONF_VAL_DISPATCH, one entry per name
  known,         \* names in the dispatcher list
  producer,      \* name -> module producing it
  stale,         \* names whose producer has a stale_timeout
  reader,        \* names with a timeout_reader
  value_count,   \* name -> callback slots reserved
  value_cbs,     \* name -> callbacks registered; value_cbs_pos is their number
  \* what the modules keep
  inputs,        \* name -> input values with that name, of any module
  outputs,       \* module -> name -> output values with that name
  power_readers, \* names the SunSpec server serves as power
  counters,      \* <<[name, source, integrate]>>
  evals,         \* <<[name, reads, triggers, period]>>
  triggers,      \* eval -> names that trigger it, once set up
  compiled,      \* evals compiled and set up
  registered     \* counters, then evals, whose callbacks are registered

table    == <<known, value_count>>
produced == <<producer, stale>>
elements == <<inputs, outputs, power_readers, counters, evals>>
callbacks == <<value_cbs, triggers, compiled, registered>>
configVars == <<pc, sections, table, produced, reader, elements, callbacks>>

Zero == [n \in Names |-> 0]

\* disp = NULL, and the *_init() of every module.
ConfigInit ==
  /\ pc = "can" /\ sections = 0
  /\ known = {} /\ producer = [n \in Names |-> None]
  /\ stale = {} /\ reader = {}
  /\ value_count = Zero /\ value_cbs = [n \in Names |-> <<>>]
  /\ inputs = Zero /\ outputs = [m \in OutModules |-> Zero]
  /\ power_readers = {} /\ counters = <<>> /\ evals = <<>>
  /\ triggers = <<>> /\ compiled = 0 /\ registered = 0

\* fail2: uvrgw_conf_cleanup() frees the modules and the dispatcher list.
Refuse ==
  /\ pc' = "refused" /\ sections' = 0
  /\ known' = {} /\ producer' = [n \in Names |-> None]
  /\ stale' = {} /\ reader' = {}
  /\ value_count' = Zero /\ value_cbs' = [n \in Names |-> <<>>]
  /\ inputs' = Zero /\ outputs' = [m \in OutModules |-> Zero]
  /\ power_readers' = {} /\ counters' = <<>> /\ evals' = <<>>
  /\ triggers' = <<>> /\ compiled' = 0 /\ registered' = 0

-----------------------------------------------------------------------------
(***************************************************************************)
(* The calls a module makes for a name.                                    *)
(***************************************************************************)

\* Module m reads one more section.
Section(m) == pc = m /\ sections < MaxSections

SectionRead == sections' = sections + 1 /\ UNCHANGED <<pc, callbacks>>

\* uvrgw_conf_get_dispatcher(n, alloc_cb): look up or append, reserve a slot.
GetDispatcher(n, alloc_cb) ==
  /\ known' = known \cup {n}
  /\ value_count' = IF alloc_cb THEN [value_count EXCEPT ![n] = @ + 1]
                    ELSE value_count

\* Mutant: a second producer takes the name over.
ProducibleAlways(n) == n \in Names

\* uvrgw_conf_set_producer() accepts n: it has no producer yet.
Producible(n) == producer[n] = None

SetProducer(n, m, timeout) ==
  /\ producer' = [producer EXCEPT ![n] = m]
  /\ stale' = IF timeout THEN stale \cup {n} ELSE stale \ {n}

\* An output value: its callback needs a slot.
ReadOutput(m, n) ==
  /\ GetDispatcher(n, TRUE)
  /\ outputs' = [outputs EXCEPT ![m][n] = @ + 1]
  /\ SectionRead
  /\ UNCHANGED <<produced, reader, inputs, power_readers, counters, evals>>

\* An input value, with or without stale_timeout.
ReadInput(m, n, timeout) ==
  IF Producible(n)
  THEN /\ GetDispatcher(n, FALSE)
       /\ SetProducer(n, m, timeout)
       /\ inputs' = [inputs EXCEPT ![n] = @ + 1]
       /\ SectionRead
       /\ UNCHANGED <<reader, outputs, power_readers, counters, evals>>
  ELSE Refuse

ReadValue(m, n, dir, timeout) ==
  /\ Section(m)
  /\ IF dir = "in" THEN ReadInput(m, n, timeout) ELSE ReadOutput(m, n)

-----------------------------------------------------------------------------
(***************************************************************************)
(* The sections, module by module.  *Refused: an option of the section is  *)
(* missing, out of range, or not allowed with another one.                 *)
(***************************************************************************)
CanValue(n, dir, timeout) == ReadValue("can", n, dir, timeout)
CanRefused == Section("can") /\ Refuse
CanDone    == pc = "can" /\ pc' = "mb"

MbValue(n, dir, timeout) == ReadValue("mb", n, dir, timeout)
MbRefused  == Section("mb") /\ Refuse
MbDone     == pc = "mb" /\ pc' = "mqtt"

MqttValue(n, dir, timeout) == ReadValue("mqtt", n, dir, timeout)
MqttRefused == Section("mqtt") /\ Refuse
MqttDone    == pc = "mqtt" /\ pc' = "rest"

\* A value of a logger is read on demand: no callback.
LoggerValue(n) ==
  /\ Section("mqtt")
  /\ GetDispatcher(n, FALSE)
  /\ SectionRead
  /\ UNCHANGED <<produced, reader, elements>>

RestValue(n, timeout) == Section("rest") /\ ReadInput("rest", n, timeout)
RestRefused == Section("rest") /\ Refuse
RestDone    == pc = "rest" /\ pc' = "sunspec"

\* A source of a meter; uvrgw_conf_need_timeout() for power.
MeterSource(n, power) ==
  /\ Section("sunspec")
  /\ GetDispatcher(n, FALSE)
  /\ reader' = IF power THEN reader \cup {n} ELSE reader
  /\ power_readers' = IF power THEN power_readers \cup {n} ELSE power_readers
  /\ SectionRead
  /\ UNCHANGED <<produced, inputs, outputs, counters, evals>>

SunspecRefused == Section("sunspec") /\ Refuse
SunspecDone    == pc = "sunspec" /\ pc' = "counter"

\* A counter: slot at its source, producer of its total.
CounterOne(n, s, integrate) ==
  /\ Section("counter")
  /\ IF n # s /\ Producible(n)
     THEN /\ known' = known \cup {s, n}
          /\ value_count' = [value_count EXCEPT ![s] = @ + 1]
          /\ SetProducer(n, "counter", FALSE)
          /\ reader' = IF integrate THEN reader \cup {s} ELSE reader
          /\ counters' = Append(counters,
                                [name |-> n, source |-> s, integrate |-> integrate])
          /\ SectionRead
          /\ UNCHANGED <<inputs, outputs, power_readers, evals>>
     ELSE Refuse

CounterRefused == Section("counter") /\ Refuse

Counters == DOMAIN counters
Evals    == DOMAIN evals

\* Mutant: counters may be chained.
ChainedNever == FALSE

\* counter_configure(): the source of a counter is another counter.
Chained == \E i, j \in Counters : counters[i].source = counters[j].name

CounterDone ==
  /\ pc = "counter"
  /\ IF Chained THEN Refuse
     ELSE pc' = "eval" /\ UNCHANGED <<sections, table, produced, reader, elements, callbacks>>

\* Pass 1 of eval_configure(): an eval with one value.  ts = {} stands for
\* no triggers option; it must not be given together with a period.
EvalOne(n, reads, ts, period) ==
  /\ Section("eval")
  /\ IF Producible(n) /\ ~(period /\ ts # {})
     THEN /\ GetDispatcher(n, FALSE)
          /\ SetProducer(n, "eval", FALSE)
          /\ evals' = Append(evals, [name |-> n, reads |-> reads,
                                     triggers |-> ts, period |-> period])
          /\ SectionRead
          /\ UNCHANGED <<reader, inputs, outputs, power_readers, counters>>
     ELSE Refuse

EvalRefused == Section("eval") /\ Refuse
EvalsRead   == pc = "eval" /\ pc' = "compile"

\* Outside values an eval reads.
Ins(e) == e.reads \ {e.name}

\* compile_eval(): an expression may only use names in the dispatcher list.
Compiles(e) == e.reads \subseteq known

\* setup_triggers(): the triggers of e, given or by default.
TriggersOf(e) ==
  IF e.period THEN {} ELSE IF e.triggers # {} THEN e.triggers ELSE Ins(e)

TriggersAccepted(e) ==
  \/ e.period
  \/ /\ TriggersOf(e) # {}
     /\ TriggersOf(e) \subseteq known \ {e.name}

\* Mutant: no slot is reserved for a default trigger.
ReservedExplicit(e) == e.triggers

\* The names where setup_triggers() reserves a callback slot.
Reserved(e) == TriggersOf(e)

\* Pass 2 of eval_configure(): the next eval, all names are known.
CompileEval ==
  LET e == evals[compiled + 1] IN
  /\ pc = "compile" /\ compiled < Len(evals)
  /\ IF Compiles(e) /\ TriggersAccepted(e)
     THEN /\ triggers' = Append(triggers, TriggersOf(e))
          /\ value_count' = [n \in Names |->
               value_count[n] + IF n \in Reserved(e) THEN 1 ELSE 0]
          /\ compiled' = compiled + 1
          /\ UNCHANGED <<pc, sections, known, produced, reader, elements, value_cbs,
                         registered>>
     ELSE Refuse

\* triggered_by(b, a): a trigger of b is published by a.
TriggeredBy == [p \in Evals \X Evals |-> evals[p[2]].name \in triggers[p[1]]]

\* check_cycles(); EvalCycles shows that the search finds every cycle.
Cyclic == \E i \in Evals : TransitiveClosure(TriggeredBy, Evals)[<<i, i>>]

EvalsDone ==
  /\ pc = "compile" /\ compiled = Len(evals)
  /\ IF Cyclic THEN Refuse
     ELSE pc' = "check" /\ UNCHANGED <<sections, table, produced, reader, elements, callbacks>>

-----------------------------------------------------------------------------
(***************************************************************************)
(* Check, allocate, register.                                              *)
(***************************************************************************)

\* producer_input
InputProducer(n) == producer[n] \in InModules

\* One iteration of check_dispatchers().
DispatcherOK(n) ==
  /\ producer[n] # None
  /\ n \in reader /\ InputProducer(n) => n \in stale

\* check_dispatchers() and init_dispatcher().
CheckDispatchers ==
  /\ pc = "check"
  /\ IF \A n \in known : DispatcherOK(n)
     THEN pc' = "register_can" /\ UNCHANGED <<sections, table, produced, reader, elements, callbacks>>
     ELSE Refuse

\* uvrgw_conf_register_disp_cb() for every entry of cbs, a sequence per name;
\* it fails when the slots of a name are used up.  Then on to next, with done
\* counters or evals registered.
Register(cbs, next, done) ==
  IF \E n \in Names : Len(value_cbs[n]) + Len(cbs[n]) > value_count[n]
  THEN Refuse
  ELSE /\ value_cbs' = [n \in Names |-> value_cbs[n] \o cbs[n]]
       /\ pc' = next /\ registered' = done
       /\ UNCHANGED <<sections, table, produced, reader, elements, triggers, compiled>>

\* The callbacks of the output values of module m.
OutputCbs(m) == [n \in Names |-> [i \in 1..outputs[m][n] |-> <<m, i>>]]

RegisterCan  == pc = "register_can" /\ Register(OutputCbs("can"), "register_mb", 0)
RegisterMb   == pc = "register_mb" /\ Register(OutputCbs("mb"), "register_mqtt", 0)
RegisterMqtt == pc = "register_mqtt" /\ Register(OutputCbs("mqtt"), "register_counter", 0)

\* One callback at each of the names ns.
CbAt(ns, cb) == [n \in Names |-> IF n \in ns THEN <<cb>> ELSE <<>>]

\* One turn of the loop over the counters, and its end.
RegisterCounter ==
  LET i == registered + 1 IN
  /\ pc = "register_counter" /\ i <= Len(counters)
  /\ Register(CbAt({counters[i].source}, <<"counter", i>>), pc, i)

CountersRegistered ==
  /\ pc = "register_counter" /\ registered = Len(counters)
  /\ pc' = "register_eval" /\ registered' = 0
  /\ UNCHANGED <<sections, table, produced, reader, elements, value_cbs, triggers, compiled>>

\* The same for the evals: a callback at every trigger.
RegisterEval ==
  LET i == registered + 1 IN
  /\ pc = "register_eval" /\ i <= Len(evals)
  /\ Register(CbAt(triggers[i], <<"eval", i>>), pc, i)

EvalsRegistered ==
  /\ pc = "register_eval" /\ registered = Len(evals)
  /\ pc' = "running" /\ registered' = 0
  /\ UNCHANGED <<sections, table, produced, reader, elements, value_cbs, triggers, compiled>>

\* A module without further sections: nothing but the progress changes.
ModuleDone ==
  /\ CanDone \/ MbDone \/ MqttDone \/ RestDone \/ SunspecDone \/ EvalsRead
  /\ UNCHANGED <<sections, table, produced, reader, elements, callbacks>>

SectionRefused ==
  CanRefused \/ MbRefused \/ MqttRefused \/ RestRefused \/ SunspecRefused
    \/ CounterRefused \/ EvalRefused

UpTo(k) == {ns \in SUBSET Names : Cardinality(ns) <= k}

ConfigNext ==
  \/ \E n \in Names, dir \in Dirs, timeout \in BOOLEAN :
       \/ CanValue(n, dir, timeout)
       \/ MbValue(n, dir, timeout)
       \/ MqttValue(n, dir, timeout)
  \/ \E n \in Names : LoggerValue(n)
  \/ \E n \in Names, timeout \in BOOLEAN : RestValue(n, timeout)
  \/ \E n \in Names, power \in BOOLEAN : MeterSource(n, power)
  \/ \E n, s \in Names, integrate \in BOOLEAN : CounterOne(n, s, integrate)
  \/ \E n \in Names, reads \in UpTo(MaxReads), ts \in UpTo(MaxTriggers),
        period \in BOOLEAN : EvalOne(n, reads, ts, period)
  \/ SectionRefused \/ ModuleDone \/ CounterDone
  \/ CompileEval \/ EvalsDone
  \/ CheckDispatchers
  \/ RegisterCan \/ RegisterMb \/ RegisterMqtt
  \/ RegisterCounter \/ CountersRegistered
  \/ RegisterEval \/ EvalsRegistered

\* The steps of uvrgw_conf_load(), in order.
Reading     == {"can", "mb", "mqtt", "rest", "sunspec", "counter"}
Registering == {"register_can", "register_mb", "register_mqtt",
                "register_counter", "register_eval"}
Steps == Reading \cup {"eval", "compile", "check"} \cup Registering
           \cup {"running", "refused"}

Callbacks == (OutModules \cup {"counter", "eval"}) \X Nat

CounterRecord == [name : Names, source : Names, integrate : BOOLEAN]
EvalRecord == [name : Names, reads : SUBSET Names,
               triggers : SUBSET Names, period : BOOLEAN]

TableTypeOK ==
  /\ pc \in Steps
  /\ sections \in 0..MaxSections
  /\ known \subseteq Names /\ stale \subseteq known /\ reader \subseteq known
  /\ power_readers \subseteq known
  /\ producer \in [Names -> Producers \cup {None}]
  /\ value_count \in [Names -> Nat]
  /\ value_cbs \in [Names -> Seq(Callbacks)]

ElementsTypeOK ==
  /\ inputs \in [Names -> Nat] /\ outputs \in [OutModules -> [Names -> Nat]]
  /\ counters \in Seq(CounterRecord) /\ evals \in Seq(EvalRecord)
  /\ Len(counters) + Len(evals) <= sections
  /\ triggers \in Seq(SUBSET Names)
  /\ compiled \in 0..Len(evals) /\ Len(triggers) = compiled
  /\ registered \in 0..MaxSections

ConfigTypeOK == TableTypeOK /\ ElementsTypeOK

-----------------------------------------------------------------------------
(***************************************************************************)
(* Properties of an accepted configuration.                                *)
(***************************************************************************)
Publishers(n) ==
  inputs[n] + Cardinality({i \in Counters : counters[i].name = n})
            + Cardinality({i \in Evals : evals[i].name = n})

\* In the running program every name that anybody reads or sends is published
\* by exactly one value, counter or eval, whatever the order of the sections
\* (uvrgw_conf_set_producer(), check_dispatchers()).
OneProducer == pc = "running" => \A n \in known : Publishers(n) = 1

Wants(n) ==
  outputs["can"][n] + outputs["mb"][n] + outputs["mqtt"][n]
    + Cardinality({i \in Counters : counters[i].source = n})
    + Cardinality({i \in Evals : n \in triggers[i]})

\* The slots counted while the sections are read are the callbacks registered
\* afterwards: no registration ever finds the slots used up, and none of the
\* slots fire_cbs() walks is left empty.
SlotsFilled ==
  /\ pc \in Registering \cup {"running"} =>
       \A n \in Names : value_count[n] = Wants(n)
  /\ pc = "running" => \A n \in Names : Len(value_cbs[n]) = value_count[n]

\* A power that is integrated or served as current power never comes from an
\* input that may freeze: in the running program such an input has a
\* stale_timeout, whether its reader is configured before or after it.
PowerCannotFreeze ==
  pc = "running" =>
    \A n \in power_readers \cup {counters[i].source : i \in
                                  {j \in Counters : counters[j].integrate}} :
      inputs[n] > 0 => n \in stale

\* What the checks of all modules together ensure of the sources of a program
\* that runs: one producer each, and no input that may freeze is read as a power.
\* (A power an eval computes is not checked.)
SourcesAreSound == OneProducer /\ PowerCannotFreeze
=============================================================================
