---------------------------- MODULE ConfigProofs ----------------------------
(***************************************************************************)
(* Proofs about the configuration and the locks of the program it runs,    *)
(* for any file, any names and any number of threads.                      *)
(***************************************************************************)
EXTENDS LockOrder, FiniteSetTheorems, SequenceTheorems, TLAPS

CountersOf(n) == {i \in Counters : counters[i].name = n}
EvalsOf(n)    == {i \in Evals : evals[i].name = n}
SourcesAt(n)  == {i \in Counters : counters[i].source = n}
TriggersAt(n) == {i \in 1..compiled : n \in triggers[i]}
OutputsAt(n)  == outputs["can"][n] + outputs["mb"][n] + outputs["mqtt"][n]

\* A name has a producer if and only if one element publishes it.
ProducerInv ==
  \A n \in Names :
    /\ inputs[n] + Cardinality(CountersOf(n)) + Cardinality(EvalsOf(n))
         = IF producer[n] = None THEN 0 ELSE 1
    /\ inputs[n] > 0 => InputProducer(n)

\* Whoever needs current power is a timeout_reader.
ReaderInv ==
  /\ power_readers \subseteq reader
  /\ \A i \in Counters : counters[i].integrate => counters[i].source \in reader

\* What has been checked when the load has come to pc.
CheckInv ==
  /\ pc \in Registering \cup {"running"} => \A n \in known : DispatcherOK(n)
  /\ pc \notin Reading \cup {"refused"} => ~Chained
  /\ pc \in Reading \cup {"eval"} => compiled = 0
  /\ pc \in Registering \cup {"check", "running"} => compiled = Len(evals)

\* The slots of a name, by who reserved them.
SlotInv ==
  \A n \in Names :
    value_count[n] = OutputsAt(n) + Cardinality(SourcesAt(n))
                                  + Cardinality(TriggersAt(n))

\* The slots filled so far.
FilledInv ==
  \A n \in Names :
    /\ pc \notin Registering \cup {"running"} => Len(value_cbs[n]) = 0
    /\ pc = "register_can"  => Len(value_cbs[n]) = 0
    /\ pc = "register_mb"   => Len(value_cbs[n]) = outputs["can"][n]
    /\ pc = "register_mqtt" =>
         Len(value_cbs[n]) = outputs["can"][n] + outputs["mb"][n]
    /\ pc = "register_counter" =>
         Len(value_cbs[n]) = OutputsAt(n)
           + Cardinality({i \in 1..registered : i \in SourcesAt(n)})
    /\ pc = "register_eval" =>
         Len(value_cbs[n]) = OutputsAt(n) + Cardinality(SourcesAt(n))
           + Cardinality({i \in 1..registered : i \in TriggersAt(n)})
    /\ pc = "running" => Len(value_cbs[n]) = value_count[n]

RegisterInv ==
  /\ FilledInv
  /\ pc \notin {"register_counter", "register_eval"} => registered = 0
  /\ pc = "register_counter" => registered <= Len(counters)
  /\ pc = "register_eval" => registered <= Len(evals)

\* A callback of a counter is registered at the source of that counter.
CbInv ==
  \A n \in Names : \A k \in DOMAIN value_cbs[n] :
    value_cbs[n][k][1] = "counter" => value_cbs[n][k][2] \in SourcesAt(n)

ConfigInv ==
  /\ ConfigTypeOK /\ ProducerInv /\ ReaderInv /\ CheckInv
  /\ SlotInv /\ RegisterInv /\ CbInv

-----------------------------------------------------------------------------
\* Counting the elements with some property, in a list that grows.
LEMMA Counting ==
  ASSUME NEW k \in Nat, NEW A \in SUBSET (1..k)
  PROVE  /\ Cardinality(A) \in Nat
         /\ Cardinality(A \cup {k + 1}) = Cardinality(A) + 1
<1>1. IsFiniteSet(1..k)
  BY FS_Interval
<1>2. IsFiniteSet(A)
  BY <1>1, FS_Subset
<1>3. k + 1 \notin A
  OBVIOUS
<1> QED
  BY <1>2, <1>3, FS_CardinalityType, FS_AddElement

LEMMA NoneCounted == \A S : S = {} => Cardinality(S) = 0
<1>1. Cardinality({}) = 0
  BY FS_EmptySet
<1> QED
  BY <1>1, Zenon

\* All strings that pc, a producer or a callback may be are different.
LEMMA ProducerNames ==
  /\ None \notin InModules /\ None # "counter" /\ None # "eval"
  /\ "counter" \notin InModules /\ "eval" \notin InModules
BY ConfigConstants DEF Producers, InModules, OutModules

LEMMA RefuseInv == Refuse => ConfigInv'
<1> SUFFICES ASSUME Refuse PROVE ConfigInv'
  OBVIOUS
<1>1. ConfigTypeOK'
  BY ConfigConstants DEF Refuse, ConfigTypeOK, TableTypeOK, ElementsTypeOK, Steps, Zero, Producers
<1>2. /\ \A n \in Names : CountersOf(n)' = {} /\ EvalsOf(n)' = {}
      /\ \A n \in Names : SourcesAt(n)' = {} /\ TriggersAt(n)' = {}
      /\ \A n \in Names : OutputsAt(n)' = 0
  BY DEF Refuse, CountersOf, EvalsOf, SourcesAt, TriggersAt, OutputsAt, Counters, Evals, Zero, OutModules
<1>3. \A n \in Names :
        /\ Cardinality(CountersOf(n)') = 0 /\ Cardinality(EvalsOf(n)') = 0
        /\ Cardinality(SourcesAt(n)') = 0 /\ Cardinality(TriggersAt(n)') = 0
  BY <1>2, NoneCounted, Zenon
<1>4. ProducerInv'
  BY <1>3 DEF Refuse, ProducerInv, Zero
<1>5. ReaderInv' /\ CheckInv'
  BY DEF Refuse, ReaderInv, CheckInv, Chained, Counters, Registering, Reading
<1>6. SlotInv'
  BY <1>2, <1>3 DEF Refuse, SlotInv, Zero
<1>7. RegisterInv' /\ CbInv'
  BY DEF Refuse, RegisterInv, CbInv, FilledInv, Registering
<1> QED
  BY <1>1, <1>4, <1>5, <1>6, <1>7 DEF ConfigInv

LEMMA InitConfigInv == ConfigInit => ConfigInv
<1> SUFFICES ASSUME ConfigInit PROVE ConfigInv
  OBVIOUS
<1>1. ConfigTypeOK
  BY ConfigConstants DEF ConfigInit, ConfigTypeOK, TableTypeOK, ElementsTypeOK, Steps, Reading, Zero, Producers
<1>2. /\ \A n \in Names : CountersOf(n) = {} /\ EvalsOf(n) = {}
      /\ \A n \in Names : SourcesAt(n) = {} /\ TriggersAt(n) = {}
      /\ \A n \in Names : OutputsAt(n) = 0
  BY DEF ConfigInit, CountersOf, EvalsOf, SourcesAt, TriggersAt, OutputsAt, Counters, Evals, Zero, OutModules
<1>3. \A n \in Names :
        /\ Cardinality(CountersOf(n)) = 0 /\ Cardinality(EvalsOf(n)) = 0
        /\ Cardinality(SourcesAt(n)) = 0 /\ Cardinality(TriggersAt(n)) = 0
  BY <1>2, NoneCounted, Zenon
<1>4. ProducerInv
  BY <1>3 DEF ConfigInit, ProducerInv, Zero
<1>5. ReaderInv /\ CheckInv
  BY DEF ConfigInit, ReaderInv, CheckInv, Chained, Counters, Registering, Reading
<1>6. SlotInv
  BY <1>2, <1>3 DEF ConfigInit, SlotInv, Zero
<1>7. RegisterInv /\ CbInv
  BY DEF ConfigInit, RegisterInv, CbInv, FilledInv, Registering
<1> QED
  BY <1>1, <1>4, <1>5, <1>6, <1>7 DEF ConfigInv

-----------------------------------------------------------------------------
(***************************************************************************)
(* What a step leaves alone.                                               *)
(***************************************************************************)
Early == Steps \ (Registering \cup {"running"})

LEMMA CountedElements ==
  ASSUME ConfigTypeOK, NEW n \in Names
  PROVE  /\ CountersOf(n) \in SUBSET (1..Len(counters))
         /\ SourcesAt(n) \in SUBSET (1..Len(counters))
         /\ EvalsOf(n) \in SUBSET (1..Len(evals))
         /\ TriggersAt(n) \in SUBSET (1..compiled)
         /\ Len(counters) \in Nat /\ Len(evals) \in Nat /\ compiled \in Nat
         /\ Cardinality(CountersOf(n)) \in Nat /\ Cardinality(SourcesAt(n)) \in Nat
         /\ Cardinality(EvalsOf(n)) \in Nat /\ Cardinality(TriggersAt(n)) \in Nat
         /\ OutputsAt(n) \in Nat
<1>1. DOMAIN counters = 1..Len(counters) /\ DOMAIN evals = 1..Len(evals)
  BY DEF ConfigTypeOK, ElementsTypeOK
<1>2. /\ CountersOf(n) \in SUBSET (1..Len(counters))
      /\ SourcesAt(n) \in SUBSET (1..Len(counters))
      /\ EvalsOf(n) \in SUBSET (1..Len(evals))
  BY <1>1 DEF CountersOf, SourcesAt, EvalsOf, Counters, Evals
<1>3. TriggersAt(n) \in SUBSET (1..compiled)
  BY DEF TriggersAt
<1>4. Len(counters) \in Nat /\ Len(evals) \in Nat /\ compiled \in Nat
  BY DEF ConfigTypeOK, ElementsTypeOK
<1>5. outputs \in [OutModules -> [Names -> Nat]]
  BY DEF ConfigTypeOK, ElementsTypeOK
<1>6. OutputsAt(n) \in Nat
  BY <1>5 DEF OutputsAt, OutModules
<1> QED
  BY <1>2, <1>3, <1>4, <1>6, Counting

LEMMA ProducersKept ==
  ProducerInv /\ UNCHANGED <<inputs, producer, counters, evals>> => ProducerInv'
BY DEF ProducerInv, CountersOf, EvalsOf, Counters, Evals, InputProducer

LEMMA SlotsKept ==
  SlotInv /\ UNCHANGED <<outputs, counters, value_count, compiled, triggers>>
    => SlotInv'
BY DEF SlotInv, OutputsAt, SourcesAt, TriggersAt, Counters

LEMMA NothingRegistered ==
  ASSUME ConfigTypeOK, RegisterInv, pc \in Early, pc' \in Early,
         UNCHANGED <<value_cbs, registered>>
  PROVE  RegisterInv' /\ CbInv'
<1>1. \A n \in Names : Len(value_cbs[n]) = 0
  BY DEF RegisterInv, FilledInv, Early
<1>2. \A n \in Names : DOMAIN value_cbs[n] = {}
  BY <1>1 DEF ConfigTypeOK, TableTypeOK
<1>3. CbInv'
  BY <1>2 DEF CbInv
<1>4. RegisterInv'
  BY <1>1 DEF RegisterInv, FilledInv, Early, Registering
<1> QED
  BY <1>3, <1>4

\* The sections a module reads are read before anything is checked.
LEMMA WhileReading ==
  ASSUME CheckInv, pc \in Reading \cup {"eval"}, UNCHANGED <<pc, counters, compiled>>
  PROVE  CheckInv'
BY DEF CheckInv, Reading, Registering, Chained, Counters

-----------------------------------------------------------------------------
(***************************************************************************)
(* The steps that read sections.                                           *)
(***************************************************************************)
LEMMA OutputInv ==
  ASSUME ConfigInv, NEW m \in OutModules, NEW n \in Names, Section(m), ReadOutput(m, n)
  PROVE  ConfigInv'
<1> USE DEF SectionRead, callbacks, produced
<1>1. pc \in Early /\ pc' \in Early /\ pc \in Reading
  BY DEF Section, ReadOutput, OutModules, Early, Steps, Reading, Registering
<1>2. ConfigTypeOK'
  <2>1. TableTypeOK'
    <3>1. value_count' \in [Names -> Nat]
      BY DEF ConfigInv, ConfigTypeOK, TableTypeOK, ReadOutput, GetDispatcher
    <3>2. sections' \in 0..MaxSections
      BY ConfigConstants DEF ConfigInv, ConfigTypeOK, TableTypeOK, Section, ReadOutput
    <3> QED
      BY <3>1, <3>2 DEF ConfigInv, ConfigTypeOK, TableTypeOK, ReadOutput, GetDispatcher
  <2>2. outputs' \in [OutModules -> [Names -> Nat]]
    BY DEF ConfigInv, ConfigTypeOK, ElementsTypeOK, ReadOutput
  <2>3. ElementsTypeOK'
    BY <2>2 DEF ConfigInv, ConfigTypeOK, TableTypeOK, ElementsTypeOK, Section, ReadOutput
  <2> QED
    BY <2>1, <2>3 DEF ConfigTypeOK
<1>3. ProducerInv'
  BY ProducersKept DEF ConfigInv, ReadOutput
<1>4. ReaderInv'
  BY DEF ConfigInv, ReaderInv, ReadOutput, Counters
<1>5. CheckInv'
  BY <1>1, WhileReading DEF ConfigInv, ReadOutput
<1>6. SlotInv'
  <2> SUFFICES ASSUME NEW k \in Names
               PROVE  value_count'[k] = OutputsAt(k)' + Cardinality(SourcesAt(k)')
                                                      + Cardinality(TriggersAt(k)')
    BY DEF SlotInv
  <2>1. SourcesAt(k)' = SourcesAt(k) /\ TriggersAt(k)' = TriggersAt(k)
    BY DEF SourcesAt, TriggersAt, ReadOutput, Counters
  <2>2. /\ Cardinality(SourcesAt(k)') = Cardinality(SourcesAt(k))
        /\ Cardinality(TriggersAt(k)') = Cardinality(TriggersAt(k))
    BY <2>1, Zenon
  <2>3. /\ value_count \in [Names -> Nat] /\ outputs \in [OutModules -> [Names -> Nat]]
        /\ value_count' = [value_count EXCEPT ![n] = @ + 1]
        /\ outputs' = [outputs EXCEPT ![m][n] = @ + 1]
    BY DEF ConfigInv, ConfigTypeOK, TableTypeOK, ElementsTypeOK, ReadOutput, GetDispatcher
  <2>4. /\ OutputsAt(k) \in Nat
        /\ OutputsAt(k)' = OutputsAt(k) + IF k = n THEN 1 ELSE 0
    BY <2>3 DEF OutputsAt, OutModules
  <2>5. value_count'[k] = value_count[k] + IF k = n THEN 1 ELSE 0
    BY <2>3
  <2>6. Cardinality(SourcesAt(k)) \in Nat /\ Cardinality(TriggersAt(k)) \in Nat
    BY CountedElements DEF ConfigInv
  <2>7. value_count[k] = OutputsAt(k) + Cardinality(SourcesAt(k)) + Cardinality(TriggersAt(k))
    BY DEF ConfigInv, SlotInv
  <2> QED
    BY <2>2, <2>4, <2>5, <2>6, <2>7
<1>7. RegisterInv' /\ CbInv'
  BY <1>1, NothingRegistered DEF ConfigInv, ReadOutput
<1> QED
  BY <1>2, <1>3, <1>4, <1>5, <1>6, <1>7 DEF ConfigInv

LEMMA InputInv ==
  ASSUME ConfigInv, NEW m \in InModules, NEW n \in Names, NEW timeout \in BOOLEAN,
         Section(m), ReadInput(m, n, timeout)
  PROVE  ConfigInv'
<1> USE DEF SectionRead, callbacks
<1>0. CASE ~Producible(n)
  BY <1>0, RefuseInv DEF ReadInput
<1> SUFFICES ASSUME Producible(n) PROVE ConfigInv'
  BY <1>0
<1>a. /\ known' = known \cup {n} /\ value_count' = value_count
      /\ producer' = [producer EXCEPT ![n] = m]
      /\ stale' = IF timeout THEN stale \cup {n} ELSE stale \ {n}
      /\ inputs' = [inputs EXCEPT ![n] = @ + 1]
      /\ sections' = sections + 1
      /\ UNCHANGED <<pc, value_cbs, triggers, compiled, registered>>
      /\ UNCHANGED <<reader, outputs, power_readers, counters, evals>>
      /\ producer[n] = None
  BY DEF ReadInput, Producible, GetDispatcher, SetProducer
<1>1. pc \in Early /\ pc' \in Early /\ pc \in Reading
  BY <1>a DEF Section, InModules, OutModules, Early, Steps, Reading, Registering
<1>2. ConfigTypeOK'
  <2>1. TableTypeOK'
    <3>1. producer' \in [Names -> Producers \cup {None}]
      BY <1>a DEF ConfigInv, ConfigTypeOK, TableTypeOK, Producers
    <3>2. sections' \in 0..MaxSections
      BY <1>a, ConfigConstants DEF ConfigInv, ConfigTypeOK, TableTypeOK, Section
    <3> QED
      BY <1>a, <3>1, <3>2 DEF ConfigInv, ConfigTypeOK, TableTypeOK
  <2>2. inputs' \in [Names -> Nat]
    BY <1>a DEF ConfigInv, ConfigTypeOK, ElementsTypeOK
  <2>3. ElementsTypeOK'
    BY <1>a, <2>2 DEF ConfigInv, ConfigTypeOK, TableTypeOK, ElementsTypeOK
  <2> QED
    BY <2>1, <2>3 DEF ConfigTypeOK
<1>3. ProducerInv'
  <2> SUFFICES ASSUME NEW k \in Names
               PROVE  /\ inputs'[k] + Cardinality(CountersOf(k)') + Cardinality(EvalsOf(k)')
                           = IF producer'[k] = None THEN 0 ELSE 1
                      /\ inputs'[k] > 0 => producer'[k] \in InModules
    BY DEF ProducerInv, InputProducer
  <2>1. CountersOf(k)' = CountersOf(k) /\ EvalsOf(k)' = EvalsOf(k)
    BY <1>a DEF CountersOf, EvalsOf, Counters, Evals
  <2>2. /\ Cardinality(CountersOf(k)') = Cardinality(CountersOf(k))
        /\ Cardinality(EvalsOf(k)') = Cardinality(EvalsOf(k))
    BY <2>1, Zenon
  <2>3. Cardinality(CountersOf(k)) \in Nat /\ Cardinality(EvalsOf(k)) \in Nat
    BY CountedElements DEF ConfigInv
  <2>4. /\ inputs \in [Names -> Nat] /\ producer \in [Names -> Producers \cup {None}]
        /\ inputs[k] + Cardinality(CountersOf(k)) + Cardinality(EvalsOf(k))
             = IF producer[k] = None THEN 0 ELSE 1
        /\ inputs[k] > 0 => producer[k] \in InModules
    BY DEF ConfigInv, ConfigTypeOK, TableTypeOK, ElementsTypeOK, ProducerInv, InputProducer
  <2>5. CASE k = n
    <3>1. producer'[k] = m /\ m # None /\ inputs'[k] = inputs[k] + 1
      BY <1>a, <2>4, <2>5, ProducerNames
    <3> QED
      BY <3>1, <1>a, <2>2, <2>3, <2>4, <2>5
  <2>6. CASE k # n
    <3>1. producer'[k] = producer[k] /\ inputs'[k] = inputs[k]
      BY <1>a, <2>4, <2>6
    <3> QED
      BY <3>1, <2>2, <2>4
  <2> QED
    BY <2>5, <2>6
<1>4. ReaderInv'
  BY <1>a DEF ConfigInv, ReaderInv, Counters
<1>5. CheckInv'
  BY <1>a, <1>1, WhileReading DEF ConfigInv
<1>6. SlotInv'
  BY <1>a, SlotsKept DEF ConfigInv
<1>7. RegisterInv' /\ CbInv'
  BY <1>a, <1>1, NothingRegistered DEF ConfigInv
<1> QED
  BY <1>2, <1>3, <1>4, <1>5, <1>6, <1>7 DEF ConfigInv

LEMMA ReadOnDemandInv ==
  ASSUME ConfigInv, NEW n \in Names, NEW power \in BOOLEAN,
         LoggerValue(n) \/ MeterSource(n, power)
  PROVE  ConfigInv'
<1> USE DEF SectionRead, callbacks, produced, elements
<1>a. /\ known' = known \cup {n}
      /\ \/ reader' = reader /\ power_readers' = power_readers
         \/ reader' = reader \cup {n} /\ power_readers' = power_readers \cup {n}
      /\ sections < MaxSections /\ sections' = sections + 1
      /\ UNCHANGED <<pc, value_cbs, triggers, compiled, registered, value_count>>
      /\ UNCHANGED <<producer, stale, inputs, outputs, counters, evals>>
      /\ pc \in {"mqtt", "sunspec"}
  BY DEF LoggerValue, MeterSource, GetDispatcher, Section
<1>1. pc \in Early /\ pc' \in Early /\ pc \in Reading
  BY <1>a DEF Early, Steps, Reading, Registering
<1>2. ConfigTypeOK'
  <2>1. sections' \in 0..MaxSections
    BY <1>a, ConfigConstants DEF ConfigInv, ConfigTypeOK, TableTypeOK
  <2>2. TableTypeOK'
    BY <1>a, <2>1 DEF ConfigInv, ConfigTypeOK, TableTypeOK
  <2>3. ElementsTypeOK'
    BY <1>a DEF ConfigInv, ConfigTypeOK, TableTypeOK, ElementsTypeOK
  <2> QED
    BY <2>2, <2>3 DEF ConfigTypeOK
<1>3. ProducerInv' /\ SlotInv'
  BY <1>a, ProducersKept, SlotsKept DEF ConfigInv
<1>4. ReaderInv'
  BY <1>a DEF ConfigInv, ReaderInv, Counters
<1>5. CheckInv'
  BY <1>a, <1>1, WhileReading DEF ConfigInv
<1>6. RegisterInv' /\ CbInv'
  BY <1>a, <1>1, NothingRegistered DEF ConfigInv
<1> QED
  BY <1>2, <1>3, <1>4, <1>5, <1>6 DEF ConfigInv

\* One more counter, or eval, in the list.
LEMMA CounterAdded ==
  ASSUME ConfigTypeOK, NEW k \in Names,
         NEW c \in CounterRecord,
         counters' = Append(counters, c)
  PROVE  /\ Cardinality(CountersOf(k)')
              = Cardinality(CountersOf(k)) + IF c.name = k THEN 1 ELSE 0
         /\ Cardinality(SourcesAt(k)')
              = Cardinality(SourcesAt(k)) + IF c.source = k THEN 1 ELSE 0
<1> DEFINE len == Len(counters)
<1>1. /\ DOMAIN counters = 1..len /\ len \in Nat
      /\ DOMAIN counters' = 1..(len + 1)
      /\ \A i \in 1..len : counters'[i] = counters[i]
      /\ counters'[len + 1] = c
  BY DEF ConfigTypeOK, ElementsTypeOK
<1> HIDE DEF len
<1>2. Cardinality(CountersOf(k)') = Cardinality(CountersOf(k)) + IF c.name = k THEN 1 ELSE 0
  <2>2. CASE c.name = k
    <3>1. CountersOf(k)' = CountersOf(k) \cup {len + 1}
      BY <1>1, <2>2 DEF CountersOf, Counters
    <3>2. Cardinality(CountersOf(k)') = Cardinality(CountersOf(k) \cup {len + 1})
      BY <3>1, Zenon
    <3> QED
      BY <2>2, <3>2, CountedElements, Counting DEF len
  <2>3. CASE c.name # k
    <3>1. CountersOf(k)' = CountersOf(k)
      BY <1>1, <2>3 DEF CountersOf, Counters
    <3>2. Cardinality(CountersOf(k)') = Cardinality(CountersOf(k))
      BY <3>1, Zenon
    <3> QED
      BY <2>3, <3>2, CountedElements
  <2> QED
    BY <2>2, <2>3
<1>3. Cardinality(SourcesAt(k)') = Cardinality(SourcesAt(k)) + IF c.source = k THEN 1 ELSE 0
  <2>4. CASE c.source = k
    <3>1. SourcesAt(k)' = SourcesAt(k) \cup {len + 1}
      BY <1>1, <2>4 DEF SourcesAt, Counters
    <3>2. Cardinality(SourcesAt(k)') = Cardinality(SourcesAt(k) \cup {len + 1})
      BY <3>1, Zenon
    <3> QED
      BY <2>4, <3>2, CountedElements, Counting DEF len
  <2>5. CASE c.source # k
    <3>1. SourcesAt(k)' = SourcesAt(k)
      BY <1>1, <2>5 DEF SourcesAt, Counters
    <3>2. Cardinality(SourcesAt(k)') = Cardinality(SourcesAt(k))
      BY <3>1, Zenon
    <3> QED
      BY <2>5, <3>2, CountedElements
  <2> QED
    BY <2>4, <2>5
<1> QED
  BY <1>2, <1>3

LEMMA EvalAdded ==
  ASSUME ConfigTypeOK, NEW k \in Names,
         NEW e \in EvalRecord,
         evals' = Append(evals, e)
  PROVE  Cardinality(EvalsOf(k)')
           = Cardinality(EvalsOf(k)) + IF e.name = k THEN 1 ELSE 0
<1> DEFINE len == Len(evals)
<1>1. /\ DOMAIN evals = 1..len /\ len \in Nat
      /\ DOMAIN evals' = 1..(len + 1)
      /\ \A i \in 1..len : evals'[i] = evals[i]
      /\ evals'[len + 1] = e
  BY DEF ConfigTypeOK, ElementsTypeOK
<1> HIDE DEF len
<1>2. CASE e.name = k
  <2>1. EvalsOf(k)' = EvalsOf(k) \cup {len + 1}
    BY <1>1, <1>2 DEF EvalsOf, Evals
  <2>2. Cardinality(EvalsOf(k)') = Cardinality(EvalsOf(k) \cup {len + 1})
    BY <2>1, Zenon
  <2> QED
    BY <1>2, <2>2, CountedElements, Counting DEF len
<1>3. CASE e.name # k
  <2>1. EvalsOf(k)' = EvalsOf(k)
    BY <1>1, <1>3 DEF EvalsOf, Evals
  <2>2. Cardinality(EvalsOf(k)') = Cardinality(EvalsOf(k))
    BY <2>1, Zenon
  <2> QED
    BY <1>3, <2>2, CountedElements
<1> QED
  BY <1>2, <1>3

LEMMA CounterInv ==
  ASSUME ConfigInv, NEW n \in Names, NEW s \in Names, NEW integrate \in BOOLEAN,
         CounterOne(n, s, integrate)
  PROVE  ConfigInv'
<1> USE DEF SectionRead, callbacks
<1>0. CASE ~(n # s /\ Producible(n))
  BY <1>0, RefuseInv DEF CounterOne
<1> SUFFICES ASSUME n # s, Producible(n) PROVE ConfigInv'
  BY <1>0
<1> DEFINE c == [name |-> n, source |-> s, integrate |-> integrate]
<1>a. /\ known' = known \cup {s, n}
      /\ value_count' = [value_count EXCEPT ![s] = @ + 1]
      /\ producer' = [producer EXCEPT ![n] = "counter"]
      /\ stale' = stale \ {n}
      /\ reader' = IF integrate THEN reader \cup {s} ELSE reader
      /\ counters' = Append(counters, c)
      /\ sections < MaxSections /\ sections' = sections + 1
      /\ UNCHANGED <<pc, value_cbs, triggers, compiled, registered>>
      /\ UNCHANGED <<inputs, outputs, power_readers, evals>>
      /\ producer[n] = None /\ pc = "counter"
  BY DEF CounterOne, Producible, SetProducer, Section
<1>b. /\ c \in CounterRecord
      /\ c.name = n /\ c.source = s /\ c.integrate = integrate
  BY DEF CounterRecord
<1>c. ConfigTypeOK
  BY DEF ConfigInv
<1> HIDE DEF c
<1>1. pc \in Early /\ pc' \in Early /\ pc \in Reading
  BY <1>a DEF Early, Steps, Reading, Registering
<1>2. ConfigTypeOK'
  <2>1. TableTypeOK'
    <3>1. producer' \in [Names -> Producers \cup {None}]
      BY <1>a, <1>c DEF ConfigTypeOK, TableTypeOK, Producers
    <3>2. sections' \in 0..MaxSections
      BY <1>a, <1>c, ConfigConstants DEF ConfigTypeOK, TableTypeOK
    <3>3. value_count' \in [Names -> Nat]
      BY <1>a, <1>c DEF ConfigTypeOK, TableTypeOK
    <3> QED
      BY <1>a, <1>c, <3>1, <3>2, <3>3 DEF ConfigTypeOK, TableTypeOK
  <2>2. /\ counters' \in Seq(CounterRecord)
        /\ Len(counters') = Len(counters) + 1
    BY <1>a, <1>b, <1>c DEF ConfigTypeOK, ElementsTypeOK
  <2>3. Len(counters') + Len(evals) <= sections'
    BY <1>a, <1>c, <2>2 DEF ConfigTypeOK, TableTypeOK, ElementsTypeOK
  <2>4. ElementsTypeOK'
    BY <1>a, <1>c, <2>2, <2>3 DEF ConfigTypeOK, ElementsTypeOK
  <2> QED
    BY <2>1, <2>4 DEF ConfigTypeOK
<1>3. ProducerInv'
  <2> SUFFICES ASSUME NEW k \in Names
               PROVE  /\ inputs'[k] + Cardinality(CountersOf(k)') + Cardinality(EvalsOf(k)')
                           = IF producer'[k] = None THEN 0 ELSE 1
                      /\ inputs'[k] > 0 => producer'[k] \in InModules
    BY DEF ProducerInv, InputProducer
  <2>1. EvalsOf(k)' = EvalsOf(k)
    BY <1>a DEF EvalsOf, Evals
  <2>2. Cardinality(EvalsOf(k)') = Cardinality(EvalsOf(k))
    BY <2>1, Zenon
  <2>3. Cardinality(CountersOf(k)') = Cardinality(CountersOf(k)) + IF n = k THEN 1 ELSE 0
    BY <1>a, <1>b, <1>c, CounterAdded
  <2>4. Cardinality(CountersOf(k)) \in Nat /\ Cardinality(EvalsOf(k)) \in Nat
    BY <1>c, CountedElements
  <2>5. /\ inputs \in [Names -> Nat] /\ producer \in [Names -> Producers \cup {None}]
        /\ inputs[k] + Cardinality(CountersOf(k)) + Cardinality(EvalsOf(k))
             = IF producer[k] = None THEN 0 ELSE 1
        /\ inputs[k] > 0 => producer[k] \in InModules
    BY DEF ConfigInv, ConfigTypeOK, TableTypeOK, ElementsTypeOK, ProducerInv, InputProducer
  <2>6. CASE k = n
    <3>1. producer'[k] = "counter" /\ "counter" # None
      BY <1>a, <2>5, <2>6, ProducerNames
    <3> QED
      BY <3>1, <1>a, <2>2, <2>3, <2>4, <2>5, <2>6
  <2>7. CASE k # n
    <3>1. producer'[k] = producer[k]
      BY <1>a, <2>5, <2>7
    <3> QED
      BY <3>1, <1>a, <2>2, <2>3, <2>4, <2>5, <2>7
  <2> QED
    BY <2>6, <2>7
<1>4. ReaderInv'
  <2>1. /\ DOMAIN counters' = 1..(Len(counters) + 1) /\ DOMAIN counters = 1..Len(counters)
        /\ \A i \in 1..Len(counters) : counters'[i] = counters[i]
        /\ counters'[Len(counters) + 1] = c /\ Len(counters) \in Nat
    BY <1>a, <1>b, <1>c DEF ConfigTypeOK, ElementsTypeOK
  <2>2. ASSUME NEW i \in DOMAIN counters', counters'[i].integrate
        PROVE  counters'[i].source \in reader'
    <3>1. CASE i = Len(counters) + 1
      BY <1>a, <1>b, <2>1, <2>2, <3>1
    <3>2. CASE i # Len(counters) + 1
      <4>1. i \in DOMAIN counters /\ counters'[i] = counters[i]
        BY <2>1, <3>2
      <4> QED
        BY <1>a, <4>1, <2>2 DEF ConfigInv, ReaderInv, Counters
    <3> QED
      BY <3>1, <3>2
  <2> QED
    BY <1>a, <2>2 DEF ConfigInv, ReaderInv, Counters
<1>5. CheckInv'
  BY <1>a DEF ConfigInv, CheckInv, Reading, Registering
<1>6. SlotInv'
  <2> SUFFICES ASSUME NEW k \in Names
               PROVE  value_count'[k] = OutputsAt(k)' + Cardinality(SourcesAt(k)')
                                                      + Cardinality(TriggersAt(k)')
    BY DEF SlotInv
  <2>1. TriggersAt(k)' = TriggersAt(k) /\ OutputsAt(k)' = OutputsAt(k)
    BY <1>a DEF TriggersAt, OutputsAt
  <2>2. Cardinality(TriggersAt(k)') = Cardinality(TriggersAt(k))
    BY <2>1, Zenon
  <2>3. Cardinality(SourcesAt(k)') = Cardinality(SourcesAt(k)) + IF s = k THEN 1 ELSE 0
    BY <1>a, <1>b, <1>c, CounterAdded
  <2>4. /\ Cardinality(SourcesAt(k)) \in Nat /\ Cardinality(TriggersAt(k)) \in Nat
        /\ OutputsAt(k) \in Nat
    BY <1>c, CountedElements
  <2>5. value_count'[k] = value_count[k] + IF s = k THEN 1 ELSE 0
    BY <1>a, <1>c DEF ConfigTypeOK, TableTypeOK
  <2>6. value_count[k] = OutputsAt(k) + Cardinality(SourcesAt(k)) + Cardinality(TriggersAt(k))
    BY DEF ConfigInv, SlotInv
  <2> QED
    BY <2>1, <2>2, <2>3, <2>4, <2>5, <2>6
<1>7. RegisterInv' /\ CbInv'
  BY <1>a, <1>1, NothingRegistered DEF ConfigInv
<1> QED
  BY <1>2, <1>3, <1>4, <1>5, <1>6, <1>7 DEF ConfigInv

LEMMA EvalInv ==
  ASSUME ConfigInv, NEW n \in Names, NEW reads \in SUBSET Names,
         NEW ts \in SUBSET Names, NEW period \in BOOLEAN, EvalOne(n, reads, ts, period)
  PROVE  ConfigInv'
<1> USE DEF SectionRead, callbacks
<1>0. CASE ~(Producible(n) /\ ~(period /\ ts # {}))
  BY <1>0, RefuseInv DEF EvalOne
<1> SUFFICES ASSUME Producible(n), ~(period /\ ts # {}) PROVE ConfigInv'
  BY <1>0
<1> DEFINE e == [name |-> n, reads |-> reads, triggers |-> ts, period |-> period]
<1>a. /\ known' = known \cup {n} /\ value_count' = value_count
      /\ producer' = [producer EXCEPT ![n] = "eval"]
      /\ stale' = stale \ {n}
      /\ evals' = Append(evals, e)
      /\ sections < MaxSections /\ sections' = sections + 1
      /\ UNCHANGED <<pc, value_cbs, triggers, compiled, registered>>
      /\ UNCHANGED <<reader, inputs, outputs, power_readers, counters>>
      /\ producer[n] = None /\ pc = "eval"
  BY DEF EvalOne, Producible, GetDispatcher, SetProducer, Section
<1>b. /\ e \in EvalRecord
      /\ e.name = n
  BY DEF EvalRecord
<1>c. ConfigTypeOK
  BY DEF ConfigInv
<1> HIDE DEF e
<1>1. pc \in Early /\ pc' \in Early /\ pc \in Reading \cup {"eval"}
  BY <1>a DEF Early, Steps, Reading, Registering
<1>2. ConfigTypeOK'
  <2>1. TableTypeOK'
    <3>1. producer' \in [Names -> Producers \cup {None}]
      BY <1>a, <1>c DEF ConfigTypeOK, TableTypeOK, Producers
    <3>2. sections' \in 0..MaxSections
      BY <1>a, <1>c, ConfigConstants DEF ConfigTypeOK, TableTypeOK
    <3> QED
      BY <1>a, <1>c, <3>1, <3>2 DEF ConfigTypeOK, TableTypeOK
  <2>2. /\ evals' \in Seq(EvalRecord)
        /\ Len(evals') = Len(evals) + 1
    BY <1>a, <1>b, <1>c DEF ConfigTypeOK, ElementsTypeOK
  <2>3. ElementsTypeOK'
    BY <1>a, <1>c, <2>2 DEF ConfigTypeOK, TableTypeOK, ElementsTypeOK
  <2> QED
    BY <2>1, <2>3 DEF ConfigTypeOK
<1>3. ProducerInv'
  <2> SUFFICES ASSUME NEW k \in Names
               PROVE  /\ inputs'[k] + Cardinality(CountersOf(k)') + Cardinality(EvalsOf(k)')
                           = IF producer'[k] = None THEN 0 ELSE 1
                      /\ inputs'[k] > 0 => producer'[k] \in InModules
    BY DEF ProducerInv, InputProducer
  <2>1. CountersOf(k)' = CountersOf(k)
    BY <1>a DEF CountersOf, Counters
  <2>2. Cardinality(CountersOf(k)') = Cardinality(CountersOf(k))
    BY <2>1, Zenon
  <2>3. Cardinality(EvalsOf(k)') = Cardinality(EvalsOf(k)) + IF n = k THEN 1 ELSE 0
    BY <1>a, <1>b, <1>c, EvalAdded
  <2>4. Cardinality(CountersOf(k)) \in Nat /\ Cardinality(EvalsOf(k)) \in Nat
    BY <1>c, CountedElements
  <2>5. /\ inputs \in [Names -> Nat] /\ producer \in [Names -> Producers \cup {None}]
        /\ inputs[k] + Cardinality(CountersOf(k)) + Cardinality(EvalsOf(k))
             = IF producer[k] = None THEN 0 ELSE 1
        /\ inputs[k] > 0 => producer[k] \in InModules
    BY DEF ConfigInv, ConfigTypeOK, TableTypeOK, ElementsTypeOK, ProducerInv, InputProducer
  <2>6. CASE k = n
    <3>1. producer'[k] = "eval" /\ "eval" # None
      BY <1>a, <2>5, <2>6, ProducerNames
    <3> QED
      BY <3>1, <1>a, <2>2, <2>3, <2>4, <2>5, <2>6
  <2>7. CASE k # n
    <3>1. producer'[k] = producer[k]
      BY <1>a, <2>5, <2>7
    <3> QED
      BY <3>1, <1>a, <2>2, <2>3, <2>4, <2>5, <2>7
  <2> QED
    BY <2>6, <2>7
<1>4. ReaderInv'
  BY <1>a DEF ConfigInv, ReaderInv, Counters
<1>5. CheckInv'
  BY <1>a, <1>1, WhileReading DEF ConfigInv
<1>6. SlotInv'
  BY <1>a, SlotsKept DEF ConfigInv
<1>7. RegisterInv' /\ CbInv'
  BY <1>a, <1>1, NothingRegistered DEF ConfigInv
<1> QED
  BY <1>2, <1>3, <1>4, <1>5, <1>6, <1>7 DEF ConfigInv

-----------------------------------------------------------------------------
(***************************************************************************)
(* The steps between the sections, and the evals compiled.                 *)
(***************************************************************************)
LEMMA ProgressInv ==
  ASSUME ConfigInv, pc' \in Steps,
         UNCHANGED <<sections, table, produced, reader, elements, callbacks>>
  PROVE  ConfigTypeOK' /\ ProducerInv' /\ ReaderInv' /\ SlotInv'
<1> USE DEF table, produced, elements, callbacks
<1>1. ConfigTypeOK'
  BY DEF ConfigInv, ConfigTypeOK, TableTypeOK, ElementsTypeOK
<1>2. ProducerInv' /\ SlotInv'
  BY ProducersKept, SlotsKept DEF ConfigInv
<1>3. ReaderInv'
  BY DEF ConfigInv, ReaderInv, Counters
<1> QED
  BY <1>1, <1>2, <1>3

LEMMA EarlyProgressInv ==
  ASSUME ConfigInv, ModuleDone \/ CounterDone \/ EvalsDone
  PROVE  ConfigInv'
<1>0. CASE Refuse
  BY <1>0, RefuseInv
<1>1. CASE ModuleDone
  <2>1. /\ pc \in Early /\ pc' \in Early
        /\ UNCHANGED <<sections, table, produced, reader, elements, callbacks>>
    BY <1>1 DEF ModuleDone, CanDone, MbDone, MqttDone, RestDone, SunspecDone,
                EvalsRead, Early, Steps, Reading, Registering
  <2>2. CheckInv'
    BY <1>1 DEF ModuleDone, CanDone, MbDone, MqttDone, RestDone, SunspecDone,
                EvalsRead, Reading, Registering, ConfigInv, CheckInv, Chained,
                Counters, elements, callbacks
  <2>3. UNCHANGED <<value_cbs, registered>> /\ pc' \in Steps
    BY <2>1 DEF callbacks, Early
  <2> QED
    BY <2>1, <2>2, <2>3, ProgressInv, NothingRegistered DEF ConfigInv
<1>2. CASE CounterDone /\ ~Refuse
  <2>1. /\ pc \in Early /\ pc' \in Early /\ ~Chained /\ pc = "counter" /\ pc' = "eval"
        /\ UNCHANGED <<sections, table, produced, reader, elements, callbacks>>
    BY <1>2 DEF CounterDone, Early, Steps, Reading, Registering
  <2>2. CheckInv'
    BY <2>1 DEF Reading, Registering, ConfigInv, CheckInv, Chained, Counters,
                elements, callbacks
  <2>3. UNCHANGED <<value_cbs, registered>> /\ pc' \in Steps
    BY <2>1 DEF callbacks, Early
  <2> QED
    BY <2>1, <2>2, <2>3, ProgressInv, NothingRegistered DEF ConfigInv
<1>3. CASE EvalsDone /\ ~Refuse
  <2>1. /\ pc \in Early /\ pc' \in Early /\ compiled = Len(evals)
        /\ pc = "compile" /\ pc' = "check"
        /\ UNCHANGED <<sections, table, produced, reader, elements, callbacks>>
    BY <1>3 DEF EvalsDone, Early, Steps, Reading, Registering
  <2>2. CheckInv'
    BY <2>1 DEF Reading, Registering, ConfigInv, CheckInv, Chained, Counters,
                elements, callbacks
  <2>3. UNCHANGED <<value_cbs, registered>> /\ pc' \in Steps
    BY <2>1 DEF callbacks, Early
  <2> QED
    BY <2>1, <2>2, <2>3, ProgressInv, NothingRegistered DEF ConfigInv
<1> QED
  BY <1>0, <1>1, <1>2, <1>3

LEMMA CheckDispatchersInv ==
  ASSUME ConfigInv, CheckDispatchers
  PROVE  ConfigInv'
<1>0. CASE ~\A n \in known : DispatcherOK(n)
  BY <1>0, RefuseInv DEF CheckDispatchers
<1> SUFFICES ASSUME \A n \in known : DispatcherOK(n) PROVE ConfigInv'
  BY <1>0
<1>1. /\ pc = "check" /\ pc' = "register_can" /\ pc' \in Steps
      /\ UNCHANGED <<sections, table, produced, reader, elements, callbacks>>
  BY DEF CheckDispatchers, Steps, Registering
<1>2. CheckInv'
  BY <1>1 DEF ConfigInv, CheckInv, Reading, Registering, Chained, Counters, DispatcherOK,
              InputProducer, table, produced, elements, callbacks
<1>3. \A n \in Names : Len(value_cbs[n]) = 0
  BY <1>1 DEF ConfigInv, RegisterInv, FilledInv, Registering
<1>4. \A n \in Names : DOMAIN value_cbs[n] = {}
  BY <1>3 DEF ConfigInv, ConfigTypeOK, TableTypeOK
<1>5. CbInv'
  BY <1>1, <1>4 DEF CbInv, callbacks
<1>6. RegisterInv'
  BY <1>1, <1>3 DEF ConfigInv, RegisterInv, FilledInv, Registering, callbacks
<1> QED
  BY <1>1, <1>2, <1>5, <1>6, ProgressInv DEF ConfigInv

LEMMA TriggersAreNames ==
  ASSUME NEW e \in EvalRecord
  PROVE  TriggersOf(e) \in SUBSET Names
BY DEF TriggersOf, Ins, EvalRecord

LEMMA CompileInv ==
  ASSUME ConfigInv, CompileEval
  PROVE  ConfigInv'
<1> DEFINE e == evals[compiled + 1]
<1>0. CASE ~(Compiles(e) /\ TriggersAccepted(e))
  BY <1>0, RefuseInv DEF CompileEval
<1> SUFFICES ASSUME Compiles(e), TriggersAccepted(e) PROVE ConfigInv'
  BY <1>0
<1> DEFINE ts == TriggersOf(e)
<1>a. /\ pc = "compile" /\ compiled < Len(evals)
      /\ triggers' = Append(triggers, ts)
      /\ value_count' = [n \in Names |-> value_count[n] + IF n \in ts THEN 1 ELSE 0]
      /\ compiled' = compiled + 1
      /\ UNCHANGED <<pc, sections, known, producer, stale, reader>>
      /\ UNCHANGED <<inputs, outputs, power_readers, counters, evals, value_cbs, registered>>
  BY DEF CompileEval, Reserved, produced, elements
<1>b. ConfigTypeOK
  BY DEF ConfigInv
<1>c. ts \in SUBSET Names
  <2>1. compiled + 1 \in 1..Len(evals)
    BY <1>a, <1>b DEF ConfigTypeOK, ElementsTypeOK
  <2>2. e \in EvalRecord
    <3>1. evals \in Seq(EvalRecord)
      BY <1>b DEF ConfigTypeOK, ElementsTypeOK
    <3> HIDE DEF e
    <3>2. e = evals[compiled + 1]
      BY DEF e
    <3> QED
      BY <2>1, <3>1, <3>2
  <2> QED
    BY <2>2, TriggersAreNames
<1> HIDE DEF ts, e
<1>1. pc \in Early /\ pc' \in Early
  BY <1>a DEF Early, Steps, Reading, Registering
<1>2. ConfigTypeOK'
  <2>1. value_count' \in [Names -> Nat]
    BY <1>a, <1>b DEF ConfigTypeOK, TableTypeOK
  <2>2. TableTypeOK'
    BY <1>a, <1>b, <2>1 DEF ConfigTypeOK, TableTypeOK
  <2>3. triggers' \in Seq(SUBSET Names) /\ Len(triggers') = compiled'
    BY <1>a, <1>b, <1>c DEF ConfigTypeOK, ElementsTypeOK
  <2>4. compiled' \in 0..Len(evals)
    BY <1>a, <1>b DEF ConfigTypeOK, ElementsTypeOK
  <2>5. ElementsTypeOK'
    BY <1>a, <1>b, <2>3, <2>4 DEF ConfigTypeOK, ElementsTypeOK
  <2> QED
    BY <2>2, <2>5 DEF ConfigTypeOK
<1>3. ProducerInv'
  BY <1>a, ProducersKept DEF ConfigInv
<1>4. ReaderInv'
  BY <1>a DEF ConfigInv, ReaderInv, Counters
<1>5. CheckInv'
  BY <1>a DEF ConfigInv, CheckInv, Reading, Registering, Chained, Counters
<1>6. SlotInv'
  <2> SUFFICES ASSUME NEW k \in Names
               PROVE  value_count'[k] = OutputsAt(k)' + Cardinality(SourcesAt(k)')
                                                      + Cardinality(TriggersAt(k)')
    BY DEF SlotInv
  <2>1. SourcesAt(k)' = SourcesAt(k) /\ OutputsAt(k)' = OutputsAt(k)
    BY <1>a DEF SourcesAt, OutputsAt, Counters
  <2>2. Cardinality(SourcesAt(k)') = Cardinality(SourcesAt(k))
    BY <2>1, Zenon
  <2>3. /\ compiled \in Nat /\ \A i \in 1..compiled : triggers'[i] = triggers[i]
        /\ triggers'[compiled + 1] = ts
        /\ 1..compiled' = (1..compiled) \cup {compiled + 1}
    <3>1. /\ compiled \in Nat /\ \A i \in 1..compiled : triggers'[i] = triggers[i]
          /\ triggers'[compiled + 1] = ts
      BY <1>a, <1>b, <1>c DEF ConfigTypeOK, ElementsTypeOK
    <3>2. 1..(compiled + 1) = (1..compiled) \cup {compiled + 1}
      BY <3>1
    <3> QED
      BY <1>a, <3>1, <3>2
  <2>4. CASE k \in ts
    <3>1. TriggersAt(k)' = TriggersAt(k) \cup {compiled + 1}
      BY <1>a, <2>3, <2>4 DEF TriggersAt
    <3>2. Cardinality(TriggersAt(k)') = Cardinality(TriggersAt(k) \cup {compiled + 1})
      BY <3>1, Zenon
    <3>3. Cardinality(TriggersAt(k)') = Cardinality(TriggersAt(k)) + 1
      BY <1>b, <3>2, CountedElements, Counting
    <3>4. value_count'[k] = value_count[k] + 1
      BY <1>a, <2>4
    <3>5. value_count[k] = OutputsAt(k) + Cardinality(SourcesAt(k)) + Cardinality(TriggersAt(k))
      BY DEF ConfigInv, SlotInv
    <3> QED
      BY <1>b, <2>1, <2>2, <3>3, <3>4, <3>5, CountedElements
  <2>5. CASE k \notin ts
    <3>1. TriggersAt(k)' = TriggersAt(k)
      BY <1>a, <2>3, <2>5 DEF TriggersAt
    <3>2. Cardinality(TriggersAt(k)') = Cardinality(TriggersAt(k))
      BY <3>1, Zenon
    <3>3. value_count'[k] = value_count[k] + 0 /\ value_count[k] \in Nat
      <4>1. value_count[k] \in Nat
        BY <1>b DEF ConfigTypeOK, TableTypeOK
      <4> QED
        BY <1>a, <2>5, <4>1
    <3>4. value_count[k] = OutputsAt(k) + Cardinality(SourcesAt(k)) + Cardinality(TriggersAt(k))
      BY DEF ConfigInv, SlotInv
    <3> QED
      BY <2>1, <2>2, <3>2, <3>3, <3>4
  <2> QED
    BY <2>4, <2>5
<1>7. RegisterInv' /\ CbInv'
  BY <1>a, <1>b, <1>1, NothingRegistered DEF ConfigInv
<1> QED
  BY <1>2, <1>3, <1>4, <1>5, <1>6, <1>7 DEF ConfigInv

-----------------------------------------------------------------------------
(***************************************************************************)
(* Registration.                                                           *)
(***************************************************************************)
LEMMA Concatenated ==
  ASSUME NEW S, NEW s \in Seq(S), NEW t \in Seq(S)
  PROVE  s \o t \in Seq(S) /\ Len(s \o t) = Len(s) + Len(t)
OBVIOUS

LEMMA ConcatenatedAt ==
  ASSUME NEW S, NEW s \in Seq(S), NEW t \in Seq(S), NEW u, u = s \o t, NEW k \in DOMAIN u
  PROVE  \/ k \in DOMAIN s /\ u[k] = s[k]
         \/ \E j \in DOMAIN t : u[k] = t[j]
<1>1. k \in 1..(Len(s) + Len(t)) /\ Len(s) \in Nat /\ Len(t) \in Nat
  OBVIOUS
<1>2. CASE k <= Len(s)
  BY <1>1, <1>2
<1>3. CASE k > Len(s)
  <2>1. k - Len(s) \in 1..Len(t) /\ u[k] = t[k - Len(s)]
    BY <1>1, <1>3
  <2> QED
    BY <2>1
<1> QED
  BY <1>1, <1>2, <1>3

LEMMA RegisterKeeps ==
  ASSUME ConfigInv, pc \in Registering, NEW cbs, NEW next \in Registering,
         NEW done \in 0..MaxSections,
         \A n \in Names : cbs[n] \in Seq(Callbacks),
         \A n \in Names : \A j \in DOMAIN cbs[n] :
           cbs[n][j][1] = "counter" => cbs[n][j][2] \in SourcesAt(n),
         Register(cbs, next, done), ~Refuse
  PROVE  /\ ConfigTypeOK' /\ ProducerInv' /\ ReaderInv' /\ CheckInv' /\ SlotInv' /\ CbInv'
         /\ pc' = next /\ registered' = done
         /\ \A n \in Names : Len(value_cbs'[n]) = Len(value_cbs[n]) + Len(cbs[n])
         /\ UNCHANGED <<sections, table, produced, reader, elements, triggers, compiled>>
<1>a. /\ value_cbs' = [n \in Names |-> value_cbs[n] \o cbs[n]]
      /\ pc' = next /\ registered' = done
      /\ UNCHANGED <<sections, table, produced, reader, elements, triggers, compiled>>
  BY DEF Register
<1>b. \A n \in Names : value_cbs[n] \in Seq(Callbacks)
  BY DEF ConfigInv, ConfigTypeOK, TableTypeOK
<1> USE DEF table, produced, elements
<1>1. ConfigTypeOK'
  <2>1. \A n \in Names : value_cbs[n] \o cbs[n] \in Seq(Callbacks)
    BY <1>b, Concatenated
  <2>2. value_cbs' \in [Names -> Seq(Callbacks)]
    BY <1>a, <2>1
  <2>3. pc' \in Steps
    BY <1>a DEF Steps
  <2>4. TableTypeOK'
    BY <1>a, <2>2, <2>3 DEF ConfigInv, ConfigTypeOK, TableTypeOK
  <2>5. ElementsTypeOK'
    BY <1>a DEF ConfigInv, ConfigTypeOK, ElementsTypeOK
  <2> QED
    BY <2>4, <2>5 DEF ConfigTypeOK
<1>2. ProducerInv' /\ SlotInv'
  BY <1>a, ProducersKept, SlotsKept DEF ConfigInv
<1>3. ReaderInv'
  BY <1>a DEF ConfigInv, ReaderInv, Counters
<1>4. CheckInv'
  BY <1>a DEF ConfigInv, CheckInv, Reading, Registering, Chained, Counters, DispatcherOK,
              InputProducer
<1>5. \A n \in Names : Len(value_cbs'[n]) = Len(value_cbs[n]) + Len(cbs[n])
  BY <1>a, <1>b, Concatenated
<1>6. CbInv'
  <2> SUFFICES ASSUME NEW n \in Names, NEW k \in DOMAIN value_cbs'[n],
                      value_cbs'[n][k][1] = "counter"
               PROVE  value_cbs'[n][k][2] \in SourcesAt(n)'
    BY DEF CbInv
  <2>1. SourcesAt(n)' = SourcesAt(n)
    BY <1>a DEF SourcesAt, Counters
  <2>2. value_cbs'[n] = value_cbs[n] \o cbs[n]
    BY <1>a
  <2>3. \/ k \in DOMAIN value_cbs[n] /\ value_cbs'[n][k] = value_cbs[n][k]
        \/ \E j \in DOMAIN cbs[n] : value_cbs'[n][k] = cbs[n][j]
    <3>1. value_cbs[n] \in Seq(Callbacks) /\ cbs[n] \in Seq(Callbacks)
      BY <1>b
    <3>2. PICK u : u = value_cbs'[n]
      OBVIOUS
    <3>3. PICK s : s = value_cbs[n]
      OBVIOUS
    <3>4. PICK t : t = cbs[n]
      OBVIOUS
    <3>5. s \in Seq(Callbacks) /\ t \in Seq(Callbacks) /\ u = s \o t /\ k \in DOMAIN u
      BY <2>2, <3>1, <3>2, <3>3, <3>4
    <3>6. (k \in DOMAIN s /\ u[k] = s[k]) \/ \E j \in DOMAIN t : u[k] = t[j]
      BY <3>5, ConcatenatedAt
    <3> QED
      BY <3>2, <3>3, <3>4, <3>6, Zenon
  <2> QED
    BY <2>1, <2>3 DEF ConfigInv, CbInv
<1> QED
  BY <1>a, <1>1, <1>2, <1>3, <1>4, <1>5, <1>6

LEMMA PairSequence ==
  ASSUME NEW m \in OutModules, NEW k \in Nat, NEW s, s = [i \in 1..k |-> <<m, i>>]
  PROVE  s \in Seq(Callbacks) /\ Len(s) = k /\ \A j \in DOMAIN s : s[j][1] = m
<1>1. \A i \in 1..k : <<m, i>> \in Callbacks
  BY DEF Callbacks
<1>2. s \in [1..k -> Callbacks]
  BY <1>1
<1>3. \A j \in DOMAIN s : s[j] = <<m, j>>
  OBVIOUS
<1>4. \A j \in DOMAIN s : s[j][1] = m
  BY <1>3
<1>5. s \in Seq(Callbacks) /\ Len(s) = k
  BY <1>2
<1> QED
  BY <1>4, <1>5

LEMMA OutputsRegistered ==
  ASSUME ConfigInv, NEW m \in OutModules, NEW next \in Registering,
         pc \in Registering, Register(OutputCbs(m), next, 0), ~Refuse
  PROVE  /\ ConfigTypeOK' /\ ProducerInv' /\ ReaderInv' /\ CheckInv' /\ SlotInv' /\ CbInv'
         /\ pc' = next /\ registered' = 0
         /\ \A n \in Names : Len(value_cbs'[n]) = Len(value_cbs[n]) + outputs[m][n]
         /\ UNCHANGED <<sections, table, produced, reader, elements, triggers, compiled>>
<1> DEFINE cbs == OutputCbs(m)
<1>1. outputs \in [OutModules -> [Names -> Nat]]
  BY DEF ConfigInv, ConfigTypeOK, ElementsTypeOK
<1>2. \A n \in Names : cbs[n] = [i \in 1..outputs[m][n] |-> <<m, i>>]
  BY DEF OutputCbs
<1>3. m # "counter"
  BY DEF OutModules
<1>4. \A n \in Names : outputs[m][n] \in Nat
  BY <1>1
<1> HIDE DEF cbs
<1>5. ASSUME NEW n \in Names
      PROVE  /\ cbs[n] \in Seq(Callbacks) /\ Len(cbs[n]) = outputs[m][n]
             /\ \A j \in DOMAIN cbs[n] :
                  cbs[n][j][1] = "counter" => cbs[n][j][2] \in SourcesAt(n)
  <2>1. /\ cbs[n] \in Seq(Callbacks) /\ Len(cbs[n]) = outputs[m][n]
        /\ \A j \in DOMAIN cbs[n] : cbs[n][j][1] = m
    <3>1. PICK k, s : k = outputs[m][n] /\ s = cbs[n]
      OBVIOUS
    <3>2. k \in Nat /\ s = [i \in 1..k |-> <<m, i>>]
      BY <1>2, <1>4, <3>1, Zenon
    <3>3. s \in Seq(Callbacks) /\ Len(s) = k /\ \A j \in DOMAIN s : s[j][1] = m
      BY <3>2, PairSequence
    <3> QED
      BY <3>1, <3>3, Zenon
  <2> QED
    BY <1>3, <2>1
<1>6. 0 \in 0..MaxSections
  BY ConfigConstants
<1>7. Register(cbs, next, 0)
  BY DEF cbs
<1>8. /\ ConfigTypeOK' /\ ProducerInv' /\ ReaderInv' /\ CheckInv' /\ SlotInv' /\ CbInv'
      /\ pc' = next /\ registered' = 0
      /\ \A n \in Names : Len(value_cbs'[n]) = Len(value_cbs[n]) + Len(cbs[n])
      /\ UNCHANGED <<sections, table, produced, reader, elements, triggers, compiled>>
  BY <1>5, <1>6, <1>7, RegisterKeeps
<1> QED
  BY <1>5, <1>8

LEMMA RegisterOutputsInv ==
  ASSUME ConfigInv, RegisterCan \/ RegisterMb \/ RegisterMqtt
  PROVE  ConfigInv'
<1>0. CASE Refuse
  BY <1>0, RefuseInv
<1> SUFFICES ASSUME ~Refuse PROVE ConfigInv'
  BY <1>0
<1> USE DEF elements
<1>a. \A n \in Names : outputs["can"][n] \in Nat /\ outputs["mb"][n] \in Nat /\ outputs["mqtt"][n] \in Nat
  BY DEF ConfigInv, ConfigTypeOK, ElementsTypeOK, OutModules
<1>b. FilledInv
  BY DEF ConfigInv, RegisterInv
<1>1. CASE RegisterCan
  <2>1. /\ pc \in Registering /\ "register_mb" \in Registering /\ "can" \in OutModules
        /\ Register(OutputCbs("can"), "register_mb", 0) /\ pc = "register_can"
    BY <1>1 DEF RegisterCan, Registering, OutModules
  <2>2. /\ ConfigTypeOK' /\ ProducerInv' /\ ReaderInv' /\ CheckInv' /\ SlotInv' /\ CbInv'
        /\ pc' = "register_mb" /\ registered' = 0
        /\ \A n \in Names : Len(value_cbs'[n]) = Len(value_cbs[n]) + outputs["can"][n]
        /\ outputs' = outputs
    BY <2>1, OutputsRegistered
  <2>3. RegisterInv'
    BY <1>a, <1>b, <2>1, <2>2 DEF RegisterInv, FilledInv, Registering
  <2> QED
    BY <2>2, <2>3 DEF ConfigInv
<1>2. CASE RegisterMb
  <2>1. /\ pc \in Registering /\ "register_mqtt" \in Registering /\ "mb" \in OutModules
        /\ Register(OutputCbs("mb"), "register_mqtt", 0) /\ pc = "register_mb"
    BY <1>2 DEF RegisterMb, Registering, OutModules
  <2>2. /\ ConfigTypeOK' /\ ProducerInv' /\ ReaderInv' /\ CheckInv' /\ SlotInv' /\ CbInv'
        /\ pc' = "register_mqtt" /\ registered' = 0
        /\ \A n \in Names : Len(value_cbs'[n]) = Len(value_cbs[n]) + outputs["mb"][n]
        /\ outputs' = outputs
    BY <2>1, OutputsRegistered
  <2>3. RegisterInv'
    BY <1>a, <1>b, <2>1, <2>2 DEF RegisterInv, FilledInv, Registering
  <2> QED
    BY <2>2, <2>3 DEF ConfigInv
<1>3. CASE RegisterMqtt
  <2>1. /\ pc \in Registering /\ "register_counter" \in Registering /\ "mqtt" \in OutModules
        /\ Register(OutputCbs("mqtt"), "register_counter", 0) /\ pc = "register_mqtt"
    BY <1>3 DEF RegisterMqtt, Registering, OutModules
  <2>2. /\ ConfigTypeOK' /\ ProducerInv' /\ ReaderInv' /\ CheckInv' /\ SlotInv' /\ CbInv'
        /\ pc' = "register_counter" /\ registered' = 0
        /\ \A n \in Names : Len(value_cbs'[n]) = Len(value_cbs[n]) + outputs["mqtt"][n]
        /\ outputs' = outputs /\ counters' = counters
    BY <2>1, OutputsRegistered
  <2>3. ASSUME NEW n \in Names
        PROVE  Len(value_cbs'[n]) = OutputsAt(n)'
                 + Cardinality({i \in 1..registered' : i \in SourcesAt(n)'})
    <3>1. {i \in 1..registered' : i \in SourcesAt(n)'} = {}
      BY <2>2
    <3>2. Cardinality({i \in 1..registered' : i \in SourcesAt(n)'}) = 0
      BY <3>1, NoneCounted, Zenon
    <3>3. Len(value_cbs'[n]) = outputs["can"][n] + outputs["mb"][n] + outputs["mqtt"][n]
      BY <1>a, <1>b, <2>1, <2>2 DEF FilledInv
    <3>4. OutputsAt(n)' = outputs["can"][n] + outputs["mb"][n] + outputs["mqtt"][n]
      BY <2>2 DEF OutputsAt
    <3> QED
      BY <1>a, <3>2, <3>3, <3>4
  <2>4. FilledInv'
    BY <2>2, <2>3 DEF FilledInv, Registering
  <2>5. Len(counters') \in Nat
    BY <2>2 DEF ConfigTypeOK, ElementsTypeOK
  <2>6. RegisterInv'
    BY <2>2, <2>4, <2>5 DEF RegisterInv
  <2> QED
    BY <2>2, <2>6 DEF ConfigInv
<1> QED
  BY <1>1, <1>2, <1>3

\* The callback of one counter or eval.
LEMMA CbAtFacts ==
  ASSUME NEW ns \in SUBSET Names, NEW cb \in Callbacks, NEW n \in Names
  PROVE  /\ CbAt(ns, cb)[n] \in Seq(Callbacks)
         /\ Len(CbAt(ns, cb)[n]) = IF n \in ns THEN 1 ELSE 0
         /\ \A j \in DOMAIN CbAt(ns, cb)[n] : n \in ns /\ CbAt(ns, cb)[n][j] = cb
<1>1. CASE n \in ns
  <2>1. CbAt(ns, cb)[n] = <<cb>>
    BY <1>1 DEF CbAt
  <2> QED
    BY <1>1, <2>1
<1>2. CASE n \notin ns
  <2>1. CbAt(ns, cb)[n] = <<>>
    BY <1>2 DEF CbAt
  <2> QED
    BY <1>2, <2>1
<1> QED
  BY <1>1, <1>2

\* Counting on by one.
LEMMA CountOn ==
  ASSUME NEW k \in Nat, NEW A
  PROVE  /\ Cardinality({i \in 1..k : i \in A}) \in Nat
         /\ Cardinality({i \in 1..(k + 1) : i \in A})
              = Cardinality({i \in 1..k : i \in A}) + IF k + 1 \in A THEN 1 ELSE 0
<1> DEFINE B == {i \in 1..k : i \in A}
           C == {i \in 1..(k + 1) : i \in A}
<1>0. B \in SUBSET (1..k)
  OBVIOUS
<1>1. Cardinality(B) \in Nat /\ Cardinality(B \cup {k + 1}) = Cardinality(B) + 1
  BY <1>0, Counting
<1>2. CASE k + 1 \in A
  <2>1. C = B \cup {k + 1}
    BY <1>2
  <2>2. Cardinality(C) = Cardinality(B \cup {k + 1})
    BY <2>1, Zenon
  <2> HIDE DEF B, C
  <2>3. Cardinality(C) = Cardinality(B) + 1
    BY <1>1, <2>2
  <2> QED
    BY <1>1, <1>2, <2>3 DEF B, C
<1>3. CASE k + 1 \notin A
  <2>1. C = B
    BY <1>3
  <2>2. Cardinality(C) = Cardinality(B)
    BY <2>1, Zenon
  <2> HIDE DEF B, C
  <2>3. Cardinality(C) = Cardinality(B) + 0
    BY <1>1, <2>2
  <2> QED
    BY <1>1, <1>3, <2>3 DEF B, C
<1> QED
  BY <1>2, <1>3

LEMMA RegisterCounterInv ==
  ASSUME ConfigInv, RegisterCounter \/ CountersRegistered
  PROVE  ConfigInv'
<1>0. CASE Refuse
  BY <1>0, RefuseInv
<1> SUFFICES ASSUME ~Refuse PROVE ConfigInv'
  BY <1>0
<1> USE DEF elements
<1>a. ConfigTypeOK /\ FilledInv /\ pc = "register_counter" /\ pc \in Registering
  BY DEF ConfigInv, RegisterInv, RegisterCounter, CountersRegistered, Registering
<1>b. registered \in Nat /\ registered <= Len(counters)
  BY <1>a DEF ConfigInv, ConfigTypeOK, ElementsTypeOK, RegisterInv
<1>c. DOMAIN counters = 1..Len(counters) /\ Len(counters) \in Nat
  BY <1>a DEF ConfigTypeOK, ElementsTypeOK
<1>1. CASE RegisterCounter
  <2> DEFINE i == registered + 1
             s == counters[i].source
  <2>1. i \in 1..Len(counters) /\ Register(CbAt({s}, <<"counter", i>>), "register_counter", i)
    BY <1>1, <1>a, <1>b DEF RegisterCounter
  <2>2. s \in Names /\ i \in 0..MaxSections /\ i \in Nat
    <3>1. counters[i] \in CounterRecord
      BY <1>a, <2>1 DEF ConfigTypeOK, ElementsTypeOK
    <3>2. i \in 0..MaxSections /\ i \in Nat
      BY <1>a, <1>b, <2>1, ConfigConstants DEF ConfigTypeOK, ElementsTypeOK, TableTypeOK
    <3> QED
      BY <3>1, <3>2 DEF CounterRecord
  <2>3. i \in SourcesAt(s) /\ \A n \in Names : i \in SourcesAt(n) <=> n = s
    BY <1>c, <2>1 DEF SourcesAt, Counters
  <2> HIDE DEF s
  <2>4. {s} \in SUBSET Names /\ <<"counter", i>> \in Callbacks
    BY <2>2 DEF Callbacks
  <2> DEFINE cbs == CbAt({s}, <<"counter", i>>)
  <2>5. ASSUME NEW n \in Names
        PROVE  /\ cbs[n] \in Seq(Callbacks)
               /\ Len(cbs[n]) = IF i \in SourcesAt(n) THEN 1 ELSE 0
               /\ \A j \in DOMAIN cbs[n] :
                    cbs[n][j][1] = "counter" => cbs[n][j][2] \in SourcesAt(n)
    <3>1. /\ cbs[n] \in Seq(Callbacks)
          /\ Len(cbs[n]) = IF n \in {s} THEN 1 ELSE 0
          /\ \A j \in DOMAIN cbs[n] : n \in {s} /\ cbs[n][j] = <<"counter", i>>
      BY <2>4, CbAtFacts
    <3> HIDE DEF cbs, i
    <3>2. Len(cbs[n]) = IF i \in SourcesAt(n) THEN 1 ELSE 0
      BY <2>3, <3>1
    <3>3. \A j \in DOMAIN cbs[n] : cbs[n][j][2] = i /\ i \in SourcesAt(n)
      BY <2>3, <3>1
    <3> QED
      BY <3>1, <3>2, <3>3
  <2> HIDE DEF cbs
  <2>6. Register(cbs, "register_counter", i)
    BY <2>1 DEF cbs
  <2>7. /\ ConfigTypeOK' /\ ProducerInv' /\ ReaderInv' /\ CheckInv' /\ SlotInv' /\ CbInv'
        /\ pc' = "register_counter" /\ registered' = i
        /\ \A n \in Names : Len(value_cbs'[n]) = Len(value_cbs[n]) + Len(cbs[n])
        /\ outputs' = outputs /\ counters' = counters /\ evals' = evals
    BY <1>a, <2>2, <2>5, <2>6, RegisterKeeps
  <2>8. ASSUME NEW n \in Names
        PROVE  Len(value_cbs'[n]) = OutputsAt(n)'
                 + Cardinality({j \in 1..registered' : j \in SourcesAt(n)'})
    <3>1. SourcesAt(n)' = SourcesAt(n) /\ OutputsAt(n)' = OutputsAt(n)
      BY <2>7 DEF SourcesAt, OutputsAt, Counters
    <3>2. {j \in 1..registered' : j \in SourcesAt(n)'} = {j \in 1..(registered + 1) : j \in SourcesAt(n)}
      BY <2>7, <3>1
    <3>3. Cardinality({j \in 1..registered' : j \in SourcesAt(n)'})
            = Cardinality({j \in 1..(registered + 1) : j \in SourcesAt(n)})
      BY <3>2, Zenon
    <3>4. PICK A : A = SourcesAt(n)
      OBVIOUS
    <3>5. /\ Cardinality({j \in 1..registered : j \in A}) \in Nat
          /\ Cardinality({j \in 1..(registered + 1) : j \in A})
               = Cardinality({j \in 1..registered : j \in A}) + IF i \in A THEN 1 ELSE 0
      BY <1>b, CountOn
    <3>6. Len(value_cbs[n]) = OutputsAt(n) + Cardinality({j \in 1..registered : j \in A})
      BY <1>a, <3>4 DEF FilledInv
    <3>7. Len(value_cbs'[n]) = Len(value_cbs[n]) + IF i \in A THEN 1 ELSE 0
      BY <2>5, <2>7, <3>4
    <3>8. OutputsAt(n) \in Nat
      BY <1>a, CountedElements
    <3>9. Cardinality({j \in 1..registered' : j \in SourcesAt(n)'})
            = Cardinality({j \in 1..(registered + 1) : j \in A})
      BY <3>3, <3>4
    <3> HIDE DEF i
    <3> QED
      BY <3>1, <3>5, <3>6, <3>7, <3>8, <3>9
  <2>9. FilledInv'
    BY <2>7, <2>8 DEF FilledInv, Registering
  <2>10. RegisterInv'
    BY <2>1, <2>7, <2>9 DEF RegisterInv
  <2> QED
    BY <2>7, <2>10 DEF ConfigInv
<1>2. CASE CountersRegistered
  <2>1. /\ registered = Len(counters) /\ pc' = "register_eval" /\ registered' = 0
        /\ UNCHANGED <<sections, table, produced, reader, elements, value_cbs, triggers, compiled>>
    BY <1>2 DEF CountersRegistered
  <2> USE DEF table, produced
  <2>2. ConfigTypeOK'
    <3>1. pc' \in Steps
      BY <2>1 DEF Steps, Registering
    <3>2. TableTypeOK'
      BY <1>a, <2>1, <3>1 DEF ConfigTypeOK, TableTypeOK
    <3>3. ElementsTypeOK'
      BY <1>a, <2>1, ConfigConstants DEF ConfigTypeOK, ElementsTypeOK
    <3> QED
      BY <3>2, <3>3 DEF ConfigTypeOK
  <2>3. ProducerInv' /\ SlotInv'
    BY <2>1, ProducersKept, SlotsKept DEF ConfigInv
  <2>4. ReaderInv'
    BY <2>1 DEF ConfigInv, ReaderInv, Counters
  <2>5. CheckInv'
    BY <1>a, <2>1 DEF ConfigInv, CheckInv, Reading, Registering, Chained, Counters,
                      DispatcherOK, InputProducer
  <2>6. CbInv'
    BY <2>1 DEF ConfigInv, CbInv, SourcesAt, Counters
  <2>7. ASSUME NEW n \in Names
        PROVE  Len(value_cbs'[n]) = OutputsAt(n)' + Cardinality(SourcesAt(n)')
                 + Cardinality({j \in 1..registered' : j \in TriggersAt(n)'})
    <3>1. SourcesAt(n)' = SourcesAt(n) /\ OutputsAt(n)' = OutputsAt(n)
      BY <2>1 DEF SourcesAt, OutputsAt, Counters
    <3>2. {j \in 1..registered' : j \in TriggersAt(n)'} = {}
      BY <2>1
    <3>3. Cardinality({j \in 1..registered' : j \in TriggersAt(n)'}) = 0
      BY <3>2, NoneCounted, Zenon
    <3>4. {j \in 1..registered : j \in SourcesAt(n)} = SourcesAt(n)
      BY <1>a, <1>c, <2>1, CountedElements
    <3>5. Cardinality({j \in 1..registered : j \in SourcesAt(n)}) = Cardinality(SourcesAt(n))
      BY <3>4, Zenon
    <3>6. Cardinality(SourcesAt(n)') = Cardinality(SourcesAt(n))
      BY <3>1, Zenon
    <3>7. Len(value_cbs[n]) = OutputsAt(n) + Cardinality({j \in 1..registered : j \in SourcesAt(n)})
      BY <1>a DEF FilledInv
    <3>8. Len(value_cbs'[n]) = OutputsAt(n) + Cardinality(SourcesAt(n))
      BY <2>1, <3>5, <3>7, Zenon
    <3>9. OutputsAt(n) \in Nat /\ Cardinality(SourcesAt(n)) \in Nat
      BY <1>a, CountedElements
    <3> QED
      BY <3>1, <3>3, <3>6, <3>8, <3>9
  <2>8. FilledInv'
    BY <2>1, <2>7 DEF FilledInv, Registering
  <2>9. Len(evals') \in Nat
    BY <2>2 DEF ConfigTypeOK, ElementsTypeOK
  <2>10. RegisterInv'
    BY <2>1, <2>8, <2>9 DEF RegisterInv
  <2> QED
    BY <2>2, <2>3, <2>4, <2>5, <2>6, <2>10 DEF ConfigInv
<1> QED
  BY <1>1, <1>2

LEMMA RegisterEvalInv ==
  ASSUME ConfigInv, RegisterEval \/ EvalsRegistered
  PROVE  ConfigInv'
<1>0. CASE Refuse
  BY <1>0, RefuseInv
<1> SUFFICES ASSUME ~Refuse PROVE ConfigInv'
  BY <1>0
<1> USE DEF elements
<1>a. ConfigTypeOK /\ FilledInv /\ pc = "register_eval" /\ pc \in Registering
  BY DEF ConfigInv, RegisterInv, RegisterEval, EvalsRegistered, Registering
<1>b. registered \in Nat /\ registered <= Len(evals)
  BY <1>a DEF ConfigInv, ConfigTypeOK, ElementsTypeOK, RegisterInv
<1>c. compiled = Len(evals) /\ Len(evals) \in Nat
  BY <1>a DEF ConfigInv, ConfigTypeOK, ElementsTypeOK, CheckInv
<1>1. CASE RegisterEval
  <2> DEFINE i == registered + 1
             s == triggers[i]
  <2>1. i \in 1..Len(evals) /\ Register(CbAt(s, <<"eval", i>>), "register_eval", i)
    BY <1>1, <1>a, <1>b DEF RegisterEval
  <2>2. s \in SUBSET Names /\ i \in 0..MaxSections /\ i \in Nat
    <3>1. triggers[i] \in SUBSET Names
      BY <1>a, <1>c, <2>1 DEF ConfigTypeOK, ElementsTypeOK
    <3>2. i \in 0..MaxSections /\ i \in Nat
      BY <1>a, <1>b, <2>1, ConfigConstants DEF ConfigTypeOK, ElementsTypeOK, TableTypeOK
    <3> QED
      BY <3>1, <3>2
  <2>3. \A n \in Names : i \in TriggersAt(n) <=> n \in s
    BY <1>c, <2>1 DEF TriggersAt
  <2> HIDE DEF s
  <2>4. s \in SUBSET Names /\ <<"eval", i>> \in Callbacks
    BY <2>2 DEF Callbacks
  <2> DEFINE cbs == CbAt(s, <<"eval", i>>)
  <2>5. ASSUME NEW n \in Names
        PROVE  /\ cbs[n] \in Seq(Callbacks)
               /\ Len(cbs[n]) = IF i \in TriggersAt(n) THEN 1 ELSE 0
               /\ \A j \in DOMAIN cbs[n] :
                    cbs[n][j][1] = "counter" => cbs[n][j][2] \in SourcesAt(n)
    <3>1. /\ cbs[n] \in Seq(Callbacks)
          /\ Len(cbs[n]) = IF n \in s THEN 1 ELSE 0
          /\ \A j \in DOMAIN cbs[n] : n \in s /\ cbs[n][j] = <<"eval", i>>
      BY <2>4, CbAtFacts
    <3> HIDE DEF cbs, i
    <3>2. Len(cbs[n]) = IF i \in TriggersAt(n) THEN 1 ELSE 0
      BY <2>3, <3>1
    <3>3. \A j \in DOMAIN cbs[n] : cbs[n][j][1] = "eval"
      BY <3>1
    <3> QED
      BY <3>1, <3>2, <3>3
  <2> HIDE DEF cbs
  <2>6. Register(cbs, "register_eval", i)
    BY <2>1 DEF cbs
  <2>7. /\ ConfigTypeOK' /\ ProducerInv' /\ ReaderInv' /\ CheckInv' /\ SlotInv' /\ CbInv'
        /\ pc' = "register_eval" /\ registered' = i
        /\ \A n \in Names : Len(value_cbs'[n]) = Len(value_cbs[n]) + Len(cbs[n])
        /\ outputs' = outputs /\ counters' = counters /\ evals' = evals
        /\ triggers' = triggers /\ compiled' = compiled
    BY <1>a, <2>2, <2>5, <2>6, RegisterKeeps
  <2>8. ASSUME NEW n \in Names
        PROVE  Len(value_cbs'[n]) = OutputsAt(n)' + Cardinality(SourcesAt(n)')
                 + Cardinality({j \in 1..registered' : j \in TriggersAt(n)'})
    <3>1. /\ TriggersAt(n)' = TriggersAt(n) /\ OutputsAt(n)' = OutputsAt(n)
          /\ SourcesAt(n)' = SourcesAt(n)
      BY <2>7 DEF TriggersAt, SourcesAt, OutputsAt, Counters
    <3>2. {j \in 1..registered' : j \in TriggersAt(n)'} = {j \in 1..(registered + 1) : j \in TriggersAt(n)}
      BY <2>7, <3>1
    <3>3. Cardinality({j \in 1..registered' : j \in TriggersAt(n)'})
            = Cardinality({j \in 1..(registered + 1) : j \in TriggersAt(n)})
      BY <3>2, Zenon
    <3>4. PICK A : A = TriggersAt(n)
      OBVIOUS
    <3>5. /\ Cardinality({j \in 1..registered : j \in A}) \in Nat
          /\ Cardinality({j \in 1..(registered + 1) : j \in A})
               = Cardinality({j \in 1..registered : j \in A}) + IF i \in A THEN 1 ELSE 0
      BY <1>b, CountOn
    <3>6. Len(value_cbs[n]) = OutputsAt(n) + Cardinality(SourcesAt(n))
                                + Cardinality({j \in 1..registered : j \in A})
      BY <1>a, <3>4 DEF FilledInv
    <3>7. Len(value_cbs'[n]) = Len(value_cbs[n]) + IF i \in A THEN 1 ELSE 0
      BY <2>5, <2>7, <3>4
    <3>8. OutputsAt(n) \in Nat /\ Cardinality(SourcesAt(n)) \in Nat
      BY <1>a, CountedElements
    <3>10. Cardinality(SourcesAt(n)') = Cardinality(SourcesAt(n))
      BY <3>1, Zenon
    <3>9. Cardinality({j \in 1..registered' : j \in TriggersAt(n)'})
            = Cardinality({j \in 1..(registered + 1) : j \in A})
      BY <3>3, <3>4
    <3> HIDE DEF i
    <3> QED
      BY <3>1, <3>5, <3>6, <3>7, <3>8, <3>9, <3>10
  <2>9. FilledInv'
    BY <2>7, <2>8 DEF FilledInv, Registering
  <2>10. RegisterInv'
    BY <2>1, <2>7, <2>9 DEF RegisterInv
  <2> QED
    BY <2>7, <2>10 DEF ConfigInv
<1>2. CASE EvalsRegistered
  <2>1. /\ registered = Len(evals) /\ pc' = "running" /\ registered' = 0
        /\ UNCHANGED <<sections, table, produced, reader, elements, value_cbs, triggers, compiled>>
    BY <1>2 DEF EvalsRegistered
  <2> USE DEF table, produced
  <2>2. ConfigTypeOK'
    <3>1. pc' \in Steps
      BY <2>1 DEF Steps
    <3>2. TableTypeOK'
      BY <1>a, <2>1, <3>1 DEF ConfigTypeOK, TableTypeOK
    <3>3. ElementsTypeOK'
      BY <1>a, <2>1, ConfigConstants DEF ConfigTypeOK, ElementsTypeOK
    <3> QED
      BY <3>2, <3>3 DEF ConfigTypeOK
  <2>3. ProducerInv' /\ SlotInv'
    BY <2>1, ProducersKept, SlotsKept DEF ConfigInv
  <2>4. ReaderInv'
    BY <2>1 DEF ConfigInv, ReaderInv, Counters
  <2>5. CheckInv'
    BY <1>a, <2>1 DEF ConfigInv, CheckInv, Reading, Registering, Chained, Counters,
                      DispatcherOK, InputProducer
  <2>6. CbInv'
    BY <2>1 DEF ConfigInv, CbInv, SourcesAt, Counters
  <2>7. ASSUME NEW n \in Names
        PROVE  Len(value_cbs'[n]) = value_count'[n]
    <3>1. {j \in 1..registered : j \in TriggersAt(n)} = TriggersAt(n)
      BY <1>a, <1>c, <2>1, CountedElements
    <3>2. Cardinality({j \in 1..registered : j \in TriggersAt(n)}) = Cardinality(TriggersAt(n))
      BY <3>1, Zenon
    <3>3. Len(value_cbs[n]) = OutputsAt(n) + Cardinality(SourcesAt(n))
                                + Cardinality({j \in 1..registered : j \in TriggersAt(n)})
      BY <1>a DEF FilledInv
    <3>4. value_count[n] = OutputsAt(n) + Cardinality(SourcesAt(n)) + Cardinality(TriggersAt(n))
      BY DEF ConfigInv, SlotInv
    <3> QED
      BY <2>1, <3>2, <3>3, <3>4, Zenon
  <2>8. RegisterInv'
    BY <2>1, <2>7 DEF RegisterInv, FilledInv, Registering
  <2> QED
    BY <2>2, <2>3, <2>4, <2>5, <2>6, <2>8 DEF ConfigInv
<1> QED
  BY <1>1, <1>2

\* A step of the load, or of the running program, which leaves it alone.
LEMMA NextConfigInv == ConfigInv /\ [ConfigNext]_configVars => ConfigInv'
<1> SUFFICES ASSUME ConfigInv, [ConfigNext]_configVars PROVE ConfigInv'
  OBVIOUS
<1>1. ASSUME NEW n \in Names, NEW dir \in Dirs, NEW timeout \in BOOLEAN,
             CanValue(n, dir, timeout) \/ MbValue(n, dir, timeout)
               \/ MqttValue(n, dir, timeout)
      PROVE  ConfigInv'
  <2>1. PICK m \in OutModules : ReadValue(m, n, dir, timeout)
    BY <1>1 DEF CanValue, MbValue, MqttValue, OutModules
  <2>2. m \in InModules
    BY DEF InModules
  <2> QED
    BY <2>1, <2>2, OutputInv, InputInv DEF ReadValue
<1>2. ASSUME NEW n \in Names, LoggerValue(n) PROVE ConfigInv'
  BY <1>2, ReadOnDemandInv
<1>3. ASSUME NEW n \in Names, NEW timeout \in BOOLEAN, RestValue(n, timeout)
      PROVE  ConfigInv'
  <2>1. "rest" \in InModules
    BY DEF InModules
  <2> QED
    BY <1>3, <2>1, InputInv DEF RestValue
<1>4. ASSUME NEW n \in Names, NEW power \in BOOLEAN, MeterSource(n, power)
      PROVE  ConfigInv'
  BY <1>4, ReadOnDemandInv
<1>5. ASSUME NEW n \in Names, NEW s \in Names, NEW integrate \in BOOLEAN,
             CounterOne(n, s, integrate)
      PROVE  ConfigInv'
  BY <1>5, CounterInv
<1>6. ASSUME NEW n \in Names, NEW reads \in UpTo(MaxReads), NEW ts \in UpTo(MaxTriggers),
             NEW period \in BOOLEAN, EvalOne(n, reads, ts, period)
      PROVE  ConfigInv'
  BY <1>6, EvalInv DEF UpTo
<1>7. CASE SectionRefused
  BY <1>7, RefuseInv DEF SectionRefused, CanRefused, MbRefused, MqttRefused, RestRefused,
                         SunspecRefused, CounterRefused, EvalRefused
<1>8. CASE ModuleDone \/ CounterDone \/ EvalsDone
  BY <1>8, EarlyProgressInv
<1>9. CASE CompileEval \/ CheckDispatchers
  BY <1>9, CompileInv, CheckDispatchersInv
<1>10. CASE RegisterCan \/ RegisterMb \/ RegisterMqtt
  BY <1>10, RegisterOutputsInv
<1>11. CASE RegisterCounter \/ CountersRegistered
  BY <1>11, RegisterCounterInv
<1>12. CASE RegisterEval \/ EvalsRegistered
  BY <1>12, RegisterEvalInv
<1>13. CASE UNCHANGED configVars
  <2> USE <1>13 DEF configVars, table, produced, elements, callbacks
  <2>1. ConfigTypeOK'
    BY DEF ConfigInv, ConfigTypeOK, TableTypeOK, ElementsTypeOK
  <2>2. ProducerInv' /\ SlotInv'
    BY ProducersKept, SlotsKept DEF ConfigInv
  <2>3. ReaderInv' /\ CheckInv'
    BY DEF ConfigInv, ReaderInv, CheckInv, Chained, Counters, DispatcherOK, InputProducer
  <2>4. RegisterInv'
    <3>1. ASSUME NEW n \in Names
          PROVE  /\ SourcesAt(n)' = SourcesAt(n) /\ OutputsAt(n)' = OutputsAt(n)
                 /\ {i \in 1..registered' : i \in SourcesAt(n)'}
                      = {i \in 1..registered : i \in SourcesAt(n)}
                 /\ {i \in 1..registered' : i \in TriggersAt(n)'}
                      = {i \in 1..registered : i \in TriggersAt(n)}
      BY DEF OutputsAt, SourcesAt, TriggersAt, Counters
    <3>2. ASSUME NEW n \in Names
          PROVE  /\ Cardinality(SourcesAt(n)') = Cardinality(SourcesAt(n))
                 /\ OutputsAt(n)' = OutputsAt(n)
                 /\ Cardinality({i \in 1..registered' : i \in SourcesAt(n)'})
                      = Cardinality({i \in 1..registered : i \in SourcesAt(n)})
                 /\ Cardinality({i \in 1..registered' : i \in TriggersAt(n)'})
                      = Cardinality({i \in 1..registered : i \in TriggersAt(n)})
      BY <3>1, Zenon
    <3>3. FilledInv'
      BY <3>2 DEF ConfigInv, RegisterInv, FilledInv
    <3> QED
      BY <3>3 DEF ConfigInv, RegisterInv
  <2>5. CbInv'
    BY DEF ConfigInv, CbInv, SourcesAt, Counters
  <2> QED
    BY <2>1, <2>2, <2>3, <2>4, <2>5 DEF ConfigInv
<1> QED
  BY <1>1, <1>2, <1>3, <1>4, <1>5, <1>6, <1>7, <1>8, <1>9, <1>10, <1>11, <1>12, <1>13
     DEF ConfigNext

\* The running program does not change the configuration.
LEMMA RunningConfig == [Next]_vars => [ConfigNext]_configVars
BY DEF Next, vars, lockVars, InputArrives, Lock, FireCb, DispDone, TotalDispatched,
       TotalKept, CounterUnlock, TriggerDone, CounterPublish, ThreadTick, EvalStarts,
       Evaluate, EvalWait

LEMMA ConfigInvHolds == Spec => []ConfigInv
<1>1. Init => ConfigInv
  BY InitConfigInv DEF Init
<1>2. ConfigInv /\ [Next]_vars => ConfigInv'
  BY NextConfigInv, RunningConfig
<1> QED
  BY <1>1, <1>2, PTL DEF Spec

\* Whatever the file says, and in whatever order: a program that runs has one
\* publisher for each name, and no power it integrates or serves is read from an
\* input that may freeze; powers computed by an eval are not checked
\* (uvrgw_conf_set_producer(), check_dispatchers()).
THEOREM AcceptedSourcesAreSound == Spec => []SourcesAreSound
<1>1. ConfigInv => SourcesAreSound
  <2> SUFFICES ASSUME ConfigInv, pc = "running"
               PROVE  /\ \A n \in known : Publishers(n) = 1
                      /\ \A n \in power_readers \cup {counters[i].source : i \in
                                        {j \in Counters : counters[j].integrate}} :
                           inputs[n] > 0 => n \in stale
    BY DEF SourcesAreSound, OneProducer, PowerCannotFreeze
  <2>1. \A n \in known : n \in Names /\ DispatcherOK(n)
    BY DEF ConfigInv, ConfigTypeOK, TableTypeOK, CheckInv
  <2>2. ASSUME NEW n \in known PROVE Publishers(n) = 1
    BY <2>1 DEF ConfigInv, ProducerInv, DispatcherOK, Publishers, CountersOf, EvalsOf
  <2>3. power_readers \cup {counters[i].source : i \in {j \in Counters : counters[j].integrate}}
          \subseteq reader
    BY DEF ConfigInv, ReaderInv
  <2>4. ASSUME NEW n \in reader, inputs[n] > 0 PROVE n \in stale
    <3>1. n \in known
      BY DEF ConfigInv, ConfigTypeOK, TableTypeOK
    <3>2. InputProducer(n)
      BY <2>1, <2>4, <3>1 DEF ConfigInv, ProducerInv
    <3> QED
      BY <2>1, <3>1, <3>2 DEF DispatcherOK
  <2> QED
    BY <2>2, <2>3, <2>4
<1> QED
  BY <1>1, ConfigInvHolds, PTL

\* The slots counted in the first passes are those filled in the last one, for
\* any number of sections: uvrgw_conf_register_disp_cb() never runs out of them
\* and leaves none empty.
THEOREM SlotsAreExact == Spec => []SlotsFilled
<1>1. ConfigInv => SlotsFilled
  <2> SUFFICES ASSUME ConfigInv, NEW n \in Names
               PROVE  /\ pc \in Registering \cup {"running"} => value_count[n] = Wants(n)
                      /\ pc = "running" => Len(value_cbs[n]) = value_count[n]
    BY DEF SlotsFilled
  <2>1. ASSUME pc \in Registering \cup {"running"} PROVE value_count[n] = Wants(n)
    <3>1. compiled = Len(evals) /\ DOMAIN evals = 1..Len(evals)
      BY <2>1 DEF ConfigInv, CheckInv, ConfigTypeOK, ElementsTypeOK
    <3>2. {i \in Evals : n \in triggers[i]} = TriggersAt(n)
      BY <3>1 DEF Evals, TriggersAt
    <3>3. Cardinality({i \in Evals : n \in triggers[i]}) = Cardinality(TriggersAt(n))
      BY <3>2, Zenon
    <3>4. value_count[n] = OutputsAt(n) + Cardinality(SourcesAt(n)) + Cardinality(TriggersAt(n))
      BY DEF ConfigInv, SlotInv
    <3> QED
      BY <3>3, <3>4 DEF Wants, OutputsAt, SourcesAt
  <2>2. pc = "running" => Len(value_cbs[n]) = value_count[n]
    BY DEF ConfigInv, RegisterInv, FilledInv
  <2> QED
    BY <2>1, <2>2
<1> QED
  BY <1>1, ConfigInvHolds, PTL


-----------------------------------------------------------------------------
(***************************************************************************)
(* Locks.  They are taken in the order of their rank: a name of an input   *)
(* or eval, a counter, the name of its total, the eval lock.  The operators *)
(* take the counters as an argument: they do not change while threads run. *)
(***************************************************************************)
IsTotal(cs, n) == \E i \in DOMAIN cs : cs[i].name = n

Rank(cs, l) ==
  IF l[1] = "eval" THEN 4
  ELSE IF l[1] = "counter" THEN 2
  ELSE IF IsTotal(cs, l[2]) THEN 3 ELSE 1

CallRecord == [fn : {"disp_val", "source_update", "trigger_update", "eval_thread"},
               lock : Locks, arg : Names \cup Nat, at : Nat]

CallOK(cs, c) ==
  \/ c.fn = "disp_val" /\ c.arg \in Names /\ c.lock = NameLock(c.arg)
  \/ c.fn = "source_update" /\ c.arg \in DOMAIN cs /\ c.lock = CounterLock(c.arg)
  \/ c.fn \in {"trigger_update", "eval_thread"} /\ c.lock = EvalLock

\* The calls of a stack, each above the locks that are held below it.
Ordered(cs, s) ==
  /\ s \in Seq(CallRecord)
  /\ \A k \in 1..Len(s) : CallOK(cs, s[k]) /\ (s[k].fn = "eval_thread" => k = 1)
  /\ \A j, k \in 1..Len(s) :
       j < k /\ s[j].at > 0 => Rank(cs, s[j].lock) < Rank(cs, s[k].lock)

Holds(s, l) == \E k \in 1..Len(s) : s[k].lock = l /\ s[k].at > 0

LockInv ==
  /\ owner \in [Locks -> Threads \cup {NoOne}]
  /\ stack \in [Threads -> Seq(CallRecord)]
  /\ published \in Nat
  /\ \A t \in Threads : Ordered(counters, stack[t])
  /\ \A t \in Threads : \A l \in Locks : owner[l] = t => Holds(stack[t], l)
  /\ pc # "running" => \A t \in Threads : stack[t] = <<>>

LEMMA RankRange ==
  ASSUME NEW cs, NEW l
  PROVE  Rank(cs, l) \in 1..4
BY DEF Rank

LEMMA RanksOfLocks ==
  ASSUME NEW cs, NEW n, NEW i
  PROVE  /\ Rank(cs, EvalLock) = 4 /\ Rank(cs, CounterLock(i)) = 2
         /\ IsTotal(cs, n) => Rank(cs, NameLock(n)) = 3
         /\ ~IsTotal(cs, n) => Rank(cs, NameLock(n)) = 1
<1>1. EvalLock[1] = "eval" /\ CounterLock(i)[1] = "counter"
  BY DEF EvalLock, CounterLock
<1>2. NameLock(n)[1] = "name" /\ NameLock(n)[2] = n
  BY DEF NameLock
<1>3. Rank(cs, EvalLock) = 4
  BY <1>1 DEF Rank
<1>4. Rank(cs, CounterLock(i)) = 2
  BY <1>1 DEF Rank
<1>5. Rank(cs, NameLock(n)) = IF IsTotal(cs, n) THEN 3 ELSE 1
  BY <1>2 DEF Rank
<1> QED
  BY <1>3, <1>4, <1>5

\* The calls that are made.
LEMMA Calls ==
  ASSUME NEW cs, NEW n \in Names, NEW i \in DOMAIN cs, i \in 1..MaxSections
  PROVE  /\ DispVal(n) \in CallRecord /\ CallOK(cs, DispVal(n))
         /\ DispVal(n).fn = "disp_val" /\ DispVal(n).lock = NameLock(n)
         /\ SourceUpdate(i) \in CallRecord /\ CallOK(cs, SourceUpdate(i))
         /\ SourceUpdate(i).fn = "source_update" /\ SourceUpdate(i).lock = CounterLock(i)
<1>1. NameLock(n) \in Locks /\ CounterLock(i) \in Locks
  BY DEF Locks
<1>2. i \in Nat
  BY ConfigConstants
<1> QED
  BY <1>1, <1>2 DEF DispVal, SourceUpdate, Call, CallRecord, CallOK

LEMMA EvalCalls ==
  ASSUME NEW cs
  PROVE  /\ TriggerUpdate \in CallRecord /\ CallOK(cs, TriggerUpdate)
         /\ TriggerUpdate.fn = "trigger_update" /\ TriggerUpdate.lock = EvalLock
         /\ EvalLoop \in CallRecord /\ CallOK(cs, EvalLoop)
<1>1. EvalLock \in Locks
  BY DEF Locks
<1> QED
  BY <1>1 DEF TriggerUpdate, EvalLoop, Call, CallRecord, CallOK

LEMMA DispValCall ==
  ASSUME NEW cs, NEW n \in Names
  PROVE  /\ DispVal(n) \in CallRecord /\ CallOK(cs, DispVal(n))
         /\ DispVal(n).fn = "disp_val" /\ DispVal(n).lock = NameLock(n)
<1>1. NameLock(n) \in Locks
  BY DEF Locks
<1> QED
  BY <1>1 DEF DispVal, Call, CallRecord, CallOK

-----------------------------------------------------------------------------
(***************************************************************************)
(* What the steps do to a stack s: begin, pop, move on, push.              *)
(***************************************************************************)
Without(s)  == SubSeq(s, 1, Len(s) - 1)
MovedTo(s, k) == Append(Without(s), [s[Len(s)] EXCEPT !.at = k])

LEMMA WithoutFacts ==
  ASSUME NEW s \in Seq(CallRecord), s # <<>>
  PROVE  /\ Len(s) \in Nat /\ Len(s) > 0
         /\ Without(s) \in Seq(CallRecord) /\ Len(Without(s)) = Len(s) - 1
         /\ \A k \in 1..(Len(s) - 1) : Without(s)[k] = s[k]
<1>1. Len(s) \in Nat /\ Len(s) > 0
  OBVIOUS
<1>2. /\ SubSeq(s, 1, Len(s) - 1) \in Seq(CallRecord)
      /\ Len(SubSeq(s, 1, Len(s) - 1)) = Len(s) - 1
  <2>1. Len(s) - 1 \in Int /\ \A i \in 1..(Len(s) - 1) : s[i] \in CallRecord
    BY <1>1
  <2>2. /\ SubSeq(s, 1, Len(s) - 1) \in Seq(CallRecord)
        /\ Len(SubSeq(s, 1, Len(s) - 1))
             = IF 1 <= Len(s) - 1 THEN (Len(s) - 1) - 1 + 1 ELSE 0
    BY <2>1, SubSeqProperties
  <2>3. PICK u : u = Len(SubSeq(s, 1, Len(s) - 1))
    OBVIOUS
  <2>4. u = IF 1 <= Len(s) - 1 THEN (Len(s) - 1) - 1 + 1 ELSE 0
    BY <2>2, <2>3, Zenon
  <2>5. u = Len(s) - 1
    <3>1. PICK n \in Nat : n = Len(s) /\ n > 0
      BY <1>1
    <3>2. u = IF 1 <= n - 1 THEN (n - 1) - 1 + 1 ELSE 0
      BY <2>4, <3>1, Zenon
    <3>3. u = n - 1
      <4>1. CASE n = 1
        BY <3>2, <4>1
      <4>2. CASE n > 1
        BY <3>2, <4>2
      <4> QED
        BY <3>1, <4>1, <4>2
    <3> QED
      BY <3>1, <3>3
  <2> QED
    BY <2>2, <2>3, <2>5, Zenon
<1>3. \A k \in 1..(Len(s) - 1) : SubSeq(s, 1, Len(s) - 1)[k] = s[k]
  BY <1>1
<1> QED
  BY <1>1, <1>2, <1>3 DEF Without

LEMMA MovedFacts ==
  ASSUME NEW s \in Seq(CallRecord), s # <<>>, NEW a \in Nat
  PROVE  /\ MovedTo(s, a) \in Seq(CallRecord) /\ Len(MovedTo(s, a)) = Len(s)
         /\ \A k \in 1..(Len(s) - 1) : MovedTo(s, a)[k] = s[k]
         /\ MovedTo(s, a)[Len(s)] = [s[Len(s)] EXCEPT !.at = a]
         /\ MovedTo(s, a) # <<>>
<1>1. s[Len(s)] \in CallRecord
  BY WithoutFacts
<1>2. [s[Len(s)] EXCEPT !.at = a] \in CallRecord
  BY <1>1 DEF CallRecord
<1> QED
  BY <1>2, WithoutFacts DEF MovedTo

LEMMA MovedCalls ==
  ASSUME NEW s \in Seq(CallRecord), s # <<>>, NEW a \in Nat, NEW k \in 1..Len(s)
  PROVE  /\ MovedTo(s, a)[k].fn = s[k].fn /\ MovedTo(s, a)[k].lock = s[k].lock
         /\ MovedTo(s, a)[k].arg = s[k].arg
         /\ MovedTo(s, a)[k].at = IF k = Len(s) THEN a ELSE s[k].at
<1>1. s[k] \in CallRecord /\ Len(s) \in Nat
  OBVIOUS
<1>2. CASE k = Len(s)
  <2>1. MovedTo(s, a)[k] = [s[k] EXCEPT !.at = a]
    BY <1>2, MovedFacts
  <2> QED
    BY <1>1, <1>2, <2>1 DEF CallRecord
<1>3. CASE k # Len(s)
  <2>1. k \in 1..(Len(s) - 1)
    BY <1>1, <1>3
  <2>2. MovedTo(s, a)[k] = s[k]
    BY <2>1, MovedFacts
  <2> QED
    BY <1>3, <2>2
<1> QED
  BY <1>2, <1>3

LEMMA BeginOrdered ==
  ASSUME NEW cs, NEW c \in CallRecord, CallOK(cs, c)
  PROVE  Ordered(cs, <<c>>)
<1>1. <<c>> \in Seq(CallRecord) /\ Len(<<c>>) = 1 /\ <<c>>[1] = c
  OBVIOUS
<1>2. 1..1 = {1}
  OBVIOUS
<1> QED
  BY <1>1, <1>2 DEF Ordered

LEMMA WithoutOrdered ==
  ASSUME NEW cs, NEW s \in Seq(CallRecord), s # <<>>, Ordered(cs, s)
  PROVE  Ordered(cs, Without(s))
<1> DEFINE u == Without(s)
<1>1. /\ u \in Seq(CallRecord) /\ Len(u) = Len(s) - 1 /\ Len(s) \in Nat
      /\ \A k \in 1..Len(u) : k \in 1..Len(s) /\ u[k] = s[k]
  BY WithoutFacts
<1> HIDE DEF u
<1>2. \A k \in 1..Len(u) : CallOK(cs, u[k]) /\ (u[k].fn = "eval_thread" => k = 1)
  BY <1>1 DEF Ordered
<1>3. ASSUME NEW j \in 1..Len(u), NEW k \in 1..Len(u), j < k, u[j].at > 0
      PROVE  Rank(cs, u[j].lock) < Rank(cs, u[k].lock)
  BY <1>1, <1>3 DEF Ordered
<1>4. Ordered(cs, u)
  BY <1>1, <1>2, <1>3 DEF Ordered
<1> QED
  BY <1>4 DEF u

LEMMA MovedOrdered ==
  ASSUME NEW cs, NEW s \in Seq(CallRecord), s # <<>>, Ordered(cs, s), NEW a \in Nat
  PROVE  Ordered(cs, MovedTo(s, a))
<1> DEFINE u == MovedTo(s, a)
<1>1. u \in Seq(CallRecord) /\ Len(u) = Len(s) /\ Len(s) \in Nat
  BY MovedFacts, WithoutFacts
<1>2. \A k \in 1..Len(s) : /\ u[k].fn = s[k].fn /\ u[k].lock = s[k].lock /\ u[k].arg = s[k].arg
                           /\ u[k].at = IF k = Len(s) THEN a ELSE s[k].at
  BY MovedCalls
<1> HIDE DEF u
<1>3. \A k \in 1..Len(u) : CallOK(cs, u[k]) /\ (u[k].fn = "eval_thread" => k = 1)
  BY <1>1, <1>2 DEF Ordered, CallOK
<1>4. ASSUME NEW j \in 1..Len(u), NEW k \in 1..Len(u), j < k, u[j].at > 0
      PROVE  Rank(cs, u[j].lock) < Rank(cs, u[k].lock)
  <2>1. j # Len(s)
    BY <1>1, <1>4
  <2>2. s[j].at > 0 /\ u[j].lock = s[j].lock /\ u[k].lock = s[k].lock
    BY <1>1, <1>2, <1>4, <2>1
  <2> QED
    BY <1>1, <1>4, <2>2 DEF Ordered
<1>5. Ordered(cs, u)
  BY <1>1, <1>3, <1>4 DEF Ordered
<1> QED
  BY <1>5 DEF u

\* A call may be pushed if its lock is above the one below it, or if nothing
\* is held.
LEMMA PushOrdered ==
  ASSUME NEW cs, NEW s \in Seq(CallRecord), s # <<>>, Ordered(cs, s),
         NEW c \in CallRecord, CallOK(cs, c), c.fn # "eval_thread",
         \/ s[Len(s)].at > 0 /\ Rank(cs, s[Len(s)].lock) < Rank(cs, c.lock)
         \/ Len(s) = 1 /\ s[1].at = 0
  PROVE  Ordered(cs, s \o <<c>>)
<1> DEFINE u == s \o <<c>>
<1>1. /\ u \in Seq(CallRecord) /\ Len(u) = Len(s) + 1 /\ Len(s) \in Nat /\ Len(s) > 0
      /\ \A k \in 1..Len(s) : u[k] = s[k]
      /\ u[Len(s) + 1] = c
  BY WithoutFacts
<1> HIDE DEF u
<1>2. \A k \in 1..Len(u) : CallOK(cs, u[k]) /\ (u[k].fn = "eval_thread" => k = 1)
  <2> SUFFICES ASSUME NEW k \in 1..Len(u)
               PROVE  CallOK(cs, u[k]) /\ (u[k].fn = "eval_thread" => k = 1)
    OBVIOUS
  <2>1. CASE k = Len(s) + 1
    BY <1>1, <2>1
  <2>2. CASE k # Len(s) + 1
    <3>1. k \in 1..Len(s)
      BY <1>1, <2>2
    <3> QED
      BY <1>1, <3>1 DEF Ordered
  <2> QED
    BY <2>1, <2>2
<1>3. ASSUME NEW j \in 1..Len(u), NEW k \in 1..Len(u), j < k, u[j].at > 0
      PROVE  Rank(cs, u[j].lock) < Rank(cs, u[k].lock)
  <2>1. j \in 1..Len(s) /\ u[j] = s[j]
    BY <1>1, <1>3
  <2>2. CASE k # Len(s) + 1
    <3>1. k \in 1..Len(s) /\ u[k] = s[k]
      BY <1>1, <2>2
    <3> QED
      BY <1>3, <2>1, <3>1 DEF Ordered
  <2>3. CASE k = Len(s) + 1
    <3>1. ~(Len(s) = 1 /\ s[1].at = 0)
      <4>1. ASSUME Len(s) = 1, s[1].at = 0 PROVE FALSE
        <5>1. j = 1
          BY <2>1, <4>1
        <5>2. u[j].at = 0
          BY <2>1, <4>1, <5>1
        <5> QED
          BY <1>3, <5>2
      <4> QED
        BY <4>1
    <3>2. Rank(cs, s[Len(s)].lock) < Rank(cs, c.lock) /\ u[k] = c
      BY <1>1, <2>3, <3>1
    <3>3. CASE j = Len(s)
      BY <2>1, <3>2, <3>3
    <3>4. CASE j < Len(s)
      <4>1. Len(s) \in 1..Len(s)
        BY <1>1
      <4>2. Rank(cs, s[j].lock) < Rank(cs, s[Len(s)].lock)
        BY <1>3, <2>1, <3>4, <4>1 DEF Ordered
      <4>3. /\ Rank(cs, s[j].lock) \in 1..4 /\ Rank(cs, s[Len(s)].lock) \in 1..4
            /\ Rank(cs, c.lock) \in 1..4
        BY RankRange
      <4> QED
        BY <2>1, <3>2, <4>2, <4>3
    <3> QED
      BY <1>1, <2>1, <3>3, <3>4
  <2> QED
    BY <2>2, <2>3
<1>4. Ordered(cs, u)
  BY <1>1, <1>2, <1>3 DEF Ordered
<1> QED
  BY <1>4 DEF u

\* What a stack holds after it.
LEMMA StillHeld ==
  ASSUME NEW s \in Seq(CallRecord), s # <<>>, NEW l, Holds(s, l)
  PROVE  /\ s[Len(s)].lock # l => Holds(Without(s), l)
         /\ \A a \in Nat : a > 0 \/ s[Len(s)].lock # l => Holds(MovedTo(s, a), l)
         /\ \A c \in CallRecord : Holds(s \o <<c>>, l)
<1>1. PICK k \in 1..Len(s) : s[k].lock = l /\ s[k].at > 0
  BY DEF Holds
<1>2. Len(s) \in Nat /\ Len(s) > 0
  BY WithoutFacts
<1>3. ASSUME s[Len(s)].lock # l PROVE Holds(Without(s), l)
  <2>1. k \in 1..(Len(s) - 1)
    BY <1>1, <1>2, <1>3
  <2>2. Without(s)[k] = s[k] /\ k \in 1..Len(Without(s))
    BY <2>1, WithoutFacts
  <2> QED
    BY <1>1, <2>2 DEF Holds
<1>4. ASSUME NEW a \in Nat, a > 0 \/ s[Len(s)].lock # l PROVE Holds(MovedTo(s, a), l)
  <2>1. /\ MovedTo(s, a)[k].lock = s[k].lock
        /\ MovedTo(s, a)[k].at = IF k = Len(s) THEN a ELSE s[k].at
    BY MovedCalls
  <2>2. Len(MovedTo(s, a)) = Len(s)
    BY MovedFacts
  <2>3. MovedTo(s, a)[k].at > 0
    BY <1>1, <1>4, <2>1
  <2> QED
    BY <1>1, <2>1, <2>2, <2>3 DEF Holds
<1>5. ASSUME NEW c \in CallRecord PROVE Holds(s \o <<c>>, l)
  <2>1. (s \o <<c>>)[k] = s[k] /\ k \in 1..Len(s \o <<c>>)
    BY <1>2
  <2> QED
    BY <1>1, <2>1 DEF Holds
<1> QED
  BY <1>3, <1>4, <1>5

-----------------------------------------------------------------------------
(***************************************************************************)
(* The steps of the threads.                                               *)
(***************************************************************************)
LEMMA StackStep ==
  ASSUME LockInv, pc = "running", UNCHANGED configVars,
         NEW t \in Threads, NEW u \in Seq(CallRecord), stack' = [stack EXCEPT ![t] = u],
         Ordered(counters, u), published' \in Nat,
         owner' \in [Locks -> Threads \cup {NoOne}],
         \A l \in Locks : owner'[l] = t => Holds(u, l),
         \A l \in Locks : \A v \in Threads : v # t /\ owner'[l] = v => owner[l] = v
  PROVE  LockInv'
<1>1. stack' \in [Threads -> Seq(CallRecord)]
  BY DEF LockInv
<1>2. stack'[t] = u /\ \A v \in Threads : v # t => stack'[v] = stack[v]
  BY DEF LockInv
<1>3. counters' = counters /\ pc' = "running"
  BY DEF configVars, elements
<1>4. \A v \in Threads : Ordered(counters', stack'[v])
  BY <1>2, <1>3 DEF LockInv
<1>5. \A v \in Threads : \A l \in Locks : owner'[l] = v => Holds(stack'[v], l)
  <2> SUFFICES ASSUME NEW v \in Threads, NEW l \in Locks, owner'[l] = v
               PROVE  Holds(stack'[v], l)
    OBVIOUS
  <2>1. CASE v = t
    BY <1>2, <2>1
  <2>2. CASE v # t
    BY <1>2, <2>2 DEF LockInv
  <2> QED
    BY <2>1, <2>2
<1> QED
  BY <1>1, <1>3, <1>4, <1>5 DEF LockInv

\* The stack of a thread that is in a call.
LEMMA InCallFacts ==
  ASSUME LockInv, NEW t \in Threads, stack[t] # <<>>
  PROVE  /\ stack[t] \in Seq(CallRecord) /\ Ordered(counters, stack[t])
         /\ Top(t) \in CallRecord /\ CallOK(counters, Top(t))
         /\ Top(t).at \in Nat /\ Top(t).lock \in Locks
         /\ Top(t) = stack[t][Len(stack[t])]
         /\ Popped(t) = Without(stack[t])
         /\ \A a : Moved(t, a) = MovedTo(stack[t], a)
         /\ Len(stack[t]) \in Nat /\ Len(stack[t]) > 0
         /\ pc = "running"
<1>1. stack[t] \in Seq(CallRecord) /\ Ordered(counters, stack[t])
  BY DEF LockInv
<1>2. Len(stack[t]) \in Nat /\ Len(stack[t]) > 0
  BY <1>1, WithoutFacts
<1>3. Top(t) \in CallRecord /\ CallOK(counters, Top(t))
  BY <1>1, <1>2 DEF Top, Ordered
<1>4. Top(t).at \in Nat /\ Top(t).lock \in Locks
  BY <1>3 DEF CallRecord
<1>5. pc = "running"
  BY DEF LockInv
<1> QED
  BY <1>1, <1>2, <1>3, <1>4, <1>5 DEF Top, Popped, Moved, Without, MovedTo

\* An idle thread begins a call.
LEMMA BeginInv ==
  ASSUME LockInv, NEW t \in Threads, Idle(t), NEW c \in CallRecord, CallOK(counters, c),
         SetStack(t, <<c>>), UNCHANGED <<configVars, owner>>, published' \in Nat
  PROVE  LockInv'
<1>1. \A l \in Locks : owner[l] # t
  <2> SUFFICES ASSUME NEW l \in Locks, owner[l] = t PROVE FALSE
    OBVIOUS
  <2>1. Holds(stack[t], l)
    BY DEF LockInv
  <2>2. Len(stack[t]) = 0
    BY DEF Idle
  <2> QED
    BY <2>1, <2>2 DEF Holds
<1>2. <<c>> \in Seq(CallRecord) /\ Ordered(counters, <<c>>)
  BY BeginOrdered
<1> QED
  BY <1>1, <1>2, StackStep DEF Idle, SetStack, LockInv

\* A call ends and its lock is released.
LEMMA ReturnInv ==
  ASSUME LockInv, NEW t \in Threads, stack[t] # <<>>, SetStack(t, Popped(t)),
         Release(Top(t).lock), UNCHANGED <<configVars, published>>
  PROVE  LockInv'
<1> DEFINE u == Without(stack[t])
           l0 == Top(t).lock
<1>1. u \in Seq(CallRecord) /\ Ordered(counters, u) /\ stack' = [stack EXCEPT ![t] = u]
  BY InCallFacts, WithoutFacts, WithoutOrdered DEF SetStack
<1>2. l0 \in Locks /\ owner' = [owner EXCEPT ![l0] = NoOne]
  BY InCallFacts DEF Release
<1> HIDE DEF u, l0
<1>3. owner' \in [Locks -> Threads \cup {NoOne}] /\ owner'[l0] = NoOne
  BY <1>2 DEF LockInv
<1>4. \A l \in Locks : l # l0 => owner'[l] = owner[l]
  BY <1>2 DEF LockInv
<1>5. \A l \in Locks : owner'[l] # NoOne => l # l0 /\ owner'[l] = owner[l]
  BY <1>3, <1>4
<1>6. ASSUME NEW l \in Locks, owner'[l] = t PROVE Holds(u, l)
  <2>1. l # l0 /\ owner[l] = t
    BY <1>5, <1>6, NoOneIsNoThread
  <2>2. Holds(stack[t], l)
    BY <2>1 DEF LockInv
  <2>3. stack[t][Len(stack[t])].lock # l
    BY <2>1, InCallFacts DEF l0
  <2> QED
    BY <2>2, <2>3, InCallFacts, StillHeld DEF u
<1>7. \A l \in Locks : \A v \in Threads : v # t /\ owner'[l] = v => owner[l] = v
  BY <1>5, NoOneIsNoThread
<1>8. pc = "running" /\ UNCHANGED configVars /\ published' \in Nat
  BY InCallFacts DEF LockInv
<1> QED
  BY <1>1, <1>3, <1>6, <1>7, <1>8, StackStep

\* A call moves on.
LEMMA MoveInv ==
  ASSUME LockInv, NEW t \in Threads, stack[t] # <<>>, NEW a \in Nat, a > 0,
         SetStack(t, Moved(t, a)), UNCHANGED <<configVars, owner, published>>
  PROVE  LockInv'
<1> DEFINE u == MovedTo(stack[t], a)
<1>1. u \in Seq(CallRecord) /\ Ordered(counters, u) /\ stack' = [stack EXCEPT ![t] = u]
  BY InCallFacts, MovedFacts, MovedOrdered DEF SetStack
<1>2. \A l \in Locks : owner[l] = t => Holds(u, l)
  BY InCallFacts, StillHeld DEF LockInv
<1> HIDE DEF u
<1>3. pc = "running" /\ UNCHANGED configVars /\ published' \in Nat
  BY InCallFacts DEF LockInv
<1>4. owner' = owner /\ owner \in [Locks -> Threads \cup {NoOne}]
  BY DEF LockInv
<1> QED
  BY <1>1, <1>2, <1>3, <1>4, StackStep

\* It moves on by a call.
LEMMA CallInv ==
  ASSUME LockInv, NEW t \in Threads, stack[t] # <<>>, NEW a \in Nat, a > 0,
         NEW c \in CallRecord, CallOK(counters, c), c.fn # "eval_thread",
         Rank(counters, Top(t).lock) < Rank(counters, c.lock),
         SetStack(t, Moved(t, a) \o <<c>>), UNCHANGED <<configVars, owner, published>>
  PROVE  LockInv'
<1> DEFINE m == MovedTo(stack[t], a)
           u == m \o <<c>>
<1>1. /\ m \in Seq(CallRecord) /\ Ordered(counters, m) /\ m # <<>>
      /\ stack' = [stack EXCEPT ![t] = u] /\ Len(m) = Len(stack[t])
  BY InCallFacts, MovedFacts, MovedOrdered DEF SetStack
<1>2. m[Len(m)].at = a /\ m[Len(m)].lock = Top(t).lock
  BY <1>1, InCallFacts, MovedCalls
<1>3. \A l \in Locks : owner[l] = t => Holds(m, l)
  BY InCallFacts, StillHeld DEF LockInv
<1> HIDE DEF m
<1>4. u \in Seq(CallRecord)
  BY <1>1
<1>5. Ordered(counters, u)
  BY <1>1, <1>2, PushOrdered
<1>6. \A l \in Locks : owner[l] = t => Holds(u, l)
  BY <1>1, <1>3, StillHeld
<1> HIDE DEF u
<1>7. pc = "running" /\ UNCHANGED configVars /\ published' \in Nat
  BY InCallFacts DEF LockInv
<1>8. owner' = owner /\ owner \in [Locks -> Threads \cup {NoOne}]
  BY DEF LockInv
<1> QED
  BY <1>1, <1>4, <1>5, <1>6, <1>7, <1>8, StackStep

\* The lock of the call is free and taken.
LEMMA TakeInv ==
  ASSUME LockInv, NEW t \in Threads, Lock(t)
  PROVE  LockInv'
<1> DEFINE u == MovedTo(stack[t], 1)
           l0 == Top(t).lock
<1>0. stack[t] # <<>>
  BY DEF Lock
<1>1. u \in Seq(CallRecord) /\ Ordered(counters, u) /\ stack' = [stack EXCEPT ![t] = u]
  BY <1>0, InCallFacts, MovedFacts, MovedOrdered DEF Lock, SetStack
<1>2. l0 \in Locks /\ owner' = [owner EXCEPT ![l0] = t]
  BY <1>0, InCallFacts DEF Lock
<1>3. Holds(u, l0)
  <2>1. /\ Len(u) = Len(stack[t]) /\ Len(stack[t]) \in 1..Len(stack[t])
        /\ u[Len(stack[t])].lock = l0 /\ u[Len(stack[t])].at = 1
    <3>1. stack[t] \in Seq(CallRecord) /\ Len(stack[t]) \in 1..Len(stack[t])
      BY <1>0, InCallFacts
    <3>2. Len(u) = Len(stack[t])
      BY <1>0, <3>1, MovedFacts
    <3>3. /\ u[Len(stack[t])].lock = stack[t][Len(stack[t])].lock
          /\ u[Len(stack[t])].at = 1
      BY <1>0, <3>1, MovedCalls
    <3> QED
      BY <3>1, <3>2, <3>3 DEF Top
  <2> HIDE DEF u
  <2> QED
    BY <2>1 DEF Holds
<1>4. \A l \in Locks : owner[l] = t => Holds(u, l)
  BY <1>0, InCallFacts, StillHeld DEF LockInv
<1> HIDE DEF u, l0
<1>5. owner' \in [Locks -> Threads \cup {NoOne}] /\ owner'[l0] = t
  BY <1>2 DEF LockInv
<1>6. \A l \in Locks : l # l0 => owner'[l] = owner[l]
  BY <1>2 DEF LockInv
<1>7. \A l \in Locks : owner'[l] = t => Holds(u, l)
  BY <1>3, <1>4, <1>6
<1>8. \A l \in Locks : \A v \in Threads : v # t /\ owner'[l] = v => owner[l] = v
  BY <1>5, <1>6
<1>9. pc = "running" /\ UNCHANGED configVars /\ published' \in Nat
  BY <1>0, InCallFacts DEF LockInv, Lock
<1> QED
  BY <1>1, <1>5, <1>7, <1>8, <1>9, StackStep

\* The eval thread gives its lock up, to wait or to evaluate.
LEMMA EvalReleaseInv ==
  ASSUME ConfigInv, LockInv, EvalWait \/ \E i \in Evals : Evaluate(i)
  PROVE  LockInv'
<1> DEFINE t == EvalThread
           m == MovedTo(stack[t], 0)
<1>0. t \in Threads /\ stack[t] # <<>> /\ Top(t).fn = "eval_thread"
  BY DEF EvalWait, Evaluate, At, InCall, Threads
<1>1. Top(t).lock = EvalLock /\ Len(stack[t]) = 1
  <2>1. CallOK(counters, Top(t)) /\ Ordered(counters, stack[t]) /\ Len(stack[t]) \in Nat
        /\ Len(stack[t]) > 0 /\ Top(t) = stack[t][Len(stack[t])]
    BY <1>0, InCallFacts
  <2>2. Len(stack[t]) \in 1..Len(stack[t])
    BY <2>1
  <2> HIDE DEF t
  <2> QED
    BY <1>0, <2>1, <2>2 DEF CallOK, Ordered
<1>2. m \in Seq(CallRecord) /\ Ordered(counters, m) /\ m # <<>> /\ Len(m) = 1
  BY <1>0, <1>1, InCallFacts, MovedFacts, MovedOrdered
<1>3. m[1].at = 0
  <2>1. stack[t] \in Seq(CallRecord) /\ 1 \in 1..Len(stack[t])
    BY <1>0, <1>1, InCallFacts
  <2> QED
    BY <1>0, <1>1, <2>1, MovedCalls
<1>4. /\ owner' = [owner EXCEPT ![EvalLock] = NoOne] /\ EvalLock \in Locks
      /\ UNCHANGED <<configVars, published>>
  BY DEF EvalWait, Evaluate, Release, Locks
<1>5. owner' \in [Locks -> Threads \cup {NoOne}] /\ owner'[EvalLock] = NoOne
  BY <1>4 DEF LockInv
<1>6. \A l \in Locks : l # EvalLock => owner'[l] = owner[l]
  BY <1>4 DEF LockInv
<1>7. \A l \in Locks : owner'[l] # NoOne => l # EvalLock /\ owner'[l] = owner[l]
  BY <1>5, <1>6
<1>8. ASSUME NEW l \in Locks, owner'[l] = t PROVE Holds(m, l)
  <2>1. l # EvalLock /\ owner[l] = t
    BY <1>0, <1>7, <1>8, NoOneIsNoThread
  <2>2. Holds(stack[t], l)
    BY <1>0, <2>1 DEF LockInv
  <2>3. stack[t][Len(stack[t])].lock # l /\ stack[t] \in Seq(CallRecord)
    BY <1>0, <1>1, <2>1, InCallFacts
  <2> QED
    BY <1>0, <2>2, <2>3, StillHeld
<1>9. \A l \in Locks : \A v \in Threads : v # t /\ owner'[l] = v => owner[l] = v
  BY <1>7, NoOneIsNoThread
<1>10. pc = "running" /\ UNCHANGED configVars /\ published' \in Nat
  BY <1>0, <1>4, InCallFacts DEF LockInv
<1>11. CASE EvalWait
  <2>1. stack' = [stack EXCEPT ![t] = m]
    BY <1>0, <1>11, InCallFacts DEF EvalWait, SetStack
  <2> HIDE DEF t, m
  <2> QED
    BY <1>0, <1>2, <1>5, <1>8, <1>9, <1>10, <2>1, StackStep
<1>12. ASSUME NEW i \in Evals, Evaluate(i) PROVE LockInv'
  <2> DEFINE c == DispVal(evals[i].name)
             u == m \o <<c>>
  <2>1. evals[i].name \in Names
    <3>1. evals[i] \in EvalRecord
      BY DEF ConfigInv, ConfigTypeOK, ElementsTypeOK, Evals
    <3> QED
      BY <3>1 DEF EvalRecord
  <2>2. c \in CallRecord /\ CallOK(counters, c) /\ c.fn # "eval_thread"
    BY <2>1, DispValCall
  <2>3. stack' = [stack EXCEPT ![t] = u]
    BY <1>0, <1>12, InCallFacts DEF Evaluate, SetStack
  <2> HIDE DEF t, m, c
  <2>4. u \in Seq(CallRecord) /\ Ordered(counters, u)
    BY <1>2, <1>3, <2>2, PushOrdered
  <2>5. \A l \in Locks : owner'[l] = t => Holds(u, l)
    BY <1>2, <1>8, <2>2, StillHeld
  <2> HIDE DEF u
  <2> QED
    BY <1>0, <1>5, <1>9, <1>10, <2>3, <2>4, <2>5, StackStep
<1> QED
  BY <1>11, <1>12

\* fire_cbs() calls a counter only from a name that is no total.
LEMMA FireInv ==
  ASSUME ConfigInv, LockInv, NEW t \in Threads, FireCb(t)
  PROVE  LockInv'
<1> DEFINE n  == Top(t).arg
           k  == Top(t).at
           cb == value_cbs[n][k]
<1>1. /\ stack[t] # <<>> /\ Top(t).fn = "disp_val" /\ k > 0 /\ k <= Len(value_cbs[n])
      /\ SetStack(t, Moved(t, k + 1) \o Callee(cb))
      /\ UNCHANGED <<configVars, owner, published>>
  BY DEF FireCb, InCall
<1>2. n \in Names /\ Top(t).lock = NameLock(n) /\ k \in Nat /\ pc = "running"
  <2>1. CallOK(counters, Top(t)) /\ Top(t).at \in Nat /\ pc = "running"
    BY <1>1, InCallFacts
  <2> QED
    BY <1>1, <2>1 DEF CallOK
<1>3. k \in DOMAIN value_cbs[n] /\ cb \in Callbacks
  <2>1. value_cbs[n] \in Seq(Callbacks)
    BY <1>2 DEF ConfigInv, ConfigTypeOK, TableTypeOK
  <2> QED
    BY <1>1, <1>2, <2>1
<1>4. cb[1] = "counter" => cb[2] \in SourcesAt(n)
  BY <1>2, <1>3 DEF ConfigInv, CbInv
<1>5. k + 1 \in Nat /\ k + 1 > 0
  BY <1>2
<1> HIDE DEF n, k, cb
<1>6. CASE cb[1] = "counter"
  <2> DEFINE i == cb[2]
  <2>1. i \in Counters /\ counters[i].source = n
    BY <1>4, <1>6 DEF SourcesAt
  <2>2. ~IsTotal(counters, n)
    <3>1. ~Chained
      BY <1>2 DEF ConfigInv, CheckInv, Reading
    <3> QED
      BY <2>1, <3>1 DEF Chained, IsTotal, Counters
  <2>3. i \in 1..MaxSections /\ i \in DOMAIN counters
    BY <2>1, ConfigConstants DEF ConfigInv, ConfigTypeOK, TableTypeOK, ElementsTypeOK, Counters
  <2>4. /\ SourceUpdate(i) \in CallRecord /\ CallOK(counters, SourceUpdate(i))
        /\ SourceUpdate(i).fn # "eval_thread" /\ SourceUpdate(i).lock = CounterLock(i)
    BY <1>2, <2>3, Calls
  <2>5. Rank(counters, NameLock(n)) = 1 /\ Rank(counters, CounterLock(i)) = 2
    BY <2>2, RanksOfLocks
  <2>6. Callee(cb) = <<SourceUpdate(i)>>
    BY <1>6 DEF Callee
  <2> HIDE DEF i
  <2>7. Rank(counters, Top(t).lock) < Rank(counters, SourceUpdate(i).lock)
    BY <1>2, <2>4, <2>5
  <2>8. SetStack(t, Moved(t, k + 1) \o <<SourceUpdate(i)>>)
    BY <1>1, <2>6
  <2> QED
    BY <1>1, <1>5, <2>4, <2>7, <2>8, CallInv
<1>7. CASE cb[1] = "eval"
  <2>1. Callee(cb) = <<TriggerUpdate>>
    BY <1>7 DEF Callee
  <2>2. /\ TriggerUpdate \in CallRecord /\ CallOK(counters, TriggerUpdate)
        /\ TriggerUpdate.fn # "eval_thread" /\ TriggerUpdate.lock = EvalLock
    BY EvalCalls
  <2>3. Rank(counters, NameLock(n)) < 4 /\ Rank(counters, EvalLock) = 4
    BY RanksOfLocks
  <2>4. Rank(counters, Top(t).lock) < Rank(counters, TriggerUpdate.lock)
    BY <1>2, <2>2, <2>3
  <2>5. SetStack(t, Moved(t, k + 1) \o <<TriggerUpdate>>)
    BY <1>1, <2>1
  <2> QED
    BY <1>1, <1>5, <2>2, <2>4, <2>5, CallInv
<1>8. CASE cb[1] # "counter" /\ cb[1] # "eval"
  <2>1. Callee(cb) = <<>>
    BY <1>8 DEF Callee
  <2>2. Moved(t, k + 1) \in Seq(CallRecord)
    <3>1. stack[t] \in Seq(CallRecord) /\ Moved(t, k + 1) = MovedTo(stack[t], k + 1)
      BY <1>1, InCallFacts
    <3>2. MovedTo(stack[t], k + 1) \in Seq(CallRecord)
      BY <1>1, <1>5, <3>1, MovedFacts
    <3> QED
      BY <3>1, <3>2, Zenon
  <2>3. Moved(t, k + 1) \o <<>> = Moved(t, k + 1)
    BY <2>2, ConcatEmptySeq
  <2>4. SetStack(t, Moved(t, k + 1))
    BY <1>1, <2>1, <2>3 DEF SetStack
  <2> QED
    BY <1>1, <1>5, <2>4, MoveInv
<1> QED
  BY <1>6, <1>7, <1>8

\* The total is published with the lock of the counter held.
LEMMA TotalInv ==
  ASSUME ConfigInv, LockInv, NEW t \in Threads, TotalDispatched(t)
  PROVE  LockInv'
<1> DEFINE i == Top(t).arg
           n == counters[i].name
<1>1. /\ stack[t] # <<>> /\ Top(t).fn = "source_update"
      /\ SetStack(t, Moved(t, 2) \o <<DispVal(n)>>)
      /\ UNCHANGED <<configVars, owner, published>>
  BY DEF TotalDispatched, At, InCall
<1>2. i \in DOMAIN counters /\ Top(t).lock = CounterLock(i)
  <2>1. CallOK(counters, Top(t))
    BY <1>1, InCallFacts
  <2> QED
    BY <1>1, <2>1 DEF CallOK
<1>3. n \in Names /\ IsTotal(counters, n)
  <2>1. counters[i] \in CounterRecord
    BY <1>2 DEF ConfigInv, ConfigTypeOK, ElementsTypeOK
  <2> QED
    BY <1>2, <2>1 DEF CounterRecord, IsTotal
<1> HIDE DEF i, n
<1>4. /\ DispVal(n) \in CallRecord /\ CallOK(counters, DispVal(n))
      /\ DispVal(n).fn # "eval_thread" /\ DispVal(n).lock = NameLock(n)
  BY <1>3, DispValCall
<1>5. Rank(counters, Top(t).lock) < Rank(counters, DispVal(n).lock)
  <2>1. Rank(counters, CounterLock(i)) = 2 /\ Rank(counters, NameLock(n)) = 3
    BY <1>3, RanksOfLocks
  <2> QED
    BY <1>2, <1>4, <2>1
<1>6. 2 \in Nat /\ 2 > 0
  OBVIOUS
<1> QED
  BY <1>1, <1>4, <1>5, <1>6, CallInv

LEMMA InitLockInv == Init => LockInv
<1> SUFFICES ASSUME Init PROVE LockInv
  OBVIOUS
<1>1. /\ owner = [l \in Locks |-> NoOne] /\ stack = [t \in Threads |-> <<>>]
      /\ published = 0
  BY DEF Init
<1>2. \A cs : Ordered(cs, <<>>)
  BY DEF Ordered
<1> QED
  BY <1>1, <1>2, NoOneIsNoThread DEF LockInv

LEMMA NextLockInv == ConfigInv /\ LockInv /\ [Next]_vars => LockInv'
<1> SUFFICES ASSUME ConfigInv, LockInv, [Next]_vars PROVE LockInv'
  OBVIOUS
<1>1. CASE pc # "running" /\ UNCHANGED lockVars
  <2>1. owner' = owner /\ stack' = stack /\ published' = published
    BY <1>1 DEF lockVars
  <2>2. \A t \in Threads : stack[t] = <<>>
    BY <1>1 DEF LockInv
  <2>3. \A cs : Ordered(cs, <<>>)
    BY DEF Ordered
  <2>4. \A t \in Threads : Ordered(counters', stack'[t])
    BY <2>1, <2>2, <2>3
  <2> QED
    BY <2>1, <2>2, <2>4 DEF LockInv
<1>2. ASSUME NEW t \in Threads, NEW n \in Names, InputArrives(t, n) PROVE LockInv'
  <2>1. DispVal(n) \in CallRecord /\ CallOK(counters, DispVal(n))
    BY DispValCall
  <2>2. Idle(t) /\ SetStack(t, <<DispVal(n)>>) /\ UNCHANGED <<configVars, owner>> /\ published' \in Nat
    BY <1>2 DEF InputArrives, LockInv
  <2> QED
    BY <2>1, <2>2, BeginInv
<1>3. ASSUME NEW t \in Threads, Lock(t) \/ FireCb(t) \/ TotalDispatched(t) PROVE LockInv'
  BY <1>3, TakeInv, FireInv, TotalInv
<1>4. ASSUME NEW t \in Threads, DispDone(t) \/ CounterUnlock(t) PROVE LockInv'
  BY <1>4, ReturnInv DEF DispDone, CounterUnlock, At, InCall
<1>5. ASSUME NEW t \in Threads, TriggerDone(t) PROVE LockInv'
  <2>1. /\ stack[t] # <<>> /\ Top(t).fn = "trigger_update" /\ Release(EvalLock)
        /\ SetStack(t, Popped(t)) /\ UNCHANGED <<configVars, published>>
    BY <1>5 DEF TriggerDone, At, InCall
  <2>2. CallOK(counters, Top(t))
    BY <2>1, InCallFacts
  <2>3. Top(t).lock = EvalLock
    BY <2>1, <2>2 DEF CallOK
  <2> QED
    BY <2>1, <2>3, ReturnInv
<1>6. ASSUME NEW t \in Threads, TotalKept(t) PROVE LockInv'
  <2>1. 2 \in Nat /\ 2 > 0
    OBVIOUS
  <2> QED
    BY <1>6, <2>1, MoveInv DEF TotalKept, At, InCall
<1>7. ASSUME NEW t \in Threads, NEW i \in Counters, Idle(t), SetStack(t, <<SourceUpdate(i)>>),
             UNCHANGED <<configVars, owner>>, published' \in Nat
      PROVE  LockInv'
  <2>1. i \in 1..MaxSections /\ i \in DOMAIN counters
    BY ConfigConstants DEF ConfigInv, ConfigTypeOK, TableTypeOK, ElementsTypeOK, Counters
  <2>2. counters[i].name \in Names
    <3>1. counters[i] \in CounterRecord
      BY <2>1 DEF ConfigInv, ConfigTypeOK, ElementsTypeOK
    <3> QED
      BY <3>1 DEF CounterRecord
  <2>3. SourceUpdate(i) \in CallRecord /\ CallOK(counters, SourceUpdate(i))
    BY <2>1, <2>2, Calls
  <2> QED
    BY <1>7, <2>3, BeginInv
<1>8. CASE CounterPublish
  <2>1. MainThread \in Threads /\ published + 1 \in Counters /\ published' \in Nat
    BY <1>8 DEF CounterPublish, Threads, Counters, LockInv, ConfigInv, ConfigTypeOK, ElementsTypeOK
  <2> QED
    BY <1>7, <1>8, <2>1 DEF CounterPublish
<1>9. ASSUME NEW i \in Counters, ThreadTick(i) PROVE LockInv'
  <2>1. CounterThread \in Threads /\ published' \in Nat
    BY <1>9 DEF ThreadTick, Threads, LockInv
  <2> QED
    BY <1>7, <1>9, <2>1 DEF ThreadTick
<1>10. CASE EvalStarts
  <2>1. EvalThread \in Threads /\ published' \in Nat
    BY <1>10 DEF EvalStarts, Threads, LockInv
  <2> QED
    BY <1>10, <2>1, EvalCalls, BeginInv DEF EvalStarts
<1>11. CASE EvalWait \/ \E i \in Evals : Evaluate(i)
  BY <1>11, EvalReleaseInv
<1>12. CASE UNCHANGED vars
  BY <1>12 DEF vars, configVars, elements, lockVars, LockInv
<1> QED
  BY <1>1, <1>2, <1>3, <1>4, <1>5, <1>6, <1>8, <1>9, <1>10, <1>11, <1>12 DEF Next

\* For any number of names, counters, evals and threads: no accepted
\* configuration can make threads wait for each other in a circle, nor a
\* thread for a mutex it holds (uvrgw_conf_disp_val(), source_update(),
\* trigger_update()).
THEOREM NobodyWaitsInCircle == Spec => []NoCircularWait
<1>1. LockInv => NoCircularWait
  <2> DEFINE Blocked == {t \in Threads : Waits(t) /\ owner[Top(t).lock] # NoOne}
  <2> SUFFICES ASSUME LockInv, NEW S \in SUBSET Blocked, S # {},
                      \A t \in S : owner[Top(t).lock] \in S
               PROVE  FALSE
    BY DEF NoCircularWait
  <2> DEFINE R(t) == Rank(counters, Top(t).lock)
  <2>1. \A t \in S : R(t) \in 1..4
    BY RankRange
  <2>2. ASSUME NEW t \in S PROVE \E v \in S : R(t) < R(v)
    <3> DEFINE v == owner[Top(t).lock]
               l == Top(t).lock
    <3>1. t \in Threads /\ stack[t] # <<>> /\ v \in S /\ v \in Threads /\ stack[v] # <<>>
          /\ Top(v).at = 0
      BY DEF Waits
    <3>2. l \in Locks
      BY <3>1, InCallFacts
    <3>3. Holds(stack[v], l)
      BY <3>1, <3>2 DEF LockInv
    <3>4. PICK k \in 1..Len(stack[v]) : stack[v][k].lock = l /\ stack[v][k].at > 0
      BY <3>3 DEF Holds
    <3>5. /\ Ordered(counters, stack[v]) /\ Len(stack[v]) \in Nat
          /\ Top(v) = stack[v][Len(stack[v])]
      BY <3>1, InCallFacts
    <3> HIDE DEF v, l
    <3>6. k # Len(stack[v])
      BY <3>1, <3>4, <3>5
    <3>7. Len(stack[v]) \in 1..Len(stack[v]) /\ k < Len(stack[v])
      BY <3>4, <3>5, <3>6
    <3>8. Rank(counters, stack[v][k].lock) < Rank(counters, stack[v][Len(stack[v])].lock)
      BY <3>4, <3>5, <3>7 DEF Ordered
    <3>9. R(t) < R(v)
      BY <3>4, <3>5, <3>8 DEF l
    <3> QED
      BY <3>1, <3>9
  <2> HIDE DEF R
  <2>3. \A t \in S : R(t) # 4
    BY <2>1, <2>2
  <2>4. \A t \in S : R(t) # 3
    BY <2>1, <2>2, <2>3
  <2>5. \A t \in S : R(t) # 2
    BY <2>1, <2>2, <2>3, <2>4
  <2>6. \A t \in S : R(t) # 1
    BY <2>1, <2>2, <2>3, <2>4, <2>5
  <2> QED
    BY <2>1, <2>3, <2>4, <2>5, <2>6
<1>2. Spec => []LockInv
  BY InitLockInv, NextLockInv, ConfigInvHolds, PTL DEF Spec
<1> QED
  BY <1>1, <1>2, PTL
=============================================================================
