----------------------------- MODULE EvalProofs -----------------------------
(***************************************************************************)
(* Proofs about Eval, for any number of evals, inputs and numbers, any     *)
(* triggers, and any periods and times.                                    *)
(***************************************************************************)
EXTENDS Eval, TLAPS

\* The state of the scheduler the argument is about.
SchedType ==
  /\ pending \in [Evals -> BOOLEAN]
  /\ DOMAIN fire = Names /\ DOMAIN stored = Names /\ DOMAIN slot = Evals
  /\ \A n \in Names : fire[n] \subseteq TriggeredBy(n)
  /\ evaluated \in BOOLEAN
  /\ idx \in Nat /\ idx >= 1
  /\ pc \in {"read", "fire"} => idx <= NumEvals
  /\ pc \in {"loop", "scan"} => lock = Thread
  /\ pc = "read" => got \in Seq({got[i] : i \in DOMAIN got}) /\ Len(got) <= Len(Reads[idx])

\* An evaluation of e is due or on its way: the flag is set, or a dispatch has
\* still to call its trigger_update().
Requested(e) == pending[e] \/ \E n \in Triggers[e] : e \in fire[n]

\* The values read so far by an evaluation are those stored now, or the
\* evaluation will be repeated.
ReadsFresh ==
  pc = "read" /\ idx \in Covered =>
    Requested(idx) \/ \A i \in 1..Len(got) : got[i] = stored[Reads[idx][i]]

\* An eval that shows an old result is evaluated, or will be.
NoneForgotten ==
  pc # "off" =>
    \A e \in Covered : Requested(e) \/ (pc = "read" /\ idx = e) \/ UpToDate(e)

\* A scan that has evaluated nothing has left no flag behind, and the lock has
\* kept new ones out; a waiting thread has seen none.
NoneSkipped ==
  /\ pc = "scan" /\ ~evaluated => \A e \in Covered : e < idx => ~pending[e]
  /\ pc = "wait" => \A e \in Covered : ~pending[e]

TriggerInv == SchedType /\ ReadsFresh /\ NoneForgotten /\ NoneSkipped

LEMMA EvalFacts ==
  /\ NumEvals \in Nat
  /\ \A e \in Evals : e \in Nat /\ e >= 1 /\ e <= NumEvals /\ Pub[e] \in Names /\ Period[e] \in Nat
  /\ \A e \in Covered : e \in Evals /\ Period[e] = 0 /\ e \notin Periodic
  /\ \A e \in Covered : /\ Len(Reads[e]) \in Nat /\ DOMAIN Reads[e] = 1..Len(Reads[e])
                        /\ \A i \in 1..Len(Reads[e]) : /\ Reads[e][i] \in Triggers[e]
                                                       /\ Reads[e][i] # Pub[e]
  /\ \A e \in Evals : \A n \in Triggers[e] : n \in Names
  /\ \A d, e \in Evals : Pub[d] = Pub[e] => d = e
  /\ Thread # NoOne
<1>1. \A e \in Evals : e \in Nat /\ e >= 1 /\ e <= NumEvals /\ Pub[e] \in Names /\ Period[e] \in Nat
  BY EvalConstants DEF EvalConstants, Evals, Names
<1>2. \A e \in Covered : e \in Evals /\ e \notin Periodic /\ \A i \in DOMAIN Reads[e] : Reads[e][i] \in Triggers[e]
  BY DEF Covered
<1>3. \A e \in Covered : Period[e] = 0
  BY <1>1, <1>2 DEF Periodic
<1>4. /\ \A e \in Evals : Len(Reads[e]) \in Nat /\ DOMAIN Reads[e] = 1..Len(Reads[e])
      /\ \A e \in Evals : Pub[e] \notin Triggers[e]
  BY EvalConstants DEF EvalConstants
<1>5. QED
  BY <1>1, <1>2, <1>3, <1>4, EvalConstants DEF EvalConstants

LEMMA TriggerInitInv == Init => TriggerInv
<1> SUFFICES ASSUME Init PROVE TriggerInv
  OBVIOUS
<1>1. SchedType
  <2>1. pending \in [Evals -> BOOLEAN] /\ evaluated \in BOOLEAN /\ idx = 1 /\ pc = "off"
    BY DEF Init
  <2>2. /\ DOMAIN fire = Names /\ DOMAIN stored = Names /\ DOMAIN slot = Evals
        /\ \A n \in Names : fire[n] \subseteq TriggeredBy(n)
    BY DEF Init
  <2>3. QED
    BY <2>1, <2>2 DEF SchedType
<1>2. ReadsFresh /\ NoneForgotten /\ NoneSkipped
  BY DEF Init, ReadsFresh, NoneForgotten, NoneSkipped
<1>3. QED
  BY <1>1, <1>2 DEF TriggerInv

\* A dispatch of n requests the evaluation of every covered eval that reads n,
\* and leaves what the others show as it is.
LEMMA StoreRequests ==
  ASSUME SchedType, NEW n \in Names, NEW x, NEW e \in Covered,
         stored' = [stored EXCEPT ![n] = x],
         fire' = [fire EXCEPT ![n] = TriggeredBy(n)],
         UNCHANGED pending
  PROVE  /\ Requested(e) => Requested(e)'
         /\ ~Requested(e)' => \A i \in 1..Len(Reads[e]) : stored'[Reads[e][i]] = stored[Reads[e][i]]
         /\ ~Requested(e)' => StoredInputs(e)' = StoredInputs(e)
<1>0. /\ e \in Evals /\ DOMAIN Reads[e] = 1..Len(Reads[e])
      /\ \A i \in 1..Len(Reads[e]) : Reads[e][i] \in Triggers[e]
      /\ \A m \in Triggers[e] : m \in Names
  BY EvalFacts
<1>1. \A m \in Names : fire[m] \subseteq fire'[m]
  BY DEF SchedType
<1>2. Requested(e) => Requested(e)'
  BY <1>0, <1>1 DEF Requested
<1>3. n \in Triggers[e] => Requested(e)'
  BY <1>0 DEF Requested, SchedType, TriggeredBy
<1>4. ~Requested(e)' => \A i \in 1..Len(Reads[e]) : stored'[Reads[e][i]] = stored[Reads[e][i]]
  BY <1>0, <1>3 DEF SchedType
<1>5. ~Requested(e)' => StoredInputs(e)' = StoredInputs(e)
  BY <1>0, <1>4 DEF StoredInputs
<1>6. QED
  BY <1>2, <1>4, <1>5

\* What an eval shows stays right while nothing it reads and nothing it
\* publishes changes.
LEMMA UpToDateKept ==
  ASSUME NEW e \in Covered, UpToDate(e), StoredInputs(e)' = StoredInputs(e),
         stored'[Pub[e]] = stored[Pub[e]]
  PROVE  UpToDate(e)'
BY DEF UpToDate, ValidOf, IsFinite, SumOf

\* One step per action.
LEMMA TriggerNextInv == TriggerInv /\ [Next]_vars => TriggerInv'
<1> SUFFICES ASSUME TriggerInv, [Next]_vars PROVE TriggerInv'
  OBVIOUS
<1>t. SchedType /\ ReadsFresh /\ NoneForgotten /\ NoneSkipped
  BY DEF TriggerInv
<1>1. CASE EvalStartup
  <2>1. /\ pc' = "lock" /\ pending' = [e \in Evals |-> TRUE]
        /\ UNCHANGED <<stored, fire, slot, lock, idx, evaluated, got>>
    BY <1>1 DEF EvalStartup, local
  <2>2. SchedType'
    BY <2>1, <1>t DEF SchedType, TriggeredBy
  <2>3. NoneForgotten' /\ ReadsFresh' /\ NoneSkipped'
    BY <2>1, EvalFacts DEF NoneForgotten, ReadsFresh, NoneSkipped, Requested
  <2>4. QED
    BY <2>2, <2>3 DEF TriggerInv
<1>2. ASSUME NEW n \in Inputs, NEW f \in Numbers, NEW v \in BOOLEAN, InputUpdate(n, f, v)
      PROVE  TriggerInv'
  <2>1. /\ stored' = [stored EXCEPT ![n] = <<f, v>>]
        /\ fire' = [fire EXCEPT ![n] = TriggeredBy(n)]
        /\ UNCHANGED <<pending, slot, lock, pc, idx, evaluated, got>>
    BY <1>2 DEF InputUpdate, sched, local
  <2>2. n \in Names /\ \A e \in Evals : Pub[e] # n
    BY EvalConstants DEF EvalConstants, Names
  <2>3. SchedType'
    BY <2>1, <1>t DEF SchedType, TriggeredBy
  <2>4. \A e \in Covered :
          /\ Requested(e) => Requested(e)'
          /\ ~Requested(e)' => \A i \in 1..Len(Reads[e]) : stored'[Reads[e][i]] = stored[Reads[e][i]]
          /\ ~Requested(e)' => StoredInputs(e)' = StoredInputs(e)
    BY <2>1, <2>2, <1>t, StoreRequests
  <2>5. ReadsFresh'
    <3> SUFFICES ASSUME NEW e \in Covered, pc = "read", idx = e, ~Requested(e)', NEW i \in 1..Len(got)
                 PROVE  got[i] = stored'[Reads[e][i]]
      BY <2>1 DEF ReadsFresh, Requested
    <3>1. i \in 1..Len(Reads[e])
      <4>1. Len(got) <= Len(Reads[e]) /\ Len(got) \in Nat
        BY <1>t DEF SchedType
      <4>2. QED
        BY <4>1, EvalFacts
    <3>2. got[i] = stored[Reads[e][i]]
      <4>1. ~Requested(e)
        BY <2>4
      <4>2. QED
        BY <4>1, <1>t DEF ReadsFresh
    <3>3. QED
      BY <3>1, <3>2, <2>4
  <2>6. NoneForgotten'
    <3> SUFFICES ASSUME pc # "off", NEW e \in Covered, ~Requested(e)', ~(pc = "read" /\ idx = e)
                 PROVE  UpToDate(e)'
      BY <2>1 DEF NoneForgotten
    <3>1. UpToDate(e)
      BY <2>4, <1>t DEF NoneForgotten
    <3>2. stored'[Pub[e]] = stored[Pub[e]]
      BY <2>1, <2>2, <1>t, EvalFacts DEF SchedType
    <3>3. QED
      BY <2>4, <3>1, <3>2, UpToDateKept
  <2>7. NoneSkipped'
    BY <2>1, <1>t DEF NoneSkipped
  <2>8. QED
    BY <2>3, <2>5, <2>6, <2>7 DEF TriggerInv
<1>3. ASSUME NEW n \in Names, NEW d \in Evals, TriggerUpdate(n, d) PROVE TriggerInv'
  <2>1. /\ d \in fire[n] /\ lock = NoOne /\ pending' = [pending EXCEPT ![d] = TRUE]
        /\ pc' = (IF pc = "wait" THEN "lock" ELSE pc)
        /\ fire' = [fire EXCEPT ![n] = fire[n] \ {d}]
        /\ UNCHANGED <<stored, slot, lock, idx, evaluated, got>>
    BY <1>3 DEF TriggerUpdate, Signal, local
  <2>2. SchedType'
    <3>1. pending' \in [Evals -> BOOLEAN]
      BY <2>1, <1>t DEF SchedType
    <3>2. DOMAIN fire' = Names /\ \A m \in Names : fire'[m] \subseteq TriggeredBy(m)
      BY <2>1, <1>t DEF SchedType
    <3>3. QED
      BY <2>1, <3>1, <3>2, <1>t DEF SchedType, TriggeredBy
  <2>3. ASSUME NEW e \in Covered, Requested(e) PROVE Requested(e)'
    <3>1. CASE e = d
      BY <3>1, <2>1, <1>t DEF Requested, SchedType
    <3>2. CASE e # d
      <4>1. \A m \in Names : e \in fire[m] => e \in fire'[m]
        BY <3>2, <2>1, <1>t DEF SchedType
      <4>2. pending'[e] = pending[e]
        BY <3>2, <2>1, <1>t, EvalFacts DEF SchedType
      <4>3. QED
        BY <2>3, <4>1, <4>2, EvalFacts DEF Requested
    <3>3. QED
      BY <3>1, <3>2
  <2>4. ASSUME NEW e \in Covered, UpToDate(e) PROVE UpToDate(e)'
    <3>1. StoredInputs(e)' = StoredInputs(e) /\ stored'[Pub[e]] = stored[Pub[e]]
      BY <2>1 DEF StoredInputs
    <3>2. QED
      BY <2>4, <3>1, UpToDateKept
  <2>5. ReadsFresh'
    BY <2>1, <2>3, <1>t DEF ReadsFresh
  <2>6. NoneForgotten'
    BY <2>1, <2>3, <2>4, <1>t DEF NoneForgotten
  <2>7. NoneSkipped'
    BY <2>1, <1>t, EvalFacts DEF NoneSkipped, SchedType
  <2>8. QED
    BY <2>2, <2>5, <2>6, <2>7 DEF TriggerInv
<1>4. CASE ThreadLock \/ LoopHead \/ ScanEnd \/ WaitTimeout \/ SpuriousWakeup \/ EvalShutdown \/ Tick
            \/ UNCHANGED vars
  <2>1. /\ UNCHANGED <<stored, fire, pending, slot, got>>
        /\ pc' \notin {"read", "fire"} \/ UNCHANGED <<pc, idx>>
        /\ pc' = "off" <=> pc = "off"
        /\ idx' \in {1, idx}
        /\ evaluated' \in {FALSE, evaluated}
    BY <1>4 DEF ThreadLock, LoopHead, ScanEnd, WaitTimeout, SpuriousWakeup, EvalShutdown, Signal, Tick,
       vars, sched, local
  <2>2. pc = "read" /\ idx \in Evals => pc' = "read" /\ idx' = idx
    BY <1>4 DEF ThreadLock, LoopHead, ScanEnd, WaitTimeout, SpuriousWakeup, EvalShutdown, Signal, Tick,
       vars, sched, local
  <2>3. pc' \in {"loop", "scan"} => lock' = Thread
    BY <1>4, <1>t DEF ThreadLock, LoopHead, ScanEnd, WaitTimeout, SpuriousWakeup, EvalShutdown, Signal, Tick,
       vars, sched, local, SchedType
  <2>4. SchedType'
    <3>1. /\ pending' \in [Evals -> BOOLEAN] /\ DOMAIN stored' = Names /\ DOMAIN slot' = Evals
          /\ DOMAIN fire' = Names /\ \A n \in Names : fire'[n] \subseteq TriggeredBy(n)
          /\ idx' \in Nat /\ idx' >= 1
      BY <2>1, <1>t DEF SchedType
    <3>b. evaluated' \in BOOLEAN
      BY <2>1, <1>t, Zenon DEF SchedType
    <3>2. pc' \in {"read", "fire"} => idx' <= NumEvals
      BY <2>1, <1>t DEF SchedType
    <3>3. CASE pc' = "read"
      <4>1. pc = "read" /\ idx' = idx /\ got' = got
        BY <3>3, <2>1
      <4>2. got' \in Seq({got'[i] : i \in DOMAIN got'}) /\ Len(got') <= Len(Reads[idx'])
        BY <4>1, <1>t DEF SchedType
      <4>3. QED
        BY <3>1, <3>b, <3>2, <4>2, <2>3 DEF SchedType, TriggeredBy
    <3>4. CASE pc' # "read"
      BY <3>1, <3>b, <3>2, <3>4, <2>3 DEF SchedType, TriggeredBy
    <3>5. QED
      BY <3>3, <3>4
  <2>5. \A e \in Covered : Requested(e)' = Requested(e) /\ UpToDate(e)' = UpToDate(e)
    BY <2>1 DEF Requested, UpToDate, StoredInputs, ValidOf, IsFinite, SumOf
  <2>6. ReadsFresh'
    BY <2>1, <2>5, <1>t DEF ReadsFresh
  <2>7. NoneForgotten'
    BY <2>1, <2>2, <2>5, <1>t, EvalFacts DEF NoneForgotten
  <2>8. NoneSkipped'
    <3>1. CASE LoopHead
      BY <3>1, <2>1, EvalFacts DEF LoopHead, NoneSkipped
    <3>2. CASE ScanEnd
      BY <3>2, <2>1, <1>t, EvalFacts DEF ScanEnd, NoneSkipped, local, SchedType
    <3>3. CASE ThreadLock \/ WaitTimeout \/ SpuriousWakeup \/ EvalShutdown \/ Tick \/ UNCHANGED vars
      BY <3>3, <2>1, <1>t DEF ThreadLock, WaitTimeout, SpuriousWakeup, EvalShutdown, Signal, Tick, vars,
         local, NoneSkipped
    <3>4. QED
      BY <1>4, <3>1, <3>2, <3>3
  <2>9. QED
    BY <2>4, <2>6, <2>7, <2>8 DEF TriggerInv
<1>5. CASE ScanDue
  <2>1. /\ pc = "scan" /\ pc' = "read" /\ idx <= NumEvals /\ got' = <<>>
        /\ UNCHANGED <<stored, fire, slot, idx, evaluated>>
        /\ pending' = pending \/ (Period[idx] = 0 /\ pending' = [pending EXCEPT ![idx] = FALSE])
    BY <1>5 DEF ScanDue
  <2>2. idx \in Evals
    BY <2>1, <1>t, EvalFacts DEF SchedType, Evals
  <2>3. SchedType'
    <3>1. pending' \in [Evals -> BOOLEAN]
      BY <2>1, <1>t DEF SchedType
    <3>2. got' \in Seq({got'[i] : i \in DOMAIN got'}) /\ Len(got') <= Len(Reads[idx])
      BY <2>1, <2>2, EvalConstants DEF EvalConstants
    <3>3. QED
      BY <2>1, <3>1, <3>2, <1>t DEF SchedType, TriggeredBy
  <2>4. \A e \in Covered : e # idx => pending'[e] = pending[e]
    BY <2>1, <1>t, EvalFacts DEF SchedType
  <2>5. \A e \in Covered : e # idx => Requested(e)' = Requested(e)
    BY <2>1, <2>4 DEF Requested
  <2>6. \A e \in Covered : UpToDate(e)' = UpToDate(e)
    BY <2>1 DEF UpToDate, StoredInputs, ValidOf, IsFinite, SumOf
  <2>7. ReadsFresh'
    BY <2>1 DEF ReadsFresh
  <2>8. NoneForgotten'
    BY <2>1, <2>5, <2>6, <1>t DEF NoneForgotten
  <2>9. NoneSkipped'
    BY <2>1 DEF NoneSkipped
  <2>10. QED
    BY <2>3, <2>7, <2>8, <2>9 DEF TriggerInv
<1>6. CASE ScanNotDue
  <2>1. /\ pc = "scan" /\ idx <= NumEvals /\ idx' = idx + 1
        /\ UNCHANGED <<stored, fire, pending, slot, lock, pc, evaluated, got>>
        /\ Period[idx] > 0 \/ ~pending[idx]
    BY <1>6 DEF ScanNotDue, sched
  <2>2. SchedType'
    BY <2>1, <1>t DEF SchedType, TriggeredBy
  <2>3. \A e \in Covered : Requested(e)' = Requested(e) /\ UpToDate(e)' = UpToDate(e)
    BY <2>1 DEF Requested, UpToDate, StoredInputs, ValidOf, IsFinite, SumOf
  <2>4. ReadsFresh' /\ NoneForgotten'
    BY <2>1, <2>3, <1>t DEF ReadsFresh, NoneForgotten
  <2>5. NoneSkipped'
    <3>1. \A e \in Covered : e < idx + 1 => e < idx \/ e = idx
      BY <1>t, EvalFacts DEF SchedType
    <3>2. idx \in Covered => ~pending[idx]
      BY <2>1, EvalFacts
    <3>3. QED
      BY <2>1, <3>1, <3>2, <1>t DEF NoneSkipped
  <2>6. QED
    BY <2>2, <2>4, <2>5 DEF TriggerInv
<1>7. CASE ReadInput
  <2> DEFINE x == stored[Reads[idx][Len(got) + 1]]
             S == {got[i] : i \in DOMAIN got} \cup {x}
  <2>1. /\ pc = "read" /\ Len(got) < Len(Reads[idx]) /\ got' = Append(got, x)
        /\ UNCHANGED <<stored, fire, pending, slot, lock, pc, idx, evaluated>>
    BY <1>7 DEF ReadInput, sched, local
  <2>2. got \in Seq({got[i] : i \in DOMAIN got})
    BY <2>1, <1>t DEF SchedType
  <2>3. got \in Seq(S) /\ x \in S
    BY <2>2
  <2> HIDE DEF S, x
  <2>4. /\ got' \in Seq(S) /\ Len(got') = Len(got) + 1 /\ Len(got) \in Nat
        /\ \A i \in 1..Len(got) : got'[i] = got[i]
        /\ got'[Len(got) + 1] = x
    BY <2>1, <2>3
  <2>5. got' \in Seq({got'[i] : i \in DOMAIN got'})
    BY <2>4
  <2>6. idx \in Evals /\ Len(Reads[idx]) \in Nat
    BY <2>1, <1>t, EvalFacts, EvalConstants DEF SchedType, Evals, EvalConstants
  <2>7. SchedType'
    <3>1. Len(got') <= Len(Reads[idx])
      BY <2>1, <2>4, <2>6
    <3>2. /\ pending \in [Evals -> BOOLEAN] /\ DOMAIN stored = Names /\ DOMAIN slot = Evals
          /\ DOMAIN fire = Names /\ \A n \in Names : fire[n] \subseteq TriggeredBy(n)
          /\ evaluated \in BOOLEAN /\ idx \in Nat /\ idx >= 1 /\ idx <= NumEvals
      BY <2>1, <1>t DEF SchedType
    <3>3. QED
      BY <2>1, <2>5, <3>1, <3>2 DEF SchedType, TriggeredBy
  <2>8. \A e \in Covered : Requested(e)' = Requested(e) /\ UpToDate(e)' = UpToDate(e)
    BY <2>1 DEF Requested, UpToDate, StoredInputs, ValidOf, IsFinite, SumOf
  <2>9. ReadsFresh'
    <3> SUFFICES ASSUME idx \in Covered, ~Requested(idx), NEW i \in 1..(Len(got) + 1)
                 PROVE  got'[i] = stored[Reads[idx][i]]
      BY <2>1, <2>4, <2>8 DEF ReadsFresh
    <3>1. CASE i \in 1..Len(got)
      BY <3>1, <2>1, <2>4, <1>t DEF ReadsFresh
    <3>2. CASE i = Len(got) + 1
      BY <3>2, <2>4 DEF x
    <3>3. QED
      BY <3>1, <3>2, <2>4
  <2>10. NoneForgotten' /\ NoneSkipped'
    BY <2>1, <2>8, <1>t DEF NoneForgotten, NoneSkipped
  <2>11. QED
    BY <2>7, <2>9, <2>10 DEF TriggerInv
<1>8. CASE PublishResult
  <2> DEFINE n == Pub[idx]
             x == <<slot'[idx], ValidOf(got)>>
  <2>1. /\ pc = "read" /\ Len(got) = Len(Reads[idx]) /\ pc' = "fire"
        /\ slot' = [slot EXCEPT ![idx] = ResultOf(idx, got)]
        /\ stored' = [stored EXCEPT ![n] = x]
        /\ fire' = [fire EXCEPT ![n] = TriggeredBy(n)]
        /\ UNCHANGED <<pending, lock, idx, evaluated, got>>
    BY <1>8 DEF PublishResult, sched, local
  <2>2. idx \in Evals /\ n \in Names
    BY <2>1, <1>t, EvalFacts DEF SchedType, Evals
  <2>3. SchedType'
    BY <2>1, <2>2, <1>t DEF SchedType, TriggeredBy
  <2>4. \A e \in Covered :
          /\ Requested(e) => Requested(e)'
          /\ ~Requested(e)' => StoredInputs(e)' = StoredInputs(e)
    BY <2>1, <2>2, <1>t, StoreRequests
  <2>5. ReadsFresh' /\ NoneSkipped'
    BY <2>1 DEF ReadsFresh, NoneSkipped
  <2>6. ASSUME NEW e \in Covered, ~Requested(e)' PROVE UpToDate(e)'
    <3>1. CASE e # idx
      <4>1. UpToDate(e)
        BY <3>1, <2>1, <2>4, <2>6, <1>t DEF NoneForgotten
      <4>2. stored'[Pub[e]] = stored[Pub[e]]
        BY <3>1, <2>1, <2>2, <1>t, EvalFacts DEF SchedType
      <4>3. QED
        BY <4>1, <4>2, <2>4, <2>6, UpToDateKept
    <3>2. CASE e = idx
      <4>1. \A i \in 1..Len(got) : got[i] = stored[Reads[e][i]]
        BY <3>2, <2>1, <2>4, <2>6, <1>t DEF ReadsFresh
      <4>2. got = StoredInputs(e)
        <5>1. got \in Seq({got[i] : i \in DOMAIN got})
          BY <2>1, <1>t DEF SchedType
        <5>2. got = [i \in 1..Len(got) |-> got[i]]
          BY <5>1
        <5>3. DOMAIN Reads[e] = 1..Len(got)
          BY <3>2, <2>1, EvalFacts
        <5>4. QED
          BY <4>1, <5>2, <5>3 DEF StoredInputs
      <4>3. StoredInputs(e)' = got
        BY <4>2, <2>4, <2>6
      <4>4. stored'[Pub[e]] = <<ResultOf(e, got), ValidOf(got)>>
        BY <3>2, <2>1, <2>2, <1>t DEF SchedType
      <4>5. stored'[Pub[e]][2] = ValidOf(got) /\ (IsFinite(got) => stored'[Pub[e]][1] = SumOf(got))
        BY <4>4 DEF ResultOf
      <4>6. QED
        BY <4>3, <4>5 DEF UpToDate, ValidOf, IsFinite, SumOf
    <3>3. QED
      BY <3>1, <3>2
  <2>7. NoneForgotten'
    BY <2>6 DEF NoneForgotten
  <2>8. QED
    BY <2>3, <2>5, <2>7 DEF TriggerInv
<1>9. CASE ScanResume
  <2>1. /\ pc = "fire" /\ lock' = Thread /\ evaluated' = TRUE /\ idx' = idx + 1 /\ pc' = "scan"
        /\ UNCHANGED <<stored, fire, pending, slot>>
    BY <1>9 DEF ScanResume, sched
  <2>2. SchedType'
    BY <2>1, <1>t DEF SchedType, TriggeredBy
  <2>3. \A e \in Covered : Requested(e)' = Requested(e) /\ UpToDate(e)' = UpToDate(e)
    BY <2>1 DEF Requested, UpToDate, StoredInputs, ValidOf, IsFinite, SumOf
  <2>4. ReadsFresh' /\ NoneSkipped' /\ NoneForgotten'
    BY <2>1, <2>3, <1>t DEF ReadsFresh, NoneSkipped, NoneForgotten
  <2>5. QED
    BY <2>2, <2>4 DEF TriggerInv
<1>10. QED
  BY <1>1, <1>2, <1>3, <1>4, <1>5, <1>6, <1>7, <1>8, <1>9 DEF Next, ThreadStep, Notify, Ended

\* trigger_update(), eval_thread(): no trigger is lost between the flags, the
\* lock released for an evaluation and the wait, for any evals, triggers and
\* interleaving.
THEOREM TriggersAreKept == Spec => []NoTriggerLost
<1>1. TriggerInv => NoTriggerLost
  <2> SUFFICES ASSUME TriggerInv, pc = "wait", \A n \in Names : fire[n] = {}, NEW e \in Covered
               PROVE  ~pending[e] /\ UpToDate(e)
    BY DEF NoTriggerLost
  <2>1. ~pending[e]
    BY DEF TriggerInv, NoneSkipped
  <2>2. ~Requested(e)
    BY <2>1, EvalFacts DEF Requested
  <2>3. QED
    BY <2>1, <2>2 DEF TriggerInv, NoneForgotten
<1>2. QED
  BY TriggerInitInv, TriggerNextInv, <1>1, PTL DEF Spec

-----------------------------------------------------------------------------
(***************************************************************************)
(* The schedule of periodic evals.                                         *)
(***************************************************************************)

\* next is a whole number of periods after the start; at a scan it has not
\* passed the time of the scan by more than a period.
OnSchedule ==
  /\ now \in Nat /\ start \in Nat /\ scan_now \in Nat /\ scan_now <= now
  /\ start <= now
  /\ DOMAIN next = Evals
  /\ pc # "off" => \A e \in Periodic :
       /\ \E k \in Nat : next[e] = start + k * Period[e]
       /\ next[e] <= now + Period[e]

LEMMA WholePeriods ==
  ASSUME NEW p \in Nat, p > 0, NEW k \in Nat
  PROVE  (k * p) % p = 0 /\ k * p \in Nat
BY SMT

\* The next time of the schedule: later than t, and by a period at most.
LEMMA NextTime ==
  ASSUME NEW p \in Nat, p > 0, NEW a \in Nat
  PROVE  /\ (a \div p) \in Nat
         /\ (a \div p) * p <= a
BY SMT

LEMMA ScheduleStep == OnSchedule /\ [Next]_vars => OnSchedule'
<1> SUFFICES ASSUME OnSchedule, [Next]_vars PROVE OnSchedule'
  OBVIOUS
<1>p. \A e \in Periodic : e \in Evals /\ Period[e] \in Nat /\ Period[e] > 0
  BY EvalConstants DEF EvalConstants, Periodic
<1>1. CASE EvalStartup
  <2>1. start' = now /\ next' = [e \in Evals |-> now] /\ UNCHANGED <<now, scan_now>>
    BY <1>1 DEF EvalStartup, local
  <2>2. ASSUME NEW e \in Periodic
        PROVE  /\ \E k \in Nat : next'[e] = start' + k * Period[e]
               /\ next'[e] <= now' + Period[e]
    <3>1. next'[e] = now /\ now \in Nat
      BY <2>1, <1>p DEF OnSchedule
    <3>2. now = now + 0 * Period[e]
      BY <3>1, <1>p
    <3>3. QED
      BY <2>1, <3>1, <3>2, <1>p
  <2>3. QED
    BY <2>1, <2>2 DEF OnSchedule
<1>2. CASE ScanDue /\ Period[idx] > 0
  <2>1. /\ pc # "off" /\ scan_now >= next[idx] /\ next' = [next EXCEPT ![idx] = NextOf(idx, scan_now)]
        /\ UNCHANGED <<now, start, scan_now>>
    BY <1>2 DEF ScanDue, env
  <2>2. ASSUME NEW e \in Periodic
        PROVE  /\ \E k \in Nat : next'[e] = start + k * Period[e]
               /\ next'[e] <= now + Period[e]
    <3>1. PICK k \in Nat : next[e] = start + k * Period[e]
      BY <2>1 DEF OnSchedule
    <3>2. CASE e # idx
      BY <3>1, <3>2, <2>1, <1>p DEF OnSchedule
    <3>3. CASE e = idx
      <4> DEFINE p == Period[e]
                 a == scan_now - next[e]
                 m == a \div p
      <4>1. p \in Nat /\ p > 0 /\ next[e] \in Nat /\ a \in Nat /\ start \in Nat /\ scan_now \in Nat
        <5>1. k * p \in Nat
          BY <1>p, WholePeriods
        <5>2. QED
          BY <5>1, <3>1, <3>3, <2>1, <1>p DEF OnSchedule
      <4>2. m \in Nat /\ m * p <= a
        BY <4>1, NextTime
      <4>3. next'[e] = next[e] + (m + 1) * p
        BY <3>3, <2>1, <1>p DEF OnSchedule, NextOf
      <4> HIDE DEF m, p, a
      <4>4. /\ (m + 1) * p = m * p + p /\ (k + m + 1) * p = k * p + (m + 1) * p
            /\ m * p \in Nat /\ k * p \in Nat /\ (m + 1) * p \in Nat
        BY <4>1, <4>2
      <4>5. next'[e] <= scan_now + p
        BY <4>1, <4>2, <4>3, <4>4 DEF a
      <4>6. next'[e] = start + (k + m + 1) * p
        BY <3>1, <4>1, <4>3, <4>4 DEF p
      <4>7. next'[e] <= now + p
        <5>1. next'[e] \in Nat
          BY <4>1, <4>3, <4>4
        <5>2. QED
          BY <5>1, <4>1, <4>5 DEF OnSchedule
      <4>8. k + m + 1 \in Nat
        BY <4>2
      <4>9. QED
        BY <4>6, <4>7, <4>8 DEF p
    <3>4. QED
      BY <3>2, <3>3
  <2>3. QED
    BY <2>1, <2>2 DEF OnSchedule
<1>3. CASE /\ UNCHANGED <<next, start>> /\ (pc' = "off" <=> pc = "off")
           /\ now' \in {now, now + 1} /\ scan_now' \in {scan_now, now}
  <2>1. now' \in Nat /\ now <= now' /\ scan_now' \in Nat /\ scan_now' <= now' /\ start <= now'
    BY <1>3 DEF OnSchedule
  <2>2. ASSUME pc # "off", NEW e \in Periodic
        PROVE  /\ \E k \in Nat : next[e] = start + k * Period[e]
               /\ next[e] <= now' + Period[e]
    <3>1. PICK k \in Nat : next[e] = start + k * Period[e]
      BY <2>2 DEF OnSchedule
    <3>2. next[e] \in Nat
      BY <3>1, <1>p, WholePeriods DEF OnSchedule
    <3>3. QED
      BY <2>1, <2>2, <3>1, <3>2, <1>p DEF OnSchedule
  <2>3. QED
    BY <1>3, <2>1, <2>2 DEF OnSchedule
<1>4. QED
  <2>1. CASE ~EvalStartup /\ ~(ScanDue /\ Period[idx] > 0)
    BY <2>1, <1>3 DEF Next, InputUpdate, Notify, TriggerUpdate, Signal, ThreadStep, ThreadLock, LoopHead,
       ScanDue, ScanNotDue, ReadInput, PublishResult, ScanResume, ScanEnd, WaitTimeout, SpuriousWakeup,
       EvalShutdown, Tick, Ended, vars, sched, local, env
  <2>2. QED
    BY <1>1, <1>2, <2>1

\* eval_thread(): a periodic eval keeps to the multiples of its period after the
\* start, for any period, however late it is evaluated and however much time a
\* scan takes.
THEOREM ScheduleIsFixed == Spec => []ScheduleKept
<1>1. Init => OnSchedule
  BY DEF Init, OnSchedule
<1>2. OnSchedule => ScheduleKept
  <2> SUFFICES ASSUME OnSchedule, pc # "off", NEW e \in Periodic
               PROVE  (next[e] - start) % Period[e] = 0 /\ next[e] \in start..(now + Period[e])
    BY DEF ScheduleKept
  <2>1. Period[e] \in Nat /\ Period[e] > 0
    BY EvalConstants DEF EvalConstants, Periodic
  <2>2. PICK k \in Nat : next[e] = start + k * Period[e]
    BY DEF OnSchedule
  <2>3. k * Period[e] \in Nat /\ (k * Period[e]) % Period[e] = 0
    BY <2>1, WholePeriods
  <2>4. start \in Nat /\ now \in Nat /\ next[e] - start = k * Period[e] /\ next[e] \in Nat
        /\ start <= next[e]
    BY <2>2, <2>3 DEF OnSchedule
  <2>5. QED
    BY <2>1, <2>3, <2>4 DEF OnSchedule
<1>3. QED
  BY <1>1, <1>2, ScheduleStep, PTL DEF Spec
=============================================================================
