---------------------------- MODULE CounterProofs ----------------------------
(***************************************************************************)
(* Proofs about Counter, for any configuration, any device or power and    *)
(* any times: what is saved, what is published, and what is counted.       *)
(***************************************************************************)
EXTENDS Counter, TLAPS

-----------------------------------------------------------------------------
(***************************************************************************)
(* Operators.                                                              *)
(***************************************************************************)

LEMMA ConfFacts ==
  ASSUME conf \in Configs
  PROVE  /\ IntegratePower \in BOOLEAN /\ MaxPower \in Nat /\ Sign \in {1, -1}
         /\ Powers \subseteq Int /\ Steps \subseteq Nat /\ Glitches \subseteq Int
         /\ IntegratePower => MaxPower = 0
BY CounterConstants DEF CounterConstants, IntegratePower, MaxPower, Sign, Powers, Steps, Glitches

LEMMA Quotient ==
  ASSUME NEW g \in Nat, g > 0, NEW a \in Nat
  PROVE  a \div g \in Nat
BY SMT

\* "%.6f" gives a multiple of the last decimal ...
LEMMA RoundedIsWhole ==
  ASSUME NEW x \in Nat
  PROVE  \E k \in Nat : Rounded(x) = k * Grain
<1>1. Grain \in Nat /\ Grain > 0 /\ Grain \div 2 \in Nat
  BY CounterConstants DEF CounterConstants
<1>2. ((x + Grain \div 2) \div Grain) \in Nat
  BY <1>1, Quotient
<1>3. QED
  BY <1>2 DEF Rounded

LEMMA WholeIsNat ==
  ASSUME NEW k \in Nat
  PROVE  k * Grain \in Nat
BY CounterConstants DEF CounterConstants

LEMMA WholeIsRounded ==
  ASSUME NEW k \in Nat
  PROVE  Rounded(k * Grain) = k * Grain
<1>1. Grain \in Nat /\ Grain > 0 /\ Grain \div 2 \in Nat /\ Grain \div 2 < Grain
  BY CounterConstants DEF CounterConstants
<1>2. ASSUME NEW g \in Nat, g > 0, NEW h \in Nat, h < g PROVE (k * g + h) \div g = k
  BY <1>2, SMT
<1>3. QED
  BY <1>1, <1>2 DEF Rounded

\* ... so a file read and written again is the same file.
LEMMA FileIsStable ==
  ASSUME NEW s \in Nat \X Nat
  PROVE  FileOf(s) \in Nat \X Nat /\ FileOf(FileOf(s)) = FileOf(s)
<1>1. PICK j \in Nat : Rounded(s[1]) = j * Grain
  BY RoundedIsWhole
<1>2. PICK k \in Nat : Rounded(s[2]) = k * Grain
  BY RoundedIsWhole
<1>3. FileOf(s) = <<j * Grain, k * Grain>>
  BY <1>1, <1>2 DEF FileOf
<1>4. FileOf(FileOf(s)) = <<Rounded(j * Grain), Rounded(k * Grain)>>
  BY <1>3 DEF FileOf
<1>5. QED
  BY <1>3, <1>4, WholeIsRounded, WholeIsNat

LEMMA FileIsExact ==
  ASSUME Grain = 1, NEW s \in Nat \X Nat
  PROVE  FileOf(s) = s
<1>1. ASSUME NEW x \in Nat PROVE Rounded(x) = x
  <2>1. Grain \div 2 = 0 /\ x \div 1 = x
    OBVIOUS
  <2>2. QED
    BY <2>1 DEF Rounded
<1>2. QED
  BY <1>1 DEF FileOf

\* What a power counter adds is never negative, nor is what a device counter
\* adds.
LEMMA IntegralIsNat ==
  ASSUME TypeOK, NEW t \in Nat
  PROVE  Integral(t) \in Nat
<1>1. power \in Int /\ Sign \in {1, -1} /\ integrated_ts \in Nat /\ power * Sign \in Int
  BY ConfFacts DEF TypeOK, PowerType, WorldType
<1>2. ASSUME NEW a \in Nat, NEW b \in Nat PROVE a * b \in Nat
  BY SMT
<1>3. CASE has_power /\ t > integrated_ts /\ power * Sign > 0
  <2>1. power * Sign \in Nat /\ t - integrated_ts \in Nat
    BY <1>1, <1>3
  <2>2. Integral(t) = (power * Sign) * (t - integrated_ts)
    BY <1>3 DEF Integral
  <2>3. QED
    BY <2>1, <2>2, <1>2
<1>4. CASE ~(has_power /\ t > integrated_ts /\ power * Sign > 0)
  BY <1>4 DEF Integral
<1>5. QED
  BY <1>3, <1>4

LEMMA IncreaseIsNat ==
  ASSUME TypeOK, NEW raw \in Nat, NEW t
  PROVE  Increase(raw, t) \in Nat
<1>1. last_read \in Nat
  BY DEF TypeOK, StateType
<1>2. QED
  BY <1>1 DEF Increase

-----------------------------------------------------------------------------
(***************************************************************************)
(* The steps that may change the total.                                    *)
(***************************************************************************)

CountStep == DeviceUpdate \/ PowerUpdate \/ PowerStop \/ ThreadTick

\* A total only grows, each change is marked dirty, and what is published is
\* the new total.
LEMMA TotalGrows ==
  ASSUME TypeOK, CountStep
  PROVE  /\ accum' \in Nat /\ accum' >= accum /\ last_read' \in Nat
         /\ initialized' \in BOOLEAN /\ dirty' \in BOOLEAN
         /\ (initialized => initialized') /\ (dirty => dirty')
         /\ dirty' \/ UNCHANGED <<accum, last_read, initialized>>
         /\ disabled => UNCHANGED <<accum, last_read, initialized, dirty, published>>
         /\ published' = published \/ (published' = accum' /\ initialized')
         /\ UNCHANGED <<disabled, file, disk, snap, phase, conf, now, device, fails, loads>>
<1>t. StateType /\ PowerType /\ ThreadType
  BY DEF TypeOK
<1>1. CASE DeviceUpdate
  <2>1. src_f \in Nat /\ ~disabled
    BY <1>1, <1>t DEF DeviceUpdate, ThreadType
  <2>2. Increase(src_f, src_now) \in Nat
    BY <2>1, IncreaseIsNat
  <2>3. \/ UNCHANGED state
        \/ /\ accum' \in {accum + src_f, accum + Increase(src_f, src_now)}
           /\ last_read' = src_f /\ initialized' = TRUE /\ dirty' = TRUE /\ UNCHANGED disabled
    BY <1>1 DEF DeviceUpdate, TakeReading
  <2>4. published' = published \/ (published' = accum' /\ initialized')
    BY <1>1 DEF DeviceUpdate, Publish
  <2>5. UNCHANGED <<file, disk, snap, phase, conf, now, device, fails, loads>>
    BY <1>1 DEF DeviceUpdate, storage
  <2>6. accum' \in Nat /\ accum' >= accum /\ last_read' \in Nat
    BY <2>1, <2>2, <2>3, <1>t DEF state, StateType
  <2>7. /\ initialized' \in BOOLEAN /\ dirty' \in BOOLEAN
        /\ (initialized => initialized') /\ (dirty => dirty')
        /\ dirty' \/ UNCHANGED <<accum, last_read, initialized>>
        /\ UNCHANGED disabled
    BY <2>3, <1>t DEF state, StateType
  <2>8. QED
    BY <2>1, <2>4, <2>5, <2>6, <2>7
<1>2. CASE PowerUpdate
  <2>1. Integral(src_now) \in Nat /\ ~disabled
    BY <1>2, <1>t, IntegralIsNat DEF PowerUpdate, ThreadType
  <2>2. /\ accum' = accum + Integral(src_now) /\ UNCHANGED <<disabled, last_read>>
        /\ initialized' = TRUE /\ dirty' = (dirty \/ ~initialized \/ Integral(src_now) > 0)
    BY <1>2 DEF PowerUpdate, Integrate
  <2>3. published' = published \/ (published' = accum' /\ initialized')
    BY <1>2 DEF PowerUpdate, Publish
  <2>4. UNCHANGED <<file, disk, snap, phase, conf, now, device, fails, loads>>
    BY <1>2 DEF PowerUpdate, storage
  <2>5. accum' \in Nat /\ accum' >= accum /\ (~(Integral(src_now) > 0) => accum' = accum)
    BY <2>1, <2>2, <1>t DEF StateType
  <2>6. /\ initialized' \in BOOLEAN /\ dirty' \in BOOLEAN
        /\ (initialized => initialized') /\ (dirty => dirty')
        /\ dirty' \/ UNCHANGED <<accum, last_read, initialized>>
        /\ last_read' \in Nat
    BY <2>2, <2>5, <1>t DEF StateType
  <2>7. QED
    BY <2>1, <2>2, <2>3, <2>4, <2>5, <2>6
<1>3. CASE PowerStop
  <2>1. Integral(src_now) \in Nat /\ ~disabled
    BY <1>3, <1>t, IntegralIsNat DEF PowerStop, ThreadType
  <2>2. /\ accum' = accum + Integral(src_now) /\ UNCHANGED <<disabled, last_read, initialized, published>>
        /\ dirty' = (dirty \/ Integral(src_now) > 0)
    BY <1>3 DEF PowerStop, Integrate
  <2>3. UNCHANGED <<file, disk, snap, phase, conf, now, device, fails, loads>>
    BY <1>3 DEF PowerStop, storage
  <2>4. accum' \in Nat /\ accum' >= accum /\ (~(Integral(src_now) > 0) => accum' = accum)
    BY <2>1, <2>2, <1>t DEF StateType
  <2>5. /\ initialized' \in BOOLEAN /\ dirty' \in BOOLEAN
        /\ (initialized => initialized') /\ (dirty => dirty')
        /\ dirty' \/ UNCHANGED <<accum, last_read, initialized>>
        /\ last_read' \in Nat
    BY <2>2, <2>4, <1>t DEF StateType
  <2>6. QED
    BY <2>1, <2>2, <2>3, <2>4, <2>5
<1>4. CASE ThreadTick
  <2>1. Integral(thr_now) \in Nat
    BY <1>t, IntegralIsNat DEF ThreadType
  <2>2. \/ UNCHANGED <<state, published>>
        \/ /\ accum' = accum + Integral(thr_now) /\ UNCHANGED <<disabled, last_read, initialized>>
           /\ dirty' = (dirty \/ Integral(thr_now) > 0) /\ ~disabled
    BY <1>4 DEF ThreadTick, Integrate
  <2>3. published' = published \/ (published' = accum' /\ initialized')
    BY <1>4 DEF ThreadTick, Publish
  <2>4. UNCHANGED <<file, disk, snap, phase, conf, now, device, fails, loads>>
    BY <1>4 DEF ThreadTick, storage
  <2>5. accum' \in Nat /\ accum' >= accum /\ (~(Integral(thr_now) > 0) => accum' = accum \/ UNCHANGED state)
    BY <2>1, <2>2, <1>t DEF state, StateType
  <2>6. /\ initialized' \in BOOLEAN /\ dirty' \in BOOLEAN
        /\ (initialized => initialized') /\ (dirty => dirty')
        /\ dirty' \/ UNCHANGED <<accum, last_read, initialized>>
        /\ last_read' \in Nat /\ UNCHANGED disabled
    BY <2>2, <2>5, <1>t DEF state, StateType
  <2>7. disabled => UNCHANGED <<accum, last_read, initialized, dirty, published>>
    BY <2>2 DEF state
  <2>8. QED
    BY <2>3, <2>4, <2>5, <2>6, <2>7
<1>5. QED
  BY <1>1, <1>2, <1>3, <1>4 DEF CountStep

-----------------------------------------------------------------------------
(***************************************************************************)
(* Types.                                                                  *)
(***************************************************************************)

LEMMA Zero == 0 \in Nat /\ 0 \in Int
OBVIOUS

LEMMA InitTypes == Init => TypeOK
<1> SUFFICES ASSUME Init PROVE TypeOK
  OBVIOUS
<1>1. StateType
  BY DEF Init, StateType
<1>2. PowerType
  BY Zero, Zenon DEF Init, PowerType
<1>3. ThreadType
  BY Zero, Zenon DEF Init, ThreadType
<1>4. FileType
  BY DEF Init, FileType
<1>5. WorldType
  BY DEF Init, WorldType
<1>6. QED
  BY <1>1, <1>2, <1>3, <1>4, <1>5 DEF TypeOK

\* load_state() gives a state.
LEMMA LoadType ==
  ASSUME TypeOK, LoadState
  PROVE  disabled' \in BOOLEAN /\ initialized' \in BOOLEAN /\ accum' \in Nat /\ last_read' \in Nat
<1>1. initialized' = (file \notin {Missing, Invalid}) /\ disabled' = (file = Invalid)
  BY DEF LoadState
<1>2. initialized' => file \in Nat \X Nat
  BY <1>1 DEF TypeOK, FileType
<1>3. accum' \in Nat /\ last_read' \in Nat
  BY <1>2 DEF LoadState
<1>4. disabled' \in BOOLEAN /\ initialized' \in BOOLEAN
  BY <1>1
<1>5. QED
  BY <1>3, <1>4

LEMMA NextTypes == TypeOK /\ [Next]_vars => TypeOK'
<1> SUFFICES ASSUME TypeOK, [Next]_vars PROVE TypeOK'
  OBVIOUS
<1>t. StateType /\ PowerType /\ ThreadType /\ FileType /\ WorldType
  BY DEF TypeOK
<1>c. TickPeriod \in Nat /\ SaveInterval \in Nat
  BY CounterConstants DEF CounterConstants
<1>1. CASE Startup
  <2>1. StateType'
    BY <1>1, <1>t, LoadType DEF Startup, StateType
  <2>2. PowerType' /\ FileType'
    BY <1>1, <1>t DEF Startup, PowerType, FileType, change, held, storage
  <2>3. ThreadType' /\ WorldType'
    BY <1>1, <1>t, <1>c DEF Startup, ThreadType, WorldType, source, device
  <2>4. QED
    BY <2>1, <2>2, <2>3 DEF TypeOK
<1>2. CASE CounterPublish
  <2>1. StateType'
    BY <1>2, <1>t DEF CounterPublish, Publish, StateType, state
  <2>2. PowerType' /\ FileType' /\ ThreadType' /\ WorldType'
    BY <1>2, <1>t DEF CounterPublish, PowerType, FileType, ThreadType, WorldType, change, held, storage,
       source, timers, device
  <2>3. QED
    BY <2>1, <2>2 DEF TypeOK
<1>3. ASSUME NEW f \in Int, NEW v \in BOOLEAN, SourceBegin(f, v) PROVE TypeOK'
  <2>1. StateType' /\ PowerType' /\ FileType' /\ WorldType'
    BY <1>3, <1>t DEF SourceBegin, StateType, PowerType, FileType, WorldType, state, change, held, storage,
       device
  <2>2. ThreadType'
    BY <1>3, <1>t DEF SourceBegin, ThreadType, timers
  <2>3. QED
    BY <2>1, <2>2 DEF TypeOK
<1>4. CASE CountStep
  <2>1. /\ accum' \in Nat /\ last_read' \in Nat /\ initialized' \in BOOLEAN /\ dirty' \in BOOLEAN
        /\ published' = published \/ published' = accum'
        /\ UNCHANGED <<disabled, file, disk, snap, phase, conf, now, device, fails, loads>>
    BY <1>4, TotalGrows
  <2>2. StateType' /\ FileType' /\ WorldType'
    BY <2>1, <1>t DEF StateType, FileType, WorldType, device
  <2>3. CASE ThreadTick
    <3>1. IntegratedTs(thr_now) \in Nat
      BY <1>t DEF IntegratedTs, ThreadType, PowerType
    <3>2. PowerType'
      BY <2>3, <3>1, <1>t DEF ThreadTick, PowerType, change, held
    <3>3. ThreadType'
      BY <2>3, <2>1, <1>t, <1>c DEF ThreadTick, ThreadType, source
    <3>4. QED
      BY <2>2, <3>2, <3>3 DEF TypeOK
  <2>4. CASE DeviceUpdate \/ PowerUpdate \/ PowerStop
    <3>1. IntegratedTs(src_now) \in Nat
      BY <1>t DEF IntegratedTs, ThreadType, PowerType
    <3>2. PowerType'
      <4>1. CASE DeviceUpdate
        BY <4>1, <1>t DEF DeviceUpdate, TakeReading, PowerType, ThreadType, change, held
      <4>2. CASE PowerUpdate
        BY <4>2, <1>t DEF PowerUpdate, PowerType, ThreadType, change
      <4>3. CASE PowerStop
        BY <4>3, <3>1, <1>t DEF PowerStop, PowerType, change
      <4>4. QED
        BY <2>4, <4>1, <4>2, <4>3
    <3>3. ThreadType'
      <4>1. SourceEnd /\ UNCHANGED <<thr_pc, thr_now, next_tick, next_save, now, phase>>
        BY <2>4, <2>1 DEF DeviceUpdate, PowerUpdate, PowerStop, timers
      <4>2. QED
        BY <4>1, <1>t, Zero, Zenon DEF SourceEnd, ThreadType
    <3>4. QED
      BY <2>2, <3>2, <3>3 DEF TypeOK
  <2>5. QED
    BY <1>4, <2>3, <2>4 DEF CountStep
<1>5. CASE SourceIgnored
  <2>1. StateType' /\ PowerType' /\ FileType' /\ WorldType'
    BY <1>5, <1>t DEF SourceIgnored, StateType, PowerType, FileType, WorldType, state, change, held, storage,
       device
  <2>2. ThreadType'
    <3>1. SourceEnd /\ UNCHANGED <<thr_pc, thr_now, next_tick, next_save, now, phase>>
      BY <1>5 DEF SourceIgnored, timers
    <3>2. QED
      BY <3>1, <1>t, Zero, Zenon DEF SourceEnd, ThreadType
  <2>3. QED
    BY <2>1, <2>2 DEF TypeOK
<1>6. CASE ThreadWakes \/ NoSave \/ SaveSnapshot \/ SaveWrite \/ SaveFails \/ SaveSync
  <2>1. StateType'
    BY <1>6, <1>t DEF ThreadWakes, NoSave, SaveSnapshot, SaveWrite, SaveFails, SaveSync, StateType, state
  <2>2. PowerType' /\ WorldType'
    BY <1>6, <1>t DEF ThreadWakes, NoSave, SaveSnapshot, SaveWrite, SaveFails, SaveSync, PowerType, WorldType,
       change, held, device
  <2>3. ThreadType'
    BY <1>6, <1>t, <1>c DEF ThreadWakes, NoSave, SaveSnapshot, SaveWrite, SaveFails, SaveSync, PassEnd,
       ThreadType, source, timers
  <2>4. snap' \in Nat \X Nat
    BY <1>6, <1>t DEF ThreadWakes, NoSave, SaveSnapshot, SaveWrite, SaveFails, SaveSync, PassEnd, FileType,
       StateType
  <2>5. file' \in (Nat \X Nat) \cup {Missing, Invalid} /\ disk' \in (Nat \X Nat) \cup {Missing, Invalid}
    <3>1. FileOf(snap) \in Nat \X Nat
      BY <1>t, FileIsStable DEF FileType
    <3>2. QED
      BY <1>6, <3>1, <1>t DEF ThreadWakes, NoSave, SaveSnapshot, SaveWrite, SaveFails, SaveSync, FileType,
         storage
  <2>6. QED
    BY <2>1, <2>2, <2>3, <2>4, <2>5 DEF TypeOK, FileType
<1>7. CASE CounterStop \/ CounterShutdown
  <2>1. StateType' /\ PowerType' /\ FileType' /\ WorldType'
    BY <1>7, <1>t DEF CounterStop, CounterShutdown, StateType, PowerType, FileType, WorldType, state, change,
       held, storage, device
  <2>2. ThreadType'
    BY <1>7, <1>t DEF CounterStop, CounterShutdown, ThreadType, source, timers
  <2>3. QED
    BY <2>1, <2>2 DEF TypeOK
<1>8. CASE Exit \/ Crash
  <2>1. Gone /\ file' \in {file, disk} /\ disk' \in {file, disk}
    BY <1>8 DEF Exit, Crash, storage
  <2>2. StateType' /\ PowerType'
    BY <2>1, Zero, Zenon DEF Gone, StateType, PowerType
  <2>w. WorldType'
    BY <2>1, <1>t DEF Gone, WorldType, device
  <2>3. ThreadType'
    BY <2>1, <1>t, Zero, Zenon DEF Gone, ThreadType
  <2>4. FileType'
    BY <2>1, <1>t DEF Gone, FileType
  <2>5. QED
    BY <2>2, <2>w, <2>3, <2>4 DEF TypeOK
<1>9. CASE (\E d \in Steps : Consume(d)) \/ DeviceReset \/ Tick
  <2>1. StateType' /\ PowerType' /\ FileType'
    BY <1>9, <1>t DEF Consume, DeviceReset, Tick, StateType, PowerType, FileType, state, change, held, storage
  <2>2. ThreadType'
    BY <1>9, <1>t DEF Consume, DeviceReset, Tick, ThreadType, source, timers
  <2>3. WorldType'
    BY <1>9, <1>t, ConfFacts DEF Consume, DeviceReset, Tick, WorldType, device
  <2>4. QED
    BY <2>1, <2>2, <2>3 DEF TypeOK
<1>10. CASE UNCHANGED vars
  <2>1. StateType' /\ PowerType' /\ FileType'
    BY <1>10, <1>t DEF vars, StateType, PowerType, FileType, state, change, held, storage
  <2>2. ThreadType' /\ WorldType'
    BY <1>10, <1>t DEF vars, ThreadType, WorldType, source, timers, device
  <2>3. QED
    BY <2>1, <2>2 DEF TypeOK
<1>11. CASE SourceReports
  <2>1. meter \in Int /\ Glitches \subseteq Int /\ Powers \subseteq Int
    BY <1>t, ConfFacts DEF WorldType
  <2>2. \E f \in Int, v \in BOOLEAN : SourceBegin(f, v)
    <3>1. CASE \E f \in {meter} \cup Glitches : SourceBegin(f, TRUE)
      BY <3>1, <2>1
    <3>2. CASE \E f \in Powers : SourceBegin(f, TRUE)
      BY <3>2, <2>1
    <3>3. CASE SourceBegin(0, FALSE)
      BY <3>3, Zero, Zenon
    <3>4. QED
      BY <1>11, <3>1, <3>2, <3>3 DEF SourceReports
  <2>3. QED
    BY <2>2, <1>3
<1>12. QED
  BY <1>1, <1>2, <1>4, <1>5, <1>6, <1>7, <1>8, <1>9, <1>10, <1>11
     DEF Next, SourceUpdate, CountStep, ThreadStep, Ended

-----------------------------------------------------------------------------
(***************************************************************************)
(* What is saved.                                                          *)
(***************************************************************************)

\* Between two runs of the program nothing is in its memory; nothing is being
\* saved then, and when the thread has been joined.
OffIsClean ==
  /\ phase = "off" => ~initialized /\ ~dirty /\ src_pc = "idle" /\ published = Nothing
  /\ phase \in {"off", "joined"} => thr_pc = "sleep"

\* What is in the file, or may be there after a power failure, reads and
\* writes back as it is.
Stable(p) == p \in {Missing, Invalid} \/ FileOf(p) = p

\* A state that is not marked dirty is in the file, or is the one save_states()
\* has copied and is writing.
CleanIsKept ==
  phase # "off" /\ initialized /\ ~dirty =>
    IF thr_pc = "write" THEN snap = <<accum, last_read>>
                        ELSE file = FileOf(<<accum, last_read>>)

SaveInv == TypeOK /\ OffIsClean /\ Stable(file) /\ Stable(disk) /\ CleanIsKept

LEMMA SaveInitInv == Init => SaveInv
<1> SUFFICES ASSUME Init PROVE SaveInv
  OBVIOUS
<1>1. OffIsClean
  BY DEF Init, OffIsClean
<1>2. Stable(file) /\ Stable(disk) /\ CleanIsKept
  BY DEF Init, Stable, CleanIsKept
<1>3. QED
  BY <1>1, <1>2, InitTypes DEF SaveInv

LEMMA SaveNextInv == SaveInv /\ [Next]_vars => SaveInv'
<1> SUFFICES ASSUME SaveInv, [Next]_vars PROVE SaveInv'
  OBVIOUS
<1>t. TypeOK /\ OffIsClean /\ Stable(file) /\ Stable(disk) /\ CleanIsKept
  BY DEF SaveInv
<1>t2. TypeOK'
  BY <1>t, NextTypes
<1>1. CASE Startup
  <2>1. /\ phase = "off" /\ phase' = "running" /\ LoadState
        /\ UNCHANGED <<dirty, thr_pc, src_pc, published, file, disk>>
    BY <1>1 DEF Startup, source, storage
  <2>2. initialized' => /\ file \in Nat \X Nat /\ file = FileOf(file)
                        /\ accum' = file[1] /\ last_read' = file[2]
    BY <2>1, <1>t DEF LoadState, Stable, TypeOK, FileType
  <2>3. initialized' => file = FileOf(<<accum', last_read'>>)
    <3> SUFFICES ASSUME initialized' PROVE file = FileOf(<<accum', last_read'>>)
      OBVIOUS
    <3>1. file = <<accum', last_read'>>
      BY <2>2
    <3>2. QED
      BY <2>2, <3>1
  <2>4. CleanIsKept'
    BY <2>1, <2>3, <1>t DEF CleanIsKept, OffIsClean, FileOf, Rounded
  <2>5. OffIsClean' /\ Stable(file)' /\ Stable(disk)'
    BY <2>1, <1>t DEF OffIsClean, Stable, FileOf, Rounded
  <2>6. QED
    BY <2>4, <2>5, <1>t2 DEF SaveInv
<1>2. CASE CountStep
  <2>1. /\ phase # "off" /\ phase' # "off"
    BY <1>2, <1>t DEF CountStep, DeviceUpdate, PowerUpdate, PowerStop, ThreadTick, OffIsClean
  <2>2. /\ dirty' \/ UNCHANGED <<accum, last_read, initialized>>
        /\ (dirty => dirty') /\ UNCHANGED <<file, disk, snap, phase>>
    BY <1>2, <1>t, TotalGrows
  <2>3. thr_pc' = thr_pc \/ (thr_pc = "tick" /\ thr_pc' = "save")
    BY <1>2 DEF CountStep, DeviceUpdate, PowerUpdate, PowerStop, ThreadTick
  <2>4. CleanIsKept'
    BY <2>1, <2>2, <2>3, <1>t DEF CleanIsKept, FileOf, Rounded
  <2>5. OffIsClean' /\ Stable(file)' /\ Stable(disk)'
    BY <2>1, <2>2, <2>3, <1>t DEF OffIsClean, Stable, FileOf, Rounded
  <2>6. QED
    BY <2>4, <2>5, <1>t2 DEF SaveInv
<1>3. CASE SaveSnapshot
  <2>1. /\ thr_pc = "save" /\ dirty' = FALSE /\ UNCHANGED <<initialized, accum, last_read, phase, file, disk>>
        /\ IF dirty THEN thr_pc' = "write" /\ snap' = <<accum, last_read>> ELSE thr_pc' = "sleep"
    BY <1>3 DEF SaveSnapshot, PassEnd, storage
  <2>2. phase # "off"
    BY <2>1, <1>t DEF OffIsClean
  <2>3. CleanIsKept'
    BY <2>1, <2>2, <1>t DEF CleanIsKept, FileOf, Rounded
  <2>4. OffIsClean' /\ Stable(file)' /\ Stable(disk)'
    BY <2>1, <2>2, <1>t DEF OffIsClean, Stable, FileOf, Rounded
  <2>5. QED
    BY <2>3, <2>4, <1>t2 DEF SaveInv
<1>4. CASE SaveWrite
  <2>1. /\ thr_pc = "write" /\ thr_pc' = "sync" /\ file' = FileOf(snap)
        /\ UNCHANGED <<initialized, accum, last_read, dirty, phase, disk>>
    BY <1>4 DEF SaveWrite, state
  <2>2. phase # "off"
    BY <2>1, <1>t DEF OffIsClean
  <2>3. CleanIsKept'
    BY <2>1, <2>2, <1>t DEF CleanIsKept, FileOf, Rounded
  <2>4. FileOf(file') = file'
    BY <2>1, <1>t, FileIsStable DEF TypeOK, FileType
  <2>5. OffIsClean' /\ Stable(file)' /\ Stable(disk)'
    BY <2>1, <2>2, <2>4, <1>t DEF OffIsClean, Stable, FileOf, Rounded
  <2>6. QED
    BY <2>3, <2>5, <1>t2 DEF SaveInv
<1>5. CASE SaveFails \/ SaveSync
  <2>1. /\ thr_pc \in {"write", "sync"} /\ UNCHANGED <<initialized, accum, last_read, phase, file>>
        /\ disk' \in {file, disk}
        /\ dirty' \/ (thr_pc = "sync" /\ thr_pc' = "sleep" /\ UNCHANGED dirty)
    BY <1>5 DEF SaveFails, SaveSync, PassEnd, state, storage
  <2>2. phase # "off"
    BY <2>1, <1>t DEF OffIsClean
  <2>3. CleanIsKept'
    BY <2>1, <2>2, <1>t DEF CleanIsKept, FileOf, Rounded
  <2>4. OffIsClean' /\ Stable(file)' /\ Stable(disk)'
    BY <2>1, <2>2, <1>t DEF OffIsClean, Stable, FileOf, Rounded
  <2>5. QED
    BY <2>3, <2>4, <1>t2 DEF SaveInv
<1>6. CASE Exit \/ Crash
  <2>1. Gone /\ file' \in {file, disk} /\ disk' \in {file, disk}
    BY <1>6 DEF Exit, Crash, storage
  <2>2. OffIsClean' /\ CleanIsKept'
    BY <2>1 DEF Gone, OffIsClean, CleanIsKept
  <2>3. Stable(file)' /\ Stable(disk)'
    BY <2>1, <1>t DEF Stable, FileOf, Rounded
  <2>4. QED
    BY <2>2, <2>3, <1>t2 DEF SaveInv
<1>7. CASE CounterPublish \/ SourceReports \/ SourceIgnored \/ ThreadWakes \/ NoSave \/ CounterStop
            \/ CounterShutdown \/ (\E d \in Steps : Consume(d)) \/ DeviceReset \/ Tick \/ UNCHANGED vars
  <2>1. /\ UNCHANGED <<initialized, accum, last_read, dirty, file, disk>>
        /\ (thr_pc' = thr_pc /\ snap' = snap) \/ (thr_pc # "write" /\ thr_pc' # "write")
        /\ phase' = phase \/ (phase # "off" /\ phase' # "off")
        /\ phase = "off" => UNCHANGED <<thr_pc, src_pc, published>>
        /\ phase' = "joined" => thr_pc' = "sleep"
    <3>1. CASE CounterPublish \/ SourceReports \/ CounterStop \/ CounterShutdown
      BY <3>1, <1>t DEF CounterPublish, SourceReports, SourceBegin, CounterStop, CounterShutdown, state, storage,
         OffIsClean
    <3>2. CASE SourceIgnored \/ ThreadWakes \/ NoSave
      BY <3>2, <1>t DEF SourceIgnored, ThreadWakes, NoSave, PassEnd, state, storage, OffIsClean
    <3>3. CASE (\E d \in Steps : Consume(d)) \/ DeviceReset \/ Tick \/ UNCHANGED vars
      BY <3>3, <1>t DEF Consume, DeviceReset, Tick, vars, state, source, storage, OffIsClean
    <3>4. QED
      BY <1>7, <3>1, <3>2, <3>3
  <2>2. CleanIsKept'
    BY <2>1, <1>t DEF CleanIsKept, FileOf, Rounded
  <2>3. OffIsClean' /\ Stable(file)' /\ Stable(disk)'
    BY <2>1, <1>t DEF OffIsClean, Stable, FileOf, Rounded
  <2>4. QED
    BY <2>2, <2>3, <1>t2 DEF SaveInv
<1>8. QED
  BY <1>1, <1>2, <1>3, <1>4, <1>5, <1>6, <1>7 DEF Next, SourceUpdate, CountStep, ThreadStep, Ended

\* save_states(): a state that is not marked dirty is in the file, for any
\* order of readings, ticks, copies, writes and failed writes, and across
\* crashes and restarts.
THEOREM ChangesAreMarked == Spec => []CleanIsSaved
<1>1. SaveInv => CleanIsSaved
  BY DEF SaveInv, CleanIsKept, CleanIsSaved
<1>2. QED
  BY SaveInitInv, SaveNextInv, <1>1, PTL DEF Spec

-----------------------------------------------------------------------------
(***************************************************************************)
(* What is published.                                                      *)
(***************************************************************************)

\* The total published last is not above the one in memory.
PublishedReached == published # Nothing => initialized /\ published <= accum

TotalInv == SaveInv /\ PublishedReached

\* A step of a running program publishes the total or nothing.
LEMMA TotalStep ==
  ASSUME TotalInv, [Next]_vars
  PROVE  /\ PublishedReached'
         /\ published # Nothing /\ published' # Nothing => published' >= published
<1>t. TypeOK /\ OffIsClean /\ PublishedReached
  BY DEF TotalInv, SaveInv
<1>n. accum \in Nat /\ (published # Nothing => published \in Nat) /\ Nothing \notin Nat
  BY <1>t, CounterConstants DEF TypeOK, StateType, CounterConstants
<1>1. CASE CountStep
  <2>1. /\ accum' \in Nat /\ accum' >= accum /\ (initialized => initialized')
        /\ published' = published \/ (published' = accum' /\ initialized')
    BY <1>1, <1>t, TotalGrows
  <2>2. QED
    BY <2>1, <1>t, <1>n DEF PublishedReached
<1>2. CASE CounterPublish
  <2>1. published = Nothing /\ UNCHANGED <<initialized, accum>> /\ (published' = Nothing \/ (published' = accum /\ initialized))
    BY <1>2 DEF CounterPublish, Publish, state
  <2>2. QED
    BY <2>1, <1>n DEF PublishedReached
<1>3. CASE Startup \/ Exit \/ Crash
  <2>1. published' = Nothing
    BY <1>3, <1>t DEF Startup, Exit, Crash, Gone, OffIsClean
  <2>2. QED
    BY <2>1 DEF PublishedReached
<1>4. CASE UNCHANGED <<initialized, accum, published>>
  BY <1>4, <1>t, <1>n DEF PublishedReached
<1>5. QED
  <2>1. CASE ~CountStep /\ ~CounterPublish /\ ~(Startup \/ Exit \/ Crash)
    BY <2>1, <1>4 DEF Next, SourceReports, SourceBegin, SourceUpdate, SourceIgnored, ThreadStep, ThreadWakes,
       NoSave, SaveSnapshot, SaveWrite, SaveFails, SaveSync, CounterStop, CounterShutdown, Consume,
       DeviceReset, Tick, Ended, vars, state, CountStep
  <2>2. QED
    BY <2>1, <1>1, <1>2, <1>3

\* device_update(), power_update(), power_stop(), counter_thread(): the total
\* the outputs get never decreases in a run, for any device, power and sign.
THEOREM TotalsOnlyGrow == Spec => TotalNeverDecreases
<1> DEFINE Grows == published # Nothing /\ published' # Nothing => published' >= published
<1>1. Init => TotalInv
  BY SaveInitInv DEF Init, TotalInv, PublishedReached
<1>2. TotalInv /\ [Next]_vars => TotalInv'
  BY SaveNextInv, TotalStep DEF TotalInv
<1>3. TotalInv /\ [Next]_vars => [Grows]_vars
  BY TotalStep
<1>4. QED
  BY <1>1, <1>2, <1>3, PTL DEF Spec, TotalNeverDecreases

\* A file that cannot be parsed has disabled the counter: there is nothing to
\* save.
BrokenDisables ==
  file = Invalid =>
    /\ disk = Invalid /\ published = Nothing
    /\ ~dirty /\ ~initialized /\ thr_pc # "write"
    /\ phase # "off" => disabled

BrokenInv == SaveInv /\ BrokenDisables

LEMMA BrokenStep ==
  ASSUME BrokenInv, [Next]_vars
  PROVE  BrokenDisables' /\ (file = Invalid => file' = Invalid /\ published' = Nothing)
<1>t. TypeOK /\ OffIsClean /\ BrokenDisables
  BY DEF BrokenInv, SaveInv
<1>1. CASE SaveWrite
  <2>1. file # Invalid
    BY <1>1, <1>t DEF SaveWrite, BrokenDisables
  <2>2. file' \in Nat \X Nat
    BY <1>1, <1>t, FileIsStable DEF SaveWrite, TypeOK, FileType
  <2>3. file' # Invalid
    BY <2>2, CounterConstants DEF CounterConstants
  <2>4. QED
    BY <2>1, <2>3 DEF BrokenDisables
<1>2. CASE CountStep
  <2>1. /\ disabled => UNCHANGED <<accum, last_read, initialized, dirty, published>>
        /\ UNCHANGED <<disabled, file, disk, phase>>
    BY <1>2, <1>t, TotalGrows
  <2>2. phase # "off" /\ (thr_pc' = thr_pc \/ thr_pc' = "save")
    BY <1>2, <1>t DEF CountStep, DeviceUpdate, PowerUpdate, PowerStop, ThreadTick, OffIsClean
  <2>3. QED
    BY <2>1, <2>2, <1>t DEF BrokenDisables
<1>3. CASE Startup
  BY <1>3, <1>t DEF Startup, LoadState, BrokenDisables, storage
<1>4. CASE Exit \/ Crash
  <2>1. Gone /\ file' \in {file, disk} /\ (file' = Invalid => disk' = Invalid)
    BY <1>4, <1>t DEF Exit, Crash, storage, BrokenDisables
  <2>2. QED
    BY <2>1, <1>t DEF Gone, BrokenDisables
<1>5. CASE SaveSync
  BY <1>5, <1>t DEF SaveSync, PassEnd, state, BrokenDisables
<1>6. CASE SaveSnapshot \/ SaveFails
  BY <1>6, <1>t DEF SaveSnapshot, SaveFails, PassEnd, storage, BrokenDisables
<1>7. CASE CounterPublish
  BY <1>7, <1>t DEF CounterPublish, Publish, state, storage, BrokenDisables
<1>8. CASE /\ UNCHANGED <<state, storage, published>> /\ (phase' = "off" <=> phase = "off")
           /\ thr_pc' = "write" => thr_pc = "write"
  BY <1>8, <1>t DEF state, storage, BrokenDisables
<1>9. QED
  <2>1. CASE SourceReports \/ SourceIgnored \/ ThreadWakes \/ NoSave \/ CounterStop \/ CounterShutdown
             \/ (\E d \in Steps : Consume(d)) \/ DeviceReset \/ Tick \/ UNCHANGED vars
    BY <2>1, <1>8 DEF SourceReports, SourceBegin, SourceIgnored, ThreadWakes, NoSave, PassEnd, CounterStop,
       CounterShutdown, Consume, DeviceReset, Tick, vars
  <2>2. QED
    BY <2>1, <1>1, <1>2, <1>3, <1>4, <1>5, <1>6, <1>7 DEF Next, SourceUpdate, CountStep, ThreadStep, Ended

\* load_state(): a state file that cannot be parsed is never overwritten and
\* nothing is published, in this run or in later ones.
THEOREM BrokenFilesAreKept == Spec => BrokenFileIsKept
<1> DEFINE Kept == file = Invalid => file' = Invalid /\ published' = Nothing
<1>1. Init => BrokenInv
  BY SaveInitInv DEF Init, BrokenInv, BrokenDisables
<1>2. BrokenInv /\ [Next]_vars => BrokenInv'
  BY SaveNextInv, BrokenStep DEF BrokenInv
<1>3. BrokenInv /\ [Next]_vars => [Kept]_vars
  BY BrokenStep
<1>4. QED
  BY <1>1, <1>2, <1>3, PTL DEF Spec, BrokenFileIsKept

-----------------------------------------------------------------------------
(***************************************************************************)
(* What is counted.                                                        *)
(***************************************************************************)

\* The energy a reading x stands for after the reading r.
Delta(r, x) == IF x < r THEN x ELSE x - r

\* A pair of total and last reading is honest if reading the device now would
\* not bring the total above the energy metered.
Honest(a, r) == a + Delta(r, meter) <= energy

\* A pair in the state file is honest too: it may be loaded at any time.
HonestFile(p) == p \in Nat \X Nat => Honest(p[1], p[2])

\* A device that reports its count, or something negative.
DeviceOnly == ~IntegratePower /\ \A g \in Glitches : g < 0

HonestInv ==
  /\ meter <= energy
  /\ HonestFile(file) /\ HonestFile(disk)
  /\ thr_pc = "write" => Honest(snap[1], snap[2])
  /\ phase # "off" => Honest(accum, last_read)
  /\ phase # "off" /\ ~initialized => accum = 0 /\ last_read = 0
  /\ src_pc = "update" /\ src_valid /\ src_f >= 0 =>
       accum + Delta(last_read, src_f) + Delta(src_f, meter) <= energy

CountInv == SaveInv /\ (DeviceOnly => HonestInv)

\* The device meters d: no pair has more to add than that.
LEMMA DeltaGrows ==
  ASSUME NEW r \in Nat, NEW m \in Nat, NEW d \in Nat
  PROVE  Delta(r, m + d) <= Delta(r, m) + d /\ Delta(r, m) \in Nat /\ Delta(r, 0) = 0
BY DEF Delta

LEMMA CountInitInv == Init => CountInv
<1> SUFFICES ASSUME Init PROVE HonestInv
  BY SaveInitInv DEF CountInv
<1>1. file \notin Nat \X Nat /\ disk \notin Nat \X Nat
  BY CounterConstants DEF Init, CounterConstants
<1>2. QED
  BY <1>1 DEF Init, HonestInv, HonestFile

\* With a grain of one unit the file keeps what it is given.
LEMMA CountNextInv ==
  ASSUME Grain = 1
  PROVE  CountInv /\ [Next]_vars => CountInv'
<1> SUFFICES ASSUME CountInv, [Next]_vars, DeviceOnly' PROVE HonestInv'
  BY SaveNextInv DEF CountInv
<1>c. UNCHANGED conf
  BY DEF Next, Startup, CounterPublish, SourceReports, SourceBegin, SourceUpdate, DeviceUpdate, PowerUpdate,
     PowerStop, SourceIgnored, ThreadStep, ThreadWakes, ThreadTick, NoSave, SaveSnapshot, SaveWrite, SaveFails,
     SaveSync, CounterStop, CounterShutdown, Exit, Crash, Gone, Consume, DeviceReset, Tick, Ended, vars
<1>d. DeviceOnly
  BY <1>c DEF DeviceOnly, IntegratePower, Glitches
<1>t. SaveInv /\ HonestInv /\ TypeOK /\ OffIsClean
  BY <1>d DEF CountInv, SaveInv
<1>n. /\ accum \in Nat /\ last_read \in Nat /\ meter \in Nat /\ energy \in Nat /\ src_f \in Int
      /\ snap \in Nat \X Nat
  BY <1>t DEF TypeOK, StateType, WorldType, ThreadType, FileType
<1>1. CASE Startup
  <2>1. /\ LoadState /\ phase = "off" /\ UNCHANGED <<file, disk, thr_pc, snap, src_pc, src_valid, src_f, meter, energy>>
    BY <1>1 DEF Startup, storage, source, device
  <2>2. src_pc = "idle" /\ thr_pc = "sleep"
    BY <2>1, <1>t DEF OffIsClean
  <2>3. CASE initialized'
    <3>1. file \in Nat \X Nat /\ accum' = file[1] /\ last_read' = file[2]
      BY <2>1, <2>3, <1>t DEF LoadState, TypeOK, FileType
    <3>2. Honest(file[1], file[2])
      BY <3>1, <1>t DEF HonestInv, HonestFile
    <3>3. QED
      BY <2>1, <2>2, <2>3, <3>1, <3>2, <1>t DEF HonestInv, HonestFile, Honest
  <2>4. CASE ~initialized'
    <3>1. accum' = 0 /\ last_read' = 0
      BY <2>1, <2>4 DEF LoadState
    <3>2. Honest(0, 0)
      BY <1>t, <1>n DEF HonestInv, Honest, Delta
    <3>3. QED
      BY <2>1, <2>2, <2>4, <3>1, <3>2, <1>t DEF HonestInv, HonestFile, Honest
  <2>5. QED
    BY <2>3, <2>4
<1>2. ASSUME NEW f \in Int, NEW v \in BOOLEAN, SourceBegin(f, v), v => f = meter \/ f < 0 PROVE HonestInv'
  <2>1. /\ phase # "off" /\ src_f' = f /\ src_valid' = v
        /\ UNCHANGED <<state, phase, file, disk, thr_pc, snap, meter, energy>>
    BY <1>2 DEF SourceBegin, storage, device
  <2>2. Delta(meter, meter) = 0 /\ Delta(last_read, meter) \in Nat
    BY <1>n DEF Delta
  <2>3. accum + Delta(last_read, meter) + Delta(meter, meter) <= energy
    BY <2>1, <2>2, <1>t, <1>n DEF HonestInv, Honest
  <2>4. src_valid' /\ src_f' >= 0 => accum + Delta(last_read, f) + Delta(f, meter) <= energy
    BY <1>2, <2>1, <2>3
  <2>5. QED
    BY <2>1, <2>4, <1>t DEF HonestInv, HonestFile, Honest, state
<1>3. CASE DeviceUpdate
  <2>1. /\ src_pc = "update" /\ src_valid /\ src_f \in Nat /\ src_pc' = "idle"
        /\ UNCHANGED <<phase, file, disk, thr_pc, snap, meter, energy>>
    BY <1>3, <1>n DEF DeviceUpdate, SourceEnd, storage, device
  <2>2. phase # "off"
    BY <2>1, <1>t DEF OffIsClean
  <2>3. accum + Delta(last_read, src_f) + Delta(src_f, meter) <= energy
    BY <2>1, <1>t, <1>n DEF HonestInv
  <2>4. Delta(src_f, meter) \in Nat /\ Delta(last_read, src_f) \in Nat
    BY <2>1, <1>n, DeltaGrows DEF Delta
  <2>5. Increase(src_f, src_now) \in {0, Delta(last_read, src_f)}
    BY DEF Increase, Delta
  <2>6. \/ UNCHANGED <<accum, last_read, initialized>>
        \/ initialized' /\ last_read' = src_f /\ accum' \in {accum, accum + Delta(last_read, src_f)}
    <3>1. CASE ~initialized
      <4>1. accum' = accum + src_f /\ last_read' = src_f /\ initialized' = TRUE
        BY <1>3, <3>1 DEF DeviceUpdate, TakeReading
      <4>2. Delta(last_read, src_f) = src_f
        BY <3>1, <2>1, <2>2, <1>t DEF HonestInv, Delta
      <4>3. QED
        BY <4>1, <4>2
    <3>2. CASE initialized
      <4>1. \/ UNCHANGED state
            \/ accum' = accum + Increase(src_f, src_now) /\ last_read' = src_f /\ initialized' = TRUE
        BY <1>3, <3>2 DEF DeviceUpdate, TakeReading
      <4>2. QED
        BY <4>1, <2>5, <1>n DEF state
    <3>3. QED
      BY <3>1, <3>2
  <2>7. Honest(accum, last_read)' /\ (~initialized' => accum' = 0 /\ last_read' = 0)
    <3>1. CASE UNCHANGED <<accum, last_read, initialized>>
      BY <3>1, <2>1, <2>2, <1>t DEF HonestInv, Honest
    <3>2. CASE initialized' /\ last_read' = src_f /\ accum' \in {accum, accum + Delta(last_read, src_f)}
      <4>1. accum' + Delta(src_f, meter) <= energy
        BY <3>2, <2>3, <2>4, <1>n
      <4>2. QED
        BY <3>2, <4>1, <2>1 DEF Honest
    <3>3. QED
      BY <2>6, <3>1, <3>2
  <2>8. QED
    BY <2>1, <2>7, <1>t DEF HonestInv, HonestFile, Honest
<1>4. CASE SaveSnapshot
  <2>1. /\ thr_pc = "save" /\ UNCHANGED <<accum, last_read, initialized, phase, file, disk, meter, energy, source>>
        /\ thr_pc' = "write" => snap' = <<accum, last_read>>
    BY <1>4 DEF SaveSnapshot, PassEnd, storage, device
  <2>2. phase # "off"
    BY <2>1, <1>t DEF OffIsClean
  <2>3. thr_pc' = "write" => Honest(snap'[1], snap'[2])
    BY <2>1, <2>2, <1>t DEF HonestInv
  <2>4. QED
    BY <2>1, <2>3, <1>t DEF HonestInv, HonestFile, Honest, source
<1>5. CASE SaveWrite
  <2>1. thr_pc = "write" /\ thr_pc' = "sync" /\ file' = snap
        /\ UNCHANGED <<state, phase, disk, snap, meter, energy, source>>
    BY <1>5, <1>n, FileIsExact DEF SaveWrite, device
  <2>2. HonestFile(snap)
    BY <2>1, <1>t DEF HonestInv, HonestFile
  <2>3. QED
    BY <2>1, <2>2, <1>t DEF HonestInv, HonestFile, Honest, state, source
<1>6. CASE Exit \/ Crash
  <2>1. Gone /\ file' \in {file, disk} /\ disk' \in {file, disk}
    BY <1>6 DEF Exit, Crash, storage
  <2>2. UNCHANGED <<meter, energy>> /\ phase' = "off" /\ thr_pc' = "sleep" /\ src_pc' = "idle"
    BY <2>1 DEF Gone, device
  <2>3. QED
    BY <2>1, <2>2, <1>t DEF HonestInv, HonestFile, Honest
<1>7. ASSUME NEW d \in Nat, meter' = meter + d, energy' = energy + d,
             UNCHANGED <<state, phase, file, disk, thr_pc, snap, source>>
      PROVE  HonestInv'
  <2>1. \A a, r \in Nat : Honest(a, r) => a + Delta(r, meter') <= energy'
    <3> SUFFICES ASSUME NEW a \in Nat, NEW r \in Nat, Honest(a, r)
                 PROVE  a + Delta(r, meter') <= energy'
      OBVIOUS
    <3>1. Delta(r, meter + d) <= Delta(r, meter) + d /\ Delta(r, meter) \in Nat
      BY <1>n, DeltaGrows
    <3>2. Delta(r, meter + d) \in Nat
      BY <1>n DEF Delta
    <3>3. a + Delta(r, meter) <= energy
      BY DEF Honest
    <3>4. a + Delta(r, meter + d) <= energy + d
      BY <3>1, <3>2, <3>3, <1>n
    <3>5. QED
      BY <3>4, <1>7
  <2>2. HonestFile(file)' /\ HonestFile(disk)'
    BY <1>7, <2>1, <1>t DEF HonestInv, HonestFile, Honest
  <2>3. thr_pc = "write" => Honest(snap[1], snap[2])'
    BY <1>7, <2>1, <1>t, <1>n DEF HonestInv, Honest
  <2>4. phase # "off" => Honest(accum, last_read)'
    BY <1>7, <2>1, <1>t, <1>n DEF HonestInv, Honest, state
  <2>5. ASSUME src_pc = "update", src_valid, src_f >= 0
        PROVE  accum + Delta(last_read, src_f) + Delta(src_f, meter') <= energy'
    <3>1. src_f \in Nat
      BY <2>5, <1>n
    <3>2. Delta(src_f, meter + d) <= Delta(src_f, meter) + d /\ Delta(src_f, meter) \in Nat
          /\ Delta(src_f, meter + d) \in Nat /\ Delta(last_read, src_f) \in Nat
      BY <3>1, <1>n, DeltaGrows DEF Delta
    <3>3. accum + Delta(last_read, src_f) + Delta(src_f, meter) <= energy
      BY <2>5, <1>t DEF HonestInv
    <3>4. QED
      BY <1>7, <3>2, <3>3, <1>n
  <2>6. meter' <= energy'
    BY <1>7, <1>t, <1>n DEF HonestInv
  <2>7. QED
    BY <1>7, <2>2, <2>3, <2>4, <2>5, <2>6, <1>t DEF HonestInv, state, source
<1>8. CASE DeviceReset
  <2>1. meter' = 0 /\ UNCHANGED <<energy, state, phase, file, disk, thr_pc, snap, source>>
    BY <1>8 DEF DeviceReset, storage
  <2>2. \A a, r \in Nat : Honest(a, r) => a + Delta(r, meter') <= energy
    BY <2>1, <1>n DEF Honest, Delta
  <2>3. HonestFile(file)' /\ HonestFile(disk)'
    BY <2>1, <2>2, <1>t DEF HonestInv, HonestFile, Honest
  <2>4. thr_pc = "write" => Honest(snap[1], snap[2])'
    BY <2>1, <2>2, <1>t, <1>n DEF HonestInv, Honest
  <2>5. phase # "off" => Honest(accum, last_read)'
    BY <2>1, <2>2, <1>t, <1>n DEF HonestInv, Honest, state
  <2>6. ASSUME src_pc = "update", src_valid, src_f >= 0
        PROVE  accum + Delta(last_read, src_f) + Delta(src_f, 0) <= energy
    <3>1. Delta(src_f, meter) \in Nat /\ Delta(src_f, 0) = 0 /\ Delta(last_read, src_f) \in Nat
      BY <2>6, <1>n DEF Delta
    <3>2. accum + Delta(last_read, src_f) + Delta(src_f, meter) <= energy
      BY <2>6, <1>t DEF HonestInv
    <3>3. QED
      BY <3>1, <3>2, <1>n
  <2>7. 0 <= energy
    BY <1>n
  <2>8. QED
    BY <2>1, <2>3, <2>4, <2>5, <2>6, <2>7, <1>t DEF HonestInv, state, source
<1>9. CASE /\ UNCHANGED <<accum, last_read, initialized, file, meter, energy>>
           /\ disk' \in {file, disk}
           /\ thr_pc' = "write" => thr_pc = "write" /\ UNCHANGED snap
           /\ phase' = "off" <=> phase = "off"
           /\ src_pc' = "update" => UNCHANGED source
  BY <1>9, <1>t DEF HonestInv, HonestFile, Honest, source
<1>10. QED
  <2>1. CASE SourceReports
    <3>1. \E f \in Int, v \in BOOLEAN : SourceBegin(f, v) /\ (v => f = meter \/ f < 0)
      <4>1. meter \in Int /\ Glitches \subseteq Int /\ (\A g \in Glitches : g < 0) /\ ~IntegratePower
        BY <1>d, <1>t, <1>n, ConfFacts DEF DeviceOnly, TypeOK, WorldType
      <4>2. CASE \E f \in {meter} \cup Glitches : SourceBegin(f, TRUE)
        BY <4>1, <4>2
      <4>3. CASE SourceBegin(0, FALSE)
        BY <4>3, Zero, Zenon
      <4>4. QED
        BY <2>1, <4>1, <4>2, <4>3 DEF SourceReports
    <3>2. QED
      BY <3>1, <1>2
  <2>2. CASE \E d \in Steps : Consume(d)
    <3>1. Steps \subseteq Nat
      BY <1>t, ConfFacts DEF TypeOK, WorldType
    <3>2. PICK d \in Nat : Consume(d)
      BY <2>2, <3>1
    <3>3. /\ meter' = meter + d /\ energy' = energy + d
          /\ UNCHANGED <<state, phase, file, disk, thr_pc, snap, source>>
      BY <3>2 DEF Consume, storage
    <3>4. QED
      BY <3>3, <1>7
  <2>3. CASE CounterPublish \/ SourceIgnored \/ ThreadWakes \/ ThreadTick \/ NoSave \/ SaveFails \/ SaveSync
             \/ CounterStop \/ CounterShutdown \/ Tick \/ UNCHANGED vars
    <3>1. CASE CounterPublish \/ CounterStop \/ CounterShutdown \/ Tick \/ UNCHANGED vars
      BY <3>1, <1>9 DEF CounterPublish, CounterStop, CounterShutdown, Tick, vars, state, storage, device
    <3>2. CASE SourceIgnored \/ ThreadWakes \/ NoSave \/ SaveFails \/ SaveSync
      BY <3>2, <1>9 DEF SourceIgnored, SourceEnd, ThreadWakes, NoSave, SaveFails, SaveSync, PassEnd, state, storage,
         device
    <3>3. CASE ThreadTick
      BY <3>3, <1>d, <1>9 DEF ThreadTick, DeviceOnly, state, storage, device
    <3>4. QED
      BY <2>3, <3>1, <3>2, <3>3
  <2>4. ~PowerUpdate /\ ~PowerStop
    BY <1>d DEF DeviceOnly, PowerUpdate, PowerStop
  <2>5. QED
    BY <2>1, <2>2, <2>3, <2>4, <1>1, <1>3, <1>4, <1>5, <1>6, <1>8 DEF Next, SourceUpdate, ThreadStep, Ended

\* device_update(), save_states(), load_state(): a device counter never counts
\* energy the device has not metered, for any readings, resets, crashes, lost
\* saves and restarts, if the file's last decimal is as fine as the readings
\* (it is not true otherwise: run counter_rounding).
THEOREM EnergyIsMetered == Grain = 1 /\ Spec => []NeverOvercounts
<1> SUFFICES ASSUME Grain = 1 PROVE Spec => []NeverOvercounts
  OBVIOUS
<1>1. CountInv => NeverOvercounts
  <2> SUFFICES ASSUME CountInv, phase # "off", ~IntegratePower, \A g \in Glitches : g < 0
               PROVE  accum <= energy + loads * (Grain - 1)
    BY DEF NeverOvercounts
  <2>1. Honest(accum, last_read)
    BY DEF CountInv, DeviceOnly, HonestInv
  <2>2. /\ accum \in Nat /\ last_read \in Nat /\ meter \in Nat /\ energy \in Nat /\ loads \in Nat
    BY DEF CountInv, SaveInv, TypeOK, StateType, WorldType
  <2>3. accum <= energy
    BY <2>1, <2>2 DEF Honest, Delta
  <2>4. QED
    BY <2>2, <2>3
<1>2. QED
  BY CountInitInv, CountNextInv, <1>1, PTL DEF Spec

-----------------------------------------------------------------------------
(***************************************************************************)
(* What nonsense may add.                                                  *)
(***************************************************************************)

\* The total, up to the time of the last change: nonsense counts as a whole
\* at most once, as the first reading.
Plausible ==
  \E first \in {0} \cup Glitches : accum <= energy + MaxPower * change_ts + first

\* The reading in source_update() is one of a device.
Reported == src_f <= energy \/ src_f \in Glitches

\* A first run begins without a total, and every reading that changes the
\* total is compared with the time since the last one.
GlitchInv ==
  /\ meter <= energy
  /\ change_ts <= now
  /\ src_pc = "update" => change_ts <= src_now /\ src_now <= now
  /\ src_pc = "update" /\ src_valid /\ ~IntegratePower => Reported
  /\ loads = 0 => phase = "off" /\ file \in {Missing, Invalid}
  /\ phase # "off" /\ MaxPower > 0 /\ loads = 1 =>
       IF initialized THEN has_change /\ Plausible ELSE accum = 0

BoundInv == SaveInv /\ GlitchInv

LEMMA BoundInitInv == Init => BoundInv
BY SaveInitInv DEF BoundInv, GlitchInv, Init

\* max_power for two stretches of time is max_power for both.
LEMMA TwoStretches ==
  ASSUME NEW p \in Nat, NEW a \in Nat, NEW b \in Nat, a <= b
  PROVE  /\ p * a + p * (b - a) = p * b /\ p * a <= p * b
         /\ p * a \in Nat /\ p * b \in Nat /\ p * (b - a) \in Nat
<1>1. b - a \in Nat /\ a + (b - a) = b
  OBVIOUS
<1>2. ASSUME NEW c \in Nat PROVE p * (a + c) = p * a + p * c /\ p * c \in Nat
  BY <1>2
<1>3. p * (a + (b - a)) = p * a + p * (b - a) /\ p * (b - a) \in Nat
  BY <1>1, <1>2
<1>4. p * a \in Nat /\ p * b \in Nat
  OBVIOUS
<1>5. QED
  BY <1>1, <1>3, <1>4

LEMMA BoundNextInv == BoundInv /\ [Next]_vars => BoundInv'
<1> SUFFICES ASSUME BoundInv, [Next]_vars PROVE GlitchInv'
  BY SaveNextInv DEF BoundInv
<1>c. UNCHANGED conf
  BY DEF Next, Startup, CounterPublish, SourceReports, SourceBegin, SourceUpdate, DeviceUpdate, PowerUpdate,
     PowerStop, SourceIgnored, ThreadStep, ThreadWakes, ThreadTick, NoSave, SaveSnapshot, SaveWrite, SaveFails,
     SaveSync, CounterStop, CounterShutdown, Exit, Crash, Gone, Consume, DeviceReset, Tick, Ended, vars
<1>d. UNCHANGED <<IntegratePower, MaxPower, Glitches>>
  BY <1>c DEF IntegratePower, MaxPower, Glitches
<1>t. SaveInv /\ GlitchInv /\ TypeOK /\ OffIsClean
  BY DEF BoundInv, SaveInv
<1>n. /\ accum \in Nat /\ last_read \in Nat /\ meter \in Nat /\ energy \in Nat /\ src_f \in Int
      /\ change_ts \in Nat /\ src_now \in Nat /\ now \in Nat /\ loads \in Nat
  BY <1>t DEF TypeOK, StateType, WorldType, ThreadType, PowerType
<1>f. MaxPower \in Nat /\ Glitches \subseteq Int /\ Steps \subseteq Nat /\ (IntegratePower => MaxPower = 0)
  BY <1>t, ConfFacts DEF TypeOK, WorldType
<1>1. CASE Startup
  <2>1. /\ phase = "off" /\ loads' = loads + 1 /\ LoadState
        /\ UNCHANGED <<file, change_ts, src_pc, now, meter, energy>>
    BY <1>1 DEF Startup, storage, source, device, change
  <2>2. src_pc = "idle"
    BY <2>1, <1>t DEF OffIsClean
  <2>3. ASSUME loads' = 1 PROVE ~initialized' /\ accum' = 0
    <3>1. loads = 0
      BY <2>1, <2>3, <1>n
    <3>2. file \in {Missing, Invalid}
      BY <3>1, <1>t DEF GlitchInv
    <3>3. ~initialized'
      BY <3>2, <2>1, Zenon DEF LoadState
    <3>4. QED
      BY <3>3, <2>1 DEF LoadState
  <2>4. loads' # 0
    BY <2>1, <1>n
  <2>5. QED
    BY <2>1, <2>2, <2>3, <2>4, <1>t DEF GlitchInv
<1>2. ASSUME NEW f, NEW v, SourceBegin(f, v), v /\ ~IntegratePower => f <= energy \/ f \in Glitches
      PROVE  GlitchInv'
  <2>1. /\ src_f' = f /\ src_valid' = v /\ src_now' = now
        /\ UNCHANGED <<state, change, phase, file, meter, energy, now, loads>>
    BY <1>2 DEF SourceBegin, storage, device
  <2>2. src_valid' /\ ~IntegratePower => Reported'
    BY <1>2, <1>d, <2>1 DEF Reported
  <2>3. change_ts' <= src_now' /\ src_now' <= now'
    BY <2>1, <1>t, <1>n DEF GlitchInv, change
  <2>4. QED
    BY <2>1, <2>2, <2>3, <1>d, <1>t DEF GlitchInv, Plausible, state, change
<1>3. CASE DeviceUpdate
  <2>1. /\ ~IntegratePower /\ src_pc = "update" /\ src_valid /\ src_f >= 0 /\ src_pc' = "idle"
        /\ UNCHANGED <<phase, file, meter, energy, now, loads>>
    BY <1>3 DEF DeviceUpdate, SourceEnd, storage, device
  <2>2. phase # "off"
    BY <2>1, <1>t DEF OffIsClean
  <2>3. change_ts <= src_now /\ src_now <= now /\ Reported
    BY <2>1, <1>t DEF GlitchInv
  <2>4. change_ts' \in {change_ts, src_now}
    BY <1>3 DEF DeviceUpdate, TakeReading, change
  <2>5. change_ts' <= now
    BY <2>3, <2>4, <1>t, <1>n DEF GlitchInv
  <2>6. ASSUME MaxPower > 0, loads = 1 PROVE IF initialized' THEN has_change' /\ Plausible' ELSE accum' = 0
    <3>1. CASE ~initialized
      <4>1. accum = 0 /\ accum' = accum + src_f /\ initialized' = TRUE /\ has_change' = TRUE /\ change_ts' = src_now
        BY <1>3, <3>1, <2>2, <2>6, <1>t DEF GlitchInv, DeviceUpdate, TakeReading
      <4>2. MaxPower * src_now \in Nat
        BY <1>f, <1>n
      <4>3. CASE src_f <= energy
        <5>1. accum' <= energy + MaxPower * src_now + 0
          BY <4>1, <4>2, <4>3, <1>n
        <5>2. Plausible'
          BY <5>1, <4>1, <2>1, <1>d DEF Plausible
        <5>3. QED
          BY <5>2, <4>1
      <4>4. CASE src_f \in Glitches
        <5>1. accum' <= energy + MaxPower * src_now + src_f
          BY <4>1, <4>2, <1>n
        <5>2. Plausible'
          BY <5>1, <4>4, <4>1, <2>1, <1>d DEF Plausible
        <5>3. QED
          BY <5>2, <4>1
      <4>5. QED
        BY <2>3, <4>3, <4>4 DEF Reported
    <3>2. CASE initialized /\ UNCHANGED <<state, change>>
      BY <3>2, <2>1, <2>2, <2>6, <1>d, <1>t DEF GlitchInv, Plausible, state, change
    <3>3. CASE initialized /\ ~UNCHANGED <<state, change>>
      <4>1. /\ accum' = accum + Increase(src_f, src_now)
            /\ initialized' = TRUE /\ has_change' = TRUE /\ change_ts' = src_now
        BY <1>3, <3>3 DEF DeviceUpdate, TakeReading
      <4>2. has_change /\ Plausible
        BY <3>3, <2>2, <2>6, <1>t DEF GlitchInv
      <4>3. PICK first \in {0} \cup Glitches : accum <= energy + MaxPower * change_ts + first
        BY <4>2 DEF Plausible
      <4>4. /\ MaxPower * change_ts + MaxPower * (src_now - change_ts) = MaxPower * src_now
            /\ MaxPower * change_ts \in Nat /\ MaxPower * src_now \in Nat
            /\ MaxPower * (src_now - change_ts) \in Nat
        BY <2>3, <1>n, <1>f, TwoStretches
      <4>5. Increase(src_f, src_now) \in Int /\ Increase(src_f, src_now) <= MaxPower * (src_now - change_ts)
        BY <4>2, <4>4, <2>6, <1>n DEF Increase
      <4>6. first \in Int
        BY <1>f
      <4>7. accum' <= energy + MaxPower * src_now + first
        BY <4>1, <4>3, <4>4, <4>5, <4>6, <1>n
      <4>8. Plausible'
        BY <4>7, <4>1, <2>1, <1>d DEF Plausible
      <4>9. QED
        BY <4>8, <4>1
    <3>4. QED
      BY <3>1, <3>2, <3>3
  <2>7. QED
    BY <2>1, <2>5, <2>6, <1>d, <1>t DEF GlitchInv
<1>4. CASE Exit \/ Crash
  <2>1. phase # "off" /\ phase' = "off" /\ src_pc' = "idle" /\ change_ts' = 0
        /\ UNCHANGED <<meter, energy, now, loads>>
    BY <1>4 DEF Exit, Crash, Gone, device
  <2>2. QED
    BY <2>1, <1>t, <1>n DEF GlitchInv
<1>5. ASSUME NEW d \in Nat, energy' = energy + d, meter' <= energy',
             UNCHANGED <<state, change, phase, file, source, now, loads>>
      PROVE  GlitchInv'
  <2>1. Reported => Reported'
    BY <1>5, <1>d, <1>n DEF Reported, source
  <2>2. Plausible => Plausible'
    <3> SUFFICES ASSUME Plausible PROVE Plausible'
      OBVIOUS
    <3>1. PICK first \in {0} \cup Glitches : accum <= energy + MaxPower * change_ts + first
      BY DEF Plausible
    <3>2. first \in Int /\ MaxPower * change_ts \in Nat
      BY <1>f, <1>n
    <3>3. accum <= energy + d + MaxPower * change_ts + first
      BY <3>1, <3>2, <1>n, <1>5
    <3>4. QED
      BY <3>3, <1>5, <1>d DEF Plausible, state, change
  <2>3. QED
    BY <1>5, <2>1, <2>2, <1>d, <1>t DEF GlitchInv, state, change, source
<1>6. CASE PowerUpdate \/ PowerStop \/ ThreadTick
  <2>1. /\ UNCHANGED <<change, phase, file, meter, energy, now, loads>>
        /\ src_pc' = "update" => UNCHANGED source
        /\ ~IntegratePower => UNCHANGED state
    BY <1>6 DEF PowerUpdate, PowerStop, ThreadTick, SourceEnd, storage, device
  <2>2. QED
    BY <2>1, <1>d, <1>f, <1>t DEF GlitchInv, Plausible, Reported, state, change, source
<1>7. CASE /\ UNCHANGED <<accum, initialized, change, meter, energy, loads>>
           /\ file' = file \/ phase # "off"
           /\ now' \in Nat /\ now <= now'
           /\ phase' = "off" <=> phase = "off"
           /\ src_pc' = "update" => UNCHANGED source
  <2>1. change_ts' <= now' /\ (src_pc = "update" => src_now <= now')
    BY <1>7, <1>t, <1>n DEF GlitchInv, change
  <2>2. loads' = 0 => phase' = "off" /\ file' \in {Missing, Invalid}
    BY <1>7, <1>t DEF GlitchInv
  <2>3. QED
    BY <1>7, <2>1, <2>2, <1>d, <1>t DEF GlitchInv, Plausible, Reported, change, source
<1>8. QED
  <2>1. CASE SourceReports
    <3>1. PICK f, v : SourceBegin(f, v) /\ (v /\ ~IntegratePower => f <= energy \/ f \in Glitches)
      <4>1. meter <= energy
        BY <1>t DEF GlitchInv
      <4>2. QED
        BY <2>1, <4>1 DEF SourceReports
    <3>2. QED
      BY <3>1, <1>2
  <2>2. CASE \E d \in Steps : Consume(d)
    <3>1. PICK d \in Nat : Consume(d)
      BY <2>2, <1>f
    <3>2. /\ meter' = meter + d /\ energy' = energy + d
          /\ UNCHANGED <<state, change, phase, file, source, now, loads>>
      BY <3>1 DEF Consume, storage
    <3>3. meter' <= energy'
      BY <3>2, <1>t, <1>n DEF GlitchInv
    <3>4. QED
      BY <3>2, <3>3, <1>5
  <2>3. CASE DeviceReset
    <3>1. /\ meter' = 0 /\ energy' = energy + 0
          /\ UNCHANGED <<state, change, phase, file, source, now, loads>>
      BY <2>3, <1>n DEF DeviceReset, storage
    <3>2. meter' <= energy'
      BY <3>1, <1>n
    <3>3. QED
      BY <3>1, <3>2, <1>5
  <2>4. CASE CounterPublish \/ CounterStop \/ CounterShutdown \/ UNCHANGED vars
    BY <2>4, <1>7, <1>n DEF CounterPublish, CounterStop, CounterShutdown, vars, state, storage, device
  <2>5. CASE SourceIgnored \/ ThreadWakes \/ NoSave \/ SaveFails \/ SaveSync \/ SaveSnapshot
    BY <2>5, <1>7, <1>n DEF SourceIgnored, SourceEnd, ThreadWakes, NoSave, SaveFails, SaveSync, SaveSnapshot,
       PassEnd, state, storage, device
  <2>6. CASE SaveWrite
    <3>1. phase # "off"
      BY <2>6, <1>t DEF OffIsClean, SaveWrite
    <3>2. QED
      BY <2>6, <3>1, <1>7, <1>n DEF SaveWrite, state, device
  <2>7. CASE Tick
    BY <2>7, <1>7, <1>n DEF Tick, state, storage, device
  <2>8. QED
    BY <2>1, <2>2, <2>3, <2>4, <2>5, <2>6, <2>7, <1>1, <1>3, <1>4, <1>6 DEF Next, SourceUpdate, ThreadStep, Ended

\* device_update() with max_power: whatever a device reports between its
\* readings, and however often, the total of a first run is above the energy
\* metered by no more than max_power allows for the time that has passed, and
\* one reading.
THEOREM NonsenseIsBounded == Spec => []GlitchesAreBounded
<1>1. BoundInv => GlitchesAreBounded
  <2> SUFFICES ASSUME BoundInv, phase # "off", MaxPower > 0, loads = 1
               PROVE  \E first \in {0} \cup Glitches : accum <= energy + MaxPower * now + first
    BY DEF GlitchesAreBounded
  <2>1. /\ accum \in Nat /\ energy \in Nat /\ change_ts \in Nat /\ now \in Nat
        /\ MaxPower \in Nat /\ Glitches \subseteq Int
    BY ConfFacts DEF BoundInv, SaveInv, TypeOK, StateType, WorldType, ThreadType, PowerType
  <2>2. GlitchInv /\ change_ts <= now
    BY DEF BoundInv, GlitchInv
  <2>3. MaxPower * change_ts <= MaxPower * now /\ MaxPower * now \in Nat /\ MaxPower * change_ts \in Nat
    BY <2>1, <2>2, TwoStretches
  <2>4. CASE initialized
    <3>1. PICK first \in {0} \cup Glitches : accum <= energy + MaxPower * change_ts + first
      BY <2>2, <2>4 DEF GlitchInv, Plausible
    <3>2. first \in Int
      BY <2>1
    <3>3. accum <= energy + MaxPower * now + first
      BY <3>1, <3>2, <2>1, <2>3
    <3>4. QED
      BY <3>3
  <2>5. CASE ~initialized
    <3>1. accum = 0
      BY <2>2, <2>5 DEF GlitchInv
    <3>2. accum <= energy + MaxPower * now + 0
      BY <3>1, <2>1, <2>3
    <3>3. QED
      BY <3>2
  <2>6. QED
    BY <2>4, <2>5
<1>2. QED
  BY BoundInitInv, BoundNextInv, <1>1, PTL DEF Spec
=============================================================================
