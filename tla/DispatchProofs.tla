--------------------------- MODULE DispatchProofs ---------------------------
(***************************************************************************)
(* Proofs about Dispatch, for any number of names, threads, outputs and    *)
(* any timeouts.                                                           *)
(***************************************************************************)
EXTENDS Dispatch, TLAPS

\* A thread inside the critical section of disp_lock.
Holding == {"check", "store", "storing", "arm", "fire"}

\* Where each kind of thread can be.
PcInv ==
  /\ \A t \in Producers : pc[t] \in {"idle", "lock", "store", "storing", "arm", "fire"}
  /\ pc[Watchdog] \in {"idle", "next", "lock", "check", "store", "storing", "fire"}
  /\ \A r \in Readers : pc[r] \in {"idle", "reading"}

\* disp_lock of a name is owned by the thread that is inside its dispatch.
LockInv ==
  \A n \in Names, t \in Threads :
    disp_lock[n] = t <=> pc[t] \in Holding /\ arg_n[t] = n

\* What the frame of a thread in a dispatch holds: a name of its own kind, and
\* the reset pair for the watchdog.
FrameInv ==
  /\ \A t \in Producers : pc[t] # "idle" =>
       arg_n[t] \in Names /\ (arg_n[t] \in Timed => arg_v[t])
  /\ pc[Watchdog] \in Holding \cup {"lock"} => arg_n[Watchdog] \in Timed
  /\ pc[Watchdog] \in {"store", "storing", "fire"} =>
       arg_f[Watchdog] = InitValue[arg_n[Watchdog]] /\ arg_v[Watchdog] = FALSE
  /\ \A t \in Threads : pc[t] # "fire" => cb_i[t] = 1

ControlInv == PcInv /\ LockInv /\ FrameInv

TypeControl == TypeOK /\ ControlInv

\* The owner of n's disp_lock, if any, has not stored anything yet.
Untouched(n) ==
  \A t \in Threads : disp_lock[n] = t => pc[t] \in {"check", "store"}

\* All outputs of n were last given the stored pair, or nothing was ever
\* stored.
Synced(n) ==
  \/ \A i \in Outputs(n) : delivered[n][i] = <<last_value[n], valid[n]>>
  \/ /\ \A i \in Outputs(n) : delivered[n][i] = None
     /\ last_value[n] = InitValue[n] /\ valid[n] = FALSE

\* How far the dispatch of a thread has got: what it has stored, and which
\* outputs have been given the pair.
ValueStored ==
  \A t \in Threads : pc[t] \in {"storing", "arm", "fire"} =>
    last_value[arg_n[t]] = arg_f[t]

ValidStored ==
  \A t \in Threads : pc[t] \in {"arm", "fire"} => valid[arg_n[t]] = arg_v[t]

FiredSoFar ==
  \A t \in Threads, n \in Names : pc[t] = "fire" /\ arg_n[t] = n =>
    \A j \in Outputs(n) : j < cb_i[t] => delivered[n][j] = <<arg_f[t], arg_v[t]>>

SyncInv ==
  /\ \A n \in Names : Untouched(n) => Synced(n)
  /\ ValueStored /\ ValidStored /\ FiredSoFar

\* The constants describe names, threads and values as the code has them.
LEMMA ConstFacts ==
  /\ NumNames \in Nat /\ NumNames >= 1
  /\ 1 \in Names
  /\ \A n \in Names : n \in Nat /\ n >= 1 /\ n <= NumNames /\ n + 1 \in 1..(NumNames + 1)
  /\ \A n \in 1..(NumNames + 1) : n <= NumNames => n \in Names
  /\ Timed \subseteq Names
  /\ AnyNumber \in Finite
  /\ InitValue \in [Names -> Finite]
  /\ StaleTimeout \in [Names -> Nat]
  /\ CheckPeriod \in Nat
  /\ \A n \in Names : Len(Cbs[n]) \in Nat /\ DOMAIN Cbs[n] = 1..Len(Cbs[n])
  /\ NonFinite \notin Finite
  /\ Watchdog \in Threads /\ Watchdog \notin Producers /\ Watchdog \notin Readers
  /\ Producers \subseteq Threads /\ Threads \subseteq Actors /\ Readers \subseteq Actors
  /\ \A t \in Threads : t \notin Readers /\ t # NoOne /\ (t # Watchdog => t \in Producers)
  /\ \A n \in Computed : n \notin Timed
<1>1. (CHOOSE x \in Finite : TRUE) \in Finite
  BY ConstantsOK DEF ConstantsOK
<1>2. AnyNumber \in Finite
  BY <1>1 DEF AnyNumber
<1>3. QED
  BY <1>2, ConstantsOK DEF ConstantsOK, Names, Timed, Threads, Actors

-----------------------------------------------------------------------------
\* What a thread that is not idle knows about itself.
LEMMA ThreadFacts ==
  ASSUME TypeOK, ControlInv, NEW t \in Threads
  PROVE  /\ t \in Actors /\ t # NoOne /\ t \notin Readers
         /\ pc[t] \in Holding =>
              /\ arg_n[t] \in Names
              /\ arg_n[t] + 1 \in 1..(NumNames + 1)
              /\ disp_lock[arg_n[t]] = t
         /\ t # Watchdog => t \in Producers
         /\ t = Watchdog => t \notin Producers
         /\ arg_f[t] \in Finite /\ arg_v[t] \in BOOLEAN /\ cb_i[t] \in Nat
<1>1. pc[t] \in Holding => arg_n[t] \in Names
  BY ConstFacts DEF ControlInv, PcInv, FrameInv, Holding
<1>2. QED
  BY <1>1, ConstFacts, SMTT(30) DEF TypeOK, ThreadType, ControlInv, LockInv

\* An output is a position of the list of callbacks.
LEMMA OutputPositions ==
  \A n \in Names : \A j \in Outputs(n) : j \in Nat /\ j >= 1 /\ j <= Len(Cbs[n])
<1> SUFFICES ASSUME NEW n \in Names, NEW j \in Outputs(n)
             PROVE  j \in Nat /\ j >= 1 /\ j <= Len(Cbs[n])
  OBVIOUS
<1>1. j \in 1..Len(Cbs[n]) /\ Len(Cbs[n]) \in Nat
  BY ConstFacts DEF Outputs
<1>2. QED
  BY <1>1

\* The program starts with every thread idle and every lock free.
LEMMA InitTypeControl == Init => TypeControl
<1> SUFFICES ASSUME Init PROVE TypeControl
  OBVIOUS
<1>1. ControlInv
  BY ConstFacts DEF Init, ControlInv, PcInv, LockInv, FrameInv, Holding
<1>2. StoreType
  BY ConstFacts DEF Init, StoreType
<1>3. ThreadType
  BY ConstFacts DEF Init, ThreadType
<1>4. MainType
  BY ConstFacts DEF Init, MainType
<1>5. ObserverType
  <2>1. DOMAIN delivered = Names
    BY DEF Init
  <2>2. \A n \in Names : delivered[n] \in [DOMAIN Cbs[n] -> Pairs \cup {None}]
    BY DEF Init
  <2>3. peek \in [Readers -> [n : Names, v : BOOLEAN]]
    BY ConstFacts DEF Init
  <2>4. got \in [Readers -> [n : Names, p : Pairs]]
    BY ConstFacts DEF Init, Pairs
  <2>5. QED
    BY <2>1, <2>2, <2>3, <2>4 DEF ObserverType
<1>6. QED
  BY <1>1, <1>2, <1>3, <1>4, <1>5 DEF TypeControl, TypeOK

\* One step per action; under it the types of what the action changes, and
\* the control invariant.
LEMMA NextTypeControl == TypeControl /\ [Next]_vars => TypeControl'
<1> SUFFICES ASSUME TypeOK, ControlInv, [Next]_vars PROVE TypeOK' /\ ControlInv'
  BY DEF TypeControl
<1>t. StoreType /\ ThreadType /\ MainType /\ ObserverType
  BY DEF TypeOK
<1>w. /\ Watchdog \in Threads /\ Watchdog \in Actors /\ Watchdog \notin Producers
      /\ Watchdog \notin Readers /\ Watchdog # NoOne
  BY ConstFacts
<1>p. Producers \subseteq Threads
  BY ConstFacts
<1>n. AnyNumber \in Finite /\ 1 \in 1..(NumNames + 1) /\ CheckPeriod \in Nat
  BY ConstFacts
<1>1. ASSUME NEW t \in Producers, NEW n \in Names, NEW f \in Finite \cup {NonFinite},
             NEW v \in BOOLEAN, DispVal(t, n, f, v)
      PROVE  TypeOK' /\ ControlInv'
  <2>0. t \in Threads /\ t \in Actors /\ t \notin Readers /\ n \in 1..(NumNames + 1) /\ f \in Finite /\ (n \in Timed => v)
    BY <1>1, ConstFacts, SMTT(30) DEF DispVal
  <2>1. StoreType'
    BY <1>1, <1>t DEF DispVal, StoreType, store
  <2>2. ThreadType'
    BY <1>1, <1>t, <2>0, <1>w, <1>n DEF DispVal, SetFrame, ClearFrame, ThreadType, MainType, frame, wdog
  <2>3. MainType'
    BY <1>1, <1>t DEF DispVal, MainType, main
  <2>4. ObserverType'
    BY <1>1, <1>t DEF DispVal, ObserverType, reads
  <2>5. PcInv'
    BY <1>1, <1>t, <2>0, <1>w DEF DispVal, SetFrame, ClearFrame, ControlInv, PcInv, LockInv, FrameInv, Holding, ThreadType, StoreType, frame
  <2>6. LockInv'
    BY <1>1, <1>t, <2>0, <1>w DEF DispVal, SetFrame, ClearFrame, ControlInv, PcInv, LockInv, FrameInv, Holding, ThreadType, StoreType, frame
  <2>7. FrameInv'
    BY <1>1, <1>t, <2>0, <1>w DEF DispVal, SetFrame, ClearFrame, ControlInv, PcInv, LockInv, FrameInv, Holding, ThreadType, StoreType, frame
  <2>8. QED
    BY <2>1, <2>2, <2>3, <2>4, <2>5, <2>6, <2>7 DEF TypeOK, ControlInv
<1>2. ASSUME NEW t \in Threads, LockName(t)
      PROVE  TypeOK' /\ ControlInv'
  <2>0. /\ t \in Actors /\ t # NoOne /\ t \notin Readers
        /\ pc[t] # "lock" => arg_n[t] \in Names /\ arg_n[t] + 1 \in 1..(NumNames + 1)
        /\ StaleTimeout \in [Names -> Nat]
        /\ arg_f[t] \in Finite /\ arg_v[t] \in BOOLEAN /\ cb_i[t] \in Nat
        /\ t # Watchdog => t \in Producers
        /\ t \in Producers => t # Watchdog
    BY <1>2, <1>w, ThreadFacts, ConstFacts DEF LockName, Holding
  <2>1. StoreType'
    BY <1>2, <1>t, <2>0, <1>w, <1>n DEF LockName, StoreType, MainType, store
  <2>2. ThreadType'
    BY <1>2, <1>t, <2>0, <1>w, <1>n DEF LockName, ThreadType, MainType, frame, wdog
  <2>3. MainType'
    BY <1>2, <1>t DEF LockName, MainType, main
  <2>4. ObserverType'
    BY <1>2, <1>t DEF LockName, ObserverType, reads
  <2>5. PcInv'
    BY <1>2, <1>t, <2>0, <1>w DEF LockName, ControlInv, PcInv, LockInv, FrameInv, Holding, ThreadType, StoreType, frame
  <2>6. LockInv'
    <3>1. arg_n[t] \in Names
      BY <1>2, <2>0, <1>w, ConstFacts DEF LockName, ControlInv, FrameInv
    <3>2. SUFFICES ASSUME NEW m \in Names, NEW u \in Threads
                   PROVE  (disp_lock[m] = u <=> pc[u] \in Holding /\ arg_n[u] = m)'
      BY DEF LockInv
    <3>3. CASE u = t
      BY <3>1, <3>3, <1>2, <1>t, <2>0 DEF LockName, ControlInv, LockInv, Holding, ThreadType, StoreType, frame
    <3>4. CASE u # t
      <4>1. pc'[u] = pc[u] /\ arg_n'[u] = arg_n[u]
        BY <3>4, <1>2, <1>t, <2>0 DEF LockName, ThreadType, frame
      <4>2. disp_lock[m] = u <=> pc[u] \in Holding /\ arg_n[u] = m
        BY DEF ControlInv, LockInv
      <4>3. disp_lock'[m] = u <=> disp_lock[m] = u
        BY <3>1, <3>4, <1>2, <1>t, ThreadFacts DEF LockName, StoreType
      <4>4. QED
        BY <4>1, <4>2, <4>3
    <3>5. QED
      BY <3>3, <3>4
  <2>7. FrameInv'
    BY <1>2, <1>t, <2>0, <1>w DEF LockName, ControlInv, PcInv, LockInv, FrameInv, Holding, ThreadType, StoreType, frame
  <2>8. QED
    BY <2>1, <2>2, <2>3, <2>4, <2>5, <2>6, <2>7 DEF TypeOK, ControlInv
<1>3. ASSUME NEW t \in Threads, StoreValue(t)
      PROVE  TypeOK' /\ ControlInv'
  <2>0. /\ t \in Actors /\ t # NoOne /\ t \notin Readers
        /\ pc[t] # "lock" => arg_n[t] \in Names /\ arg_n[t] + 1 \in 1..(NumNames + 1)
        /\ StaleTimeout \in [Names -> Nat]
        /\ arg_f[t] \in Finite /\ arg_v[t] \in BOOLEAN /\ cb_i[t] \in Nat
        /\ t # Watchdog => t \in Producers
        /\ t \in Producers => t # Watchdog
    BY <1>3, <1>w, ThreadFacts, ConstFacts DEF StoreValue, Holding
  <2>1. StoreType'
    BY <1>3, <1>t, <2>0, <1>w, <1>n DEF StoreValue, StoreType, MainType, store
  <2>2. ThreadType'
    BY <1>3, <1>t, <2>0, <1>w, <1>n DEF StoreValue, ThreadType, MainType, frame, wdog
  <2>3. MainType'
    BY <1>3, <1>t DEF StoreValue, MainType, main
  <2>4. ObserverType'
    BY <1>3, <1>t DEF StoreValue, ObserverType, reads
  <2>5. PcInv'
    BY <1>3, <1>t, <2>0, <1>w DEF StoreValue, ControlInv, PcInv, LockInv, FrameInv, Holding, ThreadType, StoreType, frame
  <2>6. LockInv'
    BY <1>3, <1>t, <2>0, <1>w DEF StoreValue, ControlInv, PcInv, LockInv, FrameInv, Holding, ThreadType, StoreType, frame
  <2>7. FrameInv'
    BY <1>3, <1>t, <2>0, <1>w DEF StoreValue, ControlInv, PcInv, LockInv, FrameInv, Holding, ThreadType, StoreType, frame
  <2>8. QED
    BY <2>1, <2>2, <2>3, <2>4, <2>5, <2>6, <2>7 DEF TypeOK, ControlInv
<1>4. ASSUME NEW t \in Threads, StoreValid(t)
      PROVE  TypeOK' /\ ControlInv'
  <2>0. /\ t \in Actors /\ t # NoOne /\ t \notin Readers
        /\ pc[t] # "lock" => arg_n[t] \in Names /\ arg_n[t] + 1 \in 1..(NumNames + 1)
        /\ StaleTimeout \in [Names -> Nat]
        /\ arg_f[t] \in Finite /\ arg_v[t] \in BOOLEAN /\ cb_i[t] \in Nat
        /\ t # Watchdog => t \in Producers
        /\ t \in Producers => t # Watchdog
    BY <1>4, <1>w, ThreadFacts, ConstFacts DEF StoreValid, Holding
  <2>1. StoreType'
    BY <1>4, <1>t, <2>0, <1>w, <1>n DEF StoreValid, StoreType, MainType, store
  <2>2. ThreadType'
    BY <1>4, <1>t, <2>0, <1>w, <1>n DEF StoreValid, ThreadType, MainType, frame, wdog
  <2>3. MainType'
    BY <1>4, <1>t DEF StoreValid, MainType, main
  <2>4. ObserverType'
    BY <1>4, <1>t DEF StoreValid, ObserverType, reads
  <2>5. PcInv'
    BY <1>4, <1>t, <2>0, <1>w DEF StoreValid, ControlInv, PcInv, LockInv, FrameInv, Holding, ThreadType, StoreType, frame
  <2>6. LockInv'
    BY <1>4, <1>t, <2>0, <1>w DEF StoreValid, ControlInv, PcInv, LockInv, FrameInv, Holding, ThreadType, StoreType, frame
  <2>7. FrameInv'
    BY <1>4, <1>t, <2>0, <1>w DEF StoreValid, ControlInv, PcInv, LockInv, FrameInv, Holding, ThreadType, StoreType, frame
  <2>8. QED
    BY <2>1, <2>2, <2>3, <2>4, <2>5, <2>6, <2>7 DEF TypeOK, ControlInv
<1>5. ASSUME NEW t \in Producers, Arm(t)
      PROVE  TypeOK' /\ ControlInv'
  <2>0. /\ t \in Actors /\ t # NoOne /\ t \notin Readers
        /\ pc[t] # "lock" => arg_n[t] \in Names /\ arg_n[t] + 1 \in 1..(NumNames + 1)
        /\ StaleTimeout \in [Names -> Nat]
        /\ arg_f[t] \in Finite /\ arg_v[t] \in BOOLEAN /\ cb_i[t] \in Nat
        /\ t # Watchdog => t \in Producers
        /\ t \in Producers => t # Watchdog
    BY <1>5, <1>w, ThreadFacts, ConstFacts DEF Arm, Holding
  <2>1. StoreType'
    <3>1. CASE arg_v[t]
      <4>1. now + StaleTimeout[arg_n[t]] \in Nat
        BY <1>5, <2>0, <1>t DEF Arm, MainType
      <4>2. deadline' \in [Names -> Nat]
        BY <3>1, <4>1, <1>5, <1>t DEF Arm, StoreType
      <4>3. received' \in [Names -> BOOLEAN] /\ timed_out' \in [Names -> BOOLEAN]
        BY <3>1, <1>5, <1>t DEF Arm, StoreType
      <4>4. QED
        BY <4>2, <4>3, <1>5, <1>t DEF Arm, StoreType, store
    <3>2. CASE ~arg_v[t]
      BY <3>2, <1>5, <1>t, <2>0 DEF Arm, StoreType, store
    <3>3. QED
      BY <3>1, <3>2
  <2>2. ThreadType'
    BY <1>5, <1>t, <2>0, <1>w, <1>n DEF Arm, ThreadType, MainType, frame, wdog
  <2>3. MainType'
    BY <1>5, <1>t DEF Arm, MainType, main
  <2>4. ObserverType'
    BY <1>5, <1>t DEF Arm, ObserverType, reads
  <2>5. PcInv'
    BY <1>5, <1>t, <2>0, <1>w DEF Arm, ControlInv, PcInv, LockInv, FrameInv, Holding, ThreadType, StoreType, frame
  <2>6. LockInv'
    BY <1>5, <1>t, <2>0, <1>w DEF Arm, ControlInv, PcInv, LockInv, FrameInv, Holding, ThreadType, StoreType, frame
  <2>7. FrameInv'
    BY <1>5, <1>t, <2>0, <1>w DEF Arm, ControlInv, PcInv, LockInv, FrameInv, Holding, ThreadType, StoreType, frame
  <2>8. QED
    BY <2>1, <2>2, <2>3, <2>4, <2>5, <2>6, <2>7 DEF TypeOK, ControlInv
<1>6. ASSUME NEW t \in Threads, FireCb(t)
      PROVE  TypeOK' /\ ControlInv'
  <2>0. /\ t \in Actors /\ t # NoOne /\ t \notin Readers
        /\ pc[t] # "lock" => arg_n[t] \in Names /\ arg_n[t] + 1 \in 1..(NumNames + 1)
        /\ StaleTimeout \in [Names -> Nat]
        /\ arg_f[t] \in Finite /\ arg_v[t] \in BOOLEAN /\ cb_i[t] \in Nat
        /\ t # Watchdog => t \in Producers
        /\ t \in Producers => t # Watchdog
    BY <1>6, <1>w, ThreadFacts, ConstFacts DEF FireCb, Holding
  <2>1. StoreType'
    BY <1>6, <1>t DEF FireCb, StoreType, store
  <2>2. ThreadType'
    <3>1. cb_i' \in [Threads -> Nat \ {0}]
      <4>1. cb_i[t] + 1 \in Nat \ {0}
        BY <2>0
      <4>2. QED
        BY <4>1, <1>6, <1>t DEF FireCb, ThreadType
    <3>2. UNCHANGED <<pc, arg_n, arg_f, arg_v, next_check, pass_now>>
      BY <1>6 DEF FireCb, wdog
    <3>3. QED
      BY <1>t, <3>1, <3>2 DEF ThreadType
  <2>3. MainType'
    BY <1>6, <1>t DEF FireCb, MainType, main
  <2>4. ObserverType'
    BY <1>6, <1>t, <2>0, <1>w, <1>n DEF FireCb, ObserverType, StoreType, ThreadType, Pairs, reads
  <2>5. PcInv'
    BY <1>6, <1>t, <2>0, <1>w DEF FireCb, ControlInv, PcInv, LockInv, FrameInv, Holding, ThreadType, StoreType, frame
  <2>6. LockInv'
    BY <1>6, <1>t, <2>0, <1>w, SMTT(30) DEF FireCb, ControlInv, PcInv, LockInv, FrameInv, Holding, ThreadType, StoreType, frame
  <2>7. FrameInv'
    BY <1>6, <1>t, <2>0, <1>w, SMTT(30) DEF FireCb, ControlInv, PcInv, LockInv, FrameInv, Holding, ThreadType, StoreType, frame
  <2>8. QED
    BY <2>1, <2>2, <2>3, <2>4, <2>5, <2>6, <2>7 DEF TypeOK, ControlInv
<1>7. ASSUME NEW t \in Producers, UnlockName(t)
      PROVE  TypeOK' /\ ControlInv'
  <2>0. /\ t \in Actors /\ t # NoOne /\ t \notin Readers
        /\ pc[t] # "lock" => arg_n[t] \in Names /\ arg_n[t] + 1 \in 1..(NumNames + 1)
        /\ StaleTimeout \in [Names -> Nat]
        /\ arg_f[t] \in Finite /\ arg_v[t] \in BOOLEAN /\ cb_i[t] \in Nat
        /\ t # Watchdog => t \in Producers
        /\ t \in Producers => t # Watchdog
    BY <1>7, <1>w, ThreadFacts, ConstFacts DEF UnlockName, Holding
  <2>1. StoreType'
    BY <1>7, <1>t, <2>0, <1>w, <1>n DEF UnlockName, SetFrame, ClearFrame, StoreType, MainType, store
  <2>2. ThreadType'
    <3>1. 1 \in Nat \ {0}
      OBVIOUS
    <3>2. cb_i' \in [Threads -> Nat \ {0}]
      BY <1>7, <1>t, <3>1 DEF UnlockName, SetFrame, ClearFrame, ThreadType
    <3>3. arg_n' \in [Threads -> 1..(NumNames + 1)]
      BY <1>7, <1>t, <1>n DEF UnlockName, SetFrame, ClearFrame, ThreadType
    <3>4. arg_f' \in [Threads -> Finite] /\ arg_v' \in [Threads -> BOOLEAN]
      BY <1>7, <1>t, <1>n DEF UnlockName, SetFrame, ClearFrame, ThreadType
    <3>5. QED
      BY <1>7, <1>t, <2>0, <3>2, <3>4, <3>3 DEF UnlockName, ThreadType, wdog
  <2>3. MainType'
    BY <1>7, <1>t DEF UnlockName, MainType, main
  <2>4. ObserverType'
    BY <1>7, <1>t DEF UnlockName, ObserverType, reads
  <2>5. PcInv'
    BY <1>7, <1>t, <2>0, <1>w DEF UnlockName, SetFrame, ClearFrame, ControlInv, PcInv, LockInv, FrameInv, Holding, ThreadType, StoreType, frame
  <2>6. LockInv'
    <3>1. SUFFICES ASSUME NEW m \in Names, NEW u \in Threads
                   PROVE  (disp_lock[m] = u <=> pc[u] \in Holding /\ arg_n[u] = m)'
      BY DEF LockInv
    <3>2. u # NoOne
      BY ThreadFacts
    <3>3. disp_lock[arg_n[t]] = t
      BY <1>7, <2>0, <1>w, ThreadFacts, <1>p DEF UnlockName, Holding
    <3>4. CASE u = t
      BY <3>2, <3>3, <3>4, <1>7, <1>t, <2>0, <1>w DEF UnlockName, SetFrame, ClearFrame, ControlInv, LockInv, Holding, ThreadType, StoreType
    <3>5. CASE u # t
      BY <3>2, <3>3, <3>5, <1>7, <1>t, <2>0, <1>w, SMTT(30) DEF UnlockName, SetFrame, ClearFrame, ControlInv, LockInv, Holding, ThreadType, StoreType
    <3>6. QED
      BY <3>4, <3>5
  <2>7. FrameInv'
    BY <1>7, <1>t, <2>0, <1>w DEF UnlockName, SetFrame, ClearFrame, ControlInv, PcInv, LockInv, FrameInv, Holding, ThreadType, StoreType, frame
  <2>8. QED
    BY <2>1, <2>2, <2>3, <2>4, <2>5, <2>6, <2>7 DEF TypeOK, ControlInv
<1>8. ASSUME NEW r \in Readers, NEW n \in Names, ReadValid(r, n)
      PROVE  TypeOK' /\ ControlInv'
  <2>0. r \in Actors /\ r \notin Threads /\ r \notin Producers
    BY <1>8, ConstFacts
  <2>1. StoreType'
    BY <1>8, <1>t, <2>0, <1>w, <1>n DEF ReadValid, StoreType, MainType, store
  <2>2. ThreadType'
    BY <1>8, <1>t, <2>0, <1>w, <1>n DEF ReadValid, ThreadType, MainType, frame, wdog
  <2>3. MainType'
    BY <1>8, <1>t DEF ReadValid, MainType, main
  <2>4. ObserverType'
    BY <1>8, <1>t, <2>0, <1>w, <1>n DEF ReadValid, ObserverType, StoreType, ThreadType, Pairs, reads
  <2>5. PcInv'
    BY <1>8, <1>t, <2>0, <1>w DEF ReadValid, ControlInv, PcInv, LockInv, FrameInv, Holding, ThreadType, StoreType, frame
  <2>6. LockInv'
    BY <1>8, <1>t, <2>0, <1>w DEF ReadValid, ControlInv, PcInv, LockInv, FrameInv, Holding, ThreadType, StoreType, frame
  <2>7. FrameInv'
    BY <1>8, <1>t, <2>0, <1>w DEF ReadValid, ControlInv, PcInv, LockInv, FrameInv, Holding, ThreadType, StoreType, frame
  <2>8. QED
    BY <2>1, <2>2, <2>3, <2>4, <2>5, <2>6, <2>7 DEF TypeOK, ControlInv
<1>9. ASSUME NEW r \in Readers, ReadValue(r)
      PROVE  TypeOK' /\ ControlInv'
  <2>0. r \in Actors /\ r \notin Threads /\ r \notin Producers /\ peek[r].n \in Names /\ peek[r].v \in BOOLEAN
    BY <1>9, <1>t, ConstFacts DEF ObserverType
  <2>1. StoreType'
    BY <1>9, <1>t, <2>0, <1>w, <1>n DEF ReadValue, StoreType, MainType, store
  <2>2. ThreadType'
    BY <1>9, <1>t, <2>0, <1>w, <1>n DEF ReadValue, ThreadType, MainType, frame, wdog
  <2>3. MainType'
    BY <1>9, <1>t DEF ReadValue, MainType, main
  <2>4. ObserverType'
    BY <1>9, <1>t, <2>0, <1>w, <1>n DEF ReadValue, ObserverType, StoreType, ThreadType, Pairs, reads
  <2>5. PcInv'
    BY <1>9, <1>t, <2>0, <1>w DEF ReadValue, ControlInv, PcInv, LockInv, FrameInv, Holding, ThreadType, StoreType, frame
  <2>6. LockInv'
    BY <1>9, <1>t, <2>0, <1>w DEF ReadValue, ControlInv, PcInv, LockInv, FrameInv, Holding, ThreadType, StoreType, frame
  <2>7. FrameInv'
    BY <1>9, <1>t, <2>0, <1>w DEF ReadValue, ControlInv, PcInv, LockInv, FrameInv, Holding, ThreadType, StoreType, frame
  <2>8. QED
    BY <2>1, <2>2, <2>3, <2>4, <2>5, <2>6, <2>7 DEF TypeOK, ControlInv
<1>10. CASE WatchdogPass
  <2>1. StoreType'
    BY <1>10, <1>t DEF WatchdogPass, StoreType, store
  <2>2. ThreadType'
    BY <1>10, <1>t, <1>w, <1>n DEF WatchdogPass, SetFrame, ClearFrame, ThreadType, MainType, frame, wdog
  <2>3. MainType'
    BY <1>10, <1>t DEF WatchdogPass, MainType, main
  <2>4. ObserverType'
    BY <1>10, <1>t DEF WatchdogPass, ObserverType, reads
  <2>5. PcInv'
    BY <1>10, <1>t, <1>w DEF WatchdogPass, SetFrame, ClearFrame, ControlInv, PcInv, LockInv, FrameInv, Holding, ThreadType, StoreType, frame
  <2>6. LockInv'
    BY <1>10, <1>t, <1>w DEF WatchdogPass, SetFrame, ClearFrame, ControlInv, PcInv, LockInv, FrameInv, Holding, ThreadType, StoreType, frame
  <2>7. FrameInv'
    BY <1>10, <1>t, <1>w DEF WatchdogPass, SetFrame, ClearFrame, ControlInv, PcInv, LockInv, FrameInv, Holding, ThreadType, StoreType, frame
  <2>8. QED
    BY <2>1, <2>2, <2>3, <2>4, <2>5, <2>6, <2>7 DEF TypeOK, ControlInv
<1>11. CASE WatchdogPassDone
  <2>1. StoreType'
    BY <1>11, <1>t DEF WatchdogPassDone, StoreType, store
  <2>2. ThreadType'
    BY <1>11, <1>t, <1>w, <1>n DEF WatchdogPassDone, SetFrame, ClearFrame, ThreadType, MainType, frame, wdog
  <2>3. MainType'
    BY <1>11, <1>t DEF WatchdogPassDone, MainType, main
  <2>4. ObserverType'
    BY <1>11, <1>t DEF WatchdogPassDone, ObserverType, reads
  <2>5. PcInv'
    BY <1>11, <1>t, <1>w DEF WatchdogPassDone, SetFrame, ClearFrame, ControlInv, PcInv, LockInv, FrameInv, Holding, ThreadType, StoreType, frame
  <2>6. LockInv'
    BY <1>11, <1>t, <1>w DEF WatchdogPassDone, SetFrame, ClearFrame, ControlInv, PcInv, LockInv, FrameInv, Holding, ThreadType, StoreType, frame
  <2>7. FrameInv'
    BY <1>11, <1>t, <1>w DEF WatchdogPassDone, SetFrame, ClearFrame, ControlInv, PcInv, LockInv, FrameInv, Holding, ThreadType, StoreType, frame
  <2>8. QED
    BY <2>1, <2>2, <2>3, <2>4, <2>5, <2>6, <2>7 DEF TypeOK, ControlInv
<1>12. CASE WatchdogSkip
  <2>0. arg_n[Watchdog] + 1 \in 1..(NumNames + 1)
    BY <1>12, <1>t, <1>w, ConstFacts DEF ThreadType, WatchdogSkip
  <2>1. StoreType'
    BY <1>12, <1>t DEF WatchdogSkip, StoreType, store
  <2>2. ThreadType'
    BY <1>12, <1>t, <2>0, <1>w, <1>n DEF WatchdogSkip, SetFrame, ClearFrame, ThreadType, MainType, frame, wdog
  <2>3. MainType'
    BY <1>12, <1>t DEF WatchdogSkip, MainType, main
  <2>4. ObserverType'
    BY <1>12, <1>t DEF WatchdogSkip, ObserverType, reads
  <2>5. PcInv'
    BY <1>12, <1>t, <2>0, <1>w DEF WatchdogSkip, SetFrame, ClearFrame, ControlInv, PcInv, LockInv, FrameInv, Holding, ThreadType, StoreType, frame
  <2>6. LockInv'
    BY <1>12, <1>t, <2>0, <1>w DEF WatchdogSkip, SetFrame, ClearFrame, ControlInv, PcInv, LockInv, FrameInv, Holding, ThreadType, StoreType, frame
  <2>7. FrameInv'
    BY <1>12, <1>t, <2>0, <1>w DEF WatchdogSkip, SetFrame, ClearFrame, ControlInv, PcInv, LockInv, FrameInv, Holding, ThreadType, StoreType, frame
  <2>8. QED
    BY <2>1, <2>2, <2>3, <2>4, <2>5, <2>6, <2>7 DEF TypeOK, ControlInv
<1>13. CASE WatchdogVisit
  <2>0. arg_n[Watchdog] \in Timed
    BY <1>13, <1>t, <1>w, ConstFacts DEF ThreadType, WatchdogVisit, Timed
  <2>1. StoreType'
    BY <1>13, <1>t DEF WatchdogVisit, StoreType, store
  <2>2. ThreadType'
    BY <1>13, <1>t, <2>0, <1>w, <1>n DEF WatchdogVisit, ThreadType, MainType, frame, wdog
  <2>3. MainType'
    BY <1>13, <1>t DEF WatchdogVisit, MainType, main
  <2>4. ObserverType'
    BY <1>13, <1>t DEF WatchdogVisit, ObserverType, reads
  <2>5. PcInv'
    BY <1>13, <1>t, <2>0, <1>w DEF WatchdogVisit, ControlInv, PcInv, LockInv, FrameInv, Holding, ThreadType, StoreType, frame
  <2>6. LockInv'
    BY <1>13, <1>t, <2>0, <1>w DEF WatchdogVisit, ControlInv, PcInv, LockInv, FrameInv, Holding, ThreadType, StoreType, frame
  <2>7. FrameInv'
    BY <1>13, <1>t, <2>0, <1>w DEF WatchdogVisit, ControlInv, PcInv, LockInv, FrameInv, Holding, ThreadType, StoreType, frame
  <2>8. QED
    BY <2>1, <2>2, <2>3, <2>4, <2>5, <2>6, <2>7 DEF TypeOK, ControlInv
<1>14. CASE WatchdogExpire
  <2>0. arg_n[Watchdog] \in Timed /\ arg_n[Watchdog] \in Names /\ arg_n[Watchdog] \in 1..(NumNames + 1) /\ InitValue[arg_n[Watchdog]] \in Finite
    BY <1>14, <1>w, ConstFacts DEF WatchdogExpire, ControlInv, FrameInv, Holding
  <2>1. StoreType'
    BY <1>14, <1>t, <2>0, <1>w, <1>n DEF WatchdogExpire, SetFrame, ClearFrame, StoreType, MainType, store
  <2>2. ThreadType'
    BY <1>14, <1>t, <2>0, <1>w, <1>n DEF WatchdogExpire, SetFrame, ClearFrame, ThreadType, MainType, frame, wdog
  <2>3. MainType'
    BY <1>14, <1>t DEF WatchdogExpire, MainType, main
  <2>4. ObserverType'
    BY <1>14, <1>t DEF WatchdogExpire, ObserverType, reads
  <2>5. PcInv'
    BY <1>14, <1>t, <2>0, <1>w DEF WatchdogExpire, SetFrame, ClearFrame, ControlInv, PcInv, LockInv, FrameInv, Holding, ThreadType, StoreType, frame
  <2>6. LockInv'
    BY <1>14, <1>t, <2>0, <1>w DEF WatchdogExpire, SetFrame, ClearFrame, ControlInv, PcInv, LockInv, FrameInv, Holding, ThreadType, StoreType, frame
  <2>7. FrameInv'
    BY <1>14, <1>t, <2>0, <1>w DEF WatchdogExpire, SetFrame, ClearFrame, ControlInv, PcInv, LockInv, FrameInv, Holding, ThreadType, StoreType, frame
  <2>8. QED
    BY <2>1, <2>2, <2>3, <2>4, <2>5, <2>6, <2>7 DEF TypeOK, ControlInv
<1>15. CASE WatchdogLeave
  <2>0. arg_n[Watchdog] \in Names /\ arg_n[Watchdog] + 1 \in 1..(NumNames + 1)
    BY <1>15, <1>w, ConstFacts DEF WatchdogLeave, ControlInv, FrameInv, Holding
  <2>1. StoreType'
    BY <1>15, <1>t, <2>0, <1>w, <1>n DEF WatchdogLeave, SetFrame, ClearFrame, StoreType, MainType, store
  <2>2. ThreadType'
    BY <1>15, <1>t, <2>0, <1>w, <1>n DEF WatchdogLeave, SetFrame, ClearFrame, ThreadType, MainType, frame, wdog
  <2>3. MainType'
    BY <1>15, <1>t DEF WatchdogLeave, MainType, main
  <2>4. ObserverType'
    BY <1>15, <1>t DEF WatchdogLeave, ObserverType, reads
  <2>5. PcInv'
    BY <1>15, <1>t, <2>0, <1>w DEF WatchdogLeave, SetFrame, ClearFrame, ControlInv, PcInv, LockInv, FrameInv, Holding, ThreadType, StoreType, frame
  <2>6. LockInv'
    <3>1. SUFFICES ASSUME NEW m \in Names, NEW u \in Threads
                   PROVE  (disp_lock[m] = u <=> pc[u] \in Holding /\ arg_n[u] = m)'
      BY DEF LockInv
    <3>2. u # NoOne
      BY ThreadFacts
    <3>3. disp_lock[arg_n[Watchdog]] = Watchdog
      BY <1>15, <2>0, <1>w, ThreadFacts, <1>p DEF WatchdogLeave, Holding
    <3>4. CASE u = Watchdog
      BY <3>2, <3>3, <3>4, <1>15, <1>t, <2>0, <1>w DEF WatchdogLeave, SetFrame, ClearFrame, ControlInv, LockInv, Holding, ThreadType, StoreType
    <3>5. CASE u # Watchdog
      BY <3>2, <3>3, <3>5, <1>15, <1>t, <2>0, <1>w DEF WatchdogLeave, SetFrame, ClearFrame, ControlInv, LockInv, Holding, ThreadType, StoreType
    <3>6. QED
      BY <3>4, <3>5
  <2>7. FrameInv'
    BY <1>15, <1>t, <2>0, <1>w DEF WatchdogLeave, SetFrame, ClearFrame, ControlInv, PcInv, LockInv, FrameInv, Holding, ThreadType, StoreType, frame
  <2>8. QED
    BY <2>1, <2>2, <2>3, <2>4, <2>5, <2>6, <2>7 DEF TypeOK, ControlInv
<1>16. CASE StartupBegin
  <2>1. StoreType'
    BY <1>16, <1>t DEF StartupBegin, StoreType, store
  <2>2. ThreadType'
    BY <1>16, <1>t DEF StartupBegin, ThreadType, frame, wdog
  <2>3. MainType'
    BY <1>16, <1>t, <1>w, <1>n DEF StartupBegin, MainType, main
  <2>4. ObserverType'
    BY <1>16, <1>t DEF StartupBegin, ObserverType, reads
  <2>5. PcInv'
    BY <1>16, <1>t, <1>w DEF StartupBegin, ControlInv, PcInv, LockInv, FrameInv, Holding, ThreadType, StoreType, frame
  <2>6. LockInv'
    BY <1>16, <1>t, <1>w DEF StartupBegin, ControlInv, PcInv, LockInv, FrameInv, Holding, ThreadType, StoreType, frame
  <2>7. FrameInv'
    BY <1>16, <1>t, <1>w DEF StartupBegin, ControlInv, PcInv, LockInv, FrameInv, Holding, ThreadType, StoreType, frame
  <2>8. QED
    BY <2>1, <2>2, <2>3, <2>4, <2>5, <2>6, <2>7 DEF TypeOK, ControlInv
<1>17. CASE StartupArm
  <2>0. arm_pos \in Names /\ arm_pos + 1 \in 1..(NumNames + 1) /\ StaleTimeout[arm_pos] \in Nat
    BY <1>17, <1>t, ConstFacts DEF StartupArm, MainType
  <2>1. StoreType'
    BY <1>17, <1>t, <2>0, <1>w, <1>n DEF StartupArm, StoreType, MainType, store
  <2>2. ThreadType'
    BY <1>17, <1>t DEF StartupArm, ThreadType, frame, wdog
  <2>3. MainType'
    BY <1>17, <1>t, <2>0, <1>w, <1>n DEF StartupArm, MainType, main
  <2>4. ObserverType'
    BY <1>17, <1>t DEF StartupArm, ObserverType, reads
  <2>5. PcInv'
    BY <1>17, <1>t, <2>0, <1>w DEF StartupArm, ControlInv, PcInv, LockInv, FrameInv, Holding, ThreadType, StoreType, frame
  <2>6. LockInv'
    BY <1>17, <1>t, <2>0, <1>w DEF StartupArm, ControlInv, PcInv, LockInv, FrameInv, Holding, ThreadType, StoreType, frame
  <2>7. FrameInv'
    BY <1>17, <1>t, <2>0, <1>w DEF StartupArm, ControlInv, PcInv, LockInv, FrameInv, Holding, ThreadType, StoreType, frame
  <2>8. QED
    BY <2>1, <2>2, <2>3, <2>4, <2>5, <2>6, <2>7 DEF TypeOK, ControlInv
<1>18. CASE StartupDone
  <2>1. StoreType'
    BY <1>18, <1>t DEF StartupDone, StoreType, store
  <2>2. ThreadType'
    BY <1>18, <1>t DEF StartupDone, ThreadType, frame, wdog
  <2>3. MainType'
    BY <1>18, <1>t, <1>w, <1>n DEF StartupDone, MainType, main
  <2>4. ObserverType'
    BY <1>18, <1>t DEF StartupDone, ObserverType, reads
  <2>5. PcInv'
    BY <1>18, <1>t, <1>w DEF StartupDone, ControlInv, PcInv, LockInv, FrameInv, Holding, ThreadType, StoreType, frame
  <2>6. LockInv'
    BY <1>18, <1>t, <1>w DEF StartupDone, ControlInv, PcInv, LockInv, FrameInv, Holding, ThreadType, StoreType, frame
  <2>7. FrameInv'
    BY <1>18, <1>t, <1>w DEF StartupDone, ControlInv, PcInv, LockInv, FrameInv, Holding, ThreadType, StoreType, frame
  <2>8. QED
    BY <2>1, <2>2, <2>3, <2>4, <2>5, <2>6, <2>7 DEF TypeOK, ControlInv
<1>19. CASE ShutdownBegin
  <2>1. StoreType'
    BY <1>19, <1>t DEF ShutdownBegin, StoreType, store
  <2>2. ThreadType'
    BY <1>19, <1>t DEF ShutdownBegin, ThreadType, frame, wdog
  <2>3. MainType'
    BY <1>19, <1>t, <1>w, <1>n DEF ShutdownBegin, MainType, main
  <2>4. ObserverType'
    BY <1>19, <1>t DEF ShutdownBegin, ObserverType, reads
  <2>5. PcInv'
    BY <1>19, <1>t, <1>w DEF ShutdownBegin, ControlInv, PcInv, LockInv, FrameInv, Holding, ThreadType, StoreType, frame
  <2>6. LockInv'
    BY <1>19, <1>t, <1>w DEF ShutdownBegin, ControlInv, PcInv, LockInv, FrameInv, Holding, ThreadType, StoreType, frame
  <2>7. FrameInv'
    BY <1>19, <1>t, <1>w DEF ShutdownBegin, ControlInv, PcInv, LockInv, FrameInv, Holding, ThreadType, StoreType, frame
  <2>8. QED
    BY <2>1, <2>2, <2>3, <2>4, <2>5, <2>6, <2>7 DEF TypeOK, ControlInv
<1>20. CASE ShutdownDone
  <2>1. StoreType'
    BY <1>20, <1>t DEF ShutdownDone, StoreType, store
  <2>2. ThreadType'
    BY <1>20, <1>t DEF ShutdownDone, ThreadType, frame, wdog
  <2>3. MainType'
    BY <1>20, <1>t, <1>w, <1>n DEF ShutdownDone, MainType, main
  <2>4. ObserverType'
    BY <1>20, <1>t DEF ShutdownDone, ObserverType, reads
  <2>5. PcInv'
    BY <1>20, <1>t, <1>w DEF ShutdownDone, ControlInv, PcInv, LockInv, FrameInv, Holding, ThreadType, StoreType, frame
  <2>6. LockInv'
    BY <1>20, <1>t, <1>w DEF ShutdownDone, ControlInv, PcInv, LockInv, FrameInv, Holding, ThreadType, StoreType, frame
  <2>7. FrameInv'
    BY <1>20, <1>t, <1>w DEF ShutdownDone, ControlInv, PcInv, LockInv, FrameInv, Holding, ThreadType, StoreType, frame
  <2>8. QED
    BY <2>1, <2>2, <2>3, <2>4, <2>5, <2>6, <2>7 DEF TypeOK, ControlInv
<1>21. CASE Tick
  <2>1. StoreType'
    BY <1>21, <1>t DEF Tick, StoreType, store
  <2>2. ThreadType'
    BY <1>21, <1>t DEF Tick, ThreadType, frame, wdog
  <2>3. MainType'
    BY <1>21, <1>t, <1>w, <1>n DEF Tick, MainType, main
  <2>4. ObserverType'
    BY <1>21, <1>t DEF Tick, ObserverType, reads
  <2>5. PcInv'
    BY <1>21, <1>t, <1>w DEF Tick, ControlInv, PcInv, LockInv, FrameInv, Holding, ThreadType, StoreType, frame
  <2>6. LockInv'
    BY <1>21, <1>t, <1>w DEF Tick, ControlInv, PcInv, LockInv, FrameInv, Holding, ThreadType, StoreType, frame
  <2>7. FrameInv'
    BY <1>21, <1>t, <1>w DEF Tick, ControlInv, PcInv, LockInv, FrameInv, Holding, ThreadType, StoreType, frame
  <2>8. QED
    BY <2>1, <2>2, <2>3, <2>4, <2>5, <2>6, <2>7 DEF TypeOK, ControlInv
<1>22. CASE UNCHANGED vars
  BY <1>22, <1>t DEF vars, TypeOK, StoreType, ThreadType, MainType, ObserverType, ControlInv, PcInv, LockInv, FrameInv
<1>23. QED
  BY <1>w, <1>p, <1>1, <1>2, <1>3, <1>4, <1>5, <1>6, <1>7, <1>8, <1>9, <1>10, <1>11, <1>12, <1>13, <1>14, <1>15, <1>16, <1>17, <1>18, <1>19, <1>20, <1>21, <1>22
  DEF Next, ThreadStep, ProducerStep, WatchdogStep, StartupStep, Ended

\* The state of the dispatcher always has the declared shape; what is stored
\* is finite because uvrgw_conf_disp_val() drops every other value.
THEOREM TypeCorrect == Spec => []TypeOK
<1>1. Spec => []TypeControl
  BY InitTypeControl, NextTypeControl, PTL DEF Spec
<1>2. TypeControl => TypeOK
  BY DEF TypeControl
<1>3. QED
  BY <1>1, <1>2, PTL

-----------------------------------------------------------------------------
\* The part of the state SyncInv is about, for thread u.
SameThread(u) ==
  /\ pc'[u] = pc[u] /\ arg_n'[u] = arg_n[u] /\ arg_f'[u] = arg_f[u]
  /\ arg_v'[u] = arg_v[u] /\ cb_i'[u] = cb_i[u]

\* At the start nothing is stored and nothing has been delivered.
LEMMA InitSync == Init => SyncInv
<1> SUFFICES ASSUME Init PROVE SyncInv
  OBVIOUS
<1>1. ASSUME NEW n \in Names PROVE Synced(n)
  BY DEF Init, Synced, Outputs
<1>2. \A t \in Threads : pc[t] = "idle"
  BY ConstFacts DEF Init
<1>3. QED
  BY <1>1, <1>2 DEF SyncInv, ValueStored, ValidStored, FiredSoFar

\* FiredSoFar for one output: fire_cbs() has passed position j.
LEMMA FiredAt ==
  ASSUME FiredSoFar, NEW u \in Threads, NEW n \in Names, pc[u] = "fire", arg_n[u] = n,
         NEW j \in Outputs(n), j < cb_i[u]
  PROVE  delivered[n][j] = <<arg_f[u], arg_v[u]>>
  BY DEF FiredSoFar

\* A step that leaves a dispatching thread and an output it has passed alone
\* leaves what FiredSoFar says of them alone.
LEMMA StillFired ==
  ASSUME FiredSoFar, NEW u \in Threads, NEW n \in Names, SameThread(u),
         pc'[u] = "fire", arg_n'[u] = n, NEW j \in Outputs(n), j < cb_i'[u],
         delivered'[n][j] = delivered[n][j]
  PROVE  delivered'[n][j] = <<arg_f'[u], arg_v'[u]>>
<1>1. pc[u] = "fire" /\ arg_n[u] = n /\ j < cb_i[u]
  BY DEF SameThread
<1>2. delivered[n][j] = <<arg_f[u], arg_v[u]>>
  BY <1>1, FiredAt
<1>3. QED
  BY <1>2 DEF SameThread

\* A step outside of every critical section does not disturb it.
LEMMA OutsideSync ==
  ASSUME SyncInv, LockInv, NEW t \in Threads, pc[t] \notin Holding, pc'[t] \notin Holding,
         \A u \in Threads \ {t} : SameThread(u),
         UNCHANGED <<last_value, valid, disp_lock, delivered>>
  PROVE  SyncInv'
<1>1. ASSUME NEW n \in Names, Untouched(n)' PROVE Synced(n)'
  <2>1. Untouched(n)
    BY <1>1 DEF Untouched, SameThread, LockInv, Holding
  <2>2. QED
    BY <2>1 DEF SyncInv, Synced
<1>2. ValueStored'
  BY DEF SyncInv, ValueStored, SameThread, Holding
<1>3. ValidStored'
  BY DEF SyncInv, ValidStored, SameThread, Holding
<1>4. FiredSoFar'
  <2>1. SUFFICES ASSUME NEW u \in Threads, NEW n \in Names, pc'[u] = "fire", arg_n'[u] = n,
                        NEW j \in Outputs(n), j < cb_i'[u]
                 PROVE  delivered'[n][j] = <<arg_f'[u], arg_v'[u]>>
    BY DEF FiredSoFar
  <2>2. SameThread(u)
    BY <2>1 DEF Holding
  <2>3. QED
    BY <2>1, <2>2, StillFired DEF SyncInv
<1>5. QED
  BY <1>1, <1>2, <1>3, <1>4 DEF SyncInv

\* Two threads are never inside the critical section of the same name.
LEMMA OneOwner ==
  ASSUME TypeOK, ControlInv, NEW t \in Threads, NEW u \in Threads, u # t,
         pc[t] \in Holding, pc[u] \in Holding
  PROVE  arg_n[u] # arg_n[t]
  BY ThreadFacts DEF ControlInv, LockInv

\* Every step of uvrgw_conf_disp_val() and of the watchdog keeps store and
\* outputs in step up to what the owner of disp_lock still has to do.
LEMMA NextSync == TypeControl /\ TypeControl' /\ SyncInv /\ [Next]_vars => SyncInv'
<1> SUFFICES ASSUME TypeOK, ControlInv, TypeOK', ControlInv', SyncInv, [Next]_vars
             PROVE  SyncInv'
  BY DEF TypeControl
<1>t. StoreType /\ ThreadType /\ ObserverType
  BY DEF TypeOK
<1>c. PcInv /\ LockInv /\ FrameInv /\ LockInv'
  BY DEF ControlInv
<1>w. /\ Watchdog \in Threads /\ Watchdog \notin Producers
      /\ Producers \subseteq Threads /\ Threads \subseteq Actors
      /\ \A r \in Readers : r \notin Threads
  BY ConstFacts
\* Steps outside of the critical sections.
<1>1. ASSUME NEW t \in Producers, NEW n \in Names, NEW f \in Finite \cup {NonFinite},
             NEW v \in BOOLEAN, DispVal(t, n, f, v)
      PROVE  SyncInv'
  <2>1. /\ pc[t] \notin Holding /\ pc'[t] \notin Holding
        /\ \A u \in Threads \ {t} : SameThread(u)
        /\ UNCHANGED <<last_value, valid, disp_lock, delivered>>
    BY <1>1, <1>t, <1>w DEF DispVal, SetFrame, ThreadType, SameThread, Holding, store
  <2>2. QED
    BY <2>1, <1>c, <1>w, OutsideSync
<1>2. CASE WatchdogPass \/ WatchdogPassDone \/ WatchdogSkip \/ WatchdogVisit
  <2>1. /\ pc[Watchdog] \notin Holding /\ pc'[Watchdog] \notin Holding
        /\ \A u \in Threads \ {Watchdog} : SameThread(u)
        /\ UNCHANGED <<last_value, valid, disp_lock, delivered>>
    BY <1>2, <1>t, <1>w DEF WatchdogPass, WatchdogPassDone, WatchdogSkip, WatchdogVisit,
       SetFrame, ClearFrame, frame, ThreadType, SameThread, Holding, store
  <2>2. QED
    BY <2>1, <1>c, <1>w, OutsideSync
\* Steps inside of one.
<1>3. ASSUME NEW t \in Threads, LockName(t) PROVE SyncInv'
  <2>1. \A u \in Threads \ {t} : SameThread(u)
    BY <1>3, <1>t, <1>w DEF LockName, frame, ThreadType, SameThread
  <2>2. pc[t] = "lock" /\ pc'[t] \in {"check", "store"}
    BY <1>3, <1>t, <1>w DEF LockName, ThreadType
  <2>3. UNCHANGED <<last_value, valid, delivered>>
    BY <1>3 DEF LockName, store
  <2>4. ASSUME NEW n \in Names, Untouched(n)' PROVE Synced(n)'
    <3>1. Untouched(n)
      <4>1. SUFFICES ASSUME NEW u \in Threads, disp_lock[n] = u PROVE pc[u] \in {"check", "store"}
        BY DEF Untouched
      <4>2. u # t
        BY <4>1, <2>2, <1>c DEF LockInv, Holding
      <4>3. disp_lock'[n] = u
        BY <4>1, <4>2, <1>3, <1>t, ThreadFacts DEF LockName, StoreType
      <4>4. QED
        BY <2>4, <4>2, <4>3, <2>1 DEF Untouched, SameThread
    <3>2. QED
      BY <3>1, <2>3 DEF SyncInv, Synced
  <2>5. ValueStored'
    BY <2>1, <2>2, <2>3 DEF SyncInv, ValueStored, SameThread
  <2>6. ValidStored'
    BY <2>1, <2>2, <2>3 DEF SyncInv, ValidStored, SameThread
  <2>7. FiredSoFar'
    <3>1. SUFFICES ASSUME NEW u \in Threads, NEW n \in Names, pc'[u] = "fire", arg_n'[u] = n,
                          NEW j \in Outputs(n), j < cb_i'[u]
                   PROVE  delivered'[n][j] = <<arg_f'[u], arg_v'[u]>>
      BY DEF FiredSoFar
    <3>2. SameThread(u)
      BY <3>1, <2>1, <2>2
    <3>3. QED
      BY <3>1, <3>2, <2>3, StillFired DEF SyncInv
  <2>8. QED
    BY <2>4, <2>5, <2>6, <2>7 DEF SyncInv
<1>4. ASSUME NEW t \in Threads, StoreValue(t) PROVE SyncInv'
  <2>1. \A u \in Threads \ {t} : SameThread(u)
    BY <1>4, <1>t, <1>w DEF StoreValue, frame, ThreadType, SameThread
  <2>2. /\ pc[t] = "store" /\ pc'[t] = "storing" /\ arg_n'[t] = arg_n[t]
        /\ arg_f'[t] = arg_f[t] /\ arg_n[t] \in Names
    BY <1>4, <1>t, <1>w, ThreadFacts DEF StoreValue, ThreadType, frame, Holding
  <2>3. UNCHANGED <<valid, delivered, disp_lock>>
    BY <1>4 DEF StoreValue
  <2>4. last_value' = [last_value EXCEPT ![arg_n[t]] = arg_f[t]]
    BY <1>4 DEF StoreValue
  <2>5. ASSUME NEW n \in Names, Untouched(n)' PROVE Synced(n)'
    <3>1. n # arg_n[t]
      BY <2>2, <2>3, <2>5, <1>c DEF Untouched, LockInv, Holding
    <3>2. Untouched(n)
      BY <3>1, <2>1, <2>2, <2>3, <2>5, <1>c DEF Untouched, LockInv, SameThread
    <3>3. QED
      BY <3>1, <3>2, <2>2, <2>3, <2>4, <1>t DEF SyncInv, Synced, StoreType
  <2>6. ValueStored'
    <3>1. SUFFICES ASSUME NEW u \in Threads, pc'[u] \in {"storing", "arm", "fire"}
                   PROVE  last_value'[arg_n'[u]] = arg_f'[u]
      BY DEF ValueStored
    <3>2. CASE u = t
      BY <3>2, <2>2, <2>4, <1>t DEF StoreType
    <3>3. CASE u # t
      BY <3>1, <3>3, <2>1, <2>2, <2>4, <1>t, OneOwner, ThreadFacts DEF SyncInv, ValueStored, SameThread, StoreType, Holding
    <3>4. QED
      BY <3>2, <3>3
  <2>7. ValidStored'
    BY <2>1, <2>2, <2>3 DEF SyncInv, ValidStored, SameThread
  <2>8. FiredSoFar'
    <3>1. SUFFICES ASSUME NEW u \in Threads, NEW n \in Names, pc'[u] = "fire", arg_n'[u] = n,
                          NEW j \in Outputs(n), j < cb_i'[u]
                   PROVE  delivered'[n][j] = <<arg_f'[u], arg_v'[u]>>
      BY DEF FiredSoFar
    <3>2. SameThread(u)
      BY <3>1, <2>1, <2>2
    <3>3. QED
      BY <3>1, <3>2, <2>3, StillFired DEF SyncInv
  <2>9. QED
    BY <2>5, <2>6, <2>7, <2>8 DEF SyncInv
<1>5. ASSUME NEW t \in Threads, StoreValid(t) PROVE SyncInv'
  <2>1. \A u \in Threads \ {t} : SameThread(u)
    BY <1>5, <1>t, <1>w DEF StoreValid, frame, ThreadType, SameThread
  <2>2. /\ pc[t] = "storing" /\ pc'[t] \in {"arm", "fire"} /\ arg_n'[t] = arg_n[t]
        /\ arg_f'[t] = arg_f[t] /\ arg_v'[t] = arg_v[t] /\ cb_i'[t] = 1 /\ arg_n[t] \in Names
    BY <1>5, <1>t, <1>w, <1>c, ThreadFacts DEF StoreValid, ThreadType, frame, Holding, FrameInv
  <2>3. UNCHANGED <<last_value, delivered, disp_lock>>
    BY <1>5 DEF StoreValid
  <2>4. valid' = [valid EXCEPT ![arg_n[t]] = arg_v[t]]
    BY <1>5 DEF StoreValid
  <2>5. ASSUME NEW n \in Names, Untouched(n)' PROVE Synced(n)'
    <3>1. n # arg_n[t]
      BY <2>2, <2>3, <2>5, <1>c DEF Untouched, LockInv, Holding
    <3>2. Untouched(n)
      BY <3>1, <2>1, <2>2, <2>3, <2>5, <1>c DEF Untouched, LockInv, SameThread
    <3>3. QED
      BY <3>1, <3>2, <2>2, <2>3, <2>4, <1>t DEF SyncInv, Synced, StoreType
  <2>6. ValueStored'
    BY <2>1, <2>2, <2>3 DEF SyncInv, ValueStored, SameThread
  <2>7. ValidStored'
    <3>1. SUFFICES ASSUME NEW u \in Threads, pc'[u] \in {"arm", "fire"}
                   PROVE  valid'[arg_n'[u]] = arg_v'[u]
      BY DEF ValidStored
    <3>2. CASE u = t
      BY <3>2, <2>2, <2>4, <1>t DEF StoreType
    <3>3. CASE u # t
      BY <3>1, <3>3, <2>1, <2>2, <2>4, <1>t, OneOwner, ThreadFacts DEF SyncInv, ValidStored, SameThread, StoreType, Holding
    <3>4. QED
      BY <3>2, <3>3
  <2>8. FiredSoFar'
    <3>1. SUFFICES ASSUME NEW u \in Threads, NEW n \in Names, pc'[u] = "fire", arg_n'[u] = n,
                          NEW j \in Outputs(n), j < cb_i'[u]
                   PROVE  delivered'[n][j] = <<arg_f'[u], arg_v'[u]>>
      BY DEF FiredSoFar
    <3>2. j \in Nat /\ j >= 1
      BY OutputPositions
    <3>3. u # t
      BY <3>1, <3>2, <2>2
    <3>4. QED
      BY <3>1, <3>3, <2>1, <2>3, StillFired DEF SyncInv
  <2>9. QED
    BY <2>5, <2>6, <2>7, <2>8 DEF SyncInv
<1>6. ASSUME NEW t \in Producers, Arm(t) PROVE SyncInv'
  <2>1. \A u \in Threads \ {t} : SameThread(u)
    BY <1>6, <1>t, <1>w DEF Arm, frame, ThreadType, SameThread
  <2>2. /\ pc[t] = "arm" /\ pc'[t] = "fire" /\ arg_n'[t] = arg_n[t] /\ t \in Threads
        /\ arg_f'[t] = arg_f[t] /\ arg_v'[t] = arg_v[t] /\ cb_i'[t] = 1 /\ arg_n[t] \in Names
    BY <1>6, <1>t, <1>w, <1>c, ThreadFacts DEF Arm, ThreadType, frame, Holding, FrameInv
  <2>3. UNCHANGED <<last_value, valid, delivered, disp_lock>>
    BY <1>6 DEF Arm, store
  <2>5. ASSUME NEW n \in Names, Untouched(n)' PROVE Synced(n)'
    <3>1. n # arg_n[t]
      BY <2>2, <2>3, <2>5, <1>c DEF Untouched, LockInv, Holding
    <3>2. Untouched(n)
      BY <3>1, <2>1, <2>2, <2>3, <2>5, <1>c DEF Untouched, LockInv, SameThread
    <3>3. QED
      BY <3>2, <2>3 DEF SyncInv, Synced
  <2>6. ValueStored'
    BY <2>1, <2>2, <2>3 DEF SyncInv, ValueStored, SameThread
  <2>7. ValidStored'
    BY <2>1, <2>2, <2>3 DEF SyncInv, ValidStored, SameThread
  <2>8. FiredSoFar'
    <3>1. SUFFICES ASSUME NEW u \in Threads, NEW n \in Names, pc'[u] = "fire", arg_n'[u] = n,
                          NEW j \in Outputs(n), j < cb_i'[u]
                   PROVE  delivered'[n][j] = <<arg_f'[u], arg_v'[u]>>
      BY DEF FiredSoFar
    <3>2. j \in Nat /\ j >= 1
      BY OutputPositions
    <3>3. u # t
      BY <3>1, <3>2, <2>2
    <3>4. QED
      BY <3>1, <3>3, <2>1, <2>3, StillFired DEF SyncInv
  <2>9. QED
    BY <2>5, <2>6, <2>7, <2>8 DEF SyncInv
<1>7. ASSUME NEW t \in Threads, FireCb(t) PROVE SyncInv'
  <2>1. \A u \in Threads \ {t} : SameThread(u)
    BY <1>7, <1>t, <1>w DEF FireCb, ThreadType, SameThread
  <2>2. /\ pc[t] = "fire" /\ pc'[t] = "fire" /\ arg_n'[t] = arg_n[t] /\ cb_i[t] \in Nat
        /\ arg_f'[t] = arg_f[t] /\ arg_v'[t] = arg_v[t] /\ cb_i'[t] = cb_i[t] + 1 /\ arg_n[t] \in Names
    BY <1>7, <1>t, <1>w, ThreadFacts DEF FireCb, ThreadType, Holding
  <2>3. UNCHANGED <<last_value, valid, disp_lock>>
    BY <1>7 DEF FireCb, store
  <2>4. /\ \A n \in Names : n # arg_n[t] => delivered'[n] = delivered[n]
        /\ \A j \in Outputs(arg_n[t]) :
             delivered'[arg_n[t]][j] = IF j = cb_i[t] THEN <<arg_f[t], arg_v[t]>>
                                       ELSE delivered[arg_n[t]][j]
    BY <1>7, <2>2, <1>t DEF FireCb, ObserverType, Outputs
  <2>5. ASSUME NEW n \in Names, Untouched(n)' PROVE Synced(n)'
    <3>1. n # arg_n[t]
      BY <2>2, <2>3, <2>5, <1>c DEF Untouched, LockInv, Holding
    <3>2. Untouched(n)
      BY <3>1, <2>1, <2>2, <2>3, <2>5, <1>c DEF Untouched, LockInv, SameThread
    <3>3. QED
      BY <3>1, <3>2, <2>3, <2>4 DEF SyncInv, Synced
  <2>6. ValueStored'
    BY <2>1, <2>2, <2>3 DEF SyncInv, ValueStored, SameThread
  <2>7. ValidStored'
    BY <2>1, <2>2, <2>3 DEF SyncInv, ValidStored, SameThread
  <2>8. FiredSoFar'
    <3>1. SUFFICES ASSUME NEW u \in Threads, NEW n \in Names, pc'[u] = "fire", arg_n'[u] = n,
                          NEW j \in Outputs(n), j < cb_i'[u]
                   PROVE  delivered'[n][j] = <<arg_f'[u], arg_v'[u]>>
      BY DEF FiredSoFar
    <3>2. j \in Nat
      BY OutputPositions
    <3>3. CASE u = t
      <4>1. n = arg_n[t] /\ (j = cb_i[t] \/ j < cb_i[t])
        BY <3>1, <3>2, <3>3, <2>2
      <4>2. CASE j = cb_i[t]
        BY <3>3, <4>1, <4>2, <2>2, <2>4
      <4>3. CASE j # cb_i[t]
        <5>1. delivered[n][j] = <<arg_f[t], arg_v[t]>>
          BY <4>1, <4>3, <2>2, FiredAt DEF SyncInv
        <5>2. QED
          BY <3>3, <4>1, <4>3, <5>1, <2>2, <2>4
      <4>4. QED
        BY <4>2, <4>3
    <3>4. CASE u # t
      <4>1. SameThread(u)
        BY <3>4, <2>1
      <4>2. pc[u] = "fire" /\ arg_n[u] = n
        BY <3>1, <4>1 DEF SameThread
      <4>3. n # arg_n[t]
        BY <3>4, <4>2, <2>2, OneOwner DEF Holding
      <4>4. delivered'[n][j] = delivered[n][j]
        BY <4>3, <2>4
      <4>5. QED
        BY <3>1, <4>1, <4>4, StillFired DEF SyncInv
    <3>5. QED
      BY <3>3, <3>4
  <2>9. QED
    BY <2>5, <2>6, <2>7, <2>8 DEF SyncInv
<1>8. ASSUME NEW t \in Producers, UnlockName(t) PROVE SyncInv'
  <2>1. \A u \in Threads \ {t} : SameThread(u)
    BY <1>8, <1>t, <1>w DEF UnlockName, SetFrame, ClearFrame, ThreadType, SameThread
  <2>2. /\ pc[t] \in {"check", "fire"} /\ pc'[t] \notin Holding /\ t \in Threads
        /\ pc[t] = "fire" => cb_i[t] > Len(Cbs[arg_n[t]])
        /\ cb_i[t] \in Nat /\ arg_n[t] \in Names /\ disp_lock[arg_n[t]] = t
    BY <1>8, <1>t, <1>w, ThreadFacts DEF UnlockName, ThreadType, Holding
  <2>3. UNCHANGED <<last_value, valid, delivered>>
    BY <1>8 DEF UnlockName, store
  <2>4. \A n \in Names : n # arg_n[t] => disp_lock'[n] = disp_lock[n]
    BY <1>8, <1>t DEF UnlockName, StoreType
  <2>5. ASSUME NEW n \in Names, Untouched(n)' PROVE Synced(n)'
    <3>1. CASE n # arg_n[t]
      <4>1. Untouched(n)
        BY <3>1, <2>1, <2>2, <2>4, <2>5, <1>c DEF Untouched, LockInv, SameThread
      <4>2. QED
        BY <4>1, <2>3 DEF SyncInv, Synced
    <3>2. CASE n = arg_n[t] /\ pc[t] = "check"
      <4>1. Untouched(n)
        BY <3>2, <2>2 DEF Untouched
      <4>2. QED
        BY <4>1, <2>3 DEF SyncInv, Synced
    <3>3. CASE n = arg_n[t] /\ pc[t] = "fire"
      <4>1. last_value[n] = arg_f[t] /\ valid[n] = arg_v[t]
        BY <3>3, <2>2 DEF SyncInv, ValueStored, ValidStored
      <4>2. \A j \in Outputs(n) : j < cb_i[t]
        BY <3>3, <2>2, OutputPositions
      <4>3. ASSUME NEW j \in Outputs(n) PROVE delivered[n][j] = <<last_value[n], valid[n]>>
        <5>1. delivered[n][j] = <<arg_f[t], arg_v[t]>>
          BY <3>3, <4>2, <2>2, FiredAt DEF SyncInv
        <5>2. QED
          BY <5>1, <4>1
      <4>4. QED
        BY <4>3, <2>3 DEF Synced
    <3>4. QED
      BY <3>1, <3>2, <3>3, <2>2
  <2>6. ValueStored'
    BY <2>1, <2>2, <2>3 DEF SyncInv, ValueStored, SameThread, Holding
  <2>7. ValidStored'
    BY <2>1, <2>2, <2>3 DEF SyncInv, ValidStored, SameThread, Holding
  <2>8. FiredSoFar'
    <3>1. SUFFICES ASSUME NEW u \in Threads, NEW n \in Names, pc'[u] = "fire", arg_n'[u] = n,
                          NEW j \in Outputs(n), j < cb_i'[u]
                   PROVE  delivered'[n][j] = <<arg_f'[u], arg_v'[u]>>
      BY DEF FiredSoFar
    <3>2. SameThread(u)
      BY <3>1, <2>1, <2>2 DEF Holding
    <3>3. QED
      BY <3>1, <3>2, <2>3, StillFired DEF SyncInv
  <2>9. QED
    BY <2>5, <2>6, <2>7, <2>8 DEF SyncInv
<1>9. CASE WatchdogLeave
  <2>1. \A u \in Threads \ {Watchdog} : SameThread(u)
    BY <1>9, <1>t, <1>w DEF WatchdogLeave, SetFrame, ClearFrame, ThreadType, SameThread
  <2>2. /\ pc[Watchdog] \in {"check", "fire"} /\ pc'[Watchdog] \notin Holding /\ Watchdog \in Threads
        /\ pc[Watchdog] = "fire" => cb_i[Watchdog] > Len(Cbs[arg_n[Watchdog]])
        /\ cb_i[Watchdog] \in Nat /\ arg_n[Watchdog] \in Names /\ disp_lock[arg_n[Watchdog]] = Watchdog
    BY <1>9, <1>t, <1>w, ThreadFacts DEF WatchdogLeave, ThreadType, Holding
  <2>3. UNCHANGED <<last_value, valid, delivered>>
    BY <1>9 DEF WatchdogLeave, store
  <2>4. \A n \in Names : n # arg_n[Watchdog] => disp_lock'[n] = disp_lock[n]
    BY <1>9, <1>t DEF WatchdogLeave, StoreType
  <2>5. ASSUME NEW n \in Names, Untouched(n)' PROVE Synced(n)'
    <3>1. CASE n # arg_n[Watchdog]
      <4>1. Untouched(n)
        BY <3>1, <2>1, <2>2, <2>4, <2>5, <1>c DEF Untouched, LockInv, SameThread
      <4>2. QED
        BY <4>1, <2>3 DEF SyncInv, Synced
    <3>2. CASE n = arg_n[Watchdog] /\ pc[Watchdog] = "check"
      <4>1. Untouched(n)
        BY <3>2, <2>2 DEF Untouched
      <4>2. QED
        BY <4>1, <2>3 DEF SyncInv, Synced
    <3>3. CASE n = arg_n[Watchdog] /\ pc[Watchdog] = "fire"
      <4>1. last_value[n] = arg_f[Watchdog] /\ valid[n] = arg_v[Watchdog]
        BY <3>3, <2>2 DEF SyncInv, ValueStored, ValidStored
      <4>2. \A j \in Outputs(n) : j < cb_i[Watchdog]
        BY <3>3, <2>2, OutputPositions
      <4>3. ASSUME NEW j \in Outputs(n) PROVE delivered[n][j] = <<last_value[n], valid[n]>>
        <5>1. delivered[n][j] = <<arg_f[Watchdog], arg_v[Watchdog]>>
          BY <3>3, <4>2, <2>2, FiredAt DEF SyncInv
        <5>2. QED
          BY <5>1, <4>1
      <4>4. QED
        BY <4>3, <2>3 DEF Synced
    <3>4. QED
      BY <3>1, <3>2, <3>3, <2>2
  <2>6. ValueStored'
    BY <2>1, <2>2, <2>3 DEF SyncInv, ValueStored, SameThread, Holding
  <2>7. ValidStored'
    BY <2>1, <2>2, <2>3 DEF SyncInv, ValidStored, SameThread, Holding
  <2>8. FiredSoFar'
    <3>1. SUFFICES ASSUME NEW u \in Threads, NEW n \in Names, pc'[u] = "fire", arg_n'[u] = n,
                          NEW j \in Outputs(n), j < cb_i'[u]
                   PROVE  delivered'[n][j] = <<arg_f'[u], arg_v'[u]>>
      BY DEF FiredSoFar
    <3>2. SameThread(u)
      BY <3>1, <2>1, <2>2 DEF Holding
    <3>3. QED
      BY <3>1, <3>2, <2>3, StillFired DEF SyncInv
  <2>9. QED
    BY <2>5, <2>6, <2>7, <2>8 DEF SyncInv
<1>10. CASE WatchdogExpire
  <2>1. \A u \in Threads \ {Watchdog} : SameThread(u)
    BY <1>10, <1>t, <1>w DEF WatchdogExpire, SetFrame, ThreadType, SameThread
  <2>2. pc[Watchdog] = "check" /\ pc'[Watchdog] = "store"
    BY <1>10, <1>t, <1>w DEF WatchdogExpire, ThreadType
  <2>3. UNCHANGED <<last_value, valid, delivered, disp_lock>>
    BY <1>10 DEF WatchdogExpire, store
  <2>5. ASSUME NEW n \in Names, Untouched(n)' PROVE Synced(n)'
    <3>1. Untouched(n)
      BY <2>1, <2>2, <2>3, <2>5 DEF Untouched, SameThread
    <3>2. QED
      BY <3>1, <2>3 DEF SyncInv, Synced
  <2>6. ValueStored'
    BY <2>1, <2>2, <2>3 DEF SyncInv, ValueStored, SameThread
  <2>7. ValidStored'
    BY <2>1, <2>2, <2>3 DEF SyncInv, ValidStored, SameThread
  <2>8. FiredSoFar'
    <3>1. SUFFICES ASSUME NEW u \in Threads, NEW n \in Names, pc'[u] = "fire", arg_n'[u] = n,
                          NEW j \in Outputs(n), j < cb_i'[u]
                   PROVE  delivered'[n][j] = <<arg_f'[u], arg_v'[u]>>
      BY DEF FiredSoFar
    <3>2. SameThread(u)
      BY <3>1, <2>1, <2>2
    <3>3. QED
      BY <3>1, <3>2, <2>3, StillFired DEF SyncInv
  <2>9. QED
    BY <2>5, <2>6, <2>7, <2>8 DEF SyncInv
\* Steps of readers, of main and of the clock.
<1>11. ASSUME \/ \E r \in Readers : ReadValue(r) \/ \E n \in Names : ReadValid(r, n)
              \/ StartupStep \/ ShutdownBegin \/ ShutdownDone \/ Tick \/ UNCHANGED vars
       PROVE  SyncInv'
  <2>1. /\ \A u \in Threads : SameThread(u)
        /\ UNCHANGED <<last_value, valid, disp_lock, delivered>>
    <3>1. CASE \E r \in Readers : ReadValue(r) \/ \E n \in Names : ReadValid(r, n)
      BY <3>1, <1>t, <1>w DEF ReadValue, ReadValid, frame, SameThread, ThreadType
    <3>2. CASE StartupStep \/ ShutdownBegin \/ ShutdownDone \/ Tick \/ UNCHANGED vars
      BY <3>2 DEF StartupStep, StartupBegin, StartupArm, StartupDone, ShutdownBegin, ShutdownDone,
         Tick, vars, store, frame, SameThread
    <3>3. QED
      BY <1>11, <3>1, <3>2
  <2>2. \A n \in Names : Untouched(n)' => Synced(n)'
    BY <2>1 DEF SyncInv, Untouched, Synced, SameThread
  <2>3. ValueStored' /\ ValidStored'
    BY <2>1 DEF SyncInv, ValueStored, ValidStored, SameThread
  <2>4. FiredSoFar'
    <3>1. SUFFICES ASSUME NEW u \in Threads, NEW n \in Names, pc'[u] = "fire", arg_n'[u] = n,
                          NEW j \in Outputs(n), j < cb_i'[u]
                   PROVE  delivered'[n][j] = <<arg_f'[u], arg_v'[u]>>
      BY DEF FiredSoFar
    <3>2. QED
      BY <3>1, <2>1, StillFired DEF SyncInv
  <2>5. QED
    BY <2>2, <2>3, <2>4 DEF SyncInv
<1>12. QED
  BY <1>w, <1>1, <1>2, <1>3, <1>4, <1>5, <1>6, <1>7, <1>8, <1>9, <1>10, <1>11
  DEF Next, ThreadStep, ProducerStep, WatchdogStep, Ended

\* Whenever no dispatch of a name is under way, every output of the name was
\* last given the stored number and validity: disp_lock, held from the store
\* to the last callback, keeps the store and the outputs in step.
THEOREM OutputsInStep == Spec => []OutputsFollowStore
<1>1. Spec => [](TypeControl /\ SyncInv)
  BY InitTypeControl, NextTypeControl, InitSync, NextSync, PTL DEF Spec
<1>2. TypeControl /\ SyncInv => OutputsFollowStore
  <2> SUFFICES ASSUME SyncInv, NEW n \in Names, Stable(n) PROVE
        \/ \A i \in Outputs(n) : delivered[n][i] = <<last_value[n], valid[n]>>
        \/ /\ \A i \in Outputs(n) : delivered[n][i] = None
           /\ <<last_value[n], valid[n]>> = <<InitValue[n], FALSE>>
    BY DEF OutputsFollowStore
  <2>1. Untouched(n)
    BY ConstFacts DEF Stable, Untouched
  <2>2. QED
    BY <2>1 DEF SyncInv, Synced
<1>3. QED
  BY <1>1, <1>2, PTL
-----------------------------------------------------------------------------
\* The owner of n's disp_lock has stored real data and not yet renewed the
\* deadline.
Renewing(n) == disp_lock[n] \in Producers /\ pc[disp_lock[n]] \in {"storing", "arm"}

\* The dispatch of n that is under way, if any, has not changed anything yet.
Quiet(n) ==
  \/ disp_lock[n] = NoOne
  \/ disp_lock[n] \in Producers /\ pc[disp_lock[n]] = "store"
  \/ disp_lock[n] = Watchdog /\ pc[Watchdog] = "check"

\* Before the watchdog thread exists.
Before == phase \in {"configured", "arming"}

\* What is known of the deadline of n at any time: it lies within the timeout,
\* goes with timed_out, is armed by startup at the latest, and is behind the
\* last data only while its owner is about to renew it.
Armed(n) ==
  /\ deadline[n] <= now + StaleTimeout[n] /\ last_data[n] <= now
  /\ timed_out[n] => deadline[n] = 0
  /\ ~Before \/ (phase = "arming" /\ n < arm_pos) => deadline[n] # 0 \/ timed_out[n]
  /\ Before => ~timed_out[n]
  /\ ~Renewing(n) => deadline[n] = 0 \/ deadline[n] >= last_data[n] + StaleTimeout[n]
  /\ ~Renewing(n) /\ Before /\ deadline[n] = 0 => last_data[n] = 0

\* How the stored pair goes with it, outside and inside of a dispatch.
Fits(n) ==
  /\ Quiet(n) /\ timed_out[n] => ~valid[n] /\ last_value[n] = InitValue[n]
  /\ Quiet(n) /\ valid[n] => deadline[n] # 0
  /\ disp_lock[n] = Watchdog /\ pc[Watchdog] \in {"store", "storing", "fire"} => timed_out[n]
  /\ disp_lock[n] \in Producers /\ pc[disp_lock[n]] = "fire" => deadline[n] # 0

\* The times main and the watchdog keep are not ahead of the clock, and the
\* watchdog does nothing before startup is done.
MainInv ==
  /\ start_now <= now /\ pass_now <= now
  /\ Before => pc[Watchdog] = "idle"
  /\ phase = "configured" => arm_pos = 1

WatchInv == MainInv /\ \A n \in Timed : Armed(n) /\ Fits(n)

DeadlineInv == TypeControl /\ SyncInv /\ WatchInv

\* At the start everything is disarmed.
LEMMA InitWatch == Init => WatchInv
<1> SUFFICES ASSUME Init PROVE WatchInv
  OBVIOUS
<1>1. MainInv
  BY ConstFacts DEF Init, MainInv
<1>2. ASSUME NEW n \in Timed PROVE Armed(n) /\ Fits(n)
  <2>1. n \in Names /\ StaleTimeout[n] \in Nat /\ disp_lock[n] = NoOne /\ NoOne \notin Threads
    BY <1>2, ConstFacts DEF Init
  <2>2. ~Renewing(n) /\ disp_lock[n] # Watchdog /\ disp_lock[n] \notin Producers
    BY <2>1, ConstFacts DEF Renewing
  <2>3. deadline[n] = 0 /\ ~timed_out[n] /\ last_data[n] = 0 /\ ~valid[n] /\ now = 1 /\ phase = "configured"
    BY <2>1 DEF Init
  <2>4. QED
    BY <2>1, <2>2, <2>3 DEF Armed, Fits, Before
<1>3. QED
  BY <1>1, <1>2 DEF WatchInv

\* A step that leaves a name, and the thread that owns it, alone.
Spared(n) ==
  /\ deadline'[n] = deadline[n] /\ timed_out'[n] = timed_out[n]
  /\ last_value'[n] = last_value[n] /\ valid'[n] = valid[n]
  /\ last_data'[n] = last_data[n]
  /\ disp_lock'[n] = disp_lock[n]
  /\ disp_lock[n] # NoOne => pc'[disp_lock[n]] = pc[disp_lock[n]]

\* Such a step keeps what is known of the name, whatever the clock does.
LEMMA SparedKeeps ==
  ASSUME NEW n \in Timed, TypeOK, TypeOK', Armed(n), Fits(n), Spared(n),
         phase' = phase, arm_pos' = arm_pos, now' >= now
  PROVE  Armed(n)' /\ Fits(n)'
<1>1. /\ now \in Nat /\ now' \in Nat /\ deadline[n] \in Nat /\ last_data[n] \in Nat
      /\ StaleTimeout[n] \in Nat /\ n \in Nat /\ arm_pos \in Nat
      /\ disp_lock[n] \in Threads \cup {NoOne}
  BY ConstFacts DEF TypeOK, StoreType, MainType
<1>2. (Renewing(n)' <=> Renewing(n)) /\ (Quiet(n)' <=> Quiet(n)) /\ (Before' <=> Before)
  BY ConstFacts DEF Spared, Renewing, Quiet, Before
<1>3. Armed(n)'
  BY <1>1, <1>2 DEF Armed, Spared
<1>4. Fits(n)'
  BY <1>2, ConstFacts DEF Fits, Spared
<1>5. QED
  BY <1>3, <1>4

\* A step of thread t spares every name t does not hold.
LEMMA OthersSpared ==
  ASSUME TypeOK, ControlInv, NEW t \in Actors, NEW n \in Names,
         t \in Threads => ~(pc[t] \in Holding /\ arg_n[t] = n),
         \A u \in Actors \ {t} : pc'[u] = pc[u],
         deadline'[n] = deadline[n], timed_out'[n] = timed_out[n],
         last_value'[n] = last_value[n], valid'[n] = valid[n],
         last_data'[n] = last_data[n], disp_lock'[n] = disp_lock[n]
  PROVE  Spared(n)
<1>1. disp_lock[n] \in Threads \cup {NoOne}
  BY DEF TypeOK, StoreType
<1>2. disp_lock[n] # NoOne => disp_lock[n] \in Threads /\ disp_lock[n] # t
  BY <1>1, ConstFacts DEF ControlInv, LockInv
<1>3. QED
  BY <1>2, ConstFacts DEF Spared

\* One step per action; under it, the name the action is about and then the
\* others.
LEMMA NextWatch ==
  TypeControl /\ TypeControl' /\ SyncInv /\ WatchInv /\ [Next]_vars => WatchInv'
<1> SUFFICES ASSUME TypeOK, ControlInv, TypeOK', ControlInv', SyncInv, WatchInv, [Next]_vars
             PROVE  WatchInv'
  BY DEF TypeControl
<1>t. StoreType /\ ThreadType /\ MainType /\ StoreType' /\ MainType'
  BY DEF TypeOK
<1>n. /\ now \in Nat /\ start_now \in Nat /\ pass_now \in Nat /\ StaleTimeout \in [Names -> Nat]
      /\ Timed \subseteq Names /\ arm_pos \in Nat /\ NumNames \in Nat
      /\ deadline \in [Names -> Nat] /\ last_data \in [Names -> Nat]
      /\ \A n \in Timed : n \in Nat /\ n >= 1 /\ n <= NumNames /\ StaleTimeout[n] \in Nat /\ StaleTimeout[n] > 0
  <2>1. \A n \in Timed : n \in Nat /\ n >= 1 /\ n <= NumNames /\ StaleTimeout[n] \in Nat /\ StaleTimeout[n] > 0
    BY ConstFacts DEF Timed
  <2>2. arm_pos \in Nat
    BY <1>t, ConstFacts DEF MainType
  <2>3. QED
    BY <1>t, <2>1, <2>2, ConstFacts DEF StoreType, ThreadType, MainType
<1>w. /\ Watchdog \in Threads /\ Watchdog \in Actors /\ Watchdog \notin Producers
      /\ Producers \subseteq Threads /\ Threads \subseteq Actors /\ Readers \subseteq Actors
      /\ \A r \in Readers : r \notin Threads
      /\ \A t \in Threads : t # NoOne /\ (t # Watchdog => t \in Producers)
  BY ConstFacts
<1>m. MainInv /\ \A n \in Timed : Armed(n) /\ Fits(n)
  BY DEF WatchInv
\* A step that spares every name and leaves main and the watchdog's times
\* alone.
<1>s. ASSUME \A n \in Timed : Spared(n), UNCHANGED <<phase, arm_pos, start_now, now>>,
             pass_now' <= now, Before => pc'[Watchdog] = pc[Watchdog]
      PROVE  WatchInv'
  <2>1. MainInv'
    BY <1>s, <1>m, <1>n DEF MainInv, Before
  <2>2. QED
    BY <1>s, <1>m, <1>n, <2>1, SparedKeeps DEF WatchInv
<1>1. ASSUME NEW t \in Producers, NEW n \in Names, NEW f \in Finite \cup {NonFinite},
             NEW v \in BOOLEAN, DispVal(t, n, f, v)
      PROVE  WatchInv'
  <2>1. /\ pc[t] = "idle" /\ \A u \in Actors \ {t} : pc'[u] = pc[u]
        /\ UNCHANGED <<deadline, timed_out, last_value, valid, last_data, disp_lock>>
        /\ UNCHANGED <<phase, arm_pos, start_now, now, pass_now>>
    BY <1>1, <1>t, <1>w DEF DispVal, ThreadType, store, wdog, main
  <2>2. \A m \in Timed : Spared(m)
    BY <2>1, <1>w, <1>n, OthersSpared DEF Holding
  <2>3. QED
    BY <2>1, <2>2, <1>s, <1>w, <1>m DEF MainInv
<1>2. ASSUME NEW t \in Threads, LockName(t) PROVE WatchInv'
  <2>1. /\ pc[t] = "lock" /\ \A u \in Actors \ {t} : pc'[u] = pc[u]
        /\ UNCHANGED <<deadline, timed_out, last_value, valid, last_data>>
        /\ UNCHANGED <<phase, arm_pos, start_now, now, pass_now>>
        /\ disp_lock[arg_n[t]] = NoOne
        /\ \A m \in Names : m # arg_n[t] => disp_lock'[m] = disp_lock[m]
        /\ pc'[t] = IF t = Watchdog THEN "check" ELSE "store"
    BY <1>2, <1>t, <1>w DEF LockName, ThreadType, StoreType, store, wdog, main
  <2>2. ASSUME NEW m \in Timed PROVE Armed(m)' /\ Fits(m)'
    <3>1. CASE m # arg_n[t]
      <4>1. Spared(m)
        BY <3>1, <2>1, <1>w, <1>n, OthersSpared DEF Holding
      <4>2. QED
        BY <4>1, <2>1, <1>m, <1>n, SparedKeeps
    <3>2. CASE m = arg_n[t]
      <4>1. disp_lock'[m] = t
        BY <3>2, <1>2, <1>t, <1>n DEF LockName, StoreType
      <4>2. ~Renewing(m) /\ ~Renewing(m)' /\ Quiet(m) /\ (Before' <=> Before)
        BY <4>1, <3>2, <2>1, <1>w DEF Renewing, Quiet, Before
      <4>3. Armed(m)'
        BY <4>2, <2>1, <1>m DEF Armed
      <4>4. Fits(m)'
        BY <4>1, <4>2, <2>1, <1>m, <1>w DEF Fits
      <4>5. QED
        BY <4>3, <4>4
    <3>3. QED
      BY <3>1, <3>2
  <2>3. Before => t # Watchdog
    BY <2>1, <1>m DEF MainInv
  <2>4. MainInv'
    BY <2>1, <2>3, <1>m, <1>w DEF MainInv, Before
  <2>5. QED
    BY <2>2, <2>4 DEF WatchInv
<1>3. ASSUME NEW t \in Threads, StoreValue(t) PROVE WatchInv'
  <2>1. /\ pc[t] = "store" /\ \A u \in Actors \ {t} : pc'[u] = pc[u]
        /\ UNCHANGED <<deadline, timed_out, valid, disp_lock>>
        /\ UNCHANGED <<phase, arm_pos, start_now, now, pass_now>>
        /\ \A m \in Names : m # arg_n[t] => last_value'[m] = last_value[m]
        /\ \A m \in Names : m # arg_n[t] => last_data'[m] = last_data[m]
        /\ pc'[t] = "storing"
    BY <1>3, <1>t, <1>w DEF StoreValue, ThreadType, StoreType, wdog, main
  <2>2. arg_n[t] \in Names /\ disp_lock[arg_n[t]] = t
    BY <2>1, ThreadFacts DEF Holding
  <2>3. ASSUME NEW m \in Timed PROVE Armed(m)' /\ Fits(m)'
    <3>1. CASE m # arg_n[t]
      <4>1. Spared(m)
        BY <3>1, <2>1, <1>w, <1>n, OthersSpared
      <4>2. QED
        BY <4>1, <2>1, <1>m, <1>n, SparedKeeps
    <3>2. CASE m = arg_n[t] /\ t # Watchdog
      <4>1. disp_lock'[m] = t /\ t \in Producers /\ (Before' <=> Before)
        BY <3>2, <2>1, <2>2, <1>w DEF Before
      <4>2. Renewing(m)' /\ ~Quiet(m)'
        BY <4>1, <2>1, <1>w DEF Renewing, Quiet
      <4>3. last_data'[m] \in {now, last_data[m]}
        BY <3>2, <2>2, <1>3, <1>t DEF StoreValue, StoreType
      <4>4. Armed(m)'
        BY <4>1, <4>2, <4>3, <2>1, <1>m, <1>n DEF Armed
      <4>5. Fits(m)'
        BY <4>1, <4>2, <2>1, <1>w DEF Fits
      <4>6. QED
        BY <4>4, <4>5
    <3>3. CASE m = arg_n[t] /\ t = Watchdog
      <4>1. disp_lock[m] = Watchdog /\ disp_lock'[m] = Watchdog /\ (Before' <=> Before)
        BY <3>3, <2>1, <2>2 DEF Before
      <4>2. ~Renewing(m) /\ ~Renewing(m)' /\ ~Quiet(m)'
        BY <4>1, <3>3, <2>1, <1>w DEF Renewing, Quiet
      <4>3. ~arg_v[Watchdog]
        BY <3>3, <2>1 DEF ControlInv, FrameInv
      <4>4. last_data' = last_data
        BY <4>3, <3>3, <1>3 DEF StoreValue
      <4>5. Armed(m)'
        BY <4>1, <4>2, <4>4, <2>1, <1>m DEF Armed
      <4>6. Fits(m)'
        BY <4>1, <4>2, <3>3, <2>1, <1>m, <1>w DEF Fits
      <4>7. QED
        BY <4>5, <4>6
    <3>4. QED
      BY <3>1, <3>2, <3>3
  <2>4. MainInv'
    BY <2>1, <1>m, <1>w DEF MainInv, Before
  <2>5. QED
    BY <2>3, <2>4 DEF WatchInv
<1>4. ASSUME NEW t \in Threads, StoreValid(t) PROVE WatchInv'
  <2>1. /\ pc[t] = "storing" /\ \A u \in Actors \ {t} : pc'[u] = pc[u]
        /\ UNCHANGED <<deadline, timed_out, last_value, last_data, disp_lock>>
        /\ UNCHANGED <<phase, arm_pos, start_now, now, pass_now>>
        /\ \A m \in Names : m # arg_n[t] => valid'[m] = valid[m]
        /\ pc'[t] = IF t = Watchdog THEN "fire" ELSE "arm"
    BY <1>4, <1>t, <1>w DEF StoreValid, ThreadType, StoreType, wdog, main
  <2>2. arg_n[t] \in Names /\ disp_lock[arg_n[t]] = t
    BY <2>1, ThreadFacts DEF Holding
  <2>3. ASSUME NEW m \in Timed PROVE Armed(m)' /\ Fits(m)'
    <3>1. CASE m # arg_n[t]
      <4>1. Spared(m)
        BY <3>1, <2>1, <1>w, <1>n, OthersSpared
      <4>2. QED
        BY <4>1, <2>1, <1>m, <1>n, SparedKeeps
    <3>2. CASE m = arg_n[t]
      <4>1. disp_lock[m] = t /\ disp_lock'[m] = t /\ (Before' <=> Before)
        BY <3>2, <2>1, <2>2 DEF Before
      <4>2. (Renewing(m)' <=> Renewing(m)) /\ ~Quiet(m)'
        BY <4>1, <2>1, <1>w DEF Renewing, Quiet
      <4>3. Armed(m)'
        BY <4>1, <4>2, <2>1, <1>m DEF Armed
      <4>4. Fits(m)'
        BY <4>1, <4>2, <2>1, <1>m, <1>w DEF Fits
      <4>5. QED
        BY <4>3, <4>4
    <3>3. QED
      BY <3>1, <3>2
  <2>4. MainInv'
    BY <2>1, <1>m, <1>w DEF MainInv, Before
  <2>5. QED
    BY <2>3, <2>4 DEF WatchInv
<1>5. ASSUME NEW t \in Producers, Arm(t) PROVE WatchInv'
  <2>0. t \in Threads /\ t # Watchdog /\ t # NoOne
    BY <1>w
  <2>1. /\ pc[t] = "arm" /\ \A u \in Actors \ {t} : pc'[u] = pc[u]
        /\ UNCHANGED <<valid, last_value, last_data, disp_lock>>
        /\ UNCHANGED <<phase, arm_pos, start_now, now, pass_now>>
        /\ \A m \in Names : m # arg_n[t] => deadline'[m] = deadline[m]
        /\ \A m \in Names : m # arg_n[t] => timed_out'[m] = timed_out[m]
        /\ pc'[t] = "fire"
    BY <1>5, <1>t, <1>w DEF Arm, ThreadType, StoreType, store, wdog, main
  <2>2. arg_n[t] \in Names /\ disp_lock[arg_n[t]] = t
    BY <2>0, <2>1, ThreadFacts DEF Holding
  <2>3. ASSUME NEW m \in Timed PROVE Armed(m)' /\ Fits(m)'
    <3>1. CASE m # arg_n[t]
      <4>1. Spared(m)
        BY <3>1, <2>0, <2>1, <1>w, <1>n, OthersSpared
      <4>2. QED
        BY <4>1, <2>1, <1>m, <1>n, SparedKeeps
    <3>2. CASE m = arg_n[t]
      <4>1. disp_lock'[m] = t /\ (Before' <=> Before)
        BY <3>2, <2>1, <2>2 DEF Before
      <4>2. ~Renewing(m)' /\ ~Quiet(m)'
        BY <4>1, <2>0, <2>1, <1>w DEF Renewing, Quiet
      <4>3. arg_v[t]
        BY <3>2, <2>1 DEF ControlInv, FrameInv
      <4>4. deadline'[m] = now + StaleTimeout[m] /\ ~timed_out'[m]
        BY <4>3, <3>2, <2>2, <1>5, <1>t, <1>n DEF Arm, StoreType
      <4>5. Armed(m)'
        BY <4>1, <4>2, <4>4, <2>1, <1>m, <1>n DEF Armed
      <4>6. deadline'[m] # 0
        BY <4>4, <1>n
      <4>7. Fits(m)'
        BY <4>1, <4>2, <4>6, <2>0, <2>1, <1>w DEF Fits
      <4>8. QED
        BY <4>5, <4>7
    <3>3. QED
      BY <3>1, <3>2
  <2>4. MainInv'
    BY <2>0, <2>1, <1>m, <1>w DEF MainInv, Before
  <2>5. QED
    BY <2>3, <2>4 DEF WatchInv
<1>6. ASSUME NEW t \in Threads, FireCb(t) PROVE WatchInv'
  <2>1. /\ UNCHANGED <<deadline, timed_out, last_value, valid, last_data, disp_lock, pc>>
        /\ UNCHANGED <<phase, arm_pos, start_now, now, pass_now>>
    BY <1>6 DEF FireCb, store, wdog, main
  <2>2. \A m \in Timed : Spared(m)
    BY <2>1 DEF Spared
  <2>3. QED
    BY <2>1, <2>2, <1>s, <1>m DEF MainInv
<1>7. ASSUME NEW t \in Producers, UnlockName(t) PROVE WatchInv'
  <2>0. t \in Threads /\ t # Watchdog /\ t # NoOne
    BY <1>w
  <2>1. /\ pc[t] = "fire" /\ \A u \in Actors \ {t} : pc'[u] = pc[u]
        /\ UNCHANGED <<deadline, timed_out, last_value, valid, last_data>>
        /\ UNCHANGED <<phase, arm_pos, start_now, now, pass_now>>
        /\ \A m \in Names : m # arg_n[t] => disp_lock'[m] = disp_lock[m]
    BY <1>7, <1>t, <1>w DEF UnlockName, ThreadType, StoreType, store, wdog, main
  <2>2. arg_n[t] \in Names /\ disp_lock[arg_n[t]] = t
    BY <2>0, <2>1, ThreadFacts DEF Holding
  <2>3. ASSUME NEW m \in Timed PROVE Armed(m)' /\ Fits(m)'
    <3>1. CASE m # arg_n[t]
      <4>1. Spared(m)
        BY <3>1, <2>0, <2>1, <1>w, <1>n, OthersSpared
      <4>2. QED
        BY <4>1, <2>1, <1>m, <1>n, SparedKeeps
    <3>2. CASE m = arg_n[t]
      <4>1. disp_lock[m] = t /\ disp_lock'[m] = NoOne /\ (Before' <=> Before)
        BY <3>2, <2>1, <2>2, <1>7, <1>t DEF Before, UnlockName, StoreType
      <4>2. ~Renewing(m) /\ ~Renewing(m)'
        BY <4>1, <2>1, <1>w, ConstFacts DEF Renewing
      <4>3. deadline[m] # 0 /\ ~timed_out[m]
        BY <4>1, <2>1, <1>m DEF Armed, Fits
      <4>4. Armed(m)'
        BY <4>1, <4>2, <2>1, <1>m DEF Armed
      <4>5. Fits(m)'
        BY <4>1, <4>3, <2>1, <1>w DEF Fits
      <4>6. QED
        BY <4>4, <4>5
    <3>3. QED
      BY <3>1, <3>2
  <2>4. MainInv'
    BY <2>0, <2>1, <1>m, <1>w DEF MainInv, Before
  <2>5. QED
    BY <2>3, <2>4 DEF WatchInv
<1>8. ASSUME NEW r \in Readers, ReadValue(r) \/ \E n \in Names : ReadValid(r, n)
      PROVE  WatchInv'
  <2>1. /\ \A u \in Actors \ {r} : pc'[u] = pc[u]
        /\ UNCHANGED <<deadline, timed_out, last_value, valid, last_data, disp_lock>>
        /\ UNCHANGED <<phase, arm_pos, start_now, now, pass_now>>
    BY <1>8, <1>t, <1>w DEF ReadValue, ReadValid, ThreadType, wdog, main
  <2>2. \A m \in Timed : Spared(m)
    BY <2>1, <1>w, <1>n, OthersSpared
  <2>3. QED
    BY <2>1, <2>2, <1>s, <1>w, <1>m DEF MainInv
<1>9. CASE WatchdogPass \/ WatchdogPassDone \/ WatchdogSkip \/ WatchdogVisit
  <2>1. /\ pc[Watchdog] \in {"idle", "next"} /\ \A u \in Actors \ {Watchdog} : pc'[u] = pc[u]
        /\ UNCHANGED <<deadline, timed_out, last_value, valid, last_data, disp_lock>>
        /\ UNCHANGED <<phase, arm_pos, start_now, now>> /\ pass_now' \in {pass_now, now}
    BY <1>9, <1>t, <1>w DEF WatchdogPass, WatchdogPassDone, WatchdogSkip, WatchdogVisit, ThreadType,
       store, wdog, main
  <2>2. \A m \in Timed : Spared(m)
    BY <2>1, <1>w, <1>n, OthersSpared DEF Holding
  <2>3. ~Before
    BY <1>9, <1>m DEF WatchdogPass, WatchdogPassDone, WatchdogSkip, WatchdogVisit, MainInv, Before
  <2>4. pass_now' <= now
    BY <2>1, <1>n, <1>m DEF MainInv
  <2>5. QED
    BY <2>1, <2>2, <2>3, <2>4, <1>s
<1>10. CASE WatchdogExpire
  <2>1. /\ pc[Watchdog] = "check" /\ \A u \in Actors \ {Watchdog} : pc'[u] = pc[u]
        /\ UNCHANGED <<last_value, valid, last_data, disp_lock>>
        /\ UNCHANGED <<phase, arm_pos, start_now, now, pass_now>>
        /\ \A m \in Names : m # arg_n[Watchdog] => deadline'[m] = deadline[m]
        /\ \A m \in Names : m # arg_n[Watchdog] => timed_out'[m] = timed_out[m]
        /\ pc'[Watchdog] = "store"
    BY <1>10, <1>t, <1>w DEF WatchdogExpire, ThreadType, StoreType, store, wdog, main
  <2>2. arg_n[Watchdog] \in Names /\ disp_lock[arg_n[Watchdog]] = Watchdog
    BY <2>1, <1>w, ThreadFacts DEF Holding
  <2>b. ~Before /\ ~Before'
    BY <2>1, <1>m DEF MainInv, Before
  <2>3. ASSUME NEW m \in Timed PROVE Armed(m)' /\ Fits(m)'
    <3>1. CASE m # arg_n[Watchdog]
      <4>1. Spared(m)
        BY <3>1, <2>1, <1>w, <1>n, OthersSpared
      <4>2. QED
        BY <4>1, <2>1, <1>m, <1>n, SparedKeeps
    <3>2. CASE m = arg_n[Watchdog]
      <4>1. disp_lock'[m] = Watchdog
        BY <3>2, <2>1, <2>2
      <4>2. ~Renewing(m)' /\ ~Quiet(m)'
        BY <4>1, <2>1, <1>w DEF Renewing, Quiet
      <4>3. deadline'[m] = 0 /\ timed_out'[m]
        BY <3>2, <2>2, <1>10, <1>t DEF WatchdogExpire, StoreType
      <4>4. Armed(m)'
        BY <4>2, <4>3, <2>1, <2>b, <1>m, <1>n DEF Armed
      <4>5. Fits(m)'
        BY <4>1, <4>2, <4>3, <1>w DEF Fits
      <4>6. QED
        BY <4>4, <4>5
    <3>3. QED
      BY <3>1, <3>2
  <2>4. MainInv'
    BY <2>1, <2>b, <1>m DEF MainInv, Before
  <2>5. QED
    BY <2>3, <2>4 DEF WatchInv
<1>11. CASE WatchdogLeave
  <2>1. /\ pc[Watchdog] \in {"check", "fire"} /\ \A u \in Actors \ {Watchdog} : pc'[u] = pc[u]
        /\ UNCHANGED <<deadline, timed_out, last_value, valid, last_data>>
        /\ UNCHANGED <<phase, arm_pos, start_now, now, pass_now>>
        /\ \A m \in Names : m # arg_n[Watchdog] => disp_lock'[m] = disp_lock[m]
    BY <1>11, <1>t, <1>w DEF WatchdogLeave, ThreadType, StoreType, store, wdog, main
  <2>2. arg_n[Watchdog] \in Names /\ disp_lock[arg_n[Watchdog]] = Watchdog
    BY <2>1, <1>w, ThreadFacts DEF Holding
  <2>b. ~Before /\ ~Before'
    BY <2>1, <1>m DEF MainInv, Before
  <2>3. ASSUME NEW m \in Timed PROVE Armed(m)' /\ Fits(m)'
    <3>1. CASE m # arg_n[Watchdog]
      <4>1. Spared(m)
        BY <3>1, <2>1, <1>w, <1>n, OthersSpared
      <4>2. QED
        BY <4>1, <2>1, <1>m, <1>n, SparedKeeps
    <3>2. CASE m = arg_n[Watchdog]
      <4>1. disp_lock[m] = Watchdog /\ disp_lock'[m] = NoOne
        BY <3>2, <2>1, <2>2, <1>11, <1>t DEF WatchdogLeave, StoreType
      <4>2. ~Renewing(m) /\ ~Renewing(m)'
        BY <4>1, <2>1, <1>w, ConstFacts DEF Renewing
      <4>3. /\ timed_out[m] => ~valid[m] /\ last_value[m] = InitValue[m]
            /\ valid[m] => deadline[m] # 0
        <5>1. CASE pc[Watchdog] = "check"
          BY <5>1, <4>1, <1>m DEF Fits, Quiet
        <5>2. CASE pc[Watchdog] = "fire"
          <6>1. last_value[m] = InitValue[m] /\ valid[m] = FALSE
            BY <5>2, <3>2, <1>w DEF SyncInv, ValueStored, ValidStored, ControlInv, FrameInv
          <6>2. QED
            BY <6>1
        <5>3. QED
          BY <2>1, <5>1, <5>2
      <4>4. Armed(m)'
        BY <4>1, <4>2, <2>1, <2>b, <1>m DEF Armed
      <4>5. Fits(m)'
        BY <4>1, <4>3, <2>1, <1>w, ConstFacts DEF Fits
      <4>6. QED
        BY <4>4, <4>5
    <3>3. QED
      BY <3>1, <3>2
  <2>4. MainInv'
    BY <2>1, <2>b, <1>m DEF MainInv, Before
  <2>5. QED
    BY <2>3, <2>4 DEF WatchInv
<1>12. CASE StartupBegin
  <2>1. /\ UNCHANGED <<deadline, timed_out, last_value, valid, last_data, disp_lock, pc>>
        /\ UNCHANGED <<arm_pos, now, pass_now>> /\ start_now' = now
        /\ phase = "configured" /\ phase' = "arming" /\ Before /\ Before' /\ arm_pos = 1
    BY <1>12, <1>m DEF StartupBegin, store, wdog, Before, MainInv
  <2>2. ASSUME NEW m \in Timed PROVE Armed(m)' /\ Fits(m)'
    <3>1. (Renewing(m)' <=> Renewing(m)) /\ (Quiet(m)' <=> Quiet(m)) /\ ~(m < arm_pos)
      BY <2>1, <1>n DEF Renewing, Quiet
    <3>2. Armed(m)'
      BY <2>1, <3>1, <1>m DEF Armed
    <3>3. Fits(m)'
      BY <2>1, <3>1, <1>m DEF Fits
    <3>4. QED
      BY <3>2, <3>3
  <2>3. MainInv'
    BY <2>1, <1>m, <1>n DEF MainInv
  <2>4. QED
    BY <2>2, <2>3 DEF WatchInv
<1>13. CASE StartupArm
  <2>1. /\ UNCHANGED <<timed_out, last_value, valid, last_data, disp_lock, pc>>
        /\ UNCHANGED <<now, pass_now, start_now, phase>> /\ arm_pos' = arm_pos + 1
        /\ phase = "arming" /\ Before /\ Before' /\ arm_pos \in Names
    BY <1>13, <1>t, ConstFacts DEF StartupArm, store, wdog, Before, MainType
  <2>2. ASSUME NEW m \in Timed PROVE Armed(m)' /\ Fits(m)'
    <3>1. (Renewing(m)' <=> Renewing(m)) /\ (Quiet(m)' <=> Quiet(m))
      BY <2>1 DEF Renewing, Quiet
    <3>2. CASE m # arm_pos \/ deadline[m] # 0
      <4>1. deadline'[m] = deadline[m] /\ (m < arm_pos + 1 => m < arm_pos \/ deadline[m] # 0)
        BY <3>2, <1>13, <1>n, <2>1 DEF StartupArm
      <4>2. Armed(m)'
        BY <2>1, <3>1, <4>1, <1>m DEF Armed
      <4>3. Fits(m)'
        BY <2>1, <3>1, <4>1, <1>m DEF Fits
      <4>4. QED
        BY <4>2, <4>3
    <3>3. CASE m = arm_pos /\ deadline[m] = 0
      <4>1. disp_lock[m] = NoOne /\ deadline'[m] = start_now + StaleTimeout[m]
        BY <3>3, <1>13, <1>n, <2>1 DEF StartupArm
      <4>2. ~Renewing(m) /\ ~timed_out[m]
        BY <4>1, <2>1, <1>m, <1>w, ConstFacts DEF Renewing, Armed
      <4>3. last_data[m] = 0
        BY <4>2, <3>3, <2>1, <1>m DEF Armed
      <4>4. start_now <= now
        BY <1>m DEF MainInv
      <4>5. Armed(m)'
        BY <4>1, <4>2, <4>3, <4>4, <2>1, <1>n DEF Armed
      <4>6. deadline'[m] # 0
        BY <4>1, <1>n
      <4>7. Fits(m)'
        BY <2>1, <4>1, <4>2, <4>6, <1>w, ConstFacts DEF Fits
      <4>8. QED
        BY <4>5, <4>7
    <3>4. QED
      BY <3>2, <3>3
  <2>3. MainInv'
    BY <2>1, <1>m DEF MainInv, Before
  <2>4. QED
    BY <2>2, <2>3 DEF WatchInv
<1>14. CASE StartupDone
  <2>1. /\ UNCHANGED <<deadline, timed_out, last_value, valid, last_data, disp_lock, pc>>
        /\ UNCHANGED <<arm_pos, now, pass_now, start_now>> /\ arm_pos > NumNames
        /\ phase = "arming" /\ phase' = "running" /\ Before /\ ~Before'
    BY <1>14 DEF StartupDone, store, wdog, Before
  <2>2. ASSUME NEW m \in Timed PROVE Armed(m)' /\ Fits(m)'
    <3>1. (Renewing(m)' <=> Renewing(m)) /\ (Quiet(m)' <=> Quiet(m)) /\ m < arm_pos
      BY <2>1, <1>n DEF Renewing, Quiet
    <3>2. Armed(m)'
      BY <2>1, <3>1, <1>m DEF Armed
    <3>3. Fits(m)'
      BY <2>1, <3>1, <1>m DEF Fits
    <3>4. QED
      BY <3>2, <3>3
  <2>3. MainInv'
    BY <2>1, <1>m DEF MainInv
  <2>4. QED
    BY <2>2, <2>3 DEF WatchInv
<1>15. CASE ShutdownBegin \/ ShutdownDone
  <2>1. /\ UNCHANGED <<deadline, timed_out, last_value, valid, last_data, disp_lock, pc>>
        /\ UNCHANGED <<arm_pos, now, pass_now, start_now>>
        /\ ~Before /\ ~Before' /\ phase' # "configured" /\ phase' # "arming"
    BY <1>15 DEF ShutdownBegin, ShutdownDone, store, wdog, Before
  <2>2. ASSUME NEW m \in Timed PROVE Armed(m)' /\ Fits(m)'
    <3>1. (Renewing(m)' <=> Renewing(m)) /\ (Quiet(m)' <=> Quiet(m))
      BY <2>1 DEF Renewing, Quiet
    <3>2. Armed(m)'
      BY <2>1, <3>1, <1>m DEF Armed
    <3>3. Fits(m)'
      BY <2>1, <3>1, <1>m DEF Fits
    <3>4. QED
      BY <3>2, <3>3
  <2>3. MainInv'
    BY <2>1, <1>m DEF MainInv
  <2>4. QED
    BY <2>2, <2>3 DEF WatchInv
<1>16. CASE Tick
  <2>1. /\ UNCHANGED <<deadline, timed_out, last_value, valid, last_data, disp_lock, pc>>
        /\ UNCHANGED <<arm_pos, pass_now, start_now, phase>> /\ now' = now + 1
    BY <1>16 DEF Tick, store, wdog, main
  <2>2. \A m \in Timed : Spared(m)
    BY <2>1 DEF Spared
  <2>3. now' >= now
    BY <2>1, <1>n
  <2>4. MainInv'
    BY <2>1, <1>m, <1>n DEF MainInv, Before
  <2>5. QED
    BY <2>1, <2>2, <2>3, <2>4, <1>m, SparedKeeps DEF WatchInv
<1>17. CASE UNCHANGED vars
  <2>1. (\A m \in Timed : Spared(m)) /\ UNCHANGED <<phase, arm_pos, start_now, now, pass_now, pc>>
    BY <1>17 DEF vars, Spared
  <2>2. QED
    BY <2>1, <1>s, <1>m DEF MainInv
<1>18. QED
  BY <1>w, <1>1, <1>2, <1>3, <1>4, <1>5, <1>6, <1>7, <1>8, <1>9, <1>10, <1>11, <1>12, <1>13, <1>14,
     <1>15, <1>16, <1>17
  DEF Next, ThreadStep, ProducerStep, WatchdogStep, StartupStep, Ended

\* The inductive invariant of the dispatcher.
LEMMA DeadlineInvHolds == Spec => []DeadlineInv
<1>1. Init => DeadlineInv
  BY InitTypeControl, InitSync, InitWatch DEF DeadlineInv
<1>2. DeadlineInv /\ [Next]_vars => DeadlineInv'
  BY NextTypeControl, NextSync, NextWatch DEF DeadlineInv
<1>3. QED
  BY <1>1, <1>2, PTL DEF Spec

\* The deadline, the timed_out flag and the stored pair of a name always
\* belong together, whatever producers, watchdog and startup do at once: a
\* timed out name is reset and disarmed, current data is watched, and once
\* the watchdog runs no name with a stale_timeout escapes it.
THEOREM DeadlinesFit == Spec => []DeadlineFitsValue
<1>1. DeadlineInv => DeadlineFitsValue
  <2> SUFFICES ASSUME DeadlineInv, NEW n \in Timed, Stable(n)
               PROVE  /\ timed_out[n] => ~valid[n] /\ last_value[n] = InitValue[n] /\ deadline[n] = 0
                      /\ valid[n] => deadline[n] \in (last_data[n] + StaleTimeout[n])..(now + StaleTimeout[n])
                      /\ phase \in {"running", "stopping"} => deadline[n] # 0 \/ timed_out[n]
    BY DEF DeadlineFitsValue, TimedOutIsReset, ValidIsArmed, WatchedOrReset
  <2>1. Armed(n) /\ Fits(n) /\ TypeOK
    BY DEF DeadlineInv, WatchInv, TypeControl
  <2>2. Quiet(n) /\ ~Renewing(n)
    BY ConstFacts DEF Stable, Quiet, Renewing
  <2>3. deadline[n] \in Nat /\ last_data[n] \in Nat /\ StaleTimeout[n] \in Nat /\ now \in Nat
    BY <2>1, ConstFacts DEF TypeOK, StoreType, MainType
  <2>4. timed_out[n] => ~valid[n] /\ last_value[n] = InitValue[n] /\ deadline[n] = 0
    BY <2>1, <2>2 DEF Armed, Fits
  <2>5. valid[n] => deadline[n] # 0
    BY <2>1, <2>2 DEF Fits
  <2>6. deadline[n] # 0 => deadline[n] >= last_data[n] + StaleTimeout[n] /\ deadline[n] <= now + StaleTimeout[n]
    BY <2>1, <2>2 DEF Armed
  <2>7. phase \in {"running", "stopping"} => deadline[n] # 0 \/ timed_out[n]
    BY <2>1 DEF Armed, Before
  <2>8. valid[n] => deadline[n] \in (last_data[n] + StaleTimeout[n])..(now + StaleTimeout[n])
    BY <2>3, <2>5, <2>6
  <2>9. QED
    BY <2>4, <2>7, <2>8
<1>2. QED
  BY <1>1, DeadlineInvHolds, PTL

\* The watchdog never resets a name before a full stale_timeout has passed
\* since its last data, even if the data arrived after the pass began.
THEOREM ResetsAreDue == Spec => NoPrematureReset
<1> DEFINE Due == \A n \in Names : timed_out'[n] /\ ~timed_out[n] => now >= last_data[n] + StaleTimeout[n]
<1>1. DeadlineInv /\ [Next]_vars => [Due]_vars
  <2> SUFFICES ASSUME DeadlineInv, [Next]_vars, NEW n \in Names, timed_out'[n], ~timed_out[n]
               PROVE  now >= last_data[n] + StaleTimeout[n]
    BY DEF vars
  <2>1. TypeOK /\ ControlInv /\ MainInv /\ \A m \in Timed : Armed(m) /\ Fits(m)
    BY DEF DeadlineInv, WatchInv, TypeControl
  <2>2. timed_out \in [Names -> BOOLEAN] /\ deadline \in [Names -> Nat] /\ last_data \in [Names -> Nat]
        /\ now \in Nat /\ pass_now \in Nat /\ StaleTimeout \in [Names -> Nat]
    BY <2>1, ConstFacts DEF TypeOK, StoreType, ThreadType, MainType
  <2>3. CASE ~WatchdogExpire
    <3>1. timed_out'[n] = timed_out[n] \/ ~timed_out'[n]
      BY <2>2, <2>3 DEF Next, ThreadStep, ProducerStep, WatchdogStep, StartupStep, Ended, DispVal, LockName,
         StoreValue, StoreValid, Arm, FireCb, UnlockName, ReadValid, ReadValue, WatchdogPass, WatchdogPassDone,
         WatchdogSkip, WatchdogVisit, WatchdogLeave, StartupBegin, StartupArm, StartupDone, ShutdownBegin,
         ShutdownDone, Tick, vars
    <3>2. QED
      BY <3>1
  <2>4. CASE WatchdogExpire
    <3>1. pc[Watchdog] = "check" /\ n = arg_n[Watchdog] /\ Expired(n)
      BY <2>2, <2>4 DEF WatchdogExpire
    <3>2. disp_lock[n] = Watchdog /\ n \in Timed
      BY <3>1, <2>1, ConstFacts, ThreadFacts DEF Holding, ControlInv, FrameInv
    <3>3. ~Renewing(n)
      BY <3>2, ConstFacts DEF Renewing
    <3>4. deadline[n] >= last_data[n] + StaleTimeout[n]
      BY <3>1, <3>2, <3>3, <2>1 DEF Armed, Expired
    <3>5. pass_now >= deadline[n] /\ pass_now <= now
      BY <3>1, <2>1 DEF Expired, MainInv
    <3>6. QED
      BY <3>4, <3>5, <2>2
  <2>5. QED
    BY <2>3, <2>4
<1>2. QED
  BY <1>1, DeadlineInvHolds, PTL DEF Spec, NoPrematureReset

-----------------------------------------------------------------------------
(***************************************************************************)
(* Every name implements a cell of ValueCell.                              *)
(***************************************************************************)

\* last_lock is held between the two halves of a store and of a read, so a
\* reader's validity is still the stored one when it reads the number.
ReadInv ==
  /\ \A t \in Threads : pc[t] = "storing" => last_lock[arg_n[t]] = t
  /\ \A r \in Readers : pc[r] = "reading" =>
       last_lock[peek[r].n] = r /\ valid[peek[r].n] = peek[r].v

LEMMA InitRead == Init => ReadInv
BY ConstFacts DEF Init, ReadInv

LEMMA NextRead == TypeControl /\ ReadInv /\ [Next]_vars => ReadInv'
<1> SUFFICES ASSUME TypeOK, ControlInv, ReadInv, [Next]_vars PROVE ReadInv'
  BY DEF TypeControl
<1>t. StoreType /\ ThreadType /\ ObserverType
  BY DEF TypeOK
<1>w. /\ Watchdog \in Threads /\ Producers \subseteq Threads /\ Threads \subseteq Actors
      /\ Readers \subseteq Actors /\ \A r \in Readers : r \notin Threads
      /\ NoOne \notin Actors
  BY ConstFacts, ConstantsOK DEF ConstantsOK
<1>p. \A r \in Readers : peek[r].n \in Names /\ peek[r].v \in BOOLEAN
  BY <1>t DEF ObserverType
<1>1. ASSUME NEW t \in Threads, StoreValue(t) PROVE ReadInv'
  <2>1. /\ arg_n[t] \in Names /\ last_lock[arg_n[t]] = NoOne
        /\ last_lock' = [last_lock EXCEPT ![arg_n[t]] = t]
        /\ pc' = [pc EXCEPT ![t] = "storing"] /\ UNCHANGED <<arg_n, peek, valid>>
    BY <1>1, ThreadFacts DEF StoreValue, Holding, frame, reads
  <2>2. QED
    BY <2>1, <1>t, <1>w, <1>p DEF ReadInv, StoreType, ThreadType
<1>2. ASSUME NEW t \in Threads, StoreValid(t) PROVE ReadInv'
  <2>1. /\ arg_n[t] \in Names /\ pc[t] = "storing"
        /\ last_lock' = [last_lock EXCEPT ![arg_n[t]] = NoOne]
        /\ valid' = [valid EXCEPT ![arg_n[t]] = arg_v[t]]
        /\ pc'[t] # "storing" /\ \A u \in Actors \ {t} : pc'[u] = pc[u]
        /\ UNCHANGED <<arg_n, peek>>
    BY <1>2, <1>t, <1>w, ThreadFacts DEF StoreValid, Holding, ThreadType, frame, reads
  <2>2. last_lock[arg_n[t]] = t
    BY <2>1 DEF ReadInv
  <2>3. ASSUME NEW u \in Threads, pc'[u] = "storing" PROVE last_lock'[arg_n'[u]] = u
    <3>1. u # t /\ pc[u] = "storing" /\ last_lock[arg_n[u]] = u
      BY <2>1, <2>3, <1>w DEF ReadInv
    <3>2. arg_n[u] # arg_n[t] /\ arg_n[u] \in Names
      BY <3>1, <2>2, ThreadFacts DEF Holding
    <3>3. QED
      BY <3>1, <3>2, <2>1, <1>t DEF StoreType
  <2>4. ASSUME NEW r \in Readers, pc'[r] = "reading"
        PROVE  last_lock'[peek'[r].n] = r /\ valid'[peek'[r].n] = peek'[r].v
    <3>1. r # t /\ pc[r] = "reading"
      BY <2>1, <2>4, <1>w
    <3>2. last_lock[peek[r].n] = r /\ valid[peek[r].n] = peek[r].v
      BY <3>1 DEF ReadInv
    <3>3. peek[r].n # arg_n[t]
      BY <3>1, <3>2, <2>2
    <3>4. QED
      BY <3>2, <3>3, <2>1, <1>t, <1>p DEF StoreType
  <2>5. QED
    BY <2>3, <2>4 DEF ReadInv
<1>3. ASSUME NEW r \in Readers, NEW n \in Names, ReadValid(r, n) PROVE ReadInv'
  <2>1. /\ last_lock[n] = NoOne /\ last_lock' = [last_lock EXCEPT ![n] = r]
        /\ pc'[r] = "reading" /\ \A u \in Actors \ {r} : pc'[u] = pc[u]
        /\ peek' = [peek EXCEPT ![r] = [n |-> n, v |-> valid[n]]]
        /\ UNCHANGED <<arg_n, valid>>
    BY <1>3, <1>t, <1>w DEF ReadValid, ThreadType, frame
  <2>2. ASSUME NEW u \in Threads, pc'[u] = "storing" PROVE last_lock'[arg_n'[u]] = u
    <3>1. pc[u] = "storing" /\ last_lock[arg_n[u]] = u /\ arg_n[u] \in Names /\ u # NoOne
      BY <2>1, <2>2, <1>w, ThreadFacts DEF ReadInv, Holding
    <3>2. QED
      BY <3>1, <2>1, <1>t DEF StoreType
  <2>3. ASSUME NEW q \in Readers, pc'[q] = "reading"
        PROVE  last_lock'[peek'[q].n] = q /\ valid'[peek'[q].n] = peek'[q].v
    <3>1. CASE q = r
      <4>1. peek'[q].n = n /\ peek'[q].v = valid[n]
        BY <3>1, <2>1, <1>t DEF ObserverType
      <4>2. QED
        BY <3>1, <4>1, <2>1, <1>t DEF StoreType
    <3>2. CASE q # r
      <4>1. pc[q] = "reading" /\ peek'[q] = peek[q] /\ q # NoOne
        BY <3>2, <2>1, <2>3, <1>t, <1>w DEF ObserverType
      <4>2. last_lock[peek[q].n] = q /\ valid[peek[q].n] = peek[q].v /\ peek[q].n # n
        BY <4>1, <2>1 DEF ReadInv
      <4>3. QED
        BY <4>1, <4>2, <2>1, <1>t, <1>p DEF StoreType
    <3>3. QED
      BY <3>1, <3>2
  <2>4. QED
    BY <2>2, <2>3 DEF ReadInv
<1>4. ASSUME NEW r \in Readers, ReadValue(r) PROVE ReadInv'
  <2>1. /\ pc[r] = "reading" /\ last_lock' = [last_lock EXCEPT ![peek[r].n] = NoOne]
        /\ pc'[r] = "idle" /\ \A u \in Actors \ {r} : pc'[u] = pc[u]
        /\ UNCHANGED <<arg_n, valid, peek>>
    BY <1>4, <1>t, <1>w DEF ReadValue, ThreadType, frame
  <2>2. last_lock[peek[r].n] = r
    BY <2>1 DEF ReadInv
  <2>3. ASSUME NEW u \in Threads, pc'[u] = "storing" PROVE last_lock'[arg_n'[u]] = u
    <3>1. pc[u] = "storing" /\ last_lock[arg_n[u]] = u /\ arg_n[u] \in Names /\ u # r
      BY <2>1, <2>3, <1>w, ThreadFacts DEF ReadInv, Holding
    <3>2. QED
      BY <3>1, <2>1, <2>2, <1>t DEF StoreType
  <2>4. ASSUME NEW q \in Readers, pc'[q] = "reading"
        PROVE  last_lock'[peek'[q].n] = q /\ valid'[peek'[q].n] = peek'[q].v
    <3>1. q # r /\ pc[q] = "reading"
      BY <2>1, <2>4, <1>w
    <3>2. last_lock[peek[q].n] = q /\ valid[peek[q].n] = peek[q].v /\ peek[q].n # peek[r].n
      BY <3>1, <2>2 DEF ReadInv
    <3>3. QED
      BY <3>2, <2>1, <1>t, <1>p DEF StoreType
  <2>5. QED
    BY <2>3, <2>4 DEF ReadInv
\* The other steps touch neither last_lock nor what it protects.
<1>5. ASSUME UNCHANGED <<last_lock, valid, peek>>,
             \A t \in Threads : pc'[t] = "storing" => pc[t] = "storing" /\ arg_n'[t] = arg_n[t],
             \A r \in Readers : pc'[r] = pc[r]
      PROVE  ReadInv'
  BY <1>5 DEF ReadInv
<1>6. ASSUME NEW t \in Producers, NEW n \in Names, NEW f \in Finite \cup {NonFinite},
             NEW v \in BOOLEAN, DispVal(t, n, f, v)
      PROVE  ReadInv'
  BY <1>6, <1>5, <1>t, <1>w DEF DispVal, SetFrame, ThreadType, store, reads
<1>7. ASSUME NEW t \in Threads, LockName(t) \/ FireCb(t) PROVE ReadInv'
  BY <1>7, <1>5, <1>t, <1>w DEF LockName, FireCb, ThreadType, frame, store, reads
<1>8. ASSUME NEW t \in Producers, Arm(t) \/ UnlockName(t) PROVE ReadInv'
  BY <1>8, <1>5, <1>t, <1>w DEF Arm, UnlockName, ClearFrame, SetFrame, ThreadType, frame, store, reads
<1>9. CASE WatchdogPass \/ WatchdogPassDone \/ WatchdogSkip \/ WatchdogVisit \/ WatchdogExpire \/ WatchdogLeave
  BY <1>9, <1>5, <1>t, <1>w DEF WatchdogPass, WatchdogPassDone, WatchdogSkip, WatchdogVisit, WatchdogExpire,
     WatchdogLeave, ClearFrame, SetFrame, ThreadType, frame, store, reads
<1>10. CASE StartupStep \/ ShutdownBegin \/ ShutdownDone \/ Tick \/ UNCHANGED vars
  BY <1>10, <1>5 DEF StartupStep, StartupBegin, StartupArm, StartupDone, ShutdownBegin, ShutdownDone, Tick,
     vars, frame, store, reads
<1>11. QED
  BY <1>w, <1>1, <1>2, <1>3, <1>4, <1>6, <1>7, <1>8, <1>9, <1>10
  DEF Next, ThreadStep, ProducerStep, WatchdogStep, Ended

\* A publication of n is under way in thread t: it has stored the number.
Under(n, t) == disp_lock[n] = t /\ pc[t] \in {"storing", "arm", "fire"}

\* The cell of a name while thread t publishes it: its outputs wait from the
\* callback position of t on, and the validity is the one being stored.
LEMMA CellUnder ==
  ASSUME TypeOK, ControlInv, NEW n \in Names, NEW t \in Threads, Under(n, t)
  PROVE  /\ CellPair(n) = <<last_value[n], IF pc[t] = "storing" THEN arg_v[t] ELSE valid[n]>>
         /\ Waiting(n) = {i \in Outputs(n) : i >= cb_i[t]}
<1>1. \A u \in Threads : pc[u] \in {"storing", "arm", "fire"} /\ arg_n[u] = n <=> u = t
  BY DEF Under, ControlInv, LockInv, Holding
<1>2. InFlight(n) = {t}
  BY <1>1 DEF InFlight
<1>3. Storing(n) = IF pc[t] = "storing" THEN {t} ELSE {}
  BY <1>1 DEF Storing
<1>4. arg_v[t] \in BOOLEAN
  BY ThreadFacts
<1>5. CellPair(n) = <<last_value[n], IF pc[t] = "storing" THEN arg_v[t] ELSE valid[n]>>
  <2>1. CASE pc[t] = "storing"
    <3>1. Storing(n) = {t}
      BY <1>3, <2>1
    <3>2. (\E u \in Storing(n) : arg_v[u]) = arg_v[t]
      BY <3>1, <1>4
    <3>3. QED
      BY <2>1, <3>1, <3>2 DEF CellPair
  <2>2. CASE pc[t] # "storing"
    BY <1>3, <2>2 DEF CellPair
  <2>3. QED
    BY <2>1, <2>2
<1>6. QED
  BY <1>2, <1>5 DEF Waiting

\* The cell of a name nobody is publishing.
LEMMA CellFree ==
  ASSUME TypeOK, ControlInv, NEW n \in Names, \A t \in Threads : ~Under(n, t)
  PROVE  CellPair(n) = <<last_value[n], valid[n]>> /\ Waiting(n) = {}
<1>1. \A u \in Threads : ~(pc[u] \in {"storing", "arm", "fire"} /\ arg_n[u] = n)
  BY DEF Under, ControlInv, LockInv, Holding
<1>2. InFlight(n) = {} /\ Storing(n) = {}
  BY <1>1 DEF InFlight, Storing
<1>3. QED
  BY <1>2 DEF CellPair, Waiting

\* Both, of all names.
CellsAre ==
  /\ \A n \in Names, t \in Threads : Under(n, t) =>
       /\ CellPair(n) = <<last_value[n], IF pc[t] = "storing" THEN arg_v[t] ELSE valid[n]>>
       /\ Waiting(n) = {i \in Outputs(n) : i >= cb_i[t]}
  /\ \A n \in Names : (\A t \in Threads : ~Under(n, t)) =>
       CellPair(n) = <<last_value[n], valid[n]>> /\ Waiting(n) = {}

LEMMA CellsAsThreads == (TypeControl => CellsAre) /\ (TypeControl' => CellsAre')
<1>1. TypeControl => CellsAre
  BY CellUnder, CellFree DEF TypeControl, CellsAre
<1>2. TypeControl' => CellsAre'
  BY <1>1, PTL
<1>3. QED
  BY <1>1, <1>2

\* A name whose store and whose publishing thread a step leaves alone.
Same(n) ==
  /\ last_value'[n] = last_value[n] /\ valid'[n] = valid[n]
  /\ \A t \in Threads : Under(n, t)' <=> Under(n, t)
  /\ \A t \in Threads : Under(n, t) =>
       pc'[t] = pc[t] /\ arg_v'[t] = arg_v[t] /\ cb_i'[t] = cb_i[t]

LEMMA SameCell ==
  ASSUME CellsAre, CellsAre', NEW n \in Names, Same(n)
  PROVE  CellPair(n)' = CellPair(n) /\ Waiting(n)' = Waiting(n)
<1>1. CASE \A t \in Threads : ~Under(n, t)
  <2>1. CellPair(n) = <<last_value[n], valid[n]>> /\ Waiting(n) = {}
    BY <1>1 DEF CellsAre
  <2>2. \A t \in Threads : ~Under(n, t)'
    BY <1>1 DEF Same
  <2>3. CellPair(n)' = <<last_value'[n], valid'[n]>> /\ Waiting(n)' = {}
    BY <2>2 DEF CellsAre
  <2>4. QED
    BY <2>1, <2>3 DEF Same
<1>2. CASE \E t \in Threads : Under(n, t)
  <2>1. PICK t \in Threads : Under(n, t)
    BY <1>2
  <2>2. /\ CellPair(n) = <<last_value[n], IF pc[t] = "storing" THEN arg_v[t] ELSE valid[n]>>
        /\ Waiting(n) = {i \in Outputs(n) : i >= cb_i[t]}
    BY <2>1 DEF CellsAre
  <2>3. Under(n, t)'
    BY <2>1 DEF Same
  <2>4. /\ CellPair(n)' = <<last_value'[n], IF pc'[t] = "storing" THEN arg_v'[t] ELSE valid'[n]>>
        /\ Waiting(n)' = {i \in Outputs(n) : i >= cb_i'[t]}
    BY <2>3 DEF CellsAre
  <2>5. QED
    BY <2>1, <2>2, <2>4 DEF Same
<1>3. QED
  BY <1>1, <1>2

\* A step of thread t leaves the names it does not hold alone.
LEMMA OtherCells ==
  ASSUME TypeOK, ControlInv, NEW t \in Threads, NEW n \in Names,
         ~(pc[t] \in Holding /\ arg_n[t] = n), ~Under(n, t)',
         \A u \in Threads \ {t} : SameThread(u),
         last_value'[n] = last_value[n], valid'[n] = valid[n],
         disp_lock'[n] = disp_lock[n]
  PROVE  Same(n)
<1>1. ~Under(n, t)
  BY DEF Under, ControlInv, LockInv
<1>2. QED
  BY <1>1 DEF Same, Under, SameThread

\* The cells start with their initial pairs.
LEMMA InitCell == Init => Cell!Init
<1> SUFFICES ASSUME Init PROVE Cell!Init
  OBVIOUS
<1>1. TypeOK /\ ControlInv
  BY InitTypeControl DEF TypeControl
<1>2. ASSUME NEW n \in Names PROVE CellPair(n) = <<InitValue[n], FALSE>> /\ Waiting(n) = {}
  <2>1. \A t \in Threads : ~Under(n, t)
    BY ConstFacts DEF Init, Under
  <2>2. last_value[n] = InitValue[n] /\ valid[n] = FALSE
    BY DEF Init
  <2>3. QED
    BY <1>1, <2>1, <2>2, CellFree
<1>3. \A n \in Names : [i \in Outputs(n) |-> delivered[n][i]] = [i \in Outputs(n) |-> None]
  BY DEF Init, Outputs
<1>4. got \in [Readers -> [n : Names, p : Pairs]]
  BY <1>1 DEF TypeOK, ObserverType
<1>5. \A r \in Readers : got[r].n = 1 /\ got[r].p = <<InitValue[1], FALSE>>
  BY DEF Init
<1>6. 1 \in Names
  BY ConstFacts
<1>7. [n \in Names |-> CellPair(n)] = [n \in Names |-> <<InitValue[n], FALSE>>]
  BY <1>2
<1>8. [n \in Names |-> Waiting(n)] = [n \in Names |-> {}]
  BY <1>2
<1>9. [n \in Names |-> [i \in Outputs(n) |-> delivered[n][i]]]
      = [n \in Names |-> [i \in [m \in Names |-> Outputs(m)][n] |-> None]]
  BY <1>3
<1>10. \A r \in Readers : got[r].p = [n \in Names |-> <<InitValue[n], FALSE>>][got[r].n]
  BY <1>5, <1>6
<1>11. QED
  BY <1>4, <1>7, <1>8, <1>9, <1>10 DEF Cell!Init

\* A step that leaves every name, every output and every reader alone is none
\* of the cells' business.
LEMMA CellsRest ==
  ASSUME CellsAre, CellsAre', \A n \in Names : Same(n), UNCHANGED <<delivered, got>>
  PROVE  UNCHANGED Cell!cellVars
<1>1. \A n \in Names : CellPair(n)' = CellPair(n) /\ Waiting(n)' = Waiting(n)
  BY SameCell
<1>2. [n \in Names |-> CellPair(n)]' = [n \in Names |-> CellPair(n)]
  BY <1>1
<1>3. [n \in Names |-> Waiting(n)]' = [n \in Names |-> Waiting(n)]
  BY <1>1
<1>4. QED
  BY <1>2, <1>3 DEF Cell!cellVars, Outputs

\* StoreValue publishes, FireCb delivers, ReadValue reads; the cells see
\* nothing of the other steps.
LEMMA NextCell ==
  TypeControl /\ TypeControl' /\ SyncInv /\ ReadInv /\ [Next]_vars => [Cell!Next]_(Cell!cellVars)
<1> SUFFICES ASSUME TypeControl, TypeControl', SyncInv, ReadInv, [Next]_vars
             PROVE  Cell!Next \/ UNCHANGED Cell!cellVars
  OBVIOUS
<1>t. /\ TypeOK /\ ControlInv /\ TypeOK' /\ ControlInv' /\ CellsAre /\ CellsAre'
      /\ StoreType /\ ThreadType /\ ObserverType
  BY CellsAsThreads DEF TypeControl, TypeOK
<1>w. /\ Watchdog \in Threads /\ Watchdog \notin Producers
      /\ Producers \subseteq Threads /\ Threads \subseteq Actors
      /\ \A r \in Readers : r \notin Threads
      /\ \A t \in Threads : t # NoOne
  BY ConstFacts
\* Outside of the critical sections, and up to the store.
<1>1. ASSUME NEW t \in Threads, ~(pc[t] \in Holding /\ arg_n[t] \in Names),
             pc'[t] \notin {"storing", "arm", "fire"},
             \A u \in Threads \ {t} : SameThread(u),
             UNCHANGED <<last_value, valid, disp_lock, delivered, got>>
      PROVE  UNCHANGED Cell!cellVars
  <2>1. \A n \in Names : Same(n)
    BY <1>1, <1>t, OtherCells DEF Under
  <2>2. QED
    BY <1>1, <1>t, <2>1, CellsRest
<1>2. ASSUME NEW t \in Producers, NEW n \in Names, NEW f \in Finite \cup {NonFinite},
             NEW v \in BOOLEAN, DispVal(t, n, f, v)
      PROVE  UNCHANGED Cell!cellVars
  <2>1. /\ pc[t] \notin Holding /\ pc'[t] \notin {"storing", "arm", "fire"}
        /\ \A u \in Threads \ {t} : SameThread(u)
        /\ UNCHANGED <<last_value, valid, disp_lock, delivered, got>>
    BY <1>2, <1>t, <1>w DEF DispVal, SetFrame, ThreadType, SameThread, Holding, store, reads
  <2>2. QED
    BY <2>1, <1>1, <1>w
<1>3. CASE WatchdogPass \/ WatchdogPassDone \/ WatchdogSkip \/ WatchdogVisit
  <2>1. /\ pc[Watchdog] \notin Holding /\ pc'[Watchdog] \notin {"storing", "arm", "fire"}
        /\ \A u \in Threads \ {Watchdog} : SameThread(u)
        /\ UNCHANGED <<last_value, valid, disp_lock, delivered, got>>
    BY <1>3, <1>t, <1>w DEF WatchdogPass, WatchdogPassDone, WatchdogSkip, WatchdogVisit,
       SetFrame, ClearFrame, frame, ThreadType, SameThread, Holding, store, reads
  <2>2. QED
    BY <2>1, <1>1, <1>w
\* Inside of one, a thread that publishes nothing before and after the step.
<1>4. ASSUME NEW t \in Threads, arg_n[t] \in Names,
             \A u \in Threads \ {t} : SameThread(u),
             \A n \in Names : n # arg_n[t] => disp_lock'[n] = disp_lock[n],
             disp_lock[arg_n[t]] \in {t, NoOne}, disp_lock'[arg_n[t]] \in {t, NoOne},
             arg_n'[t] = arg_n[t] \/ pc'[t] \notin Holding,
             pc[t] \notin {"storing", "arm", "fire"}, pc'[t] \notin {"storing", "arm", "fire"},
             UNCHANGED <<last_value, valid, delivered, got>>
      PROVE  UNCHANGED Cell!cellVars
  <2>1. ASSUME NEW n \in Names PROVE Same(n)
    <3>1. CASE n = arg_n[t]
      BY <3>1, <1>4, <1>w DEF Same, Under
    <3>2. CASE n # arg_n[t]
      BY <3>2, <1>4, <1>t, OtherCells DEF Under
    <3>3. QED
      BY <3>1, <3>2
  <2>2. QED
    BY <1>4, <1>t, <2>1, CellsRest
<1>5. ASSUME NEW t \in Threads, LockName(t) PROVE UNCHANGED Cell!cellVars
  <2>1. /\ pc[t] = "lock" /\ pc'[t] \in {"check", "store"} /\ arg_n' = arg_n
        /\ \A u \in Threads \ {t} : SameThread(u)
        /\ disp_lock[arg_n[t]] = NoOne /\ disp_lock' = [disp_lock EXCEPT ![arg_n[t]] = t]
        /\ UNCHANGED <<last_value, valid, delivered, got>>
    BY <1>5, <1>t, <1>w DEF LockName, frame, ThreadType, SameThread, store, reads
  <2>2. arg_n[t] \in Names
    BY <2>1, <1>t, <1>w, ConstFacts DEF ControlInv, FrameInv
  <2>3. QED
    BY <2>1, <2>2, <1>4, <1>t DEF StoreType
<1>6. CASE WatchdogExpire
  <2>1. /\ pc[Watchdog] = "check" /\ pc'[Watchdog] = "store"
        /\ \A u \in Threads \ {Watchdog} : SameThread(u)
        /\ UNCHANGED <<last_value, valid, delivered, got, disp_lock>>
        /\ arg_n'[Watchdog] = arg_n[Watchdog]
    BY <1>6, <1>t, <1>w DEF WatchdogExpire, SetFrame, ThreadType, SameThread, store, reads
  <2>2. arg_n[Watchdog] \in Names /\ disp_lock[arg_n[Watchdog]] = Watchdog
    BY <2>1, <1>t, <1>w, ThreadFacts DEF Holding
  <2>3. QED
    BY <2>1, <2>2, <1>4, <1>w
\* The store.
<1>7. ASSUME NEW t \in Threads, StoreValue(t) PROVE Cell!Next
  <2>n. PICK n \in Names : n = arg_n[t]
    BY <1>7, <1>t, ThreadFacts DEF StoreValue, Holding
  <2> DEFINE p == <<arg_f[t], arg_v[t]>>
  <2>1. /\ pc[t] = "store" /\ pc'[t] = "storing" /\ arg_n'[t] = n /\ arg_v'[t] = arg_v[t] /\ cb_i'[t] = cb_i[t]
        /\ \A u \in Threads \ {t} : SameThread(u)
        /\ last_value' = [last_value EXCEPT ![n] = arg_f[t]]
        /\ UNCHANGED <<valid, delivered, got, disp_lock>>
    BY <2>n, <1>7, <1>t, <1>w DEF StoreValue, frame, ThreadType, SameThread, reads
  <2>2. n \in Names /\ disp_lock[n] = t /\ cb_i[t] = 1 /\ p \in Pairs
    BY <2>n, <2>1, <1>t, ThreadFacts DEF Holding, ControlInv, FrameInv, Pairs
  <2>3. Waiting(n) = {}
    <3>1. \A u \in Threads : ~Under(n, u)
      BY <2>1, <2>2 DEF Under
    <3>2. QED
      BY <3>1, <2>2, <1>t DEF CellsAre
  <2>4. CellPair(n)' = p /\ Waiting(n)' = Outputs(n)
    <3>1. Under(n, t)'
      BY <2>1, <2>2 DEF Under
    <3>2. last_value'[n] = arg_f[t]
      BY <2>1, <2>2, <1>t DEF StoreType
    <3>3. CellPair(n)' = <<last_value'[n], arg_v'[t]>> /\ Waiting(n)' = {i \in Outputs(n) : i >= cb_i'[t]}
      BY <3>1, <2>1, <2>2, <1>t DEF CellsAre
    <3>4. \A i \in Outputs(n) : i >= 1
      BY <2>2, OutputPositions
    <3>5. QED
      BY <2>1, <2>2, <3>2, <3>3, <3>4
  <2>5. ASSUME NEW m \in Names, m # n PROVE CellPair(m)' = CellPair(m) /\ Waiting(m)' = Waiting(m)
    <3>1. Same(m)
      BY <2>5, <2>1, <2>2, <1>t, OtherCells DEF Under, StoreType, ControlInv, LockInv
    <3>2. QED
      BY <3>1, <1>t, SameCell
  <2>6. [m \in Names |-> CellPair(m)]' = [[m \in Names |-> CellPair(m)] EXCEPT ![n] = p]
    BY <2>2, <2>4, <2>5
  <2>7. [m \in Names |-> Waiting(m)]' = [[m \in Names |-> Waiting(m)] EXCEPT ![n] = [m \in Names |-> Outputs(m)][n]]
    BY <2>2, <2>4, <2>5
  <2>8. UNCHANGED <<[m \in Names |-> [i \in Outputs(m) |-> delivered[m][i]]], got>>
    BY <2>1 DEF Outputs
  <2>9. [m \in Names |-> Waiting(m)][n] = {}
    BY <2>2, <2>3
  <2>10. Cell!Publish(n, p)
    BY <2>6, <2>7, <2>8, <2>9 DEF Cell!Publish
  <2>11. QED
    BY <2>2, <2>10 DEF Cell!Next
\* The second half of the store, and the arming, show the cell nothing new.
<1>8. ASSUME NEW t \in Threads, StoreValid(t) \/ (t \in Producers /\ Arm(t))
      PROVE  UNCHANGED Cell!cellVars
  <2>n. PICK n \in Names : n = arg_n[t]
    BY <1>8, <1>t, ThreadFacts DEF StoreValid, Arm, Holding
  <2>1. /\ pc[t] \in {"storing", "arm"} /\ pc'[t] \in {"arm", "fire"}
        /\ arg_n'[t] = n /\ arg_v'[t] = arg_v[t] /\ cb_i'[t] = cb_i[t]
        /\ \A u \in Threads \ {t} : SameThread(u)
        /\ UNCHANGED <<last_value, delivered, got, disp_lock>>
        /\ \A m \in Names : m # n => valid'[m] = valid[m]
    BY <2>n, <1>8, <1>t, <1>w DEF StoreValid, Arm, frame, ThreadType, StoreType, SameThread, store, reads
  <2>2. n \in Names /\ disp_lock[n] = t
    BY <2>n, <2>1, <1>t, ThreadFacts DEF Holding
  <2>3. valid'[n] = IF pc[t] = "storing" THEN arg_v[t] ELSE valid[n]
    BY <2>n, <1>8, <2>2, <1>t DEF StoreValid, Arm, StoreType, store
  <2>4. Under(n, t) /\ Under(n, t)'
    BY <2>1, <2>2 DEF Under
  <2>5. CellPair(n)' = CellPair(n) /\ Waiting(n)' = Waiting(n)
    <3>1. /\ CellPair(n) = <<last_value[n], IF pc[t] = "storing" THEN arg_v[t] ELSE valid[n]>>
          /\ Waiting(n) = {i \in Outputs(n) : i >= cb_i[t]}
      BY <2>2, <2>4, <1>t DEF CellsAre
    <3>2. /\ CellPair(n)' = <<last_value'[n], IF pc'[t] = "storing" THEN arg_v'[t] ELSE valid'[n]>>
          /\ Waiting(n)' = {i \in Outputs(n) : i >= cb_i'[t]}
      BY <2>2, <2>4, <1>t DEF CellsAre
    <3>3. QED
      BY <3>1, <3>2, <2>1, <2>3
  <2>6. ASSUME NEW m \in Names, m # n PROVE CellPair(m)' = CellPair(m) /\ Waiting(m)' = Waiting(m)
    <3>1. Same(m)
      BY <2>6, <2>1, <2>2, <1>t, OtherCells DEF Under, ControlInv, LockInv
    <3>2. QED
      BY <3>1, <1>t, SameCell
  <2>7. /\ [m \in Names |-> CellPair(m)]' = [m \in Names |-> CellPair(m)]
        /\ [m \in Names |-> Waiting(m)]' = [m \in Names |-> Waiting(m)]
    BY <2>5, <2>6
  <2>8. QED
    BY <2>1, <2>7 DEF Cell!cellVars, Outputs
\* One callback: a delivery, or a position that is left out.
<1>9. ASSUME NEW t \in Threads, FireCb(t) PROVE Cell!Next \/ UNCHANGED Cell!cellVars
  <2>n. PICK n \in Names : n = arg_n[t]
    BY <1>9, <1>t, ThreadFacts DEF FireCb, Holding
  <2>i. PICK i \in Nat : i = cb_i[t]
    BY <1>t, ThreadFacts
  <2> DEFINE p == <<arg_f[t], arg_v[t]>>
  <2>1. /\ pc[t] = "fire" /\ pc' = pc /\ arg_n' = arg_n /\ arg_v' = arg_v /\ cb_i'[t] = i + 1
        /\ \A u \in Threads \ {t} : SameThread(u)
        /\ UNCHANGED <<last_value, valid, got, disp_lock>>
    BY <2>n, <2>i, <1>9, <1>t DEF FireCb, ThreadType, SameThread, store, reads
  <2>2. n \in Names /\ disp_lock[n] = t /\ i \in Nat
    BY <2>n, <2>i, <2>1, <1>t, ThreadFacts DEF Holding
  <2>3. Under(n, t) /\ Under(n, t)'
    BY <2>1, <2>2 DEF Under
  <2>4. CellPair(n) = p
    <3>1. CellPair(n) = <<last_value[n], valid[n]>>
      BY <2>1, <2>2, <2>3, <1>t DEF CellsAre
    <3>2. QED
      BY <2>n, <2>i, <3>1, <2>1 DEF SyncInv, ValueStored, ValidStored
  <2>5. CellPair(n)' = CellPair(n)
    BY <2>1, <2>2, <2>3, <1>t DEF CellsAre
  <2>6. Waiting(n) = {j \in Outputs(n) : j >= i} /\ Waiting(n)' = {j \in Outputs(n) : j >= i + 1}
    BY <2>n, <2>i, <2>1, <2>2, <2>3, <1>t DEF CellsAre
  <2>7. Waiting(n)' = Waiting(n) \ {i}
    <3>1. \A j \in Outputs(n) : j \in Nat
      BY <2>2, OutputPositions
    <3>2. QED
      BY <2>2, <2>6, <3>1
  <2>8. ASSUME NEW m \in Names, m # n PROVE CellPair(m)' = CellPair(m) /\ Waiting(m)' = Waiting(m)
    <3>1. Same(m)
      BY <2>8, <2>1, <2>2, <1>t, OtherCells DEF Under, ControlInv, LockInv
    <3>2. QED
      BY <3>1, <1>t, SameCell
  <2>9. [m \in Names |-> CellPair(m)]' = [m \in Names |-> CellPair(m)]
    BY <2>5, <2>8
  <2>10. CASE i \in Outputs(n)
    <3>1. delivered' = [delivered EXCEPT ![n][i] = p]
      BY <2>n, <2>i, <1>9, <2>10 DEF FireCb, Outputs
    <3>2. [m \in Names |-> Waiting(m)]' = [[m \in Names |-> Waiting(m)] EXCEPT ![n] = @ \ {i}]
      BY <2>2, <2>7, <2>8
    <3>3. \A m \in Names : Outputs(m) \subseteq DOMAIN delivered[m]
      BY <1>t DEF ObserverType, Outputs
    <3>4. \A m \in Names : m # n => delivered'[m] = delivered[m]
      BY <3>1, <1>t DEF ObserverType
    <3>5. \A j \in Outputs(n) : delivered'[n][j] = IF j = i THEN p ELSE delivered[n][j]
      BY <3>1, <3>3, <2>2, <1>t DEF ObserverType
    <3>6. [m \in Names |-> [j \in Outputs(m) |-> delivered[m][j]]]'
          = [[m \in Names |-> [j \in Outputs(m) |-> delivered[m][j]]] EXCEPT ![n][i] = [m \in Names |-> CellPair(m)][n]]
      <4>1. [m \in Names |-> CellPair(m)][n] = p
        BY <2>4
      <4>2. [j \in Outputs(n) |-> delivered'[n][j]] = [[j \in Outputs(n) |-> delivered[n][j]] EXCEPT ![i] = p]
        BY <3>5, <2>10
      <4>3. \A m \in Names : m # n => [j \in Outputs(m) |-> delivered'[m][j]] = [j \in Outputs(m) |-> delivered[m][j]]
        BY <3>4
      <4>4. [m \in Names |-> [j \in Outputs(m) |-> delivered'[m][j]]]
            = [[m \in Names |-> [j \in Outputs(m) |-> delivered[m][j]]] EXCEPT ![n] =
                 [[j \in Outputs(n) |-> delivered[n][j]] EXCEPT ![i] = p]]
        BY <4>2, <4>3
      <4>5. QED
        BY <4>1, <4>4 DEF Outputs
    <3>7. i \in [m \in Names |-> Waiting(m)][n]
      BY <2>2, <2>6, <2>10
    <3>8. Cell!Deliver(n, i)
      BY <3>2, <3>6, <3>7, <2>1, <2>9 DEF Cell!Deliver
    <3>9. i \in [m \in Names |-> Outputs(m)][n]
      BY <2>2, <2>10
    <3>10. QED
      BY <3>8, <3>9, <2>2 DEF Cell!Next
  <2>11. CASE i \notin Outputs(n)
    <3>1. i \in DOMAIN Cbs[n]
      <4>1. cb_i[t] >= 1 /\ cb_i[t] <= Len(Cbs[arg_n[t]])
        BY <1>9, <1>t DEF FireCb, ThreadType
      <4>2. QED
        BY <4>1, <2>n, <2>i, ConstFacts
    <3>2. delivered' = delivered
      BY <2>n, <2>i, <1>9, <2>11, <3>1 DEF FireCb, Outputs
    <3>3. Waiting(n)' = Waiting(n)
      BY <2>6, <2>7, <2>11
    <3>4. [m \in Names |-> Waiting(m)]' = [m \in Names |-> Waiting(m)]
      BY <3>3, <2>8
    <3>5. QED
      BY <2>1, <2>9, <3>2, <3>4 DEF Cell!cellVars, Outputs
  <2>12. QED
    BY <2>10, <2>11
\* Leaving the critical section: no output is waiting any more.
<1>10. ASSUME NEW t \in Threads, (t \in Producers /\ UnlockName(t)) \/ (t = Watchdog /\ WatchdogLeave)
       PROVE  UNCHANGED Cell!cellVars
  <2>n. PICK n \in Names : n = arg_n[t]
    BY <1>10, <1>t, ThreadFacts DEF UnlockName, WatchdogLeave, Holding
  <2>1. /\ pc[t] \in {"check", "fire"} /\ pc'[t] \in {"idle", "next"}
        /\ pc[t] = "fire" => cb_i[t] > Len(Cbs[n])
        /\ \A u \in Threads \ {t} : SameThread(u)
        /\ UNCHANGED <<last_value, valid, got, delivered>>
        /\ disp_lock' = [disp_lock EXCEPT ![n] = NoOne]
    BY <2>n, <1>10, <1>t, <1>w DEF UnlockName, WatchdogLeave, ClearFrame, SetFrame, ThreadType, SameThread, store, reads
  <2>2. n \in Names /\ disp_lock[n] = t /\ cb_i[t] \in Nat
    BY <2>n, <2>1, <1>t, ThreadFacts DEF Holding
  <2>3. disp_lock'[n] = NoOne
    BY <2>1, <2>2, <1>t DEF StoreType
  <2>4. CellPair(n)' = <<last_value'[n], valid'[n]>> /\ Waiting(n)' = {}
    <3>1. \A u \in Threads : ~Under(n, u)'
      BY <2>3, <1>w DEF Under
    <3>2. QED
      BY <3>1, <2>2, <1>t DEF CellsAre
  <2>5. CellPair(n) = <<last_value[n], valid[n]>> /\ Waiting(n) = {}
    <3>1. CASE pc[t] = "check"
      <4>1. \A u \in Threads : ~Under(n, u)
        BY <3>1, <2>2 DEF Under
      <4>2. QED
        BY <4>1, <2>2, <1>t DEF CellsAre
    <3>2. CASE pc[t] = "fire"
      <4>1. Under(n, t)
        BY <3>2, <2>2 DEF Under
      <4>2. CellPair(n) = <<last_value[n], valid[n]>> /\ Waiting(n) = {i \in Outputs(n) : i >= cb_i[t]}
        BY <4>1, <3>2, <2>2, <1>t DEF CellsAre
      <4>3. \A i \in Outputs(n) : i \in Nat /\ i <= Len(Cbs[n])
        BY <2>2, OutputPositions
      <4>4. Len(Cbs[n]) \in Nat
        BY <2>2, ConstFacts
      <4>5. \A i \in Outputs(n) : ~(i >= cb_i[t])
        BY <4>3, <4>4, <3>2, <2>1, <2>2
      <4>6. QED
        BY <4>2, <4>5
    <3>3. QED
      BY <2>1, <3>1, <3>2
  <2>6. ASSUME NEW m \in Names, m # n PROVE CellPair(m)' = CellPair(m) /\ Waiting(m)' = Waiting(m)
    <3>1. Same(m)
      BY <2>n, <2>6, <2>1, <2>2, <1>t, OtherCells DEF Under, StoreType, ControlInv, LockInv
    <3>2. QED
      BY <3>1, <1>t, SameCell
  <2>7. /\ [m \in Names |-> CellPair(m)]' = [m \in Names |-> CellPair(m)]
        /\ [m \in Names |-> Waiting(m)]' = [m \in Names |-> Waiting(m)]
    BY <2>1, <2>4, <2>5, <2>6
  <2>8. QED
    BY <2>1, <2>7 DEF Cell!cellVars, Outputs
\* Readers.
<1>11. ASSUME NEW r \in Readers, ReadValue(r) PROVE Cell!Next
  <2> DEFINE n == peek[r].n
  <2>1. /\ pc[r] = "reading" /\ got' = [got EXCEPT ![r] = [n |-> n, p |-> <<last_value[n], peek[r].v>>]]
        /\ \A u \in Threads : SameThread(u)
        /\ UNCHANGED <<last_value, valid, delivered, disp_lock>> /\ n \in Names
    BY <1>11, <1>t, <1>w DEF ReadValue, frame, ThreadType, ObserverType, SameThread
  <2>2. last_lock[n] = r /\ valid[n] = peek[r].v
    BY <2>1 DEF ReadInv
  <2>3. CellPair(n) = <<last_value[n], valid[n]>>
    <3>1. \A u \in Threads : Under(n, u) => pc[u] # "storing"
      BY <2>1, <2>2, <1>t, <1>w DEF ReadInv, Under, ControlInv, LockInv, Holding
    <3>2. CASE \E u \in Threads : Under(n, u)
      BY <3>1, <3>2, <2>1, <1>t DEF CellsAre
    <3>3. CASE \A u \in Threads : ~Under(n, u)
      BY <3>3, <2>1, <1>t DEF CellsAre
    <3>4. QED
      BY <3>2, <3>3
  <2>4. \A m \in Names : Same(m)
    BY <2>1 DEF Same, Under, SameThread
  <2>5. /\ [m \in Names |-> CellPair(m)]' = [m \in Names |-> CellPair(m)]
        /\ [m \in Names |-> Waiting(m)]' = [m \in Names |-> Waiting(m)]
    BY <2>4, <1>t, SameCell
  <2>6. got' = [got EXCEPT ![r] = [n |-> n, p |-> [m \in Names |-> CellPair(m)][n]]]
    BY <2>1, <2>2, <2>3
  <2>7. Cell!Read(r, n)
    BY <2>1, <2>5, <2>6 DEF Cell!Read, Outputs
  <2>8. QED
    BY <2>1, <2>7 DEF Cell!Next
<1>12. ASSUME \/ \E r \in Readers, n \in Names : ReadValid(r, n)
              \/ StartupStep \/ ShutdownBegin \/ ShutdownDone \/ Tick \/ UNCHANGED vars
       PROVE  UNCHANGED Cell!cellVars
  <2>1. /\ \A u \in Threads : SameThread(u)
        /\ UNCHANGED <<last_value, valid, disp_lock, delivered, got>>
    <3>1. CASE \E r \in Readers, n \in Names : ReadValid(r, n)
      BY <3>1, <1>t, <1>w DEF ReadValid, frame, SameThread, ThreadType
    <3>2. CASE StartupStep \/ ShutdownBegin \/ ShutdownDone \/ Tick \/ UNCHANGED vars
      BY <3>2 DEF StartupStep, StartupBegin, StartupArm, StartupDone, ShutdownBegin, ShutdownDone,
         Tick, vars, store, frame, reads, SameThread
    <3>3. QED
      BY <1>12, <3>1, <3>2
  <2>2. \A m \in Names : Same(m)
    BY <2>1 DEF Same, Under, SameThread
  <2>3. QED
    BY <2>1, <2>2, <1>t, CellsRest
<1>13. QED
  BY <1>w, <1>2, <1>3, <1>5, <1>6, <1>7, <1>8, <1>9, <1>10, <1>11, <1>12
  DEF Next, ThreadStep, ProducerStep, WatchdogStep, Ended

\* The dispatcher implements its abstract specification: with all its threads
\* and locks, every name behaves like one cell whose pair is replaced at
\* once, reaches every output before the next one, and is read whole by
\* uvrgw_conf_get_val().
THEOREM DispatchImplementsCell == Spec => Cell!Spec
<1>1. Spec => [](TypeControl /\ SyncInv /\ ReadInv)
  BY InitTypeControl, NextTypeControl, InitSync, NextSync, InitRead, NextRead, PTL DEF Spec
<1>2. QED
  BY <1>1, InitCell, NextCell, PTL DEF Spec, Cell!Spec
=============================================================================
