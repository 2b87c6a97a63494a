--------------------------- MODULE EvalSetupProofs ---------------------------
(***************************************************************************)
(* Proofs about the setup of evals: EvalInputs, for any number of values   *)
(* and outside values and any references between the values, cyclic ones   *)
(* included, and EvalCycles, for any number of evals and any triggers.     *)
(***************************************************************************)
EXTENDS EvalInputs, EvalCycles, TLAPS

-----------------------------------------------------------------------------
(***************************************************************************)
(* EvalInputs.                                                             *)
(***************************************************************************)

\* Nothing a value reads itself is ever dropped.
OwnKept == \A v \in OwnValues : reads[v] \subseteq ins[v]

\* A pass that has changed nothing so far has left every value before val_idx
\* closed, and still closed: what it inherits has not changed either.
QuietPrefix ==
  close_pc = "pass" /\ ~changed =>
    \A v \in OwnValues : v < val_idx => \A r \in refs[v] : ins[r] \subseteq ins[v]

CloseInv == CloseTypeOK /\ OwnKept /\ QuietPrefix /\ ClosureComplete

\* The lists walk() leaves satisfy the invariant.
LEMMA InitClose == CloseInit => CloseInv
<1> SUFFICES ASSUME CloseInit PROVE CloseInv
  OBVIOUS
<1>1. CloseTypeOK
  <2>1. 1 \in 1..(NumValues + 1)
    BY ValuesAssumption
  <2>2. QED
    BY <2>1 DEF CloseInit, Walked, CloseTypeOK
<1>2. OwnKept
  BY DEF CloseInit, OwnKept
<1>3. QuietPrefix
  <2>1. \A v \in OwnValues : ~(v < 1)
    BY ValuesAssumption DEF OwnValues
  <2>2. QED
    BY <2>1 DEF CloseInit, QuietPrefix
<1>4. ClosureComplete
  BY DEF CloseInit, ClosureComplete
<1>5. QED
  BY <1>1, <1>2, <1>3, <1>4 DEF CloseInv

\* The loop body of close_inputs(), the end of a pass and the end of the loop
\* preserve the invariant.
LEMMA NextClose == CloseInv /\ [CloseNext]_closeVars => CloseInv'
<1> SUFFICES ASSUME CloseInv, [CloseNext]_closeVars PROVE CloseInv'
  OBVIOUS
<1> USE ValuesAssumption DEF CloseInv
<1>1. CASE AddInputs
  <2>1. val_idx \in OwnValues /\ val_idx \in Nat
    BY <1>1 DEF AddInputs, CloseTypeOK, OwnValues
  <2>2. Inherited(val_idx) \subseteq Outside
    BY <2>1 DEF Inherited, CloseTypeOK, Walked
  <2>3. /\ ins' \in [OwnValues -> SUBSET Outside]
        /\ \A v \in OwnValues : ins[v] \subseteq ins'[v]
        /\ ins'[val_idx] = ins[val_idx] \cup Inherited(val_idx)
    BY <1>1, <2>1, <2>2 DEF AddInputs, CloseTypeOK
  <2>4. CloseTypeOK'
    BY <1>1, <2>1, <2>3 DEF AddInputs, CloseTypeOK, Walked, OwnValues
  <2>5. OwnKept'
    BY <1>1, <2>3 DEF AddInputs, OwnKept
  <2>6. QuietPrefix'
    <3> SUFFICES ASSUME ~changed', NEW v \in OwnValues, v < val_idx', NEW r \in refs'[v]
                 PROVE  ins'[r] \subseteq ins'[v]
      BY DEF QuietPrefix
    <3>1. ~changed /\ ins' = ins /\ refs' = refs /\ close_pc = "pass"
      BY <1>1 DEF AddInputs, CloseTypeOK
    <3>2. CASE v = val_idx
      BY <2>3, <3>1, <3>2 DEF Inherited
    <3>3. CASE v # val_idx
      <4>1. v < val_idx
        BY <1>1, <2>1, <3>3 DEF AddInputs, OwnValues
      <4>2. QED
        BY <3>1, <4>1 DEF QuietPrefix
    <3>4. QED
      BY <3>2, <3>3
  <2>7. ClosureComplete'
    BY <1>1 DEF AddInputs, ClosureComplete
  <2>8. QED
    BY <2>4, <2>5, <2>6, <2>7
<1>2. CASE NextPass
  <2>1. 1 \in 1..(NumValues + 1) /\ \A v \in OwnValues : ~(v < 1)
    BY DEF OwnValues
  <2>2. CloseTypeOK'
    BY <1>2, <2>1 DEF NextPass, CloseTypeOK, Walked
  <2>3. OwnKept' /\ ClosureComplete'
    BY <1>2 DEF NextPass, OwnKept, ClosureComplete
  <2>4. QuietPrefix'
    BY <1>2, <2>1 DEF NextPass, QuietPrefix
  <2>5. QED
    BY <2>2, <2>3, <2>4
<1>3. CASE Finish
  <2>1. Closed(ins)
    <3>1. \A v \in OwnValues : v < val_idx
      BY <1>3 DEF Finish, CloseTypeOK, OwnValues
    <3>2. QED
      BY <1>3, <3>1 DEF Finish, QuietPrefix, OwnKept, Closed
  <2>2. QED
    BY <1>3, <2>1 DEF Finish, CloseTypeOK, Walked, OwnKept, QuietPrefix, ClosureComplete, Closed
<1>4. CASE UNCHANGED closeVars
  BY <1>4 DEF closeVars, CloseTypeOK, Walked, OwnKept, QuietPrefix, ClosureComplete, Closed
<1>5. QED
  BY <1>1, <1>2, <1>3, <1>4 DEF CloseNext, CloseDone

\* When close_inputs() returns, every value holds all outside values it reads
\* through any chain of own values, so none of them can be invalid unnoticed.
THEOREM Complete == CloseSpec => []ClosureComplete
<1>1. CloseInv => ClosureComplete
  BY DEF CloseInv
<1>2. QED
  BY <1>1, InitClose, NextClose, PTL DEF CloseSpec

-----------------------------------------------------------------------------
\* ClosureLeast is preserved by every step: what AddInputs adds is in every
\* closed set already.
LEMMA NextLeast == CloseInv /\ ClosureLeast /\ [CloseNext]_closeVars => ClosureLeast'
<1> SUFFICES ASSUME CloseInv, ClosureLeast, [CloseNext]_closeVars,
                    NEW d \in [OwnValues -> SUBSET Outside], Closed(d)',
                    NEW v \in OwnValues
             PROVE  ins'[v] \subseteq d[v]
  BY DEF ClosureLeast
<1>1. reads' = reads /\ refs' = refs
  BY DEF CloseNext, AddInputs, NextPass, Finish, CloseDone, closeVars
<1>2. Closed(d)
  BY <1>1 DEF Closed
<1>3. \A w \in OwnValues : ins[w] \subseteq d[w]
  BY <1>2 DEF ClosureLeast
<1>4. CASE AddInputs
  <2>1. Inherited(v) \subseteq d[v]
    BY <1>2, <1>3 DEF Inherited, Closed, CloseInv, CloseTypeOK, Walked
  <2>2. ins'[v] \subseteq ins[v] \cup Inherited(v)
    BY <1>4 DEF AddInputs, CloseInv, CloseTypeOK
  <2>3. QED
    BY <1>3, <2>1, <2>2
<1>5. CASE ins' = ins
  BY <1>3, <1>5
<1>6. QED
  BY <1>4, <1>5 DEF CloseNext, NextPass, Finish, CloseDone, closeVars

\* close_inputs() never makes a value depend on an outside value that it does
\* not read through any chain: the result is the least closed one.
THEOREM Least == CloseSpec => []ClosureLeast
<1>1. CloseInit => ClosureLeast
  BY DEF CloseInit, Walked, ClosureLeast, Closed
<1>2. QED
  BY <1>1, InitClose, NextClose, NextLeast, PTL DEF CloseSpec

\* What close_inputs() leaves is exactly what decides the validity of a value:
\* all outside values it reads through any chain, and no other.
THEOREM Exact == CloseSpec => []ClosureExact
<1>1. ClosureComplete /\ ClosureLeast => ClosureExact
  BY DEF ClosureExact
<1>2. QED
  BY <1>1, Complete, Least, PTL

-----------------------------------------------------------------------------
(***************************************************************************)
(* EvalCycles.                                                             *)
(***************************************************************************)

CyclesType ==
  /\ \A e \in EvalNos : e \notin triggered_by[e]
  /\ visit \in [EvalNos -> 0..2]
  /\ path \in Seq(EvalNos) /\ next_b \in Seq(Nat \ {0}) /\ Len(next_b) = Len(path)
  /\ root \in Nat /\ root >= 1
  /\ ret \in {"open", "ok", "cycle"}

\* The evals marked 1 are those on the path, each once, and each triggers the
\* next one.
PathMarked ==
  /\ \A i \in 1..Len(path) : visit[path[i]] = 1
  /\ \A e \in EvalNos : visit[e] = 1 => \E i \in 1..Len(path) : path[i] = e
  /\ \A i, j \in 1..Len(path) : path[i] = path[j] => i = j
  /\ \A i \in 1..Len(path) : i + 1 <= Len(path) => path[i] \in triggered_by[path[i + 1]]

\* Where a loop of visit() has passed b, b is done, or is being visited from
\* there.
Passed ==
  \A i \in 1..Len(path) : \A b \in EvalNos :
    b < next_b[i] /\ path[i] \in triggered_by[b] =>
      visit[b] = 2 \/ (i + 1 <= Len(path) /\ b = path[i + 1])

\* What a done eval triggers is done.
DoneClosed ==
  \A a, b \in EvalNos : visit[a] = 2 /\ a \in triggered_by[b] => visit[b] = 2

\* No circle among the done evals.
DoneAcyclic ==
  \A S \in SUBSET EvalNos :
    S # {} /\ (\A b \in S : visit[b] = 2) => \E b \in S : \A a \in S : a \notin triggered_by[b]

RootsSeen == \A e \in EvalNos : e < root => visit[e] # 0

CyclesInv ==
  CyclesType /\ PathMarked /\ Passed /\ DoneClosed /\ DoneAcyclic /\ RootsSeen /\ CyclesRefused

LEMMA CyclesInitInv == CyclesInit => CyclesInv
<1> SUFFICES ASSUME CyclesInit PROVE CyclesInv
  OBVIOUS
<1>1. CyclesType
  BY DEF CyclesInit, CyclesType
<1>2. Len(path) = 0 /\ \A e \in EvalNos : visit[e] = 0
  BY DEF CyclesInit
<1>3. PathMarked /\ Passed
  BY <1>2 DEF PathMarked, Passed
<1>4. DoneClosed /\ DoneAcyclic
  BY <1>2 DEF DoneClosed, DoneAcyclic
<1>5. RootsSeen
  BY EvalsAssumption DEF CyclesInit, RootsSeen, EvalNos
<1>6. CyclesRefused
  BY DEF CyclesInit, CyclesRefused
<1>7. QED
  BY <1>1, <1>3, <1>4, <1>5, <1>6 DEF CyclesInv

\* Entering visit(e), from a root or from the last eval of the path, whose loop
\* position has moved on.
LEMMA EnterInv ==
  ASSUME CyclesInv, NEW e \in EvalNos, NEW pos \in Seq(Nat \ {0}), Enter(e, path, pos),
         visit[e] = 0, UNCHANGED <<triggered_by, ret>>, ret = "open",
         Len(pos) = Len(path),
         \A i \in 1..Len(path) : i < Len(path) => pos[i] = next_b[i],
         Len(path) > 0 => /\ path[Len(path)] \in triggered_by[e]
                          /\ pos[Len(path)] = next_b[Len(path)] + 1
                          /\ next_b[Len(path)] = e
  PROVE  /\ visit' \in [EvalNos -> 0..2] /\ path' \in Seq(EvalNos) /\ next_b' \in Seq(Nat \ {0})
         /\ Len(next_b') = Len(path')
         /\ PathMarked' /\ Passed' /\ DoneClosed' /\ DoneAcyclic' /\ CyclesRefused'
         /\ \A b \in EvalNos : visit'[b] = 0 => visit[b] = 0 /\ b # e
<1> DEFINE n == Len(path)
<1>t. CyclesType /\ PathMarked /\ Passed /\ DoneClosed /\ DoneAcyclic
  BY DEF CyclesInv
<1>n. n \in Nat /\ \A b \in EvalNos : b \in Nat
  BY <1>t DEF CyclesType, EvalNos
<1>1. /\ path' \in Seq(EvalNos) /\ next_b' \in Seq(Nat \ {0}) /\ Len(path') = n + 1 /\ Len(next_b') = n + 1
      /\ \A i \in 1..n : path'[i] = path[i] /\ next_b'[i] = pos[i]
      /\ path'[n + 1] = e /\ next_b'[n + 1] = 1
  BY <1>t DEF Enter, CyclesType
<1>2. /\ visit' \in [EvalNos -> 0..2] /\ visit'[e] = 1
      /\ \A b \in EvalNos : b # e => visit'[b] = visit[b]
  BY <1>t DEF Enter, CyclesType
<1>3. \A i \in 1..n : path[i] \in EvalNos /\ path[i] # e /\ next_b[i] \in Nat /\ next_b[i] >= 1
  BY <1>t DEF CyclesType, PathMarked
<1>4. PathMarked'
  <2>0. \A i \in 1..(n + 1) : i \in 1..n \/ i = n + 1
    BY <1>n
  <2>1. ASSUME NEW i \in 1..(n + 1) PROVE visit'[path'[i]] = 1
    <3>1. CASE i \in 1..n
      <4>1. path'[i] = path[i] /\ path[i] \in EvalNos /\ path[i] # e /\ visit[path[i]] = 1
        BY <3>1, <1>1, <1>3, <1>t DEF PathMarked
      <4>2. QED
        BY <4>1, <1>2
    <3>2. CASE i = n + 1
      BY <3>2, <1>1, <1>2
    <3>3. QED
      BY <3>1, <3>2, <2>0
  <2>2. ASSUME NEW b \in EvalNos, visit'[b] = 1 PROVE \E i \in 1..(n + 1) : path'[i] = b
    <3>1. CASE b = e
      <4>1. n + 1 \in 1..(n + 1) /\ path'[n + 1] = b
        BY <3>1, <1>1, <1>n
      <4>2. QED
        BY <4>1
    <3>2. CASE b # e
      <4>1. PICK i \in 1..n : path[i] = b
        BY <2>2, <3>2, <1>2, <1>t DEF PathMarked
      <4>2. i \in 1..(n + 1) /\ path'[i] = b
        BY <4>1, <1>1, <1>n
      <4>3. QED
        BY <4>2
    <3>3. QED
      BY <3>1, <3>2
  <2>3. ASSUME NEW i \in 1..(n + 1), NEW j \in 1..(n + 1), path'[i] = path'[j] PROVE i = j
    <3>1. CASE i \in 1..n /\ j \in 1..n
      <4>1. path[i] = path[j]
        BY <3>1, <2>3, <1>1
      <4>2. QED
        BY <3>1, <4>1, <1>t DEF PathMarked
    <3>2. CASE i = n + 1 \/ j = n + 1
      <4>1. \A k \in 1..n : path'[k] # e
        BY <1>1, <1>3
      <4>2. i \in 1..n => path'[i] # path'[j]
        BY <3>2, <4>1, <1>1, <1>n
      <4>3. j \in 1..n => path'[i] # path'[j]
        BY <3>2, <4>1, <1>1, <1>n
      <4>4. QED
        BY <2>3, <4>2, <4>3, <2>0
    <3>3. QED
      BY <3>1, <3>2, <2>0
  <2>4. ASSUME NEW i \in 1..(n + 1), i + 1 <= n + 1 PROVE path'[i] \in triggered_by'[path'[i + 1]]
    <3>1. CASE i = n
      BY <3>1, <2>4, <1>1, <1>n
    <3>2. CASE i # n
      <4>1. i \in 1..n /\ i + 1 \in 1..n
        BY <2>4, <3>2, <1>n
      <4>2. path[i] \in triggered_by[path[i + 1]]
        BY <4>1, <1>t, <1>n DEF PathMarked
      <4>3. QED
        BY <4>1, <4>2, <1>1
    <3>3. QED
      BY <3>1, <3>2
  <2>5. QED
    BY <2>1, <2>2, <2>3, <2>4, <1>1 DEF PathMarked
<1>5. Passed'
  <2> SUFFICES ASSUME NEW i \in 1..(n + 1), NEW b \in EvalNos, b < next_b'[i], path'[i] \in triggered_by[b]
               PROVE  visit'[b] = 2 \/ (i + 1 <= n + 1 /\ b = path'[i + 1])
    BY <1>1 DEF Passed
  <2>0. b # e => visit'[b] = visit[b]
    BY <1>2
  <2>1. CASE i = n + 1
    BY <2>1, <1>1, EvalsAssumption DEF EvalNos
  <2>2. CASE i = n
    <3>1. i \in 1..n /\ path'[i] = path[i] /\ next_b'[i] = e + 1 /\ path'[i + 1] = e
      BY <2>2, <1>1, <1>n
    <3>2. CASE b = e
      BY <3>1, <3>2, <2>2, <1>n
    <3>3. CASE b # e
      <4>1. b < next_b[i]
        BY <3>1, <3>3, <2>2, <1>n
      <4>2. visit[b] = 2
        BY <4>1, <3>1, <2>2, <1>t, <1>n DEF Passed
      <4>3. QED
        BY <4>2, <3>3, <2>0
    <3>4. QED
      BY <3>2, <3>3
  <2>3. CASE i < n
    <3>0. i \in 1..n /\ i + 1 \in 1..n /\ i < Len(path)
      BY <2>3, <1>n
    <3>1. /\ i \in 1..n /\ i + 1 \in 1..n /\ path'[i] = path[i] /\ path'[i + 1] = path[i + 1]
          /\ next_b'[i] = next_b[i]
      BY <3>0, <1>1
    <3>2. visit[b] = 2 \/ b = path[i + 1]
      BY <3>1, <1>t DEF Passed
    <3>3. QED
      BY <3>1, <3>2, <2>0, <2>3, <1>n
  <2>4. QED
    BY <2>1, <2>2, <2>3, <1>n
<1>6. \A b \in EvalNos : visit'[b] = 2 <=> visit[b] = 2
  BY <1>2
<1>7. DoneClosed'
  BY <1>6, <1>t DEF DoneClosed
<1>8. DoneAcyclic'
  <2> SUFFICES ASSUME NEW S \in SUBSET EvalNos, S # {}, \A b \in S : visit'[b] = 2
               PROVE  \E b \in S : \A a \in S : a \notin triggered_by[b]
    BY DEF DoneAcyclic
  <2>1. \A b \in S : visit[b] = 2
    BY <1>6
  <2>2. QED
    BY <2>1, <1>t DEF DoneAcyclic
<1>9. CyclesRefused'
  BY DEF CyclesRefused
<1>10. QED
  BY <1>1, <1>2, <1>4, <1>5, <1>7, <1>8, <1>9

\* One step per action of check_cycles() and visit().
LEMMA CyclesNextInv == CyclesInv /\ [CyclesNext]_cycleVars => CyclesInv'
<1> SUFFICES ASSUME CyclesInv, [CyclesNext]_cycleVars PROVE CyclesInv'
  OBVIOUS
<1> DEFINE n == Len(path)
<1>t. CyclesType /\ PathMarked /\ Passed /\ DoneClosed /\ DoneAcyclic /\ RootsSeen /\ CyclesRefused
  BY DEF CyclesInv
<1>n. n \in Nat /\ \A b \in EvalNos : b \in Nat
  BY <1>t DEF CyclesType, EvalNos
<1>p. path # <<>> => /\ n \in 1..n /\ Current \in EvalNos /\ Current = path[n] /\ visit[Current] = 1
                     /\ NextB = next_b[n] /\ NextB \in Nat /\ NextB >= 1
  BY <1>t DEF CyclesType, PathMarked, Current, NextB
<1>1. CASE Root
  <2>1. root \in EvalNos /\ root' = root + 1 /\ ret = "open" /\ ret' = "open" /\ n = 0
        /\ UNCHANGED triggered_by
    BY <1>1, <1>t DEF Root, CyclesType, EvalNos
  <2>2. CASE visit[root] = 0
    <3>1. Enter(root, path, <<>>)
      BY <1>1, <2>2 DEF Root
    <3>2. /\ visit' \in [EvalNos -> 0..2] /\ path' \in Seq(EvalNos) /\ next_b' \in Seq(Nat \ {0})
          /\ Len(next_b') = Len(path')
          /\ PathMarked' /\ Passed' /\ DoneClosed' /\ DoneAcyclic' /\ CyclesRefused'
          /\ \A b \in EvalNos : visit'[b] = 0 => visit[b] = 0 /\ b # root
      <4>1. <<>> \in Seq(Nat \ {0}) /\ Len(<<>>) = Len(path)
        BY <2>1
      <4>2. /\ \A i \in 1..Len(path) : i < Len(path) => <<>>[i] = next_b[i]
            /\ ~(Len(path) > 0) /\ UNCHANGED <<triggered_by, ret>>
        BY <2>1
      <4>3. QED
        BY <2>1, <2>2, <3>1, <4>1, <4>2, EnterInv
    <3>3. CyclesType'
      BY <2>1, <3>2, <1>t DEF CyclesType
    <3>4. RootsSeen'
      BY <2>1, <3>2, <1>t, <1>n DEF RootsSeen
    <3>5. QED
      BY <3>2, <3>3, <3>4 DEF CyclesInv
  <2>3. CASE visit[root] # 0
    <3>1. UNCHANGED <<visit, path, next_b, triggered_by, ret>>
      BY <1>1, <2>3 DEF Root
    <3>2. CyclesType' /\ RootsSeen'
      BY <2>1, <2>3, <3>1, <1>t, <1>n DEF CyclesType, RootsSeen
    <3>3. PathMarked' /\ Passed' /\ DoneClosed' /\ DoneAcyclic' /\ CyclesRefused'
      BY <3>1, <1>t DEF PathMarked, Passed, DoneClosed, DoneAcyclic, CyclesRefused, HasTriggerCycle
    <3>4. QED
      BY <3>2, <3>3 DEF CyclesInv
  <2>4. QED
    BY <2>2, <2>3
<1>2. CASE NoCycle
  <2>1. UNCHANGED <<visit, path, next_b, triggered_by, root>> /\ ret' = "ok" /\ n = 0 /\ root > NumEvals
    BY <1>2 DEF NoCycle
  <2>2. CyclesType' /\ RootsSeen'
    BY <2>1, <1>t DEF CyclesType, RootsSeen
  <2>p. PathMarked' /\ Passed' /\ DoneClosed' /\ DoneAcyclic'
    BY <2>1, <1>t DEF PathMarked, Passed, DoneClosed, DoneAcyclic
  <2>3. \A e \in EvalNos : visit[e] = 2
    <3>1. \A e \in EvalNos : visit[e] # 0
      BY <2>1, <1>t, EvalsAssumption DEF RootsSeen, CyclesType, EvalNos
    <3>2. \A e \in EvalNos : visit[e] # 1
      BY <2>1, <1>t DEF PathMarked
    <3>3. \A e \in EvalNos : visit[e] \in 0..2
      BY <1>t DEF CyclesType
    <3>4. QED
      BY <3>1, <3>2, <3>3
  <2>4. ~HasTriggerCycle
    <3> SUFFICES ASSUME HasTriggerCycle PROVE FALSE
      OBVIOUS
    <3>1. PICK S \in (SUBSET EvalNos) \ {{}} : \A b \in S : \E a \in S : a \in triggered_by[b]
      BY DEF HasTriggerCycle
    <3>2. S \in SUBSET EvalNos /\ S # {}
      OBVIOUS
    <3>3. \A b \in S : visit[b] = 2
      BY <2>3, <3>2
    <3>4. \E b \in S : \A a \in S : a \notin triggered_by[b]
      BY <3>2, <3>3, <1>t DEF DoneAcyclic
    <3>5. QED
      BY <3>1, <3>4
  <2>5. CyclesRefused'
    BY <2>1, <2>4 DEF CyclesRefused, HasTriggerCycle
  <2>6. QED
    BY <2>2, <2>p, <2>5 DEF CyclesInv
<1>3. CASE SkipB
  <2>1. /\ path # <<>> /\ NextB <= NumEvals /\ (visit[NextB] = 2 \/ Current \notin triggered_by[NextB])
        /\ UNCHANGED <<visit, path, triggered_by, root, ret>> /\ next_b' = Advanced
    BY <1>3 DEF SkipB, Looping
  <2>2. /\ next_b' \in Seq(Nat \ {0}) /\ Len(next_b') = n /\ next_b'[n] = NextB + 1
        /\ \A i \in 1..n : i # n => next_b'[i] = next_b[i]
    BY <2>1, <1>p, <1>t DEF Advanced, CyclesType
  <2>3. CyclesType'
    BY <2>1, <2>2, <1>t DEF CyclesType
  <2>p. PathMarked' /\ DoneClosed' /\ DoneAcyclic' /\ RootsSeen'
    BY <2>1, <1>t DEF PathMarked, DoneClosed, DoneAcyclic, RootsSeen
  <2>r. CyclesRefused'
    BY <2>1, <1>t DEF CyclesRefused, HasTriggerCycle
  <2>4. Passed'
    <3> SUFFICES ASSUME NEW i \in 1..n, NEW b \in EvalNos, b < next_b'[i], path[i] \in triggered_by[b]
                 PROVE  visit[b] = 2 \/ (i + 1 <= n /\ b = path[i + 1])
      BY <2>1 DEF Passed
    <3>1. CASE b < next_b[i]
      BY <3>1, <1>t DEF Passed
    <3>2. CASE ~(b < next_b[i])
      <4>1. i = n
        BY <3>2, <2>2
      <4>2. b = NextB
        BY <4>1, <3>2, <2>1, <2>2, <1>p, <1>n
      <4>3. QED
        BY <4>1, <4>2, <2>1, <1>p
    <3>3. QED
      BY <3>1, <3>2
  <2>5. QED
    BY <2>3, <2>p, <2>r, <2>4 DEF CyclesInv
<1>4. CASE VisitB
  <2>1. /\ path # <<>> /\ NextB <= NumEvals /\ ret = "open" /\ Current \in triggered_by[NextB] /\ visit[NextB] = 0
        /\ Enter(NextB, path, Advanced) /\ UNCHANGED <<triggered_by, root, ret>>
    BY <1>4 DEF VisitB, Looping
  <2>2. /\ Advanced \in Seq(Nat \ {0}) /\ Len(Advanced) = n /\ Advanced[n] = NextB + 1
        /\ \A i \in 1..n : i # n => Advanced[i] = next_b[i]
    BY <2>1, <1>p, <1>t DEF Advanced, CyclesType
  <2>3. NextB \in EvalNos
    BY <2>1, <1>p, EvalsAssumption DEF EvalNos
  <2>4. /\ visit' \in [EvalNos -> 0..2] /\ path' \in Seq(EvalNos) /\ next_b' \in Seq(Nat \ {0})
        /\ Len(next_b') = Len(path')
        /\ PathMarked' /\ Passed' /\ DoneClosed' /\ DoneAcyclic' /\ CyclesRefused'
        /\ \A b \in EvalNos : visit'[b] = 0 => visit[b] = 0 /\ b # NextB
    BY <2>1, <2>2, <2>3, <1>p, <1>n, EnterInv
  <2>5. CyclesType' /\ RootsSeen'
    BY <2>1, <2>4, <1>t DEF CyclesType, RootsSeen
  <2>6. QED
    BY <2>4, <2>5 DEF CyclesInv
<1>5. CASE CycleFound
  <2>1. /\ path # <<>> /\ NextB <= NumEvals /\ Current \in triggered_by[NextB] /\ visit[NextB] = 1
        /\ UNCHANGED <<visit, path, next_b, triggered_by, root>> /\ ret' = "cycle"
    BY <1>5 DEF CycleFound, Looping
  <2>2. CyclesType' /\ RootsSeen'
    BY <2>1, <1>t DEF CyclesType, RootsSeen
  <2>p. PathMarked' /\ Passed' /\ DoneClosed' /\ DoneAcyclic'
    BY <2>1, <1>t DEF PathMarked, Passed, DoneClosed, DoneAcyclic
  <2>3. PICK k \in 1..n : path[k] = NextB
    <3>1. NextB \in EvalNos
      BY <2>1, <1>p, EvalsAssumption DEF EvalNos
    <3>2. QED
      BY <3>1, <2>1, <1>t DEF PathMarked
  <2> DEFINE S == {path[i] : i \in k..n}
  <2>4. S \in SUBSET EvalNos /\ S # {}
    BY <2>3, <1>t, <1>n DEF CyclesType
  <2>5. ASSUME NEW b \in S PROVE \E a \in S : a \in triggered_by[b]
    <3>1. PICK i \in k..n : b = path[i]
      OBVIOUS
    <3>2. CASE i = k
      <4>1. path[n] \in S
        BY <2>3, <1>n
      <4>2. QED
        BY <4>1, <3>1, <3>2, <2>1, <2>3, <1>p
    <3>3. CASE i # k
      <4>1. i - 1 \in k..n /\ i - 1 \in 1..n /\ (i - 1) + 1 = i
        BY <3>1, <3>3, <2>3, <1>n
      <4>2. path[i - 1] \in triggered_by[path[i]]
        BY <4>1, <1>t, <1>n DEF PathMarked
      <4>3. QED
        BY <4>1, <4>2, <3>1
    <3>4. QED
      BY <3>2, <3>3
  <2>6. HasTriggerCycle
    BY <2>4, <2>5 DEF HasTriggerCycle
  <2>7. CyclesRefused'
    BY <2>1, <2>6 DEF CyclesRefused, HasTriggerCycle
  <2>8. QED
    BY <2>2, <2>p, <2>7 DEF CyclesInv
<1>6. CASE Leave
  <2>1. /\ path # <<>> /\ NextB > NumEvals /\ ret = "open" /\ UNCHANGED <<triggered_by, root, ret>>
        /\ visit' = [visit EXCEPT ![Current] = 2]
        /\ path' = SubSeq(path, 1, n - 1) /\ next_b' = SubSeq(next_b, 1, Len(next_b) - 1)
    BY <1>6 DEF Leave
  <2>2. /\ path' \in Seq(EvalNos) /\ next_b' \in Seq(Nat \ {0}) /\ Len(path') = n - 1 /\ Len(next_b') = n - 1
        /\ \A i \in 1..(n - 1) : path'[i] = path[i] /\ next_b'[i] = next_b[i]
    BY <2>1, <1>p, <1>t DEF CyclesType
  <2>3. /\ visit' \in [EvalNos -> 0..2] /\ visit'[Current] = 2
        /\ \A b \in EvalNos : b # Current => visit'[b] = visit[b]
    BY <2>1, <1>p, <1>t DEF CyclesType
  <2>4. \A b \in EvalNos : Current \in triggered_by[b] => visit[b] = 2
    <3>1. \A b \in EvalNos : b < next_b[n]
      BY <2>1, <1>p, EvalsAssumption DEF EvalNos
    <3>2. ~(n + 1 <= n)
      BY <1>n
    <3>3. QED
      BY <2>1, <3>1, <3>2, <1>p, <1>t DEF Passed
  <2>5. CyclesType' /\ RootsSeen' /\ CyclesRefused'
    BY <2>1, <2>2, <2>3, <1>t DEF CyclesType, RootsSeen, CyclesRefused
  <2>6. PathMarked'
    <3>0. \A i \in 1..(n - 1) : i \in 1..n /\ i # n
      BY <1>n
    <3>1. \A i \in 1..(n - 1) : i \in 1..n /\ path[i] \in EvalNos /\ path[i] # Current
      <4>1. \A i \in 1..n : path[i] \in EvalNos
        BY <1>t DEF CyclesType
      <4>2. \A i \in 1..n : path[i] = path[n] => i = n
        BY <1>p, <2>1, <1>t DEF PathMarked
      <4>3. QED
        BY <3>0, <4>1, <4>2, <1>p, <2>1
    <3>2. ASSUME NEW i \in 1..(n - 1) PROVE visit'[path'[i]] = 1
      <4>1. path'[i] = path[i] /\ path[i] \in EvalNos /\ path[i] # Current /\ visit[path[i]] = 1
        BY <3>1, <2>2, <1>t DEF PathMarked
      <4>2. QED
        BY <4>1, <2>3
    <3>3. ASSUME NEW b \in EvalNos, visit'[b] = 1 PROVE \E i \in 1..(n - 1) : path'[i] = b
      <4>1. b # Current /\ visit[b] = 1
        BY <3>3, <2>3
      <4>2. PICK i \in 1..n : path[i] = b
        BY <4>1, <1>t DEF PathMarked
      <4>3. i \in 1..(n - 1)
        BY <4>1, <4>2, <1>p, <2>1, <1>n
      <4>4. QED
        BY <4>2, <4>3, <2>2
    <3>4. \A i, j \in 1..(n - 1) : path'[i] = path'[j] => i = j
      BY <3>1, <2>2, <1>t DEF PathMarked
    <3>5. \A i \in 1..(n - 1) : i + 1 <= n - 1 => path'[i] \in triggered_by[path'[i + 1]]
      <4> SUFFICES ASSUME NEW i \in 1..(n - 1), i + 1 <= n - 1 PROVE path'[i] \in triggered_by[path'[i + 1]]
        OBVIOUS
      <4>1. i \in 1..n /\ i + 1 \in 1..(n - 1) /\ i + 1 <= n
        BY <1>n
      <4>2. QED
        BY <4>1, <2>2, <1>t DEF PathMarked
    <3>6. QED
      BY <2>1, <2>2, <3>2, <3>3, <3>4, <3>5 DEF PathMarked
  <2>7. Passed'
    <3> SUFFICES ASSUME NEW i \in 1..(n - 1), NEW b \in EvalNos, b < next_b[i], path[i] \in triggered_by[b]
                 PROVE  visit'[b] = 2 \/ (i + 1 <= n - 1 /\ b = path'[i + 1])
      <4>1. UNCHANGED triggered_by
        BY <2>1
      <4>2. QED
        BY <4>1, <2>2 DEF Passed
    <3>1. i \in 1..n /\ (i + 1 <= n - 1 \/ i + 1 = n)
      BY <1>n
    <3>2. visit[b] = 2 \/ b = path[i + 1]
      BY <3>1, <1>t DEF Passed
    <3>3. CASE visit[b] = 2
      BY <3>3, <2>3
    <3>4. CASE b = path[i + 1] /\ i + 1 = n
      BY <3>4, <2>1, <2>3, <1>p
    <3>5. CASE b = path[i + 1] /\ i + 1 <= n - 1
      BY <3>5, <2>2, <1>n
    <3>6. QED
      BY <3>1, <3>2, <3>3, <3>4, <3>5
  <2>8. DoneClosed'
    BY <2>1, <2>3, <2>4, <1>t DEF DoneClosed
  <2>9. DoneAcyclic'
    <3> SUFFICES ASSUME NEW S \in SUBSET EvalNos, S # {}, \A b \in S : visit'[b] = 2,
                        \A b \in S : \E a \in S : a \in triggered_by[b]
                 PROVE  FALSE
      BY <2>1 DEF DoneAcyclic
    <3>1. CASE Current \in S
      <4>1. PICK a \in S : a \in triggered_by[Current]
        BY <3>1
      <4>2. a # Current /\ visit[a] = 2
        BY <4>1, <2>3, <1>t DEF CyclesType
      <4>3. visit[Current] = 2
        BY <4>1, <4>2, <2>1, <1>p, <1>t DEF DoneClosed
      <4>4. QED
        BY <4>3, <2>1, <1>p
    <3>2. CASE Current \notin S
      <4>1. \A b \in S : visit[b] = 2
        BY <3>2, <2>3
      <4>2. QED
        BY <4>1, <1>t DEF DoneAcyclic
    <3>3. QED
      BY <3>1, <3>2
  <2>10. QED
    BY <2>5, <2>6, <2>7, <2>8, <2>9 DEF CyclesInv
<1>7. CASE UNCHANGED cycleVars
  <2>1. CyclesType' /\ PathMarked' /\ Passed' /\ RootsSeen'
    BY <1>7, <1>t DEF cycleVars, CyclesType, PathMarked, Passed, RootsSeen
  <2>2. DoneClosed' /\ DoneAcyclic' /\ CyclesRefused'
    BY <1>7, <1>t DEF cycleVars, DoneClosed, DoneAcyclic, CyclesRefused, HasTriggerCycle
  <2>3. QED
    BY <2>1, <2>2 DEF CyclesInv
<1>8. QED
  BY <1>1, <1>2, <1>3, <1>4, <1>5, <1>6, <1>7 DEF CyclesNext, Checked

\* check_cycles(): exactly the configurations in which some evals trigger each
\* other in a circle are refused, for any number of evals and any triggers
\* between them.
THEOREM CycleCheckIsExact == CyclesSpec => []CyclesRefused
<1>1. CyclesInv => CyclesRefused
  BY DEF CyclesInv
<1>2. QED
  BY CyclesInitInv, CyclesNextInv, <1>1, PTL DEF CyclesSpec
=============================================================================
