----------------------------- MODULE EvalCycles -----------------------------
(***************************************************************************)
(* check_cycles() and visit() of eval.c: a configuration in which evals    *)
(* trigger each other in a circle would evaluate forever and is refused.   *)
(*                                                                         *)
(* visit() calls itself; here the calls are a stack: path holds the evals, *)
(* next_b the loop position of each call.                                  *)
(***************************************************************************)
EXTENDS Integers, Sequences

CONSTANT NumEvals

ASSUME EvalsAssumption == NumEvals \in Nat

EvalNos == 1..NumEvals

VARIABLES
  triggered_by,   \* eval b -> evals that publish a trigger of b
  visit,          \* eval -> 0 = new, 1 = on the path, 2 = done
  path, next_b,   \* the calls of visit() under way
  root,           \* loop position of check_cycles()
  ret             \* "open", then "ok" (0) or "cycle" (-1)

cycleVars == <<triggered_by, visit, path, next_b, root, ret>>

\* Any triggers setup_triggers() accepts: no eval triggers itself.
CyclesInit ==
  /\ triggered_by \in [EvalNos -> SUBSET EvalNos]
  /\ \A e \in EvalNos : e \notin triggered_by[e]
  /\ visit = [e \in EvalNos |-> 0]
  /\ path = <<>> /\ next_b = <<>>
  /\ root = 1
  /\ ret = "open"

Current == path[Len(path)]
NextB == next_b[Len(next_b)]

\* Entry of visit(e).
Enter(e, stack, pos) ==
  /\ path' = Append(stack, e)
  /\ next_b' = Append(pos, 1)
  /\ visit' = [visit EXCEPT ![e] = 1]

\* check_cycles(): the next root is visited or skipped.
Root ==
  /\ ret = "open" /\ path = <<>>
  /\ root <= NumEvals
  /\ root' = root + 1
  /\ IF visit[root] = 0 THEN Enter(root, <<>>, <<>>)
     ELSE UNCHANGED <<visit, path, next_b>>
  /\ UNCHANGED <<triggered_by, ret>>

\* check_cycles(): all roots are done.
NoCycle ==
  /\ ret = "open" /\ path = <<>>
  /\ root > NumEvals
  /\ ret' = "ok"
  /\ UNCHANGED <<triggered_by, visit, path, next_b, root>>

Advanced == [next_b EXCEPT ![Len(next_b)] = @ + 1]

\* The loop of visit() over b is in progress.
Looping == ret = "open" /\ path # <<>> /\ NextB <= NumEvals

\* Mutant: every eval seen before is skipped.
SkipBSeen ==
  /\ Looping
  /\ visit[NextB] # 0 \/ Current \notin triggered_by[NextB]
  /\ next_b' = Advanced
  /\ UNCHANGED <<triggered_by, visit, path, root, ret>>

\* b is done, or not triggered by the current eval.
SkipB ==
  /\ Looping
  /\ visit[NextB] = 2 \/ Current \notin triggered_by[NextB]
  /\ next_b' = Advanced
  /\ UNCHANGED <<triggered_by, visit, path, root, ret>>

\* b is new: visit it.
VisitB ==
  /\ Looping
  /\ Current \in triggered_by[NextB]
  /\ visit[NextB] = 0
  /\ Enter(NextB, path, Advanced)
  /\ UNCHANGED <<triggered_by, root, ret>>

\* b is on the path: a cycle, reported; every call returns -1.
CycleFound ==
  /\ Looping
  /\ Current \in triggered_by[NextB]
  /\ visit[NextB] = 1
  /\ ret' = "cycle"
  /\ UNCHANGED <<triggered_by, visit, path, next_b, root>>

\* The call returns.
Leave ==
  /\ ret = "open" /\ path # <<>>
  /\ NextB > NumEvals
  /\ visit' = [visit EXCEPT ![Current] = 2]
  /\ path' = SubSeq(path, 1, Len(path) - 1)
  /\ next_b' = SubSeq(next_b, 1, Len(next_b) - 1)
  /\ UNCHANGED <<triggered_by, root, ret>>

Checked == ret # "open" /\ UNCHANGED cycleVars

CyclesNext == Root \/ NoCycle \/ SkipB \/ VisitB \/ CycleFound \/ Leave \/ Checked

CyclesSpec == CyclesInit /\ [][CyclesNext]_cycleVars

-----------------------------------------------------------------------------
\* The reference: some evals are all triggered from among themselves.
HasTriggerCycle ==
  \E S \in (SUBSET EvalNos) \ {{}} :
    \A b \in S : \E a \in S : a \in triggered_by[b]

\* Exactly the configurations with a trigger cycle are refused.
CyclesRefused == ret # "open" => (ret = "cycle" <=> HasTriggerCycle)
=============================================================================
