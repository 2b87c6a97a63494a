----------------------------- MODULE EvalInputs -----------------------------
(***************************************************************************)
(* Which outside values a value of an eval depends on: close_inputs() of   *)
(* eval.c.  walk() has collected, for every value, the outside values its  *)
(* expression reads and the other own values it reads; a value is valid    *)
(* only if all outside values read through other values are.               *)
(*                                                                         *)
(* The loop over the values is a step per value; the passes repeat until   *)
(* one of them changes nothing.  Own values may read each other in both    *)
(* directions (a value below carries its previous state), so there may be  *)
(* cycles.                                                                 *)
(***************************************************************************)
EXTENDS Integers

CONSTANTS NumValues,   \* values of the eval, in config order
          Outside      \* outside values the eval reads

OwnValues == 1..NumValues

ASSUME ValuesAssumption == NumValues \in Nat

VARIABLES
  reads,      \* value -> outside values its own expression reads
  refs,       \* value -> other own values read
  ins,        \* value -> outside values depended on
  val_idx, changed,
  close_pc

closeVars == <<reads, refs, ins, val_idx, changed, close_pc>>

\* What walk() leaves: a value's reading of itself is no reference.
Walked ==
  /\ reads \in [OwnValues -> SUBSET Outside]
  /\ refs \in [OwnValues -> SUBSET OwnValues]
  /\ \A v \in OwnValues : v \notin refs[v]

CloseInit ==
  /\ Walked
  /\ ins = reads
  /\ val_idx = 1
  /\ changed = FALSE
  /\ close_pc = "pass"

\* The outside values v reads through other own values.
Inherited(v) == UNION {ins[r] : r \in refs[v]}

\* The loop body for the value at val_idx.
AddInputs ==
  /\ close_pc = "pass"
  /\ val_idx <= NumValues
  /\ ins' = [ins EXCEPT ![val_idx] = @ \cup Inherited(val_idx)]
  /\ changed' = (changed \/ ins' # ins)
  /\ val_idx' = val_idx + 1
  /\ UNCHANGED <<reads, refs, close_pc>>

\* while (changed)
NextPass ==
  /\ close_pc = "pass"
  /\ val_idx > NumValues
  /\ changed
  /\ changed' = FALSE
  /\ val_idx' = 1
  /\ UNCHANGED <<reads, refs, ins, close_pc>>

\* Mutant: one pass is enough.
FinishAtOnce ==
  /\ close_pc = "pass"
  /\ val_idx > NumValues
  /\ close_pc' = "done"
  /\ UNCHANGED <<reads, refs, ins, val_idx, changed>>

Finish ==
  /\ close_pc = "pass"
  /\ val_idx > NumValues
  /\ ~changed
  /\ close_pc' = "done"
  /\ UNCHANGED <<reads, refs, ins, val_idx, changed>>

CloseDone == close_pc = "done" /\ UNCHANGED closeVars

CloseNext == AddInputs \/ NextPass \/ Finish \/ CloseDone

CloseSpec == CloseInit /\ [][CloseNext]_closeVars

-----------------------------------------------------------------------------
CloseTypeOK ==
  /\ Walked
  /\ ins \in [OwnValues -> SUBSET Outside]
  /\ val_idx \in 1..(NumValues + 1)
  /\ changed \in BOOLEAN
  /\ close_pc \in {"pass", "done"}

\* d holds, for every value, its own outside values and those of every own
\* value it reads.
Closed(d) ==
  \A v \in OwnValues : reads[v] \subseteq d[v] /\ \A r \in refs[v] : d[r] \subseteq d[v]

\* The result is complete: a value read through any chain of own values is
\* among the inputs that decide its validity.
ClosureComplete == close_pc = "done" => Closed(ins)

\* Nothing else is: no value is made invalid by an outside value it does not
\* read through any chain (every closed set of inputs contains the result).
ClosureLeast ==
  \A d \in [OwnValues -> SUBSET Outside] :
    Closed(d) => \A v \in OwnValues : ins[v] \subseteq d[v]

\* close_inputs(): the inputs that decide the validity of a value are exactly
\* the outside values it reads, itself or through any chain of own values,
\* also where the own values read each other in a circle.
ClosureExact == ClosureComplete /\ ClosureLeast
=============================================================================
