------------------------------ MODULE MCConfig ------------------------------
(***************************************************************************)
(* Configurations for TLC: every configuration of MaxSections sections is  *)
(* loaded and the program it gives runs (LockOrder); close_inputs() is     *)
(* applied to every eval with NumValues values, check_cycles() to every    *)
(* set of triggers between NumEvals evals.  A behaviour shows one of them, *)
(* the others rest.                                                        *)
(***************************************************************************)
EXTENDS LockOrder, EvalInputs, EvalCycles, TLC

CONSTANT x

NameSymmetry == Permutations(Names)

VARIABLE part

NothingToClose ==
  /\ reads = [v \in OwnValues |-> {}] /\ refs = reads /\ ins = reads
  /\ val_idx = 1 /\ changed = FALSE /\ close_pc = "done"

NothingToVisit ==
  /\ triggered_by = [e \in EvalNos |-> {}]
  /\ visit = [e \in EvalNos |-> 2]
  /\ path = <<>> /\ next_b = <<>> /\ root = 1 /\ ret = "ok"

LoadAndRun  == part = "program" /\ Next /\ UNCHANGED <<closeVars, cycleVars, part>>
CloseInputs == part = "inputs" /\ CloseNext /\ UNCHANGED <<vars, cycleVars, part>>
CheckCycles == part = "cycles" /\ CyclesNext /\ UNCHANGED <<vars, closeVars, part>>

SetupInit ==
  /\ part \in {"program", "inputs", "cycles"} /\ Init
  /\ IF part = "inputs" THEN CloseInit ELSE NothingToClose
  /\ IF part = "cycles" THEN CyclesInit ELSE NothingToVisit

SetupSpec ==
  /\ SetupInit
  /\ [][LoadAndRun \/ CloseInputs \/ CheckCycles]_<<vars, closeVars, cycleVars, part>>
=============================================================================
