------------------------------ MODULE MCModbus ------------------------------
(***************************************************************************)
(* The threads that poll devices, for TLC: a Modbus master and a REST      *)
(* poller.  They share no state: in a behaviour one of them runs, the      *)
(* other one rests.                                                        *)
(***************************************************************************)
EXTENDS ModbusMaster, RestPoller, TLC

CONSTANTS v1, v2

\* Slave 1 answers its first block with exceptions, and anything may happen to
\* the second one and to its two outputs, bits of one register; slave 2 is dead.
PairNumBlocks     == <<2, 1>>
PairOuts          == <<<<v1, v2>>, <<>>>>
PairRegister      == (v1 :> 1 @@ v2 :> 1)
PairReadOutcomes  == (<<1, 1>> :> {"exception"} @@ <<1, 2>> :> Outcomes @@ <<2, 1>> :> {"timeout"})
PairWriteOutcomes == (v1 :> Outcomes @@ v2 :> Outcomes)

-----------------------------------------------------------------------------
VARIABLE part   \* the part that runs

MasterEnded ==
  /\ next_transaction = 0 /\ reconnect = TRUE /\ slave_curr_idx = 1
  /\ block_read_idx = [s \in Slaves |-> 1] /\ value_out_curr = block_read_idx
  /\ next_poll = [s \in Slaves |-> 0] /\ next_write = next_poll
  /\ write_pending = [v \in Values |-> FALSE] /\ write_value = [v \in Values |-> 0]
  /\ image = write_value /\ dev = write_value /\ latest = write_value
  /\ pc = "stopped" /\ cur = NoValue /\ queued = 0 /\ spent = 0 /\ link = FALSE

PollersInit ==
  /\ RestInit
  /\ \/ part = "master" /\ Init
     \/ part = "rest" /\ MasterEnded

MasterRuns == part = "master" /\ Next /\ UNCHANGED <<restVars, part>>
RestRuns   == part = "rest" /\ RestNext /\ UNCHANGED <<vars, part>>

PollersSpec ==
  /\ PollersInit
  /\ [][MasterRuns \/ RestRuns]_<<vars, restVars, part>>
  /\ Fairness
=============================================================================
