-------------------------- MODULE MCModbusRefused --------------------------
(* ModbusMaster for TLC: one slave that refuses the value at the head of   *)
(* its list.                                                               *)
EXTENDS ModbusMaster, TLC

CONSTANTS v1, v2

RefuseNumBlocks     == <<1>>
RefuseOuts          == <<<<v1, v2>>>>
RefuseRegister      == (v1 :> 1 @@ v2 :> 2)
RefuseReadOutcomes  == (<<1, 1>> :> {"ok"})
RefuseWriteOutcomes == (v1 :> {"exception"} @@ v2 :> {"ok"})
=============================================================================
