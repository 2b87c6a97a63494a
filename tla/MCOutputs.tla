------------------------------ MODULE MCOutputs ------------------------------
(***************************************************************************)
(* What goes out, for TLC: the TX thread of a CAN interface, the layout of *)
(* CAN frames, Modbus registers and their conversion, the image a SunSpec  *)
(* meter serves, and the thread of a logger.  They share no state: in a    *)
(* behaviour one of them runs, the others rest.                            *)
(***************************************************************************)
EXTENDS CanTx, CanLayout, MbRegisters, SunspecImage, MqttLogger

CONSTANTS s1, t1

\* No timestamps, a timestamp due at every pass, and times that leave room for the
\* first frame and for both.  The second frame is given the same value again and
\* again, which arms it too.
TxTimings == {<<1, 0>>, <<2, 1>>, <<1, 3>>, <<6, 5>>}
TxUpdates == <<Values, {0}>>

\* Every pair of values that fits into a frame.
CanValue(type, pos, scale, offset) ==
  [type |-> type, pos |-> pos, scale |-> scale, offset |-> offset]
PairLayouts ==
  {<<CanValue(t, p, 1, 0), CanValue(u, q, -2, 1)>> : t, u \in CanTypes, p, q \in 0..5}

\* Far out of every range, at limits of ranges, and halves.
PairNumbers == {-600, -3, 1, 5, 600}

\* Blocks with every type, word order and check, and with negative scales and
\* offsets.
MbVal(type, reg, swap, scale, offset, by_sf) ==
  [type |-> type, reg |-> reg, bit |-> 0, swap |-> swap, scale |-> scale,
   offset |-> offset, by_sf |-> by_sf]
MbBit(type, reg, bit) == [MbVal(type, reg, FALSE, 1, 0, FALSE) EXCEPT !.bit = bit]
MbBlock(count, sf, expect_reg, sunspec_na, vals) ==
  [count |-> count, sf |-> sf, expect_reg |-> expect_reg, expect_value |-> 2,
   sunspec_na |-> sunspec_na, vals |-> vals]

TypeBlocks ==
  { MbBlock(3, -1, -1, TRUE, <<MbVal("s16", 0, FALSE, 1, 0, FALSE),
                               MbVal("u32", 1, TRUE, -1, 1, FALSE)>>),
    MbBlock(3, -1, -1, TRUE, <<MbBit("bitmask", 0, 1), MbBit("bitmask", 0, 0),
                               MbVal("s32", 1, FALSE, 2, 0, FALSE)>>),
    MbBlock(4, 0, -1, TRUE,  <<MbVal("u16", 1, FALSE, 1, 0, TRUE),
                               MbVal("s32", 2, TRUE, 1, -1, TRUE)>>),
    MbBlock(3, 0, -1, FALSE, <<MbVal("u16", 1, FALSE, 2, 0, TRUE),
                               MbVal("s16", 2, FALSE, 1, 0, FALSE)>>),
    MbBlock(3, -1, 0, FALSE, <<MbVal("u32", 1, FALSE, 3, 0, FALSE)>>),
    MbBlock(2, -1, -1, FALSE, <<MbBit("bit", 0, 0), MbBit("bit", 1, 0)>>) }

\* Out of range, at the limits of the types, and halves, on both sides.
EdgeNumbers == {-40, -16, -5, -4, 0, 1, 3, 6, 15, 29, 100}

-----------------------------------------------------------------------------
VARIABLE part   \* the part that runs

CanEnded ==
  /\ LET c == CHOOSE t \in Timings : TRUE IN send_timeout = c[1] /\ stamp_period = c[2]
  /\ send_buf = [f \in Frames |-> [s \in Slots |-> 0]]
  /\ send_time = [f \in Frames |-> Idle]
  /\ next_stamp = 0 /\ pc = "sleep" /\ frame_idx = 1 /\ until_pass = 0 /\ now_lag = 0
  /\ handed = send_buf
  /\ call = [t \in Threads |-> NoCall] /\ call_lag = [t \in Threads |-> 0]
  /\ running = FALSE

LayoutRests    == LayoutInit /\ frame = CHOOSE l \in FrameLayouts : TRUE
RegistersRest  == RegistersInit /\ blk = CHOOSE b \in Blocks : TRUE

LoggerEnded ==
  /\ clock = 0 /\ synced = FALSE /\ next_time = 0 /\ thread = "ended"
  /\ now = 0 /\ slot = None /\ set_back = 0 /\ sets = MaxSets

OutputsInit ==
  /\ part \in {"can", "layout", "registers", "image", "logger"}
  /\ ImageInit
  /\ IF part = "can" THEN Init ELSE CanEnded
  /\ IF part = "layout" THEN LayoutInit ELSE LayoutRests
  /\ IF part = "registers" THEN RegistersInit ELSE RegistersRest
  /\ IF part = "logger" THEN LoggerInit ELSE LoggerEnded

CanRuns ==
  /\ part = "can" /\ Next
  /\ UNCHANGED <<layoutVars, mbRegVars, imageVars, loggerVars, part>>
LayoutRuns ==
  /\ part = "layout" /\ LayoutNext
  /\ UNCHANGED <<vars, mbRegVars, imageVars, loggerVars, part>>
RegistersRun ==
  /\ part = "registers" /\ RegistersNext
  /\ UNCHANGED <<vars, layoutVars, imageVars, loggerVars, part>>
ImageRuns ==
  /\ part = "image" /\ ImageNext
  /\ UNCHANGED <<vars, layoutVars, mbRegVars, loggerVars, part>>
LoggerRuns ==
  /\ part = "logger" /\ LoggerNext
  /\ UNCHANGED <<vars, layoutVars, mbRegVars, imageVars, part>>

OutputsSpec ==
  /\ OutputsInit
  /\ [][CanRuns \/ LayoutRuns \/ RegistersRun \/ ImageRuns \/ LoggerRuns]_
       <<vars, layoutVars, mbRegVars, imageVars, loggerVars, part>>
  /\ Fairness
=============================================================================
