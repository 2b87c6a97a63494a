----------------------------- MODULE CanLayout -----------------------------
(***************************************************************************)
(* The layout of CAN frames in can.c: send_value() puts numbers into the   *)
(* data bytes of an output frame, iface_rx_handler() takes them out of the *)
(* frames it receives.  Sender and receiver are two gateways with the same *)
(* frame.  A byte has ByteBits bits; a value is a record of type, pos (a   *)
(* byte, or a bit for the type bit), scale and offset.                     *)
(***************************************************************************)
EXTENDS Codec, Sequences, FiniteSetsExt

CONSTANTS
  ByteBits,     \* bits of a byte (8)
  DataLen,      \* data bytes of a frame (8)
  Layouts,      \* value lists of frames
  CanNumbers,   \* dispatched numbers, in halves
  NoReading     \* nothing sent or dispatched

ByteBase == 2^ByteBits

\* The number of bytes of a type other than bit.
TypeLen(type) ==
  CASE type \in {"u8", "s8"} -> 1 [] type \in {"u16", "s16"} -> 2 [] type \in {"u32", "s32"} -> 4
TypeSigned(type) == type \in {"s8", "s16", "s32"}

\* value_configure(): the data bytes a frame needs to hold the value.
UsedLen(v) ==
  IF v.type = "bit" THEN v.pos \div ByteBits + 1 ELSE v.pos + TypeLen(v.type)

Fits(v) == v.pos >= 0 /\ UsedLen(v) <= DataLen /\ v.scale # 0

\* Bits of a frame a value occupies.
BitsOf(v) ==
  IF v.type = "bit" THEN {v.pos}
  ELSE (v.pos * ByteBits)..((v.pos + TypeLen(v.type)) * ByteBits - 1)

\* Layouts value_configure() accepts, if their values do not overlap.
FrameLayouts ==
  {l \in Layouts :
     /\ \A i \in DOMAIN l : Fits(l[i])
     /\ \A i, j \in DOMAIN l : i # j => BitsOf(l[i]) \cap BitsOf(l[j]) = {}}

CanTypes  == {"bit", "u8", "s8", "u16", "s16", "u32", "s32"}
CanValues == [type : CanTypes, pos : Int, scale : Int, offset : Int]

ASSUME LayoutConstants ==
  /\ {ByteBits, DataLen} \subseteq Nat \ {0}
  /\ Layouts \subseteq Seq(CanValues)
  /\ CanNumbers \subseteq Int

\* Arithmetic: bits in a byte, bytes in the longest value.
ASSUME LayoutPowers == PowerLaw(2, ByteBits) /\ PowerLaw(ByteBase, 4)

VARIABLES
  frame,        \* the values of the frame
  data,         \* data bytes of send_buf
  sent,         \* history: value -> number sent last
  taken_out     \* value -> number dispatched by the receiver

layoutVars == <<frame, data, sent, taken_out>>

ByteIdx == 0..(DataLen - 1)
Nothing == [i \in DOMAIN frame |-> NoReading]

LayoutInit ==
  /\ frame \in FrameLayouts
  /\ data = [b \in ByteIdx |-> 0]
  /\ sent = Nothing
  /\ taken_out = Nothing

-----------------------------------------------------------------------------
\* write_value(): little endian.
WriteBytes(d, pos, len, u) ==
  [b \in ByteIdx |-> IF b \in pos..(pos + len - 1)
                     THEN (u \div ByteBase^(b - pos)) % ByteBase ELSE d[b]]

\* A bit is set or cleared in its byte.
WriteBit(d, pos, on) ==
  [d EXCEPT ![pos \div ByteBits] = SetBit(@, pos % ByteBits, on)]

\* send_value(), its part on the data bytes.
SendValue(i, h) ==
  LET v == frame[i] IN
  /\ data' = IF v.type = "bit" THEN WriteBit(data, v.pos, h > 1)
             ELSE LET n  == TypeLen(v.type)
                      lo == IntMin(ByteBase, n, TypeSigned(v.type))
                      hi == IntMax(ByteBase, n, TypeSigned(v.type))
                      x  == Stored(h, v.scale, v.offset, lo, hi)
                  IN  WriteBytes(data, v.pos, n, Unsigned(x, ByteBase, n))
  /\ sent' = [sent EXCEPT ![i] = h]
  /\ taken_out' = Nothing
  /\ UNCHANGED frame

-----------------------------------------------------------------------------
\* Mutant: the last value counts, not the one that ends last.
MinDlcLast == UsedLen(frame[Len(frame)])

\* min_dlc of the frame.
MinDlc == Max({UsedLen(frame[i]) : i \in DOMAIN frame})

\* read_value(): little endian.
ReadBytes(d, pos, len) ==
  LET Part(k) == IF k < len THEN d[pos + k] * ByteBase^k ELSE 0
  IN  Part(0) + Part(1) + Part(2) + Part(3)

ReadValue(d, v) ==
  LET n   == TypeLen(v.type)
      u   == ReadBytes(d, v.pos, n)
      raw == IF v.type = "bit" THEN BitAt(d[v.pos \div ByteBits], v.pos % ByteBits)
             ELSE IF TypeSigned(v.type) THEN Signed(u, ByteBase, n) ELSE u
  IN  raw * v.scale + v.offset

\* Frames on the bus: the sender's, perhaps with fewer data bytes (what is
\* behind them is not defined), and others, with any data.
Received ==
  {[std |-> TRUE, own |-> TRUE, dlc |-> n,
    data |-> [b \in ByteIdx |-> IF b < n THEN data[b] ELSE junk]] :
      n \in 0..DataLen, junk \in {0, ByteBase - 1}}
  \cup
  {[std |-> std, own |-> ~std, dlc |-> DataLen, data |-> [b \in ByteIdx |-> byte]] :
      std \in BOOLEAN, byte \in {0, ByteBase - 1}}

\* iface_rx_handler(): a frame is ignored if it is no standard data frame,
\* has another CAN ID, or is too short; else all its values are dispatched.
Receive(f) ==
  /\ taken_out' = IF f.std /\ f.own /\ f.dlc >= MinDlc
                  THEN [i \in DOMAIN frame |-> ReadValue(f.data, frame[i])]
                  ELSE taken_out
  /\ UNCHANGED <<frame, data, sent>>

LayoutNext ==
  \/ \E i \in DOMAIN frame, h \in CanNumbers : SendValue(i, h)
  \/ \E f \in Received : Receive(f)

LayoutSpec == LayoutInit /\ [][LayoutNext]_layoutVars

-----------------------------------------------------------------------------
\* send_value() and iface_rx_handler(): a number dispatched by the receiver
\* is the one its type can hold that is closest to what the sender last put
\* there, for all values of the frame at once, and nothing is dispatched
\* from bytes that were not received.
FrameRoundTrip ==
  \A i \in DOMAIN frame :
    LET v == frame[i] IN
    (sent[i] # NoReading /\ taken_out[i] # NoReading) =>
      IF v.type = "bit"
      THEN taken_out[i] = IF sent[i] > 1 THEN v.scale + v.offset ELSE v.offset
      ELSE \E x \in IntMin(ByteBase, TypeLen(v.type), TRUE)..IntMax(ByteBase, TypeLen(v.type), FALSE) :
             /\ taken_out[i] = x * v.scale + v.offset
             /\ IsNearest(x, sent[i], v.scale, v.offset,
                          IntMin(ByteBase, TypeLen(v.type), TypeSigned(v.type)),
                          IntMax(ByteBase, TypeLen(v.type), TypeSigned(v.type)))
=============================================================================
