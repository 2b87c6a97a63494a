---------------------------- MODULE MbRegisters ----------------------------
(***************************************************************************)
(* What mb.c puts into the registers of a device and what it makes of them *)
(* when they are read back: an output block and an input block of a slave  *)
(* map the same registers.                                                 *)
(*                                                                         *)
(* A value of a block is a record: type, reg (and for bitmasks bit), swap  *)
(* (word_swap), scale, offset, and by_sf for an input scaled by the scale  *)
(* factor register sf of the block.  A register has WordBits bits.  f32    *)
(* values (IEEE floats) are left out.  A double is a number that is exact  *)
(* up to MaxFloat and infinite beyond.                                     *)
(***************************************************************************)
EXTENDS Codec, Sequences

CONSTANTS
  WordBits,     \* bits of a register (16)
  Blocks,       \* block layouts
  MbNumbers,    \* dispatched numbers, in halves
  MaxExp,       \* largest power of ten a double holds (308)
  MaxFloat,     \* largest double, in Units
  NoNumber      \* nothing written or read yet

WordBase == 2^WordBits

MbTypes  == {"bit", "bitmask", "u16", "s16", "u32", "s32"}
MbValues == [type : MbTypes, reg : Int, bit : Int, swap : BOOLEAN, scale : Int, offset : Int,
             by_sf : BOOLEAN]
MbBlocks == [count : Nat, sf : Int, expect_reg : Int, expect_value : Int, sunspec_na : BOOLEAN,
             vals : Seq(MbValues)]

RegCount(type) == IF type \in {"s32", "u32"} THEN 2 ELSE 1   \* value_reg_count()
IsSigned(type) == type \in {"s16", "s32"}
IsBit(type)    == type \in {"bit", "bitmask"}
RegsOf(v)      == v.reg..(v.reg + RegCount(v.type) - 1)

\* block_configure() and value_configure(): what a block must be like.
Configured(b) ==
  /\ b.expect_reg < b.count
  /\ \A i, j \in DOMAIN b.vals : b.vals[i].type = "bit" =>
       b.vals[j].type = "bit" /\ ~b.sunspec_na /\ b.expect_reg < 0
  /\ \A i \in DOMAIN b.vals :
       LET v == b.vals[i] IN
       /\ v.reg >= 0 /\ v.reg + RegCount(v.type) <= b.count
       /\ v.type = "bitmask" => v.bit \in 0..(WordBits - 1)
       /\ v.swap => RegCount(v.type) = 2
       /\ v.by_sf => ~IsBit(v.type) /\ b.sf \in 0..(b.count - 1)
       /\ v.scale # 0

\* A sensible block: values share a register only as different bits of it,
\* and the registers the device sets are no outputs.
Sensible(b) ==
  /\ \A i, j \in DOMAIN b.vals :
       LET v == b.vals[i]  w == b.vals[j] IN
       i # j /\ RegsOf(v) \cap RegsOf(w) # {} =>
         v.type = "bitmask" /\ w.type = "bitmask" /\ v.bit # w.bit
  /\ \A i \in DOMAIN b.vals : {b.sf, b.expect_reg} \cap RegsOf(b.vals[i]) = {}

ASSUME RegisterConstants ==
  /\ WordBits \in Nat \ {0}
  /\ Blocks \subseteq MbBlocks
  /\ \A b \in Blocks : Configured(b) /\ Sensible(b)
  /\ MbNumbers \subseteq Int
  /\ MaxExp \in Int /\ MaxFloat \in Nat

\* Arithmetic: bits in a register, registers in the longest value.
ASSUME RegisterPowers == PowerLaw(2, WordBits) /\ PowerLaw(WordBase, 2)

VARIABLES
  blk,          \* the block
  regs,         \* the registers of the device
  valbuf,       \* register -> image of its bitmask outputs
  wrote,        \* history: value -> number written last
  disp          \* value -> what a read since the last change dispatched: nothing
                \* ({}) or a number, in Units

mbRegVars == <<blk, regs, valbuf, wrote, disp>>

RegIdx  == 0..(blk.count - 1)
NoneYet == [i \in DOMAIN blk.vals |-> NoNumber]

RegistersInit ==
  /\ blk \in Blocks
  /\ regs = [r \in RegIdx |-> 0]
  /\ valbuf = [r \in RegIdx |-> 0]
  /\ wrote = NoneYet
  /\ disp = NoneYet

-----------------------------------------------------------------------------
(***************************************************************************)
(* write_execute().                                                        *)
(***************************************************************************)
High(u) == u \div WordBase
Low(u)  == u % WordBase

SetU32(v, u) == IF v.swap THEN <<Low(u), High(u)>> ELSE <<High(u), Low(u)>>

\* Mutant: the integer is cut to the width of the type, not limited.
ToRegsCut(v, h) ==
  LET n == RegCount(v.type)
      u == Unsigned(RoundQuotient(h - 2 * v.offset, 2 * v.scale), WordBase, n)
  IN  IF n = 2 THEN SetU32(v, u) ELSE <<u>>

\* The registers of a number: divided by scale, rounded, limited.
ToRegs(v, h) ==
  LET n == RegCount(v.type)
      x == Stored(h, v.scale, v.offset, IntMin(WordBase, n, IsSigned(v.type)),
                                        IntMax(WordBase, n, IsSigned(v.type)))
      u == Unsigned(x, WordBase, n)
  IN  IF n = 2 THEN SetU32(v, u) ELSE <<u>>

\* A number is written.  A bitmask output writes the image of its register,
\* which all bitmask outputs of the register share; a coil is set or cleared.
WriteValue(i, h) ==
  LET v == blk.vals[i] IN
  /\ CASE v.type = "bitmask" ->
            /\ valbuf' = [valbuf EXCEPT ![v.reg] = SetBit(@, v.bit, h > 1)]
            /\ regs' = [regs EXCEPT ![v.reg] = valbuf'[v.reg]]
       [] v.type = "bit" ->
            regs' = [regs EXCEPT ![v.reg] = IF h > 1 THEN 1 ELSE 0] /\ UNCHANGED valbuf
       [] OTHER ->
            /\ regs' = [r \in RegIdx |->
                 IF r \in RegsOf(v) THEN ToRegs(v, h)[r - v.reg + 1] ELSE regs[r]]
            /\ UNCHANGED valbuf
  /\ wrote' = [wrote EXCEPT ![i] = h]
  /\ disp' = NoneYet
  /\ UNCHANGED blk

\* The device sets its scale factor or the register expect_reg checks.
DeviceSets(r, w) ==
  /\ r \in {blk.sf, blk.expect_reg} \cap RegIdx
  /\ regs[r] # w
  /\ regs' = [regs EXCEPT ![r] = w]
  /\ disp' = NoneYet
  /\ UNCHANGED <<blk, valbuf, wrote>>

-----------------------------------------------------------------------------
(***************************************************************************)
(* read_block_registers() and read_block_bits().                           *)
(***************************************************************************)
GetU32(v) ==
  IF v.swap THEN regs[v.reg + 1] * WordBase + regs[v.reg]
  ELSE regs[v.reg] * WordBase + regs[v.reg + 1]

RawOf(v) == IF RegCount(v.type) = 2 THEN GetU32(v) ELSE regs[v.reg]

SignMark == WordBase \div 2     \* 0x8000
SfIsNa   == regs[blk.sf] = SignMark

\* sunspec_is_na(), and the check of the scale factor beside it.
IsNa(v) ==
  LET n == RegCount(v.type) IN
  \/ RawOf(v) = IF IsSigned(v.type) THEN WordBase^n \div 2 ELSE WordBase^n - 1
  \/ v.by_sf /\ SfIsNa

\* One is written as 10 to the largest negative exponent, so that every power of
\* ten is a whole number of units.
Unit == 10^SignMark

\* pow(10, exponent) in Units; the exponent is a signed register.
Exponent       == Signed(regs[blk.sf], WordBase, 1)
ScaleFactor(v) == IF v.by_sf THEN 10^(SignMark + Exponent) ELSE Unit

Scaled(v, raw) == raw * ScaleFactor(v) * v.scale + Unit * v.offset

\* isfinite() of the scaled number: the power of ten is finite, which matters for
\* a raw 0 too (it becomes a NaN), and so is each result on the way.
Finite(v, raw) ==
  /\ v.by_sf => Exponent <= MaxExp
  /\ {raw * ScaleFactor(v), raw * ScaleFactor(v) * v.scale, Scaled(v, raw)}
       \subseteq -MaxFloat..MaxFloat

\* dispatch_value(): a number that is not finite is dropped.
DispatchValue(v) ==
  LET n   == RegCount(v.type)
      raw == IF IsSigned(v.type) THEN Signed(RawOf(v), WordBase, n) ELSE RawOf(v)
  IN  CASE v.type = "bit" -> {Unit * regs[v.reg]}
        [] v.type = "bitmask" -> {Unit * BitAt(regs[v.reg], v.bit)}
        [] OTHER -> IF Finite(v, raw) THEN {Scaled(v, raw)} ELSE {}

Expected == blk.expect_reg < 0 \/ regs[blk.expect_reg] = blk.expect_value

ReadBlock ==
  /\ disp' = [i \in DOMAIN blk.vals |->
       IF ~Expected \/ (blk.sunspec_na /\ IsNa(blk.vals[i])) THEN {}
       ELSE DispatchValue(blk.vals[i])]
  /\ UNCHANGED <<blk, regs, valbuf, wrote>>

RegistersNext ==
  \/ \E i \in DOMAIN blk.vals, h \in MbNumbers : WriteValue(i, h)
  \/ \E r \in RegIdx, w \in 0..(WordBase - 1) : DeviceSets(r, w)
  \/ ReadBlock

RegistersSpec == RegistersInit /\ [][RegistersNext]_mbRegVars

-----------------------------------------------------------------------------
\* Reference: x is what a value of the type should hold for the number h/2.
Holds(v, h, x) ==
  IF IsBit(v.type) THEN x = IF h > 1 THEN 1 ELSE 0
  ELSE IsNearest(x, h, v.scale, v.offset,
                 IntMin(WordBase, RegCount(v.type), IsSigned(v.type)),
                 IntMax(WordBase, RegCount(v.type), IsSigned(v.type)))

\* Reference: the number SunSpec reserves for "not implemented".
Reserved(v, x) ==
  x = IF IsSigned(v.type) THEN IntMin(WordBase, RegCount(v.type), TRUE)
      ELSE IntMax(WordBase, RegCount(v.type), FALSE)

\* write_execute() and read_block_registers(): what is dispatched for a
\* value is the number its type can hold that is closest to the one written
\* last, times the power of ten of its scale factor, whatever is written to
\* the values beside it.  A number is missing only if the block is not the
\* expected one, if in a SunSpec block the value or its scale factor is the
\* marker for "not implemented", or if the scale factor or the scaled number is
\* beyond what a double holds; and such a number is never dispatched.
WrittenReadsBack ==
  \A i \in DOMAIN blk.vals :
    LET v == blk.vals[i] IN
        (wrote[i] # NoNumber /\ disp[i] # NoNumber) =>
          IF disp[i] # {}
          THEN \E x \in -WordBase^2..WordBase^2 :
                 /\ Holds(v, wrote[i], x)
                 /\ disp[i] = {IF IsBit(v.type) THEN Unit * x ELSE Scaled(v, x)}
                 /\ IsBit(v.type) \/ Finite(v, x)
                 /\ blk.sunspec_na => (IsBit(v.type) \/ ~Reserved(v, x))
          ELSE \/ ~Expected
               \/ /\ blk.sunspec_na
                  /\ \/ v.by_sf /\ SfIsNa
                     \/ v.type = "bitmask" /\ regs[v.reg] = WordBase - 1
                     \/ \E x \in -WordBase^2..WordBase^2 :
                          ~IsBit(v.type) /\ Holds(v, wrote[i], x) /\ Reserved(v, x)
               \/ \E x \in -WordBase^2..WordBase^2 :
                    ~IsBit(v.type) /\ Holds(v, wrote[i], x) /\ ~Finite(v, x)
=============================================================================
