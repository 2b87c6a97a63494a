--------------------------- MODULE OutputsProofs ---------------------------
(***************************************************************************)
(* Proofs about what goes out: the TX thread of a CAN interface (CanTx),   *)
(* for any number of frames, values, dispatching threads and any timing;   *)
(* the schedule of a logger (MqttLogger), for any interval and any         *)
(* behaviour of the wall clock; the image of a SunSpec meter               *)
(* (SunspecImage), for any number of phases and any powers; the layout of  *)
(* CAN frames (CanLayout) and of Modbus registers (MbRegisters), for any   *)
(* layout without overlaps, all numbers and any size of bytes and words.   *)
(***************************************************************************)
EXTENDS CanTx, MqttLogger, SunspecImage, CanLayout, MbRegisters, TLAPS, WellFoundedInduction

-----------------------------------------------------------------------------
(***************************************************************************)
(* CanTx.                                                                  *)
(***************************************************************************)

Calls == {NoCall} \cup [frame : Frames, slot : Slots, value : Values]

\* The shape of the state, with what TypeOK leaves open.
CanShape ==
  /\ TypeOK
  /\ send_time \in [Frames -> Int \cup {Idle}]
  /\ call \in [Threads -> Calls]

\* The frame handed to write() is disarmed, and stays so until the mutex is
\* released.
WritingIsDisarmed == pc = "write" => frame_idx \in Frames /\ send_time[frame_idx] = Idle

CanInv == CanShape /\ WritingIsDisarmed /\ NoUpdateForgotten

LEMMA CanFacts ==
  /\ NumFrames \in Nat /\ NumFrames >= 1
  /\ TxSleep \in Nat /\ TxSleep >= 1 /\ MaxLag \in Nat /\ MaxLag >= 1
  /\ Idle \notin Int
BY CanTxConstants DEF CanTxConstants

\* Cleared buffers: everything is as if it had been sent.
LEMMA CanInitInv == Init => CanInv
  BY CanTxConstants DEF Init, CanTxConstants, CanInv, CanShape, Calls, TypeOK, Frames, Values,
     WritingIsDisarmed, NoUpdateForgotten

\* One step per action.
LEMMA CanNextInv == CanInv /\ [Next]_vars => CanInv'
<1> SUFFICES ASSUME CanInv, [Next]_vars PROVE CanInv'
  OBVIOUS
<1> USE CanFacts DEF conf, Frames, CanInv, CanShape, TypeOK, WritingIsDisarmed,
        NoUpdateForgotten, MutexFree
<1>1. ASSUME NEW t \in Threads, NEW f \in Frames, NEW s \in Slots, NEW v \in Values,
             SendBegin(t, f, s, v)
      PROVE  CanInv'
  BY <1>1 DEF SendBegin, Calls
<1>2. ASSUME NEW t \in Threads, SendStore(t) PROVE CanInv'
  BY <1>2 DEF SendStore, Calls
<1>3. CASE PassBegin
  BY <1>3 DEF PassBegin
<1>4. CASE Stamp
  BY <1>4 DEF Stamp, StampDue
<1>5. CASE StampFails
  BY <1>5 DEF StampFails, StampDue, PassReturns
<1>6. CASE FrameWaits
  BY <1>6 DEF FrameWaits, FrameDue
<1>7. CASE FrameTaken
  BY <1>7 DEF FrameTaken, FrameDue
<1>8. CASE FrameWritten
  BY <1>8 DEF FrameWritten
<1>9. CASE FrameFails
  BY <1>9 DEF FrameFails, PassReturns
<1>10. CASE PassEnd
  BY <1>10 DEF PassEnd, PassReturns
<1>11. CASE Shutdown
  BY <1>11 DEF Shutdown
<1>12. CASE Tick
  BY <1>12 DEF Tick, Before
<1>13. CASE UNCHANGED vars
  BY <1>13 DEF vars
<1>14. \A f \in Frames : Updates[f] \subseteq Values
  BY CanTxConstants DEF CanTxConstants
<1>15. QED
  BY <1>1, <1>2, <1>3, <1>4, <1>5, <1>6, <1>7, <1>8, <1>9, <1>10, <1>11, <1>12, <1>13, <1>14
  DEF Next, TxStep, Ended

\* send_value() and iface_task(): an update is never forgotten between a
\* dispatching thread and the TX thread, for any number of them.
THEOREM UpdatesAreSent == Spec => []NoUpdateForgotten
<1>1. CanInv => NoUpdateForgotten
  BY DEF CanInv
<1>2. QED
  BY CanInitInv, CanNextInv, <1>1, PTL DEF Spec

-----------------------------------------------------------------------------
(***************************************************************************)
(* MqttLogger.                                                             *)
(***************************************************************************)

\* The quotient and the multiples a schedule is made of.
LEMMA SlotArithmetic ==
  ASSUME NEW t \in Nat
  PROVE  /\ t \div Interval \in Nat
         /\ (t \div Interval) * Interval \in Nat
         /\ (t \div Interval) * Interval <= t
         /\ t < (t \div Interval) * Interval + Interval
         /\ NextSlot(t) = (t \div Interval) * Interval + Interval
         /\ ((t \div Interval) * Interval) % Interval = 0
         /\ NextSlot(t) % Interval = 0
<1> DEFINE q == t \div Interval
<1>1. Interval \in Nat /\ Interval > 0
  BY MqttLoggerConstants DEF MqttLoggerConstants
<1>2. q \in Nat /\ q * Interval <= t /\ t < q * Interval + Interval
  BY <1>1
<1>3. q * Interval \in Nat /\ (q + 1) * Interval = q * Interval + Interval
  BY <1>1, <1>2
<1>4. \A k \in Nat : (k * Interval) % Interval = 0
  BY <1>1
<1>5. QED
  BY <1>1, <1>2, <1>3, <1>4 DEF NextSlot

\* The next slot is aligned, and at most one interval ahead.
LEMMA NextSlotFacts ==
  ASSUME NEW t \in Nat
  PROVE  /\ NextSlot(t) \in Nat /\ NextSlot(t) % Interval = 0
         /\ NextSlot(t) > t /\ NextSlot(t) - t <= Interval
<1>1. Interval \in Nat /\ Interval > 0
  BY MqttLoggerConstants DEF MqttLoggerConstants
<1> DEFINE s == (t \div Interval) * Interval
<1>2. /\ s \in Nat /\ s <= t /\ t < s + Interval
      /\ NextSlot(t) = s + Interval /\ NextSlot(t) % Interval = 0
  BY SlotArithmetic
<1> HIDE DEF s
<1>3. QED
  BY <1>1, <1>2

\* A multiple of the interval plus the interval is one.
LEMMA NextMultiple ==
  ASSUME NEW a \in Nat, a % Interval = 0
  PROVE  (a + Interval) % Interval = 0
<1>1. Interval \in Nat /\ Interval > 0
  BY MqttLoggerConstants DEF MqttLoggerConstants
<1>2. \A k \in Nat : (k * Interval) % Interval = 0
  BY <1>1
<1> DEFINE q == a \div Interval
<1>3. q \in Nat /\ a = q * Interval
  BY <1>1
<1>4. q + 1 \in Nat /\ (q + 1) * Interval = a + Interval
  BY <1>1, <1>3
<1>5. QED
  BY <1>2, <1>4

\* The shape of the state, and what holds at every step of the thread.
LoggerInv ==
  /\ LoggerTypeOK
  /\ next_time % Interval = 0
  /\ NextIsNear
  /\ thread = "startup" => slot = None
  \* As long as the clock was not set back, the next snapshot is later than
  \* the last one, and needs no realignment.
  /\ slot # None /\ set_back = 0 => next_time > slot /\ next_time - now <= Interval

LEMMA LoggerInitInv == LoggerInit => LoggerInv
<1>1. Interval \in Nat /\ Interval > 0 /\ MaxClock \in Nat /\ MaxSets \in Nat
  BY MqttLoggerConstants DEF MqttLoggerConstants
<1>2. 0 % Interval = 0
  BY <1>1
<1>3. QED
  BY <1>1, <1>2 DEF LoggerInit, LoggerInv, LoggerTypeOK, NextIsNear, None

\* A pass of logger_task() that takes a slot: it is a multiple of the
\* interval, not later than the clock reading and less than an interval
\* before it.
LEMMA DueSlotFacts ==
  ASSUME LoggerInv, thread = "task", now >= Aligned
  PROVE  /\ DueSlot \in Nat /\ DueSlot % Interval = 0
         /\ DueSlot <= now /\ now < DueSlot + Interval
         /\ DueSlot >= next_time
<1>1. /\ Interval \in Nat /\ Interval > 0
      /\ now \in Nat /\ next_time \in Nat /\ next_time % Interval = 0
  BY MqttLoggerConstants DEF MqttLoggerConstants, LoggerInv, LoggerTypeOK
<1>2. Aligned = next_time
  BY <1>1, SlotArithmetic DEF Aligned
<1>3. CASE now - Aligned >= Interval
  BY <1>1, <1>2, <1>3, SlotArithmetic DEF DueSlot
<1>4. CASE ~(now - Aligned >= Interval)
  BY <1>1, <1>2, <1>4 DEF DueSlot
<1>5. QED
  BY <1>3, <1>4

LEMMA LoggerNextInv == LoggerInv /\ [LoggerNext]_loggerVars => LoggerInv'
<1> SUFFICES ASSUME LoggerInv, [LoggerNext]_loggerVars PROVE LoggerInv'
  OBVIOUS
<1>c. Interval \in Nat /\ Interval > 0 /\ MaxClock \in Nat /\ MaxSets \in Nat
  BY MqttLoggerConstants DEF MqttLoggerConstants
<1> USE DEF LoggerInv, LoggerTypeOK, NextIsNear, None
<1>1. CASE LoggerStartup
  <2>1. clock \in Nat
    BY <1>c
  <2>2. QED
    BY <1>1, <1>c, <2>1, NextSlotFacts DEF LoggerStartup
<1>2. CASE ReadClock
  BY <1>2, <1>c DEF ReadClock
<1>3. CASE NotDue
  <2>1. now \in Nat /\ next_time \in Nat
    BY <1>c
  <2>2. /\ Aligned \in Nat /\ Aligned % Interval = 0 /\ Aligned - now <= Interval
        /\ Aligned # next_time => next_time - now > Interval
    BY <1>c, <2>1, NextSlotFacts DEF Aligned
  <2>3. QED
    BY <1>3, <1>c, <2>1, <2>2 DEF NotDue
<1>4. CASE Due
  <2>1. thread = "task" /\ now >= Aligned
    BY <1>4 DEF Due
  <2>2. (DueSlot + Interval) % Interval = 0
    BY <2>1, DueSlotFacts, NextMultiple
  <2>3. QED
    BY <1>4, <1>c, <2>1, <2>2, DueSlotFacts DEF Due
<1>5. CASE LoggerShutdown
  BY <1>5, <1>c DEF LoggerShutdown
<1>6. CASE ClockTicks
  BY <1>6, <1>c DEF ClockTicks
<1>7. CASE SyncChanges
  BY <1>7, <1>c DEF SyncChanges
<1>8. ASSUME NEW t \in 0..MaxClock, SetClock(t) PROVE LoggerInv'
  BY <1>8, <1>c DEF SetClock
<1>9. CASE UNCHANGED loggerVars
  BY <1>9 DEF loggerVars
<1>10. QED
  BY <1>1, <1>2, <1>3, <1>4, <1>5, <1>6, <1>7, <1>8, <1>9 DEF LoggerNext

\* logger_task(): after every pass the next snapshot is aligned and at most
\* one interval ahead, for any interval and whatever the wall clock does.
THEOREM SnapshotIsNear == LoggerSpec => []NextIsNear
<1>1. LoggerInv => NextIsNear
  BY DEF LoggerInv
<1>2. QED
  BY LoggerInitInv, LoggerNextInv, <1>1, PTL DEF LoggerSpec

\* No slot is logged twice unless the clock was set back in between.
THEOREM SlotsAreLoggedOnce == LoggerSpec => SlotsIncrease
<1> DEFINE Step == Due /\ synced /\ slot # None /\ set_back = 0 => slot' > slot
<1>1. LoggerInv /\ [LoggerNext]_loggerVars => [Step]_loggerVars
  <2> SUFFICES ASSUME LoggerInv, Due, synced, slot # None, set_back = 0
               PROVE  slot' > slot
    OBVIOUS
  <2>1. thread = "task" /\ now >= Aligned /\ slot' = DueSlot
    BY DEF Due
  <2>2. slot \in Nat /\ next_time \in Nat /\ next_time > slot
    BY MqttLoggerConstants DEF MqttLoggerConstants, LoggerInv, LoggerTypeOK, None
  <2>3. QED
    BY <2>1, <2>2, DueSlotFacts
<1>2. QED
  BY LoggerInitInv, LoggerNextInv, <1>1, PTL DEF LoggerSpec, SlotsIncrease

-----------------------------------------------------------------------------
(***************************************************************************)
(* SunspecImage.                                                           *)
(***************************************************************************)

ImageShape ==
  /\ source \in [Srcs -> Readings]
  /\ seen \in [Srcs -> SUBSET Powers]
  /\ got \in Seq(Readings) /\ Len(got) <= NumSrcs
  /\ answering \in {"idle", "image", "data", "exception"}
  /\ answering # "image" => got = <<>>

\* While the image is built, every valid value a source has, and every one
\* that was read from it, is one it had since the request.
ReadIsSeen ==
  answering = "image" =>
    /\ \A s \in Srcs : source[s] # Invalid => source[s] \in seen[s]
    /\ \A i \in 1..Len(got) : got[i] # Invalid => got[i] \in seen[i]

ImageInv == ImageShape /\ ReadIsSeen /\ AnswerIsCurrent

\* The phases are the first sources, an explicit total is the last one.
LEMMA SourceOrder ==
  /\ NumSrcs \in Nat
  /\ \A p \in PhaseIds : p \in Srcs /\ p # 0
  /\ HasTotal => NumSrcs \in Srcs
  BY ImageConstants DEF ImageConstants, NumSrcs, Srcs, PhaseIds

LEMMA ImageInitInv == ImageInit => ImageInv
  BY SourceOrder DEF ImageInit, ImageInv, ImageShape, ReadIsSeen, AnswerIsCurrent, Readings,
     NothingSeen

LEMMA ImageNextInv == ImageInv /\ [ImageNext]_imageVars => ImageInv'
<1> SUFFICES ASSUME ImageInv, [ImageNext]_imageVars PROVE ImageInv'
  OBVIOUS
<1> USE DEF ImageInv, ImageShape
<1>c. Invalid \notin Powers
  BY ImageConstants DEF ImageConstants
<1>1. ASSUME NEW s \in Srcs, NEW v \in Readings, SetSource(s, v) PROVE ImageInv'
  <2>1. ImageShape'
    BY <1>1 DEF SetSource
  <2>2. ReadIsSeen'
    <3> SUFFICES ASSUME answering = "image" PROVE ReadIsSeen'
      BY <1>1 DEF SetSource, ReadIsSeen
    <3>1. /\ seen' = [seen EXCEPT ![s] = @ \cup ({v} \cap Powers)]
          /\ source' = [source EXCEPT ![s] = v]
          /\ got' = got
      BY <1>1 DEF SetSource
    <3>2. \A r \in Srcs : seen[r] \subseteq seen'[r]
      BY <3>1
    <3>3. v # Invalid => v \in seen'[s]
      BY <3>1 DEF Readings
    <3>4. \A i \in 1..Len(got) : i \in Srcs
      BY SourceOrder DEF Srcs
    <3>5. QED
      BY <3>1, <3>2, <3>3, <3>4 DEF ReadIsSeen
  <2>3. AnswerIsCurrent'
    BY <1>1 DEF SetSource, AnswerIsCurrent, PhasesOf
  <2>4. QED
    BY <2>1, <2>2, <2>3
<1>2. CASE ImageRequest
  <2>1. ImageShape'
    BY <1>2 DEF ImageRequest
  <2>2. ReadIsSeen' /\ AnswerIsCurrent'
    BY <1>2 DEF ImageRequest, ReadIsSeen, AnswerIsCurrent, Readings
  <2>3. QED
    BY <2>1, <2>2
<1>3. CASE SrcGet
  <2>1. Len(got) + 1 \in Srcs
    BY <1>3, SourceOrder DEF SrcGet, Srcs
  <2>2. ImageShape'
    BY <1>3, <2>1, SourceOrder DEF SrcGet, Srcs
  <2>3. ReadIsSeen'
    BY <1>3, <2>1 DEF SrcGet, ReadIsSeen
  <2>4. AnswerIsCurrent'
    BY <1>3 DEF SrcGet, AnswerIsCurrent
  <2>5. QED
    BY <2>2, <2>3, <2>4
<1>4. CASE UpdateImage
  <2>1. ImageShape' /\ ReadIsSeen'
    BY <1>4, SourceOrder DEF UpdateImage, ReadIsSeen
  <2>2. CASE \E s \in Srcs : got[s] = Invalid
    BY <1>4, <2>1, <2>2 DEF UpdateImage, AnswerIsCurrent
  <2>3. CASE \A s \in Srcs : got[s] # Invalid
    <3>1. /\ answering = "image" /\ Len(got) = NumSrcs
          /\ mapping' = Registers /\ seen' = seen
      BY <1>4, <2>3 DEF UpdateImage
    <3>2. \A s \in Srcs : got[s] \in seen[s]
      BY <2>3, <3>1 DEF ReadIsSeen, Srcs
    <3>3. \A p \in PhaseIds : mapping'[p] = got[p]
      BY <3>1, SourceOrder DEF Registers
    <3>4. mapping'[0] = Total
      BY <3>1 DEF Registers
    <3>5. PhasesOf(mapping') = PhasesOf(got)
      BY <3>3 DEF PhasesOf
    <3>6. AnswerIsCurrent'
      BY <3>1, <3>2, <3>3, <3>4, <3>5, SourceOrder DEF AnswerIsCurrent, Total
    <3>7. QED
      BY <2>1, <3>6
  <2>4. QED
    BY <2>2, <2>3
<1>5. CASE Answered
  BY <1>5 DEF Answered, NothingSeen, ReadIsSeen, AnswerIsCurrent
<1>6. CASE UNCHANGED imageVars
  BY <1>6 DEF imageVars, ReadIsSeen, AnswerIsCurrent, PhasesOf
<1>7. QED
  BY <1>1, <1>2, <1>3, <1>4, <1>5, <1>6 DEF ImageNext

\* update_image() and handle_client(): whatever changes while the sources are
\* read one by one, a data answer holds only numbers its sources validly had
\* since the request, and a total that fits the phases.
THEOREM AnswersAreCurrent == ImageSpec => []AnswerIsCurrent
<1>1. ImageInv => AnswerIsCurrent
  BY DEF ImageInv
<1>2. QED
  BY ImageInitInv, ImageNextInv, <1>1, PTL DEF ImageSpec

-----------------------------------------------------------------------------
(***************************************************************************)
(* Codec: division, rounding, powers, bits and words.                      *)
(***************************************************************************)

\* Quotient and remainder, from the number put together of them.
LEMMA QuotientIs ==
  ASSUME NEW g \in Nat \ {0}, NEW k \in Int, NEW h \in 0..(g - 1)
  PROVE  (k * g + h) \div g = k /\ (k * g + h) % g = h
  OBVIOUS

\* ... and the number, from its quotient and remainder.
LEMMA Division ==
  ASSUME NEW a \in Int, NEW g \in Nat \ {0}
  PROVE  /\ a \div g \in Int /\ a % g \in 0..(g - 1)
         /\ a = (a \div g) * g + (a % g)
  OBVIOUS

\* Every set of naturals has a least element: induction, as the provers can use it.
LEMMA LeastElement ==
  ASSUME NEW T, T \subseteq Nat, T # {}
  PROVE  \E m \in T : \A k \in T : m <= k
<1> DEFINE R == {ss \in Nat \X Nat : ss[1] < ss[2]}
<1>1. IsWellFoundedOn(R, Nat)
  BY NatLessThanWellFounded, Zenon DEF OpToRel
<1>2. \A k, m \in Nat : k < m => <<k, m>> \in R
  OBVIOUS
<1> HIDE DEF R
<1>3. PICK m \in T : \A k \in T : ~(<<k, m>> \in R)
  BY <1>1, WFMin
<1>4. \A k \in T : ~(k < m)
  BY <1>2, <1>3
<1> QED
  BY <1>4

\* Dividing by a product is dividing twice.
LEMMA DivisionTwice ==
  ASSUME NEW a \in Int, NEW b \in Nat \ {0}, NEW c \in Nat \ {0}
  PROVE  a \div (b * c) = (a \div b) \div c
<1> DEFINE p == a \div b
           q == p \div c
           r == a % b
           s == p % c
<1>1. p \in Int /\ r \in 0..(b - 1) /\ a = p * b + r
  BY Division
<1>2. q \in Int /\ s \in 0..(c - 1) /\ p = q * c + s
  BY <1>1, Division
<1> HIDE DEF p, q, r, s
<1>3. b * c \in Nat \ {0}
  OBVIOUS
<1>4. s * b + r \in 0..(b * c - 1)
  <2>1. s * b <= (c - 1) * b /\ s * b >= 0 /\ s * b \in Int
    BY <1>2
  <2>2. (c - 1) * b = b * c - b
    OBVIOUS
  <2> QED
    BY <2>1, <2>2, <1>1, <1>3
<1>5. a = q * (b * c) + (s * b + r)
  <2>1. p * b = q * (b * c) + s * b
    BY <1>2
  <2> QED
    BY <2>1, <1>1, <1>2, <1>3
<1>6. a \div (b * c) = q
  BY <1>3, <1>4, <1>5, <1>2, QuotientIs
<1> QED
  BY <1>6 DEF p, q

\* round() is off by at most one half.
LEMMA RoundError ==
  ASSUME NEW n \in Int, NEW d \in Int \ {0}
  PROVE  /\ RoundQuotient(n, d) \in Int
         /\ 2 * Abs(RoundQuotient(n, d) * d - n) <= Abs(d)
<1> DEFINE m == Abs(n)
           e == Abs(d)
           q == (2 * m + e) \div (2 * e)
           r == (2 * m + e) % (2 * e)
<1>1. m \in Nat /\ e \in Nat \ {0}
  BY DEF Abs
<1>2. 2 * m + e \in Int /\ 2 * e \in Nat \ {0}
  BY <1>1
<1>3. q \in Int /\ r \in 0..(2 * e - 1) /\ 2 * m + e = q * (2 * e) + r
  BY <1>2, Division
<1>4. RoundQuotient(n, d) = IF (n < 0) = (d < 0) THEN q ELSE -q
  BY DEF RoundQuotient
<1> HIDE DEF q, r
<1>5. q * (2 * e) = 2 * (q * e)
  BY <1>1, <1>3
<1>6. 2 * Abs(q * e - m) <= e
  BY <1>1, <1>3, <1>5 DEF Abs
<1>7. CASE n < 0 /\ d < 0
  BY <1>7, <1>4, <1>6, <1>3 DEF Abs
<1>8. CASE n < 0 /\ ~(d < 0)
  BY <1>8, <1>4, <1>6, <1>3 DEF Abs
<1>9. CASE ~(n < 0) /\ d < 0
  BY <1>9, <1>4, <1>6, <1>3 DEF Abs
<1>10. CASE ~(n < 0) /\ ~(d < 0)
  BY <1>10, <1>4, <1>6, <1>3 DEF Abs
<1> QED
  BY <1>7, <1>8, <1>9, <1>10

\* Steps of D away from a number that is within D/2 of zero only lead farther away.
LEMMA Farther ==
  ASSUME NEW D \in Nat, NEW e \in Int, 2 * Abs(e) <= D, NEW j \in Int, NEW k \in Int,
         (0 <= j /\ j <= k) \/ (k <= j /\ j <= 0)
  PROVE  Abs(j * D + e) <= Abs(k * D + e)
<1>1. j * D \in Int /\ k * D \in Int
  OBVIOUS
<1>2. CASE j = k
  BY <1>1, <1>2 DEF Abs
<1>3. CASE 0 <= j /\ j < k
  <2>1. k * D >= (j + 1) * D /\ (j + 1) * D = j * D + D /\ j * D >= 0
    BY <1>3
  <2> QED
    BY <1>1, <2>1 DEF Abs
<1>4. CASE k < j /\ j <= 0
  <2>1. k * D <= (j - 1) * D /\ (j - 1) * D = j * D - D /\ j * D <= 0
    BY <1>4
  <2> QED
    BY <1>1, <2>1 DEF Abs
<1> QED
  BY <1>2, <1>3, <1>4

\* Subtracting the offset, dividing by scale, round() and utl_val_limit() give the
\* integer of the type that stands for the number closest to the one dispatched,
\* for every scale but 0, every offset and every range.
LEMMA StoredIsNearest ==
  ASSUME NEW h \in Int, NEW scale \in Int \ {0}, NEW offset \in Int,
         NEW lo \in Int, NEW hi \in Int, lo <= hi
  PROVE  IsNearest(Stored(h, scale, offset, lo, hi), h, scale, offset, lo, hi)
<1> DEFINE n == h - 2 * offset
           d == 2 * scale
           q == RoundQuotient(n, d)
           x == Stored(h, scale, offset, lo, hi)
<1>1. n \in Int /\ d \in Int \ {0}
  OBVIOUS
<1>2. q \in Int /\ 2 * Abs(q * d - n) <= Abs(d)
  BY <1>1, RoundError
<1>3. x = Limit(q, lo, hi)
  BY DEF Stored
<1> HIDE DEF q, x
<1>4. x \in lo..hi
  BY <1>2, <1>3 DEF Limit
<1> DEFINE D == Abs(d)
           e == IF d < 0 THEN n - q * d ELSE q * d - n
<1>5. D \in Nat /\ e \in Int /\ 2 * Abs(e) <= D
  BY <1>1, <1>2 DEF Abs
<1>6. ASSUME NEW y \in Int
      PROVE  Abs(2 * (y * scale + offset) - h) = Abs((y - q) * D + e)
  <2>1. 2 * (y * scale + offset) - h = y * d - n
    OBVIOUS
  <2>2. (y - q) * d = y * d - q * d /\ y * d \in Int /\ q * d \in Int
    BY <1>2
  <2>3. CASE d < 0
    <3>1. D = -d /\ e = n - q * d
      BY <2>3, <1>1 DEF Abs
    <3>2. (y - q) * D = -((y - q) * d)
      BY <3>1, <1>2, <1>1
    <3> QED
      BY <3>1, <3>2, <2>1, <2>2, <1>1, <1>2 DEF Abs
  <2>4. CASE ~(d < 0)
    <3>1. D = d /\ e = q * d - n
      BY <2>4, <1>1 DEF Abs
    <3> QED
      BY <3>1, <2>1, <2>2, <1>1, <1>2 DEF Abs
  <2> QED
    BY <2>3, <2>4
<1>7. ASSUME NEW y \in lo..hi
      PROVE  Abs(2 * (x * scale + offset) - h) <= Abs(2 * (y * scale + offset) - h)
  <2>1. x - q \in Int /\ y - q \in Int /\ x \in Int /\ y \in Int
    BY <1>2, <1>4
  <2>2. (0 <= x - q /\ x - q <= y - q) \/ (y - q <= x - q /\ x - q <= 0)
    <3>1. CASE q < lo
      <4>1. x = lo /\ lo <= y
        BY <3>1, <1>3 DEF Limit
      <4> QED
        BY <3>1, <4>1, <1>2, <2>1
    <3>2. CASE q > hi
      BY <3>2, <1>2, <1>3, <2>1 DEF Limit
    <3>3. CASE ~(q < lo) /\ ~(q > hi)
      <4>1. x = q
        BY <3>3, <1>3 DEF Limit
      <4> QED
        BY <4>1, <1>2, <2>1
    <3> QED
      BY <3>1, <3>2, <3>3, <1>2
  <2> HIDE DEF D, e
  <2>3. Abs((x - q) * D + e) <= Abs((y - q) * D + e)
    BY <2>1, <2>2, <1>5, Farther
  <2> QED
    BY <2>1, <2>3, <1>6
<1> QED
  BY <1>4, <1>7 DEF IsNearest, x

\* A power is a multiple of each lower one.
LEMMA PowerFactor ==
  ASSUME NEW b \in Nat \ {0}, NEW N \in Nat, PowerLaw(b, N),
         NEW m \in 0..N, b^m \in Nat \ {0}, NEW n \in m..N
  PROVE  \E c \in Nat \ {0} : b^n = c * b^m
<1> DEFINE Fails == {k \in m..N : ~\E c \in Nat \ {0} : b^k = c * b^m}
<1>1. SUFFICES ASSUME Fails # {} PROVE FALSE
  OBVIOUS
<1>2. Fails \subseteq Nat
  OBVIOUS
<1>3. PICK k \in Fails : \A j \in Fails : k <= j
  <2> HIDE DEF Fails
  <2> QED
    BY <1>1, <1>2, LeastElement
<1>4. k # m
  <2>1. b^m = 1 * b^m /\ 1 \in Nat \ {0}
    OBVIOUS
  <2> QED
    BY <2>1, <1>3
<1>5. k - 1 \in m..N /\ k - 1 \in 0..(N - 1) /\ k - 1 \in Nat
  BY <1>3, <1>4
<1>6. k - 1 \notin Fails
  <2>1. k \in Int /\ ~(k <= k - 1)
    BY <1>3
  <2> HIDE DEF Fails
  <2> QED
    BY <2>1, <1>3
<1>7. PICK c \in Nat \ {0} : b^(k - 1) = c * b^m
  BY <1>5, <1>6
<1>8. b^k = b * b^(k - 1)
  <2>1. b^((k - 1) + 1) = b * b^(k - 1)
    BY <1>5 DEF PowerLaw
  <2>2. (k - 1) + 1 = k
    BY <1>3
  <2> QED
    BY <2>1, <2>2
<1>9. b^k = (b * c) * b^m /\ b * c \in Nat \ {0}
  <2>1. b * (c * b^m) = (b * c) * b^m
    OBVIOUS
  <2>2. b * c \in Nat \ {0}
    OBVIOUS
  <2> QED
    BY <1>7, <1>8, <2>1, <2>2
<1> QED
  BY <1>3, <1>9

\* Powers are positive.
LEMMA PowerPositive ==
  ASSUME NEW b \in Nat \ {0}, NEW N \in Nat, PowerLaw(b, N), NEW n \in 0..N
  PROVE  b^n \in Nat \ {0}
<1>1. b^0 = 1 /\ 0 \in 0..N /\ b^0 \in Nat \ {0}
  BY DEF PowerLaw
<1>2. PICK c \in Nat \ {0} : b^n = c * b^0
  BY <1>1, PowerFactor
<1> QED
  BY <1>1, <1>2

\* PowerFactor for powers of two.
LEMMA Doubles ==
  ASSUME NEW N \in Nat, PowerLaw(2, N), NEW m \in 0..N, NEW n \in m..N
  PROVE  \E c \in Nat \ {0} : 2^n = c * 2^m
<1>1. ASSUME NEW b, b = 2 PROVE \E c \in Nat \ {0} : b^n = c * b^m
  <2>1. b \in Nat \ {0} /\ PowerLaw(b, N)
    BY <1>1
  <2>2. b^m \in Nat \ {0}
    BY <2>1, PowerPositive
  <2> QED
    BY <2>1, <2>2, PowerFactor
<1> QED
  BY <1>1

\* The number of values of a byte or register is even.
LEMMA PowerOfTwo ==
  ASSUME NEW N \in Nat \ {0}, PowerLaw(2, N)
  PROVE  \E g \in Nat \ {0} : 2^N = 2 * g
<1>1. N - 1 \in 0..(N - 1) /\ (N - 1) + 1 = N
  OBVIOUS
<1>2. 2^N = 2 * 2^(N - 1)
  BY <1>1 DEF PowerLaw
<1>3. 2^(N - 1) \in Nat \ {0}
  <2>1. 2 \in Nat \ {0} /\ N - 1 \in 0..N /\ N \in Nat
    OBVIOUS
  <2> QED
    BY <2>1, PowerPositive
<1> QED
  BY <1>2, <1>3

\* The bit of weight g, set or cleared.
LEMMA BitWritten ==
  ASSUME NEW w \in Int, NEW o \in {0, 1}, NEW g \in Nat \ {0}
  PROVE  ((w + (o - ((w \div g) % 2)) * g) \div g) % 2 = o
<1> DEFINE q == w \div g
           r == w % g
           e == o - (q % 2)
<1>1. q \in Int /\ r \in 0..(g - 1) /\ w = q * g + r
  BY Division
<1> HIDE DEF q, r
<1>2. e \in Int /\ (q + e) % 2 = o /\ q + e \in Int
  BY <1>1
<1> HIDE DEF e
<1>3. w + e * g = (q + e) * g + r
  BY <1>1, <1>2
<1>4. (w + e * g) \div g = q + e
  BY <1>1, <1>2, <1>3, QuotientIs
<1> QED
  BY <1>2, <1>4 DEF e, q

\* A multiple of 2 * g does not change the bit of weight g.
LEMMA LowerBitKept ==
  ASSUME NEW w \in Int, NEW e \in Int, NEW g \in Nat \ {0}, NEW c \in Nat \ {0}
  PROVE  ((w + e * (2 * (c * g))) \div g) % 2 = (w \div g) % 2
<1> DEFINE q == w \div g
           r == w % g
<1>1. q \in Int /\ r \in 0..(g - 1) /\ w = q * g + r
  BY Division
<1> HIDE DEF q, r
<1> DEFINE f == e * c
<1>2. f \in Int
  OBVIOUS
<1>3. e * (2 * (c * g)) = (2 * f) * g
  OBVIOUS
<1> HIDE DEF f
<1>4. w + (2 * f) * g = (q + 2 * f) * g + r
  BY <1>1, <1>2
<1>5. (w + (2 * f) * g) \div g = q + 2 * f
  BY <1>1, <1>2, <1>4, QuotientIs
<1>6. (q + 2 * f) % 2 = q % 2
  BY <1>1, <1>2
<1> QED
  BY <1>3, <1>5, <1>6 DEF q

\* Setting or clearing the bit of weight g does not change what is above it.
LEMMA UpperBitKept ==
  ASSUME NEW w \in Int, NEW o \in {0, 1}, NEW g \in Nat \ {0}, NEW c \in Nat \ {0}
  PROVE  (w + (o - ((w \div g) % 2)) * g) \div (2 * (c * g)) = w \div (2 * (c * g))
<1> DEFINE q == w \div g
           r == w % g
           e == o - (q % 2)
           x == w + e * g
<1>1. q \in Int /\ r \in 0..(g - 1) /\ w = q * g + r
  BY Division
<1> HIDE DEF q, r
<1>2. e \in Int /\ (q + e) \div 2 = q \div 2 /\ q + e \in Int
  BY <1>1
<1> HIDE DEF e
<1>3. x = (q + e) * g + r /\ x \in Int
  BY <1>1, <1>2
<1> HIDE DEF x
<1>4. x \div g = q + e
  BY <1>1, <1>2, <1>3, QuotientIs
<1>5. 2 * (c * g) = g * (2 * c) /\ 2 * c \in Nat \ {0}
  OBVIOUS
<1>6. ASSUME NEW z \in Int PROVE z \div (2 * (c * g)) = ((z \div g) \div 2) \div c
  <2>1. z \div (g * (2 * c)) = (z \div g) \div (2 * c)
    BY <1>5, DivisionTwice
  <2>2. (z \div g) \div (2 * c) = ((z \div g) \div 2) \div c
    <3>1. z \div g \in Int /\ 2 \in Nat \ {0}
      BY Division
    <3> QED
      BY <3>1, DivisionTwice
  <2> QED
    BY <1>5, <2>1, <2>2
<1>7. x \div (2 * (c * g)) = w \div (2 * (c * g))
  BY <1>2, <1>3, <1>4, <1>6 DEF q
<1> QED
  BY <1>7 DEF x, e, q

\* SetBit() sets or clears its bit ...
LEMMA BitSet ==
  ASSUME NEW N \in Nat, PowerLaw(2, N), NEW w \in Int, NEW on \in BOOLEAN, NEW n \in 0..N
  PROVE  /\ SetBit(w, n, on) \in Int
         /\ BitAt(SetBit(w, n, on), n) = IF on THEN 1 ELSE 0
<1> DEFINE o == IF on THEN 1 ELSE 0
<1>1. 2^n \in Nat \ {0}
  BY PowerPositive
<1>2. o \in {0, 1} /\ SetBit(w, n, on) = w + (o - BitAt(w, n)) * 2^n
  BY DEF SetBit
<1> HIDE DEF o
<1>3. BitAt(w, n) \in Int /\ SetBit(w, n, on) \in Int
  BY <1>1, <1>2 DEF BitAt
<1>4. BitAt(SetBit(w, n, on), n) = o
  BY <1>1, <1>2, BitWritten DEF BitAt
<1> QED
  BY <1>3, <1>4 DEF o

\* ... and no other one.
LEMMA OtherBits ==
  ASSUME NEW N \in Nat, PowerLaw(2, N), NEW w \in Int, NEW on \in BOOLEAN, NEW n \in 0..N,
         NEW m \in 0..N, m # n
  PROVE  BitAt(SetBit(w, n, on), m) = BitAt(w, m)
<1> DEFINE o == IF on THEN 1 ELSE 0
<1>1. \A k \in 0..N : 2^k \in Nat \ {0}
  BY PowerPositive
<1>2. BitAt(w, n) \in Int
  BY <1>1 DEF BitAt
<1>3. o \in {0, 1} /\ SetBit(w, n, on) = w + (o - BitAt(w, n)) * 2^n
  BY DEF SetBit
<1> HIDE DEF o
<1>4. ASSUME NEW k \in 0..N, NEW j \in 0..N, k < j
      PROVE  \E c \in Nat \ {0} : 2^j = 2 * (c * 2^k)
  <2>1. j - 1 \in k..N /\ j - 1 \in 0..(N - 1)
    BY <1>4
  <2>2. PICK c \in Nat \ {0} : 2^(j - 1) = c * 2^k
    <3>1. 2 \in Nat \ {0} /\ 2^k \in Nat \ {0}
      BY <1>1
    <3> QED
      BY <3>1, <2>1, Doubles
  <2>3. 2^((j - 1) + 1) = 2 * 2^(j - 1) /\ (j - 1) + 1 = j
    BY <2>1 DEF PowerLaw
  <2> QED
    BY <2>2, <2>3
<1>5. CASE m < n
  <2>1. PICK c \in Nat \ {0} : 2^n = 2 * (c * 2^m)
    BY <1>4, <1>5
  <2> DEFINE e == o - BitAt(w, n)
  <2>2. e \in Int
    BY <1>2, <1>3
  <2>3. SetBit(w, n, on) = w + e * (2 * (c * 2^m))
    BY <2>1, <1>3
  <2> HIDE DEF e
  <2>4. 2^m \in Nat \ {0}
    BY <1>1
  <2>5. ((w + e * (2 * (c * 2^m))) \div 2^m) % 2 = (w \div 2^m) % 2
    BY <2>2, <2>4, LowerBitKept
  <2> QED
    BY <2>3, <2>5 DEF BitAt
<1>6. CASE n < m
  <2>1. PICK c \in Nat \ {0} : 2^m = 2 * (c * 2^n)
    BY <1>4, <1>6
  <2>2. 2^n \in Nat \ {0}
    BY <1>1
  <2>3. SetBit(w, n, on) \div (2 * (c * 2^n)) = w \div (2 * (c * 2^n))
    <3>1. (w + (o - ((w \div 2^n) % 2)) * 2^n) \div (2 * (c * 2^n)) = w \div (2 * (c * 2^n))
      BY <2>2, <1>3, UpperBitKept
    <3>2. SetBit(w, n, on) = w + (o - ((w \div 2^n) % 2)) * 2^n
      BY <1>3 DEF BitAt
    <3> QED
      BY <3>1, <3>2
  <2> QED
    BY <2>1, <2>3 DEF BitAt
<1> QED
  BY <1>5, <1>6

\* A digit is what is left of the number when the higher digits are taken away.
LEMMA DigitStep ==
  ASSUME NEW B \in Nat \ {0}, NEW N \in Nat, PowerLaw(B, N), NEW u \in Int, NEW k \in 0..(N - 1)
  PROVE  ((u \div B^k) % B) * B^k = (u \div B^k) * B^k - (u \div B^(k + 1)) * B^(k + 1)
<1> DEFINE g == B^k
           p == u \div g
<1>1. g \in Nat \ {0}
  BY PowerPositive
<1>2. B^(k + 1) = g * B
  <2>1. B^(k + 1) = B * g
    BY DEF PowerLaw
  <2> QED
    BY <1>1, <2>1
<1> HIDE DEF g
<1>3. u \div B^(k + 1) = p \div B
  <2>1. u \div (g * B) = (u \div g) \div B
    BY <1>1, DivisionTwice
  <2> QED
    BY <1>2, <2>1
<1>4. p \in Int
  BY <1>1, Division
<1> HIDE DEF p
<1> DEFINE q == p \div B
           r == p % B
<1>5. q \in Int /\ r \in 0..(B - 1) /\ p = q * B + r
  BY <1>4, Division
<1> HIDE DEF q, r
<1>6. r * g = p * g - q * (g * B)
  <2>1. p * g = (q * B) * g + r * g
    BY <1>1, <1>5
  <2>2. (q * B) * g = q * (g * B)
    BY <1>1, <1>5
  <2> QED
    BY <1>1, <1>5, <2>1, <2>2
<1> QED
  BY <1>2, <1>3, <1>6 DEF p, q, r, g

\* A number below the modulus is its own remainder.
LEMMA ModuloSmall ==
  ASSUME NEW M \in Nat, NEW x \in Int, 0 <= x, x < M
  PROVE  x % M = x
  OBVIOUS

\* Two's complement: the conversion to unsigned and back is the identity on the type.
LEMMA ConvertedBack ==
  ASSUME NEW B, NEW n, NEW M \in Nat, M >= 2, M = B^n, NEW s \in BOOLEAN,
         NEW x \in IntMin(B, n, s)..IntMax(B, n, s)
  PROVE  /\ Unsigned(x, B, n) \in 0..(M - 1)
         /\ s => Signed(Unsigned(x, B, n), B, n) = x
         /\ ~s => Unsigned(x, B, n) = x
<1> DEFINE h == M \div 2
<1>1. h \in Nat /\ h >= 1 /\ 2 * h <= M /\ M <= 2 * h + 1
  OBVIOUS
<1>2. Unsigned(x, B, n) = x % M /\ Signed(x % M, B, n) = IF x % M < h THEN x % M ELSE (x % M) - M
  BY DEF Unsigned, Signed
<1>3. CASE s
  <2>1. x \in (-h)..(h - 1)
    BY <1>3 DEF IntMin, IntMax
  <2>2. x >= 0 => x % M = x
    BY <2>1, <1>1, ModuloSmall
  <2>3. x < 0 => x % M = x + M
    <3> SUFFICES ASSUME x < 0 PROVE x % M = x + M
      OBVIOUS
    <3>1. x + M \in 0..(M - 1) /\ x = (-1) * M + (x + M) /\ M \in Nat \ {0} /\ -1 \in Int
      BY <2>1, <1>1
    <3> HIDE DEF h
    <3>2. ((-1) * M + (x + M)) % M = x + M
      BY <3>1, QuotientIs
    <3> QED
      BY <3>1, <3>2
  <2> HIDE DEF h
  <2> QED
    BY <1>1, <1>2, <1>3, <2>1, <2>2, <2>3
<1>4. CASE ~s
  <2>1. x \in 0..(M - 1)
    BY <1>4 DEF IntMin, IntMax
  <2>2. x % M = x
    BY <2>1, <1>1, ModuloSmall
  <2> QED
    BY <1>2, <1>4, <2>1, <2>2
<1> QED
  BY <1>3, <1>4

\* The limits of the types.
LEMMA LimitsOrdered ==
  ASSUME NEW B, NEW n, NEW M \in Nat, M >= 2, M = B^n, NEW s \in BOOLEAN
  PROVE  /\ IntMin(B, n, s) \in Int /\ IntMax(B, n, s) \in Int
         /\ IntMin(B, n, s) <= IntMax(B, n, s)
         /\ IntMin(B, n, TRUE) <= IntMin(B, n, s)
         /\ IntMax(B, n, s) <= IntMax(B, n, FALSE)
         /\ IntMin(B, n, TRUE) \in Int /\ IntMax(B, n, FALSE) \in Int
  BY DEF IntMin, IntMax

-----------------------------------------------------------------------------
(***************************************************************************)
(* CanLayout.                                                              *)
(***************************************************************************)

\* A byte has at least two values.
LEMMA ByteBaseIs == ByteBase \in Nat /\ ByteBase >= 2
<1>1. PICK g \in Nat \ {0} : ByteBase = 2 * g
  BY LayoutConstants, LayoutPowers, PowerOfTwo DEF ByteBase
<1> QED
  BY <1>1

\* So have two, three and four.
LEMMA ByteBaseAtLeast == \A n \in 1..4 : ByteBase^n \in Nat /\ ByteBase^n >= 2
<1>1. ByteBase \in Nat \ {0} /\ PowerLaw(ByteBase, 4)
  BY ByteBaseIs, LayoutPowers
<1> SUFFICES ASSUME NEW n \in 1..4 PROVE ByteBase^n \in Nat /\ ByteBase^n >= 2
  OBVIOUS
<1>2. ByteBase^(n - 1) \in Nat \ {0} 
  <2>1. n - 1 \in 0..4 /\ 4 \in Nat
    OBVIOUS
  <2> QED
    BY <1>1, <2>1, PowerPositive
<1>3. ByteBase^n = ByteBase * ByteBase^(n - 1)
  <2>1. n - 1 \in 0..3 /\ (n - 1) + 1 = n
    OBVIOUS
  <2>2. ByteBase^((n - 1) + 1) = ByteBase * ByteBase^(n - 1)
    BY <1>1, <2>1 DEF PowerLaw
  <2> QED
    BY <2>1, <2>2
<1>4. ASSUME NEW a \in Nat, a >= 2, NEW b \in Nat \ {0} PROVE a * b \in Nat /\ a * b >= 2
  BY <1>4
<1> QED
  BY <1>2, <1>3, <1>4, ByteBaseIs
\* read_value() puts together what write_value() has taken apart.
LEMMA BytesRead ==
  ASSUME NEW N \in 1..4, NEW u \in 0..(ByteBase^N - 1), NEW d, NEW p \in Int,
         \A k \in 0..(N - 1) : d[p + k] = (u \div ByteBase^k) % ByteBase
  PROVE  ReadBytes(d, p, N) = u
<1> DEFINE B == ByteBase
           T(k) == (u \div B^k) * B^k
<1>0. B \in Nat \ {0} /\ PowerLaw(B, 4)
  BY ByteBaseIs, LayoutPowers
<1> HIDE DEF B
<1>1. \A k \in 0..4 : B^k \in Nat \ {0}
  BY <1>0, PowerPositive
<1>2. B^N \in Nat \ {0} /\ u \in Int /\ u \in 0..(B^N - 1)
  BY <1>1 DEF B
<1>3. \A k \in 0..4 : T(k) \in Int
  BY <1>1, <1>2
<1>4. \A k \in 0..3 : k < N => d[p + k] * B^k = T(k) - T(k + 1)
  <2> SUFFICES ASSUME NEW k \in 0..3, k < N PROVE d[p + k] * B^k = T(k) - T(k + 1)
    OBVIOUS
  <2>1. d[p + k] = (u \div B^k) % B
    BY DEF B
  <2>2. 4 \in Nat /\ k \in 0..(4 - 1)
    OBVIOUS
  <2>3. ((u \div B^k) % B) * B^k = (u \div B^k) * B^k - (u \div B^(k + 1)) * B^(k + 1)
    BY <2>2, <1>0, <1>2, DigitStep
  <2> QED
    BY <2>1, <2>3
<1>5. T(0) = u
  <2>1. B^0 = 1
    BY <1>0 DEF PowerLaw
  <2> QED
    BY <2>1, <1>2
<1>6. T(N) = 0
  <2>1. u \div B^N = 0
    BY <1>2
  <2> QED
    BY <2>1, <1>2
<1> HIDE DEF T
<1> DEFINE Part(k) == IF k < N THEN d[p + k] * B^k ELSE 0
<1>7. Part(0) + Part(1) + Part(2) + Part(3) = u
  <2>1. CASE N = 1
    BY <2>1, <1>3, <1>4, <1>5, <1>6
  <2>2. CASE N = 2
    BY <2>2, <1>3, <1>4, <1>5, <1>6
  <2>3. CASE N = 3
    BY <2>3, <1>3, <1>4, <1>5, <1>6
  <2>4. CASE N = 4
    BY <2>4, <1>3, <1>4, <1>5, <1>6
  <2> QED
    BY <2>1, <2>2, <2>3, <2>4
<1> QED
  BY <1>7 DEF ReadBytes, B

\* The range of a type, and the integer a number is sent as.
LowOf(v)  == IntMin(ByteBase, TypeLen(v.type), TypeSigned(v.type))
HighOf(v) == IntMax(ByteBase, TypeLen(v.type), TypeSigned(v.type))
StoredIn(v, h) == Stored(h, v.scale, v.offset, LowOf(v), HighOf(v))

\* The bytes of d hold the number h as the value v.
Kept(d, v, h) ==
  IF v.type = "bit"
  THEN BitAt(d[v.pos \div ByteBits], v.pos % ByteBits) = IF h > 1 THEN 1 ELSE 0
  ELSE \A k \in 0..(TypeLen(v.type) - 1) :
         d[v.pos + k] = (Unsigned(StoredIn(v, h), ByteBase, TypeLen(v.type)) \div ByteBase^k) % ByteBase

\* Fields of a value.
LEMMA TypeIs ==
  ASSUME NEW v \in CanValues
  PROVE  /\ v.type \in CanTypes /\ v.pos \in Int /\ v.scale \in Int /\ v.offset \in Int
         /\ TypeSigned(v.type) \in BOOLEAN
         /\ v.type # "bit" => TypeLen(v.type) \in {1, 2, 4}
<1>1. v.type \in CanTypes /\ v.pos \in Int /\ v.scale \in Int /\ v.offset \in Int
  BY DEF CanValues
<1>2. v.type # "bit" => TypeLen(v.type) \in {1, 2, 4}
  BY <1>1 DEF CanTypes, TypeLen
<1> QED
  BY <1>1, <1>2 DEF TypeSigned

\* What is stored is the nearest integer and fits into the type.
LEMMA StoredInType ==
  ASSUME NEW v \in CanValues, v.scale # 0, v.type # "bit", NEW h \in Int
  PROVE  /\ IsNearest(StoredIn(v, h), h, v.scale, v.offset, LowOf(v), HighOf(v))
         /\ StoredIn(v, h) \in LowOf(v)..HighOf(v)
         /\ StoredIn(v, h) \in IntMin(ByteBase, TypeLen(v.type), TRUE)..
                               IntMax(ByteBase, TypeLen(v.type), FALSE)
<1> DEFINE n == TypeLen(v.type)
           M == ByteBase^n
           lo == LowOf(v)
           hi == HighOf(v)
           least == IntMin(ByteBase, n, TRUE)
           greatest == IntMax(ByteBase, n, FALSE)
<1>1. n \in 1..4 /\ TypeSigned(v.type) \in BOOLEAN /\ v.scale \in Int \ {0} /\ v.offset \in Int
  BY TypeIs
<1>2. M \in Nat /\ M >= 2
  BY <1>1, ByteBaseAtLeast
<1>3. /\ lo \in Int /\ hi \in Int /\ least \in Int /\ greatest \in Int
      /\ lo <= hi /\ least <= lo /\ hi <= greatest
  BY <1>1, <1>2, LimitsOrdered DEF LowOf, HighOf
<1>4. IsNearest(StoredIn(v, h), h, v.scale, v.offset, lo, hi)
  <2> HIDE DEF lo, hi
  <2>1. IsNearest(Stored(h, v.scale, v.offset, lo, hi), h, v.scale, v.offset, lo, hi)
    BY <1>1, <1>3, StoredIsNearest
  <2> QED
    BY <2>1 DEF StoredIn, lo, hi
<1>5. StoredIn(v, h) \in lo..hi
  BY <1>4 DEF IsNearest
<1> HIDE DEF lo, hi, least, greatest
<1>6. StoredIn(v, h) \in least..greatest
  BY <1>3, <1>5
<1> QED
  BY <1>4, <1>5, <1>6 DEF lo, hi, least, greatest

\* What a value keeps is what the receiver dispatches.
LEMMA KeptIsRead ==
  ASSUME NEW v \in CanValues, v.scale # 0, NEW h \in Int, NEW d, Kept(d, v, h)
  PROVE  ReadValue(d, v) = IF v.type = "bit" THEN (IF h > 1 THEN v.scale + v.offset ELSE v.offset)
                           ELSE StoredIn(v, h) * v.scale + v.offset
<1>0. v.scale \in Int /\ v.offset \in Int
  BY TypeIs
<1>1. CASE v.type = "bit"
  <2>1. ReadValue(d, v) = (IF h > 1 THEN 1 ELSE 0) * v.scale + v.offset
    BY <1>1 DEF Kept, ReadValue
  <2> QED
    BY <1>0, <1>1, <2>1
<1>2. CASE v.type # "bit"
  <2> DEFINE n == TypeLen(v.type)
             M == ByteBase^n
             x == StoredIn(v, h)
             u == Unsigned(x, ByteBase, n)
  <2>1. n \in 1..4 /\ TypeSigned(v.type) \in BOOLEAN
    BY <1>2, TypeIs
  <2>2. M \in Nat /\ M >= 2
    BY <2>1, ByteBaseAtLeast
  <2>3. x \in LowOf(v)..HighOf(v)
    BY <1>2, StoredInType
  <2>4. /\ u \in 0..(M - 1)
        /\ TypeSigned(v.type) => Signed(u, ByteBase, n) = x
        /\ ~TypeSigned(v.type) => u = x
    <3> HIDE DEF x
    <3> QED
      BY <2>1, <2>2, <2>3, ConvertedBack DEF LowOf, HighOf
  <2>5. \A k \in 0..(n - 1) : d[v.pos + k] = (u \div ByteBase^k) % ByteBase
    BY <1>2 DEF Kept
  <2>6. ReadBytes(d, v.pos, n) = u
    <3>1. v.pos \in Int
      BY TypeIs
    <3> HIDE DEF u, n
    <3> QED
      BY <3>1, <2>1, <2>4, <2>5, BytesRead
  <2>7. ReadValue(d, v) = x * v.scale + v.offset
    <3> HIDE DEF x, u
    <3> QED
      BY <1>2, <2>4, <2>6 DEF ReadValue
  <2> QED
    BY <1>2, <2>7
<1> QED
  BY <1>1, <1>2

\* Every value still holds the number that was sent last.
BytesKept == \A i \in DOMAIN frame : sent[i] # NoReading => Kept(data, frame[i], sent[i])

\* The shape of the state.
LayoutShape ==
  /\ frame \in FrameLayouts
  /\ data \in [ByteIdx -> Int]
  /\ sent \in [DOMAIN frame -> CanNumbers \cup {NoReading}]

LayoutInv == LayoutShape /\ BytesKept /\ FrameRoundTrip

\* What a layout promises.
LEMMA FrameValues ==
  ASSUME NEW l \in FrameLayouts
  PROVE  /\ \A i \in DOMAIN l : l[i] \in CanValues /\ Fits(l[i])
         /\ \A i, j \in DOMAIN l : i # j => BitsOf(l[i]) \cap BitsOf(l[j]) = {}
<1>1. l \in Seq(CanValues)
  BY LayoutConstants DEF FrameLayouts
<1>2. \A i \in DOMAIN l : l[i] \in CanValues
  BY <1>1
<1> QED
  BY <1>2 DEF FrameLayouts

\* The byte of a bit, and the bit in its byte.
LEMMA BitPlace ==
  ASSUME NEW p \in Nat
  PROVE  /\ p \div ByteBits \in Nat /\ p % ByteBits \in 0..(ByteBits - 1)
         /\ p = (p \div ByteBits) * ByteBits + (p % ByteBits)
<1>1. ByteBits \in Nat \ {0}
  BY LayoutConstants
<1>2. p \div ByteBits \in Int /\ p % ByteBits \in 0..(ByteBits - 1)
      /\ p = (p \div ByteBits) * ByteBits + (p % ByteBits)
  BY <1>1, Division
<1>3. p \div ByteBits >= 0
  BY <1>1
<1> QED
  BY <1>2, <1>3

\* The bytes a value uses are bytes of the frame ...
LEMMA UsedBytes ==
  ASSUME NEW v \in CanValues, Fits(v)
  PROVE  /\ v.pos \in Nat /\ UsedLen(v) \in 1..DataLen
         /\ v.type = "bit" => v.pos \div ByteBits \in ByteIdx /\ v.pos \div ByteBits < UsedLen(v)
         /\ v.type # "bit" => \A k \in 0..(TypeLen(v.type) - 1) :
                                v.pos + k \in ByteIdx /\ v.pos + k < UsedLen(v)
<1>1. v.pos \in Nat /\ DataLen \in Nat
  BY TypeIs, LayoutConstants DEF Fits
<1>2. CASE v.type = "bit"
  <2>1. v.pos \div ByteBits \in Nat
    BY <1>1, BitPlace
  <2>2. UsedLen(v) = v.pos \div ByteBits + 1 /\ UsedLen(v) <= DataLen
    BY <1>2 DEF UsedLen, Fits
  <2> QED
    BY <1>1, <1>2, <2>1, <2>2 DEF ByteIdx
<1>3. CASE v.type # "bit"
  <2>1. TypeLen(v.type) \in 1..4
    BY <1>3, TypeIs
  <2>2. UsedLen(v) = v.pos + TypeLen(v.type) /\ UsedLen(v) <= DataLen
    BY <1>3 DEF UsedLen, Fits
  <2> QED
    BY <1>1, <1>3, <2>1, <2>2 DEF ByteIdx
<1> QED
  BY <1>2, <1>3

\* ... and so is the byte of a bit.
LEMMA BitInFrame ==
  ASSUME NEW v \in CanValues, Fits(v), v.type = "bit"
  PROVE  /\ v.pos \div ByteBits \in ByteIdx
         /\ v.pos % ByteBits \in 0..(ByteBits - 1) /\ v.pos % ByteBits \in 0..ByteBits
         /\ v.pos = (v.pos \div ByteBits) * ByteBits + (v.pos % ByteBits)
         /\ ByteBits \in Nat /\ PowerLaw(2, ByteBits)
<1>1. v.pos \in Nat /\ v.pos \div ByteBits \in ByteIdx
  BY UsedBytes
<1>2. /\ v.pos % ByteBits \in 0..(ByteBits - 1)
      /\ v.pos = (v.pos \div ByteBits) * ByteBits + (v.pos % ByteBits)
  BY <1>1, BitPlace
<1>3. ByteBits \in Nat /\ PowerLaw(2, ByteBits)
  BY LayoutConstants, LayoutPowers
<1>4. v.pos % ByteBits \in 0..ByteBits
  BY <1>2, <1>3
<1> QED
  BY <1>1, <1>2, <1>3, <1>4

\* A bit of a byte of a value is a bit of the value.
LEMMA InByte ==
  ASSUME NEW v \in CanValues, Fits(v), v.type # "bit", NEW r \in 0..(ByteBits - 1),
         NEW b \in v.pos..(v.pos + TypeLen(v.type) - 1)
  PROVE  b * ByteBits + r \in BitsOf(v)
<1>1. v.pos \in Nat /\ ByteBits \in Nat \ {0} /\ TypeLen(v.type) \in 1..4
  BY UsedBytes, LayoutConstants, TypeIs
<1> DEFINE e == v.pos + TypeLen(v.type)
<1>2. e \in Nat /\ b \in Nat /\ v.pos <= b /\ b + 1 <= e
  BY <1>1
<1>3. BitsOf(v) = (v.pos * ByteBits)..(e * ByteBits - 1)
  BY DEF BitsOf
<1> HIDE DEF e
<1>4. v.pos * ByteBits <= b * ByteBits /\ (b + 1) * ByteBits <= e * ByteBits
  BY <1>1, <1>2
<1>5. /\ (b + 1) * ByteBits = b * ByteBits + ByteBits
      /\ b * ByteBits \in Int /\ v.pos * ByteBits \in Int /\ e * ByteBits \in Int
  BY <1>1, <1>2
<1> QED
  BY <1>1, <1>2, <1>3, <1>4, <1>5

\* send_value(): the data bytes after it.
WrittenTo(d, v, h) ==
  IF v.type = "bit" THEN WriteBit(d, v.pos, h > 1)
  ELSE WriteBytes(d, v.pos, TypeLen(v.type), Unsigned(StoredIn(v, h), ByteBase, TypeLen(v.type)))

\* A value keeps what is written to it ...
LEMMA WriteKeeps ==
  ASSUME NEW v \in CanValues, Fits(v), NEW h \in Int, NEW d \in [ByteIdx -> Int]
  PROVE  WrittenTo(d, v, h) \in [ByteIdx -> Int] /\ Kept(WrittenTo(d, v, h), v, h)
<1>1. CASE v.type = "bit"
  <2> DEFINE b == v.pos \div ByteBits
             r == v.pos % ByteBits
  <2>1. b \in ByteIdx /\ r \in 0..ByteBits /\ ByteBits \in Nat /\ PowerLaw(2, ByteBits)
    BY <1>1, BitInFrame
  <2>2. WrittenTo(d, v, h) = [d EXCEPT ![b] = SetBit(d[b], r, h > 1)]
    BY <1>1 DEF WrittenTo, WriteBit
  <2> HIDE DEF b, r
  <2>3. SetBit(d[b], r, h > 1) \in Int /\ BitAt(SetBit(d[b], r, h > 1), r) = IF h > 1 THEN 1 ELSE 0
    <3>1. d[b] \in Int /\ (h > 1) \in BOOLEAN
      BY <2>1
    <3> QED
      BY <2>1, <3>1, BitSet
  <2> QED
    BY <1>1, <2>1, <2>2, <2>3 DEF Kept, b, r
<1>2. CASE v.type # "bit"
  <2> DEFINE n == TypeLen(v.type)
             u == Unsigned(StoredIn(v, h), ByteBase, n)
  <2>1. n \in 1..4 /\ v.pos \in Nat
    BY <1>2, TypeIs, UsedBytes
  <2>2. WrittenTo(d, v, h) = WriteBytes(d, v.pos, n, u)
    BY <1>2 DEF WrittenTo
  <2>3. u \in Int
    <3>1. StoredIn(v, h) \in LowOf(v)..HighOf(v) /\ TypeSigned(v.type) \in BOOLEAN
      BY <1>2, StoredInType, TypeIs DEF Fits
    <3>2. ByteBase^n \in Nat /\ ByteBase^n >= 2
      BY <2>1, ByteBaseAtLeast
    <3>3. u \in 0..(ByteBase^n - 1)
      BY <3>1, <3>2, ConvertedBack DEF LowOf, HighOf
    <3> QED
      BY <3>2, <3>3
  <2> HIDE DEF u
  <2>4. \A k \in 0..3 : (u \div ByteBase^k) % ByteBase \in Int
    <3>1. ByteBase \in Nat \ {0} /\ \A k \in 0..3 : ByteBase^k \in Nat \ {0}
      BY ByteBaseIs, LayoutPowers, PowerPositive
    <3> QED
      BY <3>1, <2>3
  <2>5. WrittenTo(d, v, h) \in [ByteIdx -> Int]
    <3> SUFFICES ASSUME NEW b \in ByteIdx, b \in v.pos..(v.pos + n - 1)
                 PROVE  (u \div ByteBase^(b - v.pos)) % ByteBase \in Int
      BY <2>2 DEF WriteBytes
    <3>1. b - v.pos \in 0..3
      BY <2>1
    <3> QED
      BY <2>4, <3>1
  <2>6. ASSUME NEW k \in 0..(n - 1)
        PROVE  WrittenTo(d, v, h)[v.pos + k] = (u \div ByteBase^k) % ByteBase
    <3>1. /\ v.pos + k \in ByteIdx /\ v.pos + k \in v.pos..(v.pos + n - 1)
          /\ (v.pos + k) - v.pos = k
      BY <1>2, <2>1, UsedBytes
    <3> HIDE DEF n
    <3> QED
      BY <2>2, <3>1 DEF WriteBytes
  <2> QED
    BY <1>2, <2>5, <2>6 DEF Kept, u
<1> QED
  BY <1>1, <1>2

\* ... and what is written to values that do not overlap with it changes nothing.
LEMMA WriteSpares ==
  ASSUME NEW v \in CanValues, Fits(v), NEW h \in Int, NEW d \in [ByteIdx -> Int],
         NEW w \in CanValues, Fits(w), NEW g, BitsOf(v) \cap BitsOf(w) = {}, Kept(d, w, g)
  PROVE  Kept(WrittenTo(d, v, h), w, g)
<1> DEFINE x == WrittenTo(d, v, h)
<1>0. ByteBits \in Nat \ {0} /\ v.pos \in Nat /\ w.pos \in Nat /\ 0 \in 0..(ByteBits - 1)
  BY LayoutConstants, UsedBytes
<1>1. CASE v.type = "bit"
  <2> DEFINE b == v.pos \div ByteBits
             r == v.pos % ByteBits
  <2>1. /\ b \in ByteIdx /\ r \in 0..(ByteBits - 1) /\ r \in 0..ByteBits
        /\ ByteBits \in Nat /\ PowerLaw(2, ByteBits)
    BY <1>1, BitInFrame
  <2>2. x = [d EXCEPT ![b] = SetBit(d[b], r, h > 1)]
    BY <1>1 DEF WrittenTo, WriteBit
  <2>3. v.pos = b * ByteBits + r /\ BitsOf(v) = {v.pos}
    BY <1>0, <1>1, BitPlace DEF BitsOf
  <2> HIDE DEF x, b, r
  <2>4. CASE w.type = "bit"
    <3> DEFINE c == w.pos \div ByteBits
               s == w.pos % ByteBits
    <3>1. c \in ByteIdx /\ s \in 0..ByteBits /\ w.pos = c * ByteBits + s
      BY <2>4, BitInFrame
    <3>2. b = c => r # s
      <4>1. w.pos # v.pos
        BY <2>3, <2>4 DEF BitsOf
      <4> QED
        BY <4>1, <2>3, <3>1
    <3> HIDE DEF c, s
    <3>3. s # r => BitAt(SetBit(d[b], r, h > 1), s) = BitAt(d[b], s)
      <4>1. d[b] \in Int /\ (h > 1) \in BOOLEAN
        BY <2>1
      <4> DEFINE on == h > 1
      <4>2. on \in BOOLEAN
        BY <4>1
      <4> HIDE DEF on
      <4>3. s # r => BitAt(SetBit(d[b], r, on), s) = BitAt(d[b], s)
        BY <2>1, <3>1, <4>1, <4>2, OtherBits
      <4> QED
        BY <4>3 DEF on
    <3>4. BitAt(x[c], s) = BitAt(d[c], s)
      BY <2>1, <2>2, <3>1, <3>2, <3>3
    <3> QED
      BY <2>4, <3>4 DEF Kept, c, s, x
  <2>5. CASE w.type # "bit"
    <3>1. b \notin w.pos..(w.pos + TypeLen(w.type) - 1)
      BY <2>5, <2>1, <2>3, InByte
    <3>2. ASSUME NEW k \in 0..(TypeLen(w.type) - 1) PROVE x[w.pos + k] = d[w.pos + k]
      <4>1. w.pos + k \in ByteIdx /\ w.pos + k \in w.pos..(w.pos + TypeLen(w.type) - 1)
        BY <2>5, <1>0, UsedBytes, TypeIs
      <4> QED
        BY <4>1, <3>1, <2>1, <2>2
    <3> QED
      BY <2>5, <3>2 DEF Kept, x
  <2> QED
    BY <2>4, <2>5 DEF x
<1>2. CASE v.type # "bit"
  <2> DEFINE mine == v.pos..(v.pos + TypeLen(v.type) - 1)
  <2>1. ASSUME NEW b \in ByteIdx, b \notin mine PROVE x[b] = d[b]
    BY <1>2, <2>1 DEF WrittenTo, WriteBytes
  <2> HIDE DEF x
  <2>2. CASE w.type = "bit"
    <3> DEFINE c == w.pos \div ByteBits
               s == w.pos % ByteBits
    <3>1. c \in ByteIdx /\ s \in 0..(ByteBits - 1) /\ w.pos = c * ByteBits + s
      BY <2>2, <1>0, UsedBytes, BitPlace
    <3>2. c \notin mine
      <4>1. w.pos \in BitsOf(w)
        BY <2>2 DEF BitsOf
      <4> HIDE DEF c, s
      <4> QED
        BY <1>2, <4>1, <3>1, InByte
    <3>3. x[c] = d[c]
      BY <2>1, <3>1, <3>2
    <3> QED
      BY <2>2, <3>3 DEF Kept, x
  <2>3. CASE w.type # "bit"
    <3>1. ASSUME NEW k \in 0..(TypeLen(w.type) - 1) PROVE x[w.pos + k] = d[w.pos + k]
      <4>1. w.pos + k \in ByteIdx /\ w.pos + k \in w.pos..(w.pos + TypeLen(w.type) - 1)
        BY <2>3, <1>0, UsedBytes, TypeIs
      <4>2. w.pos + k \notin mine
        <5> SUFFICES ASSUME w.pos + k \in mine PROVE FALSE
          OBVIOUS
        <5>1. (w.pos + k) * ByteBits + 0 \in BitsOf(v)
          BY <1>0, <1>2, InByte
        <5>2. (w.pos + k) * ByteBits + 0 \in BitsOf(w)
          BY <1>0, <2>3, <4>1, InByte
        <5> QED
          BY <5>1, <5>2
      <4> QED
        BY <4>1, <4>2, <2>1
    <3> QED
      BY <2>3, <3>1 DEF Kept, x
  <2> QED
    BY <2>2, <2>3 DEF x
<1> QED
  BY <1>1, <1>2

\* min_dlc covers every value of the frame.
LEMMA DlcCovers ==
  ASSUME frame \in FrameLayouts, NEW i \in DOMAIN frame
  PROVE  MinDlc \in Int /\ UsedLen(frame[i]) <= MinDlc
<1> DEFINE Lens == {UsedLen(frame[j]) : j \in DOMAIN frame}
           Above == {n \in Nat : \A len \in Lens : len <= n}
<1>1. Lens \subseteq 1..DataLen /\ Lens # {} /\ DataLen \in Nat
  BY FrameValues, UsedBytes, LayoutConstants
<1>2. UsedLen(frame[i]) \in Lens
  OBVIOUS
<1> HIDE DEF Lens
<1>3. Above \subseteq Nat /\ Above # {}
  <2>1. DataLen \in Above
    BY <1>1
  <2> QED
    BY <2>1
<1>4. PICK m \in Above : \A n \in Above : m <= n
  <2> HIDE DEF Above
  <2> QED
    BY <1>3, LeastElement
<1>5. m \in Lens
  <2> SUFFICES ASSUME m \notin Lens PROVE FALSE
    OBVIOUS
  <2>1. \A len \in Lens : len \in 1..DataLen /\ len <= m /\ len # m
    BY <1>1, <1>4
  <2>2. m \in Nat /\ m # 0
    <3>1. PICK len \in Lens : TRUE
      BY <1>1
    <3> QED
      BY <1>4, <2>1, <3>1
  <2>3. m - 1 \in Above
    BY <1>1, <2>1, <2>2
  <2> QED
    BY <1>4, <2>2, <2>3
<1>6. \E x \in Lens : \A y \in Lens : x >= y
  BY <1>1, <1>4, <1>5
<1>7. Max(Lens) \in Lens /\ \A y \in Lens : Max(Lens) >= y
  BY <1>6 DEF Max
<1>8. MinDlc = Max(Lens)
  BY DEF MinDlc, Lens
<1>9. \A y \in Lens : y \in Int
  BY <1>1
<1> QED
  BY <1>2, <1>7, <1>8, <1>9

\* Nothing is sent yet.
LEMMA LayoutInitInv == LayoutInit => LayoutInv
<1> SUFFICES ASSUME LayoutInit PROVE LayoutInv
  OBVIOUS
<1>1. sent = Nothing /\ \A i \in DOMAIN frame : sent[i] = NoReading
  BY DEF LayoutInit, Nothing
<1>2. LayoutShape
  BY <1>1 DEF LayoutInit, LayoutShape, Nothing
<1>3. BytesKept /\ FrameRoundTrip
  BY <1>1 DEF BytesKept, FrameRoundTrip
<1> QED
  BY <1>2, <1>3 DEF LayoutInv

\* send_value() keeps what the other values have been given.
LEMMA SendInv ==
  ASSUME LayoutInv, NEW i \in DOMAIN frame, NEW h \in CanNumbers, SendValue(i, h)
  PROVE  LayoutInv'
<1> DEFINE v == frame[i]
<1>0. h \in Int /\ frame' = frame
  BY LayoutConstants DEF SendValue
<1>1. \A j \in DOMAIN frame : frame[j] \in CanValues /\ Fits(frame[j])
  BY FrameValues DEF LayoutInv, LayoutShape
<1>2. data' = WrittenTo(data, v, h)
  BY DEF SendValue, WrittenTo, StoredIn, LowOf, HighOf
<1>3. data' \in [ByteIdx -> Int] /\ Kept(data', v, h)
  BY <1>0, <1>1, <1>2, WriteKeeps DEF LayoutInv, LayoutShape
<1>4. LayoutShape'
  BY <1>0, <1>3 DEF LayoutInv, LayoutShape, SendValue
<1>5. BytesKept'
  <2> SUFFICES ASSUME NEW j \in DOMAIN frame, sent'[j] # NoReading
               PROVE  Kept(data', frame[j], sent'[j])
    BY <1>0 DEF BytesKept, Kept, StoredIn, LowOf, HighOf
  <2>1. CASE j = i
    BY <1>3, <2>1 DEF SendValue, LayoutInv, LayoutShape
  <2>2. CASE j # i
    <3>1. sent'[j] = sent[j]
      BY <2>2 DEF SendValue, LayoutInv, LayoutShape
    <3>2. Kept(data, frame[j], sent[j])
      BY <3>1 DEF LayoutInv, BytesKept
    <3>3. BitsOf(v) \cap BitsOf(frame[j]) = {}
      BY <2>2, FrameValues DEF LayoutInv, LayoutShape
    <3>4. data \in [ByteIdx -> Int]
      BY DEF LayoutInv, LayoutShape
    <3> QED
      BY <1>0, <1>1, <1>2, <3>1, <3>2, <3>3, <3>4, WriteSpares
  <2> QED
    BY <2>1, <2>2
<1>6. FrameRoundTrip'
  <2>1. \A j \in DOMAIN frame' : taken_out'[j] = NoReading
    BY <1>0 DEF SendValue, Nothing
  <2> QED
    BY <2>1 DEF FrameRoundTrip
<1> QED
  BY <1>4, <1>5, <1>6 DEF LayoutInv

\* iface_rx_handler() reads what was written, or nothing.
LEMMA ReceiveInv ==
  ASSUME LayoutInv, NEW f \in Received, Receive(f)
  PROVE  LayoutInv'
<1>1. frame' = frame /\ data' = data /\ sent' = sent
  BY DEF Receive
<1>2. LayoutShape' /\ BytesKept'
  BY <1>1 DEF LayoutInv, LayoutShape, BytesKept, Kept, StoredIn, LowOf, HighOf
<1>3. FrameRoundTrip'
  <2>1. CASE f.std /\ f.own /\ f.dlc >= MinDlc
    <3>1. PICK n \in 0..DataLen, junk \in {0, ByteBase - 1} :
            f = [std |-> TRUE, own |-> TRUE, dlc |-> n,
                 data |-> [b \in ByteIdx |-> IF b < n THEN data[b] ELSE junk]]
      <4>1. ASSUME NEW std \in BOOLEAN, NEW byte \in {0, ByteBase - 1},
                   f = [std |-> std, own |-> ~std, dlc |-> DataLen,
                        data |-> [b \in ByteIdx |-> byte]]
            PROVE  FALSE
        <5>1. f.std = std /\ f.own = ~std
          BY <4>1
        <5> QED
          BY <2>1, <5>1
      <4> QED
        BY <4>1 DEF Received
    <3>2. /\ n >= MinDlc
          /\ f.data = [b \in ByteIdx |-> IF b < n THEN data[b] ELSE junk]
      BY <2>1, <3>1
    <3> SUFFICES ASSUME NEW i \in DOMAIN frame, sent[i] # NoReading
                 PROVE  LET v == frame[i] IN
                        IF v.type = "bit"
                        THEN taken_out'[i] = IF sent[i] > 1 THEN v.scale + v.offset ELSE v.offset
                        ELSE \E x \in IntMin(ByteBase, TypeLen(v.type), TRUE)..
                                      IntMax(ByteBase, TypeLen(v.type), FALSE) :
                               /\ taken_out'[i] = x * v.scale + v.offset
                               /\ IsNearest(x, sent[i], v.scale, v.offset, LowOf(v), HighOf(v))
      BY <1>1 DEF FrameRoundTrip, LowOf, HighOf
    <3> DEFINE v == frame[i]
               h == sent[i]
    <3>3. v \in CanValues /\ Fits(v) /\ v.scale # 0
      BY FrameValues DEF LayoutInv, LayoutShape, Fits
    <3>4. h \in Int
      BY LayoutConstants DEF LayoutInv, LayoutShape
    <3>5. Kept(data, v, h)
      BY DEF LayoutInv, BytesKept
    <3>6. \A b \in ByteIdx : b < UsedLen(v) => f.data[b] = data[b]
      <4>1. MinDlc \in Int /\ UsedLen(v) <= MinDlc
        BY DlcCovers DEF LayoutInv, LayoutShape
      <4>2. UsedLen(v) \in Int
        BY <3>3, UsedBytes
      <4> HIDE DEF v
      <4> QED
        BY <4>1, <4>2, <3>2 DEF ByteIdx
    <3>7. Kept(f.data, v, h)
      <4> HIDE DEF v, h
      <4>1. CASE v.type = "bit"
        <5>1. f.data[v.pos \div ByteBits] = data[v.pos \div ByteBits]
          BY <3>3, <3>6, <4>1, UsedBytes
        <5> QED
          BY <3>5, <4>1, <5>1 DEF Kept
      <4>2. CASE v.type # "bit"
        <5>1. \A k \in 0..(TypeLen(v.type) - 1) : f.data[v.pos + k] = data[v.pos + k]
          BY <3>3, <3>6, <4>2, UsedBytes
        <5> QED
          BY <3>5, <4>2, <5>1 DEF Kept
      <4> QED
        BY <4>1, <4>2
    <3>8. taken_out'[i] = ReadValue(f.data, v)
      BY <2>1 DEF Receive
    <3>9. CASE v.type = "bit"
      BY <3>3, <3>4, <3>7, <3>8, <3>9, KeptIsRead
    <3>10. CASE v.type # "bit"
      <4> DEFINE x == StoredIn(v, h)
      <4>1. /\ IsNearest(x, h, v.scale, v.offset, LowOf(v), HighOf(v))
            /\ x \in IntMin(ByteBase, TypeLen(v.type), TRUE)..IntMax(ByteBase, TypeLen(v.type), FALSE)
        BY <3>3, <3>4, <3>10, StoredInType
      <4>2. taken_out'[i] = x * v.scale + v.offset
        BY <3>3, <3>4, <3>7, <3>8, <3>10, KeptIsRead
      <4> HIDE DEF x
      <4> QED
        BY <3>10, <4>1, <4>2
    <3> QED
      BY <3>9, <3>10
  <2>2. CASE ~(f.std /\ f.own /\ f.dlc >= MinDlc)
    <3>1. taken_out' = taken_out
      BY <2>2 DEF Receive
    <3> QED
      BY <1>1, <3>1 DEF LayoutInv, FrameRoundTrip
  <2> QED
    BY <2>1, <2>2
<1> QED
  BY <1>2, <1>3 DEF LayoutInv

\* send_value() and iface_rx_handler(), for every frame that value_configure() accepts
\* and whose values do not overlap, for all numbers and any size of bytes: the receiver
\* dispatches for each value the number its type can hold that is closest to the one
\* sent last, and nothing from bytes that were not received.
THEOREM FramesRoundTrip == LayoutSpec => []FrameRoundTrip
<1>1. LayoutInit => LayoutInv
  BY LayoutInitInv
<1>2. LayoutInv /\ [LayoutNext]_layoutVars => LayoutInv'
  <2> SUFFICES ASSUME LayoutInv, [LayoutNext]_layoutVars PROVE LayoutInv'
    OBVIOUS
  <2>1. CASE LayoutNext
    BY <2>1, SendInv, ReceiveInv DEF LayoutNext
  <2>2. CASE UNCHANGED layoutVars
    BY <2>2 DEF layoutVars, LayoutInv, LayoutShape, BytesKept, Kept, StoredIn, LowOf, HighOf,
       FrameRoundTrip
  <2> QED
    BY <2>1, <2>2
<1>3. LayoutInv => FrameRoundTrip
  BY DEF LayoutInv
<1> QED
  BY <1>1, <1>2, <1>3, PTL DEF LayoutSpec

-----------------------------------------------------------------------------
(***************************************************************************)
(* MbRegisters.                                                            *)
(***************************************************************************)

\* Values of one and of two registers; their number is even.
LEMMA WordBaseIs ==
  /\ WordBase \in Nat /\ WordBase >= 2
  /\ WordBase^1 = WordBase /\ WordBase^2 = WordBase * WordBase
  /\ \A n \in {1, 2} : /\ WordBase^n \in Nat /\ WordBase^n >= 2 /\ WordBase^n <= WordBase^2
                       /\ \E h \in Nat : WordBase^n = 2 * h
<1>1. WordBits \in Nat \ {0} /\ PowerLaw(2, WordBits) /\ PowerLaw(WordBase, 2)
  BY RegisterConstants, RegisterPowers
<1>2. PICK g \in Nat \ {0} : WordBase = 2 * g
  BY <1>1, PowerOfTwo DEF WordBase
<1>3. WordBase \in Nat /\ WordBase >= 2
  BY <1>2
<1>4. WordBase^1 = WordBase /\ WordBase^2 = WordBase * WordBase
  <2>1. WordBase^0 = 1 /\ 0 \in 0..1 /\ 1 \in 0..1 /\ 0 + 1 = 1 /\ 1 + 1 = 2
    BY <1>1 DEF PowerLaw
  <2>2. \A k \in 0..1 : WordBase^(k + 1) = WordBase * WordBase^k
    BY <1>1 DEF PowerLaw
  <2>3. WordBase^(0 + 1) = WordBase * WordBase^0 /\ WordBase^(1 + 1) = WordBase * WordBase^1
    BY <2>1, <2>2
  <2> QED
    BY <2>1, <2>3, <1>3
<1>5. ASSUME NEW W \in Nat, W = 2 * g
      PROVE  /\ W * W \in Nat /\ W * W >= 2 /\ W <= W * W
             /\ W * W = 2 * (g * W) /\ g * W \in Nat
  BY <1>5
<1>6. /\ WordBase * WordBase \in Nat /\ WordBase * WordBase >= 2 /\ WordBase <= WordBase * WordBase
      /\ WordBase * WordBase = 2 * (g * WordBase) /\ g * WordBase \in Nat
  BY <1>2, <1>3, <1>5
<1>7. ASSUME NEW n \in {1, 2}
       PROVE  /\ WordBase^n \in Nat /\ WordBase^n >= 2 /\ WordBase^n <= WordBase^2
              /\ \E h \in Nat : WordBase^n = 2 * h
  <2>1. CASE n = 1
    BY <2>1, <1>2, <1>3, <1>4, <1>6
  <2>2. CASE n = 2
    BY <2>2, <1>4, <1>6
  <2> QED
    BY <2>1, <2>2
<1> QED
  BY <1>3, <1>4, <1>7

\* The range of a type, the integer a number is written as, and its raw form.
MbLow(v)  == IntMin(WordBase, RegCount(v.type), IsSigned(v.type))
MbHigh(v) == IntMax(WordBase, RegCount(v.type), IsSigned(v.type))
MbStored(v, h) == Stored(h, v.scale, v.offset, MbLow(v), MbHigh(v))
MbRaw(v, h) == Unsigned(MbStored(v, h), WordBase, RegCount(v.type))

\* What a block promises.
LEMMA BlockValues ==
  ASSUME NEW b \in Blocks
  PROVE  /\ b.count \in Nat /\ b.sf \in Int /\ b.expect_reg \in Int /\ b.sunspec_na \in BOOLEAN
         /\ \A i \in DOMAIN b.vals :
              LET v == b.vals[i] IN
              /\ v \in MbValues /\ v.scale # 0
              /\ v.reg \in 0..(b.count - 1) /\ RegsOf(v) \subseteq 0..(b.count - 1)
              /\ v.type = "bitmask" => v.bit \in 0..(WordBits - 1)
              /\ b.sf \notin RegsOf(v) /\ b.expect_reg \notin RegsOf(v)
              /\ v.by_sf => ~IsBit(v.type)
              /\ b.sunspec_na => v.type # "bit"
         /\ \A i, j \in DOMAIN b.vals :
              LET v == b.vals[i]  w == b.vals[j] IN
              i # j /\ RegsOf(v) \cap RegsOf(w) # {} =>
                v.type = "bitmask" /\ w.type = "bitmask" /\ v.bit # w.bit
<1>1. b \in MbBlocks /\ Configured(b) /\ Sensible(b)
  BY RegisterConstants
<1>2. /\ b.count \in Nat /\ b.sf \in Int /\ b.expect_reg \in Int /\ b.sunspec_na \in BOOLEAN
      /\ b.vals \in Seq(MbValues)
  BY <1>1 DEF MbBlocks
<1>3. \A i \in DOMAIN b.vals : b.vals[i] \in MbValues
  BY <1>2
<1>4. ASSUME NEW i \in DOMAIN b.vals
      PROVE  LET v == b.vals[i] IN
             /\ v \in MbValues /\ v.scale # 0
             /\ v.reg \in 0..(b.count - 1) /\ RegsOf(v) \subseteq 0..(b.count - 1)
             /\ v.type = "bitmask" => v.bit \in 0..(WordBits - 1)
             /\ b.sf \notin RegsOf(v) /\ b.expect_reg \notin RegsOf(v)
             /\ v.by_sf => ~IsBit(v.type)
             /\ b.sunspec_na => v.type # "bit"
  <2> DEFINE v == b.vals[i]
  <2>1. v \in MbValues /\ v.reg \in Int
    BY <1>3 DEF MbValues
  <2>2. RegCount(v.type) \in {1, 2}
    BY DEF RegCount
  <2>3. /\ v.reg >= 0 /\ v.reg + RegCount(v.type) <= b.count /\ v.scale # 0
        /\ v.type = "bitmask" => v.bit \in 0..(WordBits - 1)
        /\ v.by_sf => ~IsBit(v.type)
        /\ v.type = "bit" => ~b.sunspec_na
    BY <1>1 DEF Configured
  <2>4. {b.sf, b.expect_reg} \cap RegsOf(v) = {}
    BY <1>1 DEF Sensible
  <2> HIDE DEF v
  <2>5. v.reg \in 0..(b.count - 1) /\ RegsOf(v) \subseteq 0..(b.count - 1)
    BY <1>2, <2>1, <2>2, <2>3 DEF RegsOf
  <2> QED
    BY <2>1, <2>3, <2>4, <2>5 DEF v
<1>5. \A i, j \in DOMAIN b.vals :
        LET v == b.vals[i]  w == b.vals[j] IN
        i # j /\ RegsOf(v) \cap RegsOf(w) # {} =>
          v.type = "bitmask" /\ w.type = "bitmask" /\ v.bit # w.bit
  BY <1>1 DEF Sensible
<1> QED
  BY <1>2, <1>4, <1>5

\* What is stored is the nearest integer, is read back as the integer that was
\* stored, and looks like "not implemented" only if it is the reserved one.
LEMMA MbStoredIs ==
  ASSUME NEW v \in MbValues, v.scale # 0, NEW h \in Int
  PROVE  /\ IsNearest(MbStored(v, h), h, v.scale, v.offset, MbLow(v), MbHigh(v))
         /\ MbStored(v, h) \in -WordBase^2..WordBase^2
         /\ MbRaw(v, h) \in Nat
         /\ IsSigned(v.type) => Signed(MbRaw(v, h), WordBase, RegCount(v.type)) = MbStored(v, h)
         /\ ~IsSigned(v.type) => MbRaw(v, h) = MbStored(v, h)
         /\ Reserved(v, MbStored(v, h)) <=>
              MbRaw(v, h) = IF IsSigned(v.type) THEN WordBase^RegCount(v.type) \div 2
                            ELSE WordBase^RegCount(v.type) - 1
<1> DEFINE n == RegCount(v.type)
           s == IsSigned(v.type)
           M == WordBase^n
           lo == MbLow(v)
           hi == MbHigh(v)
           x == MbStored(v, h)
<1>1. n \in {1, 2} /\ s \in BOOLEAN /\ v.scale \in Int \ {0} /\ v.offset \in Int
  BY DEF RegCount, IsSigned, MbValues
<1>2. M \in Nat /\ M >= 2 /\ M <= WordBase^2 /\ WordBase^2 \in Nat /\ \E g \in Nat : M = 2 * g
  BY <1>1, WordBaseIs
<1>3. lo \in Int /\ hi \in Int /\ lo <= hi
  BY <1>1, <1>2, LimitsOrdered DEF MbLow, MbHigh
<1>4. IsNearest(x, h, v.scale, v.offset, lo, hi)
  <2> HIDE DEF lo, hi
  <2>1. IsNearest(Stored(h, v.scale, v.offset, lo, hi), h, v.scale, v.offset, lo, hi)
    BY <1>1, <1>3, StoredIsNearest
  <2> QED
    BY <2>1 DEF MbStored, lo, hi
<1>5. x \in lo..hi
  BY <1>4 DEF IsNearest
<1>6. lo = (IF s THEN -(M \div 2) ELSE 0) /\ hi = (IF s THEN M \div 2 - 1 ELSE M - 1)
  BY DEF MbLow, MbHigh, IntMin, IntMax
<1>7. /\ MbRaw(v, h) \in 0..(M - 1)
      /\ s => Signed(MbRaw(v, h), WordBase, n) = x
      /\ ~s => MbRaw(v, h) = x
  <2> HIDE DEF x, M
  <2>1. x \in IntMin(WordBase, n, s)..IntMax(WordBase, n, s)
    BY <1>5 DEF MbLow, MbHigh
  <2>2. M = WordBase^n
    BY DEF M
  <2> HIDE DEF n, s
  <2>3. /\ Unsigned(x, WordBase, n) \in 0..(M - 1)
        /\ s => Signed(Unsigned(x, WordBase, n), WordBase, n) = x
        /\ ~s => Unsigned(x, WordBase, n) = x
    BY <1>1, <1>2, <2>1, <2>2, ConvertedBack
  <2> QED
    BY <2>3 DEF MbRaw, x, n
<1>8. Reserved(v, x) <=> x = IF s THEN -(M \div 2) ELSE M - 1
  BY DEF Reserved, IntMin, IntMax
<1>9. Signed(MbRaw(v, h), WordBase, n) = IF MbRaw(v, h) < M \div 2 THEN MbRaw(v, h) ELSE MbRaw(v, h) - M
  BY DEF Signed
<1> HIDE DEF x, lo, hi, M
<1>10. x \in -WordBase^2..WordBase^2 /\ MbRaw(v, h) \in Nat /\ x \in Int
  <2>1. x \in Int /\ lo <= x /\ x <= hi
    BY <1>3, <1>5
  <2>2. -M <= lo /\ hi <= M
    BY <1>2, <1>1, <1>6
  <2> HIDE DEF n
  <2> QED
    BY <1>2, <1>3, <1>7, <2>1, <2>2
<1>11. CASE s
  <2>1. PICK g \in Nat : M = 2 * g
    BY <1>2
  <2>2. M \div 2 = g
    BY <2>1
  <2>3. x = -g <=> MbRaw(v, h) = g
    BY <1>2, <1>5, <1>6, <1>7, <1>9, <1>10, <1>11, <2>1, <2>2
  <2> QED
    BY <1>4, <1>7, <1>8, <1>10, <1>11, <2>2, <2>3 DEF x, lo, hi, M
<1>12. CASE ~s
  BY <1>4, <1>7, <1>8, <1>10, <1>12 DEF x, lo, hi, M
<1> QED
  BY <1>1, <1>11, <1>12

\* Registers rs and images vb hold the number h as the value v.
InRegs(rs, vb, v, h) ==
  CASE v.type = "bitmask" ->
         /\ rs[v.reg] = vb[v.reg]
         /\ BitAt(vb[v.reg], v.bit) = IF h > 1 THEN 1 ELSE 0
    [] v.type = "bit" -> rs[v.reg] = IF h > 1 THEN 1 ELSE 0
    [] OTHER -> \A r \in RegsOf(v) : rs[r] = ToRegs(v, h)[r - v.reg + 1]

\* The shape of the state.
RegsShape ==
  /\ blk \in Blocks
  /\ regs \in [RegIdx -> Int] /\ valbuf \in [RegIdx -> Int]
  /\ wrote \in [DOMAIN blk.vals -> MbNumbers \cup {NoNumber}]

\* Every value still holds the number that was written last.
RegsKept ==
  \A i \in DOMAIN blk.vals : wrote[i] # NoNumber => InRegs(regs, valbuf, blk.vals[i], wrote[i])

RegsInv == RegsShape /\ RegsKept /\ WrittenReadsBack

\* Registers of a value.
LEMMA TypeCases ==
  ASSUME NEW v \in MbValues
  PROVE  /\ v.reg \in Int /\ v.bit \in Int
         /\ v.type \in {"bit", "bitmask"} <=> IsBit(v.type)
         /\ IsBit(v.type) => RegCount(v.type) = 1 /\ ~IsSigned(v.type)
         /\ RegCount(v.type) \in {1, 2}
         /\ RegCount(v.type) = 1 => RegsOf(v) = {v.reg}
         /\ RegCount(v.type) = 2 => RegsOf(v) = {v.reg, v.reg + 1}
<1>1. v.reg \in Int /\ v.bit \in Int
  BY DEF MbValues
<1>2. RegCount(v.type) \in {1, 2}
  BY DEF RegCount
<1>3. IsBit(v.type) => RegCount(v.type) = 1 /\ ~IsSigned(v.type)
  BY DEF IsBit, RegCount, IsSigned
<1>4. RegCount(v.type) = 1 => RegsOf(v) = {v.reg}
  BY <1>1 DEF RegsOf
<1>5. RegCount(v.type) = 2 => RegsOf(v) = {v.reg, v.reg + 1}
  BY <1>1 DEF RegsOf
<1> QED
  BY <1>1, <1>2, <1>3, <1>4, <1>5 DEF IsBit

\* Both word orders: the registers written are put together to the integer written.
LEMMA ToRegsIs ==
  ASSUME NEW v \in MbValues, v.scale # 0, NEW h \in Int
  PROVE  /\ RegCount(v.type) = 1 => ToRegs(v, h)[1] = MbRaw(v, h)
         /\ RegCount(v.type) = 2 =>
              LET a == ToRegs(v, h)[1]  b == ToRegs(v, h)[2] IN
              (IF v.swap THEN b * WordBase + a ELSE a * WordBase + b) = MbRaw(v, h)
         /\ \A r \in RegsOf(v) : ToRegs(v, h)[r - v.reg + 1] \in Int
<1> DEFINE u == MbRaw(v, h)
           n == RegCount(v.type)
<1>1. ToRegs(v, h) = IF n = 2 THEN SetU32(v, u) ELSE <<u>>
  BY DEF ToRegs, MbRaw, MbStored, MbLow, MbHigh
<1>2. u \in Nat /\ n \in {1, 2} /\ v.reg \in Int
  BY MbStoredIs, TypeCases
<1>3. WordBase \in Nat \ {0}
  BY WordBaseIs
<1> HIDE DEF u
<1>4. High(u) \in Int /\ Low(u) \in Int /\ u = High(u) * WordBase + Low(u)
  BY <1>2, <1>3, Division DEF High, Low
<1>5. CASE n = 1
  <2>1. ToRegs(v, h)[1] = u
    BY <1>1, <1>5
  <2>2. \A r \in RegsOf(v) : r - v.reg + 1 = 1
    BY <1>2, <1>5, TypeCases
  <2> QED
    BY <1>2, <1>5, <2>1, <2>2 DEF u
<1>6. CASE n = 2
  <2>1. ToRegs(v, h) = IF v.swap THEN <<Low(u), High(u)>> ELSE <<High(u), Low(u)>>
    BY <1>1, <1>6 DEF SetU32
  <2>2. ToRegs(v, h)[1] \in Int /\ ToRegs(v, h)[2] \in Int
    BY <1>4, <2>1
  <2>3. \A r \in RegsOf(v) : r - v.reg + 1 \in {1, 2}
    BY <1>2, <1>6, TypeCases
  <2>4. CASE v.swap
    BY <1>4, <1>6, <2>1, <2>2, <2>3, <2>4 DEF u
  <2>5. CASE ~v.swap
    BY <1>4, <1>6, <2>1, <2>2, <2>3, <2>5 DEF u
  <2> QED
    BY <2>4, <2>5
<1> QED
  BY <1>2, <1>5, <1>6

\* The raw integer read is the one written.
LEMMA RawIsWritten ==
  ASSUME RegsShape, NEW i \in DOMAIN blk.vals, NEW h \in Int, InRegs(regs, valbuf, blk.vals[i], h),
         ~IsBit(blk.vals[i].type)
  PROVE  RawOf(blk.vals[i]) = MbRaw(blk.vals[i], h)
<1> DEFINE v == blk.vals[i]
<1>1. v \in MbValues /\ v.scale # 0 /\ v.reg \in Int
  BY BlockValues, TypeCases DEF RegsShape
<1> HIDE DEF v
<1>2. \A r \in RegsOf(v) : regs[r] = ToRegs(v, h)[r - v.reg + 1]
  BY <1>1, TypeCases DEF InRegs, v, IsBit
<1>3. v.reg - v.reg + 1 = 1 /\ (v.reg + 1) - v.reg + 1 = 2
  BY <1>1
<1>4. CASE RegCount(v.type) = 1
  <2>1. regs[v.reg] = ToRegs(v, h)[1]
    BY <1>1, <1>2, <1>3, <1>4, TypeCases
  <2> QED
    BY <1>1, <1>4, <2>1, ToRegsIs DEF RawOf, v
<1>5. CASE RegCount(v.type) = 2
  <2>1. regs[v.reg] = ToRegs(v, h)[1] /\ regs[v.reg + 1] = ToRegs(v, h)[2]
    BY <1>1, <1>2, <1>3, <1>5, TypeCases
  <2> QED
    BY <1>1, <1>5, <2>1, ToRegsIs DEF RawOf, GetU32, v
<1> QED
  BY <1>1, <1>4, <1>5, TypeCases

\* Nothing is written yet.
LEMMA RegsInitInv == RegistersInit => RegsInv
<1> SUFFICES ASSUME RegistersInit PROVE RegsInv
  OBVIOUS
<1>1. wrote = NoneYet /\ \A i \in DOMAIN blk.vals : wrote[i] = NoNumber
  BY DEF RegistersInit, NoneYet
<1>2. RegsShape
  BY <1>1 DEF RegistersInit, RegsShape, NoneYet
<1>3. RegsKept /\ WrittenReadsBack
  BY <1>1 DEF RegsKept, WrittenReadsBack
<1> QED
  BY <1>2, <1>3 DEF RegsInv

\* write_execute() keeps what the other values have been given.
LEMMA WriteRegsInv ==
  ASSUME RegsInv, NEW i \in DOMAIN blk.vals, NEW h \in MbNumbers, WriteValue(i, h)
  PROVE  RegsInv'
<1> DEFINE v == blk.vals[i]
<1>0. /\ h \in Int /\ blk' = blk /\ blk \in Blocks
      /\ regs \in [RegIdx -> Int] /\ valbuf \in [RegIdx -> Int]
      /\ wrote' = [wrote EXCEPT ![i] = h]
      /\ wrote \in [DOMAIN blk.vals -> MbNumbers \cup {NoNumber}]
  BY RegisterConstants DEF WriteValue, RegsInv, RegsShape
<1>1. \A j \in DOMAIN blk.vals : blk.vals[j] \in MbValues /\ blk.vals[j].scale # 0
  BY <1>0, BlockValues
<1>2. v.reg \in RegIdx /\ RegsOf(v) \subseteq RegIdx
  BY <1>0, BlockValues DEF RegIdx
<1>3. /\ regs' \in [RegIdx -> Int] /\ valbuf' \in [RegIdx -> Int]
      /\ InRegs(regs', valbuf', v, h)
      /\ \A r \in RegIdx \ RegsOf(v) : regs'[r] = regs[r] /\ valbuf'[r] = valbuf[r]
      /\ v.type = "bitmask" =>
           /\ regs'[v.reg] = valbuf'[v.reg]
           /\ \A n \in 0..(WordBits - 1) :
                n # v.bit => BitAt(valbuf'[v.reg], n) = BitAt(valbuf[v.reg], n)
  <2> HIDE DEF v
  <2>1. CASE v.type = "bitmask"
    <3> DEFINE w == valbuf[v.reg]
               on == h > 1
    <3>1. /\ valbuf' = [valbuf EXCEPT ![v.reg] = SetBit(w, v.bit, on)]
          /\ regs' = [regs EXCEPT ![v.reg] = valbuf'[v.reg]]
      BY <2>1 DEF WriteValue, v
    <3>2. v.bit \in 0..(WordBits - 1) /\ v.bit \in 0..WordBits /\ w \in Int /\ on \in BOOLEAN
      BY <1>0, <1>2, <2>1, BlockValues, RegisterConstants DEF v
    <3>3. WordBits \in Nat /\ PowerLaw(2, WordBits) /\ RegsOf(v) = {v.reg}
      BY <1>1, <2>1, RegisterConstants, RegisterPowers, TypeCases DEF v, IsBit
    <3>4. on = (h > 1)
      OBVIOUS
    <3> HIDE DEF w, on
    <3>5. SetBit(w, v.bit, on) \in Int /\ BitAt(SetBit(w, v.bit, on), v.bit) = IF on THEN 1 ELSE 0
      BY <3>2, <3>3, BitSet
    <3>6. ASSUME NEW n \in 0..(WordBits - 1), n # v.bit
          PROVE  BitAt(SetBit(w, v.bit, on), n) = BitAt(w, n)
      <4>1. n \in 0..WordBits
        BY <3>3
      <4> QED
        BY <4>1, <3>2, <3>3, <3>6, OtherBits
    <3>7. /\ valbuf'[v.reg] = SetBit(w, v.bit, on) /\ regs'[v.reg] = valbuf'[v.reg]
          /\ regs' \in [RegIdx -> Int] /\ valbuf' \in [RegIdx -> Int]
          /\ \A r \in RegIdx \ RegsOf(v) : regs'[r] = regs[r] /\ valbuf'[r] = valbuf[r]
      BY <1>0, <1>2, <3>1, <3>3, <3>5
    <3>8. InRegs(regs', valbuf', v, h)
      BY <2>1, <3>4, <3>5, <3>7 DEF InRegs
    <3> QED
      BY <3>6, <3>7, <3>8 DEF w
  <2>2. CASE v.type = "bit"
    <3>1. regs' = [regs EXCEPT ![v.reg] = IF h > 1 THEN 1 ELSE 0] /\ valbuf' = valbuf
      BY <2>2 DEF WriteValue, v
    <3>2. RegsOf(v) = {v.reg}
      BY <1>1, <2>2, TypeCases DEF v, IsBit
    <3> QED
      BY <1>0, <1>2, <2>2, <3>1, <3>2 DEF InRegs
  <2>3. CASE v.type # "bitmask" /\ v.type # "bit"
    <3>1. /\ regs' = [r \in RegIdx |->
               IF r \in RegsOf(v) THEN ToRegs(v, h)[r - v.reg + 1] ELSE regs[r]]
          /\ valbuf' = valbuf
      BY <2>3 DEF WriteValue, v
    <3>2. \A r \in RegsOf(v) : ToRegs(v, h)[r - v.reg + 1] \in Int
      BY <1>0, <1>1, ToRegsIs DEF v
    <3> QED
      BY <1>0, <1>2, <2>3, <3>1, <3>2 DEF InRegs
  <2> QED
    BY <2>1, <2>2, <2>3
<1>4. RegsShape'
  BY <1>0, <1>3 DEF RegsShape, RegIdx
<1>5. RegsKept'
  <2> SUFFICES ASSUME NEW j \in DOMAIN blk.vals, wrote'[j] # NoNumber
               PROVE  InRegs(regs', valbuf', blk.vals[j], wrote'[j])
    BY <1>0 DEF RegsKept
  <2>1. CASE j = i
    BY <1>0, <1>3, <2>1
  <2>2. CASE j # i
    <3> DEFINE w == blk.vals[j]
               g == wrote[j]
    <3>1. wrote'[j] = g
      BY <1>0, <2>2
    <3>2. InRegs(regs, valbuf, w, g)
      BY <3>1 DEF RegsInv, RegsKept
    <3>3. RegsOf(w) \subseteq RegIdx /\ w.reg \in RegsOf(w) /\ v.reg \in RegsOf(v)
      <4>1. RegsOf(w) \subseteq RegIdx
        BY <1>0, BlockValues DEF RegIdx
      <4> QED
        BY <4>1, <1>1, TypeCases
    <3>4. RegsOf(v) \cap RegsOf(w) # {} =>
            v.type = "bitmask" /\ w.type = "bitmask" /\ v.bit # w.bit
      BY <1>0, <2>2, BlockValues
    <3>5. w.type = "bitmask" => w.bit \in 0..(WordBits - 1)
      BY <1>0, BlockValues
    <3>6. w \in MbValues /\ v \in MbValues
      BY <1>1
    <3> HIDE DEF v, w, g
    <3>7. CASE RegsOf(v) \cap RegsOf(w) = {}
      <4>1. \A r \in RegsOf(w) : regs'[r] = regs[r] /\ valbuf'[r] = valbuf[r]
        BY <1>3, <3>3, <3>7
      <4>2. regs'[w.reg] = regs[w.reg] /\ valbuf'[w.reg] = valbuf[w.reg]
        BY <4>1, <3>3
      <4>3. InRegs(regs', valbuf', w, g)
        BY <3>2, <4>1, <4>2 DEF InRegs
      <4> QED
        BY <3>1, <4>3 DEF w
    <3>8. CASE RegsOf(v) \cap RegsOf(w) # {}
      <4>1. v.type = "bitmask" /\ w.type = "bitmask" /\ v.bit # w.bit
        BY <3>4, <3>8
      <4>2. v.reg = w.reg
        <5>1. RegsOf(v) = {v.reg} /\ RegsOf(w) = {w.reg}
          BY <4>1, <3>6, TypeCases DEF IsBit
        <5> QED
          BY <5>1, <3>8
      <4>3. /\ regs'[w.reg] = valbuf'[w.reg]
            /\ BitAt(valbuf'[w.reg], w.bit) = BitAt(valbuf[w.reg], w.bit)
        BY <1>3, <3>5, <4>1, <4>2
      <4>4. InRegs(regs', valbuf', w, g)
        BY <3>2, <4>1, <4>3 DEF InRegs
      <4> QED
        BY <3>1, <4>4 DEF w
    <3> QED
      BY <3>7, <3>8
  <2> QED
    BY <2>1, <2>2
<1>6. WrittenReadsBack'
  <2>1. \A j \in DOMAIN blk'.vals : disp'[j] = NoNumber
    BY <1>0 DEF WriteValue, NoneYet
  <2> QED
    BY <2>1 DEF WrittenReadsBack
<1> QED
  BY <1>4, <1>5, <1>6 DEF RegsInv

\* The registers the device sets hold no outputs.
LEMMA DeviceRegsInv ==
  ASSUME RegsInv, NEW r \in RegIdx, NEW w \in 0..(WordBase - 1), DeviceSets(r, w)
  PROVE  RegsInv'
<1>0. /\ blk' = blk /\ blk \in Blocks /\ valbuf' = valbuf /\ wrote' = wrote
      /\ regs \in [RegIdx -> Int] /\ regs' = [regs EXCEPT ![r] = w]
      /\ r \in {blk.sf, blk.expect_reg} /\ w \in Int
  BY WordBaseIs DEF DeviceSets, RegsInv, RegsShape
<1>1. RegsShape'
  BY <1>0 DEF RegsInv, RegsShape, RegIdx
<1>2. RegsKept'
  <2> SUFFICES ASSUME NEW j \in DOMAIN blk.vals, wrote[j] # NoNumber
               PROVE  InRegs(regs', valbuf, blk.vals[j], wrote[j])
    BY <1>0 DEF RegsKept
  <2> DEFINE v == blk.vals[j]
  <2>1. InRegs(regs, valbuf, v, wrote[j])
    BY DEF RegsInv, RegsKept
  <2>2. v.reg \in RegsOf(v) /\ RegsOf(v) \subseteq RegIdx /\ r \notin RegsOf(v)
    <3>1. /\ v \in MbValues /\ RegsOf(v) \subseteq RegIdx
          /\ blk.sf \notin RegsOf(v) /\ blk.expect_reg \notin RegsOf(v)
      BY <1>0, BlockValues DEF RegIdx
    <3> QED
      BY <1>0, <3>1, TypeCases
  <2> HIDE DEF v
  <2>3. \A q \in RegsOf(v) : regs'[q] = regs[q]
    BY <1>0, <2>2
  <2>4. regs'[v.reg] = regs[v.reg]
    BY <2>2, <2>3
  <2>5. InRegs(regs', valbuf, v, wrote[j])
    BY <2>1, <2>3, <2>4 DEF InRegs
  <2> QED
    BY <2>5 DEF v
<1>3. WrittenReadsBack'
  <2>1. \A j \in DOMAIN blk'.vals : disp'[j] = NoNumber
    BY <1>0 DEF DeviceSets, NoneYet
  <2> QED
    BY <2>1 DEF WrittenReadsBack
<1> QED
  BY <1>1, <1>2, <1>3 DEF RegsInv

\* What WrittenReadsBack says of one value and one answer d of a read.
Answer(v, h, d) ==
  IF d # {}
  THEN \E x \in -WordBase^2..WordBase^2 :
         /\ Holds(v, h, x)
         /\ d = {IF IsBit(v.type) THEN Unit * x ELSE Scaled(v, x)}
         /\ IsBit(v.type) \/ Finite(v, x)
         /\ blk.sunspec_na => (IsBit(v.type) \/ ~Reserved(v, x))
  ELSE \/ ~Expected
       \/ /\ blk.sunspec_na
          /\ \/ v.by_sf /\ SfIsNa
             \/ v.type = "bitmask" /\ regs[v.reg] = WordBase - 1
             \/ \E x \in -WordBase^2..WordBase^2 :
                  ~IsBit(v.type) /\ Holds(v, h, x) /\ Reserved(v, x)
       \/ \E x \in -WordBase^2..WordBase^2 :
            ~IsBit(v.type) /\ Holds(v, h, x) /\ ~Finite(v, x)

\* What read_block_registers() makes of a value that was written.
LEMMA AnswerIs ==
  ASSUME RegsShape, NEW i \in DOMAIN blk.vals, NEW h \in Int,
         InRegs(regs, valbuf, blk.vals[i], h)
  PROVE  Answer(blk.vals[i], h,
                IF ~Expected \/ (blk.sunspec_na /\ IsNa(blk.vals[i])) THEN {}
                ELSE DispatchValue(blk.vals[i]))
<1> DEFINE v == blk.vals[i]
           n == RegCount(v.type)
           missing == ~Expected \/ (blk.sunspec_na /\ IsNa(v))
<1>0. /\ v \in MbValues /\ v.scale # 0 /\ v.scale \in Int /\ v.offset \in Int
      /\ v.type = "bitmask" => v.bit \in 0..(WordBits - 1)
      /\ v.by_sf => ~IsBit(v.type)
      /\ blk.sunspec_na => v.type # "bit"
  BY BlockValues DEF RegsShape, MbValues
<1>1. CASE IsBit(v.type)
  <2> DEFINE x == IF h > 1 THEN 1 ELSE 0
  <2>1. x \in -WordBase^2..WordBase^2 /\ Holds(v, h, x)
    <3>1. WordBase^2 \in Nat /\ WordBase^2 >= 2
      BY WordBaseIs
    <3>2. x \in {0, 1}
      OBVIOUS
    <3>3. x \in -WordBase^2..WordBase^2
      BY <3>1, <3>2
    <3> QED
      BY <1>1, <3>3 DEF Holds
  <2>2. n = 1 /\ ~IsSigned(v.type) /\ v.type \in {"bit", "bitmask"}
    BY <1>0, <1>1, TypeCases
  <2>3. DispatchValue(v) = {Unit * x}
    <3>1. CASE v.type = "bit"
      BY <3>1 DEF DispatchValue, InRegs
    <3>2. CASE v.type = "bitmask"
      BY <3>2 DEF DispatchValue, InRegs
    <3> QED
      BY <2>2, <3>1, <3>2
  <2>4. CASE missing
    <3>1. IsNa(v) => regs[v.reg] = WordBase^1 - 1
      BY <1>0, <1>1, <2>2 DEF IsNa, RawOf
    <3>2. IsNa(v) => regs[v.reg] = WordBase - 1
      BY <3>1, WordBaseIs
    <3> QED
      BY <1>0, <2>2, <2>4, <3>2 DEF Answer
  <2>5. CASE ~missing
    <3> HIDE DEF x
    <3> QED
      BY <1>1, <2>1, <2>3, <2>5 DEF Answer
  <2> QED
    BY <2>4, <2>5
<1>2. CASE ~IsBit(v.type)
  <2> DEFINE x == MbStored(v, h)
             mark == IF IsSigned(v.type) THEN WordBase^n \div 2 ELSE WordBase^n - 1
  <2>1. RawOf(v) = MbRaw(v, h)
    BY <1>2, RawIsWritten
  <2>2. /\ IsNearest(x, h, v.scale, v.offset, MbLow(v), MbHigh(v))
        /\ x \in -WordBase^2..WordBase^2
        /\ IsSigned(v.type) => Signed(MbRaw(v, h), WordBase, n) = x
        /\ ~IsSigned(v.type) => MbRaw(v, h) = x
        /\ Reserved(v, x) <=> MbRaw(v, h) = mark
    BY <1>0, MbStoredIs
  <2> HIDE DEF x
  <2>3. Holds(v, h, x)
    BY <1>2, <2>2 DEF Holds, MbLow, MbHigh
  <2>4. v.type # "bit" /\ v.type # "bitmask"
    BY <1>2 DEF IsBit
  <2>5. DispatchValue(v) = IF Finite(v, x) THEN {Scaled(v, x)} ELSE {}
    BY <2>1, <2>2, <2>4 DEF DispatchValue
  <2>6. IsNa(v) <=> (Reserved(v, x) \/ (v.by_sf /\ SfIsNa))
    BY <2>1, <2>2 DEF IsNa
  <2>7. CASE missing
    BY <1>2, <2>2, <2>3, <2>6, <2>7 DEF Answer
  <2>8. CASE ~missing
    <3>1. blk.sunspec_na => ~Reserved(v, x)
      BY <2>6, <2>8
    <3>2. CASE Finite(v, x)
      BY <1>2, <2>2, <2>3, <2>5, <2>8, <3>1, <3>2 DEF Answer
    <3>3. CASE ~Finite(v, x)
      BY <1>2, <2>2, <2>3, <2>5, <2>8, <3>3 DEF Answer
    <3> QED
      BY <3>2, <3>3
  <2> QED
    BY <2>7, <2>8
<1> QED
  BY <1>1, <1>2

\* A read changes only what is dispatched.
LEMMA ReadRegsInv ==
  ASSUME RegsInv, ReadBlock
  PROVE  RegsInv'
<1>0. blk' = blk /\ regs' = regs /\ valbuf' = valbuf /\ wrote' = wrote
  BY DEF ReadBlock
<1>1. RegsShape' /\ RegsKept'
  BY <1>0 DEF RegsInv, RegsShape, RegsKept, RegIdx
<1>2. WrittenReadsBack'
  <2> SUFFICES ASSUME NEW i \in DOMAIN blk.vals, wrote[i] # NoNumber
               PROVE  Answer(blk.vals[i], wrote[i], disp'[i])
    BY <1>0 DEF WrittenReadsBack, Answer, Scaled, Finite, ScaleFactor, Exponent,
       Expected, SfIsNa
  <2>1. wrote[i] \in Int
    BY RegisterConstants DEF RegsInv, RegsShape
  <2>2. disp'[i] = IF ~Expected \/ (blk.sunspec_na /\ IsNa(blk.vals[i])) THEN {}
                   ELSE DispatchValue(blk.vals[i])
    BY DEF ReadBlock
  <2>3. RegsShape /\ InRegs(regs, valbuf, blk.vals[i], wrote[i])
    BY DEF RegsInv, RegsKept
  <2> QED
    BY <2>1, <2>2, <2>3, AnswerIs
<1> QED
  BY <1>1, <1>2 DEF RegsInv

\* write_execute() and read_block_registers(), for every sensible block, all numbers
\* and any size of registers: what is dispatched for a value is the number its type can
\* hold that is closest to the one written last, and a number is missing only for the
\* reasons WrittenReadsBack names.
THEOREM WrittenIsRead == RegistersSpec => []WrittenReadsBack
<1>1. RegistersInit => RegsInv
  BY RegsInitInv
<1>2. RegsInv /\ [RegistersNext]_mbRegVars => RegsInv'
  <2> SUFFICES ASSUME RegsInv, [RegistersNext]_mbRegVars PROVE RegsInv'
    OBVIOUS
  <2>1. CASE RegistersNext
    BY <2>1, WriteRegsInv, DeviceRegsInv, ReadRegsInv DEF RegistersNext
  <2>2. CASE UNCHANGED mbRegVars
    BY <2>2 DEF mbRegVars, RegsInv, RegsShape, RegsKept, RegIdx, WrittenReadsBack, Scaled,
       Finite, ScaleFactor, Exponent, Expected, SfIsNa
  <2> QED
    BY <2>1, <2>2
<1>3. RegsInv => WrittenReadsBack
  BY DEF RegsInv
<1> QED
  BY <1>1, <1>2, <1>3, PTL DEF RegistersSpec
=============================================================================
