---------------------------- MODULE SunspecImage ----------------------------
(***************************************************************************)
(* The register image of a SunSpec meter of sunspec.c, rebuilt for every   *)
(* request: update_image() reads the sources one by one while they change, *)
(* and handle_client() answers from the mapping, which is kept from one    *)
(* request to the next.                                                    *)
(*                                                                         *)
(* A meter has phase powers and perhaps a total power; the other           *)
(* quantities are read and put in the same way.                            *)
(***************************************************************************)
EXTENDS Integers, Sequences, Functions

CONSTANTS
  NumPhases,      \* phases with a power source
  HasTotal,       \* the total power has a source of its own
  Powers,         \* valid values of a source
  Invalid         \* the source has no valid value

PhaseIds == 1..NumPhases
NumSrcs  == NumPhases + (IF HasTotal THEN 1 ELSE 0)
Srcs     == 1..NumSrcs              \* in the order they are read
Readings == Powers \cup {Invalid}

ASSUME ImageConstants ==
  /\ NumPhases \in Nat \ {0} /\ HasTotal \in BOOLEAN
  /\ Powers \subseteq Int /\ Invalid \notin Powers

(***************************************************************************)
(* The registers of the image in the order update_image() puts them, with  *)
(* their number: SunSpec marker, common model, meter model, end model.     *)
(***************************************************************************)
COMMON_LEN == 65
METER_LEN  == 124
MAP_REGS   == 197

PutStr(len) == len \div 2
PutF32      == 2
PutAll      == PutF32 + 3 * PutF32

Marker      == <<PutStr(4)>>
CommonModel == <<1, 1, PutStr(32), PutStr(32), PutStr(16), PutStr(16), PutStr(32), 1>>
MeterModel  == <<1, 1, PutAll, PutAll, PutAll, PutF32, PutAll, PutAll, PutAll,
                 PutAll, PutAll, PutAll, 6 * 4 * PutF32, 2>>
EndModel    == <<1, 1>>

\* The lengths the models announce are the ones a client steps over, and the
\* image fills the mapping to the last register.
ASSUME ImageFillsMapping ==
  /\ SumFunction(CommonModel) = 2 + COMMON_LEN
  /\ SumFunction(MeterModel) = 2 + METER_LEN
  /\ SumFunction(Marker \o CommonModel \o MeterModel \o EndModel) = MAP_REGS

-----------------------------------------------------------------------------
VARIABLES
  source,       \* source -> what its dispatcher holds
  got,          \* what update_image() has read for this request, in order
  mapping,      \* the registers: total (index 0) and phases
  answering,    \* "idle", "image", or the answer: "data", "exception"
  seen          \* history: source -> valid values it had since the request

imageVars == <<source, got, mapping, answering, seen>>

NothingSeen == [s \in Srcs |-> {}]

ImageInit ==
  /\ source = [s \in Srcs |-> Invalid]
  /\ got = <<>>
  /\ mapping = [r \in {0} \cup PhaseIds |-> 0]
  /\ answering = "idle"
  /\ seen = NothingSeen

\* A source is dispatched or becomes stale, at any time.
SetSource(s, v) ==
  /\ source[s] # v
  /\ source' = [source EXCEPT ![s] = v]
  /\ seen' = IF answering = "image" THEN [seen EXCEPT ![s] = @ \cup ({v} \cap Powers)]
             ELSE seen
  /\ UNCHANGED <<got, mapping, answering>>

\* handle_client() has received a request for the registers of the meter.
ImageRequest ==
  /\ answering = "idle"
  /\ answering' = "image"
  /\ seen' = [s \in Srcs |-> {source[s]} \cap Powers]
  /\ UNCHANGED <<source, got, mapping>>

\* src_get(): the next source, also after an invalid one.
SrcGet ==
  /\ answering = "image" /\ Len(got) < NumSrcs
  /\ got' = Append(got, source[Len(got) + 1])
  /\ UNCHANGED <<source, mapping, answering, seen>>

\* The powers of the phases in what is read or served.
PhasesOf(f) == [p \in PhaseIds |-> f[p]]

\* An explicitly given total overrides the sum of the phases.
Total == IF HasTotal THEN got[NumSrcs] ELSE SumFunction(PhasesOf(got))

Registers == [r \in {0} \cup PhaseIds |-> IF r = 0 THEN Total ELSE got[r]]

\* Mutant: an invalid source leaves the image as it is, and it is served.
UpdateImageStale ==
  /\ answering = "image" /\ Len(got) = NumSrcs
  /\ answering' = "data"
  /\ mapping' = IF \E s \in Srcs : got[s] = Invalid THEN mapping ELSE Registers
  /\ got' = <<>>
  /\ UNCHANGED <<source, seen>>

\* The rest of update_image(): the registers are put, or -1 is returned if a
\* source is invalid; handle_client() answers with data or an exception.
UpdateImage ==
  /\ answering = "image" /\ Len(got) = NumSrcs
  /\ IF \E s \in Srcs : got[s] = Invalid
     THEN answering' = "exception" /\ UNCHANGED mapping
     ELSE answering' = "data" /\ mapping' = Registers
  /\ got' = <<>>
  /\ UNCHANGED <<source, seen>>

\* The answer is on its way.
Answered ==
  /\ answering \in {"data", "exception"}
  /\ answering' = "idle"
  /\ seen' = NothingSeen
  /\ UNCHANGED <<source, got, mapping>>

ImageNext ==
  \/ \E s \in Srcs, v \in Readings : SetSource(s, v)
  \/ ImageRequest \/ SrcGet \/ UpdateImage \/ Answered

ImageSpec == ImageInit /\ [][ImageNext]_imageVars

-----------------------------------------------------------------------------
\* update_image() and handle_client(): every register of a data answer holds
\* a number its source really had, validly, since the request came in, and
\* the total fits the phases served beside it unless it has a source of its
\* own.  What an earlier request left in the mapping is never served.
AnswerIsCurrent ==
  answering = "data" =>
    /\ \A p \in PhaseIds : mapping[p] \in seen[p]
    /\ IF HasTotal THEN mapping[0] \in seen[NumSrcs]
       ELSE mapping[0] = SumFunction(PhasesOf(mapping))
=============================================================================
