---------------------------- MODULE ExtrinsicEra ----------------------------
(***************************************************************************)
(* The era of a transaction (lib/types/extrinsic/ExtrinsicEra.dart): for   *)
(* how many blocks it is valid, and since which.  The signer makes it of a *)
(* block and a period; two bytes of it travel, whoever reads them makes an *)
(* era of them, and blocks go by.  A behaviour is one transaction.         *)
(***************************************************************************)
EXTENDS Naturals, FiniteSetsExt

CONSTANTS
  Heights,  \* block numbers at which something happens (bounds the run)
  Periods,  \* periods that signers ask for
  Others,   \* bytes that are read of transactions of others
  Asserts   \* is the program built with its asserts?

ASSUME EraAssumption == /\ Heights \subseteq Nat /\ 0 \in Heights
                        /\ Periods \subseteq Nat \ {0}
                        /\ Others \subseteq (0 .. 255) \X (0 .. 255)
                        /\ Asserts \in BOOLEAN

VARIABLES
  height,    \* the current block
  era,       \* the signer's era
  made,      \* the block it was made at
  asked,     \* the period the signer asked for, 0 when nobody did
  wire,      \* the bytes of it that were read
  received   \* the era that was read

vars == << height, era, made, asked, wire, received >>

Immortal == [period |-> 0, phase |-> 0]

PeriodsInUse == {2 ^ k : k \in 2 .. 16}
Phases == 0 .. 2 ^ 16 - 1
Eras == {Immortal} \cup [period : PeriodsInUse, phase : Phases]

(* The reader takes a period of 2, which nobody signs for, where asserts    *)
(* are not checked.                                                        *)
ErasRead == IF Asserts THEN Eras ELSE Eras \cup [period : {2}, phase : Phases]

TypeOK ==
  /\ height \in Heights /\ made \in Heights /\ asked \in Periods \cup {0}
  /\ era \in Eras /\ received \in ErasRead
  /\ wire \in {<< >>, << 0 >>} \cup ((1 .. 255) \X (0 .. 255))

Init ==
  /\ height \in Heights /\ made = height
  /\ era = Immortal /\ asked = 0
  /\ wire = << >> /\ received = Immortal
-----------------------------------------------------------------------------
(* Names that end in Slip are what a slip in the code would make of the    *)
(* definition after them; no specification uses one.                       *)

UnclampedSlip(asks) == Min({2 ^ k : k \in {j \in 2 .. 20 : 2 ^ j >= asks}})
FloorSlip(asks)     == Max({p \in PeriodsInUse : p <= Max({asks, 4})})
PeriodFor(asks) ==
  IF asks > 65536 THEN 65536 ELSE Min({p \in PeriodsInUse : p >= asks})

(* _decodeMortalObject.  phase / quantizeFactor * quantizeFactor divides   *)
(* doubles: the phase comes out as it went in.                             *)
FromBlock(current, asks) ==
  [period |-> PeriodFor(asks), phase |-> current % PeriodFor(asks)]

Quantum(period) == Max({period \div 4096, 1})

TrailingZeros(period) == CHOOSE k \in 0 .. 16 : 2 ^ k = period

ExponentSlip(period) == Min({15, TrailingZeros(period) - 2})
Exponent(period) == Min({15, Max({1, TrailingZeros(period) - 1})})

(* toU8a: the exponent and the phase in sixteen bits, low byte first.      *)
UnscaledSlip(e) == << (Exponent(e.period) + e.phase * 16) % 256,
                      ((Exponent(e.period) + e.phase * 16) \div 256) % 256 >>
ToBytes(e) ==
  LET encoded == Exponent(e.period) + (e.phase \div Quantum(e.period)) * 16
  IN  << encoded % 256, (encoded \div 256) % 256 >>

(* _decodeMortalU8a *)
FromMortalBytes(b) ==
  LET encoded == b[1] + 256 * b[2]
      period  == 2 * 2 ^ (encoded % 16)
  IN  [period |-> period, phase |-> (encoded \div 16) * Quantum(period)]

UncheckedSlip(e) == TRUE
Valid(e) == Asserts => e.period >= 4 /\ e.phase < e.period

(* _decodeExtrinsicEra tells the two kinds of era by the first byte.       *)
Encoded(e)  == IF e = Immortal THEN << 0 >> ELSE ToBytes(e)
Decoded(b) == IF b[1] = 0 THEN Immortal ELSE FromMortalBytes(b)
-----------------------------------------------------------------------------
Fresh == asked = 0 /\ wire = << >>

Sign(asks) ==
  /\ Fresh
  /\ era' = FromBlock(height, asks)
  /\ made' = height /\ asked' = asks
  /\ UNCHANGED << height, wire, received >>

SignImmortal ==
  /\ Fresh
  /\ era' = Immortal
  /\ made' = height
  /\ UNCHANGED << height, asked, wire, received >>

(* An era that is not valid is an exception to its reader.                 *)
Read(b) ==
  /\ b[1] # 0 => Valid(FromMortalBytes(b))
  /\ wire' = IF b[1] = 0 THEN << 0 >> ELSE b
  /\ received' = Decoded(b)
  /\ UNCHANGED height

ReadSigned == wire = << >> /\ Read(Encoded(era)) /\ UNCHANGED << era, made, asked >>

(* The transaction of somebody else: who knows what they asked for.        *)
ReadOther(b) == Fresh /\ Read(b) /\ made' = height /\ UNCHANGED << era, asked >>

NextBlocks == /\ height' \in {h \in Heights : h > height}
              /\ UNCHANGED << era, made, asked, wire, received >>

Next ==
  \/ SignImmortal \/ ReadSigned \/ NextBlocks
  \/ \E asks \in Periods : Sign(asks)
  \/ \E b \in Others : ReadOther(b)

Spec == Init /\ [][Next]_vars
-----------------------------------------------------------------------------
(* birth and death: the first block of the era that current is in, and the *)
(* first block that is no longer in it.                                    *)
NoPhaseSlip(e, current) ==
  ((Max({current, e.phase}) - e.phase) \div e.period) * e.period
Birth(e, current) ==
  ((Max({current, e.phase}) - e.phase) \div e.period) * e.period + e.phase

Death(e, current) == Birth(e, current) + e.period

Mortal == received # Immortal
FromSigner == asked > 0 /\ wire # << >>

(* Properties.                                                             *)

(* Two bytes never turn a mortal transaction into an immortal one, nor one *)
(* that lives for another time (ExtrinsicEra.dart:159-170, 229-231).       *)
MortalStaysMortal == FromSigner => received.period = era.period

(* "The phase in the period that this transaction's lifetime begins (and,   *)
(* importantly, implies which block hash is included in the signature       *)
(* material)" (ExtrinsicEra.dart:153-156): to the signer the era begins at  *)
(* the block it was made at, to the reader at the last one before it that   *)
(* is a multiple of the quantum.  So they name the same block just when     *)
(* that one is: always for periods up to 4096, seldom for longer ones,      *)
(* since :92 quantizes nothing.                                             *)
SameStart ==
  FromSigner =>
    /\ Birth(era, made) = made
    /\ Birth(received, made) = made - (made % Quantum(era.period))

(* At every later block, whether the reader still finds the transaction in  *)
(* the era it was signed for is decided by the period asked for: alive for  *)
(* that long less the quantum, dead after twice as long, the powers of two   *)
(* between (ExtrinsicEra.dart:86-88, 175-190).                              *)
InItsEra == Birth(received, height) = Birth(received, made)

LivesAsAsked ==
  FromSigner =>
    /\ height - made + Quantum(received.period) <= asked /\ asked <= 65536 => InItsEra
    /\ height - made >= 2 * Max({asked, 4}) => ~InItsEra

(* Eras follow on each other: one is over exactly when the next is born.    *)
NextEra ==
  Mortal =>
    LET death == Death(received, height)
    IN  /\ height < death /\ Birth(received, death) = death
        /\ Birth(received, death - 1) = Birth(received, height)

(* What is accepted from others is encoded again as it came: nothing else   *)
(* is signed or shown (ExtrinsicEra.dart:110, 159-170).                     *)
Canonical == wire # << >> => Encoded(received) = wire
=============================================================================
