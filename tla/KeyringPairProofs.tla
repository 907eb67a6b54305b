-------------------------- MODULE KeyringPairProofs --------------------------
(***************************************************************************)
(* Proofs about KeyringPair.tla, for any keys, passphrases and calls.      *)
(***************************************************************************)
EXTENDS KeyringPair, TLAPS

(* What is stored and the types it is read with belong together, but for   *)
(* the case that Recoverable leaves out.                                   *)
Fits(data, types) == ((data.pass = NULL) <=> (types = "none")) \/ Misread(data, types)

CallRecord == [at : CallStates, op : Ops, pass : Passphrases \cup {NULL},
               data : Encodings \cup {NULL}, types : EncTypes]

Matched(data) == data.sec \in {Empty, data.pub}

(* A call reads what is stored together with its types, and what it reads  *)
(* and what it encodes has halves that belong together.                    *)
CallInv(c) ==
  /\ call[c].at = "decoding" /\ call[c].data # NULL =>
       call[c].data \in Given \/ (Fits(call[c].data, call[c].types) /\ Matched(call[c].data))
  /\ call[c].at = "encoding" => call[c].data # NULL /\ Matched(call[c].data)

Inv ==
  /\ TypeOK
  /\ sec \in {Empty, pub}
  /\ encoded # NULL => Matched(encoded) /\ Fits(encoded, encTypes)
  /\ \A c \in Calls : CallInv(c)

LEMMA InitInv == Init => Inv
<1> SUFFICES ASSUME Init PROVE Inv
  OBVIOUS
<1>1. CASE encoded = NULL /\ encTypes = NULL /\ sec \in {OwnKey, Empty}
  BY <1>1, KeyringAssumption DEF Init, Inv, TypeOK, CallInv, Idle, CallStates, Ops, EncTypes
<1>2. ASSUME sec = Empty, NEW p \in Passphrases \cup {NULL},
             NEW seed \in BOOLEAN,
             encoded = [sec |-> OwnKey, pub |-> OwnKey, seed |-> seed, pass |-> p],
             encTypes = IF p = NULL THEN "none" ELSE "ENCODING"
      PROVE  Inv
  <2>1. encoded \in Encodings /\ encoded.pass = p /\ encoded.sec = OwnKey /\ encoded.pub = OwnKey
    BY <1>2, KeyringAssumption DEF Encodings
  <2>2. Fits(encoded, encTypes) /\ encTypes \in EncTypes
    BY <1>2, <2>1 DEF Fits, EncTypes
  <2>3. call \in [Calls -> CallRecord] /\ \A c \in Calls : call[c].at = "idle"
    BY DEF Init, Idle, CallRecord, CallStates, Ops, EncTypes
  <2>4. TypeOK
    BY <1>2, <2>1, <2>2, <2>3, KeyringAssumption DEF Init, TypeOK, CallRecord
  <2> QED
    BY <1>2, <2>1, <2>2, <2>3, <2>4 DEF Init, Inv, CallInv, Matched
<1> QED
  BY <1>1, <1>2 DEF Init

(* What is left to show of a step of call c.                               *)
LEMMA OneMoves ==
  ASSUME Inv, NEW c \in Calls, NEW e \in CallRecord, call' = [call EXCEPT ![c] = e],
         e.at = "decoding" /\ e.data # NULL => e.data \in Given \/ (Fits(e.data, e.types) /\ Matched(e.data)),
         e.at = "encoding" => e.data # NULL /\ Matched(e.data)
  PROVE  call' \in [Calls -> CallRecord] /\ \A d \in Calls : CallInv(d)'
<1>1. call' \in [Calls -> CallRecord] /\ call'[c] = e
  BY DEF Inv, TypeOK, CallRecord
<1>2. \A d \in Calls \ {c} : call'[d] = call[d]
  BY DEF Inv, TypeOK
<1>3. CallInv(c)'
  BY <1>1 DEF CallInv
<1>4. ASSUME NEW d \in Calls \ {c} PROVE CallInv(d)'
  BY <1>2 DEF Inv, CallInv
<1> QED
  BY <1>1, <1>3, <1>4

LEMMA StartsDecoding ==
  ASSUME Inv, NEW c \in Calls, NEW op \in Ops, NEW pass \in Passphrases \cup {NULL},
         NEW data \in Given \cup {encoded}, StartDecode(c, op, pass, data),
         UNCHANGED << pub, sec, encoded, encTypes >>
  PROVE  Inv'
<1> DEFINE e == [at |-> "decoding", op |-> op, pass |-> pass, data |-> data, types |-> encTypes]
<1>1. call' = [call EXCEPT ![c] = e]
  BY DEF StartDecode
<1>2. e \in CallRecord
  BY KeyringAssumption DEF Inv, TypeOK, CallRecord, CallStates
<1>3. data # NULL => data \in Given \/ (Fits(data, encTypes) /\ Matched(data))
  BY DEF Inv
<1>4. call' \in [Calls -> CallRecord] /\ \A d \in Calls : CallInv(d)'
  BY <1>1, <1>2, <1>3, OneMoves
<1> QED
  BY <1>4 DEF Inv, TypeOK, CallRecord

(* What encodePair is handed is a call's work if the halves match.          *)
LEMMA EncodingFits ==
  ASSUME NEW secret \in Keys \cup {Empty}, NEW public \in Keys, secret \in {Empty, public},
         NEW pass \in Passphrases \cup {NULL}
  PROVE  LET e == Encoding(secret, public, pass)
         IN  /\ e \in CallRecord /\ e.at = "encoding"
             /\ e.data # NULL /\ Matched(e.data)
<1> DEFINE data == [sec |-> secret, pub |-> public, seed |-> OfSeeds, pass |-> pass]
<1>1. data \in Encodings /\ data # NULL /\ Matched(data)
  BY KeyringAssumption DEF Encodings, Matched
<1>2. Encoding(secret, public, pass) =
        [at |-> "encoding", op |-> "recode", pass |-> pass, types |-> NULL, data |-> data]
  BY DEF Encoding
<1> HIDE DEF data
<1> QED
  BY <1>1, <1>2 DEF CallRecord, CallStates, Ops, EncTypes

-----------------------------------------------------------------------------
LEMMA DecodePkcs8Keeps == ASSUME Inv, NEW c \in Calls, DecodePkcs8(c) PROVE Inv'
<1>1. PICK pass \in Passphrases \cup {NULL}, data \in Given \cup {encoded} :
        StartDecode(c, "decodePkcs8", pass, data)
  BY DEF DecodePkcs8
<1>2. UNCHANGED << pub, sec, encoded, encTypes >> /\ "decodePkcs8" \in Ops
  BY DEF DecodePkcs8, Ops
<1> QED
  BY <1>1, <1>2, StartsDecoding

LEMMA RecodeKeeps == ASSUME Inv, NEW c \in Calls, Recode(c) PROVE Inv'
<1>1. PICK pass \in Passphrases :
        IF NeedsDecoding THEN StartDecode(c, "recode", pass, encoded)
                         ELSE call' = [call EXCEPT ![c] = Encoding(sec, pub, pass)]
  BY DEF Recode
<1>2. UNCHANGED << pub, sec, encoded, encTypes >> /\ "recode" \in Ops
  BY DEF Recode, Ops
<1>3. CASE NeedsDecoding
  BY <1>1, <1>2, <1>3, StartsDecoding
<1>4. CASE ~NeedsDecoding
  <2> DEFINE e == Encoding(sec, pub, pass)
  <2>1. call' = [call EXCEPT ![c] = e]
    BY <1>1, <1>4
  <2>2. e \in CallRecord /\ e.at = "encoding" /\ e.data # NULL /\ Matched(e.data)
    BY EncodingFits DEF Inv, TypeOK
  <2> HIDE DEF e
  <2>3. call' \in [Calls -> CallRecord] /\ \A d \in Calls : CallInv(d)'
    BY <2>1, <2>2, OneMoves
  <2> QED
    BY <1>2, <2>3 DEF Inv, TypeOK, CallRecord
<1> QED
  BY <1>3, <1>4

(* A call ends.                                                            *)
LEMMA Ends ==
  ASSUME Inv, NEW c \in Calls, NEW at \in {"done", "failed"},
         call' = [call EXCEPT ![c].at = at]
  PROVE  call' \in [Calls -> CallRecord] /\ \A d \in Calls : CallInv(d)'
<1> DEFINE e == [call[c] EXCEPT !.at = at]
<1>1. e \in CallRecord /\ e.at = at
  BY DEF Inv, TypeOK, CallRecord, CallStates
<1>2. e.at \notin {"decoding", "encoding"}
  BY <1>1
<1> QED
  BY <1>1, <1>2, OneMoves

(* A key that decodePair finds has the public half that is taken with it:   *)
(* content of 64 bytes has both, for a seed both are made.                  *)
LEMMA TakenMatch ==
  ASSUME Inv, NEW c \in Calls, call[c].at = "decoding",
         Decodes(call[c].data, call[c].types, call[c].pass)
  PROVE  call[c].data.sec \in Keys /\ PublicOf(call[c].data) = call[c].data.sec
<1> DEFINE data == call[c].data
<1>1. data \in Encodings /\ data.sec # Empty /\ data # NULL
  BY DEF Decodes, Inv, TypeOK
<1>2. data.sec \in Keys
  BY <1>1 DEF Encodings
<1>3. data.seed \/ data.sec = data.pub
  <2>1. CASE data \in Given
    <3>1. ~data.seed => data.sec \in {Empty, data.pub}
      BY <2>1, KeyringAssumption
    <3> QED
      BY <1>1, <3>1
  <2>2. CASE data \notin Given
    BY <1>1, <2>2 DEF Inv, CallInv, Matched
  <2> QED
    BY <2>1, <2>2
<1> QED
  BY <1>2, <1>3 DEF PublicOf

LEMMA DecodedKeeps == ASSUME Inv, NEW c \in Calls, Decoded(c) PROVE Inv'
<1> DEFINE data == call[c].data
           pass == call[c].pass
<1>1. UNCHANGED << encoded, encTypes >> /\ call[c].at = "decoding"
  BY DEF Decoded
<1>2. CASE Decodes(data, call[c].types, pass)
  <2>1. data.sec \in Keys /\ PublicOf(data) = data.sec /\ pass \in Passphrases \cup {NULL}
    BY <1>1, <1>2, TakenMatch DEF Inv, TypeOK
  <2>2. pub' = data.sec /\ sec' = data.sec
    BY <1>2, <2>1 DEF Decoded, TakeKey
  <2>3. CASE call[c].op = "recode"
    <3> DEFINE e == Encoding(data.sec, PublicOf(data), pass)
    <3>1. call' = [call EXCEPT ![c] = e]
      BY <1>2, <2>3 DEF Decoded
    <3>2. e \in CallRecord /\ e.at = "encoding" /\ e.data # NULL /\ Matched(e.data)
      BY <2>1, EncodingFits
    <3> HIDE DEF e
    <3>3. call' \in [Calls -> CallRecord] /\ \A d \in Calls : CallInv(d)'
      BY <3>1, <3>2, OneMoves
    <3> QED
      BY <1>1, <2>1, <2>2, <3>3 DEF Inv, TypeOK, CallRecord
  <2>4. CASE call[c].op # "recode"
    <3>1. call' = [call EXCEPT ![c].at = "done"]
      BY <1>2, <2>4 DEF Decoded
    <3>2. call' \in [Calls -> CallRecord] /\ \A d \in Calls : CallInv(d)'
      BY <3>1, Ends
    <3> QED
      BY <1>1, <2>1, <2>2, <3>2 DEF Inv, TypeOK, CallRecord
  <2> QED
    BY <2>3, <2>4
<1>3. CASE ~Decodes(data, call[c].types, pass)
  <2>1. call' = [call EXCEPT ![c].at = "failed"] /\ UNCHANGED << pub, sec >>
    BY <1>3 DEF Decoded
  <2>2. call' \in [Calls -> CallRecord] /\ \A d \in Calls : CallInv(d)'
    BY <2>1, Ends
  <2> QED
    BY <1>1, <2>1, <2>2 DEF Inv, TypeOK, CallRecord
<1> QED
  BY <1>2, <1>3

LEMMA RecodedKeeps == ASSUME Inv, NEW c \in Calls, Recoded(c) PROVE Inv'
<1>1. /\ encoded' = call[c].data /\ encTypes' = NULL /\ UNCHANGED << pub, sec >>
      /\ call[c].at = "encoding" /\ call' = [call EXCEPT ![c].at = "done"]
  BY DEF Recoded, Encrypted, TypesAfterRecode
<1>2. call' \in [Calls -> CallRecord] /\ \A d \in Calls : CallInv(d)'
  BY <1>1, Ends
<1>3. encoded' \in Encodings /\ Matched(encoded')
  BY <1>1 DEF Inv, CallInv, TypeOK
<1>4. Fits(encoded', encTypes')
  BY <1>1, KeyringAssumption DEF Fits, Misread
<1>5. encTypes' \in EncTypes
  BY <1>1 DEF EncTypes
<1> QED
  BY <1>1, <1>2, <1>3, <1>4, <1>5 DEF Inv, TypeOK, CallRecord

LEMMA LockKeeps == Inv /\ Lock => Inv'
BY DEF Inv, Lock, TypeOK, CallInv

LEMMA NextKeeps == Inv /\ [Next]_vars => Inv'
<1> SUFFICES ASSUME Inv, [Next]_vars PROVE Inv'
  OBVIOUS
<1>1. CASE UNCHANGED vars
  BY <1>1 DEF vars, Inv, TypeOK, CallInv
<1> QED
  BY <1>1, LockKeeps, DecodePkcs8Keeps, RecodeKeeps, DecodedKeeps, RecodedKeeps DEF Next

(* Every reachable state has the invariant.                                *)
THEOREM AlwaysInv == Spec => []Inv
<1> QED
  BY InitInv, NextKeeps, PTL DEF Spec

(* The state is of its types.                                              *)
THEOREM PairTypes == Spec => []TypeOK
<1>1. Inv => TypeOK
  BY DEF Inv
<1> QED
  BY <1>1, AlwaysInv, PTL

(* The halves of the key in memory and in what is stored belong together,   *)
(* whatever public half stands beside a seed that decodePkcs8 is handed     *)
(* (pair.dart:313-320), and whatever calls and lock() come while encodePair *)
(* waits for scrypt (pair.dart:119-132).                                    *)
THEOREM PairHalvesMatch == Spec => []HalvesMatch
<1>1. Inv => HalvesMatch
  BY DEF Inv, Matched, HalvesMatch, Locked
<1> QED
  BY <1>1, AlwaysInv, PTL

(* What is stored opens with some passphrase, unless it was encoded without *)
(* one by _recode.                                                         *)
THEOREM PairRecoverable == Spec => []Recoverable
<1>1. Inv => Recoverable
  <2> SUFFICES ASSUME Inv, encoded # NULL, encoded.sec # Empty
               PROVE  (\E pass \in Passphrases \cup {NULL} : Decodes(encoded, encTypes, pass))
                        <=> ~Misread(encoded, encTypes)
    BY DEF Recoverable
  <2>1. encoded.pass \in Passphrases \cup {NULL}
    BY DEF Inv, TypeOK, Encodings
  <2>2. ASSUME ~Misread(encoded, encTypes) PROVE Decodes(encoded, encTypes, encoded.pass)
    BY <2>2 DEF Inv, Fits, Decodes
  <2>3. ASSUME NEW pass, Decodes(encoded, encTypes, pass) PROVE ~Misread(encoded, encTypes)
    BY <2>3, KeyringAssumption DEF Decodes, Misread
  <2> QED
    BY <2>1, <2>2, <2>3
<1> QED
  BY <1>1, AlwaysInv, PTL

(* Decoding what is stored with the passphrase it was encrypted with        *)
(* succeeds, whatever other calls replace meanwhile.                        *)
THEOREM RightPassphraseAlwaysOpens == Spec => []RightPassphraseOpens
<1>1. Inv => RightPassphraseOpens
  BY DEF Inv, CallInv, RightPassphraseOpens, Fits, Decodes
<1> QED
  BY <1>1, AlwaysInv, PTL
-----------------------------------------------------------------------------
(* KeyKept needs that a locked pair is not encoded when nothing is stored;  *)
(* then every call that encodes has a secret key, and keeps it.             *)

HoldsKeys == \A c \in Calls : call[c].at = "encoding" => call[c].data.sec # Empty

LEMMA HoldsKeysKept ==
  ASSUME ~EncodeLocked, Inv, HoldsKeys, [Next]_vars
  PROVE  HoldsKeys' /\ (encoded # NULL /\ encoded.sec # Empty => encoded'.sec # Empty)
<1> USE DEF HoldsKeys
<1>1. CASE UNCHANGED vars
  BY <1>1 DEF vars
<1>2. CASE Lock
  BY <1>2 DEF Lock
<1>3. ASSUME NEW c \in Calls, DecodePkcs8(c) PROVE HoldsKeys' /\ UNCHANGED encoded
  BY <1>3 DEF DecodePkcs8, StartDecode, Inv, TypeOK
<1>4. ASSUME NEW c \in Calls, Recode(c) PROVE HoldsKeys' /\ UNCHANGED encoded
  <2>1. CASE NeedsDecoding
    BY <1>4, <2>1 DEF Recode, StartDecode, Inv, TypeOK
  <2>2. CASE ~NeedsDecoding
    <3>1. sec # Empty
      BY <1>4, <2>2 DEF Recode, NeedsDecoding, Locked
    <3> QED
      BY <1>4, <2>2, <3>1 DEF Recode, Encoding, Inv, TypeOK
  <2> QED
    BY <2>1, <2>2
<1>5. ASSUME NEW c \in Calls, Decoded(c) PROVE HoldsKeys' /\ UNCHANGED encoded
  <2>1. CASE Decodes(call[c].data, call[c].types, call[c].pass)
    BY <1>5, <2>1 DEF Decoded, Decodes, Encoding, Inv, TypeOK
  <2>2. CASE ~Decodes(call[c].data, call[c].types, call[c].pass)
    BY <1>5, <2>2 DEF Decoded, Inv, TypeOK
  <2> QED
    BY <2>1, <2>2
<1>6. ASSUME NEW c \in Calls, Recoded(c) PROVE HoldsKeys' /\ encoded'.sec # Empty
  BY <1>6 DEF Recoded, Encrypted, Inv, TypeOK
<1> QED
  BY <1>1, <1>2, <1>3, <1>4, <1>5, <1>6 DEF Next, Lock

(* A stored key is replaced only by an encoding that holds a key, with      *)
(* lock() at any time, unless a locked pair with nothing stored is encoded  *)
(* (pair.dart:326-330).                                                     *)
THEOREM KeyAlwaysKept ==
  ASSUME ~EncodeLocked
  PROVE  Spec => KeyKept
<1>1. Init => HoldsKeys
  BY DEF Init, Idle, HoldsKeys
<1>2. Inv /\ HoldsKeys /\ [Next]_vars =>
        HoldsKeys' /\ [encoded # NULL /\ encoded.sec # Empty => encoded'.sec # Empty]_vars
  BY HoldsKeysKept
<1> QED
  BY <1>1, <1>2, AlwaysInv, PTL DEF Spec, KeyKept
=============================================================================
