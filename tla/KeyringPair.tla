---------------------------- MODULE KeyringPair -----------------------------
(***************************************************************************)
(* CreatePairClass of lib/keyring/pair.dart: a key pair that can be        *)
(* locked, and the copy of it, encrypted or not, that it keeps.            *)
(*                                                                         *)
(* Encrypting and decrypting awaits scrypt, which runs in another isolate; *)
(* until it is done the user's other calls go on, lock() among them.  A    *)
(* call is a record that says where it waits and what it had read by then: *)
(*   "decoding"  decodePair is awaited                                     *)
(*   "encoding"  encodePair is awaited                                     *)
(* An async function that was suspended completes its future at once, and  *)
(* who awaits it resumes in the same turn: between the keys that           *)
(* _decodePkcs8 takes and the encodePair of the _recode that awaits it     *)
(* nothing else runs.  Asserts are taken to be checked (a debug build).    *)
(***************************************************************************)
EXTENDS Naturals, FiniteSets

CONSTANTS
  Calls,         \* the asynchronous calls the user may make
  Keys,          \* key pairs: a secret, and the public half that belongs to it
  OwnKey,        \* the one the pair is created for
  Passphrases,   \* passphrases the user encodes with
  NULL,          \* Dart's null: no passphrase, nothing stored
  Given,         \* encoded pairs the user may hand to decodePkcs8
  OfSeeds,       \* are the pair's secrets of 32 bytes (ecdsa, ethereum)?
  EncodeLocked   \* may the user encode a locked pair that has nothing stored?

Empty == "empty"   \* the secret key of a locked pair, []

(* PKCS8 content: the two halves as encodePair found them, whether the     *)
(* secret is a seed of 32 bytes and not a key of 64, and the passphrase    *)
(* they are encrypted with, if any.                                        *)
Encodings == [sec : Keys \cup {Empty}, pub : Keys, seed : BOOLEAN,
              pass : Passphrases \cup {NULL}]

(* _encTypes: ENCODING is scrypt and xsalsa20-poly1305, and what null      *)
(* stands for; ['none'] comes with the JSON of a pair that is not encrypted.*)
EncTypes == {"ENCODING", "none", NULL}

ASSUME KeyringAssumption ==
  /\ OwnKey \in Keys /\ Empty \notin Keys
  /\ NULL \notin Encodings \cup Keys \cup {Empty, "ENCODING", "none"}
  /\ {OfSeeds, EncodeLocked} \subseteq BOOLEAN
  /\ Given \subseteq Encodings
  /\ \A data \in Given : /\ OfSeeds => data.seed
                         /\ ~data.seed => data.sec \in {Empty, data.pub}

VARIABLES
  pub,        \* _pairInfo.publicKey
  sec,        \* _pairInfo.secretKey
  encoded,    \* _encoded
  encTypes,   \* _encTypes
  call        \* of each call: what it is, where it is, what it works on

vars == << pub, sec, encoded, encTypes, call >>

CallStates == {"idle", "decoding", "encoding", "done", "failed"}
Ops == {"decodePkcs8", "recode"}

Idle == [at |-> "idle", op |-> "recode", pass |-> NULL, data |-> NULL, types |-> NULL]

TypeOK ==
  /\ pub \in Keys
  /\ sec \in Keys \cup {Empty}
  /\ encoded \in Encodings \cup {NULL}
  /\ encTypes \in EncTypes
  /\ call \in [Calls -> [at : CallStates, op : Ops, pass : Passphrases \cup {NULL},
                         data : Encodings \cup {NULL}, types : EncTypes]]

Locked == sec = Empty

(* As Keyring creates pairs: from a uri or seed, with the secret; from an  *)
(* address, without; from JSON, with what another pair encoded, which may  *)
(* be the seed where later versions put the key.                           *)
Init ==
  /\ pub = OwnKey
  /\ call = [c \in Calls |-> Idle]
  /\ \/ sec = OwnKey /\ encoded = NULL /\ encTypes = NULL
     \/ sec = Empty /\ encoded = NULL /\ encTypes = NULL
     \/ /\ sec = Empty
        /\ \E p \in Passphrases \cup {NULL}, seed \in BOOLEAN :
             /\ OfSeeds => seed
             /\ encoded = [sec |-> OwnKey, pub |-> OwnKey, seed |-> seed, pass |-> p]
             /\ encTypes = IF p = NULL THEN "none" ELSE "ENCODING"
-----------------------------------------------------------------------------
(* decodePair: does it find a key in data?  Without a passphrase it takes  *)
(* data as it is, if the types allow for that; with one it decrypts, which *)
(* fits what encodePair writes only if the types name scrypt.  The content *)
(* of a locked pair is too short to be decoded.                            *)
Decodes(data, types, pass) ==
  /\ data # NULL
  /\ data.sec # Empty
  /\ data.pass = pass
  /\ (pass = NULL) = (types = "none")

(* _decodePkcs8 up to its await: data and types are read now. *)
StartDecode(c, op, pass, data) ==
  call' = [call EXCEPT ![c] = [at |-> "decoding", op |-> op, pass |-> pass,
                               data |-> data, types |-> encTypes]]

(* encodePair up to its await: both halves are read now. *)
Encoding(secret, public, pass) ==
  [at |-> "encoding", op |-> "recode", pass |-> pass, types |-> NULL,
   data |-> [sec |-> secret, pub |-> public, seed |-> OfSeeds, pass |-> pass]]

(* decodePkcs8(passphrase, userEncoded) *)
DecodePkcs8(c) ==
  /\ call[c].at = "idle"
  /\ \E pass \in Passphrases \cup {NULL}, data \in Given \cup {encoded} :
       StartDecode(c, "decodePkcs8", pass, data)
  /\ UNCHANGED << pub, sec, encoded, encTypes >>

NeedsDecoding == Locked /\ encoded # NULL

(* encodePkcs8(passphrase), and toJson(passphrase): both are _recode; the  *)
(* passphrase may be null.  A locked pair that has something stored is     *)
(* decoded first.                                                          *)
Recode(c) ==
  /\ call[c].at = "idle"
  /\ EncodeLocked \/ ~Locked \/ encoded # NULL
  /\ \E pass \in Passphrases :
       IF NeedsDecoding THEN StartDecode(c, "recode", pass, encoded)
                        ELSE call' = [call EXCEPT ![c] = Encoding(sec, pub, pass)]
  /\ UNCHANGED << pub, sec, encoded, encTypes >>

(* As in WsConnection.tla, a name that ends in Slip is what a slip in the   *)
(* code would make of the definition after it; no specification uses one.   *)

PublicBesideSlip(data) == data.pub
(* What _decodePkcs8 makes of the content: a key of 64 bytes is taken with *)
(* the public half beside it; from a seed, both halves are made anew.      *)
PublicOf(data) == IF data.seed THEN data.sec ELSE data.pub

SecretLostSlip(data) == pub' = PublicOf(data) /\ sec' = NULL
TakeKey(data) == pub' = PublicOf(data) /\ sec' = data.sec

(* decodePair is done: take the key and, in _recode, go on to encode it at *)
(* once; or throw.                                                         *)
Decoded(c) ==
  /\ call[c].at = "decoding"
  /\ LET data == call[c].data
         pass == call[c].pass
     IN  IF Decodes(data, call[c].types, pass)
           THEN /\ TakeKey(data)
                /\ call' = IF call[c].op = "recode"
                             THEN [call EXCEPT ![c] = Encoding(data.sec, PublicOf(data), pass)]
                             ELSE [call EXCEPT ![c].at = "done"]
           ELSE /\ call' = [call EXCEPT ![c].at = "failed"]
                /\ UNCHANGED << pub, sec >>
  /\ UNCHANGED << encoded, encTypes >>

TypesKeptSlip == encTypes
TypesAfterRecode == NULL

LateHalfSlip(c) == [call[c].data EXCEPT !.pub = pub]
LateSecretSlip(c) == [call[c].data EXCEPT !.sec = sec]
Encrypted(c) == call[c].data

(* encodePair is done: store what it made of the keys it had read. *)
Recoded(c) ==
  /\ call[c].at = "encoding"
  /\ encoded' = Encrypted(c)
  /\ encTypes' = TypesAfterRecode
  /\ call' = [call EXCEPT ![c].at = "done"]
  /\ UNCHANGED << pub, sec >>

(* lock(), at any time. *)
Lock ==
  /\ ~Locked
  /\ sec' = Empty
  /\ UNCHANGED << pub, encoded, encTypes, call >>

Next ==
  \/ Lock
  \/ \E c \in Calls : DecodePkcs8(c) \/ Recode(c) \/ Decoded(c) \/ Recoded(c)

Spec == Init /\ [][Next]_vars
-----------------------------------------------------------------------------
(* Properties.                                                             *)

(* The key is never lost: what a pair has stored of a key is replaced only  *)
(* by something that holds a key, also when lock() comes while _recode      *)
(* waits for its decoding or its encoding (pair.dart:119, 324-333).         *)
KeyKept ==
  [][encoded # NULL /\ encoded.sec # Empty => encoded'.sec # Empty]_vars

(* Encoded without a passphrase by _recode, whose default types then say    *)
(* that there is one (pair.dart:331).                                       *)
Misread(data, types) == data.pass = NULL /\ types = NULL

(* A locked pair that has its key stored can be unlocked with some          *)
(* passphrase, unless it was encoded without one by encodePkcs8 or toJson:  *)
(* but for that case what is stored and the types it is to be read with     *)
(* belong together ("swap to defaults, latest version follows",             *)
(* pair.dart:331).                                                          *)
Recoverable ==
  encoded # NULL /\ encoded.sec # Empty =>
    ((\E pass \in Passphrases \cup {NULL} : Decodes(encoded, encTypes, pass))
       <=> ~Misread(encoded, encTypes))

(* A call that decodes what the pair has stored, with the passphrase it was *)
(* encrypted with, succeeds, whatever other calls replace in the meantime,  *)
(* but for the same case.                                                   *)
RightPassphraseOpens ==
  \A c \in Calls :
    LET d == call[c].data
    IN  call[c].at = "decoding" /\ d # NULL /\ d \notin Given /\ d.sec # Empty
          /\ d.pass = call[c].pass /\ ~Misread(d, call[c].types)
          => Decodes(d, call[c].types, call[c].pass)

(* The halves of the key in memory belong together, and so do those of what *)
(* is stored: whatever calls and lock() overlap, whatever public half stands *)
(* beside a seed (pair.dart:313-320), and though encodePair stores one scrypt *)
(* later what it read before (pair.dart:119-132).                           *)
HalvesMatch ==
  /\ Locked \/ sec = pub
  /\ encoded = NULL \/ encoded.sec \in {Empty, encoded.pub}
=============================================================================
