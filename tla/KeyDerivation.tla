---------------------------- MODULE KeyDerivation ----------------------------
(***************************************************************************)
(* What the key functions of the native library compute (rust/src:         *)
(* sr25519.rs, ed25519.rs, bip32.rs): scalars modulo the order of the      *)
(* curve's group, points of the group, and bytes.  The group and the hash  *)
(* functions are those of the crates behind it, and constants here: of the *)
(* group the code needs that points add up and multiply as their scalars.  *)
(***************************************************************************)
EXTENDS Integers

CONSTANTS
  Order, Points,      \* the order of the group, and its points
  Base,               \* of each scalar: its multiple of the base point
  Plus(_, _),         \* the sum of points
  Times(_, _),        \* the multiple of a point
  Bytes32,            \* seeds, nonces, ed25519 secrets
  ChainCodes,         \* of junctions (bip32: the numbers of its path)
  Messages,
  ExpandHash,         \* MiniSecretKey::expand: a scalar and a nonce of a seed
  HardHash(_, _),     \* hard_derive_mini_secret_key: of a scalar and a chain code
  SoftHash(_, _),     \* derive_scalar_and_chaincode: of a point and a chain code
  EdHash,             \* the scalar of an ed25519 secret
  EdHardHash(_, _),   \* blake2 of a secret and a chain code
  MasterMac,          \* HMAC-SHA512 of a seed
  ChildMac(_, _, _),  \* HMAC-SHA512 of a chain code, secret and index
  SignHash(_, _, _)   \* the challenge: of a public key, a point and a message

Scalars == 0 .. Order - 1

ASSUME GroupAssumption ==
  /\ Order \in Nat \ {0}
  /\ Base \in [Scalars -> Points]
  /\ \A p, q \in Points : Plus(p, q) \in Points
  /\ \A a, b \in Scalars : Base[(a + b) % Order] = Plus(Base[a], Base[b])
  /\ \A a, k \in Scalars : Base[(k * a) % Order] = Times(k, Base[a])

ASSUME HashAssumption ==
  /\ ExpandHash \in [Bytes32 -> Scalars \X Bytes32]
  /\ EdHash \in [Bytes32 -> Scalars]
  /\ MasterMac \in [Bytes32 -> Bytes32 \X Bytes32]
  /\ \A k \in Scalars, cc \in ChainCodes : HardHash(k, cc) \in Bytes32
  /\ \A p \in Points, cc \in ChainCodes : SoftHash(p, cc) \in Scalars
  /\ \A b \in Bytes32, cc \in ChainCodes : EdHardHash(b, cc) \in Bytes32
  /\ \A b, c \in Bytes32, n \in ChainCodes : ChildMac(b, c, n) \in Bytes32 \X Bytes32
  /\ \A p, q \in Points, m \in Messages : SignHash(p, q, m) \in Scalars

(* The group is one of prime order and the base point generates it.  Only   *)
(* that nothing but what was signed verifies rests on this.                 *)
PrimeOrder ==
  /\ Order > 1
  /\ \A d \in 2 .. Order - 1 : Order % d # 0
  /\ \A a, b \in Scalars : Base[a] = Base[b] => a = b

(* A key pair: its secret, what goes with the secret (sr25519: the nonce;  *)
(* bip32: the chain code; ed25519: nothing, the secret again) and the      *)
(* public key.                                                             *)
Pair(sec, ext, pub) == [sec |-> sec, ext |-> ext, pub |-> pub]

(* Names that end in Slip are what a slip in the code would make of the    *)
(* definition after them; no specification uses one.                       *)
-----------------------------------------------------------------------------
(* sr25519.rs.  In bytes a scalar is multiplied by the cofactor, as a      *)
(* number: it is not reduced, and divided again when it is read.           *)

ReducedSlip(key) == (8 * key) % Order
to_half(key) == 8 * key
from_half(sec) == sec \div 8

ext_sr_from_seed(seed) ==
  LET key == ExpandHash[seed][1]
  IN  Pair(to_half(key), ExpandHash[seed][2], Base[key])

ext_sr_from_pair(pair) == [pair EXCEPT !.sec = to_half(from_half(@))]

(* The seed that a hard derivation starts from: the nonce has no part in   *)
(* it.                                                                     *)
NonceHashedSlip(pair, cc) == HardHash((from_half(pair.sec) + pair.ext) % Order, cc)
MiniSecret(pair, cc) == HardHash(from_half(pair.sec), cc)

ext_sr_derive_keypair_hard(pair, cc) == ext_sr_from_seed(MiniSecret(pair, cc))

(* What a soft derivation adds to the key comes of its public half alone.  *)
SecretHashedSlip(pair, cc) == SoftHash(Base[(2 * from_half(pair.sec)) % Order], cc)
SoftScalar(pair, cc) == SoftHash(pair.pub, cc)

ParentsPublicSlip(pair, key) == pair.pub
PublicOf(pair, key) == Base[key]

(* The nonce of the new pair is drawn at random. *)
ext_sr_derive_keypair_soft(pair, cc, nonce) ==
  LET key == (from_half(pair.sec) + SoftScalar(pair, cc)) % Order
  IN  Pair(to_half(key), nonce, PublicOf(pair, key))

ext_sr_derive_public_soft(pub, cc) == Plus(pub, Base[SoftHash(pub, cc)])
-----------------------------------------------------------------------------
(* ed25519.rs and bip32.rs: secrets are bytes, hashed to a scalar.         *)

ext_ed_from_seed(seed) == Pair(seed, seed, Base[EdHash[seed]])

(* naclDeriveHard of nacl.dart *)
ed_derive_hard(pair, cc) == ext_ed_from_seed(EdHardHash(pair.sec, cc))

ExtendedSecretKey(mac) == Pair(mac[1], mac[2], Base[EdHash[mac[1]]])
root(seed) == ExtendedSecretKey(MasterMac[seed])
derive_child(node, index) == ExtendedSecretKey(ChildMac(node.ext, node.sec, index))
-----------------------------------------------------------------------------
(* Signatures: a witness, and with it the challenge times the key.         *)

ScalarOf(scheme, sec) == IF scheme = "sr25519" THEN from_half(sec) ELSE EdHash[sec]

MessageLeftOutSlip(pub, point, message) == SignHash(pub, point, << >>)
Challenge(pub, point, message) == SignHash(pub, point, message)

(* The public key that goes into the challenge. *)
PublicLeftOutSlip(pub) == Base[0]
SignedWith(pub) == pub

Signature(key, pub, message, witness) ==
  LET challenge == Challenge(SignedWith(pub), Base[witness], message)
  IN  [point |-> Base[witness], s |-> (((challenge * key) % Order) + witness) % Order]

Verifies(signature, message, pub) ==
  Base[signature.s] =
    Plus(Times(Challenge(pub, signature.point, message), pub), signature.point)
=============================================================================
