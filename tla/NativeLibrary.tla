---------------------------- MODULE NativeLibrary ----------------------------
(***************************************************************************)
(* The exports of the native library (rust/src) as its callers meet them:  *)
(* what each answers, and on what it panics.  What the answers of the key  *)
(* functions are to each other is in KeyDerivation.tla.                    *)
(*                                                                         *)
(* A call is [fn, texts, nums]: the function, the C strings and the        *)
(* numbers it is given.  Of a text the model keeps                         *)
(*   kind  "hex": hex digits of bytes;  "odd": hex digits, an odd number;  *)
(*         "plain": other text;  "null": Dart's null, which is no C string *)
(*   len   how many bytes the digits stand for                             *)
(*   good  do those bytes, or the text, pass the check that the library    *)
(*         behind the export makes (a checksum, a point, a scalar)?        *)
(*   v     the text                                                        *)
(***************************************************************************)
EXTENDS Naturals, Sequences, FiniteSetsExt

Nul == "NUL"

Kinds == {"hex", "odd", "plain", "null"}

(* An outcome: a text of bytes in hex, a phrase, a text that says "Error:", *)
(* a verdict, or a panic.                                                  *)
Outcome(kind, len) == [kind |-> kind, len |-> len]
Panic == Outcome("panic", 0)
Error == Outcome("error", 0)
Verdict(b) == Outcome(IF b THEN "true" ELSE "false", 1)
IsVerdict(out) == out \in {Verdict(TRUE), Verdict(FALSE)}

(* unwrap() and panic!: bytes of some length, if all is well.              *)
Unwrapped(ok, len) == IF ok THEN Outcome("bytes", len) ELSE Panic
-----------------------------------------------------------------------------
(* util.rs                                                                 *)

(* get_str: a C string ends at its first NUL.                              *)
get_str(t) ==
  LET ends == {i \in DOMAIN t.v : t.v[i] = Nul}
  IN  [t EXCEPT !.v = IF ends = {} THEN @ ELSE SubSeq(@, 1, Min(ends) - 1)]

(* get_u8vec_from_ptr, which panics on all else.                           *)
IsU8vec(t) == t.kind = "hex"
AllU8vecs(c) == \A i \in DOMAIN c.texts : IsU8vec(c.texts[i])

Bytes(t, n) == t.len = n /\ t.good
-----------------------------------------------------------------------------
(* bip39.rs                                                                *)

ext_bip39_generate(words) == Unwrapped(words \in {12, 15, 18, 21, 24}, words)
ext_bip39_validate(phrase) == phrase.good
ext_bip39_to_entropy(phrase) == Unwrapped(phrase.good, 16)
ext_bip39_to_mini_secret(phrase) == Unwrapped(phrase.good, 32)
ext_bip39_to_seed(phrase) == Unwrapped(phrase.good, 32)

(* Names that end in Slip are what a slip in the code would make of the    *)
(* definition after them; no specification uses one.                       *)

NotValidatedSlip(phrase, out) == out
IfValid(phrase, out) == IF ext_bip39_validate(phrase) THEN out ELSE Error

Bip39Export(c) ==
  CASE c.fn = "bip39_generate"       -> ext_bip39_generate(c.nums[1])
    [] c.fn = "bip39_validate"       -> Verdict(ext_bip39_validate(c.texts[1]))
    [] c.fn = "bip39_to_entropy"     -> IfValid(c.texts[1], ext_bip39_to_entropy(c.texts[1]))
    [] c.fn = "bip39_to_mini_secret" -> IfValid(c.texts[1], ext_bip39_to_mini_secret(c.texts[1]))
    [] c.fn = "bip39_to_seed"        -> IfValid(c.texts[1], ext_bip39_to_seed(c.texts[1]))
-----------------------------------------------------------------------------
(* hashing.rs                                                              *)

ext_blake2b(key, size) == Unwrapped(size \in 1 .. 64 /\ key.len <= 64, size)
ext_keccak256 == Unwrapped(TRUE, 32)
ext_pbkdf2    == Unwrapped(TRUE, 64)
ext_sha512    == Unwrapped(TRUE, 64)
ext_xxhash    == Unwrapped(TRUE, 8)

(* A round of 8 bytes each: none at all for no rounds. *)
ext_twox(rounds) == Unwrapped(TRUE, 8 * rounds)

(* ScryptParams::new refuses a cost, block size or parallelism of zero, a  *)
(* cost that the block size does not carry, and products that are too      *)
(* large: r * p, and 128 * r * 2 ^ log2_n for a word of 64 bits.           *)
ext_scrypt(log2_n, r, p) ==
  Unwrapped(/\ log2_n \in 1 .. 56 /\ r > 0 /\ p > 0
            /\ log2_n < 16 * r
            /\ r * p < 2 ^ 30
            /\ log2_n > 26 => r < 2 ^ (57 - log2_n), 64)

HashExport(c) ==
  IF ~AllU8vecs(c) THEN Panic
  ELSE CASE c.fn = "blake2b"   -> ext_blake2b(c.texts[2], c.nums[1])
         [] c.fn = "keccak256" -> ext_keccak256
         [] c.fn = "pbkdf2"    -> ext_pbkdf2
         [] c.fn = "scrypt"    -> ext_scrypt(c.nums[1], c.nums[2], c.nums[3])
         [] c.fn = "sha512"    -> ext_sha512
         [] c.fn = "twox"      -> ext_twox(c.nums[1])
         [] c.fn = "xxhash64"  -> ext_xxhash
-----------------------------------------------------------------------------
(* bip32.rs and the public keys of common.rs                               *)

(* The path parses and has hardened steps only; any seed in hex will do.   *)
bip32_get_private_key(seed, path) == Unwrapped(path.good /\ IsU8vec(seed), 32)

PublicKeyExport(c) ==
  LET t == c.texts
  IN  IF ~AllU8vecs(c) THEN Panic
      ELSE CASE c.fn = "ed25519_get_pub_from_prv"     -> Unwrapped(t[1].len = 32, 32)
             [] c.fn = "secp256k1_get_pub_from_prv"   -> Unwrapped(t[1].len >= 32 /\ t[1].good, 33)
             [] c.fn = "secp256k1_get_compress_pub"   -> Unwrapped(t[1].len \in {33, 65} /\ t[1].good, 33)
             [] c.fn = "secp256k1_recover" ->
                  Unwrapped(t[1].len = 32 /\ t[2].len >= 64 /\ t[2].good /\ c.nums[1] \in 0 .. 3, 33)
             [] c.fn = "sr25519_get_pub_from_seed"    -> Unwrapped(t[1].len >= 32, 32)
-----------------------------------------------------------------------------
(* ed25519.rs                                                              *)

(* Keypair::from_bytes: 64 bytes in all, the last 32 a public key.         *)
create_from_parts(pubkey, seckey) == pubkey.len + seckey.len = 64 /\ pubkey.good

create_public(pubkey) == Bytes(pubkey, 32)

ext_ed_from_seed(seed) == Unwrapped(seed.len = 32, 64)
ext_ed_sign(pubkey, seckey) == Unwrapped(create_from_parts(pubkey, seckey), 64)

(* A malformed signature is no signature; a malformed public key, looked   *)
(* at only then, is a panic.  Does it verify?  That is KeyDerivation's.    *)
ext_ed_verify(signature, message, pubkey) ==
  IF ~Bytes(signature, 64) THEN Verdict(FALSE)
  ELSE IF create_public(pubkey) THEN Verdict(message.good) ELSE Panic

EdExport(c) ==
  LET t == c.texts
  IN  IF ~AllU8vecs(c) THEN Panic
      ELSE CASE c.fn = "ed25519_keypair_from_seed" -> ext_ed_from_seed(t[1])
             [] c.fn = "ed25519_sign"   -> ext_ed_sign(t[1], t[2])
             [] c.fn = "ed25519_verify" -> ext_ed_verify(t[1], t[2], t[3])
-----------------------------------------------------------------------------
(* sr25519.rs                                                              *)

create_cc(data) == data.len = 32

ext_sr_derive_keypair_hard(pair, cc) == Unwrapped(Bytes(pair, 96) /\ create_cc(cc), 96)
ext_sr_derive_keypair_soft(pair, cc) == Unwrapped(Bytes(pair, 96) /\ create_cc(cc), 96)
ext_sr_derive_public_soft(pubkey, cc) == Unwrapped(Bytes(pubkey, 32) /\ create_cc(cc), 32)
ext_sr_from_seed(seed) == Unwrapped(seed.len = 32, 96)
ext_sr_from_pair(pair) == Unwrapped(Bytes(pair, 96), 96)
ext_sr_sign(pubkey, secret) == Unwrapped(Bytes(secret, 64) /\ Bytes(pubkey, 32), 64)

UnwrappedSlip(signature, message, pubkey) ==
  IF Bytes(signature, 64) /\ Bytes(pubkey, 32) THEN Verdict(message.good) ELSE Panic
ext_sr_verify(signature, message, pubkey) ==
  Verdict(Bytes(signature, 64) /\ Bytes(pubkey, 32) /\ message.good)

SrExport(c) ==
  LET t == c.texts
  IN  IF ~AllU8vecs(c) THEN Panic
      ELSE CASE c.fn = "sr25519_derive_keypair_hard" -> ext_sr_derive_keypair_hard(t[1], t[2])
             [] c.fn = "sr25519_derive_keypair_soft" -> ext_sr_derive_keypair_soft(t[1], t[2])
             [] c.fn = "sr25519_derive_public_soft"  -> ext_sr_derive_public_soft(t[1], t[2])
             [] c.fn = "sr25519_keypair_from_seed"   -> ext_sr_from_seed(t[1])
             [] c.fn = "sr25519_keypair_from_pair"   -> ext_sr_from_pair(t[1])
             [] c.fn = "sr25519_sign"   -> ext_sr_sign(t[1], t[2])
             [] c.fn = "sr25519_verify" -> ext_sr_verify(t[1], t[2], t[3])
-----------------------------------------------------------------------------
Bip39Fns == {"bip39_generate", "bip39_validate", "bip39_to_entropy",
             "bip39_to_mini_secret", "bip39_to_seed"}
HashFns  == {"blake2b", "keccak256", "pbkdf2", "scrypt", "sha512", "twox", "xxhash64"}
EdFns    == {"ed25519_keypair_from_seed", "ed25519_sign", "ed25519_verify"}
SrFns    == {"sr25519_derive_keypair_hard", "sr25519_derive_keypair_soft",
             "sr25519_derive_public_soft", "sr25519_keypair_from_seed",
             "sr25519_keypair_from_pair", "sr25519_sign", "sr25519_verify"}

Export(c) ==
  CASE c.fn \in Bip39Fns -> Bip39Export(c)
    [] c.fn \in HashFns  -> HashExport(c)
    [] c.fn \in EdFns    -> EdExport(c)
    [] c.fn \in SrFns    -> SrExport(c)
    [] c.fn = "bip32_get_private_key" -> bip32_get_private_key(c.texts[1], c.texts[2])
    [] OTHER -> PublicKeyExport(c)

(* What a call is answered: the outcome, and of what it is one.            *)
Answer(c) == [out  |-> Export(c), fn |-> c.fn,
              of   |-> [i \in DOMAIN c.texts |-> get_str(c.texts[i]).v], nums |-> c.nums]
=============================================================================
