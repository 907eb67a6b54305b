---------------------------- MODULE MCNativeCalls ----------------------------
(* NativeCalls on a small instance.  Every function is called with good    *)
(* arguments, with each of them spoilt in every way there is, and with     *)
(* numbers on both sides of what it takes.                                 *)
EXTENDS NativeCalls, SequencesExt, TLC

CONSTANTS w1, w2, a1, a2, a3

MCWorkers == {w1, w2}

Text(kind, len, good, v) == [kind |-> kind, len |-> len, good |-> good, v |-> v]
Hex(len) == Text("hex", len, TRUE, << "x" >>)

(* A function and the lengths of good arguments. *)
Phrases == {"bip39_validate", "bip39_to_entropy"}
Hashes  == {"keccak256", "sha512"}

(* As Documented, but with what the code takes: a pair of 96 bytes, and a  *)
(* private key of 32 for ed25519.                                          *)
Accepted(fn) ==
  CASE fn \in {"sr25519_derive_keypair_hard", "sr25519_derive_keypair_soft"} -> << 96, 32 >>
    [] fn = "ed25519_sign" -> << 32, 32, 0 >>
    [] OTHER -> Documented[fn]
Signatures == {<< fn, Accepted(fn) >> : fn \in DOMAIN Documented}
Keys ==
  {<< "bip32_get_private_key", << 32, 9 >> >>, << "ed25519_get_pub_from_prv", << 32 >> >>,
   << "secp256k1_get_pub_from_prv", << 32 >> >>, << "secp256k1_get_compress_pub", << 65 >> >>,
   << "sr25519_get_pub_from_seed", << 32 >> >>}
Others == {<< fn, << 12 >> >> : fn \in Phrases \cup Hashes}
            \cup {<< "bip39_to_mini_secret", << 12, 3 >> >>, << "bip39_to_seed", << 12, 3 >> >>}

GoodCall(f) == [fn |-> f[1], texts |-> [i \in DOMAIN f[2] |-> Hex(f[2][i])], nums |-> << >>]
Good == {GoodCall(f) : f \in Signatures \cup Keys \cup Others}

Spoilt(t) == {[t EXCEPT !.kind = k] : k \in {"odd", "plain", "null"}}
               \cup {[t EXCEPT !.len = @ + 1], [t EXCEPT !.good = FALSE]}

SpoiltCalls ==
  UNION {UNION {{[c EXCEPT !.texts[i] = t] : t \in Spoilt(c.texts[i])} : i \in DOMAIN c.texts} : c \in Good}

(* A password with a NUL in it. *)
CutPassword == [GoodCall(<< "bip39_to_seed", << 12, 3 >> >>) EXCEPT !.texts[2].v = << "x", Nul, "y" >>]

NumCall(fn, lens, nums) == [GoodCall(<< fn, lens >>) EXCEPT !.nums = nums]
Numbers ==
  {NumCall("bip39_generate", << >>, << n >>) : n \in {12, 13, 24}}
    \cup {NumCall("blake2b", << 5, k >>, << n >>) : n \in {0, 32, 64, 65}, k \in {0, 65}}
    \cup {NumCall("secp256k1_recover", << 32, 65 >>, << n >>) : n \in {0, 3, 27}}
    \cup {NumCall("xxhash64", << 5 >>, << 0 >>)}

(* What a reader of the comments would call. *)
DocumentedCalls == {GoodCall(<< fn, Documented[fn] >>) : fn \in DOMAIN Documented}
NoWorkerRequests == {}

MCRequests == Good \cup SpoiltCalls \cup Numbers \cup {CutPassword}

(* One that is well, one whose salt is missing, one that does no rounds    *)
(* and one whose cost is too high for its block size.                      *)
MCWorkerRequests ==
  {NumCall("pbkdf2", << 5, 32 >>, << 2048 >>),
   [NumCall("pbkdf2", << 5, 32 >>, << 2048 >>) EXCEPT !.texts[2].kind = "null"],
   NumCall("twox", << 5 >>, << 0 >>),
   NumCall("scrypt", << 5, 32 >>, << 16, 1, 1 >>)}
=============================================================================
