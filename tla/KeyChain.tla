------------------------------ MODULE KeyChain ------------------------------
(***************************************************************************)
(* Accounts made from a seed and a path of junctions, watchers that know   *)
(* public keys only, and what is signed, through lib/util_crypto           *)
(* (key.dart, schnorrkel.dart, nacl.dart) and the bip32 export, over the   *)
(* functions of KeyDerivation.tla.  The schemes are "sr25519", "ed25519"   *)
(* (HDKD of nacl.dart) and "bip32" (ed25519 keys along a bip32 path).      *)
(***************************************************************************)
EXTENDS KeyDerivation, Sequences, SequencesExt

CONSTANTS
  Seeds, Schemes,
  Junctions,     \* records [cc, hard]
  Nonces,        \* what the random nonce of a soft derivation may be
  Witnesses,     \* what the random witness of an sr25519 signature may be
  EdWitness(_, _), \* the witness that ed25519 hashes of secret and message
  Texts,         \* messages given to be signed: sequences of bytes
  Asserts,       \* are Dart's asserts checked?
  MaxAccounts, MaxPath, MaxWatched, MaxSigs, \* bounds,
  MaxLoad        \* and one on all of these together

ASSUME ChainAssumption ==
  /\ Schemes \subseteq {"sr25519", "ed25519", "bip32"}
  /\ Seeds \subseteq Bytes32 /\ Nonces \subseteq Bytes32 /\ Witnesses \subseteq Scalars
  /\ Junctions \subseteq [cc : ChainCodes, hard : BOOLEAN]
  /\ \A b \in Bytes32, m \in Messages : EdWitness(b, m) \in Scalars
  /\ Asserts \in BOOLEAN
  /\ MaxPath \in Nat

VARIABLES
  account,  \* accounts: what they are made from, the junctions still to do,
            \* the key pair so far, and whether a junction was refused
  watched,  \* public keys, and the path that their holder thinks they have
  sigs      \* signatures, with the message and the key they are of

vars == << account, watched, sigs >>
-----------------------------------------------------------------------------
(* The bytes that are signed.  schnorrkelSign makes a string of them, a    *)
(* character of each byte, and signs that string in UTF-8.                 *)

Utf8(b) == IF b < 128 THEN << b >> ELSE << 192 + (b \div 64), 128 + (b % 64) >>

Ascii(m) == \A k \in DOMAIN m : m[k] < 128

SignedBytes(scheme, m) ==
  IF scheme # "sr25519" \/ Ascii(m) THEN m
  ELSE FlattenSeq([k \in DOMAIN m |-> Utf8(m[k])])

ASSUME TextAssumption ==
  /\ Texts \subseteq Messages \cap Seq(0 .. 255)
  /\ \A m \in Texts, scheme \in Schemes : SignedBytes(scheme, m) \in Messages
-----------------------------------------------------------------------------
Ids == DOMAIN account
Ready(i) == account[i].todo = << >> /\ ~account[i].failed

Account(scheme, seed, path, todo, pair) ==
  [scheme |-> scheme, seed |-> seed, path |-> path, todo |-> todo, pair |-> pair,
   failed |-> FALSE]

Paths(n) == UNION {[1 .. k -> Junctions] : k \in 0 .. n}

FromSeed(scheme, seed) ==
  CASE scheme = "sr25519" -> ext_sr_from_seed(seed)
    [] scheme = "ed25519" -> ext_ed_from_seed(seed)
    [] scheme = "bip32"   -> root(seed)

Init == account = << >> /\ watched = {} /\ sigs = {}

(* All of this is synchronous: an isolate that goes through a path does     *)
(* nothing else until it is at its end, or throws.                         *)
Busy == \E i \in Ids : account[i].todo # << >> /\ ~account[i].failed

(* The bound on all together, in which an account counts twice. *)
Room(n) == 2 * Len(account) + Cardinality(watched) + Cardinality(sigs) + n <= MaxLoad

New(acc) ==
  /\ ~Busy /\ Room(2)
  /\ Len(account) < MaxAccounts
  /\ account' = Append(account, acc)
  /\ UNCHANGED << watched, sigs >>

Create ==
  \E scheme \in Schemes, seed \in Seeds, path \in Paths(MaxPath) :
    New(Account(scheme, seed, path, path, FromSeed(scheme, seed)))

(* The owner of an account derives another one from its key pair.  The     *)
(* bip32 export starts at the seed each time.                              *)
Derive(i) ==
  /\ Ready(i) /\ account[i].scheme # "bip32"
  /\ \E rest \in Paths(MaxPath - Len(account[i].path)) \ {<< >>} :
       New(Account(account[i].scheme, account[i].seed, account[i].path \o rest,
                   rest, account[i].pair))

(* A soft junction: bip32 wants none, keyHdkdEd25519 asserts that it is    *)
(* none, and takes it for a hard one where asserts are not checked.  (What  *)
(* else the panic of the bip32 export ends is NativeCalls.tla's.)           *)
Refuses(scheme, j) == ~j.hard /\ (scheme = "bip32" \/ (scheme = "ed25519" /\ Asserts))

NextPair(scheme, pair, j, nonce) ==
  CASE scheme = "bip32"   -> derive_child(pair, j.cc)
    [] scheme = "ed25519" -> ed_derive_hard(pair, j.cc)
    [] scheme = "sr25519" -> IF j.hard THEN ext_sr_derive_keypair_hard(pair, j.cc)
                             ELSE ext_sr_derive_keypair_soft(pair, j.cc, nonce)

(* keyFromPath and derive go through the path, a junction a time.          *)
Step(i) ==
  LET acc == account[i]
      j   == Head(acc.todo)
  IN  /\ acc.todo # << >> /\ ~acc.failed
      /\ IF Refuses(acc.scheme, j) THEN account' = [account EXCEPT ![i].failed = TRUE]
         ELSE \E nonce \in Nonces :
                account' = [account EXCEPT ![i] =
                  Account(acc.scheme, acc.seed, acc.path, Tail(acc.todo),
                          NextPair(acc.scheme, acc.pair, j, nonce))]
      /\ UNCHANGED << watched, sigs >>

(* sr25519KeypairFromPair *)
Reload(i) ==
  /\ ~Busy /\ Ready(i) /\ account[i].scheme = "sr25519"
  /\ account' = [account EXCEPT ![i].pair = ext_sr_from_pair(@)]
  /\ UNCHANGED << watched, sigs >>

(* Somebody gets to know a public key.                                     *)
Watch(i) ==
  /\ ~Busy /\ Room(1)
  /\ Ready(i) /\ account[i].scheme = "sr25519" /\ Cardinality(watched) < MaxWatched
  /\ watched' = watched \cup
       {[seed |-> account[i].seed, path |-> account[i].path, pub |-> account[i].pair.pub]}
  /\ UNCHANGED << account, sigs >>

(* schnorrkelDerivePublic *)
Follow(w, j) ==
  /\ ~Busy /\ Room(1)
  /\ ~j.hard /\ Len(w.path) < MaxPath /\ Cardinality(watched) < MaxWatched
  /\ watched' = watched \cup
       {[seed |-> w.seed, path |-> Append(w.path, j), pub |-> ext_sr_derive_public_soft(w.pub, j.cc)]}
  /\ UNCHANGED << account, sigs >>

Sign(i, m) ==
  LET acc   == account[i]
      bytes == SignedBytes(acc.scheme, m)
      key   == ScalarOf(acc.scheme, acc.pair.sec)
  IN  /\ ~Busy /\ Room(1)
      /\ Ready(i) /\ Cardinality(sigs) < MaxSigs
      /\ \E witness \in IF acc.scheme = "sr25519" THEN Witnesses
                        ELSE {EdWitness(acc.pair.sec, bytes)} :
           sigs' = sigs \cup {[scheme |-> acc.scheme, pub |-> acc.pair.pub, message |-> m,
                               sig |-> Signature(key, acc.pair.pub, bytes, witness)]}
      /\ UNCHANGED << account, watched >>

Next ==
  \/ Create
  \/ \E i \in Ids : Derive(i) \/ Step(i) \/ Reload(i) \/ Watch(i)
  \/ \E i \in Ids, m \in Texts : Sign(i, m)
  \/ \E w \in watched, j \in Junctions : Follow(w, j)

Spec == Init /\ [][Next]_vars
-----------------------------------------------------------------------------
(* Properties.                                                             *)

PairOf(scheme) ==
  [sec : IF scheme = "sr25519" THEN {8 * k : k \in Scalars} ELSE Bytes32,
   ext : Bytes32, pub : Points]

(* The state is of its types; the secret of an sr25519 pair is a reduced    *)
(* scalar times the cofactor (to_half_ed25519_bytes).                       *)
TypeOK ==
  /\ \A i \in Ids :
       LET acc == account[i]
       IN  /\ acc.scheme \in Schemes /\ acc.seed \in Seeds /\ acc.failed \in BOOLEAN
           /\ acc.path \in Seq(Junctions) /\ acc.todo \in Seq(Junctions)
           /\ acc.pair \in PairOf(acc.scheme)
  /\ \A w \in watched : w.seed \in Seeds /\ w.path \in Seq(Junctions) /\ w.pub \in Points
  /\ \A s \in sigs : /\ s.scheme \in Schemes /\ s.pub \in Points /\ s.message \in Texts
                     /\ s.sig \in [point : Points, s : Scalars]

(* The two halves of a key pair belong together, after any derivations in  *)
(* any order (sr25519.rs:24-49, ed25519.rs:26-31, bip32.rs:73-100).         *)
HalvesMatch ==
  \A i \in Ids :
    account[i].pair.pub = Base[ScalarOf(account[i].scheme, account[i].pair.sec)]

(* The path as the scheme sees it.                                         *)
Effective(scheme, path) ==
  IF scheme = "ed25519" THEN [k \in DOMAIN path |-> path[k].cc] ELSE path

(* Two accounts of one scheme and seed have the same key just when their    *)
(* paths are the same: whichever way they were derived, in one go or from   *)
(* each other, and whatever the random nonces of soft junctions.  The paths *)
(* are taken as the scheme sees them: that ed25519 has one key for paths    *)
(* that differ only in soft and hard, where asserts are not checked, is     *)
(* allowed here (key.dart:130-134, 149-152).                                *)
OneKeyPerPath ==
  \A i, k \in Ids :
    LET a == account[i]
        b == account[k]
    IN  Ready(i) /\ Ready(k) /\ a.scheme = b.scheme /\ a.seed = b.seed =>
          (a.pair.pub = b.pair.pub
             <=> Effective(a.scheme, a.path) = Effective(b.scheme, b.path))

(* Who follows soft junctions from a public key gets the public keys that   *)
(* the owner's accounts have (sr25519.rs:42-49, 58-65).                     *)
WatchersAgree ==
  \A w \in watched, i \in Ids :
    Ready(i) /\ account[i].scheme = "sr25519" /\ account[i].seed = w.seed
      /\ account[i].path = w.path => account[i].pair.pub = w.pub

(* Every signature verifies with the message it was made for, except those  *)
(* of sr25519 for messages that are not ASCII (schnorrkel.dart:48).         *)
SignedVerifies ==
  \A s \in sigs :
    (s.scheme # "sr25519" \/ Ascii(s.message)) => Verifies(s.sig, s.message, s.pub)

(* A signature verifies with no other message than the bytes signed, and    *)
(* those verify with no other key of the same curve: in particular, an      *)
(* sr25519 signature of a message that is not ASCII does not verify with    *)
(* that message (schnorrkel.dart:48, 55).                                   *)
Curve(scheme) == IF scheme = "sr25519" THEN "ristretto" ELSE "edwards"

NothingElseVerifies ==
  \A s \in sigs :
    LET bytes == SignedBytes(s.scheme, s.message)
    IN  /\ \A m \in Messages \ {bytes} : ~Verifies(s.sig, m, s.pub)
        /\ \A i \in Ids :
             Curve(account[i].scheme) = Curve(s.scheme) /\ account[i].pair.pub # s.pub =>
               ~Verifies(s.sig, bytes, account[i].pair.pub)
=============================================================================
