--------------------------- MODULE KeyChainProofs ---------------------------
(***************************************************************************)
(* Proofs about KeyChain.tla, for any group, hash functions, seeds, paths   *)
(* and texts.                                                              *)
(***************************************************************************)
EXTENDS KeyChain, WellFoundedInduction, TLAPS

(* Arithmetic modulo the order.                                            *)
LEMMA ModOrder == \A x \in Nat : x % Order \in Scalars
  BY GroupAssumption DEF Scalars

LEMMA SumOfScalars == \A a, b \in Scalars : (a + b) % Order \in Scalars
<1> SUFFICES ASSUME NEW a \in Scalars, NEW b \in Scalars PROVE (a + b) % Order \in Scalars
  OBVIOUS
<1>1. a + b \in Nat
  BY GroupAssumption DEF Scalars
<1> QED
  BY <1>1, ModOrder

LEMMA ProductOfScalars == \A a, b \in Scalars : (a * b) % Order \in Scalars
<1> SUFFICES ASSUME NEW a \in Scalars, NEW b \in Scalars PROVE (a * b) % Order \in Scalars
  OBVIOUS
<1>1. a \in Nat /\ b \in Nat
  BY GroupAssumption DEF Scalars
<1>2. a * b \in Nat
  BY <1>1
<1> QED
  BY <1>2, ModOrder

(* A scalar comes back from its bytes.                                     *)
LEMMA HalfAndBack == \A k \in Scalars : from_half(to_half(k)) = k
  BY GroupAssumption DEF Scalars, from_half, to_half

(* A pair of the scheme, with its halves belonging together.               *)
Good(scheme, pair) ==
  /\ pair \in PairOf(scheme)
  /\ pair.pub = Base[ScalarOf(scheme, pair.sec)]

LEMMA GoodKey ==
  ASSUME NEW scheme \in {"sr25519", "ed25519", "bip32"}, NEW pair, Good(scheme, pair)
  PROVE  /\ ScalarOf(scheme, pair.sec) \in Scalars /\ pair.pub \in Points /\ pair.ext \in Bytes32
         /\ scheme # "sr25519" => pair.sec \in Bytes32
<1>1. CASE scheme = "sr25519"
  <2>1. PICK k \in Scalars : pair.sec = to_half(k)
    BY <1>1 DEF Good, PairOf, to_half
  <2>2. ScalarOf(scheme, pair.sec) = k
    BY <1>1, <2>1, HalfAndBack DEF ScalarOf
  <2> QED
    BY <1>1, <2>2 DEF Good, PairOf
<1>2. CASE scheme # "sr25519"
  BY <1>2, HashAssumption DEF Good, PairOf, ScalarOf
<1> QED
  BY <1>1, <1>2

(* Keys of a scalar, and keys of hashed bytes.                             *)
LEMMA GoodSr ==
  ASSUME NEW k \in Scalars, NEW ext \in Bytes32
  PROVE  Good("sr25519", Pair(to_half(k), ext, Base[k]))
<1> DEFINE pair == Pair(to_half(k), ext, Base[k])
<1>1. pair.sec = 8 * k /\ pair.ext = ext /\ pair.pub = Base[k]
  BY DEF Pair, to_half
<1>2. ScalarOf("sr25519", pair.sec) = k
  BY <1>1, HalfAndBack DEF ScalarOf, to_half
<1>3. pair \in PairOf("sr25519")
  BY GroupAssumption DEF Pair, PairOf, to_half
<1> QED
  BY <1>1, <1>2, <1>3 DEF Good

LEMMA GoodEd ==
  ASSUME NEW scheme \in {"ed25519", "bip32"}, NEW sec \in Bytes32, NEW ext \in Bytes32
  PROVE  Good(scheme, Pair(sec, ext, Base[EdHash[sec]]))
  BY GroupAssumption, HashAssumption DEF Good, Pair, PairOf, ScalarOf
-----------------------------------------------------------------------------
(* The derivations.                                                        *)

LEMMA GoodFromSeed ==
  ASSUME NEW scheme \in {"sr25519", "ed25519", "bip32"}, NEW seed \in Bytes32
  PROVE  Good(scheme, FromSeed(scheme, seed))
<1>1. CASE scheme = "sr25519"
  <2>1. ExpandHash[seed][1] \in Scalars /\ ExpandHash[seed][2] \in Bytes32
    BY HashAssumption
  <2> QED
    BY <1>1, <2>1, GoodSr DEF FromSeed, ext_sr_from_seed
<1>2. CASE scheme = "ed25519"
  BY <1>2, GoodEd DEF FromSeed, ext_ed_from_seed
<1>3. CASE scheme = "bip32"
  <2>1. MasterMac[seed][1] \in Bytes32 /\ MasterMac[seed][2] \in Bytes32
    BY HashAssumption
  <2> QED
    BY <1>3, <2>1, GoodEd DEF FromSeed, root, ExtendedSecretKey
<1> QED
  BY <1>1, <1>2, <1>3

LEMMA GoodNext ==
  ASSUME NEW scheme \in {"sr25519", "ed25519", "bip32"}, NEW pair, Good(scheme, pair),
         NEW j \in [cc : ChainCodes, hard : BOOLEAN], NEW nonce \in Bytes32
  PROVE  Good(scheme, NextPair(scheme, pair, j, nonce))
<1>1. j.cc \in ChainCodes
  OBVIOUS
<1>2. CASE scheme = "sr25519"
  <2> DEFINE key == from_half(pair.sec)
  <2>1. key \in Scalars /\ pair.pub \in Points
    BY <1>2, GoodKey DEF ScalarOf
  <2>2. CASE j.hard
    <3>1. MiniSecret(pair, j.cc) \in Bytes32
      BY <1>1, <2>1, HashAssumption DEF MiniSecret
    <3>2. NextPair(scheme, pair, j, nonce) = FromSeed("sr25519", MiniSecret(pair, j.cc))
      BY <1>2, <2>2 DEF NextPair, ext_sr_derive_keypair_hard, FromSeed
    <3> QED
      BY <1>2, <3>1, <3>2, GoodFromSeed
  <2>3. CASE ~j.hard
    <3>1. SoftScalar(pair, j.cc) \in Scalars
      BY <1>1, <2>1, HashAssumption DEF SoftScalar
    <3>2. (key + SoftScalar(pair, j.cc)) % Order \in Scalars
      BY <2>1, <3>1, SumOfScalars
    <3>3. NextPair(scheme, pair, j, nonce) = ext_sr_derive_keypair_soft(pair, j.cc, nonce)
      BY <1>2, <2>3 DEF NextPair
    <3> QED
      BY <1>2, <3>2, <3>3, GoodSr DEF ext_sr_derive_keypair_soft, PublicOf
  <2> QED
    BY <2>2, <2>3
<1>3. CASE scheme = "ed25519"
  <2>1. EdHardHash(pair.sec, j.cc) \in Bytes32
    BY <1>1, <1>3, GoodKey, HashAssumption
  <2> QED
    BY <1>3, <2>1, GoodEd DEF NextPair, ed_derive_hard, ext_ed_from_seed
<1>4. CASE scheme = "bip32"
  <2> DEFINE mac == ChildMac(pair.ext, pair.sec, j.cc)
  <2>1. mac \in Bytes32 \X Bytes32
    BY <1>1, <1>4, GoodKey, HashAssumption
  <2>2. mac[1] \in Bytes32 /\ mac[2] \in Bytes32
    BY <2>1
  <2> QED
    BY <1>4, <2>2, GoodEd DEF NextPair, derive_child, ExtendedSecretKey
<1> QED
  BY <1>2, <1>3, <1>4

LEMMA GoodReload ==
  ASSUME NEW pair, Good("sr25519", pair)
  PROVE  ext_sr_from_pair(pair) = pair
<1>1. PICK k \in Scalars : pair.sec = to_half(k)
  BY DEF Good, PairOf, to_half
<1>2. to_half(from_half(pair.sec)) = pair.sec
  BY <1>1, HalfAndBack
<1> QED
  BY <1>2 DEF ext_sr_from_pair, Good, PairOf

(* A soft junction leads from the public half of a key to the public half   *)
(* of the key that it leads to, whatever the nonce: who knows the public    *)
(* half alone can follow (sr25519.rs:42-49, 58-65).                         *)
THEOREM SoftFollows ==
  ASSUME NEW pair, Good("sr25519", pair), NEW cc \in ChainCodes, NEW nonce
  PROVE  ext_sr_derive_keypair_soft(pair, cc, nonce).pub = ext_sr_derive_public_soft(pair.pub, cc)
<1> DEFINE key == from_half(pair.sec)
           soft == SoftHash(pair.pub, cc)
<1>1. key \in Scalars /\ pair.pub \in Points /\ pair.pub = Base[key]
  BY GoodKey DEF Good, ScalarOf
<1>2. soft \in Scalars
  BY <1>1, HashAssumption
<1>3. Base[(key + soft) % Order] = Plus(Base[key], Base[soft])
  BY <1>1, <1>2, GroupAssumption
<1> QED
  BY <1>1, <1>3 DEF ext_sr_derive_keypair_soft, ext_sr_derive_public_soft, SoftScalar, PublicOf, Pair
-----------------------------------------------------------------------------
(* What is signed with a key verifies with its public half.                *)
LEMMA SignatureVerifies ==
  ASSUME NEW key \in Scalars, NEW witness \in Scalars, NEW message \in Messages
  PROVE  LET sig == Signature(key, Base[key], message, witness)
         IN  sig \in [point : Points, s : Scalars] /\ Verifies(sig, message, Base[key])
<1> DEFINE sig == Signature(key, Base[key], message, witness)
           c == SignHash(Base[key], Base[witness], message)
           ck == (c * key) % Order
<1>1. Base[key] \in Points /\ Base[witness] \in Points
  BY GroupAssumption
<1>2. c \in Scalars
  BY <1>1, HashAssumption
<1>3. ck \in Scalars
  BY <1>2, ProductOfScalars
<1>4. (ck + witness) % Order \in Scalars
  BY <1>3, SumOfScalars
<1>5. sig.point = Base[witness] /\ sig.s = (ck + witness) % Order
      /\ sig = [point |-> Base[witness], s |-> (ck + witness) % Order]
  BY DEF Signature, Challenge, SignedWith
<1>6. Base[(ck + witness) % Order] = Plus(Base[ck], Base[witness])
  BY <1>3, GroupAssumption
<1>7. Base[ck] = Times(c, Base[key])
  BY <1>2, GroupAssumption
<1>8. Verifies(sig, message, Base[key])
  BY <1>5, <1>6, <1>7 DEF Verifies, Challenge
<1> QED
  BY <1>1, <1>4, <1>5, <1>8
-----------------------------------------------------------------------------
(* The invariant.                                                          *)

GoodAccounts ==
  {acc \in [scheme : Schemes, seed : Seeds, path : Seq(Junctions), todo : Seq(Junctions),
            pair : [sec : Int \cup Bytes32, ext : Bytes32, pub : Points], failed : BOOLEAN] :
     Good(acc.scheme, acc.pair)}

GoodSigs ==
  {s \in [scheme : Schemes, pub : Points, message : Texts, sig : [point : Points, s : Scalars]] :
     Verifies(s.sig, SignedBytes(s.scheme, s.message), s.pub)}

Inv ==
  /\ account \in Seq(GoodAccounts)
  /\ watched \subseteq [seed : Seeds, path : Seq(Junctions), pub : Points]
  /\ sigs \subseteq GoodSigs

LEMMA SchemesKnown == \A scheme \in Schemes : scheme \in {"sr25519", "ed25519", "bip32"}
  BY ChainAssumption

LEMMA PairTypes ==
  ASSUME NEW scheme \in Schemes, NEW pair, Good(scheme, pair)
  PROVE  pair \in [sec : Int \cup Bytes32, ext : Bytes32, pub : Points]
<1>1. \A k \in Scalars : 8 * k \in Int
  BY GroupAssumption DEF Scalars
<1> QED
  BY <1>1 DEF Good, PairOf

LEMMA PathsAreSeqs == \A n : Paths(n) \subseteq Seq(Junctions)
<1> SUFFICES ASSUME NEW n, NEW k \in 0 .. n, NEW p \in [1 .. k -> Junctions]
             PROVE  p \in Seq(Junctions)
  BY DEF Paths
<1>1. k \in Nat
  OBVIOUS
<1> QED
  BY <1>1

LEMMA AccountIsGood ==
  ASSUME NEW scheme \in Schemes, NEW seed \in Seeds, NEW path \in Seq(Junctions),
         NEW todo \in Seq(Junctions), NEW pair, Good(scheme, pair)
  PROVE  Account(scheme, seed, path, todo, pair) \in GoodAccounts
BY PairTypes DEF Account, GoodAccounts

(* A step makes an account, or gives one another record.                   *)
LEMMA NewKeeps ==
  ASSUME Inv, NEW acc \in GoodAccounts, New(acc)
  PROVE  Inv'
BY DEF Inv, New

LEMMA ChangeKeeps ==
  ASSUME Inv, NEW i \in Ids, NEW acc \in GoodAccounts,
         account' = [account EXCEPT ![i] = acc], UNCHANGED << watched, sigs >>
  PROVE  Inv'
<1>1. account' \in Seq(GoodAccounts)
  BY DEF Inv, Ids
<1> QED
  BY <1>1 DEF Inv

LEMMA AccountTypes ==
  ASSUME Inv, NEW i \in Ids
  PROVE  /\ account[i] \in GoodAccounts
         /\ account[i].scheme \in Schemes /\ account[i].seed \in Seeds
         /\ account[i].path \in Seq(Junctions) /\ account[i].todo \in Seq(Junctions)
         /\ Good(account[i].scheme, account[i].pair)
<1>1. account[i] \in GoodAccounts
  BY DEF Inv, Ids
<1> QED
  BY <1>1 DEF GoodAccounts

LEMMA CreateKeeps == Inv /\ Create => Inv'
<1> SUFFICES ASSUME Inv, NEW scheme \in Schemes, NEW seed \in Seeds, NEW path \in Paths(MaxPath),
                    New(Account(scheme, seed, path, path, FromSeed(scheme, seed)))
             PROVE  Inv'
  BY DEF Create
<1>1. Good(scheme, FromSeed(scheme, seed))
  BY SchemesKnown, ChainAssumption, GoodFromSeed
<1>2. path \in Seq(Junctions)
  BY PathsAreSeqs
<1>3. Account(scheme, seed, path, path, FromSeed(scheme, seed)) \in GoodAccounts
  BY <1>1, <1>2, AccountIsGood
<1> QED
  BY <1>3, NewKeeps

LEMMA DeriveKeeps == ASSUME Inv, NEW i \in Ids, Derive(i) PROVE Inv'
<1>1. PICK rest \in Paths(MaxPath - Len(account[i].path)) :
        New(Account(account[i].scheme, account[i].seed, account[i].path \o rest,
                    rest, account[i].pair))
  BY DEF Derive
<1>2. rest \in Seq(Junctions)
  BY PathsAreSeqs
<1>3. account[i].path \o rest \in Seq(Junctions)
  BY <1>2, AccountTypes
<1>4. Account(account[i].scheme, account[i].seed, account[i].path \o rest,
              rest, account[i].pair) \in GoodAccounts
  BY <1>2, <1>3, AccountTypes, AccountIsGood
<1> QED
  BY <1>1, <1>4, NewKeeps

LEMMA StepKeeps == ASSUME Inv, NEW i \in Ids, Step(i) PROVE Inv'
<1> DEFINE acc == account[i]
           j == Head(acc.todo)
<1>1. acc.todo # << >> /\ UNCHANGED << watched, sigs >>
  BY DEF Step
<1>2. j \in Junctions /\ Tail(acc.todo) \in Seq(Junctions)
  BY <1>1, AccountTypes
<1>3. CASE Refuses(acc.scheme, j)
  <2>1. account' = [account EXCEPT ![i] = [acc EXCEPT !.failed = TRUE]]
    BY <1>3 DEF Step
  <2>2. [acc EXCEPT !.failed = TRUE] \in GoodAccounts
    BY AccountTypes DEF GoodAccounts
  <2> QED
    BY <1>1, <2>1, <2>2, ChangeKeeps
<1>4. CASE ~Refuses(acc.scheme, j)
  <2>1. PICK nonce \in Nonces :
          account' = [account EXCEPT ![i] =
            Account(acc.scheme, acc.seed, acc.path, Tail(acc.todo),
                    NextPair(acc.scheme, acc.pair, j, nonce))]
    BY <1>4 DEF Step
  <2>2. j \in [cc : ChainCodes, hard : BOOLEAN] /\ nonce \in Bytes32
    BY <1>2, ChainAssumption
  <2>3. Good(acc.scheme, NextPair(acc.scheme, acc.pair, j, nonce))
    BY <2>2, AccountTypes, SchemesKnown, GoodNext
  <2>4. Account(acc.scheme, acc.seed, acc.path, Tail(acc.todo),
                NextPair(acc.scheme, acc.pair, j, nonce)) \in GoodAccounts
    BY <1>2, <2>3, AccountTypes, AccountIsGood
  <2> QED
    BY <1>1, <2>1, <2>4, ChangeKeeps
<1> QED
  BY <1>3, <1>4

LEMMA ReloadKeeps == ASSUME Inv, NEW i \in Ids, Reload(i) PROVE Inv'
<1> DEFINE acc == account[i]
<1>1. /\ account' = [account EXCEPT ![i] = [acc EXCEPT !.pair = ext_sr_from_pair(acc.pair)]]
      /\ acc.scheme = "sr25519" /\ UNCHANGED << watched, sigs >>
  BY DEF Reload
<1>2. ext_sr_from_pair(acc.pair) = acc.pair
  BY <1>1, AccountTypes, GoodReload
<1>3. [acc EXCEPT !.pair = acc.pair] \in GoodAccounts
  BY AccountTypes DEF GoodAccounts
<1> QED
  BY <1>1, <1>2, <1>3, ChangeKeeps

LEMMA WatchKeeps == ASSUME Inv, NEW i \in Ids, Watch(i) PROVE Inv'
<1>1. /\ watched' = watched \cup {[seed |-> account[i].seed, path |-> account[i].path,
                                  pub |-> account[i].pair.pub]}
      /\ UNCHANGED << account, sigs >>
  BY DEF Watch
<1>2. account[i].pair.pub \in Points
  BY AccountTypes, SchemesKnown, GoodKey
<1> QED
  BY <1>1, <1>2, AccountTypes DEF Inv

LEMMA FollowKeeps == ASSUME Inv, NEW w \in watched, NEW j \in Junctions, Follow(w, j) PROVE Inv'
<1> DEFINE pub == ext_sr_derive_public_soft(w.pub, j.cc)
           v == [seed |-> w.seed, path |-> Append(w.path, j), pub |-> pub]
<1>1. watched' = watched \cup {v} /\ UNCHANGED << account, sigs >>
  BY DEF Follow
<1>2. w \in [seed : Seeds, path : Seq(Junctions), pub : Points] /\ j.cc \in ChainCodes
  BY ChainAssumption DEF Inv
<1>3. SoftHash(w.pub, j.cc) \in Scalars
  BY <1>2, HashAssumption
<1>4. pub \in Points
  BY <1>2, <1>3, GroupAssumption DEF ext_sr_derive_public_soft
<1>5. v \in [seed : Seeds, path : Seq(Junctions), pub : Points]
  BY <1>2, <1>4
<1> QED
  BY <1>1, <1>5 DEF Inv

LEMMA SignKeeps == ASSUME Inv, NEW i \in Ids, NEW m \in Texts, Sign(i, m) PROVE Inv'
<1> DEFINE acc == account[i]
           bytes == SignedBytes(acc.scheme, m)
           key == ScalarOf(acc.scheme, acc.pair.sec)
<1>1. PICK witness \in IF acc.scheme = "sr25519" THEN Witnesses
                       ELSE {EdWitness(acc.pair.sec, bytes)} :
        sigs' = sigs \cup {[scheme |-> acc.scheme, pub |-> acc.pair.pub, message |-> m,
                            sig |-> Signature(key, acc.pair.pub, bytes, witness)]}
  BY DEF Sign
<1>2. UNCHANGED << account, watched >>
  BY DEF Sign
<1>3. bytes \in Messages /\ acc.scheme \in Schemes
  BY AccountTypes, TextAssumption
<1>4. key \in Scalars /\ acc.pair.pub \in Points /\ acc.pair.pub = Base[key]
  BY AccountTypes, SchemesKnown, GoodKey DEF Good
<1>5. witness \in Scalars
  <2>1. CASE acc.scheme = "sr25519"
    BY <1>1, <2>1, ChainAssumption
  <2>2. CASE acc.scheme # "sr25519"
    <3>1. acc.pair.sec \in Bytes32
      BY <2>2, AccountTypes, SchemesKnown, GoodKey
    <3> QED
      BY <1>1, <1>3, <2>2, <3>1, ChainAssumption
  <2> QED
    BY <2>1, <2>2
<1> DEFINE sig == Signature(key, acc.pair.pub, bytes, witness)
           s == [scheme |-> acc.scheme, pub |-> acc.pair.pub, message |-> m, sig |-> sig]
<1>6. sig \in [point : Points, s : Scalars] /\ Verifies(sig, bytes, acc.pair.pub)
  BY <1>3, <1>4, <1>5, SignatureVerifies
<1> HIDE DEF sig
<1>7. s \in GoodSigs
  BY <1>3, <1>4, <1>6 DEF GoodSigs
<1> QED
  BY <1>1, <1>2, <1>7 DEF Inv, sig

LEMMA NextKeeps == Inv /\ [Next]_vars => Inv'
<1> SUFFICES ASSUME Inv, [Next]_vars PROVE Inv'
  OBVIOUS
<1>1. ASSUME NEW i \in Ids, Derive(i) \/ Step(i) \/ Reload(i) \/ Watch(i) PROVE Inv'
  BY <1>1, DeriveKeeps, StepKeeps, ReloadKeeps, WatchKeeps
<1>2. ASSUME NEW i \in Ids, NEW m \in Texts, Sign(i, m) PROVE Inv'
  BY <1>2, SignKeeps
<1>3. ASSUME NEW w \in watched, NEW j \in Junctions, Follow(w, j) PROVE Inv'
  BY <1>3, FollowKeeps
<1>4. CASE UNCHANGED vars
  BY <1>4 DEF vars, Inv
<1> QED
  BY <1>1, <1>2, <1>3, <1>4, CreateKeeps DEF Next

(* Every reachable state has the invariant.                                *)
THEOREM AlwaysInv == Spec => []Inv
<1>1. Init => Inv
  BY DEF Init, Inv
<1> QED
  BY <1>1, NextKeeps, PTL DEF Spec

(* The state is of its types: the secret of an sr25519 pair stays a reduced *)
(* scalar times the cofactor (sr25519.rs:24-49, 73-95).                     *)
THEOREM KeyTypes == Spec => []TypeOK
<1>1. Inv => TypeOK
  <2> SUFFICES ASSUME Inv PROVE TypeOK
    OBVIOUS
  <2>1. ASSUME NEW i \in Ids
        PROVE  /\ account[i].failed \in BOOLEAN /\ account[i].pair \in PairOf(account[i].scheme)
    BY AccountTypes DEF GoodAccounts, Good
  <2>2. \A w \in watched : w.seed \in Seeds /\ w.path \in Seq(Junctions) /\ w.pub \in Points
    BY DEF Inv
  <2>3. \A s \in sigs : /\ s.scheme \in Schemes /\ s.pub \in Points /\ s.message \in Texts
                        /\ s.sig \in [point : Points, s : Scalars]
    BY DEF Inv, GoodSigs
  <2> QED
    BY <2>1, <2>2, <2>3, AccountTypes DEF TypeOK
<1> QED
  BY <1>1, AlwaysInv, PTL

(* Whatever is derived from what, in whichever order, the two halves of     *)
(* every key pair belong together (sr25519.rs:24-49, ed25519.rs:26-31,      *)
(* bip32.rs:73-100).                                                        *)
THEOREM HalvesAlwaysMatch == Spec => []HalvesMatch
<1>1. Inv => HalvesMatch
  BY AccountTypes DEF HalvesMatch, Good
<1> QED
  BY <1>1, AlwaysInv, PTL

(* Every signature verifies with the message it was made for, but those of  *)
(* sr25519 for messages that are not ASCII (schnorrkel.dart:48).            *)
THEOREM SignaturesVerify == Spec => []SignedVerifies
<1>1. Inv => SignedVerifies
  BY DEF Inv, GoodSigs, SignedVerifies, SignedBytes
<1> QED
  BY <1>1, AlwaysInv, PTL
-----------------------------------------------------------------------------
(* The key pair that a path leads to.                                      *)

(* Natural numbers, by induction on a set of them.                         *)
LEMMA NatSetInduction ==
  ASSUME NEW S \in SUBSET Nat, 0 \in S, \A n \in S : n + 1 \in S
  PROVE  S = Nat
<1> SUFFICES ASSUME Nat \ S # {} PROVE FALSE
  OBVIOUS
<1> DEFINE T == Nat \ S
           Less == OpToRel(<, Nat)
<1>1. \E x \in T : \A y \in T : ~(<< y, x >> \in Less)
  <2>1. IsWellFoundedOn(Less, Nat)
    BY NatLessThanWellFounded
  <2>2. T \subseteq Nat /\ T # {}
    OBVIOUS
  <2> HIDE DEF T, Less
  <2> QED
    BY <2>1, <2>2, WFMin
<1>2. PICK x \in T : \A y \in T : ~(<< y, x >> \in Less)
  BY <1>1
<1>3. x # 0 /\ x - 1 \in Nat /\ x - 1 \notin S
  OBVIOUS
<1>4. << x - 1, x >> \in Less
  BY <1>3 DEF OpToRel
<1> QED
  BY <1>2, <1>3, <1>4

(* The pair after each number of junctions of a path, the nonce of a soft   *)
(* one being the one there was.                                            *)
Goes(at, scheme, seed, path, n) ==
  at = [k \in 0 .. n |-> IF k = 0 THEN FromSeed(scheme, seed)
                         ELSE NextPair(scheme, at[k - 1], path[k], at[k - 1].ext)]

PairAt(scheme, seed, path) == CHOOSE at : Goes(at, scheme, seed, path, Len(path))

LEMMA PairAtExists ==
  ASSUME NEW scheme, NEW seed, NEW path
  PROVE  \A n \in Nat : \E at : Goes(at, scheme, seed, path, n)
<1> DEFINE S == {n \in Nat : \E at : Goes(at, scheme, seed, path, n)}
           step(v, k) == NextPair(scheme, v, path[k], v.ext)
           start == FromSeed(scheme, seed)
<1>0. ASSUME NEW n \in Nat, NEW at
      PROVE  Goes(at, scheme, seed, path, n)
               <=> at = [k \in 0 .. n |-> IF k = 0 THEN start ELSE step(at[k - 1], k)]
  BY DEF Goes
<1> HIDE DEF step, start
<1>1. 0 \in S
  <2> DEFINE at == [k \in 0 .. 0 |-> start]
  <2>1. at = [k \in 0 .. 0 |-> IF k = 0 THEN start ELSE step(at[k - 1], k)]
    OBVIOUS
  <2> HIDE DEF at
  <2> QED
    BY <1>0, <2>1
<1>2. ASSUME NEW n \in S PROVE n + 1 \in S
  <2>1. PICK at : at = [k \in 0 .. n |-> IF k = 0 THEN start ELSE step(at[k - 1], k)]
    BY <1>0
  <2> DEFINE more == [k \in 0 .. n + 1 |-> IF k = n + 1 THEN step(at[n], n + 1) ELSE at[k]]
  <2>2. n \in Nat /\ DOMAIN at = 0 .. n
    BY <2>1
  <2>3. ASSUME NEW k \in 0 .. n + 1
        PROVE  more[k] = IF k = 0 THEN start ELSE step(more[k - 1], k)
    <3>1. CASE k = 0
      <4>1. more[k] = at[0] /\ 0 \in 0 .. n
        BY <2>2, <3>1
      <4> QED
        BY <2>1, <3>1, <4>1
    <3>2. CASE k = n + 1
      <4>1. k # 0 /\ k - 1 = n /\ n \in 0 .. n + 1 /\ n # n + 1
        BY <2>2, <3>2
      <4>2. more[k - 1] = at[n] /\ more[k] = step(at[n], n + 1)
        BY <3>2, <4>1
      <4> QED
        BY <3>2, <4>1, <4>2
    <3>3. CASE k # 0 /\ k # n + 1
      <4>1. k \in 0 .. n /\ k - 1 \in 0 .. n + 1 /\ k - 1 # n + 1
        BY <2>2, <3>3
      <4>2. more[k] = at[k] /\ more[k - 1] = at[k - 1]
        BY <3>3, <4>1
      <4>3. at[k] = step(at[k - 1], k)
        BY <2>1, <3>3, <4>1
      <4> QED
        BY <3>3, <4>2, <4>3
    <3> QED
      BY <3>1, <3>2, <3>3
  <2>4. more = [k \in 0 .. n + 1 |-> IF k = 0 THEN start ELSE step(more[k - 1], k)]
    <3>1. more = [k \in 0 .. n + 1 |-> more[k]]
      OBVIOUS
    <3> HIDE DEF more
    <3> QED
      BY <2>3, <3>1
  <2> HIDE DEF more
  <2> QED
    BY <1>0, <2>2, <2>4
<1>3. S = Nat
  <2>1. S \in SUBSET Nat
    OBVIOUS
  <2> HIDE DEF S
  <2> QED
    BY <1>1, <1>2, <2>1, NatSetInduction
<1> QED
  BY <1>3

LEMMA PairAtSteps ==
  ASSUME NEW scheme, NEW seed, NEW path \in Seq(Junctions)
  PROVE  /\ PairAt(scheme, seed, path)[0] = FromSeed(scheme, seed)
         /\ \A n \in 1 .. Len(path) :
              PairAt(scheme, seed, path)[n] =
                NextPair(scheme, PairAt(scheme, seed, path)[n - 1], path[n],
                         PairAt(scheme, seed, path)[n - 1].ext)
<1> DEFINE at == PairAt(scheme, seed, path)
           step(v, k) == NextPair(scheme, v, path[k], v.ext)
           start == FromSeed(scheme, seed)
<1>1. Len(path) \in Nat
  OBVIOUS
<1>2. Goes(at, scheme, seed, path, Len(path))
  BY <1>1, PairAtExists DEF PairAt
<1>3. at = [k \in 0 .. Len(path) |-> IF k = 0 THEN start ELSE step(at[k - 1], k)]
  BY <1>2 DEF Goes
<1> HIDE DEF at, step, start
<1>4. at[0] = start
  BY <1>1, <1>3
<1>5. ASSUME NEW n \in 1 .. Len(path) PROVE at[n] = step(at[n - 1], n)
  <2>1. n \in 0 .. Len(path) /\ n # 0
    OBVIOUS
  <2> QED
    BY <1>3, <2>1
<1> QED
  BY <1>4, <1>5 DEF at, step, start

LEMMA PairAtGood ==
  ASSUME NEW scheme \in {"sr25519", "ed25519", "bip32"}, NEW seed \in Bytes32,
         NEW path \in Seq(Junctions)
  PROVE  \A n \in 0 .. Len(path) : Good(scheme, PairAt(scheme, seed, path)[n])
<1> DEFINE at == PairAt(scheme, seed, path)
           S == {n \in Nat : n <= Len(path) => Good(scheme, at[n])}
<1>1. 0 \in S
  BY GoodFromSeed, PairAtSteps
<1>2. ASSUME NEW n \in S PROVE n + 1 \in S
  <2> SUFFICES ASSUME n + 1 <= Len(path) PROVE Good(scheme, at[n + 1])
    OBVIOUS
  <2>1. n \in Nat /\ n + 1 \in 1 .. Len(path) /\ (n + 1) - 1 = n
    OBVIOUS
  <2>2. Good(scheme, at[n])
    BY <2>1
  <2>3. at[n].ext \in Bytes32
    BY <2>2, GoodKey
  <2>4. path[n + 1] \in [cc : ChainCodes, hard : BOOLEAN]
    BY <2>1, ChainAssumption
  <2>5. at[n + 1] = NextPair(scheme, at[n], path[n + 1], at[n].ext)
    BY <2>1, PairAtSteps
  <2> HIDE DEF at
  <2> QED
    BY <2>2, <2>3, <2>4, <2>5, GoodNext
<1>3. S = Nat
  <2>1. S \in SUBSET Nat
    OBVIOUS
  <2> HIDE DEF S
  <2> QED
    BY <1>1, <1>2, <2>1, NatSetInduction
<1> QED
  BY <1>3

(* Where two paths agree as the scheme sees them, they lead to one pair.    *)
LEMMA AgreeingPaths ==
  ASSUME NEW scheme \in {"sr25519", "ed25519", "bip32"}, NEW seed,
         NEW p \in Seq(Junctions), NEW q \in Seq(Junctions),
         NEW m \in 0 .. Len(p), m <= Len(q),
         \A k \in 1 .. m : Effective(scheme, p)[k] = Effective(scheme, q)[k]
  PROVE  PairAt(scheme, seed, p)[m] = PairAt(scheme, seed, q)[m]
<1> DEFINE a == PairAt(scheme, seed, p)
           b == PairAt(scheme, seed, q)
           S == {n \in Nat : n <= m => a[n] = b[n]}
<1>0. m \in Nat /\ m <= Len(p) /\ Len(p) \in Nat /\ Len(q) \in Nat
  OBVIOUS
<1>1. 0 \in S
  BY PairAtSteps
<1>2. ASSUME NEW n \in S PROVE n + 1 \in S
  <2> SUFFICES ASSUME n + 1 <= m PROVE a[n + 1] = b[n + 1]
    OBVIOUS
  <2>1. /\ n \in Nat /\ n + 1 \in 1 .. m /\ (n + 1) - 1 = n
        /\ n + 1 \in 1 .. Len(p) /\ n + 1 \in 1 .. Len(q)
    BY <1>0
  <2>2. a[n] = b[n]
    BY <2>1
  <2>3. /\ a[n + 1] = NextPair(scheme, a[n], p[n + 1], a[n].ext)
        /\ b[n + 1] = NextPair(scheme, b[n], q[n + 1], b[n].ext)
    BY <2>1, PairAtSteps
  <2>4. Effective(scheme, p)[n + 1] = Effective(scheme, q)[n + 1]
    BY <2>1
  <2> HIDE DEF a, b
  <2>5. CASE scheme = "ed25519"
    <3>1. p[n + 1].cc = q[n + 1].cc
      BY <2>1, <2>4, <2>5 DEF Effective
    <3> QED
      BY <2>2, <2>3, <2>5, <3>1 DEF NextPair
  <2>6. CASE scheme # "ed25519"
    BY <2>2, <2>3, <2>4, <2>6 DEF Effective
  <2> QED
    BY <2>5, <2>6
<1>3. S = Nat
  <2>1. S \in SUBSET Nat
    OBVIOUS
  <2> HIDE DEF S
  <2> QED
    BY <1>1, <1>2, <2>1, NatSetInduction
<1> QED
  BY <1>0, <1>3

(* What is derived further on does not change what was derived before.      *)
LEMMA LongerPath ==
  ASSUME NEW scheme \in {"sr25519", "ed25519", "bip32"}, NEW seed,
         NEW p \in Seq(Junctions), NEW q \in Seq(Junctions), Len(p) <= Len(q),
         \A k \in 1 .. Len(p) : q[k] = p[k]
  PROVE  PairAt(scheme, seed, p)[Len(p)] = PairAt(scheme, seed, q)[Len(p)]
<1>1. ASSUME NEW k \in 1 .. Len(p) PROVE Effective(scheme, p)[k] = Effective(scheme, q)[k]
  <2>1. k \in DOMAIN p /\ k \in DOMAIN q /\ p[k] = q[k]
    OBVIOUS
  <2> QED
    BY <2>1 DEF Effective
<1>2. Len(p) \in 0 .. Len(p)
  OBVIOUS
<1> QED
  BY <1>1, <1>2, AgreeingPaths

(* The same key: the same secret and the same public half, and what a       *)
(* nonce is not drawn for, the same beside it.                              *)
Same(scheme, p, q) ==
  /\ p.sec = q.sec /\ p.pub = q.pub
  /\ scheme # "sr25519" => p.ext = q.ext

LEMMA SameNext ==
  ASSUME NEW scheme \in {"sr25519", "ed25519", "bip32"}, NEW p, NEW q, Same(scheme, p, q),
         NEW j, NEW nonce, NEW other
  PROVE  Same(scheme, NextPair(scheme, p, j, nonce), NextPair(scheme, q, j, other))
<1>1. CASE scheme = "sr25519"
  <2>1. CASE j.hard
    BY <1>1, <2>1 DEF Same, NextPair, ext_sr_derive_keypair_hard, MiniSecret
  <2>2. CASE ~j.hard
    BY <1>1, <2>2 DEF Same, NextPair, ext_sr_derive_keypair_soft, SoftScalar, PublicOf, Pair
  <2> QED
    BY <2>1, <2>2
<1>2. CASE scheme = "ed25519"
  BY <1>2 DEF Same, NextPair, ed_derive_hard
<1>3. CASE scheme = "bip32"
  BY <1>3 DEF Same, NextPair, derive_child
<1> QED
  BY <1>1, <1>2, <1>3
-----------------------------------------------------------------------------
(* Every account has the pair that the part of its path that is done leads  *)
(* to (none of it was refused), and every watched public key is the public half of the pair that the *)
(* path its holder thinks it has leads to.                                 *)

Done(acc) == Len(acc.path) - Len(acc.todo)

Reached(acc) ==
  /\ Len(acc.path) <= MaxPath /\ Len(acc.todo) <= Len(acc.path)
  /\ \A k \in 1 .. Len(acc.todo) : acc.todo[k] = acc.path[Done(acc) + k]
  /\ \A k \in 1 .. Done(acc) : ~Refuses(acc.scheme, acc.path[k])
  /\ Same(acc.scheme, acc.pair, PairAt(acc.scheme, acc.seed, acc.path)[Done(acc)])

AccountsReached == \A i \in Ids : Reached(account[i])

WatchedReached ==
  \A w \in watched : w.pub = PairAt("sr25519", w.seed, w.path)[Len(w.path)].pub

PathInv == AccountsReached /\ WatchedReached

LEMMA PathLengths ==
  ASSUME NEW n \in Int, NEW p \in Paths(n)
  PROVE  p \in Seq(Junctions) /\ Len(p) <= n
<1>1. PICK k \in 0 .. n : p \in [1 .. k -> Junctions]
  BY DEF Paths
<1>2. k \in Nat /\ k <= n
  BY <1>1
<1>3. p \in Seq(Junctions) /\ Len(p) = k
  BY <1>1, <1>2
<1> QED
  BY <1>2, <1>3

LEMMA NewReaches ==
  ASSUME Inv, PathInv, NEW acc \in GoodAccounts, New(acc), Reached(acc)
  PROVE  PathInv'
<1>1. account' = Append(account, acc) /\ watched' = watched /\ account \in Seq(GoodAccounts)
  BY DEF New, Inv
<1>2. ASSUME NEW i \in Ids' PROVE Reached(account'[i])
  <2>1. CASE i = Len(account) + 1
    BY <1>1, <2>1
  <2>2. CASE i # Len(account) + 1
    <3>1. i \in Ids /\ account'[i] = account[i]
      BY <1>1, <2>2 DEF Ids
    <3> QED
      BY <3>1 DEF PathInv, AccountsReached
  <2> QED
    BY <2>1, <2>2
<1> QED
  BY <1>1, <1>2 DEF PathInv, AccountsReached, WatchedReached

LEMMA ChangeReaches ==
  ASSUME Inv, PathInv, NEW i \in Ids, NEW acc, Reached(acc),
         account' = [account EXCEPT ![i] = acc], UNCHANGED watched
  PROVE  PathInv'
<1>1. ASSUME NEW k \in Ids' PROVE Reached(account'[k])
  <2>1. k \in Ids /\ account'[k] = IF k = i THEN acc ELSE account[k]
    BY DEF Ids
  <2> QED
    BY <2>1 DEF PathInv, AccountsReached
<1> QED
  BY <1>1 DEF PathInv, AccountsReached, WatchedReached

LEMMA CreateReaches == Inv /\ PathInv /\ Create => PathInv'
<1> SUFFICES ASSUME Inv, PathInv,
                    NEW scheme \in Schemes, NEW seed \in Seeds, NEW path \in Paths(MaxPath),
                    New(Account(scheme, seed, path, path, FromSeed(scheme, seed)))
             PROVE  PathInv'
  BY DEF Create
<1> DEFINE acc == Account(scheme, seed, path, path, FromSeed(scheme, seed))
<1>1. path \in Seq(Junctions) /\ Len(path) <= MaxPath
  BY PathLengths, ChainAssumption
<1>2. Good(scheme, FromSeed(scheme, seed))
  BY SchemesKnown, ChainAssumption, GoodFromSeed
<1>3. acc \in GoodAccounts
  BY <1>1, <1>2, AccountIsGood
<1>4. /\ acc.scheme = scheme /\ acc.seed = seed /\ acc.path = path /\ acc.todo = path
      /\ acc.pair = FromSeed(scheme, seed)
  BY DEF Account
<1>5. PairAt(scheme, seed, path)[0] = FromSeed(scheme, seed)
  BY <1>1, PairAtSteps
<1> HIDE DEF acc
<1>6. Reached(acc)
  <2>1. Len(path) \in Nat /\ Done(acc) = 0
    BY <1>1, <1>4 DEF Done
  <2>2. Same(scheme, acc.pair, PairAt(scheme, seed, path)[0])
    BY <1>4, <1>5 DEF Same
  <2>3. \A k \in 1 .. Len(acc.todo) : acc.todo[k] = acc.path[Done(acc) + k]
    BY <1>4, <2>1
  <2> QED
    BY <1>1, <1>4, <2>1, <2>2, <2>3 DEF Reached
<1> QED
  BY <1>3, <1>6, NewReaches DEF acc

LEMMA DeriveReaches == ASSUME Inv, PathInv, NEW i \in Ids, Derive(i) PROVE PathInv'
<1> DEFINE old == account[i]
<1>1. PICK rest \in Paths(MaxPath - Len(old.path)) :
        New(Account(old.scheme, old.seed, old.path \o rest, rest, old.pair))
  BY DEF Derive
<1> DEFINE path == old.path \o rest
           acc == Account(old.scheme, old.seed, path, rest, old.pair)
<1>2. /\ old.path \in Seq(Junctions) /\ Len(old.path) \in Nat /\ old.todo = << >>
      /\ old.scheme \in {"sr25519", "ed25519", "bip32"} /\ old.scheme \in Schemes
      /\ old.seed \in Seeds /\ Good(old.scheme, old.pair)
  BY AccountTypes, SchemesKnown DEF Derive, Ready
<1>3. rest \in Seq(Junctions) /\ Len(rest) <= MaxPath - Len(old.path) /\ Len(rest) \in Nat
  BY <1>2, PathLengths, ChainAssumption
<1>4. /\ path \in Seq(Junctions) /\ Len(path) = Len(old.path) + Len(rest)
      /\ \A k \in 1 .. Len(old.path) : path[k] = old.path[k]
      /\ \A k \in 1 .. Len(rest) : path[Len(old.path) + k] = rest[k]
  BY <1>2, <1>3
<1>5. acc \in GoodAccounts
  BY <1>2, <1>3, <1>4, AccountIsGood
<1>6. /\ Same(old.scheme, old.pair, PairAt(old.scheme, old.seed, old.path)[Len(old.path)])
      /\ \A k \in 1 .. Len(old.path) : ~Refuses(old.scheme, old.path[k])
  <2>1. Done(old) = Len(old.path)
    BY <1>2 DEF Done
  <2> QED
    BY <2>1 DEF PathInv, AccountsReached, Reached
<1>7. PairAt(old.scheme, old.seed, old.path)[Len(old.path)]
        = PairAt(old.scheme, old.seed, path)[Len(old.path)]
  <2> HIDE DEF path, old
  <2>1. Len(old.path) <= Len(path)
    BY <1>2, <1>3, <1>4
  <2>2. /\ old.scheme \in {"sr25519", "ed25519", "bip32"}
        /\ old.path \in Seq(Junctions) /\ path \in Seq(Junctions)
    BY <1>2, <1>4
  <2>3. \A k \in 1 .. Len(old.path) : path[k] = old.path[k]
    BY <1>4
  <2> QED
    BY <2>1, <2>2, <2>3, LongerPath
<1>8. /\ acc.scheme = old.scheme /\ acc.seed = old.seed /\ acc.path = path /\ acc.todo = rest
      /\ acc.pair = old.pair
  BY DEF Account
<1> HIDE DEF acc, path
<1>9. Reached(acc)
  <2>1. Done(acc) = Len(old.path)
    BY <1>2, <1>3, <1>4, <1>8 DEF Done
  <2>2. Len(acc.path) <= MaxPath /\ Len(acc.todo) <= Len(acc.path)
    BY <1>2, <1>3, <1>4, <1>8, ChainAssumption
  <2> QED
    BY <1>4, <1>6, <1>7, <1>8, <2>1, <2>2 DEF Reached
<1> QED
  BY <1>1, <1>5, <1>9, NewReaches DEF acc, path

LEMMA StepReaches == ASSUME Inv, PathInv, NEW i \in Ids, Step(i) PROVE PathInv'
<1> DEFINE acc == account[i]
           j == Head(acc.todo)
<1>1. acc.todo # << >> /\ UNCHANGED << watched, sigs >>
  BY DEF Step
<1>2. /\ acc \in GoodAccounts /\ acc.path \in Seq(Junctions) /\ acc.todo \in Seq(Junctions)
      /\ acc.scheme \in {"sr25519", "ed25519", "bip32"}
  BY AccountTypes, SchemesKnown
<1>3. Reached(acc)
  BY DEF PathInv, AccountsReached
<1>4. CASE Refuses(acc.scheme, j)
  <2> DEFINE new == [acc EXCEPT !.failed = TRUE]
  <2>1. account' = [account EXCEPT ![i] = new]
    BY <1>4 DEF Step
  <2>2. /\ new.scheme = acc.scheme /\ new.seed = acc.seed /\ new.path = acc.path
        /\ new.todo = acc.todo /\ new.pair = acc.pair
    BY <1>2 DEF GoodAccounts
  <2> HIDE DEF new
  <2>3. Done(new) = Done(acc)
    BY <2>2 DEF Done
  <2>4. Reached(new)
    BY <1>3, <2>2, <2>3 DEF Reached
  <2> QED
    BY <1>1, <2>1, <2>4, ChangeReaches DEF new
<1>5. CASE ~Refuses(acc.scheme, j)
  <2>1. PICK nonce \in Nonces :
          account' = [account EXCEPT ![i] =
            Account(acc.scheme, acc.seed, acc.path, Tail(acc.todo),
                    NextPair(acc.scheme, acc.pair, j, nonce))]
    BY <1>5 DEF Step
  <2> DEFINE new == Account(acc.scheme, acc.seed, acc.path, Tail(acc.todo),
                            NextPair(acc.scheme, acc.pair, j, nonce))
             n == Done(acc)
             at == PairAt(acc.scheme, acc.seed, acc.path)
  <2>2. /\ Len(acc.path) \in Nat /\ Len(acc.todo) \in Nat \ {0}
        /\ Tail(acc.todo) \in Seq(Junctions) /\ Len(Tail(acc.todo)) = Len(acc.todo) - 1
        /\ \A k \in 1 .. Len(acc.todo) - 1 : Tail(acc.todo)[k] = acc.todo[k + 1]
        /\ j = acc.todo[1]
    BY <1>1, <1>2
  <2>3. n \in Nat /\ n + 1 \in 1 .. Len(acc.path) /\ (n + 1) - 1 = n
    <3>1. Len(acc.todo) <= Len(acc.path)
      BY <1>3 DEF Reached
    <3>2. n = Len(acc.path) - Len(acc.todo)
      BY DEF Done
    <3>3. Len(acc.path) \in Nat /\ Len(acc.todo) \in Nat \ {0}
      BY <2>2
    <3>4. \A p \in Nat, t \in Nat \ {0} :
            t <= p => p - t \in Nat /\ (p - t) + 1 \in 1 .. p /\ ((p - t) + 1) - 1 = p - t
      OBVIOUS
    <3> QED
      BY <3>1, <3>2, <3>3, <3>4
  <2>4. j = acc.path[n + 1]
    BY <1>3, <2>2 DEF Reached
  <2>5. at[n + 1] = NextPair(acc.scheme, at[n], j, at[n].ext)
    BY <1>2, <2>3, <2>4, PairAtSteps
  <2>6. Same(acc.scheme, acc.pair, at[n])
    BY <1>3 DEF Reached
  <2>7. Same(acc.scheme, NextPair(acc.scheme, acc.pair, j, nonce), at[n + 1])
    <3> HIDE DEF at, n, j
    <3> QED
      BY <1>2, <2>5, <2>6, SameNext
  <2>8. /\ new.scheme = acc.scheme /\ new.seed = acc.seed /\ new.path = acc.path
        /\ new.todo = Tail(acc.todo) /\ new.pair = NextPair(acc.scheme, acc.pair, j, nonce)
    BY DEF Account
  <2> HIDE DEF new
  <2>9. Reached(new)
    <3>1. Done(new) = n + 1
      <4>1. Len(new.path) = Len(acc.path) /\ Len(new.todo) = Len(acc.todo) - 1
        BY <2>2, <2>8
      <4> HIDE DEF acc
      <4> QED
        BY <2>2, <4>1 DEF Done
    <3>2. Len(new.path) <= MaxPath /\ Len(new.todo) <= Len(new.path)
      BY <1>3, <2>2, <2>8, ChainAssumption DEF Reached
    <3>3. ASSUME NEW k \in 1 .. Len(new.todo) PROVE new.todo[k] = new.path[Done(new) + k]
      <4>1. k \in 1 .. Len(acc.todo) - 1 /\ k + 1 \in 1 .. Len(acc.todo)
        BY <2>2, <2>8
      <4>2. acc.todo[k + 1] = acc.path[n + (k + 1)]
        BY <1>3, <4>1 DEF Reached
      <4>3. n + (k + 1) = Done(new) + k
        BY <2>3, <3>1, <4>1
      <4> QED
        BY <2>2, <2>8, <4>1, <4>2, <4>3
    <3>4. Same(new.scheme, new.pair, PairAt(new.scheme, new.seed, new.path)[Done(new)])
      BY <2>7, <2>8, <3>1
    <3>5. ASSUME NEW k \in 1 .. Done(new) PROVE ~Refuses(new.scheme, new.path[k])
      <4>1. CASE k = n + 1
        BY <1>5, <2>4, <2>8, <4>1
      <4>2. CASE k # n + 1
        <5>1. k \in 1 .. n
          BY <2>3, <3>1, <4>2
        <5> QED
          BY <1>3, <2>8, <5>1 DEF Reached
      <4> QED
        BY <4>1, <4>2
    <3> QED
      BY <3>2, <3>3, <3>4, <3>5 DEF Reached
  <2> QED
    BY <1>1, <2>1, <2>9, ChangeReaches DEF new
<1> QED
  BY <1>4, <1>5

LEMMA ReloadReaches == ASSUME Inv, PathInv, NEW i \in Ids, Reload(i) PROVE PathInv'
<1> DEFINE acc == account[i]
<1>1. /\ account' = [account EXCEPT ![i] = [acc EXCEPT !.pair = ext_sr_from_pair(acc.pair)]]
      /\ acc.scheme = "sr25519" /\ UNCHANGED << watched, sigs >>
  BY DEF Reload
<1>2. ext_sr_from_pair(acc.pair) = acc.pair
  BY <1>1, AccountTypes, GoodReload
<1>3. [acc EXCEPT !.pair = acc.pair] = acc
  BY AccountTypes DEF GoodAccounts
<1>4. Reached(acc)
  BY DEF PathInv, AccountsReached
<1> QED
  BY <1>1, <1>2, <1>3, <1>4, ChangeReaches

LEMMA WatchReaches == ASSUME Inv, PathInv, NEW i \in Ids, Watch(i) PROVE PathInv'
<1> DEFINE acc == account[i]
           w == [seed |-> acc.seed, path |-> acc.path, pub |-> acc.pair.pub]
<1>1. /\ watched' = watched \cup {w} /\ UNCHANGED << account, sigs >>
      /\ acc.todo = << >> /\ acc.scheme = "sr25519"
  BY DEF Watch, Ready
<1>2. acc.path \in Seq(Junctions)
  BY AccountTypes
<1>3. Done(acc) = Len(acc.path)
  BY <1>1, <1>2 DEF Done
<1>4. acc.pair.pub = PairAt("sr25519", acc.seed, acc.path)[Len(acc.path)].pub
  BY <1>1, <1>3 DEF PathInv, AccountsReached, Reached, Same
<1>5. w.pub = PairAt("sr25519", w.seed, w.path)[Len(w.path)].pub
  BY <1>4
<1> HIDE DEF w
<1>6. WatchedReached'
  BY <1>1, <1>5 DEF PathInv, WatchedReached
<1> QED
  BY <1>1, <1>6 DEF PathInv, AccountsReached, Ids

LEMMA FollowReaches ==
  ASSUME Inv, PathInv, NEW w \in watched, NEW j \in Junctions, Follow(w, j)
  PROVE  PathInv'
<1> DEFINE pub == ext_sr_derive_public_soft(w.pub, j.cc)
           path == Append(w.path, j)
           v == [seed |-> w.seed, path |-> path, pub |-> pub]
           n == Len(w.path)
           old == PairAt("sr25519", w.seed, w.path)[n]
           new == PairAt("sr25519", w.seed, path)
<1>1. watched' = watched \cup {v} /\ UNCHANGED << account, sigs >> /\ ~j.hard
  BY DEF Follow
<1>2. /\ w.seed \in Bytes32 /\ w.path \in Seq(Junctions) /\ n \in Nat
      /\ j.cc \in ChainCodes
  BY ChainAssumption DEF Inv
<1>3. path \in Seq(Junctions) /\ Len(path) = n + 1 /\ path[n + 1] = j
      /\ \A k \in 1 .. n : path[k] = w.path[k]
  BY <1>2
<1>4. w.pub = old.pub
  BY DEF PathInv, WatchedReached
<1>5. old = new[n]
  <2> HIDE DEF path
  <2>1. Len(w.path) <= Len(path)
    BY <1>2, <1>3
  <2> QED
    BY <1>2, <1>3, <2>1, LongerPath
<1>6. Good("sr25519", old)
  <2>1. n \in 0 .. Len(w.path)
    BY <1>2
  <2> QED
    BY <1>2, <2>1, PairAtGood
<1>7. new[n + 1] = ext_sr_derive_keypair_soft(new[n], j.cc, new[n].ext)
  <2>1. n + 1 \in 1 .. Len(path) /\ (n + 1) - 1 = n
    BY <1>2, <1>3
  <2>2. new[n + 1] = NextPair("sr25519", new[n], path[n + 1], new[n].ext)
    <3> HIDE DEF path
    <3> QED
      BY <1>3, <2>1, PairAtSteps
  <2> QED
    BY <1>1, <1>3, <2>2 DEF NextPair
<1>8. new[n + 1].pub = pub
  <2> HIDE DEF old, new
  <2>1. ext_sr_derive_keypair_soft(old, j.cc, new[n].ext).pub
          = ext_sr_derive_public_soft(old.pub, j.cc)
    BY <1>2, <1>6, SoftFollows
  <2> QED
    BY <1>4, <1>5, <1>7, <2>1
<1>9. v.pub = PairAt("sr25519", v.seed, v.path)[Len(v.path)].pub
  BY <1>3, <1>8
<1> HIDE DEF v
<1>10. WatchedReached'
  BY <1>1, <1>9 DEF PathInv, WatchedReached
<1> QED
  BY <1>1, <1>10 DEF PathInv, AccountsReached, Ids

LEMMA NextReaches == Inv /\ PathInv /\ [Next]_vars => PathInv'
<1> SUFFICES ASSUME Inv, PathInv, [Next]_vars PROVE PathInv'
  OBVIOUS
<1>1. ASSUME NEW i \in Ids, Derive(i) \/ Step(i) \/ Reload(i) \/ Watch(i) PROVE PathInv'
  BY <1>1, DeriveReaches, StepReaches, ReloadReaches, WatchReaches
<1>2. ASSUME NEW i \in Ids, NEW m \in Texts, Sign(i, m) PROVE PathInv'
  BY <1>2 DEF Sign, PathInv, AccountsReached, WatchedReached, Ids
<1>3. ASSUME NEW w \in watched, NEW j \in Junctions, Follow(w, j) PROVE PathInv'
  BY <1>3, FollowReaches
<1>4. CASE UNCHANGED vars
  BY <1>4 DEF vars, PathInv, AccountsReached, WatchedReached, Ids
<1> QED
  BY <1>1, <1>2, <1>3, <1>4, CreateReaches DEF Next

(* Every account has the pair of its path, whichever way it was derived and *)
(* whatever the nonces were; every watched public key is that of its path   *)
(* (key.dart:130-155, sr25519.rs:24-65).                                    *)
THEOREM AlwaysReached == Spec => []PathInv
<1>1. Init => PathInv
  BY DEF Init, PathInv, AccountsReached, WatchedReached, Ids
<1> QED
  BY <1>1, NextReaches, AlwaysInv, PTL DEF Spec

LEMMA ReadyReached ==
  ASSUME Inv, PathInv, NEW i \in Ids, Ready(i)
  PROVE  /\ Same(account[i].scheme, account[i].pair,
                 PairAt(account[i].scheme, account[i].seed, account[i].path)[Len(account[i].path)])
         /\ \A k \in 1 .. Len(account[i].path) :
              ~Refuses(account[i].scheme, account[i].path[k])
<1>1. Done(account[i]) = Len(account[i].path)
  BY AccountTypes DEF Ready, Done
<1> QED
  BY <1>1 DEF PathInv, AccountsReached, Reached

(* Who follows soft junctions from a public key gets the public keys that   *)
(* the owner's accounts have, for any group, hashes, seed and path          *)
(* (sr25519.rs:42-49, 58-65).                                               *)
THEOREM WatchersAlwaysAgree == Spec => []WatchersAgree
<1>1. Inv /\ PathInv => WatchersAgree
  BY ReadyReached DEF WatchersAgree, Same, PathInv, WatchedReached
<1> QED
  BY <1>1, AlwaysInv, AlwaysReached, PTL

(* Accounts whose paths the scheme sees as the same have the same key,      *)
(* secret and public half: the half of OneKeyPerPath that does not hang on   *)
(* the hash functions.                                                      *)
OneKeyAtLeast ==
  \A i, k \in Ids :
    LET a == account[i]
        b == account[k]
    IN  Ready(i) /\ Ready(k) /\ a.scheme = b.scheme /\ a.seed = b.seed
          /\ Effective(a.scheme, a.path) = Effective(b.scheme, b.path) =>
          a.pair.pub = b.pair.pub /\ a.pair.sec = b.pair.sec

LEMMA SamePathSamePair ==
  ASSUME NEW scheme \in {"sr25519", "ed25519", "bip32"}, NEW seed,
         NEW p \in Seq(Junctions), NEW q \in Seq(Junctions),
         Effective(scheme, p) = Effective(scheme, q)
  PROVE  PairAt(scheme, seed, p)[Len(p)] = PairAt(scheme, seed, q)[Len(q)]
<1>1. Len(p) = Len(q)
  <2>1. DOMAIN Effective(scheme, p) = 1 .. Len(p) /\ DOMAIN Effective(scheme, q) = 1 .. Len(q)
    BY DEF Effective
  <2>2. Len(p) \in Nat /\ Len(q) \in Nat /\ 1 .. Len(p) = 1 .. Len(q)
    BY <2>1
  <2> QED
    BY <2>2
<1>2. Len(p) \in 0 .. Len(p) /\ Len(p) <= Len(q)
  BY <1>1
<1> QED
  BY <1>1, <1>2, AgreeingPaths

(* Accounts of one scheme and seed whose paths are the same have the same   *)
(* key, derived in one go or from each other and whatever the nonces were   *)
(* (key.dart:130-155).                                                      *)
THEOREM SamePathSameKey == Spec => []OneKeyAtLeast
<1>1. Inv /\ PathInv => OneKeyAtLeast
  <2> SUFFICES ASSUME Inv, PathInv, NEW i \in Ids, NEW k \in Ids, Ready(i), Ready(k),
                      account[i].scheme = account[k].scheme, account[i].seed = account[k].seed,
                      Effective(account[i].scheme, account[i].path)
                        = Effective(account[k].scheme, account[k].path)
               PROVE  account[i].pair.pub = account[k].pair.pub
                      /\ account[i].pair.sec = account[k].pair.sec
    BY DEF OneKeyAtLeast
  <2>1. /\ account[i].path \in Seq(Junctions) /\ account[k].path \in Seq(Junctions)
        /\ account[i].scheme \in {"sr25519", "ed25519", "bip32"}
    BY AccountTypes, SchemesKnown
  <2>2. PairAt(account[i].scheme, account[i].seed, account[i].path)[Len(account[i].path)]
          = PairAt(account[i].scheme, account[i].seed, account[k].path)[Len(account[k].path)]
    BY <2>1, SamePathSamePair
  <2> QED
    BY <2>2, ReadyReached DEF Same
<1> QED
  BY <1>1, AlwaysInv, AlwaysReached, PTL

(* No two paths in use that the scheme accepts lead to one public key: what  *)
(* the hash functions and the group have to give.  Nothing is asked of paths *)
(* that are longer.  The run of MCKeyChain compares every two such paths of  *)
(* its instance, so that it satisfies this.                                  *)
Accepted(scheme, path) == \A k \in 1 .. Len(path) : ~Refuses(scheme, path[k])

PathsToldApart ==
  \A scheme \in Schemes, seed \in Seeds, p, q \in Paths(MaxPath) :
    /\ Accepted(scheme, p) /\ Accepted(scheme, q)
    /\ PairAt(scheme, seed, p)[Len(p)].pub = PairAt(scheme, seed, q)[Len(q)].pub
    => Effective(scheme, p) = Effective(scheme, q)

LEMMA ShortPaths ==
  ASSUME NEW n \in Nat, NEW p \in Seq(Junctions), Len(p) <= n
  PROVE  p \in Paths(n)
<1>1. Len(p) \in 0 .. n /\ p \in [1 .. Len(p) -> Junctions]
  OBVIOUS
<1> QED
  BY <1>1 DEF Paths

(* Two accounts of one scheme and seed have the same key just when their    *)
(* paths are the same, given that the paths are told apart: deriving does   *)
(* not confuse them (key.dart:130-155).                                    *)
THEOREM OneKeyForEachPath ==
  ASSUME PathsToldApart
  PROVE  Spec => []OneKeyPerPath
<1>1. Inv /\ PathInv /\ OneKeyAtLeast => OneKeyPerPath
  <2> SUFFICES ASSUME Inv, PathInv, NEW i \in Ids, NEW k \in Ids, Ready(i), Ready(k),
                      account[i].scheme = account[k].scheme, account[i].seed = account[k].seed,
                      account[i].pair.pub = account[k].pair.pub
               PROVE  Effective(account[i].scheme, account[i].path)
                        = Effective(account[k].scheme, account[k].path)
    BY DEF OneKeyPerPath, OneKeyAtLeast
  <2>1. /\ account[i].scheme \in Schemes /\ account[i].seed \in Seeds
        /\ account[i].path \in Paths(MaxPath) /\ account[k].path \in Paths(MaxPath)
    BY AccountTypes, ShortPaths, ChainAssumption DEF PathInv, AccountsReached, Reached
  <2>2. PairAt(account[i].scheme, account[i].seed, account[i].path)[Len(account[i].path)].pub
          = PairAt(account[i].scheme, account[i].seed, account[k].path)[Len(account[k].path)].pub
    BY ReadyReached DEF Same
  <2>3. /\ Accepted(account[i].scheme, account[i].path)
        /\ Accepted(account[i].scheme, account[k].path)
    BY ReadyReached DEF Accepted
  <2> QED
    BY <2>1, <2>2, <2>3, PathsToldApart DEF PathsToldApart
<1> QED
  BY <1>1, AlwaysInv, AlwaysReached, SamePathSameKey, PTL
-----------------------------------------------------------------------------
(* What else a signature verifies: where the order of the group is prime,   *)
(* what the challenges are decides it.                                      *)

LEMMA DivideByOrder ==
  ASSUME NEW x \in Nat
  PROVE  \E q \in Nat : x = (Order * q) + (x % Order)
<1>1. Order \in Nat /\ Order > 0
  BY GroupAssumption
<1>2. x = (Order * (x \div Order)) + (x % Order) /\ x \div Order \in Nat
  BY <1>1
<1> QED
  BY <1>2

(* A prime divides no product of two numbers less than itself.              *)
LEMMA NoProductIsOrder ==
  ASSUME PrimeOrder, NEW k \in 1 .. Order - 1, NEW d \in 1 .. Order - 1, NEW n \in Int,
         d * k = Order * n
  PROVE  FALSE
<1> DEFINE T == {c \in 1 .. Order - 1 : \E q \in Int : c * k = Order * q}
<1>1. Order \in Nat /\ Order > 1 /\ k \in Nat /\ k > 0 /\ k < Order
  BY GroupAssumption DEF PrimeOrder
<1>2. \E c \in T : \A b \in T : ~(b < c)
  <2>1. T \subseteq Nat /\ d \in T
    BY <1>1
  <2>2. \E c \in T : \A b \in T : ~ (<< b, c >> \in OpToRel(<, Nat))
    <3> HIDE DEF T
    <3> QED
      BY <2>1, NatLessThanWellFounded, WFMin
  <2> QED
    BY <2>1, <2>2 DEF OpToRel
<1>3. PICK c \in T : \A b \in T : ~(b < c)
  BY <1>2
<1>4. PICK q \in Int : c * k = Order * q
  OBVIOUS
<1>5. c \in Nat /\ c > 0 /\ c < Order
  BY <1>1
<1> DEFINE t == Order \div c
           r == Order % c
<1>6. Order = (c * t) + r /\ t \in Nat /\ r \in Nat /\ r < c
  BY <1>1, <1>5
<1> HIDE DEF t, r
<1>7. r * k = Order * (k - (q * t))
  <2>1. Order * k = ((c * t) * k) + (r * k)
    BY <1>1, <1>5, <1>6
  <2>2. (c * t) * k = (c * k) * t
    BY <1>1, <1>5, <1>6
  <2>3. (c * k) * t = (Order * q) * t
    BY <1>4
  <2>4. (Order * q) * t = Order * (q * t)
    BY <1>1, <1>6
  <2>5. Order * (k - (q * t)) = (Order * k) - (Order * (q * t))
    BY <1>1, <1>6
  <2>6. Order * k \in Int /\ r * k \in Int /\ Order * (q * t) \in Int
    BY <1>1, <1>6
  <2> QED
    BY <2>1, <2>2, <2>3, <2>4, <2>5, <2>6
<1>8. r = 0
  <2> SUFFICES ASSUME r # 0 PROVE FALSE
    OBVIOUS
  <2>1. r \in 1 .. Order - 1 /\ k - (q * t) \in Int
    BY <1>1, <1>5, <1>6
  <2>2. r \in T
    BY <2>1, <1>7
  <2> QED
    BY <1>3, <1>6, <2>2
<1>9. c = 1
  BY <1>1, <1>5, <1>8 DEF PrimeOrder, r
<1>10. k = Order * q
  BY <1>1, <1>4, <1>9
<1>11. CASE q <= 0
  BY <1>1, <1>10, <1>11
<1>12. CASE q > 0
  <2>1. Order * q >= Order
    BY <1>1, <1>12
  <2> QED
    BY <1>1, <1>10, <2>1
<1> QED
  BY <1>11, <1>12

LEMMA FactorComesBack ==
  ASSUME PrimeOrder, NEW k \in 1 .. Order - 1, NEW a \in Scalars, NEW b \in Scalars,
         a > b, (a * k) % Order = (b * k) % Order
  PROVE  FALSE
<1>1. Order \in Nat /\ a \in Nat /\ b \in Nat /\ k \in Nat /\ a - b \in 1 .. Order - 1
  BY GroupAssumption DEF Scalars
<1>2. a * k \in Nat /\ b * k \in Nat
  BY <1>1
<1>3. PICK m \in Nat : a * k = (Order * m) + ((a * k) % Order)
  BY <1>2, DivideByOrder
<1>4. PICK n \in Nat : b * k = (Order * n) + ((b * k) % Order)
  BY <1>2, DivideByOrder
<1>5. (a - b) * k = (a * k) - (b * k) /\ Order * (m - n) = (Order * m) - (Order * n)
  BY <1>1
<1>6. (a * k) % Order \in Int /\ Order * m \in Int /\ Order * n \in Int
  BY <1>1, <1>2, ModOrder, GroupAssumption DEF Scalars
<1>7. (a - b) * k = Order * (m - n) /\ m - n \in Int
  BY <1>2, <1>3, <1>4, <1>5, <1>6
<1> QED
  BY <1>1, <1>7, NoProductIsOrder

(* Multiples of a key that is not 0 are the same for the same factor only.  *)
LEMMA OneFactor ==
  ASSUME PrimeOrder, NEW k \in Scalars \ {0}, NEW a \in Scalars, NEW b \in Scalars,
         (a * k) % Order = (b * k) % Order
  PROVE  a = b
<1>1. k \in 1 .. Order - 1 /\ a \in Nat /\ b \in Nat
  BY GroupAssumption DEF Scalars
<1>2. ~(a > b) /\ ~(b > a)
  BY <1>1, FactorComesBack
<1> QED
  BY <1>1, <1>2

(* What is added to a scalar can be taken away again.                       *)
LEMMA Cancel ==
  ASSUME NEW a \in Scalars, NEW b \in Scalars, NEW w \in Scalars,
         (a + w) % Order = (b + w) % Order
  PROVE  a = b
<1>1. Order \in Nat /\ Order > 0 /\ a \in 0 .. Order - 1 /\ b \in 0 .. Order - 1 /\ w \in 0 .. Order - 1
  BY GroupAssumption DEF Scalars
<1>2. ASSUME NEW c \in 0 .. Order - 1
      PROVE  (c + w) % Order = IF c + w < Order THEN c + w ELSE (c + w) - Order
  BY <1>1
<1> QED
  BY <1>1, <1>2

(* The challenge times a key, as scalars. *)
LEMMA ChallengeAsScalars ==
  ASSUME NEW key \in Scalars, NEW pub, pub = Base[key], NEW p \in Points, NEW m \in Messages
  PROVE  LET c == Challenge(pub, p, m)
         IN  /\ c \in Scalars /\ (c * key) % Order \in Scalars
             /\ Times(c, pub) = Base[(c * key) % Order]
<1> DEFINE c == Challenge(pub, p, m)
<1>1. pub \in Points
  BY GroupAssumption
<1>2. c \in Scalars
  BY <1>1, HashAssumption DEF Challenge
<1>3. (c * key) % Order \in Scalars
  BY <1>2, ProductOfScalars
<1>4. Times(c, Base[key]) = Base[(c * key) % Order]
  BY <1>2, GroupAssumption
<1>5. Times(c, pub) = Base[(c * key) % Order]
  BY <1>4
<1> QED
  BY <1>2, <1>3, <1>5

(* A signature whose point is that of a witness verifies with a key just    *)
(* when its scalar is the challenge times the key, and the witness.          *)
LEMMA VerifiesAsScalars ==
  ASSUME PrimeOrder, NEW sig \in [point : Points, s : Scalars], NEW m \in Messages,
         NEW key \in Scalars, NEW w \in Scalars, sig.point = Base[w]
  PROVE  LET c == Challenge(Base[key], sig.point, m)
         IN  Verifies(sig, m, Base[key]) <=> sig.s = (((c * key) % Order) + w) % Order
<1> DEFINE c == Challenge(Base[key], sig.point, m)
           ck == (c * key) % Order
<1>1. sig.s \in Scalars /\ sig.point \in Points
  OBVIOUS
<1>2. ck \in Scalars /\ Times(c, Base[key]) = Base[ck]
  BY <1>1, ChallengeAsScalars
<1>3. (ck + w) % Order \in Scalars
  BY <1>2, SumOfScalars
<1>4. Plus(Base[ck], Base[w]) = Base[(ck + w) % Order]
  BY <1>2, GroupAssumption
<1>5. Verifies(sig, m, Base[key]) <=> Base[sig.s] = Base[(ck + w) % Order]
  BY <1>2, <1>4 DEF Verifies
<1>6. Base[sig.s] = Base[(ck + w) % Order] <=> sig.s = (ck + w) % Order
  BY <1>1, <1>3 DEF PrimeOrder
<1> QED
  BY <1>5, <1>6

(* A signature that verifies with one message and key verifies with another *)
(* just when the multiples that the challenges make of the keys are equal.   *)
LEMMA BothVerify ==
  ASSUME PrimeOrder, NEW sig \in [point : Points, s : Scalars], NEW m \in Messages,
         NEW n \in Messages, NEW key \in Scalars, NEW other \in Scalars, NEW w \in Scalars,
         sig.point = Base[w], Verifies(sig, m, Base[key])
  PROVE  Verifies(sig, n, Base[other])
           <=> Times(Challenge(Base[other], sig.point, n), Base[other])
                 = Times(Challenge(Base[key], sig.point, m), Base[key])
<1> DEFINE a == (Challenge(Base[key], sig.point, m) * key) % Order
           b == (Challenge(Base[other], sig.point, n) * other) % Order
<1>1. a \in Scalars /\ Times(Challenge(Base[key], sig.point, m), Base[key]) = Base[a]
  BY ChallengeAsScalars
<1>2. b \in Scalars /\ Times(Challenge(Base[other], sig.point, n), Base[other]) = Base[b]
  BY ChallengeAsScalars
<1>3. sig.s = (a + w) % Order
  BY VerifiesAsScalars
<1>4. Verifies(sig, n, Base[other]) <=> sig.s = (b + w) % Order
  BY VerifiesAsScalars
<1>5. Base[b] = Base[a] <=> b = a
  BY <1>1, <1>2 DEF PrimeOrder
<1> HIDE DEF a, b
<1>6. (b + w) % Order = (a + w) % Order <=> b = a
  BY <1>1, <1>2, Cancel
<1> QED
  BY <1>1, <1>2, <1>3, <1>4, <1>5, <1>6

(* The challenges of the signatures that there are tell apart what was       *)
(* signed from everything else.  Whether they do lies with the hash function *)
(* and the keys: the challenge of no other message is that of the bytes      *)
(* signed, the key is not 0, and the key of no other account gets the        *)
(* multiple from its challenge that the signer's gets.                      *)
ChallengesApart(s) ==
  LET bytes == SignedBytes(s.scheme, s.message)
  IN  /\ \A m \in Messages \ {bytes} :
           /\ s.pub # Base[0]
           /\ Challenge(s.pub, s.sig.point, m) # Challenge(s.pub, s.sig.point, bytes)
      /\ \A i \in Ids :
           Curve(account[i].scheme) = Curve(s.scheme) /\ account[i].pair.pub # s.pub =>
             Times(Challenge(account[i].pair.pub, s.sig.point, bytes), account[i].pair.pub)
               # Times(Challenge(s.pub, s.sig.point, bytes), s.pub)

(* Public keys are multiples of the base point, and so are the points of     *)
(* signatures.                                                              *)
OfScalars(s) == \E key, w \in Scalars : s.pub = Base[key] /\ s.sig.point = Base[w]

SigsOfScalars == \A s \in sigs : OfScalars(s)

LEMMA SignOfScalars ==
  ASSUME Inv, SigsOfScalars, NEW i \in Ids, NEW m \in Texts, Sign(i, m)
  PROVE  SigsOfScalars'
<1> DEFINE acc == account[i]
           bytes == SignedBytes(acc.scheme, m)
           key == ScalarOf(acc.scheme, acc.pair.sec)
<1>1. PICK witness \in IF acc.scheme = "sr25519" THEN Witnesses
                       ELSE {EdWitness(acc.pair.sec, bytes)} :
        sigs' = sigs \cup {[scheme |-> acc.scheme, pub |-> acc.pair.pub, message |-> m,
                            sig |-> Signature(key, acc.pair.pub, bytes, witness)]}
  BY DEF Sign
<1>2. bytes \in Messages
  BY AccountTypes, TextAssumption
<1>3. key \in Scalars /\ acc.pair.pub = Base[key]
  BY AccountTypes, SchemesKnown, GoodKey DEF Good
<1>4. witness \in Scalars
  <2>1. CASE acc.scheme = "sr25519"
    BY <1>1, <2>1, ChainAssumption
  <2>2. CASE acc.scheme # "sr25519"
    <3>1. acc.pair.sec \in Bytes32
      BY <2>2, AccountTypes, SchemesKnown, GoodKey
    <3> QED
      BY <1>1, <1>2, <2>2, <3>1, ChainAssumption
  <2> QED
    BY <2>1, <2>2
<1> DEFINE s == [scheme |-> acc.scheme, pub |-> acc.pair.pub, message |-> m,
                 sig |-> Signature(key, acc.pair.pub, bytes, witness)]
<1>5. s.pub = Base[key] /\ s.sig.point = Base[witness]
  BY <1>3 DEF Signature
<1> HIDE DEF s
<1>6. OfScalars(s)
  BY <1>3, <1>4, <1>5 DEF OfScalars
<1> QED
  BY <1>1, <1>6 DEF SigsOfScalars, OfScalars, s

LEMMA NextOfScalars == Inv /\ SigsOfScalars /\ [Next]_vars => SigsOfScalars'
<1> SUFFICES ASSUME Inv, SigsOfScalars, [Next]_vars PROVE SigsOfScalars'
  OBVIOUS
<1>1. ASSUME sigs' = sigs PROVE SigsOfScalars'
  BY <1>1 DEF SigsOfScalars
<1>2. CASE \E i \in Ids, m \in Texts : Sign(i, m)
  BY <1>2, SignOfScalars
<1>3. CASE Create
  BY <1>1, <1>3 DEF Create, New
<1>4. CASE \E i \in Ids : Derive(i) \/ Step(i) \/ Reload(i) \/ Watch(i)
  BY <1>1, <1>4 DEF Derive, New, Step, Reload, Watch
<1>5. CASE \E w \in watched, j \in Junctions : Follow(w, j)
  BY <1>1, <1>5 DEF Follow
<1>6. CASE UNCHANGED vars
  BY <1>1, <1>6 DEF vars
<1> QED
  BY <1>2, <1>3, <1>4, <1>5, <1>6 DEF Next

LEMMA NothingElseForOne ==
  ASSUME PrimeOrder, Inv, NEW s \in sigs, OfScalars(s)
  PROVE  LET bytes == SignedBytes(s.scheme, s.message)
         IN  ChallengesApart(s) <=>
               /\ \A m \in Messages \ {bytes} : ~Verifies(s.sig, m, s.pub)
               /\ \A i \in Ids :
                    Curve(account[i].scheme) = Curve(s.scheme) /\ account[i].pair.pub # s.pub =>
                      ~Verifies(s.sig, bytes, account[i].pair.pub)
<1> DEFINE bytes == SignedBytes(s.scheme, s.message)
           Of(m, pub) == Challenge(pub, s.sig.point, m)
<1>1. PICK key \in Scalars, w \in Scalars : s.pub = Base[key] /\ s.sig.point = Base[w]
  BY DEF OfScalars
<1>2. /\ s.scheme \in Schemes /\ s.message \in Texts /\ s.sig \in [point : Points, s : Scalars]
      /\ Verifies(s.sig, bytes, s.pub)
  BY DEF Inv, GoodSigs
<1>3. bytes \in Messages
  BY <1>2, TextAssumption
<1>4. ASSUME NEW m \in Messages, NEW other \in Scalars
      PROVE  Verifies(s.sig, m, Base[other])
               <=> Times(Of(m, Base[other]), Base[other]) = Times(Of(bytes, s.pub), s.pub)
  <2> HIDE DEF bytes
  <2> QED
    BY <1>1, <1>2, <1>3, BothVerify
<1>5. ASSUME NEW m \in Messages
      PROVE  Verifies(s.sig, m, s.pub)
               <=> (s.pub = Base[0] \/ Of(m, s.pub) = Of(bytes, s.pub))
  <2> DEFINE a == Of(m, s.pub)
             b == Of(bytes, s.pub)
  <2>1. /\ a \in Scalars /\ b \in Scalars
        /\ Times(a, s.pub) = Base[(a * key) % Order] /\ (a * key) % Order \in Scalars
        /\ Times(b, s.pub) = Base[(b * key) % Order] /\ (b * key) % Order \in Scalars
    <3> HIDE DEF bytes
    <3>1. ASSUME NEW n \in Messages
          PROVE  LET c == Challenge(s.pub, s.sig.point, n)
                 IN  /\ c \in Scalars /\ (c * key) % Order \in Scalars
                     /\ Times(c, s.pub) = Base[(c * key) % Order]
      BY <1>1, <1>2, ChallengeAsScalars
    <3> QED
      BY <1>3, <3>1
  <2>2. Verifies(s.sig, m, s.pub) <=> Times(a, s.pub) = Times(b, s.pub)
    BY <1>1, <1>4
  <2> HIDE DEF a, b
  <2>3. Times(a, s.pub) = Times(b, s.pub) <=> (a * key) % Order = (b * key) % Order
    BY <2>1 DEF PrimeOrder
  <2>4. s.pub = Base[0] <=> key = 0
    <3>1. 0 \in Scalars
      BY GroupAssumption DEF Scalars
    <3> QED
      BY <1>1, <3>1 DEF PrimeOrder
  <2>5. CASE key = 0
    <3>1. a * key = 0 /\ b * key = 0
      BY <2>1, <2>5, GroupAssumption DEF Scalars
    <3> QED
      BY <2>2, <2>3, <2>4, <2>5, <3>1 DEF a, b
  <2>6. CASE key # 0
    BY <2>1, <2>2, <2>3, <2>4, <2>6, OneFactor DEF a, b
  <2> QED
    BY <2>5, <2>6
<1>6. ASSUME NEW i \in Ids
      PROVE  Verifies(s.sig, bytes, account[i].pair.pub)
               <=> Times(Of(bytes, account[i].pair.pub), account[i].pair.pub)
                     = Times(Of(bytes, s.pub), s.pub)
  <2>1. PICK other \in Scalars : account[i].pair.pub = Base[other]
    BY AccountTypes, SchemesKnown, GoodKey DEF Good
  <2> HIDE DEF bytes, Of
  <2> QED
    BY <1>3, <1>4, <2>1
<1> QED
  BY <1>5, <1>6 DEF ChallengesApart

(* Where the order of the group is prime, a signature verifies with another *)
(* message than the bytes signed, or those with another key, just where the  *)
(* challenges do not tell them apart: derivations and the bytes that sr25519 *)
(* signs of a message that is not ASCII are no way to it                    *)
(* (schnorrkel.dart:48-55, sr25519.rs:107-127, ed25519.rs:39-58).            *)
THEOREM OnlyWhatWasSigned ==
  ASSUME PrimeOrder
  PROVE  Spec => [](NothingElseVerifies <=> \A s \in sigs : ChallengesApart(s))
<1>1. Init => SigsOfScalars
  BY DEF Init, SigsOfScalars
<1>2. Spec => []SigsOfScalars
  BY <1>1, NextOfScalars, AlwaysInv, PTL DEF Spec
<1>3. Inv /\ SigsOfScalars => (NothingElseVerifies <=> \A s \in sigs : ChallengesApart(s))
  BY NothingElseForOne DEF NothingElseVerifies, SigsOfScalars
<1> QED
  BY <1>2, <1>3, AlwaysInv, PTL
=============================================================================
