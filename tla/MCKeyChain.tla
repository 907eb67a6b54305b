----------------------------- MODULE MCKeyChain -----------------------------
(* KeyChain over the integers modulo a prime as the group: the multiple of *)
(* a scalar is 7 times it, and the hashes are polynomials, chosen so that  *)
(* what is hashed here does not collide.                                   *)
EXTENDS KeyChain

P == 251
MCChainCodes == {1, 4}

MCPoints == 0 .. P - 1
MCBytes == 0 .. P - 1
MCBase == [a \in 0 .. P - 1 |-> (7 * a) % P]
MCPlus(p, q) == (p + q) % P
MCTimes(k, p) == (k * p) % P

(* A "hash" of two numbers. *)
Mix(a, b, c) == (a * a * a + 146 * a * b + 142 * b * b + c * a + 52 * c + b) % P

MCExpandHash == [b \in MCBytes |-> << Mix(b, 1, 2), Mix(b, 2, 3) >>]
MCHardHash(k, cc) == Mix(k, cc, 17)
MCSoftHash(p, cc) == Mix(p, cc, 23)
MCEdHash == [b \in MCBytes |-> (b * 13 + 6) % P]
MCEdHardHash(b, cc) == Mix(b, cc, 29)
MCMasterMac == [b \in MCBytes |-> << Mix(b, 3, 5), Mix(b, 4, 7) >>]
MCChildMac(b, c, n) == << Mix(Mix(b, c, 31), n, 37), Mix(Mix(b, c, 41), n, 43) >>

(* An ASCII message, one that is not, and the bytes that are signed for it. *)
MCTexts == {<< 97 >>, << 97, 233 >>}
MCMessages == MCTexts \cup {<< >>, << 97, 195, 169 >>}
Code(m) == CASE m = << >> -> 0 [] m = << 97 >> -> 19 [] m = << 97, 233 >> -> 27 [] OTHER -> 40

MCSignHash(p, q, m) == Mix(Mix(p, q, 47), Code(m), 53)
MCEdWitness(b, m) == Mix(b, Code(m), 59)

(* The order is prime and 7 generates the group. *)
ASSUME MCPrimeOrder == PrimeOrder

(* The hashes tell apart, at the seed used here, what has to be told apart. *)
ASSUME ToldApart ==
  /\ HardHash(2, 1) # HardHash(2, 4)
  /\ SoftHash(Base[2], 1) # SoftHash(Base[2], 4)
  /\ EdHardHash(2, 1) # EdHardHash(2, 4)
  /\ ChildMac(MasterMac[2][2], MasterMac[2][1], 1) # ChildMac(MasterMac[2][2], MasterMac[2][1], 4)
  /\ ExpandHash[2] # ExpandHash[3] /\ EdHash[2] # EdHash[3]
  /\ SignHash(Base[2], Base[33], << 97 >>) # SignHash(Base[2], Base[33], << 97, 233 >>)
  /\ EdWitness(2, << 97 >>) # EdWitness(2, << 97, 233 >>)

(* Two hard junctions, and a soft one with the chain code of the first.     *)
MCJunctions == [cc : MCChainCodes, hard : {TRUE}] \cup [cc : {1}, hard : {FALSE}]
=============================================================================
