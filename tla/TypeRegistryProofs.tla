------------------------- MODULE TypeRegistryProofs -------------------------
(***************************************************************************)
(* Proofs about TypeRegistry.tla, for any finite set of type names, any    *)
(* standard definitions and any registrations.                             *)
(*                                                                         *)
(* The argument is about walks along aliases: one that has stopped stays   *)
(* where it is, one that starts on the way of another ends where that one   *)
(* ends, and one that knows fewer classes comes through the end of the one  *)
(* that knows more.                                                        *)
(***************************************************************************)
EXTENDS TypeRegistry, FiniteSetTheorems, WellFoundedInduction, TLAPS

(* Natural numbers, by induction on a set of them.                         *)
LEMMA NatSetInduction ==
  ASSUME NEW S \in SUBSET Nat, 0 \in S, \A n \in S : n + 1 \in S
  PROVE  S = Nat
<1> SUFFICES ASSUME Nat \ S # {} PROVE FALSE
  OBVIOUS
<1> DEFINE T == Nat \ S
           Less == OpToRel(<, Nat)
<1>1. \E x \in T : \A y \in T : ~(<< y, x >> \in Less)
  <2>1. IsWellFoundedOn(Less, Nat)
    BY NatLessThanWellFounded
  <2>2. T \subseteq Nat /\ T # {}
    OBVIOUS
  <2> HIDE DEF T, Less
  <2> QED
    BY <2>1, <2>2, WFMin
<1>2. PICK x \in T : \A y \in T : ~(<< y, x >> \in Less)
  BY <1>1
<1>3. x # 0 /\ x - 1 \in Nat /\ x - 1 \notin S
  OBVIOUS
<1>4. << x - 1, x >> \in Less
  BY <1>3 DEF OpToRel
<1> QED
  BY <1>2, <1>3, <1>4
-----------------------------------------------------------------------------
(* Walks.                                                                  *)

Steps == Cardinality(Names)

LEMMA StepsType == Steps \in Nat
  BY NamesAssumption, FS_CardinalityType DEF Steps

(* Definitions of names.                                                   *)
Known(defs) == DOMAIN defs \subseteq Names /\ \A n \in DOMAIN defs : defs[n] \in Definitions

(* The next name of a walk.                                                *)
After(n, known, defs) == IF Stops(n, known, defs) THEN n ELSE defs[n].type

LEMMA AfterType ==
  ASSUME NEW defs, Known(defs), NEW known, NEW n \in Names
  PROVE  After(n, known, defs) \in Names
BY DEF After, Stops, Known, Definitions

Goes(step, n, known, defs, m) ==
  step = [i \in 0 .. m |-> IF i = 0 THEN n ELSE After(step[i - 1], known, defs)]

LEMMA WalkExists ==
  ASSUME NEW n, NEW known, NEW defs
  PROVE  \A m \in Nat : \E step : Goes(step, n, known, defs, m)
<1> DEFINE S == {m \in Nat : \E step : Goes(step, n, known, defs, m)}
           next(v) == After(v, known, defs)
<1>0. ASSUME NEW m \in Nat, NEW step
      PROVE  Goes(step, n, known, defs, m)
               <=> step = [i \in 0 .. m |-> IF i = 0 THEN n ELSE next(step[i - 1])]
  BY DEF Goes
<1> HIDE DEF next
<1>1. 0 \in S
  <2> DEFINE step == [i \in 0 .. 0 |-> n]
  <2>1. step = [i \in 0 .. 0 |-> IF i = 0 THEN n ELSE next(step[i - 1])]
    OBVIOUS
  <2> HIDE DEF step
  <2> QED
    BY <1>0, <2>1
<1>2. ASSUME NEW m \in S PROVE m + 1 \in S
  <2>1. PICK step : step = [i \in 0 .. m |-> IF i = 0 THEN n ELSE next(step[i - 1])]
    BY <1>0
  <2> DEFINE more == [i \in 0 .. m + 1 |-> IF i = m + 1 THEN next(step[m]) ELSE step[i]]
  <2>2. m \in Nat /\ DOMAIN step = 0 .. m
    BY <2>1
  <2>3. ASSUME NEW i \in 0 .. m + 1
        PROVE  more[i] = IF i = 0 THEN n ELSE next(more[i - 1])
    <3>1. CASE i = 0
      <4>1. more[i] = step[0] /\ 0 \in 0 .. m
        BY <2>2, <3>1
      <4> QED
        BY <2>1, <3>1, <4>1
    <3>2. CASE i = m + 1
      <4>1. i # 0 /\ i - 1 = m /\ m \in 0 .. m + 1 /\ m # m + 1
        BY <2>2, <3>2
      <4>2. more[i - 1] = step[m] /\ more[i] = next(step[m])
        BY <3>2, <4>1
      <4> QED
        BY <3>2, <4>1, <4>2
    <3>3. CASE i # 0 /\ i # m + 1
      <4>1. i \in 0 .. m /\ i - 1 \in 0 .. m + 1 /\ i - 1 # m + 1
        BY <2>2, <3>3
      <4>2. more[i] = step[i] /\ more[i - 1] = step[i - 1]
        BY <3>3, <4>1
      <4>3. step[i] = next(step[i - 1])
        BY <2>1, <3>3, <4>1
      <4> QED
        BY <3>3, <4>2, <4>3
    <3> QED
      BY <3>1, <3>2, <3>3
  <2>4. more = [i \in 0 .. m + 1 |-> IF i = 0 THEN n ELSE next(more[i - 1])]
    <3>1. more = [i \in 0 .. m + 1 |-> more[i]]
      OBVIOUS
    <3> HIDE DEF more
    <3> QED
      BY <2>3, <3>1
  <2> HIDE DEF more
  <2> QED
    BY <1>0, <2>2, <2>4
<1>3. S = Nat
  <2>1. S \in SUBSET Nat
    OBVIOUS
  <2> HIDE DEF S
  <2> QED
    BY <1>1, <1>2, <2>1, NatSetInduction
<1> QED
  BY <1>3

LEMMA WalkSteps ==
  ASSUME NEW n, NEW known, NEW defs
  PROVE  /\ DOMAIN Walk(n, known, defs) = 0 .. Steps
         /\ Walk(n, known, defs)[0] = n
         /\ \A i \in 0 .. Steps - 1 :
              Walk(n, known, defs)[i + 1] = After(Walk(n, known, defs)[i], known, defs)
<1> DEFINE step == Walk(n, known, defs)
           next(v) == After(v, known, defs)
<1>1. PICK s : Goes(s, n, known, defs, Steps)
  BY WalkExists, StepsType
<1>2. step = [i \in 0 .. Steps |-> IF i = 0 THEN n ELSE next(step[i - 1])]
  BY <1>1 DEF Goes, Walk, After, Steps
<1> HIDE DEF step, next
<1>3. DOMAIN step = 0 .. Steps /\ step[0] = n
  BY <1>2, StepsType
<1>4. ASSUME NEW i \in 0 .. Steps - 1 PROVE step[i + 1] = next(step[i])
  <2>1. i + 1 \in 0 .. Steps /\ i + 1 # 0 /\ (i + 1) - 1 = i
    BY StepsType
  <2> QED
    BY <1>2, <2>1
<1> QED
  BY <1>3, <1>4 DEF step, next

LEMMA WalkType ==
  ASSUME NEW defs, Known(defs), NEW known, NEW n \in Names
  PROVE  \A i \in 0 .. Steps : Walk(n, known, defs)[i] \in Names
<1> DEFINE W == Walk(n, known, defs)
           S == {i \in Nat : i <= Steps => W[i] \in Names}
<1>1. 0 \in S
  BY WalkSteps
<1>2. ASSUME NEW i \in S PROVE i + 1 \in S
  <2> SUFFICES ASSUME i + 1 <= Steps PROVE W[i + 1] \in Names
    OBVIOUS
  <2>1. i \in 0 .. Steps - 1 /\ W[i] \in Names
    BY StepsType
  <2>2. W[i + 1] = After(W[i], known, defs)
    BY <2>1, WalkSteps
  <2> HIDE DEF W
  <2> QED
    BY <2>1, <2>2, AfterType
<1>3. S = Nat
  <2>1. S \in SUBSET Nat
    OBVIOUS
  <2> HIDE DEF S
  <2> QED
    BY <1>1, <1>2, <2>1, NatSetInduction
<1> QED
  BY <1>3

(* A walk that has stopped stays where it is.                              *)
LEMMA WalkStays ==
  ASSUME NEW n, NEW known, NEW defs, NEW i \in 0 .. Steps,
         Stops(Walk(n, known, defs)[i], known, defs)
  PROVE  \A j \in i .. Steps : Walk(n, known, defs)[j] = Walk(n, known, defs)[i]
<1> DEFINE W == Walk(n, known, defs)
           S == {k \in Nat : i + k <= Steps => W[i + k] = W[i]}
<1>0. i \in Nat /\ i <= Steps
  BY StepsType
<1>1. 0 \in S
  BY <1>0
<1>2. ASSUME NEW k \in S PROVE k + 1 \in S
  <2> SUFFICES ASSUME i + (k + 1) <= Steps PROVE W[i + (k + 1)] = W[i]
    OBVIOUS
  <2>1. k \in Nat /\ i + k \in 0 .. Steps - 1 /\ i + (k + 1) = (i + k) + 1 /\ i + k <= Steps
    BY <1>0, StepsType
  <2>2. W[i + k] = W[i]
    BY <2>1
  <2>3. W[(i + k) + 1] = After(W[i + k], known, defs)
    BY <2>1, WalkSteps
  <2> HIDE DEF W
  <2>4. After(W[i], known, defs) = W[i]
    BY DEF After, W
  <2> QED
    BY <2>1, <2>2, <2>3, <2>4
<1>3. S = Nat
  <2>1. S \in SUBSET Nat
    OBVIOUS
  <2> HIDE DEF S
  <2> QED
    BY <1>1, <1>2, <2>1, NatSetInduction
<1>4. ASSUME NEW j \in i .. Steps PROVE W[j] = W[i]
  <2>1. j - i \in Nat /\ i + (j - i) = j /\ j <= Steps
    BY <1>0, StepsType
  <2>2. j - i \in S
    BY <1>3, <2>1
  <2>3. i + (j - i) <= Steps => W[i + (j - i)] = W[i]
    BY <2>2
  <2> HIDE DEF W, S
  <2> QED
    BY <2>1, <2>3
<1> QED
  BY <1>4

(* A walk that starts on the way of another goes on as that one does.       *)
LEMMA WalkGoesOn ==
  ASSUME NEW n, NEW known, NEW defs, NEW i \in 0 .. Steps
  PROVE  \A j \in 0 .. Steps - i :
           Walk(Walk(n, known, defs)[i], known, defs)[j] = Walk(n, known, defs)[i + j]
<1> DEFINE W == Walk(n, known, defs)
           V == Walk(W[i], known, defs)
           S == {j \in Nat : i + j <= Steps => V[j] = W[i + j]}
<1>0. i \in Nat /\ i <= Steps
  BY StepsType
<1>1. 0 \in S
  <2>1. V[0] = W[i]
    BY WalkSteps
  <2>2. i + 0 = i
    BY <1>0
  <2> HIDE DEF V, W
  <2> QED
    BY <2>1, <2>2
<1>2. ASSUME NEW j \in S PROVE j + 1 \in S
  <2> SUFFICES ASSUME i + (j + 1) <= Steps PROVE V[j + 1] = W[i + (j + 1)]
    OBVIOUS
  <2>1. /\ j \in Nat /\ i + j \in 0 .. Steps - 1 /\ i + (j + 1) = (i + j) + 1
        /\ j \in 0 .. Steps - 1 /\ i + j <= Steps
    BY <1>0, StepsType
  <2>2. V[j] = W[i + j]
    BY <2>1
  <2>3. W[(i + j) + 1] = After(W[i + j], known, defs)
    BY <2>1, WalkSteps
  <2>4. V[j + 1] = After(V[j], known, defs)
    BY <2>1, WalkSteps
  <2> HIDE DEF V, W
  <2> QED
    BY <2>1, <2>2, <2>3, <2>4
<1>3. S = Nat
  <2>1. S \in SUBSET Nat
    OBVIOUS
  <2> HIDE DEF S
  <2> QED
    BY <1>1, <1>2, <2>1, NatSetInduction
<1>4. ASSUME NEW j \in 0 .. Steps - i PROVE V[j] = W[i + j]
  <2>1. j \in Nat /\ i + j <= Steps
    BY <1>0, StepsType
  <2>2. j \in S
    BY <1>3, <2>1
  <2> HIDE DEF V, W
  <2> QED
    BY <2>1, <2>2
<1> QED
  BY <1>4

(* A walk that knows more classes is where one that knows fewer was, or is. *)
LEMMA WalkKnowingLess ==
  ASSUME NEW n, NEW known, NEW fewer, NEW defs, DOMAIN fewer \subseteq DOMAIN known
  PROVE  \A i \in 0 .. Steps : \E j \in 0 .. i :
           /\ Walk(n, known, defs)[i] = Walk(n, fewer, defs)[j]
           /\ j = i \/ Stops(Walk(n, known, defs)[i], known, defs)
<1> DEFINE W == Walk(n, known, defs)
           V == Walk(n, fewer, defs)
           P(i) == \E j \in 0 .. i : W[i] = V[j] /\ (j = i \/ Stops(W[i], known, defs))
           S == {i \in Nat : i <= Steps => P(i)}
<1>1. 0 \in S
  <2>1. W[0] = V[0] /\ 0 \in 0 .. 0
    BY WalkSteps
  <2> QED
    BY <2>1
<1>2. ASSUME NEW i \in S PROVE i + 1 \in S
  <2> SUFFICES ASSUME i + 1 <= Steps PROVE P(i + 1)
    OBVIOUS
  <2>1. i \in Nat /\ i \in 0 .. Steps - 1 /\ i + 1 \in 0 .. i + 1
    BY StepsType
  <2>2. PICK j \in 0 .. i : W[i] = V[j] /\ (j = i \/ Stops(W[i], known, defs))
    <3>1. i <= Steps
      BY <2>1, StepsType
    <3>2. P(i)
      <4> HIDE DEF P
      <4> QED
        BY <3>1
    <3> QED
      BY <3>2
  <2>3. W[i + 1] = After(W[i], known, defs) /\ V[i + 1] = After(V[i], fewer, defs)
    BY <2>1, WalkSteps
  <2> HIDE DEF V, W
  <2>4. CASE Stops(W[i], known, defs)
    <3>1. W[i + 1] = W[i] /\ j \in 0 .. i + 1
      BY <2>1, <2>3, <2>4 DEF After
    <3> QED
      BY <2>2, <2>4, <3>1
  <2>5. CASE ~Stops(W[i], known, defs)
    <3>1. W[i] = V[i]
      BY <2>2, <2>5
    <3>2. ~Stops(V[i], fewer, defs)
      BY <2>5, <3>1 DEF Stops
    <3>3. W[i + 1] = V[i + 1]
      BY <2>3, <2>5, <3>1, <3>2 DEF After
    <3> QED
      BY <2>1, <3>3
  <2> QED
    BY <2>4, <2>5
<1>3. S = Nat
  <2>1. S \in SUBSET Nat
    OBVIOUS
  <2> HIDE DEF S
  <2> QED
    BY <1>1, <1>2, <2>1, NatSetInduction
<1>4. ASSUME NEW i \in 0 .. Steps PROVE P(i)
  <2>1. i \in S /\ i <= Steps
    BY <1>3, StepsType
  <2> HIDE DEF P
  <2> QED
    BY <2>1
<1> QED
  BY <1>4

(* Where no alias comes back to itself, every walk ends.                   *)
LEMMA WalkEnds ==
  ASSUME NEW defs, Grounded(defs), NEW known, NEW n \in Names
  PROVE  Stops(Walk(n, known, defs)[Steps], known, defs)
<1>1. Stops(Walk(n, << >>, defs)[Steps], << >>, defs)
  BY DEF Grounded, Steps
<1>2. PICK j \in 0 .. Steps :
        /\ Walk(n, known, defs)[Steps] = Walk(n, << >>, defs)[j]
        /\ j = Steps \/ Stops(Walk(n, known, defs)[Steps], known, defs)
  <2>1. DOMAIN << >> \subseteq DOMAIN known /\ Steps \in 0 .. Steps
    BY StepsType
  <2> QED
    BY <2>1, WalkKnowingLess
<1> QED
  BY <1>1, <1>2 DEF Stops

(* A walk that starts on the way of another ends where that one ends.       *)
LEMMA SameEnd ==
  ASSUME NEW defs, Grounded(defs), NEW known, NEW n \in Names, NEW i \in 0 .. Steps
  PROVE  Walk(Walk(n, known, defs)[i], known, defs)[Steps] = Walk(n, known, defs)[Steps]
<1> DEFINE W == Walk(n, known, defs)
           V == Walk(W[i], known, defs)
<1>1. Steps - i \in 0 .. Steps /\ Steps - i \in 0 .. Steps - i /\ i + (Steps - i) = Steps
      /\ Steps \in (Steps - i) .. Steps
  BY StepsType
<1>2. V[Steps - i] = W[i + (Steps - i)]
  BY <1>1, WalkGoesOn
<1>3. Stops(W[Steps], known, defs)
  BY WalkEnds
<1>4. Stops(V[Steps - i], known, defs)
  BY <1>1, <1>2, <1>3
<1>5. V[Steps] = V[Steps - i]
  BY <1>1, <1>4, WalkStays
<1> QED
  BY <1>1, <1>2, <1>5

(* So does one that knows fewer classes, and starts there.                  *)
LEMMA SameEndKnowingLess ==
  ASSUME NEW defs, Grounded(defs), NEW known, NEW fewer, DOMAIN fewer \subseteq DOMAIN known,
         NEW n \in Names, NEW i \in 0 .. Steps
  PROVE  Walk(Walk(n, known, defs)[i], fewer, defs)[Steps] = Walk(n, fewer, defs)[Steps]
<1>1. PICK j \in 0 .. i : Walk(n, known, defs)[i] = Walk(n, fewer, defs)[j]
  BY WalkKnowingLess
<1>2. j \in 0 .. Steps
  BY StepsType
<1> QED
  BY <1>1, <1>2, SameEnd

(* A walk from where it stops at once ends there.                          *)
LEMMA StoppedEnd ==
  ASSUME NEW n, NEW known, NEW defs, Stops(n, known, defs)
  PROVE  Walk(n, known, defs)[Steps] = n
<1>1. 0 \in 0 .. Steps /\ Steps \in 0 .. Steps
  BY StepsType
<1>2. Walk(n, known, defs)[0] = n
  BY WalkSteps
<1> QED
  BY <1>1, <1>2, WalkStays
-----------------------------------------------------------------------------
(* The invariant.                                                          *)

(* Before types are registered late, what was resolved and kept for a name  *)
(* is what the registrations mean by it.                                   *)
KeptAsMeant == ~late => \A n \in Resolved : classes[n] = Meaning(n)

(* What was resolved and kept for a name that is no alias is always right.  *)
KeptRight ==
  \A n \in Resolved :
    /\ n \notin DOMAIN definitions => classes[n] = Own(Null)
    /\ n \in DOMAIN definitions /\ definitions[n].kind = "derived" =>
         classes[n] = Derived(definitions[n])

Base == TypeOK /\ Grounded(definitions)
Inv  == Base /\ KeptAsMeant /\ KeptRight

Registrations == Restrict(classes, direct)

LEMMA BaseFacts ==
  ASSUME Base
  PROVE  /\ Known(definitions) /\ direct \subseteq DOMAIN classes /\ direct \subseteq Names
         /\ DOMAIN Registrations = direct
         /\ \A n \in direct : Registrations[n] = classes[n]
BY DEF Base, TypeOK, Known, Range, Registrations, Restrict

LEMMA PathIs ==
  ASSUME NEW n, NEW m \in Path(n, classes)
  PROVE  \E i \in 0 .. Steps : m = Walk(n, classes, definitions)[i]
<1>1. DOMAIN Walk(n, classes, definitions) = 0 .. Steps
  BY WalkSteps
<1> QED
  BY <1>1 DEF Path, Range

LEMMA OnPath ==
  ASSUME NEW n
  PROVE  n \in Path(n, classes) /\ End(n, classes) \in Path(n, classes)
<1>1. DOMAIN Walk(n, classes, definitions) = 0 .. Steps /\ Walk(n, classes, definitions)[0] = n
  BY WalkSteps
<1>2. 0 \in 0 .. Steps /\ Steps \in 0 .. Steps
  BY StepsType
<1>3. /\ Walk(n, classes, definitions)[0] \in Path(n, classes)
      /\ Walk(n, classes, definitions)[Steps] \in Path(n, classes)
  BY <1>1, <1>2 DEF Path, Range
<1> QED
  BY <1>1, <1>3 DEF End, Steps

(* Only the last name of a path stops the walk.                             *)
LEMMA StopsAtEnd ==
  ASSUME NEW n, NEW m \in Path(n, classes), Stops(m, classes, definitions)
  PROVE  m = End(n, classes)
<1>1. PICK i \in 0 .. Steps : m = Walk(n, classes, definitions)[i]
  BY PathIs
<1>2. Steps \in i .. Steps
  BY StepsType
<1>3. Walk(n, classes, definitions)[Steps] = Walk(n, classes, definitions)[i]
  BY <1>1, <1>2, WalkStays
<1> QED
  BY <1>1, <1>3 DEF End, Steps

LEMMA PathType ==
  ASSUME Base, NEW n \in Names
  PROVE  Path(n, classes) \subseteq Names
<1> SUFFICES ASSUME NEW m \in Path(n, classes) PROVE m \in Names
  OBVIOUS
<1>1. PICK i \in 0 .. Steps : m = Walk(n, classes, definitions)[i]
  BY PathIs
<1> QED
  BY <1>1, WalkType, BaseFacts

LEMMA EndStops ==
  ASSUME Base, NEW n \in Names
  PROVE  /\ Stops(End(n, classes), classes, definitions)
         /\ Stops(End(n, Registrations), Registrations, definitions)
BY WalkEnds DEF Base, End, Steps

LEMMA ClassType ==
  ASSUME Base, NEW n \in Names
  PROVE  Answer(n) \in Classes
<1>1. End(n, classes) \in Names
  BY OnPath, PathType
<1>2. \A m \in DOMAIN classes : classes[m] \in Classes
  BY DEF Base, TypeOK, Range
<1>3. \A m \in DOMAIN definitions : definitions[m].type \in Names
  BY BaseFacts DEF Known, Definitions
<1>4. Null \in Names
  BY NamesAssumption
<1> QED
  BY <1>1, <1>2, <1>3, <1>4 DEF Answer, ClassOf, Classes, Derived, Own

(* What the registrations mean is the same for the names of a path.         *)
LEMMA PathMeans ==
  ASSUME Base, NEW n \in Names, NEW m \in Path(n, classes)
  PROVE  Meaning(m) = Meaning(n)
<1>1. PICK i \in 0 .. Steps : m = Walk(n, classes, definitions)[i]
  BY PathIs
<1>2. Walk(m, Registrations, definitions)[Steps] = Walk(n, Registrations, definitions)[Steps]
  BY <1>1, SameEndKnowingLess, BaseFacts, ZenonT(60) DEF Base
<1> QED
  BY <1>2 DEF Meaning, ClassOf, End, Steps, Registrations

(* A name that stops a walk is its own end.                                *)
LEMMA StoppedMeans ==
  ASSUME Base, NEW n, Stops(n, Registrations, definitions)
  PROVE  Meaning(n) = IF n \in direct THEN classes[n]
                      ELSE IF n \in DOMAIN definitions THEN Derived(definitions[n])
                      ELSE Own(Null)
<1>1. End(n, Registrations) = n
  BY StoppedEnd DEF End, Steps
<1> QED
  BY <1>1, BaseFacts DEF Meaning, ClassOf, Registrations

LEMMA StoppedAnswers ==
  ASSUME Base, NEW n, Stops(n, classes, definitions)
  PROVE  Answer(n) = IF n \in DOMAIN classes THEN classes[n]
                     ELSE IF n \in DOMAIN definitions THEN Derived(definitions[n])
                     ELSE Own(Null)
<1>1. End(n, classes) = n
  BY StoppedEnd DEF End, Steps
<1> QED
  BY <1>1 DEF Answer, ClassOf

(* While nothing is registered late, users get what the registrations mean. *)
LEMMA AnswersAsMeant == Base /\ KeptAsMeant => OrderIndependent
<1> SUFFICES ASSUME Base, KeptAsMeant, ~late, NEW n \in Names PROVE Answer(n) = Meaning(n)
  BY DEF OrderIndependent
<1> DEFINE e == End(n, classes)
<1>1. e \in Path(n, classes) /\ Stops(e, classes, definitions) /\ Meaning(e) = Meaning(n)
  BY OnPath, EndStops, PathMeans
<1>2. Answer(n) = IF e \in DOMAIN classes THEN classes[e]
                  ELSE IF e \in DOMAIN definitions THEN Derived(definitions[e])
                  ELSE Own(Null)
  BY DEF Answer, ClassOf
<1> HIDE DEF e
<1>3. CASE e \in direct
  <2>1. Stops(e, Registrations, definitions)
    BY <1>3, BaseFacts DEF Stops
  <2> QED
    BY <1>1, <1>2, <1>3, <2>1, StoppedMeans, BaseFacts
<1>4. CASE e \in DOMAIN classes \ direct
  BY <1>1, <1>2, <1>4 DEF KeptAsMeant, Resolved
<1>5. CASE e \notin DOMAIN classes
  <2>1. Stops(e, Registrations, definitions) /\ e \notin direct
    BY <1>1, <1>5, BaseFacts DEF Stops
  <2> QED
    BY <1>1, <1>2, <1>5, <2>1, StoppedMeans
<1> QED
  BY <1>3, <1>4, <1>5

(* Whenever types are registered, only aliases go stale.                   *)
LEMMA OthersFresh == Base /\ KeptRight => OnlyAliasesGoStale
<1> SUFFICES ASSUME Base, KeptRight, NEW n \in Names,
                    n \in direct \/ n \notin DOMAIN definitions \/ definitions[n].kind # "alias"
             PROVE  Answer(n) = Meaning(n)
  BY DEF OnlyAliasesGoStale
<1>1. n \in DOMAIN definitions => definitions[n].kind \in {"alias", "derived"}
  BY BaseFacts DEF Known, Definitions
<1>2. Stops(n, Registrations, definitions) /\ Stops(n, classes, definitions)
  BY <1>1, BaseFacts DEF Stops
<1>3. CASE n \in direct
  BY <1>2, <1>3, StoppedMeans, StoppedAnswers, BaseFacts
<1>4. CASE n \in DOMAIN classes \ direct
  <2>1. classes[n] = IF n \in DOMAIN definitions THEN Derived(definitions[n]) ELSE Own(Null)
    BY <1>1, <1>4 DEF KeptRight, Resolved
  <2> QED
    BY <1>2, <1>4, <2>1, StoppedMeans, StoppedAnswers
<1>5. CASE n \notin DOMAIN classes
  BY <1>2, <1>5, StoppedMeans, StoppedAnswers, BaseFacts
<1> QED
  BY <1>3, <1>4, <1>5
-----------------------------------------------------------------------------
(* The steps.                                                              *)

(* getConstructor adds classes and replaces none.                          *)
LEMMA OnlyAdds ==
  ASSUME Base, NEW n \in Names, classes' = Cached(n)
  PROVE  /\ DOMAIN classes' = Path(n, classes) \cup DOMAIN classes
         /\ \A m \in DOMAIN classes : classes'[m] = classes[m]
         /\ \A m \in Path(n, classes) : classes'[m] = Answer(n)
<1>1. /\ DOMAIN classes' = Path(n, classes) \cup DOMAIN classes
      /\ \A m \in Path(n, classes) : classes'[m] = Answer(n)
      /\ \A m \in DOMAIN classes \ Path(n, classes) : classes'[m] = classes[m]
  BY DEF Cached, Answer, Over
<1>2. ASSUME NEW m \in DOMAIN classes, m \in Path(n, classes) PROVE classes'[m] = classes[m]
  <2>1. m = End(n, classes)
    BY <1>2, StopsAtEnd DEF Stops
  <2>2. Answer(n) = classes[m]
    BY <2>1 DEF Answer, ClassOf
  <2> QED
    BY <1>1, <1>2, <2>2
<1> QED
  BY <1>1, <1>2

LEMMA GetConstructorKeeps ==
  ASSUME Inv, NEW n \in Names, NEW withUnknown \in BOOLEAN, GetConstructor(n, withUnknown)
  PROVE  Inv'
<1>0. /\ Base /\ KeptAsMeant /\ KeptRight
      /\ classes' = Cached(n) /\ unknownTypes' = unknownTypes \cup Unknown(n)
      /\ definitions' = definitions /\ direct' = direct /\ late' = late
  BY DEF Inv, GetConstructor
<1>1. /\ DOMAIN classes' = Path(n, classes) \cup DOMAIN classes
      /\ \A m \in DOMAIN classes : classes'[m] = classes[m]
      /\ \A m \in Path(n, classes) : classes'[m] = Answer(n)
  BY <1>0, OnlyAdds
<1>2. Path(n, classes) \subseteq Names /\ End(n, classes) \in Path(n, classes)
  BY <1>0, PathType, OnPath
<1>3. Base'
  <2>1. DOMAIN classes' \subseteq Names /\ Range(classes') \subseteq Classes
    <3>1. \A m \in DOMAIN classes' : classes'[m] \in Classes
      BY <1>0, <1>1, ClassType DEF Base, TypeOK, Range
    <3> QED
      BY <1>0, <1>1, <1>2, <3>1 DEF Base, TypeOK, Range
  <2>2. unknownTypes' \subseteq Names
    BY <1>0, <1>2 DEF Unknown, Base, TypeOK
  <2>3. direct' \subseteq DOMAIN classes'
    BY <1>0, <1>1, BaseFacts
  <2>4. ASSUME NEW m \in DOMAIN classes'
        PROVE  m \in direct' \cup DOMAIN definitions' \cup unknownTypes'
    <3>1. CASE m \in DOMAIN classes
      BY <1>0, <3>1 DEF Base, TypeOK
    <3>2. CASE m \in Path(n, classes) /\ m \notin DOMAIN classes
      <4>1. CASE m \in DOMAIN definitions
        BY <1>0, <4>1
      <4>2. CASE m \notin DOMAIN definitions
        <5>1. m = End(n, classes)
          BY <3>2, <4>2, StopsAtEnd DEF Stops
        <5> QED
          BY <1>0, <3>2, <4>2, <5>1 DEF Unknown
      <4> QED
        BY <4>1, <4>2
    <3> QED
      BY <1>1, <3>1, <3>2
  <2>5. DOMAIN definitions' \subseteq Names /\ Range(definitions') \subseteq Definitions
        /\ late' \in BOOLEAN /\ Grounded(definitions')
    BY <1>0 DEF Base, TypeOK
  <2> QED
    BY <2>1, <2>2, <2>3, <2>4, <2>5 DEF Base, TypeOK
<1>4. Restrict(classes', direct') = Registrations
  BY <1>0, <1>1, BaseFacts DEF Restrict, Registrations
<1>5. \A m : Meaning(m)' = Meaning(m)
  BY <1>0, <1>4 DEF Meaning, ClassOf, End, Registrations
<1>6. KeptAsMeant'
  <2> SUFFICES ASSUME ~late', NEW m \in Resolved' PROVE classes'[m] = Meaning(m)'
    BY DEF KeptAsMeant
  <2>1. m \in DOMAIN classes' \ direct /\ ~late
    BY <1>0 DEF Resolved
  <2>2. CASE m \in DOMAIN classes
    BY <1>0, <1>1, <1>5, <2>1, <2>2 DEF KeptAsMeant, Resolved
  <2>3. CASE m \in Path(n, classes)
    <3>1. Answer(n) = Meaning(n)
      BY <1>0, <2>1, AnswersAsMeant DEF OrderIndependent
    <3>2. Meaning(m) = Meaning(n)
      BY <1>0, <2>3, PathMeans
    <3> QED
      BY <1>1, <1>5, <2>3, <3>1, <3>2
  <2> QED
    BY <1>1, <2>1, <2>2, <2>3
<1>7. KeptRight'
  <2> SUFFICES ASSUME NEW m \in Resolved'
               PROVE  /\ m \notin DOMAIN definitions => classes'[m] = Own(Null)
                      /\ m \in DOMAIN definitions /\ definitions[m].kind = "derived" =>
                           classes'[m] = Derived(definitions[m])
    BY <1>0 DEF KeptRight
  <2>1. m \in DOMAIN classes' \ direct
    BY <1>0 DEF Resolved
  <2>2. CASE m \in DOMAIN classes
    BY <1>0, <1>1, <2>1, <2>2 DEF KeptRight, Resolved
  <2>3. CASE m \in Path(n, classes) /\ m \notin DOMAIN classes
    <3>1. CASE m \notin DOMAIN definitions \/ definitions[m].kind = "derived"
      <4>1. m = End(n, classes)
        BY <2>3, <3>1, StopsAtEnd DEF Stops
      <4>2. classes'[m] = IF m \in DOMAIN definitions THEN Derived(definitions[m]) ELSE Own(Null)
        BY <1>1, <2>3, <4>1 DEF Answer, ClassOf
      <4> QED
        BY <3>1, <4>2
    <3> QED
      BY <3>1
  <2> QED
    BY <1>1, <2>1, <2>2, <2>3
<1> QED
  BY <1>3, <1>6, <1>7 DEF Inv

(* A registration is late when something had been resolved: otherwise        *)
(* nothing was kept, and nothing is.                                       *)
LEMMA RegisterDefinitionKeeps ==
  ASSUME Inv, NEW n \in UserTypes, NEW d \in Registered, RegisterDefinition(n, d)
  PROVE  Inv'
<1>0. /\ Base /\ KeptRight /\ n \in Names /\ d \in Definitions
      /\ definitions' = Over([m \in {n} |-> d], definitions)
      /\ Grounded(definitions') /\ classes' = Without(n) /\ direct' = direct \ {n}
      /\ late' = (late \/ Resolved # {}) /\ unknownTypes' = unknownTypes
  BY NamesAssumption DEF Inv, RegisterDefinition
<1>1. /\ DOMAIN definitions' = DOMAIN definitions \cup {n}
      /\ definitions'[n] = d
      /\ \A m \in DOMAIN definitions \ {n} : definitions'[m] = definitions[m]
  BY <1>0 DEF Over
<1>2. /\ DOMAIN classes' = DOMAIN classes \ {n}
      /\ \A m \in DOMAIN classes \ {n} : classes'[m] = classes[m]
  BY <1>0 DEF Without, Restrict
<1>3. Resolved' = Resolved \ {n}
  BY <1>0, <1>2 DEF Resolved
<1>4. Base'
  <2>1. \A m \in DOMAIN definitions' : definitions'[m] \in Definitions
    BY <1>0, <1>1 DEF Base, TypeOK, Range
  <2>2. \A m \in DOMAIN classes' : classes'[m] \in Classes
    BY <1>0, <1>2 DEF Base, TypeOK, Range
  <2>3. Range(definitions') \subseteq Definitions /\ Range(classes') \subseteq Classes
    BY <2>1, <2>2 DEF Range
  <2>4. /\ DOMAIN definitions' \subseteq Names /\ DOMAIN classes' \subseteq Names
        /\ unknownTypes' \subseteq Names /\ direct' \subseteq DOMAIN classes'
        /\ DOMAIN classes' \subseteq direct' \cup DOMAIN definitions' \cup unknownTypes'
        /\ late' \in BOOLEAN
    BY <1>0, <1>1, <1>2 DEF Base, TypeOK
  <2> QED
    BY <1>0, <2>3, <2>4 DEF Base, TypeOK
<1>5. KeptAsMeant'
  BY <1>0, <1>3 DEF KeptAsMeant
<1>6. KeptRight'
  <2> SUFFICES ASSUME NEW m \in Resolved'
               PROVE  /\ m \notin DOMAIN definitions' => classes'[m] = Own(Null)
                      /\ m \in DOMAIN definitions' /\ definitions'[m].kind = "derived" =>
                           classes'[m] = Derived(definitions'[m])
    BY DEF KeptRight
  <2>1. m \in Resolved /\ m # n /\ m \in DOMAIN classes
    BY <1>3 DEF Resolved
  <2>2. classes'[m] = classes[m] /\ (m \in DOMAIN definitions' <=> m \in DOMAIN definitions)
        /\ (m \in DOMAIN definitions => definitions'[m] = definitions[m])
    BY <1>1, <1>2, <2>1
  <2> QED
    BY <1>0, <2>1, <2>2 DEF KeptRight
<1> QED
  BY <1>4, <1>5, <1>6 DEF Inv

LEMMA RegisterClassKeeps == ASSUME Inv, NEW n \in UserTypes, RegisterClass(n) PROVE Inv'
<1>0. /\ Base /\ KeptRight /\ n \in Names
      /\ classes' = Over([m \in {n} |-> Own(n)], classes) /\ direct' = direct \cup {n}
      /\ late' = (late \/ Resolved # {})
      /\ definitions' = definitions /\ unknownTypes' = unknownTypes
  BY NamesAssumption DEF Inv, RegisterClass
<1>1. /\ DOMAIN classes' = DOMAIN classes \cup {n}
      /\ classes'[n] = Own(n)
      /\ \A m \in DOMAIN classes \ {n} : classes'[m] = classes[m]
  BY <1>0 DEF Over
<1>2. Resolved' = Resolved \ {n}
  BY <1>0, <1>1 DEF Resolved
<1>3. Base'
  <2>1. Own(n) \in Classes
    BY <1>0 DEF Own, Classes
  <2>2. \A m \in DOMAIN classes' : classes'[m] \in Classes
    BY <1>0, <1>1, <2>1 DEF Base, TypeOK, Range
  <2>3. Range(classes') \subseteq Classes
    BY <2>2 DEF Range
  <2> QED
    BY <1>0, <1>1, <2>3 DEF Base, TypeOK
<1>4. KeptAsMeant'
  BY <1>0, <1>2 DEF KeptAsMeant
<1>5. KeptRight'
  <2> SUFFICES ASSUME NEW m \in Resolved'
               PROVE  m \in Resolved /\ classes'[m] = classes[m]
    BY <1>0 DEF KeptRight
  <2> QED
    BY <1>1, <1>2 DEF Resolved
<1> QED
  BY <1>3, <1>4, <1>5 DEF Inv

LEMMA StartKeeps ==
  /\ Init => Inv
  /\ Reinit => Inv'
<1>1. /\ \A n \in BaseTypes : Own(n) \in Classes
      /\ DOMAIN Standard \subseteq Names /\ Range(Standard) \subseteq Definitions
      /\ BaseTypes \subseteq Names /\ Grounded(Standard)
  BY NamesAssumption, StandardAssumption, GroundedAssumption DEF Own, Classes, Range
<1>2. Range([n \in BaseTypes |-> Own(n)]) \subseteq Classes
  BY <1>1 DEF Range
<1>3. Init => Inv
  BY <1>1, <1>2 DEF Init, Inv, Base, TypeOK, KeptAsMeant, KeptRight, Resolved
<1>4. Reinit => Inv'
  BY <1>1, <1>2 DEF Reinit, Inv, Base, TypeOK, KeptAsMeant, KeptRight, Resolved
<1> QED
  BY <1>3, <1>4

LEMMA NextKeeps == Inv /\ [Next]_vars => Inv'
<1> SUFFICES ASSUME Inv, [Next]_vars PROVE Inv'
  OBVIOUS
<1>1. CASE \E n \in Names, withUnknown \in BOOLEAN : GetConstructor(n, withUnknown)
  BY <1>1, GetConstructorKeeps
<1>2. CASE \E n \in UserTypes : RegisterClass(n) \/ \E d \in Registered : RegisterDefinition(n, d)
  BY <1>2, RegisterClassKeeps, RegisterDefinitionKeeps
<1>3. CASE UNCHANGED vars
  BY <1>3 DEF vars, Inv, Base, TypeOK, KeptAsMeant, KeptRight, Resolved, Meaning, ClassOf, End
<1> QED
  BY <1>1, <1>2, <1>3, StartKeeps DEF Next

(* Every reachable state has the invariant.                                *)
THEOREM AlwaysInv == Spec => []Inv
  BY StartKeeps, NextKeeps, PTL DEF Spec

(* The state is of its types, and every class has a reason to be there      *)
(* (registry.dart:189-218, 294-321).                                        *)
THEOREM RegistryTypes == Spec => []TypeOK
<1>1. Inv => TypeOK
  BY DEF Inv, Base
<1> QED
  BY <1>1, AlwaysInv, PTL

(* While every type is registered before any is used, names mean what the   *)
(* registrations say in whatever order they are resolved                    *)
(* (registry.dart:189-218, createClass.dart:187-199).                       *)
THEOREM OrderNeverMatters == Spec => []OrderIndependent
<1>1. Inv => OrderIndependent
  BY AnswersAsMeant DEF Inv
<1> QED
  BY <1>1, AlwaysInv, PTL

(* However registrations and uses alternate, only an alias can go stale:    *)
(* every other name gives what was registered for it last                   *)
(* (registry.dart:305-321).                                                 *)
THEOREM NothingElseGoesStale == Spec => []OnlyAliasesGoStale
<1>1. Inv => OnlyAliasesGoStale
  BY OthersFresh DEF Inv
<1> QED
  BY <1>1, AlwaysInv, PTL
=============================================================================
