---------------------------- MODULE TypeRegistry ----------------------------
(***************************************************************************)
(* TypeRegistry of lib/types/create/registry.dart: what a type name means. *)
(* A name has a class, a definition, both or neither; getConstructor turns *)
(* a definition into a class when it is first asked for it, and keeps it.  *)
(*                                                                         *)
(* A definition is an alias, "LookupSource", or derived, "Vec<Balance>",   *)
(* "(u64, Balance)", {...}.  A derived class keeps the names it is derived *)
(* from and looks them up when it decodes; an alias is looked up at once.  *)
(***************************************************************************)
EXTENDS Naturals, FiniteSets, Functions

CONSTANTS
  Names,       \* type names
  BaseTypes,   \* those that have a class from the start
  Standard,    \* definitions registered from the start: name -> definition
  Null,        \* the base type 'Null', which stands in for unknown types
  UserTypes,   \* names the user registers
  Registered   \* definitions the user registers them with

Definitions == [kind : {"alias", "derived"}, type : Names]

ASSUME NamesAssumption == /\ IsFiniteSet(Names)
                          /\ Null \in BaseTypes /\ BaseTypes \subseteq Names
                          /\ UserTypes \subseteq Names \ {Null}
                          /\ Registered \subseteq Definitions
ASSUME StandardAssumption == /\ DOMAIN Standard \subseteq Names \ BaseTypes
                             /\ \A n \in DOMAIN Standard : Standard[n] \in Definitions

VARIABLES
  classes,       \* _classes
  definitions,   \* _definitions
  unknownTypes,  \* _unknownTypes
  direct,        \* names whose class was registered, not made of a definition
  late           \* was a type registered when others had been resolved?

vars == << classes, definitions, unknownTypes, direct, late >>

(* The class registered for a name, and the class of a derived definition. *)
Own(n)     == [kind |-> "own", type |-> n]
Derived(d) == [kind |-> "derived", type |-> d.type]
Classes    == [kind : {"own", "derived"}, type : Names]

TypeOK ==
  /\ DOMAIN classes \subseteq Names /\ Range(classes) \subseteq Classes
  /\ DOMAIN definitions \subseteq Names /\ Range(definitions) \subseteq Definitions
  /\ unknownTypes \subseteq Names
  /\ direct \subseteq DOMAIN classes
  /\ DOMAIN classes \subseteq direct \cup DOMAIN definitions \cup unknownTypes
  /\ late \in BOOLEAN

(* init() *)
Init ==
  /\ classes = [n \in BaseTypes |-> Own(n)]
  /\ definitions = Standard
  /\ unknownTypes = {}
  /\ direct = BaseTypes
  /\ late = FALSE
-----------------------------------------------------------------------------
(* Names that end in Slip are what a slip in the code would make of the     *)
(* definition after them; no specification uses one.                        *)

(* Following aliases from a name, given the classes that are known: the    *)
(* names passed, and where that ends.                                      *)
Stops(n, known, defs) ==
  n \in DOMAIN known \/ n \notin DOMAIN defs \/ defs[n].kind = "derived"

Walk(n, known, defs) ==
  LET step[i \in 0 .. Cardinality(Names)] ==
        IF i = 0 THEN n
        ELSE IF Stops(step[i - 1], known, defs) THEN step[i - 1]
        ELSE defs[step[i - 1]].type
  IN  step

Path(n, known) == Range(Walk(n, known, definitions))
End(n, known)  == Walk(n, known, definitions)[Cardinality(Names)]

(* An alias that comes back to itself overflows the stack in getConstructor;*)
(* none is registered, nor standard.                                       *)
Grounded(defs) ==
  \A n \in Names : Stops(Walk(n, << >>, defs)[Cardinality(Names)], << >>, defs)

ASSUME GroundedAssumption == Grounded(Standard)

ClassOf(n, known) ==
  LET e == End(n, known)
  IN  IF e \in DOMAIN known THEN known[e]
      ELSE IF e \in DOMAIN definitions THEN Derived(definitions[e])
      ELSE Own(Null)

(* A map with entries put into it, over those that are there.              *)
Over(entries, map) ==
  [k \in DOMAIN entries \cup DOMAIN map |-> IF k \in DOMAIN entries THEN entries[k] ELSE map[k]]

(* getConstructor keeps the class for every name it passed on the way.     *)
NamedSlip(n) == Over([m \in Path(n, classes) |-> Own(n)], classes)
Cached(n) ==
  Over([m \in Path(n, classes) |-> ClassOf(n, classes)], classes)

(* The name that turns out to be unknown, if there is one. *)
AskedSlip(n) == {n} \ (DOMAIN classes \cup BaseTypes)
Unknown(n) == {End(n, classes)} \ (DOMAIN classes \cup DOMAIN definitions)

(* getConstructor(name, withUnknown), and with it createClass, createType  *)
(* and the decoding of what is derived from the name.                      *)
GetConstructor(n, withUnknown) ==
  /\ withUnknown \/ n \in DOMAIN classes \cup DOMAIN definitions
  /\ classes' = Cached(n)
  /\ unknownTypes' = unknownTypes \cup Unknown(n)
  /\ UNCHANGED << definitions, direct, late >>

Resolved == DOMAIN classes \ direct

(* register() of a definition: a class that is there for the name goes.    *)
KeptSlip(n) == classes
Without(n) == Restrict(classes, DOMAIN classes \ {n})

RegisterDefinition(n, d) ==
  /\ definitions' = Over([m \in {n} |-> d], definitions)
  /\ Grounded(definitions)'
  /\ classes' = Without(n)
  /\ direct' = direct \ {n}
  /\ late' = (late \/ Resolved # {})
  /\ UNCHANGED unknownTypes

(* register() of a class: a definition that is there for the name stays.   *)
RegisterClass(n) ==
  /\ classes' = Over([m \in {n} |-> Own(n)], classes)
  /\ direct' = direct \cup {n}
  /\ late' = (late \/ Resolved # {})
  /\ UNCHANGED << definitions, unknownTypes >>

Reinit ==
  /\ classes' = [n \in BaseTypes |-> Own(n)]
  /\ definitions' = Standard
  /\ unknownTypes' = {}
  /\ direct' = BaseTypes
  /\ late' = FALSE

Next ==
  \/ \E n \in Names, withUnknown \in BOOLEAN : GetConstructor(n, withUnknown)
  \/ \E n \in UserTypes : RegisterClass(n) \/ \E d \in Registered : RegisterDefinition(n, d)
  \/ Reinit

Spec == Init /\ [][Next]_vars
-----------------------------------------------------------------------------
(* Properties.                                                             *)

(* The class a user gets for a name, and the one that the registrations    *)
(* made so far say it should get.                                          *)
Answer(n)  == ClassOf(n, classes)
Meaning(n) == ClassOf(n, Restrict(classes, direct))

(* While every type is registered before any is used, names mean what the   *)
(* registrations say in whatever order they are resolved (registry.dart:    *)
(* 189-218).                                                                *)
OrderIndependent == ~late => \A n \in Names : Answer(n) = Meaning(n)

(* However registrations and uses alternate, only an alias can go stale: a  *)
(* registered class and a derived definition always count from the moment   *)
(* they are registered (registry.dart:313-318).                             *)
OnlyAliasesGoStale ==
  \A n \in Names :
    Answer(n) # Meaning(n) =>
      n \notin direct /\ n \in DOMAIN definitions /\ definitions[n].kind = "alias"
=============================================================================
