--------------------------- MODULE MCTypeRegistry ---------------------------
(* TypeRegistry with the standard definitions of an address                *)
(* (lib/types/interfaces/runtime/definitions.dart:24, 65): an alias of an  *)
(* alias of a class.  The user redefines the middle one, and adds a type   *)
(* of their own; "Keys" is unknown until then.                             *)
EXTENDS TypeRegistry

MCNames == {"Address", "LookupSource", "IndicesLookupSource", "Keys", "Null"}
MCBase  == {"IndicesLookupSource", "Null"}

Alias(t) == [kind |-> "alias", type |-> t]
MCStandard == [Address |-> Alias("LookupSource"), LookupSource |-> Alias("IndicesLookupSource")]

MCRegistered == {Alias("Address"), Alias("Keys"), [kind |-> "derived", type |-> "Address"]}
=============================================================================
