SPECIFICATION Spec
CONSTANTS
  Names <- MCNames
  BaseTypes <- MCBase
  Standard <- MCStandard
  Null = "Null"
  UserTypes = {"LookupSource", "Keys"}
  Registered <- MCRegistered
INVARIANTS
  TypeOK
  OrderIndependent
  OnlyAliasesGoStale
