---------------------------- MODULE TypeRegistry ----------------------------
(***************************************************************************)
(* forge::BuiltinTypeRegistry (include/forge/Frontend/TypeRegistry.h): the  *)
(* MLIR type each type name stands for.  An unsigned name stands for the    *)
(* signless type of its width, the very type of the signed name.            *)
(***************************************************************************)
IntegerTypes == {"i1", "i8", "i16", "i32", "i64"}
Floats       == {"bf16", "f16", "f32", "f64"}
None         == "none"    \* mlir::NoneType
NoType       == "null"    \* mlir::Type{}

Types == IntegerTypes \cup Floats \cup {None}

type_registry ==
    [bool |-> "i1", i8 |-> "i8", i16 |-> "i16", i32 |-> "i32", i64 |-> "i64",
     u8 |-> "i8", u16 |-> "i16", u32 |-> "i32", u64 |-> "i64",
     bf16 |-> "bf16", f16 |-> "f16", f32 |-> "f32", f64 |-> "f64"]

\* TypeChecker::resolve and MLIRGenerator::resolve_type.
Resolve(name) ==
    IF name \in DOMAIN type_registry THEN type_registry[name] ELSE NoType
=============================================================================
