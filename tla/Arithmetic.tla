----------------------------- MODULE Arithmetic -----------------------------
(***************************************************************************)
(* The values of Forge's integer types and what arith's operations do with  *)
(* them on the machine that runs the program: two's complement, signed.     *)
(***************************************************************************)
EXTENDS Integers, TypeRegistry

CONSTANT Half  \* bound: a type has values -Half[type] .. Half[type] - 1

ASSUME HalfAssumption == Half \in [IntegerTypes -> Nat \ {0}] /\ Half["i1"] = 1

\* The values of an integer type, and v wrapped around to one of them.
Signed(type)  == -Half[type] .. Half[type] - 1
Wrap(v, type) == ((v + Half[type]) % (2 * Half[type])) - Half[type]

True       == -1  \* as an i1
False      == 0
NoResult   == 0   \* of an operation without one

Magnitude(a) == IF a < 0 THEN -a ELSE a

\* sdiv truncates, and is undefined by zero and where the quotient overflows.
Quotient(a, b) ==
    IF (a < 0) = (b < 0) THEN Magnitude(a) \div Magnitude(b)
                         ELSE -(Magnitude(a) \div Magnitude(b))

Undefined(a, b, type) == b = 0 \/ (a = -Half[type] /\ b = -1)

Arith(o, a, b) ==
    CASE o = "+" -> a + b
      [] o = "-" -> a - b
      [] o = "*" -> a * b
      [] o = "/" -> Quotient(a, b)

Holds(o, a, b) ==
    CASE o = "==" -> a = b
      [] o = "!=" -> a # b
      [] o = "<"  -> a < b
      [] o = "<=" -> a <= b
      [] o = ">"  -> a > b
      [] o = ">=" -> a >= b
=============================================================================
