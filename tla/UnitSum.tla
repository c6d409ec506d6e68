------------------------------ MODULE UnitSum ------------------------------
(***************************************************************************)
(* Sums of token amounts.  The program only ever adds and subtracts u64    *)
(* amounts of base units of USDC, so the sum of the amounts f[x], x \in S, *)
(* is the number of base units there are: unit i of x is the pair          *)
(* <<x, i>>.  Written with Cardinality instead of a recursive definition,  *)
(* the facts about a sum are facts about finite sets (OperatorProofs).     *)
(***************************************************************************)
EXTENDS Naturals, FiniteSets

\* The base units of the amounts that f gives to the elements of S.
Units(f, S) == UNION {{x} \X (1 .. f[x]) : x \in S}

\* The sum of f[x] over the elements x of the finite set S.
Total(f, S) == Cardinality(Units(f, S))
=============================================================================
