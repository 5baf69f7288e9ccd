---------------------------- MODULE NumericTypes ----------------------------
(***************************************************************************)
(* The result types of src/numeric.cpp and the sums taken in them.         *)
(*                                                                         *)
(* A type is a tuple: <<"int", k, signed>>, whose 8, 16, 32 or 64 bits are *)
(* 2k bits here so that every carry and overflow is within reach;          *)
(* <<"float", k>>; <<"decimal", precision, scale>>, and the same tagged    *)
(* "decimal256"; <<"temporal", t>>; TNull, Arrow's null type; and the      *)
(* types numeric.cpp does not know, a tag each.  NoType is the absence of  *)
(* a type.  The value of a decimal is unscaled.  Floating point numbers do *)
(* not round here.                                                         *)
(***************************************************************************)
EXTENDS Integers, Sequences, FiniteSetsExt, SequencesExt

CONSTANT DecimalDigits   \* 38: the most digits a decimal128 has, half those of a decimal256

NumericAssumption == DecimalDigits \in Nat \ {0}

NoType == <<"none">>
TNull == <<"na">>
TInt(k) == <<"int", k, TRUE>>
TUint(k) == <<"int", k, FALSE>>
TDouble == <<"float", 3>>
TInt64 == TInt(4)

IsInteger(t) == t[1] = "int"
IsFloating(t) == t[1] = "float"
IsDecimal128(t) == t[1] = "decimal"
IsDecimal(t) == t[1] \in {"decimal", "decimal256"}
IsTemporal(t) == t[1] = "temporal"
is_multipliable_type(t) == IsInteger(t) \/ IsFloating(t) \/ IsDecimal(t)
is_addable_type(t) == is_multipliable_type(t) \/ IsTemporal(t)

\* int_info: what an integer type holds.
Lowest(t) == IF t[3] THEN -(2^(2 * t[2] - 1)) ELSE 0
Highest(t) == IF t[3] THEN 2^(2 * t[2] - 1) - 1 ELSE 2^(2 * t[2]) - 1
Digits(t) == Min({d \in 1..4 : Highest(t) < 10^d})

AtMost(high, v) == IF v > high THEN high ELSE v

common_numeric(a, b) ==
  CASE a = b -> a
    [] a # b /\ (IsFloating(a) \/ IsFloating(b)) -> TDouble
    [] a # b /\ IsDecimal128(a) /\ IsDecimal128(b) ->
         LET scale == Max({a[3], b[3]})
             integer == Max({a[2] - a[3], b[2] - b[3]})
         IN <<"decimal", AtMost(DecimalDigits, integer + scale), scale>>
    [] a # b /\ IsInteger(a) /\ IsInteger(b) ->
         IF a[3] = b[3] THEN (IF a[2] >= b[2] THEN a ELSE b)
         ELSE LET unsigned == IF a[3] THEN b ELSE a
              IN IF unsigned[2] = 4 THEN TDouble ELSE TInt64
    [] a # b /\ IsInteger(a) /\ ~IsInteger(b) /\ ~IsFloating(b) -> b
    [] a # b /\ IsInteger(b) /\ ~IsInteger(a) /\ ~IsFloating(a) -> a
    [] OTHER -> NoType   \* throws

promote_for_addition(t) ==
  CASE t = NoType -> TInt64
    [] IsFloating(t) -> TDouble
    [] IsInteger(t) -> <<"int", AtMost(4, t[2] + 1), t[3]>>
    [] IsDecimal128(t) -> <<"decimal", AtMost(DecimalDigits, t[2] + 1), t[3]>>
    [] OTHER -> t

\* {} if there is no common type
common_type_for_addition(a, b) ==
  CASE a = NoType -> {promote_for_addition(b)}
    [] a # NoType /\ b = NoType -> {promote_for_addition(a)}
    [] OTHER -> IF common_numeric(a, b) = NoType THEN {}
                ELSE {promote_for_addition(common_numeric(a, b))}

-----------------------------------------------------------------------------
(* Cells: a number, a text, ..., or NULL; RaisedCell is an error           *)

NumCell(v) == <<"num", v>>
NullValue == <<"null">>
RaisedCell == <<"raised">>

MostDigits(t) == IF IsDecimal128(t) THEN DecimalDigits ELSE 2 * DecimalDigits
Held(v, t) == IF -(10^t[2]) < v /\ v < 10^t[2] THEN NumCell(v) ELSE RaisedCell

\* cast_or_throw, cast_to: checked casts.  An integer becomes a decimal only
\* if every value of its type has the room.  (No call here makes a floating
\* point number of a decimal.)
CastCell(cell, from, to) ==
  IF cell = NullValue \/ cell = RaisedCell \/ from = to THEN cell
  ELSE CASE IsInteger(from) /\ IsInteger(to) ->
              IF Lowest(to) <= cell[2] /\ cell[2] <= Highest(to) THEN cell ELSE RaisedCell
         [] IsDecimal(from) /\ IsDecimal(to) ->
              IF to[3] >= from[3] THEN Held(cell[2] * 10^(to[3] - from[3]), to)
              ELSE IF cell[2] % 10^(from[3] - to[3]) # 0 THEN RaisedCell
              ELSE Held(cell[2] \div 10^(from[3] - to[3]), to)
         [] IsInteger(from) /\ IsDecimal(to) ->
              IF to[2] - to[3] >= Digits(from) THEN NumCell(cell[2] * 10^to[3])
              ELSE RaisedCell
         [] (IsInteger(from) \/ IsFloating(from)) /\ IsFloating(to) -> cell
         [] OTHER -> RaisedCell

\* Arrow's "add" wraps at an integer's width.
Wrap(v, t) == ((v - Lowest(t)) % (Highest(t) - Lowest(t) + 1)) + Lowest(t)

\* add_arrays, of columns cast to one type, and the cast back to it: each sum of
\* decimals has a digit more than its operands, which must exist.
SumCells(cells, t) ==
  LET Some(cell) == \E k \in DOMAIN cells : cells[k] = cell
      total == FoldLeft(LAMBDA sum, cell : sum + cell[2], 0, cells)
  IN IF \/ Some(RaisedCell)
        \/ IsDecimal(t) /\ t[2] + Len(cells) - 1 > MostDigits(t)
        \/ IsTemporal(t) /\ t[2] # "duration" /\ Len(cells) > 1
     THEN RaisedCell
     ELSE IF Some(NullValue) THEN NullValue
     ELSE IF IsInteger(t) THEN NumCell(Wrap(total, t))
     ELSE IF IsDecimal(t) THEN Held(total, t)
     ELSE NumCell(total)

\* double_first: a decimal128 is doubled in a wider type and narrowed, checked.
DoubleCell(cell, from, t) ==
  LET first == CastCell(cell, from, t)
  IN IF ~IsDecimal128(t) THEN SumCells(<<first, first>>, t)
     ELSE IF cell = NullValue THEN NullValue
     ELSE Held(2 * cell[2] * 10^(t[3] - from[3]), t)
=============================================================================
