----------------------------- MODULE MCTypedRows -----------------------------
(* TypedRows with every type in column a and some types in the column added later. *)
EXTENDS TypedRows

\* The values at which something could go wrong.
Edges(base) ==
  CASE base = "i64"      -> {-8, 7}
    [] base = "u64"      -> {0, 7, 8, 15}
    [] base = "i32"      -> {-2, 1}
    [] base = "u32"      -> {0, 3}
    [] base = "bool"     -> BOOLEAN
    [] base = "f64"      -> {"1.5", "NaN"}
    [] base = "String"   -> {"text"}
    [] base = "Uuid"     -> {<<1, 2, 3, 4>>}
    [] base = "FloatVec" -> {<<<<0, 1>>>>, <<<<0, 1>>, <<2, 3>>>>}
    [] base = "Int8Vec"  -> {<<-4, 3>>}
    [] base = "BitVec"   -> {<<7>>, <<1, 2, 3, 4>>}

Plain == {t \in Type : ~t.mixed}

Type_(base, option, mixed) == [base |-> base, option |-> option, mixed |-> mixed]

Added == {Type_("bool", FALSE, FALSE), Type_("i32", TRUE, FALSE), Type_("u64", FALSE, TRUE)}

EveryType == [a : Plain, b : Added]
=============================================================================
