------------------------------- MODULE Ranks -------------------------------
(***************************************************************************)
(* nearest_rank, which the device contract and the native preflight each   *)
(* define for their percentiles (m2_d1_contract.py, m2_d1_native.py).      *)
(***************************************************************************)
EXTENDS Integers, FiniteSets, FiniteSetsExt, Functions

\* ranked[ceil(percentile * n / 100) - 1], counted from zero, of the sorted values: the least
\* value that fills this place together with those below it; -1 stands for None
nearest_rank(values, percentile) ==
  LET Places(v) == Cardinality({i \in DOMAIN values : values[i] <= v})
      place == (percentile * Cardinality(DOMAIN values) + 99) \div 100
  IN IF DOMAIN values = {} THEN -1 ELSE Min({v \in Range(values) : Places(v) >= place})
=============================================================================
