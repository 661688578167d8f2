-------------------------------- MODULE Sums --------------------------------
(***************************************************************************)
(* Sums of a table's column, taken in primary-key order: f maps the rows   *)
(* 1..n to integers.  The running totals are kept as a function because    *)
(* the ledger stores them (on_hand_before / on_hand_after) and because the *)
(* greedy consumption of reservations depends on the rows before each one. *)
(***************************************************************************)
EXTENDS Integers

\* The running totals of f: Prefix(f, n)[k] = f[1] + ... + f[k].
Prefix(f, n) ==
  LET total[k \in 0..n] == IF k = 0 THEN 0 ELSE total[k - 1] + f[k]
  IN  total

Sum(f, n) == Prefix(f, n)[n]

AtLeastZero(x) == IF x < 0 THEN 0 ELSE x

Least(x, y) == IF x <= y THEN x ELSE y
=============================================================================
