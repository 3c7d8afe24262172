----------------------------- MODULE MCNameLookup -----------------------------
(* Instances of NameLookup for TLC: one numeric name and one host name. *)
EXTENDS NameLookup

CONSTANTS c1, c2, numeric, host
ContextSet == {c1, c2}
BothNames == {numeric, host}
NumericNames == {numeric}
=============================================================================
