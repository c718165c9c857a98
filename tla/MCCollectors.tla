---------------------------- MODULE MCCollectors ----------------------------
(* Small instances of Collectors for TLC: the configurations give every      *)
(* constant, with model values for pollers, scrapers and the two nil values. *)
EXTENDS Collectors
=============================================================================
