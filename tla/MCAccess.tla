------------------------------- MODULE MCAccess -------------------------------
(* Instances of Access for TLC. *)
EXTENDS Access, TLC

CONSTANTS c1, c2, r1, r2, r3, o1, o2

MCSymmetry == Permutations(Requests) \cup Permutations(Clients) \cup Permutations(Originals)
===============================================================================
