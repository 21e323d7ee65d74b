------------------------------ MODULE MCIntercom ------------------------------
(* A process that may change its session, and one with a single session.    *)
EXTENDS Intercom, TLC

CONSTANTS p1, p2, s1, s2, s3

MCOpens(s) == IF s = s3 THEN p2 ELSE p1

MCSymmetry == Permutations({s1, s2}) \cup Permutations(Connection)
=============================================================================
