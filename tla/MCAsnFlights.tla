---------------------------- MODULE MCAsnFlights ----------------------------
(* A small instance of AsnFlights for TLC: two of three calls ask for one  *)
(* IP, and both IPs belong to one AS.                                      *)
EXTENDS AsnFlights, TLC

CONSTANTS c1, c2, c3, ip1, ip2, as

MCIpOf == [c \in Calls |-> IF c = c3 THEN ip2 ELSE ip1]

\* The two calls for one IP may be swapped.
Twins == Permutations({c1, c2})

MCAsnOf == [i \in {ip1, ip2} |-> as]
=============================================================================
