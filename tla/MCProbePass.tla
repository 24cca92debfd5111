----------------------------- MODULE MCProbePass -----------------------------
(* A small instance of ProbePass for TLC.  Three entries name one host, at  *)
(* two addresses, so that it cannot be pinned; two of them even share its   *)
(* port.  The converter refused one of those two.  The fourth entry has a   *)
(* host of its own and two ports behind one label, dialled over UDP.        *)
EXTENDS ProbePass

CONSTANTS e1, e2, e3, e4, hostA, hostB, ipA, ipB

MCHostOf == [e \in Entries |-> IF e = e4 THEN hostB ELSE hostA]

\* The ports 1 and 2.
MCPortOf == [e \in Entries |-> IF e = e3 THEN 2 ELSE 1]

MCIpOf == [e \in Entries |-> IF e = e2 THEN ipB ELSE ipA]

MCEntryOf == [p \in Positions |-> CASE p = 1 -> e1 [] p = 2 -> e3 [] OTHER -> e4]
=============================================================================
