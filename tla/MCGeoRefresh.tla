---------------------------- MODULE MCGeoRefresh ----------------------------
(* Two source lists of two mirrors each, in every kind of table.           *)
EXTENDS GeoRefresh

CONSTANTS s1, s2, m1, m2
=============================================================================
