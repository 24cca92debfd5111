---------------------------- MODULE MCStableCycle ----------------------------
(* A small instance of StableCycle for TLC: two nodes share a host, and    *)
(* the breaker's percentage arm is scaled down to batches of three.        *)
EXTENDS StableCycle

CONSTANTS a, b, c, shared, own

MCNodes == {a, b, c}

MCHostOf == [n \in MCNodes |-> IF n = c THEN own ELSE shared]

\* gemini, then deepl.
MCChain == << [strict |-> FALSE, persists |-> TRUE],
              [strict |-> TRUE,  persists |-> TRUE] >>
=============================================================================
