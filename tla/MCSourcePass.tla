---------------------------- MODULE MCSourcePass ----------------------------
(* A small instance of SourcePass for TLC.                                 *)
EXTENDS SourcePass, TLC

CONSTANTS sound, flaky, lit, six, blk, kOne, kTwo, kThree, nOne, nTwin, nFlaky, nStand, nLit, nSix, nBlk, nBad,
          aIn, aOut

\* A name that always resolves, to an address outside the allow-list and one
\* inside; one that may not; an address; one of IPv6; a blocked server.
MCServers == nOne :> sound @@ nTwin :> sound @@ nFlaky :> flaky @@ nStand :> lit
          @@ nLit :> lit @@ nBad :> lit @@ nSix :> six @@ nBlk :> blk
MCKeys == nOne :> kOne @@ nTwin :> kOne @@ nFlaky :> kTwo @@ nStand :> kThree
       @@ nLit :> kThree @@ nBad :> kThree @@ nSix :> kTwo @@ nBlk :> kTwo
MCLiteral == lit :> aIn @@ six :> NoAddr @@ blk :> aOut
MCAnswers == sound :> {<<aOut, aIn>>} @@ flaky :> {<<aIn>>}
MCFilters == <<"country", "asn", "cidr">>
MCDenied == <<{}, {aIn}>>
MCAllowed == <<{aIn, aOut}, {aIn}>>
MCBodies == <<{<<>>, <<nOne, nFlaky>>},
              {<<nStand, nTwin>>, <<nBad, nTwin>>, <<nBlk, nOne, nTwin, nLit>>},
              {<<nLit, nSix, nLit>>}>>
=============================================================================
