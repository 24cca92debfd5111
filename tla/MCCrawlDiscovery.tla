-------------------------- MODULE MCCrawlDiscovery --------------------------
(* Two channels, two groups and three URLs; two repositories, the second a  *)
(* copy of the first in part, and a third that is a fork left behind.       *)
EXTENDS CrawlDiscovery, TLC

CONSTANTS c1, d, g, h, u1, u2, u3, f1, f2, f3, r1, r2, r3

ref(s, t) == [slug |-> s, topic |-> t]
page(w, k, us, rs) == [wrap |-> w, cursor |-> k, urls |-> us, refs |-> rs]
Gone == page(FALSE, FALSE, {}, <<>>)

\* c1 reposts the group g bare, the group h by a topic and a post of d; the
\* topics of h name each other, the second shows a GitHub file.
MCListing == c1 :> <<page(TRUE, TRUE, {u1}, <<ref(g, 0), ref(h, 1)>>),
                    page(TRUE, FALSE, {}, <<ref(d, 1)>>)>>
          @@ d :> <<page(TRUE, FALSE, {u2}, <<ref(g, 2), ref(c1, 0)>>)>>
          @@ g :> <<Gone>> @@ h :> <<Gone>>
MCEmbed == [r \in [slug : {c1, d, g, h}, topic : {1, 2}] |->
    CASE r = ref(h, 1) -> page(TRUE, FALSE, {u3}, <<ref(h, 2)>>)
      [] r = ref(h, 2) -> page(TRUE, FALSE, {f2}, <<ref(h, 1)>>)
      [] r = ref(g, 2) -> page(TRUE, FALSE, {u2}, <<ref(g, 1)>>)
      [] r = ref(d, 1) -> page(TRUE, FALSE, {}, <<>>)
      [] OTHER -> Gone]
MCConfigured == {ref(c1, 0)}
MCRefRank == [r \in [slug : {c1, d, g, h}, topic : 0..2] |->
    r.topic + 3 * (CASE r.slug = c1 -> 0 [] r.slug = d -> 1 [] r.slug = g -> 2 [] r.slug = h -> 3)]

\* Endpoints are numbers; f3 is f1 in another repository with one more.
MCEndpoints == u1 :> {1} @@ u2 :> {2} @@ u3 :> {3}
            @@ f1 :> {1, 4, 5} @@ f2 :> {5, 6} @@ f3 :> {4, 5, 7}
MCCodeHits == <<<<r1>>, <<r2>>, <<r1, r2>>>>
MCRepoHits == <<<<r3, r2>>>>
MCMeta == r1 :> [archived |-> FALSE, fork |-> FALSE, age |-> 3]
       @@ r2 :> [archived |-> FALSE, fork |-> TRUE, age |-> 1]
       @@ r3 :> [archived |-> FALSE, fork |-> TRUE, age |-> 3]
MCTree == r1 :> {f1, f2} @@ r2 :> {f3} @@ r3 :> {}
MCBlob == [f \in {f1, f2, f3} |->
    [blob |-> TRUE, size |-> IF f = f1 THEN 1 ELSE 30, hidden |-> FALSE, refusedDir |-> FALSE,
     refusedName |-> FALSE, ext |-> "txt", keywords |-> 2]]
MCPathRank == f1 :> 1 @@ f2 :> 2 @@ f3 :> 3
MCRepoRank == r1 :> 1 @@ r2 :> 2 @@ r3 :> 3

=============================================================================
