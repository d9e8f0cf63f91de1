-------------------------- MODULE MCGlm52Admission --------------------------
EXTENDS Glm52Admission, TLC

CONSTANTS p1, p2, n1, A, B, C, P

\* p1's prompt fills its last page, so it recomputes the page A that it shares
\* with p2; p2 may match or load two pages; the handoff of n1 ends inside a
\* page, which it resolves under the padded name P.
MCChain == p1 :> <<A>> @@ p2 :> <<A, B>> @@ n1 :> <<C>>
MCProbed == p1 :> <<A>> @@ p2 :> <<A, B>> @@ n1 :> <<C, P>>
MCLifetime == p1 :> 2 @@ p2 :> 3 @@ n1 :> 2
MCCacheable == p1 :> 0 @@ p2 :> 2 @@ n1 :> 2
MCMatchCap == p1 :> 0 @@ p2 :> 2 @@ n1 :> 1

=============================================================================
