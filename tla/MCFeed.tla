------------------------------- MODULE MCFeed -------------------------------
EXTENDS Feed, TLC

CONSTANTS a, b, t1, t2, t3, e

\* One account signs in and has its token renewed, another signs in too.
MCOwnerOf == (t1 :> a) @@ (t2 :> a) @@ (t3 :> b)
\* The event is not one of sport.
MCMatching == ("all" :> {e}) @@ ("sport" :> {})
\* One account has registered before, so that its button is answered 409.
MCEarlier == {<<a, e>>}
Symmetry == Permutations(Loads) \cup Permutations({t1, t2})
=============================================================================
