----------------------------- MODULE MCJobQueue -----------------------------
(* Instances of JobQueue for TLC: a chain of similar images. *)
EXTENDS JobQueue, TLC

CONSTANTS i1, i2, i3, w1, w2

MCWorkers == {w1, w2}
OneWorker == {w1}

\* Two images, each within the distance of the other.
MCPair        == {i1, i2}
MCPairSimilar == (i1 :> {i2}) @@ (i2 :> {i1})

\* Three: i2 is similar to both others, which are not similar to each other.
MCChain        == {i1, i2, i3}
MCChainSimilar == (i1 :> {i2}) @@ (i2 :> {i1, i3}) @@ (i3 :> {i2})
MCFlawed       == {i3}

=============================================================================
