----------------------------- MODULE MCConvoBridge -----------------------------
(* A small instance of ConvoBridge for TLC.                                *)
EXTENDS ConvoBridge, TLC

CONSTANTS s1, s2, s3

\* Which stream is which does not matter to any invariant.
Interchangeable == Permutations({s1, s2, s3})

\* With a single session, what upsets its count upsets it for good, and every
\* property that asks for an undisturbed session is true from then on.
Undisturbed == ~disturbed[epoch]

\* The behaviours of a consumer that drops a stream before it asks for the next
\* one, as the pipeline does as long as its own callers do not race.
OneAtATime ==
  Cardinality({s \in Streams : stream[s].status \notin {"unused", "done", "abandoned"}}) <= 1
=============================================================================
