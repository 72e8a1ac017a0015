------------------------- MODULE MCProducerConsumer -------------------------
(* Instances of ProducerConsumer for TLC. *)
EXTENDS ProducerConsumer, TLC

\* Producers, consumers and elements are interchangeable.
Symmetry ==
    Permutations(Producers) \cup Permutations(Consumers) \cup Permutations(Elems)
=============================================================================
