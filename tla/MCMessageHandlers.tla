-------------------------- MODULE MCMessageHandlers --------------------------
(* Instances of MessageHandlers for TLC. *)
EXTENDS MessageHandlers, TLC

CONSTANTS a, b, odd

\* Every message has the name a, except `odd`.
NamedA == [m \in Messages |-> IF m = odd THEN b ELSE a]

\* Messages of one name are interchangeable.
Symmetry == Permutations(Signals \ {odd}) \cup Permutations(Updates \ {odd})
=============================================================================
