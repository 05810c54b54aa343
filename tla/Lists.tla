--------------------------------- MODULE Lists ---------------------------------
(***************************************************************************)
(* What the code does to lists in many places.                             *)
(***************************************************************************)
EXTENDS Sequences, SequencesExt, Functions

\* What of a sequence is among the wanted, in its order.
Wanted(seq, wanted) ==
    FlattenSeq([i \in DOMAIN seq |-> IF seq[i] \in wanted THEN <<seq[i]>> ELSE <<>>])

IsList(x) == x \in Seq(Range(x))

\* The places of a sequence.
Places(seq) == [i \in DOMAIN seq |-> i]

================================================================================
