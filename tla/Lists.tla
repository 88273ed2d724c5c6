------------------------------- MODULE Lists -------------------------------
(***************************************************************************)
(* Sequences as the modules use them: taking what is wanted of a list.     *)
(***************************************************************************)
EXTENDS Integers, Sequences, SequencesExt

\* A sequence of something.
IsList(list) == list \in Seq(ToSet(list))

(* The entries that are wanted, in order.                                  *)
Those(list, wanted) ==
    LET kept[k \in 0 .. Len(list)] ==
            IF k = 0 THEN << >>
            ELSE IF list[k] \in wanted THEN Append(kept[k - 1], list[k]) ELSE kept[k - 1]
    IN  kept[Len(list)]
=============================================================================
