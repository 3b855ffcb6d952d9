-------------------------------- MODULE Lists --------------------------------
(***************************************************************************)
(* What the program asks of a slice of *domain.Backend.                    *)
(***************************************************************************)
EXTENDS Naturals, Sequences, SequencesExt

Members(list) == { list[i] : i \in 1..Len(list) }

NoRepeats(list) == \A i, j \in 1..Len(list) : list[i] = list[j] => i = j

PositionOf(list, b) == CHOOSE i \in 1..Len(list) : list[i] = b

\* sub keeps the order of list, which has no repeats.
InOrderOf(sub, list) ==
  /\ Members(sub) \subseteq Members(list)
  /\ \A i, j \in 1..Len(sub) :
       i < j => PositionOf(list, sub[i]) < PositionOf(list, sub[j])

\* All of sub comes before the place p of list.
EndsBefore(sub, list, p) == \A i \in 1..Len(sub) : PositionOf(list, sub[i]) < p

\* slices.DeleteFunc by instance ID: the IDs are unique, so at most one
\* element goes and the others keep their order.
Without(list, b) ==
  IF b \in Members(list) THEN RemoveAt(list, PositionOf(list, b)) ELSE list

=============================================================================
