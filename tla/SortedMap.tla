----------------------------- MODULE SortedMap -----------------------------
(***************************************************************************)
(* std::collections::BTreeMap as daml-grpc uses it for DamlGenMap: a       *)
(* sequence of entries <<key, value>> that is searched and extended by     *)
(* nothing but the Ord of the keys.  External: the standard library's code *)
(* is not in the repository.                                               *)
(***************************************************************************)
EXTENDS Integers, Sequences

\* Ord::cmp of the keys: below, at or above 0.
CONSTANT Compare(_, _)

KeyAt(m, i) == m[i][1]

\* Whether the search ends at position i: all keys before are less than k.
EndsAt(m, k, i) ==
  /\ \A j \in 1..(i - 1) : Compare(k, KeyAt(m, j)) > 0
  /\ i <= Len(m) => Compare(k, KeyAt(m, i)) <= 0

Position(m, k) == CHOOSE i \in 1..(Len(m) + 1) : EndsAt(m, k, i)

Holds(m, k) ==
  LET i == Position(m, k) IN i <= Len(m) /\ Compare(k, KeyAt(m, i)) = 0

Lookup(m, k) == m[Position(m, k)][2]

\* FromIterator: of two entries with equal keys the later one stays.
Collect(m, k, v) ==
  LET p == Position(m, k) IN
  IF Holds(m, k)
  THEN [i \in 1..Len(m) |-> IF i = p THEN <<k, v>> ELSE m[i]]
  ELSE [i \in 1..(Len(m) + 1) |->
          IF i < p THEN m[i] ELSE IF i = p THEN <<k, v>> ELSE m[i - 1]]

\* insert: the key that is there stays, with the new value.
Insert(m, k, v) ==
  Collect(m, IF Holds(m, k) THEN KeyAt(m, Position(m, k)) ELSE k, v)
=============================================================================
