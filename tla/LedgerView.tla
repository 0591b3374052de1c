----------------------------- MODULE LedgerView -----------------------------
(***************************************************************************)
(* What "catch up then tail" (daml_state_service.rs, DamlStateService)     *)
(* promises an application: what it shows is the state of the ledger at    *)
(* one offset, which moves forward only; it may lose the ledger, and find  *)
(* it again at any offset.                                                 *)
(***************************************************************************)
EXTENDS Naturals, Sequences

CONSTANT Unknown

VARIABLES
  history,   \* the state of the ledger after each of its updates
  shown,     \* the state that is shown, or Unknown,
  reached    \* and the offset this belongs to, or Unknown

viewVars == <<history, shown, reached>>

At(o) == IF o = 0 THEN {} ELSE history[o]

Init == history = <<>> /\ shown = Unknown /\ reached = Unknown

Grow ==
  /\ Len(history') = Len(history) + 1
  /\ \A o \in 1 .. Len(history) : history'[o] = history[o]
  /\ UNCHANGED <<shown, reached>>

Show ==
  /\ \E o \in 0 .. Len(history) :
       /\ reached = Unknown \/ reached <= o
       /\ reached' = o
       /\ shown' = At(o)
  /\ UNCHANGED history

Lose == shown' = Unknown /\ reached' = Unknown /\ UNCHANGED history

Next == Grow \/ Show \/ Lose

Spec == Init /\ [][Next]_viewVars

=============================================================================
