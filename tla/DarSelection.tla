---------------------------- MODULE DarSelection ----------------------------
(***************************************************************************)
(* What DamlPackages::into_dar promises of the DAR it makes of a           *)
(* collection of packages (daml-util/src/package.rs), in one step: either  *)
(* a DAR around the requested main package, with exactly the packages that *)
(* the main one reaches (all of them, when dependencies are not filtered), *)
(* or an error, and an error only for a reason.                            *)
(***************************************************************************)
EXTENDS Naturals, FiniteSets, SequencesExt

CONSTANTS
  Pkg,        \* package ids
  None        \* no main package is asked for

(***************************************************************************)
(* What a payload is to the loader.  `types' are the packages that its     *)
(* type-constructor names point to, `others' those that it refers to in a  *)
(* way the visitor does not see.  `decodes' says that from_bytes accepts   *)
(* it, `converts' that it also converts into an element tree.              *)
(***************************************************************************)
Content ==
  [types : SUBSET Pkg, others : SUBSET Pkg, decodes : BOOLEAN, converts : BOOLEAN]

VARIABLES
  packages,   \* the collection: a sequence of package ids
  lf,         \* the content behind each id
  hint,       \* the requested main package, or None
  filter,     \* filter_deps
  outcome     \* what into_dar returned

request == <<packages, lf, hint, filter>>

Pending == [result |-> "pending", main |-> None, contents |-> {}]
Refused == [result |-> "refused", main |-> None, contents |-> {}]
Delivered(m, ps) == [result |-> "delivered", main |-> m, contents |-> ps]

(***************************************************************************)
(* Reachability, as the least set of packages that holds the root and all  *)
(* that its members refer to.  An id that is not in the collection has     *)
(* nothing to expand.                                                      *)
(***************************************************************************)
Held == ToSet(packages)
Closed(S) == \A p \in S \cap Held : lf[p].types \subseteq S
Reaches(root, p) == \A S \in SUBSET Pkg : root \in S /\ Closed(S) => p \in S

MainOf == IF hint = None THEN packages[1] ELSE hint

Wanted ==
  IF filter THEN {p \in Held : Reaches(MainOf, p)} ELSE Held

(***************************************************************************)
(* The reasons to refuse.  One payload that does not decode refuses the    *)
(* whole request, reachable or not; one that decodes but does not convert  *)
(* matters only if the filter has to look into it.                         *)
(***************************************************************************)
NoMain == IF hint = None THEN packages = << >> ELSE hint \notin Held
Undecodable == \E p \in Held : ~lf[p].decodes
Unconvertible ==
  /\ filter
  /\ \E p \in Held : Reaches(MainOf, p) /\ ~lf[p].converts

Init ==
  /\ packages \in Seq(Pkg)
  /\ lf \in [Pkg -> Content]
  /\ hint \in Pkg \union {None}
  /\ filter \in BOOLEAN
  /\ outcome = Pending

Deliver ==
  /\ outcome = Pending
  /\ ~NoMain /\ ~Undecodable /\ ~Unconvertible
  /\ outcome' = Delivered(MainOf, Wanted)
  /\ UNCHANGED request

Refuse ==
  /\ outcome = Pending
  /\ NoMain \/ Undecodable \/ Unconvertible
  /\ outcome' = Refused
  /\ UNCHANGED request

Next == Deliver \/ Refuse

Spec == Init /\ [][Next]_<<packages, lf, hint, filter, outcome>>

=============================================================================
