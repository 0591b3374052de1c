--------------------------- MODULE MCModuleTree ---------------------------
(***************************************************************************)
(* Packages of up to three modules, A, A.S and A.S.T, in every order, with *)
(* every combination of the names below and at most one module that does   *)
(* not convert, so that a module can be the home of another one's variant  *)
(* payload before or after it is inserted.                                 *)
(***************************************************************************)
EXTENDS ModuleTree

MCSegment == {"A", "S", "T", "C"}

A == <<"A">>
AS == <<"A", "S">>
AST == <<"A", "S", "T">>

DataNames ==
  { (A :> x) @@ (AS :> y) @@ (AST :> z) :
      x \in SUBSET {<<"S">>, <<"S", "C">>, <<"S", "T", "C">>},
      y \in SUBSET {<<"C">>, <<"T", "C">>},
      z \in SUBSET {<<"C">>} }

Orders == UNION {SetToSeqs(P) : P \in SUBSET {A, AS, AST}}

MCPackage ==
  { [k \in DOMAIN o |->
       [path |-> o[k], data |-> n[o[k]], ok |-> o[k] # bad]] :
    o \in Orders, n \in DataNames, bad \in {A, AS, AST, Root} }

=============================================================================
