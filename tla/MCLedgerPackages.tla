-------------------------- MODULE MCLedgerPackages --------------------------
(***************************************************************************)
(* Three package ids and two modules.  Shape is a module of a and of b, as *)
(* of two versions of one package; at most one of the packages answers     *)
(* with something that does not convert, or does not decode.               *)
(***************************************************************************)
EXTENDS LedgerPackages, TLC

CONSTANTS a, b, c, Shape, Main

MCPkg == {a, b, c}

Modules == (a :> {Shape}) @@ (b :> {Shape, Main}) @@ (c :> {Main})

MCContent ==
  {[p \in MCPkg |-> [wellFormed |-> p # bad[1], decodes |-> p # bad[2],
                     modules |-> Modules[p]]] :
     bad \in {<<None, None>>, <<a, None>>, <<None, a>>, <<None, c>>}}

=============================================================================
