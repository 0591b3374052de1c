------------------------------ MODULE MCLocal ------------------------------
(***************************************************************************)
(* The four components that call nobody and share nothing: the tree of the *)
(* modules of a package, the reading of an archive, the generator of code  *)
(* and the map of Daml values.  A behaviour is one of any of them, on the  *)
(* instances of their own MC modules, while the others rest in an initial  *)
(* state.                                                                  *)
(***************************************************************************)
EXTENDS MCModuleTree, MCArchiveReading, MCCodeGeneration, MCValueMap

VARIABLE component

localVars == <<component, vars, arVars, genVars, mapVars>>

TreeRests == wire = << >> /\ Init

ReadingRests == full = FALSE /\ ARInit

GeneratorRests == mode = "Combined" /\ archive = First /\ filter = {<<"A">>} /\ GenInit

LocalInit ==
  \/ component = "tree" /\ Init /\ ReadingRests /\ GeneratorRests /\ MapInit
  \/ component = "reading" /\ TreeRests /\ ARInit /\ GeneratorRests /\ MapInit
  \/ component = "generator" /\ TreeRests /\ ReadingRests /\ GenInit /\ MapInit
  \/ component = "map" /\ TreeRests /\ ReadingRests /\ GeneratorRests /\ MapInit

LocalNext ==
  \/ component = "tree" /\ Next /\ UNCHANGED <<component, arVars, genVars, mapVars>>
  \/ component = "reading" /\ ARNext /\ UNCHANGED <<component, vars, genVars, mapVars>>
  \/ component = "generator" /\ GenNext /\ UNCHANGED <<component, vars, arVars, mapVars>>
  \/ component = "map" /\ MapNext /\ UNCHANGED <<component, vars, arVars, genVars>>

LocalSpec == LocalInit /\ [][LocalNext]_localVars

=============================================================================
