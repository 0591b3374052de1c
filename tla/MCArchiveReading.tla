-------------------------- MODULE MCArchiveReading --------------------------
(***************************************************************************)
(* Types are nested in types, and expressions in expressions below the     *)
(* values of a module; elsewhere an expression is followed no further than *)
(* to its types and names.  A template is followed less far than an        *)
(* interface, whose choices are read by the same functions, and an orphan  *)
(* is not read at all.                                                     *)
(***************************************************************************)
EXTENDS ArchiveReading

MCMaxNested(slot) == IF slot \in {"templates", "orphans"} THEN 1 ELSE 2
MCMaxExprs(slot) == IF slot = "values" THEN 2 ELSE 1

=============================================================================
