--------------------------- MODULE CodeGeneration ---------------------------
(***************************************************************************)
(* daml-codegen: the Rust sources of an archive, into one file or into one *)
(* file per module, with a filter on module names                          *)
(* (daml-codegen/src/generator/, renderer/module_renderer.rs).             *)
(*                                                                         *)
(* A build script runs the generator over and over into one directory.     *)
(* The DAR and the filter change between the runs, any write may fail and  *)
(* end a run half way, and no run removes what earlier ones have left.     *)
(***************************************************************************)
EXTENDS Naturals, SequencesExt

CONSTANTS
  PathSegment,    \* names of packages and of modules
  Archive,        \* the archives the generator may be run on: see ArchiveType
  Filter,         \* the filters: each is the set of module paths it matches
  MaxRuns         \* bound: runs of the generator

(***************************************************************************)
(* The modules of an archive are named by paths: the package, then the     *)
(* segments of the module's name.  <<package>> is the root module of the   *)
(* package, which holds no data.  ModuleTree is how these trees come to    *)
(* be, and what the synthetic ones are.                                    *)
(***************************************************************************)
ModulePath == Seq(PathSegment)

IsForest(nodes) == \A p \in nodes : p # << >> /\ Prefixes(p) \ {<< >>} \subseteq nodes

ArchiveType ==
  {t \in [nodes : SUBSET ModulePath, synthetic : SUBSET ModulePath, data : SUBSET ModulePath] :
     /\ IsForest(t.nodes) /\ IsFiniteSet(t.nodes)
     /\ t.synthetic \subseteq t.nodes /\ t.data \subseteq t.nodes
     /\ \A p \in t.synthetic \union t.data : Len(p) > 1}

ASSUME ArchiveAssumption == \A t \in Archive : t \in ArchiveType

ASSUME FilterAssumption == \A f \in Filter : f \subseteq ModulePath

ASSUME MaxRunsAssumption == MaxRuns \in Nat

VARIABLES
  run,        \* number of the current run
  mode,       \* ModuleOutputMode of the run
  archive,    \* what it runs on
  filter,     \* its ModuleMatcher
  todo,       \* Separate: the files still to write, the next one first
  files,      \* the output directory
  pc

genVars == <<run, mode, archive, filter, todo, files, pc>>

CombinedFile == << >>    \* the file of the archive; the others go by path

NoFile == [run |-> 0, modules |-> {}, data |-> {}]

\* A file, in its run, says which modules exist and renders data of modules.
FileOf(modules, data) == [run |-> run, modules |-> modules, data |-> data]

EmptyFile == FileOf({}, {})

Parent(p) == Front(p)
Roots == {p \in archive.nodes : Len(p) = 1}
Children(p) == {q \in archive.nodes : Len(q) > 1 /\ Parent(q) = p}

----------------------------------------------------------------------------
(***************************************************************************)
(* ModuleMatcher::matches, on the path without the package.  The root      *)
(* module of a package matches every filter.                               *)
(***************************************************************************)
Matches(p) == Len(p) = 1 \/ Tail(p) \in filter

(***************************************************************************)
(* quote_module_tree_inner hands down whether the nearest module at or     *)
(* above that is not synthetic was matched; the data of a module is        *)
(* rendered if it was.  A module without rendered data is left out unless  *)
(* something below it is there.                                            *)
(***************************************************************************)
IncludedByAnyAncestor[p \in ModulePath] ==                    \* mutant
  \/ Matches(p) /\ p \notin archive.synthetic
  \/ Len(p) > 1 /\ IncludedByAnyAncestor[Parent(p)]
Included[p \in ModulePath] ==
  IF p \in archive.synthetic THEN Included[Parent(p)] ELSE Matches(p)

IncludedTransitively(p) == IncludedByAnyAncestor[p]     \* mutant
RenderData(p) == Included[p]

Emitted(p) == \E q \in archive.nodes : IsPrefix(p, q) /\ RenderData(q)

Combined ==
  FileOf({p \in archive.nodes : Emitted(p)}, {p \in archive.data : RenderData(p)})

(***************************************************************************)
(* is_interesting_module: the module has data and is matched, or one of    *)
(* the modules below it is interesting.                                    *)
(***************************************************************************)
MatchedOnly(p) == p \in archive.data /\ Matches(p)      \* mutant
Interesting(p) ==
  \E q \in archive.nodes : IsPrefix(p, q) /\ q \in archive.data /\ Matches(q)

SubModules(p) == {q \in Children(p) : Interesting(q)}

\* The file of a package declares its modules; that of a module does too,
\* and renders the data of the module.
SourceOf(p) == FileOf(SubModules(p), IF Len(p) > 1 THEN {p} \intersect archive.data ELSE {})

----------------------------------------------------------------------------
GenInit ==
  /\ run = 0
  /\ mode \in {"Separate", "Combined"}
  /\ archive \in Archive
  /\ filter \in Filter
  /\ todo = << >>
  /\ files = [p \in Prefixes(<< >>) |-> NoFile]
  /\ pc = "idle"

(***************************************************************************)
(* daml_codegen: the DAR is loaded and the regexes are compiled before the *)
(* first file is touched.                                                  *)
(***************************************************************************)
Start ==
  /\ pc \in {"idle", "done", "failed"}
  /\ run < MaxRuns
  /\ run' = run + 1
  /\ archive' \in Archive
  /\ filter' \in Filter
  /\ mode' \in {"Separate", "Combined"}
  /\ todo' \in IF mode' = "Combined" THEN {<<CombinedFile>>}
               ELSE SetToSeqs({p \in archive'.nodes : Len(p) = 1})
  /\ pc' = "writing"
  /\ UNCHANGED files

FailToLoad ==
  /\ pc \in {"idle", "done", "failed"}
  /\ run < MaxRuns
  /\ run' = run + 1
  /\ pc' = "failed"
  /\ UNCHANGED <<mode, archive, filter, todo, files>>

\* File::create truncates what an earlier run has left.
PutFile(p, file) ==
  files' = [q \in DOMAIN files \union {p} |-> IF q = p THEN file ELSE files[q]]

WriteCombined ==
  /\ pc = "writing" /\ mode = "Combined" /\ todo # << >>
  /\ PutFile(CombinedFile, Combined)
  /\ todo' = Tail(todo)
  /\ UNCHANGED <<run, mode, archive, filter, pc>>

(***************************************************************************)
(* generate_package_source and generate_module_source: the file first,     *)
(* then one after the other, and with all that is below it, each of the    *)
(* modules it declares.                                                    *)
(***************************************************************************)
WriteSource ==
  /\ pc = "writing" /\ mode = "Separate" /\ todo # << >>
  /\ PutFile(Head(todo), SourceOf(Head(todo)))
  /\ \E order \in SetToSeqs(SubModules(Head(todo))) : todo' = order \o Tail(todo)
  /\ UNCHANGED <<run, mode, archive, filter, pc>>

\* create_dir_all and create fail, or write_all does and leaves a part.
FailToWrite ==
  /\ pc = "writing" /\ todo # << >>
  /\ UNCHANGED files \/ PutFile(Head(todo), EmptyFile)
  /\ pc' = "failed"
  /\ todo' = << >>
  /\ UNCHANGED <<run, mode, archive, filter>>

FinishRun ==
  /\ pc = "writing" /\ todo = << >>
  /\ pc' = "done"
  /\ UNCHANGED <<run, mode, archive, filter, todo, files>>

GenNext == Start \/ FailToLoad \/ WriteCombined \/ WriteSource \/ FailToWrite \/ FinishRun

GenSpec == GenInit /\ [][GenNext]_genVars

----------------------------------------------------------------------------
(***************************************************************************)
(* What rustc makes of the files: the modules that are declared by a chain *)
(* of declarations that starts at a package.                               *)
(***************************************************************************)
DeclaredInCrate(p) ==
  /\ SubSeq(p, 1, 1) \in Roots
  /\ \A k \in 2 .. Len(p) :
       LET parent == SubSeq(p, 1, k - 1)
       IN  parent \in DOMAIN files /\ SubSeq(p, 1, k) \in files[parent].modules

Crate == {p \in archive.nodes \union DOMAIN files : p # << >> /\ DeclaredInCrate(p)}

(***************************************************************************)
(* After a run into one file per module that succeeded, whatever failed or *)
(* was left over before: every module of the crate has its file, of this   *)
(* run, with data of this archive and of that module; the data of every    *)
(* module whose own path is matched is in the crate, however deep it is    *)
(* and whatever is not matched above it; and no module is in it for        *)
(* nothing.  Nothing stale is compiled, and no declaration lacks a file.   *)
(* It is the own path that counts: data that a variant has in a synthetic  *)
(* module is left out if only the module of the variant is matched, and a  *)
(* module above a matched one is rendered with its data.                   *)
(***************************************************************************)
CrateIsThisRun ==
  pc = "done" /\ mode = "Separate" =>
    /\ \A p \in Crate :
         /\ p \in DOMAIN files /\ files[p].run = run
         /\ files[p].data \subseteq {p} \intersect archive.data
         /\ Len(p) = 1 \/ \E q \in archive.data : IsPrefix(p, q) /\ Matches(q)
    /\ \A p \in archive.data : Matches(p) => p \in Crate /\ p \in files[p].data

(***************************************************************************)
(* The comment on quote_module_tree_inner: the data of a synthetic module  *)
(* is rendered with the nearest module above that is not, and no match     *)
(* further up counts, that of the root module least of all.                *)
(***************************************************************************)
NearestReal(p) ==
  CHOOSE q \in Prefixes(p) \ (archive.synthetic \union {<< >>}) :
    \A r \in Prefixes(p) \ (archive.synthetic \union {<< >>}) : Len(r) <= Len(q)

CombinedIsSelected ==
  pc = "done" /\ mode = "Combined" =>
    files[CombinedFile].data = {p \in archive.data : Matches(NearestReal(p))}

(***************************************************************************)
(* The help of the option: "Only modules matching any of the regexes are   *)
(* emitted", in either mode, with the data of a synthetic module counted   *)
(* as that of the nearest module that is not.                              *)
(***************************************************************************)
Rendered ==
  IF mode = "Combined" THEN files[CombinedFile].data
  ELSE UNION {files[p].data : p \in Crate}

OnlyMatchedIsEmitted ==
  pc = "done" => \A p \in Rendered : Matches(NearestReal(p))

=============================================================================
