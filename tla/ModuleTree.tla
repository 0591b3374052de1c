----------------------------- MODULE ModuleTree -----------------------------
(***************************************************************************)
(* The conversion of one Daml-LF2 package: the flat list of modules of the *)
(* wire format is folded, one module at a time and in wire order, into a   *)
(* tree of modules keyed by the segments of their dotted names             *)
(* (daml-lf/src/convert.rs, daml-lf/src/element/daml_module.rs).           *)
(*                                                                         *)
(* A data type of a module has a dotted name.  A top-level type has one    *)
(* segment and lives in its module; the payload record of a variant has    *)
(* more (Shape.Circle) and is re-routed to a child module named by the     *)
(* prefix.  That child may be a module of its own in the same package.     *)
(***************************************************************************)
EXTENDS Naturals, SequencesExt

CONSTANTS
  Segment,    \* segments of dotted names, shared by modules and data types
  Package     \* the packages under conversion: sequences of wire modules

(***************************************************************************)
(* Paths of the tree.  The root module is the empty path.                  *)
(***************************************************************************)
Path == Seq(Segment)
Root == << >>

(***************************************************************************)
(* A module of the wire format.  `data' holds the dotted names of its data *)
(* types, those whose constructor is the Interface marker left out:        *)
(* build_data_types skips them.  `ok' says that the three LF1 feature      *)
(* flags are set and that every definition of the module converts.         *)
(***************************************************************************)
WireModule == [path : Path, data : SUBSET (Path \ {Root}), ok : BOOLEAN]

ASSUME PackageAssumption == Package \subseteq Seq(WireModule)

VARIABLES
  wire,       \* the package being converted
  next,       \* position in wire of the next module to insert
  nodes,      \* the paths at which the tree has a module
  synthetic,  \* the nodes flagged synthetic
  installed,  \* the nodes that carry the content of a wire module
  data,       \* the data types of the tree: where, name, declaring module
  status      \* of the conversion

vars == <<wire, next, nodes, synthetic, installed, data, status>>

Statuses == {"building", "built", "failed"}
Entry == [at : Path, name : Segment, owner : Nat]

Done == 1 .. (next - 1)     \* the wire modules inserted so far

SameKey(e, f) == e.at = f.at /\ e.name = f.name

----------------------------------------------------------------------------
(***************************************************************************)
(* Where the conversion puts data type d of wire module i, and where it    *)
(* makes every reference to that type point: build_data_types and          *)
(* convert_tycon_id fold the prefix of the dotted name into the module     *)
(* path independently of each other.                                       *)
(***************************************************************************)
Target(i, d) == [at |-> wire[i].path \o Front(d), name |-> Last(d)]

EntryOf(i, d) == [at |-> wire[i].path \o Front(d), name |-> Last(d), owner |-> i]

Declared(i) == {EntryOf(i, d) : d \in wire[i].data}
Direct(i) == {EntryOf(i, d) : d \in {x \in wire[i].data : Len(x) = 1}}
Nested(i) == {EntryOf(i, d) : d \in {x \in wire[i].data : Len(x) > 1}}

\* HashMap::insert: a new entry replaces the one with its key.
PutWithoutReplacing(entries, new) == entries \union new   \* mutant
Put(entries, new) ==
  {e \in entries : \A f \in new : ~SameKey(e, f)} \union new

\* child_module_or_new along the path of module i: plain, unflagged nodes.
PathNodes(i) == Prefixes(wire[i].path)

\* synthetic_child_or_new along the prefixes of its nested data types.
DeepestOnly(i) == {e.at : e \in Nested(i)}   \* mutant
PayloadNodes(i) == (UNION {Prefixes(e.at) : e \in Nested(i)}) \ PathNodes(i)

(***************************************************************************)
(* take_from replaces the whole content of the node at the module's path:  *)
(* every data type already there is dropped, the children are kept.        *)
(***************************************************************************)
TakeFromMerging(i) == Put(data, Direct(i))   \* mutant
TakeFromPruning(i) ==                        \* mutant
  {e \in data : ~IsPrefix(wire[i].path, e.at)} \union Direct(i)
TakeFrom(i) == {e \in data : e.at # wire[i].path} \union Direct(i)

\* A payload node that exists already is returned unchanged and keeps its
\* flag; the node taken by the module loses its own.
SyntheticKept(i) == synthetic \union (PayloadNodes(i) \ nodes)   \* mutant
SyntheticAfter(i) ==
  (synthetic \ {wire[i].path}) \union (PayloadNodes(i) \ nodes)

----------------------------------------------------------------------------
Init ==
  /\ wire \in Package
  /\ next = 1
  /\ nodes = {Root}
  /\ synthetic = {}
  /\ installed = {}
  /\ data = {}
  /\ status = "building"

\* insert_module for a module that converts.
InsertModule ==
  /\ status = "building"
  /\ next <= Len(wire)
  /\ wire[next].ok
  /\ nodes' = nodes \union PathNodes(next) \union PayloadNodes(next)
  /\ synthetic' = SyntheticAfter(next)
  /\ installed' = installed \union {wire[next].path}
  /\ data' = Put(TakeFrom(next), Nested(next))
  /\ next' = next + 1
  /\ UNCHANGED <<wire, status>>

\* A loose feature flag or a definition that does not convert: the error
\* leaves build_module_tree, and the tree built so far is dropped.
RejectModule ==
  /\ status = "building"
  /\ next <= Len(wire)
  /\ ~wire[next].ok
  /\ status' = "failed"
  /\ nodes' = {Root}
  /\ synthetic' = {}
  /\ installed' = {}
  /\ data' = {}
  /\ UNCHANGED <<wire, next>>

\* The list is exhausted: build_module_tree returns the root.
Finish ==
  /\ status = "building"
  /\ next > Len(wire)
  /\ status' = "built"
  /\ UNCHANGED <<wire, next, nodes, synthetic, installed, data>>

Next == InsertModule \/ RejectModule \/ Finish

Spec == Init /\ [][Next]_vars

----------------------------------------------------------------------------
(***************************************************************************)
(* Type invariant of the converter.  `data' and the children of a module   *)
(* are hash maps: no two data types of one module share a name.            *)
(***************************************************************************)
TypeOK ==
  /\ wire \in Seq(WireModule)
  /\ next \in 1 .. (Len(wire) + 1)
  /\ nodes \subseteq Path
  /\ synthetic \subseteq nodes
  /\ installed \subseteq nodes
  /\ data \subseteq Entry
  /\ \A e, f \in data : SameKey(e, f) => e = f
  /\ status \in Statuses

(***************************************************************************)
(* The nodes form a tree, and every data type hangs on it: the lookup of   *)
(* child_module_path, which walks from the root one segment at a time,     *)
(* never stops short of a module that holds data.                          *)
(***************************************************************************)
TreeShaped ==
  /\ \A p \in nodes : Prefixes(p) \subseteq nodes
  /\ \A e \in data : e.at \in nodes

(***************************************************************************)
(* The tree holds exactly the data types that no later wire module has     *)
(* pushed out, by taking the node they sit in (take_from) or by declaring  *)
(* the same key: last writer wins, and nothing else is ever lost by the    *)
(* re-routing, whatever the order of the modules on the wire.              *)
(***************************************************************************)
Superseded(e) ==
  \E j \in Done :
    /\ j > e.owner
    /\ \/ wire[j].path = e.at
       \/ \E f \in Declared(j) : SameKey(e, f)

DataIsLastDeclared ==
  status # "failed" =>
    data = {e \in UNION {Declared(i) : i \in Done} : ~Superseded(e)}

(***************************************************************************)
(* The synthetic flag is what the filters of the code generator go by.     *)
(* Whatever the order of insertion, a flagged node never carries a wire    *)
(* module, was made for the payload of one that was inserted, and holds    *)
(* only data declared by modules strictly above it.                        *)
(***************************************************************************)
SyntheticHoldsPayloadOnly ==
  \A p \in synthetic :
    /\ p \notin installed
    /\ \E i \in Done : p \in PayloadNodes(i)
    /\ \A e \in data : e.at = p => IsStrictPrefix(wire[e.owner].path, p)

(***************************************************************************)
(* Every reference resolves: data_by_tycon_name finds, at the path that    *)
(* convert_tycon_id gives it, the data type that the wire module declared. *)
(***************************************************************************)
Resolves(i, d) ==
  LET t == Target(i, d)
  IN  /\ t.at \in nodes
      /\ \E e \in data : SameKey(e, t) /\ e.owner = i

ReferencesResolve ==
  status = "built" =>
    \A i \in 1 .. Len(wire) : \A d \in wire[i].data : Resolves(i, d)

(***************************************************************************)
(* No module of the package sits where another one puts its data, and no   *)
(* two of them put data under one key.                                     *)
(***************************************************************************)
Disjoint ==
  \A i, j \in 1 .. Len(wire) :
    i # j =>
      \A d \in wire[i].data :
        /\ Target(i, d).at # wire[j].path
        /\ \A x \in wire[j].data : ~SameKey(Target(i, d), Target(j, x))

(***************************************************************************)
(* For a package without such clashes the order of the modules on the wire *)
(* does not matter: once built, every reference resolves.                  *)
(***************************************************************************)
DisjointResolves == Disjoint => ReferencesResolve

=============================================================================
