# A verification development for rust-daml-bindings

The crates of this repository connect Rust programs to Daml: `daml-lf` loads
Daml-LF archives, `daml-grpc` talks to a participant's ledger API, `daml-util`
combines the two, `daml-codegen` makes Rust sources of an archive, and
`daml-derive` and `daml-macro` are the macros of that generated code.

There are few locks and no threads of its own here.  What is hard lies in three
places:

* **the order of things that come in an order nobody fixes** - modules on the
  wire, references in a hash set, answers of a participant, events in a
  transaction;
* **the participant as a concurrent partner** - requests and answers that are
  lost, late or repeated, packages that come and go between two calls, commands
  that take effect though the caller was told nothing;
* **two parts of the code that have to agree** - where a data type is put and
  where references to it point, what a filter leaves out and what the rest
  still refers to, the shape of an answer that is asked for and the event that
  is picked from it.

The modules below are about these.  Each is translated from the source at the
lines that `PROJECT.json` ("map") gives for each of its definitions.

## 1. Inventory

| part | state | operations | interacts with |
|---|---|---|---|
| `daml-lf` conversion (`convert.rs`, `element/daml_module.rs`) | the module tree of a package under construction | `build_module_tree`, `insert_module`, `take_from`, `synthetic_child_or_new`, `insert_data_type`; `data_by_tycon_name` on the result | is called with decoded payloads by `DarFile`, `DamlLfArchivePayload::apply`; its tree is read by `daml-codegen` and by visitors |
| `daml-lf` conversion of types, expressions, templates, interfaces (`convert.rs`, `convert/`) | none | one conversion per message of the format; refuses the archive at the first thing that is missing or wrong | is called by `DarFile::apply`; builds the elements |
| `daml-lf` element model (`element/`) | none after construction | `accept` (visitors), `validate`, lookups | `daml-util`'s `ReferencedPackagesVisitor`, `daml-codegen` |
| `daml-lf` files (`dar.rs`, `manifest.rs`, `archive.rs`, `payload.rs`) | none | read, parse, render, decode | file system |
| `daml-util` DAR assembly (`package.rs`) | the walk's queue and visited set, the archives | `into_dar`: `resolve_main_id`, `payloads_by_id`, `reachable_from`, `packages_to_archives`, `archives_to_dar` | `daml-lf` to decode, convert and visit |
| `daml-util` packages of a ledger (`package.rs`) | the fetches in flight, the collection | `from_ledger`, `find_module` | `DamlPackageService` of `daml-grpc`, a participant whose packages change |
| `daml-grpc` command submission (`executor.rs`, `command_factory.rs`, `daml_command_service.rs`) | none in the client between calls; the participant has the ledger | `build`, `execute_*`, `make_command*`, `submit_and_wait*` | participant, network, other clients |
| `daml-grpc` updates and state (`daml_update_service.rs`, `daml_state_service.rs`, `data/filter.rs`, `data/update.rs`, `data/state.rs`, `data/event/`, ...) | offsets, continuation and page tokens, held by the caller | snapshot and updates, each in a stream or page by page; the formats that ask for them; the conversion of every answer | participant |
| `daml-grpc` asynchronous submission (`daml_command_submission_service.rs`, `daml_command_completion_service.rs`, `data/completion.rs`) | the offset of the last completion or checkpoint, held by the caller | `submit_request`, `submit_reassignment`, `get_completion_stream` | participant, other applications |
| `daml-grpc` values (`data/value/`, `primitive_types.rs`) | the maps that a program holds | `insert`, conversion to and from the wire, total order, access to fields | generated code, `daml-macro` |
| `daml-grpc` administration services | none | one request each | participant |
| `daml-codegen` (`generator/`, `renderer/`) | the output directory, across runs | `daml_codegen` in two output modes, filter on modules | `daml-lf`; rustc reads the result |
| `daml-derive`, `daml-macro` | none | attributes and macros to tokens | generated code |

What makes each part correct:

* *conversion*: references resolve to the data they mean; nothing is lost in the
  re-routing of variant payloads; a node flagged synthetic is synthetic; an archive
  is refused for what is wrong in it and for nothing else;
* *element model*: a visitor is shown every name that was written; what `validate`
  says of an archive is so;
* *DAR assembly*: the DAR has what its main package needs, nothing twice, and an
  error is only returned for a reason; the walk ends on cyclic references;
* *packages of a ledger*: all or nothing, in spite of changes and lost answers;
  "no such module" only if it is true;
* *submission*: a repeated command takes effect once where that can be had; what
  a caller was told is true; a caller gets the result of its own command;
* *updates and state*: what an application shows is the ledger at its offset, across
  snapshot, stream, pages and resumption; it is stopped only by what the protocol
  forbids; it catches up;
* *asynchronous submission*: no completion is missed or counted twice; what is
  concluded from completions that do not tell the attempt is true; every command
  that arrived is decided;
* *values*: what is sent is what is read back, an incomplete message never is; the
  order is total and agrees with equality, so that a map finds its keys;
* *generator*: after a successful run the crate is that of this run; what a filter
  selects is there, and nothing else is.

`PROJECT.json` lists the hazards of this code at their lines, with the
properties that cover each.

## 2. Modules

| module | is about | checked by | proofs |
|---|---|---|---|
| `ModuleTree` | the module tree of a package | `MCModuleTree`: `local`, `unresolved_payload` | `ConversionProofs` |
| `DarSelection` | what `into_dar` promises (abstract) | through `DarAssembly` | |
| `DarAssembly` | `into_dar` as it runs; implements `DarSelection` | `MCDarAssembly`: `dar_assembly`, `unfollowed_reference` | `DarAssemblyProofs` |
| `LedgerPackages` | `from_ledger` and `find_module` against a participant | `MCLedgerPackages`: `ledger_packages` | `LedgerPackagesProofs` |
| `CommandSubmission` | calls that submit a command and wait | `MCCommandSubmission`: `command_submission`, `missing_result` | `CommandSubmissionProofs` |
| `LfWire` | what a compiler can write into a package (external) | through `ArchiveReading` | |
| `LfConversion` | what the conversion reads, keeps and refuses | through `ArchiveReading` | |
| `LfElements` | the elements, what `accept` and `validate` pass on to | through `ArchiveReading` | |
| `ArchiveReading` | one place of a package: written, converted, visited, validated | `MCArchiveReading`: `local`, `unwalked_reference` | `ConversionProofs` |
| `LedgerResponses` | what the conversions of a participant's answers insist on | through the next two | |
| `CommandCompletions` | asynchronous submission and its completions | `MCCommandCompletions`: `command_completions` | `CommandCompletionsProofs` |
| `EventFormats` | what a format asks for, and what the participant reads of it | through `UpdateStream` | |
| `LedgerView` | what "catch up then tail" promises (abstract) | through `UpdateStream` | |
| `UpdateStream` | snapshot and updates against a ledger that goes on; implements `LedgerView` | `MCUpdateStream`: `update_stream` | `UpdateStreamProofs` |
| `SortedMap` | `BTreeMap`, as searched and filled by an order (external) | through `ValueMap` | |
| `DamlValues` | order, equality and conversions of `DamlValue` | through `ValueMap` | |
| `ValueMap` | a `DamlGenMap` that is filled, sent and read back | `MCValueMap`: `local`, `timestamps` | `ValueMapProofs` |
| `CodeGeneration` | the generator, run after run into one directory | `MCCodeGeneration`: `local`, `unmatched_parent` | `CodeGenerationProofs` |
| `MCLocal` | one of `ModuleTree`, `ArchiveReading`, `CodeGeneration`, `ValueMap` at a time | `local` | |

How they fit together: `LedgerPackages` ends with the collection that
`DarAssembly` starts from; the `types` of a package in `DarSelection` are what
the visitor sees in the tree that `ModuleTree` builds; `CodeGeneration` runs on
archives of such trees, and its `synthetic` nodes are those `ModuleTree` flags.
`ArchiveReading` takes the definitions that `ModuleTree` installs apart, down to the
names in them; which of these a visitor is shown is what `DarSelection` has as
`types` and `others`.  `UpdateStream` and `CommandCompletions` share
`LedgerResponses`, and the ledger of the one is written by the commands of the other.
`ValueMap` takes order and conversions as constants, for which `MCValueMap` puts
the definitions of `DamlValues`; the two meet again inside a value, where
`DamlValues` reads a nested map with the same `SortedMap`.

### ModuleTree

State: the wire package (`wire`) and the position in it, the nodes of the tree,
which of them are flagged synthetic, which have had a module installed, and the
data types with the module that declared each.  `InsertModule` is the whole of
`insert_module`: the nodes along the path, the check of flags and the conversion
of the definitions (`ok`), `take_from`, then the re-routing of the payload
records.  It is one action because nothing can happen in between; its failure,
after which the partial tree is dropped, is `RejectModule`.  `Target` is
`convert_tycon_id`, written independently of `EntryOf`, which is
`build_data_types`: that the two agree is a claim of the model.

Abstracted: what a definition converts to (only whether it does); the synonyms,
interfaces, exceptions and values of a module, which `take_from` replaces like
the data types but which are never re-routed.

`DataIsLastDeclared` says exactly what is in the tree after any sequence of
insertions; the other facts about lookups follow from it.  `DisjointResolves` is
its consequence for the packages the compiler makes; without its precondition the
run `unresolved_payload` finds a lost payload (A with variant S first, then A.S).

### DarAssembly and DarSelection

`DarSelection` states the promise without a walk: a DAR around the main package
with every package it reaches, where reachability is the least closed set, or an
error for one of three reasons.  `DarAssembly` has one action per step of
`into_dar`, one per way through the loop of `reachable_from`, and one for each
`?` that can leave it.  References come out of a hash set, so they are queued in
any order.  `Outcome` is the refinement mapping: pending until the end.

`types` and `others` separate what the visitor of `package.rs` is shown from
what it is not: names of values, which `convert_value_id` always makes local, and
the interfaces a template implements, which `DamlTemplate::accept` skips.
`KeepsPromise` is about `types`; `unfollowed_reference` shows what the doc of the
visitor promises beyond that and the code does not do.

The two error paths of `archives_to_dar` are not modelled as actions: they are
dead (`MainIsKept`, proved).

### LfWire, LfConversion, LfElements and ArchiveReading

The conversion, `accept` and `validate` are three recursions over a syntax of some
100 messages, written out by hand in some 7,000 lines.  None of them looks at two
places of the tree at once, with two exceptions that are modelled
(`ResolvesToRecord`, `DarFile::apply`).  So the model is about one path: `Descend`
and `EndPath` are a compiler that writes it, slot by slot, down to a name, a leaf or
something wrong; the other actions follow it.

`LfWire` is the format (external): for every message its slots, each with the sort of
message it holds and if it has to be there.  `LfConversion` has for every `convert_*`
function the slots it reads and the slots of the element it fills, so a slot that the
code forgets is a rule that is not there, and `Flawed` what each of them refuses.
`LfElements` has for every element the slots `accept` passes on to, and the arms of
the enums that have them: a struct's `accept` is reached only if its enum has the
arm.  `element` is the path of the element that has been built; `kept` says if it is
part of the archive, which the arguments of `Arrow` and `Update` are not.

The properties speak of `path` only, of what was written.  Where the code leaves
something out, the property says so by name: `Unread` (the bodies of interface
instances, templates without a record, expressions without the feature `full`),
`LetGo`, and the `implements` of a template.

`ValidateIsTruthful` says what `validate` finds in the places it walks (`Walked`);
`EveryReferenceResolves` is what its doc promises of all type references, and
`unwalked_reference` shows one that it passes over.

The specification is `ARSpec`, with `ARInit`, `ARNext` and `ARTypeOK`, since
`ConversionProofs` extends it together with `ModuleTree`.  For the same reason, that
`MCLocal` extends them all, those of `CodeGeneration` and `ValueMap` are `GenSpec` and
`MapSpec`.

Abstracted: strings, numbers, literals and locations, to whether they are refused;
the tables of interned types, kinds and expressions, whose entries are followed where
they are referred to.  The compiler's tables refer backwards only; with a table that
does not, the conversion would not end.

### LedgerResponses

Every conversion of an answer is a chain of `req()?` and `try_from(..)?`; a row per
conversion lists the fields it insists on, the times and codes it decodes, the values
it converts, and the messages it goes on to.  A flaw is a kind of message, a field
and a problem.  `Protocol` is the other side (external): what the `.proto` files say
is required and what is optional.  `Converts(k, flaw)` follows the rows from the
answer as a whole.  A flaw of an optional field that refuses an answer, or a required
one that does not, is a difference between the two tables.

One such difference is known to the code: `Completion.status` is optional in the
protocol, and the conversion takes a completion without it for an error; the comment
there says that it "is set on every completion the participant emits in practice".
`CommandCompletions` has such completions (`WithoutStatus`), and `Decided` excepts by
name the commands that wait for one; nothing else that is optional stands in the way.

### EventFormats, LedgerView and UpdateStream

`ledger` has the updates and, with each, the state it leads to; `After` is written
from the documentation of the entries of a snapshot, with the halves of a
reassignment in either order.  `view` is what the application makes of the answers
(`Follow`), and `ViewIsLedgers` compares the two at the application's offset; between
them lie the format on its way to the wire, the participant's reading of it (`Sends`,
and `SendsTopology` for what a `DamlTopologyFormat` asks for), the shape of the messages (an archival is an exercise that consumes, with the ledger
effects) and the conversion back.

Snapshots and updates come as streams or as pages, and the application changes
between them as it likes; each is an action per item, so the ledger grows, is pruned
and breaks the stream in between.  A page is converted as a whole
(`PageConverts`, from `collect::<DamlResult<Vec<_>>>()`); its items are then taken one
by one.  Tokens stand for what the participant encodes in them: the entries sent, or
the offset reached.  `EntriesOnce` looks at what comes next, in the stream (`Unsent`) and
on the next page (`NextPage`): none of it is shown yet.

The application is the one the documentation of the services describes ("catch up
then tail"): it takes the offset of the snapshot for the begin of the updates, checks
`lowest_page_offset_exclusive`, resumes with the last token or offset, starts anew
when what it needs has been pruned, and stops at an error of a conversion.

Abstracted: a transaction has one event, so an offset is an update of one contract;
an update is flawed in at most one place; views, blobs and labels are not part of what
is shown.  `LedgerView` says it without any of that: the state at one offset, which
moves forward, or nothing.

### CommandCompletions

`SubmitRequest` and `SubmitReassignment` are the two submissions; `Lost` is one that
does not arrive, or whose `DamlCommands` do not convert (`submit_request` converts
before it sends).  The answer says that the request was taken, so nothing is learned
from it, and an attempt may be repeated whatever it said.  `DamlCommands::new` leaves
the submission id empty; completions say of which command they are and not of which
attempt, and the application counts: failed is a command of which every attempt was
rejected.  `Process` is the participant, which deduplicates by command id; the log has
the completions of other applications too (`Foreign`), over which the stream passes,
and checkpoints tell how far it has passed.

The application resumes after a break from `offset`, and from the ledger's end if what
comes after `offset` has been pruned; then `gap` is set and it claims nothing more
about what it has counted.

### LedgerPackages

`known` changes while the fetches are out.  A fetch is served (`Serve`) by what
the participant holds then, and delivered or given up later, so answers overtake
each other and the time between the two is there for `Change`.  `Collect` waits
for all of them, as `collect::<Vec<_>>()` on a `FuturesUnordered` does, before
the first error is looked for.  `packages` has the order of completion, and
`find_module` takes the first match in it.  Every error of the transport is the
outcome `timeout`.

### CommandSubmission

Each caller has a job: a method of the executor, or the service's
`submit_and_wait_for_transaction` with a command made by `make_command_with_id`.
Requests and answers are sets of messages in flight: they overtake each other,
are lost, and may arrive after the caller has given up; an answer is bound to the
call that sent the request, as it is by the HTTP/2 stream.  The participant is
external and assumed to do what its API says: at most one command per change id
(user, act_as, command id) takes effect, and an answer shows the transaction in
the shape and for the parties that were asked for.  The deduplication period is
taken to be longer than all attempts: the factory sends the caller's period, or
none, for which the participant takes its maximum.

`Value` is what `execute_create` and `execute_exercise` pick.  `exercise_result` is
optional in the protocol, so every exercise comes with one or without (`Transactions`),
and the search passes over those without (`WithResult`).  If the command's own exercise
has none, the call returns the result of a consequence, or an error; `ReturnsOwnResult`
excepts exactly that (`ResultLeftOut`), and `missing_result` shows the error, which a
comment says is for malformed responses only.

What is *not* claimed: that a command run by an `execute_*` method takes effect
once.  Each call gets a fresh UUID, and a caller that repeats a call that timed
out may well have its command executed twice.  `NamedOnce` is about commands with
an id of their own.

### CodeGeneration

The state that matters is the output directory: it survives the runs.  The
archive, the filter and the mode are chosen anew for each run; loading may fail
before, and a write at any time after, the first file is touched.  A file is what
rustc sees of it: the modules it declares and the data it renders.  `Crate`
follows the declarations from the packages as rustc does.  `Included` is the
parameter that `quote_module_tree_inner` hands down, `Interesting` is
`is_interesting_module`.

The two modes do not select the same.  `CombinedIsSelected` and `CrateIsThisRun` say what
each renders; `OnlyMatchedIsEmitted` is what the option's help says of both, and
`unmatched_parent` shows that one file per module does not keep to it.

A file is identified with its module.  In the code two packages of the same name,
or two names that `to_rust_identifier` makes equal, share a file, and so do the
combined file and a package of the archive's name; these collisions are outside
the model.  Interfaces are rendered in combined mode only
(`quote_module_data_types` in `separate.rs` renders data types alone); they are
not part of `data` here.

### SortedMap, DamlValues and ValueMap

A value is a tree of nodes with a tag, what it holds besides other values, and
the values it holds.  `ValueCmp` follows `partial_cmp`: the variants by their
number, maps first by their length, then the content, then the parts from left to
right.  `SameValue` is the derived equality; that the two agree is `ValuesAreLawful`,
on which `BTreeMap` relies and which the type system does not see.

A map is the sequence of its entries, and `Insert` is a search by the order: with
an order that is not total it puts an entry in the wrong place and later misses
it, as the real tree does.  `ReadEntry` is an action per entry because the
conversion in `values.rs` collects a lazy iterator of results into a map and
stops at the first error; what was collected so far is dropped (`Refuse`).  The
participant answers with what it was sent or with one message in it whose `sum`
is not set (`Spoil`), at any depth.

Abstracted: 0 stands for no label, or an empty one, which the code reads alike
(`Some("")` is not a label a program can see again); a `TextMap` has its entries
in the order of their keys, since nothing depends on the order of the hash map
that the message keeps them in; the digits of a `Numeric` are compared as
`BigDecimal` compares them, by value.  Not modelled: the ranges of dates and
timestamps, the typed conversions of `serialize.rs` and `primitive_types.rs`,
access to the fields of records, and the verbose flag of a request.

## 3. Runs

`local` has four components in one run.  Each of them is synchronous, calls no other of
them and shares no state with them, so nothing is to be learned from interleaving them:
`MCLocal` picks one, lets it run through all its behaviours, and leaves the others in an
initial state.  Its states are those of the four together.

| run | bounds | distinct states | shows |
|---|---|---|---|
| `local` | *ModuleTree*: modules A, A.S, A.S.T in every order and selection, data types with names of up to three segments, at most one module that fails | 747,817 | four invariants and their type |
| | *ArchiveReading*: every path of the format with at most two types, kinds and expressions below a slot of a module, of which two may be expressions in values and one elsewhere, and at most one of them all below a template or an orphan; every flaw; with and without `full` | | three invariants and their type |
| | *CodeGeneration*: two archives, four filters, both modes, two runs | | two invariants |
| | *ValueMap*: seven keys of six variants, two values, three puts, every missing part | | five invariants and their type |
| `unresolved_payload` | as `local` | | violation: a payload is dropped |
| `dar_assembly` | three packages and an id nobody holds, every graph of type references over them, hint or none, filter or not, one package twice, one that does not decode or convert | 16,896 | one invariant and their type, refinement of `DarSelection`, termination |
| `unfollowed_reference` | one reference of the kind that is not visited | | violation: a needed package is dropped |
| `ledger_packages` | three packages, two modules, every change between the steps | 83,152 | two invariants and their type, termination |
| `command_submission` | two callers, two attempts each, two parties, results there or not | 237,204 | three invariants and their type, every call returns |
| `missing_result` | same | | violation: a well-formed answer cannot be read |
| `unwalked_reference` | as `local` | | violation: a type synonym refers to nothing |
| `update_stream` | two contracts of two templates, two synchronizers, three updates, one reassignment each, one break, pages of one; two formats, four flaws, one of them in what is not asked for | 193,809 | three invariants, refinement of `LedgerView`, catching up |
| `command_completions` | a command with two attempts and a reassignment with one, two acting parties and one, one foreign completion, one break, pruning, three flaws | 382,094 | two invariants, every command is decided |
| `unmatched_parent` | as `local` | | violation: a module that nothing matches is rendered |
| `timestamps` | three instants, two of them within a second | | violation: a sent timestamp is read back as another |

Why these bounds are enough to be of use: the clash of modules needs a module, a
module at the path of its payload, and a third below to see that children are
kept; a walk needs a cycle, a diamond and a self-reference, all of which three
nodes have; losing or confusing answers needs two fetches and something else that
changes; deduplication and confusion of attempts need two callers and two
attempts; stale files need two runs; an order that is not transitive needs three
keys, and replacing under an equal key needs two that are equal and written
differently (15 with scale 1, 150 with scale 2); a rule of the conversion or of a walk
is one slot, and a rule that treats a slot differently below another needs two levels;
a reassignment whose halves come in either order, or straddle the snapshot, needs a
contract, two synchronizers and three updates, and a resumption that is wrong needs
one break; a miscounted rejection needs two attempts.  The theorems have no bounds.

Deadlock is checked off where the system stops: a conversion or a call returns,
the callers have made their attempts, the generator has been run often enough.
`MaxAttempts`, `MaxRuns`, `MaxPuts`, `MaxNested` and `MaxExprs` (`ArchiveReading`),
`MaxUpdates`, `MaxCounter`, `Origin` and `PageSize` (`UpdateStream`), `MaxForeign`, and
`MaxBreaks` are the only bounds; `FlawsSent` says which flaws a participant may send in a
run, one of them per ledger.

### Fairness

* `DarAssembly`: weak fairness of `Next` - it is a synchronous function.
* `LedgerPackages`, `CommandSubmission`: weak fairness of the client's timeouts
  only, per request (`DamlGrpcClientBuilder::uri` sets 5 seconds and
  `make_channel` always installs it), and of the steps that the caller's `await`
  drives.  The participant and the network owe nothing.
* `UpdateStream`: weak fairness of `Reading`, the steps of an application that goes on
  polling what it reads from and of a participant that goes on sending on it.  The
  ledger need not grow, streams may break as often as the bound says.
* `CommandCompletions`: weak fairness of `Reading`, as above, and of `Process`: a request
  that has arrived is completed.  Nothing makes the application submit again.
* `ModuleTree`, `ValueMap`, `ArchiveReading`, `CodeGeneration`: none, they have safety properties only.

## 4. Proofs

The eight `...Proofs` modules prove their components' type invariants and, with the one
exception at the end of this section (`ValuesAreLawful`), every safety property of the
passing runs, for all values of the constants that satisfy the ASSUMEs of the modules;
`PROJECT.json` ("theorems") lists them.  `ConversionProofs` has those about `ModuleTree`
and those about `ArchiveReading`, the others are about one component each.

* **ModuleTree.**  `TypeOK`, `TreeShaped`, `DataIsLastDeclared` and
  `SyntheticHoldsPayloadOnly` are inductive together with `Inserted` (everything
  in the tree comes from a module inserted so far).  The work is in
  `InsertData`: that replacing the content of a node and then putting the
  payloads is, entry by entry, the same as superseding.  `ReferencesCorrect`
  follows from `DataIsLastDeclared` alone: nothing supersedes an entry of a
  package without clashes.
* **ArchiveReading.**  For types, expressions and updates nested in each other to any
  depth; the run has two levels.  None of the three properties is inductive: they speak of
  the path that was written and of how the reading ends, and in between there is only an
  element, a place in it and a flag.  The invariant (`ARInv`) says what these are.  The path
  is one that a compiler can write (`PathIsWritten`): each slot belongs to a message that
  the slot above can hold, below a kind there are only kinds, below a type, through any
  number of table entries, there is a type, and expressions begin at a slot of a
  definition.  The element is what the slots of the path have become
  (`ElementIsConverted`): there are places of the path, in its order, such that each slot
  of the element is what a rule of `LfConversion` makes of the slot at its place; every
  other slot so far only refers to a table; and what is not kept begins at the first slot
  that is let go, or is not read.

  The lemmas about the tables carry it.  Each slot of the format has a rule or is one of
  the few that are not read (`SlotFacts`); what a rule leads to is a slot that `accept`
  passes on to, or one of those let go, and `validate` passes on to exactly those of them
  that `Walked` has (`RuleFacts`).  These are statements about fixed tables, proved
  table by table, and a rule that is forgotten in one of them has no proof.
  `RefusalCorrect` and `VisitCorrect` then follow the path slot by slot.  For
  `ValidationCorrect`, `validate` looks at elements and the property at the path, so the
  place of a view or of the argument of a choice has to be found in both: down to it no
  slot refers to a table (`SureSlots`), so both have it at the same depth, and the type
  below it is a record in the one exactly if it is in the other (`TypeResolves`).
* **DarAssembly.**  The walk's invariant (`WalkIsSound`, `WalkIsComplete`) says
  that visited and queued packages are reachable, and that what visited ones refer
  to is visited or queued; with an empty queue `visited` is closed and therefore
  holds all that is reachable (`WalkDone`).  `PromiseKept` is the refinement: the
  step that delivers maps to `Deliver`, a failing one to `Refuse` with its reason,
  all others stutter.
* **LedgerPackages.**  The invariant adds that an `ok` in `completed` belongs to a
  package that was served and is well formed, and that `packages` mirrors
  `completed`.
* **CommandSubmission.**  `NamedOnce` needs that ids distinguish callers and
  attempts (`NameAssumption`: no supplied id is a UUID).  `ResultsAreTrue` needs
  four more parts: a request in flight belongs to a call whose effect is still
  open, an answer in flight is true of the ledger, answers show the root event
  first, and a change id has one entry.
* **CommandCompletions.**  `VerdictsAreTrue` is about the participant's state, which the
  application cannot see, so the invariant ties the two by the log: of each command
  there are no more completions and requests under way than attempts
  (`AttemptsBound`); its effects are told by its completions (`EffectsAreLogged`); the
  stream is ahead of `offset`, and what lies between is none of the application's
  (`StreamIsAhead`); the rejections counted are at most those up to `offset`
  (`RejectionsBound`), also when there is a gap.  As many rejections as attempts then
  leave no request under way, and no completion that is not a rejection.
* **UpdateStream.**  The invariant says that the state kept with each update is `After`
  of the one before (`LedgerIsBuilt`); that what is shown of a snapshot is what the last
  token covers (`SnapshotIsPartial`); and that a stream of updates is ahead of the offset
  by nothing the application would see (`FollowingIsExact`).  Its core is
  `UpdateIsFollowed`: for every event, in either order of the halves of a reassignment,
  `Follow` of the message does to what is shown what `After` does to the state, and an
  update that is not delivered changes nothing that was asked for.  It rests on
  `FormatIsRead` - the participant reads a converted format as the application means it,
  for formats built of the three filters (`FormatAssumption`) - and on `MessageTells`, the
  conversion of the answer.  `ImplementsLedgerView` is the refinement: a commit maps to
  `Grow`, the end of a snapshot and whatever moves the offset to `Show`, a restart or an
  error to `Lose`; `NeverBack` says that the offset does not go back.

  `EntriesSentOnce` needs to know where the entries of a state come from: each was made by
  one update (`StateIsMade`), and no two updates that make an entry agree in event,
  contract and reassignment counter (`UpdatesAreUnique`), since a contract is
  created once and every reassignment of it has a counter of its own.  Entries that a token leaves are
  therefore other entries than those it covers, also after they are stripped to what the
  application sees.  `StopsOnlyForForbidden` has two halves.  The tables of
  `LedgerResponses` are compared row by row (`AsksRequired`): a conversion insists on
  nothing that the protocol does not require, the status of a completion excepted, which
  no answer of these services holds.  And an error of a conversion is one of an answer
  made of updates of the ledger (`SessionIsInLedger` for the pages), so the flaw is in the
  ledger (`Cause`), where it stays.
* **ValueMap.**  For every order and every conversion with four properties, which
  are hypotheses of the theorems and stated in `ValueMap`: the order is total
  (`TotalOrder`) and agrees with equality (`Equality`); a conversion reads back a value
  from each message that was made of one and fails on each spoiled one (`Conversions`);
  and the value is an equal one if a message can hold it (`Exactness`).  That `DamlValue`
  meets them is what TLC checks (`ValuesAreLawful`): on the values that the maps of the
  run hold, everything these are read back as, and all messages for them, whole or
  spoiled.  A search ends at exactly the first entry that is not less
  (`SearchEnds`, by a least element), so `InsertSorts` and `CollectSorts` keep a map
  sorted.  `AllOrNothing` needs that the entries still on the wire hold a spoiled one
  exactly if the answer is not whole.  `LastPutCorrect` is the abstraction of a map to a
  function of keys up to equality: `Mirrored` says that a key is in the map exactly if
  something was put under an equal one, and then with what was put last; and that an
  answer that lacks nothing consists, before and after the place up to which it is read,
  of the entries of the map that was sent, in their places.  Reading a sorted map in the
  order of its entries only ever appends, so `RoundTripCorrect` is the latter at the end
  of the answer.
* **CodeGeneration.**  A run into one file per module writes depth first, each file
  before those of the modules that it declares.  The invariant (`SeparateInv`): a
  module that is needed and whose file is not that of this run is on the list or below a
  module on the list; nothing else is ever on it.  With an empty list every needed file
  is of this run, and what rustc finds by following declarations from the packages is
  exactly what is needed (`NeededIsDeclared`, `DeclaredIsNeeded`, by the shortest path
  that differs), so no file of an earlier run, finished or not, is reached
  (`CrateCorrect`).  The list is a sequence of the packages of an archive in some order,
  for which an archive has to be finite.  `CombinedCorrect` is about `Included`, which
  hands a value down the tree: the function that asks the nearest module that is not
  synthetic satisfies the same equation (`NearestIsAsked`), and two functions that
  do are equal, since a shortest path on which they differ would have a parent on which
  they differ (`IncludedAsksNearest`).

Checked by TLC only:

* liveness (`Returns`, `CatchesUp`, `Decided`), which the prover does not handle;
* `ValuesAreLawful`, the hypotheses of the theorems about `ValueMap`: the order and the
  conversions of `DamlValues` are RECURSIVE operators, about which the prover has
  nothing to say, and that they are lawful on all values would be an induction over
  data.

## 5. Findings

Six runs show a statement of the repository's docs violated by what the code does
(`PROJECT.json`, "findings"):

* `timestamps`: a timestamp is sent in seconds and read in microseconds;
* `unresolved_payload`: the payload of a variant is dropped by a later module;
* `unfollowed_reference`: a package referred to by values or `implements` is dropped;
* `missing_result`: `execute_exercise` fails, or returns the result of a consequence, on
  a well-formed answer;
* `unmatched_parent`: one file per module renders data of modules that nothing matches;
* `unwalked_reference`: `DamlArchive::validate` documents a walk over "every `TyCon`
  reference" and does not look at synonyms, values, `implements`, the name of a type
  synonym, or what is not kept: the arguments of `Arrow` and `Update`.

Noticed on the way, not backed by a run of its own:

* the doc of `expr_payload.rs` (lines 10-21) lists as known gaps that `InternedExpr`
  surfaces as `InternalError` and that `FailWithStatus`, `Keccak256Text`, the hex codecs
  and `TypeRepTyconName` surface as `UnknownBuiltinFunction`; lines 267-275 and 647-655
  convert them all.  `RefusedExactlyForFlaws` has what the code does: nothing but an
  index outside of its table, or a number that is no builtin, is refused;
* the conversion of a completion insists on `status` (`completion.rs`, `status.req()?`)
  and of an unset one its comment says "treat absence as a wire-protocol violation";
  `completion.proto` has it as optional;
* `has_parties` accepts a command with parties that read only, and the command then has
  an empty `act_as`;
* in the separate output mode a synthetic module is matched by its own path, so the
  payload of a selected module can be left out (`CrateIsThisRun` says what is rendered);
  the comment on `quote_module_tree_inner` has it otherwise, and so does the combined
  mode (`CombinedIsSelected`);
* `LookupByKey` and `FetchByKey` are converted with a placeholder for the key; nothing
  of the key is there for a visitor;
* `synchronizer_time` of a completion is required by the protocol and optional in the
  code;
* `DamlLfArchive::from_bytes_named` computes `i - 1` from the position of the hash
  in the name, which is 0 when the name starts with it;
* the comment on the manifest's format and `render`/`parse` differ in details of
  continuation lines.

## 6. Plan

1. *(done)* `ModuleTree`, `DarSelection`/`DarAssembly`, `LedgerPackages`,
   `CommandSubmission`, `CodeGeneration`, and of the values `SortedMap`,
   `DamlValues`, `ValueMap`.
2. *(done)* `LfWire`, `LfConversion`, `LfElements`, `ArchiveReading`: the conversion,
   `accept` and `validate`; `EventFormats`, `LedgerResponses`, `LedgerView`,
   `UpdateStream`: snapshot and updates; `CommandCompletions`, with its proofs.
3. *(done)* Proofs about `UpdateStream`, `ValueMap`, `CodeGeneration` and
   `ArchiveReading`: every safety property of their runs but `ValuesAreLawful`.
4. Typed values: `serialize.rs` and `primitive_types.rs` (ranges of dates and
   timestamps, scales of numerics), fields taken from records, the paths of
   `daml-macro`.
5. `ArchiveReading` for two places of a package at once: which of two errors is the one
   that is returned.

### Not modelled

Token templates of `daml-codegen` and `daml-derive`, the value macros, tokens and TLS, the
facade crate, the examples: no state, or pure translation.  The administration services
and the point lookups: one request and a field-by-field conversion each.  Files (zip,
manifest, names): text.  Typed serialization, and what `renderable.rs` finds to be
renderable.
