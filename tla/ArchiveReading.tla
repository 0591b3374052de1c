--------------------------- MODULE ArchiveReading ---------------------------
(***************************************************************************)
(* Reading a Daml-LF archive: the conversion of what a compiler has        *)
(* written (convert.rs and convert/), and then either a walk over the      *)
(* elements with a visitor or their validation.                            *)
(*                                                                         *)
(* All of these go through a tree and treat each place of it by itself, so *)
(* the model follows one path from the package down to one place: there    *)
(* a name, or something missing or wrong.  Beside the path all is well.    *)
(*                                                                         *)
(* The specification has the prefix AR, since ConversionProofs extends it  *)
(* together with ModuleTree.                                               *)
(***************************************************************************)
EXTENDS LfConversion, LfElements, Sequences, SequencesExt, FiniteSets

CONSTANTS
  MaxNested(_),   \* how many types, kinds and expressions the path has below a slot of a module
  MaxExprs(_)     \* how many of them are expressions

ASSUME BoundsAssumption == \A e \in Schema : MaxNested(e[2]) \in Nat /\ MaxExprs(e[2]) \in Nat

VARIABLES
  full,      \* whether the crate is compiled with the feature `full'
  path,      \* the slots from the package to where the compiler has got
  leaf,      \* what is at the end of the path
  phase,
  at,        \* the slot that is next to be converted, or to be visited
  element,   \* the slots of the elements that the conversion has built
  kept,      \* whether what comes next becomes part of an element
  seen,      \* the name that the visitor was shown
  target,    \* what the archive has where the name at the end of the path leads to
  error      \* what validate has returned

arVars == <<full, path, leaf, phase, at, element, kept, seen, target, error>>

Growing == [kind |-> "none", flaw |-> "none"]
Whole(k) == [kind |-> k, flaw |-> "none"]
Absent == [kind |-> "none", flaw |-> "absent"]
Wrong(k, f) == [kind |-> k, flaw |-> f]

Counted == {"Type", "Kind", "Expr", "Update"}
SortAt(p) == IF p = <<>> THEN "Package" ELSE p[Len(p)][3]
Places(p, sorts) == Cardinality({i \in DOMAIN p : p[i][3] \in sorts})

(***************************************************************************)
(* The compiler (external) takes the path one message further, or ends it. *)
(***************************************************************************)
WithinBounds(p) ==
  Len(p) >= 2 => /\ Places(p, Counted \ {"Update"}) <= MaxNested(p[2][2])
                 /\ Places(p, {"Expr"}) <= MaxExprs(p[2][2])

ARInit ==
  /\ full \in BOOLEAN
  /\ path = <<>> /\ leaf = Growing /\ phase = "compile"
  /\ at = 1 /\ element = <<>> /\ kept = TRUE /\ seen = "none" /\ target = "none" /\ error = "none"

Descend ==
  /\ phase = "compile"
  /\ \E k \in KindsOf(SortAt(path)) : \E e \in SlotsOf(k) : path' = Append(path, e)
  /\ WithinBounds(path')
  /\ UNCHANGED <<full, leaf, phase, at, element, kept, seen, target, error>>

EndPath ==
  /\ phase = "compile"
  /\ \/ \E k \in KindsOf(SortAt(path)) : SlotsOf(k) = {} /\ k \notin AlwaysFlawed /\ leaf' = Whole(k)
     \/ \E k \in KindsOf(SortAt(path)) : \E f \in Flaws(k) : leaf' = Wrong(k, f)
     \/ path # <<>> /\ Last(path)[4] \in {"one", "opt"} /\ leaf' = Absent
  /\ phase' = "payload"
  /\ UNCHANGED <<full, path, at, element, kept, seen, target, error>>

(***************************************************************************)
(* DarFile::apply: every package is taken up first, with its metadata and  *)
(* its list of modules, and build_archive then converts them.  What one    *)
(* function cannot convert, every caller passes on with `?'.               *)
(***************************************************************************)
NoMetadata == path # <<>> /\ path[1][2] = "metadata" /\ leaf.flaw # "none"
NoFlags == leaf = Wrong("Module", "unset")

TakeUp ==
  /\ phase = "payload"
  /\ phase' = (IF NoMetadata \/ NoFlags THEN "refused" ELSE "convert")
  /\ UNCHANGED <<full, path, leaf, at, element, kept, seen, target, error>>

IsRead(e) == /\ \E r \in Conversion : <<r[1], r[2]>> = <<e[1], e[2]>>
             /\ <<e[1], e[2]>> \in OnlyInFull => full

ConvertSlot ==
  /\ phase = "convert" /\ at <= Len(path) /\ IsRead(path[at])
  /\ \E r \in Conversion :
       /\ <<r[1], r[2]>> = <<path[at][1], path[at][2]>>
       /\ kept' = (kept /\ r[3] # "none")
       /\ element' = IF kept' /\ r[3] # "same" THEN Append(element, <<r[3], r[4]>>) ELSE element
  /\ at' = at + 1
  /\ UNCHANGED <<full, path, leaf, phase, seen, target, error>>

\* The rest of the path is beside everything the conversion looks at.
SkipSlot ==
  /\ phase = "convert" /\ at <= Len(path) /\ ~IsRead(path[at])
  /\ phase' = "built" /\ kept' = FALSE
  /\ UNCHANGED <<full, path, leaf, at, element, seen, target, error>>

Refused == /\ leaf.flaw # "none"
           /\ ~(leaf.flaw = "absent" /\ <<path[Len(path)][1], path[Len(path)][2]>> \in MayBeUnset)

ConvertEnd ==
  /\ phase = "convert" /\ at = Len(path) + 1
  /\ phase' = (IF Refused THEN "refused" ELSE "built")
  /\ UNCHANGED <<full, path, leaf, at, element, kept, seen, target, error>>

(***************************************************************************)
(* DamlArchive::accept.                                                    *)
(***************************************************************************)
StartVisit ==
  /\ phase = "built"
  /\ phase' = "visit" /\ at' = 1
  /\ UNCHANGED <<full, path, leaf, element, kept, seen, target, error>>

VisitSlot ==
  /\ phase = "visit" /\ at <= Len(element) /\ element[at] \in Accept
  /\ at' = at + 1
  /\ UNCHANGED <<full, path, leaf, phase, element, kept, seen, target, error>>

NameKept == kept /\ leaf.kind \in Names

VisitEnd ==
  /\ phase = "visit"
  /\ ~(at <= Len(element) /\ element[at] \in Accept)
  /\ seen' = IF at > Len(element) /\ NameKept
                THEN IF leaf.kind \in AcceptTyConName THEN "absolute_tycon"
                     ELSE IF leaf.kind \in AcceptValueName THEN "local_value_name" ELSE "none"
                ELSE "none"
  /\ phase' = "visited"
  /\ UNCHANGED <<full, path, leaf, at, element, kept, target, error>>

(***************************************************************************)
(* DamlArchive::validate: every type name it comes to has to lead to a     *)
(* data type or to an interface, the argument of a choice and the view of  *)
(* an interface have to lead to a record.                                  *)
(***************************************************************************)
Targets == {"record", "other_data", "interface", "no_data", "no_module", "no_package"}

ValidateTyConName(t) ==
  IF t = "no_package" THEN "UnknownPackage"
  ELSE IF t = "no_module" THEN "UnknownModule" ELSE IF t = "no_data" THEN "UnknownData" ELSE "none"

\* The type in slot i of the element; what is beside the path is a record.
ResolvesToRecord(i, t) ==
  i < Len(element) /\ element[i + 1][1] = "TyCon" /\ (element[i + 1][2] = "tycon" => t = "record")

IsArgument(i) == i > 1 /\ element[i] = <<"Field", "ty">> /\ element[i - 1] = <<"Choice", "fields">>
IsView(i) == element[i] = <<"Interface", "view">>

ValidateElement(t) ==
  LET walked == {n \in 0 .. Len(element) : \A i \in 1 .. n : element[i] \in Validate}
      bad == {i \in walked \ {0} : (IsArgument(i) \/ IsView(i)) /\ ~ResolvesToRecord(i, t)}
  IN  IF \E i \in bad : IsView(i) THEN "UnexpectedType"
      ELSE IF bad # {} THEN "UnexpectedChoiceData"
      ELSE IF Len(element) \in walked /\ NameKept THEN ValidateTyConName(t) ELSE "none"

\* Only a name leads anywhere.
TargetsOf(k) == IF k \in Names THEN Targets ELSE {"record"}

RunValidate ==
  /\ phase = "built"
  /\ \E t \in TargetsOf(leaf.kind) : target' = t /\ error' = ValidateElement(t)
  /\ phase' = "validated"
  /\ UNCHANGED <<full, path, leaf, at, element, kept, seen>>

ARNext ==
  \/ Descend \/ EndPath \/ TakeUp \/ ConvertSlot \/ SkipSlot \/ ConvertEnd
  \/ StartVisit \/ VisitSlot \/ VisitEnd \/ RunValidate

ARSpec == ARInit /\ [][ARNext]_arVars

(***************************************************************************)
(* Properties, all of them in terms of what the compiler has written.      *)
(***************************************************************************)
On(i, k, s) == path[i][1] = k /\ path[i][2] = s
Takes(k, s) == \E i \in DOMAIN path : On(i, k, s)

ARTypeOK ==
  /\ full \in BOOLEAN /\ kept \in BOOLEAN
  /\ path \in Seq(Schema) /\ at \in 1 .. Len(path) + 1
  /\ phase \in {"compile", "payload", "convert", "refused", "built", "visit", "visited", "validated"}
  /\ \A i \in DOMAIN element : element[i] \in ElementSlots \union {<<"Template", "implements">>}
  /\ seen \in {"none", "absolute_tycon", "local_value_name"}
  /\ target \in Targets \union {"none"}

\* Places that the conversion does not look at: the bodies of the interface instances of a template, a
\* template for which there is no record, and expressions unless the crate is compiled with `full'.
Unread ==
  \/ Takes("Module", "orphans") \/ Takes("Implements", "body")
  \/ ~full /\ (Takes("Module", "values") \/ Places(path, {"Expr"}) > 0)

\* Types that are read and not kept: those of the arguments and the result of a function or an update.
LetGo == Takes("ARROW", "args") \/ Takes("UPDATE", "args")

SomethingWrong == leaf.flaw # "none" /\ ~(leaf.flaw = "absent" /\ Last(path)[4] = "opt")

(***************************************************************************)
(* An archive is refused for whatever is wrong in it, wherever it is, and  *)
(* for nothing else: an unset message, an index outside of its table, a    *)
(* feature of another version of the format.  What no function reads is    *)
(* the exception (convert.rs, convert/).  The doc of expr_payload.rs still *)
(* lists interned expressions and some builtins as refused; the functions  *)
(* below it convert them.                                                  *)
(***************************************************************************)
RefusedExactlyForFlaws ==
  /\ phase = "refused" => SomethingWrong /\ ~Unread
  /\ phase \in {"built", "visit", "visited", "validated"} /\ SomethingWrong => Unread

(***************************************************************************)
(* A visitor is shown each name that was written, type names as type names *)
(* and value names as value names, but for what is not kept and for the    *)
(* interfaces of a template (every accept of element/).                    *)
(***************************************************************************)
SeenIsWritten ==
  phase = "visited" =>
    seen = IF Unread \/ LetGo \/ Takes("Template", "implements") THEN "none"
           ELSE IF leaf.kind = "ValueId" THEN "local_value_name"
           ELSE IF leaf.kind \in Names THEN "absolute_tycon" ELSE "none"

(***************************************************************************)
(* What validate says of what it walks is so: an archive that it passes    *)
(* has no type name that leads nowhere in a field, a choice, a key, a      *)
(* method or a requirement, and no choice or view that is not a record;    *)
(* one that it does not pass has what the error names (daml_archive.rs).   *)
(* Its doc claims more, that it `walks every TyCon reference': type        *)
(* synonyms, values and expressions, the interfaces of a template and the  *)
(* kinds are passed over, see EveryReferenceResolves.                      *)
(***************************************************************************)
Leads == target \in {"record", "other_data", "interface"}

\* What the walk comes to: no synonym, exception, value, expression, implemented interface or kind.
Walked ==
  /\ \E s \in {"data_types", "templates", "interfaces"} : Takes("Module", s)
  /\ Places(path, {"Expr"}) = 0
  /\ ~(Unread \/ LetGo \/ Takes("Template", "implements") \/ Takes("Syn", "tysyn"))

\* The slots below a type after those that only refer to a table of types.
Below(i) == {j \in i + 1 .. Len(path) : \A n \in i + 1 .. j - 1 : path[n][1] = "InternedType"}

\* The type in slot i is written as something that is no record.
NoRecord(i) ==
  \/ \A j \in Below(i) : path[j][1] # "Con"
  \/ target # "record" /\ \E j \in Below(i) : On(j, "Con", "tycon")

WrongView == \E i \in DOMAIN path : On(i, "DefInterface", "view") /\ NoRecord(i)
WrongArgument == \E i \in DOMAIN path : On(i, "ArgBinder", "type") /\ NoRecord(i)

MissingError ==
  [no_package |-> "UnknownPackage", no_module |-> "UnknownModule", no_data |-> "UnknownData"]

ValidateIsTruthful ==
  phase = "validated" =>
    error = IF Takes("Module", "orphans") THEN "none"
            ELSE IF WrongView THEN "UnexpectedType"
            ELSE IF WrongArgument THEN "UnexpectedChoiceData"
            ELSE IF Walked /\ leaf.kind \in Names /\ ~Leads THEN MissingError[target] ELSE "none"

(***************************************************************************)
(* The doc of validate: "Walks every `TyCon` reference" and "Returns       *)
(* `Ok(())` if every reference resolves", of the references that are part  *)
(* of a type of the archive.                                               *)
(***************************************************************************)
EveryReferenceResolves ==
  phase = "validated" /\ error = "none" =>
    (kept /\ leaf.kind = "TypeConId" /\ element # <<>> /\ Last(element) = <<"TyCon", "tycon">> => Leads)

=============================================================================
