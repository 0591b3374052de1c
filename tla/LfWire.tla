------------------------------- MODULE LfWire -------------------------------
(***************************************************************************)
(* What a Daml-LF2 compiler can put into a package (external: the messages *)
(* of daml_lf2.proto).  A message is a kind, its fields are slots, and a   *)
(* slot holds a sort: one of several kinds for a oneof, otherwise the kind *)
(* of that name.  Numbers, strings and locations are left out; what can be *)
(* wrong with them is Flaws.                                               *)
(***************************************************************************)
EXTENDS Naturals

One(k, s, t) == <<k, s, t, "one">>     \* a message that has to be there
Opt(k, s, t) == <<k, s, t, "opt">>     \* one that may be left out
Many(k, s, t) == <<k, s, t, "many">>   \* a repeated field
Is(k, s, t) == <<k, s, t, "is">>       \* what an alternative of a oneof consists of

(***************************************************************************)
(* The definitions of a package.  A Template is a record data type together *)
(* with the DefTemplate of its name; `orphans' are DefTemplates for which  *)
(* the module has no record.                                               *)
(***************************************************************************)
Definitions == {
  One("Package", "metadata", "Metadata"), Many("Package", "modules", "Module"),
  Many("Module", "synonyms", "DefTypeSyn"), Many("Module", "data_types", "DefDataType"),
  Many("Module", "templates", "Template"), Many("Module", "orphans", "Template"),
  Many("Module", "values", "DefValue"), Many("Module", "exceptions", "DefException"),
  Many("Module", "interfaces", "DefInterface"),
  Many("DefTypeSyn", "params", "TypeVarWithKind"), One("DefTypeSyn", "type", "Type"),
  Many("Record", "params", "TypeVarWithKind"), Many("Record", "fields", "FieldWithType"),
  Many("Variant", "params", "TypeVarWithKind"), Many("Variant", "fields", "FieldWithType"),
  Many("Enum", "params", "TypeVarWithKind"), Many("InterfaceMarker", "params", "TypeVarWithKind"),
  One("DefValue", "type", "Type"), One("DefValue", "expr", "Expr"),
  One("DefException", "message", "Expr"),
  Many("Template", "params", "TypeVarWithKind"), Many("Template", "fields", "FieldWithType"),
  Many("Template", "choices", "TemplateChoice"), Opt("Template", "key", "DefKey"),
  Opt("Template", "precond", "Expr"), One("Template", "signatories", "Expr"),
  One("Template", "observers", "Expr"), Many("Template", "implements", "Implements"),
  One("DefKey", "type", "Type"), One("DefKey", "maintainers", "Expr"),
  One("DefKey", "key_expr", "Expr"),
  One("Implements", "interface", "TypeConId"), One("Implements", "body", "InstanceBody"),
  Many("InstanceBody", "methods", "Expr"), One("InstanceBody", "view", "Expr"),
  One("TemplateChoice", "arg_binder", "ArgBinder"), One("TemplateChoice", "ret_type", "Type"),
  One("TemplateChoice", "update", "Expr"), One("TemplateChoice", "controllers", "Expr"),
  One("TemplateChoice", "observers", "Expr"),
  Many("DefInterface", "methods", "InterfaceMethod"), Many("DefInterface", "choices", "TemplateChoice"),
  One("DefInterface", "view", "Type"), Many("DefInterface", "requires", "TypeConId"),
  One("InterfaceMethod", "type", "Type"),
  One("FieldWithType", "type", "Type"), One("ArgBinder", "type", "Type"),
  One("TypeVarWithKind", "kind", "Kind") }

(***************************************************************************)
(* Types and kinds.  A builtin type is named by its code; SCALAR stands    *)
(* for all that take no arguments.  An entry of the tables of interned     *)
(* types, kinds or expressions is a slot of the place that refers to it:   *)
(* the compiler writes tables whose entries refer to earlier ones only.    *)
(***************************************************************************)
WithArguments ==
  {"NUMERIC", "OPTIONAL", "LIST", "GENMAP", "TEXTMAP", "CONTRACT_ID", "ARROW", "UPDATE"}

Types ==
  { Many("Var", "args", "Type"),
    One("Con", "tycon", "TypeConId"), Many("Con", "args", "Type"),
    One("Syn", "tysyn", "TypeSynId"), Many("Syn", "args", "Type"),
    Many("Forall", "vars", "TypeVarWithKind"), One("Forall", "body", "Type"),
    Many("Struct", "fields", "FieldWithType"), Is("InternedType", "entry", "Type"),
    Many("KindArrow", "params", "Kind"), One("KindArrow", "result", "Kind"),
    Is("InternedKind", "entry", "Kind") }
  \union {Many(b, "args", "Type") : b \in WithArguments}

(***************************************************************************)
(* Expressions, updates and the operations on interfaces.                  *)
(***************************************************************************)
OfType == {"Nil", "OptionalNone", "TypeRep"}
TypedExpr == {"ToAny", "FromAny", "ToAnyException", "FromAnyException"}
OfInterface == {"ViewInterface", "SignatoryInterface", "ObserverInterface", "InterfaceTemplateTypeRep"}

Expressions ==
  { One("Val", "name", "ValueId"),
    One("RecCon", "tycon", "Con"), Many("RecCon", "fields", "FieldWithExpr"),
    One("FieldWithExpr", "expr", "Expr"),
    One("RecProj", "tycon", "Con"), One("RecProj", "record", "Expr"),
    One("RecUpd", "tycon", "Con"), One("RecUpd", "record", "Expr"), One("RecUpd", "update", "Expr"),
    One("VariantCon", "tycon", "Con"), One("VariantCon", "variant_arg", "Expr"),
    One("EnumCon", "tycon", "TypeConId"),
    Many("StructCon", "fields", "FieldWithExpr"), One("StructProj", "struct", "Expr"),
    One("StructUpd", "struct", "Expr"), One("StructUpd", "update", "Expr"),
    One("App", "fun", "Expr"), Many("App", "args", "Expr"),
    One("TyApp", "expr", "Expr"), Many("TyApp", "types", "Type"),
    Many("Abs", "param", "VarWithType"), One("Abs", "body", "Expr"),
    Many("TyAbs", "param", "TypeVarWithKind"), One("TyAbs", "body", "Expr"),
    One("Case", "scrut", "Expr"), Many("Case", "alts", "CaseAlt"),
    One("CaseAlt", "body", "Expr"), Is("CaseAlt", "sum", "CaseAltSum"),
    One("AltVariant", "con", "TypeConId"), One("AltEnum", "con", "TypeConId"),
    Is("Let", "block", "Block"), Many("Block", "bindings", "Binding"), One("Block", "body", "Expr"),
    One("VarWithType", "type", "Type"), One("Binding", "binder", "VarWithType"), One("Binding", "bound", "Expr"),
    One("Cons", "type", "Type"), Many("Cons", "front", "Expr"), One("Cons", "tail", "Expr"),
    One("OptionalSome", "type", "Type"), One("OptionalSome", "value", "Expr"),
    One("Throw", "return_type", "Type"), One("Throw", "exception_type", "Type"),
    One("Throw", "exception_expr", "Expr"), Is("UpdateExpr", "update", "Update"),
    Is("InternedExpr", "entry", "Expr") }
  \union {Is("TypeRep", "type", "Type")}
  \union {One(k, "type", "Type") : k \in (OfType \ {"TypeRep"}) \union TypedExpr}
  \union {One(k, "expr", "Expr") : k \in TypedExpr}

InterfaceOps ==
  { One("ToInterface", "template_expr", "Expr"), One("FromInterface", "interface_expr", "Expr"),
    One("CallInterface", "interface_type", "TypeConId"), One("CallInterface", "interface_expr", "Expr"),
    One("UnsafeFromInterface", "contract_id_expr", "Expr"),
    One("UnsafeFromInterface", "interface_expr", "Expr"),
    One("ToRequiredInterface", "expr", "Expr"), One("FromRequiredInterface", "expr", "Expr"),
    One("UnsafeFromRequiredInterface", "contract_id_expr", "Expr"),
    One("UnsafeFromRequiredInterface", "interface_expr", "Expr") }
  \union {One(k, "interface", "TypeConId") : k \in OfInterface}
  \union {One(k, "expr", "Expr") : k \in OfInterface}
  \union (UNION {{One(k, "interface_type", "TypeConId"), One(k, "template_type", "TypeConId")} :
                 k \in {"ToInterface", "FromInterface", "UnsafeFromInterface"}})
  \union (UNION {{One(k, "required_interface", "TypeConId"), One(k, "requiring_interface", "TypeConId")} :
                 k \in {"ToRequiredInterface", "FromRequiredInterface", "UnsafeFromRequiredInterface"}})
  \union UNION {{One(k, "template", "TypeConId"), One(k, "contract_expr", "Expr"),
                 One(k, "choice_arg_expr", "Expr")} : k \in {"ChoiceController", "ChoiceObserver"}}

Updates ==
  { One("Pure", "type", "Type"), One("Pure", "expr", "Expr"), Is("UpdateBlock", "block", "Block"),
    One("Create", "template", "TypeConId"), One("Create", "expr", "Expr"),
    One("CreateInterface", "interface", "TypeConId"), One("CreateInterface", "expr", "Expr"),
    One("Exercise", "template", "TypeConId"), One("Exercise", "cid", "Expr"), One("Exercise", "arg", "Expr"),
    One("ExerciseInterface", "interface", "TypeConId"), One("ExerciseInterface", "cid", "Expr"),
    One("ExerciseInterface", "arg", "Expr"), Opt("ExerciseInterface", "guard", "Expr"),
    One("ExerciseByKey", "template", "TypeConId"), One("ExerciseByKey", "key", "Expr"),
    One("ExerciseByKey", "arg", "Expr"),
    One("Fetch", "template", "TypeConId"), One("Fetch", "cid", "Expr"),
    One("FetchInterface", "interface", "TypeConId"), One("FetchInterface", "cid", "Expr"),
    One("LookupByKey", "template", "TypeConId"), One("FetchByKey", "template", "TypeConId"),
    One("QueryNByKey", "template", "TypeConId"),
    One("EmbedExpr", "type", "Type"), One("EmbedExpr", "body", "Expr"),
    One("TryCatch", "return_type", "Type"), One("TryCatch", "try_expr", "Expr"),
    One("TryCatch", "catch_expr", "Expr"), Is("LedgerTimeLt", "expr", "Expr") }

Schema == Definitions \union Types \union Expressions \union InterfaceOps \union Updates

SlotsOf(k) == {e \in Schema : e[1] = k}

(***************************************************************************)
(* The kinds of a sort.  In a oneof, "Unset" is the message in which none  *)
(* of the alternatives is set.                                             *)
(***************************************************************************)
ScalarExprs == {"ExprVar", "Builtin", "BuiltinCon", "BuiltinLit", "Experimental"}
AltScalars == {"AltDefault", "AltBuiltinCon", "AltNil", "AltCons", "AltOptionalNone", "AltOptionalSome"}
PartsOfExprs == {"FieldWithExpr", "VarWithType", "CaseAlt", "AltVariant", "AltEnum", "Block", "Binding"}
ExprKinds == ScalarExprs \union ({e[1] : e \in Expressions \union InterfaceOps} \ PartsOfExprs)
TypeKinds == {"SCALAR", "Nat", "TApp"} \union ({e[1] : e \in Types} \ {"KindArrow", "InternedKind"})

Alternatives ==
  [DefDataType |-> {"Record", "Variant", "Enum", "InterfaceMarker", "Unset"},
   Type |-> TypeKinds \union {"Unset"},
   Kind |-> {"Star", "KindNat", "KindArrow", "InternedKind", "Unset"},
   Expr |-> ExprKinds \union {"Unset"},
   Update |-> {e[1] : e \in Updates} \union {"GetTime", "Unset"},
   CaseAltSum |-> AltScalars \union {"AltVariant", "AltEnum", "Unset"}]

KindsOf(sort) == IF sort \in DOMAIN Alternatives THEN Alternatives[sort] ELSE {sort}

Names == {"TypeConId", "TypeSynId", "ValueId"}

=============================================================================
