---------------------------- MODULE LfConversion ----------------------------
(***************************************************************************)
(* What the conversion reads of each message of LfWire and where it puts   *)
(* what it has read (daml-lf/src/convert.rs, daml-lf/src/convert/).  Every *)
(* rule takes a slot of a message to a slot of an element of the crate; a  *)
(* slot without a rule is not read.                                        *)
(***************************************************************************)
EXTENDS LfWire

(***************************************************************************)
(* What can be wrong with a message that is there, apart from its slots:   *)
(* an alternative that is not set or that belongs to a later version of    *)
(* the format (a package may also be named through the list of imports of  *)
(* such a version, a choice may have authorizers), a flag of LF1, a code   *)
(* that is not known, a number outside of its range, one argument too      *)
(* many, an index outside of a table.                                      *)
(***************************************************************************)
Unset == Names \union {"Unset", "Module", "BuiltinLit"}
Unsupported == Names \union {"TApp", "Experimental", "TemplateChoice"}
WithFlags == {"Module"}
Codes == {"SCALAR", "Builtin", "BuiltinCon", "BuiltinLit", "AltBuiltinCon"}
Ranged == {"Nat"}
AtMostOne == {"CONTRACT_ID"}

Indexed ==
  Names \union
  {"Metadata", "Module", "Record", "Variant", "Enum", "InterfaceMarker", "Template", "ArgBinder",
   "TemplateChoice", "DefTypeSyn", "DefValue", "DefException", "DefInterface", "InterfaceMethod",
   "FieldWithType", "VarWithType", "TypeVarWithKind", "Var", "InternedType", "InternedKind", "InternedExpr",
   "ExprVar", "BuiltinLit", "FieldWithExpr", "RecProj", "RecUpd", "VariantCon", "EnumCon", "StructProj",
   "StructUpd", "CallInterface", "ChoiceController", "ChoiceObserver", "Exercise", "ExerciseInterface",
   "ExerciseByKey", "TryCatch", "AltVariant", "AltEnum", "AltCons", "AltOptionalSome"}

Flawed ==
  [unset |-> Unset, unsupported |-> Unsupported, flags |-> WithFlags, code |-> Codes, range |-> Ranged,
   arity |-> AtMostOne, index |-> Indexed]

AlwaysFlawed == {"Unset", "TApp", "Experimental"}

Flaws(k) == {f \in DOMAIN Flawed : k \in Flawed[f]}

Rule(k, s, e, t) == <<k, s, e, t>>
Same(k, slots) == {<<k, s, k, s>> : s \in slots}

\* Read, and what is wrong with it noticed, but no part of the element.
Dropped(k, s) == <<k, s, "none", "none">>

\* Converted to whatever the entry of the table is converted to.
Through(k, s) == <<k, s, "same", "same">>

(***************************************************************************)
(* insert_module and build_data_types: a template is found from its record *)
(* and from nowhere else, and DamlTemplate has no type parameters.         *)
(***************************************************************************)
ConvertModule ==
  { Rule("Package", "modules", "Package", "modules"),
    Rule("Module", "synonyms", "Module", "synonyms"), Rule("Module", "data_types", "Module", "data_types"),
    Rule("Module", "templates", "Module", "data_types"), Rule("Module", "interfaces", "Module", "interfaces"),
    Rule("Module", "exceptions", "Module", "exceptions"), Rule("Module", "values", "Module", "values") }

ConvertSynonym ==
  {Rule("DefTypeSyn", "params", "DefTypeSyn", "params"), Rule("DefTypeSyn", "type", "DefTypeSyn", "ty")}

ConvertDataType ==
  (UNION {{Rule(d, "params", d, "type_params"), Rule(d, "fields", d, "fields")} : d \in {"Record", "Variant"}})
  \union {Rule("Enum", "params", "Enum", "type_params")}
  \union {Dropped("InterfaceMarker", "params"), Dropped("Template", "params"), Rule("Template", "fields", "Template", "fields")}

ConvertTemplate == Same("Template", {"choices", "key", "implements", "precond", "signatories", "observers"})

\* Mutant: the binder of the argument is taken over as it is on the wire.
ConvertChoiceAsOnWire ==
  Same("TemplateChoice", {"arg_binder", "ret_type", "update", "controllers", "observers"})
  \union Same("ArgBinder", {"type"})

ConvertChoice ==
  { Rule("TemplateChoice", "arg_binder", "Choice", "fields"), Rule("ArgBinder", "type", "Field", "ty"),
    Rule("TemplateChoice", "ret_type", "Choice", "return_type"),
    Rule("TemplateChoice", "update", "Choice", "update"),
    Rule("TemplateChoice", "controllers", "Choice", "controllers"),
    Rule("TemplateChoice", "observers", "Choice", "observers") }

ConvertKeyAndImplements ==
  Same("DefKey", {"maintainers", "key_expr"})
  \union {Rule("DefKey", "type", "DefKey", "ty"), Through("Implements", "interface")}

ConvertInterface ==
  {Rule("DefInterface", s, "Interface", s) : s \in {"methods", "choices", "view", "requires"}}
  \union {Rule("InterfaceMethod", "type", "InterfaceMethod", "ty")}

ConvertException == {Rule("DefException", "message", "Exception", "message")}
ConvertValue == {Rule("DefValue", "type", "DefValue", "ty"), Rule("DefValue", "expr", "DefValue", "expr")}
ConvertField == {Rule("FieldWithType", "type", "Field", "ty")}

ConvertKind ==
  {Rule("TypeVarWithKind", "kind", "TypeVarWithKind", "kind"), Through("InternedKind", "entry")}
  \union Same("KindArrow", {"params", "result"})

(***************************************************************************)
(* convert_type and convert_builtin: the arguments of every builtin type   *)
(* are converted, those of a function or an update are then let go.        *)
(***************************************************************************)
KeptArguments ==
  [NUMERIC |-> "Numeric", OPTIONAL |-> "Optional", LIST |-> "List", GENMAP |-> "GenMap",
   TEXTMAP |-> "TextMap", CONTRACT_ID |-> "ContractId"]

ConvertType ==
  { Rule("Var", "args", "Var", "type_arguments"),
    Rule("Con", "tycon", "TyCon", "tycon"), Rule("Con", "args", "TyCon", "type_arguments"),
    Rule("Syn", "tysyn", "Syn", "tysyn"), Rule("Syn", "args", "Syn", "args"),
    Rule("Forall", "vars", "Forall", "vars"), Rule("Forall", "body", "Forall", "body"),
    Rule("Struct", "fields", "Struct", "fields"), Through("InternedType", "entry") }

\* Mutant: the arguments of functions and updates are not even converted.
ConvertBuiltinKeptOnly == {Rule(b, "args", KeptArguments[b], "args") : b \in DOMAIN KeptArguments}

ConvertBuiltin ==
  {Rule(b, "args", KeptArguments[b], "args") : b \in DOMAIN KeptArguments}
  \union {Dropped(b, "args") : b \in {"ARROW", "UPDATE"}}

(***************************************************************************)
(* convert_expr, convert_update and what they call.                        *)
(***************************************************************************)
ConvertConstruction ==
  Same("RecCon", {"tycon", "fields"}) \union Same("RecProj", {"tycon", "record"})
  \union Same("RecUpd", {"tycon", "record", "update"}) \union Same("VariantCon", {"tycon", "variant_arg"})
  \union Same("EnumCon", {"tycon"}) \union Same("StructCon", {"fields"})
  \union { Rule("StructProj", "struct", "StructProj", "struct_expr"),
           Rule("StructUpd", "struct", "StructUpd", "struct_expr"),
           Rule("StructUpd", "update", "StructUpd", "update") }

ConvertFieldExpr == Same("FieldWithExpr", {"expr"})
ConvertValueId == {Rule("Val", "name", "Val", "name")}

ConvertApplication ==
  Same("App", {"fun", "args"}) \union Same("TyApp", {"expr", "types"})
  \union {Rule("Abs", "param", "Abs", "params"), Rule("Abs", "body", "Abs", "body")}
  \union {Rule("TyAbs", "param", "TyAbs", "params"), Rule("TyAbs", "body", "TyAbs", "body")}
  \union Same("Case", {"scrut", "alts"}) \union Same("Let", {"block"})

ConvertVarWithType == {Rule("VarWithType", "type", "VarWithType", "ty")}
ConvertBlock == Same("Block", {"bindings", "body"}) \union Same("Binding", {"binder", "bound"})

ConvertCaseAlt ==
  Same("CaseAlt", {"body", "sum"}) \union Same("AltVariant", {"con"}) \union Same("AltEnum", {"con"})

ConvertTyped ==
  {Rule(k, "type", k, "ty") : k \in OfType \union TypedExpr \union {"Cons", "OptionalSome"}}
  \union {Rule(k, "expr", k, "expr") : k \in TypedExpr}
  \union Same("Cons", {"front", "tail"}) \union {Rule("OptionalSome", "value", "OptionalSome", "body")}
  \union Same("Throw", {"return_type", "exception_type", "exception_expr"})
  \union Same("UpdateExpr", {"update"}) \union {Through("InternedExpr", "entry")}

ConvertInterfaceOp ==
  (UNION {Same(k, {"interface", "expr"}) : k \in OfInterface})
  \union Same("ToInterface", {"interface_type", "template_type", "template_expr"})
  \union Same("FromInterface", {"interface_type", "template_type", "interface_expr"})
  \union Same("CallInterface", {"interface_type", "interface_expr"})
  \union Same("UnsafeFromInterface", {"interface_type", "template_type", "contract_id_expr", "interface_expr"})
  \union Same("ToRequiredInterface", {"required_interface", "requiring_interface", "expr"})
  \union Same("FromRequiredInterface", {"required_interface", "requiring_interface", "expr"})
  \union Same("UnsafeFromRequiredInterface",
              {"required_interface", "requiring_interface", "contract_id_expr", "interface_expr"})
  \union UNION {Same(k, {"template", "contract_expr", "choice_arg_expr"}) :
                k \in {"ChoiceController", "ChoiceObserver"}}

\* The key that LookupByKey and FetchByKey get is a placeholder.
ConvertUpdate ==
  {Rule("Pure", "type", "Pure", "ty"), Rule("Pure", "expr", "Pure", "expr")} \union Same("UpdateBlock", {"block"})
  \union Same("Create", {"template", "expr"}) \union Same("CreateInterface", {"interface", "expr"})
  \union Same("Exercise", {"template", "cid", "arg"})
  \union Same("ExerciseInterface", {"interface", "cid", "arg", "guard"})
  \union Same("ExerciseByKey", {"template", "key", "arg"})
  \union Same("Fetch", {"template", "cid"}) \union Same("FetchInterface", {"interface", "cid"})
  \union (UNION {Same(k, {"template"}) : k \in {"LookupByKey", "FetchByKey", "QueryNByKey"}})
  \union {Rule("EmbedExpr", "type", "EmbedExpr", "ty"), Rule("EmbedExpr", "body", "EmbedExpr", "body")}
  \union Same("TryCatch", {"return_type", "try_expr", "catch_expr"}) \union Same("LedgerTimeLt", {"expr"})

Conversion ==
  ConvertModule \union ConvertSynonym \union ConvertDataType \union ConvertTemplate \union ConvertChoice
  \union ConvertKeyAndImplements \union ConvertInterface \union ConvertException \union ConvertValue
  \union ConvertField \union ConvertKind \union ConvertType \union ConvertBuiltin \union ConvertConstruction
  \union ConvertFieldExpr \union ConvertValueId \union ConvertApplication \union ConvertVarWithType
  \union ConvertBlock \union ConvertCaseAlt \union ConvertTyped \union ConvertInterfaceOp \union ConvertUpdate

(***************************************************************************)
(* Compiled without the feature `full' the crate has no expressions, and   *)
(* these slots are not read.                                               *)
(***************************************************************************)
OnlyInFull ==
  { <<"Module", "values">>, <<"DefException", "message">>, <<"DefKey", "maintainers">>, <<"DefKey", "key_expr">> }
  \union {<<"Template", s>> : s \in {"precond", "signatories", "observers"}}
  \union {<<"TemplateChoice", s>> : s \in {"update", "controllers", "observers"}}

\* The slots that may be left unset; req() refuses every other one.
MayBeUnset == {<<"Template", "key">>, <<"Template", "precond">>, <<"ExerciseInterface", "guard">>}

=============================================================================
