----------------------------- MODULE LfElements -----------------------------
(***************************************************************************)
(* The elements that the conversion builds (daml-lf/src/element/) and the  *)
(* two ways the crate walks them: `accept', which shows every element it   *)
(* reaches to a visitor, and `validate', which looks up the type names.    *)
(* An element is a kind; what it consists of, and accept passes on to, is  *)
(* given by its slots.  Names and numbers of an element are left out.      *)
(***************************************************************************)
EXTENDS LfWire

Slots(k, slots) == {<<k, s>> : s \in slots}

(***************************************************************************)
(* Packages, modules and definitions.                                      *)
(***************************************************************************)
AcceptPackage == Slots("Package", {"modules"})

AcceptModule == Slots("Module", {"synonyms", "data_types", "interfaces", "exceptions", "values"})

AcceptDefTypeSyn == Slots("DefTypeSyn", {"params", "ty"})
AcceptDefValue == Slots("DefValue", {"ty", "expr"})
AcceptException == Slots("Exception", {"message"})
AcceptField == Slots("Field", {"ty"})
AcceptTypeVar == Slots("TypeVarWithKind", {"kind"}) \union Slots("KindArrow", {"params", "result"})

AcceptInterface ==
  Slots("Interface", {"methods", "choices", "view", "requires"}) \union Slots("InterfaceMethod", {"ty"})

\* DamlData::accept passes on to whichever of them it is.
DataKinds == {"Record", "Template", "Variant", "Enum"}

\* The interfaces that a template implements are not among them.
AcceptTemplate ==
  Slots("Template", {"fields", "choices", "precond", "signatories", "observers", "key"})

AcceptChoice == Slots("Choice", {"fields", "return_type", "update", "controllers", "observers"})
AcceptDefKey == Slots("DefKey", {"ty", "maintainers", "key_expr"})
AcceptRecord == Slots("Record", {"fields", "type_params"})
AcceptVariant == Slots("Variant", {"fields", "type_params"})
AcceptEnum == Slots("Enum", {"type_params"})

(***************************************************************************)
(* Types.                                                                  *)
(***************************************************************************)
TypeArms ==
  {"Var", "List", "Optional", "TextMap", "GenMap", "Numeric", "ContractId", "TyCon", "Forall", "Struct", "Syn"}

AcceptType ==
  UNION {Slots(k, {"args"}) : k \in {"List", "Optional", "TextMap", "GenMap", "Numeric", "ContractId"}}

AcceptSyn == Slots("Syn", {"tysyn", "args"})
AcceptStruct == Slots("Struct", {"fields"})
AcceptForall == Slots("Forall", {"vars", "body"})
AcceptTyCon == Slots("TyCon", {"tycon", "type_arguments"})
AcceptVar == Slots("Var", {"type_arguments"})

\* pre_visit_absolute_tycon: the conversion builds no other sort of type name.
AcceptTyConName == {"TypeConId", "TypeSynId"}

(***************************************************************************)
(* Expressions (with the feature `full').                                  *)
(***************************************************************************)
Builtins == {"Builtin"}
Literals == {"BuiltinCon", "BuiltinLit"}

ExprArms ==
  Builtins \union Literals \union {e[1] : e \in InterfaceOps} \union
  {"Val", "RecCon", "RecProj", "RecUpd", "VariantCon", "EnumCon",
   "StructCon", "StructProj", "StructUpd", "App", "TyApp", "Abs", "TyAbs", "Case", "Let", "Cons", "UpdateExpr",
   "OptionalSome", "ToAny", "FromAny", "TypeRep", "OptionalNone", "Nil", "ToAnyException",
   "FromAnyException", "Throw"}

AcceptExpr ==
  Slots("Val", {"name"}) \union Slots("Let", {"block"}) \union Slots("UpdateExpr", {"update"})
  \union UNION {Slots(k, {"ty"}) : k \in OfType}

\* pre_visit_local_value_name: the conversion builds no other sort of value name.
AcceptValueName == {"ValueId"}

AcceptRecCon == Slots("RecCon", {"tycon", "fields"})
AcceptFieldWithExpr == Slots("FieldWithExpr", {"expr"})
AcceptRecProj == Slots("RecProj", {"tycon", "record"})
AcceptRecUpd == Slots("RecUpd", {"tycon", "record", "update"})
AcceptVariantCon == Slots("VariantCon", {"tycon", "variant_arg"})
AcceptEnumCon == Slots("EnumCon", {"tycon"})
AcceptStructCon == Slots("StructCon", {"fields"})
AcceptStructProj == Slots("StructProj", {"struct_expr"})
AcceptStructUpd == Slots("StructUpd", {"struct_expr", "update"})
AcceptApp == Slots("App", {"fun", "args"})
AcceptTyApp == Slots("TyApp", {"expr", "types"})
AcceptAbs == Slots("Abs", {"params", "body"}) \union Slots("VarWithType", {"ty"})
AcceptTyAbs == Slots("TyAbs", {"params", "body"})
AcceptBlock == Slots("Block", {"bindings", "body"}) \union Slots("Binding", {"binder", "bound"})
AcceptCons == Slots("Cons", {"ty", "front", "tail"})
AcceptCase == Slots("Case", {"scrut", "alts"}) \union Slots("CaseAlt", {"body", "sum"})
AltBinders == {"AltCons", "AltOptionalSome"}
AltArms == AltBinders \union {"AltVariant", "AltBuiltinCon", "AltEnum"}
AcceptAlt == Slots("AltVariant", {"con"}) \union Slots("AltEnum", {"con"})
AcceptOptionalSome == Slots("OptionalSome", {"ty", "body"})
AcceptAny == UNION {Slots(k, {"ty", "expr"}) : k \in {"ToAny", "FromAny"}}
AcceptAnyException == UNION {Slots(k, {"ty", "expr"}) : k \in {"ToAnyException", "FromAnyException"}}
AcceptThrow == Slots("Throw", {"return_type", "exception_type", "exception_expr"})

(***************************************************************************)
(* Updates and the operations on interfaces.                               *)
(***************************************************************************)
UpdateArms ==
  {"Pure", "UpdateBlock", "Create", "Exercise", "ExerciseByKey", "Fetch", "LookupByKey", "FetchByKey",
   "QueryNByKey", "EmbedExpr", "TryCatch", "CreateInterface", "ExerciseInterface", "FetchInterface",
   "LedgerTimeLt"}

AcceptUpdate == Slots("UpdateBlock", {"block"}) \union Slots("LedgerTimeLt", {"expr"})

AcceptPure == Slots("Pure", {"ty", "expr"})
AcceptCreate == Slots("Create", {"template", "expr"})
AcceptExercise == Slots("Exercise", {"template", "cid", "arg"})
AcceptExerciseByKey == Slots("ExerciseByKey", {"template", "key", "arg"})
AcceptFetch == Slots("Fetch", {"template", "cid"})
AcceptRetrieveByKey == UNION {Slots(k, {"template"}) : k \in {"LookupByKey", "FetchByKey"}}
AcceptEmbedExpr == Slots("EmbedExpr", {"ty", "body"})
\* Mutant: what catches the exception is not walked.
AcceptTryOnly == Slots("TryCatch", {"return_type", "try_expr"})

AcceptTryCatch == Slots("TryCatch", {"return_type", "try_expr", "catch_expr"})
AcceptQueryNByKey == Slots("QueryNByKey", {"template"})
AcceptCreateInterface == Slots("CreateInterface", {"interface", "expr"})
AcceptExerciseInterface == Slots("ExerciseInterface", {"interface", "cid", "arg", "guard"})
AcceptFetchInterface == Slots("FetchInterface", {"interface", "cid"})

InterfaceOpSlots == {<<e[1], e[2]>> : e \in InterfaceOps}
AcceptInterfaceOp == InterfaceOpSlots

(***************************************************************************)
(* What there is below an element is reached if the element is a struct,   *)
(* or a variant for which the accept of its enum has an arm.               *)
(***************************************************************************)
Structs ==
  {"Package", "Module", "DefTypeSyn", "DefValue", "Exception", "Field", "TypeVarWithKind", "KindArrow",
   "Interface", "InterfaceMethod", "Choice", "DefKey", "FieldWithExpr", "VarWithType", "Block", "Binding", "CaseAlt"}

ElementSlots ==
  AcceptPackage \union AcceptModule \union AcceptDefTypeSyn \union AcceptDefValue \union AcceptException
  \union AcceptField \union AcceptTypeVar \union AcceptInterface \union AcceptTemplate \union AcceptChoice
  \union AcceptDefKey \union AcceptRecord \union AcceptVariant \union AcceptEnum \union AcceptType
  \union AcceptSyn \union AcceptStruct \union AcceptForall \union AcceptTyCon \union AcceptVar
  \union AcceptExpr \union AcceptRecCon \union AcceptFieldWithExpr \union AcceptRecProj \union AcceptRecUpd
  \union AcceptVariantCon \union AcceptEnumCon \union AcceptStructCon \union AcceptStructProj
  \union AcceptStructUpd \union AcceptApp \union AcceptTyApp \union AcceptAbs \union AcceptTyAbs
  \union AcceptBlock \union AcceptCons \union AcceptCase \union AcceptAlt \union AcceptOptionalSome
  \union AcceptAny \union AcceptAnyException \union AcceptThrow \union AcceptUpdate \union AcceptPure
  \union AcceptCreate \union AcceptExercise \union AcceptExerciseByKey \union AcceptFetch
  \union AcceptRetrieveByKey \union AcceptEmbedExpr \union AcceptTryCatch \union AcceptQueryNByKey
  \union AcceptCreateInterface \union AcceptExerciseInterface \union AcceptFetchInterface
  \union AcceptInterfaceOp

Accept ==
  {e \in ElementSlots :
     e[1] \in Structs \union DataKinds \union TypeArms \union ExprArms \union AltArms \union UpdateArms}

(***************************************************************************)
(* What DamlArchive::validate walks.                                       *)
(***************************************************************************)
ValidateModule == Slots("Package", {"modules"}) \union Slots("Module", {"data_types", "interfaces"})
ValidateData == Slots("Record", {"fields"}) \union Slots("Variant", {"fields"})
ValidateTemplate == Slots("Template", {"fields", "choices", "key"}) \union Slots("DefKey", {"ty"})
ValidateInterface ==
  Slots("Interface", {"view", "methods", "choices", "requires"}) \union Slots("InterfaceMethod", {"ty"})
ValidateChoice == Slots("Choice", {"fields", "return_type"}) \union Slots("Field", {"ty"})

\* Mutant: the arguments of a type variable are forgotten.
ValidateTypeButVar ==
  (UNION {Slots(k, {"args"}) : k \in {"ContractId", "Numeric", "List", "TextMap", "GenMap", "Optional"}})
  \union Slots("TyCon", {"tycon", "type_arguments"})
  \union Slots("Forall", {"body"}) \union Slots("Struct", {"fields"}) \union Slots("Syn", {"args"})

ValidateType ==
  (UNION {Slots(k, {"args"}) : k \in {"ContractId", "Numeric", "List", "TextMap", "GenMap", "Optional"}})
  \union Slots("TyCon", {"tycon", "type_arguments"}) \union Slots("Var", {"type_arguments"})
  \union Slots("Forall", {"body"}) \union Slots("Struct", {"fields"}) \union Slots("Syn", {"args"})

Validate ==
  ValidateModule \union ValidateData \union ValidateTemplate \union ValidateInterface \union ValidateChoice
  \union ValidateType

=============================================================================
