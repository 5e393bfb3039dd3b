----------------------------- MODULE BindJavaType -----------------------------
(***************************************************************************)
(* bind_java_type!: the properties of one invocation are read in the order *)
(* they are written, each with the type map as it is by then; the code is  *)
(* generated at the end, with the map and the defaults as they have        *)
(* become.  Tokens are abstracted to what they say; a syntax error is any  *)
(* error.                                                                  *)
(***************************************************************************)
EXTENDS TypeMap

CONSTANTS
    Own,            \* the name of the Rust type to bind
    BoundClasses,   \* the Java classes it may be bound to
    Texts,          \* the members (constructors, methods, ...) that may be written
    MaxProperties   \* the most properties of an invocation

ASSUME BindAssumption ==
    /\ Own \in Names /\ BoundClasses \subseteq JavaClasses
    /\ MaxProperties \in Nat
    /\ "void" \in DOMAIN BuiltinPrims /\ "JObject" \in DOMAIN PathOf

VARIABLES
    outcome,       \* "reading", "read", "error", "panic" or "expanded"
    properties,    \* how many have been read
    rustType, javaType, visibility,
    members,       \* the constructors, methods and fields, as parsed
    natives,       \* the native methods
    instanceOf,    \* the names under is_instance_of
    defaults,      \* the settings for all native methods
    code           \* what is generated

inputVars == <<rustType, javaType, visibility, members, natives, instanceOf, defaults>>
bindVars == <<mapVars, outcome, properties, inputVars, code>>

Kinds == {"constructor", "method", "native", "field"}

(***************************************************************************)
(* A member as it is written.  `type` is its return or field type: a name, *)
(* or a class; the settings are "unset" unless they are written.           *)
(***************************************************************************)
PlainText(kind, type) ==
    [kind |-> kind, type |-> type, array |-> FALSE, static |-> FALSE, nonNull |-> FALSE,
     raw |-> FALSE, extern |-> FALSE, fn |-> FALSE, renamed |-> FALSE, vis |-> FALSE,
     export |-> "unset", policy |-> "unset", catch |-> "unset", abi |-> "unset"]

ASSUME TextsAssumption ==
    \A text \in Texts :
        /\ text.kind \in Kinds
        /\ text.export \in {"unset", "no", "auto", "name"}
        /\ text.catch \in {"unset", "yes", "no"}

NoCode == [checked |-> {}, registered |-> {}, exported |-> {}, wrappers |-> {}]
Defaults == [export |-> TRUE, policy |-> "ThrowRuntimeExAndDefault", catch |-> TRUE, abi |-> "Always"]

InitBind ==
    /\ InitMap
    /\ outcome = "reading" /\ properties = 0
    /\ rustType = FALSE /\ javaType = "none" /\ visibility = "unset"
    /\ members = {} /\ natives = {} /\ instanceOf = {}
    /\ defaults = Defaults /\ code = NoCode

-------------------------------------------------------------------------------
(* parse_method, parse_field *)

IsVoid(text) == ~text.array /\ text.type = "void"
IsPrimitive(text) == ~text.array /\ IsPrim(text.type)

(* validate_array_element_type: a name must be known, and not be void; any class will do. *)
ArrayRefused(text) ==
    text.array /\ text.type \notin JavaClasses
    /\ (~Known(text.type) \/ (IsPrim(text.type) /\ alias[text.type].prim = "void"))

Exported(text) == IF text.extern THEN "auto" ELSE text.export

ExternRefused(text) == text.extern /\ text.export # "unset"
ConstructorRefused(text) == text.renamed \/ ~IsVoid(text) \/ text.static \/ text.nonNull
(* A raw method has no wrapper to resolve an error or to catch a panic. *)
RawRefused(text) == text.raw /\ (text.policy # "unset" \/ text.catch # "unset" \/ text.nonNull)
(* Only native methods have these settings. *)
SettingsRefused(text) ==
    \/ text.policy # "unset" \/ Exported(text) # "unset" \/ text.fn \/ text.raw
    \/ text.abi # "unset" \/ text.catch # "unset"
NonNullRefused(text) == text.nonNull /\ (IsPrimitive(text) \/ IsVoid(text))
FieldRefused(text) == text.nonNull /\ IsPrimitive(text)

Refused(text) ==
    \/ ArrayRefused(text)
    \/ IF text.kind = "field" THEN FieldRefused(text)
       ELSE \/ ExternRefused(text)
            \/ text.kind = "constructor" /\ ConstructorRefused(text)
            \/ text.kind = "native" /\ RawRefused(text)
            \/ text.kind # "native" /\ SettingsRefused(text)
            \/ NonNullRefused(text)

-------------------------------------------------------------------------------
(* Reading the properties *)

Read == outcome = "reading" /\ properties < MaxProperties /\ properties' = properties + 1
Fails(how) == outcome' = how /\ UNCHANGED <<mapVars, inputVars, code>>

(***************************************************************************)
(* As soon as the type and the class are known, the type is mapped to the  *)
(* class, unless the class is a core class or the name is already mapped.  *)
(***************************************************************************)
RegisterSelf(class) ==
    IF IsCore(class) \/ Known(Own) THEN UNCHANGED mapVars ELSE InsertRef(Own, class)

RustType(vis) ==
    /\ Read
    /\ IF rustType THEN Fails("error")
       ELSE /\ rustType' = TRUE
            /\ visibility' = IF vis = "unset" THEN visibility ELSE vis
            /\ IF javaType = "none" THEN UNCHANGED mapVars ELSE RegisterSelf(javaType)
            /\ UNCHANGED <<outcome, javaType, members, natives, instanceOf, defaults, code>>

JavaType(class) ==
    /\ Read
    /\ IF javaType # "none" THEN Fails("error")
       ELSE /\ javaType' = class
            /\ IF rustType THEN RegisterSelf(class) ELSE UNCHANGED mapVars
            /\ UNCHANGED <<outcome, rustType, visibility, members, natives, instanceOf, defaults, code>>

(* `[vis] RustType => java.Type`; a visibility given before it is forgotten. *)
Shorthand(vis, class) ==
    /\ Read
    /\ IF rustType \/ javaType # "none" THEN Fails("error")
       ELSE /\ rustType' = TRUE /\ javaType' = class /\ visibility' = vis
            /\ RegisterSelf(class)
            /\ UNCHANGED <<outcome, members, natives, instanceOf, defaults, code>>

RustTypeVis(vis) ==
    /\ Read
    /\ IF visibility # "unset" THEN Fails("error")
       ELSE /\ visibility' = vis
            /\ UNCHANGED <<mapVars, outcome, rustType, javaType, members, natives, instanceOf, defaults, code>>

(* type_map, with one entry *)
TypeMapRef(n, class) ==
    /\ Read
    /\ IF InsertRefPanics(n, class) THEN Fails("panic")
       ELSE IF InsertRefFails(n, class) THEN Fails("error")
       ELSE InsertRef(n, class) /\ UNCHANGED <<outcome, inputVars, code>>
TypeMapPrim(n, prim) ==
    /\ Read
    /\ IF InsertPrimFails(n, prim) THEN Fails("error")
       ELSE InsertPrim(n, prim) /\ UNCHANGED <<outcome, inputVars, code>>
TypeMapAlias(n, to) ==
    /\ Read
    /\ IF InsertAliasFails(n, to) THEN Fails("error")
       ELSE InsertAlias(n, to) /\ UNCHANGED <<outcome, inputVars, code>>

(***************************************************************************)
(* A block with one member.  A block of constructors takes the place of an *)
(* earlier one, all others add to theirs.  A native method with a          *)
(* visibility is a method as well.                                         *)
(***************************************************************************)
AsMethod(text) == [PlainText("method", text.type) EXCEPT
    !.array = text.array, !.static = text.static, !.nonNull = text.nonNull, !.vis = TRUE]

Member(text) ==
    /\ Read
    /\ IF Refused(text) THEN Fails("error")
       ELSE /\ natives' = IF text.kind = "native" THEN natives \union {text} ELSE natives
            /\ members' = (IF text.kind = "constructor"
                            THEN {m \in members : m.kind # "constructor"} ELSE members)
                          \union (IF text.kind = "native"
                                   THEN IF text.vis THEN {AsMethod(text)} ELSE {}
                                   ELSE {text})
            /\ UNCHANGED <<mapVars, outcome, rustType, javaType, visibility, instanceOf, defaults, code>>

InstanceOf(n) ==
    /\ Read
    /\ IF n \in {"JObject", "jni::objects::JObject"} THEN Fails("error")
       ELSE /\ instanceOf' = instanceOf \union {n}
            /\ UNCHANGED <<mapVars, outcome, rustType, javaType, visibility, members, natives, defaults, code>>

(* native_methods_export, native_methods_error_policy, native_methods_catch_unwind, abi_check *)
Setting(new) ==
    /\ Read
    /\ defaults' = new
    /\ UNCHANGED <<mapVars, outcome, rustType, javaType, visibility, members, natives, instanceOf, code>>

(* A property nobody knows, or `jni` when it is not the first *)
UnknownProperty == Read /\ Fails("error")

EndOfInput ==
    /\ outcome = "reading"
    /\ outcome' = IF rustType /\ javaType # "none" THEN "read" ELSE "error"
    /\ UNCHANGED <<mapVars, inputVars, properties, code>>

-------------------------------------------------------------------------------
(* Generating the code *)

HasDescriptor(text) == text.type \in JavaClasses \/ Known(text.type)

(* to_jni_descriptor: the class or primitive type in the signature *)
DescriptorOf(text) ==
    IF text.type \in JavaClasses THEN text.type
    ELSE IF IsRef(text.type) THEN ClassOf(text.type) ELSE alias[text.type].prim

JObject == Ref(PathOf["JObject"])
(* sig_type_to_rust_type_core: a class without a Rust type is a JObject. *)
RustTypeOf(text) ==
    IF text.type \notin JavaClasses THEN alias[text.type]
    ELSE IF text.type \in DOMAIN javaToRust THEN javaToRust[text.type] ELSE JObject

(* Mutant: only the type that is bound is checked. *)
MappingChecksOfOwn == {t \in DOMAIN rustToJava : ~IsBuiltin(t) /\ t.path = Own}
(* generate_type_mapping_checks: the types whose class_name() is compared at run time *)
MappingChecks == {t \in DOMAIN rustToJava : ~IsBuiltin(t)}
UserPrims == {t \in {alias[n] : n \in DOMAIN alias} : t.kind = "prim" /\ ~IsBuiltin(t)}
RequiresCheck(abi) == abi = "Always"

(* Mutant: a name for the export is not taken as a wish to export. *)
ShouldExportNamed(text) == Exported(text) = "auto" \/ (Exported(text) = "unset" /\ defaults.export)
(* A method that sets nothing takes the default as it is at the end. *)
ShouldExport(text) ==
    CASE Exported(text) = "unset" -> defaults.export
      [] Exported(text) = "no" -> FALSE
      [] OTHER -> TRUE
ExportName(text) == IF Exported(text) = "name" THEN "given" ELSE "mangled"

(* The wrapper a native method is registered with *)
Wrapper(text) ==
    [of |-> text,
     env |-> IF text.raw THEN "unowned"
             ELSE IF text.catch = "yes" \/ (text.catch = "unset" /\ defaults.catch)
                  THEN "with_env" ELSE "with_env_no_catch",
     policy |-> IF text.raw THEN "unset"
                ELSE IF text.policy # "unset" THEN text.policy ELSE defaults.policy,
     check |-> RequiresCheck(IF text.abi # "unset" THEN text.abi ELSE defaults.abi),
     calls |-> IF text.fn THEN "fn" ELSE "trait"]

IdsFail == \E text \in members : ~HasDescriptor(text)
InstanceOfFails == \E n \in instanceOf : ~IsRef(n)
(* The trait and the wrappers are generated before anything asks for a descriptor. *)
NativeUnknown == \E text \in natives : ~HasDescriptor(text)
VoidMapped == RequiresCheck(defaults.abi) /\ \E t \in UserPrims : t.prim = "void"

Registered == {[of |-> text, descriptor |-> DescriptorOf(text)] : text \in natives}
Exports == {[of |-> text, name |-> ExportName(text)] : text \in {x \in natives : ShouldExport(x)}}

Expand ==
    /\ outcome = "read"
    /\ outcome' = IF IsCore(javaType) \/ IdsFail THEN "error"
                  ELSE IF NativeUnknown THEN "panic"
                  ELSE IF InstanceOfFails THEN "error"
                  ELSE IF VoidMapped THEN "panic" ELSE "expanded"
    /\ code' = IF outcome' = "expanded"
               THEN [checked |-> IF RequiresCheck(defaults.abi) THEN MappingChecks ELSE {},
                     registered |-> Registered,
                     exported |-> Exports,
                     wrappers |-> {Wrapper(text) : text \in natives}]
               ELSE code
    /\ UNCHANGED <<mapVars, inputVars, properties>>

Visibilities == {"unset", "pub", "pub(crate)"}

BindNext ==
    \/ \E vis \in Visibilities : RustType(vis)
    \/ \E class \in BoundClasses : JavaType(class)
    \/ \E vis \in Visibilities, class \in BoundClasses : Shorthand(vis, class)
    \/ \E vis \in Visibilities \ {"unset"} : RustTypeVis(vis)
    \/ \E n \in Names, class \in JavaClasses : TypeMapRef(n, class)
    \/ \E n, prim \in Names : TypeMapPrim(n, prim)
    \/ \E n, to \in Names : TypeMapAlias(n, to)
    \/ \E text \in Texts : Member(text)
    \/ \E n \in Names : InstanceOf(n)
    \/ \E export \in BOOLEAN : Setting([defaults EXCEPT !.export = export])
    \/ \E catch \in BOOLEAN : Setting([defaults EXCEPT !.catch = catch])
    \/ Setting([defaults EXCEPT !.policy = "LogErrorAndDefault"])
    \/ Setting([defaults EXCEPT !.abi = "UnsafeNever"])
    \/ UnknownProperty
    \/ EndOfInput
    \/ Expand

BindSpec == InitBind /\ [][BindNext]_bindVars

-------------------------------------------------------------------------------
(***************************************************************************)
(* The class in a signature is the class of the Rust type that stands for  *)
(* it in the generated code: a type of the jni crate by construction, any  *)
(* other because class_name() is compared when the binding is first used.  *)
(* A class nobody has mapped is a JObject.  The program may renounce the   *)
(* comparison (abi_check), and a built-in type mapped again under its own  *)
(* path escapes it.                                                        *)
(***************************************************************************)
TypesAgree ==
    outcome = "expanded" /\ RequiresCheck(defaults.abi) =>
        \A text \in members \union natives :
            LET type == RustTypeOf(text)
                class == DescriptorOf(text) IN
            \/ type.kind = "prim" \/ type = JObject
            \/ type \in code.checked /\ rustToJava[type] = class
            \/ IsBuiltin(type) /\ class = ClassOfPath[type.path]
            \/ IsBuiltin(type) /\ rustToJava[type] # ClassOfPath[type.path]

(***************************************************************************)
(* Every native method is registered, raw or not, and one with a           *)
(* visibility can be called from Rust by the same signature.  It is also   *)
(* exported if it asks for it in any way, or if it says nothing and the    *)
(* default, wherever it is written, is to export; an error or a panic of   *)
(* one that is not raw is resolved by a policy.                            *)
(***************************************************************************)
NativesBound ==
    outcome = "expanded" =>
        \A text \in natives :
            /\ \E r \in code.registered : r.of = text
            /\ (\E e \in code.exported : e.of = text) <=>
                   \/ text.extern \/ text.export \in {"auto", "name"}
                   \/ text.export = "unset" /\ defaults.export
            /\ \E w \in code.wrappers :
                   /\ w.of = text
                   /\ w.env # "unowned" => w.policy # "unset"
                   /\ w.env = "with_env_no_catch" => text.catch = "no" \/ ~defaults.catch
            /\ text.vis => \E m \in members :
                   /\ m.kind = "method" /\ m.type = text.type
                   /\ m.static = text.static /\ m.nonNull = text.nonNull

===============================================================================
