------------------------------ MODULE NativeMethod ------------------------------
(***************************************************************************)
(* native_method!: one native method, from properties and an inline        *)
(* signature in any order.  It shares the type map, and the reading of a   *)
(* type, with bind_java_type!.                                             *)
(***************************************************************************)
EXTENDS BindJavaType

VARIABLES
    given,     \* what has been read of the native method
    written    \* the properties that were written, whatever became of them

nativeVars == <<given, written>>

Unset == [rustType |-> "unset", javaType |-> "unset", name |-> "unset", type |-> "unset",
          static |-> FALSE, raw |-> FALSE, export |-> "no", abi |-> "Always",
          catch |-> "unset", fn |-> "unset", policy |-> "unset"]

InitNative == given = Unset /\ written = {}

(***************************************************************************)
(* What a property may say.  A name, a path or a type is "property" if a   *)
(* property gives it and "inline" if the inline signature does.            *)
(***************************************************************************)
Value(property) ==
    CASE property \in {"rustType", "javaType", "name", "fn", "policy"} -> {"property"}
      [] property \in {"static", "raw"} -> BOOLEAN
      [] property = "type" -> {n \in Names : Known(n)}
      [] property = "export" -> {"no", "auto", "name"}
      [] property = "abi" -> {"Always", "UnsafeNever"}
      [] property = "catch" -> {"yes", "no"}

NativeFails(how) == outcome' = how /\ UNCHANGED <<mapVars, given, written>>

NativeProperty(property) ==
    /\ Read
    /\ \E v \in Value(property) :
         /\ given' = [given EXCEPT ![property] = v]
         /\ written' = written \union {property}
    /\ UNCHANGED <<mapVars, outcome>>

(* Mutant: the name of the inline signature takes the place of the property. *)
InlineNames(new, hasPath) ==
    [new EXCEPT
        !.rustType = IF hasPath /\ @ = "unset" THEN "inline" ELSE @,
        !.name = "inline",
        !.fn = IF @ = "unset" THEN "inline" ELSE @]
(* A path names the type as well, but what a property has said stays. *)
InlineDefaults(new, hasPath) ==
    [new EXCEPT
        !.rustType = IF hasPath /\ @ = "unset" THEN "inline" ELSE @,
        !.name = IF @ = "unset" THEN "inline" ELSE @,
        !.fn = IF @ = "unset" THEN "inline" ELSE @]

(* `[static] [raw] [extern] fn [Type::]name(..) -> type` *)
InlineSignature ==
    /\ Read
    /\ \E static, raw, extern, hasPath \in BOOLEAN, n \in Names :
         given' = InlineDefaults(
             [given EXCEPT !.type = n,
                           !.static = @ \/ static,
                           !.raw = @ \/ raw,
                           !.export = IF extern /\ @ = "no" THEN "auto" ELSE @], hasPath)
    /\ written' = written \union {"inline"}
    /\ UNCHANGED <<mapVars, outcome>>

NativeTypeMap ==
    /\ Read
    /\ \/ \E n \in Names, class \in JavaClasses :
            IF InsertRefPanics(n, class) THEN NativeFails("panic")
            ELSE IF InsertRefFails(n, class) THEN NativeFails("error")
            ELSE InsertRef(n, class) /\ UNCHANGED <<outcome, nativeVars>>
       \/ \E n, prim \in Names :
            IF InsertPrimFails(n, prim) THEN NativeFails("error")
            ELSE InsertPrim(n, prim) /\ UNCHANGED <<outcome, nativeVars>>
       \/ \E n, to \in Names :
            IF InsertAliasFails(n, to) THEN NativeFails("error")
            ELSE InsertAlias(n, to) /\ UNCHANGED <<outcome, nativeVars>>

NativeUnknownProperty == Read /\ NativeFails("error")

(* A mangled name needs the class; a raw function resolves nothing. *)
NativeRefused ==
    \/ given.name = "unset" \/ given.type = "unset" \/ given.fn = "unset"
    \/ given.export = "auto" /\ given.javaType = "unset"
    \/ given.raw /\ (given.policy # "unset" \/ given.catch # "unset")

NativeEnd ==
    /\ outcome = "reading"
    /\ outcome' = IF NativeRefused THEN "error" ELSE "read"
    /\ UNCHANGED <<mapVars, nativeVars, properties>>

(***************************************************************************)
(* Every export asks for the Java class, also one that is given its name.  *)
(***************************************************************************)
NativeExpand ==
    /\ outcome = "read"
    /\ outcome' = IF ~Known(given.type) THEN "error"
                  ELSE IF RequiresCheck(given.abi) /\ \E t \in UserPrims : t.prim = "void" THEN "panic"
                  ELSE IF given.export # "no" /\ given.javaType = "unset" THEN "panic"
                  ELSE "expanded"
    /\ UNCHANGED <<mapVars, nativeVars, properties>>

NativeNext ==
    \/ \E property \in DOMAIN Unset : NativeProperty(property)
    \/ InlineSignature
    \/ NativeTypeMap
    \/ NativeUnknownProperty
    \/ NativeEnd
    \/ NativeExpand

(* The macro alone: nothing of bind_java_type! but the type map is used. *)
NativeSpec ==
    /\ InitBind /\ InitNative
    /\ [][NativeNext /\ UNCHANGED <<inputVars, code>>]_<<bindVars, nativeVars>>

-------------------------------------------------------------------------------
(***************************************************************************)
(* A property wins over the inline signature, whichever comes first: the   *)
(* function that is called, the Java name it is registered by and the type *)
(* of `this` are the ones that were given by name.                         *)
(***************************************************************************)
PropertiesWin ==
    \A property \in {"rustType", "name", "fn"} :
        property \in written <=> given[property] = "property"
===============================================================================
