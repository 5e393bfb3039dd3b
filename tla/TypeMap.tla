-------------------------------- MODULE TypeMap --------------------------------
(***************************************************************************)
(* TypeMappings of jni-macros: which Java class or primitive type a name   *)
(* of a Rust type stands for in a macro.  The map starts with the types of *)
(* the jni crate and grows with every `type_map`, so that what a name      *)
(* means depends on what has been read before it.                          *)
(***************************************************************************)
EXTENDS Naturals

CONSTANTS
    Names,          \* the names (paths) of Rust types a program may write
    JavaClasses,
    CoreClasses,    \* Object, Class, String, Throwable: cannot be mapped again
    PrimTypes,      \* the Java primitive types, with "void"
    PathOf,         \* the names of the built-in types of the jni crate, to their paths
    ClassOfPath,    \* those paths, to their Java classes
    BuiltinPrims,   \* the names of the built-in primitive types, to the types
    PrimPath        \* ... and to their paths: "jint" and "int" share one

(***************************************************************************)
(* The built-in names are pairs of a short name and a full path that stand *)
(* for the same type; the path it really has (`::jni::objects::JString`)   *)
(* is not one of its names.                                                *)
(***************************************************************************)
ASSUME BuiltinsAssumption ==
    /\ CoreClasses \subseteq JavaClasses
    /\ PathOf \in [DOMAIN PathOf -> DOMAIN ClassOfPath] /\ DOMAIN PathOf \subseteq Names
    /\ ClassOfPath \in [DOMAIN ClassOfPath -> JavaClasses]
    /\ BuiltinPrims \in [DOMAIN BuiltinPrims -> PrimTypes] /\ DOMAIN BuiltinPrims \subseteq Names
    /\ DOMAIN PrimPath = DOMAIN BuiltinPrims
    /\ DOMAIN PathOf \intersect DOMAIN BuiltinPrims = {}
    /\ DOMAIN PathOf \intersect DOMAIN ClassOfPath = {}
    /\ DOMAIN BuiltinPrims \intersect DOMAIN ClassOfPath = {}

VARIABLES
    alias,        \* alias_to_rust: the names that are known, to Rust types
    rustToJava,   \* Rust types that are references, to Java classes
    javaToRust    \* Java classes, to the Rust type that stands for them

mapVars == <<alias, rustToJava, javaToRust>>

(* A Rust type: a reference by its path, or a primitive type under a path. *)
Ref(path) == [kind |-> "ref", path |-> path, prim |-> "none"]
Prim(prim, path) == [kind |-> "prim", path |-> path, prim |-> prim]

BuiltinPrim(n) == Prim(BuiltinPrims[n], PrimPath[n])

(* rust_reference_type, rust_prim_type: a type is built in if it equals a built-in one. *)
IsBuiltin(type) ==
    \/ type.kind = "ref" /\ type.path \in DOMAIN ClassOfPath
    \/ \E n \in DOMAIN BuiltinPrims : type = BuiltinPrim(n)

Known(n) == n \in DOMAIN alias
IsPrim(n) == Known(n) /\ alias[n].kind = "prim"
IsRef(n) == Known(n) /\ alias[n].kind = "ref"
(* map_alias: the class a name stands for, through the type *)
ClassOf(n) == rustToJava[alias[n]]
IsCore(class) == class \in CoreClasses

(* f with one more argument, or another value for one it has *)
With(f, x, v) == [y \in DOMAIN f \union {x} |-> IF y = x THEN v ELSE f[y]]

InitMap ==
    /\ alias = [n \in DOMAIN PathOf \union DOMAIN BuiltinPrims |->
                 IF n \in DOMAIN PathOf THEN Ref(PathOf[n]) ELSE BuiltinPrim(n)]
    /\ rustToJava = [t \in {Ref(p) : p \in DOMAIN ClassOfPath} |-> ClassOfPath[t.path]]
    (* no two built-in types have one class *)
    /\ javaToRust = [c \in {ClassOfPath[p] : p \in DOMAIN ClassOfPath} |->
                      Ref(CHOOSE p \in DOMAIN ClassOfPath : ClassOfPath[p] = c)]

-------------------------------------------------------------------------------
(***************************************************************************)
(* `Name => some.Class`.  A core class is refused.  A name that is known   *)
(* as the same type (whose path is its own name) is left as it is, of      *)
(* whatever class.  A name that is known as another type is an error,      *)
(* which names the class that type has: the unwrap fails for a primitive   *)
(* type.  The name must be new otherwise, but the type it makes need not:  *)
(* one that is given by the path of a built-in type is that type.          *)
(***************************************************************************)
InsertRefPanics(n, class) == ~IsCore(class) /\ IsPrim(n)
InsertRefFails(n, class) == IsCore(class) \/ (IsRef(n) /\ alias[n] # Ref(n))

(* Mutant: a name that is known takes the new class. *)
InsertRefAnyway(n, class) ==
    /\ ~InsertRefFails(n, class) /\ ~InsertRefPanics(n, class)
    /\ alias' = With(alias, n, Ref(n))
    /\ rustToJava' = With(rustToJava, Ref(n), class)
    /\ javaToRust' = With(javaToRust, class, Ref(n))

InsertRef(n, class) ==
    /\ ~InsertRefFails(n, class) /\ ~InsertRefPanics(n, class)
    /\ IF Known(n) THEN UNCHANGED mapVars
       ELSE /\ alias' = With(alias, n, Ref(n))
            /\ rustToJava' = With(rustToJava, Ref(n), class)
            /\ javaToRust' = With(javaToRust, class, Ref(n))

(* `unsafe Name => int`: the primitive type must be named by a built-in name. *)
InsertPrimFails(n, prim) ==
    \/ ~(IsPrim(prim) /\ IsBuiltin(alias[prim]))
    \/ Known(n) /\ alias[n] # Prim(alias[prim].prim, n)

InsertPrim(n, prim) ==
    /\ ~InsertPrimFails(n, prim)
    /\ alias' = IF Known(n) THEN alias ELSE With(alias, n, Prim(alias[prim].prim, n))
    /\ UNCHANGED <<rustToJava, javaToRust>>

(* `typealias Name => Other` *)
InsertAliasFails(n, to) == ~Known(to) \/ (Known(n) /\ alias[n] # alias[to])

InsertAlias(n, to) ==
    /\ ~InsertAliasFails(n, to)
    /\ alias' = With(alias, n, alias[to])
    /\ UNCHANGED <<rustToJava, javaToRust>>

InsertEntry ==
    \/ \E n \in Names, class \in JavaClasses : InsertRef(n, class)
    \/ \E n, prim \in Names : InsertPrim(n, prim)
    \/ \E n, to \in Names : InsertAlias(n, to)

MapSpec == InitMap /\ [][InsertEntry]_mapVars

-------------------------------------------------------------------------------
(***************************************************************************)
(* The invariant that the expect of map_alias speaks of: a name that is    *)
(* known as a reference has a class, so that no lookup panics.             *)
(***************************************************************************)
AliasesResolve == \A n \in DOMAIN alias : IsRef(n) => alias[n] \in DOMAIN rustToJava

(***************************************************************************)
(* What a name means is never changed by what is read after it: it keeps   *)
(* its type, and its type keeps its class.  The documentation of           *)
(* insert_ref_type says so of every type; it does not hold of a built-in   *)
(* type that is mapped again under its own path.                           *)
(***************************************************************************)
MeaningKept ==
    \A n \in DOMAIN alias :
        /\ n \in DOMAIN alias' /\ alias'[n] = alias[n]
        /\ IsRef(n) /\ alias[n].path \notin DOMAIN ClassOfPath
               => rustToJava'[alias[n]] = rustToJava[alias[n]]

MappingsKept == [][MeaningKept]_mapVars
===============================================================================
