----------------------------- MODULE BindingProofs -----------------------------
(***************************************************************************)
(* What is proved of the bindings: of the macros that read them            *)
(* (BindJavaType, NativeMethod) or name its native methods (Mangling), of  *)
(* the lookup and the caching of their classes and IDs (ClassLookup), and  *)
(* of the calls into the JVM (Calls).                                      *)
(***************************************************************************)
EXTENDS NativeMethod, Mangling, ClassLookup, Calls, SequenceTheorems, TLAPS

-------------------------------------------------------------------------------
(* bind_java_type! *)

BuiltinPath(p) == p \in DOMAIN ClassOfPath

(* Every name stands for a reference that has a class, or for a primitive type. *)
AliasInv ==
    \A n \in DOMAIN alias :
        \/ alias[n].kind = "prim"
        \/ alias[n] = Ref(alias[n].path) /\ alias[n] \in DOMAIN rustToJava

(* A type with a class is built in, or the name that is its path stands for it: that name can
   not be mapped again. *)
TypeInv ==
    \A t \in DOMAIN rustToJava :
        /\ t = Ref(t.path)
        /\ BuiltinPath(t.path) \/ (t.path \in DOMAIN alias /\ alias[t.path] = t)

(* The type of a class has that class, but a built-in type that was mapped again. *)
ClassInv ==
    \A c \in DOMAIN javaToRust :
        LET t == javaToRust[c] IN
        /\ t \in DOMAIN rustToJava
        /\ rustToJava[t] = c \/ BuiltinPath(t.path)
        /\ BuiltinPath(t.path) => c = ClassOfPath[t.path] \/ rustToJava[t] # ClassOfPath[t.path]

(* A built-in type is mapped again at most once, since its path is a name from then on. *)
BuiltinInv ==
    \A p \in DOMAIN ClassOfPath :
        /\ Ref(p) \in DOMAIN rustToJava
        /\ rustToJava[Ref(p)] # ClassOfPath[p] => p \in DOMAIN alias

MapInv == AliasInv /\ TypeInv /\ ClassInv /\ BuiltinInv

LEMMA RefFacts ==
    ASSUME NEW p, NEW q
    PROVE  /\ Ref(p).path = p /\ Ref(p).kind = "ref"
           /\ Ref(p) = Ref(q) => p = q
  BY DEF Ref

LEMMA PrimFacts == \A a, b : Prim(a, b).kind = "prim" /\ Prim(a, b).prim = a
  BY DEF Prim

(* The built-in types satisfy the invariant. *)
LEMMA MapInit == InitMap => MapInv
<1> SUFFICES ASSUME InitMap PROVE MapInv
  OBVIOUS
<1> USE BuiltinsAssumption
<1>0. /\ DOMAIN alias = DOMAIN PathOf \union DOMAIN BuiltinPrims
      /\ DOMAIN rustToJava = {Ref(p) : p \in DOMAIN ClassOfPath}
      /\ DOMAIN javaToRust = {ClassOfPath[p] : p \in DOMAIN ClassOfPath}
  BY DEF InitMap
<1>1. AliasInv
  <2> SUFFICES ASSUME NEW n \in DOMAIN alias
               PROVE  \/ alias[n].kind = "prim"
                      \/ alias[n] = Ref(alias[n].path) /\ alias[n] \in DOMAIN rustToJava
    BY DEF AliasInv
  <2>1. CASE n \in DOMAIN PathOf
    <3>1. alias[n] = Ref(PathOf[n]) /\ PathOf[n] \in DOMAIN ClassOfPath
      BY <2>1 DEF InitMap
    <3> QED BY <3>1, <1>0, RefFacts
  <2>2. CASE n \notin DOMAIN PathOf
    <3>1. alias[n] = BuiltinPrim(n)
      BY <2>2, <1>0 DEF InitMap
    <3> QED BY <3>1, PrimFacts DEF BuiltinPrim
  <2> QED BY <2>1, <2>2
<1>2. \A p \in DOMAIN ClassOfPath : rustToJava[Ref(p)] = ClassOfPath[p]
  BY RefFacts DEF InitMap
<1>3. TypeInv
  BY <1>0, RefFacts DEF TypeInv, BuiltinPath
<1>4. ClassInv
  <2> SUFFICES ASSUME NEW c \in DOMAIN javaToRust
               PROVE  LET t == javaToRust[c] IN
                      /\ t \in DOMAIN rustToJava
                      /\ rustToJava[t] = c
                      /\ BuiltinPath(t.path) => c = ClassOfPath[t.path]
    BY DEF ClassInv
  <2> DEFINE p == CHOOSE q \in DOMAIN ClassOfPath : ClassOfPath[q] = c
  <2>1. p \in DOMAIN ClassOfPath /\ ClassOfPath[p] = c
    BY <1>0
  <2>2. javaToRust[c] = Ref(p)
    BY <1>0 DEF InitMap
  <2> HIDE DEF p
  <2>3. Ref(p) \in DOMAIN rustToJava /\ rustToJava[Ref(p)] = c
    BY <1>0, <1>2, <2>1
  <2>4. Ref(p).path = p
    BY RefFacts
  <2> QED BY <2>1, <2>2, <2>3, <2>4
<1>5. BuiltinInv
  BY <1>0, <1>2 DEF BuiltinInv
<1> QED BY <1>1, <1>3, <1>4, <1>5 DEF MapInv

-------------------------------------------------------------------------------
(* A new name for a reference; its type is new as well, or built in. *)
LEMMA InsertRefKeeps ==
    ASSUME MapInv, NEW n, NEW javaClass, InsertRef(n, javaClass)
    PROVE  MapInv' /\ MeaningKept
<1>1. CASE Known(n)
  <2> UNCHANGED mapVars
    BY <1>1 DEF InsertRef
  <2> QED BY DEF MapInv, AliasInv, TypeInv, ClassInv, BuiltinInv, mapVars, MeaningKept, IsRef, Known
<1>2. CASE ~Known(n)
  <2>1. /\ alias' = With(alias, n, Ref(n))
        /\ rustToJava' = With(rustToJava, Ref(n), javaClass)
        /\ javaToRust' = With(javaToRust, javaClass, Ref(n))
        /\ n \notin DOMAIN alias
    BY <1>2 DEF InsertRef, Known
  <2>2. /\ DOMAIN alias' = DOMAIN alias \union {n}
        /\ alias'[n] = Ref(n)
        /\ \A m \in DOMAIN alias : alias'[m] = alias[m]
    BY <2>1 DEF With
  <2>3. /\ DOMAIN rustToJava' = DOMAIN rustToJava \union {Ref(n)}
        /\ rustToJava'[Ref(n)] = javaClass
        /\ \A t \in DOMAIN rustToJava : t # Ref(n) => rustToJava'[t] = rustToJava[t]
    BY <2>1 DEF With
  <2>4. /\ DOMAIN javaToRust' = DOMAIN javaToRust \union {javaClass}
        /\ javaToRust'[javaClass] = Ref(n)
        /\ \A c \in DOMAIN javaToRust : c # javaClass => javaToRust'[c] = javaToRust[c]
    BY <2>1 DEF With
  <2>5. Ref(n) \in DOMAIN rustToJava => BuiltinPath(n) /\ rustToJava[Ref(n)] = ClassOfPath[n]
    BY <2>1, RefFacts DEF MapInv, TypeInv, BuiltinInv, BuiltinPath
  <2>6. AliasInv'
    BY <2>2, <2>3, RefFacts DEF MapInv, AliasInv
  <2>7. TypeInv'
    <3> SUFFICES ASSUME NEW t \in DOMAIN rustToJava'
                 PROVE  /\ t = Ref(t.path)
                        /\ BuiltinPath(t.path) \/ (t.path \in DOMAIN alias' /\ alias'[t.path] = t)
      BY DEF TypeInv, BuiltinPath
    <3>1. CASE t = Ref(n)
      BY <3>1, <2>2, RefFacts
    <3>2. CASE t \in DOMAIN rustToJava
      BY <3>2, <2>2 DEF MapInv, TypeInv
    <3> QED BY <3>1, <3>2, <2>3
  <2>8. ClassInv'
    <3> SUFFICES ASSUME NEW c \in DOMAIN javaToRust'
                 PROVE  LET t == javaToRust'[c] IN
                        /\ t \in DOMAIN rustToJava'
                        /\ rustToJava'[t] = c \/ BuiltinPath(t.path)
                        /\ BuiltinPath(t.path) =>
                              c = ClassOfPath[t.path] \/ rustToJava'[t] # ClassOfPath[t.path]
      BY DEF ClassInv, BuiltinPath
    <3>1. CASE c = javaClass
      BY <3>1, <2>3, <2>4, RefFacts
    <3>2. CASE c # javaClass
      <4> DEFINE t == javaToRust[c]
      <4>1. c \in DOMAIN javaToRust /\ javaToRust'[c] = t
        BY <3>2, <2>4
      <4>2. /\ t \in DOMAIN rustToJava
            /\ rustToJava[t] = c \/ BuiltinPath(t.path)
            /\ BuiltinPath(t.path) => c = ClassOfPath[t.path] \/ rustToJava[t] # ClassOfPath[t.path]
        BY <4>1 DEF MapInv, ClassInv
      <4> HIDE DEF t
      <4>3. CASE t # Ref(n)
        BY <4>1, <4>2, <4>3, <2>3
      <4>4. CASE t = Ref(n)
        <5>1. t.path = n
          BY <4>4, RefFacts
        <5>2. BuiltinPath(n) /\ rustToJava[t] = ClassOfPath[n]
          BY <2>5, <4>2, <4>4
        <5> QED BY <4>1, <4>2, <5>1, <5>2, <2>3
      <4> QED BY <4>3, <4>4
    <3> QED BY <3>1, <3>2
  <2>9. BuiltinInv'
    <3> SUFFICES ASSUME NEW p \in DOMAIN ClassOfPath
                 PROVE  /\ Ref(p) \in DOMAIN rustToJava'
                        /\ rustToJava'[Ref(p)] # ClassOfPath[p] => p \in DOMAIN alias'
      BY DEF BuiltinInv
    <3> QED BY <2>2, <2>3, RefFacts DEF MapInv, BuiltinInv
  <2>10. MeaningKept
    <3> SUFFICES ASSUME NEW m \in DOMAIN alias
                 PROVE  /\ m \in DOMAIN alias' /\ alias'[m] = alias[m]
                        /\ IsRef(m) /\ alias[m].path \notin DOMAIN ClassOfPath
                              => rustToJava'[alias[m]] = rustToJava[alias[m]]
      BY DEF MeaningKept
    <3>1. m \in DOMAIN alias' /\ alias'[m] = alias[m]
      BY <2>2
    <3>2. ASSUME IsRef(m), alias[m].path \notin DOMAIN ClassOfPath
          PROVE  rustToJava'[alias[m]] = rustToJava[alias[m]]
      <4>1. alias[m] \in DOMAIN rustToJava /\ alias[m].kind = "ref"
        BY <3>2 DEF MapInv, AliasInv, IsRef
      <4>2. alias[m] # Ref(n)
        BY <4>1, <3>2, <2>5, RefFacts DEF BuiltinPath
      <4> QED BY <4>1, <4>2, <2>3
    <3> QED BY <3>1, <3>2
  <2> QED BY <2>6, <2>7, <2>8, <2>9, <2>10 DEF MapInv
<1> QED BY <1>1, <1>2

(* A name for a primitive type, or another name for a type *)
LEMMA NewNameKeeps ==
    ASSUME MapInv, UNCHANGED <<rustToJava, javaToRust>>,
           \A m \in DOMAIN alias : m \in DOMAIN alias' /\ alias'[m] = alias[m],
           \A m \in DOMAIN alias' :
               m \in DOMAIN alias \/ alias'[m].kind = "prim" \/ \E k \in DOMAIN alias : alias'[m] = alias[k]
    PROVE  MapInv' /\ MeaningKept
<1>1. AliasInv' /\ TypeInv'
  BY DEF MapInv, AliasInv, TypeInv, BuiltinPath
<1>2. ClassInv' /\ BuiltinInv'
  BY DEF MapInv, ClassInv, BuiltinInv, BuiltinPath
<1>3. MeaningKept
  BY DEF MeaningKept
<1> QED BY <1>1, <1>2, <1>3 DEF MapInv

LEMMA InsertPrimKeeps ==
    ASSUME MapInv, NEW n, NEW prim, InsertPrim(n, prim)
    PROVE  MapInv' /\ MeaningKept
<1>1. CASE Known(n)
  BY <1>1, NewNameKeeps DEF InsertPrim
<1>2. CASE ~Known(n)
  <2>1. alias' = With(alias, n, Prim(alias[prim].prim, n)) /\ n \notin DOMAIN alias
    BY <1>2 DEF InsertPrim, Known
  <2>2. /\ DOMAIN alias' = DOMAIN alias \union {n}
        /\ alias'[n].kind = "prim"
        /\ \A m \in DOMAIN alias : alias'[m] = alias[m]
    BY <2>1, PrimFacts DEF With
  <2>3. UNCHANGED <<rustToJava, javaToRust>>
    BY DEF InsertPrim
  <2> QED BY <2>2, <2>3, NewNameKeeps
<1> QED BY <1>1, <1>2

LEMMA InsertAliasKeeps ==
    ASSUME MapInv, NEW n, NEW to, InsertAlias(n, to)
    PROVE  MapInv' /\ MeaningKept
<1>1. /\ alias' = With(alias, n, alias[to]) /\ UNCHANGED <<rustToJava, javaToRust>>
      /\ to \in DOMAIN alias /\ (n \in DOMAIN alias => alias[n] = alias[to])
  BY DEF InsertAlias, InsertAliasFails, Known
<1>2. /\ DOMAIN alias' = DOMAIN alias \union {n} /\ alias'[n] = alias[to]
      /\ \A m \in DOMAIN alias : m # n => alias'[m] = alias[m]
  BY <1>1 DEF With
<1> QED BY <1>1, <1>2, NewNameKeeps

LEMMA NothingInserted ==
    ASSUME MapInv, UNCHANGED mapVars
    PROVE  MapInv'
  BY DEF MapInv, AliasInv, TypeInv, ClassInv, BuiltinInv, BuiltinPath, mapVars

-------------------------------------------------------------------------------
(* The map alone *)
LEMMA MapStep ==
    ASSUME MapInv, [InsertEntry]_mapVars
    PROVE  MapInv' /\ [MeaningKept]_mapVars
<1>1. CASE UNCHANGED mapVars
  BY <1>1, NothingInserted
<1>2. ASSUME NEW n, NEW javaClass, InsertRef(n, javaClass) PROVE MapInv' /\ MeaningKept
  BY <1>2, InsertRefKeeps
<1>3. ASSUME NEW n, NEW prim, InsertPrim(n, prim) PROVE MapInv' /\ MeaningKept
  BY <1>3, InsertPrimKeeps
<1>4. ASSUME NEW n, NEW to, InsertAlias(n, to) PROVE MapInv' /\ MeaningKept
  BY <1>4, InsertAliasKeeps
<1> QED BY <1>1, <1>2, <1>3, <1>4 DEF InsertEntry

(* A name that is a reference has a class, whatever has been inserted: the
   lookups of map_alias never fail. *)
THEOREM MapResolves == MapSpec => []AliasesResolve
<1>1. MapInv => AliasesResolve
  BY DEF MapInv, AliasInv, AliasesResolve, IsRef
<1> QED BY <1>1, MapInit, MapStep, PTL DEF MapSpec

(* No insertion changes what a name that is known means. *)
THEOREM MapKeepsMeanings == MapSpec => MappingsKept
  BY MapInit, MapStep, PTL DEF MapSpec, MappingsKept

-------------------------------------------------------------------------------
(* An invocation of bind_java_type! *)

DefaultsType ==
    [export : BOOLEAN, policy : {"ThrowRuntimeExAndDefault", "LogErrorAndDefault"},
     catch : BOOLEAN, abi : {"Always", "UnsafeNever"}]

(* A native method that has a visibility stays a method too. *)
NativesInv ==
    \A text \in natives : text \in Texts /\ (text.vis => AsMethod(text) \in members)

(* What has been generated is what the last state of the map and of the defaults asks for. *)
ExpandedInv ==
    outcome = "expanded" =>
        /\ \A text \in members \union natives : HasDescriptor(text)
        /\ code.checked = IF RequiresCheck(defaults.abi) THEN MappingChecks ELSE {}
        /\ code.registered = Registered /\ code.exported = Exports
        /\ code.wrappers = {Wrapper(text) : text \in natives}

BindInv == MapInv /\ defaults \in DefaultsType /\ NativesInv /\ ExpandedInv

LEMMA BindInit == InitBind => BindInv
  BY MapInit DEF InitBind, BindInv, Defaults, DefaultsType, NativesInv, ExpandedInv

LEMMA SelfKeeps ==
    ASSUME MapInv, NEW javaClass, RegisterSelf(javaClass)
    PROVE  MapInv' /\ [MeaningKept]_mapVars
  BY NothingInserted, InsertRefKeeps DEF RegisterSelf

(* What a step of the macro does to the map: nothing, or one insertion. *)
LEMMA BindMapStep ==
    ASSUME MapInv, [BindNext]_bindVars
    PROVE  MapInv' /\ [MeaningKept]_mapVars
<1> DEFINE Kept == MapInv' /\ [MeaningKept]_mapVars
<1>0. UNCHANGED mapVars => Kept
  BY NothingInserted
<1>1. ASSUME NEW vis, RustType(vis) PROVE Kept
  BY <1>0, <1>1, SelfKeeps DEF RustType, Fails
<1>2. ASSUME NEW javaClass, JavaType(javaClass) PROVE Kept
  BY <1>0, <1>2, SelfKeeps DEF JavaType, Fails
<1>3. ASSUME NEW vis, NEW javaClass, Shorthand(vis, javaClass) PROVE Kept
  BY <1>0, <1>3, SelfKeeps DEF Shorthand, Fails
<1>4. ASSUME NEW n, NEW javaClass, TypeMapRef(n, javaClass) PROVE Kept
  BY <1>0, <1>4, InsertRefKeeps DEF TypeMapRef, Fails
<1>5. ASSUME NEW n, NEW prim, TypeMapPrim(n, prim) PROVE Kept
  BY <1>0, <1>5, InsertPrimKeeps DEF TypeMapPrim, Fails
<1>6. ASSUME NEW n, NEW to, TypeMapAlias(n, to) PROVE Kept
  BY <1>0, <1>6, InsertAliasKeeps DEF TypeMapAlias, Fails
<1>7. ASSUME NEW vis, RustTypeVis(vis) PROVE Kept
  BY <1>0, <1>7 DEF RustTypeVis, Fails
<1>8. ASSUME NEW text, Member(text) PROVE Kept
  BY <1>0, <1>8 DEF Member, Fails
<1>9. ASSUME NEW n, InstanceOf(n) PROVE Kept
  BY <1>0, <1>9 DEF InstanceOf, Fails
<1>10. ASSUME NEW new, Setting(new) PROVE Kept
  BY <1>0, <1>10 DEF Setting
<1>11. UnknownProperty \/ EndOfInput \/ Expand => Kept
  BY <1>0 DEF UnknownProperty, EndOfInput, Expand, Fails
<1>12. UNCHANGED bindVars => Kept
  BY <1>0 DEF bindVars
<1> HIDE DEF Kept
<1>13. Kept
  BY <1>1, <1>2, <1>3, <1>4, <1>5, <1>6, <1>7, <1>8, <1>9, <1>10, <1>11, <1>12 DEF BindNext
<1> QED BY <1>13 DEF Kept

(* Nothing is read or generated once the code is there. *)
LEMMA Stays ==
    ASSUME BindNext
    PROVE  outcome \in {"reading", "read"}
  BY DEF BindNext, RustType, JavaType, Shorthand, RustTypeVis, TypeMapRef, TypeMapPrim,
     TypeMapAlias, Member, InstanceOf, Setting, UnknownProperty, EndOfInput, Expand, Read

(* Only Expand makes the outcome "expanded". *)
LEMMA OnlyExpand ==
    ASSUME BindNext, outcome' = "expanded"
    PROVE  Expand
  BY DEF BindNext, RustType, JavaType, Shorthand, RustTypeVis, TypeMapRef, TypeMapPrim,
     TypeMapAlias, Member, InstanceOf, Setting, UnknownProperty, EndOfInput, Read, Fails

LEMMA DefaultsStep ==
    ASSUME defaults \in DefaultsType, BindNext
    PROVE  defaults' \in DefaultsType
<1>1. ASSUME NEW new \in DefaultsType, Setting(new) PROVE defaults' \in DefaultsType
  BY <1>1 DEF Setting
<1>2. ASSUME NEW b \in BOOLEAN
      PROVE  /\ [defaults EXCEPT !.export = b] \in DefaultsType
             /\ [defaults EXCEPT !.catch = b] \in DefaultsType
  BY DEF DefaultsType
<1>3. /\ [defaults EXCEPT !.policy = "LogErrorAndDefault"] \in DefaultsType
      /\ [defaults EXCEPT !.abi = "UnsafeNever"] \in DefaultsType
  BY DEF DefaultsType
<1>4. CASE UNCHANGED defaults
  BY <1>4
<1> QED BY <1>1, <1>2, <1>3, <1>4 DEF BindNext, RustType, JavaType, Shorthand, RustTypeVis, TypeMapRef,
     TypeMapPrim, TypeMapAlias, Member, InstanceOf, UnknownProperty, EndOfInput, Expand,
     Fails, inputVars

LEMMA NativesStep ==
    ASSUME NativesInv, BindNext
    PROVE  NativesInv'
<1>1. ASSUME NEW text \in Texts, Member(text) PROVE NativesInv'
  <2>1. CASE Refused(text)
    BY <1>1, <2>1 DEF Member, Fails, inputVars, NativesInv
  <2>2. CASE ~Refused(text)
    <3>1. /\ natives' = IF text.kind = "native" THEN natives \union {text} ELSE natives
          /\ text.kind = "native" /\ text.vis => AsMethod(text) \in members'
      BY <1>1, <2>2 DEF Member
    <3>2. ASSUME NEW m \in members, m.kind = "method" PROVE m \in members'
      BY <1>1, <2>2, <3>2 DEF Member
    <3>3. \A other : AsMethod(other).kind = "method"
      BY DEF AsMethod, PlainText
    <3> QED BY <3>1, <3>2, <3>3 DEF NativesInv
  <2> QED BY <2>1, <2>2
<1>2. UNCHANGED <<natives, members>> => NativesInv'
  BY DEF NativesInv
<1> QED BY <1>1, <1>2 DEF BindNext, RustType, JavaType, Shorthand, RustTypeVis, TypeMapRef,
     TypeMapPrim, TypeMapAlias, InstanceOf, Setting, UnknownProperty, EndOfInput, Expand,
     Fails, inputVars

LEMMA ExpandedStep ==
    ASSUME BindNext
    PROVE  ExpandedInv'
<1> SUFFICES ASSUME outcome' = "expanded" PROVE ExpandedInv'
  BY DEF ExpandedInv
<1>1. Expand
  BY OnlyExpand
<1>2. /\ ~IdsFail /\ ~NativeUnknown
      /\ code' = [checked |-> IF RequiresCheck(defaults.abi) THEN MappingChecks ELSE {},
                  registered |-> Registered, exported |-> Exports,
                  wrappers |-> {Wrapper(text) : text \in natives}]
      /\ UNCHANGED <<mapVars, inputVars>>
  BY <1>1 DEF Expand
<1>3. \A text \in members \union natives : HasDescriptor(text)
  BY <1>2 DEF IdsFail, NativeUnknown
<1> QED BY <1>2, <1>3 DEF ExpandedInv, HasDescriptor, Known, MappingChecks, Registered, DescriptorOf,
     IsRef, ClassOf, Exports, ExportName, ShouldExport, Exported, Wrapper, IsBuiltin, mapVars, inputVars

LEMMA BindStep ==
    ASSUME BindInv, [BindNext]_bindVars
    PROVE  BindInv'
<1>1. CASE BindNext
  BY <1>1, BindMapStep, DefaultsStep, NativesStep, ExpandedStep DEF BindInv
<1>2. CASE UNCHANGED bindVars
  <2>1. MapInv'
    BY BindMapStep DEF BindInv
  <2>2. (defaults \in DefaultsType)' /\ NativesInv'
    BY <1>2 DEF BindInv, NativesInv, bindVars, inputVars
  <2>3. ExpandedInv'
    BY <1>2 DEF BindInv, bindVars, ExpandedInv, HasDescriptor, Known, MappingChecks, Registered,
       DescriptorOf, IsRef, ClassOf, Exports, ExportName, ShouldExport, Exported, Wrapper, IsBuiltin,
       mapVars, inputVars
  <2> QED BY <2>1, <2>2, <2>3 DEF BindInv
<1> QED BY <1>1, <1>2

LEMMA BindInvariant == BindSpec => []BindInv
  BY BindInit, BindStep, PTL DEF BindSpec

(* What is read later never changes what a name that is known means: its type
   stays, and the class of that type. *)
THEOREM MeaningsAreKept == BindSpec => MappingsKept
<1>1. BindInv /\ [BindNext]_bindVars => [MeaningKept]_mapVars
  BY BindMapStep DEF BindInv
<1> QED BY <1>1, BindInvariant, PTL DEF BindSpec, MappingsKept

(* The class in a signature is the class of the Rust type that stands for it. *)
THEOREM SignaturesAgree == BindSpec => []TypesAgree
<1>1. ASSUME BindInv PROVE TypesAgree
  <2> SUFFICES ASSUME outcome = "expanded", RequiresCheck(defaults.abi),
                      NEW text \in members \union natives
               PROVE  LET type == RustTypeOf(text)
                          javaClass == DescriptorOf(text) IN
                      \/ type.kind = "prim" \/ type = JObject
                      \/ type \in code.checked /\ rustToJava[type] = javaClass
                      \/ IsBuiltin(type) /\ javaClass = ClassOfPath[type.path]
                      \/ IsBuiltin(type) /\ rustToJava[type] # ClassOfPath[type.path]
    BY DEF TypesAgree
  <2> DEFINE type == RustTypeOf(text)
             javaClass == DescriptorOf(text)
  <2>1. code.checked = MappingChecks /\ HasDescriptor(text)
    BY <1>1 DEF BindInv, ExpandedInv
  <2>2. type \in DOMAIN rustToJava => type \in code.checked \/ IsBuiltin(type)
    BY <2>1 DEF MappingChecks
  <2>3. type.kind = "ref" /\ IsBuiltin(type) <=> type.kind = "ref" /\ BuiltinPath(type.path)
    BY DEF IsBuiltin, BuiltinPath, BuiltinPrim, Prim
  <2>4. CASE text.type \in JavaClasses
    <3>1. javaClass = text.type
      BY <2>4 DEF DescriptorOf
    <3>2. CASE text.type \notin DOMAIN javaToRust
      BY <2>4, <3>2 DEF RustTypeOf
    <3>3. CASE text.type \in DOMAIN javaToRust
      <4>1. type = javaToRust[text.type]
        BY <2>4, <3>3 DEF RustTypeOf
      <4>2. /\ type \in DOMAIN rustToJava /\ type.kind = "ref"
            /\ rustToJava[type] = javaClass \/ BuiltinPath(type.path)
            /\ BuiltinPath(type.path) =>
                  javaClass = ClassOfPath[type.path] \/ rustToJava[type] # ClassOfPath[type.path]
        BY <1>1, <3>1, <3>3, <4>1, RefFacts DEF BindInv, MapInv, TypeInv, ClassInv
      <4> HIDE DEF type, javaClass
      <4>3. \/ type \in code.checked /\ rustToJava[type] = javaClass
            \/ IsBuiltin(type) /\ javaClass = ClassOfPath[type.path]
            \/ IsBuiltin(type) /\ rustToJava[type] # ClassOfPath[type.path]
        BY <2>2, <2>3, <4>2
      <4> QED BY <4>3 DEF type, javaClass
    <3> QED BY <3>2, <3>3
  <2>5. CASE text.type \notin JavaClasses
    <3>1. type = alias[text.type] /\ text.type \in DOMAIN alias
      BY <2>1, <2>5 DEF HasDescriptor, Known, RustTypeOf
    <3>2. type.kind = "prim" \/ (type = Ref(type.path) /\ type \in DOMAIN rustToJava)
      BY <1>1, <3>1 DEF BindInv, MapInv, AliasInv
    <3>3. type.kind = "ref" => javaClass = rustToJava[type]
      BY <2>5, <3>1 DEF DescriptorOf, IsRef, Known, ClassOf
    <3> HIDE DEF type, javaClass
    <3>4. type.kind # "prim" =>
             \/ type \in code.checked /\ rustToJava[type] = javaClass
             \/ IsBuiltin(type) /\ javaClass = ClassOfPath[type.path]
             \/ IsBuiltin(type) /\ rustToJava[type] # ClassOfPath[type.path]
      BY <2>2, <3>2, <3>3, RefFacts
    <3> QED BY <3>4 DEF type, javaClass
  <2> QED BY <2>4, <2>5
<1> QED BY <1>1, BindInvariant, PTL

(* Every native method is registered, exported if it or the default says so,
   wrapped, and callable if it is visible. *)
THEOREM NativesAreBound == BindSpec => []NativesBound
<1>1. ASSUME BindInv PROVE NativesBound
  <2> SUFFICES ASSUME outcome = "expanded", NEW text \in natives
               PROVE  /\ \E r \in code.registered : r.of = text
                      /\ (\E e \in code.exported : e.of = text) <=>
                             \/ text.extern \/ text.export \in {"auto", "name"}
                             \/ text.export = "unset" /\ defaults.export
                      /\ \E w \in code.wrappers :
                             /\ w.of = text
                             /\ w.env # "unowned" => w.policy # "unset"
                             /\ w.env = "with_env_no_catch" => text.catch = "no" \/ ~defaults.catch
                      /\ text.vis => \E m \in members :
                             /\ m.kind = "method" /\ m.type = text.type
                             /\ m.static = text.static /\ m.nonNull = text.nonNull
    BY DEF NativesBound
  <2> USE TextsAssumption
  <2>0. /\ code.registered = Registered /\ code.exported = Exports
        /\ code.wrappers = {Wrapper(x) : x \in natives}
        /\ defaults \in DefaultsType
        /\ text \in Texts /\ (text.vis => AsMethod(text) \in members)
    BY <1>1 DEF BindInv, ExpandedInv, NativesInv
  <2>1. \E r \in code.registered : r.of = text
    <3> DEFINE r == [of |-> text, descriptor |-> DescriptorOf(text)]
    <3>1. r \in code.registered /\ r.of = text
      BY <2>0 DEF Registered
    <3> QED BY <3>1
  <2>2. (\E e \in code.exported : e.of = text) <=> ShouldExport(text)
    <3> DEFINE e(x) == [of |-> x, name |-> ExportName(x)]
    <3>1. code.exported = {e(x) : x \in {y \in natives : ShouldExport(y)}}
      BY <2>0 DEF Exports
    <3>2. \A x : e(x).of = x
      OBVIOUS
    <3> HIDE DEF e
    <3> QED BY <3>1, <3>2
  <2>3. ShouldExport(text) <=> \/ text.extern \/ text.export \in {"auto", "name"}
                               \/ text.export = "unset" /\ defaults.export
    BY <2>0 DEF ShouldExport, Exported
  <2>4. /\ Wrapper(text).of = text
        /\ Wrapper(text).env # "unowned" => Wrapper(text).policy # "unset"
        /\ Wrapper(text).env = "with_env_no_catch" => text.catch = "no" \/ ~defaults.catch
    BY <2>0 DEF Wrapper, DefaultsType
  <2>5. Wrapper(text) \in code.wrappers
    BY <2>0
  <2>6. /\ AsMethod(text).kind = "method" /\ AsMethod(text).type = text.type
        /\ AsMethod(text).static = text.static /\ AsMethod(text).nonNull = text.nonNull
    BY DEF AsMethod, PlainText
  <2> QED BY <2>0, <2>1, <2>2, <2>3, <2>4, <2>5, <2>6
<1> QED BY <1>1, BindInvariant, PTL

-------------------------------------------------------------------------------
(* An invocation of native_method! *)

NativeInv == DOMAIN given = DOMAIN Unset /\ PropertiesWin

LEMMA UnsetFacts ==
    /\ {"rustType", "name", "fn"} \subseteq DOMAIN Unset
    /\ \A property \in {"rustType", "name", "fn"} : Unset[property] = "unset"
  BY DEF Unset

LEMMA NativeInit == InitNative => NativeInv
  BY UnsetFacts DEF InitNative, NativeInv, PropertiesWin

(* A property is written where it is read. *)
LEMMA PropertyWins ==
    ASSUME NativeInv, NEW property \in DOMAIN Unset, NativeProperty(property)
    PROVE  NativeInv'
<1> PICK v \in Value(property) : given' = [given EXCEPT ![property] = v]
  BY DEF NativeProperty
<1>1. written' = written \union {property}
  BY DEF NativeProperty
<1>2. DOMAIN given' = DOMAIN given
  OBVIOUS
<1>3. property \in {"rustType", "name", "fn"} => v = "property"
  BY DEF Value
<1>4. PropertiesWin'
  <2> SUFFICES ASSUME NEW other \in {"rustType", "name", "fn"}
               PROVE  other \in written' <=> given'[other] = "property"
    BY DEF PropertiesWin
  <2>1. CASE other = property
    BY <1>1, <1>3, <2>1, UnsetFacts DEF NativeInv
  <2>2. CASE other # property
    BY <1>1, <2>2, UnsetFacts DEF NativeInv, PropertiesWin
  <2> QED BY <2>1, <2>2
<1> QED BY <1>2, <1>4 DEF NativeInv

(* What the inline signature says of a name takes no property's place. *)
LEMMA InlineGivesWay ==
    ASSUME NativeInv, InlineSignature
    PROVE  NativeInv'
<1> PICK static, raw, extern, hasPath \in BOOLEAN, n \in Names :
         given' = InlineDefaults(
             [given EXCEPT !.type = n,
                           !.static = @ \/ static,
                           !.raw = @ \/ raw,
                           !.export = IF extern /\ @ = "no" THEN "auto" ELSE @], hasPath)
  BY DEF InlineSignature
<1> DEFINE new == [given EXCEPT !.type = n,
                           !.static = @ \/ static,
                           !.raw = @ \/ raw,
                           !.export = IF extern /\ @ = "no" THEN "auto" ELSE @]
<1>1. /\ DOMAIN new = DOMAIN given
      /\ \A other \in {"rustType", "name", "fn"} : new[other] = given[other]
  OBVIOUS
<1>2. given' = InlineDefaults(new, hasPath)
  OBVIOUS
<1> HIDE DEF new
<1>3. /\ DOMAIN given' = DOMAIN new
      /\ \A other \in {"rustType", "name", "fn"} :
             given'[other] = new[other] \/ (new[other] = "unset" /\ given'[other] = "inline")
  BY <1>1, <1>2, UnsetFacts DEF InlineDefaults, NativeInv
<1>4. \A other \in {"rustType", "name", "fn"} : other \in written' <=> other \in written
  BY DEF InlineSignature
<1>5. PropertiesWin'
  BY <1>1, <1>3, <1>4 DEF NativeInv, PropertiesWin
<1> QED BY <1>1, <1>3, <1>5 DEF NativeInv

LEMMA NativeStep ==
    ASSUME NativeInv, [NativeNext]_<<bindVars, nativeVars>>
    PROVE  NativeInv'
<1>1. UNCHANGED nativeVars => NativeInv'
  BY DEF nativeVars, NativeInv, PropertiesWin
<1>2. NativeTypeMap \/ NativeUnknownProperty \/ NativeEnd \/ NativeExpand => UNCHANGED nativeVars
  BY DEF NativeTypeMap, NativeUnknownProperty, NativeEnd, NativeExpand, NativeFails, nativeVars
<1> QED BY <1>1, <1>2, PropertyWins, InlineGivesWay DEF NativeNext

(* Whatever the order of the properties and of the inline signature, what a
   property names is what it says. *)
THEOREM PropertiesAlwaysWin == NativeSpec => []PropertiesWin
<1>1. InitBind /\ InitNative => NativeInv
  BY NativeInit
<1>2. NativeInv /\ [NativeNext /\ UNCHANGED <<inputVars, code>>]_<<bindVars, nativeVars>> => NativeInv'
  BY NativeStep
<1>3. NativeInv => PropertiesWin
  BY DEF NativeInv
<1> QED BY <1>1, <1>2, <1>3, PTL DEF NativeSpec

(* The type map of native_method! *)
LEMMA NativeMapStep ==
    ASSUME MapInv, [NativeNext]_<<bindVars, nativeVars>>
    PROVE  MapInv' /\ [MeaningKept]_mapVars
<1> DEFINE Kept == MapInv' /\ [MeaningKept]_mapVars
<1>0. UNCHANGED mapVars => Kept
  BY NothingInserted
<1>1. ASSUME NEW n, NEW javaClass, InsertRef(n, javaClass) PROVE Kept
  BY <1>1, InsertRefKeeps
<1>2. ASSUME NEW n, NEW prim, InsertPrim(n, prim) PROVE Kept
  BY <1>2, InsertPrimKeeps
<1>8. ASSUME NEW n, NEW to, InsertAlias(n, to) PROVE Kept
  BY <1>8, InsertAliasKeeps
<1> HIDE DEF Kept
<1>3. NativeTypeMap => UNCHANGED mapVars \/ Kept
  BY <1>1, <1>2, <1>8 DEF NativeTypeMap, NativeFails
<1>4. ASSUME NEW property, NativeProperty(property) PROVE UNCHANGED mapVars
  BY <1>4 DEF NativeProperty
<1>5. InlineSignature \/ NativeUnknownProperty \/ NativeEnd \/ NativeExpand => UNCHANGED mapVars
  BY DEF InlineSignature, NativeUnknownProperty, NativeEnd, NativeExpand, NativeFails
<1>6. UNCHANGED <<bindVars, nativeVars>> => UNCHANGED mapVars
  BY DEF bindVars
<1>7. UNCHANGED mapVars \/ Kept
  BY <1>3, <1>4, <1>5, <1>6 DEF NativeNext
<1> QED BY <1>0, <1>7 DEF Kept

(* native_method! changes the meaning of no name either. *)
THEOREM NativeMeaningsAreKept == NativeSpec => MappingsKept
<1>1. InitBind => MapInv
  BY MapInit DEF InitBind
<1>2. MapInv /\ [NativeNext /\ UNCHANGED <<inputVars, code>>]_<<bindVars, nativeVars>>
         => MapInv' /\ [MeaningKept]_mapVars
  BY NativeMapStep
<1> QED BY <1>1, <1>2, PTL DEF NativeSpec, MappingsKept

-------------------------------------------------------------------------------
(* Class lookup *)

(* A call that has a class works with the one in CLASS. *)
ClassOfFrame(f) ==
    /\ f.pc \in {"set", "register", "ids", "publish", "clinit", "native"} => f.class \in Classes
    /\ f.pc \in {"register", "ids", "publish"} => f.class = classCell[f.type]
    /\ f.pc \in {"ids", "publish", "clinit", "native"} => f.class \in registered

(* Where a search has come to: what a loader has answered that was asked before, and the
   exception that is being matched *)
Passed(loader, f) == finds[loader][f.type] = NotFound
SearchOfFrame(t, f) ==
    /\ f.pc = "given" => f.via = "loader"
    /\ f.pc \in Stages \ {"given"} => f.via # "loader"
    /\ f.pc \in {"candidate_loader", "candidate"} => f.via = "object"
    /\ f.pc \in {"context", "candidate"} => t \notin Throwing
    /\ f.pc \in {"context_loader", "candidate_loader"} /\ f.thrown # NoThrow => t \in Throwing
    /\ f.pc \in {"candidate_loader", "candidate", "vm"} =>
          t \in Throwing \/ Passed(ContextLoader[t], f)
    /\ f.pc = "vm" /\ f.via = "object" => t \in Throwing \/ Passed(OtherLoader, f)
    /\ f.pc = "context" /\ f.thrown # NoThrow => f.thrown = finds[ContextLoader[t]][f.type]
    /\ f.pc = "candidate" /\ f.thrown # NoThrow => f.thrown = finds[OtherLoader][f.type]
    /\ f.pc = "set" => f.class = FirstAnswer(f.type, Order(t, f.via))

FrameInv(t, f) == ClassOfFrame(f) /\ SearchOfFrame(t, f)
FramesInv == \A t \in Threads : \A i \in 1..Len(stack[t]) : FrameInv(t, stack[t][i])

(* Java code may have used other classes before. *)
EarlyClasses == {finds[l][y] : l \in Loaders, y \in Types \ CallsBack} \intersect Classes
InitialiserInv ==
    /\ \A c \in Classes : initialiser[c] # Nobody => c \in registered
    /\ initialised \subseteq registered \union EarlyClasses

LookupInv == LookupTypeOK /\ FramesInv /\ BindingsAgree /\ InitialiserInv

-------------------------------------------------------------------------------
(* Stacks of calls *)

LEMMA BelowFacts ==
    ASSUME NEW S, NEW s \in Seq(S), s # <<>>
    PROVE  /\ Len(s) \in Nat \ {0} /\ Front(s) \in Seq(S) /\ Len(Front(s)) = Len(s) - 1
           /\ s[Len(s)] \in S
           /\ \A i \in 1..(Len(s) - 1) : Front(s)[i] = s[i]
<1>1. Len(s) \in Nat \ {0} /\ s[Len(s)] \in S
  OBVIOUS
<1>2. PICK n \in Nat : n = Len(s) - 1
  BY <1>1
<1>3. \A i \in 1..n : s[i] \in S
  BY <1>1, <1>2
<1>4. /\ SubSeq(s, 1, n) \in Seq(S)
      /\ Len(SubSeq(s, 1, n)) = IF 1 <= n THEN n - 1 + 1 ELSE 0
      /\ \A i \in 1..(n - 1 + 1) : SubSeq(s, 1, n)[i] = s[1 + i - 1]
  BY <1>3, SubSeqProperties
<1>5. /\ Len(SubSeq(s, 1, n)) = n
      /\ \A i \in 1..n : SubSeq(s, 1, n)[i] = s[i]
  BY <1>4
<1>6. Front(s) = SubSeq(s, 1, n)
  BY <1>2 DEF Front
<1> QED BY <1>1, <1>2, <1>4, <1>5, <1>6

LEMMA OneMoreFacts ==
    ASSUME NEW S, NEW s \in Seq(S), NEW x \in S
    PROVE  /\ Append(s, x) \in Seq(S) /\ Len(s) \in Nat /\ Len(Append(s, x)) = Len(s) + 1
           /\ Append(s, x)[Len(s) + 1] = x
           /\ \A i \in 1..Len(s) : Append(s, x)[i] = s[i]
  OBVIOUS

StackOK == stack \in [Threads -> Seq(Frame)] /\ failed \in [Threads -> BOOLEAN]

(* What is known of a call stays known: a cell is written once, and a class that is
   registered stays registered. *)
Grows ==
    /\ UNCHANGED finds
    /\ \A y \in Types : classCell[y] # NoClass => classCell'[y] = classCell[y]
    /\ registered \subseteq registered'

LEMMA FrameKept ==
    ASSUME Grows, NEW t, NEW f \in Frame, FrameInv(t, f)
    PROVE  FrameInv(t, f)'
<1>1. ClassOfFrame(f)'
  BY NamesAssumption DEF Grows, FrameInv, ClassOfFrame, Frame
<1>2. finds' = finds
  BY DEF Grows
<1>3. \A type, order : FirstAnswer(type, order)' = FirstAnswer(type, order)
  BY <1>2 DEF FirstAnswer
<1>4. SearchOfFrame(t, f)'
  BY <1>2, <1>3 DEF FrameInv, SearchOfFrame, Passed
<1> QED BY <1>1, <1>4 DEF FrameInv

LEMMA TopFacts ==
    ASSUME StackOK, FramesInv, NEW t \in Threads, stack[t] # <<>>
    PROVE  Top(t) \in Frame /\ FrameInv(t, Top(t))
<1>1. Len(stack[t]) \in 1..Len(stack[t]) /\ Top(t) \in Frame
  BY BelowFacts DEF StackOK, Top
<1> QED BY <1>1 DEF FramesInv, Top

(* The stack of one thread changes; each call on it was there, or satisfies the invariant. *)
LEMMA FramesKept ==
    ASSUME StackOK, FramesInv, Grows, NEW t \in Threads, NEW s \in Seq(Frame),
           stack' = [stack EXCEPT ![t] = s],
           \A i \in 1..Len(s) :
               (\E j \in 1..Len(stack[t]) : s[i] = stack[t][j]) \/ FrameInv(t, s[i])'
    PROVE  stack' \in [Threads -> Seq(Frame)] /\ FramesInv'
<1>1. stack' \in [Threads -> Seq(Frame)]
  BY DEF StackOK
<1>2. stack'[t] = s /\ \A u \in Threads \ {t} : stack'[u] = stack[u]
  BY DEF StackOK
<1>3. ASSUME NEW u \in Threads, NEW i \in 1..Len(stack[u]), NEW f, f = stack[u][i]
      PROVE  FrameInv(u, f)'
  <2>1. f \in Frame /\ FrameInv(u, f)
    BY <1>3 DEF StackOK, FramesInv
  <2> QED BY <2>1, FrameKept
<1>4. ASSUME NEW u \in Threads, NEW i \in 1..Len(stack'[u]), NEW f, f = stack'[u][i]
      PROVE  FrameInv(u, f)'
  <2>1. CASE u = t
    <3>1. i \in 1..Len(s) /\ f = s[i]
      BY <1>2, <1>4, <2>1
    <3> QED BY <1>3, <2>1, <3>1
  <2>2. CASE u # t
    BY <1>2, <1>3, <1>4, <2>2
  <2> QED BY <2>1, <2>2
<1> QED BY <1>1, <1>4 DEF FramesInv

(* The call on top is changed, another one is pushed on it, or it returns. *)
LEMMA BecomeKeeps ==
    ASSUME StackOK, FramesInv, Grows, NEW t \in Threads, stack[t] # <<>>,
           NEW f \in Frame, FrameInv(t, f)', Become(t, f)
    PROVE  StackOK' /\ FramesInv'
<1> DEFINE b == Front(stack[t])
           s == Append(b, f)
<1>1. /\ b \in Seq(Frame) /\ \A i \in 1..Len(b) : i \in 1..Len(stack[t]) /\ b[i] = stack[t][i]
  BY BelowFacts DEF StackOK
<1>2. /\ stack' = [stack EXCEPT ![t] = s] /\ failed' = failed
  BY DEF Become
<1> HIDE DEF b
<1>3. /\ s \in Seq(Frame) /\ Len(b) \in Nat /\ Len(s) = Len(b) + 1 /\ s[Len(b) + 1] = f
      /\ \A i \in 1..Len(b) : s[i] = b[i]
  BY <1>1, OneMoreFacts
<1> HIDE DEF s
<1>4. \A i \in 1..Len(s) : i \in 1..Len(b) \/ i = Len(b) + 1
  BY <1>3
<1>5. \A i \in 1..Len(s) : (\E j \in 1..Len(stack[t]) : s[i] = stack[t][j]) \/ s[i] = f
  BY <1>1, <1>3, <1>4
<1>6. stack' \in [Threads -> Seq(Frame)] /\ FramesInv'
  BY <1>2, <1>3, <1>5, FramesKept
<1> QED BY <1>2, <1>6 DEF StackOK

LEMMA PushKeeps ==
    ASSUME StackOK, FramesInv, Grows, NEW t \in Threads, stack[t] # <<>>,
           NEW f \in Frame, FrameInv(t, f)', NEW g \in Frame, FrameInv(t, g)', PushOn(t, f, g)
    PROVE  StackOK' /\ FramesInv'
<1> DEFINE b == Front(stack[t])
           m == Append(b, f)
           s == Append(m, g)
<1>1. /\ b \in Seq(Frame) /\ \A i \in 1..Len(b) : i \in 1..Len(stack[t]) /\ b[i] = stack[t][i]
  BY BelowFacts DEF StackOK
<1>2. /\ stack' = [stack EXCEPT ![t] = s] /\ failed' = failed
  BY DEF PushOn
<1> HIDE DEF b
<1>3. /\ m \in Seq(Frame) /\ Len(b) \in Nat /\ Len(m) = Len(b) + 1 /\ m[Len(b) + 1] = f
      /\ \A i \in 1..Len(b) : m[i] = b[i]
  BY <1>1, OneMoreFacts
<1> HIDE DEF m
<1>4. /\ s \in Seq(Frame) /\ Len(s) = Len(m) + 1 /\ s[Len(m) + 1] = g
      /\ \A i \in 1..Len(m) : s[i] = m[i]
  BY <1>3, OneMoreFacts
<1> HIDE DEF s
<1>5. \A i \in 1..Len(s) : (i \in 1..Len(b) /\ i \in 1..Len(m))
                            \/ (i = Len(b) + 1 /\ i \in 1..Len(m)) \/ i = Len(m) + 1
  BY <1>3, <1>4
<1>6. \A i \in 1..Len(s) :
          (\E j \in 1..Len(stack[t]) : s[i] = stack[t][j]) \/ s[i] = f \/ s[i] = g
  BY <1>1, <1>3, <1>4, <1>5
<1>7. stack' \in [Threads -> Seq(Frame)] /\ FramesInv'
  BY <1>2, <1>4, <1>6, FramesKept
<1> QED BY <1>2, <1>7 DEF StackOK

LEMMA LeaveKeeps ==
    ASSUME StackOK, FramesInv, Grows, NEW t \in Threads, stack[t] # <<>>,
           NEW e \in BOOLEAN, Leave(t, e)
    PROVE  StackOK' /\ FramesInv'
<1> DEFINE b == Front(stack[t])
<1>1. /\ b \in Seq(Frame) /\ \A i \in 1..Len(b) : i \in 1..Len(stack[t]) /\ b[i] = stack[t][i]
  BY BelowFacts DEF StackOK
<1>2. stack' = [stack EXCEPT ![t] = b] /\ failed' \in [Threads -> BOOLEAN]
  BY DEF Leave, StackOK
<1> HIDE DEF b
<1>3. \A i \in 1..Len(b) : \E j \in 1..Len(stack[t]) : b[i] = stack[t][j]
  BY <1>1
<1>4. stack' \in [Threads -> Seq(Frame)] /\ FramesInv'
  BY <1>1, <1>2, <1>3, FramesKept
<1> QED BY <1>2, <1>4 DEF StackOK

(* A thread outside all calls begins one. *)
LEMMA BeginKeeps ==
    ASSUME StackOK, FramesInv, Grows, NEW t \in Threads, NEW f \in Frame, FrameInv(t, f)',
           stack' = [stack EXCEPT ![t] = <<f>>], failed' = [failed EXCEPT ![t] = FALSE]
    PROVE  StackOK' /\ FramesInv'
<1> DEFINE s == <<f>>
<1>1. s \in Seq(Frame) /\ Len(s) = 1 /\ s[1] = f /\ \A i \in 1..Len(s) : i = 1
  OBVIOUS
<1>2. stack' = [stack EXCEPT ![t] = s]
  OBVIOUS
<1> HIDE DEF s
<1>3. \A i \in 1..Len(s) : s[i] = f
  BY <1>1
<1>4. stack' \in [Threads -> Seq(Frame)] /\ FramesInv'
  BY <1>1, <1>2, <1>3, FramesKept
<1> QED BY <1>4 DEF StackOK

-------------------------------------------------------------------------------
LEMMA LookupInit == InitLookup => LookupInv
<1> SUFFICES ASSUME InitLookup PROVE LookupInv
  OBVIOUS
<1> USE TypesAssumption, WorldsAssumption, BoundsAssumption
<1>1. /\ finds \in [Loaders -> [Types -> Classes \union Types]] /\ "vm" \in Loaders
      /\ \A y \in Preloaded : y \in Types /\ finds["vm"][y] \in Classes
  BY LoadersAssumption DEF InitLookup
<1>2. LookupTypeOK
  <2>1. /\ classCell \in [Types -> Classes \union {NoClass}] /\ registered \subseteq Classes
    BY <1>1 DEF InitLookup
  <2>2. /\ initialiser \in [Classes -> Threads \union {Nobody}]
        /\ stack \in [Threads -> Seq(Frame)] /\ calls \in [Threads -> 0..MaxCalls]
        /\ failed \in [Threads -> BOOLEAN] /\ initialised \subseteq Classes
    BY DEF InitLookup
  <2> QED BY <2>1, <2>2 DEF InitLookup, LookupTypeOK
<1>3. FramesInv
  BY DEF InitLookup, FramesInv
<1>4. BindingsAgree
  BY DEF InitLookup, BindingsAgree
<1>5. InitialiserInv
  BY DEF InitLookup, InitialiserInv, EarlyClasses
<1> QED BY <1>2, <1>3, <1>4, <1>5 DEF LookupInv

-------------------------------------------------------------------------------
(* Steps that change nothing but the stack *)
Quiet == UNCHANGED <<finds, cells, jvm, calls>>

LEMMA QuietKeeps ==
    ASSUME LookupInv, Quiet, StackOK', FramesInv'
    PROVE  LookupInv'
<1>1. /\ finds' = finds /\ classCell' = classCell /\ apiCell' = apiCell /\ calls' = calls
      /\ registered' = registered /\ initialiser' = initialiser /\ initialised' = initialised
  BY DEF Quiet, cells, jvm
<1>2. LookupTypeOK' /\ BindingsAgree' /\ InitialiserInv'
  BY <1>1 DEF LookupInv, LookupTypeOK, StackOK, BindingsAgree, InitialiserInv, EarlyClasses
<1> QED BY <1>2 DEF LookupInv

LEMMA QuietGrows ==
    ASSUME LookupInv, Quiet
    PROVE  Grows /\ StackOK /\ FramesInv
  BY DEF LookupInv, LookupTypeOK, StackOK, Quiet, cells, jvm, Grows

LEMMA QuietBecome ==
    ASSUME LookupInv, Quiet, NEW t \in Threads, stack[t] # <<>>,
           NEW f \in Frame, FrameInv(t, f), Become(t, f)
    PROVE  LookupInv'
<1>1. Grows /\ StackOK /\ FramesInv
  BY QuietGrows
<1>2. FrameInv(t, f)'
  BY <1>1, FrameKept
<1> QED BY <1>1, <1>2, BecomeKeeps, QuietKeeps

LEMMA QuietPush ==
    ASSUME LookupInv, Quiet, NEW t \in Threads, stack[t] # <<>>,
           NEW f \in Frame, FrameInv(t, f), NEW g \in Frame, FrameInv(t, g), PushOn(t, f, g)
    PROVE  LookupInv'
<1>1. Grows /\ StackOK /\ FramesInv
  BY QuietGrows
<1>2. FrameInv(t, f)' /\ FrameInv(t, g)'
  BY <1>1, FrameKept
<1> QED BY <1>1, <1>2, PushKeeps, QuietKeeps

LEMMA QuietLeave ==
    ASSUME LookupInv, Quiet, NEW t \in Threads, stack[t] # <<>>,
           NEW e \in BOOLEAN, Leave(t, e)
    PROVE  LookupInv'
<1>1. Grows /\ StackOK /\ FramesInv
  BY QuietGrows
<1> QED BY <1>1, LeaveKeeps, QuietKeeps

LEMMA GetFrameFacts ==
    ASSUME NEW type \in Types, NEW via \in Contexts
    PROVE  /\ GetFrame(type, via) \in Frame
           /\ \A t : FrameInv(t, GetFrame(type, via))
<1>1. GetFrame(type, via) \in Frame
  BY DEF GetFrame, Frame, Steps
<1>2. \A t : ClassOfFrame(GetFrame(type, via)) /\ SearchOfFrame(t, GetFrame(type, via))
  BY DEF GetFrame, ClassOfFrame, SearchOfFrame, Stages
<1> QED BY <1>1, <1>2 DEF FrameInv

LEMMA ReadApiKeeps ==
    ASSUME LookupInv, NEW t \in Threads, ReadApi(t)
    PROVE  LookupInv'
<1> DEFINE f == Top(t)
           g == [f EXCEPT !.pc = "class"]
<1>1. Quiet /\ stack[t] # <<>> /\ f.pc = "api"
  BY DEF ReadApi, At, Quiet
<1>2. f \in Frame /\ FrameInv(t, f)
  BY <1>1, QuietGrows, TopFacts
<1>3. Leave(t, FALSE) \/ Become(t, g)
  BY DEF ReadApi, Goto
<1> HIDE DEF f
<1>4. g \in Frame /\ g.pc = "class"
  BY <1>2 DEF Frame, Steps
<1> HIDE DEF g
<1>5. FrameInv(t, g)
  BY <1>4 DEF FrameInv, ClassOfFrame, SearchOfFrame, Stages
<1> QED BY <1>1, <1>3, <1>4, <1>5, QuietLeave, QuietBecome

LEMMA ReadClassKeeps ==
    ASSUME LookupInv, NEW t \in Threads, ReadClass(t)
    PROVE  LookupInv'
<1> DEFINE f == Top(t)
           cached == classCell[f.type]
           g == [f EXCEPT !.class = cached,
                          !.pc = IF cached = NoClass THEN FirstStage(f.via) ELSE "register"]
<1>1. Quiet /\ stack[t] # <<>> /\ f.thrown = NoThrow
  BY DEF ReadClass, At, Quiet
<1>2. f \in Frame
  BY <1>1, QuietGrows, TopFacts
<1>3. Become(t, g)
  BY DEF ReadClass
<1>4. cached \in Classes \union {NoClass}
  BY <1>2 DEF LookupInv, LookupTypeOK, Frame
<1>5. FirstStage(f.via) \in Steps
  BY DEF FirstStage, Steps, Stages
<1> HIDE DEF f
<1>6. /\ g.class = cached /\ g.thrown = NoThrow /\ g.via = f.via /\ g.type = f.type
      /\ g.pc = IF cached = NoClass THEN FirstStage(f.via) ELSE "register"
      /\ g \in Frame
  BY <1>1, <1>2, <1>4, <1>5 DEF Frame, Steps
<1>7. CASE cached = NoClass
  <2>1. g.pc = IF g.via = "loader" THEN "given" ELSE "context_loader"
    BY <1>6, <1>7 DEF FirstStage
  <2> HIDE DEF g
  <2>2. FrameInv(t, g)
    BY <1>6, <2>1 DEF FrameInv, ClassOfFrame, SearchOfFrame, Stages
  <2> QED BY <1>1, <1>3, <1>6, <2>2, QuietBecome
<1>8. CASE cached # NoClass
  <2>1. g.pc = "register" /\ g.class \in Classes /\ g.class = classCell[g.type]
    BY <1>4, <1>6, <1>8
  <2> HIDE DEF g
  <2>2. FrameInv(t, g)
    BY <2>1 DEF FrameInv, ClassOfFrame, SearchOfFrame, Stages
  <2> QED BY <1>1, <1>3, <1>6, <2>2, QuietBecome
<1> QED BY <1>7, <1>8

LEMMA FailKeeps ==
    ASSUME LookupInv, NEW t \in Threads, GetFails(t) \/ MatchFails(t)
    PROVE  LookupInv'
<1>1. Quiet /\ stack[t] # <<>> /\ Leave(t, TRUE)
  BY DEF GetFails, MatchFails, At, Quiet
<1> QED BY <1>1, QuietLeave

LEMMA CallNativeKeeps ==
    ASSUME LookupInv, NEW t \in Threads, CallNative(t)
    PROVE  LookupInv'
<1> DEFINE f == Top(t)
           g == [f EXCEPT !.pc = "native"]
           n == GetFrame(f.type, "none")
<1>1. Quiet /\ stack[t] # <<>> /\ f.pc = "clinit" /\ PushOn(t, g, n)
  BY DEF CallNative, At, Quiet
<1>2. f \in Frame /\ FrameInv(t, f)
  BY <1>1, QuietGrows, TopFacts
<1> HIDE DEF f
<1>3. g \in Frame /\ g.pc = "native" /\ g.class = f.class /\ f.type \in Types
  BY <1>2 DEF Frame, Steps
<1>4. n \in Frame /\ FrameInv(t, n)
  BY <1>3, GetFrameFacts DEF Contexts
<1> HIDE DEF g, n
<1>5. FrameInv(t, g)
  BY <1>1, <1>2, <1>3 DEF FrameInv, ClassOfFrame, SearchOfFrame, Stages
<1> QED BY <1>1, <1>3, <1>4, <1>5, QuietPush

LEMMA MatchExceptionKeeps ==
    ASSUME LookupInv, NEW t \in Threads, MatchException(t)
    PROVE  LookupInv'
<1> DEFINE f == Top(t)
           g == [f EXCEPT !.todo = Tail(@)]
           n == GetFrame(Head(f.todo), "none")
<1>1. Quiet /\ stack[t] # <<>> /\ f.todo # <<>> /\ PushOn(t, g, n)
  BY DEF MatchException, Quiet
<1>2. f \in Frame /\ FrameInv(t, f)
  BY <1>1, QuietGrows, TopFacts
<1> HIDE DEF f
<1>3. f.todo \in Seq(Types)
  BY <1>2 DEF Frame
<1>4. Tail(f.todo) \in Seq(Types) /\ Head(f.todo) \in Types
  BY <1>1, <1>3
<1>5. /\ g \in Frame /\ g.pc = f.pc /\ g.class = f.class /\ g.type = f.type /\ g.via = f.via
      /\ g.thrown = f.thrown
  BY <1>2, <1>4 DEF Frame
<1>6. n \in Frame /\ FrameInv(t, n)
  BY <1>4, GetFrameFacts DEF Contexts
<1> HIDE DEF g, n
<1>7. FrameInv(t, g)
  BY <1>2, <1>5 DEF FrameInv, ClassOfFrame, SearchOfFrame, Passed
<1> QED BY <1>1, <1>5, <1>6, <1>7, QuietPush

(* A loader is passed over because there is none, or because it knows no such class. *)
LEMMA MatchedKeeps ==
    ASSUME LookupInv, NEW t \in Threads, Matched(t)
    PROVE  LookupInv'
<1> DEFINE f == Top(t)
           h == [f EXCEPT !.thrown = NoThrow]
           g(step) == [h EXCEPT !.pc = step]
<1>1. Quiet /\ stack[t] # <<>> /\ f.thrown # NoThrow
  BY DEF Matched, Quiet
<1>2. f \in Frame /\ FrameInv(t, f)
  BY <1>1, QuietGrows, TopFacts
<1>3. \/ /\ f.pc = "context_loader" \/ (f.pc = "context" /\ f.thrown = NotFound)
         /\ Become(t, g(AfterContext(h)))
      \/ /\ f.pc = "candidate_loader" \/ (f.pc = "candidate" /\ f.thrown = NotFound)
         /\ Become(t, g("vm"))
      \/ Leave(t, TRUE)
  <2>1. h.pc = f.pc
    BY <1>2 DEF Frame
  <2> QED BY <2>1 DEF Matched
<1> HIDE DEF f
<1>4. ASSUME NEW step \in Steps
      PROVE  /\ g(step) \in Frame /\ g(step).pc = step /\ g(step).thrown = NoThrow
             /\ g(step).type = f.type /\ g(step).via = f.via
  BY <1>2 DEF Frame
<1>5. AfterContext(h) = IF f.via = "object" THEN "candidate_loader" ELSE "vm"
  BY <1>2 DEF AfterContext, Frame
<1> HIDE DEF g, h
<1>6. CASE /\ f.pc = "context_loader" \/ (f.pc = "context" /\ f.thrown = NotFound)
           /\ Become(t, g(AfterContext(h)))
  <2>1. f.via # "loader" /\ (t \in Throwing \/ Passed(ContextLoader[t], f))
    BY <1>1, <1>2, <1>6 DEF FrameInv, SearchOfFrame, Stages, Passed
  <2>2. AfterContext(h) \in Steps
    BY <1>5 DEF Steps, Stages
  <2>3. FrameInv(t, g(AfterContext(h)))
    BY <1>4, <1>5, <2>1, <2>2 DEF FrameInv, ClassOfFrame, SearchOfFrame, Stages, Passed
  <2> QED BY <1>1, <1>4, <1>6, <2>2, <2>3, QuietBecome
<1>7. CASE /\ f.pc = "candidate_loader" \/ (f.pc = "candidate" /\ f.thrown = NotFound)
           /\ Become(t, g("vm"))
  <2>1. /\ f.via # "loader" /\ (t \in Throwing \/ Passed(ContextLoader[t], f))
        /\ t \in Throwing \/ Passed(OtherLoader, f)
    BY <1>1, <1>2, <1>7 DEF FrameInv, SearchOfFrame, Stages, Passed
  <2>2. "vm" \in Steps
    BY DEF Steps, Stages
  <2>3. FrameInv(t, g("vm"))
    BY <1>4, <2>1, <2>2 DEF FrameInv, ClassOfFrame, SearchOfFrame, Stages, Passed
  <2> QED BY <1>1, <1>4, <1>7, <2>2, <2>3, QuietBecome
<1> QED BY <1>1, <1>3, <1>6, <1>7, QuietLeave

-------------------------------------------------------------------------------
(* The chain of loaders *)

LEMMA ClausesFacts ==
    ASSUME NEW S, NEW thrown, NEW handlers \in Seq(S)
    PROVE  Clauses(thrown, handlers) \in Seq(S)
<1>1. CASE ~Contains(handlers, thrown)
  BY <1>1 DEF Clauses
<1>2. CASE Contains(handlers, thrown)
  <2> DEFINE n == CHOOSE i \in 1..Len(handlers) : handlers[i] = thrown
  <2>1. n \in 1..Len(handlers) /\ Len(handlers) \in Nat
    BY <1>2 DEF Contains
  <2> HIDE DEF n
  <2>2. n \in Nat /\ \A i \in 1..n : handlers[i] \in S
    BY <2>1
  <2>3. SubSeq(handlers, 1, n) \in Seq(S)
    BY <2>2, SubSeqProperties
  <2> QED BY <1>2, <2>3 DEF Clauses, n
<1> QED BY <1>1, <1>2

(* An exception that is caught: the search stays where it is. *)
LEMMA CatchKeeps ==
    ASSUME LookupInv, Quiet, NEW t \in Threads, NEW step \in Stages, At(t, step),
           NEW thrown \in Types, NEW handlers \in Seq(Types), Catch(t, thrown, handlers),
           step \in {"context_loader", "candidate_loader"} => t \in Throwing,
           step = "context" => thrown = finds[ContextLoader[t]][Top(t).type],
           step = "candidate" => thrown = finds[OtherLoader][Top(t).type]
    PROVE  LookupInv'
<1> DEFINE f == Top(t)
           g == [f EXCEPT !.thrown = thrown, !.todo = Clauses(thrown, handlers)]
<1>1. stack[t] # <<>> /\ f.pc = step /\ Become(t, g)
  BY DEF At, Catch
<1>2. f \in Frame /\ FrameInv(t, f)
  BY <1>1, QuietGrows, TopFacts
<1>3. /\ step = "context" => thrown = finds[ContextLoader[t]][f.type]
      /\ step = "candidate" => thrown = finds[OtherLoader][f.type]
  OBVIOUS
<1> HIDE DEF f
<1>4. /\ g \in Frame /\ g.pc = f.pc /\ g.class = f.class /\ g.type = f.type /\ g.via = f.via
      /\ g.thrown = thrown
  BY <1>2, ClausesFacts DEF Frame
<1> HIDE DEF g
<1>5. FrameInv(t, g)
  BY <1>1, <1>2, <1>3, <1>4 DEF FrameInv, ClassOfFrame, SearchOfFrame, Stages, Passed
<1> QED BY <1>1, <1>4, <1>5, QuietBecome

LEMMA GetLoaderKeeps ==
    ASSUME LookupInv, NEW t \in Threads, GetContextLoader(t) \/ GetCandidateLoader(t)
    PROVE  LookupInv'
<1>1. PICK step \in {"context_loader", "candidate_loader"} :
          /\ Quiet /\ At(t, step)
          /\ IF t \in Throwing THEN Catch(t, Security, <<Security>>)
             ELSE Goto(t, IF step = "context_loader" THEN "context" ELSE "candidate")
  BY DEF GetContextLoader, GetCandidateLoader, Quiet
<1>2. CASE t \in Throwing
  <2>1. Security \in Types /\ <<Security>> \in Seq(Types) /\ step \in Stages
    BY TypesAssumption DEF Stages
  <2> QED BY <1>1, <1>2, <2>1, CatchKeeps
<1>3. CASE t \notin Throwing
  <2> DEFINE f == Top(t)
             next == IF step = "context_loader" THEN "context" ELSE "candidate"
             g == [f EXCEPT !.pc = next]
  <2>1. stack[t] # <<>> /\ f.pc = step /\ f.thrown = NoThrow /\ Become(t, g)
    BY <1>1, <1>3 DEF At, Goto
  <2>2. f \in Frame /\ FrameInv(t, f)
    BY <1>1, <2>1, QuietGrows, TopFacts
  <2> HIDE DEF f
  <2>3. next \in Steps /\ next \in {"context", "candidate"}
        /\ (next = "candidate" <=> step = "candidate_loader")
    BY DEF Steps, Stages
  <2> HIDE DEF next
  <2>4. /\ g \in Frame /\ g.pc = next /\ g.type = f.type /\ g.via = f.via
        /\ g.thrown = NoThrow
    BY <2>1, <2>2, <2>3 DEF Frame
  <2> HIDE DEF g
  <2>5. FrameInv(t, g)
    BY <1>3, <2>1, <2>2, <2>3, <2>4 DEF FrameInv, ClassOfFrame, SearchOfFrame, Stages, Passed
  <2> QED BY <1>1, <2>1, <2>4, <2>5, QuietBecome
<1> QED BY <1>2, <1>3

(* The first answer is the one of the first loader in the order that knows the name. *)
LEMMA FirstAnswerIs ==
    ASSUME NEW type, NEW order, Len(order) \in Nat, NEW k \in 1..Len(order),
           finds[order[k]][type] # NotFound,
           \A j \in 1..(k - 1) : finds[order[j]][type] = NotFound
    PROVE  FirstAnswer(type, order) = finds[order[k]][type]
<1> DEFINE known == {i \in 1..Len(order) : finds[order[i]][type] # NotFound}
           first == CHOOSE i \in known : \A j \in known : i <= j
<1>1. k \in known /\ known \subseteq 1..Len(order)
  OBVIOUS
<1>2. \A j \in known : k <= j
  <2> TAKE j \in known
  <2>1. j \in 1..Len(order) /\ j \notin 1..(k - 1)
    OBVIOUS
  <2> QED BY <2>1
<1>3. first \in known /\ \A j \in known : first <= j
  BY <1>1, <1>2
<1>4. PICK f : f = first
  OBVIOUS
<1>5. f = k /\ known # {}
  <2>1. f \in known /\ \A j \in known : f <= j
    BY <1>3, <1>4
  <2>2. f <= k /\ k <= f
    BY <1>1, <1>2, <2>1
  <2>3. f \in Nat /\ k \in Nat
    BY <1>1, <2>1
  <2> QED BY <1>1, <2>2, <2>3
<1>6. FirstAnswer(type, order) = IF known = {} THEN NotFound ELSE finds[order[first]][type]
  BY DEF FirstAnswer
<1> QED BY <1>4, <1>5, <1>6

(* A loader that is asked in its turn: the class it knows is the first answer. *)
LEMMA InTurn ==
    ASSUME NEW t, NEW f \in Frame, SearchOfFrame(t, f), NEW loader,
           \/ f.pc = "context" /\ loader = ContextLoader[t]
           \/ f.pc \in {"candidate", "given"} /\ loader = OtherLoader
           \/ f.pc = "vm" /\ loader = "vm",
           finds[loader][f.type] # NotFound
    PROVE  finds[loader][f.type] = FirstAnswer(f.type, Order(t, f.via))
<1> DEFINE o == Order(t, f.via)
<1>1. CASE f.pc = "given"
  <2>1. o = <<OtherLoader>> /\ loader = OtherLoader
    BY <1>1 DEF SearchOfFrame, Order
  <2>2. /\ Len(o) \in Nat /\ 1 \in 1..Len(o) /\ o[1] = loader
        /\ \A j \in 1..(1 - 1) : FALSE
    BY <2>1
  <2> HIDE DEF o
  <2>3. FirstAnswer(f.type, o) = finds[o[1]][f.type]
    BY <2>2, FirstAnswerIs
  <2> QED BY <2>2, <2>3 DEF o
<1>2. CASE f.pc = "context"
  <2>1. /\ o = <<ContextLoader[t], OtherLoader, "vm">> \/ o = <<ContextLoader[t], "vm">>
        /\ loader = ContextLoader[t]
    BY <1>2 DEF SearchOfFrame, Order, Stages
  <2>2. /\ Len(o) \in Nat /\ 1 \in 1..Len(o) /\ o[1] = loader
        /\ \A j \in 1..(1 - 1) : FALSE
    <3> HIDE DEF o
    <3>1. CASE o = <<ContextLoader[t], OtherLoader, "vm">>
      BY <2>1, <3>1
    <3>2. CASE o = <<ContextLoader[t], "vm">>
      BY <2>1, <3>2
    <3> QED BY <2>1, <3>1, <3>2
  <2> HIDE DEF o
  <2>3. FirstAnswer(f.type, o) = finds[o[1]][f.type]
    BY <2>2, FirstAnswerIs
  <2> QED BY <2>2, <2>3 DEF o
<1>3. CASE f.pc = "candidate"
  <2>1. /\ o = <<ContextLoader[t], OtherLoader, "vm">> /\ loader = OtherLoader
        /\ finds[ContextLoader[t]][f.type] = NotFound
    BY <1>3 DEF SearchOfFrame, Order, Stages, Passed
  <2>2. /\ Len(o) \in Nat /\ 2 \in 1..Len(o) /\ o[2] = loader
        /\ \A j \in 1..(2 - 1) : finds[o[j]][f.type] = NotFound
    BY <2>1
  <2> HIDE DEF o
  <2>3. FirstAnswer(f.type, o) = finds[o[2]][f.type]
    BY <2>2, FirstAnswerIs
  <2> QED BY <2>2, <2>3 DEF o
<1>4. CASE f.pc = "vm"
  <2>0. /\ f.via # "loader" /\ loader = "vm"
        /\ t \in Throwing \/ finds[ContextLoader[t]][f.type] = NotFound
        /\ f.via = "object" => t \in Throwing \/ finds[OtherLoader][f.type] = NotFound
    BY <1>4 DEF SearchOfFrame, Stages, Passed
  <2>1. PICK k \in 1..3 :
            /\ Len(o) = k /\ o[k] = loader
            /\ \A j \in 1..(k - 1) : finds[o[j]][f.type] = NotFound
    <3>1. CASE t \in Throwing
      <4>1. o = <<"vm">>
        BY <2>0, <3>1 DEF Order
      <4>2. Len(o) = 1 /\ o[1] = loader /\ \A j \in 1..(1 - 1) : FALSE
        BY <4>1, <2>0
      <4> QED BY <4>2
    <3>2. CASE t \notin Throwing /\ f.via = "object"
      <4>1. o = <<ContextLoader[t], OtherLoader, "vm">>
        BY <3>2 DEF Order
      <4>2. /\ Len(o) = 3 /\ o[3] = loader
            /\ \A j \in 1..(3 - 1) : finds[o[j]][f.type] = NotFound
        BY <4>1, <2>0, <3>2
      <4> QED BY <4>2
    <3>3. CASE t \notin Throwing /\ f.via # "object"
      <4>1. o = <<ContextLoader[t], "vm">>
        BY <2>0, <3>3 DEF Order
      <4>2. /\ Len(o) = 2 /\ o[2] = loader
            /\ \A j \in 1..(2 - 1) : finds[o[j]][f.type] = NotFound
        BY <4>1, <2>0, <3>3
      <4> QED BY <4>2
    <3> QED BY <3>1, <3>2, <3>3
  <2> HIDE DEF o
  <2>2. Len(o) \in Nat /\ k \in 1..Len(o)
    BY <2>1
  <2>3. FirstAnswer(f.type, o) = finds[o[k]][f.type]
    BY <2>1, <2>2, FirstAnswerIs
  <2> QED BY <2>1, <2>3 DEF o
<1> QED BY <1>1, <1>2, <1>3, <1>4

LEMMA AskKeeps ==
    ASSUME LookupInv, NEW t \in Threads, LoadClass(t) \/ FindClass(t)
    PROVE  LookupInv'
<1> DEFINE f == Top(t)
<1>1. PICK step \in {"context", "candidate", "given", "vm"}, loader \in Loaders,
           handlers \in Seq(Types) :
          /\ Quiet /\ At(t, step) /\ Ask(t, loader, handlers)
          /\ \/ step = "context" /\ loader = ContextLoader[t]
             \/ step \in {"candidate", "given"} /\ loader = OtherLoader
             \/ step = "vm" /\ loader = "vm"
  BY LoadersAssumption, HandlersAssumption DEF LoadClass, FindClass, Quiet
<1>2. stack[t] # <<>> /\ f.pc = step /\ f.thrown = NoThrow
  BY <1>1 DEF At
<1>3. f \in Frame /\ FrameInv(t, f)
  BY <1>1, <1>2, QuietGrows, TopFacts
<1> DEFINE answer == finds[loader][f.type]
<1>4. answer \in Classes \union Types
  BY <1>1, <1>3, WorldsAssumption DEF LookupInv, LookupTypeOK, Frame
<1>5. CASE answer \in Classes
  <2> DEFINE g == [f EXCEPT !.class = answer, !.pc = "set"]
  <2>1. Become(t, g)
    BY <1>1, <1>5 DEF Ask
  <2>2. answer # NotFound
    BY <1>5, ClassNamesAssumption, TypesAssumption
  <2> HIDE DEF f
  <2>3. answer = FirstAnswer(f.type, Order(t, f.via))
    BY <1>1, <1>2, <1>3, <2>2, InTurn DEF FrameInv
  <2> HIDE DEF answer
  <2>4. /\ g \in Frame /\ g.pc = "set" /\ g.class = answer /\ g.type = f.type /\ g.via = f.via
        /\ g.thrown = NoThrow
    BY <1>2, <1>3, <1>5 DEF Frame, Steps
  <2> HIDE DEF g
  <2>5. FrameInv(t, g)
    BY <1>5, <2>3, <2>4 DEF FrameInv, ClassOfFrame, SearchOfFrame, Stages
  <2> QED BY <1>1, <1>2, <2>1, <2>4, <2>5, QuietBecome
<1>6. CASE answer \notin Classes
  <2>1. Catch(t, answer, handlers) /\ answer \in Types /\ step \in Stages
    BY <1>1, <1>4, <1>6 DEF Ask, Stages
  <2> QED BY <1>1, <2>1, CatchKeeps
<1> QED BY <1>5, <1>6

-------------------------------------------------------------------------------
(* Steps that fill a cell, register native methods or initialise a class *)

LEMMA SetClassKeeps ==
    ASSUME LookupInv, NEW t \in Threads, SetClass(t)
    PROVE  LookupInv'
<1> USE NamesAssumption
<1>0. StackOK /\ FramesInv /\ LookupTypeOK /\ BindingsAgree /\ InitialiserInv
  BY DEF LookupInv, LookupTypeOK, StackOK
<1>1. PICK f : f = Top(t)
  OBVIOUS
<1>2. stack[t] # <<>> /\ f.pc = "set" /\ f.thrown = NoThrow
  BY <1>1 DEF SetClass, At
<1>3. f \in Frame /\ FrameInv(t, f)
  BY <1>0, <1>1, <1>2, TopFacts
<1>4. f.class \in Classes /\ f.type \in Types
  BY <1>2, <1>3 DEF FrameInv, ClassOfFrame, Frame
<1>5. PICK first : first = IF classCell[f.type] = NoClass THEN f.class ELSE classCell[f.type]
  OBVIOUS
<1>6. PICK g : g = [f EXCEPT !.pc = "register", !.class = first]
  OBVIOUS
<1>7. /\ classCell' = [classCell EXCEPT ![f.type] = first] /\ Become(t, g)
      /\ UNCHANGED <<finds, apiCell, registered, initialiser, initialised, calls>>
  BY <1>1, <1>5, <1>6 DEF SetClass, jvm
<1>8. first \in Classes
  BY <1>0, <1>4, <1>5 DEF LookupTypeOK
<1>9. g \in Frame /\ g.pc = "register" /\ g.class = first /\ g.type = f.type /\ g.thrown = NoThrow
  BY <1>2, <1>3, <1>6, <1>8 DEF Frame, Steps
<1>10. Grows /\ classCell' \in [Types -> Classes \union {NoClass}] /\ classCell'[f.type] = first
  BY <1>0, <1>4, <1>5, <1>7, <1>8 DEF Grows, LookupTypeOK
<1>11. FrameInv(t, g)'
  BY <1>8, <1>9, <1>10 DEF FrameInv, ClassOfFrame, SearchOfFrame, Stages
<1>12. StackOK' /\ FramesInv'
  BY <1>0, <1>2, <1>7, <1>9, <1>10, <1>11, BecomeKeeps
<1>13. LookupTypeOK' /\ InitialiserInv'
  BY <1>0, <1>7, <1>10, <1>12 DEF LookupTypeOK, StackOK, InitialiserInv, EarlyClasses
<1>14. BindingsAgree'
  BY <1>0, <1>7, <1>10 DEF BindingsAgree, Grows
<1> QED BY <1>12, <1>13, <1>14 DEF LookupInv

LEMMA RegisterKeeps ==
    ASSUME LookupInv, NEW t \in Threads, RegisterNatives(t)
    PROVE  LookupInv'
<1>0. StackOK /\ FramesInv /\ LookupTypeOK /\ BindingsAgree /\ InitialiserInv
  BY DEF LookupInv, LookupTypeOK, StackOK
<1>1. PICK f : f = Top(t)
  OBVIOUS
<1>2. PICK g : g = [f EXCEPT !.pc = "ids"]
  OBVIOUS
<1>3. /\ stack[t] # <<>> /\ f.pc = "register" /\ f.thrown = NoThrow /\ Become(t, g)
      /\ registered' = registered \union {f.class}
      /\ UNCHANGED <<finds, classCell, apiCell, initialiser, initialised, calls>>
  BY <1>1, <1>2 DEF RegisterNatives, At, Goto, cells
<1>4. f \in Frame /\ FrameInv(t, f)
  BY <1>0, <1>1, <1>3, TopFacts
<1>5. f.class \in Classes /\ f.class = classCell[f.type]
  BY <1>3, <1>4 DEF FrameInv, ClassOfFrame
<1>6. g \in Frame /\ g.pc = "ids" /\ g.class = f.class /\ g.type = f.type /\ g.thrown = NoThrow
  BY <1>2, <1>3, <1>4 DEF Frame, Steps
<1>7. Grows
  BY <1>3 DEF Grows
<1>8. FrameInv(t, g)'
  BY <1>3, <1>5, <1>6 DEF FrameInv, ClassOfFrame, SearchOfFrame, Stages
<1>9. StackOK' /\ FramesInv'
  BY <1>0, <1>3, <1>6, <1>7, <1>8, BecomeKeeps
<1>10. LookupTypeOK' /\ InitialiserInv' /\ BindingsAgree'
  BY <1>0, <1>3, <1>5, <1>9 DEF LookupTypeOK, StackOK, InitialiserInv, EarlyClasses, BindingsAgree
<1> QED BY <1>9, <1>10 DEF LookupInv

LEMMA ClinitFrameFacts ==
    ASSUME NEW type \in Types, NEW c \in Classes
    PROVE  /\ ClinitFrame(type, c) \in Frame
           /\ ClinitFrame(type, c).pc = "clinit" /\ ClinitFrame(type, c).class = c
           /\ ClinitFrame(type, c).thrown = NoThrow
  BY DEF ClinitFrame, Frame, Steps, Contexts

LEMMA LookupIdsKeeps ==
    ASSUME LookupInv, NEW t \in Threads, LookupIds(t)
    PROVE  LookupInv'
<1>0. StackOK /\ FramesInv /\ LookupTypeOK /\ BindingsAgree /\ InitialiserInv
  BY DEF LookupInv, LookupTypeOK, StackOK
<1>1. PICK f : f = Top(t)
  OBVIOUS
<1>2. stack[t] # <<>> /\ f.pc = "ids" /\ f.thrown = NoThrow
  BY <1>1 DEF LookupIds, At
<1>3. f \in Frame /\ FrameInv(t, f)
  BY <1>0, <1>1, <1>2, TopFacts
<1>4. /\ f.class \in Classes /\ f.class = classCell[f.type] /\ f.class \in registered
      /\ f.type \in Types
  BY <1>2, <1>3 DEF FrameInv, ClassOfFrame, Frame
<1>5. CASE Goto(t, "publish") /\ UNCHANGED jvm
  <2> DEFINE g == [f EXCEPT !.pc = "publish"]
  <2>1. Quiet /\ Become(t, g)
    BY <1>1, <1>5 DEF LookupIds, Quiet, Goto
  <2>2. /\ g \in Frame /\ g.pc = "publish" /\ g.class = f.class /\ g.type = f.type
        /\ g.thrown = NoThrow
    BY <1>2, <1>3 DEF Frame, Steps
  <2> HIDE DEF g
  <2>3. FrameInv(t, g)
    BY <1>4, <2>2 DEF FrameInv, ClassOfFrame, SearchOfFrame, Stages
  <2> QED BY <1>2, <2>1, <2>2, <2>3, QuietBecome
<1>6. CASE ~(Goto(t, "publish") /\ UNCHANGED jvm)
  <2>1. PICK g : g = ClinitFrame(f.type, f.class)
    OBVIOUS
  <2>2. /\ initialiser' = [initialiser EXCEPT ![f.class] = t] /\ PushOn(t, f, g)
        /\ UNCHANGED <<finds, classCell, apiCell, registered, initialised, calls>>
    BY <1>1, <1>6, <2>1 DEF LookupIds, cells
  <2>3. g \in Frame /\ g.pc = "clinit" /\ g.class = f.class /\ g.thrown = NoThrow
    BY <1>4, <2>1, ClinitFrameFacts
  <2>4. Grows
    BY <2>2 DEF Grows
  <2>5. FrameInv(t, f)'
    BY <1>3, <2>4, FrameKept
  <2>6. FrameInv(t, g)'
    BY <1>4, <2>2, <2>3 DEF FrameInv, ClassOfFrame, SearchOfFrame, Stages
  <2>7. StackOK' /\ FramesInv'
    BY <1>0, <1>2, <1>3, <2>2, <2>3, <2>4, <2>5, <2>6, PushKeeps
  <2>8. LookupTypeOK' /\ InitialiserInv' /\ BindingsAgree'
    BY <1>0, <1>4, <2>2, <2>7 DEF LookupTypeOK, StackOK, InitialiserInv, EarlyClasses, BindingsAgree
  <2> QED BY <2>7, <2>8 DEF LookupInv
<1> QED BY <1>5, <1>6

LEMMA PublishKeeps ==
    ASSUME LookupInv, NEW t \in Threads, Publish(t)
    PROVE  LookupInv'
<1>0. StackOK /\ FramesInv /\ LookupTypeOK /\ BindingsAgree /\ InitialiserInv
  BY DEF LookupInv, LookupTypeOK, StackOK
<1>1. PICK f : f = Top(t)
  OBVIOUS
<1>2. /\ stack[t] # <<>> /\ f.pc = "publish" /\ Leave(t, FALSE)
      /\ apiCell' = [apiCell EXCEPT ![f.type] = IF @ = NoClass THEN f.class ELSE @]
      /\ UNCHANGED <<finds, classCell, registered, initialiser, initialised, calls>>
  BY <1>1 DEF Publish, At, jvm
<1>3. f \in Frame /\ FrameInv(t, f)
  BY <1>0, <1>1, <1>2, TopFacts
<1>4. f.class \in Classes /\ f.class = classCell[f.type] /\ f.class \in registered
  BY <1>2, <1>3 DEF FrameInv, ClassOfFrame
<1>5. Grows
  BY <1>2 DEF Grows
<1>6. StackOK' /\ FramesInv'
  BY <1>0, <1>2, <1>5, LeaveKeeps
<1>7. LookupTypeOK' /\ InitialiserInv'
  <2>1. apiCell' \in [Types -> Classes \union {NoClass}]
    BY <1>0, <1>2, <1>4 DEF LookupTypeOK
  <2> QED BY <1>0, <1>2, <1>6, <2>1 DEF LookupTypeOK, StackOK, InitialiserInv, EarlyClasses
<1>8. BindingsAgree'
  BY <1>0, <1>2, <1>4 DEF BindingsAgree, LookupTypeOK
<1> QED BY <1>6, <1>7, <1>8 DEF LookupInv

LEMMA EndClinitKeeps ==
    ASSUME LookupInv, NEW t \in Threads, EndClinit(t)
    PROVE  LookupInv'
<1>0. StackOK /\ FramesInv /\ LookupTypeOK /\ BindingsAgree /\ InitialiserInv
  BY DEF LookupInv, LookupTypeOK, StackOK
<1>1. PICK f : f = Top(t)
  OBVIOUS
<1>2. /\ stack[t] # <<>> /\ f.pc \in {"native", "clinit"} /\ Leave(t, FALSE)
      /\ initialised' = initialised \union {f.class}
      /\ initialiser' = [initialiser EXCEPT ![f.class] = Nobody]
      /\ UNCHANGED <<finds, classCell, apiCell, registered, calls>>
  BY <1>1 DEF EndClinit, At, cells
<1>3. f \in Frame /\ FrameInv(t, f)
  BY <1>0, <1>1, <1>2, TopFacts
<1>4. f.class \in Classes /\ f.class \in registered
  BY <1>2, <1>3 DEF FrameInv, ClassOfFrame
<1>5. Grows
  BY <1>2 DEF Grows
<1>6. StackOK' /\ FramesInv'
  BY <1>0, <1>2, <1>5, LeaveKeeps
<1>7. LookupTypeOK' /\ InitialiserInv' /\ BindingsAgree'
  BY <1>0, <1>2, <1>4, <1>6 DEF LookupTypeOK, StackOK, InitialiserInv, EarlyClasses, BindingsAgree
<1> QED BY <1>6, <1>7 DEF LookupInv

(* A thread begins a call of get, or uses a class from Java. *)
LEMMA BeginsKeeps ==
    ASSUME LookupInv, NEW t \in Threads, NEW type \in Types,
           JavaUses(t, type) \/ \E via \in Contexts : LookUp(t, type, via)
    PROVE  LookupInv'
<1>0. StackOK /\ FramesInv /\ LookupTypeOK /\ BindingsAgree /\ InitialiserInv
  BY DEF LookupInv, LookupTypeOK, StackOK
<1>1. CASE JavaUses(t, type)
  <2>1. PICK c : c = classCell[type]
    OBVIOUS
  <2>2. PICK g : g = ClinitFrame(type, c)
    OBVIOUS
  <2>3. /\ c \in registered /\ initialiser' = [initialiser EXCEPT ![c] = t]
        /\ stack' = [stack EXCEPT ![t] = <<g>>] /\ failed' = [failed EXCEPT ![t] = FALSE]
        /\ calls[t] < MaxCalls /\ calls' = [calls EXCEPT ![t] = @ + 1]
        /\ UNCHANGED <<finds, classCell, apiCell, registered, initialised>>
    BY <1>1, <2>1, <2>2 DEF JavaUses, cells
  <2>4. c \in Classes
    BY <1>0, <2>3 DEF LookupTypeOK
  <2>5. g \in Frame /\ g.pc = "clinit" /\ g.class = c /\ g.thrown = NoThrow
    BY <2>2, <2>4, ClinitFrameFacts
  <2>6. Grows
    BY <2>3 DEF Grows
  <2>7. FrameInv(t, g)'
    BY <2>3, <2>4, <2>5 DEF FrameInv, ClassOfFrame, SearchOfFrame, Stages
  <2>8. StackOK' /\ FramesInv'
    BY <1>0, <2>3, <2>5, <2>6, <2>7, BeginKeeps
  <2>9. calls' \in [Threads -> 0..MaxCalls]
    BY <1>0, <2>3, BoundsAssumption DEF LookupTypeOK
  <2>10. LookupTypeOK' /\ InitialiserInv' /\ BindingsAgree'
    BY <1>0, <2>3, <2>4, <2>8, <2>9 DEF LookupTypeOK, StackOK, InitialiserInv, EarlyClasses, BindingsAgree
  <2> QED BY <2>8, <2>10 DEF LookupInv
<1>2. ASSUME NEW via \in Contexts, LookUp(t, type, via)
      PROVE  LookupInv'
  <2>1. PICK g : g = GetFrame(type, via)
    OBVIOUS
  <2>2. /\ stack' = [stack EXCEPT ![t] = <<g>>] /\ failed' = [failed EXCEPT ![t] = FALSE]
        /\ calls[t] < MaxCalls /\ calls' = [calls EXCEPT ![t] = @ + 1]
        /\ UNCHANGED <<finds, classCell, apiCell, registered, initialiser, initialised>>
    BY <1>2, <2>1 DEF LookUp, cells, jvm
  <2>3. g \in Frame /\ FrameInv(t, g)
    BY <2>1, GetFrameFacts
  <2>4. Grows
    BY <2>2 DEF Grows
  <2>5. FrameInv(t, g)'
    BY <2>3, <2>4, FrameKept
  <2>6. StackOK' /\ FramesInv'
    BY <1>0, <2>2, <2>3, <2>4, <2>5, BeginKeeps
  <2>7. calls' \in [Threads -> 0..MaxCalls]
    BY <1>0, <2>2, BoundsAssumption DEF LookupTypeOK
  <2>8. LookupTypeOK' /\ InitialiserInv' /\ BindingsAgree'
    BY <1>0, <2>2, <2>6, <2>7 DEF LookupTypeOK, StackOK, InitialiserInv, EarlyClasses, BindingsAgree
  <2> QED BY <2>6, <2>8 DEF LookupInv
<1> QED BY <1>1, <1>2

-------------------------------------------------------------------------------
LEMMA LookupKeeps == LookupInv /\ [LookupNext]_lookupVars => LookupInv'
<1> SUFFICES ASSUME LookupInv, [LookupNext]_lookupVars PROVE LookupInv'
  OBVIOUS
<1>1. CASE UNCHANGED lookupVars
  <2>1. Quiet /\ stack' = stack /\ failed' = failed
    BY <1>1 DEF lookupVars, Quiet, cells, jvm
  <2>2. \A t \in Threads : \A i \in 1..Len(stack[t]) : \A f : f = stack[t][i] => FrameInv(t, f)'
    BY QuietGrows, <2>1, FrameKept DEF FramesInv, StackOK
  <2>3. FramesInv'
    BY <2>1, <2>2 DEF FramesInv
  <2> QED BY <2>1, <2>3, QuietGrows, QuietKeeps DEF StackOK
<1>2. ASSUME NEW t \in Threads, LookupStep(t) PROVE LookupInv'
  BY <1>2, ReadApiKeeps, ReadClassKeeps, SetClassKeeps, FailKeeps, RegisterKeeps, LookupIdsKeeps,
     PublishKeeps, CallNativeKeeps, EndClinitKeeps, MatchExceptionKeeps, MatchedKeeps,
     GetLoaderKeeps, AskKeeps DEF LookupStep
<1> QED BY <1>1, <1>2, BeginsKeeps DEF LookupNext

LEMMA LookupInvariant == LookupSpec => []LookupInv
  BY LookupInit, LookupKeeps, PTL DEF LookupSpec

(* Every variable keeps its type. *)
THEOREM LookupsTyped == LookupSpec => []LookupTypeOK
<1>1. LookupInv => LookupTypeOK
  BY DEF LookupInv
<1> QED BY <1>1, LookupInvariant, PTL

(* All users of a type work with one class, and its native methods are registered. *)
THEOREM BindingsAreOne == LookupSpec => []BindingsAgree
<1>1. LookupInv => BindingsAgree
  BY DEF LookupInv
<1> QED BY <1>1, LookupInvariant, PTL

(* No static initialiser that calls a native method starts before it is registered. *)
THEOREM NativesComeFirst == LookupSpec => []NativesBeforeInit
<1>1. ASSUME LookupInv PROVE NativesBeforeInit
  <2> SUFFICES ASSUME NEW y \in CallsBack, NEW l \in Loaders, finds[l][y] \in Classes,
                      finds[l][y] \in initialised \/ initialiser[finds[l][y]] # Nobody,
                      finds[l][y] \notin registered
               PROVE  FALSE
    BY DEF NativesBeforeInit
  <2>1. finds[l][y] \in EarlyClasses
    BY <1>1 DEF LookupInv, InitialiserInv
  <2>2. PICK m \in Loaders, z \in Types \ CallsBack : finds[l][y] = finds[m][z]
    BY <2>1 DEF EarlyClasses
  <2>3. finds \in Worlds /\ y \in Types
    BY <1>1, TypesAssumption DEF LookupInv, LookupTypeOK
  <2> QED BY <2>2, <2>3, ClassNamesAssumption
<1> QED BY <1>1, LookupInvariant, PTL

(* The class that is kept is the one the documented order of loaders comes to first. *)
THEOREM LoadersInOrder == LookupSpec => []FirstLoaderWins
<1>1. LookupInv => FirstLoaderWins
  BY DEF LookupInv, FramesInv, FrameInv, SearchOfFrame, FirstLoaderWins
<1> QED BY <1>1, LookupInvariant, PTL

-------------------------------------------------------------------------------
(* Who waits for whom: a thread waits only for the static initialiser of a class that another
   thread is running.  The invariant says how the calls on a stack lie on each other. *)

Initialising(f) == f.pc \in {"clinit", "native"}
Runs(f, c) == Initialising(f) /\ f.class = c

(* The call of get by the native method of the initialiser f: it never searches. *)
Nested(g, f) ==
    /\ f.pc = "native" /\ g.type = f.type /\ g.thrown = NoThrow
    /\ g.pc \in {"api", "class", "register", "ids", "publish"}
Shape(s) ==
    \A i \in 1..Len(s) :
        Initialising(s[i]) => i = Len(s) \/ (i = Len(s) - 1 /\ Nested(s[Len(s)], s[i]))

FrameWaits(t, f) ==
    /\ f.thrown # NoThrow => f.pc \in Stages
    /\ Initialising(f) => f.class = classCell[f.type] /\ initialiser[f.class] = t
FramesWait == \A t \in Threads : \A i \in 1..Len(stack[t]) : FrameWaits(t, stack[t][i])
StacksShaped == \A t \in Threads : Shape(stack[t])
InitialisersRun ==
    \A c \in Classes, u \in Threads :
        initialiser[c] = u => \E i \in 1..Len(stack[u]) : Runs(stack[u][i], c)

WaitInv == FramesWait /\ StacksShaped /\ InitialisersRun

CellsGrow == \A y \in Types : classCell[y] # NoClass => classCell'[y] = classCell[y]

LEMMA TopWaits ==
    ASSUME LookupInv, WaitInv, NEW t \in Threads, stack[t] # <<>>
    PROVE  /\ Top(t) \in Frame /\ FrameInv(t, Top(t)) /\ FrameWaits(t, Top(t))
           /\ Top(t).type \in Types /\ Len(stack[t]) \in 1..Len(stack[t])
<1>1. StackOK /\ FramesInv
  BY DEF LookupInv, LookupTypeOK, StackOK
<1>2. Top(t) \in Frame /\ FrameInv(t, Top(t))
  BY <1>1, TopFacts
<1>3. Len(stack[t]) \in 1..Len(stack[t])
  BY <1>1, BelowFacts DEF StackOK
<1> QED BY <1>2, <1>3 DEF WaitInv, FramesWait, Frame, Top

(* What is known of a call that runs an initialiser stays known while it does. *)
LEMMA WaitsKept ==
    ASSUME LookupInv, CellsGrow, NEW t \in Threads, NEW i \in 1..Len(stack[t]),
           NEW f, f = stack[t][i], FrameWaits(t, f),
           Initialising(f) => initialiser'[f.class] = initialiser[f.class]
    PROVE  FrameWaits(t, f)'
<1>1. f \in Frame /\ FrameInv(t, f)
  BY DEF LookupInv, LookupTypeOK, FramesInv
<1>2. Initialising(f) => f.class \in Classes /\ f.type \in Types
  BY <1>1 DEF FrameInv, ClassOfFrame, Initialising, Frame
<1> QED BY <1>2, NamesAssumption DEF FrameWaits, CellsGrow, Initialising

(* The stack of one thread changes; it begins or ends initialisers of its own only. *)
LEMMA StackWaits ==
    ASSUME LookupInv, WaitInv, CellsGrow, NEW t \in Threads, NEW s,
           stack' = [stack EXCEPT ![t] = s], Shape(s),
           \A i \in 1..Len(s) : FrameWaits(t, s[i])',
           \A c \in Classes : initialiser'[c] # initialiser[c] =>
               initialiser[c] \in {t, Nobody} /\ initialiser'[c] \in {t, Nobody},
           \A c \in Classes : initialiser'[c] = t => \E i \in 1..Len(s) : Runs(s[i], c)
    PROVE  WaitInv'
<1>1. stack'[t] = s /\ \A u \in Threads \ {t} : stack'[u] = stack[u]
  BY DEF LookupInv, LookupTypeOK
<1>2. StacksShaped'
  BY <1>1 DEF WaitInv, StacksShaped
<1>3. ASSUME NEW u \in Threads \ {t}, NEW i \in 1..Len(stack[u]), NEW f, f = stack[u][i]
      PROVE  FrameWaits(u, f)'
  <2>1. f \in Frame /\ FrameInv(u, f) /\ FrameWaits(u, f)
    BY <1>3 DEF LookupInv, LookupTypeOK, FramesInv, WaitInv, FramesWait
  <2>2. Initialising(f) => f.class \in Classes /\ initialiser[f.class] = u
    BY <2>1 DEF FrameInv, ClassOfFrame, Initialising, FrameWaits
  <2>3. Initialising(f) => initialiser'[f.class] = initialiser[f.class]
    BY <2>2, NobodyAssumption
  <2> QED BY <1>3, <2>1, <2>3, WaitsKept
<1>4. FramesWait'
  <2> SUFFICES ASSUME NEW u \in Threads, NEW i \in 1..Len(stack'[u]), NEW f, f = stack'[u][i]
               PROVE  FrameWaits(u, f)'
    BY DEF FramesWait
  <2>1. CASE u = t
    BY <1>1, <2>1
  <2>2. CASE u # t
    BY <1>1, <1>3, <2>2
  <2> QED BY <2>1, <2>2
<1>5. InitialisersRun'
  <2> SUFFICES ASSUME NEW c \in Classes, NEW u \in Threads, initialiser'[c] = u
               PROVE  \E i \in 1..Len(stack'[u]) : Runs(stack'[u][i], c)
    BY DEF InitialisersRun, Runs, Initialising
  <2>1. CASE u = t
    BY <1>1, <2>1
  <2>2. CASE u # t
    <3>1. initialiser[c] = u
      BY <2>2, NobodyAssumption
    <3> QED BY <1>1, <2>2, <3>1 DEF WaitInv, InitialisersRun
  <2> QED BY <2>1, <2>2
<1> QED BY <1>2, <1>4, <1>5 DEF WaitInv

-------------------------------------------------------------------------------
(* The call on top is changed, another one is pushed on it, or it returns. *)

(* The frames below the top one, none of which runs an initialiser but that of a nested call *)
LEMMA BelowWaits ==
    ASSUME LookupInv, WaitInv, NEW t \in Threads, stack[t] # <<>>, NEW b, b = Front(stack[t])
    PROVE  /\ b \in Seq(Frame) /\ Len(b) \in Nat /\ Len(stack[t]) = Len(b) + 1
           /\ \A i \in 1..Len(b) : i \in 1..Len(stack[t]) /\ b[i] = stack[t][i]
           /\ \A i \in 1..Len(b) : Initialising(b[i]) => i = Len(b) /\ Nested(Top(t), b[i])
<1>1. stack[t] \in Seq(Frame)
  BY DEF LookupInv, LookupTypeOK
<1>2. /\ b \in Seq(Frame) /\ Len(b) \in Nat /\ Len(stack[t]) = Len(b) + 1
      /\ \A i \in 1..Len(b) : i \in 1..Len(stack[t]) /\ b[i] = stack[t][i]
  <2>1. /\ Len(stack[t]) \in Nat \ {0} /\ b \in Seq(Frame) /\ Len(b) = Len(stack[t]) - 1
        /\ \A i \in 1..(Len(stack[t]) - 1) : b[i] = stack[t][i]
    BY <1>1, BelowFacts
  <2> QED BY <2>1
<1>3. ASSUME NEW i \in 1..Len(b), Initialising(b[i]) PROVE i = Len(b) /\ Nested(Top(t), b[i])
  BY <1>2, <1>3 DEF WaitInv, StacksShaped, Shape, Top
<1> QED BY <1>2, <1>3

LEMMA BecomeWaits ==
    ASSUME LookupInv, WaitInv, CellsGrow, UNCHANGED initialiser,
           NEW t \in Threads, stack[t] # <<>>, NEW g \in Frame, Become(t, g), FrameWaits(t, g)',
           \A i \in 1..Len(stack[t]) :
               Initialising(stack[t][i]) /\ Nested(Top(t), stack[t][i]) => Nested(g, stack[t][i]),
           \A c : Runs(Top(t), c) => Runs(g, c)
    PROVE  WaitInv'
<1>1. PICK b : b = Front(stack[t])
  OBVIOUS
<1>2. /\ b \in Seq(Frame) /\ Len(b) \in Nat /\ Len(stack[t]) = Len(b) + 1
      /\ \A i \in 1..Len(b) : i \in 1..Len(stack[t]) /\ b[i] = stack[t][i]
      /\ \A i \in 1..Len(b) : Initialising(b[i]) => i = Len(b) /\ Nested(Top(t), b[i])
  BY <1>1, BelowWaits
<1>3. PICK s : s = Append(b, g)
  OBVIOUS
<1>4. Len(s) = Len(b) + 1 /\ s[Len(b) + 1] = g /\ \A i \in 1..Len(b) : s[i] = b[i]
  BY <1>2, <1>3, OneMoreFacts
<1>5. \A i \in 1..Len(s) : i \in 1..Len(b) \/ i = Len(b) + 1
  BY <1>2, <1>4
<1>6. stack' = [stack EXCEPT ![t] = s]
  BY <1>1, <1>3 DEF Become
<1>7. Shape(s)
  <2> SUFFICES ASSUME NEW i \in 1..Len(s), Initialising(s[i]), i # Len(s)
               PROVE  i = Len(s) - 1 /\ Nested(s[Len(s)], s[i])
    BY DEF Shape
  <2>1. i \in 1..Len(b) /\ s[i] = b[i] /\ s[i] = stack[t][i] /\ i \in 1..Len(stack[t])
    BY <1>2, <1>4, <1>5
  <2>2. i = Len(b) /\ Nested(Top(t), stack[t][i])
    BY <1>2, <2>1
  <2>3. Nested(g, s[i])
    BY <2>1, <2>2
  <2> QED BY <1>2, <1>4, <2>2, <2>3
<1>8. ASSUME NEW i \in 1..Len(s) PROVE FrameWaits(t, s[i])'
  <2>1. CASE i = Len(b) + 1
    BY <1>4, <2>1
  <2>2. ASSUME i \in 1..Len(b), NEW f, f = s[i] PROVE FrameWaits(t, f)'
    <3>1. i \in 1..Len(stack[t]) /\ f = stack[t][i]
      BY <1>2, <1>4, <2>2
    <3>2. FrameWaits(t, f)
      BY <3>1 DEF WaitInv, FramesWait
    <3> QED BY <3>1, <3>2, WaitsKept
  <2> QED BY <1>5, <2>1, <2>2
<1>9. ASSUME NEW c \in Classes, initialiser'[c] = t PROVE \E i \in 1..Len(s) : Runs(s[i], c)
  <2>1. PICK i \in 1..Len(stack[t]) : Runs(stack[t][i], c)
    BY <1>9 DEF WaitInv, InitialisersRun
  <2>2. CASE i = Len(stack[t])
    <3>1. Runs(g, c) /\ Len(b) + 1 \in 1..Len(s)
      BY <1>2, <1>4, <2>1, <2>2 DEF Top
    <3> QED BY <1>4, <3>1
  <2>3. CASE i # Len(stack[t])
    <3>1. i \in 1..Len(b) /\ i \in 1..Len(s) /\ s[i] = stack[t][i]
      BY <1>2, <1>4, <2>3
    <3> QED BY <2>1, <3>1
  <2> QED BY <2>2, <2>3
<1> QED BY <1>6, <1>7, <1>8, <1>9, StackWaits

LEMMA PushWaits ==
    ASSUME LookupInv, WaitInv, UNCHANGED classCell, NEW t \in Threads, stack[t] # <<>>,
           \A i \in 1..Len(stack[t]) :
               Initialising(stack[t][i]) => ~Nested(Top(t), stack[t][i]),
           NEW g \in Frame, NEW h \in Frame, PushOn(t, g, h), FrameWaits(t, g)', FrameWaits(t, h)',
           Initialising(g) => Nested(h, g), \A c : Runs(Top(t), c) => Runs(g, c),
           \A c \in Classes : \/ initialiser'[c] = initialiser[c]
                              \/ initialiser[c] = Nobody /\ initialiser'[c] = t /\ Runs(h, c)
    PROVE  WaitInv'
<1>1. PICK b : b = Front(stack[t])
  OBVIOUS
<1>2. /\ b \in Seq(Frame) /\ Len(b) \in Nat /\ Len(stack[t]) = Len(b) + 1
      /\ \A i \in 1..Len(b) : i \in 1..Len(stack[t]) /\ b[i] = stack[t][i]
      /\ \A i \in 1..Len(b) : Initialising(b[i]) => i = Len(b) /\ Nested(Top(t), b[i])
  BY <1>1, BelowWaits
<1>3. \A i \in 1..Len(b) : ~Initialising(b[i])
  BY <1>2
<1>4. PICK m : m = Append(b, g)
  OBVIOUS
<1>5. /\ m \in Seq(Frame) /\ Len(m) = Len(b) + 1 /\ m[Len(b) + 1] = g
      /\ \A i \in 1..Len(b) : m[i] = b[i]
  BY <1>2, <1>4, OneMoreFacts
<1>6. PICK s : s = Append(m, h)
  OBVIOUS
<1>7. /\ Len(s) = Len(b) + 2 /\ s[Len(b) + 2] = h /\ s[Len(b) + 1] = g
      /\ \A i \in 1..Len(b) : s[i] = b[i]
  <2>1. Len(s) = Len(m) + 1 /\ s[Len(m) + 1] = h /\ \A i \in 1..Len(m) : s[i] = m[i]
    BY <1>5, <1>6, OneMoreFacts
  <2>2. (Len(b) + 1) \in 1..Len(m) /\ \A i \in 1..Len(b) : i \in 1..Len(m)
    BY <1>2, <1>5
  <2> QED BY <1>2, <1>5, <2>1, <2>2
<1>8. \A i \in 1..Len(s) : i \in 1..Len(b) \/ i = Len(b) + 1 \/ i = Len(b) + 2
  BY <1>2, <1>7
<1>9. stack' = [stack EXCEPT ![t] = s]
  BY <1>1, <1>4, <1>6 DEF PushOn
<1>10. Shape(s)
  <2> SUFFICES ASSUME NEW i \in 1..Len(s), Initialising(s[i]), i # Len(s)
               PROVE  i = Len(s) - 1 /\ Nested(s[Len(s)], s[i])
    BY DEF Shape
  <2>1. i = Len(b) + 1
    BY <1>3, <1>7, <1>8
  <2> QED BY <1>2, <1>7, <2>1
<1>11. ASSUME NEW i \in 1..Len(s) PROVE FrameWaits(t, s[i])'
  <2>1. CASE i = Len(b) + 1 \/ i = Len(b) + 2
    BY <1>7, <2>1
  <2>2. ASSUME i \in 1..Len(b), NEW f, f = s[i] PROVE FrameWaits(t, f)'
    <3>1. i \in 1..Len(stack[t]) /\ f = stack[t][i] /\ ~Initialising(f)
      BY <1>2, <1>3, <1>7, <2>2
    <3>2. FrameWaits(t, f)
      BY <3>1 DEF WaitInv, FramesWait
    <3> QED BY <3>1, <3>2 DEF FrameWaits, Initialising
  <2> QED BY <1>8, <2>1, <2>2
<1>12. ASSUME NEW c \in Classes, initialiser'[c] = t PROVE \E i \in 1..Len(s) : Runs(s[i], c)
  <2>0. Len(b) + 1 \in 1..Len(s) /\ Len(b) + 2 \in 1..Len(s)
    BY <1>2, <1>7
  <2>1. CASE Runs(h, c)
    BY <1>7, <2>0, <2>1
  <2>2. CASE initialiser[c] = t
    <3>1. PICK i \in 1..Len(stack[t]) : Runs(stack[t][i], c)
      BY <2>2 DEF WaitInv, InitialisersRun
    <3>2. i = Len(stack[t])
      <4>1. i \notin 1..Len(b)
        BY <1>2, <1>3, <3>1 DEF Runs
      <4> QED BY <1>2, <4>1
    <3>3. Runs(g, c)
      BY <3>1, <3>2 DEF Top, Runs
    <3> QED BY <1>7, <2>0, <3>3
  <2> QED BY <1>12, <2>1, <2>2
<1>13. CellsGrow
  BY DEF CellsGrow
<1> QED BY <1>9, <1>10, <1>11, <1>12, <1>13, StackWaits

(* A call returns, and with it the initialiser it runs, if it runs one. *)
LEMMA LeaveWaits ==
    ASSUME LookupInv, WaitInv, UNCHANGED classCell, NEW t \in Threads, stack[t] # <<>>,
           NEW e, Leave(t, e),
           \A c \in Classes : initialiser'[c] = IF Runs(Top(t), c) THEN Nobody ELSE initialiser[c]
    PROVE  WaitInv'
<1>1. PICK s : s = Front(stack[t])
  OBVIOUS
<1>2. /\ s \in Seq(Frame) /\ Len(s) \in Nat /\ Len(stack[t]) = Len(s) + 1
      /\ \A i \in 1..Len(s) : i \in 1..Len(stack[t]) /\ s[i] = stack[t][i]
      /\ \A i \in 1..Len(s) : Initialising(s[i]) => i = Len(s) /\ Nested(Top(t), s[i])
  BY <1>1, BelowWaits
<1>3. stack' = [stack EXCEPT ![t] = s]
  BY <1>1 DEF Leave
<1>4. Shape(s)
  BY <1>2 DEF Shape
<1>5. CellsGrow
  BY DEF CellsGrow
<1>6. FrameWaits(t, Top(t))
  BY TopWaits
<1>7. \A c : Runs(Top(t), c) => initialiser[c] = t
  BY <1>6 DEF FrameWaits, Runs
<1>8. ASSUME NEW i \in 1..Len(s), NEW f, f = s[i] PROVE FrameWaits(t, f)'
  <2>1. i \in 1..Len(stack[t]) /\ f = stack[t][i]
    BY <1>2, <1>8
  <2>2. FrameWaits(t, f) /\ FrameInv(t, f)
    BY <2>1 DEF WaitInv, FramesWait, LookupInv, FramesInv
  <2>3. ASSUME Initialising(f) PROVE initialiser'[f.class] = initialiser[f.class]
    <3>1. ~Initialising(Top(t))
      BY <1>2, <1>8, <2>3 DEF Nested, Initialising
    <3>2. f.class \in Classes
      BY <2>2, <2>3 DEF FrameInv, ClassOfFrame, Initialising
    <3> QED BY <3>1, <3>2 DEF Runs
  <2> QED BY <1>5, <2>1, <2>2, <2>3, WaitsKept
<1>9. ASSUME NEW c \in Classes, initialiser'[c] = t PROVE \E i \in 1..Len(s) : Runs(s[i], c)
  <2>1. initialiser[c] = t /\ ~Runs(Top(t), c)
    BY <1>9, NobodyAssumption
  <2>2. PICK i \in 1..Len(stack[t]) : Runs(stack[t][i], c)
    BY <2>1 DEF WaitInv, InitialisersRun
  <2>3. i # Len(stack[t])
    BY <2>1, <2>2 DEF Top
  <2>4. i \in 1..Len(s)
    BY <1>2, <2>3
  <2> QED BY <1>2, <2>2, <2>4
<1>10. \A c \in Classes : initialiser'[c] # initialiser[c] =>
           initialiser[c] \in {t, Nobody} /\ initialiser'[c] \in {t, Nobody}
  BY <1>7
<1> QED BY <1>3, <1>4, <1>5, <1>8, <1>9, <1>10, StackWaits

(* A thread outside all calls begins one. *)
LEMMA BeginWaits ==
    ASSUME LookupInv, WaitInv, UNCHANGED classCell, NEW t \in Threads, stack[t] = <<>>,
           NEW s, NEW f, Len(s) = 1, s[1] = f, stack' = [stack EXCEPT ![t] = s], FrameWaits(t, f)',
           \A c \in Classes : \/ initialiser'[c] = initialiser[c]
                              \/ initialiser[c] = Nobody /\ initialiser'[c] = t /\ Runs(f, c)
    PROVE  WaitInv'
<1>1. 1..Len(s) = {1}
  OBVIOUS
<1>2. Shape(s)
  BY <1>1 DEF Shape
<1>3. \A i \in 1..Len(s) : FrameWaits(t, s[i])'
  BY <1>1
<1>4. ASSUME NEW c \in Classes, initialiser'[c] = t PROVE \E i \in 1..Len(s) : Runs(s[i], c)
  <2>1. initialiser[c] # t
    <3>1. 1..Len(stack[t]) = {}
      <4>1. Len(stack[t]) = 0
        OBVIOUS
      <4> QED BY <4>1
    <3> QED BY <3>1 DEF WaitInv, InitialisersRun
  <2> QED BY <1>1, <1>4, <2>1
<1>5. CellsGrow
  BY DEF CellsGrow
<1> QED BY <1>2, <1>3, <1>4, <1>5, StackWaits

LEMMA WaitInit == InitLookup => WaitInv
<1> SUFFICES ASSUME InitLookup PROVE WaitInv
  OBVIOUS
<1>1. \A t \in Threads : Len(stack[t]) = 0
  BY DEF InitLookup
<1>2. \A t \in Threads : 1..Len(stack[t]) = {}
  BY <1>1
<1>3. \A c \in Classes, u \in Threads : initialiser[c] # u
  BY NobodyAssumption DEF InitLookup
<1> QED BY <1>2, <1>3 DEF WaitInv, FramesWait, StacksShaped, Shape, InitialisersRun

-------------------------------------------------------------------------------
(* Each action keeps WaitInv.  A step of the search is nested in nothing. *)
LEMMA SearchGoesOn ==
    ASSUME LookupInv, WaitInv, CellsGrow, UNCHANGED initialiser, NEW t \in Threads, stack[t] # <<>>,
           NEW f, f = Top(t), f.pc \in Stages \union {"set"} \/ f.thrown # NoThrow,
           NEW g \in Frame, Become(t, g), ~Initialising(g), g.thrown # NoThrow => g.pc \in Stages
    PROVE  WaitInv'
<1>1. FrameWaits(t, f)
  BY TopWaits
<1>2. f.pc \in Stages \union {"set"}
  BY <1>1 DEF FrameWaits
<1>3. ~Initialising(f) /\ \A h : ~Nested(f, h)
  BY <1>2 DEF Stages, Initialising, Nested
<1>4. FrameWaits(t, g)'
  BY DEF FrameWaits, Initialising
<1> QED BY <1>3, <1>4, BecomeWaits DEF Runs

LEMMA QuietCells == ASSUME Quiet PROVE CellsGrow /\ UNCHANGED <<classCell, initialiser>>
  BY DEF Quiet, cells, jvm, CellsGrow

(* A call that runs no initialiser returns. *)
LEMMA QuietLeaves ==
    ASSUME LookupInv, WaitInv, UNCHANGED <<classCell, initialiser>>, NEW t \in Threads,
           stack[t] # <<>>, NEW e, Leave(t, e), ~Initialising(Top(t))
    PROVE  WaitInv'
<1> HIDE DEF Top
<1>1. \A c \in Classes : initialiser'[c] = IF Runs(Top(t), c) THEN Nobody ELSE initialiser[c]
  BY DEF Runs
<1> QED BY <1>1, LeaveWaits

(* A call that may be nested goes on where it may be nested. *)
LEMMA NestedGoesOn ==
    ASSUME LookupInv, WaitInv, UNCHANGED <<classCell, initialiser>>, NEW t \in Threads,
           stack[t] # <<>>, NEW f, f = Top(t), f.pc \in {"api", "class", "register", "ids"},
           f.thrown = NoThrow,
           NEW step \in {"class", "register", "ids", "publish"}, NEW c \in Classes \union {NoClass},
           NEW g, g = [f EXCEPT !.pc = step, !.class = c], Become(t, g)
    PROVE  WaitInv'
<1>1. f \in Frame
  BY TopWaits
<1>2. g \in Frame /\ g.pc = step /\ g.thrown = NoThrow /\ g.type = f.type
  BY <1>1 DEF Frame, Steps
<1>3. FrameWaits(t, g)' /\ ~Initialising(f)
  BY <1>2 DEF FrameWaits, Initialising
<1>4. \A h : Nested(f, h) => Nested(g, h)
  BY <1>2 DEF Nested
<1>5. CellsGrow
  BY DEF CellsGrow
<1> QED BY <1>2, <1>3, <1>4, <1>5, BecomeWaits DEF Runs

LEMMA ReadApiWaits ==
    ASSUME LookupInv, WaitInv, NEW t \in Threads, ReadApi(t)
    PROVE  WaitInv'
<1>1. PICK f : f = Top(t)
  OBVIOUS
<1>2. Quiet /\ stack[t] # <<>> /\ f.pc = "api" /\ f.thrown = NoThrow
  BY <1>1 DEF ReadApi, At, Quiet
<1>3. f \in Frame
  BY <1>1, <1>2, TopWaits
<1>4. PICK g : g = [f EXCEPT !.pc = "class", !.class = f.class]
  OBVIOUS
<1>5. g = [f EXCEPT !.pc = "class"] /\ f.class \in Classes \union {NoClass}
  BY <1>3, <1>4 DEF Frame
<1>6. Leave(t, FALSE) \/ Become(t, g)
  BY <1>1, <1>5 DEF ReadApi, Goto
<1>7. ~Initialising(f)
  BY <1>2 DEF Initialising
<1>8. CASE Leave(t, FALSE)
  BY <1>1, <1>2, <1>7, <1>8, QuietCells, QuietLeaves
<1>9. CASE Become(t, g)
  BY <1>1, <1>2, <1>4, <1>5, <1>9, QuietCells, NestedGoesOn
<1> QED BY <1>6, <1>8, <1>9

(* A nested call finds the class in CLASS: it is the one that is being initialised. *)
LEMMA ReadClassWaits ==
    ASSUME LookupInv, WaitInv, NEW t \in Threads, ReadClass(t)
    PROVE  WaitInv'
<1>1. PICK f : f = Top(t)
  OBVIOUS
<1>2. PICK cached : cached = classCell[f.type]
  OBVIOUS
<1>3. Quiet /\ stack[t] # <<>> /\ f.pc = "class" /\ f.thrown = NoThrow
  BY <1>1 DEF ReadClass, At, Quiet
<1>4. f \in Frame /\ f.type \in Types
  BY <1>1, <1>3, TopWaits
<1>5. cached \in Classes \union {NoClass}
  BY <1>2, <1>4 DEF LookupInv, LookupTypeOK
<1>6. CASE cached # NoClass
  <2>1. PICK g : g = [f EXCEPT !.pc = "register", !.class = cached]
    OBVIOUS
  <2>2. Become(t, g)
    BY <1>1, <1>2, <1>4, <1>6, <2>1 DEF ReadClass, Frame
  <2> QED BY <1>1, <1>3, <1>5, <2>1, <2>2, QuietCells, NestedGoesOn
<1>7. CASE cached = NoClass
  <2>1. PICK step : step = FirstStage(f.via)
    OBVIOUS
  <2>2. step \in Stages /\ step \in Steps
    BY <2>1 DEF FirstStage, Stages, Steps
  <2>3. PICK g : g = [f EXCEPT !.class = cached, !.pc = step]
    OBVIOUS
  <2>4. Become(t, g)
    BY <1>1, <1>2, <1>7, <2>1, <2>3 DEF ReadClass
  <2>5. g \in Frame /\ g.pc = step /\ g.thrown = NoThrow
    BY <1>3, <1>4, <1>5, <2>2, <2>3 DEF Frame
  <2>6. FrameWaits(t, g)'
    BY <2>2, <2>5 DEF FrameWaits, Initialising, Stages
  <2>7. ASSUME NEW i \in 1..Len(stack[t]), NEW h, h = stack[t][i], Initialising(h)
        PROVE  ~Nested(f, h)
    <3>1. FrameWaits(t, h) /\ FrameInv(t, h)
      BY <2>7 DEF WaitInv, FramesWait, LookupInv, FramesInv
    <3>2. h.class \in Classes /\ h.class = classCell[h.type]
      BY <2>7, <3>1 DEF FrameWaits, FrameInv, ClassOfFrame, Initialising
    <3> QED BY <1>2, <1>7, <3>2, NamesAssumption DEF Nested
  <2>8. ~Initialising(f)
    BY <1>3 DEF Initialising
  <2> QED BY <1>1, <1>3, <2>4, <2>5, <2>6, <2>7, <2>8, QuietCells, BecomeWaits DEF Runs
<1> QED BY <1>6, <1>7

LEMMA SetClassWaits ==
    ASSUME LookupInv, WaitInv, NEW t \in Threads, SetClass(t)
    PROVE  WaitInv'
<1>1. PICK f : f = Top(t)
  OBVIOUS
<1>2. PICK first : first = IF classCell[f.type] = NoClass THEN f.class ELSE classCell[f.type]
  OBVIOUS
<1>3. PICK g : g = [f EXCEPT !.pc = "register", !.class = first]
  OBVIOUS
<1>4. /\ stack[t] # <<>> /\ f.pc = "set" /\ f.thrown = NoThrow /\ Become(t, g)
      /\ classCell' = [classCell EXCEPT ![f.type] = first] /\ UNCHANGED initialiser
  BY <1>1, <1>2, <1>3 DEF SetClass, At, jvm
<1>5. f \in Frame /\ f.type \in Types
  BY <1>1, <1>4, TopWaits
<1>6. first \in Classes \union {NoClass} /\ CellsGrow
  BY <1>2, <1>4, <1>5 DEF LookupInv, LookupTypeOK, CellsGrow, Frame
<1>7. g \in Frame /\ ~Initialising(g) /\ g.thrown = NoThrow
  BY <1>3, <1>4, <1>5, <1>6 DEF Frame, Steps, Initialising
<1> QED BY <1>1, <1>4, <1>6, <1>7, SearchGoesOn

LEMMA FailWaits ==
    ASSUME LookupInv, WaitInv, NEW t \in Threads, GetFails(t) \/ MatchFails(t)
    PROVE  WaitInv'
<1>1. PICK f : f = Top(t)
  OBVIOUS
<1>2. Quiet /\ stack[t] # <<>> /\ Leave(t, TRUE) /\ (f.pc \in {"class", "set", "register", "ids"} \/ f.thrown # NoThrow)
  BY <1>1 DEF GetFails, MatchFails, At, Quiet
<1>3. FrameWaits(t, f)
  BY <1>1, <1>2, TopWaits
<1>4. ~Initialising(f)
  BY <1>2, <1>3 DEF FrameWaits, Stages, Initialising
<1> QED BY <1>1, <1>2, <1>4, QuietCells, QuietLeaves

LEMMA RegisterWaits ==
    ASSUME LookupInv, WaitInv, NEW t \in Threads, RegisterNatives(t)
    PROVE  WaitInv'
<1>1. PICK f : f = Top(t)
  OBVIOUS
<1>2. PICK g : g = [f EXCEPT !.pc = "ids", !.class = f.class]
  OBVIOUS
<1>3. /\ stack[t] # <<>> /\ f.pc = "register" /\ f.thrown = NoThrow
      /\ Become(t, [f EXCEPT !.pc = "ids"]) /\ UNCHANGED <<classCell, initialiser>>
  BY <1>1 DEF RegisterNatives, At, Goto, cells
<1>4. f \in Frame
  BY <1>1, <1>3, TopWaits
<1>5. g = [f EXCEPT !.pc = "ids"] /\ f.class \in Classes \union {NoClass}
  BY <1>2, <1>4 DEF Frame
<1>6. Become(t, g)
  BY <1>3, <1>5
<1> QED BY <1>1, <1>2, <1>3, <1>5, <1>6, NestedGoesOn

(* No call that is nested in an initialiser begins one: its own thread runs the one it needs. *)
LEMMA LookupIdsWaits ==
    ASSUME LookupInv, WaitInv, NEW t \in Threads, LookupIds(t)
    PROVE  WaitInv'
<1>1. PICK f : f = Top(t)
  OBVIOUS
<1>2. stack[t] # <<>> /\ f.pc = "ids" /\ f.thrown = NoThrow
  BY <1>1 DEF LookupIds, At
<1>3. f \in Frame /\ FrameInv(t, f) /\ f.type \in Types
  BY <1>1, <1>2, TopWaits
<1>4. f.class \in Classes /\ f.class = classCell[f.type]
  BY <1>2, <1>3 DEF FrameInv, ClassOfFrame
<1>5. CASE Goto(t, "publish") /\ UNCHANGED jvm
  <2>1. PICK g : g = [f EXCEPT !.pc = "publish", !.class = f.class]
    OBVIOUS
  <2>2. g = [f EXCEPT !.pc = "publish"]
    BY <1>3, <2>1 DEF Frame
  <2>3. Become(t, g) /\ UNCHANGED <<classCell, initialiser>>
    BY <1>1, <1>5, <2>2 DEF LookupIds, Goto, cells, jvm
  <2> QED BY <1>1, <1>2, <1>4, <2>1, <2>3, NestedGoesOn
<1>6. CASE ~(Goto(t, "publish") /\ UNCHANGED jvm)
  <2>1. PICK h : h = ClinitFrame(f.type, f.class)
    OBVIOUS
  <2>2. /\ initialiser[f.class] = Nobody /\ initialiser' = [initialiser EXCEPT ![f.class] = t]
        /\ PushOn(t, f, h) /\ UNCHANGED classCell
    BY <1>1, <1>6, <2>1 DEF LookupIds, cells
  <2>3. /\ h \in Frame /\ h.class = f.class /\ h.thrown = NoThrow /\ h.type = f.type
        /\ Runs(h, f.class)
    BY <1>3, <1>4, <2>1, ClinitFrameFacts DEF ClinitFrame, Runs, Initialising
  <2>4. initialiser'[f.class] = t /\ \A c \in Classes \ {f.class} : initialiser'[c] = initialiser[c]
    BY <1>4, <2>2 DEF LookupInv, LookupTypeOK
  <2>5. FrameWaits(t, h)' /\ FrameWaits(t, f)' /\ ~Initialising(f)
    BY <1>2, <1>4, <2>2, <2>3, <2>4 DEF FrameWaits, Initialising
  <2>6. ASSUME NEW i \in 1..Len(stack[t]), NEW r, r = stack[t][i], Initialising(r)
        PROVE  ~Nested(f, r)
    <3>1. FrameWaits(t, r)
      BY <2>6 DEF WaitInv, FramesWait
    <3> QED BY <1>4, <2>2, <2>6, <3>1, NobodyAssumption DEF FrameWaits, Nested
  <2> QED BY <1>1, <1>2, <1>3, <2>2, <2>3, <2>4, <2>5, <2>6, PushWaits
<1> QED BY <1>5, <1>6

LEMMA PublishWaits ==
    ASSUME LookupInv, WaitInv, NEW t \in Threads, Publish(t)
    PROVE  WaitInv'
<1>1. /\ stack[t] # <<>> /\ Top(t).pc = "publish" /\ Leave(t, FALSE)
      /\ UNCHANGED <<classCell, initialiser>>
  BY DEF Publish, At, jvm
<1>2. ~Initialising(Top(t))
  BY <1>1 DEF Initialising
<1> QED BY <1>1, <1>2, QuietLeaves

LEMMA CallNativeWaits ==
    ASSUME LookupInv, WaitInv, NEW t \in Threads, CallNative(t)
    PROVE  WaitInv'
<1>1. PICK f : f = Top(t)
  OBVIOUS
<1>2. PICK g : g = [f EXCEPT !.pc = "native"]
  OBVIOUS
<1>3. PICK h : h = GetFrame(f.type, "none")
  OBVIOUS
<1>4. Quiet /\ stack[t] # <<>> /\ f.pc = "clinit" /\ f.thrown = NoThrow /\ PushOn(t, g, h)
  BY <1>1, <1>2, <1>3 DEF CallNative, At, Quiet
<1>5. f \in Frame /\ FrameWaits(t, f) /\ f.type \in Types
  BY <1>1, <1>4, TopWaits
<1>6. /\ g \in Frame /\ g.pc = "native" /\ g.type = f.type /\ g.class = f.class
      /\ g.thrown = NoThrow
  BY <1>2, <1>4, <1>5 DEF Frame, Steps
<1>7. h \in Frame /\ h.type = f.type /\ h.pc = "api" /\ h.thrown = NoThrow
  BY <1>3, <1>5, GetFrameFacts DEF GetFrame, Contexts
<1>8. UNCHANGED <<classCell, initialiser>>
  BY <1>4, QuietCells
<1>9. FrameWaits(t, g)' /\ FrameWaits(t, h)'
  BY <1>4, <1>5, <1>6, <1>7, <1>8 DEF FrameWaits, Initialising
<1>10. Nested(h, g) /\ (\A r : ~Nested(f, r)) /\ \A c : Runs(f, c) => Runs(g, c)
  BY <1>4, <1>6, <1>7 DEF Nested, Runs, Initialising
<1> QED BY <1>1, <1>4, <1>6, <1>7, <1>8, <1>9, <1>10, PushWaits

LEMMA EndClinitWaits ==
    ASSUME LookupInv, WaitInv, NEW t \in Threads, EndClinit(t)
    PROVE  WaitInv'
<1>1. PICK f : f = Top(t)
  OBVIOUS
<1>2. /\ stack[t] # <<>> /\ f.pc \in {"native", "clinit"} /\ Leave(t, FALSE)
      /\ initialiser' = [initialiser EXCEPT ![f.class] = Nobody] /\ UNCHANGED classCell
  BY <1>1 DEF EndClinit, At, cells
<1>3. \A c \in Classes : initialiser'[c] = IF Runs(f, c) THEN Nobody ELSE initialiser[c]
  BY <1>2 DEF LookupInv, LookupTypeOK, Runs, Initialising
<1> QED BY <1>1, <1>2, <1>3, LeaveWaits

LEMMA MatchExceptionWaits ==
    ASSUME LookupInv, WaitInv, NEW t \in Threads, MatchException(t)
    PROVE  WaitInv'
<1>1. PICK f : f = Top(t)
  OBVIOUS
<1>2. PICK g : g = [f EXCEPT !.todo = Tail(f.todo)]
  OBVIOUS
<1>3. PICK h : h = GetFrame(Head(f.todo), "none")
  OBVIOUS
<1>4. Quiet /\ stack[t] # <<>> /\ f.thrown # NoThrow /\ f.todo # <<>> /\ PushOn(t, g, h)
  BY <1>1, <1>2, <1>3 DEF MatchException, Quiet
<1>5. f \in Frame /\ FrameWaits(t, f)
  BY <1>1, <1>4, TopWaits
<1>6. Head(f.todo) \in Types /\ Tail(f.todo) \in Seq(Types)
  BY <1>4, <1>5 DEF Frame
<1>7. g \in Frame /\ g.pc = f.pc /\ g.thrown = f.thrown /\ f.pc \in Stages
  BY <1>2, <1>4, <1>5, <1>6 DEF Frame, FrameWaits
<1>8. h \in Frame /\ h.pc = "api" /\ h.thrown = NoThrow
  BY <1>3, <1>6, GetFrameFacts DEF GetFrame, Contexts
<1>9. UNCHANGED <<classCell, initialiser>>
  BY <1>4, QuietCells
<1>10. /\ FrameWaits(t, g)' /\ FrameWaits(t, h)'
       /\ ~Initialising(g) /\ (\A r : ~Nested(f, r)) /\ \A c : ~Runs(f, c)
  BY <1>4, <1>7, <1>8 DEF FrameWaits, Initialising, Runs, Nested, Stages
<1> QED BY <1>1, <1>4, <1>7, <1>8, <1>9, <1>10, PushWaits

LEMMA MatchedWaits ==
    ASSUME LookupInv, WaitInv, NEW t \in Threads, Matched(t)
    PROVE  WaitInv'
<1>1. PICK f : f = Top(t)
  OBVIOUS
<1>2. Quiet /\ stack[t] # <<>> /\ f.thrown # NoThrow
  BY <1>1 DEF Matched, Quiet
<1>3. f \in Frame /\ FrameWaits(t, f)
  BY <1>1, <1>2, TopWaits
<1>4. ~Initialising(f)
  BY <1>2, <1>3 DEF FrameWaits, Stages, Initialising
<1>5. PICK h : h = [f EXCEPT !.thrown = NoThrow]
  OBVIOUS
<1>6. Leave(t, TRUE) \/ \E step \in {"candidate_loader", "vm"} : Become(t, [h EXCEPT !.pc = step])
  BY <1>1, <1>5 DEF Matched, AfterContext
<1>7. CASE Leave(t, TRUE)
  BY <1>1, <1>2, <1>4, <1>7, QuietCells, QuietLeaves
<1>8. ASSUME NEW step \in {"candidate_loader", "vm"}, Become(t, [h EXCEPT !.pc = step])
      PROVE  WaitInv'
  <2>1. PICK g : g = [h EXCEPT !.pc = step]
    OBVIOUS
  <2>2. g \in Frame /\ g.pc = step /\ g.thrown = NoThrow
    BY <1>3, <1>5, <2>1 DEF Frame, Steps, Stages
  <2>3. Become(t, g) /\ ~Initialising(g)
    BY <1>8, <2>1, <2>2 DEF Initialising
  <2> QED BY <1>1, <1>2, <2>2, <2>3, QuietCells, SearchGoesOn
<1> QED BY <1>6, <1>7, <1>8

LEMMA CatchWaits ==
    ASSUME LookupInv, WaitInv, Quiet, NEW t \in Threads, NEW step \in Stages, At(t, step),
           NEW thrown \in Types, NEW handlers \in Seq(Types), Catch(t, thrown, handlers)
    PROVE  WaitInv'
<1>1. PICK f : f = Top(t)
  OBVIOUS
<1>2. PICK g : g = [f EXCEPT !.thrown = thrown, !.todo = Clauses(thrown, handlers)]
  OBVIOUS
<1>3. stack[t] # <<>> /\ f.pc = step /\ Become(t, g)
  BY <1>1, <1>2 DEF At, Catch
<1>4. f \in Frame
  BY <1>1, <1>3, TopWaits
<1>5. g \in Frame /\ g.pc = step
  BY <1>2, <1>3, <1>4, ClausesFacts DEF Frame
<1>6. ~Initialising(g)
  BY <1>5 DEF Initialising, Stages
<1> QED BY <1>1, <1>3, <1>5, <1>6, QuietCells, SearchGoesOn

LEMMA GetLoaderWaits ==
    ASSUME LookupInv, WaitInv, NEW t \in Threads, GetContextLoader(t) \/ GetCandidateLoader(t)
    PROVE  WaitInv'
<1>1. PICK f : f = Top(t)
  OBVIOUS
<1>2. PICK step \in {"context_loader", "candidate_loader"}, next \in {"context", "candidate"} :
          /\ Quiet /\ At(t, step)
          /\ Catch(t, Security, <<Security>>) \/ Become(t, [f EXCEPT !.pc = next])
  BY <1>1 DEF GetContextLoader, GetCandidateLoader, Goto, Quiet
<1>3. stack[t] # <<>> /\ f.pc = step /\ f.thrown = NoThrow /\ step \in Stages
  BY <1>1, <1>2 DEF At, Stages
<1>4. CASE Catch(t, Security, <<Security>>)
  <2>1. Security \in Types /\ <<Security>> \in Seq(Types)
    BY TypesAssumption
  <2> QED BY <1>2, <1>3, <1>4, <2>1, CatchWaits
<1>5. CASE Become(t, [f EXCEPT !.pc = next])
  <2>1. PICK g : g = [f EXCEPT !.pc = next]
    OBVIOUS
  <2>2. f \in Frame
    BY <1>1, <1>3, TopWaits
  <2>3. g \in Frame /\ g.thrown = NoThrow /\ ~Initialising(g) /\ Become(t, g)
    BY <1>3, <1>5, <2>1, <2>2 DEF Frame, Steps, Stages, Initialising
  <2> QED BY <1>1, <1>2, <1>3, <2>3, QuietCells, SearchGoesOn
<1> QED BY <1>2, <1>4, <1>5

LEMMA AskWaits ==
    ASSUME LookupInv, WaitInv, NEW t \in Threads, LoadClass(t) \/ FindClass(t)
    PROVE  WaitInv'
<1>1. PICK f : f = Top(t)
  OBVIOUS
<1>2. PICK step \in {"context", "candidate", "given", "vm"}, loader \in Loaders,
           handlers \in Seq(Types) :
          Quiet /\ At(t, step) /\ Ask(t, loader, handlers)
  BY LoadersAssumption, HandlersAssumption DEF LoadClass, FindClass, Quiet
<1>3. stack[t] # <<>> /\ f.pc = step /\ f.thrown = NoThrow /\ step \in Stages
  BY <1>1, <1>2 DEF At, Stages
<1>4. f \in Frame /\ f.type \in Types
  BY <1>1, <1>3, TopWaits
<1>5. PICK answer : answer = finds[loader][f.type]
  OBVIOUS
<1>6. answer \in Classes \union Types
  BY <1>2, <1>4, <1>5, WorldsAssumption DEF LookupInv, LookupTypeOK
<1>7. CASE answer \in Classes
  <2>1. PICK g : g = [f EXCEPT !.class = answer, !.pc = "set"]
    OBVIOUS
  <2>2. Become(t, g)
    BY <1>1, <1>2, <1>5, <1>7, <2>1 DEF Ask
  <2>3. g \in Frame /\ ~Initialising(g) /\ g.thrown = NoThrow
    BY <1>3, <1>4, <1>7, <2>1 DEF Frame, Steps, Initialising
  <2> QED BY <1>1, <1>2, <1>3, <2>2, <2>3, QuietCells, SearchGoesOn
<1>8. CASE answer \notin Classes
  <2>1. Catch(t, answer, handlers) /\ answer \in Types
    BY <1>1, <1>2, <1>5, <1>6, <1>8 DEF Ask
  <2> QED BY <1>2, <1>3, <2>1, CatchWaits
<1> QED BY <1>7, <1>8

LEMMA BeginsWaits ==
    ASSUME LookupInv, WaitInv, NEW t \in Threads, NEW type \in Types,
           JavaUses(t, type) \/ \E via \in Contexts : LookUp(t, type, via)
    PROVE  WaitInv'
<1>1. CASE JavaUses(t, type)
  <2>1. PICK c : c = classCell[type]
    OBVIOUS
  <2>2. PICK f : f = ClinitFrame(type, c)
    OBVIOUS
  <2>3. PICK s : s = <<f>>
    OBVIOUS
  <2>4. /\ stack[t] = <<>> /\ c \in registered /\ initialiser[c] = Nobody
        /\ initialiser' = [initialiser EXCEPT ![c] = t]
        /\ stack' = [stack EXCEPT ![t] = s] /\ UNCHANGED classCell
    BY <1>1, <2>1, <2>2, <2>3 DEF JavaUses, cells
  <2>5. c \in Classes
    BY <2>4 DEF LookupInv, LookupTypeOK
  <2>6. f.class = c /\ f.thrown = NoThrow /\ f.type = type /\ Runs(f, c) /\ Len(s) = 1 /\ s[1] = f
    BY <2>2, <2>3 DEF ClinitFrame, Runs, Initialising
  <2>7. initialiser'[c] = t /\ \A d \in Classes \ {c} : initialiser'[d] = initialiser[d]
    BY <2>4, <2>5 DEF LookupInv, LookupTypeOK
  <2>8. FrameWaits(t, f)'
    BY <2>1, <2>4, <2>6, <2>7 DEF FrameWaits
  <2> QED BY <2>4, <2>6, <2>7, <2>8, BeginWaits
<1>2. ASSUME NEW via \in Contexts, LookUp(t, type, via)
      PROVE  WaitInv'
  <2>1. PICK f : f = GetFrame(type, via)
    OBVIOUS
  <2>2. PICK s : s = <<f>>
    OBVIOUS
  <2>3. stack[t] = <<>> /\ stack' = [stack EXCEPT ![t] = s] /\ UNCHANGED <<classCell, initialiser>>
    BY <1>2, <2>1, <2>2 DEF LookUp, cells, jvm
  <2>4. FrameWaits(t, f)' /\ Len(s) = 1 /\ s[1] = f
    BY <2>1, <2>2 DEF FrameWaits, GetFrame, Initialising
  <2> QED BY <2>3, <2>4, BeginWaits
<1> QED BY <1>1, <1>2

LEMMA WaitKeeps == LookupInv /\ WaitInv /\ [LookupNext]_lookupVars => WaitInv'
<1> SUFFICES ASSUME LookupInv, WaitInv, [LookupNext]_lookupVars PROVE WaitInv'
  OBVIOUS
<1>1. CASE UNCHANGED lookupVars
  BY <1>1 DEF lookupVars, cells, jvm, WaitInv, FramesWait, StacksShaped, InitialisersRun, FrameWaits
<1>2. ASSUME NEW t \in Threads, LookupStep(t) PROVE WaitInv'
  BY <1>2, ReadApiWaits, ReadClassWaits, SetClassWaits, FailWaits, RegisterWaits, LookupIdsWaits,
     PublishWaits, CallNativeWaits, EndClinitWaits, MatchExceptionWaits, MatchedWaits,
     GetLoaderWaits, AskWaits DEF LookupStep
<1> QED BY <1>1, <1>2, BeginsWaits DEF LookupNext

LEMMA WaitInvariant == LookupSpec => []WaitInv
  BY WaitInit, WaitKeeps, LookupInvariant, PTL DEF LookupSpec

-------------------------------------------------------------------------------
(* A thread that waits for the static initialiser of a class that another thread runs *)
WaitsIn(t) ==
    /\ stack[t] # <<>> /\ Top(t).pc = "ids"
    /\ Top(t).class \notin initialised /\ initialiser[Top(t).class] \notin {t, Nobody}

(* Waiting is short: the thread that runs the initialiser waits for nobody. *)
OneWaits ==
    \A t \in Threads : WaitsIn(t) =>
        \E u \in Threads : initialiser[Top(t).class] = u /\ stack[u] # <<>> /\ ~WaitsIn(u)

LEMMA WaitsAreForRunners ==
    ASSUME LookupInv, WaitInv
    PROVE  OneWaits
<1> SUFFICES ASSUME NEW t \in Threads, WaitsIn(t)
             PROVE  \E u \in Threads :
                        initialiser[Top(t).class] = u /\ stack[u] # <<>> /\ ~WaitsIn(u)
  BY DEF OneWaits
<1>1. PICK c : c = Top(t).class
  OBVIOUS
<1>2. stack[t] # <<>> /\ Top(t).pc = "ids" /\ initialiser[c] \notin {t, Nobody}
  BY <1>1 DEF WaitsIn
<1>3. c \in Classes
  BY <1>1, <1>2, TopWaits DEF FrameInv, ClassOfFrame
<1>4. PICK u \in Threads : initialiser[c] = u
  BY <1>2, <1>3 DEF LookupInv, LookupTypeOK
<1>5. PICK i \in 1..Len(stack[u]) : Runs(stack[u][i], c)
  BY <1>3, <1>4 DEF WaitInv, InitialisersRun
<1>6. stack[u] # <<>>
  <2>1. Len(<<>>) = 0
    OBVIOUS
  <2>2. 1..Len(<<>>) = {}
    BY <2>1
  <2> QED BY <1>5, <2>2
<1>7. PICK r : r = stack[u][i]
  OBVIOUS
<1>8. r.class = c /\ r.class = classCell[r.type] /\ Initialising(r)
  BY <1>5, <1>7 DEF Runs, WaitInv, FramesWait, FrameWaits
<1>9. ~WaitsIn(u)
  <2> SUFFICES ASSUME WaitsIn(u) PROVE FALSE
    OBVIOUS
  <2>1. PICK g : g = Top(u)
    OBVIOUS
  <2>2. g.pc = "ids" /\ initialiser[g.class] # u
    BY <2>1 DEF WaitsIn
  <2>3. Nested(g, r)
    <3>1. i # Len(stack[u])
      BY <1>7, <1>8, <2>1, <2>2 DEF Initialising, Top
    <3> QED BY <1>7, <1>8, <2>1, <3>1 DEF WaitInv, StacksShaped, Shape, Top
  <2>4. g.class = classCell[g.type]
    BY <1>6, <2>1, <2>2, TopWaits DEF FrameInv, ClassOfFrame
  <2>5. g.class = c
    BY <1>8, <2>3, <2>4 DEF Nested
  <2> QED BY <1>4, <2>2, <2>5
<1> QED BY <1>1, <1>4, <1>6, <1>9

(***************************************************************************)
(* Threads never wait for each other in a circle, however many there are:  *)
(* a thread that waits for a static initialiser waits for one that runs it *)
(* and waits for nobody.  The binding that a native method of the class    *)
(* needs meanwhile is found in CLASS, without a search.                    *)
(***************************************************************************)
THEOREM LookupsWaitForOne == LookupSpec => []OneWaits
<1>1. LookupInv /\ WaitInv => OneWaits
  BY WaitsAreForRunners
<1> QED BY <1>1, LookupInvariant, WaitInvariant, PTL

-------------------------------------------------------------------------------
(***************************************************************************)
(* Calls.  The steps of a method are right (Right) when what would be      *)
(* wrong at a step is prevented by the steps before it; that is shown of   *)
(* the steps of each method, and kept of the steps that are left to do by  *)
(* every action (CallsInv).                                                *)
(*                                                                         *)
(* What a step may do wrong, and what prevents it                          *)
(***************************************************************************)

Rejects(x) == x.do = "require" /\ ~x.holds
Bad(i, x) ==
    /\ x.do = "jvm"
    /\ \/ "object" \in x.needs /\ i.obj = "null"
       \/ "wrong value" \in x.needs
       \/ x.gives \in {"local", "nonnull", "auto", "object class", "exception"} /\ ~i.top
(* It takes an ID; it gives one; it takes a class; it changes the class the next one is looked up in. *)
Takes(x) == x.do = "jvm" /\ "id" \in x.needs
Resolves(x) == x.do = "binding" \/ (x.do = "jvm" /\ x.gives = "id")
NamesClass(x) == x.do = "jvm" /\ ("class" \in x.needs \/ x.gives = "id")
Moves(x) == x.do = "class" \/ (x.do = "jvm" /\ x.gives = "object class")
(* It makes a reference that is not deleted; it turns an object into the throwable. *)
Makes(x) == x.do = "jvm" /\ x.gives \in {"local", "nonnull", "exception"}
Turns(x) == x.do = "jvm" /\ x.gives = "throwable"
(* It may find that an object has the wrong type; it may leave an exception pending. *)
Tests(x) == x.do = "jvm" /\ x.gives = "instance"
Reports(x) == x.do = "jvm" /\ (x.after = "check" \/ x.gives = "thrown")

(* A requirement that does not hold comes before what would be wrong without it. *)
ArgsRight(i, s) == \A k \in 1..Len(s) : Bad(i, s[k]) => \E j \in 1..(k - 1) : Rejects(s[j])

(* Before an ID is taken it is looked up, if it is not known already, and the class stays. *)
IdsRight(known, s) ==
    \A k \in 1..Len(s) : Takes(s[k]) =>
        \/ known /\ \A l \in 1..(k - 1) : ~Moves(s[l])
        \/ \E j \in 1..(k - 1) : Resolves(s[j]) /\ \A l \in (j + 1)..(k - 1) : ~Moves(s[l])

(* Before a class is taken it is looked up. *)
ClassesRight(named, s) ==
    \A k \in 1..Len(s) : NamesClass(s[k]) => named \/ \E j \in 1..(k - 1) : Moves(s[j])

(* Only the last step makes a reference that stays, but for the object that throw makes. *)
ObjectThrown(x) == x.do = "jvm" /\ x.gives = "nonnull" /\ ~x.safe
LocalsRight(m, made, s) ==
    \A k \in 1..Len(s) :
        /\ Makes(s[k]) => k = Len(s) \/ (m = "throw_desc" /\ ObjectThrown(s[k]) /\ Turns(s[k + 1]))
        /\ Turns(s[k]) => /\ m = "throw_desc" /\ s[k].after = "none"
                          /\ IF k = 1 THEN made ELSE ObjectThrown(s[k - 1])
        /\ Tests(s[k]) => m # "throw_desc"

(* A method that catches exceptions leaves none of its own. *)
CatchesRight(m, s) == m \in Catching => \A k \in 1..Len(s) : ~Reports(s[k])

Right(m, i, s) ==
    /\ s \in Seq(StepType)
    /\ ArgsRight(i, s) /\ IdsRight(FALSE, s) /\ ClassesRight(FALSE, s)
    /\ LocalsRight(m, FALSE, s) /\ CatchesRight(m, s)

-------------------------------------------------------------------------------
(* The inductive invariant *)

IdKnown == id # "unknown" /\ id \in {class, "binding"}

(* What a call has still to do is right, and it holds no reference it should not. *)
ToDo ==
    /\ ArgsRight(in, todo) /\ IdsRight(IdKnown, todo) /\ ClassesRight(class # "unknown", todo)
    /\ LocalsRight(method, locals = 1, todo) /\ CatchesRight(method, todo)
(* A reference that stays is made last; the object that throw makes becomes the throwable next,
   with nothing pending that could refuse that. *)
Made == locals # 0 => locals = 1 /\ (todo = <<>> \/ (Turns(Head(todo)) /\ pending = "none"))
(* Nothing is left of a call that has ended. *)
Ended ==
    /\ ~Running => todo = <<>>
    /\ method = "none" => result = "none" /\ autos = 0 /\ locals = 0 /\ misuse = {} /\ before = "none"
(* An exception is old only if one was pending before, and a call does not go on after a new one. *)
Thrown ==
    /\ method # "none" /\ pending = "old" => before = "old"
    /\ Running => pending \in {"none", "old"}
CallsInv ==
    /\ TypeOK /\ Ended /\ Thrown
    /\ Running => Made /\ ToDo
    /\ JvmCalledRight /\ LocalsAccounted /\ ExceptionsReported

LEMMA ZeroOrOne == \A n \in 0..1 : n # 0 => n = 1
  OBVIOUS

LEMMA EmptyRight ==
    ASSUME NEW m, NEW i, NEW known, NEW made
    PROVE  /\ ArgsRight(i, <<>>) /\ IdsRight(known, <<>>) /\ ClassesRight(known, <<>>)
           /\ LocalsRight(m, made, <<>>) /\ CatchesRight(m, <<>>)
<1>1. \A k \in 1..Len(<<>>) : FALSE
  OBVIOUS
<1> QED BY <1>1 DEF ArgsRight, IdsRight, ClassesRight, LocalsRight, CatchesRight

(* A sequence that is not empty, as its first step and the others *)
LEMMA HeadTail ==
    ASSUME NEW S, NEW s \in Seq(S), s # <<>>
    PROVE  /\ Head(s) = s[1] /\ s[1] \in S /\ Tail(s) \in Seq(S)
           /\ Len(s) \in Nat \ {0} /\ Len(Tail(s)) = Len(s) - 1
           /\ \A k \in 1..Len(Tail(s)) : Tail(s)[k] = s[k + 1]
           /\ Tail(s) = <<>> <=> Len(s) = 1
           /\ Tail(s) # <<>> => Head(Tail(s)) = s[2]
<1>1. Head(s) = s[1] /\ Len(s) \in Nat \ {0} /\ Len(Tail(s)) = Len(s) - 1 /\ Tail(s) \in Seq(S)
  BY HeadTailProperties, EmptySeq, LenProperties
<1>2. \A k \in 1..Len(Tail(s)) : Tail(s)[k] = s[k + 1]
  BY HeadTailProperties
<1>3. s[1] \in S
  BY <1>1, ElementOfSeq
<1>4. Tail(s) = <<>> <=> Len(s) = 1
  <2>1. \A t \in Seq(S) : t = <<>> <=> Len(t) = 0
    BY EmptySeq
  <2>2. Tail(s) = <<>> <=> Len(Tail(s)) = 0
    BY <1>1, <2>1
  <2> QED BY <1>1, <2>2
<1>5. ASSUME Tail(s) # <<>> PROVE Head(Tail(s)) = s[2]
  <2>1. Head(Tail(s)) = Tail(s)[1] /\ Len(Tail(s)) # 0
    BY <1>1, <1>5, HeadTailProperties, EmptySeq
  <2> QED BY <1>1, <1>2, <2>1
<1> QED BY <1>1, <1>2, <1>3, <1>4, <1>5

LEMMA ArgsTail ==
    ASSUME NEW i, NEW s \in Seq(StepType), s # <<>>, ArgsRight(i, s)
    PROVE  /\ ~Bad(i, s[1])
           /\ ~Rejects(s[1]) => ArgsRight(i, Tail(s))
<1>1. /\ Len(s) \in Nat \ {0} /\ Len(Tail(s)) = Len(s) - 1
      /\ \A k \in 1..Len(Tail(s)) : Tail(s)[k] = s[k + 1]
  BY HeadTail
<1>2. ~Bad(i, s[1])
  BY <1>1 DEF ArgsRight
<1>3. ASSUME ~Rejects(s[1]), NEW k \in 1..Len(Tail(s)), Bad(i, Tail(s)[k])
      PROVE  \E j \in 1..(k - 1) : Rejects(Tail(s)[j])
  <2>1. k + 1 \in 1..Len(s) /\ Bad(i, s[k + 1])
    BY <1>1, <1>3
  <2>2. PICK j \in 1..(k + 1 - 1) : Rejects(s[j])
    BY <2>1 DEF ArgsRight
  <2>3. j # 1
    BY <1>3, <2>2
  <2>4. j - 1 \in 1..(k - 1) /\ Tail(s)[j - 1] = s[j]
    BY <1>1, <2>2, <2>3
  <2> QED BY <2>2, <2>4
<1> QED BY <1>2, <1>3 DEF ArgsRight

LEMMA IdsHead ==
    ASSUME NEW known, NEW s \in Seq(StepType), s # <<>>, IdsRight(known, s), Takes(s[1])
    PROVE  known
  BY HeadTail DEF IdsRight

LEMMA IdsTail ==
    ASSUME NEW known, NEW then, NEW s \in Seq(StepType), s # <<>>, IdsRight(known, s),
           Resolves(s[1]) => then, known /\ ~Moves(s[1]) => then
    PROVE  IdsRight(then, Tail(s))
<1>1. /\ Len(s) \in Nat \ {0} /\ Len(Tail(s)) = Len(s) - 1
      /\ \A k \in 1..Len(Tail(s)) : Tail(s)[k] = s[k + 1]
  BY HeadTail
<1>2. ASSUME NEW k \in 1..Len(Tail(s)), Takes(Tail(s)[k])
      PROVE  \/ then /\ \A l \in 1..(k - 1) : ~Moves(Tail(s)[l])
             \/ \E j \in 1..(k - 1) : Resolves(Tail(s)[j]) /\ \A l \in (j + 1)..(k - 1) : ~Moves(Tail(s)[l])
  <2>1. k + 1 \in 1..Len(s) /\ Takes(s[k + 1])
    BY <1>1, <1>2
  <2>2. \A l \in 1..(k - 1) : Tail(s)[l] = s[l + 1] /\ l + 1 \in 2..k
    BY <1>1
  <2>3. CASE known /\ \A l \in 1..(k + 1 - 1) : ~Moves(s[l])
    <3>1. then
      BY <2>3
    <3> QED BY <2>2, <2>3, <3>1
  <2>4. ASSUME NEW j \in 1..(k + 1 - 1), Resolves(s[j]), \A l \in (j + 1)..(k + 1 - 1) : ~Moves(s[l])
        PROVE  \/ then /\ \A l \in 1..(k - 1) : ~Moves(Tail(s)[l])
               \/ \E n \in 1..(k - 1) : Resolves(Tail(s)[n]) /\ \A l \in (n + 1)..(k - 1) : ~Moves(Tail(s)[l])
    <3>1. CASE j = 1
      BY <2>2, <2>4, <3>1
    <3>2. CASE j # 1
      <4>1. j - 1 \in 1..(k - 1) /\ Resolves(Tail(s)[j - 1])
        BY <2>2, <2>4, <3>2
      <4>2. \A l \in (j - 1 + 1)..(k - 1) : ~Moves(Tail(s)[l])
        BY <2>2, <2>4, <3>2
      <4> QED BY <4>1, <4>2
    <3> QED BY <3>1, <3>2
  <2> QED BY <2>1, <2>3, <2>4 DEF IdsRight
<1> QED BY <1>2 DEF IdsRight

LEMMA ClassesHead ==
    ASSUME NEW named, NEW s \in Seq(StepType), s # <<>>, ClassesRight(named, s), NamesClass(s[1])
    PROVE  named
  BY HeadTail DEF ClassesRight

LEMMA ClassesTail ==
    ASSUME NEW named, NEW then, NEW s \in Seq(StepType), s # <<>>, ClassesRight(named, s),
           named \/ Moves(s[1]) => then
    PROVE  ClassesRight(then, Tail(s))
<1>1. /\ Len(s) \in Nat \ {0} /\ Len(Tail(s)) = Len(s) - 1
      /\ \A k \in 1..Len(Tail(s)) : Tail(s)[k] = s[k + 1]
  BY HeadTail
<1>2. ASSUME NEW k \in 1..Len(Tail(s)), NamesClass(Tail(s)[k]), ~then
      PROVE  \E j \in 1..(k - 1) : Moves(Tail(s)[j])
  <2>1. k + 1 \in 1..Len(s) /\ NamesClass(s[k + 1])
    BY <1>1, <1>2
  <2>2. PICK j \in 1..(k + 1 - 1) : Moves(s[j])
    BY <1>2, <2>1 DEF ClassesRight
  <2>3. j # 1
    BY <1>2, <2>2
  <2>4. j - 1 \in 1..(k - 1) /\ Tail(s)[j - 1] = s[j]
    BY <1>1, <2>2, <2>3
  <2> QED BY <2>2, <2>4
<1> QED BY <1>2 DEF ClassesRight

LEMMA LocalsHead ==
    ASSUME NEW m, NEW made, NEW s \in Seq(StepType), s # <<>>, LocalsRight(m, made, s)
    PROVE  /\ Makes(s[1]) => \/ Tail(s) = <<>>
                             \/ ObjectThrown(s[1]) /\ Turns(Head(Tail(s)))
           /\ Turns(s[1]) => made /\ m = "throw_desc" /\ s[1].after = "none"
           /\ Tests(s[1]) => m # "throw_desc"
<1>1. /\ Len(s) \in Nat \ {0} /\ Len(Tail(s)) = Len(s) - 1
      /\ \A k \in 1..Len(Tail(s)) : Tail(s)[k] = s[k + 1]
      /\ Tail(s) = <<>> <=> Len(s) = 1
      /\ Tail(s) # <<>> => Head(Tail(s)) = s[2]
  BY HeadTail
<1>2. /\ Makes(s[1]) => 1 = Len(s) \/ (m = "throw_desc" /\ ObjectThrown(s[1]) /\ Turns(s[1 + 1]))
      /\ Turns(s[1]) => made /\ m = "throw_desc" /\ s[1].after = "none"
      /\ Tests(s[1]) => m # "throw_desc"
  <2>1. 1 \in 1..Len(s)
    BY <1>1
  <2> QED BY <2>1 DEF LocalsRight
<1>3. Makes(s[1]) => Tail(s) = <<>> \/ (ObjectThrown(s[1]) /\ Turns(Head(Tail(s))))
  BY <1>1, <1>2
<1> QED BY <1>2, <1>3

LEMMA LocalsTail ==
    ASSUME NEW m, NEW made, NEW then, NEW s \in Seq(StepType), s # <<>>, LocalsRight(m, made, s),
           ObjectThrown(s[1]) => then
    PROVE  LocalsRight(m, then, Tail(s))
<1>1. /\ Len(s) \in Nat \ {0} /\ Len(Tail(s)) = Len(s) - 1
      /\ \A k \in 1..Len(Tail(s)) : Tail(s)[k] = s[k + 1]
  BY HeadTail
<1> DEFINE t == Tail(s)
<1> HIDE DEF t
<1>2. /\ Len(t) \in Nat /\ Len(s) = Len(t) + 1
      /\ \A k \in 1..Len(t) : t[k] = s[k + 1]
  BY <1>1 DEF t
<1>3. ASSUME NEW k \in 1..Len(t)
      PROVE  /\ Makes(t[k]) => k = Len(t) \/ (m = "throw_desc" /\ ObjectThrown(t[k]) /\ Turns(t[k + 1]))
             /\ Turns(t[k]) => /\ m = "throw_desc" /\ t[k].after = "none"
                               /\ IF k = 1 THEN then ELSE ObjectThrown(t[k - 1])
             /\ Tests(t[k]) => m # "throw_desc"
  <2>1. /\ k \in Nat \ {0} /\ k + 1 \in 1..Len(s) /\ t[k] = s[k + 1]
        /\ k + 1 = Len(s) <=> k = Len(t)
        /\ k + 1 # 1 /\ k + 1 - 1 = k
    BY <1>2
  <2>2. /\ Makes(t[k]) => k = Len(t) \/ (m = "throw_desc" /\ ObjectThrown(t[k]) /\ Turns(s[k + 1 + 1]))
        /\ Turns(t[k]) => m = "throw_desc" /\ t[k].after = "none" /\ ObjectThrown(s[k])
        /\ Tests(t[k]) => m # "throw_desc"
    BY <2>1 DEF LocalsRight
  <2>3. k # Len(t) => k + 1 \in 1..Len(t) /\ t[k + 1] = s[k + 1 + 1]
    BY <1>2
  <2>4. k # 1 => k - 1 \in 1..Len(t) /\ t[k - 1] = s[k]
    BY <1>2
  <2>5. Turns(t[k]) => IF k = 1 THEN then ELSE ObjectThrown(t[k - 1])
    BY <2>2, <2>4
  <2> QED BY <2>2, <2>3, <2>5
<1> QED BY <1>2, <1>3 DEF LocalsRight, t

LEMMA CatchesTail ==
    ASSUME NEW m, NEW s \in Seq(StepType), s # <<>>, CatchesRight(m, s)
    PROVE  /\ m \in Catching => ~Reports(s[1])
           /\ CatchesRight(m, Tail(s))
<1>1. /\ Len(s) \in Nat \ {0} /\ Len(Tail(s)) = Len(s) - 1
      /\ \A k \in 1..Len(Tail(s)) : Tail(s)[k] = s[k + 1]
  BY HeadTail
<1>2. \A k \in 1..Len(Tail(s)) : k + 1 \in 1..Len(s)
  BY <1>1
<1> QED BY <1>1, <1>2 DEF CatchesRight

-------------------------------------------------------------------------------
(* A method at work, about to take a step *)
LEMMA HeadFacts ==
    ASSUME CallsInv, Running, todo # <<>>, NEW x, x = Head(todo)
    PROVE  /\ x \in StepType /\ Tail(todo) \in Seq(StepType) /\ todo[1] = x
           /\ ~Bad(in, x) /\ (Takes(x) => IdKnown) /\ (NamesClass(x) => class # "unknown")
           /\ method \in Catching => ~Reports(x)
           /\ Tests(x) => method # "throw_desc"
           /\ Turns(x) => method = "throw_desc" /\ x.after = "none" /\ locals = 1 /\ pending = "none"
           /\ ~Turns(x) => locals = 0
           /\ Makes(x) => Tail(todo) = <<>> \/ (ObjectThrown(x) /\ Turns(Head(Tail(todo))))
<1>1. todo \in Seq(StepType) /\ ToDo /\ Made
  BY DEF CallsInv, TypeOK
<1>2. x = todo[1] /\ x \in StepType /\ Tail(todo) \in Seq(StepType)
  BY <1>1, HeadTail
<1>3. ~Bad(in, x)
  BY <1>1, <1>2, ArgsTail DEF ToDo
<1>4. /\ Takes(x) => IdKnown
      /\ NamesClass(x) => class # "unknown"
  <2>1. Takes(x) => IdKnown
    BY <1>1, <1>2, IdsHead DEF ToDo
  <2>2. NamesClass(x) => class # "unknown"
    <3> DEFINE named == class # "unknown"
    <3>1. ClassesRight(named, todo)
      BY <1>1 DEF ToDo
    <3> HIDE DEF named
    <3>2. NamesClass(x) => named
      BY <1>1, <1>2, <3>1, ClassesHead
    <3> QED BY <3>2 DEF named
  <2> QED BY <2>1, <2>2
<1> DEFINE made == locals = 1
<1>5. /\ Makes(x) => Tail(todo) = <<>> \/ (ObjectThrown(x) /\ Turns(Head(Tail(todo))))
      /\ Turns(x) => made /\ method = "throw_desc" /\ x.after = "none"
      /\ Tests(x) => method # "throw_desc"
  <2>1. LocalsRight(method, made, todo)
    BY <1>1 DEF ToDo
  <2> HIDE DEF made
  <2> QED BY <1>1, <1>2, <2>1, LocalsHead
<1>6. method \in Catching => ~Reports(x)
  BY <1>1, <1>2, CatchesTail DEF ToDo
<1>7. locals # 0 => Turns(x) /\ pending = "none"
  BY <1>1 DEF Made
<1> QED BY <1>2, <1>3, <1>4, <1>5, <1>6, <1>7

(* The step is done, and what is left is right. *)
LEMMA ProceedKeeps ==
    ASSUME CallsInv, Running, todo # <<>>, NEW x, x = Head(todo), Proceed, ~Rejects(x),
           class' \in {"unknown", "null", "given", "objects"},
           id' \in {"unknown", "null", "given", "objects", "binding"},
           autos' \in Nat, pending' \in {"none", pending},
           Resolves(x) \/ (IdKnown /\ ~Moves(x)) => IdKnown',
           class # "unknown" \/ Moves(x) => class' # "unknown",
           locals' \in 0..1, ObjectThrown(x) => locals' = 1,
           locals' = 1 => Makes(x) /\ (x.safe \/ pending' = "none"),
           misuse' \subseteq {"null class", "null throwable"}
    PROVE  CallsInv'
<1>1. /\ todo' = Tail(todo) /\ UNCHANGED <<method, in, before, result>>
      /\ todo \in Seq(StepType) /\ ToDo /\ pending \in {"none", "old"} /\ result = "none"
      /\ method # "none"
  BY DEF Proceed, CallsInv, TypeOK, Thrown, Running
<1>2. todo[1] = x /\ Tail(todo) \in Seq(StepType)
  BY HeadFacts
<1>3. TypeOK'
  BY <1>1, <1>2 DEF CallsInv, TypeOK
<1>4. ToDo'
  <2>1. ArgsRight(in, todo')
    BY <1>1, <1>2, ArgsTail DEF ToDo
  <2>2. IdsRight(IdKnown', todo')
    BY <1>1, <1>2, IdsTail DEF ToDo
  <2>5. ClassesRight(class' # "unknown", todo')
    BY <1>1, <1>2, ClassesTail DEF ToDo
  <2>3. LocalsRight(method, locals' = 1, todo')
    BY <1>1, <1>2, LocalsTail DEF ToDo
  <2>4. CatchesRight(method, todo')
    BY <1>1, <1>2, CatchesTail DEF ToDo
  <2> QED BY <1>1, <2>1, <2>2, <2>3, <2>4, <2>5 DEF ToDo
<1>5. Made'
  <2>2. locals' # 0 => locals' = 1
    BY ZeroOrOne
  <2>3. ASSUME locals' # 0 PROVE todo' = <<>> \/ (Turns(Head(todo')) /\ pending' = "none")
    <3>1. Makes(x)
      BY <2>2, <2>3
    <3>2. Tail(todo) = <<>> \/ (ObjectThrown(x) /\ Turns(Head(Tail(todo))))
      BY <3>1, HeadFacts
    <3> QED BY <1>1, <2>2, <2>3, <3>2 DEF ObjectThrown
  <2> QED BY <2>2, <2>3 DEF Made
<1>6. Running' /\ Ended' /\ Thrown'
  BY <1>1 DEF Running, Ended, CallsInv, Thrown
<1>7. JvmCalledRight' /\ LocalsAccounted' /\ ExceptionsReported'
  BY <1>1 DEF JvmCalledRight, LocalsAccounted, ExceptionsReported
<1> QED BY <1>3, <1>4, <1>5, <1>6, <1>7 DEF CallsInv

(* The method returns. *)
LEMMA FinishKeeps ==
    ASSUME CallsInv, Running, NEW r \in Results, Finish(r),
           pending' \in {"none", pending, "new"}, r = "none" => pending' # "new",
           misuse' \subseteq {"null class", "null throwable"},
           IF r = "ok" THEN locals \in {0, 1}
           ELSE locals = IF method = "throw_desc" /\ r = "WrongObjectType" THEN 1 ELSE 0,
           r = "JavaException" => pending' # "none",
           pending' = "new" => r \in {"JavaException", "no frame"},
           r = "JavaException" /\ method \in Catching => pending' = "old"
    PROVE  CallsInv'
<1>1. /\ result' = r /\ todo' = <<>> /\ autos' = 0
      /\ UNCHANGED <<method, in, before, class, id, locals>>
      /\ method # "none" /\ pending \in {"none", "old"} /\ (pending = "old" => before = "old")
      /\ locals \in 0..1
  BY DEF Finish, Running, CallsInv, Thrown, TypeOK
<1>2. TypeOK'
  <2>1. todo' \in Seq(StepType)
    BY <1>1, EmptySeq
  <2> QED BY <1>1, <2>1 DEF CallsInv, TypeOK
<1>3. Ended' /\ Thrown'
  BY <1>1 DEF Ended, Thrown, Running
<1>4. Made' /\ ToDo'
  BY <1>1, EmptyRight DEF ToDo, Made
<1>5. JvmCalledRight'
  BY DEF JvmCalledRight
<1>6. LocalsAccounted'
  BY <1>1 DEF LocalsAccounted
<1>7. ExceptionsReported'
  BY <1>1 DEF ExceptionsReported
<1> QED BY <1>2, <1>3, <1>4, <1>5, <1>6, <1>7 DEF CallsInv

(* The same for an error that leaves the exception that was pending, or clears it *)
LEMMA ErrorKeeps ==
    ASSUME CallsInv, Running, todo # <<>>, ~Turns(Head(todo)), NEW r \in Results, Finish(r), r # "ok",
           r # "JavaException", r = "WrongObjectType" => method # "throw_desc",
           pending' \in {"none", pending}, misuse' \subseteq {"null class", "null throwable"}
    PROVE  CallsInv'
<1>1. locals = 0
  BY HeadFacts
<1>2. pending \in {"none", "old"}
  BY DEF CallsInv, Thrown
<1> QED BY <1>1, <1>2, FinishKeeps

-------------------------------------------------------------------------------
(* The actions *)
LEMMA MisuseKept == CallsInv /\ UNCHANGED misuse => misuse' \subseteq {"null class", "null throwable"}
  BY DEF CallsInv, JvmCalledRight

LEMMA NotJvm ==
    ASSUME NEW x, x.do # "jvm"
    PROVE  /\ ~Turns(x) /\ ~ObjectThrown(x) /\ ~Makes(x)
           /\ Resolves(x) <=> x.do = "binding"
           /\ Moves(x) <=> x.do = "class"
           /\ Rejects(x) <=> x.do = "require" /\ ~x.holds
  BY DEF Turns, ObjectThrown, Makes, Resolves, Moves, Rejects

(* A step that calls no JNI function *)
LEMMA NotJvmKeeps ==
    ASSUME CallsInv, Running, todo # <<>>, NEW x, x = Head(todo), x.do # "jvm", ~Rejects(x), Proceed,
           class' \in {"null", "given", class}, id' \in {"binding", id},
           autos' \in {autos, autos + 1}, pending' \in {"none", pending}, UNCHANGED <<locals, misuse>>,
           x.do = "class" \/ UNCHANGED class, x.do = "class" => class' # "unknown",
           IF x.do = "binding" THEN id' = "binding" ELSE UNCHANGED id
    PROVE  CallsInv'
<1>1. /\ class' \in {"unknown", "null", "given", "objects"}
      /\ id' \in {"unknown", "null", "given", "objects", "binding"}
  BY DEF CallsInv, TypeOK
<1>2. autos' \in Nat
  <2>1. autos \in Nat
    BY DEF CallsInv, TypeOK
  <2> QED BY <2>1
<1>3. locals' = 0 /\ locals' \in 0..1
  <2>1. locals = 0
    BY HeadFacts, NotJvm
  <2> QED BY <2>1 DEF CallsInv, TypeOK
<1>4. Resolves(x) \/ (IdKnown /\ ~Moves(x)) => IdKnown'
  BY NotJvm DEF IdKnown
<1>5. /\ class # "unknown" \/ Moves(x) => class' # "unknown"
      /\ ObjectThrown(x) => locals' = 1
      /\ locals' = 1 => Makes(x) /\ (x.safe \/ pending' = "none")
  BY <1>3, NotJvm
<1> QED BY <1>1, <1>2, <1>3, <1>4, <1>5, ProceedKeeps, MisuseKept

LEMMA RequireKeeps == CallsInv /\ RequireStep => CallsInv'
<1> SUFFICES ASSUME CallsInv, RequireStep PROVE CallsInv'
  OBVIOUS
<1> DEFINE x == Head(todo)
<1>1. Running /\ todo # <<>> /\ x.do = "require" /\ UNCHANGED <<pending, misuse>>
  BY DEF RequireStep, Now
<1>2. IF x.holds THEN Proceed /\ UNCHANGED <<class, id, autos, locals>> ELSE Finish(x.error)
  BY DEF RequireStep
<1>3. x \in StepType
  BY <1>1, HeadFacts
<1>4. x = Head(todo)
  OBVIOUS
<1> HIDE DEF x
<1>6. CASE x.holds
  <2>1. Proceed /\ UNCHANGED <<class, id, autos, locals>>
    BY <1>2, <1>6
  <2> QED BY <1>1, <1>4, <1>6, <2>1, NotJvmKeeps, NotJvm
<1>7. CASE ~x.holds
  <2>1. Finish(x.error) /\ x.error \in {"none", "panic", "NullPtr", "refused"}
    BY <1>2, <1>3, <1>7 DEF StepType
  <2>2. x.error \in Results /\ x.error \notin {"ok", "JavaException", "WrongObjectType"}
    BY <2>1 DEF Results
  <2> QED BY <1>1, <1>4, <2>1, <2>2, ErrorKeeps, NotJvm, MisuseKept
<1> QED BY <1>6, <1>7

LEMMA ClassKeeps == CallsInv /\ LookupClassStep => CallsInv'
<1> SUFFICES ASSUME CallsInv, LookupClassStep PROVE CallsInv'
  OBVIOUS
<1> DEFINE x == Head(todo)
<1>1. Running /\ todo # <<>> /\ x.do = "class" /\ UNCHANGED misuse
  BY DEF LookupClassStep, Now
<1>2. x = Head(todo)
  OBVIOUS
<1> HIDE DEF x
<1>4. CASE Proceed /\ class' \in {"null", "given"} /\ autos' \in {autos, autos + 1}
           /\ UNCHANGED <<id, locals>> /\ pending' \in {"none", pending}
  BY <1>1, <1>2, <1>4, NotJvmKeeps, NotJvm
<1>5. CASE \E r \in {"panic", "caught"} : Finish(r) /\ pending' \in {"none", pending}
  BY <1>1, <1>2, <1>5, ErrorKeeps, NotJvm, MisuseKept DEF Results
<1> QED BY <1>4, <1>5 DEF LookupClassStep

LEMMA BindingKeeps == CallsInv /\ LookupBindingStep => CallsInv'
<1> SUFFICES ASSUME CallsInv, LookupBindingStep PROVE CallsInv'
  OBVIOUS
<1> DEFINE x == Head(todo)
<1>1. Running /\ todo # <<>> /\ x.do = "binding" /\ UNCHANGED misuse
  BY DEF LookupBindingStep, Now
<1>2. x = Head(todo)
  OBVIOUS
<1> HIDE DEF x
<1>4. CASE Proceed /\ id' = "binding" /\ UNCHANGED <<class, autos, locals>> /\ pending' \in {"none", pending}
  BY <1>1, <1>2, <1>4, NotJvmKeeps, NotJvm
<1>5. CASE Finish("caught") /\ pending' \in {"none", pending}
  BY <1>1, <1>2, <1>5, ErrorKeeps, NotJvm, MisuseKept DEF Results
<1> QED BY <1>4, <1>5 DEF LookupBindingStep

LEMMA ClearKeeps == CallsInv /\ ClearStep => CallsInv'
<1> SUFFICES ASSUME CallsInv, ClearStep PROVE CallsInv'
  OBVIOUS
<1> DEFINE x == Head(todo)
<1>1. Running /\ todo # <<>> /\ x.do = "clear" /\ pending' = "none" /\ Proceed
      /\ UNCHANGED <<class, id, autos, locals, misuse>>
  BY DEF ClearStep, Now
<1>2. x = Head(todo)
  OBVIOUS
<1> HIDE DEF x
<1> QED BY <1>1, <1>2, NotJvmKeeps, NotJvm

LEMMA RefuseKeeps == CallsInv /\ RefuseStep => CallsInv'
<1> SUFFICES ASSUME CallsInv, RefuseStep PROVE CallsInv'
  OBVIOUS
<1>1. /\ Running /\ todo # <<>> /\ pending # "none" /\ Finish("JavaException")
      /\ UNCHANGED <<pending, misuse>>
  BY DEF RefuseStep, Now, MustRefuse
<1>2. pending = "old"
  BY <1>1 DEF CallsInv, Thrown
<1>3. locals = 0
  BY <1>1, HeadFacts
<1> QED BY <1>1, <1>2, <1>3, FinishKeeps, MisuseKept DEF Results

LEMMA EndKeeps == CallsInv /\ EndStep => CallsInv'
<1> SUFFICES ASSUME CallsInv, EndStep PROVE CallsInv'
  OBVIOUS
<1>1. Running /\ Finish("ok") /\ UNCHANGED <<pending, misuse>>
  BY DEF EndStep
<1>2. pending # "new" /\ locals \in {0, 1}
  BY <1>1, ZeroOrOne DEF CallsInv, Thrown, TypeOK
<1> QED BY <1>1, <1>2, FinishKeeps, MisuseKept DEF Results

LEMMA ReturnKeeps == CallsInv /\ Return => CallsInv'
<1> SUFFICES ASSUME CallsInv, Return PROVE CallsInv'
  OBVIOUS
<1>1. autos = 0 /\ todo = <<>>
  BY DEF CallsInv, LocalsAccounted, Return, Ended, Running
<1>2. AnyInput \in Input
  BY ClassFormsAssumption DEF AnyInput, Input, Objects, SigTypes, ValueTypes, ReturnTypes
<1>3. TypeOK'
  <2>1. 0 \in 0..1
    OBVIOUS
  <2> QED BY <1>1, <1>2, <2>1 DEF Return, CallsInv, TypeOK, Results
<1> QED BY <1>1, <1>3 DEF Return, CallsInv, Ended, Thrown, Running, JvmCalledRight, LocalsAccounted,
        ExceptionsReported

-------------------------------------------------------------------------------
(* A JNI function *)
LEMMA MisusedRight ==
    ASSUME CallsInv, Running, todo # <<>>, NEW x, x = Head(todo), x.do = "jvm", ~MustRefuse(x)
    PROVE  Misused(x) \subseteq {"null class", "null throwable"}
<1>1. pending = "none" \/ x.safe
  BY DEF MustRefuse
<1>2. /\ "object" \in x.needs => in.obj # "null"
      /\ "wrong value" \notin x.needs
      /\ x.gives \in {"local", "nonnull", "auto", "object class", "exception"} => in.top
  BY HeadFacts DEF Bad
<1>3. "class" \in x.needs => class # "unknown"
  BY HeadFacts DEF NamesClass
<1>4. "id" \in x.needs => id # "unknown" /\ id \in {class, "binding"}
  BY HeadFacts DEF Takes, IdKnown
<1> QED BY <1>1, <1>2, <1>3, <1>4 DEF Misused

LEMMA OneLess == 1 - 1 = 0 /\ 0 \in 0..1
  OBVIOUS

LEMMA Sums ==
    /\ \A a \in Nat : \A b \in {0, 1} : a + b \in Nat
    /\ \A b \in {0, 1} : 0 + b = b /\ b \in 0..1
    /\ 0 \in Nat /\ 0 \in 0..1 /\ 0 # 1
  OBVIOUS

LEMMA ContinueKeeps ==
    ASSUME CallsInv, Running, todo # <<>>, NEW x, x = Head(todo), x.do = "jvm", ~MustRefuse(x), ~Turns(x),
           misuse' \subseteq {"null class", "null throwable"},
           NEW newClass \in {class, "objects"}, NEW newId \in {id, class},
           NEW newAutos \in {0, 1}, NEW newLocals \in {0, 1},
           Continue(newClass, newId, newAutos, newLocals),
           Moves(x) => newClass = "objects", ~Moves(x) => newClass = class,
           newId # id => Resolves(x), Resolves(x) => newId = class /\ newClass = class,
           ObjectThrown(x) => newLocals = 1,
           newLocals = 1 => Makes(x) /\ (x.safe \/ pending = "none")
    PROVE  CallsInv'
<1>1. /\ class' = newClass /\ id' = newId /\ Proceed /\ UNCHANGED pending
      /\ autos' = autos + newAutos /\ locals' = locals + newLocals
  BY DEF Continue
<1>2. locals = 0 /\ (NamesClass(x) => class # "unknown")
  BY HeadFacts
<1>3. locals' = newLocals /\ locals' \in 0..1
  BY <1>1, <1>2, Sums
<1>4. autos' \in Nat
  <2>1. autos \in Nat
    BY DEF CallsInv, TypeOK
  <2> QED BY <1>1, <2>1, Sums
<1>5. /\ class' \in {"unknown", "null", "given", "objects"}
      /\ id' \in {"unknown", "null", "given", "objects", "binding"}
  BY <1>1 DEF CallsInv, TypeOK
<1>6. class # "unknown" \/ Moves(x) => class' # "unknown"
  BY <1>1
<1>7. Resolves(x) \/ (IdKnown /\ ~Moves(x)) => IdKnown'
  <2>1. CASE Resolves(x)
    <3>1. class # "unknown"
      BY <1>2, <2>1 DEF Resolves, NamesClass
    <3> QED BY <1>1, <2>1, <3>1 DEF IdKnown
  <2>2. CASE ~Resolves(x) /\ IdKnown /\ ~Moves(x)
    <3>1. newClass = class /\ newId = id
      BY <2>2
    <3> QED BY <1>1, <2>2, <3>1 DEF IdKnown
  <2> QED BY <2>1, <2>2
<1>8. ~Rejects(x)
  BY DEF Rejects
<1> QED BY <1>1, <1>3, <1>4, <1>5, <1>6, <1>7, <1>8, ProceedKeeps

(* An exception is thrown. *)
LEMMA ThrowsKeeps ==
    ASSUME CallsInv, Running, todo # <<>>, NEW x, x = Head(todo), x.do = "jvm",
           misuse' \subseteq {"null class", "null throwable"}, Throws(x)
    PROVE  CallsInv'
<1>1. /\ Turns(x) => x.after = "none"
      /\ ~Turns(x) => locals = 0
      /\ method \in Catching => ~Reports(x)
  BY HeadFacts
<1>2. ~Turns(x) /\ locals = 0
  BY <1>1 DEF Throws
<1>3. CASE x.after = "check" /\ pending' = "new" /\ Finish("JavaException")
  <2>1. method \notin Catching
    BY <1>1, <1>3 DEF Reports
  <2> QED BY <1>2, <1>3, <2>1, FinishKeeps DEF Results
<1>4. CASE pending' = "none" /\ Finish("caught")
  BY <1>2, <1>4, ErrorKeeps DEF Results
<1>5. CASE pending' = "new" /\ Finish("no frame")
  BY <1>2, <1>5, FinishKeeps DEF Results
<1> QED BY <1>3, <1>4, <1>5 DEF Throws

(* It returns, and has made an object the throwable, or has found that it is none. *)
LEMMA TurnsKeeps ==
    ASSUME CallsInv, Running, todo # <<>>, NEW x, x = Head(todo), Turns(x),
           misuse' \subseteq {"null class", "null throwable"}, Returns(x)
    PROVE  CallsInv'
<1>1. /\ x.do = "jvm" /\ x.gives = "throwable"
      /\ locals = 1 /\ pending = "none" /\ method = "throw_desc"
  BY HeadFacts DEF Turns
<1>2. \/ /\ class' = class /\ id' = id /\ autos' = autos + 1 /\ locals' = locals - 1
         /\ Proceed /\ UNCHANGED pending
      \/ Finish("WrongObjectType") /\ UNCHANGED pending
  BY <1>1 DEF Returns
<1>3. CASE /\ class' = class /\ id' = id /\ autos' = autos + 1 /\ locals' = locals - 1
           /\ Proceed /\ UNCHANGED pending
  <2>1. locals' = 0 /\ locals' \in 0..1
    BY <1>1, <1>3, OneLess
  <2>2. autos' \in Nat
    <3>1. autos \in Nat
      BY DEF CallsInv, TypeOK
    <3> QED BY <1>3, <3>1, Sums
  <2>3. ~Rejects(x) /\ ~Resolves(x) /\ ~Moves(x) /\ ~ObjectThrown(x)
    BY <1>1 DEF Rejects, Resolves, Moves, ObjectThrown
  <2>4. /\ class' \in {"unknown", "null", "given", "objects"}
        /\ id' \in {"unknown", "null", "given", "objects", "binding"}
    BY <1>3 DEF CallsInv, TypeOK
  <2>5. IdKnown => IdKnown'
    BY <1>3 DEF IdKnown
  <2> QED BY <1>3, <2>1, <2>2, <2>3, <2>4, <2>5, ProceedKeeps, Sums
<1>4. CASE Finish("WrongObjectType") /\ UNCHANGED pending
  BY <1>1, <1>4, FinishKeeps DEF Results
<1> QED BY <1>2, <1>3, <1>4

(* It returns a value, a reference or an ID, or an error. *)
LEMMA ReturnsKeeps ==
    ASSUME CallsInv, Running, todo # <<>>, NEW x, x = Head(todo), x.do = "jvm", ~MustRefuse(x), ~Turns(x),
           misuse' \subseteq {"null class", "null throwable"}, Returns(x)
    PROVE  CallsInv'
<1>1. /\ locals = 0 /\ (Tests(x) => method # "throw_desc")
      /\ method \in Catching => ~Reports(x)
  BY HeadFacts
<1>2. CASE x.gives \in {"value", "local", "checked", "status", "instance"} /\ Continue(class, id, 0, 0)
  <2>1. ~Moves(x) /\ ~Resolves(x) /\ ~ObjectThrown(x)
    BY <1>2 DEF Moves, Resolves, ObjectThrown
  <2> QED BY <1>2, <2>1, ContinueKeeps, Sums
<1>3. CASE x.gives \in {"local", "nonnull"} /\ Continue(class, id, 0, 1)
  <2>1. ~Moves(x) /\ ~Resolves(x) /\ Makes(x) /\ (x.safe \/ pending = "none")
    BY <1>3 DEF Moves, Resolves, Makes, MustRefuse
  <2> QED BY <1>3, <2>1, ContinueKeeps
<1>4. CASE x.gives = "auto" /\ Continue(class, id, 1, 0)
  <2>1. ~Moves(x) /\ ~Resolves(x) /\ ~ObjectThrown(x)
    BY <1>4 DEF Moves, Resolves, ObjectThrown
  <2> QED BY <1>4, <2>1, ContinueKeeps, Sums
<1>5. CASE x.gives = "object class" /\ Continue("objects", id, 1, 0)
  <2>1. Moves(x) /\ ~Resolves(x) /\ ~ObjectThrown(x)
    BY <1>5 DEF Moves, Resolves, ObjectThrown
  <2> QED BY <1>5, <2>1, ContinueKeeps, Sums
<1>6. CASE x.gives = "id" /\ Continue(class, class, 0, 0)
  <2>1. ~Moves(x) /\ Resolves(x) /\ ~ObjectThrown(x)
    BY <1>6 DEF Moves, Resolves, ObjectThrown
  <2> QED BY <1>6, <2>1, ContinueKeeps, Sums
<1>7. CASE x.gives = "exception" /\ Continue(class, id, 0, IF pending = "none" THEN 0 ELSE 1)
  <2>1. ~Moves(x) /\ ~Resolves(x) /\ ~ObjectThrown(x) /\ Makes(x) /\ (x.safe \/ pending = "none")
    BY <1>7 DEF Moves, Resolves, ObjectThrown, Makes, MustRefuse
  <2>2. PICK n \in {0, 1} : n = IF pending = "none" THEN 0 ELSE 1
    OBVIOUS
  <2> QED BY <1>7, <2>1, <2>2, ContinueKeeps
<1>8. CASE \/ x.gives \in {"nonnull", "auto", "checked"} /\ Finish("NullPtr") /\ UNCHANGED pending
           \/ x.gives \in {"status", "thrown"} /\ Finish("JniCall") /\ UNCHANGED pending
  BY <1>8, ErrorKeeps DEF Results
<1>9. CASE x.gives = "instance" /\ Finish("WrongObjectType") /\ UNCHANGED pending
  <2>1. method # "throw_desc"
    BY <1>1, <1>9 DEF Tests
  <2> QED BY <1>9, <2>1, ErrorKeeps DEF Results
<1>10. CASE x.gives = "thrown" /\ pending' = "new" /\ Finish("JavaException")
  <2>1. method \notin Catching
    BY <1>1, <1>10 DEF Reports
  <2> QED BY <1>1, <1>10, <2>1, FinishKeeps DEF Results
<1>11. x.gives # "throwable"
  BY DEF Turns
<1> QED BY <1>2, <1>3, <1>4, <1>5, <1>6, <1>7, <1>8, <1>9, <1>10, <1>11 DEF Returns

LEMMA JvmKeeps == CallsInv /\ JvmStep => CallsInv'
<1> SUFFICES ASSUME CallsInv, JvmStep PROVE CallsInv'
  OBVIOUS
<1> DEFINE x == Head(todo)
<1>1. /\ Running /\ todo # <<>> /\ x.do = "jvm" /\ ~MustRefuse(x) /\ x = Head(todo)
      /\ misuse' = misuse \union Misused(x) /\ (Throws(x) \/ Returns(x))
  BY DEF JvmStep, Now
<1> HIDE DEF x
<1>2. misuse' \subseteq {"null class", "null throwable"}
  BY <1>1, MisusedRight DEF CallsInv, JvmCalledRight
<1> QED BY <1>1, <1>2, ThrowsKeeps, TurnsKeeps, ReturnsKeeps

LEMMA CallKeeps ==
    ASSUME CallsInv, method = "none", NEW m \in Methods, NEW i \in Input, Call(m, i),
           Right(m, i, Program(m, i))
    PROVE  CallsInv'
<1> DEFINE s == Program(m, i)
<1>1. /\ s \in Seq(StepType) /\ ArgsRight(i, s) /\ IdsRight(FALSE, s) /\ ClassesRight(FALSE, s)
      /\ LocalsRight(m, FALSE, s) /\ CatchesRight(m, s)
  BY DEF Right
<1> HIDE DEF s
<1>2. /\ method' = m /\ in' = i /\ todo' = s /\ class' = "unknown" /\ id' = "unknown"
      /\ pending' \in {"none", "old"} /\ before' = pending'
      /\ autos' = 0 /\ locals' = 0 /\ result' = "none" /\ misuse' = {}
  BY DEF Call, s
<1>3. m # "none"
  BY MethodsAssumption DEF MethodNames
<1>4. TypeOK'
  BY <1>1, <1>2, Sums DEF TypeOK, Results
<1>5. Running' /\ Ended' /\ Thrown' /\ Made'
  BY <1>2, <1>3 DEF Running, Ended, Thrown, Made
<1>6. ToDo'
  <2>1. IdKnown' = FALSE /\ (class' # "unknown") = FALSE /\ (locals' = 1) = FALSE
    BY <1>2 DEF IdKnown
  <2> QED BY <1>1, <1>2, <2>1 DEF ToDo
<1>7. JvmCalledRight' /\ LocalsAccounted' /\ ExceptionsReported'
  BY <1>2 DEF JvmCalledRight, LocalsAccounted, ExceptionsReported
<1> QED BY <1>4, <1>5, <1>6, <1>7 DEF CallsInv

(***************************************************************************)
(* How a sequence is shown to be right: step by step.  What has been read  *)
(* of it leads on if its steps fit where they are and pass: they take no   *)
(* ID and leave no reference.  By then a step has failed if `refused`, an  *)
(* ID is known if `known` and a class if `named`.                          *)
(***************************************************************************)
Fit(m, x) ==
    /\ x \in StepType
    /\ ~Turns(x) /\ (Tests(x) => m # "throw_desc")
    /\ m \in Catching => ~Reports(x)
Passes(x) == ~Takes(x) /\ ~Makes(x)

Failed(s, n) == \E j \in 1..n : Rejects(s[j])
Moved(s, n) == \E j \in 1..n : Moves(s[j])
Resolved(s, n) == \E j \in 1..n : Resolves(s[j]) /\ \A l \in (j + 1)..n : ~Moves(s[l])

Sits(m, i, s, k) ==
    /\ Fit(m, s[k])
    /\ Bad(i, s[k]) => Failed(s, k - 1)
    /\ NamesClass(s[k]) => Moved(s, k - 1)

Leads(m, i, s, refused, known, named) ==
    /\ s \in Seq(StepType)
    /\ \A k \in 1..Len(s) : Sits(m, i, s, k) /\ Passes(s[k])
    /\ refused => Failed(s, Len(s))
    /\ known => Resolved(s, Len(s))
    /\ named => Moved(s, Len(s))

LEMMA OneMore ==
    ASSUME NEW S, NEW s \in Seq(S), NEW x \in S, NEW t, t = s \o <<x>>, NEW n, n = Len(s)
    PROVE  /\ n \in Nat /\ Len(t) = n + 1 /\ t \in Seq(S) /\ t[n + 1] = x
           /\ \A k \in 1..n : t[k] = s[k]
           /\ \A k \in 1..(n + 1) : k \in 1..n \/ k = n + 1
           /\ n + 1 - 1 = n
  OBVIOUS

(* What happened in a part of a sequence has happened in the sequence. *)
LEMMA StillSo ==
    ASSUME NEW s, NEW t, NEW n \in Nat, \A k \in 1..n : t[k] = s[k]
    PROVE  /\ \A k \in 1..n : Failed(t, k - 1) <=> Failed(s, k - 1)
           /\ \A k \in 1..n : Moved(t, k - 1) <=> Moved(s, k - 1)
           /\ Failed(t, n) <=> Failed(s, n)
           /\ Moved(t, n) <=> Moved(s, n)
           /\ Resolved(t, n) <=> Resolved(s, n)
<1>1. \A k \in 1..n : \A j \in 1..(k - 1) : j \in 1..n
  OBVIOUS
<1>2. \A j \in 1..n : \A l \in (j + 1)..n : l \in 1..n
  OBVIOUS
<1>3. \A k \in 1..n : /\ Failed(t, k - 1) <=> Failed(s, k - 1)
                      /\ Moved(t, k - 1) <=> Moved(s, k - 1)
  BY <1>1 DEF Failed, Moved
<1>4. (Failed(t, n) <=> Failed(s, n)) /\ (Moved(t, n) <=> Moved(s, n))
  BY DEF Failed, Moved
<1>5. Resolved(t, n) <=> Resolved(s, n)
  BY <1>2 DEF Resolved
<1> QED BY <1>3, <1>4, <1>5

LEMMA LeadsOn ==
    ASSUME NEW m, NEW i, NEW s, NEW refused, NEW known, NEW named, Leads(m, i, s, refused, known, named),
           NEW x, Fit(m, x), Passes(x), Bad(i, x) => refused, NamesClass(x) => named,
           NEW refused2, refused2 => refused \/ Rejects(x),
           NEW known2, known2 => Resolves(x) \/ (known /\ ~Moves(x)),
           NEW named2, named2 => named \/ Moves(x)
    PROVE  Leads(m, i, s \o <<x>>, refused2, known2, named2)
<1> DEFINE t == s \o <<x>>
           n == Len(s)
<1>0. s \in Seq(StepType) /\ x \in StepType
  BY DEF Leads, Fit
<1>1. /\ n \in Nat /\ Len(t) = n + 1 /\ t \in Seq(StepType) /\ t[n + 1] = x
      /\ \A k \in 1..n : t[k] = s[k]
      /\ \A k \in 1..(n + 1) : k \in 1..n \/ k = n + 1
      /\ n + 1 - 1 = n
  BY <1>0, OneMore
<1>2. /\ \A k \in 1..n : Sits(m, i, s, k) /\ Passes(s[k])
      /\ refused => Failed(s, n)
      /\ known => Resolved(s, n)
      /\ named => Moved(s, n)
  BY DEF Leads
<1> HIDE DEF t, n
<1>3. /\ refused => Failed(t, n)
      /\ known => Resolved(t, n)
      /\ named => Moved(t, n)
  BY <1>1, <1>2, StillSo
<1>4. \A k \in 1..n : Sits(m, i, t, k) /\ Passes(t[k])
  BY <1>1, <1>2, StillSo DEF Sits
<1>5. Sits(m, i, t, n + 1) /\ Passes(t[n + 1])
  BY <1>1, <1>3 DEF Sits
<1>6. Failed(t, n) \/ Rejects(x) => Failed(t, n + 1)
  BY <1>1 DEF Failed
<1>7. Moved(t, n) \/ Moves(x) => Moved(t, n + 1)
  BY <1>1 DEF Moved
<1>8. Resolves(x) \/ (Resolved(t, n) /\ ~Moves(x)) => Resolved(t, n + 1)
  <2>1. CASE Resolves(x)
    <3>1. n + 1 \in 1..(n + 1) /\ Resolves(t[n + 1]) /\ \A l \in (n + 1 + 1)..(n + 1) : ~Moves(t[l])
      BY <1>1, <2>1
    <3> QED BY <3>1 DEF Resolved
  <2>2. CASE Resolved(t, n) /\ ~Moves(x)
    BY <1>1, <2>2 DEF Resolved
  <2> QED BY <2>1, <2>2
<1>9. Leads(m, i, t, refused2, known2, named2)
  BY <1>1, <1>3, <1>4, <1>5, <1>6, <1>7, <1>8 DEF Leads
<1> QED BY <1>9 DEF t

LEMMA RightEnds ==
    ASSUME NEW m, NEW i, NEW s, NEW refused, NEW known, NEW named, Leads(m, i, s, refused, known, named),
           NEW x, Fit(m, x), Bad(i, x) => refused, NamesClass(x) => named, Takes(x) => known
    PROVE  Right(m, i, s \o <<x>>)
<1> DEFINE t == s \o <<x>>
           n == Len(s)
<1>0. s \in Seq(StepType) /\ x \in StepType
  BY DEF Leads, Fit
<1>1. /\ n \in Nat /\ Len(t) = n + 1 /\ t \in Seq(StepType) /\ t[n + 1] = x
      /\ \A k \in 1..n : t[k] = s[k]
      /\ \A k \in 1..(n + 1) : k \in 1..n \/ k = n + 1
      /\ n + 1 - 1 = n
  BY <1>0, OneMore
<1>2. /\ \A k \in 1..n : Sits(m, i, s, k) /\ Passes(s[k])
      /\ refused => Failed(s, n)
      /\ known => Resolved(s, n)
      /\ named => Moved(s, n)
  BY DEF Leads
<1> HIDE DEF t, n
<1>3. /\ refused => Failed(t, n)
      /\ known => Resolved(t, n)
      /\ named => Moved(t, n)
  BY <1>1, <1>2, StillSo
<1>4. \A k \in 1..n : Sits(m, i, t, k) /\ Passes(t[k])
  BY <1>1, <1>2, StillSo DEF Sits
<1>5. Sits(m, i, t, n + 1)
  BY <1>1, <1>3 DEF Sits
<1>6. \A k \in 1..Len(t) : Sits(m, i, t, k)
  BY <1>1, <1>4, <1>5
<1>7. ArgsRight(i, t) /\ ClassesRight(FALSE, t)
  BY <1>6 DEF ArgsRight, ClassesRight, Sits, Failed, Moved
<1>8. IdsRight(FALSE, t)
  <2> SUFFICES ASSUME NEW k \in 1..Len(t), Takes(t[k])
               PROVE  \E j \in 1..(k - 1) : Resolves(t[j]) /\ \A l \in (j + 1)..(k - 1) : ~Moves(t[l])
    BY DEF IdsRight
  <2>1. k = n + 1
    BY <1>1, <1>4 DEF Passes
  <2> QED BY <1>1, <1>3, <2>1 DEF Resolved
<1>9. LocalsRight(m, FALSE, t)
  <2> SUFFICES ASSUME NEW k \in 1..Len(t)
               PROVE  (Makes(t[k]) => k = Len(t)) /\ ~Turns(t[k]) /\ (Tests(t[k]) => m # "throw_desc")
    BY DEF LocalsRight
  <2> QED BY <1>1, <1>4, <1>6 DEF Sits, Fit, Passes
<1>10. CatchesRight(m, t)
  BY <1>6 DEF CatchesRight, Sits, Fit
<1>11. Right(m, i, t)
  BY <1>1, <1>7, <1>8, <1>9, <1>10 DEF Right
<1> QED BY <1>11 DEF t

-------------------------------------------------------------------------------
(* The steps of the methods: what each kind of step is *)
LEMMA StepFields ==
    ASSUME NEW d
    PROVE  /\ Step(d).do = d /\ Step(d).holds = TRUE /\ Step(d).error = "none" /\ Step(d).needs = {}
           /\ Step(d).safe = FALSE /\ Step(d).after = "none" /\ Step(d).gives = "value"
           /\ DOMAIN Step(d) = {"do", "holds", "error", "needs", "safe", "after", "gives"}
           /\ d \in {"require", "class", "binding", "clear", "jvm"} => Step(d) \in StepType
  BY DEF Step, StepType

(* A requirement, or exception_clear *)
Inert(x) == x \in StepType /\ x.do \in {"require", "clear"}

LEMMA InertFits ==
    ASSUME NEW x, Inert(x)
    PROVE  /\ \A m, i : Fit(m, x) /\ ~Bad(i, x)
           /\ ~NamesClass(x) /\ Passes(x) /\ ~Resolves(x) /\ ~Moves(x)
  BY DEF Inert, Fit, Passes, Resolves, Moves, Bad, NamesClass, Turns, Tests, Reports, Takes, Makes

LEMMA RequireFacts ==
    ASSUME NEW condition \in BOOLEAN, NEW error \in {"none", "panic", "NullPtr", "refused"}
    PROVE  /\ Inert(Require(condition, error))
           /\ Rejects(Require(condition, error)) <=> ~condition
<1> DEFINE x == Require(condition, error)
<1>1. x = [Step("require") EXCEPT !.holds = condition, !.error = error]
  BY DEF Require
<1>2. x.do = "require" /\ x.holds = condition /\ x \in StepType
  BY <1>1 DEF Step, StepType
<1> HIDE DEF x
<1>3. Inert(x) /\ (Rejects(x) <=> ~condition)
  BY <1>2 DEF Inert, Rejects
<1> QED BY <1>3 DEF x

LEMMA LookupFacts ==
    /\ \A m, i : Fit(m, LookupClass) /\ ~Bad(i, LookupClass)
    /\ \A m, i : Fit(m, LookupBinding) /\ ~Bad(i, LookupBinding)
    /\ ~NamesClass(LookupClass) /\ Passes(LookupClass) /\ Moves(LookupClass) /\ ~Resolves(LookupClass)
    /\ ~NamesClass(LookupBinding) /\ Passes(LookupBinding) /\ ~Moves(LookupBinding) /\ Resolves(LookupBinding)
<1>1. ASSUME NEW x \in StepType, x.do \in {"class", "binding"}
      PROVE  /\ \A m, i : Fit(m, x) /\ ~Bad(i, x)
             /\ ~NamesClass(x) /\ Passes(x)
             /\ Moves(x) <=> x.do = "class"
             /\ Resolves(x) <=> x.do = "binding"
  BY <1>1 DEF Fit, Passes, Moves, Resolves, Bad, NamesClass, Turns, Tests, Reports, Takes, Makes
<1>2. LookupClass \in StepType /\ LookupClass.do = "class"
  BY StepFields DEF LookupClass
<1>3. LookupBinding \in StepType /\ LookupBinding.do = "binding"
  BY StepFields DEF LookupBinding
<1> QED BY <1>1, <1>2, <1>3

(* A JNI function has the needs, what follows and the gift that it is made of. *)
Is(needs, after, gives) ==
    /\ Jvm(needs, after, gives) \in StepType
    /\ Jvm(needs, after, gives).do = "jvm"
    /\ Jvm(needs, after, gives).needs = needs
    /\ Jvm(needs, after, gives).after = after
    /\ Jvm(needs, after, gives).gives = gives

LEMMA IsFits ==
    ASSUME NEW needs, NEW after, NEW gives, Is(needs, after, gives)
    PROVE  /\ \A m : gives # "throwable" /\ (gives = "instance" => m # "throw_desc")
                     /\ (after = "check" \/ gives = "thrown" => m \notin Catching)
                     => Fit(m, Jvm(needs, after, gives))
           /\ \A i : Bad(i, Jvm(needs, after, gives)) =>
                  \/ "object" \in needs /\ i.obj = "null"
                  \/ "wrong value" \in needs
                  \/ gives \in {"local", "nonnull", "auto", "object class", "exception"} /\ ~i.top
           /\ NamesClass(Jvm(needs, after, gives)) <=> "class" \in needs \/ gives = "id"
           /\ Takes(Jvm(needs, after, gives)) <=> "id" \in needs
           /\ Makes(Jvm(needs, after, gives)) <=> gives \in {"local", "nonnull", "exception"}
           /\ Moves(Jvm(needs, after, gives)) <=> gives = "object class"
           /\ Resolves(Jvm(needs, after, gives)) <=> gives = "id"
<1> DEFINE x == Jvm(needs, after, gives)
<1>1. x \in StepType /\ x.do = "jvm" /\ x.needs = needs /\ x.after = after /\ x.gives = gives
  BY DEF Is
<1> HIDE DEF x
<1>2. \A m : gives # "throwable" /\ (gives = "instance" => m # "throw_desc")
             /\ (after = "check" \/ gives = "thrown" => m \notin Catching)
             => Fit(m, x)
  BY <1>1 DEF Fit, Turns, Tests, Reports
<1>3. \A i : Bad(i, x) =>
          \/ "object" \in needs /\ i.obj = "null"
          \/ "wrong value" \in needs
          \/ gives \in {"local", "nonnull", "auto", "object class", "exception"} /\ ~i.top
  BY <1>1 DEF Bad
<1>4. /\ NamesClass(x) <=> "class" \in needs \/ gives = "id"
      /\ Takes(x) <=> "id" \in needs
      /\ Makes(x) <=> gives \in {"local", "nonnull", "exception"}
      /\ Moves(x) <=> gives = "object class"
      /\ Resolves(x) <=> gives = "id"
  BY <1>1 DEF NamesClass, Takes, Makes, Moves, Resolves
<1> QED BY <1>2, <1>3, <1>4 DEF x

(* The requirements *)
LEMMA Requirements ==
    ASSUME NEW i \in Input
    PROVE  /\ Inert(AssertTop(i)) /\ (Rejects(AssertTop(i)) <=> ~i.top)
           /\ Inert(NullCheck(i)) /\ (Rejects(NullCheck(i)) <=> i.obj = "null")
           /\ Inert(NullCheckClass(i)) /\ Inert(Require(i.counts, "refused"))
           /\ Inert(Require(Fits(i), "refused")) /\ (Rejects(Require(Fits(i), "refused")) <=> ~Fits(i))
           /\ Inert(Require(Compatible(i), "refused"))
           /\ Rejects(Require(Compatible(i), "refused")) <=> ~Compatible(i)
           /\ Inert(Require(i.ret = "void", "refused")) /\ Inert(Require(i.value # "void", "refused"))
<1>1. i.top \in BOOLEAN /\ i.counts \in BOOLEAN
  BY DEF Input
<1>2. Fits(i) \in BOOLEAN /\ Compatible(i) \in BOOLEAN
  BY DEF Fits, Compatible, IsObject
<1> QED BY <1>1, <1>2, RequireFacts DEF AssertTop, NullCheck, NullCheckClass

LEMMA ValueFits ==
    ASSUME NEW i \in Input
    PROVE  /\ Misfit(i) \subseteq {"wrong value"}
           /\ "wrong value" \in Misfit(i) => ~Compatible(i) /\ ~Fits(i)
  BY DEF Fits, Compatible, Misfit, Input, SigTypes, ValueTypes, IsObject

-------------------------------------------------------------------------------
(* Sequences of steps, one after the other *)
LEMMA LeadsEmpty == ASSUME NEW m, NEW i PROVE Leads(m, i, <<>>, FALSE, FALSE, FALSE)
<1>1. <<>> \in Seq(StepType) /\ \A k \in 1..Len(<<>>) : FALSE
  OBVIOUS
<1> QED BY <1>1 DEF Leads

LEMMA PairIsConcat ==
    ASSUME NEW S, NEW a \in S, NEW b \in S
    PROVE  /\ <<a>> \in Seq(S) /\ <<b>> \in Seq(S)
           /\ <<a, b>> = <<a>> \o <<b>>
<1> DEFINE p == <<a>> \o <<b>>
           q == <<a, b>>
<1>1. <<a>> \in Seq(S) /\ <<b>> \in Seq(S) /\ q \in Seq(S) /\ Len(q) = 2
  OBVIOUS
<1>2. p \in Seq(S) /\ Len(p) = 2 /\ p[1] = q[1] /\ p[2] = q[2]
  OBVIOUS
<1> HIDE DEF p, q
<1>3. \A k \in 1..2 : p[k] = q[k]
  BY <1>2
<1>4. p = q
  BY <1>1, <1>2, <1>3, SeqEqual
<1> QED BY <1>1, <1>4 DEF p, q

LEMMA TwoAsOne ==
    ASSUME NEW S, NEW s \in Seq(S), NEW a \in S, NEW b \in S
    PROVE  s \o <<a, b>> = (s \o <<a>>) \o <<b>>
<1> DEFINE p == <<a>>
           q == <<b>>
<1>1. p \in Seq(S) /\ q \in Seq(S) /\ <<a, b>> = p \o q
  BY PairIsConcat
<1> HIDE DEF p, q
<1>2. s \o (p \o q) = (s \o p) \o q
  BY <1>1, ConcatAssociative
<1> QED BY <1>1, <1>2 DEF p, q

LEMMA ThreeAsOne ==
    ASSUME NEW S, NEW s \in Seq(S), NEW a \in S, NEW b \in S, NEW c \in S
    PROVE  s \o <<a, b, c>> = (s \o <<a, b>>) \o <<c>>
<1>1. <<a, b>> \in Seq(S) /\ <<c>> \in Seq(S) /\ <<a, b, c>> = <<a, b>> \o <<c>>
  OBVIOUS
<1> QED BY <1>1, ConcatAssociative

LEMMA LeadsTwo ==
    ASSUME NEW m, NEW i, NEW s, NEW refused, NEW known, NEW named, Leads(m, i, s, refused, known, named),
           NEW a, NEW b,
           Fit(m, a), Bad(i, a) => refused, NamesClass(a) => named, Passes(a),
           Fit(m, b), Bad(i, b) => refused \/ Rejects(a), NamesClass(b) => named \/ Moves(a), Passes(b)
    PROVE  Leads(m, i, s \o <<a, b>>, refused \/ Rejects(a) \/ Rejects(b),
                 Resolves(b) \/ ((Resolves(a) \/ (known /\ ~Moves(a))) /\ ~Moves(b)),
                 named \/ Moves(a) \/ Moves(b))
<1> DEFINE t == s \o <<a>>
<1>1. Leads(m, i, t, refused \/ Rejects(a), Resolves(a) \/ (known /\ ~Moves(a)), named \/ Moves(a))
  BY LeadsOn
<1> HIDE DEF t
<1>2. Leads(m, i, t \o <<b>>, refused \/ Rejects(a) \/ Rejects(b),
            Resolves(b) \/ ((Resolves(a) \/ (known /\ ~Moves(a))) /\ ~Moves(b)),
            named \/ Moves(a) \/ Moves(b))
  BY <1>1, LeadsOn
<1>3. s \in Seq(StepType) /\ a \in StepType /\ b \in StepType
  BY DEF Leads, Fit
<1>4. s \o <<a, b>> = t \o <<b>>
  BY <1>3, TwoAsOne DEF t
<1> QED BY <1>2, <1>4

LEMMA RightTwoMore ==
    ASSUME NEW m, NEW i, NEW s, NEW refused, NEW known, NEW named, Leads(m, i, s, refused, known, named),
           NEW a, NEW b,
           Fit(m, a), Bad(i, a) => refused, NamesClass(a) => named, Passes(a),
           Fit(m, b), Bad(i, b) => refused \/ Rejects(a), NamesClass(b) => named \/ Moves(a),
           Takes(b) => Resolves(a) \/ (known /\ ~Moves(a))
    PROVE  Right(m, i, s \o <<a, b>>)
<1> DEFINE t == s \o <<a>>
<1>1. Leads(m, i, t, refused \/ Rejects(a), Resolves(a) \/ (known /\ ~Moves(a)), named \/ Moves(a))
  BY LeadsOn
<1> HIDE DEF t
<1>2. Right(m, i, t \o <<b>>)
  BY <1>1, RightEnds
<1>3. s \in Seq(StepType) /\ a \in StepType /\ b \in StepType
  BY DEF Leads, Fit
<1>4. s \o <<a, b>> = t \o <<b>>
  BY <1>3, TwoAsOne DEF t
<1> QED BY <1>2, <1>4

LEMMA RightThreeMore ==
    ASSUME NEW m, NEW i, NEW s, NEW refused, NEW known, NEW named, Leads(m, i, s, refused, known, named),
           NEW a, NEW b, NEW c,
           Fit(m, a), Bad(i, a) => refused, NamesClass(a) => named, Passes(a),
           Fit(m, b), Bad(i, b) => refused \/ Rejects(a), NamesClass(b) => named \/ Moves(a), Passes(b),
           Fit(m, c), Bad(i, c) => refused \/ Rejects(a) \/ Rejects(b),
           NamesClass(c) => named \/ Moves(a) \/ Moves(b),
           Takes(c) => Resolves(b) \/ ((Resolves(a) \/ (known /\ ~Moves(a))) /\ ~Moves(b))
    PROVE  Right(m, i, s \o <<a, b, c>>)
<1> DEFINE t == s \o <<a, b>>
<1>1. Leads(m, i, t, refused \/ Rejects(a) \/ Rejects(b),
            Resolves(b) \/ ((Resolves(a) \/ (known /\ ~Moves(a))) /\ ~Moves(b)),
            named \/ Moves(a) \/ Moves(b))
  BY LeadsTwo
<1> HIDE DEF t
<1>2. Right(m, i, t \o <<c>>)
  BY <1>1, RightEnds
<1>3. s \in Seq(StepType) /\ a \in StepType /\ b \in StepType /\ c \in StepType
  BY DEF Leads, Fit
<1>4. s \o <<a, b, c>> = t \o <<c>>
  BY <1>3, ThreeAsOne DEF t
<1> QED BY <1>2, <1>4

(* The short ones *)
LEMMA RightOne ==
    ASSUME NEW m, NEW i, NEW a, Fit(m, a), ~Bad(i, a), ~NamesClass(a), ~Takes(a)
    PROVE  Right(m, i, <<a>>)
<1>1. Right(m, i, <<>> \o <<a>>)
  BY LeadsEmpty, RightEnds
<1> QED BY <1>1

LEMMA RightTwo ==
    ASSUME NEW m, NEW i, NEW a, NEW b,
           Fit(m, a), ~Bad(i, a), ~NamesClass(a), Passes(a),
           Fit(m, b), Bad(i, b) => Rejects(a), NamesClass(b) => Moves(a), Takes(b) => Resolves(a)
    PROVE  Right(m, i, <<a, b>>)
<1>1. Right(m, i, <<>> \o <<a, b>>)
  BY LeadsEmpty, RightTwoMore
<1> QED BY <1>1

LEMMA RightThree ==
    ASSUME NEW m, NEW i, NEW a, NEW b, NEW c,
           Fit(m, a), ~Bad(i, a), ~NamesClass(a), Passes(a),
           Fit(m, b), Bad(i, b) => Rejects(a), NamesClass(b) => Moves(a), Passes(b),
           Fit(m, c), Bad(i, c) => Rejects(a) \/ Rejects(b), NamesClass(c) => Moves(a) \/ Moves(b),
           Takes(c) => Resolves(b) \/ (Resolves(a) /\ ~Moves(b))
    PROVE  Right(m, i, <<a, b, c>>)
<1>1. Right(m, i, <<>> \o <<a, b, c>>)
  BY LeadsEmpty, RightThreeMore
<1> QED BY <1>1

(***************************************************************************)
(* What the steps so far have made sure of: that the object is not null,   *)
(* that the value fits, that the frame is the top one (or one of them has  *)
(* failed), that the class has been looked up and that the ID has.         *)
(***************************************************************************)
RefusedBy(i, facts) ==
    \/ "object" \in facts /\ i.obj = "null"
    \/ "value" \in facts /\ ~Compatible(i)
    \/ "top" \in facts /\ ~i.top
Ready(m, i, s, facts) == Leads(m, i, s, RefusedBy(i, facts), "id" \in facts, "class" \in facts)

LEMMA ReadyStart == ASSUME NEW m, NEW i PROVE Ready(m, i, <<>>, {})
<1>1. ~RefusedBy(i, {})
  BY DEF RefusedBy
<1>2. Leads(m, i, <<>>, RefusedBy(i, {}), "id" \in {}, "class" \in {})
  BY <1>1, LeadsEmpty DEF Leads
<1> QED BY <1>2 DEF Ready

LEMMA ReadyOn ==
    ASSUME NEW m, NEW i, NEW s, NEW facts, Ready(m, i, s, facts),
           NEW x, Fit(m, x), Passes(x), Bad(i, x) => RefusedBy(i, facts), NamesClass(x) => "class" \in facts,
           NEW more,
           RefusedBy(i, more) => RefusedBy(i, facts) \/ Rejects(x),
           "id" \in more => Resolves(x) \/ ("id" \in facts /\ ~Moves(x)),
           "class" \in more => "class" \in facts \/ Moves(x)
    PROVE  Ready(m, i, s \o <<x>>, more)
<1> DEFINE refused == RefusedBy(i, facts)
           refused2 == RefusedBy(i, more)
           known == "id" \in facts
           known2 == "id" \in more
           named == "class" \in facts
           named2 == "class" \in more
<1>1. Leads(m, i, s, refused, known, named)
  BY DEF Ready
<1>2. /\ Bad(i, x) => refused
      /\ NamesClass(x) => named
      /\ refused2 => refused \/ Rejects(x)
      /\ known2 => Resolves(x) \/ (known /\ ~Moves(x))
      /\ named2 => named \/ Moves(x)
  OBVIOUS
<1> HIDE DEF refused, refused2, known, known2, named, named2
<1>3. Leads(m, i, s \o <<x>>, refused2, known2, named2)
  BY <1>1, <1>2, LeadsOn
<1> QED BY <1>3 DEF refused2, known2, named2, Ready

LEMMA ReadyEnds ==
    ASSUME NEW m, NEW i, NEW s, NEW facts, Ready(m, i, s, facts),
           NEW x, Fit(m, x), Bad(i, x) => RefusedBy(i, facts), NamesClass(x) => "class" \in facts,
           Takes(x) => "id" \in facts
    PROVE  Right(m, i, s \o <<x>>)
<1> DEFINE refused == RefusedBy(i, facts)
           known == "id" \in facts
           named == "class" \in facts
<1>1. Leads(m, i, s, refused, known, named)
  BY DEF Ready
<1>2. /\ Bad(i, x) => refused
      /\ NamesClass(x) => named
      /\ Takes(x) => known
  OBVIOUS
<1> HIDE DEF refused, known, named
<1> QED BY <1>1, <1>2, RightEnds

LEMMA RequireOn ==
    ASSUME NEW m, NEW i, NEW s, NEW facts, Ready(m, i, s, facts),
           NEW x, Inert(x), NEW more,
           RefusedBy(i, more) => RefusedBy(i, facts) \/ Rejects(x),
           "id" \in more => "id" \in facts,
           "class" \in more => "class" \in facts
    PROVE  Ready(m, i, s \o <<x>>, more)
  BY InertFits, ReadyOn

LEMMA TopOn ==
    ASSUME NEW m, NEW i \in Input, NEW s, NEW facts, Ready(m, i, s, facts)
    PROVE  Ready(m, i, s \o <<AssertTop(i)>>, facts \union {"top"})
<1>1. RefusedBy(i, facts \union {"top"}) => RefusedBy(i, facts) \/ Rejects(AssertTop(i))
  BY Requirements DEF RefusedBy
<1> DEFINE more == facts \union {"top"}
           x == AssertTop(i)
<1>2. Inert(x) /\ ("id" \in more => "id" \in facts) /\ ("class" \in more => "class" \in facts)
  BY Requirements
<1> HIDE DEF more, x
<1>3. Ready(m, i, s \o <<x>>, more)
  BY <1>1, <1>2, RequireOn DEF more, x
<1> QED BY <1>3 DEF more, x

LEMMA NullOn ==
    ASSUME NEW m, NEW i \in Input, NEW s, NEW facts, Ready(m, i, s, facts)
    PROVE  Ready(m, i, s \o <<NullCheck(i)>>, facts \union {"object"})
<1>1. RefusedBy(i, facts \union {"object"}) => RefusedBy(i, facts) \/ Rejects(NullCheck(i))
  BY Requirements DEF RefusedBy
<1> DEFINE more == facts \union {"object"}
           x == NullCheck(i)
<1>2. Inert(x) /\ ("id" \in more => "id" \in facts) /\ ("class" \in more => "class" \in facts)
  BY Requirements
<1> HIDE DEF more, x
<1>3. Ready(m, i, s \o <<x>>, more)
  BY <1>1, <1>2, RequireOn DEF more, x
<1> QED BY <1>3 DEF more, x

LEMMA AnyRequireOn ==
    ASSUME NEW m, NEW i, NEW s, NEW facts, Ready(m, i, s, facts), NEW x, Inert(x)
    PROVE  Ready(m, i, s \o <<x>>, facts)
  BY RequireOn

LEMMA ClassOn ==
    ASSUME NEW m, NEW i, NEW s, NEW facts, Ready(m, i, s, facts)
    PROVE  Ready(m, i, s \o <<LookupClass>>, (facts \ {"id"}) \union {"class"})
<1> DEFINE more == (facts \ {"id"}) \union {"class"}
           x == LookupClass
<1>1. /\ Fit(m, x) /\ Passes(x) /\ ~Bad(i, x) /\ ~NamesClass(x) /\ Moves(x)
  BY LookupFacts
<1>2. /\ RefusedBy(i, more) => RefusedBy(i, facts)
      /\ "id" \notin more
  BY DEF RefusedBy
<1> HIDE DEF more, x
<1>3. Ready(m, i, s \o <<x>>, more)
  BY <1>1, <1>2, ReadyOn
<1> QED BY <1>3 DEF more, x

LEMMA BindingOn ==
    ASSUME NEW m, NEW i, NEW s, NEW facts, Ready(m, i, s, facts)
    PROVE  Ready(m, i, s \o <<LookupBinding>>, facts \union {"id"})
<1> DEFINE more == facts \union {"id"}
           x == LookupBinding
<1>1. /\ Fit(m, x) /\ Passes(x) /\ ~Bad(i, x) /\ ~NamesClass(x) /\ Resolves(x)
  BY LookupFacts
<1>2. /\ RefusedBy(i, more) => RefusedBy(i, facts)
      /\ "class" \in more => "class" \in facts
  BY DEF RefusedBy
<1> HIDE DEF more, x
<1>3. Ready(m, i, s \o <<x>>, more)
  BY <1>1, <1>2, ReadyOn
<1> QED BY <1>3 DEF more, x

LEMMA IdOn ==
    ASSUME NEW m, NEW i, NEW s, NEW facts, Ready(m, i, s, facts), "class" \in facts
    PROVE  Ready(m, i, s \o <<LookupId>>, facts \union {"id"})
<1> DEFINE more == facts \union {"id"}
           x == LookupId
<1>0. Is({"class"}, "catch", "id")
  BY DEF Is, Jvm, Step, StepType
<1>1. /\ Fit(m, x) /\ Passes(x) /\ ~Bad(i, x) /\ Resolves(x)
  BY <1>0, IsFits DEF LookupId, Passes
<1>2. /\ RefusedBy(i, more) => RefusedBy(i, facts)
      /\ "class" \in more => "class" \in facts
  BY DEF RefusedBy
<1> HIDE DEF more, x
<1>3. Ready(m, i, s \o <<x>>, more)
  BY <1>1, <1>2, ReadyOn
<1> QED BY <1>3 DEF more, x

LEMMA ReadySteps == ASSUME NEW m, NEW i, NEW s, NEW facts, Ready(m, i, s, facts) PROVE s \in Seq(StepType)
  BY DEF Ready, Leads

(* The steps are steps. *)
LEMMA AreSteps ==
    ASSUME NEW i \in Input
    PROVE  /\ AssertTop(i) \in StepType /\ NullCheck(i) \in StepType /\ NullCheckClass(i) \in StepType
           /\ LookupClass \in StepType /\ LookupBinding \in StepType /\ LookupId \in StepType
           /\ Require(i.counts, "refused") \in StepType /\ Require(Fits(i), "refused") \in StepType
<1>1. Is({"class"}, "catch", "id")
  BY DEF Is, Jvm, Step, StepType
<1>2. LookupId \in StepType
  BY <1>1 DEF Is, LookupId
<1> QED BY <1>2, Requirements, StepFields DEF Inert, LookupClass, LookupBinding

LEMMA CheckArgsOn ==
    ASSUME NEW m, NEW i \in Input, NEW s, NEW facts, Ready(m, i, s, facts)
    PROVE  Ready(m, i, s \o CheckArgs(i), facts \union {"value"})
<1> DEFINE a == Require(i.counts, "refused")
           b == Require(Fits(i), "refused")
           t == s \o <<a>>
           more == facts \union {"value"}
<1>1. Inert(a) /\ Inert(b) /\ (Rejects(b) <=> ~Fits(i))
  BY Requirements
<1>2. ~Compatible(i) => ~Fits(i)
  BY DEF Compatible, Fits, Input, SigTypes, ValueTypes, IsObject
<1>3. RefusedBy(i, more) => RefusedBy(i, facts) \/ Rejects(b)
  BY <1>1, <1>2 DEF RefusedBy
<1>4. ("id" \in more => "id" \in facts) /\ ("class" \in more => "class" \in facts)
  OBVIOUS
<1>5. s \o CheckArgs(i) = t \o <<b>>
  BY ReadySteps, AreSteps, TwoAsOne DEF CheckArgs
<1> HIDE DEF a, b, t, more
<1>6. Ready(m, i, t, facts)
  BY <1>1, AnyRequireOn DEF t
<1>7. Ready(m, i, t \o <<b>>, more)
  BY <1>1, <1>3, <1>4, <1>6, RequireOn
<1> QED BY <1>5, <1>7 DEF more

LEMMA ObjectClassOn ==
    ASSUME NEW m, NEW i \in Input, NEW s, NEW facts, Ready(m, i, s, facts)
    PROVE  Ready(m, i, s \o ObjectClass(i), (facts \ {"id"}) \union {"top", "object", "class"})
<1> DEFINE a == AssertTop(i)
           b == NullCheck(i)
           x == Jvm({"object"}, "none", "object class")
           t == s \o <<a, b>>
           half == (facts \union {"top"}) \union {"object"}
           more == (facts \ {"id"}) \union {"top", "object", "class"}
<1>1. Is({"object"}, "none", "object class")
  BY DEF Is, Jvm, Step, StepType
<1>2. Fit(m, x) /\ Passes(x) /\ ~NamesClass(x) /\ Moves(x) /\ (Bad(i, x) => RefusedBy(i, half))
  BY <1>1, IsFits DEF Passes, RefusedBy
<1>3. x \in StepType
  BY <1>1 DEF Is
<1>4. s \o <<a, b>> = (s \o <<a>>) \o <<b>> /\ s \o ObjectClass(i) = t \o <<x>>
  <2>1. s \in Seq(StepType) /\ a \in StepType /\ b \in StepType
    BY ReadySteps, AreSteps
  <2>2. s \o <<a, b>> = (s \o <<a>>) \o <<b>>
    BY <2>1, TwoAsOne
  <2>3. x \in StepType
    BY <1>3
  <2>4. s \o <<a, b, x>> = t \o <<x>>
    <3> HIDE DEF a, b, x
    <3> QED BY <2>1, <2>3, ThreeAsOne
  <2> QED BY <2>2, <2>4 DEF ObjectClass
<1>5. Ready(m, i, t, half)
  BY <1>4, TopOn, NullOn
<1>6. (RefusedBy(i, more) => RefusedBy(i, half)) /\ "id" \notin more
  BY DEF RefusedBy
<1> HIDE DEF a, b, x, t, half, more
<1>7. Ready(m, i, t \o <<x>>, more)
  BY <1>2, <1>5, <1>6, ReadyOn
<1> QED BY <1>4, <1>7 DEF more

(* A function whose values may not fit is one all the same. *)
LEMMA FunctionWithValues ==
    ASSUME NEW i \in Input, NEW needs, needs \subseteq {"class", "id", "object"},
           NEW after, after \in {"none", "check"}, NEW gives, gives \in {"value", "local", "nonnull"}
    PROVE  Is(needs \union Misfit(i), after, gives)
<1> DEFINE all == needs \union Misfit(i)
<1>1. all \in SUBSET {"class", "id", "object", "throwable", "wrong value"}
  BY ValueFits
<1> HIDE DEF all
<1> QED BY <1>1 DEF Is, Jvm, Step, StepType, all

LEMMA CallEnds ==
    ASSUME NEW m, m \notin Catching, NEW i \in Input, NEW s, NEW facts, Ready(m, i, s, facts),
           "class" \in facts, "value" \in facts,
           NEW needs, needs \subseteq {"class", "id", "object"}, "object" \in needs => "object" \in facts
    PROVE  Right(m, i, s \o <<AssertTop(i), LookupId, Jvm(needs \union Misfit(i), "check", Given(i.ret))>>)
<1> DEFINE a == AssertTop(i)
           b == LookupId
           x == Jvm(needs \union Misfit(i), "check", Given(i.ret))
           t == s \o <<a, b>>
           more == (facts \union {"top"}) \union {"id"}
<1>0. Given(i.ret) \in {"value", "local"}
  BY DEF Given
<1>1. Is(needs \union Misfit(i), "check", Given(i.ret))
  BY <1>0, FunctionWithValues
<1>2. Fit(m, x)
  BY <1>0, <1>1, IsFits
<1>3. Bad(i, x) => RefusedBy(i, more)
  <2>1. Bad(i, x) => \/ "object" \in needs \union Misfit(i) /\ i.obj = "null"
                     \/ "wrong value" \in needs \union Misfit(i)
                     \/ ~i.top
    BY <1>1, IsFits
  <2>2. "object" \in needs \union Misfit(i) => "object" \in more
    BY ValueFits
  <2>3. "wrong value" \in needs \union Misfit(i) => ~Compatible(i)
    BY ValueFits
  <2>4. "value" \in more /\ "top" \in more
    OBVIOUS
  <2> QED BY <2>1, <2>2, <2>3, <2>4 DEF RefusedBy
<1>4. NamesClass(x) => "class" \in more
  OBVIOUS
<1>5. s \o <<a, b>> = (s \o <<a>>) \o <<b>> /\ s \o <<a, b, x>> = t \o <<x>>
  <2>1. s \in Seq(StepType) /\ a \in StepType /\ b \in StepType
    BY ReadySteps, AreSteps
  <2>2. s \o <<a, b>> = (s \o <<a>>) \o <<b>>
    BY <2>1, TwoAsOne
  <2>3. s \o <<a, b, x>> = t \o <<x>>
    BY <1>2, <2>1, ThreeAsOne DEF Fit
  <2> QED BY <2>2, <2>3
<1>6. Ready(m, i, t, more)
  BY <1>5, TopOn, IdOn
<1>7. "id" \in more
  OBVIOUS
<1> HIDE DEF a, b, x, t, more
<1>8. Right(m, i, t \o <<x>>)
  BY <1>2, <1>3, <1>4, <1>6, <1>7, ReadyEnds
<1> QED BY <1>5, <1>8 DEF a, b, x

(* A method up to its class: the requirements, and the class *)
LEMMA CheckedCalls ==
    ASSUME NEW m, NEW i \in Input
    PROVE  /\ Ready(m, i, <<AssertTop(i), NullCheck(i)>> \o CheckArgs(i), {"top", "object", "value"})
           /\ Ready(m, i, <<AssertTop(i)>> \o CheckArgs(i), {"top", "value"})
<1>1. Ready(m, i, <<>> \o <<AssertTop(i)>>, {} \union {"top"})
  BY ReadyStart, TopOn
<1>2. <<>> \o <<AssertTop(i)>> = <<AssertTop(i)>>
  OBVIOUS
<1>3. Ready(m, i, <<AssertTop(i)>>, {"top"})
  BY <1>1, <1>2
<1>4. Ready(m, i, <<AssertTop(i)>> \o <<NullCheck(i)>>, {"top"} \union {"object"})
  BY <1>3, NullOn
<1>5. <<AssertTop(i), NullCheck(i)>> = <<AssertTop(i)>> \o <<NullCheck(i)>>
  BY AreSteps, PairIsConcat
<1>6. Ready(m, i, <<AssertTop(i), NullCheck(i)>>, {"top", "object"})
  BY <1>4, <1>5
<1>7. Ready(m, i, <<AssertTop(i), NullCheck(i)>> \o CheckArgs(i), {"top", "object"} \union {"value"})
  BY <1>6, CheckArgsOn
<1>8. Ready(m, i, <<AssertTop(i)>> \o CheckArgs(i), {"top"} \union {"value"})
  BY <1>3, CheckArgsOn
<1> QED BY <1>7, <1>8

LEMMA CallMethodRight ==
    ASSUME NEW i \in Input
    PROVE  Right("call_method", i, CallMethod(i))
<1> DEFINE s == <<AssertTop(i), NullCheck(i)>> \o CheckArgs(i)
           t == s \o ObjectClass(i)
           facts == ({"top", "object", "value"} \ {"id"}) \union {"top", "object", "class"}
<1>1. Ready("call_method", i, s, {"top", "object", "value"})
  BY CheckedCalls
<1>2. Ready("call_method", i, t, facts)
  BY <1>1, ObjectClassOn
<1>3. "class" \in facts /\ "value" \in facts /\ "object" \in facts /\ "call_method" \notin Catching
  BY DEF Catching
<1> HIDE DEF s, t, facts
<1>4. Right("call_method", i, t \o CallMethodUnchecked(i))
  BY <1>2, <1>3, CallEnds DEF CallMethodUnchecked
<1> QED BY <1>4 DEF CallMethod, s, t

LEMMA CallStaticMethodRight ==
    ASSUME NEW i \in Input
    PROVE  Right("call_static_method", i, CallStaticMethod(i))
<1> DEFINE s == <<AssertTop(i)>> \o CheckArgs(i)
           t == s \o <<LookupClass>>
           facts == ({"top", "value"} \ {"id"}) \union {"class"}
<1>1. Ready("call_static_method", i, s, {"top", "value"})
  BY CheckedCalls
<1>2. Ready("call_static_method", i, t, facts)
  BY <1>1, ClassOn
<1>3. "class" \in facts /\ "value" \in facts /\ "call_static_method" \notin Catching
  BY DEF Catching
<1> HIDE DEF s, t, facts
<1>4. Right("call_static_method", i, t \o CallStaticMethodUnchecked(i))
  BY <1>2, <1>3, CallEnds DEF CallStaticMethodUnchecked
<1> QED BY <1>4 DEF CallStaticMethod, s, t

LEMMA CallNonvirtualMethodRight ==
    ASSUME NEW i \in Input
    PROVE  Right("call_nonvirtual_method", i, CallNonvirtualMethod(i))
<1> DEFINE s == <<AssertTop(i), NullCheck(i)>> \o CheckArgs(i)
           t == s \o <<LookupClass>>
           facts == ({"top", "object", "value"} \ {"id"}) \union {"class"}
<1>1. Ready("call_nonvirtual_method", i, s, {"top", "object", "value"})
  BY CheckedCalls
<1>2. Ready("call_nonvirtual_method", i, t, facts)
  BY <1>1, ClassOn
<1>3. /\ "class" \in facts /\ "value" \in facts /\ "object" \in facts
      /\ "call_nonvirtual_method" \notin Catching
  BY DEF Catching
<1> HIDE DEF s, t, facts
<1>4. Right("call_nonvirtual_method", i, t \o CallNonvirtualMethodUnchecked(i))
  BY <1>2, <1>3, CallEnds DEF CallNonvirtualMethodUnchecked
<1> QED BY <1>4 DEF CallNonvirtualMethod, s, t

(* Fields: a setter ends with the lookup of the ID and the value. *)
LEMMA SetterEnds ==
    ASSUME NEW m, m \notin Catching, NEW i \in Input, NEW s, NEW facts, Ready(m, i, s, facts),
           "class" \in facts, "value" \in facts,
           NEW needs, needs \subseteq {"class", "id", "object"}, "object" \in needs => "object" \in facts
    PROVE  Right(m, i, s \o <<LookupId, Jvm(needs \union Misfit(i), "none", "value")>>)
<1> DEFINE b == LookupId
           x == Jvm(needs \union Misfit(i), "none", "value")
           t == s \o <<b>>
           more == facts \union {"id"}
<1>1. Is(needs \union Misfit(i), "none", "value")
  BY FunctionWithValues
<1>2. Fit(m, x)
  BY <1>1, IsFits
<1>3. Bad(i, x) => RefusedBy(i, more)
  <2>1. /\ "wrong value" \in needs \union Misfit(i) => ~Compatible(i)
        /\ "object" \in needs \union Misfit(i) => "object" \in facts
    BY ValueFits
  <2>2. Bad(i, x) => \/ "object" \in needs \union Misfit(i) /\ i.obj = "null"
                     \/ "wrong value" \in needs \union Misfit(i)
    <3> DEFINE all == needs \union Misfit(i)
    <3>1. Is(all, "none", "value")
      BY <1>1
    <3> HIDE DEF all
    <3>2. Bad(i, Jvm(all, "none", "value")) => \/ "object" \in all /\ i.obj = "null"
                                             \/ "wrong value" \in all
      BY <3>1 DEF Is, Bad
    <3> QED BY <3>2 DEF all
  <2> QED BY <2>1, <2>2 DEF RefusedBy
<1>4. "class" \in more /\ "id" \in more
  OBVIOUS
<1>5. s \in Seq(StepType) /\ b \in StepType /\ x \in StepType
  BY <1>2, ReadySteps, AreSteps DEF Fit
<1>6. s \o <<b, x>> = t \o <<x>>
  <2> HIDE DEF b, x
  <2> QED BY <1>5, TwoAsOne
<1>7. Ready(m, i, t, more)
  BY IdOn
<1> HIDE DEF b, x, t, more
<1>8. Right(m, i, t \o <<x>>)
  BY <1>2, <1>3, <1>4, <1>7, ReadyEnds
<1> QED BY <1>6, <1>8 DEF b, x

LEMMA CompatibleOn ==
    ASSUME NEW m, NEW i \in Input, NEW s, NEW facts, Ready(m, i, s, facts)
    PROVE  Ready(m, i, s \o <<Require(Compatible(i), "refused")>>, facts \union {"value"})
<1> DEFINE more == facts \union {"value"}
           x == Require(Compatible(i), "refused")
<1>1. RefusedBy(i, more) => RefusedBy(i, facts) \/ Rejects(x)
  BY Requirements DEF RefusedBy
<1>2. Inert(x) /\ ("id" \in more => "id" \in facts) /\ ("class" \in more => "class" \in facts)
  BY Requirements
<1> HIDE DEF more, x
<1>3. Ready(m, i, s \o <<x>>, more)
  BY <1>1, <1>2, RequireOn
<1> QED BY <1>3 DEF more, x

LEMMA SetFieldRight ==
    ASSUME NEW i \in Input
    PROVE  Right("set_field", i, SetField(i))
<1> DEFINE a == NullCheck(i)
           b == Require(Compatible(i), "refused")
           c == Require(i.value # "void", "refused")
           s == <<a, b>> \o ObjectClass(i)
           last == Jvm({"object", "id"} \union Misfit(i), "none", "value")
           half == ({} \union {"object"}) \union {"value"}
           facts == (half \ {"id"}) \union {"top", "object", "class"}
<1>1. Inert(a) /\ Inert(b) /\ Inert(c)
  BY Requirements
<1>2. a \in StepType /\ b \in StepType /\ c \in StepType /\ LookupId \in StepType /\ last \in StepType
  <2>1. Is({"object", "id"} \union Misfit(i), "none", "value")
    BY FunctionWithValues
  <2> QED BY <1>1, <2>1, AreSteps DEF Inert, Is
<1>3. Ready("set_field", i, (<<>> \o <<a>>) \o <<b>>, half)
  BY ReadyStart, NullOn, CompatibleOn
<1>4. <<>> \o <<a>> = <<a>>
  OBVIOUS
<1>5. <<a, b>> = <<a>> \o <<b>>
  <2> HIDE DEF a, b
  <2> QED BY <1>2, PairIsConcat
<1>6. Ready("set_field", i, <<a, b>>, half)
  BY <1>3, <1>4, <1>5
<1>7. Ready("set_field", i, s, facts)
  BY <1>6, ObjectClassOn
<1>8. "class" \in facts /\ "value" \in facts /\ "object" \in facts /\ "set_field" \notin Catching
  BY DEF Catching
<1>9. s \in Seq(StepType)
  BY <1>7, ReadySteps
<1> DEFINE t == s \o <<c>>
           rest == <<LookupId, last>>
<1>10. Ready("set_field", i, t, facts)
  <2> HIDE DEF s, facts, c
  <2> QED BY <1>1, <1>7, AnyRequireOn
<1>11. Right("set_field", i, t \o rest)
  <2> HIDE DEF t, facts
  <2> QED BY <1>8, <1>10, SetterEnds
<1>12. s \o <<c, LookupId, last>> = t \o rest
  <2> DEFINE p == <<c>>
  <2> HIDE DEF s, c, last
  <2>1. <<c, LookupId, last>> = p \o rest
    BY <1>2
  <2>2. p \in Seq(StepType) /\ rest \in Seq(StepType)
    BY <1>2
  <2> HIDE DEF p, rest
  <2>3. s \o (p \o rest) = (s \o p) \o rest
    BY <1>9, <2>2, ConcatAssociative
  <2> QED BY <2>1, <2>3 DEF p
<1> QED BY <1>11, <1>12 DEF SetField, SetFieldUnchecked

LEMMA SetStaticFieldRight ==
    ASSUME NEW i \in Input
    PROVE  Right("set_static_field", i, SetStaticField(i))
<1> DEFINE a == Require(Compatible(i), "refused")
           b == LookupClass
           half == {} \union {"value"}
           facts == (half \ {"id"}) \union {"class"}
<1>1. a \in StepType /\ b \in StepType
  BY Requirements, AreSteps DEF Inert
<1>2. Ready("set_static_field", i, (<<>> \o <<a>>) \o <<b>>, facts)
  BY ReadyStart, CompatibleOn, ClassOn
<1>3. <<>> \o <<a>> = <<a>>
  OBVIOUS
<1>4. <<a, b>> = <<a>> \o <<b>>
  <2> HIDE DEF a, b
  <2> QED BY <1>1, PairIsConcat
<1> DEFINE s == <<a, b>>
<1>5. Ready("set_static_field", i, s, facts)
  BY <1>2, <1>3, <1>4
<1>6. "class" \in facts /\ "value" \in facts /\ "set_static_field" \notin Catching
  BY DEF Catching
<1>7. Right("set_static_field", i, s \o SetStaticFieldUnchecked(i))
  <2> HIDE DEF s, facts
  <2> QED BY <1>5, <1>6, SetterEnds DEF SetStaticFieldUnchecked
<1> QED BY <1>7 DEF SetStaticField

(* A getter: what its last call needs is known. *)
LEMMA GetFieldRight ==
    ASSUME NEW i \in Input
    PROVE  Right("get_field", i, GetField(i))
<1> DEFINE m == "get_field"
           a == AssertTop(i)
           b == NullCheck(i)
           s == <<a, b>>
           t == s \o ObjectClass(i)
           u == t \o <<LookupId>>
           v == u \o <<a, b>>
           after == IF IsObject(i.type) THEN "check" ELSE "none"
           last == Jvm({"object", "id"}, after, Given(i.type))
           first == ({} \union {"top"}) \union {"object"}
           facts == ((first \ {"id"}) \union {"top", "object", "class"}) \union {"id"}
           all == (facts \union {"top"}) \union {"object"}
<1>1. a \in StepType /\ b \in StepType
  BY AreSteps
<1>2. Is({"object", "id"}, after, Given(i.type)) /\ Given(i.type) \in {"value", "local"}
  BY DEF Is, Jvm, Step, StepType, Given
<1>3. last \in StepType
  BY <1>2 DEF Is
<1>4. Ready(m, i, (<<>> \o <<a>>) \o <<b>>, first)
  BY ReadyStart, TopOn, NullOn
<1>5. <<a, b>> = (<<>> \o <<a>>) \o <<b>>
  <2> HIDE DEF a, b
  <2> QED BY <1>1, PairIsConcat
<1>6. Ready(m, i, t, (first \ {"id"}) \union {"top", "object", "class"})
  BY <1>4, <1>5, ObjectClassOn
<1>7. Ready(m, i, u, facts)
  <2> HIDE DEF t, first
  <2> QED BY <1>6, IdOn
<1>8. Ready(m, i, (u \o <<a>>) \o <<b>>, all)
  <2> HIDE DEF u, facts
  <2> QED BY <1>7, TopOn, NullOn
<1>9. u \in Seq(StepType)
  BY <1>7, ReadySteps
<1>10. Ready(m, i, v, all)
  <2> HIDE DEF u, a, b
  <2>1. u \o <<a, b>> = (u \o <<a>>) \o <<b>>
    BY <1>1, <1>9, TwoAsOne
  <2> QED BY <1>8, <2>1
<1>11. Fit(m, last)
  BY <1>2, IsFits DEF Catching
<1>12. (Bad(i, last) => RefusedBy(i, all)) /\ (NamesClass(last) => "class" \in all) /\ "id" \in all
  BY <1>2, IsFits DEF RefusedBy
<1>13. Right(m, i, v \o <<last>>)
  <2> HIDE DEF v, last, all
  <2> QED BY <1>10, <1>11, <1>12, ReadyEnds
<1>14. u \o <<a, b, last>> = v \o <<last>>
  <2> HIDE DEF u, a, b, last
  <2> QED BY <1>1, <1>3, <1>9, ThreeAsOne
<1> QED BY <1>13, <1>14 DEF GetField, GetFieldUnchecked

LEMMA GetStaticFieldRight ==
    ASSUME NEW i \in Input
    PROVE  Right("get_static_field", i, GetStaticField(i))
<1> DEFINE m == "get_static_field"
           a == AssertTop(i)
           b == LookupClass
           c == LookupId
           s == <<a, b>>
           v == s \o <<a, c>>
           last == Jvm({"class", "id"}, "check", Given(i.type))
           facts == (({} \union {"top"}) \ {"id"}) \union {"class"}
           all == (facts \union {"top"}) \union {"id"}
<1>1. a \in StepType /\ b \in StepType /\ c \in StepType
  BY AreSteps
<1>2. Is({"class", "id"}, "check", Given(i.type)) /\ Given(i.type) \in {"value", "local"}
  BY DEF Is, Jvm, Step, StepType, Given
<1>3. last \in StepType
  BY <1>2 DEF Is
<1>4. Ready(m, i, (<<>> \o <<a>>) \o <<b>>, facts)
  BY ReadyStart, TopOn, ClassOn
<1>5. <<a, b>> = (<<>> \o <<a>>) \o <<b>>
  <2> HIDE DEF a, b
  <2> QED BY <1>1, PairIsConcat
<1>6. Ready(m, i, s, facts) /\ s \in Seq(StepType)
  BY <1>4, <1>5, ReadySteps
<1>7. Ready(m, i, (s \o <<a>>) \o <<c>>, all)
  <2>1. "class" \in facts \union {"top"}
    OBVIOUS
  <2> HIDE DEF s, facts
  <2> QED BY <1>6, <2>1, TopOn, IdOn
<1>8. Ready(m, i, v, all)
  <2> HIDE DEF s, a, c
  <2>1. s \o <<a, c>> = (s \o <<a>>) \o <<c>>
    BY <1>1, <1>6, TwoAsOne
  <2> QED BY <1>7, <2>1
<1>9. Fit(m, last)
  BY <1>2, IsFits DEF Catching
<1>10. (Bad(i, last) => RefusedBy(i, all)) /\ (NamesClass(last) => "class" \in all) /\ "id" \in all
  BY <1>2, IsFits DEF RefusedBy
<1>11. Right(m, i, v \o <<last>>)
  <2> HIDE DEF v, last, all
  <2> QED BY <1>8, <1>9, <1>10, ReadyEnds
<1>12. s \o <<a, c, last>> = v \o <<last>>
  <2> HIDE DEF s, a, c, last
  <2> QED BY <1>1, <1>3, <1>6, ThreeAsOne
<1> QED BY <1>11, <1>12 DEF GetStaticField, GetStaticFieldUnchecked

(* An object is made, by new_object and by throw: the requirement, the class and the ID *)
LEMMA NewObjectOn ==
    ASSUME NEW m, NEW i \in Input, NEW s, NEW facts, Ready(m, i, s, facts), NEW r, Inert(r)
    PROVE  Ready(m, i, (s \o <<r, LookupClass, LookupId>>) \o <<AssertTop(i)>>,
                 ((facts \ {"id"}) \union {"class", "id"}) \union {"top"})
<1> DEFINE b == LookupClass
           c == LookupId
           t == (s \o <<r>>) \o <<b>>
           half == (facts \ {"id"}) \union {"class"}
           all == (facts \ {"id"}) \union {"class", "id"}
<1>1. s \in Seq(StepType) /\ r \in StepType /\ b \in StepType /\ c \in StepType
  BY ReadySteps, AreSteps DEF Inert
<1>2. Ready(m, i, s \o <<r>>, facts)
  BY AnyRequireOn
<1>3. Ready(m, i, t, half) /\ "class" \in half
  BY <1>2, ClassOn
<1>4. half \union {"id"} = all
  OBVIOUS
<1>5. Ready(m, i, t \o <<c>>, all)
  <2> HIDE DEF t, half
  <2>1. Ready(m, i, t \o <<c>>, half \union {"id"})
    BY <1>3, IdOn
  <2> QED BY <1>4, <2>1
<1>6. s \o <<r, b, c>> = t \o <<c>>
  <2> HIDE DEF b, c
  <2>1. s \o <<r, b>> = (s \o <<r>>) \o <<b>>
    BY <1>1, TwoAsOne
  <2>2. s \o <<r, b, c>> = (s \o <<r, b>>) \o <<c>>
    BY <1>1, ThreeAsOne
  <2> QED BY <2>1, <2>2
<1>7. Ready(m, i, s \o <<r, LookupClass, LookupId>>, all)
  BY <1>5, <1>6
<1> HIDE DEF all
<1>8. Ready(m, i, (s \o <<r, LookupClass, LookupId>>) \o <<AssertTop(i)>>, all \union {"top"})
  BY <1>7, TopOn
<1> QED BY <1>8 DEF all

LEMMA NewObjectRight ==
    ASSUME NEW i \in Input
    PROVE  Right("new_object", i, NewObject(i))
<1> DEFINE m == "new_object"
           a == AssertTop(i)
           r == Require(i.ret = "void", "refused")
           s == <<a>> \o CheckArgs(i)
           t == s \o <<r, LookupClass, LookupId>>
           v == t \o <<a>>
           needs == {"class", "id"} \union Misfit(i)
           last == Jvm(needs, "check", "nonnull")
           all == (({"top", "value"} \ {"id"}) \union {"class", "id"}) \union {"top"}
<1>1. Ready(m, i, s, {"top", "value"}) /\ Inert(r)
  BY CheckedCalls, Requirements
<1>2. Ready(m, i, v, all)
  <2> HIDE DEF s, r
  <2> QED BY <1>1, NewObjectOn
<1>3. Is(needs, "check", "nonnull")
  BY FunctionWithValues
<1>4. last \in StepType /\ a \in StepType
  BY <1>3, AreSteps DEF Is
<1>5. t \in Seq(StepType)
  <2>1. s \in Seq(StepType) /\ r \in StepType /\ LookupClass \in StepType /\ LookupId \in StepType
    BY <1>1, ReadySteps, AreSteps DEF Inert
  <2> HIDE DEF s, r
  <2> QED BY <2>1
<1>6. /\ "wrong value" \in needs => ~Compatible(i)
      /\ "object" \notin needs
  BY ValueFits
<1>7. Fit(m, last)
  BY <1>3, IsFits DEF Catching
<1>8. Bad(i, last) => RefusedBy(i, all)
  <2> HIDE DEF needs
  <2>1. Bad(i, last) => "object" \in needs \/ "wrong value" \in needs \/ ~i.top
    BY <1>3 DEF Is, Bad
  <2> QED BY <1>6, <2>1 DEF RefusedBy
<1>9. "class" \in all /\ "id" \in all
  OBVIOUS
<1>10. Right(m, i, v \o <<last>>)
  <2> HIDE DEF v, last, all
  <2> QED BY <1>2, <1>7, <1>8, <1>9, ReadyEnds
<1>11. t \o <<a, last>> = v \o <<last>>
  <2> HIDE DEF t, a, last
  <2> QED BY <1>4, <1>5, TwoAsOne
<1> QED BY <1>10, <1>11 DEF NewObject, NewObjectUnchecked

(* What throw does at last: the object it makes becomes the throwable, and is thrown. *)
LEMMA ThrowEnds ==
    ASSUME NEW i, NEW s, NEW facts, Ready("throw_desc", i, s, facts), "class" \in facts, "id" \in facts,
           NEW x \in StepType, ~Bad(i, x) \/ RefusedBy(i, facts),
           ObjectThrown(x), ~Moves(x), ~Turns(x), ~Tests(x),
           NEW y \in StepType, ~Bad(i, y), ~Takes(y), ~NamesClass(y), ~Makes(y), ~Tests(y),
           Turns(y), y.after = "none",
           NEW z \in StepType, ~Bad(i, z), ~Takes(z), ~NamesClass(z), ~Turns(z), ~Makes(z), ~Tests(z)
    PROVE  Right("throw_desc", i, ((s \o <<x>>) \o <<y>>) \o <<z>>)
<1> DEFINE m == "throw_desc"
           n == Len(s)
           t == ((s \o <<x>>) \o <<y>>) \o <<z>>
<1>1. s \in Seq(StepType)
  BY ReadySteps
<1>2. /\ n \in Nat /\ Len(t) = n + 3 /\ t \in Seq(StepType)
      /\ t[n + 1] = x /\ t[n + 2] = y /\ t[n + 3] = z
      /\ \A k \in 1..n : t[k] = s[k]
  BY <1>1
<1>3. /\ \A k \in 1..n : Sits(m, i, s, k) /\ Passes(s[k])
      /\ RefusedBy(i, facts) => Failed(s, n)
      /\ Resolved(s, n) /\ Moved(s, n)
  BY DEF Ready, Leads
<1> HIDE DEF t, n
<1>4. /\ RefusedBy(i, facts) => Failed(t, n)
      /\ Resolved(t, n) /\ Moved(t, n)
  BY <1>2, <1>3, StillSo
<1>5. \A k \in 1..n : Sits(m, i, t, k) /\ Passes(t[k])
  BY <1>2, <1>3, StillSo DEF Sits
<1>6. /\ \A k \in 1..Len(t) : k \in 1..n \/ k = n + 1 \/ k = n + 2 \/ k = n + 3
      /\ n + 1 - 1 = n /\ n + 2 - 1 = n + 1 /\ n + 1 + 1 = n + 2 /\ n + 2 # 1
  BY <1>2
<1>7. ArgsRight(i, t)
  <2> SUFFICES ASSUME NEW k \in 1..Len(t), Bad(i, t[k]) PROVE Failed(t, k - 1)
    BY DEF ArgsRight, Failed
  <2> QED BY <1>2, <1>4, <1>5, <1>6 DEF Sits
<1>8. ClassesRight(FALSE, t)
  <2> SUFFICES ASSUME NEW k \in 1..Len(t), NamesClass(t[k]) PROVE Moved(t, k - 1)
    BY DEF ClassesRight, Moved
  <2> QED BY <1>2, <1>4, <1>5, <1>6 DEF Sits
<1>9. IdsRight(FALSE, t)
  <2> SUFFICES ASSUME NEW k \in 1..Len(t), Takes(t[k]) PROVE Resolved(t, k - 1)
    BY DEF IdsRight, Resolved
  <2> QED BY <1>2, <1>4, <1>5, <1>6 DEF Passes
<1>10. LocalsRight(m, FALSE, t)
  <2>1. \A k \in 1..n : ~Makes(t[k]) /\ ~Turns(t[k]) /\ ~Tests(t[k])
    BY <1>5 DEF Sits, Passes, Fit
  <2> SUFFICES ASSUME NEW k \in 1..Len(t)
               PROVE  /\ Makes(t[k]) => ObjectThrown(t[k]) /\ Turns(t[k + 1])
                      /\ Turns(t[k]) => /\ t[k].after = "none"
                                        /\ k # 1 /\ ObjectThrown(t[k - 1])
                      /\ ~Tests(t[k])
    BY DEF LocalsRight
  <2> QED BY <1>2, <1>6, <2>1
<1>11. CatchesRight(m, t)
  BY DEF CatchesRight, Catching
<1>12. Right(m, i, t)
  BY <1>2, <1>7, <1>8, <1>9, <1>10, <1>11 DEF Right
<1> QED BY <1>12 DEF t

(* Concatenation under a name of its own, so that only this is known of it *)
Before(s, t) == s \o t
LEMMA BeforeAssociates ==
    ASSUME NEW S, NEW p \in Seq(S), NEW q \in Seq(S), NEW r \in Seq(S)
    PROVE  /\ Before(Before(p, q), r) = Before(p, Before(q, r))
           /\ Before(p, q) \in Seq(S)
<1>1. (p \o q) \o r = p \o (q \o r)
  OBVIOUS
<1>2. p \o q \in Seq(S)
  OBVIOUS
<1> QED BY <1>1, <1>2 DEF Before
LEMMA ThrowDescRight ==
    ASSUME NEW i \in Input
    PROVE  Right("throw_desc", i, ThrowDesc(i))
<1> DEFINE m == "throw_desc"
           w == WithMessage(i)
           a == AssertTop(i)
           b == Require(w.counts, "refused")
           c == Require(Fits(w), "refused")
           r == Require(w.ret = "void", "refused")
           j == Jvm({}, "catch", "auto")
           x == Jvm({"class", "id"} \union Misfit(w), "check", "nonnull")
           y == Jvm({}, "none", "throwable")
           z == Jvm({}, "none", "thrown")
           p == <<a, j>>
           q == p \o <<a>>
           s == q \o CheckArgs(w)
           new == <<r, LookupClass, LookupId>>
           v == (s \o new) \o <<a>>
           facts == (({"top"} \ {"id"}) \union {"class", "id"}) \union {"top"}
<1>1. /\ w \in Input /\ w.top = i.top /\ w.obj = i.obj /\ Compatible(w)
      /\ AssertTop(w) = a
  BY DEF WithMessage, Input, SigTypes, ValueTypes, ReturnTypes, Compatible, AssertTop
<1>2. Inert(a) /\ Inert(b) /\ Inert(c) /\ Inert(r) /\ (Rejects(a) <=> ~i.top)
  <2> HIDE DEF w
  <2> QED BY <1>1, Requirements
<1>3. /\ Is({}, "catch", "auto") /\ Is({}, "none", "throwable") /\ Is({}, "none", "thrown")
      /\ Is({"class", "id"} \union Misfit(w), "check", "nonnull")
  <2>1. Is({}, "catch", "auto") /\ Is({}, "none", "throwable") /\ Is({}, "none", "thrown")
    BY DEF Is, Jvm, Step, StepType
  <2>2. Is({"class", "id"} \union Misfit(w), "check", "nonnull")
    <3> HIDE DEF w
    <3> QED BY <1>1, FunctionWithValues
  <2> QED BY <2>1, <2>2
<1>4. /\ a \in StepType /\ b \in StepType /\ c \in StepType /\ r \in StepType
      /\ j \in StepType /\ x \in StepType /\ y \in StepType /\ z \in StepType
      /\ LookupClass \in StepType /\ LookupId \in StepType
  BY <1>2, <1>3, AreSteps DEF Inert, Is
<1>5. Ready(m, i, p, {"top"})
  <2>1. Ready(m, i, <<>> \o <<a>>, {} \union {"top"})
    BY ReadyStart, TopOn
  <2>2. Fit(m, j) /\ Passes(j) /\ ~NamesClass(j) /\ (Bad(i, j) => RefusedBy(i, {"top"}))
    BY <1>3 DEF Is, Fit, Passes, Turns, Tests, Reports, Takes, Makes, NamesClass, Bad, RefusedBy, Catching
  <2>3. p = (<<>> \o <<a>>) \o <<j>>
    <3> HIDE DEF a, j
    <3> QED BY <1>4, PairIsConcat
  <2>4. Ready(m, i, (<<>> \o <<a>>) \o <<j>>, {"top"})
    <3> DEFINE t == <<>> \o <<a>>
               top == {"top"}
    <3>1. Ready(m, i, t, top) /\ "id" \notin top /\ "class" \notin top
      BY <2>1
    <3> HIDE DEF t, j, top
    <3>2. Ready(m, i, t \o <<j>>, top)
      BY <2>2, <3>1, ReadyOn DEF top
    <3> QED BY <3>2 DEF t, top
  <2> QED BY <2>3, <2>4
<1>6. Ready(m, i, q, {"top"})
  <2> HIDE DEF p, a
  <2> QED BY <1>2, <1>5, AnyRequireOn
<1>7. Ready(m, i, s, {"top"})
  <2>1. q \in Seq(StepType)
    BY <1>6, ReadySteps
  <2> HIDE DEF q, b, c
  <2>2. q \o <<b, c>> = (q \o <<b>>) \o <<c>>
    BY <1>4, <2>1, TwoAsOne
  <2>3. Ready(m, i, (q \o <<b>>) \o <<c>>, {"top"})
    BY <1>2, <1>6, AnyRequireOn
  <2> QED BY <2>2, <2>3 DEF CheckArgs, b, c
<1>8. Ready(m, i, v, facts)
  <2> HIDE DEF s, r
  <2> QED BY <1>2, <1>7, NewObjectOn
<1>9. Right(m, i, ((v \o <<x>>) \o <<y>>) \o <<z>>)
  <2>1. "class" \in facts /\ "id" \in facts
    OBVIOUS
  <2>2. /\ "object" \notin {"class", "id"} \union Misfit(w)
        /\ "wrong value" \notin {"class", "id"} \union Misfit(w)
    BY <1>1 DEF Misfit
  <2>3. ~Bad(i, x) \/ RefusedBy(i, facts)
    BY <1>3, <2>2 DEF Is, Bad, RefusedBy
  <2>4. ObjectThrown(x) /\ ~Moves(x) /\ ~Turns(x) /\ ~Tests(x)
    BY <1>3 DEF Is, ObjectThrown, Moves, Turns, Tests, Jvm, Step
  <2>5. ~Bad(i, y) /\ ~Takes(y) /\ ~NamesClass(y) /\ Turns(y) /\ y.after = "none" /\ ~Makes(y) /\ ~Tests(y)
    BY <1>3 DEF Is, Bad, Takes, NamesClass, Turns, Makes, Tests
  <2>6. ~Bad(i, z) /\ ~Takes(z) /\ ~NamesClass(z) /\ ~Turns(z) /\ ~Makes(z) /\ ~Tests(z)
    BY <1>3 DEF Is, Bad, Takes, NamesClass, Turns, Makes, Tests
  <2> HIDE DEF v, x, y, z, facts
  <2> QED BY <1>4, <1>8, <2>1, <2>3, <2>4, <2>5, <2>6, ThrowEnds
<1>10. p \o NewObject(w) = v \o <<x>>
  <2> DEFINE g == CheckArgs(w)
             d == <<a, x>>
  <2>1. NewObject(w) = ((<<a>> \o g) \o new) \o d
    <3> HIDE DEF w
    <3> QED BY <1>1 DEF NewObject, NewObjectUnchecked
  <2>2. /\ p \in Seq(StepType) /\ <<a>> \in Seq(StepType) /\ g \in Seq(StepType)
        /\ new \in Seq(StepType) /\ d \in Seq(StepType)
    <3>1. g = <<b, c>>
      BY DEF CheckArgs
    <3> HIDE DEF a, b, c, j, x, r, g
    <3> QED BY <1>4, <3>1
  <2> DEFINE one == <<a>>
  <2>3. one \in Seq(StepType)
    BY <2>2
  <2> HIDE DEF p, g, new, d, one
  <2>4. p \o (((one \o g) \o new) \o d) = (((p \o one) \o g) \o new) \o d
    <3>1. /\ Before(one, g) \in Seq(StepType)
          /\ Before(Before(one, g), new) \in Seq(StepType)
      BY <2>2, <2>3, BeforeAssociates
    <3>2. Before(p, Before(Before(Before(one, g), new), d)) = Before(Before(Before(Before(p, one), g), new), d)
      BY <2>2, <2>3, <3>1, BeforeAssociates
    <3> QED BY <3>2 DEF Before
  <2> DEFINE u == ((p \o one) \o g) \o new
  <2>5. u \in Seq(StepType)
    BY <2>2, <2>3
  <2>6. u \o <<a, x>> = (u \o <<a>>) \o <<x>>
    <3> HIDE DEF u, a, x
    <3> QED BY <1>4, <2>5, TwoAsOne
  <2> QED BY <2>1, <2>4, <2>6 DEF one, d, g
<1>11. ThrowDesc(i) = ((p \o NewObject(w)) \o <<y>>) \o <<z>>
  BY DEF ThrowDesc, ExceptionDesc
<1> HIDE DEF v, x, y, z, p, w
<1> QED BY <1>9, <1>10, <1>11

LEMMA FourAsTwo ==
    ASSUME NEW S, NEW a \in S, NEW b \in S, NEW c \in S, NEW d \in S
    PROVE  <<a, b, c, d>> = Before(<<a, b>>, <<c, d>>)
<1> DEFINE s == <<a, b>>
           t == <<c, d>>
           u == <<a, b, c, d>>
           v == s \o t
<1>1. /\ s \in Seq(S) /\ t \in Seq(S) /\ Len(s) = 2 /\ Len(t) = 2
      /\ s[1] = a /\ s[2] = b /\ t[1] = c /\ t[2] = d
  OBVIOUS
<1>2. u \in Seq(S) /\ Len(u) = 4 /\ u[1] = a /\ u[2] = b /\ u[3] = c /\ u[4] = d
  OBVIOUS
<1>3. v \in Seq(S) /\ Len(v) = 4 /\ v[1] = a /\ v[2] = b /\ v[3] = c /\ v[4] = d
  <2>1. v \in Seq(S) /\ Len(v) = Len(s) + Len(t)
    OBVIOUS
  <2>2. v[1] = a /\ v[2] = b
    OBVIOUS
  <2>3. v[3] = c /\ v[4] = d
    OBVIOUS
  <2> QED BY <1>1, <2>1, <2>2, <2>3
<1> HIDE DEF u, v
<1>4. \A k \in 1..4 : k = 1 \/ k = 2 \/ k = 3 \/ k = 4
  OBVIOUS
<1>5. \A k \in 1..4 : u[k] = v[k]
  BY <1>2, <1>3, <1>4
<1>6. u = v
  BY <1>2, <1>3, <1>5, SeqEqual
<1> QED BY <1>6 DEF u, v, Before

LEMMA FiveAsTwo ==
    ASSUME NEW S, NEW a \in S, NEW b \in S, NEW c \in S, NEW d \in S, NEW e \in S
    PROVE  <<a, b, c, d, e>> = Before(<<a, b>>, <<c, d, e>>)
<1> DEFINE s == <<a, b>>
           t == <<c, d, e>>
           u == <<a, b, c, d, e>>
           v == s \o t
<1>1. /\ s \in Seq(S) /\ t \in Seq(S) /\ Len(s) = 2 /\ Len(t) = 3
      /\ s[1] = a /\ s[2] = b /\ t[1] = c /\ t[2] = d /\ t[3] = e
  OBVIOUS
<1>2. u \in Seq(S) /\ Len(u) = 5 /\ u[1] = a /\ u[2] = b /\ u[3] = c /\ u[4] = d /\ u[5] = e
  OBVIOUS
<1>3. v \in Seq(S) /\ Len(v) = 5 /\ v[1] = a /\ v[2] = b /\ v[3] = c /\ v[4] = d /\ v[5] = e
  <2>1. v \in Seq(S) /\ Len(v) = Len(s) + Len(t)
    OBVIOUS
  <2>2. v[1] = a /\ v[2] = b
    OBVIOUS
  <2>3. v[3] = c /\ v[4] = d /\ v[5] = e
    OBVIOUS
  <2> QED BY <1>1, <2>1, <2>2, <2>3
<1> HIDE DEF u, v
<1>4. \A k \in 1..5 : k = 1 \/ k = 2 \/ k = 3 \/ k = 4 \/ k = 5
  OBVIOUS
<1>5. \A k \in 1..5 : u[k] = v[k]
  BY <1>2, <1>3, <1>4
<1>6. u = v
  BY <1>2, <1>3, <1>5, SeqEqual
<1> QED BY <1>6 DEF u, v, Before

LEMMA LeadsPair ==
    ASSUME NEW m, NEW i, NEW a, NEW b,
           Fit(m, a), ~Bad(i, a), ~NamesClass(a), Passes(a),
           Fit(m, b), Bad(i, b) => Rejects(a), NamesClass(b) => Moves(a), Passes(b),
           NEW refused, refused => Rejects(a) \/ Rejects(b),
           NEW known, known => Resolves(b) \/ (Resolves(a) /\ ~Moves(b)),
           NEW named, named => Moves(a) \/ Moves(b)
    PROVE  Leads(m, i, <<a, b>>, refused, known, named)
<1>1. Leads(m, i, <<>> \o <<a>>, Rejects(a), Resolves(a), Moves(a))
  <2> DEFINE f == Rejects(a)
             r == Resolves(a)
             v == Moves(a)
  <2>1. (f => Rejects(a)) /\ (r => Resolves(a)) /\ (v => Moves(a))
    OBVIOUS
  <2> HIDE DEF f, r, v
  <2>2. Leads(m, i, <<>> \o <<a>>, f, r, v)
    BY <2>1, LeadsEmpty, LeadsOn
  <2> QED BY <2>2 DEF f, r, v
<1>2. Leads(m, i, (<<>> \o <<a>>) \o <<b>>, refused, known, named)
  BY <1>1, LeadsOn
<1>3. <<a, b>> = (<<>> \o <<a>>) \o <<b>>
  BY PairIsConcat DEF Fit
<1> QED BY <1>2, <1>3

LEMMA RightFour ==
    ASSUME NEW m, NEW i, NEW a, NEW b, NEW c, NEW d,
           Fit(m, a), ~Bad(i, a), ~NamesClass(a), Passes(a),
           Fit(m, b), Bad(i, b) => Rejects(a), NamesClass(b) => Moves(a), Passes(b),
           Fit(m, c), Bad(i, c) => Rejects(a) \/ Rejects(b), NamesClass(c) => Moves(a) \/ Moves(b),
           Passes(c),
           Fit(m, d), Bad(i, d) => Rejects(a) \/ Rejects(b) \/ Rejects(c),
           NamesClass(d) => Moves(a) \/ Moves(b) \/ Moves(c),
           Takes(d) => Resolves(c) \/ ((Resolves(b) \/ (Resolves(a) /\ ~Moves(b))) /\ ~Moves(c))
    PROVE  Right(m, i, <<a, b, c, d>>)
<1> DEFINE refused == Rejects(a) \/ Rejects(b)
           known == Resolves(b) \/ (Resolves(a) /\ ~Moves(b))
           named == Moves(a) \/ Moves(b)
           s == <<a, b>>
<1>1. /\ refused => Rejects(a) \/ Rejects(b)
      /\ known => Resolves(b) \/ (Resolves(a) /\ ~Moves(b))
      /\ named => Moves(a) \/ Moves(b)
      /\ Bad(i, c) => refused
      /\ NamesClass(c) => named
      /\ Bad(i, d) => refused \/ Rejects(c)
      /\ NamesClass(d) => named \/ Moves(c)
      /\ Takes(d) => Resolves(c) \/ (known /\ ~Moves(c))
  OBVIOUS
<1> HIDE DEF refused, known, named
<1>2. Leads(m, i, s, refused, known, named)
  BY <1>1, LeadsPair
<1> HIDE DEF s
<1>3. Right(m, i, s \o <<c, d>>)
  BY <1>1, <1>2, RightTwoMore
<1>4. <<a, b, c, d>> = s \o <<c, d>>
  <2>1. a \in StepType /\ b \in StepType /\ c \in StepType /\ d \in StepType
    BY DEF Fit
  <2>2. <<a, b, c, d>> = Before(<<a, b>>, <<c, d>>)
    BY <2>1, FourAsTwo
  <2> QED BY <2>2 DEF s, Before
<1> QED BY <1>3, <1>4

LEMMA RightFive ==
    ASSUME NEW m, NEW i, NEW a, NEW b, NEW c, NEW d, NEW e,
           Fit(m, a), ~Bad(i, a), ~NamesClass(a), Passes(a),
           Fit(m, b), Bad(i, b) => Rejects(a), NamesClass(b) => Moves(a), Passes(b),
           Fit(m, c), Bad(i, c) => Rejects(a) \/ Rejects(b), NamesClass(c) => Moves(a) \/ Moves(b),
           Passes(c),
           Fit(m, d), Bad(i, d) => Rejects(a) \/ Rejects(b) \/ Rejects(c),
           NamesClass(d) => Moves(a) \/ Moves(b) \/ Moves(c), Passes(d),
           Fit(m, e), Bad(i, e) => Rejects(a) \/ Rejects(b) \/ Rejects(c) \/ Rejects(d),
           NamesClass(e) => Moves(a) \/ Moves(b) \/ Moves(c) \/ Moves(d),
           Takes(e) =>
               \/ Resolves(d)
               \/ /\ Resolves(c) \/ ((Resolves(b) \/ (Resolves(a) /\ ~Moves(b))) /\ ~Moves(c))
                  /\ ~Moves(d)
    PROVE  Right(m, i, <<a, b, c, d, e>>)
<1> DEFINE refused == Rejects(a) \/ Rejects(b)
           known == Resolves(b) \/ (Resolves(a) /\ ~Moves(b))
           named == Moves(a) \/ Moves(b)
           s == <<a, b>>
<1>1. /\ refused => Rejects(a) \/ Rejects(b)
      /\ known => Resolves(b) \/ (Resolves(a) /\ ~Moves(b))
      /\ named => Moves(a) \/ Moves(b)
      /\ Bad(i, c) => refused
      /\ NamesClass(c) => named
      /\ Bad(i, d) => refused \/ Rejects(c)
      /\ NamesClass(d) => named \/ Moves(c)
      /\ Bad(i, e) => refused \/ Rejects(c) \/ Rejects(d)
      /\ NamesClass(e) => named \/ Moves(c) \/ Moves(d)
      /\ Takes(e) => Resolves(d) \/ ((Resolves(c) \/ (known /\ ~Moves(c))) /\ ~Moves(d))
  OBVIOUS
<1> HIDE DEF refused, known, named
<1>2. Leads(m, i, s, refused, known, named)
  BY <1>1, LeadsPair
<1> HIDE DEF s
<1>3. Right(m, i, s \o <<c, d, e>>)
  BY <1>1, <1>2, RightThreeMore
<1>4. <<a, b, c, d, e>> = s \o <<c, d, e>>
  <2>1. a \in StepType /\ b \in StepType /\ c \in StepType /\ d \in StepType /\ e \in StepType
    BY DEF Fit
  <2>2. <<a, b, c, d, e>> = Before(<<a, b>>, <<c, d, e>>)
    BY <2>1, FiveAsTwo
  <2> QED BY <2>2 DEF s, Before
<1> QED BY <1>3, <1>4

LEMMA IsSameObjectRight ==
    ASSUME NEW i \in Input
    PROVE  Right("is_same_object", i, IsSameObject(i))
<1> DEFINE m == "is_same_object"
           a == Jvm({}, "none", "value")
<1>1. Fit(m, a) /\ ~NamesClass(a) /\ ~Takes(a) /\ ~Bad(i, a)
  BY DEF Jvm, Step, StepType, Fit, Turns, Tests, Reports, Bad, NamesClass, Takes, Catching
<1> HIDE DEF m, a
<1>2. Right(m, i, <<a>>)
  BY <1>1, InertFits, RightOne
<1> QED BY <1>2 DEF IsSameObject, m, a

LEMMA ExceptionClearRight ==
    ASSUME NEW i \in Input
    PROVE  Right("exception_clear", i, ExceptionClear(i))
<1> DEFINE m == "exception_clear"
           a == Step("clear")
<1>1. Inert(a)
  BY StepFields DEF Inert
<1> HIDE DEF m, a
<1>2. Right(m, i, <<a>>)
  BY <1>1, InertFits, RightOne DEF Passes
<1> QED BY <1>2 DEF ExceptionClear, m, a

LEMMA ThrowRight ==
    ASSUME NEW i \in Input
    PROVE  Right("throw", i, Throw(i))
<1> DEFINE m == "throw"
           a == Jvm({"throwable"}, "none", "thrown")
<1>1. Fit(m, a) /\ ~NamesClass(a) /\ ~Takes(a) /\ ~Bad(i, a)
  BY DEF Jvm, Step, StepType, Fit, Turns, Tests, Reports, Bad, NamesClass, Takes, Catching
<1> HIDE DEF m, a
<1>2. Right(m, i, <<a>>)
  BY <1>1, InertFits, RightOne
<1> QED BY <1>2 DEF Throw, m, a

LEMMA GetDirectBufferAddressRight ==
    ASSUME NEW i \in Input
    PROVE  Right("get_direct_buffer_address", i, GetDirectBufferAddress(i))
<1> DEFINE m == "get_direct_buffer_address"
           a == NullCheck(i)
           b == Jvm({"object"}, "none", "checked")
<1>1. Inert(a) /\ (Rejects(a) <=> i.obj = "null")
  BY Requirements
<1>2. Fit(m, b) /\ ~NamesClass(b) /\ ~Takes(b) /\ (Bad(i, b) => i.obj = "null")
  BY DEF Jvm, Step, StepType, Fit, Turns, Tests, Reports, Bad, NamesClass, Takes, Catching
<1> HIDE DEF m, a, b
<1>3. Right(m, i, <<a, b>>)
  BY <1>1, <1>2, InertFits, RightTwo
<1> QED BY <1>3 DEF GetDirectBufferAddress, m, a, b

LEMMA GetDirectBufferCapacityRight ==
    ASSUME NEW i \in Input
    PROVE  Right("get_direct_buffer_capacity", i, GetDirectBufferCapacity(i))
<1> DEFINE m == "get_direct_buffer_capacity"
           a == NullCheck(i)
           b == Jvm({"object"}, "none", "status")
<1>1. Inert(a) /\ (Rejects(a) <=> i.obj = "null")
  BY Requirements
<1>2. Fit(m, b) /\ ~NamesClass(b) /\ ~Takes(b) /\ (Bad(i, b) => i.obj = "null")
  BY DEF Jvm, Step, StepType, Fit, Turns, Tests, Reports, Bad, NamesClass, Takes, Catching
<1> HIDE DEF m, a, b
<1>3. Right(m, i, <<a, b>>)
  BY <1>1, <1>2, InertFits, RightTwo
<1> QED BY <1>3 DEF GetDirectBufferCapacity, m, a, b

LEMMA GetArrayLengthRight ==
    ASSUME NEW i \in Input
    PROVE  Right("get_array_length", i, GetArrayLength(i))
<1> DEFINE m == "get_array_length"
           a == NullCheck(i)
           b == Jvm({"object"}, "none", "value")
<1>1. Inert(a) /\ (Rejects(a) <=> i.obj = "null")
  BY Requirements
<1>2. Fit(m, b) /\ ~NamesClass(b) /\ ~Takes(b) /\ (Bad(i, b) => i.obj = "null")
  BY DEF Jvm, Step, StepType, Fit, Turns, Tests, Reports, Bad, NamesClass, Takes, Catching
<1> HIDE DEF m, a, b
<1>3. Right(m, i, <<a, b>>)
  BY <1>1, <1>2, InertFits, RightTwo
<1> QED BY <1>3 DEF GetArrayLength, m, a, b

LEMMA EnsureLocalCapacityRight ==
    ASSUME NEW i \in Input
    PROVE  Right("ensure_local_capacity", i, EnsureLocalCapacity(i))
<1> DEFINE m == "ensure_local_capacity"
           a == Require(i.counts, "refused")
           b == Jvm({}, "none", "status")
<1>1. Inert(a)
  BY Requirements
<1>2. Fit(m, b) /\ ~NamesClass(b) /\ ~Takes(b) /\ ~Bad(i, b)
  BY DEF Jvm, Step, StepType, Fit, Turns, Tests, Reports, Bad, NamesClass, Takes, Catching
<1> HIDE DEF m, a, b
<1>3. Right(m, i, <<a, b>>)
  BY <1>1, <1>2, InertFits, RightTwo
<1> QED BY <1>3 DEF EnsureLocalCapacity, m, a, b

LEMMA FromJniStrRight ==
    ASSUME NEW i \in Input
    PROVE  Right("from_jni_str", i, FromJniStr(i))
<1> DEFINE m == "from_jni_str"
           a == AssertTop(i)
           b == Jvm({}, "catch", "nonnull")
<1>1. Inert(a) /\ (Rejects(a) <=> ~i.top)
  BY Requirements
<1>2. Fit(m, b) /\ ~NamesClass(b) /\ ~Takes(b) /\ (Bad(i, b) => ~i.top)
  BY DEF Jvm, Step, StepType, Fit, Turns, Tests, Reports, Bad, NamesClass, Takes, Catching
<1> HIDE DEF m, a, b
<1>3. Right(m, i, <<a, b>>)
  BY <1>1, <1>2, InertFits, RightTwo
<1> QED BY <1>3 DEF FromJniStr, m, a, b

LEMMA ExceptionOccurredRight ==
    ASSUME NEW i \in Input
    PROVE  Right("exception_occurred", i, ExceptionOccurred(i))
<1> DEFINE m == "exception_occurred"
           a == AssertTop(i)
           b == Safe("exception")
<1>1. Inert(a) /\ (Rejects(a) <=> ~i.top)
  BY Requirements
<1>2. Fit(m, b) /\ ~NamesClass(b) /\ ~Takes(b) /\ (Bad(i, b) => ~i.top)
  BY DEF Safe, Step, StepType, Fit, Turns, Tests, Reports, Bad, NamesClass, Takes, Catching
<1> HIDE DEF m, a, b
<1>3. Right(m, i, <<a, b>>)
  BY <1>1, <1>2, InertFits, RightTwo
<1> QED BY <1>3 DEF ExceptionOccurred, m, a, b

LEMMA DefineClassRight ==
    ASSUME NEW i \in Input
    PROVE  Right("define_class", i, DefineClass(i))
<1> DEFINE m == "define_class"
           a == Require(i.counts, "refused")
           b == AssertTop(i)
           c == Jvm({}, "catch", "nonnull")
<1>1. Inert(a)
  BY Requirements
<1>2. Inert(b) /\ (Rejects(b) <=> ~i.top)
  BY Requirements
<1>3. Fit(m, c) /\ ~NamesClass(c) /\ ~Takes(c) /\ (Bad(i, c) => ~i.top)
  BY DEF Jvm, Step, StepType, Fit, Turns, Tests, Reports, Bad, NamesClass, Takes, Catching
<1> HIDE DEF m, a, b, c
<1>4. Right(m, i, <<a, b, c>>)
  BY <1>1, <1>2, <1>3, InertFits, RightThree
<1> QED BY <1>4 DEF DefineClass, m, a, b, c

LEMMA GetObjectClassRight ==
    ASSUME NEW i \in Input
    PROVE  Right("get_object_class", i, GetObjectClass(i))
<1> DEFINE m == "get_object_class"
           a == AssertTop(i)
           b == NullCheck(i)
           c == Jvm({"object"}, "none", "local")
<1>1. Inert(a) /\ (Rejects(a) <=> ~i.top)
  BY Requirements
<1>2. Inert(b) /\ (Rejects(b) <=> i.obj = "null")
  BY Requirements
<1>3. Fit(m, c) /\ ~NamesClass(c) /\ ~Takes(c) /\ (Bad(i, c) => i.obj = "null" \/ ~i.top)
  BY DEF Jvm, Step, StepType, Fit, Turns, Tests, Reports, Bad, NamesClass, Takes, Catching
<1> HIDE DEF m, a, b, c
<1>4. Right(m, i, <<a, b, c>>)
  BY <1>1, <1>2, <1>3, InertFits, RightThree
<1> QED BY <1>4 DEF GetObjectClass, m, a, b, c

LEMMA NewDirectByteBufferRight ==
    ASSUME NEW i \in Input
    PROVE  Right("new_direct_byte_buffer", i, NewDirectByteBuffer(i))
<1> DEFINE m == "new_direct_byte_buffer"
           a == AssertTop(i)
           b == NullCheck(i)
           c == Jvm({"object"}, "catch", "nonnull")
<1>1. Inert(a) /\ (Rejects(a) <=> ~i.top)
  BY Requirements
<1>2. Inert(b) /\ (Rejects(b) <=> i.obj = "null")
  BY Requirements
<1>3. Fit(m, c) /\ ~NamesClass(c) /\ ~Takes(c) /\ (Bad(i, c) => i.obj = "null" \/ ~i.top)
  BY DEF Jvm, Step, StepType, Fit, Turns, Tests, Reports, Bad, NamesClass, Takes, Catching
<1> HIDE DEF m, a, b, c
<1>4. Right(m, i, <<a, b, c>>)
  BY <1>1, <1>2, <1>3, InertFits, RightThree
<1> QED BY <1>4 DEF NewDirectByteBuffer, m, a, b, c

LEMMA GeneratedStaticSetterRight ==
    ASSUME NEW i \in Input
    PROVE  Right("generated static setter", i, GeneratedStaticSetter(i))
<1> DEFINE m == "generated static setter"
           a == LookupBinding
           b == PreCheck
           c == Jvm({"id"}, "check", "value")
<1>1. Fit(m, a) /\ ~Bad(i, a) /\ ~NamesClass(a) /\ Passes(a) /\ Resolves(a) /\ ~Moves(a)
  BY LookupFacts
<1>2. Fit(m, b) /\ ~Bad(i, b) /\ ~NamesClass(b) /\ Passes(b) /\ ~Moves(b)
  BY DEF PreCheck, Jvm, Step, StepType, Fit, Turns, Tests, Reports, Bad,
     NamesClass, Takes, Makes, Passes, Moves, Catching
<1>3. Fit(m, c) /\ ~NamesClass(c) /\ ~Bad(i, c)
  BY DEF Jvm, Step, StepType, Fit, Turns, Tests, Reports, Bad, NamesClass, Takes, Catching
<1> HIDE DEF m, a, b, c
<1>4. Right(m, i, <<a, b, c>>)
  BY <1>1, <1>2, <1>3, InertFits, RightThree
<1> QED BY <1>4 DEF GeneratedStaticSetter, m, a, b, c

LEMMA GeneratedConstructorRight ==
    ASSUME NEW i \in Input
    PROVE  Right("generated constructor", i, GeneratedConstructor(i))
<1> DEFINE m == "generated constructor"
           a == LookupBinding
           b == PreCheck
           c == AssertTop(i)
           d == Jvm({"id"}, "check", "local")
<1>1. Fit(m, a) /\ ~Bad(i, a) /\ ~NamesClass(a) /\ Passes(a) /\ Resolves(a) /\ ~Moves(a)
  BY LookupFacts
<1>2. Fit(m, b) /\ ~Bad(i, b) /\ ~NamesClass(b) /\ Passes(b) /\ ~Moves(b)
  BY DEF PreCheck, Jvm, Step, StepType, Fit, Turns, Tests, Reports, Bad,
     NamesClass, Takes, Makes, Passes, Moves, Catching
<1>3. Inert(c) /\ (Rejects(c) <=> ~i.top)
  BY Requirements
<1>4. Fit(m, d) /\ ~NamesClass(d) /\ (Bad(i, d) => ~i.top)
  BY DEF Jvm, Step, StepType, Fit, Turns, Tests, Reports, Bad, NamesClass, Takes, Catching
<1> HIDE DEF m, a, b, c, d
<1>5. Right(m, i, <<a, b, c, d>>)
  BY <1>1, <1>2, <1>3, <1>4, InertFits, RightFour
<1> QED BY <1>5 DEF GeneratedConstructor, m, a, b, c, d

LEMMA GeneratedSetterRight ==
    ASSUME NEW i \in Input
    PROVE  Right("generated setter", i, GeneratedSetter(i))
<1> DEFINE m == "generated setter"
           a == LookupBinding
           b == PreCheck
           c == NullCheck(i)
           d == Jvm({"object", "id"}, "check", "value")
<1>1. Fit(m, a) /\ ~Bad(i, a) /\ ~NamesClass(a) /\ Passes(a) /\ Resolves(a) /\ ~Moves(a)
  BY LookupFacts
<1>2. Fit(m, b) /\ ~Bad(i, b) /\ ~NamesClass(b) /\ Passes(b) /\ ~Moves(b)
  BY DEF PreCheck, Jvm, Step, StepType, Fit, Turns, Tests, Reports, Bad,
     NamesClass, Takes, Makes, Passes, Moves, Catching
<1>3. Inert(c) /\ (Rejects(c) <=> i.obj = "null")
  BY Requirements
<1>4. Fit(m, d) /\ ~NamesClass(d) /\ (Bad(i, d) => i.obj = "null")
  BY DEF Jvm, Step, StepType, Fit, Turns, Tests, Reports, Bad, NamesClass, Takes, Catching
<1> HIDE DEF m, a, b, c, d
<1>5. Right(m, i, <<a, b, c, d>>)
  BY <1>1, <1>2, <1>3, <1>4, InertFits, RightFour
<1> QED BY <1>5 DEF GeneratedSetter, m, a, b, c, d

LEMMA RegisterNativeMethodsRight ==
    ASSUME NEW i \in Input
    PROVE  Right("register_native_methods", i, RegisterNativeMethods(i))
<1> DEFINE m == "register_native_methods"
           a == LookupClass
           b == Jvm({"class"}, "catch", "status")
<1>1. Fit(m, a) /\ ~Bad(i, a) /\ ~NamesClass(a) /\ Passes(a) /\ Moves(a) /\ ~Resolves(a)
  BY LookupFacts
<1>2. Fit(m, b) /\ ~Takes(b) /\ ~Bad(i, b)
  BY DEF Jvm, Step, StepType, Fit, Turns, Tests, Reports, Bad, NamesClass, Takes, Catching
<1> HIDE DEF m, a, b
<1>3. Right(m, i, <<a, b>>)
  BY <1>1, <1>2, InertFits, RightTwo
<1> QED BY <1>3 DEF RegisterNativeMethods, m, a, b

LEMMA UnregisterNativeMethodsRight ==
    ASSUME NEW i \in Input
    PROVE  Right("unregister_native_methods", i, UnregisterNativeMethods(i))
<1> DEFINE m == "unregister_native_methods"
           a == LookupClass
           b == Jvm({"class"}, "check", "status")
<1>1. Fit(m, a) /\ ~Bad(i, a) /\ ~NamesClass(a) /\ Passes(a) /\ Moves(a) /\ ~Resolves(a)
  BY LookupFacts
<1>2. Fit(m, b) /\ ~Takes(b) /\ ~Bad(i, b)
  BY DEF Jvm, Step, StepType, Fit, Turns, Tests, Reports, Bad, NamesClass, Takes, Catching
<1> HIDE DEF m, a, b
<1>3. Right(m, i, <<a, b>>)
  BY <1>1, <1>2, InertFits, RightTwo
<1> QED BY <1>3 DEF UnregisterNativeMethods, m, a, b

LEMMA ThrowNewRight ==
    ASSUME NEW i \in Input
    PROVE  Right("throw_new", i, ThrowNew(i))
<1> DEFINE m == "throw_new"
           a == LookupClass
           b == LookupBinding
           c == NullCheckClass(i)
           d == Jvm({"class"}, "none", "instance")
           e == Jvm({"class"}, "none", "thrown")
<1>1. Fit(m, a) /\ ~Bad(i, a) /\ ~NamesClass(a) /\ Passes(a) /\ Moves(a) /\ ~Resolves(a)
  BY LookupFacts
<1>2. Fit(m, b) /\ ~Bad(i, b) /\ ~NamesClass(b) /\ Passes(b) /\ Resolves(b) /\ ~Moves(b)
  BY LookupFacts
<1>3. Inert(c)
  BY Requirements
<1>4. Fit(m, d) /\ Passes(d) /\ ~Bad(i, d)
  BY DEF Jvm, Step, StepType, Fit, Turns, Tests, Reports, Bad, NamesClass, Takes, Makes, Passes, Catching
<1>5. Fit(m, e) /\ ~Takes(e) /\ ~Bad(i, e)
  BY DEF Jvm, Step, StepType, Fit, Turns, Tests, Reports, Bad, NamesClass, Takes, Catching
<1> HIDE DEF m, a, b, c, d, e
<1>6. Right(m, i, <<a, b, c, d, e>>)
  BY <1>1, <1>2, <1>3, <1>4, <1>5, InertFits, RightFive
<1> QED BY <1>6 DEF ThrowNew, m, a, b, c, d, e

LEMMA GeneratedNonNullMethodRight ==
    ASSUME NEW i \in Input
    PROVE  Right("generated non_null method", i, GeneratedNonNullMethod(i))
<1> DEFINE m == "generated non_null method"
           a == LookupBinding
           b == PreCheck
           c == NullCheck(i)
           d == AssertTop(i)
           e == Jvm({"object", "id"}, "check", "nonnull")
<1>1. Fit(m, a) /\ ~Bad(i, a) /\ ~NamesClass(a) /\ Passes(a) /\ Resolves(a) /\ ~Moves(a)
  BY LookupFacts
<1>2. Fit(m, b) /\ ~Bad(i, b) /\ ~NamesClass(b) /\ Passes(b) /\ ~Moves(b)
  BY DEF PreCheck, Jvm, Step, StepType, Fit, Turns, Tests, Reports, Bad,
     NamesClass, Takes, Makes, Passes, Moves, Catching
<1>3. Inert(c) /\ (Rejects(c) <=> i.obj = "null")
  BY Requirements
<1>4. Inert(d) /\ (Rejects(d) <=> ~i.top)
  BY Requirements
<1>5. Fit(m, e) /\ ~NamesClass(e) /\ (Bad(i, e) => i.obj = "null" \/ ~i.top)
  BY DEF Jvm, Step, StepType, Fit, Turns, Tests, Reports, Bad, NamesClass, Takes, Catching
<1> HIDE DEF m, a, b, c, d, e
<1>6. Right(m, i, <<a, b, c, d, e>>)
  BY <1>1, <1>2, <1>3, <1>4, <1>5, InertFits, RightFive
<1> QED BY <1>6 DEF GeneratedNonNullMethod, m, a, b, c, d, e

(* What bind_java_type! generates, for a method or a field of any type *)
LEMMA GeneratedRight ==
    ASSUME NEW m, m \notin Catching, NEW i \in Input, NEW type, NEW isStatic \in BOOLEAN,
           NEW needs, needs \subseteq {"object", "id"}, isStatic => "object" \notin needs
    PROVE  Right(m, i, Generated(i, needs, type, isStatic))
<1> DEFINE a == LookupBinding
           b == PreCheck
           s == <<a, b>>
           p == IF isStatic THEN <<>> ELSE <<NullCheck(i)>>
           q == IF IsObject(type) THEN <<AssertTop(i)>> ELSE <<>>
           last == Jvm(needs, "check", Given(type))
           facts == IF isStatic THEN {"id"} ELSE {"id"} \union {"object"}
           all == IF IsObject(type) THEN facts \union {"top"} ELSE facts
<1>1. Leads(m, i, s, RefusedBy(i, {"id"}), "id" \in {"id"}, "class" \in {"id"})
  <2>1. Fit(m, a) /\ ~Bad(i, a) /\ ~NamesClass(a) /\ Passes(a) /\ Resolves(a)
    BY LookupFacts
  <2>2. Fit(m, b) /\ ~Bad(i, b) /\ ~NamesClass(b) /\ Passes(b) /\ ~Moves(b)
    BY DEF PreCheck, Jvm, Step, StepType, Fit, Turns, Tests, Reports, Bad,
     NamesClass, Takes, Makes, Passes, Moves
  <2>3. ~RefusedBy(i, {"id"}) /\ "class" \notin {"id"}
    BY DEF RefusedBy
  <2> DEFINE refused == RefusedBy(i, {"id"})
             known == "id" \in {"id"}
             named == "class" \in {"id"}
  <2>4. ~refused /\ ~named
    BY <2>3
  <2> HIDE DEF a, b, refused, known, named
  <2>5. Leads(m, i, s, refused, known, named)
    BY <2>1, <2>2, <2>4, LeadsPair
  <2> QED BY <2>5 DEF refused, known, named
<1>2. Ready(m, i, s, {"id"})
  BY <1>1 DEF Ready
<1> HIDE DEF s
<1>3. Ready(m, i, s \o p, facts)
  <2>1. CASE isStatic
    <3>1. s \o p = s
      BY <1>2, <2>1, ReadySteps
    <3> QED BY <1>2, <2>1, <3>1
  <2>2. CASE ~isStatic
    BY <1>2, <2>2, NullOn
  <2> QED BY <2>1, <2>2
<1>4. "id" \in facts /\ (~isStatic => "object" \in facts)
  OBVIOUS
<1> HIDE DEF p, facts
<1>5. Ready(m, i, (s \o p) \o q, all)
  <2>1. CASE IsObject(type)
    BY <1>3, <2>1, TopOn
  <2>2. CASE ~IsObject(type)
    <3>1. (s \o p) \o q = s \o p
      BY <1>3, <2>2, ReadySteps
    <3> QED BY <1>3, <2>2, <3>1
  <2> QED BY <2>1, <2>2
<1>6. /\ "id" \in all /\ (~isStatic => "object" \in all)
      /\ IsObject(type) => "top" \in all
  BY <1>4
<1>7. Fit(m, last) /\ ~NamesClass(last) /\ (Bad(i, last) => RefusedBy(i, all))
  <2>1. needs \in SUBSET {"class", "id", "object", "throwable", "wrong value"} /\ "class" \notin needs
        /\ "wrong value" \notin needs
    OBVIOUS
  <2>2. Given(type) \in {"value", "local"} /\ (Given(type) = "local" => IsObject(type))
    BY DEF Given
  <2> DEFINE gives == Given(type)
  <2> HIDE DEF gives, all
  <2>3. Is(needs, "check", gives)
    BY <2>1, <2>2 DEF Is, Jvm, Step, StepType, gives
  <2>4. Fit(m, Jvm(needs, "check", gives)) /\ ~NamesClass(Jvm(needs, "check", gives))
    BY <2>1, <2>2, <2>3 DEF Is, Fit, Turns, Tests, Reports, NamesClass, gives
  <2>5. Bad(i, Jvm(needs, "check", gives)) => RefusedBy(i, all)
    BY <1>6, <2>1, <2>2, <2>3 DEF Is, Bad, RefusedBy, gives
  <2> QED BY <2>4, <2>5 DEF gives
<1> HIDE DEF q, last, all
<1>8. Right(m, i, ((s \o p) \o q) \o <<last>>)
  BY <1>5, <1>6, <1>7, ReadyEnds
<1> QED BY <1>8 DEF Generated, s, p, q, last

LEMMA GeneratedMethodsRight ==
    ASSUME NEW i \in Input
    PROVE  /\ Right("generated method", i, GeneratedMethod(i))
           /\ Right("generated static method", i, GeneratedStaticMethod(i))
           /\ Right("generated getter", i, GeneratedGetter(i))
           /\ Right("generated static getter", i, GeneratedStaticGetter(i))
<1>1. /\ "generated method" \notin Catching /\ "generated static method" \notin Catching
      /\ "generated getter" \notin Catching /\ "generated static getter" \notin Catching
  BY DEF Catching
<1>2. /\ {"object", "id"} \subseteq {"object", "id"} /\ {"id"} \subseteq {"object", "id"}
      /\ "object" \notin {"id"}
  OBVIOUS
<1>3. Right("generated method", i, GeneratedMethod(i))
  BY <1>1, <1>2, GeneratedRight DEF GeneratedMethod
<1>4. Right("generated static method", i, GeneratedStaticMethod(i))
  BY <1>1, <1>2, GeneratedRight DEF GeneratedStaticMethod
<1>5. Right("generated getter", i, GeneratedGetter(i))
  BY <1>1, <1>2, GeneratedRight DEF GeneratedGetter
<1>6. Right("generated static getter", i, GeneratedStaticGetter(i))
  BY <1>1, <1>2, GeneratedRight DEF GeneratedStaticGetter
<1> QED BY <1>3, <1>4, <1>5, <1>6

(* The methods that look up a class, an ID or a binding, and little else *)
LEMMA LookupFunctions ==
    /\ Is({}, "none", "value")
    /\ Is({"class"}, "none", "value") /\ Is({"class"}, "none", "local")
    /\ Is({"class"}, "none", "instance") /\ Is({"class"}, "none", "thrown")
    /\ Is({"class"}, "catch", "nonnull") /\ Is({"class"}, "catch", "status")
    /\ Is({"class"}, "catch", "id")
    /\ Is({"class"}, "check", "nonnull") /\ Is({"class"}, "check", "status")
    /\ Is({"class", "id"}, "check", "nonnull")
  BY DEF Is, Jvm, Step, StepType

LEMMA RequireFits ==
    ASSUME NEW i \in Input, NEW m
    PROVE  /\ Fit(m, AssertTop(i)) /\ ~Bad(i, AssertTop(i)) /\ ~NamesClass(AssertTop(i))
           /\ Passes(AssertTop(i)) /\ ~Resolves(AssertTop(i)) /\ ~Moves(AssertTop(i))
           /\ Fit(m, NullCheckClass(i)) /\ ~Bad(i, NullCheckClass(i)) /\ ~NamesClass(NullCheckClass(i))
           /\ Passes(NullCheckClass(i)) /\ ~Resolves(NullCheckClass(i)) /\ ~Moves(NullCheckClass(i))
           /\ Rejects(AssertTop(i)) <=> ~i.top
  BY Requirements, InertFits

LEMMA LookupMethodsRight ==
    ASSUME NEW i \in Input
    PROVE  /\ Right("get_superclass", i, GetSuperclass(i))
           /\ Right("is_assignable_from", i, IsAssignableFrom(i))
           /\ Right("is_instance_of", i, IsInstanceOf(i))
           /\ Right("alloc_object", i, AllocObject(i))
           /\ Right("new_object_array", i, NewObjectArray(i))
           /\ Right("get_method_id", i, GetMethodId(i))
           /\ Right("get_static_method_id", i, GetStaticMethodId(i))
           /\ Right("get_field_id", i, GetFieldId(i))
           /\ Right("get_static_field_id", i, GetStaticFieldId(i))
           /\ Right("to_reflected_method", i, ToReflectedMethod(i))
<1>1. Right("get_superclass", i, GetSuperclass(i))
  BY LookupFunctions, IsFits, RequireFits, LookupFacts, RightThree DEF GetSuperclass, Catching, Passes
<1>2. Right("is_assignable_from", i, IsAssignableFrom(i))
  BY LookupFunctions, IsFits, RequireFits, LookupFacts, RightFive DEF IsAssignableFrom, Catching, Passes
<1>3. Right("is_instance_of", i, IsInstanceOf(i))
  BY LookupFunctions, IsFits, RequireFits, LookupFacts, RightThree DEF IsInstanceOf, Catching, Passes
<1>4. Right("alloc_object", i, AllocObject(i))
  BY LookupFunctions, IsFits, RequireFits, LookupFacts, RightThree DEF AllocObject, Catching, Passes
<1>5. Right("new_object_array", i, NewObjectArray(i))
  BY LookupFunctions, IsFits, RequireFits, LookupFacts, RightThree DEF NewObjectArray, Catching, Passes
<1>6. Right("get_method_id", i, GetMethodId(i))
  BY LookupFunctions, IsFits, LookupFacts, RightTwo DEF GetMethodId, LookupId, Catching, Passes
<1>7. Right("get_static_method_id", i, GetStaticMethodId(i))
  BY LookupFunctions, IsFits, LookupFacts, RightTwo DEF GetStaticMethodId, LookupId, Catching, Passes
<1>8. Right("get_field_id", i, GetFieldId(i))
  BY LookupFunctions, IsFits, LookupFacts, RightTwo DEF GetFieldId, LookupId, Catching, Passes
<1>9. Right("get_static_field_id", i, GetStaticFieldId(i))
  BY LookupFunctions, IsFits, LookupFacts, RightTwo DEF GetStaticFieldId, LookupId, Catching, Passes
<1>10. Right("to_reflected_method", i, ToReflectedMethod(i))
  BY LookupFunctions, IsFits, RequireFits, LookupFacts, RightFour
     DEF ToReflectedMethod, LookupId, Catching, Passes
<1> QED BY <1>1, <1>2, <1>3, <1>4, <1>5, <1>6, <1>7, <1>8, <1>9, <1>10

LEMMA ProgramRight ==
    ASSUME NEW m \in MethodNames, NEW i \in Input
    PROVE  Right(m, i, Program(m, i))
<1>1. CASE m \in {"get_superclass", "is_assignable_from", "is_instance_of", "alloc_object",
                  "new_object_array",
                  "get_method_id", "get_static_method_id", "get_field_id", "get_static_field_id",
                  "to_reflected_method"}
  BY <1>1, LookupMethodsRight DEF Program
<1>2. CASE m \in {"is_same_object", "exception_clear", "throw", "get_direct_buffer_address",
                  "get_direct_buffer_capacity", "get_array_length", "ensure_local_capacity",
                  "from_jni_str", "exception_occurred", "define_class", "get_object_class",
                  "new_direct_byte_buffer", "register_native_methods", "unregister_native_methods",
                  "throw_new"}
  BY <1>2, IsSameObjectRight, ExceptionClearRight, ThrowRight, GetDirectBufferAddressRight,
     GetDirectBufferCapacityRight, GetArrayLengthRight, EnsureLocalCapacityRight, FromJniStrRight,
     ExceptionOccurredRight, DefineClassRight, GetObjectClassRight, NewDirectByteBufferRight,
     RegisterNativeMethodsRight, UnregisterNativeMethodsRight, ThrowNewRight
     DEF Program
<1>3. CASE m \in {"call_method", "call_static_method", "call_nonvirtual_method", "new_object",
                  "get_field", "set_field", "get_static_field", "set_static_field", "throw_desc"}
  BY <1>3, CallMethodRight, CallStaticMethodRight, CallNonvirtualMethodRight, NewObjectRight,
     GetFieldRight, SetFieldRight, GetStaticFieldRight, SetStaticFieldRight, ThrowDescRight DEF Program
<1>4. CASE m \in {"generated constructor", "generated method", "generated static method",
                  "generated non_null method", "generated getter", "generated static getter",
                  "generated setter", "generated static setter"}
  BY <1>4, GeneratedMethodsRight, GeneratedConstructorRight, GeneratedNonNullMethodRight,
     GeneratedSetterRight, GeneratedStaticSetterRight DEF Program
<1>5. \/ m \in {"get_superclass", "is_assignable_from", "is_instance_of", "alloc_object",
                "new_object_array",
                "get_method_id", "get_static_method_id", "get_field_id", "get_static_field_id",
                "to_reflected_method"}
      \/ m \in {"is_same_object", "exception_clear", "throw", "get_direct_buffer_address",
                "get_direct_buffer_capacity", "get_array_length", "ensure_local_capacity",
                "from_jni_str", "exception_occurred", "define_class", "get_object_class",
                "new_direct_byte_buffer", "register_native_methods", "unregister_native_methods",
                "throw_new"}
      \/ m \in {"call_method", "call_static_method", "call_nonvirtual_method", "new_object",
                "get_field", "set_field", "get_static_field", "set_static_field", "throw_desc"}
      \/ m \in {"generated constructor", "generated method", "generated static method",
                "generated non_null method", "generated getter", "generated static getter",
                "generated setter", "generated static setter"}
  BY DEF MethodNames
<1> QED BY <1>1, <1>2, <1>3, <1>4, <1>5

LEMMA CallsInit == Init => CallsInv
<1> SUFFICES ASSUME Init PROVE CallsInv
  OBVIOUS
<1>1. AnyInput \in Input
  BY ClassFormsAssumption DEF AnyInput, Input, Objects, SigTypes, ValueTypes, ReturnTypes
<1>2. <<>> \in Seq(StepType) /\ 0 \in Nat /\ 0 \in 0..1
  BY EmptySeq
<1>3. TypeOK
  BY <1>1, <1>2 DEF Init, TypeOK, Results
<1> QED BY <1>3 DEF Init, CallsInv, Ended, Thrown, Running, JvmCalledRight, LocalsAccounted,
        ExceptionsReported

LEMMA CallsStep == CallsInv /\ [Next]_vars => CallsInv'
<1> SUFFICES ASSUME CallsInv, [Next]_vars PROVE CallsInv'
  OBVIOUS
<1>1. ASSUME method = "none", NEW m \in Methods, NEW i \in Input, Call(m, i) PROVE CallsInv'
  <2>1. Right(m, i, Program(m, i))
    BY MethodsAssumption, ProgramRight
  <2> QED BY <1>1, <2>1, CallKeeps
<1>2. ASSUME UNCHANGED vars PROVE CallsInv'
  <2>1. /\ method' = method /\ in' = in /\ todo' = todo /\ class' = class /\ id' = id
        /\ pending' = pending /\ before' = before /\ autos' = autos /\ locals' = locals
        /\ result' = result /\ misuse' = misuse
    BY <1>2 DEF vars
  <2>2. (TypeOK' <=> TypeOK) /\ (Running' <=> Running) /\ (IdKnown' <=> IdKnown)
    BY <2>1 DEF TypeOK, Running, IdKnown
  <2>3. (Ended' <=> Ended) /\ (Thrown' <=> Thrown)
    BY <2>1, <2>2 DEF Ended, Thrown
  <2>4. (Made' <=> Made) /\ (ToDo' <=> ToDo)
    <3>1. Made' <=> Made
      BY <2>1 DEF Made, Turns
    <3>2. ToDo' <=> ToDo
      BY <2>1, Zenon DEF ToDo, IdKnown
    <3> QED BY <3>1, <3>2
  <2>5. /\ JvmCalledRight' <=> JvmCalledRight
        /\ LocalsAccounted' <=> LocalsAccounted
        /\ ExceptionsReported' <=> ExceptionsReported
    BY <2>1 DEF JvmCalledRight, LocalsAccounted, ExceptionsReported
  <2> QED BY <2>2, <2>3, <2>4, <2>5 DEF CallsInv
<1> QED BY <1>1, <1>2, RequireKeeps, ClassKeeps, BindingKeeps, ClearKeeps, RefuseKeeps, JvmKeeps,
        EndKeeps, ReturnKeeps DEF Next

(* For every set of methods and every way to name a class, every variable keeps its type. *)
THEOREM CallsTyped == Spec => []TypeOK
<1>1. CallsInv => TypeOK
  BY DEF CallsInv
<1> QED BY <1>1, CallsInit, CallsStep, PTL DEF Spec

(* No JNI function is called with an exception pending, on a null object, with a class or an ID
   that was not looked up, with a value that does not fit, or to make a reference in a frame that
   is not the top one, whatever was called before and whatever any call was given. *)
THEOREM JvmIsCalledRight == Spec => []JvmCalledRight
<1>1. CallsInv => JvmCalledRight
  BY DEF CallsInv
<1> QED BY <1>1, CallsInit, CallsStep, PTL DEF Spec

(* A method leaves no local reference but the object it returns, by whichever step it ends. *)
THEOREM LocalsAreAccounted == Spec => []LocalsAccounted
<1>1. CallsInv => LocalsAccounted
  BY DEF CallsInv
<1> QED BY <1>1, CallsInit, CallsStep, PTL DEF Spec

(* JavaException is reported for a pending exception, and a new one that is left pending is
   reported; the methods that catch exceptions report only what was pending before. *)
THEOREM ExceptionsAreReported == Spec => []ExceptionsReported
<1>1. CallsInv => ExceptionsReported
  BY DEF CallsInv
<1> QED BY <1>1, CallsInit, CallsStep, PTL DEF Spec

-------------------------------------------------------------------------------
(* jni_mangle *)

(* A character of what is mangled, and one of a symbol *)
Tokens == [char : Characters \union {"separator", "open"}, args : BOOLEAN]
SymbolChars == Alphanumeric \union {"_"}

(* A text is in a symbol at a position. *)
Holds(m, b, e) == \A j \in 1..Len(e) : b + j - 1 \in 1..Len(m) /\ m[b + j - 1] = e[j]

Places == Nat

MangleTypes ==
    /\ item.attribute \in Seq(Seq(Characters)) /\ item.name \in Seq(Characters)
    /\ place \in Nat \ {0} /\ capitalize \in BOOLEAN
    /\ javaName \in Seq(Characters) /\ origin \in Seq(Places)
    /\ source \in Seq(Tokens) /\ symbol \in Seq(SymbolChars) /\ begins \in Seq(Nat)

(* Characters by a name of their own *)
Underscore == "_"
Zero == "0"
Between == {"separator", "open"}

(* The conversion has come to a place in the Rust name: where the characters come from, that none
   is lost, where underscores are left, and a name that is one already. *)
From(c, d) == d = c \/ (c \in DOMAIN UpperOf /\ d \in CharsOf(UpperOf[c]))
OriginInv ==
    /\ Len(origin) = Len(javaName)
    /\ \A j \in 1..Len(origin) : origin[j] \in 1..(place - 1)
    /\ \A j, k \in 1..Len(origin) : j < k => origin[j] <= origin[k]
    /\ \A j \in 1..Len(origin) : From(item.name[origin[j]], javaName[j])
    /\ \A i \in 1..(place - 1) : item.name[i] # Underscore => i \in CharsOf(origin)
UnderscoreInv ==
    item.name[1] # Underscore =>
        /\ \A j \in 1..Len(javaName) : javaName[j] = Underscore => Trailing(item.name, place)
        /\ \A i, j \in 1..Len(javaName) : i < j /\ javaName[i] = Underscore => javaName[j] = Underscore
SettledInv ==
    Settled(item.name) =>
        ~capitalize /\ Len(javaName) = place - 1 /\ \A j \in 1..(place - 1) : javaName[j] = item.name[j]
CamelInv ==
    /\ Derived(item.attribute) /\ ~KeptAsIs(item.name) /\ place <= Len(item.name) + 1
    /\ OriginInv /\ UnderscoreInv /\ SettledInv

(* What NamesRight says of the Java name *)
NameInv ==
    Derived(item.attribute) =>
        /\ LettersKept
        /\ item.name # <<>> /\ item.name[1] # "_" => Settled(javaName)
        /\ Settled(item.name) => javaName = item.name

JavaNameLegal == javaName # <<>> /\ javaName[1] \notin Digits /\ "." \notin CharsOf(javaName)

(* The parts follow each other, and a namespace and a Java name have no empty segments. *)
SourceInv ==
    /\ \A k \in 1..Len(source) : source[k].char = "open" => source[k].args
    /\ \A k \in 1..Len(source) - 1 : source[k].args => source[k + 1].args /\ source[k + 1].char # "open"
    /\ JavaNameLegal =>
          \A k \in 1..Len(source) - 1 :
              ~source[k].args /\ source[k].char = "separator" =>
                  source[k + 1].char \notin Digits \union {"separator", "open"}

(* What is mangled so far is in the symbol, one character after the other. *)
SymbolInv ==
    /\ Len(begins) = place - 1 /\ Len(begins) <= Len(source)
    /\ IF begins = <<>> THEN symbol = <<>> ELSE begins[1] = 1
    /\ \A k \in 1..Len(begins) :
          /\ begins[k] # 0
          /\ Holds(symbol, begins[k], MangleChar(source[k]))
          /\ begins[k] + Len(MangleChar(source[k])) =
                IF k < Len(begins) THEN begins[k + 1] ELSE Len(symbol) + 1

MangleInv ==
    /\ MangleTypes
    /\ stage \in {"attribute", "camel", "name", "mangle", "exported", "refused", "panicked"}
    /\ stage = "attribute" =>
          /\ place = 1 /\ ~capitalize /\ javaName = <<>> /\ origin = <<>>
    /\ stage \in {"attribute", "camel", "name"} => source = <<>> /\ symbol = <<>> /\ begins = <<>>
    /\ stage \in {"camel", "name"} => Len(item.attribute) \in 1..3 /\ ValidNamespace(item.attribute[1])
    /\ stage = "camel" => CamelInv
    /\ stage = "name" => place = 1
    /\ stage \in {"name", "mangle", "exported"} => NameInv
    /\ stage \in {"mangle", "exported"} => SourceInv /\ SymbolInv
    /\ stage = "exported" => Len(begins) = Len(source)

-------------------------------------------------------------------------------
(* Symbols *)

(* What mangle_chars writes for each character, by the branches of its match. *)
LEMMA MangleCharForms ==
    ASSUME NEW t \in Tokens
    PROVE  /\ t.char = "separator" => MangleChar(t) = <<"_">>
           /\ t.char = "open" => MangleChar(t) = <<"_", "_">>
           /\ t.char = "_" => MangleChar(t) = <<"_", "1">>
           /\ t.char = ";" /\ t.args => MangleChar(t) = <<"_", "2">>
           /\ t.char = "[" /\ t.args => MangleChar(t) = <<"_", "3">>
           /\ t.char \in Alphanumeric => MangleChar(t) = <<t.char>>
           /\ t.char \in DOMAIN HexOf /\ ~(t.args /\ t.char \in {";", "["}) =>
                 MangleChar(t) = <<"_", "0">> \o HexOf[t.char]
<1>1. /\ {".", "/", ";", "[", "(", ")", "_", "separator", "open"} \intersect Alphanumeric = {}
      /\ {"_", "separator", "open"} \intersect DOMAIN HexOf = {}
      /\ DOMAIN HexOf \intersect Alphanumeric = {}
  BY CharactersAssumption DEF Punctuation
<1> QED BY <1>1 DEF MangleChar

(* One of the seven forms *)
LEMMA FormsOfTokens ==
    ASSUME NEW t \in Tokens
    PROVE  \/ t.char \in {"separator", "open", "_"} \union Alphanumeric
           \/ t.args /\ t.char \in {";", "["}
           \/ t.char \in DOMAIN HexOf /\ ~(t.args /\ t.char \in {";", "["})
  BY DEF Tokens, Characters

(* Texts of one and of two characters. *)
LEMMA OneAndTwo ==
    /\ \A a \in SymbolChars : <<a>> \in Seq(SymbolChars) /\ Len(<<a>>) = 1 /\ <<a>>[1] = a
    /\ \A a, b \in SymbolChars :
          <<a, b>> \in Seq(SymbolChars) /\ Len(<<a, b>>) = 2 /\ <<a, b>>[1] = a /\ <<a, b>>[2] = b
  OBVIOUS

(* The characters of a symbol, and that none that is escaped is among them as it is. *)
LEMMA SymbolCharFacts ==
    /\ Underscore \in SymbolChars /\ Zero \in SymbolChars /\ Zero \in Escapes
    /\ Escapes \subseteq SymbolChars /\ Alphanumeric \subseteq SymbolChars
    /\ Underscore \notin Alphanumeric /\ Between \intersect Alphanumeric = {}
    /\ DOMAIN HexOf \intersect Alphanumeric = {}
  BY CharactersAssumption DEF Underscore, Zero, Between, SymbolChars, Alphanumeric, Escapes

(* The forms again, in these names *)
LEMMA MangledForms ==
    ASSUME NEW t \in Tokens
    PROVE  LET e == MangleChar(t) IN
           \/ t.char \in Between /\ (e = <<Underscore>> \/ e = <<Underscore, Underscore>>)
           \/ t.char \notin Alphanumeric /\ \E d \in Escapes : e = <<Underscore, d>>
           \/ t.char \in Alphanumeric /\ e = <<t.char>>
           \/ t.char \in DOMAIN HexOf /\ e = <<Underscore, Zero>> \o HexOf[t.char]
<1>1. CASE t.char \in Between
  BY <1>1, MangleCharForms DEF Between, Underscore
<1>2. CASE t.char = "_" \/ (t.args /\ t.char \in {";", "["})
  <2>1. t.char \notin Alphanumeric
    BY <1>2, CharactersAssumption DEF Punctuation
  <2> QED BY <1>2, <2>1, MangleCharForms DEF Underscore, Escapes
<1>3. CASE t.char \in Alphanumeric
  BY <1>3, MangleCharForms
<1>4. CASE t.char \in DOMAIN HexOf /\ ~(t.args /\ t.char \in {";", "["})
  BY <1>4, MangleCharForms DEF Underscore, Zero
<1> QED BY <1>1, <1>2, <1>3, <1>4, FormsOfTokens DEF Between

(* The escape of a character by its hexadecimal digits. *)
LEMMA HexFacts ==
    ASSUME NEW h \in Seq(Alphanumeric)
    PROVE  LET e == <<Underscore, Zero>> \o h IN
           /\ e \in Seq(SymbolChars) /\ Len(e) = Len(h) + 2
           /\ e[1] = Underscore /\ e[2] = Zero /\ \A i \in 1..Len(h) : e[i + 2] = h[i]
<1>1. h \in Seq(SymbolChars)
  BY SeqMonotonic, SymbolCharFacts
<1>2. PICK d : d = <<Underscore, Zero>>
  OBVIOUS
<1>3. d \in Seq(SymbolChars) /\ Len(d) = 2 /\ d[1] = Underscore /\ d[2] = Zero
  BY <1>2, OneAndTwo, SymbolCharFacts
<1>4. PICK e : e = d \o h
  OBVIOUS
<1>5. /\ e \in Seq(SymbolChars) /\ Len(e) = Len(d) + Len(h)
      /\ \A i \in 1..Len(d) + Len(h) : e[i] = IF i <= Len(d) THEN d[i] ELSE h[i - Len(d)]
  BY <1>1, <1>3, <1>4, ConcatProperties
<1>6. Len(h) \in Nat
  OBVIOUS
<1>7. e \in Seq(SymbolChars) /\ Len(e) = Len(h) + 2
  BY <1>3, <1>5, <1>6
<1>8. e[1] = Underscore /\ e[2] = Zero
  BY <1>3, <1>5, <1>6
<1>9. ASSUME NEW i \in 1..Len(h) PROVE e[i + 2] = h[i]
  <2>1. i + 2 \in 1..(2 + Len(h)) /\ ~(i + 2 <= 2) /\ i + 2 - 2 = i
    BY <1>6
  <2> QED BY <1>3, <1>5, <2>1
<1> QED BY <1>2, <1>4, <1>7, <1>8, <1>9

CodeInv(c, e) ==
    /\ e \in Seq(SymbolChars) /\ Len(e) >= 1
    /\ e[1] = IF c \in Alphanumeric THEN c ELSE Underscore
    /\ c \notin Alphanumeric \union Between => Len(e) >= 2 /\ e[2] \in Escapes

(* What is written for a character begins as it is read, and is never empty. *)
LEMMA MangleCharFacts ==
    ASSUME NEW t \in Tokens
    PROVE  CodeInv(t.char, MangleChar(t))
<1>1. PICK e : e = MangleChar(t)
  OBVIOUS
<1>2. CASE t.char \in Between /\ (e = <<Underscore>> \/ e = <<Underscore, Underscore>>)
  <2>1. e = <<Underscore>> => e \in Seq(SymbolChars) /\ Len(e) = 1 /\ e[1] = Underscore
    BY OneAndTwo, SymbolCharFacts
  <2>2. e = <<Underscore, Underscore>> => e \in Seq(SymbolChars) /\ Len(e) = 2 /\ e[1] = Underscore
    BY OneAndTwo, SymbolCharFacts
  <2>3. e \in Seq(SymbolChars) /\ Len(e) >= 1 /\ e[1] = Underscore
    BY <1>2, <2>1, <2>2
  <2> QED BY <1>1, <1>2, <2>3, SymbolCharFacts DEF CodeInv
<1>3. ASSUME t.char \notin Alphanumeric, NEW d \in Escapes, e = <<Underscore, d>>
      PROVE  CodeInv(t.char, e)
  <2>1. e \in Seq(SymbolChars) /\ Len(e) = 2 /\ e[1] = Underscore /\ e[2] = d
    BY <1>3, OneAndTwo, SymbolCharFacts
  <2> QED BY <1>3, <2>1 DEF CodeInv
<1>4. CASE t.char \in Alphanumeric /\ e = <<t.char>>
  <2>1. e \in Seq(SymbolChars) /\ Len(e) = 1 /\ e[1] = t.char
    BY <1>4, OneAndTwo, SymbolCharFacts
  <2> QED BY <1>1, <1>4, <2>1 DEF CodeInv
<1>5. CASE t.char \in DOMAIN HexOf /\ e = <<Underscore, Zero>> \o HexOf[t.char]
  <2>1. PICK h \in Seq(Alphanumeric) : h = HexOf[t.char]
    BY <1>5, CharactersAssumption
  <2>2. e \in Seq(SymbolChars) /\ Len(e) = Len(h) + 2 /\ e[1] = Underscore /\ e[2] = Zero
    BY <1>5, <2>1, HexFacts
  <2>3. Len(e) >= 2
    BY <2>2
  <2>4. t.char \notin Alphanumeric
    BY <1>5, SymbolCharFacts
  <2> QED BY <1>1, <2>2, <2>3, <2>4, SymbolCharFacts DEF CodeInv
<1> QED BY <1>1, <1>2, <1>3, <1>4, <1>5, MangledForms

(* Appending to a symbol leaves what it holds, and adds what is appended. *)
LEMMA HoldsFacts ==
    ASSUME NEW m \in Seq(SymbolChars), NEW e \in Seq(SymbolChars)
    PROVE  /\ m \o e \in Seq(SymbolChars) /\ Len(m \o e) = Len(m) + Len(e)
           /\ Holds(m \o e, Len(m) + 1, e)
           /\ \A b \in Nat : \A f \in Seq(SymbolChars) : Holds(m, b, f) => Holds(m \o e, b, f)
<1>1. /\ m \o e \in Seq(SymbolChars) /\ Len(m \o e) = Len(m) + Len(e)
      /\ \A i \in 1..Len(m) + Len(e) : (m \o e)[i] = IF i <= Len(m) THEN m[i] ELSE e[i - Len(m)]
  BY ConcatProperties
<1>2. Len(m) \in Nat /\ Len(e) \in Nat
  OBVIOUS
<1>3. ASSUME NEW j \in 1..Len(e)
      PROVE  Len(m) + 1 + j - 1 \in 1..Len(m \o e) /\ (m \o e)[Len(m) + 1 + j - 1] = e[j]
  BY <1>1, <1>2
<1>4. ASSUME NEW b \in Nat, NEW f \in Seq(SymbolChars), Holds(m, b, f), NEW j \in 1..Len(f)
      PROVE  b + j - 1 \in 1..Len(m \o e) /\ (m \o e)[b + j - 1] = f[j]
  <2>1. b + j - 1 \in 1..Len(m) /\ m[b + j - 1] = f[j]
    BY <1>4 DEF Holds
  <2> QED BY <1>1, <1>2, <2>1
<1> QED BY <1>1, <1>3, <1>4 DEF Holds

(* A step of mangle_chars writes one more character where the last one ends. *)
LEMMA SymbolStep ==
    ASSUME MangleTypes, SymbolInv, MangleStep
    PROVE  SymbolInv' /\ symbol' \in Seq(SymbolChars) /\ begins' \in Seq(Nat)
<1>1. /\ place \in Nat \ {0} /\ source \in Seq(Tokens) /\ symbol \in Seq(SymbolChars)
      /\ begins \in Seq(Nat) /\ place <= Len(source)
      /\ Len(symbol) \in Nat /\ Len(source) \in Nat
  BY DEF MangleTypes, MangleStep
<1>2. /\ Len(begins) = place - 1
      /\ IF begins = <<>> THEN symbol = <<>> ELSE begins[1] = 1
  BY DEF SymbolInv
<1>3. PICK e : e = MangleChar(source[place])
  OBVIOUS
<1>4. source[place] \in Tokens
  BY <1>1
<1>5. e \in Seq(SymbolChars) /\ Len(e) >= 1 /\ Len(e) \in Nat
  BY <1>3, <1>4, MangleCharFacts DEF CodeInv
<1>6. /\ symbol' = symbol \o e /\ begins' = Append(begins, Len(symbol) + 1)
      /\ place' = place + 1 /\ source' = source
  BY <1>3 DEF MangleStep
<1>7. /\ begins' \in Seq(Nat) /\ Len(begins') = place /\ begins'[place] = Len(symbol) + 1
      /\ \A k \in 1..Len(begins) : begins'[k] = begins[k]
  BY <1>1, <1>2, <1>6
<1>8. /\ symbol' \in Seq(SymbolChars) /\ Len(symbol') = Len(symbol) + Len(e)
      /\ Holds(symbol', Len(symbol) + 1, e)
      /\ \A b \in Nat : \A f \in Seq(SymbolChars) : Holds(symbol, b, f) => Holds(symbol', b, f)
  BY <1>1, <1>5, <1>6, HoldsFacts
<1>9. ASSUME NEW k \in 1..Len(begins')
      PROVE  /\ begins'[k] # 0
             /\ Holds(symbol', begins'[k], MangleChar(source[k]))
             /\ begins'[k] + Len(MangleChar(source[k])) =
                   IF k < Len(begins') THEN begins'[k + 1] ELSE Len(symbol') + 1
  <2>1. CASE k = place
    BY <1>1, <1>3, <1>5, <1>7, <1>8, <2>1
  <2>2. CASE k # place
    <3>1. k \in 1..Len(begins) /\ k < Len(begins') /\ begins[k] \in Nat /\ source[k] \in Tokens
      BY <1>1, <1>2, <1>7, <2>2
    <3>2. /\ begins[k] # 0
          /\ Holds(symbol, begins[k], MangleChar(source[k]))
          /\ begins[k] + Len(MangleChar(source[k])) =
                IF k < Len(begins) THEN begins[k + 1] ELSE Len(symbol) + 1
      BY <3>1 DEF SymbolInv
    <3>3. MangleChar(source[k]) \in Seq(SymbolChars)
      BY <3>1, MangleCharFacts DEF CodeInv
    <3>4. Holds(symbol', begins[k], MangleChar(source[k]))
      BY <1>8, <3>1, <3>2, <3>3
    <3>5. (IF k < Len(begins) THEN begins[k + 1] ELSE Len(symbol) + 1) = begins'[k + 1]
      BY <1>2, <1>7, <3>1
    <3> QED BY <1>7, <3>1, <3>2, <3>4, <3>5
  <2> QED BY <2>1, <2>2
<1>10. begins' # <<>> /\ begins'[1] = 1
  <2>1. CASE place = 1
    <3>1. begins = <<>>
      BY <1>1, <1>2, <2>1
    <3>2. symbol = <<>> /\ Len(symbol) = 0
      BY <1>2, <3>1
    <3>3. begins'[1] = 1 /\ Len(begins') = 1
      BY <1>7, <2>1, <3>2
    <3>4. begins' # <<>>
      <4>1. ASSUME begins' = <<>> PROVE Len(begins') = 0
        BY <4>1
      <4> QED BY <3>3, <4>1
    <3> QED BY <3>3, <3>4
  <2>2. CASE place # 1
    <3>1. 1 \in 1..Len(begins) /\ begins # <<>>
      BY <1>1, <1>2, <2>2
    <3> QED BY <1>1, <1>2, <1>7, <3>1
  <2> QED BY <2>1, <2>2
<1>11. Len(begins') = place' - 1 /\ Len(begins') <= Len(source')
  BY <1>1, <1>6, <1>7
<1> QED BY <1>6, <1>7, <1>8, <1>9, <1>10, <1>11 DEF SymbolInv

(* The reader, in the same names *)
LEMMA ReadForms ==
    ASSUME NEW m, NEW i
    PROVE  /\ m[i] # Underscore => ReadAt(m, i) = [char |-> m[i], next |-> i + 1]
           /\ m[i] = Underscore /\ SymbolAt(m, i + 1) = Zero =>
                 ReadAt(m, i) = [char |-> Unescape(SubSeq(m, i + 2, i + 5)), next |-> i + 6]
           /\ m[i] = Underscore /\ SymbolAt(m, i + 1) = "1" => ReadAt(m, i) = [char |-> "_", next |-> i + 2]
           /\ m[i] = Underscore /\ SymbolAt(m, i + 1) = "2" => ReadAt(m, i) = [char |-> ";", next |-> i + 2]
           /\ m[i] = Underscore /\ SymbolAt(m, i + 1) = "3" => ReadAt(m, i) = [char |-> "[", next |-> i + 2]
           /\ m[i] = Underscore /\ SymbolAt(m, i + 1) = Underscore /\ SymbolAt(m, i + 2) \notin Escapes =>
                 ReadAt(m, i) = [char |-> "open", next |-> i + 2]
           /\ m[i] = Underscore /\ SymbolAt(m, i + 1) \notin Escapes \union {Underscore} =>
                 ReadAt(m, i) = [char |-> "separator", next |-> i + 1]
           /\ m[i] = Underscore /\ SymbolAt(m, i + 1) = Underscore /\ SymbolAt(m, i + 2) \in Escapes =>
                 ReadAt(m, i) = [char |-> "separator", next |-> i + 1]
<1>1. "_" \notin Escapes
  BY DEF Escapes
<1> QED BY <1>1 DEF ReadAt, Underscore, Zero, Escapes

End == "end"

(* The end of a symbol is no character that a reader takes for an escape. *)
LEMMA EndFacts == End \notin Escapes /\ End # Underscore /\ Underscore \notin Escapes
  BY DEF End, Escapes, Underscore

(* What follows a mangled character *)
LEMMA FollowingChars ==
    ASSUME MangleTypes, SymbolInv, NEW k \in 1..Len(begins)
    PROVE  LET n == begins[k] + Len(MangleChar(source[k])) IN
           \/ k = Len(begins) /\ SymbolAt(symbol, n) = End /\ n = Len(symbol) + 1
           \/ /\ k < Len(begins) /\ n = begins[k + 1] /\ source[k + 1] \in Tokens
              /\ \E f : /\ CodeInv(source[k + 1].char, f) /\ SymbolAt(symbol, n) = f[1]
                        /\ Len(f) >= 2 => SymbolAt(symbol, n + 1) = f[2]
<1>1. /\ source \in Seq(Tokens) /\ symbol \in Seq(SymbolChars) /\ begins \in Seq(Nat)
      /\ Len(begins) \in Nat /\ Len(begins) <= Len(source) /\ Len(source) \in Nat /\ Len(symbol) \in Nat
  <2>1. source \in Seq(Tokens) /\ symbol \in Seq(SymbolChars) /\ begins \in Seq(Nat)
    BY DEF MangleTypes
  <2>2. Len(begins) <= Len(source)
    BY DEF SymbolInv
  <2> QED BY <2>1, <2>2
<1>2. PICK n : n = begins[k] + Len(MangleChar(source[k]))
  OBVIOUS
<1>3. n = IF k < Len(begins) THEN begins[k + 1] ELSE Len(symbol) + 1
  BY <1>2 DEF SymbolInv
<1>4. CASE k = Len(begins)
  <2>1. n = Len(symbol) + 1 /\ n \notin 1..Len(symbol)
    BY <1>1, <1>3, <1>4
  <2>2. SymbolAt(symbol, n) = End
    BY <2>1 DEF SymbolAt, End
  <2> QED BY <1>2, <1>4, <2>1, <2>2
<1>5. CASE k # Len(begins)
  <2>1. k < Len(begins) /\ k + 1 \in 1..Len(begins) /\ k + 1 \in 1..Len(source)
    BY <1>1, <1>5
  <2>2. n = begins[k + 1] /\ n \in Nat /\ source[k + 1] \in Tokens
    BY <1>1, <1>3, <2>1
  <2>3. PICK f : f = MangleChar(source[k + 1])
    OBVIOUS
  <2>4. Holds(symbol, n, f)
    BY <2>1, <2>2, <2>3 DEF SymbolInv
  <2>5. CodeInv(source[k + 1].char, f)
    BY <2>2, <2>3, MangleCharFacts
  <2>6. f \in Seq(SymbolChars) /\ Len(f) >= 1 /\ Len(f) \in Nat
    BY <2>5 DEF CodeInv
  <2>7. n \in 1..Len(symbol) /\ symbol[n] = f[1]
    <3>1. 1 \in 1..Len(f) /\ n + 1 - 1 = n
      BY <2>2, <2>6
    <3> QED BY <2>4, <3>1 DEF Holds
  <2>8. ASSUME Len(f) >= 2 PROVE n + 1 \in 1..Len(symbol) /\ symbol[n + 1] = f[2]
    <3>1. 2 \in 1..Len(f) /\ n + 2 - 1 = n + 1
      BY <2>2, <2>6, <2>8
    <3> QED BY <2>4, <3>1 DEF Holds
  <2>9. SymbolAt(symbol, n) = f[1] /\ (Len(f) >= 2 => SymbolAt(symbol, n + 1) = f[2])
    BY <2>7, <2>8 DEF SymbolAt
  <2> QED BY <1>2, <2>1, <2>2, <2>5, <2>9
<1> QED BY <1>4, <1>5

(* No digit and no second underscore follows a separator or the two underscores before the
   arguments. *)
LEMMA NextReadable ==
    ASSUME MangleTypes, SourceInv, LegalMethod, NEW k \in 1..Len(source) - 1
    PROVE  /\ source[k].char = "separator" => source[k + 1].char \notin Digits \union Between
           /\ source[k].char = "open" => source[k + 1].char \notin Digits
<1>1. source \in Seq(Tokens) /\ k \in 1..Len(source)
  BY DEF MangleTypes
<1>2. source[k].args \in BOOLEAN
  <2>1. source[k] \in Tokens
    BY <1>1
  <2> QED BY <2>1 DEF Tokens
<1>3. JavaNameLegal
  BY DEF LegalMethod, JavaNameLegal
<1>4. source[k].args /\ source[k].char \in {"separator", "open"} =>
          source[k + 1].char \notin Digits \union {"separator"}
  BY DEF LegalMethod
<1>5. /\ source[k].char = "open" => source[k].args
      /\ source[k].args => source[k + 1].char # "open"
      /\ ~source[k].args /\ source[k].char = "separator" =>
            source[k + 1].char \notin Digits \union {"separator", "open"}
  BY <1>1, <1>3 DEF SourceInv
<1> QED BY <1>2, <1>4, <1>5 DEF Between

(* Different characters have different digits. *)
LEMMA UnescapeHex ==
    ASSUME NEW c \in DOMAIN HexOf
    PROVE  Unescape(HexOf[c]) = c
<1>1. \A d \in DOMAIN HexOf : HexOf[d] = HexOf[c] <=> d = c
  BY CharactersAssumption
<1> QED BY <1>1 DEF Unescape

(* A mangled character of the symbol, byte by byte *)
LEMMA HeldChars ==
    ASSUME NEW m \in Seq(SymbolChars), NEW b \in Nat, NEW e \in Seq(SymbolChars), Holds(m, b, e), Len(e) >= 1
    PROVE  /\ m[b] = e[1]
           /\ Len(e) >= 2 => SymbolAt(m, b + 1) = e[2]
<1>1. Len(e) \in Nat
  OBVIOUS
<1>2. m[b] = e[1]
  <2>1. 1 \in 1..Len(e) /\ b + 1 - 1 = b
    BY <1>1
  <2> QED BY <2>1 DEF Holds
<1>3. ASSUME Len(e) >= 2 PROVE SymbolAt(m, b + 1) = e[2]
  <2>1. 2 \in 1..Len(e) /\ b + 2 - 1 = b + 1
    BY <1>1, <1>3
  <2>2. b + 1 \in 1..Len(m) /\ m[b + 1] = e[2]
    BY <2>1 DEF Holds
  <2> QED BY <2>2 DEF SymbolAt
<1> QED BY <1>2, <1>3

(* An escape of two characters, where it stands in a symbol *)
LEMMA HeldPair ==
    ASSUME NEW m \in Seq(SymbolChars), NEW b \in Nat, NEW d \in SymbolChars, Holds(m, b, <<Underscore, d>>)
    PROVE  m[b] = Underscore /\ SymbolAt(m, b + 1) = d /\ b + Len(<<Underscore, d>>) = b + 2
<1>1. PICK e : e = <<Underscore, d>>
  OBVIOUS
<1>2. e \in Seq(SymbolChars) /\ Len(e) = 2 /\ e[1] = Underscore /\ e[2] = d
  BY <1>1, OneAndTwo, SymbolCharFacts
<1>3. Len(e) >= 1 /\ Len(e) >= 2
  BY <1>2
<1>4. Holds(m, b, e)
  BY <1>1
<1> QED BY <1>1, <1>2, <1>3, <1>4, HeldChars

(* A character that is written as it is, where it stands in a symbol *)
LEMMA HeldOne ==
    ASSUME NEW m \in Seq(SymbolChars), NEW b \in Nat, NEW c \in SymbolChars, Holds(m, b, <<c>>)
    PROVE  m[b] = c /\ b + Len(<<c>>) = b + 1
<1>1. PICK e : e = <<c>>
  OBVIOUS
<1>2. e \in Seq(SymbolChars) /\ Len(e) = 1 /\ e[1] = c
  BY <1>1, OneAndTwo
<1>3. Len(e) >= 1 /\ Holds(m, b, e)
  BY <1>1, <1>2
<1> QED BY <1>1, <1>2, <1>3, HeldChars

(* An escape of four hexadecimal digits, where it stands in a symbol *)
LEMMA HeldHex ==
    ASSUME NEW m \in Seq(SymbolChars), NEW b \in Nat, NEW h \in Seq(Alphanumeric), Len(h) = 4,
           Holds(m, b, <<Underscore, Zero>> \o h)
    PROVE  /\ m[b] = Underscore /\ SymbolAt(m, b + 1) = Zero /\ SubSeq(m, b + 2, b + 5) = h
           /\ b + Len(<<Underscore, Zero>> \o h) = b + 6
<1>1. PICK e : e = <<Underscore, Zero>> \o h
  OBVIOUS
<1>2. /\ e \in Seq(SymbolChars) /\ Len(e) = 6 /\ e[1] = Underscore /\ e[2] = Zero
      /\ \A i \in 1..4 : e[i + 2] = h[i]
  <2>1. /\ e \in Seq(SymbolChars) /\ Len(e) = Len(h) + 2
        /\ e[1] = Underscore /\ e[2] = Zero /\ \A i \in 1..Len(h) : e[i + 2] = h[i]
    BY <1>1, HexFacts
  <2>2. Len(e) = 6
    BY <2>1
  <2> QED BY <2>1, <2>2
<1>3. Len(e) >= 1 /\ Len(e) >= 2 /\ Holds(m, b, e)
  BY <1>1, <1>2
<1>4. \A j \in 1..6 : b + j - 1 \in 1..Len(m) /\ m[b + j - 1] = e[j]
  BY <1>2, <1>3 DEF Holds
<1>5. PICK l \in Nat : l = b + 2
  OBVIOUS
<1>6. \A i \in 1..4 : l + i - 1 \in 1..Len(m) /\ m[l + i - 1] = h[i]
  <2>1. SUFFICES ASSUME NEW i \in 1..4 PROVE l + i - 1 \in 1..Len(m) /\ m[l + i - 1] = h[i]
    OBVIOUS
  <2>2. i + 2 \in 1..6 /\ b + (i + 2) - 1 = l + i - 1
    BY <1>5
  <2> QED BY <1>2, <1>4, <2>2
<1>7. \A i \in l..(l + 3) : m[i] \in SymbolChars
  <2>1. SUFFICES ASSUME NEW i \in l..(l + 3) PROVE m[i] \in SymbolChars
    OBVIOUS
  <2>2. i - l + 1 \in 1..4 /\ l + (i - l + 1) - 1 = i
    BY <1>5
  <2> QED BY <1>6, <2>2
<1>8. PICK p : p = SubSeq(m, l, l + 3)
  OBVIOUS
<1>9. p \in Seq(SymbolChars) /\ Len(p) = 4 /\ \A i \in 1..4 : p[i] = m[l + i - 1]
  <2>1. l \in Int /\ l + 3 \in Int /\ l <= l + 3 /\ l + 3 - l + 1 = 4
    BY <1>5
  <2> QED BY <1>7, <1>8, <2>1, SubSeqProperties
<1>10. h \in Seq(SymbolChars)
  BY SeqMonotonic, SymbolCharFacts
<1>11. p = h
  BY <1>6, <1>9, <1>10, SeqEqual
<1>12. l + 3 = b + 5
  BY <1>5
<1> QED BY <1>1, <1>2, <1>3, <1>5, <1>8, <1>11, <1>12, HeldChars

(* Where the next character is read *)
NextOf(k) == IF k < Len(begins) THEN begins[k + 1] ELSE Len(symbol) + 1

(* An open parenthesis and a separator are told apart from what follows. *)
LEMMA ReadBetween ==
    ASSUME MangleTypes, SourceInv, SymbolInv, LegalMethod, NEW k \in 1..Len(begins),
           source[k].char \in Between
    PROVE  ReadAt(symbol, begins[k]) = [char |-> source[k].char, next |-> NextOf(k)]
<1>1. /\ source \in Seq(Tokens) /\ symbol \in Seq(SymbolChars) /\ begins \in Seq(Nat)
      /\ Len(begins) \in Nat /\ Len(source) \in Nat /\ Len(begins) <= Len(source)
  BY DEF MangleTypes, SymbolInv
<1>2. PICK b \in Nat : b = begins[k]
  BY <1>1
<1>3. PICK e : e = MangleChar(source[k])
  OBVIOUS
<1>4. Holds(symbol, b, e) /\ b + Len(e) = NextOf(k) /\ source[k] \in Tokens
  BY <1>1, <1>2, <1>3 DEF SymbolInv, NextOf
<1>5. \/ k = Len(begins) /\ SymbolAt(symbol, b + Len(e)) = End
      \/ /\ k < Len(begins) /\ source[k + 1] \in Tokens
         /\ \E f : /\ CodeInv(source[k + 1].char, f) /\ SymbolAt(symbol, b + Len(e)) = f[1]
                   /\ Len(f) >= 2 => SymbolAt(symbol, b + Len(e) + 1) = f[2]
  BY <1>2, <1>3, FollowingChars
<1>6. k < Len(begins) =>
          /\ source[k].char = "separator" => source[k + 1].char \notin Digits \union Between
          /\ source[k].char = "open" => source[k + 1].char \notin Digits
  <2>1. k < Len(begins) => k \in 1..Len(source) - 1
    BY <1>1
  <2> QED BY <2>1, NextReadable
<1>7. Escapes \subseteq Digits
  BY CharactersAssumption
<1>8. CASE source[k].char = "open"
  <2>1. e = <<Underscore, Underscore>>
    BY <1>3, <1>4, <1>8, MangleCharForms DEF Underscore
  <2>2. symbol[b] = Underscore /\ SymbolAt(symbol, b + 1) = Underscore /\ b + Len(e) = b + 2
    BY <1>1, <1>4, <2>1, HeldPair, SymbolCharFacts
  <2>3. SymbolAt(symbol, b + 2) \notin Escapes
    <3>1. CASE SymbolAt(symbol, b + 2) = End
      BY <3>1, EndFacts
    <3>2. ASSUME k < Len(begins), NEW f, CodeInv(source[k + 1].char, f), SymbolAt(symbol, b + 2) = f[1]
          PROVE  f[1] \notin Escapes
      BY <1>6, <1>7, <1>8, <3>2, EndFacts DEF CodeInv
    <3> QED BY <1>5, <2>2, <3>1, <3>2
  <2>4. ReadAt(symbol, b) = [char |-> "open", next |-> b + 2]
    BY <2>2, <2>3, ReadForms
  <2> QED BY <1>2, <1>4, <1>8, <2>2, <2>4
<1>9. CASE source[k].char = "separator"
  <2>1. e = <<Underscore>>
    BY <1>3, <1>4, <1>9, MangleCharForms DEF Underscore
  <2>2. symbol[b] = Underscore /\ b + Len(e) = b + 1
    BY <1>1, <1>4, <2>1, HeldOne, SymbolCharFacts
  <2>3. \/ SymbolAt(symbol, b + 1) \notin Escapes \union {Underscore}
        \/ SymbolAt(symbol, b + 1) = Underscore /\ SymbolAt(symbol, b + 2) \in Escapes
    <3>1. CASE SymbolAt(symbol, b + 1) = End
      BY <3>1, EndFacts
    <3>2. ASSUME k < Len(begins), NEW f, CodeInv(source[k + 1].char, f), SymbolAt(symbol, b + 1) = f[1],
                 Len(f) >= 2 => SymbolAt(symbol, b + 1 + 1) = f[2]
          PROVE  \/ SymbolAt(symbol, b + 1) \notin Escapes \union {Underscore}
                 \/ SymbolAt(symbol, b + 1) = Underscore /\ SymbolAt(symbol, b + 2) \in Escapes
      <4>1. b + 1 + 1 = b + 2
        OBVIOUS
      <4>2. source[k + 1].char \notin Digits \union Between
        BY <1>6, <1>9, <3>2
      <4>3. CASE source[k + 1].char \in Alphanumeric
        BY <1>7, <3>2, <4>2, <4>3, SymbolCharFacts DEF CodeInv
      <4>4. CASE source[k + 1].char \notin Alphanumeric
        BY <3>2, <4>1, <4>2, <4>4 DEF CodeInv
      <4> QED BY <4>3, <4>4
    <3> QED BY <1>5, <2>2, <3>1, <3>2
  <2>4. ReadAt(symbol, b) = [char |-> "separator", next |-> b + 1]
    BY <2>2, <2>3, ReadForms
  <2> QED BY <1>2, <1>4, <1>9, <2>2, <2>4
<1> QED BY <1>8, <1>9 DEF Between

(* A reader at the place where a character was written reads that character, and goes on where the
   next one was written. *)
LEMMA ReadBack ==
    ASSUME MangleTypes, SourceInv, SymbolInv, LegalMethod, FourDigits, NEW k \in 1..Len(begins)
    PROVE  ReadAt(symbol, begins[k]) = [char |-> source[k].char, next |-> NextOf(k)]
<1>1. /\ source \in Seq(Tokens) /\ symbol \in Seq(SymbolChars) /\ begins \in Seq(Nat)
      /\ Len(begins) \in Nat /\ Len(source) \in Nat /\ Len(begins) <= Len(source)
  BY DEF MangleTypes, SymbolInv
<1>2. PICK b \in Nat : b = begins[k]
  BY <1>1
<1>3. PICK e : e = MangleChar(source[k])
  OBVIOUS
<1>4. Holds(symbol, b, e) /\ b + Len(e) = NextOf(k) /\ source[k] \in Tokens /\ k \in 1..Len(source)
  BY <1>1, <1>2, <1>3 DEF SymbolInv, NextOf
<1>5. CASE source[k].char \in Between
  BY <1>5, ReadBetween
<1>6. CASE source[k].char = "_"
  <2>1. e = <<Underscore, "1">> /\ "1" \in SymbolChars
    BY <1>3, <1>4, <1>6, MangleCharForms, SymbolCharFacts DEF Underscore, Escapes
  <2>2. symbol[b] = Underscore /\ SymbolAt(symbol, b + 1) = "1" /\ b + Len(e) = b + 2
    BY <1>1, <1>4, <2>1, HeldPair
  <2>3. ReadAt(symbol, b) = [char |-> "_", next |-> b + 2]
    BY <2>2, ReadForms
  <2> QED BY <1>2, <1>4, <1>6, <2>2, <2>3
<1>7. CASE source[k].args /\ source[k].char = ";"
  <2>1. e = <<Underscore, "2">> /\ "2" \in SymbolChars
    BY <1>3, <1>4, <1>7, MangleCharForms, SymbolCharFacts DEF Underscore, Escapes
  <2>2. symbol[b] = Underscore /\ SymbolAt(symbol, b + 1) = "2" /\ b + Len(e) = b + 2
    BY <1>1, <1>4, <2>1, HeldPair
  <2>3. ReadAt(symbol, b) = [char |-> ";", next |-> b + 2]
    BY <2>2, ReadForms
  <2> QED BY <1>2, <1>4, <1>7, <2>2, <2>3
<1>8. CASE source[k].args /\ source[k].char = "["
  <2>1. e = <<Underscore, "3">> /\ "3" \in SymbolChars
    BY <1>3, <1>4, <1>8, MangleCharForms, SymbolCharFacts DEF Underscore, Escapes
  <2>2. symbol[b] = Underscore /\ SymbolAt(symbol, b + 1) = "3" /\ b + Len(e) = b + 2
    BY <1>1, <1>4, <2>1, HeldPair
  <2>3. ReadAt(symbol, b) = [char |-> "[", next |-> b + 2]
    BY <2>2, ReadForms
  <2> QED BY <1>2, <1>4, <1>8, <2>2, <2>3
<1>9. CASE source[k].char \in Alphanumeric
  <2>1. e = <<source[k].char>> /\ source[k].char \in SymbolChars /\ source[k].char # Underscore
    BY <1>3, <1>4, <1>9, MangleCharForms, SymbolCharFacts
  <2>2. symbol[b] = source[k].char /\ b + Len(e) = b + 1
    BY <1>1, <1>4, <2>1, HeldOne
  <2>3. ReadAt(symbol, b) = [char |-> source[k].char, next |-> b + 1]
    BY <2>1, <2>2, ReadForms
  <2> QED BY <1>2, <1>4, <2>2, <2>3
<1>10. CASE source[k].char \in DOMAIN HexOf /\ ~(source[k].args /\ source[k].char \in {";", "["})
  <2>1. PICK h \in Seq(Alphanumeric) : h = HexOf[source[k].char] /\ Len(h) = 4
    BY <1>4, <1>10, CharactersAssumption DEF FourDigits
  <2>2. e = <<Underscore, Zero>> \o h
    BY <1>3, <1>4, <1>10, <2>1, MangleCharForms DEF Underscore, Zero
  <2>3. /\ symbol[b] = Underscore /\ SymbolAt(symbol, b + 1) = Zero /\ SubSeq(symbol, b + 2, b + 5) = h
        /\ b + Len(e) = b + 6
    BY <1>1, <1>4, <2>1, <2>2, HeldHex
  <2>4. ReadAt(symbol, b) = [char |-> Unescape(h), next |-> b + 6]
    BY <2>3, ReadForms
  <2>5. Unescape(h) = source[k].char
    BY <1>10, <2>1, UnescapeHex
  <2> QED BY <1>2, <1>4, <2>3, <2>4, <2>5
<1> QED BY <1>4, <1>5, <1>6, <1>7, <1>8, <1>9, <1>10, FormsOfTokens DEF Between

-------------------------------------------------------------------------------
(* What is mangled *)

Follow(t, u) ==
    /\ t.args => u.args /\ u.char # "open"
    /\ JavaNameLegal /\ ~t.args /\ t.char = "separator" => u.char \notin Digits \union {"separator", "open"}
OpenIsArgs(t) == t.char = "open" => t.args
Chained(s) ==
    /\ s \in Seq(Tokens)
    /\ \A k \in 1..Len(s) : OpenIsArgs(s[k])
    /\ \A k \in 1..Len(s) - 1 : Follow(s[k], s[k + 1])

(* Two chains are one if the second may follow the first. *)
LEMMA ChainJoin ==
    ASSUME NEW s, NEW t, Chained(s), Chained(t),
           s # <<>> /\ t # <<>> => Follow(s[Len(s)], t[1])
    PROVE  Chained(s \o t)
<1>1. PICK r : r = s \o t
  OBVIOUS
<1>2. s \in Seq(Tokens) /\ t \in Seq(Tokens) /\ Len(s) \in Nat /\ Len(t) \in Nat
  BY DEF Chained
<1>3. /\ r \in Seq(Tokens) /\ Len(r) = Len(s) + Len(t)
      /\ \A i \in 1..Len(s) + Len(t) : r[i] = IF i <= Len(s) THEN s[i] ELSE t[i - Len(s)]
  BY <1>1, <1>2, ConcatProperties
<1>4. ASSUME NEW k \in 1..Len(r) PROVE OpenIsArgs(r[k])
  <2>1. CASE k <= Len(s)
    BY <1>2, <1>3, <2>1 DEF Chained
  <2>2. CASE ~(k <= Len(s))
    <3>1. k - Len(s) \in 1..Len(t) /\ r[k] = t[k - Len(s)]
      BY <1>2, <1>3, <2>2
    <3> QED BY <3>1 DEF Chained
  <2> QED BY <2>1, <2>2
<1>5. ASSUME NEW k \in 1..Len(r) - 1 PROVE Follow(r[k], r[k + 1])
  <2>1. CASE k + 1 <= Len(s)
    <3>1. k \in 1..Len(s) - 1 /\ r[k] = s[k] /\ r[k + 1] = s[k + 1]
      BY <1>2, <1>3, <2>1
    <3> QED BY <3>1 DEF Chained
  <2>2. CASE k = Len(s)
    <3>1. r[k] = s[Len(s)] /\ r[k + 1] = t[1] /\ s # <<>> /\ t # <<>>
      BY <1>2, <1>3, <2>2
    <3> QED BY <3>1
  <2>3. CASE k > Len(s)
    <3>1. PICK i : i = k - Len(s)
      OBVIOUS
    <3>2. i \in 1..Len(t) - 1 /\ r[k] = t[i] /\ r[k + 1] = t[i + 1]
      BY <1>2, <1>3, <2>3, <3>1
    <3> QED BY <3>2 DEF Chained
  <2> QED BY <1>2, <1>3, <2>1, <2>2, <2>3
<1> QED BY <1>1, <1>3, <1>4, <1>5 DEF Chained

(* One part of one character *)
LEMMA ChainOne ==
    ASSUME NEW t \in Tokens, OpenIsArgs(t)
    PROVE  Chained(<<t>>) /\ Len(<<t>>) = 1 /\ <<t>>[1] = t
<1>1. PICK s : s = <<t>>
  OBVIOUS
<1>2. s \in Seq(Tokens) /\ Len(s) = 1 /\ s[1] = t
  BY <1>1
<1> QED BY <1>1, <1>2 DEF Chained

(* What is between the parts of a name is no character of theirs. *)
LEMMA BetweenFacts ==
    /\ "separator" \notin Characters /\ "open" \notin Characters /\ "_" \in Characters
    /\ {"separator", "open"} \intersect Digits = {} /\ Digits \subseteq Characters
  BY CharactersAssumption DEF Characters, Alphanumeric

(* The tokens of a name *)
LEMMA IdentifierFacts ==
    ASSUME NEW s \in Seq(Characters)
    PROVE  /\ Identifier(s) \in Seq(Tokens) /\ Len(Identifier(s)) = Len(s)
           /\ \A i \in 1..Len(s) :
                 /\ ~Identifier(s)[i].args /\ Identifier(s)[i].char # "open"
                 /\ s[i] = "." => Identifier(s)[i].char = "separator"
                 /\ s[i] # "." => Identifier(s)[i].char = s[i] /\ s[i] \notin {"separator", "open"}
<1>1. Len(s) \in Nat /\ \A i \in 1..Len(s) : s[i] \in Characters
  OBVIOUS
<1>2. PICK r : r = Identifier(s)
  OBVIOUS
<1>3. r = [i \in 1..Len(s) |-> Token(IF s[i] = "." THEN "separator" ELSE s[i], FALSE)]
  BY <1>2 DEF Identifier
<1>4. ASSUME NEW i \in 1..Len(s)
      PROVE  /\ r[i] \in Tokens /\ ~r[i].args /\ r[i].char # "open"
             /\ s[i] = "." => r[i].char = "separator"
             /\ s[i] # "." => r[i].char = s[i] /\ s[i] \notin {"separator", "open"}
  BY <1>1, <1>3, BetweenFacts DEF Token, Tokens
<1>5. r \in [1..Len(s) -> Tokens]
  BY <1>3, <1>4
<1>6. r \in Seq(Tokens) /\ Len(r) = Len(s)
  BY <1>1, <1>5
<1> QED BY <1>2, <1>4, <1>6

(* The arguments are one part. *)
LEMMA ArgumentsFacts ==
    ASSUME NEW s \in Seq(Characters)
    PROVE  Chained(Arguments(s)) /\ \A i \in 1..Len(Arguments(s)) :
               Arguments(s)[i].args /\ Arguments(s)[i].char # "open"
<1>1. Len(s) \in Nat /\ \A i \in 1..Len(s) : s[i] \in Characters
  OBVIOUS
<1>2. PICK r : r = Arguments(s)
  OBVIOUS
<1>3. r = [i \in 1..Len(s) |-> Token(IF s[i] = "/" THEN "separator" ELSE s[i], TRUE)]
  BY <1>2 DEF Arguments
<1>4. ASSUME NEW i \in 1..Len(s)
      PROVE  r[i] \in Tokens /\ r[i].args /\ r[i].char # "open"
  BY <1>1, <1>3, BetweenFacts DEF Token, Tokens
<1>5. r \in [1..Len(s) -> Tokens]
  BY <1>3, <1>4
<1>6. r \in Seq(Tokens) /\ Len(r) = Len(s)
  BY <1>1, <1>5
<1>7. \A k \in 1..Len(r) - 1 : k \in 1..Len(s) /\ k + 1 \in 1..Len(s)
  BY <1>1, <1>6
<1>8. \A k \in 1..Len(r) - 1 : Follow(r[k], r[k + 1])
  BY <1>4, <1>7 DEF Follow
<1>9. \A k \in 1..Len(r) : OpenIsArgs(r[k])
  BY <1>4, <1>6 DEF OpenIsArgs
<1> QED BY <1>2, <1>4, <1>6, <1>8, <1>9 DEF Chained

(* A namespace that is valid is one part, and does not end in a separator. *)
LEMMA NamespaceChained ==
    ASSUME NEW s \in Seq(Characters), ValidNamespace(s)
    PROVE  LET r == Identifier(s) IN
           Chained(r) /\ Len(r) \in Nat \ {0} /\ ~r[Len(r)].args /\ r[Len(r)].char # "separator"
<1>1. PICK r : r = Identifier(s)
  OBVIOUS
<1>2. /\ r \in Seq(Tokens) /\ Len(r) = Len(s) /\ Len(s) \in Nat
      /\ \A i \in 1..Len(s) :
            /\ ~r[i].args /\ r[i].char # "open"
            /\ s[i] = "." => r[i].char = "separator"
            /\ s[i] # "." => r[i].char = s[i] /\ s[i] \notin {"separator", "open"}
  BY <1>1, IdentifierFacts
<1>3. Len(s) \in 1..Len(s) /\ s[Len(s)] # "."
  <2>1. s # <<>> /\ s[Len(s)] # "."
    BY DEF ValidNamespace
  <2> QED BY <1>2, <2>1
<1>4. ASSUME NEW k \in 1..Len(r) - 1 PROVE Follow(r[k], r[k + 1])
  <2>1. k \in 1..Len(s) /\ k + 1 \in 1..Len(s) /\ k + 1 - 1 = k
    BY <1>2
  <2>2. s[k] = "." => s[k + 1] \notin Digits \union {"."}
    BY <2>1 DEF ValidNamespace
  <2>3. r[k].char = "separator" => s[k] = "."
    BY <1>2, <2>1
  <2> QED BY <1>2, <2>1, <2>2, <2>3 DEF Follow
<1>5. \A k \in 1..Len(r) : OpenIsArgs(r[k])
  BY <1>2 DEF OpenIsArgs
<1>6. Len(r) \in Nat \ {0}
  BY <1>2, <1>3
<1> QED BY <1>1, <1>2, <1>3, <1>4, <1>5, <1>6 DEF Chained

(* A Java name is one part; if it is legal it does not begin with a digit and has no separator. *)
LEMMA JavaNameChained ==
    ASSUME javaName \in Seq(Characters)
    PROVE  LET r == Identifier(javaName) IN
           /\ Chained(r) /\ Len(r) = Len(javaName)
           /\ \A i \in 1..Len(r) : ~r[i].args /\ r[i].char # "open"
           /\ JavaNameLegal => /\ Len(r) # 0 /\ r[1].char \notin Digits
                               /\ \A i \in 1..Len(r) : r[i].char # "separator"
<1>1. PICK r : r = Identifier(javaName)
  OBVIOUS
<1>2. /\ r \in Seq(Tokens) /\ Len(r) = Len(javaName) /\ Len(javaName) \in Nat
      /\ \A i \in 1..Len(javaName) :
            /\ ~r[i].args /\ r[i].char # "open"
            /\ javaName[i] # "." => r[i].char = javaName[i] /\ javaName[i] \notin {"separator", "open"}
  BY <1>1, IdentifierFacts
<1>3. ASSUME JavaNameLegal
      PROVE  /\ Len(r) # 0 /\ r[1].char \notin Digits
             /\ \A i \in 1..Len(r) : r[i].char # "separator"
  <2>1. \A i \in 1..Len(javaName) : javaName[i] # "."
    BY <1>3 DEF JavaNameLegal, CharsOf
  <2>2. javaName # <<>> /\ javaName[1] \notin Digits
    BY <1>3 DEF JavaNameLegal
  <2>3. 1 \in 1..Len(javaName)
    BY <1>2, <2>2
  <2> QED BY <1>2, <2>1, <2>2, <2>3
<1>4. ASSUME NEW k \in 1..Len(r) - 1 PROVE Follow(r[k], r[k + 1])
  <2>1. k \in 1..Len(r)
    BY <1>2
  <2> QED BY <1>2, <1>3, <2>1 DEF Follow
<1>5. \A k \in 1..Len(r) : OpenIsArgs(r[k])
  BY <1>2 DEF OpenIsArgs
<1> QED BY <1>1, <1>2, <1>3, <1>4, <1>5 DEF Chained

(* The last of two texts *)
LEMMA LastOfJoin ==
    ASSUME NEW S, NEW s \in Seq(S), NEW t \in Seq(S)
    PROVE  LET r == s \o t IN
           /\ Len(r) = Len(s) + Len(t)
           /\ Len(t) > 0 => r[Len(r)] = t[Len(t)]
           /\ Len(t) = 0 /\ Len(s) > 0 => r[Len(r)] = s[Len(s)]
<1>1. PICK r, n, l : r = s \o t /\ n = Len(s) /\ l = Len(t)
  OBVIOUS
<1>2. n \in Nat /\ l \in Nat
  BY <1>1
<1>3. Len(r) = n + l /\ \A i \in 1..n + l : r[i] = IF i <= n THEN s[i] ELSE t[i - n]
  BY <1>1, ConcatProperties
<1>4. ASSUME l > 0 PROVE r[n + l] = t[l]
  <2>1. PICK q : q = n + l
    OBVIOUS
  <2>2. q \in 1..n + l /\ ~(q <= n) /\ q - n = l
    BY <1>2, <1>4, <2>1
  <2>3. r[q] = IF q <= n THEN s[q] ELSE t[q - n]
    BY <1>3, <2>2
  <2> QED BY <2>1, <2>2, <2>3
<1>5. ASSUME l = 0, n > 0 PROVE r[n + l] = s[n]
  <2>1. n + l \in 1..n + l /\ n + l <= n /\ n + l = n
    BY <1>2, <1>5
  <2>2. r[n + l] = s[n + l]
    BY <1>3, <2>1
  <2> QED BY <2>1, <2>2
<1> QED BY <1>1, <1>3, <1>4, <1>5

(* What create_jni_fn_name mangles is a chain. *)
LEMMA AssembledChained ==
    ASSUME MangleTypes, ValidNamespace(item.attribute[1]), Len(item.attribute) \in 1..3, Assemble,
           source = <<>>
    PROVE  source' \in Seq(Tokens) /\ (stage' = "mangle" => Chained(source'))
<1>1. /\ item.attribute \in Seq(Seq(Characters)) /\ javaName \in Seq(Characters)
  BY DEF MangleTypes
<1>2. item.attribute[1] \in Seq(Characters)
  <2>1. 1 \in 1..Len(item.attribute)
    OBVIOUS
  <2> QED BY <1>1, <2>1
<1>3. PICK ns, nm, mid, op : /\ ns = Identifier(item.attribute[1]) /\ nm = Identifier(javaName)
                             /\ mid = <<Token("separator", FALSE)>> /\ op = <<Token("open", TRUE)>>
  OBVIOUS
<1>4. Chained(ns) /\ Len(ns) \in Nat \ {0} /\ ~ns[Len(ns)].args /\ ns[Len(ns)].char # "separator"
  BY <1>2, <1>3, NamespaceChained
<1>5. /\ Chained(nm) /\ Len(nm) = Len(javaName) /\ \A i \in 1..Len(nm) : ~nm[i].args /\ nm[i].char # "open"
      /\ JavaNameLegal => /\ Len(nm) # 0 /\ nm[1].char \notin Digits
                          /\ \A i \in 1..Len(nm) : nm[i].char # "separator"
  BY <1>1, <1>3, JavaNameChained
<1>6. /\ Token("separator", FALSE) \in Tokens /\ OpenIsArgs(Token("separator", FALSE))
      /\ Token("open", TRUE) \in Tokens /\ OpenIsArgs(Token("open", TRUE))
  BY DEF Token, Tokens, OpenIsArgs
<1>7. Chained(mid) /\ Len(mid) = 1 /\ mid[1] = Token("separator", FALSE)
  BY <1>3, <1>6, ChainOne
<1>8. Chained(op) /\ Len(op) = 1 /\ op[1] = Token("open", TRUE)
  BY <1>3, <1>6, ChainOne
<1>9. PICK front : front = ns \o mid
  OBVIOUS
<1>10. Chained(front)
  <2>1. Follow(ns[Len(ns)], mid[1])
    BY <1>4 DEF Follow
  <2> QED BY <1>4, <1>7, <1>9, <2>1, ChainJoin
<1>11. Len(front) = Len(ns) + 1 /\ front[Len(front)] = Token("separator", FALSE)
  <2>1. ns \in Seq(Tokens) /\ mid \in Seq(Tokens) /\ Len(mid) > 0
    BY <1>4, <1>7 DEF Chained
  <2>2. Len(front) = Len(ns) + Len(mid) /\ (Len(mid) > 0 => front[Len(front)] = mid[Len(mid)])
    BY <1>9, <2>1, LastOfJoin
  <2> QED BY <1>7, <2>1, <2>2
<1>12. PICK name : name = front \o nm
  OBVIOUS
<1>13. Chained(name)
  <2>1. ASSUME nm # <<>> PROVE Follow(Token("separator", FALSE), nm[1])
    <3>1. 1 \in 1..Len(nm)
      <4>1. nm \in Seq(Tokens)
        BY <1>5 DEF Chained
      <4> QED BY <2>1, <4>1
    <3> QED BY <1>5, <3>1 DEF Follow, Token
  <2> QED BY <1>5, <1>10, <1>11, <1>12, <2>1, ChainJoin
<1>14. ASSUME NEW args \in Seq(Characters)
       PROVE  Chained(name \o op \o Arguments(args))
  <2>1. name # <<>> => Follow(name[Len(name)], Token("open", TRUE))
    <3>1. /\ front \in Seq(Tokens) /\ nm \in Seq(Tokens) /\ Len(front) \in Nat /\ Len(nm) \in Nat
      BY <1>5, <1>10 DEF Chained
    <3>2. /\ Len(nm) > 0 => name[Len(name)] = nm[Len(nm)]
          /\ Len(nm) = 0 /\ Len(front) > 0 => name[Len(name)] = front[Len(front)]
      BY <1>12, <3>1, LastOfJoin
    <3>3. CASE Len(nm) = 0
      <4>1. Len(front) > 0
        BY <1>4, <1>11
      <4>2. name[Len(name)] = Token("separator", FALSE)
        BY <1>11, <3>2, <3>3, <4>1
      <4>3. ~JavaNameLegal
        BY <1>5, <3>3
      <4> QED BY <4>2, <4>3 DEF Follow, Token
    <3>4. CASE Len(nm) # 0
      <4>1. Len(nm) \in 1..Len(nm) /\ Len(nm) > 0
        BY <3>1, <3>4
      <4>2. name[Len(name)] = nm[Len(nm)]
        BY <3>2, <4>1
      <4> QED BY <1>5, <4>1, <4>2 DEF Follow
    <3> QED BY <3>3, <3>4
  <2>2. PICK opened : opened = name \o op
    OBVIOUS
  <2>3. Chained(opened)
    BY <1>8, <1>13, <2>1, <2>2, ChainJoin
  <2>4. opened[Len(opened)] = Token("open", TRUE)
    <3>1. name \in Seq(Tokens) /\ op \in Seq(Tokens) /\ Len(op) > 0
      BY <1>8, <1>13 DEF Chained
    <3>2. Len(op) > 0 => opened[Len(opened)] = op[Len(op)]
      BY <2>2, <3>1, LastOfJoin
    <3> QED BY <1>8, <3>1, <3>2
  <2>5. Chained(Arguments(args)) /\ \A i \in 1..Len(Arguments(args)) :
            Arguments(args)[i].args /\ Arguments(args)[i].char # "open"
    BY ArgumentsFacts
  <2>6. Arguments(args) # <<>> => Follow(Token("open", TRUE), Arguments(args)[1])
    <3>1. Arguments(args) # <<>> => 1 \in 1..Len(Arguments(args))
      <4>1. Arguments(args) \in Seq(Tokens)
        BY <2>5 DEF Chained
      <4> QED BY <4>1
    <3> QED BY <2>5, <3>1 DEF Follow, Token
  <2>7. Chained(opened \o Arguments(args))
    BY <2>3, <2>4, <2>5, <2>6, ChainJoin
  <2> QED BY <2>2, <2>7
<1>15. PICK sig : sig = Signature(item.attribute)
  OBVIOUS
<1>16. sig \in Seq(Characters)
  <2>1. \A i \in 1..Len(item.attribute) : item.attribute[i] \in Seq(Characters)
    BY <1>1
  <2>2. <<>> \in Seq(Characters)
    OBVIOUS
  <2> QED BY <1>15, <2>1, <2>2 DEF Signature
<1>17. \A i, j \in 1..Len(sig) : SubSeq(sig, i + 1, j - 1) \in Seq(Characters)
  <2>1. SUFFICES ASSUME NEW i \in 1..Len(sig), NEW j \in 1..Len(sig)
                 PROVE  SubSeq(sig, i + 1, j - 1) \in Seq(Characters)
    OBVIOUS
  <2>2. i + 1 \in Int /\ j - 1 \in Int /\ \A l \in (i + 1)..(j - 1) : l \in 1..Len(sig)
    BY <1>16
  <2>3. \A l \in (i + 1)..(j - 1) : sig[l] \in Characters
    BY <1>16, <2>2
  <2> QED BY <2>2, <2>3, SubSeqProperties
<1>18. \/ stage' = "mangle" /\ source' = name
       \/ stage' = "panicked" /\ source' = source
       \/ \E i, j \in 1..Len(sig) : source' = name \o op \o Arguments(SubSeq(sig, i + 1, j - 1))
  BY <1>3, <1>9, <1>12, <1>15 DEF Assemble
<1>19. source \in Seq(Tokens)
  BY DEF MangleTypes
<1>20. CASE stage' = "mangle" /\ source' = name
  BY <1>13, <1>20 DEF Chained
<1>21. CASE stage' = "panicked" /\ source' = source
  BY <1>19, <1>21
<1>22. ASSUME NEW i \in 1..Len(sig), NEW j \in 1..Len(sig),
              source' = name \o op \o Arguments(SubSeq(sig, i + 1, j - 1))
       PROVE  source' \in Seq(Tokens) /\ Chained(source')
  <2>1. Chained(source')
    BY <1>14, <1>17, <1>22
  <2> QED BY <2>1 DEF Chained
<1> QED BY <1>18, <1>20, <1>21, <1>22

(* What is said of the parts that are joined is what SourceInv says of the whole. *)
LEMMA ChainedSource ==
    ASSUME Chained(source)
    PROVE  SourceInv
<1>1. /\ source \in Seq(Tokens)
      /\ \A k \in 1..Len(source) : source[k].char = "open" => source[k].args
      /\ \A k \in 1..Len(source) - 1 : Follow(source[k], source[k + 1])
  BY DEF Chained, OpenIsArgs
<1> QED BY <1>1 DEF SourceInv, Follow

-------------------------------------------------------------------------------
(* Java names *)

(* A Rust name that is converted is not empty; one that is settled has underscores only at its end. *)
LEMMA NameFacts ==
    ASSUME NEW s \in Seq(Characters), ~KeptAsIs(s)
    PROVE  /\ Len(s) \in Nat \ {0}
           /\ Settled(s) => /\ s[1] # Underscore
                            /\ \A i \in 1..Len(s) : s[i] = Underscore => Trailing(s, i)
<1>1. Len(s) \in Nat /\ CharsOf(s) \intersect Uppers = {} /\ ~(CharsOf(s) \subseteq {Underscore})
  <2>1. CharsOf(s) \intersect Uppers = {} /\ ~(CharsOf(s) \subseteq {Underscore})
    BY DEF KeptAsIs, Underscore
  <2> QED BY <2>1
<1>2. PICK i \in 1..Len(s) : s[i] # Underscore
  BY <1>1 DEF CharsOf
<1>3. ASSUME Settled(s) PROVE \A j, k \in 1..Len(s) : j < k /\ s[j] = Underscore => s[k] = Underscore
  BY <1>1, <1>3 DEF Settled, Underscore
<1>4. Settled(s) => s[1] # Underscore
  <2>1. 1 \in 1..Len(s) /\ (i = 1 \/ 1 < i)
    BY <1>1, <1>2
  <2> QED BY <1>2, <1>3, <2>1
<1>5. ASSUME Settled(s), NEW j \in 1..Len(s), s[j] = Underscore PROVE Trailing(s, j)
  <2>1. ASSUME NEW k \in j..Len(s) PROVE s[k] = Underscore
    <3>1. k \in 1..Len(s) /\ (k = j \/ j < k)
      BY <1>1
    <3> QED BY <1>3, <1>5, <3>1
  <2> QED BY <2>1 DEF Trailing, Underscore
<1> QED BY <1>1, <1>2, <1>4, <1>5

Repeated(p, n) == [i \in 1..n |-> p]

(* A place repeated *)
LEMMA RepeatedFacts ==
    ASSUME NEW S, NEW p \in S, NEW n \in Nat
    PROVE  /\ Repeated(p, n) \in Seq(S) /\ Len(Repeated(p, n)) = n
           /\ \A i \in 1..n : Repeated(p, n)[i] = p
  BY DEF Repeated

(* A text and one appended to it, place by place *)
LEMMA JoinFacts ==
    ASSUME NEW S, NEW s \in Seq(S), NEW t \in Seq(S)
    PROVE  /\ s \o t \in Seq(S) /\ Len(s \o t) = Len(s) + Len(t)
           /\ \A j \in 1..Len(s) : (s \o t)[j] = s[j]
           /\ \A j \in 1..(Len(s) + Len(t)) :
                 j > Len(s) => j - Len(s) \in 1..Len(t) /\ (s \o t)[j] = t[j - Len(s)]
<1>1. Len(s) \in Nat /\ Len(t) \in Nat
  OBVIOUS
<1>2. /\ s \o t \in Seq(S) /\ Len(s \o t) = Len(s) + Len(t)
      /\ \A j \in 1..Len(s) + Len(t) : (s \o t)[j] = IF j <= Len(s) THEN s[j] ELSE t[j - Len(s)]
  BY ConcatProperties
<1>3. \A j \in 1..Len(s) : j \in 1..Len(s) + Len(t) /\ j <= Len(s)
  BY <1>1
<1>4. \A j \in 1..(Len(s) + Len(t)) : j > Len(s) => ~(j <= Len(s)) /\ j - Len(s) \in 1..Len(t)
  BY <1>1
<1> QED BY <1>2, <1>3, <1>4

(* What Push appends, and where it says that comes from *)
Pushed(text, n, l) ==
    /\ javaName' \in Seq(Characters) /\ origin' \in Seq(Places)
    /\ Len(origin') = n + l /\ Len(javaName') = n + l
    /\ \A j \in 1..n : javaName'[j] = javaName[j] /\ origin'[j] = origin[j]
    /\ \A j \in 1..(n + l) :
          j > n => origin'[j] = place /\ j - n \in 1..l /\ javaName'[j] = text[j - n]

LEMMA PushFacts ==
    ASSUME MangleTypes, OriginInv, NEW text \in Seq(Characters), Push(text),
           NEW n, n = Len(javaName), NEW l, l = Len(text)
    PROVE  Pushed(text, n, l)
<1>0. n \in Nat /\ l \in Nat
  BY DEF MangleTypes
<1>1. javaName \in Seq(Characters) /\ origin \in Seq(Places) /\ place \in Places
  BY DEF MangleTypes, Places
<1>2. Len(origin) = n
  BY DEF OriginInv
<1>3. PICK w : w = Repeated(place, l)
  OBVIOUS
<1>4. w \in Seq(Places) /\ Len(w) = l /\ \A i \in 1..l : w[i] = place
  BY <1>0, <1>1, <1>3, RepeatedFacts
<1>5. javaName' = javaName \o text /\ origin' = origin \o w
  BY <1>3 DEF Push, Repeated
<1>6. /\ javaName \o text \in Seq(Characters) /\ Len(javaName \o text) = n + l
      /\ \A j \in 1..n : (javaName \o text)[j] = javaName[j]
      /\ \A j \in 1..(n + l) : j > n => j - n \in 1..l /\ (javaName \o text)[j] = text[j - n]
  BY <1>1, JoinFacts
<1>7. /\ origin \o w \in Seq(Places) /\ Len(origin \o w) = n + l
      /\ \A j \in 1..n : (origin \o w)[j] = origin[j]
      /\ \A j \in 1..(n + l) : j > n => j - n \in 1..l /\ (origin \o w)[j] = w[j - n]
  <2>1. origin \in Seq(Places) /\ w \in Seq(Places)
    BY <1>1, <1>4
  <2>2. LET s == origin
            t == w IN
        /\ s \o t \in Seq(Places) /\ Len(s \o t) = Len(s) + Len(t)
        /\ \A j \in 1..Len(s) : (s \o t)[j] = s[j]
        /\ \A j \in 1..(Len(s) + Len(t)) :
              j > Len(s) => j - Len(s) \in 1..Len(t) /\ (s \o t)[j] = t[j - Len(s)]
    BY <2>1, JoinFacts
  <2> QED BY <1>2, <1>4, <2>2
<1>8. \A j \in 1..(n + l) : j > n => origin'[j] = place
  BY <1>4, <1>5, <1>7
<1> QED BY <1>5, <1>6, <1>7, <1>8 DEF Pushed

(* What is pushed comes from the character the loop is at. *)
LEMMA PushOrigin ==
    ASSUME MangleTypes, OriginInv, place <= Len(item.name), NEW text \in Seq(Characters),
           Push(text), place' = place + 1, item' = item,
           \A l \in 1..Len(text) : From(item.name[place], text[l]),
           item.name[place] # Underscore => Len(text) > 0
    PROVE  OriginInv' /\ javaName' \in Seq(Characters) /\ origin' \in Seq(Places)
<1>1. /\ javaName \in Seq(Characters) /\ origin \in Seq(Places) /\ item.name \in Seq(Characters)
      /\ place \in Nat /\ place # 0 /\ Len(text) \in Nat /\ Len(javaName) \in Nat
  BY DEF MangleTypes
<1>2. Len(origin) = Len(javaName)
  BY DEF OriginInv
<1>3. PICK n \in Nat : n = Len(javaName)
  BY <1>1
<1>4. PICK l \in Nat : l = Len(text)
  BY <1>1
<1>5. /\ javaName' \in Seq(Characters) /\ origin' \in Seq(Places)
      /\ Len(origin') = n + l /\ Len(javaName') = n + l
      /\ \A j \in 1..n : javaName'[j] = javaName[j] /\ origin'[j] = origin[j]
      /\ \A j \in 1..(n + l) : j > n => origin'[j] = place /\ j - n \in 1..l /\ javaName'[j] = text[j - n]
  <2>1. Pushed(text, n, l)
    BY <1>3, <1>4, PushFacts
  <2> QED BY <2>1 DEF Pushed
<1>6. ASSUME NEW j \in 1..(n + l) PROVE j \in 1..n \/ j > n
  OBVIOUS
<1>7. \A j \in 1..n : origin[j] \in 1..(place - 1) /\ From(item.name[origin[j]], javaName[j])
  BY <1>2, <1>3 DEF OriginInv
<1>8. ASSUME NEW j \in 1..(n + l) PROVE origin'[j] \in 1..place /\ From(item.name[origin'[j]], javaName'[j])
  <2>1. CASE j \in 1..n
    <3>1. origin[j] \in 1..place
      BY <1>1, <1>7, <2>1
    <3> QED BY <1>5, <1>7, <2>1, <3>1
  <2>2. CASE j > n
    <3>1. place \in 1..place
      BY <1>1
    <3> QED BY <1>4, <1>5, <2>2, <3>1
  <2> QED BY <1>6, <2>1, <2>2
<1>9. ASSUME NEW j \in 1..(n + l), NEW k \in 1..(n + l), j < k PROVE origin'[j] <= origin'[k]
  <2>1. CASE k > n
    <3>1. origin'[k] = place /\ origin'[j] \in 1..place
      BY <1>5, <1>8, <2>1
    <3> QED BY <1>1, <3>1
  <2>2. CASE ~(k > n)
    <3>1. j \in 1..n /\ k \in 1..n
      BY <1>9, <2>2
    <3>2. origin[j] <= origin[k]
      BY <1>2, <1>3, <1>9, <3>1 DEF OriginInv
    <3> QED BY <1>5, <3>1, <3>2
  <2> QED BY <2>1, <2>2
<1>10. ASSUME NEW i \in 1..place, item.name[i] # Underscore PROVE i \in CharsOf(origin')
  <2>1. CASE i = place
    <3>1. n + 1 \in 1..(n + l) /\ n + 1 > n
      BY <1>4, <1>10, <2>1
    <3>2. origin'[n + 1] = i
      BY <1>5, <2>1, <3>1
    <3> QED BY <1>5, <3>1, <3>2 DEF CharsOf
  <2>2. CASE i # place
    <3>1. i \in 1..(place - 1)
      BY <1>1, <2>2
    <3>2. PICK j \in 1..n : origin[j] = i
      BY <1>2, <1>3, <1>10, <3>1 DEF OriginInv, CharsOf
    <3>3. j \in 1..(n + l) /\ origin'[j] = i
      BY <1>5, <3>2
    <3> QED BY <1>5, <3>3 DEF CharsOf
  <2> QED BY <2>1, <2>2
<1>11. place' - 1 = place
  BY <1>1
<1> QED BY <1>5, <1>8, <1>9, <1>10, <1>11 DEF OriginInv

(* What is pushed has an underscore only if all that follow in the name are. *)
LEMMA PushUnderscore ==
    ASSUME MangleTypes, OriginInv, UnderscoreInv, place <= Len(item.name), NEW text \in Seq(Characters),
           Push(text), place' = place + 1, item' = item, item.name[1] # Underscore,
           IF item.name[place] = Underscore
           THEN Trailing(item.name, place) /\ \A l \in 1..Len(text) : text[l] = Underscore
           ELSE \A l \in 1..Len(text) : text[l] # Underscore
    PROVE  UnderscoreInv'
<1>1. /\ item.name \in Seq(Characters) /\ place \in Nat /\ place # 0
      /\ Len(text) \in Nat /\ Len(javaName) \in Nat
  BY DEF MangleTypes
<1>2. PICK n \in Nat : n = Len(javaName)
  BY <1>1
<1>3. PICK l \in Nat : l = Len(text)
  BY <1>1
<1>4. /\ Len(javaName') = n + l
      /\ \A j \in 1..n : javaName'[j] = javaName[j]
      /\ \A j \in 1..(n + l) : j > n => j - n \in 1..l /\ javaName'[j] = text[j - n]
  <2>1. Pushed(text, n, l)
    BY <1>2, <1>3, PushFacts
  <2> QED BY <2>1 DEF Pushed
<1>5. \A j \in 1..(n + l) : j \in 1..n \/ j > n
  OBVIOUS
<1>6. Trailing(item.name, place) => Trailing(item.name, place + 1) /\ item.name[place] = Underscore
  <2>1. place \in place..Len(item.name) /\ (place + 1)..Len(item.name) \subseteq place..Len(item.name)
    BY <1>1
  <2> QED BY <2>1 DEF Trailing, Underscore
<1>7. CASE item.name[place] # Underscore
  <2>1. \A j \in 1..n : javaName[j] # Underscore
    BY <1>2, <1>6, <1>7 DEF UnderscoreInv
  <2>2. \A j \in 1..(n + l) : javaName'[j] # Underscore
    BY <1>3, <1>4, <1>5, <1>7, <2>1
  <2> QED BY <1>4, <2>2 DEF UnderscoreInv
<1>8. CASE item.name[place] = Underscore
  <2>1. ASSUME NEW i \in 1..(n + l), NEW j \in 1..(n + l), i < j, javaName'[i] = Underscore
        PROVE  javaName'[j] = Underscore
    <3>1. CASE j > n
      BY <1>3, <1>4, <1>8, <3>1
    <3>2. CASE ~(j > n)
      <4>1. i \in 1..n /\ j \in 1..n
        BY <2>1, <3>2
      <4> QED BY <1>2, <1>4, <2>1, <4>1 DEF UnderscoreInv
    <3> QED BY <3>1, <3>2
  <2>2. Trailing(item.name, place')
    BY <1>6, <1>8
  <2> QED BY <1>4, <2>1, <2>2 DEF UnderscoreInv
<1> QED BY <1>7, <1>8

(* A place in the leading underscores of a name *)
LEMMA LeadingFacts ==
    ASSUME MangleTypes, place <= Len(item.name)
    PROVE  /\ Leading(item.name, place) => item.name[1] = Underscore /\ item.name[place] = Underscore
<1>1. 1 \in 1..place /\ place \in 1..place
  BY DEF MangleTypes
<1> QED BY <1>1 DEF Leading, Underscore

(* The texts that are pushed *)
LEMMA PushedTexts ==
    ASSUME NEW c \in Characters
    PROVE  /\ <<c>> \in Seq(Characters) /\ Len(<<c>>) = 1 /\ <<c>>[1] = c
           /\ \A d \in Characters : d = c => From(c, d)
           /\ c \in DOMAIN UpperOf =>
                 /\ UpperOf[c] \in Seq(Characters) /\ Len(UpperOf[c]) > 0 /\ c # Underscore
                 /\ \A l \in 1..Len(UpperOf[c]) : From(c, UpperOf[c][l]) /\ UpperOf[c][l] # Underscore
<1>1. <<c>> \in Seq(Characters) /\ Len(<<c>>) = 1 /\ <<c>>[1] = c
  OBVIOUS
<1>2. \A d \in Characters : d = c => From(c, d)
  BY DEF From
<1>3. ASSUME c \in DOMAIN UpperOf
      PROVE  /\ UpperOf[c] \in Seq(Characters) /\ Len(UpperOf[c]) > 0 /\ c # Underscore
             /\ \A l \in 1..Len(UpperOf[c]) : From(c, UpperOf[c][l]) /\ UpperOf[c][l] # Underscore
  <2>1. PICK S : S = Characters \ (Punctuation \union {Underscore})
    OBVIOUS
  <2>2. PICK u : u = UpperOf[c]
    OBVIOUS
  <2>3. u \in Seq(S) /\ u # <<>> /\ c # Underscore
    BY <1>3, <2>1, <2>2, CharactersAssumption DEF Underscore
  <2>4. S \subseteq Characters /\ \A d \in S : d # Underscore
    BY <2>1
  <2>5. u \in Seq(Characters)
    BY <2>3, <2>4, SeqMonotonic
  <2>6. Len(u) > 0 /\ \A l \in 1..Len(u) : u[l] \in S
    BY <2>3
  <2>7. \A l \in 1..Len(u) : From(c, u[l])
    BY <1>3, <2>2 DEF From, CharsOf
  <2> QED BY <2>2, <2>3, <2>4, <2>5, <2>6, <2>7
<1> QED BY <1>1, <1>2, <1>3

(* One character of snake_case_to_lower_camel_case, with what to_uppercase makes of it. *)
LEMMA CamelStepKeeps ==
    ASSUME MangleTypes, CamelInv, CamelStep
    PROVE  CamelInv' /\ javaName' \in Seq(Characters) /\ origin' \in Seq(Places) /\ capitalize' \in BOOLEAN
<1>1. /\ item.name \in Seq(Characters) /\ place \in Nat /\ place # 0 /\ capitalize \in BOOLEAN
      /\ javaName \in Seq(Characters) /\ origin \in Seq(Places)
  BY DEF MangleTypes
<1>2. /\ Derived(item.attribute) /\ ~KeptAsIs(item.name)
      /\ OriginInv /\ UnderscoreInv /\ SettledInv
  BY DEF CamelInv
<1>3. /\ place <= Len(item.name) /\ place' = place + 1 /\ item' = item
  BY DEF CamelStep
<1>4. PICK c \in Characters : c = item.name[place]
  <2>1. place \in 1..Len(item.name)
    BY <1>1, <1>3
  <2> QED BY <1>1, <2>1
<1>5. PICK n \in Nat : n = Len(javaName)
  BY <1>1
<1>6. place' <= Len(item'.name) + 1
  BY <1>1, <1>3
<1>7. SUFFICES /\ OriginInv' /\ UnderscoreInv' /\ SettledInv'
               /\ javaName' \in Seq(Characters) /\ origin' \in Seq(Places) /\ capitalize' \in BOOLEAN
  BY <1>2, <1>3, <1>6 DEF CamelInv
<1>8. Settled(item.name) => item.name[1] # Underscore /\ (c = Underscore => Trailing(item.name, place))
  <2>1. place \in 1..Len(item.name)
    BY <1>1, <1>3
  <2> QED BY <1>1, <1>2, <1>4, <2>1, NameFacts
(* A leading underscore *)
<1>9. CASE Leading(item.name, place)
  <2>1. item.name[1] = Underscore /\ c = Underscore
    BY <1>3, <1>4, <1>9, LeadingFacts
  <2>2. PICK text : text = IF place = 1 THEN <<>> ELSE <<c>>
    OBVIOUS
  <2>3. Push(text) /\ capitalize' = capitalize
    BY <1>9, <2>1, <2>2 DEF CamelStep, Underscore
  <2>4. /\ text \in Seq(Characters) /\ \A l \in 1..Len(text) : From(c, text[l])
    <3>1. CASE place = 1
      BY <2>2, <3>1
    <3>2. CASE place # 1
      BY <1>4, <2>2, <3>2, PushedTexts
    <3> QED BY <3>1, <3>2
  <2>5. OriginInv' /\ javaName' \in Seq(Characters) /\ origin' \in Seq(Places)
    BY <1>2, <1>3, <1>4, <2>1, <2>3, <2>4, PushOrigin
  <2>6. UnderscoreInv'
    BY <1>3, <2>1 DEF UnderscoreInv
  <2>7. SettledInv'
    BY <1>3, <1>8, <2>1 DEF SettledInv
  <2> QED BY <1>1, <2>3, <2>5, <2>6, <2>7
(* One between letters *)
<1>10. CASE ~Leading(item.name, place) /\ c = Underscore /\ ~Trailing(item.name, place)
  <2>1. capitalize' = TRUE /\ javaName' = javaName /\ origin' = origin
    BY <1>4, <1>10 DEF CamelStep, Underscore
  <2>2. OriginInv'
    <3>1. \A j \in 1..Len(origin) : origin[j] \in 1..(place' - 1)
      <4>1. \A i \in 1..(place - 1) : i \in 1..(place' - 1)
        BY <1>1, <1>3
      <4> QED BY <1>2, <4>1 DEF OriginInv
    <3>2. \A i \in 1..(place' - 1) : item.name[i] # Underscore => i \in CharsOf(origin)
      <4>1. \A i \in 1..(place' - 1) : i = place \/ i \in 1..(place - 1)
        BY <1>1, <1>3
      <4> QED BY <1>2, <1>4, <1>10, <4>1 DEF OriginInv
    <3> QED BY <1>2, <1>3, <2>1, <3>1, <3>2 DEF OriginInv
  <2>3. UnderscoreInv'
    <3>1. Trailing(item.name, place) => Trailing(item.name, place')
      BY <1>10
    <3> QED BY <1>2, <1>3, <2>1, <3>1 DEF UnderscoreInv
  <2>4. SettledInv'
    BY <1>3, <1>8, <1>10 DEF SettledInv
  <2> QED BY <1>1, <2>1, <2>2, <2>3, <2>4
(* A letter to be capitalized *)
<1>11. CASE /\ ~Leading(item.name, place) /\ ~(c = Underscore /\ ~Trailing(item.name, place))
            /\ capitalize /\ c \notin Digits \union {Underscore}
  <2>1. PICK text : text = IF c \in DOMAIN UpperOf THEN UpperOf[c] ELSE <<c>>
    OBVIOUS
  <2>2. Push(text) /\ capitalize' = FALSE
    BY <1>4, <1>11, <2>1 DEF CamelStep, Underscore
  <2>3. /\ text \in Seq(Characters) /\ Len(text) > 0
        /\ \A l \in 1..Len(text) : From(c, text[l]) /\ text[l] # Underscore
    <3>1. CASE c \in DOMAIN UpperOf
      BY <2>1, <3>1, PushedTexts
    <3>2. CASE c \notin DOMAIN UpperOf
      BY <1>11, <2>1, <3>2, PushedTexts
    <3> QED BY <3>1, <3>2
  <2>4. OriginInv' /\ javaName' \in Seq(Characters) /\ origin' \in Seq(Places)
    BY <1>2, <1>3, <1>4, <2>2, <2>3, PushOrigin
  <2>5. UnderscoreInv'
    <3>1. CASE item.name[1] = Underscore
      BY <1>3, <3>1 DEF UnderscoreInv
    <3>2. CASE item.name[1] # Underscore
      BY <1>2, <1>3, <1>4, <1>11, <2>2, <2>3, <3>2, PushUnderscore
    <3> QED BY <3>1, <3>2
  <2>6. SettledInv'
    BY <1>2, <1>3, <1>11 DEF SettledInv
  <2> QED BY <2>2, <2>4, <2>5, <2>6
(* Anything else *)
<1>12. CASE /\ ~Leading(item.name, place) /\ ~(c = Underscore /\ ~Trailing(item.name, place))
            /\ ~(capitalize /\ c \notin Digits \union {Underscore})
  <2>1. PICK text : text = <<c>>
    OBVIOUS
  <2>2. Push(text) /\ capitalize' = capitalize
    BY <1>4, <1>12, <2>1 DEF CamelStep, Underscore
  <2>3. text \in Seq(Characters) /\ Len(text) = 1 /\ \A l \in 1..Len(text) : text[l] = c /\ From(c, text[l])
    BY <2>1, PushedTexts
  <2>4. OriginInv' /\ javaName' \in Seq(Characters) /\ origin' \in Seq(Places)
    <3>1. Len(text) > 0 /\ \A l \in 1..Len(text) : From(item.name[place], text[l])
      BY <1>4, <2>3
    <3> QED BY <1>2, <1>3, <2>2, <2>3, <3>1, PushOrigin
  <2>5. UnderscoreInv'
    <3>1. CASE item.name[1] = Underscore
      BY <1>3, <3>1 DEF UnderscoreInv
    <3>2. CASE item.name[1] # Underscore
      BY <1>2, <1>3, <1>4, <1>12, <2>2, <2>3, <3>2, PushUnderscore
    <3> QED BY <3>1, <3>2
  <2>6. SettledInv'
    <3>1. ASSUME Settled(item.name)
          PROVE  /\ ~capitalize' /\ Len(javaName') = place
                 /\ \A j \in 1..place : javaName'[j] = item.name[j]
      <4>1. ~capitalize /\ n = place - 1 /\ \A j \in 1..(place - 1) : javaName[j] = item.name[j]
        BY <1>2, <1>5, <3>1 DEF SettledInv
      <4>2. /\ Len(javaName') = n + 1
            /\ \A j \in 1..n : javaName'[j] = javaName[j]
            /\ \A j \in 1..(n + 1) : j > n => j - n \in 1..1 /\ javaName'[j] = text[j - n]
        <5>1. PICK l \in Nat : l = Len(text)
          BY <2>3
        <5>2. /\ Len(javaName') = n + l
              /\ \A j \in 1..n : javaName'[j] = javaName[j]
              /\ \A j \in 1..(n + l) : j > n => j - n \in 1..l /\ javaName'[j] = text[j - n]
          <6>1. OriginInv /\ text \in Seq(Characters) /\ Push(text)
            BY <1>2, <2>2, <2>3
          <6>2. Pushed(text, n, l)
            BY <1>5, <5>1, <6>1, PushFacts
          <6> QED BY <6>2 DEF Pushed
        <5>3. l = 1
          BY <2>3, <5>1
        <5> QED BY <5>2, <5>3
      <4>3. n + 1 = place
        BY <1>1, <4>1
      <4>4. ASSUME NEW j \in 1..place PROVE javaName'[j] = item.name[j]
        <5>1. CASE j = place
          <6>1. j \in 1..(n + 1) /\ j > n
            BY <4>3, <5>1
          <6> QED BY <1>4, <2>3, <4>2, <5>1, <6>1
        <5>2. CASE j # place
          <6>1. j \in 1..(place - 1)
            BY <1>1, <5>2
          <6> QED BY <4>1, <4>2, <6>1
        <5> QED BY <5>1, <5>2
      <4> QED BY <2>2, <4>1, <4>2, <4>3, <4>4
    <3>2. place' - 1 = place
      BY <1>1, <1>3
    <3> QED BY <1>3, <3>1, <3>2 DEF SettledInv
  <2> QED BY <1>1, <2>2, <2>4, <2>5, <2>6
<1> QED BY <1>9, <1>10, <1>11, <1>12

(* The name the conversion ends with is what NamesRight says. *)
LEMMA CamelEndKeeps ==
    ASSUME MangleTypes, CamelInv, place > Len(item.name)
    PROVE  NameInv
<1>1. /\ item.name \in Seq(Characters) /\ place \in Nat /\ place # 0 /\ javaName \in Seq(Characters)
      /\ Len(item.name) \in Nat
  BY DEF MangleTypes
<1>2. /\ OriginInv /\ UnderscoreInv /\ SettledInv /\ ~KeptAsIs(item.name)
      /\ place - 1 = Len(item.name)
  BY <1>1 DEF CamelInv
<1>3. LettersKept
  <2>1. \A i \in 1..Len(item.name) : item.name[i] # "_" => i \in CharsOf(origin)
    BY <1>2 DEF OriginInv, Underscore
  <2>2. \A j \in 1..Len(origin) :
          LET c == item.name[origin[j]] IN
          javaName[j] = c \/ (c \in DOMAIN UpperOf /\ javaName[j] \in CharsOf(UpperOf[c]))
    BY <1>2 DEF OriginInv, From
  <2>3. /\ Len(origin) = Len(javaName)
        /\ \A j, k \in 1..Len(origin) : j < k => origin[j] <= origin[k]
    BY <1>2 DEF OriginInv
  <2> QED BY <2>1, <2>2, <2>3 DEF LettersKept
<1>4. ASSUME item.name[1] # "_" PROVE Settled(javaName)
  <2>1. \A i, j \in 1..Len(javaName) : i < j /\ javaName[i] = "_" => javaName[j] = "_"
    BY <1>2, <1>4 DEF UnderscoreInv, Underscore
  <2> QED BY <2>1 DEF Settled
<1>5. ASSUME Settled(item.name) PROVE javaName = item.name
  <2>1. Len(javaName) = Len(item.name) /\ \A j \in 1..Len(item.name) : javaName[j] = item.name[j]
    BY <1>2, <1>5 DEF SettledInv
  <2> QED BY <1>1, <2>1, SeqEqual
<1> QED BY <1>3, <1>4, <1>5 DEF NameInv

(* A name that is kept as it is *)
LEMMA KeptName ==
    ASSUME item.name \in Seq(Characters), KeptAsIs(item.name), item' = item, javaName' = item.name,
           origin' = [i \in 1..Len(item.name) |-> i]
    PROVE  NameInv' /\ origin' \in Seq(Places)
<1>1. PICK s : s = item.name
  OBVIOUS
<1>2. s \in Seq(Characters) /\ Len(s) \in Nat /\ origin' = [i \in 1..Len(s) |-> i]
  BY <1>1
<1>3. /\ origin' \in [1..Len(s) -> Places] /\ \A i \in 1..Len(s) : origin'[i] = i
  BY <1>2 DEF Places
<1>4. origin' \in Seq(Places) /\ Len(origin') = Len(s)
  BY <1>2, <1>3
<1>5. LettersKept'
  <2>1. \A i \in 1..Len(s) : i \in CharsOf(origin')
    BY <1>3, <1>4 DEF CharsOf
  <2>2. \A j, k \in 1..Len(origin') : j < k => origin'[j] <= origin'[k]
    BY <1>2, <1>3, <1>4
  <2> QED BY <1>1, <1>3, <1>4, <2>1, <2>2 DEF LettersKept
<1>6. ASSUME s # <<>>, s[1] # "_" PROVE Settled(s)
  <2>1. 1 \in 1..Len(s)
    <3>1. s # <<>>
      BY <1>6
    <3> QED BY <1>2, <3>1
  <2>2. ~(CharsOf(s) \subseteq {"_"})
    BY <1>6, <2>1 DEF CharsOf
  <2>3. CharsOf(s) \intersect Uppers # {}
    BY <1>1, <2>2 DEF KeptAsIs
  <2> QED BY <2>3 DEF Settled
<1> QED BY <1>1, <1>4, <1>5, <1>6 DEF NameInv

(* The attribute is read, and the Java name is given or has to be made. *)
LEMMA ParseKeeps ==
    ASSUME MangleInv, ParseAttribute
    PROVE  MangleInv'
<1>1. /\ item.attribute \in Seq(Seq(Characters)) /\ item.name \in Seq(Characters)
      /\ place = 1 /\ ~capitalize /\ capitalize \in BOOLEAN /\ javaName = <<>> /\ origin = <<>>
      /\ source = <<>> /\ symbol = <<>> /\ begins = <<>>
  BY DEF MangleInv, MangleTypes, ParseAttribute
<1>2. item' = item /\ place' = place /\ capitalize' = capitalize /\ source' = source /\ symbol' = symbol
      /\ begins' = begins
  BY DEF ParseAttribute
<1>3. /\ <<>> \in Seq(Tokens) /\ <<>> \in Seq(SymbolChars) /\ <<>> \in Seq(Nat)
      /\ <<>> \in Seq(Characters) /\ <<>> \in Seq(Places) /\ Len(<<>>) = 0
  OBVIOUS
<1>4. CASE stage' = "refused" /\ javaName' = javaName /\ origin' = origin
  BY <1>1, <1>2, <1>3, <1>4 DEF MangleInv, MangleTypes
<1>5. ASSUME Len(item.attribute) \in 1..3, ValidNamespace(item.attribute[1]), ~Derived(item.attribute),
             stage' = "name", javaName' = item.attribute[2], origin' = origin
      PROVE  MangleInv'
  <2>1. 2 \in 1..Len(item.attribute)
    BY <1>5 DEF Derived
  <2>2. javaName' \in Seq(Characters)
    BY <1>1, <1>5, <2>1
  <2>3. NameInv'
    BY <1>2, <1>5 DEF NameInv
  <2> QED BY <1>1, <1>2, <1>3, <1>5, <2>2, <2>3 DEF MangleInv, MangleTypes
<1>6. ASSUME Len(item.attribute) \in 1..3, ValidNamespace(item.attribute[1]), KeptAsIs(item.name),
             stage' = "name", javaName' = item.name, origin' = [i \in 1..Len(item.name) |-> i]
      PROVE  MangleInv'
  <2>1. NameInv' /\ origin' \in Seq(Places)
    BY <1>1, <1>2, <1>6, KeptName
  <2> QED BY <1>1, <1>2, <1>3, <1>6, <2>1 DEF MangleInv, MangleTypes
<1>7. ASSUME Len(item.attribute) \in 1..3, ValidNamespace(item.attribute[1]), Derived(item.attribute),
             ~KeptAsIs(item.name), stage' = "camel", javaName' = javaName, origin' = origin
      PROVE  MangleInv'
  <2>1. Len(item.name) \in Nat
    BY <1>1
  <2>2. OriginInv' /\ UnderscoreInv' /\ SettledInv'
    BY <1>1, <1>2, <1>3, <1>7 DEF OriginInv, UnderscoreInv, SettledInv
  <2>3. CamelInv'
    BY <1>1, <1>2, <1>7, <2>1, <2>2 DEF CamelInv
  <2> QED BY <1>1, <1>2, <1>3, <1>7, <2>3 DEF MangleInv, MangleTypes
<1> QED BY <1>4, <1>5, <1>6, <1>7 DEF ParseAttribute

(* The Java name is made, and the conversion ends with the name. *)
LEMMA CamelKeeps ==
    ASSUME MangleInv, CamelStep \/ CamelEnd
    PROVE  MangleInv'
<1>1. /\ MangleTypes /\ CamelInv /\ stage = "camel"
      /\ source = <<>> /\ symbol = <<>> /\ begins = <<>>
      /\ Len(item.attribute) \in 1..3 /\ ValidNamespace(item.attribute[1])
  BY DEF MangleInv, CamelStep, CamelEnd
<1>2. CASE CamelStep
  <2>1. /\ CamelInv' /\ javaName' \in Seq(Characters) /\ origin' \in Seq(Places) /\ capitalize' \in BOOLEAN
    BY <1>1, <1>2, CamelStepKeeps
  <2>2. /\ item' = item /\ stage' = stage /\ source' = source /\ symbol' = symbol /\ begins' = begins
        /\ place' = place + 1
    BY <1>2 DEF CamelStep
  <2>3. place' \in Nat \ {0}
    BY <1>1, <2>2 DEF MangleTypes
  <2>4. MangleTypes'
    BY <1>1, <2>1, <2>2, <2>3 DEF MangleTypes
  <2> QED BY <1>1, <2>1, <2>2, <2>4 DEF MangleInv
<1>3. CASE CamelEnd
  <2>1. /\ item' = item /\ stage' = "name" /\ place' = 1 /\ source' = source /\ symbol' = symbol
        /\ begins' = begins /\ capitalize' = capitalize /\ javaName' = javaName /\ origin' = origin
        /\ place > Len(item.name)
    BY <1>3 DEF CamelEnd
  <2>2. NameInv
    BY <1>1, <2>1, CamelEndKeeps
  <2>3. NameInv'
    BY <2>1, <2>2 DEF NameInv, LettersKept
  <2>4. MangleTypes'
    BY <1>1, <2>1 DEF MangleTypes
  <2> QED BY <1>1, <2>1, <2>3, <2>4 DEF MangleInv
<1> QED BY <1>2, <1>3

(* The parts are put together. *)
LEMMA AssembleKeeps ==
    ASSUME MangleInv, Assemble
    PROVE  MangleInv'
<1>1. /\ MangleTypes /\ stage = "name" /\ place = 1 /\ NameInv
      /\ source = <<>> /\ symbol = <<>> /\ begins = <<>>
      /\ Len(item.attribute) \in 1..3 /\ ValidNamespace(item.attribute[1])
  BY DEF MangleInv, Assemble
<1>2. /\ item' = item /\ place' = place /\ capitalize' = capitalize /\ javaName' = javaName
      /\ origin' = origin /\ symbol' = symbol /\ begins' = begins /\ stage' \in {"mangle", "panicked"}
  BY DEF Assemble
<1>3. source' \in Seq(Tokens) /\ (stage' = "mangle" => Chained(source'))
  BY <1>1, AssembledChained
<1>4. MangleTypes'
  BY <1>1, <1>2, <1>3 DEF MangleTypes
<1>5. NameInv'
  BY <1>1, <1>2 DEF NameInv, LettersKept
<1>6. ASSUME stage' = "mangle" PROVE SourceInv'
  <2>1. JavaNameLegal' <=> JavaNameLegal
    BY <1>2 DEF JavaNameLegal
  <2>2. /\ \A k \in 1..Len(source') : source'[k].char = "open" => source'[k].args
        /\ \A k \in 1..Len(source') - 1 : Follow(source'[k], source'[k + 1])
    BY <1>3, <1>6 DEF Chained, OpenIsArgs
  <2> QED BY <2>1, <2>2 DEF SourceInv, Follow
<1>7. SymbolInv'
  <2>1. Len(source') \in Nat /\ Len(<<>>) = 0
    BY <1>3
  <2> QED BY <1>1, <1>2, <2>1 DEF SymbolInv
<1> QED BY <1>2, <1>4, <1>5, <1>6, <1>7 DEF MangleInv

(* The symbol is written and exported, or refused. *)
LEMMA MangleStepKeeps ==
    ASSUME MangleInv, MangleStep \/ Export
    PROVE  MangleInv'
<1>1. MangleTypes /\ stage = "mangle" /\ NameInv /\ SourceInv /\ SymbolInv
  BY DEF MangleInv, MangleStep, Export
<1>2. CASE MangleStep
  <2>1. SymbolInv' /\ symbol' \in Seq(SymbolChars) /\ begins' \in Seq(Nat)
    BY <1>1, <1>2, SymbolStep
  <2>2. /\ item' = item /\ stage' = stage /\ capitalize' = capitalize /\ javaName' = javaName
        /\ origin' = origin /\ source' = source /\ place' \in Nat \ {0}
    BY <1>1, <1>2 DEF MangleStep, MangleTypes
  <2>3. MangleTypes'
    BY <1>1, <2>1, <2>2 DEF MangleTypes
  <2>4. NameInv' /\ SourceInv'
    BY <1>1, <2>2 DEF NameInv, LettersKept, SourceInv, JavaNameLegal
  <2> QED BY <1>1, <2>1, <2>2, <2>3, <2>4 DEF MangleInv
<1>3. CASE Export
  <2>1. /\ stage' \in {"exported", "refused"} /\ item' = item /\ place' = place /\ capitalize' = capitalize
        /\ javaName' = javaName /\ origin' = origin /\ source' = source /\ symbol' = symbol
        /\ begins' = begins /\ place > Len(source)
    BY <1>3 DEF Export
  <2>2. Len(begins') = Len(source')
    <3>1. Len(begins) = place - 1 /\ Len(begins) <= Len(source)
      BY <1>1 DEF SymbolInv
    <3>2. place \in Nat /\ Len(source) \in Nat
      BY <1>1 DEF MangleTypes
    <3> QED BY <2>1, <3>1, <3>2
  <2>3. MangleTypes'
    BY <1>1, <2>1 DEF MangleTypes
  <2>4. NameInv' /\ SourceInv' /\ SymbolInv'
    BY <1>1, <2>1 DEF NameInv, LettersKept, SourceInv, JavaNameLegal, SymbolInv
  <2> QED BY <2>1, <2>2, <2>3, <2>4 DEF MangleInv
<1> QED BY <1>2, <1>3

(* The inductive invariant of jni_mangle: whatever attribute and function name it is given, the Java
   name comes from the Rust name in order and whole, and each character of the symbol stands where
   the last one ends. *)
THEOREM ManglingInvariant == MangleSpec => []MangleInv
<1>1. InitMangle => MangleInv
  <2>1. SUFFICES ASSUME InitMangle PROVE MangleInv
    OBVIOUS
  <2>2. item.attribute \in Seq(Seq(Characters)) /\ item.name \in Seq(Characters)
    BY <2>1, ItemsAssumption DEF InitMangle
  <2>3. /\ <<>> \in Seq(Tokens) /\ <<>> \in Seq(SymbolChars) /\ <<>> \in Seq(Nat)
        /\ <<>> \in Seq(Characters) /\ <<>> \in Seq(Places) /\ Len(<<>>) = 0
    OBVIOUS
  <2>4. MangleTypes
    <3>1. /\ place = 1 /\ capitalize = FALSE /\ javaName = <<>> /\ origin = <<>>
          /\ source = <<>> /\ symbol = <<>> /\ begins = <<>>
      BY <2>1 DEF InitMangle
    <3>2. place \in Nat \ {0}
      <4>1. place = 1
        BY <3>1
      <4> QED BY <4>1
    <3>3. capitalize \in BOOLEAN
      BY <3>1, Zenon
    <3> QED BY <2>2, <2>3, <3>1, <3>2, <3>3 DEF MangleTypes
  <2> QED BY <2>1, <2>4 DEF InitMangle, MangleInv
<1>2. MangleInv /\ [MangleNext]_mangleVars => MangleInv'
  <2>1. SUFFICES ASSUME MangleInv, [MangleNext]_mangleVars PROVE MangleInv'
    OBVIOUS
  <2>2. CASE ParseAttribute
    BY <2>1, <2>2, ParseKeeps
  <2>3. CASE CamelStep \/ CamelEnd
    BY <2>1, <2>3, CamelKeeps
  <2>4. CASE Assemble
    BY <2>1, <2>4, AssembleKeeps
  <2>5. CASE MangleStep \/ Export
    BY <2>1, <2>5, MangleStepKeeps
  <2>6. CASE UNCHANGED mangleVars
    <3>1. /\ item' = item /\ stage' = stage /\ place' = place /\ capitalize' = capitalize
          /\ javaName' = javaName /\ origin' = origin /\ source' = source /\ symbol' = symbol
          /\ begins' = begins
      BY <2>6 DEF mangleVars
    <3>2. MangleTypes' <=> MangleTypes
      BY <3>1 DEF MangleTypes
    <3>3. CamelInv' <=> CamelInv
      <4>1. OriginInv' <=> OriginInv
        BY <3>1 DEF OriginInv
      <4>2. UnderscoreInv' <=> UnderscoreInv
        BY <3>1 DEF UnderscoreInv
      <4>3. SettledInv' <=> SettledInv
        BY <3>1 DEF SettledInv
      <4> QED BY <3>1, <4>1, <4>2, <4>3 DEF CamelInv
    <3>4. NameInv' <=> NameInv
      BY <3>1 DEF NameInv, LettersKept
    <3>5. SourceInv' <=> SourceInv
      BY <3>1 DEF SourceInv, JavaNameLegal
    <3>6. SymbolInv' <=> SymbolInv
      BY <3>1 DEF SymbolInv
    <3> QED BY <2>1, <3>1, <3>2, <3>3, <3>4, <3>5, <3>6 DEF MangleInv
  <2> QED BY <2>1, <2>2, <2>3, <2>4, <2>5, <2>6 DEF MangleNext
<1> QED BY <1>1, <1>2, PTL DEF MangleSpec

(* The name under which jni_mangle exports a method is read back as its class, its name and its
   arguments, so that no two methods have the same, if the name is legal in Java and its escaped
   characters have four digits (mangle.rs writes one more for those beyond U+FFFF); and the Java name that is made of a Rust name
   keeps its letters, and is the Rust name if that is in camel case already. *)
THEOREM NamesAreRight == MangleSpec => []NamesRight
<1>1. MangleInv => NamesRight
  <2>1. SUFFICES ASSUME MangleInv PROVE NamesRight
    OBVIOUS
  <2>2. ASSUME stage \in {"mangle", "exported"}, LegalMethod, FourDigits
        PROVE  /\ begins # <<>> => begins[1] = 1
               /\ \A k \in 1..Len(begins) :
                     ReadAt(symbol, begins[k]) =
                         [char |-> source[k].char,
                          next |-> IF k < Len(begins) THEN begins[k + 1] ELSE Len(symbol) + 1]
    <3>1. MangleTypes /\ SourceInv /\ SymbolInv
      BY <2>1, <2>2 DEF MangleInv
    <3>2. begins # <<>> => begins[1] = 1
      BY <3>1 DEF SymbolInv
    <3>3. \A k \in 1..Len(begins) : ReadAt(symbol, begins[k]) = [char |-> source[k].char, next |-> NextOf(k)]
      BY <2>2, <3>1, ReadBack
    <3> QED BY <3>2, <3>3 DEF NextOf
  <2>3. stage = "exported" => Len(begins) = Len(source)
    BY <2>1 DEF MangleInv
  <2>4. stage \in {"name", "mangle", "exported"} => NameInv
    BY <2>1 DEF MangleInv
  <2> QED BY <2>2, <2>3, <2>4 DEF NamesRight, NameInv
<1> QED BY <1>1, ManglingInvariant, PTL
================================================================================
