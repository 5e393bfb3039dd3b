---------------------------- MODULE VmStartupProofs ----------------------------
(***************************************************************************)
(* Proofs about VmStartup, for any number of threads: the singleton is     *)
(* there for every guard that is not made under a pending exception, the   *)
(* library of the running VM stays loaded unless its creator could not be  *)
(* attached, and nobody waits in a circle.                                 *)
(***************************************************************************)
EXTENDS VmStartup, FiniteSetTheorems, TLAPS

USE VmStartupAssumption

(* TypeOK without the bound on handles, which needs the whole invariant *)
Types ==
    /\ vm \in {"none", "host", "embedded", "abandoned"}
    /\ handles \in Nat
    /\ singleton \in BOOLEAN
    /\ initialising \in Threads \union {Nobody}
    /\ guard \in [Threads -> BOOLEAN]
    /\ exception \in [Threads -> BOOLEAN]
    /\ attached \subseteq Threads
    /\ pc \in [Threads -> Steps]

(* A thread that has its guard and is past the search for the singleton *)
Entered(t) == guard[t] /\ pc[t] \notin {"enter_vm", "enter_from_raw", "enter_init"}

(* Whoever has a guard, or an exception from code under one, finds the singleton. *)
EntryInv == ~PendingEntry => \A t \in Threads : Entered(t) \/ exception[t] => singleton

(* Only one attempt has created the VM. *)
CreatorInv ==
    /\ \A t, u \in Creating : t = u
    /\ Creating # {} => vm = "embedded"

IInv == Types /\ EntryInv /\ CreatorInv /\ LibraryStaysLoaded

-------------------------------------------------------------------------------
(* The threads that start a VM are finite in number. *)
LEMMA StartingFinite ==
    ASSUME Types
    PROVE  IsFiniteSet(Starting) /\ Cardinality(Starting) \in Nat
BY FS_Subset, FS_CardinalityType DEF Starting

(* The invariant holds at first. *)
LEMMA InitInv == Init => IInv
<1> SUFFICES ASSUME Init PROVE IInv
  OBVIOUS
<1>1. Types
  BY DEF Init, Types, Steps
<1>2. EntryInv
  BY DEF Init, EntryInv, Entered
<1>3. Starting = {} /\ Creating = {}
  BY DEF Init, Starting, Creating
<1>4. CreatorInv /\ LibraryStaysLoaded
  BY <1>3, FS_EmptySet DEF Init, CreatorInv, LibraryStaysLoaded
<1> QED
  BY <1>1, <1>2, <1>4 DEF IInv

(* Every step keeps the types; a handle that is closed was open. *)
LEMMA NextTypes == IInv /\ [Next]_vars => Types'
<1> SUFFICES ASSUME IInv, [Next]_vars PROVE Types'
  OBVIOUS
<1> USE DEF IInv, Types, Steps, At, Goto
<1>1. CASE UNCHANGED vars
  BY <1>1 DEF vars
<1>2. CASE Next
  <2> SUFFICES ASSUME NEW t \in Threads, Step(t) \/ StartVm(t) \/ EnterVm(t) \/ NestGuard(t)
                          \/ Throw(t) \/ ExceptionClear(t) \/ DropGuard(t)
               PROVE  Types'
    BY <1>2 DEF Next
  <2>1. CASE KeepOrDropLibrary(t)
    <3>1. t \in Starting
      BY <2>1 DEF KeepOrDropLibrary, Starting
    <3>2. Cardinality(Starting) # 0
      BY <3>1, StartingFinite, FS_EmptySet
    <3>3. handles - 1 \in Nat
      BY <3>2, StartingFinite DEF LibraryStaysLoaded
    <3> QED
      BY <2>1, <3>3 DEF KeepOrDropLibrary
  <2>2. CASE LoadLibrary(t)
    BY <2>2 DEF LoadLibrary
  <2>3. CASE FromRaw(t, "start_from_raw", "start_init", "start_attach")
             \/ FromRaw(t, "enter_from_raw", "enter_init", "idle")
    BY <2>3 DEF FromRaw
  <2>4. CASE SetSingleton(t, "start_init", "start_attach") \/ SetSingleton(t, "enter_init", "idle")
    BY <2>4 DEF SetSingleton
  <2>5. CASE FindSymbol(t) \/ CreateVm(t) \/ AttachCreator(t) \/ GetJavaVm(t)
    BY <2>5 DEF FindSymbol, CreateVm, AttachCreator, GetJavaVm
  <2>6. CASE StartVm(t) \/ EnterVm(t) \/ NestGuard(t) \/ Throw(t) \/ ExceptionClear(t) \/ DropGuard(t)
    <3>1. /\ vm' \in {"none", "host", "embedded", "abandoned"} /\ handles' \in Nat
          /\ initialising' \in Threads \union {Nobody} /\ attached' \subseteq Threads
          /\ pc' \in [Threads -> Steps]
      BY <2>6 DEF StartVm, EnterVm, NestGuard, Throw, ExceptionClear, DropGuard
    <3>2. singleton' \in BOOLEAN
      BY <2>6 DEF StartVm, EnterVm, NestGuard, Throw, ExceptionClear, DropGuard
    <3>3. \E b \in BOOLEAN : guard' = guard \/ guard' = [guard EXCEPT ![t] = b]
      BY <2>6 DEF StartVm, EnterVm, NestGuard, Throw, ExceptionClear, DropGuard
    <3>4. \E b \in BOOLEAN : exception' = exception \/ exception' = [exception EXCEPT ![t] = b]
      BY <2>6 DEF StartVm, EnterVm, NestGuard, Throw, ExceptionClear, DropGuard
    <3>5. guard' \in [Threads -> BOOLEAN] /\ exception' \in [Threads -> BOOLEAN]
      BY <3>3, <3>4
    <3> QED
      BY <3>1, <3>2, <3>5
  <2> QED
    BY <2>1, <2>2, <2>3, <2>4, <2>5, <2>6 DEF Step
<1> QED
  BY <1>1, <1>2

-------------------------------------------------------------------------------
(* The singleton *)

(* A thread enters by way of get_java_vm, which finds or sets the singleton. *)
LEMMA NextEntryInv == IInv /\ [Next]_vars => EntryInv'
<1> SUFFICES ASSUME IInv, [Next]_vars, ~PendingEntry, NEW u \in Threads, (Entered(u) \/ exception[u])'
             PROVE  singleton'
  BY DEF EntryInv
<1> USE DEF IInv, Types, EntryInv, Entered, At, Goto
<1>1. CASE UNCHANGED vars
  BY <1>1 DEF vars
<1>2. CASE Next
  <2> SUFFICES ASSUME NEW t \in Threads, Step(t) \/ StartVm(t) \/ EnterVm(t) \/ NestGuard(t)
                          \/ Throw(t) \/ ExceptionClear(t) \/ DropGuard(t)
               PROVE  singleton'
    BY <1>2 DEF Next
  <2>1. CASE FromRaw(t, "start_from_raw", "start_init", "start_attach")
             \/ FromRaw(t, "enter_from_raw", "enter_init", "idle")
    BY <2>1 DEF FromRaw
  <2>2. CASE SetSingleton(t, "start_init", "start_attach") \/ SetSingleton(t, "enter_init", "idle")
    BY <2>2 DEF SetSingleton
  <2>3. CASE FindSymbol(t) \/ CreateVm(t) \/ AttachCreator(t) \/ LoadLibrary(t) \/ KeepOrDropLibrary(t)
    BY <2>3 DEF FindSymbol, CreateVm, AttachCreator, LoadLibrary, KeepOrDropLibrary
  <2>4. CASE GetJavaVm(t)
    BY <2>4 DEF GetJavaVm
  <2>5. CASE EnterVm(t)
    BY <2>5 DEF EnterVm
  <2>6. CASE StartVm(t) \/ NestGuard(t) \/ Throw(t) \/ ExceptionClear(t) \/ DropGuard(t)
    BY <2>6 DEF StartVm, NestGuard, Throw, ExceptionClear, DropGuard
  <2> QED
    BY <2>1, <2>2, <2>3, <2>4, <2>5, <2>6 DEF Step
<1> QED
  BY <1>1, <1>2

-------------------------------------------------------------------------------
(* The library *)

(* A step that opens and closes nothing, and moves no thread into or out of an attempt *)
LEMMA LibraryUntouched ==
    ASSUME IInv, Types', UNCHANGED <<vm, handles>>,
           Starting' = Starting, Creating' = Creating
    PROVE  CreatorInv' /\ LibraryStaysLoaded'
BY DEF IInv, CreatorInv, LibraryStaysLoaded

(* Every step keeps the number of open handles and the one creator. *)
LEMMA NextLibraryInv == IInv /\ Types' /\ [Next]_vars => CreatorInv' /\ LibraryStaysLoaded'
<1> SUFFICES ASSUME IInv, Types', [Next]_vars PROVE CreatorInv' /\ LibraryStaysLoaded'
  OBVIOUS
<1>1. CASE UNCHANGED vars
  <2>1. Starting' = Starting /\ Creating' = Creating
    BY <1>1 DEF vars, Starting, Creating
  <2> QED
    BY <2>1, <1>1, LibraryUntouched DEF vars
<1>2. CASE Next
  <2> SUFFICES ASSUME NEW t \in Threads, Step(t) \/ StartVm(t) \/ EnterVm(t) \/ NestGuard(t)
                          \/ Throw(t) \/ ExceptionClear(t) \/ DropGuard(t)
               PROVE  CreatorInv' /\ LibraryStaysLoaded'
    BY <1>2 DEF Next
  <2> USE DEF At, Goto
  <2>1. CASE KeepOrDropLibrary(t)
    <3>1. PICK x \in {"idle"} : pc' = [pc EXCEPT ![t] = x]
      BY <2>1 DEF KeepOrDropLibrary
    <3>2. t \in Starting /\ Starting' = Starting \ {t} /\ t \notin Creating'
      BY <2>1, <3>1 DEF KeepOrDropLibrary, IInv, Types, Starting, Creating
    <3>3. Cardinality(Starting') = Cardinality(Starting) - 1
      BY <3>2, StartingFinite, FS_RemoveElement DEF IInv
    <3>4. CASE At(t, "start_forget")
      <4>1. t \in Creating /\ Creating' = {}
        BY <2>1, <3>1, <3>4 DEF KeepOrDropLibrary, IInv, CreatorInv, Types, Starting, Creating
      <4>2. vm' = "embedded" /\ handles' = handles
        BY <2>1, <3>4, <4>1 DEF KeepOrDropLibrary, IInv, CreatorInv
      <4>3. handles = Cardinality(Starting)
        BY <4>1, StartingFinite DEF IInv, LibraryStaysLoaded
      <4> QED
        BY <3>3, <4>1, <4>2, <4>3, StartingFinite DEF CreatorInv, LibraryStaysLoaded, IInv
    <3>5. CASE ~At(t, "start_forget")
      <4>1. Creating' = Creating
        BY <2>1, <3>1, <3>5 DEF KeepOrDropLibrary, IInv, Types, Starting, Creating
      <4>2. vm' = vm /\ handles' = handles - 1
        BY <2>1, <3>5 DEF KeepOrDropLibrary
      <4> QED
        BY <3>3, <4>1, <4>2, StartingFinite DEF CreatorInv, LibraryStaysLoaded, IInv, Types
    <3> QED
      BY <3>4, <3>5
  <2>2. CASE LoadLibrary(t)
    <3>1. Creating' = Creating /\ vm' = vm
      BY <2>2 DEF LoadLibrary, IInv, Types, Starting, Creating
    <3>2. CASE pc' = [pc EXCEPT ![t] = "start_symbol"] /\ handles' = handles + 1
      <4>1. t \notin Starting /\ Starting' = Starting \union {t}
        BY <2>2, <3>2 DEF LoadLibrary, IInv, Types, Starting
      <4>2. Cardinality(Starting') = Cardinality(Starting) + 1
        BY <4>1, StartingFinite, FS_AddElement DEF IInv
      <4> QED
        BY <3>1, <3>2, <4>2, StartingFinite DEF CreatorInv, LibraryStaysLoaded, IInv, Types
    <3>3. CASE pc' = [pc EXCEPT ![t] = "idle"] /\ handles' = handles
      <4>1. Starting' = Starting
        BY <2>2, <3>3 DEF LoadLibrary, IInv, Types, Starting
      <4> QED
        BY <3>1, <3>3, <4>1, LibraryUntouched
    <3> QED
      BY <2>2, <3>2, <3>3 DEF LoadLibrary
  <2>3. CASE CreateVm(t)
    <3>1. t \in Starting /\ t \notin Creating /\ Starting' = Starting /\ handles' = handles
      BY <2>3 DEF CreateVm, IInv, Types, Starting, Creating
    <3>2. CASE vm = "none" /\ vm' = "embedded" /\ pc' = [pc EXCEPT ![t] = "start_from_raw"]
      <4>1. Creating = {}
        BY <3>2 DEF IInv, CreatorInv
      <4>2. Creating' = {t}
        BY <3>1, <3>2, <4>1 DEF IInv, Types, Starting, Creating
      <4> QED
        BY <3>1, <3>2, <4>1, <4>2, StartingFinite DEF CreatorInv, LibraryStaysLoaded, IInv
    <3>3. CASE vm' = vm /\ pc' = [pc EXCEPT ![t] = "start_unload"]
      <4>1. Creating' = Creating
        BY <2>3, <3>3 DEF CreateVm, IInv, Types, Starting, Creating
      <4> QED
        BY <3>1, <3>3, <4>1, LibraryUntouched
    <3> QED
      BY <2>3, <3>2, <3>3 DEF CreateVm
  <2>4. CASE FromRaw(t, "start_from_raw", "start_init", "start_attach")
             \/ SetSingleton(t, "start_init", "start_attach")
    <3>1. /\ Starting' = Starting /\ Creating' = Creating
          /\ UNCHANGED <<vm, handles>>
      BY <2>4 DEF FromRaw, SetSingleton, IInv, Types, Starting, Creating
    <3> QED
      BY <3>1, LibraryUntouched
  <2>5. CASE AttachCreator(t)
    <3>1. t \in Creating /\ Starting' = Starting /\ handles' = handles
      BY <2>5 DEF AttachCreator, IInv, Types, Starting, Creating
    <3>2. CASE vm' = vm /\ pc' = [pc EXCEPT ![t] = "start_forget"]
      <4>1. Creating' = Creating
        BY <2>5, <3>2 DEF AttachCreator, IInv, Types, Starting, Creating
      <4> QED
        BY <3>1, <3>2, <4>1, LibraryUntouched
    <3>3. CASE vm' = "abandoned" /\ pc' = [pc EXCEPT ![t] = "start_unload"]
      <4>1. Creating' = {}
        BY <3>1, <3>3 DEF IInv, CreatorInv, Types, Starting, Creating
      <4>2. handles = Cardinality(Starting)
        BY <3>1, StartingFinite DEF IInv, LibraryStaysLoaded
      <4> QED
        BY <3>1, <3>3, <4>1, <4>2, StartingFinite DEF CreatorInv, LibraryStaysLoaded, IInv
    <3> QED
      BY <2>5, <3>2, <3>3 DEF AttachCreator
  <2>6. CASE FromRaw(t, "enter_from_raw", "enter_init", "idle")
             \/ SetSingleton(t, "enter_init", "idle") \/ GetJavaVm(t) \/ FindSymbol(t)
    <3>1. /\ Starting' = Starting /\ Creating' = Creating
          /\ UNCHANGED <<vm, handles>>
      BY <2>6 DEF FromRaw, SetSingleton, GetJavaVm, FindSymbol, IInv, Types, Starting, Creating
    <3> QED
      BY <3>1, LibraryUntouched
  <2>7. CASE StartVm(t) \/ EnterVm(t) \/ NestGuard(t) \/ Throw(t) \/ ExceptionClear(t) \/ DropGuard(t)
    <3>1. /\ Starting' = Starting /\ Creating' = Creating
          /\ UNCHANGED <<vm, handles>>
      BY <2>7 DEF StartVm, EnterVm, NestGuard, Throw, ExceptionClear, DropGuard, IInv, Types,
                  Starting, Creating
    <3> QED
      BY <3>1, LibraryUntouched
  <2> QED
    BY <2>1, <2>2, <2>3, <2>4, <2>5, <2>6, <2>7 DEF Step
<1> QED
  BY <1>1, <1>2

-------------------------------------------------------------------------------
(* What holds of every behaviour *)

(* The invariant holds in every reachable state. *)
LEMMA Invariance == Spec => []IInv
<1>1. IInv /\ [Next]_vars => IInv'
  BY NextTypes, NextEntryInv, NextLibraryInv DEF IInv
<1> QED
  BY <1>1, InitInv, PTL DEF Spec

(* Every variable keeps its type; no more handles are ever open than threads try, and one. *)
THEOREM StartupTypeCorrect == Spec => []TypeOK
<1>1. IInv => TypeOK
  <2> SUFFICES ASSUME IInv PROVE TypeOK
    OBVIOUS
  <2>1. Cardinality(Starting) <= Cardinality(Threads) /\ Cardinality(Threads) \in Nat
    BY FS_Subset, FS_CardinalityType DEF Starting
  <2>2. handles \in 0..Cardinality(Threads) + 1
    BY <2>1, StartingFinite DEF IInv, Types, LibraryStaysLoaded
  <2> QED
    BY <2>2 DEF IInv, Types, TypeOK
<1> QED
  BY <1>1, Invariance, PTL

(* Unless a guard is made under a pending exception, whoever has a guard finds the singleton. *)
THEOREM GuardsFindSingleton ==
    ASSUME ~PendingEntry
    PROVE  Spec => []SingletonBehindGuard
<1>1. IInv => SingletonBehindGuard
  BY DEF IInv, EntryInv, Entered, SingletonBehindGuard
<1> QED
  BY <1>1, Invariance, PTL

(* Exactly the libraries being tried are open, and that of the VM that was created unless its
   creator could not be attached. *)
THEOREM LibraryKept == Spec => []LibraryStaysLoaded
<1>1. IInv => LibraryStaysLoaded
  BY DEF IInv
<1> QED
  BY <1>1, Invariance, PTL

-------------------------------------------------------------------------------
(* Why starting a VM, and entering one, come to an end *)

Waiting(t) == pc[t] \in {"start_from_raw", "enter_from_raw"} /\ initialising # Nobody

(* Whoever initialises the singleton is named by it, and is one step from its end. *)
InitialiserInv == \A t \in Threads : pc[t] \in {"start_init", "enter_init"} <=> initialising = t

(* The steps that are left at most, waiting not counted *)
StepsAfter ==
    [step \in Steps |->
        CASE step = "idle" -> 0
          [] step \in {"start_forget", "start_unload", "enter_init"} -> 1
          [] step \in {"start_attach", "enter_from_raw"} -> 2
          [] step \in {"start_init", "enter_vm"} -> 3
          [] step = "start_from_raw" -> 4
          [] step = "start_create" -> 5
          [] step = "start_symbol" -> 6
          [] step = "start_load" -> 7]
StepsLeft(t) == StepsAfter[pc[t]]

(* One thread at a time is in get_or_init. *)
LEMMA NextInitialiser == IInv /\ InitialiserInv /\ [Next]_vars => InitialiserInv'
<1> SUFFICES ASSUME IInv, InitialiserInv, [Next]_vars, NEW u \in Threads
             PROVE  pc'[u] \in {"start_init", "enter_init"} <=> initialising' = u
  BY DEF InitialiserInv
<1> USE DEF IInv, Types, InitialiserInv, At, Goto
<1>1. CASE UNCHANGED vars
  BY <1>1 DEF vars
<1>2. CASE Next
  <2> SUFFICES ASSUME NEW t \in Threads, Step(t) \/ StartVm(t) \/ EnterVm(t) \/ NestGuard(t)
                          \/ Throw(t) \/ ExceptionClear(t) \/ DropGuard(t)
               PROVE  pc'[u] \in {"start_init", "enter_init"} <=> initialising' = u
    BY <1>2 DEF Next
  <2>1. CASE FromRaw(t, "start_from_raw", "start_init", "start_attach")
             \/ FromRaw(t, "enter_from_raw", "enter_init", "idle")
    BY <2>1 DEF FromRaw
  <2>2. CASE SetSingleton(t, "start_init", "start_attach") \/ SetSingleton(t, "enter_init", "idle")
    BY <2>2 DEF SetSingleton
  <2>3. CASE FindSymbol(t) \/ CreateVm(t) \/ AttachCreator(t) \/ LoadLibrary(t) \/ KeepOrDropLibrary(t)
    BY <2>3 DEF FindSymbol, CreateVm, AttachCreator, LoadLibrary, KeepOrDropLibrary
  <2>4. CASE GetJavaVm(t)
    BY <2>4 DEF GetJavaVm
  <2>5. CASE StartVm(t) \/ EnterVm(t) \/ NestGuard(t) \/ Throw(t) \/ ExceptionClear(t) \/ DropGuard(t)
    BY <2>5 DEF StartVm, EnterVm, NestGuard, Throw, ExceptionClear, DropGuard
  <2> QED
    BY <2>1, <2>2, <2>3, <2>4, <2>5 DEF Step
<1> QED
  BY <1>1, <1>2

(* A thread that waits for the singleton waits for another one, whose own next step, to set it,
   waits for nobody: get_or_init is never entered by the thread that is in it. *)
WaitsAreShort ==
    \A t \in Threads : Waiting(t) =>
        initialising \in Threads \ {t} /\ pc[initialising] \in {"start_init", "enter_init"}

(* Threads that start or enter a VM never wait for each other in a circle. *)
THEOREM NoCircularWait == Spec => []WaitsAreShort
<1>1. Init => InitialiserInv
  BY DEF Init, InitialiserInv
<1>2. IInv /\ InitialiserInv => WaitsAreShort
  BY DEF IInv, Types, InitialiserInv, Waiting, WaitsAreShort
<1> QED
  BY <1>1, <1>2, NextInitialiser, Invariance, PTL DEF Spec

(* What has begun to start or enter a VM ends after seven steps of its own at most, whatever the
   other threads do meanwhile. *)
CountsDown ==
    \A t \in Threads : pc[t] # "idle" =>
        StepsLeft(t) \in 1..7 /\ (pc'[t] = pc[t] \/ StepsLeft(t)' < StepsLeft(t))

(* JavaVM::impl_with_libjvm, from_raw and the attachment take a bounded number of steps: a thread that is
   stuck is one that waits. *)
THEOREM StepsAreFew == Spec => [][CountsDown]_vars
<1>1. IInv /\ [Next]_vars => [CountsDown]_vars
  <2> SUFFICES ASSUME IInv, Next, NEW u \in Threads, pc[u] # "idle"
               PROVE  StepsLeft(u) \in 1..7 /\ (pc'[u] = pc[u] \/ StepsLeft(u)' < StepsLeft(u))
    BY DEF CountsDown
  <2> USE DEF IInv, Types, At, Goto
  <2>1. pc[u] \in Steps
    OBVIOUS
  <2>2. StepsLeft(u) \in 1..7
    BY <2>1 DEF StepsLeft, StepsAfter, Steps
  <2>3. PICK t \in Threads : Step(t) \/ StartVm(t) \/ EnterVm(t) \/ NestGuard(t)
                                \/ Throw(t) \/ ExceptionClear(t) \/ DropGuard(t)
    BY DEF Next
  <2>4. pc'[u] = pc[u] \/ (u = t /\ <<pc[u], pc'[u]>> \in
            {<<"start_from_raw", "start_init">>, <<"start_from_raw", "start_attach">>,
             <<"enter_from_raw", "enter_init">>, <<"enter_from_raw", "idle">>,
             <<"start_init", "start_attach">>, <<"enter_init", "idle">>,
             <<"start_load", "start_symbol">>, <<"start_load", "idle">>,
             <<"start_symbol", "start_create">>, <<"start_symbol", "start_unload">>,
             <<"start_create", "start_from_raw">>, <<"start_create", "start_unload">>,
             <<"start_attach", "start_forget">>, <<"start_attach", "start_unload">>, <<"start_forget", "idle">>,
             <<"start_unload", "idle">>, <<"enter_vm", "idle">>, <<"enter_vm", "enter_from_raw">>})
    <3>1. CASE FromRaw(t, "start_from_raw", "start_init", "start_attach")
               \/ FromRaw(t, "enter_from_raw", "enter_init", "idle")
      BY <3>1 DEF FromRaw
    <3>2. CASE SetSingleton(t, "start_init", "start_attach") \/ SetSingleton(t, "enter_init", "idle")
      BY <3>2 DEF SetSingleton
    <3>3. CASE FindSymbol(t) \/ CreateVm(t) \/ AttachCreator(t) \/ LoadLibrary(t) \/ KeepOrDropLibrary(t)
      BY <3>3 DEF FindSymbol, CreateVm, AttachCreator, LoadLibrary, KeepOrDropLibrary
    <3>4. CASE GetJavaVm(t)
      BY <3>4 DEF GetJavaVm
    <3>5. CASE StartVm(t) \/ EnterVm(t) \/ NestGuard(t) \/ Throw(t) \/ ExceptionClear(t) \/ DropGuard(t)
      BY <3>5 DEF StartVm, EnterVm, NestGuard, Throw, ExceptionClear, DropGuard
    <3> QED
      BY <2>3, <3>1, <3>2, <3>3, <3>4, <3>5 DEF Step
  <2>5. pc'[u] = pc[u] \/ StepsLeft(u)' < StepsLeft(u)
    BY <2>4 DEF StepsLeft, StepsAfter, Steps
  <2> QED
    BY <2>2, <2>5
<1> QED
  BY <1>1, Invariance, PTL DEF Spec
===============================================================================
