------------------------------- MODULE VmStartup -------------------------------
(***************************************************************************)
(* How the process comes to its one Java VM, and JAVA_VM_SINGLETON to      *)
(* point to it: JavaVM::new and with_libjvm (java_vm.rs) load the JVM's    *)
(* library and create a VM; AttachGuard::from_unowned and from_owned, on a *)
(* thread that other code has brought into the VM, find it through         *)
(* get_java_vm.  The singleton is a OnceLock: one thread initialises it,   *)
(* and others that want to wait.                                           *)
(*                                                                         *)
(* The library stays loaded as long as a Library handle is open; a handle  *)
(* that is forgotten stays open for ever.                                  *)
(***************************************************************************)
EXTENDS Integers, FiniteSets

CONSTANTS Threads,
          Nobody,       \* no thread is initialising the singleton
          PendingEntry  \* may a guard be made with an exception pending

ASSUME VmStartupAssumption ==
    /\ IsFiniteSet(Threads) /\ Nobody \notin Threads
    /\ PendingEntry \in BOOLEAN

VARIABLES
    vm,             \* "none"; "host": created by other code, "embedded": by the crate;
                    \* "abandoned": by the crate, and its creator could not be attached
    handles,        \* open Library handles
    singleton,      \* is JAVA_VM_SINGLETON set
    initialising,   \* the thread inside get_or_init
    guard,          \* Thread |-> does it hold an AttachGuard
    exception,      \* Thread |-> is a Java exception pending
    attached,       \* threads the crate has attached and counted
    pc              \* Thread |-> its next step

vars == <<vm, handles, singleton, initialising, guard, exception, attached, pc>>

(* "start": code of JavaVM::new; "enter": code that makes an AttachGuard *)
Steps == {"idle", "start_load", "start_symbol", "start_create", "start_from_raw",
          "start_init", "start_attach", "start_forget", "start_unload",
          "enter_vm", "enter_from_raw", "enter_init"}

TypeOK ==
    /\ vm \in {"none", "host", "embedded", "abandoned"}
    /\ handles \in 0..Cardinality(Threads) + 1
    /\ singleton \in BOOLEAN
    /\ initialising \in Threads \union {Nobody}
    /\ guard \in [Threads -> BOOLEAN]
    /\ exception \in [Threads -> BOOLEAN]
    /\ attached \subseteq Threads
    /\ pc \in [Threads -> Steps]

(* A process that has started no VM, or one that a Java launcher started *)
Init ==
    /\ vm \in {"none", "host"}
    /\ handles = 0
    /\ singleton = FALSE
    /\ initialising = Nobody
    /\ guard = [t \in Threads |-> FALSE]
    /\ exception = [t \in Threads |-> FALSE]
    /\ attached = {}
    /\ pc = [t \in Threads |-> "idle"]

At(t, step) == pc[t] = step
Goto(t, step) == pc' = [pc EXCEPT ![t] = step]

-------------------------------------------------------------------------------
(* JavaVM::from_raw: get_or_init waits for whoever is initialising. *)

FromRaw(t, from, init, done) ==
    /\ At(t, from)
    /\ initialising = Nobody
    /\ IF singleton
       THEN Goto(t, done) /\ UNCHANGED initialising
       ELSE Goto(t, init) /\ initialising' = t
    /\ UNCHANGED <<vm, handles, singleton, guard, exception, attached>>

SetSingleton(t, init, done) ==
    /\ At(t, init)
    /\ singleton' = TRUE
    /\ initialising' = Nobody
    /\ Goto(t, done)
    /\ UNCHANGED <<vm, handles, guard, exception, attached>>

-------------------------------------------------------------------------------
(* JavaVM::new, with_libjvm *)

(* The singleton, if there is one, or else the library is located *)
StartVm(t) ==
    /\ At(t, "idle")
    /\ ~singleton
    /\ Goto(t, "start_load")
    /\ UNCHANGED <<vm, handles, singleton, initialising, guard, exception, attached>>

(* Library::new *)
LoadLibrary(t) ==
    /\ At(t, "start_load")
    /\ \/ handles' = handles + 1 /\ Goto(t, "start_symbol")
       \/ UNCHANGED handles /\ Goto(t, "idle")
    /\ UNCHANGED <<vm, singleton, initialising, guard, exception, attached>>

(* JNI_CreateJavaVM is looked up; an error drops the library. *)
FindSymbol(t) ==
    /\ At(t, "start_symbol")
    /\ Goto(t, "start_create") \/ Goto(t, "start_unload")
    /\ UNCHANGED <<vm, handles, singleton, initialising, guard, exception, attached>>

(* It fails if there is a VM already, and may fail for other reasons. *)
CreateVm(t) ==
    /\ At(t, "start_create")
    /\ \/ /\ vm = "none"
          /\ vm' = "embedded"
          /\ Goto(t, "start_from_raw")
       \/ UNCHANGED vm /\ Goto(t, "start_unload")
    /\ UNCHANGED <<handles, singleton, initialising, guard, exception, attached>>

(***************************************************************************)
(* tls_ or fls_attach_current_thread takes the creating thread's           *)
(* attachment over; the guard it returns initialises nothing and is        *)
(* dropped at once.  If it fails, so does JavaVM::new, although the VM     *)
(* runs and the singleton is set.  FlsSetValue fails after the count.      *)
(***************************************************************************)
AttachCreator(t) ==
    /\ At(t, "start_attach")
    /\ \/ /\ attached' = attached \union {t}
          /\ Goto(t, "start_forget")
          /\ UNCHANGED vm
       \/ /\ attached' \in {attached, attached \union {t}}
          /\ Goto(t, "start_unload")
          /\ vm' = "abandoned"
    /\ UNCHANGED <<handles, singleton, initialising, guard, exception>>

(* Mutant: the library is dropped after a success too. *)
DropLibrary(t) ==
    /\ pc[t] \in {"start_forget", "start_unload"}
    /\ handles' = handles - 1
    /\ Goto(t, "idle")
    /\ UNCHANGED <<vm, singleton, initialising, guard, exception, attached>>

(* forget(libjvm) if the creation has succeeded; otherwise the drop closes it. *)
KeepOrDropLibrary(t) ==
    /\ pc[t] \in {"start_forget", "start_unload"}
    /\ handles' = IF At(t, "start_forget") THEN handles ELSE handles - 1
    /\ Goto(t, "idle")
    /\ UNCHANGED <<vm, singleton, initialising, guard, exception, attached>>

-------------------------------------------------------------------------------
(* A thread inside the VM makes a guard from the JNIEnv it has. *)

(* from_unowned or from_owned: the guard is there before get_java_vm. *)
EnterVm(t) ==
    /\ At(t, "idle")
    /\ vm # "none" /\ ~guard[t]
    /\ guard' = [guard EXCEPT ![t] = TRUE]
    /\ \E raised \in {FALSE, PendingEntry} : exception' = [exception EXCEPT ![t] = raised]
    /\ Goto(t, "enter_vm")
    /\ UNCHANGED <<vm, handles, singleton, initialising, attached>>

(* A guard nested in the first, as every local frame has one *)
NestGuard(t) ==
    /\ At(t, "idle")
    /\ guard[t]
    /\ Goto(t, "enter_vm")
    /\ UNCHANGED <<vm, handles, singleton, initialising, guard, exception, attached>>

(* Mutant: get_java_vm initialises the singleton by calling from_raw. *)
GetJavaVmNested(t) ==
    /\ At(t, "enter_vm")
    /\ initialising = Nobody
    /\ IF singleton
       THEN Goto(t, "idle") /\ UNCHANGED initialising
       ELSE Goto(t, "enter_from_raw") /\ initialising' = t
    /\ UNCHANGED <<vm, handles, singleton, guard, exception, attached>>

(* Mutant: a guard leaves the singleton to the code that starts the VM. *)
GetJavaVmLazy(t) ==
    /\ At(t, "enter_vm")
    /\ Goto(t, "idle")
    /\ UNCHANGED <<vm, handles, singleton, initialising, guard, exception, attached>>

(***************************************************************************)
(* from_env: without a singleton it asks the JVM, which it does not do     *)
(* under a pending exception.  The guard does not look at the result.      *)
(***************************************************************************)
GetJavaVm(t) ==
    /\ At(t, "enter_vm")
    /\ Goto(t, IF singleton \/ exception[t] THEN "idle" ELSE "enter_from_raw")
    /\ UNCHANGED <<vm, handles, singleton, initialising, guard, exception, attached>>

(* The code under the guard calls Java, which throws. *)
Throw(t) ==
    /\ At(t, "idle")
    /\ guard[t] /\ ~exception[t]
    /\ exception' = [exception EXCEPT ![t] = TRUE]
    /\ UNCHANGED <<vm, handles, singleton, initialising, guard, attached, pc>>

ExceptionClear(t) ==
    /\ At(t, "idle")
    /\ exception[t]
    /\ exception' = [exception EXCEPT ![t] = FALSE]
    /\ UNCHANGED <<vm, handles, singleton, initialising, guard, attached, pc>>

(* The guard is dropped; a pending exception goes back to the caller. *)
DropGuard(t) ==
    /\ At(t, "idle")
    /\ guard[t]
    /\ guard' = [guard EXCEPT ![t] = FALSE]
    /\ exception' = [exception EXCEPT ![t] = FALSE]
    /\ UNCHANGED <<vm, handles, singleton, initialising, attached, pc>>

-------------------------------------------------------------------------------
Step(t) ==
    \/ FromRaw(t, "start_from_raw", "start_init", "start_attach")
    \/ FromRaw(t, "enter_from_raw", "enter_init", "idle")
    \/ SetSingleton(t, "start_init", "start_attach")
    \/ SetSingleton(t, "enter_init", "idle")
    \/ LoadLibrary(t) \/ FindSymbol(t) \/ CreateVm(t)
    \/ AttachCreator(t) \/ KeepOrDropLibrary(t)
    \/ GetJavaVm(t)

Next == \E t \in Threads :
    \/ Step(t) \/ StartVm(t)
    \/ EnterVm(t) \/ NestGuard(t) \/ Throw(t) \/ ExceptionClear(t) \/ DropGuard(t)

(* A thread goes on with what it has begun, and waits for nobody for ever. *)
Fairness == \A t \in Threads : WF_vars(Step(t))

Spec == Init /\ [][Next]_vars /\ Fairness

-------------------------------------------------------------------------------
(* Properties *)

(***************************************************************************)
(* What the docs of JAVA_VM_SINGLETON guarantee and the drops of Global,   *)
(* Weak and MonitorGuard rely on: code that has an AttachGuard finds the   *)
(* singleton.  It holds unless a guard is made under a pending exception.  *)
(***************************************************************************)
SingletonBehindGuard == \A t \in Threads : guard[t] /\ pc[t] = "idle" => singleton

(* The attempts to start a VM that have the library open *)
Starting == {t \in Threads : pc[t] \in {"start_symbol", "start_create", "start_from_raw",
                "start_init", "start_attach", "start_forget", "start_unload"}}

(* The one that has created the VM and has not failed, nor is done yet *)
Creating == {t \in Starting : pc[t] \notin {"start_symbol", "start_create", "start_unload"}}

(***************************************************************************)
(* However many threads try to start a VM and fail, the library of the one *)
(* they started stays loaded, and no failed attempt leaves a handle open.  *)
(* The exception is the VM whose creator could not be attached, for which  *)
(* impl_with_libjvm is not what its comment on forget says: the library is *)
(* closed while the VM runs and the singleton gives it to everybody.       *)
(***************************************************************************)
LibraryStaysLoaded ==
    handles = Cardinality(Starting) + IF vm = "embedded" /\ Creating = {} THEN 1 ELSE 0

(***************************************************************************)
(* Starting a VM and entering one always come to an end: no thread waits   *)
(* for ever for the singleton to be initialised.                           *)
(***************************************************************************)
StartAndEntryEnd == \A t \in Threads : (pc[t] # "idle") ~> (pc[t] = "idle")
===============================================================================
