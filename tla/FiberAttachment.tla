---------------------------- MODULE FiberAttachment ----------------------------
(***************************************************************************)
(* Permanent attachments on Windows: vm/fls_attach_guard.rs with the parts *)
(* of vm/java_vm.rs that are the same in both builds.                      *)
(*                                                                         *)
(* The record of a permanent attachment is a box in fiber-local storage.   *)
(* The fibers of a thread share its JVM attachment and its guards but each *)
(* has a slot of its own, under an index that the whole process allocates  *)
(* once, and Windows calls fls_callback with the value of a slot when its  *)
(* fiber ends.  The code assumes, and so does the module, that no fiber is *)
(* switched or deleted under a guard, and that a fiber stays on its thread *)
(* and is deleted before the thread ends.                                  *)
(*                                                                         *)
(* Threads meet at FLS_INDEX and at ATTACHED_THREADS.  A step ends where   *)
(* another thread could notice: before FlsAlloc, before the index is       *)
(* published, and between the JVM call and the change of the counter.      *)
(***************************************************************************)
EXTENDS Integers, FiniteSets

CONSTANTS Threads,      \* native threads
          Fibers,       \* all fibers, the thread's own first fiber included
          ThreadOf,     \* [Fibers -> Threads]
          Indices,      \* bound: the FLS indices the process may allocate
          Boxes,        \* bound: FlsAttachData allocations alive at one time
          NoBox,        \* the null pointer
          NoIndex,      \* FLS_INDEX before it is set
          MaxAttach,    \* bound: attachments of one thread
          MaxLevel      \* bound: nested guards

ASSUME FibersAssumption == IsFiniteSet(Fibers) /\ IsFiniteSet(Threads)
                           /\ ThreadOf \in [Fibers -> Threads]
ASSUME NullAssumption == NoBox \notin Boxes /\ NoIndex \notin Indices
ASSUME LimitAssumption == MaxAttach \in Nat \ {0} /\ MaxLevel \in Nat \ {0}

VARIABLES
    fiber,            \* the fiber that runs on a thread
    gone,             \* fibers that have ended
    attached,         \* is the thread attached to the JVM
    attachNumber,     \* number of the thread's last attachment: its JNIEnv
    nestLevel,        \* THREAD_GUARD_NEST_LEVEL, which is in thread-local storage
    owned,            \* the outermost guard owns the attachment
    flsIndex,         \* FLS_INDEX
    allocated,        \* indices Windows has given out
    newIndex,         \* the index a thread has allocated and not yet published
    slot,             \* the FLS values of a fiber
    heap,             \* boxes that are allocated
    attachedThreads,  \* ATTACHED_THREADS
    unrecorded,       \* history: attachments counted for which FlsSetValue failed
    pc                \* the step the thread is at

jvm == <<attached, attachNumber>>
counter == <<attachedThreads, unrecorded>>
guards == <<nestLevel, owned>>
index == <<flsIndex, allocated, newIndex>>
records == <<slot, heap>>
vars == <<fiber, gone, attached, attachNumber, nestLevel, owned, flsIndex,
          allocated, newIndex, slot, heap, attachedThreads, unrecorded, pc>>

NullEnv == 0
Env == 1..MaxAttach
Steps == {"run", "alloc", "publish", "attach", "record", "count_scoped", "uncount",
          "dead", "panicked"}
Attaching == {"alloc", "publish", "attach", "record"}

TypeOK ==
    /\ fiber \in [Threads -> Fibers]
    /\ gone \subseteq Fibers
    /\ attached \in [Threads -> BOOLEAN]
    /\ attachNumber \in [Threads -> Nat]
    /\ nestLevel \in [Threads -> Nat]
    /\ owned \in [Threads -> BOOLEAN]
    /\ flsIndex \in Indices \union {NoIndex}
    /\ allocated \subseteq Indices
    /\ newIndex \in [Threads -> Indices \union {NoIndex}]
    /\ slot \in [Fibers -> [Indices -> Boxes \union {NoBox}]]
    /\ heap \subseteq Boxes
    /\ attachedThreads \in Nat
    /\ unrecorded \in Nat
    /\ pc \in [Threads -> Steps]

Init ==
    /\ fiber \in {running \in [Threads -> Fibers] :
                     \A t \in Threads : ThreadOf[running[t]] = t}
    /\ gone = {}
    /\ attached = [t \in Threads |-> FALSE]
    /\ attachNumber = [t \in Threads |-> 0]
    /\ nestLevel = [t \in Threads |-> 0]
    /\ owned = [t \in Threads |-> FALSE]
    /\ flsIndex = NoIndex
    /\ allocated = {}
    /\ newIndex = [t \in Threads |-> NoIndex]
    /\ slot = [f \in Fibers |-> [i \in Indices |-> NoBox]]
    /\ heap = {}
    /\ attachedThreads = 0
    /\ unrecorded = 0
    /\ pc = [t \in Threads |-> "run"]

Goto(t, step) == pc' = [pc EXCEPT ![t] = step]
Value(f) == IF flsIndex = NoIndex THEN NoBox ELSE slot[f][flsIndex]
FlsSetValue(f, value) == slot' = [slot EXCEPT ![f][flsIndex] = value]

JvmAttach(t) ==
    /\ attached' = [attached EXCEPT ![t] = TRUE]
    /\ attachNumber' = [attachNumber EXCEPT ![t] = @ + 1]

(* sys_detach_current_thread up to the counter, which the step "uncount" changes *)
SysDetach(t) ==
    /\ attached' = [attached EXCEPT ![t] = FALSE]
    /\ Goto(t, "uncount")
    /\ UNCHANGED attachNumber

Idle(t) == pc[t] = "run" /\ nestLevel[t] = 0
MayAttach(t) == attachNumber[t] < MaxAttach

-------------------------------------------------------------------------------
(* Guards: the part of attach_current_thread_guard both builds share *)

(* A nested guard, or one on a thread that GetEnv says is attached *)
AttachUnowned(t) ==
    /\ pc[t] = "run" /\ nestLevel[t] < MaxLevel
    /\ attached[t]
    /\ nestLevel' = [nestLevel EXCEPT ![t] = @ + 1]
    /\ UNCHANGED <<fiber, gone, jvm, owned, index, records, counter, pc>>

AttachScoped(t) ==
    /\ Idle(t) /\ MayAttach(t)
    /\ ~attached[t]
    /\ JvmAttach(t)
    /\ Goto(t, "count_scoped")
    /\ UNCHANGED <<fiber, gone, guards, index, records, counter>>

CountScoped(t) ==
    /\ pc[t] = "count_scoped"
    /\ attachedThreads' = attachedThreads + 1
    /\ nestLevel' = [nestLevel EXCEPT ![t] = 1]
    /\ owned' = [owned EXCEPT ![t] = TRUE]
    /\ Goto(t, "run")
    /\ UNCHANGED <<fiber, gone, jvm, index, records, unrecorded>>

(* A guard is dropped; the owner asserts that its attachment is still there. *)
DropGuard(t) ==
    /\ pc[t] = "run" /\ nestLevel[t] > 0
    /\ nestLevel' = [nestLevel EXCEPT ![t] = @ - 1]
    /\ IF nestLevel[t] = 1 /\ owned[t]
       THEN /\ owned' = [owned EXCEPT ![t] = FALSE]
            /\ IF attached[t] THEN SysDetach(t) ELSE Goto(t, "panicked") /\ UNCHANGED jvm
       ELSE UNCHANGED <<owned, jvm, pc>>
    /\ UNCHANGED <<fiber, gone, index, records, counter>>

-------------------------------------------------------------------------------
(* get_or_init_fls_index, called by fls_attach_current_thread *)

(* Bound: every thread that is about to attach will find a box *)
BoxForEach ==
    Cardinality(heap) + Cardinality({t \in Threads : pc[t] \in Attaching}) < Cardinality(Boxes)

GetIndex(t) ==
    /\ Idle(t) /\ MayAttach(t) /\ BoxForEach
    /\ ~attached[t]
    /\ Goto(t, IF flsIndex = NoIndex THEN "alloc" ELSE "attach")
    /\ UNCHANGED <<fiber, gone, jvm, guards, index, records, counter>>

(* FlsAlloc; an error when the process has used up its indices *)
AllocIndex(t) ==
    /\ pc[t] = "alloc"
    /\ \/ \E i \in Indices \ allocated :
            /\ allocated' = allocated \union {i}
            /\ newIndex' = [newIndex EXCEPT ![t] = i]
            /\ Goto(t, "publish")
       \/ /\ Goto(t, "run")
          /\ UNCHANGED <<allocated, newIndex>>
    /\ UNCHANGED <<fiber, gone, jvm, guards, flsIndex, records, counter>>

(* Mutant: the index is stored, whether or not another thread has been faster. *)
PublishLast(t) ==
    /\ pc[t] = "publish"
    /\ flsIndex' = newIndex[t]
    /\ newIndex' = [newIndex EXCEPT ![t] = NoIndex]
    /\ Goto(t, "attach")
    /\ UNCHANGED <<fiber, gone, jvm, guards, allocated, records, counter>>

(* get_or_init: the index of a slower thread stays allocated and is forgotten. *)
PublishIndex(t) ==
    /\ pc[t] = "publish"
    /\ flsIndex' = IF flsIndex = NoIndex THEN newIndex[t] ELSE flsIndex
    /\ newIndex' = [newIndex EXCEPT ![t] = NoIndex]
    /\ Goto(t, "attach")
    /\ UNCHANGED <<fiber, gone, jvm, guards, allocated, records, counter>>

-------------------------------------------------------------------------------
(* fls_attach_current_thread *)

SysAttach(t) ==
    /\ pc[t] = "attach"
    /\ \/ JvmAttach(t) /\ Goto(t, "record")
       \/ Goto(t, "run") /\ UNCHANGED jvm
    /\ UNCHANGED <<fiber, gone, guards, index, records, counter>>

(* Mutant: every attachment is counted, also one that replaces a record. *)
RecordCounted(t) ==
    /\ pc[t] = "record"
    /\ attachedThreads' = attachedThreads + 1
    /\ \E b \in Boxes \ heap :
            /\ FlsSetValue(fiber[t], b)
            /\ heap' = heap \union {b}
            /\ nestLevel' = [nestLevel EXCEPT ![t] = 1]
            /\ UNCHANGED unrecorded
    /\ Goto(t, "run")
    /\ UNCHANGED <<fiber, gone, jvm, owned, index>>

(***************************************************************************)
(* The counter, unless the fiber has a record of an attachment that code   *)
(* outside the crate has undone; then the box, which replaces the old one  *)
(* without freeing it.  When FlsSetValue fails the new box is freed and    *)
(* the caller gets an error, but the thread stays attached and counted.    *)
(***************************************************************************)
Record(t) ==
    /\ pc[t] = "record"
    /\ attachedThreads' = IF Value(fiber[t]) = NoBox THEN attachedThreads + 1
                                                     ELSE attachedThreads
    /\ \/ \E b \in Boxes \ heap :
            /\ FlsSetValue(fiber[t], b)
            /\ heap' = heap \union {b}
            /\ nestLevel' = [nestLevel EXCEPT ![t] = 1]
            /\ UNCHANGED unrecorded
       \/ /\ unrecorded' = unrecorded +
                IF Value(fiber[t]) = NoBox THEN 1 ELSE 0
          /\ UNCHANGED <<records, nestLevel>>
    /\ Goto(t, "run")
    /\ UNCHANGED <<fiber, gone, jvm, owned, index>>

-------------------------------------------------------------------------------
(* Detaching *)

(* Mutant: live guards do not prevent the detachment. *)
FlsDetachUnguarded(t) ==
    /\ pc[t] = "run"
    /\ Value(fiber[t]) # NoBox
    /\ heap' = heap \ {Value(fiber[t])}
    /\ FlsSetValue(fiber[t], NoBox)
    /\ SysDetach(t)
    /\ UNCHANGED <<fiber, gone, guards, index, counter>>

(* fls_detach_current_thread: an error under a guard, a no-op without a record *)
FlsDetachCurrentThread(t) ==
    /\ Idle(t)
    /\ Value(fiber[t]) # NoBox
    /\ FlsSetValue(fiber[t], NoBox)
    /\ heap' = heap \ {Value(fiber[t])}
    /\ SysDetach(t)
    /\ UNCHANGED <<fiber, gone, guards, index, counter>>

(* The last step of sys_detach_current_thread: fetch_sub *)
Uncount(t) ==
    /\ pc[t] = "uncount"
    /\ attachedThreads' = attachedThreads - 1
    /\ Goto(t, IF fiber[t] \in gone THEN "dead" ELSE "run")
    /\ UNCHANGED <<fiber, gone, jvm, guards, index, records, unrecorded>>

(***************************************************************************)
(* fls_callback: Windows runs it on thread t for a slot of a fiber that    *)
(* ends.  It frees the box, asserts that no guard lives, and detaches the  *)
(* thread whether or not it was this fiber that last attached it.          *)
(***************************************************************************)
FlsCallback(t, f) ==
    IF Value(f) = NoBox
    THEN /\ Goto(t, IF f = fiber[t] THEN "dead" ELSE "run")
         /\ UNCHANGED <<jvm, records>>
    ELSE /\ heap' = heap \ {Value(f)}
         /\ FlsSetValue(f, NoBox)
         /\ SysDetach(t)

(* SwitchToFiber *)
SwitchFiber(t, f) ==
    /\ Idle(t)
    /\ f \notin gone /\ ThreadOf[f] = t
    /\ fiber' = [fiber EXCEPT ![t] = f]
    /\ UNCHANGED <<gone, jvm, guards, index, records, counter, pc>>

(* DeleteFiber for another fiber of the thread *)
DeleteFiber(t, f) ==
    /\ Idle(t)
    /\ f \notin gone /\ ThreadOf[f] = t /\ f # fiber[t]
    /\ gone' = gone \union {f}
    /\ FlsCallback(t, f)
    /\ UNCHANGED <<fiber, guards, index, counter>>

(* The thread ends, and with it the fiber that runs on it, the last one. *)
ThreadExit(t) ==
    /\ Idle(t)
    /\ \A f \in Fibers : ThreadOf[f] = t /\ f # fiber[t] => f \in gone
    /\ gone' = gone \union {fiber[t]}
    /\ FlsCallback(t, fiber[t])
    /\ UNCHANGED <<fiber, guards, index, counter>>

-------------------------------------------------------------------------------
(* Foreign JNI code.  It may detach a thread only while no guard is live. *)

ForeignAttach(t) ==
    /\ Idle(t) /\ MayAttach(t)
    /\ ~attached[t]
    /\ JvmAttach(t)
    /\ UNCHANGED <<fiber, gone, guards, index, records, counter, pc>>

ForeignDetach(t) ==
    /\ Idle(t)
    /\ attached[t]
    /\ attached' = [attached EXCEPT ![t] = FALSE]
    /\ UNCHANGED <<attachNumber, fiber, gone, guards, index, records, counter, pc>>

Terminated == (\A t \in Threads : pc[t] = "dead") /\ UNCHANGED vars

Next ==
    \/ \E t \in Threads :
        \/ AttachUnowned(t) \/ AttachScoped(t) \/ CountScoped(t) \/ DropGuard(t)
        \/ GetIndex(t) \/ AllocIndex(t) \/ PublishIndex(t)
        \/ SysAttach(t) \/ Record(t)
        \/ FlsDetachCurrentThread(t) \/ Uncount(t)
        \/ \E f \in Fibers : SwitchFiber(t, f) \/ DeleteFiber(t, f)
        \/ ThreadExit(t) \/ ForeignAttach(t) \/ ForeignDetach(t)
    \/ Terminated

Spec == Init /\ [][Next]_vars

-------------------------------------------------------------------------------
(* Properties *)

(* The slots that hold a record *)
Recorded == {s \in Fibers \X Indices : slot[s[1]][s[2]] # NoBox}

(***************************************************************************)
(* A record is found again: it is under FLS_INDEX, however many threads    *)
(* have raced to set it, its box is allocated and in no other slot, so     *)
(* neither the callback nor an explicit detach can free a box twice, and a *)
(* fiber that has ended has none.                                          *)
(***************************************************************************)
RecordsOwned ==
    \A s \in Recorded :
        /\ s[2] = flsIndex
        /\ s[1] \notin gone
        /\ slot[s[1]][s[2]] \in heap
        /\ \A r \in Recorded : slot[r[1]][r[2]] = slot[s[1]][s[2]] => r = s

(* What ATTACHED_THREADS stands for, including a decrement not yet made *)
Claims ==
    {<<"record", f>> : f \in {g \in Fibers : Value(g) # NoBox}}
    \union {<<"guard", t>> : t \in {u \in Threads : owned[u]}}
    \union {<<"uncount", t>> : t \in {u \in Threads : pc[u] = "uncount"}}

(***************************************************************************)
(* ATTACHED_THREADS counts the fibers that have a record and the owning    *)
(* guards, whatever foreign code and other fibers have done to the         *)
(* attachment of the thread, and so never falls below zero.  Each failure  *)
(* of FlsSetValue for a fiber without a record leaves it one too high.     *)
(***************************************************************************)
AttachmentsCounted == attachedThreads = Cardinality(Claims) + unrecorded

(* The contract, with the JNIEnv of an attached thread and its guard level *)
Contract == INSTANCE AttachmentContract
    WITH Envs <- Env, NoEnv <- NullEnv,
         jniEnv <- [t \in Threads |-> IF attached[t] THEN attachNumber[t] ELSE NullEnv],
         users <- nestLevel

(***************************************************************************)
(* The Windows build keeps the contract of ThreadAttachment: no fiber that *)
(* ends or detaches takes a JNIEnv from under a guard of its thread, and   *)
(* no assertion of the crate fails.                                        *)
(***************************************************************************)
KeepsContract == Contract!ContractSpec
===============================================================================
