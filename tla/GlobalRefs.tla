----------------------------- MODULE GlobalRefs -----------------------------
(***************************************************************************)
(* Global and Weak (refs/global.rs, refs/weak.rs), the functions of Env    *)
(* that create and cast references, and the drops of the wrappers, which   *)
(* may happen on any thread, attached or not, with an exception pending or *)
(* not, while the garbage collector runs.                                  *)
(*                                                                         *)
(* The JVM keeps references in slots and uses a slot again once it is      *)
(* free.  A wrapper holds the address of a slot; `obj` is the object it    *)
(* was made for, which the code does not store.  One call to the JVM is    *)
(* one step.                                                               *)
(***************************************************************************)
EXTENDS FiniteSets

CONSTANTS Threads, Objects,
          Slots,        \* the addresses of global and weak references
          Wrappers,     \* the Rust values of type Global or Weak
          Null

ASSUME GlobalRefsAssumption == Null \notin Threads \union Objects \union Slots \union Wrappers

VARIABLES
    alive,      \* the objects that were not collected
    slot,       \* Slot |-> the reference in it
    locals,     \* Thread |-> the objects its local references keep alive
    attached,   \* Thread |-> "none", "own", or "scoped": for the drop of a wrapper
    pending,    \* Thread |-> whether an exception is pending
    wrapper,    \* Wrapper |-> its kind, address, object and thread
    task,       \* Thread |-> what it is in the middle of
    leaked      \* the slots a drop could not free

jvm == <<alive, slot, locals>>
thread == <<attached, pending>>
vars == <<jvm, thread, wrapper, task, leaked>>

Free == [kind |-> "free", obj |-> Null]
NoWrapper == [kind |-> "none", slot |-> Null, obj |-> Null, at |-> Null]
Wrapped(k, s, o, t) == [kind |-> k, slot |-> s, obj |-> o, at |-> t]
Idle == [step |-> "idle"]

RefOps == {"new_global_ref", "new_weak_ref", "new_local_ref"}
DropSteps == {"attach", "delete", "detach"}

Checks == [step : {"check"}, obj : Objects, from : Wrappers \union {Null}]
Answers == [step : {"answer"}, obj : Objects \union {Null}, result : {"freed", "no_memory"}]
Drops == [step : DropSteps, slot : Slots, attached : {"none", "own"}, pending : BOOLEAN]

TypeOK ==
    /\ alive \subseteq Objects
    /\ slot \in [Slots -> [kind : {"free", "global", "weak"}, obj : Objects \union {Null}]]
    /\ locals \in [Threads -> SUBSET Objects]
    /\ attached \in [Threads -> {"none", "own", "scoped"}]
    /\ pending \in [Threads -> BOOLEAN]
    /\ wrapper \in [Wrappers -> [kind : {"none", "global", "weak", "raw"},
                                 slot : Slots \union {Null}, obj : Objects \union {Null},
                                 at : Threads \union {Null}]]
    /\ task \in [Threads -> {Idle} \union Checks \union Answers \union Drops]
    /\ leaked \subseteq Slots

Init ==
    /\ alive = Objects
    /\ slot = [s \in Slots |-> Free]
    /\ \E t \in Threads :
          /\ locals = [u \in Threads |-> IF u = t THEN Objects ELSE {}]
          /\ attached = [u \in Threads |-> IF u = t THEN "own" ELSE "none"]
    /\ pending = [t \in Threads |-> FALSE]
    /\ wrapper = [w \in Wrappers |-> NoWrapper]
    /\ task = [t \in Threads |-> Idle]
    /\ leaked = {}

IsIdle(t) == task[t] = Idle
HasEnv(t) == IsIdle(t) /\ attached[t] = "own"
Owned(w, t) == wrapper[w].kind \in {"global", "weak"} /\ wrapper[w].at = t
Borrowed(w) == \E t \in Threads : task[t] \in Checks /\ task[t].from = w

StronglyReachable(o) ==
    \/ \E t \in Threads : o \in locals[t]
    \/ \E s \in Slots : slot[s] = [kind |-> "global", obj |-> o]

-------------------------------------------------------------------------------
(* The JVM and the program around the wrappers *)

(* An object that nothing holds strongly may be collected at any time. *)
Collect(o) ==
    /\ o \in alive
    /\ ~StronglyReachable(o)
    /\ alive' = alive \ {o}
    /\ UNCHANGED <<slot, locals, thread, wrapper, task, leaked>>

(* Java hands t a reference to an object, or t deletes its own. *)
ChangeLocals(t) ==
    /\ HasEnv(t)
    /\ \E o \in alive :
          /\ o \notin locals[t] => StronglyReachable(o)
          /\ locals' = [locals EXCEPT ![t] = IF o \in @ THEN @ \ {o} ELSE @ \union {o}]
    /\ UNCHANGED <<alive, slot, thread, wrapper, task, leaked>>

(* The program attaches a thread, or detaches it with all its local references. *)
ChangeAttachment(t) ==
    /\ IsIdle(t)
    /\ attached' = [attached EXCEPT ![t] = IF @ = "own" THEN "none" ELSE "own"]
    /\ locals' = [locals EXCEPT ![t] = {}]
    /\ pending' = [pending EXCEPT ![t] = FALSE]
    /\ UNCHANGED <<alive, slot, wrapper, task, leaked>>

ChangePending(t) ==
    /\ HasEnv(t)
    /\ pending' = [pending EXCEPT ![t] = ~@]
    /\ UNCHANGED <<jvm, attached, wrapper, task, leaked>>

(* Global and Weak are Send. *)
Send(t, w) ==
    /\ IsIdle(t) /\ Owned(w, t) /\ ~Borrowed(w)
    /\ \E u \in Threads \ {t} : wrapper' = [wrapper EXCEPT ![w].at = u]
    /\ UNCHANGED <<jvm, thread, task, leaked>>

-------------------------------------------------------------------------------
(* new_global_ref, new_weak_ref and new_local_ref *)

(* The references t can pass to a call: a local one, or a wrapper of any thread; Null is null. *)
Sources(t) ==
    [from : {Null}, obj : locals[t] \union {Null}] \union
    {[from |-> w, obj |-> wrapper[w].obj] : w \in {v \in Wrappers : wrapper[v].kind \in {"global", "weak"}}}

(* The call fails with Error::ObjectFreed or JniError::NoMemory. *)
Answer(t, result, o) ==
    task' = [task EXCEPT ![t] = [step |-> "answer", obj |-> o, result |-> result]]

(* A reference made for object o *)
Make(t, op, o) ==
    /\ IF op = "new_local_ref"
       THEN locals' = [locals EXCEPT ![t] = @ \union {o}] /\ UNCHANGED <<slot, wrapper>>
       ELSE \E s \in Slots, w \in Wrappers :
               LET kind == IF op = "new_global_ref" THEN "global" ELSE "weak" IN
               /\ slot[s] = Free /\ wrapper[w] = NoWrapper
               /\ slot' = [slot EXCEPT ![s] = [kind |-> kind, obj |-> o]]
               /\ wrapper' = [wrapper EXCEPT ![w] = Wrapped(kind, s, o, t)]
               /\ UNCHANGED locals
    /\ UNCHANGED <<pending, task>>

(* A null reference is not passed on: it gives null, or has been freed. *)
NewRefOfNull(t, op) ==
    /\ IF op = "new_weak_ref" THEN Answer(t, "freed", Null) ELSE UNCHANGED task
    /\ IF op = "new_global_ref"
       THEN \E w \in Wrappers :
               /\ wrapper[w] = NoWrapper
               /\ wrapper' = [wrapper EXCEPT ![w] = Wrapped("global", Null, Null, t)]
       ELSE UNCHANGED wrapper
    /\ UNCHANGED <<slot, locals, pending>>

(* NewGlobalRef and NewLocalRef return null for want of memory, or if the object was collected. *)
NewRefNull(t, op, source) ==
    /\ op \in {"new_global_ref", "new_local_ref"}
    /\ task' = [task EXCEPT ![t] = [step |-> "check", obj |-> source.obj, from |-> source.from]]
    /\ UNCHANGED <<slot, locals, pending, wrapper>>

(***************************************************************************)
(* NewWeakGlobalRef returns null if the object was collected, and throws   *)
(* for want of memory.  The exception is caught, in a new local frame; if  *)
(* there is no memory for that either, it stays pending.                   *)
(***************************************************************************)
NewWeakFails(t, o) ==
    /\ IF o \in alive
       THEN \/ Answer(t, "no_memory", o) /\ UNCHANGED pending
            \/ pending' = [pending EXCEPT ![t] = TRUE] /\ UNCHANGED task
       ELSE Answer(t, "freed", o) /\ UNCHANGED pending
    /\ UNCHANGED <<slot, locals, wrapper>>

(* With an exception pending the call is not made, and fails. *)
NewRef(t, op) ==
    /\ HasEnv(t)
    /\ \E source \in Sources(t) :
          IF source.obj = Null THEN NewRefOfNull(t, op)
          ELSE /\ ~pending[t]
               /\ \/ source.obj \in alive /\ Make(t, op, source.obj)
                  \/ NewRefNull(t, op, source)
                  \/ op = "new_weak_ref" /\ NewWeakFails(t, source.obj)
    /\ UNCHANGED <<alive, attached, leaked>>

(* Mutant: a null result is taken to mean that the object was collected. *)
CheckFreedAssumed(t) ==
    /\ task[t] \in Checks
    /\ Answer(t, "freed", task[t].obj)
    /\ UNCHANGED <<jvm, thread, wrapper, leaked>>

(* is_same_object with null tells a collected object from want of memory. *)
CheckFreed(t) ==
    /\ task[t] \in Checks
    /\ Answer(t, IF task[t].obj \in alive THEN "no_memory" ELSE "freed", task[t].obj)
    /\ UNCHANGED <<jvm, thread, wrapper, leaked>>

(* The caller has seen the error. *)
Return(t) ==
    /\ task[t] \in Answers
    /\ task' = [task EXCEPT ![t] = Idle]
    /\ UNCHANGED <<jvm, thread, wrapper, leaked>>

-------------------------------------------------------------------------------
(* The drop of a Global or a Weak *)

(* A wrapper of null is dropped without a call. *)
StartDrop(t, s) ==
    task' = [task EXCEPT ![t] =
        IF s = Null THEN Idle
        ELSE [step |-> "attach", slot |-> s, attached |-> attached[t], pending |-> pending[t]]]

Drop(t, w) ==
    /\ IsIdle(t) /\ Owned(w, t) /\ ~Borrowed(w)
    /\ wrapper' = [wrapper EXCEPT ![w] = NoWrapper]
    /\ StartDrop(t, wrapper[w].slot)
    /\ UNCHANGED <<jvm, thread, leaked>>

(* Mutant: the thread is attached for good. *)
DropAttachPermanently(t) ==
    /\ task[t] \in Drops /\ task[t].step = "attach"
    /\ attached' = [attached EXCEPT ![t] = "own"]
    /\ task' = [task EXCEPT ![t].step = "delete"]
    /\ UNCHANGED <<jvm, pending, wrapper, leaked>>

(* A detached thread is attached for the drop; if the JVM refuses, that is the end of it. *)
DropAttach(t) ==
    /\ task[t] \in Drops /\ task[t].step = "attach"
    /\ \/ /\ attached' = [attached EXCEPT ![t] = IF @ = "none" THEN "scoped" ELSE @]
          /\ task' = [task EXCEPT ![t].step = "delete"]
          /\ UNCHANGED leaked
       \/ /\ attached[t] = "none"
          /\ leaked' = leaked \union {task[t].slot}
          /\ task' = [task EXCEPT ![t] = Idle]
          /\ UNCHANGED attached
    /\ UNCHANGED <<jvm, pending, wrapper>>

(* DeleteGlobalRef or DeleteWeakGlobalRef, with or without an exception pending *)
DropDelete(t) ==
    /\ task[t] \in Drops /\ task[t].step = "delete"
    /\ slot' = [slot EXCEPT ![task[t].slot] = Free]
    /\ task' = [task EXCEPT ![t].step = "detach"]
    /\ UNCHANGED <<alive, locals, thread, wrapper, leaked>>

(* Drop of the AttachGuard *)
DropDetach(t) ==
    /\ task[t] \in Drops /\ task[t].step = "detach"
    /\ attached' = [attached EXCEPT ![t] = IF @ = "scoped" THEN "none" ELSE @]
    /\ task' = [task EXCEPT ![t] = Idle]
    /\ UNCHANGED <<jvm, pending, wrapper, leaked>>

-------------------------------------------------------------------------------
(* Casts and raw references *)

(* Mutant: the reference is unwrapped before its class is known. *)
CastGlobalUnwrapped(t, w) ==
    /\ HasEnv(t) /\ Owned(w, t) /\ ~Borrowed(w) /\ wrapper[w].kind = "global"
    /\ \/ ~pending[t] /\ UNCHANGED wrapper
       \/ wrapper' = [wrapper EXCEPT ![w] = NoWrapper]
    /\ UNCHANGED <<jvm, thread, task, leaked>>

(* cast_global: the same reference in a new wrapper, or an error and the reference is dropped *)
CastGlobal(t, w) ==
    /\ HasEnv(t) /\ Owned(w, t) /\ ~Borrowed(w) /\ wrapper[w].kind = "global"
    /\ \/ ~pending[t] /\ UNCHANGED <<wrapper, task>>
       \/ /\ wrapper[w].slot # Null
          /\ wrapper' = [wrapper EXCEPT ![w] = NoWrapper]
          /\ StartDrop(t, wrapper[w].slot)
    /\ UNCHANGED <<jvm, thread, leaked>>

(* Mutant: the wrapper is dropped as well. *)
IntoRawDropping(t, w) ==
    /\ IsIdle(t) /\ Owned(w, t) /\ ~Borrowed(w) /\ wrapper[w].kind = "global"
    /\ wrapper' = [wrapper EXCEPT ![w].kind = "raw"]
    /\ StartDrop(t, wrapper[w].slot)
    /\ UNCHANGED <<jvm, thread, leaked>>

(* Global::into_raw: the reference outlives the wrapper. *)
IntoRaw(t, w) ==
    /\ IsIdle(t) /\ Owned(w, t) /\ ~Borrowed(w) /\ wrapper[w].kind = "global"
    /\ wrapper' = [wrapper EXCEPT ![w].kind = "raw"]
    /\ UNCHANGED <<jvm, thread, task, leaked>>

GlobalFromRaw(t, w) ==
    /\ HasEnv(t) /\ wrapper[w].kind = "raw" /\ wrapper[w].at = t
    /\ wrapper' = [wrapper EXCEPT ![w].kind = "global"]
    /\ UNCHANGED <<jvm, thread, task, leaked>>

-------------------------------------------------------------------------------
Next ==
    \/ \E o \in Objects : Collect(o)
    \/ \E t \in Threads :
        \/ ChangeLocals(t) \/ ChangeAttachment(t) \/ ChangePending(t)
        \/ \E op \in RefOps : NewRef(t, op)
        \/ CheckFreed(t) \/ Return(t)
        \/ DropAttach(t) \/ DropDelete(t) \/ DropDetach(t)
        \/ \E w \in Wrappers :
            \/ Send(t, w) \/ Drop(t, w)
            \/ CastGlobal(t, w) \/ IntoRaw(t, w) \/ GlobalFromRaw(t, w)

Spec == Init /\ [][Next]_vars

-------------------------------------------------------------------------------
(* Properties *)

(* The addresses t will pass to the JVM when it goes on with a drop *)
BeingDropped(t) ==
    IF task[t] \in Drops /\ task[t].step \in {"attach", "delete"} THEN {task[t].slot} ELSE {}

(***************************************************************************)
(* Whatever is created, sent, cast, unwrapped and dropped on whatever      *)
(* thread, a wrapper refers to the object it was made for, through a       *)
(* reference of its kind that is its own; a Global keeps its object alive. *)
(***************************************************************************)
WrappersOwnTheirRefs ==
    \A w \in Wrappers : wrapper[w].slot # Null =>
        LET s == wrapper[w].slot IN
        /\ slot[s] = [kind |-> IF wrapper[w].kind = "weak" THEN "weak" ELSE "global",
                      obj |-> wrapper[w].obj]
        /\ slot[s].kind = "global" => wrapper[w].obj \in alive
        /\ \A v \in Wrappers \ {w} : wrapper[v].slot # s
        /\ \A t \in Threads : s \notin BeingDropped(t)

(***************************************************************************)
(* No reference is forgotten: each belongs to a wrapper, or is about to be *)
(* deleted by a drop, unless the JVM refused to attach a dropping thread.  *)
(***************************************************************************)
NoRefForgotten ==
    \A s \in Slots : slot[s] # Free =>
        \/ \E w \in Wrappers : wrapper[w].slot = s
        \/ \E t \in Threads : s \in BeingDropped(t)
        \/ s \in leaked

(***************************************************************************)
(* When an upgrade of a Weak says that the object was collected, it was,   *)
(* even if the JVM returned null for want of memory, and it stays so.      *)
(***************************************************************************)
FreedMeansCollected ==
    \A t \in Threads : task[t] \in Answers =>
        (task[t].result = "freed" => task[t].obj \notin alive)

(***************************************************************************)
(* A drop leaves the thread as it was: attached or not, and with the       *)
(* exception pending that was pending.                                     *)
(***************************************************************************)
DropsLeaveNoTrace ==
    [][\A t \in Threads : task[t] \in Drops =>
          /\ pending'[t] = task[t].pending
          /\ task'[t] = Idle => attached'[t] = task[t].attached]_vars
===============================================================================
