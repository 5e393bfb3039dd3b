------------------------------ MODULE RustField ------------------------------
(***************************************************************************)
(* set_rust_field, get_rust_field and take_rust_field (env.rs): a Rust     *)
(* value, boxed with a mutex, whose address a Java object keeps in a long  *)
(* field.  Every call runs under the monitor of the object.  A get waits   *)
(* for the mutex with the monitor held and returns a MutexGuard that       *)
(* outlives the monitor; a take gets the box back and frees it.            *)
(*                                                                         *)
(* One object, any number of threads.  A thread may also hold the monitor  *)
(* through a synchronized block of Java that its calls are made from, and  *)
(* it may panic while it holds a MutexGuard, which poisons the mutex.      *)
(* Once freed memory is used, behaviour is undefined and the model stops.  *)
(***************************************************************************)
EXTENDS Integers

CONSTANTS Threads,
          Boxes,        \* the addresses of Box<Mutex<T>> that can be allocated
          NoBox,        \* the null value of the long field
          Nobody,       \* owner of a free lock
          MaxCalls      \* bound: calls and synchronized blocks of a thread

ASSUME RustFieldAssumption ==
    /\ NoBox \notin Boxes /\ Nobody \notin Threads
    /\ MaxCalls \in Nat

VARIABLES
    owner,      \* thread in the object's monitor
    entered,    \* how many times it has entered it
    field,      \* the long field
    box,        \* Box |-> "unused", "live" or "freed"
    mutex,      \* Box |-> the thread that has it locked
    poisoned,   \* Box |-> whether a holder has panicked
    guard,      \* Thread |-> the box its MutexGuard refers to
    ptr,        \* Thread |-> the box address it is working with
    inSync,     \* Thread |-> is it in a synchronized block of Java
    pc,         \* Thread |-> its next step
    calls,      \* Thread |-> calls started
    takeFailed  \* a take has returned Error::TryLock

locks == <<owner, entered>>
vars == <<owner, entered, field, box, mutex, poisoned, guard, ptr, inSync, pc,
          calls, takeFailed>>

Steps == {"idle", "set_lock", "set_read", "set_write", "get_lock", "get_read",
          "get_mutex", "take_lock", "take_read", "take_mutex", "take_write",
          "undefined"}

TypeOK ==
    /\ owner \in Threads \union {Nobody}
    /\ entered \in 0..2
    /\ field \in Boxes \union {NoBox}
    /\ box \in [Boxes -> {"unused", "live", "freed"}]
    /\ mutex \in [Boxes -> Threads \union {Nobody}]
    /\ poisoned \in [Boxes -> BOOLEAN]
    /\ guard \in [Threads -> Boxes \union {NoBox}]
    /\ ptr \in [Threads -> Boxes \union {NoBox}]
    /\ inSync \in [Threads -> BOOLEAN]
    /\ pc \in [Threads -> Steps]
    /\ calls \in [Threads -> 0..MaxCalls]
    /\ takeFailed \in BOOLEAN

Init ==
    /\ owner = Nobody /\ entered = 0
    /\ field = NoBox
    /\ box = [b \in Boxes |-> "unused"]
    /\ mutex = [b \in Boxes |-> Nobody]
    /\ poisoned = [b \in Boxes |-> FALSE]
    /\ guard = [t \in Threads |-> NoBox]
    /\ ptr = [t \in Threads |-> NoBox]
    /\ inSync = [t \in Threads |-> FALSE]
    /\ pc = [t \in Threads |-> "idle"]
    /\ calls = [t \in Threads |-> 0]
    /\ takeFailed = FALSE

Undefined == \E t \in Threads : pc[t] = "undefined"
At(t, step) == ~Undefined /\ pc[t] = step
Goto(t, step) == pc' = [pc EXCEPT ![t] = step]

-------------------------------------------------------------------------------
(* The monitor: reentrant, entered by lock_obj and by synchronized blocks *)

MonitorEnter(t) ==
    /\ owner \in {t, Nobody}
    /\ owner' = t
    /\ entered' = entered + 1

(* Drop of the MonitorGuard *)
MonitorExit(t) ==
    /\ entered' = entered - 1
    /\ owner' = IF entered = 1 THEN Nobody ELSE owner

(* The call is over: the monitor guard is dropped and the caller goes on. *)
Return(t) ==
    /\ MonitorExit(t)
    /\ Goto(t, "idle")
    /\ ptr' = [ptr EXCEPT ![t] = NoBox]

Call(t) ==
    /\ At(t, "idle")
    /\ calls[t] < MaxCalls
    /\ calls' = [calls EXCEPT ![t] = @ + 1]
    /\ \E op \in {"set_lock", "get_lock", "take_lock"} : Goto(t, op)
    /\ UNCHANGED <<locks, field, box, mutex, poisoned, guard, ptr, inSync, takeFailed>>

(* lock_rust_field: the class and the field are looked up, then lock_obj *)
LockRustField(t, from, to) ==
    /\ At(t, from)
    /\ MonitorEnter(t)
    /\ Goto(t, to)
    /\ UNCHANGED <<field, box, mutex, poisoned, guard, ptr, inSync, calls, takeFailed>>

Lock(t) ==
    \/ LockRustField(t, "set_lock", "set_read")
    \/ LockRustField(t, "get_lock", "get_read")
    \/ LockRustField(t, "take_lock", "take_read")

EnterSynchronized(t) ==
    /\ At(t, "idle")
    /\ ~inSync[t] /\ calls[t] < MaxCalls
    /\ MonitorEnter(t)
    /\ inSync' = [inSync EXCEPT ![t] = TRUE]
    /\ calls' = [calls EXCEPT ![t] = @ + 1]
    /\ UNCHANGED <<field, box, mutex, poisoned, guard, ptr, pc, takeFailed>>

LeaveSynchronized(t) ==
    /\ At(t, "idle")
    /\ inSync[t]
    /\ MonitorExit(t)
    /\ inSync' = [inSync EXCEPT ![t] = FALSE]
    /\ UNCHANGED <<field, box, mutex, poisoned, guard, ptr, pc, calls, takeFailed>>

-------------------------------------------------------------------------------
(* set_rust_field *)

(* Mutant: FieldAlreadySet is never returned. *)
SetReadUnchecked(t) ==
    /\ At(t, "set_read")
    /\ Goto(t, "set_write")
    /\ UNCHANGED <<locks, field, box, mutex, poisoned, guard, ptr, inSync, calls, takeFailed>>

(* Error::FieldAlreadySet unless the field is null *)
SetRead(t) ==
    /\ At(t, "set_read")
    /\ IF field = NoBox
       THEN Goto(t, "set_write") /\ UNCHANGED <<locks, ptr>>
       ELSE Return(t)
    /\ UNCHANGED <<field, box, mutex, poisoned, guard, inSync, calls, takeFailed>>

(* Box::into_raw of a new box, whose address goes to the field *)
SetWrite(t) ==
    /\ At(t, "set_write")
    /\ \E b \in Boxes :
          /\ box[b] = "unused"
          /\ box' = [box EXCEPT ![b] = "live"]
          /\ field' = b
    /\ Return(t)
    /\ UNCHANGED <<mutex, poisoned, guard, inSync, calls, takeFailed>>

(* Bound: the addresses are used up. *)
SetExhausted(t) ==
    /\ At(t, "set_write")
    /\ \A b \in Boxes : box[b] # "unused"
    /\ Return(t)
    /\ UNCHANGED <<field, box, mutex, poisoned, guard, inSync, calls, takeFailed>>

-------------------------------------------------------------------------------
(* get_rust_field *)

(* Mutant: the monitor is released before the mutex is locked. *)
GetReadReleasing(t) ==
    /\ At(t, "get_read")
    /\ field # NoBox
    /\ ptr' = [ptr EXCEPT ![t] = field]
    /\ Goto(t, "get_mutex")
    /\ MonitorExit(t)
    /\ UNCHANGED <<field, box, mutex, poisoned, guard, inSync, calls, takeFailed>>

(* Error::NullPtr if the field is null *)
GetRead(t) ==
    /\ At(t, "get_read")
    /\ IF field = NoBox
       THEN Return(t)
       ELSE ptr' = [ptr EXCEPT ![t] = field] /\ Goto(t, "get_mutex") /\ UNCHANGED locks
    /\ UNCHANGED <<field, box, mutex, poisoned, guard, inSync, calls, takeFailed>>

(* Mutant: the panic of a poisoned mutex leaks the monitor guard. *)
GetMutexLeaking(t) ==
    /\ At(t, "get_mutex")
    /\ mutex[ptr[t]] = Nobody
    /\ IF poisoned[ptr[t]]
       THEN Goto(t, "idle") /\ UNCHANGED <<mutex, guard, locks, ptr>>
       ELSE /\ mutex' = [mutex EXCEPT ![ptr[t]] = t]
            /\ guard' = [guard EXCEPT ![t] = ptr[t]]
            /\ Return(t)
    /\ UNCHANGED <<field, box, poisoned, inSync, calls, takeFailed>>

(***************************************************************************)
(* lock().unwrap(), waiting for the mutex.  A poisoned mutex makes it      *)
(* panic; unwinding drops the monitor guard all the same.                  *)
(***************************************************************************)
GetMutex(t) ==
    LET b == ptr[t] IN
    /\ At(t, "get_mutex")
    /\ box[b] = "live"
    /\ mutex[b] = Nobody
    /\ IF poisoned[b]
       THEN UNCHANGED <<mutex, guard>>
       ELSE /\ mutex' = [mutex EXCEPT ![b] = t]
            /\ guard' = [guard EXCEPT ![t] = b]
    /\ Return(t)
    /\ UNCHANGED <<field, box, poisoned, inSync, calls, takeFailed>>

(* The caller is done with the value, or panics with the guard in scope. *)
DropMutexGuard(t) ==
    LET b == guard[t] IN
    /\ At(t, "idle")
    /\ b # NoBox
    /\ box[b] = "live"
    /\ mutex' = [mutex EXCEPT ![b] = Nobody]
    /\ \E panicking \in BOOLEAN : poisoned' = [poisoned EXCEPT ![b] = @ \/ panicking]
    /\ guard' = [guard EXCEPT ![t] = NoBox]
    /\ UNCHANGED <<locks, field, box, ptr, inSync, pc, calls, takeFailed>>

-------------------------------------------------------------------------------
(* take_rust_field *)

(* Error::NullPtr if the field is null, else Box::from_raw: t owns the box. *)
TakeRead(t) ==
    /\ At(t, "take_read")
    /\ IF field = NoBox
       THEN Return(t)
       ELSE ptr' = [ptr EXCEPT ![t] = field] /\ Goto(t, "take_mutex") /\ UNCHANGED locks
    /\ UNCHANGED <<field, box, mutex, poisoned, guard, inSync, calls, takeFailed>>

(***************************************************************************)
(* try_lock()? on the box t owns.  When the mutex is locked or poisoned,   *)
(* the early return drops the box, and the field keeps its address.        *)
(***************************************************************************)
TakeMutex(t) ==
    LET b == ptr[t] IN
    /\ At(t, "take_mutex")
    /\ box[b] = "live"
    /\ IF mutex[b] = Nobody /\ ~poisoned[b]
       THEN Goto(t, "take_write") /\ UNCHANGED <<locks, ptr, box, takeFailed>>
       ELSE /\ box' = [box EXCEPT ![b] = "freed"]
            /\ takeFailed' = TRUE
            /\ Return(t)
    /\ UNCHANGED <<field, mutex, poisoned, guard, inSync, calls>>

(* The field is cleared and the value moved out of the box. *)
TakeWrite(t) ==
    /\ At(t, "take_write")
    /\ field' = NoBox
    /\ box' = [box EXCEPT ![ptr[t]] = "freed"]
    /\ Return(t)
    /\ UNCHANGED <<mutex, poisoned, guard, inSync, calls, takeFailed>>

(* A freed box is locked, freed again, or unlocked through a guard. *)
UseAfterFree(t) ==
    /\ \/ pc[t] \in {"get_mutex", "take_mutex"} /\ box[ptr[t]] = "freed"
       \/ pc[t] = "idle" /\ guard[t] # NoBox /\ box[guard[t]] = "freed"
    /\ ~Undefined
    /\ Goto(t, "undefined")
    /\ UNCHANGED <<locks, field, box, mutex, poisoned, guard, ptr, inSync, calls, takeFailed>>

-------------------------------------------------------------------------------
Finished == Undefined \/ \A t \in Threads :
    calls[t] = MaxCalls /\ pc[t] = "idle" /\ guard[t] = NoBox /\ ~inSync[t]

Terminated == Finished /\ UNCHANGED vars

Step(t) ==
    \/ Lock(t)
    \/ SetRead(t) \/ SetWrite(t) \/ SetExhausted(t)
    \/ GetRead(t) \/ GetMutex(t)
    \/ TakeRead(t) \/ TakeMutex(t) \/ TakeWrite(t)
    \/ UseAfterFree(t)

Next ==
    \/ \E t \in Threads :
        \/ Call(t) \/ Step(t) \/ DropMutexGuard(t)
        \/ EnterSynchronized(t) \/ LeaveSynchronized(t)
    \/ Terminated

(***************************************************************************)
(* A thread scheduled by the OS goes on with a call it has started, drops  *)
(* its guard and leaves its synchronized block.  A waiting thread gets a   *)
(* lock that stays free; nothing is assumed about who wins a contended     *)
(* lock, and nobody has to start a call.                                   *)
(***************************************************************************)
Fairness ==
    \A t \in Threads :
        WF_vars(Step(t)) /\ WF_vars(DropMutexGuard(t)) /\ WF_vars(LeaveSynchronized(t))

Spec == Init /\ [][Next]_vars /\ Fairness

-------------------------------------------------------------------------------
(* Properties *)

(***************************************************************************)
(* Until a take has failed, no interleaving of sets, gets, takes and       *)
(* panics leaves an address of freed memory where it can be used: in the   *)
(* field, in a MutexGuard or in the hands of a thread.                     *)
(***************************************************************************)
NothingDangles ==
    ~takeFailed =>
        /\ field # NoBox => box[field] = "live"
        /\ \A t \in Threads :
              /\ guard[t] # NoBox => box[guard[t]] = "live"
              /\ ptr[t] # NoBox => box[ptr[t]] = "live"

(***************************************************************************)
(* A value handed to Java is never lost: a box that was not freed is the   *)
(* one the field holds, whoever raced to set the field.                    *)
(***************************************************************************)
NoValueLost == \A b \in Boxes : box[b] = "live" => field = b

(***************************************************************************)
(* A call that waits for the monitor or for the mutex returns, however the *)
(* other calls interleave and whoever panics, unless some thread makes a   *)
(* call, or stays in a synchronized block, with a MutexGuard in its hands. *)
(***************************************************************************)
HoldsAcross(t) == guard[t] # NoBox /\ (pc[t] # "idle" \/ owner = t)
EveryCallReturns ==
    \A t \in Threads :
        (pc[t] # "idle") ~> (pc[t] = "idle" \/ Undefined \/ \E u \in Threads : HoldsAcross(u))

(***************************************************************************)
(* What the comment in take_rust_field says of its try_lock: it prevents   *)
(* the mutex from being consumed while there is an outstanding lock.       *)
(***************************************************************************)
LockedBoxNotConsumed ==
    \A t \in Threads : guard[t] # NoBox => box[guard[t]] # "freed"
===============================================================================
