---------------------------- MODULE RustFieldProofs ----------------------------
(***************************************************************************)
(* Proofs about RustField, for any set of threads and of addresses.        *)
(*                                                                         *)
(* The argument: between entering and leaving the monitor a thread is the  *)
(* only one, so the address it has read is still the field's; a MutexGuard *)
(* refers to the box in the field, whose mutex its thread has; and a take  *)
(* that got past try_lock still finds the mutex free when it frees the     *)
(* box, because nobody can have locked it without the monitor.  Calls end  *)
(* because whoever waits does so for a thread that comes to unlock.        *)
(***************************************************************************)
EXTENDS RustField, TLAPS

(* The steps of a call that has entered the monitor *)
Critical == {"set_read", "set_write", "get_read", "get_mutex", "take_read", "take_mutex",
             "take_write"}
(* The steps of a call that has read an address from the field *)
Working == {"get_mutex", "take_mutex", "take_write"}

Depth(t) == (IF inSync[t] THEN 1 ELSE 0) + (IF pc[t] \in Critical THEN 1 ELSE 0)

MonitorInv ==
    /\ owner = Nobody <=> entered = 0
    /\ \A t \in Threads : Depth(t) = IF owner = t THEN entered ELSE 0

CallInv ==
    \A t \in Threads :
        /\ pc[t] = "set_write" => field = NoBox
        /\ pc[t] \in Working => field # NoBox
        /\ ptr[t] = IF pc[t] \in Working THEN field ELSE NoBox
        /\ pc[t] = "take_write" => mutex[ptr[t]] = Nobody

GuardInv ==
    \A t \in Threads :
        guard[t] # NoBox => guard[t] = field /\ mutex[guard[t]] = t

LiveInv == ~takeFailed /\ field # NoBox => box[field] = "live"

(* The inductive invariant *)
IInv ==
    /\ TypeOK
    /\ NoValueLost
    /\ Undefined => takeFailed
    /\ ~Undefined => MonitorInv /\ CallInv /\ GuardInv /\ LiveInv

-------------------------------------------------------------------------------
(* What the monitor gives *)

(* Two calls are never inside the monitor at once. *)
LEMMA MutualExclusion ==
    ASSUME TypeOK, MonitorInv, NEW t \in Threads, NEW u \in Threads,
           pc[t] \in Critical, pc[u] \in Critical
    PROVE  t = u
BY DEF TypeOK, MonitorInv, Depth

(* The invariant holds at first. *)
LEMMA InitInv == Init => IInv
<1> SUFFICES ASSUME Init PROVE IInv
  OBVIOUS
<1> USE RustFieldAssumption
<1>1. TypeOK
  <2>1. owner \in Threads \union {Nobody} /\ entered \in 0..2
    BY DEF Init
  <2>2. /\ field \in Boxes \union {NoBox}
        /\ box \in [Boxes -> {"unused", "live", "freed"}]
        /\ mutex \in [Boxes -> Threads \union {Nobody}]
        /\ poisoned \in [Boxes -> BOOLEAN]
    BY DEF Init
  <2>3. /\ guard \in [Threads -> Boxes \union {NoBox}]
        /\ ptr \in [Threads -> Boxes \union {NoBox}]
        /\ inSync \in [Threads -> BOOLEAN]
    BY DEF Init
  <2>4. pc \in [Threads -> Steps]
    BY DEF Init, Steps
  <2>5. calls \in [Threads -> 0..MaxCalls]
    BY DEF Init
  <2>6. takeFailed \in BOOLEAN
    BY DEF Init
  <2> QED
    BY <2>1, <2>2, <2>3, <2>4, <2>5, <2>6 DEF TypeOK
<1>2. ~Undefined
  BY DEF Init, Undefined
<1>3. MonitorInv
  BY DEF Init, MonitorInv, Depth, Critical
<1>4. CallInv /\ GuardInv /\ LiveInv /\ NoValueLost
  BY DEF Init, CallInv, GuardInv, LiveInv, NoValueLost, Working
<1> QED
  BY <1>1, <1>2, <1>3, <1>4 DEF IInv

(* No step of a thread other than UseAfterFree makes the state undefined. *)
LEMMA StaysDefined ==
    ASSUME ~Undefined, TypeOK, NEW t \in Threads, NEW step,
           Goto(t, step), step # "undefined"
    PROVE  ~Undefined'
BY DEF Undefined, TypeOK, Goto

-------------------------------------------------------------------------------
(* Entering and leaving *)

(* lock_rust_field: a call enters the monitor and holds no address yet. *)
LEMMA EnterStep ==
    ASSUME IInv, NEW t \in Threads, Lock(t)
    PROVE  IInv'
<1> USE RustFieldAssumption
<1>1. PICK from \in {"set_lock", "get_lock", "take_lock"},
           to \in {"set_read", "get_read", "take_read"} : LockRustField(t, from, to)
  BY DEF Lock
<1>2. ~Undefined /\ pc[t] = from
  BY <1>1 DEF LockRustField, At
<1>3. TypeOK /\ MonitorInv /\ CallInv /\ GuardInv /\ LiveInv /\ NoValueLost
  BY <1>2 DEF IInv
<1>4. ~Undefined'
  BY <1>1, <1>2, <1>3, StaysDefined DEF LockRustField
<1>5. entered \in 0..1
  BY <1>1, <1>2, <1>3 DEF LockRustField, MonitorEnter, MonitorInv, Depth, TypeOK, Critical
<1>6. TypeOK'
  BY <1>1, <1>3, <1>5 DEF LockRustField, MonitorEnter, Goto, TypeOK, Steps
<1>7. MonitorInv'
  <2>1. ASSUME NEW u \in Threads PROVE (Depth(u) = IF owner = u THEN entered ELSE 0)'
    BY <1>1, <1>2, <1>3, <1>5 DEF LockRustField, MonitorEnter, Goto, MonitorInv, Depth,
       TypeOK, Critical
  <2> QED
    BY <2>1, <1>1, <1>5 DEF LockRustField, MonitorEnter, MonitorInv
<1>8. (CallInv /\ GuardInv /\ LiveInv /\ NoValueLost)'
  BY <1>1, <1>2, <1>3 DEF LockRustField, Goto, TypeOK, CallInv, GuardInv, LiveInv, NoValueLost,
     Working
<1> QED
  BY <1>4, <1>6, <1>7, <1>8 DEF IInv

(* A synchronized block of Java is entered and left around calls. *)
LEMMA SynchronizedStep ==
    ASSUME IInv, NEW t \in Threads, EnterSynchronized(t) \/ LeaveSynchronized(t)
    PROVE  IInv'
<1> USE RustFieldAssumption
<1>1. ~Undefined /\ pc[t] = "idle" /\ UNCHANGED pc
  BY DEF EnterSynchronized, LeaveSynchronized, At
<1>2. TypeOK /\ MonitorInv /\ CallInv /\ GuardInv /\ LiveInv /\ NoValueLost
  BY <1>1 DEF IInv
<1>3. ~Undefined'
  BY <1>1 DEF Undefined
<1>4. Depth(t) = IF inSync[t] THEN 1 ELSE 0
  BY <1>1 DEF Depth, Critical
<1>5. CASE EnterSynchronized(t)
  <2>1. entered = 0
    BY <1>2, <1>4, <1>5 DEF EnterSynchronized, MonitorEnter, MonitorInv
  <2>2. TypeOK'
    BY <1>2, <1>5, <2>1 DEF EnterSynchronized, MonitorEnter, TypeOK
  <2>3. MonitorInv'
    BY <1>1, <1>2, <1>5, <2>1 DEF EnterSynchronized, MonitorEnter, MonitorInv, Depth, TypeOK,
       Critical
  <2>4. (CallInv /\ GuardInv /\ LiveInv /\ NoValueLost)'
    BY <1>2, <1>5 DEF EnterSynchronized, CallInv, GuardInv, LiveInv, NoValueLost
  <2> QED
    BY <1>3, <2>2, <2>3, <2>4 DEF IInv
<1>6. CASE LeaveSynchronized(t)
  <2>1. owner = t /\ entered = 1
    BY <1>2, <1>4, <1>6 DEF LeaveSynchronized, MonitorInv
  <2>2. TypeOK'
    BY <1>2, <1>6, <2>1 DEF LeaveSynchronized, MonitorExit, TypeOK
  <2>3. MonitorInv'
    BY <1>1, <1>2, <1>6, <2>1 DEF LeaveSynchronized, MonitorExit, MonitorInv, Depth, TypeOK,
       Critical
  <2>4. (CallInv /\ GuardInv /\ LiveInv /\ NoValueLost)'
    BY <1>2, <1>6 DEF LeaveSynchronized, CallInv, GuardInv, LiveInv, NoValueLost
  <2> QED
    BY <1>3, <2>2, <2>3, <2>4 DEF IInv
<1> QED
  BY <1>5, <1>6

(* A call leaves the monitor, whatever else its last step does. *)
LEMMA ReturnLeaves ==
    ASSUME TypeOK, MonitorInv, ~Undefined, NEW t \in Threads, pc[t] \in Critical,
           Return(t), UNCHANGED inSync
    PROVE  /\ ~Undefined' /\ MonitorInv'
           /\ owner' \in Threads \union {Nobody} /\ entered' \in 0..2
           /\ pc' \in [Threads -> Steps] /\ pc'[t] = "idle"
           /\ ptr' \in [Threads -> Boxes \union {NoBox}] /\ ptr'[t] = NoBox
           /\ \A u \in Threads : u # t => pc'[u] = pc[u] /\ ptr'[u] = ptr[u]
           /\ \A u \in Threads : u # t => pc[u] \notin Critical
<1> USE RustFieldAssumption
<1>1. owner = t /\ entered = Depth(t) /\ entered \in 1..2
  BY DEF MonitorInv, Depth, TypeOK
<1>2. ~Undefined'
  BY StaysDefined DEF Return
<1>3. /\ pc' \in [Threads -> Steps] /\ pc'[t] = "idle"
      /\ ptr' \in [Threads -> Boxes \union {NoBox}] /\ ptr'[t] = NoBox
      /\ \A u \in Threads : u # t => pc'[u] = pc[u] /\ ptr'[u] = ptr[u]
  BY DEF Return, Goto, TypeOK, Steps
<1>4. entered' = entered - 1 /\ owner' = IF entered = 1 THEN Nobody ELSE owner
  BY DEF Return, MonitorExit
<1>5. \A u \in Threads : u # t => pc[u] \notin Critical
  BY MutualExclusion
<1>6. Depth(t)' = entered'
  BY <1>1, <1>3, <1>4 DEF Depth, TypeOK, Critical
<1>7. ASSUME NEW u \in Threads, u # t PROVE Depth(u)' = 0
  BY <1>1, <1>3, <1>7 DEF Depth, MonitorInv
<1>8. MonitorInv'
  BY <1>1, <1>4, <1>6, <1>7 DEF MonitorInv
<1> QED
  BY <1>1, <1>2, <1>3, <1>4, <1>5, <1>8
-------------------------------------------------------------------------------
(* Calls that leave the state they found, other than by returning *)

(* A call begins, outside the monitor. *)
LEMMA CallStep ==
    ASSUME IInv, NEW t \in Threads, Call(t)
    PROVE  IInv'
<1> USE RustFieldAssumption
<1>1. PICK op \in {"set_lock", "get_lock", "take_lock"} : Goto(t, op)
  BY DEF Call
<1>2. ~Undefined /\ pc[t] = "idle"
  BY DEF Call, At
<1>3. TypeOK /\ MonitorInv /\ CallInv /\ GuardInv /\ LiveInv /\ NoValueLost
  BY <1>2 DEF IInv
<1>4. ~Undefined'
  BY <1>1, <1>2, <1>3, StaysDefined
<1>5. TypeOK'
  <2>1. pc' \in [Threads -> Steps]
    BY <1>1, <1>3 DEF Goto, TypeOK, Steps
  <2>2. calls' \in [Threads -> 0..MaxCalls]
    BY <1>3 DEF Call, TypeOK
  <2> QED
    BY <1>3, <2>1, <2>2 DEF Call, locks, TypeOK
<1>6. MonitorInv'
  BY <1>1, <1>2, <1>3 DEF Call, locks, Goto, MonitorInv, Depth, TypeOK, Critical
<1>7. (CallInv /\ GuardInv /\ LiveInv /\ NoValueLost)'
  BY <1>1, <1>2, <1>3 DEF Call, Goto, TypeOK, CallInv, GuardInv, LiveInv, NoValueLost, Working
<1> QED
  BY <1>4, <1>5, <1>6, <1>7 DEF IInv

(* A step of a call inside the monitor, with or without an address of the field *)
LEMMA InsideStep ==
    ASSUME TypeOK, MonitorInv, ~Undefined, NEW t \in Threads, NEW step \in Critical,
           pc[t] \in Critical, Goto(t, step), UNCHANGED <<locks, inSync>>
    PROVE  /\ ~Undefined' /\ MonitorInv'
           /\ pc' \in [Threads -> Steps] /\ pc'[t] = step
           /\ \A u \in Threads : u # t => pc'[u] = pc[u] /\ pc[u] \notin Critical
<1>1. ~Undefined'
  BY StaysDefined DEF Critical
<1>2. pc' \in [Threads -> Steps] /\ pc'[t] = step
  BY DEF Goto, TypeOK, Steps, Critical
<1>3. \A u \in Threads : u # t => pc'[u] = pc[u]
  BY DEF Goto, TypeOK
<1>4. \A u \in Threads : u # t => pc[u] \notin Critical
  BY MutualExclusion
<1>5. \A u \in Threads : Depth(u)' = Depth(u)
  BY <1>2, <1>3 DEF Depth
<1>6. MonitorInv'
  BY <1>5 DEF MonitorInv, locks
<1> QED
  BY <1>1, <1>2, <1>3, <1>4, <1>6

(* Nothing but the state of the call has changed: its address is the one of the field. *)
LEMMA ReadStep ==
    ASSUME TypeOK, MonitorInv, CallInv, GuardInv, LiveInv, NoValueLost, ~Undefined,
           NEW t \in Threads, pc[t] \in Critical,
           UNCHANGED <<field, box, mutex, poisoned, guard, inSync, calls, takeFailed>>,
           \/ Return(t)
           \/ /\ UNCHANGED locks
              /\ \/ field = NoBox /\ Goto(t, "set_write") /\ UNCHANGED ptr
                 \/ /\ field # NoBox
                    /\ ptr' = [ptr EXCEPT ![t] = field]
                    /\ Goto(t, "get_mutex") \/ Goto(t, "take_mutex")
                 \/ /\ pc[t] \in Working /\ mutex[ptr[t]] = Nobody
                    /\ Goto(t, "take_write") /\ UNCHANGED ptr
    PROVE  IInv'
<1> USE RustFieldAssumption
<1>1. CASE Return(t)
  <2>1. TypeOK'
    <3>1. /\ owner' \in Threads \union {Nobody} /\ entered' \in 0..2
          /\ pc' \in [Threads -> Steps] /\ ptr' \in [Threads -> Boxes \union {NoBox}]
      BY <1>1, ReturnLeaves
    <3> QED
      BY <3>1 DEF TypeOK
  <2>2. CallInv'
    BY <1>1, ReturnLeaves DEF CallInv, Working, Critical
  <2>3. (GuardInv /\ LiveInv /\ NoValueLost)'
    BY DEF GuardInv, LiveInv, NoValueLost
  <2> QED
    BY <1>1, <2>1, <2>2, <2>3, ReturnLeaves DEF IInv
<1>2. CASE UNCHANGED locks /\ ~Return(t)
  <2>1. PICK step \in {"set_write", "get_mutex", "take_mutex", "take_write"} : Goto(t, step)
    BY <1>2
  <2>2. step \in Critical
    BY <2>1 DEF Critical
  <2>3. /\ ~Undefined' /\ MonitorInv'
        /\ pc' \in [Threads -> Steps] /\ pc'[t] = step
        /\ \A u \in Threads : u # t => pc'[u] = pc[u] /\ pc[u] \notin Critical
    BY <1>2, <2>1, <2>2, InsideStep
  <2>4. /\ step = "set_write" => field = NoBox /\ ptr' = ptr /\ pc[t] \notin Working
        /\ step \in Working => field # NoBox /\ ptr'[t] = field
        /\ step = "take_write" => mutex[field] = Nobody
        /\ \A u \in Threads : u # t => ptr'[u] = ptr[u]
        /\ ptr' \in [Threads -> Boxes \union {NoBox}]
    <3>1. CASE step = "set_write"
      BY <1>2, <2>1, <2>3, <3>1 DEF CallInv, TypeOK, Goto, Working
    <3>2. CASE step \in {"get_mutex", "take_mutex"}
      BY <1>2, <2>1, <2>3, <3>2 DEF CallInv, TypeOK, Goto, Working
    <3>3. CASE step = "take_write"
      BY <1>2, <2>1, <2>3, <3>3 DEF CallInv, TypeOK, Goto, Working
    <3> QED
      BY <2>1, <3>1, <3>2, <3>3
  <2>5. CallInv'
    <3>1. ASSUME NEW u \in Threads, u # t PROVE ptr'[u] = NoBox /\ pc'[u] \notin Critical
      BY <2>3, <2>4, <3>1 DEF CallInv, Working, Critical
    <3> QED
      BY <2>1, <2>3, <2>4, <3>1 DEF CallInv, Working, Critical
  <2>6. TypeOK'
    BY <1>2, <2>3, <2>4 DEF TypeOK, locks
  <2>7. (GuardInv /\ LiveInv /\ NoValueLost)'
    BY DEF GuardInv, LiveInv, NoValueLost
  <2> QED
    BY <2>3, <2>5, <2>6, <2>7 DEF IInv
<1> QED
  BY <1>1, <1>2

-------------------------------------------------------------------------------
(* The operations *)

(* SetRead, GetRead and TakeRead, and a set that finds no memory *)
LEMMA ReadSteps ==
    ASSUME IInv, NEW t \in Threads,
           \/ SetRead(t) \/ SetExhausted(t) \/ GetRead(t) \/ TakeRead(t)
    PROVE  IInv'
<1>1. ~Undefined /\ pc[t] \in Critical
  BY DEF SetRead, SetExhausted, GetRead, TakeRead, At, Critical
<1>2. TypeOK /\ MonitorInv /\ CallInv /\ GuardInv /\ LiveInv /\ NoValueLost
  BY <1>1 DEF IInv
<1>3. CASE SetRead(t)
  BY <1>1, <1>2, <1>3, ReadStep DEF SetRead
<1>4. CASE SetExhausted(t)
  BY <1>1, <1>2, <1>4, ReadStep DEF SetExhausted
<1>5. CASE GetRead(t)
  BY <1>1, <1>2, <1>5, ReadStep DEF GetRead
<1>6. CASE TakeRead(t)
  BY <1>1, <1>2, <1>6, ReadStep DEF TakeRead
<1> QED
  BY <1>3, <1>4, <1>5, <1>6

(* A set stores the address of a box that was not in use. *)
LEMMA SetWriteStep ==
    ASSUME IInv, NEW t \in Threads, SetWrite(t)
    PROVE  IInv'
<1> USE RustFieldAssumption
<1>1. ~Undefined /\ pc[t] = "set_write" /\ pc[t] \in Critical /\ Return(t)
  BY DEF SetWrite, At, Critical
<1>2. TypeOK /\ MonitorInv /\ CallInv /\ GuardInv /\ LiveInv /\ NoValueLost
  BY <1>1 DEF IInv
<1>3. PICK b \in Boxes : box[b] = "unused" /\ box' = [box EXCEPT ![b] = "live"] /\ field' = b
  BY DEF SetWrite
<1>4. field = NoBox
  BY <1>1, <1>2 DEF CallInv
<1>5. /\ ~Undefined' /\ MonitorInv'
      /\ owner' \in Threads \union {Nobody} /\ entered' \in 0..2
      /\ pc' \in [Threads -> Steps] /\ pc'[t] = "idle"
      /\ ptr' \in [Threads -> Boxes \union {NoBox}] /\ ptr'[t] = NoBox
      /\ \A u \in Threads : u # t => pc'[u] = pc[u] /\ ptr'[u] = ptr[u]
      /\ \A u \in Threads : u # t => pc[u] \notin Critical
  BY <1>1, <1>2, ReturnLeaves DEF SetWrite
<1>6. TypeOK'
  BY <1>2, <1>3, <1>5 DEF SetWrite, TypeOK
<1>7. CallInv'
  BY <1>2, <1>5 DEF CallInv, Working, Critical
<1>8. \A u \in Threads : guard[u] = NoBox
  BY <1>2, <1>4 DEF GuardInv
<1>9. GuardInv'
  BY <1>8 DEF SetWrite, GuardInv
<1>10. LiveInv' /\ NoValueLost'
  <2>1. box'[b] = "live"
    BY <1>2, <1>3 DEF TypeOK
  <2>2. \A c \in Boxes : c # b => box'[c] # "live"
    BY <1>2, <1>3, <1>4 DEF TypeOK, NoValueLost
  <2> QED
    BY <1>3, <2>1, <2>2 DEF LiveInv, NoValueLost
<1> QED
  BY <1>5, <1>6, <1>7, <1>9, <1>10 DEF IInv

(* A get locks the mutex of the box in the field. *)
LEMMA GetMutexStep ==
    ASSUME IInv, NEW t \in Threads, GetMutex(t)
    PROVE  IInv'
<1> USE RustFieldAssumption
<1>1. ~Undefined /\ pc[t] = "get_mutex" /\ pc[t] \in Critical /\ pc[t] \in Working /\ Return(t)
  BY DEF GetMutex, At, Critical, Working
<1>2. TypeOK /\ MonitorInv /\ CallInv /\ GuardInv /\ LiveInv /\ NoValueLost
  BY <1>1 DEF IInv
<1>3. field # NoBox /\ ptr[t] = field /\ field \in Boxes /\ mutex[field] = Nobody
  BY <1>1, <1>2 DEF CallInv, TypeOK, GetMutex
<1>4. \A u \in Threads : guard[u] = NoBox
  BY <1>2, <1>3 DEF GuardInv
<1>5. /\ ~Undefined' /\ MonitorInv'
      /\ owner' \in Threads \union {Nobody} /\ entered' \in 0..2
      /\ pc' \in [Threads -> Steps] /\ pc'[t] = "idle"
      /\ ptr' \in [Threads -> Boxes \union {NoBox}] /\ ptr'[t] = NoBox
      /\ \A u \in Threads : u # t => pc'[u] = pc[u] /\ ptr'[u] = ptr[u]
      /\ \A u \in Threads : u # t => pc[u] \notin Critical
  BY <1>1, <1>2, ReturnLeaves DEF GetMutex
<1>6. TypeOK'
  <2>1. mutex' \in [Boxes -> Threads \union {Nobody}]
    BY <1>2, <1>3 DEF GetMutex, TypeOK
  <2>2. guard' \in [Threads -> Boxes \union {NoBox}]
    BY <1>2, <1>3 DEF GetMutex, TypeOK
  <2> QED
    BY <1>2, <1>5, <2>1, <2>2 DEF GetMutex, TypeOK
<1>7. CallInv'
  BY <1>2, <1>5 DEF GetMutex, CallInv, Working, Critical
<1>8. GuardInv'
  <2>1. CASE poisoned[ptr[t]]
    BY <1>4, <2>1 DEF GetMutex, GuardInv
  <2>2. CASE ~poisoned[ptr[t]]
    <3>1. guard' = [guard EXCEPT ![t] = field] /\ mutex' = [mutex EXCEPT ![field] = t]
      BY <1>3, <2>2 DEF GetMutex
    <3> QED
      BY <1>2, <1>3, <1>4, <3>1 DEF GetMutex, GuardInv, TypeOK
  <2> QED
    BY <2>1, <2>2
<1>9. LiveInv' /\ NoValueLost'
  BY <1>2 DEF GetMutex, LiveInv, NoValueLost
<1> QED
  BY <1>5, <1>6, <1>7, <1>8, <1>9 DEF IInv

(* A MutexGuard is dropped, with or without a panic. *)
LEMMA DropMutexGuardStep ==
    ASSUME IInv, NEW t \in Threads, DropMutexGuard(t)
    PROVE  IInv'
<1> USE RustFieldAssumption
<1>1. ~Undefined /\ UNCHANGED <<pc, inSync, locks>>
  BY DEF DropMutexGuard, At
<1>2. TypeOK /\ MonitorInv /\ CallInv /\ GuardInv /\ LiveInv /\ NoValueLost
  BY <1>1 DEF IInv
<1>3. guard[t] # NoBox /\ guard[t] = field /\ guard[t] \in Boxes /\ mutex[guard[t]] = t
  BY <1>2 DEF DropMutexGuard, GuardInv, TypeOK
<1>4. TypeOK'
  <2>1. mutex' \in [Boxes -> Threads \union {Nobody}]
    BY <1>2 DEF DropMutexGuard, TypeOK
  <2>2. poisoned' \in [Boxes -> BOOLEAN]
    <3>1. PICK p \in BOOLEAN : poisoned' = [poisoned EXCEPT ![guard[t]] = @ \/ p]
      BY DEF DropMutexGuard
    <3>2. (poisoned[guard[t]] \/ p) \in BOOLEAN
      OBVIOUS
    <3> QED
      BY <1>2, <3>1, <3>2 DEF TypeOK
  <2>3. guard' \in [Threads -> Boxes \union {NoBox}]
    BY <1>2 DEF DropMutexGuard, TypeOK
  <2> QED
    BY <1>2, <2>1, <2>2, <2>3 DEF DropMutexGuard, locks, TypeOK
<1>5. ~Undefined' /\ MonitorInv'
  BY <1>1, <1>2 DEF Undefined, MonitorInv, Depth, locks
<1>6. CallInv'
  BY <1>2, <1>3 DEF DropMutexGuard, CallInv, TypeOK, Working
<1>7. GuardInv'
  BY <1>2, <1>3 DEF DropMutexGuard, GuardInv, TypeOK
<1>8. LiveInv' /\ NoValueLost'
  BY <1>2 DEF DropMutexGuard, LiveInv, NoValueLost
<1> QED
  BY <1>4, <1>5, <1>6, <1>7, <1>8 DEF IInv

(* What a take frees is the box in the field, and no MutexGuard refers to it unless the take *)
(* has failed. *)
LEMMA TakeSteps ==
    ASSUME IInv, NEW t \in Threads, TakeMutex(t) \/ TakeWrite(t)
    PROVE  IInv'
<1> USE RustFieldAssumption
<1>1. ~Undefined /\ pc[t] \in {"take_mutex", "take_write"} /\ pc[t] \in Critical
      /\ pc[t] \in Working
  BY DEF TakeMutex, TakeWrite, At, Critical, Working
<1>2. TypeOK /\ MonitorInv /\ CallInv /\ GuardInv /\ LiveInv /\ NoValueLost
  BY <1>1 DEF IInv
<1>3. field # NoBox /\ ptr[t] = field /\ field \in Boxes
  BY <1>1, <1>2 DEF CallInv, TypeOK
<1>4. CASE TakeMutex(t) /\ mutex[ptr[t]] = Nobody /\ ~poisoned[ptr[t]]
  <2>1. /\ Goto(t, "take_write")
        /\ UNCHANGED <<locks, ptr, field, box, mutex, poisoned, guard, inSync, calls, takeFailed>>
    BY <1>4 DEF TakeMutex
  <2> QED
    BY <1>1, <1>2, <1>4, <2>1, ReadStep
<1>5. ASSUME Return(t), UNCHANGED <<mutex, poisoned, guard, inSync, calls>>,
             box' = [box EXCEPT ![field] = "freed"],
             \/ field' = field /\ takeFailed' = TRUE
             \/ /\ field' = NoBox /\ UNCHANGED takeFailed
                /\ \A u \in Threads : guard[u] = NoBox
      PROVE  IInv'
  <2>1. /\ ~Undefined' /\ MonitorInv'
        /\ owner' \in Threads \union {Nobody} /\ entered' \in 0..2
        /\ pc' \in [Threads -> Steps] /\ pc'[t] = "idle"
        /\ ptr' \in [Threads -> Boxes \union {NoBox}] /\ ptr'[t] = NoBox
        /\ \A u \in Threads : u # t => pc'[u] = pc[u] /\ ptr'[u] = ptr[u]
        /\ \A u \in Threads : u # t => pc[u] \notin Critical
    BY <1>1, <1>2, <1>5, ReturnLeaves
  <2>2. takeFailed' \in BOOLEAN
    BY <1>2, <1>5 DEF TypeOK
  <2>3. box' \in [Boxes -> {"unused", "live", "freed"}] /\ field' \in Boxes \union {NoBox}
    BY <1>2, <1>3, <1>5 DEF TypeOK
  <2>4. TypeOK'
    BY <1>2, <1>5, <2>1, <2>2, <2>3 DEF TypeOK
  <2>5. CallInv'
    BY <1>2, <2>1 DEF CallInv, Working, Critical
  <2>6. GuardInv'
    BY <1>2, <1>5 DEF GuardInv
  <2>7. LiveInv'
    BY <1>5 DEF LiveInv
  <2>8. NoValueLost'
    BY <1>2, <1>3, <1>5 DEF NoValueLost, TypeOK
  <2> QED
    BY <2>1, <2>4, <2>5, <2>6, <2>7, <2>8 DEF IInv
<1>6. CASE TakeMutex(t) /\ ~(mutex[ptr[t]] = Nobody /\ ~poisoned[ptr[t]])
  BY <1>3, <1>5, <1>6 DEF TakeMutex
<1>7. CASE TakeWrite(t)
  <2>1. mutex[field] = Nobody
    BY <1>2, <1>3, <1>7 DEF TakeWrite, At, CallInv
  <2>2. \A u \in Threads : guard[u] = NoBox
    BY <1>2, <2>1 DEF GuardInv
  <2> QED
    BY <1>3, <1>5, <1>7, <2>2 DEF TakeWrite
<1> QED
  BY <1>4, <1>6, <1>7

(* Freed memory is used only when a take has failed. *)
LEMMA UseAfterFreeStep ==
    ASSUME IInv, NEW t \in Threads, UseAfterFree(t)
    PROVE  IInv'
<1> USE RustFieldAssumption
<1>1. TypeOK /\ MonitorInv /\ CallInv /\ GuardInv /\ LiveInv /\ NoValueLost /\ ~Undefined
  BY DEF IInv, UseAfterFree
<1>2. takeFailed
  <2>1. CASE pc[t] \in {"get_mutex", "take_mutex"} /\ box[ptr[t]] = "freed"
    BY <1>1, <2>1 DEF CallInv, Working, LiveInv
  <2>2. CASE guard[t] # NoBox /\ box[guard[t]] = "freed"
    BY <1>1, <2>2 DEF GuardInv, LiveInv
  <2> QED
    BY <2>1, <2>2 DEF UseAfterFree
<1>3. Undefined' /\ pc' \in [Threads -> Steps]
  BY <1>1 DEF UseAfterFree, Goto, Undefined, TypeOK, Steps
<1>4. TypeOK'
  BY <1>1, <1>3 DEF UseAfterFree, TypeOK, locks
<1>5. NoValueLost' /\ takeFailed'
  BY <1>1, <1>2 DEF UseAfterFree, NoValueLost
<1> QED
  BY <1>3, <1>4, <1>5 DEF IInv

-------------------------------------------------------------------------------
(* Every step keeps the invariant. *)
LEMMA StepInv == IInv /\ [Next]_vars => IInv'
<1> SUFFICES ASSUME IInv, [Next]_vars PROVE IInv'
  OBVIOUS
<1>1. CASE UNCHANGED vars
  BY <1>1 DEF vars, IInv, TypeOK, NoValueLost, Undefined, MonitorInv, Depth, CallInv, GuardInv,
     LiveInv
<1>2. ASSUME NEW t \in Threads, Step(t) PROVE IInv'
  BY <1>2, EnterStep, ReadSteps, SetWriteStep, GetMutexStep, TakeSteps, UseAfterFreeStep DEF Step
<1>3. ASSUME NEW t \in Threads, Call(t) \/ DropMutexGuard(t) PROVE IInv'
  BY <1>3, CallStep, DropMutexGuardStep
<1>4. ASSUME NEW t \in Threads, EnterSynchronized(t) \/ LeaveSynchronized(t) PROVE IInv'
  BY <1>4, SynchronizedStep
<1> QED
  BY <1>1, <1>2, <1>3, <1>4 DEF Next, Terminated

(* The invariant holds in every reachable state. *)
LEMMA Invariance == Spec => []IInv
  BY InitInv, StepInv, PTL DEF Spec

(* Type correctness *)
THEOREM FieldTypeCorrect == Spec => []TypeOK
  BY Invariance, PTL DEF IInv

(* Until a take has failed, no address of freed memory is in the field, in a MutexGuard or in *)
(* the hands of a call: set_rust_field, get_rust_field and take_rust_field never use one. *)
THEOREM UntilTakeFails == Spec => []NothingDangles
<1>1. IInv => NothingDangles
  <2> SUFFICES ASSUME IInv, ~takeFailed PROVE NothingDangles
    BY DEF NothingDangles
  <2>1. CallInv /\ GuardInv /\ LiveInv
    BY DEF IInv
  <2> QED
    BY <2>1 DEF NothingDangles, CallInv, GuardInv, LiveInv
<1> QED
  BY <1>1, Invariance, PTL

(* A box that was not freed is the one the field holds, whoever raced to set the field. *)
THEOREM ValuesAreKept == Spec => []NoValueLost
  BY Invariance, PTL DEF IInv

-------------------------------------------------------------------------------
(* Why calls return *)

Locking == {"set_lock", "get_lock", "take_lock"}

(* The guards of what the thread does next; only a lock can make it wait. *)
CanGoOn(t) ==
    \/ pc[t] \in Locking /\ owner \in {t, Nobody}
    \/ pc[t] \in Critical /\ (pc[t] = "get_mutex" => mutex[ptr[t]] = Nobody \/ box[ptr[t]] = "freed")
    \/ pc[t] = "idle" /\ (guard[t] # NoBox \/ inSync[t])

(* u has the lock that t waits for. *)
WaitsFor(t, u) ==
    \/ pc[t] \in Locking /\ owner = u
    \/ pc[t] = "get_mutex" /\ mutex[ptr[t]] = u

(* Whoever has locked a mutex has the guard to unlock it; an address in the field was allocated. *)
HolderInv ==
    /\ \A b \in Boxes : mutex[b] # Nobody => guard[mutex[b]] = b
    /\ field # NoBox => box[field] # "unused"

(* A mutex is locked and unlocked together with its guard. *)
LEMMA HolderStep == IInv /\ HolderInv /\ [Next]_vars => HolderInv'
<1> SUFFICES ASSUME IInv, HolderInv, [Next]_vars PROVE HolderInv'
  OBVIOUS
<1> USE RustFieldAssumption DEF HolderInv
<1>1. TypeOK
  BY DEF IInv
<1>2. CASE UNCHANGED vars
  BY <1>2 DEF vars
<1>3. ASSUME NEW t \in Threads, GetMutex(t) PROVE HolderInv'
  <2>1. /\ ptr[t] = field /\ field \in Boxes /\ mutex[field] = Nobody
        /\ guard[t] # NoBox => guard[t] = field /\ mutex[guard[t]] = t
    BY <1>1, <1>3 DEF IInv, GetMutex, At, CallInv, GuardInv, Working, TypeOK
  <2>2. guard[t] = NoBox
    BY <2>1
  <2>3. CASE poisoned[ptr[t]]
    BY <1>3, <2>3 DEF GetMutex
  <2>4. CASE ~poisoned[ptr[t]]
    BY <1>1, <1>3, <2>1, <2>2, <2>4 DEF GetMutex, TypeOK
  <2> QED
    BY <2>3, <2>4
<1>4. ASSUME NEW t \in Threads, DropMutexGuard(t) PROVE HolderInv'
  BY <1>1, <1>4 DEF DropMutexGuard, TypeOK
<1>5. ASSUME NEW t \in Threads, SetWrite(t) \/ TakeMutex(t) \/ TakeWrite(t) PROVE HolderInv'
  BY <1>1, <1>5 DEF SetWrite, TakeMutex, TakeWrite, TypeOK
<1>6. ASSUME NEW t \in Threads,
             Lock(t) \/ SetRead(t) \/ SetExhausted(t) \/ GetRead(t) \/ TakeRead(t) \/ UseAfterFree(t)
             \/ Call(t) \/ EnterSynchronized(t) \/ LeaveSynchronized(t)
      PROVE  HolderInv'
  <2>1. UNCHANGED <<mutex, guard, field, box>>
    BY <1>6 DEF Lock, LockRustField, SetRead, SetExhausted, GetRead, TakeRead, UseAfterFree, Call,
       EnterSynchronized, LeaveSynchronized
  <2> QED
    BY <2>1
<1> QED
  BY <1>2, <1>3, <1>4, <1>5, <1>6 DEF Next, Step, Terminated, vars

(* Inside the monitor a call waits for nothing but the mutex, whose holder drops its guard. *)
LEMMA InsideGoesOn ==
    ASSUME IInv, HolderInv, ~Undefined, \A v \in Threads : ~HoldsAcross(v),
           NEW u \in Threads, pc[u] \in Critical
    PROVE  CanGoOn(u) \/ \E v \in Threads : WaitsFor(u, v) /\ CanGoOn(v)
<1>1. CASE pc[u] # "get_mutex" \/ mutex[ptr[u]] = Nobody
  BY <1>1 DEF CanGoOn
<1>2. CASE pc[u] = "get_mutex" /\ mutex[ptr[u]] # Nobody
  <2>1. ptr[u] = field /\ field \in Boxes /\ mutex[field] \in Threads /\ guard[mutex[field]] = field
    BY <1>2 DEF IInv, CallInv, Working, TypeOK, HolderInv
  <2>2. field # NoBox
    BY <2>1, RustFieldAssumption
  <2>3. CanGoOn(mutex[field])
    BY <2>1, <2>2 DEF HoldsAcross, CanGoOn
  <2> QED
    BY <1>2, <2>1, <2>3 DEF WaitsFor
<1> QED
  BY <1>1, <1>2

(* At any time every call can go on, or waits for a thread that can, or for one that waits for one
   that can, unless somebody holds a MutexGuard across a call or in a synchronized block: for any
   number of threads there is no other way for set_rust_field, get_rust_field and take_rust_field
   to wait for each other in a circle. *)
WaitsEnd ==
    Undefined \/ (\E v \in Threads : HoldsAcross(v)) \/ \A t \in Threads : pc[t] # "idle" =>
        \/ CanGoOn(t)
        \/ \E u \in Threads :
              WaitsFor(t, u) /\ (CanGoOn(u) \/ \E v \in Threads : WaitsFor(u, v) /\ CanGoOn(v))

(* Calls on a Rust field block each other for good only where a thread holds a guard across them. *)
THEOREM OnlyHoldersBlock == Spec => []WaitsEnd
<1>1. Init => HolderInv
  BY RustFieldAssumption DEF Init, HolderInv
<1>2. IInv /\ HolderInv => WaitsEnd
  <2> SUFFICES ASSUME IInv, HolderInv, ~Undefined, \A v \in Threads : ~HoldsAcross(v),
                      NEW t \in Threads, pc[t] # "idle"
               PROVE  \/ CanGoOn(t)
                      \/ \E u \in Threads : WaitsFor(t, u)
                           /\ (CanGoOn(u) \/ \E v \in Threads : WaitsFor(u, v) /\ CanGoOn(v))
    BY DEF WaitsEnd
  <2>1. TypeOK /\ MonitorInv
    BY DEF IInv
  <2>2. \A u \in Threads : pc[u] = "idle" \/ pc[u] \in Locking \/ pc[u] \in Critical
    BY <2>1 DEF TypeOK, Steps, Locking, Critical, Undefined
  <2>3. CASE pc[t] \in Critical
    BY <2>3, InsideGoesOn
  <2>4. CASE pc[t] \in Locking /\ owner \in {t, Nobody}
    BY <2>4 DEF CanGoOn
  <2>5. CASE pc[t] \in Locking /\ owner \notin {t, Nobody}
    <3>1. owner \in Threads /\ WaitsFor(t, owner)
      BY <2>1, <2>5 DEF TypeOK, WaitsFor
    <3>2. inSync[owner] \/ pc[owner] \in Critical
      BY <2>1, <2>5, <3>1 DEF MonitorInv, Depth
    <3>3. CASE pc[owner] \in Critical
      BY <3>1, <3>3, InsideGoesOn
    <3>4. CASE pc[owner] \notin Critical
      BY <2>2, <3>1, <3>2, <3>4 DEF CanGoOn
    <3> QED
      BY <3>1, <3>3, <3>4
  <2> QED
    BY <2>2, <2>3, <2>4, <2>5
<1> QED
  BY <1>1, <1>2, HolderStep, Invariance, PTL DEF Spec

(* The steps of a call that are left at most, waiting not counted *)
StepsAfter ==
    [step \in Steps |->
        CASE step \in {"idle", "undefined"} -> 0
          [] step \in {"set_write", "get_mutex", "take_write"} -> 1
          [] step \in {"set_read", "get_read", "take_mutex"} -> 2
          [] step \in {"set_lock", "get_lock", "take_read"} -> 3
          [] step = "take_lock" -> 4]
StepsLeft(t) == StepsAfter[pc[t]]

(* A call ends after four steps of its own at most, whatever other threads do in between. *)
CountsDown ==
    \A t \in Threads : pc[t] \notin {"idle", "undefined"} =>
        StepsLeft(t) \in 1..4 /\ (pc'[t] = pc[t] \/ StepsLeft(t)' < StepsLeft(t))

(* The three calls have no loop: a call that does not return is one that waits. *)
THEOREM CallsAreShort == Spec => [][CountsDown]_vars
<1>1. TypeOK /\ [Next]_vars => [CountsDown]_vars
  <2> SUFFICES ASSUME TypeOK, Next, NEW u \in Threads, pc[u] \notin {"idle", "undefined"}
               PROVE  StepsLeft(u) \in 1..4 /\ (pc'[u] = pc[u] \/ StepsLeft(u)' < StepsLeft(u))
    BY DEF CountsDown
  <2>1. pc \in [Threads -> Steps]
    BY DEF TypeOK
  <2>2. StepsLeft(u) \in 1..4
    BY <2>1 DEF StepsLeft, StepsAfter, Steps
  <2> DEFINE Forward ==
            \/ pc'[u] = pc[u]
            \/ <<pc[u], pc'[u]>> \in
                  {<<"set_lock", "set_read">>, <<"get_lock", "get_read">>, <<"take_lock", "take_read">>,
                   <<"set_read", "set_write">>, <<"get_read", "get_mutex">>,
                   <<"take_read", "take_mutex">>, <<"take_mutex", "take_write">>}
            \/ pc'[u] \in {"idle", "undefined"}
  <2>3. Forward
    <3>1. ASSUME NEW t \in Threads, Lock(t) PROVE Forward
      BY <2>1, <3>1 DEF Lock, LockRustField, At, Goto
    <3>2. ASSUME NEW t \in Threads, SetRead(t) \/ GetRead(t) \/ TakeRead(t) PROVE Forward
      BY <2>1, <3>2 DEF SetRead, GetRead, TakeRead, Return, At, Goto
    <3>3. ASSUME NEW t \in Threads,
                 SetWrite(t) \/ SetExhausted(t) \/ GetMutex(t) \/ TakeMutex(t) \/ TakeWrite(t)
                 \/ UseAfterFree(t)
          PROVE  Forward
      BY <2>1, <3>3 DEF SetWrite, SetExhausted, GetMutex, TakeMutex, TakeWrite, UseAfterFree, Return,
         At, Goto
    <3>4. ASSUME NEW t \in Threads, Call(t) PROVE pc'[u] = pc[u]
      BY <2>1, <3>4 DEF Call, At, Goto
    <3>5. ASSUME NEW t \in Threads, DropMutexGuard(t) \/ EnterSynchronized(t) \/ LeaveSynchronized(t)
          PROVE  pc'[u] = pc[u]
      BY <3>5 DEF DropMutexGuard, EnterSynchronized, LeaveSynchronized
    <3> QED
      BY <3>1, <3>2, <3>3, <3>4, <3>5 DEF Next, Step, Terminated, vars
  <2>4. pc'[u] = pc[u] \/ StepsLeft(u)' < StepsLeft(u)
    BY <2>1, <2>3 DEF StepsLeft, StepsAfter, Steps
  <2> QED
    BY <2>2, <2>4
<1> QED
  BY <1>1, FieldTypeCorrect, PTL DEF Spec
===============================================================================
