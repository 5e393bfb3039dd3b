--------------------------- MODULE GlobalRefsProofs ---------------------------
(***************************************************************************)
(* Proofs about GlobalRefs, for any number of threads, objects, reference  *)
(* slots and wrappers.                                                     *)
(***************************************************************************)
EXTENDS GlobalRefs, TLAPS

USE GlobalRefsAssumption

-------------------------------------------------------------------------------
(* The inductive invariant *)

(* What is held strongly was not collected. *)
HeldAlive ==
    /\ \A t \in Threads : locals[t] \subseteq alive
    /\ \A s \in Slots : slot[s].kind = "global" => slot[s].obj \in alive

(* A wrapper refers to its object, through a reference of its own. *)
OwnedRefs ==
    \A w \in Wrappers : wrapper[w].slot # Null =>
        /\ slot[wrapper[w].slot] = [kind |-> IF wrapper[w].kind = "weak" THEN "weak" ELSE "global",
                                    obj |-> wrapper[w].obj]
        /\ \A v \in Wrappers \ {w} : wrapper[v].slot # wrapper[w].slot

(* A drop deletes a reference that is nobody else's. *)
DroppedRefs ==
    \A t \in Threads : \A s \in BeingDropped(t) :
        /\ slot[s] # Free
        /\ \A u \in Threads \ {t} : s \notin BeingDropped(u)
        /\ \A w \in Wrappers : wrapper[w].slot # s

(* A thread in the middle of a drop has what it had before it, but for its attachment. *)
DropState ==
    \A t \in Threads :
        /\ task[t] \in Drops =>
              /\ pending[t] = task[t].pending
              /\ attached[t] = IF task[t].step # "attach" /\ task[t].attached = "none"
                               THEN "scoped" ELSE task[t].attached
        /\ attached[t] = "scoped" => task[t] \in Drops

IInv ==
    /\ TypeOK
    /\ HeldAlive
    /\ OwnedRefs
    /\ DroppedRefs
    /\ DropState
    /\ FreedMeansCollected
    /\ NoRefForgotten

(* The invariant holds at first. *)
LEMMA InitInv == Init => IInv
<1> SUFFICES ASSUME Init PROVE IInv
  OBVIOUS
<1>1. TypeOK
  BY DEF Init, TypeOK, Free, NoWrapper, Idle
<1>2. HeldAlive /\ OwnedRefs
  BY DEF Init, HeldAlive, OwnedRefs, Free, NoWrapper
<1>3. \A t \in Threads : task[t] \notin Drops /\ task[t] \notin Answers
  BY DEF Init, Idle, Drops, DropSteps, Answers
<1>4. DroppedRefs /\ FreedMeansCollected
  BY <1>3 DEF DroppedRefs, BeingDropped, FreedMeansCollected
<1>5. DropState
  BY <1>3 DEF Init, DropState
<1>6. NoRefForgotten
  BY DEF Init, NoRefForgotten
<1> QED
  BY <1>1, <1>2, <1>4, <1>5, <1>6 DEF IInv

-------------------------------------------------------------------------------
(* What a thread is in the middle of *)

(* The tasks have no element in common. *)
LEMMA TaskKinds ==
    ASSUME NEW x
    PROVE  /\ x \in Checks => x # Idle /\ x \notin Answers /\ x \notin Drops
           /\ x \in Answers => x # Idle /\ x \notin Checks /\ x \notin Drops
           /\ x \in Drops => x # Idle /\ x \notin Checks /\ x \notin Answers
BY DEF Checks, Answers, Drops, DropSteps, Idle

(* Only the task of t changes; what others are dropping stays as it is. *)
LEMMA OthersDrop ==
    ASSUME NEW t \in Threads, NEW x, TypeOK, task' = [task EXCEPT ![t] = x]
    PROVE  /\ task'[t] = x
           /\ \A u \in Threads \ {t} : task'[u] = task[u] /\ BeingDropped(u)' = BeingDropped(u)
BY DEF TypeOK, BeingDropped

-------------------------------------------------------------------------------
(* Types *)

(* The parts of TypeOK: what the JVM and the threads have, wrappers, tasks *)
JvmTypes ==
    /\ alive \subseteq Objects
    /\ slot \in [Slots -> [kind : {"free", "global", "weak"}, obj : Objects \union {Null}]]
    /\ locals \in [Threads -> SUBSET Objects]
    /\ attached \in [Threads -> {"none", "own", "scoped"}]
    /\ leaked \subseteq Slots
WrapperTypes ==
    wrapper \in [Wrappers -> [kind : {"none", "global", "weak", "raw"},
                              slot : Slots \union {Null}, obj : Objects \union {Null},
                              at : Threads \union {Null}]]
TaskTypes == task \in [Threads -> {Idle} \union Checks \union Answers \union Drops]
PendingTypes == pending \in [Threads -> BOOLEAN]

(* The type invariant is its four parts. *)
LEMMA TypeParts == TypeOK <=> JvmTypes /\ WrapperTypes /\ TaskTypes /\ PendingTypes
BY DEF TypeOK, JvmTypes, WrapperTypes, TaskTypes, PendingTypes

(* A task given to t is one of a thread's tasks. *)
LEMMA TaskType ==
    ASSUME TypeOK, NEW t \in Threads,
           NEW x \in {Idle} \union Checks \union Answers \union Drops,
           task' = [task EXCEPT ![t] = x]
    PROVE  TaskTypes'
BY DEF TypeOK, TaskTypes

(* A wrapper changed in one place keeps its type. *)
LEMMA WrapperType ==
    ASSUME TypeOK, NEW w \in Wrappers,
           NEW k \in {"none", "global", "weak", "raw"}, NEW s \in Slots \union {Null},
           NEW o \in Objects \union {Null}, NEW t \in Threads \union {Null},
           wrapper' = [wrapper EXCEPT ![w] = Wrapped(k, s, o, t)]
    PROVE  WrapperTypes'
BY DEF TypeOK, WrapperTypes, Wrapped

(* StartDrop gives an idle thread a drop, or nothing to do for null. *)
LEMMA StartDropType ==
    ASSUME TypeOK, DropState, NEW t \in Threads, task[t] \notin Drops,
           NEW s \in Slots \union {Null}, StartDrop(t, s)
    PROVE  /\ TaskTypes'
           /\ s = Null => task' = [task EXCEPT ![t] = Idle]
           /\ s # Null =>
                LET x == [step |-> "attach", slot |-> s, attached |-> attached[t],
                          pending |-> pending[t]]
                IN  x \in Drops /\ task' = [task EXCEPT ![t] = x]
<1>1. attached[t] \in {"none", "own"}
  BY DEF TypeOK, DropState
<1>2. pending[t] \in BOOLEAN
  BY DEF TypeOK
<1> DEFINE x == [step |-> "attach", slot |-> s, attached |-> attached[t], pending |-> pending[t]]
<1>3. s # Null => x \in Drops
  BY <1>1, <1>2 DEF Drops, DropSteps
<1>4. task' = [task EXCEPT ![t] = IF s = Null THEN Idle ELSE x]
  BY DEF StartDrop
<1> QED
  BY <1>3, <1>4, TaskType

(* The next step of a drop is a drop. *)
LEMMA NextDropStep ==
    ASSUME TypeOK, NEW t \in Threads, task[t] \in Drops, NEW st \in DropSteps,
           task' = [task EXCEPT ![t].step = st]
    PROVE  /\ TaskTypes'
           /\ task'[t] \in Drops
           /\ task'[t].step = st /\ task'[t].slot = task[t].slot
           /\ task'[t].attached = task[t].attached /\ task'[t].pending = task[t].pending
           /\ task' = [task EXCEPT ![t] = task'[t]]
<1>1. task' = [task EXCEPT ![t] = [task[t] EXCEPT !.step = st]]
  BY DEF TypeOK
<1>2. [task[t] EXCEPT !.step = st] \in Drops
  BY DEF Drops
<1>3. /\ task'[t] = [task[t] EXCEPT !.step = st]
      /\ TaskTypes'
  BY <1>1, <1>2, TaskType DEF TypeOK
<1> QED
  BY <1>1, <1>2, <1>3 DEF Drops

-------------------------------------------------------------------------------
(* Steps that create and delete no reference, and move none from one owner to another *)

(* The references keep their owners. *)
LEMMA RefsUntouched ==
    ASSUME IInv, slot' = slot, leaked \subseteq leaked',
           \A w \in Wrappers : /\ wrapper'[w].slot = wrapper[w].slot
                               /\ wrapper'[w].obj = wrapper[w].obj
                               /\ wrapper'[w].kind = "weak" <=> wrapper[w].kind = "weak",
           \A t \in Threads : BeingDropped(t)' = BeingDropped(t)
    PROVE  OwnedRefs' /\ DroppedRefs' /\ NoRefForgotten'
<1>1. OwnedRefs'
  BY DEF IInv, OwnedRefs
<1>2. DroppedRefs'
  BY DEF IInv, DroppedRefs
<1>3. NoRefForgotten'
  BY DEF IInv, NoRefForgotten
<1> QED
  BY <1>1, <1>2, <1>3

(* A thread that drops nothing and will not has nothing to do with the drops. *)
LEMMA NoDrop ==
    ASSUME TypeOK, NEW t \in Threads, NEW x, x \notin Drops, task[t] \notin Drops,
           task' = [task EXCEPT ![t] = x]
    PROVE  /\ \A u \in Threads : BeingDropped(u)' = BeingDropped(u)
           /\ \A u \in Threads : task[u] \in Drops \/ task'[u] \in Drops => task'[u] = task[u]
BY OthersDrop DEF BeingDropped

(* The threads in the middle of a drop stay as they are. *)
LEMMA DropStateKept ==
    ASSUME IInv,
           \A u \in Threads : task[u] \in Drops \/ task'[u] \in Drops =>
              task'[u] = task[u] /\ pending'[u] = pending[u] /\ attached'[u] = attached[u],
           \A u \in Threads : attached'[u] = "scoped" => attached[u] = "scoped"
    PROVE  DropState'
BY DEF IInv, DropState

(* Nothing is collected, and no call says that something was. *)
LEMMA NothingNewFreed ==
    ASSUME IInv, alive' \subseteq alive,
           \A u \in Threads : task'[u] \in Answers => task'[u] = task[u]
    PROVE  FreedMeansCollected'
BY DEF IInv, FreedMeansCollected

(* The garbage collector takes only what nothing holds strongly. *)
LEMMA CollectStep == ASSUME IInv, NEW o \in Objects, Collect(o) PROVE IInv'
<1>1. TypeOK'
  BY DEF Collect, thread, IInv, TypeOK
<1>2. HeldAlive'
  <2>1. \A t \in Threads : o \notin locals[t]
    BY DEF Collect, StronglyReachable
  <2>2. \A s \in Slots : slot[s].kind = "global" => slot[s].obj # o
    BY DEF Collect, StronglyReachable, IInv, TypeOK
  <2> QED
    BY <2>1, <2>2 DEF Collect, IInv, HeldAlive
<1>3. OwnedRefs' /\ DroppedRefs' /\ NoRefForgotten'
  BY RefsUntouched DEF Collect, BeingDropped
<1>4. DropState' /\ FreedMeansCollected'
  BY DropStateKept, NothingNewFreed DEF Collect, thread
<1> QED
  BY <1>1, <1>2, <1>3, <1>4 DEF IInv

(* What the program does outside the crate *)
LEMMA ProgramSteps ==
    ASSUME IInv, NEW t \in Threads,
           ChangeLocals(t) \/ ChangeAttachment(t) \/ ChangePending(t)
    PROVE  IInv'
<1> USE DEF ChangeLocals, ChangeAttachment, ChangePending, HasEnv, IsIdle, thread, jvm
<1>1. JvmTypes' /\ WrapperTypes' /\ TaskTypes'
  BY DEF IInv, TypeOK, JvmTypes, WrapperTypes, TaskTypes
<1>2. PendingTypes'
  <2>1. \E b \in BOOLEAN : pending' = pending \/ pending' = [pending EXCEPT ![t] = b]
    BY DEF IInv, TypeOK
  <2> QED
    BY <2>1 DEF IInv, TypeOK, PendingTypes
<1>3. HeldAlive'
  <2>1. CASE ChangeLocals(t)
    <3>1. PICK o \in alive : locals' = [locals EXCEPT ![t] = IF o \in @ THEN @ \ {o} ELSE @ \union {o}]
      BY <2>1
    <3> QED
      BY <2>1, <3>1 DEF IInv, TypeOK, HeldAlive
  <2>2. CASE ~ChangeLocals(t)
    BY <2>2 DEF IInv, TypeOK, HeldAlive
  <2> QED
    BY <2>1, <2>2
<1>4. OwnedRefs' /\ DroppedRefs' /\ NoRefForgotten'
  BY RefsUntouched DEF BeingDropped
<1>5. DropState'
  <2>1. task[t] \notin Drops
    BY TaskKinds
  <2>2. attached'[t] = "scoped" => attached[t] = "scoped"
    BY DEF IInv, TypeOK
  <2>3. \A u \in Threads \ {t} : pending'[u] = pending[u] /\ attached'[u] = attached[u]
    BY DEF IInv, TypeOK
  <2> QED
    BY <2>1, <2>2, <2>3, DropStateKept
<1>6. FreedMeansCollected'
  BY NothingNewFreed
<1> QED
  BY <1>1, <1>2, <1>3, <1>4, <1>5, <1>6, TypeParts DEF IInv, TypeOK, JvmTypes, WrapperTypes, TaskTypes, PendingTypes

(* Wrappers that are sent, unwrapped and wrapped again *)
LEMMA WrapperSteps ==
    ASSUME IInv, NEW t \in Threads, NEW w \in Wrappers,
           Send(t, w) \/ IntoRaw(t, w) \/ GlobalFromRaw(t, w)
    PROVE  IInv'
<1> USE DEF Send, IntoRaw, GlobalFromRaw, Owned, thread, jvm
<1>1. JvmTypes' /\ TaskTypes' /\ PendingTypes'
  BY DEF IInv, TypeOK, JvmTypes, TaskTypes, PendingTypes
<1>2. WrapperTypes'
  BY DEF IInv, TypeOK, WrapperTypes
<1>3. HeldAlive'
  BY DEF IInv, HeldAlive
<1>4. \A v \in Wrappers : /\ wrapper'[v].slot = wrapper[v].slot
                          /\ wrapper'[v].obj = wrapper[v].obj
                          /\ wrapper'[v].kind = "weak" <=> wrapper[v].kind = "weak"
  BY DEF IInv, TypeOK
<1>5. OwnedRefs' /\ DroppedRefs' /\ NoRefForgotten'
  BY <1>4, RefsUntouched DEF BeingDropped
<1>6. DropState' /\ FreedMeansCollected'
  BY DropStateKept, NothingNewFreed
<1> QED
  BY <1>1, <1>2, <1>3, <1>5, <1>6, TypeParts DEF IInv, TypeOK, JvmTypes, WrapperTypes, TaskTypes, PendingTypes

(* The question whether an object was collected, its answer and the return of the caller *)
LEMMA AnswerSteps ==
    ASSUME IInv, NEW t \in Threads, CheckFreed(t) \/ Return(t)
    PROVE  IInv'
<1> USE DEF thread, jvm
<1>1. PICK x \in {Idle} \union Answers :
         /\ task' = [task EXCEPT ![t] = x]
         /\ x \in Answers => (x.result = "freed" => x.obj \notin alive)
  <2>1. CASE CheckFreed(t)
    <3> DEFINE x == [step |-> "answer", obj |-> task[t].obj,
                     result |-> IF task[t].obj \in alive THEN "no_memory" ELSE "freed"]
    <3>1. x \in Answers
      BY <2>1 DEF CheckFreed, Checks, Answers
    <3>2. task' = [task EXCEPT ![t] = x]
      BY <2>1 DEF CheckFreed, Answer
    <3>3. x.result = "freed" => x.obj \notin alive
      OBVIOUS
    <3> HIDE DEF x
    <3> QED
      BY <3>1, <3>2, <3>3
  <2>2. CASE Return(t)
    BY <2>2, TaskKinds DEF Return
  <2> QED
    BY <2>1, <2>2
<1>2. task[t] \notin Drops /\ x \notin Drops
  BY TaskKinds DEF CheckFreed, Return
<1>3. UNCHANGED <<alive, slot, locals, attached, pending, wrapper, leaked>>
  BY DEF CheckFreed, Return
<1>4. TypeOK'
  BY <1>1, <1>3, TaskType DEF IInv, TypeOK, TaskTypes
<1>5. HeldAlive'
  BY <1>3 DEF IInv, HeldAlive
<1>6. OwnedRefs' /\ DroppedRefs' /\ NoRefForgotten'
  BY <1>1, <1>2, <1>3, NoDrop, RefsUntouched DEF IInv
<1>7. DropState'
  BY <1>1, <1>2, <1>3, NoDrop, DropStateKept DEF IInv
<1>8. FreedMeansCollected'
  BY <1>1, <1>3 DEF IInv, TypeOK, FreedMeansCollected
<1> QED
  BY <1>4, <1>5, <1>6, <1>7, <1>8 DEF IInv

-------------------------------------------------------------------------------
(* New references *)

(* The reference of a wrapper is there. *)
LEMMA RefOfWrapper ==
    ASSUME IInv, NEW w \in Wrappers, wrapper[w].slot # Null
    PROVE  /\ slot[wrapper[w].slot].kind \in {"weak", "global"}
           /\ slot[wrapper[w].slot] # Free
<1>1. slot[wrapper[w].slot] = [kind |-> IF wrapper[w].kind = "weak" THEN "weak" ELSE "global",
                               obj |-> wrapper[w].obj]
  BY DEF IInv, OwnedRefs
<1>2. slot[wrapper[w].slot].kind \in {"weak", "global"}
  BY <1>1
<1> QED
  BY <1>2 DEF Free

(* A new reference is in a slot and in a wrapper that were free. *)
LEMMA MakeRefStep ==
    ASSUME IInv, NEW t \in Threads, NEW o \in alive, NEW kind \in {"global", "weak"},
           NEW s \in Slots, NEW w \in Wrappers,
           slot[s] = Free, wrapper[w] = NoWrapper,
           slot' = [slot EXCEPT ![s] = [kind |-> kind, obj |-> o]],
           wrapper' = [wrapper EXCEPT ![w] = Wrapped(kind, s, o, t)],
           UNCHANGED <<alive, locals, attached, pending, task, leaked>>
    PROVE  IInv'
<1>1. o \in Objects
  BY DEF IInv, TypeOK
<1>2. JvmTypes' /\ WrapperTypes' /\ TaskTypes' /\ PendingTypes'
  BY <1>1, WrapperType DEF IInv, TypeOK, JvmTypes, TaskTypes, PendingTypes
<1>3. HeldAlive'
  BY DEF IInv, TypeOK, HeldAlive
<1>4. \A v \in Wrappers : wrapper[v].slot # s
  BY RefOfWrapper
<1>5. /\ wrapper'[w].slot = s /\ wrapper'[w].kind = kind /\ wrapper'[w].obj = o
      /\ \A v \in Wrappers \ {w} : wrapper'[v] = wrapper[v]
      /\ wrapper[w].slot = Null
      /\ slot'[s] = [kind |-> kind, obj |-> o]
      /\ \A r \in Slots \ {s} : slot'[r] = slot[r]
  BY DEF IInv, TypeOK, Wrapped, NoWrapper
<1>6. OwnedRefs'
  <2> SUFFICES ASSUME NEW v \in Wrappers, wrapper'[v].slot # Null
               PROVE  /\ slot'[wrapper'[v].slot] =
                            [kind |-> IF wrapper'[v].kind = "weak" THEN "weak" ELSE "global",
                             obj |-> wrapper'[v].obj]
                      /\ \A x \in Wrappers \ {v} : wrapper'[x].slot # wrapper'[v].slot
    BY DEF OwnedRefs
  <2>1. CASE v = w
    BY <2>1, <1>4, <1>5
  <2>2. CASE v # w
    <3>1. wrapper[v].slot \in Slots \ {s}
      BY <2>2, <1>4, <1>5 DEF IInv, TypeOK
    <3> QED
      BY <2>2, <3>1, <1>5 DEF IInv, OwnedRefs
  <2> QED
    BY <2>1, <2>2
<1>7. DroppedRefs'
  <2>1. \A u \in Threads : BeingDropped(u)' = BeingDropped(u) /\ s \notin BeingDropped(u)
    BY DEF IInv, DroppedRefs, BeingDropped
  <2>2. \A u \in Threads : BeingDropped(u) \subseteq Slots
    BY DEF BeingDropped, Drops
  <2> QED
    BY <2>1, <2>2, <1>5 DEF IInv, DroppedRefs
<1>8. DropState' /\ FreedMeansCollected'
  BY DropStateKept, NothingNewFreed
<1>9. NoRefForgotten'
  <2> SUFFICES ASSUME NEW r \in Slots, slot'[r] # Free
               PROVE  \/ \E v \in Wrappers : wrapper'[v].slot = r
                      \/ \E u \in Threads : r \in BeingDropped(u)'
                      \/ r \in leaked'
    BY DEF NoRefForgotten
  <2>1. CASE r = s
    BY <2>1, <1>5
  <2>2. CASE r # s
    <3>1. slot[r] # Free /\ r # Null
      BY <2>2, <1>5
    <3>2. \A u \in Threads : BeingDropped(u)' = BeingDropped(u)
      BY DEF BeingDropped
    <3> QED
      BY <2>2, <3>1, <3>2, <1>5 DEF IInv, NoRefForgotten
  <2> QED
    BY <2>1, <2>2
<1> QED
  BY <1>2, <1>3, <1>6, <1>7, <1>8, <1>9, TypeParts
     DEF IInv, TypeOK, JvmTypes, WrapperTypes, TaskTypes, PendingTypes

(* The wrapper of null that new_global_ref makes of null *)
LEMMA MakeNullStep ==
    ASSUME IInv, NEW t \in Threads, NEW w \in Wrappers,
           wrapper[w] = NoWrapper,
           wrapper' = [wrapper EXCEPT ![w] = Wrapped("global", Null, Null, t)],
           UNCHANGED <<alive, slot, locals, attached, pending, task, leaked>>
    PROVE  IInv'
<1>1. JvmTypes' /\ WrapperTypes' /\ TaskTypes' /\ PendingTypes'
  BY WrapperType DEF IInv, TypeOK, JvmTypes, TaskTypes, PendingTypes
<1>2. \A v \in Wrappers : /\ wrapper'[v].slot = wrapper[v].slot
                          /\ wrapper'[v].obj = wrapper[v].obj
                          /\ wrapper'[v].kind = "weak" <=> wrapper[v].kind = "weak"
  BY DEF IInv, TypeOK, Wrapped, NoWrapper
<1>3. OwnedRefs' /\ DroppedRefs' /\ NoRefForgotten'
  BY <1>2, RefsUntouched DEF BeingDropped
<1>4. HeldAlive' /\ DropState' /\ FreedMeansCollected'
  BY DropStateKept, NothingNewFreed DEF IInv, HeldAlive
<1> QED
  BY <1>1, <1>3, <1>4, TypeParts DEF IInv, TypeOK, JvmTypes, WrapperTypes, TaskTypes, PendingTypes

(* A call that makes no reference but asks, or fails *)
LEMMA NoRefStep ==
    ASSUME IInv, NEW t \in Threads, task[t] = Idle,
           NEW x \in {Idle} \union Checks \union Answers,
           x \in Answers => (x.result = "freed" => x.obj \notin alive),
           task' = [task EXCEPT ![t] = x],
           NEW b \in BOOLEAN, pending' = [pending EXCEPT ![t] = b],
           UNCHANGED <<alive, slot, locals, attached, wrapper, leaked>>
    PROVE  IInv'
<1>1. JvmTypes' /\ WrapperTypes' /\ TaskTypes'
  BY TaskType DEF IInv, TypeOK, JvmTypes, WrapperTypes
<1>2. PendingTypes'
  BY DEF IInv, TypeOK, PendingTypes
<1>3. task[t] \notin Drops /\ x \notin Drops
  BY TaskKinds
<1>4. OwnedRefs' /\ DroppedRefs' /\ NoRefForgotten'
  BY <1>3, NoDrop, RefsUntouched DEF IInv
<1>5. DropState'
  <2>1. \A u \in Threads \ {t} : pending'[u] = pending[u]
    BY DEF IInv, TypeOK
  <2> QED
    BY <1>3, <2>1, OthersDrop, DropStateKept DEF IInv
<1>6. HeldAlive' /\ FreedMeansCollected'
  BY OthersDrop DEF IInv, HeldAlive, FreedMeansCollected
<1> QED
  BY <1>1, <1>2, <1>4, <1>5, <1>6, TypeParts
     DEF IInv, TypeOK, JvmTypes, WrapperTypes, TaskTypes, PendingTypes

(* new_global_ref, new_weak_ref and new_local_ref *)
LEMMA NewRefStep ==
    ASSUME IInv, NEW t \in Threads, NEW op \in RefOps, NewRef(t, op)
    PROVE  IInv'
<1>1. task[t] = Idle /\ UNCHANGED <<alive, attached, leaked>>
  BY DEF NewRef, HasEnv, IsIdle
<1>2. PICK source \in Sources(t) :
        IF source.obj = Null THEN NewRefOfNull(t, op)
        ELSE /\ ~pending[t]
             /\ \/ source.obj \in alive /\ Make(t, op, source.obj)
                \/ NewRefNull(t, op, source)
                \/ op = "new_weak_ref" /\ NewWeakFails(t, source.obj)
  BY DEF NewRef
<1>3. source.obj \in Objects \union {Null} /\ source.from \in Wrappers \union {Null}
  BY DEF Sources, IInv, TypeOK
<1>4. pending = [pending EXCEPT ![t] = pending[t]] /\ pending[t] \in BOOLEAN
  BY DEF IInv, TypeOK
<1>5. task = [task EXCEPT ![t] = Idle]
  BY <1>1 DEF IInv, TypeOK
<1>6. CASE NewRefOfNull(t, op)
  <2>1. CASE op = "new_weak_ref"
    <3> DEFINE x == [step |-> "answer", obj |-> Null, result |-> "freed"]
    <3>1. x \in Answers /\ x.obj \notin alive
      BY DEF Answers, IInv, TypeOK
    <3>2. task' = [task EXCEPT ![t] = x] /\ UNCHANGED <<slot, locals, pending, wrapper>>
      BY <1>6, <2>1 DEF NewRefOfNull, Answer
    <3> HIDE DEF x
    <3> QED
      BY <3>1, <3>2, <1>1, <1>4, NoRefStep
  <2>2. CASE op = "new_global_ref"
    BY <1>1, <1>6, <2>2, MakeNullStep DEF NewRefOfNull
  <2>3. CASE op = "new_local_ref"
    <3>1. UNCHANGED <<alive, slot, locals, attached, pending, wrapper, task, leaked>>
      BY <1>1, <1>6, <2>3 DEF NewRefOfNull
    <3>2. Idle \notin Answers
      BY TaskKinds
    <3> QED
      BY <1>1, <1>4, <1>5, <3>1, <3>2, NoRefStep
  <2> QED
    BY <2>1, <2>2, <2>3 DEF RefOps
<1>7. CASE source.obj \in alive /\ Make(t, op, source.obj)
  <2>1. CASE op = "new_local_ref"
    <3>1. locals' = [locals EXCEPT ![t] = @ \union {source.obj}]
          /\ UNCHANGED <<alive, slot, attached, pending, wrapper, task, leaked>>
      BY <1>1, <1>7, <2>1 DEF Make
    <3>2. JvmTypes' /\ WrapperTypes' /\ TaskTypes' /\ PendingTypes'
      BY <3>1, <1>7 DEF IInv, TypeOK, JvmTypes, WrapperTypes, TaskTypes, PendingTypes
    <3>3. HeldAlive'
      BY <3>1, <1>7 DEF IInv, TypeOK, HeldAlive
    <3>4. OwnedRefs' /\ DroppedRefs' /\ NoRefForgotten'
      BY <3>1, RefsUntouched DEF BeingDropped
    <3>5. DropState' /\ FreedMeansCollected'
      BY <3>1, DropStateKept, NothingNewFreed
    <3> QED
      BY <3>2, <3>3, <3>4, <3>5, TypeParts
         DEF IInv, TypeOK, JvmTypes, WrapperTypes, TaskTypes, PendingTypes
  <2>2. CASE op # "new_local_ref"
    <3>1. PICK s \in Slots, w \in Wrappers :
             LET kind == IF op = "new_global_ref" THEN "global" ELSE "weak" IN
             /\ slot[s] = Free /\ wrapper[w] = NoWrapper
             /\ slot' = [slot EXCEPT ![s] = [kind |-> kind, obj |-> source.obj]]
             /\ wrapper' = [wrapper EXCEPT ![w] = Wrapped(kind, s, source.obj, t)]
             /\ UNCHANGED locals
      BY <1>7, <2>2 DEF Make
    <3>2. UNCHANGED <<pending, task>>
      BY <1>7 DEF Make
    <3> QED
      BY <1>1, <1>7, <3>1, <3>2, MakeRefStep
  <2> QED
    BY <2>1, <2>2
<1>8. CASE source.obj # Null /\ NewRefNull(t, op, source)
  <2> DEFINE x == [step |-> "check", obj |-> source.obj, from |-> source.from]
  <2>1. x \in Checks
    BY <1>3, <1>8 DEF Checks
  <2>2. task' = [task EXCEPT ![t] = x] /\ UNCHANGED <<slot, locals, pending, wrapper>>
    BY <1>8 DEF NewRefNull
  <2> HIDE DEF x
  <2> QED
    BY <2>1, <2>2, <1>1, <1>4, TaskKinds, NoRefStep
<1>9. CASE source.obj # Null /\ NewWeakFails(t, source.obj)
  <2>1. UNCHANGED <<slot, locals, wrapper>>
    BY <1>9 DEF NewWeakFails
  <2>2. CASE pending' = [pending EXCEPT ![t] = TRUE] /\ UNCHANGED task
    BY <1>1, <1>5, <2>1, <2>2, TaskKinds, NoRefStep
  <2>3. CASE UNCHANGED pending /\ \E r \in {"freed", "no_memory"} :
                /\ r = "freed" => source.obj \notin alive
                /\ Answer(t, r, source.obj)
    <3>1. PICK r \in {"freed", "no_memory"} : /\ r = "freed" => source.obj \notin alive
                                              /\ Answer(t, r, source.obj)
      BY <2>3
    <3> DEFINE x == [step |-> "answer", obj |-> source.obj, result |-> r]
    <3>2. x \in Answers /\ (x.result = "freed" => x.obj \notin alive)
      BY <1>3, <3>1 DEF Answers
    <3>3. task' = [task EXCEPT ![t] = x]
      BY <3>1 DEF Answer
    <3> HIDE DEF x
    <3> QED
      BY <1>1, <1>4, <2>1, <2>3, <3>2, <3>3, NoRefStep
  <2> QED
    BY <1>9, <2>2, <2>3 DEF NewWeakFails
<1> QED
  BY <1>2, <1>6, <1>7, <1>8, <1>9

-------------------------------------------------------------------------------
(* Drops *)

(***************************************************************************)
(* A drop begins: the wrapper is gone, and its reference is the drop's.  A *)
(* wrapper of null leaves nothing behind.                                  *)
(***************************************************************************)
LEMMA DropStarts ==
    ASSUME IInv, NEW t \in Threads, NEW w \in Wrappers, task[t] = Idle,
           wrapper' = [wrapper EXCEPT ![w] = NoWrapper],
           StartDrop(t, wrapper[w].slot),
           UNCHANGED <<alive, slot, locals, attached, pending, leaked>>
    PROVE  IInv'
<1> DEFINE s == wrapper[w].slot
<1>1. s \in Slots \union {Null} /\ task[t] \notin Drops
  BY TaskKinds DEF IInv, TypeOK
<1>2. /\ TaskTypes'
      /\ s = Null => task' = [task EXCEPT ![t] = Idle]
      /\ s # Null =>
            LET x == [step |-> "attach", slot |-> s, attached |-> attached[t],
                      pending |-> pending[t]]
            IN  x \in Drops /\ task' = [task EXCEPT ![t] = x]
  BY <1>1, StartDropType DEF IInv
<1>3. /\ \A u \in Threads \ {t} : task'[u] = task[u] /\ BeingDropped(u)' = BeingDropped(u)
      /\ BeingDropped(t) = {}
      /\ BeingDropped(t)' = {s} \ {Null}
      /\ s = Null => task'[t] = Idle
      /\ s # Null => /\ task'[t] \in Drops /\ task'[t].step = "attach"
                     /\ task'[t].attached = attached[t] /\ task'[t].pending = pending[t]
  <2>1. CASE s = Null
    BY <2>1, <1>1, <1>2, OthersDrop, TaskKinds DEF BeingDropped, IInv
  <2>2. CASE s # Null
    <3> DEFINE x == [step |-> "attach", slot |-> s, attached |-> attached[t], pending |-> pending[t]]
    <3>1. x \in Drops /\ task' = [task EXCEPT ![t] = x]
      BY <2>2, <1>2
    <3>2. x.step = "attach" /\ x.slot = s /\ x.attached = attached[t] /\ x.pending = pending[t]
      OBVIOUS
    <3> HIDE DEF x
    <3>3. task'[t] = x
      BY <3>1, OthersDrop DEF IInv
    <3> QED
      BY <2>2, <3>1, <3>2, <3>3, <1>1, OthersDrop DEF BeingDropped, IInv
  <2> QED
    BY <2>1, <2>2
<1>4. /\ wrapper'[w] = NoWrapper /\ wrapper'[w].slot = Null
      /\ \A v \in Wrappers \ {w} : wrapper'[v] = wrapper[v]
  BY DEF IInv, TypeOK, NoWrapper
<1> HIDE DEF s
<1>5. JvmTypes' /\ PendingTypes' /\ WrapperTypes'
  BY DEF IInv, TypeOK, JvmTypes, PendingTypes, WrapperTypes, NoWrapper
<1>6. HeldAlive' /\ OwnedRefs'
  BY <1>4 DEF IInv, HeldAlive, OwnedRefs
<1>7. \A u \in Threads : BeingDropped(u) \subseteq Slots
  BY DEF BeingDropped, Drops
<1>8. DroppedRefs'
  <2> SUFFICES ASSUME NEW u \in Threads, NEW r \in BeingDropped(u)'
               PROVE  /\ slot[r] # Free
                      /\ \A x \in Threads \ {u} : r \notin BeingDropped(x)'
                      /\ \A v \in Wrappers : wrapper'[v].slot # r
    BY DEF DroppedRefs
  <2>1. CASE u = t
    <3>1. r = s /\ s # Null
      BY <2>1, <1>3
    <3>2. slot[r] # Free
      BY <3>1, RefOfWrapper DEF s
    <3>3. \A x \in Threads \ {u} : r \notin BeingDropped(x)'
      BY <2>1, <3>1, <1>3 DEF s, IInv, DroppedRefs
    <3>4. \A v \in Wrappers : wrapper'[v].slot # r
      <4>1. \A v \in Wrappers \ {w} : wrapper[v].slot # s
        BY <3>1 DEF s, IInv, OwnedRefs
      <4> QED
        BY <3>1, <4>1, <1>4
    <3> QED
      BY <3>2, <3>3, <3>4
  <2>2. CASE u # t
    <3>1. r \in BeingDropped(u) /\ r \in Slots
      BY <2>2, <1>3, <1>7
    <3>2. r # s
      BY <3>1 DEF s, IInv, DroppedRefs
    <3>3. slot[r] # Free /\ \A x \in Threads \ {u} : r \notin BeingDropped(x)
      BY <3>1 DEF IInv, DroppedRefs
    <3>4. \A x \in Threads \ {u} : r \notin BeingDropped(x)'
      BY <3>2, <3>3, <1>3
    <3>5. \A v \in Wrappers : wrapper'[v].slot # r
      BY <3>1, <1>4 DEF IInv, DroppedRefs
    <3> QED
      BY <3>3, <3>4, <3>5
  <2> QED
    BY <2>1, <2>2
<1>9. DropState'
  <2>1. attached[t] # "scoped"
    BY <1>1 DEF IInv, DropState
  <2> QED
    BY <2>1, <1>3, TaskKinds DEF IInv, DropState
<1>10. FreedMeansCollected'
  BY <1>3, TaskKinds DEF IInv, FreedMeansCollected
<1>11. NoRefForgotten'
  <2> SUFFICES ASSUME NEW r \in Slots, slot[r] # Free
               PROVE  \/ \E v \in Wrappers : wrapper'[v].slot = r
                      \/ \E u \in Threads : r \in BeingDropped(u)'
                      \/ r \in leaked
    BY DEF NoRefForgotten
  <2>1. CASE r = s
    BY <2>1, <1>3
  <2>2. CASE r # s
    BY <2>2, <1>3, <1>4 DEF s, IInv, NoRefForgotten
  <2> QED
    BY <2>1, <2>2
<1> QED
  BY <1>2, <1>5, <1>6, <1>8, <1>9, <1>10, <1>11, TypeParts
     DEF IInv, TypeOK, JvmTypes, WrapperTypes, TaskTypes, PendingTypes

(* A wrapper is dropped, by the program or when its cast has failed. *)
LEMMA DropAndCastSteps ==
    ASSUME IInv, NEW t \in Threads, NEW w \in Wrappers, Drop(t, w) \/ CastGlobal(t, w)
    PROVE  IInv'
<1> USE DEF thread, jvm
<1>1. task[t] = Idle
  BY DEF Drop, CastGlobal, HasEnv, IsIdle
<1>2. UNCHANGED <<alive, slot, locals, attached, pending, leaked>>
  BY DEF Drop, CastGlobal
<1>3. CASE wrapper' = [wrapper EXCEPT ![w] = NoWrapper] /\ StartDrop(t, wrapper[w].slot)
  BY <1>1, <1>2, <1>3, DropStarts
<1>4. CASE UNCHANGED <<wrapper, task>>
  <2>1. TypeOK' /\ HeldAlive'
    BY <1>2, <1>4 DEF IInv, TypeOK, HeldAlive
  <2>2. OwnedRefs' /\ DroppedRefs' /\ NoRefForgotten'
    BY <1>2, <1>4, RefsUntouched DEF BeingDropped
  <2>3. DropState' /\ FreedMeansCollected'
    BY <1>2, <1>4, DropStateKept, NothingNewFreed
  <2> QED
    BY <2>1, <2>2, <2>3 DEF IInv
<1> QED
  BY <1>3, <1>4 DEF Drop, CastGlobal

(* The thread is attached for the drop, or the JVM refuses and the reference is leaked. *)
LEMMA DropAttachStep ==
    ASSUME IInv, NEW t \in Threads, DropAttach(t)
    PROVE  IInv'
<1> USE DEF thread, jvm
<1>1. task[t] \in Drops /\ task[t].step = "attach" /\ task[t].slot \in Slots
      /\ UNCHANGED <<alive, slot, locals, pending, wrapper>>
  BY DEF DropAttach, Drops
<1>2. CASE /\ attached' = [attached EXCEPT ![t] = IF @ = "none" THEN "scoped" ELSE @]
           /\ task' = [task EXCEPT ![t].step = "delete"]
           /\ UNCHANGED leaked
  <2>1. /\ TaskTypes' /\ task'[t] \in Drops
        /\ task'[t].step = "delete" /\ task'[t].slot = task[t].slot
        /\ task'[t].attached = task[t].attached /\ task'[t].pending = task[t].pending
        /\ task' = [task EXCEPT ![t] = task'[t]]
    BY <1>1, <1>2, NextDropStep DEF IInv, DropSteps
  <2>2. \A u \in Threads \ {t} : task'[u] = task[u] /\ BeingDropped(u)' = BeingDropped(u)
    BY <2>1, OthersDrop DEF IInv
  <2>3. BeingDropped(t)' = BeingDropped(t)
    BY <1>1, <2>1 DEF BeingDropped
  <2>4. JvmTypes' /\ WrapperTypes' /\ PendingTypes'
    BY <1>1, <1>2 DEF IInv, TypeOK, JvmTypes, WrapperTypes, PendingTypes
  <2>5. OwnedRefs' /\ DroppedRefs' /\ NoRefForgotten'
    BY <1>1, <1>2, <2>2, <2>3, RefsUntouched
  <2>6. DropState'
    <3>1. attached'[t] = IF attached[t] = "none" THEN "scoped" ELSE attached[t]
      BY <1>2 DEF IInv, TypeOK
    <3>2. attached[t] = task[t].attached
      BY <1>1 DEF IInv, DropState
    <3>3. \A u \in Threads \ {t} : attached'[u] = attached[u]
      BY <1>2 DEF IInv, TypeOK
    <3> QED
      BY <1>1, <2>1, <2>2, <3>1, <3>2, <3>3 DEF IInv, DropState
  <2>7. HeldAlive' /\ FreedMeansCollected'
    BY <1>1, <2>1, <2>2, TaskKinds DEF IInv, HeldAlive, FreedMeansCollected
  <2> QED
    BY <2>1, <2>4, <2>5, <2>6, <2>7, TypeParts
       DEF IInv, TypeOK, JvmTypes, WrapperTypes, TaskTypes, PendingTypes
<1>3. CASE /\ attached[t] = "none"
           /\ leaked' = leaked \union {task[t].slot}
           /\ task' = [task EXCEPT ![t] = Idle]
           /\ UNCHANGED attached
  <2>1. /\ TaskTypes' /\ task'[t] = Idle
        /\ \A u \in Threads \ {t} : task'[u] = task[u] /\ BeingDropped(u)' = BeingDropped(u)
    BY <1>3, TaskType, OthersDrop DEF IInv
  <2>2. BeingDropped(t) = {task[t].slot} /\ BeingDropped(t)' = {}
    BY <1>1, <2>1, TaskKinds DEF BeingDropped
  <2>3. JvmTypes' /\ WrapperTypes' /\ PendingTypes'
    BY <1>1, <1>3 DEF IInv, TypeOK, JvmTypes, WrapperTypes, PendingTypes
  <2>4. OwnedRefs' /\ HeldAlive'
    BY <1>1 DEF IInv, OwnedRefs, HeldAlive
  <2>5. DroppedRefs'
    BY <1>1, <2>1, <2>2 DEF IInv, DroppedRefs
  <2>6. NoRefForgotten'
    BY <1>1, <1>3, <2>1, <2>2 DEF IInv, NoRefForgotten
  <2>7. DropState' /\ FreedMeansCollected'
    BY <1>1, <1>3, <2>1, TaskKinds DEF IInv, DropState, FreedMeansCollected
  <2> QED
    BY <2>1, <2>3, <2>4, <2>5, <2>6, <2>7, TypeParts
       DEF IInv, TypeOK, JvmTypes, WrapperTypes, TaskTypes, PendingTypes
<1> QED
  BY <1>2, <1>3 DEF DropAttach

(* The reference is deleted; nobody else had it. *)
LEMMA DropDeleteStep ==
    ASSUME IInv, NEW t \in Threads, DropDelete(t)
    PROVE  IInv'
<1> USE DEF thread, jvm
<1> DEFINE s == task[t].slot
<1>1. /\ task[t] \in Drops /\ task[t].step = "delete" /\ s \in Slots
      /\ BeingDropped(t) = {s}
      /\ slot' = [slot EXCEPT ![s] = Free]
      /\ UNCHANGED <<alive, locals, attached, pending, wrapper, leaked>>
  BY DEF DropDelete, Drops, BeingDropped
<1>2. /\ TaskTypes' /\ task'[t] \in Drops
      /\ task'[t].step = "detach"
      /\ task'[t].attached = task[t].attached /\ task'[t].pending = task[t].pending
      /\ task' = [task EXCEPT ![t] = task'[t]]
  BY <1>1, NextDropStep DEF DropDelete, IInv, DropSteps
<1>3. \A u \in Threads \ {t} : task'[u] = task[u] /\ BeingDropped(u)' = BeingDropped(u)
  BY <1>2, OthersDrop DEF IInv
<1>4. BeingDropped(t)' = {}
  BY <1>2 DEF BeingDropped
<1>5. /\ slot'[s] = Free /\ slot'[s].kind = "free"
      /\ \A r \in Slots \ {s} : slot'[r] = slot[r]
  BY <1>1 DEF IInv, TypeOK, Free
<1>6. /\ \A w \in Wrappers : wrapper[w].slot # s
      /\ \A u \in Threads \ {t} : s \notin BeingDropped(u)
  BY <1>1 DEF IInv, DroppedRefs
<1> HIDE DEF s
<1>7. JvmTypes' /\ WrapperTypes' /\ PendingTypes'
  BY <1>1 DEF IInv, TypeOK, JvmTypes, WrapperTypes, PendingTypes, Free
<1>8. HeldAlive'
  BY <1>1, <1>5 DEF IInv, HeldAlive
<1>9. OwnedRefs'
  <2> SUFFICES ASSUME NEW w \in Wrappers, wrapper[w].slot # Null
               PROVE  slot'[wrapper[w].slot] = slot[wrapper[w].slot]
    BY <1>1 DEF IInv, OwnedRefs
  <2>1. wrapper[w].slot \in Slots \ {s}
    BY <1>6 DEF IInv, TypeOK
  <2> QED
    BY <2>1, <1>5
<1>10. DroppedRefs'
  <2>1. \A u \in Threads : BeingDropped(u) \subseteq Slots
    BY DEF BeingDropped, Drops
  <2>2. \A u \in Threads \ {t} : \A r \in BeingDropped(u) : slot'[r] = slot[r]
    BY <2>1, <1>5, <1>6
  <2> QED
    BY <2>2, <1>1, <1>3, <1>4 DEF IInv, DroppedRefs
<1>11. NoRefForgotten'
  BY <1>1, <1>3, <1>5 DEF IInv, NoRefForgotten
<1>12. DropState' /\ FreedMeansCollected'
  BY <1>1, <1>2, <1>3, TaskKinds DEF IInv, DropState, FreedMeansCollected
<1> QED
  BY <1>2, <1>7, <1>8, <1>9, <1>10, <1>11, <1>12, TypeParts
     DEF IInv, TypeOK, JvmTypes, WrapperTypes, TaskTypes, PendingTypes

(* The attachment made for the drop is undone. *)
LEMMA DropDetachStep ==
    ASSUME IInv, NEW t \in Threads, DropDetach(t)
    PROVE  IInv'
<1> USE DEF thread, jvm
<1>1. /\ task[t] \in Drops /\ task[t].step = "detach"
      /\ attached' = [attached EXCEPT ![t] = IF @ = "scoped" THEN "none" ELSE @]
      /\ task' = [task EXCEPT ![t] = Idle]
      /\ UNCHANGED <<alive, slot, locals, pending, wrapper, leaked>>
  BY DEF DropDetach
<1>2. /\ TaskTypes' /\ task'[t] = Idle
      /\ \A u \in Threads \ {t} : task'[u] = task[u] /\ BeingDropped(u)' = BeingDropped(u)
  BY <1>1, TaskType, OthersDrop DEF IInv
<1>3. BeingDropped(t) = {} /\ BeingDropped(t)' = {}
  BY <1>1, <1>2, TaskKinds DEF BeingDropped
<1>4. JvmTypes' /\ WrapperTypes' /\ PendingTypes'
  BY <1>1 DEF IInv, TypeOK, JvmTypes, WrapperTypes, PendingTypes
<1>5. OwnedRefs' /\ DroppedRefs' /\ NoRefForgotten'
  BY <1>1, <1>2, <1>3, RefsUntouched
<1>6. DropState'
  <2>1. attached'[t] # "scoped" /\ \A u \in Threads \ {t} : attached'[u] = attached[u]
    BY <1>1 DEF IInv, TypeOK
  <2> QED
    BY <2>1, <1>1, <1>2, TaskKinds DEF IInv, DropState
<1>7. HeldAlive' /\ FreedMeansCollected'
  BY <1>1, <1>2, TaskKinds DEF IInv, HeldAlive, FreedMeansCollected
<1> QED
  BY <1>2, <1>4, <1>5, <1>6, <1>7, TypeParts
     DEF IInv, TypeOK, JvmTypes, WrapperTypes, TaskTypes, PendingTypes

-------------------------------------------------------------------------------
(* What holds of every behaviour *)

(* Every step keeps the invariant. *)
LEMMA StepInv == IInv /\ [Next]_vars => IInv'
<1> SUFFICES ASSUME IInv, [Next]_vars PROVE IInv'
  OBVIOUS
<1>1. CASE UNCHANGED vars
  <2>1. UNCHANGED <<alive, slot, locals, attached, pending, wrapper, task, leaked>>
    BY <1>1 DEF vars, jvm, thread
  <2>2. TypeOK' /\ HeldAlive'
    BY <2>1 DEF IInv, TypeOK, HeldAlive
  <2>3. OwnedRefs' /\ DroppedRefs' /\ NoRefForgotten'
    BY <2>1, RefsUntouched DEF BeingDropped
  <2>4. DropState' /\ FreedMeansCollected'
    BY <2>1, DropStateKept, NothingNewFreed
  <2> QED
    BY <2>2, <2>3, <2>4 DEF IInv
<1>2. CASE Next
  BY <1>2, CollectStep, ProgramSteps, NewRefStep, AnswerSteps, DropAttachStep, DropDeleteStep,
     DropDetachStep, WrapperSteps, DropAndCastSteps DEF Next
<1> QED
  BY <1>1, <1>2

(* The invariant holds in every reachable state. *)
LEMMA Invariance == Spec => []IInv
  BY InitInv, StepInv, PTL DEF Spec

(* Every variable keeps its type. *)
THEOREM RefsTypeCorrect == Spec => []TypeOK
<1>1. IInv => TypeOK
  BY DEF IInv
<1> QED
  BY <1>1, Invariance, PTL

(* A wrapper refers to the object it was made for, alive if the wrapper is a Global, through a *)
(* reference no other wrapper has and no drop is about to delete. *)
THEOREM WrappersOwn == Spec => []WrappersOwnTheirRefs
<1>1. IInv => WrappersOwnTheirRefs
  <2> SUFFICES ASSUME IInv, NEW w \in Wrappers, wrapper[w].slot # Null
               PROVE  LET s == wrapper[w].slot IN
                      /\ slot[s] = [kind |-> IF wrapper[w].kind = "weak" THEN "weak" ELSE "global",
                                    obj |-> wrapper[w].obj]
                      /\ slot[s].kind = "global" => wrapper[w].obj \in alive
                      /\ \A v \in Wrappers \ {w} : wrapper[v].slot # s
                      /\ \A t \in Threads : s \notin BeingDropped(t)
    BY DEF WrappersOwnTheirRefs
  <2> DEFINE s == wrapper[w].slot
  <2>1. s \in Slots
    BY DEF IInv, TypeOK
  <2>2. /\ slot[s] = [kind |-> IF wrapper[w].kind = "weak" THEN "weak" ELSE "global",
                      obj |-> wrapper[w].obj]
        /\ \A v \in Wrappers \ {w} : wrapper[v].slot # s
    BY DEF IInv, OwnedRefs
  <2>3. slot[s].kind = "global" => wrapper[w].obj \in alive
    BY <2>1, <2>2 DEF IInv, HeldAlive
  <2>4. \A t \in Threads : s \notin BeingDropped(t)
    BY DEF IInv, DroppedRefs
  <2> QED
    BY <2>2, <2>3, <2>4
<1> QED
  BY <1>1, Invariance, PTL

(* Every reference has a wrapper or is about to be deleted, unless a dropping thread could not *)
(* be attached. *)
THEOREM NoneForgotten == Spec => []NoRefForgotten
<1>1. IInv => NoRefForgotten
  BY DEF IInv
<1> QED
  BY <1>1, Invariance, PTL

(* A call that says that an object was collected is right. *)
THEOREM FreedIsTrue == Spec => []FreedMeansCollected
<1>1. IInv => FreedMeansCollected
  BY DEF IInv
<1> QED
  BY <1>1, Invariance, PTL

(* What one step does to a thread that is dropping a wrapper *)
LEMMA DropTrace ==
    ASSUME IInv, [Next]_vars, NEW t \in Threads, task[t] \in Drops
    PROVE  /\ pending'[t] = task[t].pending
           /\ task'[t] = Idle => attached'[t] = task[t].attached
<1> USE DEF jvm, thread
<1>1. pending[t] = task[t].pending /\ task[t] # Idle /\ task[t].step \in DropSteps
  BY TaskKinds DEF IInv, DropState, Drops
<1>2. CASE UNCHANGED <<pending, task>>
  BY <1>1, <1>2
<1>3. CASE \E u \in Threads : task[u] = Idle /\ u # t
                /\ (ChangeLocals(u) \/ ChangeAttachment(u) \/ ChangePending(u)
                    \/ \E op \in RefOps : NewRef(u, op))
  <2>1. PICK u \in Threads : u # t /\ (ChangeLocals(u) \/ ChangeAttachment(u) \/ ChangePending(u)
                    \/ \E op \in RefOps : NewRef(u, op))
    BY <1>3
  <2>2. pending'[t] = pending[t]
    BY <2>1 DEF ChangeLocals, ChangeAttachment, ChangePending, NewRef, Make, NewRefOfNull,
                NewRefNull, NewWeakFails, IInv, TypeOK
  <2>3. task'[t] = task[t]
    BY <2>1 DEF ChangeLocals, ChangeAttachment, ChangePending, NewRef, Make, NewRefOfNull,
                NewRefNull, NewWeakFails, Answer, IInv, TypeOK
  <2> QED
    BY <2>2, <2>3, <1>1
<1>4. CASE \E u \in Threads : CheckFreed(u) \/ Return(u)
  <2>1. UNCHANGED pending /\ task'[t] = task[t]
    BY <1>4, TaskKinds DEF CheckFreed, Return, Answer, IInv, TypeOK
  <2> QED
    BY <2>1, <1>1
<1>5. CASE \E u \in Threads, w \in Wrappers : Drop(u, w) \/ CastGlobal(u, w)
  <2>1. UNCHANGED pending /\ task'[t] = task[t]
    BY <1>5, TaskKinds DEF Drop, CastGlobal, StartDrop, HasEnv, IsIdle, IInv, TypeOK
  <2> QED
    BY <2>1, <1>1
<1>6. CASE \E u \in Threads : DropAttach(u) \/ DropDelete(u) \/ DropDetach(u)
  <2>1. PICK u \in Threads : DropAttach(u) \/ DropDelete(u) \/ DropDetach(u)
    BY <1>6
  <2>2. UNCHANGED pending
    BY <2>1 DEF DropAttach, DropDelete, DropDetach
  <2>3. CASE u # t
    <3>1. task'[t] = task[t]
      BY <2>1, <2>3 DEF DropAttach, DropDelete, DropDetach, IInv, TypeOK
    <3> QED
      BY <2>2, <3>1, <1>1
  <2>4. CASE u = t /\ DropDelete(t)
    <3>1. task'[t] \in Drops
      BY <1>1, <2>4, NextDropStep DEF DropDelete, IInv, DropSteps
    <3> QED
      BY <2>2, <3>1, <1>1, TaskKinds
  <2>5. CASE u = t /\ DropAttach(t)
    <3>1. task'[t] \in Drops \/ (task[t].step = "attach" /\ UNCHANGED attached)
      BY <1>1, <2>5, NextDropStep DEF DropAttach, IInv, DropSteps
    <3> QED
      BY <2>2, <3>1, <1>1, TaskKinds DEF IInv, DropState
  <2>6. CASE u = t /\ DropDetach(t)
    <3>1. attached'[t] = IF attached[t] = "scoped" THEN "none" ELSE attached[t]
      BY <2>6 DEF DropDetach, IInv, TypeOK
    <3>2. attached[t] = IF task[t].attached = "none" THEN "scoped" ELSE task[t].attached
      BY <2>6 DEF DropDetach, IInv, DropState
    <3>3. task[t].attached \in {"none", "own"}
      BY DEF Drops
    <3> QED
      BY <2>2, <3>1, <3>2, <3>3, <1>1
  <2> QED
    BY <2>1, <2>3, <2>4, <2>5, <2>6
<1>7. CASE \E u \in Threads, w \in Wrappers : Send(u, w) \/ IntoRaw(u, w) \/ GlobalFromRaw(u, w)
  BY <1>2, <1>7 DEF Send, IntoRaw, GlobalFromRaw
<1>8. CASE \E o \in Objects : Collect(o)
  BY <1>2, <1>8 DEF Collect
<1>9. CASE UNCHANGED vars
  BY <1>2, <1>9 DEF vars
<1>10. \A u \in Threads : (ChangeLocals(u) \/ ChangeAttachment(u) \/ ChangePending(u)
                           \/ \E op \in RefOps : NewRef(u, op)) => task[u] = Idle /\ u # t
  BY <1>1 DEF ChangeLocals, ChangeAttachment, ChangePending, NewRef, HasEnv, IsIdle
<1> QED
  BY <1>3, <1>4, <1>5, <1>6, <1>7, <1>8, <1>9, <1>10 DEF Next

(* A drop leaves the exception of its thread pending and its attachment as it was. *)
THEOREM NoTraceLeft == Spec => DropsLeaveNoTrace
<1>1. IInv /\ [Next]_vars =>
        [\A t \in Threads : task[t] \in Drops =>
            /\ pending'[t] = task[t].pending
            /\ task'[t] = Idle => attached'[t] = task[t].attached]_vars
  BY DropTrace
<1> QED
  BY <1>1, Invariance, PTL DEF Spec, DropsLeaveNoTrace

===============================================================================
