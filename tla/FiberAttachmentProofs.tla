------------------------- MODULE FiberAttachmentProofs -------------------------
(***************************************************************************)
(* Theorems about FiberAttachment, for any number of threads and fibers    *)
(* and any bounds.                                                         *)
(***************************************************************************)
EXTENDS FiberAttachment, FiniteSetTheorems, TLAPS

(* TypeOK but for attachedThreads, whose type is that of the number it is proved to be *)
Types ==
    /\ fiber \in [Threads -> Fibers]
    /\ gone \subseteq Fibers
    /\ attached \in [Threads -> BOOLEAN]
    /\ attachNumber \in [Threads -> Nat]
    /\ nestLevel \in [Threads -> Nat]
    /\ owned \in [Threads -> BOOLEAN]
    /\ flsIndex \in Indices \union {NoIndex}
    /\ allocated \subseteq Indices
    /\ newIndex \in [Threads -> Indices \union {NoIndex}]
    /\ slot \in [Fibers -> [Indices -> Boxes \union {NoBox}]]
    /\ heap \subseteq Boxes
    /\ unrecorded \in Nat
    /\ pc \in [Threads -> Steps]

(***************************************************************************)
(* What holds of each thread.  A thread that is in the middle of a call    *)
(* has no guard, so that foreign code and its other fibers wait; the fiber *)
(* that runs on it has not ended until the thread is about to.             *)
(***************************************************************************)
ThreadInv(t) ==
    /\ ThreadOf[fiber[t]] = t
    /\ fiber[t] \in gone => pc[t] \in {"uncount", "dead"}
    /\ pc[t] # "panicked"
    /\ pc[t] # "run" => nestLevel[t] = 0
    /\ nestLevel[t] > 0 => attached[t] = TRUE
    /\ owned[t] = TRUE => nestLevel[t] > 0
    /\ attached[t] = TRUE => attachNumber[t] \in 1..MaxAttach
    /\ pc[t] \in {"alloc", "publish", "attach"} => attached[t] = FALSE /\ attachNumber[t] < MaxAttach
    /\ pc[t] \in {"record", "count_scoped"} => attached[t] = TRUE
    /\ pc[t] = "publish" => newIndex[t] # NoIndex
    /\ pc[t] \in {"attach", "record"} => flsIndex # NoIndex

Threading == \A t \in Threads : ThreadInv(t)
Counted == IsFiniteSet(Claims) /\ AttachmentsCounted

(* A step of one thread leaves the invariant of the others alone. *)
LEMMA OtherThreads ==
    ASSUME Types, Threading, NEW t \in Threads, ThreadInv(t)',
           \A u \in Threads \ {t} :
               /\ fiber'[u] = fiber[u] /\ pc'[u] = pc[u] /\ nestLevel'[u] = nestLevel[u]
               /\ attached'[u] = attached[u] /\ owned'[u] = owned[u]
               /\ attachNumber'[u] = attachNumber[u] /\ newIndex'[u] = newIndex[u],
           \A f \in gone' : f \in gone \/ ThreadOf[f] = t,
           flsIndex # NoIndex => flsIndex' # NoIndex
    PROVE  Threading'
<1> SUFFICES ASSUME NEW u \in Threads, u # t PROVE ThreadInv(u)'
  BY DEF Threading
<1>1. ThreadInv(u)
  BY DEF Threading
<1> QED BY <1>1 DEF ThreadInv

LEMMA ThreadingInit == Init => Types /\ Threading
<1> SUFFICES ASSUME Init PROVE Types /\ Threading
  OBVIOUS
<1> USE FibersAssumption, NullAssumption, LimitAssumption
<1>1. Types
  BY DEF Init, Types, Steps
<1>2. ASSUME NEW t \in Threads PROVE ThreadInv(t)
  BY <1>2 DEF Init, ThreadInv
<1> QED BY <1>1, <1>2 DEF Threading

(* FlsSetValue changes one slot. *)
LEMMA SetSlot ==
    ASSUME Types, NEW f \in Fibers, NEW value \in Boxes \union {NoBox},
           flsIndex \in Indices, FlsSetValue(f, value)
    PROVE  /\ slot' \in [Fibers -> [Indices -> Boxes \union {NoBox}]]
           /\ \A g \in Fibers, i \in Indices :
                 slot'[g][i] = IF g = f /\ i = flsIndex THEN value ELSE slot[g][i]
<1>1. slot[f] \in [Indices -> Boxes \union {NoBox}]
  BY DEF Types
<1> DEFINE row == [slot[f] EXCEPT ![flsIndex] = value]
<1>2. slot' = [slot EXCEPT ![f] = row]
  BY DEF FlsSetValue
<1>3. /\ row \in [Indices -> Boxes \union {NoBox}]
      /\ \A i \in Indices : row[i] = IF i = flsIndex THEN value ELSE slot[f][i]
  BY <1>1
<1> HIDE DEF row
<1> QED BY <1>2, <1>3 DEF Types

LEMMA ValueFacts ==
    ASSUME Types, NEW f \in Fibers
    PROVE  /\ Value(f) \in Boxes \union {NoBox}
           /\ Value(f) # NoBox => flsIndex \in Indices /\ Value(f) = slot[f][flsIndex]
  BY DEF Types, Value

(* What the callback does to the thread it runs on *)
LEMMA CallbackFacts ==
    ASSUME Types, NEW t \in Threads, NEW f \in Fibers, FlsCallback(t, f)
    PROVE  /\ slot' \in [Fibers -> [Indices -> Boxes \union {NoBox}]] /\ heap' \subseteq Boxes
           /\ attached' \in [Threads -> BOOLEAN] /\ pc' \in [Threads -> Steps]
           /\ attachNumber' = attachNumber
           /\ \A u \in Threads \ {t} : attached'[u] = attached[u] /\ pc'[u] = pc[u]
           /\ attached'[t] = FALSE \/ attached'[t] = attached[t]
           /\ pc'[t] = IF Value(f) # NoBox THEN "uncount"
                       ELSE IF f = fiber[t] THEN "dead" ELSE "run"
<1>1. CASE Value(f) = NoBox
  BY <1>1 DEF Types, FlsCallback, Goto, jvm, records, Steps
<1>2. CASE Value(f) # NoBox
  <2>1. /\ heap' = heap \ {Value(f)} /\ FlsSetValue(f, NoBox)
        /\ attached' = [attached EXCEPT ![t] = FALSE]
        /\ pc' = [pc EXCEPT ![t] = "uncount"] /\ attachNumber' = attachNumber
    BY <1>2 DEF FlsCallback, SysDetach, Goto
  <2>2. slot' \in [Fibers -> [Indices -> Boxes \union {NoBox}]]
    BY <1>2, <2>1, ValueFacts, SetSlot
  <2>3. heap' \subseteq Boxes
    BY <2>1 DEF Types
  <2>4. /\ attached' \in [Threads -> BOOLEAN]
        /\ \A u \in Threads \ {t} : attached'[u] = attached[u]
        /\ attached'[t] = FALSE
    BY <2>1 DEF Types
  <2>5. /\ pc' \in [Threads -> Steps]
        /\ \A u \in Threads \ {t} : pc'[u] = pc[u]
        /\ pc'[t] = "uncount"
    BY <2>1 DEF Types, Steps
  <2> QED BY <1>2, <2>1, <2>2, <2>3, <2>4, <2>5
<1> QED BY <1>1, <1>2

-------------------------------------------------------------------------------
(* The thread-local part of each step *)

LEMMA GuardSteps ==
    ASSUME Types, Threading, NEW t \in Threads,
           AttachUnowned(t) \/ AttachScoped(t) \/ CountScoped(t)
    PROVE  Types' /\ Threading'
<1> USE LimitAssumption
<1>0. ThreadInv(t)
  BY DEF Threading
<1>1. CASE AttachUnowned(t)
  <2>1. Types'
    BY <1>1 DEF AttachUnowned, Types, jvm, index, records, counter
  <2>2. ThreadInv(t)'
    BY <1>0, <1>1 DEF AttachUnowned, Types, jvm, index, records, counter, ThreadInv
  <2> QED BY <1>1, <2>1, <2>2, OtherThreads DEF AttachUnowned, Types, jvm, index, records, counter
<1>2. CASE AttachScoped(t)
  <2>1. Types'
    BY <1>2 DEF AttachScoped, JvmAttach, Goto, Types, guards, index, records, counter, Steps
  <2>2. ThreadInv(t)'
    BY <1>0, <1>2 DEF AttachScoped, JvmAttach, Goto, Idle, MayAttach, Types, guards, index, records,
       counter, ThreadInv
  <2> QED BY <1>2, <2>1, <2>2, OtherThreads DEF AttachScoped, JvmAttach, Goto, Types, guards, index,
             records, counter
<1>3. CASE CountScoped(t)
  <2>1. Types'
    BY <1>3 DEF CountScoped, Goto, Types, jvm, index, records, Steps
  <2>2. ThreadInv(t)'
    BY <1>0, <1>3 DEF CountScoped, Goto, Types, jvm, index, records, ThreadInv
  <2> QED BY <1>3, <2>1, <2>2, OtherThreads DEF CountScoped, Goto, Types, jvm, index, records
<1> QED BY <1>1, <1>2, <1>3

LEMMA IndexSteps ==
    ASSUME Types, Threading, NEW t \in Threads,
           GetIndex(t) \/ AllocIndex(t) \/ PublishIndex(t) \/ SysAttach(t)
    PROVE  Types' /\ Threading'
<1> USE LimitAssumption, NullAssumption, FibersAssumption
<1>0. ThreadInv(t)
  BY DEF Threading
<1>1. CASE GetIndex(t)
  <2>1. Types'
    BY <1>0, <1>1 DEF GetIndex, Steps, Types, jvm, guards, index, records, counter, Goto
  <2>2. ThreadInv(t)'
    BY <1>0, <1>1 DEF GetIndex, Idle, MayAttach, ThreadInv, Types, jvm, guards, index, records, counter, Goto
  <2> QED BY <1>1, <2>1, <2>2, OtherThreads DEF GetIndex, Types, jvm, guards, index, records, counter, Goto
<1>2. CASE AllocIndex(t)
  <2>1. Types'
    <3>1. ASSUME NEW i \in Indices, newIndex' = [newIndex EXCEPT ![t] = i]
          PROVE  newIndex' \in [Threads -> Indices \union {NoIndex}]
      BY <3>1 DEF Types
    <3>2. pc' \in [Threads -> Steps]
      BY <1>2 DEF AllocIndex, Goto, Types, Steps
    <3>3. newIndex' \in [Threads -> Indices \union {NoIndex}] /\ allocated' \subseteq Indices
      BY <1>2, <3>1 DEF AllocIndex, Types
    <3> QED BY <1>2, <3>2, <3>3 DEF AllocIndex, Types, jvm, guards, records, counter
  <2>2. ThreadInv(t)'
    BY <1>0, <1>2 DEF AllocIndex, Idle, MayAttach, ThreadInv, Types, jvm, guards, index, records, counter, Goto
  <2> QED BY <1>2, <2>1, <2>2, OtherThreads DEF AllocIndex, Types, jvm, guards, index, records, counter, Goto
<1>3. CASE PublishIndex(t)
  <2>1. Types'
    BY <1>0, <1>3 DEF PublishIndex, Steps, Types, jvm, guards, index, records, counter, Goto
  <2>2. ThreadInv(t)'
    BY <1>0, <1>3 DEF PublishIndex, Idle, MayAttach, ThreadInv, Types, jvm, guards, index, records, counter, Goto
  <2> QED BY <1>3, <2>1, <2>2, OtherThreads DEF PublishIndex, Types, jvm, guards, index, records, counter, Goto
<1>4. CASE SysAttach(t)
  <2>1. Types'
    <3>1. CASE JvmAttach(t) /\ Goto(t, "record")
      BY <1>4, <3>1 DEF SysAttach, JvmAttach, Goto, Types, Steps, guards, index, records, counter
    <3>2. CASE Goto(t, "run") /\ UNCHANGED jvm
      BY <1>4, <3>2 DEF SysAttach, Goto, Types, Steps, jvm, guards, index, records, counter
    <3> QED BY <1>4, <3>1, <3>2 DEF SysAttach
  <2>2. ThreadInv(t)'
    BY <1>0, <1>4 DEF SysAttach, Idle, MayAttach, ThreadInv, Types, jvm, guards, index, records, counter, Goto, JvmAttach
  <2> QED BY <1>4, <2>1, <2>2, OtherThreads DEF SysAttach, Types, jvm, guards, index, records, counter, Goto, JvmAttach
<1> QED BY <1>1, <1>2, <1>3, <1>4

LEMMA DetachSteps ==
    ASSUME Types, Threading, NEW t \in Threads,
           DropGuard(t) \/ FlsDetachCurrentThread(t) \/ Record(t) \/ Uncount(t)
    PROVE  Types' /\ Threading'
<1> USE LimitAssumption, NullAssumption, FibersAssumption
<1>0. ThreadInv(t)
  BY DEF Threading
<1>1. CASE DropGuard(t)
  <2>1. Types'
    <3>1. nestLevel' = [nestLevel EXCEPT ![t] = nestLevel[t] - 1] /\ nestLevel[t] - 1 \in Nat
      BY <1>1 DEF DropGuard, Types
    <3>2. CASE nestLevel[t] = 1 /\ owned[t]
      <4>1. attached[t]
        BY <1>0, <3>2 DEF ThreadInv
      <4>2. /\ owned' = [owned EXCEPT ![t] = FALSE] /\ attached' = [attached EXCEPT ![t] = FALSE]
            /\ pc' = [pc EXCEPT ![t] = "uncount"] /\ attachNumber' = attachNumber
        BY <1>1, <3>2, <4>1 DEF DropGuard, SysDetach, Goto
      <4> QED BY <1>1, <3>1, <4>2 DEF DropGuard, Types, Steps, index, records, counter
    <3>3. CASE ~(nestLevel[t] = 1 /\ owned[t])
      <4>1. UNCHANGED <<owned, jvm, pc>>
        BY <1>1, <3>3, Zenon DEF DropGuard
      <4> QED BY <1>1, <3>1, <4>1 DEF DropGuard, Types, jvm, index, records, counter
    <3> QED BY <3>2, <3>3
  <2>2. ThreadInv(t)'
    BY <1>0, <1>1 DEF DropGuard, Idle, MayAttach, ThreadInv, Types, jvm, guards, index, records, counter, Goto, SysDetach
  <2> QED BY <1>1, <2>1, <2>2, OtherThreads DEF DropGuard, Types, jvm, guards, index, records, counter, Goto, SysDetach
<1>2. CASE FlsDetachCurrentThread(t)
  <2>. fiber[t] \in Fibers
    BY DEF Types
  <2>0. slot' \in [Fibers -> [Indices -> Boxes \union {NoBox}]]
    BY <1>2, ValueFacts, SetSlot DEF FlsDetachCurrentThread
  <2>1. Types'
    BY <1>0, <2>0, <1>2 DEF FlsDetachCurrentThread, Steps, Types, jvm, guards, index, records, counter, Goto, SysDetach
  <2>2. ThreadInv(t)'
    BY <1>0, <2>0, <1>2 DEF FlsDetachCurrentThread, Idle, MayAttach, ThreadInv, Types, jvm, guards, index, records, counter, Goto, SysDetach
  <2> QED BY <2>0, <1>2, <2>1, <2>2, OtherThreads DEF FlsDetachCurrentThread, Types, jvm, guards, index, records, counter, Goto, SysDetach
<1>3. CASE Record(t)
  <2>. fiber[t] \in Fibers
    BY DEF Types
  <2>0. slot' \in [Fibers -> [Indices -> Boxes \union {NoBox}]]
    <3>1. flsIndex \in Indices
      BY <1>0, <1>3 DEF Types, ThreadInv, Record
    <3>2. CASE slot' = slot
      BY <3>2 DEF Types
    <3>3. ASSUME NEW b \in Boxes, FlsSetValue(fiber[t], b)
          PROVE  slot' \in [Fibers -> [Indices -> Boxes \union {NoBox}]]
      BY <3>1, <3>3, SetSlot
    <3> QED BY <1>3, <3>2, <3>3 DEF Record, records
  <2>1. Types'
    BY <1>0, <2>0, <1>3 DEF Record, Steps, Types, jvm, guards, index, records, counter, Goto
  <2>2. ThreadInv(t)'
    BY <1>0, <2>0, <1>3 DEF Record, Idle, MayAttach, ThreadInv, Types, jvm, guards, index, records, counter, Goto
  <2> QED BY <2>0, <1>3, <2>1, <2>2, OtherThreads DEF Record, Types, jvm, guards, index, records, counter, Goto
<1>4. CASE Uncount(t)
  <2>1. Types'
    BY <1>0, <1>4 DEF Uncount, Steps, Types, jvm, guards, index, records, counter, Goto
  <2>2. ThreadInv(t)'
    BY <1>0, <1>4 DEF Uncount, Idle, MayAttach, ThreadInv, Types, jvm, guards, index, records, counter, Goto
  <2> QED BY <1>4, <2>1, <2>2, OtherThreads DEF Uncount, Types, jvm, guards, index, records, counter, Goto
<1> QED BY <1>1, <1>2, <1>3, <1>4

LEMMA FiberSteps ==
    ASSUME Types, Threading, NEW t \in Threads, NEW f \in Fibers,
           SwitchFiber(t, f) \/ DeleteFiber(t, f)
    PROVE  Types' /\ Threading'
<1> USE LimitAssumption, NullAssumption, FibersAssumption
<1>0. ThreadInv(t)
  BY DEF Threading
<1>1. CASE SwitchFiber(t, f)
  <2>1. Types'
    BY <1>0, <1>1 DEF SwitchFiber, Steps, Types, jvm, guards, index, records, counter, Goto
  <2>2. ThreadInv(t)'
    BY <1>0, <1>1 DEF SwitchFiber, Idle, MayAttach, ThreadInv, Types, jvm, guards, index, records, counter, Goto
  <2> QED BY <1>1, <2>1, <2>2, OtherThreads DEF SwitchFiber, Types, jvm, guards, index, records, counter, Goto
<1>2. CASE DeleteFiber(t, f)
  <2>0. /\ slot' \in [Fibers -> [Indices -> Boxes \union {NoBox}]] /\ heap' \subseteq Boxes
        /\ attached' \in [Threads -> BOOLEAN] /\ pc' \in [Threads -> Steps]
        /\ attachNumber' = attachNumber
        /\ \A u \in Threads \ {t} : attached'[u] = attached[u] /\ pc'[u] = pc[u]
        /\ attached'[t] = FALSE \/ attached'[t] = attached[t]
        /\ pc'[t] = IF Value(f) # NoBox THEN "uncount"
                    ELSE IF f = fiber[t] THEN "dead" ELSE "run"
    BY <1>2, CallbackFacts DEF DeleteFiber
  <2>1. Types'
    BY <1>0, <2>0, <1>2 DEF DeleteFiber, Steps, Types, jvm, guards, index, records, counter
  <2>2. ThreadInv(t)'
    BY <1>0, <2>0, <1>2 DEF DeleteFiber, Idle, MayAttach, ThreadInv, Types, jvm, guards, index, records, counter
  <2> QED BY <2>0, <1>2, <2>1, <2>2, OtherThreads DEF DeleteFiber, Types, jvm, guards, index, records, counter
<1> QED BY <1>1, <1>2

LEMMA ThreadSteps ==
    ASSUME Types, Threading, NEW t \in Threads,
           ThreadExit(t) \/ ForeignAttach(t) \/ ForeignDetach(t)
    PROVE  Types' /\ Threading'
<1> USE LimitAssumption, NullAssumption, FibersAssumption
<1>0. ThreadInv(t)
  BY DEF Threading
<1>1. CASE ThreadExit(t)
  <2>. fiber[t] \in Fibers
    BY DEF Types
  <2>0. /\ slot' \in [Fibers -> [Indices -> Boxes \union {NoBox}]] /\ heap' \subseteq Boxes
        /\ attached' \in [Threads -> BOOLEAN] /\ pc' \in [Threads -> Steps]
        /\ attachNumber' = attachNumber
        /\ \A u \in Threads \ {t} : attached'[u] = attached[u] /\ pc'[u] = pc[u]
        /\ attached'[t] = FALSE \/ attached'[t] = attached[t]
        /\ pc'[t] = IF Value(fiber[t]) # NoBox THEN "uncount"
                    ELSE IF fiber[t] = fiber[t] THEN "dead" ELSE "run"
    BY <1>1, CallbackFacts DEF ThreadExit
  <2>1. Types'
    BY <1>0, <2>0, <1>1 DEF ThreadExit, Steps, Types, jvm, guards, index, records, counter
  <2>2. ThreadInv(t)'
    BY <1>0, <2>0, <1>1 DEF ThreadExit, Idle, MayAttach, ThreadInv, Types, jvm, guards, index, records, counter
  <2>3. ThreadOf[fiber[t]] = t
    BY <1>0 DEF ThreadInv
  <2> QED BY <2>0, <2>3, <1>1, <2>1, <2>2, OtherThreads DEF ThreadExit, Types, jvm, guards, index, records, counter
<1>2. CASE ForeignAttach(t)
  <2>1. Types'
    BY <1>0, <1>2 DEF ForeignAttach, Steps, Types, jvm, guards, index, records, counter, Goto, JvmAttach
  <2>2. ThreadInv(t)'
    BY <1>0, <1>2 DEF ForeignAttach, Idle, MayAttach, ThreadInv, Types, jvm, guards, index, records, counter, Goto, JvmAttach
  <2> QED BY <1>2, <2>1, <2>2, OtherThreads DEF ForeignAttach, Types, jvm, guards, index, records, counter, Goto, JvmAttach
<1>3. CASE ForeignDetach(t)
  <2>1. Types'
    BY <1>0, <1>3 DEF ForeignDetach, Steps, Types, jvm, guards, index, records, counter, Goto
  <2>2. ThreadInv(t)'
    BY <1>0, <1>3 DEF ForeignDetach, Idle, MayAttach, ThreadInv, Types, jvm, guards, index, records, counter, Goto
  <2> QED BY <1>3, <2>1, <2>2, OtherThreads DEF ForeignDetach, Types, jvm, guards, index, records, counter, Goto
<1> QED BY <1>1, <1>2, <1>3

(* No action but these changes the thread-local part of the state. *)
LEMMA ThreadingStep ==
    ASSUME Types, Threading, [Next]_vars
    PROVE  Types' /\ Threading'
<1>1. CASE UNCHANGED vars
  BY <1>1 DEF vars, Types, Threading, ThreadInv
<1>2. CASE Terminated
  BY <1>1, <1>2 DEF Terminated
<1> QED BY <1>1, <1>2, GuardSteps, IndexSteps, DetachSteps, FiberSteps, ThreadSteps DEF Next

-------------------------------------------------------------------------------
(* Records *)

(* RecordsOwned, slot by slot *)
SlotInv ==
    \A f \in Fibers, i \in Indices :
        slot[f][i] # NoBox =>
            /\ i = flsIndex /\ f \notin gone /\ slot[f][i] \in heap
            /\ \A g \in Fibers, j \in Indices : slot[g][j] = slot[f][i] => g = f /\ j = i

LEMMA SlotsOwned == SlotInv => RecordsOwned
<1> SUFFICES ASSUME SlotInv, NEW s \in Recorded
             PROVE  /\ s[2] = flsIndex /\ s[1] \notin gone /\ slot[s[1]][s[2]] \in heap
                    /\ \A r \in Recorded : slot[r[1]][r[2]] = slot[s[1]][s[2]] => r = s
  BY DEF RecordsOwned
<1>1. \A r \in Recorded : /\ r[1] \in Fibers /\ r[2] \in Indices /\ r = <<r[1], r[2]>>
                          /\ slot[r[1]][r[2]] # NoBox
  BY DEF Recorded
<1> QED BY <1>1 DEF SlotInv

(* A record is given up with its box, by a fiber that may be about to end. *)
LEMMA GiveUp ==
    ASSUME Types, SlotInv, NEW f \in Fibers, Value(f) # NoBox, FlsSetValue(f, NoBox),
           heap' = heap \ {Value(f)}, gone' \subseteq gone \union {f}, flsIndex' = flsIndex
    PROVE  SlotInv'
<1>1. flsIndex \in Indices /\ Value(f) = slot[f][flsIndex]
  BY ValueFacts
<1>2. \A g \in Fibers, i \in Indices :
         slot'[g][i] = IF g = f /\ i = flsIndex THEN NoBox ELSE slot[g][i]
  BY <1>1, SetSlot
<1>3. ASSUME NEW g \in Fibers, NEW i \in Indices, slot'[g][i] # NoBox
      PROVE  /\ slot'[g][i] = slot[g][i] /\ slot[g][i] # NoBox
             /\ i = flsIndex /\ g # f /\ slot[g][i] \in heap /\ g \notin gone
             /\ slot[g][i] # Value(f)
  BY <1>1, <1>2, <1>3 DEF SlotInv
<1> QED BY <1>3 DEF SlotInv

(* A fiber without a record ends. *)
LEMMA EndsUnrecorded ==
    ASSUME Types, SlotInv, NEW f \in Fibers, Value(f) = NoBox, gone' \subseteq gone \union {f},
           UNCHANGED <<slot, heap, flsIndex>>
    PROVE  SlotInv'
<1>1. ASSUME NEW i \in Indices PROVE slot[f][i] = NoBox
  BY NullAssumption DEF SlotInv, Value
<1> QED BY <1>1 DEF SlotInv

LEMMA SlotSteps ==
    ASSUME Types, Threading, SlotInv, NEW t \in Threads,
           \/ PublishIndex(t)
           \/ Record(t)
           \/ FlsDetachCurrentThread(t)
           \/ ThreadExit(t)
           \/ \E f \in Fibers : DeleteFiber(t, f)
    PROVE  SlotInv'
<1>0. fiber[t] \in Fibers /\ ThreadInv(t)
  BY DEF Types, Threading
<1>1. CASE PublishIndex(t)
  BY <1>1, NullAssumption DEF PublishIndex, records, SlotInv
<1>2. CASE Record(t)
  <2>1. fiber[t] \notin gone /\ flsIndex \in Indices /\ UNCHANGED <<gone, flsIndex>>
    BY <1>0, <1>2 DEF Record, ThreadInv, Types, index
  <2>2. CASE UNCHANGED records
    BY <2>1, <2>2 DEF records, SlotInv
  <2>3. ASSUME NEW b \in Boxes \ heap, FlsSetValue(fiber[t], b), heap' = heap \union {b} PROVE SlotInv'
    <3>1. \A g \in Fibers, i \in Indices :
             slot'[g][i] = IF g = fiber[t] /\ i = flsIndex THEN b ELSE slot[g][i]
      BY <1>0, <2>1, <2>3, SetSlot
    <3>2. \A g \in Fibers, i \in Indices : slot[g][i] # b
      BY NullAssumption DEF SlotInv
    <3> QED BY <2>1, <2>3, <3>1, <3>2 DEF SlotInv
  <2> QED BY <1>2, <2>2, <2>3 DEF Record
<1>3. CASE FlsDetachCurrentThread(t)
  <2>1. /\ Value(fiber[t]) # NoBox /\ FlsSetValue(fiber[t], NoBox)
        /\ heap' = heap \ {Value(fiber[t])} /\ UNCHANGED <<gone, flsIndex>>
    BY <1>3 DEF FlsDetachCurrentThread, index
  <2> QED BY <1>0, <2>1, GiveUp
<1>4. ASSUME NEW f \in Fibers, FlsCallback(t, f), gone' = gone \union {f}, flsIndex' = flsIndex
      PROVE  SlotInv'
  <2>1. CASE Value(f) = NoBox
    BY <1>4, <2>1, EndsUnrecorded DEF FlsCallback, records
  <2>2. CASE Value(f) # NoBox
    BY <1>4, <2>2, GiveUp DEF FlsCallback
  <2> QED BY <2>1, <2>2
<1>5. CASE ThreadExit(t)
  BY <1>0, <1>4, <1>5 DEF ThreadExit, index
<1>6. CASE \E f \in Fibers : DeleteFiber(t, f)
  BY <1>4, <1>6 DEF DeleteFiber, index
<1> QED BY <1>1, <1>2, <1>3, <1>5, <1>6

LEMMA SlotStep ==
    ASSUME Types, Threading, SlotInv, [Next]_vars
    PROVE  SlotInv'
<1>1. UNCHANGED <<slot, heap, flsIndex, gone>> => SlotInv'
  BY DEF SlotInv
<1>2. ASSUME NEW t \in Threads,
             \/ AttachUnowned(t) \/ AttachScoped(t) \/ CountScoped(t) \/ DropGuard(t)
             \/ GetIndex(t) \/ AllocIndex(t) \/ SysAttach(t) \/ Uncount(t)
             \/ \E f \in Fibers : SwitchFiber(t, f)
             \/ ForeignAttach(t) \/ ForeignDetach(t)
      PROVE  SlotInv'
  BY <1>1, <1>2 DEF AttachUnowned, AttachScoped, CountScoped, DropGuard, GetIndex, AllocIndex, SysAttach,
     Uncount, SwitchFiber, ForeignAttach, ForeignDetach, index, records
<1>3. UNCHANGED vars => SlotInv'
  BY <1>1 DEF vars
<1> QED BY <1>2, <1>3, SlotSteps DEF Next, Terminated

-------------------------------------------------------------------------------
(* The counter *)

Recording == {f \in Fibers : Value(f) # NoBox}
Owning == {t \in Threads : owned[t]}
Uncounting == {t \in Threads : pc[t] = "uncount"}

(* Claims as a function of the three sets *)
Tagged(R, G, U) ==
    {<<"record", f>> : f \in R} \union {<<"guard", t>> : t \in G} \union {<<"uncount", t>> : t \in U}

LEMMA ClaimsTagged == Claims = Tagged(Recording, Owning, Uncounting)
  BY DEF Claims, Tagged, Recording, Owning, Uncounting

(* One element more in a finite set *)
LEMMA OneMore ==
    ASSUME NEW S, NEW T, NEW x, T = S \union {x}, x \notin S
    PROVE  /\ IsFiniteSet(S) <=> IsFiniteSet(T)
           /\ IsFiniteSet(S) => Cardinality(S) \in Nat /\ Cardinality(T) = Cardinality(S) + 1
<1>1. IsFiniteSet(S) => IsFiniteSet(T) /\ Cardinality(T) = Cardinality(S) + 1 /\ Cardinality(S) \in Nat
  BY FS_AddElement, FS_CardinalityType
<1>2. IsFiniteSet(T) => IsFiniteSet(S)
  BY FS_Subset
<1> QED BY <1>1, <1>2

LEMMA TagRecord ==
    ASSUME NEW R, NEW G, NEW U, NEW f, f \notin R
    PROVE  /\ Tagged(R \union {f}, G, U) = Tagged(R, G, U) \union {<<"record", f>>}
           /\ <<"record", f>> \notin Tagged(R, G, U)
  BY DEF Tagged

LEMMA TagOwner ==
    ASSUME NEW R, NEW G, NEW U, NEW t, t \notin G
    PROVE  /\ Tagged(R, G \union {t}, U) = Tagged(R, G, U) \union {<<"guard", t>>}
           /\ <<"guard", t>> \notin Tagged(R, G, U)
  BY DEF Tagged

LEMMA TagUncount ==
    ASSUME NEW R, NEW G, NEW U, NEW t, t \notin U
    PROVE  /\ Tagged(R, G, U \union {t}) = Tagged(R, G, U) \union {<<"uncount", t>>}
           /\ <<"uncount", t>> \notin Tagged(R, G, U)
  BY DEF Tagged

(* How many claims there are, if they are finite *)
Claiming(R, G, U, n) == IsFiniteSet(Tagged(R, G, U)) /\ n = Cardinality(Tagged(R, G, U))

LEMMA CountsRecord ==
    ASSUME NEW R, NEW G, NEW U, NEW f, f \notin R, NEW n
    PROVE  /\ Claiming(R, G, U, n) => n \in Nat /\ Claiming(R \union {f}, G, U, n + 1)
           /\ Claiming(R \union {f}, G, U, n) => n - 1 \in Nat /\ Claiming(R, G, U, n - 1)
<1>1. /\ Tagged(R \union {f}, G, U) = Tagged(R, G, U) \union {<<"record", f>>}
      /\ <<"record", f>> \notin Tagged(R, G, U)
  BY TagRecord
<1>2. /\ IsFiniteSet(Tagged(R, G, U)) <=> IsFiniteSet(Tagged(R \union {f}, G, U))
      /\ IsFiniteSet(Tagged(R, G, U)) =>
            /\ Cardinality(Tagged(R, G, U)) \in Nat
            /\ Cardinality(Tagged(R \union {f}, G, U)) = Cardinality(Tagged(R, G, U)) + 1
  BY <1>1, OneMore
<1> QED BY <1>2 DEF Claiming

LEMMA CountsOwner ==
    ASSUME NEW R, NEW G, NEW U, NEW t, t \notin G, NEW n
    PROVE  /\ Claiming(R, G, U, n) => n \in Nat /\ Claiming(R, G \union {t}, U, n + 1)
           /\ Claiming(R, G \union {t}, U, n) => n - 1 \in Nat /\ Claiming(R, G, U, n - 1)
<1>1. /\ Tagged(R, G \union {t}, U) = Tagged(R, G, U) \union {<<"guard", t>>}
      /\ <<"guard", t>> \notin Tagged(R, G, U)
  BY TagOwner
<1>2. /\ IsFiniteSet(Tagged(R, G, U)) <=> IsFiniteSet(Tagged(R, G \union {t}, U))
      /\ IsFiniteSet(Tagged(R, G, U)) =>
            /\ Cardinality(Tagged(R, G, U)) \in Nat
            /\ Cardinality(Tagged(R, G \union {t}, U)) = Cardinality(Tagged(R, G, U)) + 1
  BY <1>1, OneMore
<1> QED BY <1>2 DEF Claiming

LEMMA CountsUncount ==
    ASSUME NEW R, NEW G, NEW U, NEW t, t \notin U, NEW n
    PROVE  /\ Claiming(R, G, U, n) => n \in Nat /\ Claiming(R, G, U \union {t}, n + 1)
           /\ Claiming(R, G, U \union {t}, n) => n - 1 \in Nat /\ Claiming(R, G, U, n - 1)
<1>1. /\ Tagged(R, G, U \union {t}) = Tagged(R, G, U) \union {<<"uncount", t>>}
      /\ <<"uncount", t>> \notin Tagged(R, G, U)
  BY TagUncount
<1>2. /\ IsFiniteSet(Tagged(R, G, U)) <=> IsFiniteSet(Tagged(R, G, U \union {t}))
      /\ IsFiniteSet(Tagged(R, G, U)) =>
            /\ Cardinality(Tagged(R, G, U)) \in Nat
            /\ Cardinality(Tagged(R, G, U \union {t})) = Cardinality(Tagged(R, G, U)) + 1
  BY <1>1, OneMore
<1> QED BY <1>2 DEF Claiming

LEMMA CountedClaiming ==
    ASSUME unrecorded \in Nat
    PROVE  /\ Counted => attachedThreads \in Nat
                         /\ Claiming(Recording, Owning, Uncounting, attachedThreads - unrecorded)
           /\ attachedThreads \in Int
              /\ Claiming(Recording, Owning, Uncounting, attachedThreads - unrecorded) => Counted
  BY ClaimsTagged, FS_CardinalityType DEF Counted, AttachmentsCounted, Claiming

(* What the steps do to the claims *)
LEMMA CountedSteps ==
    ASSUME Types, Threading, SlotInv, Counted, NEW t \in Threads,
           \/ CountScoped(t) \/ DropGuard(t) \/ Record(t) \/ Uncount(t)
           \/ FlsDetachCurrentThread(t)
           \/ ThreadExit(t)
           \/ \E f \in Fibers : DeleteFiber(t, f)
    PROVE  Counted'
<1> DEFINE n == attachedThreads - unrecorded
<1>0. /\ ThreadInv(t) /\ fiber[t] \in Fibers
      /\ attachedThreads \in Nat /\ unrecorded \in Nat
      /\ Claiming(Recording, Owning, Uncounting, n)
  BY CountedClaiming DEF Types, Threading
<1>1. ASSUME Claiming(Recording', Owning', Uncounting', attachedThreads' - unrecorded'),
             unrecorded' \in Nat, attachedThreads' \in Int
      PROVE  Counted'
  <2>1. Claims' = Tagged(Recording', Owning', Uncounting')
    BY DEF Claims, Tagged, Recording, Owning, Uncounting
  <2> QED BY <1>1, <2>1, FS_CardinalityType DEF Counted, AttachmentsCounted, Claiming
<1>2. UNCHANGED <<slot, flsIndex>> => Recording' = Recording
  BY DEF Recording, Value
<1>3. UNCHANGED owned => Owning' = Owning
  BY DEF Owning
<1>4. ASSUME NEW step, pc' = [pc EXCEPT ![t] = step], step # "uncount", pc[t] # "uncount"
      PROVE  Uncounting' = Uncounting
  BY <1>4 DEF Uncounting, Types
<1>5. ASSUME pc' = [pc EXCEPT ![t] = "uncount"], pc[t] # "uncount"
      PROVE  Uncounting' = Uncounting \union {t} /\ t \notin Uncounting
  BY <1>5 DEF Uncounting, Types
<1>6. ASSUME NEW f \in Fibers, NEW value \in Boxes \union {NoBox}, FlsSetValue(f, value),
             flsIndex \in Indices, flsIndex' = flsIndex
      PROVE  \A g \in Fibers : Value(g)' = IF g = f THEN value ELSE Value(g)
  <2>1. \A g \in Fibers, i \in Indices :
           slot'[g][i] = IF g = f /\ i = flsIndex THEN value ELSE slot[g][i]
    BY <1>6, SetSlot
  <2> QED BY <1>6, <2>1, NullAssumption DEF Value
<1>7. ASSUME NEW f \in Fibers, Value(f) # NoBox, FlsSetValue(f, NoBox), pc[t] # "uncount",
             pc' = [pc EXCEPT ![t] = "uncount"], UNCHANGED <<flsIndex, owned, counter>>
      PROVE  Counted'
  <2>1. \A g \in Fibers : Value(g)' = IF g = f THEN NoBox ELSE Value(g)
    BY <1>6, <1>7, ValueFacts
  <2>2. Recording = Recording' \union {f} /\ f \notin Recording'
    BY <1>7, <2>1 DEF Recording
  <2>3. Owning' = Owning /\ Uncounting' = Uncounting \union {t} /\ t \notin Uncounting
    BY <1>3, <1>5, <1>7
  <2>4. n - 1 \in Nat /\ Claiming(Recording', Owning, Uncounting, n - 1)
    BY <1>0, <2>2, CountsRecord
  <2>5. Claiming(Recording', Owning, Uncounting \union {t}, n - 1 + 1)
    BY <2>3, <2>4, CountsUncount
  <2> QED BY <1>0, <1>1, <1>7, <2>3, <2>4, <2>5 DEF counter
<1>8. ASSUME UNCHANGED <<slot, flsIndex, owned>>, Uncounting' = Uncounting,
             unrecorded' \in Nat, attachedThreads' \in Int, attachedThreads' - unrecorded' = n
      PROVE  Counted'
  BY <1>0, <1>1, <1>2, <1>3, <1>8
<1>9. CASE CountScoped(t)
  <2>0. owned[t] # TRUE
    <3>1. nestLevel[t] = 0
      BY <1>0, <1>9 DEF CountScoped, ThreadInv
    <3>2. owned[t] = TRUE => nestLevel[t] > 0
      BY <1>0 DEF ThreadInv
    <3>3. ~(nestLevel[t] > 0)
      BY <3>1
    <3> QED BY <3>2, <3>3, Zenon
  <2>1. /\ owned' = [owned EXCEPT ![t] = TRUE]
        /\ attachedThreads' = attachedThreads + 1 /\ unrecorded' = unrecorded
        /\ UNCHANGED <<slot, flsIndex>>
    BY <1>9 DEF CountScoped, index, records
  <2>2. Uncounting' = Uncounting
    BY <1>4, <1>9 DEF CountScoped, Goto
  <2>3. Owning' = Owning \union {t} /\ t \notin Owning
    BY <2>0, <2>1 DEF Owning, Types
  <2>4. Claiming(Recording, Owning \union {t}, Uncounting, n + 1)
    BY <1>0, <2>3, CountsOwner
  <2> QED BY <1>0, <1>1, <1>2, <2>1, <2>2, <2>3, <2>4
<1>10. CASE DropGuard(t)
  <2>1. UNCHANGED <<slot, flsIndex, attachedThreads, unrecorded>> /\ pc[t] = "run"
    BY <1>10 DEF DropGuard, index, records, counter
  <2>2. CASE nestLevel[t] = 1 /\ owned[t]
    <3>1. attached[t]
      BY <1>0, <2>2 DEF ThreadInv
    <3>2. owned' = [owned EXCEPT ![t] = FALSE] /\ pc' = [pc EXCEPT ![t] = "uncount"]
      BY <1>10, <2>2, <3>1 DEF DropGuard, SysDetach, Goto
    <3>3. Owning = Owning' \union {t} /\ t \notin Owning'
      BY <2>2, <3>2 DEF Owning, Types
    <3>4. n - 1 \in Nat /\ Claiming(Recording, Owning', Uncounting, n - 1)
      BY <1>0, <3>3, CountsOwner
    <3>5. Uncounting' = Uncounting \union {t} /\ t \notin Uncounting
      BY <1>5, <2>1, <3>2
    <3>6. Claiming(Recording, Owning', Uncounting \union {t}, n - 1 + 1)
      BY <3>4, <3>5, CountsUncount
    <3> QED BY <1>0, <1>1, <1>2, <2>1, <3>4, <3>5, <3>6
  <2>3. CASE ~(nestLevel[t] = 1 /\ owned[t])
    <3>1. UNCHANGED <<owned, pc>>
      BY <1>10, <2>3, Zenon DEF DropGuard
    <3>2. Uncounting' = Uncounting
      BY <3>1 DEF Uncounting
    <3> QED BY <1>0, <1>8, <2>1, <3>1, <3>2
  <2> QED BY <2>2, <2>3
<1>11. CASE Record(t)
  <2>1. /\ flsIndex \in Indices /\ UNCHANGED <<flsIndex, owned>>
        /\ attachedThreads' = IF Value(fiber[t]) = NoBox THEN attachedThreads + 1 ELSE attachedThreads
    BY <1>0, <1>11 DEF Record, ThreadInv, Types, index
  <2>2. Uncounting' = Uncounting
    BY <1>4, <1>11 DEF Record, Goto
  <2>3. CASE /\ unrecorded' = unrecorded + IF Value(fiber[t]) = NoBox THEN 1 ELSE 0
             /\ UNCHANGED records
    BY <1>0, <1>8, <2>1, <2>2, <2>3 DEF records
  <2>4. ASSUME NEW b \in Boxes, FlsSetValue(fiber[t], b), UNCHANGED unrecorded
        PROVE  Counted'
    <3>1. \A g \in Fibers : Value(g)' = IF g = fiber[t] THEN b ELSE Value(g)
      BY <1>0, <1>6, <2>1, <2>4
    <3>2. Recording' = Recording \union {fiber[t]}
      BY <1>0, <3>1, NullAssumption DEF Recording
    <3>3. CASE fiber[t] \in Recording
      <4>1. Recording' = Recording /\ attachedThreads' = attachedThreads
        BY <2>1, <3>2, <3>3 DEF Recording
      <4> QED BY <1>0, <1>1, <1>3, <2>1, <2>2, <2>4, <4>1
    <3>4. CASE fiber[t] \notin Recording
      <4>1. attachedThreads' = attachedThreads + 1
        BY <1>0, <2>1, <3>4 DEF Recording
      <4>2. Claiming(Recording', Owning, Uncounting, n + 1)
        BY <1>0, <3>2, <3>4, CountsRecord
      <4> QED BY <1>0, <1>1, <1>3, <2>1, <2>2, <2>4, <4>1, <4>2
    <3> QED BY <3>3, <3>4
  <2> QED BY <1>11, <2>3, <2>4 DEF Record
<1>12. CASE Uncount(t)
  <2>1. /\ UNCHANGED <<slot, flsIndex, owned, unrecorded>> /\ attachedThreads' = attachedThreads - 1
        /\ pc[t] = "uncount"
    BY <1>12 DEF Uncount, guards, index, records
  <2>2. \/ pc' = [pc EXCEPT ![t] = "dead"]
        \/ pc' = [pc EXCEPT ![t] = "run"]
    BY <1>12 DEF Uncount, Goto
  <2>3. Uncounting = Uncounting' \union {t} /\ t \notin Uncounting'
    BY <2>1, <2>2 DEF Uncounting, Types
  <2>4. Claiming(Recording, Owning, Uncounting', n - 1)
    BY <1>0, <2>3, CountsUncount
  <2> QED BY <1>0, <1>1, <1>2, <1>3, <2>1, <2>4
<1>13. CASE FlsDetachCurrentThread(t)
  BY <1>0, <1>7, <1>13 DEF FlsDetachCurrentThread, SysDetach, Goto, Idle, guards, index
<1>14. ASSUME NEW f \in Fibers, FlsCallback(t, f), pc[t] = "run", UNCHANGED <<flsIndex, owned, counter>>
       PROVE  Counted'
  <2>1. CASE Value(f) # NoBox
    BY <1>7, <1>14, <2>1 DEF FlsCallback, SysDetach, Goto
  <2>2. CASE Value(f) = NoBox
    <3>1. UNCHANGED slot /\ Uncounting' = Uncounting
      BY <1>4, <1>14, <2>2 DEF FlsCallback, Goto, records
    <3> QED BY <1>0, <1>8, <1>14, <3>1 DEF counter
  <2> QED BY <2>1, <2>2
<1>15. CASE ThreadExit(t)
  BY <1>0, <1>14, <1>15 DEF ThreadExit, Idle, guards, index
<1>16. CASE \E f \in Fibers : DeleteFiber(t, f)
  BY <1>14, <1>16 DEF DeleteFiber, Idle, guards, index
<1> QED BY <1>9, <1>10, <1>11, <1>12, <1>13, <1>15, <1>16

LEMMA CountedStep ==
    ASSUME Types, Threading, SlotInv, Counted, [Next]_vars
    PROVE  Counted'
<1>1. UNCHANGED <<slot, flsIndex, owned, counter>> /\ Uncounting' = Uncounting => Counted'
  <2> SUFFICES ASSUME UNCHANGED <<slot, flsIndex, owned, counter>>, Uncounting' = Uncounting
               PROVE  Counted'
    OBVIOUS
  <2>1. Recording' = Recording /\ Owning' = Owning
    BY DEF Recording, Value, Owning
  <2>2. Claims' = Tagged(Recording', Owning', Uncounting')
    BY DEF Claims, Tagged, Recording, Owning, Uncounting
  <2>3. Claims' = Claims
    BY <2>1, <2>2, ClaimsTagged
  <2> QED BY <2>3 DEF Counted, AttachmentsCounted, counter
<1>2. ASSUME NEW t \in Threads, NEW step, pc' = [pc EXCEPT ![t] = step],
             step # "uncount", pc[t] # "uncount"
      PROVE  Uncounting' = Uncounting
  BY <1>2 DEF Uncounting, Types
<1>3. UNCHANGED pc => Uncounting' = Uncounting
  BY DEF Uncounting
<1>4. ASSUME NEW t \in Threads,
             \/ AttachUnowned(t) \/ ForeignAttach(t) \/ ForeignDetach(t)
             \/ \E f \in Fibers : SwitchFiber(t, f)
      PROVE  Counted'
  BY <1>1, <1>3, <1>4 DEF AttachUnowned, ForeignAttach, ForeignDetach, SwitchFiber, index, records, guards
<1>5. ASSUME NEW t \in Threads, AttachScoped(t) \/ GetIndex(t) \/ AllocIndex(t) \/ SysAttach(t)
      PROVE  Counted'
  <2>1. UNCHANGED <<slot, flsIndex, owned, counter>>
    BY <1>5 DEF AttachScoped, GetIndex, AllocIndex, SysAttach, guards, index, records
  <2>2. Uncounting' = Uncounting
    BY <1>2, <1>5 DEF AttachScoped, GetIndex, AllocIndex, SysAttach, Goto, Idle
  <2> QED BY <1>1, <2>1, <2>2
<1>6. ASSUME NEW t \in Threads, PublishIndex(t) PROVE Counted'
  <2>1. Recording' = Recording
    <3>1. ASSUME NEW f \in Fibers PROVE Value(f)' = Value(f)
      BY <1>6, NullAssumption DEF PublishIndex, records, Value, SlotInv, Types, Threading, ThreadInv
    <3> QED BY <3>1 DEF Recording
  <2>2. UNCHANGED <<owned, counter>> /\ Uncounting' = Uncounting
    BY <1>2, <1>6 DEF PublishIndex, Goto, guards
  <2>3. Owning' = Owning
    BY <2>2 DEF Owning
  <2>4. Claims' = Tagged(Recording', Owning', Uncounting')
    BY DEF Claims, Tagged, Recording, Owning, Uncounting
  <2>5. Claims' = Claims
    BY <2>1, <2>2, <2>3, <2>4, ClaimsTagged
  <2> QED BY <2>2, <2>5 DEF Counted, AttachmentsCounted, counter
<1>7. UNCHANGED vars => Counted'
  BY <1>1, <1>3 DEF vars, counter
<1> QED BY <1>4, <1>5, <1>6, <1>7, CountedSteps DEF Next, Terminated

-------------------------------------------------------------------------------
(* The invariant, and what follows from it *)

Inv == Types /\ Threading /\ SlotInv /\ Counted

LEMMA InitInv == Init => Inv
<1> SUFFICES ASSUME Init PROVE Inv
  OBVIOUS
<1>1. Types /\ Threading
  BY ThreadingInit
<1>2. SlotInv
  BY DEF Init, SlotInv
<1>3. Recording = {} /\ Owning = {} /\ Uncounting = {}
  BY DEF Init, Recording, Owning, Uncounting, Value
<1>4. Claims = {}
  BY <1>3, ClaimsTagged DEF Tagged
<1>5. Counted
  BY <1>4, FS_EmptySet DEF Counted, AttachmentsCounted, Init
<1> QED BY <1>1, <1>2, <1>5 DEF Inv

LEMMA AlwaysInv == Spec => []Inv
<1>1. Inv /\ [Next]_vars => Inv'
  BY ThreadingStep, SlotStep, CountedStep DEF Inv
<1> QED BY <1>1, InitInv, PTL DEF Spec

(* Every variable keeps its type; the unsigned counter never falls below zero. *)
THEOREM TypeCorrect == Spec => []TypeOK
<1>1. ASSUME Inv PROVE TypeOK
  <2>1. attachedThreads \in Nat
    BY <1>1, CountedClaiming DEF Inv, Types
  <2> QED BY <1>1, <2>1 DEF Inv, Types, TypeOK
<1> QED BY <1>1, AlwaysInv, PTL

(* A record is under FLS_INDEX, however many threads race to allocate it; its box is
   allocated and in no other slot; a fiber that has ended has none. *)
THEOREM RecordsAreOwned == Spec => []RecordsOwned
<1>1. Inv => RecordsOwned
  BY SlotsOwned DEF Inv
<1> QED BY <1>1, AlwaysInv, PTL

(* ATTACHED_THREADS is the number of records, owning guards and unfinished
   detachments, and one more for each record that could not be stored. *)
THEOREM CounterIsExact == Spec => []AttachmentsCounted
<1>1. Inv => AttachmentsCounted
  BY DEF Inv, Counted
<1> QED BY <1>1, AlwaysInv, PTL

-------------------------------------------------------------------------------
(* The contract is kept *)

(* What a step of one thread does to its JNIEnv and to its guard level *)
Mapped(t) ==
    \/ UNCHANGED <<attached, attachNumber, nestLevel>>
    \/ /\ ~attached[t] /\ attachNumber[t] < MaxAttach
       /\ JvmAttach(t) /\ UNCHANGED nestLevel
    \/ /\ attached[t] /\ UNCHANGED jvm
       /\ nestLevel' = [nestLevel EXCEPT ![t] = nestLevel[t] + 1]
    \/ /\ nestLevel[t] > 0 /\ UNCHANGED jvm
       /\ nestLevel' = [nestLevel EXCEPT ![t] = nestLevel[t] - 1]
    \/ /\ nestLevel[t] = 1 /\ attached' = [attached EXCEPT ![t] = FALSE] /\ UNCHANGED attachNumber
       /\ nestLevel' = [nestLevel EXCEPT ![t] = nestLevel[t] - 1]
    \/ /\ nestLevel[t] = 0 /\ attached' = [attached EXCEPT ![t] = FALSE] /\ UNCHANGED attachNumber
       /\ UNCHANGED nestLevel

LEMMA MappedIsContract ==
    ASSUME Types, Types', NEW t \in Threads, ThreadInv(t), Mapped(t)
    PROVE  [Contract!ContractNext]_(Contract!contractVars)
<1> DEFINE envs == [u \in Threads |-> IF attached[u] THEN attachNumber[u] ELSE NullEnv]
<1>0. /\ attached \in [Threads -> BOOLEAN] /\ attached' \in [Threads -> BOOLEAN]
      /\ attachNumber \in [Threads -> Nat] /\ nestLevel \in [Threads -> Nat]
  BY DEF Types
<1>1. CASE UNCHANGED <<attached, attachNumber, nestLevel>>
  BY <1>1 DEF Contract!contractVars
<1>2. CASE /\ ~attached[t] /\ attachNumber[t] < MaxAttach
           /\ JvmAttach(t) /\ UNCHANGED nestLevel
  <2>1. attachNumber[t] + 1 \in Env
    BY <1>0, <1>2, LimitAssumption DEF Env
  <2>2. envs[t] = NullEnv
    BY <1>2
  <2>3. envs' = [envs EXCEPT ![t] = attachNumber[t] + 1]
    <3>1. \A u \in Threads : envs'[u] = IF u = t THEN attachNumber[t] + 1 ELSE envs[u]
      BY <1>0, <1>2 DEF JvmAttach
    <3> QED BY <3>1
  <2> HIDE DEF envs
  <2>4. Contract!Attach(t)
    BY <1>2, <2>1, <2>2, <2>3 DEF Contract!Attach, envs
  <2> QED BY <2>4 DEF Contract!ContractNext
<1>3. CASE /\ attached[t] /\ UNCHANGED jvm
           /\ nestLevel' = [nestLevel EXCEPT ![t] = nestLevel[t] + 1]
  <2>1. envs' = envs
    BY <1>3 DEF jvm
  <2>2. envs[t] # NullEnv
    BY <1>0, <1>3 DEF ThreadInv, NullEnv
  <2> HIDE DEF envs
  <2>3. Contract!Use(t)
    BY <1>3, <2>1, <2>2 DEF Contract!Use, envs
  <2> QED BY <2>3 DEF Contract!ContractNext
<1>4. CASE /\ nestLevel[t] > 0 /\ UNCHANGED jvm
           /\ nestLevel' = [nestLevel EXCEPT ![t] = nestLevel[t] - 1]
  <2>1. envs' = envs
    BY <1>4 DEF jvm
  <2> HIDE DEF envs
  <2>2. Contract!Release(t)
    BY <1>4, <2>1 DEF Contract!Release, envs
  <2> QED BY <2>2 DEF Contract!ContractNext
<1>5. ASSUME attached' = [attached EXCEPT ![t] = FALSE], UNCHANGED attachNumber
      PROVE  envs' = [envs EXCEPT ![t] = NullEnv]
  <2>1. \A u \in Threads : envs'[u] = IF u = t THEN NullEnv ELSE envs[u]
    BY <1>0, <1>5
  <2> QED BY <2>1
<1>6. CASE /\ nestLevel[t] = 1 /\ attached' = [attached EXCEPT ![t] = FALSE] /\ UNCHANGED attachNumber
           /\ nestLevel' = [nestLevel EXCEPT ![t] = nestLevel[t] - 1]
  <2>1. envs' = [envs EXCEPT ![t] = NullEnv]
    BY <1>5, <1>6
  <2>2. nestLevel[t] > 0
    BY <1>6
  <2> HIDE DEF envs
  <2>3. Contract!Release(t)
    BY <1>6, <2>1, <2>2 DEF Contract!Release, envs
  <2> QED BY <2>3 DEF Contract!ContractNext
<1>7. CASE /\ nestLevel[t] = 0 /\ attached' = [attached EXCEPT ![t] = FALSE] /\ UNCHANGED attachNumber
           /\ UNCHANGED nestLevel
  <2>1. envs' = [envs EXCEPT ![t] = NullEnv]
    BY <1>5, <1>7
  <2>2. CASE attached[t]
    <3>1. envs[t] # NullEnv
      BY <1>0, <2>2 DEF ThreadInv, NullEnv
    <3> HIDE DEF envs
    <3>2. Contract!Detach(t)
      BY <1>7, <2>1, <3>1 DEF Contract!Detach, envs
    <3> QED BY <3>2 DEF Contract!ContractNext
  <2>3. CASE ~attached[t]
    <3>1. attached' = attached
      BY <1>0, <1>7, <2>3
    <3> QED BY <1>7, <3>1 DEF Contract!contractVars
  <2> QED BY <2>2, <2>3
<1> QED BY <1>1, <1>2, <1>3, <1>4, <1>6, <1>7 DEF Mapped

LEMMA StepsMap ==
    ASSUME Types, Threading, [Next]_vars
    PROVE  [Contract!ContractNext]_(Contract!contractVars)
<1>0. Types'
  BY ThreadingStep
<1>1. ASSUME NEW t \in Threads, Mapped(t)
      PROVE  [Contract!ContractNext]_(Contract!contractVars)
  BY <1>0, <1>1, MappedIsContract DEF Threading
<1>2. ASSUME NEW t \in Threads,
             \/ CountScoped(t) \/ DropGuard(t) \/ Record(t) \/ AttachUnowned(t)
      PROVE  Mapped(t)
  <2>1. ThreadInv(t)
    BY DEF Threading
  <2>2. CASE AttachUnowned(t)
    BY <2>2 DEF AttachUnowned, Mapped
  <2>3. CASE CountScoped(t)
    <3>1. pc[t] = "count_scoped" /\ nestLevel' = [nestLevel EXCEPT ![t] = 1] /\ UNCHANGED jvm
      BY <2>3 DEF CountScoped
    <3>2. attached[t] /\ nestLevel[t] + 1 = 1
      BY <2>1, <3>1 DEF ThreadInv
    <3> QED BY <3>1, <3>2 DEF Mapped
  <2>4. CASE Record(t)
    <3>1. pc[t] = "record" /\ UNCHANGED jvm
      BY <2>4 DEF Record
    <3>2. attached[t] /\ nestLevel[t] + 1 = 1
      BY <2>1, <3>1 DEF ThreadInv
    <3>3. UNCHANGED nestLevel \/ nestLevel' = [nestLevel EXCEPT ![t] = 1]
      BY <2>4 DEF Record
    <3> QED BY <3>1, <3>2, <3>3 DEF Mapped, jvm
  <2>5. CASE DropGuard(t)
    <3>1. nestLevel' = [nestLevel EXCEPT ![t] = nestLevel[t] - 1] /\ nestLevel[t] > 0
      BY <2>5 DEF DropGuard
    <3>2. CASE nestLevel[t] = 1 /\ owned[t]
      <4>1. attached[t]
        BY <2>1, <3>2 DEF ThreadInv
      <4>2. attached' = [attached EXCEPT ![t] = FALSE] /\ UNCHANGED attachNumber
        BY <2>5, <3>2, <4>1 DEF DropGuard, SysDetach
      <4> QED BY <3>1, <3>2, <4>2 DEF Mapped
    <3>3. CASE ~(nestLevel[t] = 1 /\ owned[t])
      <4>1. UNCHANGED jvm
        BY <2>5, <3>3, Zenon DEF DropGuard
      <4> QED BY <3>1, <4>1 DEF Mapped
    <3> QED BY <3>2, <3>3
  <2> QED BY <1>2, <2>2, <2>3, <2>4, <2>5
<1>3. ASSUME NEW t \in Threads, AttachScoped(t) \/ SysAttach(t) \/ ForeignAttach(t)
      PROVE  Mapped(t)
  <2>1. ThreadInv(t)
    BY DEF Threading
  <2>2. CASE AttachScoped(t)
    BY <2>2 DEF AttachScoped, MayAttach, Mapped, guards
  <2>3. CASE ForeignAttach(t)
    BY <2>3 DEF ForeignAttach, MayAttach, Mapped, guards
  <2>4. CASE SysAttach(t)
    <3>1. ~attached[t] /\ attachNumber[t] < MaxAttach
      BY <2>1, <2>4 DEF SysAttach, ThreadInv
    <3> QED BY <2>4, <3>1 DEF SysAttach, Mapped, guards, jvm
  <2> QED BY <1>3, <2>2, <2>3, <2>4
<1>4. ASSUME NEW t \in Threads, NEW f \in Fibers, FlsCallback(t, f), nestLevel[t] = 0, UNCHANGED guards
      PROVE  Mapped(t)
  BY <1>4 DEF FlsCallback, SysDetach, Mapped, jvm, guards
<1>5. ASSUME NEW t \in Threads,
             \/ FlsDetachCurrentThread(t) \/ ForeignDetach(t) \/ ThreadExit(t)
             \/ \E f \in Fibers : DeleteFiber(t, f)
      PROVE  Mapped(t)
  <2>1. fiber[t] \in Fibers
    BY DEF Types
  <2>2. FlsDetachCurrentThread(t) \/ ForeignDetach(t) => Mapped(t)
    BY DEF FlsDetachCurrentThread, ForeignDetach, SysDetach, Idle, Mapped, guards
  <2>3. ThreadExit(t) => Mapped(t)
    BY <1>4, <2>1 DEF ThreadExit, Idle
  <2>4. (\E f \in Fibers : DeleteFiber(t, f)) => Mapped(t)
    BY <1>4 DEF DeleteFiber, Idle
  <2> QED BY <1>5, <2>2, <2>3, <2>4
<1>6. ASSUME NEW t \in Threads,
             \/ GetIndex(t) \/ AllocIndex(t) \/ PublishIndex(t) \/ Uncount(t)
             \/ \E f \in Fibers : SwitchFiber(t, f)
      PROVE  Mapped(t)
  BY <1>6 DEF GetIndex, AllocIndex, PublishIndex, Uncount, SwitchFiber, jvm, guards, Mapped
<1>7. CASE UNCHANGED vars
  BY <1>7 DEF vars, Contract!contractVars
<1> QED BY <1>1, <1>2, <1>3, <1>5, <1>6, <1>7 DEF Next, Terminated

(* The Windows build implements AttachmentContract: neither another fiber nor
   the callback takes a JNIEnv from under a guard. *)
THEOREM ContractKept == Spec => KeepsContract
<1>1. Init => Contract!ContractInit
  <2> SUFFICES ASSUME Init PROVE Contract!ContractInit
    OBVIOUS
  <2>1. [t \in Threads |-> IF attached[t] THEN attachNumber[t] ELSE NullEnv]
            \in [Threads -> Env \union {NullEnv}]
    BY DEF Init
  <2>2. nestLevel = [t \in Threads |-> 0]
    BY DEF Init
  <2> QED BY <2>1, <2>2 DEF Contract!ContractInit
<1>2. Inv /\ [Next]_vars => [Contract!ContractNext]_(Contract!contractVars)
  BY StepsMap DEF Inv
<1> QED BY <1>1, <1>2, AlwaysInv, PTL DEF Spec, KeepsContract, Contract!ContractSpec
===============================================================================
