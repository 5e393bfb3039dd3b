------------------------- MODULE ArrayElementsProofs -------------------------
(***************************************************************************)
(* Proofs about ArrayElements, for any sets of arrays, strings, guards and *)
(* buffers, any length and any width of jsize, about ModifiedUtf8, for any *)
(* strings, and about Signatures, for any texts.                           *)
(*                                                                         *)
(* The argument for the first: the guards and the JVM's ledger are two     *)
(* sides of one relation, in which a buffer has one guard unless it is     *)
(* stranded; and a critical section is only ever open under an AttachGuard.*)
(***************************************************************************)
EXTENDS ArrayElements, ModifiedUtf8, Signatures, SequenceTheorems, TLAPS

Held(h) == handle[h].state # "none"

(* A guard and the ledger agree, and the kind is right for the object. *)
AgreeInv ==
    \A h \in Handles : Held(h) =>
        /\ handle[h].buf \in Buffers /\ handle[h].kind \in Kinds
        /\ handle[h].obj \in Targets(handle[h].kind)
        /\ buffer[handle[h].buf].obj = handle[h].obj
        /\ buffer[handle[h].buf].kind = handle[h].kind

(* No buffer has two guards. *)
UniqueInv ==
    \A g, h \in Handles : Held(g) /\ Held(h) /\ handle[g].buf = handle[h].buf => g = h

(* A buffer has a guard or is stranded, never both. *)
OwnerInv ==
    /\ \A b \in Buffers \ stranded : buffer[b] # Free => \E h \in Handles : Held(h) /\ handle[h].buf = b
    /\ \A b \in stranded : buffer[b] # Free /\ \A h \in Handles : Held(h) => handle[h].buf # b

(* The copy of an array's elements has elements in it. *)
CopyInv ==
    \A b \in Buffers : buffer[b].kind \in {"elements", "critical"} =>
        buffer[b].obj \in Arrays /\ (buffer[b].copy => buffer[b].data \in Data)

CriticalInv == ~intruded /\ (InCritical => attachment = "guarded")

(* The inductive invariant *)
OwnInv == AgreeInv /\ UniqueInv /\ OwnerInv /\ CopyInv
IInv == TypeOK /\ OwnInv /\ CriticalInv

-------------------------------------------------------------------------------
(* The arithmetic of jsize *)

(* `n as jsize` is a jsize. *)
LEMMA AsJsizeType ==
    ASSUME NEW n \in Nat
    PROVE  AsJsize(n) \in Jsize
<1> USE ArrayElementsAssumption
<1> DEFINE K == 2 * (JsizeMax + 1)
<1>1. K \in Nat /\ K > 0
  OBVIOUS
<1>2. n % K \in 0..(K - 1)
  BY <1>1
<1> QED
  BY <1>2 DEF AsJsize, Jsize

(* What is not negative as a jsize is the remainder, and a jsize stays what it is. *)
LEMMA AsJsizeRemainder ==
    ASSUME NEW n \in Nat
    PROVE  /\ AsJsize(n) >= 0 => AsJsize(n) = n % (2 * (JsizeMax + 1))
           /\ AsJsize(n) < 0 => n % (2 * (JsizeMax + 1)) > JsizeMax
           /\ n <= 2 * JsizeMax + 1 => n % (2 * (JsizeMax + 1)) = n
<1> USE ArrayElementsAssumption
<1> DEFINE K == 2 * (JsizeMax + 1)
<1>1. n % K \in 0..(K - 1) /\ (n < K => n % K = n)
  OBVIOUS
<1>2. AsJsize(n) = IF n % K > JsizeMax THEN (n % K) - K ELSE n % K
  BY DEF AsJsize
<1> QED
  BY <1>1, <1>2

(* What the JVM accepts is a jsize that is not negative. *)
LEMMA InBoundsMoves ==
    ASSUME NEW start \in Int, NEW len \in Int, InBounds(start, len)
    PROVE  start >= 0 /\ start + len <= Length /\ len \in 0..JsizeMax
BY ArrayElementsAssumption DEF InBounds

(* The records of outcomes have the type of outcomes. *)
LEMMA OutcomeType ==
    /\ \A op \in Operations, result \in Results :
          Done(op, result) \in [op : Operations, result : Results, start : Indices,
                                size : 0..MaxSlice, moved : 0..JsizeMax]
    /\ \A op \in Operations, result \in Results, start \in Indices, size \in 0..MaxSlice,
          moved \in 0..JsizeMax :
          Moved(op, result, start, size, moved) \in
              [op : Operations, result : Results, start : Indices, size : 0..MaxSlice,
               moved : 0..JsizeMax]
BY ArrayElementsAssumption DEF Done, Moved, Indices, Jsize

-------------------------------------------------------------------------------
(* TypeOK, a variable at a time *)

OutcomeOK == outcome \in [op : Operations, result : Results, start : Indices,
                          size : 0..MaxSlice, moved : 0..JsizeMax]

HandleOK == handle \in [Handles -> [state : {"none", "live", "raw"}, kind : Kinds \union {"none"},
                                    obj : Arrays \union Strings \union {Nil},
                                    buf : Buffers \union {Nil}, mode : Modes]]

BufferOK == buffer \in [Buffers -> [obj : Arrays \union Strings \union {Nil},
                                    kind : Kinds \union {"free"},
                                    copy : BOOLEAN, data : Data \union {NoData}]]

(* The invariant holds at first. *)
LEMMA InitInv == Init => IInv
<1> SUFFICES ASSUME Init PROVE IInv
  OBVIOUS
<1> USE ArrayElementsAssumption
<1>1. BufferOK /\ HandleOK
  BY DEF Init, BufferOK, HandleOK, Free, NoHandle, Kinds, Modes
<1>2. OutcomeOK
  BY DEF Init, OutcomeOK, Done, Operations, Results, Indices, Jsize
<1>3. /\ attachment \in {"none", "attached", "guarded"}
      /\ contents \in [Arrays -> Data]
      /\ stranded \subseteq Buffers
  BY DEF Init
<1>4. pending \in BOOLEAN /\ intruded \in BOOLEAN
  BY DEF Init
<1>5. TypeOK
  BY <1>1, <1>2, <1>3, <1>4 DEF TypeOK, BufferOK, HandleOK, OutcomeOK
<1>6. \A h \in Handles : ~Held(h)
  BY DEF Init, Held, NoHandle
<1>7. AgreeInv /\ UniqueInv /\ OwnerInv
  BY <1>6 DEF Init, AgreeInv, UniqueInv, OwnerInv
<1>8. CopyInv /\ CriticalInv
  BY DEF Init, CopyInv, CriticalInv, InCritical, Free
<1> QED
  BY <1>5, <1>7, <1>8 DEF IInv, OwnInv

(* Steps that move no buffer: who owns what stays as it is. *)
LEMMA OwnersUntouched ==
    ASSUME OwnInv, UNCHANGED <<buffer, handle, stranded>>
    PROVE  OwnInv' /\ InCritical' = InCritical
BY DEF OwnInv, AgreeInv, UniqueInv, OwnerInv, CopyInv, Held, InCritical

-------------------------------------------------------------------------------
(* The program around the guards *)

(* Steps that move no buffer: what is left of TypeOK. *)
LEMMA NextType ==
    ASSUME TypeOK, UNCHANGED <<buffer, handle, stranded, intruded>>, OutcomeOK',
           pending' \in BOOLEAN, contents' \in [Arrays -> Data],
           attachment' \in {"none", "attached", "guarded"}
    PROVE  TypeOK'
<1>1. /\ buffer' \in [Buffers -> [obj : Arrays \union Strings \union {Nil},
                                  kind : Kinds \union {"free"},
                                  copy : BOOLEAN, data : Data \union {NoData}]]
      /\ handle' \in [Handles -> [state : {"none", "live", "raw"}, kind : Kinds \union {"none"},
                                  obj : Arrays \union Strings \union {Nil},
                                  buf : Buffers \union {Nil}, mode : Modes]]
      /\ stranded' \subseteq Buffers
  BY DEF TypeOK
<1>2. intruded' \in BOOLEAN
  BY Zenon DEF TypeOK
<1> QED
  BY <1>1, <1>2, Zenon DEF TypeOK, OutcomeOK

(* Scopes and exceptions move no buffer, and no scope ends inside a critical section. *)
LEMMA AroundStep ==
    ASSUME IInv, EnterScope \/ LeaveScope \/ Throw
    PROVE  IInv'
<1> USE DEF memory, ghosts
<1>1. UNCHANGED <<contents, buffer, handle, stranded>> /\ UNCHANGED intruded
  BY DEF EnterScope, LeaveScope, Throw
<1>2. attachment' \in {"none", "attached", "guarded"}
  BY DEF EnterScope, LeaveScope, Throw, IInv, TypeOK
<1>3. pending' \in BOOLEAN
  BY DEF EnterScope, LeaveScope, Throw, IInv, TypeOK
<1>4. OutcomeOK'
  <2>1. outcome' = Done("none", "ok") \/ outcome' = Done("throw", "ok")
    BY DEF EnterScope, LeaveScope, Throw
  <2>2. {"none", "throw"} \subseteq Operations /\ "ok" \in Results
    BY DEF Operations, Results
  <2> QED
    BY <2>1, <2>2, OutcomeType DEF OutcomeOK
<1>5. TypeOK'
  <2>1. contents' \in [Arrays -> Data]
    BY <1>1 DEF IInv, TypeOK
  <2>2. UNCHANGED <<buffer, handle, stranded, intruded>>
    BY <1>1, Zenon
  <2> QED
    BY <1>2, <1>3, <1>4, <2>1, <2>2, NextType, Zenon DEF IInv
<1>6. OwnInv' /\ InCritical' = InCritical
  BY <1>1, OwnersUntouched DEF IInv
<1>7. InCritical => attachment' = "guarded"
  BY DEF IInv, CriticalInv, EnterScope, LeaveScope, Throw, HasEnv
<1> QED
  BY <1>1, <1>5, <1>6, <1>7 DEF IInv, CriticalInv

(* A refused get, a failed get, a release that failed and did not go on, and a region that is
   only read touch the outcome, and perhaps the pending exception. *)
LEMMA NothingMoved ==
    ASSUME IInv, UNCHANGED <<attachment, contents, buffer, handle, stranded, intruded>>,
           pending' \in BOOLEAN, OutcomeOK'
    PROVE  IInv'
<1>1. TypeOK'
  <2>1. contents' \in [Arrays -> Data]
    BY DEF IInv, TypeOK
  <2>2. attachment' \in {"none", "attached", "guarded"}
    BY DEF IInv, TypeOK
  <2> QED
    BY <2>1, <2>2, NextType DEF IInv
<1>2. OwnInv' /\ InCritical' = InCritical
  BY OwnersUntouched DEF IInv
<1> QED
  BY <1>1, <1>2 DEF IInv, CriticalInv

(* The same for a call that writes an array. *)
LEMMA OnlyContents ==
    ASSUME IInv, UNCHANGED <<attachment, buffer, handle, stranded, intruded>>,
           pending' \in BOOLEAN, OutcomeOK', contents' \in [Arrays -> Data]
    PROVE  IInv'
<1>1. TypeOK'
  <2>1. attachment' \in {"none", "attached", "guarded"}
    BY DEF IInv, TypeOK
  <2> QED
    BY <2>1, NextType DEF IInv
<1>2. OwnInv' /\ InCritical' = InCritical
  BY OwnersUntouched DEF IInv
<1> QED
  BY <1>1, <1>2 DEF IInv, CriticalInv

-------------------------------------------------------------------------------
(* Writing, getting and releasing *)

(* What an operation that ends well, or with one of the errors, reports. *)
LEMMA DoneType ==
    ASSUME NEW op \in Operations, NEW result \in Results, outcome' = Done(op, result)
    PROVE  OutcomeOK'
BY OutcomeType DEF OutcomeOK

(* A guard that can be written through has a buffer for an array. *)
LEMMA HeldBuffer ==
    ASSUME IInv, NEW h \in Handles, Held(h)
    PROVE  /\ handle[h].buf \in Buffers
           /\ buffer[handle[h].buf].obj = handle[h].obj
           /\ buffer[handle[h].buf].kind = handle[h].kind
           /\ handle[h].kind \in Kinds
           /\ handle[h].kind # "chars" =>
                 /\ handle[h].obj \in Arrays
                 /\ buffer[handle[h].buf].copy => buffer[handle[h].buf].data \in Data
BY DEF IInv, OwnInv, AgreeInv, CopyInv, Targets, Kinds

(* A write goes to the array or to the copy, which stay arrays of values. *)
LEMMA WriteStep ==
    ASSUME IInv, NEW h \in Handles, Write(h)
    PROVE  IInv'
<1> USE DEF thread, ghosts
<1> DEFINE b == handle[h].buf
<1>1. /\ UNCHANGED <<attachment, handle, stranded>> /\ UNCHANGED pending /\ UNCHANGED intruded
  BY DEF Write
<1>2. OutcomeOK'
  <2>1. outcome' = Done("write", "ok") /\ "write" \in Operations /\ "ok" \in Results
    BY DEF Write, Operations, Results
  <2> QED
    BY <2>1, DoneType
<1>3. Held(h) /\ handle[h].kind \in {"elements", "critical"}
  BY DEF Write, Mutable, Live, Held
<1>4. /\ b \in Buffers /\ buffer[b].kind \in {"elements", "critical"}
      /\ buffer[b].obj = handle[h].obj /\ handle[h].obj \in Arrays
  BY <1>3, HeldBuffer
<1>5. CASE ~buffer[b].copy
  <2>1. contents' \in [Arrays -> Data] /\ UNCHANGED buffer
    <3>1. PICK i \in 1..Length, v \in Values :
             contents' = [contents EXCEPT ![handle[h].obj][i] = v] /\ UNCHANGED buffer
      BY <1>5 DEF Write
    <3>2. contents \in [Arrays -> Data]
      BY DEF IInv, TypeOK
    <3>3. [contents[handle[h].obj] EXCEPT ![i] = v] \in Data
      BY <3>2, <1>4 DEF Data
    <3> QED
      BY <3>1, <3>2, <3>3, <1>4
  <2>2. pending' \in BOOLEAN
    BY <1>1, Zenon DEF IInv, TypeOK
  <2> QED
    BY <1>1, <1>2, <2>1, <2>2, OnlyContents
<1>6. CASE buffer[b].copy
  <2>1. PICK i \in 1..Length, v \in Values : buffer' = [buffer EXCEPT ![b].data[i] = v]
    BY <1>6 DEF Write
  <2>2. UNCHANGED contents
    BY <1>6 DEF Write
  <2>3. buffer[b].data \in Data
    BY <1>3, <1>4, <1>6, HeldBuffer
  <2>4. [buffer[b].data EXCEPT ![i] = v] \in Data
    BY <2>3 DEF Data
  <2>5. buffer[b] \in [obj : Arrays \union Strings \union {Nil}, kind : Kinds \union {"free"},
                      copy : BOOLEAN, data : Data \union {NoData}]
    BY <1>4 DEF IInv, TypeOK
  <2>6. /\ buffer' = [buffer EXCEPT ![b] = [@ EXCEPT !.data = [buffer[b].data EXCEPT ![i] = v]]]
    BY <2>1, <2>5, <1>4 DEF IInv, TypeOK
  <2>7. BufferOK'
    BY <2>4, <2>5, <2>6, <1>4 DEF IInv, TypeOK, BufferOK
  <2>8. \A c \in Buffers : /\ buffer'[c].obj = buffer[c].obj /\ buffer'[c].kind = buffer[c].kind
                           /\ c # b => buffer'[c] = buffer[c]
    BY <2>5, <2>6, <1>4 DEF IInv, TypeOK
  <2>9. buffer'[b].data \in Data
    BY <2>4, <2>5, <2>6, <1>4 DEF IInv, TypeOK
  <2>10. AgreeInv' /\ UniqueInv'
    BY <1>1, <2>8 DEF IInv, OwnInv, AgreeInv, UniqueInv, Held
  <2>11. buffer[b] # Free /\ buffer'[b] # Free
    BY <1>4, <2>8 DEF Free
  <2>12. \A c \in Buffers : buffer'[c] # Free <=> buffer[c] # Free
    BY <2>8, <2>11
  <2>13. OwnerInv'
    BY <1>1, <2>12 DEF IInv, OwnInv, OwnerInv, Held, TypeOK
  <2>14. CopyInv'
    <3> SUFFICES ASSUME NEW c \in Buffers, buffer'[c].kind \in {"elements", "critical"}
                 PROVE  buffer'[c].obj \in Arrays /\ (buffer'[c].copy => buffer'[c].data \in Data)
      BY DEF CopyInv
    <3>1. CASE c = b
      BY <3>1, <2>8, <2>9, <1>4
    <3>2. CASE c # b
      BY <3>2, <2>8 DEF IInv, OwnInv, CopyInv
    <3> QED
      BY <3>1, <3>2
  <2>15. InCritical' <=> InCritical
    BY <2>8 DEF InCritical
  <2>16. CriticalInv'
    BY <1>1, <2>15 DEF IInv, CriticalInv
  <2>17. TypeOK'
    <3>1. /\ contents' \in [Arrays -> Data]
          /\ attachment' \in {"none", "attached", "guarded"}
          /\ stranded' \subseteq Buffers
          /\ HandleOK'
      BY <1>1, <2>2 DEF IInv, TypeOK, HandleOK
    <3>2. pending' \in BOOLEAN /\ intruded' \in BOOLEAN
      BY <1>1, Zenon DEF IInv, TypeOK
    <3> QED
      BY <1>2, <2>7, <3>1, <3>2, Zenon DEF TypeOK, HandleOK, BufferOK, OutcomeOK
  <2> QED
    BY <2>10, <2>13, <2>14, <2>16, <2>17 DEF IInv, OwnInv
<1> QED
  BY <1>5, <1>6

(* The JVM gives out a free buffer to a guard that had none. *)
LEMMA GetStep ==
    ASSUME IInv, NEW h \in Handles, NEW kind \in Kinds, GetBuffer(h, kind)
    PROVE  IInv'
<1> USE ArrayElementsAssumption DEF thread
<1>1. PICK obj \in Targets(kind), b \in Buffers, copy \in BOOLEAN, mode \in Modes :
         /\ buffer[b] = Free
         /\ buffer' = [buffer EXCEPT ![b] =
                          [obj |-> obj, kind |-> kind, copy |-> copy,
                           data |-> IF copy /\ kind # "chars" THEN contents[obj] ELSE NoData]]
         /\ handle' = [handle EXCEPT ![h] =
                          [state |-> "live", kind |-> kind, obj |-> obj, buf |-> b, mode |-> mode]]
  BY DEF GetBuffer
<1> DEFINE newBuffer == [obj |-> obj, kind |-> kind, copy |-> copy,
                         data |-> IF copy /\ kind # "chars" THEN contents[obj] ELSE NoData]
           newHandle == [state |-> "live", kind |-> kind, obj |-> obj, buf |-> b, mode |-> mode]
<1>2. /\ handle[h] = NoHandle /\ attachment = "guarded" /\ ~InCritical
      /\ UNCHANGED <<attachment, contents, stranded>>
  BY DEF GetBuffer, HasEnv
<1>3. UNCHANGED pending /\ ~intruded'
  BY DEF GetBuffer, AfterSuccess, IInv, CriticalInv
<1>4. OutcomeOK'
  <2>1. outcome' = Done(kind, "ok") /\ kind \in Operations /\ "ok" \in Results
    BY DEF GetBuffer, Operations, Results, Kinds
  <2> QED
    BY <2>1, DoneType
<1>5. obj \in Arrays \union Strings /\ (kind # "chars" => obj \in Arrays)
  BY DEF Targets
<1>6. newBuffer.data \in Data \union {NoData} /\ (kind # "chars" /\ copy => newBuffer.data \in Data)
  BY <1>5 DEF IInv, TypeOK
<1>7. /\ newBuffer.obj = obj /\ newBuffer.kind = kind /\ newBuffer.copy = copy
      /\ newHandle.state = "live" /\ newHandle.kind = kind /\ newHandle.obj = obj
      /\ newHandle.buf = b
  OBVIOUS
<1>8. newBuffer \in [obj : Arrays \union Strings \union {Nil}, kind : Kinds \union {"free"},
                    copy : BOOLEAN, data : Data \union {NoData}]
  BY <1>5, <1>6
<1>9. newHandle \in [state : {"none", "live", "raw"}, kind : Kinds \union {"none"},
                    obj : Arrays \union Strings \union {Nil},
                    buf : Buffers \union {Nil}, mode : Modes]
  BY <1>5
<1>10. newBuffer # Free
  BY DEF Free, Kinds
<1>11. ~Held(h)
  BY <1>2 DEF Held, NoHandle
<1> HIDE DEF newBuffer, newHandle
<1>12. /\ \A c \in Buffers : buffer'[c] = IF c = b THEN newBuffer ELSE buffer[c]
       /\ \A g \in Handles : handle'[g] = IF g = h THEN newHandle ELSE handle[g]
       /\ BufferOK' /\ HandleOK'
  BY <1>1, <1>8, <1>9 DEF IInv, TypeOK, BufferOK, HandleOK, newBuffer, newHandle
<1>13. \A g \in Handles : Held(g)' <=> g = h \/ Held(g)
  BY <1>7, <1>12 DEF Held
<1>14. \A g \in Handles : Held(g) => handle[g].buf # b
  BY <1>1 DEF IInv, OwnInv, AgreeInv, Free, Kinds
<1>15. AgreeInv'
  <2> SUFFICES ASSUME NEW g \in Handles, Held(g)'
               PROVE  /\ handle'[g].buf \in Buffers /\ handle'[g].kind \in Kinds
                      /\ handle'[g].obj \in Targets(handle'[g].kind)
                      /\ buffer'[handle'[g].buf].obj = handle'[g].obj
                      /\ buffer'[handle'[g].buf].kind = handle'[g].kind
    BY DEF AgreeInv, Targets
  <2>1. CASE g = h
    BY <2>1, <1>7, <1>12
  <2>2. CASE g # h
    BY <2>2, <1>12, <1>13, <1>14 DEF IInv, OwnInv, AgreeInv
  <2> QED
    BY <2>1, <2>2
<1>16. UniqueInv'
  BY <1>7, <1>12, <1>13, <1>14 DEF IInv, OwnInv, UniqueInv
<1>17. b \notin stranded
  BY <1>1 DEF IInv, OwnInv, OwnerInv
<1>18. OwnerInv'
  <2>1. ASSUME NEW c \in Buffers \ stranded, buffer'[c] # Free
        PROVE  \E g \in Handles : Held(g)' /\ handle'[g].buf = c
    <3>1. CASE c = b
      BY <3>1, <1>7, <1>12, <1>13
    <3>2. CASE c # b
      <4>1. PICK g \in Handles : Held(g) /\ handle[g].buf = c
        BY <2>1, <3>2, <1>12 DEF IInv, OwnInv, OwnerInv
      <4> QED
        BY <4>1, <1>11, <1>12, <1>13
    <3> QED
      BY <3>1, <3>2
  <2>2. ASSUME NEW c \in stranded
        PROVE  buffer'[c] # Free /\ \A g \in Handles : Held(g)' => handle'[g].buf # c
    <3>1. c \in Buffers /\ c # b
      BY <1>17 DEF IInv, TypeOK
    <3> QED
      BY <3>1, <1>7, <1>12, <1>13 DEF IInv, OwnInv, OwnerInv
  <2> QED
    BY <1>2, <2>1, <2>2 DEF OwnerInv
<1>19. CopyInv'
  BY <1>5, <1>6, <1>7, <1>12 DEF IInv, OwnInv, CopyInv, Kinds
<1>20. TypeOK'
  <2>1. /\ contents' \in [Arrays -> Data]
        /\ attachment' \in {"none", "attached", "guarded"}
        /\ stranded' \subseteq Buffers
    BY <1>2 DEF IInv, TypeOK
  <2>2. pending' \in BOOLEAN /\ intruded' \in BOOLEAN
    <3>1. pending' \in BOOLEAN
      BY <1>3, Zenon DEF IInv, TypeOK
    <3>2. intruded' \in BOOLEAN
      BY DEF GetBuffer, IInv, TypeOK
    <3> QED
      BY <3>1, <3>2
  <2> QED
    BY <1>4, <1>12, <2>1, <2>2, Zenon DEF TypeOK, HandleOK, BufferOK, OutcomeOK
<1>21. CriticalInv'
  BY <1>2, <1>3 DEF CriticalInv
<1> QED
  BY <1>15, <1>16, <1>18, <1>19, <1>20, <1>21 DEF IInv, OwnInv

(* What a release writes back are the elements of the copy. *)
LEMMA WriteBackType ==
    ASSUME IInv, NEW h \in Handles, Held(h), NEW mode, WriteBack(h, mode)
    PROVE  contents' \in [Arrays -> Data]
<1> DEFINE held == buffer[handle[h].buf]
<1>1. CASE held.kind # "chars" /\ held.copy /\ mode # "NoCopyBack"
  <2>1. contents' = [contents EXCEPT ![held.obj] = held.data]
    BY <1>1 DEF WriteBack
  <2>2. held.obj \in Arrays /\ held.data \in Data
    BY <1>1, HeldBuffer
  <2> QED
    BY <2>1, <2>2 DEF IInv, TypeOK
<1>2. CASE ~(held.kind # "chars" /\ held.copy /\ mode # "NoCopyBack")
  BY <1>2 DEF WriteBack, IInv, TypeOK
<1> QED
  BY <1>1, <1>2

(* commit writes back and leaves the buffer with its guard. *)
LEMMA CommitStep ==
    ASSUME IInv, NEW h \in Handles, Commit(h)
    PROVE  IInv'
<1> USE DEF thread, ghosts
<1>1. /\ UNCHANGED <<attachment, buffer, handle, stranded, intruded>> /\ UNCHANGED pending
      /\ Held(h) /\ WriteBack(h, "Commit")
  BY DEF Commit, MayRelease, Live, Held
<1>2. contents' \in [Arrays -> Data]
  BY <1>1, WriteBackType
<1>3. pending' \in BOOLEAN
  BY <1>1, Zenon DEF IInv, TypeOK
<1>4. OutcomeOK'
  <2>1. outcome' = Done("commit", "ok") /\ "commit" \in Operations /\ "ok" \in Results
    BY DEF Commit, Operations, Results
  <2> QED
    BY <2>1, DoneType
<1> QED
  BY <1>1, <1>2, <1>3, <1>4, OnlyContents

(* A guard that goes leaves the guards of the others alone. *)
LEMMA HandleGone ==
    ASSUME IInv, NEW h \in Handles, handle' = [handle EXCEPT ![h] = NoHandle]
    PROVE  /\ \A g \in Handles : Held(g)' <=> g # h /\ Held(g)
           /\ \A g \in Handles \ {h} : handle'[g] = handle[g]
           /\ HandleOK'
<1>1. NoHandle \in [state : {"none", "live", "raw"}, kind : Kinds \union {"none"},
                   obj : Arrays \union Strings \union {Nil},
                   buf : Buffers \union {Nil}, mode : Modes] /\ NoHandle.state = "none"
  BY DEF NoHandle, Modes
<1> HIDE DEF NoHandle
<1> QED
  BY <1>1 DEF IInv, TypeOK, HandleOK, Held

(* A release frees the buffer and forgets the guard. *)
LEMMA ReleaseStep ==
    ASSUME IInv, NEW h \in Handles, NEW mode, NEW op \in {"drop", "discard"}, Release(h, mode, op)
    PROVE  IInv'
<1> USE ArrayElementsAssumption DEF thread
<1> DEFINE b == handle[h].buf
<1>1. /\ Held(h) /\ attachment # "none" /\ WriteBack(h, mode)
      /\ buffer' = [buffer EXCEPT ![b] = Free]
      /\ handle' = [handle EXCEPT ![h] = NoHandle]
      /\ UNCHANGED <<attachment, stranded>> /\ UNCHANGED pending
  BY DEF Release, MayRelease, Live, Held
<1>2. b \in Buffers /\ buffer[b].kind = handle[h].kind
  BY <1>1, HeldBuffer
<1>3. contents' \in [Arrays -> Data]
  BY <1>1, WriteBackType
<1>4. Free \in [obj : Arrays \union Strings \union {Nil}, kind : Kinds \union {"free"},
               copy : BOOLEAN, data : Data \union {NoData}] /\ Free.kind = "free"
  BY DEF Free
<1>5. /\ \A g \in Handles : Held(g)' <=> g # h /\ Held(g)
      /\ \A g \in Handles \ {h} : handle'[g] = handle[g]
      /\ HandleOK'
  BY <1>1, HandleGone
<1>6. ~intruded'
  <2>1. handle[h].kind = "critical" => BeforeRelease = {}
    BY <1>2 DEF IInv, CriticalInv, InCritical, BeforeRelease
  <2> QED
    BY <2>1 DEF Release, IInv, CriticalInv
<1> HIDE DEF Free
<1>7. /\ \A c \in Buffers : buffer'[c] = IF c = b THEN Free ELSE buffer[c]
      /\ BufferOK'
  BY <1>1, <1>4 DEF IInv, TypeOK, BufferOK
<1>8. \A g \in Handles : g # h /\ Held(g) => handle[g].buf # b
  BY <1>1 DEF IInv, OwnInv, UniqueInv
<1>9. AgreeInv' /\ UniqueInv'
  <2>1. ASSUME NEW g \in Handles, Held(g)'
        PROVE  /\ handle'[g].buf \in Buffers /\ handle'[g].kind \in Kinds
               /\ handle'[g].obj \in Targets(handle'[g].kind)
               /\ buffer'[handle'[g].buf].obj = handle'[g].obj
               /\ buffer'[handle'[g].buf].kind = handle'[g].kind
    <3>1. g # h /\ Held(g) /\ handle'[g] = handle[g] /\ handle[g].buf # b
      BY <2>1, <1>5, <1>8
    <3> QED
      BY <3>1, <1>7 DEF IInv, OwnInv, AgreeInv
  <2>2. AgreeInv'
    BY <2>1 DEF AgreeInv, Targets
  <2>3. UniqueInv'
    BY <1>5 DEF IInv, OwnInv, UniqueInv
  <2> QED
    BY <2>2, <2>3
<1>10. OwnerInv'
  <2>1. ASSUME NEW c \in Buffers \ stranded, buffer'[c] # Free
        PROVE  \E g \in Handles : Held(g)' /\ handle'[g].buf = c
    <3>1. c # b /\ buffer[c] # Free
      BY <2>1, <1>7
    <3>2. PICK g \in Handles : Held(g) /\ handle[g].buf = c
      BY <3>1 DEF IInv, OwnInv, OwnerInv
    <3> QED
      BY <3>1, <3>2, <1>5
  <2>2. ASSUME NEW c \in stranded
        PROVE  buffer'[c] # Free /\ \A g \in Handles : Held(g)' => handle'[g].buf # c
    <3>1. c \in Buffers /\ c # b
      BY <1>1 DEF IInv, TypeOK, OwnInv, OwnerInv
    <3> QED
      BY <3>1, <1>5, <1>7 DEF IInv, OwnInv, OwnerInv
  <2>3. \A c \in Buffers \ stranded' : buffer'[c] # Free' =>
           \E g \in Handles : Held(g)' /\ handle'[g].buf = c
    BY <1>1, <2>1 DEF Free
  <2>4. \A c \in stranded' : buffer'[c] # Free' /\ \A g \in Handles : Held(g)' => handle'[g].buf # c
    BY <1>1, <2>2 DEF Free
  <2> QED
    BY <2>3, <2>4 DEF OwnerInv
<1>11. CopyInv'
  BY <1>4, <1>7 DEF IInv, OwnInv, CopyInv
<1>12. InCritical' => InCritical
  BY <1>4, <1>7 DEF InCritical
<1>13. TypeOK'
  <2>1. /\ attachment' \in {"none", "attached", "guarded"}
        /\ stranded' \subseteq Buffers
    BY <1>1 DEF IInv, TypeOK
  <2>2. pending' \in BOOLEAN
    BY <1>1, Zenon DEF IInv, TypeOK
  <2>3. intruded' \in BOOLEAN
    BY DEF Release, IInv, TypeOK
  <2>4. OutcomeOK'
    <3>1. outcome' = Done(op, "ok") /\ op \in Operations /\ "ok" \in Results
      BY DEF Release, Operations, Results
    <3> QED
      BY <3>1, DoneType
  <2> QED
    BY <1>3, <1>5, <1>7, <2>1, <2>2, <2>3, <2>4, Zenon DEF TypeOK, HandleOK, BufferOK, OutcomeOK
<1>14. CriticalInv'
  BY <1>1, <1>6, <1>12 DEF IInv, CriticalInv
<1> QED
  BY <1>9, <1>10, <1>11, <1>13, <1>14 DEF IInv, OwnInv

(* Where the thread is detached the guard goes without its buffer. *)
LEMMA DetachedStep ==
    ASSUME IInv, NEW h \in Handles, NEW op \in {"commit", "drop", "discard"}, ReleaseDetached(h, op)
    PROVE  IInv'
<1> USE DEF thread
<1> DEFINE b == handle[h].buf
<1>1. /\ Held(h) /\ attachment = "none"
      /\ UNCHANGED <<attachment, contents, buffer>> /\ UNCHANGED pending /\ UNCHANGED intruded
  BY DEF ReleaseDetached, MayRelease, Live, Held
<1>2. pending' \in BOOLEAN
  BY <1>1, Zenon DEF IInv, TypeOK
<1>3. intruded' \in BOOLEAN
  BY <1>1, Zenon DEF IInv, TypeOK
<1>4. OutcomeOK'
  <2>1. outcome' = Done(op, "ThreadDetached") /\ op \in Operations /\ "ThreadDetached" \in Results
    BY DEF ReleaseDetached, Operations, Results
  <2> QED
    BY <2>1, DoneType
<1>5. CASE op = "commit"
  <2>1. UNCHANGED <<handle, stranded>>
    BY <1>5 DEF ReleaseDetached
  <2>2. UNCHANGED <<attachment, contents, buffer, handle, stranded, intruded>>
    BY <1>1, <2>1, Zenon
  <2> QED
    BY <1>2, <1>4, <2>2, NothingMoved
<1>6. CASE op # "commit"
  <2>1. handle' = [handle EXCEPT ![h] = NoHandle] /\ stranded' = stranded \union {b}
    BY <1>6 DEF ReleaseDetached
  <2>2. /\ \A g \in Handles : Held(g)' <=> g # h /\ Held(g)
        /\ \A g \in Handles \ {h} : handle'[g] = handle[g]
        /\ HandleOK'
    BY <2>1, HandleGone
  <2>3. b \in Buffers /\ buffer[b].kind \in Kinds
    BY <1>1, HeldBuffer
  <2>4. buffer[b] # Free
    BY <2>3 DEF Free, Kinds
  <2>5. \A g \in Handles : g # h /\ Held(g) => handle[g].buf # b
    BY <1>1 DEF IInv, OwnInv, UniqueInv
  <2>6. AgreeInv' /\ UniqueInv' /\ CopyInv'
    BY <1>1, <2>2 DEF IInv, OwnInv, AgreeInv, UniqueInv, CopyInv, Targets
  <2>7. OwnerInv'
    <3>1. ASSUME NEW c \in Buffers \ stranded', buffer'[c] # Free
          PROVE  \E g \in Handles : Held(g)' /\ handle'[g].buf = c
      <4>1. c \notin stranded /\ c # b /\ buffer[c] # Free
        BY <3>1, <1>1, <2>1
      <4>2. PICK g \in Handles : Held(g) /\ handle[g].buf = c
        BY <4>1 DEF IInv, OwnInv, OwnerInv
      <4> QED
        BY <4>1, <4>2, <2>2
    <3>2. ASSUME NEW c \in stranded'
          PROVE  buffer'[c] # Free /\ \A g \in Handles : Held(g)' => handle'[g].buf # c
      BY <1>1, <2>1, <2>2, <2>4, <2>5 DEF IInv, OwnInv, OwnerInv
    <3> QED
      BY <3>1, <3>2 DEF OwnerInv, Free
  <2>8. TypeOK'
    <3>1. /\ contents' \in [Arrays -> Data]
          /\ attachment' \in {"none", "attached", "guarded"}
          /\ stranded' \subseteq Buffers
          /\ BufferOK'
      BY <1>1, <2>1, <2>3 DEF IInv, TypeOK, BufferOK
    <3> QED
      BY <1>2, <1>3, <1>4, <2>2, <3>1, Zenon DEF TypeOK, HandleOK, BufferOK, OutcomeOK
  <2>9. CriticalInv'
    BY <1>1 DEF IInv, CriticalInv, InCritical
  <2> QED
    BY <2>6, <2>7, <2>8, <2>9 DEF IInv, OwnInv
<1> QED
  BY <1>5, <1>6

(* into_raw and from_raw hand the buffer on with the handle. *)
LEMMA RawStep ==
    ASSUME IInv, NEW h \in Handles, IntoRaw(h) \/ FromRaw(h)
    PROVE  IInv'
<1> USE DEF thread, ghosts
<1>1. /\ UNCHANGED <<attachment, contents, buffer, stranded>>
      /\ UNCHANGED pending /\ UNCHANGED intruded
  BY DEF IntoRaw, FromRaw
<1>2. PICK state \in {"live", "raw"} : handle' = [handle EXCEPT ![h].state = state] /\ Held(h)
  BY DEF IntoRaw, FromRaw, Live, Held
<1>3. /\ \A g \in Handles : /\ handle'[g].buf = handle[g].buf /\ handle'[g].obj = handle[g].obj
                            /\ handle'[g].kind = handle[g].kind /\ (Held(g)' <=> Held(g))
      /\ HandleOK'
  BY <1>2 DEF IInv, TypeOK, HandleOK, Held
<1>4. AgreeInv' /\ UniqueInv' /\ CopyInv'
  BY <1>1, <1>3 DEF IInv, OwnInv, AgreeInv, UniqueInv, CopyInv, Targets
<1>5. OwnerInv'
  <2>1. ASSUME NEW b \in Buffers \ stranded', buffer'[b] # Free
        PROVE  \E g \in Handles : Held(g)' /\ handle'[g].buf = b
    <3>1. b \notin stranded /\ buffer[b] # Free
      BY <2>1, <1>1
    <3>2. PICK g \in Handles : Held(g) /\ handle[g].buf = b
      BY <3>1 DEF IInv, OwnInv, OwnerInv
    <3> QED
      BY <3>2, <1>3
  <2>2. ASSUME NEW b \in stranded'
        PROVE  buffer'[b] # Free /\ \A g \in Handles : Held(g)' => handle'[g].buf # b
    BY <1>1, <1>3 DEF IInv, OwnInv, OwnerInv
  <2> QED
    BY <2>1, <2>2 DEF OwnerInv, Free
<1>6. OutcomeOK'
  <2>1. /\ outcome' = Done("into_raw", "ok") \/ outcome' = Done("from_raw", "ok")
        /\ {"into_raw", "from_raw"} \subseteq Operations /\ "ok" \in Results
    BY DEF IntoRaw, FromRaw, Operations, Results
  <2> QED
    BY <2>1, DoneType
<1>7. TypeOK'
  <2>1. /\ contents' \in [Arrays -> Data]
        /\ attachment' \in {"none", "attached", "guarded"}
        /\ stranded' \subseteq Buffers
        /\ BufferOK'
    BY <1>1 DEF IInv, TypeOK, BufferOK
  <2>2. pending' \in BOOLEAN /\ intruded' \in BOOLEAN
    BY <1>1, Zenon DEF IInv, TypeOK
  <2> QED
    BY <1>3, <1>6, <2>1, <2>2, Zenon DEF TypeOK, HandleOK, BufferOK, OutcomeOK
<1>8. CriticalInv'
  BY <1>1 DEF IInv, CriticalInv, InCritical
<1> QED
  BY <1>4, <1>5, <1>7, <1>8 DEF IInv, OwnInv

-------------------------------------------------------------------------------
(* Calls that fail, and calls that copy elements *)

(* A caught exception is cleared, or stays with another error. *)
LEMMA CaughtType ==
    ASSUME NEW failure \in [op : Operations, result : Results, start : Indices,
                            size : 0..MaxSlice, moved : 0..JsizeMax],
           Caught(failure)
    PROVE  pending' \in BOOLEAN /\ OutcomeOK'
<1>1. pending' \in BOOLEAN
  BY DEF Caught
<1>2. "FrameFailed" \in Results
  BY DEF Results
<1>3. OutcomeOK'
  BY <1>2 DEF Caught, OutcomeOK
<1> QED
  BY <1>1, <1>3

(* A get that is refused or that fails borrows nothing. *)
LEMMA GetFailsStep ==
    ASSUME IInv, NEW h \in Handles, NEW kind \in Kinds, GetRefused(h, kind) \/ GetFails(h, kind)
    PROVE  IInv'
<1> USE DEF thread, memory, ghosts
<1>1. UNCHANGED <<attachment, contents, buffer, handle, stranded, intruded>>
  BY DEF GetRefused, GetFails
<1>2. kind \in Operations /\ {"NullPtr", "JavaException", "NoMemory"} \subseteq Results
  BY DEF Kinds, Operations, Results
<1>3. pending \in BOOLEAN
  BY Zenon DEF IInv, TypeOK
<1>4. CASE GetRefused(h, kind)
  <2>1. outcome' = Done(kind, "NullPtr") \/ outcome' = Done(kind, "JavaException")
    BY <1>4 DEF GetRefused
  <2>2. OutcomeOK'
    BY <1>2, <2>1, DoneType
  <2>3. pending' \in BOOLEAN
    BY <1>3, <1>4, Zenon DEF GetRefused
  <2> QED
    BY <1>1, <2>2, <2>3, NothingMoved
<1>5. CASE GetFails(h, kind)
  <2>1. \/ Caught(Done(kind, "NoMemory"))
        \/ pending' = pending /\ outcome' = Done(kind, "NullPtr")
        \/ pending' = FALSE /\ outcome' = Done(kind, "NoMemory")
        \/ pending' \in BOOLEAN /\ outcome' = Done(kind, "NullPtr")
    BY <1>5 DEF GetFails, Kinds
  <2>2. pending' \in BOOLEAN /\ OutcomeOK'
    <3>1. CASE Caught(Done(kind, "NoMemory"))
      BY <3>1, <1>2, CaughtType, OutcomeType
    <3>2. CASE pending' \in BOOLEAN /\ outcome' = Done(kind, "NullPtr")
      BY <3>2, <1>2, DoneType
    <3>3. CASE pending' = FALSE /\ outcome' = Done(kind, "NoMemory")
      BY <3>3, <1>2, DoneType
    <3>4. CASE pending' = pending /\ outcome' = Done(kind, "NullPtr")
      <4>1. OutcomeOK'
        BY <3>4, <1>2, DoneType
      <4> QED
        BY <1>3, <3>4, <4>1, Zenon
    <3> QED
      BY <2>1, <3>1, <3>2, <3>3, <3>4
  <2> QED
    BY <1>1, <2>2, NothingMoved
<1> QED
  BY <1>4, <1>5

(* What the answer of a region call reports has the type of outcomes. *)
LEMMA RegionType ==
    ASSUME IInv, NEW op \in Operations, NEW start \in Indices, NEW size \in 0..MaxSlice,
           Region(op, start, size)
    PROVE  pending' \in BOOLEAN /\ OutcomeOK'
<1> USE ArrayElementsAssumption
<1> DEFINE len == AsJsize(size)
<1>1. len \in Int /\ start \in Int
  BY AsJsizeType DEF Jsize, Indices
<1>2. {"ok", "IndexOutOfBounds"} \subseteq Results /\ 0 \in 0..JsizeMax
  BY DEF Results
<1>3. CASE InBounds(start, len)
  <2>1. pending' = pending /\ outcome' = Moved(op, "ok", start, size, len)
    BY <1>3 DEF Region
  <2>2. len \in 0..JsizeMax
    BY <1>1, <1>3, InBoundsMoves
  <2>3. OutcomeOK'
    BY <1>2, <2>1, <2>2, OutcomeType DEF OutcomeOK
  <2>4. pending' \in BOOLEAN
    BY <2>1, Zenon DEF IInv, TypeOK
  <2> QED
    BY <2>3, <2>4
<1>4. CASE ~InBounds(start, len)
  <2>1. Caught(Moved(op, "IndexOutOfBounds", start, size, 0))
    BY <1>4 DEF Region
  <2> QED
    BY <1>2, <2>1, OutcomeType, CaughtType
<1> QED
  BY <1>3, <1>4

(* Copying elements in or out leaves arrays of values, and who owns what, as they are. *)
LEMMA AccessStep ==
    ASSUME IInv, Access
    PROVE  IInv'
<1> USE DEF thread, memory, ghosts
<1>1. /\ {"get_region", "set_region", "get_element", "set_element"} \subseteq Operations
      /\ {"NullPtr", "JavaException", "InvalidArguments", "WrongObjectType"} \subseteq Results
  BY DEF Operations, Results
<1>2. \A start \in Jsize : start \in Indices
  BY DEF Indices
<1>3. /\ \A index \in 0..MaxSlice : index \in Indices
      /\ 0 \in 0..JsizeMax
  BY ArrayElementsAssumption DEF Indices
<1>4. contents \in [Arrays -> Data]
  BY DEF IInv, TypeOK
<1>5. pending \in BOOLEAN
  BY Zenon DEF IInv, TypeOK
<1>6. ASSUME NEW op \in {"get_region", "set_region", "get_element", "set_element"}, AccessRefused(op)
      PROVE  IInv'
  <2>1. outcome' = Done(op, "NullPtr") \/ outcome' = Done(op, "JavaException")
    BY <1>6 DEF AccessRefused
  <2>2. OutcomeOK'
    BY <1>1, <2>1, DoneType
  <2>3. UNCHANGED <<attachment, contents, buffer, handle, stranded, intruded>> /\ pending' = pending
    BY <1>6, Zenon DEF AccessRefused
  <2>4. pending' \in BOOLEAN
    BY <1>5, <2>3, Zenon
  <2> QED
    BY <2>2, <2>3, <2>4, NothingMoved
<1>7. ASSUME NEW op \in {"get_element", "set_element"}, IndexTooLarge(op)
      PROVE  IInv'
  <2>1. PICK index \in 0..MaxSlice :
           index > JsizeMax /\ outcome' = Moved(op, "InvalidArguments", index, 1, 0)
    BY <1>7 DEF IndexTooLarge
  <2>2. 1 \in 0..MaxSlice
    BY <2>1, ArrayElementsAssumption
  <2>3. OutcomeOK'
    BY <1>1, <1>3, <2>1, <2>2, OutcomeType DEF OutcomeOK
  <2>4. UNCHANGED <<attachment, contents, buffer, handle, stranded, intruded>> /\ pending' = pending
    BY <1>7, Zenon DEF IndexTooLarge
  <2>5. pending' \in BOOLEAN
    BY <1>5, <2>4, Zenon
  <2> QED
    BY <2>3, <2>4, <2>5, NothingMoved
<1>8. 1 \in 0..MaxSlice
  BY ArrayElementsAssumption
<1>9. CASE GetRegion
  <2>1. UNCHANGED <<attachment, contents, buffer, handle, stranded, intruded>>
    BY <1>9, Zenon DEF GetRegion
  <2>2. PICK start \in Jsize, size \in 0..MaxSlice : Region("get_region", start, size)
    BY <1>9 DEF GetRegion
  <2> QED
    BY <1>1, <1>2, <2>1, <2>2, RegionType, NothingMoved
<1>10. CASE SetRegion
  <2>1. UNCHANGED <<attachment, buffer, handle, stranded, intruded>>
    BY <1>10, Zenon DEF SetRegion
  <2>2. PICK a \in Arrays, start \in Jsize, size \in 0..MaxSlice, v \in Values :
           /\ Region("set_region", start, size)
           /\ \/ contents' = contents
              \/ contents' = [contents EXCEPT ![a] = Filled(a, start, AsJsize(size), v)]
    BY <1>10 DEF SetRegion
  <2>3. Filled(a, start, AsJsize(size), v) \in Data
    BY <1>4 DEF Filled, Data
  <2>4. contents' \in [Arrays -> Data]
    BY <1>4, <2>2, <2>3
  <2> QED
    BY <1>1, <1>2, <2>1, <2>2, <2>4, RegionType, OnlyContents
<1>11. CASE GetElement
  <2>1. UNCHANGED <<attachment, contents, buffer, handle, stranded, intruded>>
    BY <1>11, Zenon DEF GetElement
  <2>2. PICK index \in 0..MaxSlice : Region("get_element", index, 1)
    BY <1>11 DEF GetElement
  <2> QED
    BY <1>1, <1>3, <1>8, <2>1, <2>2, RegionType, NothingMoved
<1>12. CASE SetElement
  <2>1. UNCHANGED <<attachment, buffer, handle, stranded, intruded>>
    BY <1>12, Zenon DEF SetElement
  <2>2. PICK a \in Arrays, index \in 0..MaxSlice, v \in Values :
           /\ Region("set_element", index, 1)
           /\ \/ contents' = contents
              \/ contents' = [contents EXCEPT ![a][index + 1] = v]
    BY <1>12 DEF SetElement
  <2>3. [contents[a] EXCEPT ![index + 1] = v] \in Data
    BY <1>4 DEF Data
  <2>4. contents' \in [Arrays -> Data]
    BY <1>4, <2>2, <2>3
  <2> QED
    BY <1>1, <1>3, <1>8, <2>1, <2>2, <2>4, RegionType, OnlyContents
<1>13. CASE SetElementOfWrongType
  <2>1. UNCHANGED <<attachment, contents, buffer, handle, stranded, intruded>>
    BY <1>13, Zenon DEF SetElementOfWrongType
  <2>2. PICK index \in 0..MaxSlice : Caught(Moved("set_element", "WrongObjectType", index, 1, 0))
    BY <1>13 DEF SetElementOfWrongType
  <2>3. pending' \in BOOLEAN /\ OutcomeOK'
    BY <1>1, <1>3, <1>8, <2>2, OutcomeType, CaughtType
  <2> QED
    BY <2>1, <2>3, NothingMoved
<1> QED
  BY <1>6, <1>7, <1>9, <1>10, <1>11, <1>12, <1>13 DEF Access, Accesses

(* The invariant is inductive. *)
LEMMA Inductive == IInv /\ [Next]_vars => IInv'
<1> SUFFICES ASSUME IInv, [Next]_vars PROVE IInv'
  OBVIOUS
<1>1. CASE EnterScope \/ LeaveScope \/ Throw
  BY <1>1, AroundStep
<1>2. CASE Access
  BY <1>2, AccessStep
<1>3. ASSUME NEW h \in Handles, Borrow(h) PROVE IInv'
  <2>1. ASSUME NEW kind \in Kinds, GetRefused(h, kind) \/ GetBuffer(h, kind) \/ GetFails(h, kind)
        PROVE  IInv'
    BY <2>1, GetFailsStep, GetStep
  <2>2. CASE Write(h)
    BY <2>2, WriteStep
  <2>3. CASE Commit(h)
    BY <2>3, CommitStep
  <2>4. CASE Drop(h) \/ Discard(h)
    <3>1. "NoCopyBack" \in Modes /\ handle[h].mode \in Modes
      BY DEF Modes, IInv, TypeOK
    <3> QED
      BY <2>4, <3>1, ReleaseStep DEF Drop, Discard
  <2>5. ASSUME NEW op \in {"commit", "drop", "discard"}, ReleaseDetached(h, op)
        PROVE  IInv'
    BY <2>5, DetachedStep
  <2>6. CASE IntoRaw(h) \/ FromRaw(h)
    BY <2>6, RawStep
  <2> QED
    BY <1>3, <2>1, <2>2, <2>3, <2>4, <2>5, <2>6 DEF Borrow
<1>4. CASE UNCHANGED vars
  <2>1. UNCHANGED <<attachment, contents, buffer, handle, stranded, intruded>> /\ pending' = pending
    BY <1>4, Zenon DEF vars, thread, memory, ghosts
  <2>2. OutcomeOK'
    BY <1>4 DEF vars, IInv, TypeOK, OutcomeOK
  <2>3. pending' \in BOOLEAN
    BY <2>1, Zenon DEF IInv, TypeOK
  <2> QED
    BY <2>1, <2>2, <2>3, NothingMoved
<1> QED
  BY <1>1, <1>2, <1>3, <1>4 DEF Next

(* The invariant always holds. *)
THEOREM InvariantHolds == Spec => []IInv
<1>1. Init => IInv
  BY InitInv
<1>2. IInv /\ [Next]_vars => IInv'
  BY Inductive
<1> QED
  BY <1>1, <1>2, PTL DEF Spec

-------------------------------------------------------------------------------
(* What is checked of the model, for all values of the constants *)

(* Whatever is borrowed and released, every variable keeps its type. *)
THEOREM MemoryTypeCorrect == Spec => []TypeOK
<1>1. IInv => TypeOK
  BY DEF IInv
<1> QED
  BY <1>1, InvariantHolds, PTL

(* Each buffer that the JVM has given out has exactly one guard, or the raw parts of one, that
   will release it; only buffers whose guard was dropped on a detached thread have none. *)
THEOREM EachBufferHasOneOwner == Spec => []BuffersOwned
<1>1. IInv => BuffersOwned
  <2> SUFFICES ASSUME IInv PROVE BuffersOwned
    OBVIOUS
  <2>1. ASSUME NEW b \in Buffers \ stranded, buffer[b] # Free
        PROVE  \E h \in Handles : Holders(b) = {h}
    <3>1. PICK h \in Handles : Held(h) /\ handle[h].buf = b
      BY <2>1 DEF IInv, OwnInv, OwnerInv
    <3>2. \A g \in Handles : Held(g) /\ handle[g].buf = b => g = h
      BY <3>1 DEF IInv, OwnInv, UniqueInv
    <3>3. Holders(b) = {h}
      BY <3>1, <3>2 DEF Holders, Held
    <3> QED
      BY <3>3
  <2>2. \A b \in stranded : Holders(b) = {}
    BY DEF IInv, OwnInv, OwnerInv, Holders, Held
  <2>3. \A h \in Handles : handle[h].state # "none" =>
          /\ buffer[handle[h].buf].obj = handle[h].obj
          /\ buffer[handle[h].buf].kind = handle[h].kind
    BY DEF IInv, OwnInv, AgreeInv, Held
  <2> QED
    BY <2>1, <2>2, <2>3 DEF BuffersOwned
<1> QED
  BY <1>1, InvariantHolds, PTL

(* No JNI function but the release is called inside a critical section. *)
THEOREM CriticalSectionsUndisturbed == Spec => []CriticalUndisturbed
<1>1. IInv => CriticalUndisturbed
  BY DEF IInv, CriticalInv, CriticalUndisturbed
<1> QED
  BY <1>1, InvariantHolds, PTL

-------------------------------------------------------------------------------
(* Exceptions *)

(* An exception that comes to a thread without one: caught, it is cleared or stays with the
   error of the frame. *)
LEMMA CaughtKeeps ==
    ASSUME pending = FALSE,
           NEW failure \in [op : Operations, result : Results, start : Indices,
                            size : 0..MaxSlice, moved : 0..JsizeMax],
           Caught(failure)
    PROVE  \/ pending' = pending
           \/ pending' = TRUE /\ outcome'.result = "FrameFailed"
<1>1. CASE pending' = FALSE
  BY <1>1, Zenon
<1>2. CASE pending' = TRUE /\ outcome' = [failure EXCEPT !.result = "FrameFailed"]
  BY <1>2
<1> QED
  BY <1>1, <1>2 DEF Caught

(* No operation takes an exception away or leaves one behind, but for the cases named. *)
THEOREM PendingExceptionsKept == Spec => ExceptionsKept
<1> DEFINE Kept == pending' # pending =>
                      \/ outcome'.op = "throw"
                      \/ pending /\ attachment' = "none"
                      \/ pending' /\ (outcome'.op = "chars" \/ outcome'.result = "FrameFailed")
<1> USE DEF thread, memory, ghosts
<1>1. ASSUME IInv, [Next]_vars PROVE Kept \/ UNCHANGED vars
  <2> USE <1>1
  <2>0. pending \in BOOLEAN
    BY Zenon DEF IInv, TypeOK
  <2>00. ~pending => pending = FALSE
    BY <2>0
  <2>1. CASE EnterScope
    BY <2>1 DEF EnterScope
  <2>2. CASE LeaveScope
    <3>1. /\ attachment' \in {"none", "attached"}
          /\ pending' = (pending /\ attachment' = "attached")
      BY <2>2 DEF LeaveScope
    <3>2. CASE attachment' = "attached"
      BY <2>0, <3>1, <3>2
    <3>3. CASE attachment' = "none"
      <4>1. pending' = FALSE
        BY <3>1, <3>3
      <4> QED
        BY <2>0, <3>3, <4>1
    <3> QED
      BY <3>1, <3>2, <3>3
  <2>3. CASE Throw
    BY <2>3 DEF Throw, Done
  <2>4. ASSUME NEW failure \in [op : Operations, result : Results, start : Indices,
                                size : 0..MaxSlice, moved : 0..JsizeMax],
               ~pending, Caught(failure)
        PROVE  Kept
    BY <2>4, <2>00, CaughtKeeps
  <2>5. CASE Access
    <3>1. CASE \/ \E op \in {"get_region", "set_region", "get_element", "set_element"} : AccessRefused(op)
               \/ \E op \in {"get_element", "set_element"} : IndexTooLarge(op)
      BY <3>1 DEF AccessRefused, IndexTooLarge
    <3>2. ASSUME NEW op \in Operations, NEW start \in Indices, NEW size \in 0..MaxSlice,
                 ~pending, Region(op, start, size)
          PROVE  Kept
      <4>1. 0 \in 0..JsizeMax /\ "IndexOutOfBounds" \in Results
        BY ArrayElementsAssumption DEF Results
      <4>2. CASE pending' = pending
        BY <4>2
      <4>3. CASE Caught(Moved(op, "IndexOutOfBounds", start, size, 0))
        BY <3>2, <4>1, <4>3, <2>4, OutcomeType
      <4> QED
        BY <3>2, <4>2, <4>3 DEF Region
    <3>3. /\ {"get_region", "set_region", "get_element", "set_element"} \subseteq Operations
          /\ "WrongObjectType" \in Results
          /\ Jsize \subseteq Indices /\ 0..MaxSlice \subseteq Indices
          /\ 0 \in 0..JsizeMax /\ 1 \in 0..MaxSlice
      BY ArrayElementsAssumption DEF Operations, Results, Indices
    <3>4. CASE GetRegion
      BY <3>2, <3>3, <3>4 DEF GetRegion
    <3>5. CASE SetRegion
      BY <3>2, <3>3, <3>5 DEF SetRegion
    <3>6. CASE GetElement
      BY <3>2, <3>3, <3>6 DEF GetElement
    <3>7. CASE SetElement
      BY <3>2, <3>3, <3>7 DEF SetElement
    <3>8. CASE SetElementOfWrongType
      <4>1. PICK index \in 0..MaxSlice :
               ~pending /\ Caught(Moved("set_element", "WrongObjectType", index, 1, 0))
        BY <3>8 DEF SetElementOfWrongType
      <4> QED
        BY <4>1, <3>3, <2>4, OutcomeType
    <3> QED
      BY <2>5, <3>1, <3>4, <3>5, <3>6, <3>7, <3>8 DEF Access, Accesses
  <2>6. ASSUME NEW h \in Handles, NEW kind \in Kinds, GetFails(h, kind) PROVE Kept
    <3>1. ~pending /\ kind \in Operations /\ "NoMemory" \in Results
      BY <2>6 DEF GetFails, Kinds, Operations, Results
    <3>2. \/ Caught(Done(kind, "NoMemory"))
          \/ pending' = pending
          \/ pending' = FALSE
          \/ kind = "chars" /\ pending' \in BOOLEAN /\ outcome' = Done(kind, "NullPtr")
      BY <2>6 DEF GetFails, Kinds
    <3>3. CASE Caught(Done(kind, "NoMemory"))
      BY <3>1, <3>3, <2>4, OutcomeType
    <3>4. CASE kind = "chars" /\ pending' \in BOOLEAN /\ outcome' = Done(kind, "NullPtr")
      <4>1. outcome'.op = "chars"
        BY <3>4 DEF Done
      <4>2. pending' = pending \/ pending' = TRUE
        BY <3>1, <3>4, <2>00
      <4> QED
        BY <4>1, <4>2
    <3>5. CASE pending' = FALSE
      BY <3>1, <3>5, <2>00
    <3> QED
      BY <3>2, <3>3, <3>4, <3>5
  <2>7. ASSUME NEW h \in Handles, Borrow(h) PROVE Kept
    <3>1. CASE \E kind \in Kinds : GetFails(h, kind)
      BY <3>1, <2>6
    <3>2. CASE \/ \E kind \in Kinds : GetRefused(h, kind) \/ GetBuffer(h, kind)
               \/ Write(h) \/ Commit(h) \/ Drop(h) \/ Discard(h)
               \/ \E op \in {"commit", "drop", "discard"} : ReleaseDetached(h, op)
               \/ IntoRaw(h) \/ FromRaw(h)
      BY <3>2 DEF GetRefused, GetBuffer, Write, Commit, Drop, Discard, Release, ReleaseDetached,
                  IntoRaw, FromRaw
    <3> QED
      BY <2>7, <3>1, <3>2 DEF Borrow
  <2> QED
    BY <2>1, <2>2, <2>3, <2>5, <2>7 DEF Next
<1> HIDE DEF Kept
<1>2. IInv /\ [Next]_vars => [Kept]_vars
  BY <1>1
<1> USE DEF Kept
<1> QED
  BY <1>2, InvariantHolds, PTL DEF Spec, ExceptionsKept

-------------------------------------------------------------------------------
(* Regions *)

(* A region call reports what it moved, also if the length of the slice wraps to a length that
   the JVM accepts. *)
LEMMA RegionDocumented ==
    ASSUME NEW op \in Accesses, NEW start \in Indices, NEW size \in 0..MaxSlice,
           op \in {"get_element", "set_element"} => start <= JsizeMax,
           Region(op, start, size)
    PROVE  RegionsAsDocumented'
<1> USE ArrayElementsAssumption
<1> DEFINE len == AsJsize(size)
           remainder == size % (2 * (JsizeMax + 1))
<1>1. len \in Int /\ start \in Int /\ size \in Nat /\ remainder \in Int
  BY AsJsizeType DEF Jsize, Indices
<1>2. /\ len >= 0 => len = remainder
      /\ len < 0 => remainder > JsizeMax
      /\ size <= 2 * JsizeMax + 1 => remainder = size
  BY AsJsizeRemainder
<1> HIDE DEF len, remainder
<1>3. InBounds(start, len) <=> InBounds(start, remainder)
  BY <1>1, <1>2 DEF InBounds
<1>4. InBounds(start, size) => remainder = size
  BY <1>1, <1>2 DEF InBounds
<1>5. ~(op \in {"get_element", "set_element"} /\ start > JsizeMax)
  BY <1>1
<1>6. CASE InBounds(start, len)
  <2>1. outcome' = Moved(op, "ok", start, size, remainder)
    BY <1>1, <1>2, <1>6 DEF Region, len, InBounds
  <2>2. InBounds(start, size) \/ (size > 2 * JsizeMax + 1 /\ InBounds(start, remainder))
    BY <1>1, <1>2, <1>3, <1>6
  <2> QED
    BY <1>4, <1>5, <2>1, <2>2
    DEF RegionsAsDocumented, WholeMoved, IndexRejected, LengthWrapped, Moved, InBounds, remainder
<1>7. CASE ~InBounds(start, len)
  <2>1. ~InBounds(start, size) /\ ~InBounds(start, remainder)
    BY <1>3, <1>4, <1>7
  <2>2. \/ outcome' = Moved(op, "IndexOutOfBounds", start, size, 0)
        \/ outcome' = Moved(op, "FrameFailed", start, size, 0)
    BY <1>7 DEF Region, Caught, Moved, len
  <2> QED
    BY <1>5, <2>1, <2>2
    DEF RegionsAsDocumented, OutOfBounds, IndexRejected, LengthWrapped, Moved, InBounds, remainder
<1> QED
  BY <1>6, <1>7

(* For every array, slice and width of jsize: a call that copies elements moves what it was asked
   to, or nothing and returns IndexOutOfBounds, but for a too large index, which is refused as
   an invalid argument, and a slice whose length wraps to a small one. *)
THEOREM RegionsMoveAllOrNothing == Spec => []RegionsAsDocumented
<1>1. Init => RegionsAsDocumented
  BY DEF Init, RegionsAsDocumented, Done, Accesses
<1>2. ASSUME RegionsAsDocumented, [Next]_vars PROVE RegionsAsDocumented'
  <2> USE <1>2, ArrayElementsAssumption
  <2>1. ASSUME NEW op, NEW result, outcome' = Done(op, result),
               op \notin Accesses \/ result \in {"NullPtr", "JavaException"}
        PROVE  RegionsAsDocumented'
    BY <2>1 DEF RegionsAsDocumented, Done, Accesses
  <2>2. CASE EnterScope \/ LeaveScope \/ Throw
    <3>1. outcome' = Done("none", "ok") \/ outcome' = Done("throw", "ok")
      BY <2>2 DEF EnterScope, LeaveScope, Throw
    <3> QED
      BY <2>1, <3>1 DEF Accesses
  <2>3. CASE Access
    <3>1. ASSUME NEW op \in Accesses, AccessRefused(op) PROVE RegionsAsDocumented'
      <4>1. outcome' = Done(op, "NullPtr") \/ outcome' = Done(op, "JavaException")
        BY <3>1 DEF AccessRefused
      <4> QED
        BY <2>1, <4>1
    <3>2. ASSUME NEW op \in {"get_element", "set_element"}, IndexTooLarge(op)
          PROVE  RegionsAsDocumented'
      BY <3>2 DEF IndexTooLarge, RegionsAsDocumented, IndexRejected, Moved, InBounds
    <3>3. /\ Jsize \subseteq Indices /\ 0..MaxSlice \subseteq Indices /\ 1 \in 0..MaxSlice
      BY DEF Indices
    <3>4. CASE GetRegion \/ SetRegion
      <4>1. PICK op \in {"get_region", "set_region"}, start \in Jsize, size \in 0..MaxSlice :
               Region(op, start, size)
        BY <3>4 DEF GetRegion, SetRegion, Accesses
      <4> QED
        BY <4>1, <3>3, RegionDocumented DEF Accesses
    <3>5. CASE GetElement \/ SetElement
      <4>1. PICK op \in Accesses, index \in 0..MaxSlice : index <= JsizeMax /\ Region(op, index, 1)
        BY <3>5 DEF GetElement, SetElement, Accesses
      <4> QED
        BY <4>1, <3>3, RegionDocumented
    <3>6. CASE SetElementOfWrongType
      <4>1. PICK index \in 0..MaxSlice :
               /\ InBounds(index, 1)
               /\ \/ outcome' = Moved("set_element", "WrongObjectType", index, 1, 0)
                  \/ outcome' = Moved("set_element", "FrameFailed", index, 1, 0)
        BY <3>6 DEF SetElementOfWrongType, Caught, Moved
      <4> QED
        BY <4>1 DEF RegionsAsDocumented, Moved, InBounds
    <3> QED
      BY <2>3, <3>1, <3>2, <3>4, <3>5, <3>6 DEF Access, Accesses
  <2>4. ASSUME NEW h \in Handles, Borrow(h) PROVE RegionsAsDocumented'
    <3>1. ASSUME NEW kind \in Kinds,
                 GetRefused(h, kind) \/ GetBuffer(h, kind) \/ GetFails(h, kind)
          PROVE  RegionsAsDocumented'
      <4>1. kind \notin Accesses
        BY DEF Kinds, Accesses
      <4>2. CASE GetRefused(h, kind)
        BY <2>1, <4>1, <4>2 DEF GetRefused
      <4>3. CASE GetBuffer(h, kind)
        BY <2>1, <4>1, <4>3 DEF GetBuffer
      <4>4. CASE GetFails(h, kind)
        <5>1. \/ outcome' = Done(kind, "NoMemory") \/ outcome' = Done(kind, "NullPtr")
              \/ outcome' = [Done(kind, "NoMemory") EXCEPT !.result = "FrameFailed"]
          BY <4>4 DEF GetFails, Caught, Kinds
        <5>2. [Done(kind, "NoMemory") EXCEPT !.result = "FrameFailed"] = Done(kind, "FrameFailed")
          BY DEF Done
        <5> QED
          BY <5>1, <5>2, <2>1, <4>1
      <4> QED
        BY <3>1, <4>2, <4>3, <4>4
    <3>2. CASE \/ Write(h) \/ Commit(h) \/ Drop(h) \/ Discard(h) \/ IntoRaw(h) \/ FromRaw(h)
               \/ \E op \in {"commit", "drop", "discard"} : ReleaseDetached(h, op)
      <4>1. PICK op \in {"write", "commit", "drop", "discard", "into_raw", "from_raw"},
                 result \in {"ok", "ThreadDetached"} : outcome' = Done(op, result)
        BY <3>2 DEF Write, Commit, Drop, Discard, Release, ReleaseDetached, IntoRaw, FromRaw
      <4> QED
        BY <4>1, <2>1 DEF Accesses
    <3> QED
      BY <2>4, <3>1, <3>2 DEF Borrow
  <2>5. CASE UNCHANGED vars
    BY <2>5 DEF vars, RegionsAsDocumented, WholeMoved, OutOfBounds, IndexRejected, LengthWrapped
  <2> QED
    BY <2>2, <2>3, <2>4, <2>5 DEF Next
<1> QED
  BY <1>1, <1>2, PTL DEF Spec

-------------------------------------------------------------------------------
(* Release modes *)

(* A call that copies elements reports under its own name. *)
LEMMA AccessReports ==
    ASSUME Access
    PROVE  outcome'.op \in Accesses
<1>1. ASSUME NEW op, NEW start, NEW size, Region(op, start, size)
      PROVE  outcome'.op = op
  BY <1>1 DEF Region, Caught, Moved
<1>2. ASSUME NEW op \in Accesses, AccessRefused(op) \/ IndexTooLarge(op)
      PROVE  outcome'.op = op
  BY <1>2 DEF AccessRefused, IndexTooLarge, Done, Moved
<1>3. CASE GetRegion
  BY <1>1, <1>3 DEF GetRegion, Accesses
<1>4. CASE SetRegion
  BY <1>1, <1>4 DEF SetRegion, Accesses
<1>5. CASE GetElement
  BY <1>1, <1>5 DEF GetElement, Accesses
<1>6. CASE SetElement
  BY <1>1, <1>6 DEF SetElement, Accesses
<1>7. CASE SetElementOfWrongType
  BY <1>7 DEF SetElementOfWrongType, Caught, Moved, Accesses
<1> QED
  BY <1>2, <1>3, <1>4, <1>5, <1>6, <1>7 DEF Access, Accesses

(* The array has what the holder saw, or keeps what it has, when its only guard is released. *)
THEOREM ReleaseModesHonoured == Spec => ReleasesHonourMode
<1> DEFINE Released(h) ==
      /\ outcome'.op \in {"drop", "discard", "commit"} /\ outcome'.result = "ok"
      /\ Mutable(h) /\ (outcome'.op = "commit" \/ handle'[h] = NoHandle)
      /\ \A g \in Handles \ {h} : ~Mutable(g)
<1> DEFINE Final(h) ==
      contents' = [contents EXCEPT ![handle[h].obj] =
               IF outcome'.op = "discard" \/ (outcome'.op = "drop" /\ handle[h].mode = "NoCopyBack")
               THEN @ ELSE View(h)]
<1>1. ASSUME IInv, Next, NEW h \in Handles, Released(h) PROVE Final(h)
  <2> USE <1>1
  <2>1. Held(h) /\ handle[h].kind # "chars" /\ handle[h].state # "none"
    BY DEF Mutable, Live, Held
  <2>2. /\ buffer[handle[h].buf].obj = handle[h].obj
        /\ buffer[handle[h].buf].kind # "chars"
        /\ handle[h].obj \in Arrays
    BY <2>1, HeldBuffer
  <2>3. contents \in [Arrays -> Data]
    BY DEF IInv, TypeOK
  <2>4. contents = [contents EXCEPT ![handle[h].obj] = contents[handle[h].obj]]
    BY <2>2, <2>3
  <2>5. PICK g \in Handles : Commit(g) \/ Drop(g) \/ Discard(g)
    <3>1. CASE EnterScope \/ LeaveScope \/ Throw
      BY <3>1 DEF EnterScope, LeaveScope, Throw, Done
    <3>2. CASE Access
      BY <3>2, AccessReports DEF Accesses
    <3>3. ASSUME NEW g \in Handles, Borrow(g), ~(Commit(g) \/ Drop(g) \/ Discard(g)) PROVE FALSE
      <4>1. CASE Write(g) \/ IntoRaw(g) \/ FromRaw(g)
        BY <4>1 DEF Write, IntoRaw, FromRaw, Done
      <4>2. ASSUME NEW op \in {"commit", "drop", "discard"}, ReleaseDetached(g, op) PROVE FALSE
        BY <4>2 DEF ReleaseDetached, Done
      <4>3. ASSUME NEW kind \in Kinds, GetRefused(g, kind) \/ GetBuffer(g, kind) \/ GetFails(g, kind)
            PROVE  FALSE
        <5>1. outcome'.op = kind
          <6>1. CASE GetRefused(g, kind)
            BY <6>1 DEF GetRefused, Done
          <6>2. CASE GetBuffer(g, kind)
            BY <6>2 DEF GetBuffer, Done
          <6>3. CASE GetFails(g, kind)
            <7>1. \/ outcome' = Done(kind, "NoMemory") \/ outcome' = Done(kind, "NullPtr")
                  \/ outcome' = [Done(kind, "NoMemory") EXCEPT !.result = "FrameFailed"]
              BY <6>3 DEF GetFails, Caught, Kinds
            <7> QED
              BY <7>1 DEF Done
          <6> QED
            BY <4>3, <6>1, <6>2, <6>3
        <5> QED
          BY <5>1 DEF Kinds
      <4> QED
        BY <3>3, <4>1, <4>2, <4>3 DEF Borrow
    <3> QED
      BY <3>1, <3>2, <3>3 DEF Next
  <2>6. CASE Commit(g)
    <3>1. g = h
      BY <2>6 DEF Commit, MayRelease, Mutable
    <3>2. outcome'.op = "commit"
      BY <2>6 DEF Commit, Done
    <3> QED
      BY <2>2, <2>4, <2>6, <3>1, <3>2 DEF Commit, WriteBack, View
  <2>7. ASSUME NEW mode, NEW op \in {"drop", "discard"}, Release(g, mode, op) PROVE g = h
    <3>1. handle' = [handle EXCEPT ![g] = NoHandle] /\ handle'[h] = NoHandle
      BY <2>7 DEF Release, Done
    <3>2. handle[h] # NoHandle
      BY <2>1 DEF NoHandle
    <3> QED
      BY <3>1, <3>2 DEF IInv, TypeOK
  <2>8. CASE Drop(g)
    <3>1. g = h
      BY <2>7, <2>8 DEF Drop
    <3>2. outcome'.op = "drop"
      BY <2>8 DEF Drop, Release, Done
    <3> QED
      BY <2>2, <2>4, <2>8, <3>1, <3>2 DEF Drop, Release, WriteBack, View
  <2>9. CASE Discard(g)
    <3>1. outcome'.op = "discard"
      BY <2>9 DEF Discard, Release, Done
    <3>2. contents' = contents
      BY <2>9 DEF Discard, Release, WriteBack
    <3> QED
      BY <2>4, <3>1, <3>2
  <2> QED
    BY <2>5, <2>6, <2>8, <2>9
<1>2. IInv /\ [Next]_vars => [\A h \in Handles : Released(h) => Final(h)]_vars
  BY <1>1
<1> QED
  BY <1>2, InvariantHolds, PTL DEF Spec, ReleasesHonourMode

-------------------------------------------------------------------------------
(* Strings: code units in bytes *)

(***************************************************************************)
(* Two things are behind the proof.  A code unit has one encoding, which   *)
(* its first bytes tell, so that the loop sees a character exactly where   *)
(* one is encoded; and no code unit can be read there in another length,   *)
(* so that every way to read the bytes comes past where the loop is.       *)
(***************************************************************************)

Byte == 1..255

LEMMA TupleFacts ==
    /\ \A a, x : <<a>> = <<x>> <=> a = x
    /\ \A a, b, x, y : <<a, b>> = <<x, y>> <=> a = x /\ b = y
    /\ \A a, b, c, x, y, z : <<a, b, c>> = <<x, y, z>> <=> a = x /\ b = y /\ c = z
    /\ \A a, x, y : <<a>> # <<x, y>>
    /\ \A a, x, y, z : <<a>> # <<x, y, z>>
    /\ \A a, b, x, y, z : <<a, b>> # <<x, y, z>>
  OBVIOUS

(* A unit in digits to the base 64, and in bytes *)
Composed(u, x, y, z) == u = (x * 4096) + (y * 64) + z

Digits(u, x, y, z) ==
    /\ u % 64 = z /\ (u \div 64) % 64 = y /\ u \div 4096 = x
    /\ x = 0 => u \div 64 = y
    /\ u \in 1..127 <=> x = 0 /\ (y = 1 \/ (y = 0 /\ z > 0))
    /\ u < 2048 <=> x = 0 /\ y < 32

(* The bits that the encoding takes, and the boundaries of the three forms *)
LEMMA DigitsFacts ==
    ASSUME NEW x \in 0..15, NEW y \in 0..63, NEW z \in 0..63,
           NEW u \in Nat, Composed(u, x, y, z)
    PROVE  Digits(u, x, y, z)
<1>1. u = (x * 4096) + (y * 64) + z
  BY DEF Composed
<1>2. u % 64 = z
  BY <1>1
<1>3. u \div 64 = (x * 64) + y
  BY <1>1
<1>4. ((x * 64) + y) % 64 = y
  OBVIOUS
<1>5. u \div 4096 = x
  BY <1>1
<1>6. u >= 1 /\ u <= 127 <=> x = 0 /\ (y = 1 \/ (y = 0 /\ z > 0))
  BY <1>1
<1>7. u < 2048 <=> x = 0 /\ y < 32
  BY <1>1
<1>8. u \in 1..127 <=> x = 0 /\ (y = 1 \/ (y = 0 /\ z > 0))
  BY <1>6
<1>9. x = 0 => u \div 64 = y
  BY <1>3
<1>10. (u \div 64) % 64 = y
  BY <1>3, <1>4
<1> QED BY <1>2, <1>5, <1>7, <1>8, <1>9, <1>10 DEF Digits

InBytes(u, x, y, z) ==
    /\ x = 0 /\ (y = 1 \/ (y = 0 /\ z > 0)) => EncodeUnit(u) = <<u>>
    /\ x = 0 /\ ~(y = 1 \/ (y = 0 /\ z > 0)) /\ y < 32 => EncodeUnit(u) = <<192 + y, 128 + z>>
    /\ x # 0 \/ y >= 32 => EncodeUnit(u) = <<224 + x, 128 + y, 128 + z>>

LEMMA EncodedInBytes ==
    ASSUME NEW x \in 0..15, NEW y \in 0..63, NEW z \in 0..63,
           NEW u \in Nat, Composed(u, x, y, z)
    PROVE  InBytes(u, x, y, z)
<1>1. Digits(u, x, y, z)
  BY DigitsFacts
<1>2. /\ u % 64 = z /\ (u \div 64) % 64 = y /\ u \div 4096 = x
      /\ x = 0 => u \div 64 = y
      /\ u \in 1..127 <=> x = 0 /\ (y = 1 \/ (y = 0 /\ z > 0))
      /\ u < 2048 <=> x = 0 /\ y < 32
  BY <1>1 DEF Digits
<1>3. u \in 1..127 => EncodeUnit(u) = <<u>>
  BY DEF EncodeUnit
<1>4. u \notin 1..127 /\ u < 2048 => EncodeUnit(u) = <<192 + (u \div 64), 128 + (u % 64)>>
  BY DEF EncodeUnit
<1>5. u \notin 1..127 /\ ~(u < 2048) =>
          EncodeUnit(u) = <<224 + (u \div 4096), 128 + ((u \div 64) % 64), 128 + (u % 64)>>
  BY DEF EncodeUnit
<1>6. x = 0 /\ (y = 1 \/ (y = 0 /\ z > 0)) => EncodeUnit(u) = <<u>>
  BY <1>2, <1>3
<1>7. x = 0 /\ ~(y = 1 \/ (y = 0 /\ z > 0)) /\ y < 32 => EncodeUnit(u) = <<192 + y, 128 + z>>
  BY <1>2, <1>4
<1>8. ASSUME x # 0 \/ y >= 32 PROVE EncodeUnit(u) = <<224 + x, 128 + y, 128 + z>>
  <2>1. ~(x = 0 /\ y < 32) /\ ~(x = 0 /\ (y = 1 \/ (y = 0 /\ z > 0)))
    BY <1>8
  <2> QED BY <1>2, <1>5, <2>1
<1> QED BY <1>6, <1>7, <1>8 DEF InBytes

LEMMA ByteFacts ==
    ASSUME NEW b \in Byte
    PROVE  /\ b % 16 \in 0..15 /\ b % 32 \in 0..31 /\ b % 64 \in 0..63
           /\ 192 + (b % 32) = b <=> b \in 192..223
           /\ 224 + (b % 16) = b <=> b \in 224..239
           /\ 128 + (b % 64) = b <=> b \in 128..191
           /\ Continues(b) <=> b \in 128..191
           /\ b \in 192..223 => b % 32 = b - 192
           /\ b \in 224..239 => b % 16 = b - 224
           /\ b \in 128..191 => b % 64 = b - 128
<1>1. b % 16 \in 0..15 /\ b % 32 \in 0..31 /\ b % 64 \in 0..63
  BY DEF Byte
<1>2. 192 + (b % 32) = b <=> b \in 192..223
  BY DEF Byte
<1>3. 224 + (b % 16) = b <=> b \in 224..239
  BY DEF Byte
<1>4. 128 + (b % 64) = b <=> b \in 128..191
  BY DEF Byte
<1>5. Continues(b) <=> b \in 128..191
  BY DEF Byte, Continues
<1> QED BY <1>1, <1>2, <1>3, <1>4, <1>5 DEF Byte

(* Which one, two and three bytes are the encoding of a unit, and of the shortest form *)
LEMMA OneByte ==
    ASSUME NEW a \in Byte
    PROVE  EncodeUnit(UnitOf(<<a>>)) = <<a>> <=> a < 128
<1>1. UnitOf(<<a>>) = a
  BY DEF UnitOf
<1> QED BY <1>1 DEF EncodeUnit, Byte

LEMMA TwoBytes ==
    ASSUME NEW a \in Byte, NEW b \in Byte
    PROVE  EncodeUnit(UnitOf(<<a, b>>)) = <<a, b>>
           <=> (a = 192 /\ b = 128) \/ (a \in 194..223 /\ Continues(b))
<1>1. PICK y \in 0..31 : y = a % 32
  BY ByteFacts
<1>2. PICK z \in 0..63 : z = b % 64
  BY ByteFacts
<1>3. PICK u \in Nat : Composed(u, 0, y, z) /\ u = (y * 64) + z
  BY DEF Composed
<1>4. UnitOf(<<a, b>>) = u
  <2>1. UnitOf(<<a, b>>) = ((a % 32) * 64) + (b % 64)
    BY DEF UnitOf
  <2> QED BY <1>1, <1>2, <1>3, <2>1
<1>5. y \in 0..63 /\ 0 \in 0..15
  OBVIOUS
<1>6. /\ y = 1 \/ (y = 0 /\ z > 0) => EncodeUnit(u) = <<u>>
      /\ ~(y = 1 \/ (y = 0 /\ z > 0)) => EncodeUnit(u) = <<192 + y, 128 + z>>
  <2>1. y < 32
    OBVIOUS
  <2>2. InBytes(u, 0, y, z)
    BY <1>3, <1>5, EncodedInBytes
  <2> QED BY <2>1, <2>2 DEF InBytes
<1>7. EncodeUnit(u) = <<a, b>> <=> ~(y = 1 \/ (y = 0 /\ z > 0)) /\ 192 + y = a /\ 128 + z = b
  BY <1>6, TupleFacts
<1>8. /\ 192 + y = a <=> a \in 192..223
      /\ 128 + z = b <=> b \in 128..191
      /\ Continues(b) <=> b \in 128..191
  BY <1>1, <1>2, ByteFacts
<1> QED BY <1>4, <1>7, <1>8 DEF Byte

LEMMA ThreeBytes ==
    ASSUME NEW a \in Byte, NEW b \in Byte, NEW c \in Byte
    PROVE  EncodeUnit(UnitOf(<<a, b, c>>)) = <<a, b, c>>
           <=> \/ a = 224 /\ b \in 160..191 /\ Continues(c)
               \/ a \in 225..239 /\ Continues(b) /\ Continues(c)
<1>0. PICK x \in 0..15 : x = a % 16
  BY ByteFacts
<1>1. PICK y \in 0..63 : y = b % 64
  BY ByteFacts
<1>2. PICK z \in 0..63 : z = c % 64
  BY ByteFacts
<1>3. PICK u \in Nat : Composed(u, x, y, z) /\ u = (x * 4096) + (y * 64) + z
  BY DEF Composed
<1>4. UnitOf(<<a, b, c>>) = u
  <2>1. UnitOf(<<a, b, c>>) = ((a % 16) * 4096) + ((b % 64) * 64) + (c % 64)
    BY DEF UnitOf
  <2> QED BY <1>0, <1>1, <1>2, <1>3, <2>1
<1>8. Composed(u, x, y, z)
  BY <1>3
<1>9. InBytes(u, x, y, z)
  BY <1>8, EncodedInBytes
<1>5. EncodeUnit(u) = <<a, b, c>> <=> (x # 0 \/ y >= 32) /\ 224 + x = a /\ 128 + y = b /\ 128 + z = c
  <2>1. CASE x # 0 \/ y >= 32
    <3>1. EncodeUnit(u) = <<224 + x, 128 + y, 128 + z>>
      BY <1>9, <2>1 DEF InBytes
    <3> QED BY <2>1, <3>1, TupleFacts
  <2>2. CASE ~(x # 0 \/ y >= 32)
    <3>1. x = 0 /\ y < 32
      BY <2>2
    <3>2. EncodeUnit(u) = <<u>> \/ EncodeUnit(u) = <<192 + y, 128 + z>>
      BY <1>9, <3>1 DEF InBytes
    <3> QED BY <2>2, <3>2, TupleFacts
  <2> QED BY <2>1, <2>2
<1>6. /\ 224 + x = a <=> a \in 224..239
      /\ 128 + y = b <=> b \in 128..191
      /\ 128 + z = c <=> c \in 128..191
      /\ Continues(b) <=> b \in 128..191
      /\ Continues(c) <=> c \in 128..191
  BY <1>0, <1>1, <1>2, ByteFacts
<1> QED BY <1>4, <1>5, <1>6 DEF Byte

-------------------------------------------------------------------------------
(* Strings: the code units in a string *)

LEMMA Part ==
    ASSUME NEW s \in Seq(Byte), NEW i \in 1..Len(s), NEW k \in 0..2, i + k <= Len(s)
    PROVE  /\ SubSeq(s, i, i + k) \in Seq(Byte) /\ Len(SubSeq(s, i, i + k)) = k + 1
           /\ \A j \in 1..(k + 1) : SubSeq(s, i, i + k)[j] = s[i + j - 1]
<1>1. PICK m \in Nat : m = i + k
  OBVIOUS
<1>2. i \in Nat /\ i <= m /\ m - i + 1 = k + 1
  BY <1>1
<1>3. \A j \in i..m : s[j] \in Byte
  BY <1>1
<1>4. /\ SubSeq(s, i, m) \in Seq(Byte)
      /\ Len(SubSeq(s, i, m)) = IF i <= m THEN m - i + 1 ELSE 0
      /\ \A j \in 1..(m - i + 1) : SubSeq(s, i, m)[j] = s[i + j - 1]
  BY <1>2, <1>3, SubSeqProperties
<1> QED BY <1>1, <1>2, <1>4

LEMMA AsTuple ==
    /\ \A p \in Seq(Byte) : Len(p) = 1 => p = <<p[1]>>
    /\ \A p \in Seq(Byte) : Len(p) = 2 => p = <<p[1], p[2]>>
    /\ \A p \in Seq(Byte) : Len(p) = 3 => p = <<p[1], p[2], p[3]>>
  OBVIOUS

LEMMA PartFacts ==
    ASSUME NEW s \in Seq(Byte), NEW i \in 1..Len(s)
    PROVE  /\ SubSeq(s, i, i) = <<s[i]>>
           /\ i + 1 <= Len(s) => SubSeq(s, i, i + 1) = <<s[i], s[i + 1]>>
           /\ i + 2 <= Len(s) => SubSeq(s, i, i + 2) = <<s[i], s[i + 1], s[i + 2]>>
<1>1. SubSeq(s, i, i) = <<s[i]>>
  <2> DEFINE p == SubSeq(s, i, i + 0)
  <2>1. i + 0 = i /\ i + 0 <= Len(s) /\ 0 \in 0..2 /\ 0 + 1 = 1 /\ 1 \in 1..1 /\ i + 1 - 1 = i
    OBVIOUS
  <2>2. p \in Seq(Byte) /\ Len(p) = 0 + 1 /\ \A j \in 1..(0 + 1) : p[j] = s[i + j - 1]
    BY <2>1, Part
  <2> HIDE DEF p
  <2>3. p = <<p[1]>> /\ p[1] = s[i]
    BY <2>1, <2>2, AsTuple
  <2>4. p = SubSeq(s, i, i)
    BY <2>1 DEF p
  <2> QED BY <2>3, <2>4
<1>2. ASSUME i + 1 <= Len(s) PROVE SubSeq(s, i, i + 1) = <<s[i], s[i + 1]>>
  <2> DEFINE p == SubSeq(s, i, i + 1)
  <2>1. 1 \in 0..2 /\ 1 + 1 = 2 /\ 1 \in 1..2 /\ 2 \in 1..2 /\ i + 1 - 1 = i /\ i + 2 - 1 = i + 1
    OBVIOUS
  <2>2. p \in Seq(Byte) /\ Len(p) = 1 + 1 /\ \A j \in 1..(1 + 1) : p[j] = s[i + j - 1]
    BY <1>2, <2>1, Part
  <2> HIDE DEF p
  <2>3. p = <<p[1], p[2]>> /\ p[1] = s[i] /\ p[2] = s[i + 1]
    BY <2>1, <2>2, AsTuple
  <2> QED BY <2>3 DEF p
<1>3. ASSUME i + 2 <= Len(s) PROVE SubSeq(s, i, i + 2) = <<s[i], s[i + 1], s[i + 2]>>
  <2> DEFINE p == SubSeq(s, i, i + 2)
  <2>1. 2 \in 0..2 /\ 2 + 1 = 3 /\ 1 \in 1..3 /\ 2 \in 1..3 /\ 3 \in 1..3
        /\ i + 1 - 1 = i /\ i + 2 - 1 = i + 1 /\ i + 3 - 1 = i + 2
    OBVIOUS
  <2>2. p \in Seq(Byte) /\ Len(p) = 2 + 1 /\ \A j \in 1..(2 + 1) : p[j] = s[i + j - 1]
    BY <1>3, <2>1, Part
  <2> HIDE DEF p
  <2>3. p = <<p[1], p[2], p[3]>> /\ p[1] = s[i] /\ p[2] = s[i + 1] /\ p[3] = s[i + 2]
    BY <2>1, <2>2, AsTuple
  <2> QED BY <2>3 DEF p
<1> QED BY <1>1, <1>2, <1>3

LEMMA UnitAtFacts ==
    ASSUME NEW s \in Seq(Byte), NEW i \in 1..Len(s)
    PROVE  /\ UnitAt(s, i, 1) <=> s[i] < 128
           /\ UnitAt(s, i, 2) <=>
                 /\ i + 1 <= Len(s)
                 /\ (s[i] = 192 /\ s[i + 1] = 128) \/ (s[i] \in 194..223 /\ Continues(s[i + 1]))
           /\ UnitAt(s, i, 3) <=>
                 /\ i + 2 <= Len(s)
                 /\ \/ s[i] = 224 /\ s[i + 1] \in 160..191 /\ Continues(s[i + 2])
                    \/ s[i] \in 225..239 /\ Continues(s[i + 1]) /\ Continues(s[i + 2])
<1>1. /\ i + 1 - 1 = i /\ i + 2 - 1 = i + 1 /\ i + 3 - 1 = i + 2 /\ i <= Len(s)
      /\ s[i] \in Byte /\ (i + 1 <= Len(s) => s[i + 1] \in Byte)
      /\ (i + 2 <= Len(s) => s[i + 1] \in Byte /\ s[i + 2] \in Byte)
  OBVIOUS
<1>2. UnitAt(s, i, 1) <=> EncodeUnit(UnitOf(<<s[i]>>)) = <<s[i]>>
  BY <1>1, PartFacts DEF UnitAt
<1>3. UnitAt(s, i, 2) <=>
          /\ i + 1 <= Len(s)
          /\ EncodeUnit(UnitOf(<<s[i], s[i + 1]>>)) = <<s[i], s[i + 1]>>
  BY <1>1, PartFacts DEF UnitAt
<1>4. UnitAt(s, i, 3) <=>
          /\ i + 2 <= Len(s)
          /\ EncodeUnit(UnitOf(<<s[i], s[i + 1], s[i + 2]>>)) = <<s[i], s[i + 1], s[i + 2]>>
  BY <1>1, PartFacts DEF UnitAt
<1>5. UnitAt(s, i, 1) <=> s[i] < 128
  BY <1>1, <1>2, OneByte
<1>6. UnitAt(s, i, 2) <=>
          /\ i + 1 <= Len(s)
          /\ (s[i] = 192 /\ s[i + 1] = 128) \/ (s[i] \in 194..223 /\ Continues(s[i + 1]))
  BY <1>1, <1>3, TwoBytes
<1>7. UnitAt(s, i, 3) <=>
          /\ i + 2 <= Len(s)
          /\ \/ s[i] = 224 /\ s[i + 1] \in 160..191 /\ Continues(s[i + 2])
             \/ s[i] \in 225..239 /\ Continues(s[i + 1]) /\ Continues(s[i + 2])
  BY <1>1, <1>4, ThreeBytes
<1> QED BY <1>5, <1>6, <1>7

(* Width of the bytes a, b and c; those that are cut off count as 0. *)
WidthOf(a, b, c) ==
    CASE a < 128 -> 1
      [] a = 192 -> IF b = 128 THEN 2 ELSE 0
      [] a \in 194..223 -> IF Continues(b) THEN 2 ELSE 0
      [] a = 224 -> IF b \in 160..191 /\ Continues(c) THEN 3 ELSE 0
      [] a \in 225..239 -> IF Continues(b) /\ Continues(c) THEN 3 ELSE 0
      [] OTHER -> 0

LEMMA WidthOfFacts ==
    ASSUME NEW a \in Byte, NEW b, NEW c
    PROVE  /\ WidthOf(a, b, c) \in 0..3
           /\ WidthOf(a, b, c) = 1 <=> a < 128
           /\ WidthOf(a, b, c) = 2 <=> (a = 192 /\ b = 128) \/ (a \in 194..223 /\ Continues(b))
           /\ WidthOf(a, b, c) = 3 <=>
                 \/ a = 224 /\ b \in 160..191 /\ Continues(c)
                 \/ a \in 225..239 /\ Continues(b) /\ Continues(c)
<1>1. CASE a < 128
  BY <1>1 DEF WidthOf, Byte
<1>2. CASE a = 192
  BY <1>2 DEF WidthOf, Byte
<1>3. CASE a \in 194..223
  BY <1>3 DEF WidthOf, Byte
<1>4. CASE a = 224
  BY <1>4 DEF WidthOf, Byte
<1>5. CASE a \in 225..239
  BY <1>5 DEF WidthOf, Byte
<1>6. CASE a \in 128..191 \/ a = 193 \/ a \in 240..255
  BY <1>6 DEF WidthOf, Byte
<1> QED BY <1>1, <1>2, <1>3, <1>4, <1>5, <1>6 DEF Byte

(* The loop sees a character exactly where a code unit is encoded, and how long it is. *)
LEMMA WidthFacts ==
    ASSUME NEW s \in Seq(Byte), NEW i \in 1..Len(s)
    PROVE  /\ Width(s, i) \in 0..3
           /\ \A n \in 1..3 : UnitAt(s, i, n) <=> Width(s, i) = n
<1>1. PICK b : b = IF i + 1 <= Len(s) THEN s[i + 1] ELSE 0
  OBVIOUS
<1>2. PICK c : c = IF i + 2 <= Len(s) THEN s[i + 2] ELSE 0
  OBVIOUS
<1>3. Width(s, i) = WidthOf(s[i], b, c)
  BY <1>1, <1>2 DEF Width, WidthOf
<1>4. PICK a \in Byte : a = s[i]
  OBVIOUS
<1> DEFINE w == WidthOf(a, b, c)
<1>5. /\ w \in 0..3
      /\ w = 1 <=> a < 128
      /\ w = 2 <=> (a = 192 /\ b = 128) \/ (a \in 194..223 /\ Continues(b))
      /\ w = 3 <=> \/ a = 224 /\ b \in 160..191 /\ Continues(c)
                   \/ a \in 225..239 /\ Continues(b) /\ Continues(c)
  BY WidthOfFacts
<1> HIDE DEF w
<1>6. /\ w \in 0..3
      /\ w = 1 <=> s[i] < 128
      /\ w = 2 <=> (s[i] = 192 /\ b = 128) \/ (s[i] \in 194..223 /\ Continues(b))
      /\ w = 3 <=> \/ s[i] = 224 /\ b \in 160..191 /\ Continues(c)
                   \/ s[i] \in 225..239 /\ Continues(b) /\ Continues(c)
  BY <1>4, <1>5
<1>7. ~Continues(0)
  BY DEF Continues
<1>8. /\ i + 1 <= Len(s) => b = s[i + 1]
      /\ ~(i + 1 <= Len(s)) => b = 0
      /\ i + 2 <= Len(s) => b = s[i + 1] /\ c = s[i + 2]
      /\ ~(i + 2 <= Len(s)) => c = 0
  BY <1>1, <1>2
<1>9. UnitAt(s, i, 1) <=> w = 1
  BY <1>6, UnitAtFacts
<1>10. UnitAt(s, i, 2) <=> w = 2
  <2>1. UnitAt(s, i, 2) <=>
            /\ i + 1 <= Len(s)
            /\ (s[i] = 192 /\ s[i + 1] = 128) \/ (s[i] \in 194..223 /\ Continues(s[i + 1]))
    BY UnitAtFacts
  <2>2. CASE i + 1 <= Len(s)
    BY <1>6, <1>8, <2>1, <2>2
  <2>3. CASE ~(i + 1 <= Len(s))
    <3>1. b = 0 /\ b # 128 /\ ~Continues(b)
      BY <1>7, <1>8, <2>3
    <3> QED BY <1>6, <2>1, <2>3, <3>1
  <2> QED BY <2>2, <2>3
<1>11. UnitAt(s, i, 3) <=> w = 3
  <2>1. UnitAt(s, i, 3) <=>
            /\ i + 2 <= Len(s)
            /\ \/ s[i] = 224 /\ s[i + 1] \in 160..191 /\ Continues(s[i + 2])
               \/ s[i] \in 225..239 /\ Continues(s[i + 1]) /\ Continues(s[i + 2])
    BY UnitAtFacts
  <2>2. CASE i + 2 <= Len(s)
    BY <1>6, <1>8, <2>1, <2>2
  <2>3. CASE ~(i + 2 <= Len(s))
    <3>1. ~Continues(c)
      BY <1>7, <1>8, <2>3
    <3> QED BY <1>6, <2>1, <2>3, <3>1
  <2> QED BY <2>2, <2>3
<1>12. \A n \in 1..3 : UnitAt(s, i, n) <=> w = n
  <2>1. \A n \in 1..3 : n = 1 \/ n = 2 \/ n = 3
    OBVIOUS
  <2> QED BY <1>9, <1>10, <1>11, <2>1
<1> QED BY <1>3, <1>4, <1>6, <1>12 DEF w

-------------------------------------------------------------------------------
(* Strings: what is encoded *)

Scalar == {c \in Nat : c < 1114112}
Unit == {u \in Nat : u < 65536}

LEMMA BytesOfUnit ==
    /\ \A a \in Byte : <<a>> \in Seq(Byte) /\ Len(<<a>>) = 1 /\ UnitOf(<<a>>) = a
    /\ \A a, b \in Byte :
          /\ <<a, b>> \in Seq(Byte) /\ Len(<<a, b>>) = 2
          /\ UnitOf(<<a, b>>) = ((a % 32) * 64) + (b % 64)
    /\ \A a, b, c \in Byte :
          /\ <<a, b, c>> \in Seq(Byte) /\ Len(<<a, b, c>>) = 3
          /\ UnitOf(<<a, b, c>>) = ((a % 16) * 4096) + ((b % 64) * 64) + (c % 64)
  BY DEF UnitOf

LEMMA LeadAndTail ==
    /\ \A x \in 0..15 : 224 + x \in Byte /\ (224 + x) % 16 = x
    /\ \A y \in 0..31 : 192 + y \in Byte /\ (192 + y) % 32 = y
    /\ \A z \in 0..63 : 128 + z \in Byte /\ (128 + z) % 64 = z
  BY DEF Byte

(* A unit is read back from its bytes, and surrogates take three. *)
LEMMA UnitFacts ==
    ASSUME NEW u \in Unit
    PROVE  /\ EncodeUnit(u) \in Seq(Byte) /\ Len(EncodeUnit(u)) \in 1..3
           /\ UnitOf(EncodeUnit(u)) = u
           /\ u >= 2048 => Len(EncodeUnit(u)) = 3
<1>1. PICK x \in 0..15 : x = u \div 4096
  BY DEF Unit
<1>2. PICK y \in 0..63 : y = (u \div 64) % 64
  BY DEF Unit
<1>3. PICK z \in 0..63 : z = u % 64
  BY DEF Unit
<1>4. u = (x * 4096) + (y * 64) + z
  BY <1>1, <1>2, <1>3 DEF Unit
<1>5. Composed(u, x, y, z) /\ u \in Nat
  BY <1>4 DEF Composed, Unit
<1>6. InBytes(u, x, y, z)
  BY <1>5, EncodedInBytes
<1>7. Digits(u, x, y, z)
  BY <1>5, DigitsFacts
<1>8. /\ u \in 1..127 <=> x = 0 /\ (y = 1 \/ (y = 0 /\ z > 0))
      /\ u < 2048 <=> x = 0 /\ y < 32
  BY <1>7 DEF Digits
<1> DEFINE Goal(e) == e \in Seq(Byte) /\ Len(e) \in 1..3 /\ UnitOf(e) = u /\ (u >= 2048 => Len(e) = 3)
<1>9. CASE x = 0 /\ (y = 1 \/ (y = 0 /\ z > 0))
  <2>1. u \in 1..127
    BY <1>8, <1>9
  <2>2. u \in Byte /\ ~(u >= 2048)
    BY <2>1 DEF Byte
  <2>3. EncodeUnit(u) = <<u>>
    BY <1>6, <1>9 DEF InBytes
  <2>4. Goal(<<u>>)
    BY <2>2, BytesOfUnit
  <2> QED BY <2>3, <2>4
<1>10. CASE x = 0 /\ ~(y = 1 \/ (y = 0 /\ z > 0)) /\ y < 32
  <2>1. ~(u >= 2048) /\ y \in 0..31
    BY <1>5, <1>8, <1>10
  <2>2. EncodeUnit(u) = <<192 + y, 128 + z>>
    BY <1>6, <1>10 DEF InBytes
  <2>3. PICK a : a = 192 + y
    OBVIOUS
  <2>4. PICK b : b = 128 + z
    OBVIOUS
  <2>5. a \in Byte /\ b \in Byte /\ a % 32 = y /\ b % 64 = z
    BY <2>1, <2>3, <2>4, LeadAndTail
  <2>6. <<a, b>> \in Seq(Byte) /\ Len(<<a, b>>) = 2 /\ UnitOf(<<a, b>>) = (y * 64) + z
    BY <2>5, BytesOfUnit
  <2>7. (y * 64) + z = u
    BY <1>4, <1>10
  <2>8. Goal(<<a, b>>)
    BY <2>1, <2>6, <2>7
  <2> QED BY <2>2, <2>3, <2>4, <2>8
<1>11. CASE x # 0 \/ y >= 32
  <2>1. EncodeUnit(u) = <<224 + x, 128 + y, 128 + z>>
    BY <1>6, <1>11 DEF InBytes
  <2>2. PICK a : a = 224 + x
    OBVIOUS
  <2>3. PICK b : b = 128 + y
    OBVIOUS
  <2>4. PICK c : c = 128 + z
    OBVIOUS
  <2>5. a \in Byte /\ b \in Byte /\ c \in Byte /\ a % 16 = x /\ b % 64 = y /\ c % 64 = z
    BY <2>2, <2>3, <2>4, LeadAndTail
  <2>6. /\ <<a, b, c>> \in Seq(Byte) /\ Len(<<a, b, c>>) = 3
        /\ UnitOf(<<a, b, c>>) = (x * 4096) + (y * 64) + z
    BY <2>5, BytesOfUnit
  <2>7. Goal(<<a, b, c>>)
    BY <1>4, <2>6
  <2> QED BY <2>1, <2>2, <2>3, <2>4, <2>7
<1>12. \/ x = 0 /\ (y = 1 \/ (y = 0 /\ z > 0))
       \/ x = 0 /\ ~(y = 1 \/ (y = 0 /\ z > 0)) /\ y < 32
       \/ x # 0 \/ y >= 32
  OBVIOUS
<1> QED BY <1>9, <1>10, <1>11, <1>12

(* A character above 65535 is a high and a low surrogate, and they are no other's. *)
LEMMA SurrogateFacts ==
    ASSUME NEW c \in Scalar, ~(c < 65536)
    PROVE  /\ High(c) \in Unit /\ High(c) >= 55296 /\ High(c) < 56320
           /\ Low(c) \in Unit /\ Low(c) >= 56320 /\ Low(c) < 57344
           /\ c = 65536 + ((High(c) - 55296) * 1024) + (Low(c) - 56320)
<1>1. PICK k \in Nat : k = c - 65536 /\ k < 1048576
  BY DEF Scalar
<1>2. PICK h \in Nat : h = k \div 1024 /\ h < 1024
  BY <1>1
<1>3. PICK l \in Nat : l = k % 1024 /\ l < 1024
  BY <1>1
<1>4. k = (h * 1024) + l
  BY <1>1, <1>2, <1>3
<1>5. High(c) = 55296 + h /\ Low(c) = 56320 + l
  BY <1>1, <1>2, <1>3 DEF High, Low
<1>6. c = 65536 + k
  BY <1>1 DEF Scalar
<1> QED BY <1>2, <1>3, <1>4, <1>5, <1>6 DEF Unit

(* Appending leaves the units that are there, and adds one. *)
LEMMA UnitKept ==
    ASSUME NEW s \in Seq(Byte), NEW e \in Seq(Byte), NEW p \in 1..Len(s), NEW n \in 1..3, UnitAt(s, p, n)
    PROVE  UnitAt(s \o e, p, n)
<1>1. PICK m \in Nat : m = p + n - 1
  OBVIOUS
<1>2. m <= Len(s) /\ EncodeUnit(UnitOf(SubSeq(s, p, m))) = SubSeq(s, p, m)
  BY <1>1 DEF UnitAt
<1>3. s \o e \in Seq(Byte) /\ Len(s \o e) = Len(s) + Len(e) /\ m <= Len(s \o e)
  BY <1>2
<1>4. SubSeq(s \o e, p, m) = SubSeq(s, p, m)
  BY <1>1, <1>2
<1> QED BY <1>1, <1>2, <1>3, <1>4 DEF UnitAt

LEMMA UnitAppended ==
    ASSUME NEW s \in Seq(Byte), NEW u \in Unit
    PROVE  UnitAt(s \o EncodeUnit(u), Len(s) + 1, Len(EncodeUnit(u)))
<1>1. PICK e \in Seq(Byte) : e = EncodeUnit(u)
  BY UnitFacts
<1>2. UnitOf(e) = u /\ Len(e) \in 1..3
  BY <1>1, UnitFacts
<1>3. PICK m \in Nat : m = Len(s) + 1 + Len(e) - 1 /\ m = Len(s) + Len(e)
  OBVIOUS
<1>4. Len(s \o e) = m
  BY <1>3
<1>5. SubSeq(s \o e, Len(s) + 1, m) = e
  BY <1>3
<1>6. PICK t : t = s \o e
  OBVIOUS
<1>7. PICK n \in 1..3 : n = Len(e)
  BY <1>2
<1>8. Len(s) + 1 + n - 1 = m
  BY <1>3, <1>7
<1>9. UnitAt(t, Len(s) + 1, n) <=> m <= Len(t) /\ EncodeUnit(UnitOf(SubSeq(t, Len(s) + 1, m))) = SubSeq(t, Len(s) + 1, m)
  BY <1>8 DEF UnitAt
<1>10. UnitAt(t, Len(s) + 1, n)
  <2>1. m <= Len(t)
    BY <1>4, <1>6
  <2>2. SubSeq(t, Len(s) + 1, m) = e
    BY <1>5, <1>6
  <2>3. EncodeUnit(UnitOf(e)) = e
    BY <1>1, <1>2
  <2> QED BY <1>9, <2>1, <2>2, <2>3
<1> QED BY <1>1, <1>6, <1>7, <1>10

(* The bytes so far encode the code units that begin at the positions. *)
Encoded(s, i, positions) ==
    /\ s \in Seq(Byte) /\ i = Len(s) + 1
    /\ positions \subseteq 1..Len(s) /\ UnitsUntil(s, i, positions)

LEMMA EncodedUnit ==
    ASSUME NEW s, NEW i, NEW positions, Encoded(s, i, positions), NEW u \in Unit
    PROVE  Encoded(s \o EncodeUnit(u), i + Len(EncodeUnit(u)), positions \union {i})
<1>1. PICK e \in Seq(Byte) : e = EncodeUnit(u)
  BY UnitFacts
<1>2. PICK n \in 1..3 : n = Len(e)
  BY <1>1, UnitFacts
<1>3. /\ s \in Seq(Byte) /\ i = Len(s) + 1 /\ positions \subseteq 1..Len(s)
      /\ i = 1 \/ 1 \in positions
      /\ \A p \in positions : \E k \in 1..3 : UnitAt(s, p, k) /\ p + k \in positions \union {i}
  BY DEF Encoded, UnitsUntil
<1>4. s \o e \in Seq(Byte) /\ Len(s \o e) = Len(s) + n /\ Len(s) \in Nat
  BY <1>2, <1>3
<1>5. positions \union {i} \subseteq 1..Len(s \o e)
  <2>1. i \in 1..(Len(s) + n) /\ 1..Len(s) \subseteq 1..(Len(s) + n)
    BY <1>3, <1>4
  <2> QED BY <1>3, <1>4, <2>1
<1>6. UnitAt(s \o e, i, n)
  BY <1>1, <1>2, <1>3, UnitAppended
<1>7. ASSUME NEW p \in positions \union {i}
      PROVE  \E k \in 1..3 : UnitAt(s \o e, p, k) /\ p + k \in (positions \union {i}) \union {i + n}
  <2>1. CASE p = i
    BY <1>6, <2>1
  <2>2. CASE p \in positions
    <3>1. PICK k \in 1..3 : UnitAt(s, p, k) /\ p + k \in positions \union {i}
      BY <1>3, <2>2
    <3>2. p \in 1..Len(s)
      BY <1>3, <2>2
    <3>3. UnitAt(s \o e, p, k)
      BY <1>3, <3>1, <3>2, UnitKept
    <3> QED BY <3>1, <3>3
  <2> QED BY <2>1, <2>2
<1>8. i + n = 1 \/ 1 \in positions \union {i}
  BY <1>3
<1>9. UnitsUntil(s \o e, i + n, positions \union {i})
  BY <1>7, <1>8 DEF UnitsUntil
<1>10. i + n = Len(s \o e) + 1
  BY <1>3, <1>4
<1> QED BY <1>1, <1>2, <1>4, <1>5, <1>9, <1>10 DEF Encoded

-------------------------------------------------------------------------------
(* Strings: the inductive invariant *)

(* The loop has found code units up to here, and every reading of the bytes comes past here. *)
Scanned ==
    /\ bytes \in Seq(Byte) /\ at \in 1..(Len(bytes) + 1)
    /\ starts \subseteq 1..(at - 1) /\ UnitsUntil(bytes, at, starts)
    /\ \A positions \in Encodings(bytes) : at \in positions \union {Len(bytes) + 1}

StringInv ==
    /\ verdict \in {"scanning", "valid", "invalid", "encoding"}
    /\ verdict = "encoding" => Encoded(bytes, at, starts)
    /\ verdict # "encoding" => Scanned
    /\ verdict = "valid" => at = Len(bytes) + 1
    /\ verdict = "invalid" => at <= Len(bytes) /\ Width(bytes, at) = 0

LEMMA StringInvInit == InitScan \/ InitEncode => StringInv
<1>1. ASSUME InitScan PROVE StringInv
  <2>1. bytes \in Seq(Byte) /\ at = 1 /\ starts = {} /\ verdict = "scanning" /\ Len(bytes) \in Nat
    BY <1>1, CStrsAssumption DEF InitScan, Byte
  <2>2. \A positions \in Encodings(bytes) : 1 \in positions \union {Len(bytes) + 1}
    BY <2>1 DEF Encodings, UnitsUntil
  <2>3. UnitsUntil(bytes, 1, {})
    BY DEF UnitsUntil
  <2> QED BY <2>1, <2>2, <2>3 DEF StringInv, Scanned
<1>2. ASSUME InitEncode PROVE StringInv
  <2>1. Encoded(<<>>, 1, {})
    BY DEF Encoded, UnitsUntil
  <2> QED BY <1>2, <2>1 DEF InitEncode, StringInv
<1> QED BY <1>1, <1>2

LEMMA StringInvScan == StringInv /\ ScanStep => StringInv'
<1> SUFFICES ASSUME StringInv, ScanStep PROVE StringInv'
  OBVIOUS
<1>1. verdict = "scanning" /\ Scanned /\ bytes' = bytes
  BY DEF StringInv, ScanStep
<1>2. /\ bytes \in Seq(Byte) /\ at \in 1..(Len(bytes) + 1) /\ Len(bytes) \in Nat
      /\ starts \subseteq 1..(at - 1) /\ UnitsUntil(bytes, at, starts)
      /\ \A positions \in Encodings(bytes) : at \in positions \union {Len(bytes) + 1}
  BY <1>1 DEF Scanned
<1>3. CASE at <= Len(bytes) /\ Width(bytes, at) > 0
  <2>1. verdict' = "scanning" /\ at' = at + Width(bytes, at) /\ starts' = starts \union {at}
    BY <1>1, <1>3 DEF ScanStep
  <2>2. at \in 1..Len(bytes)
    BY <1>2, <1>3
  <2>3. PICK w \in 1..3 : w = Width(bytes, at)
    BY <1>2, <1>3, <2>2, WidthFacts
  <2>4. UnitAt(bytes, at, w) /\ \A n \in 1..3 : UnitAt(bytes, at, n) => n = w
    BY <1>2, <2>2, <2>3, WidthFacts
  <2>5. at + w <= Len(bytes) + 1
    BY <1>2, <2>4 DEF UnitAt
  <2>6. UnitsUntil(bytes, at + w, starts \union {at})
    BY <1>2, <2>4 DEF UnitsUntil
  <2>7. ASSUME NEW positions \in Encodings(bytes)
        PROVE  at + w \in positions \union {Len(bytes) + 1}
    <3>1. at \in positions
      BY <1>2, <2>2
    <3>2. PICK n \in 1..3 : UnitAt(bytes, at, n) /\ at + n \in positions \union {Len(bytes) + 1}
      BY <3>1 DEF Encodings, UnitsUntil
    <3> QED BY <2>4, <3>2
  <2>8. starts \union {at} \subseteq 1..(at + w - 1) /\ at + w \in 1..(Len(bytes) + 1)
    BY <1>2, <2>5
  <2> QED BY <1>1, <1>2, <2>1, <2>3, <2>6, <2>7, <2>8 DEF StringInv, Scanned
<1>4. CASE ~(at <= Len(bytes) /\ Width(bytes, at) > 0)
  <2>1. /\ verdict' = IF at > Len(bytes) THEN "valid" ELSE "invalid"
        /\ at' = at /\ starts' = starts
    BY <1>4 DEF ScanStep
  <2>2. Scanned'
    BY <1>1, <2>1 DEF Scanned
  <2>3. at > Len(bytes) => at = Len(bytes) + 1
    BY <1>2
  <2>4. ~(at > Len(bytes)) => at <= Len(bytes) /\ Width(bytes, at) = 0
    <3>1. ASSUME ~(at > Len(bytes)) PROVE at \in 1..Len(bytes)
      BY <1>2, <3>1
    <3> QED BY <1>2, <1>4, <3>1, WidthFacts
  <2> QED BY <1>1, <2>1, <2>2, <2>3, <2>4 DEF StringInv
<1> QED BY <1>3, <1>4

LEMMA StringInvEncode ==
    ASSUME StringInv, NEW c \in Chars, EncodeStep(c)
    PROVE  StringInv'
<1>1. verdict = "encoding" /\ verdict' = "encoding" /\ Encoded(bytes, at, starts)
  BY DEF StringInv, EncodeStep
<1>2. c \in Scalar
  BY CharsAssumption DEF Scalar
<1>3. CASE c < 65536
  <2>1. c \in Unit
    BY <1>2, <1>3 DEF Scalar, Unit
  <2>2. /\ bytes' = bytes \o EncodeUnit(c) /\ at' = at + Len(EncodeUnit(c))
        /\ starts' = starts \union {at}
    BY <1>3 DEF EncodeStep, Encode
  <2>3. Encoded(bytes, at, starts)'
    BY <1>1, <2>1, <2>2, EncodedUnit
  <2> QED BY <1>1, <2>3 DEF StringInv
<1>4. CASE ~(c < 65536)
  <2>1. PICK h \in Unit : h = High(c) /\ h >= 2048
    BY <1>2, <1>4, SurrogateFacts DEF Unit
  <2>2. PICK l \in Unit : l = Low(c) /\ l >= 2048
    BY <1>2, <1>4, SurrogateFacts DEF Unit
  <2>3. PICK e \in Seq(Byte) : e = EncodeUnit(h) /\ Len(e) = 3
    BY <2>1, UnitFacts
  <2>4. PICK f \in Seq(Byte) : f = EncodeUnit(l) /\ Len(f) = 3
    BY <2>2, UnitFacts
  <2>5. Encoded(bytes \o EncodeUnit(h), at + Len(EncodeUnit(h)), starts \union {at})
    BY <1>1, EncodedUnit
  <2>6. Encoded(bytes \o e, at + 3, starts \union {at})
    BY <2>3, <2>5
  <2>7. Encoded((bytes \o e) \o EncodeUnit(l), (at + 3) + Len(EncodeUnit(l)), (starts \union {at}) \union {at + 3})
    BY <2>6, EncodedUnit
  <2>8. Encoded((bytes \o e) \o f, (at + 3) + 3, (starts \union {at}) \union {at + 3})
    BY <2>4, <2>7
  <2>9. Encode(c) = e \o f
    BY <1>4, <2>1, <2>2, <2>3, <2>4 DEF Encode
  <2>10. bytes \in Seq(Byte) /\ Len(bytes) \in Nat /\ at = Len(bytes) + 1
    BY <1>1 DEF Encoded
  <2>11. bytes' = (bytes \o e) \o f
    <3>1. bytes' = bytes \o (e \o f)
      BY <2>9 DEF EncodeStep
    <3> QED BY <2>10, <3>1, ConcatAssociative
  <2>12. at' = (at + 3) + 3
    <3>1. at' = at + Len(e \o f)
      BY <2>9 DEF EncodeStep
    <3>2. Len(e \o f) = 6
      <4>1. Len(e) = 3 /\ Len(f) = 3
        BY <2>3, <2>4
      <4>2. Len(e \o f) = Len(e) + Len(f)
        BY ConcatProperties
      <4> QED BY <4>1, <4>2
    <3> QED BY <2>10, <3>1, <3>2
  <2>13. starts' = (starts \union {at}) \union {at + 3}
    BY <1>4 DEF EncodeStep
  <2>14. Encoded(bytes, at, starts)'
    BY <2>8, <2>11, <2>12, <2>13
  <2> QED BY <1>1, <2>14 DEF StringInv
<1> QED BY <1>3, <1>4

(* is_valid_mutf8_cstr keeps to the invariant on any CStrs, and encode_mutf8 on any str. *)
THEOREM StringInvariant == StringSpec => []StringInv
<1>1. InitScan \/ InitEncode => StringInv
  BY StringInvInit
<1>2. StringInv /\ [StringNext]_utfVars => StringInv'
  <2>1. StringInv /\ StringNext => StringInv'
    BY StringInvScan, StringInvEncode DEF StringNext
  <2>2. StringInv /\ UNCHANGED utfVars => StringInv'
    BY DEF utfVars, StringInv, Scanned
  <2> QED BY <2>1, <2>2
<1> QED BY <1>1, <1>2, PTL DEF StringSpec

LEMMA StringInvIsRight == StringInv => StringsRight
<1> SUFFICES ASSUME StringInv PROVE StringsRight
  OBVIOUS
<1>1. ASSUME verdict = "valid" PROVE starts \in Encodings(bytes)
  BY <1>1 DEF StringInv, Scanned, Encodings
<1>2. ASSUME verdict = "invalid" PROVE Encodings(bytes) = {}
  <2>1. /\ bytes \in Seq(Byte) /\ at \in 1..Len(bytes) /\ Len(bytes) \in Nat /\ Width(bytes, at) = 0
        /\ \A positions \in Encodings(bytes) : at \in positions \union {Len(bytes) + 1}
    BY <1>2 DEF StringInv, Scanned
  <2>2. \A n \in 1..3 : ~UnitAt(bytes, at, n)
    BY <2>1, WidthFacts
  <2>3. SUFFICES ASSUME NEW positions \in Encodings(bytes) PROVE FALSE
    OBVIOUS
  <2>4. at \in positions
    BY <2>1
  <2>5. \E n \in 1..3 : UnitAt(bytes, at, n)
    BY <2>4 DEF Encodings, UnitsUntil
  <2> QED BY <2>2, <2>5
<1>3. ASSUME verdict = "encoding"
      PROVE  /\ bytes \in Seq(1..255)
             /\ starts \subseteq 1..Len(bytes) /\ UnitsUntil(bytes, Len(bytes) + 1, starts)
  BY <1>3 DEF StringInv, Encoded, Byte
<1> QED BY <1>1, <1>2, <1>3 DEF StringsRight

(***************************************************************************)
(* JNIStr takes a C string if and only if it is modified UTF-8, and what   *)
(* the macros make of any str, however long, would be taken.               *)
(***************************************************************************)
THEOREM StringsAreRight == StringSpec => []StringsRight
  BY StringInvariant, StringInvIsRight, PTL

(***************************************************************************)
(* Nothing is lost by the encoding: every code unit, NUL and the lone      *)
(* surrogates too, is read back from its bytes, none of which is NUL, and  *)
(* a character above 65535 from its two surrogates.                        *)
(***************************************************************************)
THEOREM CodeUnitsAreReadBack ==
    /\ \A u \in Unit : EncodeUnit(u) \in Seq(Byte) /\ UnitOf(EncodeUnit(u)) = u
    /\ \A c \in Scalar : c >= 65536 =>
          c = 65536 + ((High(c) - 55296) * 1024) + (Low(c) - 56320)
<1>1. \A u \in Unit : EncodeUnit(u) \in Seq(Byte) /\ UnitOf(EncodeUnit(u)) = u
  BY UnitFacts
<1>2. ASSUME NEW c \in Scalar, c >= 65536
      PROVE  c = 65536 + ((High(c) - 55296) * 1024) + (Low(c) - 56320)
  <2>1. ~(c < 65536)
    BY <1>2 DEF Scalar
  <2> QED BY <2>1, SurrogateFacts
<1> QED BY <1>1, <1>2

-------------------------------------------------------------------------------
(* Signatures: the parsers, for any texts.  Two things are kept: what is behind the parser is what
   the arguments say, and no parse of the grammar is anything else. *)

SignatureTypeOK ==
    /\ text \in Seq(Alphabet) /\ parser \in {"method", "field", "macro"}
    /\ doing \in {"start", "args", "return", "field", "accepted", "refused"}
    /\ rest \in Nat /\ typeAt \in Nat /\ object \in Nat /\ slice \in Nat /\ arguments \subseteq Nat

(* The parser reads a slice of the text, forward; the arguments of the macro end at the first ")". *)
SignaturePlaceInv ==
    /\ typeAt >= 1 /\ typeAt <= rest /\ rest <= slice /\ slice <= End
    /\ doing = "start" => rest = 1 /\ typeAt = 1 /\ object = 0 /\ slice = End /\ arguments = {}
    /\ doing \in {"return", "field"} => slice = End
    /\ doing = "args" => typeAt >= 2
    /\ doing = "args" /\ parser = "method" => slice = End
    /\ doing = "args" /\ parser = "macro" => slice \in 1..Len(text) /\ First(text, ")", slice)

IsMethod == parser = "method" \/ (parser = "macro" /\ Opens(text))
IsClass == parser = "macro" /\ Dotted(text)
Reading == doing \in {"args", "return", "field"}

ParserInv ==
    /\ doing \in {"args", "return"} => IsMethod /\ Opens(text) /\ ~IsClass
    /\ doing = "field" => ~IsMethod /\ ~IsClass /\ typeAt = 1 /\ arguments = {}
    /\ doing = "refused" => ~IsClass
    /\ doing = "accepted" /\ IsMethod /\ ~IsClass => Opens(text)

(* The type that is read: brackets, and the name of a class as far as it is read *)
WordInv ==
    Reading =>
        /\ object = 0 => \A k \in typeAt..rest - 1 : text[k] = "["
        /\ object > 0 =>
              /\ parser # "macro" /\ typeAt <= object /\ object < rest /\ text[object] = "L"
              /\ \A k \in typeAt..object - 1 : text[k] = "["
              /\ \A k \in object + 1..rest - 1 : text[k] \notin {".", Semicolon, "["}
              /\ object + 1 < rest => text[object + 1] # "/"
              /\ \A k \in object + 1..rest - 2 : ~(text[k] = "/" /\ text[k + 1] = "/")

(* What the macro takes for a type: any name without a ";", and void but in an array *)
RawType(s, i, j) ==
    \E k \in i..j - 1 :
        /\ \A b \in i..k - 1 : s[b] = "["
        /\ \/ s[k] = "I" /\ j = k + 1
           \/ s[k] = "V" /\ j = k + 1 /\ k = i
           \/ /\ s[k] = "L" /\ s[j - 1] = Semicolon /\ Segmented(s, k + 1, j - 1)
              /\ \A m \in k..j - 2 : s[m] # Semicolon

(* Behind the parser, types follow each other, and their beginnings are the arguments. *)
TypeRead(i, j) == IF parser = "macro" THEN RawType(text, i, j) ELSE IsDescriptor(text, i, j)
ArgumentsRead(j) ==
    /\ j = 2 \/ 2 \in arguments
    /\ \A p \in arguments :
          /\ p \in 2..j - 1
          /\ \E q \in arguments \union {j} :
                p < q /\ TypeRead(p, q) /\ \A r \in arguments : r <= p \/ q <= r
TakenInv ==
    /\ doing = "args" => ArgumentsRead(typeAt)
    /\ doing = "return" \/ (doing = "accepted" /\ IsMethod /\ ~IsClass) =>
          typeAt >= 3 /\ text[typeAt - 1] = ")" /\ ArgumentsRead(typeAt - 1)
    /\ doing = "accepted" /\ IsMethod /\ ~IsClass =>
          (text[typeAt] = "V" /\ typeAt = Len(text)) \/ TypeRead(typeAt, End)
    /\ doing = "accepted" /\ ~IsMethod /\ ~IsClass =>
          arguments = {} /\ typeAt = 1 /\ TypeRead(1, End) /\ text[1] # "V"

(* Any parse of the grammar has begun with the arguments that are read, and goes on where the
   parser is, unless a name with a ")" has led the macro astray. *)
GrammarInv ==
    /\ IsMethod => \A x \in MethodParses(text) :
          /\ doing = "args" => typeAt \in x[1] \union {x[2] - 1} /\ arguments = {p \in x[1] : p < typeAt}
          /\ doing \in {"return", "accepted"} /\ ~IsClass => x = <<arguments, typeAt>>
          /\ doing = "refused" => parser = "macro" /\ InName(text, ")")
    /\ ~IsMethod /\ doing = "refused" => ~IsDescriptor(text, 1, End)
SignatureInv ==
    SignatureTypeOK /\ SignaturePlaceInv /\ ParserInv /\ WordInv /\ TakenInv /\ GrammarInv

(* The character that ends the name of a class is no other. *)
LEMMA Semicolons == Semicolon \notin {".", "[", "/", "I", "V", "L", "(", ")"}
  BY Zenon DEF Semicolon

(* A descriptor goes on behind its brackets with a type or the name of a class. *)
LEMMA DescriptorWord ==
    ASSUME NEW s, NEW i \in Nat, NEW m \in Nat, NEW j \in Nat,
           i <= m, \A k \in i..m - 1 : s[k] = "[", IsDescriptor(s, i, j)
    PROVE  /\ j > m
           /\ \/ s[m] = "["
              \/ s[m] = "I" /\ j = m + 1
              \/ s[m] = "L" /\ s[j - 1] = Semicolon /\ IsClassName(s, m + 1, j - 1)
<1>1. PICK k \in i..j - 1 :
        /\ \A b \in i..k - 1 : s[b] = "["
        /\ \/ s[k] = "I" /\ j = k + 1
           \/ s[k] = "L" /\ s[j - 1] = Semicolon /\ IsClassName(s, k + 1, j - 1)
  BY DEF IsDescriptor
<1>2. k >= m
  <2>1. SUFFICES ASSUME k < m PROVE FALSE
    BY <1>1
  <2>2. k \in i..m - 1
    BY <1>1, <2>1
  <2>. QED BY <1>1, <2>2
<1>3. CASE k = m
  BY <1>1, <1>3
<1>4. CASE k > m
  <2>1. m \in i..k - 1
    BY <1>1, <1>4
  <2>. QED BY <1>1, <1>4, <2>1
<1>. QED BY <1>1, <1>2, <1>3, <1>4

(* The name of a class ends at the first ";" and has no empty segment. *)
LEMMA ClassNameEnd ==
    ASSUME NEW s, NEW a \in Nat, NEW b \in Nat, NEW e \in Nat,
           IsClassName(s, a, b), s[b] = Semicolon, a <= e, \A k \in a..e - 1 : s[k] # Semicolon
    PROVE  /\ a < b /\ e <= b /\ Segmented(s, a, b)
           /\ s[e] = Semicolon => b = e
           /\ e < b => s[e] \notin {".", Semicolon, "["}
           /\ e < b /\ s[e] = "/" => e # a /\ s[e - 1] # "/"
           /\ e = b => s[e] = Semicolon /\ a < e /\ s[e - 1] # "/"
<1>1. a < b /\ s[a] # "/" /\ s[b - 1] # "/" /\ Segmented(s, a, b)
  BY DEF IsClassName, Segmented
<1>2. \A k \in a..b - 2 : ~(s[k] = "/" /\ s[k + 1] = "/")
  BY DEF IsClassName, Segmented
<1>3. \A k \in a..b - 1 : s[k] \notin {".", Semicolon, "["}
  BY DEF IsClassName
<1>4. e <= b
  <2>1. CASE b < e
    <3>1. b \in a..e - 1
      BY <1>1, <2>1
    <3>. QED BY <3>1
  <2>. QED BY <2>1
<1>5. e < b => s[e] \notin {".", Semicolon, "["}
  BY <1>3
<1>6. ASSUME e < b, s[e] = "/" PROVE e # a /\ s[e - 1] # "/"
  <2>1. e # a
    BY <1>1, <1>6
  <2>2. e - 1 \in a..b - 2 /\ (e - 1) + 1 = e
    BY <1>6, <2>1
  <2>. QED BY <1>2, <1>6, <2>1, <2>2
<1>. QED BY <1>1, <1>4, <1>5, <1>6

(* What is said of the text, and of the parser, stays true while they stay. *)
LEMMA TextKept ==
    ASSUME text' = text, parser' = parser
    PROVE  /\ IsMethod' <=> IsMethod
           /\ IsClass' <=> IsClass
           /\ End' = End
           /\ \A i, j : TypeRead(i, j)' <=> TypeRead(i, j)
  BY DEF TypeRead, IsMethod, IsClass, End

(* No descriptor begins with void, or behind the end of the text. *)
LEMMA VoidWord ==
    ASSUME NEW s, NEW i \in Nat, NEW j \in Nat, s[i] \notin {"[", "I", "L"}
    PROVE  ~IsDescriptor(s, i, j)
<1>1. i <= i /\ \A k \in i..i - 1 : s[k] = "["
  OBVIOUS
<1>. QED BY <1>1, DescriptorWord

(* How a parse of the grammar is made up *)
LEMMA ParseParts ==
    ASSUME NEW s, NEW x \in MethodParses(s)
    PROVE  /\ x = <<x[1], x[2]>> /\ x[1] \subseteq Nat /\ x[2] \in 3..Len(s) /\ s[x[2] - 1] = ")"
           /\ (s[x[2]] = "V" /\ x[2] = Len(s)) \/ IsDescriptor(s, x[2], Len(s) + 1)
           /\ 2 = x[2] - 1 \/ 2 \in x[1]
           /\ \A p \in x[1] :
                 /\ p \in 2..x[2] - 2
                 /\ \E q \in x[1] \union {x[2] - 1} :
                       p < q /\ IsDescriptor(s, p, q) /\ \A r \in x[1] : r <= p \/ q <= r
<1>1. /\ x \in (SUBSET Descriptors(s)) \X ReturnTypes(s)
      /\ DescriptorsUntil(s, x[1], 2, x[2] - 1)
  BY DEF MethodParses
<1>2. x = <<x[1], x[2]>> /\ x[1] \subseteq Descriptors(s) /\ x[2] \in ReturnTypes(s)
  BY <1>1
<1>3. x[1] \subseteq Nat /\ \A p \in x[1] : p >= 2
  BY <1>2 DEF Descriptors
<1>4. /\ x[2] \in 3..Len(s) /\ s[x[2] - 1] = ")"
      /\ (s[x[2]] = "V" /\ x[2] = Len(s)) \/ IsDescriptor(s, x[2], Len(s) + 1)
  BY <1>2 DEF ReturnTypes
<1>5. \A p \in x[1] : p \in 2..x[2] - 2
  BY <1>1, <1>3, <1>4 DEF DescriptorsUntil
<1>. QED BY <1>1, <1>2, <1>3, <1>4, <1>5 DEF DescriptorsUntil

(* A type that ends where any descriptor that begins there would *)
LEMMA TypeEndsKeeps ==
    ASSUME SignatureInv, Reading, NEW e \in Nat, rest < e, e <= slice, TypeEnds(e),
           TypeRead(typeAt, e) \/ (doing = "return" /\ text[typeAt] = "V" /\ e = typeAt + 1),
           text[typeAt] # ")", text[typeAt] = "V" => e = typeAt + 1,
           \A q \in Nat : IsDescriptor(text, typeAt, q) => q = e
    PROVE  SignatureInv'
<1>. USE DEF Reading
<1>1. /\ text' = text /\ parser' = parser /\ slice' = slice /\ rest' = e /\ object' = 0
  BY DEF TypeEnds
<1>2. /\ IsMethod' <=> IsMethod
      /\ IsClass' <=> IsClass
      /\ End' = End
      /\ \A i, j : TypeRead(i, j)' <=> TypeRead(i, j)
  BY <1>1, TextKept
<1>3. /\ text \in Seq(Alphabet) /\ parser \in {"method", "field", "macro"} /\ Len(text) \in Nat
      /\ rest \in Nat /\ typeAt \in Nat /\ object \in Nat /\ slice \in Nat /\ arguments \subseteq Nat
      /\ 1 <= typeAt /\ typeAt <= rest /\ rest <= slice /\ slice <= End /\ End = Len(text) + 1
      /\ typeAt < e
  BY DEF SignatureInv, SignatureTypeOK, SignaturePlaceInv, End
<1>4. CASE doing = "args"
  <2>1. doing' = doing /\ typeAt' = e /\ arguments' = arguments \union {typeAt}
    BY <1>4 DEF TypeEnds
  <2>2. SignatureTypeOK'
    BY <1>1, <1>3, <1>4, <2>1 DEF SignatureTypeOK
  <2>3. SignaturePlaceInv'
    <3>1. /\ typeAt >= 2
          /\ parser = "method" => slice = End
          /\ parser = "macro" => slice \in 1..Len(text) /\ First(text, ")", slice)
      BY <1>4 DEF SignatureInv, SignaturePlaceInv
    <3>2. typeAt' >= 1 /\ typeAt' <= rest' /\ rest' <= slice' /\ slice' <= End' /\ typeAt' >= 2
      BY <1>1, <1>2, <1>3, <2>1, <3>1
    <3>3. parser' = "method" => slice' = End'
      BY <1>1, <1>2, <3>1
    <3>4. parser' = "macro" => slice' \in 1..Len(text') /\ First(text', ")", slice')
      BY <1>1, <3>1
    <3>5. doing' = "args"
      BY <1>4, <2>1
    <3>. QED BY <3>2, <3>3, <3>4, <3>5 DEF SignaturePlaceInv
  <2>4. IsMethod /\ Opens(text) /\ ~IsClass
    BY <1>4 DEF SignatureInv, ParserInv
  <2>5. ParserInv'
    BY <1>1, <1>2, <1>4, <2>1, <2>4 DEF ParserInv
  <2>6. WordInv'
    BY <1>1, <1>3, <2>1 DEF WordInv
  <2>7. TakenInv'
    <3>1. ArgumentsRead(typeAt)
      BY <1>4 DEF SignatureInv, TakenInv
    <3>2. TypeRead(typeAt, e)
      BY <1>4
    <3>3. typeAt = 2 \/ 2 \in arguments
      BY <3>1 DEF ArgumentsRead
    <3>4. ASSUME NEW p \in arguments \union {typeAt}
          PROVE  /\ p \in 2..e - 1
                 /\ \E q \in arguments \union {typeAt} \union {e} :
                       p < q /\ TypeRead(p, q) /\ \A r \in arguments \union {typeAt} : r <= p \/ q <= r
      <4>1. \A r \in arguments : r \in 2..typeAt - 1
        BY <3>1 DEF ArgumentsRead
      <4>2. CASE p \in arguments
        <5>1. PICK q \in arguments \union {typeAt} :
                p < q /\ TypeRead(p, q) /\ \A r \in arguments : r <= p \/ q <= r
          BY <3>1, <4>2 DEF ArgumentsRead
        <5>2. q <= typeAt
          BY <1>3, <4>1, <5>1
        <5>. QED BY <1>3, <4>1, <4>2, <5>1, <5>2
      <4>3. CASE p = typeAt
        <5>1. typeAt >= 2
          BY <1>4 DEF SignatureInv, SignaturePlaceInv
        <5>2. \A r \in arguments \union {typeAt} : r <= p
          BY <1>3, <4>1, <4>3
        <5>. QED BY <1>3, <3>2, <4>3, <5>1, <5>2
      <4>. QED BY <4>2, <4>3
    <3>5. ArgumentsRead(e)'
      BY <1>2, <2>1, <3>3, <3>4 DEF ArgumentsRead
    <3>. QED BY <1>4, <2>1, <3>5 DEF TakenInv
  <2>8. GrammarInv'
    <3>1. ASSUME NEW x \in MethodParses(text)
          PROVE  e \in x[1] \union {x[2] - 1} /\ arguments \union {typeAt} = {p \in x[1] : p < e}
      <4>1. typeAt \in x[1] \union {x[2] - 1} /\ arguments = {p \in x[1] : p < typeAt}
        BY <1>4, <2>4 DEF SignatureInv, GrammarInv
      <4>3. typeAt \in x[1]
        BY <4>1, ParseParts
      <4>4. PICK q \in x[1] \union {x[2] - 1} :
              typeAt < q /\ IsDescriptor(text, typeAt, q) /\ \A r \in x[1] : r <= typeAt \/ q <= r
        BY <4>3, ParseParts
      <4>5. x[1] \subseteq Nat /\ x[2] \in 3..Len(text)
        BY ParseParts
      <4>6. q = e
        BY <4>4, <4>5
      <4>. QED BY <1>3, <4>1, <4>3, <4>4, <4>5, <4>6
    <3>. QED BY <1>1, <1>2, <1>4, <2>1, <2>4, <3>1 DEF GrammarInv
  <2>. QED BY <2>2, <2>3, <2>5, <2>6, <2>7, <2>8 DEF SignatureInv
<1>5. CASE doing \in {"return", "field"}
  <2>1. /\ typeAt' = typeAt /\ arguments' = arguments
        /\ doing' = IF e # End \/ (parser = "macro" /\ doing = "field" /\ text[typeAt] = "V")
                    THEN "refused" ELSE "accepted"
    BY <1>5 DEF TypeEnds
  <2>2. SignatureTypeOK'
    BY <1>1, <1>3, <2>1 DEF SignatureTypeOK
  <2>3. SignaturePlaceInv'
    BY <1>1, <1>2, <1>3, <2>1 DEF SignaturePlaceInv
  <2>4. ~IsClass /\ (IsMethod => Opens(text))
    BY <1>5 DEF SignatureInv, ParserInv
  <2>5. ParserInv'
    BY <1>1, <1>2, <2>1, <2>4 DEF ParserInv
  <2>6. WordInv'
    BY <2>1 DEF WordInv
  <2>7. CASE doing = "return"
    <3>1. IsMethod
      BY <2>7 DEF SignatureInv, ParserInv
    <3>2. typeAt >= 3 /\ text[typeAt - 1] = ")" /\ ArgumentsRead(typeAt - 1)
      BY <2>7 DEF SignatureInv, TakenInv
    <3>3. ArgumentsRead(typeAt - 1)'
      BY <1>2, <2>1, <3>2 DEF ArgumentsRead
    <3>4. doing' = "accepted" => e = End
      BY <2>1
    <3>5. doing' = "accepted" => (text[typeAt] = "V" /\ typeAt = Len(text)) \/ TypeRead(typeAt, End)
      BY <1>3, <2>7, <3>4
    <3>6. TakenInv'
      BY <1>1, <1>2, <2>1, <3>1, <3>2, <3>3, <3>5 DEF TakenInv
    <3>7. ASSUME NEW x \in MethodParses(text)
          PROVE  x = <<arguments, typeAt>> /\ doing' # "refused"
      <4>1. x = <<arguments, typeAt>>
        BY <2>4, <2>7, <3>1 DEF SignatureInv, GrammarInv
      <4>2. (text[typeAt] = "V" /\ typeAt = Len(text)) \/ IsDescriptor(text, typeAt, Len(text) + 1)
        BY <4>1, ParseParts
      <4>3. e = End
        BY <1>3, <4>2
      <4>. QED BY <2>1, <2>7, <4>1, <4>3
    <3>8. GrammarInv'
      BY <1>1, <1>2, <2>1, <3>1, <3>7 DEF GrammarInv
    <3>. QED BY <2>2, <2>3, <2>5, <2>6, <3>6, <3>8 DEF SignatureInv
  <2>8. CASE doing = "field"
    <3>1. ~IsMethod /\ typeAt = 1 /\ arguments = {}
      BY <2>8 DEF SignatureInv, ParserInv
    <3>2. TypeRead(typeAt, e)
      BY <2>8
    <3>3. doing' = "accepted" => e = End /\ text[1] # "V"
      <4>1. parser # "macro" => text[1] # "V"
        <5>1. parser # "macro" => IsDescriptor(text, 1, e)
          BY <3>1, <3>2 DEF TypeRead
        <5>. QED BY <5>1, VoidWord
      <4>. QED BY <2>1, <2>8, <3>1, <4>1
    <3>4. doing' = "accepted" => TypeRead(1, End)
      BY <3>1, <3>2, <3>3
    <3>5. TakenInv'
      BY <1>1, <1>2, <2>1, <3>1, <3>3, <3>4 DEF TakenInv
    <3>6. doing' = "refused" => ~IsDescriptor(text, 1, End)
      <4>1. text[1] = "V" => ~IsDescriptor(text, 1, End)
        BY <1>3, VoidWord
      <4>2. e # End => ~IsDescriptor(text, 1, End)
        BY <1>3, <3>1
      <4>. QED BY <2>1, <3>1, <4>1, <4>2
    <3>7. GrammarInv'
      BY <1>1, <1>2, <3>1, <3>6 DEF GrammarInv
    <3>. QED BY <2>2, <2>3, <2>5, <2>6, <3>5, <3>7 DEF SignatureInv
  <2>. QED BY <1>5, <2>7, <2>8
<1>. QED BY <1>4, <1>5

(* A character of a descriptor that is none of its own is in the name of a class. *)
LEMMA DescriptorName ==
    ASSUME NEW s, NEW i \in Nat, NEW j \in Nat, NEW c \in i..j - 1, Len(s) \in Nat,
           i >= 1, j <= Len(s) + 1, IsDescriptor(s, i, j), s[c] = ")"
    PROVE  InName(s, ")")
<1>1. PICK k \in i..j - 1 :
        /\ \A b \in i..k - 1 : s[b] = "["
        /\ \/ s[k] = "I" /\ j = k + 1
           \/ s[k] = "L" /\ s[j - 1] = Semicolon /\ IsClassName(s, k + 1, j - 1)
  BY DEF IsDescriptor
<1>2. c > k
  <2>1. CASE c < k
    BY <1>1, <2>1
  <2>. QED BY <1>1, <2>1
<1>3. s[k] = "L" /\ s[j - 1] = Semicolon /\ IsClassName(s, k + 1, j - 1)
  BY <1>1, <1>2
<1>4. c # j - 1
  BY <1>3, Semicolons
<1>5. \A b \in k + 1..j - 2 : s[b] # Semicolon
  BY <1>3 DEF IsClassName
<1>6. \A b \in k..c : s[b] # Semicolon
  <2>1. s[k] # Semicolon
    BY <1>3, Semicolons
  <2>2. ASSUME NEW b \in k..c PROVE b = k \/ b \in k + 1..j - 2
    BY <1>1, <1>2, <1>4
  <2>. QED BY <1>5, <2>1, <2>2
<1>7. k \in 1..Len(s) /\ c \in 1..Len(s) /\ k < c
  BY <1>1, <1>2
<1>. QED BY <1>3, <1>6, <1>7 DEF InName

(* A refusal, where no descriptor begins that the parser could see *)
LEMMA RefuseKeeps ==
    ASSUME SignatureInv, Reading, Refuse,
           \A q \in Nat : q <= slice => ~IsDescriptor(text, typeAt, q),
           doing = "args" => ~(typeAt <= Len(text) /\ text[typeAt] = ")"),
           doing = "return" => ~(text[typeAt] = "V" /\ typeAt = Len(text))
    PROVE  SignatureInv'
<1>. USE DEF Reading
<1>1. /\ text' = text /\ parser' = parser /\ slice' = slice /\ rest' = rest /\ object' = object
      /\ typeAt' = typeAt /\ arguments' = arguments /\ doing' = "refused"
  BY DEF Refuse
<1>2. /\ IsMethod' <=> IsMethod
      /\ IsClass' <=> IsClass
      /\ End' = End
  BY <1>1, TextKept
<1>3. /\ text \in Seq(Alphabet) /\ parser \in {"method", "field", "macro"} /\ Len(text) \in Nat
      /\ rest \in Nat /\ typeAt \in Nat /\ object \in Nat /\ slice \in Nat /\ arguments \subseteq Nat
      /\ 1 <= typeAt /\ typeAt <= rest /\ rest <= slice /\ slice <= End /\ End = Len(text) + 1
  BY DEF SignatureInv, SignatureTypeOK, SignaturePlaceInv, End
<1>4. SignatureTypeOK'
  BY <1>1, <1>3 DEF SignatureTypeOK
<1>5. SignaturePlaceInv'
  BY <1>1, <1>2, <1>3 DEF SignaturePlaceInv
<1>6. ~IsClass
  BY DEF SignatureInv, ParserInv
<1>7. ParserInv' /\ WordInv' /\ TakenInv'
  BY <1>1, <1>2, <1>6 DEF ParserInv, WordInv, TakenInv
<1>8. GrammarInv'
  <2>1. CASE doing = "args"
    <3>1. IsMethod
      BY <2>1 DEF SignatureInv, ParserInv
    <3>2. ASSUME NEW x \in MethodParses(text) PROVE parser = "macro" /\ InName(text, ")")
      <4>1. typeAt \in x[1] \union {x[2] - 1}
        BY <2>1, <3>1 DEF SignatureInv, GrammarInv
      <4>2. typeAt \in x[1]
        <5>1. x[2] \in 3..Len(text) /\ text[x[2] - 1] = ")"
          BY ParseParts
        <5>2. typeAt = x[2] - 1 => typeAt <= Len(text) /\ text[typeAt] = ")"
          BY <1>3, <5>1
        <5>. QED BY <2>1, <4>1, <5>2
      <4>3. PICK q \in x[1] \union {x[2] - 1} : typeAt < q /\ IsDescriptor(text, typeAt, q)
        BY <4>2, ParseParts
      <4>4. x[1] \subseteq Nat /\ x[2] \in 3..Len(text) /\ \A p \in x[1] : p \in 2..x[2] - 2
        BY ParseParts
      <4>5. q \in Nat /\ q <= Len(text)
        BY <1>3, <4>4
      <4>6. q > slice
        BY <1>3, <4>3, <4>5
      <4>7. parser = "macro"
        <5>1. slice # End
          BY <1>3, <4>5, <4>6
        <5>. QED BY <2>1, <3>1, <5>1 DEF SignatureInv, SignaturePlaceInv, IsMethod
      <4>8. text[slice] = ")"
        BY <2>1, <4>7 DEF SignatureInv, SignaturePlaceInv, First
      <4>9. slice \in typeAt..q - 1
        BY <1>3, <4>5, <4>6
      <4>10. InName(text, ")")
        <5>1. /\ typeAt \in Nat /\ q \in Nat /\ Len(text) \in Nat
              /\ typeAt >= 1 /\ q <= Len(text) + 1
          BY <1>3, <4>5
        <5>. QED BY <4>3, <4>8, <4>9, <5>1, DescriptorName
      <4>. QED BY <4>7, <4>10
    <3>. QED BY <1>1, <1>2, <3>1, <3>2 DEF GrammarInv
  <2>2. CASE doing = "return"
    <3>1. IsMethod /\ slice = End
      BY <2>2 DEF SignatureInv, ParserInv, SignaturePlaceInv
    <3>2. ASSUME NEW x \in MethodParses(text) PROVE FALSE
      <4>1. x = <<arguments, typeAt>>
        BY <1>6, <2>2, <3>1 DEF SignatureInv, GrammarInv
      <4>2. (text[typeAt] = "V" /\ typeAt = Len(text)) \/ IsDescriptor(text, typeAt, Len(text) + 1)
        BY <4>1, ParseParts
      <4>. QED BY <1>3, <2>2, <3>1, <4>2
    <3>. QED BY <1>1, <1>2, <3>1, <3>2 DEF GrammarInv
  <2>3. CASE doing = "field"
    <3>1. ~IsMethod /\ typeAt = 1 /\ slice = End
      BY <2>3 DEF SignatureInv, ParserInv, SignaturePlaceInv
    <3>. QED BY <1>1, <1>2, <1>3, <3>1 DEF GrammarInv
  <2>. QED BY <2>1, <2>2, <2>3
<1>. QED BY <1>4, <1>5, <1>7, <1>8 DEF SignatureInv

(* One more character of the type is read. *)
LEMMA ReadOnKeeps ==
    ASSUME SignatureInv, Reading, rest < slice, rest' = rest + 1, object' \in Nat,
           UNCHANGED <<text, parser, doing, typeAt, slice, arguments>>, WordInv'
    PROVE  SignatureInv'
<1>. USE DEF Reading
<1>1. /\ text' = text /\ parser' = parser /\ doing' = doing /\ slice' = slice /\ typeAt' = typeAt
      /\ arguments' = arguments
  OBVIOUS
<1>2. /\ IsMethod' <=> IsMethod
      /\ IsClass' <=> IsClass
      /\ End' = End
      /\ \A i, j : TypeRead(i, j)' <=> TypeRead(i, j)
  BY <1>1, TextKept
<1>3. SignatureTypeOK'
  BY <1>1 DEF SignatureInv, SignatureTypeOK
<1>4. SignaturePlaceInv'
  <2>1. /\ typeAt >= 1 /\ typeAt <= rest /\ rest <= slice /\ slice <= End /\ rest \in Nat
        /\ typeAt \in Nat /\ slice \in Nat
    BY DEF SignatureInv, SignatureTypeOK, SignaturePlaceInv
  <2>2. typeAt' >= 1 /\ typeAt' <= rest' /\ rest' <= slice' /\ slice' <= End'
    BY <1>1, <1>2, <2>1
  <2>3. /\ doing' \in {"return", "field"} => slice' = End'
        /\ doing' = "args" => typeAt' >= 2
        /\ doing' = "args" /\ parser' = "method" => slice' = End'
    BY <1>1, <1>2 DEF SignatureInv, SignaturePlaceInv
  <2>4. doing' = "args" /\ parser' = "macro" => slice' \in 1..Len(text') /\ First(text', ")", slice')
    <3>1. doing = "args" /\ parser = "macro" => slice \in 1..Len(text) /\ First(text, ")", slice)
      BY DEF SignatureInv, SignaturePlaceInv
    <3>. QED BY <1>1, <3>1
  <2>5. doing' # "start"
    BY <1>1
  <2>. QED BY <2>2, <2>3, <2>4, <2>5 DEF SignaturePlaceInv
<1>5. ParserInv'
  BY <1>1, <1>2 DEF SignatureInv, ParserInv
<1>6. TakenInv'
  <2>1. /\ ArgumentsRead(typeAt)' <=> ArgumentsRead(typeAt)
        /\ ArgumentsRead(typeAt - 1)' <=> ArgumentsRead(typeAt - 1)
    BY <1>1, <1>2 DEF ArgumentsRead
  <2>. QED BY <1>1, <2>1 DEF SignatureInv, TakenInv
<1>7. GrammarInv'
  BY <1>1, <1>2 DEF SignatureInv, GrammarInv
<1>. QED BY <1>3, <1>4, <1>5, <1>6, <1>7 DEF SignatureInv

(* The places are in order. *)
LEMMA SignatureFacts ==
    ASSUME SignatureInv
    PROVE  /\ text \in Seq(Alphabet) /\ parser \in {"method", "field", "macro"} /\ Len(text) \in Nat
           /\ rest \in Nat /\ typeAt \in Nat /\ object \in Nat /\ slice \in Nat /\ arguments \subseteq Nat
           /\ 1 <= typeAt /\ typeAt <= rest /\ rest <= slice /\ slice <= End /\ End = Len(text) + 1
  BY DEF SignatureInv, SignatureTypeOK, SignaturePlaceInv, End

-------------------------------------------------------------------------------
(* Signatures: every action keeps the invariant. *)

LEMMA BeginMethodKeeps == SignatureInv /\ BeginMethod => SignatureInv'
<1>. SUFFICES ASSUME SignatureInv, BeginMethod PROVE SignatureInv'
  OBVIOUS
<1>1. /\ text' = text /\ parser' = parser /\ doing' = "args" /\ rest' = 2 /\ typeAt' = 2
      /\ object' = object /\ arguments' = arguments
  BY DEF BeginMethod
<1>2. /\ IsMethod' <=> IsMethod
      /\ IsClass' <=> IsClass
      /\ End' = End
  BY <1>1, TextKept
<1>3. /\ Len(text) \in Nat /\ text \in Seq(Alphabet) /\ parser \in {"method", "field", "macro"}
      /\ End = Len(text) + 1
  BY SignatureFacts
<1>4. doing = "start" /\ object = 0 /\ slice = End /\ arguments = {}
  BY DEF BeginMethod, SignatureInv, SignaturePlaceInv
<1>5. Opens(text) /\ Len(text) >= 1 /\ text[1] = "("
  BY <1>3 DEF BeginMethod, Opens
<1>6. /\ parser = "method" => slice' = End
      /\ parser = "macro" => slice' \in 1..Len(text) /\ First(text, ")", slice')
  BY <1>4 DEF BeginMethod
<1>7. IsMethod /\ ~IsClass
  BY <1>5 DEF BeginMethod, IsMethod, IsClass
<1>8. slice' \in Nat /\ 2 <= slice' /\ slice' <= End
  <2>1. CASE parser = "method"
    BY <1>3, <1>5, <1>6, <2>1
  <2>2. CASE parser = "macro"
    <3>1. slice' \in 1..Len(text) /\ text[slice'] = ")"
      BY <1>6, <2>2 DEF First
    <3>. QED BY <1>3, <1>5, <3>1
  <2>. QED BY <1>7, <2>1, <2>2 DEF IsMethod
<1>9. SignatureTypeOK'
  BY <1>1, <1>3, <1>4, <1>8 DEF SignatureTypeOK
<1>10. SignaturePlaceInv'
  <2>1. parser' = "method" => slice' = End'
    BY <1>1, <1>2, <1>6
  <2>2. parser' = "macro" => slice' \in 1..Len(text') /\ First(text', ")", slice')
    BY <1>1, <1>6
  <2>3. typeAt' >= 2 /\ typeAt' <= rest' /\ rest' <= slice' /\ slice' <= End'
    BY <1>1, <1>2, <1>8
  <2>4. typeAt' >= 1
    BY <1>1
  <2>. QED BY <1>1, <2>1, <2>2, <2>3, <2>4 DEF SignaturePlaceInv
<1>11. ParserInv'
  BY <1>1, <1>2, <1>5, <1>7 DEF ParserInv
<1>12. WordInv'
  BY <1>1, <1>4 DEF WordInv
<1>13. TakenInv'
  BY <1>1, <1>4 DEF TakenInv, ArgumentsRead
<1>14. GrammarInv'
  <2>1. ASSUME NEW x \in MethodParses(text)
        PROVE  2 \in x[1] \union {x[2] - 1} /\ {} = {p \in x[1] : p < 2}
    <3>1. /\ x[2] \in 3..Len(text)
          /\ 2 = x[2] - 1 \/ 2 \in x[1]
          /\ \A p \in x[1] : p \in 2..x[2] - 2
      BY ParseParts
    <3>. QED BY <3>1
  <2>. QED BY <1>1, <1>2, <1>4, <1>7, <2>1 DEF GrammarInv
<1>. QED BY <1>9, <1>10, <1>11, <1>12, <1>13, <1>14 DEF SignatureInv

(* A step from the start that only decides what is done *)
LEMMA StartKeeps ==
    ASSUME SignatureInv, doing = "start", doing' \in {"field", "accepted", "refused"},
           UNCHANGED <<text, parser, rest, typeAt, object, slice, arguments>>,
           doing' = "field" => ~IsMethod /\ ~IsClass,
           doing' = "accepted" => IsClass,
           doing' = "refused" => ~IsClass /\ IsMethod /\ MethodParses(text) = {}
    PROVE  SignatureInv'
<1>1. /\ text' = text /\ parser' = parser /\ slice' = slice /\ rest' = rest /\ object' = object
      /\ typeAt' = typeAt /\ arguments' = arguments
  OBVIOUS
<1>2. /\ IsMethod' <=> IsMethod
      /\ IsClass' <=> IsClass
      /\ End' = End
  BY <1>1, TextKept
<1>3. rest = 1 /\ typeAt = 1 /\ object = 0 /\ slice = End /\ arguments = {}
  BY DEF SignatureInv, SignaturePlaceInv
<1>4. SignatureTypeOK'
  BY <1>1 DEF SignatureInv, SignatureTypeOK
<1>5. SignaturePlaceInv'
  BY <1>1, <1>2, <1>3, SignatureFacts DEF SignaturePlaceInv
<1>6. ParserInv'
  BY <1>1, <1>2, <1>3 DEF ParserInv
<1>7. WordInv'
  BY <1>1, <1>3 DEF WordInv
<1>8. TakenInv'
  BY <1>1, <1>2 DEF TakenInv
<1>9. GrammarInv'
  BY <1>1, <1>2 DEF GrammarInv
<1>. QED BY <1>4, <1>5, <1>6, <1>7, <1>8, <1>9 DEF SignatureInv

LEMMA BeginFieldKeeps == SignatureInv /\ BeginField => SignatureInv'
<1>. SUFFICES ASSUME SignatureInv, BeginField PROVE SignatureInv'
  OBVIOUS
<1>1. /\ doing = "start" /\ doing' = "field"
      /\ UNCHANGED <<text, parser, rest, typeAt, object, slice, arguments>>
      /\ ~IsMethod /\ ~IsClass
  BY DEF BeginField, IsMethod, IsClass
<1>. QED BY <1>1, StartKeeps

LEMMA TakeClassKeeps == SignatureInv /\ TakeClass => SignatureInv'
<1>. SUFFICES ASSUME SignatureInv, TakeClass PROVE SignatureInv'
  OBVIOUS
<1>1. /\ doing = "start" /\ doing' = "accepted" /\ IsClass
      /\ UNCHANGED <<text, parser, rest, typeAt, object, slice, arguments>>
  BY DEF TakeClass, IsClass
<1>. QED BY <1>1, StartKeeps

LEMMA NoParenthesesKeeps == SignatureInv /\ NoParentheses => SignatureInv'
<1>. SUFFICES ASSUME SignatureInv, NoParentheses PROVE SignatureInv'
  OBVIOUS
<1>1. /\ doing = "start" /\ doing' = "refused"
      /\ UNCHANGED <<text, parser, rest, typeAt, object, slice, arguments>>
      /\ IsMethod /\ ~IsClass
  BY DEF NoParentheses, Refuse, IsMethod, IsClass
<1>2. ASSUME NEW x \in MethodParses(text) PROVE FALSE
  <2>1. Opens(text)
    BY DEF MethodParses
  <2>2. Len(text) \in Nat /\ x[2] \in 3..Len(text) /\ text[x[2] - 1] = ")"
    BY SignatureFacts, ParseParts
  <2>3. x[2] - 1 \in 1..Len(text)
    BY <2>2
  <2>. QED BY <2>1, <2>2, <2>3 DEF NoParentheses
<1>3. MethodParses(text) = {}
  BY <1>2
<1>. QED BY <1>1, <1>3, StartKeeps

LEMMA EndOfArgumentsKeeps == SignatureInv /\ EndOfArguments => SignatureInv'
<1>. SUFFICES ASSUME SignatureInv, EndOfArguments PROVE SignatureInv'
  OBVIOUS
<1>1. /\ text' = text /\ parser' = parser /\ doing' = "return" /\ rest' = rest + 1
      /\ typeAt' = rest + 1 /\ object' = object /\ slice' = End /\ arguments' = arguments
      /\ doing = "args" /\ rest = typeAt
  BY DEF EndOfArguments
<1>2. /\ IsMethod' <=> IsMethod
      /\ IsClass' <=> IsClass
      /\ End' = End
      /\ \A i, j : TypeRead(i, j)' <=> TypeRead(i, j)
  BY <1>1, TextKept
<1>3. /\ text \in Seq(Alphabet) /\ parser \in {"method", "field", "macro"} /\ Len(text) \in Nat
      /\ rest \in Nat /\ typeAt \in Nat /\ object \in Nat /\ slice \in Nat /\ arguments \subseteq Nat
      /\ 1 <= typeAt /\ typeAt <= rest /\ rest <= slice /\ slice <= End /\ End = Len(text) + 1
  BY SignatureFacts
<1>4. IsMethod /\ Opens(text) /\ ~IsClass
  BY <1>1 DEF SignatureInv, ParserInv
<1>5. rest <= Len(text) /\ text[rest] = ")"
  <2>1. CASE parser = "macro"
    <3>1. rest = slice /\ slice \in 1..Len(text) /\ First(text, ")", slice)
      BY <1>1, <2>1 DEF EndOfArguments, ArgumentsEnd, SignatureInv, SignaturePlaceInv
    <3>. QED BY <3>1 DEF First
  <2>2. CASE parser # "macro"
    <3>1. rest < slice /\ text[rest] = ")"
      BY <2>2 DEF EndOfArguments, ArgumentsEnd, Here
    <3>. QED BY <1>3, <3>1
  <2>. QED BY <2>1, <2>2
<1>6. object = 0
  BY <1>1, <1>3 DEF SignatureInv, WordInv, Reading
<1>7. typeAt >= 2
  BY <1>1 DEF SignatureInv, SignaturePlaceInv
<1>8. SignatureTypeOK'
  BY <1>1, <1>3 DEF SignatureTypeOK
<1>9. SignaturePlaceInv'
  BY <1>1, <1>2, <1>3, <1>5 DEF SignaturePlaceInv
<1>10. ParserInv'
  BY <1>1, <1>2, <1>4 DEF ParserInv
<1>11. WordInv'
  BY <1>1, <1>3, <1>6 DEF WordInv
<1>12. TakenInv'
  <2>1. ArgumentsRead(typeAt)
    BY <1>1 DEF SignatureInv, TakenInv
  <2>2. (typeAt - 1)' = typeAt
    BY <1>1, <1>3
  <2>3. ArgumentsRead(typeAt - 1)'
    BY <1>1, <1>2, <2>1, <2>2 DEF ArgumentsRead
  <2>4. typeAt' >= 3 /\ text'[typeAt' - 1] = ")"
    BY <1>1, <1>3, <1>5, <1>7
  <2>. QED BY <1>1, <2>3, <2>4 DEF TakenInv
<1>13. GrammarInv'
  <2>1. ASSUME NEW x \in MethodParses(text) PROVE x = <<arguments, rest + 1>>
    <3>1. typeAt \in x[1] \union {x[2] - 1} /\ arguments = {p \in x[1] : p < typeAt}
      BY <1>1, <1>4 DEF SignatureInv, GrammarInv
    <3>2. x[1] \subseteq Nat /\ x[2] \in 3..Len(text) /\ x = <<x[1], x[2]>> /\ \A p \in x[1] : p \in 2..x[2] - 2
      BY ParseParts
    <3>3. typeAt \notin x[1]
      <4>1. SUFFICES ASSUME typeAt \in x[1] PROVE FALSE
        OBVIOUS
      <4>2. PICK q \in x[1] \union {x[2] - 1} : IsDescriptor(text, typeAt, q)
        BY <4>1, ParseParts
      <4>3. q \in Nat
        BY <3>2
      <4>. QED BY <1>1, <1>3, <1>5, <4>2, <4>3, VoidWord
    <3>4. typeAt = x[2] - 1
      BY <3>1, <3>3
    <3>5. arguments = x[1]
      BY <1>3, <3>1, <3>2, <3>4
    <3>. QED BY <1>1, <3>2, <3>4, <3>5
  <2>. QED BY <1>1, <1>2, <1>4, <2>1 DEF GrammarInv
<1>. QED BY <1>8, <1>9, <1>10, <1>11, <1>12, <1>13 DEF SignatureInv

(* In the brackets of a type, or behind them *)
LEMMA InTypeFacts ==
    ASSUME SignatureInv, InType
    PROVE  /\ Reading /\ object = 0 /\ \A k \in typeAt..rest - 1 : text[k] = "["
           /\ typeAt < rest => text[typeAt] = "["
           /\ \A q \in Nat : IsDescriptor(text, typeAt, q) =>
                 /\ q > rest
                 /\ \/ text[rest] = "["
                    \/ text[rest] = "I" /\ q = rest + 1
                    \/ text[rest] = "L" /\ text[q - 1] = Semicolon /\ IsClassName(text, rest + 1, q - 1)
<1>1. Reading /\ object = 0 /\ \A k \in typeAt..rest - 1 : text[k] = "["
  BY DEF InType, Reading, SignatureInv, WordInv
<1>2. rest \in Nat /\ typeAt \in Nat /\ typeAt <= rest
  BY SignatureFacts
<1>3. typeAt < rest => text[typeAt] = "["
  BY <1>1, <1>2
<1>. QED BY <1>1, <1>2, <1>3, DescriptorWord

LEMMA BracketKeeps == SignatureInv /\ Bracket => SignatureInv'
<1>. SUFFICES ASSUME SignatureInv, Bracket PROVE SignatureInv'
  OBVIOUS
<1>1. /\ InType /\ rest < slice /\ text[rest] = "[" /\ rest' = rest + 1
      /\ UNCHANGED <<text, parser, doing, typeAt, object, slice, arguments>>
  BY DEF Bracket, Here
<1>2. Reading /\ object = 0 /\ \A k \in typeAt..rest - 1 : text[k] = "["
  BY <1>1, InTypeFacts
<1>3. rest \in Nat /\ typeAt \in Nat
  BY SignatureFacts
<1>4. WordInv'
  <2>1. \A k \in typeAt..(rest + 1) - 1 : text[k] = "["
    BY <1>1, <1>2, <1>3
  <2>. QED BY <1>1, <1>2, <2>1 DEF WordInv
<1>. QED BY <1>1, <1>2, <1>4, ReadOnKeeps

LEMMA PrimitiveKeeps == SignatureInv /\ Primitive => SignatureInv'
<1>. SUFFICES ASSUME SignatureInv, Primitive PROVE SignatureInv'
  OBVIOUS
<1>1. /\ InType /\ rest < slice /\ text[rest] \in {"I", "V"}
      /\ IF text[rest] = "V" /\ ~VoidAllowed THEN Refuse ELSE TypeEnds(rest + 1)
  BY DEF Primitive, Here
<1>2. /\ Reading /\ object = 0 /\ \A k \in typeAt..rest - 1 : text[k] = "["
      /\ typeAt < rest => text[typeAt] = "["
  BY <1>1, InTypeFacts
<1>3. /\ rest \in Nat /\ typeAt \in Nat /\ slice \in Nat /\ Len(text) \in Nat
      /\ 1 <= typeAt /\ typeAt <= rest /\ slice <= End /\ End = Len(text) + 1
  BY SignatureFacts
<1>4. \A q \in Nat : IsDescriptor(text, typeAt, q) => text[rest] = "I" /\ q = rest + 1
  <2>1. text[rest] # "[" /\ text[rest] # "L"
    BY <1>1
  <2>. QED BY <1>1, <2>1, InTypeFacts
<1>5. CASE text[rest] = "V" /\ ~VoidAllowed
  <2>1. \A q \in Nat : q <= slice => ~IsDescriptor(text, typeAt, q)
    BY <1>4, <1>5
  <2>2. text[typeAt] # ")"
    BY <1>2, <1>3, <1>5
  <2>3. doing = "return" => text[typeAt] # "V"
    BY <1>2, <1>3, <1>5 DEF VoidAllowed
  <2>. QED BY <1>1, <1>2, <1>5, <2>1, <2>2, <2>3, RefuseKeeps
<1>6. CASE ~(text[rest] = "V" /\ ~VoidAllowed)
  <2>1. TypeEnds(rest + 1)
    BY <1>1, <1>6
  <2>2. text[typeAt] # ")" /\ (text[typeAt] = "V" => rest + 1 = typeAt + 1)
    BY <1>1, <1>2, <1>3
  <2>3. TypeRead(typeAt, rest + 1) \/ (doing = "return" /\ text[typeAt] = "V" /\ rest + 1 = typeAt + 1)
    <3>1. rest \in typeAt..(rest + 1) - 1
      BY <1>3
    <3>2. CASE text[rest] = "I"
      BY <1>2, <3>1, <3>2 DEF TypeRead, IsDescriptor, RawType
    <3>3. CASE text[rest] = "V" /\ rest = typeAt /\ parser = "macro"
      BY <1>2, <3>1, <3>3 DEF TypeRead, RawType
    <3>4. CASE text[rest] = "V" /\ rest = typeAt /\ doing = "return"
      BY <3>4
    <3>. QED BY <1>1, <1>6, <3>2, <3>3, <3>4 DEF VoidAllowed
  <2>4. rest + 1 \in Nat /\ rest < rest + 1 /\ rest + 1 <= slice
    BY <1>1, <1>3
  <2>5. \A q \in Nat : IsDescriptor(text, typeAt, q) => q = rest + 1
    BY <1>4
  <2>. QED BY <1>2, <2>1, <2>2, <2>3, <2>4, <2>5, TypeEndsKeeps
<1>. QED BY <1>5, <1>6

LEMMA NoTypeKeeps == SignatureInv /\ NoType => SignatureInv'
<1>. SUFFICES ASSUME SignatureInv, NoType PROVE SignatureInv'
  OBVIOUS
<1>1. /\ InType /\ ~(doing = "args" /\ rest = typeAt /\ ArgumentsEnd) /\ Refuse
      /\ rest < slice => text[rest] \notin {"[", "I", "V", "L"}
  BY DEF NoType, Here
<1>2. /\ Reading /\ object = 0
      /\ typeAt < rest => text[typeAt] = "["
      /\ \A q \in Nat : IsDescriptor(text, typeAt, q) => q > rest /\ text[rest] \in {"[", "I", "L"}
  BY <1>1, InTypeFacts
<1>3. /\ rest \in Nat /\ typeAt \in Nat /\ slice \in Nat /\ Len(text) \in Nat
      /\ 1 <= typeAt /\ typeAt <= rest /\ rest <= slice /\ slice <= End /\ End = Len(text) + 1
  BY SignatureFacts
<1>4. \A q \in Nat : q <= slice => ~IsDescriptor(text, typeAt, q)
  BY <1>1, <1>2, <1>3
<1>5. ASSUME doing = "args", typeAt <= Len(text), text[typeAt] = ")" PROVE FALSE
  <2>1. rest = typeAt
    BY <1>2, <1>3, <1>5
  <2>2. CASE parser = "macro"
    <3>1. rest # slice /\ slice \in 1..Len(text) /\ First(text, ")", slice)
      BY <1>1, <1>5, <2>1, <2>2 DEF ArgumentsEnd, SignatureInv, SignaturePlaceInv
    <3>2. rest \in 1..slice - 1
      BY <1>3, <3>1
    <3>. QED BY <1>5, <2>1, <3>1, <3>2 DEF First
  <2>3. CASE parser # "macro"
    <3>1. parser = "method" /\ slice = End
      BY <1>5, <2>3 DEF SignatureInv, ParserInv, IsMethod, SignaturePlaceInv
    <3>2. ~(rest < slice /\ text[rest] = ")")
      BY <1>1, <1>5, <2>1, <2>3 DEF ArgumentsEnd, Here
    <3>. QED BY <1>3, <1>5, <2>1, <3>1, <3>2
  <2>. QED BY <2>2, <2>3
<1>6. ASSUME doing = "return", text[typeAt] = "V", typeAt = Len(text) PROVE FALSE
  <2>1. rest = typeAt
    BY <1>2, <1>3, <1>6
  <2>2. slice = End
    BY <1>6 DEF SignatureInv, SignaturePlaceInv
  <2>. QED BY <1>1, <1>3, <1>6, <2>1, <2>2
<1>. QED BY <1>1, <1>2, <1>4, <1>5, <1>6, RefuseKeeps

LEMMA ObjectBeginsKeeps == SignatureInv /\ ObjectBegins => SignatureInv'
<1>. SUFFICES ASSUME SignatureInv, ObjectBegins PROVE SignatureInv'
  OBVIOUS
<1>1. /\ InType /\ rest < slice /\ text[rest] = "L" /\ parser # "macro"
      /\ object' = rest /\ rest' = rest + 1
      /\ UNCHANGED <<text, parser, doing, typeAt, slice, arguments>>
  BY DEF ObjectBegins, Here
<1>2. Reading /\ \A k \in typeAt..rest - 1 : text[k] = "["
  BY <1>1, InTypeFacts
<1>3. rest \in Nat /\ typeAt \in Nat /\ 1 <= typeAt /\ typeAt <= rest
  BY SignatureFacts
<1>4. WordInv'
  BY <1>1, <1>2, <1>3 DEF WordInv
<1>. QED BY <1>1, <1>2, <1>3, <1>4, ReadOnKeeps

LEMMA RawObjectKeeps == SignatureInv /\ RawObject => SignatureInv'
<1>. SUFFICES ASSUME SignatureInv, RawObject PROVE SignatureInv'
  OBVIOUS
<1>1. InType /\ rest < slice /\ text[rest] = "L" /\ parser = "macro"
  BY DEF RawObject, Here
<1>2. /\ Reading /\ object = 0 /\ \A k \in typeAt..rest - 1 : text[k] = "["
      /\ typeAt < rest => text[typeAt] = "["
  BY <1>1, InTypeFacts
<1>3. /\ rest \in Nat /\ typeAt \in Nat /\ slice \in Nat /\ Len(text) \in Nat
      /\ 1 <= typeAt /\ typeAt <= rest /\ slice <= End /\ End = Len(text) + 1
  BY SignatureFacts
<1>4. \A q \in Nat : IsDescriptor(text, typeAt, q) =>
          q > rest /\ text[q - 1] = Semicolon /\ IsClassName(text, rest + 1, q - 1)
  <2>1. text[rest] # "[" /\ text[rest] # "I"
    BY <1>1
  <2>. QED BY <1>1, <2>1, InTypeFacts
<1>5. text[typeAt] \notin {")", "V"}
  BY <1>1, <1>2, <1>3
<1>6. ASSUME NEW end \in rest + 1..slice - 1,
             FirstSemicolon(end), Segmented(text, rest + 1, end), TypeEnds(end + 1)
      PROVE  SignatureInv'
  <2>1. text[end] = Semicolon /\ \A k \in rest..end - 1 : text[k] # Semicolon
    BY <1>6 DEF FirstSemicolon
  <2>2. TypeRead(typeAt, end + 1)
    <3>1. rest \in typeAt..(end + 1) - 1 /\ (end + 1) - 1 = end /\ (end + 1) - 2 = end - 1
      BY <1>3
    <3>2. RawType(text, typeAt, end + 1)
      BY <1>1, <1>2, <1>6, <2>1, <3>1 DEF RawType
    <3>. QED BY <1>1, <3>2 DEF TypeRead
  <2>3. ASSUME NEW q \in Nat, IsDescriptor(text, typeAt, q) PROVE q = end + 1
    <3>1. q > rest /\ text[q - 1] = Semicolon /\ IsClassName(text, rest + 1, q - 1)
      BY <1>4, <2>3
    <3>2. rest + 1 \in Nat /\ q - 1 \in Nat /\ end \in Nat /\ rest + 1 <= end
      BY <1>3, <3>1
    <3>3. \A k \in rest + 1..end - 1 : text[k] # Semicolon
      BY <1>3, <2>1
    <3>4. q - 1 = end
      BY <2>1, <3>1, <3>2, <3>3, ClassNameEnd
    <3>. QED BY <3>2, <3>4
  <2>4. end + 1 \in Nat /\ rest < end + 1 /\ end + 1 <= slice
    BY <1>3
  <2>. QED BY <1>2, <1>5, <1>6, <2>2, <2>3, <2>4, TypeEndsKeeps
<1>7. ASSUME Refuse, ~\E end \in rest + 1..slice - 1 : FirstSemicolon(end) /\ Segmented(text, rest + 1, end)
      PROVE  SignatureInv'
  <2>1. ASSUME NEW q \in Nat, q <= slice, IsDescriptor(text, typeAt, q) PROVE FALSE
    <3>1. q > rest /\ text[q - 1] = Semicolon /\ IsClassName(text, rest + 1, q - 1)
      BY <1>4, <2>1
    <3>2. Segmented(text, rest + 1, q - 1) /\ rest + 1 < q - 1
      BY <3>1 DEF IsClassName, Segmented
    <3>3. \A k \in rest..(q - 1) - 1 : text[k] # Semicolon
      <4>1. \A k \in rest + 1..(q - 1) - 1 : text[k] # Semicolon
        BY <3>1 DEF IsClassName
      <4>2. \A k \in rest..(q - 1) - 1 : k = rest \/ k \in rest + 1..(q - 1) - 1
        BY <1>3
      <4>. QED BY <1>1, <4>1, <4>2, Semicolons
    <3>4. q - 1 \in rest + 1..slice - 1
      BY <1>3, <2>1, <3>2
    <3>5. FirstSemicolon(q - 1)
      BY <3>1, <3>3, <3>4 DEF FirstSemicolon
    <3>. QED BY <1>7, <3>2, <3>4, <3>5
  <2>. QED BY <1>2, <1>5, <1>7, <2>1, RefuseKeeps
<1>. QED BY <1>6, <1>7 DEF RawObject

LEMMA ObjectNameKeeps == SignatureInv /\ ObjectName => SignatureInv'
<1>. SUFFICES ASSUME SignatureInv, ObjectName PROVE SignatureInv'
  OBVIOUS
<1>1. Reading /\ object > 0
  BY DEF ObjectName, Reading
<1>2. /\ rest \in Nat /\ typeAt \in Nat /\ object \in Nat /\ slice \in Nat /\ Len(text) \in Nat
      /\ 1 <= typeAt /\ typeAt <= rest /\ slice <= End /\ End = Len(text) + 1
  BY SignatureFacts
<1>3. /\ parser # "macro" /\ typeAt <= object /\ object < rest /\ text[object] = "L"
      /\ \A k \in typeAt..object - 1 : text[k] = "["
      /\ \A k \in object + 1..rest - 1 : text[k] \notin {".", Semicolon, "["}
      /\ object + 1 < rest => text[object + 1] # "/"
      /\ \A k \in object + 1..rest - 2 : ~(text[k] = "/" /\ text[k + 1] = "/")
  BY <1>1 DEF SignatureInv, WordInv
<1>4. text[typeAt] \in {"[", "L"}
  <2>1. CASE typeAt = object
    BY <1>3, <2>1
  <2>2. CASE typeAt < object
    BY <1>2, <1>3, <2>2
  <2>. QED BY <1>2, <1>3, <2>1, <2>2
<1>5. ASSUME NEW q \in Nat, IsDescriptor(text, typeAt, q)
      PROVE  /\ q - 1 \in Nat /\ rest <= q - 1
             /\ text[rest] = Semicolon => q - 1 = rest
             /\ rest < q - 1 => text[rest] \notin {".", Semicolon, "["}
             /\ rest < q - 1 /\ text[rest] = "/" => rest # object + 1 /\ text[rest - 1] # "/"
             /\ rest = q - 1 => text[rest] = Semicolon /\ object + 1 < rest /\ text[rest - 1] # "/"
  <2>1. q > object /\ text[q - 1] = Semicolon /\ IsClassName(text, object + 1, q - 1)
    <3>1. text[object] # "[" /\ text[object] # "I"
      BY <1>3
    <3>2. typeAt \in Nat /\ object \in Nat /\ typeAt <= object /\ \A k \in typeAt..object - 1 : text[k] = "["
      BY <1>2, <1>3
    <3>. QED BY <1>5, <3>1, <3>2, DescriptorWord
  <2>2. object + 1 \in Nat /\ q - 1 \in Nat /\ object + 1 <= rest
    BY <1>2, <1>3, <2>1
  <2>3. \A k \in object + 1..rest - 1 : text[k] # Semicolon
    BY <1>3
  <2>4. PICK a \in Nat, b \in Nat : a = object + 1 /\ b = q - 1
    BY <2>2
  <2>5. IsClassName(text, a, b) /\ text[b] = Semicolon /\ a <= rest /\ \A k \in a..rest - 1 : text[k] # Semicolon
    BY <2>1, <2>2, <2>3, <2>4
  <2>6. /\ rest <= b
        /\ text[rest] = Semicolon => b = rest
        /\ rest < b => text[rest] \notin {".", Semicolon, "["}
        /\ rest < b /\ text[rest] = "/" => rest # a /\ text[rest - 1] # "/"
        /\ rest = b => text[rest] = Semicolon /\ a < rest /\ text[rest - 1] # "/"
    BY <1>2, <2>5, ClassNameEnd
  <2>. QED BY <2>2, <2>4, <2>6
<1>6. ASSUME NameGoesOn, rest' = rest + 1, UNCHANGED <<text, parser, doing, typeAt, object, slice, arguments>>
      PROVE  SignatureInv'
  <2>1. /\ rest < slice /\ text[rest] \notin {".", Semicolon, "["}
        /\ text[rest] = "/" => rest # object + 1 /\ text[rest - 1] # "/"
    BY <1>6, Semicolons DEF NameGoesOn, Unqualified, Here, SegmentEmpty
  <2>2. \A k \in object + 1..(rest + 1) - 1 : text[k] \notin {".", Semicolon, "["}
    <3>1. \A k \in object + 1..(rest + 1) - 1 : k = rest \/ k \in object + 1..rest - 1
      BY <1>2
    <3>. QED BY <1>3, <2>1, <3>1
  <2>3. object + 1 < rest + 1 => text[object + 1] # "/"
    <3>1. CASE object + 1 = rest
      BY <2>1, <3>1
    <3>2. CASE object + 1 < rest
      BY <1>3, <3>2
    <3>. QED BY <1>2, <1>3, <3>1, <3>2
  <2>4. \A k \in object + 1..(rest + 1) - 2 : ~(text[k] = "/" /\ text[k + 1] = "/")
    <3>1. ASSUME NEW k \in object + 1..(rest + 1) - 2 PROVE (k + 1 = rest /\ k = rest - 1) \/ k \in object + 1..rest - 2
      BY <1>2
    <3>. QED BY <1>3, <2>1, <3>1
  <2>5. object < rest + 1
    BY <1>2, <1>3
  <2>6. WordInv'
    BY <1>1, <1>3, <1>6, <2>2, <2>3, <2>4, <2>5 DEF WordInv
  <2>. QED BY <1>1, <1>2, <1>6, <2>1, <2>6, ReadOnKeeps
<1>7. ASSUME NameEnds, TypeEnds(rest + 1) PROVE SignatureInv'
  <2>1. rest < slice /\ text[rest] = Semicolon /\ rest # object + 1 /\ text[rest - 1] # "/"
    BY <1>7 DEF NameEnds, Here, SegmentEmpty
  <2>2. IsClassName(text, object + 1, rest)
    BY <1>2, <1>3, <2>1 DEF IsClassName, Segmented
  <2>3. object \in typeAt..(rest + 1) - 1 /\ (rest + 1) - 1 = rest
    BY <1>2, <1>3
  <2>4. IsDescriptor(text, typeAt, rest + 1)
    BY <1>3, <2>1, <2>2, <2>3 DEF IsDescriptor
  <2>5. TypeRead(typeAt, rest + 1)
    BY <1>3, <2>4 DEF TypeRead
  <2>6. \A q \in Nat : IsDescriptor(text, typeAt, q) => q = rest + 1
    BY <1>2, <1>5, <2>1
  <2>7. rest + 1 \in Nat /\ rest < rest + 1 /\ rest + 1 <= slice
    BY <1>2, <2>1
  <2>. QED BY <1>1, <1>4, <1>7, <2>5, <2>6, <2>7, TypeEndsKeeps
<1>8. ASSUME ~NameGoesOn, ~NameEnds, Refuse PROVE SignatureInv'
  <2>1. ASSUME NEW q \in Nat, q <= slice, IsDescriptor(text, typeAt, q) PROVE FALSE
    <3>1. rest <= q - 1 /\ rest < slice
      BY <1>2, <1>5, <2>1
    <3>2. rest # q - 1
      BY <1>2, <1>3, <1>5, <1>8, <2>1, <3>1 DEF NameEnds, Here, SegmentEmpty
    <3>3. /\ text[rest] \notin {".", Semicolon, "["}
          /\ text[rest] = "/" => rest # object + 1 /\ text[rest - 1] # "/"
      BY <1>2, <1>5, <2>1, <3>1, <3>2
    <3>. QED BY <1>8, <3>1, <3>3 DEF NameGoesOn, Unqualified, Here, SegmentEmpty
  <2>. QED BY <1>1, <1>4, <1>8, <2>1, RefuseKeeps
<1>. QED BY <1>6, <1>7, <1>8 DEF ObjectName

(* The inductive invariant: what is behind the parser are types, as many as the arguments, and any
   parse of the grammar begins with them. *)
THEOREM SignatureInvariant == SignatureSpec => []SignatureInv
<1>1. InitSignature => SignatureInv
  <2>. SUFFICES ASSUME InitSignature PROVE SignatureInv
    OBVIOUS
  <2>1. /\ text \in Seq(Alphabet) /\ parser \in {"method", "field", "macro"} /\ doing = "start"
        /\ rest = 1 /\ typeAt = 1 /\ object = 0 /\ slice = Len(text) + 1 /\ arguments = {}
        /\ Len(text) \in Nat
    BY LiteralsAssumption DEF InitSignature, End
  <2>2. SignatureTypeOK
    BY <2>1 DEF SignatureTypeOK
  <2>3. SignaturePlaceInv
    BY <2>1 DEF SignaturePlaceInv, End
  <2>. QED BY <2>1, <2>2, <2>3 DEF SignatureInv, ParserInv, WordInv, Reading, TakenInv, GrammarInv
<1>2. SignatureInv /\ [SignatureNext]_sigVars => SignatureInv'
  <2>. SUFFICES ASSUME SignatureInv, [SignatureNext]_sigVars PROVE SignatureInv'
    OBVIOUS
  <2>1. CASE UNCHANGED sigVars
    <3>1. /\ text' = text /\ parser' = parser /\ doing' = doing /\ rest' = rest /\ typeAt' = typeAt
          /\ object' = object /\ slice' = slice /\ arguments' = arguments
      BY <2>1 DEF sigVars
    <3>2. /\ IsMethod' <=> IsMethod
          /\ IsClass' <=> IsClass
          /\ End' = End
          /\ \A i, j : TypeRead(i, j)' <=> TypeRead(i, j)
      BY <3>1, TextKept
    <3>3. SignatureTypeOK' <=> SignatureTypeOK
      BY <3>1 DEF SignatureTypeOK
    <3>4. SignaturePlaceInv' <=> SignaturePlaceInv
      BY <3>1 DEF SignaturePlaceInv, End, First
    <3>5. ParserInv' <=> ParserInv
      BY <3>1, <3>2 DEF ParserInv
    <3>6. WordInv' <=> WordInv
      BY <3>1 DEF WordInv, Reading
    <3>7. /\ ArgumentsRead(typeAt)' <=> ArgumentsRead(typeAt)
          /\ ArgumentsRead(typeAt - 1)' <=> ArgumentsRead(typeAt - 1)
      BY <3>1, <3>2 DEF ArgumentsRead
    <3>8. TypeRead(typeAt, End)' <=> TypeRead(typeAt, End)
      BY <3>1 DEF TypeRead, End
    <3>9. TakenInv' <=> TakenInv
      BY <3>1, <3>2, <3>7, <3>8 DEF TakenInv
    <3>10. GrammarInv' <=> GrammarInv
      BY <3>1, <3>2 DEF GrammarInv
    <3>. QED BY <3>3, <3>4, <3>5, <3>6, <3>9, <3>10 DEF SignatureInv
  <2>. QED BY <2>1, BeginMethodKeeps, BeginFieldKeeps, TakeClassKeeps, NoParenthesesKeeps,
              EndOfArgumentsKeeps, BracketKeeps, PrimitiveKeeps, NoTypeKeeps, ObjectBeginsKeeps,
              ObjectNameKeeps, RawObjectKeeps DEF SignatureNext
<1>. QED BY <1>1, <1>2, PTL DEF SignatureSpec

-------------------------------------------------------------------------------
(* Signatures: what follows from the invariant *)

(* What the macro takes for a type is a descriptor, but for void and names with a "[". *)
LEMMA RawDescriptor ==
    ASSUME NEW s, NEW i \in Nat, NEW j \in Nat, Len(s) \in Nat, 1 <= i, j <= Len(s) + 1,
           RawType(s, i, j), s[i] # "V", ~InName(s, "["), ~Dotted(s)
    PROVE  IsDescriptor(s, i, j)
<1>1. PICK k \in i..j - 1 :
        /\ \A b \in i..k - 1 : s[b] = "["
        /\ \/ s[k] = "I" /\ j = k + 1
           \/ s[k] = "V" /\ j = k + 1 /\ k = i
           \/ /\ s[k] = "L" /\ s[j - 1] = Semicolon /\ Segmented(s, k + 1, j - 1)
              /\ \A m \in k..j - 2 : s[m] # Semicolon
  BY DEF RawType
<1>2. CASE s[k] = "I" /\ j = k + 1
  BY <1>1, <1>2 DEF IsDescriptor
<1>3. CASE /\ s[k] = "L" /\ s[j - 1] = Semicolon /\ Segmented(s, k + 1, j - 1)
           /\ \A m \in k..j - 2 : s[m] # Semicolon
  <2>1. ASSUME NEW m \in k + 1..(j - 1) - 1 PROVE s[m] \notin {".", Semicolon, "["}
    <3>1. m \in k..j - 2 /\ m \in 1..Len(s) /\ k \in 1..Len(s) /\ k < m
      BY <1>1
    <3>2. s[m] # "." /\ s[m] # Semicolon
      BY <1>3, <3>1 DEF Dotted
    <3>3. \A b \in k..m : s[b] # Semicolon
      <4>1. \A b \in k..m : b \in k..j - 2
        BY <1>1, <3>1
      <4>. QED BY <1>3, <4>1
    <3>4. s[m] # "["
      BY <1>3, <3>1, <3>3 DEF InName
    <3>. QED BY <3>2, <3>4
  <2>2. IsClassName(s, k + 1, j - 1)
    BY <1>3, <2>1 DEF IsClassName
  <2>. QED BY <1>1, <1>3, <2>2 DEF IsDescriptor
<1>. QED BY <1>1, <1>2, <1>3

(* What an accepted method signature is made of is its one parse. *)
LEMMA TakenParse ==
    ASSUME SignatureInv, doing = "accepted", IsMethod, ~IsClass,
           \A p \in arguments : \A q \in Nat : q <= Len(text) /\ TypeRead(p, q) => IsDescriptor(text, p, q),
           text[typeAt] # "V" /\ TypeRead(typeAt, End) => IsDescriptor(text, typeAt, End)
    PROVE  MethodParses(text) = {<<arguments, typeAt>>}
<1>1. typeAt \in Nat /\ arguments \subseteq Nat /\ Len(text) \in Nat /\ End = Len(text) + 1 /\ typeAt <= End
  BY SignatureFacts
<1>2. /\ typeAt >= 3 /\ text[typeAt - 1] = ")" /\ ArgumentsRead(typeAt - 1)
      /\ (text[typeAt] = "V" /\ typeAt = Len(text)) \/ TypeRead(typeAt, End)
  BY DEF SignatureInv, TakenInv
<1>3. typeAt <= Len(text) /\ (text[typeAt] = "V" => typeAt = Len(text))
  <2>1. CASE TypeRead(typeAt, End) /\ parser = "macro"
    <3>1. PICK k \in typeAt..End - 1 :
             /\ \A b \in typeAt..k - 1 : text[b] = "["
             /\ text[k] = "V" => End = k + 1
             /\ text[k] \in {"I", "V", "L"}
      BY <2>1 DEF TypeRead, RawType
    <3>. QED BY <1>1, <3>1
  <2>2. CASE TypeRead(typeAt, End) /\ parser # "macro"
    <3>1. IsDescriptor(text, typeAt, End)
      BY <2>2 DEF TypeRead
    <3>2. text[typeAt] # "V"
      BY <1>1, <3>1, VoidWord
    <3>3. typeAt..End - 1 # {}
      BY <3>1 DEF IsDescriptor
    <3>. QED BY <1>1, <3>2, <3>3
  <2>. QED BY <1>1, <1>2, <2>1, <2>2
<1>4. typeAt \in ReturnTypes(text)
  <2>1. (text[typeAt] = "V" /\ typeAt = Len(text)) \/ IsDescriptor(text, typeAt, Len(text) + 1)
    BY <1>1, <1>2, <1>3
  <2>2. typeAt \in 3..Len(text)
    BY <1>1, <1>2, <1>3
  <2>. QED BY <1>2, <2>1, <2>2 DEF ReturnTypes
<1>5. ASSUME NEW p \in arguments
      PROVE  /\ p \in 2..Len(text) /\ p < typeAt - 1
             /\ \E q \in arguments \union {typeAt - 1} :
                   p < q /\ IsDescriptor(text, p, q) /\ \A r \in arguments : r <= p \/ q <= r
  <2>1. \A r \in arguments : r \in 2..(typeAt - 1) - 1
    BY <1>2 DEF ArgumentsRead
  <2>2. PICK q \in arguments \union {typeAt - 1} :
           p < q /\ TypeRead(p, q) /\ \A r \in arguments : r <= p \/ q <= r
    BY <1>2 DEF ArgumentsRead
  <2>3. q \in Nat /\ q <= Len(text)
    BY <1>1, <1>2, <1>3, <2>1
  <2>4. IsDescriptor(text, p, q)
    BY <2>2, <2>3
  <2>5. p \in 2..Len(text) /\ p < typeAt - 1
    BY <1>1, <1>3, <2>1
  <2>. QED BY <2>2, <2>4, <2>5
<1>6. \A p \in arguments : p \in Descriptors(text)
  <2>1. SUFFICES ASSUME NEW p \in arguments PROVE p \in Descriptors(text)
    OBVIOUS
  <2>2. PICK q \in arguments \union {typeAt - 1} : p < q /\ IsDescriptor(text, p, q)
    BY <1>5
  <2>3. p \in 2..Len(text) /\ \A r \in arguments : r < typeAt - 1
    BY <1>5
  <2>4. q \in p + 1..Len(text)
    BY <1>1, <1>3, <2>2, <2>3
  <2>. QED BY <2>2, <2>3, <2>4 DEF Descriptors
<1>7. DescriptorsUntil(text, arguments, 2, typeAt - 1)
  <2>1. typeAt - 1 = 2 \/ 2 \in arguments
    BY <1>2 DEF ArgumentsRead
  <2>. QED BY <1>5, <2>1 DEF DescriptorsUntil
<1>8. <<arguments, typeAt>> \in MethodParses(text)
  <2>1. arguments \in SUBSET Descriptors(text)
    BY <1>6
  <2>2. Opens(text) /\ <<arguments, typeAt>> \in (SUBSET Descriptors(text)) \X ReturnTypes(text)
    BY <1>4, <2>1 DEF SignatureInv, ParserInv
  <2>3. <<arguments, typeAt>>[1] = arguments /\ <<arguments, typeAt>>[2] = typeAt
    OBVIOUS
  <2>. QED BY <1>7, <2>2, <2>3 DEF MethodParses
<1>9. \A x \in MethodParses(text) : x = <<arguments, typeAt>>
  BY DEF SignatureInv, GrammarInv
<1>. QED BY <1>8, <1>9

(* The name of a class with dots becomes its descriptor. *)
LEMMA ClassText ==
    ASSUME NEW s \in Seq(Alphabet), DottedName(s)
    PROVE  IsDescriptor(SignatureText(s), 1, Len(SignatureText(s)) + 1)
<1>1. Len(s) \in Nat /\ Len(s) >= 1
  BY DEF DottedName, Dotted
<1>2. PICK n \in Nat : n = Len(s) /\ n >= 1
  BY <1>1
<1>3. PICK mid : mid = [i \in 1..Len(s) |-> IF s[i] = "." THEN "/" ELSE s[i]]
  OBVIOUS
<1>4. mid \in Seq(Alphabet \union {"/", "L", Semicolon}) /\ Len(mid) = n
  <2>1. \A i \in 1..n : s[i] \in Alphabet
    BY <1>2
  <2>2. mid = [i \in 1..n |-> IF s[i] = "." THEN "/" ELSE s[i]]
    BY <1>2, <1>3
  <2>3. \A i \in 1..n : (IF s[i] = "." THEN "/" ELSE s[i]) \in Alphabet \union {"/", "L", Semicolon}
    BY <2>1
  <2>4. mid \in [1..n -> Alphabet \union {"/", "L", Semicolon}]
    BY <2>2, <2>3
  <2>. QED BY <1>2, <2>4
<1>5. PICK t : t = SignatureText(s)
  OBVIOUS
<1>6. t = <<"L">> \o mid \o <<Semicolon>>
  BY <1>3, <1>5 DEF SignatureText
<1>7. /\ Len(t) = n + 2 /\ t[1] = "L" /\ t[n + 2] = Semicolon
      /\ \A i \in 1..n : t[i + 1] = mid[i]
  <2>1. /\ <<"L">> \o mid \in Seq(Alphabet \union {"/", "L", Semicolon})
        /\ Len(<<"L">> \o mid) = n + 1
        /\ (<<"L">> \o mid)[1] = "L"
        /\ \A i \in 1..n : (<<"L">> \o mid)[i + 1] = mid[i]
    BY <1>2, <1>4
  <2>2. PICK u \in Seq(Alphabet \union {"/", "L", Semicolon}) : u = <<"L">> \o mid
    BY <2>1
  <2>3. t = u \o <<Semicolon>> /\ Len(u) = n + 1 /\ <<Semicolon>> \in Seq(Alphabet \union {"/", "L", Semicolon})
    BY <1>6, <2>1, <2>2
  <2>4. Len(t) = n + 2 /\ t[n + 2] = Semicolon /\ \A i \in 1..n + 1 : t[i] = u[i]
    BY <1>2, <2>2, <2>3
  <2>5. t[1] = "L"
    BY <1>2, <2>1, <2>2, <2>4
  <2>6. ASSUME NEW i \in 1..n PROVE t[i + 1] = mid[i]
    <3>1. i + 1 \in 1..n + 1
      BY <1>2
    <3>. QED BY <2>1, <2>2, <2>4, <3>1
  <2>. QED BY <2>4, <2>5, <2>6
<1>8. \A i \in 1..n : t[i + 1] = IF s[i] = "." THEN "/" ELSE s[i]
  BY <1>2, <1>3, <1>7
<1>9. ASSUME NEW k \in 2..n + 1 PROVE t[k] = (IF s[k - 1] = "." THEN "/" ELSE s[k - 1]) /\ k - 1 \in 1..n
  <2>1. k - 1 \in 1..n /\ (k - 1) + 1 = k
    BY <1>2
  <2>. QED BY <1>8, <2>1
<1>10. \A i \in 1..n : s[i] \notin {Semicolon, "[", "/"}
  BY <1>2 DEF DottedName
<1>11. IsClassName(t, 2, n + 2)
  <2>1. \A k \in 2..(n + 2) - 1 : t[k] \notin {".", Semicolon, "["}
    <3>1. ASSUME NEW k \in 2..(n + 2) - 1 PROVE k \in 2..n + 1
      BY <1>2
    <3>. QED BY <1>9, <1>10, <3>1, Semicolons
  <2>2. t[2] # "/"
    <3>1. s[1] # "." /\ s[1] # "/"
      BY <1>2, <1>10 DEF DottedName
    <3>. QED BY <1>2, <1>9, <3>1
  <2>3. t[(n + 2) - 1] # "/"
    <3>1. s[n] # "." /\ s[n] # "/"
      BY <1>2, <1>10 DEF DottedName
    <3>2. t[n + 1] = (IF s[(n + 1) - 1] = "." THEN "/" ELSE s[(n + 1) - 1]) /\ (n + 1) - 1 = n
      BY <1>2, <1>9
    <3>. QED BY <1>2, <3>1, <3>2
  <2>4. ASSUME NEW k \in 2..(n + 2) - 2 PROVE ~(t[k] = "/" /\ t[k + 1] = "/")
    <3>1. k \in 2..n + 1 /\ k + 1 \in 2..n + 1 /\ k - 1 \in 1..n - 1 /\ (k - 1) + 1 = k /\ (k + 1) - 1 = k
      BY <1>2
    <3>2. ~(s[k - 1] = "." /\ s[k] = ".")
      BY <1>2, <3>1 DEF DottedName
    <3>3. t[k] = (IF s[k - 1] = "." THEN "/" ELSE s[k - 1]) /\ t[k + 1] = (IF s[k] = "." THEN "/" ELSE s[k])
      BY <1>9, <3>1
    <3>4. s[k - 1] # "/" /\ s[k] # "/"
      BY <1>2, <1>10, <3>1
    <3>. QED BY <3>2, <3>3, <3>4
  <2>. QED BY <1>2, <2>1, <2>2, <2>3, <2>4 DEF IsClassName, Segmented
<1>12. 1 \in 1..(n + 3) - 1 /\ (n + 3) - 1 = n + 2 /\ \A b \in 1..1 - 1 : t[b] = "["
  BY <1>2
<1>13. IsDescriptor(t, 1, n + 3)
  BY <1>7, <1>11, <1>12 DEF IsDescriptor
<1>. QED BY <1>2, <1>5, <1>7, <1>13

(* The same of a field signature, which is nothing but a type *)
LEMMA FieldParsed ==
    ASSUME SignatureInv, ~IsMethod, ~IsClass
    PROVE  /\ doing = "accepted" => arguments = {} /\ typeAt = 1 /\ TypeRead(1, End) /\ text[1] # "V"
           /\ doing = "refused" => FieldParses(text) = {}
           /\ parser = "macro" => MethodParses(text) = {}
<1>1. doing = "accepted" => arguments = {} /\ typeAt = 1 /\ TypeRead(1, End) /\ text[1] # "V"
  BY DEF SignatureInv, TakenInv
<1>2. doing = "refused" => FieldParses(text) = {}
  BY DEF SignatureInv, GrammarInv, FieldParses, End
<1>3. parser = "macro" => MethodParses(text) = {}
  BY DEF IsMethod, MethodParses
<1>. QED BY <1>1, <1>2, <1>3

(* A text is taken for a signature if it is one, by both parsers, and as the one parse it has. *)
THEOREM SignaturesAreRight == SignatureSpec => []SignaturesRight
<1>1. SignatureInv => SignaturesRight
  <2>. SUFFICES ASSUME SignatureInv PROVE SignaturesRight
    OBVIOUS
  <2>1. /\ text \in Seq(Alphabet) /\ Len(text) \in Nat /\ End = Len(text) + 1
        /\ typeAt \in Nat /\ arguments \subseteq Nat /\ 1 <= typeAt /\ End \in Nat
        /\ parser \in {"method", "field", "macro"}
    BY SignatureFacts
  <2>2. ASSUME parser = "method"
        PROVE  /\ doing = "accepted" => Parses = {<<arguments, typeAt>>}
               /\ doing = "refused" => Parses = {}
    <3>1. IsMethod /\ ~IsClass /\ Parses = MethodParses(text)
      BY <2>2 DEF IsMethod, IsClass, Parses
    <3>2. ASSUME doing = "accepted" PROVE Parses = {<<arguments, typeAt>>}
      <4>1. \A p, q : TypeRead(p, q) => IsDescriptor(text, p, q)
        BY <2>2 DEF TypeRead
      <4>. QED BY <3>1, <3>2, <4>1, TakenParse
    <3>3. ASSUME doing = "refused" PROVE Parses = {}
      BY <2>2, <3>1, <3>3 DEF SignatureInv, GrammarInv
    <3>. QED BY <3>2, <3>3
  <2>3. ASSUME parser = "field"
        PROVE  /\ doing = "accepted" => Parses = {<<arguments, typeAt>>}
               /\ doing = "refused" => Parses = {}
    <3>1. ~IsMethod /\ ~IsClass /\ Parses = FieldParses(text)
      BY <2>3 DEF IsMethod, IsClass, Parses
    <3>2. ASSUME doing = "accepted" PROVE Parses = {<<arguments, typeAt>>}
      <4>1. arguments = {} /\ typeAt = 1 /\ TypeRead(1, End)
        BY <3>1, <3>2, FieldParsed
      <4>2. IsDescriptor(text, 1, Len(text) + 1)
        BY <2>1, <2>3, <4>1 DEF TypeRead
      <4>. QED BY <3>1, <4>1, <4>2 DEF FieldParses
    <3>3. doing = "refused" => Parses = {}
      BY <3>1, FieldParsed
    <3>. QED BY <3>2, <3>3
  <2>4. ASSUME parser = "macro", ~Dotted(text)
        PROVE  /\ doing = "accepted" /\ (\A p \in arguments : text[p] # "V") /\ ~InName(text, "[")
                     => Parses = {<<arguments, typeAt>>}
               /\ doing = "refused" /\ ~InName(text, ")") => Parses = {}
    <3>1. ~IsClass /\ Parses = MethodParses(text) \union FieldParses(text)
      BY <2>4 DEF IsClass, Parses
    <3>2. ASSUME ~InName(text, "["), NEW p \in Nat, NEW q \in Nat, 1 <= p, q <= Len(text) + 1,
                 text[p] # "V", TypeRead(p, q)
          PROVE  IsDescriptor(text, p, q)
      <4>1. RawType(text, p, q)
        BY <2>4, <3>2 DEF TypeRead
      <4>. QED BY <2>1, <2>4, <3>2, <4>1, RawDescriptor
    <3>3. CASE Opens(text)
      <4>1. IsMethod
        BY <2>4, <3>3 DEF IsMethod
      <4>2. FieldParses(text) = {}
        <5>1. text[1] \notin {"[", "I", "L"}
          BY <3>3 DEF Opens
        <5>2. ~IsDescriptor(text, 1, Len(text) + 1)
          BY <2>1, <5>1, VoidWord
        <5>. QED BY <5>2 DEF FieldParses
      <4>3. ASSUME doing = "accepted", \A p \in arguments : text[p] # "V", ~InName(text, "[")
            PROVE  MethodParses(text) = {<<arguments, typeAt>>}
        <5>1. \A p \in arguments : p >= 1
          BY <3>1, <4>1, <4>3 DEF SignatureInv, TakenInv, ArgumentsRead
        <5>2. \A p \in arguments : \A q \in Nat :
                 q <= Len(text) /\ TypeRead(p, q) => IsDescriptor(text, p, q)
          <6>1. SUFFICES ASSUME NEW p \in arguments, NEW q \in Nat, q <= Len(text), TypeRead(p, q)
                         PROVE  IsDescriptor(text, p, q)
            OBVIOUS
          <6>2. p \in Nat /\ 1 <= p /\ q <= Len(text) + 1 /\ text[p] # "V"
            BY <2>1, <4>3, <5>1, <6>1
          <6>. QED BY <3>2, <4>3, <6>1, <6>2
        <5>3. text[typeAt] # "V" /\ TypeRead(typeAt, End) => IsDescriptor(text, typeAt, End)
          BY <2>1, <3>2, <4>3
        <5>. QED BY <3>1, <3>3, <4>1, <4>3, <5>2, <5>3, TakenParse
      <4>4. ASSUME doing = "refused", ~InName(text, ")") PROVE MethodParses(text) = {}
        BY <4>1, <4>4 DEF SignatureInv, GrammarInv
      <4>. QED BY <3>1, <4>2, <4>3, <4>4
    <3>4. CASE ~Opens(text)
      <4>1. ~IsMethod
        BY <2>4, <3>4 DEF IsMethod
      <4>2. MethodParses(text) = {}
        BY <2>4, <3>1, <4>1, FieldParsed
      <4>3. ASSUME doing = "accepted", ~InName(text, "[") PROVE FieldParses(text) = {<<arguments, typeAt>>}
        <5>1. arguments = {} /\ typeAt = 1 /\ TypeRead(1, End) /\ text[1] # "V"
          BY <3>1, <4>1, <4>3, FieldParsed
        <5>2. IsDescriptor(text, 1, Len(text) + 1)
          BY <2>1, <3>2, <4>3, <5>1
        <5>. QED BY <5>1, <5>2 DEF FieldParses
      <4>4. doing = "refused" => FieldParses(text) = {}
        BY <3>1, <4>1, FieldParsed
      <4>. QED BY <3>1, <4>2, <4>3, <4>4
    <3>. QED BY <3>3, <3>4
  <2>5. DottedName(text) => FieldParses(SignatureText(text)) = {<<{}, 1>>}
    <3>1. DottedName(text) => IsDescriptor(SignatureText(text), 1, Len(SignatureText(text)) + 1)
      BY <2>1, ClassText
    <3>. QED BY <3>1 DEF FieldParses
  <2>. QED BY <2>2, <2>3, <2>4, <2>5 DEF SignaturesRight
<1>. QED BY <1>1, SignatureInvariant, PTL

(* The steps that are left at most *)
StepsLeft ==
    IF doing \in {"accepted", "refused"} THEN 0
    ELSE (End - rest) + (IF doing = "start" THEN 2 ELSE 1)

(* Every step reads further or decides, so that a text of n characters is parsed, or refused, in
   at most n + 2 steps. *)
THEOREM ParsersEnd == SignatureSpec => [][StepsLeft' \in Nat /\ StepsLeft' < StepsLeft]_sigVars
<1>1. SignatureInv /\ [SignatureNext]_sigVars => [StepsLeft' \in Nat /\ StepsLeft' < StepsLeft]_sigVars
  <2>. SUFFICES ASSUME SignatureInv, SignatureNext PROVE StepsLeft' \in Nat /\ StepsLeft' < StepsLeft
    OBVIOUS
  <2>1. /\ rest \in Nat /\ slice \in Nat /\ Len(text) \in Nat /\ rest <= slice /\ slice <= End
        /\ End = Len(text) + 1 /\ typeAt <= rest /\ typeAt \in Nat /\ 1 <= rest
    BY SignatureFacts
  <2>2. End' = Len(text') + 1
    BY DEF End
  <2>3. /\ doing = "start" => rest = 1 /\ StepsLeft = Len(text) + 2
        /\ doing \in {"args", "return", "field"} => StepsLeft = (End - rest) + 1 /\ StepsLeft >= 1
    BY <2>1 DEF SignatureInv, SignaturePlaceInv, StepsLeft
  <2>4. ASSUME text' = text, doing \in {"start", "args", "return", "field"}, doing' \in {"accepted", "refused"}
        PROVE  StepsLeft' \in Nat /\ StepsLeft' < StepsLeft
    <3>1. StepsLeft' = 0
      BY <2>4 DEF StepsLeft
    <3>. QED BY <2>1, <2>3, <2>4, <3>1
  <2>5. ASSUME text' = text, doing \in {"args", "return", "field"}, doing' \in {"args", "return", "field"},
               rest' \in Nat, rest < rest', rest' <= End
        PROVE  StepsLeft' \in Nat /\ StepsLeft' < StepsLeft
    <3>1. StepsLeft' = (End - rest') + 1
      BY <2>1, <2>2, <2>5 DEF StepsLeft
    <3>. QED BY <2>1, <2>3, <2>5, <3>1
  <2>6. CASE BeginMethod
    <3>1. text' = text /\ doing = "start" /\ doing' = "args" /\ rest' = 2 /\ Opens(text)
      BY <2>6 DEF BeginMethod
    <3>2. StepsLeft' = (End - 2) + 1 /\ Len(text) >= 1
      BY <2>1, <2>2, <3>1, SignatureFacts DEF StepsLeft, Opens
    <3>. QED BY <2>1, <2>3, <3>1, <3>2
  <2>7. CASE BeginField
    <3>1. text' = text /\ doing = "start" /\ doing' = "field" /\ rest' = rest
      BY <2>7 DEF BeginField
    <3>2. StepsLeft' = (End - rest) + 1
      BY <2>1, <2>2, <3>1 DEF StepsLeft
    <3>. QED BY <2>1, <2>3, <3>1, <3>2
  <2>8. CASE TakeClass \/ NoParentheses
    BY <2>4, <2>8 DEF TakeClass, NoParentheses, Refuse
  <2>9. CASE Refuse /\ doing \in {"args", "return", "field"}
    BY <2>4, <2>9 DEF Refuse
  <2>10. ASSUME NEW e \in Nat, rest < e, e <= slice, TypeEnds(e), doing \in {"args", "return", "field"}
         PROVE  StepsLeft' \in Nat /\ StepsLeft' < StepsLeft
    <3>1. text' = text /\ rest' = e /\ doing' \in {doing, "accepted", "refused"}
      BY <2>10 DEF TypeEnds
    <3>. QED BY <2>1, <2>4, <2>5, <2>10, <3>1
  <2>11. CASE EndOfArguments
    <3>1. text' = text /\ doing = "args" /\ doing' = "return" /\ rest' = rest + 1
      BY <2>11 DEF EndOfArguments
    <3>2. rest < End
      <4>1. CASE parser = "macro"
        BY <2>1, <2>11, <4>1 DEF EndOfArguments, ArgumentsEnd, SignatureInv, SignaturePlaceInv
      <4>2. CASE parser # "macro"
        BY <2>1, <2>11, <4>2 DEF EndOfArguments, ArgumentsEnd, Here
      <4>. QED BY <4>1, <4>2
    <3>. QED BY <2>1, <2>5, <3>1, <3>2
  <2>12. ASSUME text' = text, doing \in {"args", "return", "field"}, doing' = doing, rest' = rest + 1, rest < slice
         PROVE  StepsLeft' \in Nat /\ StepsLeft' < StepsLeft
    BY <2>1, <2>5, <2>12
  <2>13. CASE Bracket \/ ObjectBegins
    BY <2>12, <2>13 DEF Bracket, ObjectBegins, InType, Here
  <2>14. CASE Primitive
    <3>1. /\ doing \in {"args", "return", "field"} /\ rest < slice
          /\ Refuse \/ TypeEnds(rest + 1)
      BY <2>14 DEF Primitive, InType, Here
    <3>2. rest + 1 \in Nat /\ rest < rest + 1 /\ rest + 1 <= slice
      BY <2>1, <3>1
    <3>. QED BY <2>9, <2>10, <3>1, <3>2
  <2>15. CASE NoType
    BY <2>9, <2>15 DEF NoType, InType
  <2>16. CASE ObjectName
    <3>1. doing \in {"args", "return", "field"}
      BY <2>16 DEF ObjectName
    <3>2. CASE NameGoesOn /\ rest' = rest + 1 /\ UNCHANGED <<text, parser, doing, typeAt, object, slice, arguments>>
      <4>1. rest < slice /\ text' = text /\ doing' = doing /\ rest' = rest + 1
        BY <3>2 DEF NameGoesOn, Unqualified, Here
      <4>. QED BY <2>12, <3>1, <4>1
    <3>3. CASE NameEnds /\ TypeEnds(rest + 1)
      <4>1. rest + 1 \in Nat /\ rest < rest + 1 /\ rest + 1 <= slice
        BY <2>1, <3>3 DEF NameEnds, Here
      <4>. QED BY <2>10, <3>1, <3>3, <4>1
    <3>4. CASE Refuse
      BY <2>9, <3>1, <3>4
    <3>. QED BY <2>16, <3>2, <3>3, <3>4 DEF ObjectName
  <2>17. CASE RawObject
    <3>1. doing \in {"args", "return", "field"}
      BY <2>17 DEF RawObject, InType
    <3>2. ASSUME NEW end \in rest + 1..slice - 1, TypeEnds(end + 1)
          PROVE  StepsLeft' \in Nat /\ StepsLeft' < StepsLeft
      <4>1. end + 1 \in Nat /\ rest < end + 1 /\ end + 1 <= slice
        BY <2>1
      <4>. QED BY <2>10, <3>1, <3>2, <4>1
    <3>. QED BY <2>9, <2>17, <3>1, <3>2 DEF RawObject
  <2>. QED BY <2>6, <2>7, <2>8, <2>11, <2>13, <2>14, <2>15, <2>16, <2>17 DEF SignatureNext
<1>. QED BY <1>1, SignatureInvariant, PTL DEF SignatureSpec
===============================================================================
