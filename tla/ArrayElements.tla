---------------------------- MODULE ArrayElements ----------------------------
(***************************************************************************)
(* Memory of the JVM that Rust borrows on one thread: AutoElements and     *)
(* AutoElementsCritical on the elements of a primitive array, MUTF8Chars   *)
(* on the characters of a String; and the copying of array regions and     *)
(* single elements (objects/type_array.rs, objects/jobject_array.rs).      *)
(*                                                                         *)
(* None of the three guards can be sent to another thread, so one thread   *)
(* is enough.  The JVM gives out a buffer that is a copy or the array      *)
(* itself ("pinned"), and uses the address of a released buffer again.     *)
(* `usize` is unbounded here, `jsize` has the range -JsizeMax-1..JsizeMax. *)
(***************************************************************************)
EXTENDS Integers, FiniteSets

CONSTANTS Arrays, Strings, Nil,
          Handles,      \* the guards of the program
          Buffers,      \* the addresses the JVM may return
          Values,       \* of the elements of an array
          Length,       \* of every array
          JsizeMax,
          MaxSlice,     \* bound: of the length of a Rust slice
          Environment   \* what may go wrong around the code

Environments == {"no_memory", "frame_fails", "outlives"}

ASSUME ArrayElementsAssumption ==
    /\ Nil \notin Arrays \union Strings \union Buffers
    /\ Arrays \intersect Strings = {}
    /\ Length \in Nat /\ JsizeMax \in Nat /\ Length <= JsizeMax
    /\ MaxSlice \in Nat \ {0}
    /\ Environment \subseteq Environments

VARIABLES
    attachment, \* "none", "attached" to the JVM, or "guarded": an AttachGuard is live
    pending,    \* whether a Java exception is pending
    contents,   \* Array |-> its elements
    buffer,     \* the JVM's ledger: Buffer |-> what it was given out for
    handle,     \* Handle |-> the guard, or the raw parts, the program holds
    stranded,   \* the buffers whose guard was dropped on a detached thread
    intruded,   \* whether a JNI function was called inside a critical section
    outcome     \* of the last operation

thread == <<attachment, pending>>
memory == <<contents, buffer, handle>>
ghosts == <<stranded, intruded>>
vars == <<thread, memory, ghosts, outcome>>

Kinds == {"elements", "critical", "chars"}
Modes == {"CopyBack", "NoCopyBack"}
Data == [1..Length -> Values]

NoData == <<>>
Free == [obj |-> Nil, kind |-> "free", copy |-> FALSE, data |-> NoData]
NoHandle == [state |-> "none", kind |-> "none", obj |-> Nil, buf |-> Nil, mode |-> "CopyBack"]

Done(op, result) == [op |-> op, result |-> result, start |-> 0, size |-> 0, moved |-> 0]
Moved(op, result, start, size, moved) ==
    [op |-> op, result |-> result, start |-> start, size |-> size, moved |-> moved]

Jsize == (-JsizeMax - 1)..JsizeMax
Indices == Jsize \union 0..MaxSlice

Operations == {"none", "elements", "critical", "chars", "write", "commit", "drop", "discard", "into_raw", "from_raw",
               "throw", "get_region", "set_region", "get_element", "set_element"}
Results == {"ok", "NullPtr", "JavaException", "NoMemory", "InvalidArguments",
            "IndexOutOfBounds", "WrongObjectType", "ThreadDetached", "FrameFailed"}

TypeOK ==
    /\ attachment \in {"none", "attached", "guarded"}
    /\ pending \in BOOLEAN
    /\ contents \in [Arrays -> Data]
    /\ buffer \in [Buffers -> [obj : Arrays \union Strings \union {Nil}, kind : Kinds \union {"free"},
                               copy : BOOLEAN, data : Data \union {NoData}]]
    /\ handle \in [Handles -> [state : {"none", "live", "raw"}, kind : Kinds \union {"none"},
                               obj : Arrays \union Strings \union {Nil},
                               buf : Buffers \union {Nil}, mode : Modes]]
    /\ stranded \subseteq Buffers
    /\ intruded \in BOOLEAN
    /\ outcome \in [op : Operations, result : Results, start : Indices,
                    size : 0..MaxSlice, moved : 0..JsizeMax]

Init ==
    /\ attachment \in {"none", "attached"}
    /\ pending = FALSE
    /\ contents \in [Arrays -> Data]
    /\ buffer = [b \in Buffers |-> Free]
    /\ handle = [h \in Handles |-> NoHandle]
    /\ stranded = {}
    /\ intruded = FALSE
    /\ outcome = Done("none", "ok")

Live(h) == handle[h].state = "live"
Mutable(h) == Live(h) /\ handle[h].kind \in {"elements", "critical"}
InCritical == \E b \in Buffers : buffer[b].kind = "critical"

(* The thread has an Env and keeps to the rules of a critical section. *)
HasEnv == attachment = "guarded" /\ ~InCritical

(* The contract of get_elements: no other guard for the array. *)
Unaliased(obj) == obj \in Arrays => \A h \in Handles : Live(h) => handle[h].obj # obj

-------------------------------------------------------------------------------
(* The program around the guards *)

EnterScope ==
    /\ attachment # "guarded"
    /\ attachment' = "guarded"
    /\ outcome' = Done("none", "ok")
    /\ UNCHANGED <<pending, memory, ghosts>>

(* The outermost AttachGuard is dropped; a thread that it attached for a scope is detached.
   A guard on what a Global refers to borrows the Global, not the scope: it may outlive it.
   (But not in a critical section, which DetachCurrentThread must not interrupt.) *)
LeaveScope ==
    /\ HasEnv
    /\ "outlives" \in Environment \/ \A h \in Handles : ~Live(h)
    /\ attachment' \in {"none", "attached"}
    /\ pending' = (pending /\ attachment' = "attached")
    /\ outcome' = Done("none", "ok")
    /\ UNCHANGED <<memory, ghosts>>

(* Code the program calls throws, or an exception is cleared. *)
Throw ==
    /\ HasEnv
    /\ pending' = ~pending
    /\ outcome' = Done("throw", "ok")
    /\ UNCHANGED <<attachment, memory, ghosts>>

(* A write through deref_mut: into the JVM's copy, or into the array itself *)
Write(h) ==
    /\ Mutable(h)
    /\ \E i \in 1..Length, v \in Values :
          IF buffer[handle[h].buf].copy
          THEN buffer' = [buffer EXCEPT ![handle[h].buf].data[i] = v] /\ UNCHANGED contents
          ELSE contents' = [contents EXCEPT ![handle[h].obj][i] = v] /\ UNCHANGED buffer
    /\ outcome' = Done("write", "ok")
    /\ UNCHANGED <<thread, handle, ghosts>>

-------------------------------------------------------------------------------
(* Get<Type>ArrayElements, GetPrimitiveArrayCritical and GetStringUTFChars *)

Targets(kind) == IF kind = "chars" THEN Strings ELSE Arrays

(* What is called once the JVM has answered with a buffer *)
AfterSuccess(kind) == IF kind = "elements" THEN {"ExceptionCheck"} ELSE {}

(* A null reference, or a pending exception: the buffer is not asked for. *)
GetRefused(h, kind) ==
    /\ HasEnv /\ handle[h] = NoHandle
    /\ \E obj \in Targets(kind) \union {Nil} :
          /\ obj = Nil \/ pending
          /\ outcome' = Done(kind, IF obj = Nil THEN "NullPtr" ELSE "JavaException")
    /\ UNCHANGED <<thread, memory, ghosts>>

GetBuffer(h, kind) ==
    /\ HasEnv /\ ~pending /\ handle[h] = NoHandle
    /\ \E obj \in Targets(kind), b \in Buffers, copy \in BOOLEAN, mode \in Modes :
          /\ Unaliased(obj)
          /\ buffer[b] = Free
          /\ kind = "chars" => mode = "NoCopyBack"
          /\ buffer' = [buffer EXCEPT ![b] =
                           [obj |-> obj, kind |-> kind, copy |-> copy,
                            data |-> IF copy /\ kind # "chars" THEN contents[obj] ELSE NoData]]
          /\ handle' = [handle EXCEPT ![h] =
                           [state |-> "live", kind |-> kind, obj |-> obj, buf |-> b, mode |-> mode]]
    /\ intruded' = (intruded \/ (kind = "critical" /\ AfterSuccess(kind) # {}))
    /\ outcome' = Done(kind, "ok")
    /\ UNCHANGED <<thread, contents, stranded>>

(* Mutant: the exception becomes an error but is not cleared. *)
CaughtUncleared(failure) == pending' = TRUE /\ outcome' = failure

(* An exception of a call with `catch` is cleared, and becomes the error of the call, in a
   local frame; the error is another one, and an exception stays, if there is no frame. *)
Caught(failure) ==
    \/ /\ pending' = FALSE
       /\ outcome' = failure
    \/ /\ "frame_fails" \in Environment
       /\ pending' = TRUE
       /\ outcome' = [failure EXCEPT !.result = "FrameFailed"]

(* The JVM returns NULL, and may have thrown OutOfMemoryError. *)
GetFails(h, kind) ==
    /\ "no_memory" \in Environment
    /\ HasEnv /\ ~pending /\ handle[h] = NoHandle
    /\ \E thrown \in BOOLEAN :
          CASE kind = "elements" ->
                 IF thrown THEN Caught(Done(kind, "NoMemory"))
                 ELSE UNCHANGED pending /\ outcome' = Done(kind, "NullPtr")
            [] kind = "critical" ->
                 /\ pending' = FALSE
                 /\ outcome' = Done(kind, "NoMemory")
            [] kind = "chars" ->
                 /\ pending' = thrown
                 /\ outcome' = Done(kind, "NullPtr")
    /\ UNCHANGED <<attachment, memory, ghosts>>

-------------------------------------------------------------------------------
(* Release<Type>ArrayElements, ReleasePrimitiveArrayCritical and ReleaseStringUTFChars *)

(* What with_top_local_frame and the call macro call before the release *)
BeforeRelease == IF attachment = "guarded" THEN {} ELSE {"GetEnv"}

(* The JVM's part: a copy is written back unless the mode is NoCopyBack (JNI_ABORT). *)
WriteBack(h, mode) ==
    LET held == buffer[handle[h].buf] IN
    contents' = IF held.kind # "chars" /\ held.copy /\ mode # "NoCopyBack"
                THEN [contents EXCEPT ![held.obj] = held.data]
                ELSE contents

(* Inside a critical section only the guard of the section may be released. *)
MayRelease(h) == Live(h) /\ (InCritical => handle[h].kind = "critical")

(* Mutant: commit with mode 0, which frees the buffer as well. *)
CommitFreeing(h) ==
    /\ MayRelease(h) /\ handle[h].kind = "elements"
    /\ attachment # "none"
    /\ WriteBack(h, "CopyBack")
    /\ buffer' = [buffer EXCEPT ![handle[h].buf] = Free]
    /\ outcome' = Done("commit", "ok")
    /\ UNCHANGED <<thread, handle, ghosts>>

Commit(h) ==
    /\ MayRelease(h) /\ handle[h].kind = "elements"
    /\ attachment # "none"
    /\ WriteBack(h, "Commit")
    /\ outcome' = Done("commit", "ok")
    /\ UNCHANGED <<thread, buffer, handle, ghosts>>

Release(h, mode, op) ==
    /\ MayRelease(h)
    /\ attachment # "none"
    /\ WriteBack(h, mode)
    /\ buffer' = [buffer EXCEPT ![handle[h].buf] = Free]
    /\ handle' = [handle EXCEPT ![h] = NoHandle]
    /\ intruded' = (intruded \/ (handle[h].kind = "critical" /\ BeforeRelease # {}))
    /\ outcome' = Done(op, "ok")
    /\ UNCHANGED <<thread, stranded>>

(* with_top_local_frame fails: the error is logged, and returned by commit only. *)
ReleaseDetached(h, op) ==
    /\ MayRelease(h)
    /\ attachment = "none"
    /\ op = "commit" => handle[h].kind = "elements"
    /\ IF op = "commit" THEN UNCHANGED <<handle, stranded>>
       ELSE /\ handle' = [handle EXCEPT ![h] = NoHandle]
            /\ stranded' = stranded \union {handle[h].buf}
    /\ outcome' = Done(op, "ThreadDetached")
    /\ UNCHANGED <<thread, contents, buffer, intruded>>

Drop(h) == Release(h, handle[h].mode, "drop")

(* Mutant: discard does not change the mode before the drop. *)
DiscardAsMade(h) == handle[h].kind # "chars" /\ Release(h, handle[h].mode, "discard")

Discard(h) == handle[h].kind # "chars" /\ Release(h, "NoCopyBack", "discard")

(* MUTF8Chars::into_raw and from_raw *)
IntoRaw(h) ==
    /\ Live(h) /\ handle[h].kind = "chars"
    /\ handle' = [handle EXCEPT ![h].state = "raw"]
    /\ outcome' = Done("into_raw", "ok")
    /\ UNCHANGED <<thread, contents, buffer, ghosts>>

FromRaw(h) ==
    /\ handle[h].state = "raw" /\ attachment = "guarded"
    /\ handle' = [handle EXCEPT ![h].state = "live"]
    /\ outcome' = Done("from_raw", "ok")
    /\ UNCHANGED <<thread, contents, buffer, ghosts>>

-------------------------------------------------------------------------------
(* get_region, set_region, get_element and set_element *)

(* Mutant: a cast to a type narrower than jsize *)
AsJsizeNarrow(n) == n % (JsizeMax + 1)

(* `n as jsize` *)
AsJsize(n) ==
    LET wrapped == n % (2 * (JsizeMax + 1)) IN
    IF wrapped > JsizeMax THEN wrapped - 2 * (JsizeMax + 1) ELSE wrapped

(* What the JVM accepts *)
InBounds(start, len) == start >= 0 /\ len >= 0 /\ start + len <= Length

(* An element of slice contents v is put at every position of the region. *)
Filled(a, start, len, v) == [i \in 1..Length |-> IF start < i /\ i <= start + len THEN v ELSE contents[a][i]]

(* The call answers, or throws ArrayIndexOutOfBoundsException, which becomes an error. *)
Region(op, start, size) ==
    LET len == AsJsize(size) IN
    IF InBounds(start, len)
    THEN UNCHANGED pending /\ outcome' = Moved(op, "ok", start, size, len)
    ELSE Caught(Moved(op, "IndexOutOfBounds", start, size, 0))

Accesses == {"get_region", "set_region", "get_element", "set_element"}

(* A null array, or a pending exception *)
AccessRefused(op) ==
    /\ HasEnv
    /\ \E null \in BOOLEAN :
          /\ null \/ pending
          /\ outcome' = Done(op, IF null THEN "NullPtr" ELSE "JavaException")
    /\ UNCHANGED <<thread, memory, ghosts>>

GetRegion ==
    /\ HasEnv /\ ~pending
    /\ \E a \in Arrays, start \in Jsize, size \in 0..MaxSlice :
          Unaliased(a) /\ Region("get_region", start, size)
    /\ UNCHANGED <<attachment, memory, ghosts>>

SetRegion ==
    /\ HasEnv /\ ~pending
    /\ \E a \in Arrays, start \in Jsize, size \in 0..MaxSlice, v \in Values :
          /\ Unaliased(a)
          /\ Region("set_region", start, size)
          /\ contents' = IF InBounds(start, AsJsize(size))
                         THEN [contents EXCEPT ![a] = Filled(a, start, AsJsize(size), v)]
                         ELSE contents
    /\ UNCHANGED <<attachment, buffer, handle, ghosts>>

(* The index of one element, a usize, is checked before it becomes a jsize. *)
IndexTooLarge(op) ==
    /\ HasEnv
    /\ \E index \in 0..MaxSlice :
          /\ index > JsizeMax
          /\ outcome' = Moved(op, "InvalidArguments", index, 1, 0)
    /\ UNCHANGED <<thread, memory, ghosts>>

GetElement ==
    /\ HasEnv /\ ~pending
    /\ \E a \in Arrays, index \in 0..MaxSlice :
          Unaliased(a) /\ index <= JsizeMax /\ Region("get_element", index, 1)
    /\ UNCHANGED <<attachment, memory, ghosts>>

SetElement ==
    /\ HasEnv /\ ~pending
    /\ \E a \in Arrays, index \in 0..MaxSlice, v \in Values :
          /\ Unaliased(a)
          /\ index <= JsizeMax
          /\ Region("set_element", index, 1)
          /\ contents' = IF InBounds(index, 1)
                         THEN [contents EXCEPT ![a][index + 1] = v]
                         ELSE contents
    /\ UNCHANGED <<attachment, buffer, handle, ghosts>>

(* ArrayStoreException: the value is not of the element type. *)
SetElementOfWrongType ==
    /\ HasEnv /\ ~pending
    /\ \E index \in 0..MaxSlice :
          /\ index <= JsizeMax /\ InBounds(index, 1)
          /\ Caught(Moved("set_element", "WrongObjectType", index, 1, 0))
    /\ UNCHANGED <<attachment, memory, ghosts>>

-------------------------------------------------------------------------------
Access ==
    \/ \E op \in Accesses : AccessRefused(op)
    \/ \E op \in {"get_element", "set_element"} : IndexTooLarge(op)
    \/ GetRegion \/ SetRegion \/ GetElement \/ SetElement \/ SetElementOfWrongType

Borrow(h) ==
    \/ \E kind \in Kinds : GetRefused(h, kind) \/ GetBuffer(h, kind) \/ GetFails(h, kind)
    \/ Write(h) \/ Commit(h) \/ Drop(h) \/ Discard(h)
    \/ \E op \in {"commit", "drop", "discard"} : ReleaseDetached(h, op)
    \/ IntoRaw(h) \/ FromRaw(h)

Next == EnterScope \/ LeaveScope \/ Throw \/ Access \/ \E h \in Handles : Borrow(h)

Spec == Init /\ [][Next]_vars

-------------------------------------------------------------------------------
(* A guard, or the raw parts of one, is responsible for buffer b. *)
Holders(b) == {h \in Handles : handle[h].state # "none" /\ handle[h].buf = b}

(* Every buffer of the JVM has exactly one guard (or the raw parts of one) that will release
   it, with the array or string it belongs to, and no guard has a buffer that was released or
   that the JVM has given to somebody else: nothing is leaked, released twice or used after
   its release (AutoElements, AutoElementsCritical and MUTF8Chars with their drops).  Only
   the drop of a guard on a detached thread strands its buffer. *)
BuffersOwned ==
    /\ \A b \in Buffers \ stranded : buffer[b] # Free => \E h \in Handles : Holders(b) = {h}
    /\ \A b \in stranded : Holders(b) = {}
    /\ \A h \in Handles : handle[h].state # "none" =>
          /\ buffer[handle[h].buf].obj = handle[h].obj
          /\ buffer[handle[h].buf].kind = handle[h].kind

(* Inside a critical section the crate calls no JNI function but the release: no exception
   check after GetPrimitiveArrayCritical, no GetEnv before ReleasePrimitiveArrayCritical. *)
CriticalUndisturbed == ~intruded

(* The elements as the holder of guard h sees them *)
View(h) ==
    IF buffer[handle[h].buf].copy THEN buffer[handle[h].buf].data ELSE contents[handle[h].obj]

(* When a guard goes, or commits, its array has the elements its holder saw, unless they are a
   copy and the guard is discarded or was made with NoCopyBack: then the array keeps what it
   had at the last commit.  No other array changes. *)
ReleasesHonourMode ==
    [][\A h \in Handles :
         (/\ outcome'.op \in {"drop", "discard", "commit"} /\ outcome'.result = "ok"
          /\ Mutable(h) /\ (outcome'.op = "commit" \/ handle'[h] = NoHandle)
          /\ \A g \in Handles \ {h} : ~Mutable(g))
         => contents' = [contents EXCEPT ![handle[h].obj] =
               IF outcome'.op = "discard" \/ (outcome'.op = "drop" /\ handle[h].mode = "NoCopyBack")
               THEN @ \* a pinned array has the writes already
               ELSE View(h)]]_vars

(* No operation on borrowed memory takes a pending exception away, and none leaves one that
   was not there, but for GetStringUTFChars, whose OutOfMemoryError is not caught, and for a
   catch that found no local frame: the guards are dropped, and fail, in the middle of others'
   error handling. *)
ExceptionsKept ==
    [][pending' # pending =>
         \/ outcome'.op = "throw"
         \/ pending /\ attachment' = "none"
         \/ pending' /\ (outcome'.op = "chars" \/ outcome'.result = "FrameFailed")]_vars

(* What a call that reached the array answers if the slice, or the element, is in it, and if it
   is not *)
WholeMoved == outcome.result = "ok" /\ outcome.moved = outcome.size
OutOfBounds == outcome.result \in {"IndexOutOfBounds", "FrameFailed"} /\ outcome.moved = 0

(* Two calls out of bounds are answered otherwise than documented.  An index above i32::MAX is
   InvalidArguments; and of a slice so long that buf.len(), as a jsize, is a small length again,
   the remainder is moved and the call is Ok. *)
IndexRejected ==
    outcome.op \in {"get_element", "set_element"} /\ outcome.start > JsizeMax
LengthWrapped == LET remainder == outcome.size % (2 * (JsizeMax + 1)) IN
    /\ outcome.size > 2 * JsizeMax + 1
    /\ InBounds(outcome.start, remainder)

(* get_region and set_region move the whole slice, and get_element and set_element their
   element, if it is in the array; if `start` is negative or start + buf.len() is past the end
   they move nothing and return IndexOutOfBounds (FrameFailed if the exception cannot be
   caught), but for the two cases above.  A value of the wrong type is not stored. *)
RegionsAsDocumented ==
    outcome.op \in Accesses /\ outcome.result \notin {"NullPtr", "JavaException"} =>
        IF InBounds(outcome.start, outcome.size)
        THEN \/ WholeMoved
             \/ /\ outcome.op = "set_element" /\ outcome.moved = 0
                /\ outcome.result \in {"WrongObjectType", "FrameFailed"}
        ELSE IF IndexRejected
        THEN outcome.result = "InvalidArguments" /\ outcome.moved = 0
        ELSE IF LengthWrapped
        THEN outcome.result = "ok" /\ outcome.moved = outcome.size % (2 * (JsizeMax + 1))
        ELSE OutOfBounds

===============================================================================
