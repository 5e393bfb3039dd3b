--------------------------- MODULE ThreadAttachment ---------------------------
(***************************************************************************)
(* Thread attachment of the jni crate: vm/java_vm.rs together with         *)
(* vm/tls_attach_guard.rs (the TLS build, every platform but Windows).     *)
(*                                                                         *)
(* A thread attaches to the JVM permanently (a record in thread-local      *)
(* storage detaches it when the thread ends) or for a scope (an owning     *)
(* AttachGuard detaches it when dropped).  Guards nest; THREAD_ATTACHMENT  *)
(* caches the JNIEnv while a guard lives, THREAD_GUARD_NEST_LEVEL counts   *)
(* guards, and ATTACHED_THREADS, shared by all threads, counts the         *)
(* attachments this crate made.                                            *)
(*                                                                         *)
(* The stack of a thread holds its guards and the Java activations between *)
(* them: native code calls Java, Java calls native methods, and a native   *)
(* method makes a guard of the raw JNIEnv it is given.  Everything but     *)
(* ATTACHED_THREADS is thread-local, so the steps that matter to other     *)
(* threads are the JVM call and the atomic update of the counter; they are *)
(* separate steps.  A JNIEnv is named by the number of the attachment.     *)
(***************************************************************************)
EXTENDS Integers, Sequences, FiniteSets

CONSTANTS Threads,      \* all threads of the process
          JavaThreads,  \* those the JVM started: attached for their whole life
          MaxAttach,    \* bound: attachments of one thread
          MaxDepth,     \* bound: frames on the stack of one thread
          Environment   \* what the world around the crate does, see below

(***************************************************************************)
(*   "attach_fails"    the JVM may refuse AttachCurrentThread              *)
(*   "foreign_attach"  other JNI code attaches and detaches threads        *)
(*   "foreign_calls"   other JNI code calls Java on a thread this crate    *)
(*                     has no guard on                                     *)
(***************************************************************************)
Environments == {"attach_fails", "foreign_attach", "foreign_calls"}

ASSUME ThreadsAssumption == IsFiniteSet(Threads) /\ JavaThreads \subseteq Threads
ASSUME BoundsAssumption == MaxAttach \in Nat \ {0} /\ MaxDepth \in Nat \ {0}
ASSUME EnvironmentAssumption == Environment \subseteq Environments

VARIABLES
    origin,             \* who made the thread's JVM attachment, "none": detached
    attachNumber,       \* number of the thread's last attachment: its JNIEnv
    stack,              \* guards and Java activations, innermost last
    threadAttachment,   \* THREAD_ATTACHMENT
    nestLevel,          \* THREAD_GUARD_NEST_LEVEL
    tlsAttachGuard,     \* TLS_ATTACH_GUARD holds a record
    attachedThreads,    \* ATTACHED_THREADS
    pc,                 \* the step the thread is at
    refused             \* history: records forgotten because AttachCurrentThread was
                        \* refused, and whether the last DetachCurrentThread was

threadLocals == <<threadAttachment, nestLevel>>
jvm == <<origin, attachNumber, refused>>
vars == <<origin, attachNumber, stack, threadAttachment, nestLevel,
          tlsAttachGuard, attachedThreads, pc, refused>>

NullEnv == 0
Env == 1..MaxAttach
Origins == {"none", "java", "foreign", "crate"}
FrameKinds == {"owned", "unowned", "java"}
(* env: the JNIEnv of the frame; level: the guard level once it is pushed *)
Frame == [kind : FrameKinds, env : Nat, level : Nat]
(* "panicked": an assertion of the crate failed *)
Steps == {"run", "count_scoped", "count_permanent", "uncount", "uncount_exit",
          "dead", "panicked"}

TypeOK ==
    /\ origin \in [Threads -> Origins]
    /\ attachNumber \in [Threads -> Nat]
    /\ stack \in [Threads -> Seq(Frame)]
    /\ threadAttachment \in [Threads -> Nat]
    /\ nestLevel \in [Threads -> Nat]
    /\ tlsAttachGuard \in [Threads -> BOOLEAN]
    /\ attachedThreads \in Int
    /\ pc \in [Threads -> Steps]

Attached(t) == origin[t] # "none"
Top(t) == stack[t][Len(stack[t])]
Below(t) == SubSeq(stack[t], 1, Len(stack[t]) - 1)
JavaFrame(e) == [kind |-> "java", env |-> e, level |-> 0]

(* A thread the JVM started runs on top of the Java frame of its run(). *)
Init ==
    /\ origin = [t \in Threads |-> IF t \in JavaThreads THEN "java" ELSE "none"]
    /\ attachNumber = [t \in Threads |-> IF t \in JavaThreads THEN 1 ELSE 0]
    /\ stack = [t \in Threads |-> IF t \in JavaThreads THEN <<JavaFrame(1)>> ELSE <<>>]
    /\ threadAttachment = [t \in Threads |-> NullEnv]
    /\ nestLevel = [t \in Threads |-> 0]
    /\ tlsAttachGuard = [t \in Threads |-> FALSE]
    /\ attachedThreads = 0
    /\ pc = [t \in Threads |-> "run"]
    /\ refused = [t \in Threads |-> [forgotten |-> 0, detach |-> FALSE]]

Running(t) == pc[t] = "run"
MayPush(t) == Len(stack[t]) < MaxDepth
MayAttach(t) == attachNumber[t] < MaxAttach
Goto(t, step) == pc' = [pc EXCEPT ![t] = step]

-------------------------------------------------------------------------------
(* The bookkeeping every guard goes through. *)

(* thread_guard_level_push, and the guard made by from_owned or from_unowned *)
ThreadGuardLevelPush(t, env, kind) ==
    /\ threadAttachment' = IF nestLevel[t] = 0
                           THEN [threadAttachment EXCEPT ![t] = env]
                           ELSE threadAttachment
    /\ nestLevel' = [nestLevel EXCEPT ![t] = @ + 1]
    /\ stack' = [stack EXCEPT ![t] =
            Append(@, [kind |-> kind, env |-> env, level |-> nestLevel[t] + 1])]

(* Mutant: THREAD_ATTACHMENT survives the last guard. *)
ThreadGuardLevelPopStale(t) ==
    /\ nestLevel' = [nestLevel EXCEPT ![t] = @ - 1]
    /\ stack' = [stack EXCEPT ![t] = Below(t)]
    /\ UNCHANGED threadAttachment

(* thread_guard_level_pop of the innermost guard *)
ThreadGuardLevelPop(t) ==
    /\ nestLevel' = [nestLevel EXCEPT ![t] = @ - 1]
    /\ threadAttachment' = IF nestLevel[t] = 1
                           THEN [threadAttachment EXCEPT ![t] = NullEnv]
                           ELSE threadAttachment
    /\ stack' = [stack EXCEPT ![t] = Below(t)]

(* AttachCurrentThread succeeds and makes a new JNIEnv. *)
JvmAttach(t, by) ==
    /\ attachNumber' = [attachNumber EXCEPT ![t] = @ + 1]
    /\ origin' = [origin EXCEPT ![t] = by]
    /\ refused' = [refused EXCEPT ![t].detach = FALSE]

(***************************************************************************)
(* DetachCurrentThread.  The JVM refuses it, with an error the crate does  *)
(* not look at, while Java activations are on the stack.                   *)
(***************************************************************************)
Refused(frames) == \E i \in 1..Len(frames) : frames[i].kind = "java"
JvmDetach(t, frames) ==
    /\ origin' = IF Refused(frames) THEN origin ELSE [origin EXCEPT ![t] = "none"]
    /\ refused' = [refused EXCEPT ![t].detach = Refused(frames)]
    /\ UNCHANGED attachNumber

(***************************************************************************)
(* sys_detach_current_thread up to the counter: the cross-checks a caller  *)
(* may ask for, then the JVM call if the thread is attached.  A call that  *)
(* passes goes on to the step "next", which decrements ATTACHED_THREADS.   *)
(***************************************************************************)
SysDetachCurrentThread(t, frames, CrossCheck, next) ==
    IF CrossCheck
    THEN /\ IF Attached(t) THEN JvmDetach(t, frames) ELSE UNCHANGED jvm
         /\ Goto(t, next)
    ELSE Goto(t, "panicked") /\ UNCHANGED jvm

-------------------------------------------------------------------------------
(* attach_current_thread_guard *)

(* Mutant: the nested guard thinks that it owns the attachment. *)
AttachNestedOwned(t) ==
    /\ Running(t) /\ MayPush(t)
    /\ threadAttachment[t] # NullEnv
    /\ ThreadGuardLevelPush(t, threadAttachment[t], "owned")
    /\ UNCHANGED <<jvm, tlsAttachGuard, attachedThreads, pc>>

(* A live guard: its JNIEnv is taken from THREAD_ATTACHMENT, unchecked. *)
AttachNested(t) ==
    /\ Running(t) /\ MayPush(t)
    /\ threadAttachment[t] # NullEnv
    /\ ThreadGuardLevelPush(t, threadAttachment[t], "unowned")
    /\ UNCHANGED <<jvm, tlsAttachGuard, attachedThreads, pc>>

(* No guard, but GetEnv says the thread is attached. *)
AttachExisting(t) ==
    /\ Running(t) /\ MayPush(t)
    /\ threadAttachment[t] = NullEnv
    /\ Attached(t)
    /\ ThreadGuardLevelPush(t, attachNumber[t], "unowned")
    /\ UNCHANGED <<jvm, tlsAttachGuard, attachedThreads, pc>>

(* sys_attach_current_thread asserts that no guard is live. *)
NeedsAttach(t) ==
    /\ Running(t) /\ MayPush(t)
    /\ threadAttachment[t] = NullEnv
    /\ ~Attached(t)

(* A scoped attachment: AttachCurrentThread, then the counter. *)
AttachScoped(t) ==
    /\ NeedsAttach(t) /\ MayAttach(t)
    /\ IF nestLevel[t] = 0
       THEN JvmAttach(t, "crate") /\ Goto(t, "count_scoped")
       ELSE Goto(t, "panicked") /\ UNCHANGED jvm
    /\ UNCHANGED <<stack, threadLocals, tlsAttachGuard, attachedThreads>>

(* fetch_add, then from_owned *)
CountScoped(t) ==
    /\ pc[t] = "count_scoped"
    /\ attachedThreads' = attachedThreads + 1
    /\ ThreadGuardLevelPush(t, attachNumber[t], "owned")
    /\ Goto(t, "run")
    /\ UNCHANGED <<jvm, tlsAttachGuard>>

(***************************************************************************)
(* tls_attach_current_thread.  A record left over from an attachment that  *)
(* foreign code has undone is taken, and the counter left alone; otherwise *)
(* the counter is incremented before the record is stored.                 *)
(***************************************************************************)
AttachPermanentFirst(t) ==
    /\ NeedsAttach(t) /\ MayAttach(t)
    /\ ~tlsAttachGuard[t]
    /\ IF nestLevel[t] = 0
       THEN JvmAttach(t, "crate") /\ Goto(t, "count_permanent")
       ELSE Goto(t, "panicked") /\ UNCHANGED jvm
    /\ UNCHANGED <<stack, threadLocals, tlsAttachGuard, attachedThreads>>

CountPermanent(t) ==
    /\ pc[t] = "count_permanent"
    /\ attachedThreads' = attachedThreads + 1
    /\ tlsAttachGuard' = [tlsAttachGuard EXCEPT ![t] = TRUE]
    /\ ThreadGuardLevelPush(t, attachNumber[t], "unowned")
    /\ Goto(t, "run")
    /\ UNCHANGED jvm

(* Mutant: the re-attachment is counted too. *)
AttachPermanentAgainCounted(t) ==
    /\ NeedsAttach(t) /\ MayAttach(t)
    /\ tlsAttachGuard[t]
    /\ JvmAttach(t, "crate")
    /\ ThreadGuardLevelPush(t, attachNumber[t] + 1, "unowned")
    /\ attachedThreads' = attachedThreads + 1
    /\ UNCHANGED <<tlsAttachGuard, pc>>

AttachPermanentAgain(t) ==
    /\ NeedsAttach(t) /\ MayAttach(t)
    /\ tlsAttachGuard[t]
    /\ IF nestLevel[t] = 0
       THEN /\ JvmAttach(t, "crate")
            /\ ThreadGuardLevelPush(t, attachNumber[t] + 1, "unowned")
            /\ UNCHANGED <<tlsAttachGuard, pc>>
       ELSE /\ Goto(t, "panicked")
            /\ tlsAttachGuard' = [tlsAttachGuard EXCEPT ![t] = FALSE]
            /\ UNCHANGED <<jvm, stack, threadLocals>>
    /\ UNCHANGED attachedThreads

(* The JVM refuses: the record has already been taken and forgotten. *)
AttachPermanentFails(t) ==
    /\ "attach_fails" \in Environment
    /\ NeedsAttach(t)
    /\ tlsAttachGuard' = [tlsAttachGuard EXCEPT ![t] = FALSE]
    /\ refused' = [refused EXCEPT ![t].forgotten = IF tlsAttachGuard[t] THEN @ + 1 ELSE @]
    /\ UNCHANGED <<origin, attachNumber, stack, threadLocals, attachedThreads, pc>>

-------------------------------------------------------------------------------
(* Java calls, and native methods that make a guard of their JNIEnv *)

(* Code that holds a JNIEnv calls Java: a guard's holder, or foreign code. *)
CallJava(t) ==
    /\ Running(t) /\ MayPush(t)
    /\ Attached(t)
    /\ nestLevel[t] > 0 \/ "foreign_calls" \in Environment
    /\ stack' = [stack EXCEPT ![t] =
            Append(@, [kind |-> "java", env |-> attachNumber[t], level |-> nestLevel[t]])]
    /\ UNCHANGED <<jvm, threadLocals, tlsAttachGuard, attachedThreads, pc>>

ReturnFromJava(t) ==
    /\ Running(t)
    /\ Len(stack[t]) > IF t \in JavaThreads THEN 1 ELSE 0
    /\ Top(t).kind = "java"
    /\ stack' = [stack EXCEPT ![t] = Below(t)]
    /\ UNCHANGED <<jvm, threadLocals, tlsAttachGuard, attachedThreads, pc>>

(* EnvUnowned::with_env in a native method, or AttachGuard::from_unowned *)
EnterNative(t) ==
    /\ Running(t) /\ MayPush(t)
    /\ stack[t] # <<>> /\ Top(t).kind = "java"
    /\ ThreadGuardLevelPush(t, attachNumber[t], "unowned")
    /\ UNCHANGED <<jvm, tlsAttachGuard, attachedThreads, pc>>

-------------------------------------------------------------------------------
(* Detaching *)

(***************************************************************************)
(* AttachGuard::detach_impl, from a drop or a detach method.  It asserts   *)
(* that the guard is the innermost one and, for an owning guard, that it   *)
(* was the last one and that the JVM still has the attachment it made.     *)
(***************************************************************************)
DetachGuard(t) ==
    /\ Running(t)
    /\ stack[t] # <<>> /\ Top(t).kind # "java"
    /\ IF Top(t).level # nestLevel[t]
       THEN Goto(t, "panicked") /\ UNCHANGED <<stack, threadLocals, jvm>>
       ELSE /\ ThreadGuardLevelPop(t)
            /\ IF Top(t).kind = "owned"
               THEN SysDetachCurrentThread(t, Below(t),
                       /\ nestLevel[t] = 1
                       /\ Attached(t)
                       /\ Top(t).env = attachNumber[t], "uncount")
               ELSE UNCHANGED <<jvm, pc>>
    /\ UNCHANGED <<tlsAttachGuard, attachedThreads>>

(* Mutant: live guards do not prevent the detachment. *)
DetachCurrentThreadUnguarded(t) ==
    /\ Running(t)
    /\ tlsAttachGuard[t]
    /\ tlsAttachGuard' = [tlsAttachGuard EXCEPT ![t] = FALSE]
    /\ SysDetachCurrentThread(t, stack[t], TRUE, "uncount")
    /\ UNCHANGED <<stack, threadLocals, attachedThreads>>

(* detach_current_thread; an error under a guard, a no-op without a record *)
DetachCurrentThread(t) ==
    /\ Running(t)
    /\ nestLevel[t] = 0
    /\ tlsAttachGuard[t]
    /\ tlsAttachGuard' = [tlsAttachGuard EXCEPT ![t] = FALSE]
    /\ SysDetachCurrentThread(t, stack[t], TRUE, "uncount")
    /\ UNCHANGED <<stack, threadLocals, attachedThreads>>

(***************************************************************************)
(* A thread ends.  A Java thread has left its run() and the JVM has undone *)
(* its attachment.  The TLS destructor drops the record, if there is one.  *)
(***************************************************************************)
(* Mutant: no destructor runs for the record. *)
ThreadExitWithoutDestructor(t) ==
    /\ Running(t)
    /\ t \notin JavaThreads
    /\ stack[t] = <<>>
    /\ Goto(t, "dead")
    /\ UNCHANGED <<jvm, stack, threadLocals, tlsAttachGuard, attachedThreads>>

ThreadExit(t) ==
    /\ Running(t)
    /\ t \notin JavaThreads
    /\ stack[t] = <<>>
    /\ IF tlsAttachGuard[t]
       THEN SysDetachCurrentThread(t, stack[t], nestLevel[t] = 0, "uncount_exit")
       ELSE Goto(t, "dead") /\ UNCHANGED jvm
    /\ tlsAttachGuard' = [tlsAttachGuard EXCEPT ![t] = FALSE]
    /\ UNCHANGED <<stack, threadLocals, attachedThreads>>

JavaThreadExit(t) ==
    /\ Running(t)
    /\ t \in JavaThreads
    /\ Len(stack[t]) = 1 /\ Top(t).kind = "java"
    /\ stack' = [stack EXCEPT ![t] = <<>>]
    /\ origin' = [origin EXCEPT ![t] = "none"]
    /\ Goto(t, IF tlsAttachGuard[t] THEN "uncount_exit" ELSE "dead")
    /\ tlsAttachGuard' = [tlsAttachGuard EXCEPT ![t] = FALSE]
    /\ UNCHANGED <<attachNumber, refused, threadLocals, attachedThreads>>

(* The last step of sys_detach_current_thread: fetch_sub *)
Uncount(t) ==
    /\ pc[t] \in {"uncount", "uncount_exit"}
    /\ attachedThreads' = attachedThreads - 1
    /\ Goto(t, IF pc[t] = "uncount" THEN "run" ELSE "dead")
    /\ UNCHANGED <<jvm, stack, threadLocals, tlsAttachGuard>>

-------------------------------------------------------------------------------
(* Foreign JNI code.  It may detach a thread only while no guard is live. *)

ForeignAttach(t) ==
    /\ "foreign_attach" \in Environment
    /\ Running(t) /\ MayAttach(t)
    /\ ~Attached(t)
    /\ JvmAttach(t, "foreign")
    /\ UNCHANGED <<stack, threadLocals, tlsAttachGuard, attachedThreads, pc>>

ForeignDetach(t) ==
    /\ "foreign_attach" \in Environment
    /\ Running(t)
    /\ Attached(t)
    /\ stack[t] = <<>>
    /\ JvmDetach(t, stack[t])
    /\ UNCHANGED <<stack, threadLocals, tlsAttachGuard, attachedThreads, pc>>

Terminated == (\A t \in Threads : pc[t] = "dead") /\ UNCHANGED vars

Next ==
    \/ \E t \in Threads :
        \/ AttachNested(t) \/ AttachExisting(t)
        \/ AttachScoped(t) \/ CountScoped(t)
        \/ AttachPermanentFirst(t) \/ CountPermanent(t)
        \/ AttachPermanentAgain(t) \/ AttachPermanentFails(t)
        \/ CallJava(t) \/ ReturnFromJava(t) \/ EnterNative(t)
        \/ DetachGuard(t) \/ DetachCurrentThread(t) \/ Uncount(t)
        \/ ThreadExit(t) \/ JavaThreadExit(t)
        \/ ForeignAttach(t) \/ ForeignDetach(t)
    \/ Terminated

Spec == Init /\ [][Next]_vars

-------------------------------------------------------------------------------
(* Properties *)

(***************************************************************************)
(* A JNIEnv that a guard lends out, or that THREAD_ATTACHMENT offers to    *)
(* the next nested guard without asking the JVM, is the one the JVM has    *)
(* for the thread now; the pointer is there exactly while a guard lives.   *)
(***************************************************************************)
GuardsHoldLiveEnv ==
    \A t \in Threads :
        /\ threadAttachment[t] = IF nestLevel[t] = 0 THEN NullEnv ELSE attachNumber[t]
        /\ stack[t] # <<>> => Attached(t)
        /\ \A i \in 1..Len(stack[t]) : stack[t][i].env = attachNumber[t]

(***************************************************************************)
(* No sequence of legal calls trips an assertion of java_vm.rs: guards are *)
(* dropped at the level they were made at, an owning guard is the last one *)
(* and finds the attachment it made, and nothing attaches under a guard.   *)
(***************************************************************************)
AssertionsHold == \A t \in Threads : pc[t] # "panicked"

(* A guard that owns the attachment of the thread *)
Owns(t) == \E i \in 1..Len(stack[t]) : stack[t][i].kind = "owned"

(* What ATTACHED_THREADS stands for, including a decrement not yet made, or never *)
Claims ==
    {<<t, "record">> : t \in {u \in Threads : tlsAttachGuard[u]}}
    \union {<<t, "guard">> : t \in {u \in Threads : Owns(u)}}
    \union {<<t, "uncount">> : t \in {u \in Threads : pc[u] \in {"uncount", "uncount_exit"}}}
    \union UNION {{<<t, "forgotten", n>> : n \in 1..refused[t].forgotten} : t \in Threads}

(***************************************************************************)
(* ATTACHED_THREADS is the number of permanent records and owning guards,  *)
(* whatever foreign code does to the attachments in between; a permanent   *)
(* re-attachment that the JVM refuses leaves it one too high for good.  No *)
(* sequence makes it too low, so the unsigned counter cannot wrap.         *)
(***************************************************************************)
AttachmentsCounted == attachedThreads = Cardinality(Claims)

(***************************************************************************)
(* No attachment made by this crate outlives its thread: the scope or the  *)
(* TLS destructor has detached it before the thread is gone.  The          *)
(* documentation of attach_current_thread promises it without exception;   *)
(* an attachment that the JVM has refused to undo, under Java code that    *)
(* foreign code had called, is kept.                                       *)
(***************************************************************************)
NoAttachmentOutlivesThread ==
    \A t \in Threads : pc[t] = "dead" => origin[t] # "crate" \/ refused[t].detach

(* The contract, with the JNIEnv of an attached thread and its guard level *)
Contract == INSTANCE AttachmentContract
    WITH Envs <- Env, NoEnv <- NullEnv,
         jniEnv <- [t \in Threads |-> IF Attached(t) THEN attachNumber[t] ELSE NullEnv],
         users <- nestLevel

(***************************************************************************)
(* The implementation keeps the contract: under a guard the thread's       *)
(* JNIEnv neither goes away nor changes, however the guards nest.          *)
(***************************************************************************)
KeepsContract == Contract!ContractSpec

===============================================================================
