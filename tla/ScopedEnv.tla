------------------------------- MODULE ScopedEnv -------------------------------
(***************************************************************************)
(* The scopes one thread opens around its JNI code: closures run by        *)
(* attach_current_thread_with_config (java_vm.rs), by with_local_frame,    *)
(* with_local_frame_returning_local and with_top_local_frame (env.rs), and *)
(* native methods run by EnvUnowned::with_env and resolved by an error     *)
(* policy (errors/policy.rs).                                              *)
(*                                                                         *)
(* Each scope has a guard level and an Env; some have a JNI local frame.   *)
(* Code in a scope makes and deletes local references, calls Java, throws, *)
(* catches and clears exceptions, opens further scopes, and ends by        *)
(* returning or panicking; a scope deals with the frame, the references    *)
(* and the pending exception it leaves behind.  ThreadAttachment has the   *)
(* attachments the guards stand for.                                       *)
(***************************************************************************)
EXTENDS Integers, Sequences, FiniteSets

CONSTANTS Refs,         \* local reference handles
          Exceptions,   \* Java exception objects
          NoException,
          MaxDepth,     \* bound: scopes and Java activations on the stack
          Environment   \* what goes wrong: see below

(***************************************************************************)
(*   "frame_fails"   PushLocalFrame fails                                  *)
(*   "catch_fails"   a step of exception_catch fails: PushLocalFrame, or   *)
(*                   one of the methods it calls on the exception throws   *)
(*   "panics"        the Rust code of a closure panics                     *)
(*   "outer_env"     code uses the Env of an outer scope                   *)
(***************************************************************************)
ASSUME ScopedEnvAssumption ==
    /\ NoException \notin Exceptions
    /\ MaxDepth \in Nat \ {0}
    /\ Environment \subseteq {"frame_fails", "catch_fails", "panics", "outer_env"}

VARIABLES
    scopes,     \* scopes and Java activations, innermost last
    nestLevel,  \* THREAD_GUARD_NEST_LEVEL
    frames,     \* the thread's JNI local frames, innermost last
    held,       \* Refs |-> level of the Env whose 'local lifetime it has, 0: none
    pending,    \* the pending Java exception
    result,     \* what the last scope to end returned to the code around it
    thrown      \* history: exceptions thrown and neither caught, cleared nor given up since

vars == <<scopes, nestLevel, frames, held, pending, result, thrown>>

Policies == {"Ignore", "PreReThrowPostCatch", "PreCheckPostCatch"}
ErrorPolicies == {"ThrowRuntimeExAndDefault", "LogErrorAndDefault"}
Kinds == {"java", "native", "attach", "attach_framed", "local", "returning", "top"}

(* saved: pre_pending_exception; frame: has the scope a JNI frame of its own *)
Scope == [kind : Kinds, level : Nat, frame : BOOLEAN,
          policy : Policies \union ErrorPolicies \union {"none"},
          saved : Exceptions \union {NoException}]

(* Err(JavaException), Err(CaughtJavaException), any other Err *)
Errors == {"java", "caught", "other"}
Results == {"none", "ok", "panic"} \union Errors

TypeOK ==
    /\ scopes \in Seq(Scope)
    /\ nestLevel \in Nat
    /\ frames \in Seq(SUBSET Refs)
    /\ held \in [Refs -> Nat]
    /\ pending \in Exceptions \union {NoException}
    /\ result \in Results
    /\ thrown \subseteq Exceptions

Top == scopes[Len(scopes)]
Below == SubSeq(scopes, 1, Len(scopes) - 1)
Front(s) == SubSeq(s, 1, Len(s) - 1)
JavaScope == [kind |-> "java", level |-> 0, frame |-> FALSE, policy |-> "none",
              saved |-> NoException]

(* A native thread not yet attached, or a thread that runs Java code *)
Init ==
    /\ scopes \in {<<>>, <<JavaScope>>}
    /\ nestLevel = 0
    /\ frames = <<>>
    /\ held = [r \in Refs |-> 0]
    /\ pending = NoException
    /\ result = "none"
    /\ thrown = {}

InJava == scopes # <<>> /\ Top.kind = "java"
InRust == scopes # <<>> /\ Top.kind # "java"
(* The closure of the innermost scope is running. *)
Active == InRust /\ result # "panic" /\ Top.kind # "attach_framed"
MayOpen == Len(scopes) < MaxDepth
Fresh == Exceptions \ ({pending} \union {scopes[i].saved : i \in 1..Len(scopes)})

-------------------------------------------------------------------------------
(* Scopes open and end *)

(* AttachGuard::from_unowned or from_owned, and PushLocalFrame where "frame" *)
PushScope(kind, frame, policy, saved) ==
    /\ scopes' = Append(scopes, [kind |-> kind, level |-> nestLevel + 1, frame |-> frame,
                                 policy |-> policy, saved |-> saved])
    /\ nestLevel' = nestLevel + 1
    /\ frames' = IF frame THEN Append(frames, {}) ELSE frames

(* The lifetime of the scope's Env is over: its references go, or live on one lower. *)
Outlived(kept) ==
    [r \in Refs |-> IF held[r] # Top.level THEN held[r]
                    ELSE IF r \in kept THEN Top.level - 1 ELSE 0]

(* PopLocalFrame, which moves the references "kept" to the frame below *)
PopFrame(kept) ==
    LET below == Front(frames) IN
    IF kept = {} THEN below ELSE [below EXCEPT ![Len(below)] = @ \union kept]

(* Mutant: a panic that goes through the scope skips PopLocalFrame. *)
PopScopeUnlessPanic(kept) ==
    /\ scopes' = Below
    /\ nestLevel' = nestLevel - 1
    /\ frames' = IF Top.frame /\ result # "panic" THEN PopFrame(kept) ELSE frames
    /\ held' = Outlived(kept)

(* The innermost scope ends. *)
PopScope(kept) ==
    /\ scopes' = Below
    /\ nestLevel' = nestLevel - 1
    /\ frames' = IF Top.frame THEN PopFrame(kept) ELSE frames
    /\ held' = Outlived(kept)

(***************************************************************************)
(* How the innermost scope's code may end: a panic keeps unwinding, and    *)
(* the closure of a framed attachment ends as its local frame did.         *)
(***************************************************************************)
Endings ==
    CASE result = "panic" -> {"panic"}
      [] result # "panic" /\ Top.kind = "attach_framed" -> {result}
      [] OTHER -> {"ok", "java", "other"}
                  \union IF "panics" \in Environment THEN {"panic"} ELSE {}

(* assert_top, in an operation on the Env of scope i, fails *)
AssertTopPanics(i) ==
    /\ "outer_env" \in Environment
    /\ scopes[i].level # nestLevel
    /\ result' = "panic"
    /\ UNCHANGED <<scopes, nestLevel, frames, held, pending, thrown>>

(* The scopes whose Env the running code can name: down to the last call *)
Reachable == {i \in 1..Len(scopes) :
                 \A j \in i..Len(scopes) : scopes[j].kind \notin {"java", "attach_framed"}}

-------------------------------------------------------------------------------
(* Local references *)

(* Mutant: no assert_top. *)
NewLocalRefUnchecked(i) ==
    /\ pending = NoException
    /\ scopes[i].level = nestLevel \/ "outer_env" \in Environment
    /\ \E r \in Refs :
          /\ held[r] = 0 /\ \A f \in 1..Len(frames) : r \notin frames[f]
          /\ frames' = [frames EXCEPT ![Len(frames)] = @ \union {r}]
          /\ held' = [held EXCEPT ![r] = scopes[i].level]
    /\ result' = "none"
    /\ UNCHANGED <<scopes, nestLevel, pending, thrown>>

(***************************************************************************)
(* A call on the Env of scope i returns a new local reference: the JVM     *)
(* puts it in the innermost frame, its lifetime is that of the Env.        *)
(***************************************************************************)
NewLocalRef(i) ==
    \/ AssertTopPanics(i)
    \/ /\ scopes[i].level = nestLevel
       /\ pending = NoException
       /\ \E r \in Refs :
             /\ held[r] = 0 /\ \A f \in 1..Len(frames) : r \notin frames[f]
             /\ frames' = [frames EXCEPT ![Len(frames)] = @ \union {r}]
             /\ held' = [held EXCEPT ![r] = scopes[i].level]
       /\ result' = "none"
       /\ UNCHANGED <<scopes, nestLevel, pending, thrown>>

(* An Auto is dropped, while unwinding too, whatever frame is innermost. *)
DeleteLocalRef ==
    /\ InRust
    /\ \E r \in Refs :
          /\ held[r] # 0
          /\ held' = [held EXCEPT ![r] = 0]
          /\ frames' = [f \in 1..Len(frames) |-> frames[f] \ {r}]
    /\ UNCHANGED <<scopes, nestLevel, pending, result, thrown>>

-------------------------------------------------------------------------------
(* Exceptions *)

(* throw, or a call that throws *)
Throw ==
    /\ Active
    /\ pending = NoException
    /\ \E x \in Fresh : pending' = x /\ thrown' = thrown \union {x}
    /\ result' = "none"
    /\ UNCHANGED <<scopes, nestLevel, frames, held>>

ExceptionClear ==
    /\ Active
    /\ pending # NoException
    /\ pending' = NoException
    /\ thrown' = thrown \ {pending}
    /\ result' = "none"
    /\ UNCHANGED <<scopes, nestLevel, frames, held>>

(***************************************************************************)
(* exception_catch: "left" is the exception pending after it.  If it       *)
(* cannot push a local frame the exception stays where it is; if a method  *)
(* it calls on the exception throws, the new one stays pending.            *)
(***************************************************************************)
LeftByCatch ==
    {NoException} \union
    IF pending # NoException /\ "catch_fails" \in Environment
    THEN {pending} \union Fresh ELSE {}
ThrownAfterCatch(left) == (thrown \ {pending}) \union ({left} \ {NoException})

ExceptionCatch ==
    /\ Active
    /\ pending # NoException
    /\ \E left \in LeftByCatch :
          /\ pending' = left
          /\ thrown' = ThrownAfterCatch(left)
    /\ result' = "none"
    /\ UNCHANGED <<scopes, nestLevel, frames, held>>

-------------------------------------------------------------------------------
(* with_local_frame, with_local_frame_returning_local, with_top_local_frame *)

(* PushLocalFrame fails: the guard is dropped and the error returned. *)
PushLocalFrameFails ==
    /\ "frame_fails" \in Environment
    /\ \/ UNCHANGED <<pending, thrown>>
       \/ /\ pending = NoException
          /\ \E x \in Fresh : pending' = x /\ thrown' = thrown \union {x}

WithLocalFrame ==
    /\ Active /\ MayOpen
    /\ \/ PushScope("local", TRUE, "none", NoException) /\ result' = "none"
                /\ UNCHANGED <<held, pending, thrown>>
       \/ PushLocalFrameFails /\ result' = "other"
                /\ UNCHANGED <<scopes, nestLevel, frames, held>>

WithLocalFrameReturningLocal(i) ==
    /\ Active /\ MayOpen
    /\ \/ AssertTopPanics(i)
       \/ /\ scopes[i].level = nestLevel
          /\ \/ PushScope("returning", TRUE, "none", NoException) /\ result' = "none"
                   /\ UNCHANGED <<held, pending, thrown>>
             \/ PushLocalFrameFails /\ result' = "other"
                   /\ UNCHANGED <<scopes, nestLevel, frames, held>>

WithTopLocalFrame ==
    /\ Active /\ MayOpen
    /\ PushScope("top", FALSE, "none", NoException)
    /\ result' = "none"
    /\ UNCHANGED <<held, pending, thrown>>

EndLocalFrame(r) ==
    /\ Top.kind \in {"local", "top"}
    /\ PopScope({})
    /\ result' = r
    /\ UNCHANGED <<pending, thrown>>

(***************************************************************************)
(* PopLocalFrame(obj) makes a reference in the frame below of the one the  *)
(* closure returns, which may be null.                                     *)
(***************************************************************************)
EndReturningLocal(r) ==
    /\ Top.kind = "returning"
    /\ \/ PopScope({})
       \/ /\ r = "ok"
          /\ \E obj \in Refs : held[obj] = Top.level /\ PopScope({obj})
    /\ result' = r
    /\ UNCHANGED <<pending, thrown>>

-------------------------------------------------------------------------------
(* attach_current_thread_with_config *)

(***************************************************************************)
(* The guard, and the check of the policy on the pending exception.  With  *)
(* a capacity the closure runs in a local frame of its own, a scope above. *)
(* A thread that is not attached yet gets the base frame of an attachment. *)
(***************************************************************************)
AttachCurrentThread ==
    /\ scopes = <<>> \/ Active
    /\ MayOpen
    /\ \E policy \in Policies, framed \in BOOLEAN :
          IF policy = "PreCheckPostCatch" /\ pending # NoException
          THEN result' = "java" /\ UNCHANGED <<scopes, nestLevel, frames, pending>>
          ELSE LET saved == IF policy = "PreReThrowPostCatch" THEN pending ELSE NoException
               IN /\ PushScope(IF framed THEN "attach_framed" ELSE "attach",
                               scopes = <<>>, policy, saved)
                  /\ pending' = IF saved = NoException THEN pending ELSE NoException
                  /\ result' = "none"
    /\ UNCHANGED <<held, thrown>>

(* with_local_frame inside it, which may fail before the closure runs *)
FrameOfAttach ==
    /\ InRust /\ Top.kind = "attach_framed" /\ result = "none"
    /\ \/ PushScope("local", TRUE, "none", NoException) /\ result' = "none"
                /\ UNCHANGED <<held, pending, thrown>>
       \/ PushLocalFrameFails /\ result' = "other"
                /\ UNCHANGED <<scopes, nestLevel, frames, held>>

(* Mutant: the saved exception is only thrown if nothing was caught. *)
ThrowSavedUnlessCaught(left) ==
    IF left = NoException /\ pending = NoException THEN Top.saved ELSE left

(* throw, whose failure under a pending exception is ignored *)
ThrowSaved(left) == IF left = NoException THEN Top.saved ELSE left

(***************************************************************************)
(* The closure has ended.  A panic drops the guard: detach_impl(false,     *)
(* None).  Otherwise, unless the policy is Ignore, detach_with_catch_and_  *)
(* throw: exception_catch, then throw the saved exception, and a caught    *)
(* exception takes precedence over the closure's result.  After a panic    *)
(* the saved exception is given up, and so it is if exception_catch has    *)
(* left one pending, for then the throw fails.                             *)
(***************************************************************************)
EndAttach(r) ==
    /\ Top.kind \in {"attach", "attach_framed"}
    /\ result # "none" \/ Top.kind = "attach"
    /\ PopScope({})
    /\ \E left \in IF r = "panic" \/ Top.policy = "Ignore" THEN {pending} ELSE LeftByCatch :
          LET caught == r # "panic" /\ Top.policy # "Ignore" /\ pending # NoException
              after == IF r = "panic" \/ Top.policy = "Ignore" THEN pending ELSE ThrowSaved(left)
              givenUp == IF r = "panic" \/ left # NoException THEN {Top.saved} ELSE {}
              remaining == (IF caught THEN ThrownAfterCatch(left) ELSE thrown) \ givenUp
          IN /\ result' = IF caught THEN "caught" ELSE r
             /\ pending' = IF Top.frame THEN NoException ELSE after
             /\ thrown' = IF Top.frame THEN remaining \ {after} ELSE remaining

-------------------------------------------------------------------------------
(* Java code and native methods *)

CallJava ==
    /\ Active /\ MayOpen
    /\ pending = NoException
    /\ scopes' = Append(scopes, JavaScope)
    /\ result' = "none"
    /\ UNCHANGED <<nestLevel, frames, held, pending, thrown>>

JavaCatches ==
    /\ InJava
    /\ pending # NoException
    /\ pending' = NoException
    /\ thrown' = thrown \ {pending}
    /\ UNCHANGED <<scopes, nestLevel, frames, held, result>>

(* Java code returns, throws, or lets an exception through. *)
JavaReturns ==
    /\ InJava /\ Len(scopes) > 1
    /\ scopes' = Below
    /\ \/ UNCHANGED <<pending, thrown>>
       \/ /\ pending = NoException
          /\ \E x \in Fresh : pending' = x /\ thrown' = thrown \union {x}
    /\ UNCHANGED <<nestLevel, frames, held, result>>

(* The JVM makes a frame for a native method; with_env makes its guard. *)
CallNative ==
    /\ InJava /\ MayOpen
    /\ pending = NoException
    /\ \E policy \in ErrorPolicies : PushScope("native", TRUE, policy, NoException)
    /\ result' = "none"
    /\ UNCHANGED <<held, pending, thrown>>

(* Mutant: the policy throws whatever is pending already. *)
ResolveReplacing(r) ==
    IF r \in {"ok"} \/ Top.policy = "LogErrorAndDefault"
    THEN UNCHANGED <<pending, thrown>>
    ELSE \E x \in Fresh : pending' = x /\ thrown' = thrown \union {x}

(***************************************************************************)
(* EnvOutcome::resolve.  ThrowRuntimeExAndDefault throws for an error and  *)
(* a panic, unless an exception is pending already; making the exception   *)
(* may fail, with the exception of that failure pending instead.           *)
(***************************************************************************)
Resolve(r) ==
    IF r = "ok" \/ Top.policy = "LogErrorAndDefault" \/ pending # NoException
    THEN UNCHANGED <<pending, thrown>>
    ELSE \E x \in Fresh : pending' = x /\ thrown' = thrown \union {x}

(* catch_unwind, the drop of the guard, the error policy, and the return *)
EndNative(r) ==
    /\ Top.kind = "native"
    /\ PopScope({})
    /\ Resolve(r)
    /\ result' = "none"

Terminated == scopes \in {<<>>, <<JavaScope>>} /\ UNCHANGED vars

Next ==
    \/ Active /\ \E i \in Reachable : NewLocalRef(i) \/ WithLocalFrameReturningLocal(i)
    \/ DeleteLocalRef
    \/ Throw \/ ExceptionClear \/ ExceptionCatch
    \/ WithLocalFrame \/ WithTopLocalFrame
    \/ AttachCurrentThread \/ FrameOfAttach
    \/ InRust /\ \E r \in Endings :
            EndLocalFrame(r) \/ EndReturningLocal(r) \/ EndAttach(r) \/ EndNative(r)
    \/ CallJava \/ JavaCatches \/ JavaReturns \/ CallNative
    \/ Terminated

Spec == Init /\ [][Next]_vars

-------------------------------------------------------------------------------
(* Properties *)

(***************************************************************************)
(* A local reference whose Rust lifetime has not ended is in a JNI frame   *)
(* that has not been popped, however scopes nest, whichever Env is used    *)
(* and however closures end: assert_top is enough to make the lifetimes    *)
(* of safe code tell the truth.                                            *)
(***************************************************************************)
NoDanglingRef ==
    \A r \in Refs : held[r] # 0 => \E f \in 1..Len(frames) : r \in frames[f]

(***************************************************************************)
(* Guard levels and JNI frames stay in step with the scopes through every  *)
(* early return and every panic: a scope has as many guards below it as    *)
(* its level says, and nothing leaves a frame or a level behind.           *)
(***************************************************************************)
ScopesBalanced ==
    LET guards(n) == {i \in 1..n : scopes[i].kind # "java"} IN
    /\ nestLevel = Cardinality(guards(Len(scopes)))
    /\ \A i \in guards(Len(scopes)) : scopes[i].level = Cardinality(guards(i))
    /\ Len(frames) = Cardinality({i \in 1..Len(scopes) : scopes[i].frame})

(***************************************************************************)
(* No exception is lost: one that was thrown is pending, or saved by a     *)
(* closure that will re-throw it, until it is caught, cleared or handled   *)
(* by Java.                                                                *)
(***************************************************************************)
NoExceptionLost ==
    thrown = ({pending} \union {scopes[i].saved : i \in 1..Len(scopes)}) \ {NoException}

(***************************************************************************)
(* What the docs of PreReThrowPostCatch say of an exception pending before *)
(* the closure: it is re-thrown afterwards, whatever the closure did, but  *)
(* panic.  An exception that exception_catch could not take away stays     *)
(* pending in its place; there is always one.                              *)
(***************************************************************************)
OriginalReThrown ==
    [][\A r \in Results \ {"panic"} :
          InRust /\ EndAttach(r) /\ Top.saved # NoException =>
              \/ pending' = Top.saved
              \/ pending # NoException /\ pending' \in LeftByCatch \ {NoException}]_vars
===============================================================================
