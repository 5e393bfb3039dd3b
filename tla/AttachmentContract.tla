-------------------------- MODULE AttachmentContract --------------------------
(***************************************************************************)
(* What the crate promises about JVM attachments, with everything else     *)
(* left out.  A thread has at most one attachment, named by its JNIEnv; it *)
(* has a number of nested users (AttachGuards, each lending out an Env).   *)
(* A user only ever sees an attached thread, and the JNIEnv of a thread is *)
(* neither dropped nor replaced while it has users.  How the attachment is *)
(* owned, counted and remembered is the business of the implementation,    *)
(* ThreadAttachment.                                                       *)
(***************************************************************************)
EXTENDS Naturals

CONSTANTS Threads,  \* the threads of the process
          Envs,     \* the JNIEnv pointers the JVM can hand out
          NoEnv     \* the null JNIEnv of a detached thread, not among Envs

VARIABLES jniEnv,   \* [Threads -> Envs \union {NoEnv}]: the JNIEnv of a thread
          users     \* [Threads -> Nat]: how many guards lend it out

contractVars == <<jniEnv, users>>

ContractTypeOK ==
    /\ jniEnv \in [Threads -> Envs \union {NoEnv}]
    /\ users \in [Threads -> Nat]

(* Threads the JVM started are attached from the beginning. *)
ContractInit ==
    /\ jniEnv \in [Threads -> Envs \union {NoEnv}]
    /\ users = [t \in Threads |-> 0]

(* A detached thread is attached, by this crate or by foreign code. *)
Attach(t) ==
    /\ jniEnv[t] = NoEnv
    /\ \E e \in Envs : jniEnv' = [jniEnv EXCEPT ![t] = e]
    /\ UNCHANGED users

(* A guard starts to lend out the current JNIEnv. *)
Use(t) ==
    /\ jniEnv[t] # NoEnv
    /\ users' = [users EXCEPT ![t] = @ + 1]
    /\ UNCHANGED jniEnv

(* A guard that attaches the thread for itself. *)
AttachAndUse(t) ==
    /\ jniEnv[t] = NoEnv
    /\ users[t] = 0
    /\ \E e \in Envs : jniEnv' = [jniEnv EXCEPT ![t] = e]
    /\ users' = [users EXCEPT ![t] = 1]

(* A guard is dropped; the last one may take the attachment with it. *)
Release(t) ==
    /\ users[t] > 0
    /\ users' = [users EXCEPT ![t] = @ - 1]
    /\ \/ UNCHANGED jniEnv
       \/ users[t] = 1 /\ jniEnv' = [jniEnv EXCEPT ![t] = NoEnv]

(* An attachment nobody uses is detached. *)
Detach(t) ==
    /\ users[t] = 0
    /\ jniEnv[t] # NoEnv
    /\ jniEnv' = [jniEnv EXCEPT ![t] = NoEnv]
    /\ UNCHANGED users

ContractNext ==
    \E t \in Threads :
        Attach(t) \/ Use(t) \/ AttachAndUse(t) \/ Release(t) \/ Detach(t)

ContractSpec == ContractInit /\ [][ContractNext]_contractVars
===============================================================================
