------------------------ MODULE ThreadAttachmentProofs ------------------------
(***************************************************************************)
(* Theorems about ThreadAttachment, for any number of threads, any bounds  *)
(* and any environment.                                                    *)
(***************************************************************************)
EXTENDS ThreadAttachment, SequenceTheorems, FiniteSetTheorems, TLAPS

-------------------------------------------------------------------------------
(* Sequences as stacks *)

(* Append adds one element at the end and keeps the others. *)
LEMMA PushFacts ==
    ASSUME NEW S, NEW s \in Seq(S), NEW x \in S
    PROVE  /\ Append(s, x) \in Seq(S)
           /\ Append(s, x) # <<>>
           /\ Len(s) \in Nat
           /\ Len(Append(s, x)) = Len(s) + 1
           /\ Append(s, x)[Len(s) + 1] = x
           /\ \A i \in 1..Len(s) : Append(s, x)[i] = s[i]
  OBVIOUS

(* Dropping the last element keeps the others. *)
LEMMA PopFacts ==
    ASSUME NEW S, NEW s \in Seq(S), s # <<>>
    PROVE  LET b == SubSeq(s, 1, Len(s) - 1)
           IN  /\ b \in Seq(S)
               /\ Len(s) \in Nat \ {0}
               /\ Len(b) = Len(s) - 1
               /\ b = <<>> <=> Len(s) = 1
               /\ \A i \in 1..Len(b) : b[i] = s[i]
  <1>1. Len(s) \in Nat \ {0}
    OBVIOUS
  <1>2. PICK n \in Nat : n = Len(s) - 1
    BY <1>1
  <1>3. \A i \in 1..n : s[i] \in S
    BY <1>1, <1>2
  <1>4. /\ SubSeq(s, 1, n) \in Seq(S)
        /\ Len(SubSeq(s, 1, n)) = IF 1 <= n THEN n - 1 + 1 ELSE 0
        /\ \A i \in 1..(n - 1 + 1) : SubSeq(s, 1, n)[i] = s[1 + i - 1]
    BY <1>3, SubSeqProperties
  <1>5. /\ Len(SubSeq(s, 1, n)) = n
        /\ \A i \in 1..n : SubSeq(s, 1, n)[i] = s[i]
    BY <1>4
  <1>6. SubSeq(s, 1, n) = <<>> <=> n = 0
    BY <1>4, <1>5
  <1> QED
    BY <1>1, <1>2, <1>4, <1>5, <1>6

(* Only the empty stack has no frame. *)
LEMMA EmptyFacts ==
    ASSUME NEW S, NEW s \in Seq(S)
    PROVE  /\ Len(s) \in Nat
           /\ s = <<>> <=> Len(s) = 0
           /\ s # <<>> => Len(s) \in 1..Len(s)
           /\ \A i \in 1..Len(s) : s[i] \in S
  OBVIOUS

-------------------------------------------------------------------------------
(***************************************************************************)
(* The inductive invariant.  A frame records the guard level it was pushed *)
(* at, so the nesting can be stated frame by frame: a guard is one level   *)
(* above the frame below it, a Java activation at the same level, and the  *)
(* level never falls towards the top.  From that follows that a thread     *)
(* with guard level 0 has no guard on its stack, and that an owning guard, *)
(* always the first frame, is dropped at level 1 from an empty stack.      *)
(***************************************************************************)
LevelOf(s) == IF s = <<>> THEN 0 ELSE s[Len(s)].level

Nested(s, e) ==
    /\ \A i \in 1..Len(s) :
          /\ s[i].env = e
          /\ s[i].kind = "owned" => i = 1
          /\ s[i].kind = "java" =>
                s[i].level = IF i = 1 THEN 0 ELSE s[i-1].level
          /\ s[i].kind # "java" =>
                s[i].level = IF i = 1 THEN 1 ELSE s[i-1].level + 1
    /\ \A i \in 1..Len(s) : \A j \in i..Len(s) : s[i].level <= s[j].level

ThreadInv(t) ==
    /\ Nested(stack[t], attachNumber[t])
    /\ nestLevel[t] = LevelOf(stack[t])
    /\ threadAttachment[t] = IF nestLevel[t] = 0 THEN NullEnv ELSE attachNumber[t]
    /\ stack[t] # <<>> => Attached(t)
    /\ pc[t] \in {"count_scoped", "count_permanent"} => stack[t] = <<>> /\ Attached(t)
    /\ Attached(t) => attachNumber[t] > 0
    /\ attachNumber[t] <= MaxAttach
    /\ pc[t] # "panicked"

IInv == TypeOK /\ \A t \in Threads : ThreadInv(t)

(* An empty stack is nested, at level 0. *)
LEMMA EmptyNested ==
    ASSUME NEW e \in Nat
    PROVE  Nested(<<>>, e) /\ LevelOf(<<>>) = 0
  <1>1. Len(<<>>) = 0
    OBVIOUS
  <1> QED
    BY <1>1 DEF Nested, LevelOf

(* Levels are natural numbers, that of an empty stack too. *)
LEMMA FrameLevels ==
    ASSUME NEW s \in Seq(Frame)
    PROVE  /\ \A i \in 1..Len(s) : s[i] \in Frame /\ s[i].level \in Nat
           /\ LevelOf(s) \in Nat
  <1>1. \A i \in 1..Len(s) : s[i] \in Frame
    BY EmptyFacts
  <1>2. \A f \in Frame : f.level \in Nat
    BY DEF Frame
  <1>3. s # <<>> => Len(s) \in 1..Len(s)
    BY EmptyFacts
  <1> QED
    BY <1>1, <1>2, <1>3 DEF LevelOf

(* A guard pushed on a nested stack is one level up. *)
LEMMA PushGuard ==
    ASSUME NEW s \in Seq(Frame), NEW e \in Nat, Nested(s, e),
           NEW k \in {"owned", "unowned"}, k = "owned" => s = <<>>
    PROVE  LET x == [kind |-> k, env |-> e, level |-> LevelOf(s) + 1]
           IN  /\ x \in Frame
               /\ Append(s, x) \in Seq(Frame)
               /\ Append(s, x) # <<>>
               /\ Nested(Append(s, x), e)
               /\ LevelOf(Append(s, x)) = LevelOf(s) + 1
               /\ LevelOf(s) \in Nat
  <1> DEFINE x == [kind |-> k, env |-> e, level |-> LevelOf(s) + 1]
  <1> DEFINE a == Append(s, x)
  <1>1. LevelOf(s) \in Nat
    BY FrameLevels
  <1>2. x \in Frame
    BY <1>1 DEF Frame, FrameKinds
  <1>3. /\ a \in Seq(Frame) /\ a # <<>>
        /\ Len(s) \in Nat /\ Len(a) = Len(s) + 1 /\ a[Len(s) + 1] = x
        /\ \A i \in 1..Len(s) : a[i] = s[i]
    BY <1>2, PushFacts
  <1> HIDE DEF a
  <1>4. LevelOf(a) = LevelOf(s) + 1
    BY <1>3 DEF LevelOf
  <1>5. s = <<>> <=> Len(s) = 0
    BY EmptyFacts
  <1>6. \A i \in 1..Len(s) : s[i].level <= LevelOf(s) /\ s[i].level \in Nat
    BY <1>3, <1>5, FrameLevels DEF Nested, LevelOf
  <1>7. Nested(a, e)
    <2>1. ASSUME NEW i \in 1..Len(a)
          PROVE  /\ a[i].env = e
                 /\ a[i].kind = "owned" => i = 1
                 /\ a[i].kind = "java" =>
                       a[i].level = IF i = 1 THEN 0 ELSE a[i-1].level
                 /\ a[i].kind # "java" =>
                       a[i].level = IF i = 1 THEN 1 ELSE a[i-1].level + 1
      <3>1. CASE i \in 1..Len(s)
        <4>1. i # 1 => i - 1 \in 1..Len(s)
          BY <1>3, <3>1
        <4> QED
          BY <1>3, <3>1, <4>1 DEF Nested
      <3>2. CASE i = Len(s) + 1
        <4>1. a[i] = x
          BY <1>3, <3>2
        <4>2. i # 1 => a[i-1].level = LevelOf(s)
          BY <1>3, <1>5, <3>2 DEF LevelOf
        <4>3. i = 1 => LevelOf(s) = 0
          BY <1>3, <1>5, <3>2 DEF LevelOf
        <4>4. a[i].kind = "owned" => i = 1
          BY <4>1, <1>5, <3>2
        <4> QED
          BY <4>1, <4>2, <4>3, <4>4, <1>1
      <3> QED
        BY <1>3, <3>1, <3>2
    <2>2. ASSUME NEW i \in 1..Len(a), NEW j \in i..Len(a)
          PROVE  a[i].level <= a[j].level
      <3>1. CASE j \in 1..Len(s)
        BY <1>3, <3>1 DEF Nested
      <3>2. CASE j = Len(s) + 1
        BY <1>1, <1>3, <1>6, <3>2
      <3> QED
        BY <1>3, <3>1, <3>2
    <2> QED
      BY <2>1, <2>2 DEF Nested
  <1> QED
    BY <1>1, <1>2, <1>3, <1>4, <1>7 DEF a

(* A Java activation pushed on a nested stack stays at its level. *)
LEMMA PushJava ==
    ASSUME NEW s \in Seq(Frame), NEW e \in Nat, Nested(s, e)
    PROVE  LET x == [kind |-> "java", env |-> e, level |-> LevelOf(s)]
           IN  /\ Append(s, x) \in Seq(Frame)
               /\ Append(s, x) # <<>>
               /\ Nested(Append(s, x), e)
               /\ LevelOf(Append(s, x)) = LevelOf(s)
  <1> DEFINE x == [kind |-> "java", env |-> e, level |-> LevelOf(s)]
  <1> DEFINE a == Append(s, x)
  <1>1. LevelOf(s) \in Nat
    BY FrameLevels
  <1>2. x \in Frame
    BY <1>1 DEF Frame, FrameKinds
  <1>3. /\ a \in Seq(Frame) /\ a # <<>>
        /\ Len(s) \in Nat /\ Len(a) = Len(s) + 1 /\ a[Len(s) + 1] = x
        /\ \A i \in 1..Len(s) : a[i] = s[i]
    BY <1>2, PushFacts
  <1> HIDE DEF a
  <1>4. LevelOf(a) = LevelOf(s)
    BY <1>3 DEF LevelOf
  <1>5. s = <<>> <=> Len(s) = 0
    BY EmptyFacts
  <1>6. \A i \in 1..Len(s) : s[i].level <= LevelOf(s) /\ s[i].level \in Nat
    BY <1>3, <1>5, FrameLevels DEF Nested, LevelOf
  <1>7. Nested(a, e)
    <2>1. ASSUME NEW i \in 1..Len(a)
          PROVE  /\ a[i].env = e
                 /\ a[i].kind = "owned" => i = 1
                 /\ a[i].kind = "java" =>
                       a[i].level = IF i = 1 THEN 0 ELSE a[i-1].level
                 /\ a[i].kind # "java" =>
                       a[i].level = IF i = 1 THEN 1 ELSE a[i-1].level + 1
      <3>1. CASE i \in 1..Len(s)
        <4>1. i # 1 => i - 1 \in 1..Len(s)
          BY <1>3, <3>1
        <4> QED
          BY <1>3, <3>1, <4>1 DEF Nested
      <3>2. CASE i = Len(s) + 1
        <4>1. a[i] = x
          BY <1>3, <3>2
        <4>2. i # 1 => a[i-1].level = LevelOf(s)
          BY <1>3, <1>5, <3>2 DEF LevelOf
        <4>3. i = 1 => LevelOf(s) = 0
          BY <1>3, <1>5, <3>2 DEF LevelOf
        <4> QED
          BY <4>1, <4>2, <4>3, <1>1
      <3> QED
        BY <1>3, <3>1, <3>2
    <2>2. ASSUME NEW i \in 1..Len(a), NEW j \in i..Len(a)
          PROVE  a[i].level <= a[j].level
      <3>1. CASE j \in 1..Len(s)
        BY <1>3, <3>1 DEF Nested
      <3>2. CASE j = Len(s) + 1
        BY <1>1, <1>3, <1>6, <3>2
      <3> QED
        BY <1>3, <3>1, <3>2
    <2> QED
      BY <2>1, <2>2 DEF Nested
  <1> QED
    BY <1>1, <1>2, <1>3, <1>4, <1>7 DEF a

(* What is left when the top frame is popped. *)
LEMMA PopFrame ==
    ASSUME NEW s \in Seq(Frame), NEW e \in Nat, Nested(s, e), s # <<>>
    PROVE  LET b == SubSeq(s, 1, Len(s) - 1)
               top == s[Len(s)]
           IN  /\ b \in Seq(Frame)
               /\ Nested(b, e)
               /\ top \in Frame
               /\ top.env = e
               /\ top.level = LevelOf(s)
               /\ top.kind = "java" => LevelOf(b) = LevelOf(s)
               /\ top.kind # "java" => LevelOf(b) = LevelOf(s) - 1
               /\ LevelOf(b) \in Nat
               /\ top.kind = "owned" => b = <<>> /\ LevelOf(s) = 1
  <1> DEFINE b == SubSeq(s, 1, Len(s) - 1)
  <1>1. /\ b \in Seq(Frame) /\ Len(s) \in Nat \ {0} /\ Len(b) = Len(s) - 1
        /\ b = <<>> <=> Len(s) = 1
        /\ \A i \in 1..Len(b) : b[i] = s[i]
    BY PopFacts
  <1> HIDE DEF b
  <1>2. \A i \in 1..Len(s) : s[i] \in Frame
    BY EmptyFacts
  <1>3. \A i \in 1..Len(s) : s[i].level \in Nat
    BY <1>2 DEF Frame
  <1>4. Nested(b, e)
    <2>1. \A i \in 1..Len(b) : i \in 1..Len(s) /\ (i # 1 => i - 1 \in 1..Len(b))
      BY <1>1
    <2>2. \A i \in 1..Len(b) : \A j \in i..Len(b) : j \in 1..Len(b) /\ j \in i..Len(s)
      BY <1>1
    <2> QED
      BY <1>1, <2>1, <2>2, SMTT(30) DEF Nested
  <1>5. LevelOf(b) = IF Len(s) = 1 THEN 0 ELSE s[Len(s) - 1].level
    BY <1>1 DEF LevelOf
  <1>6. Len(s) \in 1..Len(s) /\ (Len(s) # 1 => Len(s) - 1 \in 1..Len(s))
    BY <1>1
  <1>7. LevelOf(b) \in Nat
    BY <1>3, <1>5, <1>6
  <1>8. s[Len(s)].kind = "java" => LevelOf(b) = s[Len(s)].level
    BY <1>5, <1>6 DEF Nested
  <1>9. s[Len(s)].kind # "java" => LevelOf(b) + 1 = s[Len(s)].level
    BY <1>5, <1>6 DEF Nested
  <1>10. LevelOf(s) = s[Len(s)].level
    BY DEF LevelOf
  <1>11. s[Len(s)].kind = "owned" => b = <<>> /\ LevelOf(s) = 1
    BY <1>1, <1>6, <1>9, <1>10 DEF Nested, LevelOf
  <1> QED
    BY <1>1, <1>2, <1>3, <1>4, <1>6, <1>7, <1>8, <1>9, <1>10, <1>11 DEF b, Nested

(* At guard level 0 only Java activations are on the stack. *)
LEMMA LevelZero ==
    ASSUME NEW s \in Seq(Frame), NEW e \in Nat, Nested(s, e), LevelOf(s) = 0
    PROVE  \A i \in 1..Len(s) : s[i].kind = "java"
  <1> SUFFICES ASSUME NEW i \in 1..Len(s), s[i].kind # "java"
               PROVE  FALSE
    OBVIOUS
  <1>1. Len(s) \in Nat /\ s # <<>> /\ Len(s) \in i..Len(s)
    BY EmptyFacts
  <1>2. \A j \in 1..Len(s) : s[j].level \in Nat
    BY FrameLevels
  <1>3. i # 1 => i - 1 \in 1..Len(s)
    BY <1>1
  <1>4. s[i].level > 0
    BY <1>2, <1>3 DEF Nested
  <1>5. s[i].level <= s[Len(s)].level
    BY <1>1 DEF Nested
  <1> QED
    BY <1>1, <1>2, <1>4, <1>5 DEF LevelOf

-------------------------------------------------------------------------------
(* The invariant is inductive *)

(* A step of one thread leaves the local state of every other one alone. *)
OthersUnchanged(t) ==
    \A u \in Threads \ {t} :
        /\ origin'[u] = origin[u] /\ attachNumber'[u] = attachNumber[u]
        /\ stack'[u] = stack[u] /\ threadAttachment'[u] = threadAttachment[u]
        /\ nestLevel'[u] = nestLevel[u] /\ pc'[u] = pc[u]

(* The effect of a step on its own thread, as the contract sees it *)
JniEnv(t) == IF Attached(t) THEN attachNumber[t] ELSE NullEnv

ContractEffect(t) ==
    \/ JniEnv(t)' = JniEnv(t) /\ nestLevel'[t] = nestLevel[t]
    \/ JniEnv(t)' = JniEnv(t) /\ nestLevel'[t] = nestLevel[t] + 1 /\ Attached(t)
    \/ JniEnv(t)' = JniEnv(t) /\ nestLevel'[t] = nestLevel[t] - 1
    \/ ~Attached(t) /\ Attached(t)' /\ nestLevel'[t] = nestLevel[t]
    \/ ~Attached(t) /\ Attached(t)' /\ nestLevel[t] = 0 /\ nestLevel'[t] = 1
    \/ ~Attached(t)' /\ nestLevel[t] = 1 /\ nestLevel'[t] = 0
    \/ Attached(t) /\ ~Attached(t)' /\ nestLevel[t] = 0 /\ nestLevel'[t] = 0

(* A step of thread t leaves what the invariant says of the others. *)
LEMMA OneThread ==
    ASSUME IInv, NEW t \in Threads, TypeOK', OthersUnchanged(t), ThreadInv(t)'
    PROVE  IInv'
  <1> SUFFICES ASSUME NEW u \in Threads, u # t
               PROVE  ThreadInv(u)'
    BY DEF IInv
  <1>1. ThreadInv(u)
    BY DEF IInv
  <1> QED
    BY <1>1 DEF ThreadInv, OthersUnchanged, Attached

(* What a pushed guard does to its thread, and to nobody else. *)
LEMMA PushStep ==
    ASSUME TypeOK, NEW t \in Threads, NEW e \in Nat, NEW k \in {"owned", "unowned"},
           Nested(stack[t], e), nestLevel[t] = LevelOf(stack[t]),
           k = "owned" => stack[t] = <<>>,
           threadAttachment[t] = IF nestLevel[t] = 0 THEN NullEnv ELSE e,
           ThreadGuardLevelPush(t, e, k)
    PROVE  /\ stack' \in [Threads -> Seq(Frame)]
           /\ threadAttachment' \in [Threads -> Nat]
           /\ nestLevel' \in [Threads -> Nat]
           /\ \A u \in Threads \ {t} : /\ stack'[u] = stack[u]
                                       /\ threadAttachment'[u] = threadAttachment[u]
                                       /\ nestLevel'[u] = nestLevel[u]
           /\ stack'[t] # <<>>
           /\ Nested(stack'[t], e)
           /\ nestLevel'[t] = nestLevel[t] + 1
           /\ nestLevel'[t] = LevelOf(stack'[t])
           /\ threadAttachment'[t] = e
  <1> DEFINE x == [kind |-> k, env |-> e, level |-> LevelOf(stack[t]) + 1]
  <1>1. stack[t] \in Seq(Frame) /\ nestLevel[t] \in Nat
    BY DEF TypeOK
  <1>2. /\ Append(stack[t], x) \in Seq(Frame) /\ Append(stack[t], x) # <<>>
        /\ Nested(Append(stack[t], x), e)
        /\ LevelOf(Append(stack[t], x)) = nestLevel[t] + 1
    BY <1>1, PushGuard
  <1>3. stack' = [stack EXCEPT ![t] = Append(stack[t], x)]
    BY DEF ThreadGuardLevelPush
  <1>4. /\ nestLevel' = [nestLevel EXCEPT ![t] = nestLevel[t] + 1]
        /\ threadAttachment' = IF nestLevel[t] = 0
                               THEN [threadAttachment EXCEPT ![t] = e]
                               ELSE threadAttachment
    BY DEF ThreadGuardLevelPush
  <1> HIDE DEF x
  <1>5. stack'[t] = Append(stack[t], x) /\ stack' \in [Threads -> Seq(Frame)]
    BY <1>2, <1>3 DEF TypeOK
  <1> QED
    BY <1>1, <1>2, <1>3, <1>4, <1>5 DEF TypeOK

(* What popping the innermost guard does to its thread. *)
LEMMA PopStep ==
    ASSUME TypeOK, NEW t \in Threads, ThreadInv(t), stack[t] # <<>>,
           Top(t).kind # "java", ThreadGuardLevelPop(t)
    PROVE  /\ stack' \in [Threads -> Seq(Frame)]
           /\ threadAttachment' \in [Threads -> Nat]
           /\ nestLevel' \in [Threads -> Nat]
           /\ \A u \in Threads \ {t} : /\ stack'[u] = stack[u]
                                       /\ threadAttachment'[u] = threadAttachment[u]
                                       /\ nestLevel'[u] = nestLevel[u]
           /\ stack'[t] = Below(t)
           /\ Nested(stack'[t], attachNumber[t])
           /\ nestLevel'[t] = nestLevel[t] - 1
           /\ nestLevel'[t] = LevelOf(stack'[t])
           /\ threadAttachment'[t] = IF nestLevel'[t] = 0 THEN NullEnv ELSE attachNumber[t]
           /\ Top(t).env = attachNumber[t]
           /\ Top(t).level = nestLevel[t]
           /\ Top(t).kind \in {"owned", "unowned"}
           /\ Top(t).kind = "owned" => Below(t) = <<>> /\ nestLevel[t] = 1
  <1>1. stack[t] \in Seq(Frame) /\ nestLevel[t] \in Nat /\ attachNumber[t] \in Nat
    BY DEF TypeOK
  <1>2. Nested(stack[t], attachNumber[t]) /\ nestLevel[t] = LevelOf(stack[t])
    BY DEF ThreadInv
  <1>3. /\ Below(t) \in Seq(Frame) /\ Nested(Below(t), attachNumber[t])
        /\ Top(t) \in Frame /\ Top(t).env = attachNumber[t]
        /\ Top(t).level = nestLevel[t]
        /\ LevelOf(Below(t)) = nestLevel[t] - 1
        /\ LevelOf(Below(t)) \in Nat
        /\ Top(t).kind = "owned" => Below(t) = <<>> /\ nestLevel[t] = 1
    BY <1>1, <1>2, PopFrame DEF Top, Below
  <1>4. /\ nestLevel' = [nestLevel EXCEPT ![t] = nestLevel[t] - 1]
        /\ threadAttachment' = IF nestLevel[t] = 1
                               THEN [threadAttachment EXCEPT ![t] = NullEnv]
                               ELSE threadAttachment
        /\ stack' = [stack EXCEPT ![t] = Below(t)]
    BY DEF ThreadGuardLevelPop
  <1>5. stack'[t] = Below(t) /\ stack' \in [Threads -> Seq(Frame)]
    BY <1>3, <1>4 DEF TypeOK
  <1>6. Top(t).kind \in {"owned", "unowned"}
    BY <1>3 DEF Frame, FrameKinds
  <1>7. threadAttachment' \in [Threads -> Nat] /\ nestLevel' \in [Threads -> Nat]
    BY <1>1, <1>3, <1>4 DEF TypeOK, NullEnv
  <1>8. threadAttachment'[t] = IF nestLevel'[t] = 0 THEN NullEnv ELSE attachNumber[t]
    BY <1>1, <1>2, <1>3, <1>4 DEF TypeOK, ThreadInv
  <1> QED
    BY <1>1, <1>3, <1>4, <1>5, <1>6, <1>7, <1>8 DEF TypeOK

(***************************************************************************)
(* Detaching by way of sys_detach_current_thread: its checks hold, and the *)
(* attachment goes exactly when no Java activation is left on the stack.   *)
(***************************************************************************)
LEMMA SysDetachStep ==
    ASSUME TypeOK, NEW t \in Threads, NEW frames \in Seq(Frame),
           NEW next \in {"uncount", "uncount_exit"},
           SysDetachCurrentThread(t, frames, TRUE, next),
           \A i \in 1..Len(frames) : frames[i].kind = "java"
    PROVE  /\ origin' \in [Threads -> Origins]
           /\ attachNumber' = attachNumber
           /\ pc' \in [Threads -> Steps]
           /\ \A u \in Threads \ {t} : origin'[u] = origin[u] /\ pc'[u] = pc[u]
           /\ pc'[t] = next
           /\ frames # <<>> => origin'[t] = origin[t]
           /\ origin'[t] \in {origin[t], "none"}
  <1>1. attachNumber' = attachNumber
    BY DEF SysDetachCurrentThread, JvmDetach, jvm, Refused
  <1>2. pc' = [pc EXCEPT ![t] = next]
    BY DEF SysDetachCurrentThread, Goto
  <1>3. \/ origin' = origin
        \/ origin' = [origin EXCEPT ![t] = "none"]
           /\ ~ \E i \in 1..Len(frames) : frames[i].kind = "java"
    BY DEF SysDetachCurrentThread, JvmDetach, jvm, Refused
  <1>4. frames # <<>> => Len(frames) \in 1..Len(frames)
    BY EmptyFacts
  <1>5. frames # <<>> => origin' = origin
    BY <1>3, <1>4
  <1> QED
    BY <1>1, <1>2, <1>3, <1>5 DEF TypeOK, Origins, Steps

(* A guard on top of a live guard, or on an attachment GetEnv reports *)
LEMMA AttachNestedStep ==
    ASSUME IInv, NEW t \in Threads, AttachNested(t) \/ AttachExisting(t) \/ EnterNative(t)
    PROVE  IInv' /\ OthersUnchanged(t) /\ ContractEffect(t)
  <1>1. TypeOK /\ ThreadInv(t) /\ attachNumber[t] \in Nat /\ nestLevel[t] \in Nat
    BY DEF IInv, TypeOK
  <1>2. /\ ThreadGuardLevelPush(t, attachNumber[t], "unowned")
        /\ Attached(t) /\ Running(t)
        /\ UNCHANGED <<jvm, tlsAttachGuard, attachedThreads, pc>>
    <2>1. CASE AttachNested(t)
      <3>1. nestLevel[t] # 0 /\ threadAttachment[t] = attachNumber[t]
        BY <1>1, <2>1 DEF AttachNested, ThreadInv
      <3>2. stack[t] # <<>>
        BY <1>1, <3>1 DEF ThreadInv, LevelOf
      <3> QED
        BY <1>1, <2>1, <3>1, <3>2 DEF AttachNested, ThreadInv
    <2>2. CASE AttachExisting(t)
      BY <2>2 DEF AttachExisting
    <2>3. CASE EnterNative(t)
      BY <1>1, <2>3 DEF EnterNative, ThreadInv
    <2> QED
      BY <2>1, <2>2, <2>3
  <1>3. /\ Nested(stack[t], attachNumber[t]) /\ nestLevel[t] = LevelOf(stack[t])
        /\ threadAttachment[t] = IF nestLevel[t] = 0 THEN NullEnv ELSE attachNumber[t]
    BY <1>1 DEF ThreadInv
  <1>4. /\ stack' \in [Threads -> Seq(Frame)]
        /\ threadAttachment' \in [Threads -> Nat]
        /\ nestLevel' \in [Threads -> Nat]
        /\ \A u \in Threads \ {t} : /\ stack'[u] = stack[u]
                                    /\ threadAttachment'[u] = threadAttachment[u]
                                    /\ nestLevel'[u] = nestLevel[u]
        /\ stack'[t] # <<>>
        /\ Nested(stack'[t], attachNumber[t])
        /\ nestLevel'[t] = nestLevel[t] + 1
        /\ nestLevel'[t] = LevelOf(stack'[t])
        /\ threadAttachment'[t] = attachNumber[t]
    BY <1>1, <1>2, <1>3, PushStep
  <1>5. TypeOK'
    BY <1>1, <1>2, <1>4 DEF TypeOK, jvm
  <1>6. OthersUnchanged(t)
    BY <1>2, <1>4 DEF OthersUnchanged, jvm
  <1>7. ThreadInv(t)'
    BY <1>1, <1>2, <1>4 DEF ThreadInv, Attached, Running, jvm
  <1>8. ContractEffect(t)
    BY <1>1, <1>2, <1>4 DEF ContractEffect, JniEnv, Attached, jvm
  <1> QED
    BY <1>5, <1>6, <1>7, <1>8, OneThread

(* A detached thread has an empty stack, no guard and no cached JNIEnv. *)
LEMMA DetachedIsIdle ==
    ASSUME NEW t \in Threads, ThreadInv(t), ~Attached(t)
    PROVE  stack[t] = <<>> /\ nestLevel[t] = 0 /\ threadAttachment[t] = NullEnv
  BY DEF ThreadInv, LevelOf

(* A detached thread is attached; the counter and the guard come later. *)
LEMMA JvmAttachStep ==
    ASSUME IInv, NEW t \in Threads,
           ~Attached(t), MayAttach(t), NEW by \in {"crate", "foreign"}, JvmAttach(t, by),
           NEW step \in {"run", "count_scoped", "count_permanent"},
           pc' = [pc EXCEPT ![t] = step],
           UNCHANGED <<stack, threadLocals, tlsAttachGuard, attachedThreads>>
    PROVE  IInv' /\ OthersUnchanged(t) /\ ContractEffect(t)
  <1>1. TypeOK /\ ThreadInv(t) /\ attachNumber[t] \in Nat
    BY DEF IInv, TypeOK
  <1>2. stack[t] = <<>> /\ nestLevel[t] = 0 /\ threadAttachment[t] = NullEnv
    BY <1>1, DetachedIsIdle
  <1>3. /\ attachNumber' = [attachNumber EXCEPT ![t] = attachNumber[t] + 1]
        /\ origin' = [origin EXCEPT ![t] = by]
    BY DEF JvmAttach
  <1>4. TypeOK'
    BY <1>1, <1>3 DEF TypeOK, threadLocals, Origins, Steps
  <1>5. OthersUnchanged(t)
    BY <1>1, <1>3 DEF OthersUnchanged, threadLocals, TypeOK
  <1>6. attachNumber'[t] = attachNumber[t] + 1 /\ origin'[t] = by /\ pc'[t] = step
    BY <1>1, <1>3 DEF TypeOK
  <1>7. attachNumber[t] + 1 <= MaxAttach
    BY <1>1, BoundsAssumption DEF MayAttach
  <1>8. Nested(<<>>, attachNumber[t] + 1) /\ LevelOf(<<>>) = 0
    BY <1>1, EmptyNested
  <1>9. ThreadInv(t)'
    BY <1>1, <1>2, <1>6, <1>7, <1>8 DEF ThreadInv, threadLocals, Attached
  <1>10. ContractEffect(t)
    BY <1>2, <1>6 DEF ContractEffect, JniEnv, Attached, threadLocals
  <1> QED
    BY <1>4, <1>5, <1>9, <1>10, OneThread

(* Scoped, permanent and foreign attachments of a detached thread, which has no guard *)
LEMMA AttachScopedStep ==
    ASSUME IInv, NEW t \in Threads,
           AttachScoped(t) \/ AttachPermanentFirst(t) \/ ForeignAttach(t)
    PROVE  IInv' /\ OthersUnchanged(t) /\ ContractEffect(t)
  <1>1. TypeOK /\ ThreadInv(t)
    BY DEF IInv
  <1>2. CASE AttachScoped(t)
    <2>1. nestLevel[t] = 0
      BY <1>1, <1>2, DetachedIsIdle DEF AttachScoped, NeedsAttach
    <2> QED
      BY <1>2, <2>1, JvmAttachStep DEF AttachScoped, NeedsAttach, Goto
  <1>3. CASE AttachPermanentFirst(t)
    <2>1. nestLevel[t] = 0
      BY <1>1, <1>3, DetachedIsIdle DEF AttachPermanentFirst, NeedsAttach
    <2> QED
      BY <1>3, <2>1, JvmAttachStep DEF AttachPermanentFirst, NeedsAttach, Goto
  <1>4. CASE ForeignAttach(t)
    <2>1. pc' = [pc EXCEPT ![t] = "run"]
      BY <1>1, <1>4 DEF ForeignAttach, Running, TypeOK
    <2> QED
      BY <1>4, <2>1, JvmAttachStep DEF ForeignAttach
  <1> QED
    BY <1>2, <1>3, <1>4

(* fetch_add, and the first guard of a new attachment *)
LEMMA CountStep ==
    ASSUME IInv, NEW t \in Threads, CountScoped(t) \/ CountPermanent(t)
    PROVE  IInv' /\ OthersUnchanged(t) /\ ContractEffect(t)
  <1>1. TypeOK /\ ThreadInv(t) /\ attachNumber[t] \in Nat
    BY DEF IInv, TypeOK
  <1>2. PICK k \in {"owned", "unowned"} : ThreadGuardLevelPush(t, attachNumber[t], k)
    BY DEF CountScoped, CountPermanent
  <1>3. /\ stack[t] = <<>> /\ Attached(t)
        /\ pc' = [pc EXCEPT ![t] = "run"]
        /\ attachedThreads' = attachedThreads + 1
        /\ tlsAttachGuard' \in [Threads -> BOOLEAN]
        /\ UNCHANGED jvm
    BY <1>1 DEF CountScoped, CountPermanent, ThreadInv, Goto, TypeOK
  <1>4. /\ Nested(stack[t], attachNumber[t]) /\ nestLevel[t] = LevelOf(stack[t])
        /\ threadAttachment[t] = IF nestLevel[t] = 0 THEN NullEnv ELSE attachNumber[t]
    BY <1>1 DEF ThreadInv
  <1>5. /\ stack' \in [Threads -> Seq(Frame)]
        /\ threadAttachment' \in [Threads -> Nat]
        /\ nestLevel' \in [Threads -> Nat]
        /\ \A u \in Threads \ {t} : /\ stack'[u] = stack[u]
                                    /\ threadAttachment'[u] = threadAttachment[u]
                                    /\ nestLevel'[u] = nestLevel[u]
        /\ Nested(stack'[t], attachNumber[t])
        /\ nestLevel'[t] = nestLevel[t] + 1
        /\ nestLevel'[t] = LevelOf(stack'[t])
        /\ threadAttachment'[t] = attachNumber[t]
    BY <1>1, <1>2, <1>3, <1>4, PushStep
  <1>6. TypeOK'
    <2>1. pc' \in [Threads -> Steps] /\ attachedThreads' \in Int
      BY <1>1, <1>3 DEF TypeOK, Steps
    <2>2. origin' \in [Threads -> Origins] /\ attachNumber' \in [Threads -> Nat]
      BY <1>1, <1>3 DEF TypeOK, jvm
    <2> QED
      BY <1>3, <1>5, <2>1, <2>2, Zenon DEF TypeOK
  <1>7. OthersUnchanged(t)
    BY <1>3, <1>5 DEF OthersUnchanged, jvm
  <1>8. nestLevel'[t] # 0 /\ pc'[t] = "run"
    BY <1>1, <1>3, <1>5 DEF TypeOK
  <1>9. ThreadInv(t)'
    BY <1>1, <1>3, <1>5, <1>8 DEF ThreadInv, Attached, jvm
  <1>10. ContractEffect(t)
    BY <1>3, <1>5 DEF ContractEffect, JniEnv, Attached, jvm
  <1> QED
    BY <1>6, <1>7, <1>9, <1>10, OneThread

(* A permanent attachment made again: JVM call and guard in one step *)
LEMMA AttachAgainStep ==
    ASSUME IInv, NEW t \in Threads, AttachPermanentAgain(t)
    PROVE  IInv' /\ OthersUnchanged(t) /\ ContractEffect(t)
  <1> DEFINE e == attachNumber[t] + 1
  <1>1. TypeOK /\ ThreadInv(t) /\ attachNumber[t] \in Nat /\ e \in Nat
    BY DEF IInv, TypeOK
  <1>2. /\ ~Attached(t) /\ stack[t] = <<>>
        /\ nestLevel[t] = 0 /\ threadAttachment[t] = NullEnv
    BY <1>1, DetachedIsIdle DEF AttachPermanentAgain, NeedsAttach
  <1>3. /\ JvmAttach(t, "crate") /\ ThreadGuardLevelPush(t, e, "unowned")
        /\ Running(t) /\ MayAttach(t)
        /\ UNCHANGED <<tlsAttachGuard, attachedThreads, pc>>
    BY <1>2 DEF AttachPermanentAgain, NeedsAttach
  <1>4. /\ attachNumber' = [attachNumber EXCEPT ![t] = e]
        /\ origin' = [origin EXCEPT ![t] = "crate"]
    BY <1>3 DEF JvmAttach
  <1>5. Nested(stack[t], e) /\ nestLevel[t] = LevelOf(stack[t])
    BY <1>1, <1>2, EmptyNested
  <1>6. /\ stack' \in [Threads -> Seq(Frame)]
        /\ threadAttachment' \in [Threads -> Nat]
        /\ nestLevel' \in [Threads -> Nat]
        /\ \A u \in Threads \ {t} : /\ stack'[u] = stack[u]
                                    /\ threadAttachment'[u] = threadAttachment[u]
                                    /\ nestLevel'[u] = nestLevel[u]
        /\ Nested(stack'[t], e)
        /\ nestLevel'[t] = nestLevel[t] + 1
        /\ nestLevel'[t] = LevelOf(stack'[t])
        /\ threadAttachment'[t] = e
    <2> HIDE DEF e
    <2> QED
      BY <1>1, <1>2, <1>3, <1>5, PushStep
  <1>7. TypeOK'
    <2>1. attachNumber' \in [Threads -> Nat] /\ origin' \in [Threads -> Origins]
      BY <1>1, <1>4 DEF TypeOK, Origins
    <2> QED
      BY <1>1, <1>3, <1>6, <2>1 DEF TypeOK
  <1>8. OthersUnchanged(t)
    BY <1>1, <1>3, <1>4, <1>6 DEF OthersUnchanged, TypeOK
  <1>9. e <= MaxAttach /\ attachNumber'[t] = e /\ origin'[t] = "crate"
    BY <1>1, <1>3, <1>4, BoundsAssumption DEF MayAttach, TypeOK
  <1>10. ThreadInv(t)'
    BY <1>1, <1>2, <1>3, <1>6, <1>9 DEF ThreadInv, Attached, Running
  <1>11. ContractEffect(t)
    BY <1>2, <1>6, <1>9 DEF ContractEffect, JniEnv, Attached
  <1> QED
    BY <1>7, <1>8, <1>10, <1>11, OneThread

(* Java is called *)
LEMMA CallJavaStep ==
    ASSUME IInv, NEW t \in Threads, CallJava(t)
    PROVE  IInv' /\ OthersUnchanged(t) /\ ContractEffect(t)
  <1>1. /\ TypeOK /\ ThreadInv(t) /\ attachNumber[t] \in Nat
        /\ stack[t] \in Seq(Frame)
    BY DEF IInv, TypeOK
  <1> DEFINE x == [kind |-> "java", env |-> attachNumber[t], level |-> LevelOf(stack[t])]
  <1>2. /\ Append(stack[t], x) \in Seq(Frame) /\ Append(stack[t], x) # <<>>
        /\ Nested(Append(stack[t], x), attachNumber[t])
        /\ LevelOf(Append(stack[t], x)) = LevelOf(stack[t])
    BY <1>1, PushJava DEF ThreadInv
  <1>3. stack' = [stack EXCEPT ![t] = Append(stack[t], x)]
    BY <1>1 DEF CallJava, ThreadInv
  <1> HIDE DEF x
  <1>4. /\ Attached(t) /\ Running(t)
        /\ UNCHANGED <<jvm, threadLocals, tlsAttachGuard, attachedThreads, pc>>
    BY DEF CallJava
  <1>5. TypeOK'
    BY <1>1, <1>2, <1>3, <1>4 DEF TypeOK, jvm, threadLocals
  <1>6. OthersUnchanged(t)
    BY <1>1, <1>3, <1>4 DEF OthersUnchanged, TypeOK, jvm, threadLocals
  <1>7. stack'[t] = Append(stack[t], x)
    BY <1>1, <1>3 DEF TypeOK
  <1>8. ThreadInv(t)'
    BY <1>1, <1>2, <1>4, <1>7 DEF ThreadInv, Attached, Running, jvm, threadLocals
  <1>9. ContractEffect(t)
    BY <1>4 DEF ContractEffect, JniEnv, Attached, jvm, threadLocals
  <1> QED
    BY <1>5, <1>6, <1>8, <1>9, OneThread

(* A Java activation returns to the frame below it. *)
LEMMA ReturnFromJavaStep ==
    ASSUME IInv, NEW t \in Threads, ReturnFromJava(t)
    PROVE  IInv' /\ OthersUnchanged(t) /\ ContractEffect(t)
  <1>1. /\ TypeOK /\ ThreadInv(t) /\ attachNumber[t] \in Nat
        /\ stack[t] \in Seq(Frame)
    BY DEF IInv, TypeOK
  <1>2. stack[t] # <<>>
    BY <1>1, EmptyFacts DEF ReturnFromJava
  <1>3. /\ Below(t) \in Seq(Frame) /\ Nested(Below(t), attachNumber[t])
        /\ LevelOf(Below(t)) = LevelOf(stack[t])
    BY <1>1, <1>2, PopFrame DEF ReturnFromJava, ThreadInv, Top, Below
  <1>4. /\ stack' = [stack EXCEPT ![t] = Below(t)] /\ Running(t)
        /\ UNCHANGED <<jvm, threadLocals, tlsAttachGuard, attachedThreads, pc>>
    BY DEF ReturnFromJava
  <1>5. TypeOK'
    BY <1>1, <1>3, <1>4 DEF TypeOK, jvm, threadLocals
  <1>6. OthersUnchanged(t)
    BY <1>1, <1>4 DEF OthersUnchanged, TypeOK, jvm, threadLocals
  <1>7. stack'[t] = Below(t)
    BY <1>1, <1>4 DEF TypeOK
  <1>8. ThreadInv(t)'
    BY <1>1, <1>2, <1>3, <1>4, <1>7 DEF ThreadInv, Attached, Running, jvm, threadLocals
  <1>9. ContractEffect(t)
    BY <1>4 DEF ContractEffect, JniEnv, Attached, jvm, threadLocals
  <1> QED
    BY <1>5, <1>6, <1>8, <1>9, OneThread

(* A guard is dropped: none of its assertions can fail. *)
LEMMA DetachGuardStep ==
    ASSUME IInv, NEW t \in Threads, DetachGuard(t)
    PROVE  IInv' /\ OthersUnchanged(t) /\ ContractEffect(t)
  <1>1. /\ TypeOK /\ ThreadInv(t) /\ attachNumber[t] \in Nat
        /\ stack[t] \in Seq(Frame)
    BY DEF IInv, TypeOK
  <1>2. stack[t] # <<>> /\ Top(t).kind # "java"
    BY DEF DetachGuard
  <1>3. Top(t).level = nestLevel[t]
    BY <1>1, <1>2, PopFrame DEF ThreadInv, Top
  <1>4. /\ ThreadGuardLevelPop(t)
        /\ Running(t)
        /\ UNCHANGED <<tlsAttachGuard, attachedThreads>>
    BY <1>3 DEF DetachGuard
  <1>5. /\ stack' \in [Threads -> Seq(Frame)]
        /\ threadAttachment' \in [Threads -> Nat]
        /\ nestLevel' \in [Threads -> Nat]
        /\ \A u \in Threads \ {t} : /\ stack'[u] = stack[u]
                                    /\ threadAttachment'[u] = threadAttachment[u]
                                    /\ nestLevel'[u] = nestLevel[u]
        /\ stack'[t] = Below(t)
        /\ Nested(stack'[t], attachNumber[t])
        /\ nestLevel'[t] = nestLevel[t] - 1
        /\ nestLevel'[t] = LevelOf(stack'[t])
        /\ threadAttachment'[t] = IF nestLevel'[t] = 0 THEN NullEnv ELSE attachNumber[t]
        /\ Top(t).env = attachNumber[t]
        /\ Top(t).kind = "owned" => Below(t) = <<>> /\ nestLevel[t] = 1
    BY <1>1, <1>2, <1>4, PopStep
  <1>6. Attached(t)
    BY <1>1, <1>2 DEF ThreadInv
  <1>7. CASE Top(t).kind = "owned"
    <2>1. SysDetachCurrentThread(t, Below(t), TRUE, "uncount")
      BY <1>3, <1>5, <1>6, <1>7 DEF DetachGuard, SysDetachCurrentThread
    <2>2. Below(t) \in Seq(Frame) /\ \A i \in 1..Len(Below(t)) : Below(t)[i].kind = "java"
      BY <1>5, <1>7, EmptySeq
    <2>3. /\ origin' \in [Threads -> Origins]
          /\ attachNumber' = attachNumber
          /\ pc' \in [Threads -> Steps]
          /\ \A u \in Threads \ {t} : origin'[u] = origin[u] /\ pc'[u] = pc[u]
          /\ pc'[t] = "uncount"
          /\ origin'[t] \in {origin[t], "none"}
      BY <1>1, <2>1, <2>2, SysDetachStep
    <2>4. TypeOK'
      BY <1>1, <1>4, <1>5, <2>3 DEF TypeOK
    <2>5. OthersUnchanged(t)
      BY <1>5, <2>3 DEF OthersUnchanged
    <2>6. ThreadInv(t)'
      BY <1>1, <1>5, <1>7, <2>3 DEF ThreadInv, Attached
    <2>7. ContractEffect(t)
      BY <1>5, <1>7, <2>3 DEF ContractEffect, JniEnv, Attached
    <2> QED
      BY <2>4, <2>5, <2>6, <2>7, OneThread
  <1>8. CASE Top(t).kind # "owned"
    <2>1. UNCHANGED <<jvm, pc>>
      BY <1>3, <1>8 DEF DetachGuard
    <2>2. TypeOK'
      BY <1>1, <1>4, <1>5, <2>1 DEF TypeOK, jvm
    <2>3. OthersUnchanged(t)
      BY <1>5, <2>1 DEF OthersUnchanged, jvm
    <2>4. ThreadInv(t)'
      BY <1>1, <1>4, <1>5, <1>6, <2>1 DEF ThreadInv, Attached, Running, jvm
    <2>5. ContractEffect(t)
      BY <1>1, <1>4, <1>5, <1>6, <2>1 DEF ContractEffect, JniEnv, Attached, jvm
    <2> QED
      BY <2>2, <2>3, <2>4, <2>5, OneThread
  <1> QED
    BY <1>7, <1>8

(* The record is used, by detach_current_thread or at the thread's end. *)
LEMMA DetachRecordStep ==
    ASSUME IInv, NEW t \in Threads, DetachCurrentThread(t) \/ ThreadExit(t)
    PROVE  IInv' /\ OthersUnchanged(t) /\ ContractEffect(t)
  <1>1. /\ TypeOK /\ ThreadInv(t) /\ attachNumber[t] \in Nat
        /\ stack[t] \in Seq(Frame)
    BY DEF IInv, TypeOK
  <1>2. LevelOf(stack[t]) = 0 /\ nestLevel[t] = 0
    BY <1>1 DEF DetachCurrentThread, ThreadExit, ThreadInv, LevelOf
  <1>3. \A i \in 1..Len(stack[t]) : stack[t][i].kind = "java"
    BY <1>1, <1>2, LevelZero DEF ThreadInv
  <1>4. /\ tlsAttachGuard' = [tlsAttachGuard EXCEPT ![t] = FALSE]
        /\ UNCHANGED <<stack, threadLocals, attachedThreads>>
        /\ \/ \E next \in {"uncount", "uncount_exit"} :
                 SysDetachCurrentThread(t, stack[t], TRUE, next)
           \/ pc' = [pc EXCEPT ![t] = "dead"] /\ UNCHANGED jvm
    BY <1>2 DEF DetachCurrentThread, ThreadExit, SysDetachCurrentThread, Goto
  <1>5. /\ origin' \in [Threads -> Origins]
        /\ attachNumber' = attachNumber
        /\ pc' \in [Threads -> Steps]
        /\ \A u \in Threads \ {t} : origin'[u] = origin[u] /\ pc'[u] = pc[u]
        /\ pc'[t] \in {"uncount", "uncount_exit", "dead"}
        /\ stack[t] # <<>> => origin'[t] = origin[t]
        /\ origin'[t] \in {origin[t], "none"}
    <2>1. CASE \E next \in {"uncount", "uncount_exit"} :
                 SysDetachCurrentThread(t, stack[t], TRUE, next)
      BY <1>1, <1>3, <2>1, SysDetachStep
    <2>2. CASE pc' = [pc EXCEPT ![t] = "dead"] /\ UNCHANGED jvm
      <3>1. ThreadExit(t) => stack[t] = <<>>
        BY DEF ThreadExit
      <3> QED
        BY <1>1, <2>2 DEF TypeOK, jvm, Steps
    <2> QED
      BY <1>4, <2>1, <2>2
  <1>6. TypeOK'
    BY <1>1, <1>4, <1>5 DEF TypeOK, threadLocals
  <1>7. OthersUnchanged(t)
    BY <1>4, <1>5 DEF OthersUnchanged, threadLocals
  <1>8. ThreadInv(t)'
    BY <1>1, <1>4, <1>5 DEF ThreadInv, Attached, threadLocals
  <1>9. ContractEffect(t)
    BY <1>2, <1>4, <1>5 DEF ContractEffect, JniEnv, Attached, threadLocals
  <1> QED
    BY <1>6, <1>7, <1>8, <1>9, OneThread

(* The JVM ends a thread of its own. *)
LEMMA JavaThreadExitStep ==
    ASSUME IInv, NEW t \in Threads, JavaThreadExit(t)
    PROVE  IInv' /\ OthersUnchanged(t) /\ ContractEffect(t)
  <1>1. /\ TypeOK /\ ThreadInv(t) /\ attachNumber[t] \in Nat
        /\ stack[t] \in Seq(Frame) /\ <<>> \in Seq(Frame)
    BY EmptySeq DEF IInv, TypeOK
  <1>2. nestLevel[t] = 0
    <2>1. Len(stack[t]) = 1 /\ stack[t][1].kind = "java" /\ stack[t] # <<>>
      BY <1>1, EmptyFacts DEF JavaThreadExit, Top
    <2> QED
      BY <1>1, <2>1 DEF ThreadInv, LevelOf, Nested
  <1>3. /\ stack' = [stack EXCEPT ![t] = <<>>]
        /\ origin' = [origin EXCEPT ![t] = "none"]
        /\ tlsAttachGuard' = [tlsAttachGuard EXCEPT ![t] = FALSE]
        /\ UNCHANGED <<attachNumber, threadLocals, attachedThreads>>
    BY DEF JavaThreadExit
  <1>4. PICK step \in {"uncount_exit", "dead"} : pc' = [pc EXCEPT ![t] = step]
    BY DEF JavaThreadExit, Goto
  <1>5. TypeOK'
    BY <1>1, <1>3, <1>4 DEF TypeOK, threadLocals, Origins, Steps
  <1>6. OthersUnchanged(t)
    BY <1>1, <1>3, <1>4 DEF OthersUnchanged, TypeOK, threadLocals
  <1>7. stack'[t] = <<>> /\ origin'[t] = "none" /\ pc'[t] = step
    BY <1>1, <1>3, <1>4 DEF TypeOK
  <1>8. Nested(<<>>, attachNumber[t]) /\ LevelOf(<<>>) = 0
    BY <1>1, EmptyNested
  <1>9. ThreadInv(t)'
    BY <1>1, <1>2, <1>3, <1>7, <1>8 DEF ThreadInv, Attached, threadLocals
  <1>10. ContractEffect(t)
    BY <1>2, <1>3, <1>7 DEF ContractEffect, JniEnv, Attached, threadLocals
  <1> QED
    BY <1>5, <1>6, <1>9, <1>10, OneThread

(* Steps that only touch the counter, the record or an unused attachment *)
LEMMA OtherSteps ==
    ASSUME IInv, NEW t \in Threads,
           Uncount(t) \/ AttachPermanentFails(t) \/ ForeignDetach(t)
    PROVE  IInv' /\ OthersUnchanged(t) /\ ContractEffect(t)
  <1>1. TypeOK /\ ThreadInv(t) /\ attachNumber[t] \in Nat
    BY DEF IInv, TypeOK
  <1>2. CASE Uncount(t)
    <2>1. PICK step \in {"run", "dead"} : pc' = [pc EXCEPT ![t] = step]
      BY <1>2 DEF Uncount, Goto
    <2>2. /\ attachedThreads' = attachedThreads - 1
          /\ UNCHANGED <<jvm, stack, threadLocals, tlsAttachGuard>>
      BY <1>2 DEF Uncount
    <2>3. TypeOK'
      BY <1>1, <2>1, <2>2 DEF TypeOK, jvm, threadLocals, Steps
    <2>4. OthersUnchanged(t)
      BY <1>1, <2>1, <2>2 DEF OthersUnchanged, TypeOK, jvm, threadLocals
    <2>5. pc'[t] = step
      BY <1>1, <2>1 DEF TypeOK
    <2>6. ThreadInv(t)'
      BY <1>1, <2>2, <2>5 DEF ThreadInv, Attached, jvm, threadLocals
    <2>7. ContractEffect(t)
      BY <2>2 DEF ContractEffect, JniEnv, Attached, jvm, threadLocals
    <2> QED
      BY <2>3, <2>4, <2>6, <2>7, OneThread
  <1>3. CASE AttachPermanentFails(t)
    <2>1. TypeOK'
      BY <1>1, <1>3 DEF AttachPermanentFails, TypeOK, jvm, threadLocals
    <2>2. OthersUnchanged(t)
      BY <1>3 DEF AttachPermanentFails, OthersUnchanged, jvm, threadLocals
    <2>3. ThreadInv(t)'
      BY <1>1, <1>3 DEF AttachPermanentFails, ThreadInv, Attached, jvm, threadLocals
    <2>4. ContractEffect(t)
      BY <1>3 DEF ContractEffect, JniEnv, Attached, AttachPermanentFails, jvm, threadLocals
    <2> QED
      BY <2>1, <2>2, <2>3, <2>4, OneThread
  <1>4. CASE ForeignDetach(t)
    <2>1. /\ origin' = [origin EXCEPT ![t] = "none"] \/ origin' = origin
          /\ attachNumber' = attachNumber /\ stack[t] = <<>> /\ Running(t)
          /\ UNCHANGED <<stack, threadLocals, tlsAttachGuard, attachedThreads, pc>>
      BY <1>4 DEF ForeignDetach, JvmDetach
    <2>2. TypeOK'
      BY <1>1, <2>1 DEF TypeOK, threadLocals, Origins
    <2>3. OthersUnchanged(t)
      BY <1>1, <2>1 DEF OthersUnchanged, TypeOK, threadLocals
    <2>4. origin'[t] \in {origin[t], "none"}
      BY <1>1, <2>1 DEF TypeOK
    <2>5. ThreadInv(t)'
      BY <1>1, <2>1, <2>4 DEF ThreadInv, Attached, threadLocals, Running
    <2>6. nestLevel[t] = 0
      BY <1>1, <2>1 DEF ThreadInv, LevelOf
    <2>7. ContractEffect(t)
      BY <2>1, <2>4, <2>6 DEF ContractEffect, JniEnv, Attached, threadLocals
    <2> QED
      BY <2>2, <2>3, <2>5, <2>7, OneThread
  <1> QED
    BY <1>2, <1>3, <1>4

(* The invariant holds at first. *)
LEMMA InitIInv == Init => IInv
  <1> SUFFICES ASSUME Init
               PROVE  IInv
    OBVIOUS
  <1>1. JavaFrame(1) \in Frame
    BY DEF JavaFrame, Frame, FrameKinds
  <1>2. <<>> \in Seq(Frame) /\ <<JavaFrame(1)>> \in Seq(Frame)
    BY <1>1
  <1>3. TypeOK
    BY <1>2 DEF Init, TypeOK, Origins, Steps, NullEnv
  <1>4. ASSUME NEW t \in Threads
        PROVE  ThreadInv(t)
    <2>1. CASE t \in JavaThreads
      <3>1. /\ stack[t] = <<JavaFrame(1)>> /\ attachNumber[t] = 1 /\ nestLevel[t] = 0
            /\ threadAttachment[t] = NullEnv /\ pc[t] = "run" /\ Attached(t)
        BY <2>1 DEF Init, Attached
      <3>2. /\ Len(<<JavaFrame(1)>>) = 1 /\ <<JavaFrame(1)>>[1] = JavaFrame(1)
            /\ <<JavaFrame(1)>> # <<>>
        OBVIOUS
      <3>3. /\ JavaFrame(1).kind = "java" /\ JavaFrame(1).env = 1
            /\ JavaFrame(1).level = 0
        BY DEF JavaFrame
      <3>4. Nested(<<JavaFrame(1)>>, 1) /\ LevelOf(<<JavaFrame(1)>>) = 0
        BY <3>2, <3>3 DEF Nested, LevelOf
      <3> QED
        BY <3>1, <3>4, BoundsAssumption DEF ThreadInv
    <2>2. CASE t \notin JavaThreads
      <3>1. /\ stack[t] = <<>> /\ attachNumber[t] = 0 /\ nestLevel[t] = 0
            /\ threadAttachment[t] = NullEnv /\ pc[t] = "run" /\ ~Attached(t)
        BY <2>2 DEF Init, Attached
      <3> QED
        BY <3>1, EmptyNested, BoundsAssumption DEF ThreadInv
    <2> QED
      BY <2>1, <2>2
  <1> QED
    BY <1>3, <1>4 DEF IInv

(***************************************************************************)
(* Every step keeps the invariant, and is a step of one thread that has an *)
(* effect the contract knows, or changes nothing.                          *)
(***************************************************************************)
KnownStep == UNCHANGED vars \/ \E t \in Threads : OthersUnchanged(t) /\ ContractEffect(t)

(* Every step keeps the invariant, and is one of the steps the contract knows. *)
LEMMA StepIInv == IInv /\ [Next]_vars => IInv' /\ KnownStep
  <1> SUFFICES ASSUME IInv, [Next]_vars
               PROVE  IInv' /\ KnownStep
    OBVIOUS
  <1>1. CASE UNCHANGED vars
    BY <1>1 DEF IInv, TypeOK, ThreadInv, Attached, vars, KnownStep
  <1>2. ASSUME NEW t \in Threads,
               AttachNested(t) \/ AttachExisting(t) \/ EnterNative(t)
        PROVE  IInv' /\ OthersUnchanged(t) /\ ContractEffect(t)
    BY <1>2, AttachNestedStep
  <1>3. ASSUME NEW t \in Threads,
               AttachScoped(t) \/ AttachPermanentFirst(t) \/ ForeignAttach(t)
        PROVE  IInv' /\ OthersUnchanged(t) /\ ContractEffect(t)
    BY <1>3, AttachScopedStep
  <1>4. ASSUME NEW t \in Threads, CountScoped(t) \/ CountPermanent(t)
        PROVE  IInv' /\ OthersUnchanged(t) /\ ContractEffect(t)
    BY <1>4, CountStep
  <1>5. ASSUME NEW t \in Threads, AttachPermanentAgain(t)
        PROVE  IInv' /\ OthersUnchanged(t) /\ ContractEffect(t)
    BY <1>5, AttachAgainStep
  <1>6. ASSUME NEW t \in Threads, CallJava(t)
        PROVE  IInv' /\ OthersUnchanged(t) /\ ContractEffect(t)
    BY <1>6, CallJavaStep
  <1>7. ASSUME NEW t \in Threads, ReturnFromJava(t)
        PROVE  IInv' /\ OthersUnchanged(t) /\ ContractEffect(t)
    BY <1>7, ReturnFromJavaStep
  <1>8. ASSUME NEW t \in Threads, DetachGuard(t)
        PROVE  IInv' /\ OthersUnchanged(t) /\ ContractEffect(t)
    BY <1>8, DetachGuardStep
  <1>9. ASSUME NEW t \in Threads, DetachCurrentThread(t) \/ ThreadExit(t)
        PROVE  IInv' /\ OthersUnchanged(t) /\ ContractEffect(t)
    BY <1>9, DetachRecordStep
  <1>10. ASSUME NEW t \in Threads, JavaThreadExit(t)
         PROVE  IInv' /\ OthersUnchanged(t) /\ ContractEffect(t)
    BY <1>10, JavaThreadExitStep
  <1>11. ASSUME NEW t \in Threads,
                Uncount(t) \/ AttachPermanentFails(t) \/ ForeignDetach(t)
         PROVE  IInv' /\ OthersUnchanged(t) /\ ContractEffect(t)
    BY <1>11, OtherSteps
  <1>12. CASE Terminated
    BY <1>1, <1>12 DEF Terminated
  <1> QED
    BY <1>1, <1>2, <1>3, <1>4, <1>5, <1>6, <1>7, <1>8, <1>9, <1>10, <1>11, <1>12
       DEF Next, KnownStep

(* The invariant holds in every reachable state. *)
LEMMA AlwaysIInv == Spec => []IInv
  BY InitIInv, StepIInv, PTL DEF Spec

-------------------------------------------------------------------------------
(* Theorems *)

(***************************************************************************)
(* Every variable keeps its type; in particular no sequence of calls pops  *)
(* the unsigned guard level of a thread below 0.                           *)
(***************************************************************************)
THEOREM TypeCorrect == Spec => []TypeOK
  <1>1. IInv => TypeOK
    BY DEF IInv
  <1> QED
    BY <1>1, AlwaysIInv, PTL

(***************************************************************************)
(* No sequence of attachments, nested guards, native methods, detachments  *)
(* and foreign calls, on any number of threads, leaves a guard, or the     *)
(* pointer in THREAD_ATTACHMENT, with a JNIEnv the JVM no longer has for   *)
(* the thread.                                                             *)
(***************************************************************************)
THEOREM LiveEnv == Spec => []GuardsHoldLiveEnv
  <1>1. IInv => GuardsHoldLiveEnv
    BY DEF IInv, ThreadInv, GuardsHoldLiveEnv, Nested
  <1> QED
    BY <1>1, AlwaysIInv, PTL

(***************************************************************************)
(* The assertions on the guard level, on the order of drops and on the     *)
(* identity of an owned attachment never fail.                             *)
(***************************************************************************)
THEOREM NoAssertionFails == Spec => []AssertionsHold
  <1>1. IInv => AssertionsHold
    BY DEF IInv, ThreadInv, AssertionsHold
  <1> QED
    BY <1>1, AlwaysIInv, PTL

-------------------------------------------------------------------------------
(* The contract is kept *)

(* The JNIEnv of a thread is one of those the bound allows, or null. *)
LEMMA JniEnvType ==
    ASSUME IInv, NEW t \in Threads
    PROVE  /\ JniEnv(t) \in Env \union {NullEnv}
           /\ Attached(t) => JniEnv(t) \in Env
           /\ Attached(t) <=> JniEnv(t) # NullEnv
           /\ nestLevel[t] \in Nat
           /\ nestLevel[t] > 0 => Attached(t)
  BY BoundsAssumption DEF IInv, TypeOK, ThreadInv, JniEnv, Env, NullEnv, LevelOf

(* A step the contract knows is one of its steps, or stutters. *)
LEMMA EffectMaps ==
    ASSUME IInv, IInv', NEW t \in Threads, OthersUnchanged(t), ContractEffect(t)
    PROVE  [Contract!ContractNext]_(Contract!contractVars)
  <1> DEFINE envs == [u \in Threads |-> IF Attached(u) THEN attachNumber[u] ELSE NullEnv]
  <1>1. /\ envs \in [Threads -> Env \union {NullEnv}]
        /\ envs' \in [Threads -> Env \union {NullEnv}]
        /\ \A u \in Threads : envs[u] = JniEnv(u) /\ envs'[u] = JniEnv(u)'
    <2>1. \A u \in Threads : JniEnv(u) \in Env \union {NullEnv}
      BY JniEnvType
    <2>2. \A u \in Threads : JniEnv(u)' \in Env \union {NullEnv}
      BY BoundsAssumption DEF IInv, TypeOK, ThreadInv, JniEnv, Attached, Env, NullEnv
    <2> QED
      BY <2>1, <2>2 DEF JniEnv
  <1>2. nestLevel \in [Threads -> Nat] /\ nestLevel' \in [Threads -> Nat]
    BY DEF IInv, TypeOK
  <1>3. \A u \in Threads \ {t} : envs'[u] = envs[u] /\ nestLevel'[u] = nestLevel[u]
    BY DEF OthersUnchanged, Attached
  <1>4. /\ JniEnv(t) \in Env \union {NullEnv}
        /\ Attached(t) <=> JniEnv(t) # NullEnv
        /\ nestLevel[t] \in Nat
        /\ nestLevel[t] > 0 => Attached(t)
    BY JniEnvType
  <1>5. /\ Attached(t)' => JniEnv(t)' \in Env
        /\ Attached(t)' <=> JniEnv(t)' # NullEnv
        /\ nestLevel'[t] \in Nat
    BY BoundsAssumption
       DEF IInv, TypeOK, ThreadInv, JniEnv, Attached, Env, NullEnv
  <1> HIDE DEF envs
  <1>6. envs' = [envs EXCEPT ![t] = JniEnv(t)']
    BY <1>1, <1>3
  <1>7. nestLevel' = [nestLevel EXCEPT ![t] = nestLevel'[t]]
    BY <1>2, <1>3
  <1>8. envs[t] = JniEnv(t)
    BY <1>1
  <1>9. CASE JniEnv(t)' = JniEnv(t) /\ nestLevel'[t] = nestLevel[t]
    <2>1. envs' = envs /\ nestLevel' = nestLevel
      BY <1>1, <1>2, <1>3, <1>9
    <2> QED
      BY <2>1 DEF Contract!contractVars, envs
  <1>10. CASE JniEnv(t)' = JniEnv(t) /\ nestLevel'[t] = nestLevel[t] + 1 /\ Attached(t)
    <2>1. envs' = envs /\ envs[t] # NullEnv
          /\ nestLevel' = [nestLevel EXCEPT ![t] = nestLevel[t] + 1]
      BY <1>1, <1>3, <1>4, <1>7, <1>8, <1>10
    <2>2. Contract!Use(t)
      BY <2>1 DEF Contract!Use, envs
    <2> QED
      BY <2>2 DEF Contract!ContractNext
  <1>11. CASE JniEnv(t)' = JniEnv(t) /\ nestLevel'[t] = nestLevel[t] - 1
    <2>1. envs' = envs /\ nestLevel[t] > 0
          /\ nestLevel' = [nestLevel EXCEPT ![t] = nestLevel[t] - 1]
      BY <1>1, <1>3, <1>4, <1>5, <1>7, <1>11
    <2>2. Contract!Release(t)
      BY <2>1 DEF Contract!Release, envs
    <2> QED
      BY <2>2 DEF Contract!ContractNext
  <1>12. CASE ~Attached(t) /\ Attached(t)' /\ nestLevel'[t] = nestLevel[t]
    <2>1. envs[t] = NullEnv /\ JniEnv(t)' \in Env /\ nestLevel' = nestLevel
      BY <1>2, <1>3, <1>4, <1>5, <1>8, <1>12
    <2>2. Contract!Attach(t)
      BY <1>6, <2>1 DEF Contract!Attach, envs
    <2> QED
      BY <2>2 DEF Contract!ContractNext
  <1>13. CASE ~Attached(t) /\ Attached(t)' /\ nestLevel[t] = 0 /\ nestLevel'[t] = 1
    <2>1. envs[t] = NullEnv /\ JniEnv(t)' \in Env
          /\ nestLevel' = [nestLevel EXCEPT ![t] = 1]
      BY <1>4, <1>5, <1>7, <1>8, <1>13
    <2>2. Contract!AttachAndUse(t)
      BY <1>6, <1>13, <2>1 DEF Contract!AttachAndUse, envs
    <2> QED
      BY <2>2 DEF Contract!ContractNext
  <1>14. CASE ~Attached(t)' /\ nestLevel[t] = 1 /\ nestLevel'[t] = 0
    <2>1. /\ envs' = [envs EXCEPT ![t] = NullEnv]
          /\ nestLevel' = [nestLevel EXCEPT ![t] = nestLevel[t] - 1]
      BY <1>5, <1>6, <1>7, <1>14 DEF JniEnv
    <2>2. Contract!Release(t)
      BY <1>14, <2>1 DEF Contract!Release, envs
    <2> QED
      BY <2>2 DEF Contract!ContractNext
  <1>15. CASE Attached(t) /\ ~Attached(t)' /\ nestLevel[t] = 0 /\ nestLevel'[t] = 0
    <2>1. JniEnv(t)' = NullEnv /\ JniEnv(t) # NullEnv
      BY <1>4, <1>5, <1>15
    <2>2. /\ envs' = [envs EXCEPT ![t] = NullEnv]
          /\ envs[t] # NullEnv
      BY <1>6, <1>8, <2>1
    <2>3. nestLevel' = nestLevel
      BY <1>2, <1>3, <1>15
    <2>4. Contract!Detach(t)
      BY <1>15, <2>2, <2>3 DEF Contract!Detach, envs
    <2> QED
      BY <2>4 DEF Contract!ContractNext
  <1> QED
    BY <1>9, <1>10, <1>11, <1>12, <1>13, <1>14, <1>15 DEF ContractEffect

(***************************************************************************)
(* The crate's attachment code implements the contract: for any number of  *)
(* threads and any nesting, the JNIEnv of a thread neither goes away nor   *)
(* changes while a guard lends it out.                                     *)
(***************************************************************************)
THEOREM ContractKept == Spec => KeepsContract
  <1>1. Init => Contract!ContractInit
    <2> SUFFICES ASSUME Init
                 PROVE  Contract!ContractInit
      OBVIOUS
    <2>1. IInv
      BY InitIInv
    <2>2. [t \in Threads |-> IF Attached(t) THEN attachNumber[t] ELSE NullEnv]
             \in [Threads -> Env \union {NullEnv}]
      BY <2>1, JniEnvType DEF JniEnv
    <2>3. nestLevel = [t \in Threads |-> 0]
      BY DEF Init
    <2> QED
      BY <2>2, <2>3 DEF Contract!ContractInit
  <1>2. IInv /\ [Next]_vars => [Contract!ContractNext]_(Contract!contractVars)
    <2> SUFFICES ASSUME IInv, [Next]_vars
                 PROVE  [Contract!ContractNext]_(Contract!contractVars)
      OBVIOUS
    <2>1. IInv' /\ KnownStep
      BY StepIInv
    <2>2. CASE UNCHANGED vars
      BY <2>2 DEF vars, Contract!contractVars, Attached
    <2>3. ASSUME NEW t \in Threads, OthersUnchanged(t), ContractEffect(t)
          PROVE  [Contract!ContractNext]_(Contract!contractVars)
      BY <2>1, <2>3, EffectMaps
    <2> QED
      BY <2>1, <2>2, <2>3 DEF KnownStep
  <1> QED
    BY <1>1, <1>2, AlwaysIInv, PTL DEF Spec, KeepsContract, Contract!ContractSpec

-------------------------------------------------------------------------------
(***************************************************************************)
(* Attachments and their claims.  What undoes an attachment of the crate   *)
(* is a record, an owning guard, or the step that is about to make either; *)
(* a thread that ends has none of them left.                               *)
(***************************************************************************)
LedgerInv(t) ==
    /\ pc[t] = "count_permanent" => tlsAttachGuard[t] = FALSE
    /\ pc[t] \in {"uncount_exit", "dead"} => tlsAttachGuard[t] = FALSE /\ stack[t] = <<>>
    /\ origin[t] = "crate" /\ refused[t].detach = FALSE =>
          \/ tlsAttachGuard[t] = TRUE
          \/ Owns(t)
          \/ pc[t] \in {"count_scoped", "count_permanent"}

Refusals == [forgotten : Nat, detach : BOOLEAN]
Ledger == refused \in [Threads -> Refusals] /\ \A t \in Threads : LedgerInv(t)

Uncounts(t) == pc[t] \in {"uncount", "uncount_exit"}

(* What a step does to the claims of its thread and to ATTACHED_THREADS *)
SameRecord(t) == tlsAttachGuard'[t] = tlsAttachGuard[t]
SameOwner(t) == Owns(t)' <=> Owns(t)
SameUncount(t) == Uncounts(t)' <=> Uncounts(t)
SameForgotten(t) == refused'[t].forgotten = refused[t].forgotten
RecordLost(t) == tlsAttachGuard[t] = TRUE /\ tlsAttachGuard'[t] = FALSE

ClaimEffect(t) ==
    \/ /\ SameRecord(t) /\ SameOwner(t) /\ SameUncount(t) /\ SameForgotten(t)
       /\ attachedThreads' = attachedThreads
    \/ /\ ~Owns(t) /\ Owns(t)' /\ SameRecord(t) /\ SameUncount(t) /\ SameForgotten(t)
       /\ attachedThreads' = attachedThreads + 1
    \/ /\ tlsAttachGuard[t] = FALSE /\ tlsAttachGuard'[t] = TRUE
       /\ SameOwner(t) /\ SameUncount(t) /\ SameForgotten(t)
       /\ attachedThreads' = attachedThreads + 1
    \/ /\ RecordLost(t) /\ refused'[t].forgotten = refused[t].forgotten + 1
       /\ SameOwner(t) /\ SameUncount(t)
       /\ attachedThreads' = attachedThreads
    \/ /\ Owns(t) /\ ~Owns(t)' /\ ~Uncounts(t) /\ Uncounts(t)'
       /\ SameRecord(t) /\ SameForgotten(t)
       /\ attachedThreads' = attachedThreads
    \/ /\ RecordLost(t) /\ ~Uncounts(t) /\ Uncounts(t)'
       /\ SameOwner(t) /\ SameForgotten(t)
       /\ attachedThreads' = attachedThreads
    \/ /\ Uncounts(t) /\ ~Uncounts(t)' /\ SameRecord(t) /\ SameOwner(t) /\ SameForgotten(t)
       /\ attachedThreads' = attachedThreads - 1

OtherClaims(t) ==
    /\ tlsAttachGuard' \in [Threads -> BOOLEAN]
    /\ refused' \in [Threads -> Refusals]
    /\ \A u \in Threads \ {t} :
          /\ origin'[u] = origin[u] /\ stack'[u] = stack[u] /\ pc'[u] = pc[u]
          /\ tlsAttachGuard'[u] = tlsAttachGuard[u] /\ refused'[u] = refused[u]

LedgerStep(t) == OtherClaims(t) /\ LedgerInv(t)' /\ ClaimEffect(t)

(* A pushed frame owns the attachment or leaves the question alone. *)
LEMMA PushOwns ==
    ASSUME TypeOK, NEW t \in Threads, NEW x \in Frame,
           stack' = [stack EXCEPT ![t] = Append(stack[t], x)]
    PROVE  Owns(t)' <=> Owns(t) \/ x.kind = "owned"
  <1>1. stack'[t] = Append(stack[t], x) /\ stack[t] \in Seq(Frame)
    BY DEF TypeOK
  <1>2. /\ Len(stack[t]) \in Nat /\ Len(stack'[t]) = Len(stack[t]) + 1
        /\ stack'[t][Len(stack[t]) + 1] = x
        /\ \A i \in 1..Len(stack[t]) : stack'[t][i] = stack[t][i]
    BY <1>1, PushFacts
  <1>3. PICK n \in Nat : n = Len(stack[t])
    BY <1>2
  <1>4. \A i \in 1..(n + 1) : i \in 1..n \/ i = n + 1
    BY <1>3
  <1>5. n + 1 \in 1..(n + 1) /\ \A i \in 1..n : i \in 1..(n + 1)
    BY <1>3
  <1> QED
    BY <1>2, <1>3, <1>4, <1>5 DEF Owns

(* So does a popped one. *)
LEMMA PopOwns ==
    ASSUME TypeOK, NEW t \in Threads, stack[t] # <<>>,
           stack' = [stack EXCEPT ![t] = Below(t)]
    PROVE  Owns(t) <=> Owns(t)' \/ Top(t).kind = "owned"
  <1>1. stack'[t] = Below(t) /\ stack[t] \in Seq(Frame)
    BY DEF TypeOK
  <1>2. /\ Len(stack[t]) \in Nat \ {0} /\ Len(stack'[t]) = Len(stack[t]) - 1
        /\ \A i \in 1..Len(stack'[t]) : stack'[t][i] = stack[t][i]
    BY <1>1, PopFacts DEF Below
  <1>3. PICK n \in Nat : n = Len(stack'[t])
    BY <1>2
  <1>4. \A i \in 1..(n + 1) : i \in 1..n \/ i = n + 1
    BY <1>3
  <1>5. n + 1 \in 1..(n + 1) /\ (\A i \in 1..n : i \in 1..(n + 1)) /\ Len(stack[t]) = n + 1
    BY <1>2, <1>3
  <1> QED
    BY <1>2, <1>3, <1>4, <1>5 DEF Owns, Top

(* The steps that push or pop a frame and do not touch the attachment *)
LEMMA FrameLedger ==
    ASSUME IInv, Ledger, NEW t \in Threads,
           \/ AttachNested(t) \/ AttachExisting(t) \/ EnterNative(t)
           \/ CallJava(t) \/ ReturnFromJava(t)
    PROVE  LedgerStep(t)
  <1>1. TypeOK /\ LedgerInv(t) /\ refused \in [Threads -> Refusals]
    BY DEF IInv, Ledger
  <1>2. /\ UNCHANGED <<origin, refused, tlsAttachGuard, attachedThreads, pc>>
        /\ pc[t] = "run"
    BY DEF AttachNested, AttachExisting, EnterNative, CallJava, ReturnFromJava, Running, jvm
  <1>3. /\ Owns(t)' <=> Owns(t)
        /\ \A u \in Threads \ {t} : stack'[u] = stack[u]
    <2>1. CASE AttachNested(t) \/ AttachExisting(t) \/ EnterNative(t)
      <3>1. PICK e \in Nat : ThreadGuardLevelPush(t, e, "unowned")
        BY <1>1, <2>1 DEF AttachNested, AttachExisting, EnterNative, TypeOK
      <3> DEFINE x == [kind |-> "unowned", env |-> e, level |-> nestLevel[t] + 1]
      <3>2. x \in Frame /\ x.kind # "owned"
        BY <1>1 DEF TypeOK, Frame, FrameKinds
      <3>3. stack' = [stack EXCEPT ![t] = Append(stack[t], x)]
        BY <3>1 DEF ThreadGuardLevelPush
      <3> HIDE DEF x
      <3> QED
        BY <1>1, <3>2, <3>3, PushOwns DEF TypeOK
    <2>2. CASE CallJava(t)
      <3> DEFINE x == [kind |-> "java", env |-> attachNumber[t], level |-> nestLevel[t]]
      <3>1. x \in Frame /\ x.kind # "owned"
        BY <1>1 DEF TypeOK, Frame, FrameKinds
      <3>2. stack' = [stack EXCEPT ![t] = Append(stack[t], x)]
        BY <2>2 DEF CallJava
      <3> HIDE DEF x
      <3> QED
        BY <1>1, <3>1, <3>2, PushOwns DEF TypeOK
    <2>3. CASE ReturnFromJava(t)
      <3>1. stack[t] # <<>> /\ Top(t).kind # "owned"
        BY <1>1, <2>3, EmptyFacts DEF ReturnFromJava, TypeOK
      <3>2. stack' = [stack EXCEPT ![t] = Below(t)]
        BY <2>3 DEF ReturnFromJava
      <3> QED
        BY <1>1, <3>1, <3>2, PopOwns DEF TypeOK
    <2> QED
      BY <2>1, <2>2, <2>3
  <1>4. OtherClaims(t)
    BY <1>1, <1>2, <1>3 DEF OtherClaims, TypeOK
  <1>5. LedgerInv(t)'
    BY <1>1, <1>2, <1>3, Zenon DEF LedgerInv
  <1>6. ClaimEffect(t)
    BY <1>2, <1>3 DEF ClaimEffect, SameRecord, SameOwner, SameUncount, SameForgotten, Uncounts
  <1> QED
    BY <1>4, <1>5, <1>6 DEF LedgerStep

(* The steps that attach a thread *)
LEMMA AttachLedger ==
    ASSUME IInv, Ledger, NEW t \in Threads,
           \/ AttachScoped(t) \/ AttachPermanentFirst(t) \/ ForeignAttach(t)
           \/ AttachPermanentAgain(t)
    PROVE  LedgerStep(t)
  <1>1. TypeOK /\ ThreadInv(t) /\ LedgerInv(t) /\ refused \in [Threads -> Refusals]
    BY DEF IInv, Ledger
  <1>2. /\ ~Attached(t) /\ stack[t] = <<>> /\ nestLevel[t] = 0 /\ pc[t] = "run"
    BY <1>1, DetachedIsIdle DEF AttachScoped, AttachPermanentFirst, ForeignAttach,
       AttachPermanentAgain, NeedsAttach, Running
  <1>3. \E by \in {"crate", "foreign"} : JvmAttach(t, by)
    BY <1>2 DEF AttachScoped, AttachPermanentFirst, ForeignAttach, AttachPermanentAgain
  <1>4. UNCHANGED <<tlsAttachGuard, attachedThreads>>
    BY <1>2 DEF AttachScoped, AttachPermanentFirst, ForeignAttach, AttachPermanentAgain
  <1>5. /\ refused' = [refused EXCEPT ![t].detach = FALSE]
        /\ refused' \in [Threads -> Refusals]
        /\ SameForgotten(t) /\ \A u \in Threads \ {t} : refused'[u] = refused[u]
        /\ origin'[t] \in {"crate", "foreign"}
        /\ \A u \in Threads \ {t} : origin'[u] = origin[u]
    <2>1. refused' = [refused EXCEPT ![t].detach = FALSE]
      BY <1>3 DEF JvmAttach
    <2>2. refused' \in [Threads -> Refusals]
      BY <1>1, <2>1 DEF Refusals
    <2>3. SameForgotten(t) /\ \A u \in Threads \ {t} : refused'[u] = refused[u]
      BY <1>1, <2>1 DEF Refusals, SameForgotten
    <2> QED
      BY <1>1, <1>3, <2>1, <2>2, <2>3 DEF JvmAttach, TypeOK
  <1>6. CASE AttachScoped(t) \/ AttachPermanentFirst(t) \/ ForeignAttach(t)
    <2>1. /\ stack' = stack
          /\ \/ pc' = [pc EXCEPT ![t] = "count_scoped"]
             \/ pc' = [pc EXCEPT ![t] = "count_permanent"] /\ ~tlsAttachGuard[t]
             \/ pc' = pc /\ origin'[t] = "foreign"
      <3>1. CASE AttachScoped(t)
        BY <1>2, <3>1 DEF AttachScoped, Goto
      <3>2. CASE AttachPermanentFirst(t)
        BY <1>2, <3>2 DEF AttachPermanentFirst, Goto
      <3>3. CASE ForeignAttach(t)
        BY <1>1, <3>3 DEF ForeignAttach, JvmAttach, TypeOK
      <3> QED
        BY <1>6, <3>1, <3>2, <3>3
    <2>2. /\ \A u \in Threads \ {t} : pc'[u] = pc[u]
          /\ pc'[t] \in {"run", "count_scoped", "count_permanent"}
          /\ pc'[t] = "count_permanent" => tlsAttachGuard[t] = FALSE
          /\ pc'[t] = "run" => origin'[t] = "foreign"
      BY <1>1, <1>2, <2>1 DEF TypeOK
    <2>3. LedgerInv(t)'
      BY <1>4, <2>2 DEF LedgerInv
    <2>4. OtherClaims(t)
      BY <1>1, <1>4, <1>5, <2>1, <2>2 DEF OtherClaims, TypeOK
    <2>5. ClaimEffect(t)
      BY <1>2, <1>4, <1>5, <2>1, <2>2
         DEF ClaimEffect, SameRecord, SameOwner, SameUncount, Uncounts, Owns
    <2> QED
      BY <2>3, <2>4, <2>5 DEF LedgerStep
  <1>7. CASE AttachPermanentAgain(t)
    <2>1. /\ ThreadGuardLevelPush(t, attachNumber[t] + 1, "unowned")
          /\ UNCHANGED pc /\ tlsAttachGuard[t]
      BY <1>2, <1>7 DEF AttachPermanentAgain
    <2> DEFINE x == [kind |-> "unowned", env |-> attachNumber[t] + 1, level |-> nestLevel[t] + 1]
    <2>2. x \in Frame /\ x.kind # "owned"
      BY <1>1 DEF TypeOK, Frame, FrameKinds
    <2>3. stack' = [stack EXCEPT ![t] = Append(stack[t], x)]
      BY <2>1 DEF ThreadGuardLevelPush
    <2> HIDE DEF x
    <2>4. SameOwner(t) /\ \A u \in Threads \ {t} : stack'[u] = stack[u]
      BY <1>1, <2>2, <2>3, PushOwns DEF SameOwner, TypeOK
    <2>5. LedgerInv(t)'
      BY <1>1, <1>2, <1>4, <2>1 DEF LedgerInv, TypeOK
    <2>6. OtherClaims(t)
      BY <1>1, <1>4, <1>5, <2>1, <2>4 DEF OtherClaims, TypeOK
    <2>7. ClaimEffect(t)
      BY <1>4, <1>5, <2>1, <2>4 DEF ClaimEffect, SameRecord, SameUncount, Uncounts
    <2> QED
      BY <2>5, <2>6, <2>7 DEF LedgerStep
  <1> QED
    BY <1>6, <1>7

(* The first guard of an attachment is made, and the attachment counted. *)
LEMMA CountLedger ==
    ASSUME IInv, Ledger, NEW t \in Threads, CountScoped(t) \/ CountPermanent(t)
    PROVE  LedgerStep(t)
  <1>1. TypeOK /\ ThreadInv(t) /\ LedgerInv(t) /\ refused \in [Threads -> Refusals]
    BY DEF IInv, Ledger
  <1>2. /\ stack[t] = <<>> /\ pc[t] \in {"count_scoped", "count_permanent"}
        /\ pc' = [pc EXCEPT ![t] = "run"] /\ attachedThreads' = attachedThreads + 1
        /\ UNCHANGED <<origin, refused>>
    BY <1>1 DEF CountScoped, CountPermanent, ThreadInv, Goto, jvm
  <1>3. pc'[t] = "run" /\ \A u \in Threads \ {t} : pc'[u] = pc[u]
    BY <1>1, <1>2 DEF TypeOK
  <1>4. ~Owns(t)
    BY <1>2 DEF Owns
  <1>5. ASSUME NEW k \in {"owned", "unowned"}, ThreadGuardLevelPush(t, attachNumber[t], k)
        PROVE  /\ Owns(t)' <=> k = "owned"
               /\ \A u \in Threads \ {t} : stack'[u] = stack[u]
    <2> DEFINE x == [kind |-> k, env |-> attachNumber[t], level |-> nestLevel[t] + 1]
    <2>1. x \in Frame /\ x.kind = k
      BY <1>1 DEF TypeOK, Frame, FrameKinds
    <2>2. stack' = [stack EXCEPT ![t] = Append(stack[t], x)]
      BY <1>5 DEF ThreadGuardLevelPush
    <2> HIDE DEF x
    <2> QED
      BY <1>1, <1>4, <2>1, <2>2, PushOwns DEF TypeOK
  <1>6. CASE CountScoped(t)
    <2>1. Owns(t)' /\ tlsAttachGuard' = tlsAttachGuard /\ \A u \in Threads \ {t} : stack'[u] = stack[u]
      BY <1>5, <1>6 DEF CountScoped
    <2>2. LedgerInv(t)'
      BY <1>3, <2>1 DEF LedgerInv
    <2>3. OtherClaims(t)
      BY <1>1, <1>2, <1>3, <2>1 DEF OtherClaims, TypeOK
    <2>4. ClaimEffect(t)
      BY <1>2, <1>3, <1>4, <2>1 DEF ClaimEffect, SameRecord, SameUncount, SameForgotten, Uncounts
    <2> QED
      BY <2>2, <2>3, <2>4 DEF LedgerStep
  <1>7. CASE CountPermanent(t)
    <2>1. /\ ~Owns(t)' /\ tlsAttachGuard' = [tlsAttachGuard EXCEPT ![t] = TRUE]
          /\ \A u \in Threads \ {t} : stack'[u] = stack[u]
      BY <1>5, <1>7 DEF CountPermanent
    <2>2. /\ tlsAttachGuard[t] = FALSE /\ tlsAttachGuard'[t] = TRUE
          /\ tlsAttachGuard' \in [Threads -> BOOLEAN]
          /\ \A u \in Threads \ {t} : tlsAttachGuard'[u] = tlsAttachGuard[u]
      BY <1>1, <1>7, <2>1 DEF LedgerInv, CountPermanent, TypeOK
    <2>3. LedgerInv(t)'
      BY <1>3, <2>2 DEF LedgerInv
    <2>4. OtherClaims(t)
      BY <1>1, <1>2, <1>3, <2>1, <2>2 DEF OtherClaims
    <2>5. ClaimEffect(t)
      BY <1>2, <1>3, <1>4, <2>1, <2>2
         DEF ClaimEffect, SameOwner, SameUncount, SameForgotten, Uncounts
    <2> QED
      BY <2>3, <2>4, <2>5 DEF LedgerStep
  <1> QED
    BY <1>6, <1>7

(* Without Java activations DetachCurrentThread is not refused. *)
LEMMA NotRefused ==
    ASSUME NEW t \in Threads, NEW frames, JvmDetach(t, frames), ~Refused(frames)
    PROVE  /\ origin' = [origin EXCEPT ![t] = "none"]
           /\ refused' = [refused EXCEPT ![t].detach = FALSE]
  <1>1. Refused(frames) = FALSE
    BY DEF Refused
  <1>2. /\ origin' = IF Refused(frames) THEN origin ELSE [origin EXCEPT ![t] = "none"]
        /\ refused' = [refused EXCEPT ![t].detach = Refused(frames)]
    BY Zenon DEF JvmDetach
  <1> QED
    BY <1>1, <1>2, Zenon

(* DetachCurrentThread leaves no attachment of the crate that it has not refused to undo. *)
LEMMA DetachedOrRefused ==
    ASSUME TypeOK, refused \in [Threads -> Refusals], NEW t \in Threads,
           NEW frames \in Seq(Frame), NEW next, next \in {"uncount", "uncount_exit"},
           SysDetachCurrentThread(t, frames, TRUE, next)
    PROVE  /\ refused' \in [Threads -> Refusals]
           /\ SameForgotten(t)
           /\ \A u \in Threads \ {t} : /\ refused'[u] = refused[u] /\ origin'[u] = origin[u]
                                       /\ pc'[u] = pc[u]
           /\ pc'[t] = next
           /\ origin'[t] = "crate" => refused'[t].detach = TRUE
           /\ frames = <<>> => origin'[t] = "none"
  <1>1. pc' = [pc EXCEPT ![t] = next]
    BY DEF SysDetachCurrentThread, Goto
  <1>2. CASE ~Attached(t)
    <2>1. UNCHANGED <<origin, refused>> /\ origin[t] = "none"
      BY <1>2 DEF SysDetachCurrentThread, jvm, Attached
    <2> QED
      BY <1>1, <2>1 DEF TypeOK, SameForgotten
  <1>3. CASE Attached(t) /\ ~Refused(frames)
    <2>1. /\ origin' = [origin EXCEPT ![t] = "none"]
          /\ refused' = [refused EXCEPT ![t].detach = FALSE]
      BY <1>3 DEF SysDetachCurrentThread, JvmDetach
    <2>2. refused' \in [Threads -> Refusals] /\ SameForgotten(t)
          /\ \A u \in Threads \ {t} : refused'[u] = refused[u]
      BY <2>1 DEF Refusals, SameForgotten
    <2> QED
      BY <1>1, <2>1, <2>2 DEF TypeOK
  <1>4. CASE Attached(t) /\ Refused(frames)
    <2>1. /\ origin' = origin
          /\ refused' = [refused EXCEPT ![t].detach = TRUE]
      BY <1>4 DEF SysDetachCurrentThread, JvmDetach
    <2>2. refused' \in [Threads -> Refusals] /\ SameForgotten(t) /\ refused'[t].detach = TRUE
          /\ \A u \in Threads \ {t} : refused'[u] = refused[u]
      BY <2>1 DEF Refusals, SameForgotten
    <2>3. frames # <<>>
      BY <1>4 DEF Refused
    <2> QED
      BY <1>1, <2>1, <2>2, <2>3 DEF TypeOK
  <1> QED
    BY <1>2, <1>3, <1>4

(* A guard is dropped: with it, an owning one gives up its claim. *)
LEMMA DetachGuardLedger ==
    ASSUME IInv, Ledger, NEW t \in Threads, DetachGuard(t)
    PROVE  LedgerStep(t)
  <1>1. /\ TypeOK /\ ThreadInv(t) /\ LedgerInv(t) /\ refused \in [Threads -> Refusals]
        /\ stack[t] \in Seq(Frame)
    BY DEF IInv, Ledger, TypeOK
  <1>2. stack[t] # <<>> /\ Top(t).kind # "java" /\ pc[t] = "run"
    BY DEF DetachGuard, Running
  <1>3. Top(t).level = nestLevel[t]
    BY <1>1, <1>2, PopFrame DEF ThreadInv, Top, TypeOK
  <1>4. /\ ThreadGuardLevelPop(t)
        /\ UNCHANGED <<tlsAttachGuard, attachedThreads>>
    BY <1>3 DEF DetachGuard
  <1>9. /\ Top(t).env = attachNumber[t]
        /\ Top(t).kind = "owned" => Below(t) = <<>> /\ nestLevel[t] = 1
    BY <1>1, <1>2, <1>4, PopStep
  <1>5. stack' = [stack EXCEPT ![t] = Below(t)]
    BY <1>4 DEF ThreadGuardLevelPop
  <1>6. /\ Owns(t) <=> (Owns(t)' \/ Top(t).kind = "owned")
        /\ \A u \in Threads \ {t} : stack'[u] = stack[u]
        /\ stack'[t] = Below(t)
    BY <1>1, <1>2, <1>5, PopOwns DEF TypeOK
  <1>7. CASE Top(t).kind = "owned"
    <2>1. SysDetachCurrentThread(t, Below(t), TRUE, "uncount")
      BY <1>1, <1>2, <1>3, <1>9, <1>7 DEF DetachGuard, SysDetachCurrentThread, ThreadInv
    <2>2. Below(t) = <<>> /\ Below(t) \in Seq(Frame)
      BY <1>7, <1>9, EmptySeq
    <2>3. /\ refused' \in [Threads -> Refusals]
          /\ SameForgotten(t)
          /\ \A u \in Threads \ {t} : /\ refused'[u] = refused[u] /\ origin'[u] = origin[u]
                                      /\ pc'[u] = pc[u]
          /\ pc'[t] = "uncount" /\ origin'[t] = "none"
      BY <1>1, <2>1, <2>2, DetachedOrRefused
    <2>4. ~Owns(t)'
      BY <1>6, <2>2 DEF Owns
    <2>5. LedgerInv(t)'
      BY <2>3 DEF LedgerInv
    <2>6. OtherClaims(t)
      BY <1>1, <1>4, <1>6, <2>3 DEF OtherClaims, TypeOK
    <2>7. ClaimEffect(t)
      BY <1>2, <1>4, <1>6, <1>7, <2>3, <2>4 DEF ClaimEffect, SameRecord, Uncounts
    <2> QED
      BY <2>5, <2>6, <2>7 DEF LedgerStep
  <1>8. CASE Top(t).kind # "owned"
    <2>1. UNCHANGED <<origin, refused, pc>>
      BY <1>3, <1>8 DEF DetachGuard, jvm
    <2>2. LedgerInv(t)'
      BY <1>1, <1>2, <1>4, <1>6, <1>8, <2>1, Zenon DEF LedgerInv
    <2>3. OtherClaims(t)
      BY <1>1, <1>4, <1>6, <2>1 DEF OtherClaims, TypeOK
    <2>4. ClaimEffect(t)
      BY <1>4, <1>6, <1>8, <2>1
         DEF ClaimEffect, SameRecord, SameOwner, SameUncount, SameForgotten, Uncounts
    <2> QED
      BY <2>2, <2>3, <2>4 DEF LedgerStep
  <1> QED
    BY <1>7, <1>8

(* A record is used up by detach_current_thread or at the end of the thread. *)
LEMMA DetachRecordLedger ==
    ASSUME IInv, Ledger, NEW t \in Threads, DetachCurrentThread(t) \/ ThreadExit(t)
    PROVE  LedgerStep(t)
  <1>1. /\ TypeOK /\ ThreadInv(t) /\ LedgerInv(t) /\ refused \in [Threads -> Refusals]
        /\ stack[t] \in Seq(Frame)
    BY DEF IInv, Ledger, TypeOK
  <1>2. pc[t] = "run" /\ nestLevel[t] = 0 /\ (ThreadExit(t) => stack[t] = <<>>)
    BY <1>1 DEF DetachCurrentThread, ThreadExit, Running, ThreadInv, LevelOf
  <1>3. ~Owns(t)
    <2>1. LevelOf(stack[t]) = 0 /\ Nested(stack[t], attachNumber[t]) /\ attachNumber[t] \in Nat
      BY <1>1, <1>2 DEF ThreadInv, TypeOK
    <2>2. \A i \in 1..Len(stack[t]) : stack[t][i].kind = "java"
      BY <1>1, <2>1, LevelZero
    <2> QED
      BY <2>2 DEF Owns
  <1>4. /\ tlsAttachGuard' = [tlsAttachGuard EXCEPT ![t] = FALSE]
        /\ UNCHANGED <<stack, attachedThreads>>
    BY DEF DetachCurrentThread, ThreadExit
  <1>5. /\ tlsAttachGuard'[t] = FALSE /\ tlsAttachGuard' \in [Threads -> BOOLEAN]
        /\ \A u \in Threads \ {t} : tlsAttachGuard'[u] = tlsAttachGuard[u]
        /\ SameOwner(t)
    BY <1>1, <1>4 DEF TypeOK, SameOwner, Owns
  <1>6. CASE tlsAttachGuard[t] = TRUE
    <2>1. PICK next \in {"uncount", "uncount_exit"} :
             /\ SysDetachCurrentThread(t, stack[t], TRUE, next)
             /\ next = "uncount_exit" => stack[t] = <<>>
      BY <1>2, <1>6 DEF DetachCurrentThread, ThreadExit
    <2>2. /\ refused' \in [Threads -> Refusals]
          /\ SameForgotten(t)
          /\ \A u \in Threads \ {t} : /\ refused'[u] = refused[u] /\ origin'[u] = origin[u]
                                      /\ pc'[u] = pc[u]
          /\ pc'[t] = next
          /\ origin'[t] = "crate" => refused'[t].detach = TRUE
      BY <1>1, <2>1, DetachedOrRefused
    <2>3. LedgerInv(t)'
      BY <1>4, <1>5, <2>1, <2>2 DEF LedgerInv
    <2>4. OtherClaims(t)
      BY <1>4, <1>5, <2>2 DEF OtherClaims
    <2>5. ClaimEffect(t)
      BY <1>2, <1>4, <1>5, <1>6, <2>1, <2>2 DEF ClaimEffect, RecordLost, Uncounts
    <2> QED
      BY <2>3, <2>4, <2>5 DEF LedgerStep
  <1>7. CASE tlsAttachGuard[t] = FALSE
    <2>1. ThreadExit(t)
      BY <1>7 DEF DetachCurrentThread
    <2>2. /\ pc' = [pc EXCEPT ![t] = "dead"] /\ UNCHANGED <<origin, refused>>
          /\ stack[t] = <<>>
      BY <1>7, <2>1 DEF ThreadExit, Goto, jvm
    <2>3. pc'[t] = "dead" /\ \A u \in Threads \ {t} : pc'[u] = pc[u]
      BY <1>1, <2>2 DEF TypeOK
    <2>4. LedgerInv(t)'
      BY <1>1, <1>2, <1>3, <1>4, <1>5, <1>7, <2>2, <2>3 DEF LedgerInv
    <2>5. OtherClaims(t)
      BY <1>1, <1>4, <1>5, <2>2, <2>3 DEF OtherClaims
    <2>6. ClaimEffect(t)
      BY <1>2, <1>4, <1>5, <1>7, <2>2, <2>3
         DEF ClaimEffect, SameRecord, SameUncount, SameForgotten, Uncounts
    <2> QED
      BY <2>4, <2>5, <2>6 DEF LedgerStep
  <1> QED
    BY <1>1, <1>6, <1>7 DEF TypeOK

(* The JVM ends a thread of its own: the attachment it undoes is not the crate's. *)
LEMMA JavaThreadExitLedger ==
    ASSUME IInv, Ledger, NEW t \in Threads, JavaThreadExit(t)
    PROVE  LedgerStep(t)
  <1>1. /\ TypeOK /\ LedgerInv(t) /\ refused \in [Threads -> Refusals]
        /\ stack[t] \in Seq(Frame) /\ pc[t] = "run"
    BY DEF IInv, Ledger, TypeOK, JavaThreadExit, Running
  <1>2. /\ stack' = [stack EXCEPT ![t] = <<>>]
        /\ origin' = [origin EXCEPT ![t] = "none"]
        /\ tlsAttachGuard' = [tlsAttachGuard EXCEPT ![t] = FALSE]
        /\ UNCHANGED <<refused, attachedThreads>>
    BY DEF JavaThreadExit
  <1>3. /\ stack'[t] = <<>> /\ origin'[t] = "none" /\ tlsAttachGuard'[t] = FALSE
        /\ tlsAttachGuard' \in [Threads -> BOOLEAN]
        /\ \A u \in Threads \ {t} : /\ stack'[u] = stack[u] /\ origin'[u] = origin[u]
                                    /\ tlsAttachGuard'[u] = tlsAttachGuard[u]
    BY <1>1, <1>2 DEF TypeOK
  <1>4. ~Owns(t) /\ ~Owns(t)'
    <2>1. Len(stack[t]) = 1 /\ stack[t][1].kind = "java"
      BY DEF JavaThreadExit, Top
    <2>2. ~Owns(t)
      BY <2>1 DEF Owns
    <2> QED
      BY <1>3, <2>2 DEF Owns
  <1>5. CASE tlsAttachGuard[t] = TRUE
    <2>1. pc' = [pc EXCEPT ![t] = "uncount_exit"]
      BY <1>5 DEF JavaThreadExit, Goto
    <2>2. pc'[t] = "uncount_exit" /\ \A u \in Threads \ {t} : pc'[u] = pc[u]
      BY <1>1, <2>1 DEF TypeOK
    <2>3. LedgerInv(t)'
      BY <1>3, <2>2 DEF LedgerInv
    <2>4. OtherClaims(t)
      BY <1>1, <1>2, <1>3, <2>2 DEF OtherClaims
    <2>5. ClaimEffect(t)
      BY <1>1, <1>2, <1>3, <1>4, <1>5, <2>2
         DEF ClaimEffect, RecordLost, SameOwner, SameForgotten, Uncounts
    <2> QED
      BY <2>3, <2>4, <2>5 DEF LedgerStep
  <1>6. CASE tlsAttachGuard[t] = FALSE
    <2>1. pc' = [pc EXCEPT ![t] = "dead"]
      BY <1>6 DEF JavaThreadExit, Goto
    <2>2. pc'[t] = "dead" /\ \A u \in Threads \ {t} : pc'[u] = pc[u]
      BY <1>1, <2>1 DEF TypeOK
    <2>3. LedgerInv(t)'
      BY <1>3, <2>2 DEF LedgerInv
    <2>4. OtherClaims(t)
      BY <1>1, <1>2, <1>3, <2>2 DEF OtherClaims
    <2>5. ClaimEffect(t)
      BY <1>1, <1>2, <1>3, <1>4, <1>6, <2>2
         DEF ClaimEffect, SameRecord, SameOwner, SameUncount, SameForgotten, Uncounts
    <2> QED
      BY <2>3, <2>4, <2>5 DEF LedgerStep
  <1> QED
    BY <1>1, <1>5, <1>6 DEF TypeOK

(* A refused attachment, the last step of a detachment, a foreign detachment *)
LEMMA OtherLedger ==
    ASSUME IInv, Ledger, NEW t \in Threads,
           AttachPermanentFails(t) \/ Uncount(t) \/ ForeignDetach(t)
    PROVE  LedgerStep(t)
  <1>1. TypeOK /\ ThreadInv(t) /\ LedgerInv(t) /\ refused \in [Threads -> Refusals]
    BY DEF IInv, Ledger
  <1>2. CASE AttachPermanentFails(t)
    <2>1. /\ origin[t] = "none" /\ pc[t] = "run"
          /\ tlsAttachGuard' = [tlsAttachGuard EXCEPT ![t] = FALSE]
          /\ UNCHANGED <<origin, stack, attachedThreads, pc>>
      BY <1>2 DEF AttachPermanentFails, NeedsAttach, Attached, Running
    <2>2. /\ tlsAttachGuard'[t] = FALSE /\ tlsAttachGuard' \in [Threads -> BOOLEAN]
          /\ \A u \in Threads \ {t} : tlsAttachGuard'[u] = tlsAttachGuard[u]
      BY <1>1, <2>1 DEF TypeOK
    <2>3. LedgerInv(t)'
      BY <2>1, <2>2 DEF LedgerInv
    <2> DEFINE n == IF tlsAttachGuard[t] = TRUE THEN refused[t].forgotten + 1
                                                ELSE refused[t].forgotten
    <2>4. /\ n \in Nat /\ refused' = [refused EXCEPT ![t].forgotten = n]
          /\ tlsAttachGuard[t] = TRUE => n = refused[t].forgotten + 1
          /\ tlsAttachGuard[t] = FALSE => n = refused[t].forgotten
      <3>1. refused[t].forgotten \in Nat
        BY <1>1 DEF Refusals
      <3>2. n \in Nat
        BY <3>1
      <3>3. CASE tlsAttachGuard[t] = TRUE
        BY <1>2, <3>2, <3>3 DEF AttachPermanentFails
      <3>4. CASE tlsAttachGuard[t] = FALSE
        BY <1>2, <3>2, <3>4 DEF AttachPermanentFails
      <3> QED
        BY <1>1, <3>3, <3>4 DEF TypeOK
    <2> HIDE DEF n
    <2>5. /\ refused' \in [Threads -> Refusals] /\ refused'[t].forgotten = n
          /\ \A u \in Threads \ {t} : refused'[u] = refused[u]
      BY <1>1, <2>4 DEF Refusals
    <2>6. OtherClaims(t)
      BY <2>1, <2>2, <2>5 DEF OtherClaims
    <2>7. SameOwner(t) /\ SameUncount(t)
      BY <2>1 DEF SameOwner, SameUncount, Owns, Uncounts
    <2>8. ClaimEffect(t)
      <3>1. CASE tlsAttachGuard[t] = TRUE
        BY <2>1, <2>2, <2>4, <2>5, <2>7, <3>1 DEF ClaimEffect, RecordLost
      <3>2. CASE tlsAttachGuard[t] = FALSE
        BY <2>1, <2>2, <2>4, <2>5, <2>7, <3>2 DEF ClaimEffect, SameRecord, SameForgotten
      <3> QED
        BY <1>1, <3>1, <3>2 DEF TypeOK
    <2> QED
      BY <2>3, <2>6, <2>8 DEF LedgerStep
  <1>3. CASE Uncount(t)
    <2>1. /\ pc[t] \in {"uncount", "uncount_exit"} /\ attachedThreads' = attachedThreads - 1
          /\ UNCHANGED <<origin, refused, stack, tlsAttachGuard>>
      BY <1>3 DEF Uncount, jvm
    <2>2. /\ pc'[t] = IF pc[t] = "uncount" THEN "run" ELSE "dead"
          /\ \A u \in Threads \ {t} : pc'[u] = pc[u]
      BY <1>1, <1>3 DEF Uncount, Goto, TypeOK
    <2>3. LedgerInv(t)'
      <3>1. tlsAttachGuard'[t] = tlsAttachGuard[t] /\ stack'[t] = stack[t]
            /\ origin'[t] = origin[t] /\ refused'[t] = refused[t] /\ (Owns(t)' <=> Owns(t))
        BY <2>1 DEF Owns
      <3>2. CASE pc[t] = "uncount"
        BY <1>1, <2>2, <3>1, <3>2 DEF LedgerInv
      <3>3. CASE pc[t] = "uncount_exit"
        BY <1>1, <2>2, <3>1, <3>3 DEF LedgerInv
      <3> QED
        BY <2>1, <3>2, <3>3
    <2>4. OtherClaims(t)
      BY <1>1, <2>1, <2>2 DEF OtherClaims, TypeOK
    <2>5. ClaimEffect(t)
      BY <2>1, <2>2 DEF ClaimEffect, SameRecord, SameOwner, SameForgotten, Owns, Uncounts
    <2> QED
      BY <2>3, <2>4, <2>5 DEF LedgerStep
  <1>4. CASE ForeignDetach(t)
    <2>1. /\ stack[t] = <<>> /\ pc[t] = "run" /\ ~Refused(stack[t])
          /\ UNCHANGED <<stack, tlsAttachGuard, attachedThreads, pc>>
      BY <1>4 DEF ForeignDetach, Running, Refused
    <2>2. /\ origin' = [origin EXCEPT ![t] = "none"]
          /\ refused' = [refused EXCEPT ![t].detach = FALSE]
      BY <1>4, <2>1, NotRefused DEF ForeignDetach
    <2>3. /\ origin'[t] = "none" /\ \A u \in Threads \ {t} : origin'[u] = origin[u]
          /\ refused' \in [Threads -> Refusals] /\ SameForgotten(t)
          /\ \A u \in Threads \ {t} : refused'[u] = refused[u]
      BY <1>1, <2>2 DEF TypeOK, Refusals, SameForgotten
    <2>4. LedgerInv(t)'
      BY <2>1, <2>3 DEF LedgerInv
    <2>5. OtherClaims(t)
      BY <1>1, <2>1, <2>3 DEF OtherClaims, TypeOK
    <2>6. ClaimEffect(t)
      BY <2>1, <2>3 DEF ClaimEffect, SameRecord, SameOwner, SameUncount, Owns, Uncounts
    <2> QED
      BY <2>4, <2>5, <2>6 DEF LedgerStep
  <1> QED
    BY <1>2, <1>3, <1>4

(* Every step is one that the claims know, or changes nothing. *)
LEMMA LedgerSteps ==
    ASSUME IInv, Ledger, [Next]_vars
    PROVE  UNCHANGED vars \/ \E t \in Threads : LedgerStep(t)
  BY FrameLedger, AttachLedger, CountLedger, DetachGuardLedger, DetachRecordLedger,
     JavaThreadExitLedger, OtherLedger DEF Next, Terminated

(* The claims of every thread stay in order. *)
LEMMA LedgerInductive == IInv /\ Ledger /\ [Next]_vars => Ledger'
  <1> SUFFICES ASSUME IInv, Ledger, [Next]_vars
               PROVE  Ledger'
    OBVIOUS
  <1>1. CASE UNCHANGED vars
    BY <1>1 DEF vars, Ledger, LedgerInv, Owns
  <1>2. ASSUME NEW t \in Threads, LedgerStep(t) PROVE Ledger'
    <2>1. ASSUME NEW u \in Threads, u # t PROVE LedgerInv(u)'
      <3>1. /\ origin'[u] = origin[u] /\ stack'[u] = stack[u] /\ pc'[u] = pc[u]
            /\ tlsAttachGuard'[u] = tlsAttachGuard[u] /\ refused'[u] = refused[u]
        BY <1>2, <2>1 DEF LedgerStep, OtherClaims
      <3>2. LedgerInv(u) /\ (Owns(u)' <=> Owns(u))
        BY <3>1 DEF Ledger, Owns
      <3> QED
        BY <3>1, <3>2, Zenon DEF LedgerInv
    <2> QED
      BY <1>2, <2>1 DEF Ledger, LedgerStep, OtherClaims
  <1> QED
    BY <1>1, <1>2, LedgerSteps

-------------------------------------------------------------------------------
(* The counter *)

Recording == {t \in Threads : tlsAttachGuard[t] = TRUE}
Owning == {t \in Threads : Owns(t)}
Uncounting == {t \in Threads : Uncounts(t)}
Forgotten == UNION {{<<t, n>> : n \in 1..refused[t].forgotten} : t \in Threads}

(* Claims as a function of the four sets *)
Tagged(R, G, U, F) ==
    {<<t, "record">> : t \in R} \union {<<t, "guard">> : t \in G}
    \union {<<t, "uncount">> : t \in U} \union {<<f[1], "forgotten", f[2]>> : f \in F}

Claiming(R, G, U, F, n) ==
    IsFiniteSet(Tagged(R, G, U, F)) /\ n = Cardinality(Tagged(R, G, U, F))

(* Claims is that function of the four sets. *)
LEMMA ClaimsTagged ==
    ASSUME TypeOK
    PROVE  Claims = Tagged(Recording, Owning, Uncounting, Forgotten)
  <1> DEFINE tagged == {<<f[1], "forgotten", f[2]>> : f \in Forgotten}
  <1> DEFINE claimed == UNION {{<<t, "forgotten", n>> : n \in 1..refused[t].forgotten} : t \in Threads}
  <1>1. ASSUME NEW c \in tagged PROVE c \in claimed
    <2>1. PICK t \in Threads, n \in Int : n \in 1..refused[t].forgotten /\ c = <<t, "forgotten", n>>
      BY <1>1 DEF Forgotten
    <2> QED
      BY <2>1
  <1>2. ASSUME NEW c \in claimed PROVE c \in tagged
    <2>1. PICK t \in Threads, n \in Int : n \in 1..refused[t].forgotten /\ c = <<t, "forgotten", n>>
      BY <1>2
    <2>2. <<t, n>> \in Forgotten
      BY <2>1 DEF Forgotten
    <2> QED
      BY <2>1, <2>2
  <1>3. {t \in Threads : tlsAttachGuard[t]} = Recording
    BY DEF Recording, TypeOK
  <1>4. tagged = claimed
    BY <1>1, <1>2
  <1> HIDE DEF tagged, claimed
  <1>5. Claims = {<<t, "record">> : t \in {u \in Threads : tlsAttachGuard[u]}}
                 \union {<<t, "guard">> : t \in Owning}
                 \union {<<t, "uncount">> : t \in Uncounting} \union claimed
    BY DEF Claims, Owning, Uncounting, Uncounts, claimed
  <1> QED
    BY <1>3, <1>4, <1>5 DEF Tagged, tagged

(* One element more in a finite set *)
LEMMA OneMore ==
    ASSUME NEW S, NEW T, NEW x, T = S \union {x}, x \notin S
    PROVE  /\ IsFiniteSet(S) <=> IsFiniteSet(T)
           /\ IsFiniteSet(S) => Cardinality(S) \in Nat /\ Cardinality(T) = Cardinality(S) + 1
  <1>1. IsFiniteSet(S) => /\ IsFiniteSet(T) /\ Cardinality(T) = Cardinality(S) + 1
                          /\ Cardinality(S) \in Nat
    BY FS_AddElement, FS_CardinalityType
  <1>2. IsFiniteSet(T) => IsFiniteSet(S)
    BY FS_Subset
  <1> QED
    BY <1>1, <1>2

(* Claims with one element more, whatever its tag *)
LEMMA ClaimsOneMore ==
    ASSUME NEW R, NEW G, NEW U, NEW F, NEW R2, NEW G2, NEW U2, NEW F2, NEW x, NEW n,
           Tagged(R2, G2, U2, F2) = Tagged(R, G, U, F) \union {x}, x \notin Tagged(R, G, U, F)
    PROVE  /\ Claiming(R, G, U, F, n) => n \in Nat /\ Claiming(R2, G2, U2, F2, n + 1)
           /\ Claiming(R2, G2, U2, F2, n) => n - 1 \in Nat /\ Claiming(R, G, U, F, n - 1)
  <1>1. /\ IsFiniteSet(Tagged(R, G, U, F)) <=> IsFiniteSet(Tagged(R2, G2, U2, F2))
        /\ IsFiniteSet(Tagged(R, G, U, F)) =>
              /\ Cardinality(Tagged(R, G, U, F)) \in Nat
              /\ Cardinality(Tagged(R2, G2, U2, F2)) = Cardinality(Tagged(R, G, U, F)) + 1
    BY OneMore
  <1> QED
    BY <1>1 DEF Claiming

(* A record more or less, an owner, an unfinished detachment, a forgotten record *)
LEMMA CountsRecord ==
    ASSUME NEW R, NEW G, NEW U, NEW F, NEW t, t \notin R, NEW n
    PROVE  /\ Claiming(R, G, U, F, n) => n \in Nat /\ Claiming(R \union {t}, G, U, F, n + 1)
           /\ Claiming(R \union {t}, G, U, F, n) => n - 1 \in Nat /\ Claiming(R, G, U, F, n - 1)
  <1>1. /\ Tagged(R \union {t}, G, U, F) = Tagged(R, G, U, F) \union {<<t, "record">>}
        /\ <<t, "record">> \notin Tagged(R, G, U, F)
    BY DEF Tagged
  <1> QED
    BY <1>1, ClaimsOneMore

LEMMA CountsOwner ==
    ASSUME NEW R, NEW G, NEW U, NEW F, NEW t, t \notin G, NEW n
    PROVE  /\ Claiming(R, G, U, F, n) => n \in Nat /\ Claiming(R, G \union {t}, U, F, n + 1)
           /\ Claiming(R, G \union {t}, U, F, n) => n - 1 \in Nat /\ Claiming(R, G, U, F, n - 1)
  <1>1. /\ Tagged(R, G \union {t}, U, F) = Tagged(R, G, U, F) \union {<<t, "guard">>}
        /\ <<t, "guard">> \notin Tagged(R, G, U, F)
    BY DEF Tagged
  <1> QED
    BY <1>1, ClaimsOneMore

LEMMA CountsUncount ==
    ASSUME NEW R, NEW G, NEW U, NEW F, NEW t, t \notin U, NEW n
    PROVE  /\ Claiming(R, G, U, F, n) => n \in Nat /\ Claiming(R, G, U \union {t}, F, n + 1)
           /\ Claiming(R, G, U \union {t}, F, n) => n - 1 \in Nat /\ Claiming(R, G, U, F, n - 1)
  <1>1. /\ Tagged(R, G, U \union {t}, F) = Tagged(R, G, U, F) \union {<<t, "uncount">>}
        /\ <<t, "uncount">> \notin Tagged(R, G, U, F)
    BY DEF Tagged
  <1> QED
    BY <1>1, ClaimsOneMore

LEMMA CountsForgotten ==
    ASSUME NEW R, NEW G, NEW U, NEW F, NEW t, NEW k, <<t, k>> \notin F,
           \A f \in F : f = <<f[1], f[2]>>, NEW n
    PROVE  Claiming(R, G, U, F, n) => n \in Nat /\ Claiming(R, G, U, F \union {<<t, k>>}, n + 1)
  <1>1. Tagged(R, G, U, F \union {<<t, k>>}) = Tagged(R, G, U, F) \union {<<t, "forgotten", k>>}
    BY DEF Tagged
  <1>2. <<t, "forgotten", k>> \notin Tagged(R, G, U, F)
    <2>1. \A f \in F : <<f[1], "forgotten", f[2]>> # <<t, "forgotten", k>>
      OBVIOUS
    <2>2. \A u : <<u, "record">> # <<t, "forgotten", k>> /\ <<u, "guard">> # <<t, "forgotten", k>>
                 /\ <<u, "uncount">> # <<t, "forgotten", k>>
      <3>1. Len(<<t, "forgotten", k>>) = 3
        OBVIOUS
      <3>2. \A u : Len(<<u, "record">>) = 2 /\ Len(<<u, "guard">>) = 2 /\ Len(<<u, "uncount">>) = 2
        OBVIOUS
      <3> QED
        BY <3>1, <3>2
    <2> QED
      BY <2>1, <2>2 DEF Tagged
  <1> QED
    BY <1>1, <1>2, ClaimsOneMore

Counted == Claiming(Recording, Owning, Uncounting, Forgotten, attachedThreads)

(* What the claims of one thread do to the four sets *)
LEMMA ClaimSets ==
    ASSUME Ledger, NEW t \in Threads, OtherClaims(t)
    PROVE  /\ SameRecord(t) => Recording' = Recording
           /\ SameOwner(t) => Owning' = Owning
           /\ SameUncount(t) => Uncounting' = Uncounting
           /\ SameForgotten(t) => Forgotten' = Forgotten
           /\ \A u \in Threads \ {t} : /\ u \in Recording' <=> u \in Recording
                                       /\ u \in Owning' <=> u \in Owning
                                       /\ u \in Uncounting' <=> u \in Uncounting
  <1>1. \A u \in Threads \ {t} :
           /\ tlsAttachGuard'[u] = tlsAttachGuard[u]
           /\ Owns(u)' <=> Owns(u)
           /\ Uncounts(u)' <=> Uncounts(u)
           /\ refused'[u].forgotten = refused[u].forgotten
    BY DEF OtherClaims, Owns, Uncounts
  <1>2. SameRecord(t) => Recording' = Recording
    BY <1>1 DEF SameRecord, Recording
  <1>3. SameOwner(t) => Owning' = Owning
    BY <1>1 DEF SameOwner, Owning
  <1>4. SameUncount(t) => Uncounting' = Uncounting
    BY <1>1 DEF SameUncount, Uncounting
  <1>5. SameForgotten(t) => Forgotten' = Forgotten
    <2> SUFFICES ASSUME SameForgotten(t)
                 PROVE  Forgotten' = Forgotten
      OBVIOUS
    <2>1. \A u \in Threads : refused'[u].forgotten = refused[u].forgotten
      BY <1>1 DEF SameForgotten
    <2> QED
      BY <2>1 DEF Forgotten
  <1> QED
    BY <1>1, <1>2, <1>3, <1>4, <1>5 DEF Recording, Owning, Uncounting

(* ATTACHED_THREADS follows the claims. *)
LEMMA CountedStep ==
    ASSUME Ledger, Counted, NEW t \in Threads, LedgerStep(t)
    PROVE  Counted'
  <1> DEFINE n == attachedThreads
  <1>0. /\ OtherClaims(t) /\ ClaimEffect(t) /\ Claiming(Recording, Owning, Uncounting, Forgotten, n)
        /\ refused[t].forgotten \in Nat /\ n \in Nat
    BY FS_CardinalityType DEF LedgerStep, Counted, Claiming, Ledger, Refusals
  <1>1. Counted' <=> Claiming(Recording', Owning', Uncounting', Forgotten', n')
    BY DEF Counted, Claiming, Tagged
  <1> HIDE DEF n
  <1>2. /\ SameRecord(t) => Recording' = Recording
        /\ SameOwner(t) => Owning' = Owning
        /\ SameUncount(t) => Uncounting' = Uncounting
        /\ SameForgotten(t) => Forgotten' = Forgotten
        /\ \A u \in Threads \ {t} : /\ u \in Recording' <=> u \in Recording
                                    /\ u \in Owning' <=> u \in Owning
                                    /\ u \in Uncounting' <=> u \in Uncounting
    BY <1>0, ClaimSets
  <1>3. /\ Recording \subseteq Threads /\ Recording' \subseteq Threads
        /\ Owning \subseteq Threads /\ Owning' \subseteq Threads
        /\ Uncounting \subseteq Threads /\ Uncounting' \subseteq Threads
    BY DEF Recording, Owning, Uncounting
  <1>4. RecordLost(t) => Recording = Recording' \union {t} /\ t \notin Recording'
    <2>1. RecordLost(t) => t \in Recording /\ t \notin Recording'
      BY DEF RecordLost, Recording
    <2> QED
      BY <1>2, <1>3, <2>1
  <1>5. ~Uncounts(t) /\ Uncounts(t)' => Uncounting' = Uncounting \union {t} /\ t \notin Uncounting
    <2>1. ~Uncounts(t) /\ Uncounts(t)' => t \notin Uncounting /\ t \in Uncounting'
      BY DEF Uncounting
    <2> QED
      BY <1>2, <1>3, <2>1
  <1>6. CASE /\ SameRecord(t) /\ SameOwner(t) /\ SameUncount(t) /\ SameForgotten(t)
             /\ n' = n
    BY <1>0, <1>1, <1>2, <1>6
  <1>7. CASE /\ ~Owns(t) /\ Owns(t)' /\ SameRecord(t) /\ SameUncount(t) /\ SameForgotten(t)
             /\ n' = n + 1
    <2>1. t \notin Owning /\ t \in Owning'
      BY <1>7 DEF Owning
    <2>2. Owning' = Owning \union {t}
      BY <1>2, <1>3, <2>1
    <2> QED
      BY <1>0, <1>1, <1>2, <1>7, <2>1, <2>2, CountsOwner
  <1>8. CASE /\ tlsAttachGuard[t] = FALSE /\ tlsAttachGuard'[t] = TRUE
             /\ SameOwner(t) /\ SameUncount(t) /\ SameForgotten(t)
             /\ n' = n + 1
    <2>1. t \notin Recording /\ t \in Recording'
      BY <1>8 DEF Recording
    <2>2. Recording' = Recording \union {t}
      BY <1>2, <1>3, <2>1
    <2> QED
      BY <1>0, <1>1, <1>2, <1>8, <2>1, <2>2, CountsRecord
  <1>9. CASE /\ RecordLost(t) /\ refused'[t].forgotten = refused[t].forgotten + 1
             /\ SameOwner(t) /\ SameUncount(t)
             /\ n' = n
    <2> DEFINE k == refused[t].forgotten + 1
    <2>1. n - 1 \in Nat /\ Claiming(Recording', Owning, Uncounting, Forgotten, n - 1)
      BY <1>0, <1>4, <1>9, CountsRecord
    <2>2. /\ <<t, k>> \notin Forgotten
          /\ \A f \in Forgotten : f = <<f[1], f[2]>>
      BY <1>0 DEF Forgotten
    <2>3. Forgotten' = Forgotten \union {<<t, k>>}
      <3>1. \A u \in Threads \ {t} : refused'[u].forgotten = refused[u].forgotten
        BY <1>0 DEF OtherClaims
      <3>2. 1..refused'[t].forgotten = (1..refused[t].forgotten) \union {k}
        BY <1>0, <1>9
      <3> HIDE DEF k
      <3>3. ASSUME NEW f \in Forgotten' PROVE f \in Forgotten \union {<<t, k>>}
        <4>1. PICK u \in Threads, m \in Int : m \in 1..refused'[u].forgotten /\ f = <<u, m>>
          BY <3>3 DEF Forgotten
        <4>2. m \in 1..refused[u].forgotten \/ (u = t /\ m = k)
          BY <3>1, <3>2, <4>1
        <4> QED
          BY <4>1, <4>2 DEF Forgotten
      <3>4. ASSUME NEW f \in Forgotten \union {<<t, k>>} PROVE f \in Forgotten'
        <4>1. CASE f = <<t, k>>
          BY <3>2, <4>1 DEF Forgotten
        <4>2. CASE f \in Forgotten
          <5>1. PICK u \in Threads, m \in Int : m \in 1..refused[u].forgotten /\ f = <<u, m>>
            BY <4>2 DEF Forgotten
          <5>2. m \in 1..refused'[u].forgotten
            BY <3>1, <3>2, <5>1
          <5> QED
            BY <5>1, <5>2 DEF Forgotten
        <4> QED
          BY <3>4, <4>1, <4>2
      <3> QED
        BY <3>3, <3>4
    <2> HIDE DEF k
    <2>4. Claiming(Recording', Owning, Uncounting, Forgotten', n - 1 + 1)
      BY <2>1, <2>2, <2>3, CountsForgotten
    <2>5. n - 1 + 1 = n'
      BY <1>0, <1>9
    <2> QED
      BY <1>1, <1>2, <1>9, <2>4, <2>5
  <1>10. CASE /\ Owns(t) /\ ~Owns(t)' /\ ~Uncounts(t) /\ Uncounts(t)'
              /\ SameRecord(t) /\ SameForgotten(t)
              /\ n' = n
    <2>1. t \in Owning /\ t \notin Owning'
      BY <1>10 DEF Owning
    <2>2. Owning = Owning' \union {t}
      BY <1>2, <1>3, <2>1
    <2>3. n - 1 \in Nat /\ Claiming(Recording, Owning', Uncounting, Forgotten, n - 1)
      BY <1>0, <2>1, <2>2, CountsOwner
    <2>4. Claiming(Recording, Owning', Uncounting', Forgotten, n - 1 + 1)
      BY <1>5, <1>10, <2>3, CountsUncount
    <2>5. n - 1 + 1 = n'
      BY <1>0, <1>10
    <2> QED
      BY <1>1, <1>2, <1>10, <2>4, <2>5
  <1>11. CASE /\ RecordLost(t) /\ ~Uncounts(t) /\ Uncounts(t)'
              /\ SameOwner(t) /\ SameForgotten(t)
              /\ n' = n
    <2>1. n - 1 \in Nat /\ Claiming(Recording', Owning, Uncounting, Forgotten, n - 1)
      BY <1>0, <1>4, <1>11, CountsRecord
    <2>2. Uncounting' = Uncounting \union {t} /\ t \notin Uncounting
      BY <1>5, <1>11
    <2>3. Claiming(Recording', Owning, Uncounting', Forgotten, n - 1 + 1)
      BY <2>1, <2>2, CountsUncount
    <2>4. n - 1 + 1 = n'
      BY <1>0, <1>11
    <2> QED
      BY <1>1, <1>2, <1>11, <2>3, <2>4
  <1>12. CASE /\ Uncounts(t) /\ ~Uncounts(t)' /\ SameRecord(t) /\ SameOwner(t) /\ SameForgotten(t)
              /\ n' = n - 1
    <2>1. t \in Uncounting /\ t \notin Uncounting'
      BY <1>12 DEF Uncounting
    <2>2. Uncounting = Uncounting' \union {t}
      BY <1>2, <1>3, <2>1
    <2> QED
      BY <1>0, <1>1, <1>2, <1>12, <2>1, <2>2, CountsUncount
  <1> QED
    BY <1>0, <1>6, <1>7, <1>8, <1>9, <1>10, <1>11, <1>12 DEF ClaimEffect, n

-------------------------------------------------------------------------------
(* The two theorems about attachments *)

(* At first there are no claims and the counter is 0. *)
LEMMA InitLedger == Init => Ledger /\ Counted
  <1> SUFFICES ASSUME Init
               PROVE  Ledger /\ Counted
    OBVIOUS
  <1>1. \A t \in Threads : /\ tlsAttachGuard[t] = FALSE /\ pc[t] = "run" /\ origin[t] # "crate"
                           /\ refused[t] = [forgotten |-> 0, detach |-> FALSE]
    BY DEF Init
  <1>2. Ledger
    BY <1>1 DEF Ledger, LedgerInv, Refusals, Init
  <1>3. ASSUME NEW t \in Threads PROVE ~Owns(t)
    <2>1. CASE t \in JavaThreads
      <3>1. stack[t] = <<JavaFrame(1)>> /\ JavaFrame(1).kind = "java"
        BY <2>1 DEF Init, JavaFrame
      <3> QED
        BY <3>1 DEF Owns
    <2>2. CASE t \notin JavaThreads
      BY <2>2 DEF Init, Owns
    <2> QED
      BY <2>1, <2>2
  <1>4. Recording = {} /\ Owning = {} /\ Uncounting = {} /\ Forgotten = {}
    <2>1. \A t \in Threads : 1..refused[t].forgotten = {}
      BY <1>1
    <2> QED
      BY <1>1, <1>3, <2>1 DEF Recording, Owning, Uncounting, Uncounts, Forgotten
  <1>5. Tagged({}, {}, {}, {}) = {}
    BY DEF Tagged
  <1>6. Counted
    BY <1>4, <1>5, FS_EmptySet DEF Counted, Claiming, Init
  <1> QED
    BY <1>2, <1>6

(* The claims are in order, and counted, in every reachable state. *)
LEMMA AlwaysLedger == Spec => [](IInv /\ Ledger /\ Counted)
  <1>1. IInv /\ Ledger /\ Counted /\ [Next]_vars => (IInv /\ Ledger /\ Counted)'
    <2> SUFFICES ASSUME IInv, Ledger, Counted, [Next]_vars
                 PROVE  IInv' /\ Ledger' /\ Counted'
      OBVIOUS
    <2>1. IInv' /\ Ledger'
      BY StepIInv, LedgerInductive
    <2>2. CASE UNCHANGED vars
      <3>1. /\ Recording' = Recording /\ Owning' = Owning /\ Uncounting' = Uncounting
            /\ Forgotten' = Forgotten /\ attachedThreads' = attachedThreads
        BY <2>2 DEF vars, Recording, Owning, Uncounting, Forgotten, Owns, Uncounts
      <3>2. Counted' <=> Claiming(Recording', Owning', Uncounting', Forgotten', attachedThreads')
        BY DEF Counted, Claiming, Tagged
      <3> QED
        BY <2>1, <3>1, <3>2 DEF Counted
    <2> QED
      BY <2>1, <2>2, LedgerSteps, CountedStep
  <1> QED
    BY <1>1, InitIInv, InitLedger, PTL DEF Spec

(***************************************************************************)
(* ATTACHED_THREADS is the number of records, owning guards and unfinished *)
(* detachments, and one more for each record that a refused attachment     *)
(* made the crate forget: it is never too low, so that it cannot wrap.     *)
(***************************************************************************)
THEOREM CounterIsExact == Spec => []AttachmentsCounted
  <1>1. IInv /\ Counted => AttachmentsCounted
    BY ClaimsTagged DEF IInv, Counted, Claiming, AttachmentsCounted
  <1> QED
    BY <1>1, AlwaysLedger, PTL

(***************************************************************************)
(* However attachments, foreign code and Java calls interleave, a thread   *)
(* ends without an attachment of the crate, unless the JVM has refused to  *)
(* undo it.                                                                *)
(***************************************************************************)
THEOREM AttachmentsEnd == Spec => []NoAttachmentOutlivesThread
  <1>1. ASSUME Ledger PROVE NoAttachmentOutlivesThread
    <2> SUFFICES ASSUME NEW t \in Threads, pc[t] = "dead"
                 PROVE  origin[t] # "crate" \/ refused[t].detach
      BY DEF NoAttachmentOutlivesThread
    <2>1. LedgerInv(t) /\ refused[t].detach \in BOOLEAN
      BY <1>1 DEF Ledger, Refusals
    <2>2. ~Owns(t)
      BY <2>1 DEF LedgerInv, Owns
    <2>3. origin[t] = "crate" => refused[t].detach # FALSE
      BY <2>1, <2>2 DEF LedgerInv
    <2> QED
      BY <2>1, <2>3
  <1> QED
    BY <1>1, AlwaysLedger, PTL

===============================================================================
