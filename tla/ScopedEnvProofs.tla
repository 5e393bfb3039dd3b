---------------------------- MODULE ScopedEnvProofs ----------------------------
(***************************************************************************)
(* Theorems about ScopedEnv, for any nesting depth, any number of          *)
(* references and exceptions, and any environment.                         *)
(***************************************************************************)
EXTENDS ScopedEnv, SequenceTheorems, FiniteSetTheorems, TLAPS

-------------------------------------------------------------------------------
(* Sequences as stacks, and how many elements of one kind are below another *)

LEMMA PushFacts ==
    ASSUME NEW S, NEW s \in Seq(S), NEW x \in S
    PROVE  /\ Append(s, x) \in Seq(S) /\ Append(s, x) # <<>>
           /\ Len(s) \in Nat /\ Len(Append(s, x)) = Len(s) + 1
           /\ Append(s, x)[Len(s) + 1] = x
           /\ \A i \in 1..Len(s) : Append(s, x)[i] = s[i]
  OBVIOUS

LEMMA PopFacts ==
    ASSUME NEW S, NEW s \in Seq(S), s # <<>>
    PROVE  /\ Len(s) \in Nat \ {0} /\ Len(s) \in 1..Len(s)
           /\ SubSeq(s, 1, Len(s) - 1) \in Seq(S)
           /\ Len(SubSeq(s, 1, Len(s) - 1)) = Len(s) - 1
           /\ \A i \in 1..(Len(s) - 1) : SubSeq(s, 1, Len(s) - 1)[i] = s[i]
<1>1. Len(s) \in Nat \ {0} /\ Len(s) \in 1..Len(s)
  OBVIOUS
<1>2. PICK n \in Nat : n = Len(s) - 1
  BY <1>1
<1>3. \A i \in 1..n : s[i] \in S
  BY <1>1, <1>2
<1>4. /\ SubSeq(s, 1, n) \in Seq(S)
      /\ Len(SubSeq(s, 1, n)) = IF 1 <= n THEN n - 1 + 1 ELSE 0
      /\ \A i \in 1..(n - 1 + 1) : SubSeq(s, 1, n)[i] = s[1 + i - 1]
  BY <1>3, SubSeqProperties
<1>5. /\ Len(SubSeq(s, 1, n)) = n
      /\ \A i \in 1..n : SubSeq(s, 1, n)[i] = s[i]
  BY <1>4
<1> QED BY <1>1, <1>2, <1>4, <1>5

LEMMA StackFacts ==
    ASSUME NEW S, NEW s \in Seq(S)
    PROVE  /\ Len(s) \in Nat /\ (s = <<>> <=> Len(s) = 0)
           /\ \A i \in 1..Len(s) : s[i] \in S
  OBVIOUS

(* The scopes with a guard, and with a frame, among the first n *)
Guards(s, n) == {i \in 1..n : s[i].kind # "java"}
Framed(s, n) == {i \in 1..n : s[i].frame}

(* How many: one more only where there is one more *)
LEMMA Counts ==
    ASSUME NEW m \in Nat, NEW n \in Nat, m <= n, NEW A \in SUBSET (1..m), NEW B \in SUBSET (1..n),
           A \subseteq B
    PROVE  /\ IsFiniteSet(A) /\ IsFiniteSet(B)
           /\ Cardinality(A) \in Nat /\ Cardinality(B) \in Nat
           /\ Cardinality(A) <= Cardinality(B)
           /\ \A i \in B : Cardinality(B) >= 1
<1>1. IsFiniteSet(B)
  <2>1. IsFiniteSet(1..n)
    BY FS_Interval
  <2>2. B \subseteq 1..n
    OBVIOUS
  <2> QED BY <2>1, <2>2, FS_Subset
<1>2. IsFiniteSet(A)
  BY <1>1, FS_Subset
<1>3. Cardinality(A) \in Nat /\ Cardinality(B) \in Nat /\ Cardinality(A) <= Cardinality(B)
  BY <1>1, <1>2, FS_CardinalityType, FS_Subset
<1>5. ASSUME NEW i \in B PROVE Cardinality(B) >= 1
  <2>1. Cardinality(B) # 0
    BY <1>1, <1>5, FS_EmptySet
  <2> QED BY <1>3, <2>1
<1> QED BY <1>1, <1>2, <1>3, <1>5

LEMMA CountOneMore ==
    ASSUME NEW n \in Nat, NEW A \in SUBSET (1..n)
    PROVE  Cardinality(A) \in Nat /\ Cardinality(A \union {n + 1}) = Cardinality(A) + 1
<1>1. IsFiniteSet(A) /\ Cardinality(A) \in Nat
  BY Counts
<1>2. n + 1 \notin A
  OBVIOUS
<1> QED BY <1>1, <1>2, FS_AddElement

GuardsTo(s, n) == Cardinality(Guards(s, n))
FramesTo(s, n) == Cardinality(Framed(s, n))

LEMMA CountFacts ==
    ASSUME NEW s, NEW m \in Nat, NEW n \in Nat, m <= n
    PROVE  /\ GuardsTo(s, m) \in Nat /\ FramesTo(s, m) \in Nat
           /\ GuardsTo(s, m) <= GuardsTo(s, n) /\ FramesTo(s, m) <= FramesTo(s, n)
           /\ \A i \in 1..n : s[i].frame => FramesTo(s, n) >= 1
<1>1. /\ Guards(s, m) \in SUBSET (1..m) /\ Guards(s, n) \in SUBSET (1..n)
      /\ Guards(s, m) \subseteq Guards(s, n)
  BY DEF Guards
<1>2. /\ Framed(s, m) \in SUBSET (1..m) /\ Framed(s, n) \in SUBSET (1..n)
      /\ Framed(s, m) \subseteq Framed(s, n)
  BY DEF Framed
<1>3. \A i \in 1..n : s[i].frame => i \in Framed(s, n)
  BY DEF Framed
<1>4. /\ Cardinality(Guards(s, m)) \in Nat
      /\ Cardinality(Guards(s, m)) <= Cardinality(Guards(s, n))
  BY <1>1, Counts
<1>5. /\ Cardinality(Framed(s, m)) \in Nat
      /\ Cardinality(Framed(s, m)) <= Cardinality(Framed(s, n))
      /\ \A i \in Framed(s, n) : Cardinality(Framed(s, n)) >= 1
  BY <1>2, Counts
<1> QED BY <1>3, <1>4, <1>5 DEF GuardsTo, FramesTo

(* One scope more *)
LEMMA CountNext ==
    ASSUME NEW s, NEW n \in Nat
    PROVE  /\ GuardsTo(s, n + 1) = GuardsTo(s, n) + IF s[n + 1].kind # "java" THEN 1 ELSE 0
           /\ FramesTo(s, n + 1) = FramesTo(s, n) + IF s[n + 1].frame THEN 1 ELSE 0
<1>0. n + 1 \in Nat /\ n <= n + 1 /\ 1..(n + 1) = (1..n) \union {n + 1} /\ n + 1 \notin 1..n
  OBVIOUS
<1>1. /\ Guards(s, n) \in SUBSET (1..n) /\ Guards(s, n + 1) \in SUBSET (1..(n + 1))
      /\ Framed(s, n) \in SUBSET (1..n) /\ Framed(s, n + 1) \in SUBSET (1..(n + 1))
  BY DEF Guards, Framed
<1>2. IF s[n + 1].kind # "java"
      THEN Guards(s, n + 1) = Guards(s, n) \union {n + 1}
      ELSE Guards(s, n + 1) = Guards(s, n)
  BY <1>0 DEF Guards
<1>3. IF s[n + 1].frame
      THEN Framed(s, n + 1) = Framed(s, n) \union {n + 1}
      ELSE Framed(s, n + 1) = Framed(s, n)
  BY <1>0 DEF Framed
<1>4. /\ Cardinality(Guards(s, n)) \in Nat
      /\ Cardinality(Guards(s, n) \union {n + 1}) = Cardinality(Guards(s, n)) + 1
  BY <1>1, CountOneMore
<1>5. /\ Cardinality(Framed(s, n)) \in Nat
      /\ Cardinality(Framed(s, n) \union {n + 1}) = Cardinality(Framed(s, n)) + 1
  BY <1>1, CountOneMore
<1>6. GuardsTo(s, n + 1) = GuardsTo(s, n) + IF s[n + 1].kind # "java" THEN 1 ELSE 0
  BY <1>2, <1>4 DEF GuardsTo
<1>7. CASE s[n + 1].frame
  <2>1. Framed(s, n + 1) = Framed(s, n) \union {n + 1}
    BY <1>3, <1>7
  <2> QED BY <1>5, <1>6, <1>7, <2>1 DEF FramesTo
<1>8. CASE ~s[n + 1].frame
  <2>1. Framed(s, n + 1) = Framed(s, n)
    BY <1>3, <1>8
  <2> QED BY <1>5, <1>6, <1>8, <2>1 DEF FramesTo
<1> QED BY <1>7, <1>8

(* Only the scopes that are counted matter. *)
LEMMA CountSame ==
    ASSUME NEW s, NEW a, NEW n \in Nat, \A i \in 1..n : a[i] = s[i]
    PROVE  GuardsTo(a, n) = GuardsTo(s, n) /\ FramesTo(a, n) = FramesTo(s, n)
<1>1. Guards(a, n) = Guards(s, n) /\ Framed(a, n) = Framed(s, n)
  BY DEF Guards, Framed
<1> QED BY <1>1 DEF GuardsTo, FramesTo

-------------------------------------------------------------------------------
(***************************************************************************)
(* The invariant.  What holds of a scope depends on those below it only,   *)
(* so that pushing and popping keep it; a scope of Rust code has a frame   *)
(* at or below it, since a thread gets one with its first attachment and   *)
(* with every native method.                                               *)
(***************************************************************************)
AttachKinds == {"attach", "attach_framed"}

Local(s, i) ==
    /\ s[i].kind = "java" => s[i].level = 0 /\ ~s[i].frame
    /\ s[i].kind # "java" => s[i].level = GuardsTo(s, i) /\ \E j \in 1..i : s[j].frame
    /\ s[i].kind = "returning" => s[i].frame /\ i # 1 /\ s[i - 1].kind # "java"
    /\ s[i].saved # NoException =>
          s[i].kind \in AttachKinds /\ s[i].policy = "PreReThrowPostCatch" /\ ~s[i].frame
    /\ i = 1 => s[i].kind = "java" \/ (s[i].kind \in AttachKinds /\ s[i].frame)
    /\ s[i].kind \in AttachKinds /\ s[i].frame => i = 1

Nested(s) == \A i \in 1..Len(s) : Local(s, i)

Levels ==
    /\ nestLevel = GuardsTo(scopes, Len(scopes))
    /\ Len(frames) = FramesTo(scopes, Len(scopes))

(* A reference is in a frame, and no scope whose frame holds it has a higher level. *)
RefInv ==
    \A r \in Refs :
        /\ held[r] <= nestLevel
        /\ held[r] # 0 => \E f \in 1..Len(frames) : r \in frames[f]
        /\ \A i \in 1..Len(scopes) :
              /\ scopes[i].frame /\ held[r] # 0 /\ r \in frames[FramesTo(scopes, i)]
              => scopes[i].level <= held[r]

Saved(s) == {s[i].saved : i \in 1..Len(s)}

(* Saved exceptions differ from one another and from the pending one. *)
Distinct(s) ==
    \A i, j \in 1..Len(s) : s[i].saved # NoException /\ s[i].saved = s[j].saved => i = j

ExceptionInv ==
    /\ NoExceptionLost
    /\ scopes = <<>> => pending = NoException
    /\ pending # NoException => pending \notin Saved(scopes)
    /\ Distinct(scopes)

Inv == TypeOK /\ Nested(scopes) /\ Levels /\ RefInv /\ ExceptionInv

LEMMA LocalSame ==
    ASSUME NEW s, NEW a, NEW n \in Nat, \A j \in 1..n : a[j] = s[j],
           NEW i \in 1..n, Local(s, i)
    PROVE  Local(a, i)
<1>1. i \in Nat /\ 1..i \subseteq 1..n /\ (i # 1 => i - 1 \in 1..n)
  OBVIOUS
<1>2. GuardsTo(a, i) = GuardsTo(s, i)
  BY <1>1, CountSame
<1>3. a[i] = s[i] /\ (i # 1 => a[i - 1] = s[i - 1]) /\ \A j \in 1..i : a[j] = s[j]
  BY <1>1
<1> QED BY <1>2, <1>3 DEF Local

LEMMA Pushed ==
    ASSUME NEW s \in Seq(Scope), Nested(s), NEW x \in Scope, Local(Append(s, x), Len(s) + 1)
    PROVE  LET a == Append(s, x) IN
           /\ a \in Seq(Scope) /\ Len(a) = Len(s) + 1 /\ a[Len(a)] = x
           /\ \A i \in 1..Len(s) : a[i] = s[i]
           /\ Nested(a)
           /\ GuardsTo(a, Len(a)) = GuardsTo(s, Len(s)) + IF x.kind # "java" THEN 1 ELSE 0
           /\ FramesTo(a, Len(a)) = FramesTo(s, Len(s)) + IF x.frame THEN 1 ELSE 0
           /\ \A i \in 0..Len(s) : FramesTo(a, i) = FramesTo(s, i)
<1> DEFINE a == Append(s, x)
<1>1. /\ a \in Seq(Scope) /\ Len(s) \in Nat /\ Len(a) = Len(s) + 1 /\ a[Len(s) + 1] = x
      /\ \A i \in 1..Len(s) : a[i] = s[i]
  BY PushFacts
<1> HIDE DEF a
<1>2. \A i \in 1..Len(s) : Local(a, i)
  BY <1>1, LocalSame DEF Nested
<1>3. Nested(a)
  BY <1>1, <1>2 DEF Nested, a
<1>4. /\ GuardsTo(a, Len(s)) = GuardsTo(s, Len(s)) /\ FramesTo(a, Len(s)) = FramesTo(s, Len(s))
  BY <1>1, CountSame
<1>5. /\ GuardsTo(a, Len(s) + 1) = GuardsTo(a, Len(s)) + IF x.kind # "java" THEN 1 ELSE 0
      /\ FramesTo(a, Len(s) + 1) = FramesTo(a, Len(s)) + IF x.frame THEN 1 ELSE 0
  BY <1>1, CountNext
<1>6. ASSUME NEW i \in 0..Len(s) PROVE FramesTo(a, i) = FramesTo(s, i)
  <2>1. i \in Nat /\ \A j \in 1..i : a[j] = s[j]
    BY <1>1
  <2> QED BY <2>1, CountSame
<1> QED BY <1>1, <1>3, <1>4, <1>5, <1>6 DEF a

LEMMA Popped ==
    ASSUME NEW s \in Seq(Scope), Nested(s), s # <<>>
    PROVE  LET b == SubSeq(s, 1, Len(s) - 1)
               x == s[Len(s)] IN
           /\ Len(s) \in Nat \ {0} /\ x \in Scope
           /\ b \in Seq(Scope) /\ Len(b) = Len(s) - 1 /\ Len(b) \in Nat
           /\ \A i \in 1..Len(b) : b[i] = s[i]
           /\ Nested(b)
           /\ GuardsTo(s, Len(s)) = GuardsTo(b, Len(b)) + IF x.kind # "java" THEN 1 ELSE 0
           /\ FramesTo(s, Len(s)) = FramesTo(b, Len(b)) + IF x.frame THEN 1 ELSE 0
           /\ \A i \in 0..Len(b) : FramesTo(b, i) = FramesTo(s, i) /\ GuardsTo(b, i) = GuardsTo(s, i)
<1> DEFINE b == SubSeq(s, 1, Len(s) - 1)
<1>1. /\ Len(s) \in Nat \ {0} /\ Len(s) \in 1..Len(s)
      /\ b \in Seq(Scope) /\ Len(b) = Len(s) - 1 /\ Len(b) \in Nat
      /\ \A i \in 1..Len(b) : b[i] = s[i]
  BY PopFacts
<1> HIDE DEF b
<1>2. \A i \in 1..Len(b) : Local(s, i)
  BY <1>1 DEF Nested
<1>3. Nested(b)
  <2> SUFFICES ASSUME NEW i \in 1..Len(b) PROVE Local(b, i)
    BY DEF Nested
  <2> QED BY <1>1, <1>2, LocalSame
<1>4. ASSUME NEW i \in 0..Len(b)
      PROVE  FramesTo(b, i) = FramesTo(s, i) /\ GuardsTo(b, i) = GuardsTo(s, i)
  <2>1. i \in Nat /\ \A j \in 1..i : b[j] = s[j]
    BY <1>1
  <2> QED BY <2>1, CountSame
<1>5. /\ GuardsTo(s, Len(b) + 1) = GuardsTo(s, Len(b)) + IF s[Len(b) + 1].kind # "java" THEN 1 ELSE 0
      /\ FramesTo(s, Len(b) + 1) = FramesTo(s, Len(b)) + IF s[Len(b) + 1].frame THEN 1 ELSE 0
  BY <1>1, CountNext
<1>6. Len(b) + 1 = Len(s) /\ Len(b) \in 0..Len(b) /\ s[Len(s)] \in Scope
  BY <1>1
<1> QED BY <1>1, <1>3, <1>4, <1>5, <1>6 DEF b

-------------------------------------------------------------------------------
(* What a step does to the scopes, the frames and the references *)

StackTypes ==
    /\ scopes \in Seq(Scope) /\ nestLevel \in Nat
    /\ frames \in Seq(SUBSET Refs) /\ held \in [Refs -> Nat]

StackInv == StackTypes /\ Nested(scopes) /\ Levels /\ RefInv

(* A scope with a frame: which of the frames it is *)
LEMMA FrameIndex ==
    ASSUME StackTypes, Levels, NEW i \in 1..Len(scopes), scopes[i].frame
    PROVE  FramesTo(scopes, i) \in 1..Len(frames)
<1>1. Len(scopes) \in Nat /\ i \in Nat /\ i <= Len(scopes) /\ i \in 1..i
  BY StackFacts DEF StackTypes
<1>2. /\ FramesTo(scopes, i) \in Nat /\ FramesTo(scopes, i) <= FramesTo(scopes, Len(scopes))
  BY <1>1, CountFacts
<1>3. FramesTo(scopes, i) >= 1
  BY <1>1, CountFacts
<1>4. Len(frames) \in Nat
  BY DEF StackTypes
<1> QED BY <1>2, <1>3, <1>4 DEF Levels

(* Rust code enters a scope. *)
LEMMA PushKeeps ==
    ASSUME StackInv, NEW kind \in Kinds \ {"java"}, NEW frame \in BOOLEAN,
           NEW policy \in Policies \union ErrorPolicies \union {"none"},
           NEW saved \in Exceptions \union {NoException},
           PushScope(kind, frame, policy, saved), UNCHANGED held,
           frame \/ \E j \in 1..Len(scopes) : scopes[j].frame,
           kind = "returning" => frame /\ scopes # <<>> /\ Top.kind # "java",
           saved # NoException => kind \in AttachKinds /\ policy = "PreReThrowPostCatch" /\ ~frame,
           scopes = <<>> => kind \in AttachKinds /\ frame,
           kind \in AttachKinds /\ frame => scopes = <<>>
    PROVE  StackInv'
<1> DEFINE x == [kind |-> kind, level |-> nestLevel + 1, frame |-> frame,
                 policy |-> policy, saved |-> saved]
           a == Append(scopes, x)
<1>0. scopes \in Seq(Scope) /\ Len(scopes) \in Nat /\ nestLevel \in Nat /\ (scopes = <<>> <=> Len(scopes) = 0)
  BY StackFacts DEF StackInv, StackTypes
<1>1. x \in Scope
  BY <1>0 DEF Scope
<1>2. /\ x.kind = kind /\ x.level = nestLevel + 1 /\ x.frame = frame
      /\ x.policy = policy /\ x.saved = saved
  OBVIOUS
<1>3. scopes' = a /\ nestLevel' = nestLevel + 1 /\ frames' = IF frame THEN Append(frames, {}) ELSE frames
  BY DEF PushScope
<1> HIDE DEF x
<1>4. /\ Len(a) = Len(scopes) + 1 /\ a[Len(scopes) + 1] = x
      /\ \A i \in 1..Len(scopes) : a[i] = scopes[i]
  BY <1>0, <1>1, PushFacts
<1>5. GuardsTo(a, Len(scopes) + 1) = nestLevel + 1
  <2> HIDE DEF a
  <2>1. GuardsTo(a, Len(scopes)) = nestLevel
    BY <1>0, <1>4, CountSame DEF StackInv, Levels
  <2>2. GuardsTo(a, Len(scopes) + 1) = GuardsTo(a, Len(scopes)) + IF x.kind # "java" THEN 1 ELSE 0
    BY <1>0, <1>4, CountNext
  <2> QED BY <1>2, <2>1, <2>2
<1>6. Local(a, Len(scopes) + 1)
  <2> HIDE DEF a
  <2>1. \E j \in 1..(Len(scopes) + 1) : a[j].frame
    BY <1>0, <1>2, <1>4
  <2>2. kind = "returning" => a[Len(scopes)].kind # "java" /\ Len(scopes) # 0
    <3>1. scopes # <<>> => Len(scopes) \in 1..Len(scopes)
      BY <1>0
    <3> QED BY <1>0, <1>4, <3>1 DEF Top
  <2>3. /\ a[Len(scopes) + 1].kind = kind /\ a[Len(scopes) + 1].level = nestLevel + 1
        /\ a[Len(scopes) + 1].frame = frame /\ a[Len(scopes) + 1].policy = policy
        /\ a[Len(scopes) + 1].saved = saved
    BY <1>2, <1>4
  <2>4. Len(scopes) + 1 - 1 = Len(scopes) /\ (Len(scopes) + 1 = 1 <=> scopes = <<>>)
    BY <1>0
  <2> QED BY <1>5, <2>1, <2>2, <2>3, <2>4 DEF Local
<1>7. /\ a \in Seq(Scope) /\ Nested(a)
      /\ GuardsTo(a, Len(a)) = GuardsTo(scopes, Len(scopes)) + IF kind # "java" THEN 1 ELSE 0
      /\ FramesTo(a, Len(a)) = FramesTo(scopes, Len(scopes)) + IF frame THEN 1 ELSE 0
      /\ \A i \in 0..Len(scopes) : FramesTo(a, i) = FramesTo(scopes, i)
  BY <1>0, <1>1, <1>2, <1>6, Pushed DEF StackInv
<1> HIDE DEF a
<1>8. /\ frames \in Seq(SUBSET Refs) /\ {} \in SUBSET Refs
  BY DEF StackInv, StackTypes
<1>9. /\ frames' \in Seq(SUBSET Refs) /\ Len(frames) \in Nat
      /\ Len(frames') = Len(frames) + IF frame THEN 1 ELSE 0
      /\ \A f \in 1..Len(frames) : frames'[f] = frames[f]
      /\ frame => frames'[Len(frames) + 1] = {}
  BY <1>3, <1>8, PushFacts
<1>10. StackTypes' /\ Nested(scopes')
  BY <1>0, <1>3, <1>7, <1>9 DEF StackInv, StackTypes
<1>11. Levels'
  BY <1>3, <1>7, <1>9 DEF StackInv, Levels
<1>12. RefInv'
  <2> SUFFICES ASSUME NEW r \in Refs
               PROVE  /\ held[r] <= nestLevel'
                      /\ held[r] # 0 => \E f \in 1..Len(frames') : r \in frames'[f]
                      /\ \A i \in 1..Len(a) :
                            /\ a[i].frame /\ held[r] # 0 /\ r \in frames'[FramesTo(a, i)]
                            => a[i].level <= held[r]
    BY <1>3 DEF RefInv
  <2>1. held[r] \in Nat /\ held[r] <= nestLevel
    BY DEF StackInv, StackTypes, RefInv
  <2>2. held[r] # 0 => \E f \in 1..Len(frames') : r \in frames'[f]
    <3>1. held[r] # 0 => \E f \in 1..Len(frames) : r \in frames[f]
      BY DEF StackInv, RefInv
    <3> QED BY <1>9, <3>1
  <2>3. ASSUME NEW i \in 1..Len(a), a[i].frame, held[r] # 0, r \in frames'[FramesTo(a, i)]
        PROVE  a[i].level <= held[r]
    <3>1. CASE i \in 1..Len(scopes)
      <4>1. a[i] = scopes[i] /\ FramesTo(a, i) = FramesTo(scopes, i)
        BY <1>0, <1>4, <1>7, <3>1
      <4>2. FramesTo(scopes, i) \in 1..Len(frames)
        BY <2>3, <3>1, <4>1, FrameIndex DEF StackInv
      <4>3. r \in frames[FramesTo(scopes, i)]
        BY <1>9, <2>3, <4>1, <4>2
      <4> QED BY <2>3, <3>1, <4>1, <4>3 DEF StackInv, RefInv
    <3>2. CASE i = Len(scopes) + 1
      <4>1. frame
        BY <1>2, <1>4, <2>3, <3>2
      <4>2. FramesTo(a, i) = Len(frames) + 1
        BY <1>4, <1>7, <3>2, <4>1 DEF StackInv, Levels
      <4> QED BY <1>9, <2>3, <4>1, <4>2
    <3> QED BY <1>0, <1>4, <3>1, <3>2
  <2>4. held[r] <= nestLevel'
    BY <1>0, <1>3, <2>1
  <2> QED BY <2>2, <2>3, <2>4, Zenon
<1> QED BY <1>10, <1>11, <1>12 DEF StackInv

(* The last frame goes, and the one below takes the references that are kept. *)
LEMMA PopFrameFacts ==
    ASSUME NEW kept \in SUBSET Refs, frames \in Seq(SUBSET Refs), frames # <<>>,
           kept # {} => Len(frames) # 1
    PROVE  /\ PopFrame(kept) \in Seq(SUBSET Refs)
           /\ Len(PopFrame(kept)) = Len(frames) - 1
           /\ \A f \in 1..(Len(frames) - 1) :
                 frames[f] \subseteq PopFrame(kept)[f] /\ PopFrame(kept)[f] \subseteq frames[f] \union kept
           /\ kept # {} => kept \subseteq PopFrame(kept)[Len(frames) - 1]
<1> DEFINE below == SubSeq(frames, 1, Len(frames) - 1)
<1>1. /\ Len(frames) \in Nat \ {0} /\ below \in Seq(SUBSET Refs)
      /\ Len(below) = Len(frames) - 1
      /\ \A f \in 1..(Len(frames) - 1) : below[f] = frames[f]
  BY PopFacts
<1>2. PopFrame(kept) = IF kept = {} THEN below
                       ELSE [below EXCEPT ![Len(below)] = below[Len(below)] \union kept]
  BY DEF PopFrame, Front
<1> HIDE DEF below
<1>3. CASE kept = {}
  BY <1>1, <1>2, <1>3
<1>4. CASE kept # {}
  <2>1. Len(below) \in 1..Len(below) /\ below[Len(below)] \in SUBSET Refs
    BY <1>1, <1>4
  <2>2. PopFrame(kept) = [below EXCEPT ![Len(below)] = below[Len(below)] \union kept]
    BY <1>2, <1>4
  <2>3. PopFrame(kept) \in Seq(SUBSET Refs) /\ Len(PopFrame(kept)) = Len(below)
    BY <1>1, <2>1, <2>2
  <2>4. PICK m \in Nat : m = Len(below) /\ DOMAIN below = 1..m
    BY <1>1, <2>1
  <2>5. \A f \in 1..m :
           PopFrame(kept)[f] = IF f = m THEN below[m] \union kept ELSE below[f]
    BY <2>2, <2>4
  <2> QED BY <1>1, <2>1, <2>3, <2>4, <2>5
<1> QED BY <1>3, <1>4

LEMMA PopKeeps ==
    ASSUME StackInv, InRust, NEW kept \in SUBSET Refs, PopScope(kept),
           \A r \in kept : held[r] = Top.level,
           kept # {} => Top.kind = "returning"
    PROVE  StackInv'
<1> DEFINE n == Len(scopes)
           b == Below
<1>1. /\ n \in Nat \ {0} /\ Top \in Scope /\ scopes[n] = Top
      /\ b \in Seq(Scope) /\ Len(b) = n - 1 /\ Len(b) \in Nat
      /\ \A i \in 1..Len(b) : b[i] = scopes[i]
      /\ Nested(b)
      /\ GuardsTo(scopes, n) = GuardsTo(b, Len(b)) + IF Top.kind # "java" THEN 1 ELSE 0
      /\ FramesTo(scopes, n) = FramesTo(b, Len(b)) + IF Top.frame THEN 1 ELSE 0
      /\ \A i \in 0..Len(b) : FramesTo(b, i) = FramesTo(scopes, i) /\ GuardsTo(b, i) = GuardsTo(scopes, i)
  BY Popped DEF StackInv, StackTypes, InRust, Below, Top
<1>2. Local(scopes, n) /\ n \in 1..n
  BY <1>1 DEF StackInv, Nested
<1>3. /\ Top.level = nestLevel /\ nestLevel = GuardsTo(b, Len(b)) + 1
      /\ GuardsTo(b, Len(b)) \in Nat /\ FramesTo(b, Len(b)) \in Nat
      /\ Len(frames) = FramesTo(b, Len(b)) + IF Top.frame THEN 1 ELSE 0
  <2>1. Top.level = GuardsTo(scopes, n)
    BY <1>1, <1>2 DEF InRust, Local
  <2>2. nestLevel = GuardsTo(scopes, n) /\ Len(frames) = FramesTo(scopes, n)
    BY DEF StackInv, Levels
  <2>3. GuardsTo(b, Len(b)) \in Nat /\ FramesTo(b, Len(b)) \in Nat
    BY <1>1, CountFacts
  <2> QED BY <1>1, <2>1, <2>2, <2>3 DEF InRust
<1>4. kept # {} => Top.frame /\ FramesTo(b, Len(b)) >= 1
  <2> SUFFICES ASSUME kept # {} PROVE Top.frame /\ FramesTo(b, Len(b)) >= 1
    OBVIOUS
  <2>1. Top.frame /\ n # 1 /\ scopes[n - 1].kind # "java"
    BY <1>1, <1>2 DEF Local
  <2>2. n - 1 \in 1..n /\ n - 1 = Len(b)
    BY <1>1, <2>1
  <2>3. PICK j \in 1..(n - 1) : scopes[j].frame
    BY <2>1, <2>2 DEF StackInv, Nested, Local
  <2>4. j \in 1..Len(b) /\ b[j].frame
    BY <1>1, <2>2, <2>3
  <2>5. FramesTo(b, Len(b)) >= 1
    <3> HIDE DEF b, n
    <3>1. Len(b) \in Nat /\ Len(b) <= Len(b)
      BY <1>1
    <3>2. \A i \in 1..Len(b) : b[i].frame => FramesTo(b, Len(b)) >= 1
      BY <3>1, CountFacts
    <3> QED BY <2>4, <3>2
  <2> QED BY <2>1, <2>5
<1>5. /\ scopes' = b /\ nestLevel' = nestLevel - 1 /\ held' = Outlived(kept)
      /\ frames' = IF Top.frame THEN PopFrame(kept) ELSE frames
  BY DEF PopScope
<1> HIDE DEF b, n
<1>6. /\ frames' \in Seq(SUBSET Refs) /\ Len(frames') = FramesTo(b, Len(b))
      /\ \A f \in 1..Len(frames') :
            frames[f] \subseteq frames'[f] /\ frames'[f] \subseteq frames[f] \union kept
      /\ kept # {} => Len(frames') \in 1..Len(frames') /\ kept \subseteq frames'[Len(frames')]
  <2>0. frames \in Seq(SUBSET Refs) /\ Len(frames) \in Nat /\ (frames = <<>> <=> Len(frames) = 0)
    BY StackFacts DEF StackInv, StackTypes
  <2>1. CASE Top.frame
    <3>1. frames # <<>> /\ (kept # {} => Len(frames) # 1) /\ Len(frames) - 1 = FramesTo(b, Len(b))
      BY <1>3, <1>4, <2>0, <2>1
    <3>2. /\ PopFrame(kept) \in Seq(SUBSET Refs)
          /\ Len(PopFrame(kept)) = Len(frames) - 1
          /\ \A f \in 1..(Len(frames) - 1) :
                frames[f] \subseteq PopFrame(kept)[f] /\ PopFrame(kept)[f] \subseteq frames[f] \union kept
          /\ kept # {} => kept \subseteq PopFrame(kept)[Len(frames) - 1]
      BY <2>0, <3>1, PopFrameFacts
    <3>3. frames' = PopFrame(kept)
      BY <1>5, <2>1
    <3>4. kept # {} => Len(frames) - 1 \in 1..(Len(frames) - 1)
      BY <1>3, <1>4, <3>1
    <3> QED BY <3>1, <3>2, <3>3, <3>4
  <2>2. CASE ~Top.frame
    <3>1. kept = {} /\ frames' = frames /\ Len(frames) = FramesTo(b, Len(b))
      BY <1>3, <1>4, <1>5, <2>2
    <3> QED BY <2>0, <3>1
  <2> QED BY <2>1, <2>2
<1>7. \A r \in Refs :
         /\ held[r] \in Nat
         /\ held'[r] = IF held[r] # nestLevel THEN held[r]
                       ELSE IF r \in kept THEN nestLevel - 1 ELSE 0
  BY <1>3, <1>5 DEF Outlived, StackInv, StackTypes
<1>8. StackTypes'
  <2>1. nestLevel' \in Nat
    BY <1>3, <1>5
  <2>2. held' \in [Refs -> Nat]
    <3>1. held' = [r \in Refs |-> IF held[r] # nestLevel THEN held[r]
                                  ELSE IF r \in kept THEN nestLevel - 1 ELSE 0]
      BY <1>3, <1>5 DEF Outlived
    <3> QED BY <1>3, <1>7, <3>1
  <2> QED BY <1>1, <1>5, <1>6, <2>1, <2>2 DEF StackTypes
<1>9. Nested(scopes') /\ Levels'
  BY <1>1, <1>3, <1>5, <1>6 DEF Levels
<1>10. RefInv'
  <2> SUFFICES ASSUME NEW r \in Refs
               PROVE  /\ held'[r] <= nestLevel'
                      /\ held'[r] # 0 => \E f \in 1..Len(frames') : r \in frames'[f]
                      /\ \A i \in 1..Len(b) :
                            /\ b[i].frame /\ held'[r] # 0 /\ r \in frames'[FramesTo(b, i)]
                            => b[i].level <= held'[r]
    BY <1>5 DEF RefInv
  <2>1. /\ held[r] \in Nat /\ held[r] <= nestLevel /\ nestLevel \in Nat \ {0}
        /\ held'[r] = IF held[r] # nestLevel THEN held[r]
                      ELSE IF r \in kept THEN nestLevel - 1 ELSE 0
    BY <1>3, <1>7 DEF StackInv, StackTypes, RefInv
  <2>2. held'[r] <= nestLevel'
    BY <1>5, <2>1
  <2>3. held[r] # nestLevel => r \notin kept
    BY <1>3
  <2>4. ASSUME held'[r] # 0 PROVE \E f \in 1..Len(frames') : r \in frames'[f]
    <3>1. CASE held[r] # nestLevel
      <4>1. held[r] # 0
        BY <2>1, <2>4, <3>1
      <4>2. PICK f \in 1..Len(frames) : r \in frames[f]
        BY <4>1 DEF StackInv, RefInv
      <4>3. f \in 1..Len(frames')
        <5> SUFFICES ASSUME f \notin 1..Len(frames') PROVE FALSE
          OBVIOUS
        <5>1. Top.frame /\ f = FramesTo(scopes, n)
          <6>1. FramesTo(scopes, n) = Len(frames)
            BY DEF StackInv, Levels, n
          <6>2. CASE Top.frame
            BY <1>3, <1>6, <6>1, <6>2
          <6>3. CASE ~Top.frame
            BY <1>3, <1>6, <6>3
          <6> QED BY <6>2, <6>3
        <5>2. scopes[n].level <= held[r]
          BY <1>1, <1>2, <4>1, <4>2, <5>1 DEF StackInv, RefInv, n
        <5> QED BY <1>1, <1>3, <2>1, <3>1, <5>2
      <4> QED BY <1>6, <4>2, <4>3
    <3>2. CASE held[r] = nestLevel
      <4>1. r \in kept
        BY <2>1, <2>4, <3>2
      <4> QED BY <1>6, <4>1
    <3> QED BY <3>1, <3>2
  <2>5. ASSUME NEW i \in 1..Len(b), b[i].frame, held'[r] # 0, r \in frames'[FramesTo(b, i)]
        PROVE  b[i].level <= held'[r]
    <3>0. i \in Nat /\ i <= Len(b) /\ i \in 0..Len(b) /\ i \in 1..Len(scopes)
      BY <1>1 DEF n
    <3>1. CASE held[r] # nestLevel
      <4>1. FramesTo(b, i) \in 1..Len(frames')
        <5>1. FramesTo(b, i) \in Nat /\ FramesTo(b, i) <= FramesTo(b, Len(b))
          BY <1>1, <3>0, CountFacts
        <5>2. FramesTo(b, i) >= 1
          BY <2>5, <3>0, CountFacts
        <5> QED BY <1>6, <5>1, <5>2
      <4>2. r \in frames[FramesTo(scopes, i)]
        BY <1>1, <1>6, <2>3, <2>5, <3>0, <3>1, <4>1
      <4>3. scopes[i].frame /\ held[r] # 0 /\ b[i] = scopes[i] /\ held'[r] = held[r]
        BY <1>1, <2>1, <2>5, <3>1
      <4> QED BY <3>0, <4>2, <4>3 DEF StackInv, RefInv
    <3>2. CASE held[r] = nestLevel
      <4>1. held'[r] = GuardsTo(b, Len(b))
        BY <1>3, <2>1, <2>5, <3>2
      <4>2. b[i].level = GuardsTo(b, i)
        BY <1>1, <2>5 DEF Nested, Local
      <4>3. GuardsTo(b, i) <= GuardsTo(b, Len(b))
        BY <1>1, <3>0, CountFacts
      <4> QED BY <4>1, <4>2, <4>3
    <3> QED BY <3>1, <3>2
  <2> QED BY <2>2, <2>4, <2>5, Zenon
<1> QED BY <1>8, <1>9, <1>10 DEF StackInv

(* Java code is called. *)
LEMMA JavaPushKeeps ==
    ASSUME StackInv, NoException \in Exceptions \union {NoException},
           scopes' = Append(scopes, JavaScope), UNCHANGED <<nestLevel, frames, held>>
    PROVE  StackInv'
<1> DEFINE a == Append(scopes, JavaScope)
<1>1. /\ scopes \in Seq(Scope) /\ Len(scopes) \in Nat /\ JavaScope \in Scope
      /\ JavaScope.kind = "java" /\ JavaScope.level = 0 /\ JavaScope.frame = FALSE
      /\ JavaScope.saved = NoException
  BY StackFacts DEF StackInv, StackTypes, JavaScope, Scope, Kinds
<1>2. /\ Len(a) = Len(scopes) + 1 /\ a[Len(scopes) + 1] = JavaScope
      /\ \A i \in 1..Len(scopes) : a[i] = scopes[i]
  BY <1>1, PushFacts
<1>3. Local(a, Len(scopes) + 1)
  <2> HIDE DEF a
  <2> QED BY <1>1, <1>2 DEF Local, AttachKinds
<1>4. /\ a \in Seq(Scope) /\ Nested(a)
      /\ GuardsTo(a, Len(a)) = GuardsTo(scopes, Len(scopes)) + 0
      /\ FramesTo(a, Len(a)) = FramesTo(scopes, Len(scopes)) + 0
      /\ \A i \in 0..Len(scopes) : FramesTo(a, i) = FramesTo(scopes, i)
  BY <1>1, <1>3, Pushed DEF StackInv
<1> HIDE DEF a
<1>5. scopes' = a
  BY DEF a
<1>6. StackTypes' /\ Nested(scopes')
  BY <1>4, <1>5 DEF StackInv, StackTypes
<1>7. Levels'
  <2>1. Len(frames) = FramesTo(scopes, Len(scopes)) /\ nestLevel = GuardsTo(scopes, Len(scopes))
        /\ Len(frames) \in Nat /\ nestLevel \in Nat
    BY DEF StackInv, Levels, StackTypes
  <2> QED BY <1>4, <1>5, <2>1 DEF Levels
<1>8. RefInv'
  <2> SUFFICES ASSUME NEW r \in Refs, NEW i \in 1..Len(a),
                      a[i].frame, held[r] # 0, r \in frames[FramesTo(a, i)]
               PROVE  a[i].level <= held[r]
    BY <1>5 DEF RefInv, StackInv
  <2>1. i # Len(scopes) + 1
    BY <1>1, <1>2
  <2>2. i \in 1..Len(scopes) /\ i \in 0..Len(scopes)
    BY <1>1, <1>2, <2>1
  <2>3. a[i] = scopes[i] /\ FramesTo(a, i) = FramesTo(scopes, i)
    BY <1>2, <1>4, <2>2
  <2> QED BY <2>2, <2>3 DEF StackInv, RefInv
<1> QED BY <1>6, <1>7, <1>8 DEF StackInv

(* Java code returns. *)
LEMMA JavaPopKeeps ==
    ASSUME StackInv, InJava, scopes' = Below, UNCHANGED <<nestLevel, frames, held>>
    PROVE  StackInv'
<1> DEFINE b == Below
<1>1. /\ Len(scopes) \in Nat \ {0} /\ scopes[Len(scopes)] = Top
      /\ b \in Seq(Scope) /\ Len(b) = Len(scopes) - 1 /\ Len(b) \in Nat
      /\ \A i \in 1..Len(b) : b[i] = scopes[i]
      /\ Nested(b)
      /\ GuardsTo(scopes, Len(scopes)) = GuardsTo(b, Len(b)) + IF Top.kind # "java" THEN 1 ELSE 0
      /\ FramesTo(scopes, Len(scopes)) = FramesTo(b, Len(b)) + IF Top.frame THEN 1 ELSE 0
      /\ \A i \in 0..Len(b) : FramesTo(b, i) = FramesTo(scopes, i)
  BY Popped DEF StackInv, StackTypes, InJava, Below, Top
<1>2. Top.kind = "java" /\ ~Top.frame
  <2>1. Local(scopes, Len(scopes))
    BY <1>1 DEF StackInv, Nested
  <2> QED BY <1>1, <2>1 DEF Local, InJava
<1> HIDE DEF b
<1>3. GuardsTo(b, Len(b)) \in Nat /\ FramesTo(b, Len(b)) \in Nat
  BY <1>1, CountFacts
<1>4. Levels'
  BY <1>1, <1>2, <1>3 DEF StackInv, Levels, b
<1>5. StackTypes' /\ Nested(scopes')
  BY <1>1 DEF StackInv, StackTypes, b
<1>6. RefInv'
  <2> SUFFICES ASSUME NEW r \in Refs, NEW i \in 1..Len(b),
                      b[i].frame, held[r] # 0, r \in frames[FramesTo(b, i)]
               PROVE  b[i].level <= held[r]
    BY DEF RefInv, StackInv, b
  <2>1. i \in 1..Len(scopes) /\ i \in 0..Len(b)
    BY <1>1
  <2>2. b[i] = scopes[i] /\ FramesTo(b, i) = FramesTo(scopes, i)
    BY <1>1, <2>1
  <2> QED BY <2>1, <2>2 DEF StackInv, RefInv
<1> QED BY <1>4, <1>5, <1>6 DEF StackInv

(* A call returns a reference: the innermost frame has it, on the top Env's level. *)
LEMMA NewRefKeeps ==
    ASSUME StackInv, InRust, NEW r \in Refs, held[r] = 0,
           \A f \in 1..Len(frames) : r \notin frames[f],
           frames' = [frames EXCEPT ![Len(frames)] = frames[Len(frames)] \union {r}],
           held' = [held EXCEPT ![r] = nestLevel],
           UNCHANGED <<scopes, nestLevel>>
    PROVE  StackInv'
<1>1. /\ Len(scopes) \in Nat \ {0} /\ Len(scopes) \in 1..Len(scopes)
      /\ frames \in Seq(SUBSET Refs) /\ nestLevel \in Nat /\ held \in [Refs -> Nat]
  BY StackFacts DEF StackInv, StackTypes, InRust
<1>2. PICK m \in Nat : m = Len(frames) /\ DOMAIN frames = 1..m
  BY <1>1
<1>3. m >= 1
  <2>1. Local(scopes, Len(scopes)) /\ scopes[Len(scopes)].kind # "java"
    BY <1>1 DEF StackInv, Nested, InRust, Top
  <2>2. PICK j \in 1..Len(scopes) : scopes[j].frame
    BY <2>1 DEF Local
  <2>3. FramesTo(scopes, Len(scopes)) >= 1
    BY <1>1, <2>2, CountFacts
  <2> QED BY <1>2, <2>3 DEF StackInv, Levels
<1>4. m \in 1..m /\ frames[m] \in SUBSET Refs
  BY <1>1, <1>2, <1>3
<1>5. frames' \in Seq(SUBSET Refs) /\ Len(frames') = m
  BY <1>1, <1>2, <1>4
<1>6. \A f \in 1..m : frames'[f] = IF f = m THEN frames[m] \union {r} ELSE frames[f]
  BY <1>2
<1>7. \A q \in Refs : held'[q] = IF q = r THEN nestLevel ELSE held[q]
  BY <1>1
<1>8. StackTypes' /\ Nested(scopes') /\ Levels'
  BY <1>1, <1>2, <1>5 DEF StackInv, StackTypes, Levels
<1>9. RefInv'
  <2> SUFFICES ASSUME NEW q \in Refs
               PROVE  /\ held'[q] <= nestLevel
                      /\ held'[q] # 0 => \E f \in 1..m : q \in frames'[f]
                      /\ \A i \in 1..Len(scopes) :
                            /\ scopes[i].frame /\ held'[q] # 0 /\ q \in frames'[FramesTo(scopes, i)]
                            => scopes[i].level <= held'[q]
    BY <1>5 DEF RefInv
  <2>1. CASE q = r
    <3>1. held'[q] = nestLevel /\ q \in frames'[m]
      BY <1>4, <1>6, <1>7, <2>1
    <3>2. ASSUME NEW i \in 1..Len(scopes) PROVE scopes[i].level <= nestLevel
      <4>1. Local(scopes, i) /\ i \in Nat /\ i <= Len(scopes)
        BY <1>1 DEF StackInv, Nested
      <4>2. GuardsTo(scopes, i) <= GuardsTo(scopes, Len(scopes))
        BY <1>1, <4>1, CountFacts
      <4> QED BY <1>1, <4>1, <4>2 DEF Local, StackInv, Levels
    <3> QED BY <1>1, <1>4, <3>1, <3>2
  <2>2. CASE q # r
    <3>1. held'[q] = held[q] /\ \A f \in 1..m : q \in frames'[f] <=> q \in frames[f]
      BY <1>4, <1>6, <1>7, <2>2
    <3>2. \A i \in 1..Len(scopes) : scopes[i].frame => FramesTo(scopes, i) \in 1..m
      BY <1>2, FrameIndex DEF StackInv
    <3>3. /\ held[q] <= nestLevel
          /\ held[q] # 0 => \E f \in 1..m : q \in frames[f]
          /\ \A i \in 1..Len(scopes) :
                /\ scopes[i].frame /\ held[q] # 0 /\ q \in frames[FramesTo(scopes, i)]
                => scopes[i].level <= held[q]
      BY <1>2 DEF StackInv, RefInv
    <3> QED BY <3>1, <3>2, <3>3
  <2> QED BY <2>1, <2>2
<1> QED BY <1>8, <1>9 DEF StackInv

LEMMA DeleteKeeps ==
    ASSUME StackInv, DeleteLocalRef
    PROVE  StackInv'
<1>1. PICK r \in Refs : /\ held' = [held EXCEPT ![r] = 0]
                         /\ frames' = [f \in 1..Len(frames) |-> frames[f] \ {r}]
  BY DEF DeleteLocalRef
<1>2. scopes' = scopes /\ nestLevel' = nestLevel
  BY DEF DeleteLocalRef
<1>3. /\ scopes \in Seq(Scope) /\ nestLevel \in Nat /\ held \in [Refs -> Nat]
      /\ Len(frames) \in Nat /\ \A f \in 1..Len(frames) : frames[f] \in SUBSET Refs
  BY DEF StackInv, StackTypes
<1>4. PICK m \in Nat : m = Len(frames)
  BY <1>3
<1>5. frames' \in Seq(SUBSET Refs) /\ Len(frames') = m
  BY <1>1, <1>3, <1>4
<1>6. /\ \A f \in 1..m : frames'[f] = frames[f] \ {r}
      /\ \A q \in Refs : held'[q] = IF q = r THEN 0 ELSE held[q]
  BY <1>1, <1>3, <1>4
<1>7. StackTypes' /\ Nested(scopes') /\ Levels'
  BY <1>1, <1>2, <1>3, <1>4, <1>5 DEF StackInv, StackTypes, Levels
<1>8. RefInv'
  <2> SUFFICES ASSUME NEW q \in Refs
               PROVE  /\ held'[q] <= nestLevel
                      /\ held'[q] # 0 => \E f \in 1..m : q \in frames'[f]
                      /\ \A i \in 1..Len(scopes) :
                            /\ scopes[i].frame /\ held'[q] # 0 /\ q \in frames'[FramesTo(scopes, i)]
                            => scopes[i].level <= held'[q]
    BY <1>2, <1>5 DEF RefInv
  <2>1. CASE q = r
    BY <1>3, <1>6, <2>1
  <2>2. CASE q # r
    <3>1. held'[q] = held[q] /\ \A f \in 1..m : q \in frames'[f] <=> q \in frames[f]
      BY <1>6, <2>2
    <3>2. \A i \in 1..Len(scopes) : scopes[i].frame => FramesTo(scopes, i) \in 1..m
      BY <1>4, FrameIndex DEF StackInv
    <3>3. /\ held[q] <= nestLevel
          /\ held[q] # 0 => \E f \in 1..m : q \in frames[f]
          /\ \A i \in 1..Len(scopes) :
                /\ scopes[i].frame /\ held[q] # 0 /\ q \in frames[FramesTo(scopes, i)]
                => scopes[i].level <= held[q]
      BY <1>4 DEF StackInv, RefInv
    <3> QED BY <3>1, <3>2, <3>3
  <2> QED BY <2>1, <2>2
<1> QED BY <1>7, <1>8 DEF StackInv

-------------------------------------------------------------------------------
(* The scopes, frames and references through every action *)

(* A scope of Rust code is innermost: some scope has a frame. *)
LEMMA RustHasFrame ==
    ASSUME StackInv, InRust
    PROVE  /\ \E j \in 1..Len(scopes) : scopes[j].frame
           /\ scopes # <<>> /\ Len(scopes) \in 1..Len(scopes)
           /\ Top \in Scope /\ Local(scopes, Len(scopes)) /\ Top.level = nestLevel
<1>1. Len(scopes) \in 1..Len(scopes) /\ Len(scopes) \in Nat /\ Top \in Scope /\ Top.kind # "java"
  BY StackFacts DEF StackInv, StackTypes, InRust, Top
<1>2. Local(scopes, Len(scopes))
  BY <1>1 DEF StackInv, Nested
<1> QED BY <1>1, <1>2 DEF InRust, Local, Top, StackInv, Levels

LEMMA StackStep ==
    ASSUME Inv, Next
    PROVE  StackInv'
<1>0. /\ StackInv /\ pending \in Exceptions \union {NoException}
      /\ NoException \in Exceptions \union {NoException}
      /\ scopes = <<>> => pending = NoException
  BY DEF Inv, StackInv, StackTypes, TypeOK, ExceptionInv
<1>1. UNCHANGED <<scopes, nestLevel, frames, held>> => StackInv'
  <2> SUFFICES ASSUME UNCHANGED <<scopes, nestLevel, frames, held>> PROVE StackInv'
    OBVIOUS
  <2> QED BY <1>0 DEF StackInv, StackTypes, Levels, RefInv
<1>2. ASSUME Active, NEW i \in Reachable, NewLocalRef(i) PROVE StackInv'
  <2>1. CASE AssertTopPanics(i)
    BY <1>1, <2>1 DEF AssertTopPanics
  <2>2. CASE ~AssertTopPanics(i)
    <3>1. PICK r \in Refs :
             /\ held[r] = 0 /\ \A f \in 1..Len(frames) : r \notin frames[f]
             /\ frames' = [frames EXCEPT ![Len(frames)] = frames[Len(frames)] \union {r}]
             /\ held' = [held EXCEPT ![r] = nestLevel]
      BY <1>2, <2>2 DEF NewLocalRef
    <3>2. UNCHANGED <<scopes, nestLevel>> /\ InRust
      BY <1>2, <2>2 DEF NewLocalRef, Active
    <3> QED BY <1>0, <3>1, <3>2, NewRefKeeps
  <2> QED BY <2>1, <2>2
<1>3. ASSUME Active, NEW i \in Reachable, WithLocalFrameReturningLocal(i) PROVE StackInv'
  <2>1. CASE UNCHANGED <<scopes, nestLevel, frames, held>>
    BY <1>1, <2>1
  <2>2. CASE ~UNCHANGED <<scopes, nestLevel, frames, held>>
    <3>1. PushScope("returning", TRUE, "none", NoException) /\ UNCHANGED held
      BY <1>3, <2>2 DEF WithLocalFrameReturningLocal, AssertTopPanics
    <3>2. Top.kind # "java" /\ scopes # <<>>
      BY <1>3 DEF Active, InRust
    <3> QED BY <1>0, <3>1, <3>2, PushKeeps DEF Kinds, AttachKinds
  <2> QED BY <2>1, <2>2
<1>4. CASE DeleteLocalRef
  BY <1>0, <1>4, DeleteKeeps
<1>5. CASE Throw \/ ExceptionClear \/ ExceptionCatch \/ JavaCatches \/ Terminated
  BY <1>1, <1>5 DEF Throw, ExceptionClear, ExceptionCatch, JavaCatches, Terminated, vars
<1>6. CASE WithLocalFrame \/ FrameOfAttach
  <2>1. CASE UNCHANGED <<scopes, nestLevel, frames, held>>
    BY <1>1, <2>1
  <2>2. CASE ~UNCHANGED <<scopes, nestLevel, frames, held>>
    <3>1. PushScope("local", TRUE, "none", NoException) /\ UNCHANGED held
      BY <1>6, <2>2 DEF WithLocalFrame, FrameOfAttach
    <3>2. scopes # <<>>
      BY <1>6 DEF WithLocalFrame, FrameOfAttach, Active, InRust
    <3> QED BY <1>0, <3>1, <3>2, PushKeeps DEF Kinds, AttachKinds
  <2> QED BY <2>1, <2>2
<1>7. CASE WithTopLocalFrame
  <2>1. PushScope("top", FALSE, "none", NoException) /\ UNCHANGED held /\ InRust
    BY <1>7 DEF WithTopLocalFrame, Active
  <2>2. scopes # <<>> /\ \E j \in 1..Len(scopes) : scopes[j].frame
    BY <1>0, <2>1, RustHasFrame
  <2> QED BY <1>0, <2>1, <2>2, PushKeeps DEF Kinds, AttachKinds
<1>8. CASE AttachCurrentThread
  <2>1. CASE UNCHANGED <<scopes, nestLevel, frames, held>>
    BY <1>1, <2>1
  <2>2. CASE ~UNCHANGED <<scopes, nestLevel, frames, held>>
    <3>1. PICK policy \in Policies, framed \in BOOLEAN :
             PushScope(IF framed THEN "attach_framed" ELSE "attach", scopes = <<>>, policy,
                       IF policy = "PreReThrowPostCatch" THEN pending ELSE NoException)
      BY <1>8, <2>2 DEF AttachCurrentThread
    <3> DEFINE kind == IF framed THEN "attach_framed" ELSE "attach"
               saved == IF policy = "PreReThrowPostCatch" THEN pending ELSE NoException
               frame == scopes = <<>>
    <3>2. UNCHANGED held /\ (scopes = <<>> \/ InRust)
      BY <1>8 DEF AttachCurrentThread, Active
    <3>3. frame \/ \E j \in 1..Len(scopes) : scopes[j].frame
      BY <1>0, <3>2, RustHasFrame
    <3>4. /\ kind \in Kinds \ {"java"} /\ kind \in AttachKinds /\ kind # "returning"
          /\ frame \in BOOLEAN
          /\ policy \in Policies \union ErrorPolicies \union {"none"}
          /\ saved \in Exceptions \union {NoException}
          /\ saved # NoException => policy = "PreReThrowPostCatch" /\ ~frame
      BY <1>0 DEF Kinds, AttachKinds
    <3>5. PushScope(kind, frame, policy, saved)
      BY <3>1
    <3>6. kind = "returning" => frame /\ scopes # <<>> /\ Top.kind # "java"
      BY <3>4
    <3> HIDE DEF kind, saved
    <3> QED BY <1>0, <3>2, <3>3, <3>4, <3>5, <3>6, PushKeeps
  <2> QED BY <2>1, <2>2
<1>9. ASSUME InRust, NEW r \in Endings, EndLocalFrame(r) \/ EndAttach(r) \/ EndNative(r)
      PROVE  StackInv'
  <2>1. PopScope({})
    BY <1>9 DEF EndLocalFrame, EndAttach, EndNative
  <2> QED BY <1>0, <1>9, <2>1, PopKeeps
<1>10. ASSUME InRust, NEW r \in Endings, EndReturningLocal(r) PROVE StackInv'
  <2>1. PICK kept \in SUBSET Refs : PopScope(kept) /\ \A q \in kept : held[q] = Top.level
    <3>1. CASE PopScope({})
      BY <3>1
    <3>2. CASE ~PopScope({})
      <4>1. PICK obj \in Refs : held[obj] = Top.level /\ PopScope({obj})
        BY <1>10, <3>2 DEF EndReturningLocal
      <4>2. {obj} \in SUBSET Refs /\ \A q \in {obj} : held[q] = Top.level
        BY <4>1
      <4> QED BY <4>1, <4>2
    <3> QED BY <3>1, <3>2
  <2>2. Top.kind = "returning"
    BY <1>10 DEF EndReturningLocal
  <2> QED BY <1>0, <1>10, <2>1, <2>2, PopKeeps
<1>11. CASE CallJava
  BY <1>0, <1>11, JavaPushKeeps DEF CallJava
<1>12. CASE JavaReturns
  BY <1>0, <1>12, JavaPopKeeps DEF JavaReturns
<1>13. CASE CallNative
  <2>1. PICK policy \in ErrorPolicies : PushScope("native", TRUE, policy, NoException)
    BY <1>13 DEF CallNative
  <2>2. UNCHANGED held /\ scopes # <<>>
    BY <1>13 DEF CallNative, InJava
  <2> QED BY <1>0, <2>1, <2>2, PushKeeps DEF Kinds, AttachKinds
<1> QED BY <1>2, <1>3, <1>4, <1>5, <1>6, <1>7, <1>8, <1>9, <1>10, <1>11, <1>12, <1>13 DEF Next

-------------------------------------------------------------------------------
(* The exceptions through every action *)

LEMMA SavedPushed ==
    ASSUME NEW s \in Seq(Scope), NEW x \in Scope, Distinct(s),
           x.saved # NoException => x.saved \notin Saved(s)
    PROVE  Saved(Append(s, x)) = Saved(s) \union {x.saved} /\ Distinct(Append(s, x))
<1> DEFINE a == Append(s, x)
<1>1. /\ Len(s) \in Nat /\ Len(a) = Len(s) + 1 /\ a[Len(s) + 1] = x
      /\ \A i \in 1..Len(s) : a[i] = s[i]
  BY PushFacts
<1> HIDE DEF a
<1>2. 1..Len(a) = (1..Len(s)) \union {Len(s) + 1}
  BY <1>1
<1>3. Saved(a) = Saved(s) \union {x.saved}
  BY <1>1, <1>2 DEF Saved
<1>4. Distinct(a)
  <2> SUFFICES ASSUME NEW i \in 1..Len(a), NEW j \in 1..Len(a),
                      a[i].saved # NoException, a[i].saved = a[j].saved
               PROVE  i = j
    BY DEF Distinct
  <2>1. CASE i \in 1..Len(s) /\ j \in 1..Len(s)
    BY <1>1, <2>1 DEF Distinct
  <2>2. CASE i \in 1..Len(s) /\ j = Len(s) + 1
    <3>1. a[i].saved \in Saved(s) /\ a[j].saved = x.saved
      BY <1>1, <2>2 DEF Saved
    <3> QED BY <3>1
  <2>3. CASE i = Len(s) + 1 /\ j \in 1..Len(s)
    <3>1. a[j].saved \in Saved(s) /\ a[i].saved = x.saved
      BY <1>1, <2>3 DEF Saved
    <3> QED BY <3>1
  <2> QED BY <1>2, <2>1, <2>2, <2>3
<1> QED BY <1>3, <1>4 DEF a

LEMMA SavedPopped ==
    ASSUME NEW s \in Seq(Scope), s # <<>>, Distinct(s)
    PROVE  LET b == SubSeq(s, 1, Len(s) - 1)
               x == s[Len(s)] IN
           /\ Saved(s) = Saved(b) \union {x.saved}
           /\ x.saved # NoException => x.saved \notin Saved(b)
           /\ Distinct(b)
           /\ Len(s) = 1 <=> b = <<>>
<1> DEFINE b == SubSeq(s, 1, Len(s) - 1)
<1>1. /\ Len(s) \in Nat \ {0} /\ b \in Seq(Scope) /\ Len(b) = Len(s) - 1
      /\ \A i \in 1..Len(b) : b[i] = s[i]
  BY PopFacts
<1> HIDE DEF b
<1>2. 1..Len(s) = (1..Len(b)) \union {Len(s)} /\ Len(s) \notin 1..Len(b)
  BY <1>1
<1>3. Saved(s) = Saved(b) \union {s[Len(s)].saved}
  BY <1>1, <1>2, SMTT(30) DEF Saved
<1>4. s[Len(s)].saved # NoException => s[Len(s)].saved \notin Saved(b)
  <2> SUFFICES ASSUME s[Len(s)].saved # NoException, NEW i \in 1..Len(b),
                      b[i].saved = s[Len(s)].saved
               PROVE  FALSE
    BY DEF Saved
  <2>1. i = Len(s)
    BY <1>1, <1>2 DEF Distinct
  <2> QED BY <1>2, <2>1
<1>5. Distinct(b)
  BY <1>1, <1>2 DEF Distinct
<1>6. Len(s) = 1 <=> b = <<>>
  BY <1>1, StackFacts
<1> QED BY <1>3, <1>4, <1>5, <1>6 DEF b

(* Exceptions as they are, but for the one that is pending *)
ExceptionTypes ==
    /\ pending \in Exceptions \union {NoException}
    /\ result \in Results

LEMMA FreshFacts ==
    ASSUME NEW x \in Fresh
    PROVE  x \in Exceptions /\ x # NoException /\ x # pending /\ x \notin Saved(scopes)
  BY ScopedEnvAssumption DEF Fresh, Saved

(* The exception pending is another one, the scopes are as they were. *)
LEMMA PendingChanges ==
    ASSUME ExceptionInv, ExceptionTypes, UNCHANGED scopes, scopes # <<>>,
           \/ pending' = NoException /\ thrown' = thrown \ {pending}
           \/ pending = NoException /\ \E x \in Fresh : pending' = x /\ thrown' = thrown \union {x}
           \/ \E left \in LeftByCatch : pending' = left /\ thrown' = ThrownAfterCatch(left)
           \/ UNCHANGED <<pending, thrown>>
    PROVE  ExceptionInv' /\ pending' \in Exceptions \union {NoException}
<1>1. /\ thrown = ({pending} \union Saved(scopes)) \ {NoException}
      /\ pending # NoException => pending \notin Saved(scopes)
      /\ Distinct(scopes) /\ pending \in Exceptions \union {NoException}
  BY DEF ExceptionInv, NoExceptionLost, Saved, ExceptionTypes
<1>2. /\ pending' \in Exceptions \union {NoException}
      /\ thrown' = ({pending'} \union Saved(scopes)) \ {NoException}
      /\ pending' # NoException => pending' \notin Saved(scopes)
  <2>1. CASE pending' = NoException /\ thrown' = thrown \ {pending}
    BY <1>1, <2>1
  <2>2. CASE pending = NoException /\ \E x \in Fresh : pending' = x /\ thrown' = thrown \union {x}
    <3>1. PICK x \in Fresh : pending' = x /\ thrown' = thrown \union {x}
      BY <2>2
    <3> QED BY <1>1, <2>2, <3>1, FreshFacts
  <2>3. CASE \E left \in LeftByCatch : pending' = left /\ thrown' = ThrownAfterCatch(left)
    <3>1. PICK left \in LeftByCatch : pending' = left /\ thrown' = (thrown \ {pending}) \union ({left} \ {NoException})
      BY <2>3 DEF ThrownAfterCatch
    <3>2. left = NoException \/ (pending # NoException /\ left = pending) \/ left \in Fresh
      BY DEF LeftByCatch
    <3> QED BY <1>1, <3>1, <3>2, FreshFacts
  <2>4. CASE UNCHANGED <<pending, thrown>>
    BY <1>1, <2>4
  <2> QED BY <2>1, <2>2, <2>3, <2>4
<1>3. NoExceptionLost'
  BY <1>2 DEF NoExceptionLost, Saved
<1> QED BY <1>1, <1>2, <1>3 DEF ExceptionInv

(* A scope is pushed: it saves the pending exception, or none. *)
LEMMA PushExceptions ==
    ASSUME ExceptionInv, ExceptionTypes, scopes \in Seq(Scope), NEW x \in Scope,
           scopes' = Append(scopes, x), UNCHANGED thrown,
           \/ x.saved = NoException /\ UNCHANGED pending
           \/ x.saved = pending /\ pending' = NoException
    PROVE  ExceptionInv' /\ pending' \in Exceptions \union {NoException}
<1>1. /\ thrown = ({pending} \union Saved(scopes)) \ {NoException}
      /\ pending # NoException => pending \notin Saved(scopes)
      /\ Distinct(scopes) /\ pending \in Exceptions \union {NoException}
  BY DEF ExceptionInv, NoExceptionLost, Saved, ExceptionTypes
<1>2. Saved(scopes') = Saved(scopes) \union {x.saved} /\ Distinct(scopes') /\ scopes' # <<>>
  BY <1>1, SavedPushed, PushFacts
<1>3. /\ pending' \in Exceptions \union {NoException}
      /\ thrown' = ({pending'} \union Saved(scopes')) \ {NoException}
      /\ pending' # NoException => pending' \notin Saved(scopes')
  BY <1>1, <1>2
<1>4. NoExceptionLost'
  BY <1>3 DEF NoExceptionLost, Saved
<1> QED BY <1>2, <1>3, <1>4 DEF ExceptionInv

(* A scope that saved none is popped. *)
LEMMA PopExceptions ==
    ASSUME ExceptionInv, ExceptionTypes, scopes \in Seq(Scope), scopes # <<>>, scopes' = Below,
           Top.saved = NoException, Len(scopes) # 1,
           \/ UNCHANGED <<pending, thrown>>
           \/ pending = NoException /\ \E x \in Fresh : pending' = x /\ thrown' = thrown \union {x}
    PROVE  ExceptionInv' /\ pending' \in Exceptions \union {NoException}
<1>1. /\ thrown = ({pending} \union Saved(scopes)) \ {NoException}
      /\ pending # NoException => pending \notin Saved(scopes)
      /\ Distinct(scopes) /\ pending \in Exceptions \union {NoException}
  BY DEF ExceptionInv, NoExceptionLost, Saved, ExceptionTypes
<1>2. Saved(scopes) = Saved(scopes') \union {NoException} /\ Distinct(scopes') /\ scopes' # <<>>
  BY <1>1, SavedPopped DEF Below, Top
<1>3. /\ pending' \in Exceptions \union {NoException}
      /\ thrown' = ({pending'} \union Saved(scopes')) \ {NoException}
      /\ pending' # NoException => pending' \notin Saved(scopes')
  <2>1. CASE UNCHANGED <<pending, thrown>>
    BY <1>1, <1>2, <2>1
  <2>2. CASE pending = NoException /\ \E x \in Fresh : pending' = x /\ thrown' = thrown \union {x}
    <3>1. PICK x \in Fresh : pending' = x /\ thrown' = thrown \union {x}
      BY <2>2
    <3> QED BY <1>1, <1>2, <2>2, <3>1, FreshFacts
  <2> QED BY <2>1, <2>2
<1>4. NoExceptionLost'
  BY <1>3 DEF NoExceptionLost, Saved
<1> QED BY <1>2, <1>3, <1>4 DEF ExceptionInv

(* A closure of an attachment ends. *)
LEMMA EndAttachExceptions ==
    ASSUME StackInv, ExceptionInv, ExceptionTypes, InRust, NEW r \in Results, EndAttach(r)
    PROVE  ExceptionInv' /\ ExceptionTypes'
<1> DEFINE below == Saved(Below)
<1>1. /\ thrown = ({pending} \union Saved(scopes)) \ {NoException}
      /\ pending # NoException => pending \notin Saved(scopes)
      /\ Distinct(scopes) /\ pending \in Exceptions \union {NoException}
      /\ NoException \notin Exceptions
  BY ScopedEnvAssumption DEF ExceptionInv, NoExceptionLost, Saved, ExceptionTypes
<1>2. /\ Saved(scopes) = below \union {Top.saved} /\ Distinct(Below)
      /\ Top.saved # NoException => Top.saved \notin below
      /\ Len(scopes) = 1 <=> Below = <<>>
  BY <1>1, SavedPopped DEF Below, Top, InRust, StackInv, StackTypes
<1>3. /\ Top.saved # NoException => Top.policy = "PreReThrowPostCatch" /\ ~Top.frame
      /\ Top.frame <=> Len(scopes) = 1
      /\ Top.saved \in Exceptions \union {NoException}
  <2>1. Local(scopes, Len(scopes)) /\ Top \in Scope
    BY RustHasFrame
  <2> QED BY <2>1 DEF Local, Top, EndAttach, AttachKinds, Scope
<1>4. scopes' = Below
  BY DEF EndAttach, PopScope
<1> HIDE DEF below
<1>5. PICK left \in IF r = "panic" \/ Top.policy = "Ignore" THEN {pending} ELSE LeftByCatch :
         LET caught == r # "panic" /\ Top.policy # "Ignore" /\ pending # NoException
             after == IF r = "panic" \/ Top.policy = "Ignore" THEN pending ELSE ThrowSaved(left)
             givenUp == IF r = "panic" \/ left # NoException THEN {Top.saved} ELSE {}
             remaining == (IF caught THEN ThrownAfterCatch(left) ELSE thrown) \ givenUp
         IN /\ result' = IF caught THEN "caught" ELSE r
            /\ pending' = IF Top.frame THEN NoException ELSE after
            /\ thrown' = IF Top.frame THEN remaining \ {after} ELSE remaining
  BY DEF EndAttach
<1>6. result' \in Results
  BY <1>5 DEF Results, Errors
<1>7. \A x \in Fresh : x \in Exceptions /\ x # pending /\ x \notin below /\ x # Top.saved
  BY <1>2, FreshFacts
(* What is pending after the scope, were it not for the end of an attachment *)
<1> DEFINE ends(after, remaining) ==
               /\ after \in Exceptions \union {NoException}
               /\ remaining = ({after} \union below) \ {NoException}
               /\ after # NoException => after \notin below
<1>8. PICK after, remaining :
         /\ ends(after, remaining)
         /\ pending' = IF Top.frame THEN NoException ELSE after
         /\ thrown' = IF Top.frame THEN remaining \ {after} ELSE remaining
  <2>1. CASE r = "panic" \/ Top.policy = "Ignore"
    <3> DEFINE givenUp == IF r = "panic" \/ left # NoException THEN {Top.saved} ELSE {}
    <3>1. ends(pending, thrown \ givenUp)
      BY <1>1, <1>2, <1>3, <2>1
    <3>2. /\ pending' = IF Top.frame THEN NoException ELSE pending
          /\ thrown' = IF Top.frame THEN (thrown \ givenUp) \ {pending} ELSE thrown \ givenUp
      BY <1>5, <2>1
    <3> HIDE DEF ends, givenUp
    <3> QED BY <3>1, <3>2
  <2>2. CASE ~(r = "panic" \/ Top.policy = "Ignore")
    <3> DEFINE after == IF left = NoException THEN Top.saved ELSE left
               givenUp == IF left # NoException THEN {Top.saved} ELSE {}
               afterCatch == IF pending # NoException
                             THEN (thrown \ {pending}) \union ({left} \ {NoException})
                             ELSE thrown
    <3>1. /\ pending' = IF Top.frame THEN NoException ELSE after
          /\ thrown' = IF Top.frame THEN (afterCatch \ givenUp) \ {after} ELSE afterCatch \ givenUp
      BY <1>5, <2>2 DEF ThrowSaved, ThrownAfterCatch
    <3>2. left = NoException \/ (pending # NoException /\ (left = pending \/ left \in Fresh))
      BY <2>2 DEF LeftByCatch
    <3>3. ends(after, afterCatch \ givenUp)
      <4>1. CASE left = NoException
        BY <1>1, <1>2, <1>3, <4>1
      <4>2. CASE pending # NoException /\ left = pending
        BY <1>1, <1>2, <1>3, <4>2
      <4>3. CASE pending # NoException /\ left \in Fresh
        BY <1>1, <1>2, <1>3, <1>7, <4>3
      <4> QED BY <3>2, <4>1, <4>2, <4>3
    <3> HIDE DEF ends, after, afterCatch, givenUp
    <3> QED BY <3>1, <3>3
  <2> QED BY <2>1, <2>2
<1>9. /\ pending' \in Exceptions \union {NoException}
      /\ thrown' = ({pending'} \union below) \ {NoException}
      /\ pending' # NoException => pending' \notin below
      /\ Below = <<>> => pending' = NoException
  <2>1. CASE Top.frame
    <3>1. below = {}
      <4>1. Len(Below) = 0
        BY <1>2, <1>3, <2>1, StackFacts
      <4> QED BY <4>1 DEF below, Saved
    <3> QED BY <1>8, <2>1, <3>1
  <2>2. CASE ~Top.frame
    BY <1>2, <1>3, <1>8, <2>2
  <2> QED BY <2>1, <2>2
<1>10. NoExceptionLost'
  BY <1>4, <1>9 DEF NoExceptionLost, Saved, below
<1> QED BY <1>2, <1>4, <1>6, <1>9, <1>10 DEF ExceptionInv, ExceptionTypes, below

LEMMA ExceptionStep ==
    ASSUME Inv, Next
    PROVE  ExceptionInv' /\ ExceptionTypes'
<1>0. /\ StackInv /\ ExceptionInv /\ ExceptionTypes /\ scopes \in Seq(Scope)
      /\ scopes = <<>> <=> Len(scopes) = 0
  BY StackFacts DEF Inv, StackInv, StackTypes, TypeOK, ExceptionTypes
<1> USE DEF Results, Errors
<1>1. ASSUME result' \in Results, UNCHANGED <<scopes, pending, thrown>>
      PROVE  ExceptionInv' /\ ExceptionTypes'
  BY <1>0, <1>1 DEF ExceptionInv, NoExceptionLost, ExceptionTypes
<1>2. ASSUME result' \in Results, PushLocalFrameFails, UNCHANGED scopes, InRust
      PROVE  ExceptionInv' /\ ExceptionTypes'
  <2>1. ExceptionInv' /\ pending' \in Exceptions \union {NoException}
    BY <1>0, <1>2, PendingChanges DEF PushLocalFrameFails, InRust
  <2> QED BY <1>2, <2>1 DEF ExceptionTypes
<1>3. ASSUME result' \in Results, NEW kind \in Kinds, NEW frame \in BOOLEAN,
             NEW policy \in Policies \union ErrorPolicies \union {"none"},
             NEW saved \in {NoException, pending},
             PushScope(kind, frame, policy, saved), UNCHANGED thrown,
             pending' = IF saved = NoException THEN pending ELSE NoException
      PROVE  ExceptionInv' /\ ExceptionTypes'
  <2> DEFINE x == [kind |-> kind, level |-> nestLevel + 1, frame |-> frame,
                   policy |-> policy, saved |-> saved]
  <2>1. x \in Scope /\ x.saved = saved
    BY <1>0 DEF Scope, ExceptionTypes, StackInv, StackTypes
  <2>2. scopes' = Append(scopes, x)
    BY <1>3 DEF PushScope
  <2> HIDE DEF x
  <2>3. ExceptionInv' /\ pending' \in Exceptions \union {NoException}
    BY <1>0, <1>3, <2>1, <2>2, PushExceptions
  <2> QED BY <1>3, <2>3 DEF ExceptionTypes
<1>4. ASSUME result' \in Results, InRust, Top.kind \notin AttachKinds, scopes' = Below,
             \/ UNCHANGED <<pending, thrown>>
             \/ pending = NoException /\ \E x \in Fresh : pending' = x /\ thrown' = thrown \union {x}
      PROVE  ExceptionInv' /\ ExceptionTypes'
  <2>1. Local(scopes, Len(scopes)) /\ scopes # <<>> /\ Top.kind # "java"
    BY <1>0, <1>4, RustHasFrame DEF InRust
  <2>2. Top.saved = NoException /\ Len(scopes) # 1
    BY <1>4, <2>1 DEF Local, Top
  <2>3. ExceptionInv' /\ pending' \in Exceptions \union {NoException}
    BY <1>0, <1>4, <2>1, <2>2, PopExceptions
  <2> QED BY <1>4, <2>3 DEF ExceptionTypes
<1>5. ASSUME Active, NEW i \in Reachable, NewLocalRef(i)
      PROVE  ExceptionInv' /\ ExceptionTypes'
  BY <1>1, <1>5 DEF NewLocalRef, AssertTopPanics
<1>6. ASSUME Active, NEW i \in Reachable, WithLocalFrameReturningLocal(i)
      PROVE  ExceptionInv' /\ ExceptionTypes'
  <2>1. CASE AssertTopPanics(i)
    BY <1>1, <2>1 DEF AssertTopPanics
  <2>2. CASE PushScope("returning", TRUE, "none", NoException) /\ result' = "none"
             /\ UNCHANGED <<held, pending, thrown>>
    BY <1>3, <2>2 DEF Kinds
  <2>3. CASE PushLocalFrameFails /\ result' = "other" /\ UNCHANGED scopes
    BY <1>2, <1>6, <2>3 DEF Active
  <2> QED BY <1>6, <2>1, <2>2, <2>3 DEF WithLocalFrameReturningLocal
<1>7. CASE DeleteLocalRef
  BY <1>0, <1>1, <1>7 DEF DeleteLocalRef, ExceptionTypes
<1>8. CASE Throw \/ ExceptionClear \/ ExceptionCatch
  <2>1. /\ result' = "none" /\ UNCHANGED scopes /\ scopes # <<>>
        /\ \/ pending' = NoException /\ thrown' = thrown \ {pending}
           \/ pending = NoException /\ \E x \in Fresh : pending' = x /\ thrown' = thrown \union {x}
           \/ \E left \in LeftByCatch : pending' = left /\ thrown' = ThrownAfterCatch(left)
    BY <1>8 DEF Throw, ExceptionClear, ExceptionCatch, Active, InRust
  <2>2. ExceptionInv' /\ pending' \in Exceptions \union {NoException}
    BY <1>0, <2>1, PendingChanges
  <2> QED BY <2>1, <2>2 DEF ExceptionTypes
<1>9. CASE WithLocalFrame \/ FrameOfAttach
  <2>1. CASE PushScope("local", TRUE, "none", NoException) /\ result' = "none"
             /\ UNCHANGED <<held, pending, thrown>>
    BY <1>3, <2>1 DEF Kinds
  <2>2. CASE PushLocalFrameFails /\ result' = "other" /\ UNCHANGED scopes
    BY <1>2, <1>9, <2>2 DEF WithLocalFrame, FrameOfAttach, Active
  <2> QED BY <1>9, <2>1, <2>2 DEF WithLocalFrame, FrameOfAttach
<1>10. CASE WithTopLocalFrame
  BY <1>3, <1>10 DEF WithTopLocalFrame, Kinds
<1>11. CASE AttachCurrentThread
  <2>1. CASE result' = "java" /\ UNCHANGED <<scopes, pending, thrown>>
    BY <1>1, <2>1
  <2>2. CASE ~(result' = "java" /\ UNCHANGED <<scopes, pending, thrown>>)
    <3>1. PICK policy \in Policies, framed \in BOOLEAN :
             LET saved == IF policy = "PreReThrowPostCatch" THEN pending ELSE NoException
             IN /\ PushScope(IF framed THEN "attach_framed" ELSE "attach",
                              scopes = <<>>, policy, saved)
                /\ pending' = IF saved = NoException THEN pending ELSE NoException
                /\ result' = "none"
      BY <1>11, <2>2 DEF AttachCurrentThread
    <3> DEFINE kind == IF framed THEN "attach_framed" ELSE "attach"
               saved == IF policy = "PreReThrowPostCatch" THEN pending ELSE NoException
               frame == scopes = <<>>
    <3>2. /\ kind \in Kinds /\ frame \in BOOLEAN /\ saved \in {NoException, pending}
          /\ policy \in Policies \union ErrorPolicies \union {"none"}
      BY DEF Kinds
    <3>3. /\ PushScope(kind, frame, policy, saved) /\ result' = "none" /\ UNCHANGED thrown
          /\ pending' = IF saved = NoException THEN pending ELSE NoException
      BY <1>11, <3>1 DEF AttachCurrentThread
    <3> HIDE DEF kind, saved, frame
    <3> QED BY <1>3, <3>2, <3>3
  <2> QED BY <2>1, <2>2
<1>12. ASSUME InRust, NEW r \in Endings PROVE r \in Results
  <2>1. CASE result = "panic"
    BY <1>12, <2>1 DEF Endings
  <2>2. CASE result # "panic" /\ Top.kind = "attach_framed"
    BY <1>0, <1>12, <2>2 DEF Endings, ExceptionTypes
  <2>3. CASE result # "panic" /\ Top.kind # "attach_framed"
    BY <1>12, <2>3 DEF Endings
  <2> QED BY <2>1, <2>2, <2>3
<1>13. ASSUME InRust, NEW r \in Endings, EndLocalFrame(r) \/ EndReturningLocal(r) \/ EndNative(r)
       PROVE  ExceptionInv' /\ ExceptionTypes'
  <2>1. /\ result' \in Results /\ scopes' = Below /\ Top.kind \notin AttachKinds
        /\ \/ UNCHANGED <<pending, thrown>>
           \/ pending = NoException /\ \E x \in Fresh : pending' = x /\ thrown' = thrown \union {x}
    <3>1. CASE EndLocalFrame(r)
      BY <1>12, <1>13, <3>1 DEF EndLocalFrame, PopScope, AttachKinds
    <3>2. CASE EndReturningLocal(r)
      BY <1>12, <1>13, <3>2 DEF EndReturningLocal, PopScope, AttachKinds
    <3>3. CASE EndNative(r)
      BY <3>3 DEF EndNative, PopScope, Resolve, AttachKinds
    <3> QED BY <1>13, <3>1, <3>2, <3>3
  <2> QED BY <1>4, <1>13, <2>1
<1>14. ASSUME InRust, NEW r \in Endings, EndAttach(r) PROVE ExceptionInv' /\ ExceptionTypes'
  BY <1>0, <1>12, <1>14, EndAttachExceptions
<1>15. CASE CallJava
  <2>1. JavaScope \in Scope /\ JavaScope.saved = NoException
    BY DEF JavaScope, Scope, Kinds
  <2>2. scopes' = Append(scopes, JavaScope) /\ UNCHANGED <<pending, thrown>> /\ result' = "none"
    BY <1>15 DEF CallJava
  <2> HIDE DEF JavaScope
  <2>3. ExceptionInv' /\ pending' \in Exceptions \union {NoException}
    BY <1>0, <2>1, <2>2, PushExceptions
  <2> QED BY <2>2, <2>3 DEF ExceptionTypes
<1>16. CASE JavaCatches
  <2>1. /\ UNCHANGED <<scopes, result>> /\ scopes # <<>>
        /\ pending' = NoException /\ thrown' = thrown \ {pending}
    BY <1>16 DEF JavaCatches, InJava
  <2>2. ExceptionInv' /\ pending' \in Exceptions \union {NoException}
    BY <1>0, <2>1, PendingChanges
  <2> QED BY <1>0, <2>1, <2>2 DEF ExceptionTypes
<1>17. CASE JavaReturns
  <2>1. /\ scopes' = Below /\ UNCHANGED result /\ scopes # <<>> /\ Len(scopes) > 1 /\ Top.kind = "java"
        /\ \/ UNCHANGED <<pending, thrown>>
           \/ pending = NoException /\ \E x \in Fresh : pending' = x /\ thrown' = thrown \union {x}
    BY <1>17 DEF JavaReturns, InJava
  <2>2. Len(scopes) \in 1..Len(scopes) /\ Len(scopes) # 1
    <3>1. PICK n \in Nat : n = Len(scopes)
      BY <1>0, StackFacts
    <3>2. n > 1
      BY <2>1, <3>1
    <3>3. n \in 1..n /\ n # 1
      BY <3>2
    <3> QED BY <3>1, <3>3
  <2>3. Top.saved = NoException
    BY <1>0, <2>1, <2>2 DEF StackInv, Nested, Local, Top, AttachKinds
  <2>4. ExceptionInv' /\ pending' \in Exceptions \union {NoException}
    BY <1>0, <2>1, <2>2, <2>3, PopExceptions
  <2> QED BY <1>0, <2>1, <2>4 DEF ExceptionTypes
<1>18. CASE CallNative
  <2>1. PICK policy \in ErrorPolicies : PushScope("native", TRUE, policy, NoException)
    BY <1>18 DEF CallNative
  <2>2. UNCHANGED <<pending, thrown>> /\ result' = "none"
    BY <1>18 DEF CallNative
  <2> QED BY <1>3, <2>1, <2>2 DEF Kinds
<1>19. CASE Terminated
  BY <1>0, <1>1, <1>19 DEF Terminated, vars, ExceptionTypes
<1> QED BY <1>5, <1>6, <1>7, <1>8, <1>9, <1>10, <1>11, <1>13, <1>14, <1>15, <1>16, <1>17, <1>18,
           <1>19 DEF Next

-------------------------------------------------------------------------------
(* The invariant is inductive. *)

LEMMA InitInv == Init => Inv
<1> SUFFICES ASSUME Init PROVE Inv
  OBVIOUS
<1>1. JavaScope \in Scope /\ JavaScope.kind = "java" /\ JavaScope.level = 0
      /\ JavaScope.frame = FALSE /\ JavaScope.saved = NoException
  BY DEF JavaScope, Scope, Kinds
<1>2. scopes \in {<<>>, <<JavaScope>>} /\ nestLevel = 0 /\ frames = <<>> /\ pending = NoException
      /\ held = [r \in Refs |-> 0] /\ result = "none" /\ thrown = {}
  BY DEF Init
<1> HIDE DEF JavaScope
<1>3. /\ scopes \in Seq(Scope) /\ Len(scopes) \in {0, 1}
      /\ \A i \in 1..Len(scopes) : i = 1 /\ scopes[i] = JavaScope
  <2>1. CASE scopes = <<>>
    BY <2>1
  <2>2. CASE scopes = <<JavaScope>>
    <3>1. scopes \in Seq(Scope) /\ Len(scopes) = 1 /\ scopes[1] = JavaScope
      BY <1>1, <2>2
    <3> QED BY <3>1
  <2> QED BY <1>2, <2>1, <2>2
<1>4. TypeOK
  <2>1. scopes \in Seq(Scope)
    BY <1>3
  <2>2. frames \in Seq(SUBSET Refs) /\ held \in [Refs -> Nat]
    BY <1>2
  <2> QED BY <1>2, <2>1, <2>2 DEF TypeOK, Results
<1>5. Nested(scopes)
  BY <1>1, <1>3 DEF Nested, Local, AttachKinds
<1>6. Levels
  <2>1. Guards(scopes, Len(scopes)) = {} /\ Framed(scopes, Len(scopes)) = {}
    BY <1>1, <1>3 DEF Guards, Framed
  <2>2. Len(frames) = 0
    BY <1>2
  <2> QED BY <1>2, <2>1, <2>2, FS_EmptySet DEF Levels, GuardsTo, FramesTo
<1>7. RefInv
  BY <1>2 DEF RefInv
<1>8. ExceptionInv
  <2>1. Saved(scopes) \subseteq {NoException}
    BY <1>1, <1>3 DEF Saved
  <2>2. NoExceptionLost
    BY <1>2, <2>1 DEF NoExceptionLost, Saved
  <2>3. Distinct(scopes)
    BY <1>3 DEF Distinct
  <2> QED BY <1>2, <2>2, <2>3 DEF ExceptionInv
<1> QED BY <1>4, <1>5, <1>6, <1>7, <1>8 DEF Inv

LEMMA StepInv == Inv /\ [Next]_vars => Inv'
<1>1. ASSUME Inv, Next PROVE Inv'
  <2>1. StackInv' /\ ExceptionInv' /\ ExceptionTypes'
    BY <1>1, StackStep, ExceptionStep
  <2>2. thrown' \subseteq Exceptions
    <3>1. thrown' = ({pending'} \union {scopes'[i].saved : i \in 1..Len(scopes')}) \ {NoException}
      BY <2>1 DEF ExceptionInv, NoExceptionLost
    <3>2. \A i \in 1..Len(scopes') : scopes'[i].saved \in Exceptions \union {NoException}
      <4>1. \A i \in 1..Len(scopes') : scopes'[i] \in Scope
        BY <2>1, StackFacts DEF StackInv, StackTypes
      <4> QED BY <4>1 DEF Scope
    <3> QED BY <2>1, <3>1, <3>2 DEF ExceptionTypes
  <2>3. TypeOK'
    BY <2>1, <2>2 DEF TypeOK, StackInv, StackTypes, ExceptionTypes
  <2> QED BY <2>1, <2>3 DEF Inv, StackInv
<1>2. ASSUME Inv, UNCHANGED vars PROVE Inv'
  BY <1>2 DEF Inv, vars, TypeOK, Levels, RefInv, ExceptionInv, NoExceptionLost
<1> QED BY <1>1, <1>2

LEMMA Invariant == Spec => []Inv
  BY InitInv, StepInv, PTL DEF Spec

-------------------------------------------------------------------------------
(* Theorems *)

(* The state has its types: no step underflows the nest level or leaves a frame of a kind. *)
THEOREM TypeCorrect == Spec => []TypeOK
<1>1. Inv => TypeOK
  BY DEF Inv
<1> QED BY <1>1, Invariant, PTL

(***************************************************************************)
(* A local reference whose Rust lifetime lasts is in a frame that has not  *)
(* been popped, at any nesting depth: assert_top is enough.                *)
(***************************************************************************)
THEOREM RefsNeverDangle == Spec => []NoDanglingRef
<1>1. Inv => NoDanglingRef
  BY DEF Inv, RefInv, NoDanglingRef
<1> QED BY <1>1, Invariant, PTL

(***************************************************************************)
(* Levels and frames stay in step with the scopes: every early return and  *)
(* every panic of with_local_frame, attach_current_thread and native       *)
(* methods takes away exactly the guard and the frame the scope had.       *)
(***************************************************************************)
THEOREM Balanced == Spec => []ScopesBalanced
<1>1. ASSUME Inv PROVE ScopesBalanced
  <2>1. nestLevel = GuardsTo(scopes, Len(scopes)) /\ Len(frames) = FramesTo(scopes, Len(scopes))
    BY <1>1 DEF Inv, Levels
  <2>2. \A i \in 1..Len(scopes) : scopes[i].kind # "java" => scopes[i].level = GuardsTo(scopes, i)
    BY <1>1 DEF Inv, Nested, Local
  <2> QED BY <2>1, <2>2 DEF ScopesBalanced, GuardsTo, FramesTo, Guards, Framed
<1> QED BY <1>1, Invariant, PTL

(***************************************************************************)
(* An exception that was thrown is pending, or saved by one closure that   *)
(* will throw it again, until it is caught, cleared or handled by Java.    *)
(***************************************************************************)
THEOREM ExceptionsKept == Spec => []NoExceptionLost
<1>1. Inv => NoExceptionLost
  BY DEF Inv, ExceptionInv
<1> QED BY <1>1, Invariant, PTL

(***************************************************************************)
(* PreReThrowPostCatch throws the exception it found again, or leaves the  *)
(* one pending that exception_catch could not take away.                   *)
(***************************************************************************)
THEOREM OriginalIsReThrown == Spec => OriginalReThrown
<1>1. ASSUME Inv, NEW r \in Results \ {"panic"}, InRust, EndAttach(r), Top.saved # NoException
      PROVE  \/ pending' = Top.saved
             \/ pending # NoException /\ pending' \in LeftByCatch \ {NoException}
  <2>1. Top.policy = "PreReThrowPostCatch" /\ ~Top.frame
    <3>1. Local(scopes, Len(scopes))
      BY <1>1, RustHasFrame DEF Inv, StackInv, StackTypes, TypeOK
    <3> QED BY <1>1, <3>1 DEF Local, Top
  <2>2. PICK left \in LeftByCatch : pending' = ThrowSaved(left)
    BY <1>1, <2>1 DEF EndAttach
  <2>3. left # NoException => pending # NoException
    BY DEF LeftByCatch
  <2> QED BY <2>2, <2>3 DEF ThrowSaved
<1>2. Inv /\ [Next]_vars =>
         [\A r \in Results \ {"panic"} :
             InRust /\ EndAttach(r) /\ Top.saved # NoException =>
                 \/ pending' = Top.saved
                 \/ pending # NoException /\ pending' \in LeftByCatch \ {NoException}]_vars
  BY <1>1
<1> QED BY <1>2, Invariant, PTL DEF Spec, OriginalReThrown

=============================================================================
