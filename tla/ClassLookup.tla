------------------------------ MODULE ClassLookup ------------------------------
(***************************************************************************)
(* How the binding of a Java class is found and cached: the get function   *)
(* that bind_java_type! generates (jni-macros/src/bind_java_type.rs) and   *)
(* the chain of class loaders it asks (refs/loader_context.rs).            *)
(*                                                                         *)
(* Two cells per type, CLASS and API, are filled once by whichever thread  *)
(* is first.  No lock is held while the JVM is asked, because a thread may *)
(* come back: looking up a method ID initialises the class, and its static *)
(* initialiser may call a native method that needs the same binding; and a *)
(* catch clause needs the binding of the exception type it names.  Each    *)
(* call of get, and each static initialiser, is a frame on the stack of    *)
(* its thread.                                                             *)
(***************************************************************************)
EXTENDS Naturals, Sequences, SequencesExt

CONSTANTS Threads,
          Types,           \* bound Java types, exception types included
          Security,        \* SecurityException, one of Types
          NotFound,        \* ClassNotFoundException, one of Types
          NoThrow,         \* no exception caught
          Preloaded,       \* types whose binding was initialised before
          Classes,         \* class objects: a type may have one per loader
          NoClass,
          Loaders,         \* class loaders; "vm" stands for FindClass
          ContextLoader,   \* [Threads -> Loaders]
          OtherLoader,     \* the loader of a candidate object, or one given by name
          Throwing,        \* threads whose getContextClassLoader throws
          LowMemory,       \* threads whose calls to the JVM may fail in get
          Worlds,          \* possible answers: [Loaders -> [Types -> Classes \union Types]]
          LoadHandlers,    \* the catch clauses of load_class_with_catch, in order
          FindHandlers,    \* those of Env::find_class
          CallsBack,       \* types whose static initialiser may call a native method
          MaxCalls,        \* bound: calls of get by each thread
          MaxDepth         \* bound: frames on the stack of a thread

ASSUME TypesAssumption == {Security, NotFound} \union Preloaded \union CallsBack \subseteq Types
ASSUME ThreadsAssumption == Throwing \union LowMemory \subseteq Threads
ASSUME NamesAssumption == NoClass \notin Classes /\ NoThrow \notin Types
(* FindClass knows the types that were bound before. *)
ASSUME WorldsAssumption ==
    /\ Worlds \subseteq [Loaders -> [Types -> Classes \union Types]]
    /\ \A world \in Worlds, y \in Preloaded : world["vm"][y] \in Classes
ASSUME LoadersAssumption ==
    {"vm", OtherLoader} \subseteq Loaders /\ ContextLoader \in [Threads -> Loaders]
ASSUME HandlersAssumption == {LoadHandlers, FindHandlers} \subseteq Seq(Types)
ASSUME BoundsAssumption == {MaxCalls, MaxDepth} \subseteq Nat
(* A class object has one name, and is no exception. *)
ASSUME ClassNamesAssumption ==
    /\ Types \intersect Classes = {}
    /\ \A world \in Worlds, l, m \in Loaders, y, z \in Types :
           world[l][y] = world[m][z] => y = z \/ world[l][y] \notin Classes

VARIABLES
    finds,        \* what each loader answers
    classCell,    \* CLASS of each type
    apiCell,      \* API of each type: the class its method IDs are from
    registered,   \* classes whose native methods are registered
    initialiser,  \* the thread that runs the static initialiser of a class
    initialised,  \* classes that are initialised
    stack,        \* the frames of each thread, innermost last
    failed,       \* the call that has just returned to a thread did so with an error
    calls

lookupVars == <<finds, classCell, apiCell, registered, initialiser, initialised, stack,
                failed, calls>>
cells == <<classCell, apiCell>>
jvm == <<registered, initialiser, initialised>>

Nobody == "nobody"
ASSUME NobodyAssumption == Nobody \notin Threads

Contexts == {"none", "object", "loader"}
Stages == {"given", "context_loader", "context", "candidate_loader", "candidate", "vm"}
Steps == Stages \union {"api", "class", "set", "register", "ids", "publish", "clinit", "native"}
(* thrown: the exception being matched; todo: the clauses to be compared with it *)
Frame == [type : Types, via : Contexts, pc : Steps, class : Classes \union {NoClass},
          thrown : Types \union {NoThrow}, todo : Seq(Types)]

LookupTypeOK ==
    /\ finds \in Worlds
    /\ classCell \in [Types -> Classes \union {NoClass}]
    /\ apiCell \in [Types -> Classes \union {NoClass}]
    /\ registered \subseteq Classes
    /\ initialiser \in [Classes -> Threads \union {Nobody}]
    /\ initialised \subseteq Classes
    /\ stack \in [Threads -> Seq(Frame)]
    /\ failed \in [Threads -> BOOLEAN]
    /\ calls \in [Threads -> 0..MaxCalls]

InitLookup ==
    /\ finds \in Worlds
    /\ classCell = [y \in Types |-> IF y \in Preloaded THEN finds["vm"][y] ELSE NoClass]
    /\ apiCell = classCell
    /\ registered = {finds["vm"][y] : y \in Preloaded}
    /\ initialiser = [c \in Classes |-> Nobody]
    /\ initialised = {finds[l][y] : l \in Loaders, y \in Types \ CallsBack} \intersect Classes
    /\ stack = [t \in Threads |-> <<>>]
    /\ failed = [t \in Threads |-> FALSE]
    /\ calls = [t \in Threads |-> 0]

Top(t) == stack[t][Len(stack[t])]
At(t, step) == stack[t] # <<>> /\ Top(t).pc = step /\ Top(t).thrown = NoThrow
MayCall(t) == Len(stack[t]) < MaxDepth
GetFrame(type, via) == [type |-> type, via |-> via, pc |-> "api", class |-> NoClass,
                        thrown |-> NoThrow, todo |-> <<>>]

(* The frame on top is changed, another one is pushed on it, or it returns. *)
Become(t, frame) == stack' = [stack EXCEPT ![t] = Append(Front(@), frame)] /\ UNCHANGED failed
Goto(t, step) == Become(t, [Top(t) EXCEPT !.pc = step])
PushOn(t, frame, pushed) ==
    stack' = [stack EXCEPT ![t] = Append(Append(Front(@), frame), pushed)] /\ UNCHANGED failed
Leave(t, isError) ==
    /\ stack' = [stack EXCEPT ![t] = Front(@)]
    /\ failed' = [failed EXCEPT ![t] = isError]

(* A call from Rust code, with one of the three loader contexts *)
LookUp(t, type, via) ==
    /\ stack[t] = <<>> /\ calls[t] < MaxCalls
    /\ stack' = [stack EXCEPT ![t] = <<GetFrame(type, via)>>]
    /\ calls' = [calls EXCEPT ![t] = @ + 1]
    /\ failed' = [failed EXCEPT ![t] = FALSE]
    /\ UNCHANGED <<finds, cells, jvm>>

-------------------------------------------------------------------------------
(* get: the cells *)

FirstStage(via) == IF via = "loader" THEN "given" ELSE "context_loader"

(* Mutant: one thread at a time, as with OnceLock::get_or_init. *)
ReadApiLocked(t) ==
    /\ At(t, "api")
    /\ IF apiCell[Top(t).type] # NoClass
       THEN Leave(t, FALSE)
       ELSE /\ \A u \in Threads \ {t} : \A i \in 1..Len(stack[u]) :
                    stack[u][i].type = Top(t).type => stack[u][i].pc \in {"api", "clinit", "native"}
            /\ Goto(t, "class")
    /\ UNCHANGED <<finds, cells, jvm, calls>>

ReadApi(t) ==
    /\ At(t, "api")
    /\ IF apiCell[Top(t).type] # NoClass THEN Leave(t, FALSE) ELSE Goto(t, "class")
    /\ UNCHANGED <<finds, cells, jvm, calls>>

ReadClass(t) ==
    /\ At(t, "class")
    /\ LET cached == classCell[Top(t).type] IN
       Become(t, [Top(t) EXCEPT !.class = cached,
                    !.pc = IF cached = NoClass THEN FirstStage(Top(t).via) ELSE "register"])
    /\ UNCHANGED <<finds, cells, jvm, calls>>

(* Mutant: a thread that was too late goes on with the class it has loaded. *)
SetClassOwn(t) ==
    /\ At(t, "set")
    /\ LET type == Top(t).type IN
       classCell' = [classCell EXCEPT ![type] = IF @ = NoClass THEN Top(t).class ELSE @]
    /\ Goto(t, "register")
    /\ UNCHANGED <<finds, apiCell, jvm, calls>>

(* The other `?` of get: no local frame is to be had, or no global reference to the class
   that was found; the native methods are refused; or a method or a mapped type is missing.
   What is in CLASS by then stays there. *)
GetFails(t) ==
    /\ At(t, "class") \/ At(t, "set") \/ At(t, "register") \/ At(t, "ids")
    /\ t \in LowMemory
    /\ Leave(t, TRUE)
    /\ UNCHANGED <<finds, cells, jvm, calls>>

(* CLASS.set, whose result is ignored, and CLASS.get *)
SetClass(t) ==
    /\ At(t, "set")
    /\ LET type == Top(t).type
           first == IF classCell[type] = NoClass THEN Top(t).class ELSE classCell[type]
       IN /\ classCell' = [classCell EXCEPT ![type] = first]
          /\ Become(t, [Top(t) EXCEPT !.pc = "register", !.class = first])
    /\ UNCHANGED <<finds, apiCell, jvm, calls>>

(* Mutant: nothing is registered before the method IDs are looked up. *)
RegisterNativesLater(t) ==
    /\ At(t, "register")
    /\ Goto(t, "ids")
    /\ UNCHANGED <<finds, cells, jvm, calls>>

RegisterNatives(t) ==
    /\ At(t, "register")
    /\ registered' = registered \union {Top(t).class}
    /\ Goto(t, "ids")
    /\ UNCHANGED <<finds, cells, initialiser, initialised, calls>>

(***************************************************************************)
(* The first method ID initialises the class: this thread runs its static  *)
(* initialiser, or waits for the thread that does, or is that thread.      *)
(***************************************************************************)
ClinitFrame(type, c) ==
    [type |-> type, via |-> "none", pc |-> "clinit", class |-> c, thrown |-> NoThrow, todo |-> <<>>]

LookupIds(t) ==
    /\ At(t, "ids")
    /\ LET c == Top(t).class IN
       \/ /\ c \in initialised \/ initialiser[c] = t
          /\ Goto(t, "publish")
          /\ UNCHANGED jvm
       \/ /\ c \notin initialised /\ initialiser[c] = Nobody /\ MayCall(t)
          /\ initialiser' = [initialiser EXCEPT ![c] = t]
          /\ PushOn(t, Top(t), ClinitFrame(Top(t).type, c))
          /\ UNCHANGED <<registered, initialised>>
    /\ UNCHANGED <<finds, cells, calls>>

(* API.set, whose result is ignored, and API.get *)
Publish(t) ==
    /\ At(t, "publish")
    /\ apiCell' = [apiCell EXCEPT ![Top(t).type] = IF @ = NoClass THEN Top(t).class ELSE @]
    /\ Leave(t, FALSE)
    /\ UNCHANGED <<finds, classCell, jvm, calls>>

-------------------------------------------------------------------------------
(* Java code: it uses a class whose native methods it may rely on. *)

JavaUses(t, type) ==
    /\ stack[t] = <<>> /\ calls[t] < MaxCalls
    /\ classCell[type] \in registered \ initialised
    /\ initialiser[classCell[type]] = Nobody
    /\ initialiser' = [initialiser EXCEPT ![classCell[type]] = t]
    /\ stack' = [stack EXCEPT ![t] = <<ClinitFrame(type, classCell[type])>>]
    /\ calls' = [calls EXCEPT ![t] = @ + 1]
    /\ failed' = [failed EXCEPT ![t] = FALSE]
    /\ UNCHANGED <<finds, cells, registered, initialised>>

(* The static initialiser may call a native method, which needs the binding. *)
CallNative(t) ==
    /\ At(t, "clinit") /\ MayCall(t)
    /\ Top(t).type \in CallsBack
    /\ PushOn(t, [Top(t) EXCEPT !.pc = "native"], GetFrame(Top(t).type, "none"))
    /\ UNCHANGED <<finds, cells, jvm, calls>>

(* The native method deals with its own errors. *)
EndClinit(t) ==
    /\ At(t, "native") \/ At(t, "clinit")
    /\ initialised' = initialised \union {Top(t).class}
    /\ initialiser' = [initialiser EXCEPT ![Top(t).class] = Nobody]
    /\ Leave(t, FALSE)
    /\ UNCHANGED <<finds, cells, registered, calls>>

-------------------------------------------------------------------------------
(* load_class: lookup_class_with_fallbacks *)

(***************************************************************************)
(* An exception is cleared and compared with the catch clauses up to the   *)
(* one that matches, or with all of them; each needs the binding of its    *)
(* exception type, found with the default loader context.                  *)
(***************************************************************************)
Clauses(thrown, handlers) ==
    IF Contains(handlers, thrown)
    THEN SubSeq(handlers, 1, CHOOSE i \in 1..Len(handlers) : handlers[i] = thrown)
    ELSE handlers
Catch(t, thrown, handlers) ==
    Become(t, [Top(t) EXCEPT !.thrown = thrown, !.todo = Clauses(thrown, handlers)])

MatchException(t) ==
    /\ stack[t] # <<>> /\ Top(t).thrown # NoThrow /\ Top(t).todo # <<>>
    /\ ~failed[t] /\ MayCall(t)
    /\ PushOn(t, [Top(t) EXCEPT !.todo = Tail(@)], GetFrame(Head(Top(t).todo), "none"))
    /\ UNCHANGED <<finds, cells, jvm, calls>>

(* The `?` of a catch clause: the binding of the exception type is not to be had. *)
MatchFails(t) ==
    /\ stack[t] # <<>> /\ Top(t).thrown # NoThrow
    /\ failed[t]
    /\ Leave(t, TRUE)
    /\ UNCHANGED <<finds, cells, jvm, calls>>

AfterContext(f) == IF f.via = "object" THEN "candidate_loader" ELSE "vm"

(* Mutant: any failure of a loader sends the search on to the next one. *)
MatchedFallsThrough(t) ==
    /\ stack[t] # <<>> /\ Top(t).thrown # NoThrow /\ Top(t).todo = <<>>
    /\ ~failed[t]
    /\ LET f == [Top(t) EXCEPT !.thrown = NoThrow] IN
       CASE f.pc \in {"context_loader", "context"} -> Become(t, [f EXCEPT !.pc = AfterContext(f)])
         [] f.pc \in {"candidate_loader", "candidate"} -> Become(t, [f EXCEPT !.pc = "vm"])
         [] OTHER -> Leave(t, TRUE)
    /\ UNCHANGED <<finds, cells, jvm, calls>>

(***************************************************************************)
(* What the matching clause does: no loader means the next stage; a loader *)
(* that knows no such class does too, but for one given by name; any other *)
(* exception is an error of the whole search.                              *)
(***************************************************************************)
Matched(t) ==
    /\ stack[t] # <<>> /\ Top(t).thrown # NoThrow /\ Top(t).todo = <<>>
    /\ ~failed[t]
    /\ LET f == [Top(t) EXCEPT !.thrown = NoThrow] IN
       \/ /\ f.pc = "context_loader" \/ (f.pc = "context" /\ Top(t).thrown = NotFound)
          /\ Become(t, [f EXCEPT !.pc = AfterContext(f)])
       \/ /\ f.pc = "candidate_loader" \/ (f.pc = "candidate" /\ Top(t).thrown = NotFound)
          /\ Become(t, [f EXCEPT !.pc = "vm"])
       \/ /\ f.pc \in {"given", "vm"} \/ (f.pc \in {"context", "candidate"} /\ Top(t).thrown # NotFound)
          /\ Leave(t, TRUE)
    /\ UNCHANGED <<finds, cells, jvm, calls>>

(* lookup_tccl_with_catch *)
GetContextLoader(t) ==
    /\ At(t, "context_loader")
    /\ IF t \in Throwing THEN Catch(t, Security, <<Security>>) ELSE Goto(t, "context")
    /\ UNCHANGED <<finds, cells, jvm, calls>>

(* The loader of the candidate object's class, unless asking for it throws *)
GetCandidateLoader(t) ==
    /\ At(t, "candidate_loader")
    /\ IF t \in Throwing THEN Catch(t, Security, <<Security>>) ELSE Goto(t, "candidate")
    /\ UNCHANGED <<finds, cells, jvm, calls>>

Ask(t, loader, handlers) ==
    LET answer == finds[loader][Top(t).type] IN
    IF answer \in Classes
    THEN Become(t, [Top(t) EXCEPT !.class = answer, !.pc = "set"])
    ELSE Catch(t, answer, handlers)

(* load_class_with_catch: Class.forName *)
LoadClass(t) ==
    /\ \/ At(t, "context") /\ Ask(t, ContextLoader[t], LoadHandlers)
       \/ (At(t, "candidate") \/ At(t, "given")) /\ Ask(t, OtherLoader, LoadHandlers)
    /\ UNCHANGED <<finds, cells, jvm, calls>>

(* Env::find_class *)
FindClass(t) ==
    /\ At(t, "vm")
    /\ Ask(t, "vm", FindHandlers)
    /\ UNCHANGED <<finds, cells, jvm, calls>>

-------------------------------------------------------------------------------
LookupStep(t) ==
    \/ ReadApi(t) \/ ReadClass(t) \/ SetClass(t) \/ GetFails(t)
    \/ RegisterNatives(t) \/ LookupIds(t) \/ Publish(t) \/ CallNative(t) \/ EndClinit(t)
    \/ MatchException(t) \/ MatchFails(t) \/ Matched(t)
    \/ GetContextLoader(t) \/ GetCandidateLoader(t) \/ LoadClass(t) \/ FindClass(t)

LookupNext == \E t \in Threads :
    \/ LookupStep(t)
    \/ \E type \in Types : JavaUses(t, type) \/ \E via \in Contexts : LookUp(t, type, via)

(* The scheduler runs every thread; nobody has to call anything. *)
LookupSpec ==
    InitLookup /\ [][LookupNext]_lookupVars /\ \A t \in Threads : WF_lookupVars(LookupStep(t))

-------------------------------------------------------------------------------
(* Properties *)

(***************************************************************************)
(* Every user of a type works with one class: whatever loaders the racing  *)
(* threads have used, the published method IDs are those of the class in   *)
(* CLASS, and it is the one whose native methods were registered.          *)
(***************************************************************************)
BindingsAgree ==
    \A y \in Types : apiCell[y] # NoClass =>
        apiCell[y] = classCell[y] /\ apiCell[y] \in registered

(***************************************************************************)
(* Native methods are registered before a static initialiser that calls    *)
(* them can start, also when Java code is first to use the class.          *)
(***************************************************************************)
NativesBeforeInit ==
    \A y \in CallsBack : \A c \in {finds[l][y] : l \in Loaders} \intersect Classes :
        c \in initialised \/ initialiser[c] # Nobody => c \in registered

(* The first answer that is not ClassNotFoundException, in the given order *)
FirstAnswer(type, order) ==
    LET known == {i \in 1..Len(order) : finds[order[i]][type] # NotFound}
        first == CHOOSE i \in known : \A j \in known : i <= j
    IN IF known = {} THEN NotFound ELSE finds[order[first]][type]

(* The loaders a context stands for, as the documentation of LoaderContext has it *)
Order(t, via) ==
    IF via = "loader" THEN <<OtherLoader>>
    ELSE IF t \in Throwing THEN <<"vm">>
    ELSE IF via = "object" THEN <<ContextLoader[t], OtherLoader, "vm">>
    ELSE <<ContextLoader[t], "vm">>

(***************************************************************************)
(* The chain of loaders: the class that is loaded is the answer of the     *)
(* first loader in the documented order that knows the name, and no loader *)
(* is asked after one that failed in another way.                          *)
(***************************************************************************)
FirstLoaderWins ==
    \A t \in Threads : \A i \in 1..Len(stack[t]) :
        stack[t][i].pc = "set" =>
            stack[t][i].class = FirstAnswer(stack[t][i].type, Order(t, stack[t][i].via))

(***************************************************************************)
(* A lookup ends: threads that look up the same type, initialise its class *)
(* and come back from its static initialiser never wait for each other in  *)
(* a circle, because no cell is locked while the JVM is asked.             *)
(***************************************************************************)
EveryLookupEnds == \A t \in Threads : stack[t] # <<>> ~> stack[t] = <<>>

===============================================================================
