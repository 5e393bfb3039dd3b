--------------------------------- MODULE Calls ---------------------------------
(***************************************************************************)
(* Calls into the JVM: the methods of Env for classes, methods, fields,    *)
(* throwing and registration, and the constructors, methods and fields     *)
(* that bind_java_type! generates.                                         *)
(*                                                                         *)
(* Every one of them is a sequence of steps: a requirement (an assertion   *)
(* or an early return), the lookup of a class or of a binding, or a JNI    *)
(* function behind one of the macros of macros.rs.  An operator with the   *)
(* name of the method gives its steps for one input; the actions below     *)
(* take them.  The thread calls again and again, so that an exception left *)
(* pending by one call is met by the next.                                 *)
(***************************************************************************)
EXTENDS Naturals, Sequences

CONSTANTS Methods,      \* names of the methods that are called
          ClassForms    \* ways to name a class: "ref", "name", "null"

ASSUME ClassFormsAssumption == "ref" \in ClassForms /\ ClassForms \subseteq {"ref", "name", "null"}

VARIABLES
    method,    \* the method that runs, or "none"
    in,        \* its input
    todo,      \* the steps it has left
    class,     \* what the class argument or the object's class stands for by now
    id,        \* the class the method or field ID was looked up in
    pending,   \* "none", "old": from before this call, "new": thrown by this call
    before,    \* was an exception pending when the call began
    autos,     \* local references that are deleted when the call ends
    locals,    \* other local references the call has created
    result,
    misuse     \* what the JVM was given that it must not be given

vars == <<method, in, todo, class, id, pending, before, autos, locals, result, misuse>>

Objects == {"null", "object"}
SigTypes == {"int", "object", "array"}
ValueTypes == {"int", "char", "object", "void"}
ReturnTypes == {"int", "object", "void"}
Input == [obj : Objects, class : ClassForms, binding : {"cached", "new"}, top : BOOLEAN,
          type : SigTypes, value : ValueTypes, ret : ReturnTypes, counts : BOOLEAN]
Results == {"none", "ok", "JavaException", "NullPtr", "refused", "caught", "no frame",
            "panic", "WrongObjectType", "JniCall"}

IsObject(type) == type \in {"object", "array"}

-------------------------------------------------------------------------------
(* Steps *)

StepType ==
    [do : {"require", "class", "binding", "clear", "jvm"}, holds : BOOLEAN,
     error : {"none", "panic", "NullPtr", "refused"},
     needs : SUBSET {"class", "id", "object", "throwable", "wrong value"}, safe : BOOLEAN,
     after : {"none", "check", "catch"},
     gives : {"value", "local", "nonnull", "checked", "status", "auto", "object class", "id",
              "exception", "instance", "throwable", "thrown"}]
Step(do) == [do |-> do, holds |-> TRUE, error |-> "none", needs |-> {}, safe |-> FALSE,
             after |-> "none", gives |-> "value"]
Require(condition, error) == [Step("require") EXCEPT !.holds = condition, !.error = error]

(***************************************************************************)
(* A JNI function: the arguments it needs, what follows the call ("check": *)
(* an exception is left pending and reported; "catch": it is cleared and   *)
(* mapped to an error; "none": it throws nothing) and what it gives.       *)
(***************************************************************************)
Jvm(needs, after, gives) == [Step("jvm") EXCEPT !.needs = needs, !.after = after, !.gives = gives]
Safe(gives) == [Step("jvm") EXCEPT !.safe = TRUE, !.gives = gives]

AssertTop(i) == Require(i.top, "panic")
NullCheck(i) == Require(i.obj # "null", "NullPtr")
NullCheckClass(i) == Require(i.class # "null", "NullPtr")
LookupClass == Step("class")
LookupBinding == Step("binding")
LookupId == Jvm({"class"}, "catch", "id")

(* JValue::primitive_type is None for an object alone, void is a primitive type. *)
Fits(i) == IF IsObject(i.type) THEN i.value = "object" ELSE i.value = i.type
CheckArgs(i) == <<Require(i.counts, "refused"), Require(Fits(i), "refused")>>

(* type_is_compatible_with(java_type): a class of arrays is one of objects. *)
Compatible(i) == i.type = i.value \/ (IsObject(i.type) /\ IsObject(i.value))

(* The values a JNI function is given, for a signature they may not fit *)
Misfit(i) == IF Compatible(i) THEN {} ELSE {"wrong value"}

(* A call by return type, a read by field type: only objects make a reference. *)
Given(type) == IF IsObject(type) THEN "local" ELSE "value"

-------------------------------------------------------------------------------
(* Classes and objects *)

GetSuperclass(i) == <<AssertTop(i), LookupClass, Jvm({"class"}, "none", "local")>>
IsAssignableFrom(i) ==
    <<LookupClass, NullCheckClass(i), LookupClass, NullCheckClass(i),
      Jvm({"class"}, "none", "value")>>
IsInstanceOf(i) == <<LookupClass, NullCheckClass(i), Jvm({"class"}, "none", "value")>>
IsSameObject(i) == <<Jvm({}, "none", "value")>>
DefineClass(i) == <<Require(i.counts, "refused"), AssertTop(i), Jvm({}, "catch", "nonnull")>>
(* Mutant: exceptions are reported and not caught. *)
AllocObjectUncaught(i) == <<AssertTop(i), LookupClass, Jvm({"class"}, "check", "nonnull")>>
AllocObject(i) == <<AssertTop(i), LookupClass, Jvm({"class"}, "catch", "nonnull")>>
GetObjectClass(i) == <<AssertTop(i), NullCheck(i), Jvm({"object"}, "none", "local")>>
(* get_object_class(obj)?.auto() *)
ObjectClass(i) == <<AssertTop(i), NullCheck(i), Jvm({"object"}, "none", "object class")>>
RegisterNativeMethods(i) == <<LookupClass, Jvm({"class"}, "catch", "status")>>
UnregisterNativeMethods(i) == <<LookupClass, Jvm({"class"}, "check", "status")>>
NewDirectByteBuffer(i) == <<AssertTop(i), NullCheck(i), Jvm({"object"}, "catch", "nonnull")>>
GetDirectBufferAddress(i) == <<NullCheck(i), Jvm({"object"}, "none", "checked")>>
GetDirectBufferCapacity(i) == <<NullCheck(i), Jvm({"object"}, "none", "status")>>
GetArrayLength(i) == <<NullCheck(i), Jvm({"object"}, "none", "value")>>
NewObjectArray(i) == <<AssertTop(i), LookupClass, Jvm({"class"}, "check", "nonnull")>>
EnsureLocalCapacity(i) == <<Require(i.counts, "refused"), Jvm({}, "none", "status")>>
FromJniStr(i) == <<AssertTop(i), Jvm({}, "catch", "nonnull")>>
ExceptionOccurred(i) == <<AssertTop(i), Safe("exception")>>
ExceptionClear(i) == <<Step("clear")>>

(* IDs.  The unchecked calls below look them up by class, name and signature. *)
GetMethodId(i) == <<LookupClass, LookupId>>
GetStaticMethodId(i) == <<LookupClass, LookupId>>
GetFieldId(i) == <<LookupClass, LookupId>>
GetStaticFieldId(i) == <<LookupClass, LookupId>>
ToReflectedMethod(i) ==
    <<AssertTop(i), LookupClass, LookupId, Jvm({"class", "id"}, "check", "nonnull")>>

-------------------------------------------------------------------------------
(* Methods *)

CallMethodUnchecked(i) ==
    <<AssertTop(i), LookupId, Jvm({"object", "id"} \union Misfit(i), "check", Given(i.ret))>>
CallStaticMethodUnchecked(i) ==
    <<AssertTop(i), LookupId, Jvm({"class", "id"} \union Misfit(i), "check", Given(i.ret))>>
CallNonvirtualMethodUnchecked(i) ==
    <<AssertTop(i), LookupId, Jvm({"object", "class", "id"} \union Misfit(i), "check", Given(i.ret))>>
NewObjectUnchecked(i) == <<AssertTop(i), Jvm({"class", "id"} \union Misfit(i), "check", "nonnull")>>

CallMethod(i) ==
    <<AssertTop(i), NullCheck(i)>> \o CheckArgs(i) \o ObjectClass(i) \o CallMethodUnchecked(i)
CallStaticMethod(i) ==
    <<AssertTop(i)>> \o CheckArgs(i) \o <<LookupClass>> \o CallStaticMethodUnchecked(i)
CallNonvirtualMethod(i) ==
    <<AssertTop(i), NullCheck(i)>> \o CheckArgs(i) \o <<LookupClass>>
    \o CallNonvirtualMethodUnchecked(i)
NewObject(i) ==
    <<AssertTop(i)>> \o CheckArgs(i)
    \o <<Require(i.ret = "void", "refused"), LookupClass, LookupId>> \o NewObjectUnchecked(i)

-------------------------------------------------------------------------------
(* Fields *)

GetFieldUnchecked(i) ==
    <<AssertTop(i), NullCheck(i),
      Jvm({"object", "id"}, IF IsObject(i.type) THEN "check" ELSE "none", Given(i.type))>>
SetFieldUnchecked(i) ==
    <<Require(i.value # "void", "refused"), LookupId, Jvm({"object", "id"} \union Misfit(i), "none", "value")>>
GetStaticFieldUnchecked(i) ==
    <<AssertTop(i), LookupId, Jvm({"class", "id"}, "check", Given(i.type))>>
SetStaticFieldUnchecked(i) == <<LookupId, Jvm({"class", "id"} \union Misfit(i), "none", "value")>>

GetField(i) ==
    <<AssertTop(i), NullCheck(i)>> \o ObjectClass(i) \o <<LookupId>> \o GetFieldUnchecked(i)
SetField(i) ==
    <<NullCheck(i), Require(Compatible(i), "refused")>> \o ObjectClass(i) \o SetFieldUnchecked(i)
GetStaticField(i) == <<AssertTop(i), LookupClass>> \o GetStaticFieldUnchecked(i)
(* Mutant: the value may be of any type. *)
SetStaticFieldOfAnyType(i) == <<LookupClass>> \o SetStaticFieldUnchecked(i)
SetStaticField(i) ==
    <<Require(Compatible(i), "refused"), LookupClass>> \o SetStaticFieldUnchecked(i)

-------------------------------------------------------------------------------
(* Throwing *)

(* A throwable given as a reference, or made from a class and a message *)
Throw(i) == <<Jvm({"throwable"}, "none", "thrown")>>
WithMessage(i) == [i EXCEPT !.type = "object", !.value = "object", !.ret = "void", !.counts = TRUE]
(* Mutant: the message is a plain local reference. *)
ExceptionDescKeepsMessage(i) ==
    FromJniStr(i) \o NewObject(WithMessage(i)) \o <<Jvm({}, "none", "throwable")>>
ExceptionDesc(i) ==
    <<AssertTop(i), Jvm({}, "catch", "auto")>> \o NewObject(WithMessage(i))
    \o <<Jvm({}, "none", "throwable")>>
ThrowDesc(i) == ExceptionDesc(i) \o <<Jvm({}, "none", "thrown")>>
(* throw_new and throw_new_void *)
ThrowNew(i) ==
    <<LookupClass, LookupBinding, NullCheckClass(i), Jvm({"class"}, "none", "instance"), Jvm({"class"}, "none", "thrown")>>

-------------------------------------------------------------------------------
(* Code generated by bind_java_type!: argument types are checked by rustc. *)

(* `if env.exception_check()`: a pre-check that is a step of its own *)
PreCheck == Jvm({}, "none", "value")
GeneratedConstructor(i) ==
    <<LookupBinding, PreCheck, AssertTop(i), Jvm({"id"}, "check", "local")>>

Generated(i, needs, type, isStatic) ==
    <<LookupBinding, PreCheck>>
    \o (IF isStatic THEN <<>> ELSE <<NullCheck(i)>>)
    \o (IF IsObject(type) THEN <<AssertTop(i)>> ELSE <<>>)
    \o <<Jvm(needs, "check", Given(type))>>
GeneratedMethod(i) == Generated(i, {"object", "id"}, i.ret, FALSE)
GeneratedStaticMethod(i) == Generated(i, {"id"}, i.ret, TRUE)
GeneratedNonNullMethod(i) ==
    <<LookupBinding, PreCheck, NullCheck(i), AssertTop(i), Jvm({"object", "id"}, "check", "nonnull")>>
GeneratedGetter(i) == Generated(i, {"object", "id"}, i.type, FALSE)
GeneratedStaticGetter(i) == Generated(i, {"id"}, i.type, TRUE)
GeneratedSetter(i) == <<LookupBinding, PreCheck, NullCheck(i), Jvm({"object", "id"}, "check", "value")>>
GeneratedStaticSetter(i) == <<LookupBinding, PreCheck, Jvm({"id"}, "check", "value")>>

MethodNames ==
    {"get_superclass", "is_assignable_from", "is_instance_of", "is_same_object", "define_class",
     "alloc_object", "get_object_class", "register_native_methods", "unregister_native_methods",
     "new_direct_byte_buffer", "get_direct_buffer_address", "get_direct_buffer_capacity",
     "get_array_length", "new_object_array", "ensure_local_capacity", "from_jni_str",
     "exception_occurred", "exception_clear", "get_method_id", "get_static_method_id",
     "get_field_id", "get_static_field_id", "to_reflected_method", "call_method",
     "call_static_method", "call_nonvirtual_method", "new_object", "get_field", "set_field",
     "get_static_field", "set_static_field", "throw", "throw_desc", "throw_new",
     "generated constructor", "generated method", "generated static method",
     "generated non_null method", "generated getter", "generated static getter",
     "generated setter", "generated static setter"}
ASSUME MethodsAssumption == Methods \subseteq MethodNames

Program(m, i) ==
    CASE m = "get_superclass" -> GetSuperclass(i)
      [] m = "is_assignable_from" -> IsAssignableFrom(i)
      [] m = "is_instance_of" -> IsInstanceOf(i)
      [] m = "is_same_object" -> IsSameObject(i)
      [] m = "define_class" -> DefineClass(i)
      [] m = "alloc_object" -> AllocObject(i)
      [] m = "get_object_class" -> GetObjectClass(i)
      [] m = "register_native_methods" -> RegisterNativeMethods(i)
      [] m = "unregister_native_methods" -> UnregisterNativeMethods(i)
      [] m = "new_direct_byte_buffer" -> NewDirectByteBuffer(i)
      [] m = "get_direct_buffer_address" -> GetDirectBufferAddress(i)
      [] m = "get_direct_buffer_capacity" -> GetDirectBufferCapacity(i)
      [] m = "get_array_length" -> GetArrayLength(i)
      [] m = "new_object_array" -> NewObjectArray(i)
      [] m = "ensure_local_capacity" -> EnsureLocalCapacity(i)
      [] m = "from_jni_str" -> FromJniStr(i)
      [] m = "exception_occurred" -> ExceptionOccurred(i)
      [] m = "exception_clear" -> ExceptionClear(i)
      [] m = "get_method_id" -> GetMethodId(i)
      [] m = "get_static_method_id" -> GetStaticMethodId(i)
      [] m = "get_field_id" -> GetFieldId(i)
      [] m = "get_static_field_id" -> GetStaticFieldId(i)
      [] m = "to_reflected_method" -> ToReflectedMethod(i)
      [] m = "call_method" -> CallMethod(i)
      [] m = "call_static_method" -> CallStaticMethod(i)
      [] m = "call_nonvirtual_method" -> CallNonvirtualMethod(i)
      [] m = "new_object" -> NewObject(i)
      [] m = "get_field" -> GetField(i)
      [] m = "set_field" -> SetField(i)
      [] m = "get_static_field" -> GetStaticField(i)
      [] m = "set_static_field" -> SetStaticField(i)
      [] m = "throw" -> Throw(i)
      [] m = "throw_desc" -> ThrowDesc(i)
      [] m = "throw_new" -> ThrowNew(i)
      [] m = "generated constructor" -> GeneratedConstructor(i)
      [] m = "generated method" -> GeneratedMethod(i)
      [] m = "generated static method" -> GeneratedStaticMethod(i)
      [] m = "generated non_null method" -> GeneratedNonNullMethod(i)
      [] m = "generated getter" -> GeneratedGetter(i)
      [] m = "generated static getter" -> GeneratedStaticGetter(i)
      [] m = "generated setter" -> GeneratedSetter(i)
      [] m = "generated static setter" -> GeneratedStaticSetter(i)

-------------------------------------------------------------------------------
TypeOK ==
    /\ method \in Methods \union {"none"}
    /\ in \in Input
    /\ todo \in Seq(StepType)
    /\ class \in {"unknown", "null", "given", "objects"}
    /\ id \in {"unknown", "null", "given", "objects", "binding"}
    /\ pending \in {"none", "old", "new"}
    /\ before \in {"none", "old"}
    /\ autos \in Nat /\ locals \in 0..1
    /\ result \in Results
    /\ misuse \subseteq {"pending", "null object", "null class", "null throwable", "class", "id",
                   "wrong value", "frame"}

AnyInput == [obj |-> "object", class |-> "ref", binding |-> "cached", top |-> TRUE,
             type |-> "object", value |-> "object", ret |-> "object", counts |-> TRUE]

Init ==
    /\ method = "none" /\ in = AnyInput /\ todo = <<>>
    /\ class = "unknown" /\ id = "unknown"
    /\ pending = "none" /\ before = "none"
    /\ autos = 0 /\ locals = 0
    /\ result = "none" /\ misuse = {}

Running == method # "none" /\ result = "none"

Call(m, i) ==
    /\ method' = m /\ in' = i
    /\ todo' = Program(m, i)
    /\ class' = "unknown" /\ id' = "unknown"
    /\ pending' = IF pending = "none" THEN "none" ELSE "old"
    /\ before' = pending'
    /\ autos' = 0 /\ locals' = 0 /\ result' = "none" /\ misuse' = {}

(* A step is done; or the method returns, and drops what is to be deleted. *)
Proceed == todo' = Tail(todo) /\ UNCHANGED <<method, in, before, result>>
Finish(r) ==
    /\ result' = r
    /\ todo' = <<>> /\ autos' = 0
    /\ UNCHANGED <<method, in, before, class, id, locals>>
Now(do) == Running /\ todo # <<>> /\ Head(todo).do = do

RequireStep ==
    /\ Now("require")
    /\ IF Head(todo).holds THEN Proceed /\ UNCHANGED <<class, id, autos, locals>>
                           ELSE Finish(Head(todo).error)
    /\ UNCHANGED <<pending, misuse>>

(***************************************************************************)
(* Desc::lookup.  A reference is the class, also when it is null.  A name  *)
(* is looked up by load_class in a local frame of its own, which needs the *)
(* top frame; its first jni_try! clears whatever exception is pending.     *)
(***************************************************************************)
LookupClassStep ==
    /\ Now("class")
    /\ \/ /\ in.class # "name"
          /\ class' = IF in.class = "null" THEN "null" ELSE "given"
          /\ Proceed /\ UNCHANGED <<id, pending, autos, locals>>
       \/ /\ in.class = "name" /\ ~in.top
          /\ Finish("panic") /\ UNCHANGED pending
       \/ /\ in.class = "name" /\ in.top
          /\ pending' = "none"
          /\ \/ class' = "given" /\ autos' = autos + 1 /\ Proceed /\ UNCHANGED <<id, locals>>
             \/ Finish("caught")
    /\ UNCHANGED misuse

(* API::get, or lookup_class of a bound type: cached, or loaded in the same way *)
LookupBindingStep ==
    /\ Now("binding")
    /\ \/ /\ in.binding = "cached"
          /\ id' = "binding"
          /\ Proceed /\ UNCHANGED <<class, pending, autos, locals>>
       \/ /\ in.binding = "new"
          /\ pending' = "none"
          /\ \/ id' = "binding" /\ Proceed /\ UNCHANGED <<class, autos, locals>>
             \/ Finish("caught")
    /\ UNCHANGED misuse

ClearStep ==
    /\ Now("clear")
    /\ pending' = "none"
    /\ Proceed /\ UNCHANGED <<class, id, autos, locals, misuse>>

MustRefuse(step) == pending # "none" /\ ~step.safe
RefuseStep ==
    /\ Now("jvm") /\ MustRefuse(Head(todo))
    /\ Finish("JavaException")
    /\ UNCHANGED <<pending, misuse>>

(* A static call takes the class of the binding; the ID is from the same class.  A class or an
   ID that is "unknown" has not been looked up. *)
Misused(step) ==
    (IF pending # "none" /\ ~step.safe THEN {"pending"} ELSE {})
    \union (IF "object" \in step.needs /\ in.obj = "null" THEN {"null object"} ELSE {})
    \union (IF "throwable" \in step.needs /\ in.obj = "null" THEN {"null throwable"} ELSE {})
    \union (IF "class" \in step.needs /\ class = "null" THEN {"null class"} ELSE {})
    \union (IF "class" \in step.needs /\ class = "unknown" THEN {"class"} ELSE {})
    \union (IF "id" \in step.needs /\ (id = "unknown" \/ id \notin {class, "binding"}) THEN {"id"} ELSE {})
    \union (step.needs \intersect {"wrong value"})
    \union (IF step.gives \in {"local", "nonnull", "auto", "object class", "exception"} /\ ~in.top
            THEN {"frame"} ELSE {})

(***************************************************************************)
(* An exception is thrown.  To catch it a local frame is pushed, and       *)
(* without one the exception stays pending though another error is         *)
(* reported.                                                               *)
(***************************************************************************)
Throws(step) ==
    \/ /\ step.after = "check"
       /\ pending' = "new" /\ Finish("JavaException")
    \/ /\ step.after = "catch"
       /\ \/ pending' = "none" /\ Finish("caught")
          \/ pending' = "new" /\ Finish("no frame")

Continue(newClass, newId, newAutos, newLocals) ==
    /\ class' = newClass /\ id' = newId
    /\ autos' = autos + newAutos /\ locals' = locals + newLocals
    /\ Proceed /\ UNCHANGED pending

Returns(step) ==
    \/ step.gives \in {"value", "local", "checked", "status", "instance"}
         /\ Continue(class, id, 0, 0)
    \/ step.gives \in {"local", "nonnull"} /\ Continue(class, id, 0, 1)
    \/ step.gives = "auto" /\ Continue(class, id, 1, 0)
    \/ step.gives = "object class" /\ Continue("objects", id, 1, 0)
    \/ step.gives = "id" /\ Continue(class, class, 0, 0)
    \/ step.gives = "exception"
         /\ Continue(class, id, 0, IF pending = "none" THEN 0 ELSE 1)
    \/ step.gives \in {"nonnull", "auto", "checked"} /\ Finish("NullPtr") /\ UNCHANGED pending
    \/ step.gives = "instance" /\ Finish("WrongObjectType") /\ UNCHANGED pending
    \/ step.gives \in {"status", "thrown"} /\ Finish("JniCall") /\ UNCHANGED pending
    \/ step.gives = "thrown" /\ pending' = "new" /\ Finish("JavaException")
    (* cast_local: the object becomes the throwable, or is forgotten *)
    \/ step.gives = "throwable"
         /\ \/ class' = class /\ id' = id /\ autos' = autos + 1 /\ locals' = locals - 1
               /\ Proceed /\ UNCHANGED pending
            \/ Finish("WrongObjectType") /\ UNCHANGED pending

JvmStep ==
    /\ Now("jvm") /\ ~MustRefuse(Head(todo))
    /\ misuse' = misuse \union Misused(Head(todo))
    /\ Throws(Head(todo)) \/ Returns(Head(todo))

EndStep ==
    /\ Running /\ todo = <<>>
    /\ Finish("ok")
    /\ UNCHANGED <<pending, misuse>>

(* The caller has seen the result; it keeps or deletes what it was given. *)
Return ==
    /\ method # "none" /\ result # "none"
    /\ method' = "none" /\ in' = AnyInput
    /\ class' = "unknown" /\ id' = "unknown"
    /\ before' = "none" /\ locals' = 0 /\ result' = "none" /\ misuse' = {}
    /\ UNCHANGED <<todo, pending, autos>>

Next ==
    \/ method = "none" /\ \E m \in Methods, i \in Input : Call(m, i)
    \/ RequireStep \/ LookupClassStep \/ LookupBindingStep \/ ClearStep
    \/ RefuseStep \/ JvmStep \/ EndStep \/ Return

Spec == Init /\ [][Next]_vars

-------------------------------------------------------------------------------
(* Properties *)

(***************************************************************************)
(* No JNI function is called with an exception pending (but those that may *)
(* be), on a null object, with a class or an ID that was not looked up,    *)
(* with an ID of another class, with a value of another type than the      *)
(* signature says, or to make a local reference in a frame that is not the *)
(* one of the Env.  A null class, and a null to be thrown, are not refused.*)
(***************************************************************************)
JvmCalledRight == misuse \subseteq {"null class", "null throwable"}

(***************************************************************************)
(* When a method returns, the only local reference it leaves is the object *)
(* it returns; an error leaves none.  An object that throw has made of a   *)
(* class that is no Throwable is the exception.                            *)
(***************************************************************************)
LocalsAccounted ==
    result # "none" =>
        /\ autos = 0
        /\ IF result = "ok" THEN locals \in {0, 1}
           ELSE locals = IF method = "throw_desc" /\ result = "WrongObjectType" THEN 1 ELSE 0

(* The methods whose documentation says that they catch exceptions *)
Catching == {"define_class", "alloc_object", "get_method_id", "get_static_method_id",
             "get_field_id", "get_static_field_id", "from_jni_str"}

(***************************************************************************)
(* JavaException says that an exception is pending, and an exception that  *)
(* a call has thrown and left pending is reported so, but for one that     *)
(* could not be caught for want of a local frame.  A method that catches   *)
(* exceptions reports JavaException only for one that was pending before.  *)
(***************************************************************************)
ExceptionsReported ==
    result # "none" =>
        /\ result = "JavaException" => pending # "none"
        /\ pending = "new" => result \in {"JavaException", "no frame"}
        /\ result = "JavaException" /\ method \in Catching => before = "old"

(***************************************************************************)
(* A call made while an exception is pending leaves it pending; only       *)
(* exception_clear and catching it take it away.  The documentation of     *)
(* Env::throw has it that most JNI calls return JavaException until the    *)
(* exception is cleared.                                                   *)
(***************************************************************************)
PendingKept ==
    result # "none" /\ before = "old" /\ method # "exception_clear" => pending = "old"
===============================================================================
