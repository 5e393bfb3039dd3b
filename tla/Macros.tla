--------------------------------- MODULE Macros ---------------------------------
(***************************************************************************)
(* The macros of jni-macros, one invocation at a time: bind_java_type! and *)
(* native_method! read properties, the attribute jni_mangle an item, and   *)
(* the others a literal: a signature, the bytes of a CStr or the           *)
(* characters of a str.                                                    *)
(***************************************************************************)
EXTENDS NativeMethod, ModifiedUtf8, Mangling, Signatures

VARIABLE macro

vars == <<bindVars, nativeVars, utfVars, mangleVars, sigVars, macro>>

InitNoString == bytes = <<>> /\ at = 1 /\ starts = {} /\ verdict = "none"
InitNoItem ==
    /\ item = "none" /\ stage = "none" /\ place = 1 /\ capitalize = FALSE
    /\ javaName = <<>> /\ origin = <<>> /\ source = <<>> /\ symbol = <<>> /\ begins = <<>>

InitNoSignature ==
    /\ text = <<>> /\ parser = "none" /\ doing = "none"
    /\ rest = 1 /\ typeAt = 1 /\ object = 0 /\ slice = 1 /\ arguments = {}

Init ==
    /\ InitBind /\ InitNative
    /\ \/ macro \in {"bind_java_type", "native_method"} /\ InitNoString /\ InitNoItem /\ InitNoSignature
       \/ macro = "jni_mangle" /\ InitNoString /\ InitMangle /\ InitNoSignature
       \/ macro = "signature" /\ InitNoString /\ InitNoItem /\ InitSignature
       \/ macro = "cstr" /\ InitScan /\ InitNoItem /\ InitNoSignature
       \/ macro = "str" /\ InitEncode /\ InitNoItem /\ InitNoSignature

Next ==
    \/ macro = "bind_java_type" /\ BindNext
       /\ UNCHANGED <<nativeVars, utfVars, mangleVars, sigVars, macro>>
    \/ macro = "native_method" /\ NativeNext
       /\ UNCHANGED <<inputVars, code, utfVars, mangleVars, sigVars, macro>>
    \/ MangleNext /\ UNCHANGED <<bindVars, nativeVars, utfVars, sigVars, macro>>
    \/ SignatureNext /\ UNCHANGED <<bindVars, nativeVars, utfVars, mangleVars, macro>>
    \/ StringNext /\ UNCHANGED <<bindVars, nativeVars, mangleVars, sigVars, macro>>

Spec == Init /\ [][Next]_vars
===============================================================================
