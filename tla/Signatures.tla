------------------------------- MODULE Signatures -------------------------------
(***************************************************************************)
(* JNI signatures are parsed twice: at run time (RuntimeMethodSignature,   *)
(* RuntimeFieldSignature of jni) and, for a string literal in jni_sig!, at *)
(* compile time (jni-macros), by two parsers that share no code.  A text   *)
(* is a sequence of characters, of which "I" stands for every primitive    *)
(* type but void; a type is where it begins in the text.                   *)
(***************************************************************************)
EXTENDS Sequences, Integers

CONSTANTS Alphabet, Literals      \* the texts that are parsed, of these characters
ASSUME LiteralsAssumption == Literals \subseteq Seq(Alphabet)

VARIABLES
    text,
    parser,      \* "method" and "field" at run time, "macro" at compile time, or "none"
    doing,       \* "start", "args", "return", "field"; "accepted" or "refused"
    rest,        \* where what is not yet read begins
    typeAt,      \* where the type that is read begins
    object,      \* the "L" of the class name that is read, 0 if there is none
    slice,       \* the end of the slice of the text that is read
    arguments    \* where the types of the arguments begin

sigVars == <<text, parser, doing, rest, typeAt, object, slice, arguments>>

Semicolon == ";"
End == Len(text) + 1
Opens(s) == s # <<>> /\ s[1] = "("
Dotted(s) == \E i \in 1..Len(s) : s[i] = "."
First(s, c, i) == s[i] = c /\ \A j \in 1..i - 1 : s[j] # c
Here(c) == rest < slice /\ text[rest] = c

InitSignature ==
    /\ text \in Literals /\ parser \in {"method", "field", "macro"} /\ doing = "start"
    /\ rest = 1 /\ typeAt = 1 /\ object = 0 /\ slice = End /\ arguments = {}

Refuse == doing' = "refused" /\ UNCHANGED <<text, parser, rest, typeAt, object, slice, arguments>>

-------------------------------------------------------------------------------
(* parse_args, the parsers of raw method and field signatures *)

(* What is in the parentheses; for the macro they end at the first ")". *)
BeginMethod ==
    /\ doing = "start" /\ Opens(text)
    /\ \/ parser = "method" /\ slice' = slice
       \/ parser = "macro" /\ ~Dotted(text) /\ \E i \in 1..Len(text) : First(text, ")", i) /\ slice' = i
    /\ doing' = "args" /\ rest' = 2 /\ typeAt' = 2
    /\ UNCHANGED <<text, parser, object, arguments>>

BeginField ==
    /\ doing = "start"
    /\ parser = "field" \/ (parser = "macro" /\ ~Dotted(text) /\ ~Opens(text))
    /\ doing' = "field"
    /\ UNCHANGED <<text, parser, rest, typeAt, object, slice, arguments>>

(* parse_signature: a literal with a dot is the name of a class, whatever else is in it. *)
TakeClass ==
    /\ doing = "start" /\ parser = "macro" /\ Dotted(text)
    /\ doing' = "accepted"
    /\ UNCHANGED <<text, parser, rest, typeAt, object, slice, arguments>>

NoParentheses ==
    /\ doing = "start"
    /\ \/ parser = "method" /\ ~Opens(text)
       \/ parser = "macro" /\ ~Dotted(text) /\ Opens(text) /\ ~\E i \in 1..Len(text) : text[i] = ")"
    /\ Refuse

ArgumentsEnd == IF parser = "macro" THEN rest = slice ELSE Here(")")
EndOfArguments ==
    /\ doing = "args" /\ rest = typeAt /\ ArgumentsEnd
    /\ doing' = "return" /\ rest' = rest + 1 /\ typeAt' = rest + 1 /\ slice' = End
    /\ UNCHANGED <<text, parser, object, arguments>>

-------------------------------------------------------------------------------
(* parse_type and parse_raw_jni_type *)

InType == doing \in {"args", "return", "field"} /\ object = 0

(* Nothing follows the type of a field or a return type. *)
TypeEnds(end) ==
    /\ rest' = end /\ object' = 0
    /\ IF doing = "args"
       THEN arguments' = arguments \union {typeAt} /\ typeAt' = end /\ UNCHANGED doing
       ELSE /\ doing' = IF end # End \/ (parser = "macro" /\ doing = "field" /\ text[typeAt] = "V")
                        THEN "refused" ELSE "accepted"
            /\ UNCHANGED <<typeAt, arguments>>
    /\ UNCHANGED <<text, parser, slice>>

Bracket ==
    /\ InType /\ Here("[") /\ rest' = rest + 1
    /\ UNCHANGED <<text, parser, doing, typeAt, object, slice, arguments>>

(* For the macro, void is a type like the others but in an array. *)
(* Mutant: an array of void. *)
VoidAllowedInArray == parser = "macro" \/ doing = "return"
VoidAllowed == rest = typeAt /\ (parser = "macro" \/ doing = "return")
Primitive ==
    /\ InType /\ (Here("I") \/ Here("V"))
    /\ IF Here("V") /\ ~VoidAllowed THEN Refuse ELSE TypeEnds(rest + 1)

NoType ==
    /\ InType /\ ~(doing = "args" /\ rest = typeAt /\ ArgumentsEnd)
    /\ \A c \in {"[", "I", "V", "L"} : ~Here(c)
    /\ Refuse

(* parse_object reads the name character by character. *)
ObjectBegins ==
    /\ InType /\ Here("L") /\ parser # "macro"
    /\ object' = rest /\ rest' = rest + 1
    /\ UNCHANGED <<text, parser, doing, typeAt, slice, arguments>>

SegmentEmpty == rest = object + 1 \/ text[rest - 1] = "/"
Unqualified == rest < slice /\ text[rest] \notin {".", Semicolon, "[", "/"}
NameGoesOn == Unqualified \/ (Here("/") /\ ~SegmentEmpty)
NameEnds == Here(Semicolon) /\ ~SegmentEmpty

ObjectName ==
    /\ doing \in {"args", "return", "field"} /\ object > 0
    /\ \/ /\ NameGoesOn /\ rest' = rest + 1
          /\ UNCHANGED <<text, parser, doing, typeAt, object, slice, arguments>>
       \/ NameEnds /\ TypeEnds(rest + 1)
       \/ ~NameGoesOn /\ ~NameEnds /\ Refuse

(* A name from i up to j whose segments are not empty *)
Segmented(s, i, j) ==
    /\ i < j /\ s[i] # "/" /\ s[j - 1] # "/"
    /\ \A k \in i..j - 2 : ~(s[k] = "/" /\ s[k + 1] = "/")

(* The macro looks for the ";", and any character may be in the name. *)
FirstSemicolon(end) ==
    end \in rest + 1..slice - 1 /\ text[end] = Semicolon /\ \A k \in rest..end - 1 : text[k] # Semicolon
RawObject ==
    /\ InType /\ Here("L") /\ parser = "macro"
    /\ \/ \E end \in rest + 1..slice - 1 :
             FirstSemicolon(end) /\ Segmented(text, rest + 1, end) /\ TypeEnds(end + 1)
       \/ /\ ~\E end \in rest + 1..slice - 1 : FirstSemicolon(end) /\ Segmented(text, rest + 1, end)
          /\ Refuse

SignatureNext ==
    \/ BeginMethod \/ BeginField \/ TakeClass \/ NoParentheses \/ EndOfArguments
    \/ Bracket \/ Primitive \/ NoType \/ ObjectBegins \/ ObjectName \/ RawObject

SignatureSpec == InitSignature /\ [][SignatureNext]_sigVars

(* to_jni_descriptor: the text of a class given with dots *)
SignatureText(s) ==
    <<"L">> \o [i \in 1..Len(s) |-> IF s[i] = "." THEN "/" ELSE s[i]] \o <<Semicolon>>

-------------------------------------------------------------------------------
(* The grammar of the JVM specification (4.3): all parses of a text *)

IsClassName(s, i, j) ==
    Segmented(s, i, j) /\ \A k \in i..j - 1 : s[k] \notin {".", Semicolon, "["}

(* From i up to j is a field descriptor. *)
IsDescriptor(s, i, j) ==
    \E k \in i..j - 1 :
        /\ \A b \in i..k - 1 : s[b] = "["
        /\ \/ s[k] = "I" /\ j = k + 1
           \/ s[k] = "L" /\ s[j - 1] = Semicolon /\ IsClassName(s, k + 1, j - 1)

(* Descriptors begin at these positions and follow each other from i until j. *)
DescriptorsUntil(s, positions, i, j) ==
    /\ i = j \/ i \in positions
    /\ \A p \in positions :
          /\ p < j
          /\ \E q \in positions \union {j} :
                p < q /\ IsDescriptor(s, p, q) /\ \A r \in positions : r <= p \/ q <= r

Descriptors(s) == {p \in 2..Len(s) : \E q \in p + 1..Len(s) : IsDescriptor(s, p, q)}
ReturnTypes(s) ==
    {r \in 3..Len(s) : s[r - 1] = ")" /\ ((s[r] = "V" /\ r = Len(s)) \/ IsDescriptor(s, r, Len(s) + 1))}

(* The arguments with the return type; a field has no arguments *)
MethodParses(s) ==
    {x \in (SUBSET Descriptors(s)) \X ReturnTypes(s) :
        Opens(s) /\ DescriptorsUntil(s, x[1], 2, x[2] - 1)}
FieldParses(s) == IF IsDescriptor(s, 1, Len(s) + 1) THEN {<<{}, 1>>} ELSE {}
Parses ==
    CASE parser = "method" -> MethodParses(text)
      [] parser = "field" -> FieldParses(text)
      [] parser = "macro" -> MethodParses(text) \union FieldParses(text)

(* A character in what may be a class name *)
InName(s, c) ==
    \E i, j \in 1..Len(s) :
        i < j /\ s[i] = "L" /\ s[j] = c /\ \A k \in i..j : s[k] # Semicolon

(* The name of a class of a package, with dots *)
DottedName(s) ==
    /\ Dotted(s) /\ s[1] # "." /\ s[Len(s)] # "."
    /\ \A i \in 1..Len(s) : s[i] \notin {Semicolon, "[", "/"}
    /\ \A i \in 1..Len(s) - 1 : ~(s[i] = "." /\ s[i + 1] = ".")

(***************************************************************************)
(* The parsers of the run time take the texts of the grammar and no other, *)
(* each as the one parse it has.  The parser of the macro agrees, save     *)
(* that it takes void arguments, and class names with a "[" and none with  *)
(* a ")"; a class it is given with dots becomes its descriptor.            *)
(***************************************************************************)
SignaturesRight ==
    /\ parser \in {"method", "field"} =>
          /\ doing = "accepted" => Parses = {<<arguments, typeAt>>}
          /\ doing = "refused" => Parses = {}
    /\ parser = "macro" /\ ~Dotted(text) =>
          /\ doing = "accepted" /\ (\A p \in arguments : text[p] # "V")
                /\ ~InName(text, "[") => Parses = {<<arguments, typeAt>>}
          /\ doing = "refused" /\ ~InName(text, ")") => Parses = {}
    /\ parser = "macro" /\ DottedName(text) /\ doing = "accepted" =>
          FieldParses(SignatureText(text)) = {<<{}, 1>>}
===============================================================================
