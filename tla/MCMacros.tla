-------------------------------- MODULE MCMacros --------------------------------
(* A few types of the jni crate, two types and two classes of a program, and members that
   differ from a plain one in a setting or two. *)
EXTENDS Macros

AllNames == {"Own", "Other", "JObject", "JList", "jni::objects::JList",
             "::jni::objects::JList", "jint", "void"}
AllClasses == {"own.Own", "other.Other", "java.util.List", "java.lang.Object"}
Core == {"java.lang.Object"}
Prims == {"int", "void"}
Paths == [n \in {"JObject", "JList", "jni::objects::JList"} |->
             IF n = "JObject" THEN "::jni::objects::JObject" ELSE "::jni::objects::JList"]
BuiltinClasses == [p \in {"::jni::objects::JObject", "::jni::objects::JList"} |->
             IF p = "::jni::objects::JObject" THEN "java.lang.Object" ELSE "java.util.List"]
PrimNames == [n \in {"jint", "void"} |-> IF n = "jint" THEN "int" ELSE "void"]
PrimPaths == [n \in {"jint", "void"} |-> IF n = "jint" THEN "::jni::sys::jint" ELSE "()"]
Bound == {"own.Own", "java.util.List", "java.lang.Object"}

Native == PlainText("native", "void")
TextsOfTypes ==
    {PlainText(kind, type) : kind \in {"method", "field", "native"},
                             type \in {"Own", "Other", "void", "other.Other", "java.util.List"}}
TextsOfSettings ==
    UNION {{[Native EXCEPT !.export = e, !.vis = v], [Native EXCEPT !.extern = v, !.export = e]} :
               e \in {"unset", "no", "auto", "name"}, v \in BOOLEAN}
    \union {[Native EXCEPT !.raw = r, !.policy = p, !.catch = c] :
               r \in BOOLEAN, p \in {"unset", "given"}, c \in {"unset", "yes", "no"}}
    \union {[Native EXCEPT !.abi = "UnsafeNever"], [Native EXCEPT !.fn = TRUE],
            [PlainText("constructor", "void") EXCEPT !.renamed = TRUE],
            PlainText("constructor", "void"), [PlainText("field", "void") EXCEPT !.array = TRUE],
            [PlainText("method", "Own") EXCEPT !.array = TRUE],
            [PlainText("method", "JList") EXCEPT !.nonNull = TRUE],
            [PlainText("method", "jint") EXCEPT !.nonNull = TRUE, !.static = TRUE]}
AllTexts == TextsOfTypes \union TextsOfSettings

(* Every text of a few characters, and longer ones made of types, of what is almost one, and of
   classes with dots. *)
SignatureCharacters == {"(", ")", "V", "I", "[", "L", ";", "/", "."}
ObjectTypes == {<<"L", "I", ";">>, <<"L", ";">>, <<"L", "I", "/", "L", ";">>, <<"L", "/", ";">>,
                <<"L", "I", "/", ";">>, <<"L", "I", "/", "/", "I", ";">>, <<"L", "[", ";">>,
                <<"L", ")", ";">>, <<"L", "I">>, <<"L", "I", ".">>}
Types == ObjectTypes \union {<<>>, <<"I">>, <<"V">>, <<"[">>, <<")">>}
         \union {<<"[">> \o t : t \in ObjectTypes \union {<<"I">>, <<"V">>, <<"[", "I">>}}
ShortTexts == UNION {[1..n -> SignatureCharacters] : n \in 0..4}
MethodTexts == {<<"(">> \o t \o u \o <<")">> \o v : t, u, v \in Types}
ClassTexts == {<<"I", ".">> \o t : t \in [1..3 -> SignatureCharacters]}
AllLiterals == ShortTexts \union MethodTexts \union ClassTexts \union {t \o u : t, u \in Types}

BoundaryBytes == {1, 127, 128, 159, 160, 191, 192, 193, 194, 223, 224, 225, 237, 239, 240}
Boundaries == {0, 1, 127, 128, 2047, 2048, 55295, 57344, 65535, 65536, 1114111}
ShortCStrs == UNION {[1..n -> BoundaryBytes] : n \in 0..4}

(* "sz" is U+00DF, whose upper case is two letters, "T" U+1D40, and "M" U+1D400, which has five
   hexadecimal digits. *)
AllDigits == {"0", "1", "2", "3", "4", "5", "8", "9"}
Letters == {"a", "b", "d", "e", "f", "A", "D", "I", "L", "S"}
UpperLetters == {"A", "D", "I", "L", "S", "M"}
UpperCase == [c \in {"a", "d", "sz"} |->
    CASE c = "a" -> <<"A">> [] c = "d" -> <<"D">> [] c = "sz" -> <<"S", "S">>]
Hexadecimal == [c \in {".", "/", ";", "[", "(", ")", "$", "sz", "T", "M"} |->
    CASE c = "." -> <<"0", "0", "2", "e">> [] c = "/" -> <<"0", "0", "2", "f">>
      [] c = ";" -> <<"0", "0", "3", "b">> [] c = "[" -> <<"0", "0", "5", "b">>
      [] c = "(" -> <<"0", "0", "2", "8">> [] c = ")" -> <<"0", "0", "2", "9">>
      [] c = "$" -> <<"0", "0", "2", "4">> [] c = "sz" -> <<"0", "0", "d", "f">>
      [] c = "T" -> <<"1", "d", "4", "0">> [] c = "M" -> <<"1", "d", "4", "0", "0">>]

(* Functions with every name of a few characters; classes, methods and arguments where one may be
   taken for another; and what is refused. *)
Segments(chars, n) == UNION {[1..k -> chars] : k \in 1..n}
Item(attribute, name) ==
    [attribute |-> attribute, kind |-> "fn", name |-> name, abi |-> "unset", public |-> TRUE]
Class == <<"a">>
Function == <<"a", "_", "a">>
Classes == Segments({"a", "1", "_", "$", "T"}, 2)
           \union {s \o <<".">> \o t : s, t \in Segments({"a", "_"}, 2)}
Methods == Segments({"a", "1", "_", "T"}, 2)
Objects == {<<"L">> \o s \o <<";">> : s \in Segments({"a", "1", "_"}, 2)
               \union {<<"a", "/">> \o t : t \in Segments({"a", "_", "1", "/"}, 2)}}
ArgumentTexts == {<<>>, <<"I", "I">>, <<"1">>, <<"_">>, <<"/">>}
                 \union {b \o o : b \in {<<>>, <<"[">>, <<"I">>}, o \in Objects}
MethodSignatures == {<<"(">> \o a \o <<")", "I">> : a \in ArgumentTexts}
                    \union {<<")", "(">>, <<"(">>, <<"I">>}
AllItems ==
    {Item(<<Class>>, n) : n \in Segments({"a", "1", "_", "A", "sz"}, 5)}
    \union {Item(<<c>>, Function) : c \in Segments({"a", "1", "_", ".", "$", "(", "M"}, 3)}
    \union {Item(<<c, m>>, Function) : c \in Classes,
                m \in Methods \union Segments({"M", "1", "0", ";", ".", "("}, 2)}
    \union {Item(<<c, m, s>>, Function) : c \in {Class, <<"a", "_">>}, m \in Methods, s \in MethodSignatures}
    \union {Item(<<Class, s>>, Function) : s \in MethodSignatures}
    \union {[Item(args, Function) EXCEPT !.abi = abi, !.public = public, !.kind = kind] :
                args \in {<<>>, <<Class>>, <<Class, Class, Class, Class>>},
                abi \in {"unset", "unnamed", "system", "C"}, public \in BOOLEAN, kind \in {"fn", "other"}}
===============================================================================
