-------------------------------- MODULE Mangling --------------------------------
(***************************************************************************)
(* The names by which the JVM finds an exported native method, as the      *)
(* attribute jni_mangle makes them: the Java name from the name of the     *)
(* Rust function, and the symbol from the class, the method and the        *)
(* arguments, one character after the other.  bind_java_type! and          *)
(* native_method! call the same two functions.                             *)
(***************************************************************************)
EXTENDS Sequences, Naturals

CONSTANTS
    Items,         \* attributes with the item they are on: [attribute, kind, name, abi, public]
    Digits,        \* ASCII digits
    AsciiLetters,
    Uppers,        \* characters in upper case
    UpperOf,       \* characters in lower case to the text that is their upper case
    HexOf          \* characters that are not ASCII letters or digits to their number in hexadecimal

Alphanumeric == Digits \union AsciiLetters
Characters == Alphanumeric \union DOMAIN HexOf \union {"_"}
Punctuation == {".", "/", ";", "[", "(", ")"}
Escapes == {"0", "1", "2", "3"}

ASSUME CharactersAssumption ==
    /\ Escapes \subseteq Digits /\ Punctuation \subseteq DOMAIN HexOf
    /\ {"_", "separator", "open"} \intersect (Alphanumeric \union DOMAIN HexOf) = {}
    /\ DOMAIN HexOf \intersect Alphanumeric = {}
    /\ \A c \in DOMAIN HexOf : HexOf[c] \in Seq(Alphanumeric) /\ Len(HexOf[c]) >= 4
    /\ \A c, d \in DOMAIN HexOf : HexOf[c] = HexOf[d] => c = d
    /\ \A c \in DOMAIN UpperOf : UpperOf[c] \in Seq(Characters \ (Punctuation \union {"_"})) \ {<<>>}
    /\ "_" \notin DOMAIN UpperOf
ASSUME ItemsAssumption ==
    \A x \in Items : x.attribute \in Seq(Seq(Characters)) /\ x.name \in Seq(Characters)

VARIABLES
    item,        \* what the attribute is on
    stage,       \* "attribute", "camel", "name", "mangle"; "exported", "refused" or "panicked"
    place,       \* of the character the loop is at
    capitalize,  \* the next character that is not a digit is capitalized
    javaName,    \* the name of the Java method
    origin,      \* the place in the Rust name that each of its characters comes from
    source,      \* what the symbol is made of
    symbol,      \* as far as it is mangled, without the "Java_" it begins with
    begins       \* where in the symbol each character of the source begins

mangleVars == <<item, stage, place, capitalize, javaName, origin, source, symbol, begins>>

CharsOf(s) == {s[i] : i \in 1..Len(s)}

InitMangle ==
    /\ item \in Items /\ stage = "attribute" /\ place = 1 /\ capitalize = FALSE
    /\ javaName = <<>> /\ origin = <<>> /\ source = <<>> /\ symbol = <<>> /\ begins = <<>>

-------------------------------------------------------------------------------
(* jni_mangle2 *)

(* FORBIDDEN_CHARS is what may be nowhere in a namespace; a backtick, which is one, is not
   a character of the models. *)
Forbidden == {" ", ",", ":", ";", "|", "\\", "/", "!", "@", "#", "%", "^", "&", "*", "(", ")",
              "{", "}", "[", "]", "-", "~", "\t", "\n", "\r"}
ValidNamespace(s) ==
    /\ CharsOf(s) \intersect Forbidden = {}
    /\ s # <<>> /\ s[Len(s)] # "."
    /\ \A i \in 1..Len(s) : (i = 1 \/ s[i - 1] = ".") => s[i] \notin Digits \union {"."}

(* A second argument of two is a signature if it has a "(". *)
Derived(args) == Len(args) = 1 \/ (Len(args) = 2 /\ "(" \in CharsOf(args[2]))
Signature(args) ==
    IF Len(args) = 3 THEN args[3] ELSE IF Len(args) = 2 /\ Derived(args) THEN args[2] ELSE <<>>

(***************************************************************************)
(* snake_case_to_lower_camel_case returns a name that has a letter in upper*)
(* case or nothing but underscores as it is.                               *)
(***************************************************************************)
KeptAsIs(s) == CharsOf(s) \intersect Uppers # {} \/ CharsOf(s) \subseteq {"_"}

ParseAttribute ==
    /\ stage = "attribute"
    /\ LET args == item.attribute IN
       IF item.kind # "fn" \/ Len(args) \notin 1..3 \/ ~ValidNamespace(args[1])
       THEN stage' = "refused" /\ UNCHANGED <<javaName, origin>>
       ELSE IF ~Derived(args)
       THEN stage' = "name" /\ javaName' = args[2] /\ UNCHANGED origin
       ELSE IF KeptAsIs(item.name)
       THEN stage' = "name" /\ javaName' = item.name /\ origin' = [i \in 1..Len(item.name) |-> i]
       ELSE stage' = "camel" /\ UNCHANGED <<javaName, origin>>
    /\ UNCHANGED <<item, place, capitalize, source, symbol, begins>>

-------------------------------------------------------------------------------
(* snake_case_to_lower_camel_case *)

Leading(s, i) == \A j \in 1..i : s[j] = "_"
Trailing(s, i) == \A j \in i..Len(s) : s[j] = "_"

Push(text) ==
    javaName' = javaName \o text /\ origin' = origin \o [i \in 1..Len(text) |-> place]

(***************************************************************************)
(* One leading underscore goes, trailing ones stay, and what follows any   *)
(* other is capitalized, behind digits.                                    *)
(***************************************************************************)
CamelStep ==
    /\ stage = "camel" /\ place <= Len(item.name)
    /\ LET c == item.name[place] IN
       IF Leading(item.name, place)
       THEN Push(IF place = 1 THEN <<>> ELSE <<"_">>) /\ UNCHANGED capitalize
       ELSE IF c = "_" /\ ~Trailing(item.name, place)
       THEN capitalize' = TRUE /\ UNCHANGED <<javaName, origin>>
       ELSE IF capitalize /\ c \notin Digits \union {"_"}
       THEN Push(IF c \in DOMAIN UpperOf THEN UpperOf[c] ELSE <<c>>) /\ capitalize' = FALSE
       ELSE Push(<<c>>) /\ UNCHANGED capitalize
    /\ place' = place + 1
    /\ UNCHANGED <<item, stage, source, symbol, begins>>

CamelEnd ==
    /\ stage = "camel" /\ place > Len(item.name)
    /\ stage' = "name" /\ place' = 1
    /\ UNCHANGED <<item, capitalize, javaName, origin, source, symbol, begins>>

-------------------------------------------------------------------------------
(* create_jni_fn_name *)

Token(c, inArgs) == [char |-> c, args |-> inArgs]
Identifier(s) == [i \in 1..Len(s) |-> Token(IF s[i] = "." THEN "separator" ELSE s[i], FALSE)]
Arguments(s) == [i \in 1..Len(s) |-> Token(IF s[i] = "/" THEN "separator" ELSE s[i], TRUE)]
FirstAt(s, c, i) == s[i] = c /\ \A j \in 1..(i - 1) : s[j] # c

(* The class, the method and what the first parentheses of a signature have between them;
   a slice that ends before it begins is a panic. *)
Assemble ==
    /\ stage = "name"
    /\ LET sig == Signature(item.attribute)
           name == Identifier(item.attribute[1]) \o <<Token("separator", FALSE)>> \o Identifier(javaName)
       IN  \/ /\ {"(", ")"} \subseteq CharsOf(sig)
              /\ \E i, j \in 1..Len(sig) :
                    /\ FirstAt(sig, "(", i) /\ FirstAt(sig, ")", j)
                    /\ IF j < i THEN stage' = "panicked" /\ UNCHANGED source
                       ELSE /\ stage' = "mangle"
                            /\ source' = name \o <<Token("open", TRUE)>> \o Arguments(SubSeq(sig, i + 1, j - 1))
           \/ ~({"(", ")"} \subseteq CharsOf(sig)) /\ stage' = "mangle" /\ source' = name
    /\ UNCHANGED <<item, place, capitalize, javaName, origin, symbol, begins>>

(* mangle_identifier and mangle_signature_args, with the underscores between the parts *)
(* Mutant: the underscores of a name are left as they are. *)
MangleCharPlain(t) ==
    CASE t.char \in {"separator", "_"} -> <<"_">>
      [] t.char = "open" -> <<"_", "_">>
      [] t.args /\ t.char = ";" -> <<"_", "2">>
      [] t.args /\ t.char = "[" -> <<"_", "3">>
      [] t.char \in Alphanumeric -> <<t.char>>
      [] OTHER -> <<"_", "0">> \o HexOf[t.char]
MangleChar(t) ==
    CASE t.char = "separator" -> <<"_">>
      [] t.char = "open" -> <<"_", "_">>
      [] t.char = "_" -> <<"_", "1">>
      [] t.args /\ t.char = ";" -> <<"_", "2">>
      [] t.args /\ t.char = "[" -> <<"_", "3">>
      [] t.char \in Alphanumeric -> <<t.char>>
      [] OTHER -> <<"_", "0">> \o HexOf[t.char]

MangleStep ==
    /\ stage = "mangle" /\ place <= Len(source)
    /\ symbol' = symbol \o MangleChar(source[place])
    /\ begins' = Append(begins, Len(symbol) + 1)
    /\ place' = place + 1
    /\ UNCHANGED <<item, stage, capitalize, javaName, origin, source>>

(* The function must be public, and its ABI "system" or left open. *)
Export ==
    /\ stage = "mangle" /\ place > Len(source)
    /\ stage' = IF item.abi \in {"unset", "unnamed", "system"} /\ item.public THEN "exported" ELSE "refused"
    /\ UNCHANGED <<item, place, capitalize, javaName, origin, source, symbol, begins>>

MangleNext == ParseAttribute \/ CamelStep \/ CamelEnd \/ Assemble \/ MangleStep \/ Export

MangleSpec == InitMangle /\ [][MangleNext]_mangleVars

-------------------------------------------------------------------------------
(* Properties *)

(***************************************************************************)
(* How the JNI specification reads what is at i in a symbol, and where the *)
(* next begins: four digits after "_0"; two underscores before the         *)
(* arguments unless an escape begins at the second.                        *)
(***************************************************************************)
SymbolAt(m, i) == IF i \in 1..Len(m) THEN m[i] ELSE "end"
Unescape(digits) == IF \E c \in DOMAIN HexOf : HexOf[c] = digits
                    THEN CHOOSE c \in DOMAIN HexOf : HexOf[c] = digits ELSE "?"
ReadAt(m, i) ==
    CASE m[i] # "_" -> [char |-> m[i], next |-> i + 1]
      [] m[i] = "_" /\ SymbolAt(m, i + 1) = "0" ->
            [char |-> Unescape(SubSeq(m, i + 2, i + 5)), next |-> i + 6]
      [] m[i] = "_" /\ SymbolAt(m, i + 1) = "1" -> [char |-> "_", next |-> i + 2]
      [] m[i] = "_" /\ SymbolAt(m, i + 1) = "2" -> [char |-> ";", next |-> i + 2]
      [] m[i] = "_" /\ SymbolAt(m, i + 1) = "3" -> [char |-> "[", next |-> i + 2]
      [] m[i] = "_" /\ SymbolAt(m, i + 1) = "_" /\ SymbolAt(m, i + 2) \notin Escapes ->
            [char |-> "open", next |-> i + 2]
      [] OTHER -> [char |-> "separator", next |-> i + 1]

(* The Java name is one, the arguments have no empty segment, and no segment that begins with
   a digit.  The code has seen to that for the class. *)
LegalMethod ==
    /\ javaName # <<>> /\ javaName[1] \notin Digits /\ "." \notin CharsOf(javaName)
    /\ \A k \in 1..Len(source) - 1 :
          source[k].args /\ source[k].char \in {"separator", "open"} =>
              source[k + 1].char \notin Digits \union {"separator"}

(* The characters beyond U+FFFF have more than four digits. *)
FourDigits == \A k \in 1..Len(source) :
    source[k].char \in DOMAIN HexOf => Len(HexOf[source[k].char]) = 4

(* No underscore but trailing ones, or it has capitals: a name in lower camel case *)
Settled(s) ==
    \/ CharsOf(s) \intersect Uppers # {}
    \/ \A i, j \in 1..Len(s) : i < j /\ s[i] = "_" => s[j] = "_"

(* Letter by letter, the Java name is the Rust name without its underscores. *)
LettersKept ==
    /\ Len(origin) = Len(javaName)
    /\ \A j, k \in 1..Len(origin) : j < k => origin[j] <= origin[k]
    /\ \A j \in 1..Len(origin) :
          LET c == item.name[origin[j]] IN
          javaName[j] = c \/ (c \in DOMAIN UpperOf /\ javaName[j] \in CharsOf(UpperOf[c]))
    /\ \A i \in 1..Len(item.name) : item.name[i] # "_" => i \in CharsOf(origin)

(***************************************************************************)
(* The symbol is read back as the very class, method and arguments, so no  *)
(* two native methods have one, and the JVM looks for the symbol that is   *)
(* exported; save for the characters beyond U+FFFF.  The Java name made    *)
(* from a Rust name has all its letters and digits; one made from a name   *)
(* without a leading underscore would not be changed again.                *)
(***************************************************************************)
NamesRight ==
    /\ stage \in {"mangle", "exported"} /\ LegalMethod /\ FourDigits =>
          /\ begins # <<>> => begins[1] = 1
          /\ \A k \in 1..Len(begins) :
                ReadAt(symbol, begins[k]) =
                    [char |-> source[k].char,
                     next |-> IF k < Len(begins) THEN begins[k + 1] ELSE Len(symbol) + 1]
    /\ stage = "exported" => Len(begins) = Len(source)
    /\ stage \in {"name", "mangle", "exported"} /\ Derived(item.attribute) =>
          /\ LettersKept
          /\ item.name # <<>> /\ item.name[1] # "_" => Settled(javaName)
          /\ Settled(item.name) => javaName = item.name
===============================================================================
