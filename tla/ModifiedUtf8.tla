------------------------------ MODULE ModifiedUtf8 ------------------------------
(***************************************************************************)
(* Strings for the JVM are in modified UTF-8: the UTF-16 code units of the *)
(* string, each in the shortest form, but NUL in two bytes.  JNIStr checks *)
(* the bytes of a CStr in one pass from the front; JNIString and the macros*)
(* encode the characters of a str one after the other.                     *)
(***************************************************************************)
EXTENDS Sequences, Naturals, FiniteSets

CONSTANTS CStrs,     \* the byte strings that are checked
          Chars,     \* the characters that are encoded
          MaxUnits   \* bound: the code units of an encoded str

(* A CStr has no NUL byte, a str no surrogates. *)
ASSUME CStrsAssumption == CStrs \subseteq Seq(1..255)
ASSUME CharsAssumption == \A c \in Chars : c \in Nat /\ c < 1114112 /\ ~(c >= 55296 /\ c < 57344)
ASSUME UnitsAssumption == MaxUnits \in Nat

VARIABLES
    bytes,     \* of the CStr, or of the str as far as it is encoded
    at,        \* where the next character begins
    starts,    \* where the characters before it begin
    verdict    \* "scanning", "valid", "invalid"; "encoding"; or "none"

utfVars == <<bytes, at, starts, verdict>>

-------------------------------------------------------------------------------
(* The encoding, of one UTF-16 code unit and of Unicode scalar values *)

EncodeUnit(u) ==
    IF u \in 1..127 THEN <<u>>
    ELSE IF u < 2048 THEN <<192 + (u \div 64), 128 + (u % 64)>>
    ELSE <<224 + (u \div 4096), 128 + ((u \div 64) % 64), 128 + (u % 64)>>

High(c) == 55296 + ((c - 65536) \div 1024)
Low(c) == 56320 + ((c - 65536) % 1024)
Encode(c) == IF c < 65536 THEN EncodeUnit(c) ELSE EncodeUnit(High(c)) \o EncodeUnit(Low(c))

(* The unit that one, two or three bytes would stand for *)
UnitOf(s) ==
    CASE Len(s) = 1 -> s[1]
      [] Len(s) = 2 -> ((s[1] % 32) * 64) + (s[2] % 64)
      [] Len(s) = 3 -> ((s[1] % 16) * 4096) + ((s[2] % 64) * 64) + (s[3] % 64)

(* The n bytes from i on are a code unit. *)
UnitAt(s, i, n) ==
    LET part == SubSeq(s, i, i + n - 1) IN i + n - 1 <= Len(s) /\ EncodeUnit(UnitOf(part)) = part

(* Code units begin at these positions and follow each other until i. *)
UnitsUntil(s, i, positions) ==
    /\ i = 1 \/ 1 \in positions
    /\ \A p \in positions : \E n \in 1..3 : UnitAt(s, p, n) /\ p + n \in positions \union {i}

Encodings(s) ==
    {positions \in SUBSET (1..Len(s)) : UnitsUntil(s, Len(s) + 1, positions)}

-------------------------------------------------------------------------------
(* is_valid_mutf8_cstr *)

Continues(b) == b \div 64 = 2          \* b & 0xC0 == 0x80

(***************************************************************************)
(* How many bytes the character at i takes, 0 if it is not valid.          *)
(***************************************************************************)
(* Mutant: the overlong forms of three bytes are taken. *)
WidthOverlong(s, i) ==
    LET b(k) == IF i + k <= Len(s) THEN s[i + k] ELSE 0 IN
    CASE s[i] < 128 -> 1
      [] s[i] = 192 -> IF b(1) = 128 THEN 2 ELSE 0
      [] s[i] \in 194..223 -> IF Continues(b(1)) THEN 2 ELSE 0
      [] s[i] \in 224..239 -> IF Continues(b(1)) /\ Continues(b(2)) THEN 3 ELSE 0
      [] OTHER -> 0
Width(s, i) ==
    LET b(k) == IF i + k <= Len(s) THEN s[i + k] ELSE 0 IN
    CASE s[i] < 128 -> 1
      [] s[i] = 192 -> IF b(1) = 128 THEN 2 ELSE 0
      [] s[i] \in 194..223 -> IF Continues(b(1)) THEN 2 ELSE 0
      [] s[i] = 224 -> IF b(1) \in 160..191 /\ Continues(b(2)) THEN 3 ELSE 0
      [] s[i] \in 225..239 -> IF Continues(b(1)) /\ Continues(b(2)) THEN 3 ELSE 0
      [] OTHER -> 0

InitScan == bytes \in CStrs /\ at = 1 /\ starts = {} /\ verdict = "scanning"

(* One round of the loop *)
ScanStep ==
    /\ verdict = "scanning"
    /\ IF at <= Len(bytes) /\ Width(bytes, at) > 0
       THEN /\ at' = at + Width(bytes, at) /\ starts' = starts \union {at}
            /\ UNCHANGED verdict
       ELSE /\ verdict' = IF at > Len(bytes) THEN "valid" ELSE "invalid"
            /\ UNCHANGED <<at, starts>>
    /\ UNCHANGED bytes

-------------------------------------------------------------------------------
(* encode_mutf8 *)

InitEncode == bytes = <<>> /\ at = 1 /\ starts = {} /\ verdict = "encoding"

EncodeStep(c) ==
    /\ verdict = "encoding" /\ Cardinality(starts) < MaxUnits
    /\ bytes' = bytes \o Encode(c)
    /\ at' = at + Len(Encode(c))
    /\ starts' = starts \union (IF c < 65536 THEN {at} ELSE {at, at + 3})
    /\ UNCHANGED verdict

StringNext == ScanStep \/ \E c \in Chars : EncodeStep(c)

StringSpec == (InitScan \/ InitEncode) /\ [][StringNext]_utfVars

-------------------------------------------------------------------------------
(* Properties *)

(***************************************************************************)
(* The bytes that JNIStr takes are the encodings of code units, lone       *)
(* surrogates among them, and no others; what JNIString and the macros     *)
(* make of a str, which they do not check, is one of them, and has no NUL  *)
(* byte.                                                                   *)
(***************************************************************************)
StringsRight ==
    /\ verdict = "valid" => starts \in Encodings(bytes)
    /\ verdict = "invalid" => Encodings(bytes) = {}
    /\ verdict = "encoding" =>
          /\ bytes \in Seq(1..255)
          /\ starts \subseteq 1..Len(bytes) /\ UnitsUntil(bytes, Len(bytes) + 1, starts)
===============================================================================
