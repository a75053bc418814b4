-------------------------------- MODULE Json --------------------------------
(***************************************************************************)
(* json::load of src/util/crow_all.h and the operations of rvalue that the *)
(* web client calls: has, [], i, lo and s.                                 *)
(*                                                                         *)
(* The bytes are those of HttpParser.  A value is a record: its type, the  *)
(* text of a number or a string, the members of a list or an object, and   *)
(* the key it has in an object.  The parser works on a copy of the bytes   *)
(* that ends with a NUL.                                                   *)
(***************************************************************************)
EXTENDS Integers, Sequences, SequencesExt

CONSTANTS
    MaxDepth,   \* max_depth
    LongBits,   \* bits of int64_t
    IntBits     \* bits of int

Value(type, text) == [t |-> type, text |-> text, l |-> <<>>, key |-> <<>>]
Error == Value("Error", <<>>)

At(data, p) == IF p <= Len(data) THEN data[p] ELSE "NUL"

Spaces == {"SP", "TAB", "CR", "LF"}
HexSeq  == <<"0", "1", "2", "3", "4", "5", "6", "7", "8", "9", "a", "b", "c", "d", "e", "f">>
Decimal == {HexSeq[d] : d \in 1 .. 10}
HexVal(c) == CHOOSE d \in 0 .. 15 : HexSeq[d + 1] = c

(* The first position from p on that holds a byte not in S *)
Beyond(data, p, S) ==
    CHOOSE q \in p .. Len(data) + 1 :
        /\ At(data, q) \notin S \/ q > Len(data)
        /\ \A k \in p .. q - 1 : At(data, k) \in S

Skip(data, p) == Beyond(data, p, Spaces)     \* ws_skip

-----------------------------------------------------------------------------
(* Strings *)

Escapes == {"quote", "backslash", "/", "b", "f", "n"}

Control == [b |-> "BS", f |-> "FF", n |-> "LF"]

(* \uXXXX: a code of four digits *)
HasCode(data, p) == \A k \in p + 1 .. p + 4 : At(data, k) \in {HexSeq[d] : d \in 1 .. 16}
CodeOf(data, p) == HexVal(data[p + 1]) * 4096 + HexVal(data[p + 2]) * 256
                     + HexVal(data[p + 3]) * 16 + HexVal(data[p + 4])

(* The code as the bytes of its UTF-8 form *)
Utf8(code) ==
    LET tail(n) == <<ToString(128 + (n % 64))>>
    IN CASE code >= 2048 -> <<ToString(224 + code \div 4096)>> \o tail(code \div 64)
                              \o tail(code)
         [] code >= 128 /\ code < 2048 -> <<ToString(192 + code \div 64)>> \o tail(code)
         [] OTHER -> <<ToString(code)>>

(* unescape, of bytes decode_string let through *)
Unescape(text) ==
    LET from[p \in 1 .. Len(text) + 1] ==
          CASE p > Len(text) -> <<>>
            [] p <= Len(text) /\ text[p] # "backslash" -> <<text[p]>> \o from[p + 1]
            [] OTHER ->
                 CASE text[p + 1] = "u" -> Utf8(CodeOf(text, p + 1)) \o from[p + 6]
                   [] text[p + 1] \in DOMAIN Control ->
                        <<Control[text[p + 1]]>> \o from[p + 2]
                   [] OTHER -> <<text[p + 1]>> \o from[p + 2]
    IN from[1]

(* Where the string that begins at p ends, 0 if it does not *)
StringEnd(data, p) ==
    LET end[q \in 1 .. Len(data) + 1] ==
          CASE At(data, q) = "quote" -> q
            [] At(data, q) = "NUL" -> 0
            [] At(data, q) = "backslash" ->
                 CASE At(data, q + 1) = "u" -> IF HasCode(data, q + 1) THEN end[q + 6] ELSE 0
                   [] At(data, q + 1) \in Escapes -> end[q + 2]
                   [] OTHER -> 0
            [] OTHER -> end[q + 1]
    IN end[p]

DecodeString(data, p) ==
    IF At(data, p) # "quote" \/ StringEnd(data, p + 1) = 0 THEN [v |-> Error, p |-> p]
    ELSE LET end == StringEnd(data, p + 1)
         IN [v |-> Value("String", SubSeq(data, p + 1, end - 1)), p |-> end + 1]

-----------------------------------------------------------------------------
(* Numbers: the next of the states Minus, AfterMinus, ZeroFirst, Digits,   *)
(* DigitsAfterPoints, E, DigitsAfterE, Invalid, numbered from 0            *)

NumberByte == Decimal \cup {".", "-", "+", "e"}
NumberNext(state, c) ==
    (CASE c = "0"              -> <<2, 2, 7, 3, 4, 6, 6>>
       [] c \in Decimal \ {"0"} -> <<3, 3, 7, 3, 4, 6, 6>>
       [] c = "."              -> <<7, 7, 4, 4, 7, 7, 7>>
       [] c = "-"              -> <<1, 7, 7, 7, 7, 6, 7>>
       [] c = "+"              -> <<7, 7, 7, 7, 7, 6, 7>>
       [] c = "e"              -> <<7, 7, 7, 5, 5, 7, 7>>)[state + 1]

DecodeNumber(data, p) ==
    LET end   == Beyond(data, p, NumberByte)
        text  == SubSeq(data, p, end - 1)
        state == FoldLeft(LAMBDA s, c : IF s = 7 THEN 7 ELSE NumberNext(s, c), 0, text)
    IN IF state \in {2, 3, 4, 6} THEN [v |-> Value("Number", text), p |-> end]
       ELSE [v |-> Error, p |-> p]

-----------------------------------------------------------------------------
(* Values.  A list or an object that has an error ends the parse.          *)
(*                                                                         *)
(* decoded[<<what, p, depth>>] is what is at p, and where it ends: a       *)
(* value, or the rest of a list or of an object with its bracket.          *)

Kinds == {"value", "elements", "members"}

(* An element that ends at q, before the rest of its list or object *)
Followed(data, what, depth, v, q, decoded) ==
    LET container == IF what = "elements" THEN "List" ELSE "Object"
        bracket   == IF what = "elements" THEN "]" ELSE "}"
        rest      == CASE At(data, q) = bracket -> [v |-> Value(container, <<>>), p |-> q + 1]
                       [] At(data, q) = "comma" -> decoded[<<what, Skip(data, q + 1), depth>>]
                       [] OTHER -> [v |-> Error, p |-> q]
    IN IF rest.v.t = "Error" THEN rest ELSE [rest EXCEPT !.v.l = <<v>> \o @]

DecodeElements(data, p, depth, decoded) ==
    LET r == decoded[<<"value", p, depth + 1>>]
    IN IF r.v.t = "Error" THEN r
       ELSE Followed(data, "elements", depth, r.v, Skip(data, r.p), decoded)

DecodeMembers(data, p, depth, decoded) ==
    LET k     == DecodeString(data, p)
        colon == Skip(data, k.p)
        r     == decoded[<<"value", Skip(data, colon + 1), depth + 1>>]
    IN CASE k.v.t = "Error" \/ At(data, colon) # ":" -> [v |-> Error, p |-> p]
         [] OTHER ->
              IF r.v.t = "Error" THEN r
              ELSE Followed(data, "members", depth, [r.v EXCEPT !.key = Unescape(k.v.text)],
                            Skip(data, r.p), decoded)

(* decode_list and decode_object are called one deeper *)
DecodeValue(data, p, depth, decoded) ==
    LET first == Skip(data, p + 1)
    IN CASE At(data, p) \in {"[", "{"} /\ depth + 1 > MaxDepth -> [v |-> Error, p |-> p]
         [] At(data, p) = "[" /\ depth + 1 <= MaxDepth ->
              IF At(data, first) = "]" THEN [v |-> Value("List", <<>>), p |-> first + 1]
              ELSE decoded[<<"elements", first, depth + 1>>]
         [] At(data, p) = "{" /\ depth + 1 <= MaxDepth ->
              IF At(data, first) = "}" THEN [v |-> Value("Object", <<>>), p |-> first + 1]
              ELSE decoded[<<"members", first, depth + 1>>]
         [] At(data, p) = "quote" -> DecodeString(data, p)
         [] At(data, p) = "true" -> [v |-> Value("True", <<>>), p |-> p + 1]
         [] At(data, p) = "null" -> [v |-> Value("Null", <<>>), p |-> p + 1]
         [] OTHER -> DecodeNumber(data, p)

Decode(data) ==
    LET decoded[at \in Kinds \X (1 .. Len(data) + 1) \X (0 .. MaxDepth + 1)] ==
          CASE at[1] = "value"    -> DecodeValue(data, at[2], at[3], decoded)
            [] at[1] = "elements" -> DecodeElements(data, at[2], at[3], decoded)
            [] at[1] = "members"  -> DecodeMembers(data, at[2], at[3], decoded)
    IN decoded[<<"value", Skip(data, 1), 0>>]

(* parse: what follows the value must be the NUL *)
Load(data) ==
    LET r == Decode(data)
    IN IF r.v.t # "Error" /\ At(data, Skip(data, r.p)) # "NUL" THEN Error ELSE r.v

-----------------------------------------------------------------------------
(* The operations of rvalue.  One that throws is given by the condition    *)
(* under which it does not.                                                *)

IsContainer(v) == v.t \in {"List", "Object"}

(* has: of two members with one key, the sort keeps the first in front, as *)
(* long as there are no more than 16: std::sort (2835) is not stable       *)
(* beyond.  A body has three members that matter.                          *)
Places(v, key) == {k \in DOMAIN v.l : v.l[k].key = <<key>>}
Has(v, key) == Places(v, key) # {}
\* mutant: of two members with one key, the last one
Member_Last(v, key) == v.l[CHOOSE k \in Places(v, key) : \A j \in Places(v, key) : j <= k]
Member(v, key) == v.l[CHOOSE k \in Places(v, key) : \A j \in Places(v, key) : k <= j]

(* i: lexical_cast of the text of a number or a string *)
Unsigned(text) == IF text # <<>> /\ text[1] \in {"-", "+"} THEN Tail(text) ELSE text
Magnitude(text) == FoldLeft(LAMBDA n, c : 10 * n + HexVal(c), 0, Unsigned(text))
Integer(text) == IF text # <<>> /\ text[1] = "-" THEN -Magnitude(text) ELSE Magnitude(text)
IsInteger(v) ==
    /\ v.t \in {"Number", "String"}
    /\ Unsigned(v.text) # <<>>
    /\ \A k \in DOMAIN Unsigned(v.text) : Unsigned(v.text)[k] \in Decimal
    /\ Integer(v.text) \in -(2 ^ (LongBits - 1)) .. 2 ^ (LongBits - 1) - 1

(* ... and its conversion to int *)
AsInt(v) ==
    LET n == Integer(v.text) % 2 ^ IntBits
    IN IF n >= 2 ^ (IntBits - 1) THEN n - 2 ^ IntBits ELSE n
=============================================================================
