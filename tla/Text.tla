-------------------------------- MODULE Text --------------------------------
(***************************************************************************)
(* src/util/misc.c: the string functions the parsers of the hub share.  A    *)
(* string is a sequence of characters (one-character strings), a buffer a    *)
(* sequence of bytes (0..255).                                               *)
(***************************************************************************)
EXTENDS Integers, SequencesExt

White == {" ", "\t", "\r"}
Digits == <<"0", "1", "2", "3", "4", "5", "6", "7", "8", "9">>

is_white_space(c) == c \in White
is_num(c) == c \in Range(Digits)
DigitValue(c) == (CHOOSE i \in DOMAIN Digits : Digits[i] = c) - 1

\* strip_white_space: the text between the first and the last other character.
strip_white_space(s) ==
  LET kept == {i \in DOMAIN s : ~ is_white_space(s[i])}
  IN IF kept = {} THEN << >> ELSE SubSeq(s, Min(kept), Max(kept))

\* strip_off_quotes
strip_off_quotes(s) ==
  IF Len(s) >= 2 /\ Head(s) = Last(s) /\ Head(s) \in {"\"", "'"}
  THEN SubSeq(s, 2, Len(s) - 1) ELSE s

\* strip_off_ini_line_comments.  A # ends the line, a backslash passes the next
\* character through.
RECURSIVE Uncomment(_, _)
Uncomment(s, backslash) ==
  IF s = << >> THEN << >>
  ELSE IF backslash THEN <<Head(s)>> \o Uncomment(Tail(s), FALSE)
  ELSE IF Head(s) = "\\" THEN Uncomment(Tail(s), TRUE)
  ELSE IF Head(s) = "#" THEN << >>
  ELSE <<Head(s)>> \o Uncomment(Tail(s), FALSE)

strip_off_ini_line_comments(line) == Uncomment(line, FALSE)

\* The first position of character c in s, 0 if there is none (strchr); the last
\* one (strrchr).
strchr(s, c) == LET at == {i \in DOMAIN s : s[i] = c} IN IF at = {} THEN 0 ELSE Min(at)
strrchr(s, c) == LET at == {i \in DOMAIN s : s[i] = c} IN IF at = {} THEN 0 ELSE Max(at)

\* split_string without empty elements, for a separator of one character.
RECURSIVE split_string(_, _)
split_string(s, c) ==
  LET at == strchr(s, c)
      piece == IF at = 0 THEN s ELSE SubSeq(s, 1, at - 1)
      rest == IF at = 0 THEN << >> ELSE split_string(SubSeq(s, at + 1, Len(s)), c)
  IN IF piece = << >> THEN rest ELSE <<piece>> \o rest

\* string_split: the stripped pieces that are not empty, each with the number of
\* separators before it.
RECURSIVE SplitFrom(_, _, _)
SplitFrom(s, c, count) ==
  LET at == strchr(s, c)
      piece == strip_white_space(IF at = 0 THEN s ELSE SubSeq(s, 1, at - 1))
      rest == IF at = 0 THEN << >>
              ELSE SplitFrom(SubSeq(s, at + 1, Len(s)), c, count + 1)
  IN IF piece = << >> THEN rest ELSE <<[text |-> piece, count |-> count]>> \o rest

string_split(s, c) == SplitFrom(s, c, 0)

\* uhub_atoi: as many leading characters are skipped as there are characters,
\* anywhere, that are no digits.
RECURSIVE Decimal(_, _)
Decimal(s, val) ==
  IF s = << >> THEN val ELSE Decimal(Tail(s), val * 10 + DigitValue(Head(s)))

uhub_atoi(s) ==
  LET offset == Cardinality({i \in DOMAIN s : ~ is_num(s[i])})
      val == Decimal(SubSeq(s, offset + 1, Len(s)), 0)
  IN IF s # << >> /\ s[1] = "-" THEN - val ELSE val

\* is_number: whether s is one, and its value.
is_number(s) ==
  LET minus == s # << >> /\ s[1] = "-"
      body == IF minus THEN Tail(s) ELSE s
      ok == body # << >> /\ \A i \in DOMAIN body : is_num(body[i])
      val == IF ok THEN Decimal(body, 0) ELSE 0
  IN [ok |-> ok, num |-> IF minus THEN - val ELSE val]

\* string_to_boolean; the comparison of words ignores case.
string_to_boolean(word) ==
  CASE word \in {"1", "on", "yes", "true"} -> 1
    [] word \in {"0", "no", "off", "false"} -> 0
    [] OTHER -> -1
-----------------------------------------------------------------------------
(* UTF-8                                                                       *)

Bit(b, mask) == (b \div mask) % 2 = 1

\* How many continuation bytes the lead byte b announces: the ones among its
\* bits 0x40, 0x20 and 0x10 before the first zero.
Expected(b) ==
  IF ~ Bit(b, 64) THEN 0 ELSE IF ~ Bit(b, 32) THEN 1 ELSE IF ~ Bit(b, 16) THEN 2 ELSE 3

\* Mutant of LeadOk: surrogates are let through.
LeadOk_surrogates(b, next) ==
  LET expect == Expected(b)
  IN /\ expect # 0
     /\ expect = 3 => ~ Bit(b, 8)
     /\ expect = 1 => b >= 194
     /\ expect = 2 => ~ (b = 224 /\ next < 160)
     /\ expect = 3 => ~ (b = 240 /\ next < 144) /\ b <= 244 /\ ~ (b = 244 /\ next > 143)

\* The tests of the lead byte b of a sequence whose second byte is next.
LeadOk(b, next) ==
  LET expect == Expected(b)
  IN /\ expect # 0
     /\ expect = 3 => ~ Bit(b, 8)
     /\ expect = 1 => b >= 194
     /\ expect = 2 => ~ (b = 224 /\ next < 160) /\ ~ (b = 237 /\ next > 159)
     /\ expect = 3 => ~ (b = 240 /\ next < 144) /\ b <= 244 /\ ~ (b = 244 /\ next > 143)

\* is_valid_utf8_str from position pos on, expect continuation bytes due.
RECURSIVE Utf8From(_, _, _)
Utf8From(s, pos, expect) ==
  IF pos > Len(s) THEN TRUE
  ELSE IF expect > 0
  THEN (s[pos] \div 64) = 2 /\ Utf8From(s, pos + 1, expect - 1)
  ELSE IF ~ Bit(s[pos], 128) THEN Utf8From(s, pos + 1, 0)
  ELSE LET due == Expected(s[pos])
       IN /\ pos + due <= Len(s)
          /\ LeadOk(s[pos], IF due = 0 THEN 0 ELSE s[pos + 1])
          /\ Utf8From(s, pos + 1, due)

is_valid_utf8_str(s) == Utf8From(s, 1, 0)

is_printable(b) == (b >= 32 /\ b # 127) \/ b \in {9, 10, 13}
is_printable_utf8(s) == (\A i \in DOMAIN s : is_printable(s[i])) /\ is_valid_utf8_str(s)
-----------------------------------------------------------------------------
(* Base 32: five bits a character; index counts the bits of the current byte   *)
(* that are used up.  A character is its value in BASE32_ALPHABET.             *)

RECURSIVE EncodeFrom(_, _, _)
EncodeFrom(buf, i, index) ==
  IF i > Len(buf) THEN << >>
  ELSE LET next == (index + 5) % 8
           low == (buf[i] % 2^(8 - index)) * 2^next
           high == IF i < Len(buf) THEN buf[i + 1] \div 2^(8 - next) ELSE 0
       IN IF index > 3
          THEN <<low + high>> \o EncodeFrom(buf, i + 1, next)
          ELSE <<(buf[i] \div 2^(8 - (index + 5))) % 32>>
                 \o EncodeFrom(buf, IF next = 0 THEN i + 1 ELSE i, next)

base32_encode(buf) == EncodeFrom(buf, 1, 0)

\* base32_decode into a buffer of len bytes; dst[offset] |= v only ever sets bits
\* that are zero, so it is an addition.
RECURSIVE DecodeFrom(_, _, _, _)
DecodeFrom(src, dst, offset, index) ==
  LET next == (index + 5) % 8
      n == Head(src)
  IN IF src = << >> \/ offset > Len(dst) THEN dst
     ELSE IF index <= 3
     THEN IF next = 0
          THEN DecodeFrom(Tail(src), [dst EXCEPT ![offset] = @ + n], offset + 1, 0)
          ELSE DecodeFrom(Tail(src), [dst EXCEPT ![offset] = @ + n * 2^(8 - next)], offset, next)
     ELSE LET first == [dst EXCEPT ![offset] = @ + n \div 2^next]
          IN IF offset = Len(dst) THEN first
             ELSE DecodeFrom(Tail(src),
                             [first EXCEPT ![offset + 1] = @ + (n % 2^next) * 2^(8 - next)],
                             offset + 1, next)

base32_decode(src, len) == DecodeFrom(src, [i \in 1..len |-> 0], 1, 0)
-----------------------------------------------------------------------------
\* format_size: the quantity shown, its tenth and the unit (a power of 1024).
RECURSIVE Magnitude(_, _)
Magnitude(b, factor) == IF b >= 1024 THEN Magnitude(b \div 1024, factor + 1)
                        ELSE [b |-> b, factor |-> factor]

format_size(bytes) ==
  LET m == Magnitude(bytes, 0)
      unit == 1024^m.factor
      rest == IF m.b < 10 THEN bytes % unit ELSE 0
      tenths == (rest * 10) \div unit
  IN [b |-> m.b, tenth |-> IF tenths >= 10 THEN 9 ELSE tenths, factor |-> m.factor]
=============================================================================
