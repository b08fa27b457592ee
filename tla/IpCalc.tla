------------------------------- MODULE IpCalc -------------------------------
(***************************************************************************)
(* src/network/ipcalc.c: addresses, masks and ranges.  An address is its     *)
(* family and its bits, most significant first; the widths are constants, so *)
(* that every address of a small family can be tried.                        *)
(***************************************************************************)
EXTENDS Text

CONSTANTS
  Word,                   \* bits of an IPv4 address (32)
  Byte, Bytes             \* bits of a byte (8), bytes of an IPv6 address (16)

ASSUME WidthAssumption == Word \in Nat \ {0} /\ Byte \in Nat \ {0} /\ Bytes \in Nat \ {0}

Family == {"inet", "inet6"}
Width(af) == IF af = "inet" THEN Word ELSE Byte * Bytes
Addr == UNION {[af : {f}, bits : [1..Width(f) -> {0, 1}]] : f \in Family}
NoAddr == [af |-> "none", bits |-> << >>]      \* a text that is no address

\* The number an address is: ntohl of an IPv4 address.  memcmp compares IPv6
\* addresses in the same order.
RECURSIVE NumberOf(_)
NumberOf(bits) ==
  IF Len(bits) = 0 THEN 0 ELSE 2 * NumberOf(Front(bits)) + Last(bits)
Value(a) == NumberOf(a.bits)

\* Int32(x): x mod 2^w as a signed integer of w bits.
Signed(x, w) == LET r == x % 2^w IN IF r >= 2^(w - 1) THEN r - 2^w ELSE r

\* ip_is_valid_ipv4, a character at a time: o is the octet so far, n the number
\* of its digits and d the number of dots.
RECURSIVE ScanIpv4(_, _, _, _)
ScanIpv4(s, o, n, d) ==
  LET octet == n # 0 /\ n <= 3 /\ o <= 255
  IN IF s = << >> THEN octet /\ d = 3
     ELSE IF is_num(Head(s)) THEN ScanIpv4(Tail(s), o * 10 + DigitValue(Head(s)), n + 1, d)
     ELSE Head(s) = "." /\ octet /\ ScanIpv4(Tail(s), 0, 0, d + 1)

ip_is_valid_ipv4(s) == Len(s) <= 15 /\ Len(s) >= 7 /\ ScanIpv4(s, 0, 0, 0)

\* ip_mask_create_left: bits ones from the left; an IPv6 mask is made byte by
\* byte, the last one partly.
ip_mask_create_left(af, bits) ==
  [af |-> af,
   bits |-> [i \in 1..Width(af) |->
     IF af = "inet" THEN IF i <= bits THEN 1 ELSE 0
     ELSE LET n == (i - 1) \div Byte
              k == (i - 1) % Byte
          IN IF n < bits \div Byte \/ (n = bits \div Byte /\ k < bits % Byte) THEN 1 ELSE 0]]

\* ip_mask_create_right: bits ones from the right.
ip_mask_create_right(af, bits) ==
  [af |-> af,
   bits |-> [i \in 1..Width(af) |->
     IF af = "inet" THEN IF i > Word - bits THEN 1 ELSE 0
     ELSE LET n == (Width(af) - i) \div Byte
              k == (Width(af) - i) % Byte
          IN IF n < bits \div Byte \/ (n = bits \div Byte /\ k < bits % Byte) THEN 1 ELSE 0]]

ip_mask_apply_AND(a, m) == [a EXCEPT !.bits = [i \in DOMAIN @ |-> IF @[i] = 1 /\ m.bits[i] = 1 THEN 1 ELSE 0]]
ip_mask_apply_OR(a, m) == [a EXCEPT !.bits = [i \in DOMAIN @ |-> IF @[i] = 1 \/ m.bits[i] = 1 THEN 1 ELSE 0]]

\* ip_compare.  The difference of two IPv4 addresses is unsigned and is stored in
\* an int: it loses its sign when the two are 2^31 or more apart.
ip_compare(a, b) ==
  IF a.af = "inet" THEN Signed(Value(a) - Value(b), Word) ELSE Value(a) - Value(b)

ip_in_range(a, range) ==
  /\ a.af = range.lo.af
  /\ ip_compare(range.lo, a) <= 0
  /\ ip_compare(a, range.hi) <= 0

Clamp(x, lo, hi) == IF x < lo THEN lo ELSE IF x > hi THEN hi ELSE x

NoRange == [lo |-> NoAddr, hi |-> NoAddr]

\* check_ip_mask
check_ip_mask(a, mask) ==
  LET maxbits == Width(a.af)
      bits == Clamp(mask, 0, maxbits)
      lo == ip_mask_apply_AND(a, ip_mask_create_left(a.af, bits))
  IN IF a = NoAddr THEN NoRange
     ELSE [lo |-> lo, hi |-> ip_mask_apply_OR(lo, ip_mask_create_right(a.af, maxbits - bits))]

\* check_ip_range: both of one family.
check_ip_range(lo, hi) ==
  IF lo # NoAddr /\ hi # NoAddr /\ lo.af = hi.af THEN [lo |-> lo, hi |-> hi] ELSE NoRange

\* ip_convert_address_to_range.  The text is an address, address/mask or
\* address-address; the addresses stand for their texts, the mask is a text.
ip_convert_address_to_range(text) ==
  CASE text.sep = "/" ->
         LET mask == uhub_atoi(text.mask)
         IN IF mask = 0 /\ (text.mask = << >> \/ text.mask[1] # "0") THEN NoRange
            ELSE check_ip_mask(text.addr, mask)
    [] text.sep = "-" -> check_ip_range(text.addr, text.addr2)
    [] OTHER -> [lo |-> text.addr, hi |-> text.addr]

\* ip_convert_address: the family a listening address is bound with, "none" if it
\* cannot be used.  any and loopback have a form in either family.
ip_convert_address(text, ipv6sup) ==
  IF text \in {"any", "loopback"} THEN IF ipv6sup THEN "inet6" ELSE "inet"
  ELSE IF text = "v6" THEN IF ipv6sup THEN "inet6" ELSE "none"
  ELSE IF text = "v4" THEN "inet" ELSE "none"
=============================================================================
