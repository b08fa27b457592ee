----------------------------- MODULE AdcMessage -----------------------------
(***************************************************************************)
(* src/adc/message.c: ADC messages.  A message is its text (the cache, with  *)
(* the newline that ends it), the size of the allocation behind it, its      *)
(* source and target and the feature lists of an F message.  Everything the  *)
(* hub asks of a message is answered by searching the text.                  *)
(***************************************************************************)
EXTENDS Text

CONSTANTS
  Base32,                 \* the characters a SID is made of
  Align                   \* sizeof(size_t)

ASSUME AlignAssumption == Align \in Nat \ {0}

NoMsg == [cache |-> << >>, capacity |-> 0, source |-> << >>, target |-> << >>,
          include |-> << >>, exclude |-> << >>]

\* adc_msg_grow: room for size characters and their termination.
adc_msg_grow(msg, size) ==
  LET need == size + 2
  IN IF msg.capacity > size THEN msg
     ELSE [msg EXCEPT !.capacity = need + ((Align - need) % Align)]

adc_msg_cache_append(msg, s) ==
  [adc_msg_grow(msg, Len(msg.cache) + Len(s)) EXCEPT !.cache = @ \o s]

adc_msg_terminate(msg) ==
  IF msg.cache = << >> \/ Last(msg.cache) # "\n" THEN adc_msg_cache_append(msg, <<"\n">>) ELSE msg

adc_msg_unterminate(msg) ==
  IF msg.cache # << >> /\ Last(msg.cache) = "\n" THEN [msg EXCEPT !.cache = Front(@)] ELSE msg

\* adc_msg_get_arg_offset: the length of the command and the SIDs before the
\* arguments; -1 for a type the hub does not know.
adc_msg_get_arg_offset(msg) ==
  CASE msg.cache[1] \in {"U", "C", "I", "H"} -> 4
    [] msg.cache[1] = "B" -> 9
    [] msg.cache[1] = "F" -> 10 + 5 * Len(msg.include) + 5 * Len(msg.exclude)
    [] msg.cache[1] \in {"D", "E"} -> 14
    [] OTHER -> -1

adc_msg_is_empty(msg) == Len(msg.cache) - 1 = adc_msg_get_arg_offset(msg)
-----------------------------------------------------------------------------
(* Parsing                                                                     *)

\* msg_check_escapes: every backslash is followed by a backslash, n or s.
RECURSIVE msg_check_escapes(_)
msg_check_escapes(s) ==
  LET at == strchr(s, "\\")
  IN at # 0 => /\ at < Len(s)
               /\ s[at + 1] \in {"\\", "n", "s"}
               /\ msg_check_escapes(SubSeq(s, at + 2, Len(s)))

\* extract_sid: a space and four base 32 characters from offset start on, with
\* something after them.
extract_sid(line, start) ==
  IF /\ Len(line) > start + 4
     /\ line[start + 1] = " "
     /\ \A i \in 2..5 : line[start + i] \in Base32
  THEN SubSeq(line, start + 2, start + 5) ELSE << >>

\* The feature lists of an F message, from offset n (0-based) on.  A feature that
\* is cut short ends the list and is not counted.
RECURSIVE Features(_, _, _)
Features(line, n, f) ==
  IF n >= Len(line) \/ line[n + 1] \notin {"+", "-"} THEN f
  ELSE IF Len(line) <= n + 5 THEN [f EXCEPT !.seen = TRUE]
  ELSE LET name == SubSeq(line, n + 2, n + 5)
       IN Features(line, n + 5,
                   IF line[n + 1] = "+"
                   THEN [f EXCEPT !.include = Append(@, name), !.seen = TRUE]
                   ELSE [f EXCEPT !.exclude = Append(@, name), !.seen = TRUE])

\* adc_msg_parse of printable text; NoMsg where it returns NULL.
adc_msg_parse(line) ==
  LET type == line[1]
      source == extract_sid(line, 4)
      target == extract_sid(line, 9)
      f == Features(line, 10, [include |-> << >>, exclude |-> << >>, seen |-> FALSE])
      ends == Last(line) = "\n"
      grown == adc_msg_grow(NoMsg, Len(line) + (IF ends THEN 0 ELSE 1))
      msg == adc_msg_terminate([grown EXCEPT
               !.cache = line,
               !.source = IF type \in {"B", "F", "D", "E"} THEN source ELSE << >>,
               !.target = IF type \in {"D", "E"} THEN target ELSE << >>,
               !.include = IF type = "F" THEN f.include ELSE << >>,
               !.exclude = IF type = "F" THEN f.exclude ELSE << >>])
      n == adc_msg_get_arg_offset(msg)
  IN IF \/ Len(line) < 4
        \/ ~ msg_check_escapes(line)
        \/ type \notin {"I", "H", "B", "F", "D", "E"}
        \/ type \in {"B", "F", "D", "E"} /\ source = << >>
        \/ type \in {"D", "E"} /\ target = << >>
        \/ type = "F" /\ ~ f.seen
        \/ n >= Len(line)
        \/ msg.cache[n + 1] \notin {" ", "\n"}
     THEN NoMsg ELSE msg

\* adc_msg_parse_verify: the source has to be the sender's SID.  AAAA is SID 0,
\* which no user has, and is let through.
SidZero == <<"A", "A", "A", "A">>
adc_msg_parse_verify(line, sid, unrestricted) ==
  LET Verified(msg) == IF msg.source \notin {<< >>, SidZero, sid} /\ ~ unrestricted THEN NoMsg ELSE msg
  IN  Verified(adc_msg_parse(line))
-----------------------------------------------------------------------------
(* Building and changing                                                       *)

\* adc_msg_construct: fourcc and room for size characters.
adc_msg_construct(fourcc, size) ==
  [adc_msg_grow(NoMsg, 4 + size + 1) EXCEPT !.cache = Append(fourcc, "\n")]

adc_msg_copy(msg) == [msg EXCEPT !.capacity = adc_msg_grow(NoMsg, Len(msg.cache)).capacity]

adc_msg_add_argument(msg, s) ==
  adc_msg_terminate(adc_msg_cache_append(
    adc_msg_cache_append(adc_msg_unterminate(msg), <<" ">>), s))

\* adc_msg_construct_source and adc_msg_construct_source_dest
adc_msg_construct_source(fourcc, source, size) ==
  [adc_msg_add_argument(adc_msg_construct(fourcc, size + 5), source) EXCEPT !.source = source]
adc_msg_construct_source_dest(fourcc, source, dest, size) ==
  [adc_msg_add_argument(adc_msg_add_argument(adc_msg_construct(fourcc, size + 9), source), dest)
     EXCEPT !.source = source, !.target = dest]

adc_msg_add_named_argument(msg, prefix, s) ==
  adc_msg_terminate(adc_msg_cache_append(adc_msg_cache_append(adc_msg_cache_append(
    adc_msg_unterminate(msg), <<" ">>), prefix), s))

\* Where " XY" stands in the text, from the arguments on (memmem).
Matches(msg, prefix) ==
  {i \in (adc_msg_get_arg_offset(msg) + 1)..(Len(msg.cache) - 2) :
     SubSeq(msg.cache, i, i + 2) = <<" ">> \o prefix}

\* The first space of s after position i, Len(s) + 1 if there is none.
NextSpace(s, i) ==
  LET at == {j \in (i + 1)..Len(s) : s[j] = " "} IN IF at = {} THEN Len(s) + 1 ELSE Min(at)

\* Mutant of RemoveMatches: only the first match goes.
RECURSIVE RemoveMatches_once(_, _)
RemoveMatches_once(msg, prefix) ==
  LET at == Matches(msg, prefix)
      start == Min(at)
  IN IF at = {} THEN msg
     ELSE [msg EXCEPT !.cache = SubSeq(@, 1, start - 1)
                                \o SubSeq(@, NextSpace(@, start), Len(@))]

RECURSIVE RemoveMatches(_, _)
RemoveMatches(msg, prefix) ==
  LET at == Matches(msg, prefix)
      start == Min(at)
  IN IF at = {} THEN msg
     ELSE RemoveMatches([msg EXCEPT !.cache = SubSeq(@, 1, start - 1)
                                              \o SubSeq(@, NextSpace(@, start), Len(@))],
                        prefix)

adc_msg_remove_named_argument(msg, prefix) ==
  adc_msg_terminate(RemoveMatches(adc_msg_unterminate(msg), prefix))

adc_msg_has_named_argument(msg, prefix) == Cardinality(Matches(msg, prefix))

adc_msg_replace_named_argument(msg, prefix, s) ==
  adc_msg_add_named_argument(
    IF adc_msg_has_named_argument(msg, prefix) = 0 THEN msg
    ELSE adc_msg_remove_named_argument(msg, prefix), prefix, s)

\* adc_msg_get_named_argument: the first one; "none" where it returns NULL.
adc_msg_get_named_argument(msg, prefix) ==
  LET at == Matches(msg, prefix)
      start == Min(at) + 3
      text == SubSeq(msg.cache, start, NextSpace(msg.cache, start - 1) - 1)
  IN IF at = {} THEN <<"none">>
     ELSE IF text # << >> /\ Last(text) = "\n" THEN Front(text) ELSE text

\* The arguments as they stand between the spaces.
RECURSIVE Pieces(_)
Pieces(s) ==
  LET at == strchr(s, " ")
  IN IF at = 0 THEN <<s>> ELSE <<SubSeq(s, 1, at - 1)>> \o Pieces(SubSeq(s, at + 1, Len(s)))

Arguments(msg) ==
  LET text == adc_msg_unterminate(msg).cache
  IN Tail(Pieces(SubSeq(text, adc_msg_get_arg_offset(msg), Len(text))))

\* adc_msg_get_argument: argument number offset, counting empty ones; "none"
\* past the end and for an empty one.
adc_msg_get_argument(msg, offset) ==
  LET a == Arguments(msg)
  IN IF offset < Len(a) /\ a[offset + 1] # << >> THEN a[offset + 1] ELSE <<"none">>

adc_msg_get_named_argument_index(msg, prefix) ==
  LET a == Arguments(msg)
      at == {i \in DOMAIN a : Len(a[i]) > 2 /\ SubSeq(a[i], 1, 2) = prefix}
  IN IF at = {} THEN -1 ELSE Min(at) - 1
-----------------------------------------------------------------------------
(* Escapes                                                                     *)

EscapeChar(c) ==
  CASE c = "\\" -> <<"\\", "\\">> [] c = "\n" -> <<"\\", "n">> [] c = " " -> <<"\\", "s">>
    [] OTHER -> <<c>>

adc_msg_escape(s) == FlattenSeq([i \in DOMAIN s |-> EscapeChar(s[i])])
adc_msg_escape_length(s) ==
  Len(s) + Cardinality({i \in DOMAIN s : s[i] \in {" ", "\n", "\\"}})

\* adc_msg_unescape_to_target: at most room characters are written.
RECURSIVE UnescapeFrom(_, _, _, _)
UnescapeFrom(s, escaped, out, room) ==
  IF s = << >> \/ Len(out) >= room THEN out
  ELSE LET c == Head(s)
           real == CASE c = "s" -> " " [] c = "n" -> "\n" [] OTHER -> c
       IN IF escaped THEN UnescapeFrom(Tail(s), FALSE, Append(out, real), room)
          ELSE IF c = "\\" THEN UnescapeFrom(Tail(s), TRUE, out, room)
          ELSE UnescapeFrom(Tail(s), FALSE, Append(out, c), room)

RECURSIVE EscapesIn(_, _)
EscapesIn(s, escaped) ==
  IF s = << >> THEN 0
  ELSE IF escaped THEN EscapesIn(Tail(s), FALSE)
  ELSE IF Head(s) = "\\" THEN 1 + EscapesIn(Tail(s), TRUE) ELSE EscapesIn(Tail(s), FALSE)

adc_msg_unescape_length(s) == Len(s) - EscapesIn(s, FALSE)
adc_msg_unescape(s) == UnescapeFrom(s, FALSE, << >>, adc_msg_unescape_length(s))
=============================================================================
