----------------------------- MODULE ConfigText -----------------------------
(***************************************************************************)
(* How the hub reads its text files: src/util/config_token.c (the tokens of  *)
(* a line and the key=value settings of a plugin) and the lines of           *)
(* src/core/config.c.                                                        *)
(***************************************************************************)
EXTENDS Text

\* The line reader's state: the tokens so far, the token being read, and the
\* backslash and quote flags.
NoToken == [tokens |-> << >>, buf |-> << >>, backslash |-> FALSE, quote |-> FALSE]

\* RESET_TOKEN and cfg_token_add: an empty token is not kept.
Flush(t) == [t EXCEPT !.tokens = IF t.buf = << >> THEN @ ELSE Append(@, t.buf),
                      !.buf = << >>]

AddChar(t, c) == [t EXCEPT !.buf = Append(@, c)]

\* One character of cfg_tokenize.  A backslash before an ordinary character stays
\* pending until a character that it can escape.
ReadChar(t, c) ==
  CASE c = "\\" -> IF t.backslash THEN [AddChar(t, c) EXCEPT !.backslash = FALSE]
                  ELSE [t EXCEPT !.backslash = TRUE]
    [] c = "#" -> [AddChar(t, c) EXCEPT !.backslash = FALSE]
    [] c = "\"" -> IF t.backslash THEN [AddChar(t, c) EXCEPT !.backslash = FALSE]
                  ELSE [t EXCEPT !.quote = ~ @]
    [] c = "\r" -> t
    [] c \in {" ", "\t"} -> IF t.quote THEN AddChar(t, c)
                            ELSE IF t.backslash THEN [AddChar(t, c) EXCEPT !.backslash = FALSE]
                            ELSE Flush(t)
    [] OTHER -> AddChar(t, c)

\* cfg_tokenize: a # that is neither quoted nor escaped ends the line.
RECURSIVE TokenizeFrom(_, _)
TokenizeFrom(line, t) ==
  IF line = << >> \/ (Head(line) = "#" /\ ~ t.backslash /\ ~ t.quote)
  THEN Flush(t).tokens
  ELSE TokenizeFrom(Tail(line), ReadChar(t, Head(line)))

cfg_tokenize(line) == TokenizeFrom(line, NoToken)

NoSetting == [key |-> << >>, value |-> << >>]

Before(s, i) == SubSeq(s, 1, i - 1)
After(s, i) == SubSeq(s, i + 1, Len(s))

\* cfg_settings_split: the key and the value of a key=value setting, NoSetting if
\* the line is not one.  The = may stand inside either token or be one itself.
SplitTokens(line, tok) ==
  LET one == strchr(tok[1], "=")
      two == strchr(tok[2], "=")
      key1 == strip_white_space(Before(tok[1], one))
  IN CASE strchr(line, "=") = 0 \/ tok = << >> -> NoSetting
       [] Len(tok) = 1 ->
            IF one = 0 \/ key1 = << >> THEN NoSetting
            ELSE [key |-> key1, value |-> strip_white_space(After(tok[1], one))]
       [] Len(tok) = 2 ->
            IF one # 0
            THEN IF key1 = << >> THEN NoSetting ELSE [key |-> key1, value |-> tok[2]]
            ELSE IF two = 0 THEN NoSetting
            ELSE [key |-> tok[1], value |-> strip_white_space(After(tok[2], two))]
       [] Len(tok) = 3 ->
            IF tok[2] = <<"=">>
            THEN [key |-> strip_white_space(tok[1]), value |-> strip_white_space(tok[3])]
            ELSE NoSetting
       [] OTHER -> NoSetting
cfg_settings_split(line) == SplitTokens(line, cfg_tokenize(line))

\* config_parse_line: "skip" for an empty line, "error" for one without a key or
\* without a =, and otherwise what apply_config is called with.
config_parse_line(text) ==
  LET line == strip_off_ini_line_comments(text)
      at == strchr(line, "=")
      key == strip_white_space(Before(line, at))
  IN IF line = << >> THEN [res |-> "skip", key |-> << >>, data |-> << >>]
     ELSE IF at = 0 \/ key = << >> THEN [res |-> "error", key |-> << >>, data |-> << >>]
     ELSE [res |-> "apply", key |-> key,
           data |-> strip_off_quotes(strip_white_space(After(line, at)))]
=============================================================================
