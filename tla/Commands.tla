------------------------------ MODULE Commands ------------------------------
(***************************************************************************)
(* How the line of a chat command is taken apart into arguments              *)
(* (src/core/commands.c, command_parser.c).  A line is a sequence of words;   *)
(* a token is one word, or all the words that are left where the command is   *)
(* greedy.                                                                   *)
(***************************************************************************)
EXTENDS Credentials, SequencesExt

CONSTANT Reads           \* Reads[code]: the tokens a lookup of that kind finds

TypeOfCode(code) ==
  CASE code \in {"u", "i"} -> "user" [] code = "a" -> "address" [] code = "r" -> "range"
    [] code \in {"n", "m", "p"} -> "string" [] code = "c" -> "command" [] code = "C" -> "credentials"
    [] code = "N" -> "integer"

ErrorOfCode(code) ==
  CASE code = "u" -> "arg_nick" [] code = "i" -> "arg_cid" [] code \in {"a", "r"} -> "arg_address"
    [] code = "c" -> "arg_command" [] code = "C" -> "arg_cred" [] code = "N" -> "arg_number"

Found(code, token) == code \in {"n", "m", "p"} \/ token \in Reads[code]

\* The token a '?' or a '+' leaves for the next code; << >> is none.
KeptToken(code, greedy, token) == IF code = "+" /\ ~ greedy THEN << >> ELSE token

FirstOf(words) == IF words = << >> THEN << >> ELSE <<Head(words)>>

\* One turn of the loop per code; held is a token no code has used up yet.
RECURSIVE ExtractLoop(_, _, _)
ExtractLoop(codes, words, s) ==
  LET code == Head(codes)
      joins == s.held = << >> /\ s.greedy
      token == IF s.held # << >> THEN s.held ELSE IF joins THEN words ELSE FirstOf(words)
      left == IF joins THEN << >> ELSE words
  IN CASE codes = << >> -> [status |-> "ok", args |-> s.args]
       [] codes # << >> /\ code \in {"?", "+"} ->
            ExtractLoop(Tail(codes), left,
                        [s EXCEPT !.opt = @ \/ code = "?", !.greedy = @ \/ code = "+",
                                  !.held = KeptToken(code, s.greedy, token)])
       [] codes # << >> /\ code \notin {"?", "+"} /\ token = << >> ->
            [status |-> IF s.opt THEN "ok" ELSE "missing_args", args |-> s.args]
       [] codes # << >> /\ code \notin {"?", "+"} /\ token # << >> /\ ~ Found(code, token) ->
            [status |-> ErrorOfCode(code), args |-> s.args]
       [] OTHER ->
            ExtractLoop(Tail(codes), IF s.greedy THEN left ELSE Tail(left),
                        [s EXCEPT !.held = << >>, !.args = Append(@, [type |-> TypeOfCode(code), words |-> token])])

command_extract_arguments(handle, words) ==
  ExtractLoop(handle.args, words, [opt |-> FALSE, greedy |-> FALSE, held |-> << >>, args |-> << >>])

\* command_parse with command_get_handler; line.named is whether a name follows the '!'.
command_parse(table, cred, line) ==
  LET handles == command_handler_lookup(table, line.name)
      handle == CHOOSE h \in handles : TRUE
      Failed(status) == [status |-> status, args |-> << >>]
  IN CASE ~ line.named -> Failed("syntax_error")
       [] line.named /\ handles = {} -> Failed("not_found")
       [] line.named /\ handles # {} /\ ~ command_is_available(handle, cred) -> Failed("access_error")
       [] OTHER -> command_extract_arguments(handle, line.words)

\* The answer of command_invoke: the handler's, or the message of the status.
command_invoke(table, cred, line) ==
  LET Answer(cmd) ==
        CASE cmd.status = "ok" -> [cmd EXCEPT !.status = "ran"]
          [] cmd.status \in {"not_found", "access_error", "missing_args"} -> cmd
          [] OTHER -> [cmd EXCEPT !.status = "syntax_error"]
  IN  Answer(command_parse(table, cred, line))
=============================================================================
