------------------------------ MODULE Library ------------------------------
(***************************************************************************)
(* The hub's data structures and text functions, each run against what it    *)
(* stands for.  part says which one a behaviour is about; st is its state    *)
(* and ref the reference: a sequence with a cursor for a list, a set of keys *)
(* for a tree, a text for a buffer, the list of arguments for a message, the  *)
(* bytes that came for a receive buffer.                                     *)
(* For a function, st is its input and its result.                           *)
(***************************************************************************)
EXTENDS LinkedList, RbTree, CBuffer, ConfigText, IpCalc, AdcMessage, RecvBuffer, InfChecks, Settings

CONSTANTS
  Items, MaxNodes,        \* what a list holds; how many nodes there are
  Keys,                   \* the keys of a tree
  MaxText,                \* the longest text of a buffer
  ArgNames, ArgValues,    \* the names and values of a message's arguments
  Fourcc,                 \* the commands messages start with
  MaxArgs,                \* how many arguments a message has
  RecvLimits, MaxStream,  \* values of max_recv_buffer; how many bytes a user sends
  Inputs                  \* Inputs[kind]: the inputs a function is tried with

VARIABLES part, st, ref

libVars == <<part, st, ref>>

Functions_ == DOMAIN Inputs
Structures == {"list", "tree", "buffer", "message", "receive"}
NoResult == << >>

LibInit ==
  \/ /\ part = "list"
     /\ st = NoLists
     /\ ref = [a |-> [seq |-> << >>, pos |-> 0], b |-> [seq |-> << >>, pos |-> 0]]
  \/ /\ part = "tree"
     /\ st = EmptyTree
     /\ ref = {}
  \/ /\ part = "buffer"
     /\ \E capacity \in 0..2 : st = cbuf_create(capacity)
     /\ ref = << >>
  \/ /\ part = "message"
     /\ \E f \in Fourcc, size \in 0..1 : st = adc_msg_construct(f, size)
     /\ ref = << >>
  \/ /\ part = "receive"
     /\ \E max \in RecvLimits : st = ioq_recv_create(max)
     /\ ref = << >>
  \/ \E kind \in Functions_ : \E x \in Inputs[kind] :
       /\ part = kind
       /\ st = [in |-> x, out |-> NoResult]
       /\ ref = << >>
-----------------------------------------------------------------------------
(* Lists.  Nodes(w) are in use; the reference cursor is a position, 0 for NULL. *)

Full == Cardinality(DOMAIN st.node) >= MaxNodes
Seq_(w) == ref[w].seq
Pos(w) == ref[w].pos

Prepend(w, x) ==
  /\ part = "list" /\ ~ Full
  /\ st' = list_prepend(st, w, x)
  /\ ref' = [ref EXCEPT ![w] = [seq |-> <<x>> \o @.seq, pos |-> IF @.pos = 0 THEN 0 ELSE @.pos + 1]]

AppendItem(w, x) ==
  /\ part = "list" /\ ~ Full
  /\ st' = list_append(st, w, x)
  /\ ref' = [ref EXCEPT ![w].seq = Append(@, x)]

\* Into a list that is in order, after every item that is not greater unless it
\* belongs at the very front.
InsertOrdered(w, x) ==
  /\ part = "list" /\ ~ Full
  /\ \A i, j \in DOMAIN Seq_(w) : i < j => Seq_(w)[i] <= Seq_(w)[j]
  /\ st' = list_insert_ordered(st, w, x)
  /\ LET k == IF Seq_(w) = << >> \/ x <= Head(Seq_(w)) THEN 0
              ELSE Cardinality({i \in DOMAIN Seq_(w) : Seq_(w)[i] <= x})
     IN ref' = [ref EXCEPT ![w] = [seq |-> SubSeq(@.seq, 1, k) \o <<x>> \o SubSeq(@.seq, k + 1, Len(@.seq)),
                                   pos |-> IF @.pos > k THEN @.pos + 1 ELSE @.pos]]

AppendList ==
  /\ part = "list"
  /\ st' = list_append_list(st, "a", "b")
  /\ ref' = [a |-> [seq |-> Seq_("a") \o Seq_("b"),
                    pos |-> IF Seq_("a") = << >> THEN Pos("b") ELSE Pos("a")],
             b |-> [seq |-> << >>, pos |-> IF Seq_("b") = << >> THEN Pos("b") ELSE 0]]

RemoveItem(w, x) ==
  /\ part = "list"
  /\ st' = list_remove(st, w, x)
  /\ LET at == {i \in DOMAIN Seq_(w) : Seq_(w)[i] = x}
     IN ref' = [ref EXCEPT ![w] = [seq |-> IF at = {} THEN @.seq ELSE RemoveAt(@.seq, Min(at)), pos |-> 0]]

RemoveEnd(w) ==
  /\ part = "list"
  /\ \/ /\ st' = list_remove_first(st, w)
        /\ ref' = [ref EXCEPT ![w] = [seq |-> IF @.seq = << >> THEN @.seq ELSE Tail(@.seq), pos |-> 0]]
     \/ /\ st' = list_remove_last(st, w)
        /\ ref' = [ref EXCEPT ![w] = [seq |-> IF @.seq = << >> THEN @.seq ELSE Front(@.seq), pos |-> 0]]
     \/ /\ st' = list_clear(st, w)
        /\ ref' = [ref EXCEPT ![w] = [seq |-> << >>, pos |-> 0]]

MoveCursor(w) ==
  /\ part = "list"
  /\ \/ st' = list_get_first(st, w) /\ ref' = [ref EXCEPT ![w].pos = IF Seq_(w) = << >> THEN 0 ELSE 1]
     \/ st' = list_get_last(st, w) /\ ref' = [ref EXCEPT ![w].pos = Len(Seq_(w))]
     \/ st' = list_get_next(st, w) /\ ref' = [ref EXCEPT ![w].pos = IF @ < Len(Seq_(w)) THEN @ + 1 ELSE 0]
     \/ st' = list_get_prev(st, w) /\ ref' = [ref EXCEPT ![w].pos = IF @ = 0 THEN 0 ELSE @ - 1]

ListNext ==
  \/ \E w \in {"a", "b"}, x \in Items : Prepend(w, x) \/ AppendItem(w, x) \/ InsertOrdered(w, x) \/ RemoveItem(w, x)
  \/ \E w \in {"a", "b"} : RemoveEnd(w) \/ MoveCursor(w)
  \/ AppendList
-----------------------------------------------------------------------------
(* Trees, buffers and messages                                                 *)

TreeInsert(k) ==
  /\ part = "tree"
  /\ st' = rb_tree_insert(st, k)
  /\ ref' = ref \cup {k}

TreeRemove(k) ==
  /\ part = "tree"
  /\ st' = rb_tree_remove_node(st, k)
  /\ ref' = ref \ {k}

BufferAppend(s) ==
  /\ part = "buffer" /\ ~ st.const /\ st.size + Len(s) <= MaxText
  /\ st' = cbuf_append(st, s)
  /\ ref' = ref \o s

BufferChange ==
  /\ part = "buffer"
  /\ \/ ~ st.const /\ st' = cbuf_clear(st) /\ ref' = << >>
     \/ /\ st.capacity # 0 /\ st' = cbuf_chomp(st, White)
        /\ ref' = IF ref # << >> /\ Last(ref) \in White THEN Front(ref) ELSE ref
     \/ \E s \in {<<"a">>, <<"a", " ">>} : st' = cbuf_create_const(s) /\ ref' = s

AddArgument(name, value) ==
  /\ part = "message" /\ Len(ref) < MaxArgs
  /\ \/ st' = adc_msg_add_named_argument(st, name, value) /\ ref' = Append(ref, name \o value)
     \/ st' = adc_msg_add_argument(st, value) /\ ref' = Append(ref, value)

Named(a, name) == Len(a) >= 2 /\ SubSeq(a, 1, 2) = name

ReplaceArgument(name, value) ==
  /\ part = "message" /\ Len(ref) <= MaxArgs
  /\ \/ /\ st' = adc_msg_replace_named_argument(st, name, value)
        /\ ref' = Append(SelectSeq(ref, LAMBDA a : ~ Named(a, name)), name \o value)
     \/ /\ st' = adc_msg_remove_named_argument(st, name)
        /\ ref' = SelectSeq(ref, LAMBDA a : ~ Named(a, name))

Receive(data) ==
  /\ part = "receive" /\ st.open /\ Len(ref) + Len(data) <= MaxStream
  /\ Len(data) <= RecvRoom(st) \/ RecvRoom(st) = 0
  /\ st' = handle_net_read(st, data)
  /\ ref' = IF RecvRoom(st) = 0 THEN ref ELSE ref \o data

CopyMessage == part = "message" /\ st' = adc_msg_copy(st) /\ UNCHANGED ref
-----------------------------------------------------------------------------
(* Functions: the result for the chosen input, <<result>> once it is computed.  *)
(* An input the program reads as text is given by what the text means; Quoted,  *)
(* Setting, ConfigLine and Dotted write it down.                                *)

Escaped(s, special) ==
  FlattenSeq([i \in DOMAIN s |-> IF s[i] \in special THEN <<"\\", s[i]>> ELSE <<s[i]>>])
Joined(pieces, sep) ==
  FlattenSeq([i \in DOMAIN pieces |-> IF i = 1 THEN pieces[i] ELSE sep \o pieces[i]])
InQuotes(s) == <<"\"">> \o s \o <<"\"">>

Quoted(tokens) ==
  Joined([i \in DOMAIN tokens |-> InQuotes(Escaped(tokens[i], {"\\", "\""}))], <<" ">>)
Setting(x) == x.key \o x.before \o <<"=">> \o x.after \o x.value
ConfigLine(x) ==
  x.key \o <<" ", "=", " ">> \o InQuotes(Escaped(x.value, {"#", "\\"})) \o <<" ", "#", "x">>
Dotted(octets) == Joined(octets, <<".">>)

AllCommands == commands_builtin_add \cup UNION Range(PluginCommands)

Result(kind, x) ==
  CASE kind = "utf8" -> is_valid_utf8_str(x)
    [] kind = "base32" -> base32_decode(base32_encode(x), Len(x))
    [] kind = "tokens" -> cfg_tokenize(Quoted(x))
    [] kind = "setting" -> cfg_settings_split(Setting(x))
    [] kind = "line" -> config_parse_line(ConfigLine(x))
    [] kind = "ipv4" -> ip_is_valid_ipv4(Dotted(x))
    [] kind = "range" -> LET r == ip_convert_address_to_range(x.text)
                         IN [range |-> r, hit |-> r # NoRange /\ ip_in_range(x.probe, r)]
    [] kind = "parse" -> adc_msg_parse(x)
    [] kind = "escape" -> adc_msg_unescape(adc_msg_escape(x))
    [] kind = "number" -> is_number(x)
    [] kind = "size" -> format_size(x)
    [] kind = "command" -> command_invoke(AllCommands, x.cred, x.line)
    [] kind = "config" -> parse_config(x.plugin, x.settings)
    [] kind = "acl" -> acl_initialize(x)
    [] kind = "welcome" -> welcome_parse_message(x)
    [] kind = "joins" -> joins_parse_message(x)
    [] kind = "cred" -> auth_string_to_cred(auth_cred_to_string(x))
    [] kind = "login" -> InfoLogin(x)
    [] kind = "update" -> InfoUpdate(x)

Compute ==
  /\ part \in Functions_ /\ st.out = NoResult
  /\ st' = [st EXCEPT !.out = <<Result(part, st.in)>>]
  /\ UNCHANGED ref

LibNext ==
  /\ UNCHANGED part
  /\ \/ ListNext
     \/ \E k \in Keys : TreeInsert(k) \/ TreeRemove(k)
     \/ \E s \in {<<"a">>, <<"a", " ">>, << >>} : BufferAppend(s)
     \/ BufferChange
     \/ \E n \in ArgNames, v \in ArgValues : AddArgument(n, v) \/ ReplaceArgument(n, v)
     \/ CopyMessage
     \/ \E n \in 1..3 : \E data \in [1..n -> {"a", "b", "\n"}] : Receive(data)
     \/ Compute
-----------------------------------------------------------------------------
(* What the structures and functions stand for                                 *)

Data(c) == [i \in DOMAIN c |-> st.node[c[i]].ptr]

\* A list is the sequence it stands for, read either way, and owns exactly its
\* nodes; its cursor is at the same place of it.
ListAgrees ==
  LET Fwd(w) == Chain(st.node, st[w].first, "next")
      Bwd(w) == Chain(st.node, st[w].last, "prev")
  IN /\ \A w \in {"a", "b"} :
          /\ Data(Fwd(w)) = Seq_(w)
          /\ Bwd(w) = Reverse(Fwd(w))
          /\ st[w].size = Len(Seq_(w))
          /\ st[w].iterator = IF Pos(w) = 0 THEN Null ELSE Fwd(w)[Pos(w)]
          /\ \A k \in 0..MaxNodes :
               list_get_index(st, w, k) = IF k < Len(Seq_(w)) THEN Seq_(w)[k + 1] ELSE Null
     /\ DOMAIN st.node = Range(Fwd("a")) \cup Range(Fwd("b"))
     /\ Range(Fwd("a")) \cap Range(Fwd("b")) = {}

\* A tree finds exactly its keys, walks them in order, counts them, and is
\* balanced as rb_tree_check demands.
TreeAgrees ==
  /\ \A k \in Keys : rb_tree_get(st, k) <=> k \in ref
  /\ KeysInOrder(st) = SetToSortSeq(ref, <)
  /\ st.elements = Cardinality(ref)
  /\ Cardinality(DOMAIN st.node) = Cardinality(ref)
  /\ rb_tree_check(st.node, st.root) # 0

\* A buffer holds its text and the NUL after it.
BufferAgrees == st.text = ref /\ st.size = Len(ref) /\ Len(ref) < st.room

(***************************************************************************)
(* ContainersAgree: whatever sequence of operations built them, a linked     *)
(* list (src/util/list.c) reads the same in both directions with its shared  *)
(* cursor where the walk left it, a red-black tree (src/util/rbtree.c) finds *)
(* exactly the keys put in and not taken out and stays balanced, and a text  *)
(* buffer (src/util/cbuffer.c) never outgrows its allocation.                *)
(***************************************************************************)
ContainersAgree ==
  /\ part = "list" => ListAgrees
  /\ part = "tree" => TreeAgrees
  /\ part = "buffer" => BufferAgrees

Done(kind) == part = kind /\ st.out # NoResult
Out == st.out[1]

\* The grammar of a message line, by its fields: the command, a SID or two, the
\* features, and then the end of the line or a space.
Sids == [1..4 -> Base32]
FieldsOf(type) ==
  CASE type \in {"I", "H"} -> 0 [] type \in {"B", "F"} -> 1 [] type \in {"D", "E"} -> 2 [] OTHER -> -1
SidAt(line, k) ==
  /\ Len(line) > 4 + 5 * k
  /\ line[5 * k] = " "
  /\ SubSeq(line, 5 * k + 1, 5 * k + 4) \in Sids
EndsAt(line, n) == n < Len(line) /\ line[n + 1] \in {" ", "\n"}
EscapesPaired(line) ==
  \A i \in DOMAIN line :
    LET run == {j \in 1..i : \A k \in j..i : line[k] = "\\"}
    IN (line[i] = "\\" /\ Cardinality(run) % 2 = 1)
       => i < Len(line) /\ line[i + 1] \in {"\\", "n", "s"}
WellFormed(line) ==
  LET n == FieldsOf(line[1])
  IN /\ Len(line) >= 4 /\ n # -1 /\ EscapesPaired(line)
     /\ \A k \in 1..n : SidAt(line, k)
     /\ IF line[1] # "F" THEN EndsAt(line, 4 + 5 * n)
        ELSE \E k \in 1..Len(line) :
               EndsAt(line, 10 + 5 * k) /\ \A i \in 0..(k - 1) : line[11 + 5 * i] \in {"+", "-"}

MessageAgrees ==
  /\ Arguments(st) = ref
  /\ Last(st.cache) = "\n" /\ Len(st.cache) < st.capacity
  /\ \A name \in ArgNames :
       LET at == {i \in DOMAIN ref : Named(ref[i], name)}
           full == {i \in at : Len(ref[i]) > 2}
       IN /\ adc_msg_has_named_argument(st, name) = Cardinality(at)
          /\ adc_msg_get_named_argument(st, name)
               = IF at = {} THEN <<"none">> ELSE SubSeq(ref[Min(at)], 3, Len(ref[Min(at)]))
          /\ adc_msg_get_named_argument_index(st, name) = IF full = {} THEN -1 ELSE Min(full) - 1

ParseAgrees(line, msg) ==
  /\ (msg # NoMsg) <=> WellFormed(line)
  /\ msg # NoMsg =>
       /\ msg.cache = IF Last(line) = "\n" THEN line ELSE Append(line, "\n")
       /\ Len(msg.cache) < msg.capacity
       /\ msg.source = IF FieldsOf(line[1]) >= 1 THEN SubSeq(line, 6, 9) ELSE << >>
       /\ msg.target = IF FieldsOf(line[1]) = 2 THEN SubSeq(line, 11, 14) ELSE << >>

\* The complete lines of a stream.
LinesOf(s) ==
  LET ends == SetToSortSeq({i \in DOMAIN s : s[i] = "\n"}, <)
  IN [k \in DOMAIN ends |-> SubSeq(s, IF k = 1 THEN 1 ELSE ends[k - 1] + 1, ends[k] - 1)]

UpToBad(lines) ==
  IF \E i \in DOMAIN lines : lines[i] \in BadLines
  THEN SubSeq(lines, 1, SelectInSeq(lines, LAMBDA l : l \in BadLines))
  ELSE lines

FramesAgree ==
  /\ st.lines = UpToBad(SelectSeq(LinesOf(ref), LAMBDA l : l # << >> /\ Len(l) < st.max))
  /\ ~ st.open => st.max > RecvBuf \/ \E i \in DOMAIN st.lines : st.lines[i] \in BadLines

(***************************************************************************)
(* MessagesAgree: after any sequence of additions, replacements, removals    *)
(* and copies a message's text reads back as exactly its list of arguments,  *)
(* searches find what is there, and the text with its terminator fits its    *)
(* allocation; adc_msg_parse accepts exactly the lines of the grammar and    *)
(* takes source and target from where they stand; and unescaping undoes      *)
(* escaping (src/adc/message.c).  However the reads split what a user sends, *)
(* exactly the lines that are not empty and shorter than max_recv_buffer are  *)
(* handled, in order, the one after a line that was too long included        *)
(* (src/core/netevent.c:86), and none after one hub_handle_message refuses;   *)
(* the user is disconnected over a long line only if max_recv_buffer exceeds  *)
(* MAX_RECV_BUF.                                                              *)
(***************************************************************************)
MessagesAgree ==
  /\ part = "message" => MessageAgrees
  /\ part = "receive" => FramesAgree
  /\ Done("parse") => ParseAgrees(st.in, Out)
  /\ Done("escape") => Out = st.in /\ adc_msg_escape_length(st.in) = Len(adc_msg_escape(st.in))

\* The UTF-8 encodings of Unicode scalar values, in shortest form.
CodePoint(s) ==
  CASE Len(s) = 1 -> s[1]
    [] Len(s) = 2 -> (s[1] - 192) * 64 + (s[2] - 128)
    [] Len(s) = 3 -> (s[1] - 224) * 4096 + (s[2] - 128) * 64 + (s[3] - 128)
    [] Len(s) = 4 -> (s[1] - 240) * 262144 + (s[2] - 128) * 4096 + (s[3] - 128) * 64 + (s[4] - 128)
LeadRange == <<0..127, 192..223, 224..239, 240..247>>
Shortest == <<0, 128, 2048, 65536>>
IsScalar(s) ==
  /\ Len(s) \in 1..4
  /\ s[1] \in LeadRange[Len(s)]
  /\ \A i \in 2..Len(s) : s[i] \in 128..191
  /\ LET c == CodePoint(s)
     IN c >= Shortest[Len(s)] /\ c <= 1114111 /\ c \notin 55296..57343
RECURSIVE IsUtf8(_)
IsUtf8(s) ==
  s = << >> \/ \E n \in 1..4 : n <= Len(s) /\ IsScalar(SubSeq(s, 1, n)) /\ IsUtf8(SubSeq(s, n + 1, Len(s)))

\* The positions of a sequence that hold none of the marks, in order.
SelectIndices(q, marks) == SetToSortSeq({i \in DOMAIN q : q[i] \notin marks}, <)

IsOctet(s) == Len(s) \in 1..3 /\ (\A i \in DOMAIN s : is_num(s[i])) /\ Decimal(s, 0) <= 255

\* The options of each plugin and how they are read: a file that must open, one
\* that may be given once, a credential, ...
Options ==
  [users |-> [register_self |-> "flag", allow_spaces |-> "flag", notify |-> "flag", password_length |-> "length"],
   sqlite |-> [file |-> "once", journal |-> "short", exclusive |-> "flag", readonly |-> "flag", update_activity |-> "flag"],
   simple |-> [file |-> "name", exclusive |-> "flag"],
   guest |-> [password |-> "password"],
   restrict |-> [download |-> "cred", chat |-> "cred", op_msg |-> "cred", priv_msg |-> "cred"],
   history |-> [file |-> "last", history_max |-> "size", history_default |-> "size", history_connect |-> "size"],
   history_sqlite |-> [file |-> "once", history_max |-> "int", history_default |-> "int", history_connect |-> "int"],
   welcome |-> [motd |-> "each", rules |-> "each"],
   joins |-> [join |-> "each", leave |-> "each", min_notify |-> "cred"],
   logging |-> [file |-> "last", syslog |-> "mode", max_log_entries |-> "entries"]]
Required == [sqlite |-> "file", simple |-> "file", guest |-> "password"]

\* What the option with that kind of value becomes.
Reading(kind, v) ==
  CASE kind = "flag" -> IF v.bool = 0 THEN 0 ELSE 1
    [] kind = "length" -> IF v.num \in 0..MAX_PASS_LEN THEN v.num ELSE MAX_PASS_LEN
    [] kind = "cred" -> v.cred
    [] kind = "int" -> v.num
    [] kind = "size" -> SizeT(v.num)
    [] kind = "entries" -> IF v.num = 0 THEN SizeMax ELSE SizeT(v.num)
    [] OTHER -> v

ConfigAgrees(x, out) ==
  LET opts == Options[x.plugin]
      q == x.settings
      at(k) == {i \in DOMAIN q : q[i].key = k}
      last(k) == q[Max(at(k))].value
      kinds(i) == opts[q[i].key]
      switches == {i \in at("syslog") : q[i].value.bool # -1}
      on == {i \in switches : q[i].value.bool = 1}
      tofile == \E i \in at("file") \cup (switches \ on) : \A j \in on : j < i
      good ==
        /\ \A i \in DOMAIN q :
             /\ q[i].key \in DOMAIN opts
             /\ kinds(i) \in {"once", "name"} => Cardinality(at(q[i].key)) = 1
             /\ kinds(i) = "cred" => q[i].value.cred # -1
             /\ kinds(i) \in {"each", "once"} => q[i].value.opens
             /\ kinds(i) = "short" => q[i].value.len < JournalSize
             /\ kinds(i) = "password" => q[i].value.len <= MAX_PASS_LEN
        /\ x.plugin \in DOMAIN Required => at(Required[x.plugin]) # {}
        /\ x.plugin \in {"simple", "guest"} => last(Required[x.plugin]).len > 0
        /\ x.plugin = "history" /\ at("file") # {} => last("file").opens
        /\ x.plugin = "logging" => (tofile => at("file") # {} /\ last("file").opens) /\ \A i \in on : \A j \in at("file") : i < j
  IN /\ out # Failed <=> good
     /\ good =>
          /\ \A k \in DOMAIN opts \ {"syslog"} :
               at(k) # {} /\ ~ (k = "update_activity" /\ out["readonly"] = 1) => out[k] = Reading(opts[k], last(k))
          /\ x.plugin = "sqlite" /\ out["readonly"] = 1 => out["update_activity"] = 0
          /\ x.plugin = "logging" => out["logmode"] = IF tofile THEN "file" ELSE IF on # {} THEN "syslog" ELSE "mem"

\* A '%' is a mark unless it is the letter of one: after an even number of others.
TemplateAgrees(s, codes, chomps, out) ==
  LET run(i) == Cardinality({j \in 1..(i - 1) : \A k \in j..(i - 1) : s[k] = "%"})
      mark == {i \in DOMAIN s : s[i] = "%" /\ run(i) % 2 = 0}
      full == FlattenSeq([i \in DOMAIN s |->
                 IF i \in mark THEN << >> ELSE IF i - 1 \in mark THEN Meaning(codes, s[i]) ELSE <<s[i]>>])
  IN IF Len(s) \in mark THEN out = <<"overrun">> ELSE out = IF chomps /\ full # << >> /\ Last(full) = " " THEN Front(full) ELSE full

\* The arguments a command's codes stand for, one word each, and from a '+' on all
\* that are left; the ones after a '?' may be missing.
CommandAgrees(x, out) ==
  LET found == {h \in AllCommands : h.prefix = x.line.name}
      codes == (CHOOSE h \in found : TRUE).args
      items == SelectIndices(codes, {"?", "+"})
      Past(mark, i) == \E j \in 1..(i - 1) : codes[j] = mark
      Words(k) == IF Past("+", items[k]) THEN SubSeq(x.line.words, k, Len(x.line.words)) ELSE <<x.line.words[k]>>
      given == {k \in DOMAIN items : k <= Len(x.line.words)}
      args == [k \in 1..Cardinality(given) |-> [type |-> TypeOfCode(codes[items[k]]), words |-> Words(k)]]
  IN IF ~ x.line.named \/ found = {} \/ (\A h \in found : h.cred > x.cred)
     THEN out = [status |-> IF ~ x.line.named THEN "syntax_error" ELSE IF found = {} THEN "not_found" ELSE "access_error",
                 args |-> << >>]
     ELSE /\ out.status = "ran" <=> \A k \in DOMAIN items :
               IF k \in given THEN Found(codes[items[k]], Words(k)) ELSE Past("?", items[k])
          /\ out.status = "ran" => out.args = args
          /\ out.status \in {"ran", "missing_args", "syntax_error"}

(***************************************************************************)
(* RangesExact: an IPv6 range holds exactly the addresses between its ends.  *)
(* An IPv4 range never holds an address outside, but for the one 2^31 away   *)
(* from a range of a single address, and misses one inside only if its ends  *)
(* are more than 2^31 apart: ip_compare keeps the difference of two IPv4     *)
(* addresses in an int.  A mask keeps the network's addresses together.      *)
(***************************************************************************)
RangesExact ==
  Done("range") =>
    LET text == st.in.text
        a == Value(st.in.probe)
        lo == Value(Out.range.lo)
        hi == Value(Out.range.hi)
        half == 2^(Word - 1)
        inside == st.in.probe.af = Out.range.lo.af /\ lo <= a /\ a <= hi
        v4 == Out.range.lo.af = "inet"
        \* as numbers, [lo..hi] of address/mask
        span == 2^(Width(text.addr.af) - Clamp(Decimal(text.mask, 0), 0, Width(text.addr.af)))
    IN IF Out.range = NoRange
       THEN /\ ~ Out.hit
            /\ text.sep = "/" => text.mask = << >>
            /\ text.sep = "-" => text.addr.af # text.addr2.af
       ELSE /\ text.sep = "/" => lo = (Value(text.addr) \div span) * span /\ hi = lo + span - 1
            /\ Out.hit /\ lo <= hi => inside \/ (v4 /\ lo = hi /\ (a - lo) % 2^Word = half)
            /\ inside => Out.hit \/ (v4 /\ hi - lo > half)

(***************************************************************************)
(* ParsersAgree: is_valid_utf8_str accepts exactly the concatenations of     *)
(* shortest encodings of Unicode scalar values; base32_decode undoes         *)
(* base32_encode; a token list, a key=value setting with any spacing and a   *)
(* configuration line are read back as what was written; a dotted quad is    *)
(* valid exactly with four octets; format_size is off by less than a tenth   *)
(* below ten units and by less than one from there on.  A chat command runs   *)
(* exactly for a user who may use it, with every required argument and each   *)
(* given one readable, the last taking all words that are left after a '+'.   *)
(* A plugin takes its configuration exactly if every setting is one of its     *)
(* own with a value it can read, and the last of two wins, in any order but   *)
(* for file and syslog of mod_logging; a template is expanded mark by mark    *)
(* unless it ends in one.  No access control file with an entry that has an   *)
(* argument is read, as auth.c:30 compares the keyword with the whole line.   *)
(* An address is in a range as RangesExact says.                              *)
(***************************************************************************)
ParsersAgree ==
  /\ RangesExact
  /\ Done("utf8") => (Out <=> IsUtf8(st.in))
  /\ Done("base32") => Out = st.in
  /\ Done("tokens") => Out = st.in
  /\ Done("setting") => Out = [key |-> st.in.key, value |-> st.in.value]
  /\ Done("line") => Out = [res |-> "apply", key |-> st.in.key, data |-> st.in.value]
  /\ Done("ipv4") => (Out <=> Len(st.in) = 4 /\ \A i \in 1..4 : IsOctet(st.in[i]))
  /\ Done("number") /\ Out.ok => uhub_atoi(st.in) = Out.num
  /\ Done("cred") => Out = st.in
  /\ Done("config") => ConfigAgrees(st.in, Out)
  /\ Done("acl") => (Out.status = "ok" => \A i \in DOMAIN st.in : st.in[i].arg = "")
  /\ Done("welcome") => TemplateAgrees(st.in, WelcomeCodes, FALSE, Out)
  /\ Done("joins") => TemplateAgrees(st.in, JoinsCodes, TRUE, Out)
  /\ Done("command") => CommandAgrees(st.in, Out)
  /\ Done("size") =>
       LET unit == 1024^Out.factor
           tenths == IF Out.b < 10 THEN 10 * Out.b + Out.tenth ELSE 10 * Out.b
           step == IF Out.b < 10 THEN 1 ELSE 10
       IN Out.b < 1024 /\ tenths * unit <= 10 * st.in /\ 10 * st.in < (tenths + step) * unit

-----------------------------------------------------------------------------
(* INF messages                                                                *)

When(c, status) == IF c THEN {status} ELSE {}
CountOf(inf, f, old) == IF inf[f] = << >> THEN old[f] ELSE NonNegative(inf[f][1])

\* Every limit the counts break.
LimitsBroken(inf, old, hub, cred) ==
  LET n(f) == CountOf(inf, f, old)
      sum == n("HN") + n("HR") + n("HO")
      v(h) == IF h = "total" THEN sum ELSE n(h)
      low(f) == hub.min[f] # 0 /\ v(f) < hub.min[f]
      high(f) == hub.max[f] # 0 /\ v(f) > hub.max[f]
  IN  IF auth_cred_is_protected(cred) THEN {}
      ELSE When(low("SS"), "share_low") \cup When(high("SS"), "share_high") \cup When(low("SL"), "slots_low")
             \cup When(high("SL"), "slots_high") \cup When(\E h \in Hubs : high(h), "hubs_high")
             \cup When(\E h \in Hubs : low(h), "hubs_low")

\* Everything that is wrong with a login.
LoginFaults(x) ==
  LET inf == x.inf
      one(f) == Len(inf[f]) = 1
      nick == inf["NI"][1]
      cid == inf["ID"][1]
      by_nick == x.hub.by_nick[nick.name]
      guest == x.access \in {auth_cred_none, auth_cred_guest}
  IN  When(inf["ID"] = << >>, "cid_missing") \cup When(inf["PD"] = << >>, "pid_missing")
        \cup When(inf["NI"] = << >>, "nick_missing") \cup When(Len(inf["NI"]) > 1, "nick_multiple")
        \cup When(Len(inf["ID"]) > 1 \/ (one("ID") /\ (~ cid.full \/ cid.bad # 0))
                   \/ (one("ID") /\ one("PD") /\ cid.of # inf["PD"][1].name), "cid_invalid")
        \cup When(Len(inf["PD"]) > 1 \/ (one("PD") /\ (~ inf["PD"][1].full \/ inf["PD"][1].bad # 0)), "pid_invalid")
        \cup (IF ~ one("NI") THEN {}
              ELSE When(nick.len = "short", "nick_short") \cup When(nick.len = "long", "nick_long")
                     \cup When(nick.space, "nick_spaces") \cup When(nick.control, "nick_bad_chars")
                     \cup When(~ nick.utf8, "nick_not_utf8")
                     \cup When(nick.name \in x.hub.acl.users_banned, "ban_permanently")
                     \cup When(nick.name \in x.hub.acl.users_denied, "nick_restricted")
                     \cup When(by_nick # "none" /\ by_nick # x.hub.by_cid, "nick_taken")
                     \cup When(x.hub.by_cid # "none" /\ (by_nick # x.hub.by_cid \/ by_nick \notin x.hub.choked), "cid_taken"))
        \cup When(one("ID") /\ cid \in x.hub.acl.cids, "ban_permanently")
        \cup When(x.hub.max_users # 0 /\ x.hub.count >= x.hub.max_users /\ ~ auth_cred_is_protected(x.access), "hub_full")
        \cup When(x.hub.registered_only /\ guest, "registered_only")
        \cup LimitsBroken(inf, NoCounts, x.hub, x.access)

Private == {"PD"}
Identity == {"ID", "NI", "I4", "I6", "CT"}

LoginAgrees(x, out) ==
  /\ out.status = "ok" <=> LoginFaults(x) = {}
  /\ out.status # "ok" => out.status \in LoginFaults(x)
  /\ out.status = "ok" =>
       /\ \A f \in Private \cup {"OP", "RF"} : out.info[f] = << >>
       /\ out.info["ID"] = x.inf["ID"] /\ out.info["NI"] = x.inf["NI"]
       /\ out.info["CT"] = IF ClientType(x.access) = "none" THEN << >> ELSE <<ClientType(x.access)>>
       /\ LET own == IF x.addr.af = "inet" THEN "I4" ELSE "I6"
              claims == x.addr.nat /\ x.inf["I4"] # << >> /\ x.inf["I4"][1] # "0.0.0.0"
          IN IF claims THEN out.info["I4"] = x.inf["I4"] /\ out.info["I6"] = << >>
             ELSE out.info[own] = <<x.addr.ip>> /\ out.info[IF own = "I4" THEN "I6" ELSE "I4"] = << >>
       /\ out.agent <= x.hub.max_ua

UpdateAgrees(x, out) ==
  LET broken == LimitsBroken(x.inf, x.limits, x.hub, x.cred)
  IN /\ out.status = "ok" <=> broken = {}
     /\ out.status # "ok" => out.status \in broken
     /\ out.status = "ok" =>
          /\ \A f \in Private \cup Identity \cup {"OP", "RF"} : out.relayed[f] = << >> /\ out.info[f] = x.old[f]
          /\ \A f \in Counts : out.limits[f] = CountOf(x.inf, f, x.limits)

(***************************************************************************)
(* InfSound: a login is refused exactly when something is wrong with it, and  *)
(* the status says a thing that is; the INF the others get has the ID and the *)
(* nick that were checked, the client type of the account, the address the    *)
(* hub sees unless the user is behind a NAT the hub knows, and never the      *)
(* private ID.  An update changes no part of that identity, whatever fields   *)
(* it brings, and is refused exactly when the counts, new or kept, break a    *)
(* limit (src/core/inf.c).                                                    *)
(***************************************************************************)
InfSound ==
  /\ Done("login") => LoginAgrees(st.in, Out)
  /\ Done("update") => UpdateAgrees(st.in, Out)
=============================================================================
