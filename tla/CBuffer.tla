------------------------------ MODULE CBuffer ------------------------------
(***************************************************************************)
(* src/util/cbuffer.c: the growing text buffers replies are put together in. *)
(* The text is a sequence of characters, NUL its terminator; room is the     *)
(* size of the allocation behind it.                                         *)
(***************************************************************************)
EXTENDS Integers, Sequences, SequencesExt

cbuf_create(capacity) ==
  [capacity |-> capacity, size |-> 0, const |-> FALSE, text |-> << >>, room |-> capacity + 1]

cbuf_create_const(text) ==
  [capacity |-> 0, size |-> Len(text), const |-> TRUE, text |-> text, room |-> Len(text) + 1]

cbuf_clear(b) == [b EXCEPT !.size = 0, !.text = << >>]

cbuf_resize(b, capacity) == [b EXCEPT !.capacity = capacity, !.room = capacity + 1]

cbuf_append_bytes(b, msg) ==
  LET len == b.size + Len(msg)
      grown == IF len >= b.capacity THEN cbuf_resize(b, len) ELSE b
  IN [grown EXCEPT !.size = len, !.text = @ \o msg]

\* cbuf_append, cbuf_append_format and cbuf_append_strftime: the text they are
\* given or make is shorter than MAX_MSG_LEN, the buffer they make it in.
cbuf_append(b, msg) == cbuf_append_bytes(b, msg)

\* cbuf_chomp: one trailing character of the set remove goes.
cbuf_chomp(b, remove) ==
  IF b.size = 0 \/ Last(b.text) \notin remove THEN b
  ELSE [b EXCEPT !.size = @ - 1, !.text = Front(@)]
=============================================================================
