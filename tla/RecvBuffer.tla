----------------------------- MODULE RecvBuffer -----------------------------
(***************************************************************************)
(* The receive buffer of a user: handle_net_read of src/core/netevent.c cuts *)
(* what the socket returns into lines, with ioq_recv of src/core/ioqueue.c   *)
(* for the rest.  max is the option max_recv_buffer.                         *)
(***************************************************************************)
EXTENDS Integers, Sequences, SequencesExt

CONSTANTS
  RecvBuf,         \* MAX_RECV_BUF
  BadLines         \* the lines for which hub_handle_message returns -1

\* open is FALSE once the user was disconnected; lines are those handed to
\* hub_handle_message.
ioq_recv_create(max) == [max |-> max, open |-> TRUE, buf |-> << >>, maxbuf |-> FALSE, lines |-> << >>]

ioq_recv_get(q) == q.buf
ioq_recv_set(q, data) == [q EXCEPT !.buf = data]

\* After a rest that was dropped the buffer starts afresh.
Buffered(q) == IF q.maxbuf THEN << >> ELSE ioq_recv_get(q)

\* The end of the data: a rest that is already too long is dropped, and with it,
\* through flag_maxbuf, the line up to its newline.
KeepRest(q, rest) ==
  IF Len(rest) < q.max THEN ioq_recv_set(q, rest)
  ELSE [ioq_recv_set(q, << >>) EXCEPT !.maxbuf = TRUE]

\* A line that is refused ends the read, and net_event disconnects the user.
TakeLine(q, line) ==
  IF q.maxbuf THEN [q EXCEPT !.maxbuf = FALSE]
  ELSE IF line # << >> /\ Len(line) < q.max
       THEN [q EXCEPT !.lines = Append(@, line), !.open = line \notin BadLines]
       ELSE q

RECURSIVE CutLines(_, _)
CutLines(q, data) ==
  LET at == SelectInSeq(data, LAMBDA c : c = "\n")
  IN  IF ~ q.open THEN q
      ELSE IF at = 0 THEN KeepRest(q, data)
      ELSE CutLines(TakeLine(q, SubSeq(data, 1, at - 1)), SubSeq(data, at + 1, Len(data)))

\* What one read may return; with no room left it returns nothing, which is taken for
\* the end of the connection.
RecvRoom(q) == RecvBuf - Len(Buffered(q))

handle_net_read(q, data) ==
  IF RecvRoom(q) = 0 THEN [q EXCEPT !.open = FALSE, !.buf = << >>]
  ELSE CutLines(ioq_recv_set(q, << >>), Buffered(q) \o data)
=============================================================================
