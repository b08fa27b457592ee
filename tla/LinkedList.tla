----------------------------- MODULE LinkedList -----------------------------
(***************************************************************************)
(* src/util/list.c: the doubly linked list almost every part of the hub is   *)
(* built on.  A memory s holds the nodes that are allocated and two list     *)
(* headers, "a" and "b" (list_append_list moves nodes from one to the        *)
(* other).  The cursor of LIST_FOREACH is part of the header: it is shared   *)
(* by everyone who walks the list.                                           *)
(***************************************************************************)
EXTENDS Integers, FiniteSets, Sequences

Null == 0

\* struct linked_list after list_create or list_clear.
EmptyList == [size |-> 0, first |-> Null, last |-> Null, iterator |-> Null]

NoLists == [node |-> << >>, a |-> EmptyList, b |-> EmptyList]

\* hub_malloc_zero(sizeof(struct node)): a node that is not in use.
NewNode(s) ==
  CHOOSE n \in 1..(Cardinality(DOMAIN s.node) + 1) :
    /\ n \notin DOMAIN s.node
    /\ \A m \in 1..(n - 1) : m \in DOMAIN s.node

\* The nodes with field next or prev of n set to v; nothing happens for NULL.
SetNext(node, n, v) == IF n = Null THEN node ELSE [node EXCEPT ![n].next = v]
SetPrev(node, n, v) == IF n = Null THEN node ELSE [node EXCEPT ![n].prev = v]

\* hub_free(node)
FreeNode(node, n) == [m \in DOMAIN node \ {n} |-> node[m]]

AddNode(node, n, x, next, prev) ==
  [m \in DOMAIN node \cup {n} |->
     IF m = n THEN [ptr |-> x, next |-> next, prev |-> prev] ELSE node[m]]

list_prepend(s, w, x) ==
  LET n == NewNode(s)
      first == s[w].first
  IN [s EXCEPT !.node = SetPrev(AddNode(s.node, n, x, first, Null), first, n),
               ![w].last = IF first # Null THEN @ ELSE n,
               ![w].first = n,
               ![w].size = @ + 1]

list_append(s, w, x) ==
  LET n == NewNode(s)
      last == s[w].last
  IN [s EXCEPT !.node = SetNext(AddNode(s.node, n, x, Null, last), last, n),
               ![w].first = IF last # Null THEN @ ELSE n,
               ![w].last = n,
               ![w].size = @ + 1]

\* The first node at or after n whose datum is greater than x (cmp is the order
\* of the data, which are numbers here).
RECURSIVE FirstGreater(_, _, _)
FirstGreater(node, n, x) ==
  IF x >= node[n].ptr THEN FirstGreater(node, node[n].next, x) ELSE n

list_insert_ordered(s, w, x) ==
  LET h == s[w]
      node == s.node
  IN IF h.first = Null \/ x <= node[h.first].ptr THEN list_prepend(s, w, x)
     ELSE IF x >= node[h.last].ptr THEN list_append(s, w, x)
     ELSE LET n == NewNode(s)
              current == FirstGreater(node, node[h.first].next, x)
              before == node[current].prev
          IN [s EXCEPT !.node = SetNext(SetPrev(AddNode(node, n, x, current, before),
                                                current, n),
                                        before, n),
                       ![w].size = @ + 1]

\* Mutant of list_append_list: the old last node is not linked to the moved ones.
list_append_list_unlinked(s, w, o) ==
  IF s[o].size = 0 THEN s
  ELSE IF s[w].size = 0 THEN [s EXCEPT ![w] = s[o], ![o] = EmptyList]
  ELSE [s EXCEPT !.node = SetPrev(@, s[o].first, s[w].last),
                 ![w].last = s[o].last,
                 ![w].size = @ + s[o].size,
                 ![o] = EmptyList]

list_append_list(s, w, o) ==
  IF s[o].size = 0 THEN s
  ELSE IF s[w].size = 0 THEN [s EXCEPT ![w] = s[o], ![o] = EmptyList]
  ELSE [s EXCEPT !.node = SetNext(SetPrev(@, s[o].first, s[w].last),
                                  s[w].last, s[o].first),
                 ![w].last = s[o].last,
                 ![w].size = @ + s[o].size,
                 ![o] = EmptyList]

\* The first node at or after n that holds x, NULL if there is none.
RECURSIVE FindNode(_, _, _)
FindNode(node, n, x) ==
  IF n = Null \/ node[n].ptr = x THEN n ELSE FindNode(node, node[n].next, x)

\* list_remove.  The cursor is lost even if x is not in the list.
list_remove(s, w, x) ==
  LET n == FindNode(s.node, s[w].first, x)
      next == s.node[n].next
      prev == s.node[n].prev
  IN IF n = Null THEN [s EXCEPT ![w].iterator = Null]
     ELSE [s EXCEPT !.node = FreeNode(SetNext(SetPrev(@, next, prev), prev, next), n),
                    ![w].last = IF n = @ THEN prev ELSE @,
                    ![w].first = IF n = @ THEN next ELSE @,
                    ![w].iterator = Null,
                    ![w].size = @ - 1]

list_remove_first(s, w) ==
  LET n == s[w].first
      next == s.node[n].next
  IN IF n = Null THEN [s EXCEPT ![w].iterator = Null]
     ELSE [s EXCEPT !.node = FreeNode(SetPrev(@, next, Null), n),
                    ![w].first = next,
                    ![w].last = IF @ = n THEN Null ELSE @,
                    ![w].iterator = Null,
                    ![w].size = @ - 1]

list_remove_last(s, w) ==
  LET n == s[w].last
      prev == s.node[n].prev
  IN IF n = Null THEN [s EXCEPT ![w].iterator = Null]
     ELSE [s EXCEPT !.node = FreeNode(SetNext(@, prev, Null), n),
                    ![w].last = prev,
                    ![w].first = IF @ = n THEN Null ELSE @,
                    ![w].iterator = Null,
                    ![w].size = @ - 1]

\* The nodes from n on, following next (or prev).
RECURSIVE Chain(_, _, _)
Chain(node, n, dir) ==
  IF n = Null THEN << >> ELSE <<n>> \o Chain(node, node[n][dir], dir)

list_clear(s, w) ==
  LET c == Chain(s.node, s[w].first, "next")
      gone == {c[i] : i \in DOMAIN c}
  IN [s EXCEPT !.node = [m \in DOMAIN @ \ gone |-> @[m]], ![w] = EmptyList]

\* list_get_index: the datum at offset k, NULL past the end.
list_get_index(s, w, k) ==
  LET c == Chain(s.node, s[w].first, "next")
  IN IF k < s[w].size THEN s.node[c[k + 1]].ptr ELSE Null

\* The four cursor operations; each returns what the cursor then points at.
list_get_first(s, w) == [s EXCEPT ![w].iterator = s[w].first]
list_get_last(s, w) == [s EXCEPT ![w].iterator = s[w].last]
list_get_next(s, w) ==
  [s EXCEPT ![w].iterator = IF @ = Null THEN s[w].first ELSE s.node[@].next]
list_get_prev(s, w) ==
  [s EXCEPT ![w].iterator = IF @ = Null THEN Null ELSE s.node[@].prev]
=============================================================================
