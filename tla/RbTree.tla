------------------------------- MODULE RbTree -------------------------------
(***************************************************************************)
(* src/util/rbtree.c: the red-black tree behind the nick and CID indexes.    *)
(* A tree t holds the allocated nodes, the root and the element count.       *)
(* Insertion is recursive and rebalances on the way up; removal is one pass  *)
(* from the root down that pushes a red node ahead of itself.  Keys are      *)
(* numbers, compare is their order, and a node's value is left out: it is    *)
(* copied wherever its key is.                                               *)
(***************************************************************************)
EXTENDS Integers, FiniteSets, SequencesExt

Nil == 0
FalseRoot == -1              \* the false root on the stack of rb_tree_remove_node

EmptyTree == [node |-> << >>, root |-> Nil, elements |-> 0]

\* link[0] and link[1]; !dir is 1 - dir.
Link(node, n, dir) == node[n].link[dir + 1]
SetLink(node, n, dir, v) == [node EXCEPT ![n].link[dir + 1] = v]
SetRed(node, n, r) == [node EXCEPT ![n].red = r]

is_red(node, n) == n # Nil /\ node[n].red

\* compare(node->key, key) < 0
Dir(node, n, key) == IF node[n].key < key THEN 1 ELSE 0

RECURSIVE SearchFrom(_, _, _)
SearchFrom(node, n, key) ==
  IF n = Nil \/ node[n].key = key THEN n
  ELSE SearchFrom(node, Link(node, n, Dir(node, n, key)), key)

tree_search(t, key) == SearchFrom(t.node, t.root, key)

rb_tree_get(t, key) == tree_search(t, key) # Nil

NewRbNode(node) ==
  CHOOSE n \in 1..(Cardinality(DOMAIN node) + 1) :
    /\ n \notin DOMAIN node
    /\ \A m \in 1..(n - 1) : m \in DOMAIN node

\* Rotations and insertions return the memory and the new root of the subtree.
rb_tree_rotate_single(node, n, dir) ==
  LET other == Link(node, n, 1 - dir)
      linked == SetLink(SetLink(node, n, 1 - dir, Link(node, other, dir)), other, dir, n)
  IN [node |-> SetRed(SetRed(linked, n, TRUE), other, FALSE), n |-> other]

rb_tree_rotate_double(node, n, dir) ==
  LET inner == rb_tree_rotate_single(node, Link(node, n, 1 - dir), 1 - dir)
  IN rb_tree_rotate_single(SetLink(inner.node, n, 1 - dir, inner.n), n, dir)

RECURSIVE rb_tree_insert_r(_, _, _)
rb_tree_insert_r(node, n, key) ==
  IF n = Nil
  THEN LET new == NewRbNode(node)
       IN [node |-> [m \in DOMAIN node \cup {new} |->
                       IF m = new THEN [key |-> key, red |-> TRUE, link |-> <<Nil, Nil>>]
                       ELSE node[m]],
           n |-> new]
  ELSE LET dir == Dir(node, n, key)
           Balance(mem, child, sibling) ==
             IF ~ is_red(mem, child) THEN [node |-> mem, n |-> n]
             ELSE IF is_red(mem, sibling)
             THEN [node |-> SetRed(SetRed(SetRed(mem, n, TRUE), child, FALSE), sibling, FALSE), n |-> n]
             ELSE IF is_red(mem, Link(mem, child, dir)) THEN rb_tree_rotate_single(mem, n, 1 - dir)
             ELSE IF is_red(mem, Link(mem, child, 1 - dir)) THEN rb_tree_rotate_double(mem, n, 1 - dir)
             ELSE [node |-> mem, n |-> n]
           Linked(sub) == Balance(SetLink(sub.node, n, dir, sub.n), sub.n, Link(node, n, 1 - dir))
       IN Linked(rb_tree_insert_r(node, Link(node, n, dir), key))

\* rb_tree_insert; a key that is there stays as it is.
rb_tree_insert(t, key) ==
  IF tree_search(t, key) # Nil THEN t
  ELSE LET Blacken(r) == [node |-> SetRed(r.node, r.n, FALSE), root |-> r.n, elements |-> t.elements + 1]
       IN Blacken(rb_tree_insert_r(t.node, t.root, key))

\* The descent of rb_tree_remove_node.  d holds the memory with the false root
\* and the cursors g, p, q, the found node f and the direction dir.
Hang(node, g, p, turned) == SetLink(turned.node, g, IF Link(node, g, 1) = p THEN 1 ELSE 0, turned.n)

PushRed(d, last) ==
  LET node == d.node
      s == Link(node, d.p, 1 - last)
      Paint(mem, n) == SetRed(SetRed(SetRed(SetRed(mem, d.q, TRUE), n, TRUE), Link(mem, n, 0), FALSE), Link(mem, n, 1), FALSE)
      Turn(turned) == Paint(Hang(node, d.g, d.p, turned), turned.n)
      Shift(r) == [d EXCEPT !.node = SetLink(r.node, d.p, last, r.n), !.p = r.n]
  IN IF is_red(node, d.q) \/ is_red(node, Link(node, d.q, d.dir)) THEN d
     ELSE IF is_red(node, Link(node, d.q, 1 - d.dir))
     THEN Shift(rb_tree_rotate_single(node, d.q, d.dir))
     ELSE IF s = Nil THEN d
     ELSE IF ~ is_red(node, Link(node, s, 1 - last)) /\ ~ is_red(node, Link(node, s, last))
     THEN [d EXCEPT !.node = SetRed(SetRed(SetRed(node, d.p, FALSE), s, TRUE), d.q, TRUE)]
     ELSE [d EXCEPT !.node = Turn(IF is_red(node, Link(node, s, last))
                                  THEN rb_tree_rotate_double(node, d.p, last)
                                  ELSE rb_tree_rotate_single(node, d.p, last))]

RECURSIVE Descend(_, _)
Descend(d, key) ==
  LET q == Link(d.node, d.q, d.dir)
      dir == Dir(d.node, q, key)
      moved == [d EXCEPT !.g = d.p, !.p = d.q, !.q = q, !.dir = dir,
                         !.f = IF d.node[q].key = key THEN q ELSE @]
  IN IF q = Nil THEN d ELSE Descend(PushRed(moved, d.dir), key)

\* The child that takes the place of the unlinked node q.
Heir(node, q) == IF Link(node, q, 0) = Nil THEN Link(node, q, 1) ELSE Link(node, q, 0)

\* The key of the last node q of the descent moves into the found node f, and q is
\* unlinked; the false root goes and the root is painted black.
Unlink(d) ==
  IF d.f = Nil THEN d.node
  ELSE SetLink([d.node EXCEPT ![d.f].key = d.node[d.q].key],
               d.p, IF Link(d.node, d.p, 1) = d.q THEN 1 ELSE 0, Heir(d.node, d.q))

Without(node, gone, root) ==
  LET kept == [m \in DOMAIN node \ gone |-> node[m]]
  IN  IF root = Nil THEN kept ELSE SetRed(kept, root, FALSE)

rb_tree_remove_node(t, key) ==
  LET head == [key |-> Nil, red |-> FALSE, link |-> <<Nil, t.root>>]
      mem == [m \in DOMAIN t.node \cup {FalseRoot} |-> IF m = FalseRoot THEN head ELSE t.node[m]]
      start == [node |-> mem, g |-> Nil, p |-> Nil, q |-> FalseRoot, f |-> Nil, dir |-> 1]
      Rooted(cut, root, gone) ==
        [node |-> Without(cut, {FalseRoot} \cup gone, root), root |-> root,
         elements |-> t.elements - Cardinality(gone)]
      Cut(cut, gone) == Rooted(cut, Link(cut, FalseRoot, 1), gone)
      Found(d) == Cut(Unlink(d), IF d.f = Nil THEN {} ELSE {d.q})
  IN  IF t.root = Nil THEN t ELSE Found(Descend(start, key))
-----------------------------------------------------------------------------
(* The cursor: a node and the stack of the nodes above it that are still to    *)
(* be returned to.                                                             *)

RECURSIVE DownTo(_, _, _, _)
DownTo(t, n, stack, dir) ==
  IF Link(t.node, n, dir) = Nil THEN [n |-> n, stack |-> stack]
  ELSE DownTo(t, Link(t.node, n, dir), Append(stack, n), dir)

\* rb_tree_first, for a tree that is not empty.
rb_tree_first(t) == DownTo(t, t.root, << >>, 0)

\* Up the stack, past every node whose subtree in direction dir is finished.
RECURSIVE UpFrom(_, _, _, _)
UpFrom(t, n, stack, dir) ==
  IF stack = << >> THEN [n |-> Nil, stack |-> << >>]
  ELSE LET p == Last(stack)
       IN IF Link(t.node, p, dir) = n THEN UpFrom(t, p, Front(stack), dir)
          ELSE [n |-> p, stack |-> Front(stack)]

\* rb_tree_next (dir 1) and rb_tree_prev (dir 0).
rb_tree_traverse(t, it, dir) ==
  IF Link(t.node, it.n, dir) # Nil
  THEN DownTo(t, Link(t.node, it.n, dir), Append(it.stack, it.n), 1 - dir)
  ELSE UpFrom(t, it.n, it.stack, dir)

\* The keys rb_tree_first and rb_tree_next return, in their order.
RECURSIVE KeysFrom(_, _)
KeysFrom(t, it) ==
  IF it.n = Nil THEN << >>
  ELSE <<t.node[it.n].key>> \o KeysFrom(t, rb_tree_traverse(t, it, 1))

KeysInOrder(t) == IF t.root = Nil THEN << >> ELSE KeysFrom(t, rb_tree_first(t))
-----------------------------------------------------------------------------
\* rb_tree_check: the number of black nodes on every path below n, 0 if a red
\* node has a red child, a child is on the wrong side or two paths differ.
RECURSIVE rb_tree_check(_, _)
rb_tree_check(node, n) ==
  IF n = Nil THEN 1
  ELSE LET ln == Link(node, n, 0)
           rn == Link(node, n, 1)
           lh == rb_tree_check(node, ln)
           rh == rb_tree_check(node, rn)
       IN IF \/ is_red(node, n) /\ (is_red(node, ln) \/ is_red(node, rn))
             \/ ln # Nil /\ node[ln].key >= node[n].key
             \/ rn # Nil /\ node[rn].key <= node[n].key
             \/ lh # rh \/ lh = 0
          THEN 0
          ELSE IF is_red(node, n) THEN lh ELSE lh + 1
=============================================================================
