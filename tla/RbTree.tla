------------------------------- MODULE RbTree -------------------------------
(***************************************************************************)
(* lib/rbtree: the red-black tree with links in address order (rb_prev and *)
(* rb_next of a linked node) and augmented with the maximum of a per node  *)
(* number, which vmar.c uses to find a gap.                                *)
(*                                                                         *)
(* A tree is a record of functions over the nodes.  The C code writes each *)
(* case twice, once per direction; here a case is written once, for a side *)
(* s and its Other.  Every loop is a RECURSIVE operator.                   *)
(***************************************************************************)
EXTENDS Integers

CONSTANTS
  Node,     \* the nodes there can be
  Nil       \* nullptr

ASSUME NilAssumption == Nil \notin Node

Side == {"left", "right"}
Other(s) == IF s = "left" THEN "right" ELSE "left"

(* A node that is in no tree: RB_CLEAR_LINKED_NODE, then freed *)
EmptyTree ==
  [root   |-> Nil,                                       \* rb_root.rb_node
   first  |-> Nil,                                       \* rb_leftmost
   child  |-> [n \in Node |-> [s \in Side |-> Nil]],     \* rb_left, rb_right
   parent |-> [n \in Node |-> Nil],                      \* __rb_parent_color
   black  |-> [n \in Node |-> FALSE],                    \* its low bit
   prev   |-> [n \in Node |-> Nil],
   next   |-> [n \in Node |-> Nil],
   gap    |-> [n \in Node |-> 0],                        \* RBCOMPUTE(node)
   max    |-> [n \in Node |-> 0]]                        \* RBAUGMENTED

IsRed(t, n) == n # Nil /\ ~t.black[n]

(* Stores through a pointer that may be null are guarded by "if (tmp)". *)
rb_set_parent(t, n, p) == IF n = Nil THEN t ELSE [t EXCEPT !.parent[n] = p]
rb_set_parent_color(t, n, p, black) ==
  IF n = Nil THEN t ELSE [t EXCEPT !.parent[n] = p, !.black[n] = black]

rb_change_child(t, old, new, parent) ==
  CASE parent = Nil                    -> [t EXCEPT !.root = new]
    [] t.child[parent]["left"] = old   -> [t EXCEPT !.child[parent]["left"] = new]
    [] OTHER                           -> [t EXCEPT !.child[parent]["right"] = new]

(* new takes old's place and color, old becomes its child. *)
rb_rotate_set_parents(t, old, new, black) ==
  LET p  == t.parent[old]
      t1 == rb_set_parent_color(t, new, p, t.black[old])
      t2 == rb_set_parent_color(t1, old, new, black)
  IN  rb_change_child(t2, old, new, p)

-----------------------------------------------------------------------------
(* The augmented data: RB_DECLARE_CALLBACKS_MAX *)

MaxOf(t, n) == IF n = Nil THEN 0 ELSE t.max[n]

compute_max(t, n) ==
  LET Larger(a, b) == IF a > b THEN a ELSE b
  IN  Larger(t.gap[n], Larger(MaxOf(t, t.child[n]["left"]), MaxOf(t, t.child[n]["right"])))

(* Up from n, until stop or until a maximum does not change *)
RECURSIVE propagate(_, _, _)
propagate(t, n, stop) ==
  IF n = stop \/ t.max[n] = compute_max(t, n) THEN t
  ELSE propagate([t EXCEPT !.max[n] = compute_max(t, n)], t.parent[n], stop)

copy(t, old, new) == [t EXCEPT !.max[new] = t.max[old]]

(* A rotation that leaves old with the maximum it had before *)
RotateKeeps(t, old, new) == copy(t, old, new)

rotate(t, old, new) ==
  LET t1 == copy(t, old, new) IN [t1 EXCEPT !.max[old] = compute_max(t1, old)]

-----------------------------------------------------------------------------
(* As far as the children on side s go *)
RECURSIVE Furthest(_, _, _)
Furthest(t, n, s) == IF t.child[n][s] = Nil THEN n ELSE Furthest(t, t.child[n][s], s)

(* Insertion *)

(* rb_link_linked_node: into the links, before or after the tree parent *)
rb_link_linked_node(t, n, parent, s) ==
  IF parent = Nil THEN t
  ELSE IF s = "left"
  THEN LET before == t.prev[parent]
           t1 == [t EXCEPT !.prev[n] = before, !.next[n] = parent, !.prev[parent] = n]
       IN  IF before = Nil THEN t1 ELSE [t1 EXCEPT !.next[before] = n]
  ELSE LET after == t.next[parent]
           t1 == [t EXCEPT !.next[n] = after, !.prev[n] = parent, !.next[parent] = n]
       IN  IF after = Nil THEN t1 ELSE [t1 EXCEPT !.prev[after] = n]

(* rb_link_node: a red leaf *)
rb_link_node(t, n, parent, s) ==
  LET t1 == [t EXCEPT !.parent[n] = parent, !.black[n] = FALSE,
                      !.child[n] = [x \in Side |-> Nil]]
  IN  IF parent = Nil THEN [t1 EXCEPT !.root = n] ELSE [t1 EXCEPT !.child[parent][s] = n]

(* The uncle alone painted black *)
FlipUncle(t, parent, gparent, uncle) ==
  [rb_set_parent_color(t, uncle, gparent, TRUE) EXCEPT !.black[gparent] = FALSE]

(* Case 1, the uncle is red: the colors flip *)
InsertFlip(t, parent, gparent, uncle) ==
  LET t1 == rb_set_parent_color(t, uncle, gparent, TRUE)
      t2 == rb_set_parent_color(t1, parent, gparent, TRUE)
  IN  [t2 EXCEPT !.black[gparent] = FALSE]

(* Case 2, the node is an inner child: a rotation at the parent makes the  *)
(* parent an outer one.                                                    *)
InsertInner(t, node, parent, s) ==
  LET tmp == t.child[node][s]
      t1  == [t EXCEPT !.child[parent][Other(s)] = tmp, !.child[node][s] = parent]
      t2  == rb_set_parent_color(t1, tmp, parent, TRUE)
      t3  == rb_set_parent_color(t2, parent, node, FALSE)
  IN  rotate(t3, parent, node)

(* Case 3, an outer child: a rotation at the grandparent *)
InsertOuter(t, parent, gparent, s) ==
  LET tmp == t.child[parent][Other(s)]
      t1  == [t EXCEPT !.child[gparent][s] = tmp, !.child[parent][Other(s)] = gparent]
      t2  == rb_set_parent_color(t1, tmp, gparent, TRUE)
      t3  == rb_rotate_set_parents(t2, gparent, parent, FALSE)
  IN  rotate(t3, gparent, parent)

RECURSIVE rb_insert(_, _)
rb_insert(t, node) ==
  LET parent  == t.parent[node]
      gparent == t.parent[parent]
      s       == IF parent # t.child[gparent]["right"] THEN "left" ELSE "right"
      uncle   == t.child[gparent][Other(s)]
  IN  CASE parent = Nil          -> rb_set_parent_color(t, node, Nil, TRUE)
        [] parent # Nil /\ t.black[parent] -> t
        [] IsRed(t, parent) /\ IsRed(t, uncle) ->
             rb_insert(InsertFlip(t, parent, gparent, uncle), gparent)
        [] OTHER ->
             IF node = t.child[parent][Other(s)]
             THEN InsertOuter(InsertInner(t, node, parent, s), node, gparent, s)
             ELSE InsertOuter(t, parent, gparent, s)

(* The search for the place of a node.  cmp[x] is the outcome of comparing *)
(* the key with node x.  The answer is the node that is equal, or the      *)
(* parent and the side where the key belongs.                              *)
RECURSIVE Descend(_, _, _, _, _)
Descend(t, cmp, n, parent, s) ==
  CASE n = Nil                    -> [equal |-> Nil, parent |-> parent, side |-> s]
    [] n # Nil /\ cmp[n] < 0      -> Descend(t, cmp, t.child[n]["left"], n, "left")
    [] n # Nil /\ cmp[n] > 0      -> Descend(t, cmp, t.child[n]["right"], n, "right")
    [] OTHER                      -> [equal |-> n, parent |-> parent, side |-> s]

rb_find(t, cmp) == Descend(t, cmp, t.root, Nil, "left").equal

(* The part of rb_find_add_augmented_linked after the search found no node *)
rb_add_augmented_linked(t, n, parent, s) ==
  LET t0 == [t EXCEPT !.prev[n] = Nil, !.next[n] = Nil]
      t1 == rb_link_linked_node(t0, n, parent, s)
      t2 == IF t1.prev[n] = Nil THEN [t1 EXCEPT !.first = n] ELSE t1
      t3 == rb_link_node(t2, n, parent, s)
  IN  rb_insert(propagate(t3, parent, Nil), n)

-----------------------------------------------------------------------------
(* Erasure *)

(* The leftmost child unlinked as if there were one before it *)
UnlinkKeepsFirst(t, n) ==
  LET p  == t.prev[n]
      q  == t.next[n]
      t1 == IF p = Nil THEN t ELSE [t EXCEPT !.next[p] = q]
  IN  IF q = Nil THEN t1 ELSE [t1 EXCEPT !.prev[q] = p]

(* __rb_unlink_linked_node *)
rb_unlink_linked_node(t, n) ==
  LET p  == t.prev[n]
      q  == t.next[n]
      t1 == IF p = Nil THEN [t EXCEPT !.first = q] ELSE [t EXCEPT !.next[p] = q]
  IN  IF q = Nil THEN t1 ELSE [t1 EXCEPT !.prev[q] = p]

(* Case 1 of __rb_erase_augmented, at most one child: the child takes the  *)
(* node's place and color.  A black leaf leaves its parent out of balance. *)
EraseEasy(t, n) ==
  LET left  == t.child[n]["left"]
      child == IF left = Nil THEN t.child[n]["right"] ELSE left
      p     == t.parent[n]
      t1    == rb_set_parent_color(rb_change_child(t, n, child, p), child, p, t.black[n])
  IN  [tree |-> propagate(t1, p, Nil),
       rebalance |-> IF child = Nil /\ t.black[n] THEN p ELSE Nil]

(* Cases 2 and 3, two children: the successor takes the node's place.  It  *)
(* is the right child itself, or the leftmost node under it.               *)
EraseSuccessor(t, n) ==
  LET child  == t.child[n]["right"]
      succ   == Furthest(t, child, "left")
      below  == succ # child
      parent == IF below THEN t.parent[succ] ELSE succ
      child2 == t.child[succ]["right"]
      moved  == [t EXCEPT !.child[parent]["left"] = child2, !.child[succ]["right"] = child,
                          !.parent[child] = succ]
      t1 == IF below THEN propagate(copy(moved, n, succ), parent, succ)
            ELSE copy(t, n, succ)
      left == t.child[n]["left"]
      t2 == rb_set_parent([t1 EXCEPT !.child[succ]["left"] = left], left, succ)
      t3 == rb_change_child(t2, n, succ, t.parent[n])
      t4 == rb_set_parent_color(t3, child2, parent, TRUE)
      t5 == rb_set_parent_color(t4, succ, t.parent[n], t.black[n])
  IN  [tree |-> propagate(t5, succ, Nil),
       rebalance |-> IF child2 = Nil /\ t.black[succ] THEN parent ELSE Nil]

(* __rb_erase_augmented: the tree, and the node to rebalance from *)
rb_erase_node(t, n) ==
  IF Nil \in {t.child[n][s] : s \in Side} THEN EraseEasy(t, n) ELSE EraseSuccessor(t, n)

(* ____rb_erase_color: paths through the child of parent on side s have    *)
(* one black node too few; o is the sibling's side.                        *)

(* Case 1, a red sibling: a rotation at the parent gives a black one *)
EraseRedSibling(t, parent, s) ==
  LET o       == Other(s)
      sibling == t.child[parent][o]
      inner   == t.child[sibling][s]
      t1 == [t EXCEPT !.child[parent][o] = inner, !.child[sibling][s] = parent]
      t2 == rb_set_parent_color(t1, inner, parent, TRUE)
      t3 == rb_rotate_set_parents(t2, parent, sibling, FALSE)
  IN  rotate(t3, parent, sibling)

(* Case 3, only the inner nephew is red: a rotation at the sibling *)
EraseInnerNephew(t, parent, s) ==
  LET o       == Other(s)
      sibling == t.child[parent][o]
      inner   == t.child[sibling][s]
      tmp     == t.child[inner][o]
      t1 == [t EXCEPT !.child[sibling][s] = tmp, !.child[inner][o] = sibling,
                      !.child[parent][o] = inner]
      t2 == rb_set_parent_color(t1, tmp, sibling, TRUE)
  IN  rotate(t2, sibling, inner)

(* Case 4, the outer nephew is red: a rotation at the parent ends it.      *)
(* After case 3 the parent pointers of sibling and outer are set here.     *)
EraseOuterNephew(t, parent, s) ==
  LET o       == Other(s)
      sibling == t.child[parent][o]
      inner   == t.child[sibling][s]
      t1 == [t EXCEPT !.child[parent][o] = inner, !.child[sibling][s] = parent]
      t2 == rb_set_parent_color(t1, t.child[sibling][o], sibling, TRUE)
      t3 == rb_set_parent(t2, inner, parent)
      t4 == rb_rotate_set_parents(t3, parent, sibling, TRUE)
  IN  rotate(t4, parent, sibling)

RECURSIVE rb_erase_color(_, _, _)
rb_erase_color(t0, parent, node) ==
  LET s       == IF node # t0.child[parent]["right"] THEN "left" ELSE "right"
      o       == Other(s)
      t       == IF IsRed(t0, t0.child[parent][o]) THEN EraseRedSibling(t0, parent, s) ELSE t0
      sibling == t.child[parent][o]
      flipped == rb_set_parent_color(t, sibling, parent, FALSE)     \* case 2
  IN  CASE IsRed(t, t.child[sibling][o]) -> EraseOuterNephew(t, parent, s)
        [] ~IsRed(t, t.child[sibling][o]) /\ IsRed(t, t.child[sibling][s]) ->
             EraseOuterNephew(EraseInnerNephew(t, parent, s), parent, s)
        [] OTHER ->
             IF ~t.black[parent] THEN [flipped EXCEPT !.black[parent] = TRUE]
             ELSE IF t.parent[parent] = Nil THEN flipped
             ELSE rb_erase_color(flipped, t.parent[parent], parent)

(* The node's fields as RB_CLEAR_LINKED_NODE and the coming free leave     *)
(* them for the next owner of the object                                   *)
Cleared(t, n) ==
  [t EXCEPT !.child[n] = [s \in Side |-> Nil], !.parent[n] = Nil, !.black[n] = FALSE,
            !.prev[n] = Nil, !.next[n] = Nil, !.gap[n] = 0, !.max[n] = 0]

rb_erase_augmented_linked(t, n) ==
  LET e == rb_erase_node(rb_unlink_linked_node(t, n), n)
      balanced == IF e.rebalance = Nil THEN e.tree
                  ELSE rb_erase_color(e.tree, e.rebalance, Nil)
  IN  Cleared(balanced, n)

-----------------------------------------------------------------------------
(* Walking the tree *)

rb_first(t) == IF t.root = Nil THEN Nil ELSE Furthest(t, t.root, "left")
rb_last(t) == IF t.root = Nil THEN Nil ELSE Furthest(t, t.root, "right")

RECURSIVE UpFrom(_, _, _)
UpFrom(t, n, s) ==
  LET p == t.parent[n]
  IN  IF p # Nil /\ n = t.child[p][s] THEN UpFrom(t, p, s) ELSE p

(* rb_next for side "right", rb_prev for side "left" *)
Neighbour(t, n, s) ==
  IF t.child[n][s] # Nil THEN Furthest(t, t.child[n][s], Other(s)) ELSE UpFrom(t, n, s)
rb_next(t, n) == Neighbour(t, n, "right")
rb_prev(t, n) == Neighbour(t, n, "left")

(* Postorder: children before their parent *)
RECURSIVE rb_left_deepest_node(_, _)
rb_left_deepest_node(t, n) ==
  CASE t.child[n]["left"] # Nil -> rb_left_deepest_node(t, t.child[n]["left"])
    [] t.child[n]["left"] = Nil /\ t.child[n]["right"] # Nil ->
         rb_left_deepest_node(t, t.child[n]["right"])
    [] OTHER -> n

rb_first_postorder(t) == IF t.root = Nil THEN Nil ELSE rb_left_deepest_node(t, t.root)

rb_next_postorder(t, n) ==
  LET p == t.parent[n]
  IN  IF p # Nil /\ n = t.child[p]["left"] /\ t.child[p]["right"] # Nil
      THEN rb_left_deepest_node(t, t.child[p]["right"]) ELSE p

-----------------------------------------------------------------------------
(* rb_find_first_fit: the leftmost node whose gap holds size, skipping     *)
(* subtrees by their maximum                                               *)

SubtreeFits(t, n, size) == n # Nil /\ t.max[n] >= size

RECURSIVE Visit(_, _, _)
RECURSIVE CheckCurrent(_, _, _)
RECURSIVE GoUp(_, _, _)

Visit(t, n, size) ==
  IF SubtreeFits(t, t.child[n]["left"], size) THEN Visit(t, t.child[n]["left"], size)
  ELSE CheckCurrent(t, n, size)

CheckCurrent(t, n, size) ==
  CASE t.gap[n] >= size -> n
    [] t.gap[n] < size /\ SubtreeFits(t, t.child[n]["right"], size) ->
         Visit(t, t.child[n]["right"], size)
    [] OTHER -> GoUp(t, n, size)

GoUp(t, n, size) ==
  LET p == t.parent[n]
  IN  CASE p = Nil -> Nil
        [] p # Nil /\ n = t.child[p]["left"] -> CheckCurrent(t, p, size)
        [] OTHER -> GoUp(t, p, size)

rb_find_first_fit(t, size) ==
  IF SubtreeFits(t, t.root, size) THEN Visit(t, t.root, size) ELSE Nil
=============================================================================
