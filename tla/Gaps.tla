-------------------------------- MODULE Gaps --------------------------------
(***************************************************************************)
(* mem/vmar.c: how the children of one region are kept in the augmented    *)
(* red-black tree of RbTree, and how a place for a new child is found.     *)
(*                                                                         *)
(* All of it runs under m_vmar_lock, so a call is one step.  Children are  *)
(* told apart by their first page: vmar_t objects are interchangeable, and *)
(* no two linked children share a page.  Page numbers do not overflow      *)
(* (vmar.c:58), so they are integers.                                      *)
(***************************************************************************)
EXTENDS RbTree, Sequences, FiniteSets

CONSTANTS
  Base,        \* first page of the region
  PageCount,   \* and its size
  Sizes,       \* the page counts callers ask for
  AnyOffset    \* VMAR_ANY_OFFSET

ASSUME RegionAssumption ==
  /\ Base \in Nat /\ PageCount \in Nat \ {0} /\ Sizes \subseteq Nat \ {0}
  /\ Node = Base .. Base + PageCount - 1 /\ AnyOffset \notin Nat

End == Base + PageCount       \* vmar_end_page of the region

VARIABLES
  tree,        \* region.children, with gap and max_gap of each child
  pages,       \* page_count of each linked child
  unmapped,    \* the region has been unmapped
  asserted     \* the assertion of vmar_link_internal has failed

gapsVars == <<tree, pages, unmapped, asserted>>

GapsInit ==
  /\ tree = EmptyTree
  /\ pages = [n \in Node |-> 0]
  /\ unmapped = FALSE
  /\ asserted = FALSE

-----------------------------------------------------------------------------
(* Gap tracking *)

vmar_end_page(pg, v) == v + pg[v]

(* A child's gap reaches back to the sibling before it, or to the start of *)
(* the region.  v may be Nil, a sibling that is not there.                 *)
vmar_gap_update(t, pg, v) ==
  LET prev  == t.prev[v]
      start == IF prev = Nil THEN Base ELSE vmar_end_page(pg, prev)
  IN  IF v = Nil THEN t ELSE propagate([t EXCEPT !.gap[v] = v - start], v, Nil)

(* The gap after the last child belongs to no node. *)
TailStart(t, pg) == LET last == rb_last(t) IN IF last = Nil THEN Base ELSE vmar_end_page(pg, last)
vmar_tail_gap(t, pg) == End - TailStart(t, pg)

-----------------------------------------------------------------------------
(* Comparing and searching *)

(* Ranges that touch taken for ranges that overlap *)
CompareTouching(pg, p, n) ==
  [x \in Node |-> CASE p + n < x                 -> -1
                    [] p > vmar_end_page(pg, x)   -> 1
                    [] OTHER                      -> 0]

(* The range of n pages from p against each child; overlaps are equal. *)
vmar_compare_ranges(pg, p, n) ==
  [x \in Node |-> CASE p + n <= x                -> -1
                    [] p >= vmar_end_page(pg, x)  -> 1
                    [] OTHER                      -> 0]

(* vmar_find_internal: an address is a range of one page *)
vmar_address_find_cmp(pg, p) ==
  [x \in Node |-> CASE p < x                     -> -1
                    [] p >= vmar_end_page(pg, x)  -> 1
                    [] OTHER                      -> 0]
vmar_find_internal(t, pg, p) == rb_find(t, vmar_address_find_cmp(pg, p))

(* vmar_check_in_parent *)
InParent(p, n) == p >= Base /\ p + n <= End

vmar_find_gap(t, pg, n) ==
  LET v == rb_find_first_fit(t, n)
  IN  CASE v # Nil                             -> v - t.gap[v]
        [] v = Nil /\ vmar_tail_gap(t, pg) >= n -> TailStart(t, pg)
        [] OTHER                               -> Nil

(* vmar_find_place: the first page of a place, Nil when there is none *)
vmar_find_place(offset, n) ==
  CASE unmapped           -> Nil
    [] ~unmapped /\ offset = AnyOffset -> vmar_find_gap(tree, pages, n)
    [] OTHER ->
         IF /\ InParent(Base + offset, n)
            /\ rb_find(tree, vmar_compare_ranges(pages, Base + offset, n)) = Nil
         THEN Base + offset ELSE Nil

-----------------------------------------------------------------------------
(* The calls *)

(* vmar_link_internal: while the tree is rebalanced the child has no gap, *)
(* then its own gap and that of the sibling after it are computed.         *)
vmar_link_internal(t, pg, p, parent, side) ==
  LET t1 == rb_add_augmented_linked(t, p, parent, side)
      t2 == vmar_gap_update(t1, pg, p)
  IN  vmar_gap_update(t2, pg, t2.next[p])

(* vmar_allocate_static, and the placing in vmar_map and vmar_link *)
vmar_allocate_static(offset, n) ==
  LET p  == vmar_find_place(offset, n)
      pg == [pages EXCEPT ![p] = n]
      at == Descend(tree, vmar_compare_ranges(pages, p, n), tree.root, Nil, "left")
  IN  /\ ~asserted
      /\ \/ p = Nil /\ UNCHANGED gapsVars
         \/ /\ p # Nil /\ at.equal # Nil
            /\ asserted' = TRUE
            /\ UNCHANGED <<tree, pages, unmapped>>
         \/ /\ p # Nil /\ at.equal = Nil
            /\ tree' = vmar_link_internal(tree, pg, p, at.parent, at.side)
            /\ pages' = pg
            /\ UNCHANGED <<unmapped, asserted>>

(* A removal that forgets the sibling after the child *)
RemovedAlone(t, pg, v) == rb_erase_augmented_linked(t, v)

(* The end of vmar_unmap_internal: the sibling after the child now borders *)
(* on the one before it.                                                   *)
Removed(t, pg, v) ==
  vmar_gap_update(rb_erase_augmented_linked(t, v), pg, t.next[v])

(* vmar_unmap of a child *)
vmar_unmap(v) ==
  /\ ~asserted /\ pages[v] > 0
  /\ tree' = Removed(tree, pages, v)
  /\ pages' = [pages EXCEPT ![v] = 0]
  /\ UNCHANGED <<unmapped, asserted>>

(* vmar_unmap_internal of the region itself: along the links, the next     *)
(* child is read before the current one goes.                              *)
RECURSIVE UnmapChildren(_, _, _)
UnmapChildren(t, pg, it) ==
  IF it = Nil THEN [tree |-> t, pages |-> pg]
  ELSE UnmapChildren(Removed(t, pg, it), [pg EXCEPT ![it] = 0], t.next[it])

UnmapRegion ==
  LET end == UnmapChildren(tree, pages, tree.first)
  IN  /\ ~asserted /\ ~unmapped
      /\ tree' = end.tree
      /\ pages' = end.pages
      /\ unmapped' = TRUE
      /\ UNCHANGED asserted

GapsNext ==
  \/ \E n \in Sizes, offset \in {AnyOffset} \cup 0..PageCount : vmar_allocate_static(offset, n)
  \/ \E v \in Node : vmar_unmap(v)
  \/ UnmapRegion

GapsSpec == GapsInit /\ [][GapsNext]_gapsVars

-----------------------------------------------------------------------------
(* Properties *)

Linked == {v \in Node : pages[v] > 0}
Covered == UNION {v .. v + pages[v] - 1 : v \in Linked}
Least(S) == CHOOSE x \in S : \A y \in S : x <= y
Greatest(S) == CHOOSE x \in S : \A y \in S : x >= y
LeastOrNil(S) == IF S = {} THEN Nil ELSE Least(S)
Before(v) == {x \in Linked : x < v}
After(v) == {x \in Linked : x > v}

(* The nodes from n down, and the black nodes on the way to a missing      *)
(* child, -1 when two ways differ                                          *)
RECURSIVE Subtree(_)
Subtree(n) == IF n = Nil THEN {}
              ELSE {n} \cup UNION {Subtree(tree.child[n][s]) : s \in Side}
RECURSIVE BlackHeight(_)
BlackHeight(n) ==
  IF n = Nil THEN 0
  ELSE LET l == BlackHeight(tree.child[n]["left"])
           r == BlackHeight(tree.child[n]["right"])
       IN  IF l = r /\ l >= 0 THEN l + (IF tree.black[n] THEN 1 ELSE 0) ELSE -1

(* rbtree.c:16-28: the root is black, a red node has no red child, every   *)
(* path to a leaf has the same number of black nodes; and the tree holds   *)
(* exactly the linked children, each known to its parent.                  *)
RedBlack ==
  /\ Subtree(tree.root) = Linked
  /\ tree.root # Nil => tree.black[tree.root] /\ tree.parent[tree.root] = Nil
  /\ BlackHeight(tree.root) >= 0
  /\ \A v \in Linked, s \in Side :
       LET c == tree.child[v][s]
       IN  c # Nil => tree.parent[c] = v /\ (tree.black[v] \/ tree.black[c])

RECURSIVE Postorder(_)
Postorder(n) == IF n = Nil THEN <<>> ELSE <<n>> \o Postorder(rb_next_postorder(tree, n))

(* The links, rb_leftmost and the walks over the tree (rb_next, rb_prev,   *)
(* rb_first, rb_last) agree with the order of the addresses, so that       *)
(* vmar_lock and vmar_unmap of a region reach every child: after the       *)
(* latter none is left.  The postorder walk visits every child once, after *)
(* the nodes below it.                                                     *)
LinksInOrder ==
  /\ \A v \in Linked :
       LET next == LeastOrNil(After(v))
           prev == IF Before(v) = {} THEN Nil ELSE Greatest(Before(v))
       IN  tree.next[v] = next /\ rb_next(tree, v) = next
           /\ tree.prev[v] = prev /\ rb_prev(tree, v) = prev
  /\ tree.first = LeastOrNil(Linked) /\ rb_first(tree) = tree.first
  /\ rb_last(tree) = (IF Linked = {} THEN Nil ELSE Greatest(Linked))
  /\ unmapped => tree = EmptyTree /\ Linked = {}
  /\ LET walk == Postorder(rb_first_postorder(tree))
     IN  /\ Len(walk) = Cardinality(Linked)
         /\ \A i \in 1..Len(walk) :
              Subtree(walk[i]) \subseteq {walk[j] : j \in 1..i}

(* Every gap is the free space right before its child, and every max_gap   *)
(* the largest gap below it, after any sequence of insertions, removals    *)
(* and rotations.                                                          *)
GapsExact ==
  \A v \in Linked :
    LET start == IF Before(v) = {} THEN Base ELSE vmar_end_page(pages, Greatest(Before(v)))
    IN  /\ tree.gap[v] = v - start
        /\ tree.max[v] = Greatest({tree.gap[w] : w \in Subtree(v)})

(* "first fit, the lowest gap that can hold the child" (vmar.c:236): of    *)
(* any size, the lowest place that is free, and none only when none is.    *)
FirstFit ==
  \A n \in 1..PageCount :
    vmar_find_gap(tree, pages, n) =
      LeastOrNil({p \in Base..(End - n) : (p .. p + n - 1) \cap Covered = {}})

(* A search by address finds the child that contains it, the search for an *)
(* overlap misses none, and a place that was found is never refused by the *)
(* assertion in vmar_link_internal.                                        *)
LookupExact ==
  /\ ~asserted
  /\ \A p \in Node :
       /\ vmar_find_internal(tree, pages, p) =
            LeastOrNil({v \in Linked : p \in v .. v + pages[v] - 1})
       /\ \A n \in 1..(End - p) :
            (rb_find(tree, vmar_compare_ranges(pages, p, n)) = Nil)
              <=> ((p .. p + n - 1) \cap Covered = {})
=============================================================================
