CONSTANTS
  Nil = Nil
  AnyOffset = AnyOffset
  Base = 3
  PageCount = 9
  Sizes = {1, 2, 4}
  Node <- MCNode
SPECIFICATION GapsSpec
INVARIANTS
  RedBlack
  LinksInOrder
  GapsExact
  FirstFit
  LookupExact
