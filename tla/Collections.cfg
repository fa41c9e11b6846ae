SPECIFICATION Spec
CONSTANTS
  c1 = c1
  c2 = c2
  s1 = s1
  s2 = s2
  n1 = n1
  n2 = n2
  p1 = p1
  p2 = p2
  Unlinked = Unlinked
  Top = Top
  Keep = Keep
  Nothing = Nothing
  Cols = {c1, c2}
  Subs = {s1, s2}
  Names = {n1, n2}
  Pages = {p1, p2}
  Tails = {}
  MaxSize = 4
  MaxItems = 2
  MaxStale = 1
SYMMETRY Symmetry
INVARIANT OrderListsPages PagesWhereAsked NavFindsPages
PROPERTY ImplementsStore
