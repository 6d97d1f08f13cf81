SPECIFICATION Spec
CONSTANTS
  Source = {s1, s2}
  Char = {c1, c2}
  Wait = {w1, w2}
  Read = {r1}
  AnySource = AnySource
  MaxCached = 2
  MaxInHand = 1
SYMMETRY Alike
CONSTRAINT Apart
INVARIANTS
  NoWaitForgotten
  CacheFollowsLink
  NoReadInVain
PROPERTY
  WholeBurst
