SPECIFICATION ContentSpec
CONSTANTS
  User = {u1, u2}
  Post = {p1, p2}
  Comment = {c1}
  Task = {t1, t2}
  Toggles = {"repost"}
  Person = {a1, a2}
  Track = {m1}
  Clip = {s1, s2}
  File = {f1}
  Making = {k1, k2}
  Rows = 3
  Take = 1
  MaxStamp = 4
SYMMETRY Symmetry
CHECK_DEADLOCK FALSE
INVARIANTS
  CountsFollowRows
  SoundCountsFollowRows
  StoryKeepsItsObject
  WalkServesSteadyRows
