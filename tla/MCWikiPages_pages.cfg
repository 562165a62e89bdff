SPECIFICATION Spec
CONSTANTS
  Summaries = {s1, s2}
  Topic = Topic
  Generations = {g1, g2, g3}
  Topical = {g1, g2}
  Cited = {g1}
  Manual = Manual
  Transactions = {t1, t2}
  None = None
  MaxChanges = 3
SYMMETRY Symmetry
INVARIANTS
  OneCandidate
  TopicFollowsSummaries
PROPERTIES
  ReviewsAreFinal
  ChangesReplaceTheirBase
  EditsStandInTurn
CHECK_DEADLOCK FALSE
