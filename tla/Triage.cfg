CONSTANTS
  m1 = m1
  m2 = m2
  t1 = t1
  t2 = t2
  bulk = bulk
  boss = boss
  c = c
  Msg = {m1, m2}
  Thread = {t1, t2}
  ThreadOf <- OwnThread
  Identity = {bulk, boss}
  NoList = NoList
  Category = {c}
  NoCategory = NoCategory
  Settings <- SomeSettings
  MinLabelVotes = 2
  MinRuleVotes = 2
  MaxSent = 2
  PageSize = 1
SPECIFICATION Spec
INVARIANTS TypeOK IndexComplete VotesCounted
PROPERTIES RepliesProtected LabelsEarned
CHECK_DEADLOCK FALSE
