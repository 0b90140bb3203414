SPECIFICATION ScanSpec
CONSTANTS
  a1 = a1
  a2 = a2
  i1 = i1
  i2 = i2
  x = x
  y = y
  t1 = t1
  NSources = 2
  Tagging <- FirstSource
  Articles <- TwoArticles
  Ids <- TwoIds
  Texts <- TwoTexts
  Stories <- OneStory
  StoryOf <- SameStory
  Threshold = 2
  Limit <- Bounds
  MaxEvents = 3
  None = None
INVARIANTS
  NothingSkipped
  NoticesAlternate
PROPERTIES
  KeepsNewsroom
  EverythingCollected
  SparedOffline
