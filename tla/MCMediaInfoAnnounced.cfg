SPECIFICATION Spec
CONSTANTS
  a = a
  b = b
  Songs <- MCSongs
  Blank = Blank
  NoProps = NoProps
  NoArt = NoArt
  Sizes <- MCSizes
  QueueCapacity = 2
  MaxAttempts = 2
  MaxRetries = 2
INVARIANT
  AlwaysAnnounced
