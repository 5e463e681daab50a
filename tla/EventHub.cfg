\* Two firing threads, a subscriber that summarizes and may hang, one that is cut off.
SPECIFICATION FairSpec
CONSTANTS
  Thread = {t1, t2}
  Sub = {slow, strict}
  Detaching = {strict}
  Hanging = {slow}
  Capacity = 2
  MaxEvents = 3
INVARIANTS EverythingIsCounted
PROPERTIES SeenInOrder QuietAfterUnsubscribe NobodyWaitsForTheHanging
CHECK_DEADLOCK FALSE
