SPECIFICATION ConfiguredSpec
CONSTANTS
  Writes = {w1, w2}
  Targets = {t1, t2}
  None = None
  Foreign = Foreign
  Locked = {}
  MaxBoots = 3
  MaxSaves = 2
  MaxEdits = 1
  Deliveries = {d1}
  Chats = {"one", "two"}
  EnvSecret = 9
  Longest = 2
  MaxRestarts = 1
INVARIANTS StoreSurvives DeliveriesAreSound
PROPERTIES SettingTakesEffect
CHECK_DEADLOCK FALSE
SYMMETRY Interchangeable
