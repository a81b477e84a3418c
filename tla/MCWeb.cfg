SPECIFICATION WebSpec
CONSTANTS
  Tabs = {tab1, tab2}
  Users = {alice}
  ApiCalls = {c1, c2}
  Nobody = Nobody
  Closed = Closed
  MaxSignIns = 1
  MaxFaults = 1
  MaxVisits = 2
  MaxStrangers = 1
  MaxSaves = 2
  Schemas = {s1, s2}
  Names = {n1}
  Tables = {t1, t2}
  MaxConfirms = 2
  MaxMoves = 1
  Connections = {A, B}
  Databases = {d, e}
  MaxTabs = 2
  MaxTexts = 2
  MaxRuns = 2
  MaxJumps = 2
INVARIANTS SessionsAreSound ShowsOwnChanges FormsAreSound DialogsAreSound PagesAreSound
PROPERTIES SessionsSettle
CHECK_DEADLOCK FALSE
