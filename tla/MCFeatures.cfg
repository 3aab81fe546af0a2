SPECIFICATION MCSpec
CONSTANTS
  r1 = r1
  r2 = r2
  r3 = r3
  p1 = p1
  p2 = p2
  m1 = m1
  Players <- MCAccounts
  GuildNames = {"x"}
  MaxGuilds = 1
  MaxMembers = 2
  MaxSeniors = 1
  MaxMemId = 3
  GuildJobs = {1}
  Creators = 1
  Fighters <- MCFighters
  SaveCount = 1
  MaxFight = 1
  MaxStarts = 1
  Handlers <- MCAccounts
  MaxMails = 2
  MaxBoxes = 2
  MaxBoots = 1
  Miners <- MCAccounts
  Mines <- MCMines
  MaxMines = 1
  Calls <- MCAccounts
  MaxStays = 2
  MaxRequest = 3
  MaxPieces = 2
  CronMinutes <- MCCrontab
  Tick = 2
  Second = 2
  Minute = 3
  MaxClock = 28
  MaxLoad = 2
SYMMETRY MCSymmetry
CHECK_DEADLOCK FALSE
INVARIANTS
  MCTypeOK
  OneLeader
  
  SavedOrDirty
  RankInverse
  DirtyKnowsList
  RankSavedOrDirty
  BoxSavedOrTimed
  MailOnce
  
  StrayExplained
  SentOnce
  QueryKept
  PlanKept
PROPERTY HolderStays
