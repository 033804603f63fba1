SPECIFICATION FairSpec
CONSTANTS
  s1 = s1
  s2 = s2
  Tag = {t1}
  Spool <- MCTwoSpools
  Setting = {here, there}
  Block <- MCBlock
  Header = "header"
  Identity <- MCIdentity
  Word <- MCWord
  Zero = "zero"
  Images <- MCImages
  Decodable <- MCDecodable
  ForeignImages <- MCNone
  Torn <- MCNone
  NoPlan = NoPlan
  NoRecord = NoRecord
  NoSpool = NoSpool
  NoSetting = NoSetting
INVARIANT
  Coherent
PROPERTY
  RecoveryFinishes
