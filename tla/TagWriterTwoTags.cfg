SPECIFICATION Spec
CONSTANTS
  s1 = s1
  s2 = s2
  Tag = {t1, t2}
  Spool = {s1}
  Setting = {here}
  Block <- MCBlock
  Header = "header"
  Identity <- MCIdentity
  Word <- MCWord
  Zero = "zero"
  Images <- MCImages
  Decodable <- MCDecodable
  ForeignImages <- MCBlankOnly
  Torn <- MCTorn
  NoPlan = NoPlan
  NoRecord = NoRecord
  NoSpool = NoSpool
  NoSetting = NoSetting

  
  
PROPERTIES
  WriteAhead
  ForeignRecordKept
SYMMETRY MCSymmetry
