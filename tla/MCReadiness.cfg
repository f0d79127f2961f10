CONSTANTS
  Fixed <- MCFixed
  Varying <- MCVarying
  UserMakefiles <- MCUserMakefiles
SPECIFICATION Spec
INVARIANTS GeneratedVerifyIsHonest GapsAreListed BoundsAreHonest
PROPERTIES AdoptNeverLowers EvidenceOnlyGrows
