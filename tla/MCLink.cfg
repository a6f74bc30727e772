CONSTANTS
  Phone = Phone
  s1 = s1
  s2 = s2
  h1 = h1
  h2 = h2
  Strangers = {s1, s2}
  Nobody = Nobody
  Handles = {h1, h2}
  MaxBonds = 2
  MaxGen = 1
  Threshold = 2
  BackoffAfter = 1
  PowerLossPoints <- NotBumped
  MaxVisits = 2
  MaxMishaps = 2
SPECIFICATION NearbySpec
INVARIANTS AuthorisationIsEarned NeverSilent PairedKnowsItsPeer
PROPERTIES PairedBondSurvives RotationIsProven StaleBondHeals
