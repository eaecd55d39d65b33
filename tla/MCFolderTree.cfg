SPECIFICATION Spec
CONSTANTS
  n1 = n1
  n2 = n2
  Requests = {r1, r2}
  Names = {n1, n2}
  Template <- TwoFolders
  MaxFolders = 3
  MaxPath = 3
  MaxBegun = 3
SYMMETRY Symmetry
INVARIANTS TypeOK OnlyCrossingUpdatesLoop OnlyRacedRemovalsOrphan PathsAgree
