\* One record, spilled in part, is enough for a hit without its blob.
CONSTANTS
  k1 = k1
  k2 = k2
  x = x
  y = y
  Keys <- TwoKeys
  Pieces <- TwoPieces
  Blobs <- TwoBlobs
  Envs <- ThreeEnvs
  NoEnv = NoEnv
  MaxCells = 6
SPECIFICATION Spec
SYMMETRY KeySymmetry
INVARIANT HitDelivers
