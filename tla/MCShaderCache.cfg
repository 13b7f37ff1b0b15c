\* Two keys, blobs of one and two pieces, room for two or three records.
CONSTANTS
  k1 = k1
  k2 = k2
  x = x
  y = y
  Keys <- TwoKeys
  Pieces <- TwoPieces
  Blobs <- TwoBlobs
  Envs <- ThreeEnvs
  NoEnv = NoEnv
  MaxCells = 9
SPECIFICATION Spec
SYMMETRY KeySymmetry
INVARIANTS
  TypeOK
  EnvIsolation
  StoredIsFound
  CountHonest
