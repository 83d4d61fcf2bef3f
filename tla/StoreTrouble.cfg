SPECIFICATION Spec
CONSTANTS
  run = run
  leftover = leftover
  compression = compression
  resume = resume
  Appenders <- MCAppenders
  Compactors <- MCCompactors
  Readers <- MCReaders
  MaxEvents = 4
  MaxMishaps = 2
  Trouble = {"overlap", "twin-create", "killed", "disk-full"}
SYMMETRY MCSymmetry
INVARIANTS
  ReadersSeeAcked
  AckedIsStored
PROPERTIES
  FilesKeepLedger
