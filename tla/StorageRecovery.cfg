SPECIFICATION Spec
CONSTANTS
  Blob = {b1}
  NoBlob = NoBlob
  Keep = 1
  MaxBackup = 3
  MaxTrouble = 1
INVARIANT EvidenceReadable
 
PROPERTY RestoreSafe
PROPERTY RecoveryPoints
CHECK_DEADLOCK FALSE
