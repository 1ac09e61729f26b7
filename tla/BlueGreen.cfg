SPECIFICATION BothSpec
CONSTANTS
  MaxInst = 3
  Faults <- CallFaults
  MaxFaults = 1
  Origins <- Managed
INVARIANT TypeOK
INVARIANT OnlyProvenRouted
INVARIANT JournalNamesServing
INVARIANT VersionAgrees
INVARIANT FailedDeployKeepsService
INVARIANT RecoveryRestoresAgreement
PROPERTY NoServingKill
PROPERTY NoLiveRecordDropped
PROPERTY ImplementsService
