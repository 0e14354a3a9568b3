SPECIFICATION Spec
CONSTANTS
    Block <- MCBlock
    Round <- MCRound
    Ancestors <- MCAncestors
    History <- MCHistory
    Leaders <- MCLeaders
    SubDags <- MCSubDags
    GcDepth = 2
    MaxBatch = 2
INVARIANTS
    SubDagAgreement
    LinearizerNeverPanics
    DeliveredIsStored
    
PROPERTIES
    StorageOnlyGrows
