\* The set-up, the OT extensions, the triples made from OTs, and the silent OT.
SPECIFICATION FairSpec
INVARIANTS RowsAgree Transferred InStep TriplesCorrect ReadsInStep SeedsMatch Agree KeysOnce Covers
PROPERTIES Termination
CHECK_DEADLOCK FALSE
