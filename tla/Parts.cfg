SPECIFICATION Spec
INVARIANTS AdmittedOnce InputIsExact StopsCleanly ReactorIsSound
           PeersAreSound NoStall
PROPERTIES HeapIsSet NoStaleDispatch
CHECK_DEADLOCK FALSE
