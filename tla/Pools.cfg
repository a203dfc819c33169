SPECIFICATION Spec
INVARIANTS
    SnapshotOfOneBlock FreshProjectionExact 
PROPERTY PlansAreCurrent
CHECK_DEADLOCK FALSE
