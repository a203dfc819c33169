SPECIFICATION Spec
INVARIANTS AnswersAreTrue  ParentsAccounted EntryStillPays
PROPERTIES KeepsPromise  ReservationsAccounted OneMutator TelemetryIsTrue
CHECK_DEADLOCK FALSE
