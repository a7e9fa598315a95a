SPECIFICATION Spec
CONSTANTS
    Agents = {a1, a2}
    Calls = {c1, c2, c3, c4, c5}
    Threshold = 2
    Window = 2
    Cooldown = 2
    MaxTime = 5
INVARIANTS TypeOK TripsJustified NoMissedTrip TripsSeparate FailuresBounded
PROPERTIES QuarantineFixed QuarantineEnds
