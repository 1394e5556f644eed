SPECIFICATION Spec
CONSTANTS
    Requests = {r1, r2, r3}
    Keys = {k1}
    NoKey = NoKey
    Bodies = {b1, b2}
    Seeded = {s1}
    Nothing = Nothing
    MaxFailures = 1
SYMMETRY RequestSymmetry
CHECK_DEADLOCK FALSE
INVARIANTS
    TypeOK
    ConfirmedIffEvent
    AnsweredIsNotRepeated
    DoubleConfirmOverlaps
    AnswerMatchesBody
PROPERTIES
    ServiceSpec
