SPECIFICATION Spec
CONSTANTS
    Mains = {m1, m2}
    Advisors = {a1, a2}
    Requests = {i1, i2}
    Lineages = {l1}
    Lenses = {x1}
    AskedHosts = {"rotate"}
    Bodies = {b1}
    MaxPreCode = 1
    MaxVersion = 2
    MaxFaults = 1
    Lost = Lost
    Refused = Refused
    None = None
SYMMETRY Symmetry
INVARIANTS TypeOK AnswerBound RelayOwnsFiles CapturedIsStored
PROPERTIES StatusFinal
CHECK_DEADLOCK FALSE
