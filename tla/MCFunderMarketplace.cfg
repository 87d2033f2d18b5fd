\* Two offers of up to two units compete for three; one event may arrive.
SPECIFICATION FunderSpec
CONSTANTS
    Absent = Absent
    Programs = {p1}
    Suited = {p1}
    Applications = {a1}
    Offers = {o1, o2}
    Reservations = {r1, r2, r3}
    Keys = {k1, k2, k3}
    Events = {e1}
    RequestAmounts = {1, 2}
    Capacity = 3
    Maximum = 2
    MaxEventVersion = 3
SYMMETRY Symmetry
INVARIANTS CapacityConserved OneLiveReservation
PROPERTY CommittedCapacityHeld
CHECK_DEADLOCK FALSE
