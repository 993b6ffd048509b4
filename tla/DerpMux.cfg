SPECIFICATION Spec
CONSTANTS
    Control = control
    Callers = {control, pump}
    Regions = {r1, r2}
    NoRegion = NoRegion
    NoThread = NoThread
    cap = 1
    MaxConns = 3
    MaxHomes = 2
SYMMETRY RegionSymmetry
INVARIANTS TypeOK PoolBounded
PROPERTIES HomeIsNotEvicted
CHECK_DEADLOCK FALSE
