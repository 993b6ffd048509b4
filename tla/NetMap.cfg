SPECIFICATION MCSpec
CONSTANTS
    Ids = {n1, n2}
    Gens = {g1, g2}
    Regions = {1, 2}
    d1 = d1
    d2 = d2
    Discos = {d1, d2}
    Infos <- MCInfos
    None = None
SYMMETRY Symmetry
INVARIANTS NetmapIsServers  MagicFollows
