SPECIFICATION Spec
CONSTANTS
    Runs = {r1, r2}
    Bundles = {b1}
    TargetSets = {{t1}, {t1, t2}}
    LocalSet = {u}
    Builds = {k1, k2}
    NoRun = NoRun
    NoBuild = NoBuild
    NoBundle = NoBundle
    MaxStarts = 5
INVARIANT StoresAgree
PROPERTY EdgesAreStable
CHECK_DEADLOCK FALSE
