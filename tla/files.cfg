\* Save with failing file operations and power failures; two unprivileged
\* processes with the same key name.
CONSTANTS
    v1 = v1  v2 = v2
    Values = {v1, v2}
    Nothing = Nothing
    Torn = Torn
    Processes = {q1, q2}
    Keys = {k1, k2, k3}
    Missing = Missing
    Short = Short
    Privileged = FALSE
SPECIFICATION FilesSpec
SYMMETRY ValueSymmetry
INVARIANTS StoreTypeOK AlwaysLoads KeyStable
PROPERTIES ImplementsRegister ShortFileSticks
