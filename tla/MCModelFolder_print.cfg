SPECIFICATION Spec
CONSTANTS
    s1 = s1  p1 = p1
    Absent = Absent  None = None  Garbled = Garbled
    Servers = {s1}
    Pullers = {p1}
    Order <- ThreeFiles
    Core <- TwoCore
    Weights = "model.onnx"
    Remote <- NewExport
    Old <- OldExport
    MaxFaults = 1
INVARIANTS FingerprintIsServed
