SPECIFICATION Spec
CONSTANTS
    Files = {f1, f2}
    NoFile = NoFile
    NumTlb = 2
    Vas = {v1}
    NoVa = NoVa
    Bar = Bar
    Sysmem = Sysmem
    MaxGen = 1
INVARIANT NoMappingSurvivesHandle
