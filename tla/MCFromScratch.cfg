SPECIFICATION Spec
CONSTANTS
    NumNodes = 4
    Threads = {t1, t2}
    Algs = {"bfsfromscratch", "sswpfromscratch", "ssspfromscratch", "ccfromscratch"}
    Inputs <- Graphs
    DistInf = 12
    MaxBin = 99
INVARIANTS PathsExact ComponentLabels BinsInOrder QueuesFit
PROPERTY Terminates
