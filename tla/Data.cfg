\* Arrays, codes and threads: packing, transposition, matmul COT, pads, PRG,
\* ExConv and its generator, the pool and the checker of codes.
SPECIFICATION FairSpec
INVARIANTS RoundTrip Transposed BatchesFit ChosenDelivered SameStream
           Encoded WholeStream ReportedMin NoLostWakeup AllRun
PROPERTIES ImplementsIdeal Finishes
CHECK_DEADLOCK FALSE
