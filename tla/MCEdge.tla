-------------------------------- MODULE MCEdge --------------------------------
EXTENDS Edge

\* The sequence number of a file name is not part of the context.
OneContext == [p \in Paths |-> "context"]

\* Bound: the camera writes two files, of one name or of two.
TwoFiles == \A p, o \in Paths : p # o => writes[p] + writes[o] <= 2

\* Bound: faults of scan, upload and backend together.  Two of them let one hit the
\* recovery from the other, in the same part or in another.
TwoFaults == failures + faults + aborts <= 2

SmallNext == EdgeNext /\ (TwoFiles /\ TwoFaults)'

SmallSpec == EdgeInit /\ [][SmallNext]_edgeVars /\ EdgeFairness

=============================================================================
