---------------------------- MODULE MCPidFilter ----------------------------
EXTENDS PidFilter

Pid(h, l) == [high |-> h, low |-> l]

NullPacket == Pid(1, 1)

\* Four slots in two groups.
InPairs == [s \in 0..3 |-> s \div 2]

\* A list that ends in the first group, with and without its last slot, and
\* one that reaches the second.
SomeLists == {<<Pid(1, 0)>>, <<Pid(0, 1), Pid(0, 0)>>,
              <<Pid(0, 0), Pid(1, 0), Pid(0, 1)>>}
=============================================================================
