---------------------------- MODULE MCTableParse ----------------------------
EXTENDS TableParse

\* Version 7 has two sections, version 8 one and version 9 three.
SomeLast == [v \in Versions |-> CASE v = 7 -> 1 [] v = 8 -> 0 [] v = 9 -> 2]

\* Sections of one packet, of one packet without stuffing, and of several.
SomeLength ==
  [v \in Versions |->
     [n \in 0..SomeLast[v] |->
        CASE v = 7 -> 5 - 3 * n [] v = 8 -> 3 [] v = 9 -> 1 + 2 * n]]
=============================================================================
