------------------------------- MODULE MCSales -------------------------------
EXTENDS Sales

CONSTANTS o1, o2, m1, a, b, none

MCOrderOf == <<o1, o1, o2>>
MCMaterialOf == [l \in 1..3 |-> m1]
MCOrdered == <<2, 1, 1>>

MCSupply ==
  [d \in Dim |-> IF d.quality # "qualified" THEN 0
                 ELSE IF d.location = a THEN 2 ELSE IF d.location = b THEN 1 ELSE 0]

Row(l, p, q) == [line |-> l, location |-> p, quantity |-> q]

\* Part of a line, two lines, and one line twice: judged one by one the two rows
\* pass also when only one unit remains.
MCRowInput ==
  { <<Row(1, none, 1)>>, <<Row(1, none, 1), Row(2, b, 1)>>,
    <<Row(1, none, 1), Row(1, b, 1)>>, <<Row(3, none, 1)>> }
=============================================================================
