----------------------------- MODULE MCProduction -----------------------------
EXTENDS Production

CONSTANTS o1, i1, length, cloth, shirt, noLimit

MCLower == [i \in Item |-> 1]
MCUpper == [i \in Item |-> noLimit]

Result(good, rework, scrap) ==
  [quantity |-> good + rework + scrap, qualified |-> good, rework |-> rework, scrap |-> scrap]
MCOutcome == {Result(1, 0, 0), Result(0, 0, 1), Result(1, 1, 0)}

Of(c, s) == [m \in Material |-> IF m = cloth THEN c ELSE s]

\* The last step is a gate, or the first is.
MCRouting == {<<FALSE, TRUE>>, <<TRUE>>}
\* No list in force, and one that takes a piece of cloth per shirt.
MCBom == {Of(0, 0), Of(1, 0)}
MCMaterials == {Of(2, 0)}
MCSupply == Of(3, 0)
=============================================================================
