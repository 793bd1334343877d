----------------------------- MODULE MCArrayInit -----------------------------
\* Arrays of one, two and three dimensions, small enough for every initialiser.
EXTENDS ArrayInit

MCShapes == {<<4>>, <<2, 3>>, <<3, 2>>, <<2, 2, 2>>, <<1, 2, 3>>, <<2, 1, 2>>,
             <<2, 2, 1, 2>>}
MCCube == {<<2, 2, 2>>}
=============================================================================
