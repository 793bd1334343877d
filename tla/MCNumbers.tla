------------------------------ MODULE MCNumbers ------------------------------
\* Ints of 8 bits: literals of three digits reach over both ends of their range
\* in each of the three bases.
EXTENDS Numbers

MCIntMax == 127
MCMaxDigits == 3
=============================================================================
