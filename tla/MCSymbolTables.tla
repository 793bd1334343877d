--------------------------- MODULE MCSymbolTables ---------------------------
\* Two identifiers, one of which looks like the numbered name of the other, and
\* a library function.
EXTENDS SymbolTables

MCIdents == {<<"a">>, <<"a", 1>>, <<"getint">>}
MCLibrary == << <<"getint">> >>
MCLengths == {3}
=============================================================================
