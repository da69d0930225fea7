---------------------------- MODULE MCPathStrings ----------------------------
EXTENDS PathStrings

\* Names that differ in case, that extend each other, that hold the wildcards
\* and the escape character of LIKE, or what a URL encodes, decodes, cuts off
\* or drops.
MCNames ==
    {<<"a">>, <<"A">>, <<"a", "_">>, <<"a", "a">>, <<"%", "4", "1">>, <<"\\">>, <<"TAB", "?">>,
     <<"a", " ">>}

MCChars == {"a", "A", "_", "%", "4", "1", "\\", "?", " ", "TAB", ".", "NUL"}

MCBadName == <<"a", "NUL">>
=============================================================================
