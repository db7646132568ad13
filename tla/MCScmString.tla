---------------------------- MODULE MCScmString ----------------------------
EXTENDS ScmString

\* A narrow character and one that needs a wide buffer.
MCChars == {1, 9}

\* Indices below, inside and beyond a string; -1 is 2 as a word of the instance.
SomeIndices == {-1, 0, 1}
============================================================================
