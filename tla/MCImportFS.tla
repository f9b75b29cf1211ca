----------------------------- MODULE MCImportFS -----------------------------
EXTENDS ImportFS, TLC

\* A block and a half, one whole block, nothing, and more than a file may have
MCFile == {<<1, 2, 3>>, <<4, 5>>, <<>>, <<1, 1, 1, 1, 1>>}
\* The short names are interchangeable.
Names == Permutations(Name \ LongName)
=============================================================================
