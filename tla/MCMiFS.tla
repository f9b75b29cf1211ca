------------------------------- MODULE MCMiFS -------------------------------
EXTENDS MiFS, TLC

\* Part of a block, and more than one: with the offsets 0 to 3 these start and
\* end anywhere in a block, and the last one also goes over two boundaries.
MCBytes == {<<1>>, <<2, 1, 2>>}

\* After a fault no property is about the bytes of a block, and no step
\* depends on them.
Seen == IF faults = {} THEN vars ELSE <<dir, numFiles, freeNodes, [vol EXCEPT !.data = <<>>], disk, faults, status>>

\* The short names are interchangeable.
Names == Permutations(Name \ LongName)
=============================================================================
