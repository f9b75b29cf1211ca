------------------------------ MODULE MCSList ------------------------------
EXTENDS SList, TLC

CONSTANTS e1, e2, e3, e4

\* Two of the elements are equal in the order of the lists.
MCKey == (e1 :> 1) @@ (e2 :> 1) @@ (e3 :> 0) @@ (e4 :> 2)
=============================================================================
