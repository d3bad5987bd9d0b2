------------------------------ MODULE MCKHeap -------------------------------
EXTENDS KHeap
=============================================================================
