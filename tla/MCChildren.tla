----------------------------- MODULE MCChildren -----------------------------
EXTENDS ChildrenProps

CONSTANTS s1, auto, other

MCPathOf == [s \in {s1} |-> other]
=============================================================================
