----------------------------- MODULE MCKmsClient -----------------------------
EXTENDS KmsClient

\* Every algorithm the library supports.
MCAlgs == Algorithms

\* A list of four elements, in pages of up to two.
MCItems == <<"k1", "k2", "k3", "k4">>
=============================================================================
