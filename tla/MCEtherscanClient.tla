--------------------------- MODULE MCEtherscanClient ---------------------------
EXTENDS EtherscanClient, TLC

\* Requests are interchangeable.
Symmetry == Permutations(Requests)
===============================================================================
