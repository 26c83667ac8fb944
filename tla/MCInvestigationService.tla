----------------------- MODULE MCInvestigationService -----------------------
EXTENDS InvestigationService, TLC

\* Investigations are interchangeable: no definition orders or names them.
Symmetry == Permutations(Inv)
=============================================================================
