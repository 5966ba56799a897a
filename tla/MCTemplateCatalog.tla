--------------------------- MODULE MCTemplateCatalog ---------------------------
EXTENDS TemplateCatalog, TLC
CONSTANTS daily, weekly
MCStarters == {daily, weekly}
MCSymmetry == Permutations(Requests)
===============================================================================
