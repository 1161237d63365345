------------------------------ MODULE MCWizards ------------------------------
EXTENDS Wizards, TLC
=============================================================================
