------------------------------ MODULE MCScreens ------------------------------
EXTENDS Screens
=============================================================================
