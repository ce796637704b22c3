------------------------------- MODULE MCWizard -------------------------------
EXTENDS Wizard
=============================================================================
