------------------------------ MODULE MCDrain ------------------------------
EXTENDS Drain
=============================================================================
