----------------------------- MODULE MCDisplays -----------------------------
EXTENDS Displays
=============================================================================
