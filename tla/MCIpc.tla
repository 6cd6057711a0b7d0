-------------------------------- MODULE MCIpc --------------------------------
EXTENDS Ipc
=============================================================================
