----------------------------- MODULE MCIpcChannel -----------------------------
EXTENDS IpcChannel
==============================================================================
