---------------------------- MODULE MCIpcClient ----------------------------
EXTENDS IpcClient
=============================================================================
