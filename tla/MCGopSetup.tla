------------------------------ MODULE MCGopSetup ------------------------------
EXTENDS GopSetup

\* One GPU with one mode, one GPU with a three-mode menu, two GPUs.
MCConfigs == {<<1>>, <<3>>, <<2, 1>>}

\* A scan-code key, '0', '1', '2', '3' (one past the menu) and '9'.
MCKeyCodes == {0, 48, 49, 50, 51, 57}
=============================================================================
