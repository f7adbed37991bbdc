------------------------------ MODULE MCDevMgr ------------------------------
EXTENDS DevMgr

\* Three of the ranges v3_config_guest gives the generic device.
RangesDef == <<<<131, 131>>, <<129, 129>>, <<628, 629>>>>

PortsDef == FixedPorts \union {129, 131, 628, 629}

DevsDef == ToSet(AttachOrder(TRUE))
=============================================================================
