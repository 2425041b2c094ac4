------------------------------ MODULE MCSerial ------------------------------
EXTENDS Serial
CONSTANTS a, b
MCPlain == {<<a, b>>, <<b, a, b>>}
=============================================================================
