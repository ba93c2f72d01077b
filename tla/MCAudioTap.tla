------------------------------ MODULE MCAudioTap ------------------------------
EXTENDS AudioTap
=============================================================================
