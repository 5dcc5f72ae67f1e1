---------------------------- MODULE MCPageFault ----------------------------
EXTENDS PageFault

\* sbrk of a negative size, of zero, and of one page.
MCSbrkArgs == {-2, 0, 2}
=============================================================================
