---------------------------- MODULE MCExecStack ----------------------------
EXTENDS ExecStack

\* Address 0 unmapped, or mapped with a program whose first byte is 1 or 0.
MCVa0s == {[mapped |-> FALSE, str |-> <<>>],
           [mapped |-> TRUE, str |-> <<1>>],
           [mapped |-> TRUE, str |-> <<>>]}
=============================================================================
