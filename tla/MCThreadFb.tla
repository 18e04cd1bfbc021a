------------------------------ MODULE MCThreadFb ------------------------------
EXTENDS ThreadFb

\* A row, 5/6 of one, and a column.
Areas == {<<0, 1, 6, 1>>, <<0, 1, 5, 1>>, <<2, 0, 1, 2>>}
=============================================================================
