-------------------------------- MODULE MCLog --------------------------------
\* Log with a few lines, for TLC.
EXTENDS Log

MCItems == [by : Writers, no : 1 .. MaxLines]
MCConsumers == {flusher}
=============================================================================
