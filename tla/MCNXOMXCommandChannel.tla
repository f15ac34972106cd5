---- MODULE MCNXOMXCommandChannel ----
\* Instances of the command channel for TLC.
EXTENDS NXOMXCommandChannel
====
