------------------------- MODULE MCOperationStream -------------------------
(* Small instances of OperationStream for TLC.                             *)
EXTENDS OperationStream

CONSTANTS h1, h2

TwoStreams == {h1, h2}
FirstScript == {1}
FirstAndLast == {1, 3}
=============================================================================
