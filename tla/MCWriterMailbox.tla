--------------------------- MODULE MCWriterMailbox ---------------------------
(* An instance of WriterMailbox for TLC: a user and a file transfer.       *)
EXTENDS WriterMailbox

CONSTANTS user, transfer

TwoSenders == [t \in Threads |-> IF t = user THEN <<1, 2>> ELSE <<3, 1, 3>>]
=============================================================================
