------------------------------- MODULE MCTftp -------------------------------
(* Small instances of Tftp, and what tftp.py says of every transfer.       *)
EXTENDS Tftp

\* tftp.py:7-9: a packet that is not acknowledged is sent again, and after
\* MAX_RETRANSMITS times the transfer is given up.  An ACK that is not for the
\* pending block cancels the timer, and nothing starts it again (164).
TransferGivenUp == transfer # None ~> transfer = None
=============================================================================
