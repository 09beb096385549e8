---------------------------- MODULE MCRtpSender -----------------------------
(***************************************************************************)
(* Two layers, a history of two packets and numbers that wrap after four.  *)
(***************************************************************************)
EXTENDS RtpSender

MCFrames == { <<>>, <<1>>, <<1, 2>> }

Form(type, len, count) == [type |-> type, len |-> len, count |-> count, ext |-> 0]

\* A NACK behind an application packet: 28 bytes that do not parse as RTP.
MCOddForms == { Form(204, 28, 15) }

\* A NACK alone (RFC 5506), and behind a receiver report with one block.
MCUsualForms == { Form(205, 16, 1), Form(201, 48, 1) }
=============================================================================
