------------------------------ MODULE MCUartLink ------------------------------
(***************************************************************************)
(* Three frames of five bytes over a ring of six: the ring wraps twice,    *)
(* holds a whole frame, and overruns when CommunicationTask is late.  A    *)
(* corrupted length swallows one byte more than the frame has.             *)
(***************************************************************************)
EXTENDS UartLink

\* Nothing is claimed of what follows an error inside a poll (the properties
\* say ~raced), so that is not explored.
NotRaced == ~raced
===============================================================================
