-------------------------------- MODULE Main --------------------------------
(***************************************************************************)
(* main (src/src/main.cpp): the file is parsed, then the backtester gets   *)
(* its messages and the event loop runs.  Backtester has a fixed number of *)
(* messages: only a file of as many is followed into the event loop.       *)
(***************************************************************************)
EXTENDS Backtester, Parser

MainInit == ParserInit /\ Init

Parse == ParseMappedData /\ UNCHANGED vars

Exec == Parsed /\ Len(message_stream_) = N /\ Next /\ UNCHANGED parser

MainNext == Parse \/ Exec

\* The one thread goes on, whatever the user does.
GoesOn == Parse \/ (Parsed /\ Len(message_stream_) = N /\ Thread /\ UNCHANGED parser)

MainSpec == MainInit /\ [][MainNext]_<<parser, vars>>

MainFairSpec == MainSpec /\ WF_<<parser, vars>>(GoesOn)
=============================================================================
