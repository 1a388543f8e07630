---------------------------- MODULE MCRankerPipe ----------------------------
(* Instances of RankerPipe for TLC. *)
EXTENDS RankerPipe

Request2(trigger, context, parts) == [form |-> "request", trigger |-> trigger, context |-> context, parts |-> parts]

\* A long explicit request, and a short one of an old client without context.
SomeRequests == {Request2("explicit", TRUE, 2), Request2("interactive", FALSE, 1)}

ExplicitRequest == {Request2("explicit", TRUE, 1)}

\* A broken line ends as a failed inference does; an array has a path of its own.
BadLines == {[form |-> "array"]}
=============================================================================
