--------------------------- MODULE MediaSessionMC ---------------------------
(***************************************************************************)
(* Instances of MediaSession for TLC.                                      *)
(***************************************************************************)
EXTENDS MediaSession

OneCall == [last |-> 1, duplex |-> {1}, answered |-> {}, changing |-> FALSE, toggles |-> 0]

\* One call that is answered; two calls of which the second may start while the
\* receiver of the first is there; and a receiver whose peer and user change
\* their minds.
SteadyScenarios ==
  {[OneCall EXCEPT !.answered = {1}],
   [OneCall EXCEPT !.duplex = {}, !.last = 2],
   [OneCall EXCEPT !.duplex = {}, !.changing = TRUE, !.toggles = MaxToggles]}

\* The peer changes the payload type under a sender.
ChangingScenarios == {[OneCall EXCEPT !.changing = TRUE]}
=============================================================================
