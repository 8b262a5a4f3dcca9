------------------------- MODULE MCSessionServices -------------------------
(* Three services like the built-in ones: a compositor, an input manager   *)
(* that needs it, and a panel inside the session process that needs both,  *)
(* and a portal that this session has not registered.                      *)
EXTENDS SessionServices

CONSTANTS compositor, input, panel, portal

MCDeps == [x \in {compositor, input, panel} |->
    CASE x = compositor -> << >>
      [] x = input      -> <<compositor>>
      [] x = panel      -> <<input, portal, compositor>>]

MCOrder == <<compositor, input, panel>>

MCPolicy == [x \in {compositor, input, panel} |->
    CASE x = compositor -> "always"
      [] x = input      -> "onFailure"
      [] x = panel      -> "never"]

MCMaxRetries == [x \in {compositor, input, panel} |-> IF x = compositor THEN 2 ELSE 1]
=============================================================================
