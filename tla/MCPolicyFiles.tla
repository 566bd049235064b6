--------------------------- MODULE MCPolicyFiles ---------------------------
(***************************************************************************)
(* A lamp with two commands of different types, and two rules whose        *)
(* policies have the same identifiers when they are made at the same time. *)
(***************************************************************************)
EXTENDS PolicyFiles, TLC

CONSTANTS s1, s2, on, off

Symmetry == Permutations(Session)

MCTypeOf == [c \in {on, off} |-> IF c = on THEN "turn_on" ELSE "turn_off"]
MCEntityOf == [c \in {on, off} |-> "lamp1"]
MCDeviceOf == [c \in {on, off} |-> "lamp"]

\* "Deny turning the lamp of the room on or off at certain times", "permit turning
\* it on with the windows closed", and "deny to install what does anything to a
\* lamp at home".
Times == [trigger |-> "time", effect |-> "Deny", subject |-> "app",
          place |-> "a room", all |-> FALSE, commands |-> {on, off}]
Windows == [Times EXCEPT !.trigger = "windows", !.effect = "Permit",
                         !.commands = {on}]
AtHome == [trigger |-> "always", effect |-> "Deny", subject |-> "marketplace",
           place |-> "Entire Home", all |-> TRUE, commands |-> {on, off}]
Nowhere == [Times EXCEPT !.place = None]

MCRules == {Times, Windows, AtHome, Nowhere}
MCLeftover == {<<"1689952258394", "", "", 0>>}
=============================================================================
