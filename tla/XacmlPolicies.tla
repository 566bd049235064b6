--------------------------- MODULE XacmlPolicies ---------------------------
(***************************************************************************)
(* XACMLServiceImpl: the policies a rule is translated to.  The XML is a    *)
(* record of what decides: identifier, target, combining algorithm (given  *)
(* by its default), effect, and the conditions before, during and after    *)
(* the access.                                                             *)
(***************************************************************************)
CONSTANTS
  Command,    \* what the reasoner finds to carry out an action
  TypeOf,     \* the type of a command (an action id such as "turn_on")
  EntityOf,   \* its entity
  DeviceOf,   \* the device type of its entity
  None

ASSUME XacmlAssumption ==
  /\ DOMAIN TypeOf = Command /\ DOMAIN EntityOf = Command /\ DOMAIN DeviceOf = Command

Place == {"Entire Home", "a room", None}

\* A rule as far as the translation reads it; all is "the action is any action",
\* commands what getCommands answers for its action, its place and its user.
SifisRule ==
  [trigger : {"always", "time", "windows"}, effect : {"Permit", "Deny", None},
   subject : {"marketplace", "app", None}, place : Place, all : BOOLEAN,
   commands : SUBSET Command]

\* Faulty variant: the identifier leaves the action out.
AnyActionPart(r, c) == "any_action"

\* Without an action's type or any action, the middle part is missing.
ActionPart(r, c) == IF r.all THEN "any_action" ELSE TypeOf[c]

\* The device type for the entire home, else the entity.
TargetPart(r, c) == IF r.place = "Entire Home" THEN DeviceOf[c] ELSE EntityOf[c]

\* For "sifis_always_trigger" an execution policy gets a condition without a
\* function, like that of any service other than time and windows.
Ongoing(r, kind) ==
  IF r.trigger = "always"
  THEN IF kind = "installation" THEN "environment" ELSE "empty"
  ELSE r.trigger

\* The target of an installation policy is set to the entity first, and then
\* replaced; its type condition is there only for the entire home.
InstallationPolicy(r, c, time) ==
  [id |-> <<"installation", ActionPart(r, c), TargetPart(r, c), time>>,
   target |-> <<r.subject, "install">>,
   default |-> "Permit",
   effect |-> r.effect,
   pre |-> IF ~r.all THEN TypeOf[c]
           ELSE IF r.place = "Entire Home" THEN DeviceOf[c] ELSE None,
   ongoing |-> Ongoing(r, "installation"),
   post |-> r.subject]

ExecutionPolicy(r, c, time) ==
  [id |-> <<"execution", ActionPart(r, c), TargetPart(r, c), time>>,
   target |-> <<r.subject, TargetPart(r, c)>>,
   default |-> "Deny",
   effect |-> r.effect,
   pre |-> IF r.all THEN None ELSE TypeOf[c],
   ongoing |-> Ongoing(r, "execution"),
   post |-> r.subject]

Policy(r, c, time) ==
  IF r.subject = "marketplace" THEN InstallationPolicy(r, c, time)
                               ELSE ExecutionPolicy(r, c, time)

\* The commands for which translate makes a policy: one of them for the entire
\* home, whichever the hash set yields first, else each.
Chosen(r) ==
  IF r.place = "Entire Home" THEN {{c} : c \in r.commands} ELSE {r.commands}

\* A missing place, effect or subject, or an entire home without a command, throws.
Throws(r) ==
  \/ r.place = None
  \/ r.commands # {} /\ None \in {r.effect, r.subject}
  \/ r.commands = {} /\ r.place = "Entire Home"
=============================================================================
