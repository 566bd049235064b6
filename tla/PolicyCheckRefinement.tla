------------------------ MODULE PolicyCheckRefinement ------------------------
(***************************************************************************)
(* The token game of PolicyCheck implements RuleCascade.  A rule is due    *)
(* once for every token on its way to it: at its trigger's place, at its   *)
(* own copy place, at an action that causes its trigger and at that        *)
(* action's copy place for the trigger.  Copy and trigger transitions move *)
(* such tokens and are stuttering steps; firing a rule is an execution,    *)
(* recorded or not.                                                        *)
(***************************************************************************)
EXTENDS PolicyCheck

\* The places, with their colours, from which a token comes to rule r.
WayTo(rs, r) ==
  LET t == TrigOf[r]
      causes == {a \in NetActions(rs) : Causes(a, t)}
  IN  {<<TriggerPlace(t), t>>, <<CopyOfTrigger(r), t>>}
        \cup {<<ActionPlace(a), a>> : a \in causes}
        \cup {<<CopyOfAction(a, t), a>> : a \in causes}

\* The sum of a function of natural numbers: each x counts f[x] times.
Times(f, x) == {<<x, k>> : k \in 1 .. f[x]}
Sum(f) == Cardinality(UNION {Times(f, x) : x \in DOMAIN f})

TokensFor(m, rs, r) == Sum([w \in WayTo(rs, r) |-> m[w[1]][w[2]]])

Due == [r \in Rule |-> IF r \in rules THEN TokensFor(marking, rules, r) ELSE 0]
History == IF fired = NoRule THEN log ELSE Append(log, fired)

Abstract == INSTANCE RuleCascade WITH due <- Due, history <- History

\* Every rule is executed exactly as often as its trigger occurs: once for the
\* start and once for every execution of a rule whose action causes the trigger.
\* No transition of the net loses, duplicates or invents an activation.
ImplementsCascade == Abstract!Spec
==============================================================================
