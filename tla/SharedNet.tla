------------------------------ MODULE SharedNet ------------------------------
(***************************************************************************)
(* Two checks of one user at the same time (PetriNetServiceImpl.getNet).   *)
(* Each builds a net and puts it under the user's name, then takes what is *)
(* there by then.  Both may end up with the same net: each clears it, adds *)
(* a token and starts a thread on it, and nothing is synchronised.  The    *)
(* race of a request with its own thread is PolicyCheck's.                 *)
(***************************************************************************)
EXTENDS RuleNet

CONSTANTS
  Check,     \* the requests; also names the net that each one builds
  Asked,     \* the policies that are checked
  RuleSets,  \* what getRulesByType may answer: policies come and go in between
  NoNet,
  NoTransition

ASSUME SharedNetAssumption ==
  /\ \A R \in RuleSets : R \subseteq Rule
  /\ Asked \subseteq Rule
  /\ NoNet \notin Check

VARIABLES
  stored,    \* the policies each request has read
  checked,   \* the policy each request is about
  inMap,     \* the user's entry of nets
  net,       \* the net each request works with
  rpc,       \* where each request is
  start,     \* its start trigger
  marking,   \* tokens of each net
  tpc,       \* where each simulation thread is
  chosen,    \* the transition it is about to fire
  executed   \* the rules it has recorded

inputVars == <<stored, checked>>
threadVars == <<tpc, chosen, executed>>
vars == <<inputVars, inMap, net, rpc, start, marking, threadVars>>

TypeOK ==
  /\ stored \in [Check -> RuleSets] /\ checked \in [Check -> Asked]
  /\ inMap \in Check \cup {NoNet} /\ net \in [Check -> Check \cup {NoNet}]
  /\ rpc \in [Check -> {"put", "get", "root", "clear", "seed", "sleep", "answered", "failed"}]
  /\ start \in [Check -> Trigger \cup {NoTrigger}]
  /\ marking \in [Check -> Marking]
  /\ tpc \in [Check -> {"idle", "loop", "rules", "fireRule", "others", "fireOther",
                       "ended", "broken"}]
  /\ \A c \in Check :
       /\ rpc[c] \in {"root", "clear", "seed", "sleep", "answered"} => net[c] # NoNet
       /\ chosen[c] \in IF tpc[c] \in {"fireRule", "fireOther"}
                        THEN Net(stored[net[c]]) ELSE {NoTransition}
       /\ tpc[c] # "idle" => net[c] # NoNet /\ executed[c] \subseteq stored[net[c]]

Init ==
  /\ stored \in [Check -> RuleSets] /\ checked \in [Check -> Asked]
  /\ inMap = NoNet /\ net = [c \in Check |-> NoNet]
  /\ rpc = [c \in Check |-> "put"]
  /\ start = [c \in Check |-> NoTrigger]
  /\ marking = [c \in Check |-> EmptyMarking]
  /\ tpc = [c \in Check |-> "idle"] /\ chosen = [c \in Check |-> NoTransition]
  /\ executed = [c \in Check |-> {}]

(***************************************************************************)
(* The requests.                                                           *)
(***************************************************************************)
At(c, here, there) == rpc[c] = here /\ rpc' = [rpc EXCEPT ![c] = there]

\* The policies of the net a request works with.
NetRules(c) == stored[net[c]]

\* buildNet, up to its last statement.
PutNet(c) ==
  /\ At(c, "put", "get")
  /\ inMap' = c
  /\ UNCHANGED <<inputVars, net, start, marking, threadVars>>

\* getNet returns what the map holds.
GetNet(c) ==
  /\ At(c, "get", "root")
  /\ net' = [net EXCEPT ![c] = inMap]
  /\ UNCHANGED <<inputVars, inMap, start, marking, threadVars>>

GetRoot(c) ==
  /\ At(c, "root", "clear")
  /\ \E t \in RootChoices(NetRules(c), checked[c]) : start' = [start EXCEPT ![c] = t]
  /\ UNCHANGED <<inputVars, inMap, net, marking, threadVars>>

\* Another request on the net of c, and a thread of one that is at work on it.
Shared(c) == \E d \in Check \ {c} : net[d] = net[c]
Disturbed(c) ==
  \E d \in Check \ {c} : net[d] = net[c] /\ tpc[d] \notin {"idle", "ended", "broken"}

\* removeAllTokens goes from place to place: what a thread moves meanwhile from
\* a place still to be cleared to one that has been escapes it.
Swept(m, escaped) == [p \in Place |-> IF p \in escaped THEN m[p] ELSE Cleared(m)[p]]

Clear(c) ==
  /\ At(c, "clear", "seed")
  /\ \E escaped \in SUBSET {p \in Place : \E k \in Colour : marking[net[c]][p][k] > 0} :
       /\ escaped # {} => Disturbed(c)
       /\ marking' = [marking EXCEPT ![net[c]] = Swept(@, escaped)]
  /\ UNCHANGED <<inputVars, inMap, net, start, threadVars>>

Seed(c) ==
  /\ start[c] # NoTrigger
  /\ At(c, "seed", "sleep")
  /\ marking' = [marking EXCEPT ![net[c]] = WithToken(@, TriggerPlace(start[c]), start[c])]
  /\ tpc' = [tpc EXCEPT ![c] = "loop"]
  /\ UNCHANGED <<inputVars, inMap, net, start, chosen, executed>>

SeedFails(c) ==
  /\ start[c] = NoTrigger
  /\ At(c, "seed", "failed")
  /\ UNCHANGED <<inputVars, inMap, net, start, marking, threadVars>>

\* The second is over: setStop(true) and the copy of the recorded rules.
Stop(c) ==
  /\ At(c, "sleep", "answered")
  /\ UNCHANGED <<inputVars, inMap, net, start, marking, threadVars>>

(***************************************************************************)
(* The threads.  Choosing a transition and firing it are two steps.        *)
(***************************************************************************)
GoTo(c, here, there) == tpc[c] = here /\ tpc' = [tpc EXCEPT ![c] = there]

Idling == UNCHANGED <<inputVars, inMap, net, rpc, start, marking>>

LoopTest(c) ==
  /\ tpc[c] = "loop"
  /\ \/ /\ Dead(marking[net[c]], NetRules(c)) \/ rpc[c] = "answered"
        /\ GoTo(c, "loop", "ended")
     \/ /\ ~Dead(marking[net[c]], NetRules(c)) /\ rpc[c] # "answered"
        /\ GoTo(c, "loop", "rules")
  /\ Idling /\ UNCHANGED <<chosen, executed>>

ChooseRule(c) ==
  /\ tpc[c] = "rules"
  /\ LET enabled == EnabledRules(marking[net[c]], NetRules(c))
     IN \/ /\ \E tr \in enabled : chosen' = [chosen EXCEPT ![c] = tr]
           /\ GoTo(c, "rules", "fireRule")
        \/ enabled = {} /\ GoTo(c, "rules", "others") /\ UNCHANGED chosen
  /\ Idling /\ UNCHANGED executed

\* By now this may be a rule transition again, which is not recorded then.
ChooseOther(c) ==
  /\ tpc[c] = "others"
  /\ LET enabled == {tr \in Net(NetRules(c)) : Enabled(marking[net[c]], tr)}
     IN \/ /\ \E tr \in enabled : chosen' = [chosen EXCEPT ![c] = tr]
           /\ GoTo(c, "others", "fireOther")
        \/ enabled = {} /\ GoTo(c, "others", "loop") /\ UNCHANGED chosen
  /\ Idling /\ UNCHANGED executed

FireChosen(c) ==
  /\ marking' = [marking EXCEPT ![net[c]] = Fire(@, chosen[c])]
  /\ chosen' = [chosen EXCEPT ![c] = NoTransition]
  /\ UNCHANGED <<inputVars, inMap, net, rpc, start>>

FireRule(c) ==
  /\ GoTo(c, "fireRule", "rules")
  /\ FireChosen(c)
  /\ executed' = [executed EXCEPT ![c] = @ \cup {chosen[c].rule}]

\* Faulty variant: one round is all.
FireOtherOnce(c) ==
  /\ GoTo(c, "fireOther", "ended")
  /\ FireChosen(c)
  /\ UNCHANGED executed

FireOther(c) ==
  /\ GoTo(c, "fireOther", "loop")
  /\ FireChosen(c)
  /\ UNCHANGED executed

\* Faulty variant: the thread goes on and keeps its transition.
BreakAndGoOn(c) ==
  /\ Shared(c)
  /\ GoTo(c, "fireRule", "loop")
  /\ Idling /\ UNCHANGED <<chosen, executed>>

\* Lists that change under a reader, or are empty when one is drawn from: the
\* exception ends the thread, and the request does not notice.
Break(c) ==
  /\ Shared(c)
  /\ tpc[c] \in {"loop", "rules", "fireRule", "others", "fireOther"}
  /\ tpc' = [tpc EXCEPT ![c] = "broken"]
  /\ chosen' = [chosen EXCEPT ![c] = NoTransition]
  /\ Idling /\ UNCHANGED executed

Request(c) ==
  \/ PutNet(c) \/ GetNet(c) \/ GetRoot(c) \/ Clear(c) \/ Seed(c) \/ SeedFails(c) \/ Stop(c)

Thread(c) ==
  \/ LoopTest(c) \/ ChooseRule(c) \/ FireRule(c) \/ ChooseOther(c) \/ FireOther(c)
  \/ Break(c)

Next == \E c \in Check : Request(c) \/ Thread(c)

Spec == Init /\ [][Next]_vars

(***************************************************************************)
(* Properties.                                                             *)
(***************************************************************************)
\* The rules a run from each trigger should execute.
Due == [R \in RuleSets |-> [t \in Trigger |-> Cascade(R, t)]]

\* However the requests and threads interleave, a check reports only rules of a
\* cascade that a request on the same net has started: a check that shares its
\* net may report another's rules, but never a rule that nothing set off, even
\* when both threads fire one transition for one token.
ExecutedWereCaused ==
  \A c \in Check : \A r \in executed[c] :
    \E d \in Check :
      net[d] = net[c] /\ tpc[d] # "idle" /\ r \in Due[NetRules(c)][start[d]]

\* A check that shares its net with no other simulates undisturbed by those of
\* other nets: a thread that ends before it is stopped has executed the cascade
\* of its start trigger.
AloneIsComplete ==
  \A c \in Check :
    tpc[c] = "ended" /\ rpc[c] = "sleep" /\ ~Shared(c)
      => executed[c] = Due[NetRules(c)][start[c]]
==============================================================================
