# Verification of the Policy Translation Point

The Policy Translation Point (PTP) is a Spring Boot service with an Angular front
end.  Users write high-level policies ("rules": a trigger and an action), the
service checks them against each other, and translates them into XACML policies.
This directory holds TLA+ models of both, TLC runs, and proofs checked by TLAPS.

Paths below are relative to `src/src/main/java/it/polito/elite/sifis/`.  The front
end is in the repository only as built bundles: `main.2081e5da9e0cc6bf.js` in
`src/src/main/resources/static/` and `main.d2c7bfd8fc11f85e.js` in
`src/target/classes/static/`, each a single line of 540 kB.  They are two builds of
the same application: the classes modelled here differ only in the address of the
server and in the names the minifier gave.  `RuleService` and `PolicyComposer` were
read from the first, `PolicyPages` from the second, and each holds for both.  As a
bundle is one line, a source line there says which build, not which place in it; the
`symbol` of the map names the class and the method.

## Inventory

| Component | State | Operations | Interacts with | What makes it correct |
|---|---|---|---|---|
| Rule net (`services/PetriNetServiceImpl.buildNet`, `entities/petrinet/*`) | places with token lists, transitions, arcs, a graph of trigger and action places | build, fire, enabled, isDead, removeAllTokens, getRoot, getCycle | reads the ontology through `OWLService.triggers` | a token reaches exactly the rules its trigger leads to; transitions consume what enables them |
| Policy check (`SifisController.checkRule`, `ExtendedPetriNet.getSimualtedRules`, `Simulation`) | request locals; `Simulation.stop`, `simulatedRules` | loop test, root, simulate, stop, classify | request thread and simulation thread share net, list and flag | the simulation is complete and causally ordered, ends, and the request is answered |
| Net cache and REST simulator (`PetriNetServiceImpl.nets/simulators`, `RestSimulator`) | two unsynchronised maps by user | getNet, start, step, stop | every check of the user replaces the net | a simulator steps the net it was started on |
| Reasoner pool (`OWLServiceImpl`) | queue of 5 reasoners, ontology and reasoner per user | take, query, put back | all requests | every reasoner taken is given back |
| Registration (`LoginController`, `UserServiceImpl`, `addOntology`) | user table, ontology files, map of reasoners | register, restart | database, file system | user and ontology exist together, also after a restart |
| Rule store (`DBServiceImpl`, repositories) | rule, trigger, action, detail tables | save, list, delete | ontology (to rebuild rules) | what is listed is what was saved |
| XACML translation (`XACMLServiceImpl`) | none | translate | ontology | installation and execution policies permit what the rule says |
| Policy files and DHT (`SifisController.translate/download`, `DHTServiceImpl`) | one directory for all users | clean, write, zip, publish | file system, DHT node | a download holds the policies of the last translation |
| Policy in the making (front end, class `vn`) | one policy and one answer of a check in memory, the same in keys of localStorage | setters, getters that restore, clear | shared by all pages | after a reload, memory and storage give the policy that was there |
| Composing pages (front end) | the page, its copy of the policy, the browser's history | choose, fill in, finish, back, forward, reload | read and write the policy in the making, post it | what FINISH saves is what the page shows, and fits together |
| List, problems and explanation pages (front end) | lists, requests in flight | list, check, delete, explain | list and check requests, answered in any order | problems are shown with, and deletions aimed at, the policy they are about |

Behaviours that are hard here: the simulation runs in a thread of its own that the
request neither joins nor locks out, transitions fire in random order, one second of
sleep stands for "finished", several requests of one user share maps and nets, all
users share one directory of policy files, and several operations write to two
stores without a transaction.  In the browser nothing cancels a request, so its
answer works on whatever page and policy is there when it comes, and a reload loses
one of the two places a policy is kept in. `PROJECT.json` lists each of them with
its line under "hazards".

## Modules

| Module | Models | How |
|---|---|---|
| `RuleNet` | the net of `buildNet`, the token game of the `fire` and `enabled` methods, the graph with `getRoot` and the loop test | operators over a rule set; no state |
| `PolicyCheck` | one `POST /sifis/check`: the request thread and the Simulation thread | state machine |
| `RuleCascade` | what a simulation promises, without a net | abstract state machine |
| `PolicyCheckRefinement` | PolicyCheck implements RuleCascade | refinement mapping on top of PolicyCheck |
| `MCPolicyCheck` | a home of four policies | constants for TLC |
| `RuleNetProofs` | lemmas about nets, firings, tokens and cascades, for any rule set | proofs |
| `PolicyCheckProofs` | theorems about one check, with the refinement | proofs |
| `RuleAnalysis` | what `checkRule` makes of the rules a simulation executed: problem lists and parents | state machine on top of RuleCascade |
| `MCRuleAnalysis` | a home of five policies with classes of actions | constants for TLC |
| `RuleAnalysisProofs` | theorems about the lists, the parents and the end of the analysis | proofs |
| `OntologyService` | the shared state of `OWLServiceImpl` (reasoner pool, OWL manager, users' reasoners) and the registration of users | state machine |
| `ReasonerLending` | what the pool promises | abstract state machine |
| `MCOntologyService` | threads, reasoners and users for TLC | constants |
| `OntologyServiceProofs` | theorems about OntologyService and its refinement | proofs |
| `SharedNet` | checks of one user at the same time, which may end up on the same net | state machine on top of RuleNet |
| `MCSharedNet` | two checks, three policies | constants for TLC |
| `SharedNetProofs` | theorems about any number of checks | proofs |
| `XacmlPolicies` | what `XACMLServiceImpl` makes of a rule | operators; no state |
| `PolicyFiles` | translate, publication and download of several sessions on the one directory | state machine on top of XacmlPolicies |
| `MCPolicyFiles` | two sessions, a lamp with two commands | constants for TLC |
| `PolicyFilesProofs` | theorems about published policies and downloads | proofs |
| `RuleService` | the front end's service for the policy in the making | operators; no state |
| `PolicyComposer` | the composing pages, history, reload and late answers of checks | state machine on top of RuleService |
| `PolicyPages` | list, problems and explanation pages, the requests in flight, the rule table | state machine on top of RuleService |
| `MCPolicyComposer`, `MCPolicyPages` | one stored policy; two stored policies and a draft | constants for TLC |
| `PolicyComposerProofs` | theorems about what FINISH saves | proofs |
| `PolicyPagesProofs` | theorems about PolicyPages | proofs |

### RuleNet

A rule set `rs` stands for the list `buildNet` gets.  `Net(rs)` is its set of
transitions.  Each transition of the code has one input arc, so it is a record of
its input place `in`, its output places `out`, the token `takes` it removes and
the token `gives` it creates; `rule` tells a RuleTransition from the others.  The
four families are built as in the code: a place with one consumer feeds it
directly, a place with several feeds a copy transition and one copy place per
consumer.  Which action causes which trigger (`Causes`) is the conjunction of
`getTriggeredRules`: same service, a shared entity, and the ontology's answer, a
constant.

A marking counts the equal tokens of each place.  `Enabled` looks at the size of
the token list only, `Fire` removes by equality, as the code does; that the two
agree is the property FiringConsumes.  `Cleared` keeps the oddity of
`TokenSet.removeAll`, which throws at the second equal token.

`RootChoices` is a set, because `getRoot` takes the first vertex of in-degree 0 in
the order of a hash set.  `ReachedFrom` stands for the traversals of jgrapht.

What a request's rule equals is not what a stored rule equals.  `saveRule` turns the
entity and location values of a body into `IoTEntity`, `checkRule` does not: they stay
maps, and `Detail.equals` finds a map different from any entity.  `TextOnly` are the
triggers and actions without such a detail, `Matches(x, y)` says that `x` of a
checked rule is found equal to `y` of a stored one.  Two things follow:

- `Searched` is where `getRoot` looks: the connected component of the checked rule if
  its trigger matches that of a place, and else the whole graph, which is what
  jgrapht answers for the null vertex.  The root may then be of another component.
- `LoopReported` recognises a loop by a matching trigger and action.  A trigger on a
  loop is caused by an action, so it has an entity and matches nothing: the answer
  with loops is never given (`NoLoopReported`, theorem `LoopsGoUnreported`).  A check
  of a rule in a loop goes on to `getRoot` like any other.

### PolicyCheck

| State | Code |
|---|---|
| `rules`, `checked` | the stored rules and the request's body |
| `rpc` | position of the request thread in `checkRule` and `getSimualtedRules`; `"looped"` is in the code and never reached |
| `startTrigger` | `RuleProblems.startTrigger` |
| `marking` | the tokens of the places |
| `spc`, `fired` | position of the Simulation thread; the rule between `fireAndGetRule` and `simulatedRules.add` |
| `log`, `stop` | `Simulation.simulatedRules`, `Simulation.stop` |
| `copied`, `executed` | the array allocated by `addAll`, the array returned |

Request: `CheckLoops`, `GetRoot`, `StartSimulation` or `StartFails`, `SetStop` (the
sleep is over, at any moment), `ReadSize` and `CopyRules` (the two halves of
`LinkedList.toArray`, which overruns its array when the list has grown in between).
Thread: `LoopTest` (`run`), `FireRule` and `RecordRule` (the inner loop of
`fireTransition`), `FireOther` (the one transition after it).  The inner loop does
not look at `stop`; neither does the model.

Left out here: the classification of the simulated rules (RuleAnalysis),
`simualtedActions`, which nobody reads, the console output, and the step mode, which
`getSimualtedRules` does not use.  Nothing interrupts request threads, so the
`InterruptedException` branch is not taken.  `stop` and the list are plain fields;
the model reads and writes them in program order (the thread sleeps and prints in
its loop, so a write does arrive).

### RuleCascade

An occurring trigger makes each of its rules due once; executing a due rule takes
one off and makes each rule its action triggers due once more.  The mapping counts
for each rule the tokens that are on their way to it (`TokensFor`, a sum written as the
number of pairs of a place and a number up to its tokens, which the provers can
follow).  Copy and trigger transitions are stuttering steps.

### RuleAnalysis

| State | Code |
|---|---|
| `rules`, `due`, `history` | the simulation, as RuleCascade promises it |
| `checked`, `phase`, `next` | the rule of the request, where the request is, `i` of its loop |
| `executed` | `simulatedRules` after the cut to 40 (`MaxAnalysed`) |
| `inconsistent`, `redundant` | the lists of `RuleProblems` |
| `parents` | `Rule.parents` |

`Start` and `Simulate` are steps of RuleCascade, so the list is one that PolicyCheck
can make; `CutOff` ends the simulation at any moment.  `Analyse` is one round of the
loop: the two lists of rule `i`, each added unless a reported one contains it, and
the parents of all rules, which every round computes again.  A list is the set of
its positions in `executed`: the code fills it in that order behind `i`, and nothing
depends on the order.  A rule executed twice has two positions and can be reported
with itself, by the code as by the model.  Another bound, `j<100`, has no effect on
40 rules.

`setParents` changes rules that are already in a `HashSet` of lists.  The set is only
walked and extended afterwards, so this does no harm, but the hash of a rule includes
its parents: `Endless` are the rules from which parents can be followed for ever, and
`Overflow` is the StackOverflowError, in the hash of a list about to be added or in the
writer of the answer.  `parents` is a set; the list of the code may hold a
parent twice.

Checks of rules in a loop are in: the loop test does not recognise them (RuleNet).
Left out are requests it would report, none by `LoopsGoUnreported`, and a missing
root, for which the request fails in PolicyCheck.  A rule that directly follows one with the same trigger is
passed over by the loop of the parents; EffectsHaveParents excepts it.

### OntologyService

| State | Code |
|---|---|
| `pool`, `held` | `reasoners`, the local variable `reasoner` of a call |
| `pc`, `call`, `user` | where a thread is, in which kind of call, for whom |
| `ontologies` | what `manager.getOntology` finds |
| `userReasoners` | the keys of the map of that name |
| `saved`, `rows` | files `addOntology` has written, rows of the table `user` |
| `bootRows` | history: the rows when the service was started |

A thread is a call of a method of the service.  Of the answers the model keeps
nothing, so the methods fall into kinds: `BeginQuery` and `BeginUserCall` name them.
`Take` is `reasoners.take()`; the queue is a set, as its reasoners are alike.
`ListElement` and `ElementDone` are the loop of getTriggers and getActions around
the details of each element, `Finish` is the finally block and, for calls without
one, the end of the method; an exception of a query ends a call like its last
statement.  `FindReasoner`, `FindOntology`, `Load`, `LoadFails`, `InitReasoner` are
the block seven methods repeat to get the reasoner of a user.  `CheckName` to
`InsertUser` are `createNewUser`.  `Restart` may happen at any time; files and rows
survive.

Three things outside the code are modelled by what it may rely on.  The OWL manager is
the one without locks, so `createOntology` tests and adds in two steps, and a load
of an ontology that has come in meanwhile may be refused.  A `HashMap` written by two
threads may lose an entry, and one read during a put may miss one
(`PutInProgress`); its endless loops are not modelled.  A login fails unless
`findByUsername` finds one row.  Requests that need no login are `"query"` and
`"register"`.  Several calls made by one request (a check reads every trigger and
action) follow each other without holding anything in between, so each is a call
of its own here.

`ReasonerLending` knows only who has which reasoner: free, lent to a thread, lost.
`Owner` maps the state of the service to it.

### SharedNet

| State | Code |
|---|---|
| `stored` | what `getRulesByType` answered each request; policies come and go in between |
| `inMap` | the user's entry of `PetriNetServiceImpl.nets`, named by the request that built it |
| `net`, `rpc`, `start` | the net a request got, where it is, its start trigger |
| `marking` | the tokens of each net |
| `tpc`, `chosen`, `executed` | where a Simulation thread is, the transition it fires next, what it recorded |

`PutNet` and `GetNet` are the two statements of `getNet(refresh)`; between them
another request may put its net.  Then `GetRoot`, `Clear` and `Seed` work on the net
that was there, as does the thread.  `Clear` is one step for a request whose net
nobody else works on.  `removeAllTokens` goes from place to place, so where a thread of
another request is running (`Disturbed`) any set of places may keep its tokens
(`Swept`): whatever that thread moves to a place already cleared escapes.  Choosing a transition and firing it are two
steps here (PolicyCheck, whose net belongs to one thread, has one): two threads may
fire the same transition for one token, and `FireOther` may then fire a rule that
nobody records.  What else can happen to unsynchronised lists under two threads, an
exception, is `Break`. The thread's list belongs to it and is copied at the end, as
PolicyCheck models in detail; `Stop` is the end of the request here.

### XacmlPolicies and PolicyFiles

A policy is a record of what decides: identifier, target, combining algorithm,
effect and the three conditions.  `Policy` is `getInstallationPolicy` or
`getExecutionPolicy`; the XML around them is left out.  The commands of an
action are what the reasoner finds for it, a constant set; of several for the entire
home one is taken, whichever the hash set yields first (`Chosen`).

| State | Code |
|---|---|
| `dir` | the policy directory: file contents by name |
| `pc`, `rule`, `time`, `todo`, `current`, `listing` | a translation and the download after it: how far it is, its rule, the time in its names, what is left to write, what is being written, which files are left to delete or zip |
| `zip`, `published` | the answer of the download, the messages to the DHT |
| `prop` | the controller's field `prop` |
| `disturbed` | history: another translation ran between a session's start and its download |

`Translate` lists the files to delete, `Delete` deletes one; a file that is gone by
then fails the translation when the list is done (`Cleaned`).  `Create` opens a
file, which is empty until `Marshal` has written it; if two sessions write to one
file, what it holds is `Garbled`.  `Publish` is the POST to the DHT, which may fail
without anybody noticing.  `Download` and `Zip` read file by file.  `Build` gives
all policies of one translation one time: the code reads the clock for each, and
with one time the names are as alike as they can be.

### RuleService and PolicyComposer

A service is a record of memory (`rule`, `problems`) and localStorage (`local`,
`localProblems`); each method of the class is an operator from service to service.
Every setter writes both; `SetRule`, which the list page calls with a policy from a
check's answer, stores its id only; the getters restore from localStorage what the
memory misses.  The values a user enters as details are represented by the trigger
or action whose form was filled in.

| State | Code |
|---|---|
| `svc` | the service shared by the pages |
| `history`, `pos` | the browser's history and the entry shown |
| `filled`, `shown` | the form's fields have arrived; what the page read when it was opened |
| `checks` | checks asked for on the list page and not answered |
| `saved` | how many policies were saved |
| `disturbed`, `own`, `overtaken` | history variables of the properties: the composition is no longer one, its entries in the history, an answer came in since the page was opened |

An action is what a user does on a page (`SelectTrigger`, `CompleteAction`,
`FinishSaves`, ...), a turn in the history, a reload, or an answer that arrives.
Opening a page calls the getters its `ngOnInit` calls, in their order (`Loaded`).
Pages that only show something and lead on are merged with the next.  A page that
finds no policy where it needs one throws and stays without controls (`Works`).

### PolicyPages

| State | Code |
|---|---|
| `table` | the ids in the rule table |
| `requests` | requests in flight: what is asked, whether the page that asked is still open (`alive`), and the answer once the service has given it |
| `svc`, `history`, `pos`, `listed`, `shown` | the service, the history, the rules of the list, what the problems page read |
| `apart`, `mixed`, `gone`, `raced` | history variables of the properties |

`Serve` is the service working on a request, `Receive` the callback in the browser;
between them, and between any two of them, anything may happen.  `alive` tells
answers whose page is closed: their callbacks run all the same, on a page nobody
sees.  `BigIds` are policies whose database id `checkRule` compares by reference and
does not find: the answer then has problems but no rule, and `setRule(null)` throws
after it has overwritten the memory.  `DeletedElsewhere` is the same account in
another browser.

## Runs

The runs `Check*` use `MCPolicyCheck`: four policies, three triggers, four actions.
`Init` chooses any subset of the four as the stored rules and any of the four as the
checked rule, so a run covers 64 checks. The home is small but has every shape the
net distinguishes: a trigger of one rule and of two, an action that causes no (its
effects not being stored), one and several triggers, a trigger with several causes, a
pair the ontology relates that shares no device, two rules that loop, and rules that
nothing causes; the graphs have a root, several or none, in one component or in two.
One trigger, a time of day, is text only; the others have a device.

| Run | Shows |
|---|---|
| `Check` | nothing is lost, invented or robbed; a dead net has executed exactly the cascade; the log is causal; a single root of a graph without loops reaches the checked rule; why requests fail; RuleCascade is implemented; requests and threads end; without a loop and on a machine on which a second is enough a check is answered with the complete cascade |
| `CheckRoot` | **violated**: the simulation starts in the component of the checked rule |

`MaxFired` bounds the rules the thread records before the second is over; it is a
guard of `LoopTest` only.  Without loops no check of this home records more than four
rules, so 5 never cuts; with the loop 5 lets it go round at least once.

The runs `Analysis*` use `MCRuleAnalysis`: a home of the same rules, in which one rule
(r5) loops with itself and, without it, two rules are executed twice.

| Run | Shows |
|---|---|
| `Analysis` | every two executions are reported together; an answer has a parent for every effect; without causal loops among the stored rules there is an answer |
| `AnalysisEndless` | **violated**: a loop passes the loop test unnoticed and makes the hash of a rule endless |

`MaxAnalysed` is 5 where the code has 40: fewer than the rules the home executes, so
the cut is exercised, and more than its shortest loops.  In `MCClassesOf` being
redundant is not transitive (a1 with a2, a2 with a3, not a1 with a3), the case in
which dropping contained lists could lose something.  `MaxRecorded` bounds the
rules executed within the second; at 7 the loop-free rules run to their end.

The runs `Service*` use `MCOntologyService`: two threads and two reasoners, one user whose
ontology comes with the service and one who has to register.

| Run | Shows |
|---|---|
| `Service` | reasoners are exclusive, nobody waits holding one, only a failed details request loses one; rows have files and, since the start, ontologies in memory; ReasonerLending is implemented; a call that got a reasoner ends; the pool is not empty for good while a reasoner is left |
| `ServiceDrained` | **violated**: the pool can be empty with nobody using a reasoner |
| `ServiceUnloadable` | **violated**: after a restart the ontology of a registered user is not found |

Two threads and two reasoners are enough for every race of the code (they are
between two calls) and for both contention and exhaustion of the pool.  `MaxRows`
bounds the registrations of a name: 3 exceeds by one what RowsPerStart allows two
threads, 2 suffices elsewhere.

| Run | Shows |
|---|---|
| `Shared` | two checks of one user on nets of their own or on one: no check reports a rule nothing set off; one that has its net for itself reports the whole cascade |
| `Files` | two sessions on one directory: what is published is complete and under its own name; an undisturbed download holds exactly its translation's policies |
| `Composer` | FINISH saves what the page shows unless a check's answer came in since (`overtaken`); within one composition, without answers of checks (`disturbed`), what is saved fits together and survives a reload |
| `Pages` | the problems shown are those of the policy shown unless a reload, another composition, or an answer without problems or without a policy came between (`apart`, `mixed`); a list brings a policy known to be deleted back only if it was under way when the deletion was told (`raced`) |
| `PagesDeletes` | **violated**: without that exception, "Delete Rule" deletes another policy than the one shown |

`Shared` has three policies, one causing another and one relating to the action on
another device; each request finds all of them, all but the first, or none.  `Asked`
is the policy in the middle of the cascade, so its root is another one.  Two
requests show every sharing there is between a net's owner and a guest.

`Files` has two rules whose policies get the same names when made in the same
millisecond, one for the entire home, one without a place (which fails), and a file
left by an earlier program.  `MaxTime = 1` lets two sessions have the same time and
different times.  Sessions are alike, as are the requests of `Shared` and the slots
of `Pages`: symmetry is used where no liveness is checked.

`Composer` has two triggers and two actions, so that parts of two compositions can
be told apart, and a stored policy whose check may answer in between.  `MaxHistory =
7` is enough to go through all pages of a composition once and come to the list;
`MaxSaved = 1`: a second saving would start from the state the first one did.  In
`Pages` the browser's history keeps the two newest entries (`MaxHistory`; a visit
drops the oldest): every page then has a page before or behind it, and every pair of
pages occurs.  Two slots allow each pair of requests to overtake each other; of the
two policies one has a big id.

Fairness: `WF` on the request and on the thread, each as a whole: the JVM schedules
both and `Thread.sleep` returns.  No fairness is assumed for the choice of a
transition.  `PatientCheckIsAnswered` has as a hypothesis that the sleep outlasts
the simulation: the code does not ensure that, and the property says what follows
where it holds.

OntologyService has `WF` on each thread, and `SF` on the end of a call that can
end: a list has finitely many elements.  Requests and restarts need not happen.
`take` may overtake, so no thread is promised a reasoner, only that there is one again.

The other specifications state no fairness and no liveness: a user may stop at any
time, a request may stay unanswered, and a `Break` ends a thread.  `Shared` and
`Files` end when all requests are done, so their runs do not look for deadlocks.

## What the violated runs show

- `ServiceDrained`: `getTriggerDetails` and `getActionDetails` take a reasoner
  before the `try` block; after enough failures nobody can be served.
- `ServiceUnloadable`: the ontology of a registered user is saved under a path other
  than the one it is loaded from after a restart.
- `CheckRoot`: the comment of `getRoot` speaks of "the connected component in the
  graph that includes the rule".  The trigger of a checked rule with an entity detail
  is the key of no place, the component of null is the whole graph, and the
  simulation may start at a root of another component: the checked rule is then not
  simulated, and the answer says nothing of it.
- `AnalysisEndless`: a loop, be the checked rule in it or not, is not reported, since
  `involved` compares stored details with unconverted ones; with one downstream of the
  root, parents are cyclic and their hash overflows the stack.
- `PagesDeletes`: the problems page shows the policy in memory and deletes the
  policy of the problems; a reload, or an answer without problems for another
  policy, sets them apart.

Met while modelling, described in `PROJECT.json` "hazards" or covered by properties
that state their condition, without a run of their own: where every stored rule is
caused by a stored one there is no root, `getRoot` answers null and the check fails,
whichever rule it is about (FailureCauses); the copy of the list may overrun
(FailureCauses); with several roots the checked rule may never be simulated
(UniqueRootReachesChecked); a stored name can be registered again after a restart, and
no login finds it then (RowsPerStart); a download may hold another user's policies
(DownloadsOwnAlone excepts disturbed sessions).

Some properties state a condition because the code does the opposite without it.  They
show that nothing else has that effect, and say nothing of the case they except:

- SavedAsShownUnlessOvertaken and SavedFits except a policy that a check's answer has
  replaced: an answer that comes in while the review page is open is what FINISH saves.
- ProblemsOfShownRule excepts reloads, new compositions and answers that change only
  one of the policy and its problems, among them those without a policy for ids above
  127.  What it shows is that no other way through pages and answers shows problems of
  another policy, which needs the getters to prefer memory to localStorage.  What
  becomes of the exceptions is DeletesShownRule's subject.
- DeletedStaysOut excepts a list that was under way when the deletion was told; such a
  list does bring the policy back.  It shows that answers to pages that were left and
  lists asked for later do not.
- DownloadsOwnAlone and PublishesOwn speak of what is in the files and in the messages
  that were sent.  A message whose POST fails is dropped, and no property asks for it.

## Proofs

For every rule set, every ontology and every bound, from `RuleNetAssumption` (rules
map to triggers and actions, triggers and actions are told apart, what is text only
has no entity):

- `TypeCorrect`: `TypeOK`, with `Control` (which thread positions go together).
- `EnabledTransitionsConsume`: FiringConsumes.  The inductive invariant is
  `TokensInPlace`: a token has the colour of its place and lies in a place of the
  net.  FiringConsumes alone is not inductive, as it says nothing of places that no
  enabled transition reads.
- `NoStepRobs`: NothingRobbed.  It rests on `UniqueInput`, no two transitions of a
  net have the same input place, which is what the copy places are for.
- `NoActivationIsLost`: NoRuleForgotten is inductive with types; `OwedStays` follows
  a token through each kind of transition.
- `DeadNetIsComplete`: CompleteAtDeadlock.  "At least" from NoRuleForgotten and
  `OwedKeepsAlive` (a token on its way keeps the net alive); "at most" from
  `TokensExplained` (a token is upstream only of rules whose trigger has occurred)
  and `FiredInCascade`.
- `LogIsCausal`: CausalLog, from `TokensExplained` and `FiredExplained`.
- `AnswerIsCausal`: what is copied while the thread goes on is a prefix of the list
  (`AnswerKnown`), so an answer lacks no rule's cause.
- `PatientAnswerIsComplete`: the safety half of PatientCheckIsAnswered, for any stored
  policies.  If the stop flag is raised only after the thread has ended (`Patient`, a
  hypothesis about the machine and not about the code), the thread ends in a dead net and
  nothing grows under the copy (`UndisturbedCopy`).
- `InnerLoopIsBounded`: the variant behind InnerLoopEnds.  The loop that does not test
  the stop flag takes one token from the inputs of rules in each round and adds none
  (`FiringTakesOne`, with `SumMoves`).
- `LoopsGoUnreported`: no check ends in `"looped"`.  The last edge of a loop is that of
  an action to a trigger it causes (`EdgeIntoTrigger`), so the trigger has an entity and
  is not text only (`TextHasNoCause`).
- `FailuresExplained`, `OneRootExecutesChecked`: FailureCauses and
  UniqueRootReachesChecked, for what `getRoot` searches, be it a component or the whole
  graph.  A trigger whose component is searched is text only and its own root, so
  without a root it is the whole graph that has none, and every stored rule is caused
  by a stored one (`RootlessAllCaused`).  The second is about paths in the graph.
  Instead of an induction along them its proof uses `FirstVertex`: in a finite graph
  some vertex comes first, that is, what reaches it is reached from it.  The first
  trigger the cascade misses is a root or is caused by a rule it does not miss
  (`OneRootLeadsToAll`).  In the same way, without a root the first vertex searched has
  a predecessor, so there is a way round (`RootlessHasLoop`, used by
  `PatientAnswerIsComplete`).  `RootKnown` carries the root from `GetRoot` to the end,
  and that the stored rules are finite.
- `NetImplementsCascade`: the refinement of RuleCascade.  `SumMoves` says how a sum
  changes when a summand gains or loses one; `WayOfRule` and `WayOfOthers` say which
  arcs of a transition are on the way to a rule.  So a rule fired takes one token from
  its own way and puts one on the way of each rule it triggers, and every other
  transition takes one from a way exactly when it puts one back on it.

For every rule set, ontology, classes of actions and `MaxAnalysed`, from
`RuleNetAssumption` and `RuleAnalysisAssumption`:

- `AnalysisTypeCorrect`: AnalysisTypeOK, with `Fresh` (the analysis starts from
  nothing).
- `EveryPairIsReported`: PairsReported speaks of answers only; inductive is
  `AnalysedListed`, the pairs of the rounds done so far are in the lists.
  `WithListCovers` is the heart: a list that is not added is contained in one that
  stays.
- `EveryEffectHasParents`: `CausedHistory` says of what is due and of what was
  executed that the start or an earlier rule caused it; a prefix inherits it, and
  `ParentsKnown` says that one round is enough for the parents of all.
- `LoopFreeChecksAreAnswered`: under `NoCausalLoops` (no stored rules cause each
  other in a circle) the analysis is answered: a rule from which parents can be
  followed for ever would need such a circle among the executed rules, which are
  stored ones (`ExecutedAreStored`).
- `AnalysisRunsTheCascade`: what the analysis sees is a run of RuleCascade, cut off, so
  these results hold of what the net executes (`NetImplementsCascade`).

For every number of threads, reasoners and users, from `OntologyServiceAssumption`
(finitely many threads; values that stand for "none" are none of the others):

- `ServiceTypeCorrect`, `NobodyWaitsHolding`: from `TypedControl`, which says what
  each position of a call implies for its local variables.
- `ReasonersAreExclusive`: Exclusive is inductive with `TypedControl`.
- `OnlyDetailsLoseReasoners`: `TakenNotLost`, `PutBackNotLost` and
  `DroppedOnlyByDetails` follow a reasoner through each step that moves one.
- `RowsAreLimited`: RowsPerStart counts rows only; inductive is `RowsToCome`, which
  adds the registrations that have passed the test of the name (`Admitted`).  It needs
  that the threads of the service are finitely many, and `Registered`: as long as the
  ontology is not there, no row has been inserted since the start.
- `FreshUsersAreServed`, `RowsHaveFiles`: the invariant `Registered` adds what is
  true of a registration between its steps (`Prepared`) and of a call that has begun
  (`Served`).
- `ServiceLendsReasoners`: the refinement of ReasonerLending.  `OwnerOfHeld` shows
  that the CHOOSE of the mapping has one candidate; each step then maps to a
  lending, a return, a loss, a renewal or a stutter.

The lemmas about nets, firings and cascades are in `RuleNetProofs`, free of any state;
`PolicyCheckProofs` and `SharedNetProofs` use them.

For every number of checks, all rule sets (with loops or without) and ontologies,
from `RuleNetAssumption` and `SharedNetAssumption`:

- `TypesHold`: TypeOK, with `Located`, which says what the position of a request
  implies for its net, start trigger and thread.
- `OnlyCausedRules`: ExecutedWereCaused.  Inductive is `Sourced`: every token of a
  net, every chosen transition and every reported rule is upstream only of rules
  that some request on the net set off.  A request that runs keeps its net and start
  trigger (`RunningKeeps`), so causes stay (`CausedStays`), and a firing hands them
  on even if the token it was chosen for is gone (`CausesCarryOver`).
- `AloneReportsAll`: AloneIsComplete.  `AloneUndisturbed` says of a check that has
  its net for itself that every rule its reports call for is reported or has a token
  on its way (`TokenStays`), and that a thread past its rules has none enabled; a
  net once shared stays shared (`SharedStays`).  At the end the net is dead, so no
  token is on its way (`TokenKeepsAlive`), and the cascade is the least set with
  that closure.

For any sessions, rules, commands and clock, from `XacmlAssumption` and `FilesAssumption`:

- `FilesTyped`: TypeOK.
- `PublishedAreOwn`: PublishesOwn.  `PublishInv` follows a policy from the file
  being written (`FileOwn`) through the one about to be published (`WorkOwn`) to the
  message (`SentOwn`); where another session interferes, it holds the same
  identifier (`WriterIsSeen`).
- `UndisturbedDownloadsAreOwn`: DownloadsOwnAlone.  `DownloadInv` says of an
  undisturbed session that no other one is at work (`Alone`), and that the directory
  holds what was written so far and nothing else (`Complete`); `IdDeterminesPolicy`
  says that within a translation names tell policies apart.

For any policies, problems, slots and history, from `RuleServiceAssumption` and
`PagesAssumption`:

- `PagesTyped`: TypeOK, with what an open request says of its kind and answer
  (`Fitting`).
- `ShownProblemsFit`: ProblemsOfShownRule, from `Memory`: unless `apart` is set, the
  policy and the problems in memory belong together, and so do those of the page
  unless `mixed`.
- `DeletedStayOut`: DeletedStaysOut, from `Deletions`: an answer that confirms a
  deletion is true of the table, and a list on its way to the open page has no
  policy known to be deleted, unless `raced`.

For any triggers, actions, effects, subjects, stored policies and history, from
`RuleServiceAssumption` and `ComposerAssumption`:

- `ComposerTypes`: TypeOK.
- `FinishSavesWhatIsShown`: SavedAsShownUnlessOvertaken, from `ReviewShows`: unless
  `overtaken`, what FINISH would post now is what the open review page shows.
- `SavedPoliciesFit`, `ReloadsKeepThePolicy`: from `Composition`, which says for each
  entry of an undisturbed composition how far the policy in localStorage has come
  when that page is open or can be returned to, and that memory agrees with
  localStorage in every part it has.  SavedFits alone is not inductive: the user may
  go back, choose another trigger and come forward again by the pages, and only the
  entries behind the present one may then still be believed.

Every safety property a run checks is stated by a theorem.  Model-checked only is all
liveness (RequestEnds, ThreadEnds, InnerLoopEnds, PatientCheckIsAnswered, CallEnds,
PoolRefills), which rests on fairness, and the five properties that are violated.

## Not modelled

- The REST simulator (`RestSimulator`, `startRestSimulation` and its map): no
  controller calls it.
- What the queries of `OWLServiceImpl` answer: the OWL API and HermiT compute it;
  the code filters and sorts one answer at a time.
- `NetObject.LATEST_ID++`: duplicate ids need hundreds of objects built in step.
- The rule table's rows (`DBServiceImpl`, repositories): `PolicyPages` has the table
  with what listing and deleting do to its ids, `PolicyComposer` the saving, `SharedNet` and
  `PolicyCheck` what a check reads of it. The mapping between rows and rules, detail
  by detail, and a policy listed with a part of its details are left out.
- The memory model of Java: `stop` and the lists are read and written in program
  order; what unsynchronised collections do beyond that is an exception (`Break`), a
  lost or a missed entry.
- Login and registration pages, the recommendation dialogue and the texts of the
  front end; its runtime and polyfills.
- Spring configuration and security, generated XACML beans, entities without
  behaviour, file and property helpers, ontologies and build files.
