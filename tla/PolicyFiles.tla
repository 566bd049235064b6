---------------------------- MODULE PolicyFiles ----------------------------
(***************************************************************************)
(* Policy files: /sifis/translate, which empties the policy directory,     *)
(* writes one file for each XACML policy and publishes it, and             *)
(* /sifis/download, which zips what is in the directory.  The front end    *)
(* asks for the download when the translation has been answered: the two   *)
(* are a session here.  There is one directory for the sessions of all     *)
(* users, and nothing keeps them apart.                                    *)
(***************************************************************************)
EXTENDS XacmlPolicies, Naturals, FiniteSets

CONSTANTS
  Session,    \* a translation and the download that follows it
  Rules,      \* the rules that are translated
  Garbled,    \* what a file holds that is being written, that two threads have
              \* written to, or that was left by an earlier program
  Leftover,   \* identifiers of files that are in the directory at the start
  MaxTime     \* bound on the clock of the identifiers (milliseconds)

ASSUME FilesAssumption ==
  /\ Rules \subseteq SifisRule
  /\ MaxTime \in Nat
  /\ \A r \in Rules, c \in Command, t \in 0 .. MaxTime :
       Policy(r, c, t).id \notin Leftover /\ Policy(r, c, t) # Garbled
  /\ None \notin Command \cup Rules

Policies == {Policy(r, c, t) : r \in Rules, c \in Command, t \in 0 .. MaxTime}

Files == {p.id : p \in Policies} \cup Leftover
Body == Policies \cup {Garbled}

VARIABLES
  now,        \* the clock
  prop,       \* the controller has read its properties
  dir,        \* the directory: bodies by identifier
  pc,         \* how far each session is
  rule,       \* the rule that is translated
  time,       \* the time in the identifiers of its policies
  todo,       \* its commands whose policies are still to be written
  current,    \* the command whose policy is being written or published
  listing,    \* files still to be deleted or zipped
  missed,     \* a file was gone when it was to be deleted
  zip,        \* the bodies in the zip
  published,  \* messages to the DHT: identifier and body
  disturbed   \* history: another translation ran in between

requestVars == <<pc, rule, time, todo, current, listing, missed, zip, published>>
vars == <<now, prop, dir, requestVars, disturbed>>

Stages ==
  {"idle", "cleaning", "building", "writing", "marshalling", "publishing",
   "translated", "zipping", "downloaded", "failed"}

\* Stages of a translation, of a use of the directory as a whole.
Translating == {"cleaning", "building", "writing", "marshalling", "publishing"}
Using == Translating \cup {"translated", "zipping"}

Message == [id : Files, body : Body]

TypeOK ==
  /\ now \in 0 .. MaxTime /\ prop \in BOOLEAN
  /\ DOMAIN dir \subseteq Files /\ \A f \in DOMAIN dir : dir[f] \in Body
  /\ pc \in [Session -> Stages]
  /\ rule \in [Session -> Rules \cup {None}] /\ time \in [Session -> 0 .. MaxTime]
  /\ todo \in [Session -> SUBSET Command]
  /\ current \in [Session -> Command \cup {None}]
  /\ listing \in [Session -> SUBSET Files]
  /\ missed \in [Session -> BOOLEAN]
  /\ zip \in [Session -> SUBSET Body]
  /\ published \in [Session -> SUBSET Message]
  /\ disturbed \in [Session -> BOOLEAN]
  /\ \A u \in Session : /\ pc[u] # "idle" => rule[u] # None
                        /\ pc[u] \in {"marshalling", "publishing"} => current[u] # None

Init ==
  /\ now = 0 /\ prop = FALSE
  /\ dir = [f \in Leftover |-> Garbled]
  /\ pc = [u \in Session |-> "idle"]
  /\ rule = [u \in Session |-> None] /\ time = [u \in Session |-> 0]
  /\ todo = [u \in Session |-> {}] /\ current = [u \in Session |-> None]
  /\ listing = [u \in Session |-> {}] /\ missed = [u \in Session |-> FALSE]
  /\ zip = [u \in Session |-> {}] /\ published = [u \in Session |-> {}]
  /\ disturbed = [u \in Session |-> FALSE]

To(u, stage) == pc' = [pc EXCEPT ![u] = stage]
Mine(u) == Policy(rule[u], current[u], time[u])

(***************************************************************************)
(* translate.  cleanDirectory lists the files, deletes each of them and    *)
(* throws at the end when one was gone.                                    *)
(***************************************************************************)
Translate(u, r) ==
  /\ pc[u] = "idle"
  /\ To(u, "cleaning")
  /\ prop' = TRUE
  /\ rule' = [rule EXCEPT ![u] = r]
  /\ listing' = [listing EXCEPT ![u] = DOMAIN dir]
  /\ disturbed' = [v \in Session |->
       IF v = u THEN \E w \in Session \ {u} : pc[w] \in Translating
                ELSE disturbed[v] \/ pc[v] \in Using]
  /\ UNCHANGED <<now, dir, time, todo, current, missed, zip, published>>

Delete(u, f) ==
  /\ pc[u] = "cleaning" /\ f \in listing[u]
  /\ listing' = [listing EXCEPT ![u] = @ \ {f}]
  /\ missed' = [missed EXCEPT ![u] = @ \/ f \notin DOMAIN dir]
  /\ dir' = [g \in DOMAIN dir \ {f} |-> dir[g]]
  /\ UNCHANGED <<now, prop, pc, rule, time, todo, current, zip, published, disturbed>>

Cleaned(u) ==
  /\ pc[u] = "cleaning" /\ listing[u] = {}
  /\ To(u, IF missed[u] THEN "failed" ELSE "building")
  /\ UNCHANGED <<now, prop, dir, rule, time, todo, current, listing, missed, zip,
                 published, disturbed>>

\* The reasoner may fail, too.  The code reads the clock for each policy; with one
\* time for all their identifiers are as alike as they can be.
Build(u) ==
  /\ pc[u] = "building"
  /\ \/ To(u, "failed") /\ UNCHANGED <<now, time, todo>>
     \/ /\ ~Throws(rule[u])
        /\ \E t \in now .. MaxTime : now' = t /\ time' = [time EXCEPT ![u] = t]
        /\ \E cs \in Chosen(rule[u]) : todo' = [todo EXCEPT ![u] = cs]
        /\ To(u, "writing")
  /\ UNCHANGED <<prop, dir, rule, current, listing, missed, zip, published, disturbed>>

\* Faulty variant: the command is not noted.
CreateUnnoted(u, c) ==
  /\ pc[u] = "writing" /\ c \in todo[u]
  /\ To(u, "marshalling")
  /\ todo' = [todo EXCEPT ![u] = @ \ {c}]
  /\ UNCHANGED <<now, prop, dir, rule, time, current, listing, missed, zip, published,
                 disturbed>>

\* The marshaller creates the file, or empties it.
Create(u, c) ==
  /\ pc[u] = "writing" /\ c \in todo[u]
  /\ To(u, "marshalling")
  /\ current' = [current EXCEPT ![u] = c]
  /\ todo' = [todo EXCEPT ![u] = @ \ {c}]
  /\ LET f == Policy(rule[u], c, time[u]).id
     IN dir' = [g \in DOMAIN dir \cup {f} |-> IF g = f THEN Garbled ELSE dir[g]]
  /\ UNCHANGED <<now, prop, rule, time, listing, missed, zip, published, disturbed>>

\* Another translation writes to the file since it was created.
Contested(u) ==
  \/ dir[Mine(u).id] # Garbled
  \/ \E v \in Session \ {u} : /\ pc[v] \in {"marshalling", "publishing"}
                              /\ Mine(v).id = Mine(u).id

\* Faulty variant: the text is not flushed before the file is published.
MarshalLater(u) ==
  /\ pc[u] = "marshalling"
  /\ To(u, "publishing")
  /\ UNCHANGED <<now, prop, dir, rule, time, todo, current, listing, missed, zip,
                 published, disturbed>>

\* The file is written, unless it was deleted: then the text goes nowhere.  Of two
\* writers either may win, or their texts are mixed.
Marshal(u) ==
  /\ pc[u] = "marshalling"
  /\ To(u, "publishing")
  /\ LET f == Mine(u).id
     IN IF f \notin DOMAIN dir THEN UNCHANGED dir
        ELSE \E b \in {Mine(u)} \cup (IF Contested(u) THEN {Garbled, dir[f]} ELSE {}) :
               dir' = [dir EXCEPT ![f] = b]
  /\ UNCHANGED <<now, prop, rule, time, todo, current, listing, missed, zip, published,
                 disturbed>>

\* publishPolicy reads the file and throws when it is gone; a POST that fails is
\* passed over in silence.
Publish(u) ==
  /\ pc[u] = "publishing"
  /\ LET f == Mine(u).id
     IN IF f \notin DOMAIN dir THEN To(u, "failed") /\ UNCHANGED published
        ELSE /\ To(u, "writing")
             /\ \/ published' = [published EXCEPT ![u] = @ \cup {[id |-> f, body |-> dir[f]]}]
                \/ UNCHANGED published
  /\ UNCHANGED <<now, prop, dir, rule, time, todo, current, listing, missed, zip, disturbed>>

Translated(u) ==
  /\ pc[u] = "writing" /\ todo[u] = {}
  /\ To(u, "translated")
  /\ UNCHANGED <<now, prop, dir, rule, time, todo, current, listing, missed, zip,
                 published, disturbed>>

(***************************************************************************)
(* download.                                                               *)
(***************************************************************************)
\* The front end asks for it after a translation; prop is set by then.
Download(u) ==
  /\ pc[u] = "translated" /\ prop
  /\ To(u, "zipping")
  /\ listing' = [listing EXCEPT ![u] = DOMAIN dir]
  /\ UNCHANGED <<now, prop, dir, rule, time, todo, current, missed, zip, published, disturbed>>

\* A file that is gone ends the loop; the exception is swallowed and the zip is
\* sent as it is.
Zip(u, f) ==
  /\ pc[u] = "zipping" /\ f \in listing[u]
  /\ IF f \in DOMAIN dir
     THEN /\ zip' = [zip EXCEPT ![u] = @ \cup {dir[f]}]
          /\ listing' = [listing EXCEPT ![u] = @ \ {f}]
     ELSE listing' = [listing EXCEPT ![u] = {}] /\ UNCHANGED zip
  /\ UNCHANGED <<now, prop, dir, pc, rule, time, todo, current, missed, published, disturbed>>

Downloaded(u) ==
  /\ pc[u] = "zipping" /\ listing[u] = {}
  /\ To(u, "downloaded")
  /\ UNCHANGED <<now, prop, dir, rule, time, todo, current, listing, missed, zip,
                 published, disturbed>>

Next ==
  \E u \in Session :
    \/ \E r \in Rules : Translate(u, r)
    \/ \E f \in listing[u] : Delete(u, f) \/ Zip(u, f)
    \/ \E c \in todo[u] : Create(u, c)
    \/ Cleaned(u) \/ Build(u) \/ Marshal(u) \/ Publish(u) \/ Translated(u)
    \/ Download(u) \/ Downloaded(u)

Spec == Init /\ [][Next]_vars

(***************************************************************************)
(* Properties.                                                             *)
(***************************************************************************)
\* The policies of a session, for a choice of its commands.
Own(u, cs) == {Policy(rule[u], c, time[u]) : c \in cs}
Ids(u) == {p.id : p \in Own(u, rule[u].commands)}

\* A download that follows a translation holds exactly the policies of that
\* translation, all of them complete, if no other translation ran between its
\* start and the end of the download, whatever earlier ones left behind.
DownloadsOwnAlone ==
  \A u \in Session : pc[u] = "downloaded" /\ ~disturbed[u] =>
    \E cs \in Chosen(rule[u]) : zip[u] = Own(u, cs)

\* What translate publishes under a policy's identifier is that policy, complete,
\* even while other translations empty the directory and fill it, unless another
\* one gives a policy the same identifier in the same millisecond.
PublishesOwn ==
  \A u \in Session : \A m \in published[u] :
    \/ m.body \in Own(u, rule[u].commands) /\ m.body.id = m.id
    \/ \E v \in Session \ {u} : pc[v] # "idle" /\ m.id \in Ids(v)
=============================================================================
