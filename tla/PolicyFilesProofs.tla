------------------------- MODULE PolicyFilesProofs -------------------------
(***************************************************************************)
(* Theorems about PolicyFiles, for any number of sessions, any rules and   *)
(* any clock: types, what is published under a policy's identifier, and    *)
(* what a download holds that no other translation came between.           *)
(***************************************************************************)
EXTENDS PolicyFiles, TLAPS

(***************************************************************************)
(* Types.                                                                  *)
(***************************************************************************)
LEMMA PolicyIsBody ==
  ASSUME NEW r \in Rules, NEW c \in Command, NEW t \in 0 .. MaxTime
  PROVE  /\ Policy(r, c, t) \in Policies
         /\ Policy(r, c, t).id \in Files
  BY DEF Policies, Files

LEMMA ChosenAreCommands ==
  ASSUME NEW r \in Rules, NEW cs \in Chosen(r)
  PROVE  cs \subseteq r.commands /\ cs \subseteq Command
<1>1. r.commands \subseteq Command
  BY FilesAssumption DEF SifisRule
<1>2. CASE r.place = "Entire Home"
  BY <1>1, <1>2 DEF Chosen
<1>3. CASE r.place # "Entire Home"
  BY <1>1, <1>3 DEF Chosen
<1>q. QED BY <1>2, <1>3

\* A session that has begun has a rule; one that writes a file has a policy.
LEMMA SessionTypes ==
  ASSUME TypeOK, NEW u \in Session, pc[u] # "idle"
  PROVE  /\ rule[u] \in Rules /\ time[u] \in 0 .. MaxTime
         /\ pc[u] \in {"marshalling", "publishing"} =>
              /\ current[u] \in Command
              /\ Mine(u) \in Policies /\ Mine(u).id \in Files
<1>1. rule[u] \in Rules /\ time[u] \in 0 .. MaxTime
  BY DEF TypeOK
<1>2. ASSUME pc[u] \in {"marshalling", "publishing"} PROVE current[u] \in Command
  BY <1>2 DEF TypeOK
<1>q. QED BY <1>1, <1>2, PolicyIsBody DEF Mine

LEMMA InitTypeOK == Init => TypeOK
<1> SUFFICES ASSUME Init PROVE TypeOK
  OBVIOUS
<1>1. Leftover \subseteq Files
  BY DEF Files
<1>2. DOMAIN dir \subseteq Files /\ \A f \in DOMAIN dir : dir[f] \in Body
  BY <1>1 DEF Init, Body
<1>3. now \in 0 .. MaxTime /\ time \in [Session -> 0 .. MaxTime]
  BY FilesAssumption DEF Init
<1>4. pc \in [Session -> Stages] /\ rule \in [Session -> Rules \cup {None}]
  BY DEF Init, Stages
<1>5. /\ todo \in [Session -> SUBSET Command] /\ current \in [Session -> Command \cup {None}]
      /\ listing \in [Session -> SUBSET Files] /\ missed \in [Session -> BOOLEAN]
  BY DEF Init
<1>6. /\ zip \in [Session -> SUBSET Body] /\ published \in [Session -> SUBSET Message]
      /\ disturbed \in [Session -> BOOLEAN]
  BY DEF Init
<1>7. \A u \in Session : /\ pc[u] # "idle" => rule[u] # None
                         /\ pc[u] \in {"marshalling", "publishing"} => current[u] # None
  BY DEF Init
<1>q. QED BY <1>2, <1>3, <1>4, <1>5, <1>6, <1>7 DEF Init, TypeOK

LEMMA NextTypeOK == TypeOK /\ [Next]_vars => TypeOK'
<1> SUFFICES ASSUME TypeOK, [Next]_vars PROVE TypeOK'
  OBVIOUS
<1> USE DEF TypeOK, Stages
<1>1. ASSUME NEW u \in Session, NEW r \in Rules, Translate(u, r) PROVE TypeOK'
  <2>1. disturbed' \in [Session -> BOOLEAN]
    BY <1>1 DEF Translate
  <2>2. pc' \in [Session -> Stages] /\ rule' \in [Session -> Rules \cup {None}]
    BY <1>1 DEF Translate, To
  <2>3. listing' \in [Session -> SUBSET Files]
    BY <1>1 DEF Translate
  <2>4. \A v \in Session : /\ pc'[v] # "idle" => rule'[v] # None
                           /\ pc'[v] \in {"marshalling", "publishing"} => current'[v] # None
    BY <1>1, FilesAssumption DEF Translate, To
  <2>5. UNCHANGED <<now, dir, time, todo, current, missed, zip, published>> /\ prop' = TRUE
    BY <1>1 DEF Translate
  <2>q. QED BY <2>1, <2>2, <2>3, <2>4, <2>5
<1>2. ASSUME NEW u \in Session, NEW f \in listing[u], Delete(u, f) PROVE TypeOK'
  BY <1>2 DEF Delete
<1>3. ASSUME NEW u \in Session, NEW f \in listing[u], Zip(u, f) PROVE TypeOK'
  BY <1>3 DEF Zip
<1>4. ASSUME NEW u \in Session, NEW c \in todo[u], Create(u, c) PROVE TypeOK'
  <2>1. Policy(rule[u], c, time[u]).id \in Files
    <3>1. pc[u] # "idle"
      BY <1>4 DEF Create
    <3>2. c \in Command
      OBVIOUS
    <3>q. QED BY <3>1, <3>2, SessionTypes, PolicyIsBody
  <2>2. DOMAIN dir' \subseteq Files /\ \A f \in DOMAIN dir' : dir'[f] \in Body
    BY <1>4, <2>1 DEF Create, Body
  <2>3. current' \in [Session -> Command \cup {None}] /\ todo' \in [Session -> SUBSET Command]
    BY <1>4 DEF Create
  <2>4. /\ pc' \in [Session -> Stages]
        /\ \A v \in Session : /\ pc'[v] # "idle" => rule'[v] # None
                              /\ pc'[v] \in {"marshalling", "publishing"} => current'[v] # None
    <3>1. \A v \in Session : pc'[v] # "idle" => rule'[v] # None
      BY <1>4 DEF Create, To
    <3>2. c # None
      BY FilesAssumption
    <3>3. \A v \in Session : pc'[v] \in {"marshalling", "publishing"} => current'[v] # None
      BY <1>4, <3>2 DEF Create, To
    <3>q. QED BY <1>4, <3>1, <3>3 DEF Create, To
  <2>q. QED BY <1>4, <2>2, <2>3, <2>4 DEF Create
<1>5. ASSUME NEW u \in Session, Cleaned(u) PROVE TypeOK'
  BY <1>5 DEF Cleaned, To
<1>6. ASSUME NEW u \in Session, Build(u) PROVE TypeOK'
  <2>1. CASE To(u, "failed") /\ UNCHANGED <<now, time, todo>>
    BY <2>1, <1>6 DEF Build, To
  <2>2. CASE /\ \E t \in now .. MaxTime : now' = t /\ time' = [time EXCEPT ![u] = t]
             /\ \E cs \in Chosen(rule[u]) : todo' = [todo EXCEPT ![u] = cs]
             /\ To(u, "writing")
    <3>1. PICK t \in now .. MaxTime : now' = t /\ time' = [time EXCEPT ![u] = t]
      BY <2>2
    <3>2. PICK cs \in Chosen(rule[u]) : todo' = [todo EXCEPT ![u] = cs]
      BY <2>2
    <3>3. t \in 0 .. MaxTime
      OBVIOUS
    <3>4. cs \in SUBSET Command
      <4>1. rule[u] \in Rules
        BY <1>6, SessionTypes DEF Build
      <4>q. QED BY <4>1, <3>2, ChosenAreCommands
    <3>q. QED BY <1>6, <2>2, <3>1, <3>2, <3>3, <3>4 DEF Build, To
  <2>q. QED BY <1>6, <2>1, <2>2 DEF Build
<1>7. ASSUME NEW u \in Session, Marshal(u) PROVE TypeOK'
  <2>1. Mine(u) \in Body
    BY <1>7, SessionTypes DEF Marshal, Body
  <2>2. \/ UNCHANGED dir
        \/ /\ Mine(u).id \in DOMAIN dir
           /\ \E b \in {Mine(u)} \cup {Garbled, dir[Mine(u).id]} :
                dir' = [dir EXCEPT ![Mine(u).id] = b]
    BY <1>7 DEF Marshal
  <2>3. DOMAIN dir' \subseteq Files /\ \A f \in DOMAIN dir' : dir'[f] \in Body
    BY <2>1, <2>2 DEF Body
  <2>q. QED BY <1>7, <2>3 DEF Marshal, To
<1>8. ASSUME NEW u \in Session, Publish(u) PROVE TypeOK'
  <2>1. published' \in [Session -> SUBSET Message]
    BY <1>8 DEF Publish, Message
  <2>q. QED BY <1>8, <2>1 DEF Publish, To
<1>9. ASSUME NEW u \in Session, Translated(u) PROVE TypeOK'
  BY <1>9 DEF Translated, To
<1>10. ASSUME NEW u \in Session, Download(u) PROVE TypeOK'
  BY <1>10 DEF Download, To
<1>11. ASSUME NEW u \in Session, Downloaded(u) PROVE TypeOK'
  BY <1>11 DEF Downloaded, To
<1>12. CASE UNCHANGED vars
  BY <1>12 DEF vars, requestVars
<1>q. QED
  BY <1>1, <1>2, <1>3, <1>4, <1>5, <1>6, <1>7, <1>8, <1>9, <1>10, <1>11, <1>12 DEF Next

\* The directory, the sessions and the messages keep their types.
THEOREM FilesTyped == Spec => []TypeOK
  BY InitTypeOK, NextTypeOK, PTL DEF Spec

(***************************************************************************)
(* What is published.                                                      *)
(***************************************************************************)
\* From here on the policy identifiers of a session are settled.
Past(u) == pc[u] \notin {"idle", "cleaning", "building"}

OtherHas(u, f) == \E v \in Session \ {u} : Past(v) /\ f \in Ids(v)

LEMMA PastIsKept ==
  ASSUME TypeOK, [Next]_vars, NEW v \in Session, Past(v)
  PROVE  Past(v)' /\ rule'[v] = rule[v] /\ time'[v] = time[v]
<1> USE DEF TypeOK, Past
<1>1. ASSUME NEW u \in Session, NEW r \in Rules, Translate(u, r)
      PROVE  pc'[v] = pc[v] /\ rule'[v] = rule[v] /\ time'[v] = time[v]
  BY <1>1 DEF Translate, To
<1>2. ASSUME NEW u \in Session, NEW f \in listing[u], Delete(u, f) \/ Zip(u, f)
      PROVE  pc'[v] = pc[v] /\ rule'[v] = rule[v] /\ time'[v] = time[v]
  BY <1>2 DEF Delete, Zip
<1>3. ASSUME NEW u \in Session, Build(u)
      PROVE  pc'[v] = pc[v] /\ rule'[v] = rule[v] /\ time'[v] = time[v]
  BY <1>3 DEF Build, To
<1>4. ASSUME NEW u \in Session, NEW c \in todo[u], Create(u, c) PROVE Past(v)' /\ rule' = rule /\ time' = time
  BY <1>4 DEF Create, To
<1>5. ASSUME NEW u \in Session, Cleaned(u)
      PROVE  pc'[v] = pc[v] /\ rule'[v] = rule[v] /\ time'[v] = time[v]
  BY <1>5 DEF Cleaned, To
<1>6. ASSUME NEW u \in Session,
             Marshal(u) \/ Publish(u) \/ Translated(u) \/ Download(u) \/ Downloaded(u)
      PROVE  Past(v)' /\ rule' = rule /\ time' = time
  BY <1>6 DEF Marshal, Publish, Translated, Download, Downloaded, To
<1>7. CASE UNCHANGED vars
  BY <1>7 DEF vars, requestVars
<1>q. QED BY <1>1, <1>2, <1>3, <1>4, <1>5, <1>6, <1>7 DEF Next

LEMMA OwnIds ==
  ASSUME NEW u, NEW c \in rule[u].commands
  PROVE  /\ Policy(rule[u], c, time[u]) \in Own(u, rule[u].commands)
         /\ Policy(rule[u], c, time[u]).id \in Ids(u)
  BY DEF Own, Ids

LEMMA OwnIsKept ==
  ASSUME NEW v, rule'[v] = rule[v], time'[v] = time[v]
  PROVE  Own(v, rule[v].commands)' = Own(v, rule[v].commands) /\ Ids(v)' = Ids(v)
  BY DEF Own, Ids

LEMMA OtherHasIsKept ==
  ASSUME TypeOK, [Next]_vars, NEW u \in Session, NEW f, OtherHas(u, f)
  PROVE  OtherHas(u, f)'
<1>1. PICK v \in Session \ {u} : Past(v) /\ f \in Ids(v)
  BY DEF OtherHas
<1>2. Past(v)' /\ rule'[v] = rule[v] /\ time'[v] = time[v]
  BY <1>1, PastIsKept
<1>3. Ids(v)' = Ids(v)
  BY <1>2, OwnIsKept
<1>q. QED BY <1>1, <1>2, <1>3 DEF OtherHas

Writing == {"marshalling", "publishing"}

\* The commands a session works on are those of its rule.
WorkOwn(u) ==
  /\ pc[u] \in {"writing"} \cup Writing => todo[u] \subseteq rule[u].commands
  /\ pc[u] \in Writing => current[u] \in rule[u].commands

\* Its file is being written, or holds its policy, or is another's as well.
FileOwn(u) ==
  pc[u] \in Writing /\ Mine(u).id \in DOMAIN dir =>
    \/ pc[u] = "marshalling" /\ dir[Mine(u).id] = Garbled
    \/ pc[u] = "publishing" /\ dir[Mine(u).id] = Mine(u)
    \/ OtherHas(u, Mine(u).id)

SentOwn(u) ==
  \A m \in published[u] :
    /\ Past(u)
    /\ \/ m.body \in Own(u, rule[u].commands) /\ m.body.id = m.id
       \/ OtherHas(u, m.id)

PublishInv == \A u \in Session : WorkOwn(u) /\ FileOwn(u) /\ SentOwn(u)

LEMMA WritersHaveIds ==
  ASSUME NEW u, WorkOwn(u), pc[u] \in Writing
  PROVE  /\ Past(u) /\ Mine(u).id \in Ids(u)
         /\ Mine(u) \in Own(u, rule[u].commands)
<1>1. current[u] \in rule[u].commands
  BY DEF WorkOwn
<1>2. Past(u)
  BY DEF Past, Writing
<1>q. QED BY <1>1, <1>2, OwnIds DEF Mine

\* A session that another one leaves alone keeps what it knows of its file, if
\* the file is as it was, or gone, or now known to be another's.
LEMMA FileStays ==
  ASSUME TypeOK, [Next]_vars, NEW v \in Session, FileOwn(v),
         pc'[v] = pc[v], rule'[v] = rule[v], time'[v] = time[v], current'[v] = current[v],
         pc[v] \in Writing =>
           \/ Mine(v).id \notin DOMAIN dir'
           \/ Mine(v).id \in DOMAIN dir /\ dir'[Mine(v).id] = dir[Mine(v).id]
           \/ OtherHas(v, Mine(v).id)'
  PROVE  FileOwn(v)'
<1>1. Mine(v)' = Mine(v)
  BY DEF Mine
<1>2. SUFFICES ASSUME pc[v] \in Writing, Mine(v).id \in DOMAIN dir', ~OtherHas(v, Mine(v).id)'
               PROVE  \/ pc[v] = "marshalling" /\ dir'[Mine(v).id] = Garbled
                      \/ pc[v] = "publishing" /\ dir'[Mine(v).id] = Mine(v)
  BY <1>1 DEF FileOwn
<1>3. ~OtherHas(v, Mine(v).id)
  <2>1. PICK f : f = Mine(v).id /\ f = Mine(v)'.id
    BY <1>1
  <2>2. OtherHas(v, f) => OtherHas(v, f)'
    BY OtherHasIsKept
  <2>q. QED BY <1>2, <2>1, <2>2 DEF OtherHas
<1>q. QED BY <1>2, <1>3 DEF FileOwn

LEMMA SentStays ==
  ASSUME TypeOK, [Next]_vars, NEW v \in Session, SentOwn(v), published'[v] = published[v]
  PROVE  SentOwn(v)'
<1> SUFFICES ASSUME NEW m \in published[v]
             PROVE  /\ Past(v)'
                    /\ \/ m.body \in Own(v, rule[v].commands)' /\ m.body.id = m.id
                       \/ OtherHas(v, m.id)'
  BY DEF SentOwn
<1>1. Past(v)
  BY DEF SentOwn
<1>2. Past(v)' /\ Own(v, rule[v].commands)' = Own(v, rule[v].commands)
  BY <1>1, PastIsKept, OwnIsKept
<1>q. QED BY <1>2, OtherHasIsKept DEF SentOwn

\* What a session of which nothing changes knows of itself.
LEMMA BystanderPublishes ==
  ASSUME TypeOK, [Next]_vars, NEW v \in Session, WorkOwn(v) /\ FileOwn(v) /\ SentOwn(v),
         pc'[v] = pc[v], rule'[v] = rule[v], time'[v] = time[v], todo'[v] = todo[v],
         current'[v] = current[v], published'[v] = published[v],
         pc[v] \in Writing =>
           \/ Mine(v).id \notin DOMAIN dir'
           \/ Mine(v).id \in DOMAIN dir /\ dir'[Mine(v).id] = dir[Mine(v).id]
           \/ OtherHas(v, Mine(v).id)'
  PROVE  (WorkOwn(v) /\ FileOwn(v) /\ SentOwn(v))'
<1>1. WorkOwn(v)'
  BY DEF WorkOwn
<1>2. FileOwn(v)'
  BY FileStays
<1>3. SentOwn(v)'
  BY SentStays
<1>q. QED BY <1>1, <1>2, <1>3

\* A session that comes to write, or has written, a file is seen by the others.
LEMMA WriterIsSeen ==
  ASSUME TypeOK, [Next]_vars, NEW u \in Session, NEW v \in Session \ {u},
         NEW c \in rule[u].commands, Past(u),
         Policy(rule[u], c, time[u]).id = Mine(v).id,
         rule'[v] = rule[v], time'[v] = time[v], current'[v] = current[v]
  PROVE  OtherHas(v, Mine(v).id)'
<1>1. Mine(v).id \in Ids(u)
  BY OwnIds
<1>2. Past(u)' /\ rule'[u] = rule[u] /\ time'[u] = time[u]
  BY PastIsKept
<1>3. Ids(u)' = Ids(u)
  BY <1>2, OwnIsKept
<1>4. Mine(v)' = Mine(v)
  BY DEF Mine
<1>q. QED BY <1>1, <1>2, <1>3, <1>4 DEF OtherHas

LEMMA NextPublishInv == TypeOK /\ PublishInv /\ [Next]_vars => PublishInv'
<1> SUFFICES ASSUME TypeOK, PublishInv, [Next]_vars, NEW v \in Session
             PROVE  (WorkOwn(v) /\ FileOwn(v) /\ SentOwn(v))'
  BY DEF PublishInv
<1>0. WorkOwn(v) /\ FileOwn(v) /\ SentOwn(v)
  BY DEF PublishInv
<1> USE DEF TypeOK
<1>1. ASSUME NEW u \in Session, NEW r \in Rules, Translate(u, r)
      PROVE  (WorkOwn(v) /\ FileOwn(v) /\ SentOwn(v))'
  <2>1. CASE v = u
    <3>1. pc'[v] = "cleaning" /\ published'[v] = published[v] /\ ~Past(v)
      BY <1>1, <2>1 DEF Translate, To, Past
    <3>2. published[v] = {}
      BY <1>0, <3>1 DEF SentOwn
    <3>q. QED BY <3>1, <3>2 DEF WorkOwn, FileOwn, SentOwn, Writing
  <2>2. CASE v # u
    BY <1>0, <1>1, <2>2, BystanderPublishes DEF Translate, To, FileOwn
  <2>q. QED BY <2>1, <2>2
<1>2. ASSUME NEW u \in Session, NEW f \in listing[u], Delete(u, f)
      PROVE  (WorkOwn(v) /\ FileOwn(v) /\ SentOwn(v))'
  BY <1>0, <1>2, BystanderPublishes DEF Delete
<1>3. ASSUME NEW u \in Session, NEW f \in listing[u], Zip(u, f)
      PROVE  (WorkOwn(v) /\ FileOwn(v) /\ SentOwn(v))'
  BY <1>0, <1>3, BystanderPublishes DEF Zip
<1>4. ASSUME NEW u \in Session, NEW c \in todo[u], Create(u, c)
      PROVE  (WorkOwn(v) /\ FileOwn(v) /\ SentOwn(v))'
  <2>0. WorkOwn(u) /\ pc[u] = "writing" /\ c \in rule[u].commands
    BY <1>4 DEF PublishInv, WorkOwn, Create
  <2> DEFINE p == Policy(rule[u], c, time[u])
  <2>1. CASE v = u
    <3>1. /\ pc'[v] = "marshalling" /\ rule' = rule /\ time' = time /\ current'[v] = c
          /\ todo'[v] \subseteq todo[v] /\ published' = published
          /\ p.id \in DOMAIN dir' /\ dir'[p.id] = Garbled
      BY <1>4, <2>1 DEF Create, To
    <3>2. Mine(v)' = p
      BY <2>1, <3>1 DEF Mine
    <3>3. WorkOwn(v)'
      BY <2>0, <2>1, <3>1 DEF WorkOwn
    <3>4. FileOwn(v)'
      BY <3>1, <3>2 DEF FileOwn
    <3>5. SentOwn(v)'
      BY <1>0, <3>1, SentStays
    <3>q. QED BY <3>3, <3>4, <3>5
  <2>2. CASE v # u
    <3>1. /\ pc'[v] = pc[v] /\ rule'[v] = rule[v] /\ time'[v] = time[v] /\ todo'[v] = todo[v]
          /\ current'[v] = current[v] /\ published'[v] = published[v]
      BY <1>4, <2>2 DEF Create, To
    <3>2. Past(u)
      BY <2>0 DEF Past
    <3>3. CASE Mine(v).id = p.id
      <4>1. OtherHas(v, Mine(v).id)'
        BY <2>0, <2>2, <3>1, <3>2, <3>3, WriterIsSeen
      <4>q. QED BY <1>0, <3>1, <4>1, BystanderPublishes
    <3>4. CASE Mine(v).id # p.id
      <4>1. \/ Mine(v).id \notin DOMAIN dir'
            \/ Mine(v).id \in DOMAIN dir /\ dir'[Mine(v).id] = dir[Mine(v).id]
        BY <1>4, <3>4 DEF Create
      <4>q. QED BY <1>0, <3>1, <4>1, BystanderPublishes
    <3>q. QED BY <3>3, <3>4
  <2>q. QED BY <2>1, <2>2
<1>5. ASSUME NEW u \in Session, Cleaned(u)
      PROVE  (WorkOwn(v) /\ FileOwn(v) /\ SentOwn(v))'
  <2>1. CASE v = u
    <3>1. /\ pc'[v] \in {"failed", "building"} /\ pc[v] = "cleaning"
          /\ published'[v] = published[v]
      BY <1>5, <2>1 DEF Cleaned, To
    <3>2. published[v] = {}
      BY <1>0, <3>1 DEF SentOwn, Past
    <3>q. QED BY <3>1, <3>2 DEF WorkOwn, FileOwn, SentOwn, Writing
  <2>2. CASE v # u
    BY <1>0, <1>5, <2>2, BystanderPublishes DEF Cleaned, To, FileOwn
  <2>q. QED BY <2>1, <2>2
<1>6. ASSUME NEW u \in Session, Build(u)
      PROVE  (WorkOwn(v) /\ FileOwn(v) /\ SentOwn(v))'
  <2>1. CASE v = u
    <3>1. /\ pc'[v] \in {"failed", "writing"} /\ pc[v] = "building"
          /\ rule' = rule /\ published'[v] = published[v]
      BY <1>6, <2>1 DEF Build, To
    <3>2. published[v] = {}
      BY <1>0, <3>1 DEF SentOwn, Past
    <3>3. pc'[v] = "writing" => todo'[v] \subseteq rule'[v].commands
      <4>1. rule[v] \in Rules
        BY <3>1, SessionTypes
      <4>2. pc'[v] = "writing" => \E cs \in Chosen(rule[v]) : todo'[v] = cs
        BY <1>6, <2>1 DEF Build, To
      <4>q. QED BY <3>1, <4>1, <4>2, ChosenAreCommands
    <3>q. QED BY <3>1, <3>2, <3>3 DEF WorkOwn, FileOwn, SentOwn, Writing
  <2>2. CASE v # u
    <3>1. /\ pc'[v] = pc[v] /\ rule'[v] = rule[v] /\ time'[v] = time[v] /\ todo'[v] = todo[v]
          /\ current'[v] = current[v] /\ published'[v] = published[v] /\ dir' = dir
      BY <1>6, <2>2 DEF Build, To
    <3>q. QED BY <1>0, <3>1, BystanderPublishes
  <2>q. QED BY <2>1, <2>2
<1>7. ASSUME NEW u \in Session, Marshal(u)
      PROVE  (WorkOwn(v) /\ FileOwn(v) /\ SentOwn(v))'
  <2>0. WorkOwn(u) /\ FileOwn(u) /\ pc[u] = "marshalling" /\ UNCHANGED <<rule, time, todo, current, published>>
    BY <1>7 DEF PublishInv, Marshal
  <2>1. \/ UNCHANGED dir /\ Mine(u).id \notin DOMAIN dir
        \/ /\ Mine(u).id \in DOMAIN dir
           /\ \E b : /\ dir' = [dir EXCEPT ![Mine(u).id] = b]
                     /\ b = Mine(u) \/ Contested(u)
    BY <1>7 DEF Marshal
  <2>2. CASE v = u
    <3>1. pc'[v] = "publishing"
      BY <1>7, <2>2 DEF Marshal, To
    <3>2. Mine(v)' = Mine(v)
      BY <2>0 DEF Mine
    <3>3. WorkOwn(v)'
      BY <2>0, <2>2, <3>1 DEF WorkOwn, Writing
    <3>4. FileOwn(v)'
      <4>1. ASSUME Contested(u), Mine(u).id \in DOMAIN dir PROVE OtherHas(u, Mine(u).id)
        <5>1. CASE dir[Mine(u).id] # Garbled
          BY <2>0, <4>1, <5>1 DEF FileOwn, Writing
        <5>2. CASE \E w \in Session \ {u} : pc[w] \in Writing /\ Mine(w).id = Mine(u).id
          <6>1. PICK w \in Session \ {u} : pc[w] \in Writing /\ Mine(w).id = Mine(u).id
            BY <5>2
          <6>2. Past(w) /\ Mine(w).id \in Ids(w)
            BY <6>1, WritersHaveIds DEF PublishInv
          <6>q. QED BY <6>1, <6>2 DEF OtherHas
        <5>q. QED BY <4>1, <5>1, <5>2 DEF Contested, Writing
      <4>2. OtherHas(u, Mine(u).id) => OtherHas(v, Mine(v).id)'
        <5>1. PICK f : f = Mine(v).id
          OBVIOUS
        <5>2. OtherHas(v, f) => OtherHas(v, f)'
          BY OtherHasIsKept
        <5>q. QED BY <2>2, <3>2, <5>1, <5>2 DEF OtherHas
      <4>3. ASSUME Mine(u).id \in DOMAIN dir, NEW b,
                   dir' = [dir EXCEPT ![Mine(u).id] = b], b = Mine(u)
            PROVE  dir'[Mine(v).id] = Mine(v)
        BY <2>2, <4>3
      <4>q. QED BY <2>1, <2>2, <3>1, <3>2, <4>1, <4>2, <4>3 DEF FileOwn
    <3>5. SentOwn(v)'
      BY <1>0, <2>0, SentStays
    <3>q. QED BY <3>3, <3>4, <3>5
  <2>3. CASE v # u
    <3>1. /\ pc'[v] = pc[v] /\ rule'[v] = rule[v] /\ time'[v] = time[v] /\ todo'[v] = todo[v]
          /\ current'[v] = current[v] /\ published'[v] = published[v]
      BY <1>7, <2>3 DEF Marshal, To
    <3>2. CASE Mine(v).id = Mine(u).id
      <4>1. Past(u) /\ current[u] \in rule[u].commands
        BY <2>0 DEF Past, WorkOwn, Writing
      <4>2. OtherHas(v, Mine(v).id)'
        BY <2>3, <3>1, <3>2, <4>1, WriterIsSeen DEF Mine
      <4>q. QED BY <1>0, <3>1, <4>2, BystanderPublishes
    <3>3. CASE Mine(v).id # Mine(u).id
      BY <1>0, <2>1, <3>1, <3>3, BystanderPublishes
    <3>q. QED BY <3>2, <3>3
  <2>q. QED BY <2>2, <2>3
<1>8. ASSUME NEW u \in Session, Publish(u)
      PROVE  (WorkOwn(v) /\ FileOwn(v) /\ SentOwn(v))'
  <2>0. /\ WorkOwn(u) /\ FileOwn(u) /\ SentOwn(u) /\ pc[u] = "publishing"
        /\ UNCHANGED <<dir, rule, time, todo, current>>
    BY <1>8 DEF PublishInv, Publish
  <2>1. CASE v = u
    <3>1. pc'[v] \in {"failed", "writing"}
      BY <1>8, <2>1 DEF Publish, To
    <3>2. WorkOwn(v)' /\ FileOwn(v)'
      BY <2>0, <2>1, <3>1 DEF WorkOwn, FileOwn, Writing
    <3>3. ASSUME NEW m \in published'[v]
          PROVE  /\ Past(v)'
                 /\ \/ m.body \in Own(v, rule[v].commands)' /\ m.body.id = m.id
                    \/ OtherHas(v, m.id)'
      <4>1. Past(v) /\ Mine(v) \in Own(v, rule[v].commands)
        BY <2>0, <2>1, WritersHaveIds DEF Writing
      <4>2. Past(v)' /\ Own(v, rule[v].commands)' = Own(v, rule[v].commands)
        BY <4>1, PastIsKept, OwnIsKept
      <4>3. CASE m \in published[v]
        BY <1>0, <4>2, <4>3, OtherHasIsKept DEF SentOwn
      <4>4. CASE m \notin published[v]
        <5>1. /\ m.id = Mine(v).id /\ m.body = dir[Mine(v).id]
              /\ Mine(v).id \in DOMAIN dir
          BY <1>8, <2>1, <3>3, <4>4 DEF Publish
        <5>2. m.body = Mine(v) \/ OtherHas(v, m.id)
          BY <2>0, <2>1, <5>1 DEF FileOwn, Writing
        <5>q. QED BY <4>1, <4>2, <5>1, <5>2, OtherHasIsKept
      <4>q. QED BY <4>3, <4>4
    <3>4. SentOwn(v)'
      BY <3>3 DEF SentOwn
    <3>q. QED BY <3>2, <3>4
  <2>2. CASE v # u
    <3>1. pc'[v] = pc[v] /\ published'[v] = published[v]
      BY <1>8, <2>2 DEF Publish, To
    <3>q. QED BY <1>0, <2>0, <3>1, BystanderPublishes
  <2>q. QED BY <2>1, <2>2
<1>9. ASSUME NEW u \in Session, Translated(u) \/ Download(u) \/ Downloaded(u)
      PROVE  (WorkOwn(v) /\ FileOwn(v) /\ SentOwn(v))'
  <2>0. UNCHANGED <<dir, rule, time, todo, current, published>>
    BY <1>9 DEF Translated, Download, Downloaded
  <2>1. CASE v = u
    <3>1. pc'[v] \in {"translated", "zipping", "downloaded"}
      BY <1>9, <2>1 DEF Translated, Download, Downloaded, To
    <3>2. WorkOwn(v)' /\ FileOwn(v)'
      BY <3>1 DEF WorkOwn, FileOwn, Writing
    <3>q. QED BY <1>0, <2>0, <3>2, SentStays
  <2>2. CASE v # u
    <3>1. pc'[v] = pc[v]
      BY <1>9, <2>2 DEF Translated, Download, Downloaded, To
    <3>q. QED BY <1>0, <2>0, <3>1, BystanderPublishes
  <2>q. QED BY <2>1, <2>2
<1>10. CASE UNCHANGED vars
  BY <1>0, <1>10, BystanderPublishes DEF vars, requestVars
<1>q. QED
  BY <1>1, <1>2, <1>3, <1>4, <1>5, <1>6, <1>7, <1>8, <1>9, <1>10 DEF Next

LEMMA InitPublishInv == Init => PublishInv
  BY DEF Init, PublishInv, WorkOwn, FileOwn, SentOwn, Writing

LEMMA PublishInvSuffices == PublishInv => PublishesOwn
<1> SUFFICES ASSUME PublishInv, NEW u \in Session, NEW m \in published[u]
             PROVE  \/ m.body \in Own(u, rule[u].commands) /\ m.body.id = m.id
                    \/ \E v \in Session \ {u} : pc[v] # "idle" /\ m.id \in Ids(v)
  BY DEF PublishesOwn
<1>q. QED BY DEF PublishInv, SentOwn, OtherHas, Past

\* What is published under an identifier is the policy that has it, unless two
\* sessions use the identifier: for any number of sessions, whatever they delete
\* and overwrite of each other's files (PublishesOwn).
THEOREM PublishedAreOwn == Spec => []PublishesOwn
<1>1. Init => TypeOK /\ PublishInv
  BY InitTypeOK, InitPublishInv
<1>2. TypeOK /\ PublishInv /\ [Next]_vars => (TypeOK /\ PublishInv)'
  BY NextTypeOK, NextPublishInv
<1>q. QED BY <1>1, <1>2, PublishInvSuffices, PTL DEF Spec

(***************************************************************************)
(* What is downloaded.                                                     *)
(***************************************************************************)
\* Two commands of a rule with the same identifier have the same policy.
LEMMA IdDeterminesPolicy ==
  ASSUME NEW r, NEW c, NEW d, NEW t, Policy(r, c, t).id = Policy(r, d, t).id
  PROVE  Policy(r, c, t) = Policy(r, d, t)
<1>1. CASE r.subject = "marketplace"
  <2>1. ActionPart(r, c) = ActionPart(r, d) /\ TargetPart(r, c) = TargetPart(r, d)
    BY <1>1 DEF Policy, InstallationPolicy
  <2>q. QED BY <1>1, <2>1 DEF Policy, InstallationPolicy, ActionPart, TargetPart
<1>2. CASE r.subject # "marketplace"
  <2>1. ActionPart(r, c) = ActionPart(r, d) /\ TargetPart(r, c) = TargetPart(r, d)
    BY <1>2 DEF Policy, ExecutionPolicy
  <2>q. QED BY <1>2, <2>1 DEF Policy, ExecutionPolicy, ActionPart
<1>q. QED BY <1>1, <1>2

Made(u, c) == Policy(rule[u], c, time[u])

\* While an undisturbed session uses the directory, no other one writes there.
Alone(u) ==
  ~disturbed[u] /\ pc[u] \in Using => \A w \in Session \ {u} : pc[w] \notin Translating

\* The directory holds the policies of the commands done, one of them unfinished,
\* and the zip those of the files that are no longer listed.
Filled(u, cs) ==
  /\ cs \in Chosen(rule[u]) /\ todo[u] \subseteq cs
  /\ DOMAIN dir = {Made(u, c).id : c \in cs \ todo[u]}
  /\ pc[u] \in Writing => current[u] \in cs \ todo[u]
  /\ \A c \in cs \ todo[u] :
       dir[Made(u, c).id] =
         IF pc[u] = "marshalling" /\ Made(u, c).id = Mine(u).id THEN Garbled ELSE Made(u, c)
  /\ pc[u] \in {"translated", "zipping"} => todo[u] = {}
  /\ pc[u] = "zipping" =>
       /\ listing[u] \subseteq DOMAIN dir /\ zip[u] \subseteq Own(u, cs)
       /\ \A f \in DOMAIN dir \ listing[u] : dir[f] \in zip[u]

FromWriting == {"writing", "translated", "zipping"} \cup Writing

Complete(u) ==
  /\ pc[u] \in Translating \cup {"idle", "translated"} => zip[u] = {}
  /\ ~disturbed[u] =>
       /\ pc[u] = "cleaning" => DOMAIN dir \subseteq listing[u]
       /\ pc[u] = "building" => DOMAIN dir = {}
       /\ pc[u] \in FromWriting => \E cs \in Chosen(rule[u]) : Filled(u, cs)
       /\ pc[u] = "downloaded" => \E cs \in Chosen(rule[u]) : zip[u] = Own(u, cs)

DownloadInv == \A u \in Session : Alone(u) /\ Complete(u)

\* What step of u does to another session v.
LEMMA OthersDownload ==
  ASSUME TypeOK, NEW v \in Session, Alone(v), Complete(v),
         pc'[v] = pc[v], rule'[v] = rule[v], time'[v] = time[v], todo'[v] = todo[v],
         current'[v] = current[v], listing'[v] = listing[v], zip'[v] = zip[v],
         disturbed[v] => disturbed'[v],
         ~disturbed'[v] /\ pc[v] \in Using => dir' = dir
  PROVE  Complete(v)'
<1>1. ASSUME ~disturbed'[v], pc[v] \in Using, NEW cs, Filled(v, cs) PROVE Filled(v, cs)'
  <2>1. dir' = dir
    BY <1>1
  <2>2. /\ Mine(v)' = Mine(v) /\ Own(v, cs)' = Own(v, cs)
        /\ \A c : Made(v, c)' = Made(v, c)
    BY DEF Mine, Own, Made
  <2>q. QED BY <1>1, <2>1, <2>2 DEF Filled, Made
<1>2. (pc[v] \in Translating \cup {"idle", "translated"} => zip[v] = {})'
  BY DEF Complete
<1>3. ASSUME ~disturbed'[v]
      PROVE  /\ pc[v] = "cleaning" => DOMAIN dir' \subseteq listing[v]
             /\ pc[v] = "building" => DOMAIN dir' = {}
  BY <1>3 DEF Complete, Using, Translating
<1>4. ASSUME ~disturbed'[v], pc[v] \in FromWriting
      PROVE  \E cs \in Chosen(rule[v]) : Filled(v, cs)'
  <2>1. pc[v] \in Using
    BY <1>4 DEF FromWriting, Using, Translating, Writing
  <2>2. PICK cs \in Chosen(rule[v]) : Filled(v, cs)
    BY <1>4 DEF Complete
  <2>q. QED BY <1>1, <1>4, <2>1, <2>2
<1>5. ASSUME ~disturbed'[v], pc[v] = "downloaded"
      PROVE  \E cs \in Chosen(rule[v]) : zip[v] = Own(v, cs)'
  BY <1>5 DEF Complete, Own
<1>q. QED BY <1>2, <1>3, <1>4, <1>5 DEF Complete

LEMMA NextAlone ==
  ASSUME TypeOK, [Next]_vars, NEW v \in Session, Alone(v) PROVE Alone(v)'
<1> USE DEF TypeOK
<1>1. ASSUME NEW u \in Session, NEW r \in Rules, Translate(u, r) PROVE Alone(v)'
  <2>1. CASE v = u
    BY <1>1, <2>1 DEF Translate, To, Alone
  <2>2. CASE v # u
    BY <1>1, <2>2 DEF Translate, To, Alone
  <2>q. QED BY <2>1, <2>2
<1>2. ASSUME disturbed' = disturbed,
             \A w \in Session : /\ pc'[w] \in Translating => pc[w] \in Translating
                                /\ pc'[w] \in Using => pc[w] \in Using
      PROVE  Alone(v)'
  BY <1>2 DEF Alone
<1> USE DEF Translating, Using
<1>3. ASSUME NEW u \in Session, NEW f \in listing[u], Delete(u, f) \/ Zip(u, f) PROVE Alone(v)'
  BY <1>2, <1>3 DEF Delete, Zip
<1>4. ASSUME NEW u \in Session, NEW c \in todo[u], Create(u, c) PROVE Alone(v)'
  BY <1>2, <1>4 DEF Create, To
<1>5. ASSUME NEW u \in Session, Cleaned(u) \/ Build(u) PROVE Alone(v)'
  BY <1>2, <1>5 DEF Cleaned, Build, To
<1>6. ASSUME NEW u \in Session,
             Marshal(u) \/ Publish(u) \/ Translated(u) \/ Download(u) \/ Downloaded(u)
      PROVE  Alone(v)'
  BY <1>2, <1>6 DEF Marshal, Publish, Translated, Download, Downloaded, To
<1>7. CASE UNCHANGED vars
  BY <1>2, <1>7 DEF vars, requestVars
<1>q. QED BY <1>1, <1>3, <1>4, <1>5, <1>6, <1>7 DEF Next

\* The steps of a session, seen by itself.
LEMMA CleaningComplete ==
  ASSUME TypeOK, NEW u \in Session, Complete(u),
         \/ \E r \in Rules : Translate(u, r)
         \/ \E f \in listing[u] : Delete(u, f)
         \/ Cleaned(u)
  PROVE  Complete(u)'
<1> USE DEF TypeOK
<1>1. CASE \E r \in Rules : Translate(u, r)
  <2>1. pc'[u] = "cleaning" /\ dir' = dir /\ listing'[u] = DOMAIN dir /\ zip'[u] = {}
    BY <1>1 DEF Translate, To, Complete
  <2>q. QED BY <2>1 DEF Complete, FromWriting, Writing
<1>2. ASSUME NEW f \in listing[u], Delete(u, f) PROVE Complete(u)'
  <2>1. /\ pc[u] = "cleaning" /\ pc' = pc /\ DOMAIN dir' = DOMAIN dir \ {f}
        /\ listing'[u] = listing[u] \ {f} /\ zip' = zip /\ disturbed' = disturbed
    BY <1>2 DEF Delete
  <2>q. QED BY <2>1 DEF Complete, FromWriting, Writing
<1>3. CASE Cleaned(u)
  <2>1. /\ pc[u] = "cleaning" /\ pc'[u] \in {"failed", "building"} /\ listing[u] = {}
        /\ UNCHANGED <<dir, zip, disturbed>>
    BY <1>3 DEF Cleaned, To
  <2>2. zip[u] = {} /\ (~disturbed[u] => DOMAIN dir = {})
    BY <2>1 DEF Complete, Translating
  <2>q. QED BY <2>1, <2>2 DEF Complete, FromWriting, Writing, Translating
<1>q. QED BY <1>1, <1>2, <1>3

LEMMA BuildComplete ==
  ASSUME TypeOK, NEW u \in Session, Complete(u), Build(u)
  PROVE  Complete(u)'
<1> USE DEF TypeOK
<1>1. /\ pc[u] = "building" /\ pc'[u] \in {"failed", "writing"}
      /\ UNCHANGED <<dir, rule, listing, zip, disturbed>>
  BY DEF Build, To
<1>2. zip'[u] = {} /\ (~disturbed'[u] => DOMAIN dir' = {})
  BY <1>1 DEF Complete, Translating
<1>3. ASSUME pc'[u] = "writing", ~disturbed'[u]
      PROVE  \E cs \in Chosen(rule[u]) : Filled(u, cs)'
  <2>1. PICK cs \in Chosen(rule[u]) : todo' = [todo EXCEPT ![u] = cs]
    BY <1>1, <1>3 DEF Build, To
  <2>2. todo'[u] = cs /\ cs \ todo'[u] = {}
    BY <2>1
  <2>q. QED BY <1>1, <1>2, <1>3, <2>2 DEF Filled, Writing
<1>q. QED BY <1>1, <1>2, <1>3 DEF Complete, FromWriting, Writing

LEMMA CreateComplete ==
  ASSUME TypeOK, NEW u \in Session, Complete(u), NEW c \in todo[u], Create(u, c)
  PROVE  Complete(u)'
<1> USE DEF TypeOK
<1>1. /\ pc[u] = "writing" /\ pc'[u] = "marshalling" /\ current'[u] = c
      /\ todo'[u] = todo[u] \ {c}
      /\ UNCHANGED <<rule, time, listing, zip, disturbed>>
      /\ dir' = [g \in DOMAIN dir \cup {Made(u, c).id} |->
                   IF g = Made(u, c).id THEN Garbled ELSE dir[g]]
  BY DEF Create, To, Made
<1>2. /\ \A d : Made(u, d)' = Made(u, d)
      /\ Mine(u)' = Made(u, c)
  BY <1>1 DEF Made, Mine
<1>3. ASSUME NEW cs \in Chosen(rule[u]), Filled(u, cs) PROVE Filled(u, cs)'
  <2>1. cs \ todo'[u] = (cs \ todo[u]) \cup {c}
    BY <1>1, <1>3 DEF Filled
  <2>2. DOMAIN dir' = {Made(u, d).id : d \in cs \ todo'[u]}
    BY <1>1, <1>3, <2>1 DEF Filled
  <2>3. ASSUME NEW d \in cs \ todo'[u]
        PROVE  dir'[Made(u, d).id] =
                 IF Made(u, d).id = Made(u, c).id THEN Garbled ELSE Made(u, d)
    <3>1. CASE Made(u, d).id = Made(u, c).id
      BY <1>1, <3>1
    <3>2. CASE Made(u, d).id # Made(u, c).id
      <4>1. d \in cs \ todo[u]
        BY <2>1, <3>2
      <4>q. QED BY <1>1, <1>3, <3>2, <4>1 DEF Filled
    <3>q. QED BY <3>1, <3>2
  <2>4. DOMAIN dir' = {Made(u, d)'.id : d \in cs \ todo'[u]}
    BY <1>1, <2>2 DEF Made
  <2>5. \A d \in cs \ todo'[u] :
          dir'[Made(u, d)'.id] =
            IF pc'[u] = "marshalling" /\ Made(u, d)'.id = Mine(u)'.id
            THEN Garbled ELSE Made(u, d)'
    BY <1>1, <1>2, <2>3
  <2>6. cs \in Chosen(rule'[u]) /\ todo'[u] \subseteq cs /\ c \in cs \ todo'[u]
    BY <1>1, <1>3, <2>1 DEF Filled
  <2>7. /\ (pc[u] \in Writing => current[u] \in cs \ todo[u])'
        /\ (pc[u] \notin {"translated", "zipping"})'
    BY <1>1, <2>6
  <2>q. QED BY <2>4, <2>5, <2>6, <2>7 DEF Filled
<1>q. QED BY <1>1, <1>3 DEF Complete, FromWriting, Writing, Translating

LEMMA MarshalComplete ==
  ASSUME TypeOK, NEW u \in Session, Alone(u), Complete(u), Marshal(u)
  PROVE  Complete(u)'
<1> USE DEF TypeOK
<1>1. /\ pc[u] = "marshalling" /\ pc'[u] = "publishing"
      /\ UNCHANGED <<rule, time, todo, current, listing, zip, disturbed>>
  BY DEF Marshal, To
<1>2. (\A d : Made(u, d)' = Made(u, d)) /\ Mine(u)' = Mine(u) /\ Mine(u) = Made(u, current[u])
  BY <1>1 DEF Made, Mine
<1>3. ASSUME ~disturbed[u], NEW cs \in Chosen(rule[u]), Filled(u, cs) PROVE Filled(u, cs)'
  <2>1. current[u] \in cs \ todo[u]
    BY <1>1, <1>3 DEF Filled, Writing
  <2>2. Mine(u).id \in DOMAIN dir /\ dir[Mine(u).id] = Garbled
    BY <1>1, <1>2, <1>3, <2>1 DEF Filled
  <2>3. ~Contested(u)
    BY <1>1, <1>3, <2>2 DEF Contested, Alone, Using, Translating
  <2>4. dir' = [dir EXCEPT ![Mine(u).id] = Mine(u)]
    BY <2>2, <2>3 DEF Marshal
  <2>5. ASSUME NEW d \in cs \ todo[u] PROVE dir'[Made(u, d).id] = Made(u, d)
    <3>0. Made(u, d).id \in DOMAIN dir
      BY <1>3 DEF Filled
    <3>1. CASE Made(u, d).id = Mine(u).id
      <4>1. Made(u, d) = Mine(u)
        BY <3>1, IdDeterminesPolicy DEF Made, Mine
      <4>q. QED BY <2>4, <3>0, <4>1
    <3>2. CASE Made(u, d).id # Mine(u).id
      BY <1>3, <2>4, <3>0, <3>2 DEF Filled
    <3>q. QED BY <3>1, <3>2
  <2>6. DOMAIN dir' = {Made(u, d)'.id : d \in cs \ todo'[u]}
    BY <1>1, <1>3, <2>4 DEF Filled, Made
  <2>7. /\ \A d \in cs \ todo'[u] : dir'[Made(u, d)'.id] = Made(u, d)'
        /\ cs \in Chosen(rule'[u]) /\ todo'[u] \subseteq cs /\ current'[u] \in cs \ todo'[u]
    BY <1>1, <1>2, <1>3, <2>1, <2>5 DEF Filled
  <2>q. QED BY <1>1, <2>6, <2>7 DEF Filled
<1>q. QED BY <1>1, <1>3 DEF Complete, FromWriting, Writing, Translating

\* Steps that change neither the directory nor what has been made.
LEMMA FilledGoesOn ==
  ASSUME TypeOK, NEW u \in Session, NEW cs, Filled(u, cs),
         UNCHANGED <<dir, rule, time, todo>>,
         pc[u] # "marshalling", pc'[u] \notin Writing,
         pc'[u] \in {"translated", "zipping"} => todo[u] = {},
         pc'[u] = "zipping" =>
           /\ listing'[u] \subseteq DOMAIN dir /\ zip'[u] \subseteq Own(u, cs)
           /\ \A f \in DOMAIN dir \ listing'[u] : dir[f] \in zip'[u]
  PROVE  Filled(u, cs)'
<1>1. (\A d : Made(u, d)' = Made(u, d)) /\ Own(u, cs)' = Own(u, cs)
  BY DEF Made, Own
<1>2. DOMAIN dir' = {Made(u, d)'.id : d \in cs \ todo'[u]}
  BY DEF Filled, Made
<1>3. \A d \in cs \ todo'[u] : dir'[Made(u, d)'.id] = Made(u, d)'
  BY <1>1 DEF Filled
<1>q. QED BY <1>1, <1>2, <1>3 DEF Filled, Writing

LEMMA PublishComplete ==
  ASSUME TypeOK, NEW u \in Session, Complete(u), Publish(u) \/ Translated(u) \/ Download(u)
  PROVE  Complete(u)'
<1> USE DEF TypeOK
<1>1. CASE Publish(u)
  <2>1. /\ pc[u] = "publishing" /\ pc'[u] \in {"failed", "writing"}
        /\ UNCHANGED <<dir, rule, time, todo, current, listing, zip, disturbed>>
    BY <1>1 DEF Publish, To
  <2>2. ASSUME pc'[u] = "writing", NEW cs, Filled(u, cs) PROVE Filled(u, cs)'
    BY <2>1, <2>2, FilledGoesOn DEF Writing
  <2>q. QED BY <2>1, <2>2 DEF Complete, FromWriting, Writing, Translating
<1>2. CASE Translated(u)
  <2>1. /\ pc[u] = "writing" /\ pc'[u] = "translated" /\ todo[u] = {}
        /\ UNCHANGED <<dir, rule, time, todo, current, listing, zip, disturbed>>
    BY <1>2 DEF Translated, To
  <2>2. ASSUME NEW cs, Filled(u, cs) PROVE Filled(u, cs)'
    BY <2>1, <2>2, FilledGoesOn DEF Writing
  <2>q. QED BY <2>1, <2>2 DEF Complete, FromWriting, Writing, Translating
<1>3. CASE Download(u)
  <2>1. /\ pc[u] = "translated" /\ pc'[u] = "zipping" /\ listing'[u] = DOMAIN dir
        /\ UNCHANGED <<dir, rule, time, todo, current, zip, disturbed>>
    BY <1>3 DEF Download, To
  <2>2. zip'[u] = {}
    BY <2>1 DEF Complete
  <2>3. ASSUME NEW cs, Filled(u, cs) PROVE Filled(u, cs)'
    <3>1. todo[u] = {}
      BY <2>1, <2>3 DEF Filled
    <3>q. QED BY <2>1, <2>2, <2>3, <3>1, FilledGoesOn DEF Writing
  <2>q. QED BY <2>1, <2>2, <2>3 DEF Complete, FromWriting, Writing, Translating
<1>q. QED BY <1>1, <1>2, <1>3

LEMMA ZipComplete ==
  ASSUME TypeOK, NEW u \in Session, Complete(u), NEW f \in listing[u], Zip(u, f)
  PROVE  Complete(u)'
<1> USE DEF TypeOK
<1>1. /\ pc[u] = "zipping" /\ pc' = pc
      /\ UNCHANGED <<dir, rule, time, todo, disturbed>>
  BY DEF Zip
<1>2. ASSUME NEW cs, Filled(u, cs) PROVE Filled(u, cs)'
  <2>1. f \in DOMAIN dir /\ todo[u] = {}
    BY <1>1, <1>2 DEF Filled
  <2>2. zip'[u] = zip[u] \cup {dir[f]} /\ listing'[u] = listing[u] \ {f}
    BY <2>1 DEF Zip
  <2>3. PICK c \in cs \ todo[u] : f = Made(u, c).id
    BY <1>2, <2>1 DEF Filled
  <2>4. dir[f] = Made(u, c)
    BY <1>1, <1>2, <2>3 DEF Filled
  <2>5. dir[f] \in Own(u, cs)
    BY <2>4 DEF Own, Made
  <2>6. /\ listing'[u] \subseteq DOMAIN dir /\ zip'[u] \subseteq Own(u, cs)
        /\ \A g \in DOMAIN dir \ listing'[u] : dir[g] \in zip'[u]
    BY <1>1, <1>2, <2>2, <2>5 DEF Filled
  <2>q. QED BY <1>1, <1>2, <2>1, <2>6, FilledGoesOn DEF Writing
<1>q. QED BY <1>1, <1>2 DEF Complete, FromWriting, Writing, Translating

LEMMA DownloadedComplete ==
  ASSUME TypeOK, NEW u \in Session, Complete(u), Downloaded(u)
  PROVE  Complete(u)'
<1> USE DEF TypeOK
<1>1. /\ pc[u] = "zipping" /\ pc'[u] = "downloaded" /\ listing[u] = {}
      /\ UNCHANGED <<rule, time, zip, disturbed>>
  BY DEF Downloaded, To
<1>2. ASSUME NEW cs, Filled(u, cs) PROVE zip[u] = Own(u, cs)
  <2>1. todo[u] = {} /\ zip[u] \subseteq Own(u, cs) /\ \A f \in DOMAIN dir : dir[f] \in zip[u]
    BY <1>1, <1>2 DEF Filled
  <2>2. ASSUME NEW c \in cs PROVE Made(u, c) \in zip[u]
    <3>1. Made(u, c).id \in DOMAIN dir /\ dir[Made(u, c).id] = Made(u, c)
      BY <1>1, <1>2, <2>1 DEF Filled
    <3>q. QED BY <2>1, <3>1
  <2>3. Own(u, cs) \subseteq zip[u]
    BY <2>2 DEF Own, Made
  <2>q. QED BY <2>1, <2>3
<1>3. \A cs : Own(u, cs)' = Own(u, cs)
  BY <1>1 DEF Own
<1>q. QED BY <1>1, <1>2, <1>3 DEF Complete, FromWriting, Writing, Translating

LEMMA NextDownloadInv == TypeOK /\ DownloadInv /\ [Next]_vars => DownloadInv'
<1> SUFFICES ASSUME TypeOK, DownloadInv, [Next]_vars, NEW v \in Session PROVE Complete(v)'
  BY NextAlone DEF DownloadInv
<1>0. Alone(v) /\ Complete(v)
  BY DEF DownloadInv
<1> USE DEF TypeOK
<1> DEFINE Left == /\ pc'[v] = pc[v] /\ rule'[v] = rule[v] /\ time'[v] = time[v]
                   /\ todo'[v] = todo[v] /\ current'[v] = current[v]
                   /\ listing'[v] = listing[v] /\ zip'[v] = zip[v]
                   /\ disturbed[v] => disturbed'[v]
<1> HIDE DEF Left
<1>1. ASSUME Left, ~disturbed'[v] /\ pc[v] \in Using => dir' = dir PROVE Complete(v)'
  BY <1>0, <1>1, OthersDownload DEF Left
\* A session that writes to the directory has disturbed v, or v does not use it.
<1>2. ASSUME NEW u \in Session \ {v}, pc[u] \in Translating, disturbed' = disturbed, Left
      PROVE  Complete(v)'
  BY <1>0, <1>1, <1>2 DEF Alone
<1>3. ASSUME NEW u \in Session, NEW r \in Rules, Translate(u, r) PROVE Complete(v)'
  <2>1. CASE v = u
    BY <1>0, <1>3, <2>1, CleaningComplete
  <2>2. CASE v # u
    <3>1. Left /\ dir' = dir
      BY <1>3, <2>2 DEF Translate, To, Left
    <3>q. QED BY <1>1, <3>1
  <2>q. QED BY <2>1, <2>2
<1>4. ASSUME NEW u \in Session, NEW f \in listing[u], Delete(u, f) PROVE Complete(v)'
  <2>1. CASE v = u
    BY <1>0, <1>4, <2>1, CleaningComplete
  <2>2. CASE v # u
    <3>1. Left /\ disturbed' = disturbed /\ pc[u] \in Translating
      BY <1>4, <2>2 DEF Delete, Left, Translating
    <3>q. QED BY <1>2, <2>2, <3>1
  <2>q. QED BY <2>1, <2>2
<1>5. ASSUME NEW u \in Session, NEW f \in listing[u], Zip(u, f) PROVE Complete(v)'
  <2>1. CASE v = u
    BY <1>0, <1>5, <2>1, ZipComplete
  <2>2. CASE v # u
    <3>1. Left /\ dir' = dir
      BY <1>5, <2>2 DEF Zip, Left
    <3>q. QED BY <1>1, <3>1
  <2>q. QED BY <2>1, <2>2
<1>6. ASSUME NEW u \in Session, NEW c \in todo[u], Create(u, c) PROVE Complete(v)'
  <2>1. CASE v = u
    BY <1>0, <1>6, <2>1, CreateComplete
  <2>2. CASE v # u
    <3>1. Left /\ disturbed' = disturbed /\ pc[u] \in Translating
      BY <1>6, <2>2 DEF Create, To, Left, Translating
    <3>q. QED BY <1>2, <2>2, <3>1
  <2>q. QED BY <2>1, <2>2
<1>7. ASSUME NEW u \in Session, Cleaned(u) PROVE Complete(v)'
  <2>1. CASE v = u
    BY <1>0, <1>7, <2>1, CleaningComplete
  <2>2. CASE v # u
    <3>1. Left /\ dir' = dir
      BY <1>7, <2>2 DEF Cleaned, To, Left
    <3>q. QED BY <1>1, <3>1
  <2>q. QED BY <2>1, <2>2
<1>8. ASSUME NEW u \in Session, Build(u) PROVE Complete(v)'
  <2>1. CASE v = u
    BY <1>0, <1>8, <2>1, BuildComplete
  <2>2. CASE v # u
    <3>1. Left /\ dir' = dir
      BY <1>8, <2>2 DEF Build, To, Left
    <3>q. QED BY <1>1, <3>1
  <2>q. QED BY <2>1, <2>2
<1>9. ASSUME NEW u \in Session, Marshal(u) PROVE Complete(v)'
  <2>1. CASE v = u
    BY <1>0, <1>9, <2>1, MarshalComplete
  <2>2. CASE v # u
    <3>1. Left /\ disturbed' = disturbed /\ pc[u] \in Translating
      BY <1>9, <2>2 DEF Marshal, To, Left, Translating
    <3>q. QED BY <1>2, <2>2, <3>1
  <2>q. QED BY <2>1, <2>2
<1>10. ASSUME NEW u \in Session, Publish(u) \/ Translated(u) \/ Download(u) PROVE Complete(v)'
  <2>1. CASE v = u
    BY <1>0, <1>10, <2>1, PublishComplete
  <2>2. CASE v # u
    <3>1. Left /\ dir' = dir
      BY <1>10, <2>2 DEF Publish, Translated, Download, To, Left
    <3>q. QED BY <1>1, <3>1
  <2>q. QED BY <2>1, <2>2
<1>11. ASSUME NEW u \in Session, Downloaded(u) PROVE Complete(v)'
  <2>1. CASE v = u
    BY <1>0, <1>11, <2>1, DownloadedComplete
  <2>2. CASE v # u
    <3>1. Left /\ dir' = dir
      BY <1>11, <2>2 DEF Downloaded, To, Left
    <3>q. QED BY <1>1, <3>1
  <2>q. QED BY <2>1, <2>2
<1>12. CASE UNCHANGED vars
  <2>1. Left /\ dir' = dir
    BY <1>12 DEF vars, requestVars, Left
  <2>q. QED BY <1>1, <2>1
<1>q. QED
  BY <1>3, <1>4, <1>5, <1>6, <1>7, <1>8, <1>9, <1>10, <1>11, <1>12 DEF Next

LEMMA InitDownloadInv == Init => DownloadInv
  BY DEF Init, DownloadInv, Alone, Complete, Using, Translating, FromWriting, Writing

LEMMA DownloadInvSuffices == DownloadInv => DownloadsOwnAlone
  BY DEF DownloadInv, Complete, DownloadsOwnAlone

\* A download that no other translation came between holds exactly the policies of
\* its translation, whatever was in the directory before (DownloadsOwnAlone).
THEOREM UndisturbedDownloadsAreOwn == Spec => []DownloadsOwnAlone
<1>1. Init => TypeOK /\ DownloadInv
  BY InitTypeOK, InitDownloadInv
<1>2. TypeOK /\ DownloadInv /\ [Next]_vars => (TypeOK /\ DownloadInv)'
  BY NextTypeOK, NextDownloadInv
<1>q. QED BY <1>1, <1>2, DownloadInvSuffices, PTL DEF Spec
=============================================================================
