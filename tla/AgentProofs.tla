---------------------------- MODULE AgentProofs ----------------------------
(***************************************************************************)
(* Theorems about the two programs that run an agent for people:           *)
(* MattermostAgent, for any people, Hub accounts and posts, any limits and *)
(* any number of troubles, and then Workflow, which shares no state with   *)
(* it, for any set of runs and any number of retries, resumed turns and    *)
(* faults.                                                                 *)
(***************************************************************************)
EXTENDS MattermostAgent, Workflow, WellFoundedInduction, TLAPS

PostType == [user : Users, conv : Users \cup {Home},
             kind : {"ask", "reply", "link", "unlink", "code"}, code : Nat, at : Nat, upd : Nat]
MmType == [gen : Nat, access : BOOLEAN, refresh : BOOLEAN]
AuthType == [gen : Nat, ready : BOOLEAN, lock : Actors \cup {None}, sent : [Actors -> Nat],
             rejected : [Actors -> Nat], login : BOOLEAN]
LinkType == [id : Actors, hub : Hubs]
LinkedType == [Users -> LinkType \cup {None}]
FileType == [gen : Nat, linked : LinkedType, pending : SUBSET Users]
CodeType == [code : Nat, hub : Hubs, tries : Nat]
LinksType == [linked : LinkedType, pending : SUBSET Users, codes : [Users -> CodeType \cup {None}]]
LoginType == [user : Users, hub : Hubs, n : Nat]
HubType == [tokens : SUBSET LinkType, logins : SUBSET LoginType, seen : SUBSET (Hubs \X Nat)]
PollerType == [pc : {"look", "read", "thread", "wait"}, looked : BOOLEAN, known : SUBSET Users,
               todo : SUBSET (Users \cup {Home}), conv : Users \cup {Home, None}, from : Nat,
               list : SUBSET (Nat \X Nat), reply : Nat, cursor : [Users \cup {Home} -> Nat]]
Texts == {"", "link", "unlinked", "not linked", "bad code", "linked", "only in dm", "limited",
          "needs link", "answer", "acted", "sorry"}
Working == {"new", "slot", "intent", "owner", "turn", "mint", "retire"}
TaskType == [pc : Working \cup {"none", "reply", "sent", "silent"}, text : Texts,
             hub : Hubs \cup {None}, tok : LinkType \cup {None}, turn : Nat, ran : BOOLEAN]
HistType == [unlinked : SUBSET Users, lost : BOOLEAN, due : SUBSET Nat]
SpentType == [edits : Nat, expiries : Nat, faults : Nat, logins : Nat]

TypeOK ==
  /\ posts \in Seq(PostType) /\ Len(posts) <= MaxPosts
  /\ mm \in MmType /\ auth \in AuthType /\ file \in FileType
  /\ links \in LinksType /\ hub \in HubType
  /\ poller \in PollerType /\ task \in [Tasks -> TaskType]
  /\ hist \in HistType /\ spent \in SpentType /\ clock \in Nat

\* A task that was started is for a post that is there.
Started == \A t \in Tasks : task[t] # NoTask => t[1] \in DOMAIN posts /\ task[t].pc # "none"

\* While nothing fails the bot has Mattermost's newest tokens, and whoever sends the refresh
\* token has the lock.
Lasting == spent.faults = 0 =>
  /\ mm.refresh /\ auth.gen = mm.gen /\ auth.gen # 0 /\ auth.ready /\ ~auth.login
  /\ \A x \in Actors : auth.sent[x] # 0 => auth.sent[x] = auth.gen /\ auth.lock = x

\* Only a task that was started asks for a token.
Asking == \A t \in Tasks : auth.rejected[t] # 0 \/ auth.sent[t] # 0 => task[t].pc # "none"

\* Logins are numbered, so a number names one Hub account, whoever holds its link; who was
\* shown a number is of that account.
Numbered ==
  /\ \A l \in hub.logins : l.n \in 1..spent.logins
  /\ \A s \in hub.seen : s[2] \in 1..spent.logins
  /\ \A l, k \in hub.logins : l.n = k.n => l = k
  /\ \A l \in hub.logins, s \in hub.seen : l.n # s[2]
  /\ \A s, q \in hub.seen : s[2] = q[2] => s = q
  /\ \A u \in Users : links.codes[u] # None => <<links.codes[u].hub, links.codes[u].code>> \in hub.seen
  /\ \A i \in DOMAIN posts : posts[i].kind = "code" /\ posts[i].code # 0
                               => <<HubOf[posts[i].user], posts[i].code>> \in hub.seen

\* What is linked, in memory and in the file, and what is about to be.
Linked ==
  /\ file.linked = links.linked
  /\ \A u \in Users : links.linked[u] # None => links.linked[u].hub = HubOf[u]
  /\ \A t \in Tasks : task[t].pc \in {"mint", "retire"} => task[t].hub = HubOf[Who(t)]
  /\ \A u \in hist.unlinked : links.linked[u] = None /\ ~Confirming(u)

\* A task has a text only once it has an answer.
Telling == \A t \in Tasks :
  /\ task[t].pc # "reply" => task[t].text = ""
  /\ spent.faults = 0 /\ task[t].ran => task[t].text # "sorry"

\* A post is created after the first tick, and edited after its creation; no cursor is ahead
\* of Mattermost's clock.
Dated ==
  /\ \A i \in DOMAIN posts : 1 < posts[i].at /\ posts[i].at <= posts[i].upd /\ posts[i].upd <= clock
  /\ 1 <= clock /\ \A c \in Users \cup {Home} : poller.cursor[c] <= clock

\* The poller reads the conversations it knows, one after the other: what it listed are posts
\* of one of them, each once, and the reply whose thread it reads is of them and no more listed.
Polled ==
  /\ poller.pc \in {"look", "wait"} => poller.todo = {} /\ poller.list = {}
  /\ poller.todo \subseteq poller.known \cup {Home}
  /\ poller.list # {} \/ poller.pc = "thread" => poller.conv \in poller.known \cup {Home}
  /\ poller.pc = "thread" =>
       /\ poller.reply \in DOMAIN posts /\ posts[poller.reply].conv = poller.conv
       /\ posts[poller.reply].at <= poller.cursor[poller.conv]
       /\ \A e \in poller.list : e[1] # poller.reply
  /\ poller.pc # "thread" => poller.reply = 0
  /\ \A e \in poller.list : /\ e[1] \in DOMAIN posts /\ posts[e[1]].conv = poller.conv
                            /\ posts[e[1]].at <= e[2] /\ e[2] <= clock
  /\ \A e, f \in poller.list : e[1] = f[1] => e = f
  /\ poller.list # {} => poller.cursor[poller.conv] # 0

\* A post that has its task is behind the cursor of its conversation, if that has one, and
\* its conversation is no new one; it is not read as new again.
Behind(i) ==
  /\ poller.cursor[posts[i].conv] # 0 => posts[i].at <= poller.cursor[posts[i].conv]
  /\ poller.looked => posts[i].conv \in poller.known \cup {Home}
  /\ poller.reply # i
  /\ \A e \in poller.list : e[1] = i => posts[i].at <= poller.from
Once == ~hist.lost => \A i \in DOMAIN posts :
  /\ task[<<i, 2>>] = NoTask
  /\ task[<<i, 1>>] # NoTask => Behind(i)

\* A post that is due and not taken up is ahead of the cursor, and of what the poller listed
\* without it; where there is no cursor its conversation will be a new one.
Waits(i) == /\ task[<<i, 1>>] = NoTask /\ poller.reply # i
            /\ \A e \in poller.list : e[1] # i
Ahead(i) ==
  /\ IF poller.cursor[posts[i].conv] = 0 THEN posts[i].conv \notin poller.known \cup {Home}
     ELSE poller.cursor[posts[i].conv] < posts[i].at
  /\ poller.conv = posts[i].conv => \A e \in poller.list : e[2] < posts[i].at
Due == spent.faults = 0 =>
  /\ ~hist.lost
  /\ hist.due # {} => poller.looked
  /\ \A i \in hist.due :
       /\ i \in DOMAIN posts
       /\ Waits(i) => Ahead(i)
       /\ \A e \in poller.list : e[1] = i /\ posts[i].at <= poller.from => task[<<i, 1>>] # NoTask

Inv == /\ TypeOK /\ Started /\ Lasting /\ Asking /\ Numbered /\ Linked /\ Telling
       /\ Dated /\ Polled /\ Once /\ Due

-----------------------------------------------------------------------------
(* The least and the greatest of a set of numbers. *)

\* The least of natural numbers is one of them,
LEMMA Least ==
  ASSUME NEW S, S \subseteq Nat, S # {}
  PROVE  Min(S) \in S /\ \A j \in S : Min(S) <= j
<1>1. \E i \in S : \A j \in S : ~(<<j, i>> \in OpToRel(<, Nat))
  BY NatLessThanWellFounded, WFMin
<1>2. PICK i \in S : \A j \in S : ~(<<j, i>> \in OpToRel(<, Nat))
  BY <1>1
<1>3. ASSUME NEW j \in S PROVE i =< j
  <2>1. ~(<<j, i>> \in OpToRel(<, Nat))  BY <1>2
  <2>2. ~(j < i)  BY <2>1, Zenon DEF OpToRel
  <2> QED BY <2>2
<1> QED BY <1>3 DEF Min

\* ... and so is the greatest, if they have a bound.
LEMMA Greatest ==
  ASSUME NEW S, S \subseteq Nat, S # {}, NEW b \in Nat, \A j \in S : j <= b
  PROVE  Max(S) \in S /\ \A j \in S : j <= Max(S)
<1> DEFINE T == {n \in Nat : \A j \in S : j <= n}
<1>1. b \in T /\ T \subseteq Nat  OBVIOUS
<1>2. Min(T) \in T /\ \A n \in T : Min(T) <= n  BY <1>1, Least
<1> DEFINE m == Min(T)
<1>3. m \in Nat /\ (\A j \in S : j <= m) /\ \A n \in Nat : (\A j \in S : j <= n) => m <= n
  BY <1>2
<1> HIDE DEF m, T
<1>4. m \in S
  <2>1. SUFFICES ASSUME m \notin S PROVE FALSE  OBVIOUS
  <2>2. \A j \in S : j < m  BY <1>3, <2>1
  <2>3. m - 1 \in Nat
    <3>1. PICK j \in S : TRUE  OBVIOUS
    <3>2. j \in Nat /\ j < m  BY <2>2, <3>1
    <3> QED BY <1>3, <3>2
  <2>4. \A j \in S : j <= m - 1  BY <1>3, <2>2
  <2> QED BY <1>3, <2>3, <2>4
<1> QED BY <1>3, <1>4 DEF Max

\* Two numbers always have one.
LEMMA GreaterOf == \A i, j \in Nat : /\ Max({i, j}) \in Nat /\ i <= Max({i, j}) /\ j <= Max({i, j})
                                     /\ Max({i, j}) \in {i, j}
BY SMT DEF Max

\* The conversation that is polled next is one of those to be polled.
LEMMA FirstOf ==
  ASSUME NEW todo \in SUBSET (Users \cup {Home}), todo # {}
  PROVE  First(todo) \in todo
<1> DEFINE S == {n \in DOMAIN Order : Order[n] \in todo}
<1>1. DOMAIN Order \subseteq Nat  BY NamesAssumption
<1>2. \A c \in Users \cup {Home} : \E n \in DOMAIN Order : Order[n] = c  BY NamesAssumption DEF Range
<1>3. S \subseteq Nat /\ S # {}  BY <1>1, <1>2
<1>4. Min(S) \in S  BY <1>3, Least
<1> QED BY <1>4 DEF First

-----------------------------------------------------------------------------
(* What a step of a task makes of it. *)

\* Faults are only counted up.
LEMMA FaultCounts ==
  ASSUME spent \in SpentType, Fault \/ UNCHANGED spent
  PROVE  /\ spent' \in SpentType /\ (spent'.faults = 0 => spent.faults = 0 /\ UNCHANGED spent)
         /\ spent'.logins = spent.logins
BY DEF Fault, Spends, SpentType

\* No task, and one that has ended.
LEMMA NoTaskType ==
  /\ NoTask \in TaskType /\ NoTask.pc = "none" /\ NoTask.text = "" /\ NoTask.ran = FALSE
  /\ \A pc \in Working \cup {"sent", "silent"} :
       LET r == [NoTask EXCEPT !.pc = pc]
       IN r \in TaskType /\ r.pc = pc /\ r.text = "" /\ r.ran = FALSE /\ r # NoTask
<1>1. NoTask \in TaskType  BY DEF NoTask, TaskType, Texts
<1>2. ASSUME NEW pc \in Working \cup {"sent", "silent"}
      PROVE  LET r == [NoTask EXCEPT !.pc = pc]
             IN r \in TaskType /\ r.pc = pc /\ r.text = "" /\ r.ran = FALSE /\ r # NoTask
  <2> DEFINE r == [NoTask EXCEPT !.pc = pc]
  <2>1. pc # "none" /\ pc \in Working \cup {"none", "reply", "sent", "silent"}  BY DEF Working
  <2>2. r \in TaskType  BY <1>1, <2>1 DEF TaskType
  <2>3. r.pc = pc /\ r.text = "" /\ r.ran = FALSE  BY DEF NoTask
  <2>4. r.pc # NoTask.pc  BY <2>1, <2>3 DEF NoTask
  <2> QED BY <2>2, <2>3, <2>4
<1> QED BY <1>1, <1>2 DEF NoTask

\* Every post has its two tasks.
LEMMA PostFacts ==
  ASSUME TypeOK
  PROVE  /\ DOMAIN posts = 1..Len(posts) /\ Len(posts) \in Nat /\ MaxPosts \in Nat
         /\ \A i \in DOMAIN posts : /\ i \in Nat /\ i # 0 /\ posts[i] \in PostType
                                    /\ <<i, 1>> \in Tasks /\ <<i, 2>> \in Tasks
<1>1. DOMAIN posts = 1..Len(posts) /\ Len(posts) \in Nat  BY DEF TypeOK
<1>2. MaxPosts \in Nat /\ Len(posts) <= MaxPosts  BY BoundsAssumption DEF TypeOK
<1>3. \A i \in DOMAIN posts : posts[i] \in PostType  BY DEF TypeOK
<1> QED BY <1>1, <1>2, <1>3 DEF Tasks

\* What a proof about a task that was started begins with.
LEMMA TaskFacts ==
  ASSUME TypeOK, Started, NEW t \in Tasks, task[t].pc # "none"
  PROVE  /\ t[1] \in DOMAIN posts /\ posts[t[1]] \in PostType /\ Who(t) \in Users
         /\ task[t] \in TaskType /\ task[t] # NoTask
<1>1. task[t] # NoTask  BY NoTaskType
<1>2. t[1] \in DOMAIN posts  BY <1>1 DEF Started
<1>3. posts[t[1]] \in PostType  BY <1>2 DEF TypeOK
<1> QED BY <1>1, <1>2, <1>3 DEF TypeOK, Who, PostType

\* Task t becomes r.
Becomes(t, r) ==
  /\ task' = [task EXCEPT ![t] = r]
  /\ r \in TaskType /\ r.pc # "none"
  /\ r.pc # "reply" => r.text = ""
  /\ spent'.faults = 0 /\ r.ran => r.text # "sorry"
  /\ r.pc \in {"mint", "retire"} =>
       /\ r.hub = HubOf[Who(t)]
       /\ task[t].pc \in {"mint", "retire"} \/ Who(t) \notin hist'.unlinked
Acts(t) == task[t].pc # "none" /\ \E r : Becomes(t, r)

\* A task that ends, with a reply sent or without one, acts.
LEMMA DoneActs ==
  ASSUME NEW t \in Tasks, task[t].pc # "none", NEW pc \in {"sent", "silent"}, Done(t, pc)
  PROVE  Acts(t)
<1> DEFINE r == [NoTask EXCEPT !.pc = pc]
<1>1. r \in TaskType /\ r.pc = pc /\ r.text = "" /\ r.ran = FALSE  BY NoTaskType
<1>2. task' = [task EXCEPT ![t] = r]  BY DEF Done
<1> HIDE DEF r
<1>3. Becomes(t, r)  BY <1>1, <1>2 DEF Becomes
<1> QED BY <1>3 DEF Acts

\* ... one that has its text acts, if it says sorry only where nothing it ran is
\* hidden.
LEMMA SaysActs ==
  ASSUME TypeOK, NEW t \in Tasks, task[t].pc # "none", NEW text \in Texts, Says(t, text),
         spent'.faults = 0 /\ task[t].ran => text # "sorry"
  PROVE  Acts(t)
<1> DEFINE r == [task[t] EXCEPT !.pc = "reply", !.text = text]
<1>1. task[t] \in TaskType  BY DEF TypeOK
<1>2. r \in TaskType /\ r.pc = "reply" /\ r.text = text /\ r.ran = task[t].ran
  BY <1>1 DEF TaskType
<1>3. task' = [task EXCEPT ![t] = r]  BY <1>1 DEF Says, TypeOK
<1> HIDE DEF r
<1>4. Becomes(t, r)  BY <1>2, <1>3 DEF Becomes
<1> QED BY <1>4 DEF Acts

\* ... and so does one that goes on to its next call.
LEMMA GoesActs ==
  ASSUME TypeOK, Telling, Linked, NEW t \in Tasks, task[t].pc \in Working,
         NEW pc \in Working \ {"mint"}, pc = "retire" => task[t].pc = "mint", Goes(t, pc)
  PROVE  Acts(t)
<1> DEFINE r == [task[t] EXCEPT !.pc = pc]
<1>1. task[t] \in TaskType  BY DEF TypeOK
<1>2. r \in TaskType /\ r.pc = pc /\ r.text = task[t].text /\ r.ran = task[t].ran
      /\ r.hub = task[t].hub
  BY <1>1 DEF TaskType
<1>3. task' = [task EXCEPT ![t] = r]  BY <1>1 DEF Goes, TypeOK
<1>4. pc \notin {"none", "reply"} /\ task[t].pc \notin {"none", "reply"}  BY DEF Working
<1>5. task[t].text = ""  BY <1>4 DEF Telling
<1>6. pc = "retire" => task[t].hub = HubOf[Who(t)]  BY DEF Linked
<1> HIDE DEF r
<1>7. Becomes(t, r)  BY <1>2, <1>3, <1>4, <1>5, <1>6 DEF Becomes
<1> QED BY <1>4, <1>7 DEF Acts

\* A task that acts keeps every task sound, and no task comes or is forgotten.
Same == \A t \in Tasks : task'[t] = NoTask <=> task[t] = NoTask
\* What one task does leaves every task with its type, its reason and its telling.
LEMMA ActsKeep ==
  ASSUME TypeOK, Started, Telling, Asking, Linked, NEW t \in Tasks, Acts(t), UNCHANGED posts,
         spent'.faults = 0 => spent.faults = 0,
         \A s \in Tasks : /\ auth'.rejected[s] # 0 => auth.rejected[s] # 0
                          /\ auth'.sent[s] # 0 => auth.sent[s] # 0
  PROVE  /\ task' \in [Tasks -> TaskType] /\ Started' /\ Telling' /\ Asking' /\ Same
         /\ \A s \in Tasks : task'[s].pc \in {"mint", "retire"} =>
              /\ task'[s].hub = HubOf[Who(s)]
              /\ task[s].pc \in {"mint", "retire"} \/ (s = t /\ Who(t) \notin hist'.unlinked)
<1>1. PICK r : Becomes(t, r)  BY DEF Acts
<1>2. /\ task' \in [Tasks -> TaskType] /\ task'[t] = r
      /\ \A s \in Tasks \ {t} : task'[s] = task[s]
  BY <1>1 DEF Becomes, TypeOK
<1>3. r # NoTask /\ task[t] # NoTask /\ r.pc # "none"  BY <1>1, NoTaskType DEF Becomes, Acts
<1>4. Started'  BY <1>2, <1>3 DEF Started
<1>5. Same  BY <1>2, <1>3 DEF Same
<1>6. Telling'
  <2>1. ASSUME NEW s \in Tasks
        PROVE  /\ task'[s].pc # "reply" => task'[s].text = ""
               /\ spent'.faults = 0 /\ task'[s].ran => task'[s].text # "sorry"
    <3>1. CASE s = t  BY <1>1, <1>2, <3>1 DEF Becomes
    <3>2. CASE s # t  BY <1>2, <3>2 DEF Telling
    <3> QED BY <3>1, <3>2
  <2> QED BY <2>1 DEF Telling
<1>7. ASSUME NEW s \in Tasks, task'[s].pc \in {"mint", "retire"}
      PROVE  /\ task'[s].hub = HubOf[Who(s)]
             /\ task[s].pc \in {"mint", "retire"} \/ (s = t /\ Who(t) \notin hist'.unlinked)
  <2>1. CASE s = t  BY <1>1, <1>2, <1>7, <2>1 DEF Becomes
  <2>2. CASE s # t  BY <1>2, <1>7, <2>2 DEF Linked
  <2> QED BY <2>1, <2>2
<1>8. Asking'  BY <1>2, <1>3 DEF Asking
<1> QED BY <1>2, <1>4, <1>5, <1>6, <1>7, <1>8

-----------------------------------------------------------------------------
(* What a step of a task leaves of the invariant. *)

\* A step that leaves the poller and its posts alone keeps what is known of polling.
LEMMA PollingKept ==
  ASSUME Dated, Polled, Once, Due, UNCHANGED <<posts, clock, poller>>, Same,
         hist'.lost = hist.lost, hist'.due = hist.due, spent'.faults = 0 => spent.faults = 0,
         TypeOK
  PROVE  Dated' /\ Polled' /\ Once' /\ Due'
<1>1. \A i \in DOMAIN posts : <<i, 1>> \in Tasks /\ <<i, 2>> \in Tasks  BY PostFacts
<1>2. Dated' /\ Polled'  BY DEF Dated, Polled
<1>3. Once'  BY <1>1 DEF Once, Behind, Same
<1>4. Due'  BY <1>1 DEF Due, Waits, Ahead, Same
<1> QED BY <1>2, <1>3, <1>4

\* Links that go, and one that is made of the person's own account.
LinksGo ==
  /\ links' \in LinksType /\ file' \in FileType /\ file'.linked = links'.linked
  /\ \A u \in Users : links'.linked[u] # None =>
       \/ links'.linked[u] = links.linked[u]
       \/ links'.linked[u].hub = HubOf[u] /\ u \notin hist'.unlinked
  /\ \A u \in Users : links'.codes[u] # None =>
       /\ links.codes[u] # None /\ links'.codes[u].hub = links.codes[u].hub
       /\ links'.codes[u].code = links.codes[u].code

\* Who is noted as unlinked is, and confirms no code.
Unlinks ==
  /\ hist' \in HistType /\ hist'.lost = hist.lost /\ hist'.due = hist.due
  /\ \A u \in hist'.unlinked : \/ u \in hist.unlinked
                               \/ links'.linked[u] = None /\ ~Confirming(u)

\* A step of a task that leaves polling, clock and login alone keeps the invariant.
LEMMA TaskKeeps ==
  ASSUME Inv, NEW t \in Tasks, Acts(t), UNCHANGED <<posts, clock, mm, auth, poller>>,
         LinksGo, Unlinks, Fault \/ UNCHANGED spent,
         hub' \in HubType, hub'.logins = hub.logins, hub'.seen = hub.seen
  PROVE  Inv'
<1>0. /\ TypeOK /\ Started /\ Lasting /\ Asking /\ Numbered /\ Linked /\ Telling
      /\ Dated /\ Polled /\ Once /\ Due
  BY DEF Inv
<1>1. /\ spent' \in SpentType /\ (spent'.faults = 0 => spent.faults = 0)
      /\ spent'.logins = spent.logins
  BY <1>0, FaultCounts DEF TypeOK
<1>2. /\ task' \in [Tasks -> TaskType] /\ Started' /\ Telling' /\ Asking' /\ Same
      /\ \A s \in Tasks : task'[s].pc \in {"mint", "retire"} =>
           /\ task'[s].hub = HubOf[Who(s)]
           /\ task[s].pc \in {"mint", "retire"} \/ (s = t /\ Who(t) \notin hist'.unlinked)
  BY <1>0, <1>1, ActsKeep
<1>3. TypeOK'  BY <1>0, <1>1, <1>2 DEF TypeOK, LinksGo, Unlinks
<1>4. Lasting'  BY <1>0, <1>1 DEF Lasting
<1>5. Numbered'
  <2>1. ASSUME NEW u \in Users, links'.codes[u] # None
        PROVE  <<links'.codes[u].hub, links'.codes[u].code>> \in hub'.seen
    BY <1>0, <2>1 DEF Numbered, LinksGo
  <2> QED BY <1>0, <1>1, <2>1 DEF Numbered
<1>6. Linked'
  <2>1. \A s \in Tasks : Who(s)' = Who(s)  BY DEF Who
  <2>2. \A u \in Users : links'.linked[u] # None => links'.linked[u].hub = HubOf[u]
    BY <1>0 DEF Linked, LinksGo
  <2>3. ASSUME NEW u \in hist'.unlinked PROVE links'.linked[u] = None /\ ~Confirming(u)'
    <3>1. u \in Users  BY <2>3 DEF Unlinks, HistType
    <3>2. ~Confirming(u)  BY <1>0, <2>3 DEF Linked, Unlinks
    <3>3. links'.linked[u] = None  BY <1>0, <2>3, <3>1 DEF Linked, LinksGo, Unlinks
    <3>4. ~Confirming(u)'
      <4> SUFFICES ASSUME NEW s \in Tasks, task'[s].pc \in {"mint", "retire"}, Who(s) = u PROVE FALSE
        BY <2>1 DEF Confirming
      <4> QED BY <1>2, <2>3, <3>2 DEF Confirming
    <3> QED BY <3>3, <3>4
  <2>4. \A s \in Tasks : task'[s].pc \in {"mint", "retire"} => task'[s].hub = HubOf[Who(s)']
    BY <1>2, <2>1
  <2> QED BY <2>2, <2>3, <2>4 DEF Linked, LinksGo
<1>7. Dated' /\ Polled' /\ Once' /\ Due'  BY <1>0, <1>1, <1>2, PollingKept DEF Unlinks
<1> QED BY <1>2, <1>3, <1>4, <1>5, <1>6, <1>7 DEF Inv

\* A task goes on by itself.
LEMMA TaskAlone ==
  ASSUME Inv, NEW t \in Tasks, Acts(t), Fault \/ UNCHANGED spent,
         UNCHANGED <<posts, clock, mm, auth, poller, file, links, hub, hist>>
  PROVE  Inv'
<1>1. TypeOK /\ Linked  BY DEF Inv
<1>2. LinksGo  BY <1>1 DEF LinksGo, TypeOK, Linked
<1>3. Unlinks  BY <1>1 DEF Unlinks, TypeOK
<1> QED BY <1>1, <1>2, <1>3, TaskKeeps DEF TypeOK

-----------------------------------------------------------------------------
(* The steps of a task. *)

\* The check of who may ask keeps it,
LEMMA AllowKeeps ==
  ASSUME Inv, NEW t \in Tasks, Allow(t)
  PROVE  Inv'
<1>1. TypeOK /\ Telling /\ Linked  BY DEF Inv
<1>2. task[t].pc = "new" /\ task[t].pc \in Working  BY DEF Allow, At, Working
<1>3. CASE Goes(t, "slot")
  <2>1. "slot" \in Working \ {"mint"}  BY DEF Working
  <2>2. Acts(t)  BY <1>1, <1>2, <1>3, <2>1, GoesActs
  <2> QED BY <2>2, TaskAlone DEF Allow, outside, tokens
<1>4. CASE Done(t, "silent")
  <2>1. Acts(t)  BY <1>2, <1>4, DoneActs
  <2> QED BY <2>1, TaskAlone DEF Allow, outside, tokens
<1>5. CASE Says(t, "limited")
  <2>1. Acts(t)  BY <1>1, <1>2, <1>5, SaysActs DEF Texts
  <2> QED BY <2>1, TaskAlone DEF Allow, outside, tokens
<1> QED BY <1>3, <1>4, <1>5 DEF Allow

\* ... the wait for a slot,
LEMMA SlotKeeps ==
  ASSUME Inv, NEW t \in Tasks, Slot(t)
  PROVE  Inv'
<1>1. TypeOK /\ Telling /\ Linked  BY DEF Inv
<1>2. task[t].pc = "slot" /\ task[t].pc \in Working /\ "intent" \in Working \ {"mint"}
  BY DEF Slot, At, Working
<1>3. Acts(t)  BY <1>1, <1>2, GoesActs DEF Slot
<1> QED BY <1>3, TaskAlone DEF Slot, outside, tokens

\* A turn that used tools leaves a task of the right type, at the same point.
LEMMA ToolsType ==
  ASSUME NEW q \in TaskType, NEW used \in BOOLEAN
  PROVE  LET r == [q EXCEPT !.turn = @ + 1, !.ran = used]
         IN r \in TaskType /\ r.pc = q.pc /\ r.text = q.text
<1>1. q.turn \in Nat /\ q.turn + 1 \in Nat  BY DEF TaskType
<1>2. [q EXCEPT !.turn = q.turn + 1] \in TaskType  BY <1>1 DEF TaskType
<1>3. ASSUME NEW p \in TaskType PROVE [p EXCEPT !.ran = used] \in TaskType  BY <1>3 DEF TaskType
<1>4. [q EXCEPT !.turn = @ + 1, !.ran = used] = [[q EXCEPT !.turn = q.turn + 1] EXCEPT !.ran = used]
  BY DEF TaskType
<1>5. [q EXCEPT !.turn = @ + 1, !.ran = used] \in TaskType  BY <1>2, <1>3, <1>4
<1> QED BY <1>5 DEF TaskType

\* ... a turn of the model, with or without tools,
LEMMA TurnKeeps ==
  ASSUME Inv, NEW t \in Tasks, Turn(t)
  PROVE  Inv'
<1>1. TypeOK /\ Telling /\ Linked /\ task[t] \in TaskType  BY DEF Inv, TypeOK
<1>2. task[t].pc = "turn"  BY DEF Turn, At
<1>3. CASE Says(t, "answer")
  <2>1. Acts(t)  BY <1>1, <1>2, <1>3, SaysActs DEF Texts
  <2> QED BY <2>1, TaskAlone DEF Turn, outside, tokens
<1>4. CASE Says(t, NoText(t))
  <2>1. NoText(t) \in Texts /\ (task[t].ran => NoText(t) # "sorry")  BY DEF NoText, Texts
  <2>2. Acts(t)  BY <1>1, <1>2, <1>4, <2>1, SaysActs
  <2> QED BY <2>2, TaskAlone DEF Turn, outside, tokens
<1>5. CASE Tools(t)
  <2>1. PICK own \in BOOLEAN :
          task' = [task EXCEPT ![t].turn = @ + 1, ![t].ran = @ \/ (own /\ task[t].tok # None)]
    BY <1>5 DEF Tools
  <2> DEFINE used == task[t].ran \/ (own /\ task[t].tok # None)
             r == [task[t] EXCEPT !.turn = @ + 1, !.ran = used]
  <2>2. task' = [task EXCEPT ![t] = r]  BY <1>1, <2>1 DEF TypeOK
  <2>3. used \in BOOLEAN  OBVIOUS
  <2> HIDE DEF used
  <2>4. r \in TaskType /\ r.pc = "turn" /\ r.text = task[t].text
    BY <1>1, <1>2, <2>3, ToolsType
  <2>5. task[t].text = ""  BY <1>1, <1>2 DEF Telling
  <2> HIDE DEF r
  <2>6. Becomes(t, r)  BY <2>2, <2>4, <2>5 DEF Becomes
  <2>7. Acts(t)  BY <1>2, <2>6 DEF Acts
  <2> QED BY <2>7, TaskAlone DEF Turn, outside, tokens
<1> QED BY <1>3, <1>4, <1>5 DEF Turn

\* ... a failure said as sorry,
LEMMA SorryKeeps ==
  ASSUME Inv, NEW t \in Tasks, Sorry(t)
  PROVE  Inv'
<1>1. TypeOK /\ task[t].pc \notin {"none", "reply"}  BY DEF Inv, Sorry, Answering
<1>2. spent'.faults # 0  BY <1>1 DEF TypeOK, SpentType, Sorry, Fault, Spends
<1>3. Acts(t)  BY <1>1, <1>2, SaysActs DEF Sorry, Texts
<1> QED BY <1>3, TaskAlone DEF Sorry, outside, tokens

\* ... the reply that is posted or lost,
LEMMA ReplyKeeps ==
  ASSUME Inv, NEW t \in Tasks, Reply(t)
  PROVE  Inv'
<1>1. task[t].pc # "none"  BY DEF Reply, At
<1>2. Fault \/ UNCHANGED spent  BY DEF Reply, Fails
<1>3. Acts(t)  BY <1>1, DoneActs DEF Reply
<1> QED BY <1>2, <1>3, TaskAlone DEF Reply, outside, tokens

\* ... the token the Hub mints for the account a code confirmed,
LEMMA MintKeeps ==
  ASSUME Inv, NEW t \in Tasks, Mint(t)
  PROVE  Inv'
<1>1. TypeOK /\ Telling /\ Linked /\ Started  BY DEF Inv
<1>2. task[t].pc = "mint" /\ task[t].pc \in Working  BY DEF Mint, At, Working
<1>3. task[t].hub \in Hubs
  <2>1. Who(t) \in Users  BY <1>1, <1>2, TaskFacts
  <2> QED BY <1>1, <1>2, <2>1, NamesAssumption DEF Linked
<1> DEFINE minted == [hub EXCEPT !.tokens = @ \cup {[id |-> t, hub |-> task[t].hub]}]
<1>4. minted \in HubType /\ minted.logins = hub.logins /\ minted.seen = hub.seen
  BY <1>1, <1>3 DEF TypeOK, HubType, LinkType, Actors
<1>5. hub' \in HubType /\ hub'.logins = hub.logins /\ hub'.seen = hub.seen
  <2>1. hub' = hub \/ hub' = minted  BY DEF Mint
  <2> HIDE DEF minted
  <2> QED BY <1>1, <1>4, <2>1 DEF TypeOK
<1>6. Fault \/ UNCHANGED spent  BY DEF Mint
<1>7. Acts(t)
  <2>1. CASE Goes(t, "retire")
    <3>1. "retire" \in Working \ {"mint"}  BY DEF Working
    <3> QED BY <1>1, <1>2, <2>1, <3>1, GoesActs
  <2>2. CASE Done(t, "silent")  BY <1>2, <2>2, DoneActs
  <2> QED BY <2>1, <2>2 DEF Mint
<1>8. UNCHANGED <<posts, clock, mm, auth, poller, file, links, hist>>
  BY DEF Mint, outside, tokens
<1>9. LinksGo /\ Unlinks  BY <1>1, <1>8 DEF LinksGo, Unlinks, TypeOK, Linked
<1> QED BY <1>5, <1>6, <1>7, <1>8, <1>9, TaskKeeps

-----------------------------------------------------------------------------
(* The steps of a task that change who is linked to whom. *)

\* Forgetting a link keeps the others.
LEMMA ForgetGoes ==
  ASSUME TypeOK, Linked, NEW u \in Users, Forget(u)
  PROVE  LinksGo /\ links'.linked[u] = None
<1>1. links \in LinksType /\ file \in FileType /\ file.linked = links.linked  BY DEF TypeOK, Linked
<1>2. CASE links.linked[u] = None
  <2>1. UNCHANGED <<links, file>>  BY <1>2 DEF Forget
  <2> QED BY <1>1, <1>2, <2>1 DEF LinksGo
<1>3. CASE links.linked[u] # None
  <2> DEFINE new == [links EXCEPT !.linked[u] = None]
  <2>1. /\ new \in LinksType /\ new.linked[u] = None /\ new.codes = links.codes
        /\ \A v \in Users \ {u} : new.linked[v] = links.linked[v]
    BY <1>1 DEF LinksType, LinkedType
  <2>2. links' = new /\ file' = [file EXCEPT !.linked = new.linked, !.pending = new.pending]
    BY <1>3 DEF Forget, Keep
  <2> HIDE DEF new
  <2>3. file' \in FileType /\ file'.linked = new.linked
    BY <1>1, <2>1, <2>2 DEF FileType, LinksType
  <2> QED BY <2>1, <2>2, <2>3 DEF LinksGo
<1> QED BY <1>2, <1>3

\* ... the Hub asked whose a link's token is, and the link forgotten if it refuses,
LEMMA OwnerKeeps ==
  ASSUME Inv, NEW t \in Tasks, Owner(t)
  PROVE  Inv'
<1>1. TypeOK /\ Telling /\ Linked /\ Started /\ hub \in HubType  BY DEF Inv, TypeOK
<1>2. task[t].pc = "owner" /\ task[t].pc \in Working  BY DEF Owner, At, Working
<1>3. Who(t) \in Users  BY <1>1, <1>2, TaskFacts
<1>4. CASE Goes(t, "turn") /\ UNCHANGED <<links, file>>
  <2>1. "turn" \in Working \ {"mint"}  BY DEF Working
  <2>2. Acts(t)  BY <1>1, <1>2, <1>4, <2>1, GoesActs
  <2> QED BY <1>4, <2>2, TaskAlone DEF Owner, outside, tokens
<1>5. CASE Says(t, "needs link") /\ Forget(Who(t))
  <2>1. Acts(t)  BY <1>1, <1>2, <1>5, SaysActs DEF Texts
  <2>2. LinksGo  BY <1>1, <1>3, <1>5, ForgetGoes
  <2>3. Unlinks  BY <1>1 DEF Unlinks, Owner, TypeOK
  <2> QED BY <1>1, <2>1, <2>2, <2>3, TaskKeeps DEF Owner, outside, tokens
<1> QED BY <1>4, <1>5 DEF Owner

\* `unlink` and `link` of the task's own person.
LEMMA UnlinkGoes ==
  ASSUME Inv, NEW t \in Tasks, task[t].pc \notin {"none", "reply"}, Unlink(t)
  PROVE  Acts(t) /\ LinksGo /\ Unlinks
<1>1. TypeOK /\ Linked /\ Started /\ hist \in HistType  BY DEF Inv, TypeOK
<1>2. Who(t) \in Users  BY <1>1, TaskFacts
<1>3. Acts(t)
  <2> DEFINE text == IF links.linked[Who(t)] = None THEN "not linked" ELSE "unlinked"
  <2>1. text \in Texts /\ text # "sorry"  BY DEF Texts
  <2>2. Says(t, text)  BY DEF Unlink
  <2> HIDE DEF text
  <2> QED BY <1>1, <2>1, <2>2, SaysActs
<1>4. LinksGo /\ links'.linked[Who(t)] = None  BY <1>1, <1>2, ForgetGoes DEF Unlink
<1>5. Unlinks
  <2>1. CASE Confirming(Who(t))  BY <1>1, <2>1 DEF Unlink, Unlinks
  <2>2. CASE ~Confirming(Who(t))
    <3>1. hist' = [hist EXCEPT !.unlinked = @ \cup {Who(t)}]  BY <2>2 DEF Unlink
    <3> QED BY <1>1, <1>2, <1>4, <2>2, <3>1 DEF Unlinks, HistType
  <2> QED BY <2>1, <2>2
<1> QED BY <1>3, <1>4, <1>5

\* A task that links acts, and links and unlinks as the users asked.
LEMMA LinkGoes ==
  ASSUME Inv, NEW t \in Tasks, task[t].pc \notin {"none", "reply"}, Link(t)
  PROVE  Acts(t) /\ LinksGo /\ Unlinks
<1>1. /\ TypeOK /\ Linked /\ Started /\ hist \in HistType
      /\ links \in LinksType /\ file \in FileType
  BY DEF Inv, TypeOK
<1>2. Who(t) \in Users  BY <1>1, TaskFacts
<1>3. Acts(t)  BY <1>1, SaysActs DEF Link, Texts
<1> DEFINE new == [links EXCEPT !.pending = @ \cup {Who(t)}]
<1>4. new \in LinksType /\ new.linked = links.linked /\ new.codes = links.codes
  BY <1>1, <1>2 DEF LinksType
<1>5. links' = new /\ file' = [file EXCEPT !.linked = new.linked, !.pending = new.pending]
  BY DEF Link, Keep
<1> HIDE DEF new
<1>6. file' \in FileType /\ file'.linked = new.linked
  BY <1>1, <1>4, <1>5 DEF FileType, LinksType
<1>7. LinksGo  BY <1>1, <1>4, <1>5, <1>6 DEF LinksGo
<1>8. Unlinks  BY <1>1 DEF Link, Unlinks
<1> QED BY <1>3, <1>7, <1>8

\* A code confirms the Hub account it was shown to, which is its sender's.
LEMMA ConfirmGoes ==
  ASSUME Inv, NEW t \in Tasks, task[t].pc \in Working, posts[t[1]].kind = "code", Confirm(t)
  PROVE  Acts(t) /\ LinksGo /\ Unlinks
<1>1. /\ TypeOK /\ Linked /\ Started /\ Telling /\ Numbered /\ hist \in HistType
      /\ links \in LinksType /\ file \in FileType
  BY DEF Inv, TypeOK
<1>2. task[t].pc \notin {"none", "reply"}  BY DEF Working
<1>3. /\ t[1] \in DOMAIN posts /\ posts[t[1]] \in PostType /\ Who(t) \in Users /\ task[t] \in TaskType
  BY <1>1, <1>2, TaskFacts
<1> DEFINE u == Who(t)
           n == posts[t[1]].code
           entry == links.codes[u]
           again == IF entry.tries + 1 >= Attempts THEN None ELSE [entry EXCEPT !.tries = @ + 1]
<1>4. UNCHANGED file  BY DEF Confirm
<1>5. CASE entry = None
  <2>1. Says(t, "bad code") /\ UNCHANGED <<links, hist>>  BY <1>5 DEF Confirm
  <2>2. Acts(t)  BY <1>1, <1>2, <2>1, SaysActs DEF Texts
  <2> QED BY <1>1, <1>4, <2>1, <2>2 DEF LinksGo, Unlinks, Linked
<1>6. ASSUME NEW e, e = None \/ e = [entry EXCEPT !.tries = @ + 1], entry # None,
             links' = [links EXCEPT !.codes[u] = e]
      PROVE  LinksGo
  <2>1. links.codes \in [Users -> CodeType \cup {None}]  BY <1>1 DEF LinksType
  <2>2. entry \in CodeType  BY <1>3, <1>6, <2>1
  <2>3. e # None => e \in CodeType /\ e.hub = entry.hub /\ e.code = entry.code
    BY <1>6, <2>2 DEF CodeType
  <2>4. e \in CodeType \cup {None}  BY <1>6, <2>3
  <2>5. links' \in LinksType /\ links'.linked = links.linked
        /\ links'.codes = [links.codes EXCEPT ![u] = e]
    BY <1>1, <1>3, <1>6, <2>1, <2>4 DEF LinksType
  <2>6. \A v \in Users : links'.codes[v] = IF v = u THEN e ELSE links.codes[v]  BY <2>1, <2>5
  <2> QED BY <1>1, <1>4, <1>6, <2>3, <2>5, <2>6 DEF LinksGo, Linked
<1>7. CASE entry # None /\ ~Matches(entry, n)
  <2>1. Says(t, "bad code") /\ UNCHANGED hist /\ links' = [links EXCEPT !.codes[u] = again]
    BY <1>7 DEF Confirm
  <2>2. Acts(t)  BY <1>1, <1>2, <2>1, SaysActs DEF Texts
  <2>3. again = None \/ again = [entry EXCEPT !.tries = @ + 1]  OBVIOUS
  <2>4. LinksGo  BY <1>6, <1>7, <2>1, <2>3
  <2> QED BY <1>1, <2>1, <2>2, <2>4 DEF Unlinks
<1>8. CASE entry # None /\ Matches(entry, n)
  <2>1. /\ links' = [links EXCEPT !.codes[u] = None]
        /\ task' = [task EXCEPT ![t].pc = "mint", ![t].hub = entry.hub]
        /\ hist' = [hist EXCEPT !.unlinked = @ \ {u}]
    BY <1>8 DEF Confirm
  <2>2. LinksGo  BY <1>6, <1>8, <2>1
  <2>3. entry.hub = HubOf[u]
    <3>1. <<entry.hub, entry.code>> \in hub.seen  BY <1>1, <1>3, <1>8 DEF Numbered
    <3>2. entry.code = n  BY <1>8 DEF Matches
    <3>3. n # 0  BY <1>1, <3>1, <3>2 DEF Numbered, TypeOK, SpentType
    <3>4. <<HubOf[u], n>> \in hub.seen  BY <1>1, <1>3, <3>3 DEF Numbered, Who
    <3> QED BY <1>1, <3>1, <3>2, <3>4 DEF Numbered
  <2>4. Unlinks /\ u \notin hist'.unlinked  BY <1>1, <2>1 DEF Unlinks, HistType
  <2>5. Acts(t)
    <3> DEFINE r == [task[t] EXCEPT !.pc = "mint", !.hub = entry.hub]
    <3>1. entry.hub \in Hubs  BY <1>3, <2>3, NamesAssumption
    <3>2. r \in TaskType /\ r.pc = "mint" /\ r.hub = entry.hub /\ r.text = task[t].text
      BY <1>3, <3>1 DEF TaskType, Working
    <3>3. task' = [task EXCEPT ![t] = r]  BY <1>1, <1>3, <2>1 DEF TypeOK
    <3>4. task[t].text = ""  BY <1>1, <1>2 DEF Telling
    <3> HIDE DEF r, entry
    <3>5. Becomes(t, r)  BY <2>3, <2>4, <3>2, <3>3, <3>4 DEF Becomes
    <3> QED BY <1>2, <3>5 DEF Acts
  <2> QED BY <2>2, <2>4, <2>5
<1> QED BY <1>5, <1>7, <1>8

\* ... and so does one that runs a command.
LEMMA CommandGoes ==
  ASSUME Inv, NEW t \in Tasks, task[t].pc \in Working,
         NEW kind \in {"link", "unlink", "code"}, kind = "code" => posts[t[1]].kind = "code",
         Command(t, kind)
  PROVE  Acts(t) /\ LinksGo /\ Unlinks
<1>1. TypeOK /\ Linked /\ task[t].pc \notin {"none", "reply"}  BY DEF Inv, Working
<1>2. CASE posts[t[1]].conv = Home
  <2>1. Says(t, "only in dm") /\ UNCHANGED <<links, file, hist>>  BY <1>2 DEF Command
  <2>2. Acts(t)  BY <1>1, <2>1, SaysActs DEF Texts
  <2> QED BY <1>1, <2>1, <2>2 DEF LinksGo, Unlinks, Linked, TypeOK
<1>3. CASE posts[t[1]].conv # Home
  <2>1. (kind = "link" /\ Link(t)) \/ (kind = "unlink" /\ Unlink(t)) \/ (kind = "code" /\ Confirm(t))
    BY <1>3 DEF Command
  <2> QED BY <1>1, <2>1, LinkGoes, UnlinkGoes, ConfirmGoes
<1> QED BY <1>2, <1>3

\* ... the handling of a post,
LEMMA HandleKeeps ==
  ASSUME Inv, NEW t \in Tasks, Handle(t)
  PROVE  Inv'
<1>1. task[t].pc \in Working /\ hub \in HubType  BY DEF Inv, TypeOK, Handle, At, Working
<1>2. Acts(t) /\ LinksGo /\ Unlinks  BY <1>1, CommandGoes DEF Handle
<1> QED BY <1>1, <1>2, TaskKeeps DEF Handle, outside, tokens

\* ... and what the model made of it.
LEMMA IntentKeeps ==
  ASSUME Inv, NEW t \in Tasks, Intent(t)
  PROVE  Inv'
<1>1. /\ TypeOK /\ Linked /\ Telling /\ Started /\ hub \in HubType /\ links \in LinksType
      /\ task[t] \in TaskType
  BY DEF Inv, TypeOK
<1>2. task[t].pc = "intent" /\ task[t].pc \in Working  BY DEF Intent, At, Working
<1>3. CASE Goes(t, "turn") /\ UNCHANGED <<links, file, hist>>
  <2>1. "turn" \in Working \ {"mint"}  BY DEF Working
  <2>2. Acts(t)  BY <1>1, <1>2, <1>3, <2>1, GoesActs
  <2> QED BY <1>3, <2>2, TaskAlone DEF Intent, outside, tokens
<1>4. CASE \E kind \in {"link", "unlink"} : Command(t, kind)
  <2>1. Acts(t) /\ LinksGo /\ Unlinks  BY <1>2, <1>4, CommandGoes
  <2> QED BY <1>1, <2>1, TaskKeeps DEF Intent, outside, tokens
<1>5. CASE Says(t, "needs link") /\ UNCHANGED <<links, file, hist>>
  <2>1. Acts(t)  BY <1>1, <1>2, <1>5, SaysActs DEF Texts
  <2> QED BY <1>5, <2>1, TaskAlone DEF Intent, outside, tokens
<1>6. CASE /\ links.linked[Who(t)] # None /\ UNCHANGED <<links, file, hist>>
           /\ task' = [task EXCEPT ![t].pc = "owner", ![t].tok = links.linked[Who(t)]]
  <2> DEFINE tok == links.linked[Who(t)]
             r == [task[t] EXCEPT !.pc = "owner", !.tok = tok]
  <2>1. Who(t) \in Users  BY <1>1, <1>2, TaskFacts
  <2>2. tok \in LinkType  BY <1>1, <1>6, <2>1 DEF LinksType, LinkedType
  <2>3. task' = [task EXCEPT ![t] = r]  BY <1>1, <1>6 DEF TypeOK
  <2> HIDE DEF tok
  <2>4. r \in TaskType /\ r.pc = "owner" /\ r.text = task[t].text
    BY <1>1, <2>2 DEF TaskType, Working
  <2>5. task[t].text = ""  BY <1>1, <1>2 DEF Telling
  <2> HIDE DEF r
  <2>6. Becomes(t, r)  BY <2>3, <2>4, <2>5 DEF Becomes
  <2>7. Acts(t)  BY <1>2, <2>6 DEF Acts
  <2> QED BY <1>6, <2>7, TaskAlone DEF Intent, outside, tokens
<1> QED BY <1>3, <1>4, <1>5, <1>6 DEF Intent

\* The link that is made is its person's; the other Mattermost accounts' links to it go.
LEMMA RetireKeeps ==
  ASSUME Inv, NEW t \in Tasks, Retire(t)
  PROVE  Inv'
<1>1. /\ TypeOK /\ Linked /\ Telling /\ Started /\ hub \in HubType /\ links \in LinksType
      /\ file \in FileType /\ hist \in HistType
  BY DEF Inv, TypeOK
<1>2. task[t].pc = "retire"  BY DEF Retire, At
<1>3. Who(t) \in Users  BY <1>1, <1>2, TaskFacts
<1> DEFINE h == task[t].hub
           mine == {k \in hub.tokens : k.hub = h /\ k.id # t}
           fresh == [id |-> t, hub |-> h]
           linked == [Others(h) EXCEPT ![Who(t)] = fresh]
           new == [links EXCEPT !.linked = linked]
<1>4. h = HubOf[Who(t)] /\ h \in Hubs  BY <1>1, <1>2, <1>3, NamesAssumption DEF Linked
<1>5. ASSUME NEW gone \in SUBSET mine, hub' = [hub EXCEPT !.tokens = @ \ gone]
      PROVE  hub' \in HubType /\ hub'.logins = hub.logins /\ hub'.seen = hub.seen
  BY <1>1, <1>5 DEF HubType
<1>6. UNCHANGED <<posts, clock, mm, auth, poller, hist>>  BY DEF Retire, outside, tokens
<1>7. Unlinks  BY <1>1, <1>6 DEF Unlinks
<1>8. CASE /\ hub' = [hub EXCEPT !.tokens = @ \ mine] /\ Keep(new)
           /\ Says(t, "linked") /\ UNCHANGED spent
  <2>1. Acts(t)  BY <1>1, <1>2, <1>8, SaysActs DEF Texts
  <2>2. hub' \in HubType /\ hub'.logins = hub.logins /\ hub'.seen = hub.seen  BY <1>5, <1>8
  <2>3. fresh \in LinkType /\ fresh.hub = HubOf[Who(t)]  BY <1>4 DEF LinkType, Actors
  <2>4. links.linked \in [Users -> LinkType \cup {None}]  BY <1>1 DEF LinksType, LinkedType
  <2>5. /\ Others(h) \in [Users -> LinkType \cup {None}]
        /\ \A v \in Users : Others(h)[v] # None => Others(h)[v] = links.linked[v]
    BY <2>4 DEF Others
  <2> HIDE DEF fresh
  <2>6. /\ linked \in LinkedType /\ linked[Who(t)] = fresh
        /\ \A v \in Users : v # Who(t) /\ linked[v] # None => linked[v] = links.linked[v]
    BY <1>3, <2>3, <2>5 DEF LinkedType
  <2> HIDE DEF linked
  <2>7. new \in LinksType /\ new.linked = linked /\ new.codes = links.codes
    BY <1>1, <2>6 DEF LinksType
  <2>8. links' = new /\ file' = [file EXCEPT !.linked = new.linked, !.pending = new.pending]
    BY <1>8 DEF Keep
  <2> HIDE DEF new
  <2>9. file' \in FileType /\ file'.linked = new.linked
    BY <1>1, <2>7, <2>8 DEF FileType, LinksType
  <2>10. Who(t) \notin hist'.unlinked
    <3>1. Confirming(Who(t))  BY <1>2 DEF Confirming
    <3> QED BY <1>1, <1>6, <3>1 DEF Linked
  <2>11. LinksGo  BY <2>3, <2>6, <2>7, <2>8, <2>9, <2>10 DEF LinksGo
  <2> QED BY <1>6, <1>7, <1>8, <2>1, <2>2, <2>11, TaskKeeps
<1>9. CASE /\ Fault /\ Done(t, "silent") /\ UNCHANGED <<links, file>>
           /\ \E gone \in SUBSET mine : hub' = [hub EXCEPT !.tokens = @ \ gone]
  <2>1. Acts(t)  BY <1>2, <1>9, DoneActs
  <2>2. hub' \in HubType /\ hub'.logins = hub.logins /\ hub'.seen = hub.seen  BY <1>5, <1>9
  <2>3. LinksGo  BY <1>1, <1>9 DEF LinksGo, Linked
  <2> QED BY <1>6, <1>7, <1>9, <2>1, <2>2, <2>3, TaskKeeps
<1> QED BY <1>8, <1>9 DEF Retire

\* No step of a task breaks the invariant.
LEMMA TaskStepKeeps ==
  ASSUME Inv, NEW t \in Tasks, TaskStep(t)
  PROVE  Inv'
BY HandleKeeps, MintKeeps, RetireKeeps, AllowKeeps, SlotKeeps, IntentKeeps, OwnerKeeps, TurnKeeps,
   SorryKeeps, ReplyKeeps DEF TaskStep

-----------------------------------------------------------------------------
(* The steps of the bot's own login. *)

\* A poll that ends early, as one does only when something failed, starts no task and
\* loses its place in no conversation.
LEMMA AbortKeeps ==
  ASSUME Inv, NEW pc \in {"read", "wait"}, Aborts(pc), UNCHANGED <<posts, clock, hist>>, Same,
         spent'.faults # 0
  PROVE  poller' \in PollerType /\ Dated' /\ Polled' /\ Once' /\ Due'
<1>1. TypeOK /\ Dated /\ Polled /\ Once /\ poller \in PollerType  BY DEF Inv, TypeOK
<1>2. /\ poller' \in PollerType /\ poller'.pc = pc /\ poller'.todo = {} /\ poller'.list = {}
      /\ poller'.conv = None /\ poller'.from = 0 /\ poller'.reply = 0
      /\ poller'.known = poller.known /\ poller'.looked = poller.looked
      /\ poller'.cursor = poller.cursor
  BY <1>1 DEF Aborts, PollerType
<1>3. Dated'  BY <1>1, <1>2 DEF Dated
<1>4. Polled'  BY <1>2 DEF Polled
<1>5. Once'
  <2>1. \A i \in DOMAIN posts : i # 0 /\ <<i, 1>> \in Tasks /\ <<i, 2>> \in Tasks
    BY <1>1, PostFacts
  <2> QED BY <1>1, <1>2, <2>1 DEF Once, Behind, Same
<1>6. Due'  BY DEF Due
<1> QED BY <1>2, <1>3, <1>4, <1>5, <1>6

\* No task asks for a token that it did not ask for.
NoMoreAsk == \A s \in Tasks : /\ auth'.rejected[s] # 0 => auth.rejected[s] # 0
                              /\ auth'.sent[s] # 0 => auth.sent[s] # 0

\* A step of the bot's login leaves the people's accounts alone, and ends at most one call.
LEMMA LoginKeeps ==
  ASSUME Inv, UNCHANGED <<posts, clock, links, hub, hist>>,
         mm' \in MmType, auth' \in AuthType, file' \in FileType, file'.linked = file.linked,
         spent' \in SpentType, spent'.logins = spent.logins, spent'.faults = 0 => spent.faults = 0,
         Lasting',
         (UNCHANGED task /\ Asking') \/ (NoMoreAsk /\ \E t \in Tasks : Acts(t)),
         UNCHANGED poller \/ (spent'.faults # 0 /\ \E pc \in {"read", "wait"} : Aborts(pc))
  PROVE  Inv'
<1>0. /\ TypeOK /\ Started /\ Lasting /\ Asking /\ Numbered /\ Linked /\ Telling
      /\ Dated /\ Polled /\ Once /\ Due
  BY DEF Inv
<1>1. /\ task' \in [Tasks -> TaskType] /\ Started' /\ Telling' /\ Asking' /\ Same
      /\ \A s \in Tasks : task'[s].pc \in {"mint", "retire"} =>
           /\ task'[s].hub = HubOf[Who(s)]
           /\ Who(s) \notin hist.unlinked
  <2>1. CASE UNCHANGED task /\ Asking'
    <3>1. \A s \in Tasks : task[s].pc \in {"mint", "retire"} => Who(s) \notin hist.unlinked
      BY <1>0 DEF Linked, Confirming
    <3> QED BY <1>0, <2>1, <3>1 DEF TypeOK, Started, Telling, Same, Linked
  <2>2. CASE NoMoreAsk /\ \E t \in Tasks : Acts(t)
    <3>1. PICK t \in Tasks : Acts(t)  BY <2>2
    <3>2. /\ task' \in [Tasks -> TaskType] /\ Started' /\ Telling' /\ Asking' /\ Same
          /\ \A s \in Tasks : task'[s].pc \in {"mint", "retire"} =>
              /\ task'[s].hub = HubOf[Who(s)]
              /\ task[s].pc \in {"mint", "retire"} \/ (s = t /\ Who(t) \notin hist'.unlinked)
      BY <1>0, <2>2, <3>1, ActsKeep DEF NoMoreAsk
    <3> QED BY <1>0, <3>2 DEF Linked, Confirming
  <2> QED BY <2>1, <2>2
<1>2. poller' \in PollerType /\ Dated' /\ Polled' /\ Once' /\ Due'
  <2>1. CASE UNCHANGED poller
    <3>1. poller' \in PollerType  BY <1>0, <2>1 DEF TypeOK
    <3> QED BY <1>0, <1>1, <2>1, <3>1, PollingKept
  <2>2. CASE spent'.faults # 0 /\ \E pc \in {"read", "wait"} : Aborts(pc)
    BY <1>1, <2>2, AbortKeeps
  <2> QED BY <2>1, <2>2
<1>3. TypeOK'  BY <1>0, <1>1, <1>2 DEF TypeOK
<1>4. Numbered'  BY <1>0 DEF Numbered
<1>5. Linked'
  <2>1. \A s \in Tasks : Who(s)' = Who(s)  BY DEF Who
  <2>2. \A u \in hist.unlinked : ~Confirming(u)'  BY <1>1, <2>1 DEF Confirming
  <2> QED BY <1>0, <1>1, <2>1, <2>2 DEF Linked
<1> QED BY <1>1, <1>2, <1>3, <1>4, <1>5 DEF Inv

\* Mattermost replaces its tokens.
LEMMA Replaced ==
  ASSUME mm \in MmType
  PROVE  LET m == [mm EXCEPT !.gen = @ + 1, !.access = TRUE]
         IN m \in MmType /\ m.gen = mm.gen + 1 /\ m.refresh = mm.refresh
<1> DEFINE n == [mm EXCEPT !.gen = mm.gen + 1]
<1>1. [mm EXCEPT !.gen = @ + 1, !.access = TRUE] = [n EXCEPT !.access = TRUE]  BY DEF MmType
<1>2. n \in MmType /\ n.gen = mm.gen + 1 /\ n.refresh = mm.refresh  BY DEF MmType
<1> HIDE DEF n
<1>3. [n EXCEPT !.access = TRUE] \in MmType  BY <1>2 DEF MmType
<1>4. [n EXCEPT !.access = TRUE].gen = n.gen /\ [n EXCEPT !.access = TRUE].refresh = n.refresh
  BY <1>2 DEF MmType
<1> QED BY <1>1, <1>2, <1>3, <1>4

\* Who leaves token() has neither a token it rejected nor the lock.
LEMMA QuitFacts ==
  ASSUME auth \in AuthType, NEW x \in Actors
  PROVE  LET q == Quit(x, auth)
         IN /\ q \in AuthType /\ q.gen = auth.gen /\ q.ready = auth.ready /\ q.login = auth.login
            /\ q.rejected[x] = 0 /\ q.sent[x] = 0
            /\ \A y \in Actors \ {x} : q.rejected[y] = auth.rejected[y] /\ q.sent[y] = auth.sent[y]
            /\ q.lock = IF auth.lock = x THEN None ELSE auth.lock
<1> DEFINE latch == IF auth.lock = x THEN None ELSE auth.lock
           a == [auth EXCEPT !.rejected[x] = 0]
           b == [a EXCEPT !.sent[x] = 0]
           c == [b EXCEPT !.lock = latch]
<1>1. Quit(x, auth) = c  BY DEF Quit, AuthType
<1>2. /\ a \in AuthType /\ a.gen = auth.gen /\ a.ready = auth.ready /\ a.login = auth.login
      /\ a.lock = auth.lock /\ a.sent = auth.sent /\ a.rejected = [auth.rejected EXCEPT ![x] = 0]
  BY DEF AuthType
<1> HIDE DEF a
<1>3. /\ b \in AuthType /\ b.gen = a.gen /\ b.ready = a.ready /\ b.login = a.login
      /\ b.lock = a.lock /\ b.rejected = a.rejected /\ b.sent = [a.sent EXCEPT ![x] = 0]
  BY <1>2 DEF AuthType
<1> HIDE DEF b
<1>4. latch \in Actors \cup {None}  BY DEF AuthType
<1> HIDE DEF latch
<1>5. /\ c \in AuthType /\ c.gen = b.gen /\ c.ready = b.ready /\ c.login = b.login
      /\ c.lock = latch /\ c.rejected = b.rejected /\ c.sent = b.sent
  BY <1>3, <1>4 DEF AuthType
<1> HIDE DEF c
<1>6. auth.sent \in [Actors -> Nat] /\ auth.rejected \in [Actors -> Nat]  BY DEF AuthType
<1>7. /\ c.rejected[x] = 0 /\ c.sent[x] = 0
      /\ \A y \in Actors \ {x} : c.rejected[y] = auth.rejected[y] /\ c.sent[y] = auth.sent[y]
  BY <1>2, <1>3, <1>5, <1>6
<1> QED BY <1>1, <1>2, <1>3, <1>5, <1>7 DEF latch

\* While nothing failed, only the lock's holder sends the refresh token.
LEMMA OneSends ==
  ASSUME TypeOK, Lasting, spent.faults = 0
  PROVE  /\ \A x, y \in Actors : auth.sent[x] # 0 /\ auth.sent[y] # 0 => x = y
         /\ auth.lock = None => \A x \in Actors : auth.sent[x] = 0
BY ActorsAssumption DEF Lasting

\* A request rejected with the token it was sent with keeps the invariant,
LEMMA RejectKeeps ==
  ASSUME Inv, NEW x \in Actors, Reject(x)
  PROVE  Inv'
<1>1. /\ TypeOK /\ Lasting /\ Asking /\ auth \in AuthType /\ mm \in MmType /\ file \in FileType
      /\ spent \in SpentType
  BY DEF Inv, TypeOK
<1>2. /\ auth' \in AuthType /\ auth'.gen = auth.gen /\ auth'.ready = auth.ready
      /\ auth'.login = auth.login /\ auth'.sent = auth.sent /\ auth'.lock = auth.lock
      /\ \A y \in Actors \ {x} : auth'.rejected[y] = auth.rejected[y]
  BY <1>1 DEF Reject, AuthType
<1>3. UNCHANGED <<posts, clock, links, hub, hist, mm, file, poller, task, spent>>
  BY DEF Reject, outside
<1>4. Lasting'  BY <1>1, <1>2, <1>3 DEF Lasting
<1>5. Asking'
  <2>1. x \in Tasks => task[x].pc # "none"
    <3>1. Poller \notin Tasks  BY DEF Poller, Tasks
    <3> QED BY <3>1 DEF Reject, Calls
  <2> QED BY <1>1, <1>2, <1>3, <2>1 DEF Asking, Actors
<1> QED BY <1>1, <1>2, <1>3, <1>4, <1>5, LoginKeeps

\* ... a token taken, or asked for under the lock,
LEMMA TokenKeeps ==
  ASSUME Inv, NEW x \in Actors, Token(x)
  PROVE  Inv'
<1>1. /\ TypeOK /\ Lasting /\ Asking /\ auth \in AuthType /\ mm \in MmType /\ file \in FileType
      /\ spent \in SpentType
  BY DEF Inv, TypeOK
<1>2. UNCHANGED <<posts, clock, links, hub, hist, mm, file, poller, task, spent>>
  BY DEF Token, outside
<1>3. auth.lock = None /\ auth.rejected[x] # 0 /\ auth.gen # 0  BY DEF Token
<1>4. CASE auth' = [auth EXCEPT !.rejected[x] = 0]
  <2>1. /\ auth' \in AuthType /\ auth'.gen = auth.gen /\ auth'.ready = auth.ready
        /\ auth'.login = auth.login /\ auth'.sent = auth.sent /\ auth'.lock = auth.lock
        /\ \A y \in Actors : auth'.rejected[y] # 0 => auth.rejected[y] # 0
    BY <1>1, <1>4 DEF AuthType
  <2>2. Lasting'  BY <1>1, <1>2, <2>1 DEF Lasting
  <2>3. Asking'  BY <1>1, <1>2, <2>1 DEF Asking, Actors
  <2> QED BY <1>1, <1>2, <2>1, <2>2, <2>3, LoginKeeps
<1>5. CASE auth' = [auth EXCEPT !.lock = x, !.sent[x] = auth.gen]
  <2>1. /\ auth' \in AuthType /\ auth'.gen = auth.gen /\ auth'.ready = auth.ready
        /\ auth'.login = auth.login /\ auth'.rejected = auth.rejected /\ auth'.lock = x
        /\ auth'.sent[x] = auth.gen
        /\ \A y \in Actors \ {x} : auth'.sent[y] = auth.sent[y]
    BY <1>1, <1>5 DEF AuthType
  <2>2. Lasting'  BY <1>1, <1>2, <1>3, <2>1, OneSends DEF Lasting
  <2>3. Asking'  BY <1>1, <1>2, <1>3, <2>1 DEF Asking, Actors
  <2> QED BY <1>1, <1>2, <2>1, <2>2, <2>3, LoginKeeps
<1> QED BY <1>4, <1>5 DEF Token

\* ... a refresh that answers,
LEMMA RefreshKeeps ==
  ASSUME Inv, NEW x \in Actors, Refresh(x)
  PROVE  Inv'
<1>1. /\ TypeOK /\ Lasting /\ Asking /\ auth \in AuthType /\ mm \in MmType /\ file \in FileType
      /\ spent \in SpentType
  BY DEF Inv, TypeOK
<1>2. UNCHANGED <<posts, clock, links, hub, hist, poller, task, spent>>  BY DEF Refresh, outside
<1> DEFINE q == Quit(x, auth)
<1>3. /\ q \in AuthType /\ q.gen = auth.gen /\ q.ready = auth.ready /\ q.login = auth.login
      /\ q.rejected[x] = 0 /\ q.sent[x] = 0
      /\ \A y \in Actors \ {x} : q.rejected[y] = auth.rejected[y] /\ q.sent[y] = auth.sent[y]
  BY <1>1, QuitFacts
<1>4. auth' = [q EXCEPT !.gen = mm.gen + 1] /\ file' = [file EXCEPT !.gen = mm.gen + 1]
  BY DEF Refresh, Store
<1>5. mm' \in MmType /\ mm'.gen = mm.gen + 1 /\ mm'.refresh
  <2>1. mm' = [mm EXCEPT !.gen = @ + 1, !.access = TRUE] /\ mm.refresh  BY DEF Refresh
  <2> QED BY <1>1, <2>1, Replaced
<1> HIDE DEF q
<1>6. /\ auth' \in AuthType /\ auth'.gen = mm.gen + 1 /\ auth'.ready = auth.ready
      /\ auth'.login = auth.login /\ auth'.rejected = q.rejected /\ auth'.sent = q.sent
  BY <1>1, <1>3, <1>4 DEF AuthType, MmType
<1>7. file' \in FileType /\ file'.linked = file.linked  BY <1>1, <1>4 DEF FileType, MmType
<1>8. Lasting'
  <2> SUFFICES ASSUME spent.faults = 0 PROVE Lasting'  BY <1>2 DEF Lasting
  <2>1. \A y \in Actors : auth'.sent[y] = 0  BY <1>1, <1>3, <1>6, OneSends DEF Refresh
  <2>2. mm.gen \in Nat /\ mm.gen + 1 # 0  BY <1>1 DEF MmType
  <2> QED BY <1>1, <1>2, <1>5, <1>6, <2>1, <2>2 DEF Lasting
<1>9. Asking'  BY <1>1, <1>2, <1>3, <1>6 DEF Asking, Actors
<1> QED BY <1>1, <1>2, <1>5, <1>6, <1>7, <1>8, <1>9, LoginKeeps

\* A call that ends without an answer: a task's is its last.
LEMMA EndsCall ==
  ASSUME Inv, NEW x \in Actors, Ends(x), auth' \in AuthType, auth'.rejected[x] = 0, auth'.sent[x] = 0,
         x \in Tasks => task[x].pc # "none"
  PROVE  /\ UNCHANGED task \/ \E t \in Tasks : Acts(t)
         /\ UNCHANGED poller \/ \E pc \in {"read", "wait"} : Aborts(pc)
<1>1. CASE x = Poller  BY <1>1 DEF Ends
<1>2. CASE x # Poller
  <2>1. x \in Tasks /\ Done(x, "silent") /\ UNCHANGED poller  BY <1>2 DEF Ends, Actors
  <2>2. Acts(x)  BY <2>1, DoneActs
  <2> QED BY <2>1, <2>2
<1> QED BY <1>1, <1>2

\* ... one whose answer is lost,
LEMMA RefreshLostKeeps ==
  ASSUME Inv, NEW x \in Actors, RefreshLost(x)
  PROVE  Inv'
<1>1. /\ TypeOK /\ Asking /\ auth \in AuthType /\ mm \in MmType /\ file \in FileType
      /\ spent \in SpentType
  BY DEF Inv, TypeOK
<1>2. UNCHANGED <<posts, clock, links, hub, hist, file>>  BY DEF RefreshLost, outside
<1>3. spent' \in SpentType /\ spent'.logins = spent.logins /\ spent'.faults # 0
  BY <1>1 DEF RefreshLost, SpentType
<1>4. mm' \in MmType
  <2>1. mm' = mm \/ mm' = [mm EXCEPT !.gen = @ + 1, !.access = TRUE]  BY DEF RefreshLost
  <2> QED BY <1>1, <2>1, Replaced
<1>5. /\ auth' \in AuthType /\ auth'.rejected[x] = 0 /\ auth'.sent[x] = 0
      /\ \A y \in Actors \ {x} : auth'.rejected[y] = auth.rejected[y] /\ auth'.sent[y] = auth.sent[y]
  <2>1. auth' = Quit(x, auth)  BY DEF RefreshLost
  <2> QED BY <1>1, <2>1, QuitFacts
<1>6. x \in Tasks => task[x].pc # "none"  BY <1>1 DEF Asking, RefreshLost
<1>7. /\ UNCHANGED task \/ \E t \in Tasks : Acts(t)
      /\ UNCHANGED poller \/ \E pc \in {"read", "wait"} : Aborts(pc)
  BY <1>5, <1>6, EndsCall DEF RefreshLost
<1>8. Lasting'  BY <1>3 DEF Lasting
<1>9. NoMoreAsk  BY <1>5 DEF NoMoreAsk, Actors
<1>10. UNCHANGED task => Asking'  BY <1>1, <1>9 DEF Asking, NoMoreAsk
<1> QED BY <1>1, <1>2, <1>3, <1>4, <1>5, <1>7, <1>8, <1>9, <1>10, LoginKeeps

\* The tokens are refused only once something failed.
LEMMA UnauthorizedKeeps ==
  ASSUME Inv, NEW x \in Actors, Unauthorized(x)
  PROVE  Inv'
<1>1. /\ TypeOK /\ Lasting /\ Asking /\ auth \in AuthType /\ mm \in MmType /\ file \in FileType
      /\ spent \in SpentType
  BY DEF Inv, TypeOK
<1>2. UNCHANGED <<posts, clock, links, hub, hist, mm, spent>>  BY DEF Unauthorized, outside
<1>3. spent.faults # 0  BY <1>1 DEF Lasting, Unauthorized
<1> DEFINE q == Quit(x, auth)
<1>4. /\ q \in AuthType /\ q.rejected[x] = 0 /\ q.sent[x] = 0
      /\ \A y \in Actors \ {x} : q.rejected[y] = auth.rejected[y] /\ q.sent[y] = auth.sent[y]
  BY <1>1, QuitFacts
<1>5. Lasting'  BY <1>2, <1>3 DEF Lasting
<1>6. CASE x = Poller
  <2>1. /\ auth' = [[q EXCEPT !.ready = FALSE] EXCEPT !.gen = 0]
        /\ file' = [file EXCEPT !.gen = 0] /\ Aborts("wait") /\ UNCHANGED task
    BY <1>6 DEF Unauthorized, Store
  <2> HIDE DEF q
  <2> DEFINE p == [q EXCEPT !.ready = FALSE]
  <2>2. p \in AuthType /\ p.rejected = q.rejected /\ p.sent = q.sent  BY <1>4 DEF AuthType
  <2>3. auth' = [p EXCEPT !.gen = 0]  BY <2>1
  <2> HIDE DEF p
  <2>4. auth' \in AuthType /\ auth'.rejected = p.rejected /\ auth'.sent = p.sent
    BY <2>2, <2>3 DEF AuthType
  <2>5. file' \in FileType /\ file'.linked = file.linked  BY <1>1, <2>1 DEF FileType
  <2>6. Asking'  BY <1>1, <1>4, <2>1, <2>2, <2>4 DEF Asking, Actors
  <2> QED BY <1>1, <1>2, <1>3, <1>5, <2>1, <2>4, <2>5, <2>6, LoginKeeps
<1>7. CASE x # Poller
  <2>1. auth' = q /\ Ends(x) /\ UNCHANGED file  BY <1>7 DEF Unauthorized
  <2> HIDE DEF q
  <2>2. x \in Tasks => task[x].pc # "none"
    BY <1>1, <1>7 DEF Asking, Unauthorized, Calls
  <2>3. /\ UNCHANGED task \/ \E t \in Tasks : Acts(t)
        /\ UNCHANGED poller \/ \E pc \in {"read", "wait"} : Aborts(pc)
    BY <1>4, <2>1, <2>2, EndsCall
  <2>4. NoMoreAsk  BY <1>4, <2>1 DEF NoMoreAsk, Actors
  <2>5. UNCHANGED task => Asking'  BY <1>1, <2>4 DEF Asking, NoMoreAsk
  <2> QED BY <1>1, <1>2, <1>3, <1>4, <1>5, <2>1, <2>3, <2>4, <2>5, LoginKeeps
<1> QED BY <1>6, <1>7

\* ... and so each step of who needs a token.
LEMMA TokenStepKeeps ==
  ASSUME Inv, NEW x \in Actors, TokenStep(x)
  PROVE  Inv'
BY RejectKeeps, TokenKeeps, RefreshKeeps, RefreshLostKeeps, UnauthorizedKeeps DEF TokenStep

\* The service account logs in only once something failed.
LEMMA StartLoginKeeps ==
  ASSUME Inv, StartLogin
  PROVE  Inv'
<1>1. /\ TypeOK /\ Lasting /\ Asking /\ auth \in AuthType /\ mm \in MmType /\ file \in FileType
      /\ spent \in SpentType
  BY DEF Inv, TypeOK
<1>2. UNCHANGED <<posts, clock, links, hub, hist, mm, file, poller, task, spent>>
  BY DEF StartLogin, outside
<1>3. auth' \in AuthType /\ auth'.rejected = auth.rejected /\ auth'.sent = auth.sent
  BY <1>1 DEF StartLogin, AuthType
<1>4. Lasting'  BY <1>1, <1>2 DEF Lasting, StartLogin
<1>5. Asking'  BY <1>1, <1>2, <1>3 DEF Asking
<1> QED BY <1>1, <1>2, <1>3, <1>4, <1>5, LoginKeeps

\* A login of the bot that comes back keeps the invariant,
LEMMA CallbackKeeps ==
  ASSUME Inv, Callback
  PROVE  Inv'
<1>1. /\ TypeOK /\ Lasting /\ Asking /\ auth \in AuthType /\ mm \in MmType /\ file \in FileType
      /\ spent \in SpentType
  BY DEF Inv, TypeOK
<1>2. UNCHANGED <<posts, clock, links, hub, hist, poller, task, spent>>  BY DEF Callback, outside
<1>3. spent.faults # 0  BY <1>1 DEF Lasting, Callback
<1>4. Lasting'  BY <1>2, <1>3 DEF Lasting
<1>5. CASE /\ mm' = [gen |-> mm.gen + 1, access |-> TRUE, refresh |-> TRUE]
           /\ Store([auth EXCEPT !.login = FALSE, !.ready = TRUE], mm.gen + 1)
  <2>1. mm' \in MmType /\ mm.gen + 1 \in Nat  BY <1>1, <1>5 DEF MmType
  <2> DEFINE p == [auth EXCEPT !.login = FALSE]
             q == [p EXCEPT !.ready = TRUE]
  <2>2. /\ auth' = [[auth EXCEPT !.login = FALSE, !.ready = TRUE] EXCEPT !.gen = mm.gen + 1]
        /\ file' = [file EXCEPT !.gen = mm.gen + 1]
    BY <1>5 DEF Store
  <2>3. [auth EXCEPT !.login = FALSE, !.ready = TRUE] = q  BY <1>1 DEF AuthType
  <2>4. p \in AuthType /\ p.rejected = auth.rejected /\ p.sent = auth.sent  BY <1>1 DEF AuthType
  <2> HIDE DEF p
  <2>5. q \in AuthType /\ q.rejected = p.rejected /\ q.sent = p.sent  BY <2>4 DEF AuthType
  <2>6. auth' = [q EXCEPT !.gen = mm.gen + 1]  BY <2>2, <2>3
  <2> HIDE DEF q
  <2>7. auth' \in AuthType /\ auth'.rejected = q.rejected /\ auth'.sent = q.sent
    BY <2>1, <2>5, <2>6 DEF AuthType
  <2>8. file' \in FileType /\ file'.linked = file.linked  BY <1>1, <2>1, <2>2 DEF FileType
  <2>9. Asking'  BY <1>1, <1>2, <2>4, <2>5, <2>7 DEF Asking
  <2> QED BY <1>1, <1>2, <1>4, <2>1, <2>7, <2>8, <2>9, LoginKeeps
<1>6. CASE auth' = [auth EXCEPT !.login = FALSE] /\ UNCHANGED <<mm, file>>
  <2>1. auth' \in AuthType /\ auth'.rejected = auth.rejected /\ auth'.sent = auth.sent
    BY <1>1, <1>6 DEF AuthType
  <2>2. Asking'  BY <1>1, <1>2, <2>1 DEF Asking
  <2> QED BY <1>1, <1>2, <1>4, <1>6, <2>1, <2>2, LoginKeeps
<1> QED BY <1>5, <1>6 DEF Callback

\* The access token runs out; Mattermost, or the Hub, takes back what it gave.
LEMMA ExpireKeeps ==
  ASSUME Inv, Expire
  PROVE  Inv'
<1>1. /\ TypeOK /\ Lasting /\ Asking /\ auth \in AuthType /\ mm \in MmType /\ file \in FileType
      /\ spent \in SpentType
  BY DEF Inv, TypeOK
<1>2. UNCHANGED <<posts, clock, links, hub, hist, auth, file, poller, task>>  BY DEF Expire, outside
<1>3. spent' \in SpentType /\ spent'.logins = spent.logins /\ spent'.faults = spent.faults
  BY <1>1 DEF Expire, Spends, SpentType
<1>4. mm' \in MmType /\ mm'.gen = mm.gen /\ mm'.refresh = mm.refresh  BY <1>1 DEF Expire, MmType
<1>5. Lasting'  BY <1>1, <1>2, <1>3, <1>4 DEF Lasting
<1>6. Asking'  BY <1>1, <1>2 DEF Asking
<1> QED BY <1>1, <1>2, <1>3, <1>4, <1>5, <1>6, LoginKeeps

\* ... tokens revoked, Mattermost's or the Hub's,
LEMMA RevokeKeeps ==
  ASSUME Inv, Revoke
  PROVE  Inv'
<1>1. /\ TypeOK /\ Asking /\ auth \in AuthType /\ mm \in MmType /\ file \in FileType
      /\ spent \in SpentType /\ hub \in HubType
  BY DEF Inv, TypeOK
<1>2. UNCHANGED <<posts, clock, links, hist, auth, file, poller, task>>  BY DEF Revoke, outside
<1>3. spent' \in SpentType /\ spent'.logins = spent.logins /\ spent'.faults # 0
  BY <1>1 DEF Revoke, Fault, Spends, SpentType
<1>4. Lasting'  BY <1>3 DEF Lasting
<1>5. Asking'  BY <1>1, <1>2 DEF Asking
<1>6. CASE mm' = [mm EXCEPT !.access = FALSE, !.refresh = FALSE] /\ UNCHANGED hub
  <2>1. mm' = [[mm EXCEPT !.access = FALSE] EXCEPT !.refresh = FALSE]  BY <1>1, <1>6 DEF MmType
  <2>2. mm' \in MmType  BY <1>1, <2>1 DEF MmType
  <2> QED BY <1>1, <1>2, <1>3, <1>4, <1>5, <1>6, <2>2, LoginKeeps
<1>7. CASE hub' = [hub EXCEPT !.tokens = {}] /\ UNCHANGED mm
  <2>1. hub' \in HubType /\ hub'.logins = hub.logins /\ hub'.seen = hub.seen
    BY <1>1, <1>7 DEF HubType
  <2>2. /\ Started /\ Numbered /\ Linked /\ Telling /\ Dated /\ Polled /\ Once /\ Due  BY DEF Inv
  <2>3. TypeOK'  BY <1>1, <1>2, <1>3, <1>7, <2>1 DEF TypeOK
  <2>4. Started' /\ Telling'  BY <1>2, <1>3, <2>2 DEF Started, Telling
  <2>5. Numbered'  BY <1>2, <1>3, <2>1, <2>2 DEF Numbered
  <2>6. Linked'  BY <1>2, <2>2 DEF Linked, Confirming, Who
  <2>7. Same  BY <1>2 DEF Same
  <2>8. Dated' /\ Polled' /\ Once' /\ Due'  BY <1>1, <1>2, <1>3, <2>2, <2>7, PollingKept
  <2> QED BY <1>4, <1>5, <2>3, <2>4, <2>5, <2>6, <2>8 DEF Inv
<1> QED BY <1>6, <1>7 DEF Revoke

-----------------------------------------------------------------------------
(* The logins to the Hub. *)

\* A step that only takes up, shows or forgets what people link with.
LEMMA LinkingKeeps ==
  ASSUME Inv, UNCHANGED <<posts, clock, mm, auth, poller, task, hist>>,
         links' \in LinksType, file' \in FileType, hub' \in HubType, spent' \in SpentType,
         spent'.faults = 0 => spent.faults = 0, file'.linked = links'.linked,
         \A u \in Users : links'.linked[u] # None => links'.linked[u] = links.linked[u],
         Numbered'
  PROVE  Inv'
<1>0. /\ TypeOK /\ Started /\ Lasting /\ Asking /\ Numbered /\ Linked /\ Telling
      /\ Dated /\ Polled /\ Once /\ Due
  BY DEF Inv
<1>1. TypeOK'  BY <1>0 DEF TypeOK
<1>2. Started' /\ Lasting' /\ Asking' /\ Telling'  BY <1>0 DEF Started, Lasting, Asking, Telling
<1>3. Linked'
  <2>1. hist.unlinked \subseteq Users  BY <1>0 DEF TypeOK, HistType
  <2> QED BY <1>0, <2>1 DEF Linked, Confirming, Who
<1>4. Same  BY DEF Same
<1>5. Dated' /\ Polled' /\ Once' /\ Due'  BY <1>0, <1>4, PollingKept
<1> QED BY <1>1, <1>2, <1>3, <1>5 DEF Inv

\* save() as LinkingKeeps takes it.
LEMMA KeepFacts ==
  ASSUME file \in FileType, NEW new \in LinksType, Keep(new)
  PROVE  links' = new /\ file' \in FileType /\ file'.linked = new.linked
BY DEF Keep, FileType, LinksType

\* ... a login at the hub that a user starts,
LEMMA HubLoginKeeps ==
  ASSUME Inv, NEW u \in Users, NEW h \in Hubs, HubLogin(u, h)
  PROVE  Inv'
<1>1. /\ TypeOK /\ Numbered /\ Linked /\ links \in LinksType /\ file \in FileType /\ hub \in HubType
      /\ spent \in SpentType
  BY DEF Inv, TypeOK
<1>2. UNCHANGED <<posts, clock, mm, auth, poller, task, hist>>  BY DEF HubLogin, outside, tokens
<1>3. /\ spent' \in SpentType /\ spent'.faults = spent.faults /\ spent'.logins = spent.logins + 1
      /\ spent.logins \in Nat
  BY <1>1 DEF HubLogin, Spends, SpentType
<1> DEFINE new == [links EXCEPT !.pending = @ \ {u}]
           l == [user |-> u, hub |-> h, n |-> spent.logins + 1]
<1>4. new \in LinksType /\ new.linked = links.linked /\ new.codes = links.codes
  BY <1>1 DEF LinksType
<1>5. links' = new /\ file' \in FileType /\ file'.linked = new.linked
  <2>1. Keep(new)  BY DEF HubLogin
  <2> HIDE DEF new
  <2> QED BY <1>1, <1>4, <2>1, KeepFacts
<1>6. l \in LoginType /\ l.n = spent.logins + 1  BY <1>3 DEF LoginType
<1>7. hub' \in HubType /\ hub'.logins = hub.logins \cup {l} /\ hub'.seen = hub.seen
  <2>1. hub' = [hub EXCEPT !.logins = @ \cup {l}]  BY DEF HubLogin
  <2> HIDE DEF l
  <2> QED BY <1>1, <1>6, <2>1 DEF HubType
<1> HIDE DEF new, l
<1>8. Numbered'
  <2>1. /\ hub.logins \subseteq LoginType /\ hub.seen \subseteq Hubs \X Nat  BY <1>1 DEF HubType
  <2>2. /\ \A k \in hub.logins : k.n \in 1..spent.logins
        /\ \A s \in hub.seen : s[2] \in 1..spent.logins
    BY <1>1 DEF Numbered
  <2>3. /\ \A k \in hub'.logins : k.n \in 1..spent'.logins
        /\ \A s \in hub'.seen : s[2] \in 1..spent'.logins
    BY <1>3, <1>6, <1>7, <2>2
  <2>4. \A k \in hub.logins : k.n # l.n  BY <1>3, <1>6, <2>2
  <2>5. \A s \in hub.seen : s[2] # l.n  BY <1>3, <1>6, <2>2
  <2>6. /\ \A j, k \in hub'.logins : j.n = k.n => j = k
        /\ \A k \in hub'.logins, s \in hub'.seen : k.n # s[2]
        /\ \A s, q \in hub'.seen : s[2] = q[2] => s = q
    BY <1>1, <1>7, <2>4, <2>5 DEF Numbered
  <2>7. \A v \in Users : links'.codes[v] # None =>
          <<links'.codes[v].hub, links'.codes[v].code>> \in hub'.seen
    BY <1>1, <1>4, <1>5, <1>7 DEF Numbered
  <2>8. \A i \in DOMAIN posts : posts[i].kind = "code" /\ posts[i].code # 0
                                  => <<HubOf[posts[i].user], posts[i].code>> \in hub'.seen
    BY <1>1, <1>7 DEF Numbered
  <2> QED BY <1>2, <2>3, <2>6, <2>7, <2>8 DEF Numbered
<1> QED BY <1>1, <1>2, <1>3, <1>4, <1>5, <1>7, <1>8, LinkingKeeps

\* ... the page that shows its code,
LEMMA CodedKeeps ==
  ASSUME Inv, NEW l \in hub.logins, Coded(l)
  PROVE  Inv'
<1>1. /\ TypeOK /\ Numbered /\ Linked /\ links \in LinksType /\ file \in FileType /\ hub \in HubType
      /\ spent \in SpentType
  BY DEF Inv, TypeOK
<1>2. UNCHANGED <<posts, clock, mm, auth, poller, task, hist, spent, file>>
  BY DEF Coded, outside, tokens
<1>3. l \in LoginType  BY <1>1 DEF HubType
<1> DEFINE e == [code |-> l.n, hub |-> l.hub, tries |-> 0]
<1>4. e \in CodeType /\ e.hub = l.hub /\ e.code = l.n  BY <1>3 DEF CodeType, LoginType
<1>5. links' = [links EXCEPT !.codes[l.user] = e]  BY DEF Coded
<1> HIDE DEF e
<1>6. /\ links' \in LinksType /\ links'.linked = links.linked
      /\ \A v \in Users : links'.codes[v] = IF v = l.user THEN e ELSE links.codes[v]
  BY <1>1, <1>3, <1>4, <1>5 DEF LinksType, LoginType
<1>7. hub' \in HubType /\ hub'.logins = hub.logins \ {l} /\ hub'.seen = hub.seen \cup {<<l.hub, l.n>>}
  <2>1. <<l.hub, l.n>> \in Hubs \X Nat  BY <1>3 DEF LoginType
  <2> DEFINE seen == hub.seen \cup {<<l.hub, l.n>>}
             a == [hub EXCEPT !.logins = hub.logins \ {l}]
  <2>2. seen \in SUBSET (Hubs \X Nat)  BY <1>1, <2>1 DEF HubType
  <2>3. a \in HubType /\ a.logins = hub.logins \ {l} /\ a.seen = hub.seen  BY <1>1 DEF HubType
  <2>4. hub' = [a EXCEPT !.seen = seen]  BY <1>1 DEF Coded, HubType
  <2> HIDE DEF a, seen
  <2>5. hub' \in HubType /\ hub'.logins = a.logins /\ hub'.seen = seen  BY <2>2, <2>3, <2>4 DEF HubType
  <2> QED BY <2>3, <2>5 DEF seen
<1>8. Numbered'
  <2>1. /\ \A k \in hub'.logins : k.n \in 1..spent'.logins
        /\ \A s \in hub'.seen : s[2] \in 1..spent'.logins
    BY <1>1, <1>2, <1>7 DEF Numbered
  <2>2. \A k \in hub'.logins : k.n # l.n  BY <1>1, <1>7 DEF Numbered
  <2>3. \A s \in hub.seen : s[2] # l.n  BY <1>1 DEF Numbered
  <2>4. /\ \A j, k \in hub'.logins : j.n = k.n => j = k
        /\ \A k \in hub'.logins, s \in hub'.seen : k.n # s[2]
    BY <1>1, <1>7, <2>2 DEF Numbered
  <2>5. \A s, q \in hub'.seen : s[2] = q[2] => s = q
    BY <1>1, <1>7, <2>3 DEF Numbered
  <2>6. \A v \in Users : links'.codes[v] # None =>
          <<links'.codes[v].hub, links'.codes[v].code>> \in hub'.seen
    BY <1>1, <1>4, <1>6, <1>7 DEF Numbered
  <2>7. \A i \in DOMAIN posts : posts[i].kind = "code" /\ posts[i].code # 0
                                  => <<HubOf[posts[i].user], posts[i].code>> \in hub'.seen
    BY <1>1, <1>7 DEF Numbered
  <2> QED BY <1>2, <2>1, <2>4, <2>5, <2>6, <2>7 DEF Numbered
<1>9. file'.linked = links'.linked  BY <1>1, <1>2, <1>6 DEF Linked
<1> QED BY <1>1, <1>2, <1>6, <1>7, <1>8, <1>9, LinkingKeeps

\* ... one that is not exchanged,
LEMMA NotExchangedKeeps ==
  ASSUME Inv, NEW l \in hub.logins, NotExchanged(l)
  PROVE  Inv'
<1>1. /\ TypeOK /\ Numbered /\ Linked /\ links \in LinksType /\ file \in FileType /\ hub \in HubType
      /\ spent \in SpentType
  BY DEF Inv, TypeOK
<1>2. UNCHANGED <<posts, clock, mm, auth, poller, task, hist, links, file>>
  BY DEF NotExchanged, outside, tokens
<1>3. spent' \in SpentType /\ (spent'.faults = 0 => spent.faults = 0) /\ spent'.logins = spent.logins
  BY <1>1, FaultCounts DEF NotExchanged
<1>4. hub' \in HubType /\ hub'.logins = hub.logins \ {l} /\ hub'.seen = hub.seen
  BY <1>1 DEF HubType, NotExchanged
<1>5. Numbered'  BY <1>1, <1>2, <1>3, <1>4 DEF Numbered
<1> QED BY <1>1, <1>2, <1>3, <1>4, <1>5, LinkingKeeps DEF Linked

\* ... the time that a link, a code, a token or a limit lasts, passed,
LEMMA LapseKeeps ==
  ASSUME Inv, NEW u \in Users, Lapse(u)
  PROVE  Inv'
<1>1. /\ TypeOK /\ Numbered /\ Linked /\ links \in LinksType /\ file \in FileType /\ hub \in HubType
      /\ spent \in SpentType
  BY DEF Inv, TypeOK
<1>2. UNCHANGED <<posts, clock, mm, auth, poller, task, hist, hub>>
  BY DEF Lapse, outside, tokens
<1>3. spent' \in SpentType /\ (spent'.faults = 0 => spent.faults = 0) /\ spent'.logins = spent.logins
  BY <1>1, FaultCounts DEF Lapse
<1>4. ASSUME NEW new \in LinksType, Keep(new),
             \A v \in Users : new.linked[v] # None => new.linked[v] = links.linked[v],
             \A v \in Users : new.codes[v] # None => new.codes[v] = links.codes[v]
      PROVE  Inv'
  <2>1. links' = new /\ file' \in FileType /\ file'.linked = new.linked  BY <1>1, <1>4, KeepFacts
  <2>2. Numbered'  BY <1>1, <1>2, <1>3, <1>4, <2>1 DEF Numbered
  <2> QED BY <1>1, <1>2, <1>3, <1>4, <2>1, <2>2, LinkingKeeps
<1>5. CASE Keep([links EXCEPT !.pending = @ \ {u}])
  <2> DEFINE new == [links EXCEPT !.pending = @ \ {u}]
  <2>1. new \in LinksType /\ new.linked = links.linked /\ new.codes = links.codes
    BY <1>1 DEF LinksType
  <2>2. Keep(new)  BY <1>5
  <2> HIDE DEF new
  <2> QED BY <1>4, <2>1, <2>2
<1>6. CASE Keep([links EXCEPT !.codes[u] = None])
  <2> DEFINE new == [links EXCEPT !.codes[u] = None]
  <2>1. /\ new \in LinksType /\ new.linked = links.linked
        /\ \A v \in Users : new.codes[v] # None => new.codes[v] = links.codes[v]
    BY <1>1 DEF LinksType
  <2>2. Keep(new)  BY <1>6
  <2> HIDE DEF new
  <2> QED BY <1>4, <2>1, <2>2
<1>7. CASE Keep([links EXCEPT !.linked[u] = None])
  <2> DEFINE new == [links EXCEPT !.linked[u] = None]
  <2>1. /\ new \in LinksType /\ new.codes = links.codes
        /\ \A v \in Users : new.linked[v] # None => new.linked[v] = links.linked[v]
    BY <1>1 DEF LinksType, LinkedType
  <2>2. Keep(new)  BY <1>7
  <2> HIDE DEF new
  <2> QED BY <1>4, <2>1, <2>2
<1>8. CASE UNCHANGED <<links, file>>
  <2>1. Numbered'  BY <1>1, <1>2, <1>3, <1>8 DEF Numbered
  <2> QED BY <1>1, <1>2, <1>3, <1>8, <2>1, LinkingKeeps DEF Linked
<1> QED BY <1>5, <1>6, <1>7, <1>8 DEF Lapse

\* ... and so each step of a login.
LEMMA LoginStepKeeps ==
  ASSUME Inv, LoginStep
  PROVE  Inv'
BY HubLoginKeeps, CodedKeeps, NotExchangedKeeps, StartLoginKeeps, CallbackKeeps DEF LoginStep

-----------------------------------------------------------------------------
(* The steps of the poller. *)

\* A new task.
LEMMA StartsFacts ==
  ASSUME TypeOK, Started, NEW i \in DOMAIN posts, Starts(i), UNCHANGED posts
  PROVE  /\ task' \in [Tasks -> TaskType] /\ Started'
         /\ \A t \in Tasks : task'[t] = task[t] \/ (task'[t].pc = "new" /\ task'[t].text = ""
                                                    /\ ~task'[t].ran /\ task'[t] # NoTask)
         /\ \A t \in Tasks : t[1] # i => task'[t] = task[t]
         /\ task'[<<i, 1>>] # NoTask
         /\ task[<<i, 1>>] = NoTask => task'[<<i, 2>>] = task[<<i, 2>>]
<1> DEFINE n == IF task[<<i, 1>>] = NoTask THEN 1 ELSE 2
           new == [NoTask EXCEPT !.pc = "new"]
<1>1. <<i, 1>> \in Tasks /\ <<i, 2>> \in Tasks  BY PostFacts
<1>2. new \in TaskType /\ new.pc = "new" /\ new.text = "" /\ new.ran = FALSE /\ new # NoTask
  BY NoTaskType DEF Working
<1>3. task' = [task EXCEPT ![<<i, n>>] = new]  BY DEF Starts
<1> HIDE DEF new
<1>4. <<i, n>> \in Tasks /\ task \in [Tasks -> TaskType]  BY <1>1 DEF TypeOK
<1>5. \A t \in Tasks : task'[t] = IF t = <<i, n>> THEN new ELSE task[t]  BY <1>3, <1>4
<1>6. task' \in [Tasks -> TaskType]  BY <1>2, <1>3, <1>4
<1>7. task'[<<i, 1>>] # NoTask
  <2>1. CASE n = 1  BY <1>1, <1>2, <1>5, <2>1
  <2>2. CASE n # 1
    <3>1. n = 2 /\ task[<<i, 1>>] # NoTask  BY <2>2
    <3>2. task'[<<i, 1>>] = task[<<i, 1>>]  BY <1>1, <1>5, <3>1
    <3> QED BY <3>1, <3>2
  <2> QED BY <2>1, <2>2
<1>8. ASSUME task[<<i, 1>>] = NoTask PROVE task'[<<i, 2>>] = task[<<i, 2>>]
  <2>1. n = 1  BY <1>8
  <2>2. <<i, 2>> # <<i, 1>>  OBVIOUS
  <2> QED BY <1>1, <1>5, <2>1, <2>2
<1>9. \A t \in Tasks : t[1] # i => task'[t] = task[t]  BY <1>5
<1>10. <<i, n>>[1] = i  OBVIOUS
<1> HIDE DEF n
<1>11. Started'  BY <1>2, <1>5, <1>10 DEF Started
<1> QED BY <1>2, <1>5, <1>6, <1>7, <1>8, <1>9, <1>11

\* A step of the poller leaves everything but polling alone, and starts at most one task.
LEMMA PollerKeeps ==
  ASSUME Inv, UNCHANGED <<posts, clock, mm, auth, file, links, hub>>,
         hist' \in HistType, hist'.unlinked = hist.unlinked, Fault \/ UNCHANGED spent,
         UNCHANGED task \/ \E i \in DOMAIN posts : Starts(i),
         poller' \in PollerType, \A c \in Users \cup {Home} : poller'.cursor[c] <= clock,
         Polled', Once', Due'
  PROVE  Inv'
<1>0. /\ TypeOK /\ Started /\ Lasting /\ Asking /\ Numbered /\ Linked /\ Telling
      /\ Dated /\ Polled /\ Once /\ Due
  BY DEF Inv
<1>1. /\ spent' \in SpentType /\ (spent'.faults = 0 => spent.faults = 0)
      /\ spent'.logins = spent.logins
  BY <1>0, FaultCounts DEF TypeOK
<1>2. /\ task' \in [Tasks -> TaskType] /\ Started'
      /\ \A t \in Tasks : task'[t] = task[t] \/ (task'[t].pc = "new" /\ task'[t].text = "" /\ ~task'[t].ran)
  <2>1. CASE UNCHANGED task  BY <1>0, <2>1 DEF TypeOK, Started
  <2>2. CASE \E i \in DOMAIN posts : Starts(i)  BY <1>0, <2>2, StartsFacts
  <2> QED BY <2>1, <2>2
<1>3. TypeOK'  BY <1>0, <1>1, <1>2 DEF TypeOK
<1>4. Lasting' /\ Asking' /\ Telling'
  BY <1>0, <1>1, <1>2 DEF Lasting, Asking, Telling
<1>5. Numbered'  BY <1>0, <1>1 DEF Numbered
<1>6. Linked'
  <2>1. \A s \in Tasks : Who(s)' = Who(s)  BY DEF Who
  <2>2. \A s \in Tasks : task'[s].pc \in {"mint", "retire"} => task'[s] = task[s]  BY <1>2
  <2>3. \A u \in hist.unlinked : ~Confirming(u)'
    <3> SUFFICES ASSUME NEW u \in hist.unlinked, NEW s \in Tasks,
                        task'[s].pc \in {"mint", "retire"}, Who(s) = u
                 PROVE  FALSE
      BY <2>1 DEF Confirming
    <3> QED BY <1>0, <2>2 DEF Linked, Confirming
  <2> QED BY <1>0, <2>1, <2>2, <2>3 DEF Linked
<1>7. Dated'  BY <1>0 DEF Dated
<1> QED BY <1>2, <1>3, <1>4, <1>5, <1>6, <1>7 DEF Inv

\* The next poll, with or without a look at the conversations.
LEMMA AwakeFacts ==
  ASSUME Inv, Awake
  PROVE  poller.todo = {} /\ poller.list = {} /\ poller.reply = 0 /\ poller.pc # "thread"
BY DEF Inv, Polled, Awake

\* A pass of the poller that begins keeps the invariant,
LEMMA PausesKeep ==
  ASSUME Inv, LookDue \/ Poll
  PROVE  Inv'
<1>1. /\ TypeOK /\ Dated /\ Polled /\ Once /\ Due /\ poller \in PollerType /\ hist \in HistType
  BY DEF Inv, TypeOK
<1>2. poller.todo = {} /\ poller.list = {} /\ poller.reply = 0  BY AwakeFacts DEF LookDue, Poll
<1>3. UNCHANGED <<posts, clock, mm, auth, file, links, hub, task, hist, spent>>
  BY DEF LookDue, Poll, outside, tokens
<1>4. /\ poller' \in PollerType /\ poller'.looked = poller.looked /\ poller'.known = poller.known
      /\ poller'.conv = poller.conv /\ poller'.from = poller.from /\ poller'.list = poller.list
      /\ poller'.reply = poller.reply /\ poller'.cursor = poller.cursor
      /\ poller'.todo \subseteq poller.known \cup {Home} /\ poller'.pc \in {"look", "read"}
      /\ poller'.pc = "look" => poller'.todo = {}
  <2>1. CASE LookDue
    <3>1. poller' = [poller EXCEPT !.pc = "look"]  BY <2>1 DEF LookDue
    <3> QED BY <1>1, <1>2, <3>1 DEF PollerType
  <2>2. CASE Poll
    <3>1. poller' = [poller EXCEPT !.pc = "read", !.todo = poller.known \cup {Home}]
      BY <2>2 DEF Poll
    <3> QED BY <1>1, <1>2, <3>1 DEF PollerType
  <2> QED BY <2>1, <2>2
<1>5. Polled'  BY <1>2, <1>4 DEF Polled
<1>6. Once'  BY <1>1, <1>3, <1>4 DEF Once, Behind
<1>7. Due'  BY <1>1, <1>3, <1>4 DEF Due, Waits, Ahead
<1> QED BY <1>1, <1>3, <1>4, <1>5, <1>6, <1>7, PollerKeeps DEF Dated

\* A look: a conversation that appeared since the last one is all new, and none of its posts
\* has a task.
LEMMA LookKeeps ==
  ASSUME Inv, Look
  PROVE  Inv'
<1>1. /\ TypeOK /\ Dated /\ Polled /\ Once /\ Due /\ poller \in PollerType /\ hist \in HistType
      /\ spent \in SpentType /\ clock \in Nat
  BY DEF Inv, TypeOK
<1>2. poller.pc = "look" /\ poller.todo = {} /\ poller.list = {} /\ poller.reply = 0
  BY <1>1 DEF Look, Polled
<1>3. UNCHANGED <<posts, clock, mm, auth, file, links, hub, task>>  BY DEF Look, outside, tokens
<1>4. Same  BY <1>3 DEF Same
<1>5. \A i \in DOMAIN posts : i \in Nat /\ i # 0 /\ posts[i] \in PostType
  BY <1>1, PostFacts
<1>6. CASE Looks(Dms) /\ UNCHANGED <<spent, hist>>
  <2> DEFINE cur == [c \in Convs |-> IF poller.looked /\ c \in Dms \ poller.known THEN 1
                                     ELSE poller.cursor[c]]
  <2>1. \A i \in DOMAIN posts : posts[i].conv \in Users \cup {Home} /\ posts[i].at \in Nat
    BY <1>5 DEF PostType
  <2>2. Dms \subseteq Users  BY <2>1 DEF Dms
  <2>3. Convs = Users \cup {Home}  BY NamesAssumption DEF Convs
  <2>4. poller.cursor \in [Users \cup {Home} -> Nat]  BY <1>1 DEF PollerType
  <2>5. cur \in [Users \cup {Home} -> Nat]  BY <2>3, <2>4
  <2>6. \A c \in Users \cup {Home} :
          cur[c] = IF poller.looked /\ c \in Dms \ poller.known THEN 1 ELSE poller.cursor[c]
    BY <2>3
  <2>7. poller' = [poller EXCEPT !.pc = "read", !.looked = TRUE, !.known = Dms,
                     !.todo = Dms \cup {Home}, !.cursor = cur]
    BY <1>6 DEF Looks
  <2> HIDE DEF cur
  <2>8. /\ poller' \in PollerType /\ poller'.pc = "read" /\ poller'.looked /\ poller'.known = Dms
        /\ poller'.todo = Dms \cup {Home} /\ poller'.cursor = cur /\ poller'.list = {}
        /\ poller'.reply = 0
    <3> DEFINE dms == Dms
               a == [poller EXCEPT !.looked = TRUE]
               b == [a EXCEPT !.pc = "read", !.known = dms, !.todo = dms \cup {Home}, !.cursor = cur]
    <3>1. /\ a \in PollerType /\ a.looked = TRUE /\ a.list = poller.list /\ a.reply = poller.reply
      BY <1>1 DEF PollerType
    <3>2. dms \subseteq Users /\ dms = Dms  BY <2>2
    <3>3. poller' = b  BY <1>1, <2>7 DEF PollerType
    <3> HIDE DEF a, dms
    <3>4. /\ b \in PollerType /\ b.pc = "read" /\ b.looked = a.looked /\ b.known = dms
          /\ b.todo = dms \cup {Home} /\ b.cursor = cur /\ b.list = a.list
          /\ b.reply = a.reply
      BY <2>5, <3>1, <3>2 DEF PollerType
    <3> QED BY <1>2, <3>1, <3>2, <3>3, <3>4
  <2>9. Polled'  BY <2>8 DEF Polled
  <2>10. \A i \in DOMAIN posts : posts[i].conv \in Dms \cup {Home}  BY DEF Dms
  <2>11. Once'
    <3> SUFFICES ASSUME ~hist.lost, NEW i \in DOMAIN posts, task[<<i, 1>>] # NoTask PROVE Behind(i)'
      BY <1>1, <1>3, <1>6 DEF Once
    <3>1. Behind(i)  BY <1>1 DEF Once
    <3>2. Home \notin Dms  BY DEF Dms
    <3>3. cur[posts[i].conv] = poller.cursor[posts[i].conv]
      BY <2>1, <2>6, <3>1, <3>2 DEF Behind
    <3> QED BY <1>3, <1>5, <2>8, <2>10, <3>1, <3>3 DEF Behind
  <2>12. Due'
    <3> SUFFICES ASSUME spent.faults = 0, NEW i \in hist.due
                 PROVE  i \in DOMAIN posts /\ (Waits(i)' => Ahead(i)')
      BY <1>1, <1>3, <1>6, <2>8 DEF Due
    <3>1. i \in DOMAIN posts /\ (Waits(i) => Ahead(i)) /\ poller.looked  BY <1>1 DEF Due
    <3>2. SUFFICES ASSUME Waits(i)' PROVE Ahead(i)'  BY <3>1
    <3>3. Waits(i)  BY <1>2, <1>3, <1>5, <3>1, <3>2 DEF Waits
    <3>4. Ahead(i)  BY <3>1, <3>3
    <3>5. 1 < posts[i].at  BY <1>1, <3>1 DEF Dated
    <3>6. cur[posts[i].conv] # 0 /\ cur[posts[i].conv] < posts[i].at
      BY <2>1, <2>6, <2>10, <3>1, <3>4, <3>5 DEF Ahead
    <3> QED BY <1>3, <2>8, <3>6 DEF Ahead
  <2>13. \A c \in Users \cup {Home} : poller'.cursor[c] <= clock  BY <1>1, <2>6, <2>8 DEF Dated
  <2> QED BY <1>1, <1>3, <1>6, <2>8, <2>9, <2>11, <2>12, <2>13, PollerKeeps
<1>7. CASE /\ Fault /\ hist' = [hist EXCEPT !.lost = TRUE]
           /\ poller' = [poller EXCEPT !.pc = "read", !.looked = TRUE, !.known = {}, !.todo = {}]
  <2> DEFINE a == [poller EXCEPT !.looked = TRUE]
             b == [a EXCEPT !.pc = "read", !.known = {}, !.todo = {}]
  <2>1. /\ a \in PollerType /\ a.list = poller.list /\ a.reply = poller.reply
        /\ a.cursor = poller.cursor
    BY <1>1 DEF PollerType
  <2>2. poller' = b  BY <1>1, <1>7 DEF PollerType
  <2> HIDE DEF a
  <2>3. /\ b \in PollerType /\ b.list = a.list /\ b.reply = a.reply /\ b.cursor = a.cursor
        /\ b.pc = "read" /\ b.todo = {}
    BY <2>1 DEF PollerType
  <2> HIDE DEF b
  <2>4. hist' \in HistType /\ hist'.unlinked = hist.unlinked /\ hist'.lost
    <3>1. hist' \in HistType /\ hist'.unlinked = hist.unlinked  BY <1>1, <1>7 DEF HistType
    <3>2. hist'.lost = TRUE  BY <1>1, <1>7 DEF HistType
    <3> QED BY <3>1, <3>2
  <2>5. spent'.faults # 0  BY <1>1, <1>7 DEF Fault, Spends, SpentType
  <2>6. Once' /\ Due'  BY <2>4, <2>5 DEF Once, Due
  <2>7. Polled'  BY <1>2, <2>1, <2>2, <2>3 DEF Polled
  <2> QED BY <1>1, <1>3, <1>7, <2>1, <2>2, <2>3, <2>4, <2>6, <2>7, PollerKeeps DEF Dated
<1>8. CASE Fault /\ Aborts("read") /\ UNCHANGED hist
  <2>1. spent'.faults # 0  BY <1>1, <1>8 DEF Fault, Spends, SpentType
  <2>2. poller' \in PollerType /\ Dated' /\ Polled' /\ Once' /\ Due'
    BY <1>3, <1>4, <1>8, <2>1, AbortKeeps
  <2> QED BY <1>1, <1>3, <1>8, <2>2, PollerKeeps DEF Dated
<1> QED BY <1>6, <1>7, <1>8 DEF Look

\* The poller settles once nothing is listed: it is at no conversation.
LEMMA SettledFacts ==
  ASSUME NEW p \in PollerType
  PROVE  LET q == Settled(p)
         IN /\ q \in PollerType /\ q.pc = p.pc /\ q.looked = p.looked /\ q.known = p.known
            /\ q.todo = p.todo /\ q.list = p.list /\ q.reply = p.reply /\ q.cursor = p.cursor
            /\ q.list # {} => q.conv = p.conv /\ q.from = p.from
<1>1. CASE p.list = {}
  <2> DEFINE q == [p EXCEPT !.conv = None, !.from = 0]
  <2>1. Settled(p) = q  BY <1>1 DEF Settled
  <2>2. q \in PollerType  BY DEF PollerType
  <2>3. /\ q.pc = p.pc /\ q.looked = p.looked /\ q.known = p.known
        /\ q.todo = p.todo /\ q.list = p.list /\ q.reply = p.reply /\ q.cursor = p.cursor
    BY DEF PollerType
  <2> HIDE DEF q
  <2> QED BY <1>1, <2>1, <2>2, <2>3
<1>2. CASE p.list # {}
  <2>1. Settled(p) = p  BY <1>2 DEF Settled
  <2> QED BY <2>1
<1> QED BY <1>1, <1>2

\* What the poller lists of a conversation is ahead of its cursor, and what it does not list
\* is not; where there is no cursor yet, it starts after all that is there.
LEMMA ReadKeeps ==
  ASSUME Inv, Read
  PROVE  Inv'
<1>1. /\ TypeOK /\ Dated /\ Polled /\ Once /\ Due /\ poller \in PollerType /\ hist \in HistType
      /\ spent \in SpentType /\ clock \in Nat
  BY DEF Inv, TypeOK
<1>2. poller.pc = "read" /\ poller.list = {} /\ poller.todo # {} /\ poller.reply = 0
  BY <1>1 DEF Read, Polled
<1>3. UNCHANGED <<posts, clock, mm, auth, file, links, hub, task, hist, spent>>
  BY DEF Read, outside, tokens
<1>5. \A i \in DOMAIN posts : /\ i \in Nat /\ i # 0 /\ posts[i].conv \in Users \cup {Home}
                              /\ posts[i].at \in Nat /\ posts[i].upd \in Nat
                              /\ posts[i].at <= posts[i].upd /\ posts[i].upd <= clock
  BY <1>1, PostFacts DEF PostType, Dated
<1> DEFINE c == First(poller.todo)
           here == {i \in DOMAIN posts : posts[i].conv = c}
           from == poller.cursor[c]
<1>6. c \in poller.todo /\ c \in Users \cup {Home} /\ c \in poller.known \cup {Home}
  <2>1. poller.todo \in SUBSET (Users \cup {Home})  BY <1>1 DEF PollerType
  <2>2. c \in poller.todo  BY <1>2, <2>1, FirstOf
  <2> QED BY <1>1, <2>1, <2>2 DEF Polled
<1>7. poller.cursor \in [Users \cup {Home} -> Nat] /\ from \in Nat  BY <1>1, <1>6 DEF PollerType
<1>8. CASE from = 0
  <2> DEFINE S == {posts[i].upd : i \in here} \cup {1}
             m == Max(S)
  <2>1. S \subseteq Nat /\ S # {} /\ \A j \in S : j <= clock  BY <1>1, <1>5 DEF Dated
  <2>2. m \in S /\ \A j \in S : j <= m  BY <1>1, <2>1, Greatest
  <2>3. m \in Nat /\ m <= clock /\ m # 0 /\ \A i \in DOMAIN posts : posts[i].conv = c => posts[i].upd <= m
    BY <1>5, <2>1, <2>2
  <2>4. poller' = [poller EXCEPT !.todo = @ \ {c}, !.cursor[c] = m]  BY <1>8 DEF Read
  <2> HIDE DEF m, c
  <2>5. /\ poller' \in PollerType /\ poller'.pc = "read" /\ poller'.looked = poller.looked
        /\ poller'.known = poller.known /\ poller'.todo \subseteq poller.todo
        /\ poller'.conv = poller.conv /\ poller'.from = poller.from /\ poller'.list = poller.list
        /\ poller'.reply = poller.reply
        /\ \A d \in Users \cup {Home} : poller'.cursor[d] = IF d = c THEN m ELSE poller.cursor[d]
    BY <1>1, <1>2, <1>6, <2>3, <2>4 DEF PollerType
  <2>6. Polled'  BY <1>1, <1>2, <2>5 DEF Polled
  <2>7. Once'
    <3> SUFFICES ASSUME ~hist.lost, NEW i \in DOMAIN posts, task[<<i, 1>>] # NoTask PROVE Behind(i)'
      BY <1>1, <1>3 DEF Once
    <3>1. Behind(i)  BY <1>1 DEF Once
    <3>2. posts[i].conv = c => posts[i].at <= m  BY <1>5, <2>3
    <3>3. poller'.cursor[posts[i].conv] # 0 => posts[i].at <= poller'.cursor[posts[i].conv]
      BY <1>5, <2>5, <3>1, <3>2 DEF Behind
    <3> QED BY <1>2, <1>3, <2>5, <3>1, <3>3 DEF Behind
  <2>8. Due'
    <3> SUFFICES ASSUME spent.faults = 0, NEW i \in hist.due
                 PROVE  i \in DOMAIN posts /\ (Waits(i)' => Ahead(i)')
      BY <1>1, <1>2, <1>3, <2>5 DEF Due
    <3>1. i \in DOMAIN posts /\ (Waits(i) => Ahead(i))  BY <1>1 DEF Due
    <3>2. SUFFICES ASSUME Waits(i)' PROVE Ahead(i)'  BY <3>1
    <3>3. Waits(i)  BY <1>2, <1>3, <2>5, <3>2 DEF Waits
    <3>4. Ahead(i)  BY <3>1, <3>3
    <3>5. posts[i].conv # c  BY <1>6, <1>8, <3>4 DEF Ahead
    <3>6. poller'.cursor[posts[i].conv] = poller.cursor[posts[i].conv]  BY <1>5, <2>5, <3>1, <3>5
    <3> QED BY <1>2, <1>3, <2>5, <3>4, <3>6 DEF Ahead
  <2>9. \A d \in Users \cup {Home} : poller'.cursor[d] <= clock  BY <1>1, <2>3, <2>5 DEF Dated
  <2> QED BY <1>1, <1>3, <2>5, <2>6, <2>7, <2>8, <2>9, PollerKeeps
<1>9. CASE from # 0
  <2> DEFINE list == {<<i, posts[i].upd>> : i \in {j \in here : posts[j].upd > from}}
             p == [poller EXCEPT !.todo = @ \ {c}, !.conv = c, !.from = from, !.list = list]
  <2>1. list \subseteq Nat \X Nat  BY <1>5
  <2>2. \A e \in list : /\ e[1] \in DOMAIN posts /\ posts[e[1]].conv = c /\ e[2] = posts[e[1]].upd
                        /\ e = <<e[1], posts[e[1]].upd>>
    OBVIOUS
  <2>3. \A i \in DOMAIN posts : posts[i].conv = c /\ posts[i].upd > from => \E e \in list : e[1] = i
    <3> SUFFICES ASSUME NEW i \in DOMAIN posts, posts[i].conv = c, posts[i].upd > from
                 PROVE  \E e \in list : e[1] = i
      OBVIOUS
    <3>1. <<i, posts[i].upd>> \in list  OBVIOUS
    <3> QED BY <3>1
  <2>4. poller' = Settled(p)  BY <1>9 DEF Read
  <2> HIDE DEF list, c, from
  <2>5. /\ p \in PollerType /\ p.pc = "read" /\ p.looked = poller.looked
        /\ p.known = poller.known /\ p.todo \subseteq poller.todo
        /\ p.conv = c /\ p.from = from /\ p.list = list /\ p.reply = poller.reply
        /\ p.cursor = poller.cursor
    BY <1>1, <1>2, <1>6, <1>7, <2>1 DEF PollerType
  <2> HIDE DEF p
  <2>6. /\ poller' \in PollerType /\ poller'.pc = "read" /\ poller'.looked = poller.looked
        /\ poller'.known = poller.known /\ poller'.todo \subseteq poller.todo
        /\ poller'.list = list /\ poller'.reply = 0 /\ poller'.cursor = poller.cursor
        /\ list # {} => poller'.conv = c /\ poller'.from = from
    BY <1>2, <2>4, <2>5, SettledFacts
  <2>7. Polled'
    <3>1. \A e \in list : posts[e[1]].at <= e[2] /\ e[2] <= clock  BY <1>5, <2>2
    <3>2. \A e, f \in list : e[1] = f[1] => e = f  BY <2>2
    <3>3. list # {} => poller'.cursor[poller'.conv] # 0  BY <1>9, <2>6 DEF from
    <3>4. poller'.todo \subseteq poller.known \cup {Home}  BY <1>1, <2>6 DEF Polled
    <3> QED BY <1>3, <1>6, <2>2, <2>6, <3>1, <3>2, <3>3, <3>4 DEF Polled
  <2>8. Once'
    <3> SUFFICES ASSUME ~hist.lost, NEW i \in DOMAIN posts, task[<<i, 1>>] # NoTask PROVE Behind(i)'
      BY <1>1, <1>3 DEF Once
    <3>1. Behind(i)  BY <1>1 DEF Once
    <3>2. ASSUME NEW e \in list, e[1] = i PROVE posts[i].at <= poller'.from
      BY <1>9, <2>2, <2>6, <3>1, <3>2 DEF Behind, from
    <3> QED BY <1>2, <1>3, <1>5, <2>6, <3>1, <3>2 DEF Behind
  <2>9. Due'
    <3> SUFFICES ASSUME spent.faults = 0, NEW i \in hist.due
                 PROVE  /\ i \in DOMAIN posts /\ (Waits(i)' => Ahead(i)')
                        /\ \A e \in list : e[1] = i /\ posts[i].at <= poller'.from => task[<<i, 1>>] # NoTask
      BY <1>1, <1>3, <2>6 DEF Due
    <3>1. i \in DOMAIN posts /\ (Waits(i) => Ahead(i))  BY <1>1 DEF Due
    <3>2. task[<<i, 1>>] = NoTask => Waits(i)  BY <1>2, <1>5, <3>1 DEF Waits
    <3>3. Waits(i)' => task[<<i, 1>>] = NoTask /\ \A e \in list : e[1] # i
      BY <1>3, <2>6 DEF Waits
    <3>4. task[<<i, 1>>] = NoTask /\ posts[i].conv = c => from < posts[i].at
      BY <1>9, <3>1, <3>2 DEF Ahead, from
    <3>5. ASSUME Waits(i)' PROVE Ahead(i)'
      <4>1. posts[i].conv # c
        <5>1. SUFFICES ASSUME posts[i].conv = c PROVE FALSE  OBVIOUS
        <5>2. from < posts[i].at  BY <3>3, <3>4, <3>5, <5>1
        <5>3. ~(posts[i].upd > from)  BY <2>3, <3>1, <3>3, <3>5, <5>1
        <5> QED BY <1>5, <1>7, <3>1, <5>2, <5>3 DEF from
      <4>2. poller'.conv = posts[i].conv => list = {}  BY <2>6, <4>1
      <4>3. Ahead(i)  BY <3>1, <3>2, <3>3, <3>5
      <4> QED BY <1>3, <2>6, <4>2, <4>3 DEF Ahead
    <3>6. ASSUME NEW e \in list, e[1] = i, posts[i].at <= poller'.from PROVE task[<<i, 1>>] # NoTask
      <4>1. posts[i].conv = c /\ poller'.from = from  BY <2>2, <2>6, <3>6
      <4> QED BY <1>5, <1>7, <3>1, <3>4, <3>6, <4>1 DEF from
    <3> QED BY <3>1, <3>5, <3>6
  <2>10. \A d \in Users \cup {Home} : poller'.cursor[d] <= clock  BY <1>1, <2>6 DEF Dated
  <2> QED BY <1>1, <1>3, <2>6, <2>7, <2>8, <2>9, <2>10, PollerKeeps
<1> QED BY <1>8, <1>9

\* ... one whose read fails,
LEMMA ReadFailsKeeps ==
  ASSUME Inv, ReadFails
  PROVE  Inv'
<1>1. /\ TypeOK /\ Dated /\ Polled /\ Once /\ poller \in PollerType /\ hist \in HistType
      /\ spent \in SpentType
  BY DEF Inv, TypeOK
<1>2. UNCHANGED <<posts, clock, mm, auth, file, links, hub, task, hist>> /\ Fault
  BY DEF ReadFails, Fails, outside, tokens
<1>3. spent'.faults # 0  BY <1>1, <1>2 DEF Fault, Spends, SpentType
<1>4. CASE poller' = [poller EXCEPT !.todo = @ \ {First(@)}]
  <2>1. /\ poller' \in PollerType /\ poller'.pc = poller.pc /\ poller'.looked = poller.looked
        /\ poller'.known = poller.known /\ poller'.todo \subseteq poller.todo
        /\ poller'.conv = poller.conv /\ poller'.from = poller.from /\ poller'.list = poller.list
        /\ poller'.reply = poller.reply /\ poller'.cursor = poller.cursor
    BY <1>1, <1>4 DEF PollerType
  <2>2. Polled'
    <3>1. poller'.todo \subseteq poller'.known \cup {Home}  BY <1>1, <2>1 DEF Polled
    <3>2. poller'.pc = "read"  BY <2>1 DEF ReadFails
    <3> QED BY <1>1, <1>2, <2>1, <3>1, <3>2 DEF Polled
  <2>3. Once'  BY <1>1, <1>2, <2>1 DEF Once, Behind
  <2>4. Due'  BY <1>3 DEF Due
  <2> QED BY <1>1, <1>2, <2>1, <2>2, <2>3, <2>4, PollerKeeps DEF Dated
<1>5. CASE Aborts("read")
  <2>1. Same  BY <1>2 DEF Same
  <2>2. poller' \in PollerType /\ Dated' /\ Polled' /\ Once' /\ Due'
    BY <1>2, <1>3, <1>5, <2>1, AbortKeeps
  <2> QED BY <1>1, <1>2, <2>2, PollerKeeps DEF Dated
<1> QED BY <1>4, <1>5 DEF ReadFails

\* The post that is taken: the first of those listed, and after it the cursor is no more
\* behind it.
LEMMA TakeFacts ==
  ASSUME Inv, Take
  PROVE  LET i == Min({e[1] : e \in poller.list})
             e == CHOOSE f \in poller.list : f[1] = i
             m == [poller EXCEPT !.list = @ \ {e}, !.cursor[poller.conv] = Max({@, e[2]})]
         IN /\ e \in poller.list /\ e[1] = i /\ i \in DOMAIN posts /\ posts[i].conv = poller.conv
            /\ m \in PollerType /\ m.pc = "read" /\ m.looked = poller.looked
            /\ m.known = poller.known /\ m.todo = poller.todo /\ m.conv = poller.conv
            /\ m.from = poller.from /\ m.list = poller.list \ {e} /\ m.reply = 0
            /\ \A d \in Users \cup {Home} : /\ d # poller.conv => m.cursor[d] = poller.cursor[d]
                                            /\ m.cursor[d] <= clock
            /\ m.cursor[poller.conv] \in {poller.cursor[poller.conv], e[2]}
            /\ m.cursor[poller.conv] # 0
            /\ poller.cursor[poller.conv] <= m.cursor[poller.conv]
            /\ posts[i].at <= m.cursor[poller.conv]
<1>1. /\ TypeOK /\ Dated /\ Polled /\ poller \in PollerType /\ clock \in Nat
  BY DEF Inv, TypeOK
<1>2. poller.pc = "read" /\ poller.list # {} /\ poller.reply = 0  BY <1>1 DEF Take, Polled
<1> DEFINE S == {e[1] : e \in poller.list}
           i == Min(S)
           e == CHOOSE f \in poller.list : f[1] = i
           c == poller.conv
           top == Max({poller.cursor[c], e[2]})
           m == [poller EXCEPT !.list = @ \ {e}, !.cursor[poller.conv] = Max({@, e[2]})]
<1>3. poller.list \subseteq Nat \X Nat /\ poller.cursor \in [Users \cup {Home} -> Nat]
      /\ poller.known \subseteq Users
  BY <1>1 DEF PollerType
<1>4. S \subseteq Nat /\ S # {}  BY <1>2, <1>3
<1>5. i \in S  BY <1>4, Least
<1>6. e \in poller.list /\ e[1] = i
  <2> HIDE DEF i
  <2>1. \E f \in poller.list : f[1] = i  BY <1>5
  <2> QED BY <2>1
<1> HIDE DEF e, i, S
<1>7. /\ i \in DOMAIN posts /\ posts[i].conv = c /\ posts[i].at <= e[2] /\ e[2] <= clock
      /\ c \in Users \cup {Home} /\ e[2] \in Nat /\ poller.cursor[c] # 0
  BY <1>1, <1>2, <1>3, <1>6 DEF Polled
<1>8. posts[i].at \in Nat /\ poller.cursor[c] \in Nat /\ poller.cursor[c] <= clock
  BY <1>1, <1>3, <1>7, PostFacts DEF PostType, Dated
<1>9. top \in Nat /\ poller.cursor[c] <= top /\ e[2] <= top /\ top \in {poller.cursor[c], e[2]}
  BY <1>7, <1>8, GreaterOf
<1> DEFINE list == poller.list \ {e}
           cursor == [poller.cursor EXCEPT ![c] = top]
           n == [poller EXCEPT !.list = list, !.cursor = cursor]
<1>10. m = n  BY <1>1 DEF PollerType
<1> HIDE DEF top, m
<1>16. list \in SUBSET (Nat \X Nat) /\ cursor \in [Users \cup {Home} -> Nat]  BY <1>3, <1>9
<1> HIDE DEF list, cursor
<1>17. n \in PollerType /\ n.list = list /\ n.cursor = cursor  BY <1>1, <1>16 DEF PollerType
<1>18. /\ n.pc = poller.pc /\ n.looked = poller.looked /\ n.known = poller.known
       /\ n.todo = poller.todo /\ n.conv = poller.conv /\ n.from = poller.from
       /\ n.reply = poller.reply
  BY <1>1 DEF PollerType
<1> HIDE DEF n
<1>11. /\ m \in PollerType /\ m.pc = "read" /\ m.looked = poller.looked
       /\ m.known = poller.known /\ m.todo = poller.todo /\ m.conv = poller.conv
       /\ m.from = poller.from /\ m.list = poller.list \ {e} /\ m.reply = 0
       /\ m.cursor = [poller.cursor EXCEPT ![c] = top]
  BY <1>2, <1>10, <1>17, <1>18 DEF list, cursor
<1>12. m.cursor[c] = top /\ \A d \in Users \cup {Home} : d # c => m.cursor[d] = poller.cursor[d]
  BY <1>3, <1>7, <1>11
<1>13. top <= clock /\ top # 0 /\ posts[i].at <= top  BY <1>1, <1>7, <1>8, <1>9
<1>14. \A d \in Users \cup {Home} : m.cursor[d] <= clock  BY <1>1, <1>12, <1>13 DEF Dated
<1>15. m.cursor[c] \in {poller.cursor[c], e[2]} /\ m.cursor[c] # 0 /\ poller.cursor[c] <= m.cursor[c]
       /\ posts[i].at <= m.cursor[c]
  BY <1>9, <1>12, <1>13
<1> QED BY <1>6, <1>7, <1>11, <1>12, <1>14, <1>15 DEF e, i, S, m

\* A post that is taken and is not new has its task already; a new one has none.
LEMMA TakeKeeps ==
  ASSUME Inv, Take
  PROVE  Inv'
<1>1. /\ TypeOK /\ Started /\ Dated /\ Polled /\ Once /\ Due /\ poller \in PollerType
      /\ hist \in HistType /\ clock \in Nat
  BY DEF Inv, TypeOK
<1>2. UNCHANGED <<posts, clock, mm, auth, file, links, hub, hist, spent>>
  BY DEF Take, outside, tokens
<1> DEFINE i == Min({f[1] : f \in poller.list})
           e == CHOOSE f \in poller.list : f[1] = i
           m == [poller EXCEPT !.list = @ \ {e}, !.cursor[poller.conv] = Max({@, e[2]})]
<1>3. /\ e \in poller.list /\ e[1] = i /\ i \in DOMAIN posts /\ posts[i].conv = poller.conv
      /\ m \in PollerType /\ m.pc = "read" /\ m.looked = poller.looked
      /\ m.known = poller.known /\ m.todo = poller.todo /\ m.conv = poller.conv
      /\ m.from = poller.from /\ m.list = poller.list \ {e} /\ m.reply = 0
      /\ \A d \in Users \cup {Home} : /\ d # poller.conv => m.cursor[d] = poller.cursor[d]
                                      /\ m.cursor[d] <= clock
      /\ m.cursor[poller.conv] \in {poller.cursor[poller.conv], e[2]}
      /\ m.cursor[poller.conv] # 0
      /\ poller.cursor[poller.conv] <= m.cursor[poller.conv]
      /\ posts[i].at <= m.cursor[poller.conv]
  BY TakeFacts
<1>4. \/ ~New(i, poller.from) /\ poller' = Settled(m) /\ UNCHANGED task
      \/ New(i, poller.from) /\ poller' = [m EXCEPT !.pc = "thread", !.reply = i] /\ UNCHANGED task
      \/ New(i, poller.from) /\ poller' = Settled(m) /\ Starts(i)
  BY DEF Take
<1> HIDE DEF m, e, i
<1>19. e \in poller.list /\ e[1] = i /\ i \in DOMAIN posts /\ posts[i].conv = poller.conv  BY <1>3
<1>20. /\ \A d \in Users \cup {Home} : d # poller.conv => m.cursor[d] = poller.cursor[d]
       /\ poller.cursor[poller.conv] <= m.cursor[poller.conv]
       /\ posts[i].at <= m.cursor[poller.conv]
  BY <1>3
<1>5. poller' \in PollerType /\ poller'.looked = poller.looked /\ poller'.known = poller.known
      /\ poller'.todo = poller.todo /\ poller'.list = poller.list \ {e} /\ poller'.cursor = m.cursor
      /\ (poller'.list # {} => poller'.conv = poller.conv /\ poller'.from = poller.from)
      /\ \/ poller' = Settled(m) /\ poller'.pc = "read" /\ poller'.reply = 0
         \/ New(i, poller.from) /\ poller'.pc = "thread" /\ poller'.reply = i
            /\ poller'.conv = poller.conv /\ UNCHANGED task
  <2>1. CASE poller' = Settled(m)  BY <1>3, <2>1, SettledFacts
  <2>2. CASE New(i, poller.from) /\ poller' = [m EXCEPT !.pc = "thread", !.reply = i] /\ UNCHANGED task
    <3> DEFINE p == [m EXCEPT !.pc = "thread", !.reply = i]
    <3>1. i \in Nat  BY <1>1, <1>3, PostFacts
    <3>2. /\ p \in PollerType /\ p.pc = "thread" /\ p.reply = i
      BY <1>3, <3>1 DEF PollerType
    <3>3. /\ p.looked = m.looked /\ p.known = m.known /\ p.todo = m.todo /\ p.list = m.list
          /\ p.cursor = m.cursor /\ p.conv = m.conv /\ p.from = m.from
      BY <1>3 DEF PollerType
    <3>4. poller' = p  BY <2>2
    <3> HIDE DEF p
    <3> QED BY <1>3, <2>2, <3>2, <3>3, <3>4
  <2> QED BY <1>4, <2>1, <2>2
<1>6. \A f \in poller'.list : f \in poller.list /\ f[1] # i  BY <1>1, <1>3, <1>5 DEF Polled
<1>7. poller.pc = "read" /\ poller.reply = 0 /\ poller.list # {} /\ poller.conv \in poller.known \cup {Home}
  BY <1>1 DEF Take, Polled
<1>8. \A j \in DOMAIN posts : j \in Nat /\ j # 0 /\ posts[j].at \in Nat /\ <<j, 1>> \in Tasks
                              /\ <<j, 2>> \in Tasks /\ posts[j].conv \in Users \cup {Home}
  BY <1>1, PostFacts DEF PostType
<1>9. \A d \in Users \cup {Home} : poller.cursor[d] \in Nat /\ m.cursor[d] \in Nat
  BY <1>1, <1>3 DEF PollerType
<1>10. Polled'
  <2>1. /\ \A f \in poller'.list : /\ f[1] \in DOMAIN posts /\ posts[f[1]].conv = poller.conv
                                   /\ posts[f[1]].at <= f[2] /\ f[2] <= clock
        /\ \A f, g \in poller'.list : f[1] = g[1] => f = g
    BY <1>1, <1>6 DEF Polled
  <2>2. poller'.pc \in {"read", "thread"} /\ (poller'.pc # "thread" => poller'.reply = 0)  BY <1>5
  <2>3. poller'.pc = "thread" => poller'.conv = poller.conv /\ poller'.reply = i  BY <1>5
  <2>4. poller'.todo \subseteq poller'.known \cup {Home}  BY <1>1, <1>5 DEF Polled
  <2> QED BY <1>2, <1>3, <1>5, <1>6, <1>7, <2>1, <2>2, <2>3, <2>4 DEF Polled
\* The cursors only go on, and past no post that waits.
<1>11. \A j \in DOMAIN posts : poller.cursor[posts[j].conv] # 0 /\ posts[j].at <= poller.cursor[posts[j].conv]
                                 => posts[j].at <= m.cursor[posts[j].conv]
  <2> SUFFICES ASSUME NEW j \in DOMAIN posts, posts[j].at <= poller.cursor[posts[j].conv]
               PROVE  posts[j].at <= m.cursor[posts[j].conv]
    OBVIOUS
  <2>1. posts[j].at \in Nat /\ posts[j].conv \in Users \cup {Home}  BY <1>8
  <2>2. poller.cursor[posts[j].conv] \in Nat /\ m.cursor[posts[j].conv] \in Nat  BY <1>9, <2>1
  <2>3. poller.cursor[posts[j].conv] <= m.cursor[posts[j].conv]  BY <1>20, <2>1, <2>2
  <2> QED BY <2>1, <2>2, <2>3
<1>12. ASSUME ~hist.lost, NEW j \in DOMAIN posts, task[<<j, 1>>] # NoTask
       PROVE  Behind(j) /\ (New(i, poller.from) => j # i)
  <2>1. Behind(j)  BY <1>1, <1>12 DEF Once
  <2>2. ASSUME New(i, poller.from), j = i PROVE FALSE
    <3>1. posts[i].at <= poller.from  BY <1>19, <2>1, <2>2 DEF Behind
    <3>2. posts[i].at > poller.from  BY <2>2 DEF New
    <3>3. posts[i].at \in Nat /\ poller.from \in Nat  BY <1>1, <1>8, <1>19 DEF PollerType
    <3> QED BY <3>1, <3>2, <3>3
  <2> QED BY <2>1, <2>2
<1>13. ASSUME ~hist.lost, NEW j \in DOMAIN posts, task[<<j, 1>>] # NoTask PROVE Behind(j)'
  <2>1. Behind(j) /\ (New(i, poller.from) => j # i)  BY <1>12, <1>13
  <2>2. poller'.cursor[posts[j].conv] # 0 => posts[j].at <= poller'.cursor[posts[j].conv]
    <3>1. CASE posts[j].conv = poller.conv
      <4>1. poller.cursor[poller.conv] # 0  BY <1>1, <1>7 DEF Polled
      <4> QED BY <1>5, <1>11, <2>1, <3>1, <4>1 DEF Behind
    <3>2. CASE posts[j].conv # poller.conv
      <4>1. poller'.cursor[posts[j].conv] = poller.cursor[posts[j].conv]  BY <1>5, <1>8, <1>20, <3>2
      <4> QED BY <2>1, <4>1 DEF Behind
    <3> QED BY <3>1, <3>2
  <2>3. poller'.reply # j  BY <1>5, <1>8, <2>1
  <2>4. \A f \in poller'.list : f[1] = j => posts[j].at <= poller'.from
    BY <1>5, <1>6, <2>1 DEF Behind
  <2> QED BY <1>2, <1>5, <2>1, <2>2, <2>3, <2>4 DEF Behind
<1>14. Once'
  <2> SUFFICES ASSUME ~hist.lost, NEW j \in DOMAIN posts
               PROVE  task'[<<j, 2>>] = NoTask /\ (task'[<<j, 1>>] # NoTask => Behind(j)')
    BY <1>2 DEF Once
  <2>1. task[<<j, 2>>] = NoTask  BY <1>1 DEF Once
  <2>2. CASE UNCHANGED task  BY <1>13, <2>1, <2>2
  <2>3. CASE New(i, poller.from) /\ poller' = Settled(m) /\ Starts(i)
    <3>1. task[<<i, 1>>] = NoTask  BY <1>3, <1>12, <2>3
    <3>2. /\ task'[<<i, 2>>] = task[<<i, 2>>] /\ \A t \in Tasks : t[1] # i => task'[t] = task[t]
      BY <1>1, <1>2, <1>3, <2>3, <3>1, StartsFacts
    <3>3. CASE j # i
      <4>1. <<j, 1>>[1] = j /\ <<j, 2>>[1] = j  OBVIOUS
      <4>2. task'[<<j, 1>>] = task[<<j, 1>>] /\ task'[<<j, 2>>] = task[<<j, 2>>]
        BY <1>8, <3>2, <3>3, <4>1
      <4> QED BY <1>13, <2>1, <4>2
    <3>4. CASE j = i
      <4>1. poller'.reply = 0  BY <1>3, <2>3, SettledFacts
      <4>2. posts[i].at <= poller'.cursor[posts[i].conv] /\ posts[i].conv \in poller'.known \cup {Home}
        BY <1>5, <1>7, <1>19, <1>20
      <4>3. i # 0 /\ \A f \in poller'.list : f[1] # i  BY <1>6, <1>8, <1>19
      <4>4. Behind(j)'  BY <1>2, <3>4, <4>1, <4>2, <4>3 DEF Behind
      <4> QED BY <2>1, <3>2, <3>4, <4>4
    <3> QED BY <3>3, <3>4
  <2> QED BY <1>4, <2>2, <2>3
<1>15. \A t \in Tasks : task'[t] = NoTask => task[t] = NoTask
  <2>1. CASE UNCHANGED task  BY <2>1
  <2>2. CASE Starts(i)
    <3>1. \A t \in Tasks : task'[t] = task[t] \/ task'[t] # NoTask
      BY <1>1, <1>2, <1>3, <2>2, StartsFacts
    <3> QED BY <3>1
  <2> QED BY <1>4, <2>1, <2>2
<1>16. Due'
  <2> SUFFICES ASSUME spent.faults = 0, NEW j \in hist.due
               PROVE  /\ j \in DOMAIN posts /\ (Waits(j)' => Ahead(j)')
                      /\ \A f \in poller'.list : f[1] = j /\ posts[j].at <= poller'.from
                                                   => task'[<<j, 1>>] # NoTask
    BY <1>1, <1>2, <1>5 DEF Due
  <2>1. /\ j \in DOMAIN posts /\ (Waits(j) => Ahead(j))
        /\ \A f \in poller.list : f[1] = j /\ posts[j].at <= poller.from => task[<<j, 1>>] # NoTask
    BY <1>1 DEF Due
  <2>2. ASSUME NEW f \in poller'.list, f[1] = j, posts[j].at <= poller'.from
        PROVE  task'[<<j, 1>>] # NoTask
    <3>1. f \in poller.list /\ poller'.from = poller.from  BY <1>5, <1>6, <2>2
    <3> QED BY <1>8, <1>15, <2>1, <2>2, <3>1
  <2>3. ASSUME Waits(j)' PROVE Ahead(j)'
    <3>1. task'[<<j, 1>>] = NoTask /\ poller'.reply # j /\ \A f \in poller'.list : f[1] # j
      BY <2>3 DEF Waits
    <3>2. task[<<j, 1>>] = NoTask  BY <1>8, <1>15, <2>1, <3>1
    <3>3. j # i
      <4>1. SUFFICES ASSUME j = i PROVE FALSE  OBVIOUS
      <4>2. CASE ~New(i, poller.from)
        <5>1. ~(posts[i].at > poller.from) /\ poller.from \in Nat
          BY <1>1, <4>2 DEF New, PollerType
        <5>2. posts[i].at \in Nat  BY <1>8, <1>19
        <5>3. posts[i].at <= poller.from  BY <5>1, <5>2
        <5> QED BY <1>19, <2>1, <3>2, <4>1, <5>3
      <4>3. CASE Starts(i)
        <5>1. task'[<<i, 1>>] # NoTask  BY <1>1, <1>2, <1>3, <4>3, StartsFacts
        <5> QED BY <3>1, <4>1, <5>1
      <4>4. CASE poller' = [m EXCEPT !.pc = "thread", !.reply = i]
        <5>1. poller'.reply = i  BY <1>3, <4>4 DEF PollerType
        <5> QED BY <3>1, <4>1, <5>1
      <4> QED BY <1>4, <4>2, <4>3, <4>4
    <3>4. Waits(j)  BY <1>3, <1>5, <1>7, <1>8, <2>1, <3>1, <3>2, <3>3 DEF Waits
    <3>5. Ahead(j)  BY <2>1, <3>4
    <3>6. IF poller'.cursor[posts[j].conv] = 0 THEN posts[j].conv \notin poller'.known \cup {Home}
          ELSE poller'.cursor[posts[j].conv] < posts[j].at
      <4>1. CASE posts[j].conv = poller.conv
        <5>1. poller.cursor[poller.conv] # 0  BY <1>1, <1>7 DEF Polled
        <5>2. poller.cursor[poller.conv] < posts[j].at /\ e[2] < posts[j].at
          BY <1>3, <3>5, <4>1, <5>1 DEF Ahead
        <5> QED BY <1>3, <1>5, <4>1, <5>2
      <4>2. CASE posts[j].conv # poller.conv
        <5>1. poller'.cursor[posts[j].conv] = poller.cursor[posts[j].conv]
          BY <1>3, <1>5, <1>8, <2>1, <4>2
        <5> QED BY <1>5, <3>5, <5>1 DEF Ahead
      <4> QED BY <4>1, <4>2
    <3>7. poller'.conv = posts[j].conv => \A f \in poller'.list : f[2] < posts[j].at
      BY <1>5, <1>6, <3>5 DEF Ahead
    <3> QED BY <1>2, <3>6, <3>7 DEF Ahead
  <2> QED BY <2>1, <2>2, <2>3
<1>17. \A d \in Users \cup {Home} : poller'.cursor[d] <= clock  BY <1>3, <1>5
<1>18. UNCHANGED task \/ \E j \in DOMAIN posts : Starts(j)  BY <1>3, <1>4
<1> QED BY <1>1, <1>2, <1>5, <1>10, <1>14, <1>16, <1>17, <1>18, PollerKeeps

\* The thread of a reply is read: the reply gets its task, or the poll ends.
LEMMA ThreadKeeps ==
  ASSUME Inv, Thread
  PROVE  Inv'
<1>1. /\ TypeOK /\ Started /\ Dated /\ Polled /\ Once /\ Due /\ poller \in PollerType
      /\ hist \in HistType /\ spent \in SpentType /\ clock \in Nat
  BY DEF Inv, TypeOK
<1>2. UNCHANGED <<posts, clock, mm, auth, file, links, hub, hist>>  BY DEF Thread, outside, tokens
<1> DEFINE i == poller.reply
           m == [poller EXCEPT !.pc = "read", !.reply = 0]
<1>3. /\ i \in DOMAIN posts /\ posts[i].conv = poller.conv /\ posts[i].at <= poller.cursor[poller.conv]
      /\ (\A e \in poller.list : e[1] # i) /\ poller.conv \in poller.known \cup {Home}
  BY <1>1 DEF Thread, Polled
<1>4. CASE UNCHANGED spent /\ Starts(i) /\ poller' = Settled(m)
  <2>1. m \in PollerType /\ m.pc = "read" /\ m.reply = 0  BY <1>1 DEF PollerType
  <2>2. /\ m.looked = poller.looked /\ m.known = poller.known /\ m.todo = poller.todo
        /\ m.conv = poller.conv /\ m.from = poller.from /\ m.list = poller.list
        /\ m.cursor = poller.cursor
    BY <1>1 DEF PollerType
  <2> HIDE DEF m
  <2>3. /\ poller' \in PollerType /\ poller'.pc = "read" /\ poller'.reply = 0
        /\ poller'.looked = poller.looked /\ poller'.known = poller.known
        /\ poller'.todo = poller.todo /\ poller'.list = poller.list
        /\ poller'.cursor = poller.cursor
        /\ poller'.list # {} => poller'.conv = poller.conv /\ poller'.from = poller.from
    BY <1>4, <2>1, <2>2, SettledFacts
  <2>4. /\ \A t \in Tasks : task'[t] = task[t] \/ task'[t] # NoTask
        /\ \A t \in Tasks : t[1] # i => task'[t] = task[t]
        /\ task'[<<i, 1>>] # NoTask
        /\ task[<<i, 1>>] = NoTask => task'[<<i, 2>>] = task[<<i, 2>>]
    BY <1>1, <1>2, <1>3, <1>4, StartsFacts
  <2>5. \A j \in DOMAIN posts : j # 0 /\ <<j, 1>> \in Tasks /\ <<j, 2>> \in Tasks  BY <1>1, PostFacts
  <2>6. Polled'  BY <1>1, <1>2, <2>3 DEF Polled
  <2>7. Once'
    <3> SUFFICES ASSUME ~hist.lost, NEW j \in DOMAIN posts
                 PROVE  task'[<<j, 2>>] = NoTask /\ (task'[<<j, 1>>] # NoTask => Behind(j)')
      BY <1>2 DEF Once
    <3>1. task[<<j, 2>>] = NoTask /\ (task[<<j, 1>>] # NoTask => Behind(j))  BY <1>1 DEF Once
    <3>2. CASE j = i
      <4>1. task[<<j, 1>>] = NoTask  BY <3>1, <3>2 DEF Behind
      <4>2. task'[<<j, 2>>] = NoTask  BY <2>4, <3>1, <3>2, <4>1
      <4>3. \A e \in poller'.list : e[1] # j  BY <1>3, <2>3, <3>2
      <4>4. /\ posts[j].at <= poller'.cursor[posts[j].conv]
            /\ posts[j].conv \in poller'.known \cup {Home}
        BY <1>3, <2>3, <3>2
      <4>5. Behind(j)'  BY <1>2, <2>3, <2>5, <4>3, <4>4 DEF Behind
      <4> QED BY <4>2, <4>5
    <3>3. CASE j # i
      <4>1. <<j, 1>>[1] = j /\ <<j, 2>>[1] = j  OBVIOUS
      <4>2. task'[<<j, 1>>] = task[<<j, 1>>] /\ task'[<<j, 2>>] = task[<<j, 2>>]
        BY <2>4, <2>5, <3>3, <4>1
      <4>3. Behind(j) => Behind(j)'  BY <1>2, <2>3, <2>5 DEF Behind
      <4> QED BY <3>1, <4>2, <4>3
    <3> QED BY <3>2, <3>3
  <2>8. Due'
    <3> SUFFICES ASSUME spent.faults = 0, NEW j \in hist.due
                 PROVE  /\ j \in DOMAIN posts /\ (Waits(j)' => Ahead(j)')
                        /\ \A f \in poller'.list : f[1] = j /\ posts[j].at <= poller'.from
                                                     => task'[<<j, 1>>] # NoTask
      BY <1>1, <1>2, <1>4, <2>3 DEF Due
    <3>1. /\ j \in DOMAIN posts /\ (Waits(j) => Ahead(j))
          /\ \A f \in poller.list : f[1] = j /\ posts[j].at <= poller.from => task[<<j, 1>>] # NoTask
      BY <1>1 DEF Due
    <3>2. ASSUME NEW f \in poller'.list, f[1] = j, posts[j].at <= poller'.from
          PROVE  task'[<<j, 1>>] # NoTask
      BY <2>3, <2>4, <2>5, <3>1, <3>2
    <3>3. ASSUME Waits(j)' PROVE Ahead(j)'
      <4>1. task'[<<j, 1>>] = NoTask /\ \A f \in poller'.list : f[1] # j  BY <3>3 DEF Waits
      <4>2. j # i /\ task[<<j, 1>>] = NoTask  BY <2>4, <2>5, <3>1, <4>1
      <4>3. Waits(j)  BY <2>3, <4>1, <4>2 DEF Waits
      <4>4. Ahead(j)  BY <3>1, <4>3
      <4> QED BY <1>2, <2>3, <4>4 DEF Ahead
    <3> QED BY <3>1, <3>2, <3>3
  <2> QED BY <1>1, <1>2, <1>3, <1>4, <2>3, <2>6, <2>7, <2>8, PollerKeeps DEF Dated
<1>5. CASE Fault /\ UNCHANGED task /\ Aborts("read")
  <2>1. spent'.faults # 0  BY <1>1, <1>5 DEF Fault, Spends, SpentType
  <2>2. Same  BY <1>5 DEF Same
  <2>3. poller' \in PollerType /\ Dated' /\ Polled' /\ Once' /\ Due'
    BY <1>2, <1>5, <2>1, <2>2, AbortKeeps
  <2> QED BY <1>1, <1>2, <1>5, <2>3, PollerKeeps DEF Dated
<1> QED BY <1>4, <1>5 DEF Thread, Fails

\* ... and so each step of the poller.
LEMMA PollStepKeeps ==
  ASSUME Inv, PollStep
  PROVE  Inv'
BY PausesKeep, LookKeeps, ReadKeeps, ReadFailsKeeps, TakeKeeps, ThreadKeeps DEF PollStep

-----------------------------------------------------------------------------
(* What people write, and a restart. *)

\* Posts that stay, with their author, conversation and creation, and later ones.
LEMMA PostsGrow ==
  ASSUME Inv, UNCHANGED <<mm, auth, file, links, hub, poller, task>>,
         posts' \in Seq(PostType), Len(posts') <= MaxPosts, DOMAIN posts \subseteq DOMAIN posts',
         \A i \in DOMAIN posts : /\ posts'[i].user = posts[i].user /\ posts'[i].conv = posts[i].conv
                                 /\ posts'[i].kind = posts[i].kind /\ posts'[i].code = posts[i].code
                                 /\ posts'[i].at = posts[i].at,
         clock' = clock + 1, hist' \in HistType, hist'.unlinked = hist.unlinked,
         hist'.lost = hist.lost, spent' \in SpentType, spent'.logins = spent.logins,
         spent'.faults = spent.faults
  PROVE  /\ TypeOK' /\ Started' /\ Lasting' /\ Asking' /\ Telling' /\ Linked' /\ Polled' /\ Once'
         /\ \A i \in DOMAIN posts : (Waits(i)' <=> Waits(i)) /\ (Ahead(i)' <=> Ahead(i))
<1>0. /\ TypeOK /\ Started /\ Lasting /\ Asking /\ Numbered /\ Linked /\ Telling
      /\ Dated /\ Polled /\ Once /\ clock \in Nat
  BY DEF Inv, TypeOK
<1>1. TypeOK'  BY <1>0 DEF TypeOK
<1>2. Started' /\ Lasting' /\ Asking' /\ Telling'
  BY <1>0 DEF Started, Lasting, Asking, Telling
<1>3. \A s \in Tasks : task[s].pc # "none" => Who(s)' = Who(s)
  <2> SUFFICES ASSUME NEW s \in Tasks, task[s].pc # "none" PROVE Who(s)' = Who(s)  OBVIOUS
  <2>1. s[1] \in DOMAIN posts  BY <1>0, TaskFacts
  <2> QED BY <2>1 DEF Who
<1>4. Linked'
  <2>1. \A u \in hist.unlinked : ~Confirming(u)'  BY <1>0, <1>3 DEF Linked, Confirming
  <2> QED BY <1>0, <1>3, <2>1 DEF Linked
<1>5. Polled'
  <2>1. \A e \in poller.list : e[2] \in Nat  BY <1>0 DEF TypeOK, PollerType
  <2>2. \A e \in poller.list : e[2] <= clock'  BY <1>0, <2>1 DEF Polled
  <2> QED BY <1>0, <2>2 DEF Polled
<1>6. ASSUME NEW i \in DOMAIN posts
      PROVE  (Behind(i)' <=> Behind(i)) /\ (Waits(i)' <=> Waits(i)) /\ (Ahead(i)' <=> Ahead(i))
  BY <1>6 DEF Behind, Waits, Ahead
<1>7. Once'
  <2> SUFFICES ASSUME ~hist.lost, NEW i \in DOMAIN posts'
               PROVE  task[<<i, 2>>] = NoTask /\ (task[<<i, 1>>] # NoTask => Behind(i)')
    BY DEF Once
  <2>1. CASE i \in DOMAIN posts  BY <1>0, <1>6, <2>1 DEF Once
  <2>2. CASE i \notin DOMAIN posts
    <3>1. <<i, 1>> \in Tasks /\ <<i, 2>> \in Tasks
      <4>1. DOMAIN posts' = 1..Len(posts') /\ Len(posts') \in Nat  OBVIOUS
      <4>2. MaxPosts \in Nat  BY BoundsAssumption
      <4> QED BY <4>1, <4>2 DEF Tasks
    <3>2. <<i, 1>>[1] = i /\ <<i, 2>>[1] = i  OBVIOUS
    <3> QED BY <1>0, <2>2, <3>1, <3>2 DEF Started
  <2> QED BY <2>1, <2>2
<1> QED BY <1>1, <1>2, <1>4, <1>5, <1>6, <1>7

\* A post a user writes keeps the invariant,
LEMMA WriteKeeps ==
  ASSUME Inv, NEW w \in Writes, Write(w)
  PROVE  Inv'
<1>1. /\ TypeOK /\ Numbered /\ Dated /\ Polled /\ Due /\ posts \in Seq(PostType) /\ clock \in Nat
      /\ hist \in HistType /\ spent \in SpentType /\ hub \in HubType /\ poller \in PollerType
  BY DEF Inv, TypeOK
<1>2. UNCHANGED <<mm, auth, file, links, hub, poller, task, spent>>  BY DEF Write, tokens
<1>3. /\ w.user \in Users /\ w.conv \in Users \cup {Home}
      /\ w.kind \in {"ask", "reply", "link", "unlink", "code"}
  BY WritesAssumption
<1>4. PICK n \in IF w.kind # "code" THEN {0}
                 ELSE {0} \cup {s[2] : s \in {q \in hub.seen : q[1] = HubOf[w.user]}} :
        posts' = Append(posts, [user |-> w.user, conv |-> w.conv, kind |-> w.kind,
                                code |-> n, at |-> clock + 1, upd |-> clock + 1])
  BY DEF Write
<1>5. n \in Nat /\ (w.kind = "code" /\ n # 0 => <<HubOf[w.user], n>> \in hub.seen)
  <2>1. hub.seen \subseteq Hubs \X Nat  BY <1>1 DEF HubType
  <2>2. CASE w.kind # "code"  BY <1>4, <2>2
  <2>3. CASE w.kind = "code" /\ n # 0
    <3>1. PICK s \in hub.seen : s[1] = HubOf[w.user] /\ n = s[2]  BY <1>4, <2>3
    <3>2. s = <<s[1], s[2]>> /\ s[2] \in Nat  BY <2>1, <3>1
    <3> QED BY <3>1, <3>2
  <2>4. CASE w.kind = "code" /\ n = 0  BY <2>4
  <2> QED BY <2>2, <2>3, <2>4
<1> DEFINE p == [user |-> w.user, conv |-> w.conv, kind |-> w.kind,
                 code |-> n, at |-> clock + 1, upd |-> clock + 1]
           k == Len(posts) + 1
<1>6. /\ p \in PostType /\ p.user = w.user /\ p.conv = w.conv /\ p.kind = w.kind /\ p.code = n
      /\ p.at = clock + 1 /\ p.upd = clock + 1
  BY <1>1, <1>3, <1>5 DEF PostType
<1>7. posts' = Append(posts, p) /\ clock' = clock + 1 /\ Len(posts) < MaxPosts
  BY <1>4 DEF Write
<1> HIDE DEF p
<1>8. /\ posts' \in Seq(PostType) /\ Len(posts') = k /\ posts'[k] = p /\ k \in Nat
      /\ \A i \in DOMAIN posts : posts'[i] = posts[i]
      /\ DOMAIN posts = 1..Len(posts) /\ DOMAIN posts' = 1..k
  BY <1>1, <1>6, <1>7
<1>9. Len(posts') <= MaxPosts /\ Len(posts) \in Nat
  <2>1. MaxPosts \in Nat /\ Len(posts) \in Nat  BY <1>1, BoundsAssumption
  <2> QED BY <1>7, <1>8, <2>1
<1>10. DOMAIN posts \subseteq DOMAIN posts' /\ k \notin DOMAIN posts
       /\ \A i \in DOMAIN posts' : i \in DOMAIN posts \/ i = k
  BY <1>8, <1>9
<1> HIDE DEF k
<1> DEFINE due == poller.looked /\ (poller.cursor[w.conv] # 0 \/ w.conv \notin poller.known \cup {Home})
<1>11. hist' = IF due THEN [hist EXCEPT !.due = @ \cup {k}] ELSE hist  BY DEF Write, k
<1>12. /\ hist' \in HistType /\ hist'.unlinked = hist.unlinked /\ hist'.lost = hist.lost
       /\ \A i \in hist'.due : i \in hist.due \/ (i = k /\ due)
  <2>1. CASE due
    <3>1. hist' = [hist EXCEPT !.due = @ \cup {k}]  BY <1>11, <2>1
    <3> HIDE DEF due
    <3>2. hist' \in HistType /\ hist'.due = hist.due \cup {k}  BY <1>1, <1>8, <3>1 DEF HistType
    <3>3. hist'.unlinked = hist.unlinked /\ hist'.lost = hist.lost  BY <1>1, <3>1 DEF HistType
    <3> QED BY <2>1, <3>2, <3>3
  <2>2. CASE ~due
    <3>1. hist' = hist  BY <1>11, <2>2
    <3> QED BY <1>1, <3>1
  <2> QED BY <2>1, <2>2
<1>13. /\ TypeOK' /\ Started' /\ Lasting' /\ Asking' /\ Telling' /\ Linked' /\ Polled' /\ Once'
       /\ \A i \in DOMAIN posts : (Waits(i)' <=> Waits(i)) /\ (Ahead(i)' <=> Ahead(i))
  BY <1>1, <1>2, <1>7, <1>8, <1>9, <1>10, <1>12, PostsGrow
<1>14. Numbered'
  <2>1. ASSUME NEW i \in DOMAIN posts', posts'[i].kind = "code", posts'[i].code # 0
        PROVE  <<HubOf[posts'[i].user], posts'[i].code>> \in hub.seen
    <3>1. CASE i \in DOMAIN posts  BY <1>1, <1>8, <2>1, <3>1 DEF Numbered
    <3>2. CASE i = k  BY <1>5, <1>6, <1>8, <2>1, <3>2
    <3> QED BY <1>10, <3>1, <3>2
  <2> QED BY <1>1, <1>2, <2>1 DEF Numbered
<1>15. Dated'
  <2>1. ASSUME NEW i \in DOMAIN posts'
        PROVE  1 < posts'[i].at /\ posts'[i].at <= posts'[i].upd /\ posts'[i].upd <= clock'
    <3>1. CASE i \in DOMAIN posts
      <4>1. posts[i].at \in Nat /\ posts[i].upd \in Nat  BY <1>1, <3>1, PostFacts DEF PostType
      <4> QED BY <1>1, <1>7, <1>8, <3>1, <4>1 DEF Dated
    <3>2. CASE i = k  BY <1>1, <1>6, <1>7, <1>8, <3>2 DEF Dated
    <3> QED BY <1>10, <3>1, <3>2
  <2>2. ASSUME NEW c \in Users \cup {Home} PROVE poller.cursor[c] <= clock'
    <3>1. poller.cursor[c] \in Nat /\ poller.cursor[c] <= clock  BY <1>1 DEF PollerType, Dated
    <3> QED BY <1>1, <1>7, <3>1
  <2> QED BY <1>1, <1>2, <1>7, <2>1, <2>2 DEF Dated
<1>16. Due'
  <2> SUFFICES ASSUME spent.faults = 0
               PROVE  /\ ~hist'.lost /\ (hist'.due # {} => poller.looked)
                      /\ \A i \in hist'.due :
                           /\ i \in DOMAIN posts' /\ (Waits(i)' => Ahead(i)')
                           /\ \A e \in poller.list : e[1] = i /\ posts'[i].at <= poller.from
                                                       => task[<<i, 1>>] # NoTask
    BY <1>2 DEF Due
  <2>1. ~hist'.lost /\ (hist'.due # {} => poller.looked)  BY <1>1, <1>12 DEF Due
  <2>2. ASSUME NEW i \in hist'.due
        PROVE  /\ i \in DOMAIN posts' /\ (Waits(i)' => Ahead(i)')
               /\ \A e \in poller.list : e[1] = i /\ posts'[i].at <= poller.from
                                           => task[<<i, 1>>] # NoTask
    <3>1. CASE i \in hist.due
      <4>1. /\ i \in DOMAIN posts /\ (Waits(i) => Ahead(i))
            /\ \A e \in poller.list : e[1] = i /\ posts[i].at <= poller.from => task[<<i, 1>>] # NoTask
        BY <1>1, <3>1 DEF Due
      <4> QED BY <1>8, <1>10, <1>13, <4>1
    <3>2. CASE i = k /\ due
      <4>1. \A e \in poller.list : e[1] # k  BY <1>1, <1>10 DEF Polled
      <4>2. posts'[k].conv = w.conv /\ posts'[k].at = clock + 1  BY <1>6, <1>8
      <4>3. poller.cursor[w.conv] \in Nat /\ poller.cursor[w.conv] <= clock
        BY <1>1, <1>3 DEF PollerType, Dated
      <4>4. \A e \in poller.list : e[2] \in Nat /\ e[2] <= clock  BY <1>1 DEF PollerType, Polled
      <4>5. \A e \in poller.list : e[2] < posts'[k].at  BY <1>1, <4>2, <4>4
      <4>6. poller.cursor[w.conv] < posts'[k].at  BY <1>1, <4>2, <4>3
      <4>7. poller.cursor[w.conv] = 0 => w.conv \notin poller.known \cup {Home}  BY <3>2
      <4> HIDE DEF due
      <4>8. Ahead(i)'  BY <1>2, <3>2, <4>2, <4>5, <4>6, <4>7 DEF Ahead
      <4>9. k \in DOMAIN posts'  BY <1>8, <1>9 DEF k
      <4> QED BY <3>2, <4>1, <4>8, <4>9
    <3> QED BY <1>12, <3>1, <3>2
  <2> QED BY <2>1, <2>2
<1> QED BY <1>13, <1>14, <1>15, <1>16 DEF Inv

\* ... and so does an edit of one.
LEMMA EditKeeps ==
  ASSUME Inv, NEW k \in DOMAIN posts, Edit(k)
  PROVE  Inv'
<1>1. /\ TypeOK /\ Numbered /\ Dated /\ Polled /\ Due /\ posts \in Seq(PostType) /\ clock \in Nat
      /\ hist \in HistType /\ spent \in SpentType /\ poller \in PollerType
  BY DEF Inv, TypeOK
<1>2. UNCHANGED <<mm, auth, file, links, hub, poller, task, hist>>  BY DEF Edit, tokens
<1>3. spent' \in SpentType /\ spent'.logins = spent.logins /\ spent'.faults = spent.faults
  <2>1. spent' = [spent EXCEPT !["edits"] = @ + 1]  BY DEF Edit, Spends
  <2> QED BY <1>1, <2>1 DEF SpentType
<1>4. posts[k] \in PostType /\ \A i \in DOMAIN posts : posts[i] \in PostType  BY <1>1, PostFacts
<1> DEFINE p == [posts[k] EXCEPT !.upd = clock + 1]
<1>5. /\ p \in PostType /\ p.user = posts[k].user /\ p.conv = posts[k].conv /\ p.kind = posts[k].kind
      /\ p.code = posts[k].code /\ p.at = posts[k].at /\ p.upd = clock + 1
  <2>1. clock + 1 \in Nat  BY <1>1
  <2>2. p \in PostType /\ p.upd = clock + 1  BY <1>4, <2>1 DEF PostType
  <2>3. /\ p.user = posts[k].user /\ p.conv = posts[k].conv /\ p.kind = posts[k].kind
        /\ p.code = posts[k].code /\ p.at = posts[k].at
    BY <1>4 DEF PostType
  <2> QED BY <2>2, <2>3
<1>6. posts' = [posts EXCEPT ![k] = p] /\ clock' = clock + 1  BY <1>4 DEF Edit
<1> HIDE DEF p
<1>7. /\ posts' \in Seq(PostType) /\ DOMAIN posts' = DOMAIN posts /\ Len(posts') = Len(posts)
      /\ posts'[k] = p /\ \A i \in DOMAIN posts : i # k => posts'[i] = posts[i]
  BY <1>1, <1>5, <1>6
<1>8. \A i \in DOMAIN posts : /\ posts'[i].user = posts[i].user /\ posts'[i].conv = posts[i].conv
                              /\ posts'[i].kind = posts[i].kind /\ posts'[i].code = posts[i].code
                              /\ posts'[i].at = posts[i].at
  BY <1>5, <1>7
<1>9. /\ TypeOK' /\ Started' /\ Lasting' /\ Asking' /\ Telling' /\ Linked' /\ Polled' /\ Once'
      /\ \A i \in DOMAIN posts : (Waits(i)' <=> Waits(i)) /\ (Ahead(i)' <=> Ahead(i))
  BY <1>1, <1>2, <1>3, <1>6, <1>7, <1>8, PostsGrow DEF TypeOK
<1>10. Numbered'  BY <1>1, <1>2, <1>3, <1>7, <1>8 DEF Numbered
<1>11. Dated'
  <2>1. ASSUME NEW i \in DOMAIN posts
        PROVE  1 < posts'[i].at /\ posts'[i].at <= posts'[i].upd /\ posts'[i].upd <= clock'
    <3>1. posts[i].at \in Nat /\ posts[i].upd \in Nat  BY <1>4 DEF PostType
    <3>2. 1 < posts[i].at /\ posts[i].at <= posts[i].upd /\ posts[i].upd <= clock  BY <1>1 DEF Dated
    <3>3. CASE i = k  BY <1>1, <1>5, <1>6, <1>7, <3>1, <3>2, <3>3
    <3>4. CASE i # k  BY <1>1, <1>6, <1>7, <3>1, <3>2, <3>4
    <3> QED BY <3>3, <3>4
  <2>2. ASSUME NEW c \in Users \cup {Home} PROVE poller.cursor[c] <= clock'
    <3>1. poller.cursor[c] \in Nat /\ poller.cursor[c] <= clock  BY <1>1 DEF PollerType, Dated
    <3> QED BY <1>1, <1>6, <3>1
  <2> QED BY <1>1, <1>2, <1>6, <1>7, <2>1, <2>2 DEF Dated
<1>12. Due'  BY <1>1, <1>2, <1>3, <1>7, <1>8, <1>9 DEF Due
<1> QED BY <1>9, <1>10, <1>11, <1>12 DEF Inv

\* The pod restarts: the tasks it had end, what was linked is in the file, and polling starts
\* anew in every conversation.
LEMMA RestartKeeps ==
  ASSUME Inv, Restart
  PROVE  Inv'
<1>0. /\ TypeOK /\ Started /\ Numbered /\ Linked /\ Telling /\ Dated /\ Once
      /\ file \in FileType /\ hub \in HubType /\ spent \in SpentType /\ clock \in Nat
      /\ task \in [Tasks -> TaskType]
  BY DEF Inv, TypeOK
<1>1. UNCHANGED <<posts, clock, mm, file, hist>>  BY DEF Restart, outside
<1>2. spent' \in SpentType /\ spent'.faults # 0 /\ spent'.logins = spent.logins
  BY <1>0 DEF Restart, Fault, Spends, SpentType
<1>3. auth' \in AuthType /\ \A x \in Actors : auth'.rejected[x] = 0 /\ auth'.sent[x] = 0
  <2> DEFINE ready == file.gen # 0
             zero == [x \in Actors |-> 0]
  <2>1. auth' = [gen |-> file.gen, ready |-> ready, lock |-> None, login |-> FALSE,
                 sent |-> zero, rejected |-> zero]
    BY DEF Restart
  <2>2. ready \in BOOLEAN /\ zero \in [Actors -> Nat] /\ \A x \in Actors : zero[x] = 0  OBVIOUS
  <2> HIDE DEF ready, zero
  <2> QED BY <1>0, <2>1, <2>2 DEF AuthType, FileType
<1>4. links' \in LinksType /\ links'.linked = file.linked /\ \A u \in Users : links'.codes[u] = None
  BY <1>0 DEF Restart, LinksType, FileType, NoLinks
<1>5. hub' \in HubType /\ hub'.logins = {} /\ hub'.seen = hub.seen  BY <1>0 DEF Restart, HubType
<1>6. /\ poller' \in PollerType /\ poller'.pc = "wait" /\ poller'.looked = FALSE /\ poller'.known = {}
      /\ poller'.todo = {} /\ poller'.list = {} /\ poller'.reply = 0
      /\ \A c \in Users \cup {Home} : poller'.cursor[c] = 0
  <2> DEFINE zero == [c \in Convs |-> 0]
  <2>1. poller' = [pc |-> "wait", looked |-> FALSE, known |-> {}, todo |-> {}, conv |-> None,
                   from |-> 0, list |-> {}, reply |-> 0, cursor |-> zero]
    BY DEF Restart
  <2>2. zero \in [Users \cup {Home} -> Nat] /\ \A c \in Users \cup {Home} : zero[c] = 0
    BY NamesAssumption DEF Convs
  <2> HIDE DEF zero
  <2>3. poller' \in PollerType  BY <2>1, <2>2 DEF PollerType
  <2> QED BY <2>1, <2>2, <2>3
<1>7. \A t \in Tasks : task'[t] = IF task[t].pc \in {"none", "sent", "silent"} THEN task[t]
                                  ELSE [NoTask EXCEPT !.pc = "silent"]
  BY DEF Restart
<1>8. LET r == [NoTask EXCEPT !.pc = "silent"]
      IN r \in TaskType /\ r.pc = "silent" /\ r.text = "" /\ r.ran = FALSE /\ r # NoTask
  BY NoTaskType
<1>9. /\ task' \in [Tasks -> TaskType]
      /\ \A t \in Tasks : /\ task'[t].pc \in {"none", "sent", "silent"} /\ task'[t].text = ""
                          /\ (task'[t] = NoTask <=> task[t] = NoTask)
                          /\ (task'[t] # NoTask => task'[t].pc # "none")
  <2>1. ASSUME NEW t \in Tasks
        PROVE  /\ task'[t] \in TaskType /\ task'[t].pc \in {"none", "sent", "silent"} /\ task'[t].text = ""
               /\ (task'[t] = NoTask <=> task[t] = NoTask)
               /\ (task'[t] # NoTask => task'[t].pc # "none")
    <3>1. CASE task[t].pc \in {"none", "sent", "silent"}
      <4>1. task'[t] = task[t]  BY <1>7, <3>1
      <4>2. task[t].text = ""  BY <1>0, <3>1 DEF Telling
      <4> QED BY <1>0, <3>1, <4>1, <4>2 DEF Started
    <3>2. CASE task[t].pc \notin {"none", "sent", "silent"}
      <4>1. task'[t] = [NoTask EXCEPT !.pc = "silent"]  BY <1>7, <3>2
      <4>2. task[t] # NoTask  BY <3>2, NoTaskType
      <4> QED BY <1>8, <4>1, <4>2
    <3> QED BY <3>1, <3>2
  <2>2. task' = [t \in Tasks |-> task'[t]]  BY DEF Restart
  <2> QED BY <2>1, <2>2
<1>10. TypeOK'  BY <1>0, <1>1, <1>2, <1>3, <1>4, <1>5, <1>6, <1>9 DEF TypeOK
<1>11. Started'  BY <1>0, <1>1, <1>9 DEF Started
<1>12. Lasting' /\ Due'  BY <1>2 DEF Lasting, Due
<1>13. Asking'  BY <1>3 DEF Asking, Actors
<1>14. Numbered'  BY <1>0, <1>1, <1>2, <1>4, <1>5 DEF Numbered
<1>15. Linked'
  <2>1. \A u \in hist.unlinked : ~Confirming(u)'  BY <1>9 DEF Confirming
  <2> QED BY <1>0, <1>1, <1>4, <1>9, <2>1 DEF Linked
<1>16. Telling'  BY <1>2, <1>9 DEF Telling
<1>17. Dated'  BY <1>0, <1>1, <1>6 DEF Dated
<1>18. Polled'  BY <1>6 DEF Polled
<1>19. Once'
  <2>1. \A i \in DOMAIN posts : /\ i # 0 /\ <<i, 1>> \in Tasks /\ <<i, 2>> \in Tasks
                                /\ posts[i].conv \in Users \cup {Home}
    BY <1>0, PostFacts DEF PostType
  <2>2. \A i \in DOMAIN posts : Behind(i)'  BY <1>1, <1>6, <2>1 DEF Behind
  <2> QED BY <1>0, <1>1, <1>9, <2>1, <2>2 DEF Once
<1> QED BY <1>10, <1>11, <1>12, <1>13, <1>14, <1>15, <1>16, <1>17, <1>18, <1>19 DEF Inv

-----------------------------------------------------------------------------
(* The invariant, and what it says of the agent. *)

\* The invariant holds at the start,
LEMMA InitInv == Init => Inv
<1> SUFFICES ASSUME Init PROVE Inv  OBVIOUS
<1> USE DEF Init
<1>1. posts = <<>> /\ DOMAIN posts = {} /\ Len(posts) = 0 /\ MaxPosts \in Nat  BY BoundsAssumption
<1>2. task \in [Tasks -> TaskType] /\ \A t \in Tasks : task[t] = NoTask /\ task[t].pc = "none"
  BY NoTaskType
<1>3. \A u \in Users : Old(u) \in LinkType /\ Old(u).hub = HubOf[u]
  BY NamesAssumption DEF Old, LinkType, Actors
<1> DEFINE linked == [u \in Users |-> Old(u)]
<1>4. linked \in LinkedType /\ \A u \in Users : linked[u] = Old(u)  BY <1>3 DEF LinkedType
<1>5. auth \in AuthType /\ \A x \in Actors : auth.rejected[x] = 0 /\ auth.sent[x] = 0
  BY DEF AuthType
<1>6. file \in FileType /\ file.linked = linked  BY <1>4 DEF FileType
<1>7. links \in LinksType /\ links.linked = linked /\ \A u \in Users : links.codes[u] = None
  <2> HIDE DEF linked
  <2>1. links = [linked |-> linked, pending |-> {}, codes |-> NoLinks]  BY DEF linked
  <2> QED BY <1>4, <2>1 DEF LinksType, NoLinks
<1>8. hub \in HubType /\ hub.logins = {} /\ hub.seen = {}
  <2>1. {Old(u) : u \in Users} \subseteq LinkType  BY <1>3
  <2> QED BY <2>1 DEF HubType
<1>9. /\ poller \in PollerType /\ poller.pc = "look" /\ poller.todo = {} /\ poller.list = {}
      /\ poller.reply = 0 /\ \A c \in Users \cup {Home} : poller.cursor[c] = 0
  BY NamesAssumption DEF PollerType, Convs
<1>10. mm \in MmType /\ mm.refresh /\ mm.gen = 1  BY DEF MmType
<1>11. hist \in HistType /\ hist.unlinked = {} /\ hist.due = {} /\ ~hist.lost  BY DEF HistType
<1>12. spent \in SpentType  BY DEF SpentType
<1>13. TypeOK
  BY <1>1, <1>2, <1>5, <1>6, <1>7, <1>8, <1>9, <1>10, <1>11, <1>12 DEF TypeOK
<1>14. Started /\ Asking  BY <1>2, <1>5 DEF Started, Asking, Actors
<1>15. Lasting  BY <1>5, <1>10 DEF Lasting
<1>16. Numbered  BY <1>1, <1>7, <1>8 DEF Numbered
<1>17. Linked  BY <1>2, <1>3, <1>4, <1>6, <1>7, <1>11 DEF Linked
<1>18. Telling  BY <1>2, NoTaskType DEF Telling
<1>19. Dated /\ Polled  BY <1>1, <1>9 DEF Dated, Polled
<1>20. Once /\ Due  BY <1>1, <1>11 DEF Once, Due
<1> QED BY <1>13, <1>14, <1>15, <1>16, <1>17, <1>18, <1>19, <1>20 DEF Inv

\* ... every step keeps it,
LEMMA StepInv == Inv /\ [Next]_vars => Inv'
<1> SUFFICES ASSUME Inv, [Next]_vars PROVE Inv'  OBVIOUS
<1>1. CASE PollStep  BY <1>1, PollStepKeeps
<1>2. CASE \E t \in Tasks : TaskStep(t)  BY <1>2, TaskStepKeeps
<1>3. CASE \E x \in Actors : TokenStep(x)  BY <1>3, TokenStepKeeps
<1>4. CASE LoginStep  BY <1>4, LoginStepKeeps
<1>5. CASE \E w \in Writes : Write(w)  BY <1>5, WriteKeeps
<1>6. CASE \E i \in DOMAIN posts : Edit(i)  BY <1>6, EditKeeps
<1>7. CASE Expire \/ Revoke \/ Restart  BY <1>7, ExpireKeeps, RevokeKeeps, RestartKeeps
<1>8. CASE \E u \in Users : Lapse(u)  BY <1>8, LapseKeeps
<1>9. CASE UNCHANGED vars
  <2>1. UNCHANGED <<posts, clock, mm, auth, file, links, hub, poller, task, hist, spent>>
    BY <1>9 DEF vars
  <2>2. /\ TypeOK /\ Numbered /\ Linked /\ file \in FileType /\ links \in LinksType
        /\ hub \in HubType /\ spent \in SpentType
    BY DEF Inv, TypeOK
  <2>3. Numbered'  BY <2>1, <2>2 DEF Numbered
  <2> QED BY <2>1, <2>2, <2>3, LinkingKeeps DEF Linked
<1> QED BY <1>1, <1>2, <1>3, <1>4, <1>5, <1>6, <1>7, <1>8, <1>9 DEF Next

\* ... and so it always holds.
LEMMA AgentInv == Spec => []Inv
BY InitInv, StepInv, PTL DEF Spec

\* Once the service account logged in it need not again while no call fails, however the
\* refreshes of the poller and of any number of tasks interleave and however often the access
\* token expires: token() sends no refresh token that Mattermost has replaced.
THEOREM LoginStays == Spec => []LoginLasts
<1>1. Inv => LoginLasts  BY DEF Inv, Lasting, LoginLasts
<1> QED BY <1>1, AgentInv, PTL

\* Whoever opens a forwarded link, guesses a code or is shown one, Linking.confirm() links a
\* Mattermost account to the Hub account of the same person only; and who unlinked stays so,
\* in memory and in the file, until they send a code again.
THEOREM LinksStayTrue == Spec => []LinksTrue
<1>1. Inv => LinksTrue
  <2> SUFFICES ASSUME Inv PROVE LinksTrue  OBVIOUS
  <2>1. Linked  BY DEF Inv
  <2> QED BY <2>1 DEF Linked, LinksTrue
<1> QED BY <1>1, AgentInv, PTL

\* A post gets no second task of Agent.poll(), however posts, edits, new conversations,
\* logins and restarts interleave with polling, unless a look found no conversations; and while
\* no call fails the cursor of its conversation passes no post that polling had started for.
THEOREM PostsHandledOnce == Spec => []ExactlyOnce
<1>1. Inv => ExactlyOnce
  <2> SUFFICES ASSUME Inv PROVE ExactlyOnce  OBVIOUS
  <2>1. TypeOK /\ Started /\ Dated /\ Once /\ Due  BY DEF Inv
  <2>2. ASSUME NEW i \in 1..MaxPosts, task[<<i, 2>>] # NoTask PROVE hist.lost
    <3>1. <<i, 2>> \in Tasks /\ <<i, 2>>[1] = i  BY DEF Tasks
    <3>2. i \in DOMAIN posts  BY <2>1, <2>2, <3>1 DEF Started
    <3> QED BY <2>1, <2>2, <3>2 DEF Once
  <2>3. ASSUME spent.faults = 0, NEW i \in hist.due,
               poller.cursor[posts[i].conv] >= posts[i].upd,
               task[<<i, 1>>] = NoTask, poller.reply # i,
               ~(poller.conv = posts[i].conv /\ \E e \in poller.list : e[1] = i)
        PROVE  FALSE
    <3>1. i \in DOMAIN posts /\ (Waits(i) => Ahead(i))  BY <2>1, <2>3 DEF Due
    <3>2. Polled  BY DEF Inv
    <3>3. \A e \in poller.list : e[1] # i  BY <2>3, <3>2 DEF Polled
    <3>4. Ahead(i)  BY <2>3, <3>1, <3>3 DEF Waits
    <3>5. /\ posts[i].at \in Nat /\ posts[i].upd \in Nat /\ posts[i].conv \in Users \cup {Home}
          /\ 1 < posts[i].at /\ posts[i].at <= posts[i].upd
      BY <2>1, <3>1, PostFacts DEF PostType, Dated
    <3>6. poller.cursor[posts[i].conv] \in Nat  BY <2>1, <3>5 DEF TypeOK, PollerType
    <3> QED BY <2>3, <3>4, <3>5, <3>6 DEF Ahead
  <2> QED BY <2>2, <2>3 DEF ExactlyOnce
<1> QED BY <1>1, AgentInv, PTL

\* While no call fails, an answer that used a person's tools never ends in "try again":
\* Agent.answer() says what ran, so that the person does not have it done twice.
THEOREM RunsAreTold == Spec => []ToldWhatRan
<1>1. Inv => ToldWhatRan  BY DEF Inv, Telling, ToldWhatRan
<1> QED BY <1>1, AgentInv, PTL
-----------------------------------------------------------------------------
(* The runs of the agentic analysis. *)

RunType == [pc : Idle \cup Steps, w : Runs \cup {NoRun}, reply : BOOLEAN, attempt : Nat,
            turns : Nat, tells : BOOLEAN]
VolumeType == [home : BOOLEAN, tree : {"none", "partial", "whole"}, staged : BOOLEAN,
               session : BOOLEAN, told : SUBSET Runs]
PastType == [got : Nat, torn : Nat, fresh : BOOLEAN]

RunTypeOK ==
  /\ run \in [Runs -> RunType]
  /\ volume \in [Runs -> VolumeType]
  /\ data \in BOOLEAN
  /\ lock \in [Runs -> Runs \cup {NoRun}]
  /\ alive \in SUBSET Runs
  /\ past \in [Runs -> PastType]
  /\ losses \in Nat

\* Where an attempt sets its workspace up, where a turn is under way, and where it has its
\* workspace for itself.
Building == {"build", "fetch", "link"}
Turning  == {"live", "taken", "heard"}
Holding  == Building \cup {"agent", "turn"} \cup Turning

\* A run that was launched has a workspace, and holds its lock where it works in it.
Placed == \A r \in Runs : ~RunAt(r, "off") => run[r].w \in Runs
Locked == \A r \in Runs : run[r].pc \in Holding => lock[run[r].w] = r

\* The processes of a turn are those of a run whose turn is under way.
Attended == \A r \in alive : run[r].pc \in Turning

\* A workspace is staged only as a whole, and a session is only in a staged one; a run
\* that sets it up found it not staged, and one that is past that found it so.
Staged ==
  /\ \A w \in Runs : /\ volume[w].staged => volume[w].tree = "whole"
                     /\ volume[w].session => volume[w].staged
  /\ \A r \in Runs : /\ run[r].pc \in Building => ~Own(r).staged
                     /\ run[r].pc \in Holding \ Building => Own(r).staged

RunInv == RunTypeOK /\ Placed /\ Locked /\ Attended /\ Staged

\* What r's reply has come to: it may have reached the agent once more than attempts were
\* lost with it only if it is marked told, or is about to be.
Replied(r) ==
  /\ RunAt(r, "off") => /\ past[r].got = 0 /\ past[r].torn = 0
                     /\ \A w \in Runs : r \notin volume[w].told
  /\ past[r].got <= 1 + past[r].torn
  /\ ~RunAt(r, "off") =>
       /\ r \notin Own(r).told /\ ~(RunAt(r, "taken") /\ run[r].tells)
            => past[r].got <= past[r].torn
       /\ r \in Own(r).told => (past[r].got > 0 \/ past[r].fresh)
       /\ run[r].tells => r \notin Own(r).told
       /\ run[r].pc \in {"turn", "live", "taken"} /\ run[r].reply
            => (run[r].tells \/ r \in Own(r).told)
       /\ RunAt(r, "live") /\ run[r].tells => (Own(r).session \/ past[r].fresh)
       /\ RunAt(r, "taken") /\ run[r].tells => (past[r].got > 0 \/ past[r].fresh)
       /\ run[r].pc \in {"heard", "done"} /\ run[r].reply => r \in Own(r).told

Replies == \A r \in Runs : Replied(r)
-----------------------------------------------------------------------------
(* The ways an attempt ends, taken together. *)

\* r's attempt is over: its lock and its processes go, and a retry, a pause or nothing
\* follows in the same workspace, with the same reply.
Quits(r) ==
  /\ run' \in [Runs -> RunType]
  /\ \A s \in Runs \ {r} : run'[s] = run[s]
  /\ run'[r].pc \in {"begin", "pause", "failed", "done"}
  /\ run'[r].pc = "done" => run[r].pc = "heard"
  /\ run'[r].w = run[r].w /\ run'[r].reply = run[r].reply
  /\ run'[r].tells => run[r].tells

\* The next attempt of a run, if it has one.
LEMMA AgainType ==
  ASSUME RunTypeOK, NEW r \in Runs
  PROVE  /\ Again(r) \in RunType
         /\ Again(r).pc \in {"begin", "failed"}
         /\ Again(r).w = run[r].w /\ Again(r).reply = run[r].reply
         /\ Again(r).tells => run[r].tells
<1>1. run[r] \in RunType  BY DEF RunTypeOK
<1>2. CASE run[r].attempt < Retries
  <2>1. Again(r) = [NotRun EXCEPT !.pc = "begin", !.w = run[r].w, !.reply = run[r].reply,
                                  !.attempt = run[r].attempt + 1]
    BY <1>2 DEF Again
  <2>2. Again(r) = [pc |-> "begin", w |-> run[r].w, reply |-> run[r].reply,
                    attempt |-> run[r].attempt + 1, turns |-> 0, tells |-> FALSE]
    BY <2>1 DEF NotRun
  <2>3. run[r].attempt + 1 \in Nat  BY <1>1 DEF RunType
  <2> QED BY <1>1, <2>2, <2>3 DEF RunType, Idle, Steps
<1>3. CASE ~(run[r].attempt < Retries)
  <2>1. Again(r) = [run[r] EXCEPT !.pc = "failed"]  BY <1>3 DEF Again
  <2> QED BY <1>1, <2>1 DEF RunType, Idle, Steps
<1> QED BY <1>2, <1>3

\* What a run goes on with when its attempt fails is a run of the same workspace and reply.
LEMMA AgainQuits ==
  ASSUME RunTypeOK, NEW r \in Runs, run' = [run EXCEPT ![r] = Again(r)]
  PROVE  Quits(r)
BY AgainType DEF Quits, RunTypeOK

\* So does a run whose program counter alone changes.
LEMMA MovesQuits ==
  ASSUME RunTypeOK, NEW r \in Runs, NEW pc \in {"pause", "failed", "done"}, Moves(r, pc),
         pc = "done" => run[r].pc = "heard"
  PROVE  Quits(r)
<1>1. run[r] \in RunType  BY DEF RunTypeOK
<1>2. [run[r] EXCEPT !.pc = pc] \in RunType  BY <1>1 DEF RunType, Idle, Steps
<1> QED BY <1>1, <1>2 DEF Moves, RunType, RunTypeOK, Quits

\* ... so does one that gives up its lock and waits before it is tried again,
LEMMA PausesQuits ==
  ASSUME RunTypeOK, NEW r \in Runs, PausesFirst(r)
  PROVE  Quits(r) /\ lock' = Unlocked(r) /\ alive' = alive \ {r}
BY AgainQuits, MovesQuits DEF PausesFirst, Killed

\* ... and one that is not tried again.
LEMMA NonRecoverableQuits ==
  ASSUME RunTypeOK, NEW r \in Runs, NonRecoverable(r)
  PROVE  Quits(r) /\ lock' = Unlocked(r) /\ alive' = alive \ {r}
BY MovesQuits DEF NonRecoverable, Killed

\* The attempt stops with its lock and its processes, and leaves of a reply that OpenCode
\* had taken, and had not said so, that it is torn.
Stops(r) ==
  /\ Quits(r) /\ lock' = Unlocked(r) /\ alive' = alive \ {r}
  /\ ~RunAt(r, "off") /\ Torn(r)
  /\ UNCHANGED <<volume, data>> /\ losses' \in Nat

\* An attempt that had no reply taken and unheard loses none.
LEMMA NotTorn == ASSUME RunTypeOK, NEW r \in Runs, ~RunAt(r, "taken"), UNCHANGED past PROVE Torn(r)
BY DEF Torn, RunTypeOK, PastType

\* Faults are counted.
LEMMA FaultType == ASSUME RunTypeOK, Loss PROVE losses' \in Nat
BY DEF Loss, RunTypeOK

\* The ways an attempt ends.
LEMMA StopSteps ==
  ASSUME RunTypeOK, NEW r \in Runs,
         SetupFails(r) \/ TurnEnds(r) \/ Silence(r) \/ TurnFails(r) \/ PodLost(r)
  PROVE  Stops(r)
<1>1. CASE SetupFails(r)
  BY <1>1, AgainQuits, NotTorn, FaultType DEF SetupFails, AttemptFails, Killed, Stops, RunAt
<1>2. CASE TurnEnds(r)
  BY <1>2, MovesQuits, NotTorn DEF TurnEnds, Killed, Stops, RunAt, RunTypeOK
<1>3. CASE Silence(r)
  BY <1>3, PausesQuits, FaultType DEF Silence, Stops, RunAt
<1>4. CASE TurnFails(r)
  BY <1>4, PausesQuits, NonRecoverableQuits, FaultType DEF TurnFails, Stops, RunAt
<1>5. CASE PodLost(r)
  BY <1>5, AgainQuits, FaultType DEF PodLost, Stops, RunAt, Steps
<1> QED BY <1>1, <1>2, <1>3, <1>4, <1>5

\* The end of an attempt keeps the invariants.
LEMMA StopsKeeps == ASSUME RunInv, NEW r \in Runs, Stops(r) PROVE RunInv'
<1> USE DEF RunInv
<1>1. RunTypeOK'
  <2>1. past' \in [Runs -> PastType]  BY DEF Stops, Torn, RunTypeOK, PastType
  <2>2. lock' \in [Runs -> Runs \cup {NoRun}]  BY DEF Stops, Unlocked, RunTypeOK
  <2> QED BY <2>1, <2>2 DEF Stops, Quits, RunTypeOK
<1>2. Placed'
  BY DEF Stops, Quits, Placed, RunAt, RunTypeOK, Idle, Steps
<1>3. Locked'
  <2> SUFFICES ASSUME NEW s \in Runs, run'[s].pc \in Holding
               PROVE  lock'[run'[s].w] = s
    BY DEF Locked
  <2>1. s # r  BY DEF Stops, Quits, Holding, Building, Turning
  <2>2. run'[s] = run[s]  BY <2>1 DEF Stops, Quits
  <2>3. run[s].w \in Runs /\ lock[run[s].w] = s
    BY <2>2 DEF Placed, RunAt, Locked, Holding, Building, Turning
  <2> QED BY <2>1, <2>2, <2>3 DEF Stops, Unlocked
<1>4. Attended'
  BY DEF Stops, Quits, Attended, RunTypeOK
<1>5. Staged'
  BY DEF Stops, Quits, Staged, Own, RunTypeOK, Holding, Building, Turning
<1> QED BY <1>1, <1>2, <1>3, <1>4, <1>5

-----------------------------------------------------------------------------
(* The steps of an attempt. *)

\* The invariant holds at the start.
LEMMA RunInitInv == RunInit => RunInv
<1> SUFFICES ASSUME RunInit PROVE RunInv
  OBVIOUS
<1>1. NotRun \in RunType /\ Bare \in VolumeType
  BY DEF NotRun, RunType, Bare, VolumeType, Idle, Steps
<1>2. RunTypeOK
  BY <1>1 DEF RunInit, RunTypeOK, PastType
<1>3. \A r \in Runs : run[r].pc = "off" /\ ~volume[r].staged /\ ~volume[r].session
  BY DEF RunInit, NotRun, Bare
<1> QED
  BY <1>2, <1>3 DEF RunInit, RunInv, Placed, Locked, Attended, Staged, RunAt, Holding, Building, Turning

\* r alone moves, within its workspace.
Moved(r) ==
  /\ run' \in [Runs -> RunType]
  /\ \A s \in Runs \ {r} : run'[s] = run[s]
  /\ run'[r].w = run[r].w /\ run'[r].reply = run[r].reply

\* A step within an attempt.
LEMMA MovesMoved ==
  ASSUME RunTypeOK, NEW r \in Runs, NEW pc \in Idle \cup Steps, Moves(r, pc)
  PROVE  Moved(r) /\ run'[r].pc = pc /\ run'[r].tells = run[r].tells
<1>1. run[r] \in RunType  BY DEF RunTypeOK
<1>2. [run[r] EXCEPT !.pc = pc] \in RunType  BY <1>1 DEF RunType
<1> QED BY <1>1, <1>2 DEF Moves, Moved, RunType, RunTypeOK

\* r moves to pc and keeps t for what it still tells.
LEMMA MovesTells ==
  ASSUME RunTypeOK, NEW r \in Runs, NEW pc \in Idle \cup Steps, NEW t \in BOOLEAN,
         run' = [run EXCEPT ![r].pc = pc, ![r].tells = t]
  PROVE  Moved(r) /\ run'[r].pc = pc /\ run'[r].tells = t
<1> DEFINE one == [run[r] EXCEPT !.pc = pc]
           two == [one EXCEPT !.tells = t]
<1>1. run[r] \in RunType /\ run \in [Runs -> RunType]  BY DEF RunTypeOK
<1>2. one \in RunType /\ one.pc = pc /\ one.w = run[r].w /\ one.reply = run[r].reply  BY <1>1 DEF RunType
<1>3. run' = [run EXCEPT ![r] = two]  BY <1>1 DEF RunType
<1> HIDE DEF one
<1>4. two \in RunType  BY <1>2 DEF RunType
<1>5. two.pc = one.pc /\ two.w = one.w /\ two.reply = one.reply /\ two.tells = t  BY <1>2 DEF RunType
<1> HIDE DEF two
<1>6. run' \in [Runs -> RunType] /\ run'[r] = two /\ \A s \in Runs \ {r} : run'[s] = run[s]
  BY <1>1, <1>3, <1>4
<1> QED BY <1>2, <1>5, <1>6 DEF Moved

\* A run that does not have its workspace for itself changes nothing that matters here.
LEMMA OutsideKeeps ==
  ASSUME RunInv, NEW r \in Runs, Moved(r), run[r].pc \notin Holding \cup {"off"},
         run'[r].pc \notin Holding, UNCHANGED <<lock, alive, data, past, losses>>,
         volume' \in [Runs -> VolumeType],
         \A w \in Runs : /\ volume'[w].staged = volume[w].staged
                         /\ volume'[w].session = volume[w].session
                         /\ volume'[w].tree = volume[w].tree
  PROVE  RunInv'
<1> USE DEF RunInv, Moved
<1>1. RunTypeOK'  BY DEF RunTypeOK
<1>2. Placed'  BY DEF Placed, RunAt
<1>3. Locked'  BY DEF Locked
<1>4. Attended'  BY DEF Attended, RunTypeOK, Holding
<1>5. Staged'
  <2>1. \A s \in Runs : run'[s].pc \in Holding => run[s].w \in Runs /\ run'[s] = run[s]
    BY DEF Placed, RunAt, Holding, Building, Turning
  <2>2. ASSUME NEW s \in Runs
        PROVE  /\ run'[s].pc \in Building => ~volume'[run'[s].w].staged
               /\ run'[s].pc \in Holding \ Building => volume'[run'[s].w].staged
    BY <2>1 DEF Staged, Own, Holding
  <2>3. \A w \in Runs : /\ volume'[w].staged => volume'[w].tree = "whole"
                        /\ volume'[w].session => volume'[w].staged
    BY DEF Staged
  <2> QED BY <2>2, <2>3 DEF Staged, Own
<1> QED BY <1>1, <1>2, <1>3, <1>4, <1>5

\* A run that has its workspace for itself leaves the others' alone: no other is there.
LEMMA InsideKeeps ==
  ASSUME RunInv, NEW r \in Runs, Moved(r), run[r].pc \in Holding, run'[r].pc \in Holding,
         UNCHANGED lock, alive' \subseteq alive \cup {r},
         r \in alive' => run'[r].pc \in Turning,
         volume' \in [Runs -> VolumeType],
         \A w \in Runs \ {run[r].w} : volume'[w] = volume[w],
         volume'[run[r].w].staged => volume'[run[r].w].tree = "whole",
         volume'[run[r].w].session => volume'[run[r].w].staged,
         volume'[run[r].w].staged <=> run'[r].pc \notin Building,
         data' \in BOOLEAN, past' \in [Runs -> PastType], losses' \in Nat
  PROVE  RunInv'
<1> USE DEF RunInv, Moved
<1>1. RunTypeOK'  BY DEF RunTypeOK
<1>2. Placed'  BY DEF Placed, RunAt, Holding, Building, Turning
<1>3. Locked'  BY DEF Locked
<1>4. Attended'  BY DEF Attended, RunTypeOK
<1>5. Staged'
  <2>1. run[r].w \in Runs  BY DEF Placed, RunAt, Holding, Building, Turning
  <2>2. \A s \in Runs \ {r} : run[s].pc \in Holding => run[s].w \in Runs \ {run[r].w}
    BY DEF Placed, RunAt, Locked, Holding, Building, Turning
  <2>3. \A w \in Runs : /\ volume'[w].staged => volume'[w].tree = "whole"
                        /\ volume'[w].session => volume'[w].staged
    BY DEF Staged
  <2>4. \A s \in Runs \ {r} : run'[s].pc \in Holding =>
          volume'[run'[s].w] = volume[run[s].w]
    BY <2>2
  <2>5. ASSUME NEW s \in Runs \ {r}
        PROVE  /\ run'[s].pc \in Building => ~volume'[run'[s].w].staged
               /\ run'[s].pc \in Holding \ Building => volume'[run'[s].w].staged
    BY <2>4 DEF Staged, Own, Holding
  <2>6. /\ run'[r].pc \in Building => ~volume'[run'[r].w].staged
        /\ run'[r].pc \in Holding \ Building => volume'[run'[r].w].staged
    OBVIOUS
  <2> QED BY <2>3, <2>5, <2>6 DEF Staged, Own
<1> QED BY <1>1, <1>2, <1>3, <1>4, <1>5

\* Every step keeps the invariant: one case per action.
LEMMA RunStepInv == RunInv /\ [RunNext]_runVars => RunInv'
<1> SUFFICES ASSUME RunInv, [RunNext]_runVars PROVE RunInv'
  OBVIOUS
<1>0. RunTypeOK /\ Placed /\ Locked /\ Attended /\ Staged  BY DEF RunInv
<1>p. {"lock", "agent", "build", "link", "fetch", "live", "taken", "turn", "heard", "begin", "failed"}
        \subseteq Idle \cup Steps
  BY DEF Idle, Steps
<1>h. ASSUME NEW r \in Runs, run[r].pc \in Holding
      PROVE  /\ run[r].w \in Runs /\ volume[run[r].w] \in VolumeType
             /\ volume[run[r].w].staged => volume[run[r].w].tree = "whole"
             /\ volume[run[r].w].session => volume[run[r].w].staged
             /\ volume[run[r].w].staged <=> run[r].pc \notin Building
             /\ r \in alive => run[r].pc \in Turning
  BY <1>0, <1>h DEF RunTypeOK, Placed, Staged, Attended, Own, RunAt, Holding, Building, Turning
<1> USE DEF RunAt, Holding, Building, Turning
<1>1. ASSUME NEW r \in Runs, Launch(r) PROVE RunInv'
  <2>1. PICK w \in Runs, reply \in BOOLEAN :
          run' = [run EXCEPT ![r] = [NotRun EXCEPT !.pc = "begin", !.w = w, !.reply = reply]]
    BY <1>1 DEF Launch
  <2> DEFINE new == [NotRun EXCEPT !.pc = "begin", !.w = w, !.reply = reply]
  <2>2. new \in RunType /\ new.pc = "begin" /\ new.w = w
    BY DEF NotRun, RunType, Idle, Steps
  <2> HIDE DEF new
  <2>3. run' \in [Runs -> RunType] /\ run'[r] = new /\ \A s \in Runs \ {r} : run'[s] = run[s]
    BY <1>0, <2>1, <2>2 DEF RunTypeOK, new
  <2>4. UNCHANGED <<volume, data, lock, alive, past, losses>> /\ run[r].pc = "off"
    BY <1>1 DEF Launch
  <2>5. \A s \in Runs : run'[s].pc \in Holding => run'[s] = run[s]
    BY <2>2, <2>3
  <2>6. Staged'  BY <1>0, <2>4, <2>5 DEF Staged, Own
  <2> QED BY <1>0, <2>2, <2>3, <2>4, <2>6 DEF RunInv, RunTypeOK, Placed, Locked, Attended
<1>2. ASSUME NEW r \in Runs, Begin(r) PROVE RunInv'
  <2>1. CASE run[r].w = r \/ Own(r).home
    <3>1. Moves(r, "lock") /\ UNCHANGED <<lock, alive, data, past, losses>>
          /\ volume' = [volume EXCEPT ![run[r].w].home = TRUE] /\ run[r].pc = "begin"
      BY <1>2, <2>1 DEF Begin
    <3>2. run[r].w \in Runs  BY <1>0, <3>1 DEF Placed
    <3>3. /\ volume' \in [Runs -> VolumeType]
          /\ \A w \in Runs : /\ volume'[w].staged = volume[w].staged
                             /\ volume'[w].session = volume[w].session
                             /\ volume'[w].tree = volume[w].tree
      <4> DEFINE v == [volume[run[r].w] EXCEPT !.home = TRUE]
      <4>1. volume[run[r].w] \in VolumeType  BY <1>0, <3>2 DEF RunTypeOK
      <4>2. /\ v \in VolumeType /\ v.staged = volume[run[r].w].staged
            /\ v.session = volume[run[r].w].session /\ v.tree = volume[run[r].w].tree
        BY <4>1 DEF VolumeType
      <4>3. volume' = [volume EXCEPT ![run[r].w] = v]  BY <3>1
      <4> QED BY <1>0, <3>2, <4>2, <4>3 DEF RunTypeOK
    <3>4. Moved(r) /\ run'[r].pc = "lock"  BY <1>0, <1>p, <3>1, MovesMoved
    <3> QED BY <1>0, <3>1, <3>3, <3>4, OutsideKeeps
  <2>2. CASE ~(run[r].w = r \/ Own(r).home)
    <3>1. NonRecoverable(r) /\ UNCHANGED <<volume, data, past, losses>> /\ run[r].pc = "begin"
      BY <1>2, <2>2 DEF Begin
    <3>2. Stops(r)
      BY <1>0, <3>1, NonRecoverableQuits, NotTorn DEF Stops, RunTypeOK
    <3> QED BY <3>2, StopsKeeps
  <2> QED BY <2>1, <2>2
<1>3. ASSUME NEW r \in Runs, Lock(r) PROVE RunInv'
  <2>1. run[r].pc = "lock" /\ lock[run[r].w] = NoRun /\ UNCHANGED <<volume, data, alive, past, losses>>
    BY <1>3 DEF Lock
  <2>2. run[r].w \in Runs  BY <1>0, <2>1 DEF Placed
  <2>3. lock' = [lock EXCEPT ![run[r].w] = r]  BY <1>3 DEF Lock
  <2>4. /\ Moved(r)
        /\ run'[r].pc = IF Own(r).staged THEN "agent" ELSE "build"
    BY <1>0, <1>3, <1>p, MovesMoved DEF Lock
  <2>5. \A s \in Runs : run[s].pc \in Holding => run[s].w # run[r].w
    BY <1>0, <2>1, RunsAssumption DEF Locked
  <2>6. RunTypeOK'  BY <1>0, <2>1, <2>2, <2>3, <2>4 DEF RunTypeOK, Moved
  <2>7. Placed' /\ Attended'
    BY <1>0, <2>1, <2>2, <2>4 DEF Placed, Attended, Moved, RunTypeOK
  <2>8. Locked'
    BY <1>0, <2>1, <2>2, <2>3, <2>4, <2>5 DEF Locked, Moved, RunTypeOK, Placed
  <2>9. Staged'
    BY <1>0, <2>1, <2>2, <2>4 DEF Staged, Own, Moved
  <2> QED BY <2>6, <2>7, <2>8, <2>9 DEF RunInv
<1>4. ASSUME NEW r \in Runs, Build(r) PROVE RunInv'
  <2>1. run[r].pc = "build" /\ UNCHANGED <<lock, alive, data, past, losses>>
        /\ volume' = [volume EXCEPT ![run[r].w].tree = "partial"]
    BY <1>4 DEF Build
  <2>2. Moved(r) /\ run'[r].pc \in {"link", "fetch"}
    BY <1>0, <1>4, <1>p, MovesMoved DEF Build
  <2>3. /\ run[r].w \in Runs /\ ~volume[run[r].w].staged /\ ~volume[run[r].w].session
        /\ r \notin alive /\ volume[run[r].w] \in VolumeType
    BY <1>h, <2>1
  <2>4. /\ volume' \in [Runs -> VolumeType] /\ \A w \in Runs \ {run[r].w} : volume'[w] = volume[w]
        /\ ~volume'[run[r].w].staged /\ ~volume'[run[r].w].session
    BY <1>0, <2>1, <2>3 DEF RunTypeOK, VolumeType
  <2> QED BY <1>0, <2>1, <2>2, <2>3, <2>4, InsideKeeps DEF RunTypeOK
<1>5. ASSUME NEW r \in Runs, Fetch(r) PROVE RunInv'
  <2>1. run[r].pc = "fetch" /\ UNCHANGED <<volume, past, losses>>  BY <1>5 DEF Fetch
  <2>2. CASE data
    <3>1. Stops(r)
      BY <1>0, <1>5, <2>1, <2>2, AgainQuits, NotTorn DEF Fetch, AttemptFails, Killed, Stops, RunTypeOK
    <3> QED BY <3>1, StopsKeeps
  <2>3. CASE ~data
    <3>1. Moved(r) /\ run'[r].pc = "link"  BY <1>0, <1>5, <1>p, <2>3, MovesMoved DEF Fetch
    <3>2. UNCHANGED <<lock, alive>> /\ data'  BY <1>5, <2>3 DEF Fetch
    <3> QED BY <1>0, <1>h, <2>1, <3>1, <3>2, InsideKeeps DEF RunTypeOK
  <2> QED BY <2>2, <2>3
<1>6. ASSUME NEW r \in Runs, Stage(r) PROVE RunInv'
  <2>1. /\ run[r].pc = "link" /\ UNCHANGED <<lock, alive, data, past, losses>>
        /\ volume' = [volume EXCEPT ![run[r].w].tree = "whole", ![run[r].w].staged = TRUE]
    BY <1>6 DEF Stage
  <2>2. Moved(r) /\ run'[r].pc = "agent"  BY <1>0, <1>6, <1>p, MovesMoved DEF Stage
  <2>3. run[r].w \in Runs /\ volume[run[r].w] \in VolumeType /\ r \notin alive
    BY <1>h, <2>1
  <2>4. /\ volume' \in [Runs -> VolumeType] /\ \A w \in Runs \ {run[r].w} : volume'[w] = volume[w]
        /\ volume'[run[r].w].staged /\ volume'[run[r].w].tree = "whole"
    BY <1>0, <2>1, <2>3 DEF RunTypeOK, VolumeType
  <2> QED BY <1>0, <2>1, <2>2, <2>3, <2>4, InsideKeeps DEF RunTypeOK
<1>7. ASSUME NEW r \in Runs, Roles(r) PROVE RunInv'
  <2>1. run[r].pc = "agent" /\ UNCHANGED <<volume, data, past>>  BY <1>7 DEF Roles
  <2>2. CASE /\ run' = [run EXCEPT ![r].pc = "turn", ![r].tells = Tells(r)]
             /\ UNCHANGED <<lock, alive, losses>>
    <3>1. Tells(r) \in BOOLEAN  BY <1>0 DEF Tells, RunTypeOK, RunType
    <3>2. Moved(r) /\ run'[r].pc = "turn"
      BY <1>0, <1>p, <2>2, <3>1, MovesTells
    <3> QED BY <1>0, <1>h, <2>1, <2>2, <3>2, InsideKeeps DEF RunTypeOK
  <2>3. CASE Loss /\ (PausesFirst(r) \/ NonRecoverable(r))
    <3>1. Stops(r)
      BY <1>0, <2>1, <2>3, PausesQuits, NonRecoverableQuits, NotTorn, FaultType DEF Stops
    <3> QED BY <3>1, StopsKeeps
  <2> QED BY <1>7, <2>2, <2>3 DEF Roles
<1>8. ASSUME NEW r \in Runs, StartTurn(r) PROVE RunInv'
  <2>1. /\ run[r].pc = "turn" /\ UNCHANGED <<volume, data, lock, losses>>
        /\ alive' = alive \cup {r}
    BY <1>8 DEF StartTurn
  <2>2. Moved(r) /\ run'[r].pc = "live"  BY <1>0, <1>8, <1>p, MovesMoved DEF StartTurn
  <2>3. past' \in [Runs -> PastType]
    <3>1. run[r].tells \in BOOLEAN /\ Own(r).session \in BOOLEAN
      BY <1>0, <1>h, <2>1 DEF RunTypeOK, RunType, VolumeType, Own
    <3> QED BY <1>0, <1>8, <3>1 DEF StartTurn, RunTypeOK, PastType
  <2> QED BY <1>0, <1>h, <2>1, <2>2, <2>3, InsideKeeps DEF RunTypeOK
<1>9. ASSUME NEW r \in Runs, Takes(r) PROVE RunInv'
  <2>1. run[r].pc = "live" /\ UNCHANGED <<volume, data, lock, alive, losses>>  BY <1>9 DEF Takes
  <2>2. Moved(r) /\ run'[r].pc = "taken"  BY <1>0, <1>9, <1>p, MovesMoved DEF Takes
  <2>3. past' \in [Runs -> PastType]  BY <1>0, <1>9 DEF Takes, RunTypeOK, PastType
  <2> QED BY <1>0, <1>h, <2>1, <2>2, <2>3, InsideKeeps DEF RunTypeOK
<1>10. ASSUME NEW r \in Runs, Hears(r) PROVE RunInv'
  <2>1. /\ run[r].pc = "taken" /\ UNCHANGED <<data, lock, alive, past, losses>>
        /\ run' = [run EXCEPT ![r].pc = "heard", ![r].tells = FALSE]
        /\ volume' = [volume EXCEPT ![run[r].w].session = TRUE,
                         ![run[r].w].told = IF run[r].tells THEN @ \cup {r} ELSE @]
    BY <1>10 DEF Hears
  <2>2. Moved(r) /\ run'[r].pc = "heard"
    BY <1>0, <1>p, <2>1, MovesTells
  <2>3. /\ run[r].w \in Runs /\ volume[run[r].w] \in VolumeType
        /\ volume[run[r].w].staged /\ volume[run[r].w].tree = "whole"
    BY <1>h, <2>1
  <2>4. /\ volume' \in [Runs -> VolumeType] /\ \A w \in Runs \ {run[r].w} : volume'[w] = volume[w]
        /\ volume'[run[r].w].staged /\ volume'[run[r].w].tree = "whole"
    BY <1>0, <2>1, <2>3 DEF RunTypeOK, VolumeType
  <2> QED BY <1>0, <2>1, <2>2, <2>3, <2>4, InsideKeeps DEF RunTypeOK
<1>11. ASSUME NEW r \in Runs, TurnCut(r) PROVE RunInv'
  <2>1. run[r].pc = "heard" /\ Loss /\ UNCHANGED <<volume, data, past>>  BY <1>11 DEF TurnCut
  <2>2. CASE run[r].turns < Resumes
    <3>1. /\ run' = [run EXCEPT ![r].pc = "turn", ![r].turns = @ + 1]
          /\ alive' = alive \ {r} /\ UNCHANGED lock
      BY <1>11, <2>2 DEF TurnCut, Killed
    <3>2. Moved(r) /\ run'[r].pc = "turn"
      BY <1>0, <3>1 DEF RunTypeOK, RunType, Moved, Idle, Steps
    <3> QED BY <1>0, <1>h, <2>1, <3>1, <3>2, FaultType, InsideKeeps DEF RunTypeOK
  <2>3. CASE ~(run[r].turns < Resumes)
    <3>1. Stops(r)
      BY <1>0, <1>11, <2>1, <2>3, PausesQuits, NotTorn, FaultType DEF TurnCut, Stops
    <3> QED BY <3>1, StopsKeeps
  <2> QED BY <2>2, <2>3
<1>12. ASSUME NEW r \in Runs, PauseEnds(r) PROVE RunInv'
  <2>1. run[r].pc = "pause" /\ UNCHANGED <<volume, data, lock, alive, past, losses>>
    BY <1>12 DEF PauseEnds
  <2>2. Quits(r)  BY <1>0, <1>12, AgainQuits DEF PauseEnds
  <2>3. Moved(r) /\ run'[r].pc \notin Holding  BY <2>2 DEF Quits, Moved
  <2> QED BY <1>0, <2>1, <2>3, OutsideKeeps DEF RunTypeOK
<1>13. ASSUME NEW r \in Runs,
              SetupFails(r) \/ TurnEnds(r) \/ Silence(r) \/ TurnFails(r) \/ PodLost(r)
       PROVE  RunInv'
  BY <1>0, <1>13, StopSteps, StopsKeeps
<1>14. CASE UNCHANGED runVars
  BY <1>0, <1>14 DEF runVars, RunInv, RunTypeOK, Placed, Locked, Attended, Staged, Own
<1> QED BY <1>1, <1>2, <1>3, <1>4, <1>5, <1>6, <1>7, <1>8, <1>9, <1>10, <1>11, <1>12, <1>13,
           <1>14 DEF RunNext, Step

\* ... and so it always holds.
LEMMA RunInvHolds == RunSpec => []RunInv
<1> QED BY RunInitInv, RunStepInv, PTL DEF RunSpec

\* An agent works alone in its workspace, and only in one that was set up as a whole,
\* however many runs share workspaces, fail, are killed and are retried: the lock that a
\* run takes before it sets a workspace up outlasts the processes of its turns.
THEOREM WorksAloneInWhole == RunSpec => []AloneInWhole
<1>1. RunInv => AloneInWhole
  <2> SUFFICES ASSUME RunInv PROVE AloneInWhole
    OBVIOUS
  <2>1. \A r \in alive : r \in Runs /\ run[r].pc \in Holding \ Building
    BY DEF RunInv, RunTypeOK, Attended, Holding, Building, Turning
  <2>2. \A r \in alive : run[r].w \in Runs /\ lock[run[r].w] = r /\ volume[run[r].w].staged
    BY <2>1 DEF RunInv, Placed, Locked, Staged, Own, RunAt, Holding, Building, Turning
  <2> QED BY <2>2 DEF AloneInWhole, RunInv, Staged
<1> QED BY <1>1, RunInvHolds, PTL

-----------------------------------------------------------------------------
(* Replies. *)

\* What another run does leaves what d's reply has come to.
LEMMA ReplySame ==
  ASSUME RunInv, NEW d \in Runs, Replied(d), run'[d] = run[d], past'[d] = past[d],
         \A w \in Runs : /\ d \in volume'[w].told <=> d \in volume[w].told
                         /\ volume[w].session => volume'[w].session
  PROVE  Replied(d)'
<1>1. CASE RunAt(d, "off")  BY <1>1 DEF Replied, RunAt
<1>2. CASE ~RunAt(d, "off")
  <2>1. run[d].w \in Runs  BY <1>2 DEF RunInv, Placed
  <2> QED BY <1>2, <2>1 DEF Replied, RunAt, Own
<1> QED BY <1>1, <1>2

\* Nor does r's own step that neither gives nor marks its reply, once it is on its way.
Unheard(r) ==
  /\ ~RunAt(r, "off") /\ run'[r].pc # "off" /\ run'[r].w = run[r].w
  /\ run'[r].reply = run[r].reply
  /\ past'[r].got = past[r].got /\ past'[r].torn = past[r].torn
  /\ past[r].fresh => past'[r].fresh
  /\ r \in volume'[run[r].w].told <=> r \in volume[run[r].w].told

\* A reply that nobody takes stays as it was.
LEMMA ReplyUnheard ==
  ASSUME RunInv, NEW r \in Runs, Replied(r), Unheard(r), run'[r].tells => run[r].tells,
         run'[r].pc \notin {"turn", "live", "taken", "heard", "done"}, ~RunAt(r, "taken") \/ ~run[r].tells
  PROVE  Replied(r)'
BY DEF Replied, RunAt, Own, Unheard

\* Where an attempt ends with its reply taken and not heard, it is one more torn.
LEMMA ReplyStops ==
  ASSUME RunInv, NEW r \in Runs, Replied(r), Stops(r)
  PROVE  Replied(r)'
<1>1. past[r] \in PastType  BY DEF RunInv, RunTypeOK
<1>2. CASE RunAt(r, "taken") /\ run[r].tells
  <2>1. past'[r].got = past[r].got /\ past'[r].torn = past[r].torn + 1 /\ past'[r].fresh = past[r].fresh
    BY <1>2, <1>1 DEF Stops, Torn, RunInv, RunTypeOK, PastType
  <2>2. past[r].got \in Nat /\ past[r].torn \in Nat  BY <1>1 DEF PastType
  <2> QED BY <1>2, <2>1, <2>2 DEF Stops, Quits, Replied, RunAt, Own
<1>3. CASE ~(RunAt(r, "taken") /\ run[r].tells)
  <2>1. past' = past  BY <1>3 DEF Stops, Torn, RunInv, RunTypeOK, PastType
  <2> QED BY <1>3, <2>1 DEF Stops, Quits, Replied, RunAt, Own
<1> QED BY <1>2, <1>3

\* Every step keeps what the history says of each run's reply.
LEMMA StepReplies == RunInv /\ Replies /\ [RunNext]_runVars => Replies'
<1> SUFFICES ASSUME RunInv, Replies, [RunNext]_runVars, NEW d \in Runs PROVE Replied(d)'
  BY DEF Replies
<1>0. RunTypeOK /\ Placed /\ Replied(d) /\ past[d] \in PastType  BY DEF RunInv, Replies, RunTypeOK
<1>p. {"lock", "agent", "build", "link", "fetch", "live", "taken"} \subseteq Idle \cup Steps
  BY DEF Idle, Steps
<1>w. ~RunAt(d, "off") => run[d].w \in Runs /\ volume[run[d].w] \in VolumeType
  BY <1>0 DEF Placed, RunTypeOK
\* A step of another run that leaves the marks of d's reply.
<1>s. ASSUME NEW r \in Runs \ {d}, Moved(r), past'[d] = past[d],
             \A w \in Runs : /\ d \in volume'[w].told <=> d \in volume[w].told
                             /\ volume[w].session => volume'[w].session
      PROVE  Replied(d)'
  BY <1>0, <1>w, <1>s, ReplySame DEF Moved
<1>1. ASSUME NEW r \in Runs, Launch(r) PROVE Replied(d)'
  <2>1. PICK w \in Runs, reply \in BOOLEAN :
          run' = [run EXCEPT ![r] = [NotRun EXCEPT !.pc = "begin", !.w = w, !.reply = reply]]
    BY <1>1 DEF Launch
  <2>2. UNCHANGED <<volume, past>> /\ RunAt(r, "off")  BY <1>1 DEF Launch
  <2>3. CASE d # r
    <3>1. run'[d] = run[d]  BY <1>0, <2>1, <2>3 DEF RunTypeOK
    <3> QED BY <1>0, <2>2, <3>1, ReplySame
  <2>4. CASE d = r
    <3> DEFINE new == [NotRun EXCEPT !.pc = "begin", !.w = w, !.reply = reply]
    <3>1. new.pc = "begin" /\ new.w = w /\ ~new.tells  BY DEF NotRun
    <3>2. run'[r].pc = "begin" /\ run'[r].w = w /\ ~run'[r].tells  BY <1>0, <2>1, <3>1 DEF RunTypeOK
    <3> QED BY <1>0, <2>2, <2>4, <3>2 DEF Replied, RunAt, Own
  <2> QED BY <2>3, <2>4
<1>2. ASSUME NEW r \in Runs, Stops(r) PROVE Replied(d)'
  <2>1. CASE d = r  BY <1>0, <1>2, <2>1, ReplyStops
  <2>2. CASE d # r
    <3>1. run'[d] = run[d]  BY <1>2, <2>2 DEF Stops, Quits
    <3>2. past'[d] = past[d]  BY <1>0, <1>2, <2>2 DEF Stops, Torn, RunTypeOK
    <3>3. UNCHANGED volume  BY <1>2 DEF Stops
    <3> QED BY <1>0, <3>1, <3>2, <3>3, ReplySame
  <2> QED BY <2>1, <2>2
<1>3. ASSUME NEW r \in Runs, NEW pc \in {"lock", "build", "agent", "fetch", "link"}, Moves(r, pc),
             UNCHANGED past, run[r].pc \notin {"off", "taken"},
             \A w \in Runs : /\ volume'[w].told = volume[w].told
                             /\ volume'[w].session = volume[w].session
      PROVE  Replied(d)'
  <2>1. Moved(r) /\ run'[r].pc = pc /\ run'[r].tells = run[r].tells
    BY <1>0, <1>3, <1>p, MovesMoved
  <2>2. CASE d # r
    BY <1>3, <1>s, <2>1, <2>2
  <2>3. CASE d = r
    BY <1>0, <1>3, <1>w, <2>1, <2>3, ReplyUnheard DEF Unheard, Moved, RunAt
  <2> QED BY <2>2, <2>3
<1>4. ASSUME NEW r \in Runs, Roles(r) PROVE Replied(d)'
  <2>1. run[r].pc = "agent" /\ UNCHANGED <<volume, data, past>>  BY <1>4 DEF Roles, RunAt
  <2>2. CASE run' = [run EXCEPT ![r].pc = "turn", ![r].tells = Tells(r)]
    <3>1. run[r] \in RunType /\ Tells(r) \in BOOLEAN  BY <1>0 DEF RunTypeOK, RunType, Tells
    <3>2. /\ run'[r].pc = "turn" /\ run'[r].tells = Tells(r) /\ run'[r].w = run[r].w
          /\ run'[r].reply = run[r].reply /\ \A s \in Runs \ {r} : run'[s] = run[s]
      BY <1>0, <2>2, <3>1 DEF RunTypeOK, RunType
    <3>3. CASE d # r  BY <1>0, <2>1, <3>2, <3>3, ReplySame
    <3>4. CASE d = r  BY <1>0, <2>1, <3>2, <3>4 DEF Replied, Tells, Own, RunAt
    <3> QED BY <3>3, <3>4
  <2>3. CASE Loss /\ (PausesFirst(r) \/ NonRecoverable(r))
    BY <1>0, <1>2, <2>1, <2>3, PausesQuits, NonRecoverableQuits, NotTorn, FaultType DEF Stops, RunAt
  <2> QED BY <1>4, <2>2, <2>3 DEF Roles
<1>5. ASSUME NEW r \in Runs, StartTurn(r) PROVE Replied(d)'
  <2>1. run[r].pc = "turn" /\ UNCHANGED volume  BY <1>5 DEF StartTurn, RunAt
  <2>2. Moved(r) /\ run'[r].pc = "live" /\ run'[r].tells = run[r].tells
    BY <1>0, <1>5, <1>p, MovesMoved DEF StartTurn
  <2>3. /\ \A s \in Runs \ {r} : past'[s] = past[s]
        /\ past'[r].got = past[r].got /\ past'[r].torn = past[r].torn
        /\ past'[r].fresh = (past[r].fresh \/ (run[r].tells /\ ~Own(r).session))
    BY <1>0, <1>5 DEF StartTurn, RunTypeOK, PastType
  <2>4. CASE d # r  BY <1>s, <2>1, <2>2, <2>3, <2>4
  <2>5. CASE d = r  BY <1>0, <2>1, <2>2, <2>3, <2>5 DEF Replied, Own, RunAt, Moved
  <2> QED BY <2>4, <2>5
<1>6. ASSUME NEW r \in Runs, Takes(r) PROVE Replied(d)'
  <2>1. run[r].pc = "live" /\ UNCHANGED volume  BY <1>6 DEF Takes, RunAt
  <2>2. Moved(r) /\ run'[r].pc = "taken" /\ run'[r].tells = run[r].tells
    BY <1>0, <1>6, <1>p, MovesMoved DEF Takes
  <2>3. /\ \A s \in Runs \ {r} : past'[s] = past[s]
        /\ past'[r].got = IF run[r].tells /\ Own(r).session THEN past[r].got + 1 ELSE past[r].got
        /\ past'[r].torn = past[r].torn /\ past'[r].fresh = past[r].fresh
    BY <1>0, <1>6 DEF Takes, RunTypeOK, PastType
  <2>4. CASE d # r  BY <1>s, <2>1, <2>2, <2>3, <2>4
  <2>5. CASE d = r
    <3>1. past[d].got \in Nat /\ past[d].torn \in Nat  BY <1>0 DEF PastType
    <3> QED BY <1>0, <2>1, <2>2, <2>3, <2>5, <3>1 DEF Replied, Own, RunAt, Moved
  <2> QED BY <2>4, <2>5
<1>7. ASSUME NEW r \in Runs, Hears(r) PROVE Replied(d)'
  <2>1. /\ run[r].pc = "taken" /\ UNCHANGED past
        /\ run' = [run EXCEPT ![r].pc = "heard", ![r].tells = FALSE]
        /\ volume' = [volume EXCEPT ![run[r].w].session = TRUE,
                         ![run[r].w].told = IF run[r].tells THEN @ \cup {r} ELSE @]
    BY <1>7 DEF Hears, RunAt
  <2>2. Moved(r) /\ run'[r].pc = "heard" /\ ~run'[r].tells
    BY <1>0, <2>1, MovesTells DEF Steps
  <2>3. run[r].w \in Runs /\ volume[run[r].w] \in VolumeType
    BY <1>0, <2>1 DEF Placed, RunTypeOK, RunAt
  <2>4. /\ \A w \in Runs \ {run[r].w} : volume'[w] = volume[w]
        /\ volume'[run[r].w].session
        /\ volume'[run[r].w].told = IF run[r].tells THEN volume[run[r].w].told \cup {r}
                                    ELSE volume[run[r].w].told
    BY <1>0, <2>1, <2>3 DEF RunTypeOK, VolumeType
  <2>5. CASE d # r
    <3>1. \A w \in Runs : /\ d \in volume'[w].told <=> d \in volume[w].told
                          /\ volume[w].session => volume'[w].session
      BY <2>4, <2>5
    <3> QED BY <1>s, <2>1, <2>2, <2>5, <3>1
  <2>6. CASE d = r  BY <1>0, <2>1, <2>2, <2>4, <2>6 DEF Replied, Own, RunAt, Moved
  <2> QED BY <2>5, <2>6
<1>8. ASSUME NEW r \in Runs, TurnCut(r) PROVE Replied(d)'
  <2>1. run[r].pc = "heard" /\ Loss /\ UNCHANGED <<volume, data, past>>  BY <1>8 DEF TurnCut, RunAt
  <2>2. CASE run[r].turns < Resumes
    <3>1. run' = [run EXCEPT ![r].pc = "turn", ![r].turns = @ + 1]  BY <1>8, <2>2 DEF TurnCut
    <3>2. Moved(r) /\ run'[r].pc = "turn" /\ run'[r].tells = run[r].tells
      BY <1>0, <3>1 DEF RunTypeOK, RunType, Moved, Idle, Steps
    <3>3. CASE d # r  BY <1>s, <2>1, <3>2, <3>3
    <3>4. CASE d = r  BY <1>0, <2>1, <3>2, <3>4 DEF Replied, Own, RunAt, Moved
    <3> QED BY <3>3, <3>4
  <2>3. CASE ~(run[r].turns < Resumes)
    BY <1>0, <1>2, <1>8, <2>1, <2>3, PausesQuits, NotTorn, FaultType DEF TurnCut, Stops, RunAt
  <2> QED BY <2>2, <2>3
<1>9. ASSUME NEW r \in Runs, PauseEnds(r) PROVE Replied(d)'
  <2>1. run[r].pc = "pause" /\ UNCHANGED <<volume, past>>  BY <1>9 DEF PauseEnds, RunAt
  <2>2. Quits(r)  BY <1>0, <1>9, AgainQuits DEF PauseEnds
  <2>3. CASE d # r  BY <1>0, <2>1, <2>2, <2>3, ReplySame DEF Quits
  <2>4. CASE d = r  BY <1>0, <2>1, <2>2, <2>4, ReplyUnheard DEF Quits, Unheard, RunAt
  <2> QED BY <2>3, <2>4
<1>10. ASSUME NEW r \in Runs, Begin(r) PROVE Replied(d)'
  <2>1. CASE run[r].w = r \/ Own(r).home
    <3>1. Moves(r, "lock") /\ UNCHANGED past /\ run[r].pc = "begin"
          /\ volume' = [volume EXCEPT ![run[r].w].home = TRUE]
      BY <1>10, <2>1 DEF Begin, RunAt
    <3>2. \A w \in Runs : volume'[w].told = volume[w].told /\ volume'[w].session = volume[w].session
      BY <1>0, <3>1 DEF RunTypeOK, VolumeType
    <3> QED BY <1>3, <3>1, <3>2
  <2>2. CASE ~(run[r].w = r \/ Own(r).home)
    BY <1>0, <1>2, <1>10, <2>2, NonRecoverableQuits, NotTorn DEF Begin, Stops, RunAt, RunTypeOK
  <2> QED BY <2>1, <2>2
<1>11. ASSUME NEW r \in Runs, Lock(r) PROVE Replied(d)'
  <2>1. /\ run[r].pc = "lock" /\ UNCHANGED <<volume, past>>
        /\ Moves(r, IF Own(r).staged THEN "agent" ELSE "build")
    BY <1>11 DEF Lock, RunAt
  <2> QED BY <1>3, <2>1
<1>12. ASSUME NEW r \in Runs, Build(r) \/ Stage(r) PROVE Replied(d)'
  <2>1. /\ run[r].pc \in {"build", "link"} /\ UNCHANGED past
        /\ Moves(r, "link") \/ Moves(r, "fetch") \/ Moves(r, "agent")
    BY <1>12 DEF Build, Stage, RunAt
  <2>2. run[r].w \in Runs /\ volume[run[r].w] \in VolumeType
    BY <1>0, <2>1 DEF Placed, RunTypeOK, RunAt
  <2>3. \A w \in Runs : volume'[w].told = volume[w].told /\ volume'[w].session = volume[w].session
    <3>1. CASE Build(r)  BY <1>0, <2>2, <3>1 DEF Build, RunTypeOK, VolumeType
    <3>2. CASE Stage(r)  BY <1>0, <2>2, <3>2 DEF Stage, RunTypeOK, VolumeType
    <3> QED BY <1>12, <3>1, <3>2
  <2> QED BY <1>3, <2>1, <2>3
<1>13. ASSUME NEW r \in Runs, Fetch(r) PROVE Replied(d)'
  <2>1. run[r].pc = "fetch" /\ UNCHANGED <<volume, past, losses>>  BY <1>13 DEF Fetch, RunAt
  <2>2. CASE data
    BY <1>0, <1>2, <1>13, <2>1, <2>2, AgainQuits, NotTorn
       DEF Fetch, AttemptFails, Killed, Stops, RunTypeOK, RunAt
  <2>3. CASE ~data  BY <1>3, <1>13, <2>1, <2>3 DEF Fetch
  <2> QED BY <2>2, <2>3
<1>14. ASSUME NEW r \in Runs,
              SetupFails(r) \/ TurnEnds(r) \/ Silence(r) \/ TurnFails(r) \/ PodLost(r)
       PROVE  Replied(d)'
  BY <1>0, <1>2, <1>14, StopSteps
<1>15. CASE UNCHANGED runVars
  BY <1>0, <1>15, ReplySame DEF runVars
<1> QED BY <1>1, <1>4, <1>5, <1>6, <1>7, <1>8, <1>9, <1>10, <1>11, <1>12, <1>13, <1>14, <1>15
        DEF RunNext, Step

\* A reply reaches the agent at most once more often than an attempt was lost between
\* OpenCode's taking it and its first event, and a run that ends well has given it, unless
\* there was no session to give it to, for any number of retries and resumed turns.
THEOREM RepliesReachOnce == RunSpec => []ReplyOnce
<1>1. RunInit => Replies
  BY DEF RunInit, NotRun, Bare, Replies, Replied, RunAt
<1>2. RunInv /\ Replies => ReplyOnce
  BY DEF RunInv, RunTypeOK, PastType, Replies, Replied, ReplyOnce, RunAt
<1> QED BY <1>1, <1>2, StepReplies, RunInvHolds, PTL DEF RunSpec
====
