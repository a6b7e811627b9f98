--------------------------- MODULE MattermostAgent ---------------------------
(***************************************************************************)
(* The Mattermost agent (apps/mattermost-agent/agent.py): one asyncio      *)
(* program with a poller, a task per post it answers, the pages of two     *)
(* logins, and two files that outlast its pod.                             *)
(*                                                                         *)
(* Mattermost, the Hub, the model and the people are external.  An action  *)
(* is what the program does between two awaits.  Entries past their expiry *)
(* count as absent (Lapse).  A person's code is never shown to another.    *)
(***************************************************************************)
EXTENDS Integers, FiniteSets, FiniteSetsExt, Sequences, Functions

CONSTANTS
  Users,      \* Mattermost accounts of people; a direct message each
  Hubs,       \* Hub accounts
  HubOf,      \* Mattermost account -> the Hub account of the same person
  Home,       \* the bot's channel
  Order,      \* the conversations in the order they are polled in, Home first
  None,       \* nothing: no link, no code, no lock
  Writes,     \* the posts people may write: [user, conv, kind]
  Limit,      \* USER_LIMIT
  Slots,      \* CONCURRENT_ANSWERS
  Turns,      \* MAX_TURNS
  Attempts,   \* CODE_ATTEMPTS
  MaxPosts,   \* bound: posts
  MaxEdits,   \* bound: posts edited
  MaxLogins,  \* bound: Hub logins
  MaxExpiries,\* bound: times the access token expires
  MaxFaults,  \* bound: calls that fail, revocations, lapses, restarts
  MaxTrouble  \* bound: the last three together, a lost refresh aside

ASSUME NamesAssumption ==
  /\ None \notin Users \cup Hubs \cup {Home} /\ Home \notin Users /\ HubOf \in [Users -> Hubs]
  /\ Order \in Seq(Users \cup {Home}) /\ Range(Order) = Users \cup {Home}
ASSUME WritesAssumption ==
  Writes \subseteq [user : Users, conv : Users \cup {Home},
                   kind : {"ask", "reply", "link", "unlink", "code"}]
ASSUME BoundsAssumption ==
  /\ {Limit, Slots, Turns, Attempts} \subseteq Nat \ {0}
  /\ {MaxPosts, MaxEdits, MaxLogins, MaxExpiries, MaxFaults, MaxTrouble} \subseteq Nat

VARIABLES
  posts,   \* Mattermost: posts in the order of their creation
  mm,      \* Mattermost: the newest tokens and what of them it still takes
  auth,    \* OAuth: its tokens, ready, the holder of its lock
  file,    \* the two files: tokens, and [linked, pending]
  links,   \* Linking: linked, pending, codes
  hub,     \* the Hub: live tokens, logins under way, the codes it led people to
  poller,  \* Agent.poll: where it is, its cursors and conversations
  task,    \* Agent.handle: <<post, n>> -> the n-th task for that post
  asked,   \* Agent.asked and Agent.warned
  hist,    \* history: posts passed over, conversations lost, who unlinked
  clock, spent

vars == <<posts, mm, auth, file, links, hub, poller, task, asked, hist, clock, spent>>

Convs  == Range(Order)
Tasks  == (1..MaxPosts) \X (1..2)
Poller == <<0, 0>>
Actors == Tasks \cup {Poller}
ASSUME ActorsAssumption == None \notin Actors
Dms    == {posts[i].conv : i \in DOMAIN posts} \ {Home}

NoTask == [pc |-> "none", text |-> "", hub |-> None, tok |-> None, turn |-> 0, ran |-> FALSE]
NoLinks == [u \in Users |-> None]
Old(u)  == [id |-> Poller, hub |-> HubOf[u]]   \* a link of an earlier run

\* The bot has its tokens, and people have linked their accounts before.
Init ==
  /\ posts = <<>> /\ clock = 1
  /\ mm = [gen |-> 1, access |-> TRUE, refresh |-> TRUE]
  /\ auth = [gen |-> 1, ready |-> TRUE, lock |-> None, sent |-> [x \in Actors |-> 0],
             rejected |-> [x \in Actors |-> 0], login |-> FALSE]
  /\ file = [gen |-> 1, linked |-> [u \in Users |-> Old(u)], pending |-> {}]
  /\ links = [linked |-> [u \in Users |-> Old(u)], pending |-> {}, codes |-> NoLinks]
  /\ hub = [tokens |-> {Old(u) : u \in Users}, logins |-> {}, seen |-> {}]
  /\ poller = [pc |-> "look", looked |-> FALSE, known |-> {}, todo |-> {}, conv |-> None,
               from |-> 0, list |-> {}, reply |-> 0, cursor |-> [c \in Convs |-> 0]]
  /\ task = [t \in Tasks |-> NoTask]
  /\ asked = [u \in Users |-> [n |-> 0, warned |-> FALSE]]
  /\ hist = [unlinked |-> {}, lost |-> FALSE, due |-> {}]
  /\ spent = [edits |-> 0, expiries |-> 0, faults |-> 0, logins |-> 0]

Spends(what, most) ==
  /\ spent[what] < most /\ spent' = [spent EXCEPT ![what] = @ + 1]
  /\ what # "logins" => spent.edits + spent.expiries + spent.faults < MaxTrouble
Fault == Spends("faults", MaxFaults)

outside == <<posts, clock>>   \* what people write
tokens  == <<mm, auth>>       \* the bot's own login

-----------------------------------------------------------------------------
(* OAuth: every call to Mattermost carries its token. *)

\* x is not in token(): its call is with Mattermost.  It gets through with the tokens at
\* hand, or fails.
Sending(x) == auth.rejected[x] = 0 /\ auth.sent[x] = 0
Call(x)    == auth.gen = mm.gen /\ mm.access /\ Sending(x)
Fails(x)   == Sending(x) /\ Fault

\* x waits for an answer of Mattermost.
Calls(x) == IF x = Poller THEN poller.pc \in {"look", "thread"}
                               \/ (poller.pc = "read" /\ poller.todo # {} /\ poller.list = {})
            ELSE task[x].pc = "reply"

\* Its token is not fresh, or Mattermost rejects it: it asks token() for another.
Reject(x) ==
  /\ Calls(x) /\ Sending(x) /\ auth.gen # 0
  /\ ~(auth.gen = mm.gen /\ mm.access)
  /\ auth' = [auth EXCEPT !.rejected[x] = auth.gen]
  /\ UNCHANGED <<outside, mm, file, links, hub, poller, task, asked, hist, spent>>

\* Mutant: the lock is not waited for.
TokenUnlocked(x) ==
  /\ auth.rejected[x] # 0 /\ auth.sent[x] = 0 /\ auth.gen # 0
  /\ IF auth.gen # auth.rejected[x]
     THEN auth' = [auth EXCEPT !.rejected[x] = 0]
     ELSE auth' = [auth EXCEPT !.lock = x, !.sent[x] = auth.gen]
  /\ UNCHANGED <<outside, mm, file, links, hub, poller, task, asked, hist, spent>>

\* token(): another task may have replaced the rejected one; else refresh it.
Token(x) ==
  /\ auth.rejected[x] # 0 /\ auth.sent[x] = 0 /\ auth.gen # 0 /\ auth.lock = None
  /\ IF auth.gen # auth.rejected[x]
     THEN auth' = [auth EXCEPT !.rejected[x] = 0]
     ELSE auth' = [auth EXCEPT !.lock = x, !.sent[x] = auth.gen]
  /\ UNCHANGED <<outside, mm, file, links, hub, poller, task, asked, hist, spent>>

\* x's call ends without an answer: a task ends without its reply, the poll ends.
Done(t, pc) == task' = [task EXCEPT ![t] = [NoTask EXCEPT !.pc = pc]]
Aborts(pc)  == poller' = [poller EXCEPT !.pc = pc, !.todo = {}, !.list = {}, !.conv = None,
                                        !.from = 0, !.reply = 0]
Ends(x) == IF x = Poller THEN Aborts("read") /\ UNCHANGED task
           ELSE Done(x, "silent") /\ UNCHANGED poller
Quit(x, a) == [a EXCEPT !.rejected[x] = 0, !.sent[x] = 0,
                        !.lock = IF @ = x THEN None ELSE @]

\* store(): the tokens are on the volume before the next await; none, once forgotten.
Store(a, g) == auth' = [a EXCEPT !.gen = g] /\ file' = [file EXCEPT !.gen = g]

\* refresh() is answered: store() writes the new tokens before the lock is let go.
Refresh(x) ==
  /\ auth.sent[x] # 0 /\ auth.sent[x] = mm.gen /\ mm.refresh
  /\ mm' = [mm EXCEPT !.gen = @ + 1, !.access = TRUE]
  /\ Store(Quit(x, auth), mm.gen + 1)
  /\ UNCHANGED <<outside, links, hub, poller, task, asked, hist, spent>>

\* Its answer is lost, whether Mattermost replaced the tokens or not.
RefreshLost(x) ==
  /\ auth.sent[x] # 0
  /\ spent.faults < MaxFaults /\ spent' = [spent EXCEPT !.faults = @ + 1]
  /\ mm' \in {mm, [mm EXCEPT !.gen = @ + 1, !.access = TRUE]}
  /\ auth' = Quit(x, auth) /\ Ends(x)
  /\ UNCHANGED <<outside, file, links, hub, asked, hist>>

\* Unauthorized: refused, or there are no tokens; only the poller forgets them.
Unauthorized(x) ==
  /\ \/ auth.sent[x] # 0 /\ ~(auth.sent[x] = mm.gen /\ mm.refresh)
     \/ auth.gen = 0 /\ auth.sent[x] = 0 /\ Calls(x)
  /\ IF x = Poller
     THEN /\ Store([Quit(x, auth) EXCEPT !.ready = FALSE], 0)
          /\ Aborts("wait")
          /\ UNCHANGED task
     ELSE auth' = Quit(x, auth) /\ Ends(x) /\ UNCHANGED file
  /\ UNCHANGED <<outside, mm, links, hub, asked, hist, spent>>

\* login: the page leads to Mattermost while the bot has no tokens.
StartLogin ==
  /\ ~auth.ready /\ ~auth.login
  /\ auth' = [auth EXCEPT !.login = TRUE]
  /\ UNCHANGED <<outside, mm, file, links, hub, poller, task, asked, hist, spent>>

\* callback(): kept under the lock, if it is the service account's.
Callback ==
  /\ auth.login
  /\ \/ /\ auth.lock = None
        /\ mm' = [gen |-> mm.gen + 1, access |-> TRUE, refresh |-> TRUE]
        /\ Store([auth EXCEPT !.login = FALSE, !.ready = TRUE], mm.gen + 1)
     \/ auth' = [auth EXCEPT !.login = FALSE] /\ UNCHANGED <<mm, file>>
  /\ UNCHANGED <<outside, links, hub, poller, task, asked, hist, spent>>

-----------------------------------------------------------------------------
(* Agent.polling: from a look at the conversations to the tasks it starts. *)

\* The poll after POLL_SECONDS; a look at the conversations every CHANNELS_SECONDS.
Awake   == \/ poller.pc = "read" /\ poller.todo = {} /\ poller.list = {}
           \/ poller.pc = "wait" /\ auth.ready
LookDue ==
  /\ Awake /\ poller' = [poller EXCEPT !.pc = "look"]
  /\ UNCHANGED <<outside, tokens, file, links, hub, task, asked, hist, spent>>
Poll ==
  /\ Awake /\ poller.looked
  /\ poller' = [poller EXCEPT !.pc = "read", !.todo = poller.known \cup {Home}]
  /\ UNCHANGED <<outside, tokens, file, links, hub, task, asked, hist, spent>>

\* A conversation that appeared since the last look is all new.
Looks(dms) ==
  poller' = [poller EXCEPT !.pc = "read", !.looked = TRUE, !.known = dms,
               !.todo = dms \cup {Home},
               !.cursor = [c \in Convs |->
                  IF poller.looked /\ c \in dms \ poller.known THEN 1 ELSE poller.cursor[c]]]

\* Mattermost.channels: where neither the channel nor the team is found, there are
\* no conversations.
Look ==
  /\ poller.pc = "look" /\ Call(Poller)
  /\ \/ Looks(Dms) /\ UNCHANGED <<spent, hist>>
     \/ /\ Fault
        /\ poller' = [poller EXCEPT !.pc = "read", !.looked = TRUE, !.known = {}, !.todo = {}]
        /\ hist' = [hist EXCEPT !.lost = TRUE]
     \/ Fault /\ Aborts("read") /\ UNCHANGED hist
  /\ UNCHANGED <<outside, tokens, file, links, hub, task, asked>>

Settled(p) == IF p.list = {} THEN [p EXCEPT !.conv = None, !.from = 0] ELSE p
First(todo) == Order[Min({n \in DOMAIN Order : Order[n] \in todo})]

\* latest() where the polling of a conversation starts, since() from then on.
Read ==
  /\ poller.pc = "read" /\ poller.list = {} /\ poller.todo # {} /\ Call(Poller)
  /\ LET c == First(poller.todo)
         here == {i \in DOMAIN posts : posts[i].conv = c}
         from == poller.cursor[c]
     IN poller' =
          IF from = 0
          THEN [poller EXCEPT !.todo = @ \ {c},
                  !.cursor[c] = Max({posts[i].upd : i \in here} \cup {1})]
          ELSE Settled([poller EXCEPT !.todo = @ \ {c}, !.conv = c, !.from = from,
                  !.list = {<<i, posts[i].upd>> : i \in {j \in here : posts[j].upd > from}}])
  /\ UNCHANGED <<outside, tokens, file, links, hub, task, asked, hist, spent>>

\* Mattermost refuses one conversation, or the poll ends.
ReadFails ==
  /\ poller.pc = "read" /\ poller.list = {} /\ poller.todo # {} /\ Fails(Poller)
  /\ \/ poller' = [poller EXCEPT !.todo = @ \ {First(@)}]
     \/ Aborts("read")
  /\ UNCHANGED <<outside, tokens, file, links, hub, task, asked, hist>>

\* A task for the post.  A third, where two looks found no conversations, takes the place
\* of the second.
Starts(i) ==
  LET n == IF task[<<i, 1>>] = NoTask THEN 1 ELSE 2
  IN task' = [task EXCEPT ![<<i, n>>] = [NoTask EXCEPT !.pc = "new"]]

\* Mutant: an edited post counts as new.
NewEdited(i, from) == posts[i].upd > from

\* by_a_person: new, by its creation.
New(i, from) == posts[i].at > from

\* The next post of the listing, in the order of creation; the cursor first.
Take ==
  /\ poller.pc = "read" /\ poller.list # {}
  /\ LET i == Min({e[1] : e \in poller.list})
         e == CHOOSE f \in poller.list : f[1] = i
         moved == [poller EXCEPT !.list = @ \ {e},
                     !.cursor[poller.conv] = Max({@, e[2]})]
     IN IF ~New(i, poller.from)
        THEN poller' = Settled(moved) /\ UNCHANGED task
        ELSE IF posts[i].kind = "reply"
        THEN poller' = [moved EXCEPT !.pc = "thread", !.reply = i] /\ UNCHANGED task
        ELSE poller' = Settled(moved) /\ Starts(i)
  /\ UNCHANGED <<outside, tokens, file, links, hub, asked, hist, spent>>

\* replies_to_bot: a reply without a mention counts in a thread the bot is in.
Thread ==
  /\ poller.pc = "thread"
  /\ \/ Call(Poller) /\ UNCHANGED spent /\ Starts(poller.reply)
        /\ poller' = Settled([poller EXCEPT !.pc = "read", !.reply = 0])
     \/ Fails(Poller) /\ UNCHANGED task /\ Aborts("read")
  /\ UNCHANGED <<outside, tokens, file, links, hub, asked, hist>>

-----------------------------------------------------------------------------
(* Linking: who on Mattermost is who on the Hub. *)

Who(t)  == posts[t[1]].user
At(t, pc) == task[t].pc = pc
Goes(t, pc) == task' = [task EXCEPT ![t].pc = pc]
Says(t, text) == task' = [task EXCEPT ![t].pc = "reply", ![t].text = text]

\* save(): what is linked and pending is on the volume before the next await.
Keep(new) == /\ links' = new
             /\ file' = [file EXCEPT !.linked = new.linked, !.pending = new.pending]

Forget(u) ==
  IF links.linked[u] = None THEN UNCHANGED <<links, file>>
  ELSE Keep([links EXCEPT !.linked[u] = None])

Confirming(u) == \E t \in Tasks : task[t].pc \in {"mint", "retire"} /\ Who(t) = u

\* command(): `unlink`, and `link`, whose reply carries the only link that works.
Unlink(t) ==
  /\ Says(t, IF links.linked[Who(t)] = None THEN "not linked" ELSE "unlinked")
  /\ Forget(Who(t))
  /\ hist' = IF Confirming(Who(t)) THEN hist
             ELSE [hist EXCEPT !.unlinked = @ \cup {Who(t)}]

Link(t) ==
  /\ Says(t, "link")
  /\ Keep([links EXCEPT !.pending = @ \cup {Who(t)}])
  /\ UNCHANGED hist

\* Mutant: whatever its owner sends confirms it.
MatchesAny(entry, n) == TRUE

Matches(entry, n) == entry.code = n

\* confirm(), up to the first await: a code works once, and is tried a few times.
Confirm(t) ==
  LET u == Who(t)
      n == posts[t[1]].code
      entry == links.codes[u]
      codes(e) == links' = [links EXCEPT !.codes[u] = e]
  IN /\ IF entry = None THEN Says(t, "bad code") /\ UNCHANGED <<links, hist>>
        ELSE IF ~Matches(entry, n)
        THEN /\ Says(t, "bad code") /\ UNCHANGED hist
             /\ codes(IF entry.tries + 1 >= Attempts THEN None
                      ELSE [entry EXCEPT !.tries = @ + 1])
        ELSE /\ codes(None)
             /\ task' = [task EXCEPT ![t].pc = "mint", ![t].hub = entry.hub]
             /\ hist' = [hist EXCEPT !.unlinked = @ \ {u}]
     /\ UNCHANGED file

\* The Hub mints a token, named here for its task; its answer may be lost.
Mint(t) ==
  /\ At(t, "mint")
  /\ LET minted == [hub EXCEPT !.tokens = @ \cup {[id |-> t, hub |-> task[t].hub]}]
     IN \/ hub' = minted /\ Goes(t, "retire") /\ UNCHANGED spent
        \/ Fault /\ Done(t, "silent") /\ hub' \in {hub, minted}
  /\ UNCHANGED <<outside, tokens, file, links, poller, asked, hist>>

\* One Hub account is linked to one Mattermost account.
Others(h) == [u \in Users |-> IF links.linked[u] # None /\ links.linked[u].hub = h
                              THEN None ELSE links.linked[u]]

\* retire() removes the account's other tokens; then the link is made.
Retire(t) ==
  /\ At(t, "retire")
  /\ LET h == task[t].hub
         mine == {k \in hub.tokens : k.hub = h /\ k.id # t}
     IN \/ /\ hub' = [hub EXCEPT !.tokens = @ \ mine]
           /\ Keep([links EXCEPT !.linked = [Others(h) EXCEPT ![Who(t)] = [id |-> t, hub |-> h]]])
           /\ Says(t, "linked") /\ UNCHANGED spent
        \/ /\ Fault /\ Done(t, "silent") /\ UNCHANGED <<links, file>>
           /\ \E gone \in SUBSET mine : hub' = [hub EXCEPT !.tokens = @ \ gone]
  /\ UNCHANGED <<outside, tokens, poller, asked, hist>>

\* A link is opened, by whomever it was forwarded to, and its login taken up once.
HubLogin(u, h) ==
  /\ u \in links.pending /\ Spends("logins", MaxLogins)
  /\ Keep([links EXCEPT !.pending = @ \ {u}])
  /\ hub' = [hub EXCEPT !.logins = @ \cup {[user |-> u, hub |-> h, n |-> spent.logins + 1]}]
  /\ UNCHANGED <<outside, tokens, poller, task, asked, hist>>

\* login(), after its awaits: the page shows the code to who logged in.
Coded(l) ==
  /\ hub' = [hub EXCEPT !.logins = @ \ {l}, !.seen = @ \cup {<<l.hub, l.n>>}]
  /\ links' = [links EXCEPT !.codes[l.user] = [code |-> l.n, hub |-> l.hub, tries |-> 0]]
  /\ UNCHANGED <<outside, tokens, file, poller, task, asked, hist, spent>>

\* exchange(): the Hub gives no token for the login's code.
NotExchanged(l) ==
  /\ Fault
  /\ hub' = [hub EXCEPT !.logins = @ \ {l}]
  /\ UNCHANGED <<outside, tokens, file, links, poller, task, asked, hist>>

-----------------------------------------------------------------------------
(* Agent.handle and Agent.answer: a task per post. *)

Answering == {t \in Tasks : task[t].pc \in {"intent", "owner", "turn"}}

\* A command of a direct message; elsewhere it is told to come there.
Command(t, kind) ==
  IF posts[t[1]].conv = Home
  THEN Says(t, "only in dm") /\ UNCHANGED <<links, file, hist>>
  ELSE \/ kind = "link" /\ Link(t)
       \/ kind = "unlink" /\ Unlink(t)
       \/ kind = "code" /\ Confirm(t)

Handle(t) ==
  /\ At(t, "new") /\ posts[t[1]].kind \in {"link", "unlink", "code"}
  /\ Command(t, posts[t[1]].kind)
  /\ UNCHANGED <<outside, tokens, hub, poller, asked, spent>>

\* allowed(): over the limit, a person is told once.
Allow(t) ==
  /\ At(t, "new") /\ posts[t[1]].kind \in {"ask", "reply"}
  /\ LET u == Who(t)
     IN IF asked[u].n < Limit
        THEN /\ asked' = [asked EXCEPT ![u] = [n |-> @.n + 1, warned |-> FALSE]]
             /\ Goes(t, "slot")
        ELSE /\ asked' = [asked EXCEPT ![u].warned = TRUE]
             /\ IF asked[u].warned THEN Done(t, "silent") ELSE Says(t, "limited")
  /\ UNCHANGED <<outside, tokens, file, links, hub, poller, hist, spent>>

Slot(t) ==
  /\ At(t, "slot") /\ Cardinality(Answering) < Slots
  /\ Goes(t, "intent")
  /\ UNCHANGED <<outside, tokens, file, links, hub, poller, asked, hist, spent>>

\* intent(): what the model takes the author's own posts for.
Intent(t) ==
  /\ At(t, "intent")
  /\ \/ Goes(t, "turn") /\ UNCHANGED <<links, file, hist>>
     \/ \E kind \in {"link", "unlink"} : Command(t, kind)
     \/ /\ UNCHANGED <<links, file, hist>>
        /\ IF links.linked[Who(t)] = None THEN Says(t, "needs link")
           ELSE task' = [task EXCEPT ![t].pc = "owner", ![t].tok = links.linked[Who(t)]]
  /\ UNCHANGED <<outside, tokens, hub, poller, asked, spent>>

\* The Hub is asked whose the token is; refused, the link is forgotten.
Owner(t) ==
  /\ At(t, "owner")
  /\ IF task[t].tok \in hub.tokens THEN Goes(t, "turn") /\ UNCHANGED <<links, file>>
     ELSE Says(t, "needs link") /\ Forget(Who(t))
  /\ UNCHANGED <<outside, tokens, hub, poller, asked, hist, spent>>

\* Mutant: no text means no answer, whatever ran.
NoTextSorry(t) == "sorry"

\* No text: what ran is said, so that nothing is done twice.
NoText(t) == IF task[t].ran THEN "acted" ELSE "sorry"

\* The turn's tools, one of the person's own among them or not.
Tools(t) ==
  /\ task[t].turn < Turns - 1
  /\ \E own \in BOOLEAN :
       task' = [task EXCEPT ![t].turn = @ + 1, ![t].ran = @ \/ (own /\ task[t].tok # None)]

\* A turn of the model: text, nothing, or tools, which the last turn has none of.
Turn(t) ==
  /\ At(t, "turn")
  /\ \/ Says(t, "answer")
     \/ Says(t, NoText(t))
     \/ Tools(t)
  /\ UNCHANGED <<outside, tokens, file, links, hub, poller, asked, hist, spent>>

\* A call of the answer fails, or it takes more than ANSWER_SECONDS.
Sorry(t) ==
  /\ t \in Answering /\ Fault
  /\ Says(t, "sorry")
  /\ UNCHANGED <<outside, tokens, file, links, hub, poller, asked, hist>>

Reply(t) ==
  /\ At(t, "reply")
  /\ \/ Call(t) /\ Done(t, "sent") /\ UNCHANGED spent
     \/ Fails(t) /\ Done(t, "silent")
  /\ UNCHANGED <<outside, tokens, file, links, hub, poller, asked, hist>>

-----------------------------------------------------------------------------
(* People, time, and a restart of the pod. *)

\* A code is one its writer was shown, or a guess.
Write(w) ==
  /\ Len(posts) < MaxPosts
  /\ \E n \in IF w.kind # "code" THEN {0}
              ELSE {0} \cup {s[2] : s \in {q \in hub.seen : q[1] = HubOf[w.user]}} :
       posts' = Append(posts, [user |-> w.user, conv |-> w.conv, kind |-> w.kind,
                               code |-> n, at |-> clock + 1, upd |-> clock + 1])
  /\ clock' = clock + 1
  /\ hist' = IF poller.looked /\ (poller.cursor[w.conv] # 0
                                  \/ w.conv \notin poller.known \cup {Home})
             THEN [hist EXCEPT !.due = @ \cup {Len(posts) + 1}] ELSE hist
  /\ UNCHANGED <<tokens, file, links, hub, poller, task, asked, spent>>

Edit(i) ==
  /\ Spends("edits", MaxEdits)
  /\ posts' = [posts EXCEPT ![i].upd = clock + 1] /\ clock' = clock + 1
  /\ UNCHANGED <<tokens, file, links, hub, poller, task, asked, hist>>

\* The access token expires; Mattermost, or the Hub, takes back what it gave.
Expire ==
  /\ Spends("expiries", MaxExpiries)
  /\ mm' = [mm EXCEPT !.access = FALSE]
  /\ UNCHANGED <<outside, auth, file, links, hub, poller, task, asked, hist>>

Revoke ==
  /\ Fault
  /\ \/ mm' = [mm EXCEPT !.access = FALSE, !.refresh = FALSE] /\ UNCHANGED hub
     \/ hub' = [hub EXCEPT !.tokens = {}] /\ UNCHANGED mm
  /\ UNCHANGED <<outside, auth, file, links, poller, task, asked, hist>>

\* LINK_SECONDS, CODE_SECONDS, TOKEN_SECONDS or USER_WINDOW_SECONDS pass.
Lapse(u) ==
  /\ Fault
  /\ \/ /\ \/ Keep([links EXCEPT !.pending = @ \ {u}])
           \/ Keep([links EXCEPT !.codes[u] = None])
           \/ Keep([links EXCEPT !.linked[u] = None])
        /\ UNCHANGED asked
     \/ asked' = [asked EXCEPT ![u].n = 0] /\ UNCHANGED <<links, file>>
  /\ UNCHANGED <<outside, tokens, hub, poller, task, hist>>

\* Only the files outlast the pod.
Restart ==
  /\ Fault
  /\ auth' = [gen |-> file.gen, ready |-> file.gen # 0, lock |-> None, login |-> FALSE,
              sent |-> [x \in Actors |-> 0], rejected |-> [x \in Actors |-> 0]]
  /\ links' = [linked |-> file.linked, pending |-> file.pending, codes |-> NoLinks]
  /\ hub' = [hub EXCEPT !.logins = {}]
  /\ poller' = [pc |-> "wait", looked |-> FALSE, known |-> {}, todo |-> {}, conv |-> None,
                from |-> 0, list |-> {}, reply |-> 0, cursor |-> [c \in Convs |-> 0]]
  /\ task' = [t \in Tasks |-> IF task[t].pc \in {"none", "sent", "silent"} THEN task[t]
                              ELSE [NoTask EXCEPT !.pc = "silent"]]
  /\ asked' = [u \in Users |-> [n |-> 0, warned |-> FALSE]]
  /\ UNCHANGED <<outside, mm, file, hist>>

PollStep == LookDue \/ Poll \/ Look \/ Read \/ ReadFails \/ Take \/ Thread
TaskStep(t) ==
  \/ Handle(t) \/ Mint(t) \/ Retire(t) \/ Allow(t) \/ Slot(t) \/ Intent(t) \/ Owner(t)
  \/ Turn(t) \/ Sorry(t) \/ Reply(t)
TokenStep(x) == Reject(x) \/ Token(x) \/ Refresh(x) \/ RefreshLost(x) \/ Unauthorized(x)
LoginStep == \/ \E u \in Users, h \in Hubs : HubLogin(u, h)
             \/ \E l \in hub.logins : Coded(l) \/ NotExchanged(l)
             \/ StartLogin \/ Callback

Next ==
  \/ PollStep
  \/ \E t \in Tasks : TaskStep(t)
  \/ \E x \in Actors : TokenStep(x)
  \/ LoginStep
  \/ \E w \in Writes : Write(w)
  \/ \E i \in DOMAIN posts : Edit(i)
  \/ Expire \/ Revoke \/ Restart
  \/ \E u \in Users : Lapse(u)

Spec == Init /\ [][Next]_vars

-----------------------------------------------------------------------------
(* Properties. *)

\* Once the service account logged in it need not again, however the poller's and
\* the tasks' refreshes interleave: no refresh token is sent twice.
LoginLasts == spent.faults = 0 => auth.ready

\* The Hub account a Mattermost account is linked to is the same person's, whoever opened a
\* forwarded link, guessed a code or was shown one; and who unlinked is not linked, before or
\* after a restart, until they send a code again.  A code that was being confirmed as they
\* unlinked may still link them.
LinksTrue ==
  /\ \A u \in Users : links.linked[u] # None => links.linked[u].hub = HubOf[u]
  /\ \A u \in hist.unlinked : links.linked[u] = None /\ file.linked[u] = None

\* A post is handled once.  It starts no second task, whether it is edited, its conversation
\* is new or the bot logs in again, unless a look found no conversations; and while no call
\* fails, none that polling had started for is passed over by its conversation's cursor.
ExactlyOnce ==
  /\ \A i \in 1..MaxPosts : task[<<i, 2>>] # NoTask => hist.lost
  /\ spent.faults = 0 =>
       \A i \in hist.due :
         poller.cursor[posts[i].conv] >= posts[i].upd
           => \/ task[<<i, 1>>] # NoTask \/ poller.reply = i
              \/ poller.conv = posts[i].conv /\ \E e \in poller.list : e[1] = i

\* An answer that used a person's tools does not end in "try again", while no call fails.
ToldWhatRan ==
  spent.faults = 0 => \A t \in Tasks : task[t].ran => task[t].text # "sorry"
====
