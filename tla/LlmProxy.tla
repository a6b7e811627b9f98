------------------------------ MODULE LlmProxy ------------------------------
(***************************************************************************)
(* The proxy of the agents' models (apps/agentic-analysis/llm_proxy.py).   *)
(*                                                                         *)
(* Every request runs in a thread of its own: Handler.do_POST counts it in *)
(* and calls Proxy.forward, which picks a backend, waits in that model's   *)
(* Gate for room, sends the request on, and goes round again until it has  *)
(* a reply fit for the agent or a final error.  The threads share the      *)
(* gates, the sessions' last backends and the server's count of requests.  *)
(* _stop, in up to two more threads, drains the server and exits.          *)
(*                                                                         *)
(* An action is what a thread does under one lock, or between two of them. *)
(* Time is what the code compares it to: a request's hold has passed or    *)
(* not, a gate is paused or not, and so on; each may pass at any moment.   *)
(***************************************************************************)
EXTENDS Integers, Sequences, FiniteSets, FiniteSetsExt

CONSTANTS
  Clients,      \* who asks, one request at a time each
  Models,       \* NRP's models
  Backends,     \* client -> its role's models, in order of preference
  Rank,         \* client -> its role's queue class
  Session,      \* client -> its (role, session), or None without a session
  None,
  Prompt,       \* client -> model -> prompt tokens of its requests
  Asked,        \* client -> the max_tokens it asks for, 0 for none
  Floor,        \* model -> max_tokens[0]
  Ceiling,      \* model -> max_tokens[1]
  Share,        \* model -> int(SHARE * context), fair use
  Budget,       \* model -> budget
  StartSlots,   \* model -> slots[0]
  MaxSlots,     \* model -> slots[1]
  CutRetries,   \* cut_retries
  StickyMax,    \* STICKY
  Outcomes,     \* bound: what a try may end in
  Streaming,    \* clients that ask for a stream, whose leaving is noticed
  Expiring,     \* bound: clients whose hold may pass
  Stops         \* bound: the threads that may stop the proxy

AllOutcomes == {"whole", "bad", "cut", "early", "limited", "error", "refused", "raised"}

\* load: what models.toml may say.  A budget is fraction * SHARE * context,
\* so it is within fair use, unless the model sets its own.
ConfigOK ==
  /\ Floor \in [Models -> Nat \ {0}] /\ Ceiling \in [Models -> Nat]
  /\ StartSlots \in [Models -> Nat \ {0}] /\ MaxSlots \in [Models -> Nat]
  /\ Budget \in [Models -> Nat] /\ Share \in [Models -> Nat]
  /\ Rank \in [Clients -> Nat] /\ Backends \in [Clients -> Seq(Models) \ {<<>>}]
  /\ \A m \in Models : StartSlots[m] <= MaxSlots[m] /\ Floor[m] <= Ceiling[m]

ASSUME Config == ConfigOK
ASSUME Inputs == /\ IsFiniteSet(Clients) /\ None \notin Models
                 /\ Prompt \in [Clients -> [Models -> Nat]]
                 /\ Asked \in [Clients -> Nat]
                 /\ CutRetries \in Nat /\ StickyMax \in Nat \ {0}
ASSUME Bounds == /\ Outcomes \subseteq AllOutcomes
                 /\ Streaming \subseteq Clients /\ Expiring \subseteq Clients

Keys == {Session[c] : c \in Clients} \ {None}

VARIABLES
  slots, busy, held,   \* Gate: per model, what may be and what is in flight
  paused,     \* ... now < paused_until
  spent,      \* ... _out(now) >= output_per_minute
  cooldown,   \* ... since `adjusted`: 0 under SHRINK_PERIOD, 1 under GROW_PERIOD, else 2
  failing,    \* ... since `failing_since`: under FAILING_SECONDS ("recent") or over ("long")
  unhealthy,  \* ... now < unhealthy_until
  sticky,     \* Proxy.sticky: key -> model or None
  older,      \* ... its order: the keys before each in the OrderedDict
  pc,         \* where each client's thread is
  backend,    \* forward's locals: the model picked,
  tokens,     \* ... the tokens the request holds in its gate,
  cuts, shrink, streamed, outcome,
  expired,    \* ... now >= deadline
  gone,       \* _stream's `gone`, which cancelled() reads
  ahead,      \* Gate.waiting: who waited before this one and still does
  age,        \* ... (now - since) // AGING, to Rank
  answer,     \* what forward returned
  inFlight, stopping, draining, exited,
  stop        \* _stop, per thread

gates  == <<slots, busy, held, paused, spent, cooldown, failing, unhealthy>>
kept   == <<sticky, older>>
locals == <<backend, tokens, cuts, shrink, streamed, outcome, expired, gone>>
queue  == <<ahead, age>>
server == <<inFlight, stopping, draining, exited, stop>>
vars   == <<gates, kept, pc, locals, queue, answer, server>>

PCs == {"idle", "picking", "waiting", "sending", "settling", "backoff", "answering"}
Answers == {"none", "reply", "streamed", "gone", "refused", "full",
            "failing", "restarting", "cut", "too_big"}

TypeOK ==
  /\ slots \in [Models -> Nat \ {0}] /\ busy \in [Models -> Nat] /\ held \in [Models -> Int]
  /\ paused \in [Models -> BOOLEAN] /\ spent \in [Models -> BOOLEAN]
  /\ cooldown \in [Models -> 0..2]
  /\ failing \in [Models -> {"no", "recent", "long"}]
  /\ unhealthy \in [Models -> BOOLEAN]
  /\ sticky \in [Keys -> Models \cup {None}] /\ older \in [Keys -> SUBSET Keys]
  /\ pc \in [Clients -> PCs] /\ backend \in [Clients -> Models \cup {None}]
  /\ tokens \in [Clients -> Int] /\ cuts \in [Clients -> Nat]
  /\ shrink \in [Clients -> Nat] /\ streamed \in [Clients -> BOOLEAN]
  /\ outcome \in [Clients -> AllOutcomes \cup {"none"}]
  /\ expired \in [Clients -> BOOLEAN] /\ gone \in [Clients -> BOOLEAN]
  /\ ahead \in [Clients -> SUBSET Clients] /\ age \in [Clients -> Nat]
  /\ answer \in [Clients -> Answers]
  /\ inFlight \in Nat /\ exited \in {"no", "clean", "late"}
  /\ stopping \in BOOLEAN /\ draining \in BOOLEAN
  /\ stop \in [Stops -> {"off", "stopping", "draining"}]

\* Gate.__init__, of every model.
GateInit ==
  /\ slots = StartSlots
  /\ busy = [m \in Models |-> 0] /\ held = [m \in Models |-> 0]
  /\ paused = [m \in Models |-> FALSE] /\ spent = [m \in Models |-> FALSE]
  /\ cooldown = [m \in Models |-> 2]
  /\ failing = [m \in Models |-> "no"] /\ unhealthy = [m \in Models |-> FALSE]

\* A proxy that starts: nobody is bound to a model, and no request is in it.
Init ==
  /\ GateInit
  /\ sticky = [k \in Keys |-> None] /\ older = [k \in Keys |-> {}]
  /\ pc = [c \in Clients |-> "idle"] /\ backend = [c \in Clients |-> None]
  /\ tokens = [c \in Clients |-> 0] /\ cuts = [c \in Clients |-> 0]
  /\ shrink = [c \in Clients |-> 0] /\ streamed = [c \in Clients |-> FALSE]
  /\ outcome = [c \in Clients |-> "none"]
  /\ expired = [c \in Clients |-> FALSE] /\ gone = [c \in Clients |-> FALSE]
  /\ ahead = [c \in Clients |-> {}] /\ age = [c \in Clients |-> 0]
  /\ answer = [c \in Clients |-> "none"]
  /\ inFlight = 0 /\ stopping = FALSE /\ draining = FALSE /\ exited = "no"
  /\ stop = [s \in Stops |-> "off"]

-----------------------------------------------------------------------------
(* Gate: admission to one model. *)

Waiting(m) == {c \in Clients : pc[c] = "waiting" /\ backend[c] = m}
Sending(m) == {c \in Clients : pc[c] = "sending" /\ backend[c] = m}

\* Mutant: a request alone may not pass the budget, one beside others may.
FitsLoosely(c, m) ==
  /\ busy[m] < slots[m]
  /\ held[m] <= Budget[m] \/ busy[m] = 0
  /\ ~paused[m] /\ ~spent[m]
Fits(c, m) ==
  /\ busy[m] < slots[m]
  /\ held[m] + tokens[c] <= Budget[m] \/ busy[m] = 0
  /\ ~paused[m] /\ ~spent[m]

\* Mutant: no aging.
RankOnly(c) == Rank[c]
\* _first's order: a request rises one class for every AGING it waits.
Class(c) == IF age[c] > Rank[c] THEN 0 ELSE Rank[c] - age[c]

First(c, m) ==
  \A q \in Waiting(m) \ {c} :
    \/ Class(c) < Class(q)
    \/ Class(c) = Class(q) /\ q \notin ahead[c]

Join(c, m) == /\ ahead' = [ahead EXCEPT ![c] = Waiting(m)]
              /\ age' = [age EXCEPT ![c] = 0]
Leave(c)   == /\ ahead' = [q \in Clients |-> IF q = c THEN {} ELSE ahead[q] \ {c}]
              /\ age' = [age EXCEPT ![c] = 0]

\* Mutant: a model may be left without a slot.
HalvedToNone(n) == n \div 2
Halved(n) == IF n \div 2 > 1 THEN n \div 2 ELSE 1

\* Mutant: slots grow past the configured most.
GrowsOn(m) == cooldown[m] = 2
Grows(m) == cooldown[m] = 2 /\ slots[m] < MaxSlots[m]

\* _adjust, the median speeds of the last WINDOW being "slow", "fine" or of
\* too few samples to tell ("unknown").
Adjust(m, speed) ==
  CASE speed = "slow" /\ cooldown[m] > 0 ->
         /\ slots' = [slots EXCEPT ![m] = Halved(@)]
         /\ cooldown' = [cooldown EXCEPT ![m] = 0]
    [] speed = "fine" /\ Grows(m) ->
         /\ slots' = [slots EXCEPT ![m] = @ + 1]
         /\ cooldown' = [cooldown EXCEPT ![m] = 0]
    [] OTHER -> UNCHANGED <<slots, cooldown>>

Observe(m) == \E speed \in {"unknown", "slow", "fine"} : Adjust(m, speed)

\* failed: `limited` is a 429, whose Retry-After pauses the gate.
Failed(m, limited) ==
  /\ failing' = [failing EXCEPT ![m] = IF @ = "no" THEN "recent" ELSE @]
  /\ IF cooldown[m] > 0
       THEN /\ slots' = [slots EXCEPT ![m] = Halved(@)]
            /\ cooldown' = [cooldown EXCEPT ![m] = 0]
       ELSE UNCHANGED <<slots, cooldown>>
  /\ unhealthy' = [unhealthy EXCEPT ![m] = @ \/ failing[m] = "long"]
  /\ paused' = [paused EXCEPT ![m] = @ \/ limited]

\* Time at one gate: a pause ends, the output of the last minute falls under
\* its limit, a period since the last adjustment passes, failures last or stop
\* for backoff_max_seconds (which the next failed() sees), health comes back.
Unpause(m)   == paused[m] /\ paused' = [paused EXCEPT ![m] = FALSE]
                /\ UNCHANGED <<slots, busy, held, spent, cooldown, failing, unhealthy,
                               kept, pc, locals, queue, answer, server>>
NewMinute(m) == spent[m] /\ spent' = [spent EXCEPT ![m] = FALSE]
                /\ UNCHANGED <<slots, busy, held, paused, cooldown, failing, unhealthy,
                               kept, pc, locals, queue, answer, server>>
Ages(m) ==
  /\ \/ cooldown[m] < 2 /\ cooldown' = [cooldown EXCEPT ![m] = @ + 1]
        /\ UNCHANGED <<failing, unhealthy>>
     \/ failing[m] = "recent" /\ failing' = [failing EXCEPT ![m] = "long"]
        /\ UNCHANGED <<cooldown, unhealthy>>
     \/ failing[m] # "no" /\ failing' = [failing EXCEPT ![m] = "no"]
        /\ UNCHANGED <<cooldown, unhealthy>>
     \/ unhealthy[m] /\ unhealthy' = [unhealthy EXCEPT ![m] = FALSE]
        /\ UNCHANGED <<cooldown, failing>>
  /\ UNCHANGED <<slots, busy, held, paused, spent, kept, pc, locals, queue, answer, server>>

-----------------------------------------------------------------------------
(* Proxy.pick: the model a request goes to. *)

Room(c, m)   == Share[m] - Prompt[c][m] - 1
Usable(c, m) == Room(c, m) >= Floor[m]
Servable(c)  == \E i \in DOMAIN Backends[c] : Usable(c, Backends[c][i])

\* Mutant: the first healthy model, whatever its room.
FirstHealthy(c) ==
  LET all == DOMAIN Backends[c]
      healthy == {i \in all : ~unhealthy[Backends[c][i]]}
  IN  Backends[c][Min(IF healthy = {} THEN all ELSE healthy)]
\* The first of the role's usable and healthy models, else its first usable.
FirstChoice(c) ==
  LET all == DOMAIN Backends[c]
      usable == {i \in all : Usable(c, Backends[c][i])}
      candidates == IF usable = {} THEN all ELSE usable
      healthy == {i \in candidates : ~unhealthy[Backends[c][i]]}
  IN  Backends[c][Min(IF healthy = {} THEN candidates ELSE healthy)]

Stays(c, m) == m # None /\ ~unhealthy[m] /\ Usable(c, m)

Pick(c) ==
  LET k == Session[c]
  IN  IF k # None /\ Stays(c, sticky[k]) THEN sticky[k] ELSE FirstChoice(c)

\* The OrderedDict once `k` is set and moved to its end, and the first key
\* dropped over STICKY.
Before(k, x) == IF x = k THEN {q \in Keys : sticky[q] # None} \ {k} ELSE older[x] \ {k}
Evicted(k) ==
  LET now == {q \in Keys : sticky[q] # None} \cup {k}
  IN  IF Cardinality(now) > StickyMax THEN {x \in now : Before(k, x) = {}} ELSE {}

\* A hit returns the kept backend and leaves the order as it is.
Remember(c, m) ==
  LET k == Session[c]
  IN  IF k = None THEN UNCHANGED kept
      ELSE IF Stays(c, sticky[k]) THEN UNCHANGED kept
      ELSE /\ older' = [x \in Keys |-> Before(k, x) \ Evicted(k)]
           /\ sticky' = [x \in Keys |-> IF x \in Evicted(k) THEN None
                                        ELSE IF x = k THEN m ELSE sticky[x]]

-----------------------------------------------------------------------------
(* Server and Handler: counting requests in and out. *)

Running == exited = "no"

\* admit: the server counts requests in until it drains.
Admits == ~draining

\* do_POST up to forward.  A request no model has room for, and any request
\* to a draining server, is refused and changes nothing.
Call(c) ==
  /\ Running /\ pc[c] = "idle"
  /\ Servable(c) /\ Admits
  /\ inFlight' = inFlight + 1
  /\ pc' = [pc EXCEPT ![c] = "picking"]
  /\ UNCHANGED <<gates, kept, locals, queue, answer, stopping, draining, exited, stop>>

\* What forward returned is written to the client, and the request is counted
\* out; forward's locals are gone with it.
Finish(c) ==
  /\ Running /\ pc[c] = "answering"
  /\ inFlight' = inFlight - 1
  /\ pc' = [pc EXCEPT ![c] = "idle"]
  /\ backend' = [backend EXCEPT ![c] = None]
  /\ tokens' = [tokens EXCEPT ![c] = 0]
  /\ cuts' = [cuts EXCEPT ![c] = 0]
  /\ shrink' = [shrink EXCEPT ![c] = 0]
  /\ streamed' = [streamed EXCEPT ![c] = FALSE]
  /\ outcome' = [outcome EXCEPT ![c] = "none"]
  /\ expired' = [expired EXCEPT ![c] = FALSE]
  /\ gone' = [gone EXCEPT ![c] = FALSE]
  /\ answer' = [answer EXCEPT ![c] = "none"]
  /\ UNCHANGED <<gates, kept, queue, stopping, draining, exited, stop>>

Answer(c, a) == /\ pc' = [pc EXCEPT ![c] = "answering"]
                /\ answer' = [answer EXCEPT ![c] = a]

\* The keep-alive thread of a stream finds that the client left.
ClientGone(c) ==
  /\ Running /\ c \in Streaming /\ pc[c] \notin {"idle", "answering"} /\ ~gone[c]
  /\ gone' = [gone EXCEPT ![c] = TRUE]
  /\ UNCHANGED <<gates, kept, pc, backend, tokens, cuts, shrink, streamed, outcome,
                 expired, queue, answer, server>>

\* hold_hours pass; never in a backoff, which ends before the deadline.
HoldEnds(c) ==
  /\ Running /\ c \in Expiring /\ ~expired[c]
  /\ pc[c] \in {"picking", "waiting", "sending", "settling"}
  /\ expired' = [expired EXCEPT ![c] = TRUE]
  /\ UNCHANGED <<gates, kept, pc, backend, tokens, cuts, shrink, streamed, outcome,
                 gone, queue, answer, server>>

-----------------------------------------------------------------------------
(* Proxy.forward, one round. *)

Over(c) == gone[c] \/ (streamed[c] /\ expired[c])

\* The head of the loop, when it returns.
GiveUp(c) ==
  /\ Running /\ pc[c] = "picking" /\ Over(c)
  /\ Answer(c, IF gone[c] THEN "gone" ELSE "streamed")
  /\ UNCHANGED <<gates, kept, locals, queue, server>>

Cap(c, m, slow) ==
  Min({slow, Room(c, m), IF shrink[c] = 0 THEN Room(c, m) ELSE shrink[c]})

\* shape: what the request asks of the model.
MaxTokens(c, cap) == IF Asked[c] = 0 THEN cap ELSE Min({Asked[c], cap})

\* ... and when it goes on, to the queue of the model it picks.  Gate.cap is
\* any cap between the model's bounds: it follows the speeds measured.
Enqueue(c) ==
  LET m == Pick(c)
  IN  /\ Running /\ pc[c] = "picking" /\ ~Over(c)
      /\ Remember(c, m)
      /\ backend' = [backend EXCEPT ![c] = m]
      /\ IF ~Usable(c, m)
           THEN /\ Answer(c, "too_big")
                /\ UNCHANGED <<tokens, queue>>
           ELSE /\ \E slow \in Floor[m]..Ceiling[m] :
                     tokens' = [tokens EXCEPT ![c] =
                                  Prompt[c][m] + MaxTokens(c, Cap(c, m, slow))]
                /\ Join(c, m)
                /\ pc' = [pc EXCEPT ![c] = "waiting"]
                /\ UNCHANGED answer
      /\ UNCHANGED <<gates, cuts, shrink, streamed, outcome, expired, gone,
                     server>>

\* acquire returns True.
Send(c) ==
  LET m == backend[c]
  IN  /\ Running /\ pc[c] = "waiting" /\ ~gone[c]
      /\ Fits(c, m) /\ First(c, m)
      /\ busy' = [busy EXCEPT ![m] = @ + 1]
      /\ held' = [held EXCEPT ![m] = @ + tokens[c]]
      /\ Leave(c)
      /\ pc' = [pc EXCEPT ![c] = "sending"]
      /\ UNCHANGED <<slots, paused, spent, cooldown, failing, unhealthy, kept, backend,
                     tokens, cuts, shrink, streamed, outcome, expired, gone, answer, server>>

\* acquire returns False: the client left, or the hold passed without room.
NoRoom(c) ==
  /\ Running /\ pc[c] = "waiting"
  /\ \/ gone[c] /\ Answer(c, "gone")
     \/ /\ ~gone[c] /\ expired[c]
        /\ ~(Fits(c, backend[c]) /\ First(c, backend[c]))
        /\ Answer(c, IF streamed[c] THEN "streamed" ELSE "full")
  /\ Leave(c)
  /\ UNCHANGED <<gates, kept, locals, server>>

\* What a try may end in: a whole request is never cut, and an exception that
\* exchange lets through ends the thread.
Ends(c) == IF streamed[c] THEN Outcomes \ {"cut", "early"} ELSE Outcomes

\* release, with the output of a 200, which may fill the model's minute.
Release(c, m, o) ==
  /\ busy' = [busy EXCEPT ![m] = @ - 1]
  /\ held' = [held EXCEPT ![m] = @ - tokens[c]]
  /\ IF o \in {"whole", "bad", "cut", "early"}
       THEN \E full \in {spent[m], TRUE} : spent' = [spent EXCEPT ![m] = full]
       ELSE UNCHANGED spent

\* exchange ends, and the gate is released in any case.
Reply(c) ==
  /\ Running /\ pc[c] = "sending"
  /\ \E o \in Ends(c) :
       /\ Release(c, backend[c], o)
       /\ outcome' = [outcome EXCEPT ![c] = o]
       /\ IF o = "raised" THEN Answer(c, "none")
          ELSE pc' = [pc EXCEPT ![c] = "settling"] /\ UNCHANGED answer
  /\ UNCHANGED <<slots, paused, cooldown, failing, unhealthy, kept, backend, tokens, cuts,
                 shrink, streamed, expired, gone, queue, server>>

-----------------------------------------------------------------------------
(* ... and what forward makes of the reply. *)

\* Mutant: a failed whole retry is answered with its own error.
RetryFailedAnswer(c) == "failing"
RetryAnswer(c) == "streamed"

\* The whole retry failed.
SettleRetry(c) ==
  /\ streamed[c] /\ outcome[c] \in {"limited", "error", "refused"}
  /\ Answer(c, RetryAnswer(c))
  /\ UNCHANGED <<gates, streamed, cuts, shrink>>

\* A failure: the gate hears of it, unless the client left, and the request
\* waits, if its hold outlasts the wait.
SettleFailure(c) ==
  /\ ~streamed[c] /\ outcome[c] \in {"limited", "error", "early"}
  /\ IF gone[c]
       THEN /\ pc' = [pc EXCEPT ![c] = "picking"]
            /\ UNCHANGED <<gates, answer>>
       ELSE /\ Failed(backend[c], outcome[c] = "limited")
            /\ UNCHANGED <<busy, held, spent>>
            /\ \/ /\ c \in Expiring
                  /\ Answer(c, "failing")
               \/ /\ ~expired[c]
                  /\ pc' = [pc EXCEPT ![c] = "backoff"]
                  /\ UNCHANGED answer
  /\ UNCHANGED <<streamed, cuts, shrink>>

SettleRefusal(c) ==
  /\ ~streamed[c] /\ outcome[c] = "refused"
  /\ Answer(c, "refused")
  /\ UNCHANGED <<gates, streamed, cuts, shrink>>

CutsLeft(c) == cuts[c] < CutRetries

\* A reply cut at NRP's limit: asked for again with 0.8 of what it reached.
SettleCut(c) ==
  /\ outcome[c] = "cut"
  /\ Observe(backend[c])
  /\ cuts' = [cuts EXCEPT ![c] = @ + 1]
  /\ IF CutsLeft(c) /\ ~expired[c]
       THEN /\ \E n \in 0..(tokens[c] - Prompt[c][backend[c]]) :
                 shrink' = [shrink EXCEPT ![c] = Max({Floor[backend[c]], (4 * n) \div 5})]
            /\ pc' = [pc EXCEPT ![c] = "picking"]
            /\ UNCHANGED answer
       ELSE /\ Answer(c, "cut")
            /\ UNCHANGED shrink
  /\ UNCHANGED <<busy, held, paused, spent, failing, unhealthy, streamed>>

\* Tool arguments that do not parse: asked for once more, whole.
SettleReshape(c) ==
  /\ outcome[c] = "bad" /\ ~streamed[c]
  /\ streamed' = [streamed EXCEPT ![c] = TRUE]
  /\ pc' = [pc EXCEPT ![c] = "picking"]
  /\ UNCHANGED <<gates, cuts, shrink, answer>>

\* succeeded: the reply goes to the agent.
SettleReply(c) ==
  /\ outcome[c] = "whole" \/ (outcome[c] = "bad" /\ streamed[c])
  /\ failing' = [failing EXCEPT ![backend[c]] = "no"]
  /\ Observe(backend[c])
  /\ Answer(c, "reply")
  /\ UNCHANGED <<busy, held, paused, spent, unhealthy, streamed, cuts, shrink>>

Settle(c) ==
  /\ Running /\ pc[c] = "settling"
  /\ \/ SettleRetry(c) \/ SettleFailure(c) \/ SettleRefusal(c)
     \/ SettleCut(c) \/ SettleReshape(c) \/ SettleReply(c)
  /\ outcome' = [outcome EXCEPT ![c] = "none"]
  /\ UNCHANGED <<kept, backend, tokens, expired, gone, queue, server>>

\* Mutant: a backoff runs on while the proxy stops.
BackoffDeaf(c) == FALSE
BackoffEnds(c) == stopping

\* stopping.wait: a restart ends the backoff, and the request with it.
Backoff(c) ==
  /\ Running /\ pc[c] = "backoff"
  /\ IF BackoffEnds(c) THEN Answer(c, "restarting")
     ELSE pc' = [pc EXCEPT ![c] = "picking"] /\ UNCHANGED answer
  /\ UNCHANGED <<gates, kept, locals, queue, server>>

\* A waiting request rises a class.  One that has waited longer has risen as
\* often, or all the way.
Rises(c) ==
  /\ Running /\ pc[c] = "waiting" /\ age[c] < Rank[c]
  /\ \A q \in ahead[c] : age[q] > age[c] \/ age[q] = Rank[q]
  /\ age' = [age EXCEPT ![c] = @ + 1]
  /\ UNCHANGED <<gates, kept, pc, locals, ahead, answer, server>>

-----------------------------------------------------------------------------
(* _stop, on SIGTERM or once the mounted files change. *)

Stopping(s) ==
  /\ Running /\ stop[s] = "off"
  /\ stopping' = TRUE
  /\ stop' = [stop EXCEPT ![s] = "stopping"]
  /\ UNCHANGED <<gates, kept, pc, locals, queue, answer, inFlight, draining, exited>>

Drain(s) ==
  /\ Running /\ stop[s] = "stopping"
  /\ draining' = TRUE
  /\ stop' = [stop EXCEPT ![s] = "draining"]
  /\ UNCHANGED <<gates, kept, pc, locals, queue, answer, inFlight, stopping, exited>>

\* Mutant: the last request need not be counted out.
DrainedButOne == inFlight <= 1
Drained == inFlight = 0

\* drain_seconds may pass first.
Exit(s) ==
  /\ Running /\ stop[s] = "draining"
  /\ exited' = IF Drained THEN "clean" ELSE "late"
  /\ UNCHANGED <<gates, kept, pc, locals, queue, answer, inFlight, stopping, draining, stop>>

\* The process is gone: the kubelet starts a new one, from Init.
Exited == ~Running /\ UNCHANGED vars

-----------------------------------------------------------------------------
Step(c) == \/ Finish(c) \/ GiveUp(c) \/ Enqueue(c) \/ Send(c) \/ NoRoom(c) \/ Reply(c)
           \/ Settle(c) \/ Backoff(c)

Next == \/ \E c \in Clients : \/ Call(c) \/ ClientGone(c) \/ HoldEnds(c)
                              \/ Rises(c) \/ Step(c)
        \/ \E m \in Models : Running /\ (Unpause(m) \/ NewMinute(m) \/ Ages(m))
        \/ \E s \in Stops : Stopping(s) \/ Drain(s) \/ Exit(s)
        \/ Exited

Spec == Init /\ [][Next]_vars

\* What each thread does is done: a reply, a lock or a timeout ends every wait
\* of the code.  Clients need not ask, leave or wait out their hold, and the
\* proxy need not be stopped nor drain_seconds pass.
Fairness ==
  /\ \A c \in Clients : WF_vars(Step(c)) /\ WF_vars(Rises(c))
  /\ \A m \in Models : WF_vars(Running /\ Unpause(m)) /\ WF_vars(Running /\ NewMinute(m))
  /\ \A s \in Stops : WF_vars(Drain(s))

FairSpec == Spec /\ Fairness

-----------------------------------------------------------------------------
(* Properties. *)

\* "A user's requests in flight to a model hold at most this share of its
\* context": what the threads have sent to a model is within SHARE, though a
\* request alone may pass the model's budget, and a request whose cap follows
\* the measured speed was sized before it waited.
FairUse ==
  \A m \in Models :
    MapThenSumSet(LAMBDA c : tokens[c], Sending(m)) <= Share[m]

\* Slots shrink and grow while requests hold them: never are more in flight to
\* a model than the most the configuration allows it.
SlotsBounded ==
  \A m \in Models : slots[m] <= MaxSlots[m] /\ busy[m] <= MaxSlots[m]

\* Once a request has a whole reply it only tries to better, no failure of the
\* second try, full gate, passed hold or changed backend takes it away: it is
\* answered with a reply, unless its client left or the thread raised.
ReplyKept ==
  \A c \in Clients :
    pc[c] = "answering" /\ streamed[c] => answer[c] \in {"reply", "streamed", "gone", "none"}

\* forward's own size check never refuses what do_POST let in: whichever models
\* are healthy when a request is tried again, it goes to one with room for it.
RoomKept ==
  \A c \in Clients :
    /\ pc[c] \in {"waiting", "sending"} => Usable(c, backend[c])
    /\ pc[c] = "answering" => answer[c] # "too_big"

\* A proxy that exits before drain_seconds has answered every request it
\* counted in, those of a second stop and of the moment before it drained too.
NoneDropped == exited = "clean" => \A c \in Clients : pc[c] = "idle"

\* "A model that keeps failing would hold a restart to its end": once the proxy
\* drains, every request in flight ends before it exits, whatever the models
\* answer and though no hold passes.
DrainEnds == draining ~> (inFlight = 0 \/ ~Running)

\* A waiting request is sent though requests of better classes keep coming,
\* and though one in the queue is over the budget, unless its client leaves or the
\* proxy exits first.
NoStarvation ==
  \A c \in Clients : pc[c] = "waiting" ~> (pc[c] = "sending" \/ gone[c] \/ ~Running)
====
