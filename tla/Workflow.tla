------------------------------ MODULE Workflow ------------------------------
(***************************************************************************)
(* Runs of the agentic analysis on Flyte                                   *)
(* (workflows/agentic-analysis/agentic_analysis.py).  A run works in a     *)
(* workspace of the shared volume, its own or that of an earlier run:      *)
(* attempt after attempt it sets the workspace up once, then has OpenCode  *)
(* take turns in the workspace's session until the agent ends its turn.    *)
(*                                                                         *)
(* A workspace has the name of the run that makes it.  A pod may be lost   *)
(* at any step; the volume stays.  Flyte, OpenCode and the LLM proxy are   *)
(* external.                                                               *)
(***************************************************************************)
EXTENDS Integers, FiniteSets

CONSTANTS
  Runs,
  NoRun,       \* no run
  Retries,    \* RETRIES
  Resumes,    \* RESUMES
  MaxLosses   \* bound: pods lost, setups, requests and turns that fail

ASSUME RunsAssumption == IsFiniteSet(Runs) /\ NoRun \notin Runs
ASSUME RetriesAssumption == {Retries, Resumes, MaxLosses} \subseteq Nat

VARIABLES
  run,      \* run -> its attempt: where it is, in which workspace, what it still tells
  volume,   \* workspace -> home, tree, staged, session, the runs whose reply it marks told
  data,     \* the analysis's data is on the volume
  lock,     \* workspace -> the run that holds its flock
  alive,    \* the runs of which a process of a turn lives
  past,     \* history: run -> times its reply reached the agent, times a pod was lost after
            \* OpenCode took it and before it said so, and whether it found no session
  losses

runVars == <<run, volume, data, lock, alive, past, losses>>

Idle   == {"off", "done", "failed"}
Steps  == {"begin", "lock", "build", "fetch", "link", "agent", "turn", "live", "taken", "heard",
           "pause"}
NotRun == [pc |-> "off", w |-> NoRun, reply |-> FALSE, attempt |-> 0, turns |-> 0, tells |-> FALSE]
Bare   == [home |-> FALSE, tree |-> "none", staged |-> FALSE, session |-> FALSE, told |-> {}]

RunInit ==
  /\ run = [r \in Runs |-> NotRun]
  /\ volume = [w \in Runs |-> Bare]
  /\ data = FALSE
  /\ lock = [w \in Runs |-> NoRun]
  /\ alive = {}
  /\ past = [r \in Runs |-> [got |-> 0, torn |-> 0, fresh |-> FALSE]]
  /\ losses = 0

Loss == losses < MaxLosses /\ losses' = losses + 1
RunAt(r, pc) == run[r].pc = pc
Moves(r, pc) == run' = [run EXCEPT ![r].pc = pc]
Own(r) == volume[run[r].w]

\* launch: with a reply or none, in a workspace of its own or that of another run.
Launch(r) ==
  /\ RunAt(r, "off")
  /\ \E w \in Runs, reply \in BOOLEAN :
       run' = [run EXCEPT ![r] = [NotRun EXCEPT !.pc = "begin", !.w = w, !.reply = reply]]
  /\ UNCHANGED <<volume, data, lock, alive, past, losses>>

-----------------------------------------------------------------------------
(* How an attempt ends.  Its lock goes with it, and first what is left of its turn. *)

Unlocked(r) == [w \in Runs |-> IF lock[w] = r THEN NoRun ELSE lock[w]]

\* Mutant: only OpenCode's process group is killed.
KilledGroup(r) == alive

\* _kill: the process group, and every process that carries the turn's mark.
Killed(r) == alive \ {r}

\* Flyte starts a failed attempt again at once, RETRIES times.
Again(r) == IF run[r].attempt < Retries
            THEN [NotRun EXCEPT !.pc = "begin", !.w = run[r].w, !.reply = run[r].reply,
                                !.attempt = run[r].attempt + 1]
            ELSE [run[r] EXCEPT !.pc = "failed"]

AttemptFails(r) == /\ run' = [run EXCEPT ![r] = Again(r)]
                   /\ lock' = Unlocked(r) /\ alive' = Killed(r)

\* Mutant: the attempt waits with its lock.
PausesLocked(r) == /\ IF run[r].attempt < Retries THEN Moves(r, "pause")
                      ELSE run' = [run EXCEPT ![r] = Again(r)]
                   /\ UNCHANGED lock /\ alive' = Killed(r)

\* A RuntimeError: a service that failed may need longer, so the attempt waits, unlocked.
PausesFirst(r) == /\ IF run[r].attempt < Retries THEN Moves(r, "pause")
                     ELSE run' = [run EXCEPT ![r] = Again(r)]
                  /\ lock' = Unlocked(r) /\ alive' = Killed(r)

PauseEnds(r) ==
  /\ RunAt(r, "pause")
  /\ run' = [run EXCEPT ![r] = Again(r)]
  /\ UNCHANGED <<volume, data, lock, alive, past, losses>>

NonRecoverable(r) == Moves(r, "failed") /\ lock' = Unlocked(r) /\ alive' = Killed(r)

Torn(r) == past' = [past EXCEPT ![r].torn = IF RunAt(r, "taken") /\ run[r].tells THEN @ + 1 ELSE @]

\* The pod is lost, with all its processes.
PodLost(r) ==
  /\ run[r].pc \in Steps \ {"begin"} /\ Loss
  /\ run' = [run EXCEPT ![r] = Again(r)]
  /\ lock' = Unlocked(r) /\ alive' = alive \ {r}
  /\ Torn(r)
  /\ UNCHANGED <<volume, data>>

-----------------------------------------------------------------------------
(* advance, and _prepare. *)

\* A run makes only the workspace named after it; any other must exist.
Begin(r) ==
  /\ RunAt(r, "begin")
  /\ IF run[r].w = r \/ Own(r).home
     THEN Moves(r, "lock") /\ volume' = [volume EXCEPT ![run[r].w].home = TRUE]
          /\ UNCHANGED <<lock, alive>>
     ELSE NonRecoverable(r) /\ UNCHANGED volume
  /\ UNCHANGED <<data, past, losses>>

\* flock; a workspace that is staged is taken as it is.
Lock(r) ==
  /\ RunAt(r, "lock") /\ lock[run[r].w] = NoRun
  /\ lock' = [lock EXCEPT ![run[r].w] = r]
  /\ Moves(r, IF Own(r).staged THEN "agent" ELSE "build")
  /\ UNCHANGED <<volume, data, alive, past, losses>>

\* What an earlier attempt left goes; JFC and the sources are checked out, and _data looks.
Build(r) ==
  /\ RunAt(r, "build")
  /\ volume' = [volume EXCEPT ![run[r].w].tree = "partial"]
  /\ Moves(r, IF data THEN "link" ELSE "fetch")
  /\ UNCHANGED <<data, lock, alive, past, losses>>

\* The data comes by a rename: the attempt fails if another workspace's came first.
Fetch(r) ==
  /\ RunAt(r, "fetch")
  /\ IF data THEN AttemptFails(r) /\ UNCHANGED data
     ELSE data' = TRUE /\ Moves(r, "link") /\ UNCHANGED <<lock, alive>>
  /\ UNCHANGED <<volume, past, losses>>

\* The data, the prompt, the files and the environment are there: staged.
Stage(r) ==
  /\ RunAt(r, "link")
  /\ volume' = [volume EXCEPT ![run[r].w].tree = "whole", ![run[r].w].staged = TRUE]
  /\ Moves(r, "agent")
  /\ UNCHANGED <<data, lock, alive, past, losses>>

SetupFails(r) ==
  /\ run[r].pc \in {"build", "fetch", "link"} /\ Loss
  /\ AttemptFails(r)
  /\ UNCHANGED <<volume, data, past>>

-----------------------------------------------------------------------------
(* _agent, and _opencode: one turn. *)

\* A retry of the run whose turn took the reply nudges.
Tells(r) == run[r].reply /\ r \notin Own(r).told

Roles(r) ==
  /\ RunAt(r, "agent")
  /\ \/ /\ run' = [run EXCEPT ![r].pc = "turn", ![r].tells = Tells(r)]
        /\ UNCHANGED <<lock, alive, losses>>
     \/ Loss /\ (PausesFirst(r) \/ NonRecoverable(r))
  /\ UNCHANGED <<volume, data, past>>

\* _turn: a new session gets the analysis's prompt, and the reply is not in it.
StartTurn(r) ==
  /\ RunAt(r, "turn")
  /\ Moves(r, "live") /\ alive' = alive \cup {r}
  /\ past' = [past EXCEPT ![r].fresh = @ \/ (run[r].tells /\ ~Own(r).session)]
  /\ UNCHANGED <<volume, data, lock, losses>>

\* OpenCode has the prompt.
Takes(r) ==
  /\ RunAt(r, "live")
  /\ Moves(r, "taken")
  /\ past' = [past EXCEPT ![r].got = IF run[r].tells /\ Own(r).session THEN @ + 1 ELSE @]
  /\ UNCHANGED <<volume, data, lock, alive, losses>>

\* Mutant: the reply is noted once the turn is over.
HearsLater(r) ==
  /\ RunAt(r, "taken")
  /\ volume' = [volume EXCEPT ![run[r].w].session = TRUE]
  /\ run' = [run EXCEPT ![r].pc = "heard", ![r].tells = FALSE]
  /\ UNCHANGED <<data, lock, alive, past, losses>>

\* Its first event: the session is noted if it was not, and the reply as told.
Hears(r) ==
  /\ RunAt(r, "taken")
  /\ volume' = [volume EXCEPT ![run[r].w].session = TRUE,
                  ![run[r].w].told = IF run[r].tells THEN @ \cup {r} ELSE @]
  /\ run' = [run EXCEPT ![r].pc = "heard", ![r].tells = FALSE]
  /\ UNCHANGED <<data, lock, alive, past, losses>>

\* The agent ends its turn, and the run with it: said.md.
TurnEnds(r) ==
  /\ RunAt(r, "heard")
  /\ Moves(r, "done") /\ lock' = Unlocked(r) /\ alive' = Killed(r)
  /\ UNCHANGED <<volume, data, past, losses>>

\* The reply ran out of output tokens: the next turn nudges, RESUMES times.
TurnCut(r) ==
  /\ RunAt(r, "heard") /\ Loss
  /\ IF run[r].turns < Resumes
     THEN /\ run' = [run EXCEPT ![r].pc = "turn", ![r].turns = @ + 1]
          /\ alive' = Killed(r) /\ UNCHANGED lock
     ELSE PausesFirst(r)
  /\ UNCHANGED <<volume, data, past>>

\* The plugin did not load in time, or neither it nor OpenCode says anything more: _Watch
\* ends the turn, and kills what is left of it.
Silence(r) ==
  /\ run[r].pc \in {"live", "taken", "heard"} /\ Loss
  /\ PausesFirst(r) /\ Torn(r)
  /\ UNCHANGED <<volume, data>>

\* OpenCode says an error, or exits with one; a refused token is not recoverable.
TurnFails(r) ==
  /\ run[r].pc \in {"live", "taken", "heard"} /\ Loss
  /\ \/ PausesFirst(r)
     \/ RunAt(r, "heard") /\ NonRecoverable(r)
  /\ Torn(r)
  /\ UNCHANGED <<volume, data>>

-----------------------------------------------------------------------------

Step(r) == \/ Begin(r) \/ Lock(r) \/ Build(r) \/ Fetch(r) \/ Stage(r) \/ SetupFails(r) \/ Roles(r)
           \/ StartTurn(r) \/ Takes(r) \/ Hears(r) \/ TurnEnds(r) \/ TurnCut(r) \/ Silence(r)
           \/ TurnFails(r) \/ PauseEnds(r)

RunNext == \E r \in Runs : Launch(r) \/ Step(r) \/ PodLost(r)

RunSpec == RunInit /\ [][RunNext]_runVars

\* Flyte runs its attempts, and a turn ends: _Watch sees to it.
FairSpec == RunSpec /\ \A r \in Runs : WF_runVars(Step(r))

-----------------------------------------------------------------------------
(* Properties. *)

\* An agent works alone, and only in a workspace set up as a whole: no process of an
\* earlier turn, run or attempt is left there and no setup that broke off, and once a
\* session worked there nothing sets it up anew over its work, although attempts fail,
\* are killed and unlock at every step.
AloneInWhole ==
  /\ \A r, s \in alive : run[r].w = run[s].w => r = s
  /\ \A r \in alive : volume[run[r].w].tree = "whole"
  /\ \A w \in Runs : volume[w].session => volume[w].tree = "whole"

\* A reply reaches the agent once, whatever retries and resumed turns follow: again only
\* when an attempt ended between OpenCode's taking it and its first event, and never not
\* at all in a run that ends well, unless there was no session to give it to.
ReplyOnce ==
  \A r \in Runs :
    /\ past[r].got <= 1 + past[r].torn
    /\ (RunAt(r, "done") /\ run[r].reply) => (past[r].got > 0 \/ past[r].fresh)

\* Every run ends, although runs share a workspace, wait for each other's lock, fetch the
\* same data and fail.
AllEnd == \A r \in Runs : run[r].pc # "off" ~> run[r].pc \in {"done", "failed"}
====
