------------------------------ MODULE Codespace ------------------------------
(***************************************************************************)
(* The GitHub handlers of the panel (gui/github_codespace.go:145-379):      *)
(* login, logout, fork, create, stop, delete and status, the ghState they   *)
(* share, and the token in the configuration, which the panel's saves        *)
(* replace with the copy it has (gui/server.go:663-675).                    *)
(*                                                                         *)
(* net/http runs every request in a goroutine of its own.  ghState is        *)
(* written under ghMu and read without it, the token has no lock; a handler  *)
(* is cut into steps where it waits for GitHub and where it takes the lock.  *)
(* GitHub is anyone's guess: each call may fail, be refused or succeed.      *)
(***************************************************************************)
EXTENDS Integers

CONSTANTS
  Logins, Logouts, Forks, Creates, Stops, Deletes,  \* requests
  Users,
  Polls,   \* looks at a new Codespace before it is taken for ready
  None

Calls == UNION {Logins, Logouts, Forks, Creates, Stops, Deletes}

ASSUME CodespaceAssumption ==
  /\ \A c \in Creates : c \notin Logins \cup Logouts \cup Forks \cup Stops \cup Deletes
  /\ \A d \in Stops \cup Deletes : d \notin Logins \cup Logouts \cup Forks
  /\ None \notin Users \cup Creates
  /\ Polls \in Nat \ {0}

VARIABLES
  at,       \* where each request stands
  ghState,
  token,    \* cfg.GitHub.Token: whose it is
  panel,    \* the token in the panel's copy of the configuration
  who,      \* the token a login was given
  job,      \* the goroutine of a create
  looks,    \* how often it has looked
  asked,    \* the Codespace each stop and deletion has asked GitHub to end
  over      \* history: those of which GitHub has answered

csVars == <<at, ghState, token, panel, who, job, looks, asked, over>>

\* A Codespace bears the name of the create that made it; VLESS is set
\* and cleared with the name.
NoCodespace == [name |-> None, status |-> ""]

\* gitHubState{}
Zero == [auth |-> FALSE, user |-> None, forked |-> FALSE,
         status |-> "", error |-> FALSE, codespace |-> NoCodespace]

CodespaceState == [name : Creates \cup {None}, status : {"", "ready", "stopped"}]

GitHubState ==
  [auth : BOOLEAN, user : Users \cup {None}, forked : BOOLEAN,
   status : {"", "idle", "creating", "ready", "error"}, error : BOOLEAN,
   codespace : CodespaceState]

CodespaceTypeOK ==
  /\ at \in [Calls -> {"idle", "wait", "write", "end"}]
  /\ ghState \in GitHubState
  /\ token \in Users \cup {None} /\ panel \in Users \cup {None}
  /\ who \in [Logins -> Users \cup {None}]
  /\ job \in [Creates -> {"none", "post", "poll", "done"}]
  /\ looks \in [Creates -> 0..(Polls - 1)]
  /\ asked \in [Stops \cup Deletes -> Creates \cup {None}]
  /\ over \subseteq Creates

CodespaceInit ==
  /\ at = [c \in Calls |-> "idle"]
  /\ ghState = Zero
  /\ token \in Users \cup {None} /\ panel = token
  /\ who = [l \in Logins |-> None]
  /\ job = [c \in Creates |-> "none"]
  /\ looks = [c \in Creates |-> 0]
  /\ asked = [d \in Stops \cup Deletes |-> None] /\ over = {}

\* The program ends, and starts anew with any account in its file.  Requests
\* and goroutines end with it.
CodespaceRestart ==
  /\ at' = [c \in Calls |-> IF at[c] = "idle" THEN "idle" ELSE "end"]
  /\ ghState' = Zero
  /\ token' \in Users \cup {None} /\ panel' = token'
  /\ job' = [c \in Creates |-> IF job[c] = "none" THEN "none" ELSE "done"]
  /\ UNCHANGED <<who, looks, asked, over>>

\* What a handler sets of ghState: who is logged in, or the Codespace
Account(auth, user, forked) ==
  [auth |-> auth, user |-> user, forked |-> forked, status |-> ghState.status,
   error |-> ghState.error, codespace |-> ghState.codespace]

Machine(status, error, codespace) ==
  [auth |-> ghState.auth, user |-> ghState.user, forked |-> ghState.forked,
   status |-> status, error |-> error, codespace |-> codespace]

Goes(c, from, to) == at[c] = from /\ at' = [at EXCEPT ![c] = to]

-----------------------------------------------------------------------------
(* Login, logout and the panel's copy of the configuration.                  *)

AskLogin(l) ==
  /\ Goes(l, "idle", "wait")
  /\ UNCHANGED <<ghState, token, panel, who, job, looks, asked, over>>

\* The user is back with a code, which is exchanged and the token saved; an
\* answer that cannot be read is a token too, an empty one.
GotToken(l) ==
  /\ Goes(l, "wait", "write")
  /\ who' \in {[who EXCEPT ![l] = u] : u \in Users \cup {None}}
  /\ token' = who'[l]
  /\ UNCHANGED <<ghState, panel, job, looks, asked, over>>

\* No code for five minutes, or an error of the exchange.
NoToken(l) ==
  /\ Goes(l, "wait", "end")
  /\ UNCHANGED <<ghState, token, panel, who, job, looks, asked, over>>

LoggedIn(l) ==
  /\ Goes(l, "write", "end")
  /\ \/ UNCHANGED ghState
     \/ /\ who[l] # None
        /\ \E u \in {who[l], None} : ghState' = Account(TRUE, u, ghState.forked)
  /\ UNCHANGED <<token, panel, who, job, looks, asked, over>>

Logout(o) ==
  /\ Goes(o, "idle", "write")
  /\ token' = None
  /\ UNCHANGED <<ghState, panel, who, job, looks, asked, over>>

LoggedOut(o) ==
  /\ Goes(o, "write", "end")
  /\ ghState' = Zero
  /\ UNCHANGED <<token, panel, who, job, looks, asked, over>>

LoadConfig ==
  /\ panel' = token
  /\ UNCHANGED <<at, ghState, token, who, job, looks, asked, over>>

SaveConfig ==
  /\ token' = panel
  /\ UNCHANGED <<at, ghState, panel, who, job, looks, asked, over>>

-----------------------------------------------------------------------------
(* Fork and create.                                                         *)

AskFork(f) ==
  /\ \/ token # None /\ Goes(f, "idle", "wait")
     \/ token = None /\ Goes(f, "idle", "end")
  /\ UNCHANGED <<ghState, token, panel, who, job, looks, asked, over>>

Forked(f) ==
  /\ Goes(f, "wait", "end")
  /\ ghState' \in {ghState, Account(ghState.auth, ghState.user, TRUE)}
  /\ UNCHANGED <<token, panel, who, job, looks, asked, over>>

AskCreate(c) ==
  /\ IF token # None /\ ghState.user # None
       THEN Goes(c, "idle", "write") ELSE Goes(c, "idle", "end")
  /\ UNCHANGED <<ghState, token, panel, who, job, looks, asked, over>>

\* The status, then the goroutine, which GitHub has yet to answer.
Creating(c) ==
  /\ Goes(c, "write", "end")
  /\ ghState' = Machine("creating", FALSE, ghState.codespace)
  /\ job' = [job EXCEPT ![c] = "post"]
  /\ UNCHANGED <<token, panel, who, looks, asked, over>>

\* Fault: the error is kept and the status is not.
KeepError(c) ==
  /\ job[c] = "post"
  /\ ghState' = Machine(ghState.status, TRUE, ghState.codespace)
  /\ job' = [job EXCEPT ![c] = "done"]
  /\ UNCHANGED <<at, token, panel, who, looks, asked, over>>

\* setGHError, for a call that fails, is refused or cannot be read
SetGHError(c) ==
  /\ job[c] = "post"
  /\ ghState' = Machine("error", TRUE, ghState.codespace)
  /\ job' = [job EXCEPT ![c] = "done"]
  /\ UNCHANGED <<at, token, panel, who, looks, asked, over>>

Posted(c) ==
  /\ job[c] = "post"
  /\ job' = [job EXCEPT ![c] = "poll"]
  /\ UNCHANGED <<at, ghState, token, panel, who, looks, asked, over>>

\* Fault: one look too many.
LookAgain(c) ==
  /\ job[c] = "poll" /\ looks[c] < Polls
  /\ looks' = [looks EXCEPT ![c] = @ + 1]
  /\ UNCHANGED <<at, ghState, token, panel, who, job, asked, over>>

\* Five seconds and a look: not available, or no answer.
Look(c) ==
  /\ job[c] = "poll" /\ looks[c] < Polls - 1
  /\ looks' = [looks EXCEPT ![c] = @ + 1]
  /\ UNCHANGED <<at, ghState, token, panel, who, job, asked, over>>

\* Fault: a Codespace that was not available at the last look is left.
GiveUp(c) ==
  /\ job[c] = "poll"
  /\ ghState' \in {ghState,
       Machine("ready", ghState.error, [name |-> c, status |-> "ready"])}
  /\ job' = [job EXCEPT ![c] = "done"]
  /\ UNCHANGED <<at, token, panel, who, looks, asked, over>>

\* Fault: what is found available is announced, and again after the loop.
ReadyTwice(c) ==
  /\ job[c] = "poll"
  /\ ghState' = Machine("ready", ghState.error, [name |-> c, status |-> "ready"])
  /\ job' \in {job, [job EXCEPT ![c] = "done"]}
  /\ UNCHANGED <<at, token, panel, who, looks, asked, over>>

\* Available, or the last look: the loop's end is not told from its break.
Ready(c) ==
  /\ job[c] = "poll"
  /\ ghState' = Machine("ready", ghState.error, [name |-> c, status |-> "ready"])
  /\ job' = [job EXCEPT ![c] = "done"]
  /\ UNCHANGED <<at, token, panel, who, looks, asked, over>>

-----------------------------------------------------------------------------
(* Stop, delete and status.                                                 *)

\* Both look for a Codespace and ask GitHub to end it ...
AskEnd(d) ==
  /\ IF ghState.codespace.name # None
       THEN /\ Goes(d, "idle", "wait")
            /\ asked' = [asked EXCEPT ![d] = ghState.codespace.name]
       ELSE Goes(d, "idle", "end") /\ UNCHANGED asked
  /\ UNCHANGED <<ghState, token, panel, who, job, looks, over>>

EndFails(d) ==
  /\ Goes(d, "wait", "end")
  /\ UNCHANGED <<ghState, token, panel, who, job, looks, asked, over>>

\* ... and take any answer, for whatever Codespace there is by then.
Stopped(s) ==
  /\ Goes(s, "wait", "end")
  /\ ghState' = Machine("idle", ghState.error,
                         [name |-> ghState.codespace.name, status |-> "stopped"])
  /\ over' = over \cup {asked[s]}
  /\ UNCHANGED <<token, panel, who, job, looks, asked>>

Deleted(d) ==
  /\ Goes(d, "wait", "end")
  /\ ghState' = Machine("idle", ghState.error, NoCodespace)
  /\ over' = over \cup {asked[d]}
  /\ UNCHANGED <<token, panel, who, job, looks, asked>>

Status ==
  /\ ghState.status = ""
  /\ ghState' = Machine("idle", ghState.error, ghState.codespace)
  /\ UNCHANGED <<at, token, panel, who, job, looks, asked, over>>

-----------------------------------------------------------------------------

Job(c) == SetGHError(c) \/ Posted(c) \/ Look(c) \/ Ready(c)

CodespaceNext ==
  \/ \E l \in Logins : AskLogin(l) \/ GotToken(l) \/ NoToken(l) \/ LoggedIn(l)
  \/ \E o \in Logouts : Logout(o) \/ LoggedOut(o)
  \/ LoadConfig \/ SaveConfig
  \/ \E f \in Forks : AskFork(f) \/ Forked(f)
  \/ \E c \in Creates : AskCreate(c) \/ Creating(c) \/ Job(c)
  \/ \E s \in Stops : AskEnd(s) \/ EndFails(s) \/ Stopped(s)
  \/ \E d \in Deletes : AskEnd(d) \/ EndFails(d) \/ Deleted(d)
  \/ Status

\* GitHub's client has a timeout, and sleeps end.
JobFairness == \A c \in Creates : WF_csVars(Job(c))

-----------------------------------------------------------------------------

\* What is called ready is a whole Codespace that is ready: it has the name and
\* link that the panel and Xray use, and no stop or deletion of it has been
\* answered, whatever was under way when it was made or ended
\* (gui/github_codespace.go:307-315, 330-370).
ReadyWhole ==
  ghState.status = "ready" =>
    /\ ghState.codespace.name # None /\ ghState.codespace.status = "ready"
    /\ ghState.codespace.name \notin over

\* While the status is creating, on which the panel keeps its button disabled,
\* a goroutine is at work that will replace it (lines 250-317).
CreatingIsWorking ==
  ghState.status = "creating" => \E c \in Creates : job[c] \in {"post", "poll"}

\* The panel does not wait for ever: the status leaves creating, whatever
\* GitHub answers and however creates overlap (lines 255-328).
CreatingEnds == ghState.status = "creating" ~> ghState.status # "creating"

=============================================================================
