------------------------------ MODULE ScriptPool ------------------------------
(***************************************************************************)
(* The pool of Apps Script deployments of fronter/relay.go: the blacklist   *)
(* (147-179), the failover loops of Do (213-235), relayViaExitNode          *)
(* (294-308) and doRequestSingle (349-355), the /dev latch (372-379,        *)
(* 465-472) and the health checker (670-687), which all run concurrently.   *)
(*                                                                         *)
(* A request is one call of Do that got past the rate limiter, or was       *)
(* refused by it (RateLimiter says when).  A process's steps are the code's *)
(* critical sections: getScriptIDs, the read of devAvailable before a call  *)
(* leaves, the handling of its answer, and what is then done about it.      *)
(* Answers are what Google and the deployed script may return (Code.gs, not *)
(* part of this module), as the condition each script is in allows.         *)
(* Deployment ids are taken to have the 12 characters the log lines cut     *)
(* (relay.go:178, 231, 306).                                               *)
(***************************************************************************)
EXTENDS Integers, Sequences, FiniteSets

CONSTANTS
  Scripts,       \* deployments
  NoScript,      \* an empty cfg.ScriptID
  Configs,       \* configurations: [script, list, accounts] for cfg.ScriptID,
                 \* cfg.ScriptIDs and the ScriptIDs of all cfg.Accounts
  AuthKey,       \* cfg.AuthKey
  AccountKey,    \* the key of the account a script is listed under, which
                 \* is the key deployed in that script
  Reqs,          \* requests
  Kind,          \* how Do carries each out: "relay", "exit" or "single"
  BadTarget,     \* requests whose target the script fails to fetch
  DevOpen,       \* scripts whose /dev address answers without a login
  DirectJSON,    \* scripts whose answers come as JSON, not inside a page
  Conds,         \* conditions the scripts go through
  BlacklistFor,  \* 10 minutes
  MaxTime        \* bound: the clock stops here

Health == "health"   \* the goroutine of StartHealthCheck
Procs == Reqs \cup {Health}

\* The same deployment may be listed more than once.
collectScriptIDs(c) ==
  (IF c.script = NoScript THEN <<>> ELSE <<c.script>>)
     \o c.list \o c.accounts

ASSUME PoolAssumption ==
  /\ \A c \in Configs : collectScriptIDs(c) \in Seq(Scripts)
  /\ Health \notin Reqs
  /\ Kind \in [Reqs -> {"relay", "exit", "single"}]
  /\ BadTarget \subseteq Reqs
  /\ BlacklistFor \in Nat \ {0}
  /\ MaxTime \in Nat
  /\ "up" \in Conds
  /\ Conds \subseteq {"up", "exhausted", "unreachable"}

VARIABLES
  ids,           \* what collectScriptIDs returns for the relay's own r.cfg
  now,           \* time.Now()
  blacklist,     \* r.blacklist; 0 for a script that has no entry
  devAvailable,  \* r.devAvailable
  pc,            \* where each process stands
  todo,          \* slots of IDs its loop has not finished with
  at,            \* the slot it is asking, 0 if none
  dev,           \* whether that call went to /dev
  answer,        \* what came back
  result,        \* what Do returned
  tried,         \* history: scripts a request asked
  excused,       \* history: scripts that had failed for good within
                 \* BlacklistFor when a request read the blacklist
  lastPerm,      \* history: when a script's last permanent error was dealt
                 \* with, Never if none was
  cleared,       \* history: scripts found well since then by a health check
  ills           \* history: the bad conditions a script answered in

procVars == <<pc, todo, at, dev, answer, result>>
poolVars == <<blacklist, devAvailable>>
histVars == <<tried, excused, lastPerm, cleared, ills>>
vars == <<ids, now, procVars, poolVars, histVars>>

Never == -1
Slots == 1..Len(ids)
Configured == {ids[i] : i \in Slots}

TypeOK ==
  /\ ids \in Seq(Scripts)
  /\ now \in 0..MaxTime
  /\ blacklist \in [Scripts -> 0..(MaxTime + BlacklistFor)]
  /\ devAvailable \in BOOLEAN
  /\ pc \in [Procs -> {"idle", "send", "wait", "settle", "done"}]
  /\ todo \in [Procs -> SUBSET Slots]
  /\ at \in [Procs -> {0} \cup Slots]
  /\ dev \in [Procs -> BOOLEAN]
  /\ answer \in [Procs -> {"none", "ok", "transient", "permanent"}]
  /\ result \in [Reqs -> {"none", "ok", "failed", "noids", "limited"}]
  /\ tried \in [Reqs -> SUBSET Scripts]
  /\ excused \in [Reqs -> SUBSET Scripts]
  /\ lastPerm \in [Scripts -> {Never} \cup 0..MaxTime]
  /\ cleared \subseteq Scripts
  /\ ills \in [Scripts -> SUBSET (Conds \ {"up"})]

Init ==
  /\ ids \in {collectScriptIDs(c) : c \in Configs}
  /\ now = 0
  /\ blacklist = [s \in Scripts |-> 0]
  /\ devAvailable = FALSE
  /\ pc = [p \in Procs |-> "idle"]
  /\ todo = [p \in Procs |-> {}]
  /\ at = [p \in Procs |-> 0]
  /\ dev = [p \in Procs |-> FALSE]
  /\ answer = [p \in Procs |-> "none"]
  /\ result = [r \in Reqs |-> "none"]
  /\ tried = [r \in Reqs |-> {}]
  /\ excused = [r \in Reqs |-> {}]
  /\ lastPerm = [s \in Scripts |-> Never]
  /\ cleared = {}
  /\ ills = [s \in Scripts |-> {}]

-----------------------------------------------------------------------------
\* now.Before(until)
Blacklisted(s) == now < blacklist[s]

\* now.After(until), for an entry there is
Expired(s) == blacklist[s] < now

Healthy == {i \in Slots : ~Blacklisted(ids[i])}

\* Fault: no fallback when every script is blacklisted.
CandidatesNoFallback == Healthy

\* Fault: only the first healthy slot is returned.
CandidatesFirstOnly == {i \in Healthy : \A j \in Healthy : i <= j}

\* What getScriptIDs returns: the healthy slots, or all if there is none.
Candidates == IF Healthy = {} THEN Slots ELSE Healthy

\* Fault: the comparison that finds expired entries is the wrong way round.
KeptSwapped(s) == IF now < blacklist[s] THEN 0 ELSE blacklist[s]

\* Entries kept when every slot was blacklisted.
Kept(s) == IF Expired(s) THEN 0 ELSE blacklist[s]

\* The first slot of a set of slots, as a set.
First(S) == {i \in S : \A j \in S : i <= j}

\* History: scripts with a permanent error younger than BlacklistFor.
Misbehaved ==
  {s \in Scripts : lastPerm[s] # Never /\ now < lastPerm[s] + BlacklistFor}

\* Do is refused by the rate limiter.
Limited(r) ==
  /\ pc[r] = "idle"
  /\ pc' = [pc EXCEPT ![r] = "done"]
  /\ result' = [result EXCEPT ![r] = "limited"]
  /\ UNCHANGED <<ids, now, todo, at, dev, answer, poolVars, histVars>>

\* getScriptIDs returns nothing.  The exit path has no check of its own: its
\* loop runs zero times.
GetNoIDs(r) ==
  /\ pc[r] = "idle"
  /\ Candidates = {}
  /\ pc' = [pc EXCEPT ![r] = "done"]
  /\ result' = [result EXCEPT ![r] =
                  IF Kind[r] = "exit" THEN "failed" ELSE "noids"]
  /\ UNCHANGED <<ids, now, todo, at, dev, answer, poolVars, histVars>>

\* getScriptIDs, under blacklistMu.  doRequestSingle keeps only ids[0].
GetIDs(r) ==
  /\ pc[r] = "idle"
  /\ Candidates # {}
  /\ pc' = [pc EXCEPT ![r] = "send"]
  /\ todo' = [todo EXCEPT ![r] =
                IF Kind[r] = "single" THEN First(Candidates)
                                      ELSE Candidates]
  /\ blacklist' = IF Healthy = {} THEN [s \in Scripts |-> Kept(s)]
                                  ELSE blacklist
  /\ excused' = [excused EXCEPT ![r] = Misbehaved]
  /\ UNCHANGED <<ids, now, at, dev, answer, result, devAvailable,
                 tried, lastPerm, cleared, ills>>

\* The ticker fires: the health checker goes through every slot, healthy or
\* not.  Ticks that fire during a round collapse into the next one.
HealthTick ==
  /\ pc[Health] = "idle"
  /\ pc' = [pc EXCEPT ![Health] = IF Slots = {} THEN "idle" ELSE "send"]
  /\ todo' = [todo EXCEPT ![Health] = Slots]
  /\ UNCHANGED <<ids, now, at, dev, answer, result, poolVars, histVars>>

\* devAvailable as a sender may see it: relayViaExitNode reads it without
\* devMu and may miss a write.
DevSeen(p) ==
  IF p \in Reqs /\ Kind[p] = "exit" THEN {FALSE, devAvailable}
                                    ELSE {devAvailable}

\* The next slot of the loop is asked.
Send(p) ==
  /\ pc[p] = "send"
  /\ pc' = [pc EXCEPT ![p] = "wait"]
  /\ \E i \in First(todo[p]) :
       /\ at' = [at EXCEPT ![p] = i]
       /\ tried' = [r \in Reqs |->
                      IF r = p THEN tried[r] \cup {ids[i]} ELSE tried[r]]
  /\ \E d \in DevSeen(p) : dev' = [dev EXCEPT ![p] = d]
  /\ UNCHANGED <<ids, now, todo, answer, result, poolVars,
                 excused, lastPerm, cleared, ills>>

\* The key sent with a request: cfg.AuthKey, whatever the script.
KeyFor(s) == AuthKey

\* A call that cannot be read: a timeout, a transport error, or a body that
\* extractRelayJSON rejects, such as the login page of a closed /dev.
Unreadable(p, c) ==
  \/ c = "unreachable"
  \/ dev[p] /\ ids[at[p]] \notin DevOpen

\* A call that Code.gs answers with an "e".
Refused(p, c) ==
  \/ c = "exhausted"
  \/ KeyFor(ids[at[p]]) # AccountKey[ids[at[p]]]
  \/ p \in BadTarget

\* The call of p ends while its script is in condition c.
AnswerIn(p, c) ==
  /\ pc[p] = "wait"
  /\ pc' = [pc EXCEPT ![p] = "settle"]
  /\ ills' = [ills EXCEPT ![ids[at[p]]] = @ \cup ({c} \ {"up"})]
  /\ UNCHANGED <<ids, now, todo, at, dev, result, blacklist,
                 tried, excused, lastPerm, cleared>>

\* A body that begins like JSON and is none sets the latch all the same: the
\* code looks at its first byte before it parses it.
AnswerTransient(p) ==
  \E c \in Conds :
    /\ AnswerIn(p, c)
    /\ Unreadable(p, c)
    /\ answer' = [answer EXCEPT ![p] = "transient"]
    /\ devAvailable' \in {devAvailable, devAvailable \/ ids[at[p]] \in DirectJSON}

\* An answer in JSON.  If it was not wrapped in a page it sets the latch,
\* for every script and for good.
AnswerJSON(p) ==
  \E c \in Conds :
    /\ AnswerIn(p, c)
    /\ ~Unreadable(p, c)
    /\ answer' = [answer EXCEPT ![p] =
                    IF Refused(p, c) THEN "permanent" ELSE "ok"]
    /\ devAvailable' = (devAvailable \/ ids[at[p]] \in DirectJSON)

-----------------------------------------------------------------------------
(* What is done about an answer.                                            *)

\* Fault: the loop gives up at the first error.
AdvanceStop(p) ==
  /\ todo' = [todo EXCEPT ![p] = {}]
  /\ pc' = [pc EXCEPT ![p] = IF p = Health THEN "idle" ELSE "done"]
  /\ result' = [r \in Reqs |-> IF r = p THEN "failed" ELSE result[r]]
  /\ at' = [at EXCEPT ![p] = 0]
  /\ dev' = [dev EXCEPT ![p] = FALSE]
  /\ answer' = [answer EXCEPT ![p] = "none"]

\* Fault: the loop asks the same slot again.
AdvanceRetry(p) ==
  /\ pc' = [pc EXCEPT ![p] = "send"]
  /\ at' = [at EXCEPT ![p] = 0]
  /\ dev' = [dev EXCEPT ![p] = FALSE]
  /\ answer' = [answer EXCEPT ![p] = "none"]
  /\ UNCHANGED <<todo, result>>

\* The loop of p goes on to its next slot, or ends.
Advance(p) ==
  /\ todo' = [todo EXCEPT ![p] = @ \ {at[p]}]
  /\ pc' = [pc EXCEPT ![p] =
              IF todo[p] # {at[p]} THEN "send"
              ELSE IF p = Health THEN "idle" ELSE "done"]
  /\ result' = [r \in Reqs |->
                  IF r = p /\ todo[p] = {at[p]} THEN "failed" ELSE result[r]]
  /\ at' = [at EXCEPT ![p] = 0]
  /\ dev' = [dev EXCEPT ![p] = FALSE]
  /\ answer' = [answer EXCEPT ![p] = "none"]

\* Fault: the term is added to what is left of the old one.
BlacklistExtend(s) ==
  /\ blacklist' = [blacklist EXCEPT ![s] =
                     (IF Blacklisted(s) THEN @ ELSE now) + BlacklistFor]
  /\ lastPerm' = [lastPerm EXCEPT ![s] = now]
  /\ cleared' = cleared \ {s}

\* blacklistScript
Blacklist(s) ==
  /\ blacklist' = [blacklist EXCEPT ![s] = now + BlacklistFor]
  /\ lastPerm' = [lastPerm EXCEPT ![s] = now]
  /\ cleared' = cleared \ {s}

\* A request succeeds: Do returns, whatever slots are left.
Succeed(r) ==
  /\ pc[r] = "settle"
  /\ answer[r] = "ok"
  /\ pc' = [pc EXCEPT ![r] = "done"]
  /\ result' = [result EXCEPT ![r] = "ok"]
  /\ todo' = [todo EXCEPT ![r] = {}]
  /\ at' = [at EXCEPT ![r] = 0]
  /\ dev' = [dev EXCEPT ![r] = FALSE]
  /\ answer' = [answer EXCEPT ![r] = "none"]
  /\ UNCHANGED <<ids, now, poolVars, histVars>>

\* An error that blacklists nobody: every transient one, and every error of
\* the exit path and of a coalesced GET.
Fail(p) ==
  /\ pc[p] = "settle"
  /\ \/ answer[p] = "transient"
     \/ answer[p] = "permanent" /\ p \in Reqs /\ Kind[p] # "relay"
  /\ Advance(p)
  /\ UNCHANGED <<ids, now, poolVars, histVars>>

\* isPermanentError, in Do's loop and in the health checker.
FailForGood(p) ==
  /\ pc[p] = "settle"
  /\ answer[p] = "permanent"
  /\ p \in Reqs => Kind[p] = "relay"
  /\ Blacklist(ids[at[p]])
  /\ Advance(p)
  /\ UNCHANGED <<ids, now, devAvailable, tried, excused, ills>>

\* Fault: a health check that succeeds leaves the entry alone.
HealthOkKeeps ==
  /\ pc[Health] = "settle"
  /\ answer[Health] = "ok"
  /\ Advance(Health)
  /\ UNCHANGED <<ids, now, poolVars, histVars>>

\* A health check that succeeds deletes the entry, if there is one.
HealthOk ==
  /\ pc[Health] = "settle"
  /\ answer[Health] = "ok"
  /\ blacklist' = [blacklist EXCEPT ![ids[at[Health]]] = 0]
  /\ cleared' = cleared \cup {ids[at[Health]]}
  /\ Advance(Health)
  /\ UNCHANGED <<ids, now, devAvailable, tried, excused, lastPerm, ills>>

-----------------------------------------------------------------------------
(* The world outside.                                                       *)

Tick ==
  /\ now < MaxTime
  /\ now' = now + 1
  /\ UNCHANGED <<ids, procVars, poolVars, histVars>>

ReqStep(r) == Limited(r) \/ GetNoIDs(r) \/ GetIDs(r) \/ Succeed(r)

CallStep(p) ==
  Send(p) \/ AnswerTransient(p) \/ AnswerJSON(p) \/ Fail(p) \/ FailForGood(p)

Next ==
  \/ \E r \in Reqs : ReqStep(r)
  \/ \E p \in Procs : CallStep(p)
  \/ HealthTick
  \/ HealthOk
  \/ Tick

Spec == Init /\ [][Next]_vars

\* Goroutines run, the ticker ticks and every call ends, if only by the
\* client's 25-second timeout.  Nothing is asked of the clock, of the scripts
\* or of the arrival of requests.
Fairness ==
  /\ \A r \in Reqs : WF_vars(Succeed(r))
  /\ \A p \in Procs : WF_vars(CallStep(p))
  /\ WF_vars(HealthTick)
  /\ WF_vars(HealthOk)

FairSpec == Spec /\ Fairness

-----------------------------------------------------------------------------
(* Safety.                                                                  *)

\* relay.go:217-235: a request that may fail over and comes back with an
\* error has been refused by every configured script itself, except those
\* that had failed for good within BlacklistFor when it read the blacklist.
\* Neither a slot listed twice, nor a script blacklisted or cleared by others
\* while the loop runs, makes it skip one.
FailureJustified ==
  \A r \in Reqs :
    (Kind[r] # "single" /\ result[r] = "failed") =>
       Configured \subseteq tried[r] \cup excused[r]

\* relay.go:163-170: blacklisting never takes the last script away.  A
\* request that asked no script at all failed because none is configured.
NeverDry ==
  \A r \in Reqs :
    (result[r] \in {"failed", "noids"} /\ tried[r] = {}) => Configured = {}

\* relay.go:174-177: an error that is permanent keeps its script out for the
\* whole of BlacklistFor, whatever others do to the map meanwhile, unless a
\* health check found the script well.
BlacklistPersists ==
  \A s \in Scripts \ cleared :
    s \in Misbehaved => blacklist[s] = lastPerm[s] + BlacklistFor

\* A deployment that answers with the key it is sent, under the address in
\* use at the moment.
Reachable(s) ==
  /\ KeyFor(s) = AccountKey[s]
  /\ devAvailable => s \in DevOpen

\* relay.go:222-235: a request whose target is sound does not fail while a
\* configured script that can be reached has been well throughout, whatever
\* state the others are in - as long as no request for a bad target went
\* through that script (see BlacklistMeansScriptFault).
Served ==
  \A r \in Reqs \ BadTarget : \A s \in Configured :
    (Kind[r] # "single" /\ result[r] = "failed" /\ ills[s] = {}) =>
       \/ ~Reachable(s)
       \/ \E b \in BadTarget : s \in tried[b]

-----------------------------------------------------------------------------
(* Liveness.                                                                *)

\* relay.go:222-235, 352-354: a request that got past the limiter is answered.
RequestsEnd ==
  \A r \in Reqs : pc[r] # "idle" ~> pc[r] = "done"

\* A step in which s answers badly, for a reason that is its own.
BadAnswer(s) ==
  \E p \in Procs \ BadTarget :
    /\ pc[p] = "wait"
    /\ pc'[p] = "settle"
    /\ ids[at[p]] = s
    /\ answer'[p] # "ok"

\* relay.go:670-687: a script that answers well from some moment on is in use
\* for good from some moment on, even if the 10 minutes never pass: the health
\* checker sees to it, and no request in flight with an old error has the
\* last word.
HealedScriptReturns ==
  \A s \in Scripts :
    <>[][~BadAnswer(s)]_vars => <>[](~Blacklisted(s))

-----------------------------------------------------------------------------
(* What the repository says of the pool, and the code does not do.          *)

\* relay.go:188, "Only blacklist for truly permanent or quota-related
\* errors": a script is blacklisted only if it has been out of quota.
BlacklistMeansScriptFault ==
  \A s \in Scripts : blacklist[s] # 0 => "exhausted" \in ills[s]
=============================================================================
