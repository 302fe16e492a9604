--------------------------- MODULE GitHubModeProofs ---------------------------
(***************************************************************************)
(* What GitHubMode promises for any number of requests, users and looks.    *)
(* Every write of ghState leaves its status and its Codespace together; that *)
(* what becomes ready has not been stopped needs that nobody can name a      *)
(* Codespace before its create has ended (Fresh).  That a new Cmd overwrites *)
(* no living one needs that the one start that holds the mutex found none    *)
(* (Owner, Vacant).                                                         *)
(***************************************************************************)
EXTENDS GitHubMode, TLAPS

\* A start that prepares is the one that holds the mutex ...
Owner == \A x \in XrayStarts : xpc[x] = "prepare" => holder = x

\* ... and while it is held, the Cmd it will overwrite does not count.
Vacant == holder # NoCmd => ~Counts(xrayCmd)

\* Who waits for GitHub to end a Codespace has named one ...
Naming == \A d \in Stops \cup Deletes : at[d] = "wait" => asked[d] # None

\* ... and a Codespace whose create has not ended has been named by nobody.
Fresh ==
  \A c \in Creates :
    /\ at[c] \in {"idle", "write"} => job[c] = "none"
    /\ job[c] # "done" =>
         /\ ghState.codespace.name # c /\ c \notin over
         /\ \A d \in Stops \cup Deletes : asked[d] # c

Codes == CodespaceTypeOK /\ ReadyWhole /\ CreatingIsWorking /\ Naming /\ Fresh

Procs == XrayTypeOK /\ NoOrphan /\ Owner /\ Vacant

-----------------------------------------------------------------------------

\* ghState is always a gitHubState, and what is set of it is what is said.
LEMMA StartsZero ==
  /\ Zero \in GitHubState /\ Zero.status = ""
  /\ NoCodespace \in CodespaceState
BY DEF Zero, NoCodespace, GitHubState, CodespaceState

LEMMA SetsAccount ==
  ASSUME ghState \in GitHubState,
         NEW a \in BOOLEAN, NEW u \in Users \cup {None}, NEW f \in BOOLEAN
  PROVE  /\ Account(a, u, f) \in GitHubState
         /\ Account(a, u, f).status = ghState.status
         /\ Account(a, u, f).codespace = ghState.codespace
BY DEF Account, GitHubState

LEMMA SetsMachine ==
  ASSUME ghState \in GitHubState, NEW e \in BOOLEAN, NEW c \in CodespaceState,
         NEW s \in {"", "idle", "creating", "ready", "error"}
  PROVE  /\ Machine(s, e, c) \in GitHubState
         /\ Machine(s, e, c).status = s
         /\ Machine(s, e, c).codespace = c
BY DEF Machine, GitHubState

LEMMA Fields ==
  ASSUME ghState \in GitHubState
  PROVE  /\ ghState.auth \in BOOLEAN /\ ghState.forked \in BOOLEAN
         /\ ghState.error \in BOOLEAN
         /\ ghState.user \in Users \cup {None}
         /\ ghState.codespace \in CodespaceState
         /\ ghState.codespace.name \in Creates \cup {None}
BY DEF GitHubState, CodespaceState

-----------------------------------------------------------------------------

\* What is said of ghState and of the jobs, apart from the requests
Shared ==
  /\ ghState \in GitHubState /\ job \in [Creates -> {"none", "post", "poll", "done"}]
  /\ ReadyWhole /\ CreatingIsWorking

Rest ==
  /\ at \in [Calls -> {"idle", "wait", "write", "end"}]
  /\ token \in Users \cup {None} /\ panel \in Users \cup {None}
  /\ who \in [Logins -> Users \cup {None}]
  /\ looks \in [Creates -> 0..(Polls - 1)]
  /\ asked \in [Stops \cup Deletes -> Creates \cup {None}]
  /\ over \subseteq Creates
  /\ Naming

LEMMA Parts == Codes <=> Shared /\ Rest /\ Fresh
BY DEF Codes, CodespaceTypeOK, Shared, Rest

LEMMA CodesInit == CodespaceInit => Codes
<1> SUFFICES ASSUME CodespaceInit PROVE Codes
  OBVIOUS
<1>1. Shared
  BY StartsZero DEF CodespaceInit, Shared, ReadyWhole, CreatingIsWorking
<1>2. Rest
  BY CodespaceAssumption DEF CodespaceInit, Rest, Naming, Calls
<1>3. Fresh
  BY CodespaceAssumption DEF CodespaceInit, Fresh, Calls, Zero, NoCodespace
<1>. QED
  BY <1>1, <1>2, <1>3, Parts

LEMMA RestStep == Shared /\ Rest /\ [CodespaceNext]_csVars => Rest'
<1> SUFFICES ASSUME Shared, Rest, [CodespaceNext]_csVars PROVE Rest'
  OBVIOUS
<1> USE CodespaceAssumption DEF Rest, Naming, Goes, Calls
<1>1. ASSUME NEW l \in Logins, AskLogin(l) \/ NoToken(l) \/ LoggedIn(l) PROVE Rest'
  <2>0. \E to : at' = [at EXCEPT ![l] = to]
    BY <1>1 DEF AskLogin, NoToken, LoggedIn
  <2>1. \A d \in Stops \cup Deletes : at'[d] = at[d]
    BY <2>0
  <2>2. /\ at' \in [Calls -> {"idle", "wait", "write", "end"}]
        /\ UNCHANGED <<token, panel, who, looks, asked, over>>
    BY <1>1 DEF AskLogin, NoToken, LoggedIn
  <2>. QED
    BY <2>1, <2>2
<1>2. ASSUME NEW l \in Logins, GotToken(l) PROVE Rest'
  BY <1>2 DEF GotToken
<1>3. ASSUME NEW o \in Logouts, Logout(o) \/ LoggedOut(o) PROVE Rest'
  BY <1>3 DEF Logout, LoggedOut
<1>4. ASSUME LoadConfig \/ SaveConfig \/ Status PROVE Rest'
  BY <1>4 DEF LoadConfig, SaveConfig, Status
<1>5. ASSUME NEW f \in Forks, AskFork(f) \/ Forked(f) PROVE Rest'
  <2>0. \E to : at' = [at EXCEPT ![f] = to]
    BY <1>5 DEF AskFork, Forked
  <2>1. \A d \in Stops \cup Deletes : at'[d] = at[d]
    BY <2>0
  <2>2. /\ at' \in [Calls -> {"idle", "wait", "write", "end"}]
        /\ UNCHANGED <<token, panel, who, looks, asked, over>>
    BY <1>5 DEF AskFork, Forked
  <2>. QED
    BY <2>1, <2>2
<1>6. ASSUME NEW c \in Creates, AskCreate(c) \/ Creating(c) PROVE Rest'
  BY <1>6 DEF AskCreate, Creating
<1>7. ASSUME NEW c \in Creates, SetGHError(c) \/ Posted(c) \/ Ready(c) PROVE Rest'
  BY <1>7 DEF SetGHError, Posted, Ready
<1>8. ASSUME NEW c \in Creates, Look(c) PROVE Rest'
  <2>1. looks[c] + 1 \in 0..(Polls - 1)
    BY <1>8 DEF Look
  <2>. QED
    BY <1>8, <2>1 DEF Look
<1>9. ASSUME NEW s \in Stops \cup Deletes, AskEnd(s) PROVE Rest'
  <2>1. ghState.codespace.name \in Creates \cup {None}
    BY Fields DEF Shared
  <2>2. CASE ghState.codespace.name # None
    BY <1>9, <2>1, <2>2 DEF AskEnd
  <2>3. CASE ghState.codespace.name = None
    BY <1>9, <2>3 DEF AskEnd
  <2>. QED
    BY <2>2, <2>3
<1>10. ASSUME NEW s \in Stops \cup Deletes, EndFails(s) PROVE Rest'
  BY <1>10 DEF EndFails
<1>11. ASSUME NEW s \in Stops, Stopped(s) PROVE Rest'
  <2>1. asked[s] \in Creates
    BY <1>11 DEF Stopped
  <2>. QED
    BY <1>11, <2>1 DEF Stopped
<1>12. ASSUME NEW d \in Deletes, Deleted(d) PROVE Rest'
  <2>1. asked[d] \in Creates
    BY <1>12 DEF Deleted
  <2>. QED
    BY <1>12, <2>1 DEF Deleted
<1>13. CASE UNCHANGED csVars
  BY <1>13 DEF csVars
<1>. QED
  BY <1>1, <1>2, <1>3, <1>4, <1>5, <1>6, <1>7, <1>8, <1>9, <1>10, <1>11, <1>12, <1>13
     DEF CodespaceNext, Job

\* Only a create that ends gives its Codespace a name.
LEMMA FreshStep == Shared /\ Rest /\ Fresh /\ [CodespaceNext]_csVars => Fresh'
<1> SUFFICES ASSUME Shared, Rest, Fresh, [CodespaceNext]_csVars PROVE Fresh'
  OBVIOUS
<1> USE CodespaceAssumption DEF Fresh, Goes
<1>1. /\ at \in [Calls -> {"idle", "wait", "write", "end"}]
      /\ job \in [Creates -> {"none", "post", "poll", "done"}]
      /\ asked \in [Stops \cup Deletes -> Creates \cup {None}]
      /\ Creates \subseteq Calls
  BY DEF Shared, Rest, Calls
<1>2. ASSUME ghState'.codespace.name \in {ghState.codespace.name, None},
             UNCHANGED <<job, asked, over>>,
             \A c \in Creates : at'[c] = at[c]
      PROVE  Fresh'
  BY <1>1, <1>2
<1>3. ASSUME NEW l \in Logins, AskLogin(l) \/ GotToken(l) \/ NoToken(l) PROVE Fresh'
  BY <1>1, <1>2, <1>3 DEF AskLogin, GotToken, NoToken
<1>4. ASSUME NEW l \in Logins, LoggedIn(l) PROVE Fresh'
  BY <1>1, <1>2, <1>4 DEF LoggedIn, Account
<1>5. ASSUME NEW o \in Logouts, Logout(o) \/ LoggedOut(o) PROVE Fresh'
  <2>1. UNCHANGED <<job, asked, over>> /\ \A c \in Creates : at'[c] = at[c]
    BY <1>1, <1>5 DEF Logout, LoggedOut
  <2>2. ghState' \in {ghState, Zero} /\ Zero.codespace.name = None
    BY <1>5 DEF Logout, LoggedOut, Zero, NoCodespace
  <2>3. ghState'.codespace.name \in {ghState.codespace.name, None}
    BY <2>2
  <2>. QED
    BY <1>2, <2>1, <2>3
<1>6. ASSUME LoadConfig \/ SaveConfig \/ Status PROVE Fresh'
  <2>1. UNCHANGED <<at, job, asked, over>>
    BY <1>6 DEF LoadConfig, SaveConfig, Status
  <2>2. /\ ghState' \in {ghState, Machine("idle", ghState.error, ghState.codespace)}
        /\ Machine("idle", ghState.error, ghState.codespace).codespace = ghState.codespace
    BY <1>6 DEF LoadConfig, SaveConfig, Status, Machine
  <2>. QED
    BY <1>2, <2>1, <2>2
<1>7. ASSUME NEW f \in Forks, AskFork(f) \/ Forked(f) PROVE Fresh'
  BY <1>1, <1>2, <1>7 DEF AskFork, Forked, Account
<1>8. ASSUME NEW c \in Creates, AskCreate(c) PROVE Fresh'
  BY <1>1, <1>8 DEF AskCreate
<1>9. ASSUME NEW c \in Creates, Creating(c) PROVE Fresh'
  BY <1>1, <1>9 DEF Creating, Machine
<1>10. ASSUME NEW c \in Creates, SetGHError(c) \/ Posted(c) \/ Look(c) PROVE Fresh'
  BY <1>1, <1>10 DEF SetGHError, Posted, Look, Machine
<1>11. ASSUME NEW c \in Creates, Ready(c) PROVE Fresh'
  BY <1>1, <1>11 DEF Ready, Machine
<1>12. ASSUME NEW d \in Stops \cup Deletes, AskEnd(d) \/ EndFails(d) PROVE Fresh'
  BY <1>1, <1>12 DEF AskEnd, EndFails
<1>13. ASSUME NEW s \in Stops, Stopped(s) PROVE Fresh'
  BY <1>1, <1>13 DEF Stopped, Machine
<1>14. ASSUME NEW d \in Deletes, Deleted(d) PROVE Fresh'
  BY <1>1, <1>14 DEF Deleted, Machine, NoCodespace
<1>15. CASE UNCHANGED csVars
  BY <1>1, <1>2, <1>15 DEF csVars
<1>. QED
  BY <1>3, <1>4, <1>5, <1>6, <1>7, <1>8, <1>9, <1>10, <1>11, <1>12, <1>13, <1>14, <1>15
     DEF CodespaceNext, Job

LEMMA SharedStep == Shared /\ Rest /\ Fresh /\ [CodespaceNext]_csVars => Shared'
<1> SUFFICES ASSUME Shared, Rest, Fresh, [CodespaceNext]_csVars PROVE Shared'
  OBVIOUS
<1> USE CodespaceAssumption, Fields DEF Shared, ReadyWhole, CreatingIsWorking
<1>1. CASE UNCHANGED <<ghState, job, over>>
  BY <1>1
<1>2. ASSUME NEW l \in Logins, LoggedIn(l) PROVE Shared'
  <2>1. CASE UNCHANGED ghState
    BY <1>1, <1>2, <2>1 DEF LoggedIn
  <2>2. ASSUME NEW u \in Users \cup {None}, ghState' = Account(TRUE, u, ghState.forked)
        PROVE  Shared'
    <3>1. /\ Account(TRUE, u, ghState.forked) \in GitHubState
          /\ Account(TRUE, u, ghState.forked).status = ghState.status
          /\ Account(TRUE, u, ghState.forked).codespace = ghState.codespace
      BY SetsAccount
    <3>2. job' = job /\ over' = over
      BY <1>2 DEF LoggedIn
    <3>. QED
      BY <2>2, <3>1, <3>2
  <2>. QED
    BY <1>2, <2>1, <2>2 DEF LoggedIn, Rest
<1>3. ASSUME NEW o \in Logouts, LoggedOut(o) PROVE Shared'
  BY <1>3, StartsZero DEF LoggedOut
<1>4. ASSUME NEW f \in Forks, Forked(f) PROVE Shared'
  <2> DEFINE forked == Account(ghState.auth, ghState.user, TRUE)
  <2>1. /\ forked \in GitHubState /\ forked.status = ghState.status
        /\ forked.codespace = ghState.codespace
    BY SetsAccount
  <2>2. ghState' \in {ghState, forked} /\ job' = job /\ over' = over
    BY <1>4 DEF Forked
  <2> HIDE DEF forked
  <2>. QED
    BY <2>1, <2>2
<1>5. ASSUME NEW c \in Creates, Creating(c) PROVE Shared'
  <2> DEFINE now == Machine("creating", FALSE, ghState.codespace)
  <2>1. now \in GitHubState /\ now.status = "creating"
    BY SetsMachine
  <2>2. ghState' = now /\ job' = [job EXCEPT ![c] = "post"]
    BY <1>5 DEF Creating
  <2> HIDE DEF now
  <2>. QED
    BY <2>1, <2>2
<1>6. ASSUME NEW c \in Creates, SetGHError(c) PROVE Shared'
  BY <1>6, SetsMachine DEF SetGHError
<1>7. ASSUME NEW c \in Creates, Posted(c) PROVE Shared'
  BY <1>7 DEF Posted
<1>8. ASSUME NEW c \in Creates, Ready(c) PROVE Shared'
  <2> DEFINE made == [name |-> c, status |-> "ready"]
  <2>1. made \in CodespaceState /\ made.name = c /\ made.status = "ready"
    BY DEF CodespaceState
  <2>2. /\ ghState' = Machine("ready", ghState.error, made)
        /\ job' = [job EXCEPT ![c] = "done"]
        /\ c \notin over'
    BY <1>8 DEF Ready, Fresh
  <2> HIDE DEF made
  <2> DEFINE now == Machine("ready", ghState.error, made)
  <2>3. now \in GitHubState /\ now.status = "ready" /\ now.codespace = made
    <3>1. ghState.error \in BOOLEAN /\ made \in CodespaceState
      BY <2>1
    <3>2. now \in GitHubState
      BY <3>1, SetsMachine
    <3>3. now.status = "ready" /\ now.codespace = made
      BY DEF Machine
    <3>. QED
      BY <3>2, <3>3
  <2> HIDE DEF now
  <2>4. ghState' = now
    BY <2>2 DEF now
  <2>. QED
    BY <2>1, <2>2, <2>3, <2>4
<1>9. ASSUME NEW s \in Stops, Stopped(s) PROVE Shared'
  <2> DEFINE left == [name |-> ghState.codespace.name, status |-> "stopped"]
  <2>1. left \in CodespaceState
    BY DEF CodespaceState
  <2>2. ghState' = Machine("idle", ghState.error, left) /\ job' = job
    BY <1>9 DEF Stopped
  <2> HIDE DEF left
  <2>. QED
    BY <2>1, <2>2, SetsMachine
<1>10. ASSUME NEW d \in Deletes, Deleted(d) PROVE Shared'
  BY <1>10, StartsZero, SetsMachine DEF Deleted
<1>11. ASSUME Status PROVE Shared'
  BY <1>11, SetsMachine DEF Status
<1>12. CASE UNCHANGED csVars
  BY <1>1, <1>12 DEF csVars
<1>13. ASSUME NEW l \in Logins, AskLogin(l) \/ GotToken(l) \/ NoToken(l) PROVE Shared'
  BY <1>1, <1>13 DEF AskLogin, GotToken, NoToken
<1>14. ASSUME NEW o \in Logouts, Logout(o) PROVE Shared'
  BY <1>1, <1>14 DEF Logout
<1>15. ASSUME LoadConfig \/ SaveConfig PROVE Shared'
  BY <1>1, <1>15 DEF LoadConfig, SaveConfig
<1>16. ASSUME NEW f \in Forks, AskFork(f) PROVE Shared'
  BY <1>1, <1>16 DEF AskFork
<1>17. ASSUME NEW c \in Creates, AskCreate(c) \/ Look(c) PROVE Shared'
  BY <1>1, <1>17 DEF AskCreate, Look
<1>18. ASSUME NEW s \in Stops \cup Deletes, AskEnd(s) \/ EndFails(s) PROVE Shared'
  BY <1>1, <1>18 DEF AskEnd, EndFails
<1>19. CASE CodespaceNext
  BY <1>2, <1>3, <1>4, <1>5, <1>6, <1>7, <1>8, <1>9, <1>10, <1>11, <1>13, <1>14,
     <1>15, <1>16, <1>17, <1>18, <1>19 DEF CodespaceNext, Job
<1>. QED
  BY <1>12, <1>19

LEMMA CodesStep == Codes /\ [CodespaceNext]_csVars => Codes'
<1> SUFFICES ASSUME Codes, [CodespaceNext]_csVars PROVE Codes'
  OBVIOUS
<1>1. Shared /\ Rest /\ Fresh
  BY Parts
<1>2. Shared' /\ Rest' /\ Fresh'
  BY <1>1, RestStep, SharedStep, FreshStep
<1>. QED
  BY <1>2 DEF Codes, CodespaceTypeOK, Shared, Rest

LEMMA CodesRestart == Codes /\ CodespaceRestart => Codes'
<1> SUFFICES ASSUME Codes, CodespaceRestart PROVE Codes'
  OBVIOUS
<1>1. Shared /\ Rest /\ Fresh
  BY Parts
<1>2. Shared'
  BY <1>1, StartsZero
     DEF CodespaceRestart, Shared, ReadyWhole, CreatingIsWorking
<1>3. Rest'
  BY <1>1 DEF CodespaceRestart, Rest, Naming, Calls
<1>4. Fresh'
  BY <1>1, CodespaceAssumption
     DEF CodespaceRestart, Fresh, Shared, Rest, Zero, NoCodespace, Calls
<1>. QED
  BY <1>2, <1>3, <1>4 DEF Codes, CodespaceTypeOK, Shared, Rest

-----------------------------------------------------------------------------

LEMMA ProcsInit == XrayInit => Procs
BY XrayAssumption
   DEF XrayInit, Procs, XrayTypeOK, NoOrphan, Owner, Vacant, Cmds, Counts

LEMMA ProcsStep == Procs /\ [XrayNext(HasVLESS)]_xrayVars => Procs'
<1> SUFFICES ASSUME Procs, [XrayNext(HasVLESS)]_xrayVars PROVE Procs'
  OBVIOUS
<1> USE XrayAssumption DEF Procs, Cmds, Moves, Counts, Kill
<1>1. ASSUME NEW x \in XrayStarts, XrayStart(x, HasVLESS) PROVE Procs'
  BY <1>1 DEF XrayStart, XrayTypeOK, NoOrphan, Owner, Vacant
<1>2. ASSUME NEW x \in XrayStarts, XrayStarted(x) PROVE Procs'
  <2>1. holder = x /\ ~Counts(xrayCmd)
    BY <1>2 DEF XrayStarted, Owner, Vacant
  <2>2. \A z \in XrayStarts : process[z] # "alive"
    BY <2>1 DEF NoOrphan, XrayTypeOK
  <2>3. XrayTypeOK'
    BY <1>2 DEF XrayStarted, XrayTypeOK
  <2>4. NoOrphan'
    BY <1>2, <2>2 DEF XrayStarted, XrayTypeOK, NoOrphan
  <2>5. Owner' /\ Vacant'
    BY <1>2, <2>1 DEF XrayStarted, XrayTypeOK, Owner, Vacant
  <2>. QED
    BY <2>3, <2>4, <2>5
<1>3. ASSUME NEW y \in XrayStops, XrayStop(y) PROVE Procs'
  <2>1. XrayTypeOK'
    BY <1>3 DEF XrayStop, XrayTypeOK
  <2>2. NoOrphan'
    BY <1>3 DEF XrayStop, XrayTypeOK, NoOrphan
  <2>3. Owner' /\ Vacant'
    BY <1>3 DEF XrayStop, XrayTypeOK, Owner, Vacant
  <2>. QED
    BY <2>1, <2>2, <2>3
<1>4. ASSUME NEW v \in Connects, ConnectV2Ray(v) PROVE Procs'
  <2> DEFINE killed == IF Counts(v2rayCmd)
                         THEN [process EXCEPT ![v2rayCmd] = "ended"] ELSE process
  <2>1. \A z \in Connects : killed[z] # "alive"
    BY DEF XrayTypeOK, NoOrphan
  <2>2. \A z \in XrayStarts : killed[z] = process[z]
    BY DEF XrayTypeOK
  <2>3. killed \in [Cmds -> {"none", "alive", "left", "ended"}]
    BY DEF XrayTypeOK
  <2>4. /\ \/ process' = killed
           \/ process' = [killed EXCEPT ![v] = "alive"] /\ v2rayCmd' = v
        /\ v2rayCmd' \in {v, v2rayCmd} /\ UNCHANGED <<xrayCmd, holder>>
        /\ xpc' = [xpc EXCEPT ![v] = "end"]
    BY <1>4 DEF ConnectV2Ray
  <2> HIDE DEF killed
  <2>5. XrayTypeOK'
    BY <2>3, <2>4 DEF XrayTypeOK
  <2>6. NoOrphan'
    BY <2>1, <2>2, <2>3, <2>4 DEF XrayTypeOK, NoOrphan
  <2>7. Owner' /\ Vacant'
    BY <2>2, <2>3, <2>4 DEF XrayTypeOK, Owner, Vacant
  <2>. QED
    BY <2>5, <2>6, <2>7
<1>5. ASSUME NEW x \in Cmds, Ends(x) PROVE Procs'
  BY <1>5 DEF Ends, XrayTypeOK, NoOrphan, Owner, Vacant
<1>6. CASE UNCHANGED xrayVars
  BY <1>6 DEF xrayVars, XrayTypeOK, NoOrphan, Owner, Vacant
<1>. QED
  BY <1>1, <1>2, <1>3, <1>4, <1>5, <1>6 DEF XrayNext

LEMMA ProcsRestart == Procs /\ XrayRestart => Procs'
BY XrayAssumption
   DEF XrayRestart, Procs, XrayTypeOK, NoOrphan, Owner, Vacant, Cmds, Counts

-----------------------------------------------------------------------------

\* Each half of a step is a step or a stutter of its part.
LEMMA Invariant == Spec => [](Codes /\ Procs)
<1>1. Init => Codes /\ Procs
  BY CodesInit, ProcsInit DEF Init
<1>2. Codes /\ Procs /\ [Next]_vars => (Codes /\ Procs)'
  BY CodesStep, CodesRestart, ProcsStep, ProcsRestart DEF Next, Restart, vars
<1>. QED
  BY <1>1, <1>2, PTL DEF Spec

\* The types of both parts (gui/github_codespace.go:22-39, 382-385).
THEOREM TypeCorrect == Spec => []TypeOK
<1>1. Codes /\ Procs => TypeOK
  BY DEF Codes, Procs, TypeOK
<1>. QED
  BY <1>1, Invariant, PTL

\* Whatever overlaps, what is called ready is a whole, ready Codespace
\* (gui/github_codespace.go:307-315, 343-346, 364-367).
THEOREM WholeWhenReady == Spec => []ReadyWhole
<1>1. Codes /\ Procs => ReadyWhole
  BY DEF Codes
<1>. QED
  BY <1>1, Invariant, PTL

\* However many creates overlap, a goroutine is at work while the status is
\* creating (gui/github_codespace.go:250-317).
THEOREM WorkBehindCreating == Spec => []CreatingIsWorking
<1>1. Codes /\ Procs => CreatingIsWorking
  BY DEF Codes
<1>. QED
  BY <1>1, Invariant, PTL

\* No Xray is left that nobody can stop, for any starts, stops and connections
\* (gui/github_codespace.go:507-554, proxy/v2ray.go:20-48).
THEOREM NoneOrphaned == Spec => []NoOrphan
<1>1. Codes /\ Procs => NoOrphan
  BY DEF Procs
<1>. QED
  BY <1>1, Invariant, PTL

=============================================================================
