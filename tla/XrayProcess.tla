----------------------------- MODULE XrayProcess -----------------------------
(***************************************************************************)
(* The two owners of Xray processes: handleXrayStart and handleXrayStop with *)
(* xrayCmd (gui/github_codespace.go:382-554), and ConnectV2Ray with v2rayCmd *)
(* (proxy/v2ray.go:15-48).  Each holds a mutex of its own throughout, also   *)
(* while it downloads the program.  Nobody calls Wait: a process that has    *)
(* ended by itself still counts as running.  Nobody kills them when the      *)
(* program ends: they run on, and the next run of it does not know of them.  *)
(***************************************************************************)
CONSTANTS
  XrayStarts, XrayStops, Connects,  \* requests
  NoCmd

ASSUME XrayAssumption ==
  /\ XrayStarts \cap Connects = {}
  /\ NoCmd \notin XrayStarts \cup Connects

VARIABLES
  xpc,      \* where each request stands
  xrayCmd, v2rayCmd,  \* the request whose Cmd each global is, or nil
  process,  \* of each Cmd: not started, alive, left by a program that ended, or
            \* ended
  holder    \* who has xrayMutex

xrayVars == <<xpc, xrayCmd, v2rayCmd, process, holder>>

Cmds == XrayStarts \cup Connects

XrayTypeOK ==
  /\ xpc \in [Cmds \cup XrayStops -> {"idle", "prepare", "end"}]
  /\ xrayCmd \in XrayStarts \cup {NoCmd} /\ v2rayCmd \in Connects \cup {NoCmd}
  /\ process \in [Cmds -> {"none", "alive", "left", "ended"}]
  /\ holder \in XrayStarts \cup {NoCmd}

XrayInit ==
  /\ xpc = [x \in Cmds \cup XrayStops |-> "idle"]
  /\ xrayCmd = NoCmd /\ v2rayCmd = NoCmd
  /\ process = [x \in Cmds |-> "none"]
  /\ holder = NoCmd

\* The program ends and starts anew, its processes stay.
XrayRestart ==
  /\ xpc' = [x \in Cmds \cup XrayStops |-> IF xpc[x] = "idle" THEN "idle" ELSE "end"]
  /\ xrayCmd' = NoCmd /\ v2rayCmd' = NoCmd
  /\ process' = [x \in Cmds |-> IF process[x] = "alive" THEN "left" ELSE process[x]]
  /\ holder' = NoCmd

Moves(x, from, to) == xpc[x] = from /\ xpc' = [xpc EXCEPT ![x] = to]

\* A Cmd that was started and not waited for
Counts(cmd) == cmd # NoCmd /\ process[cmd] # "none"

Kill(cmd) == process' = [process EXCEPT ![cmd] = "ended"]

\* Fault: no mutex while the program is downloaded.
XrayStartUnlocked(x, vless) ==
  /\ IF Counts(xrayCmd) \/ ~vless
       THEN Moves(x, "idle", "end") ELSE Moves(x, "idle", "prepare")
  /\ UNCHANGED <<xrayCmd, v2rayCmd, process, holder>>

\* handleXrayStart, with or without a VLESS link at that moment
XrayStart(x, vless) ==
  /\ holder = NoCmd
  /\ IF Counts(xrayCmd) \/ ~vless
       THEN Moves(x, "idle", "end") /\ UNCHANGED holder
       ELSE Moves(x, "idle", "prepare") /\ holder' = x
  /\ UNCHANGED <<xrayCmd, v2rayCmd, process>>

\* The program is there or was downloaded, its configuration is written, and
\* the Cmd replaces the last one, also when it does not start.
XrayStarted(x) ==
  /\ Moves(x, "prepare", "end")
  /\ holder' = NoCmd
  /\ \/ UNCHANGED <<xrayCmd, process>>
     \/ /\ xrayCmd' = x
        /\ process' \in {process, [process EXCEPT ![x] = "alive"]}
  /\ UNCHANGED v2rayCmd

XrayStop(y) ==
  /\ holder = NoCmd
  /\ Moves(y, "idle", "end")
  /\ IF Counts(xrayCmd)
       THEN Kill(xrayCmd) /\ xrayCmd' = NoCmd
       ELSE UNCHANGED <<xrayCmd, process>>
  /\ UNCHANGED <<v2rayCmd, holder>>

\* Fault: the Cmd goes to the panel's global.
ConnectXray(v) ==
  /\ Moves(v, "idle", "end")
  /\ xrayCmd' = v /\ process' = [process EXCEPT ![v] = "alive"]
  /\ UNCHANGED <<v2rayCmd, holder>>

\* ConnectV2Ray: the last process is killed first; then the program may be
\* missing, the file not be written, or the new one not start.
ConnectV2Ray(v) ==
  /\ Moves(v, "idle", "end")
  /\ LET killed == IF Counts(v2rayCmd)
                     THEN [process EXCEPT ![v2rayCmd] = "ended"] ELSE process
     IN  \/ process' = killed /\ UNCHANGED v2rayCmd
         \/ /\ v2rayCmd' = v
            /\ process' \in {killed, [killed EXCEPT ![v] = "alive"]}
  /\ UNCHANGED <<xrayCmd, holder>>

\* A process ends by itself.
Ends(x) ==
  /\ process[x] \in {"alive", "left"} /\ Kill(x)
  /\ UNCHANGED <<xpc, xrayCmd, v2rayCmd, holder>>

XrayNext(vless) ==
  \/ \E x \in XrayStarts : XrayStart(x, vless) \/ XrayStarted(x)
  \/ \E y \in XrayStops : XrayStop(y)
  \/ \E v \in Connects : ConnectV2Ray(v)
  \/ \E x \in Cmds : Ends(x)

-----------------------------------------------------------------------------

\* No process is left behind while the program runs: every Xray it has started
\* that is alive is the one its owner's global names, where stop or the next
\* connection can kill it, however starts overlap a download and whichever step
\* of a start fails.  Those that outlived an earlier run are nobody's.
NoOrphan ==
  \A x \in Cmds : process[x] = "alive" =>
    x = IF x \in XrayStarts THEN xrayCmd ELSE v2rayCmd

=============================================================================
