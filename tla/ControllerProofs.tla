--------------------------- MODULE ControllerProofs ---------------------------
(***************************************************************************)
(* What Controller promises for any number of requests, connections, modes   *)
(* and pages.  Each component has an inductive invariant of its own, which    *)
(* its steps and a restart preserve; the steps of the others do not touch it. *)
(***************************************************************************)
EXTENDS Controller, TLAPS

(* The configuration.  A request that has met no other is the only one that   *)
(* is busy, and what it has read and written so far is in step with cfg.      *)

OnlyOne == alone => \A q, r \in Requests : Busy(q) /\ Busy(r) => q = r

InStep(r) ==
  /\ at[r] = "edit" => r \in Adds \cup Deletes /\ seen[r] = cfg.list
  /\ at[r] = "copy" => r \in Editors
  /\ at[r] \in {"truncate", "fill"} /\ r \in Editors => data[r] = cfg
  /\ at[r] \in {"take", "list"} => r \in Saves
  /\ at[r] = "fill" => file[data[r].mode] = Blank
  /\ at[r] \in {"take", "list"} => file[data[r].mode] = data[r]
  /\ at[r] = "list" => cfg = WithList(data[r], cfg.list)
  /\ at[r] \in {"copy", "truncate", "fill"} /\ r \in Adds => r \in cfg.list
  /\ Busy(r) /\ r \in Adds => behind
  /\ Busy(r) /\ r \in Saves => told \subseteq data[r].list

\* A file is of the mode it is filed under.
Filed == \A m \in Modes : file[m] \in Config => file[m].mode = m

ToldSafe ==
  /\ told # {} => alone
  /\ ~behind => told \subseteq panel.list

ConfigInv ==
  /\ ConfigTypeOK /\ DiskHasMemory /\ AddedStays
  /\ OnlyOne /\ (alone => \A r \in Requests : InStep(r))
  /\ Filed /\ ToldSafe

-----------------------------------------------------------------------------
(* The certificate authority.  While one makes it, nobody else has looked;     *)
(* before that nobody has anything, after it the two files are a pair.        *)

HasLooked(m) == caPc[m] \in {"read key", "read crt", "ready"}

Making(m) ==
  /\ \A n \in Creating : n = m
  /\ \A n \in Makers : ~HasLooked(n)
  /\ trusted = {}
  /\ caPc[m] = "open key" => keyFile = Missing
  /\ caPc[m] \in {"open crt", "write crt"} => keyFile = m
  /\ caKey[m] = m /\ caCert[m] = m

NotMade ==
  /\ keyFile = Missing /\ trusted = {}
  /\ \A n \in Makers : ~HasLooked(n)

Made ==
  /\ keyFile \in Makers /\ crtFile = keyFile /\ trusted \subseteq {keyFile}
  /\ \A n \in Makers :
       /\ caPc[n] \in {"read crt", "ready"} => caKey[n] = keyFile
       /\ caPc[n] = "ready" => caCert[n] = keyFile

CAInv ==
  /\ CATypeOK
  /\ \A m \in Makers : caPc[m] \in {"idle", "open key"} => caKey[m] = m /\ caCert[m] = m
  /\ ~disturbed => /\ \A m \in Creating : Making(m)
                   /\ Creating = {} => NotMade \/ Made

-----------------------------------------------------------------------------
(* The hub.  Whoever is in the loop holds clientsMu, and what it has to do is  *)
(* in the map; every client that is read from is in the map while it is open. *)

Locked ==
  \A s \in Senders :
    /\ hubPc[s] = "loop" <=> clientsMu = s
    /\ todo[s] \subseteq logClients /\ target[s] \in todo[s] \cup {NoOne}
    /\ hubPc[s] # "loop" => todo[s] = {}

InMap ==
  \A c \in Clients :
    hubPc[c] \in {"read", "hello", "greet", "reading"} /\ conn[c] = "open" =>
      c \in logClients

HasRead(p) ==
  \/ p \in Clients /\ hubPc[p] \in {"hello", "greet"}
  \/ p \in Flips /\ hubPc[p] \in {"lock", "loop"}

\* A flip that will yet write to the client
Reaches(f, c) ==
  \/ hubPc[f] \in {"ask", "lock"}
  \/ hubPc[f] = "loop" /\ c \in todo[f]

UpToDate ==
  /\ \A p \in Clients \cup Flips : HasRead(p) => status[p] = proxyRunning
  /\ \A c \in Clients : hubPc[c] = "reading" /\ conn[c] = "open" =>
       shown[c] = proxyRunning \/ \E f \in Flips : Reaches(f, c)

HubInv ==
  /\ HubTypeOK /\ Locked /\ InMap
  /\ ~crossed => UpToDate

-----------------------------------------------------------------------------
(* Operators of Configuration                                              *)

LEMMA Kinds ==
  /\ Adds \subseteq Editors /\ Deletes \subseteq Editors
  /\ Logins \subseteq Editors /\ Logouts \subseteq Editors
  /\ Editors \subseteq Requests /\ Saves \subseteq Requests
  /\ \A r \in Requests : r \in Editors \/ r \in Saves
  /\ \A r \in Editors : r \notin Saves
  /\ \A r \in Adds : r \notin Deletes \cup Logins \cup Logouts
BY ConfigAssumption DEF Editors, Requests

LEMMA Fields ==
  ASSUME NEW c \in Config
  PROVE  /\ c.mode \in Modes /\ c.list \in SUBSET Adds
         /\ c.token \in Logins \cup {NoToken} /\ c.settings \in Settings
         /\ c \notin {Blank, Torn}
BY ConfigAssumption DEF Config

LEMMA Builds ==
  ASSUME NEW m \in Modes, NEW l \in SUBSET Adds, NEW t \in Logins \cup {NoToken},
         NEW s \in Settings
  PROVE  /\ Conf(m, l, t, s) \in Config
         /\ Conf(m, l, t, s).mode = m /\ Conf(m, l, t, s).list = l
BY DEF Conf, Config

LEMMA SetsList ==
  ASSUME NEW c \in Config, NEW l \in SUBSET Adds
  PROVE  /\ WithList(c, l) \in Config
         /\ WithList(c, l).mode = c.mode /\ WithList(c, l).list = l
BY Fields, Builds DEF WithList

LEMMA SetsListBack ==
  ASSUME NEW c \in Config, NEW l \in SUBSET Adds
  PROVE  /\ WithList(WithList(c, l), c.list) = c /\ WithList(c, c.list) = c
         /\ WithList(c, WithList(c, l).list) = WithList(c, l)
BY DEF WithList, Conf, Config

LEMMA SetsToken ==
  ASSUME NEW c \in Config, NEW t \in Logins \cup {NoToken}
  PROVE  /\ WithToken(c, t) \in Config
         /\ WithToken(c, t).mode = c.mode /\ WithToken(c, t).list = c.list
BY Fields, Builds DEF WithToken

LEMMA Defaults ==
  ASSUME NEW m \in Modes
  PROVE  /\ DefaultConfig(m) \in Config /\ DefaultConfig(m).mode = m
         /\ DefaultConfig(m).list = {}
BY Builds, ConfigAssumption DEF DefaultConfig

LEMMA Loads ==
  ASSUME ConfigTypeOK, Filed, NEW m \in Modes
  PROVE  /\ LoadMode(m) \in Config /\ LoadMode(m).mode = m
         /\ file[m] \in Config => LoadMode(m) = file[m]
<1>1. CASE file[m] \in {Blank, Torn}
  BY <1>1, Defaults, Fields DEF LoadMode
<1>2. CASE file[m] \notin {Blank, Torn}
  BY <1>2 DEF LoadMode, ConfigTypeOK, Filed
<1>. QED
  BY <1>1, <1>2

-----------------------------------------------------------------------------
(* Types and files                                                         *)

LEMMA ConfigTypeStep ==
  ASSUME ConfigTypeOK, Filed, [ConfigNext]_configVars
  PROVE  ConfigTypeOK' /\ Filed'
<1>1. ASSUME NEW a \in Adds, AddEntry(a)
      PROVE  ConfigTypeOK' /\ Filed'
  <2>1. cfg' \in Config
    BY <1>1, Kinds, SetsList DEF AddEntry, Appended, ConfigTypeOK
  <2>. QED
    BY <1>1, <2>1, Kinds DEF AddEntry, Goes, ConfigTypeOK, Filed
<1>2. ASSUME NEW d \in Deletes, NEW e \in Adds, DeleteEntry(d, e)
      PROVE  ConfigTypeOK' /\ Filed'
  <2>1. cfg' \in Config
    BY <1>2, Kinds, SetsList DEF DeleteEntry, ConfigTypeOK
  <2>. QED
    BY <1>2, <2>1, Kinds DEF DeleteEntry, Goes, ConfigTypeOK, Filed
<1>3. ASSUME NEW r \in Logins \cup Logouts, SetToken(r)
      PROVE  ConfigTypeOK' /\ Filed'
  <2>1. cfg' \in Config
    BY <1>3, SetsToken DEF SetToken, ConfigTypeOK
  <2>. QED
    BY <1>3, <2>1, Kinds DEF SetToken, Begins, Kept, Quiet, Goes, ConfigTypeOK, Filed
<1>4. ASSUME NEW r \in Editors, ReadList(r)
      PROVE  ConfigTypeOK' /\ Filed'
  BY <1>4, Kinds, Fields DEF ReadList, Begins, Kept, Quiet, Goes, ConfigTypeOK, Filed
<1>5. ASSUME NEW r \in Editors, CopyConfig(r)
      PROVE  ConfigTypeOK' /\ Filed'
  <2>1. data' \in [Requests -> Config]
    <3>1. PICK list \in {cfg.list} \cup {data[s].list : s \in {s \in Saves : at[s] = "list"}} :
            data' = [data EXCEPT ![r] = WithList(cfg, list)]
      BY <1>5 DEF CopyConfig
    <3>2. list \in SUBSET Adds
      BY <3>1, Kinds, Fields DEF ConfigTypeOK
    <3>. QED
      BY <3>1, <3>2, Kinds, SetsList DEF ConfigTypeOK
  <2>. QED
    BY <1>5, <2>1, Kinds DEF CopyConfig, Goes, ConfigTypeOK, Filed
<1>6. ASSUME NEW r \in Requests, Truncate(r)
      PROVE  ConfigTypeOK' /\ Filed'
  BY <1>6, Fields DEF Truncate, Goes, ConfigTypeOK, Filed
<1>7. ASSUME NEW r \in Requests, Fill(r)
      PROVE  ConfigTypeOK' /\ Filed'
  <2>1. PICK text \in Filled(r) : file' = [file EXCEPT ![data[r].mode] = text]
    BY <1>7 DEF Fill
  <2>2. text \in {data[r], Torn} /\ data[r] \in Config /\ data[r].mode \in Modes
    BY <2>1, Fields DEF Filled, ConfigTypeOK
  <2>3. file' \in [Modes -> Config \cup {Blank, Torn}] /\ Filed'
    BY <2>1, <2>2, Fields DEF ConfigTypeOK, Filed
  <2>. QED
    BY <1>7, <2>3 DEF Fill, Goes, ConfigTypeOK
<1>8. ASSUME NEW m \in Modes, PanelLoad(m)
      PROVE  ConfigTypeOK' /\ Filed'
  BY <1>8, Loads DEF PanelLoad, Quiet, ConfigTypeOK, Filed
<1>9. ASSUME NEW s \in Saves, TakeOver(s) \/ TakeList(s)
      PROVE  ConfigTypeOK' /\ Filed'
  <2>1. cfg' \in Config
    BY <1>9, Kinds, SetsList, Fields DEF TakeOver, TakeList, ConfigTypeOK
  <2>. QED
    BY <1>9, <2>1, Kinds DEF TakeOver, TakeList, Goes, ConfigTypeOK, Filed
<1>10. ASSUME NEW s \in Saves, NEW t \in Settings, NEW m \in Modes, PanelSave(s, t, m)
       PROVE  ConfigTypeOK' /\ Filed'
  <2>1. panel' \in Config
    BY <1>10, Builds, Fields DEF PanelSave, ConfigTypeOK
  <2>. QED
    BY <1>10, <2>1, Kinds DEF PanelSave, Begins, Kept, Quiet, Goes, ConfigTypeOK, Filed
<1>11. ASSUME UNCHANGED configVars
       PROVE  ConfigTypeOK' /\ Filed'
  BY <1>11 DEF configVars, ConfigTypeOK, Filed
<1>. QED
  BY <1>1, <1>2, <1>3, <1>4, <1>5, <1>6, <1>7, <1>8, <1>9, <1>10, <1>11
  DEF ConfigNext

-----------------------------------------------------------------------------
(* The rest of the configuration's invariant                               *)

ConfigRest ==
  /\ DiskHasMemory /\ AddedStays
  /\ OnlyOne /\ (alone => \A r \in Requests : InStep(r))
  /\ ToldSafe

\* Once two requests overlap, nothing is claimed.
LEMMA Overlap ==
  ASSUME ~alone', told' = {}
  PROVE  ConfigRest'
BY DEF ConfigRest, DiskHasMemory, AddedStays, OnlyOne, ToldSafe

\* A busy request that has met no other is the only one there is something to
\* say about.
LEMMA Others ==
  ASSUME NEW r \in Requests, InStep(r)', \A q \in Requests \ {r} : ~Busy(q)'
  PROVE  OnlyOne' /\ (\A q \in Requests : InStep(q)')
BY DEF OnlyOne, InStep, Busy

LEMMA Moved ==
  ASSUME ConfigTypeOK, OnlyOne, alone, NEW r \in Requests, Busy(r), NEW to,
         at' = [at EXCEPT ![r] = to]
  PROVE  \A q \in Requests \ {r} : ~Busy(q)'
BY DEF ConfigTypeOK, OnlyOne, Busy

LEMMA Began ==
  ASSUME ConfigTypeOK, Quiet, NEW r \in Requests, NEW to, at' = [at EXCEPT ![r] = to]
  PROVE  \A q \in Requests \ {r} : ~Busy(q)'
BY DEF ConfigTypeOK, Quiet, Busy

\* A request that has begun is busy, and so it is not quiet.
LEMMA NotQuiet ==
  ASSUME NEW r \in Requests, Busy(r)'
  PROVE  DiskHasMemory'
BY DEF DiskHasMemory, Quiet

LEMMA ReadListStep ==
  ASSUME ConfigTypeOK, ConfigRest, NEW r \in Editors, ReadList(r)
  PROVE  ConfigRest'
<1>. r \in Requests
  BY Kinds
<1>0. Busy(r)' /\ at'[r] = "edit" /\ seen'[r] = cfg.list
  BY DEF ReadList, Goes, ConfigTypeOK, Busy
<1>1. CASE Quiet
  <2>1. InStep(r)'
    BY <1>0, Kinds DEF ReadList, InStep, Busy
  <2>2. AddedStays' /\ ToldSafe'
    BY <1>1 DEF ReadList, ConfigRest, Begins, Kept, AddedStays, ToldSafe
  <2>. QED
    BY <1>0, <1>1, <2>1, <2>2, Began, Others, NotQuiet DEF ReadList, Goes, ConfigRest
<1>2. CASE ~Quiet
  BY <1>2, Overlap DEF ReadList, Begins, Kept
<1>. QED
  BY <1>1, <1>2

LEMMA SetTokenStep ==
  ASSUME ConfigTypeOK, ConfigRest, NEW r \in Logins \cup Logouts, SetToken(r)
  PROVE  ConfigRest'
<1>. r \in Requests /\ r \in Editors /\ r \notin Adds
  BY Kinds
<1>0. Busy(r)' /\ at'[r] = "copy" /\ cfg'.list = cfg.list
  BY SetsToken DEF SetToken, Goes, ConfigTypeOK, Busy
<1>1. CASE Quiet
  <2>1. InStep(r)'
    BY <1>0, Kinds DEF SetToken, InStep
  <2>2. AddedStays' /\ ToldSafe'
    BY <1>0, <1>1 DEF SetToken, ConfigRest, Begins, Kept, AddedStays, ToldSafe
  <2>. QED
    BY <1>0, <1>1, <2>1, <2>2, Began, Others, NotQuiet DEF SetToken, Goes, ConfigRest
<1>2. CASE ~Quiet
  BY <1>2, Overlap DEF SetToken, Begins, Kept
<1>. QED
  BY <1>1, <1>2

LEMMA PanelSaveStep ==
  ASSUME ConfigTypeOK, ConfigRest, NEW r \in Saves, NEW t \in Settings,
         NEW m \in Modes, PanelSave(r, t, m)
  PROVE  ConfigRest'
<1>. r \in Requests /\ r \notin Editors /\ r \notin Adds
  BY Kinds
<1>0. /\ Busy(r)' /\ at'[r] = "truncate" /\ data'[r] = panel'
      /\ panel'.list = panel.list
  BY Fields, Builds DEF PanelSave, Goes, ConfigTypeOK, Busy
<1>1. CASE Quiet
  <2>1. told' \subseteq told /\ told' \subseteq panel'.list
    BY <1>0, <1>1 DEF PanelSave, ConfigRest, Kept, ToldSafe
  <2>2. InStep(r)'
    BY <1>0, <2>1 DEF InStep
  <2>3. AddedStays' /\ ToldSafe'
    BY <1>1, <2>1 DEF PanelSave, ConfigRest, Begins, AddedStays, ToldSafe
  <2>. QED
    BY <1>0, <1>1, <2>2, <2>3, Began, Others, NotQuiet DEF PanelSave, Goes, ConfigRest
<1>2. CASE ~Quiet
  BY <1>2, Overlap DEF PanelSave, Begins, Kept
<1>. QED
  BY <1>1, <1>2

\* A step that is not a request's first, when that has met another
LEMMA StillOverlapped ==
  ASSUME ConfigRest, ~alone, alone' = alone, told' \subseteq told
  PROVE  ConfigRest'
BY Overlap DEF ConfigRest, ToldSafe

LEMMA AddEntryStep ==
  ASSUME ConfigTypeOK, ConfigRest, NEW r \in Adds, AddEntry(r)
  PROVE  ConfigRest'
<1>. r \in Requests /\ r \in Editors /\ r \notin Saves
  BY Kinds
<1>0. /\ Busy(r) /\ Busy(r)' /\ at[r] = "edit" /\ at'[r] = "copy"
      /\ at' = [at EXCEPT ![r] = "copy"]
  BY DEF AddEntry, Goes, ConfigTypeOK, Busy
<1>1. CASE alone
  <2>1. Appended(r) = {r}
    BY <1>0, <1>1, Kinds DEF Appended, ConfigRest, OnlyOne
  <2>2. cfg' = WithList(cfg, cfg.list \cup {r})
    BY <1>0, <1>1, <2>1 DEF AddEntry, ConfigRest, InStep
  <2>3. cfg'.list = cfg.list \cup {r}
    BY <2>2, SetsList, Fields DEF ConfigTypeOK
  <2>4. InStep(r)'
    BY <1>0, <1>1, <2>3 DEF AddEntry, ConfigRest, InStep
  <2>5. AddedStays' /\ ToldSafe'
    BY <2>3 DEF AddEntry, ConfigRest, AddedStays, ToldSafe
  <2>. QED
    BY <1>0, <1>1, <2>4, <2>5, Moved, Others, NotQuiet DEF ConfigRest
<1>2. CASE ~alone
  BY <1>2, StillOverlapped DEF AddEntry
<1>. QED
  BY <1>1, <1>2

LEMMA DeleteEntryStep ==
  ASSUME ConfigTypeOK, ConfigRest, NEW r \in Deletes, NEW e \in Adds, DeleteEntry(r, e)
  PROVE  ConfigRest'
<1>. r \in Requests /\ r \in Editors /\ r \notin Saves /\ r \notin Adds
  BY Kinds
<1>0. /\ Busy(r) /\ Busy(r)' /\ at[r] = "edit" /\ at'[r] = "copy"
      /\ at' = [at EXCEPT ![r] = "copy"]
  BY DEF DeleteEntry, Goes, ConfigTypeOK, Busy
<1>1. CASE alone
  <2>2. cfg' = WithList(cfg, cfg.list \ {e})
    BY <1>0, <1>1 DEF DeleteEntry, ConfigRest, InStep
  <2>3. cfg'.list = cfg.list \ {e} /\ told' = told \ {e}
    BY <2>2, SetsList, Fields DEF ConfigTypeOK, DeleteEntry
  <2>4. InStep(r)'
    BY <1>0, <2>3 DEF InStep
  <2>5. AddedStays' /\ ToldSafe'
    BY <2>3 DEF DeleteEntry, ConfigRest, AddedStays, ToldSafe
  <2>. QED
    BY <1>0, <1>1, <2>4, <2>5, Moved, Others, NotQuiet DEF ConfigRest
<1>2. CASE ~alone
  BY <1>2, StillOverlapped DEF DeleteEntry
<1>. QED
  BY <1>1, <1>2

LEMMA CopyConfigStep ==
  ASSUME ConfigTypeOK, ConfigRest, NEW r \in Editors, CopyConfig(r)
  PROVE  ConfigRest'
<1>. r \in Requests /\ r \notin Saves
  BY Kinds
<1>0. /\ Busy(r) /\ Busy(r)' /\ at[r] = "copy" /\ at'[r] = "truncate"
      /\ at' = [at EXCEPT ![r] = "truncate"]
  BY DEF CopyConfig, Goes, ConfigTypeOK, Busy
<1>1. CASE alone
  <2>1. \A s \in Saves : at[s] # "list"
    BY <1>0, <1>1, Kinds DEF ConfigRest, OnlyOne, Busy
  <2>2. PICK list \in {cfg.list} \cup {data[s].list : s \in {s \in Saves : at[s] = "list"}} :
          data' = [data EXCEPT ![r] = WithList(cfg, list)]
    BY DEF CopyConfig
  <2>3. list = cfg.list
    BY <2>1, <2>2
  <2>4. data'[r] = cfg
    BY <2>2, <2>3, SetsListBack, Fields DEF ConfigTypeOK
  <2>5. InStep(r)'
    BY <1>0, <1>1, <2>4 DEF InStep, ConfigRest, CopyConfig
  <2>6. AddedStays' /\ ToldSafe'
    BY DEF CopyConfig, ConfigRest, AddedStays, ToldSafe
  <2>. QED
    BY <1>0, <1>1, <2>5, <2>6, Moved, Others, NotQuiet DEF ConfigRest
<1>2. CASE ~alone
  BY <1>2, StillOverlapped DEF CopyConfig
<1>. QED
  BY <1>1, <1>2

LEMMA TruncateStep ==
  ASSUME ConfigTypeOK, ConfigRest, NEW r \in Requests, Truncate(r)
  PROVE  ConfigRest'
<1>0. /\ Busy(r) /\ Busy(r)' /\ at[r] = "truncate" /\ at'[r] = "fill"
      /\ at' = [at EXCEPT ![r] = "fill"]
  BY DEF Truncate, Goes, ConfigTypeOK, Busy
<1>1. CASE alone
  <2>1. file'[data[r].mode] = Blank
    BY Fields DEF Truncate, ConfigTypeOK
  <2>2. InStep(r)'
    BY <1>0, <1>1, <2>1 DEF InStep, ConfigRest, Truncate
  <2>3. AddedStays' /\ ToldSafe'
    BY DEF Truncate, ConfigRest, AddedStays, ToldSafe
  <2>. QED
    BY <1>0, <1>1, <2>2, <2>3, Moved, Others, NotQuiet DEF ConfigRest
<1>2. CASE ~alone
  BY <1>2, StillOverlapped DEF Truncate
<1>. QED
  BY <1>1, <1>2

LEMMA FillStep ==
  ASSUME ConfigTypeOK, ConfigRest, Filed, NEW r \in Requests, Fill(r)
  PROVE  ConfigRest'
<1>0. Busy(r) /\ at[r] = "fill" /\ data[r] \in Config /\ data[r].mode \in Modes
  BY Fields DEF Fill, Goes, ConfigTypeOK, Busy
<1>1. CASE alone
  <2>1. file[data[r].mode] = Blank
    BY <1>0, <1>1 DEF ConfigRest, InStep
  <2>2. file' = [file EXCEPT ![data[r].mode] = data[r]] /\ file'[data[r].mode] = data[r]
    BY <1>0, <2>1 DEF Fill, Filled, ConfigTypeOK
  <2>3. CASE r \in Saves
    <3>1. r \notin Adds /\ r \notin Editors /\ told' = told
      BY <2>3, Kinds DEF Fill
    <3>2. /\ at'[r] = "take" /\ Busy(r)'
          /\ at' = [at EXCEPT ![r] = "take"]
      BY <1>0, <2>3 DEF Fill, Goes, ConfigTypeOK, Busy
    <3>3. InStep(r)'
      BY <1>0, <1>1, <2>2, <2>3, <3>1, <3>2 DEF InStep, ConfigRest, Fill
    <3>4. AddedStays' /\ ToldSafe'
      BY <3>1 DEF Fill, ConfigRest, AddedStays, ToldSafe
    <3>. QED
      BY <1>0, <1>1, <3>2, <3>3, <3>4, Moved, Others, NotQuiet DEF ConfigRest
  <2>4. CASE r \in Editors
    <3>1. r \notin Saves /\ data[r] = cfg
      BY <1>0, <1>1, <2>4, Kinds DEF ConfigRest, InStep
    <3>2. ~Busy(r)' /\ at' = [at EXCEPT ![r] = "end"]
      BY <1>0, <3>1 DEF Fill, Goes, ConfigTypeOK, Busy
    <3>3. InStep(r)'
      BY <3>2 DEF InStep, Busy
    <3>4. told' \subseteq cfg.list
      BY <1>0, <1>1 DEF Fill, ConfigRest, InStep, AddedStays
    <3>5. AddedStays' /\ ToldSafe'
      <4>1. behind = FALSE => r \notin Adds
        BY <1>0, <1>1 DEF ConfigRest, InStep, ConfigTypeOK
      <4>. QED
        BY <1>1, <3>4, <4>1 DEF Fill, ConfigRest, AddedStays, ToldSafe, ConfigTypeOK
    <3>6. DiskHasMemory'
      BY <1>0, <2>2, <3>1, Fields DEF Fill, DiskHasMemory, LoadMode
    <3>. QED
      BY <1>0, <1>1, <3>2, <3>3, <3>5, <3>6, Moved, Others DEF ConfigRest
  <2>. QED
    BY <2>3, <2>4, Kinds
<1>2. CASE ~alone
  BY <1>2, StillOverlapped DEF Fill
<1>. QED
  BY <1>1, <1>2

LEMMA TakeOverStep ==
  ASSUME ConfigTypeOK, ConfigRest, NEW r \in Saves, TakeOver(r)
  PROVE  ConfigRest'
<1>. r \in Requests /\ r \notin Editors /\ r \notin Adds
  BY Kinds
<1>0. /\ Busy(r) /\ Busy(r)' /\ at[r] = "take" /\ at'[r] = "list"
      /\ at' = [at EXCEPT ![r] = "list"]
      /\ data[r] \in Config /\ cfg.list \in SUBSET Adds
  BY Fields DEF TakeOver, Goes, ConfigTypeOK, Busy
<1>1. CASE alone
  <2>1. cfg'.list = cfg.list
    BY <1>0, SetsList DEF TakeOver
  <2>2. InStep(r)'
    BY <1>0, <1>1, <2>1 DEF InStep, ConfigRest, TakeOver
  <2>3. AddedStays' /\ ToldSafe'
    BY <2>1 DEF TakeOver, ConfigRest, AddedStays, ToldSafe
  <2>. QED
    BY <1>0, <1>1, <2>2, <2>3, Moved, Others, NotQuiet DEF ConfigRest
<1>2. CASE ~alone
  BY <1>2, StillOverlapped DEF TakeOver
<1>. QED
  BY <1>1, <1>2

LEMMA TakeListStep ==
  ASSUME ConfigTypeOK, ConfigRest, Filed, NEW r \in Saves, TakeList(r)
  PROVE  ConfigRest'
<1>. r \in Requests
  BY Kinds
<1>0. /\ Busy(r) /\ ~Busy(r)' /\ at[r] = "list"
      /\ at' = [at EXCEPT ![r] = "end"]
      /\ data[r] \in Config /\ cfg.list \in SUBSET Adds
  BY Fields DEF TakeList, Goes, ConfigTypeOK, Busy
<1>1. CASE alone
  <2>1. cfg = WithList(data[r], cfg.list) /\ file[data[r].mode] = data[r]
    BY <1>0, <1>1 DEF ConfigRest, InStep
  <2>2. cfg' = data[r]
    BY <1>0, <2>1, SetsListBack DEF TakeList
  <2>3. DiskHasMemory'
    BY <1>0, <2>1, <2>2, Fields DEF TakeList, DiskHasMemory, LoadMode
  <2>4. told \subseteq data[r].list
    BY <1>0, <1>1 DEF ConfigRest, InStep
  <2>5. AddedStays' /\ ToldSafe'
    BY <2>2, <2>4 DEF TakeList, ConfigRest, AddedStays, ToldSafe
  <2>6. InStep(r)'
    BY <1>0 DEF InStep, Busy
  <2>. QED
    BY <1>0, <1>1, <2>3, <2>5, <2>6, Moved, Others DEF ConfigRest
<1>2. CASE ~alone
  BY <1>2, StillOverlapped DEF TakeList
<1>. QED
  BY <1>1, <1>2

LEMMA PanelLoadStep ==
  ASSUME ConfigTypeOK, ConfigRest, NEW m \in Modes, PanelLoad(m)
  PROVE  ConfigRest'
<1>1. DiskHasMemory' /\ AddedStays' /\ OnlyOne'
  BY DEF PanelLoad, ConfigRest, DiskHasMemory, Quiet, Busy, LoadMode, AddedStays, OnlyOne
<1>2. alone' => \A r \in Requests : InStep(r)'
  <2>1. ASSUME NEW r \in Requests, Busy(r)
        PROVE  behind'
    BY <2>1 DEF PanelLoad, Quiet
  <2>. QED
    BY <2>1 DEF PanelLoad, ConfigRest, InStep, Busy
<1>3. ToldSafe'
  <2>1. CASE behind' \/ told = {}
    BY <2>1 DEF PanelLoad, ConfigRest, ToldSafe
  <2>2. CASE ~behind' /\ told # {}
    <3>1. Quiet /\ alone /\ m = cfg.mode
      BY <2>2 DEF PanelLoad, ConfigRest, ToldSafe
    <3>2. panel' = cfg
      BY <3>1 DEF PanelLoad, ConfigRest, DiskHasMemory
    <3>. QED
      BY <3>1, <3>2 DEF PanelLoad, ConfigRest, ToldSafe, AddedStays
  <2>. QED
    BY <2>1, <2>2
<1>. QED
  BY <1>1, <1>2, <1>3 DEF ConfigRest

LEMMA ConfigRestartStep ==
  ASSUME ConfigInv, ConfigRestart
  PROVE  ConfigInv'
<1>0. \A m \in Modes : LoadMode(m) \in Config /\ LoadMode(m).mode = m
  BY Loads DEF ConfigInv
<1>1. cfg' \in Config /\ cfg'.mode = Main /\ panel' \in Config
  BY <1>0, ConfigAssumption, Defaults DEF ConfigRestart
<1>2. \A r \in Requests : ~Busy(r)'
  BY DEF ConfigRestart, Busy
<1>3. ConfigTypeOK' /\ Filed'
  BY <1>1 DEF ConfigRestart, ConfigInv, ConfigTypeOK, Filed
<1>4. DiskHasMemory'
  <2>1. LoadMode(Main)' = LoadMode(Main)
    BY DEF ConfigRestart, LoadMode
  <2>. QED
    BY <1>1, <2>1 DEF ConfigRestart, DiskHasMemory
<1>5. told' \subseteq cfg'.list
  <2>1. CASE Quiet /\ cfg.mode = Main /\ told # {}
    <3>1. LoadMode(Main) = cfg
      BY <2>1 DEF ConfigInv, ToldSafe, DiskHasMemory
    <3>. QED
      BY <2>1, <3>1 DEF ConfigRestart, ConfigInv, AddedStays
  <2>2. CASE ~(Quiet /\ cfg.mode = Main /\ told # {})
    BY <2>2 DEF ConfigRestart
  <2>. QED
    BY <2>1, <2>2
<1>6. OnlyOne' /\ (\A r \in Requests : InStep(r)')
  BY <1>2 DEF OnlyOne, InStep, Busy
<1>. QED
  BY <1>3, <1>4, <1>5, <1>6 DEF ConfigRestart, ConfigInv, AddedStays, ToldSafe

LEMMA ConfigStep ==
  ASSUME ConfigInv, [ConfigNext]_configVars
  PROVE  ConfigInv'
<1>0. ConfigTypeOK /\ Filed /\ ConfigRest
  BY DEF ConfigInv, ConfigRest
<1>1. ConfigTypeOK' /\ Filed'
  BY <1>0, ConfigTypeStep
<1>2. ConfigRest'
  <2>1. CASE UNCHANGED configVars
    BY <1>0, <2>1 DEF configVars, ConfigRest, DiskHasMemory, Quiet, Busy, LoadMode,
       AddedStays, OnlyOne, InStep, ToldSafe
  <2>. QED
    BY <1>0, <2>1, AddEntryStep, DeleteEntryStep, SetTokenStep, ReadListStep,
       CopyConfigStep, TruncateStep, FillStep, PanelLoadStep, PanelSaveStep,
       TakeOverStep, TakeListStep DEF ConfigNext
<1>. QED
  BY <1>1, <1>2 DEF ConfigInv, ConfigRest

LEMMA ConfigStart == ConfigInit => ConfigInv
<1> SUFFICES ASSUME ConfigInit PROVE ConfigInv
  OBVIOUS
<1>1. DefaultConfig(Main) \in Config /\ DefaultConfig(Main).mode = Main
  BY ConfigAssumption, Defaults
<1>2. ConfigTypeOK
  BY <1>1 DEF ConfigInit, ConfigTypeOK
<1>3. DiskHasMemory /\ AddedStays
  <2>1. cfg = DefaultConfig(Main) /\ file[Main] = Blank /\ cfg.mode = Main /\ told = {}
    BY <1>1, ConfigAssumption DEF ConfigInit
  <2>2. LoadMode(Main) = DefaultConfig(Main)
    BY <2>1 DEF LoadMode
  <2>. QED
    BY <2>1, <2>2 DEF DiskHasMemory, AddedStays
<1>4. OnlyOne /\ (\A r \in Requests : InStep(r))
  BY DEF ConfigInit, OnlyOne, InStep, Busy
<1>5. Filed /\ ToldSafe
  BY ConfigAssumption DEF ConfigInit, Filed, ToldSafe
<1>. QED
  BY <1>2, <1>3, <1>4, <1>5 DEF ConfigInv

-----------------------------------------------------------------------------
(* The certificate authority                                               *)

LEMMA CAStart == CAInit => CAInv
BY CAAssumption
   DEF CAInit, CAInv, CATypeOK, Files, Creating, Writing, Making, NotMade, HasLooked

LEMMA CATypeStep ==
  ASSUME CATypeOK, CANext
  PROVE  CATypeOK'
<1>. USE DEF CATypeOK, MakerGoes
<1>1. ASSUME NEW m \in Makers, LookForKey(m)
      PROVE  CATypeOK'
  BY <1>1 DEF LookForKey
<1>2. ASSUME NEW m \in Makers, OpenKey(m)
      PROVE  CATypeOK'
  BY <1>2 DEF OpenKey, Files
<1>3. ASSUME NEW m \in Makers, WriteKey(m)
      PROVE  CATypeOK'
  BY <1>3 DEF WriteKey, Files
<1>4. ASSUME NEW m \in Makers, OpenCrt(m)
      PROVE  CATypeOK'
  BY <1>4 DEF OpenCrt, Files
<1>5. ASSUME NEW m \in Makers, WriteCrt(m)
      PROVE  CATypeOK'
  BY <1>5 DEF WriteCrt, Files
<1>6. ASSUME NEW m \in Makers, ReadKey(m)
      PROVE  CATypeOK'
  BY <1>6 DEF ReadKey
<1>7. ASSUME NEW m \in Makers, ReadCrt(m)
      PROVE  CATypeOK'
  BY <1>7 DEF ReadCrt
<1>8. ASSUME NEW m \in Makers, Recovered(m)
      PROVE  CATypeOK'
  BY <1>8 DEF Recovered
<1>9. ASSUME NEW m \in Makers, Served(m)
      PROVE  CATypeOK'
  BY <1>9 DEF Served
<1>10. ASSUME NEW m \in Makers, Installed(m)
      PROVE  CATypeOK'
  BY <1>10 DEF Installed, AddedToStore, FileReplaced
<1>. QED
  BY <1>1, <1>2, <1>3, <1>4, <1>5, <1>6, <1>7, <1>8, <1>9, <1>10 DEF CANext

\* A maker keeps its own pair until it reads one.
OwnPair ==
  \A m \in Makers : caPc[m] \in {"idle", "open key"} => caKey[m] = m /\ caCert[m] = m

LEMMA OwnPairStep ==
  ASSUME CATypeOK, OwnPair, CANext
  PROVE  OwnPair'
<1>. USE DEF CATypeOK, OwnPair, MakerGoes
<1>1. ASSUME NEW m \in Makers, LookForKey(m)
      PROVE  OwnPair'
  BY <1>1 DEF LookForKey
<1>2. ASSUME NEW m \in Makers, OpenKey(m)
      PROVE  OwnPair'
  BY <1>2 DEF OpenKey
<1>3. ASSUME NEW m \in Makers, WriteKey(m)
      PROVE  OwnPair'
  BY <1>3 DEF WriteKey
<1>4. ASSUME NEW m \in Makers, OpenCrt(m)
      PROVE  OwnPair'
  BY <1>4 DEF OpenCrt
<1>5. ASSUME NEW m \in Makers, WriteCrt(m)
      PROVE  OwnPair'
  BY <1>5 DEF WriteCrt
<1>6. ASSUME NEW m \in Makers, ReadKey(m)
      PROVE  OwnPair'
  BY <1>6 DEF ReadKey
<1>7. ASSUME NEW m \in Makers, ReadCrt(m)
      PROVE  OwnPair'
  BY <1>7 DEF ReadCrt
<1>8. ASSUME NEW m \in Makers, Recovered(m)
      PROVE  OwnPair'
  BY <1>8 DEF Recovered
<1>9. ASSUME NEW m \in Makers, Served(m)
      PROVE  OwnPair'
  BY <1>9 DEF Served
<1>10. ASSUME NEW m \in Makers, Installed(m)
      PROVE  OwnPair'
  BY <1>10 DEF Installed
<1>. QED
  BY <1>1, <1>2, <1>3, <1>4, <1>5, <1>6, <1>7, <1>8, <1>9, <1>10 DEF CANext

Pair ==
  ~disturbed => /\ \A m \in Creating : Making(m)
                /\ Creating = {} => NotMade \/ Made

LEMMA Splits == CAInv <=> CATypeOK /\ OwnPair /\ Pair
BY DEF CAInv, OwnPair, Pair

\* Looking
LEMMA LookForKeyStep ==
  ASSUME CATypeOK, OwnPair, Pair, NEW m \in Makers, LookForKey(m)
  PROVE  Pair'
<1> SUFFICES ASSUME ~disturbed' PROVE Pair'
  BY DEF Pair
<1>1. ~disturbed /\ Creating = {} /\ (NotMade \/ Made)
  BY DEF LookForKey, Pair
<1>2. CASE keyFile = Missing
  <2>1. NotMade
    BY <1>1, <1>2, CAAssumption DEF Made
  <2>2. Creating' = {m} /\ caPc'[m] = "open key"
    BY <1>1, <1>2 DEF LookForKey, MakerGoes, CATypeOK, Creating, Writing
  <2>3. Making(m)'
    BY <1>2, <2>1, <2>2 DEF LookForKey, MakerGoes, CATypeOK, OwnPair, Making, NotMade,
       HasLooked
  <2>. QED
    BY <2>2, <2>3 DEF Pair
<1>3. CASE keyFile # Missing
  <2>1. Made
    BY <1>1, <1>3 DEF NotMade
  <2>2. Creating' = {} /\ caPc'[m] = "read key"
    BY <1>1, <1>3 DEF LookForKey, MakerGoes, CATypeOK, Creating, Writing
  <2>3. Made'
    BY <2>1, <2>2 DEF LookForKey, MakerGoes, CATypeOK, Made
  <2>. QED
    BY <2>2, <2>3 DEF Pair
<1>. QED
  BY <1>2, <1>3

\* Making: the one who does so is the only one who has looked.
LEMMA MakingStep ==
  ASSUME CATypeOK, OwnPair, Pair, NEW m \in Makers,
         OpenKey(m) \/ WriteKey(m) \/ OpenCrt(m)
  PROVE  Pair'
<1> SUFFICES ASSUME ~disturbed' PROVE Pair'
  BY DEF Pair
<1>1. ~disturbed /\ m \in Creating
  <2>1. disturbed' = disturbed
    BY DEF OpenKey, WriteKey, OpenCrt
  <2>2. m \in Creating
    BY DEF OpenKey, WriteKey, OpenCrt, MakerGoes, Creating, Writing
  <2>. QED
    BY <2>1, <2>2
<1>2. Making(m) /\ Creating = {m}
  BY <1>1 DEF Pair, Making
<1>3. Creating' = {m}
  BY <1>2 DEF OpenKey, WriteKey, OpenCrt, MakerGoes, CATypeOK, Creating, Writing
<1>4. Making(m)'
  BY <1>2, <1>3 DEF OpenKey, WriteKey, OpenCrt, MakerGoes, CATypeOK, Making, HasLooked
<1>. QED
  BY <1>3, <1>4 DEF Pair

LEMMA WriteCrtStep ==
  ASSUME CATypeOK, OwnPair, Pair, NEW m \in Makers, WriteCrt(m)
  PROVE  Pair'
<1> SUFFICES ASSUME ~disturbed' PROVE Pair'
  BY DEF Pair
<1>1. ~disturbed /\ m \in Creating /\ caPc[m] = "write crt"
  BY DEF WriteCrt, MakerGoes, Creating, Writing
<1>2. Making(m) /\ Creating = {m} /\ keyFile = m
  BY <1>1 DEF Pair, Making
<1>3. Creating' = {}
  BY <1>2 DEF WriteCrt, MakerGoes, CATypeOK, Creating, Writing
<1>4. Made'
  BY <1>2 DEF WriteCrt, MakerGoes, CATypeOK, Making, Made, HasLooked
<1>. QED
  BY <1>3, <1>4 DEF Pair

\* Everyone else: while there is one who makes the CA, they have not looked.
LEMMA ReadingStep ==
  ASSUME CATypeOK, OwnPair, Pair, NEW m \in Makers,
         ReadKey(m) \/ ReadCrt(m) \/ Recovered(m) \/ Served(m) \/ Installed(m)
  PROVE  Pair'
<1> SUFFICES ASSUME ~disturbed' PROVE Pair'
  BY DEF Pair
<1>1. ~disturbed /\ HasLooked(m)
  <2>1. disturbed' = disturbed
    BY DEF ReadKey, ReadCrt, Recovered, Served, Installed
  <2>2. HasLooked(m)
    BY DEF ReadKey, ReadCrt, Recovered, Panics, Served, Installed, MakerGoes, HasLooked
  <2>. QED
    BY <2>1, <2>2
<1>2. Creating = {}
  BY <1>1 DEF Pair, Making
<1>3. Made
  BY <1>1, <1>2 DEF Pair, NotMade
<1>4. Creating' = {}
  BY <1>2 DEF ReadKey, ReadCrt, Recovered, Served, Installed, MakerGoes, CATypeOK,
     Creating, Writing
<1>5. Made'
  <2>1. CASE Installed(m)
    BY <1>3, <2>1 DEF Installed, AddedToStore, FileReplaced, MakerGoes, CATypeOK, Made
  <2>2. CASE ReadKey(m) \/ ReadCrt(m)
    BY <1>3, <2>2 DEF ReadKey, ReadCrt, MakerGoes, CATypeOK, Made
  <2>3. CASE Recovered(m) \/ Served(m)
    BY <1>3, <2>3 DEF Recovered, Served, MakerGoes, CATypeOK, Made
  <2>. QED
    BY <2>1, <2>2, <2>3
<1>. QED
  BY <1>4, <1>5 DEF Pair

LEMMA CAStep ==
  ASSUME CAInv, [CANext]_caVars
  PROVE  CAInv'
<1>1. CASE CANext
  BY <1>1, Splits, CATypeStep, OwnPairStep, LookForKeyStep, MakingStep, WriteCrtStep,
     ReadingStep DEF CANext, CAInv, OwnPair, Pair
<1>2. CASE UNCHANGED caVars
  <2>1. CATypeOK' /\ OwnPair'
    BY <1>2 DEF caVars, CAInv, CATypeOK, OwnPair
  <2>2. /\ Creating' = Creating /\ (NotMade <=> NotMade') /\ (Made <=> Made')
        /\ \A m \in Makers : Making(m) <=> Making(m)'
    BY <1>2 DEF caVars, Creating, Writing, Making, NotMade, Made, HasLooked
  <2>. QED
    BY <1>2, <2>1, <2>2 DEF caVars, CAInv, OwnPair, Creating, Writing
<1>. QED
  BY <1>1, <1>2

\* One that ends before it has opened the key leaves nothing behind.
LEMMA CARestartStep ==
  ASSUME CAInv, CARestart
  PROVE  CAInv'
<1>1. CATypeOK' /\ OwnPair'
  BY DEF CAInv, CARestart, CATypeOK, OwnPair
<1>2. ASSUME ~disturbed'
      PROVE  Creating' = {} /\ (NotMade' \/ Made')
  <2>1. ~disturbed /\ Writing = {} /\ Creating' = {}
    BY <1>2 DEF CARestart, Creating, Writing
  <2>2. CASE Creating = {}
    BY <2>1, <2>2 DEF CAInv, CARestart, NotMade, Made, HasLooked
  <2>3. CASE Creating # {}
    <3>1. PICK m \in Makers : caPc[m] = "open key" /\ Making(m)
      BY <2>1, <2>3 DEF CAInv, Creating
    <3>2. keyFile' = Missing /\ trusted' = {}
      BY <3>1 DEF CARestart, Making
    <3>3. \A n \in Makers : ~HasLooked(n)'
      BY DEF CARestart, HasLooked
    <3>. QED
      BY <2>1, <3>2, <3>3 DEF NotMade
  <2>. QED
    BY <2>1, <2>2, <2>3
<1>. QED
  BY <1>1, <1>2 DEF CAInv, OwnPair

LEMMA SoundIfPair == CAInv => CASound
<1> SUFFICES ASSUME CAInv, ~disturbed, NEW c \in Conns
             PROVE  /\ ~Panics(c)
                    /\ caPc[c] = "ready" => /\ Issues(c)
                                            /\ trusted # {} => caCert[c] \in trusted
  BY DEF CASound
<1>1. CASE ~HasLooked(c)
  BY <1>1 DEF HasLooked, Panics
<1>2. CASE HasLooked(c)
  <2>1. c \in Makers /\ Made
    BY <1>2 DEF CAInv, Making, NotMade, Makers
  <2>. QED
    BY <2>1 DEF Made, Panics, Issues
<1>. QED
  BY <1>1, <1>2

-----------------------------------------------------------------------------
(* The hub                                                                 *)

LEMMA People ==
  /\ Loggers \subseteq Senders /\ Flips \subseteq Senders
  /\ \A s \in Senders : s \notin Clients /\ s # NoOne
  /\ NoOne \notin Clients /\ NoOne \notin Loggers
  /\ \A s \in Flips : s \notin Loggers
BY HubAssumption DEF Senders

LEMMA HubTypeStep ==
  ASSUME HubTypeOK, Locked, HubNext
  PROVE  HubTypeOK'
<1>. USE People, HubAssumption DEF HubTypeOK, HubGoes
<1>1. ASSUME NEW c \in Clients, Upgrade(c)
      PROVE  HubTypeOK'
  BY <1>1 DEF Upgrade
<1>2. ASSUME NEW c \in Clients, Register(c)
      PROVE  HubTypeOK'
  BY <1>2 DEF Register
<1>3. ASSUME NEW c \in Clients, ReadStatus(c)
      PROVE  HubTypeOK'
  BY <1>3 DEF ReadStatus
<1>4. ASSUME NEW c \in Clients, Greet(c)
      PROVE  HubTypeOK'
  BY <1>4 DEF Greet
<1>5. ASSUME NEW c \in Clients, Greeted(c)
      PROVE  HubTypeOK'
  BY <1>5 DEF Greeted
<1>6. ASSUME NEW c \in Clients, Spoilt(c)
      PROVE  HubTypeOK'
  BY <1>6 DEF Spoilt, WrittenTo
<1>7. ASSUME NEW c \in Clients, ReadFails(c)
      PROVE  HubTypeOK'
  BY <1>7 DEF ReadFails
<1>8. ASSUME NEW c \in Clients, Leave(c)
      PROVE  HubTypeOK'
  BY <1>8 DEF Leave
<1>9. ASSUME NEW c \in Clients, PageReads(c)
      PROVE  HubTypeOK'
  BY <1>9 DEF PageReads
<1>10. ASSUME NEW c \in Clients, PageLeaves(c)
      PROVE  HubTypeOK'
  BY <1>10 DEF PageLeaves
<1>11. ASSUME NEW l \in Loggers, Log(l)
      PROVE  HubTypeOK'
  BY <1>11 DEF Log
<1>12. ASSUME NEW l \in Loggers, LockLog(l)
      PROVE  HubTypeOK'
  BY <1>12 DEF LockLog
<1>13. ASSUME NEW f \in Flips, AskStatus(f)
      PROVE  HubTypeOK'
  BY <1>13 DEF AskStatus
<1>14. ASSUME NEW f \in Flips, NEW b \in BOOLEAN, Flip(f, b)
      PROVE  HubTypeOK'
  BY <1>14 DEF Flip, Pending
<1>15. ASSUME NEW s \in Senders, Lock(s)
      PROVE  HubTypeOK'
  BY <1>15 DEF Lock
<1>16. ASSUME NEW s \in Senders, Choose(s)
      PROVE  HubTypeOK'
  BY <1>16 DEF Choose, Locked
<1>17. ASSUME NEW s \in Senders, Unlock(s)
      PROVE  HubTypeOK'
  BY <1>17 DEF Unlock, Releases
<1>18. ASSUME NEW s \in Senders, NEW c \in Clients, Write(s, c)
      PROVE  HubTypeOK'
  BY <1>18 DEF Write, Done
<1>19. ASSUME NEW s \in Senders, NEW c \in Clients, WriteFails(s, c)
      PROVE  HubTypeOK'
  BY <1>19 DEF WriteFails, Done, Greeting
<1>20. ASSUME NEW s \in Senders, NEW c \in Clients, Breaks(s, c)
      PROVE  HubTypeOK'
  BY <1>20 DEF Breaks, Releases, Greeting
<1>21. ASSUME NEW c \in Clients, Handler(c)
      PROVE  HubTypeOK'
  BY <1>2, <1>3, <1>4, <1>5, <1>6, <1>7, <1>8, <1>21 DEF Handler
<1>22. ASSUME NEW s \in Senders, Broadcast(s)
      PROVE  HubTypeOK'
  BY <1>15, <1>16, <1>17, <1>18, <1>19, <1>20, <1>22 DEF Broadcast
<1>. QED
  BY <1>1, <1>9, <1>10, <1>11, <1>12, <1>13, <1>14, <1>21, <1>22 DEF HubNext

LEMMA LockedStep ==
  ASSUME HubTypeOK, Locked, HubNext
  PROVE  Locked'
<1>. USE People DEF HubTypeOK, HubGoes, Locked
<1>1. ASSUME NEW c \in Clients, Upgrade(c)
      PROVE  Locked'
  BY <1>1 DEF Upgrade
<1>2. ASSUME NEW c \in Clients, Register(c)
      PROVE  Locked'
  BY <1>2 DEF Register
<1>3. ASSUME NEW c \in Clients, ReadStatus(c)
      PROVE  Locked'
  BY <1>3 DEF ReadStatus
<1>4. ASSUME NEW c \in Clients, Greet(c)
      PROVE  Locked'
  BY <1>4 DEF Greet
<1>5. ASSUME NEW c \in Clients, Greeted(c)
      PROVE  Locked'
  BY <1>5 DEF Greeted
<1>6. ASSUME NEW c \in Clients, Spoilt(c)
      PROVE  Locked'
  BY <1>6 DEF Spoilt, WrittenTo
<1>7. ASSUME NEW c \in Clients, ReadFails(c)
      PROVE  Locked'
  BY <1>7 DEF ReadFails
<1>8. ASSUME NEW c \in Clients, Leave(c)
      PROVE  Locked'
  BY <1>8 DEF Leave
<1>9. ASSUME NEW c \in Clients, PageReads(c)
      PROVE  Locked'
  BY <1>9 DEF PageReads
<1>10. ASSUME NEW c \in Clients, PageLeaves(c)
      PROVE  Locked'
  BY <1>10 DEF PageLeaves
<1>11. ASSUME NEW l \in Loggers, Log(l)
      PROVE  Locked'
  BY <1>11 DEF Log
<1>12. ASSUME NEW l \in Loggers, LockLog(l)
      PROVE  Locked'
  BY <1>12 DEF LockLog
<1>13. ASSUME NEW f \in Flips, AskStatus(f)
      PROVE  Locked'
  BY <1>13 DEF AskStatus
<1>14. ASSUME NEW f \in Flips, NEW b \in BOOLEAN, Flip(f, b)
      PROVE  Locked'
  BY <1>14 DEF Flip
<1>15. ASSUME NEW s \in Senders, Lock(s)
      PROVE  Locked'
  BY <1>15 DEF Lock
<1>16. ASSUME NEW s \in Senders, Choose(s)
      PROVE  Locked'
  BY <1>16 DEF Choose, Locked
<1>17. ASSUME NEW s \in Senders, Unlock(s)
      PROVE  Locked'
  BY <1>17 DEF Unlock, Releases
<1>18. ASSUME NEW s \in Senders, NEW c \in Clients, Write(s, c)
      PROVE  Locked'
  BY <1>18 DEF Write, Done
<1>19. ASSUME NEW s \in Senders, NEW c \in Clients, WriteFails(s, c)
      PROVE  Locked'
  BY <1>19 DEF WriteFails, Done, Greeting
<1>20. ASSUME NEW s \in Senders, NEW c \in Clients, Breaks(s, c)
      PROVE  Locked'
  BY <1>20 DEF Breaks, Releases, Greeting
<1>21. ASSUME NEW c \in Clients, Handler(c)
      PROVE  Locked'
  BY <1>2, <1>3, <1>4, <1>5, <1>6, <1>7, <1>8, <1>21 DEF Handler
<1>22. ASSUME NEW s \in Senders, Broadcast(s)
      PROVE  Locked'
  BY <1>15, <1>16, <1>17, <1>18, <1>19, <1>20, <1>22 DEF Broadcast
<1>. QED
  BY <1>1, <1>9, <1>10, <1>11, <1>12, <1>13, <1>14, <1>21, <1>22 DEF HubNext

LEMMA InMapStep ==
  ASSUME HubTypeOK, Locked, InMap, HubNext
  PROVE  InMap'
<1>. USE People DEF HubTypeOK, HubGoes, Locked, InMap
<1>1. ASSUME NEW c \in Clients, Upgrade(c)
      PROVE  InMap'
  BY <1>1 DEF Upgrade
<1>2. ASSUME NEW c \in Clients, Register(c)
      PROVE  InMap'
  BY <1>2 DEF Register
<1>3. ASSUME NEW c \in Clients, ReadStatus(c)
      PROVE  InMap'
  BY <1>3 DEF ReadStatus
<1>4. ASSUME NEW c \in Clients, Greet(c)
      PROVE  InMap'
  BY <1>4 DEF Greet
<1>5. ASSUME NEW c \in Clients, Greeted(c)
      PROVE  InMap'
  BY <1>5 DEF Greeted
<1>6. ASSUME NEW c \in Clients, Spoilt(c)
      PROVE  InMap'
  BY <1>6 DEF Spoilt, WrittenTo
<1>7. ASSUME NEW c \in Clients, ReadFails(c)
      PROVE  InMap'
  BY <1>7 DEF ReadFails
<1>8. ASSUME NEW c \in Clients, Leave(c)
      PROVE  InMap'
  BY <1>8 DEF Leave
<1>9. ASSUME NEW c \in Clients, PageReads(c)
      PROVE  InMap'
  BY <1>9 DEF PageReads
<1>10. ASSUME NEW c \in Clients, PageLeaves(c)
      PROVE  InMap'
  BY <1>10 DEF PageLeaves
<1>11. ASSUME NEW l \in Loggers, Log(l)
      PROVE  InMap'
  BY <1>11 DEF Log
<1>12. ASSUME NEW l \in Loggers, LockLog(l)
      PROVE  InMap'
  BY <1>12 DEF LockLog
<1>13. ASSUME NEW f \in Flips, AskStatus(f)
      PROVE  InMap'
  BY <1>13 DEF AskStatus
<1>14. ASSUME NEW f \in Flips, NEW b \in BOOLEAN, Flip(f, b)
      PROVE  InMap'
  BY <1>14 DEF Flip
<1>15. ASSUME NEW s \in Senders, Lock(s)
      PROVE  InMap'
  BY <1>15 DEF Lock
<1>16. ASSUME NEW s \in Senders, Choose(s)
      PROVE  InMap'
  BY <1>16 DEF Choose, Locked
<1>17. ASSUME NEW s \in Senders, Unlock(s)
      PROVE  InMap'
  BY <1>17 DEF Unlock, Releases
<1>18. ASSUME NEW s \in Senders, NEW c \in Clients, Write(s, c)
      PROVE  InMap'
  BY <1>18 DEF Write, Done
<1>19. ASSUME NEW s \in Senders, NEW c \in Clients, WriteFails(s, c)
      PROVE  InMap'
  BY <1>19 DEF WriteFails, Done, Greeting
<1>20. ASSUME NEW s \in Senders, NEW c \in Clients, Breaks(s, c)
      PROVE  InMap'
  BY <1>20 DEF Breaks, Releases, Greeting
<1>21. ASSUME NEW c \in Clients, Handler(c)
      PROVE  InMap'
  BY <1>2, <1>3, <1>4, <1>5, <1>6, <1>7, <1>8, <1>21 DEF Handler
<1>22. ASSUME NEW s \in Senders, Broadcast(s)
      PROVE  InMap'
  BY <1>15, <1>16, <1>17, <1>18, <1>19, <1>20, <1>22 DEF Broadcast
<1>. QED
  BY <1>1, <1>9, <1>10, <1>11, <1>12, <1>13, <1>14, <1>21, <1>22 DEF HubNext

\* What each step does to a client that is read from, and to a status that was
\* read
LEMMA UpToDateStep ==
  ASSUME HubTypeOK, Locked, InMap, ~crossed => UpToDate, HubNext, ~crossed'
  PROVE  UpToDate'
<1>. USE People DEF HubTypeOK, HubGoes, Locked, InMap, UpToDate, HasRead, Reaches
<1>1. ASSUME NEW c \in Clients, Upgrade(c)
      PROVE  UpToDate'
  BY <1>1 DEF Upgrade
<1>2. ASSUME NEW c \in Clients, Register(c)
      PROVE  UpToDate'
  BY <1>2 DEF Register
<1>3. ASSUME NEW c \in Clients, ReadStatus(c)
      PROVE  UpToDate'
  BY <1>3 DEF ReadStatus
<1>4. ASSUME NEW c \in Clients, Greet(c)
      PROVE  UpToDate'
  BY <1>4 DEF Greet
<1>5. ASSUME NEW c \in Clients, Greeted(c)
      PROVE  UpToDate'
  BY <1>5 DEF Greeted
<1>6. ASSUME NEW c \in Clients, Spoilt(c)
      PROVE  UpToDate'
  BY <1>6 DEF Spoilt, WrittenTo
<1>7. ASSUME NEW c \in Clients, ReadFails(c)
      PROVE  UpToDate'
  BY <1>7 DEF ReadFails
<1>8. ASSUME NEW c \in Clients, Leave(c)
      PROVE  UpToDate'
  BY <1>8 DEF Leave
<1>9. ASSUME NEW c \in Clients, PageReads(c)
      PROVE  UpToDate'
  BY <1>9 DEF PageReads
<1>10. ASSUME NEW c \in Clients, PageLeaves(c)
      PROVE  UpToDate'
  BY <1>10 DEF PageLeaves
<1>11. ASSUME NEW l \in Loggers, Log(l)
      PROVE  UpToDate'
  BY <1>11 DEF Log
<1>12. ASSUME NEW l \in Loggers, LockLog(l)
      PROVE  UpToDate'
  BY <1>12 DEF LockLog
<1>13. ASSUME NEW f \in Flips, AskStatus(f)
      PROVE  UpToDate'
  BY <1>13 DEF AskStatus
<1>14. ASSUME NEW f \in Flips, NEW b \in BOOLEAN, Flip(f, b)
      PROVE  UpToDate'
  BY <1>14 DEF Flip, Pending
<1>15. ASSUME NEW s \in Senders, Lock(s)
      PROVE  UpToDate'
  BY <1>15 DEF Lock
<1>16. ASSUME NEW s \in Senders, Choose(s)
      PROVE  UpToDate'
  BY <1>16 DEF Choose
<1>17. ASSUME NEW s \in Senders, Unlock(s)
      PROVE  UpToDate'
  BY <1>17 DEF Unlock, Releases
<1>18. ASSUME NEW s \in Senders, NEW c \in Clients, Write(s, c)
      PROVE  UpToDate'
  BY <1>18 DEF Write, Done
<1>19. ASSUME NEW s \in Senders, NEW c \in Clients, WriteFails(s, c)
      PROVE  UpToDate'
  BY <1>19 DEF WriteFails, Done, Greeting
<1>20. ASSUME NEW s \in Senders, NEW c \in Clients, Breaks(s, c)
      PROVE  UpToDate'
  BY <1>20 DEF Breaks, Releases, Greeting
<1>21. ASSUME NEW c \in Clients, Handler(c)
      PROVE  UpToDate'
  BY <1>2, <1>3, <1>4, <1>5, <1>6, <1>7, <1>8, <1>21 DEF Handler
<1>22. ASSUME NEW s \in Senders, Broadcast(s)
      PROVE  UpToDate'
  BY <1>15, <1>16, <1>17, <1>18, <1>19, <1>20, <1>22 DEF Broadcast
<1>. QED
  BY <1>1, <1>9, <1>10, <1>11, <1>12, <1>13, <1>14, <1>21, <1>22 DEF HubNext

LEMMA HubStart == HubInit => HubInv
<1> SUFFICES ASSUME HubInit PROVE HubInv
  OBVIOUS
<1>1. HubTypeOK
  <2>1. 0 \in 0..Buffer
    BY HubAssumption
  <2>. QED
    BY <2>1, HubAssumption DEF HubInit, HubTypeOK
<1>2. Locked /\ InMap
  BY People DEF HubInit, Locked, InMap
<1>3. UpToDate
  BY People DEF HubInit, UpToDate, HasRead
<1>. QED
  BY <1>1, <1>2, <1>3 DEF HubInv

LEMMA HubStep ==
  ASSUME HubInv, [HubNext]_hubVars
  PROVE  HubInv'
<1>1. CASE HubNext
  BY <1>1, HubTypeStep, LockedStep, InMapStep, UpToDateStep DEF HubInv
<1>2. CASE UNCHANGED hubVars
  BY <1>2 DEF hubVars, HubInv, HubTypeOK, Locked, InMap, UpToDate, HasRead, Reaches
<1>. QED
  BY <1>1, <1>2

LEMMA HubRestartStep ==
  ASSUME HubInv, HubRestart
  PROVE  HubInv'
<1>1. HubTypeOK'
  <2>1. 0 \in 0..Buffer
    BY HubAssumption
  <2>. QED
    BY <2>1 DEF HubInv, HubTypeOK, HubRestart
<1>2. Locked' /\ InMap'
  BY People DEF HubInv, HubTypeOK, HubRestart, Locked, InMap
<1>3. UpToDate'
  BY People DEF HubInv, HubTypeOK, HubRestart, UpToDate, HasRead
<1>. QED
  BY <1>1, <1>2, <1>3 DEF HubInv

\* With no status on its way there is no flip left to reach a client.
LEMMA ShownIfUpToDate == HubInv => StatusShown
BY DEF HubInv, UpToDate, HasRead, Reaches, Pending, StatusShown

-----------------------------------------------------------------------------
(* The whole                                                               *)

IInv == ConfigInv /\ CAInv /\ HubInv

LEMMA IInvStep == IInv /\ [Next]_vars => IInv'
<1> SUFFICES ASSUME IInv, [Next]_vars PROVE IInv'
  OBVIOUS
<1>1. CASE Restart
  BY <1>1, ConfigRestartStep, CARestartStep, HubRestartStep DEF IInv, Restart
<1>2. CASE /\ [ConfigNext]_configVars /\ [CANext]_caVars /\ [HubNext]_hubVars
  BY <1>2, ConfigStep, CAStep, HubStep DEF IInv
<1>. QED
  BY <1>1, <1>2 DEF Next, Dies, vars

LEMMA Inductive == Spec => []IInv
<1>1. Init => IInv
  BY ConfigStart, CAStart, HubStart DEF Init, IInv
<1>. QED
  BY <1>1, IInvStep, PTL DEF Spec

(* Every variable has its type, for any number of everything.               *)
THEOREM TypeCorrect == Spec => []TypeOK
<1>1. IInv => TypeOK
  BY DEF IInv, ConfigInv, CAInv, HubInv, TypeOK
<1>. QED
  BY <1>1, Inductive, PTL

(* A request that meets no other leaves disk and memory the same, whatever    *)
(* the requests and ends of the program before it left (config.go:53-83).    *)
THEOREM MemoryOnDisk == Spec => []DiskHasMemory
<1>1. IInv => DiskHasMemory
  BY DEF IInv, ConfigInv
<1>. QED
  BY <1>1, Inductive, PTL

(* A stored V2Ray entry is lost in the ways AddedStays names only             *)
(* (gui/v2ray.go:60-93, gui/server.go:663-675).                             *)
THEOREM EntriesKept == Spec => []AddedStays
<1>1. IInv => AddedStays
  BY DEF IInv, ConfigInv
<1>. QED
  BY <1>1, Inductive, PTL

(* A CA that was made undisturbed serves every later connection               *)
(* (mitm/mitm.go:47-120).                                                  *)
THEOREM AuthoritySound == Spec => []CASound
<1>1. IInv => CASound
  BY SoundIfPair DEF IInv
<1>. QED
  BY <1>1, Inductive, PTL

(* Every connected client shows whether the proxy runs, once no status is on   *)
(* its way, unless one was overtaken or spoilt (gui/server.go:836-873).       *)
THEOREM RunningShown == Spec => []StatusShown
<1>1. IInv => StatusShown
  BY ShownIfUpToDate DEF IInv
<1>. QED
  BY <1>1, Inductive, PTL

(* Who holds a mutex is on its way to release it: nobody ends with one, two    *)
(* never broadcast at once, log's mutex is taken before clientsMu and never    *)
(* after it, and who waits for log's holds neither, so that no two can wait    *)
(* for each other.                                                         *)
MutexesHeld ==
  /\ clientsMu # NoOne => hubPc[clientsMu] = "loop"
  /\ logMu # NoOne => hubPc[logMu] \in {"lock", "loop"}
  /\ \A s \in Senders : hubPc[s] = "loop" => clientsMu = s

LEMMA MutexStep ==
  ASSUME HubInv, MutexesHeld, HubNext
  PROVE  MutexesHeld'
<1>1. Locked'
  BY HubTypeStep, LockedStep DEF HubInv
<1>2. HubTypeOK'
  BY HubTypeStep DEF HubInv
<1>3. clientsMu' # NoOne => hubPc'[clientsMu'] = "loop"
  BY <1>1, <1>2 DEF Locked, HubTypeOK
<1>4. \A s \in Senders : hubPc'[s] = "loop" => clientsMu' = s
  BY <1>1 DEF Locked
<1>5. logMu' # NoOne => hubPc'[logMu'] \in {"lock", "loop"}
  <2>. USE People DEF HubInv, HubTypeOK, HubGoes, MutexesHeld
  <2>1. ASSUME NEW c \in Clients,
               Upgrade(c) \/ Handler(c) \/ PageReads(c) \/ PageLeaves(c)
        PROVE  logMu' # NoOne => hubPc'[logMu'] \in {"lock", "loop"}
    BY <2>1 DEF Upgrade, Handler, Register, ReadStatus, Greet, Greeted, Spoilt,
       ReadFails, Leave, PageReads, PageLeaves
  <2>2. ASSUME NEW l \in Loggers, Log(l) \/ LockLog(l)
        PROVE  logMu' # NoOne => hubPc'[logMu'] \in {"lock", "loop"}
    BY <2>2 DEF Log, LockLog
  <2>3. ASSUME NEW f \in Flips, AskStatus(f) \/ \E running \in BOOLEAN : Flip(f, running)
        PROVE  logMu' # NoOne => hubPc'[logMu'] \in {"lock", "loop"}
    BY <2>3 DEF AskStatus, Flip
  <2>4. ASSUME NEW s \in Senders, Lock(s) \/ Choose(s)
        PROVE  logMu' # NoOne => hubPc'[logMu'] \in {"lock", "loop"}
    BY <2>4 DEF Lock, Choose
  <2>5. ASSUME NEW s \in Senders, Unlock(s) \/ \E c \in Clients : Breaks(s, c)
        PROVE  logMu' # NoOne => hubPc'[logMu'] \in {"lock", "loop"}
    BY <2>5 DEF Unlock, Breaks, Releases
  <2>6. ASSUME NEW s \in Senders, NEW c \in Clients, Write(s, c) \/ WriteFails(s, c)
        PROVE  logMu' # NoOne => hubPc'[logMu'] \in {"lock", "loop"}
    BY <2>6 DEF Write, WriteFails, Done
  <2>. QED
    BY <2>1, <2>2, <2>3, <2>4, <2>5, <2>6 DEF HubNext, Broadcast
<1>. QED
  BY <1>3, <1>4, <1>5 DEF MutexesHeld

(* No mutex of the hub is kept by who has come to its end, whatever clients    *)
(* do, also when a broadcast breaks on a client it meets being greeted        *)
(* (gui/server.go:855-873): the safety part of LoggersReturn.               *)
THEOREM MutexesReleased == Spec => []MutexesHeld
<1>1. Init => MutexesHeld
  BY DEF Init, HubInit, MutexesHeld
<1>2. IInv /\ MutexesHeld /\ [Next]_vars => MutexesHeld'
  <2> SUFFICES ASSUME IInv, MutexesHeld, [Next]_vars PROVE MutexesHeld'
    OBVIOUS
  <2>1. CASE Restart
    BY <2>1 DEF Restart, HubRestart, MutexesHeld
  <2>2. CASE HubNext
    BY <2>2, MutexStep DEF IInv
  <2>3. CASE UNCHANGED hubVars
    BY <2>3 DEF hubVars, MutexesHeld
  <2>. QED
    BY <2>1, <2>2, <2>3 DEF Next, Dies, vars
<1>. QED
  BY <1>1, <1>2, Inductive, PTL DEF Spec

=============================================================================
