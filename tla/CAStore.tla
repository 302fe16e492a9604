------------------------------- MODULE CAStore -------------------------------
(***************************************************************************)
(* The certificate authority: two PEM files, ca.key and ca.crt, which        *)
(* loadOrCreateCA reads or makes (mitm/mitm.go:47-94).  Every intercepted     *)
(* connection runs it (proxy/connect.go:90, 123), and so does an installation *)
(* (cert/cert.go:26-60), which then has the system trust what is in ca.crt.   *)
(* CertManager's mutex is of one manager and covers no file.                *)
(***************************************************************************)
CONSTANTS
  Conns, Installs,    \* intercepted connections, requests to /api/ca/install
  Missing, Truncated  \* a file that is not there, and one not yet written

Makers == Conns \cup Installs

ASSUME CAAssumption ==
  /\ Conns \cap Installs = {}
  /\ {Missing, Truncated} \cap Makers = {} /\ Missing # Truncated

VARIABLES
  caPc,              \* where each maker stands
  keyFile, crtFile,  \* who made the key, the certificate in each file
  caKey, caCert,     \* of each manager, who made what it holds
  trusted,           \* makers of the certificates the system trusts
  disturbed          \* history: see CASound

caVars == <<caPc, keyFile, crtFile, caKey, caCert, trusted, disturbed>>

Files == Makers \cup {Missing, Truncated}

CATypeOK ==
  /\ caPc \in [Makers -> {"idle", "open key", "write key", "open crt",
                          "write crt", "read key", "read crt", "ready", "end"}]
  /\ keyFile \in Files /\ crtFile \in Files
  /\ caKey \in [Makers -> Makers] /\ caCert \in [Makers -> Makers]
  /\ trusted \in SUBSET Makers
  /\ disturbed \in BOOLEAN

CAInit ==
  /\ caPc = [m \in Makers |-> "idle"]
  /\ keyFile = Missing /\ crtFile = Missing
  /\ caKey = [m \in Makers |-> m] /\ caCert = [m \in Makers |-> m]
  /\ trusted = {} /\ disturbed = FALSE

MakerGoes(m, from, to) == caPc[m] = from /\ caPc' = [caPc EXCEPT ![m] = to]

Writing == {m \in Makers : caPc[m] \in {"write key", "open crt", "write crt"}}
Creating == Writing \cup {m \in Makers : caPc[m] = "open key"}

\* os.Stat of the key decides which way the maker goes.
LookForKey(m) ==
  /\ MakerGoes(m, "idle", IF keyFile = Missing THEN "open key" ELSE "read key")
  /\ disturbed' = (disturbed \/ Creating # {})
  /\ UNCHANGED <<keyFile, crtFile, caKey, caCert, trusted>>

-----------------------------------------------------------------------------
(* It has none: a pair of its own, held and written.                         *)

OpenKey(m) ==
  /\ MakerGoes(m, "open key", "write key")
  /\ keyFile' = Truncated
  /\ UNCHANGED <<crtFile, caKey, caCert, trusted, disturbed>>

WriteKey(m) ==
  /\ MakerGoes(m, "write key", "open crt")
  /\ keyFile' = m
  /\ UNCHANGED <<crtFile, caKey, caCert, trusted, disturbed>>

\* Fault: the certificate is not written.
NoCrt(m) ==
  /\ MakerGoes(m, "open crt", "ready")
  /\ UNCHANGED <<keyFile, crtFile, caKey, caCert, trusted, disturbed>>

OpenCrt(m) ==
  /\ MakerGoes(m, "open crt", "write crt")
  /\ crtFile' = Truncated
  /\ UNCHANGED <<keyFile, caKey, caCert, trusted, disturbed>>

WriteCrt(m) ==
  /\ MakerGoes(m, "write crt", "ready")
  /\ crtFile' = m
  /\ UNCHANGED <<keyFile, caKey, caCert, trusted, disturbed>>

-----------------------------------------------------------------------------
(* It has one: pem.Decode gives nil for an empty file, whose Bytes panic.     *)

ReadKey(m) ==
  /\ keyFile \in Makers
  /\ MakerGoes(m, "read key", "read crt")
  /\ caKey' = [caKey EXCEPT ![m] = keyFile]
  /\ UNCHANGED <<keyFile, crtFile, caCert, trusted, disturbed>>

ReadCrt(m) ==
  /\ crtFile \in Makers
  /\ MakerGoes(m, "read crt", "ready")
  /\ caCert' = [caCert EXCEPT ![m] = crtFile]
  /\ UNCHANGED <<keyFile, crtFile, caKey, trusted, disturbed>>

Panics(m) ==
  \/ caPc[m] = "read key" /\ keyFile \notin Makers
  \/ caPc[m] = "read crt" /\ crtFile \notin Makers

\* net/http recovers the panic of a handler; that of a connection's goroutine
\* ends the program.
Recovered(i) ==
  /\ i \in Installs /\ Panics(i)
  /\ caPc' = [caPc EXCEPT ![i] = "end"]
  /\ UNCHANGED <<keyFile, crtFile, caKey, caCert, trusted, disturbed>>

CAPanic == \E c \in Conns : Panics(c)

-----------------------------------------------------------------------------
\* CreateCertificate refuses a key that is not the certificate's: the client
\* is then offered no certificate at all.
Issues(c) == caKey[c] = caCert[c]

Served(c) ==
  /\ c \in Conns /\ MakerGoes(c, "ready", "end")
  /\ UNCHANGED <<keyFile, crtFile, caKey, caCert, trusted, disturbed>>

\* certutil and security add to the system's store; on Linux one file is copied
\* over the one before.
AddedToStore == trusted \cup {crtFile}
FileReplaced == {crtFile}

\* Each can fail, as does all that reads ca.crt when it is missing or empty.
Installed(i) ==
  /\ i \in Installs /\ MakerGoes(i, "ready", "end")
  /\ \/ trusted' = trusted
     \/ crtFile \in Makers /\ trusted' \in {AddedToStore, FileReplaced}
  /\ UNCHANGED <<keyFile, crtFile, caKey, caCert, disturbed>>

CANext ==
  \E m \in Makers :
    \/ LookForKey(m) \/ OpenKey(m) \/ WriteKey(m) \/ OpenCrt(m) \/ WriteCrt(m)
    \/ ReadKey(m) \/ ReadCrt(m) \/ Recovered(m) \/ Served(m) \/ Installed(m)

\* The program ends and starts again: the files stay as they are.
CARestart ==
  /\ caPc' = [m \in Makers |-> IF caPc[m] = "idle" THEN "idle" ELSE "end"]
  /\ disturbed' = (disturbed \/ Writing # {})
  /\ UNCHANGED <<keyFile, crtFile, caKey, caCert, trusted>>

-----------------------------------------------------------------------------
(* Unless someone looked for the CA, or the program ended, while another was  *)
(* making it: no connection panics for want of a file, what it holds is a     *)
(* pair, so it can issue certificates, and they are signed by the CA the      *)
(* system trusts, if the user ever installed one (mitm/mitm.go:47-120).      *)
CASound ==
  ~disturbed => \A c \in Conns :
    /\ ~Panics(c)
    /\ caPc[c] = "ready" => Issues(c) /\ (trusted # {} => caCert[c] \in trusted)

=============================================================================
