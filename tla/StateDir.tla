------------------------------ MODULE StateDir ------------------------------
(***************************************************************************)
(* The state directory, which all processes of the agent share, and how a  *)
(* process starts on it (loadAgent): it finds or makes the key of the      *)
(* host, reads config.json, and finds or makes the token that local        *)
(* clients of the control API present.  Nothing is locked, several first   *)
(* starts may run at once, and os.WriteFile empties a file before it fills *)
(* it.                                                                     *)
(*                                                                         *)
(* This module has the files, their writers and what loadAgent does about  *)
(* the key and the token; Enrollment adds config.json and what the         *)
(* processes do afterwards.                                                *)
(***************************************************************************)
EXTENDS FiniteSets

CONSTANTS
    Procs,      \* processes of the agent; each is started once
    Before,     \* stands for the process that set the workstation up
    Killable,   \* processes that may be killed, or whose writes may fail
    Nothing,    \* no such file, no such key
    Empty,      \* a file that has been truncated and not filled
    Torn        \* a file whose content is none

Providers == {"tpm", "software"}
Makers == Procs \cup {Before}
Keys == [store : Providers \cup {"pem"}, maker : Makers]
LegacyKey == [store |-> "pem", maker |-> Before]

CommandNames == {"daemon", "pair-once", "status", "rename", "revoke",
                 "unpair-all", "migrate-tpm", "authorize", "portable", "none"}
FileNames == {"identity.json", "host-identity.pem", "config.json",
              "control.token", "portable/config.json"}
\* Keys and tokens are written with one length each, so that one written over
\* another leaves no rest of it.
FixedLength == {"host-identity.pem", "control.token"}

\* The goroutines that write files: the main one, or the daemon's sweep, and the
\* handler that enrolls a phone.
Writers == Procs \X {"main", "handler"}
Main(p) == <<p, "main">>
Handler(p) == <<p, "handler">>
NoWrite == [file |-> "none", text |-> Nothing, cut |-> FALSE]

ASSUME StateDirAssumption ==
    /\ Before \notin Procs
    /\ Killable \subseteq Procs
    /\ Nothing \notin {Empty, Torn}
    /\ {Nothing, Empty, Torn} \cap (Keys \cup Makers \cup Providers) = {}

VARIABLES
    windows,   \* the platform
    usable,    \* the key stores of Windows that work
    command,   \* what each process is started for
    disk,      \* the files
    writing,   \* os.WriteFile in progress
    pc,        \* where a process stands
    trying,    \* the key store it tries
    cng,       \* who made the key in each key store of Windows
    key,       \* Agent.identity
    token,     \* Agent.controlToken
    late       \* history: started when key and token were settled

platformVars == <<windows, usable, command>>
loadVars == <<pc, trying, cng, key, token, late>>
stateDirVars == <<platformVars, disk, writing, loadVars>>

-----------------------------------------------------------------------------
(* Files. *)

Writes(w, f, text) ==
    writing' = [writing EXCEPT ![w] = [file |-> f, text |-> text, cut |-> FALSE]]

Busy(w) == writing[w] # NoWrite
BeingWritten(f) == {w \in Writers : writing[w].file = f}

\* os.WriteFile opens with O_TRUNC, ...
Truncate(w) ==
    /\ Busy(w) /\ ~writing[w].cut
    /\ disk' = [disk EXCEPT ![writing[w].file] = Empty]
    /\ writing' = [writing EXCEPT ![w] =
           [file |-> @.file, text |-> @.text, cut |-> TRUE]]
    /\ UNCHANGED <<platformVars, loadVars>>

\* ... and writes from the start of the file.  A longer text that another process
\* has put there meanwhile keeps its tail.
Fill(w) ==
    LET f == writing[w].file
        text == writing[w].text
    IN  /\ writing[w].cut
        /\ \/ disk' = [disk EXCEPT ![f] = text]
           \/ /\ f \notin FixedLength /\ disk[f] \notin {Empty, text}
              /\ disk' = [disk EXCEPT ![f] = Torn]
        /\ writing' = [writing EXCEPT ![w] = NoWrite]
        /\ UNCHANGED <<platformVars, loadVars>>

\* The file cannot be opened, or not be written to its end.  That is fatal for a
\* key or a token, and for commands; a daemon goes on without the file.
WriteFails(w) ==
    LET p == w[1]
        f == writing[w].file
    IN  /\ p \in Killable /\ Busy(w)
        /\ \/ UNCHANGED disk
           \/ writing[w].cut /\ disk' = [disk EXCEPT ![f] = Torn]
        /\ writing' = [writing EXCEPT ![w] = NoWrite]
        /\ pc' = IF f \in FixedLength THEN [pc EXCEPT ![p] = "ended"] ELSE pc
        /\ UNCHANGED <<platformVars, trying, cng, key, token, late>>

Killed(p) ==
    /\ p \in Killable
    /\ pc[p] \notin {"idle", "ended"}
    /\ pc' = [pc EXCEPT ![p] = "ended"]
    /\ writing' = [w \in Writers |-> IF w[1] = p THEN NoWrite ELSE writing[w]]
    /\ UNCHANGED <<platformVars, disk, trying, cng, key, token, late>>

-----------------------------------------------------------------------------
(* What a process that starts now would find. *)

HostKey ==
    IF windows /\ disk["identity.json"] \in Providers
    THEN [store |-> disk["identity.json"], maker |-> cng[disk["identity.json"]]]
    ELSE disk["host-identity.pem"]

\* Processes that are past looking for a key, and may still store one.
Choosing(p) ==
    \/ pc[p] \in {"open", "create", "fallback"}
    \/ windows /\ pc[p] = "legacy"
    \/ writing[Main(p)].file \in {"identity.json", "host-identity.pem"}
KeySettled == HostKey \in Keys /\ \A p \in Procs : ~Choosing(p)
TokenSettled ==
    disk["control.token"] \in Makers /\ BeingWritten("control.token") = {}

-----------------------------------------------------------------------------
(* loadAgent: the key. *)

Start(p) ==
    /\ pc[p] = "idle" /\ command[p] \notin {"portable", "none"}
    /\ pc' = [pc EXCEPT ![p] = IF windows THEN "meta" ELSE "legacy"]
    /\ late' = [late EXCEPT ![p] = KeySettled /\ TokenSettled]
    /\ UNCHANGED <<platformVars, disk, writing, trying, cng, key, token>>

HasKey(p, k) ==
    /\ key' = [key EXCEPT ![p] = k]
    /\ pc' = [pc EXCEPT ![p] = "config"]

\* identity.json names the store of the key, or else it is not read.
ReadMeta(p) ==
    LET m == disk["identity.json"]
    IN  /\ pc[p] = "meta"
        /\ IF m \in Providers
           THEN IF m \in usable
                THEN HasKey(p, [store |-> m, maker |-> cng[m]])
                ELSE pc' = [pc EXCEPT ![p] = "ended"] /\ UNCHANGED key
           ELSE pc' = [pc EXCEPT ![p] = "legacy"] /\ UNCHANGED key
        /\ UNCHANGED <<platformVars, disk, writing, trying, cng, token, late>>

ReadPem(p) ==
    /\ disk["host-identity.pem"] # Nothing
    /\ IF disk["host-identity.pem"] \in Keys
       THEN HasKey(p, disk["host-identity.pem"])
       ELSE pc' = [pc EXCEPT ![p] = "ended"] /\ UNCHANGED key
    /\ UNCHANGED writing
CreatePem(p) ==
    /\ disk["host-identity.pem"] = Nothing
    /\ HasKey(p, [store |-> "pem", maker |-> p])
    /\ Writes(Main(p), "host-identity.pem", [store |-> "pem", maker |-> p])

\* Mutant: a key of an earlier version is used where there is no key store.
PreferStores(p) ==
    /\ pc[p] = "legacy"
    /\ IF windows
       THEN /\ pc' = [pc EXCEPT ![p] = "open"]
            /\ trying' = [trying EXCEPT ![p] = "tpm"]
            /\ UNCHANGED <<writing, key>>
       ELSE (ReadPem(p) \/ CreatePem(p)) /\ UNCHANGED trying
    /\ UNCHANGED <<platformVars, disk, cng, token, late>>

\* A key of an earlier version is kept; without one, Windows has key stores.
LookForLegacy(p) ==
    /\ pc[p] = "legacy"
    /\ IF windows /\ disk["host-identity.pem"] = Nothing
       THEN /\ pc' = [pc EXCEPT ![p] = "open"]
            /\ trying' = [trying EXCEPT ![p] = "tpm"]
            /\ UNCHANGED <<writing, key>>
       ELSE (ReadPem(p) \/ CreatePem(p)) /\ UNCHANGED trying
    /\ UNCHANGED <<platformVars, disk, cng, token, late>>

\* loadHostIdentity at a start, or migrateHostIdentityToTPM of a process that has
\* a key already.
Stored(p, maker) ==
    /\ Writes(Main(p), "identity.json", trying[p])
    /\ IF key[p] = Nothing
       THEN HasKey(p, [store |-> trying[p], maker |-> maker])
       ELSE pc' = [pc EXCEPT ![p] = "exiting"] /\ UNCHANGED key
    /\ UNCHANGED trying
NotStored(p) ==
    /\ IF key[p] # Nothing
       THEN pc' = [pc EXCEPT ![p] = "ended"] /\ UNCHANGED trying
       ELSE IF trying[p] = "tpm"
       THEN /\ trying' = [trying EXCEPT ![p] = "software"]
            /\ pc' = [pc EXCEPT ![p] = "open"]
       ELSE pc' = [pc EXCEPT ![p] = "fallback"] /\ UNCHANGED trying
    /\ UNCHANGED <<writing, key>>

\* openCNGIdentity with create: opens the key ...
OpenKey(p) ==
    /\ pc[p] = "open"
    /\ IF trying[p] \notin usable THEN NotStored(p)
       ELSE IF cng[trying[p]] # Nothing THEN Stored(p, cng[trying[p]])
       ELSE /\ pc' = [pc EXCEPT ![p] = "create"]
            /\ UNCHANGED <<writing, trying, key>>
    /\ UNCHANGED <<platformVars, disk, cng, token, late>>

\* ... or creates it, which fails if another process has done so since.
CreateKey(p) ==
    /\ pc[p] = "create"
    /\ IF cng[trying[p]] = Nothing
       THEN Stored(p, p) /\ cng' = [cng EXCEPT ![trying[p]] = p]
       ELSE NotStored(p) /\ UNCHANGED cng
    /\ UNCHANGED <<platformVars, disk, token, late>>

FallBack(p) ==
    /\ pc[p] = "fallback"
    /\ ReadPem(p) \/ CreatePem(p)
    /\ UNCHANGED <<platformVars, disk, trying, cng, token, late>>

\* identity migrate-tpm, which only Windows has.
MigrateTPM(p) ==
    /\ pc[p] = "command" /\ command[p] = "migrate-tpm" /\ ~Busy(Main(p))
    /\ pc' = [pc EXCEPT ![p] = IF windows THEN "open" ELSE "ended"]
    /\ trying' = [trying EXCEPT ![p] = "tpm"]
    /\ UNCHANGED <<platformVars, disk, writing, cng, key, token, late>>

-----------------------------------------------------------------------------
(* loadAgent: the token. *)

\* Mutant: a process that made the key of the host makes a token along with it.
TokenWithKey(p) ==
    /\ pc[p] = "token"
    /\ IF disk["control.token"] \in Makers /\ key[p].maker # p
       THEN /\ token' = [token EXCEPT ![p] = disk["control.token"]]
            /\ UNCHANGED writing
       ELSE /\ token' = [token EXCEPT ![p] = p]
            /\ Writes(Main(p), "control.token", p)
    /\ pc' = [pc EXCEPT ![p] = "command"]
    /\ UNCHANGED <<platformVars, disk, trying, cng, key, late>>

\* Mutant: whatever the file holds is a token.
TakeToken(p) ==
    /\ pc[p] = "token"
    /\ IF disk["control.token"] # Nothing
       THEN /\ token' = [token EXCEPT ![p] = disk["control.token"]]
            /\ UNCHANGED writing
       ELSE /\ token' = [token EXCEPT ![p] = p]
            /\ Writes(Main(p), "control.token", p)
    /\ pc' = [pc EXCEPT ![p] = "command"]
    /\ UNCHANGED <<platformVars, disk, trying, cng, key, late>>

\* ensureControlToken: a file too short to hold a token is replaced.
EnsureToken(p) ==
    /\ pc[p] = "token"
    /\ IF disk["control.token"] \in Makers
       THEN /\ token' = [token EXCEPT ![p] = disk["control.token"]]
            /\ UNCHANGED writing
       ELSE /\ token' = [token EXCEPT ![p] = p]
            /\ Writes(Main(p), "control.token", p)
    /\ pc' = [pc EXCEPT ![p] = "command"]
    /\ UNCHANGED <<platformVars, disk, trying, cng, key, late>>

FindKey(p) ==
    \/ ReadMeta(p)
    \/ LookForLegacy(p)
    \/ OpenKey(p)
    \/ CreateKey(p)
    \/ FallBack(p)

-----------------------------------------------------------------------------
Migrated(p) ==
    /\ command[p] = "migrate-tpm" /\ key[p] # Nothing
    /\ pc[p] \notin {"config", "token", "command"}

\* A process that started once a key and a token were there goes on agreeing with
\* the files, so that clients that read the token are known to it and phones know
\* its key again at the next start: however many first starts were still under
\* way beside it, none of them replaces what it took (loadHostIdentity,
\* ensureControlToken).  Only a migration changes the key.
LateStartersAgree ==
    \A p \in Procs : late[p] =>
        /\ token[p] # Nothing => token[p] = disk["control.token"]
        /\ key[p] # Nothing => \/ key[p] = HostKey
                              \/ \E r \in Procs : Migrated(r)

\* A workstation set up by an earlier version keeps its key, whatever stores
\* Windows has, until its owner migrates it (docs/WINDOWS-IDENTITY.md).
KeyRetained ==
    \A p \in Procs : disk["host-identity.pem"] = LegacyKey /\ key[p] # Nothing =>
        key[p] = LegacyKey \/ \E r \in Procs : Migrated(r)
=============================================================================
