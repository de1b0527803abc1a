----------------------------- MODULE Enrollment -----------------------------
(***************************************************************************)
(* Who is a phone of this workstation: the paired phones of config.json,   *)
(* which every process reads when it starts and writes as a whole, and the *)
(* admission of a phone by a daemon or a portable host (Agent.handle up to *)
(* the session).  A daemon started with --pair-once, and every portable    *)
(* host, enrols the first phone that it does not know.                     *)
(***************************************************************************)
EXTENDS StateDir, Integers

CONSTANTS
    Phones,
    Setups,     \* what the workstation may be like at first, and what the
                \* processes are started for
    MaxMoves    \* bound: times adb is installed somewhere else

Places == 0..MaxMoves
Names == {"none", "Owner phone", "renamed"}
\* Where adb was found: -1 for nowhere yet.
Configs == [phones : SUBSET Phones, names : [Phones -> Names],
            adb : Places \cup {-1}]
NoConfig == [phones |-> {}, names |-> [ph \in Phones |-> "none"], adb |-> -1]
SetupRec == [windows : BOOLEAN, usable : SUBSET Providers, key : {"none", "pem", "cng"},
             config : Configs \cup {Nothing}, command : [Procs -> CommandNames]]

ASSUME EnrollmentAssumption ==
    /\ Setups \subseteq SetupRec
    /\ \A s \in Setups : s.key = "cng" => s.windows
    /\ MaxMoves \in Nat
    /\ {Nothing, Empty, Torn} \cap Configs = {}

VARIABLES
    mem,        \* Agent.cfg
    pairOnce,   \* Agent.pairOnce
    expired,    \* the portable invitation has expired
    adb,        \* where adb is installed
    admitted,   \* history: phones that a host has ever let in
    intended,   \* history: the phones that pairings and commands intend
    fresh,      \* history: no process changed the pairings since this one read them
    excused     \* history: config.json may have lost a change (see below)

hostVars == <<mem, pairOnce, expired, adb, admitted>>
intentVars == <<intended, fresh, excused>>
vars == <<stateDirVars, hostVars, intentVars>>

-----------------------------------------------------------------------------
(* Processes. *)

Portable(p) == command[p] = "portable"
ConfigFile(p) == IF Portable(p) THEN "portable/config.json" ELSE "config.json"
Alive(p) == pc[p] \notin {"idle", "ended"}
Paired(cfg, ph) ==
    [cfg EXCEPT !.phones = @ \cup {ph},
                !.names[ph] = IF @ = "none" THEN "Owner phone" ELSE @]
RevokedName(cfg, ph) == [cfg EXCEPT !.names[ph] = "none"]   \* Mutant
Revoked(cfg, ph) ==
    [cfg EXCEPT !.phones = @ \ {ph}, !.names[ph] = "none"]
Renamed(cfg, ph) == [cfg EXCEPT !.names[ph] = "renamed"]
Cleared(cfg) == [cfg EXCEPT !.phones = {}, !.names = NoConfig.names]

\* saveConfig: from the whole map of this process, whatever the file holds now.
SaveConfig(w, cfg) ==
    /\ mem' = [mem EXCEPT ![w[1]] = cfg]
    /\ Writes(w, ConfigFile(w[1]), cfg)

\* A save may lose what other processes wrote: of one that read the file before,
\* or that writes it at the same time.
Loses(p) == ~fresh[p] \/ BeingWritten("config.json") # {}

\* Process p changes the pairings to S.
Intends(p, S) ==
    /\ intended' = S
    /\ fresh' = [q \in Procs |-> q = p /\ fresh[p]]
    /\ excused' = (excused \/ Loses(p))

Init ==
    \E s \in Setups :
        /\ windows = s.windows
        /\ usable = s.usable
        /\ command = s.command
        /\ disk = [f \in FileNames |->
               CASE f = "identity.json" /\ s.key = "cng" -> "tpm"
                 [] f = "host-identity.pem" /\ s.key = "pem" -> LegacyKey
                 [] f = "control.token" /\ s.key # "none" -> Before
                 [] f = "config.json" -> s.config
                 [] OTHER -> Nothing]
        /\ writing = [w \in Writers |-> NoWrite]
        /\ pc = [p \in Procs |-> "idle"]
        /\ trying = [p \in Procs |-> "tpm"]
        /\ cng = [store \in Providers |->
               IF store = "tpm" /\ s.key = "cng" THEN Before ELSE Nothing]
        /\ key = [p \in Procs |-> Nothing]
        /\ token = [p \in Procs |-> Nothing]
        /\ late = [p \in Procs |-> FALSE]
        /\ mem = [p \in Procs |-> NoConfig]
        /\ pairOnce = [p \in Procs |-> FALSE]
        /\ expired = FALSE
        /\ adb = 0
        /\ admitted = [p \in Procs |-> {}]
        /\ intended = IF s.config = Nothing THEN {} ELSE s.config.phones
        /\ fresh = [p \in Procs |-> FALSE]
        /\ excused = FALSE

-----------------------------------------------------------------------------
(* Starting and writing: the steps of StateDir, seen from here. *)

StartUp(p) ==
    /\ Start(p) \/ (FindKey(p) /\ ~Busy(Main(p))) \/ (EnsureToken(p) /\ ~Busy(Main(p)))
    /\ UNCHANGED <<hostVars, intentVars>>

Migrates(p) == MigrateTPM(p) /\ UNCHANGED <<hostVars, intentVars>>

\* A file that does not parse leaves the process without phones.
ReadConfig(p) ==
    LET found == disk["config.json"]
    IN  /\ pc[p] = "config" /\ ~Busy(Main(p))
        /\ pc' = [pc EXCEPT ![p] = "token"]
        /\ mem' = [mem EXCEPT ![p] = IF found \in Configs THEN found ELSE NoConfig]
        /\ fresh' = [fresh EXCEPT ![p] = BeingWritten("config.json") = {}]
        /\ UNCHANGED <<platformVars, disk, writing, trying, cng, key, token,
                       late, pairOnce, expired, adb, admitted,
                       intended, excused>>

\* A daemon whose configuration cannot be saved goes on; a command gives up.
Saves(w) ==
    /\ \/ Truncate(w) /\ UNCHANGED excused
       \/ Fill(w) /\ UNCHANGED excused
       \/ /\ WriteFails(w)
          /\ excused' = (excused \/ writing[w].file = "config.json")
    /\ UNCHANGED <<hostVars, intended, fresh>>

Dies(p) ==
    /\ Killed(p)
    /\ excused' = (excused \/
           \E w \in BeingWritten("config.json") : w[1] = p)
    /\ UNCHANGED <<mem, pairOnce, expired, adb, admitted, intended, fresh>>

-----------------------------------------------------------------------------
(* Commands. *)

MoveADB ==
    /\ adb < MaxMoves
    /\ adb' = adb + 1
    /\ UNCHANGED <<stateDirVars, mem, pairOnce, expired, admitted,
                   intentVars>>

\* Mutant: saves whether or not anything has changed.
SaveAnyPath(p) == SaveConfig(Main(p), [mem[p] EXCEPT !.adb = adb])
\* configureADB: finds adb where it is by now, and saves a path that is new.
SavePath(p) ==
    IF mem[p].adb = adb THEN UNCHANGED <<mem, writing>>
    ELSE SaveConfig(Main(p), [mem[p] EXCEPT !.adb = adb])

ConfigureADB(p) ==
    /\ ~Busy(Main(p))
    /\ SavePath(p)
    /\ excused' = (excused \/ (mem[p].adb # adb /\ Loses(p)))
    /\ UNCHANGED <<platformVars, disk, trying, cng, key, token, late, expired, adb, admitted, intended, fresh>>

\* The flags of the daemon, and adb before it listens.
RunDaemon(p) ==
    /\ pc[p] = "command" /\ command[p] \in {"daemon", "pair-once"}
    /\ ConfigureADB(p)
    /\ pairOnce' = [pairOnce EXCEPT ![p] = command[p] = "pair-once"]
    /\ pc' = [pc EXCEPT ![p] = "listen"]

\* A second daemon cannot listen, and ends.
Listen(p) ==
    /\ pc[p] = "listen" /\ ~Busy(Main(p))
    /\ pc' = [pc EXCEPT ![p] =
           IF \E q \in Procs : pc[q] = "serving" /\ ~Portable(q)
           THEN "ended" ELSE "serving"]
    /\ UNCHANGED <<platformVars, disk, writing, trying, cng, key, token, late,
                   hostVars, intentVars>>

\* The watcher, every two seconds.  Its first sweep, which may come before Listen,
\* finds adb where RunDaemon has just found it, and is left out.
Sweep(p) ==
    /\ pc[p] = "serving" /\ ~Portable(p)
    /\ ConfigureADB(p)
    /\ UNCHANGED <<pc, pairOnce>>

\* status and doctor.
ShowStatus(p) ==
    /\ pc[p] = "command" /\ command[p] = "status"
    /\ ConfigureADB(p)
    /\ pc' = [pc EXCEPT ![p] = "exiting"]
    /\ UNCHANGED pairOnce

\* device rename, device revoke and unpair-all end with the save of cfg.
Command(p, name, cfg) ==
    /\ pc[p] = "command" /\ command[p] = name /\ ~Busy(Main(p))
    /\ SaveConfig(Main(p), cfg)
    /\ pc' = [pc EXCEPT ![p] = "exiting"]
    /\ UNCHANGED <<platformVars, disk, trying, cng, key, token, late, pairOnce,
                   expired, adb, admitted>>

Rename(p, ph) ==
    /\ ph \in mem[p].phones
    /\ Command(p, "rename", Renamed(mem[p], ph))
    /\ excused' = (excused \/ Loses(p))
    /\ UNCHANGED <<intended, fresh>>
Revoke(p, ph) ==
    /\ ph \in mem[p].phones
    /\ Command(p, "revoke", Revoked(mem[p], ph))
    /\ Intends(p, intended \ {ph})
UnpairAll(p) ==
    /\ Command(p, "unpair-all", Cleared(mem[p]))
    /\ Intends(p, {})

-----------------------------------------------------------------------------
(* Hosts. *)

\* The portable host: no state directory but its own, no phones, one window.
RunPortable(p) ==
    /\ pc[p] = "idle" /\ Portable(p)
    /\ pc' = [pc EXCEPT ![p] = "serving"]
    /\ pairOnce' = [pairOnce EXCEPT ![p] = TRUE]
    /\ UNCHANGED <<platformVars, disk, writing, trying, cng, key, token, late,
                   mem, expired, adb, admitted, intentVars>>

Expire ==
    /\ ~expired
    /\ \E p \in Procs : Portable(p)
    /\ expired' = TRUE
    /\ UNCHANGED <<stateDirVars, mem, pairOnce, adb, admitted,
                   intentVars>>

\* A portable host asks every connection for the invitation, which all phones here
\* have; the others ask for nothing.
Invited(p) == Portable(p) => ~expired

\* handle holds Agent.mu from the lookup to the end of the save.
Admits(p, ph) ==
    /\ pc[p] = "serving" /\ ~Busy(Handler(p))
    /\ Invited(p)
    /\ admitted' = [admitted EXCEPT ![p] = @ \cup {ph}]
    /\ UNCHANGED <<platformVars, disk, loadVars, expired, adb>>

AdmitPaired(p, ph) ==
    /\ ph \in mem[p].phones
    /\ Admits(p, ph)
    /\ UNCHANGED <<writing, mem, pairOnce, intentVars>>

\* Mutant: the window stays open.
LeaveOpen(p) == UNCHANGED pairOnce
CloseWindow(p) == pairOnce' = [pairOnce EXCEPT ![p] = FALSE]

Enroll(p, ph) ==
    /\ ph \notin mem[p].phones
    /\ pairOnce[p]
    /\ CloseWindow(p)
    /\ Admits(p, ph)
    /\ SaveConfig(Handler(p), Paired(mem[p], ph))
    /\ IF Portable(p) THEN UNCHANGED intentVars
       ELSE Intends(p, intended \cup {ph})

Next ==
    \/ \E w \in Writers : Saves(w)
    \/ \E p \in Procs :
          \/ StartUp(p) \/ ReadConfig(p) \/ Migrates(p) \/ Dies(p)
          \/ RunDaemon(p) \/ Listen(p) \/ Sweep(p) \/ ShowStatus(p)
          \/ UnpairAll(p) \/ RunPortable(p)
    \/ \E p \in Procs, ph \in Phones :
          \/ Rename(p, ph) \/ Revoke(p, ph)
          \/ AdmitPaired(p, ph) \/ Enroll(p, ph)
    \/ MoveADB
    \/ Expire

Spec == Init /\ [][Next]_vars

-----------------------------------------------------------------------------
Texts(f) ==
    CASE f = "identity.json" -> Providers
      [] f = "host-identity.pem" -> Keys
      [] f = "control.token" -> Makers
      [] OTHER -> Configs

\* Every variable keeps its type: in particular a file holds texts of its kind.
TypeOK ==
    /\ windows \in BOOLEAN
    /\ usable \subseteq Providers
    /\ command \in [Procs -> CommandNames]
    /\ \A f \in FileNames : disk[f] \in Texts(f) \cup {Nothing, Empty, Torn}
    /\ \A w \in Writers : Busy(w) =>
          /\ writing[w].file \in FileNames
          /\ writing[w].text \in Texts(writing[w].file)
          /\ writing[w].cut \in BOOLEAN
    /\ pc \in [Procs -> {"idle", "meta", "legacy", "open", "create", "fallback",
                         "config", "token", "command", "listen", "serving",
                         "exiting", "ended"}]
    /\ trying \in [Procs -> Providers]
    /\ cng \in [Providers -> Makers \cup {Nothing}]
    /\ key \in [Procs -> Keys \cup {Nothing}]
    /\ token \in [Procs -> Makers \cup {Nothing}]
    /\ late \in [Procs -> BOOLEAN]
    /\ mem \in [Procs -> Configs]
    /\ pairOnce \in [Procs -> BOOLEAN]
    /\ expired \in BOOLEAN
    /\ adb \in Places
    /\ admitted \in [Procs -> SUBSET Phones]
    /\ intended \in SUBSET Phones
    /\ fresh \in [Procs -> BOOLEAN]
    /\ excused \in BOOLEAN

Pairings(text) == IF text \in Configs THEN text.phones ELSE {}

\* Phones that some process, or a start to come, takes for paired.
InFiles == Pairings(disk["config.json"]) \cup Pairings(disk["portable/config.json"])
InProcesses == UNION {mem[p].phones : p \in {q \in Procs : Alive(q)}}
InWrites == UNION {Pairings(writing[w].text) : w \in
    BeingWritten("config.json") \cup BeingWritten("portable/config.json")}
Known == InFiles \cup InProcesses \cup InWrites

\* A phone that no file, no process and no write in progress knows of becomes
\* known only by using up a pairing window, one phone a window, so that a phone
\* that was revoked everywhere needs a new one (Agent.handle).
EnrolledThroughWindow ==
    [][\A ph \in Known' \ Known : \E p \in Procs :
          /\ pairOnce[p] /\ ~pairOnce'[p]
          /\ Known' \ Known = {ph}]_vars

\* config.json says what pairings, revocations and unpair-all have left, unless
\* a process that had read it before the last change saved after it, two saves
\* overlapped, or one was cut short.  A daemon that neither pairs a phone nor
\* finds adb somewhere else is no such process: what commands change beside it
\* stays changed (saveConfig, configureADB).
PairingsAsIntended ==
    ~excused /\ BeingWritten("config.json") = {} =>
        Pairings(disk["config.json"]) = intended

\* A portable host ever lets in one phone, however many have the invitation and
\* however often they connect (docs/PORTABLE.md).
PortableOnePhone ==
    \A p \in Procs : Portable(p) => Cardinality(admitted[p]) <= 1
=============================================================================
