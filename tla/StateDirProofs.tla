----------------------------- MODULE StateDirProofs -----------------------------
(***************************************************************************)
(* TLAPS proofs about the key of the host and the token of the control API *)
(* as processes start on a shared state directory, for any processes and   *)
(* any setups: a workstation's earlier key is kept, and a process that     *)
(* starts once a key and a token are there keeps agreeing with the files.  *)
(***************************************************************************)
EXTENDS EnrollmentProofs

(* Where a process stands says whether it has a key; handlers write nothing  *)
(* but configurations; and no process writes the key it did not make.        *)

KeyFiles == {"identity.json", "host-identity.pem"}
Seeking == {"open", "create", "fallback"}

StartOf(p) ==
    /\ pc[p] \in {"idle", "meta", "legacy", "fallback"} => key[p] = Nothing
    /\ pc[p] \in {"config", "token", "command"} => key[p] # Nothing
    /\ pc[p] \in {"open", "create"} /\ key[p] # Nothing =>
          command[p] = "migrate-tpm"
    /\ pc[p] = "idle" => token[p] = Nothing
    /\ pc[p] = "meta" => windows

StartInv ==
    /\ \A p \in Procs : StartOf(p)
    /\ \A p \in Procs : writing[Handler(p)].file \in ConfigFiles \cup {"none"}
    /\ \A w \in Writers : writing[w].file = "host-identity.pem" =>
          writing[w].text # LegacyKey

NoMigration == \A r \in Procs : ~Migrated(r)
NoKeyWritten == \A w \in Writers : writing[w].file \notin KeyFiles

(* While the earlier key is in its file and nobody migrates, no process ever *)
(* gets to the key stores.                                                   *)

RetainInv ==
    disk["host-identity.pem"] = LegacyKey /\ NoMigration =>
        /\ disk["identity.json"] \notin Providers
        /\ NoKeyWritten
        /\ \A p \in Procs : /\ pc[p] \notin Seeking
                            /\ key[p] \in {Nothing, LegacyKey}

(* From the first late start on, nobody replaces the key or the token.  That *)
(* KeySettled asks for no process that looks for a key in the old file is    *)
(* needed only when identity.json names a store, since a later process comes *)
(* to look there only if it does not.                                        *)

Settled ==
    /\ HostKey \in Keys
    /\ NoKeyWritten
    /\ \A p \in Procs :
          /\ pc[p] \notin Seeking
          /\ windows /\ pc[p] = "legacy" => disk["identity.json"] \notin Providers

LateInv ==
    \A p \in Procs : late[p] =>
        /\ TokenSettled
        /\ token[p] \in {Nothing, disk["control.token"]}
        /\ NoMigration => Settled /\ key[p] \in {Nothing, HostKey}

-----------------------------------------------------------------------------
(* What steps do here.  Most of them leave keys, tokens and the files of both *)
(* alone, except to end a write of such a file that is in progress.           *)

Plain ==
    /\ UNCHANGED <<windows, command, cng, key, token, late>>
    /\ \A f \in KeyFiles \cup {"control.token"} :
          disk'[f] # disk[f] => \E w \in Writers : writing[w].file = f
    /\ disk'["host-identity.pem"] = LegacyKey =>
          disk["host-identity.pem"] = LegacyKey
    /\ \A w \in Writers :
          \/ writing'[w].file \in ConfigFiles \cup {"none"}
          \/ /\ writing'[w].file = writing[w].file
             /\ writing'[w].text = writing[w].text
    /\ \A p \in Procs :
          \/ pc'[p] = pc[p]
          \/ pc'[p] \in {"listen", "serving", "exiting", "ended"}
          \/ pc[p] = "config" /\ pc'[p] = "token"

\* A start that looks for its key.
Seeks(p) ==
    /\ UNCHANGED <<windows, command, disk, token, late>>
    /\ \A w \in Writers :
          \/ writing'[w] = writing[w]
          \/ /\ w = Main(p)
             /\ writing'[w].file \in KeyFiles
             /\ writing'[w].file = "host-identity.pem" =>
                   writing'[w].text # LegacyKey
    /\ \A q \in Procs \ {p} : key'[q] = key[q] /\ pc'[q] = pc[q]
    /\ \/ pc'[p] = "config" /\ key[p] = Nothing /\ key'[p] # Nothing
       \/ /\ key'[p] = key[p]
          /\ \/ pc'[p] \in {"exiting", "ended"}
             \/ pc[p] = "meta" /\ pc'[p] = "legacy"
             \/ pc[p] = "legacy" /\ pc'[p] = "open"
             \/ pc[p] = "open" /\ pc'[p] \in {"open", "create"}
             \/ /\ pc[p] \in {"open", "create"} /\ key[p] = Nothing
                /\ pc'[p] \in {"open", "fallback"}

LEMMA FileNamesApart ==
    /\ KeyFiles \cup {"control.token"} \subseteq FileNames
    /\ ConfigFiles \subseteq FileNames
    /\ ConfigFiles \cap (KeyFiles \cup {"control.token", "none"}) = {}
    /\ "none" \notin KeyFiles
    /\ NoWrite.file = "none"
  BY DEF KeyFiles, ConfigFiles, FileNames, NoWrite

LEMMA KeyFacts ==
    /\ Nothing \notin Keys /\ Nothing \notin Makers
    /\ LegacyKey \in Keys
    /\ LegacyKey \notin {Nothing, Empty, Torn}
    /\ \A p \in Procs : [store |-> "pem", maker |-> p] # LegacyKey
    /\ \A p \in Procs, s \in Providers : [store |-> s, maker |-> p] \in Keys
    /\ \A p \in Procs : [store |-> "pem", maker |-> p] \in Keys
  <1> USE StateDirAssumption
  <1>1. LegacyKey \in Keys
    BY DEF LegacyKey, Keys, Makers
  <1>2. Nothing \notin Keys /\ Nothing \notin Makers
    OBVIOUS
  <1>3. \A p \in Procs : [store |-> "pem", maker |-> p] # LegacyKey
    BY DEF LegacyKey
  <1>4. QED
    BY <1>1, <1>2, <1>3 DEF Keys, Makers

LEMMA PlainWrites ==
    ASSUME TypeInv, StartInv,
           NEW w \in Writers, Truncate(w) \/ Fill(w) \/ WriteFails(w)
    PROVE  Plain
  <1> USE StateDirAssumption
  <1>1. /\ disk \in [FileNames -> AnyText]
        /\ writing[w].file \in FileNames
        /\ w[1] \in Procs
    BY DEF Truncate, Fill, WriteFails, TypeInv, FilesOK, Busy, NoWrite, Writers
  <1>2. PICK text : /\ disk' = disk \/ disk' = [disk EXCEPT ![writing[w].file] = text]
                    /\ text \in {Empty, Torn, writing[w].text}
    BY DEF Truncate, Fill, WriteFails
  <1>3. \A f \in FileNames : disk'[f] # disk[f] =>
           f = writing[w].file /\ disk'[f] = text
    BY <1>1, <1>2
  <1>4. writing[w].file = "host-identity.pem" => text # LegacyKey
    BY <1>2, KeyFacts DEF StartInv
  <1>5. \A v \in Writers : \/ writing'[v].file \in ConfigFiles \cup {"none"}
                           \/ /\ writing'[v].file = writing[v].file
                              /\ writing'[v].text = writing[v].text
    <2>1. CASE Truncate(w)
      <3>1. writing' = [writing EXCEPT ![w] = [file |-> writing[w].file,
                            text |-> writing[w].text, cut |-> TRUE]]
        BY <2>1 DEF Truncate
      <3>2. writing'[w].file = writing[w].file /\ writing'[w].text = writing[w].text
        BY <3>1 DEF TypeInv, FilesOK
      <3>3. \A v \in Writers \ {w} : writing'[v] = writing[v]
        BY <3>1 DEF TypeInv, FilesOK
      <3>4. QED
        BY <3>2, <3>3
    <2>2. CASE Fill(w) \/ WriteFails(w)
      BY <2>2, FileNamesApart DEF Fill, WriteFails, TypeInv, FilesOK
    <2>3. QED
      BY <2>1, <2>2
  <1>6. \A p \in Procs : pc'[p] = pc[p] \/ pc'[p] = "ended"
    BY <1>1 DEF Truncate, Fill, WriteFails, loadVars, TypeInv, StateOK
  <1>7. UNCHANGED <<windows, command, cng, key, token, late>>
    BY DEF Truncate, Fill, WriteFails, loadVars, platformVars
  <1>8. QED
    BY <1>1, <1>3, <1>4, <1>5, <1>6, <1>7, FileNamesApart DEF Plain, KeyFiles

LEMMA PlainElsewhere ==
    ASSUME TypeInv, UNCHANGED <<platformVars, disk, cng, key, token, late>>,
           \A w \in Writers : \/ writing'[w] = writing[w]
                              \/ writing'[w].file \in ConfigFiles \cup {"none"},
           \A p \in Procs :
              \/ pc'[p] = pc[p]
              \/ pc'[p] \in {"listen", "serving", "exiting", "ended"}
              \/ pc[p] = "config" /\ pc'[p] = "token"
    PROVE  Plain
  BY DEF Plain, platformVars

LEMMA SaveWrites ==
    ASSUME TypeInv, NEW p \in Procs, NEW w \in {Main(p), Handler(p)}, NEW cfg,
           SaveConfig(w, cfg)
    PROVE  \A v \in Writers : \/ writing'[v] = writing[v]
                              \/ writing'[v].file \in ConfigFiles
  <1>1. w \in Writers
    BY FileFacts
  <1>2. writing' = [writing EXCEPT ![w] =
            [file |-> ConfigFile(w[1]), text |-> cfg, cut |-> FALSE]]
    BY DEF SaveConfig, Writes
  <1>3. \A v \in Writers \ {w} : writing'[v] = writing[v]
    BY <1>2 DEF TypeInv, FilesOK
  <1>4. writing'[w] = [file |-> ConfigFile(w[1]), text |-> cfg, cut |-> FALSE]
    BY <1>1, <1>2 DEF TypeInv, FilesOK
  <1>5. ConfigFile(w[1]) \in ConfigFiles
    BY DEF ConfigFile, ConfigFiles
  <1>6. QED
    BY <1>3, <1>4, <1>5

\* Every step of a process that neither starts nor migrates is plain.
LEMMA PlainStep ==
    ASSUME TypeInv, StartInv, [Next]_vars
    PROVE  \/ Plain
           \/ \E p \in Procs : Start(p) \/ FindKey(p) \/ EnsureToken(p) \/ MigrateTPM(p)
  <1>q. ASSUME UNCHANGED <<stateDirVars>> PROVE Plain
    BY <1>q, PlainElsewhere DEF stateDirVars, loadVars
  <1>1. ASSUME NEW w \in Writers, Saves(w) PROVE Plain
    BY <1>1, PlainWrites DEF Saves
  <1>2. ASSUME NEW p \in Procs, ReadConfig(p) PROVE Plain
    BY <1>2, PlainElsewhere DEF ReadConfig, TypeInv, StateOK
  <1>3. ASSUME NEW p \in Procs, Dies(p) PROVE Plain
    <2>1. Killed(p)
      BY <1>3 DEF Dies
    <2>2. \A w \in Writers : \/ writing'[w] = writing[w]
                             \/ writing'[w].file \in ConfigFiles \cup {"none"}
      BY <2>1, FileNamesApart DEF Killed
    <2>3. QED
      BY <2>1, <2>2, PlainElsewhere DEF Killed, TypeInv, StateOK
  <1>4. ASSUME NEW p \in Procs, ConfigureADB(p),
               pc' = pc \/ pc' = [pc EXCEPT ![p] = "listen"]
                  \/ pc' = [pc EXCEPT ![p] = "exiting"]
        PROVE  Plain
    <2>1. \A w \in Writers : \/ writing'[w] = writing[w]
                             \/ writing'[w].file \in ConfigFiles \cup {"none"}
      BY <1>4, SaveWrites DEF ConfigureADB, SavePath
    <2>2. QED
      BY <1>4, <2>1, PlainElsewhere DEF ConfigureADB, TypeInv, StateOK
  <1>5. ASSUME NEW p \in Procs, RunDaemon(p) \/ Sweep(p) \/ ShowStatus(p)
        PROVE  Plain
    BY <1>4, <1>5 DEF RunDaemon, Sweep, ShowStatus
  <1>6. ASSUME NEW p \in Procs, Listen(p) PROVE Plain
    BY <1>6, PlainElsewhere DEF Listen, TypeInv, StateOK
  <1>7. ASSUME NEW p \in Procs, NEW name, NEW cfg, Command(p, name, cfg)
        PROVE  Plain
    <2>1. \A w \in Writers : \/ writing'[w] = writing[w]
                             \/ writing'[w].file \in ConfigFiles \cup {"none"}
      BY <1>7, SaveWrites DEF Command
    <2>2. QED
      BY <1>7, <2>1, PlainElsewhere DEF Command, TypeInv, StateOK
  <1>8. ASSUME NEW p \in Procs, NEW ph \in Phones,
               Rename(p, ph) \/ Revoke(p, ph) \/ UnpairAll(p)
        PROVE  Plain
    BY <1>7, <1>8 DEF Rename, Revoke, UnpairAll
  <1>u. ASSUME NEW p \in Procs, UnpairAll(p) PROVE Plain
    BY <1>7, <1>u DEF UnpairAll
  <1>9. ASSUME NEW p \in Procs, RunPortable(p) PROVE Plain
    BY <1>9, PlainElsewhere DEF RunPortable, TypeInv, StateOK
  <1>10. ASSUME NEW p \in Procs, NEW ph \in Phones,
                AdmitPaired(p, ph) \/ Enroll(p, ph)
         PROVE  Plain
    <2>1. \A w \in Writers : \/ writing'[w] = writing[w]
                             \/ writing'[w].file \in ConfigFiles \cup {"none"}
      BY <1>10, SaveWrites DEF AdmitPaired, Enroll
    <2>2. Admits(p, ph)
      BY <1>10 DEF AdmitPaired, Enroll
    <2>3. QED
      BY <2>1, <2>2, PlainElsewhere DEF Admits, loadVars
  <1>11. QED
    BY <1>q, <1>1, <1>2, <1>3, <1>5, <1>6, <1>8, <1>u, <1>9, <1>10
    DEF Next, StartUp, Migrates, MoveADB, Expire, vars

-----------------------------------------------------------------------------
(* A start that looks for its key. *)

LEMMA OneWrite ==
    ASSUME TypeInv, NEW p \in Procs, NEW f \in KeyFiles, NEW text,
           Writes(Main(p), f, text),
           f = "host-identity.pem" => text # LegacyKey
    PROVE  \A w \in Writers :
              \/ writing'[w] = writing[w]
              \/ /\ w = Main(p)
                 /\ writing'[w].file \in KeyFiles
                 /\ writing'[w].file = "host-identity.pem" =>
                       writing'[w].text # LegacyKey
  <1>1. writing' = [writing EXCEPT ![Main(p)] =
            [file |-> f, text |-> text, cut |-> FALSE]]
    BY DEF Writes
  <1>2. Main(p) \in Writers
    BY FileFacts
  <1>3. writing'[Main(p)] = [file |-> f, text |-> text, cut |-> FALSE]
    BY <1>1, <1>2 DEF TypeInv, FilesOK
  <1>4. \A w \in Writers \ {Main(p)} : writing'[w] = writing[w]
    BY <1>1 DEF TypeInv, FilesOK
  <1>5. QED
    BY <1>3, <1>4

LEMMA HasKeySeeks ==
    ASSUME TypeInv, StartInv, NEW p \in Procs, NEW k, HasKey(p, k),
           k # Nothing, key[p] = Nothing
    PROVE  /\ \A q \in Procs \ {p} : key'[q] = key[q] /\ pc'[q] = pc[q]
           /\ pc'[p] = "config" /\ key[p] = Nothing /\ key'[p] = k
  BY DEF HasKey, TypeInv, StateOK

LEMMA PemSeeks ==
    ASSUME TypeInv, StartInv, NEW p \in Procs, ReadPem(p) \/ CreatePem(p),
           key[p] = Nothing,
           UNCHANGED <<platformVars, disk, token, late>>
    PROVE  Seeks(p)
  <1>1. CASE ReadPem(p)
    <2>1. CASE disk["host-identity.pem"] \in Keys
      BY <1>1, <2>1, HasKeySeeks, KeyFacts DEF ReadPem, Seeks, platformVars
    <2>2. CASE disk["host-identity.pem"] \notin Keys
      BY <1>1, <2>2 DEF ReadPem, Seeks, platformVars, TypeInv, StateOK
    <2>3. QED
      BY <2>1, <2>2
  <1>2. CASE CreatePem(p)
    <2>1. \A w \in Writers :
              \/ writing'[w] = writing[w]
              \/ /\ w = Main(p)
                 /\ writing'[w].file \in KeyFiles
                 /\ writing'[w].file = "host-identity.pem" =>
                       writing'[w].text # LegacyKey
      BY <1>2, OneWrite, KeyFacts DEF CreatePem, KeyFiles
    <2>2. [store |-> "pem", maker |-> p] # Nothing
      BY KeyFacts
    <2>3. QED
      BY <1>2, <2>1, <2>2, HasKeySeeks DEF CreatePem, Seeks, platformVars
  <1>3. QED
    BY <1>1, <1>2

LEMMA StoredSeeks ==
    ASSUME TypeInv, StartInv, NEW p \in Procs, NEW maker \in Makers,
           Stored(p, maker), UNCHANGED <<platformVars, disk, token, late>>
    PROVE  Seeks(p)
  <1>1. \A w \in Writers :
              \/ writing'[w] = writing[w]
              \/ /\ w = Main(p)
                 /\ writing'[w].file \in KeyFiles
                 /\ writing'[w].file = "host-identity.pem" =>
                       writing'[w].text # LegacyKey
    BY OneWrite DEF Stored, KeyFiles
  <1>2. trying[p] \in Providers
    BY DEF TypeInv, StateOK
  <1>3. [store |-> trying[p], maker |-> maker] # Nothing
    BY <1>2, KeyFacts, KeysOfStores
  <1>4. CASE key[p] = Nothing
    BY <1>1, <1>3, <1>4, HasKeySeeks DEF Stored, Seeks, platformVars
  <1>5. CASE key[p] # Nothing
    BY <1>1, <1>5 DEF Stored, Seeks, platformVars, TypeInv, StateOK
  <1>6. QED
    BY <1>4, <1>5

LEMMA FindKeySeeks ==
    ASSUME TypeInv, StartInv, NEW p \in Procs, FindKey(p)
    PROVE  Seeks(p)
  <1>k. StartOf(p)
    BY DEF StartInv
  <1>1. CASE ReadMeta(p)
    <2>1. key[p] = Nothing
      BY <1>1, <1>k DEF ReadMeta, StartOf
    <2>2. UNCHANGED <<platformVars, disk, writing, token, late>>
      BY <1>1 DEF ReadMeta
    <2>3. PICK m : m = disk["identity.json"]
      OBVIOUS
    <2>4. CASE m \in Providers /\ HasKey(p, [store |-> m, maker |-> cng[m]])
      <3>1. cng[m] \in Makers
        BY <2>3, <2>4 DEF TypeInv, FilesOK
      <3>2. [store |-> m, maker |-> cng[m]] # Nothing
        BY <2>4, <3>1, KeysOfStores, KeyFacts
      <3>3. QED
        BY <2>1, <2>2, <2>4, <3>2, HasKeySeeks DEF Seeks, platformVars
    <2>5. CASE /\ UNCHANGED key
               /\ pc' \in {[pc EXCEPT ![p] = "ended"], [pc EXCEPT ![p] = "legacy"]}
      BY <1>1, <2>2, <2>5
      DEF ReadMeta, Seeks, platformVars, TypeInv, StateOK
    <2>6. QED
      BY <1>1, <2>3, <2>4, <2>5 DEF ReadMeta
  <1>2. CASE LookForLegacy(p)
    <2>1. CASE ReadPem(p) \/ CreatePem(p)
      BY <1>2, <1>k, <2>1, PemSeeks DEF LookForLegacy, StartOf
    <2>2. CASE UNCHANGED <<writing, key>> /\ pc' = [pc EXCEPT ![p] = "open"]
      BY <1>2, <2>2 DEF LookForLegacy, Seeks, platformVars, TypeInv, StateOK
    <2>3. QED
      BY <1>2, <2>1, <2>2 DEF LookForLegacy
  <1>n. ASSUME NotStored(p), pc[p] \in {"open", "create"},
               UNCHANGED <<platformVars, disk, token, late>>
        PROVE  Seeks(p)
    <2>1. UNCHANGED <<writing, key>>
      BY <1>n DEF NotStored
    <2>2. \/ pc' = [pc EXCEPT ![p] = "ended"]
          \/ /\ key[p] = Nothing
             /\ pc' \in {[pc EXCEPT ![p] = "open"], [pc EXCEPT ![p] = "fallback"]}
      BY <1>n DEF NotStored
    <2>3. QED
      BY <1>n, <2>1, <2>2 DEF Seeks, platformVars, TypeInv, StateOK
  <1>3. CASE OpenKey(p)
    <2>1. UNCHANGED <<platformVars, disk, cng, token, late>> /\ pc[p] = "open"
      BY <1>3 DEF OpenKey
    <2>2. CASE NotStored(p)
      BY <1>n, <2>1, <2>2
    <2>3. CASE cng[trying[p]] # Nothing /\ Stored(p, cng[trying[p]])
      <3>1. cng[trying[p]] \in Makers
        BY <2>3 DEF TypeInv, StateOK
      <3>2. QED
        BY <2>1, <2>3, <3>1, StoredSeeks
    <2>4. CASE UNCHANGED <<writing, key>> /\ pc' = [pc EXCEPT ![p] = "create"]
      BY <2>1, <2>4 DEF Seeks, platformVars, TypeInv, StateOK
    <2>5. QED
      BY <1>3, <2>2, <2>3, <2>4 DEF OpenKey
  <1>4. CASE CreateKey(p)
    <2>1. UNCHANGED <<platformVars, disk, token, late>> /\ pc[p] = "create"
      BY <1>4 DEF CreateKey
    <2>2. CASE NotStored(p)
      BY <1>n, <2>1, <2>2
    <2>3. CASE Stored(p, p)
      BY <2>1, <2>3, StoredSeeks DEF Makers
    <2>4. QED
      BY <1>4, <2>2, <2>3 DEF CreateKey
  <1>5. CASE FallBack(p)
    BY <1>5, <1>k, PemSeeks DEF FallBack, StartOf
  <1>6. QED
    BY <1>1, <1>2, <1>3, <1>4, <1>5 DEF FindKey

-----------------------------------------------------------------------------
(* The invariants of a start. *)

LEMMA InitStart == Init => StartInv
  <1> SUFFICES ASSUME Init PROVE StartInv
    OBVIOUS
  <1>1. PICK s \in Setups : Init!(s)
    BY DEF Init
  <1>2. \A p \in Procs : Handler(p) \in Writers
    BY FileFacts
  <1>3. QED
    BY <1>1, <1>2 DEF StartInv, StartOf, NoWrite

LEMMA HandlerApart ==
    /\ \A p, q \in Procs : Handler(p) # Main(q)
    /\ \A p \in Procs : Handler(p) \in Writers
  BY FileFacts DEF Handler, Main

LEMMA StartStep == TypeInv /\ StartInv /\ [Next]_vars => StartInv'
  <1> SUFFICES ASSUME TypeInv, StartInv, [Next]_vars PROVE StartInv'
    OBVIOUS
  <1>1. CASE Plain
    <2>1. ASSUME NEW p \in Procs PROVE StartOf(p)'
      BY <1>1 DEF Plain, StartInv, StartOf
    <2>2. ASSUME NEW p \in Procs
          PROVE  writing'[Handler(p)].file \in ConfigFiles \cup {"none"}
      BY <1>1, HandlerApart DEF Plain, StartInv
    <2>3. ASSUME NEW w \in Writers, writing'[w].file = "host-identity.pem"
          PROVE  writing'[w].text # LegacyKey
      BY <1>1, <2>3 DEF Plain, StartInv, ConfigFiles
    <2>4. QED
      BY <2>1, <2>2, <2>3 DEF StartInv
  <1>2. ASSUME NEW p \in Procs, Start(p) PROVE StartInv'
    <2>1. ASSUME NEW q \in Procs PROVE StartOf(q)'
      BY <1>2 DEF Start, StartInv, StartOf, platformVars, TypeInv, StateOK
    <2>2. QED
      BY <1>2, <2>1 DEF Start, StartInv
  <1>3. ASSUME NEW p \in Procs, FindKey(p) PROVE StartInv'
    <2>1. Seeks(p)
      BY <1>3, FindKeySeeks
    <2>2. ASSUME NEW q \in Procs PROVE StartOf(q)'
      <3>1. CASE q = p
        BY <2>1, <3>1 DEF Seeks, StartInv, StartOf
      <3>2. CASE q # p
        BY <2>1, <3>2 DEF Seeks, StartInv, StartOf
      <3>3. QED
        BY <3>1, <3>2
    <2>3. ASSUME NEW q \in Procs
          PROVE  writing'[Handler(q)].file \in ConfigFiles \cup {"none"}
      BY <2>1, HandlerApart DEF Seeks, StartInv
    <2>4. ASSUME NEW w \in Writers, writing'[w].file = "host-identity.pem"
          PROVE  writing'[w].text # LegacyKey
      BY <2>1, <2>4 DEF Seeks, StartInv
    <2>5. QED
      BY <2>2, <2>3, <2>4 DEF StartInv
  <1>4. ASSUME NEW p \in Procs, EnsureToken(p) PROVE StartInv'
    <2>1. /\ UNCHANGED <<platformVars, key>>
          /\ pc[p] = "token" /\ pc' = [pc EXCEPT ![p] = "command"]
          /\ \A q \in Procs \ {p} : token'[q] = token[q]
      BY <1>4 DEF EnsureToken, TypeInv, StateOK
    <2>2. ASSUME NEW q \in Procs PROVE StartOf(q)'
      BY <2>1 DEF StartInv, StartOf, platformVars, TypeInv, StateOK
    <2>3. \A w \in Writers : \/ writing'[w] = writing[w]
                             \/ w = Main(p) /\ writing'[w].file = "control.token"
      <3>1. Main(p) \in Writers
        BY FileFacts
      <3>2. QED
        BY <1>4, <3>1 DEF EnsureToken, Writes, TypeInv, FilesOK
    <2>4. QED
      BY <2>2, <2>3, HandlerApart DEF StartInv
  <1>5. ASSUME NEW p \in Procs, MigrateTPM(p) PROVE StartInv'
    <2>1. ASSUME NEW q \in Procs PROVE StartOf(q)'
      BY <1>5 DEF MigrateTPM, StartInv, StartOf, platformVars, TypeInv, StateOK
    <2>2. QED
      BY <1>5, <2>1 DEF MigrateTPM, StartInv
  <1>6. QED
    BY <1>1, <1>2, <1>3, <1>4, <1>5, PlainStep

\* A process that has migrated, or tries to, is never again one that has not.
LEMMA MigratedStays ==
    ASSUME TypeInv, StartInv, [Next]_vars, NEW r \in Procs, Migrated(r)
    PROVE  Migrated(r)'
  <1>k. StartOf(r)
    BY DEF StartInv
  <1>1. CASE Plain
    BY <1>1 DEF Plain, Migrated
  <1>2. ASSUME NEW p \in Procs, Start(p) PROVE Migrated(r)'
    BY <1>2, <1>k DEF Start, StartOf, Migrated, platformVars, TypeInv, StateOK
  <1>3. ASSUME NEW p \in Procs, FindKey(p) PROVE Migrated(r)'
    <2>1. Seeks(p)
      BY <1>3, FindKeySeeks
    <2>2. QED
      BY <1>k, <2>1 DEF Seeks, StartOf, Migrated
  <1>4. ASSUME NEW p \in Procs, EnsureToken(p) PROVE Migrated(r)'
    BY <1>4 DEF EnsureToken, Migrated, platformVars, TypeInv, StateOK
  <1>5. ASSUME NEW p \in Procs, MigrateTPM(p) PROVE Migrated(r)'
    BY <1>5 DEF MigrateTPM, Migrated, platformVars, TypeInv, StateOK
  <1>6. QED
    BY <1>1, <1>2, <1>3, <1>4, <1>5, PlainStep

LEMMA NobodyMigrates ==
    ASSUME TypeInv, TypeInv', StartInv, [Next]_vars, NoMigration'
    PROVE  NoMigration /\ \A p \in Procs : ~MigrateTPM(p)
  <1>1. NoMigration
    BY MigratedStays DEF NoMigration
  <1>2. ASSUME NEW p \in Procs, MigrateTPM(p) PROVE FALSE
    <2>1. key[p] # Nothing
      BY <1>2 DEF MigrateTPM, StartInv, StartOf
    <2>2. Migrated(p)'
      BY <1>2, <2>1 DEF MigrateTPM, Migrated, platformVars, TypeInv, StateOK
    <2>3. QED
      BY <2>2 DEF NoMigration
  <1>3. QED
    BY <1>1, <1>2

-----------------------------------------------------------------------------
(* The earlier key. *)

LEMMA NoKeyWrittenStays ==
    ASSUME Plain, NoKeyWritten
    PROVE  /\ NoKeyWritten'
           /\ \A f \in KeyFiles : disk'[f] = disk[f]
  BY DEF Plain, NoKeyWritten, ConfigFiles, KeyFiles

LEMMA InitRetain == Init => RetainInv
  <1> SUFFICES ASSUME Init, disk["host-identity.pem"] = LegacyKey
               PROVE  /\ disk["identity.json"] \notin Providers
                      /\ NoKeyWritten
                      /\ \A p \in Procs : /\ pc[p] \notin Seeking
                                          /\ key[p] \in {Nothing, LegacyKey}
    BY DEF RetainInv
  <1>1. PICK s \in Setups : Init!(s)
    BY DEF Init
  <1>2. disk["identity.json"] = Nothing
    BY <1>1, KeyFacts DEF FileNames
  <1>3. QED
    BY <1>1, <1>2, StateDirAssumption DEF NoKeyWritten, NoWrite, KeyFiles, Seeking

LEMMA RetainStep ==
    ASSUME TypeInv, TypeInv', StartInv, RetainInv, [Next]_vars
    PROVE  RetainInv'
  <1> SUFFICES ASSUME disk'["host-identity.pem"] = LegacyKey, NoMigration'
               PROVE  /\ disk'["identity.json"] \notin Providers
                      /\ NoKeyWritten'
                      /\ \A p \in Procs : /\ pc'[p] \notin Seeking
                                          /\ key'[p] \in {Nothing, LegacyKey}
    BY DEF RetainInv
  <1>m. NoMigration /\ \A p \in Procs : ~MigrateTPM(p)
    BY NobodyMigrates
  <1>r. disk["host-identity.pem"] = LegacyKey =>
          /\ disk["identity.json"] \notin Providers
          /\ NoKeyWritten
          /\ \A p \in Procs : /\ pc[p] \notin Seeking
                              /\ key[p] \in {Nothing, LegacyKey}
    BY <1>m DEF RetainInv
  <1>1. CASE Plain
    <2>1. disk["host-identity.pem"] = LegacyKey
      BY <1>1 DEF Plain
    <2>2. /\ NoKeyWritten'
          /\ disk'["identity.json"] = disk["identity.json"]
      BY <1>1, <1>r, <2>1, NoKeyWrittenStays DEF KeyFiles
    <2>3. QED
      BY <1>1, <1>r, <2>1, <2>2 DEF Plain, Seeking
  <1>2. ASSUME NEW p \in Procs, Start(p)
        PROVE  /\ disk'["identity.json"] \notin Providers
               /\ NoKeyWritten'
               /\ \A q \in Procs : /\ pc'[q] \notin Seeking
                                   /\ key'[q] \in {Nothing, LegacyKey}
    BY <1>2, <1>r DEF Start, NoKeyWritten, Seeking, TypeInv, StateOK
  <1>3. ASSUME NEW p \in Procs, FindKey(p)
        PROVE  /\ disk'["identity.json"] \notin Providers
               /\ NoKeyWritten'
               /\ \A q \in Procs : /\ pc'[q] \notin Seeking
                                   /\ key'[q] \in {Nothing, LegacyKey}
    <2>1. disk' = disk
      BY <1>3, FindKeySeeks DEF Seeks
    <2>2. pc[p] \notin Seeking
      BY <1>r, <2>1
    <2>3. CASE ReadMeta(p)
      BY <1>r, <2>1, <2>3
      DEF ReadMeta, NoKeyWritten, Seeking, TypeInv, StateOK
    <2>4. CASE LookForLegacy(p)
      <3>1. ReadPem(p) /\ disk["host-identity.pem"] \in Keys
        BY <2>1, <2>4, KeyFacts DEF LookForLegacy, ReadPem, CreatePem
      <3>2. HasKey(p, LegacyKey) /\ UNCHANGED writing
        BY <2>1, <3>1 DEF ReadPem
      <3>3. QED
        BY <1>r, <2>1, <3>2
        DEF HasKey, NoKeyWritten, Seeking, TypeInv, StateOK
    <2>5. QED
      BY <1>3, <2>2, <2>3, <2>4
      DEF FindKey, OpenKey, CreateKey, FallBack, Seeking
  <1>4. ASSUME NEW p \in Procs, EnsureToken(p)
        PROVE  /\ disk'["identity.json"] \notin Providers
               /\ NoKeyWritten'
               /\ \A q \in Procs : /\ pc'[q] \notin Seeking
                                   /\ key'[q] \in {Nothing, LegacyKey}
    <2>1. NoKeyWritten'
      BY <1>4, <1>r
      DEF EnsureToken, Writes, NoKeyWritten, KeyFiles, TypeInv, FilesOK
    <2>2. QED
      BY <1>4, <1>r, <2>1 DEF EnsureToken, Seeking, TypeInv, StateOK
  <1>5. QED
    BY <1>m, <1>1, <1>2, <1>3, <1>4, PlainStep

LEMMA StartInvariant == Spec => [](TypeInv /\ StartInv)
  <1>1. Init => TypeInv /\ StartInv
    BY InitTypes, InitStart
  <1>2. TypeInv /\ StartInv /\ [Next]_vars => (TypeInv /\ StartInv)'
    BY TypeStep, StartStep
  <1>3. QED
    BY <1>1, <1>2, PTL DEF Spec

\* A workstation set up by an earlier version keeps the key its phones know,
\* whatever key stores Windows has and however many starts, kills and failing
\* writes there are, until its owner migrates it.
THEOREM EarlierKeyKept == Spec => []KeyRetained
  <1>1. TypeInv /\ TypeInv' /\ StartInv /\ RetainInv /\ [Next]_vars => RetainInv'
    BY RetainStep
  <1>2. RetainInv => KeyRetained
    BY DEF RetainInv, KeyRetained, NoMigration
  <1>3. QED
    BY <1>1, <1>2, InitRetain, StartInvariant, PTL DEF Spec

-----------------------------------------------------------------------------
(* Late starts. *)

LEMMA HostKeyStays ==
    ASSUME \A f \in KeyFiles : disk'[f] = disk[f], UNCHANGED <<windows, cng>>
    PROVE  HostKey' = HostKey
  BY DEF HostKey, KeyFiles

LEMMA TokenSettledStays ==
    ASSUME TypeInv, StartInv, [Next]_vars, TokenSettled
    PROVE  TokenSettled' /\ disk'["control.token"] = disk["control.token"]
  <1>t. /\ disk["control.token"] \in Makers
        /\ \A w \in Writers : writing[w].file # "control.token"
    BY DEF TokenSettled, BeingWritten
  <1>s. SUFFICES /\ disk'["control.token"] = disk["control.token"]
                 /\ \A w \in Writers : writing'[w].file # "control.token"
    BY <1>t DEF TokenSettled, BeingWritten
  <1>1. CASE Plain
    BY <1>1, <1>t DEF Plain, ConfigFiles
  <1>2. ASSUME NEW p \in Procs, Start(p) \/ MigrateTPM(p)
        PROVE  /\ disk'["control.token"] = disk["control.token"]
               /\ \A w \in Writers : writing'[w].file # "control.token"
    BY <1>2, <1>t DEF Start, MigrateTPM
  <1>3. ASSUME NEW p \in Procs, FindKey(p)
        PROVE  /\ disk'["control.token"] = disk["control.token"]
               /\ \A w \in Writers : writing'[w].file # "control.token"
    BY <1>3, <1>t, FindKeySeeks DEF Seeks, KeyFiles
  <1>4. ASSUME NEW p \in Procs, EnsureToken(p)
        PROVE  /\ disk'["control.token"] = disk["control.token"]
               /\ \A w \in Writers : writing'[w].file # "control.token"
    BY <1>4, <1>t DEF EnsureToken
  <1>5. QED
    BY <1>1, <1>2, <1>3, <1>4, PlainStep

\* Once settled, the key of the host stays, and a start that looks for its key
\* finds that one or none.
LEMMA SettledStays ==
    ASSUME TypeInv, TypeInv', StartInv, [Next]_vars, NoMigration', Settled
    PROVE  /\ Settled' /\ HostKey' = HostKey
           /\ \A p \in Procs : key'[p] \in {key[p], HostKey}
  <1>m. \A p \in Procs : ~MigrateTPM(p)
    BY NobodyMigrates
  <1>1. CASE Plain
    <2>1. NoKeyWritten' /\ \A f \in KeyFiles : disk'[f] = disk[f]
      BY <1>1, NoKeyWrittenStays DEF Settled
    <2>2. HostKey' = HostKey
      BY <1>1, <2>1, HostKeyStays DEF Plain
    <2>3. \A p \in Procs : pc'[p] = pc[p] \/ pc'[p] \notin Seeking \cup {"legacy"}
      BY <1>1 DEF Plain, Seeking
    <2>4. \A p \in Procs : key'[p] = key[p]
      BY <1>1 DEF Plain
    <2>5. UNCHANGED windows /\ disk'["identity.json"] = disk["identity.json"]
      BY <1>1, <2>1 DEF Plain, KeyFiles
    <2>6. QED
      BY <2>1, <2>2, <2>3, <2>4, <2>5 DEF Settled
  <1>2. ASSUME NEW p \in Procs, Start(p)
        PROVE  /\ Settled' /\ HostKey' = HostKey
               /\ \A q \in Procs : key'[q] \in {key[q], HostKey}
    <2>1. UNCHANGED <<windows, disk, writing, cng, key>>
      BY <1>2 DEF Start, platformVars
    <2>2. HostKey' = HostKey /\ NoKeyWritten'
      BY <2>1 DEF HostKey, Settled, NoKeyWritten
    <2>3. \A q \in Procs : \/ pc'[q] = pc[q]
                           \/ pc'[q] \notin Seeking
                              /\ (windows => pc'[q] # "legacy")
      BY <1>2 DEF Start, Seeking, TypeInv, StateOK
    <2>4. QED
      BY <2>1, <2>2, <2>3 DEF Settled
  <1>3. ASSUME NEW p \in Procs, FindKey(p)
        PROVE  /\ Settled' /\ HostKey' = HostKey
               /\ \A q \in Procs : key'[q] \in {key[q], HostKey}
    <2>1. /\ ReadMeta(p) \/ LookForLegacy(p)
          /\ UNCHANGED <<windows, disk, cng>>
      BY <1>3 DEF FindKey, OpenKey, CreateKey, FallBack, Settled, Seeking,
                  ReadMeta, LookForLegacy, platformVars
    <2>2. HostKey' = HostKey
      BY <2>1 DEF HostKey
    <2>3. /\ UNCHANGED writing
          /\ \/ HasKey(p, HostKey)
             \/ /\ UNCHANGED key
                /\ \/ pc' = [pc EXCEPT ![p] = "ended"]
                   \/ /\ pc' = [pc EXCEPT ![p] = "legacy"]
                      /\ disk["identity.json"] \notin Providers
      <3>1. CASE ReadMeta(p)
        <4>1. windows
          BY <3>1 DEF ReadMeta, StartInv, StartOf
        <4>2. QED
          BY <3>1, <4>1 DEF ReadMeta, HostKey
      <3>2. CASE LookForLegacy(p)
        <4>1. HostKey = disk["host-identity.pem"] /\ HostKey \in Keys
          BY <3>2 DEF LookForLegacy, HostKey, Settled
        <4>2. ReadPem(p)
          BY <3>2, <4>1, KeyFacts DEF LookForLegacy, CreatePem
        <4>3. QED
          BY <4>1, <4>2 DEF ReadPem
      <3>3. QED
        BY <2>1, <3>1, <3>2
    <2>4. /\ \A q \in Procs : key'[q] \in {key[q], HostKey}
          /\ \A q \in Procs : \/ pc'[q] = pc[q]
                              \/ pc'[q] \in {"config", "ended"}
                              \/ /\ pc'[q] = "legacy"
                                 /\ disk["identity.json"] \notin Providers
      BY <2>3 DEF HasKey, TypeInv, StateOK
    <2>5. NoKeyWritten'
      BY <2>3 DEF Settled, NoKeyWritten
    <2>6. QED
      BY <2>1, <2>2, <2>4, <2>5 DEF Settled, Seeking
  <1>4. ASSUME NEW p \in Procs, EnsureToken(p)
        PROVE  /\ Settled' /\ HostKey' = HostKey
               /\ \A q \in Procs : key'[q] \in {key[q], HostKey}
    <2>1. NoKeyWritten'
      BY <1>4
      DEF EnsureToken, Writes, Settled, NoKeyWritten, KeyFiles, TypeInv, FilesOK
    <2>2. UNCHANGED <<windows, disk, cng, key>>
          /\ pc' = [pc EXCEPT ![p] = "command"]
      BY <1>4 DEF EnsureToken, platformVars
    <2>3. HostKey' = HostKey
      BY <2>2 DEF HostKey
    <2>4. QED
      BY <2>1, <2>2, <2>3 DEF Settled, Seeking, TypeInv, StateOK
  <1>5. QED
    BY <1>m, <1>1, <1>2, <1>3, <1>4, PlainStep

LEMMA SettledAtStart == ASSUME TypeInv, KeySettled, StartInv PROVE Settled
  <1>1. ASSUME NEW w \in Writers, writing[w].file \in KeyFiles PROVE FALSE
    <2>1. PICK p \in Procs : w = Main(p) \/ w = Handler(p)
      BY DEF Writers, Main, Handler
    <2>2. w = Main(p)
      BY <1>1, <2>1 DEF StartInv, ConfigFiles, KeyFiles
    <2>3. QED
      BY <1>1, <2>2 DEF KeySettled, Choosing, KeyFiles
  <1>2. QED
    BY <1>1 DEF KeySettled, Choosing, Settled, NoKeyWritten, Seeking

\* Only a start makes a process late, and only ensureControlToken gives it a
\* token: the one of the file, if there is one.
LEMMA LateAndTokens ==
    ASSUME TypeInv, StartInv, [Next]_vars, NEW p \in Procs
    PROVE  /\ \/ late'[p] = late[p]
              \/ /\ Start(p)
                 /\ late'[p] => KeySettled /\ TokenSettled
           /\ \/ token'[p] = token[p]
              \/ disk["control.token"] \in Makers => token'[p] = disk["control.token"]
  <1>1. CASE Plain
    BY <1>1 DEF Plain
  <1>2. ASSUME NEW q \in Procs, Start(q)
        PROVE  /\ \/ late'[p] = late[p]
                  \/ /\ Start(p)
                     /\ late'[p] => KeySettled /\ TokenSettled
               /\ token'[p] = token[p]
    BY <1>2 DEF Start, TypeInv, StateOK
  <1>3. ASSUME NEW q \in Procs, FindKey(q) \/ MigrateTPM(q)
        PROVE  UNCHANGED <<late, token>>
    BY <1>3, FindKeySeeks DEF Seeks, MigrateTPM
  <1>4. ASSUME NEW q \in Procs, EnsureToken(q)
        PROVE  /\ late' = late
               /\ \/ token'[p] = token[p]
                  \/ disk["control.token"] \in Makers =>
                        token'[p] = disk["control.token"]
    BY <1>4 DEF EnsureToken, TypeInv, StateOK
  <1>5. QED
    BY <1>1, <1>2, <1>3, <1>4, PlainStep

LEMMA LateStep ==
    ASSUME TypeInv, TypeInv', StartInv, LateInv, [Next]_vars
    PROVE  LateInv'
  <1> SUFFICES ASSUME NEW p \in Procs, late'[p]
               PROVE  /\ TokenSettled'
                      /\ token'[p] \in {Nothing, disk'["control.token"]}
                      /\ NoMigration' => Settled' /\ key'[p] \in {Nothing, HostKey'}
    BY DEF LateInv
  <1>1. /\ TokenSettled
        /\ token[p] \in {Nothing, disk["control.token"]}
        /\ NoMigration' => Settled /\ key[p] \in {Nothing, HostKey}
    <2>1. CASE late[p]
      BY <2>1, NobodyMigrates DEF LateInv
    <2>2. CASE ~late[p]
      <3>1. Start(p) /\ KeySettled /\ TokenSettled
        BY <2>2, LateAndTokens
      <3>2. token[p] = Nothing /\ key[p] = Nothing
        BY <3>1 DEF Start, StartInv, StartOf
      <3>3. QED
        BY <3>1, <3>2, SettledAtStart
    <2>3. QED
      BY <2>1, <2>2
  <1>2. TokenSettled' /\ disk'["control.token"] = disk["control.token"]
    BY <1>1, TokenSettledStays
  <1>3. token'[p] \in {Nothing, disk["control.token"]}
    BY <1>1, LateAndTokens DEF TokenSettled
  <1>4. ASSUME NoMigration'
        PROVE  Settled' /\ key'[p] \in {Nothing, HostKey'}
    BY <1>1, <1>4, SettledStays
  <1>5. QED
    BY <1>2, <1>3, <1>4

LEMMA InitLate == Init => LateInv
  <1> SUFFICES ASSUME Init PROVE LateInv
    OBVIOUS
  <1>1. PICK s \in Setups : Init!(s)
    BY DEF Init
  <1>2. QED
    BY <1>1 DEF LateInv

\* However many first starts are still under way beside it, and whatever was
\* killed or could not be written, a process that starts once a key and a token
\* are there keeps to the token that local clients read from the file and, short
\* of a migration, to the key that later starts find.
THEOREM LateStartsAgree == Spec => []LateStartersAgree
  <1>1. TypeInv /\ TypeInv' /\ StartInv /\ LateInv /\ [Next]_vars => LateInv'
    BY LateStep
  <1>2. LateInv => LateStartersAgree
    BY DEF LateInv, LateStartersAgree, NoMigration
  <1>3. QED
    BY <1>1, <1>2, InitLate, StartInvariant, PTL DEF Spec
=============================================================================
