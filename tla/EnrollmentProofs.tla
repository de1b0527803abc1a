-------------------------- MODULE EnrollmentProofs --------------------------
(***************************************************************************)
(* Proofs about the pairings: the types, that phones become known through  *)
(* a pairing window only, that config.json says what was intended unless a *)
(* save was at risk, and that a portable host lets in one phone; for any   *)
(* number of processes and phones.                                         *)
(***************************************************************************)
EXTENDS Enrollment, FiniteSetTheorems, TLAPS

AnyText == Providers \cup Keys \cup Makers \cup Configs \cup {Nothing, Empty, Torn}

(* The files: texts of their kind, and identity.json only names key stores that
   have a key. *)
FilesOK ==
    /\ disk \in [FileNames -> AnyText]
    /\ \A f \in FileNames : disk[f] \in Texts(f) \cup {Nothing, Empty, Torn}
    /\ writing \in [Writers -> [file : FileNames \cup {"none"}, text : AnyText,
                                cut : BOOLEAN]]
    /\ \A w \in Writers : Busy(w) =>
          /\ writing[w].file \in FileNames
          /\ writing[w].text \in Texts(writing[w].file)
          /\ writing[w].cut \in BOOLEAN
    /\ \A m \in Providers : disk["identity.json"] = m => cng[m] \in Makers
    /\ \A w \in Writers : writing[w].file = "identity.json" =>
          cng[writing[w].text] \in Makers

StateOK ==
    /\ windows \in BOOLEAN
    /\ usable \subseteq Providers
    /\ command \in [Procs -> CommandNames]
    /\ pc \in [Procs -> {"idle", "meta", "legacy", "open", "create", "fallback",
                         "config", "token", "command", "listen", "serving",
                         "exiting", "ended"}]
    /\ trying \in [Procs -> Providers]
    /\ cng \in [Providers -> Makers \cup {Nothing}]
    /\ key \in [Procs -> Keys \cup {Nothing}]
    /\ token \in [Procs -> Makers \cup {Nothing}]
    /\ late \in [Procs -> BOOLEAN]

HostOK ==
    /\ mem \in [Procs -> Configs]
    /\ pairOnce \in [Procs -> BOOLEAN]
    /\ expired \in BOOLEAN
    /\ adb \in Places
    /\ admitted \in [Procs -> SUBSET Phones]
    /\ intended \in SUBSET Phones
    /\ fresh \in [Procs -> BOOLEAN]
    /\ excused \in BOOLEAN

TypeInv == FilesOK /\ StateOK /\ HostOK

LEMMA TypesOfTypeInv == TypeInv => TypeOK
  BY DEF TypeInv, FilesOK, StateOK, HostOK, TypeOK

-----------------------------------------------------------------------------
(* The initial states, and what the files are made of. *)

LEMMA FileFacts ==
  /\ \A p \in Procs : Main(p) \in Writers /\ Handler(p) \in Writers
  /\ \A f \in FileNames : Texts(f) \subseteq AnyText
  /\ NoWrite \in [file : FileNames \cup {"none"}, text : AnyText, cut : BOOLEAN]
  /\ \A p \in Procs : ConfigFile(p) \in FileNames /\ Texts(ConfigFile(p)) = Configs
  /\ NoConfig \in Configs
  /\ FixedLength \subseteq FileNames
  BY DEF Main, Handler, Writers, Texts, AnyText, FileNames, NoWrite, ConfigFile,
     NoConfig, Configs, Names, FixedLength

LEMMA InitTypes == Init => TypeInv
  <1> SUFFICES ASSUME Init PROVE TypeInv
    OBVIOUS
  <1> PICK s \in Setups : Init!(s)
    BY DEF Init
  <1> USE StateDirAssumption, EnrollmentAssumption, FileFacts
  <1>1. s \in SetupRec
    OBVIOUS
  <1>2. FilesOK
    <2>1. \A f \in FileNames : disk[f] \in Texts(f) \cup {Nothing}
      BY <1>1 DEF SetupRec, Texts, FileNames, Providers, Keys, Makers, LegacyKey
    <2>2. DOMAIN disk = FileNames
      OBVIOUS
    <2>3. disk \in [FileNames -> AnyText]
      BY <2>1, <2>2, FileFacts DEF AnyText
    <2>4. \A w \in Writers : writing[w] = NoWrite
      OBVIOUS
    <2>5. NoWrite.file \notin FileNames
      BY DEF NoWrite, FileNames
    <2>6. \A m \in Providers : disk["identity.json"] = m => cng[m] \in Makers
      BY DEF Providers, FileNames, Makers
    <2> QED
      BY <2>1, <2>3, <2>4, <2>5, <2>6 DEF FilesOK, Busy, FileNames
  <1>3. StateOK
    BY <1>1 DEF StateOK, SetupRec, Makers, Providers
  <1>4. HostOK
    <2>1. intended \subseteq Phones
      BY <1>1 DEF SetupRec, Configs
    <2>2. 0 \in Places
      BY DEF Places
    <2> QED
      BY <2>1, <2>2 DEF HostOK
  <1> QED
    BY <1>2, <1>3, <1>4 DEF TypeInv

-----------------------------------------------------------------------------
(* Types: the writers of files. *)

LEMMA TruncateTypes ==
  ASSUME TypeInv, NEW w \in Writers, Truncate(w)
  PROVE  FilesOK' /\ StateOK'
  <1> USE FileFacts DEF TypeInv, FilesOK, Truncate
  <1>1. writing[w].file \in FileNames
    OBVIOUS
  <1>2. disk' = [disk EXCEPT ![writing[w].file] = Empty] /\ Empty \in AnyText
    BY DEF AnyText
  <1>3. writing' = [writing EXCEPT ![w] = [file |-> writing[w].file,
                        text |-> writing[w].text, cut |-> TRUE]]
    OBVIOUS
  <1>4. UNCHANGED <<platformVars, loadVars>>
    OBVIOUS
  <1>5. FilesOK'
    <2>1. disk' \in [FileNames -> AnyText]
      BY <1>1, <1>2
    <2>2. \A f \in FileNames : disk'[f] \in Texts(f) \cup {Nothing, Empty, Torn}
      BY <1>1, <1>2
    <2>3. \A v \in Writers : writing'[v].file = writing[v].file
                           /\ writing'[v].text = writing[v].text
                           /\ writing'[v].cut \in BOOLEAN
      <3>1. writing'[w] = [file |-> writing[w].file, text |-> writing[w].text,
                           cut |-> TRUE]
        BY <1>3
      <3>2. \A v \in Writers \ {w} : writing'[v] = writing[v] /\ writing[v].cut \in BOOLEAN
        BY <1>3
      <3> QED
        BY <3>1, <3>2
    <2>4. \A v \in Writers : Busy(v)' => Busy(v)
      <3>1. Busy(w)
        OBVIOUS
      <3>2. \A v \in Writers \ {w} : writing'[v] = writing[v]
        BY <1>3
      <3> QED
        BY <3>1, <3>2 DEF Busy
    <2>5. writing' \in [Writers -> [file : FileNames \cup {"none"}, text : AnyText,
                                   cut : BOOLEAN]]
      <3>1. [file |-> writing[w].file, text |-> writing[w].text, cut |-> TRUE] \in
                [file : FileNames \cup {"none"}, text : AnyText, cut : BOOLEAN]
        BY <1>1
      <3> QED
        BY <1>3, <3>1
    <2>6. \A m \in Providers : disk'["identity.json"] = m => cng'[m] \in Makers
      BY <1>1, <1>2, <1>4, StateDirAssumption DEF loadVars, FileNames
    <2>7. \A v \in Writers : writing'[v].file = "identity.json" =>
              cng'[writing'[v].text] \in Makers
      BY <2>3, <1>4 DEF loadVars
    <2> QED
      BY <2>1, <2>2, <2>3, <2>4, <2>5, <2>6, <2>7 DEF FilesOK
  <1>6. StateOK'
    BY <1>4 DEF StateOK, platformVars, loadVars
  <1> QED
    BY <1>5, <1>6

\* Any write to the disk of a text that is right for the file, and the end of any
\* write in progress.
LEMMA DiskTypes ==
  ASSUME TypeInv,
         NEW f \in FileNames, NEW text \in Texts(f) \cup {Nothing, Empty, Torn},
         disk' = disk \/ disk' = [disk EXCEPT ![f] = text],
         f = "identity.json" /\ text \in Providers => cng[text] \in Makers,
         writing' \in [Writers -> [file : FileNames \cup {"none"}, text : AnyText,
                                  cut : BOOLEAN]],
         \A v \in Writers : writing'[v] \in {writing[v], NoWrite},
         cng' = cng
  PROVE  FilesOK'
  <1> USE FileFacts DEF TypeInv, FilesOK
  <1>1. disk' \in [FileNames -> AnyText]
    BY DEF AnyText
  <1>2. \A g \in FileNames : disk'[g] \in Texts(g) \cup {Nothing, Empty, Torn}
    OBVIOUS
  <1>3. \A v \in Writers : writing'[v].file # "none" => writing'[v] = writing[v]
    BY DEF NoWrite
  <1>4. \A v \in Writers : Busy(v)' => writing'[v] = writing[v]
    BY DEF Busy
  <1>5. \A m \in Providers : disk'["identity.json"] = m => cng'[m] \in Makers
    BY StateDirAssumption DEF FileNames
  <1>6. \A v \in Writers : writing'[v].file = "identity.json" =>
              cng'[writing'[v].text] \in Makers
    BY <1>3
  <1> QED
    BY <1>1, <1>2, <1>4, <1>5, <1>6 DEF FilesOK, Busy

LEMMA FillTypes ==
  ASSUME TypeInv, NEW w \in Writers, Fill(w)
  PROVE  FilesOK' /\ StateOK'
  <1> USE FileFacts
  <1>1. writing[w].file \in FileNames /\ writing[w].text \in Texts(writing[w].file)
    BY DEF TypeInv, FilesOK, Fill, Busy, NoWrite
  <1>2. writing[w].file = "identity.json" => cng[writing[w].text] \in Makers
    BY DEF TypeInv, FilesOK
  <1>3. \A v \in Writers : writing'[v] \in {writing[v], NoWrite}
    BY DEF TypeInv, FilesOK, Fill
  <1>4. writing' \in [Writers -> [file : FileNames \cup {"none"}, text : AnyText,
                                  cut : BOOLEAN]]
    BY DEF TypeInv, FilesOK, Fill
  <1>5. UNCHANGED <<platformVars, loadVars>>
    BY DEF Fill
  <1>6. StateOK'
    BY <1>5 DEF TypeInv, StateOK, platformVars, loadVars
  <1>7. CASE disk' = [disk EXCEPT ![writing[w].file] = writing[w].text]
    BY <1>1, <1>2, <1>3, <1>4, <1>5, <1>6, <1>7, DiskTypes DEF loadVars
  <1>8. CASE disk' = [disk EXCEPT ![writing[w].file] = Torn]
    BY <1>1, <1>3, <1>4, <1>5, <1>6, <1>8, DiskTypes, StateDirAssumption DEF loadVars
  <1> QED
    BY <1>7, <1>8 DEF Fill

LEMMA WriteFailsTypes ==
  ASSUME TypeInv, NEW w \in Writers, WriteFails(w)
  PROVE  FilesOK' /\ StateOK'
  <1> USE FileFacts
  <1>1. writing[w].file \in FileNames
    BY DEF TypeInv, FilesOK, WriteFails
  <1>2. \A v \in Writers : writing'[v] \in {writing[v], NoWrite}
    BY DEF TypeInv, FilesOK, WriteFails
  <1>3. writing' \in [Writers -> [file : FileNames \cup {"none"}, text : AnyText,
                                  cut : BOOLEAN]]
    BY DEF TypeInv, FilesOK, WriteFails
  <1>4. disk' = disk \/ disk' = [disk EXCEPT ![writing[w].file] = Torn]
    BY DEF WriteFails
  <1>5. FilesOK'
    BY <1>1, <1>2, <1>3, <1>4, DiskTypes, StateDirAssumption DEF WriteFails
  <1>6. StateOK'
    BY DEF TypeInv, StateOK, WriteFails, platformVars
  <1> QED
    BY <1>5, <1>6

LEMMA KilledTypes ==
  ASSUME TypeInv, NEW p \in Procs, Killed(p)
  PROVE  FilesOK' /\ StateOK'
  <1> USE FileFacts
  <1>1. \A v \in Writers : writing'[v] \in {writing[v], NoWrite}
    BY DEF Killed
  <1>2. writing' \in [Writers -> [file : FileNames \cup {"none"}, text : AnyText,
                                  cut : BOOLEAN]]
    BY DEF TypeInv, FilesOK, Killed
  <1>3. FilesOK'
    BY <1>1, <1>2, DiskTypes, StateDirAssumption DEF Killed, FileNames
  <1>4. StateOK'
    BY DEF TypeInv, StateOK, Killed, platformVars
  <1> QED
    BY <1>3, <1>4

\* os.WriteFile begins, and a key may have been made.
LEMMA WritesTypes ==
  ASSUME TypeInv, NEW w \in Writers, NEW f \in FileNames, NEW text \in Texts(f),
         Writes(w, f, text), disk' = disk,
         \A m \in Providers : cng[m] \in Makers => cng'[m] \in Makers,
         f = "identity.json" => cng'[text] \in Makers
  PROVE  FilesOK'
  <1> USE FileFacts DEF TypeInv, FilesOK
  <1>1. writing' = [writing EXCEPT ![w] = [file |-> f, text |-> text, cut |-> FALSE]]
    BY DEF Writes
  <1>2. writing' \in [Writers -> [file : FileNames \cup {"none"}, text : AnyText,
                                  cut : BOOLEAN]]
    BY <1>1
  <1>3. \A v \in Writers \ {w} : writing'[v] = writing[v]
    BY <1>1
  <1>4. writing'[w] = [file |-> f, text |-> text, cut |-> FALSE]
    BY <1>1
  <1>5. \A v \in Writers \ {w} : Busy(v)' => Busy(v)
    BY <1>3 DEF Busy
  <1>6. \A v \in Writers : writing[v].file = "identity.json" =>
              writing[v].text \in Providers
    BY DEF Busy, NoWrite, Texts
  <1>7. \A v \in Writers : writing'[v].file = "identity.json" =>
              cng'[writing'[v].text] \in Makers
    BY <1>3, <1>4, <1>6
  <1>8. \A m \in Providers : disk'["identity.json"] = m => cng'[m] \in Makers
    OBVIOUS
  <1>9. \A v \in Writers : Busy(v)' =>
          /\ writing'[v].file \in FileNames
          /\ writing'[v].text \in Texts(writing'[v].file)
          /\ writing'[v].cut \in BOOLEAN
    <2>1. ASSUME NEW v \in Writers \ {w}, Busy(v)'
          PROVE  /\ writing'[v].file \in FileNames
                 /\ writing'[v].text \in Texts(writing'[v].file)
                 /\ writing'[v].cut \in BOOLEAN
      BY <1>3, <1>5, <2>1
    <2>2. /\ writing'[w].file \in FileNames
          /\ writing'[w].text \in Texts(writing'[w].file)
          /\ writing'[w].cut \in BOOLEAN
      BY <1>4
    <2> QED
      BY <2>1, <2>2
  <1> QED
    BY <1>2, <1>7, <1>8, <1>9 DEF FilesOK, Busy

LEMMA QuietTypes ==
  ASSUME TypeInv, disk' = disk, writing' = writing, cng' = cng
  PROVE  FilesOK'
  BY DEF TypeInv, FilesOK, Busy

-----------------------------------------------------------------------------
(* Types: a process starts. *)

LEMMA KeysOfStores ==
  ASSUME TypeInv, NEW m \in Providers, NEW k \in Makers
  PROVE  [store |-> m, maker |-> k] \in Keys
  BY DEF Keys

LEMMA HasKeyTypes ==
  ASSUME TypeInv, NEW p \in Procs, NEW k \in Keys, HasKey(p, k),
         UNCHANGED <<platformVars, trying, token, late>>,
         cng' \in [Providers -> Makers \cup {Nothing}]
  PROVE  StateOK'
  BY DEF TypeInv, StateOK, HasKey, platformVars

LEMMA PemTypes ==
  ASSUME TypeInv, NEW p \in Procs, ReadPem(p) \/ CreatePem(p),
         UNCHANGED <<platformVars, disk, trying, cng, token, late>>
  PROVE  FilesOK' /\ StateOK'
  <1> USE FileFacts
  <1>1. CASE ReadPem(p)
    <2>1. FilesOK'
      BY <1>1, QuietTypes DEF ReadPem
    <2>2. CASE HasKey(p, disk["host-identity.pem"]) /\ disk["host-identity.pem"] \in Keys
      <3>1. UNCHANGED <<platformVars, trying, token, late>>
        OBVIOUS
      <3>2. cng' \in [Providers -> Makers \cup {Nothing}]
        BY DEF TypeInv, StateOK
      <3> QED
        BY <2>1, <2>2, <3>1, <3>2, HasKeyTypes
    <2>3. CASE pc' = [pc EXCEPT ![p] = "ended"] /\ UNCHANGED key
      BY <2>1, <2>3 DEF TypeInv, StateOK, platformVars
    <2> QED
      BY <1>1, <2>1, <2>2, <2>3 DEF ReadPem
  <1>2. CASE CreatePem(p)
    <2>1. [store |-> "pem", maker |-> p] \in Keys
      BY DEF Keys, Makers
    <2>2. "host-identity.pem" \in FileNames /\ Texts("host-identity.pem") = Keys
      BY DEF FileNames, Texts
    <2>3. FilesOK'
      BY <1>2, <2>1, <2>2, WritesTypes DEF CreatePem
    <2>4. StateOK'
      BY <1>2, <2>1, HasKeyTypes DEF CreatePem, TypeInv, StateOK
    <2> QED
      BY <2>3, <2>4
  <1> QED
    BY <1>1, <1>2

LEMMA StoredTypes ==
  ASSUME TypeInv, NEW p \in Procs, NEW maker \in Makers, Stored(p, maker),
         UNCHANGED <<platformVars, disk, token, late>>,
         \/ cng' = cng /\ cng[trying[p]] = maker
         \/ cng' = [cng EXCEPT ![trying[p]] = maker]
  PROVE  FilesOK' /\ StateOK'
  <1> USE FileFacts
  <1>1. trying[p] \in Providers /\ Providers = Texts("identity.json")
        /\ "identity.json" \in FileNames
    BY DEF TypeInv, StateOK, Texts, FileNames
  <1>2. cng' \in [Providers -> Makers \cup {Nothing}] /\ cng'[trying[p]] \in Makers
        /\ \A m \in Providers : cng[m] \in Makers => cng'[m] \in Makers
    BY <1>1 DEF TypeInv, StateOK
  <1>3. FilesOK'
    <2>1. Writes(Main(p), "identity.json", trying[p])
      BY DEF Stored
    <2> QED
      BY <1>1, <1>2, <2>1, WritesTypes
  <1>4. CASE HasKey(p, [store |-> trying[p], maker |-> maker])
    <2>1. UNCHANGED trying
      BY DEF Stored
    <2>2. [store |-> trying[p], maker |-> maker] \in Keys
      BY <1>1, KeysOfStores
    <2>3. StateOK'
      BY <1>2, <1>4, <2>1, <2>2, HasKeyTypes
    <2> QED
      BY <1>3, <2>3
  <1>5. CASE pc' = [pc EXCEPT ![p] = "exiting"] /\ UNCHANGED key
    BY <1>2, <1>3, <1>5 DEF Stored, TypeInv, StateOK, platformVars
  <1> QED
    BY <1>4, <1>5 DEF Stored

LEMMA NotStoredTypes ==
  ASSUME TypeInv, NEW p \in Procs, NotStored(p),
         UNCHANGED <<platformVars, disk, cng, token, late>>
  PROVE  FilesOK' /\ StateOK'
  <1>1. FilesOK'
    BY QuietTypes DEF NotStored
  <1>2. pc' \in [Procs -> {"idle", "meta", "legacy", "open", "create", "fallback",
                         "config", "token", "command", "listen", "serving",
                         "exiting", "ended"}]
    BY DEF NotStored, TypeInv, StateOK
  <1>3. trying' \in [Procs -> Providers] /\ key' = key
    BY DEF NotStored, TypeInv, StateOK, Providers
  <1> QED
    BY <1>1, <1>2, <1>3 DEF TypeInv, StateOK, platformVars

LEMMA FindKeyTypes ==
  ASSUME TypeInv, NEW p \in Procs, FindKey(p)
  PROVE  FilesOK' /\ StateOK'
  <1>1. CASE ReadMeta(p)
    <2>1. FilesOK'
      BY <1>1, QuietTypes DEF ReadMeta
    <2>2. UNCHANGED <<platformVars, disk, writing, trying, cng, token, late>>
      BY <1>1 DEF ReadMeta
    <2>3. PICK m : m = disk["identity.json"]
      OBVIOUS
    <2>4. CASE m \in Providers /\ HasKey(p, [store |-> m, maker |-> cng[m]])
      <3>1. cng[m] \in Makers
        BY <2>3, <2>4 DEF TypeInv, FilesOK
      <3>2. [store |-> m, maker |-> cng[m]] \in Keys
        BY <2>4, <3>1, KeysOfStores
      <3> QED
        BY <2>1, <2>2, <2>4, <3>2, HasKeyTypes DEF TypeInv, StateOK
    <2>5. CASE pc' \in {[pc EXCEPT ![p] = "ended"], [pc EXCEPT ![p] = "legacy"]}
               /\ UNCHANGED key
      BY <2>1, <2>2, <2>5 DEF TypeInv, StateOK, platformVars
    <2> QED
      BY <1>1, <2>3, <2>4, <2>5 DEF ReadMeta
  <1>2. CASE LookForLegacy(p)
    <2>1. CASE (ReadPem(p) \/ CreatePem(p)) /\ UNCHANGED trying
      BY <1>2, <2>1, PemTypes DEF LookForLegacy
    <2>2. CASE pc' = [pc EXCEPT ![p] = "open"]
               /\ trying' = [trying EXCEPT ![p] = "tpm"] /\ UNCHANGED <<writing, key>>
      <3>1. FilesOK'
        BY <1>2, <2>2, QuietTypes DEF LookForLegacy
      <3>2. StateOK'
        BY <1>2, <2>2 DEF LookForLegacy, TypeInv, StateOK, Providers, platformVars
      <3> QED
        BY <3>1, <3>2
    <2> QED
      BY <1>2, <2>1, <2>2 DEF LookForLegacy
  <1>3. CASE OpenKey(p)
    <2>1. UNCHANGED <<platformVars, disk, cng, token, late>>
      BY <1>3 DEF OpenKey
    <2>2. CASE NotStored(p)
      BY <2>1, <2>2, NotStoredTypes
    <2>3. CASE cng[trying[p]] # Nothing /\ Stored(p, cng[trying[p]])
      <3>1. cng[trying[p]] \in Makers
        BY <2>3 DEF TypeInv, StateOK
      <3> QED
        BY <2>1, <2>3, <3>1, StoredTypes
    <2>4. CASE pc' = [pc EXCEPT ![p] = "create"] /\ UNCHANGED <<writing, trying, key>>
      <3>1. FilesOK'
        BY <2>1, <2>4, QuietTypes
      <3>2. StateOK'
        BY <2>1, <2>4 DEF TypeInv, StateOK, platformVars
      <3> QED
        BY <3>1, <3>2
    <2> QED
      BY <1>3, <2>2, <2>3, <2>4 DEF OpenKey
  <1>4. CASE CreateKey(p)
    <2>1. CASE Stored(p, p) /\ cng' = [cng EXCEPT ![trying[p]] = p]
      BY <1>4, <2>1, StoredTypes DEF CreateKey, Makers
    <2>2. CASE NotStored(p) /\ UNCHANGED cng
      BY <1>4, <2>2, NotStoredTypes DEF CreateKey
    <2> QED
      BY <1>4, <2>1, <2>2 DEF CreateKey
  <1>5. CASE FallBack(p)
    BY <1>5, PemTypes DEF FallBack
  <1> QED
    BY <1>1, <1>2, <1>3, <1>4, <1>5 DEF FindKey

LEMMA StartUpTypes ==
  ASSUME TypeInv, NEW p \in Procs, StartUp(p)
  PROVE  FilesOK' /\ StateOK'
  <1> USE FileFacts
  <1>1. CASE Start(p)
    <2>1. FilesOK'
      BY <1>1, QuietTypes DEF Start
    <2>2. late' \in [Procs -> BOOLEAN]
      BY <1>1 DEF Start, TypeInv, StateOK, KeySettled, TokenSettled
    <2>3. StateOK'
      BY <1>1, <2>2 DEF Start, TypeInv, StateOK, platformVars
    <2> QED
      BY <2>1, <2>3
  <1>2. CASE EnsureToken(p)
    <2>1. "control.token" \in FileNames /\ Texts("control.token") = Makers /\ p \in Makers
      BY DEF FileNames, Texts, Makers
    <2>2. UNCHANGED <<disk, cng>>
      BY <1>2 DEF EnsureToken
    <2>3. UNCHANGED writing \/ Writes(Main(p), "control.token", p)
      BY <1>2 DEF EnsureToken
    <2>4. FilesOK'
      BY <2>1, <2>2, <2>3, QuietTypes, WritesTypes
    <2>5. token' \in [Procs -> Makers \cup {Nothing}]
      BY <1>2, <2>1 DEF EnsureToken, TypeInv, StateOK
    <2>6. StateOK'
      BY <1>2, <2>5 DEF EnsureToken, TypeInv, StateOK, platformVars
    <2> QED
      BY <2>4, <2>6
  <1> QED
    BY <1>1, <1>2, FindKeyTypes DEF StartUp

-----------------------------------------------------------------------------
(* Types: configurations. *)

LEMMA ConfigTypes ==
  ASSUME NEW cfg \in Configs, NEW ph \in Phones
  PROVE  /\ Paired(cfg, ph) \in Configs /\ Paired(cfg, ph).phones = cfg.phones \cup {ph}
         /\ Revoked(cfg, ph) \in Configs /\ Revoked(cfg, ph).phones = cfg.phones \ {ph}
         /\ Renamed(cfg, ph) \in Configs /\ Renamed(cfg, ph).phones = cfg.phones
  <1>1. /\ Paired(cfg, ph) \in Configs /\ Paired(cfg, ph).phones = cfg.phones \cup {ph}
    BY DEF Paired, Configs, Names
  <1>2. /\ Revoked(cfg, ph) \in Configs /\ Revoked(cfg, ph).phones = cfg.phones \ {ph}
    BY DEF Revoked, Configs, Names
  <1>3. /\ Renamed(cfg, ph) \in Configs /\ Renamed(cfg, ph).phones = cfg.phones
    BY DEF Renamed, Configs, Names
  <1> QED
    BY <1>1, <1>2, <1>3

LEMMA ClearedTypes ==
  ASSUME NEW cfg \in Configs
  PROVE  Cleared(cfg) \in Configs /\ Cleared(cfg).phones = {}
  BY DEF Cleared, Configs, Names, NoConfig

LEMMA MovedTypes ==
  ASSUME NEW cfg \in Configs, NEW place \in Places
  PROVE  /\ [cfg EXCEPT !.adb = place] \in Configs
         /\ [cfg EXCEPT !.adb = place].phones = cfg.phones
  BY DEF Configs

-----------------------------------------------------------------------------
(* Types: what processes do once they have started. *)

LEMMA SaveTypes ==
  ASSUME TypeInv, NEW w \in Writers, NEW cfg \in Configs, SaveConfig(w, cfg),
         UNCHANGED <<disk, cng>>
  PROVE  FilesOK' /\ mem' \in [Procs -> Configs]
  <1>1. w[1] \in Procs
    BY DEF Writers
  <1>2. ConfigFile(w[1]) \in FileNames /\ cfg \in Texts(ConfigFile(w[1]))
        /\ ConfigFile(w[1]) # "identity.json"
    BY <1>1, FileFacts DEF ConfigFile
  <1>3. FilesOK'
    BY <1>2, WritesTypes DEF SaveConfig
  <1>4. mem' \in [Procs -> Configs]
    BY DEF SaveConfig, TypeInv, HostOK
  <1> QED
    BY <1>3, <1>4

LEMMA ConfigureTypes ==
  ASSUME TypeInv, NEW p \in Procs, ConfigureADB(p)
  PROVE  /\ FilesOK'
         /\ mem' \in [Procs -> Configs] /\ excused' \in BOOLEAN
         /\ UNCHANGED <<platformVars, disk, trying, cng, key, token, late, expired,
                        adb, admitted, intended, fresh>>
  <1>1. UNCHANGED <<platformVars, disk, trying, cng, key, token, late, expired,
                        adb, admitted, intended, fresh>>
    BY DEF ConfigureADB
  <1>2. excused' \in BOOLEAN
    BY DEF ConfigureADB, TypeInv, HostOK, Loses
  <1>3. CASE UNCHANGED <<mem, writing>>
    BY <1>1, <1>2, <1>3, QuietTypes DEF TypeInv, HostOK
  <1>4. CASE SaveConfig(Main(p), [mem[p] EXCEPT !.adb = adb])
    <2>1. [mem[p] EXCEPT !.adb = adb] \in Configs
      BY MovedTypes DEF TypeInv, HostOK
    <2> QED
      BY <1>1, <1>2, <1>4, <2>1, SaveTypes, FileFacts
  <1> QED
    BY <1>3, <1>4 DEF ConfigureADB, SavePath

LEMMA CommandTypes ==
  ASSUME TypeInv, NEW p \in Procs, NEW name, NEW cfg \in Configs, Command(p, name, cfg),
         intended' \in SUBSET Phones, fresh' \in [Procs -> BOOLEAN],
         excused' \in BOOLEAN
  PROVE  TypeInv'
  <1>1. FilesOK' /\ mem' \in [Procs -> Configs]
    BY SaveTypes, FileFacts DEF Command
  <1>2. StateOK'
    BY DEF Command, TypeInv, StateOK, platformVars
  <1>3. HostOK'
    BY <1>1 DEF Command, TypeInv, HostOK
  <1> QED
    BY <1>1, <1>2, <1>3 DEF TypeInv

LEMMA IntendsTypes ==
  ASSUME TypeInv, NEW p \in Procs, NEW S \in SUBSET Phones, Intends(p, S)
  PROVE  /\ intended' \in SUBSET Phones /\ fresh' \in [Procs -> BOOLEAN]
         /\ excused' \in BOOLEAN
  BY DEF Intends, TypeInv, HostOK, Loses

LEMMA AdmitsTypes ==
  ASSUME TypeInv, NEW p \in Procs, NEW ph \in Phones, Admits(p, ph)
  PROVE  /\ StateOK' /\ admitted' \in [Procs -> SUBSET Phones]
         /\ UNCHANGED <<disk, cng, expired, adb>>
  <1>1. UNCHANGED <<platformVars, disk, loadVars, expired, adb>>
    BY DEF Admits
  <1>2. StateOK'
    BY <1>1 DEF TypeInv, StateOK, platformVars, loadVars
  <1>3. admitted' \in [Procs -> SUBSET Phones]
    BY DEF Admits, TypeInv, HostOK
  <1> QED
    BY <1>1, <1>2, <1>3 DEF loadVars

LEMMA TypeStep == TypeInv /\ [Next]_vars => TypeInv'
  <1> SUFFICES ASSUME TypeInv, [Next]_vars PROVE TypeInv'
    OBVIOUS
  <1>1. ASSUME NEW w \in Writers, Saves(w) PROVE TypeInv'
    <2>1. UNCHANGED <<hostVars, intended, fresh>> /\ excused' \in BOOLEAN
      BY <1>1 DEF Saves, TypeInv, HostOK
    <2>2. HostOK'
      BY <2>1 DEF TypeInv, HostOK, hostVars
    <2> QED
      BY <1>1, <2>2, TruncateTypes, FillTypes, WriteFailsTypes DEF Saves, TypeInv
  <1>2. ASSUME NEW p \in Procs, StartUp(p) PROVE TypeInv'
    <2>1. HostOK'
      BY <1>2 DEF StartUp, TypeInv, HostOK, hostVars, intentVars
    <2> QED
      BY <1>2, <2>1, StartUpTypes DEF TypeInv
  <1>3. ASSUME NEW p \in Procs, ReadConfig(p) PROVE TypeInv'
    <2>1. FilesOK'
      BY <1>3, QuietTypes DEF ReadConfig
    <2>2. StateOK'
      BY <1>3 DEF ReadConfig, TypeInv, StateOK, platformVars
    <2>3. mem' \in [Procs -> Configs] /\ fresh' \in [Procs -> BOOLEAN]
      BY <1>3, FileFacts DEF ReadConfig, TypeInv, HostOK
    <2>4. HostOK'
      BY <1>3, <2>3 DEF ReadConfig, TypeInv, HostOK
    <2> QED
      BY <2>1, <2>2, <2>4 DEF TypeInv
  <1>4. ASSUME NEW p \in Procs, Migrates(p) PROVE TypeInv'
    <2>1. FilesOK'
      BY <1>4, QuietTypes DEF Migrates, MigrateTPM
    <2>2. StateOK'
      BY <1>4 DEF Migrates, MigrateTPM, TypeInv, StateOK, platformVars, Providers
    <2>3. HostOK'
      BY <1>4 DEF Migrates, TypeInv, HostOK, hostVars, intentVars
    <2> QED
      BY <2>1, <2>2, <2>3 DEF TypeInv
  <1>5. ASSUME NEW p \in Procs, Dies(p) PROVE TypeInv'
    <2>1. excused' \in BOOLEAN
      BY <1>5 DEF Dies, TypeInv, HostOK
    <2>2. HostOK'
      BY <1>5, <2>1 DEF Dies, TypeInv, HostOK
    <2> QED
      BY <1>5, <2>2, KilledTypes DEF Dies, TypeInv
  <1>6. ASSUME NEW p \in Procs, RunDaemon(p) \/ Sweep(p) \/ ShowStatus(p) PROVE TypeInv'
    <2>1. ConfigureADB(p)
      BY <1>6 DEF RunDaemon, Sweep, ShowStatus
    <2>2. pc' \in [Procs -> {"idle", "meta", "legacy", "open", "create", "fallback",
                         "config", "token", "command", "listen", "serving",
                         "exiting", "ended"}]
      BY <1>6 DEF RunDaemon, Sweep, ShowStatus, TypeInv, StateOK
    <2>3. pairOnce' \in [Procs -> BOOLEAN]
      BY <1>6 DEF RunDaemon, Sweep, ShowStatus, TypeInv, HostOK
    <2>4. StateOK'
      BY <2>1, <2>2, ConfigureTypes DEF TypeInv, StateOK, platformVars
    <2>5. HostOK'
      BY <2>1, <2>3, ConfigureTypes DEF TypeInv, HostOK
    <2> QED
      BY <2>1, <2>4, <2>5, ConfigureTypes DEF TypeInv
  <1>7. ASSUME NEW p \in Procs, Listen(p) PROVE TypeInv'
    <2>1. FilesOK'
      BY <1>7, QuietTypes DEF Listen
    <2>2. StateOK'
      BY <1>7 DEF Listen, TypeInv, StateOK, platformVars
    <2>3. HostOK'
      BY <1>7 DEF Listen, TypeInv, HostOK, hostVars, intentVars
    <2> QED
      BY <2>1, <2>2, <2>3 DEF TypeInv
  <1>8. ASSUME NEW p \in Procs, RunPortable(p) PROVE TypeInv'
    <2>1. FilesOK'
      BY <1>8, QuietTypes DEF RunPortable
    <2>2. StateOK'
      BY <1>8 DEF RunPortable, TypeInv, StateOK, platformVars
    <2>3. HostOK'
      BY <1>8 DEF RunPortable, TypeInv, HostOK, intentVars
    <2> QED
      BY <2>1, <2>2, <2>3 DEF TypeInv
  <1>9. ASSUME NEW p \in Procs, UnpairAll(p) PROVE TypeInv'
    <2>1. Cleared(mem[p]) \in Configs
      BY ClearedTypes DEF TypeInv, HostOK
    <2> QED
      BY <1>9, <2>1, CommandTypes, IntendsTypes DEF UnpairAll
  <1>10. ASSUME NEW p \in Procs, NEW ph \in Phones, Rename(p, ph) PROVE TypeInv'
    <2>1. Renamed(mem[p], ph) \in Configs
      BY ConfigTypes DEF TypeInv, HostOK
    <2>2. intended' \in SUBSET Phones /\ fresh' \in [Procs -> BOOLEAN]
          /\ excused' \in BOOLEAN
      BY <1>10 DEF Rename, TypeInv, HostOK, Loses
    <2> QED
      BY <1>10, <2>1, <2>2, CommandTypes DEF Rename
  <1>11. ASSUME NEW p \in Procs, NEW ph \in Phones, Revoke(p, ph) PROVE TypeInv'
    <2>1. Revoked(mem[p], ph) \in Configs
      BY ConfigTypes DEF TypeInv, HostOK
    <2>2. intended \ {ph} \in SUBSET Phones
      BY DEF TypeInv, HostOK
    <2> QED
      BY <1>11, <2>1, <2>2, CommandTypes, IntendsTypes DEF Revoke
  <1>12. ASSUME NEW p \in Procs, NEW ph \in Phones, AdmitPaired(p, ph) PROVE TypeInv'
    <2>1. FilesOK'
      BY <1>12, AdmitsTypes, QuietTypes DEF AdmitPaired
    <2>2. HostOK'
      BY <1>12, AdmitsTypes DEF AdmitPaired, TypeInv, HostOK, intentVars
    <2> QED
      BY <1>12, <2>1, <2>2, AdmitsTypes DEF AdmitPaired, TypeInv
  <1>13. ASSUME NEW p \in Procs, NEW ph \in Phones, Enroll(p, ph) PROVE TypeInv'
    <2>1. Paired(mem[p], ph) \in Configs
      BY ConfigTypes DEF TypeInv, HostOK
    <2>2. FilesOK' /\ mem' \in [Procs -> Configs]
      BY <1>13, <2>1, AdmitsTypes, SaveTypes, FileFacts DEF Enroll
    <2>3. pairOnce' \in [Procs -> BOOLEAN]
      BY <1>13 DEF Enroll, CloseWindow, TypeInv, HostOK
    <2>4. intended' \in SUBSET Phones /\ fresh' \in [Procs -> BOOLEAN]
          /\ excused' \in BOOLEAN
      <3>1. intended \cup {ph} \in SUBSET Phones
        BY DEF TypeInv, HostOK
      <3>2. CASE UNCHANGED intentVars
        BY <3>2 DEF TypeInv, HostOK, intentVars
      <3> QED
        BY <1>13, <3>1, <3>2, IntendsTypes DEF Enroll
    <2>5. HostOK'
      BY <1>13, <2>2, <2>3, <2>4, AdmitsTypes DEF Enroll, TypeInv, HostOK
    <2> QED
      BY <1>13, <2>2, <2>5, AdmitsTypes DEF Enroll, TypeInv
  <1>14. CASE MoveADB
    <2>1. FilesOK' /\ StateOK'
      BY <1>14, QuietTypes DEF MoveADB, TypeInv, StateOK, stateDirVars, platformVars, loadVars
    <2>2. adb' \in Places
      BY <1>14, EnrollmentAssumption DEF MoveADB, TypeInv, HostOK, Places
    <2>3. HostOK'
      BY <1>14, <2>2 DEF MoveADB, TypeInv, HostOK, intentVars
    <2> QED
      BY <2>1, <2>3 DEF TypeInv
  <1>15. CASE Expire
    <2>1. FilesOK' /\ StateOK'
      BY <1>15, QuietTypes DEF Expire, TypeInv, StateOK, stateDirVars, platformVars, loadVars
    <2>2. HostOK'
      BY <1>15 DEF Expire, TypeInv, HostOK, intentVars
    <2> QED
      BY <2>1, <2>2 DEF TypeInv
  <1>16. CASE UNCHANGED vars
    <2>1. FilesOK' /\ StateOK'
      BY <1>16, QuietTypes DEF vars, TypeInv, StateOK, stateDirVars, platformVars, loadVars
    <2>2. HostOK'
      BY <1>16 DEF vars, TypeInv, HostOK, hostVars, intentVars
    <2> QED
      BY <2>1, <2>2 DEF TypeInv
  <1> QED
    BY <1>1, <1>2, <1>3, <1>4, <1>5, <1>6, <1>7, <1>8, <1>9, <1>10, <1>11, <1>12,
       <1>13, <1>14, <1>15, <1>16 DEF Next

-----------------------------------------------------------------------------
(* A portable host has the phone that has used up its window, and only that. *)

PortableInv == \A p \in Procs :
    /\ pc[p] = "idle" => mem[p].phones = {}
    /\ Portable(p) =>
          /\ pc[p] \in {"idle", "serving", "ended"}
          /\ pc[p] = "idle" \/ pairOnce[p] => mem[p].phones = {}
          /\ admitted[p] \subseteq mem[p].phones
          /\ \A x, y \in mem[p].phones : x = y
          /\ ~fresh[p]

LEMMA InitPortable == Init => PortableInv
  BY DEF Init, PortableInv, NoConfig

LEMMA PortableStep == TypeInv /\ PortableInv /\ [Next]_vars => PortableInv'
  <1> SUFFICES ASSUME TypeInv, PortableInv, [Next]_vars, NEW q \in Procs
               PROVE  PortableInv!(q)'
    BY DEF PortableInv
  <1> USE DEF PortableInv, Portable
  <1>1. CASE /\ UNCHANGED <<command, mem, admitted>>
             /\ pc'[q] = "idle" => pc[q] = "idle"
             /\ Portable(q) => \/ pc'[q] \in {pc[q], "ended"} /\ ~fresh'[q]
                                  /\ pairOnce'[q] = pairOnce[q]
                               \/ pc[q] = "idle" /\ pc'[q] = "serving" /\ ~fresh'[q]
    BY <1>1
  <1>2. ASSUME NEW w \in Writers, Saves(w) PROVE PortableInv!(q)'
    BY <1>1, <1>2 DEF Saves, Truncate, Fill, WriteFails, platformVars, loadVars, hostVars,
       TypeInv, StateOK
  <1>3. ASSUME NEW p \in Procs, StartUp(p) PROVE PortableInv!(q)'
    <2>1. UNCHANGED <<command, mem, admitted, pairOnce, fresh>>
      BY <1>3 DEF StartUp, Start, FindKey, ReadMeta, LookForLegacy, OpenKey, CreateKey,
         FallBack, EnsureToken, platformVars, hostVars, intentVars
    <2>2. pc' = [pc EXCEPT ![p] = pc'[p]] /\ pc'[p] # "idle"
      BY <1>3 DEF StartUp, Start, FindKey, ReadMeta, LookForLegacy, OpenKey, CreateKey,
         FallBack, EnsureToken, ReadPem, CreatePem, HasKey, Stored, NotStored, TypeInv,
         StateOK
    <2>3. ~Portable(p)
      BY <1>3 DEF StartUp, Start, FindKey, ReadMeta, LookForLegacy, OpenKey, CreateKey,
         FallBack, EnsureToken
    <2> QED
      BY <1>1, <2>1, <2>2, <2>3 DEF TypeInv, StateOK
  <1>4. ASSUME NEW p \in Procs, ReadConfig(p) PROVE PortableInv!(q)'
    <2>1. UNCHANGED <<command, admitted, pairOnce>> /\ ~Portable(p)
      BY <1>4 DEF ReadConfig, platformVars
    <2>2. q # p => mem'[q] = mem[q] /\ pc'[q] = pc[q] /\ fresh'[q] = fresh[q]
      BY <1>4 DEF ReadConfig, TypeInv, HostOK, StateOK
    <2>3. pc'[p] # "idle"
      BY <1>4 DEF ReadConfig, TypeInv, StateOK
    <2> QED
      BY <2>1, <2>2, <2>3
  <1>5. ASSUME NEW p \in Procs, Migrates(p) PROVE PortableInv!(q)'
    BY <1>1, <1>5 DEF Migrates, MigrateTPM, platformVars, hostVars, intentVars, TypeInv, StateOK
  <1>6. ASSUME NEW p \in Procs, Dies(p) PROVE PortableInv!(q)'
    BY <1>1, <1>6 DEF Dies, Killed, platformVars, TypeInv, StateOK
  <1>7. ASSUME NEW p \in Procs, RunDaemon(p) \/ Sweep(p) \/ ShowStatus(p)
        PROVE PortableInv!(q)'
    <2>1. UNCHANGED <<command, admitted, fresh>>
      BY <1>7 DEF RunDaemon, Sweep, ShowStatus, ConfigureADB, platformVars
    <2>2. q # p => mem'[q] = mem[q] /\ pc'[q] = pc[q] /\ pairOnce'[q] = pairOnce[q]
      BY <1>7 DEF RunDaemon, Sweep, ShowStatus, ConfigureADB, SavePath, SaveConfig, Main,
         TypeInv, HostOK, StateOK
    <2>3. ~Portable(p) /\ pc'[p] # "idle"
      BY <1>7 DEF RunDaemon, Sweep, ShowStatus, TypeInv, StateOK
    <2> QED
      BY <2>1, <2>2, <2>3
  <1>8. ASSUME NEW p \in Procs, Listen(p) PROVE PortableInv!(q)'
    BY <1>1, <1>8 DEF Listen, platformVars, hostVars, intentVars, TypeInv, StateOK
  <1>9. ASSUME NEW p \in Procs, RunPortable(p) PROVE PortableInv!(q)'
    BY <1>1, <1>9 DEF RunPortable, platformVars, intentVars, TypeInv, StateOK, HostOK
  <1>10. ASSUME NEW p \in Procs, NEW name \in CommandNames, NEW cfg, Command(p, name, cfg),
                name # "portable", \A r \in Procs : fresh'[r] => fresh[r]
         PROVE  PortableInv!(q)'
    <2>1. UNCHANGED <<command, admitted, pairOnce>> /\ ~Portable(p)
      BY <1>10 DEF Command, platformVars
    <2>2. q # p => mem'[q] = mem[q] /\ pc'[q] = pc[q]
      BY <1>10 DEF Command, SaveConfig, Main, TypeInv, HostOK, StateOK
    <2>3. pc'[p] # "idle"
      BY <1>10 DEF Command, TypeInv, StateOK
    <2> QED
      BY <1>10, <2>1, <2>2, <2>3 DEF TypeInv, HostOK
  <1>11. ASSUME NEW p \in Procs, UnpairAll(p) PROVE PortableInv!(q)'
    BY <1>10, <1>11 DEF UnpairAll, Intends, CommandNames, TypeInv, HostOK
  <1>12. ASSUME NEW p \in Procs, NEW ph \in Phones, Rename(p, ph) \/ Revoke(p, ph)
         PROVE PortableInv!(q)'
    <2>1. CASE Rename(p, ph)
      BY <1>10, <2>1 DEF Rename, CommandNames
    <2>2. CASE Revoke(p, ph)
      BY <1>10, <2>2 DEF Revoke, Intends, CommandNames, TypeInv, HostOK
    <2> QED
      BY <1>12, <2>1, <2>2
  <1>13. ASSUME NEW p \in Procs, NEW ph \in Phones, AdmitPaired(p, ph) PROVE PortableInv!(q)'
    <2>1. UNCHANGED <<command, pc, mem, pairOnce, fresh>>
      BY <1>13 DEF AdmitPaired, Admits, intentVars, platformVars, loadVars
    <2>2. admitted'[q] \subseteq admitted[q] \cup mem[q].phones
      BY <1>13 DEF AdmitPaired, Admits, TypeInv, HostOK
    <2> QED
      BY <2>1, <2>2
  <1>14. ASSUME NEW p \in Procs, NEW ph \in Phones, Enroll(p, ph) PROVE PortableInv!(q)'
    <2>1. UNCHANGED <<command, pc>> /\ pc[p] = "serving"
      BY <1>14 DEF Enroll, Admits, platformVars, loadVars
    <2>2. q # p => mem'[q] = mem[q] /\ admitted'[q] = admitted[q]
                   /\ pairOnce'[q] = pairOnce[q]
      BY <1>14 DEF Enroll, Admits, CloseWindow, SaveConfig, Handler, TypeInv, HostOK
    <2>3. ~fresh[q] => ~fresh'[q]
      BY <1>14 DEF Enroll, Intends, intentVars
    <2>4. /\ mem'[p].phones = mem[p].phones \cup {ph}
          /\ admitted'[p] = admitted[p] \cup {ph}
          /\ ~pairOnce'[p] /\ pairOnce[p]
      BY <1>14, ConfigTypes DEF Enroll, Admits, CloseWindow, SaveConfig, Handler, TypeInv, HostOK
    <2> QED
      BY <2>1, <2>2, <2>3, <2>4
  <1>15. CASE MoveADB \/ Expire \/ UNCHANGED vars
    BY <1>1, <1>15 DEF MoveADB, Expire, vars, stateDirVars, platformVars, loadVars, intentVars, hostVars
  <1> QED
    BY <1>2, <1>3, <1>4, <1>5, <1>6, <1>7, <1>8, <1>9, <1>11, <1>12, <1>13, <1>14,
       <1>15 DEF Next

-----------------------------------------------------------------------------
(* What is known grows with an enrolment only. *)

ConfigFiles == {"config.json", "portable/config.json"}

LEMMA KnownHas ==
  ASSUME TypeInv
  PROVE  /\ \A f \in ConfigFiles : Pairings(disk[f]) \subseteq Known
         /\ \A p \in Procs : Alive(p) => mem[p].phones \subseteq Known
         /\ \A w \in Writers : writing[w].file \in ConfigFiles =>
               Pairings(writing[w].text) \subseteq Known
  <1>1. \A f \in ConfigFiles : Pairings(disk[f]) \subseteq InFiles
    BY DEF InFiles, ConfigFiles
  <1>2. \A p \in Procs : Alive(p) => mem[p].phones \subseteq InProcesses
    BY DEF InProcesses
  <1>3. \A w \in Writers : writing[w].file \in ConfigFiles =>
            Pairings(writing[w].text) \subseteq InWrites
    BY DEF InWrites, ConfigFiles, BeingWritten
  <1> QED
    BY <1>1, <1>2, <1>3 DEF Known

LEMMA KnownBounded ==
  ASSUME NEW S,
         \A f \in ConfigFiles : Pairings(disk'[f]) \subseteq S,
         \A p \in Procs : Alive(p)' => mem'[p].phones \subseteq S,
         \A w \in Writers : writing'[w].file \in ConfigFiles =>
               Pairings(writing'[w].text) \subseteq S
  PROVE  Known' \subseteq S
  <1>1. InFiles' \subseteq S
    BY DEF InFiles, ConfigFiles
  <1>2. InProcesses' \subseteq S
    BY DEF InProcesses
  <1>3. InWrites' \subseteq S
    BY DEF InWrites, ConfigFiles, BeingWritten
  <1> QED
    BY <1>1, <1>2, <1>3 DEF Known

LEMMA KnownQuiet ==
  ASSUME TypeInv, PortableInv,
         \A f \in ConfigFiles : disk'[f] = disk[f],
         \A w \in Writers : writing'[w].file \in ConfigFiles => writing'[w] = writing[w],
         \A p \in Procs : Alive(p)' => mem'[p].phones = mem[p].phones
                                       /\ (Alive(p) \/ pc[p] = "idle")
  PROVE  Known' \subseteq Known
  <1>1. \A p \in Procs : Alive(p)' => mem'[p].phones \subseteq Known
    BY KnownHas DEF PortableInv
  <1> QED
    BY <1>1, KnownHas, KnownBounded DEF Pairings

LEMMA KnownSaved ==
  ASSUME TypeInv, PortableInv, NEW p \in Procs, NEW w \in Writers, w[1] = p,
         NEW cfg \in Configs, SaveConfig(w, cfg), UNCHANGED disk,
         \A q \in Procs \ {p} : pc'[q] = pc[q],
         NEW S, Known \subseteq S, cfg.phones \subseteq S
  PROVE  Known' \subseteq S
  <1>1. /\ \A q \in Procs \ {p} : mem'[q] = mem[q]
        /\ mem'[p] = cfg
    BY DEF SaveConfig, TypeInv, HostOK
  <1>2. /\ \A v \in Writers \ {w} : writing'[v] = writing[v]
        /\ writing'[w].text = cfg
    BY DEF SaveConfig, Writes, TypeInv, FilesOK
  <1>3. \A q \in Procs : Alive(q)' => mem'[q].phones \subseteq S
    BY <1>1, KnownHas DEF Alive
  <1>4. \A v \in Writers : writing'[v].file \in ConfigFiles =>
               Pairings(writing'[v].text) \subseteq S
    BY <1>2, KnownHas DEF Pairings
  <1> QED
    BY <1>3, <1>4, KnownHas, KnownBounded DEF Pairings

\* The steps of a start write no configuration.
LEMMA StartUpFiles ==
  ASSUME TypeInv, NEW p \in Procs, StartUp(p)
  PROVE  /\ UNCHANGED <<disk, hostVars, intentVars, command>>
         /\ \A w \in Writers :
               \/ writing'[w] = writing[w]
               \/ writing[w] = NoWrite /\ writing'[w].file \notin ConfigFiles
         /\ pc[p] # "ended"
         /\ \A q \in Procs \ {p} : pc'[q] = pc[q]
  <1>1. /\ UNCHANGED <<disk, hostVars, intentVars, command>>
        /\ pc[p] # "ended"
    BY DEF StartUp, Start, FindKey, ReadMeta, LookForLegacy, OpenKey, CreateKey,
       FallBack, EnsureToken, platformVars
  <1>2. \A q \in Procs \ {p} : pc'[q] = pc[q]
    BY DEF StartUp, Start, FindKey, ReadMeta, LookForLegacy, OpenKey, CreateKey,
       FallBack, EnsureToken, ReadPem, CreatePem, HasKey, Stored, NotStored, TypeInv,
       StateOK
  <1>3. \/ UNCHANGED writing
        \/ \E text : ~Busy(Main(p)) /\ \/ Writes(Main(p), "identity.json", text)
                                       \/ Writes(Main(p), "host-identity.pem", text)
                                       \/ Writes(Main(p), "control.token", text)
    BY DEF StartUp, Start, FindKey, ReadMeta, LookForLegacy, OpenKey, CreateKey,
       FallBack, EnsureToken, ReadPem, CreatePem, Stored, NotStored
  <1>4. \A w \in Writers :
               \/ writing'[w] = writing[w]
               \/ writing[w] = NoWrite /\ writing'[w].file \notin ConfigFiles
    BY <1>3 DEF Writes, Busy, TypeInv, FilesOK, ConfigFiles
  <1> QED
    BY <1>1, <1>2, <1>4

\* A command or a sweep that saves, or has nothing to save.
LEMMA ConfigureKnown ==
  ASSUME TypeInv, PortableInv, NEW p \in Procs, ConfigureADB(p), Alive(p),
         \A q \in Procs \ {p} : pc'[q] = pc[q]
  PROVE  Known' \subseteq Known
  <1>1. CASE UNCHANGED <<mem, writing>>
    BY <1>1, KnownQuiet DEF ConfigureADB, Alive
  <1>2. CASE SaveConfig(Main(p), [mem[p] EXCEPT !.adb = adb])
    <2>1. PICK cfg : cfg = [mem[p] EXCEPT !.adb = adb]
      OBVIOUS
    <2>2. cfg \in Configs /\ cfg.phones = mem[p].phones
      BY <2>1, MovedTypes DEF TypeInv, HostOK
    <2>3. cfg.phones \subseteq Known
      BY <2>2, KnownHas
    <2>4. Main(p)[1] = p /\ Main(p) \in Writers
      BY FileFacts DEF Main
    <2>5. UNCHANGED disk /\ SaveConfig(Main(p), cfg)
      BY <1>2, <2>1 DEF ConfigureADB
    <2> QED
      BY <2>2, <2>3, <2>4, <2>5, KnownSaved
  <1> QED
    BY <1>1, <1>2 DEF ConfigureADB, SavePath

LEMMA CommandKnown ==
  ASSUME TypeInv, PortableInv, NEW p \in Procs, NEW name, NEW cfg \in Configs,
         Command(p, name, cfg), cfg.phones \subseteq mem[p].phones
  PROVE  Known' \subseteq Known
  <1>1. mem[p].phones \subseteq Known
    BY KnownHas DEF Command, Alive
  <1>2. Main(p)[1] = p /\ Main(p) \in Writers
    BY FileFacts DEF Main
  <1>3. \A q \in Procs \ {p} : pc'[q] = pc[q]
    BY DEF Command, TypeInv, StateOK
  <1> QED
    BY <1>1, <1>2, <1>3, KnownSaved DEF Command

LEMMA KnownStep ==
  ASSUME TypeInv, PortableInv, [Next]_vars,
         \A p \in Procs, ph \in Phones : ~Enroll(p, ph)
  PROVE  Known' \subseteq Known
  <1>1. ASSUME NEW w \in Writers, Saves(w) PROVE Known' \subseteq Known
    <2>1. \A p \in Procs : Alive(p)' => mem'[p] = mem[p] /\ Alive(p)
      BY <1>1 DEF Saves, Truncate, Fill, WriteFails, loadVars, hostVars, Alive, TypeInv, StateOK
    <2>2. ASSUME NEW f \in ConfigFiles
          PROVE  disk'[f] \in {disk[f], Empty, Torn} \/ (writing[w].file = f /\ disk'[f] = writing[w].text)
      BY <1>1 DEF Saves, Truncate, Fill, WriteFails, TypeInv, FilesOK, ConfigFiles, FileNames
    <2>3. Pairings(Empty) = {} /\ Pairings(Torn) = {}
      BY EnrollmentAssumption DEF Pairings
    <2>4. \A f \in ConfigFiles : Pairings(disk'[f]) \subseteq Known
      BY <2>2, <2>3, KnownHas
    <2>5. \A v \in Writers : writing'[v].file \in ConfigFiles =>
              writing'[v].file = writing[v].file /\ writing'[v].text = writing[v].text
      BY <1>1 DEF Saves, Truncate, Fill, WriteFails, TypeInv, FilesOK, NoWrite, ConfigFiles
    <2> QED
      BY <2>1, <2>4, <2>5, KnownHas, KnownBounded
  <1>2. ASSUME NEW p \in Procs, StartUp(p) PROVE Known' \subseteq Known
    BY <1>2, StartUpFiles, KnownQuiet DEF hostVars, Alive
  <1>3. ASSUME NEW p \in Procs, ReadConfig(p) PROVE Known' \subseteq Known
    <2>1. UNCHANGED <<disk, writing>>
      BY <1>3 DEF ReadConfig
    <2>2. mem'[p].phones \subseteq Pairings(disk["config.json"])
      BY <1>3 DEF ReadConfig, TypeInv, HostOK, Pairings, NoConfig
    <2>3. \A q \in Procs \ {p} : mem'[q] = mem[q] /\ pc'[q] = pc[q]
      BY <1>3 DEF ReadConfig, TypeInv, HostOK, StateOK
    <2>4. \A q \in Procs : Alive(q)' => mem'[q].phones \subseteq Known
      BY <2>2, <2>3, KnownHas DEF Alive, ConfigFiles
    <2> QED
      BY <2>1, <2>4, KnownHas, KnownBounded
  <1>4. ASSUME NEW p \in Procs, Migrates(p) \/ Listen(p) \/ RunPortable(p)
        PROVE Known' \subseteq Known
    <2>1. UNCHANGED <<disk, writing, mem>>
      BY <1>4 DEF Migrates, MigrateTPM, Listen, RunPortable, hostVars
    <2>2. \A q \in Procs : pc'[q] = pc[q] \/ pc[q] \in {"idle", "command", "listen"}
      BY <1>4 DEF Migrates, MigrateTPM, Listen, RunPortable, TypeInv, StateOK
    <2> QED
      BY <2>1, <2>2, KnownQuiet DEF Alive
  <1>5. ASSUME NEW p \in Procs, Dies(p) PROVE Known' \subseteq Known
    <2>1. UNCHANGED <<disk, mem>> /\ \A q \in Procs : Alive(q)' => Alive(q)
      BY <1>5 DEF Dies, Killed, Alive, TypeInv, StateOK
    <2>2. \A v \in Writers : writing'[v].file \in ConfigFiles => writing'[v] = writing[v]
      BY <1>5 DEF Dies, Killed, NoWrite, ConfigFiles
    <2> QED
      BY <2>1, <2>2, KnownQuiet
  <1>6. ASSUME NEW p \in Procs, RunDaemon(p) \/ Sweep(p) \/ ShowStatus(p)
        PROVE Known' \subseteq Known
    <2>1. ConfigureADB(p) /\ Alive(p)
      BY <1>6 DEF RunDaemon, Sweep, ShowStatus, Alive
    <2>2. \A q \in Procs \ {p} : pc'[q] = pc[q]
      BY <1>6 DEF RunDaemon, Sweep, ShowStatus, TypeInv, StateOK
    <2> QED
      BY <2>1, <2>2, ConfigureKnown
  <1>7. ASSUME NEW p \in Procs, UnpairAll(p) PROVE Known' \subseteq Known
    <2>1. Cleared(mem[p]) \in Configs /\ Cleared(mem[p]).phones \subseteq mem[p].phones
      BY ClearedTypes DEF TypeInv, HostOK
    <2> QED
      BY <1>7, <2>1, CommandKnown DEF UnpairAll
  <1>8. ASSUME NEW p \in Procs, NEW ph \in Phones, Rename(p, ph) \/ Revoke(p, ph)
        PROVE Known' \subseteq Known
    <2>1. /\ Renamed(mem[p], ph) \in Configs /\ Renamed(mem[p], ph).phones \subseteq mem[p].phones
          /\ Revoked(mem[p], ph) \in Configs /\ Revoked(mem[p], ph).phones \subseteq mem[p].phones
      BY ConfigTypes DEF TypeInv, HostOK
    <2>2. CASE Rename(p, ph)
      BY <2>1, <2>2, CommandKnown DEF Rename
    <2>3. CASE Revoke(p, ph)
      BY <2>1, <2>3, CommandKnown DEF Revoke
    <2> QED
      BY <1>8, <2>2, <2>3
  <1>9. ASSUME NEW p \in Procs, NEW ph \in Phones, AdmitPaired(p, ph)
        PROVE Known' \subseteq Known
    BY <1>9, KnownQuiet DEF AdmitPaired, Admits, loadVars, Alive
  <1>10. CASE MoveADB \/ Expire \/ UNCHANGED vars
    BY <1>10, KnownQuiet DEF MoveADB, Expire, vars, hostVars, stateDirVars, loadVars, Alive
  <1> QED
    BY <1>1, <1>2, <1>3, <1>4, <1>5, <1>6, <1>7, <1>8, <1>9, <1>10 DEF Next

LEMMA EnrollStep ==
  ASSUME TypeInv, PortableInv, NEW p \in Procs, NEW ph \in Phones, Enroll(p, ph)
  PROVE  /\ pairOnce[p] /\ ~pairOnce'[p]
         /\ Known' \subseteq Known \cup {ph}
  <1>1. pairOnce[p] /\ ~pairOnce'[p]
    BY DEF Enroll, CloseWindow, TypeInv, HostOK
  <1>2. PICK cfg : cfg = Paired(mem[p], ph)
    OBVIOUS
  <1>3. cfg \in Configs /\ cfg.phones = mem[p].phones \cup {ph}
    BY <1>2, ConfigTypes DEF TypeInv, HostOK
  <1>4. /\ Alive(p)
        /\ UNCHANGED <<disk, pc>>
        /\ SaveConfig(Handler(p), cfg)
    BY <1>2 DEF Enroll, Admits, Alive, loadVars
  <1>5. Handler(p)[1] = p /\ Handler(p) \in Writers
    BY FileFacts DEF Handler
  <1>6. cfg.phones \subseteq Known \cup {ph}
    BY <1>3, <1>4, KnownHas
  <1> QED
    BY <1>1, <1>3, <1>4, <1>5, <1>6, KnownSaved

-----------------------------------------------------------------------------
(* What config.json says. *)

BeingSaved == BeingWritten("config.json")

IntendedInv == ~excused =>
    /\ \A p \in Procs : fresh[p] => mem[p].phones = intended
    /\ \A v, w \in BeingSaved : v = w
    /\ \A w \in BeingSaved :
          /\ writing[w].text.phones = intended
          /\ writing[w].cut => disk["config.json"] = Empty
    /\ BeingSaved = {} => Pairings(disk["config.json"]) = intended

LEMMA InitIntended == Init => IntendedInv
  <1> SUFFICES ASSUME Init PROVE IntendedInv
    OBVIOUS
  <1> PICK s \in Setups : Init!(s)
    BY DEF Init
  <1>1. BeingSaved = {}
    BY DEF BeingSaved, BeingWritten, NoWrite
  <1>2. s.config \in Configs \cup {Nothing} /\ disk["config.json"] = s.config
    BY EnrollmentAssumption DEF SetupRec, FileNames
  <1>3. Pairings(disk["config.json"]) = intended
    BY <1>2, EnrollmentAssumption DEF Pairings
  <1> QED
    BY <1>1, <1>3 DEF IntendedInv

\* Steps that leave config.json and the pairings alone.
LEMMA IntendedQuiet ==
  ASSUME TypeInv, IntendedInv,
         disk'["config.json"] = disk["config.json"],
         \A w \in Writers : (writing'[w].file = "config.json" \/ writing[w].file = "config.json")
                                => writing'[w] = writing[w],
         \A p \in Procs : fresh'[p] => fresh[p] /\ mem'[p].phones = mem[p].phones,
         intended' = intended, excused => excused'
  PROVE  IntendedInv'
  <1>1. BeingSaved' = BeingSaved
    BY DEF BeingSaved, BeingWritten
  <1>2. \A w \in BeingSaved : w \in Writers /\ writing'[w] = writing[w]
    BY DEF BeingSaved, BeingWritten
  <1> QED
    BY <1>1, <1>2 DEF IntendedInv, Pairings

\* A save that is not excused, of pairings that are intended from now on.
LEMMA IntendedSaved ==
  ASSUME TypeInv, IntendedInv, NEW p \in Procs, NEW w \in Writers, w[1] = p,
         NEW cfg \in Configs, SaveConfig(w, cfg), ~Portable(p),
         excused' = (excused \/ Loses(p)),
         fresh[p] /\ mem[p].phones = intended => cfg.phones = intended',
         \A q \in Procs \ {p} : fresh'[q] => intended' = intended /\ fresh[q]
  PROVE  IntendedInv'
  <1> SUFFICES ASSUME ~excused' PROVE IntendedInv'
    BY DEF IntendedInv
  <1>1. ~excused /\ fresh[p] /\ BeingSaved = {}
    BY DEF Loses, BeingSaved
  <1>2. cfg.phones = intended'
    BY <1>1 DEF IntendedInv
  <1>3. writing' = [writing EXCEPT ![w] = [file |-> "config.json", text |-> cfg, cut |-> FALSE]]
    BY DEF SaveConfig, Writes, ConfigFile
  <1>4. BeingSaved' = {w} /\ writing'[w].text = cfg /\ ~writing'[w].cut
    BY <1>1, <1>3 DEF BeingSaved, BeingWritten, TypeInv, FilesOK
  <1>5. mem' = [mem EXCEPT ![p] = cfg]
    BY DEF SaveConfig
  <1>6. \A q \in Procs : fresh'[q] => mem'[q].phones = intended'
    BY <1>1, <1>2, <1>5 DEF IntendedInv, TypeInv, HostOK
  <1> QED
    BY <1>2, <1>4, <1>6 DEF IntendedInv

LEMMA IntendedWrites ==
  ASSUME TypeInv, IntendedInv, NEW w \in Writers, Saves(w)
  PROVE  IntendedInv'
  <1> SUFFICES ASSUME ~excused' PROVE IntendedInv'
    BY DEF IntendedInv
  <1> USE DEF IntendedInv
  <1>0. UNCHANGED <<hostVars, intended, fresh>>
    BY DEF Saves
  <1>1. CASE Truncate(w) /\ UNCHANGED excused
    <2>1. writing' = [writing EXCEPT ![w] = [file |-> writing[w].file,
                          text |-> writing[w].text, cut |-> TRUE]]
      BY <1>1 DEF Truncate
    <2>2. \A v \in Writers : writing'[v].file = writing[v].file
                         /\ writing'[v].text = writing[v].text
      BY <2>1 DEF TypeInv, FilesOK
    <2>3. BeingSaved' = BeingSaved
      BY <2>2 DEF BeingSaved, BeingWritten
    <2>4. CASE w \in BeingSaved
      <3>1. disk'["config.json"] = Empty
        BY <1>1, <2>4 DEF Truncate, BeingSaved, BeingWritten, TypeInv, FilesOK, FileNames
      <3> QED
        BY <1>0, <1>1, <2>2, <2>3, <2>4, <3>1 DEF hostVars, BeingSaved, BeingWritten
    <2>5. CASE w \notin BeingSaved
      <3>1. disk'["config.json"] = disk["config.json"]
        BY <1>1, <2>5 DEF Truncate, BeingSaved, BeingWritten, TypeInv, FilesOK
      <3>2. \A v \in BeingSaved : writing'[v] = writing[v]
        BY <2>1, <2>5 DEF BeingSaved, BeingWritten, TypeInv, FilesOK
      <3> QED
        BY <1>0, <1>1, <2>3, <2>5, <3>1, <3>2 DEF hostVars, Pairings
    <2> QED
      BY <2>4, <2>5
  <1>2. CASE Fill(w) /\ UNCHANGED excused
    <2>1. writing' = [writing EXCEPT ![w] = NoWrite] /\ NoWrite.file # "config.json"
      BY <1>2 DEF Fill, NoWrite
    <2>2. BeingSaved' = BeingSaved \ {w}
      BY <2>1 DEF BeingSaved, BeingWritten, TypeInv, FilesOK
    <2>3. \A v \in BeingSaved \ {w} : writing'[v] = writing[v]
      BY <2>1 DEF BeingSaved, BeingWritten, TypeInv, FilesOK
    <2>4. CASE w \in BeingSaved
      <3>1. writing[w].text \in Configs
        BY <2>4 DEF BeingSaved, BeingWritten, TypeInv, FilesOK, Busy, NoWrite, Texts
      <3>2. disk'["config.json"] = writing[w].text
        BY <1>2, <2>4 DEF Fill, BeingSaved, BeingWritten, TypeInv, FilesOK, FileNames
      <3>3. BeingSaved' = {}
        BY <1>2, <2>2, <2>4
      <3> QED
        BY <1>0, <1>2, <2>4, <3>1, <3>2, <3>3 DEF hostVars, Pairings
    <2>5. CASE w \notin BeingSaved
      <3>0. Busy(w)
        BY <1>2 DEF Fill, Busy, NoWrite
      <3>a. writing[w].file # "config.json"
        BY <2>5, <3>0 DEF BeingSaved, BeingWritten, Busy
      <3>b. \/ disk' = [disk EXCEPT ![writing[w].file] = writing[w].text]
            \/ disk' = [disk EXCEPT ![writing[w].file] = Torn]
        BY <1>2 DEF Fill
      <3>c. disk \in [FileNames -> AnyText] /\ "config.json" \in FileNames
        BY DEF TypeInv, FilesOK, FileNames
      <3>1. disk'["config.json"] = disk["config.json"]
        BY <3>a, <3>b, <3>c
      <3> QED
        BY <1>0, <1>2, <2>2, <2>3, <2>5, <3>1 DEF hostVars, Pairings
    <2> QED
      BY <2>4, <2>5
  <1>3. CASE WriteFails(w) /\ excused' = (excused \/ writing[w].file = "config.json")
    <2>1. writing[w].file # "config.json"
      BY <1>3
    <2>a. disk' = disk \/ disk' = [disk EXCEPT ![writing[w].file] = Torn]
      BY <1>3 DEF WriteFails
    <2>b. disk \in [FileNames -> AnyText] /\ "config.json" \in FileNames
      BY DEF TypeInv, FilesOK, FileNames
    <2>2. disk'["config.json"] = disk["config.json"]
      BY <2>1, <2>a, <2>b
    <2>3. \A v \in Writers : (writing'[v].file = "config.json" \/ writing[v].file = "config.json")
                                => writing'[v] = writing[v]
      BY <1>3, <2>1 DEF WriteFails, TypeInv, FilesOK, NoWrite
    <2> QED
      BY <1>0, <1>3, <2>2, <2>3, IntendedQuiet DEF hostVars
  <1> QED
    BY <1>1, <1>2, <1>3 DEF Saves

LEMMA IntendedStep == TypeInv /\ PortableInv /\ IntendedInv /\ [Next]_vars => IntendedInv'
  <1> SUFFICES ASSUME TypeInv, PortableInv, IntendedInv, [Next]_vars PROVE IntendedInv'
    OBVIOUS
  <1>1. ASSUME NEW p \in Procs, StartUp(p) PROVE IntendedInv'
    <2>1. \A w \in Writers : (writing'[w].file = "config.json" \/ writing[w].file = "config.json")
                                => writing'[w] = writing[w]
      BY <1>1, StartUpFiles DEF NoWrite, ConfigFiles
    <2> QED
      BY <1>1, <2>1, StartUpFiles, IntendedQuiet DEF hostVars, intentVars
  <1>2. ASSUME NEW p \in Procs, ReadConfig(p) PROVE IntendedInv'
    <2>1. SUFFICES ASSUME ~excused' PROVE IntendedInv'
      BY DEF IntendedInv
    <2>2. UNCHANGED <<disk, writing, intended, excused>>
      BY <1>2 DEF ReadConfig
    <2>3. BeingSaved' = BeingSaved
      BY <2>2 DEF BeingSaved, BeingWritten
    <2>4. mem'[p].phones = Pairings(disk["config.json"])
      BY <1>2 DEF ReadConfig, TypeInv, HostOK, Pairings, NoConfig
    <2>5. fresh'[p] => BeingSaved = {}
      BY <1>2 DEF ReadConfig, TypeInv, HostOK, BeingSaved
    <2>6. \A q \in Procs \ {p} : mem'[q] = mem[q] /\ fresh'[q] = fresh[q]
      BY <1>2 DEF ReadConfig, TypeInv, HostOK
    <2>7. \A q \in Procs : fresh'[q] => mem'[q].phones = intended
      BY <2>1, <2>2, <2>4, <2>5, <2>6 DEF IntendedInv
    <2> QED
      BY <2>1, <2>2, <2>3, <2>7 DEF IntendedInv, Pairings
  <1>3. ASSUME NEW p \in Procs, Migrates(p) \/ Listen(p) \/ RunPortable(p)
        PROVE IntendedInv'
    BY <1>3, IntendedQuiet DEF Migrates, MigrateTPM, Listen, RunPortable, hostVars, intentVars
  <1>4. ASSUME NEW p \in Procs, Dies(p) PROVE IntendedInv'
    <2>1. CASE \E w \in BeingWritten("config.json") : w[1] = p
      BY <1>4, <2>1 DEF Dies, IntendedInv
    <2>2. CASE ~ \E w \in BeingWritten("config.json") : w[1] = p
      <3>1. \A w \in Writers : (writing'[w].file = "config.json" \/ writing[w].file = "config.json")
                                => writing'[w] = writing[w]
        BY <1>4, <2>2 DEF Dies, Killed, BeingWritten, NoWrite
      <3> QED
        BY <1>4, <3>1, IntendedQuiet DEF Dies, Killed
    <2> QED
      BY <2>1, <2>2
  <1>5. ASSUME NEW p \in Procs, RunDaemon(p) \/ Sweep(p) \/ ShowStatus(p)
        PROVE IntendedInv'
    <2>1. ConfigureADB(p) /\ ~Portable(p)
      BY <1>5 DEF RunDaemon, Sweep, ShowStatus, Portable
    <2>2. CASE mem[p].adb = adb
      BY <2>1, <2>2, IntendedQuiet DEF ConfigureADB, SavePath
    <2>3. CASE mem[p].adb # adb
      <3>1. PICK cfg : cfg = [mem[p] EXCEPT !.adb = adb]
        OBVIOUS
      <3>2. cfg \in Configs /\ cfg.phones = mem[p].phones
        BY <3>1, MovedTypes DEF TypeInv, HostOK
      <3>3. /\ SaveConfig(Main(p), cfg)
            /\ excused' = (excused \/ Loses(p))
            /\ UNCHANGED <<intended, fresh>>
        BY <2>1, <2>3, <3>1 DEF ConfigureADB, SavePath
      <3>4. Main(p)[1] = p /\ Main(p) \in Writers
        BY FileFacts DEF Main
      <3> QED
        BY <2>1, <3>2, <3>3, <3>4, IntendedSaved
    <2> QED
      BY <2>2, <2>3
  <1>6. ASSUME NEW p \in Procs, UnpairAll(p) PROVE IntendedInv'
    <2>1. PICK cfg : cfg = Cleared(mem[p])
      OBVIOUS
    <2>2. cfg \in Configs /\ cfg.phones = {}
      BY <2>1, ClearedTypes DEF TypeInv, HostOK
    <2>3. /\ SaveConfig(Main(p), cfg) /\ ~Portable(p)
          /\ excused' = (excused \/ Loses(p)) /\ intended' = {}
          /\ \A q \in Procs \ {p} : ~fresh'[q]
      BY <1>6, <2>1 DEF UnpairAll, Command, Intends, Portable
    <2>4. Main(p)[1] = p /\ Main(p) \in Writers
      BY FileFacts DEF Main
    <2> QED
      BY <2>2, <2>3, <2>4, IntendedSaved
  <1>7. ASSUME NEW p \in Procs, NEW ph \in Phones, Rename(p, ph) PROVE IntendedInv'
    <2>1. PICK cfg : cfg = Renamed(mem[p], ph)
      OBVIOUS
    <2>2. cfg \in Configs /\ cfg.phones = mem[p].phones
      BY <2>1, ConfigTypes DEF TypeInv, HostOK
    <2>3. /\ SaveConfig(Main(p), cfg) /\ ~Portable(p)
          /\ excused' = (excused \/ Loses(p)) /\ UNCHANGED <<intended, fresh>>
      BY <1>7, <2>1 DEF Rename, Command, Portable
    <2>4. Main(p)[1] = p /\ Main(p) \in Writers
      BY FileFacts DEF Main
    <2> QED
      BY <2>2, <2>3, <2>4, IntendedSaved
  <1>8. ASSUME NEW p \in Procs, NEW ph \in Phones, Revoke(p, ph) PROVE IntendedInv'
    <2>1. PICK cfg : cfg = Revoked(mem[p], ph)
      OBVIOUS
    <2>2. cfg \in Configs /\ cfg.phones = mem[p].phones \ {ph}
      BY <2>1, ConfigTypes DEF TypeInv, HostOK
    <2>3. /\ SaveConfig(Main(p), cfg) /\ ~Portable(p)
          /\ excused' = (excused \/ Loses(p)) /\ intended' = intended \ {ph}
          /\ \A q \in Procs \ {p} : ~fresh'[q]
      BY <1>8, <2>1 DEF Revoke, Command, Intends, Portable
    <2>4. Main(p)[1] = p /\ Main(p) \in Writers
      BY FileFacts DEF Main
    <2> QED
      BY <2>2, <2>3, <2>4, IntendedSaved
  <1>9. ASSUME NEW p \in Procs, NEW ph \in Phones, AdmitPaired(p, ph) PROVE IntendedInv'
    BY <1>9, IntendedQuiet DEF AdmitPaired, Admits, intentVars
  <1>10. ASSUME NEW p \in Procs, NEW ph \in Phones, Enroll(p, ph) PROVE IntendedInv'
    <2>1. PICK cfg : cfg = Paired(mem[p], ph)
      OBVIOUS
    <2>2. cfg \in Configs /\ cfg.phones = mem[p].phones \cup {ph}
      BY <2>1, ConfigTypes DEF TypeInv, HostOK
    <2>3. /\ SaveConfig(Handler(p), cfg) /\ UNCHANGED disk /\ ~Busy(Handler(p))
          /\ IF Portable(p) THEN UNCHANGED intentVars ELSE Intends(p, intended \cup {ph})
      BY <1>10, <2>1 DEF Enroll, Admits
    <2>4. Handler(p)[1] = p /\ Handler(p) \in Writers
      BY FileFacts DEF Handler
    <2>5. CASE Portable(p)
      <3>1. writing' = [writing EXCEPT ![Handler(p)] =
                [file |-> "portable/config.json", text |-> cfg, cut |-> FALSE]]
        BY <2>3, <2>4, <2>5 DEF SaveConfig, Writes, ConfigFile
      <3>2. \A w \in Writers : (writing'[w].file = "config.json" \/ writing[w].file = "config.json")
                                => writing'[w] = writing[w]
        BY <2>3, <2>4, <3>1 DEF Busy, NoWrite, TypeInv, FilesOK
      <3>3. \A q \in Procs : fresh'[q] => fresh[q] /\ mem'[q].phones = mem[q].phones
        BY <2>3, <2>4, <2>5 DEF PortableInv, SaveConfig, intentVars, TypeInv, HostOK
      <3> QED
        BY <2>3, <2>5, <3>2, <3>3, IntendedQuiet DEF intentVars
    <2>6. CASE ~Portable(p)
      <3>1. /\ excused' = (excused \/ Loses(p)) /\ intended' = intended \cup {ph}
            /\ \A q \in Procs \ {p} : ~fresh'[q]
        BY <2>3, <2>6 DEF Intends
      <3> QED
        BY <2>2, <2>3, <2>4, <2>6, <3>1, IntendedSaved
    <2> QED
      BY <2>5, <2>6
  <1>11. CASE MoveADB \/ Expire \/ UNCHANGED vars
    BY <1>11, IntendedQuiet DEF MoveADB, Expire, vars, hostVars, stateDirVars, intentVars
  <1> QED
    BY <1>1, <1>2, <1>3, <1>4, <1>5, <1>6, <1>7, <1>8, <1>9, <1>10, <1>11, IntendedWrites
       DEF Next

-----------------------------------------------------------------------------
IInv == TypeInv /\ PortableInv /\ IntendedInv

LEMMA Invariant == Spec => []IInv
  <1>1. Init => IInv
    BY InitTypes, InitPortable, InitIntended DEF IInv
  <1>2. IInv /\ [Next]_vars => IInv'
    BY TypeStep, PortableStep, IntendedStep DEF IInv
  <1> QED
    BY <1>1, <1>2, PTL DEF Spec

\* Every variable keeps its type: no file ever holds a text of another's, and
\* whoever reads identity.json finds a key in the store that it names.
THEOREM TypeCorrect == Spec => []TypeOK
  <1>1. IInv => TypeOK
    BY TypesOfTypeInv DEF IInv
  <1> QED
    BY <1>1, Invariant, PTL

\* config.json says what pairings and revocations have left, unless a save was
\* at risk (saveConfig), for any number of processes and phones.
THEOREM PairingsKept == Spec => []PairingsAsIntended
  <1>1. IInv => PairingsAsIntended
    BY DEF IInv, IntendedInv, BeingSaved, PairingsAsIntended
  <1> QED
    BY <1>1, Invariant, PTL

\* A portable host lets in one phone (docs/PORTABLE.md), however many try.
THEOREM PortableAdmitsOne == Spec => []PortableOnePhone
  <1>1. ASSUME IInv, NEW p \in Procs, Portable(p) PROVE Cardinality(admitted[p]) <= 1
    <2>1. \A x, y \in admitted[p] : x = y
      BY <1>1 DEF IInv, PortableInv
    <2>2. CASE admitted[p] = {}
      BY <2>2, FS_EmptySet
    <2>3. CASE admitted[p] # {}
      <3>1. PICK x : admitted[p] = {x}
        BY <2>1, <2>3
      <3>2. Cardinality({x}) = 1
        BY FS_Singleton
      <3> QED
        BY <3>1, <3>2
    <2> QED
      BY <2>2, <2>3
  <1>2. IInv => PortableOnePhone
    BY <1>1 DEF PortableOnePhone
  <1> QED
    BY <1>2, Invariant, PTL

\* A phone that nobody knows becomes known through a pairing window only, and
\* uses it up (Agent.handle).
THEOREM EnrolsThroughWindow == Spec => EnrolledThroughWindow
  <1> DEFINE Enrols == \A ph \in Known' \ Known : \E p \in Procs :
          /\ pairOnce[p] /\ ~pairOnce'[p]
          /\ Known' \ Known = {ph}
  <1>1. ASSUME IInv, [Next]_vars PROVE Enrols
    <2>1. CASE \A p \in Procs, ph \in Phones : ~Enroll(p, ph)
      BY <1>1, <2>1, KnownStep DEF IInv
    <2>2. CASE \E p \in Procs, ph \in Phones : Enroll(p, ph)
      <3>1. PICK p \in Procs, ph \in Phones : Enroll(p, ph)
        BY <2>2
      <3>2. /\ pairOnce[p] /\ ~pairOnce'[p]
            /\ Known' \subseteq Known \cup {ph}
        BY <1>1, <3>1, EnrollStep DEF IInv
      <3> QED
        BY <3>2
    <2> QED
      BY <2>1, <2>2
  <1>2. IInv /\ [Next]_vars => [Enrols]_vars
    BY <1>1
  <1> QED
    BY <1>2, Invariant, PTL DEF Spec, EnrolledThroughWindow
=============================================================================
