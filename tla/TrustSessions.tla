--------------------------- MODULE TrustSessions ---------------------------
(***************************************************************************)
(* The trust-session core of the host agent (main.go): every accepted TCP  *)
(* connection gets its own goroutine running Agent.handle, and all of them *)
(* share the maps sessions, live and lastPresence behind Agent.mu.         *)
(*                                                                         *)
(* One step of a handler is one critical section (sessionUp, sessionTouch, *)
(* sessionDown: the map updates and the three state files written before   *)
(* the unlock) or one "report": what the same function does after the      *)
(* unlock, namely the journal entry and the hooks it decided on.  Other    *)
(* handlers run between the two.  Hooks are started with "go cmd.Run()",   *)
(* so they finish in any order, later than everything else.                *)
(*                                                                         *)
(* A phone is external.  It keeps at most one socket open, sends heartbeat *)
(* lines that tell its lock state or do not, and may vanish without a      *)
(* word; the host notices only when a read fails or stays silent for 8     *)
(* seconds, so an old handler of a phone may still be running when its     *)
(* next one comes up.                                                      *)
(***************************************************************************)
EXTENDS Integers, Sequences, FiniteSets

CONSTANTS
    Phones,      \* fingerprints of paired phones
    NoPhone,     \* "owner-mode.json does not exist"
    Conns,       \* connection slots, each running one handler at a time
    Reused,      \* bound: slots that may accept another connection later
    NoConn,      \* "no entry in Agent.live"
    PhoneOf,     \* the phone that uses a slot
    Configured,  \* hooks with a non-empty command line flag
    WatchADB,    \* FALSE under --no-adb-watch
    Spoken,      \* what the phones may say: subset of Topics
    MaxWire,     \* bound: heartbeat lines buffered on one connection
    MaxPending,  \* bound: hooks started and not finished
    MaxCrashes   \* bound: times the daemon is killed

HookNames == {"trust", "untrust", "presence", "absence"}
Rising == {"trust", "presence"}
Opposite == [trust |-> "untrust", presence |-> "absence"]
EventKinds == {"none", "unlocked", "locked", "lost"}
Topics == {"POLL", "PING", "BYE", "OTHER"}
\* "PING" stands for PING and for a POLL without a lock state.
Heartbeats == {"POLL_UNLOCKED", "POLL_LOCKED", "PING"}
Lines == Heartbeats \cup {"BYE", "OTHER"}
Steps == {"idle", "auth", "upReport", "loop", "touchReport", "downReport",
          "closed"}

ASSUME ConnsAssumption ==
    /\ NoPhone \notin Phones
    /\ NoConn \notin Conns
    /\ Reused \subseteq Conns
    /\ PhoneOf \in [Conns -> Phones]
    /\ Configured \subseteq HookNames
    /\ WatchADB \in BOOLEAN
    /\ Spoken \subseteq Topics
\* A process runs finitely many goroutines.
ASSUME FiniteAssumption == IsFiniteSet(Conns)
ASSUME BoundsAssumption ==
    /\ MaxWire \in Nat
    /\ MaxPending \in Nat
    /\ MaxCrashes \in Nat

VARIABLES
    locked,        \* the phone's screen lock
    link,          \* the phone's end of the connection is open
    wire,          \* lines sent and not yet read by the handler
    pc,            \* where the handler stands
    userPresent,   \* liveSession.userPresent of this handler's session
    todo,          \* event and hooks the handler owes after its unlock
    sessions,      \* Agent.sessions
    live,          \* Agent.live
    lastPresence,  \* Agent.lastPresence, as a set of at most one value
    older,         \* order of Session.LastSeen: phones seen before this one
    sessionFile,   \* session.json
    ownerMode,     \* owner-mode.json: the phone it names
    ui,            \* ui-state.json
    journal,       \* events.jsonl: what its last entry about the phone says
    pending,       \* hooks started and not finished
    net,           \* history: runs of a hook minus runs of its opposite
    synced,        \* history: session.json and owner-mode.json have been
                   \* written or deleted since the daemon was last killed
    crashes        \* history: times the daemon was killed

phoneVars == <<locked, link, wire>>
handlerVars == <<pc, userPresent, todo>>
registryVars == <<sessions, live, lastPresence, older>>
fileVars == <<sessionFile, ownerMode, ui, synced>>
reportVars == <<journal, pending, net>>
vars == <<phoneVars, handlerVars, registryVars, fileVars, reportVars, crashes>>

-----------------------------------------------------------------------------
(* Data.  A missing key of Agent.sessions reads as Go's zero Session. *)

SessionRec == [held : BOOLEAN, trusted : BOOLEAN, present : BOOLEAN]
Absent == [held |-> FALSE, trusted |-> FALSE, present |-> FALSE]
NothingToDo == [event |-> "none", hooks |-> {}]

Held(S) == {p \in Phones : S[p].held}
Trusted(S) == {p \in Phones : S[p].held /\ S[p].trusted}
UserPresent(S) == {p \in Phones : S[p].held /\ S[p].present}
AnyPresent(S) == Trusted(S) \cap UserPresent(S) # {}

\* LastSeen := time.Now() for p; only the order of the held sessions matters.
Stamped(p) ==
    [q \in Phones |-> IF q = p THEN Held(sessions) \ {p} ELSE older[q] \ {p}]
Forgotten(p) == [q \in Phones |-> IF q = p THEN {} ELSE older[q] \ {p}]

\* Mutant: forgets to skip the locked phones.
NewestOfAll(S, old) ==
    LET dated == Trusted(S)
    IN  IF dated = {} THEN {NoPhone}
        ELSE {p \in dated : dated \ {p} \subseteq old[p]}

\* Mutant: compares LastSeen only, so an undated session can win.
NewestUndated(S, old) ==
    LET present == UserPresent(S)
    IN  IF present = {} THEN {NoPhone}
        ELSE {p \in present : present \ {p} \subseteq old[p]}

\* The session writeOwnerModeLocked may end on.  It walks the map in any
\* order and keeps the newest present one, but a kept session whose Since is
\* zero (one that sessionTouch made) is replaced by whatever comes next, and
\* ending on it removes the file.
OwnerModeChoices(S, old) ==
    LET present == UserPresent(S)
        dated == present \cap Trusted(S)
        newest == {p \in dated : dated \ {p} \subseteq old[p]}
        misled == {z \in present \ dated : newest \cap old[z] # {}}
    IN  IF dated = {} THEN {NoPhone}
        ELSE IF misled = {} THEN newest
        ELSE dated \cup {NoPhone}

UIOf(S) == [trusted |-> Trusted(S) # {}, present |-> UserPresent(S) # {}]
AuthorityEnabled == ui.trusted /\ ui.present

\* Mutant: leaves ui-state.json to the next sweep.
WriteFilesButUI(S, old) ==
    /\ sessionFile' = S
    /\ ownerMode' \in OwnerModeChoices(S, old)
    /\ UNCHANGED ui
    /\ synced' = TRUE

\* Mutant: leaves owner-mode.json to the next write.
WriteFilesButOwnerMode(S, old) ==
    /\ sessionFile' = S
    /\ UNCHANGED ownerMode
    /\ ui' = UIOf(S)
    /\ synced' = TRUE

\* writeSessionLocked, writeOwnerModeLocked, writeUIStateLocked, in one
\* critical section with the change of the maps to S and old.
WriteFiles(S, old) ==
    /\ sessionFile' = S
    /\ ownerMode' \in OwnerModeChoices(S, old)
    /\ ui' = UIOf(S)
    /\ synced' = TRUE

\* The edges on which a section fires its hooks, from the maps before it and
\* the sessions S after it.
WasEmpty == Held(sessions) = {}
NowEmptyTooSoon(S) == Held(sessions) = {}  \* Mutant: counted before the delete
NowEmpty(S) == Held(S) = {}
PresenceGained(S) == ~AnyPresent(sessions) /\ AnyPresent(S)
\* Mutant: looks at whether some phone locked, not whether one is still open.
PresenceLostByOne(S) == UserPresent(sessions) \ UserPresent(S) # {}
PresenceLost(S) == AnyPresent(sessions) /\ ~AnyPresent(S)

When(condition, hook) == IF condition THEN {hook} ELSE {}
Owe(c, event, hooks) ==
    todo' = [todo EXCEPT ![c] = [event |-> event, hooks |-> hooks]]

-----------------------------------------------------------------------------
Init ==
    /\ locked \in [Phones -> BOOLEAN]
    /\ link = [c \in Conns |-> FALSE]
    /\ wire = [c \in Conns |-> <<>>]
    /\ pc = [c \in Conns |-> "idle"]
    /\ userPresent = [c \in Conns |-> FALSE]
    /\ todo = [c \in Conns |-> NothingToDo]
    /\ sessions = [p \in Phones |-> Absent]
    /\ live = [p \in Phones |-> NoConn]
    /\ lastPresence = [p \in Phones |-> {}]
    /\ older = [p \in Phones |-> {}]
    /\ sessionFile = [p \in Phones |-> Absent]
    /\ ownerMode = NoPhone
    /\ ui = UIOf([p \in Phones |-> Absent])
    /\ journal = [p \in Phones |-> "lost"]
    /\ pending = [h \in Configured |-> 0]
    /\ net = [h \in Rising |-> 0]
    /\ synced = TRUE
    /\ crashes = 0

-----------------------------------------------------------------------------
(* The phone. *)

Linked(p) == \E c \in Conns : PhoneOf[c] = p /\ link[c]

ToggleLock(p) ==
    /\ locked' = [locked EXCEPT ![p] = ~@]
    /\ UNCHANGED <<link, wire, handlerVars, registryVars, fileVars, reportVars,
                   crashes>>

Send(c, line) ==
    /\ link[c]
    /\ Len(wire[c]) < MaxWire
    /\ wire' = [wire EXCEPT ![c] = Append(@, line)]
    /\ UNCHANGED <<locked, handlerVars, registryVars, fileVars, reportVars,
                   crashes>>

SendPoll(c) ==
    /\ "POLL" \in Spoken
    /\ Send(c, IF locked[PhoneOf[c]] THEN "POLL_LOCKED" ELSE "POLL_UNLOCKED")
    /\ UNCHANGED link
\* Says nothing of the lock.
SendPing(c) == "PING" \in Spoken /\ Send(c, "PING") /\ UNCHANGED link
SendOther(c) == "OTHER" \in Spoken /\ Send(c, "OTHER") /\ UNCHANGED link
SendBye(c) ==
    /\ "BYE" \in Spoken
    /\ Send(c, "BYE")
    /\ link' = [link EXCEPT ![c] = FALSE]

LoseLink(c) ==
    /\ link[c]
    /\ link' = [link EXCEPT ![c] = FALSE]
    /\ UNCHANGED <<locked, wire, handlerVars, registryVars, fileVars,
                   reportVars, crashes>>

-----------------------------------------------------------------------------
(* The handler. *)

\* A phone with no open socket dials in and both sides authenticate; the
\* session takes its first presence from PHONE_STATE in the phone's frame.
Handshake(c) ==
    /\ pc[c] = "idle"
    /\ ~Linked(PhoneOf[c])
    /\ pc' = [pc EXCEPT ![c] = "auth"]
    /\ link' = [link EXCEPT ![c] = TRUE]
    /\ userPresent' = [userPresent EXCEPT ![c] = ~locked[PhoneOf[c]]]
    /\ UNCHANGED <<locked, wire, todo, registryVars, fileVars, reportVars,
                   crashes>>

SessionUp(c) ==
    LET p == PhoneOf[c]
        S == [sessions EXCEPT ![p] = [held |-> TRUE, trusted |-> TRUE,
                                      present |-> userPresent[c]]]
    IN  /\ pc[c] = "auth"
        /\ pc' = [pc EXCEPT ![c] = "upReport"]
        /\ live' = [live EXCEPT ![p] = c]
        /\ sessions' = S
        /\ older' = Stamped(p)
        /\ WriteFiles(S, Stamped(p))
        /\ Owe(c, "none",
                  When(WasEmpty, "trust") \cup
                  When(PresenceGained(S), "presence"))
        /\ UNCHANGED <<phoneVars, userPresent, lastPresence, reportVars, crashes>>

\* Mutant: a heartbeat renews the whole session.
TouchedRenewed(p, here) ==
    [sessions EXCEPT ![p] = [held |-> TRUE, trusted |-> TRUE, present |-> here]]
Touched(p, here) ==
    [sessions EXCEPT ![p] =
        [held |-> TRUE, trusted |-> sessions[p].trusted, present |-> here]]

\* Mutant: sets the presence in sessions only.
PresenceUntold(p, here) == userPresent
\* Presence goes to the session live points at, not to the handler's own.
PresenceTold(p, here) ==
    [d \in Conns |-> IF live[p] = d THEN here ELSE userPresent[d]]

SessionTouch(c, here) ==
    LET p == PhoneOf[c]
        S == Touched(p, here)
        event == IF lastPresence[p] = {here} THEN "none"
                 ELSE IF here THEN "unlocked" ELSE "locked"
    IN  /\ lastPresence' = [lastPresence EXCEPT ![p] = {here}]
        /\ userPresent' = PresenceTold(p, here)
        /\ sessions' = S
        /\ older' = Stamped(p)
        /\ WriteFiles(S, Stamped(p))
        /\ Owe(c, event, When(PresenceGained(S), "presence") \cup
                         When(PresenceLost(S), "absence"))
        /\ UNCHANGED live

\* Mutant: any heartbeat counts as presence.
ReadAnyPoll(c) ==
    /\ pc[c] = "loop" /\ wire[c] # <<>>
    /\ Head(wire[c]) \in Heartbeats
    /\ SessionTouch(c, TRUE)
    /\ wire' = [wire EXCEPT ![c] = Tail(@)]
    /\ pc' = [pc EXCEPT ![c] = "touchReport"]
    /\ UNCHANGED <<locked, link, reportVars, crashes>>

\* A heartbeat counts as presence unless it says LOCKED.
ReadPoll(c) ==
    /\ pc[c] = "loop" /\ wire[c] # <<>>
    /\ Head(wire[c]) \in Heartbeats
    /\ SessionTouch(c, Head(wire[c]) # "POLL_LOCKED")
    /\ wire' = [wire EXCEPT ![c] = Tail(@)]
    /\ pc' = [pc EXCEPT ![c] = "touchReport"]
    /\ UNCHANGED <<locked, link, reportVars, crashes>>

\* "ERR fixed-protocol-only": answered, and the connection stays.
ReadOther(c) ==
    /\ pc[c] = "loop" /\ wire[c] # <<>>
    /\ Head(wire[c]) = "OTHER"
    /\ wire' = [wire EXCEPT ![c] = Tail(@)]
    /\ UNCHANGED <<locked, link, handlerVars, registryVars, fileVars,
                   reportVars, crashes>>

\* Mutant: deletes the session and not the live entry.
ForgetButLive(p) ==
    /\ lastPresence' = [lastPresence EXCEPT ![p] = {}]
    /\ UNCHANGED live
\* Mutant: remembers the presence of the session that ended.
ForgetButPresence(p) ==
    /\ live' = [live EXCEPT ![p] = NoConn]
    /\ UNCHANGED lastPresence
Forget(p) ==
    /\ live' = [live EXCEPT ![p] = NoConn]
    /\ lastPresence' = [lastPresence EXCEPT ![p] = {}]

\* The deferred sessionDown: by fingerprint, whichever handler runs it.
SessionDown(c) ==
    LET p == PhoneOf[c]
        S == [sessions EXCEPT ![p] = Absent]
    IN  /\ sessions' = S
        /\ Forget(p)
        /\ older' = Forgotten(p)
        /\ WriteFiles(S, Forgotten(p))
        /\ Owe(c, "lost", When(NowEmpty(S), "untrust") \cup
                          When(PresenceLost(S), "absence"))
        /\ pc' = [pc EXCEPT ![c] = "downReport"]
        /\ UNCHANGED <<phoneVars, userPresent, reportVars, crashes>>

ReadBye(c) ==
    /\ pc[c] = "loop" /\ wire[c] # <<>>
    /\ Head(wire[c]) = "BYE"
    /\ SessionDown(c)

\* Mutant: no read deadline, so that only a failing write ends the handler.
ReadNeverFails(c) ==
    /\ pc[c] = "loop"
    /\ wire[c] # <<>> /\ ~link[c]
    /\ SessionDown(c)

\* Mutant: returns without the deferred sessionDown.
ReadFailsQuietly(c) ==
    /\ pc[c] = "loop"
    /\ wire[c] = <<>> \/ ~link[c]
    /\ pc' = [pc EXCEPT ![c] = "downReport"]
    /\ UNCHANGED <<phoneVars, userPresent, todo, registryVars, fileVars,
                   reportVars, crashes>>

\* Eight silent seconds, end of stream, or a PONG that cannot be written
\* (which abandons lines still buffered).
ReadFails(c) ==
    /\ pc[c] = "loop"
    /\ wire[c] = <<>> \/ ~link[c]
    /\ SessionDown(c)

\* The journal entry a handler makes; sessionUp's tells the presence that its
\* session has after the unlock.
Entry(c) ==
    IF pc[c] # "upReport" THEN todo[c].event
    ELSE IF userPresent[c] THEN "unlocked" ELSE "locked"

Running == {r \in Configured \X (1..MaxPending) : r[2] <= pending[r[1]]}

\* What sessionUp, sessionTouch and sessionDown do after a.mu.Unlock(); a
\* handler that has gone down then closes its socket and drops its session.
Report(c) ==
    LET started == todo[c].hooks \cap Configured
        p == PhoneOf[c]
        ends == pc[c] = "downReport"
    IN  /\ pc[c] \in {"upReport", "touchReport", "downReport"}
        /\ Cardinality(started) + Cardinality(Running) <= MaxPending
        /\ journal' = [journal EXCEPT ![p] =
               IF Entry(c) = "none" THEN @ ELSE Entry(c)]
        /\ pending' = [h \in Configured |->
               IF h \in started THEN pending[h] + 1 ELSE pending[h]]
        /\ todo' = [todo EXCEPT ![c] = NothingToDo]
        /\ pc' = [pc EXCEPT ![c] = IF ~ends THEN "loop"
                                     ELSE IF c \in Reused THEN "idle"
                                     ELSE "closed"]
        /\ link' = [link EXCEPT ![c] = @ /\ ~ends]
        /\ wire' = [wire EXCEPT ![c] = IF ends THEN <<>> ELSE @]
        /\ userPresent' = [userPresent EXCEPT ![c] = @ /\ ~ends]
        /\ UNCHANGED <<locked, registryVars, fileVars, net, crashes>>

HandlerStep(c) ==
    \/ SessionUp(c)
    \/ ReadPoll(c)
    \/ ReadOther(c)
    \/ ReadBye(c)
    \/ ReadFails(c)
    \/ Report(c)

-----------------------------------------------------------------------------
(* Around the handlers. *)

\* A hook command finishes.
RunHook(h) ==
    /\ pending[h] > 0
    /\ pending' = [pending EXCEPT ![h] = @ - 1]
    /\ net' = [r \in Rising |-> IF h = r THEN net[r] + 1
                                ELSE IF h = Opposite[r] THEN net[r] - 1
                                ELSE net[r]]
    /\ UNCHANGED <<phoneVars, handlerVars, registryVars, fileVars, journal,
                   crashes>>

\* Mutant: the sweep writes its own health file only.
WriteHealthOnly ==
    /\ WatchADB
    /\ UNCHANGED vars

\* Every sweep of the ADB watcher ends in writeDaemonHealth, which rewrites
\* ui-state.json, and only that file, from the sessions it finds.
WriteHealth ==
    /\ WatchADB
    /\ ui' = UIOf(sessions)
    /\ UNCHANGED <<phoneVars, handlerVars, registryVars, sessionFile, ownerMode,
                   synced, reportVars, crashes>>

\* The process dies and is started again: loadAgent begins with empty maps.
\* Hooks already running go on; goroutines that had not started them do not.
Restarted ==
    /\ crashes < MaxCrashes
    /\ crashes' = crashes + 1
    /\ pc' = [c \in Conns |-> "idle"]
    /\ link' = [c \in Conns |-> FALSE]
    /\ wire' = [c \in Conns |-> <<>>]
    /\ userPresent' = [c \in Conns |-> FALSE]
    /\ todo' = [c \in Conns |-> NothingToDo]
    /\ sessions' = [p \in Phones |-> Absent]
    /\ live' = [p \in Phones |-> NoConn]
    /\ lastPresence' = [p \in Phones |-> {}]
    /\ older' = [p \in Phones |-> {}]
    /\ \E kept \in [Configured -> 0..MaxPending] :
          /\ \A h \in Configured : kept[h] <= pending[h]
          /\ pending' = kept
    /\ UNCHANGED <<locked, journal, net, ui>>

\* Nothing in loadAgent or serve touches the files the old process left.
Crash ==
    /\ Restarted
    /\ synced' = FALSE
    /\ UNCHANGED <<sessionFile, ownerMode>>

\* The maintenance scripts kill the daemon and delete two of the files.
ScriptStop ==
    /\ Restarted
    /\ sessionFile' = [p \in Phones |-> Absent]
    /\ ownerMode' = NoPhone
    /\ synced' = TRUE

Next ==
    \/ \E p \in Phones : ToggleLock(p)
    \/ \E c \in Conns :
          \/ Handshake(c)
          \/ SendPoll(c)
          \/ SendPing(c)
          \/ SendOther(c)
          \/ SendBye(c)
          \/ LoseLink(c)
          \/ HandlerStep(c)
    \/ \E h \in Configured : RunHook(h)
    \/ WriteHealth
    \/ Crash
    \/ ScriptStop

Spec == Init /\ [][Next]_vars

\* The Go scheduler runs every runnable handler, the read deadline bounds
\* every read, hook commands finish, and the sweep runs every two seconds.
\* Nothing is assumed of the phones.
Fairness ==
    /\ \A c \in Conns : WF_vars(HandlerStep(c))
    /\ \A h \in Configured : WF_vars(RunHook(h))
    /\ WF_vars(WriteHealth)

FairSpec == Spec /\ Fairness

-----------------------------------------------------------------------------
(* What holds for every set of connections. *)

\* Every variable keeps its type; in particular the map lastPresence has entries
\* of phones with a session only, so it cannot grow with the phones ever seen.
TypeOK ==
    /\ locked \in [Phones -> BOOLEAN]
    /\ link \in [Conns -> BOOLEAN]
    /\ wire \in [Conns -> Seq(Lines)]
    /\ pc \in [Conns -> Steps]
    /\ userPresent \in [Conns -> BOOLEAN]
    /\ todo \in [Conns -> [event : EventKinds, hooks : SUBSET HookNames]]
    /\ sessions \in [Phones -> SessionRec]
    /\ live \in [Phones -> Conns \cup {NoConn}]
    /\ lastPresence \in [Phones -> SUBSET BOOLEAN]
    /\ \A p \in Phones : lastPresence[p] # {} => sessions[p].held
    /\ older \in [Phones -> SUBSET Phones]
    /\ sessionFile \in [Phones -> SessionRec]
    /\ ownerMode \in Phones \cup {NoPhone}
    /\ ui \in [trusted : BOOLEAN, present : BOOLEAN]
    /\ journal \in [Phones -> EventKinds]
    /\ pending \in [Configured -> Nat]
    /\ net \in [Rising -> Int]
    /\ synced \in BOOLEAN
    /\ crashes \in Nat

\* A handler between its sessionUp and its sessionDown.
Serving(c) == pc[c] \in {"upReport", "loop", "touchReport"}
Servers(p) == {c \in Conns : PhoneOf[c] = p /\ Serving(c)}

\* The two maps never disagree: authorize and status read live, the files and
\* the hooks come from sessions, and a phone is in live exactly when its
\* session is trusted, with the same presence, whichever handler spoke last.
LiveAgrees ==
    \A p \in Phones :
        /\ live[p] # NoConn <=> p \in Trusted(sessions)
        /\ live[p] # NoConn =>
              (userPresent[live[p]] <=> p \in UserPresent(sessions))

\* Agent.live never leads to a handler that has returned or that serves some
\* other phone: authorizeDetailed sends on that session's channel.
LiveIsServed ==
    \A p \in Phones : live[p] # NoConn => live[p] \in Servers(p)

\* No session outlives the handlers of its phone: whatever order handlers come
\* up, speak and go down in, the last sessionDown leaves no entry behind.
NoOrphanSession ==
    \A p \in Phones : sessions[p].held => Servers(p) # {}

\* owner-mode.json never names a phone that is not both trusted and present,
\* once the running daemon has written it.
OwnerModeHonest ==
    synced /\ ownerMode # NoPhone =>
        ownerMode \in Trusted(sessions) \cap UserPresent(sessions)

\* Trust starts only in sessionUp: a heartbeat of a handler whose entry was
\* deleted under it brings back a session that is not trusted.
TrustNeedsHandshake ==
    [][\A p \in Trusted(sessions') \ Trusted(sessions) :
          \E c \in Conns : /\ PhoneOf[c] = p
                           /\ pc[c] = "auth" /\ pc'[c] = "upReport"]_vars

\* A phone that vanishes for good, with or without a BYE, eventually has no
\* session: some read of each of its handlers fails.
VanishedPhoneForgotten ==
    \A p \in Phones : <>[](~Linked(p)) => <>[](~sessions[p].held)

\* A phone that stays locked eventually stops being the owner-mode phone, even
\* if heartbeats sent before it locked are still on their way, provided that it
\* says so: a PING or a bare POLL counts as presence whatever the lock, and a
\* line that is no heartbeat renews the read deadline and changes nothing, so a
\* locked phone that went on sending such lines would keep owner mode (handle).
Mutters(p) ==
    \E c \in Conns : /\ PhoneOf[c] = p
                     /\ \E i \in DOMAIN wire[c] : wire[c][i] \in {"PING", "OTHER"}
LockedPhoneSuspended ==
    \A p \in Phones :
        <>[](locked[p] /\ ~Mutters(p)) => <>[](synced => ownerMode # p)

\* ui-state.json never hides an owner whom authorizeDetailed would find present
\* in Agent.live: the handlers' critical sections and the sweeps both write it,
\* a killed daemon leaves an old one, and presence may be set by a heartbeat of
\* one handler on the session of another.
AuthorityShown ==
    (\E p \in Phones : live[p] # NoConn /\ userPresent[live[p]]) =>
        AuthorityEnabled

\* If every phone vanishes, ui-state.json ends up showing no trust and no
\* authority, even one left over from a killed daemon.
UISettles ==
    (\A p \in Phones : <>[](~Linked(p))) => <>[](~ui.trusted /\ ~AuthorityEnabled)

-----------------------------------------------------------------------------
(* What holds when the handlers of one phone never overlap. *)

OneConnPerPhone == \A c, d \in Conns : PhoneOf[c] = PhoneOf[d] => c = d

\* A handler past its sessionUp is the one Agent.live points at, so its phone
\* is trusted and reachable for proof requests until it goes down.
ConnectedIsTrusted ==
    \A c \in Conns : Serving(c) <=> live[PhoneOf[c]] = c

Owed(h) == Cardinality({c \in Conns : h \in todo[c].hooks}) + pending[h]

\* Hooks come in pairs: counting those owed, started and finished, on-trust is
\* one ahead of on-untrust while there is a session and level otherwise.
TrustBalance ==
    crashes = 0 /\ {"trust", "untrust"} \subseteq Configured =>
        Owed("trust") - Owed("untrust") + net["trust"] =
            IF Held(sessions) # {} THEN 1 ELSE 0

\* The same of on-presence and on-absence while some trusted phone is present.
PresenceBalance ==
    crashes = 0 /\ {"presence", "absence"} \subseteq Configured =>
        Owed("presence") - Owed("absence") + net["presence"] =
            IF AnyPresent(sessions) THEN 1 ELSE 0

\* Once its handler has reported, the last journal entry about a phone tells
\* the presence its session has, although sessionTouch writes an entry only
\* when lastPresence changes.
JournalTells ==
    \A p \in Phones :
        sessions[p].held /\ (\A c \in Servers(p) : pc[c] = "loop") =>
            journal[p] = IF sessions[p].present THEN "unlocked" ELSE "locked"

\* The core as the board of TrustBoard.
Board == INSTANCE TrustBoard WITH
             trusted <- Trusted(sessions),
             present <- Trusted(sessions) \cap UserPresent(sessions)
\* To the readers of its files and the clients of its control API the core is
\* that board: phones gain trust by arriving only, and owner-mode.json follows
\* every change of the maps (sessionUp, sessionTouch, sessionDown).
BoardSpec == Board!Spec

-----------------------------------------------------------------------------
(* What the repository says and the code does not do. *)

\* docs/INTEGRATION.md: session.json is written "while at least one mutually
\* authenticated owner phone session is alive".
SessionFileWhileConnected ==
    (\E c \in Conns : pc[c] = "loop" /\ link[c]) => Held(sessionFile) # {}

\* The flag --on-absence: "when owner presence becomes unavailable".
AbsenceAnnounced ==
    [][AnyPresent(sessions) /\ ~AnyPresent(sessions') =>
          \E c \in Conns : "absence" \in todo'[c].hooks]_vars
=============================================================================
