----------------------------- MODULE AdbWatcher -----------------------------
(***************************************************************************)
(* The ADB watcher of the daemon (Agent.adbWatcher), which every two       *)
(* seconds lists the attached phones, gives each the reverse tunnel        *)
(* through which it reaches the daemon, and starts the trust service of a  *)
(* phone that needs it; and the pulse that a new session asks for on the   *)
(* phone it is with (Agent.pulseOwnerVisual).  Both take the set of phones *)
(* that the watcher has noted for the set of phones that are there.        *)
(*                                                                         *)
(* A sweep whose adb commands fail before it has the list changes nothing  *)
(* and is a stuttering step.  A phone is named by its serial.  Whether its *)
(* trust service runs is left open: a start may fail, the service crash,   *)
(* and the owner open it by hand.  So is whether the phone of a session    *)
(* was known (Enrollment); the steps of a session are in TrustSessions,    *)
(* here it is up or down.                                                  *)
(***************************************************************************)
EXTENDS Naturals, FiniteSets

CONSTANTS
    Devices,    \* phones, by serial
    NoDevice,
    Target,     \* --serial, or NoDevice
    LANPhones,  \* phones that reach a listener on the local network
    Limit       \* ticks that make up the 30 seconds between two wakes

ASSUME AdbAssumption ==
    /\ IsFiniteSet(Devices)
    /\ {NoDevice, "owed"} \cap Devices = {} /\ NoDevice # "owed"
    /\ Target \in Devices \cup {NoDevice}
    /\ LANPhones \subseteq Devices
    /\ Limit \in Nat \ {0}

VARIABLES
    attached,   \* phones that adb lists as "device"
    reversed,   \* attached phones with the tunnel
    sessions,   \* phones with a session
    pairOnce,   \* Agent.pairOnce
    seen,       \* Agent.seenADB
    lastWake,   \* Agent.lastWake, as the ticks since; Limit for none or longer
    pc,         \* where the sweep stands
    current,    \* the phones of this sweep
    todo,       \* those it has not come to
    dev,        \* the one it is at
    first,      \* ... which it had not noted before
    pulse,      \* the pulse of the last session of each phone
    quiet       \* history: ticks since a phone was plugged in or woken

phoneVars == <<attached, reversed>>
sessionVars == <<sessions, pairOnce, pulse>>
sweepVars == <<pc, current, todo, dev, first>>
vars == <<phoneVars, sessionVars, sweepVars, seen, lastWake, quiet>>

Ticks == 0..Limit
\* The phones that the watcher handles.
Listed == IF Target = NoDevice THEN attached ELSE attached \cap {Target}

\* Every variable keeps its type: in particular a wake is remembered only for a
\* phone that is noted (adbSweep), so that both maps stay small.
TypeOK ==
    /\ attached \subseteq Devices
    /\ reversed \subseteq attached
    /\ sessions \subseteq Devices
    /\ pairOnce \in BOOLEAN
    /\ seen \subseteq Devices
    /\ lastWake \in [Devices -> Ticks]
    /\ \A d \in Devices \ seen : lastWake[d] = Limit
    /\ pc \in {"idle", "reverse", "note", "decide", "check", "wake", "next"}
    /\ current \subseteq Devices
    /\ todo \subseteq current
    /\ dev \in Devices \cup {NoDevice}
    /\ pc \in {"note", "decide", "check", "wake", "next"} => dev \in current \ todo
    /\ first \in BOOLEAN
    /\ pulse \in [Devices -> Devices \cup {NoDevice, "owed"}]
    /\ quiet \in [Devices -> Ticks]

\* A tunnel of before the daemon was started is still there.
Init ==
    /\ attached \in SUBSET Devices
    /\ reversed \in SUBSET attached
    /\ sessions = {}
    /\ pairOnce \in BOOLEAN
    /\ seen = {}
    /\ lastWake = [d \in Devices |-> Limit]
    /\ pc = "idle"
    /\ current = {}
    /\ todo = {}
    /\ dev = NoDevice
    /\ first = FALSE
    /\ pulse = [d \in Devices |-> NoDevice]
    /\ quiet = [d \in Devices |-> Limit]

-----------------------------------------------------------------------------
(* The sweep. *)

At(from, to) ==
    /\ pc = from
    /\ pc' = to

List ==
    /\ At("idle", "reverse")
    /\ current' = Listed
    /\ todo' = Listed
    /\ UNCHANGED <<phoneVars, sessionVars, dev, first, seen, lastWake, quiet>>

\* adb reverse, which may fail, and does for a phone that has gone.
Reverse(d) ==
    /\ d \in todo
    /\ At("reverse", "note")
    /\ dev' = d
    /\ todo' = todo \ {d}
    /\ \/ UNCHANGED reversed
       \/ d \in attached /\ reversed' = reversed \cup {d}
    /\ UNCHANGED <<attached, sessionVars, current, first, seen,
                   lastWake, quiet>>

Note ==
    /\ At("note", "decide")
    /\ first' = (dev \notin seen)
    /\ seen' = seen \cup {dev}
    /\ UNCHANGED <<phoneVars, sessionVars, current, todo, dev, lastWake, quiet>>

\* A phone that is new is woken; any other only without a pairing window.
Decide ==
    /\ \/ first /\ At("decide", "wake")
       \/ ~first /\ pairOnce /\ At("decide", "next")
       \/ ~first /\ ~pairOnce /\ At("decide", "check")
    /\ UNCHANGED <<phoneVars, sessionVars, current, todo, dev, first, seen,
                   lastWake, quiet>>

\* Mutant: asking whether a wake is due counts as one.
CheckAndMark ==
    /\ At("check", IF sessions = {} /\ lastWake[dev] = Limit THEN "wake" ELSE "next")
    /\ lastWake' = [lastWake EXCEPT ![dev] = 0]
    /\ UNCHANGED <<phoneVars, sessionVars, current, todo, dev, first, seen, quiet>>

\* shouldHeadlessWake: any session at all will do, and the limit.
Check ==
    /\ At("check", IF sessions = {} /\ lastWake[dev] = Limit THEN "wake" ELSE "next")
    /\ UNCHANGED <<phoneVars, sessionVars, current, todo, dev, first, seen,
                   lastWake, quiet>>

\* Mutant: only a start that worked counts against the limit.
WakeUntilStarted ==
    /\ At("wake", "next")
    /\ \/ UNCHANGED lastWake
       \/ lastWake' = [lastWake EXCEPT ![dev] = 0]
    /\ quiet' = [quiet EXCEPT ![dev] = 0]
    /\ UNCHANGED <<phoneVars, sessionVars, current, todo, dev, first, seen>>

\* wakeAndroid, whether or not am start works.
Wake ==
    /\ At("wake", "next")
    /\ lastWake' = [lastWake EXCEPT ![dev] = 0]
    /\ quiet' = [quiet EXCEPT ![dev] = 0]
    /\ UNCHANGED <<phoneVars, sessionVars, current, todo, dev, first, seen>>

NextDevice ==
    /\ At("next", "reverse")
    /\ UNCHANGED <<phoneVars, sessionVars, current, todo, dev, first, seen,
                   lastWake, quiet>>

\* Mutant: when a phone was woken is not forgotten with it.
EndSweepInPart ==
    /\ todo = {}
    /\ At("reverse", "idle")
    /\ seen' = seen \cap current
    /\ current' = {}
    /\ dev' = NoDevice
    /\ first' = FALSE
    /\ UNCHANGED <<phoneVars, sessionVars, todo, lastWake, quiet>>

\* What has gone is forgotten, and may be woken at once when it is back.
EndSweep ==
    /\ todo = {}
    /\ At("reverse", "idle")
    /\ seen' = seen \cap current
    /\ lastWake' = [d \in Devices |->
           IF d \in seen \ current THEN Limit ELSE lastWake[d]]
    /\ current' = {}
    /\ dev' = NoDevice
    /\ first' = FALSE
    /\ UNCHANGED <<phoneVars, sessionVars, todo, quiet>>

Sweep ==
    \/ List
    \/ \E d \in Devices : Reverse(d)
    \/ Note
    \/ Decide
    \/ Check
    \/ Wake
    \/ NextDevice
    \/ EndSweep

-----------------------------------------------------------------------------
(* Sessions and their pulses. *)

\* A phone that was not known is enrolled, and closes the window.
SessionUp(d) ==
    /\ d \in reversed \cup LANPhones
    /\ d \notin sessions
    /\ \A e \in Devices : pulse[e] = NoDevice    \* bound: one pulse under way
    /\ sessions' = sessions \cup {d}
    /\ pairOnce' \in {pairOnce, FALSE}
    /\ pulse' = [pulse EXCEPT ![d] = "owed"]
    /\ UNCHANGED <<phoneVars, sweepVars, seen, lastWake, quiet>>

\* Mutant: some phone that is noted.
AnyChoice == IF Target # NoDevice THEN {Target} ELSE IF seen = {} THEN {NoDevice} ELSE seen
Choices ==
    IF Target # NoDevice THEN {Target}
    ELSE IF Cardinality(seen) = 1 THEN seen ELSE {NoDevice}

\* pulseOwnerVisual, under Agent.mu, later than the session is up.
PulseChoose(d) ==
    /\ pulse[d] = "owed"
    /\ \E s \in Choices : pulse' = [pulse EXCEPT ![d] = s]
    /\ UNCHANGED <<phoneVars, sessions, pairOnce, sweepVars, seen, lastWake, quiet>>

\* ... and its goroutine has asked for it.
PulseRun(d) ==
    /\ pulse[d] \in Devices
    /\ pulse' = [pulse EXCEPT ![d] = NoDevice]
    /\ UNCHANGED <<phoneVars, sessions, pairOnce, sweepVars, seen, lastWake, quiet>>

SessionDown(d) ==
    /\ d \in sessions
    /\ sessions' = sessions \ {d}
    /\ UNCHANGED <<phoneVars, pairOnce, pulse, sweepVars, seen,
                   lastWake, quiet>>

-----------------------------------------------------------------------------
(* Phones and time. *)

Plug(d) ==
    /\ d \notin attached
    /\ attached' = attached \cup {d}
    /\ quiet' = [quiet EXCEPT ![d] = Limit]
    /\ UNCHANGED <<reversed, sessionVars, sweepVars, seen, lastWake>>

Unplug(d) ==
    /\ d \in attached
    /\ attached' = attached \ {d}
    /\ reversed' = reversed \ {d}
    /\ UNCHANGED <<sessionVars, sweepVars, seen, lastWake, quiet>>

Later(age) == [d \in Devices |-> IF age[d] = Limit THEN Limit ELSE age[d] + 1]
Tick ==
    /\ lastWake' = Later(lastWake)
    /\ quiet' = Later(quiet)
    /\ UNCHANGED <<phoneVars, sessionVars, sweepVars, seen>>

Phones ==
    \E d \in Devices :
        \/ SessionUp(d) \/ PulseChoose(d) \/ PulseRun(d) \/ SessionDown(d)
        \/ Plug(d) \/ Unplug(d)

Next == Sweep \/ Phones \/ Tick

Spec == Init /\ [][Next]_vars

\* The watcher's goroutine runs, adb commands return, and not every listing
\* fails; and time passes.
FairSpec == Spec /\ WF_vars(Sweep) /\ WF_vars(Tick)

-----------------------------------------------------------------------------
\* A phone is woken at most once in thirty seconds from when it was plugged in,
\* whether or not a start works and however often the service crashes, while
\* phones come and go between the listing and the wake
\* (docs/RUNTIME-RECOVERY.md; shouldHeadlessWake, adbSweep).
WakeLimited ==
    [][pc = "wake" /\ pc' = "next" => quiet[dev] = Limit]_vars

\* A phone that stays attached while no session is up is woken again and again:
\* no crash of its service, and no order of sweeps and arrivals, leaves it
\* without a service for good, unless a pairing window is open (adbSweep).
WokenAgain ==
    \A d \in Devices :
        (d \in attached /\ Target \in {d, NoDevice} /\ ~pairOnce) ~>
        (quiet[d] = 0 \/ d \notin attached \/ sessions # {})

Pulses(d, s) == pulse[d] = "owed" /\ pulse'[d] = s

\* A pulse shows on the phone of its session, or nowhere, if the watcher had
\* noted that phone and still does, whatever else is attached, comes or goes
\* between the session and the choice (pulseOwnerVisual).
PulseOnNotedPhone ==
    [][\A d \in seen, s \in Devices : Pulses(d, s) => s = d]_vars

\* docs/TRUST-VISUAL.md:13: with several phones attached and no --serial, a trust
\* signal cannot be emitted on the wrong phone.
WrongPhoneNever ==
    [][\A d, s \in Devices :
          Pulses(d, s) /\ Cardinality(attached) > 1 /\ Target = NoDevice => s = d]_vars
=============================================================================
