------------------------- MODULE TrustSessionsProofs -------------------------
(***************************************************************************)
(* TLAPS proofs about TrustSessions, for any phones, any connection slots  *)
(* and any bounds.                                                         *)
(***************************************************************************)
EXTENDS TrustSessions, TLAPS

LEMMA OwnerModeChoicesType ==
    ASSUME NEW S, NEW old
    PROVE  OwnerModeChoices(S, old) \subseteq
              {NoPhone} \cup (Trusted(S) \cap UserPresent(S))
  BY DEF OwnerModeChoices

LEMMA UIType == ASSUME NEW S
                PROVE  UIOf(S) \in [trusted : BOOLEAN, present : BOOLEAN]
  BY DEF UIOf

LEMMA WriteFilesType ==
    ASSUME NEW S \in [Phones -> SessionRec], NEW old, WriteFiles(S, old)
    PROVE  /\ sessionFile' \in [Phones -> SessionRec]
           /\ ownerMode' \in Phones \cup {NoPhone}
           /\ ui' \in [trusted : BOOLEAN, present : BOOLEAN]
           /\ synced' \in BOOLEAN
  <1>1. OwnerModeChoices(S, old) \subseteq Phones \cup {NoPhone}
    BY OwnerModeChoicesType DEF Trusted
  <1>2. QED
    BY <1>1, UIType DEF WriteFiles

LEMMA TouchedType ==
    ASSUME sessions \in [Phones -> SessionRec], NEW p \in Phones,
           NEW here \in BOOLEAN
    PROVE  /\ Touched(p, here) \in [Phones -> SessionRec]
           /\ \A q \in Phones : Touched(p, here)[q] =
                 IF q = p THEN [held |-> TRUE, trusted |-> sessions[p].trusted,
                                present |-> here]
                 ELSE sessions[q]
  BY DEF Touched, SessionRec

LEMMA TypeInit == Init => TypeOK
  <1> SUFFICES ASSUME Init PROVE TypeOK
    OBVIOUS
  <1>1. Absent \in SessionRec
    BY DEF Absent, SessionRec
  <1>2. ui \in [trusted : BOOLEAN, present : BOOLEAN]
    BY UIType DEF Init
  <1>3. NothingToDo \in [event : EventKinds, hooks : SUBSET HookNames]
    BY DEF NothingToDo, EventKinds
  <1>4. <<>> \in Seq(Lines)
    OBVIOUS
  <1>5. /\ wire \in [Conns -> Seq(Lines)]
        /\ net \in [Rising -> Int]
        /\ pending \in [Configured -> Nat]
    BY <1>4 DEF Init
  <1>6. /\ todo \in [Conns -> [event : EventKinds, hooks : SUBSET HookNames]]
        /\ sessions \in [Phones -> SessionRec]
        /\ sessionFile \in [Phones -> SessionRec]
    BY <1>1, <1>3 DEF Init
  <1>7. QED
    BY <1>2, <1>5, <1>6
    DEF Init, TypeOK, Steps, EventKinds

LEMMA TypeNext == TypeOK /\ [Next]_vars => TypeOK'
  <1> SUFFICES ASSUME TypeOK, [Next]_vars PROVE TypeOK'
    OBVIOUS
  <1> USE ConnsAssumption, BoundsAssumption
  <1>a. Absent \in SessionRec
    BY DEF Absent, SessionRec
  <1>n. NothingToDo \in [event : EventKinds, hooks : SUBSET HookNames]
    BY DEF NothingToDo, EventKinds
  <1>o. ASSUME NEW p \in Phones
        PROVE  Stamped(p) \in [Phones -> SUBSET Phones]
               /\ Forgotten(p) \in [Phones -> SUBSET Phones]
    BY <1>o DEF Stamped, Forgotten, TypeOK, Held
  <1>w. ASSUME NEW c \in Conns, NEW event \in EventKinds,
               NEW hooks \in SUBSET HookNames, Owe(c, event, hooks)
        PROVE  todo' \in [Conns -> [event : EventKinds, hooks : SUBSET HookNames]]
    BY <1>w DEF Owe, TypeOK
  <1>1. ASSUME NEW p \in Phones, ToggleLock(p) PROVE TypeOK'
    BY <1>1 DEF ToggleLock, TypeOK, handlerVars, registryVars, fileVars,
                reportVars
  <1>2. ASSUME NEW c \in Conns, Handshake(c) PROVE TypeOK'
    BY <1>2 DEF Handshake, TypeOK, registryVars, fileVars, reportVars, Steps
  <1>3. ASSUME NEW c \in Conns, NEW line \in Lines, Send(c, line),
               link' \in [Conns -> BOOLEAN]
        PROVE  TypeOK'
    <2>1. wire' \in [Conns -> Seq(Lines)]
      BY <1>3 DEF Send, TypeOK
    <2>2. QED
      BY <1>3, <2>1 DEF Send, TypeOK, handlerVars, registryVars, fileVars,
                        reportVars
  <1>4. ASSUME NEW c \in Conns,
               SendPoll(c) \/ SendPing(c) \/ SendOther(c) \/ SendBye(c)
        PROVE  TypeOK'
    BY <1>3, <1>4 DEF SendPoll, SendPing, SendOther, SendBye, Lines, Heartbeats,
                      TypeOK
  <1>5. ASSUME NEW c \in Conns, LoseLink(c) PROVE TypeOK'
    BY <1>5 DEF LoseLink, TypeOK, handlerVars, registryVars, fileVars,
                reportVars
  <1>6. ASSUME NEW c \in Conns, SessionUp(c) PROVE TypeOK'
    <2> DEFINE p == PhoneOf[c]
               S == [sessions EXCEPT ![p] = [held |-> TRUE, trusted |-> TRUE,
                                             present |-> userPresent[c]]]
    <2>1. S \in [Phones -> SessionRec]
      BY DEF TypeOK, SessionRec
    <2>2. WriteFiles(S, Stamped(p))
      BY <1>6 DEF SessionUp
    <2>3. todo' \in [Conns -> [event : EventKinds, hooks : SUBSET HookNames]]
      BY <1>6, <1>w DEF SessionUp, When, EventKinds, HookNames
    <2>4. QED
      BY <1>6, <1>o, <2>1, <2>2, <2>3, WriteFilesType
      DEF SessionUp, TypeOK, phoneVars, reportVars, Steps
  <1>7. ASSUME NEW c \in Conns, ReadPoll(c) PROVE TypeOK'
    <2> DEFINE p == PhoneOf[c]
               here == Head(wire[c]) # "POLL_LOCKED"
               S == Touched(p, here)
    <2>h. here \in BOOLEAN
      OBVIOUS
    <2>1. S \in [Phones -> SessionRec]
      BY <2>h, TouchedType DEF TypeOK
    <2>t. SessionTouch(c, here)
      BY <1>7 DEF ReadPoll
    <2>2. WriteFiles(S, Stamped(p))
      BY <2>t DEF SessionTouch
    <2>3. todo' \in [Conns -> [event : EventKinds, hooks : SUBSET HookNames]]
      BY <2>t, <1>w DEF SessionTouch, When, EventKinds, HookNames
    <2>4. userPresent' \in [Conns -> BOOLEAN]
      BY <2>t DEF SessionTouch, PresenceTold, TypeOK
    <2>5. wire' \in [Conns -> Seq(Lines)]
      <3>1. wire[c] \in Seq(Lines) /\ wire[c] # <<>>
        BY <1>7 DEF ReadPoll, TypeOK
      <3>2. Tail(wire[c]) \in Seq(Lines)
        BY <3>1
      <3>3. QED
        BY <1>7, <3>2 DEF ReadPoll, TypeOK
    <2>6. /\ sessions' \in [Phones -> SessionRec]
          /\ live' \in [Phones -> Conns \cup {NoConn}]
          /\ older' \in [Phones -> SUBSET Phones]
      BY <1>o, <2>1, <2>t DEF SessionTouch, TypeOK
    <2>7. lastPresence' \in [Phones -> SUBSET BOOLEAN]
      BY <2>h, <2>t DEF SessionTouch, TypeOK
    <2>8. /\ sessionFile' \in [Phones -> SessionRec]
          /\ ownerMode' \in Phones \cup {NoPhone}
          /\ ui' \in [trusted : BOOLEAN, present : BOOLEAN]
          /\ synced' \in BOOLEAN
      BY <2>1, <2>2, WriteFilesType
    <2>9. \A q \in Phones : lastPresence'[q] # {} => sessions'[q].held
      <3>1. \A q \in Phones : S[q].held \/ (q # p /\ S[q] = sessions[q])
        <4>1. sessions \in [Phones -> SessionRec] /\ p \in Phones
          BY DEF TypeOK
        <4> HIDE DEF here
        <4>2. \A q \in Phones : S[q] =
                IF q = p THEN [held |-> TRUE, trusted |-> sessions[p].trusted,
                               present |-> here]
                ELSE sessions[q]
          BY <2>h, <4>1, TouchedType
        <4> HIDE DEF S
        <4>3. QED
          BY <4>2
      <3>2. /\ sessions' = S
            /\ \A q \in Phones : q # p => lastPresence'[q] = lastPresence[q]
        BY <2>t DEF SessionTouch, TypeOK
      <3>3. QED
        BY <3>1, <3>2 DEF TypeOK
    <2>10. QED
      BY <1>7, <2>3, <2>4, <2>5, <2>6, <2>7, <2>8, <2>9
      DEF ReadPoll, TypeOK, reportVars, Steps
  <1>8. ASSUME NEW c \in Conns, ReadOther(c) PROVE TypeOK'
    <2>1. wire' \in [Conns -> Seq(Lines)]
      BY <1>8 DEF ReadOther, TypeOK
    <2>2. QED
      BY <1>8, <2>1 DEF ReadOther, TypeOK, handlerVars, registryVars, fileVars,
                        reportVars
  <1>9. ASSUME NEW c \in Conns, SessionDown(c) PROVE TypeOK'
    <2> DEFINE p == PhoneOf[c]
               S == [sessions EXCEPT ![p] = Absent]
    <2>1. S \in [Phones -> SessionRec]
      BY <1>a DEF TypeOK
    <2>2. WriteFiles(S, Forgotten(p))
      BY <1>9 DEF SessionDown
    <2>3. todo' \in [Conns -> [event : EventKinds, hooks : SUBSET HookNames]]
      BY <1>9, <1>w DEF SessionDown, When, EventKinds, HookNames
    <2>4. QED
      BY <1>9, <1>o, <2>1, <2>2, <2>3, WriteFilesType
      DEF SessionDown, Forget, TypeOK, phoneVars, reportVars, Steps
  <1>10. ASSUME NEW c \in Conns, Report(c) PROVE TypeOK'
    <2>1. /\ journal' \in [Phones -> EventKinds]
          /\ pending' \in [Configured -> Nat]
          /\ todo' \in [Conns -> [event : EventKinds, hooks : SUBSET HookNames]]
      BY <1>10, <1>n DEF Report, Entry, EventKinds, TypeOK
    <2>2. /\ pc' \in [Conns -> Steps]
          /\ link' \in [Conns -> BOOLEAN]
          /\ userPresent' \in [Conns -> BOOLEAN]
      BY <1>10 DEF Report, TypeOK, Steps
    <2>3. wire' \in [Conns -> Seq(Lines)]
      BY <1>10 DEF Report, TypeOK
    <2>4. QED
      BY <1>10, <2>1, <2>2, <2>3
      DEF Report, TypeOK, registryVars, fileVars
  <1>11. ASSUME NEW h \in Configured, RunHook(h) PROVE TypeOK'
    <2>1. pending' \in [Configured -> Nat]
      BY <1>11 DEF RunHook, TypeOK
    <2>2. net' \in [Rising -> Int]
      BY <1>11 DEF RunHook, TypeOK
    <2>3. QED
      BY <1>11, <2>1, <2>2
      DEF RunHook, TypeOK, phoneVars, handlerVars, registryVars, fileVars
  <1>12. CASE WriteHealth
    BY <1>12, UIType DEF WriteHealth, TypeOK, phoneVars, handlerVars,
                         registryVars, reportVars
  <1>13. CASE Crash \/ ScriptStop
    <2>1. Restarted
      BY <1>13 DEF Crash, ScriptStop
    <2>2. pending' \in [Configured -> Nat]
      BY <2>1 DEF Restarted
    <2>3. <<>> \in Seq(Lines)
      OBVIOUS
    <2>4. /\ wire' \in [Conns -> Seq(Lines)]
          /\ todo' \in [Conns -> [event : EventKinds, hooks : SUBSET HookNames]]
          /\ sessions' \in [Phones -> SessionRec]
      BY <1>a, <1>n, <2>1, <2>3 DEF Restarted
    <2>5. /\ sessionFile' \in [Phones -> SessionRec]
          /\ ownerMode' \in Phones \cup {NoPhone}
          /\ synced' \in BOOLEAN
      <3>1. CASE Crash
        BY <3>1 DEF Crash, TypeOK
      <3>2. CASE ScriptStop
        BY <3>2, <1>a DEF ScriptStop
      <3>3. QED
        BY <1>13, <3>1, <3>2
    <2>6. QED
      BY <2>1, <2>2, <2>4, <2>5 DEF Restarted, TypeOK, Steps
  <1>14. CASE UNCHANGED vars
    BY <1>14 DEF vars, TypeOK, phoneVars, handlerVars, registryVars, fileVars,
                 reportVars
  <1>15. QED
    BY <1>1, <1>2, <1>4, <1>5, <1>6, <1>7, <1>8, <1>9, <1>10, <1>11, <1>12,
       <1>13, <1>14
    DEF Next, HandlerStep, ReadBye, ReadFails

\* Every variable keeps its type.
THEOREM TypeCorrect == Spec => []TypeOK
  BY TypeInit, TypeNext, PTL DEF Spec

-----------------------------------------------------------------------------
(* The registry.  The invariant is inductive together with the types: that  *)
(* live points at a serving handler of the same phone is what keeps one     *)
(* phone's heartbeat, or a slot that a new connection takes over, from      *)
(* changing the presence another phone's entry has.                         *)

\* A missing key reads as the zero session, so a heartbeat that recreates an
\* entry finds it untrusted.
AbsentIsUntrusted ==
    \A p \in Phones : sessions[p].trusted => sessions[p].held

RegistryInv ==
    /\ LiveAgrees
    /\ LiveIsServed
    /\ NoOrphanSession
    /\ AbsentIsUntrusted

\* The same, phone by phone.
EntryInv(p) ==
    /\ sessions[p].trusted => sessions[p].held
    /\ live[p] # NoConn <=> sessions[p].held /\ sessions[p].trusted
    /\ live[p] # NoConn =>
          /\ live[p] \in Conns
          /\ PhoneOf[live[p]] = p
          /\ Serving(live[p])
          /\ userPresent[live[p]] <=> sessions[p].held /\ sessions[p].present
    /\ sessions[p].held => \E c \in Conns : PhoneOf[c] = p /\ Serving(c)

LEMMA EntryByEntry == RegistryInv <=> \A p \in Phones : EntryInv(p)
  BY DEF RegistryInv, LiveAgrees, LiveIsServed, NoOrphanSession, EntryInv,
         AbsentIsUntrusted,
         Servers, Trusted, UserPresent

LEMMA EntryByEntryNext == RegistryInv' <=> \A p \in Phones : EntryInv(p)'
  BY DEF RegistryInv, LiveAgrees, LiveIsServed, NoOrphanSession, EntryInv,
         AbsentIsUntrusted,
         Servers, Serving, Trusted, UserPresent

LEMMA RegistryInit == Init => RegistryInv
  BY DEF Init, RegistryInv, LiveAgrees, LiveIsServed, NoOrphanSession,
         AbsentIsUntrusted, Trusted, UserPresent, Absent

LEMMA RegistryNext == TypeOK /\ RegistryInv /\ [Next]_vars => RegistryInv'
  <1> SUFFICES ASSUME TypeOK, \A p \in Phones : EntryInv(p), [Next]_vars,
                      NEW q \in Phones
               PROVE  EntryInv(q)'
    BY EntryByEntry, EntryByEntryNext
  <1> USE ConnsAssumption
  <1>1. CASE UNCHANGED <<registryVars, handlerVars>>
    BY <1>1 DEF registryVars, handlerVars, Serving, EntryInv
  <1>2. ASSUME NEW c \in Conns, Handshake(c) PROVE EntryInv(q)'
    <2>1. \A d \in Conns : Serving(d)' <=> Serving(d)
      BY <1>2 DEF Handshake, Serving, TypeOK
    <2>2. live[q] # c
      BY <1>2 DEF EntryInv, Handshake, Serving
    <2>3. QED
      BY <1>2, <2>1, <2>2 DEF Handshake, registryVars, EntryInv, TypeOK
  <1>3. ASSUME NEW c \in Conns, SessionUp(c) PROVE EntryInv(q)'
    <2>1. \A d \in Conns : Serving(d)' <=> Serving(d) \/ d = c
      BY <1>3 DEF SessionUp, Serving, TypeOK
    <2>2. CASE q = PhoneOf[c]
      BY <1>3, <2>1, <2>2 DEF SessionUp, EntryInv, TypeOK
    <2>3. CASE q # PhoneOf[c]
      BY <1>3, <2>1, <2>3 DEF SessionUp, EntryInv, TypeOK
    <2>4. QED
      BY <2>2, <2>3
  <1>4. ASSUME NEW c \in Conns, ReadPoll(c) PROVE EntryInv(q)'
    <2> DEFINE p == PhoneOf[c]
               here == Head(wire[c]) # "POLL_LOCKED"
    <2>1. SessionTouch(c, here) /\ here \in BOOLEAN
      BY <1>4 DEF ReadPoll
    <2>2. /\ Serving(c)
          /\ \A d \in Conns : Serving(d)' <=> Serving(d)
      BY <1>4 DEF ReadPoll, Serving, TypeOK
    <2>3. /\ live' = live
          /\ userPresent' = [d \in Conns |->
                IF live[p] = d THEN here ELSE userPresent[d]]
      BY <2>1 DEF SessionTouch, PresenceTold
    <2>s. sessions' = Touched(p, here)
      BY <2>1 DEF SessionTouch
    <2> HIDE DEF here
    <2>4. sessions'[q] =
            IF q = p THEN [held |-> TRUE, trusted |-> sessions[p].trusted,
                           present |-> here]
            ELSE sessions[q]
      BY <2>1, <2>s, TouchedType DEF TypeOK
    <2>5. CASE q = p
      <3>1. /\ sessions'[q].held = TRUE
            /\ sessions'[q].trusted = sessions[q].trusted
            /\ sessions'[q].present = here
        BY <2>4, <2>5
      <3>2. live[q] # NoConn <=> sessions'[q].trusted
        BY <3>1 DEF EntryInv
      <3>3. live[q] # NoConn => userPresent'[live[q]] = here
        BY <2>3, <2>5 DEF EntryInv
      <3>4. QED
        BY <2>2, <2>3, <2>5, <3>1, <3>2, <3>3 DEF EntryInv
    <2>6. CASE q # p
      BY <2>2, <2>3, <2>4, <2>6 DEF EntryInv
    <2>7. QED
      BY <2>5, <2>6
  <1>5. ASSUME NEW c \in Conns, SessionDown(c), Serving(c) PROVE EntryInv(q)'
    <2>1. \A d \in Conns : Serving(d)' <=> Serving(d) /\ d # c
      BY <1>5 DEF SessionDown, Serving, TypeOK
    <2>2. CASE q = PhoneOf[c]
      BY <1>5, <2>2 DEF SessionDown, Forget, Absent, EntryInv, TypeOK
    <2>3. CASE q # PhoneOf[c]
      BY <1>5, <2>1, <2>3 DEF SessionDown, Forget, EntryInv, TypeOK
    <2>4. QED
      BY <2>2, <2>3
  <1>6. ASSUME NEW c \in Conns, Report(c) PROVE EntryInv(q)'
    <2>1. \A d \in Conns : Serving(d)' <=> Serving(d)
      BY <1>6 DEF Report, Serving, TypeOK
    <2>2. pc[c] = "downReport" => live[q] # c
      BY DEF EntryInv, Serving
    <2>3. live[q] \in Conns => userPresent'[live[q]] = userPresent[live[q]]
      BY <1>6, <2>2 DEF Report, TypeOK
    <2>4. QED
      BY <1>6, <2>1, <2>3 DEF Report, registryVars, EntryInv
  <1>7. CASE Restarted
    BY <1>7 DEF Restarted, Absent, EntryInv
  <1>8. QED
    BY <1>1, <1>2, <1>3, <1>4, <1>5, <1>6, <1>7
    DEF Next, HandlerStep, ToggleLock, SendPoll, SendPing, SendOther, SendBye, Send,
        LoseLink, ReadOther, ReadBye, ReadFails, RunHook, WriteHealth, Crash,
        ScriptStop, vars, Serving

LEMMA RegistryCorrect == Spec => []RegistryInv
  BY TypeCorrect, RegistryInit, RegistryNext, PTL DEF Spec

\* Agent.live and Agent.sessions agree, whichever of a phone's overlapping
\* handlers came up, spoke or went down last.
THEOREM MapsAgree == Spec => []LiveAgrees
  <1>1. RegistryInv => LiveAgrees
    BY DEF RegistryInv
  <1>2. QED
    BY <1>1, RegistryCorrect, PTL

\* A session that authorizeDetailed picks from Agent.live belongs to a running
\* handler of that phone.
THEOREM LiveServed == Spec => []LiveIsServed
  <1>1. RegistryInv => LiveIsServed
    BY DEF RegistryInv
  <1>2. QED
    BY <1>1, RegistryCorrect, PTL

\* No entry of Agent.sessions outlives the handlers of its phone.
THEOREM NoOrphans == Spec => []NoOrphanSession
  <1>1. RegistryInv => NoOrphanSession
    BY DEF RegistryInv
  <1>2. QED
    BY <1>1, RegistryCorrect, PTL

-----------------------------------------------------------------------------
(* The files. *)

\* owner-mode.json, once written, names a phone that is trusted and present.
THEOREM OwnerModeCorrect == Spec => []OwnerModeHonest
  <1>1. Init => OwnerModeHonest
    BY DEF Init, OwnerModeHonest
  <1>2. OwnerModeHonest /\ [Next]_vars => OwnerModeHonest'
    <2> SUFFICES ASSUME OwnerModeHonest, [Next]_vars PROVE OwnerModeHonest'
      OBVIOUS
    <2>1. ASSUME NEW S, NEW old, WriteFiles(S, old), sessions' = S
          PROVE  OwnerModeHonest'
      BY <2>1, OwnerModeChoicesType DEF WriteFiles, OwnerModeHonest
    <2>2. CASE UNCHANGED <<sessions, ownerMode, synced>>
      BY <2>2 DEF OwnerModeHonest, Trusted, UserPresent
    <2>3. ASSUME NEW c \in Conns, SessionUp(c) PROVE OwnerModeHonest'
      BY <2>1, <2>3 DEF SessionUp
    <2>4. ASSUME NEW c \in Conns, ReadPoll(c) PROVE OwnerModeHonest'
      BY <2>1, <2>4 DEF ReadPoll, SessionTouch
    <2>5. ASSUME NEW c \in Conns, SessionDown(c) PROVE OwnerModeHonest'
      BY <2>1, <2>5 DEF SessionDown
    <2>6. CASE Crash \/ ScriptStop
      BY <2>6 DEF Crash, ScriptStop, OwnerModeHonest
    <2>7. QED
      BY <2>2, <2>3, <2>4, <2>5, <2>6
      DEF Next, HandlerStep, ToggleLock, Handshake, SendPoll, SendPing, SendOther,
          SendBye, Send, LoseLink, ReadOther, ReadBye, ReadFails, Report,
          RunHook, WriteHealth, vars, registryVars, fileVars
  <1>3. QED
    BY <1>1, <1>2, PTL DEF Spec

LEMMA OnlyUpTrusts ==
    ASSUME TypeOK, AbsentIsUntrusted, [Next]_vars,
           NEW p \in Trusted(sessions') \ Trusted(sessions)
    PROVE  \E c \in Conns : PhoneOf[c] = p /\ pc[c] = "auth" /\ pc'[c] = "upReport"
  <1> USE ConnsAssumption DEF Trusted
  <1>1. CASE UNCHANGED sessions
    BY <1>1
  <1>2. ASSUME NEW c \in Conns, SessionUp(c)
        PROVE  PhoneOf[c] = p /\ pc[c] = "auth" /\ pc'[c] = "upReport"
    BY <1>2 DEF SessionUp, TypeOK
  <1>3. ASSUME NEW c \in Conns, ReadPoll(c) PROVE FALSE
    <2> DEFINE here == Head(wire[c]) # "POLL_LOCKED"
    <2>1. sessions' = Touched(PhoneOf[c], here) /\ here \in BOOLEAN
      BY <1>3 DEF ReadPoll, SessionTouch
    <2> HIDE DEF here
    <2>2. p \in Phones /\ PhoneOf[c] \in Phones
      OBVIOUS
    <2>t. sessions \in [Phones -> SessionRec]
      BY DEF TypeOK
    <2>3. Touched(PhoneOf[c], here)[p].trusted = sessions[p].trusted
      BY <2>1, <2>2, <2>t DEF Touched
    <2>4. QED
      BY <2>1, <2>3 DEF AbsentIsUntrusted
  <1>4. ASSUME NEW c \in Conns, SessionDown(c) PROVE FALSE
    BY <1>4 DEF SessionDown, Absent, TypeOK
  <1>5. CASE Restarted
    BY <1>5 DEF Restarted, Absent
  <1>6. QED
    BY <1>1, <1>2, <1>3, <1>4, <1>5
    DEF Next, HandlerStep, ToggleLock, Handshake, SendPoll, SendPing, SendOther,
        SendBye, Send, LoseLink, ReadOther, ReadBye, ReadFails, Report,
        RunHook, WriteHealth, Crash, ScriptStop, vars, registryVars

\* A phone becomes trusted only by the sessionUp of a handler of its own that
\* had authenticated it.
THEOREM TrustByHandshake == Spec => TrustNeedsHandshake
  <1>1. TypeOK /\ RegistryInv /\ [Next]_vars =>
          [\A p \in Trusted(sessions') \ Trusted(sessions) :
             \E c \in Conns : /\ PhoneOf[c] = p
                              /\ pc[c] = "auth" /\ pc'[c] = "upReport"]_vars
    BY OnlyUpTrusts DEF RegistryInv
  <1>2. QED
    BY <1>1, TypeCorrect, RegistryCorrect, PTL DEF Spec, TrustNeedsHandshake

-----------------------------------------------------------------------------
(* ui-state.json and the maps. *)

\* While there is a session, ui-state.json is up to date: one that a killed
\* daemon left is older than every session.
UIFollows == Held(sessions) # {} => ui = UIOf(sessions)

LEMMA UINext == UIFollows /\ [Next]_vars => UIFollows'
  <1> SUFFICES ASSUME UIFollows, [Next]_vars PROVE UIFollows'
    OBVIOUS
  <1>1. ASSUME NEW S, NEW old, WriteFiles(S, old), sessions' = S
        PROVE  UIFollows'
    BY <1>1 DEF WriteFiles, UIFollows, UIOf, Trusted, UserPresent
  <1>2. CASE UNCHANGED <<sessions, ui>>
    BY <1>2 DEF UIFollows, UIOf, Held, Trusted, UserPresent
  <1>3. ASSUME NEW c \in Conns, SessionUp(c) PROVE UIFollows'
    BY <1>1, <1>3 DEF SessionUp
  <1>4. ASSUME NEW c \in Conns, ReadPoll(c) PROVE UIFollows'
    BY <1>1, <1>4 DEF ReadPoll, SessionTouch
  <1>5. ASSUME NEW c \in Conns, SessionDown(c) PROVE UIFollows'
    BY <1>1, <1>5 DEF SessionDown
  <1>6. CASE Restarted
    BY <1>6 DEF Restarted, UIFollows, Held, Absent
  <1>7. CASE WriteHealth
    BY <1>7 DEF WriteHealth, registryVars, UIFollows, UIOf, Trusted, UserPresent
  <1>8. QED
    BY <1>2, <1>3, <1>4, <1>5, <1>6, <1>7
    DEF Next, HandlerStep, ToggleLock, Handshake, SendPoll, SendPing, SendOther,
        SendBye, Send, LoseLink, ReadOther, ReadBye, ReadFails, Report,
        RunHook, Crash, ScriptStop, vars, registryVars, fileVars

\* An owner whom authorizeDetailed would find present is announced by
\* ui-state.json, whichever of a phone's handlers spoke last and whatever file
\* a killed daemon has left.
THEOREM AuthorityIsShown == Spec => []AuthorityShown
  <1>1. Init => UIFollows
    BY DEF Init, UIFollows, Held, Absent
  <1>2. RegistryInv /\ UIFollows => AuthorityShown
    <2> SUFFICES ASSUME RegistryInv, UIFollows, NEW p \in Phones,
                        live[p] # NoConn, userPresent[live[p]]
                 PROVE  AuthorityEnabled
      BY DEF AuthorityShown
    <2>1. p \in Trusted(sessions) /\ p \in UserPresent(sessions)
      BY DEF RegistryInv, LiveAgrees
    <2>2. ui = UIOf(sessions)
      BY <2>1 DEF UIFollows, Held, Trusted
    <2>3. UIOf(sessions).trusted /\ UIOf(sessions).present
      BY <2>1 DEF UIOf
    <2>4. QED
      BY <2>2, <2>3 DEF AuthorityEnabled
  <1>3. QED
    BY <1>1, <1>2, UINext, RegistryCorrect, PTL DEF Spec

-----------------------------------------------------------------------------
(* Without overlapping handlers.  Then a serving handler is always the one   *)
(* live points at, so no heartbeat can find its entry deleted, every session *)
(* is trusted, and the core implements the board its readers rely on.        *)

NoUntrusted == \A p \in Phones : sessions[p].held => sessions[p].trusted

ServingIsLive == \A c \in Conns : Serving(c) => live[PhoneOf[c]] = c

LEMMA ConnectedIsBoth ==
    ASSUME RegistryInv, TypeOK, ServingIsLive
    PROVE  ConnectedIsTrusted /\ NoUntrusted
  <1> USE ConnsAssumption
  <1>1. \A p \in Phones : EntryInv(p)
    BY EntryByEntry
  <1>2. ASSUME NEW c \in Conns, live[PhoneOf[c]] = c PROVE Serving(c)
    BY <1>1, <1>2 DEF EntryInv
  <1>3. ASSUME NEW p \in Phones, sessions[p].held PROVE sessions[p].trusted
    <2>1. PICK c \in Conns : PhoneOf[c] = p /\ Serving(c)
      BY <1>1, <1>3 DEF EntryInv
    <2>2. live[p] = c
      BY <2>1 DEF ServingIsLive
    <2>3. QED
      BY <1>1, <2>2 DEF EntryInv
  <1>4. QED
    BY <1>2, <1>3 DEF ConnectedIsTrusted, NoUntrusted, ServingIsLive

LEMMA ServingNext ==
    ASSUME OneConnPerPhone, TypeOK, ServingIsLive, [Next]_vars
    PROVE  ServingIsLive'
  <1> USE ConnsAssumption
  <1> SUFFICES ASSUME NEW d \in Conns, Serving(d)'
               PROVE  live'[PhoneOf[d]] = d
    BY DEF ServingIsLive
  <1>1. CASE UNCHANGED <<registryVars, handlerVars>>
    BY <1>1 DEF registryVars, handlerVars, Serving, ServingIsLive
  <1>2. ASSUME NEW c \in Conns, Handshake(c) PROVE live'[PhoneOf[d]] = d
    BY <1>2 DEF Handshake, registryVars, Serving, ServingIsLive, TypeOK
  <1>3. ASSUME NEW c \in Conns, SessionUp(c) PROVE live'[PhoneOf[d]] = d
    BY <1>3 DEF SessionUp, Serving, ServingIsLive, OneConnPerPhone, TypeOK
  <1>4. ASSUME NEW c \in Conns, ReadPoll(c) PROVE live'[PhoneOf[d]] = d
    BY <1>4 DEF ReadPoll, SessionTouch, Serving, ServingIsLive, TypeOK
  <1>5. ASSUME NEW c \in Conns, SessionDown(c) PROVE live'[PhoneOf[d]] = d
    BY <1>5 DEF SessionDown, Forget, Serving, ServingIsLive, OneConnPerPhone,
                TypeOK
  <1>6. ASSUME NEW c \in Conns, Report(c) PROVE live'[PhoneOf[d]] = d
    BY <1>6 DEF Report, registryVars, Serving, ServingIsLive, TypeOK
  <1>7. CASE Restarted
    BY <1>7 DEF Restarted, Serving
  <1>8. QED
    BY <1>1, <1>2, <1>3, <1>4, <1>5, <1>6, <1>7
    DEF Next, HandlerStep, ToggleLock, SendPoll, SendPing, SendOther, SendBye, Send,
        LoseLink, ReadOther, ReadBye, ReadFails, RunHook, WriteHealth, Crash,
        ScriptStop, vars

LEMMA ServingCorrect ==
    ASSUME OneConnPerPhone
    PROVE  Spec => [](ServingIsLive /\ TypeOK /\ RegistryInv)
  <1>1. Init => ServingIsLive
    BY DEF Init, ServingIsLive, Serving
  <1>2. TypeOK /\ ServingIsLive /\ [Next]_vars => ServingIsLive'
    BY ServingNext
  <1>3. QED
    BY <1>1, <1>2, TypeCorrect, RegistryCorrect, PTL DEF Spec

\* With one handler at a time per phone, serving a connection and being the
\* session authorizeDetailed finds are the same thing.
THEOREM ConnectedTrusted ==
    ASSUME OneConnPerPhone
    PROVE  Spec => []ConnectedIsTrusted
  <1>1. ServingIsLive /\ TypeOK /\ RegistryInv => ConnectedIsTrusted
    BY ConnectedIsBoth
  <1>2. QED
    BY <1>1, ServingCorrect, PTL

-----------------------------------------------------------------------------
(* The refinement. *)

BoardPresent(S) == Trusted(S) \cap UserPresent(S)

LEMMA PublishStep ==
    ASSUME NEW S \in [Phones -> SessionRec], NEW old,
           \A p \in Phones : S[p].held => S[p].trusted,
           WriteFiles(S, old)
    PROVE  ownerMode' \in IF BoardPresent(S) = {} THEN {NoPhone}
                          ELSE BoardPresent(S)
  <1>1. UserPresent(S) \subseteq Trusted(S)
    BY DEF UserPresent, Trusted
  <1>2. UserPresent(S) \ (UserPresent(S) \cap Trusted(S)) = {}
    BY <1>1
  <1>3. BoardPresent(S) = UserPresent(S) \cap Trusted(S)
    BY DEF BoardPresent
  <1>4. OwnerModeChoices(S, old) \subseteq
           IF BoardPresent(S) = {} THEN {NoPhone} ELSE BoardPresent(S)
    BY <1>2, <1>3 DEF OwnerModeChoices
  <1>5. QED
    BY <1>4 DEF WriteFiles

LEMMA BoardUp ==
    ASSUME OneConnPerPhone, TypeOK, RegistryInv, ServingIsLive, NoUntrusted',
           TypeOK', NEW c \in Conns, SessionUp(c)
    PROVE  Board!Arrive(PhoneOf[c], userPresent[c])
  <1> USE ConnsAssumption
  <1> DEFINE p == PhoneOf[c]
             S == [sessions EXCEPT ![p] = [held |-> TRUE, trusted |-> TRUE,
                                           present |-> userPresent[c]]]
  <1>1. sessions' = S /\ WriteFiles(S, Stamped(p)) /\ ~Serving(c)
    BY DEF SessionUp, Serving
  <1>2. p \notin Trusted(sessions)
    BY <1>1, EntryByEntry DEF EntryInv, OneConnPerPhone, Trusted
  <1>3. Trusted(S) = Trusted(sessions) \cup {p}
    BY DEF Trusted, TypeOK
  <1>4. BoardPresent(S) = IF userPresent[c] THEN BoardPresent(sessions) \cup {p}
                          ELSE BoardPresent(sessions) \ {p}
    BY DEF BoardPresent, Trusted, UserPresent, TypeOK
  <1>5. S \in [Phones -> SessionRec] /\ \A q \in Phones : S[q].held => S[q].trusted
    BY <1>1 DEF TypeOK, NoUntrusted
  <1> HIDE DEF S
  <1>6. ownerMode' \in IF BoardPresent(S) = {} THEN {NoPhone} ELSE BoardPresent(S)
    BY <1>1, <1>5, PublishStep
  <1>7. QED
    BY <1>1, <1>2, <1>3, <1>4, <1>6
    DEF Board!Arrive, Board!Place, Board!Publish, BoardPresent

LEMMA BoardTouch ==
    ASSUME TypeOK, RegistryInv, ServingIsLive, NoUntrusted, NoUntrusted',
           TypeOK', NEW c \in Conns, ReadPoll(c)
    PROVE  \E here \in BOOLEAN : Board!Heartbeat(PhoneOf[c], here)
  <1> USE ConnsAssumption
  <1> DEFINE p == PhoneOf[c]
             here == Head(wire[c]) # "POLL_LOCKED"
             S == Touched(p, here)
  <1>1. sessions' = S /\ WriteFiles(S, Stamped(p)) /\ Serving(c)
        /\ here \in BOOLEAN
    BY DEF ReadPoll, SessionTouch, Serving
  <1> HIDE DEF here
  <1>2. sessions[p].held /\ sessions[p].trusted
    BY <1>1, EntryByEntry DEF EntryInv, ServingIsLive
  <1>3. \A q \in Phones : S[q] =
          IF q = p THEN [held |-> TRUE, trusted |-> sessions[p].trusted,
                         present |-> here]
          ELSE sessions[q]
    <2>1. sessions \in [Phones -> SessionRec] /\ p \in Phones
      BY DEF TypeOK
    <2>2. QED
      BY <1>1, <2>1, TouchedType
  <1>4. S \in [Phones -> SessionRec] /\ \A q \in Phones : S[q].held => S[q].trusted
    BY <1>1 DEF TypeOK, NoUntrusted
  <1> HIDE DEF S
  <1>5. Trusted(S) = Trusted(sessions)
    BY <1>2, <1>3 DEF Trusted
  <1>6. UserPresent(S) = IF here THEN UserPresent(sessions) \cup {p}
                         ELSE UserPresent(sessions) \ {p}
    BY <1>1, <1>3 DEF UserPresent
  <1>7. p \in Trusted(sessions)
    BY <1>2 DEF Trusted
  <1>8. BoardPresent(S) = IF here THEN BoardPresent(sessions) \cup {p}
                          ELSE BoardPresent(sessions) \ {p}
    BY <1>5, <1>6, <1>7 DEF BoardPresent
  <1>9. ownerMode' \in IF BoardPresent(S) = {} THEN {NoPhone} ELSE BoardPresent(S)
    BY <1>1, <1>4, PublishStep
  <1>10. Board!Heartbeat(p, here)
    BY <1>1, <1>5, <1>7, <1>8, <1>9
    DEF Board!Heartbeat, Board!Place, Board!Publish, BoardPresent
  <1>11. QED
    BY <1>1, <1>10

LEMMA BoardDown ==
    ASSUME TypeOK, RegistryInv, ServingIsLive, NoUntrusted', TypeOK',
           NEW c \in Conns, SessionDown(c), Serving(c)
    PROVE  Board!Leave(PhoneOf[c])
  <1> USE ConnsAssumption
  <1> DEFINE p == PhoneOf[c]
             S == [sessions EXCEPT ![p] = Absent]
  <1>1. sessions' = S /\ WriteFiles(S, Forgotten(p))
    BY DEF SessionDown
  <1>2. p \in Trusted(sessions)
    BY EntryByEntry DEF EntryInv, ServingIsLive, Trusted
  <1>3. Trusted(S) = Trusted(sessions) \ {p}
    BY DEF Trusted, TypeOK, Absent
  <1>4. BoardPresent(S) = BoardPresent(sessions) \ {p}
    BY DEF BoardPresent, Trusted, UserPresent, TypeOK, Absent
  <1>5. S \in [Phones -> SessionRec] /\ \A q \in Phones : S[q].held => S[q].trusted
    BY <1>1 DEF TypeOK, NoUntrusted
  <1> HIDE DEF S
  <1>6. ownerMode' \in IF BoardPresent(S) = {} THEN {NoPhone} ELSE BoardPresent(S)
    BY <1>1, <1>5, PublishStep
  <1>7. QED
    BY <1>1, <1>2, <1>3, <1>4, <1>6
    DEF Board!Leave, Board!Place, Board!Publish, BoardPresent

LEMMA BoardNext ==
    ASSUME OneConnPerPhone, TypeOK, RegistryInv, ServingIsLive, NoUntrusted,
           TypeOK', NoUntrusted', [Next]_vars
    PROVE  [Board!Next]_(Board!boardVars)
  <1> USE ConnsAssumption
  <1>1. CASE UNCHANGED <<sessions, ownerMode>>
    BY <1>1 DEF Board!boardVars, Trusted, UserPresent
  <1>2. ASSUME NEW c \in Conns, SessionUp(c) PROVE Board!Next
    <2>1. PhoneOf[c] \in Phones /\ userPresent[c] \in BOOLEAN
      BY DEF TypeOK
    <2>2. QED
      BY <1>2, <2>1, BoardUp DEF Board!Next
  <1>3. ASSUME NEW c \in Conns, ReadPoll(c) PROVE Board!Next
    BY <1>3, BoardTouch DEF Board!Next
  <1>4. ASSUME NEW c \in Conns, SessionDown(c), Serving(c) PROVE Board!Next
    BY <1>4, BoardDown DEF Board!Next
  <1>5. CASE Crash \/ ScriptStop
    <2>1. \A p \in Phones : sessions'[p] = Absent
      BY <1>5 DEF Crash, ScriptStop, Restarted
    <2>2. Trusted(sessions') = {} /\ UserPresent(sessions') = {}
      BY <2>1 DEF Trusted, UserPresent, Absent
    <2>3. ownerMode' \in {ownerMode, NoPhone}
      BY <1>5 DEF Crash, ScriptStop
    <2>4. QED
      BY <2>2, <2>3 DEF Board!Next, Board!Restart
  <1>6. QED
    BY <1>1, <1>2, <1>3, <1>4, <1>5
    DEF Next, HandlerStep, ToggleLock, Handshake, SendPoll, SendPing, SendOther,
        SendBye, Send, LoseLink, ReadOther, ReadBye, ReadFails, Report,
        RunHook, WriteHealth, vars, registryVars, fileVars, Serving

\* With one handler at a time per phone, readers of the files and of the
\* control API see the board of TrustBoard.
THEOREM ImplementsBoard == ASSUME OneConnPerPhone PROVE Spec => BoardSpec
  <1>1. Init => Board!Init
    BY DEF Init, Board!Init, Trusted, UserPresent, Absent
  <1>2. ServingIsLive /\ TypeOK /\ RegistryInv => NoUntrusted
    BY ConnectedIsBoth
  <1>3. /\ ServingIsLive /\ TypeOK /\ RegistryInv /\ NoUntrusted
        /\ TypeOK' /\ NoUntrusted' /\ [Next]_vars
        => [Board!Next]_(Board!boardVars)
    BY BoardNext
  <1>4. QED
    BY <1>1, <1>2, <1>3, ServingCorrect, PTL DEF Spec, BoardSpec, Board!Spec
=============================================================================
