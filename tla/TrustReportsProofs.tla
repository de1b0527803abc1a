--------------------------- MODULE TrustReportsProofs ---------------------------
(***************************************************************************)
(* TLAPS proofs about what the handlers of TrustSessions do after their    *)
(* unlocks, when the handlers of one phone do not overlap: the journal     *)
(* entries and the hooks, for any phones, slots, hooks and bounds.         *)
(***************************************************************************)
EXTENDS TrustSessionsProofs, FiniteSetTheorems

(* The journal.  sessionUp journals the presence it finds and leaves         *)
(* lastPresence alone; sessionTouch journals only what lastPresence does not *)
(* say already.  That is enough because lastPresence is empty whenever a     *)
(* handler comes up, and never ahead of what has been journalled or is owed. *)

Word(here) == IF here THEN "unlocked" ELSE "locked"

JournalOf(c) ==
    LET p == PhoneOf[c]
        here == sessions[p].present
    IN  /\ ~Serving(c) \/ pc[c] = "upReport" => lastPresence[p] = {}
        /\ pc[c] = "touchReport" =>
              /\ lastPresence[p] = {here}
              /\ \/ todo[c].event = Word(here)
                 \/ todo[c].event = "none" /\ journal[p] = Word(here)
        /\ pc[c] = "loop" =>
              /\ journal[p] = Word(here)
              /\ lastPresence[p] \in {{}, {here}}

JournalInv == \A c \in Conns : JournalOf(c)

LEMMA JournalInit == Init => JournalInv
  BY ConnsAssumption DEF Init, JournalInv, JournalOf, Serving

LEMMA JournalNext ==
    ASSUME OneConnPerPhone, TypeOK, RegistryInv, ServingIsLive, JournalInv,
           [Next]_vars
    PROVE  JournalInv'
  <1> USE ConnsAssumption
  <1> SUFFICES ASSUME NEW d \in Conns PROVE JournalOf(d)'
    BY DEF JournalInv
  <1> DEFINE q == PhoneOf[d]
  <1>q. JournalOf(d) /\ q \in Phones
    BY DEF JournalInv
  <1>1. CASE UNCHANGED <<registryVars, handlerVars, journal>>
    BY <1>1, <1>q DEF registryVars, handlerVars, JournalOf, Serving
  <1>2. ASSUME NEW c \in Conns, Handshake(c) PROVE JournalOf(d)'
    BY <1>2, <1>q DEF Handshake, registryVars, reportVars, JournalOf, Serving,
                      TypeOK
  <1>3. ASSUME NEW c \in Conns, SessionUp(c) PROVE JournalOf(d)'
    <2>1. CASE c = d
      BY <1>3, <1>q, <2>1 DEF SessionUp, JournalOf, Serving, TypeOK
    <2>2. CASE c # d
      BY <1>3, <1>q, <2>2
      DEF SessionUp, Owe, reportVars, JournalOf, Serving, OneConnPerPhone,
          TypeOK
    <2>3. QED
      BY <2>1, <2>2
  <1>4. ASSUME NEW c \in Conns, ReadPoll(c) PROVE JournalOf(d)'
    <2> DEFINE p == PhoneOf[c]
               here == Head(wire[c]) # "POLL_LOCKED"
    <2>1. SessionTouch(c, here) /\ here \in BOOLEAN
      BY <1>4 DEF ReadPoll
    <2>2. /\ pc[c] = "loop"
          /\ pc' = [pc EXCEPT ![c] = "touchReport"]
          /\ UNCHANGED journal
      BY <1>4 DEF ReadPoll, reportVars
    <2> HIDE DEF here
    <2>3. sessions' = Touched(p, here)
      BY <2>1 DEF SessionTouch
    <2>4. sessions'[q] =
            IF q = p THEN [held |-> TRUE, trusted |-> sessions[p].trusted,
                           present |-> here]
            ELSE sessions[q]
      BY <1>q, <2>1, <2>3, TouchedType DEF TypeOK
    <2>5. lastPresence' = [lastPresence EXCEPT ![p] = {here}]
      BY <2>1 DEF SessionTouch
    <2>6. todo'[d].event =
            IF c # d THEN todo[d].event
            ELSE IF lastPresence[p] = {here} THEN "none" ELSE Word(here)
      <3>1. todo \in [Conns -> [event : EventKinds, hooks : SUBSET HookNames]]
        BY DEF TypeOK
      <3>2. QED
        BY <2>1, <3>1 DEF SessionTouch, Owe, Word
    <2>7. CASE c = d
      <3>1. sessions'[q].present = here /\ lastPresence'[q] = {here}
        BY <1>q, <2>4, <2>5, <2>7 DEF TypeOK
      <3>2. pc'[d] = "touchReport"
        BY <2>2, <2>7 DEF TypeOK
      <3>3. lastPresence[q] = {here} => journal[q] = Word(here)
        BY <1>q, <2>1, <2>2, <2>7 DEF JournalOf, TypeOK, SessionRec
      <3>4. QED
        BY <2>2, <2>6, <2>7, <3>1, <3>2, <3>3 DEF JournalOf, Serving
    <2>8. CASE c # d
      <3>1. q # p
        BY <2>8 DEF OneConnPerPhone
      <3>2. /\ sessions'[q] = sessions[q]
            /\ lastPresence'[q] = lastPresence[q]
            /\ pc'[d] = pc[d]
            /\ todo'[d].event = todo[d].event
        BY <1>q, <2>2, <2>4, <2>5, <2>6, <2>8, <3>1 DEF TypeOK
      <3>3. QED
        BY <1>q, <2>2, <3>2 DEF JournalOf, Serving
    <2>9. QED
      BY <2>7, <2>8
  <1>5. ASSUME NEW c \in Conns, SessionDown(c) PROVE JournalOf(d)'
    <2>1. CASE c = d
      BY <1>5, <1>q, <2>1 DEF SessionDown, Forget, JournalOf, Serving, TypeOK
    <2>2. CASE c # d
      BY <1>5, <1>q, <2>2
      DEF SessionDown, Forget, Owe, reportVars, JournalOf, Serving,
          OneConnPerPhone, TypeOK
    <2>3. QED
      BY <2>1, <2>2
  <1>6. ASSUME NEW c \in Conns, Report(c) PROVE JournalOf(d)'
    <2>1. /\ UNCHANGED <<sessions, lastPresence>>
          /\ pc[c] \in {"upReport", "touchReport", "downReport"}
          /\ journal' = [journal EXCEPT ![PhoneOf[c]] =
                IF Entry(c) = "none" THEN @ ELSE Entry(c)]
          /\ pc'[c] = "loop" \/ (pc[c] = "downReport" /\ ~Serving(c)')
          /\ \A e \in Conns : e # c => pc'[e] = pc[e] /\ todo'[e] = todo[e]
      <3>1. /\ pc'[c] = "loop" \/ (pc[c] = "downReport" /\ ~Serving(c)')
            /\ \A e \in Conns : e # c => pc'[e] = pc[e]
        <4> DEFINE after == IF pc[c] # "downReport" THEN "loop"
                            ELSE IF c \in Reused THEN "idle" ELSE "closed"
        <4>1. pc' = [pc EXCEPT ![c] = after]
          BY <1>6 DEF Report
        <4>2. pc \in [Conns -> Steps]
          BY DEF TypeOK
        <4> HIDE DEF after
        <4>3. pc'[c] = after /\ \A e \in Conns : e # c => pc'[e] = pc[e]
          BY <4>1, <4>2
        <4>4. QED
          BY <4>3 DEF after, Serving
      <3>2. \A e \in Conns : e # c => todo'[e] = todo[e]
        BY <1>6 DEF Report, TypeOK
      <3>3. QED
        BY <1>6, <3>1, <3>2 DEF Report, registryVars
    <2>2. CASE c = d
      <3>1. CASE pc[c] = "upReport"
        <4>1. userPresent[c] <=> sessions[q].present
          BY <2>2, <3>1, <1>q, EntryByEntry
          DEF EntryInv, ServingIsLive, Serving, TypeOK
        <4>2. journal'[q] = Word(sessions[q].present)
          BY <2>1, <2>2, <3>1, <4>1, <1>q DEF Entry, Word, TypeOK
        <4>3. QED
          BY <2>1, <2>2, <3>1, <4>2, <1>q DEF JournalOf, Serving
      <3>2. CASE pc[c] = "touchReport"
        <4>1. journal'[q] = Word(sessions[q].present)
          BY <2>1, <2>2, <3>2, <1>q DEF Entry, JournalOf, Word, TypeOK
        <4>2. QED
          BY <2>1, <2>2, <3>2, <4>1, <1>q DEF JournalOf, Serving
      <3>3. CASE pc[c] = "downReport"
        BY <1>6, <2>1, <2>2, <3>3, <1>q
        DEF Report, JournalOf, Serving, TypeOK
      <3>4. QED
        BY <2>1, <3>1, <3>2, <3>3
    <2>3. CASE c # d
      BY <2>1, <2>3, <1>q DEF JournalOf, Serving, OneConnPerPhone, TypeOK
    <2>4. QED
      BY <2>2, <2>3
  <1>7. CASE Restarted
    BY <1>7, <1>q DEF Restarted, JournalOf, Serving
  <1>8. QED
    BY <1>1, <1>2, <1>3, <1>4, <1>5, <1>6, <1>7
    DEF Next, HandlerStep, ToggleLock, SendPoll, SendPing, SendOther, SendBye, Send,
        LoseLink, ReadOther, ReadBye, ReadFails, RunHook, WriteHealth, Crash,
        ScriptStop, vars, reportVars

\* The last entry of events.jsonl about a phone tells the presence its session
\* has once its handler has reported, whatever the order of heartbeats, drops
\* and kills: sessionUp's entry and lastPresence together never skip a change.
THEOREM JournalIsRight ==
    ASSUME OneConnPerPhone
    PROVE  Spec => []JournalTells
  <1>1. TypeOK /\ RegistryInv /\ ServingIsLive /\ JournalInv /\ [Next]_vars
           => JournalInv'
    BY JournalNext
  <1>2. RegistryInv /\ JournalInv => JournalTells
    <2> SUFFICES ASSUME RegistryInv, JournalInv, NEW p \in Phones,
                        sessions[p].held, \A c \in Servers(p) : pc[c] = "loop"
                 PROVE  journal[p] = Word(sessions[p].present)
      BY DEF JournalTells, Word
    <2>1. PICK c \in Conns : PhoneOf[c] = p /\ Serving(c)
      BY EntryByEntry DEF EntryInv
    <2>2. pc[c] = "loop"
      BY <2>1 DEF Servers
    <2>3. QED
      BY <2>1, <2>2 DEF JournalInv, JournalOf
  <1>3. QED
    BY <1>1, <1>2, JournalInit, ServingCorrect, PTL DEF Spec

-----------------------------------------------------------------------------
(* The hooks.  A handler owes hooks only between its unlock and its report,  *)
(* so the section that decides on hooks finds nothing owed, Report moves     *)
(* what is owed to what is started, and the balance changes exactly with     *)
(* the condition whose edges the section looks at.                           *)

Reporting(c) == pc[c] \in {"upReport", "touchReport", "downReport"}

OwesOnlyReporting == \A c \in Conns : ~Reporting(c) => todo[c].hooks = {}

Debtors(h) == {c \in Conns : h \in todo[c].hooks}
One(condition) == IF condition THEN 1 ELSE 0
Level(rise, fall, condition) ==
    Owed(rise) - Owed(fall) + net[rise] = One(condition)

LEMMA OwesInit == Init => OwesOnlyReporting
  BY DEF Init, OwesOnlyReporting, NothingToDo

LEMMA OwesNext ==
    ASSUME TypeOK, OwesOnlyReporting, [Next]_vars
    PROVE  OwesOnlyReporting'
  <1> USE ConnsAssumption
  <1> SUFFICES ASSUME NEW d \in Conns, ~Reporting(d)'
               PROVE  todo'[d].hooks = {}
    BY DEF OwesOnlyReporting
  <1>1. CASE UNCHANGED handlerVars
    BY <1>1 DEF handlerVars, Reporting, OwesOnlyReporting
  <1>2. ASSUME NEW c \in Conns, Handshake(c) PROVE todo'[d].hooks = {}
    BY <1>2 DEF Handshake, Reporting, OwesOnlyReporting, TypeOK
  <1>3. ASSUME NEW c \in Conns,
               SessionUp(c) \/ ReadPoll(c) \/ SessionDown(c)
        PROVE  todo'[d].hooks = {}
    <2>1. d # c /\ pc'[d] = pc[d]
      BY <1>3 DEF SessionUp, ReadPoll, SessionDown, Reporting, TypeOK
    <2>2. todo'[d] = todo[d]
      BY <1>3, <2>1
      DEF SessionUp, ReadPoll, SessionTouch, SessionDown, Owe, TypeOK
    <2>3. QED
      BY <2>1, <2>2 DEF Reporting, OwesOnlyReporting
  <1>4. ASSUME NEW c \in Conns, Report(c) PROVE todo'[d].hooks = {}
    <2>1. CASE d = c
      BY <1>4, <2>1 DEF Report, NothingToDo, TypeOK
    <2>2. CASE d # c
      BY <1>4, <2>2 DEF Report, Reporting, OwesOnlyReporting, TypeOK
    <2>3. QED
      BY <2>1, <2>2
  <1>5. CASE Restarted
    BY <1>5 DEF Restarted, NothingToDo
  <1>6. QED
    BY <1>1, <1>2, <1>3, <1>4, <1>5
    DEF Next, HandlerStep, ToggleLock, SendPoll, SendPing, SendOther, SendBye, Send,
        LoseLink, ReadOther, ReadBye, ReadFails, RunHook, WriteHealth, Crash,
        ScriptStop, vars

LEMMA DebtorsFinite ==
    ASSUME NEW h
    PROVE  IsFiniteSet(Debtors(h)) /\ Cardinality(Debtors(h)) \in Nat
  BY FiniteAssumption, FS_Subset, FS_CardinalityType DEF Debtors

LEMMA OwedType ==
    ASSUME TypeOK, NEW h \in Configured
    PROVE  Owed(h) \in Nat
  <1>1. Owed(h) = Cardinality(Debtors(h)) + pending[h]
    BY DEF Owed, Debtors
  <1>2. pending[h] \in Nat
    BY DEF TypeOK
  <1>3. QED
    BY <1>1, <1>2, DebtorsFinite

\* A section that owed nothing adds what it decides on to what is owed.
LEMMA OwedAfterSection ==
    ASSUME TypeOK, NEW c \in Conns, NEW event, NEW hooks,
           todo[c].hooks = {}, Owe(c, event, hooks), UNCHANGED pending,
           NEW h \in Configured
    PROVE  Owed(h)' = Owed(h) + One(h \in hooks)
  <1>1. todo' = [todo EXCEPT ![c] = [event |-> event, hooks |-> hooks]]
    BY DEF Owe
  <1>2. \A d \in Conns : todo'[d].hooks = IF d = c THEN hooks ELSE todo[d].hooks
    BY <1>1 DEF TypeOK
  <1>3. c \notin Debtors(h)
    BY DEF Debtors
  <1>4. Debtors(h)' = IF h \in hooks THEN Debtors(h) \cup {c} ELSE Debtors(h)
    BY <1>2, <1>3 DEF Debtors
  <1>5. Cardinality(Debtors(h) \cup {c}) = Cardinality(Debtors(h)) + 1
    BY <1>3, DebtorsFinite, FS_AddElement
  <1>6. Cardinality(Debtors(h)') = Cardinality(Debtors(h)) + One(h \in hooks)
    BY <1>4, <1>5, DebtorsFinite DEF One
  <1>7. Owed(h)' = Cardinality(Debtors(h)') + pending[h]
    BY DEF Owed, Debtors
  <1>8. Owed(h) = Cardinality(Debtors(h)) + pending[h]
    BY DEF Owed, Debtors
  <1>9. One(h \in hooks) \in Nat /\ pending[h] \in Nat
    BY DEF One, TypeOK
  <1>10. QED
    BY <1>6, <1>7, <1>8, <1>9, DebtorsFinite

\* Report starts what it owes, so that nothing is lost or doubled between the
\* decision and the start of a hook.
LEMMA OwedAfterReport ==
    ASSUME TypeOK, NEW c \in Conns, Report(c), NEW h \in Configured
    PROVE  Owed(h)' = Owed(h)
  <1>1. \A d \in Conns : todo'[d].hooks = IF d = c THEN {} ELSE todo[d].hooks
    BY DEF Report, NothingToDo, TypeOK
  <1>2. Debtors(h)' = Debtors(h) \ {c}
    BY <1>1 DEF Debtors
  <1>3. pending'[h] = pending[h] + One(c \in Debtors(h))
    BY DEF Report, Debtors, One, TypeOK
  <1>4. Cardinality(Debtors(h)') = Cardinality(Debtors(h)) - One(c \in Debtors(h))
    <2>1. Cardinality(Debtors(h) \ {c}) =
            IF c \in Debtors(h) THEN Cardinality(Debtors(h)) - 1
            ELSE Cardinality(Debtors(h))
      BY DebtorsFinite, FS_RemoveElement
    <2>2. QED
      BY <1>2, <2>1, DebtorsFinite DEF One
  <1>5. Owed(h)' = Cardinality(Debtors(h)') + pending'[h]
    BY DEF Owed, Debtors
  <1>6. Owed(h) = Cardinality(Debtors(h)) + pending[h]
    BY DEF Owed, Debtors
  <1>7. One(c \in Debtors(h)) \in Nat /\ pending[h] \in Nat
    BY DEF One, TypeOK
  <1>8. QED
    BY <1>3, <1>4, <1>5, <1>6, <1>7, DebtorsFinite

LEMMA OwedElsewhere ==
    ASSUME UNCHANGED <<todo, pending>>, NEW h
    PROVE  Owed(h)' = Owed(h)
  BY DEF Owed

\* A hook that finishes passes from what is started to what is counted.
LEMMA OwedAfterRun ==
    ASSUME TypeOK, NEW done \in Configured, RunHook(done),
           NEW h \in Configured
    PROVE  Owed(h)' = Owed(h) - One(h = done)
  <1>1. UNCHANGED todo /\ pending'[h] = pending[h] - One(h = done)
    BY DEF RunHook, handlerVars, One, TypeOK
  <1>2. Owed(h)' = Cardinality(Debtors(h)) + pending'[h]
    BY <1>1 DEF Owed, Debtors
  <1>3. Owed(h) = Cardinality(Debtors(h)) + pending[h]
    BY DEF Owed, Debtors
  <1>4. One(h = done) \in Nat /\ pending[h] \in Nat
    BY DEF One, TypeOK
  <1>5. QED
    BY <1>1, <1>2, <1>3, <1>4, DebtorsFinite

LEMMA HeldAfter ==
    ASSUME NEW S \in [Phones -> SessionRec], NEW p \in Phones,
           \A q \in Phones \ {p} : S[q] = sessions[q]
    PROVE  /\ S[p].held => Held(S) = Held(sessions) \cup {p}
           /\ ~S[p].held => Held(S) = Held(sessions) \ {p}
           /\ AnyPresent(S) <=>
                 \/ S[p].held /\ S[p].trusted /\ S[p].present
                 \/ \E q \in Phones \ {p} : /\ sessions[q].held
                                           /\ sessions[q].trusted
                                           /\ sessions[q].present
  BY DEF Held, AnyPresent, Trusted, UserPresent

\* A section decides on a hook exactly when its condition changes: sessionUp
\* cannot end a presence, sessionDown cannot begin one, and a heartbeat
\* neither begins nor ends trust.
LEMMA HooksOnEdges ==
    ASSUME OneConnPerPhone, TypeOK, RegistryInv, ServingIsLive,
           OwesOnlyReporting, TypeOK', NEW c \in Conns,
           SessionUp(c) \/ ReadPoll(c) \/ (pc[c] = "loop" /\ SessionDown(c))
    PROVE  /\ todo[c].hooks = {}
           /\ UNCHANGED <<pending, net>>
           /\ \E event, hooks :
                 /\ Owe(c, event, hooks)
                 /\ "trust" \in hooks <=>
                       Held(sessions) = {} /\ Held(sessions') # {}
                 /\ "untrust" \in hooks <=>
                       Held(sessions) # {} /\ Held(sessions') = {}
                 /\ "presence" \in hooks <=>
                       ~AnyPresent(sessions) /\ AnyPresent(sessions')
                 /\ "absence" \in hooks <=>
                       AnyPresent(sessions) /\ ~AnyPresent(sessions')
  <1> USE ConnsAssumption
  <1> DEFINE p == PhoneOf[c]
  <1>0. /\ p \in Phones
        /\ sessions \in [Phones -> SessionRec]
        /\ sessions' \in [Phones -> SessionRec]
    BY DEF TypeOK
  <1>t. todo[c].hooks = {}
    BY DEF SessionUp, ReadPoll, OwesOnlyReporting, Reporting
  <1>n. UNCHANGED <<pending, net>>
    BY DEF SessionUp, ReadPoll, SessionDown, reportVars
  <1>p. \A q \in Phones : AnyPresent(sessions) <=>
           \/ sessions[q].held /\ sessions[q].trusted /\ sessions[q].present
           \/ \E r \in Phones \ {q} : /\ sessions[r].held
                                     /\ sessions[r].trusted
                                     /\ sessions[r].present
    BY <1>0, HeldAfter
  <1>1. ASSUME SessionUp(c)
        PROVE  \E event, hooks :
                 /\ Owe(c, event, hooks)
                 /\ "trust" \in hooks <=>
                       Held(sessions) = {} /\ Held(sessions') # {}
                 /\ "untrust" \in hooks <=>
                       Held(sessions) # {} /\ Held(sessions') = {}
                 /\ "presence" \in hooks <=>
                       ~AnyPresent(sessions) /\ AnyPresent(sessions')
                 /\ "absence" \in hooks <=>
                       AnyPresent(sessions) /\ ~AnyPresent(sessions')
    <2> DEFINE S == [sessions EXCEPT ![p] = [held |-> TRUE, trusted |-> TRUE,
                                             present |-> userPresent[c]]]
               hooks == When(WasEmpty, "trust") \cup
                        When(PresenceGained(S), "presence")
    <2>1. sessions' = S /\ ~Serving(c) /\ Owe(c, "none", hooks)
      BY <1>1 DEF SessionUp, Serving
    <2>2. sessions'[p].held /\ \A q \in Phones \ {p} : sessions'[q] = sessions[q]
      BY <1>0, <2>1
    <2>3. Held(sessions') # {}
      BY <1>0, <2>2 DEF Held
    <2>4. ~(sessions[p].held /\ sessions[p].trusted)
      BY <1>0, <2>1, EntryByEntry DEF EntryInv, OneConnPerPhone
    <2>5. AnyPresent(sessions) => AnyPresent(sessions')
      BY <1>0, <1>p, <2>2, <2>4, HeldAfter
    <2>6. /\ "trust" \in hooks <=> Held(sessions) = {}
          /\ "presence" \in hooks <=>
                ~AnyPresent(sessions) /\ AnyPresent(sessions')
          /\ "untrust" \notin hooks /\ "absence" \notin hooks
      BY <2>1 DEF When, WasEmpty, PresenceGained
    <2> HIDE DEF hooks, S
    <2>7. QED
      BY <2>1, <2>3, <2>5, <2>6
  <1>2. ASSUME ReadPoll(c)
        PROVE  \E event, hooks :
                 /\ Owe(c, event, hooks)
                 /\ "trust" \in hooks <=>
                       Held(sessions) = {} /\ Held(sessions') # {}
                 /\ "untrust" \in hooks <=>
                       Held(sessions) # {} /\ Held(sessions') = {}
                 /\ "presence" \in hooks <=>
                       ~AnyPresent(sessions) /\ AnyPresent(sessions')
                 /\ "absence" \in hooks <=>
                       AnyPresent(sessions) /\ ~AnyPresent(sessions')
    <2> DEFINE here == Head(wire[c]) # "POLL_LOCKED"
               S == Touched(p, here)
               hooks == When(PresenceGained(S), "presence") \cup
                        When(PresenceLost(S), "absence")
    <2>1. /\ sessions' = S /\ Serving(c) /\ here \in BOOLEAN
          /\ \E event : Owe(c, event, hooks)
      BY <1>2 DEF ReadPoll, SessionTouch, Serving
    <2> HIDE DEF here
    <2>2. sessions'[p].held /\ \A q \in Phones \ {p} : sessions'[q] = sessions[q]
      <3>0. /\ sessions' = Touched(p, here) /\ here \in BOOLEAN
            /\ sessions \in [Phones -> SessionRec] /\ p \in Phones
        BY <1>0, <2>1
      <3>1. \A q \in Phones : sessions'[q] =
              IF q = p THEN [held |-> TRUE, trusted |-> sessions[p].trusted,
                             present |-> here]
              ELSE sessions[q]
        BY <3>0, TouchedType
      <3>2. QED
        BY <1>0, <3>1
    <2>3. sessions[p].held
      BY <1>0, <2>1, EntryByEntry DEF EntryInv, ServingIsLive
    <2>4. p \in Held(sessions) /\ p \in Held(sessions')
      BY <1>0, <2>2, <2>3 DEF Held
    <2>5. /\ "trust" \notin hooks /\ "untrust" \notin hooks
          /\ "presence" \in hooks <=>
                ~AnyPresent(sessions) /\ AnyPresent(sessions')
          /\ "absence" \in hooks <=>
                AnyPresent(sessions) /\ ~AnyPresent(sessions')
      BY <2>1 DEF When, PresenceGained, PresenceLost
    <2> HIDE DEF hooks, S
    <2>6. QED
      BY <2>1, <2>4, <2>5
  <1>3. ASSUME SessionDown(c), pc[c] = "loop"
        PROVE  \E event, hooks :
                 /\ Owe(c, event, hooks)
                 /\ "trust" \in hooks <=>
                       Held(sessions) = {} /\ Held(sessions') # {}
                 /\ "untrust" \in hooks <=>
                       Held(sessions) # {} /\ Held(sessions') = {}
                 /\ "presence" \in hooks <=>
                       ~AnyPresent(sessions) /\ AnyPresent(sessions')
                 /\ "absence" \in hooks <=>
                       AnyPresent(sessions) /\ ~AnyPresent(sessions')
    <2> DEFINE S == [sessions EXCEPT ![p] = Absent]
               hooks == When(NowEmpty(S), "untrust") \cup
                        When(PresenceLost(S), "absence")
    <2>1. sessions' = S /\ Owe(c, "lost", hooks)
      BY <1>3 DEF SessionDown
    <2>2. ~sessions'[p].held /\ \A q \in Phones \ {p} : sessions'[q] = sessions[q]
      BY <1>0, <2>1 DEF Absent
    <2>3. p \in Held(sessions)
      BY <1>0, <1>3, EntryByEntry DEF EntryInv, ServingIsLive, Serving, Held
    <2>4. AnyPresent(sessions') => AnyPresent(sessions)
      BY <1>0, <1>p, <2>2, HeldAfter
    <2>5. /\ "untrust" \in hooks <=> Held(sessions') = {}
          /\ "absence" \in hooks <=>
                AnyPresent(sessions) /\ ~AnyPresent(sessions')
          /\ "trust" \notin hooks /\ "presence" \notin hooks
      BY <2>1 DEF When, NowEmpty, PresenceLost
    <2> HIDE DEF hooks, S
    <2>6. QED
      BY <2>1, <2>3, <2>4, <2>5
  <1>4. QED
    BY <1>t, <1>n, <1>1, <1>2, <1>3

\* So the balance of a pair follows its condition through a section ...
LEMMA LevelAfterSection ==
    ASSUME TypeOK, NEW c \in Conns, NEW event, NEW hooks,
           todo[c].hooks = {}, Owe(c, event, hooks),
           UNCHANGED <<pending, net>>,
           NEW rise \in Configured \cap Rising, NEW fall \in Configured,
           NEW before \in BOOLEAN, NEW after \in BOOLEAN,
           rise \in hooks <=> ~before /\ after,
           fall \in hooks <=> before /\ ~after,
           Level(rise, fall, before)
    PROVE  Level(rise, fall, after)'
  <1>1. /\ Owed(rise)' = Owed(rise) + One(rise \in hooks)
        /\ Owed(fall)' = Owed(fall) + One(fall \in hooks)
    BY OwedAfterSection
  <1>2. Owed(rise) \in Nat /\ Owed(fall) \in Nat /\ net[rise] \in Int
    BY OwedType DEF TypeOK
  <1>3. One(rise \in hooks) - One(fall \in hooks) = One(after) - One(before)
    BY DEF One
  <1>4. /\ One(rise \in hooks) \in Nat /\ One(fall \in hooks) \in Nat
        /\ One(after) \in Nat /\ One(before) \in Nat
    BY DEF One
  <1>5. Level(rise, fall, after)' <=>
          Owed(rise)' - Owed(fall)' + net[rise] = One(after)
    BY DEF Level, One
  <1>6. Owed(rise) - Owed(fall) + net[rise] = One(before)
    BY DEF Level
  <1> HIDE DEF Owed
  <1>7. QED
    BY <1>1, <1>2, <1>3, <1>4, <1>5, <1>6

\* ... and nothing else disturbs it, short of a kill.
LEMMA LevelElsewhere ==
    ASSUME TypeOK, TypeOK', [Next]_vars,
           ~(\E c \in Conns : \/ SessionUp(c) \/ ReadPoll(c)
                             \/ (pc[c] = "loop" /\ SessionDown(c))),
           UNCHANGED crashes,
           NEW rise \in Configured \cap Rising, NEW fall \in Configured,
           rise \in {"trust", "presence"}, fall = Opposite[rise]
    PROVE  /\ UNCHANGED sessions
           /\ Owed(rise)' - Owed(fall)' + net'[rise] =
                 Owed(rise) - Owed(fall) + net[rise]
  <1>1. CASE UNCHANGED <<sessions, todo, pending, net>>
    BY <1>1, OwedElsewhere
  <1>2. ASSUME NEW c \in Conns, Report(c)
        PROVE  /\ UNCHANGED sessions
               /\ Owed(rise)' - Owed(fall)' + net'[rise] =
                     Owed(rise) - Owed(fall) + net[rise]
    BY <1>2, OwedAfterReport DEF Report, registryVars
  <1>3. ASSUME NEW h \in Configured, RunHook(h)
        PROVE  /\ UNCHANGED sessions
               /\ Owed(rise)' - Owed(fall)' + net'[rise] =
                     Owed(rise) - Owed(fall) + net[rise]
    <2>1. /\ Owed(rise)' = Owed(rise) - One(rise = h)
          /\ Owed(fall)' = Owed(fall) - One(fall = h)
      BY <1>3, OwedAfterRun
    <2>2. fall # rise
      BY DEF Opposite
    <2>3. net'[rise] = net[rise] + One(rise = h) - One(fall = h)
      BY <1>3, <2>2 DEF RunHook, One, TypeOK
    <2>4. /\ Owed(rise) \in Nat /\ Owed(fall) \in Nat /\ net[rise] \in Int
          /\ One(rise = h) \in Nat /\ One(fall = h) \in Nat
      BY OwedType DEF TypeOK, One
    <2>5. QED
      BY <1>3, <2>1, <2>3, <2>4 DEF RunHook, registryVars
  <1>4. CASE Restarted
    BY <1>4 DEF Restarted, TypeOK
  <1>5. QED
    BY <1>1, <1>2, <1>3, <1>4
    DEF Next, HandlerStep, ToggleLock, Handshake, SendPoll, SendPing, SendOther, SendBye,
        Send, LoseLink, ReadOther, ReadBye, ReadFails, WriteHealth, Crash,
        ScriptStop, vars, phoneVars, handlerVars, registryVars, reportVars

HooksInv == OwesOnlyReporting /\ TrustBalance /\ PresenceBalance

LEMMA HooksInit == Init => HooksInv
  <1> SUFFICES ASSUME Init PROVE HooksInv
    OBVIOUS
  <1>1. Held(sessions) = {} /\ ~AnyPresent(sessions)
    BY DEF Init, Held, AnyPresent, Trusted, Absent
  <1>2. ASSUME NEW h \in Configured PROVE Owed(h) = 0
    <2>1. Debtors(h) = {} /\ pending[h] = 0
      BY DEF Init, NothingToDo, Debtors
    <2>2. Owed(h) = Cardinality(Debtors(h)) + pending[h]
      BY DEF Owed, Debtors
    <2>3. QED
      BY <2>1, <2>2, FS_EmptySet
  <1>3. net["trust"] = 0 /\ net["presence"] = 0
    BY DEF Init, Rising
  <1>4. OwesOnlyReporting
    BY OwesInit
  <1>5. TrustBalance
    BY <1>1, <1>2, <1>3 DEF TrustBalance
  <1>6. PresenceBalance
    BY <1>1, <1>2, <1>3 DEF PresenceBalance
  <1>7. QED
    BY <1>4, <1>5, <1>6 DEF HooksInv

LEMMA HooksNext ==
    ASSUME OneConnPerPhone, TypeOK, TypeOK', RegistryInv, ServingIsLive,
           HooksInv, [Next]_vars
    PROVE  HooksInv'
  <1>1. OwesOnlyReporting /\ OwesOnlyReporting'
    BY OwesNext DEF HooksInv
  <1>2. ASSUME crashes' = 0 PROVE crashes = 0
    <2>1. crashes' = crashes \/ crashes' = crashes + 1
      BY DEF Next, HandlerStep, ToggleLock, Handshake, SendPoll, SendPing, SendOther,
             SendBye, Send, LoseLink, SessionUp, ReadPoll, ReadOther, ReadBye,
             ReadFails, SessionDown, Report, RunHook, WriteHealth, Crash,
             ScriptStop, Restarted, vars
    <2>2. QED
      BY <1>2, <2>1 DEF TypeOK
  <1>3. ASSUME NEW rise \in Configured \cap Rising,
               NEW fall \in Configured, fall = Opposite[rise],
               crashes = 0, crashes' = 0,
               Level(rise, fall, IF rise = "trust" THEN Held(sessions) # {}
                                 ELSE AnyPresent(sessions))
        PROVE  Level(rise, fall, IF rise = "trust" THEN Held(sessions) # {}
                                 ELSE AnyPresent(sessions))'
    <2>1. CASE \E c \in Conns : \/ SessionUp(c) \/ ReadPoll(c)
                               \/ (pc[c] = "loop" /\ SessionDown(c))
      <3>1. PICK c \in Conns : \/ SessionUp(c) \/ ReadPoll(c)
                              \/ (pc[c] = "loop" /\ SessionDown(c))
        BY <2>1
      <3>2. /\ todo[c].hooks = {}
            /\ UNCHANGED <<pending, net>>
        BY <1>1, <3>1, HooksOnEdges
      <3>3. PICK event, hooks :
                 /\ Owe(c, event, hooks)
                 /\ "trust" \in hooks <=>
                       Held(sessions) = {} /\ Held(sessions') # {}
                 /\ "untrust" \in hooks <=>
                       Held(sessions) # {} /\ Held(sessions') = {}
                 /\ "presence" \in hooks <=>
                       ~AnyPresent(sessions) /\ AnyPresent(sessions')
                 /\ "absence" \in hooks <=>
                       AnyPresent(sessions) /\ ~AnyPresent(sessions')
        BY <1>1, <3>1, HooksOnEdges
      <3> DEFINE before == IF rise = "trust" THEN Held(sessions) # {}
                           ELSE AnyPresent(sessions)
                 after == IF rise = "trust" THEN Held(sessions') # {}
                          ELSE AnyPresent(sessions')
      <3>4. before \in BOOLEAN /\ after \in BOOLEAN
        BY DEF AnyPresent
      <3>5. /\ rise \in hooks <=> ~before /\ after
            /\ fall \in hooks <=> before /\ ~after
        BY <1>3, <3>3 DEF Rising, Opposite
      <3>6. Level(rise, fall, before)
        BY <1>3
      <3> HIDE DEF before, after
      <3>7. Owed(rise)' - Owed(fall)' + net'[rise] = One(after)
        BY <3>2, <3>3, <3>4, <3>5, <3>6, LevelAfterSection DEF Level, One
      <3>8. Level(rise, fall, IF rise = "trust" THEN Held(sessions) # {}
                              ELSE AnyPresent(sessions))'
              <=> Owed(rise)' - Owed(fall)' + net'[rise] = One(after)
        BY DEF Level, One, after, Held, AnyPresent, Trusted, UserPresent
      <3>9. QED
        BY <3>7, <3>8
    <2>2. CASE ~(\E c \in Conns : \/ SessionUp(c) \/ ReadPoll(c)
                                 \/ (pc[c] = "loop" /\ SessionDown(c)))
      <3>1. /\ UNCHANGED sessions
            /\ Owed(rise)' - Owed(fall)' + net'[rise] =
                  Owed(rise) - Owed(fall) + net[rise]
        BY <1>3, <2>2, LevelElsewhere DEF Rising
      <3>2. QED
        BY <1>3, <3>1 DEF Level, One, Held, AnyPresent, Trusted, UserPresent
    <2>3. QED
      BY <2>1, <2>2
  <1>4. TrustBalance'
    <2> SUFFICES ASSUME crashes' = 0, {"trust", "untrust"} \subseteq Configured
                 PROVE  Level("trust", "untrust", Held(sessions) # {})'
      BY DEF TrustBalance, Level, One, Owed
    <2>1. Level("trust", "untrust", Held(sessions) # {})
      BY <1>2 DEF HooksInv, TrustBalance, Level, One, Owed
    <2>2. "untrust" = Opposite["trust"] /\ "trust" \in Rising
      BY DEF Opposite, Rising
    <2>3. QED
      BY <1>2, <1>3, <2>1, <2>2 DEF Level, One
  <1>5. PresenceBalance'
    <2> SUFFICES ASSUME crashes' = 0,
                        {"presence", "absence"} \subseteq Configured
                 PROVE  Level("presence", "absence", AnyPresent(sessions))'
      BY DEF PresenceBalance, Level, One, Owed
    <2>1. Level("presence", "absence", AnyPresent(sessions))
      BY <1>2 DEF HooksInv, PresenceBalance, Level, One, Owed
    <2>2. "absence" = Opposite["presence"] /\ "presence" \in Rising
      BY DEF Opposite, Rising
    <2>3. QED
      BY <1>2, <1>3, <2>1, <2>2 DEF Level, One
  <1>6. QED
    BY <1>1, <1>4, <1>5 DEF HooksInv

LEMMA HooksCorrect == ASSUME OneConnPerPhone PROVE Spec => []HooksInv
  <1>1. TypeOK /\ TypeOK' /\ RegistryInv /\ ServingIsLive /\ HooksInv
        /\ [Next]_vars => HooksInv'
    BY HooksNext
  <1>2. QED
    BY <1>1, HooksInit, ServingCorrect, PTL DEF Spec

\* on-trust and on-untrust come in pairs, whatever order handlers report and
\* hooks finish in: counting those owed, started and finished, on-trust is one
\* ahead exactly while some phone has a session.
THEOREM TrustHooksPair ==
    ASSUME OneConnPerPhone
    PROVE  Spec => []TrustBalance
  <1>1. HooksInv => TrustBalance
    BY DEF HooksInv
  <1>2. QED
    BY <1>1, HooksCorrect, PTL

\* So do on-presence and on-absence, although sessionUp, sessionTouch and
\* sessionDown of different phones each decide on them alone.
THEOREM PresenceHooksPair ==
    ASSUME OneConnPerPhone
    PROVE  Spec => []PresenceBalance
  <1>1. HooksInv => PresenceBalance
    BY DEF HooksInv
  <1>2. QED
    BY <1>1, HooksCorrect, PTL
=============================================================================
