------------------------- MODULE OwnerProofsTheorems -------------------------
(***************************************************************************)
(* TLAPS proofs about OwnerProofs, for any phones, connections and calls,  *)
(* any policy, any channel capacity and any deadlines.                     *)
(***************************************************************************)
EXTENDS OwnerProofs, FiniteSetTheorems, TLAPS

LEMMA LessType ==
    ASSUME NEW D, NEW f \in [D -> Nat]
    PROVE  Less(f) \in [D -> Nat]
  BY DEF Less

LEMMA TTLType == ASSUME NEW r \in Calls PROVE TTL(r) \in Nat
  BY CallsAssumption, TimesAssumption DEF TTL

LEMMA WaitType == ASSUME NEW r \in Calls PROVE Wait(r) \in Nat
  BY TimesAssumption DEF Wait

LEMMA HeadTail ==
    ASSUME NEW S, NEW s \in Seq(S), s # <<>>
    PROVE  /\ Head(s) \in S
           /\ Head(s) = s[1]
           /\ 1 \in DOMAIN s
           /\ Tail(s) \in Seq(S)
           /\ Len(Tail(s)) = Len(s) - 1
           /\ \A i \in DOMAIN Tail(s) :
                 i + 1 \in DOMAIN s /\ Tail(s)[i] = s[i + 1]
  OBVIOUS

LEMMA Appended ==
    ASSUME NEW S, NEW s \in Seq(S), NEW e \in S
    PROVE  /\ Append(s, e) \in Seq(S)
           /\ Len(Append(s, e)) = Len(s) + 1
           /\ \A i \in DOMAIN Append(s, e) :
                 \/ i \in DOMAIN s /\ Append(s, e)[i] = s[i]
                 \/ i = Len(s) + 1 /\ i \notin DOMAIN s /\ Append(s, e)[i] = e
  OBVIOUS

LEMMA VerdictType == ASSUME NEW c \in Conns PROVE Verdict(c) \in Results
  BY DEF Verdict, Results

-----------------------------------------------------------------------------
(* Types. *)

LEMMA ReturnType ==
    ASSUME TypeOK, NEW r \in Calls, NEW what \in Outcomes, Return(r, what),
           result' \in [Calls -> Results]
    PROVE  TypeOK'
  BY DEF Return, TypeOK, phoneVars, handlerVars, registryVars, historyVars

LEMMA HeartbeatType ==
    ASSUME TypeOK, NEW c \in Conns, Heartbeat(c)
    PROVE  /\ line' \in [Conns -> {"none", "LOCKED", "UNLOCKED"}]
           /\ userPresent' \in [Phones -> BOOLEAN]
  BY CallsAssumption DEF Heartbeat, TypeOK

LEMMA TypeInit == Init => TypeOK
  <1>1. <<>> \in Seq(Calls) /\ Len(<<>>) = 0
    OBVIOUS
  <1>2. QED
    BY <1>1, TimesAssumption DEF Init, TypeOK, Results, Outcomes

LEMMA TypePhone ==
    ASSUME TypeOK, NEW c \in Conns,
           \/ PhonePolls(c) \/ PhoneSigns(c) \/ PhoneRefuses(c)
           \/ LoseLink(c) \/ Connect(c)
    PROVE  TypeOK'
  <1> USE CallsAssumption, TimesAssumption
      DEF handlerVars, registryVars, callVars, clientVars, historyVars
  <1>1. CASE PhonePolls(c)
    BY <1>1 DEF PhonePolls, TypeOK
  <1>2. CASE PhoneSigns(c)
    <2>0. inHand[c] \in Calls /\ answer \in [Conns -> {"none", "ok", "refused"}]
          /\ signed \in SUBSET Calls /\ tapped \in SUBSET Calls
      BY <1>2 DEF PhoneSigns, TypeOK
    <2>a. answer' \in [Conns -> {"none", "ok", "refused"}]
      BY <1>2, <2>0 DEF PhoneSigns
    <2>b. signed' \in SUBSET Calls /\ tapped' \in SUBSET Calls
      BY <1>2, <2>0 DEF PhoneSigns
    <2>2. UNCHANGED <<locked, link, line, pc, live, userPresent, queue, inHand, readLeft, validLeft, call,
                      chosen, left, result, outcome, client, clientLeft, cutShort>>
      BY <1>2 DEF PhoneSigns
    <2> QED
      BY <2>a, <2>b, <2>2 DEF TypeOK
  <1>3. CASE PhoneRefuses(c)
    BY <1>3 DEF PhoneRefuses, TypeOK
  <1>4. CASE LoseLink(c)
    BY <1>4 DEF LoseLink, TypeOK
  <1>5. CASE Connect(c)
    BY <1>5 DEF Connect, TypeOK
  <1>6. QED
    BY <1>1, <1>2, <1>3, <1>4, <1>5

LEMMA TypeHandler ==
    ASSUME TypeOK, NEW c \in Conns, HandlerStep(c)
    PROVE  TypeOK'
  <1> USE CallsAssumption, TimesAssumption
      DEF registryVars, callVars, clientVars, historyVars
  <1>1. CASE AnswerPoll(c)
    BY <1>1, HeartbeatType DEF AnswerPoll, Heartbeat, TypeOK
  <1>2. CASE Issue(c)
    <2>1. queue[c] \in Seq(Calls) /\ queue[c] # <<>>
      BY <1>2 DEF Issue, TypeOK
    <2>2. /\ Head(queue[c]) \in Calls
          /\ Tail(queue[c]) \in Seq(Calls)
          /\ Len(Tail(queue[c])) = Len(queue[c]) - 1
      BY <2>1, HeadTail
    <2>3. TTL(Head(queue[c])) \in Nat
      BY <2>2, TTLType
    <2>4. /\ queue' \in [Conns -> Seq(Calls)]
          /\ \A d \in Conns : Len(queue'[d]) <= QueueCap
      <3>1. queue' = [queue EXCEPT ![c] = Tail(queue[c])]
        BY <1>2 DEF Issue
      <3>2. queue' \in [Conns -> Seq(Calls)]
        BY <3>1, <2>2 DEF TypeOK
      <3>3. Len(queue[c]) \in Nat
        BY <2>1
      <3>4. ASSUME NEW d \in Conns PROVE Len(queue'[d]) <= QueueCap
        <4>1. CASE d = c
          <5>1. Len(queue'[d]) = Len(queue[c]) - 1
            BY <4>1, <3>1, <2>2 DEF TypeOK
          <5>2. Len(queue[c]) <= QueueCap
            BY DEF TypeOK
          <5>3. QED
            BY <5>1, <5>2, <3>3, TimesAssumption
        <4>2. CASE d # c
          BY <4>2, <3>1 DEF TypeOK
        <4>3. QED
          BY <4>1, <4>2
      <3>5. QED
        BY <3>2, <3>4
    <2>5. /\ inHand' \in [Conns -> Calls \cup {NoCall}]
          /\ \A d \in Conns : pc'[d] = "await" <=> inHand'[d] # NoCall
          /\ pc' \in [Conns -> {"new", "read", "await", "ended"}]
          /\ validLeft' \in [Conns -> Nat]
      BY <1>2, <2>2, <2>3 DEF Issue, TypeOK
    <2>6. QED
      BY <1>2, <2>4, <2>5, HeartbeatType DEF Issue, Heartbeat, TypeOK
  <1>3. CASE TakeAnswer(c)
    BY <1>3, VerdictType DEF TakeAnswer, Deliver, TypeOK
  <1>4. CASE ReadFails(c)
    <2>1. /\ result' \in [Calls -> Results]
          /\ cutShort' \in SUBSET Calls
      <3>1. CASE pc[c] = "await"
        <4>1. inHand[c] \in Calls
          BY <3>1 DEF TypeOK
        <4>2. result' = [result EXCEPT ![inHand[c]] = "lost"]
          BY <1>4, <3>1 DEF ReadFails, Deliver
        <4>3. cutShort' \in {cutShort, cutShort \cup {inHand[c]}}
          BY <1>4 DEF ReadFails
        <4>4. QED
          BY <4>1, <4>2, <4>3 DEF TypeOK, Results
      <3>2. CASE pc[c] # "await"
        BY <1>4, <3>2 DEF ReadFails, TypeOK
      <3>3. QED
        BY <3>1, <3>2
    <2>2. QED
      BY <1>4, <2>1 DEF ReadFails, TypeOK
  <1>5. QED
    BY <1>1, <1>2, <1>3, <1>4 DEF HandlerStep

LEMMA TypeCall ==
    ASSUME TypeOK, NEW r \in Calls,
           Deny(r) \/ Allow(r) \/ CallStep(r) \/ ClientGivesUp(r)
    PROVE  TypeOK'
  <1>1. CASE Deny(r)
    BY <1>1, ReturnType DEF Deny, Outcomes, TypeOK
  <1>2. CASE Allow(r)
    <2>1. PICK p \in AskedPhones : chosen' = [chosen EXCEPT ![r] = live[p]]
      BY <1>2 DEF Allow
    <2>2. live[p] \in Conns
      BY <2>1 DEF AskedPhones, PresentPhones, LivePhones, TypeOK
    <2>3. /\ client' \in [Calls -> {"idle", "waiting", "answered", "gone"}]
          /\ clientLeft' \in [Calls -> Nat]
      <3>1. CASE r \in Clients
        <4> DEFINE patience ==
                     IF r \in AsksExplicit THEN ExplicitClientWait
                     ELSE ClientWait
        <4>1. patience \in Nat
          BY TimesAssumption
        <4>2. /\ client' = [client EXCEPT ![r] = "waiting"]
              /\ clientLeft' = [clientLeft EXCEPT ![r] = patience]
          BY <1>2, <3>1 DEF Allow
        <4> HIDE DEF patience
        <4>3. QED
          BY <4>1, <4>2 DEF TypeOK
      <3>2. CASE r \notin Clients
        BY <1>2, <3>2 DEF Allow, TypeOK, clientVars
      <3>3. QED
        BY <3>1, <3>2
    <2>4. /\ chosen' \in [Calls -> Conns \cup {NoConn}]
          /\ \A s \in Calls : call'[s] \in {"sending", "waiting"} =>
                chosen'[s] # NoConn
      BY <1>2, <2>1, <2>2, CallsAssumption DEF Allow, TypeOK
    <2>5. QED
      BY <1>2, <2>3, <2>4, TimesAssumption
      DEF Allow, TypeOK, phoneVars, handlerVars, registryVars, historyVars
  <1>3. CASE Enqueue(r)
    <2>1. chosen[r] \in Conns /\ queue[chosen[r]] \in Seq(Calls)
      BY <1>3 DEF Enqueue, TypeOK
    <2>2. /\ queue' \in [Conns -> Seq(Calls)]
          /\ \A c \in Conns : Len(queue'[c]) <= QueueCap
      <3>1. queue' = [queue EXCEPT ![chosen[r]] = Append(queue[chosen[r]], r)]
        BY <1>3 DEF Enqueue
      <3>2. /\ Append(queue[chosen[r]], r) \in Seq(Calls)
            /\ Len(Append(queue[chosen[r]], r)) = Len(queue[chosen[r]]) + 1
        BY <2>1, Appended
      <3>3. Len(queue[chosen[r]]) \in Nat /\ Len(queue[chosen[r]]) < QueueCap
        BY <2>1, <1>3 DEF Enqueue
      <3>4. Len(queue[chosen[r]]) + 1 <= QueueCap
        BY <3>3, TimesAssumption
      <3>5. ASSUME NEW c \in Conns PROVE Len(queue'[c]) <= QueueCap
        <4>1. CASE c = chosen[r]
          BY <4>1, <3>1, <3>2, <3>4 DEF TypeOK
        <4>2. CASE c # chosen[r]
          BY <4>2, <3>1 DEF TypeOK
        <4>3. QED
          BY <4>1, <4>2
      <3>6. queue' \in [Conns -> Seq(Calls)]
        BY <3>1, <3>2 DEF TypeOK
      <3>7. QED
        BY <3>5, <3>6
    <2>3. QED
      BY <1>3, <2>2, WaitType
      DEF Enqueue, TypeOK, phoneVars, handlerVars, registryVars, historyVars,
          clientVars
  <1>4. CASE QueueUnavailable(r)
    BY <1>4, ReturnType DEF QueueUnavailable, Outcomes, TypeOK
  <1>5. CASE TakeResult(r)
    <2>1. /\ result[r] \in Outcomes
          /\ result' \in [Calls -> Results]
      BY <1>5 DEF TakeResult, TypeOK, Outcomes, Results
    <2>2. QED
      BY <1>5, <2>1, ReturnType DEF TakeResult
  <1>6. CASE TimeOut(r)
    BY <1>6, ReturnType DEF TimeOut, Outcomes, TypeOK
  <1>7. CASE ClientGivesUp(r)
    BY <1>7 DEF ClientGivesUp, TypeOK, phoneVars, handlerVars, registryVars,
                callVars, historyVars
  <1>8. QED
    BY <1>1, <1>2, <1>3, <1>4, <1>5, <1>6, <1>7 DEF CallStep

LEMMA TypeNext == TypeOK /\ [Next]_vars => TypeOK'
  <1> SUFFICES ASSUME TypeOK, [Next]_vars PROVE TypeOK'
    OBVIOUS
  <1>1. ASSUME NEW p \in Phones, ToggleLock(p) PROVE TypeOK'
    BY <1>1 DEF ToggleLock, TypeOK, handlerVars, registryVars, callVars,
                clientVars, historyVars
  <1>2. CASE Tick
    BY <1>2, LessType DEF Tick, TypeOK, phoneVars, registryVars, historyVars
  <1>3. CASE UNCHANGED vars
    BY <1>3 DEF vars, TypeOK, phoneVars, handlerVars, registryVars, callVars,
                clientVars, historyVars
  <1>4. QED
    BY <1>1, <1>2, <1>3, TypePhone, TypeHandler, TypeCall DEF Next

\* TypeOK holds of every behaviour: no channel of a session ever holds more
\* requests than its capacity, a handler awaits an answer exactly while it holds
\* a request, and a call that sends or waits has picked a session.
THEOREM TypeCorrect == Spec => []TypeOK
  <1>1. QED
    BY TypeInit, TypeNext, PTL DEF Spec

-----------------------------------------------------------------------------
(* Granted calls. *)

Met(r) == IF Explicit(r) THEN r \in tapped ELSE r \in signed

\* Why GrantedAsRequired is inductive: the phone's answer belongs to the request
\* that the handler still holds, and whatever carries "granted" on its way back
\* to the call carries it for a call whose requirement was met.
Backed ==
    /\ \A c \in Conns : answer[c] = "ok" => pc[c] = "await" /\ Met(inHand[c])
    /\ \A r \in Calls : result[r] = "granted" => Met(r)
    /\ \A r \in Calls : outcome[r] = "granted" => Met(r)

LEMMA BackedInit == Init => Backed
  BY DEF Init, Backed

\* Histories only grow.
LEMMA MetStays ==
    ASSUME signed \subseteq signed', tapped \subseteq tapped', NEW r, Met(r)
    PROVE  Met(r)'
  BY DEF Met, Explicit

LEMMA HistoryGrows ==
    ASSUME [Next]_vars
    PROVE  signed \subseteq signed' /\ tapped \subseteq tapped'
  <1> USE DEF historyVars
  <1>1. ASSUME NEW c \in Conns, HandlerStep(c)
        PROVE  signed' = signed /\ tapped' = tapped
    BY <1>1 DEF HandlerStep, AnswerPoll, Issue, TakeAnswer, ReadFails
  <1>2. ASSUME NEW r \in Calls,
               Deny(r) \/ Allow(r) \/ CallStep(r) \/ ClientGivesUp(r)
        PROVE  signed' = signed /\ tapped' = tapped
    BY <1>2 DEF Deny, Allow, CallStep, ClientGivesUp, Enqueue, QueueUnavailable,
                TakeResult, TimeOut, Return
  <1>3. ASSUME NEW p \in Phones, ToggleLock(p)
        PROVE  signed' = signed /\ tapped' = tapped
    BY <1>3 DEF ToggleLock
  <1>4. ASSUME NEW c \in Conns,
               PhonePolls(c) \/ PhoneRefuses(c) \/ LoseLink(c) \/ Connect(c)
        PROVE  signed' = signed /\ tapped' = tapped
    BY <1>4 DEF PhonePolls, PhoneRefuses, LoseLink, Connect
  <1>5. ASSUME NEW c \in Conns, PhoneSigns(c)
        PROVE  signed \subseteq signed' /\ tapped \subseteq tapped'
    BY <1>5 DEF PhoneSigns
  <1>6. CASE Tick
    BY <1>6 DEF Tick
  <1>7. CASE UNCHANGED vars
    BY <1>7 DEF vars
  <1>8. QED
    BY <1>1, <1>2, <1>3, <1>4, <1>5, <1>6, <1>7 DEF Next

LEMMA BackedReturn ==
    ASSUME TypeOK, Backed, NEW r \in Calls, NEW what, Return(r, what),
           what = "granted" => Met(r),
           result' = result \/ result' = [result EXCEPT ![r] = "empty"]
    PROVE  Backed'
  <1>1. \A s : Met(s)' <=> Met(s)
    BY DEF Return, Met, Explicit, historyVars
  <1>2. \A c \in Conns : answer'[c] = "ok" =>
           pc'[c] = "await" /\ Met(inHand[c])' /\ inHand' = inHand
    BY <1>1 DEF Backed, Return, phoneVars, handlerVars
  <1>3. \A s \in Calls : result'[s] = "granted" => Met(s)'
    BY <1>1 DEF Backed, TypeOK
  <1>4. \A s \in Calls : outcome'[s] = "granted" => Met(s)'
    BY <1>1 DEF Backed, Return, TypeOK
  <1>5. QED
    BY <1>2, <1>3, <1>4 DEF Backed, Met, Explicit

LEMMA BackedNext == TypeOK /\ Backed /\ [Next]_vars => Backed'
  <1> SUFFICES ASSUME TypeOK, Backed, [Next]_vars PROVE Backed'
    OBVIOUS
  <1>m. \A r : Met(r) => Met(r)'
    BY HistoryGrows, MetStays
  <1>s. ASSUME \A c \in Conns : answer'[c] = "ok" =>
                  answer[c] = "ok" /\ pc'[c] = pc[c] /\ inHand'[c] = inHand[c],
               \A r \in Calls : result'[r] = "granted" =>
                  result[r] = "granted" \/ Met(r),
               outcome' = outcome
        PROVE  Backed'
    <2>1. ASSUME NEW c \in Conns, answer'[c] = "ok"
          PROVE  pc'[c] = "await" /\ Met(inHand[c])' /\ inHand'[c] = inHand[c]
      BY <1>m, <1>s, <2>1 DEF Backed
    <2>2. QED
      BY <1>m, <1>s, <2>1 DEF Backed, Met, Explicit
  <1>1. ASSUME NEW p \in Phones, ToggleLock(p) PROVE Backed'
    BY <1>1, <1>s DEF ToggleLock, handlerVars, callVars
  <1>2. ASSUME NEW c \in Conns,
               PhonePolls(c) \/ PhoneRefuses(c) \/ LoseLink(c)
        PROVE  Backed'
    BY <1>2, <1>s DEF PhonePolls, PhoneRefuses, LoseLink, handlerVars, callVars,
                      TypeOK
  <1>3. ASSUME NEW c \in Conns, PhoneSigns(c) PROVE Backed'
    <2>1. /\ pc[c] = "await"
          /\ pc' = pc /\ inHand' = inHand /\ result' = result
          /\ outcome' = outcome
          /\ answer' = [answer EXCEPT ![c] = "ok"]
      BY <1>3 DEF PhoneSigns, handlerVars, callVars
    <2>2. Met(inHand[c])'
      BY <1>3, <2>1 DEF PhoneSigns, Met, Explicit
    <2>3. ASSUME NEW d \in Conns, answer'[d] = "ok"
          PROVE  pc'[d] = "await" /\ Met(inHand[d])'
      <3>1. CASE d = c
        BY <3>1, <2>1, <2>2
      <3>2. CASE d # c
        <4>1. answer[d] = "ok"
          BY <3>2, <2>1, <2>3 DEF TypeOK
        <4>2. pc[d] = "await" /\ Met(inHand[d])
          BY <4>1 DEF Backed
        <4>3. Met(inHand[d])'
          BY <4>2, <1>m, <2>1 DEF Met, Explicit
        <4>4. QED
          BY <4>2, <4>3, <2>1
      <3>3. QED
        BY <3>1, <3>2
    <2>4. QED
      BY <2>1, <2>3, <1>m DEF Backed, Met, Explicit
  <1>4. ASSUME NEW c \in Conns, Connect(c) PROVE Backed'
    <2>1. answer[c] # "ok"
      BY <1>4 DEF Connect, Backed
    <2>2. QED
      BY <1>4, <2>1, <1>s DEF Connect, callVars, TypeOK
  <1>5. ASSUME NEW c \in Conns, AnswerPoll(c) PROVE Backed'
    BY <1>5, <1>s DEF AnswerPoll, Heartbeat, callVars
  <1>6. ASSUME NEW c \in Conns, Issue(c) PROVE Backed'
    <2>1. answer[c] # "ok"
      BY <1>6 DEF Issue, Heartbeat, Backed
    <2>2. QED
      BY <1>6, <2>1, <1>s DEF Issue, Heartbeat, callVars, TypeOK
  <1>7. ASSUME NEW c \in Conns, TakeAnswer(c) PROVE Backed'
    <2>1. Verdict(c) = "granted" => answer[c] = "ok"
      BY <1>7 DEF TakeAnswer, Verdict, TypeOK
    <2>2. Verdict(c) = "granted" => Met(inHand[c])
      BY <2>1 DEF Backed
    <2>3. result' = [result EXCEPT ![inHand[c]] = Verdict(c)]
      BY <1>7 DEF TakeAnswer, Deliver
    <2>4. \A r \in Calls : result'[r] = "granted" =>
             result[r] = "granted" \/ Met(r)
      BY <2>2, <2>3 DEF TypeOK
    <2>5. QED
      BY <1>7, <2>4, <1>s DEF TakeAnswer, callVars, TypeOK
  <1>8. ASSUME NEW c \in Conns, ReadFails(c) PROVE Backed'
    <2>1. result' = result \/ result' = [result EXCEPT ![inHand[c]] = "lost"]
      BY <1>8 DEF ReadFails, Deliver
    <2>2. \A r \in Calls : result'[r] = "granted" => result[r] = "granted"
      BY <2>1 DEF TypeOK
    <2>3. QED
      BY <1>8, <2>2, <1>s DEF ReadFails, callVars, TypeOK
  <1>9. ASSUME NEW r \in Calls, Deny(r) \/ QueueUnavailable(r) \/ TimeOut(r)
        PROVE  Backed'
    BY <1>9, BackedReturn DEF Deny, QueueUnavailable, TimeOut
  <1>10. ASSUME NEW r \in Calls, TakeResult(r) PROVE Backed'
    <2>1. result[r] = "granted" => Met(r)
      BY DEF Backed
    <2>2. QED
      BY <1>10, <2>1, BackedReturn DEF TakeResult
  <1>11. ASSUME NEW r \in Calls, Allow(r) \/ Enqueue(r) \/ ClientGivesUp(r)
         PROVE  Backed'
    BY <1>11, <1>s DEF Allow, Enqueue, ClientGivesUp, phoneVars, handlerVars,
                       callVars
  <1>12. CASE Tick
    BY <1>12, <1>s DEF Tick, phoneVars
  <1>13. CASE UNCHANGED vars
    BY <1>13, <1>s DEF vars, phoneVars, handlerVars, callVars
  <1>14. QED
    BY <1>1, <1>2, <1>3, <1>4, <1>5, <1>6, <1>7, <1>8, <1>9, <1>10, <1>11,
       <1>12, <1>13 DEF Next, HandlerStep, CallStep

\* GrantedAsRequired holds of every behaviour: whatever calls, sessions and modes
\* cross, "granted" reaches a caller only for a request of its own that a phone
\* signed, on the owner's tap where one is required.
THEOREM GrantsAreRequired == Spec => []GrantedAsRequired
  <1>1. Backed => GrantedAsRequired
    BY DEF Backed, GrantedAsRequired, Met, Explicit
  <1>2. QED
    BY <1>1, TypeInit, TypeNext, BackedInit, BackedNext, PTL DEF Spec

-----------------------------------------------------------------------------
(* One place for every request. *)

Somewhere(r) == Queued(r) \cup Holders(r)

\* Why OnePlace is inductive: besides what it says, a call that has sent nothing
\* is nowhere and has no result, and one that still waits has returned nothing.
Placed(r) ==
    /\ \A s, t \in Queued(r) : s = t
    /\ \A c, d \in Holders(r) : c = d
    /\ Queued(r) = {} \/ Holders(r) = {}
    /\ result[r] # "empty" => Somewhere(r) = {}
    /\ call[r] \in {"idle", "sending"} =>
          result[r] = "empty" /\ Somewhere(r) = {}
    /\ call[r] # "done" => outcome[r] \notin Results
    /\ outcome[r] \in Results => Somewhere(r) = {}

AllPlaced == \A r \in Calls : Placed(r)

LEMMA AtMostOne ==
    ASSUME NEW S, \A s, t \in S : s = t
    PROVE  Cardinality(S) \in {0, 1}
  <1>1. CASE S = {}
    BY <1>1, FS_EmptySet
  <1>2. CASE S # {}
    <2>1. PICK x : S = {x}
      BY <1>2
    <2>2. QED
      BY <2>1, FS_Singleton
  <1>3. QED
    BY <1>1, <1>2

LEMMA PlacedGivesOnePlace == TypeOK /\ AllPlaced => OnePlace
  <1> SUFFICES ASSUME TypeOK, AllPlaced, NEW r \in Calls
               PROVE  /\ Cardinality(Queued(r)) + Cardinality(Holders(r)) +
                            (IF result[r] = "empty" THEN 0 ELSE 1) <= 1
                      /\ \/ call[r] \in {"idle", "sending"}
                         \/ outcome[r] \in Results
                         => Queued(r) \cup Holders(r) = {}
    BY DEF OnePlace
  <1>1. Placed(r)
    BY DEF AllPlaced
  <1>2. /\ Cardinality(Queued(r)) \in {0, 1}
        /\ Cardinality(Holders(r)) \in {0, 1}
    BY <1>1, AtMostOne DEF Placed
  <1>3. /\ Queued(r) = {} => Cardinality(Queued(r)) = 0
        /\ Holders(r) = {} => Cardinality(Holders(r)) = 0
    BY FS_EmptySet
  <1>4. /\ Queued(r) = {} \/ Holders(r) = {}
        /\ result[r] # "empty" => Queued(r) = {} /\ Holders(r) = {}
    BY <1>1 DEF Placed, Somewhere
  <1>5. Cardinality(Queued(r)) + Cardinality(Holders(r)) +
           (IF result[r] = "empty" THEN 0 ELSE 1) <= 1
    BY <1>2, <1>3, <1>4
  <1>6. QED
    BY <1>1, <1>5 DEF Placed, Somewhere

LEMMA PlacedInit == Init => AllPlaced
  <1> SUFFICES ASSUME Init, NEW r \in Calls PROVE Placed(r)
    BY DEF AllPlaced
  <1>1. Queued(r) = {}
    BY DEF Init, Queued
  <1>2. Holders(r) = {}
    BY CallsAssumption DEF Init, Holders
  <1>3. QED
    BY <1>1, <1>2 DEF Init, Placed, Somewhere, Results

\* A call that leaves places, and is otherwise as it was, is still in one.
LEMMA PlacedStays ==
    ASSUME NEW r, Placed(r),
           Queued(r)' \subseteq Queued(r), Holders(r)' \subseteq Holders(r),
           result'[r] = result[r], call'[r] = call[r], outcome'[r] = outcome[r]
    PROVE  Placed(r)'
  BY DEF Placed, Somewhere

\* Taking the head of a channel moves one request and shifts the others.
LEMMA PlacedIssue ==
    ASSUME TypeOK, AllPlaced, NEW c \in Conns, Issue(c)
    PROVE  AllPlaced'
  <1> USE TimesAssumption
  <1>1. queue[c] \in Seq(Calls) /\ queue[c] # <<>> /\ Len(queue[c]) <= QueueCap
    BY DEF Issue, TypeOK
  <1>0. PICK h : h = Head(queue[c])
    OBVIOUS
  <1>2. /\ h \in Calls
        /\ h = queue[c][1]
        /\ 1 \in DOMAIN queue[c]
        /\ \A i \in DOMAIN Tail(queue[c]) :
              i + 1 \in DOMAIN queue[c] /\ Tail(queue[c])[i] = queue[c][i + 1]
    BY <1>0, <1>1, HeadTail
  <1>3. DOMAIN queue[c] \subseteq 1..QueueCap
    BY <1>1
  <1>4. /\ queue' = [queue EXCEPT ![c] = Tail(queue[c])]
        /\ inHand' = [inHand EXCEPT ![c] = h]
        /\ inHand[c] = NoCall
        /\ result' = result /\ call' = call /\ outcome' = outcome
    BY <1>0 DEF Issue, Heartbeat, TypeOK, callVars
  <1>5. ASSUME NEW r, NEW s \in Queued(r)'
        PROVE  \/ s[1] # c /\ s \in Queued(r)
               \/ s[1] = c /\ s[2] \in Nat /\ <<c, s[2] + 1>> \in Queued(r)
    <2>1. /\ s \in Conns \X (1..QueueCap)
          /\ s[2] \in DOMAIN queue'[s[1]]
          /\ queue'[s[1]][s[2]] = r
      BY <1>5 DEF Queued
    <2>2. CASE s[1] = c
      <3>1. queue'[c] = Tail(queue[c])
        BY <1>4 DEF TypeOK
      <3>2. s[2] + 1 \in DOMAIN queue[c] /\ queue[c][s[2] + 1] = r
        BY <2>1, <2>2, <3>1, <1>2
      <3>3. <<c, s[2] + 1>> \in Conns \X (1..QueueCap)
        BY <3>2, <1>3
      <3>4. QED
        BY <2>1, <2>2, <3>2, <3>3 DEF Queued
    <2>3. CASE s[1] # c
      BY <2>1, <2>3, <1>4 DEF Queued, TypeOK
    <2>4. QED
      BY <2>2, <2>3
  <1>6. <<c, 1>> \in Queued(h)
    BY <1>2, <1>3 DEF Queued
  <1>7. Queued(h)' = {}
    <2>1. ASSUME NEW s \in Queued(h)' PROVE FALSE
      <3>1. \A t \in Queued(h) : t = <<c, 1>>
        BY <1>2, <1>6 DEF AllPlaced, Placed
      <3>2. CASE s[1] # c /\ s \in Queued(h)
        BY <3>1, <3>2
      <3>3. CASE s[2] \in Nat /\ <<c, s[2] + 1>> \in Queued(h) /\ s[1] = c
        <4>1. <<c, s[2] + 1>> = <<c, 1>>
          BY <3>1, <3>3
        <4>2. s[2] = 0
          BY <4>1, <3>3
        <4>3. s[2] \in 1..QueueCap
          BY <2>1 DEF Queued
        <4>4. QED
          BY <4>2, <4>3
      <3>4. QED
        BY <2>1, <1>5, <3>2, <3>3
    <2>2. QED
      BY <2>1
  <1>8. ASSUME NEW r \in Calls, r # h PROVE Placed(r)'
    <2>1. Holders(r)' \subseteq Holders(r)
      BY <1>4, <1>8 DEF Holders, TypeOK
    <2>2. \A s, t \in Queued(r)' : s = t
      <3> SUFFICES ASSUME NEW s \in Queued(r)', NEW t \in Queued(r)'
                   PROVE  s = t
        OBVIOUS
      <3>1. /\ s \in Conns \X (1..QueueCap)
            /\ t \in Conns \X (1..QueueCap)
        BY DEF Queued
      <3>2. \A u, v \in Queued(r) : u = v
        BY <1>8 DEF AllPlaced, Placed
      <3>3. CASE s[1] = c /\ t[1] = c
        <4>1. <<c, s[2] + 1>> = <<c, t[2] + 1>>
          BY <3>2, <3>3, <1>5
        <4>2. s[2] + 1 = t[2] + 1
          BY <4>1
        <4>3. s[2] = t[2]
          BY <4>2, <3>1
        <4>4. QED
          BY <4>3, <3>1, <3>3
      <3>4. CASE s[1] # c /\ t[1] # c
        BY <3>2, <3>4, <1>5
      <3>5. CASE s[1] = c /\ t[1] # c
        <4>1. <<c, s[2] + 1>> = t
          BY <3>2, <3>5, <1>5
        <4>2. QED
          BY <4>1, <3>5
      <3>6. CASE s[1] # c /\ t[1] = c
        <4>1. <<c, t[2] + 1>> = s
          BY <3>2, <3>6, <1>5
        <4>2. QED
          BY <4>1, <3>6
      <3>7. QED
        BY <3>3, <3>4, <3>5, <3>6
    <2>3. Queued(r) = {} => Queued(r)' = {}
      BY <1>5
    <2>4. QED
      BY <1>4, <1>8, <2>1, <2>2, <2>3 DEF AllPlaced, Placed, Somewhere
  <1>9. Placed(h)'
    <2>1. Placed(h) /\ Holders(h) = {} /\ Queued(h) # {}
      BY <1>2, <1>6 DEF AllPlaced, Placed
    <2>2. Holders(h)' = {c}
      BY <2>1, <1>4 DEF Holders, TypeOK
    <2>3. QED
      BY <1>4, <1>7, <2>1, <2>2 DEF Placed, Somewhere
  <1>10. QED
    BY <1>8, <1>9 DEF AllPlaced

LEMMA PlacedEnqueue ==
    ASSUME TypeOK, AllPlaced, NEW r \in Calls, Enqueue(r)
    PROVE  AllPlaced'
  <1> USE TimesAssumption
  <1>1. PICK c \in Conns : c = chosen[r]
    BY DEF Enqueue, TypeOK
  <1>2. /\ queue' = [queue EXCEPT ![c] = Append(queue[c], r)]
        /\ call' = [call EXCEPT ![r] = "waiting"]
        /\ call[r] = "sending"
        /\ inHand' = inHand /\ result' = result /\ outcome' = outcome
    BY <1>1 DEF Enqueue, handlerVars
  <1>3. PICK n : n = Len(queue[c]) + 1
    OBVIOUS
  <1>4. \A i \in DOMAIN Append(queue[c], r) :
           \/ i \in DOMAIN queue[c] /\ Append(queue[c], r)[i] = queue[c][i]
           \/ i = n /\ Append(queue[c], r)[i] = r
    <2>1. queue[c] \in Seq(Calls)
      BY DEF TypeOK
    <2>2. QED
      BY <1>3, <2>1, Appended
  <1>5. ASSUME NEW x, NEW s \in Queued(x)'
        PROVE  s \in Queued(x) \/ (x = r /\ s = <<c, n>>)
    <2>1. /\ s \in Conns \X (1..QueueCap)
          /\ s[2] \in DOMAIN queue'[s[1]]
          /\ queue'[s[1]][s[2]] = x
      BY <1>5 DEF Queued
    <2>2. CASE s[1] = c
      <3>1. queue'[s[1]] = Append(queue[c], r)
        BY <2>2, <1>2 DEF TypeOK
      <3>2. QED
        <4>1. CASE s[2] \in DOMAIN queue[c] /\ queue[c][s[2]] = x
          BY <4>1, <2>1, <2>2 DEF Queued
        <4>2. CASE s[2] = n /\ x = r
          <5>1. s = <<s[1], s[2]>>
            BY <2>1
          <5>2. QED
            BY <4>2, <2>2, <5>1
        <4>3. QED
          BY <2>1, <3>1, <1>4, <4>1, <4>2
    <2>3. CASE s[1] # c
      <3>1. s[1] \in Conns
        BY <2>1
      <3>2. queue'[s[1]] = queue[s[1]]
        BY <2>3, <3>1, <1>2 DEF TypeOK
      <3>3. s[2] \in DOMAIN queue[s[1]] /\ queue[s[1]][s[2]] = x
        BY <2>1, <3>2
      <3>4. QED
        BY <2>1, <3>3 DEF Queued
    <2>4. QED
      BY <2>2, <2>3
  <1>6. \A x : Holders(x)' = Holders(x)
    BY <1>2 DEF Holders
  <1>7. Placed(r)'
    <2>1. /\ Placed(r) /\ Queued(r) = {} /\ Holders(r) = {}
          /\ result[r] = "empty" /\ outcome[r] \notin Results
      BY <1>2 DEF AllPlaced, Placed, Somewhere
    <2>2. \A s, t \in Queued(r)' : s = t
      BY <1>5, <2>1
    <2>3. call'[r] = "waiting"
      BY <1>2 DEF TypeOK
    <2>4. QED
      BY <1>2, <1>6, <2>1, <2>2, <2>3 DEF Placed, Somewhere
  <1>8. ASSUME NEW x \in Calls, x # r PROVE Placed(x)'
    <2>1. Queued(x)' \subseteq Queued(x)
      BY <1>5, <1>8
    <2>2. QED
      BY <1>2, <1>6, <1>8, <2>1, PlacedStays DEF AllPlaced, TypeOK
  <1>9. QED
    BY <1>7, <1>8 DEF AllPlaced

\* A handler lets go of its request into the result channel.
LEMMA PlacedDeliver ==
    ASSUME TypeOK, AllPlaced, NEW c \in Conns, NEW r \in Calls, r = inHand[c],
           inHand' = [inHand EXCEPT ![c] = NoCall], queue' = queue,
           \A x \in Calls : x # r => result'[x] = result[x],
           call' = call, outcome' = outcome
    PROVE  AllPlaced'
  <1>1. \A x : Queued(x)' = Queued(x)
    BY DEF Queued
  <1>2. \A x \in Calls : Holders(x)' \subseteq Holders(x) \ {c}
    BY CallsAssumption DEF Holders, TypeOK
  <1>3. /\ Placed(r) /\ Holders(r) = {c}
        /\ Queued(r) = {}
    BY DEF AllPlaced, Placed, Holders
  <1>4. Placed(r)'
    <2>1. Somewhere(r)' = {}
      BY <1>1, <1>2, <1>3 DEF Somewhere
    <2>2. call[r] \notin {"idle", "sending"}
      BY <1>3 DEF Placed, Somewhere
    <2>3. QED
      BY <1>3, <2>1, <2>2 DEF Placed, Somewhere
  <1>5. ASSUME NEW x \in Calls, x # r PROVE Placed(x)'
    BY <1>1, <1>2, <1>5, PlacedStays DEF AllPlaced
  <1>6. QED
    BY <1>4, <1>5 DEF AllPlaced

LEMMA PlacedReturn ==
    ASSUME TypeOK, AllPlaced, NEW r \in Calls, NEW what, Return(r, what),
           \/ what \notin Results /\ result' = result
           \/ /\ result[r] # "empty"
              /\ result' = [result EXCEPT ![r] = "empty"]
    PROVE  AllPlaced'
  <1>1. \A x : Queued(x)' = Queued(x) /\ Holders(x)' = Holders(x)
    BY DEF Queued, Holders, Return, handlerVars
  <1>2. Placed(r)'
    <2>1. Placed(r)
      BY DEF AllPlaced
    <2>2. call'[r] = "done" /\ outcome'[r] = what
      BY DEF Return, TypeOK
    <2>3. CASE what \notin Results /\ result' = result
      BY <1>1, <2>1, <2>2, <2>3 DEF Placed, Somewhere
    <2>4. CASE /\ result[r] # "empty"
               /\ result' = [result EXCEPT ![r] = "empty"]
      <3>1. Somewhere(r) = {} /\ Somewhere(r)' = {}
        BY <1>1, <2>1, <2>4 DEF Placed, Somewhere
      <3>2. QED
        BY <1>1, <2>1, <2>2, <3>1 DEF Placed, Somewhere
    <2>5. QED
      BY <2>3, <2>4
  <1>3. ASSUME NEW x \in Calls, x # r PROVE Placed(x)'
    BY <1>1, <1>3, PlacedStays DEF AllPlaced, Return, TypeOK
  <1>4. QED
    BY <1>2, <1>3 DEF AllPlaced

LEMMA PlacedNext == TypeOK /\ AllPlaced /\ [Next]_vars => AllPlaced'
  <1> SUFFICES ASSUME TypeOK, AllPlaced, [Next]_vars PROVE AllPlaced'
    OBVIOUS
  <1>s. ASSUME queue' = queue, inHand' = inHand, result' = result,
               call' = call, outcome' = outcome
        PROVE  AllPlaced'
    <2>1. \A x : Queued(x)' = Queued(x) /\ Holders(x)' = Holders(x)
      BY <1>s DEF Queued, Holders
    <2>2. QED
      BY <1>s, <2>1, PlacedStays DEF AllPlaced
  <1>1. ASSUME NEW p \in Phones, ToggleLock(p) PROVE AllPlaced'
    BY <1>1, <1>s DEF ToggleLock, handlerVars, callVars
  <1>2. ASSUME NEW c \in Conns,
               \/ PhonePolls(c) \/ PhoneSigns(c) \/ PhoneRefuses(c)
               \/ LoseLink(c) \/ Connect(c) \/ AnswerPoll(c)
        PROVE  AllPlaced'
    BY <1>2, <1>s DEF PhonePolls, PhoneSigns, PhoneRefuses, LoseLink, Connect,
                      AnswerPoll, Heartbeat, handlerVars, callVars
  <1>3. ASSUME NEW c \in Conns, Issue(c) PROVE AllPlaced'
    BY <1>3, PlacedIssue
  <1>4. ASSUME NEW c \in Conns, TakeAnswer(c) PROVE AllPlaced'
    <2>1. PICK r \in Calls : r = inHand[c]
      BY <1>4 DEF TakeAnswer, TypeOK
    <2>2. result' = [result EXCEPT ![r] = Verdict(c)]
      BY <1>4, <2>1 DEF TakeAnswer, Deliver
    <2>3. QED
      BY <1>4, <2>1, <2>2, PlacedDeliver DEF TakeAnswer, callVars, TypeOK
  <1>5. ASSUME NEW c \in Conns, ReadFails(c) PROVE AllPlaced'
    <2>1. CASE pc[c] = "await"
      <3>1. PICK r \in Calls : r = inHand[c]
        BY <2>1 DEF TypeOK
      <3>2. result' = [result EXCEPT ![r] = "lost"]
        BY <1>5, <2>1, <3>1 DEF ReadFails, Deliver
      <3>3. QED
        BY <1>5, <3>1, <3>2, PlacedDeliver DEF ReadFails, callVars, TypeOK
    <2>2. CASE pc[c] # "await"
      <3>1. inHand' = inHand
        <4>1. inHand[c] = NoCall /\ inHand \in [Conns -> Calls \cup {NoCall}]
          BY <2>2 DEF TypeOK
        <4>2. inHand' = [inHand EXCEPT ![c] = NoCall]
          BY <1>5 DEF ReadFails
        <4>3. QED
          BY <4>1, <4>2
      <3>2. QED
        BY <1>5, <2>2, <3>1, <1>s DEF ReadFails, callVars
    <2>3. QED
      BY <2>1, <2>2
  <1>6. ASSUME NEW r \in Calls, Deny(r) \/ QueueUnavailable(r) \/ TimeOut(r)
        PROVE  AllPlaced'
    BY <1>6, PlacedReturn DEF Deny, QueueUnavailable, TimeOut, Results
  <1>7. ASSUME NEW r \in Calls, TakeResult(r) PROVE AllPlaced'
    BY <1>7, PlacedReturn DEF TakeResult
  <1>8. ASSUME NEW r \in Calls, Enqueue(r) PROVE AllPlaced'
    BY <1>8, PlacedEnqueue
  <1>9. ASSUME NEW r \in Calls, Allow(r) PROVE AllPlaced'
    <2>1. /\ queue' = queue /\ inHand' = inHand
          /\ result' = result /\ outcome' = outcome
          /\ call[r] = "idle" /\ call' = [call EXCEPT ![r] = "sending"]
      BY <1>9 DEF Allow, handlerVars
    <2>2. \A x : Queued(x)' = Queued(x) /\ Holders(x)' = Holders(x)
      BY <2>1 DEF Queued, Holders
    <2>3. Placed(r)'
      <3>1. Placed(r) /\ call'[r] = "sending"
        BY <2>1 DEF AllPlaced, TypeOK
      <3>2. QED
        BY <2>1, <2>2, <3>1 DEF Placed, Somewhere
    <2>4. ASSUME NEW x \in Calls, x # r PROVE Placed(x)'
      <3>1. call'[x] = call[x]
        BY <2>1, <2>4 DEF TypeOK
      <3>2. QED
        BY <2>1, <2>2, <3>1, PlacedStays DEF AllPlaced
    <2>5. QED
      BY <2>3, <2>4 DEF AllPlaced
  <1>10. ASSUME NEW r \in Calls, ClientGivesUp(r) PROVE AllPlaced'
    BY <1>10, <1>s DEF ClientGivesUp, handlerVars, callVars
  <1>11. CASE Tick
    BY <1>11, <1>s DEF Tick
  <1>12. CASE UNCHANGED vars
    BY <1>12, <1>s DEF vars, handlerVars, callVars
  <1>13. QED
    BY <1>1, <1>2, <1>3, <1>4, <1>5, <1>6, <1>7, <1>8, <1>9, <1>10, <1>11, <1>12
    DEF Next, HandlerStep, CallStep

\* OnePlace holds of every behaviour, for channels of any capacity: a request is
\* never twice in the channels, never in two hands, and a result channel that
\* holds a result is never written again.
THEOREM OnePlaceOnly == Spec => []OnePlace
  <1>1. QED
    BY TypeInit, TypeNext, PlacedInit, PlacedNext, PlacedGivesOnePlace, PTL
    DEF Spec
-----------------------------------------------------------------------------
(* Clients that outlast their calls. *)

\* The client knows how long its call may take.
Knows(r) == Explicit(r) => r \in AsksExplicit

\* Why ClientsOutwait is inductive: what a waiting client has left covers what
\* its call has left, the wait for a result included while the call is still
\* waiting for room in the channel.
Outlasts(r) ==
    /\ client[r] # "gone"
    /\ call[r] = "idle" => client[r] = "idle"
    /\ client[r] = "waiting" =>
          \/ call[r] = "sending" /\ clientLeft[r] > left[r] + Wait(r)
          \/ call[r] = "waiting" /\ clientLeft[r] > left[r]
AllOutlast == \A r \in Calls : Knows(r) => Outlasts(r)

LEMMA OutlastInit == Init => AllOutlast
  BY DEF Init, AllOutlast, Outlasts

LEMMA OutlastStays ==
    ASSUME NEW r, Outlasts(r), client'[r] = client[r], call'[r] = call[r],
           clientLeft'[r] = clientLeft[r], left'[r] = left[r]
    PROVE  Outlasts(r)'
  BY DEF Outlasts, Wait, Explicit

LEMMA OutlastReturn ==
    ASSUME TypeOK, NEW r \in Calls, NEW what, Return(r, what), Outlasts(r)
    PROVE  Outlasts(r)'
  <1>1. call'[r] = "done" /\ client'[r] \notin {"waiting", "gone"}
    BY DEF Return, TypeOK, Outlasts
  <1>2. QED
    BY <1>1 DEF Outlasts

\* A call of another client.
LEMMA OutlastOther ==
    ASSUME TypeOK, NEW s \in Calls, NEW r \in Calls, r # s, Outlasts(r),
           Deny(s) \/ Allow(s) \/ CallStep(s) \/ ClientGivesUp(s)
    PROVE  Outlasts(r)'
  <1>1. client'[r] = client[r] /\ call'[r] = call[r]
    BY DEF Deny, Allow, CallStep, ClientGivesUp, Enqueue, QueueUnavailable,
           TakeResult, TimeOut, Return, TypeOK, callVars, clientVars
  <1>2. clientLeft'[r] = clientLeft[r] /\ left'[r] = left[r]
    BY DEF Deny, Allow, CallStep, ClientGivesUp, Enqueue, QueueUnavailable,
           TakeResult, TimeOut, Return, TypeOK, callVars, clientVars
  <1>3. QED
    BY <1>1, <1>2, OutlastStays

LEMMA OutlastAllow ==
    ASSUME TypeOK, NEW r \in Calls, Knows(r), Outlasts(r), Allow(r)
    PROVE  Outlasts(r)'
  <1>1. call[r] = "idle" /\ client[r] = "idle"
    BY DEF Allow, Outlasts
  <1>2. call'[r] = "sending" /\ left'[r] = EnqueueWait
    BY DEF Allow, TypeOK
  <1>3. CASE r \in Clients
    <2>1. clientLeft'[r] =
             IF r \in AsksExplicit THEN ExplicitClientWait ELSE ClientWait
      BY <1>3 DEF Allow, TypeOK
    <2>2. client'[r] = "waiting"
      BY <1>3 DEF Allow, TypeOK
    <2>3. clientLeft'[r] > EnqueueWait + Wait(r)
      BY <2>1, ClientsAssumption DEF Knows, Wait, Explicit
    <2>4. QED
      BY <1>2, <2>2, <2>3 DEF Outlasts, Wait, Explicit
  <1>4. CASE r \notin Clients
    BY <1>1, <1>2, <1>4 DEF Allow, clientVars, Outlasts
  <1>5. QED
    BY <1>3, <1>4

LEMMA OutlastEnqueue ==
    ASSUME TypeOK, NEW r \in Calls, Outlasts(r), Enqueue(r)
    PROVE  Outlasts(r)'
  <1>1. /\ call[r] = "sending" /\ call'[r] = "waiting"
        /\ left'[r] = Wait(r)
        /\ client' = client /\ clientLeft' = clientLeft
    BY DEF Enqueue, TypeOK, clientVars
  <1>2. clientLeft[r] \in Nat /\ left[r] \in Nat /\ Wait(r) \in Nat
    BY WaitType DEF TypeOK
  <1>3. QED
    BY <1>1, <1>2 DEF Outlasts

\* A client that knows what to expect has always time left.
LEMMA OutlastGivesUp ==
    ASSUME TypeOK, NEW r \in Calls, Outlasts(r), ClientGivesUp(r)
    PROVE  FALSE
  <1>1. clientLeft[r] \in Nat /\ left[r] \in Nat /\ Wait(r) \in Nat
    BY WaitType DEF TypeOK
  <1>2. QED
    BY <1>1 DEF ClientGivesUp, Outlasts

\* Time waits for a call whose own time has run out, so that the two countdowns
\* move together.
LEMMA OutlastTick ==
    ASSUME TypeOK, NEW r \in Calls, Outlasts(r), Tick
    PROVE  Outlasts(r)'
  <1>1. /\ call' = call /\ client' = client
        /\ left' = Less(left) /\ clientLeft' = Less(clientLeft)
    BY DEF Tick
  <1>2. CASE client[r] = "waiting"
    <2>1. call[r] \in {"sending", "waiting"}
      BY <1>2 DEF Outlasts
    <2>2. left[r] # 0 /\ clientLeft[r] # 0
      BY <1>2, <2>1 DEF Tick, Due
    <2>3. clientLeft[r] \in Nat /\ left[r] \in Nat /\ Wait(r) \in Nat
      BY WaitType DEF TypeOK
    <2>4. DOMAIN left = Calls /\ DOMAIN clientLeft = Calls
      BY DEF TypeOK
    <2>5. left'[r] = left[r] - 1 /\ clientLeft'[r] = clientLeft[r] - 1
      BY <1>1, <2>2, <2>3, <2>4 DEF Less
    <2>6. Wait(r)' = Wait(r)
      BY DEF Wait, Explicit
    <2>7. QED
      BY <1>1, <1>2, <2>1, <2>3, <2>5, <2>6 DEF Outlasts
  <1>3. CASE client[r] # "waiting"
    BY <1>1, <1>3 DEF Outlasts
  <1>4. QED
    BY <1>2, <1>3

LEMMA OutlastNext == TypeOK /\ AllOutlast /\ [Next]_vars => AllOutlast'
  <1> SUFFICES ASSUME TypeOK, AllOutlast, [Next]_vars,
                      NEW r \in Calls, Knows(r), Outlasts(r)
               PROVE  Outlasts(r)'
    BY DEF AllOutlast, Knows, Explicit
  <1>1. ASSUME callVars' = callVars, clientVars' = clientVars
        PROVE  Outlasts(r)'
    BY <1>1, OutlastStays DEF callVars, clientVars
  <1>2. ASSUME NEW p \in Phones, ToggleLock(p) PROVE Outlasts(r)'
    BY <1>1, <1>2 DEF ToggleLock
  <1>3. ASSUME NEW c \in Conns,
               \/ PhonePolls(c) \/ PhoneSigns(c) \/ PhoneRefuses(c)
               \/ LoseLink(c) \/ Connect(c)
        PROVE  Outlasts(r)'
    BY <1>1, <1>3 DEF PhonePolls, PhoneSigns, PhoneRefuses, LoseLink, Connect
  <1>4. ASSUME NEW c \in Conns, HandlerStep(c) PROVE Outlasts(r)'
    BY <1>1, <1>4
    DEF HandlerStep, AnswerPoll, Issue, Heartbeat, TakeAnswer, ReadFails
  <1>5. ASSUME NEW s \in Calls,
               Deny(s) \/ Allow(s) \/ CallStep(s) \/ ClientGivesUp(s)
        PROVE  Outlasts(r)'
    <2>1. CASE s # r
      BY <1>5, <2>1, OutlastOther
    <2>2. CASE s = r
      <3>1. CASE Deny(r) \/ QueueUnavailable(r) \/ TakeResult(r) \/ TimeOut(r)
        BY <3>1, OutlastReturn DEF Deny, QueueUnavailable, TakeResult, TimeOut
      <3>2. QED
        BY <1>5, <2>2, <3>1, OutlastAllow, OutlastEnqueue, OutlastGivesUp
        DEF CallStep
    <2>3. QED
      BY <2>1, <2>2
  <1>6. CASE Tick
    BY <1>6, OutlastTick
  <1>7. CASE UNCHANGED vars
    BY <1>1, <1>7 DEF vars
  <1>8. QED
    BY <1>2, <1>3, <1>4, <1>5, <1>6, <1>7 DEF Next

\* ClientsOutwait holds of every behaviour, for any deadlines of which the
\* client's exceeds the sum of the call's two: a client gives up only on a call
\* that the policy turned into an explicit one behind its back.
THEOREM ClientsOutwaitCalls == Spec => []ClientsOutwait
  <1>1. AllOutlast => ClientsOutwait
    BY DEF AllOutlast, Outlasts, Knows, ClientsOutwait
  <1>2. QED
    BY <1>1, TypeInit, TypeNext, OutlastInit, OutlastNext, PTL DEF Spec

-----------------------------------------------------------------------------
(* Why calls return and handlers go on: the measures that time runs down.    *)

Pending(r) == call[r] \in {"sending", "waiting"}
Remaining(r) == IF call[r] = "sending" THEN left[r] + Wait(r) ELSE left[r]

\* No call has more ahead of it than the two waits of its kind.
CallsBounded ==
    \A r \in Calls : Pending(r) => Remaining(r) <= EnqueueWait + Wait(r)

\* Whatever others do, a pending call comes closer to its end with every tick.
CallsRunDown ==
    \A r \in Calls : Pending(r) /\ Pending(r)' =>
        Remaining(r)' <= Remaining(r) /\ (Tick => Remaining(r)' < Remaining(r))

\* A handler that waits for an answer keeps its request and its read deadline,
\* and every tick brings it closer.
HandlersRunDown ==
    \A c \in Conns : pc[c] = "await" /\ pc'[c] = "await" =>
        /\ inHand'[c] = inHand[c]
        /\ readLeft'[c] <= readLeft[c]
        /\ Tick => readLeft'[c] < readLeft[c]

\* A pending call is touched by its own steps and by time.
LEMMA CallTouched ==
    ASSUME TypeOK, [Next]_vars, NEW r \in Calls, Pending(r)
    PROVE  \/ call'[r] = call[r] /\ left'[r] = left[r] /\ ~Tick
           \/ call'[r] = call[r] /\ left'[r] = left[r] - 1 /\ left[r] # 0
           \/ /\ call[r] = "sending" /\ call'[r] = "waiting"
              /\ left'[r] = Wait(r) /\ ~Tick
           \/ call'[r] = "done"
  <1>t. CASE Tick
    <2>1. left[r] \in Nat /\ left[r] # 0 /\ DOMAIN left = Calls
      BY <1>t DEF Tick, Due, Pending, TypeOK
    <2>2. left'[r] = left[r] - 1
      BY <1>t, <2>1 DEF Tick, Less
    <2>3. QED
      BY <1>t, <2>1, <2>2 DEF Tick
  <1>n. CASE ~Tick
    <2>1. ASSUME callVars' = callVars
          PROVE  call'[r] = call[r] /\ left'[r] = left[r]
      BY <2>1 DEF callVars
    <2>2. ASSUME NEW p \in Phones, ToggleLock(p) PROVE callVars' = callVars
      BY <2>2 DEF ToggleLock
    <2>3. ASSUME NEW c \in Conns,
                 \/ PhonePolls(c) \/ PhoneSigns(c) \/ PhoneRefuses(c)
                 \/ LoseLink(c) \/ Connect(c)
          PROVE  callVars' = callVars
      BY <2>3 DEF PhonePolls, PhoneSigns, PhoneRefuses, LoseLink, Connect
    <2>4. ASSUME NEW c \in Conns, HandlerStep(c) PROVE callVars' = callVars
      BY <2>4
      DEF HandlerStep, AnswerPoll, Issue, Heartbeat, TakeAnswer, ReadFails
    <2>5. ASSUME NEW s \in Calls, s # r,
                 Deny(s) \/ Allow(s) \/ CallStep(s) \/ ClientGivesUp(s)
          PROVE  call'[r] = call[r] /\ left'[r] = left[r]
      BY <2>5
      DEF Deny, Allow, CallStep, ClientGivesUp, Enqueue, QueueUnavailable,
          TakeResult, TimeOut, Return, TypeOK, callVars
    <2>6. CASE Deny(r) \/ Allow(r)
      BY <2>6 DEF Deny, Allow, Pending
    <2>7. CASE Enqueue(r)
      BY <1>n, <2>7 DEF Enqueue, TypeOK
    <2>8. CASE QueueUnavailable(r) \/ TakeResult(r) \/ TimeOut(r)
      BY <2>8 DEF QueueUnavailable, TakeResult, TimeOut, Return, TypeOK
    <2>9. CASE ClientGivesUp(r)
      BY <1>n, <2>1, <2>9 DEF ClientGivesUp
    <2>10. CASE UNCHANGED vars
      BY <1>n, <2>1, <2>10 DEF vars
    <2>11. QED
      BY <1>n, <2>1, <2>2, <2>3, <2>4, <2>5, <2>6, <2>7, <2>8, <2>9, <2>10
      DEF Next, CallStep
  <1>q. QED
    BY <1>t, <1>n

LEMMA RunDownStep ==
    ASSUME TypeOK, [Next]_vars
    PROVE  CallsRunDown
  <1> SUFFICES ASSUME NEW r \in Calls, Pending(r), Pending(r)'
               PROVE  /\ Remaining(r)' <= Remaining(r)
                      /\ Tick => Remaining(r)' < Remaining(r)
    BY DEF CallsRunDown
  <1>1. left[r] \in Nat /\ Wait(r) \in Nat /\ Wait(r)' = Wait(r)
    BY WaitType DEF TypeOK, Wait, Explicit
  <1>2. call'[r] # "done"
    BY DEF Pending
  <1>3. \/ call'[r] = call[r] /\ left'[r] = left[r] /\ ~Tick
        \/ call'[r] = call[r] /\ left'[r] = left[r] - 1 /\ left[r] # 0
        \/ /\ call[r] = "sending" /\ call'[r] = "waiting"
           /\ left'[r] = Wait(r) /\ ~Tick
    BY <1>2, CallTouched
  <1>4. CASE call'[r] = call[r] /\ left'[r] = left[r] /\ ~Tick
    BY <1>1, <1>4 DEF Remaining
  <1>5. CASE call'[r] = call[r] /\ left'[r] = left[r] - 1 /\ left[r] # 0
    BY <1>1, <1>5 DEF Remaining
  <1>6. CASE /\ call[r] = "sending" /\ call'[r] = "waiting"
             /\ left'[r] = Wait(r) /\ ~Tick
    BY <1>1, <1>6 DEF Remaining
  <1>7. QED
    BY <1>3, <1>4, <1>5, <1>6

LEMMA BoundedNext == TypeOK /\ CallsBounded /\ [Next]_vars => CallsBounded'
  <1> SUFFICES ASSUME TypeOK, CallsBounded, [Next]_vars,
                      NEW r \in Calls, Pending(r)'
               PROVE  Remaining(r)' <= EnqueueWait + Wait(r)'
    BY DEF CallsBounded
  <1>1. /\ left[r] \in Nat /\ left'[r] \in Nat
        /\ Wait(r) \in Nat /\ Wait(r)' = Wait(r) /\ EnqueueWait \in Nat
    BY TypeNext, WaitType, TimesAssumption DEF TypeOK, Wait, Explicit
  <1>2. CASE Pending(r)
    <2>1. Remaining(r) <= EnqueueWait + Wait(r)
      BY <1>2 DEF CallsBounded
    <2>2. Remaining(r)' <= Remaining(r)
      BY <1>2, RunDownStep DEF CallsRunDown
    <2>3. QED
      BY <1>1, <2>1, <2>2 DEF Remaining
  <1>3. CASE ~Pending(r)
    <2>1. Allow(r)
      <3>1. call'[r] # call[r]
        BY <1>3 DEF Pending
      <3>2. ASSUME callVars' = callVars PROVE FALSE
        BY <3>1, <3>2 DEF callVars
      <3>3. ASSUME NEW p \in Phones, ToggleLock(p) PROVE FALSE
        BY <3>2, <3>3 DEF ToggleLock
      <3>4. ASSUME NEW c \in Conns,
                   \/ PhonePolls(c) \/ PhoneSigns(c) \/ PhoneRefuses(c)
                   \/ LoseLink(c) \/ Connect(c)
            PROVE  FALSE
        BY <3>2, <3>4 DEF PhonePolls, PhoneSigns, PhoneRefuses, LoseLink, Connect
      <3>5. ASSUME NEW c \in Conns, HandlerStep(c) PROVE FALSE
        BY <3>2, <3>5
        DEF HandlerStep, AnswerPoll, Issue, Heartbeat, TakeAnswer, ReadFails
      <3>6. ASSUME NEW s \in Calls,
                   Deny(s) \/ Allow(s) \/ CallStep(s) \/ ClientGivesUp(s)
            PROVE  Allow(r)
        <4>1. CASE s = r
          BY <1>3, <3>1, <3>6, <4>1
          DEF Deny, CallStep, ClientGivesUp, Enqueue, QueueUnavailable,
              TakeResult, TimeOut, Return, TypeOK, callVars, Pending
        <4>2. CASE s # r
          BY <3>1, <3>6, <4>2
          DEF Deny, Allow, CallStep, ClientGivesUp, Enqueue, QueueUnavailable,
              TakeResult, TimeOut, Return, TypeOK, callVars
        <4>3. QED
          BY <4>1, <4>2
      <3>7. CASE Tick
        BY <3>1, <3>7 DEF Tick
      <3>8. CASE UNCHANGED vars
        BY <3>2, <3>8 DEF vars
      <3>9. QED
        BY <3>3, <3>4, <3>5, <3>6, <3>7, <3>8 DEF Next
    <2>2. call'[r] = "sending" /\ left'[r] = EnqueueWait
      BY <2>1 DEF Allow, TypeOK
    <2>3. QED
      BY <1>1, <2>2 DEF Remaining
  <1>4. QED
    BY <1>2, <1>3

\* The safety half of EveryCallReturns, for any deadlines: a call that was let
\* through is never more than EnqueueWait + Wait ticks from its end, and no
\* step of any other caller, handler or phone puts that end off.
THEOREM CallsAreBounded == Spec => []CallsBounded /\ [][CallsRunDown]_vars
  <1>1. Init => CallsBounded
    BY DEF Init, CallsBounded, Pending
  <1>2. TypeOK /\ [Next]_vars => [CallsRunDown]_vars
    BY RunDownStep
  <1>3. QED
    BY <1>1, <1>2, TypeInit, TypeNext, BoundedNext, PTL DEF Spec

\* The safety half of HandlersGoOn: a handler that awaits an answer has no more
\* than the read deadline ahead of it, and nothing prolongs it.
THEOREM HandlersAreBounded == Spec => [][HandlersRunDown]_vars
  <1>1. ASSUME TypeOK, [Next]_vars PROVE HandlersRunDown
    <2> SUFFICES ASSUME NEW c \in Conns, pc[c] = "await", pc'[c] = "await"
                 PROVE  /\ inHand'[c] = inHand[c]
                        /\ readLeft'[c] <= readLeft[c]
                        /\ Tick => readLeft'[c] < readLeft[c]
      BY DEF HandlersRunDown
    <2>0. readLeft[c] \in Nat
      BY <1>1 DEF TypeOK
    <2>s. ASSUME inHand'[c] = inHand[c], readLeft'[c] = readLeft[c], ~Tick
          PROVE  /\ inHand'[c] = inHand[c]
                 /\ readLeft'[c] <= readLeft[c]
                 /\ Tick => readLeft'[c] < readLeft[c]
      BY <2>0, <2>s
    <2>1. CASE Tick
      <3>1. readLeft[c] # 0 /\ DOMAIN readLeft = Conns
        BY <1>1, <2>1 DEF Tick, Due, Serving, TypeOK
      <3>2. readLeft'[c] = readLeft[c] - 1
        BY <2>0, <2>1, <3>1 DEF Tick, Less
      <3>3. QED
        BY <2>0, <2>1, <3>2 DEF Tick
    <2>2. ASSUME ~Tick, NEW d \in Conns, HandlerStep(d) \/ Connect(d)
          PROVE  inHand'[c] = inHand[c] /\ readLeft'[c] = readLeft[c]
      BY <1>1, <2>2
      DEF HandlerStep, AnswerPoll, Issue, Heartbeat, TakeAnswer, ReadFails,
          Connect, TypeOK
    <2>3. ASSUME handlerVars' = handlerVars
          PROVE  inHand'[c] = inHand[c] /\ readLeft'[c] = readLeft[c]
      BY <2>3 DEF handlerVars
    <2>4. ASSUME NEW p \in Phones, ToggleLock(p) PROVE handlerVars' = handlerVars
      BY <2>4 DEF ToggleLock
    <2>5. ASSUME NEW d \in Conns,
                 PhonePolls(d) \/ PhoneSigns(d) \/ PhoneRefuses(d) \/ LoseLink(d)
          PROVE  handlerVars' = handlerVars
      BY <2>5 DEF PhonePolls, PhoneSigns, PhoneRefuses, LoseLink
    <2>6. ASSUME NEW r \in Calls,
                 Deny(r) \/ Allow(r) \/ CallStep(r) \/ ClientGivesUp(r)
          PROVE  handlerVars' = handlerVars
      BY <2>6
      DEF Deny, Allow, CallStep, ClientGivesUp, Enqueue, QueueUnavailable,
          TakeResult, TimeOut, Return
    <2>7. CASE UNCHANGED vars /\ ~Tick
      BY <2>3, <2>7, <2>s DEF vars
    <2>8. QED
      BY <1>1, <2>s, <2>1, <2>2, <2>3, <2>4, <2>5, <2>6, <2>7 DEF Next
  <1>2. TypeOK /\ [Next]_vars => [HandlersRunDown]_vars
    BY <1>1
  <1>3. QED
    BY <1>2, TypeInit, TypeNext, PTL DEF Spec
=============================================================================
