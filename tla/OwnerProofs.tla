---------------------------- MODULE OwnerProofs ----------------------------
(***************************************************************************)
(* Owner proofs: from authorizeDetailed in the control API (control.go)    *)
(* over the bounded channel of a live session to the handler of that       *)
(* phone's connection (main.go), to the phone, and back.                   *)
(*                                                                         *)
(* One call is one run of authorizeDetailed.  It reads Agent.live once and *)
(* sends to the session it picked later, when that session may be gone.    *)
(* The handler takes one request per POLL, whatever lock state the POLL    *)
(* reports, and then waits for the answer under the read deadline it set   *)
(* before that POLL arrived.                                               *)
(*                                                                         *)
(* Time is discrete.  Every deadline is a countdown and Tick moves them    *)
(* together.  A tick is seconds, so it waits for deadlines that have run   *)
(* out and for goroutines that can run; the phone may take its time.       *)
(***************************************************************************)
EXTENDS Integers, Sequences, FiniteSets

CONSTANTS
    Phones,
    Conns,          \* connections; each is used once
    PhoneOf,
    NoConn,
    Calls,          \* runs of authorizeDetailed
    NoCall,
    Rule,           \* what the matched policy rule of a call requires
    AsksExplicit,   \* calls whose client asked for an explicit approval
    Clients,        \* calls whose client is modelled: it stops waiting
    RuleTTL,        \* proof_ttl_seconds of the matched rule, 0 if unset
    QueueCap,       \* capacity of liveSession.req (8 in the code)
    EnqueueWait,    \* deadlines, in ticks (2 s, 8 s, 8 s, 12 s, 55 s, 70 s)
    PresenceWait,
    ReadWait,
    ClientWait,
    ExplicitWait,
    ExplicitClientWait,
    DefaultTTL, MinTTL, MaxTTL,
    LossyConns      \* connections that a phone may lose

Rules == {"deny", "open", "trust", "presence", "explicit"}
Results == {"empty", "granted", "refused", "lost", "expired"}
Outcomes == Results \cup {"none", "denied", "unqueued", "timeout"}

ASSUME CallsAssumption ==
    /\ PhoneOf \in [Conns -> Phones]
    /\ NoConn \notin Conns
    /\ NoCall \notin Calls
    /\ Rule \in [Calls -> Rules]
    /\ RuleTTL \in [Calls -> Nat]
    /\ AsksExplicit \subseteq Calls
    /\ Clients \subseteq Calls
    /\ LossyConns \subseteq Conns
ASSUME TimesAssumption ==
    /\ QueueCap \in Nat \ {0}
    /\ {EnqueueWait, PresenceWait, ReadWait, ClientWait, ExplicitWait,
        ExplicitClientWait, DefaultTTL, MinTTL, MaxTTL} \subseteq Nat \ {0}
    /\ MinTTL <= MaxTTL
\* requestControl listens for longer than the deadlines it knows of: 12 s over
\* 2 s and 8 s, and 70 s over 2 s and 55 s.
ASSUME ClientsAssumption ==
    /\ ClientWait > EnqueueWait + PresenceWait
    /\ ExplicitClientWait > EnqueueWait + ExplicitWait

VARIABLES
    locked,      \* the phone's screen lock
    link,        \* the phone's end of a connection is open
    line,        \* the heartbeat on its way to the handler
    answer,      \* the PROOF_RESULT on its way to the handler
    pc,          \* where the handler of a connection stands
    inHand,      \* the request the handler has taken
    readLeft,    \* until the read deadline
    validLeft,   \* until the EXPIRES of the request in hand
    live,        \* Agent.live
    userPresent, \* userPresent of the phone's session in Agent.live
    queue,       \* liveSession.req
    call,        \* where a run of authorizeDetailed stands
    chosen,      \* the session it picked
    left,        \* until it gives up enqueueing or waiting
    result,      \* its result channel
    outcome,     \* what it returned
    client,      \* the process that asked
    clientLeft,  \* until that process gives up
    signed,      \* history: calls whose request a phone signed
    tapped,      \* history: calls the owner approved on the screen
    cutShort     \* history: calls ended by the read deadline of the host

phoneVars == <<locked, link, line, answer>>
handlerVars == <<pc, inHand, readLeft, validLeft>>
registryVars == <<live, userPresent>>
callVars == <<call, chosen, left, outcome>>
clientVars == <<client, clientLeft>>
historyVars == <<signed, tapped, cutShort>>
vars == <<phoneVars, handlerVars, registryVars, queue, callVars, result,
          clientVars, historyVars>>

-----------------------------------------------------------------------------
\* explicit || d.RequireExplicit: a client may ask for more than the policy.
Explicit(r) == r \in AsksExplicit \/ Rule[r] = "explicit"

\* Mutant: every call waits as long as an explicit one.
WaitExplicitly(r) == ExplicitWait
Wait(r) == IF Explicit(r) THEN ExplicitWait ELSE PresenceWait

\* The handler clamps what the caller took from the rule.
TTL(r) ==
    LET ttl == IF RuleTTL[r] > 0 THEN RuleTTL[r] ELSE DefaultTTL
    IN  IF ttl < MinTTL THEN MinTTL ELSE IF ttl > MaxTTL THEN MaxTTL ELSE ttl

\* evaluatePolicy on the rule that matched.
Allowed(r, trusted, present) ==
    /\ Rule[r] # "deny"
    /\ Rule[r] \in {"trust", "presence", "explicit"} => trusted
    /\ Rule[r] = "presence" => present

LivePhones == {p \in Phones : live[p] # NoConn}
PresentPhones == {p \in LivePhones : userPresent[p]}
Serving(c) == pc[c] \in {"read", "await"}

-----------------------------------------------------------------------------
Init ==
    /\ locked \in [Phones -> BOOLEAN]
    /\ link = [c \in Conns |-> FALSE]
    /\ line = [c \in Conns |-> "none"]
    /\ answer = [c \in Conns |-> "none"]
    /\ pc = [c \in Conns |-> "new"]
    /\ inHand = [c \in Conns |-> NoCall]
    /\ readLeft = [c \in Conns |-> 0]
    /\ validLeft = [c \in Conns |-> 0]
    /\ live = [p \in Phones |-> NoConn]
    /\ userPresent = [p \in Phones |-> FALSE]
    /\ queue = [c \in Conns |-> <<>>]
    /\ call = [r \in Calls |-> "idle"]
    /\ chosen = [r \in Calls |-> NoConn]
    /\ left = [r \in Calls |-> 0]
    /\ result = [r \in Calls |-> "empty"]
    /\ outcome = [r \in Calls |-> "none"]
    /\ client = [r \in Calls |-> "idle"]
    /\ clientLeft = [r \in Calls |-> 0]
    /\ signed = {}
    /\ tapped = {}
    /\ cutShort = {}

-----------------------------------------------------------------------------
(* The phone, as far as the host can tell: it polls, then waits for PONG or *)
(* for a request; it signs only while unlocked, and an EXPLICIT request     *)
(* only when its owner taps.                                                *)

ToggleLock(p) ==
    /\ locked' = [locked EXCEPT ![p] = ~@]
    /\ UNCHANGED <<link, line, answer, handlerVars, registryVars, queue,
                   callVars, result, clientVars, historyVars>>

\* A PING or a bare POLL tells nothing of the lock; it counts as unlocked.
PhonePolls(c) ==
    /\ link[c] /\ pc[c] = "read" /\ line[c] = "none"
    /\ \E told \in BOOLEAN :
           line' = [line EXCEPT ![c] =
               IF told /\ locked[PhoneOf[c]] THEN "LOCKED" ELSE "UNLOCKED"]
    /\ UNCHANGED <<locked, link, answer, handlerVars, registryVars, queue,
                   callVars, result, clientVars, historyVars>>

PhoneSigns(c) ==
    /\ link[c] /\ pc[c] = "await" /\ answer[c] = "none"
    /\ ~locked[PhoneOf[c]]
    /\ answer' = [answer EXCEPT ![c] = "ok"]
    /\ signed' = signed \cup {inHand[c]}
    /\ tapped' = IF Explicit(inHand[c]) THEN tapped \cup {inHand[c]} ELSE tapped
    /\ UNCHANGED <<locked, link, line, handlerVars, registryVars, queue,
                   callVars, result, clientVars, cutShort>>

PhoneRefuses(c) ==
    /\ link[c] /\ pc[c] = "await" /\ answer[c] = "none"
    /\ answer' = [answer EXCEPT ![c] = "refused"]
    /\ UNCHANGED <<locked, link, line, handlerVars, registryVars, queue,
                   callVars, result, clientVars, historyVars>>

LoseLink(c) ==
    /\ c \in LossyConns /\ link[c]
    /\ link' = [link EXCEPT ![c] = FALSE]
    /\ UNCHANGED <<locked, line, answer, handlerVars, registryVars, queue,
                   callVars, result, clientVars, historyVars>>

-----------------------------------------------------------------------------
(* The connection handler. *)

\* Authentication and sessionUp.
Connect(c) ==
    /\ pc[c] = "new"
    /\ \A d \in Conns : PhoneOf[d] = PhoneOf[c] => ~link[d]
    /\ pc' = [pc EXCEPT ![c] = "read"]
    /\ link' = [link EXCEPT ![c] = TRUE]
    /\ live' = [live EXCEPT ![PhoneOf[c]] = c]
    /\ userPresent' = [userPresent EXCEPT ![PhoneOf[c]] = ~locked[PhoneOf[c]]]
    /\ readLeft' = [readLeft EXCEPT ![c] = ReadWait]
    /\ UNCHANGED <<locked, line, answer, inHand, validLeft, queue, callVars,
                   result, clientVars, historyVars>>

\* sessionTouch, seen from here: presence goes to the phone's live session.
Heartbeat(c) ==
    /\ pc[c] = "read" /\ line[c] # "none"
    /\ line' = [line EXCEPT ![c] = "none"]
    /\ userPresent' = [userPresent EXCEPT ![PhoneOf[c]] =
           live[PhoneOf[c]] # NoConn /\ line[c] = "UNLOCKED"]
    /\ UNCHANGED <<locked, link, answer, live, callVars, clientVars>>

AnswerPoll(c) ==
    /\ Heartbeat(c)
    /\ queue[c] = <<>>
    /\ readLeft' = [readLeft EXCEPT ![c] = ReadWait]
    /\ UNCHANGED <<pc, inHand, validLeft, queue, result, historyVars>>

\* Mutant: leaves the request it serves in the channel.
IssuePeeked(c) ==
    /\ Heartbeat(c)
    /\ queue[c] # <<>>
    /\ inHand' = [inHand EXCEPT ![c] = Head(queue[c])]
    /\ validLeft' = [validLeft EXCEPT ![c] = TTL(Head(queue[c]))]
    /\ pc' = [pc EXCEPT ![c] = "await"]
    /\ UNCHANGED <<readLeft, queue, result, historyVars>>

\* PROOF_REQUEST: the deadline set before the POLL goes on running.
Issue(c) ==
    /\ Heartbeat(c)
    /\ queue[c] # <<>>
    /\ queue' = [queue EXCEPT ![c] = Tail(@)]
    /\ inHand' = [inHand EXCEPT ![c] = Head(queue[c])]
    /\ validLeft' = [validLeft EXCEPT ![c] = TTL(Head(queue[c]))]
    /\ pc' = [pc EXCEPT ![c] = "await"]
    /\ UNCHANGED <<readLeft, result, historyVars>>

\* verifyOwnerProof, as far as an honest phone can fail it.
Verdict(c) ==
    IF answer[c] = "refused" THEN "refused"
    ELSE IF validLeft[c] = 0 THEN "expired" ELSE "granted"

\* Mutant: reports to whichever call is at the head of the queue.
DeliverToNext(c, verdict) ==
    LET r == IF queue[c] = <<>> THEN inHand[c] ELSE Head(queue[c])
    IN  result' = [result EXCEPT ![r] = verdict]
\* Mutant: a result channel without a buffer; sending waits for the caller.
DeliverUnbuffered(c, verdict) ==
    /\ call[inHand[c]] = "waiting"
    /\ result' = [result EXCEPT ![inHand[c]] = verdict]
Deliver(c, verdict) == result' = [result EXCEPT ![inHand[c]] = verdict]

TakeAnswer(c) ==
    /\ pc[c] = "await" /\ answer[c] # "none"
    /\ Deliver(c, Verdict(c))
    /\ answer' = [answer EXCEPT ![c] = "none"]
    /\ inHand' = [inHand EXCEPT ![c] = NoCall]
    /\ validLeft' = [validLeft EXCEPT ![c] = 0]
    /\ pc' = [pc EXCEPT ![c] = "read"]
    /\ readLeft' = [readLeft EXCEPT ![c] = ReadWait]
    /\ UNCHANGED <<locked, link, line, registryVars, queue, callVars,
                   clientVars, historyVars>>

\* The read fails and the deferred sessionDown runs.  A call in hand gets the
\* error; calls still in the channel get nothing.
ReadFails(c) ==
    /\ Serving(c)
    /\ readLeft[c] = 0 \/ ~link[c]
    /\ IF pc[c] = "await" THEN Deliver(c, "lost") ELSE UNCHANGED result
    /\ cutShort' = IF pc[c] = "await" /\ link[c]
                   THEN cutShort \cup {inHand[c]} ELSE cutShort
    /\ pc' = [pc EXCEPT ![c] = "ended"]
    /\ link' = [link EXCEPT ![c] = FALSE]
    /\ line' = [line EXCEPT ![c] = "none"]
    /\ answer' = [answer EXCEPT ![c] = "none"]
    /\ inHand' = [inHand EXCEPT ![c] = NoCall]
    /\ readLeft' = [readLeft EXCEPT ![c] = 0]
    /\ validLeft' = [validLeft EXCEPT ![c] = 0]
    /\ live' = [live EXCEPT ![PhoneOf[c]] = NoConn]
    /\ userPresent' = [userPresent EXCEPT ![PhoneOf[c]] = FALSE]
    /\ UNCHANGED <<locked, queue, callVars, clientVars, signed, tapped>>

-----------------------------------------------------------------------------
(* authorizeDetailed and its client. *)

Return(r, what) ==
    /\ call' = [call EXCEPT ![r] = "done"]
    /\ outcome' = [outcome EXCEPT ![r] = what]
    /\ left' = [left EXCEPT ![r] = 0]
    /\ chosen' = [chosen EXCEPT ![r] = NoConn]
    /\ client' = [client EXCEPT ![r] = IF @ = "waiting" THEN "answered" ELSE @]
    /\ clientLeft' = [clientLeft EXCEPT ![r] = 0]
    /\ UNCHANGED <<phoneVars, handlerVars, registryVars, queue, historyVars>>

\* The policy refuses what was read from Agent.live, or nothing was there.
Deny(r) ==
    /\ call[r] = "idle"
    /\ \/ ~Allowed(r, LivePhones # {}, PresentPhones # {})
       \/ LivePhones = {}
    /\ Return(r, "denied")
    /\ UNCHANGED result

\* A present session if there is one, else any, in map order.
AskedPhones == IF PresentPhones # {} THEN PresentPhones ELSE LivePhones

Allow(r) ==
    /\ call[r] = "idle"
    /\ Allowed(r, LivePhones # {}, PresentPhones # {})
    /\ \E p \in AskedPhones : chosen' = [chosen EXCEPT ![r] = live[p]]
    /\ call' = [call EXCEPT ![r] = "sending"]
    /\ left' = [left EXCEPT ![r] = EnqueueWait]
    /\ IF r \in Clients
       THEN /\ client' = [client EXCEPT ![r] = "waiting"]
            /\ clientLeft' = [clientLeft EXCEPT ![r] =
                   IF r \in AsksExplicit THEN ExplicitClientWait ELSE ClientWait]
       ELSE UNCHANGED clientVars
    /\ UNCHANGED <<phoneVars, handlerVars, registryVars, queue, outcome, result,
                   historyVars>>

\* Mutant: does not wait for room in the channel.
EnqueueAnyway(r) ==
    /\ call[r] = "sending"
    /\ queue' = [queue EXCEPT ![chosen[r]] = Append(@, r)]
    /\ call' = [call EXCEPT ![r] = "waiting"]
    /\ left' = [left EXCEPT ![r] = Wait(r)]
    /\ UNCHANGED <<phoneVars, handlerVars, registryVars, chosen, outcome,
                   result, clientVars, historyVars>>

\* live.req <- pr, as soon as the channel has room.
Enqueue(r) ==
    /\ call[r] = "sending"
    /\ Len(queue[chosen[r]]) < QueueCap
    /\ queue' = [queue EXCEPT ![chosen[r]] = Append(@, r)]
    /\ call' = [call EXCEPT ![r] = "waiting"]
    /\ left' = [left EXCEPT ![r] = Wait(r)]
    /\ UNCHANGED <<phoneVars, handlerVars, registryVars, chosen, outcome,
                   result, clientVars, historyVars>>

\* Mutant: waits for room in the channel for as long as it takes.
QueueNeverUnavailable(r) == FALSE /\ Return(r, "unqueued") /\ UNCHANGED result
QueueUnavailable(r) ==
    /\ call[r] = "sending" /\ left[r] = 0
    /\ Return(r, "unqueued")
    /\ UNCHANGED result

TakeResult(r) ==
    /\ call[r] = "waiting" /\ result[r] # "empty"
    /\ Return(r, result[r])
    /\ result' = [result EXCEPT ![r] = "empty"]

TimeOut(r) ==
    /\ call[r] = "waiting" /\ left[r] = 0
    /\ Return(r, "timeout")
    /\ UNCHANGED result

ClientGivesUp(r) ==
    /\ client[r] = "waiting" /\ clientLeft[r] = 0
    /\ client' = [client EXCEPT ![r] = "gone"]
    /\ UNCHANGED <<phoneVars, handlerVars, registryVars, queue, callVars,
                   result, clientLeft, historyVars>>

-----------------------------------------------------------------------------
\* A deadline that has run out, or a goroutine with something to read or to
\* send: neither waits for the seconds that a tick stands for.
Due ==
    \/ \E c \in Conns :
          \/ Serving(c) /\ (readLeft[c] = 0 \/ ~link[c])
          \/ line[c] # "none" \/ answer[c] # "none"
    \/ \E r \in Calls :
          \/ call[r] \in {"sending", "waiting"} /\ left[r] = 0
          \/ call[r] = "sending" /\ Len(queue[chosen[r]]) < QueueCap
          \/ call[r] = "waiting" /\ result[r] # "empty"
          \/ client[r] = "waiting" /\ clientLeft[r] = 0
Running ==
    \/ \E c \in Conns : Serving(c)
    \/ \E r \in Calls : client[r] = "waiting" \/ call[r] \notin {"idle", "done"}

Less(f) == [x \in DOMAIN f |-> IF f[x] > 0 THEN f[x] - 1 ELSE 0]

Tick ==
    /\ Running /\ ~Due
    /\ readLeft' = Less(readLeft)
    /\ validLeft' = Less(validLeft)
    /\ left' = Less(left)
    /\ clientLeft' = Less(clientLeft)
    /\ UNCHANGED <<phoneVars, pc, inHand, registryVars, queue, call, chosen,
                   outcome, result, client, historyVars>>

HandlerStep(c) ==
    \/ AnswerPoll(c)
    \/ Issue(c)
    \/ TakeAnswer(c)
    \/ ReadFails(c)

\* Steps of a call once it has been let through.
CallStep(r) ==
    \/ Enqueue(r)
    \/ QueueUnavailable(r)
    \/ TakeResult(r)
    \/ TimeOut(r)

Next ==
    \/ \E p \in Phones : ToggleLock(p)
    \/ \E c \in Conns :
          \/ PhonePolls(c)
          \/ PhoneSigns(c)
          \/ PhoneRefuses(c)
          \/ LoseLink(c)
          \/ Connect(c)
          \/ HandlerStep(c)
    \/ \E r \in Calls : Deny(r) \/ Allow(r) \/ CallStep(r) \/ ClientGivesUp(r)
    \/ Tick

Spec == Init /\ [][Next]_vars

\* Goroutines that can run do, and time passes: strongly fair, since a phone may
\* not stop the clock by polling without end.  Nothing is assumed of the phone,
\* of its owner, or of clients still to call.
Fairness ==
    /\ \A c \in Conns : WF_vars(HandlerStep(c))
    /\ \A r \in Calls : WF_vars(CallStep(r)) /\ WF_vars(ClientGivesUp(r))
    /\ SF_vars(Tick)
FairSpec == Spec /\ Fairness

-----------------------------------------------------------------------------
\* Every variable keeps its type: in particular the channel of a session never
\* holds more requests than its capacity, and a handler awaits an answer only
\* for a request it holds.
TypeOK ==
    /\ locked \in [Phones -> BOOLEAN]
    /\ link \in [Conns -> BOOLEAN]
    /\ line \in [Conns -> {"none", "LOCKED", "UNLOCKED"}]
    /\ answer \in [Conns -> {"none", "ok", "refused"}]
    /\ pc \in [Conns -> {"new", "read", "await", "ended"}]
    /\ inHand \in [Conns -> Calls \cup {NoCall}]
    /\ \A c \in Conns : pc[c] = "await" <=> inHand[c] # NoCall
    /\ readLeft \in [Conns -> Nat]
    /\ validLeft \in [Conns -> Nat]
    /\ live \in [Phones -> Conns \cup {NoConn}]
    /\ userPresent \in [Phones -> BOOLEAN]
    /\ queue \in [Conns -> Seq(Calls)]
    /\ \A c \in Conns : Len(queue[c]) <= QueueCap
    /\ call \in [Calls -> {"idle", "sending", "waiting", "done"}]
    /\ chosen \in [Calls -> Conns \cup {NoConn}]
    /\ \A r \in Calls : call[r] \in {"sending", "waiting"} => chosen[r] # NoConn
    /\ left \in [Calls -> Nat]
    /\ result \in [Calls -> Results]
    /\ outcome \in [Calls -> Outcomes]
    /\ client \in [Calls -> {"idle", "waiting", "answered", "gone"}]
    /\ clientLeft \in [Calls -> Nat]
    /\ signed \in SUBSET Calls
    /\ tapped \in SUBSET Calls
    /\ cutShort \in SUBSET Calls

Queued(r) == {s \in Conns \X (1..QueueCap) :
                 s[2] \in DOMAIN queue[s[1]] /\ queue[s[1]][s[2]] = r}
Holders(r) == {c \in Conns : inHand[c] = r}

\* A request is in one place at a time, whoever disconnected or timed out
\* meanwhile: one slot of one channel, one handler's hand, or its result
\* channel.  The result channel holds one value, so a second result would block
\* a handler, and its phone's heartbeats, for ever.
OnePlace ==
    \A r \in Calls :
        /\ Cardinality(Queued(r)) + Cardinality(Holders(r)) +
              (IF result[r] = "empty" THEN 0 ELSE 1) <= 1
        /\ call[r] \in {"idle", "sending"} \/ outcome[r] \in Results =>
              Queued(r) \cup Holders(r) = {}

\* A granted call is one whose own request a phone signed, and tapped for if
\* the client or the policy wants an explicit approval, however requests of
\* several callers, sessions and modes crossed (authorizeDetailed, handle).
GrantedAsRequired ==
    \A r \in Calls : outcome[r] = "granted" =>
        IF r \in AsksExplicit \/ Rule[r] = "explicit" THEN r \in tapped
        ELSE r \in signed

\* A client is still listening when its call returns, unless the policy demanded
\* an explicit approval that the client knew nothing of: requestControl's
\* timeouts outlast those of authorizeDetailed (12 s over 2 s + 8 s, 70 s over
\* 2 s + 55 s).
ClientsOutwait ==
    \A r \in Calls : client[r] = "gone" => Explicit(r) /\ r \notin AsksExplicit

\* Every call that was let through returns: full channels, dead sessions,
\* silent phones and calls queued behind one another notwithstanding.
EveryCallReturns == \A r \in Calls : call[r] = "sending" ~> call[r] = "done"

\* A handler that showed a request gets back to the heartbeats, or ends, though
\* the phone never answers and the caller no longer listens.
HandlersGoOn == \A c \in Conns : pc[c] = "await" ~> pc[c] # "await"

-----------------------------------------------------------------------------
(* What the repository says and the code does not do. *)

\* docs/PROTOCOL.md: "Proof requests are not issued while the phone is locked."
\* (Asked of PRESENCE requests; EXPLICIT ones are meant to wake the owner.)
LockedPhoneNotAsked ==
    \A c \in Conns : pc[c] = "await" /\ ~Explicit(inHand[c]) =>
        userPresent[PhoneOf[c]]

\* evaluatePolicy's comment, and the change log of 0.9.0: an explicit approval
\* waits for the phone to be unlocked, so the host does not end it while the
\* phone is connected and the caller waits.
ExplicitApprovalWaits ==
    \A r \in Calls : Explicit(r) /\ call[r] = "waiting" => r \notin cutShort
=============================================================================
