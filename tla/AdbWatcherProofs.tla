-------------------------- MODULE AdbWatcherProofs --------------------------
(***************************************************************************)
(* Proofs about the ADB watcher: the types, the limit on wakes and the     *)
(* phone a pulse shows on, for any phones, any --serial and any limit.     *)
(***************************************************************************)
EXTENDS AdbWatcher, FiniteSetTheorems, TLAPS

(* The watcher only knows phones it handles.  How long a phone has been left
   alone is at least what the watcher thinks, and the full limit for a phone
   that is there and that this sweep does not have, or has not noted. *)
Handled == IF Target = NoDevice THEN Devices ELSE {Target}

Unnoted(d) == d \in current /\ d \notin seen
Unlisted(d) == pc # "idle" /\ d \notin current /\ d \in attached

WakeInv ==
    /\ seen \subseteq Handled
    /\ current \subseteq Handled
    /\ pc = "idle" => current = {}
    /\ pc \in {"decide", "check", "wake", "next"} => dev \in seen
    /\ \A d \in seen : lastWake[d] <= quiet[d]
    /\ \A d \in attached \ seen : quiet[d] = Limit
    /\ \A d \in Devices : Unnoted(d) \/ Unlisted(d) => quiet[d] = Limit
    /\ pc = "decide" /\ first => quiet[dev] = Limit
    /\ pc = "wake" => quiet[dev] = Limit

IInv == TypeOK /\ WakeInv

-----------------------------------------------------------------------------
LEMMA TicksType == Ticks \subseteq Nat /\ Limit \in Ticks /\ 0 \in Ticks
  BY AdbAssumption DEF Ticks

LEMMA LaterType ==
  ASSUME NEW age \in [Devices -> Ticks]
  PROVE  /\ Later(age) \in [Devices -> Ticks]
         /\ \A d \in Devices : age[d] = Limit => Later(age)[d] = Limit
  <1>1. ASSUME NEW d \in Devices
        PROVE  (IF age[d] = Limit THEN Limit ELSE age[d] + 1) \in Ticks
    BY AdbAssumption DEF Ticks
  <1> QED
    BY <1>1 DEF Later

LEMMA ListedType == TypeOK => Listed \subseteq attached /\ Listed \subseteq Handled
  BY AdbAssumption DEF TypeOK, Listed, Handled

LEMMA InitInv == Init => IInv
  <1> SUFFICES ASSUME Init PROVE IInv
    OBVIOUS
  <1>1. TypeOK
    BY AdbAssumption, TicksType DEF Init, TypeOK
  <1>2. WakeInv
    BY AdbAssumption, TicksType DEF Init, WakeInv, Unnoted, Unlisted
  <1> QED
    BY <1>1, <1>2 DEF IInv

-----------------------------------------------------------------------------
(* Types. *)

LEMMA TypeStep == IInv /\ [Next]_vars => TypeOK'
  <1> SUFFICES ASSUME IInv, [Next]_vars PROVE TypeOK'
    OBVIOUS
  <1> USE TicksType, AdbAssumption DEF IInv, TypeOK, At, phoneVars, sessionVars,
      sweepVars
  <1>1. CASE List
    BY <1>1, ListedType DEF List
  <1>2. ASSUME NEW d \in Devices, Reverse(d) PROVE TypeOK'
    BY <1>2 DEF Reverse
  <1>3. CASE Note
    BY <1>3 DEF Note
  <1>4. CASE Decide
    BY <1>4 DEF Decide
  <1>5. CASE Check
    BY <1>5 DEF Check
  <1>6. CASE Wake
    BY <1>6 DEF Wake, WakeInv
  <1>7. CASE NextDevice
    BY <1>7 DEF NextDevice
  <1>8. CASE EndSweep
    <2>1. lastWake' \in [Devices -> Ticks]
      BY <1>8 DEF EndSweep
    <2>2. \A d \in Devices \ seen' : lastWake'[d] = Limit
      BY <1>8 DEF EndSweep
    <2> QED
      BY <1>8, <2>1, <2>2 DEF EndSweep
  <1>9. ASSUME NEW d \in Devices,
               SessionUp(d) \/ PulseRun(d) \/ SessionDown(d)
        PROVE  TypeOK'
    <2>1. CASE SessionUp(d)
      <3>1. /\ sessions' = sessions \cup {d}
            /\ pairOnce' \in {pairOnce, FALSE}
            /\ pulse' = [pulse EXCEPT ![d] = "owed"]
        BY <2>1 DEF SessionUp
      <3>2. sessions' \subseteq Devices /\ pairOnce' \in BOOLEAN
        BY <1>9, <3>1
      <3>3. pulse' \in [Devices -> Devices \cup {NoDevice, "owed"}]
        BY <1>9, <3>1
      <3>4. UNCHANGED <<phoneVars, sweepVars, seen, lastWake, quiet>>
        BY <2>1 DEF SessionUp
      <3> QED
        BY <3>2, <3>3, <3>4
    <2>2. CASE PulseRun(d)
      BY <1>9, <2>2 DEF PulseRun
    <2>3. CASE SessionDown(d)
      BY <1>9, <2>3 DEF SessionDown
    <2> QED
      BY <1>9, <2>1, <2>2, <2>3
  <1>10. ASSUME NEW d \in Devices, PulseChoose(d) PROVE TypeOK'
    <2>1. Choices \subseteq Devices \cup {NoDevice}
      BY DEF Choices
    <2> QED
      BY <1>10, <2>1 DEF PulseChoose
  <1>11. ASSUME NEW d \in Devices, Plug(d) \/ Unplug(d) PROVE TypeOK'
    BY <1>11 DEF Plug, Unplug
  <1>12. CASE Tick
    BY <1>12, LaterType DEF Tick
  <1>13. CASE UNCHANGED vars
    BY <1>13 DEF vars
  <1> QED
    BY <1>1, <1>2, <1>3, <1>4, <1>5, <1>6, <1>7, <1>8, <1>9, <1>10, <1>11,
       <1>12, <1>13 DEF Next, Sweep, Phones

-----------------------------------------------------------------------------
(* The limit. *)

LEMMA WakeStep == IInv /\ [Next]_vars => WakeInv'
  <1> SUFFICES ASSUME IInv, [Next]_vars PROVE WakeInv'
    OBVIOUS
  <1> USE TicksType, AdbAssumption DEF IInv, TypeOK, WakeInv, Unnoted, Unlisted,
      At, phoneVars, sessionVars, sweepVars
  <1>1. CASE List
    <2>1. \A d \in attached \ Listed : d \notin seen
      BY DEF Listed, Handled
    <2> QED
      BY <1>1, <2>1, ListedType DEF List
  <1>2. ASSUME NEW d \in Devices, Reverse(d) PROVE WakeInv'
    BY <1>2 DEF Reverse
  <1>3. CASE Note
    <2>1. dev \in current /\ (dev \notin seen => lastWake[dev] = Limit /\ quiet[dev] = Limit)
      BY <1>3 DEF Note
    <2>2. \A d \in seen \cup {dev} : lastWake[d] <= quiet[d]
      BY <2>1
    <2> QED
      BY <1>3, <2>1, <2>2 DEF Note
  <1>4. CASE Decide
    BY <1>4 DEF Decide
  <1>5. CASE Check
    <2>1. dev \in seen /\ lastWake[dev] <= quiet[dev] /\ quiet[dev] \in Ticks
      BY <1>5 DEF Check
    <2>2. lastWake[dev] = Limit => quiet[dev] = Limit
      BY <2>1 DEF Ticks
    <2> QED
      BY <1>5, <2>2 DEF Check
  <1>6. CASE Wake
    BY <1>6 DEF Wake
  <1>7. CASE NextDevice
    BY <1>7 DEF NextDevice
  <1>8. CASE EndSweep
    BY <1>8 DEF EndSweep
  <1>9. ASSUME NEW d \in Devices,
               SessionUp(d) \/ PulseRun(d) \/ SessionDown(d) \/ PulseChoose(d)
        PROVE  WakeInv'
    <2>1. UNCHANGED <<phoneVars, sweepVars, seen, lastWake, quiet>>
      BY <1>9 DEF SessionUp, PulseRun, SessionDown, PulseChoose
    <2> QED
      BY <2>1
  <1>10. ASSUME NEW d \in Devices, Plug(d) PROVE WakeInv'
    <2>1. quiet' \in [Devices -> Ticks] /\ quiet'[d] = Limit
      BY <1>10 DEF Plug
    <2>2. \A e \in Devices \ {d} : quiet'[e] = quiet[e]
      BY <1>10 DEF Plug
    <2>3. lastWake[d] <= Limit
      BY DEF Ticks
    <2>4. UNCHANGED <<seen, current, pc, dev, first, lastWake>>
          /\ attached' = attached \cup {d}
      BY <1>10 DEF Plug
    <2>5. \A e \in seen : lastWake[e] <= quiet'[e]
      BY <2>1, <2>2, <2>3
    <2>6. \A e \in Devices : quiet[e] = Limit => quiet'[e] = Limit
      BY <2>1, <2>2
    <2> QED
      BY <2>1, <2>2, <2>4, <2>5, <2>6
  <1>11. ASSUME NEW d \in Devices, Unplug(d) PROVE WakeInv'
    BY <1>11 DEF Unplug
  <1>12. CASE Tick
    <2>1. \A d \in seen : lastWake'[d] <= quiet'[d]
      <3>1. \A d \in seen : lastWake[d] <= quiet[d] /\ lastWake[d] \in Ticks
                             /\ quiet[d] \in Ticks
        OBVIOUS
      <3>2. ASSUME NEW d \in seen
            PROVE  /\ lastWake'[d] = IF lastWake[d] = Limit THEN Limit ELSE lastWake[d] + 1
                   /\ quiet'[d] = IF quiet[d] = Limit THEN Limit ELSE quiet[d] + 1
        BY <1>12 DEF Tick, Later
      <3> QED
        BY <3>1, <3>2 DEF Ticks
    <2> QED
      BY <1>12, <2>1, LaterType DEF Tick
  <1>13. CASE UNCHANGED vars
    BY <1>13 DEF vars
  <1> QED
    BY <1>1, <1>2, <1>3, <1>4, <1>5, <1>6, <1>7, <1>8, <1>9, <1>10, <1>11,
       <1>12, <1>13 DEF Next, Sweep, Phones

-----------------------------------------------------------------------------
LEMMA Invariant == Spec => []IInv
  <1>1. Init => IInv
    BY InitInv
  <1>2. IInv /\ [Next]_vars => IInv'
    BY TypeStep, WakeStep DEF IInv
  <1> QED
    BY <1>1, <1>2, PTL DEF Spec

\* The watcher's state keeps its type, and the times of wakes go with the phones
\* that they are about (adbSweep).
THEOREM WatcherTyped == Spec => []TypeOK
  <1>1. IInv => TypeOK
    BY DEF IInv
  <1> QED
    BY <1>1, Invariant, PTL

\* No phone is woken more than once in thirty seconds from when it was plugged in
\* (docs/RUNTIME-RECOVERY.md), with any number of phones.
THEOREM WakesLimited == Spec => WakeLimited
  <1>1. IInv /\ [Next]_vars => [pc = "wake" /\ pc' = "next" => quiet[dev] = Limit]_vars
    BY DEF IInv, WakeInv
  <1> QED
    BY <1>1, Invariant, PTL DEF Spec, WakeLimited

\* A pulse shows on no other phone than that of its session as long as the watcher
\* has the latter noted (pulseOwnerVisual).
THEOREM PulsesOnNotedPhone == Spec => PulseOnNotedPhone
  <1> DEFINE Own == \A d \in seen, s \in Devices : Pulses(d, s) => s = d
  <1>1. ASSUME IInv, Next PROVE Own
    <2> SUFFICES ASSUME NEW d \in seen, NEW s \in Devices, Pulses(d, s)
                 PROVE  s = d
      OBVIOUS
    <2>0. d \in Devices /\ s # "owed" /\ pulse[d] = "owed" /\ pulse'[d] = s
      BY <1>1, AdbAssumption DEF IInv, TypeOK, Pulses
    <2>1. PulseChoose(d)
      <3>1. ~(UNCHANGED pulse)
        BY <2>0
      <3>2. PICK e \in Devices : PulseChoose(e) \/ SessionUp(e) \/ PulseRun(e)
        BY <1>1, <3>1 DEF Next, Sweep, Phones, SessionDown, Plug, Unplug, Tick, List,
           Reverse, Note, Decide, Check, Wake, NextDevice, EndSweep, sessionVars
      <3>3. pulse' = [pulse EXCEPT ![e] = pulse'[e]]
        BY <1>1, <3>2 DEF PulseChoose, SessionUp, PulseRun, IInv, TypeOK
      <3>4. e = d
        BY <1>1, <2>0, <3>3 DEF IInv, TypeOK
      <3>5. ~SessionUp(d)
        BY <1>1, <2>0, AdbAssumption DEF SessionUp, IInv, TypeOK
      <3>6. ~PulseRun(d)
        BY <2>0, AdbAssumption DEF PulseRun
      <3> QED
        BY <3>2, <3>4, <3>5, <3>6
    <2>2. s \in Choices
      BY <1>1, <2>1 DEF IInv, TypeOK, PulseChoose, Pulses
    <2>3. CASE Target # NoDevice
      BY <1>1, <2>2, <2>3 DEF IInv, WakeInv, Handled, Choices
    <2>4. CASE Target = NoDevice
      <3>1. Cardinality(seen) = 1 /\ s \in seen
        BY <2>2, <2>4, AdbAssumption DEF Choices
      <3>2. IsFiniteSet(seen)
        BY <1>1, FS_Subset, AdbAssumption DEF IInv, TypeOK
      <3>3. PICK x : seen = {x}
        BY <3>1, <3>2, FS_Singleton
      <3> QED
        BY <3>1, <3>3
    <2> QED
      BY <2>3, <2>4
  <1>2. IInv /\ [Next]_vars => [Own]_vars
    BY <1>1
  <1> QED
    BY <1>2, Invariant, PTL DEF Spec, PulseOnNotedPhone
=============================================================================
