---------------------------- MODULE EhFlags_proofs ----------------------------
(***************************************************************************)
(* Proofs about event flags, for every set of tasks, groups, bits and      *)
(* requests: where the lock masks interrupts no bit of a group is lost;    *)
(* and whatever the lock, no wait sleeps while the bits are as it wants    *)
(* them and nobody is on the way to tell it.                               *)
(***************************************************************************)
EXTENDS EhFlags, EhEvent_proofs

\* Under a lock that masks interrupts a condition never lies between its read and its
\* write; and each group has its bits.
FlagsIInv ==
  /\ Masked => rmw = NoRmw
  /\ bits = [f \in Group |-> bits[f]]

\* The steps that leave the bits alone.
FlagsQuiet ==
  \/ \E f \in Group : FlagsNotify(f) \/ FlagsClean(f)
  \/ \E f \in Group, w \in Requests, timed \in BOOLEAN : FlagsWait(f, w, timed)
  \/ \E f \in Group, w \in Requests : FlagsReadAtOnce(f, w)
  \/ FlagsAdd \/ FlagsError \/ FlagsTimeout \/ FlagsSleep \/ FlagsRead
  \/ UNCHANGED flagsVars

\* A step is quiet or changes the bits of one group.
LEMMA FlagsSteps ==
  ASSUME [FlagsNext]_allVars
  PROVE  \/ FlagsQuiet
         \/ \E f \in Group, mask \in Masks :
              FlagsSet(f, mask) \/ FlagsClear(f, mask) \/ FlagsUpdate(f, mask)
         \/ \E f \in Group : FlagsInit(f)
         \/ \E f \in Group, w \in Requests : FlagsAtOnce(f, w)
         \/ FlagsOk
         \/ FlagsWrite
  <1>1. CASE UNCHANGED allVars
    BY <1>1 DEF allVars, FlagsQuiet
  <1>2. CASE FlagsNext
    BY <1>2 DEF FlagsNext, FlagsQuiet
  <1> QED
    BY <1>1, <1>2

\* What a quiet step keeps.
LEMMA FlagsQuietKeeps ==
  ASSUME FlagsQuiet
  PROVE  bits' = bits /\ lock' = lock /\ (Masked => rmw' = rmw)
  <1>1. CASE \E f \in Group : FlagsNotify(f) \/ FlagsClean(f)
    BY <1>1 DEF FlagsNotify, FlagsClean, flagsVars
  <1>2. CASE \E f \in Group, w \in Requests, timed \in BOOLEAN : FlagsWait(f, w, timed)
    BY <1>2 DEF FlagsWait
  <1>3. CASE \E f \in Group, w \in Requests : FlagsReadAtOnce(f, w)
    BY <1>3 DEF FlagsReadAtOnce
  <1>4. CASE FlagsAdd \/ FlagsError \/ FlagsTimeout \/ FlagsSleep \/ FlagsRead
    BY <1>4 DEF FlagsAdd, FlagsError, FlagsTimeout, FlagsSleep, FlagsRead, flagsVars
  <1>5. CASE UNCHANGED flagsVars
    BY <1>5 DEF flagsVars
  <1> QED
    BY <1>1, <1>2, <1>3, <1>4, <1>5 DEF FlagsQuiet

\* The bits of one group have changed: the others are as before.
LEMMA OneGroup ==
  ASSUME FlagsIInv, NEW g, NEW v, bits' = [bits EXCEPT ![g] = v]
  PROVE  /\ bits' = [f \in Group |-> bits'[f]]
         /\ \A f \in Group : bits'[f] = IF f = g THEN v ELSE bits[f]
  BY DEF FlagsIInv

\* A wait changes no other bits than it was asked to.
LEMMA ChangedBits ==
  ASSUME NEW value, NEW w
  PROVE  \A b : (b \in value <=> b \in Changed(value, w)) \/ b \in w.change
  BY DEF Changed

\* Every step keeps the invariant and, where the lock masks interrupts, accounts for the bits
\* it changes: the write of a condition, which could not, is not reached there.
LEMMA FlagsStepInv ==
  ASSUME FlagsIInv, [FlagsNext]_allVars
  PROVE  FlagsIInv' /\ (Masked => Accounted)
  <1> USE DEF FlagsIInv
  <1>1. CASE FlagsQuiet
    <2>1. bits' = bits /\ lock' = lock /\ (Masked => rmw' = rmw)
      BY <1>1, FlagsQuietKeeps
    <2> QED
      BY <2>1 DEF Accounted, Masked
  <1>2. CASE \E f \in Group, mask \in Masks :
               FlagsSet(f, mask) \/ FlagsClear(f, mask) \/ FlagsUpdate(f, mask)
    <2>1. PICK g \in Group, mask \in Masks :
                 FlagsSet(g, mask) \/ FlagsClear(g, mask) \/ FlagsUpdate(g, mask)
      BY <1>2
    <2>2. lock' = lock /\ rmw' = rmw
      BY <2>1 DEF FlagsSet, FlagsClear, FlagsUpdate, Change
    <2>3. CASE FlagsSet(g, mask)
      <3>1. bits' = [bits EXCEPT ![g] = bits[g] \cup mask]
        BY <2>3 DEF FlagsSet, Change
      <3> QED
        BY <2>2, <2>3, <3>1, OneGroup DEF Accounted, Masked
    <2>4. CASE FlagsClear(g, mask)
      <3>1. bits' = [bits EXCEPT ![g] = bits[g] \ mask]
        BY <2>4 DEF FlagsClear, Change
      <3> QED
        BY <2>2, <2>4, <3>1, OneGroup DEF Accounted, Masked
    <2>5. CASE FlagsUpdate(g, mask)
      <3>1. bits' = [bits EXCEPT ![g] = mask]
        BY <2>5 DEF FlagsUpdate, Change
      <3> QED
        BY <2>2, <2>5, <3>1, OneGroup DEF Accounted, Masked
    <2> QED
      BY <2>1, <2>3, <2>4, <2>5
  <1>3. CASE \E f \in Group : FlagsInit(f)
    <2>1. PICK g \in Group : FlagsInit(g)
      BY <1>3
    <2>2. lock' = lock /\ rmw' = rmw /\ bits' = [bits EXCEPT ![g] = {}]
      BY <2>1 DEF FlagsInit
    <2> QED
      BY <2>1, <2>2, OneGroup DEF Accounted, Masked
  <1>4. CASE \E f \in Group, w \in Requests : FlagsAtOnce(f, w)
    <2>1. PICK g \in Group, w \in Requests : FlagsAtOnce(g, w)
      BY <1>4
    <2>2. lock' = lock /\ rmw' = rmw /\ bits' = [bits EXCEPT ![g] = Changed(bits[g], w)]
      BY <2>1 DEF FlagsAtOnce
    <2>3. \A b : (b \in bits[g] <=> b \in Changed(bits[g], w)) \/ b \in w.change
      BY ChangedBits
    <2> QED
      BY <2>1, <2>2, <2>3, OneGroup DEF Accounted, WaitChanges, Masked
  <1>5. CASE FlagsOk
    <2> DEFINE g == wev[Current]
    <2>1. lock' = lock /\ rmw' = rmw /\ bits' = [bits EXCEPT ![g] = Changed(bits[g], want[Current])]
      BY <1>5 DEF FlagsOk
    <2>2. \A b : (b \in bits[g] <=> b \in Changed(bits[g], want[Current])) \/ b \in want[Current].change
      BY ChangedBits
    <2> QED
      BY <1>5, <2>1, <2>2, OneGroup DEF Accounted, WaitChanges, Masked
  <1>6. CASE FlagsWrite
    <2>1. /\ lock' = lock /\ rmw # NoRmw /\ rmw' = NoRmw
          /\ bits' = [bits EXCEPT ![rmw.group] = Changed(rmw.value, rmw.request)]
      BY <1>6 DEF FlagsWrite
    <2> QED
      BY <2>1, OneGroup DEF Masked
  <1> QED
    BY <1>1, <1>2, <1>3, <1>4, <1>5, <1>6, FlagsSteps

\* eh_event_flags_set_bits_change_notify, _clear_, _update_ and the waits: where critical
\* sections mask interrupts, no bit is lost between the read and the write of
\* condition_event_flags, and none comes back, whoever waits for and changes whatever bits.
THEOREM BitsKept == FlagsSpec => BitsAreAccounted
  <1>1. FlagsStart => FlagsIInv
    BY DEF FlagsStart, FlagsIInv
  <1>2. FlagsIInv /\ [FlagsNext]_allVars => FlagsIInv' /\ [Masked => Accounted]_allVars
    BY FlagsStepInv
  <1> QED
    BY <1>1, <1>2, PTL DEF FlagsSpec, BitsAreAccounted

-----------------------------------------------------------------------------
(***************************************************************************)
(* No wait is stranded.  NoStrandedWait is inductive together with the     *)
(* core of waits and with where a condition may lie between its read and   *)
(* its write: in the running task, which is not waiting or in the loop of  *)
(* its wait for that group.                                                *)
(***************************************************************************)

FlagsShape ==
  /\ FlagsIInv
  /\ due \in [Group -> Nat]
  /\ want = [t \in Task |-> want[t]]
  /\ \A t \in Task : wpc[t] # "none" => wev[t] \in Group
  /\ rmw # NoRmw =>
       /\ Unlocked /\ phase = "run"
       /\ rmw.group \in Group
       /\ wpc[Current] = "none" \/ (wpc[Current] = "check" /\ wev[Current] = rmw.group)

StrandIInv == CoreInv /\ FlagsShape /\ NoStrandedWait

\* What the invariant says, at hand for the steps.
LEMMA StrandFacts ==
  ASSUME StrandIInv
  PROVE  /\ CoreInv /\ Current \in Task /\ Group \subseteq Event
         /\ phase = "run" => state[Current] # "WAIT"
         /\ bits = [f \in Group |-> bits[f]]
         /\ due \in [Group -> Nat]
         /\ want = [t \in Task |-> want[t]]
         /\ \A t \in Task : wpc[t] # "none" => wev[t] \in Group
         /\ \A t \in Task : (/\ wpc[t] = "check" /\ state[t] = "WAIT"
                             /\ Holds(bits[wev[t]], want[t])) =>
              due[wev[t]] > 0 \/ InWalk(t) \/ "error" \in flags[t] \/ t \in silent
         /\ Unlocked => \A t \in Task : ~InWalk(t)
  BY CoreFacts, UnlockedWalk
     DEF StrandIInv, FlagsShape, FlagsIInv, NoStrandedWait, Group, Event

\* A condition between its read and its write keeps the lock: nothing of
\* events goes on, whatever it is that would.
LEMMA StrandShape ==
  ASSUME StrandIInv, FlagsIInv', due' \in [Group -> Nat],
         want' = [t \in Task |-> want'[t]],
         \A t \in Task : wpc'[t] # "none" => wev'[t] \in Group,
         rmw' = NoRmw \/ (rmw' = rmw /\ UNCHANGED vars)
  PROVE  FlagsShape'
  <1>1. ASSUME rmw' = rmw, UNCHANGED vars, rmw # NoRmw
        PROVE  /\ Unlocked' /\ phase' = "run"
               /\ rmw'.group \in Group
               /\ \/ wpc'[Current'] = "none"
                  \/ wpc'[Current'] = "check" /\ wev'[Current'] = rmw'.group
    BY <1>1 DEF StrandIInv, FlagsShape, vars, schedVars, eventVars, waitVars,
                Unlocked, Current
  <1> QED
    BY <1>1 DEF FlagsShape

\* The same of the next state, wait by wait.
LEMMA StrandNext ==
  ASSUME \A t \in Task :
           (/\ wpc'[t] = "check" /\ state'[t] = "WAIT"
            /\ Holds(bits'[wev'[t]], want'[t])) =>
              due'[wev'[t]] > 0 \/ InWalk(t)' \/ "error" \in flags'[t] \/ t \in silent'
  PROVE  NoStrandedWait'
  BY DEF NoStrandedWait, Holds

\* A step that leaves the groups alone and puts no waiting task to sleep.
LEMMA StrandKeep ==
  ASSUME StrandIInv, UNCHANGED <<bits, due, silent>>,
         \A t \in Task : (wpc'[t] = "check" /\ state'[t] = "WAIT") =>
           /\ wpc[t] = "check" /\ state[t] = "WAIT"
           /\ wev'[t] = wev[t] /\ want'[t] = want[t]
           /\ InWalk(t) => InWalk(t)'
           /\ "error" \in flags[t] => "error" \in flags'[t]
  PROVE  NoStrandedWait'
  BY StrandFacts, StrandNext

\* A step of the running task outside its sleep that leaves the others and the
\* groups alone.
LEMMA StrandRunning ==
  ASSUME StrandIInv, Unlocked, phase = "run", UNCHANGED <<state, bits, due, silent>>,
         \A t \in Task : t # Current =>
           /\ wpc'[t] = wpc[t] /\ wev'[t] = wev[t] /\ flags'[t] = flags[t]
           /\ want'[t] = want[t]
  PROVE  NoStrandedWait'
  BY StrandFacts, StrandKeep

\* A step of a notifier, a timer or the scheduler.
LEMMA StrandUnderlying ==
  ASSUME StrandIInv, Underlying, UNCHANGED flagsVars
  PROVE  NoStrandedWait'
  <1>1. UNCHANGED <<bits, due, want, silent>>
    BY DEF flagsVars
  <1>2. ASSUME Unlocked, UNCHANGED <<wpc, wev, flags>>,
               \A t \in Task : state'[t] = "WAIT" => state[t] = "WAIT"
        PROVE  NoStrandedWait'
    BY <1>1, <1>2, StrandFacts, StrandKeep
  <1>3. CASE CalmStep
    <2>1. CalmEffect
      BY <1>3, StrandFacts, CalmStepEffect
    <2> QED
      BY <1>2, <2>1 DEF CalmEffect, eventVars, waitVars
  <1>4. CASE WalkStep
    <2> DEFINE t == Head(walk.rest)
    <2>1. /\ t \in Task
          /\ \A u \in Task : state'[u] = IF u = t /\ state[t] = "WAIT" THEN "READY"
                                                                      ELSE state[u]
          /\ \A u \in Task : u # t => flags'[u] = flags[u]
          /\ walk'.rest = Tail(walk.rest)
          /\ \A u : Has(walk.rest, u) /\ u # t => Has(Tail(walk.rest), u)
          /\ UNCHANGED <<wpc, wev>>
      BY <1>4, StrandFacts, WalkEffect
    <2> HIDE DEF t
    <2>2. ASSUME NEW u \in Task, u # t, InWalk(u)
          PROVE  InWalk(u)'
      <3>1. Has(walk'.rest, u)
        BY <2>1, <2>2 DEF InWalk, Has
      <3> QED
        BY <3>1 DEF InWalk, Has
    <2> QED
      BY <1>1, <2>1, <2>2, StrandKeep
  <1>5. CASE FinishNotify
    BY <1>2, <1>5 DEF FinishNotify, TaskFinishNext, waitVars
  <1>6. ASSUME NEW t \in Task, TimerFire(t)
        PROVE  NoStrandedWait'
    <2>1. \A u \in Task : state'[u] = "WAIT" => state[u] = "WAIT"
      BY <1>6, StrandFacts, CoreTimerFire
    <2> QED
      BY <1>2, <1>6, <2>1 DEF TimerFire
  <1>7. ASSUME NEW t \in Task, AutoClean(t)
        PROVE  NoStrandedWait'
    BY <1>2, <1>7 DEF AutoClean, schedVars, waitVars
  <1> QED
    BY <1>3, <1>4, <1>5, <1>6, <1>7, UnderlyingKinds

\* A caller changes bits: it owes a notification.
LEMMA StrandChange ==
  ASSUME StrandIInv, NEW f \in Group, NEW value, Change(f, value)
  PROVE  NoStrandedWait'
  <1>1. /\ bits' = [bits EXCEPT ![f] = value]
        /\ due' = [due EXCEPT ![f] = @ + 1]
        /\ silent' = SilentAfterCall(f)
        /\ UNCHANGED <<vars, lock, want, rmw>>
    BY DEF Change
  <1>2. UNCHANGED <<state, flags, wpc, wev, walk, phase>> /\ Current' = Current
    BY <1>1 DEF vars, schedVars, eventVars, waitVars, Current
  <1>3. \A g \in Group : bits'[g] = IF g = f THEN value ELSE bits[g]
    BY <1>1, StrandFacts
  <1>4. \A g \in Group : due'[g] = IF g = f THEN due[f] + 1 ELSE due[g]
    BY <1>1, StrandFacts
  <1>5. due'[f] > 0
    <2>1. due[f] \in Nat /\ due'[f] = due[f] + 1
      BY <1>4, StrandFacts
    <2> QED
      BY <2>1
  <1>6. ASSUME NEW t \in Task, wpc[t] = "check", state[t] = "WAIT",
               Holds(bits'[wev[t]], want[t])
        PROVE  due'[wev[t]] > 0 \/ InWalk(t) \/ "error" \in flags[t] \/ t \in silent'
    <2>1. wev[t] \in Group
      BY <1>6, StrandFacts
    <2>2. CASE wev[t] = f
      BY <1>5, <2>2
    <2>3. CASE wev[t] # f
      BY <1>1, <1>3, <1>4, <1>6, <2>1, <2>3, StrandFacts DEF SilentAfterCall, WaitsFor
    <2> QED
      BY <2>2, <2>3
  <1>7. \A t \in Task : InWalk(t)' <=> InWalk(t)
    BY <1>2 DEF InWalk
  <1> QED
    BY <1>1, <1>2, <1>6, <1>7, StrandNext

\* The notification reaches every task that sleeps in a wait for the group,
\* or has been made by the one before.
LEMMA StrandNotify ==
  ASSUME StrandIInv, NEW f \in Group, FlagsNotify(f)
  PROVE  NoStrandedWait'
  <1>1. /\ Unlocked
        /\ due' = [due EXCEPT ![f] = @ - 1]
        /\ IF Unmarked(f) THEN Notify(f) ELSE UNCHANGED vars
        /\ UNCHANGED <<bits, want, silent>>
    BY DEF FlagsNotify
  <1>2. UNCHANGED <<state, flags, wpc, wev>>
    BY <1>1 DEF Notify, vars, schedVars, eventVars, waitVars
  <1>3. /\ \A g \in Group : g # f => due'[g] = due[g]
        /\ f \in Event
    BY <1>1, StrandFacts
  <1>4. ASSUME NEW t \in Task, wpc[t] = "check", state[t] = "WAIT", wev[t] = f,
               "error" \notin flags[t]
        PROVE  InWalk(t)'
    <2>1. Has(recv[f], t)
      BY <1>3, <1>4, StrandFacts, CoreFacts DEF Live
    <2>2. Unmarked(f)
      BY <1>4, <2>1 DEF Unmarked, Has
    <2>3. StartWalk("notify", f, recv[f])
      BY <1>1, <2>2 DEF Notify
    <2>4. recv[f] # <<>>
      BY <2>1 DEF Has
    <2>5. walk'.rest = recv[f]
      BY <2>3, <2>4 DEF StartWalk
    <2> QED
      BY <2>1, <2>5 DEF Has, InWalk
  <1>5. ASSUME NEW t \in Task, wpc[t] = "check", state[t] = "WAIT",
               Holds(bits[wev[t]], want[t])
        PROVE  due'[wev[t]] > 0 \/ InWalk(t)' \/ "error" \in flags[t] \/ t \in silent
    <2>1. CASE wev[t] = f
      BY <1>4, <1>5, <2>1
    <2>2. CASE wev[t] # f
      BY <1>1, <1>3, <1>5, <2>2, StrandFacts
    <2> QED
      BY <2>1, <2>2
  <1> QED
    BY <1>1, <1>2, <1>5, StrandNext

\* A wait changes the bits: who waits for what it leaves is in the history.
LEMMA StrandAfterWait ==
  ASSUME StrandIInv, NEW f \in Group, NEW value, bits' = [bits EXCEPT ![f] = value],
         silent' = SilentAfterWait(f), UNCHANGED <<state, walk, due, want>>,
         phase = "run",
         \A t \in Task : t # Current =>
           wpc'[t] = wpc[t] /\ wev'[t] = wev[t] /\ flags'[t] = flags[t]
  PROVE  NoStrandedWait'
  <1>1. /\ \A g \in Group : bits'[g] = IF g = f THEN value ELSE bits[g]
        /\ bits' = [g \in Group |-> bits'[g]]
    BY StrandFacts
  <1>2. ASSUME NEW t \in Task, wpc'[t] = "check", state[t] = "WAIT",
               Holds(bits'[wev'[t]], want[t])
        PROVE  due[wev'[t]] > 0 \/ InWalk(t) \/ "error" \in flags'[t] \/ t \in silent'
    <2>1. /\ t # Current /\ wpc[t] = "check" /\ wev'[t] = wev[t] /\ wev[t] \in Group
          /\ flags'[t] = flags[t]
      BY <1>2, StrandFacts
    <2>2. CASE wev[t] = f
      BY <1>2, <2>1, <2>2, StrandFacts DEF SilentAfterWait, WaitsFor
    <2>3. CASE wev[t] # f
      BY <1>1, <1>2, <2>1, <2>3, StrandFacts DEF SilentAfterWait, WaitsFor
    <2> QED
      BY <2>2, <2>3
  <1>3. \A t \in Task : InWalk(t)' <=> InWalk(t)
    BY DEF InWalk
  <1> QED
    BY <1>2, <1>3, StrandNext

\* The steps of a caller that changes bits, and of the one that initialises a
\* group nobody uses, leave events and waits as they are.
LEMMA StrandCall ==
  ASSUME StrandIInv, FlagsIInv', NEW f \in Group,
         (\E value : Change(f, value)) \/ FlagsInit(f)
  PROVE  StrandIInv'
  <1>1. UNCHANGED <<vars, want, rmw>>
    BY DEF Change, FlagsInit
  <1>2. UNCHANGED <<state, flags, wpc, wev, walk>>
    BY <1>1 DEF vars, schedVars, eventVars, waitVars
  <1>3. CoreInv'
    BY <1>1, StrandFacts, CoreStutter
  <1>4. due' \in [Group -> Nat]
    <2>1. CASE \E value : Change(f, value)
      <3>1. due' = [due EXCEPT ![f] = @ + 1]
        BY <2>1 DEF Change
      <3>2. due[f] \in Nat /\ due[f] + 1 \in Nat
        BY StrandFacts
      <3> QED
        BY <3>1, <3>2, StrandFacts
    <2>2. CASE FlagsInit(f)
      BY <2>2, StrandFacts DEF FlagsInit
    <2> QED
      BY <2>1, <2>2
  <1>5. FlagsShape'
    BY <1>1, <1>2, <1>4, StrandFacts, StrandShape
  <1>6. NoStrandedWait'
    <2>1. CASE \E value : Change(f, value)
      BY <2>1, StrandChange
    <2>2. CASE FlagsInit(f)
      <3>1. /\ bits' = [bits EXCEPT ![f] = {}]
            /\ \A t \in Task : wev[t] # f
            /\ UNCHANGED <<due, silent>>
        BY <2>2 DEF FlagsInit
      <3>2. \A t \in Task : InWalk(t)' <=> InWalk(t)
        BY <1>2 DEF InWalk
      <3>3. \A g \in Group : g # f => bits'[g] = bits[g]
        BY <3>1, StrandFacts
      <3>4. \A t \in Task : wpc[t] = "check" => bits'[wev[t]] = bits[wev[t]]
        BY <3>1, <3>3, StrandFacts
      <3> QED
        BY <1>1, <1>2, <3>1, <3>2, <3>4, StrandFacts, StrandNext
    <2> QED
      BY <2>1, <2>2
  <1> QED
    BY <1>3, <1>5, <1>6 DEF StrandIInv

\* eh_event_notify at the end of a change, and eh_event_flags_clean.
LEMMA StrandWalks ==
  ASSUME StrandIInv, FlagsIInv', NEW f \in Group, FlagsNotify(f) \/ FlagsClean(f)
  PROVE  StrandIInv'
  <1>1. /\ rmw = NoRmw /\ rmw' = NoRmw
        /\ UNCHANGED <<bits, want, silent>>
        /\ Unlocked /\ f \in Event
    BY StrandFacts DEF FlagsNotify, FlagsClean, MayLock, flagsVars, Clean
  <1>2. UNCHANGED vars \/ Notify(f) \/ Clean(f)
    BY DEF FlagsNotify, FlagsClean
  <1>3. UNCHANGED <<schedVars, waitVars>>
    BY <1>2 DEF Notify, Clean, vars, eventVars
  <1>4. UNCHANGED <<state, ring, phase, flags, wpc, wev>>
    BY <1>3 DEF schedVars, waitVars
  <1>5. CoreInv'
    <2>1. CASE UNCHANGED vars
      BY <2>1, StrandFacts, CoreStutter
    <2>2. CASE Notify(f) \/ Clean(f)
      <3>1. SchedInv'
        BY <1>3, StrandFacts, SchedStays
      <3>2. WaitCore'
        BY <1>1, <1>3, <1>4, <2>2, StrandFacts, CoreNotify DEF Notify, Clean
      <3> QED
        BY <3>1, <3>2 DEF CoreInv
    <2> QED
      BY <1>2, <2>1, <2>2
  <1>6. due' \in [Group -> Nat]
    <2>1. CASE FlagsNotify(f)
      <3>1. due' = [due EXCEPT ![f] = @ - 1] /\ due[f] > 0
        BY <2>1 DEF FlagsNotify
      <3>2. due[f] \in Nat /\ due[f] - 1 \in Nat
        BY <3>1, StrandFacts
      <3> QED
        BY <3>1, <3>2, StrandFacts
    <2>2. CASE FlagsClean(f)
      BY <2>2, StrandFacts DEF FlagsClean, flagsVars
    <2> QED
      BY <2>1, <2>2
  <1>7. FlagsShape'
    BY <1>1, <1>4, <1>6, StrandFacts, StrandShape
  <1>8. NoStrandedWait'
    <2>1. CASE FlagsNotify(f)
      BY <2>1, StrandNotify
    <2>2. CASE FlagsClean(f)
      <3>1. UNCHANGED due
        BY <2>2 DEF FlagsClean, flagsVars
      <3> QED
        BY <1>1, <1>4, <3>1, StrandFacts, StrandKeep
    <2> QED
      BY <2>1, <2>2
  <1> QED
    BY <1>5, <1>7, <1>8 DEF StrandIInv

\* A wait begins.
LEMMA StrandBegin ==
  ASSUME StrandIInv, FlagsIInv', NEW f \in Group, NEW w \in Requests,
         \E timed \in BOOLEAN : FlagsWait(f, w, timed)
  PROVE  StrandIInv'
  <1>1. PICK timed \in BOOLEAN : FlagsWait(f, w, timed)
    OBVIOUS
  <1>2. /\ rmw = NoRmw /\ rmw' = NoRmw
        /\ WaitBegin(f, timed) /\ Unlocked /\ phase = "run"
        /\ want' = [want EXCEPT ![Current] = w]
        /\ UNCHANGED <<schedVars, bits, due, silent>>
        /\ f \in Event
    BY <1>1, StrandFacts DEF FlagsWait, MayLock, WaitBegin, Running
  <1>3. /\ WaitCore'
        /\ \A u \in Task :
             /\ wpc'[u] = IF u = Current THEN "add" ELSE wpc[u]
             /\ wev'[u] = IF u = Current THEN f ELSE wev[u]
             /\ flags'[u] = IF u = Current THEN {} ELSE flags[u]
    BY <1>2, StrandFacts, CoreWaitBegin
  <1>4. SchedInv' /\ UNCHANGED state
    BY <1>2, StrandFacts, SchedStays
  <1>5. /\ want' = [t \in Task |-> want'[t]]
        /\ \A t \in Task : t # Current => want'[t] = want[t]
    BY <1>2, StrandFacts
  <1>6. FlagsShape'
    BY <1>2, <1>3, <1>5, StrandFacts, StrandShape
  <1>7. NoStrandedWait'
    BY <1>2, <1>3, <1>4, <1>5, StrandRunning
  <1> QED
    BY <1>3, <1>4, <1>6, <1>7 DEF StrandIInv, CoreInv

\* Without a lock on the other threads the condition is read in one step and
\* written in another.
LEMMA StrandRead ==
  ASSUME StrandIInv, FlagsIInv',
         FlagsRead \/ (\E f \in Group, w \in Requests : FlagsReadAtOnce(f, w))
  PROVE  StrandIInv'
  <1>1. /\ Unlocked /\ phase = "run"
        /\ UNCHANGED <<vars, bits, due, want, silent>>
        /\ \E g \in Group :
             /\ rmw'.group = g
             /\ wpc[Current] = "none" \/ (wpc[Current] = "check" /\ wev[Current] = g)
    <2>1. CASE FlagsRead
      <3>1. wev[Current] \in Group /\ wpc[Current] = "check"
        BY <2>1, StrandFacts DEF FlagsRead, CheckOk, Running
      <3> QED
        BY <2>1, <3>1 DEF FlagsRead, CheckOk, Running
    <2>2. CASE \E f \in Group, w \in Requests : FlagsReadAtOnce(f, w)
      BY <2>2 DEF FlagsReadAtOnce, Running
    <2> QED
      BY <2>1, <2>2
  <1>2. UNCHANGED <<state, phase, flags, wpc, wev, walk>> /\ Current' = Current
    BY <1>1 DEF vars, schedVars, eventVars, waitVars, Current
  <1>3. CoreInv'
    BY <1>1, StrandFacts, CoreStutter
  <1>4. FlagsShape'
    BY <1>1, <1>2, StrandFacts DEF FlagsShape, Unlocked
  <1>5. NoStrandedWait'
    BY <1>1, <1>2, StrandRunning
  <1> QED
    BY <1>3, <1>4, <1>5 DEF StrandIInv

\* The wait of the running task is over, and the bits are as they were or as it
\* leaves them.
LEMMA StrandOver ==
  ASSUME StrandIInv, FlagsIInv', Unlocked, UNCHANGED <<due, want>>, rmw' = NoRmw,
         phase = "run",
         \/ UNCHANGED vars
         \/ wpc[Current] = "check" /\ WaitReturn,
         \/ UNCHANGED <<bits, silent>>
         \/ \E f \in Group :
              (\E value : bits' = [bits EXCEPT ![f] = value]) /\ silent' = SilentAfterWait(f)
  PROVE  StrandIInv'
  <1>1. /\ CoreInv'
        /\ UNCHANGED <<state, walk>>
        /\ \A u \in Task : /\ u # Current => wpc'[u] = wpc[u] /\ wev'[u] = wev[u]
                                             /\ flags'[u] = flags[u]
                           /\ wpc'[u] # "none" => wev'[u] \in Group
    <2>1. CASE UNCHANGED vars
      BY <2>1, StrandFacts, CoreStutter DEF vars, schedVars, eventVars, waitVars
    <2>2. CASE wpc[Current] = "check" /\ WaitReturn
      <3>1. UNCHANGED <<schedVars, walk>> /\ Running("check")
        BY <2>2 DEF WaitReturn, Running
      <3>2. SchedInv' /\ UNCHANGED state
        BY <3>1, StrandFacts, SchedStays
      <3> QED
        BY <2>2, <3>1, <3>2, StrandFacts, ReturnEffect DEF CoreInv
    <2> QED
      BY <2>1, <2>2
  <1>2. FlagsShape'
    BY <1>1, StrandFacts, StrandShape
  <1>3. NoStrandedWait'
    <2>1. CASE UNCHANGED <<bits, silent>>
      BY <1>1, <2>1, StrandRunning
    <2>2. ASSUME NEW f \in Group, NEW value, bits' = [bits EXCEPT ![f] = value],
                 silent' = SilentAfterWait(f)
          PROVE  NoStrandedWait'
      BY <1>1, <2>2, StrandAfterWait
    <2> QED
      BY <2>1, <2>2
  <1> QED
    BY <1>1, <1>2, <1>3 DEF StrandIInv

\* Every end of a wait, in one step or at the write of its condition.
LEMMA StrandReturn ==
  ASSUME StrandIInv, FlagsIInv',
         \/ FlagsError \/ FlagsOk \/ FlagsTimeout \/ FlagsWrite
         \/ \E f \in Group, w \in Requests : FlagsAtOnce(f, w)
  PROVE  StrandIInv'
  <1>1. CASE FlagsError \/ FlagsTimeout
    BY <1>1, StrandOver DEF FlagsError, FlagsTimeout, CheckError, CheckTimeout,
                            Running, MayLock, flagsVars
  <1>2. CASE FlagsOk
    <2>1. /\ Unlocked /\ phase = "run" /\ wpc[Current] = "check" /\ WaitReturn
          /\ bits' = [bits EXCEPT ![wev[Current]] =
                        Changed(bits[wev[Current]], want[Current])]
          /\ silent' = SilentAfterWait(wev[Current])
          /\ UNCHANGED <<due, want, rmw>>
          /\ Masked
      BY <1>2 DEF FlagsOk, CheckOk, Running
    <2>2. wev[Current] \in Group
      BY <2>1, StrandFacts
    <2>3. rmw = NoRmw
      BY <2>1 DEF StrandIInv, FlagsShape, FlagsIInv
    <2> QED
      BY <2>1, <2>2, <2>3, StrandOver
  <1>3. CASE FlagsWrite
    <2>1. /\ rmw # NoRmw
          /\ bits' = [bits EXCEPT ![rmw.group] = Changed(rmw.value, rmw.request)]
          /\ IF wpc[Current] = "check" THEN WaitReturn ELSE UNCHANGED vars
          /\ rmw' = NoRmw
          /\ silent' = SilentAfterWait(rmw.group)
          /\ UNCHANGED <<due, want>>
      BY <1>3 DEF FlagsWrite
    <2>2. Unlocked /\ phase = "run" /\ rmw.group \in Group
      BY <2>1 DEF StrandIInv, FlagsShape
    <2> QED
      BY <2>1, <2>2, StrandOver
  <1>4. ASSUME NEW f \in Group, NEW w \in Requests, FlagsAtOnce(f, w)
        PROVE  StrandIInv'
    <2>1. /\ Unlocked /\ phase = "run" /\ Masked
          /\ bits' = [bits EXCEPT ![f] = Changed(bits[f], w)]
          /\ silent' = SilentAfterWait(f)
          /\ UNCHANGED <<vars, due, want, rmw>>
      BY <1>4 DEF FlagsAtOnce, Running
    <2>2. rmw = NoRmw
      BY <2>1 DEF StrandIInv, FlagsShape, FlagsIInv
    <2> QED
      BY <2>1, <2>2, StrandOver
  <1> QED
    BY <1>1, <1>2, <1>3, <1>4

\* The receptor is linked.
LEMMA StrandAdd ==
  ASSUME StrandIInv, FlagsIInv', FlagsAdd
  PROVE  StrandIInv'
  <1>1. /\ Unlocked /\ phase = "run" /\ wpc[Current] = "add" /\ AddReceptor
        /\ rmw = NoRmw /\ rmw' = NoRmw
        /\ UNCHANGED <<schedVars, flags, wev, bits, due, want, silent>>
    BY DEF FlagsAdd, MayLock, AddReceptor, Running, flagsVars
  <1>2. /\ WaitCore'
        /\ \A u \in Task : wpc'[u] = IF u = Current THEN "check" ELSE wpc[u]
    BY <1>1, StrandFacts, CoreAddReceptor
  <1>3. SchedInv' /\ UNCHANGED state
    BY <1>1, StrandFacts, SchedStays
  <1>4. FlagsShape'
    BY <1>1, <1>2, StrandFacts, StrandShape
  <1>5. NoStrandedWait'
    BY <1>1, <1>2, <1>3, StrandRunning
  <1> QED
    BY <1>2, <1>3, <1>4, <1>5 DEF StrandIInv, CoreInv

\* The running task goes to sleep: it has found the bits otherwise.
LEMMA StrandSleep ==
  ASSUME StrandIInv, FlagsIInv', FlagsSleep
  PROVE  StrandIInv'
  <1>1. /\ Running("check") /\ WaitSleep /\ TaskBlock
        /\ ~Holds(bits[wev[Current]], want[Current])
        /\ rmw = NoRmw /\ rmw' = NoRmw
        /\ UNCHANGED <<flags, wpc, wev, walk, bits, due, want, silent>>
    BY DEF FlagsSleep, MayLock, CheckSleep, Ready, WaitSleep, flagsVars,
           eventVars, waitVars
  <1>2. /\ WaitCore'
        /\ \A u \in Task : state'[u] = IF u = Current THEN "WAIT" ELSE state[u]
    BY <1>1, StrandFacts, CoreSleep
  <1>3. SchedInv'
    <2>1. [SchedNext]_schedVars
      BY <1>1 DEF SchedNext
    <2> QED
      BY <2>1, StrandFacts, NextSchedInv DEF CoreInv
  <1>4. FlagsShape'
    BY <1>1, StrandFacts, StrandShape
  <1>5. \A t \in Task : InWalk(t)' <=> InWalk(t)
    BY <1>1 DEF InWalk
  <1>6. NoStrandedWait'
    <2>1. ASSUME NEW t \in Task, wpc[t] = "check", state'[t] = "WAIT",
                 Holds(bits[wev[t]], want[t])
          PROVE  due[wev[t]] > 0 \/ InWalk(t) \/ "error" \in flags[t] \/ t \in silent
      BY <1>1, <1>2, <2>1, StrandFacts
    <2> QED
      BY <1>1, <1>5, <2>1, StrandNext
  <1> QED
    BY <1>2, <1>3, <1>4, <1>6 DEF StrandIInv, CoreInv

\* Notifiers, timers and the scheduler: not while a condition lies between its
\* read and its write.
LEMMA StrandElsewhere ==
  ASSUME StrandIInv, FlagsIInv', Underlying, UNCHANGED flagsVars,
         WalkStep \/ MayLock
  PROVE  StrandIInv'
  <1>1. UNCHANGED <<due, want, rmw>>
    BY DEF flagsVars
  <1>2. rmw = NoRmw
    <2>1. CASE WalkStep
      BY <2>1 DEF WalkStep, StrandIInv, FlagsShape, Unlocked
    <2>2. CASE MayLock
      BY <2>2 DEF MayLock
    <2> QED
      BY <2>1, <2>2
  <1>3. CoreInv'
    BY StrandFacts, CoreUnderlying
  <1>4. UNCHANGED <<wpc, wev>>
    BY StrandFacts, UnderlyingEffect
  <1>5. FlagsShape'
    BY <1>1, <1>2, <1>4, StrandFacts, StrandShape
  <1>6. NoStrandedWait'
    BY StrandUnderlying
  <1> QED
    BY <1>3, <1>5, <1>6 DEF StrandIInv

\* Every step keeps the invariant.
LEMMA StrandStepInv ==
  ASSUME StrandIInv, [FlagsNext]_allVars
  PROVE  StrandIInv'
  <1>1. FlagsIInv'
    BY FlagsStepInv DEF StrandIInv, FlagsShape
  <1>2. ASSUME NEW f \in Group, NEW mask \in Masks,
               FlagsSet(f, mask) \/ FlagsClear(f, mask) \/ FlagsUpdate(f, mask)
        PROVE  StrandIInv'
    <2>1. \E value : Change(f, value)
      BY <1>2 DEF FlagsSet, FlagsClear, FlagsUpdate
    <2> QED
      BY <1>1, <2>1, StrandCall
  <1>3. ASSUME NEW f \in Group, FlagsNotify(f) \/ FlagsClean(f) \/ FlagsInit(f)
        PROVE  StrandIInv'
    BY <1>1, <1>3, StrandCall, StrandWalks
  <1>4. ASSUME NEW f \in Group, NEW w \in Requests,
               \/ \E timed \in BOOLEAN : FlagsWait(f, w, timed)
               \/ FlagsAtOnce(f, w) \/ FlagsReadAtOnce(f, w)
        PROVE  StrandIInv'
    BY <1>1, <1>4, StrandBegin, StrandReturn, StrandRead
  <1>5. CASE FlagsAdd \/ FlagsSleep
    BY <1>1, <1>5, StrandAdd, StrandSleep
  <1>6. CASE FlagsError \/ FlagsOk \/ FlagsTimeout \/ FlagsWrite
    BY <1>1, <1>6, StrandReturn
  <1>7. CASE FlagsRead
    BY <1>1, <1>7, StrandRead
  <1>8. CASE \/ WalkStep /\ UNCHANGED flagsVars
             \/ /\ MayLock /\ UNCHANGED flagsVars
                /\ Yield \/ Kernel \/ \E t \in Task : TimerFire(t) \/ Create(t)
    BY <1>1, <1>8, StrandElsewhere DEF Underlying
  <1>9. FlagsNext => StrandIInv'
    BY <1>2, <1>3, <1>4, <1>5, <1>6, <1>7, <1>8, Zenon DEF FlagsNext
  <1>10. CASE UNCHANGED allVars
    <2>1. UNCHANGED <<vars, flagsVars>> /\ UNCHANGED <<bits, due, want, rmw, silent>>
      BY <1>10 DEF allVars, flagsVars
    <2>2. UNCHANGED <<state, flags, wpc, wev, walk>>
      BY <2>1 DEF vars, schedVars, eventVars, waitVars
    <2>3. CoreInv' /\ FlagsShape'
      BY <1>1, <2>1, <2>2, StrandFacts, CoreStutter, StrandShape
    <2>4. \A t \in Task : InWalk(t)' <=> InWalk(t)
      BY <2>2 DEF InWalk
    <2>5. NoStrandedWait'
      BY <2>1, <2>2, <2>4, StrandFacts, StrandNext
    <2> QED
      BY <2>3, <2>5 DEF StrandIInv
  <1> QED
    BY <1>9, <1>10

\* eh_event_flags_wait_bits_set, eh_event_flags_wait_bits_clean: whatever the lock, a task
\* does not sleep while the bits are as it wants them and nobody is on the way
\* to tell it, unless another wait has left them so.
THEOREM WaitsAreTold == FlagsSpec => []NoStrandedWait
  <1>1. FlagsStart => StrandIInv
    <2> SUFFICES ASSUME FlagsStart PROVE StrandIInv
      OBVIOUS
    <2>1. CoreInv
      BY CoreInit DEF FlagsStart
    <2>2. /\ \A t \in Task : wpc[t] = "none"
          /\ FlagsIInv
          /\ due = [f \in Group |-> 0] /\ want = [t \in Task |-> NoRequest]
          /\ rmw = NoRmw
      BY DEF FlagsStart, EventInit, FlagsIInv
    <2>3. FlagsShape
      BY <2>2 DEF FlagsShape
    <2>4. NoStrandedWait
      BY <2>2 DEF NoStrandedWait
    <2> QED
      BY <2>1, <2>3, <2>4 DEF StrandIInv
  <1>2. StrandIInv /\ [FlagsNext]_allVars => StrandIInv'
    BY StrandStepInv
  <1>3. StrandIInv => NoStrandedWait
    BY DEF StrandIInv
  <1> QED
    BY <1>1, <1>2, <1>3, PTL DEF FlagsSpec
=============================================================================
