---------------------------- MODULE EhEvent_proofs ----------------------------
(***************************************************************************)
(* The lists of the scheduler stay consistent with the task states, for    *)
(* every set of tasks and every poll period; and events and joins          *)
(* implement the scheduler and keep its invariant, for every set of events *)
(* too.                                                                    *)
(***************************************************************************)
EXTENDS EhEvent, SequenceTheorems, TLAPS

-----------------------------------------------------------------------------
(***************************************************************************)
(* The ring as a sequence.                                                 *)
(***************************************************************************)

\* What Enqueue does, position by position: t becomes the second or the last
\* element, and the others keep their order.
LEMMA EnqueueProperties ==
  ASSUME NEW t \in Task, ring \in Seq(Task), Len(ring) >= 1
  PROVE  /\ Enqueue(t) \in Seq(Task)
         /\ Len(Enqueue(t)) = Len(ring) + 1
         /\ Head(Enqueue(t)) = Head(ring)
         /\ Enqueue(t)[1] = ring[1]
         /\ \E k \in 2 .. Len(ring) + 1 :
              /\ Enqueue(t)[k] = t
              /\ \A i \in 1 .. Len(ring) + 1 :
                   i # k => Enqueue(t)[i] = ring[IF i < k THEN i ELSE i - 1]
  <1>1. CASE t \in SystemTask
    <2>1. Enqueue(t) = <<Head(ring), t>> \o Tail(ring)
      BY <1>1 DEF Enqueue
    <2>2. /\ Tail(ring) \in Seq(Task)
          /\ Len(Tail(ring)) = Len(ring) - 1
          /\ \A i \in 1 .. Len(ring) - 1 : Tail(ring)[i] = ring[i + 1]
          /\ Head(ring) = ring[1]
          /\ ring[1] \in Task
      OBVIOUS
    <2>3. /\ Enqueue(t) \in Seq(Task)
          /\ Len(Enqueue(t)) = Len(ring) + 1
          /\ Enqueue(t)[1] = ring[1]
          /\ Enqueue(t)[2] = t
          /\ \A i \in 3 .. Len(ring) + 1 : Enqueue(t)[i] = ring[i - 1]
      BY <2>1, <2>2
    <2>4. \A i \in 1 .. Len(ring) + 1 :
             i # 2 => Enqueue(t)[i] = ring[IF i < 2 THEN i ELSE i - 1]
      BY <2>3
    <2>5. Head(Enqueue(t)) = Head(ring)
      BY <2>2, <2>3
    <2> QED
      BY <2>3, <2>4, <2>5
  <1>2. CASE t \notin SystemTask
    <2>1. Enqueue(t) = Append(ring, t)
      BY <1>2 DEF Enqueue
    <2>2. /\ Enqueue(t) \in Seq(Task)
          /\ Len(Enqueue(t)) = Len(ring) + 1
          /\ Enqueue(t)[Len(ring) + 1] = t
          /\ \A i \in 1 .. Len(ring) : Enqueue(t)[i] = ring[i]
      BY <2>1
    <2>3. Head(Enqueue(t)) = Head(ring)
      BY <2>2
    <2> QED
      BY <2>2, <2>3
  <1> QED
    BY <1>1, <1>2

\* Consequences of EnqueueProperties for membership and injectivity.
LEMMA EnqueueMembers ==
  ASSUME NEW t \in Task, ring \in Seq(Task), Len(ring) >= 1,
         RingInjective, ~InRing(t)
  PROVE  /\ \A i, j \in 1 .. Len(Enqueue(t)) :
              Enqueue(t)[i] = Enqueue(t)[j] => i = j
         /\ \A u : (\E i \in 1 .. Len(Enqueue(t)) : Enqueue(t)[i] = u)
                     <=> (InRing(u) \/ u = t)
         /\ \A i \in 2 .. Len(Enqueue(t)) :
              \/ Enqueue(t)[i] = t
              \/ \E j \in 2 .. Len(ring) : Enqueue(t)[i] = ring[j]
  <1>1. PICK k \in 2 .. Len(ring) + 1 :
          /\ Enqueue(t)[k] = t
          /\ \A i \in 1 .. Len(ring) + 1 :
               i # k => Enqueue(t)[i] = ring[IF i < k THEN i ELSE i - 1]
    BY EnqueueProperties
  <1> DEFINE old(i) == IF i < k THEN i ELSE i - 1
             new(j) == IF j < k THEN j ELSE j + 1
  <1>2. Len(Enqueue(t)) = Len(ring) + 1
    BY EnqueueProperties
  <1>3. Len(ring) \in Nat
    OBVIOUS
  <1>4. \A i \in 1 .. Len(ring) + 1 : i # k => old(i) \in 1 .. Len(ring)
    BY <1>3
  <1>5. \A i \in 1 .. Len(ring) + 1 : i # k => Enqueue(t)[i] # t
    BY <1>1, <1>4 DEF InRing
  <1>6. ASSUME NEW i \in 1 .. Len(Enqueue(t)), NEW j \in 1 .. Len(Enqueue(t)),
               Enqueue(t)[i] = Enqueue(t)[j]
        PROVE  i = j
    <2>1. CASE i = k \/ j = k
      BY <2>1, <1>1, <1>2, <1>5, <1>6
    <2>2. CASE i # k /\ j # k
      <3>1. old(i) = old(j)
        BY <2>2, <1>1, <1>2, <1>4, <1>6 DEF RingInjective
      <3> QED
        BY <3>1, <2>2, <1>2, <1>3
    <2> QED
      BY <2>1, <2>2
  <1>7. ASSUME NEW u
        PROVE  (\E i \in 1 .. Len(Enqueue(t)) : Enqueue(t)[i] = u)
                 <=> (InRing(u) \/ u = t)
    <2>1. ASSUME NEW i \in 1 .. Len(Enqueue(t)), Enqueue(t)[i] = u
          PROVE  InRing(u) \/ u = t
      BY <2>1, <1>1, <1>2, <1>4 DEF InRing
    <2>2. ASSUME NEW j \in 1 .. Len(ring), ring[j] = u
          PROVE  \E i \in 1 .. Len(Enqueue(t)) : Enqueue(t)[i] = u
      <3>1. /\ new(j) \in 1 .. Len(ring) + 1
            /\ new(j) # k
            /\ old(new(j)) = j
        BY <1>3
      <3>2. Enqueue(t)[new(j)] = ring[j]
        BY <3>1, <1>1
      <3> QED
        BY <3>1, <3>2, <2>2, <1>2
    <2> QED
      BY <2>1, <2>2, <1>1, <1>2 DEF InRing
  <1>8. ASSUME NEW i \in 2 .. Len(Enqueue(t)), Enqueue(t)[i] # t
        PROVE  \E j \in 2 .. Len(ring) : Enqueue(t)[i] = ring[j]
    <2>1. i # k /\ i \in 1 .. Len(ring) + 1
      BY <1>8, <1>1, <1>2
    <2>2. old(i) \in 2 .. Len(ring) \/ (i = 2 /\ k = 2) \/ i < 2
      BY <2>1, <1>3, <1>2
    <2>3. old(i) \in 2 .. Len(ring)
      BY <2>1, <2>2, <1>3, <1>2
    <2> QED
      BY <2>1, <2>3, <1>1
  <1> QED
    BY <1>6, <1>7, <1>8

-----------------------------------------------------------------------------
(***************************************************************************)
(* Initially and step by step.                                             *)
(***************************************************************************)

\* Only the main task exists, and it runs.
LEMMA InitSchedInv == SchedInit => SchedInv
  <1> SUFFICES ASSUME SchedInit PROVE SchedInv
    OBVIOUS
  <1>1. /\ ring \in Seq(Task) /\ Len(ring) = 1 /\ ring[1] = Main
        /\ Current = Main
    BY SchedAssumption DEF SchedInit, Current
  <1>2. \A t \in Task : InRing(t) <=> t = Main
    BY <1>1 DEF InRing
  <1>3. autoPoll \in BOOLEAN
    BY DEF SchedInit
  <1>4. SchedTypeOK
    BY <1>1, <1>3, SchedAssumption DEF SchedInit, SchedTypeOK, States, Phases
  <1>5. RingInjective
    BY <1>1 DEF RingInjective
  <1>6. ListOfState
    BY <1>1, <1>2 DEF SchedInit, ListOfState
  <1>7. RingReady /\ FreshReady /\ AutoPollArmed
    BY <1>1, SchedAssumption DEF SchedInit, RingReady, FreshReady, AutoPollArmed
  <1> QED
    BY <1>4, <1>5, <1>6, <1>7 DEF SchedInv

\* Linking a task that was in no list (a created one) or in the wait list (a
\* woken one) into the ring: shared by WakeUp and TaskCreate.
LEMMA EnqueueInv ==
  ASSUME SchedInv, NEW t \in Task, ~InRing(t),
         t \notin finishList \cup autoList,
         state' = [state EXCEPT ![t] = "READY"],
         ring' = Enqueue(t),
         waitList' = waitList \ {t},
         UNCHANGED <<finishList, autoList, autoPoll, tick, phase>>,
         fresh' = fresh \/ fresh' = fresh \cup {t},
         t # Main \/ state[Main] # "FINISH"
  PROVE  SchedInv'
  <1>1. ring \in Seq(Task) /\ Len(ring) \in Nat /\ Len(ring) >= 1
    BY DEF SchedInv, SchedTypeOK
  <1>2. /\ ring' \in Seq(Task)
        /\ Len(ring') = Len(ring) + 1
        /\ Head(ring') = Head(ring)
    BY <1>1, EnqueueProperties
  <1>3. /\ \A i, j \in 1 .. Len(ring') : ring'[i] = ring'[j] => i = j
        /\ \A u : (\E i \in 1 .. Len(ring') : ring'[i] = u)
                    <=> (InRing(u) \/ u = t)
        /\ \A i \in 2 .. Len(ring') :
             \/ ring'[i] = t
             \/ \E j \in 2 .. Len(ring) : ring'[i] = ring[j]
    BY <1>1, EnqueueMembers, SMTT(30) DEF SchedInv
  <1>4. /\ Current = ring[1] /\ InRing(Current) /\ Current \in Task
        /\ Current' = Current /\ Current # t
    BY <1>1, <1>2 DEF Current, InRing
  <1>5. \A u \in Task : InRing(u)' <=> (InRing(u) \/ u = t)
    BY <1>3 DEF InRing
  <1>6. SchedTypeOK'
    BY <1>1, <1>2 DEF SchedInv, SchedTypeOK, States
  <1>7. RingInjective'
    BY <1>3 DEF RingInjective
  <1>8. ListOfState'
    BY <1>4, <1>5 DEF SchedInv, ListOfState, SchedTypeOK
  <1>9. RingReady'
    <2>1. ASSUME NEW i \in 2 .. Len(ring')
          PROVE  state'[ring'[i]] = "READY"
      <3>1. CASE ring'[i] = t
        BY <3>1 DEF SchedInv, SchedTypeOK
      <3>2. CASE ring'[i] # t
        <4>1. PICK j \in 2 .. Len(ring) : ring'[i] = ring[j]
          BY <1>3, <3>2
        <4>2. state[ring[j]] = "READY" /\ ring[j] \in Task
          BY <1>1 DEF SchedInv, RingReady
        <4> QED
          BY <4>1, <4>2, <3>2 DEF SchedInv, SchedTypeOK
      <3> QED
        BY <3>1, <3>2
    <2>2. state'[Current'] = state[Current]
      BY <1>4 DEF SchedInv, SchedTypeOK
    <2> QED
      BY <2>1, <2>2 DEF SchedInv, RingReady
  <1>10. FreshReady'
    BY <1>4, SchedAssumption DEF SchedInv, FreshReady, SchedTypeOK
  <1>11. AutoPollArmed'
    BY DEF SchedInv, AutoPollArmed
  <1> QED
    BY <1>6, <1>7, <1>8, <1>9, <1>10, <1>11 DEF SchedInv

\* A wake-up links a waiting task into the ring, unless it is the current task,
\* which has not left the ring and only changes its state.
LEMMA WakeUpInv ==
  ASSUME SchedInv, NEW t \in Task, WakeUp(t)
  PROVE  SchedInv'
  <1>1. /\ state[t] = "WAIT"
        /\ state' = [state EXCEPT ![t] = "READY"]
        /\ ring' = IF t = Current THEN ring ELSE Enqueue(t)
        /\ waitList' = waitList \ {t}
        /\ UNCHANGED <<finishList, autoList, autoPoll, fresh, tick, phase>>
    BY DEF WakeUp, TaskWakeUp
  <1>2. ring \in Seq(Task) /\ Len(ring) \in Nat /\ Len(ring) >= 1
    BY DEF SchedInv, SchedTypeOK
  <1>3. Current = ring[1] /\ InRing(Current) /\ Current \in Task
    BY <1>2 DEF Current, InRing
  <1>4. CASE t = Current
    <2>1. ring' = ring /\ Current' = Current
      BY <1>1, <1>4 DEF Current
    <2>2. \A u \in Task : InRing(u)' <=> InRing(u)
      BY <2>1 DEF InRing
    <2>3. \A i \in 2 .. Len(ring) : ring[i] # t /\ ring[i] \in Task
      BY <1>2, <1>3, <1>4 DEF SchedInv, RingInjective
    <2>4. phase \notin {"run", "finish"}
      BY <1>1, <1>4 DEF SchedInv, RingReady
    <2>5. SchedTypeOK' /\ RingInjective'
      BY <1>1, <2>1 DEF SchedInv, SchedTypeOK, RingInjective, States
    <2>6. ListOfState'
      BY <1>1, <1>3, <1>4, <2>1, <2>2 DEF SchedInv, ListOfState, SchedTypeOK
    <2>7. RingReady'
      BY <1>1, <1>3, <1>4, <2>1, <2>3, <2>4
         DEF SchedInv, RingReady, SchedTypeOK
    <2>8. FreshReady' /\ AutoPollArmed'
      BY <1>1, <1>4, <2>1, SchedAssumption
         DEF SchedInv, FreshReady, AutoPollArmed, SchedTypeOK
    <2> QED
      BY <2>5, <2>6, <2>7, <2>8 DEF SchedInv
  <1>5. CASE t # Current
    <2>1. ~InRing(t)
      <3>1. ASSUME NEW i \in 1 .. Len(ring), ring[i] = t
            PROVE  FALSE
        BY <3>1, <1>1, <1>2, <1>3, <1>5 DEF SchedInv, RingReady
      <3> QED
        BY <3>1 DEF InRing
    <2>2. t \notin finishList \cup autoList
      BY <1>1 DEF SchedInv, ListOfState
    <2> QED
      BY <1>1, <1>5, <2>1, <2>2, EnqueueInv DEF SchedInv, FreshReady
  <1> QED
    BY <1>4, <1>5

\* A created task was in no list before.
LEMMA TaskCreateInv ==
  ASSUME SchedInv, NEW t \in Task, TaskCreate(t)
  PROVE  SchedInv'
  <1>1. /\ state[t] = "NONE"
        /\ state' = [state EXCEPT ![t] = "READY"]
        /\ ring' = Enqueue(t)
        /\ fresh' = fresh \cup {t}
        /\ UNCHANGED <<waitList, finishList, autoList, autoPoll, tick, phase>>
    BY DEF TaskCreate
  <1>2. ring \in Seq(Task) /\ Len(ring) \in Nat /\ Len(ring) >= 1
    BY DEF SchedInv, SchedTypeOK
  <1>3. Current = ring[1]
    BY <1>2 DEF Current
  <1>4. ~InRing(t)
    <2>1. ASSUME NEW i \in 1 .. Len(ring), ring[i] = t
          PROVE  FALSE
      BY <2>1, <1>1, <1>2, <1>3 DEF SchedInv, RingReady
    <2> QED
      BY <2>1 DEF InRing
  <1>5. t \notin finishList \cup autoList \cup waitList
    BY <1>1 DEF SchedInv, ListOfState
  <1>6. waitList' = waitList \ {t}
    BY <1>1, <1>5
  <1> QED
    BY <1>1, <1>4, <1>5, <1>6, EnqueueInv DEF SchedInv, FreshReady

\* The steps that only move the kernel thread.
LEMMA PhaseInv ==
  ASSUME SchedInv,
         TaskYield \/ TaskFinishNext \/ NextPoll \/ NextNoPoll
           \/ PollReturn \/ EnterIdle \/ AutoDestructEnd
  PROVE  SchedInv'
  <1>1. /\ UNCHANGED <<state, ring, waitList, finishList, autoList, fresh,
                       tick>>
        /\ \/ phase' \in {"next", "poll", "loop", "idle"}
           \/ phase' = phase
        /\ autoPoll' = autoPoll \/ (autoPoll' = FALSE /\ autoList = {})
    BY DEF TaskYield, TaskFinishNext, NextPoll, NextNoPoll, PollReturn,
           EnterIdle, AutoDestructEnd
  <1>2. autoPoll' \in BOOLEAN
    BY <1>1, Zenon DEF SchedInv, SchedTypeOK
  <1>3. AutoPollArmed'
    <2>1. autoList' = autoList
      BY <1>1
    <2>2. autoPoll' = autoPoll \/ autoList = {}
      BY <1>1
    <2>3. CASE autoPoll' = autoPoll
      BY <2>1, <2>3 DEF SchedInv, AutoPollArmed
    <2>4. CASE autoList = {}
      BY <2>1, <2>4 DEF AutoPollArmed
    <2> QED
      BY <2>2, <2>3, <2>4
  <1>4. SchedTypeOK'
    BY <1>1, <1>2 DEF SchedInv, SchedTypeOK, Phases
  <1>5. RingInjective' /\ ListOfState' /\ RingReady' /\ FreshReady'
    BY <1>1 DEF SchedInv, RingInjective, ListOfState, RingReady, FreshReady,
                InRing, Current
  <1> QED
    BY <1>3, <1>4, <1>5 DEF SchedInv

\* A task that blocks stays at the head of the ring until it is swapped out.
LEMMA TaskBlockInv ==
  ASSUME SchedInv, TaskBlock
  PROVE  SchedInv'
  <1>1. /\ phase = "run"
        /\ state' = [state EXCEPT ![Current] = "WAIT"]
        /\ phase' = "next"
        /\ UNCHANGED <<ring, waitList, finishList, autoList, autoPoll, fresh,
                       tick>>
    BY DEF TaskBlock
  <1>2. ring \in Seq(Task) /\ Len(ring) \in Nat /\ Len(ring) >= 1
    BY DEF SchedInv, SchedTypeOK
  <1>3. /\ Current = ring[1] /\ InRing(Current) /\ Current \in Task
        /\ Current' = Current
        /\ \A u \in Task : InRing(u)' <=> InRing(u)
    BY <1>1, <1>2 DEF Current, InRing
  <1>4. \A i \in 2 .. Len(ring) : ring[i] # Current /\ ring[i] \in Task
    BY <1>2, <1>3 DEF SchedInv, RingInjective
  <1>5. SchedTypeOK' /\ RingInjective'
    BY <1>1 DEF SchedInv, SchedTypeOK, RingInjective, States, Phases
  <1>6. ListOfState'
    BY <1>1, <1>3 DEF SchedInv, ListOfState, SchedTypeOK
  <1>7. RingReady'
    BY <1>1, <1>3, <1>4 DEF SchedInv, RingReady, SchedTypeOK
  <1>8. FreshReady' /\ AutoPollArmed'
    BY <1>1, <1>3, SchedAssumption
       DEF SchedInv, FreshReady, AutoPollArmed, SchedTypeOK
  <1> QED
    BY <1>5, <1>6, <1>7, <1>8 DEF SchedInv

\* So does a task that finishes.
LEMMA TaskFinishInv ==
  ASSUME SchedInv, TaskFinish
  PROVE  SchedInv'
  <1>1. /\ phase = "run" /\ Current # Main
        /\ state' = [state EXCEPT ![Current] = "FINISH"]
        /\ phase' = "finish"
        /\ UNCHANGED <<ring, waitList, finishList, autoList, autoPoll, fresh,
                       tick>>
    BY DEF TaskFinish
  <1>2. ring \in Seq(Task) /\ Len(ring) \in Nat /\ Len(ring) >= 1
    BY DEF SchedInv, SchedTypeOK
  <1>3. /\ Current = ring[1] /\ InRing(Current) /\ Current \in Task
        /\ Current' = Current
        /\ \A u \in Task : InRing(u)' <=> InRing(u)
    BY <1>1, <1>2 DEF Current, InRing
  <1>4. \A i \in 2 .. Len(ring) : ring[i] # Current /\ ring[i] \in Task
    BY <1>2, <1>3 DEF SchedInv, RingInjective
  <1>5. SchedTypeOK' /\ RingInjective'
    BY <1>1 DEF SchedInv, SchedTypeOK, RingInjective, States, Phases
  <1>6. ListOfState'
    BY <1>1, <1>3 DEF SchedInv, ListOfState, SchedTypeOK
  <1>7. RingReady'
    BY <1>1, <1>3, <1>4 DEF SchedInv, RingReady, SchedTypeOK
  <1>8. FreshReady' /\ AutoPollArmed'
    BY <1>1, <1>3, SchedAssumption
       DEF SchedInv, FreshReady, AutoPollArmed, SchedTypeOK
  <1> QED
    BY <1>5, <1>6, <1>7, <1>8 DEF SchedInv

\* TaskJoined and AutoDestruct: the freed task is in no list but its own.
LEMMA FreeInv ==
  ASSUME SchedInv, NEW t \in Task, t \in finishList \cup autoList, Free(t)
  PROVE  SchedInv'
  <1>1. /\ state' = [state EXCEPT ![t] = "NONE"]
        /\ finishList' = finishList \ {t}
        /\ autoList' = autoList \ {t}
        /\ UNCHANGED <<ring, waitList, autoPoll, fresh, tick, phase>>
    BY DEF Free
  <1>2. ring \in Seq(Task) /\ Len(ring) \in Nat /\ Len(ring) >= 1
    BY DEF SchedInv, SchedTypeOK
  <1>3. /\ Current = ring[1] /\ InRing(Current) /\ Current \in Task
        /\ Current' = Current
        /\ \A u \in Task : InRing(u)' <=> InRing(u)
    BY <1>1, <1>2 DEF Current, InRing
  <1>4. state[t] = "FINISH" /\ t # Current
    BY DEF SchedInv, ListOfState
  <1>5. \A i \in 1 .. Len(ring) : ring[i] # t /\ ring[i] \in Task
    BY <1>2, <1>3, <1>4 DEF SchedInv, RingReady
  <1>6. SchedTypeOK' /\ RingInjective'
    BY <1>1 DEF SchedInv, SchedTypeOK, RingInjective, States
  <1>7. ListOfState'
    BY <1>1, <1>3, <1>4, <1>5 DEF SchedInv, ListOfState, SchedTypeOK, InRing
  <1>8. RingReady'
    BY <1>1, <1>3, <1>4, <1>5 DEF SchedInv, RingReady, SchedTypeOK
  <1>9. FreshReady'
    BY <1>1, <1>3, <1>4, SchedAssumption DEF SchedInv, FreshReady, SchedTypeOK
  <1>10. AutoPollArmed'
    BY <1>1 DEF SchedInv, AutoPollArmed
  <1> QED
    BY <1>6, <1>7, <1>8, <1>9, <1>10 DEF SchedInv

\* The current task, woken while it was polling, goes on.
LEMMA IdleReturnInv ==
  ASSUME SchedInv, IdleReturn
  PROVE  SchedInv'
  <1>1. UNCHANGED <<ring, waitList, finishList, autoList, autoPoll, fresh,
                    tick>>
    BY DEF IdleReturn
  <1>2. ring \in Seq(Task) /\ Len(ring) \in Nat /\ Len(ring) >= 1
    BY DEF SchedInv, SchedTypeOK
  <1>3. /\ Current = ring[1] /\ InRing(Current) /\ Current \in Task
        /\ Current' = Current
        /\ \A u \in Task : InRing(u)' <=> InRing(u)
    BY <1>1, <1>2 DEF Current, InRing
  <1>4. \A i \in 2 .. Len(ring) : ring[i] # Current /\ ring[i] \in Task
    BY <1>2, <1>3 DEF SchedInv, RingInjective
  <1>5. CASE state[Current] \in {"RUNING", "READY"}
    <2>1. /\ state' = [state EXCEPT ![Current] = "RUNING"]
          /\ phase' = "run"
      BY <1>5 DEF IdleReturn
    <2>2. SchedTypeOK' /\ RingInjective'
      BY <1>1, <2>1 DEF SchedInv, SchedTypeOK, RingInjective, States, Phases
    <2>3. ListOfState'
      BY <1>1, <1>3, <1>5, <2>1 DEF SchedInv, ListOfState, SchedTypeOK
    <2>4. RingReady'
      BY <1>1, <1>3, <1>4, <2>1 DEF SchedInv, RingReady, SchedTypeOK
    <2>5. FreshReady' /\ AutoPollArmed'
      BY <1>1, <1>3, <2>1, SchedAssumption
         DEF SchedInv, FreshReady, AutoPollArmed, SchedTypeOK
    <2> QED
      BY <2>2, <2>3, <2>4, <2>5 DEF SchedInv
  <1>6. CASE state[Current] \notin {"RUNING", "READY"}
    <2>1. phase' = "loop" /\ UNCHANGED state
      BY <1>6 DEF IdleReturn
    <2>2. SchedTypeOK' /\ RingInjective' /\ AutoPollArmed'
      BY <1>1, <2>1
         DEF SchedInv, SchedTypeOK, RingInjective, AutoPollArmed, Phases
    <2>3. ListOfState' /\ RingReady' /\ FreshReady'
      BY <1>1, <1>3, <2>1 DEF SchedInv, ListOfState, RingReady, FreshReady
    <2> QED
      BY <2>2, <2>3 DEF SchedInv
  <1> QED
    BY <1>5, <1>6

\* The current task leaves the head of the ring: to its end when it stays
\* ready, otherwise to the list of its state.
LEMMA SwitchInv ==
  ASSUME SchedInv, Switch
  PROVE  SchedInv'
  <1> DEFINE from == Current
             to   == ring[2]
             kept == state[from] \in {"READY", "RUNING"}
             done == state[from] = "FINISH"
             n    == Len(ring)
  <1>1. /\ n > 1
        /\ state' = [state EXCEPT ![from] = IF kept THEN "READY" ELSE @,
                                  ![to] = "RUNING"]
        /\ ring' = IF kept THEN Append(Tail(ring), from) ELSE Tail(ring)
        /\ waitList' = IF state[from] = "WAIT" THEN waitList \cup {from}
                                               ELSE waitList
        /\ finishList' = IF done /\ from \notin DetachTask
                           THEN finishList \cup {from} ELSE finishList
        /\ autoList' = IF done /\ from \in DetachTask
                         THEN autoList \cup {from} ELSE autoList
        /\ tick' = IF to \in fresh THEN tick ELSE (tick + 1) % PollPeriod
        /\ fresh' = fresh \ {to}
        /\ phase' = "run"
    BY DEF Switch
  <1>2. autoPoll' = (autoPoll \/ (done /\ from \in DetachTask))
    BY DEF Switch
  <1>3. ring \in Seq(Task) /\ n \in Nat
    BY DEF SchedInv, SchedTypeOK
  <1>4. /\ from = ring[1] /\ from \in Task /\ to \in Task /\ from # to
        /\ \A i \in 1 .. n : ring[i] \in Task
        /\ \A i \in 2 .. n : ring[i] # from
    BY <1>1, <1>3 DEF SchedInv, RingInjective, Current
  <1>5. /\ Tail(ring) \in Seq(Task)
        /\ Len(Tail(ring)) = n - 1
        /\ \A i \in 1 .. n - 1 : Tail(ring)[i] = ring[i + 1]
    BY <1>1, <1>3
  <1>6. /\ ring' \in Seq(Task)
        /\ Len(ring') = IF kept THEN n ELSE n - 1
        /\ \A i \in 1 .. n - 1 : ring'[i] = ring[i + 1]
        /\ kept => ring'[n] = from
    BY <1>1, <1>3, <1>4, <1>5
  <1>7. Current' = to
    BY <1>1, <1>3, <1>6 DEF Current
  <1>8. \A u \in Task :
          InRing(u)' <=> (InRing(u) /\ (u = from => kept))
    <2>1. ASSUME NEW u \in Task, NEW i \in 1 .. Len(ring'), ring'[i] = u
          PROVE  InRing(u) /\ (u = from => kept)
      <3>1. CASE i <= n - 1
        BY <3>1, <2>1, <1>3, <1>4, <1>6 DEF InRing
      <3>2. CASE i = n
        BY <3>2, <2>1, <1>1, <1>3, <1>4, <1>6 DEF InRing
      <3> QED
        BY <3>1, <3>2, <1>3, <1>6
    <2>2. ASSUME NEW u \in Task, NEW i \in 1 .. n, ring[i] = u,
                 u = from => kept
          PROVE  \E j \in 1 .. Len(ring') : ring'[j] = u
      <3>1. CASE i = 1
        BY <3>1, <2>2, <1>1, <1>3, <1>4, <1>6
      <3>2. CASE i > 1
        <4>1. /\ i - 1 \in 1 .. n - 1 /\ i - 1 \in 1 .. Len(ring')
              /\ ring'[i - 1] = ring[i]
          BY <3>2, <1>3, <1>6
        <4> QED
          BY <4>1, <2>2
      <3> QED
        BY <3>1, <3>2, <1>3
    <2> QED
      BY <2>1, <2>2 DEF InRing
  <1>9. RingInjective'
    <2>1. ASSUME NEW i \in 1 .. Len(ring'), NEW j \in 1 .. Len(ring'),
                 ring'[i] = ring'[j]
          PROVE  i = j
      <3>1. CASE i <= n - 1 /\ j <= n - 1
        <4>1. ring[i + 1] = ring[j + 1] /\ i + 1 \in 1 .. n /\ j + 1 \in 1 .. n
          BY <3>1, <2>1, <1>3, <1>6
        <4> QED
          BY <4>1, <1>3 DEF SchedInv, RingInjective
      <3>2. CASE i = n /\ j <= n - 1
        BY <3>2, <2>1, <1>3, <1>4, <1>6
      <3>3. CASE i <= n - 1 /\ j = n
        BY <3>3, <2>1, <1>3, <1>4, <1>6
      <3>4. CASE i = n /\ j = n
        BY <3>4
      <3> QED
        BY <3>1, <3>2, <3>3, <3>4, <1>3, <1>6
    <2> QED
      BY <2>1 DEF RingInjective
  <1>10. SchedTypeOK'
    <2>1. autoPoll' \in BOOLEAN
      BY <1>2
    <2>2. tick' \in 0 .. PollPeriod - 1
      BY <1>1, SchedAssumption DEF SchedInv, SchedTypeOK
    <2>3. Len(ring') >= 1
      BY <1>1, <1>3, <1>6
    <2>4. state' \in [Task -> States]
      BY <1>1, <1>4 DEF SchedInv, SchedTypeOK, States
    <2> QED
      BY <2>1, <2>2, <2>3, <2>4, <1>1, <1>4, <1>6
         DEF SchedInv, SchedTypeOK, Phases
  <1>11. /\ state'[to] = "RUNING"
         /\ state'[from] = IF kept THEN "READY" ELSE state[from]
         /\ \A u \in Task \ {from, to} : state'[u] = state[u]
         /\ state[to] = "READY"
         /\ state[from] # "NONE"
    BY <1>1, <1>3, <1>4 DEF SchedInv, SchedTypeOK, RingReady
  <1>12. InRing(to)
    BY <1>1, <1>3 DEF InRing
  <1>13. ListOfState'
    <2>1. ASSUME NEW u \in Task
          PROVE  /\ state'[u] \in {"READY", "RUNING"} => InRing(u)'
                 /\ state'[u] = "WAIT" => (u \in waitList' \/ u = to)
                 /\ state'[u] = "FINISH"
                      => (u \in finishList' \cup autoList' \/ u = to)
                 /\ u \in waitList' => (state'[u] = "WAIT" /\ u # to)
                 /\ u \in finishList'
                      => (state'[u] = "FINISH" /\ u # to /\ u \notin DetachTask)
                 /\ u \in autoList'
                      => (state'[u] = "FINISH" /\ u # to /\ u \in DetachTask)
      <3>1. CASE u = to
        BY <3>1, <1>1, <1>4, <1>8, <1>11, <1>12
           DEF SchedInv, ListOfState
      <3>2. CASE u = from
        <4>1. InRing(from)
          BY <1>1, <1>3, <1>4 DEF InRing
        <4> QED
          BY <3>2, <4>1, <1>1, <1>4, <1>8, <1>11
             DEF SchedInv, ListOfState
      <3>3. CASE u \notin {from, to}
        BY <3>3, <1>1, <1>8, <1>11 DEF SchedInv, ListOfState
      <3> QED
        BY <3>1, <3>2, <3>3
    <2> QED
      BY <2>1, <1>7 DEF ListOfState
  <1>14. RingReady'
    <2>1. ASSUME NEW i \in 2 .. Len(ring')
          PROVE  state'[ring'[i]] = "READY"
      <3>1. CASE i <= n - 1
        <4>1. ring'[i] = ring[i + 1] /\ i + 1 \in 3 .. n
          BY <3>1, <1>3, <1>6
        <4>2. ring[i + 1] # to
          BY <4>1, <1>1, <1>3 DEF SchedInv, RingInjective
        <4>3. ring[i + 1] # from /\ ring[i + 1] \in Task
          BY <4>1, <1>3, <1>4
        <4>4. state[ring[i + 1]] = "READY"
          BY <4>1, <1>3 DEF SchedInv, RingReady
        <4> QED
          BY <4>1, <4>2, <4>3, <4>4, <1>11
      <3>2. CASE i = n
        BY <3>2, <1>3, <1>6, <1>11
      <3> QED
        BY <3>1, <3>2, <1>3, <1>6
    <2> QED
      BY <2>1, <1>1, <1>7, <1>11 DEF RingReady
  <1>15. FreshReady'
    BY <1>1, <1>4, <1>7, <1>11, SchedAssumption
       DEF SchedInv, FreshReady, SchedTypeOK
  <1>16. AutoPollArmed'
    <2>1. CASE done /\ from \in DetachTask
      BY <2>1, <1>2, Zenon DEF AutoPollArmed
    <2>2. CASE ~(done /\ from \in DetachTask)
      <3>1. autoList' = autoList
        BY <2>2, <1>1
      <3> QED
        BY <2>2, <3>1, <1>2, Zenon DEF SchedInv, AutoPollArmed
    <2> QED
      BY <2>1, <2>2
  <1> QED
    BY <1>9, <1>10, <1>13, <1>14, <1>15, <1>16 DEF SchedInv

-----------------------------------------------------------------------------
(***************************************************************************)
(* The theorems.                                                           *)
(***************************************************************************)

\* Every step of the scheduler and every call into it keeps the invariant.
LEMMA NextSchedInv == SchedInv /\ [SchedNext]_schedVars => SchedInv'
  <1> SUFFICES ASSUME SchedInv, [SchedNext]_schedVars
               PROVE  SchedInv'
    OBVIOUS
  <1>1. CASE \E t \in Task : WakeUp(t)
    BY <1>1, WakeUpInv
  <1>2. CASE \E t \in Task : TaskCreate(t)
    BY <1>2, TaskCreateInv
  <1>3. CASE TaskBlock
    BY <1>3, TaskBlockInv
  <1>4. CASE TaskFinish
    BY <1>4, TaskFinishInv
  <1>5. CASE \E t \in Task : TaskJoined(t)
    BY <1>5, FreeInv DEF TaskJoined
  <1>6. CASE \E t \in Task : AutoDestruct(t)
    BY <1>6, FreeInv DEF AutoDestruct
  <1>7. CASE IdleReturn
    BY <1>7, IdleReturnInv
  <1>8. CASE Switch
    BY <1>8, SwitchInv
  <1>9. CASE TaskYield \/ TaskFinishNext \/ NextPoll \/ NextNoPoll
               \/ PollReturn \/ EnterIdle \/ AutoDestructEnd
    BY <1>9, PhaseInv
  <1>10. CASE UNCHANGED schedVars
    BY <1>10 DEF schedVars, SchedInv, SchedTypeOK, RingInjective, ListOfState,
                 RingReady, FreshReady, AutoPollArmed, InRing, Current
  <1> QED
    BY <1>1, <1>2, <1>3, <1>4, <1>5, <1>6, <1>7, <1>8, <1>9, <1>10
       DEF SchedNext, Dispatch

\* The lists of the scheduler and the task states agree in every reachable
\* state: eh_task_next swaps to ready tasks only, no list node is linked
\* twice, and the poll task that frees detached tasks is never forgotten.
THEOREM SchedCorrect == SchedSpec => []SchedInv
  BY InitSchedInv, NextSchedInv, PTL DEF SchedSpec

\* A task is freed only after it has finished and left the ring: never while
\* it is the current task, on whose stack eh_task_next still runs.
THEOREM FreedOffStack == SchedSpec => FreedIsOffStack
  <1> DEFINE A == \A t \in Task :
                    (state[t] # "NONE" /\ state'[t] = "NONE")
                      => (state[t] = "FINISH" /\ ~InRing(t))
  <1>1. SchedInv /\ [SchedNext]_schedVars => [A]_schedVars
    <2> SUFFICES ASSUME SchedInv, SchedNext,
                        NEW t \in Task, state[t] # "NONE", state'[t] = "NONE"
                 PROVE  state[t] = "FINISH" /\ ~InRing(t)
      OBVIOUS
    <2>1. ASSUME NEW u \in Task, u \in finishList \cup autoList, Free(u)
          PROVE  state[t] = "FINISH" /\ ~InRing(t)
      <3>1. t = u
        BY <2>1 DEF Free, SchedInv, SchedTypeOK
      <3>2. state[t] = "FINISH" /\ t # Current
        BY <2>1, <3>1 DEF SchedInv, ListOfState
      <3>3. ASSUME NEW i \in 1 .. Len(ring), ring[i] = t
            PROVE  FALSE
        BY <3>2, <3>3 DEF SchedInv, SchedTypeOK, RingReady, Current
      <3> QED
        BY <3>2, <3>3 DEF InRing
    <2>2. CASE \E u \in Task : TaskJoined(u) \/ AutoDestruct(u)
      BY <2>1, <2>2 DEF TaskJoined, AutoDestruct
    <2>3. CASE TaskYield \/ TaskFinishNext \/ NextPoll \/ NextNoPoll
                 \/ PollReturn \/ EnterIdle \/ AutoDestructEnd
      BY <2>3 DEF TaskYield, TaskFinishNext, NextPoll, NextNoPoll, PollReturn,
                  EnterIdle, AutoDestructEnd
    <2>4. CASE (\E u \in Task : WakeUp(u) \/ TaskCreate(u)) \/ TaskBlock
                 \/ TaskFinish \/ IdleReturn \/ Switch
      <3>1. Current \in Task
        BY DEF SchedInv, SchedTypeOK, Current
      <3>2. CASE Switch
        BY <3>1, <3>2 DEF Switch, SchedInv, SchedTypeOK
      <3>3. CASE (\E u \in Task : WakeUp(u) \/ TaskCreate(u)) \/ TaskBlock
                   \/ TaskFinish \/ IdleReturn
        BY <3>1, <3>3
           DEF WakeUp, TaskWakeUp, TaskCreate, TaskBlock, TaskFinish,
               IdleReturn, SchedInv, SchedTypeOK
      <3> QED
        BY <2>4, <3>2, <3>3
    <2> QED
      BY <2>2, <2>3, <2>4 DEF SchedNext, Dispatch
  <1> QED
    BY <1>1, SchedCorrect, PTL DEF SchedSpec, FreedIsOffStack

\* Inserting a task keeps the order of the others.
LEMMA EnqueueKeepsOrder ==
  ASSUME SchedInv, NEW w \in Task, ~InRing(w), ring' = Enqueue(w),
         NEW t \in Task, NEW u \in Task, AheadIn(ring, t, u)
  PROVE  ~AheadIn(ring', u, t)
  <1>1. ring \in Seq(Task) /\ Len(ring) \in Nat /\ Len(ring) >= 1
    BY DEF SchedInv, SchedTypeOK
  <1>2. PICK a, b \in 2 .. Len(ring) : a < b /\ ring[a] = t /\ ring[b] = u
    BY DEF AheadIn
  <1>3. t # w /\ u # w
    BY <1>1, <1>2 DEF InRing
  <1>4. PICK k \in 2 .. Len(ring) + 1 :
          /\ ring'[k] = w
          /\ \A i \in 1 .. Len(ring) + 1 :
               i # k => ring'[i] = ring[IF i < k THEN i ELSE i - 1]
    BY <1>1, EnqueueProperties, ZenonT(40)
  <1>5. Len(ring') = Len(ring) + 1
    BY <1>1, EnqueueProperties
  <1>6. ASSUME NEW i \in 2 .. Len(ring'), NEW j \in 2 .. Len(ring'), i < j,
               ring'[i] = u, ring'[j] = t
        PROVE  FALSE
    <2> DEFINE old(l) == IF l < k THEN l ELSE l - 1
    <2>1. i # k /\ j # k
      BY <1>3, <1>4, <1>6
    <2>2. /\ i \in 1 .. Len(ring) + 1 /\ j \in 1 .. Len(ring) + 1
          /\ old(i) \in 1 .. Len(ring) /\ old(j) \in 1 .. Len(ring)
          /\ old(i) < old(j)
      BY <1>1, <1>4, <1>5, <1>6, <2>1
    <2>3. ring[old(i)] = u /\ ring[old(j)] = t
      BY <1>4, <1>6, <2>1, <2>2
    <2>4. /\ a \in 1 .. Len(ring) /\ b \in 1 .. Len(ring)
      BY <1>1
    <2> HIDE DEF old
    <2>5. old(i) = b /\ old(j) = a
      BY <1>2, <2>2, <2>3, <2>4 DEF SchedInv, RingInjective
    <2> QED
      BY <1>1, <1>2, <2>2, <2>5
  <1> QED
    BY <1>6 DEF AheadIn

\* The switch takes the current task from the front and at most links it at
\* the end.
LEMMA SwitchKeepsOrder ==
  ASSUME SchedInv, Switch,
         NEW t \in Task, NEW u \in Task, AheadIn(ring, t, u)
  PROVE  ~AheadIn(ring', u, t)
  <1>1. ring \in Seq(Task) /\ Len(ring) \in Nat /\ Len(ring) > 1
    BY DEF SchedInv, SchedTypeOK, Switch
  <1>2. PICK a, b \in 2 .. Len(ring) : a < b /\ ring[a] = t /\ ring[b] = u
    BY DEF AheadIn
  <1>3. /\ Tail(ring) \in Seq(Task) /\ Len(Tail(ring)) = Len(ring) - 1
        /\ \A i \in 1 .. Len(ring) - 1 : Tail(ring)[i] = ring[i + 1]
        /\ Current = ring[1]
    BY <1>1 DEF Current
  <1>4. a \in 1 .. Len(ring) /\ b \in 1 .. Len(ring) /\ 1 \in 1 .. Len(ring)
    BY <1>1
  <1>5. t # Current /\ u # Current
    BY <1>1, <1>2, <1>3, <1>4 DEF SchedInv, RingInjective
  <1>6. ring' = Tail(ring) \/ ring' = Append(Tail(ring), Current)
    BY DEF Switch
  <1>7. ASSUME NEW i \in 2 .. Len(ring'), NEW v \in Task, ring'[i] = v, v # Current
        PROVE  i + 1 \in 1 .. Len(ring) /\ ring[i + 1] = v
    <2>1. CASE ring' = Tail(ring)
      BY <1>1, <1>3, <1>7, <2>1
    <2>2. CASE ring' = Append(Tail(ring), Current)
      <3>1. /\ Len(ring') = Len(ring)
            /\ ring'[Len(ring)] = Current
            /\ \A l \in 1 .. Len(ring) - 1 : ring'[l] = Tail(ring)[l]
        BY <1>1, <1>3, <2>2
      <3>2. i # Len(ring)
        BY <1>7, <3>1
      <3>3. i \in 1 .. Len(ring) - 1 /\ i + 1 \in 1 .. Len(ring)
        BY <1>1, <3>1, <3>2
      <3> QED
        BY <1>3, <1>7, <3>1, <3>3
    <2> QED
      BY <1>6, <2>1, <2>2
  <1>8. ASSUME NEW i \in 2 .. Len(ring'), NEW j \in 2 .. Len(ring'), i < j,
               ring'[i] = u, ring'[j] = t
        PROVE  FALSE
    <2>1. /\ i + 1 \in 1 .. Len(ring) /\ ring[i + 1] = u
          /\ j + 1 \in 1 .. Len(ring) /\ ring[j + 1] = t
      BY <1>5, <1>7, <1>8
    <2>2. i + 1 = b /\ j + 1 = a
      BY <1>2, <1>4, <2>1 DEF SchedInv, RingInjective
    <2> QED
      BY <1>1, <1>2, <1>8, <2>2
  <1> QED
    BY <1>8 DEF AheadIn

\* Of two tasks in the ring behind the current one, the one in front keeps its
\* place before the other as long as both wait for their turn.
THEOREM TurnsKept == SchedSpec => TurnsAreKept
  <1> DEFINE A == \A t, u \in Task :
                    AheadIn(ring, t, u) => ~AheadIn(ring', u, t)
  <1>1. SchedInv /\ [SchedNext]_schedVars => [A]_schedVars
    <2> SUFFICES ASSUME SchedInv, SchedNext, NEW t \in Task, NEW u \in Task,
                        AheadIn(ring, t, u)
                 PROVE  ~AheadIn(ring', u, t)
      OBVIOUS
    <2>1. ~AheadIn(ring, u, t)
      <3>1. PICK a, b \in 2 .. Len(ring) : a < b /\ ring[a] = t /\ ring[b] = u
        BY DEF AheadIn
      <3>2. ring \in Seq(Task) /\ Len(ring) \in Nat
        BY DEF SchedInv, SchedTypeOK
      <3>3. \A i \in 2 .. Len(ring) : i \in 1 .. Len(ring)
        BY <3>2
      <3>4. ASSUME NEW i \in 2 .. Len(ring), NEW j \in 2 .. Len(ring), i < j,
                   ring[i] = u, ring[j] = t
            PROVE  FALSE
        <4>1. i = b /\ j = a
          BY <3>1, <3>3, <3>4 DEF SchedInv, RingInjective
        <4> QED
          BY <3>1, <3>2, <3>4, <4>1
      <3> QED
        BY <3>4 DEF AheadIn
    <2>2. ASSUME NEW w \in Task, WakeUp(w) \/ TaskCreate(w)
          PROVE  ~AheadIn(ring', u, t)
      <3>1. \/ ring' = ring
            \/ ring' = Enqueue(w) /\ w # Current /\ state[w] \in {"WAIT", "NONE"}
        BY <2>2 DEF WakeUp, TaskWakeUp, TaskCreate, SchedInv, RingReady
      <3>2. ASSUME w # Current, state[w] \in {"WAIT", "NONE"}
            PROVE  ~InRing(w)
        <4>1. ASSUME NEW i \in 1 .. Len(ring), ring[i] = w
              PROVE  FALSE
          BY <3>2, <4>1 DEF SchedInv, SchedTypeOK, RingReady, Current
        <4> QED
          BY <4>1 DEF InRing
      <3> QED
        BY <2>1, <3>1, <3>2, EnqueueKeepsOrder
    <2>3. CASE Switch
      BY <2>3, SwitchKeepsOrder
    <2>4. CASE ring' = ring
      BY <2>1, <2>4
    <2>5. \/ \E w \in Task : WakeUp(w) \/ TaskCreate(w)
          \/ Switch
          \/ ring' = ring
      BY DEF SchedNext, Dispatch, TaskYield, TaskBlock, TaskFinish, TaskFinishNext,
             TaskJoined, Free, NextPoll, NextNoPoll, AutoDestruct, AutoDestructEnd,
             PollReturn, EnterIdle, IdleReturn
    <2> QED
      BY <2>2, <2>3, <2>4, <2>5
  <1> QED
    BY <1>1, SchedCorrect, PTL DEF SchedSpec, TurnsAreKept

-----------------------------------------------------------------------------
(***************************************************************************)
(* Facts several steps need.                                               *)
(***************************************************************************)

\* The running task is a task.
LEMMA CurrentTask == SchedTypeOK => Current \in Task
  BY DEF SchedTypeOK, Current

\* The receptors linked in a list, each of them once.
Has(q, t) == \E i \in 1 .. Len(q) : q[i] = t
Distinct(q) == \A i, j \in 1 .. Len(q) : q[i] = q[j] => i = j

\* Linking a receptor that is not linked yet.
LEMMA AppendMembers ==
  ASSUME NEW q \in Seq(Task), NEW t \in Task, Distinct(q), ~Has(q, t)
  PROVE  /\ Append(q, t) \in Seq(Task)
         /\ Distinct(Append(q, t))
         /\ \A u : Has(Append(q, t), u) <=> Has(q, u) \/ u = t
  <1>1. /\ Append(q, t) \in Seq(Task) /\ Len(Append(q, t)) = Len(q) + 1
        /\ \A i \in 1 .. Len(q) : Append(q, t)[i] = q[i]
        /\ Append(q, t)[Len(q) + 1] = t /\ Len(q) \in Nat
    OBVIOUS
  <1>2. Distinct(Append(q, t))
    BY <1>1 DEF Distinct, Has
  <1>3. ASSUME NEW u
        PROVE  Has(Append(q, t), u) <=> Has(q, u) \/ u = t
    <2>1. Len(q) + 1 \in 1 .. Len(q) + 1 /\ 1 .. Len(q) \subseteq 1 .. Len(q) + 1
      BY <1>1
    <2>2. \A i \in 1 .. Len(q) + 1 : i \in 1 .. Len(q) \/ i = Len(q) + 1
      BY <1>1
    <2> QED
      BY <1>1, <2>1, <2>2 DEF Has
  <1> QED
    BY <1>1, <1>2, <1>3

\* Unlinking the first receptor.
LEMMA TailMembers ==
  ASSUME NEW q \in Seq(Task), q # <<>>, Distinct(q)
  PROVE  /\ Tail(q) \in Seq(Task)
         /\ Distinct(Tail(q))
         /\ Has(q, Head(q))
         /\ \A u : Has(Tail(q), u) <=> Has(q, u) /\ u # Head(q)
  <1>1. /\ Tail(q) \in Seq(Task) /\ Len(q) \in Nat /\ Len(q) >= 1
        /\ Len(Tail(q)) = Len(q) - 1 /\ Head(q) = q[1]
        /\ \A i \in 1 .. Len(q) - 1 : Tail(q)[i] = q[i + 1]
    OBVIOUS
  <1>2. Distinct(Tail(q))
    BY <1>1 DEF Distinct
  <1>3. Has(q, Head(q))
    BY <1>1 DEF Has
  <1>4. ASSUME NEW u
        PROVE  Has(Tail(q), u) <=> Has(q, u) /\ u # Head(q)
    <2>1. ASSUME NEW i \in 1 .. Len(q) - 1, Tail(q)[i] = u
          PROVE  Has(q, u) /\ u # Head(q)
      BY <1>1, <2>1 DEF Has, Distinct
    <2>2. ASSUME NEW i \in 1 .. Len(q), q[i] = u, u # Head(q)
          PROVE  Has(Tail(q), u)
      <3>1. i - 1 \in 1 .. Len(q) - 1 /\ Tail(q)[i - 1] = u
        BY <1>1, <2>2
      <3> QED
        BY <1>1, <3>1 DEF Has
    <2> QED
      BY <1>1, <2>1, <2>2 DEF Has
  <1> QED
    BY <1>1, <1>2, <1>3, <1>4

\* The elements of a concatenation.
LEMMA ConcatElements ==
  ASSUME NEW a \in Seq(Task), NEW b \in Seq(Task)
  PROVE  /\ a \o b \in Seq(Task)
         /\ Len(a \o b) = Len(a) + Len(b)
         /\ \A i \in 1 .. Len(a) + Len(b) :
              (a \o b)[i] = IF i <= Len(a) THEN a[i] ELSE b[i - Len(a)]
  OBVIOUS

\* Moving the first receptors behind the others.
LEMMA RotateMembers ==
  ASSUME NEW q \in Seq(Task), NEW k \in 0 .. Len(q), Distinct(q)
  PROVE  LET r == SubSeq(q, k + 1, Len(q)) \o SubSeq(q, 1, k)
         IN  /\ r \in Seq(Task)
             /\ Distinct(r)
             /\ \A u : Has(r, u) <=> Has(q, u)
  <1> DEFINE n == Len(q)
             x == SubSeq(q, k + 1, n)
             y == SubSeq(q, 1, k)
             r == x \o y
             back == [i \in 1 .. n |-> IF i <= n - k THEN i + k ELSE i - (n - k)]
  <1>1. /\ x \in Seq(Task) /\ y \in Seq(Task)
        /\ Len(x) = n - k /\ Len(y) = k
        /\ \A i \in 1 .. n - k : x[i] = q[i + k]
        /\ \A i \in 1 .. k : y[i] = q[i]
        /\ n \in Nat /\ k \in Nat /\ k <= n
    OBVIOUS
  <1> HIDE DEF x, y
  <1>2. /\ r \in Seq(Task) /\ Len(r) = n
        /\ \A i \in 1 .. n : r[i] = IF i <= n - k THEN x[i] ELSE y[i - (n - k)]
    BY <1>1, ConcatElements
  <1> HIDE DEF r, n
  <1>3. ASSUME NEW i \in 1 .. n
        PROVE  back[i] \in 1 .. n /\ r[i] = q[back[i]]
    <2>1. CASE i <= n - k
      <3>1. i \in 1 .. n - k /\ back[i] = i + k /\ i + k \in 1 .. n
        BY <1>1, <2>1
      <3> QED
        BY <1>1, <1>2, <2>1, <3>1
    <2>2. CASE i > n - k
      <3>1. /\ i - (n - k) \in 1 .. k /\ back[i] = i - (n - k)
            /\ i - (n - k) \in 1 .. n
        BY <1>1, <2>2
      <3>2. r[i] = y[i - (n - k)]
        BY <1>1, <1>2, <2>2
      <3> QED
        BY <1>1, <3>1, <3>2
    <2> QED
      BY <1>1, <2>1, <2>2
  <1>4. \A i, j \in 1 .. n : back[i] = back[j] => i = j
    BY <1>1
  <1>5. \A j \in 1 .. n : \E i \in 1 .. n : back[i] = j
    <2> SUFFICES ASSUME NEW j \in 1 .. n PROVE \E i \in 1 .. n : back[i] = j
      OBVIOUS
    <2>1. CASE j > k
      <3>1. j - k \in 1 .. n /\ back[j - k] = j
        BY <1>1, <2>1
      <3> QED
        BY <3>1
    <2>2. CASE j <= k
      <3>1. j + (n - k) \in 1 .. n /\ back[j + (n - k)] = j
        BY <1>1, <2>2
      <3> QED
        BY <3>1
    <2> QED
      BY <1>1, <2>1, <2>2
  <1> HIDE DEF back
  <1>6. Distinct(r)
    <2> SUFFICES ASSUME NEW i \in 1 .. n, NEW j \in 1 .. n, r[i] = r[j]
                 PROVE  i = j
      BY <1>2 DEF Distinct
    <2>1. q[back[i]] = q[back[j]]
      BY <1>3
    <2>2. back[i] = back[j]
      BY <1>3, <2>1 DEF Distinct, n
    <2> QED
      BY <1>4, <2>2
  <1>7. \A u : Has(r, u) <=> Has(q, u)
    <2>1. ASSUME NEW u, NEW i \in 1 .. n, r[i] = u
          PROVE  Has(q, u)
      BY <1>3, <2>1 DEF Has, n
    <2>2. ASSUME NEW u, NEW j \in 1 .. n, q[j] = u
          PROVE  Has(r, u)
      <3>1. PICK i \in 1 .. n : back[i] = j
        BY <1>5
      <3>2. r[i] = u
        BY <1>3, <2>2, <3>1
      <3> QED
        BY <1>2, <3>2 DEF Has
    <2> QED
      BY <1>2, <2>1, <2>2 DEF Has, n
  <1> QED
    BY <1>2, <1>6, <1>7 DEF r, n, x, y

\* Leaving a wait: t is linked no more, the others are as before.
LEMMA UnlinkMembers ==
  ASSUME NEW q \in Seq(Task), NEW t \in Task, Distinct(q)
  PROVE  /\ Unlink(q, t) \in Seq(Task)
         /\ Distinct(Unlink(q, t))
         /\ \A u : Has(Unlink(q, t), u) <=> Has(q, u) /\ u # t
  <1>1. CASE Has(q, t)
    <2>1. PICK k \in 1 .. Len(q) : q[k] = t /\ Unlink(q, t) = RemoveAt(q, k)
      BY <1>1, Zenon DEF Unlink, Has
    <2> DEFINE r == RemoveAt(q, k)
               n == Len(q)
    <2> DEFINE x == SubSeq(q, 1, k - 1)
               y == SubSeq(q, k + 1, n)
    <2>2. /\ x \in Seq(Task) /\ y \in Seq(Task)
          /\ Len(x) = k - 1 /\ Len(y) = n - k
          /\ \A i \in 1 .. k - 1 : x[i] = q[i]
          /\ \A i \in 1 .. n - k : y[i] = q[i + k]
          /\ n \in Nat /\ k \in 1 .. n
      OBVIOUS
    <2>cat. r = x \o y
      BY DEF RemoveAt
    <2> HIDE DEF x, y, r
    <2>3. /\ r \in Seq(Task) /\ Len(r) = n - 1
          /\ \A i \in 1 .. n - 1 : r[i] = IF i <= k - 1 THEN x[i] ELSE y[i - (k - 1)]
      <3>1. Len(x) + Len(y) = n - 1
        BY <2>2
      <3>2. /\ r \in Seq(Task) /\ Len(r) = Len(x) + Len(y)
            /\ \A i \in 1 .. Len(x) + Len(y) :
                 r[i] = IF i <= Len(x) THEN x[i] ELSE y[i - Len(x)]
        BY <2>2, <2>cat, ConcatElements
      <3> HIDE DEF n
      <3> QED
        BY <2>2, <3>1, <3>2
    <2> HIDE DEF n
    <2>range. n \in Nat /\ k \in Nat /\ k >= 1 /\ k <= n
      BY <2>2
    <2>4. ASSUME NEW i \in 1 .. n - 1
          PROVE  r[i] = IF i < k THEN q[i] ELSE q[i + 1]
      <3>1. CASE i < k
        <4>1. i \in 1 .. k - 1 /\ i <= k - 1
          BY <2>range, <3>1
        <4>2. r[i] = x[i]
          BY <2>3, <4>1
        <4>3. x[i] = q[i]
          BY <2>2, <4>1
        <4> QED
          BY <3>1, <4>2, <4>3
      <3>2. CASE i >= k
        <4>1. /\ i - (k - 1) \in 1 .. n - k /\ i - (k - 1) + k = i + 1
              /\ ~(i <= k - 1) /\ ~(i < k)
          BY <2>range, <3>2
        <4>2. r[i] = y[i - (k - 1)]
          BY <2>3, <4>1
        <4>3. y[i - (k - 1)] = q[i + 1]
          BY <2>2, <4>1
        <4> QED
          BY <4>1, <4>2, <4>3
      <3> QED
        BY <2>range, <3>1, <3>2
    <2>5. Distinct(r)
      <3> SUFFICES ASSUME NEW i \in 1 .. n - 1, NEW j \in 1 .. n - 1, r[i] = r[j]
                   PROVE  i = j
        BY <2>3 DEF Distinct
      <3> DEFINE up(l) == IF l < k THEN l ELSE l + 1
      <3>1. /\ up(i) \in 1 .. n /\ up(j) \in 1 .. n
            /\ r[i] = q[up(i)] /\ r[j] = q[up(j)]
        <4>1. \A l \in 1 .. n - 1 : up(l) \in 1 .. n /\ r[l] = q[up(l)]
          BY <2>2, <2>4
        <4> QED
          BY <4>1
      <3>2. up(i) = up(j)
        BY <3>1 DEF Distinct, n
      <3> QED
        BY <2>2, <3>2
    <2>6. ASSUME NEW u
          PROVE  Has(r, u) <=> Has(q, u) /\ u # t
      <3>1. ASSUME NEW i \in 1 .. n - 1, r[i] = u
            PROVE  Has(q, u) /\ u # t
        <4>1. PICK j \in 1 .. n : q[j] = u /\ j # k
          <5>1. CASE i < k
            <6>1. i \in 1 .. n /\ i # k
              BY <2>range, <5>1
            <6> QED
              BY <2>4, <3>1, <5>1, <6>1
          <5>2. CASE i >= k
            <6>1. i + 1 \in 1 .. n /\ i + 1 # k /\ ~(i < k)
              BY <2>range, <5>2
            <6> QED
              BY <2>4, <3>1, <6>1
          <5> QED
            BY <2>range, <5>1, <5>2
        <4> QED
          BY <2>1, <4>1 DEF Has, Distinct, n
      <3>2. ASSUME NEW i \in 1 .. n, q[i] = u, u # t
            PROVE  Has(r, u)
        <4>1. CASE i < k
          <5>1. i \in 1 .. n - 1
            BY <2>range, <4>1
          <5>2. r[i] = u
            BY <2>4, <3>2, <4>1, <5>1
          <5> QED
            BY <2>3, <5>1, <5>2 DEF Has
        <4>2. CASE i > k
          <5>1. i - 1 \in 1 .. n - 1 /\ ~(i - 1 < k) /\ (i - 1) + 1 = i
            BY <2>range, <4>2
          <5>2. r[i - 1] = u
            BY <2>4, <3>2, <5>1
          <5> QED
            BY <2>3, <5>1, <5>2 DEF Has
        <4>3. i # k
          BY <2>1, <3>2
        <4> QED
          BY <2>range, <4>1, <4>2, <4>3
      <3> QED
        BY <2>3, <3>1, <3>2 DEF Has, n
    <2> QED
      BY <2>1, <2>3, <2>5, <2>6 DEF r
  <1>2. CASE ~Has(q, t)
    BY <1>2 DEF Unlink, Has
  <1> QED
    BY <1>1, <1>2

\* A loop that starts with, or goes on with, a list of tasks of an event.
LEMMA StartWalkShape ==
  ASSUME NEW op \in {"notify", "clean"}, NEW e \in Event, NEW todo \in Seq(Task),
         StartWalk(op, e, todo)
  PROVE  /\ walk' \in [op: {"none", "notify", "clean"},
                       ev: Event \cup {NoEvent}, rest: Seq(Task)]
         /\ IF Unlocked' THEN walk' = NoWalk
                         ELSE walk'.ev \in Event /\ walk'.rest # <<>>
  BY DEF StartWalk, Unlocked, NoWalk

\* Waking a task up, whoever does it, is a step of the scheduler or none.
LEMMA TaskWakeUpStep ==
  ASSUME NEW t \in Task, TaskWakeUp(t),
         UNCHANGED <<finishList, autoList, autoPoll, fresh, tick, phase>>
  PROVE  [SchedNext]_schedVars
  <1>1. CASE state[t] = "WAIT"
    BY <1>1, Zenon DEF WakeUp, SchedNext
  <1>2. CASE state[t] # "WAIT"
    BY <1>2 DEF TaskWakeUp, schedVars
  <1> QED
    BY <1>1, <1>2

-----------------------------------------------------------------------------
(***************************************************************************)
(* The core of waits: what every use of waits keeps, be it for an event of *)
(* the application, a join, a semaphore, a mutex or an event flag group.   *)
(* The steps below are the ones those uses are built from.                 *)
(***************************************************************************)

\* A loop has receptors left, and a task waits for an event exactly while it
\* is in a wait: the part of EventShape that is not about joins.
WaitShape ==
  /\ IF Unlocked THEN walk = NoWalk
                 ELSE walk.ev \in Event /\ walk.rest # <<>>
  /\ \A t \in Task : IF wpc[t] = "none" THEN wev[t] = NoEvent
                                        ELSE wev[t] \in Event

WaitCore ==
  /\ EventTypeOK
  /\ WaitShape
  /\ ReceptorsAreLive
  /\ WalkOnLinked
  /\ MarksInLoop
  /\ PointsOfCurrent

CoreInv == SchedInv /\ WaitCore

\* The invariant of the receptors, said with Has and Distinct.
Live(t, e) == wpc[t] = "check" /\ wev[t] = e /\ "error" \notin flags[t]

LEMMA ReceptorsHas ==
  ReceptorsAreLive <=>
    /\ \A t \in Task, e \in Event : Has(recv[e], t) <=> Live(t, e)
    /\ \A e \in Event : Distinct(recv[e])
    /\ \A t \in Task : wpc[t] # "none" => state[t] \notin {"NONE", "FINISH"}
  BY Zenon DEF ReceptorsAreLive, LinkedIn, Has, Distinct, Live

\* The same of the next state.
LEMMA ReceptorsHasNext ==
  ASSUME \A t \in Task, e \in Event :
           Has(recv'[e], t) <=> wpc'[t] = "check" /\ wev'[t] = e
                                 /\ "error" \notin flags'[t],
         \A e \in Event : Distinct(recv'[e]),
         \A t \in Task : wpc'[t] # "none" => state'[t] \notin {"NONE", "FINISH"}
  PROVE  ReceptorsAreLive'
  BY Zenon DEF ReceptorsAreLive, LinkedIn, Has, Distinct

\* What the invariant says, at hand for the steps.
LEMMA CoreFacts ==
  ASSUME CoreInv
  PROVE  /\ state \in [Task -> States] /\ ring \in Seq(Task) /\ Len(ring) >= 1
         /\ Current \in Task
         /\ phase = "run" => state[Current] = "RUNING"
         /\ recv \in [Event -> Seq(Task)]
         /\ flags \in [Task -> SUBSET {"trigger", "error"}]
         /\ timer \in [Task -> {"off", "armed", "fired"}]
         /\ wpc \in [Task -> WaitPoints]
         /\ wev \in [Task -> Event \cup {NoEvent}]
         /\ walk \in [op: {"none", "notify", "clean"},
                      ev: Event \cup {NoEvent}, rest: Seq(Task)]
         /\ \A t \in Task : wpc[t] # "none" => wev[t] \in Event
         /\ \A t \in Task, e \in Event : Has(recv[e], t) <=> Live(t, e)
         /\ \A e \in Event : Distinct(recv[e])
         /\ \A t \in Task : wpc[t] # "none" => state[t] \notin {"NONE", "FINISH"}
         /\ \A t \in Task : wpc[t] # "check" => flags[t] = {}
         /\ \A t \in Task : wpc[t] \in {"add", "ok"} => t = Current /\ phase = "run"
  <1>1. /\ state \in [Task -> States] /\ ring \in Seq(Task) /\ Len(ring) >= 1
        /\ Current \in Task
        /\ phase = "run" => state[Current] = "RUNING"
    BY CurrentTask DEF CoreInv, SchedInv, SchedTypeOK, RingReady
  <1>2. EventTypeOK /\ WaitShape /\ MarksInLoop /\ PointsOfCurrent
    BY DEF CoreInv, WaitCore
  <1> QED
    BY <1>1, <1>2, ReceptorsHas, Zenon
       DEF CoreInv, WaitCore, EventTypeOK, WaitShape, MarksInLoop, PointsOfCurrent

\* While the processor may change hands, or the running task is elsewhere, no
\* task is between two wait points.
LEMMA NoPoint ==
  ASSUME CoreInv, phase # "run" \/ wpc[Current] \notin {"add", "ok"}
  PROVE  \A t \in Task : wpc[t] \notin {"add", "ok"}
  BY DEF CoreInv, WaitCore, PointsOfCurrent

\* What a wake-up changes.
LEMMA WakeEffect ==
  ASSUME SchedInv, NEW t \in Task, TaskWakeUp(t)
  PROVE  /\ Current' = Current
         /\ \A u \in Task :
              state'[u] = IF u = t /\ state[t] = "WAIT" THEN "READY" ELSE state[u]
         /\ waitList' \subseteq waitList
  <1>1. ring \in Seq(Task) /\ Len(ring) >= 1 /\ state \in [Task -> States]
    BY DEF SchedInv, SchedTypeOK
  <1>2. Head(Enqueue(t)) = Head(ring)
    BY <1>1, EnqueueProperties
  <1>3. CASE state[t] = "WAIT"
    BY <1>1, <1>2, <1>3 DEF TaskWakeUp, Current
  <1>4. CASE state[t] # "WAIT"
    BY <1>1, <1>4 DEF TaskWakeUp, Current
  <1> QED
    BY <1>3, <1>4

\* The steps of the scheduler that leave the waits alone.
CalmStep ==
  \/ \E t \in Task : Create(t)
  \/ \E t \in Task : AutoFree(t)
  \/ Yield
  \/ Finish
  \/ Undisturbed(NextPoll) \/ Undisturbed(NextNoPoll)
  \/ Undisturbed(AutoDestructEnd) \/ Undisturbed(PollReturn)
  \/ Undisturbed(EnterIdle) \/ Undisturbed(IdleReturn) \/ Undisturbed(Switch)

\* They free and finish no task in a wait and no task somebody waits for, put
\* none to sleep, and do not take the processor from a task between two wait
\* points.
CalmEffect ==
  /\ UNCHANGED eventVars /\ Unlocked /\ phase # "finish"
  /\ \A u \in Task : wpc[u] # "none" => state'[u] \notin {"NONE", "FINISH"}
  /\ \A u \in Task : wpc[u] \in {"add", "ok"} => u = Current' /\ phase' = "run"
  /\ \A u \in Task : state'[u] = "WAIT" => state[u] = "WAIT"
  /\ \A u \in Task : state'[u] = "FINISH" =>
       state[u] = "FINISH" \/ (phase' = "finish" /\ u = Current')
  /\ \A u \in Task : state'[u] = "NONE" =>
       \/ state[u] = "NONE"
       \/ recv[u] = <<>> /\ \A t \in Task : wpc[t] \notin {"add", "ok"}
  /\ \A u \in Task : wpc[u] \in {"add", "ok"} =>
       finishList' = finishList /\ autoList' = autoList

\* The steps that leave the states of the tasks, or all but a finished or a
\* dispatched one, as they are.
LEMMA CalmMoves ==
  ASSUME CoreInv,
         \/ Yield \/ Finish \/ (\E t \in Task : AutoFree(t))
         \/ Undisturbed(NextPoll) \/ Undisturbed(NextNoPoll)
         \/ Undisturbed(AutoDestructEnd) \/ Undisturbed(PollReturn)
         \/ Undisturbed(EnterIdle) \/ Undisturbed(IdleReturn)
  PROVE  CalmEffect
  <1>1. /\ Current \in Task /\ state \in [Task -> States]
        /\ \A u \in Task : wpc[u] # "none" => state[u] \notin {"NONE", "FINISH"}
    BY CoreFacts
  <1>2. CASE \/ Yield
             \/ Undisturbed(NextPoll) \/ Undisturbed(NextNoPoll)
             \/ Undisturbed(AutoDestructEnd) \/ Undisturbed(PollReturn)
             \/ Undisturbed(EnterIdle)
    <2>1. /\ UNCHANGED <<state, ring, finishList, autoList, eventVars>>
          /\ phase # "finish" /\ Unlocked
          /\ phase # "run" \/ wpc[Current] = "none"
      BY <1>2 DEF Yield, Undisturbed, TaskYield, NextPoll, NextNoPoll,
                  AutoDestructEnd, PollReturn, EnterIdle, Running, Polling
    <2>2. \A t \in Task : wpc[t] \notin {"add", "ok"}
      BY <2>1, NoPoint
    <2> QED
      BY <1>1, <2>1, <2>2 DEF CalmEffect
  <1>3. CASE Undisturbed(IdleReturn)
    <2>1. /\ UNCHANGED <<ring, finishList, autoList, eventVars>>
          /\ phase = "idle" /\ Unlocked
          /\ \/ state' = state
             \/ /\ state[Current] \in {"RUNING", "READY"}
                /\ state' = [state EXCEPT ![Current] = "RUNING"]
      BY <1>3 DEF Undisturbed, IdleReturn
    <2>2. \A t \in Task : wpc[t] \notin {"add", "ok"}
      BY <2>1, NoPoint
    <2>3. \A t \in Task :
            \/ state'[t] = state[t]
            \/ state[t] \in {"RUNING", "READY"} /\ state'[t] = "RUNING"
      BY <1>1, <2>1
    <2> QED
      BY <1>1, <2>1, <2>2, <2>3 DEF CalmEffect
  <1>4. CASE Finish
    <2>1. /\ UNCHANGED <<ring, finishList, autoList, eventVars>>
          /\ phase = "run" /\ phase' = "finish" /\ Unlocked
          /\ wpc[Current] = "none"
          /\ state' = [state EXCEPT ![Current] = "FINISH"]
          /\ Current' = Current
      BY <1>4 DEF Finish, Running, TaskFinish, Current
    <2>2. \A t \in Task : wpc[t] \notin {"add", "ok"}
      BY <2>1, NoPoint
    <2>3. \A u \in Task : state'[u] = IF u = Current THEN "FINISH" ELSE state[u]
      BY <1>1, <2>1
    <2> QED
      BY <1>1, <2>1, <2>2, <2>3 DEF CalmEffect
  <1>5. ASSUME NEW t \in Task, AutoFree(t)
        PROVE  CalmEffect
    <2>1. /\ UNCHANGED <<ring, phase, eventVars>>
          /\ phase \in {"poll", "idle"} /\ Unlocked
          /\ recv[t] = <<>>
          /\ t \in autoList
          /\ state' = [state EXCEPT ![t] = "NONE"]
      BY <1>5 DEF AutoFree, Undisturbed, AutoDestruct, Free, Polling
    <2>2. \A u \in Task : wpc[u] \notin {"add", "ok"}
      BY <2>1, NoPoint
    <2>3. \A u \in Task : state'[u] = IF u = t THEN "NONE" ELSE state[u]
      BY <1>1, <2>1
    <2>4. state[t] = "FINISH"
      BY <2>1 DEF CoreInv, SchedInv, ListOfState
    <2> QED
      BY <1>1, <2>1, <2>2, <2>3, <2>4 DEF CalmEffect
  <1> QED
    BY <1>2, <1>3, <1>4, <1>5

\* The processor changes hands, or a task is created.
LEMMA CalmStepEffect ==
  ASSUME CoreInv, CalmStep
  PROVE  CalmEffect
  <1>1. /\ Current \in Task /\ state \in [Task -> States]
        /\ ring \in Seq(Task) /\ Len(ring) >= 1
        /\ \A u \in Task : wpc[u] # "none" => state[u] \notin {"NONE", "FINISH"}
        /\ \A u \in Task : wpc[u] \in {"add", "ok"} => u = Current /\ phase = "run"
    BY CoreFacts
  <1>2. ASSUME NEW t \in Task, Create(t)
        PROVE  CalmEffect
    <2>1. /\ UNCHANGED <<finishList, autoList, phase, eventVars>>
          /\ phase # "finish" /\ Unlocked
          /\ state[t] = "NONE"
          /\ state' = [state EXCEPT ![t] = "READY"]
          /\ ring' = Enqueue(t)
      BY <1>2 DEF Create, Undisturbed, TaskCreate
    <2>2. Current' = Current
      BY <1>1, <2>1, EnqueueProperties DEF Current
    <2>3. \A u \in Task : state'[u] = IF u = t THEN "READY" ELSE state[u]
      BY <1>1, <2>1
    <2> QED
      BY <1>1, <2>1, <2>2, <2>3 DEF CalmEffect
  <1>3. CASE Undisturbed(Switch)
    <2> DEFINE to == ring[2]
    <2>1. /\ UNCHANGED eventVars /\ Unlocked
          /\ phase = "loop"
          /\ Len(ring) > 1
          /\ state' = [state EXCEPT
                         ![Current] = IF state[Current] \in {"READY", "RUNING"}
                                        THEN "READY" ELSE @,
                         ![to] = "RUNING"]
      BY <1>3 DEF Undisturbed, Switch
    <2>2. to \in Task /\ state[to] = "READY"
      <3>1. 2 \in 2 .. Len(ring)
        BY <1>1, <2>1
      <3> QED
        BY <1>1, <2>1, <3>1 DEF CoreInv, SchedInv, RingReady
    <2>3. \A t \in Task : \/ state'[t] = state[t]
                          \/ /\ state[t] \in {"RUNING", "READY"}
                             /\ state'[t] \in {"RUNING", "READY"}
      BY <1>1, <2>1, <2>2
    <2>4. \A t \in Task : wpc[t] \notin {"add", "ok"}
      BY <2>1, NoPoint
    <2> QED
      BY <1>1, <2>1, <2>3, <2>4 DEF CalmEffect
  <1> QED
    BY <1>2, <1>3, CalmMoves DEF CalmStep

\* A step of the scheduler that leaves the waits alone keeps the core if it
\* frees and finishes no task in a wait and does not take the processor from a
\* task between two wait points.
LEMMA CoreSchedOnly ==
  ASSUME CoreInv, UNCHANGED eventVars,
         \A t \in Task : wpc[t] # "none" => state'[t] \notin {"NONE", "FINISH"},
         \A t \in Task : wpc[t] \in {"add", "ok"} => t = Current' /\ phase' = "run"
  PROVE  WaitCore'
  <1>1. UNCHANGED <<recv, flags, timer, wpc, wev, walk>>
    BY DEF eventVars, waitVars
  <1>2. (EventTypeOK /\ WaitShape /\ WalkOnLinked /\ MarksInLoop)'
    BY <1>1 DEF CoreInv, WaitCore, EventTypeOK, WaitShape, WalkOnLinked,
                MarksInLoop, Unlocked, LinkedIn
  <1>3. ReceptorsAreLive' /\ PointsOfCurrent'
    BY <1>1 DEF CoreInv, WaitCore, ReceptorsAreLive, LinkedIn, PointsOfCurrent
  <1> QED
    BY <1>2, <1>3 DEF WaitCore

LEMMA CoreCalm ==
  ASSUME CoreInv, CalmStep
  PROVE  WaitCore'
  BY CalmStepEffect, CoreSchedOnly DEF CalmEffect

\* The running task goes to sleep in the loop of its wait.
LEMMA CoreSleep ==
  ASSUME CoreInv, Running("check"), WaitSleep
  PROVE  /\ WaitCore'
         /\ \A u \in Task : state'[u] = IF u = Current THEN "WAIT" ELSE state[u]
  <1>1. /\ phase = "run" /\ wpc[Current] = "check"
        /\ state' = [state EXCEPT ![Current] = "WAIT"]
        /\ UNCHANGED eventVars
    BY DEF Running, WaitSleep, TaskBlock
  <1>2. \A u \in Task : state'[u] = IF u = Current THEN "WAIT" ELSE state[u]
    BY <1>1, CoreFacts
  <1>3. \A t \in Task : wpc[t] \notin {"add", "ok"}
    BY <1>1, NoPoint
  <1>4. \A t \in Task : wpc[t] # "none" => state'[t] \notin {"NONE", "FINISH"}
    BY <1>2, CoreFacts
  <1> QED
    BY <1>1, <1>2, <1>3, <1>4, CoreSchedOnly

\* A notifier's loop starts; the receptors may have changed their places.
LEMMA CoreStart ==
  ASSUME CoreInv, NEW op \in {"notify", "clean"}, NEW e \in Event,
         NEW todo \in Seq(Task), StartWalk(op, e, todo),
         UNCHANGED <<state, ring, flags, timer, wpc, wev>>,
         phase' = phase \/ phase = "finish",
         recv' \in [Event -> Seq(Task)],
         \A x \in Event : Distinct(recv'[x]),
         \A x \in Event : \A u : Has(recv'[x], u) <=> Has(recv[x], u),
         op = "clean" => todo = recv'[e],
         \A i \in 1 .. Len(todo) : Has(recv[e], todo[i])
  PROVE  WaitCore'
  <1>1. EventTypeOK' /\ WaitShape'
    BY StartWalkShape DEF CoreInv, WaitCore, EventTypeOK, WaitShape
  <1>2. ReceptorsAreLive'
    <2>1. /\ \A t \in Task, x \in Event : Has(recv[x], t) <=> Live(t, x)
          /\ \A t \in Task : wpc[t] # "none" => state[t] \notin {"NONE", "FINISH"}
      BY CoreFacts
    <2> QED
      BY <2>1, ReceptorsHasNext, Zenon DEF Live
  <1>3. WalkOnLinked'
    <2>1. CASE todo = <<>>
      BY <2>1 DEF StartWalk, NoWalk, WalkOnLinked, Unlocked
    <2>2. CASE todo # <<>>
      <3>1. walk' = [op |-> op, ev |-> e, rest |-> todo]
        BY <2>2 DEF StartWalk
      <3>2. \A i \in 1 .. Len(todo) : Has(recv'[e], todo[i])
        OBVIOUS
      <3> QED
        BY <3>1, <3>2 DEF WalkOnLinked, LinkedIn, Has
    <2> QED
      BY <2>1, <2>2
  <1>4. MarksInLoop' /\ PointsOfCurrent'
    BY DEF CoreInv, WaitCore, MarksInLoop, PointsOfCurrent, Current
  <1> QED
    BY <1>1, <1>2, <1>3, <1>4 DEF WaitCore

\* The loop of eh_event_notify and eh_event_clean, in any context.
LEMMA CoreNotify ==
  ASSUME CoreInv, NEW op \in {"notify", "clean"}, NEW e \in Event,
         StartWalk(op, e, recv[e]),
         UNCHANGED <<state, ring, waitVars>>,
         phase' = phase \/ phase = "finish"
  PROVE  WaitCore'
  <1>1. /\ recv \in [Event -> Seq(Task)] /\ recv[e] \in Seq(Task)
        /\ \A x \in Event : Distinct(recv[x])
    BY CoreFacts
  <1>2. UNCHANGED <<recv, flags, timer, wpc, wev>>
    BY DEF waitVars
  <1>3. \A i \in 1 .. Len(recv[e]) : Has(recv[e], recv[e][i])
    BY DEF Has
  <1> QED
    BY <1>1, <1>2, <1>3, CoreStart, Zenon

\* eh_event_notify_and_reorder: the first receptors are the ones to notify and
\* go behind the others, which keep their order.
LEMMA ReorderEffect ==
  ASSUME CoreInv, NEW e \in Event, NEW n \in Nat, NotifyAndReorder(e, n)
  PROVE  LET q == recv[e]
             k == IF n < Len(q) THEN n ELSE Len(q)
         IN  /\ q \in Seq(Task) /\ q # <<>> /\ k \in 0 .. Len(q)
             /\ \A x \in Event : x # e => recv'[x] = recv[x]
             /\ recv'[e] = SubSeq(q, k + 1, Len(q)) \o SubSeq(q, 1, k)
             /\ recv'[e] \in Seq(Task) /\ Len(recv'[e]) = Len(q)
             /\ \A i \in 1 .. Len(q) :
                  recv'[e][i] = IF i <= Len(q) - k THEN q[i + k]
                                                   ELSE q[i - (Len(q) - k)]
             /\ StartWalk("notify", e, SubSeq(q, 1, k))
             /\ UNCHANGED <<state, ring, phase, flags, timer, wpc, wev>>
  <1> DEFINE q == recv[e]
             k == IF n < Len(q) THEN n ELSE Len(q)
             x == SubSeq(q, k + 1, Len(q))
             y == SubSeq(q, 1, k)
  <1>1. /\ StartWalk("notify", e, y)
        /\ recv' = [recv EXCEPT ![e] = x \o y]
        /\ UNCHANGED <<schedVars, flags, timer, wpc, wev>>
        /\ q # <<>>
    BY DEF NotifyAndReorder
  <1>2. /\ recv \in [Event -> Seq(Task)] /\ q \in Seq(Task)
        /\ Len(q) \in Nat /\ k \in 0 .. Len(q)
    BY CoreFacts
  <1> HIDE DEF q, k
  <1>3. /\ x \in Seq(Task) /\ Len(x) = Len(q) - k
        /\ \A i \in 1 .. Len(q) - k : x[i] = q[i + k]
        /\ y \in Seq(Task) /\ Len(y) = k
        /\ \A i \in 1 .. k : y[i] = q[i]
    BY <1>2
  <1> HIDE DEF x, y
  <1>4. /\ x \o y \in Seq(Task) /\ Len(x \o y) = Len(x) + Len(y)
        /\ \A i \in 1 .. Len(x) + Len(y) :
             (x \o y)[i] = IF i <= Len(x) THEN x[i] ELSE y[i - Len(x)]
    BY <1>3, ConcatElements
  <1>5. Len(x) + Len(y) = Len(q)
    BY <1>2, <1>3
  <1>6. ASSUME NEW i \in 1 .. Len(q)
        PROVE  (x \o y)[i] = IF i <= Len(q) - k THEN q[i + k]
                                                ELSE q[i - (Len(q) - k)]
    <2>1. CASE i <= Len(q) - k
      BY <1>2, <1>3, <1>4, <1>5, <2>1
    <2>2. CASE i > Len(q) - k
      <3>1. i - (Len(q) - k) \in 1 .. k /\ ~(i <= Len(x))
        BY <1>2, <1>3, <2>2
      <3> QED
        BY <1>2, <1>3, <1>4, <1>5, <2>2, <3>1
    <2>3. i <= Len(q) - k \/ i > Len(q) - k
      BY <1>2
    <2> QED
      BY <2>1, <2>2, <2>3
  <1>7. recv'[e] = x \o y /\ \A z \in Event : z # e => recv'[z] = recv[z]
    BY <1>1, CoreFacts
  <1> QED
    BY <1>1, <1>2, <1>4, <1>5, <1>6, <1>7 DEF schedVars, x, y, q, k

LEMMA CoreReorder ==
  ASSUME CoreInv, NEW e \in Event, NEW n \in Nat, NotifyAndReorder(e, n)
  PROVE  /\ WaitCore'
         /\ recv' \in [Event -> Seq(Task)]
         /\ \A x \in Event : \A u : Has(recv'[x], u) <=> Has(recv[x], u)
         /\ \A x \in Event : Distinct(recv'[x])
  <1> DEFINE q     == recv[e]
             k     == IF n < Len(q) THEN n ELSE Len(q)
             first == SubSeq(q, 1, k)
             r     == SubSeq(q, k + 1, Len(q)) \o first
  <1>1. /\ StartWalk("notify", e, first)
        /\ recv' = [recv EXCEPT ![e] = r]
        /\ UNCHANGED <<schedVars, flags, timer, wpc, wev>>
    BY DEF NotifyAndReorder
  <1>2. /\ recv \in [Event -> Seq(Task)] /\ q \in Seq(Task)
        /\ \A x \in Event : Distinct(recv[x])
    BY CoreFacts
  <1>3. k \in 0 .. Len(q) /\ first \in Seq(Task)
        /\ \A i \in 1 .. Len(first) : i \in 1 .. Len(q) /\ first[i] = q[i]
    BY <1>2
  <1>4. /\ r \in Seq(Task) /\ Distinct(r)
        /\ \A u : Has(r, u) <=> Has(q, u)
    BY <1>2, <1>3, RotateMembers
  <1> HIDE DEF k, first, r
  <1>5. \A x \in Event : recv'[x] = IF x = e THEN r ELSE recv[x]
    BY <1>1, <1>2
  <1>6. \A i \in 1 .. Len(first) : Has(q, first[i])
    BY <1>3 DEF Has
  <1>7. recv' \in [Event -> Seq(Task)]
    BY <1>1, <1>2, <1>4
  <1>8. /\ \A x \in Event : Distinct(recv'[x])
        /\ \A x \in Event : \A u : Has(recv'[x], u) <=> Has(recv[x], u)
    BY <1>2, <1>4, <1>5
  <1>9. WaitCore'
    BY <1>1, <1>3, <1>6, <1>7, <1>8, CoreStart, Zenon DEF schedVars
  <1> QED
    BY <1>7, <1>8, <1>9

\* The expiry of a timer wakes the task up in the same step.
LEMMA CoreTimerFire ==
  ASSUME CoreInv, NEW t \in Task, TimerFire(t)
  PROVE  /\ WaitCore'
         /\ Current' = Current
         /\ \A u \in Task :
              state'[u] = IF u = t /\ state[t] = "WAIT" THEN "READY" ELSE state[u]
         /\ \A u \in Task : timer'[u] = IF u = t THEN "fired" ELSE timer[u]
  <1>1. /\ UNCHANGED <<phase, recv, flags, wpc, wev, walk>>
        /\ timer' = [timer EXCEPT ![t] = "fired"]
    BY DEF TimerFire
  <1>2. /\ Current' = Current
        /\ \A u \in Task :
             state'[u] = IF u = t /\ state[t] = "WAIT" THEN "READY" ELSE state[u]
    BY WakeEffect DEF CoreInv, TimerFire
  <1>3. /\ timer' \in [Task -> {"off", "armed", "fired"}]
        /\ \A u \in Task : timer'[u] = IF u = t THEN "fired" ELSE timer[u]
    BY <1>1, CoreFacts
  <1>4. (EventTypeOK /\ WaitShape /\ WalkOnLinked /\ MarksInLoop
           /\ PointsOfCurrent)'
    BY <1>1, <1>2, <1>3
       DEF CoreInv, WaitCore, EventTypeOK, WaitShape, WalkOnLinked,
           MarksInLoop, PointsOfCurrent, Unlocked, LinkedIn
  <1>5. ReceptorsAreLive'
    BY <1>1, <1>2 DEF CoreInv, WaitCore, ReceptorsAreLive, LinkedIn
  <1> QED
    BY <1>2, <1>3, <1>4, <1>5 DEF WaitCore

\* One round of a notifier's loop marks a receptor that is linked and wakes
\* its task up with it; the rest of the loop stays.
LEMMA WalkEffect ==
  ASSUME CoreInv, WalkStep
  PROVE  LET t == Head(walk.rest)
             e == walk.ev
             mark == IF walk.op = "clean" THEN "error" ELSE "trigger"
         IN  /\ t \in Task /\ e \in Event /\ walk.op \in {"notify", "clean"}
             /\ wpc[t] = "check" /\ wev[t] = e /\ "error" \notin flags[t]
             /\ walk.rest # <<>> /\ walk.rest \in Seq(Task)
             /\ Tail(walk.rest) \in Seq(Task)
             /\ walk.op = "clean" => walk.rest = recv[e]
             /\ \A u : Has(walk.rest, u) => Has(recv[e], u)
             /\ Current' = Current
             /\ \A u \in Task :
                  state'[u] = IF u = t /\ state[t] = "WAIT" THEN "READY"
                                                            ELSE state[u]
             /\ flags' \in [Task -> SUBSET {"trigger", "error"}]
             /\ \A u \in Task : flags'[u] = IF u = t THEN flags[u] \cup {mark}
                                                     ELSE flags[u]
             /\ recv' \in [Event -> Seq(Task)]
             /\ \A x \in Event :
                  recv'[x] = IF walk.op = "clean" /\ x = e THEN Tail(recv[x])
                                                           ELSE recv[x]
             /\ walk' = IF Tail(walk.rest) = <<>> THEN NoWalk
                        ELSE [op |-> walk.op, ev |-> e, rest |-> Tail(walk.rest)]
             /\ walk'.rest = Tail(walk.rest)
             /\ \A u : Has(Tail(walk.rest), u) => Has(walk.rest, u)
             /\ \A u : Has(walk.rest, u) /\ u # t => Has(Tail(walk.rest), u)
             /\ UNCHANGED <<finishList, autoList, phase, timer, wpc, wev>>
  <1> DEFINE rest == walk.rest
             t    == Head(rest)
             e    == walk.ev
             mark == IF walk.op = "clean" THEN "error" ELSE "trigger"
  <1>1. /\ ~Unlocked /\ TaskWakeUp(t)
        /\ flags' = [flags EXCEPT ![t] = @ \cup {mark}]
        /\ recv' = IF walk.op = "clean" THEN [recv EXCEPT ![e] = Tail(@)] ELSE recv
        /\ StartWalk(walk.op, e, Tail(rest))
        /\ UNCHANGED <<finishList, autoList, phase, timer, wpc, wev>>
    BY DEF WalkStep
  <1>2. /\ rest \in Seq(Task) /\ rest # <<>> /\ e \in Event
        /\ walk.op \in {"notify", "clean"}
        /\ t \in Task /\ Tail(rest) \in Seq(Task)
    <2>1. rest \in Seq(Task) /\ rest # <<>> /\ e \in Event
      BY <1>1 DEF CoreInv, WaitCore, EventTypeOK, WaitShape
    <2>2. walk.op \in {"notify", "clean"}
      BY <1>1 DEF CoreInv, WaitCore, EventTypeOK, Unlocked
    <2> QED
      BY <2>1, <2>2
  <1>3. /\ recv \in [Event -> Seq(Task)]
        /\ \A u \in Task, x \in Event : Has(recv[x], u) <=> Live(u, x)
    BY CoreFacts
  <1>4. /\ walk.op = "clean" => rest = recv[e]
        /\ \A u : Has(rest, u) => Has(recv[e], u)
    BY <1>1, Zenon DEF CoreInv, WaitCore, WalkOnLinked, LinkedIn, Has
  <1>5. wpc[t] = "check" /\ wev[t] = e /\ "error" \notin flags[t]
    <2>1. Has(rest, t)
      BY <1>2 DEF Has
    <2> QED
      BY <1>2, <1>3, <1>4, <2>1 DEF Live
  <1>6. /\ Current' = Current
        /\ \A u \in Task :
             state'[u] = IF u = t /\ state[t] = "WAIT" THEN "READY" ELSE state[u]
    BY <1>1, <1>2, WakeEffect DEF CoreInv
  <1>7. /\ flags' \in [Task -> SUBSET {"trigger", "error"}]
        /\ \A u \in Task : flags'[u] = IF u = t THEN flags[u] \cup {mark}
                                                ELSE flags[u]
    BY <1>1, <1>2, CoreFacts
  <1>8. /\ recv' \in [Event -> Seq(Task)]
        /\ \A x \in Event :
             recv'[x] = IF walk.op = "clean" /\ x = e THEN Tail(recv[x])
                                                      ELSE recv[x]
    <2>1. CASE walk.op = "clean"
      <3>1. Tail(recv[e]) \in Seq(Task)
        BY <1>2, <1>4, <2>1
      <3> QED
        BY <1>1, <1>2, <1>3, <2>1, <3>1
    <2>2. CASE walk.op # "clean"
      BY <1>1, <1>3, <2>2
    <2> QED
      BY <2>1, <2>2
  <1>9. walk' = IF Tail(rest) = <<>> THEN NoWalk
                ELSE [op |-> walk.op, ev |-> e, rest |-> Tail(rest)]
    BY <1>1 DEF StartWalk
  <1>10. walk'.rest = Tail(rest)
    BY <1>9 DEF NoWalk
  <1>11. \A u : Has(Tail(rest), u) => Has(rest, u)
    BY <1>2 DEF Has
  <1>12. \A u : Has(rest, u) /\ u # t => Has(Tail(rest), u)
    <2> SUFFICES ASSUME NEW u, NEW i \in 1 .. Len(rest), rest[i] = u, u # t
                 PROVE  Has(Tail(rest), u)
      BY DEF Has
    <2>1. /\ Len(rest) \in Nat /\ t = rest[1] /\ Len(Tail(rest)) = Len(rest) - 1
          /\ \A j \in 1 .. Len(rest) - 1 : Tail(rest)[j] = rest[j + 1]
      BY <1>2
    <2>2. i - 1 \in 1 .. Len(rest) - 1 /\ (i - 1) + 1 = i
      BY <2>1
    <2> QED
      BY <2>1, <2>2 DEF Has
  <1> QED
    BY <1>1, <1>2, <1>4, <1>5, <1>6, <1>7, <1>8, <1>9, <1>10, <1>11, <1>12, Zenon

LEMMA CoreWalkStep ==
  ASSUME CoreInv, WalkStep
  PROVE  WaitCore'
  <1> DEFINE rest == walk.rest
             t    == Head(rest)
             e    == walk.ev
             mark == IF walk.op = "clean" THEN "error" ELSE "trigger"
  <1>1. /\ t \in Task /\ e \in Event /\ walk.op \in {"notify", "clean"}
        /\ wpc[t] = "check" /\ wev[t] = e /\ "error" \notin flags[t]
        /\ rest # <<>> /\ rest \in Seq(Task) /\ Tail(rest) \in Seq(Task)
        /\ walk.op = "clean" => rest = recv[e]
        /\ \A u : Has(rest, u) => Has(recv[e], u)
        /\ Current' = Current
        /\ \A u \in Task :
             state'[u] = IF u = t /\ state[t] = "WAIT" THEN "READY" ELSE state[u]
        /\ flags' \in [Task -> SUBSET {"trigger", "error"}]
        /\ \A u \in Task : flags'[u] = IF u = t THEN flags[u] \cup {mark}
                                                ELSE flags[u]
        /\ recv' \in [Event -> Seq(Task)]
        /\ \A x \in Event :
             recv'[x] = IF walk.op = "clean" /\ x = e THEN Tail(recv[x])
                                                      ELSE recv[x]
        /\ walk' = IF Tail(rest) = <<>> THEN NoWalk
                   ELSE [op |-> walk.op, ev |-> e, rest |-> Tail(rest)]
        /\ \A u : Has(Tail(rest), u) => Has(rest, u)
        /\ UNCHANGED <<phase, timer, wpc, wev>>
    BY WalkEffect, Zenon
  <1>2. /\ \A x \in Event : Distinct(recv[x])
        /\ \A u \in Task, x \in Event : Has(recv[x], u) <=> Live(u, x)
        /\ \A u \in Task : wpc[u] # "none" => state[u] \notin {"NONE", "FINISH"}
        /\ recv[e] \in Seq(Task)
    BY <1>1, CoreFacts
  <1> HIDE DEF rest, t, e, mark
  <1>3. EventTypeOK' /\ WaitShape'
    <2>1. StartWalk(walk.op, e, Tail(rest))
      BY <1>1 DEF StartWalk
    <2>2. /\ walk' \in [op: {"none", "notify", "clean"},
                        ev: Event \cup {NoEvent}, rest: Seq(Task)]
          /\ IF Unlocked' THEN walk' = NoWalk
                          ELSE walk'.ev \in Event /\ walk'.rest # <<>>
      BY <1>1, <2>1, StartWalkShape
    <2> QED
      BY <1>1, <2>2 DEF CoreInv, WaitCore, EventTypeOK, WaitShape
  <1>4. \A u \in Task : wpc'[u] # "none" => state'[u] \notin {"NONE", "FINISH"}
    BY <1>1, <1>2
  <1>5. ReceptorsAreLive'
    <2>1. CASE walk.op = "clean"
      <3>1. /\ Distinct(Tail(recv[e]))
            /\ \A u : Has(Tail(recv[e]), u) <=> Has(recv[e], u) /\ u # t
        <4>1. recv[e] # <<>> /\ Head(recv[e]) = t
          BY <1>1, <2>1 DEF t
        <4> QED
          BY <1>1, <1>2, <4>1, TailMembers
      <3>2. mark = "error"
        BY <2>1 DEF mark
      <3>new. /\ recv'[e] = Tail(recv[e])
              /\ \A x \in Event : x # e => recv'[x] = recv[x]
        BY <1>1, <2>1
      <3>3. ASSUME NEW u \in Task, NEW x \in Event
            PROVE  Has(recv'[x], u) <=> wpc'[u] = "check" /\ wev'[u] = x
                                          /\ "error" \notin flags'[u]
        <4>1. CASE x = e
          <5>1. "error" \notin flags'[u] <=> "error" \notin flags[u] /\ u # t
            BY <1>1, <3>2
          <5>2. Has(recv'[x], u) <=> Live(u, e) /\ u # t
            BY <1>1, <1>2, <3>1, <3>new, <4>1
          <5> QED
            BY <1>1, <4>1, <5>1, <5>2 DEF Live
        <4>2. CASE x # e
          BY <1>1, <1>2, <3>new, <4>2 DEF Live
        <4> QED
          BY <4>1, <4>2
      <3>4. \A x \in Event : Distinct(recv'[x])
        BY <1>2, <3>1, <3>new
      <3> QED
        BY <1>4, <3>3, <3>4, ReceptorsHasNext, Zenon
    <2>2. CASE walk.op # "clean"
      <3>1. mark = "trigger"
        BY <2>2 DEF mark
      <3>2. \A u \in Task, x \in Event :
              Has(recv'[x], u) <=> wpc'[u] = "check" /\ wev'[u] = x
                                     /\ "error" \notin flags'[u]
        BY <1>1, <1>2, <2>2, <3>1, SMTT(30) DEF Live
      <3>3. \A x \in Event : Distinct(recv'[x])
        BY <1>1, <1>2, <2>2
      <3> QED
        BY <1>4, <3>2, <3>3, ReceptorsHasNext, Zenon
    <2> QED
      BY <2>1, <2>2
  <1>6. WalkOnLinked'
    <2>1. CASE Tail(rest) = <<>>
      BY <1>1, <2>1 DEF NoWalk, WalkOnLinked, Unlocked
    <2>2. CASE Tail(rest) # <<>>
      <3>1. walk'.op = walk.op /\ walk'.ev = e /\ walk'.rest = Tail(rest)
        BY <1>1, <2>2
      <3>2. walk.op = "clean" => Tail(rest) = recv'[e]
        BY <1>1
      <3>3. ASSUME NEW i \in 1 .. Len(Tail(rest))
            PROVE  Has(recv'[e], Tail(rest)[i])
        <4>1. Has(Tail(rest), Tail(rest)[i])
          BY DEF Has
        <4>2. CASE walk.op = "clean"
          BY <3>2, <4>1, <4>2
        <4>3. CASE walk.op # "clean"
          BY <1>1, <4>1, <4>3
        <4> QED
          BY <4>2, <4>3
      <3> QED
        BY <3>1, <3>2, <3>3 DEF WalkOnLinked, LinkedIn, Has
    <2> QED
      BY <2>1, <2>2
  <1>7. MarksInLoop' /\ PointsOfCurrent'
    BY <1>1 DEF CoreInv, WaitCore, MarksInLoop, PointsOfCurrent
  <1> QED
    BY <1>3, <1>5, <1>6, <1>7 DEF WaitCore

\* A wait begins: the receptor is not linked yet.
LEMMA CoreWaitBegin ==
  ASSUME CoreInv, NEW e \in Event, NEW timed \in BOOLEAN, WaitBegin(e, timed)
  PROVE  /\ WaitCore'
         /\ \A u \in Task :
              /\ wpc'[u] = IF u = Current THEN "add" ELSE wpc[u]
              /\ wev'[u] = IF u = Current THEN e ELSE wev[u]
              /\ flags'[u] = IF u = Current THEN {} ELSE flags[u]
              /\ u # Current => timer'[u] = timer[u]
  <1>1. /\ Unlocked /\ phase = "run" /\ wpc[Current] = "none"
        /\ wpc' = [wpc EXCEPT ![Current] = "add"]
        /\ wev' = [wev EXCEPT ![Current] = e]
        /\ flags' = [flags EXCEPT ![Current] = {}]
        /\ timer' = [timer EXCEPT ![Current] = IF timed THEN "armed" ELSE "off"]
        /\ UNCHANGED <<schedVars, recv, walk>>
    BY DEF WaitBegin, Running
  <1>2. UNCHANGED <<state, ring, phase>> /\ Current' = Current
    BY <1>1 DEF schedVars, Current
  <1>3. /\ Current \in Task /\ state[Current] = "RUNING"
        /\ wpc \in [Task -> WaitPoints]
        /\ wev \in [Task -> Event \cup {NoEvent}]
        /\ flags \in [Task -> SUBSET {"trigger", "error"}]
        /\ timer \in [Task -> {"off", "armed", "fired"}]
        /\ \A u \in Task, x \in Event : Has(recv[x], u) <=> Live(u, x)
        /\ \A x \in Event : Distinct(recv[x])
        /\ \A u \in Task : wpc[u] # "none" => state[u] \notin {"NONE", "FINISH"}
    BY <1>1, CoreFacts
  <1>4. \A u \in Task :
          /\ wpc'[u] = IF u = Current THEN "add" ELSE wpc[u]
          /\ wev'[u] = IF u = Current THEN e ELSE wev[u]
          /\ flags'[u] = IF u = Current THEN {} ELSE flags[u]
          /\ u # Current => timer'[u] = timer[u]
    BY <1>1, <1>3
  <1>5. EventTypeOK'
    <2>1. wpc' \in [Task -> WaitPoints]
      BY <1>1, <1>3 DEF WaitPoints
    <2>2. /\ wev' \in [Task -> Event \cup {NoEvent}]
          /\ flags' \in [Task -> SUBSET {"trigger", "error"}]
          /\ timer' \in [Task -> {"off", "armed", "fired"}]
      BY <1>1, <1>3
    <2> QED
      BY <1>1, <2>1, <2>2 DEF CoreInv, WaitCore, EventTypeOK
  <1>6. WaitShape' /\ WalkOnLinked' /\ MarksInLoop' /\ PointsOfCurrent'
    BY <1>1, <1>2, <1>4 DEF CoreInv, WaitCore, WaitShape, WalkOnLinked,
                            MarksInLoop, PointsOfCurrent, Unlocked, LinkedIn
  <1>7. ReceptorsAreLive'
    <2>1. \A u \in Task, x \in Event :
            Has(recv'[x], u) <=> wpc'[u] = "check" /\ wev'[u] = x
                                  /\ "error" \notin flags'[u]
      BY <1>1, <1>3, <1>4 DEF Live
    <2> QED
      BY <1>1, <1>2, <1>3, <1>4, <2>1, ReceptorsHasNext
  <1> QED
    BY <1>4, <1>5, <1>6, <1>7 DEF WaitCore

\* The receptor is linked, unmarked, by the running task.
LEMMA CoreAddReceptor ==
  ASSUME CoreInv, AddReceptor
  PROVE  /\ WaitCore'
         /\ wev[Current] \in Event
         /\ \A x \in Event : recv'[x] = IF x = wev[Current]
                                          THEN Append(recv[x], Current)
                                          ELSE recv[x]
         /\ \A u \in Task : wpc'[u] = IF u = Current THEN "check" ELSE wpc[u]
  <1> DEFINE e == wev[Current]
  <1>1. /\ Unlocked /\ phase = "run" /\ wpc[Current] = "add"
        /\ recv' = [recv EXCEPT ![e] = Append(@, Current)]
        /\ wpc' = [wpc EXCEPT ![Current] = "check"]
        /\ UNCHANGED <<schedVars, flags, timer, wev, walk>>
    BY DEF AddReceptor, Running
  <1>2. UNCHANGED <<state, ring, phase>> /\ Current' = Current
    BY <1>1 DEF schedVars, Current
  <1>3. /\ Current \in Task /\ state[Current] = "RUNING"
        /\ wpc \in [Task -> WaitPoints] /\ recv \in [Event -> Seq(Task)]
        /\ e \in Event /\ flags[Current] = {}
        /\ \A u \in Task, x \in Event : Has(recv[x], u) <=> Live(u, x)
        /\ \A x \in Event : Distinct(recv[x])
        /\ \A u \in Task : wpc[u] # "none" => state[u] \notin {"NONE", "FINISH"}
    BY <1>1, CoreFacts
  <1>4. ~Has(recv[e], Current)
    BY <1>1, <1>3 DEF Live
  <1>5. /\ Append(recv[e], Current) \in Seq(Task)
        /\ Distinct(Append(recv[e], Current))
        /\ \A u : Has(Append(recv[e], Current), u) <=> Has(recv[e], u) \/ u = Current
    BY <1>3, <1>4, AppendMembers
  <1>6. \A x \in Event :
          recv'[x] = IF x = e THEN Append(recv[x], Current) ELSE recv[x]
    BY <1>1, <1>3
  <1>7. \A u \in Task : wpc'[u] = IF u = Current THEN "check" ELSE wpc[u]
    BY <1>1, <1>3
  <1> HIDE DEF e
  <1>8. EventTypeOK'
    <2>1. wpc' \in [Task -> WaitPoints]
      BY <1>1, <1>3 DEF WaitPoints
    <2>2. recv' \in [Event -> Seq(Task)]
      BY <1>1, <1>3, <1>5
    <2> QED
      BY <1>1, <2>1, <2>2 DEF CoreInv, WaitCore, EventTypeOK
  <1>9. WaitShape' /\ WalkOnLinked' /\ MarksInLoop' /\ PointsOfCurrent'
    BY <1>1, <1>2, <1>3, <1>7
       DEF CoreInv, WaitCore, WaitShape, WalkOnLinked, MarksInLoop,
           PointsOfCurrent, Unlocked, e
  <1>10. ReceptorsAreLive'
    <2>1. ASSUME NEW u \in Task, NEW x \in Event
          PROVE  Has(recv'[x], u) <=> wpc'[u] = "check" /\ wev'[u] = x
                                        /\ "error" \notin flags'[u]
      <3>1. CASE x = e
        BY <1>1, <1>3, <1>5, <1>6, <1>7, <3>1 DEF Live, e
      <3>2. CASE x # e
        BY <1>1, <1>3, <1>6, <1>7, <3>2 DEF Live, e
      <3> QED
        BY <3>1, <3>2
    <2>2. \A x \in Event : Distinct(recv'[x])
      BY <1>3, <1>5, <1>6
    <2>3. \A u \in Task : wpc'[u] # "none" => state'[u] \notin {"NONE", "FINISH"}
      BY <1>2, <1>3, <1>7
    <2> QED
      BY <2>1, <2>2, <2>3, ReceptorsHasNext, Zenon
  <1> QED
    BY <1>3, <1>6, <1>7, <1>8, <1>9, <1>10 DEF WaitCore, e

\* Leaving the loop of a wait unlinks the receptor and no other.
LEMMA LeaveEffect ==
  ASSUME CoreInv, Running("check"),
         recv' = [recv EXCEPT ![wev[Current]] = Unlink(@, Current)]
  PROVE  /\ wev[Current] \in Event /\ Current \in Task /\ state[Current] = "RUNING"
         /\ Unlink(recv[wev[Current]], Current) \in Seq(Task)
         /\ \A x \in Event : recv'[x] = IF x = wev[Current]
                                          THEN Unlink(recv[x], Current)
                                          ELSE recv[x]
         /\ recv' \in [Event -> Seq(Task)]
         /\ \A x \in Event : Distinct(recv'[x])
         /\ \A u \in Task, x \in Event :
              Has(recv'[x], u) <=> Live(u, x) /\ u # Current
         /\ \A u \in Task : wpc[u] # "none" => state[u] \notin {"NONE", "FINISH"}
         /\ \A u \in Task : wpc[u] \notin {"add", "ok"}
  <1> DEFINE e == wev[Current]
             q == Unlink(recv[e], Current)
  <1>1. /\ Current \in Task /\ state[Current] = "RUNING" /\ wpc[Current] = "check"
        /\ recv \in [Event -> Seq(Task)] /\ e \in Event
        /\ \A u \in Task, x \in Event : Has(recv[x], u) <=> Live(u, x)
        /\ \A x \in Event : Distinct(recv[x])
        /\ \A u \in Task : wpc[u] # "none" => state[u] \notin {"NONE", "FINISH"}
        /\ \A u \in Task : wpc[u] \notin {"add", "ok"}
    BY CoreFacts DEF Running
  <1>2. /\ q \in Seq(Task) /\ Distinct(q)
        /\ \A u : Has(q, u) <=> Has(recv[e], u) /\ u # Current
    BY <1>1, UnlinkMembers
  <1>3. \A x \in Event : recv'[x] = IF x = e THEN q ELSE recv[x]
    BY <1>1
  <1>4. recv' \in [Event -> Seq(Task)]
    BY <1>1, <1>2
  <1>5. \A x \in Event : recv'[x] = IF x = e THEN Unlink(recv[x], Current)
                                              ELSE recv[x]
    BY <1>3
  <1> HIDE DEF q
  <1>6. ASSUME NEW u \in Task, NEW x \in Event
        PROVE  Has(recv'[x], u) <=> Live(u, x) /\ u # Current
    <2>1. CASE x = e
      BY <1>1, <1>2, <1>3, <2>1
    <2>2. CASE x # e
      BY <1>1, <1>3, <2>2 DEF Live
    <2> QED
      BY <2>1, <2>2
  <1>7. \A x \in Event : Distinct(recv'[x])
    BY <1>1, <1>2, <1>3
  <1> QED
    BY <1>1, <1>2, <1>4, <1>5, <1>6, <1>7 DEF q

\* A wait that ends for its caller, or whose call goes on (a join cleans the
\* event in the same critical section).
LEMMA CoreLeave ==
  ASSUME CoreInv, Running("check"), NEW point \in {"none", "ok"},
         WaitLeave(point),
         wev' = IF point = "none" THEN [wev EXCEPT ![Current] = NoEvent] ELSE wev,
         flags' = [flags EXCEPT ![Current] = {}],
         UNCHANGED schedVars,
         \/ UNCHANGED walk
         \/ StartWalk("clean", wev[Current], Unlink(recv[wev[Current]], Current))
  PROVE  /\ WaitCore'
         /\ \A u \in Task :
              /\ wpc'[u] = IF u = Current THEN point ELSE wpc[u]
              /\ u # Current => wev'[u] = wev[u] /\ timer'[u] = timer[u]
              /\ flags'[u] = IF u = Current THEN {} ELSE flags[u]
  <1> DEFINE e == wev[Current]
             q == Unlink(recv[e], Current)
  <1>1. /\ Unlocked /\ phase = "run" /\ wpc[Current] = "check"
        /\ recv' = [recv EXCEPT ![wev[Current]] = Unlink(@, Current)]
        /\ wpc' = [wpc EXCEPT ![Current] = point]
        /\ timer' = [timer EXCEPT ![Current] = "off"]
        /\ UNCHANGED <<state, ring, phase>> /\ Current' = Current
    BY DEF WaitLeave, Running, schedVars, Current
  <1>2. /\ Current \in Task /\ e \in Event /\ state[Current] = "RUNING"
        /\ q \in Seq(Task) /\ recv'[e] = q
        /\ recv' \in [Event -> Seq(Task)]
        /\ \A x \in Event : Distinct(recv'[x])
        /\ \A u \in Task, x \in Event :
             Has(recv'[x], u) <=> Live(u, x) /\ u # Current
        /\ \A u \in Task : wpc[u] # "none" => state[u] \notin {"NONE", "FINISH"}
        /\ \A u \in Task : wpc[u] \notin {"add", "ok"}
    BY <1>1, LeaveEffect
  <1>3. /\ wpc \in [Task -> WaitPoints]
        /\ wev \in [Task -> Event \cup {NoEvent}]
        /\ flags \in [Task -> SUBSET {"trigger", "error"}]
        /\ timer \in [Task -> {"off", "armed", "fired"}]
        /\ walk = NoWalk
        /\ \A u \in Task : IF wpc[u] = "none" THEN wev[u] = NoEvent
                                              ELSE wev[u] \in Event
    BY <1>1, CoreFacts DEF CoreInv, WaitCore, WaitShape
  <1>4. \A u \in Task :
          /\ wpc'[u] = IF u = Current THEN point ELSE wpc[u]
          /\ wev'[u] = IF u = Current /\ point = "none" THEN NoEvent ELSE wev[u]
          /\ flags'[u] = IF u = Current THEN {} ELSE flags[u]
          /\ u # Current => timer'[u] = timer[u]
    BY <1>1, <1>3
  <1> HIDE DEF e, q
  <1>5. /\ walk' \in [op: {"none", "notify", "clean"},
                      ev: Event \cup {NoEvent}, rest: Seq(Task)]
        /\ IF Unlocked' THEN walk' = NoWalk
                        ELSE walk'.ev \in Event /\ walk'.rest # <<>>
    <2>1. CASE UNCHANGED walk
      BY <1>3, <2>1, CoreFacts DEF Unlocked, NoWalk
    <2>2. CASE StartWalk("clean", e, q)
      BY <1>2, <2>2, StartWalkShape
    <2> QED
      BY <2>1, <2>2 DEF e, q
  <1>6. EventTypeOK'
    <2>1. wpc' \in [Task -> WaitPoints]
      BY <1>1, <1>3 DEF WaitPoints
    <2>2. /\ wev' \in [Task -> Event \cup {NoEvent}]
          /\ flags' \in [Task -> SUBSET {"trigger", "error"}]
          /\ timer' \in [Task -> {"off", "armed", "fired"}]
      BY <1>1, <1>3
    <2> QED
      BY <1>2, <1>5, <2>1, <2>2 DEF EventTypeOK
  <1>7. WaitShape'
    BY <1>3, <1>4, <1>2, <1>5 DEF WaitShape, e
  <1>8. ReceptorsAreLive'
    <2>1. \A u \in Task, x \in Event :
            Has(recv'[x], u) <=> wpc'[u] = "check" /\ wev'[u] = x
                                  /\ "error" \notin flags'[u]
      BY <1>2, <1>4 DEF Live
    <2>2. \A u \in Task : wpc'[u] # "none" => state'[u] \notin {"NONE", "FINISH"}
      BY <1>1, <1>2, <1>4
    <2> QED
      BY <1>2, <2>1, <2>2, ReceptorsHasNext, Zenon
  <1>9. WalkOnLinked'
    <2>1. CASE UNCHANGED walk
      BY <1>3, <2>1 DEF NoWalk, WalkOnLinked, Unlocked
    <2>2. CASE StartWalk("clean", e, q) /\ q = <<>>
      BY <2>2 DEF StartWalk, NoWalk, WalkOnLinked, Unlocked
    <2>3. CASE StartWalk("clean", e, q) /\ q # <<>>
      <3>1. walk' = [op |-> "clean", ev |-> e, rest |-> q]
        BY <2>3 DEF StartWalk
      <3> QED
        BY <1>2, <3>1 DEF WalkOnLinked, LinkedIn
    <2> QED
      BY <2>1, <2>2, <2>3 DEF e, q
  <1>10. MarksInLoop' /\ PointsOfCurrent'
    BY <1>1, <1>2, <1>4 DEF CoreInv, WaitCore, MarksInLoop, PointsOfCurrent
  <1> QED
    BY <1>4, <1>6, <1>7, <1>8, <1>9, <1>10 DEF WaitCore

\* The condition of a call holds at once: it goes on without waiting (a join
\* cleans the event in the same critical section).
LEMMA CoreAtOnce ==
  ASSUME CoreInv, Running("none"), NEW e \in Event,
         wpc' = [wpc EXCEPT ![Current] = "ok"],
         wev' = [wev EXCEPT ![Current] = e],
         UNCHANGED <<schedVars, recv, flags, timer>>,
         UNCHANGED walk \/ StartWalk("clean", e, recv[e])
  PROVE  /\ WaitCore'
         /\ \A u \in Task : /\ wpc'[u] = IF u = Current THEN "ok" ELSE wpc[u]
                            /\ wev'[u] = IF u = Current THEN e ELSE wev[u]
  <1>1. /\ Unlocked /\ phase = "run" /\ wpc[Current] = "none"
        /\ UNCHANGED <<state, ring, phase>> /\ Current' = Current
    BY DEF Running, schedVars, Current
  <1>2. /\ Current \in Task /\ state[Current] = "RUNING"
        /\ wpc \in [Task -> WaitPoints]
        /\ wev \in [Task -> Event \cup {NoEvent}]
        /\ recv \in [Event -> Seq(Task)] /\ recv[e] \in Seq(Task)
        /\ \A u \in Task, x \in Event : Has(recv[x], u) <=> Live(u, x)
        /\ \A x \in Event : Distinct(recv[x])
        /\ \A u \in Task : wpc[u] # "none" => state[u] \notin {"NONE", "FINISH"}
        /\ \A u \in Task : wpc[u] \notin {"add", "ok"}
        /\ walk = NoWalk
    BY <1>1, CoreFacts DEF CoreInv, WaitCore, WaitShape
  <1>3. \A u \in Task :
          /\ wpc'[u] = IF u = Current THEN "ok" ELSE wpc[u]
          /\ wev'[u] = IF u = Current THEN e ELSE wev[u]
    BY <1>2
  <1>4. /\ walk' \in [op: {"none", "notify", "clean"},
                      ev: Event \cup {NoEvent}, rest: Seq(Task)]
        /\ IF Unlocked' THEN walk' = NoWalk
                        ELSE walk'.ev \in Event /\ walk'.rest # <<>>
    <2>1. CASE UNCHANGED walk
      BY <1>2, <2>1, CoreFacts DEF Unlocked, NoWalk
    <2>2. CASE StartWalk("clean", e, recv[e])
      BY <1>2, <2>2, StartWalkShape
    <2> QED
      BY <2>1, <2>2
  <1>5. EventTypeOK' /\ WaitShape'
    <2>1. wpc' \in [Task -> WaitPoints]
      BY <1>2 DEF WaitPoints
    <2>2. wev' \in [Task -> Event \cup {NoEvent}]
      BY <1>2
    <2>3. EventTypeOK'
      BY <1>4, <2>1, <2>2 DEF CoreInv, WaitCore, EventTypeOK
    <2>4. WaitShape'
      BY <1>3, <1>4 DEF CoreInv, WaitCore, WaitShape
    <2> QED
      BY <2>3, <2>4
  <1>6. ReceptorsAreLive'
    <2>1. \A u \in Task, x \in Event :
            Has(recv'[x], u) <=> wpc'[u] = "check" /\ wev'[u] = x
                                  /\ "error" \notin flags'[u]
      BY <1>1, <1>2, <1>3 DEF Live
    <2> QED
      BY <1>1, <1>2, <1>3, <2>1, ReceptorsHasNext
  <1>7. WalkOnLinked'
    <2>1. CASE UNCHANGED walk
      BY <1>2, <2>1 DEF NoWalk, WalkOnLinked, Unlocked
    <2>2. CASE StartWalk("clean", e, recv[e]) /\ recv[e] = <<>>
      BY <2>2 DEF StartWalk, NoWalk, WalkOnLinked, Unlocked
    <2>3. CASE StartWalk("clean", e, recv[e]) /\ recv[e] # <<>>
      <3>1. walk' = [op |-> "clean", ev |-> e, rest |-> recv[e]]
        BY <2>3 DEF StartWalk
      <3> QED
        BY <3>1 DEF WalkOnLinked, LinkedIn
    <2> QED
      BY <2>1, <2>2, <2>3
  <1>8. MarksInLoop' /\ PointsOfCurrent'
    BY <1>1, <1>2, <1>3 DEF CoreInv, WaitCore, MarksInLoop, PointsOfCurrent
  <1> QED
    BY <1>3, <1>5, <1>6, <1>7, <1>8 DEF WaitCore

\* The call that went on is over.
LEMMA CoreOver ==
  ASSUME CoreInv, Running("ok"),
         wpc' = [wpc EXCEPT ![Current] = "none"],
         wev' = [wev EXCEPT ![Current] = NoEvent],
         UNCHANGED <<ring, phase, recv, flags, timer, walk>>,
         \A u \in Task : wpc[u] # "none" => state'[u] \notin {"NONE", "FINISH"}
  PROVE  /\ WaitCore'
         /\ \A u \in Task :
              /\ wpc'[u] = IF u = Current THEN "none" ELSE wpc[u]
              /\ wev'[u] = IF u = Current THEN NoEvent ELSE wev[u]
  <1>1. wpc[Current] = "ok" /\ phase = "run" /\ Current' = Current
    BY DEF Running, Current
  <1>2. /\ Current \in Task
        /\ wpc \in [Task -> WaitPoints]
        /\ wev \in [Task -> Event \cup {NoEvent}]
        /\ flags[Current] = {}
        /\ \A u \in Task, x \in Event : Has(recv[x], u) <=> Live(u, x)
        /\ \A x \in Event : Distinct(recv[x])
        /\ \A u \in Task : u # Current => wpc[u] \notin {"add", "ok"}
    BY <1>1, CoreFacts
  <1>3. \A u \in Task :
          /\ wpc'[u] = IF u = Current THEN "none" ELSE wpc[u]
          /\ wev'[u] = IF u = Current THEN NoEvent ELSE wev[u]
    BY <1>2
  <1>4. EventTypeOK' /\ WaitShape'
    <2>1. wpc' \in [Task -> WaitPoints]
      BY <1>2 DEF WaitPoints
    <2>2. wev' \in [Task -> Event \cup {NoEvent}]
      BY <1>2
    <2>3. EventTypeOK'
      BY <2>1, <2>2 DEF CoreInv, WaitCore, EventTypeOK
    <2>4. WaitShape'
      BY <1>3 DEF CoreInv, WaitCore, WaitShape, Unlocked
    <2> QED
      BY <2>3, <2>4
  <1>5. ReceptorsAreLive'
    <2>1. \A u \in Task, x \in Event :
            Has(recv'[x], u) <=> wpc'[u] = "check" /\ wev'[u] = x
                                  /\ "error" \notin flags'[u]
      BY <1>1, <1>2, <1>3 DEF Live
    <2>2. \A u \in Task : wpc'[u] # "none" => state'[u] \notin {"NONE", "FINISH"}
      BY <1>3
    <2> QED
      BY <1>2, <2>1, <2>2, ReceptorsHasNext
  <1>6. WalkOnLinked' /\ MarksInLoop' /\ PointsOfCurrent'
    BY <1>1, <1>2, <1>3
       DEF CoreInv, WaitCore, WalkOnLinked, MarksInLoop, PointsOfCurrent, Unlocked,
           LinkedIn
  <1> QED
    BY <1>3, <1>4, <1>5, <1>6 DEF WaitCore

\* No task, no event, no receptor: nothing to keep.
LEMMA CoreInit == EventInit => CoreInv
  <1> SUFFICES ASSUME EventInit PROVE CoreInv
    OBVIOUS
  <1>1. SchedInv
    BY InitSchedInv DEF EventInit
  <1>2. EventTypeOK /\ WaitShape
    BY DEF EventInit, EventTypeOK, WaitShape, WaitPoints, NoWalk, Unlocked
  <1>3. ReceptorsAreLive /\ WalkOnLinked /\ MarksInLoop /\ PointsOfCurrent
    BY DEF EventInit, ReceptorsAreLive, LinkedIn, WalkOnLinked, MarksInLoop,
           PointsOfCurrent, Unlocked, NoWalk
  <1> QED
    BY <1>1, <1>2, <1>3 DEF CoreInv, WaitCore

\* Nothing changes.
LEMMA CoreStutter ==
  ASSUME CoreInv, UNCHANGED vars
  PROVE  CoreInv'
  <1>1. /\ UNCHANGED <<state, ring, waitList, finishList, autoList, autoPoll,
                       fresh, tick, phase>>
        /\ UNCHANGED <<recv, flags, timer, wpc, wev, walk>>
    BY DEF vars, schedVars, eventVars, waitVars
  <1>2. SchedInv'
    BY NextSchedInv, <1>1 DEF CoreInv, schedVars
  <1>3. WaitCore'
    BY <1>1 DEF CoreInv, WaitCore, EventTypeOK, WaitShape, ReceptorsAreLive,
                WalkOnLinked, MarksInLoop, PointsOfCurrent,
                LinkedIn, Unlocked, Current
  <1> QED
    BY <1>2, <1>3 DEF CoreInv

\* A step that leaves the scheduler alone.
LEMMA SchedStays ==
  ASSUME CoreInv, UNCHANGED schedVars
  PROVE  /\ SchedInv'
         /\ Current' = Current
         /\ UNCHANGED <<state, ring, waitList, finishList, autoList, autoPoll,
                        fresh, tick, phase>>
  BY NextSchedInv DEF CoreInv, schedVars, Current

-----------------------------------------------------------------------------
(***************************************************************************)
(* Every step implements a step of the scheduler or a stutter.             *)
(***************************************************************************)

\* The steps of the scheduler proper, taken outside the loops of notifiers.
LEMMA KernelStep == Kernel => [SchedNext]_schedVars
  <1> SUFFICES ASSUME Kernel PROVE [SchedNext]_schedVars
    OBVIOUS
  <1>1. CASE \E t \in Task : AutoClean(t)
    BY <1>1, Zenon DEF AutoClean
  <1>2. CASE \E t \in Task : AutoFree(t)
    BY <1>2, Zenon DEF AutoFree, Undisturbed, SchedNext, Dispatch
  <1>3. CASE \/ Undisturbed(NextPoll) \/ Undisturbed(NextNoPoll)
             \/ Undisturbed(AutoDestructEnd) \/ Undisturbed(PollReturn)
             \/ Undisturbed(EnterIdle) \/ Undisturbed(IdleReturn)
             \/ Undisturbed(Switch)
    BY <1>3, Zenon DEF Undisturbed, SchedNext, Dispatch
  <1> QED
    BY <1>1, <1>2, <1>3, Zenon DEF Kernel

\* What goes on in a call that waits or finishes a task: a wait that sleeps
\* blocks, a join that has returned frees the joined task, and the rest does
\* not touch the scheduler.
LEMMA ProceedStep ==
  ASSUME SchedTypeOK, EventShape, Proceed
  PROVE  [SchedNext]_schedVars
  <1>1. CASE AddReceptor \/ EventWaitDone \/ EventWaitTimeout
               \/ JoinOk \/ JoinError \/ JoinTimeout
    BY <1>1, Zenon DEF AddReceptor, EventWaitDone, EventWaitTimeout, JoinOk,
                       JoinError, JoinTimeout, WaitReturn
  <1>2. CASE EventWaitSleep \/ JoinSleep
    BY <1>2, Zenon DEF EventWaitSleep, JoinSleep, WaitSleep, SchedNext
  <1>3. CASE JoinDestroy
    <2>1. wev[Current] \in Task
      BY <1>3, CurrentTask DEF JoinDestroy, Running, EventShape
    <2> QED
      BY <1>3, <2>1, Zenon DEF JoinDestroy, SchedNext
  <1>4. CASE FinishNotify
    BY <1>4, Zenon DEF FinishNotify, SchedNext
  <1> QED
    BY <1>1, <1>2, <1>3, <1>4, Zenon DEF Proceed

\* The loop of a notifier wakes one task up in each round.
LEMMA WalkStepStep ==
  ASSUME CoreInv, WalkStep
  PROVE  [SchedNext]_schedVars
  <1>2. Head(walk.rest) \in Task
    BY WalkEffect
  <1> QED
    BY <1>2, TaskWakeUpStep, Zenon DEF WalkStep

\* Every step of tasks, interrupts and notifiers.
LEMMA EventNextStep ==
  ASSUME CoreInv, EventShape, [EventNext]_vars
  PROVE  [SchedNext]_schedVars
  <1>1. CASE UNCHANGED vars
    BY <1>1, Zenon DEF vars, schedVars
  <1>2. CASE \E e \in UserEvent :
                Notify(e) \/ NotifyAndReorder(e, 1) \/ Clean(e)
    BY <1>2, Zenon DEF Notify, NotifyAndReorder, Clean
  <1>3. CASE WalkStep
    BY <1>3, WalkStepStep
  <1>4. CASE \/ \E e \in UserEvent, timed \in BOOLEAN : EventWait(e, timed)
             \/ \E t \in Task, timed \in BOOLEAN : JoinWait(t, timed)
             \/ \E t \in Task : JoinAtOnce(t)
    BY <1>4, Zenon DEF EventWait, JoinWait, JoinAtOnce, WaitBegin
  <1>5. ASSUME NEW t \in Task, TimerFire(t)
        PROVE  [SchedNext]_schedVars
    BY <1>5, TaskWakeUpStep, Zenon DEF TimerFire
  <1>6. CASE (\E t \in Task : Create(t)) \/ Yield \/ Finish
    BY <1>6, Zenon DEF Create, Undisturbed, Yield, Finish, SchedNext
  <1>7. CASE Proceed
    BY <1>7, ProceedStep DEF CoreInv, SchedInv
  <1>8. CASE Kernel
    BY <1>8, KernelStep
  <1> QED
    BY <1>1, <1>2, <1>3, <1>4, <1>5, <1>6, <1>7, <1>8, Zenon DEF EventNext


\* What goes on under every use of waits: notifiers, timers, the scheduler and
\* the ends of tasks.
Underlying ==
  \/ WalkStep
  \/ \E t \in Task : TimerFire(t)
  \/ \E t \in Task : Create(t)
  \/ Yield
  \/ Finish
  \/ FinishNotify
  \/ Kernel

LEMMA UnderlyingKinds ==
  ASSUME Underlying
  PROVE  \/ CalmStep \/ WalkStep \/ FinishNotify
         \/ \E t \in Task : TimerFire(t) \/ AutoClean(t)
  BY Zenon DEF Underlying, Kernel, CalmStep

LEMMA CoreUnderlying ==
  ASSUME CoreInv, Underlying
  PROVE  CoreInv'
  <1>1. CASE CalmStep
    <2>1. [SchedNext]_schedVars
      <3>1. CASE (\E t \in Task : Create(t)) \/ Yield \/ Finish
        BY <3>1, Zenon DEF Create, Undisturbed, Yield, Finish, SchedNext
      <3>2. CASE Kernel
        BY <3>2, KernelStep
      <3> QED
        BY <1>1, <3>1, <3>2, Zenon DEF CalmStep, Kernel
    <2> QED
      BY <1>1, <2>1, CoreCalm, NextSchedInv DEF CoreInv
  <1>2. CASE WalkStep
    BY <1>2, WalkStepStep, CoreWalkStep, NextSchedInv DEF CoreInv
  <1>3. CASE FinishNotify
    <2>1. /\ UNCHANGED <<state, ring, waitVars>> /\ phase = "finish"
          /\ StartWalk("notify", Current, recv[Current])
          /\ [SchedNext]_schedVars
      BY <1>3, Zenon DEF FinishNotify, TaskFinishNext, SchedNext
    <2>2. Current \in Event
      BY CoreFacts DEF Event
    <2> QED
      BY <2>1, <2>2, CoreNotify, NextSchedInv DEF CoreInv
  <1>4. ASSUME NEW t \in Task, TimerFire(t)
        PROVE  CoreInv'
    <2>1. [SchedNext]_schedVars
      BY <1>4, TaskWakeUpStep, Zenon DEF TimerFire
    <2> QED
      BY <1>4, <2>1, CoreTimerFire, NextSchedInv DEF CoreInv
  <1>5. ASSUME NEW t \in Task, AutoClean(t)
        PROVE  CoreInv'
    <2>1. /\ UNCHANGED <<schedVars, waitVars>>
          /\ StartWalk("clean", t, recv[t])
      BY <1>5 DEF AutoClean
    <2>2. UNCHANGED <<state, ring, phase>> /\ t \in Event
      BY <2>1 DEF schedVars, Event
    <2> QED
      BY <2>1, <2>2, CoreNotify, NextSchedInv DEF CoreInv
  <1> QED
    BY <1>1, <1>2, <1>3, <1>4, <1>5, UnderlyingKinds


-----------------------------------------------------------------------------
(***************************************************************************)
(* What a semaphore and a mutex need of the waits for their event: with n  *)
(* grants to give (tokens, or the mutex itself) the last n receptors of    *)
(* the list belong to tasks that are awake, or that a notifier's loop is   *)
(* about to wake up; and the event of an object that has been destroyed    *)
(* has no receptors, but for those the cleaning loop has not reached.      *)
(***************************************************************************)

Awake(t) == state[t] # "WAIT" \/ InWalk(t)

Covered(e, n) ==
  \A i \in 1 .. Len(recv[e]) : i + n > Len(recv[e]) => Awake(recv[e][i])

Gone(e) == recv[e] = <<>> \/ (walk.op = "clean" /\ walk.ev = e)

\* Outside critical sections no loop is under way.
LEMMA UnlockedWalk ==
  ASSUME CoreInv, Unlocked
  PROVE  walk.op = "none" /\ \A u : ~InWalk(u)
  BY DEF CoreInv, WaitCore, WaitShape, Unlocked, NoWalk, InWalk

\* Tasks that stay awake keep the receptors that stay where they are covered.
LEMMA CoveredStays ==
  ASSUME CoreInv, NEW e \in Event, NEW n \in Nat, Covered(e, n),
         recv'[e] = recv[e],
         \A u \in Task : Has(recv[e], u) /\ Awake(u) => Awake(u)'
  PROVE  Covered(e, n)'
  <1>1. recv[e] \in Seq(Task)
    BY CoreFacts
  <1>2. ASSUME NEW i \in 1 .. Len(recv[e]), i + n > Len(recv[e])
        PROVE  /\ recv[e][i] \in Task /\ Has(recv[e], recv[e][i])
               /\ Awake(recv[e][i])
    <2>1. recv[e][i] \in Task
      BY <1>1
    <2>2. Has(recv[e], recv[e][i])
      BY DEF Has
    <2>3. Awake(recv[e][i])
      BY <1>2 DEF Covered
    <2> QED
      BY <2>1, <2>2, <2>3
  <1>3. ASSUME NEW i \in 1 .. Len(recv[e]), i + n > Len(recv[e])
        PROVE  state'[recv[e][i]] # "WAIT"
                 \/ \E j \in 1 .. Len(walk'.rest) : walk'.rest[j] = recv[e][i]
    BY <1>2, <1>3 DEF Awake, InWalk
  <1> QED
    BY <1>3 DEF Covered, Awake, InWalk

\* The same when no task falls asleep outside critical sections.
LEMMA CoveredUnlocked ==
  ASSUME CoreInv, Unlocked, NEW e \in Event, NEW n \in Nat, Covered(e, n),
         recv'[e] = recv[e],
         \A u \in Task : Has(recv[e], u) /\ state'[u] = "WAIT" => state[u] = "WAIT"
  PROVE  Covered(e, n)'
  <1>1. \A u \in Task : Has(recv[e], u) /\ Awake(u) => Awake(u)'
    BY UnlockedWalk DEF Awake
  <1> QED
    BY <1>1, CoveredStays

\* With nothing to give nothing is asked.
LEMMA CoveredNone ==
  ASSUME CoreInv, NEW e \in Event
  PROVE  Covered(e, 0)
  <1>1. Len(recv[e]) \in Nat
    BY CoreFacts
  <1> QED
    BY <1>1 DEF Covered

LEMMA CoveredNoneNext ==
  ASSUME NEW e \in Event, recv' \in [Event -> Seq(Task)]
  PROVE  Covered(e, 0)'
  <1>1. Len(recv'[e]) \in Nat
    OBVIOUS
  <1> QED
    BY <1>1 DEF Covered

\* A round of a notifier's loop: its receptor's task is awake now, the others
\* are still ahead; a receptor that is cleaned is the first of the list.
LEMMA CoveredWalkStep ==
  ASSUME CoreInv, WalkStep, NEW e \in Event, NEW n \in Nat, Covered(e, n)
  PROVE  Covered(e, n)'
  <1> DEFINE t == Head(walk.rest)
  <1>1. /\ t \in Task
        /\ \A u \in Task : state'[u] = IF u = t /\ state[t] = "WAIT" THEN "READY"
                                                                    ELSE state[u]
        /\ \A x \in Event : recv'[x] = IF walk.op = "clean" /\ x = walk.ev
                                         THEN Tail(recv[x]) ELSE recv[x]
        /\ walk.op = "clean" => walk.rest = recv[walk.ev]
        /\ walk.rest # <<>>
        /\ walk'.rest = Tail(walk.rest)
        /\ \A u : Has(walk.rest, u) /\ u # t => Has(Tail(walk.rest), u)
    BY WalkEffect
  <1> HIDE DEF t
  <1>2. ASSUME NEW u \in Task, Awake(u)
        PROVE  Awake(u)'
    <2>1. InWalk(u) <=> Has(walk.rest, u)
      BY DEF InWalk, Has
    <2>2. InWalk(u)' <=> Has(walk'.rest, u)
      BY DEF InWalk, Has
    <2> QED
      BY <1>1, <1>2, <2>1, <2>2 DEF Awake
  <1>3. CASE walk.op = "clean" /\ e = walk.ev
    <2> DEFINE q == recv[e]
    <2>1. q \in Seq(Task) /\ q # <<>> /\ recv'[e] = Tail(q)
      BY <1>1, <1>3, CoreFacts
    <2>2. \A i \in 1 .. Len(q) : i + n > Len(q) => Awake(q[i])
      BY DEF Covered
    <2> HIDE DEF q
    <2>3. /\ Len(Tail(q)) = Len(q) - 1 /\ Len(q) \in Nat
          /\ \A i \in 1 .. Len(q) - 1 : Tail(q)[i] = q[i + 1]
      BY <2>1
    <2>4. ASSUME NEW i \in 1 .. Len(recv'[e]), i + n > Len(recv'[e])
          PROVE  q[i + 1] \in Task /\ Awake(q[i + 1]) /\ recv'[e][i] = q[i + 1]
      <3>1. i + 1 \in 1 .. Len(q) /\ (i + 1) + n > Len(q)
        BY <2>1, <2>3, <2>4
      <3> QED
        BY <2>1, <2>2, <2>3, <2>4, <3>1
    <2>5. ASSUME NEW i \in 1 .. Len(recv'[e]), i + n > Len(recv'[e])
          PROVE  state'[recv'[e][i]] # "WAIT"
                   \/ \E j \in 1 .. Len(walk'.rest) : walk'.rest[j] = recv'[e][i]
      BY <1>2, <2>4, <2>5 DEF Awake, InWalk
    <2> QED
      BY <2>5 DEF Covered, Awake, InWalk
  <1>4. CASE ~(walk.op = "clean" /\ e = walk.ev)
    BY <1>1, <1>2, <1>4, CoveredStays
  <1> QED
    BY <1>3, <1>4

\* What goes on under every use of waits keeps the last receptors covered.
LEMMA CoveredUnderlying ==
  ASSUME CoreInv, Underlying, NEW e \in Event, NEW n \in Nat, Covered(e, n)
  PROVE  Covered(e, n)'
  <1>1. CASE CalmStep
    <2>1. /\ UNCHANGED <<recv, walk>>
          /\ \A u \in Task : state'[u] = "WAIT" => state[u] = "WAIT"
          /\ Unlocked
      BY <1>1, CalmStepEffect DEF CalmEffect, eventVars, waitVars
    <2> QED
      BY <2>1, CoveredUnlocked
  <1>2. CASE WalkStep
    BY <1>2, CoveredWalkStep
  <1>3. CASE FinishNotify
    <2>1. UNCHANGED <<state, recv>> /\ Unlocked
      BY <1>3 DEF FinishNotify, TaskFinishNext, waitVars
    <2> QED
      BY <2>1, CoveredUnlocked
  <1>4. ASSUME NEW t \in Task, TimerFire(t)
        PROVE  Covered(e, n)'
    <2>1. /\ UNCHANGED recv /\ Unlocked
          /\ \A u \in Task : state'[u] = "WAIT" => state[u] = "WAIT"
      BY <1>4, CoreTimerFire DEF TimerFire
    <2> QED
      BY <2>1, CoveredUnlocked
  <1>5. ASSUME NEW t \in Task, AutoClean(t)
        PROVE  Covered(e, n)'
    <2>1. UNCHANGED <<state, recv>> /\ Unlocked
      BY <1>5 DEF AutoClean, schedVars, waitVars
    <2> QED
      BY <2>1, CoveredUnlocked
  <1> QED
    BY <1>1, <1>2, <1>3, <1>4, <1>5, UnderlyingKinds

\* What it does to the waits: it leaves them where they are.
LEMMA UnderlyingEffect ==
  ASSUME CoreInv, Underlying
  PROVE  /\ UNCHANGED <<wpc, wev>>
         /\ \A e \in Event : Gone(e) => Gone(e)'
  <1>1. CASE Unlocked /\ UNCHANGED <<recv, wpc, wev>>
    BY <1>1, UnlockedWalk DEF Gone
  <1>2. CASE WalkStep
    <2>1. /\ walk.op \in {"notify", "clean"}
          /\ \A x \in Event : recv'[x] = IF walk.op = "clean" /\ x = walk.ev
                                           THEN Tail(recv[x]) ELSE recv[x]
          /\ walk.op = "clean" => walk.rest = recv[walk.ev]
          /\ walk' = IF Tail(walk.rest) = <<>> THEN NoWalk
                     ELSE [op |-> walk.op, ev |-> walk.ev, rest |-> Tail(walk.rest)]
          /\ UNCHANGED <<wpc, wev>>
      BY <1>2, WalkEffect
    <2> QED
      BY <2>1 DEF Gone
  <1>3. CASE CalmStep
    <2>1. UNCHANGED <<recv, wpc, wev>> /\ Unlocked
      BY <1>3, CalmStepEffect DEF CalmEffect, eventVars, waitVars
    <2> QED
      BY <1>1, <2>1
  <1>4. CASE FinishNotify \/ \E t \in Task : TimerFire(t) \/ AutoClean(t)
    <2>1. UNCHANGED <<recv, wpc, wev>> /\ Unlocked
      BY <1>4 DEF FinishNotify, TimerFire, AutoClean, waitVars
    <2> QED
      BY <1>1, <2>1
  <1> QED
    BY <1>2, <1>3, <1>4, UnderlyingKinds

\* The first receptor is notified and goes behind the others: one grant more.
LEMMA CoveredReorder ==
  ASSUME CoreInv, NEW x \in Event, NotifyAndReorder(x, 1)
  PROVE  \A e \in Event, n \in Nat : Covered(e, n) =>
           Covered(e, IF e = x THEN n + 1 ELSE n)'
  <1> SUFFICES ASSUME NEW e \in Event, NEW n \in Nat, Covered(e, n)
               PROVE  Covered(e, IF e = x THEN n + 1 ELSE n)'
    OBVIOUS
  <1> DEFINE q == recv[x]
             k == IF 1 < Len(q) THEN 1 ELSE Len(q)
  <1>1. /\ q \in Seq(Task) /\ q # <<>>
        /\ \A y \in Event : y # x => recv'[y] = recv[y]
        /\ Len(recv'[x]) = Len(q)
        /\ \A i \in 1 .. Len(q) :
             recv'[x][i] = IF i <= Len(q) - k THEN q[i + k]
                                              ELSE q[i - (Len(q) - k)]
        /\ StartWalk("notify", x, SubSeq(q, 1, k))
        /\ UNCHANGED state
    BY ReorderEffect
  <1>2. Unlocked
    BY DEF NotifyAndReorder
  <1>3. CASE e # x
    BY <1>1, <1>2, <1>3, CoveredUnlocked
  <1>4. CASE e = x
    <2>1. \A i \in 1 .. Len(q) : i + n > Len(q) => state[q[i]] # "WAIT"
      BY <1>2, <1>4, UnlockedWalk DEF Covered, Awake
    <2>2. Len(q) \in Nat /\ Len(q) >= 1 /\ k = 1
      <3>1. q \in Seq(Task) /\ q # <<>>
        BY <1>1
      <3>2. Len(q) \in Nat /\ Len(q) >= 1
        BY <3>1
      <3>3. \A j \in Nat : j >= 1 => (IF 1 < j THEN 1 ELSE j) = 1
        OBVIOUS
      <3> QED
        BY <3>2, <3>3, Zenon
    <2> HIDE DEF q, k
    <2>3. Len(walk'.rest) = 1 /\ walk'.rest[1] = q[1]
      <3> DEFINE w == SubSeq(q, 1, 1)
      <3>1. q \in Seq(Task)
        BY <1>1
      <3>2. Len(w) = 1 /\ w[1] = q[1] /\ w \in Seq(Task)
        BY <2>2, <3>1
      <3>3. StartWalk("notify", x, w)
        BY <1>1, <2>2
      <3> HIDE DEF w
      <3>4. w # <<>>
        BY <3>2
      <3> QED
        BY <3>2, <3>3, <3>4 DEF StartWalk
    <2>4. ASSUME NEW i \in 1 .. Len(recv'[x]), i + (n + 1) > Len(recv'[x])
          PROVE  state'[recv'[x][i]] # "WAIT"
                   \/ \E j \in 1 .. Len(walk'.rest) : walk'.rest[j] = recv'[x][i]
      <3>1. CASE i = Len(q)
        <4>1. recv'[x][i] = q[1]
          BY <1>1, <2>2, <3>1
        <4>2. 1 \in 1 .. Len(walk'.rest) /\ walk'.rest[1] = q[1]
          BY <2>3
        <4> QED
          BY <4>1, <4>2
      <3>2. CASE i # Len(q)
        <4>1. i + 1 \in 1 .. Len(q) /\ (i + 1) + n > Len(q) /\ i <= Len(q) - k
          BY <1>1, <2>2, <2>4, <3>2
        <4>2. recv'[x][i] = q[i + 1]
          BY <1>1, <2>2, <4>1
        <4> QED
          BY <1>1, <2>1, <4>1, <4>2
      <3> QED
        BY <3>1, <3>2
    <2> QED
      BY <1>4, <2>4 DEF Covered, Awake, InWalk
  <1> QED
    BY <1>3, <1>4

\* Where the receptors are after one of them has been unlinked.
LEMMA UnlinkElements ==
  ASSUME NEW q \in Seq(Task), NEW t \in Task, Has(q, t)
  PROVE  LET r == Unlink(q, t)
         IN  /\ r \in Seq(Task) /\ Len(r) = Len(q) - 1 /\ Len(q) \in Nat
             /\ \A i \in 1 .. Len(r) : r[i] = q[i] \/ r[i] = q[i + 1]
             /\ \E k \in 1 .. Len(q) : \A i \in 1 .. Len(r) :
                  r[i] = IF i < k THEN q[i] ELSE q[i + 1]
  <1>1. PICK k \in 1 .. Len(q) : q[k] = t /\ Unlink(q, t) = RemoveAt(q, k)
    BY Zenon DEF Unlink, Has
  <1> DEFINE x == SubSeq(q, 1, k - 1)
             y == SubSeq(q, k + 1, Len(q))
  <1>2. Len(q) \in Nat /\ k \in 1 .. Len(q)
    OBVIOUS
  <1>3. /\ x \in Seq(Task) /\ y \in Seq(Task)
        /\ Len(x) = k - 1 /\ Len(y) = Len(q) - k
        /\ \A i \in 1 .. k - 1 : x[i] = q[i]
        /\ \A i \in 1 .. Len(q) - k : y[i] = q[i + k]
    BY <1>2
  <1>4. Unlink(q, t) = x \o y
    BY <1>1 DEF RemoveAt
  <1> HIDE DEF x, y
  <1>5. /\ x \o y \in Seq(Task) /\ Len(x \o y) = Len(x) + Len(y)
        /\ \A i \in 1 .. Len(x) + Len(y) :
             (x \o y)[i] = IF i <= Len(x) THEN x[i] ELSE y[i - Len(x)]
    BY <1>3, ConcatElements
  <1>6. Len(x) + Len(y) = Len(q) - 1
    BY <1>2, <1>3
  <1>7. ASSUME NEW i \in 1 .. Len(q) - 1
        PROVE  (x \o y)[i] = IF i < k THEN q[i] ELSE q[i + 1]
    <2>1. CASE i < k
      <3>1. i \in 1 .. k - 1 /\ i <= Len(x) /\ i \in 1 .. Len(x) + Len(y)
        BY <1>2, <1>3, <1>6, <2>1
      <3> QED
        BY <1>3, <1>5, <2>1, <3>1
    <2>2. CASE ~(i < k)
      <3>1. /\ i - (k - 1) \in 1 .. Len(q) - k /\ ~(i <= Len(x))
            /\ i - Len(x) = i - (k - 1) /\ i \in 1 .. Len(x) + Len(y)
            /\ (i - (k - 1)) + k = i + 1
        BY <1>2, <1>3, <1>6, <2>2
      <3> QED
        BY <1>3, <1>5, <2>2, <3>1
    <2> QED
      BY <2>1, <2>2
  <1> QED
    BY <1>2, <1>4, <1>5, <1>6, <1>7

\* The running task, which is awake, links its receptor.
LEMMA CoveredAdd ==
  ASSUME CoreInv, AddReceptor, NEW e \in Event, NEW n \in Nat, Covered(e, n)
  PROVE  Covered(e, n)'
  <1>1. /\ Unlocked /\ UNCHANGED <<state, walk>>
        /\ wev[Current] \in Event
        /\ \A x \in Event : recv'[x] = IF x = wev[Current]
                                         THEN Append(recv[x], Current)
                                         ELSE recv[x]
    BY CoreAddReceptor DEF AddReceptor, Running, schedVars
  <1>2. CASE e # wev[Current]
    BY <1>1, <1>2, CoveredUnlocked
  <1>3. CASE e = wev[Current]
    <2> DEFINE q == recv[e]
    <2>1. /\ q \in Seq(Task) /\ Current \in Task /\ state[Current] # "WAIT"
          /\ recv'[e] = Append(q, Current)
      BY <1>1, <1>3, CoreFacts DEF AddReceptor, Running
    <2>2. \A i \in 1 .. Len(q) : i + n > Len(q) => state[q[i]] # "WAIT"
      BY <1>1, UnlockedWalk DEF Covered, Awake
    <2> HIDE DEF q
    <2>3. /\ Len(Append(q, Current)) = Len(q) + 1 /\ Len(q) \in Nat
          /\ Append(q, Current)[Len(q) + 1] = Current
          /\ \A i \in 1 .. Len(q) : Append(q, Current)[i] = q[i]
      BY <2>1
    <2>4. ASSUME NEW i \in 1 .. Len(recv'[e]), i + n > Len(recv'[e])
          PROVE  state'[recv'[e][i]] # "WAIT"
      <3>1. CASE i = Len(q) + 1
        BY <1>1, <2>1, <2>3, <3>1
      <3>2. CASE i # Len(q) + 1
        <4>1. i \in 1 .. Len(q) /\ i + n > Len(q)
          BY <2>1, <2>3, <2>4, <3>2
        <4> QED
          BY <1>1, <2>1, <2>2, <2>3, <4>1
      <3> QED
        BY <3>1, <3>2
    <2> QED
      BY <2>4 DEF Covered, Awake, InWalk
  <1> QED
    BY <1>2, <1>3

\* A wait leaves its loop.  An error has unlinked its receptor before; if it is
\* still linked there is a grant less to cover: the task takes it, or found
\* that there was none.
LEMMA CoveredLeave ==
  ASSUME CoreInv, Running("check"),
         recv' = [recv EXCEPT ![wev[Current]] = Unlink(@, Current)],
         UNCHANGED state, NEW e \in Event, NEW n \in Nat, Covered(e, n)
  PROVE  /\ (e # wev[Current] \/ "error" \in flags[Current]) => Covered(e, n)'
         /\ n > 0 => Covered(e, n - 1)'
  <1>1. /\ Unlocked /\ Current \in Task
        /\ recv' \in [Event -> Seq(Task)]
        /\ \A x \in Event : recv'[x] = IF x = wev[Current]
                                         THEN Unlink(recv[x], Current)
                                         ELSE recv[x]
    BY LeaveEffect DEF Running
  <1>2. recv[e] \in Seq(Task) /\ Len(recv[e]) \in Nat
    BY CoreFacts
  <1>3. ASSUME recv'[e] = recv[e]
        PROVE  Covered(e, n)' /\ (n > 0 => Covered(e, n - 1)')
    <2>1. Covered(e, n)'
      BY <1>1, <1>3, CoveredUnlocked
    <2>2. ASSUME n > 0
          PROVE  Covered(e, n - 1)
      BY <1>2, <2>2 DEF Covered
    <2>3. ASSUME n > 0
          PROVE  Covered(e, n - 1)'
      <3>1. n - 1 \in Nat
        BY <2>3
      <3> QED
        BY <1>1, <1>3, <2>2, <2>3, <3>1, CoveredUnlocked
    <2> QED
      BY <2>1, <2>3
  <1>4. CASE ~Has(recv[e], Current) \/ e # wev[Current]
    <2>1. recv'[e] = recv[e]
      BY <1>1, <1>4, Zenon DEF Unlink, Has
    <2> QED
      BY <1>3, <2>1
  <1>5. CASE Has(recv[e], Current) /\ e = wev[Current]
    <2>1. "error" \notin flags[Current]
      BY <1>1, <1>5, CoreFacts DEF Live
    <2> DEFINE q == recv[e]
               r == Unlink(recv[e], Current)
    <2>2. /\ Len(r) = Len(q) - 1 /\ Len(q) \in Nat
          /\ \E k \in 1 .. Len(q) : \A i \in 1 .. Len(r) :
               r[i] = IF i < k THEN q[i] ELSE q[i + 1]
      BY <1>1, <1>2, <1>5, UnlinkElements, ZenonT(40)
    <2>3. PICK k \in 1 .. Len(q) : \A i \in 1 .. Len(r) :
                 r[i] = IF i < k THEN q[i] ELSE q[i + 1]
      BY <2>2
    <2>4. recv'[e] = r
      BY <1>1, <1>5
    <2>5. \A i \in 1 .. Len(q) : i + n > Len(q) => state[q[i]] # "WAIT"
      BY <1>1, UnlockedWalk DEF Covered, Awake
    <2> HIDE DEF q, r
    <2>6. ASSUME n > 0, NEW i \in 1 .. Len(r), i + (n - 1) > Len(r)
          PROVE  state[r[i]] # "WAIT"
      <3>1. /\ i \in 1 .. Len(q) /\ i + 1 \in 1 .. Len(q)
            /\ i + n > Len(q) /\ (i + 1) + n > Len(q)
        BY <2>2, <2>6
      <3>2. r[i] = q[i] \/ r[i] = q[i + 1]
        BY <2>3
      <3> QED
        BY <2>5, <3>1, <3>2
    <2>7. n > 0 => Covered(e, n - 1)'
      BY <2>4, <2>6 DEF Covered, Awake
    <2> QED
      BY <1>5, <2>1, <2>7
  <1> QED
    BY <1>3, <1>4, <1>5

\* The running task goes to sleep: only in the list of its own event.
LEMMA CoveredSleep ==
  ASSUME CoreInv, Running("check"), WaitSleep, NEW e \in Event, NEW n \in Nat,
         Covered(e, n), e = wev[Current] => n = 0
  PROVE  Covered(e, n)'
  <1>1. /\ Unlocked /\ UNCHANGED <<recv, wpc, wev, walk>>
        /\ \A u \in Task : state'[u] = IF u = Current THEN "WAIT" ELSE state[u]
    BY CoreSleep DEF Running, WaitSleep, eventVars, waitVars
  <1>2. CASE e = wev[Current]
    <2>1. recv' \in [Event -> Seq(Task)] /\ n = 0
      BY <1>1, <1>2, CoreFacts
    <2> QED
      BY <2>1, CoveredNoneNext
  <1>3. CASE e # wev[Current]
    <2>1. ~Has(recv[e], Current)
      BY <1>3, CoreFacts DEF Live
    <2>2. \A u \in Task : Has(recv[e], u) /\ state'[u] = "WAIT" => state[u] = "WAIT"
      BY <1>1, <2>1
    <2> QED
      BY <1>1, <2>2, CoveredUnlocked
  <1> QED
    BY <1>2, <1>3

\* A wait that has not been told of the end of its object refers to one that
\* still exists.
LEMMA GoneIsToldOf ==
  ASSUME CoreInv, NEW t \in Task, wpc[t] = "check", "error" \notin flags[t],
         Gone(wev[t])
  PROVE  InWalk(t)
  <1>1. wev[t] \in Event /\ Has(recv[wev[t]], t)
    BY CoreFacts DEF Live
  <1>2. recv[wev[t]] # <<>>
    BY <1>1 DEF Has
  <1>3. walk.op = "clean" /\ walk.ev = wev[t]
    BY <1>2 DEF Gone
  <1>4. walk.rest = recv[wev[t]]
    BY <1>3 DEF CoreInv, WaitCore, WalkOnLinked, Unlocked
  <1> QED
    BY <1>1, <1>4 DEF Has, InWalk
-----------------------------------------------------------------------------
(***************************************************************************)
(* The invariant of events and joins: the core, and what joins add to it.  *)
(***************************************************************************)

JoinInv ==
  /\ \A t \in Task : wpc[t] = "ok" => wev[t] \in Task
  /\ CleanedBeforeFree
  /\ NoLostWakeup
  /\ JoinedIsAllocated
  /\ DestroysOnce

LEMMA EventIInvParts == EventIInv <=> CoreInv /\ JoinInv
  BY DEF EventIInv, EventInv, EventShape, CoreInv, WaitCore, WaitShape, JoinInv

\* No wake-up is lost in the next state, its sleepers taken one by one.
LEMMA NoLostWakeupNext ==
  ASSUME \A u \in Task : (wpc'[u] = "check" /\ state'[u] = "WAIT") =>
           /\ ~(Marked(u)' \/ timer'[u] = "fired")
           /\ (wev'[u] \in Task /\ state'[wev'[u]] = "FINISH") =>
                \/ phase' = "finish" /\ wev'[u] = Current'
                \/ InWalk(u)'
  PROVE  NoLostWakeup'
  BY Zenon DEF NoLostWakeup, Finished

\* What it says of a sleeper while no notifier is in its loop.
LEMMA UnlockedSleeper ==
  ASSUME CoreInv, JoinInv, Unlocked, NEW u \in Task, wpc[u] = "check",
         state[u] = "WAIT"
  PROVE  /\ ~InWalk(u)
         /\ ~Marked(u) /\ timer[u] # "fired"
         /\ (wev[u] \in Task /\ Finished(wev[u])) =>
              phase = "finish" /\ wev[u] = Current
  <1>1. ~InWalk(u)
    BY DEF CoreInv, WaitCore, WaitShape, NoWalk, InWalk
  <1> QED
    BY <1>1, Zenon DEF JoinInv, NoLostWakeup

\* A step that leaves the waits alone keeps the invariant if it puts none to
\* sleep that would return, finishes none but the current task, and frees none
\* that is joined.
LEMMA JoinSchedOnly ==
  ASSUME CoreInv, JoinInv, UNCHANGED eventVars,
         \A t \in Task : (wpc[t] = "check" /\ state'[t] = "WAIT") =>
           \/ state[t] = "WAIT"
           \/ /\ ~Marked(t) /\ timer[t] # "fired"
              /\ ~(wev[t] \in Task /\ Finished(wev[t])),
         \A t \in Task : wpc[t] = "ok" => t = Current',
         \A t \in Task : state'[t] = "FINISH" =>
           state[t] = "FINISH" \/ (phase' = "finish" /\ t = Current'),
         \A t \in Task : (Reaching(t) /\ "error" \notin flags[t])
                          => state'[wev[t]] # "NONE",
         \A t \in Task : wpc[t] = "ok" => wev[t] \in finishList' \cup autoList',
         phase = "finish" => phase' = "finish" /\ Current' = Current
  PROVE  JoinInv'
  <1>1. UNCHANGED <<recv, flags, timer, wpc, wev, walk>>
    BY DEF eventVars, waitVars
  <1>2. NoLostWakeup'
    <2> SUFFICES ASSUME NEW t \in Task, wpc[t] = "check", state'[t] = "WAIT"
                 PROVE  /\ ~(Marked(t) \/ timer[t] = "fired")
                        /\ (wev[t] \in Task /\ state'[wev[t]] = "FINISH") =>
                             \/ phase' = "finish" /\ wev[t] = Current'
                             \/ InWalk(t)
      BY <1>1, Zenon DEF NoLostWakeup, Marked, InWalk, Finished
    <2>1. CASE state[t] = "WAIT"
      <3>1. /\ ~(Marked(t) \/ timer[t] = "fired")
            /\ (wev[t] \in Task /\ Finished(wev[t])) =>
                 \/ phase = "finish" /\ wev[t] = Current
                 \/ InWalk(t)
        BY <2>1, Zenon DEF JoinInv, NoLostWakeup
      <3> QED
        BY <3>1, Zenon DEF Finished
    <2>2. CASE /\ ~Marked(t) /\ timer[t] # "fired"
               /\ ~(wev[t] \in Task /\ Finished(wev[t]))
      BY <2>2, Zenon DEF Finished
    <2> QED
      BY <2>1, <2>2
  <1>3. JoinedIsAllocated' /\ DestroysOnce' /\ CleanedBeforeFree'
    BY <1>1, Zenon DEF JoinInv, JoinedIsAllocated, DestroysOnce, Reaching,
                       CleanedBeforeFree
  <1>4. \A t \in Task : wpc'[t] = "ok" => wev'[t] \in Task
    BY <1>1 DEF JoinInv
  <1> QED
    BY <1>2, <1>3, <1>4 DEF JoinInv

\* The steps of the scheduler: the poll task frees a task whose event nobody
\* waits for any more, a task finishes outside waits and its joiners are
\* notified afterwards, a new task is nobody's yet.
LEMMA JoinCalm ==
  ASSUME CoreInv, JoinInv, CalmStep
  PROVE  JoinInv'
  <1>1. CalmEffect
    BY CalmStepEffect
  <1>2. ASSUME NEW t \in Task, Reaching(t), "error" \notin flags[t]
        PROVE  state'[wev[t]] # "NONE"
    <2>1. wev[t] \in Task /\ state[wev[t]] # "NONE"
      BY <1>2 DEF JoinInv, JoinedIsAllocated, Reaching
    <2>2. CASE wpc[t] \in {"add", "ok"}
      BY <1>1, <2>1, <2>2 DEF CalmEffect
    <2>3. CASE wpc[t] = "check"
      <3>1. Has(recv[wev[t]], t)
        BY <1>2, <2>1, <2>3, CoreFacts DEF Live, Event
      <3>2. recv[wev[t]] # <<>>
        BY <3>1 DEF Has
      <3> QED
        BY <1>1, <2>1, <3>2 DEF CalmEffect
    <2> QED
      BY <1>2, <2>2, <2>3 DEF Reaching
  <1>3. \A t \in Task : wpc[t] = "ok" =>
          t = Current' /\ wev[t] \in finishList' \cup autoList'
    BY <1>1 DEF CalmEffect, JoinInv, DestroysOnce
  <1> QED
    BY <1>1, <1>2, <1>3, JoinSchedOnly DEF CalmEffect

\* A wait sleeps only if nothing would make it return.
LEMMA JoinSleepInv ==
  ASSUME CoreInv, JoinInv, EventWaitSleep \/ JoinSleep
  PROVE  JoinInv'
  <1>1. /\ Running("check") /\ WaitSleep
        /\ ~Marked(Current) /\ timer[Current] # "fired"
        /\ ~(wev[Current] \in Task /\ Finished(wev[Current]))
    BY EventAssumption DEF EventWaitSleep, JoinSleep, CheckSleep, OnUserEvent,
                           OnTaskEvent, AnyMark, Marked
  <1>2. /\ UNCHANGED <<ring, finishList, autoList, eventVars>>
        /\ phase = "run" /\ wpc[Current] = "check" /\ Current' = Current
    BY <1>1 DEF WaitSleep, TaskBlock, Running, Current
  <1>3. \A u \in Task : state'[u] = IF u = Current THEN "WAIT" ELSE state[u]
    BY <1>1, CoreSleep
  <1>4. \A u \in Task : wpc[u] \notin {"add", "ok"}
    BY <1>2, NoPoint
  <1>5. \A u \in Task : (Reaching(u) /\ "error" \notin flags[u])
                          => state'[wev[u]] # "NONE"
    BY <1>3 DEF JoinInv, JoinedIsAllocated, Reaching
  <1>6. \A u \in Task :
          /\ state'[u] = "WAIT" => state[u] = "WAIT" \/ u = Current
          /\ state'[u] = "FINISH" => state[u] = "FINISH"
    BY <1>3
  <1> QED
    BY <1>1, <1>2, <1>4, <1>5, <1>6, JoinSchedOnly

\* A notifier's loop starts; the receptors may have changed their places.
LEMMA JoinStart ==
  ASSUME CoreInv, JoinInv, Unlocked, NEW op \in {"notify", "clean"},
         NEW e \in Event, NEW todo \in Seq(Task), StartWalk(op, e, todo),
         UNCHANGED <<state, ring, finishList, autoList, flags, timer, wpc, wev>>,
         \A x \in Event : recv[x] = <<>> => recv'[x] = <<>>,
         \/ phase' = phase
         \/ phase = "finish" /\ e = Current /\ todo = recv[e]
  PROVE  JoinInv'
  <1>1. Current' = Current
    BY DEF Current
  <1>2. CleanedBeforeFree' /\ \A t \in Task : wpc'[t] = "ok" => wev'[t] \in Task
    BY DEF JoinInv, CleanedBeforeFree, Unlocked, Event
  <1>3. NoLostWakeup'
    <2> SUFFICES ASSUME NEW t \in Task, wpc[t] = "check", state[t] = "WAIT"
                 PROVE  /\ ~(Marked(t) \/ timer[t] = "fired")
                        /\ (wev[t] \in Task /\ Finished(wev[t])) =>
                             \/ phase' = "finish" /\ wev[t] = Current
                             \/ InWalk(t)'
      BY <1>1, Zenon DEF NoLostWakeup, Marked, Finished
    <2>1. /\ ~Marked(t) /\ timer[t] # "fired"
          /\ (wev[t] \in Task /\ Finished(wev[t])) =>
               phase = "finish" /\ wev[t] = Current
      BY UnlockedSleeper
    <2>2. ASSUME wev[t] \in Task, Finished(wev[t]), phase' # phase
          PROVE  InWalk(t)'
      <3>1. wev[t] = e /\ todo = recv[e]
        BY <2>1, <2>2
      <3>2. "error" \notin flags[t]
        BY <2>1, <2>2, EventAssumption DEF Marked
      <3>3. Has(todo, t)
        BY <3>1, <3>2, CoreFacts DEF Live
      <3>4. walk'.rest = todo
        BY <3>3 DEF StartWalk, Has
      <3> QED
        BY <3>3, <3>4 DEF InWalk, Has
    <2> QED
      BY <2>1, <2>2
  <1>4. JoinedIsAllocated' /\ DestroysOnce'
    BY <1>1, Zenon DEF JoinInv, JoinedIsAllocated, DestroysOnce, Reaching
  <1> QED
    BY <1>2, <1>3, <1>4 DEF JoinInv

\* The loop of eh_event_notify and eh_event_clean, in any context.
LEMMA JoinNotify ==
  ASSUME CoreInv, JoinInv, NEW e \in Event, NEW op \in {"notify", "clean"},
         Unlocked, StartWalk(op, e, recv[e]),
         UNCHANGED <<state, ring, finishList, autoList, waitVars>>,
         phase' = phase \/ (phase = "finish" /\ e = Current)
  PROVE  JoinInv'
  <1>1. UNCHANGED <<recv, flags, timer, wpc, wev>>
    BY DEF waitVars
  <1>2. recv[e] \in Seq(Task)
    BY CoreFacts
  <1> QED
    BY <1>1, <1>2, JoinStart, Zenon

\* eh_event_notify_and_reorder.
LEMMA JoinReorder ==
  ASSUME CoreInv, JoinInv, NEW e \in Event, NotifyAndReorder(e, 1)
  PROVE  JoinInv'
  <1> DEFINE k    == IF 1 < Len(recv[e]) THEN 1 ELSE Len(recv[e])
             todo == SubSeq(recv[e], 1, k)
  <1>1. /\ recv[e] # <<>> /\ k \in 0 .. Len(recv[e]) /\ recv[e] \in Seq(Task)
        /\ \A x \in Event : x # e => recv'[x] = recv[x]
        /\ StartWalk("notify", e, todo)
        /\ UNCHANGED <<state, ring, phase, flags, timer, wpc, wev>>
    BY ReorderEffect
  <1>2. Unlocked /\ UNCHANGED <<finishList, autoList>>
    BY DEF NotifyAndReorder, schedVars
  <1>3. todo \in Seq(Task)
    BY <1>1
  <1> HIDE DEF todo
  <1> QED
    BY <1>1, <1>2, <1>3, JoinStart

\* The expiry of the timer wakes the task up in the same step.
LEMMA JoinTimerFire ==
  ASSUME CoreInv, JoinInv, NEW t \in Task, TimerFire(t)
  PROVE  JoinInv'
  <1>1. UNCHANGED <<finishList, autoList, phase, recv, flags, wpc, wev, walk>>
    BY DEF TimerFire
  <1>2. /\ Current' = Current
        /\ \A u \in Task :
             state'[u] = IF u = t /\ state[t] = "WAIT" THEN "READY" ELSE state[u]
        /\ \A u \in Task : timer'[u] = IF u = t THEN "fired" ELSE timer[u]
    BY CoreTimerFire
  <1>3. NoLostWakeup'
    <2> SUFFICES ASSUME NEW u \in Task, wpc[u] = "check", state'[u] = "WAIT"
                 PROVE  /\ ~(Marked(u) \/ timer'[u] = "fired")
                        /\ (wev[u] \in Task /\ state'[wev[u]] = "FINISH") =>
                             \/ phase = "finish" /\ wev[u] = Current
                             \/ InWalk(u)
      BY <1>1, <1>2, Zenon DEF NoLostWakeup, Marked, InWalk, Finished
    <2>1. u # t /\ state[u] = "WAIT"
      BY <1>2
    <2>2. /\ ~(Marked(u) \/ timer[u] = "fired")
          /\ (wev[u] \in Task /\ Finished(wev[u])) =>
               \/ phase = "finish" /\ wev[u] = Current
               \/ InWalk(u)
      BY <2>1, Zenon DEF JoinInv, NoLostWakeup
    <2>3. \A w \in Task : state'[w] = "FINISH" => Finished(w)
      BY <1>2 DEF Finished
    <2> QED
      BY <1>2, <2>1, <2>2, <2>3
  <1>4. /\ JoinedIsAllocated' /\ DestroysOnce' /\ CleanedBeforeFree'
        /\ \A u \in Task : wpc'[u] = "ok" => wev'[u] \in Task
    BY <1>1, <1>2 DEF JoinInv, JoinedIsAllocated, DestroysOnce, Reaching,
                      CleanedBeforeFree
  <1> QED
    BY <1>3, <1>4 DEF JoinInv

\* One round of a notifier's loop.
LEMMA JoinWalkStep ==
  ASSUME CoreInv, JoinInv, WalkStep
  PROVE  JoinInv'
  <1> DEFINE rest == walk.rest
             t    == Head(rest)
             e    == walk.ev
  <1>1. /\ t \in Task /\ e \in Event /\ walk.op \in {"notify", "clean"}
        /\ rest # <<>> /\ rest \in Seq(Task)
        /\ walk.op = "clean" => rest = recv[e]
        /\ Current' = Current
        /\ \A u \in Task :
             state'[u] = IF u = t /\ state[t] = "WAIT" THEN "READY" ELSE state[u]
        /\ \A u \in Task : u # t => flags'[u] = flags[u]
        /\ \A u \in Task : "error" \notin flags'[u] => "error" \notin flags[u]
        /\ \A x \in Event :
             recv'[x] = IF walk.op = "clean" /\ x = e THEN Tail(recv[x])
                                                      ELSE recv[x]
        /\ walk' = IF Tail(rest) = <<>> THEN NoWalk
                   ELSE [op |-> walk.op, ev |-> e, rest |-> Tail(rest)]
        /\ walk'.rest = Tail(rest)
        /\ \A u : Has(rest, u) /\ u # t => Has(Tail(rest), u)
        /\ UNCHANGED <<finishList, autoList, phase, timer, wpc, wev>>
    BY WalkEffect
  <1> HIDE DEF rest, t, e
  <1>2. CleanedBeforeFree'
    <2> SUFFICES ASSUME NEW u \in Task, wpc[u] = "ok"
                 PROVE  \/ recv'[wev[u]] = <<>>
                        \/ walk'.op = "clean" /\ walk'.ev = wev[u]
      BY <1>1 DEF CleanedBeforeFree
    <2>1. wev[u] \in Event
      BY DEF JoinInv, Event
    <2>2. CASE recv[wev[u]] = <<>>
      BY <1>1, <2>1, <2>2
    <2>3. CASE walk.op = "clean" /\ wev[u] = e
      BY <1>1, <2>1, <2>3
    <2> QED
      BY <2>2, <2>3 DEF JoinInv, CleanedBeforeFree, e
  <1>3. NoLostWakeup'
    <2> SUFFICES ASSUME NEW u \in Task, wpc[u] = "check", state'[u] = "WAIT"
                 PROVE  /\ ~(Marked(u)' \/ timer[u] = "fired")
                        /\ (wev[u] \in Task /\ state'[wev[u]] = "FINISH") =>
                             \/ phase = "finish" /\ wev[u] = Current
                             \/ InWalk(u)'
      BY <1>1, Zenon DEF NoLostWakeup, Finished
    <2>1. u # t /\ state[u] = "WAIT"
      BY <1>1
    <2>2. /\ ~(Marked(u) \/ timer[u] = "fired")
          /\ (wev[u] \in Task /\ Finished(wev[u])) =>
               \/ phase = "finish" /\ wev[u] = Current
               \/ InWalk(u)
      BY <2>1, Zenon DEF JoinInv, NoLostWakeup
    <2>3. ~Marked(u)'
      BY <1>1, <2>1, <2>2 DEF Marked
    <2>4. \A w \in Task : state'[w] = "FINISH" => Finished(w)
      BY <1>1 DEF Finished
    <2>5. InWalk(u) => InWalk(u)'
      <3>1. InWalk(u) <=> Has(rest, u)
        BY DEF InWalk, Has, rest
      <3>2. InWalk(u)' <=> Has(walk'.rest, u)
        BY DEF InWalk, Has
      <3> QED
        BY <1>1, <2>1, <3>1, <3>2
    <2> QED
      BY <2>2, <2>3, <2>4, <2>5
  <1>4. /\ JoinedIsAllocated' /\ DestroysOnce'
        /\ \A u \in Task : wpc'[u] = "ok" => wev'[u] \in Task
    BY <1>1 DEF JoinInv, JoinedIsAllocated, DestroysOnce, Reaching
  <1> QED
    BY <1>2, <1>3, <1>4 DEF JoinInv

\* A step of the running task outside and into its wait: what it does not
\* change for the sleepers.
LEMMA JoinRunning ==
  ASSUME CoreInv, JoinInv, Unlocked, phase = "run",
         UNCHANGED <<state, phase>>, Current' = Current,
         \A u \in Task : (u # Current /\ wpc[u] = "check") =>
           wev'[u] = wev[u] /\ timer'[u] = timer[u] /\ flags'[u] = flags[u],
         \A u \in Task : u # Current => wpc'[u] = wpc[u]
  PROVE  NoLostWakeup'
  <1> SUFFICES ASSUME NEW u \in Task, wpc'[u] = "check", state[u] = "WAIT"
               PROVE  /\ ~(Marked(u)' \/ timer'[u] = "fired")
                      /\ ~(wev'[u] \in Task /\ state[wev'[u]] = "FINISH")
    BY NoLostWakeupNext
  <1>1. u # Current /\ wpc[u] = "check"
    BY CoreFacts
  <1>2. /\ ~Marked(u) /\ timer[u] # "fired"
        /\ ~(wev[u] \in Task /\ Finished(wev[u]))
    BY <1>1, UnlockedSleeper
  <1>3. Marked(u)' = Marked(u)
    BY <1>1 DEF Marked
  <1> QED
    BY <1>1, <1>2, <1>3 DEF Finished

\* A wait begins: a task that is joined is still allocated.
LEMMA JoinWaitBegin ==
  ASSUME CoreInv, JoinInv, NEW e \in Event, NEW timed \in BOOLEAN,
         WaitBegin(e, timed), e \in Task => state[e] # "NONE"
  PROVE  JoinInv'
  <1>1. /\ Unlocked /\ phase = "run" /\ wpc[Current] = "none"
        /\ UNCHANGED <<schedVars, recv, walk>>
    BY DEF WaitBegin, Running
  <1>2. /\ UNCHANGED <<state, finishList, autoList, phase>>
        /\ Current' = Current
    BY <1>1 DEF schedVars, Current
  <1>3. \A u \in Task :
          /\ wpc'[u] = IF u = Current THEN "add" ELSE wpc[u]
          /\ wev'[u] = IF u = Current THEN e ELSE wev[u]
          /\ flags'[u] = IF u = Current THEN {} ELSE flags[u]
          /\ u # Current => timer'[u] = timer[u]
    BY CoreWaitBegin
  <1>4. NoLostWakeup'
    BY <1>1, <1>2, <1>3, JoinRunning
  <1>5. /\ JoinedIsAllocated' /\ DestroysOnce' /\ CleanedBeforeFree'
        /\ \A u \in Task : wpc'[u] = "ok" => wev'[u] \in Task
    BY <1>1, <1>2, <1>3 DEF JoinInv, JoinedIsAllocated, DestroysOnce, Reaching,
                            CleanedBeforeFree
  <1> QED
    BY <1>4, <1>5 DEF JoinInv

LEMMA JoinAddReceptor ==
  ASSUME CoreInv, JoinInv, AddReceptor
  PROVE  JoinInv'
  <1>1. /\ Unlocked /\ phase = "run" /\ wpc[Current] = "add"
        /\ UNCHANGED <<schedVars, flags, timer, wev, walk>>
    BY DEF AddReceptor, Running
  <1>2. /\ UNCHANGED <<state, finishList, autoList, phase>>
        /\ Current' = Current
    BY <1>1 DEF schedVars, Current
  <1>3. \A u \in Task : wpc'[u] = IF u = Current THEN "check" ELSE wpc[u]
    BY CoreAddReceptor
  <1>4. \A u \in Task : wpc'[u] # "ok"
    BY <1>1, <1>3, CoreFacts
  <1>5. NoLostWakeup'
    BY <1>1, <1>2, <1>3, JoinRunning
  <1>6. JoinedIsAllocated' /\ DestroysOnce' /\ CleanedBeforeFree'
    BY <1>1, <1>2, <1>3, <1>4
       DEF JoinInv, JoinedIsAllocated, DestroysOnce, Reaching, CleanedBeforeFree
  <1> QED
    BY <1>4, <1>5, <1>6 DEF JoinInv

\* A wait that ends for its caller: nothing of it stays behind.
LEMMA ReturnEffect ==
  ASSUME CoreInv, Running("check"), WaitReturn
  PROVE  /\ WaitCore'
         /\ \A u \in Task :
              /\ wpc'[u] = IF u = Current THEN "none" ELSE wpc[u]
              /\ u # Current => wev'[u] = wev[u] /\ timer'[u] = timer[u]
              /\ flags'[u] = IF u = Current THEN {} ELSE flags[u]
  BY CoreLeave DEF WaitReturn

LEMMA JoinWaitReturn ==
  ASSUME CoreInv, JoinInv, Running("check"), WaitReturn
  PROVE  JoinInv'
  <1>1. Unlocked /\ phase = "run" /\ wpc[Current] = "check" /\ UNCHANGED schedVars
    BY DEF WaitReturn, Running
  <1>2. /\ UNCHANGED <<state, finishList, autoList, phase>>
        /\ Current' = Current
    BY <1>1 DEF schedVars, Current
  <1>3. \A u \in Task :
          /\ wpc'[u] = IF u = Current THEN "none" ELSE wpc[u]
          /\ u # Current => wev'[u] = wev[u] /\ timer'[u] = timer[u]
          /\ flags'[u] = IF u = Current THEN {} ELSE flags[u]
    BY ReturnEffect
  <1>4. \A u \in Task : wpc'[u] # "ok"
    BY <1>1, <1>3, CoreFacts
  <1>5. NoLostWakeup'
    BY <1>1, <1>2, <1>3, JoinRunning
  <1>6. JoinedIsAllocated' /\ DestroysOnce' /\ CleanedBeforeFree'
    BY <1>2, <1>3, <1>4
       DEF JoinInv, JoinedIsAllocated, DestroysOnce, Reaching, CleanedBeforeFree
  <1> QED
    BY <1>4, <1>5, <1>6 DEF JoinInv

\* A finished task is joined, after a wait or without one: its event is cleaned
\* in the same critical section.
LEMMA JoinGoesOn ==
  ASSUME CoreInv, JoinInv, Unlocked, phase = "run", NEW t \in Task,
         wpc[Current] \in {"none", "check"},
         state[t] = "FINISH",
         UNCHANGED <<state, finishList, autoList, phase>>, Current' = Current,
         NEW q, recv'[t] = q, StartWalk("clean", t, q),
         \A u \in Task :
           /\ wpc'[u] = IF u = Current THEN "ok" ELSE wpc[u]
           /\ wev'[u] = IF u = Current THEN t ELSE wev[u]
           /\ u # Current => timer'[u] = timer[u] /\ flags'[u] = flags[u]
  PROVE  JoinInv'
  <1>1. \A u \in Task : wpc[u] \notin {"add", "ok"}
    BY CoreFacts
  <1>2. CleanedBeforeFree'
    <2>1. CASE q = <<>>
      BY <1>1, <2>1 DEF CleanedBeforeFree
    <2>2. CASE q # <<>>
      BY <1>1, <2>2 DEF StartWalk, CleanedBeforeFree
    <2> QED
      BY <2>1, <2>2
  <1>3. t \in finishList \cup autoList
    BY CoreFacts DEF CoreInv, SchedInv, ListOfState
  <1>4. DestroysOnce' /\ \A u \in Task : wpc'[u] = "ok" => wev'[u] \in Task
    BY <1>1, <1>3 DEF DestroysOnce
  <1>5. NoLostWakeup'
    BY JoinRunning
  <1>6. JoinedIsAllocated'
    BY <1>1 DEF JoinInv, JoinedIsAllocated, Reaching
  <1> QED
    BY <1>2, <1>4, <1>5, <1>6 DEF JoinInv

LEMMA JoinAtOnceInv ==
  ASSUME CoreInv, JoinInv, NEW t \in Task, JoinAtOnce(t)
  PROVE  WaitCore' /\ JoinInv'
  <1>1. /\ Running("none") /\ state[t] = "FINISH"
        /\ wpc' = [wpc EXCEPT ![Current] = "ok"]
        /\ wev' = [wev EXCEPT ![Current] = t]
        /\ StartWalk("clean", t, recv[t])
        /\ UNCHANGED <<schedVars, recv, flags, timer>>
    BY DEF JoinAtOnce, Finished
  <1>2. /\ Unlocked /\ phase = "run" /\ wpc[Current] = "none" /\ t \in Event
        /\ UNCHANGED <<state, finishList, autoList, phase>> /\ Current' = Current
    BY <1>1 DEF Running, schedVars, Current, Event
  <1>3. /\ WaitCore'
        /\ \A u \in Task : /\ wpc'[u] = IF u = Current THEN "ok" ELSE wpc[u]
                           /\ wev'[u] = IF u = Current THEN t ELSE wev[u]
    BY <1>1, <1>2, CoreAtOnce
  <1> QED
    BY <1>1, <1>2, <1>3, JoinGoesOn

LEMMA JoinOkInv ==
  ASSUME CoreInv, JoinInv, JoinOk
  PROVE  WaitCore' /\ JoinInv'
  <1> DEFINE t == wev[Current]
             q == Unlink(recv[t], Current)
  <1>1. /\ Running("check") /\ t \in Task /\ state[t] = "FINISH"
        /\ WaitLeave("ok")
        /\ flags' = [flags EXCEPT ![Current] = {}]
        /\ StartWalk("clean", t, q)
        /\ UNCHANGED <<schedVars, wev>>
    BY DEF JoinOk, CheckOk, Finished, OnTaskEvent
  <1>2. /\ Unlocked /\ phase = "run" /\ wpc[Current] = "check" /\ t \in Event
        /\ recv' = [recv EXCEPT ![wev[Current]] = Unlink(@, Current)]
        /\ UNCHANGED <<state, finishList, autoList, phase>> /\ Current' = Current
    BY <1>1 DEF Running, schedVars, Current, Event, WaitLeave
  <1>3. /\ WaitCore'
        /\ \A u \in Task :
             /\ wpc'[u] = IF u = Current THEN "ok" ELSE wpc[u]
             /\ u # Current => timer'[u] = timer[u]
             /\ flags'[u] = IF u = Current THEN {} ELSE flags[u]
    BY <1>1, CoreLeave
  <1>4. recv'[t] = q
    BY <1>1, <1>2, LeaveEffect
  <1>5. \A u \in Task : wev'[u] = IF u = Current THEN t ELSE wev[u]
    BY <1>1
  <1> HIDE DEF t, q
  <1> QED
    BY <1>1, <1>2, <1>3, <1>4, <1>5, JoinGoesOn

\* The joined task is freed: whoever else joined it has been told.
LEMMA JoinDestroyInv ==
  ASSUME CoreInv, JoinInv, JoinDestroy
  PROVE  WaitCore' /\ JoinInv'
  <1> DEFINE t == wev[Current]
  <1>1. /\ Running("ok") /\ Unlocked /\ phase = "run" /\ wpc[Current] = "ok"
        /\ t \in finishList \cup autoList
        /\ state' = [state EXCEPT ![t] = "NONE"]
        /\ wpc' = [wpc EXCEPT ![Current] = "none"]
        /\ wev' = [wev EXCEPT ![Current] = NoEvent]
        /\ UNCHANGED <<ring, phase, recv, flags, timer, walk>>
    BY DEF JoinDestroy, Running, TaskJoined, Free
  <1>2. /\ Current \in Task /\ Current' = Current /\ state \in [Task -> States]
        /\ \A u \in Task : wpc[u] # "none" => state[u] \notin {"NONE", "FINISH"}
        /\ \A u \in Task : u # Current => wpc[u] \notin {"add", "ok"}
    BY <1>1, CoreFacts DEF Current
  <1>3. t \in Task /\ t \in Event /\ state[t] = "FINISH"
    <2>1. t \in Task
      BY <1>1, <1>2 DEF JoinInv
    <2> QED
      BY <1>1, <2>1 DEF CoreInv, SchedInv, ListOfState, Event
  <1>4. recv[t] = <<>>
    BY <1>1, <1>2 DEF JoinInv, CleanedBeforeFree, Unlocked
  <1>5. \A u \in Task : state'[u] = IF u = t THEN "NONE" ELSE state[u]
    BY <1>1, <1>2
  <1> HIDE DEF t
  <1>6. \A u \in Task : wpc[u] # "none" => state'[u] \notin {"NONE", "FINISH"}
    BY <1>2, <1>3, <1>5
  <1>7. /\ WaitCore'
        /\ \A u \in Task :
             /\ wpc'[u] = IF u = Current THEN "none" ELSE wpc[u]
             /\ wev'[u] = IF u = Current THEN NoEvent ELSE wev[u]
    BY <1>1, <1>6, CoreOver
  <1>8. /\ DestroysOnce' /\ CleanedBeforeFree'
        /\ \A u \in Task : wpc'[u] = "ok" => wev'[u] \in Task
    BY <1>2, <1>7 DEF DestroysOnce, CleanedBeforeFree
  <1>9. NoLostWakeup'
    <2>1. \A u \in Task : wpc'[u] = "check" =>
            wpc[u] = "check" /\ u # Current /\ wev'[u] = wev[u]
      BY <1>7
    <2>2. \A u \in Task : /\ state'[u] = "WAIT" => state[u] = "WAIT"
                          /\ state'[u] = "FINISH" => Finished(u)
      BY <1>5 DEF Finished
    <2> SUFFICES ASSUME NEW u \in Task, wpc[u] = "check", state[u] = "WAIT"
                 PROVE  /\ ~(Marked(u) \/ timer[u] = "fired")
                        /\ ~(wev[u] \in Task /\ Finished(wev[u]))
      BY <1>1, <2>1, <2>2 DEF NoLostWakeup, Finished, Marked
    <2> QED
      BY <1>1, UnlockedSleeper
  <1>10. JoinedIsAllocated'
    <2> SUFFICES ASSUME NEW u \in Task, Reaching(u)', "error" \notin flags[u]
                 PROVE  state'[wev'[u]] # "NONE"
      BY <1>1 DEF JoinedIsAllocated
    <2>1. u # Current /\ wpc[u] = "check" /\ wev'[u] = wev[u] /\ wev[u] \in Task
      BY <1>2, <1>7 DEF Reaching
    <2>2. Has(recv[wev[u]], u)
      BY <2>1, CoreFacts DEF Live, Event
    <2>3. wev[u] # t
      BY <1>4, <2>2 DEF Has
    <2>4. state[wev[u]] # "NONE"
      BY <2>1 DEF JoinInv, JoinedIsAllocated, Reaching
    <2> QED
      BY <1>5, <2>1, <2>3, <2>4
  <1> QED
    BY <1>7, <1>8, <1>9, <1>10 DEF JoinInv

-----------------------------------------------------------------------------
(***************************************************************************)
(* The theorems.                                                           *)
(***************************************************************************)

\* No task, no event, no receptor: nothing to keep.
LEMMA InitEventIInv == EventInit => EventIInv
  <1> SUFFICES ASSUME EventInit PROVE EventIInv
    OBVIOUS
  <1>1. JoinInv
    BY DEF EventInit, JoinInv, CleanedBeforeFree, NoLostWakeup,
           JoinedIsAllocated, DestroysOnce, Reaching
  <1> QED
    BY <1>1, CoreInit, EventIInvParts

\* Nothing changes.
LEMMA StutterInv ==
  ASSUME CoreInv, JoinInv, UNCHANGED vars
  PROVE  JoinInv'
  <1>1. /\ UNCHANGED <<state, ring, finishList, autoList, phase>>
        /\ UNCHANGED <<recv, flags, timer, wpc, wev, walk>>
    BY DEF vars, schedVars, eventVars, waitVars
  <1> QED
    BY <1>1, Zenon DEF JoinInv, CleanedBeforeFree, NoLostWakeup, JoinedIsAllocated,
                       DestroysOnce, Reaching, Marked, Finished, InWalk, Current

\* The steps of the rest of a call.
LEMMA ProceedInv ==
  ASSUME CoreInv, JoinInv, Proceed
  PROVE  WaitCore' /\ JoinInv'
  <1>1. CASE AddReceptor
    BY <1>1, CoreAddReceptor, JoinAddReceptor
  <1>2. CASE EventWaitDone \/ EventWaitTimeout \/ JoinError \/ JoinTimeout
    <2>1. Running("check") /\ WaitReturn
      BY <1>2, Zenon DEF EventWaitDone, EventWaitTimeout, JoinError, JoinTimeout,
                         CheckError, CheckTimeout
    <2> QED
      BY <2>1, ReturnEffect, JoinWaitReturn
  <1>3. CASE EventWaitSleep \/ JoinSleep
    <2>1. Running("check") /\ WaitSleep
      BY <1>3, Zenon DEF EventWaitSleep, JoinSleep, CheckSleep
    <2> QED
      BY <1>3, <2>1, CoreSleep, JoinSleepInv
  <1>4. CASE JoinOk
    BY <1>4, JoinOkInv
  <1>5. CASE JoinDestroy
    BY <1>5, JoinDestroyInv
  <1>6. CASE FinishNotify
    <2>1. Current \in Event
      BY CoreFacts DEF Event
    <2>2. /\ UNCHANGED <<state, ring, finishList, autoList, waitVars>>
          /\ phase = "finish" /\ Unlocked
          /\ StartWalk("notify", Current, recv[Current])
      BY <1>6 DEF FinishNotify, TaskFinishNext
    <2> QED
      BY <2>1, <2>2, CoreNotify, JoinNotify
  <1> QED
    BY <1>1, <1>2, <1>3, <1>4, <1>5, <1>6, Zenon DEF Proceed

\* Notifiers, the scheduler and timers.
LEMMA UnderlyingInv ==
  ASSUME CoreInv, JoinInv, Underlying, ~FinishNotify
  PROVE  WaitCore' /\ JoinInv'
  <1>1. WaitCore'
    BY CoreUnderlying DEF CoreInv
  <1>2. CASE CalmStep \/ WalkStep \/ \E t \in Task : TimerFire(t)
    BY <1>1, <1>2, JoinCalm, JoinWalkStep, JoinTimerFire
  <1>3. ASSUME NEW t \in Task, AutoClean(t)
        PROVE  JoinInv'
    <2>1. /\ Unlocked /\ StartWalk("clean", t, recv[t]) /\ t \in Event
          /\ UNCHANGED <<state, ring, phase, finishList, autoList, waitVars>>
      BY <1>3 DEF AutoClean, schedVars, Event
    <2> QED
      BY <2>1, JoinNotify
  <1> QED
    BY <1>1, <1>2, <1>3, UnderlyingKinds

\* Every step keeps the invariant.
LEMMA NextEventIInv == EventIInv /\ [EventNext]_vars => EventIInv'
  <1> SUFFICES ASSUME CoreInv, JoinInv, [EventNext]_vars
               PROVE  SchedInv' /\ WaitCore' /\ JoinInv'
    <2>1. SchedInv' /\ WaitCore' /\ JoinInv' => EventIInv'
      BY DEF EventIInv, EventInv, EventShape, WaitCore, WaitShape, JoinInv
    <2> QED
      BY <2>1, EventIInvParts
  <1>1. SchedInv'
    <2>1. [SchedNext]_schedVars
      BY EventIInvParts, EventNextStep DEF EventIInv, EventInv
    <2> QED
      BY <2>1, NextSchedInv DEF CoreInv
  <1>2. ASSUME NEW e \in UserEvent, Notify(e) \/ Clean(e)
        PROVE  WaitCore' /\ JoinInv'
    <2>1. /\ e \in Event /\ Unlocked
          /\ StartWalk("notify", e, recv[e]) \/ StartWalk("clean", e, recv[e])
          /\ UNCHANGED <<state, ring, phase, finishList, autoList, waitVars>>
      BY <1>2 DEF Event, Notify, Clean, schedVars
    <2> QED
      BY <2>1, CoreNotify, JoinNotify
  <1>3. ASSUME NEW e \in UserEvent, NotifyAndReorder(e, 1)
        PROVE  WaitCore' /\ JoinInv'
    <2>1. e \in Event
      BY DEF Event
    <2> QED
      BY <1>3, <2>1, CoreReorder, JoinReorder
  <1>4. ASSUME NEW e \in UserEvent, NEW timed \in BOOLEAN, EventWait(e, timed)
        PROVE  WaitCore' /\ JoinInv'
    <2>1. e \in Event /\ e \notin Task
      BY EventAssumption DEF Event
    <2> QED
      BY <1>4, <2>1, CoreWaitBegin, JoinWaitBegin DEF EventWait
  <1>5. ASSUME NEW t \in Task, NEW timed \in BOOLEAN, JoinWait(t, timed)
        PROVE  WaitCore' /\ JoinInv'
    <2>1. t \in Event /\ state[t] # "NONE"
      BY <1>5 DEF Event, JoinWait
    <2> QED
      BY <1>5, <2>1, CoreWaitBegin, JoinWaitBegin DEF JoinWait
  <1>6. ASSUME NEW t \in Task, JoinAtOnce(t)
        PROVE  WaitCore' /\ JoinInv'
    BY <1>6, JoinAtOnceInv
  <1>7. ASSUME Proceed PROVE WaitCore' /\ JoinInv'
    BY <1>7, ProceedInv
  <1>8. ASSUME \/ WalkStep \/ (\E t \in Task : TimerFire(t) \/ Create(t))
               \/ Yield \/ Finish \/ Kernel
        PROVE  WaitCore' /\ JoinInv'
    BY <1>8, ProceedInv, UnderlyingInv DEF Underlying, Proceed
  <1>9. EventNext => WaitCore' /\ JoinInv'
    BY <1>2, <1>3, <1>4, <1>5, <1>6, <1>7, <1>8, Zenon DEF EventNext
  <1>10. CASE UNCHANGED vars
    BY <1>10, CoreStutter, StutterInv DEF CoreInv
  <1> QED
    BY <1>1, <1>9, <1>10

\* Receptors are linked exactly while their wait is in its loop, and every
\* structure a wait, a join or a notifier relies on is as it expects.
THEOREM EventCorrect == EventSpec => []EventInv
  <1>1. EventIInv => EventInv
    BY DEF EventIInv
  <1> QED
    BY <1>1, InitEventIInv, NextEventIInv, PTL DEF EventSpec

\* No wake-up is lost: what would end a wait comes with a wake-up, whenever
\* the notification, the expiry or the end of a joined task falls between the
\* check of the condition and the switch to another task.
THEOREM NoWakeupLost == EventSpec => []NoLostWakeup
  <1>1. EventIInv => NoLostWakeup
    BY DEF EventIInv
  <1> QED
    BY <1>1, InitEventIInv, NextEventIInv, PTL DEF EventSpec

\* eh_task_join reads the state of the joined task only while that task is
\* allocated, whichever of its other joiners or the poll task frees it.
THEOREM JoinedStaysAllocated == EventSpec => []JoinedIsAllocated
  <1>1. EventIInv => JoinedIsAllocated
    BY DEF EventIInv
  <1> QED
    BY <1>1, InitEventIInv, NextEventIInv, PTL DEF EventSpec

\* A finished task is freed by one of its joiners only, which is the running
\* task then, however many tasks join it.
THEOREM JoinsDestroyOnce == EventSpec => []DestroysOnce
  <1>1. EventIInv => DestroysOnce
    BY DEF EventIInv
  <1> QED
    BY <1>1, InitEventIInv, NextEventIInv, PTL DEF EventSpec

\* Events and joins implement the scheduler.
THEOREM EventsImplementScheduler == EventSpec => ImplementsScheduler
  <1>1. EventInit => SchedInit
    BY DEF EventInit
  <1>2. EventIInv /\ [EventNext]_vars => [SchedNext]_schedVars
    BY EventIInvParts, EventNextStep DEF EventIInv, EventInv
  <1> QED
    BY <1>1, <1>2, InitEventIInv, NextEventIInv, PTL
       DEF EventSpec, ImplementsScheduler, SchedSpec

=============================================================================
