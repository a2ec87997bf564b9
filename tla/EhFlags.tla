------------------------------- MODULE EhFlags -------------------------------
(***************************************************************************)
(* Event flags (src/src/eh_event_flags.c) on top of events: the events of  *)
(* the application are those of the flag groups.                           *)
(*                                                                         *)
(* Bits are set, cleared and stored in tasks, interrupts and other threads *)
(* by one atomic access, without the lock; the notification follows later. *)
(* A wait looks at the bits and changes them under the lock, by a plain    *)
(* read and a plain write (condition_event_flags).  Where the lock keeps   *)
(* interrupts out and there are no other threads this is one step          *)
(* ("masked"); where it is a mutex, atomic accesses of other threads come  *)
(* between the two ("mutex").  The reality_flags a wait reports are left   *)
(* out.                                                                    *)
(***************************************************************************)
EXTENDS EhEvent

CONSTANTS
  Bit,      \* the bits of a group
  Requests, \* what the tasks wait for: records of kind "set" or "clean", the bits to
            \*   wait for (wait_flags) and those to clear or set (claen_flags, set_flags)
  Masks,    \* the arguments of the functions that change bits
  Locks,    \* the kinds of lock to explore: "masked", "mutex"
  MaxDue,   \* bound: the notifications that are outstanding for a group
  NoRmw     \* not a record

ASSUME FlagsAssumption ==
  /\ Requests \subseteq [kind: {"set", "clean"}, wait: SUBSET Bit, change: SUBSET Bit]
  /\ Masks \subseteq SUBSET Bit
  /\ Locks \subseteq {"masked", "mutex"}
  /\ MaxDue \in Nat \ {0}

Group == UserEvent

VARIABLES
  lock,   \* the kind of lock
  bits,   \* flags of each group
  due,    \* how many callers have changed bits and are yet to notify
  want,   \* the request of each task
  rmw,    \* a condition between its read and its write: the group, the request, the value read
  silent  \* history: the waiters for whom a change by another wait, which nobody
          \*   notifies, has made the condition true

flagsVars == <<lock, bits, due, want, rmw, silent>>
allVars == <<vars, flagsVars>>

NoRequest == [kind |-> "set", wait |-> {}, change |-> {}]

FlagsStart ==
  /\ EventInit
  /\ lock \in Locks
  /\ bits = [f \in Group |-> {}]
  /\ due = [f \in Group |-> 0]
  /\ want = [t \in Task |-> NoRequest]
  /\ rmw = NoRmw
  /\ silent = {}

-----------------------------------------------------------------------------
\* condition_event_flags: whether it holds, and what it leaves.
Holds(value, w) ==
  IF w.kind = "set" THEN value \cap w.wait # {} ELSE value \cap w.wait = {}

Changed(value, w) ==
  IF w.kind = "set" THEN value \ w.change ELSE value \cup w.change

WaitsFor(t, f) == wpc[t] = "check" /\ wev[t] = f

\* The history, after the bits of f have changed by a wait or by another caller.
SilentAfterWait(f) ==
  {t \in Task : WaitsFor(t, f) /\ wpc'[t] = "check" /\ Holds(bits'[f], want[t])
                /\ (t \in silent \/ ~Holds(bits[f], want[t]))}
  \cup {t \in silent : ~WaitsFor(t, f)}

SilentAfterCall(f) ==
  {t \in silent : WaitsFor(t, f) => Holds(bits'[f], want[t])}

MayLock == rmw = NoRmw
Masked == lock = "masked"
MayChange == Masked => Unlocked

\* Mutant: the notification is left to the caller that finds the bit set already.
ChangeUnnotifiedMutant(f, value) ==
  /\ MayChange
  /\ due[f] < MaxDue
  /\ bits[f] # value
  /\ bits' = [bits EXCEPT ![f] = value]
  /\ due' = [due EXCEPT ![f] = IF bits[f] = {} THEN @ + 1 ELSE @]
  /\ silent' = SilentAfterCall(f)
  /\ UNCHANGED <<vars, lock, want, rmw>>

\* A caller changes the bits and owes a notification; when it would change
\* nothing it returns.
Change(f, value) ==
  /\ MayChange
  /\ due[f] < MaxDue
  /\ bits[f] # value
  /\ bits' = [bits EXCEPT ![f] = value]
  /\ due' = [due EXCEPT ![f] = @ + 1]
  /\ silent' = SilentAfterCall(f)
  /\ UNCHANGED <<vars, lock, want, rmw>>

\* eh_event_flags_set_bits_change_notify, eh_event_flags_clear_bits_change_notify,
\* eh_event_flags_update_change_notify up to the notification.
FlagsSet(f, mask) == Change(f, bits[f] \cup mask)
FlagsClear(f, mask) == Change(f, bits[f] \ mask)
FlagsUpdate(f, mask) == Change(f, mask)

\* The eh_event_notify at their end.
FlagsNotify(f) ==
  /\ MayLock /\ Unlocked
  /\ due[f] > 0
  /\ due' = [due EXCEPT ![f] = @ - 1]
  /\ IF Unmarked(f) THEN Notify(f) ELSE UNCHANGED vars
  /\ UNCHANGED <<lock, bits, want, rmw, silent>>

\* eh_event_flags_clean
FlagsClean(f) == MayLock /\ Clean(f) /\ UNCHANGED flagsVars

\* eh_event_flags_init of a group that nobody uses (any longer).
FlagsInit(f) ==
  /\ MayLock /\ Unlocked
  /\ bits[f] # {} /\ due[f] = 0
  /\ \A t \in Task : wev[t] # f
  /\ bits' = [bits EXCEPT ![f] = {}]
  /\ UNCHANGED <<vars, lock, due, want, rmw, silent>>

-----------------------------------------------------------------------------
\* eh_event_flags_wait_bits_set, eh_event_flags_wait_bits_clean; with timeout 0
\* a wait returns at once or changes nothing.
FlagsWait(f, w, timed) ==
  /\ MayLock
  /\ ~Holds(bits[f], w)
  /\ WaitBegin(f, timed)
  /\ want' = [want EXCEPT ![Current] = w]
  /\ UNCHANGED <<lock, bits, due, rmw, silent>>

\* The condition holds at once.
FlagsAtOnce(f, w) ==
  /\ Masked
  /\ Running("none")
  /\ Holds(bits[f], w)
  /\ bits' = [bits EXCEPT ![f] = Changed(@, w)]
  /\ UNCHANGED <<vars, lock, due, want, rmw>>
  /\ silent' = SilentAfterWait(f)

FlagsAdd == MayLock /\ AddReceptor /\ UNCHANGED flagsVars

FlagsError ==
  /\ MayLock
  /\ CheckError
  /\ WaitReturn
  /\ UNCHANGED flagsVars

Ready == Holds(bits[wev[Current]], want[Current])

\* Mutant: a wait for set bits that clears all the bits of its group.
FlagsOkClearsAllMutant ==
  LET f == wev[Current]
  IN  /\ Masked
      /\ CheckOk(Ready)
      /\ WaitReturn
      /\ bits' = [bits EXCEPT ![f] = IF want[Current].kind = "set" THEN {}
                                     ELSE Changed(@, want[Current])]
      /\ silent' = SilentAfterWait(f)
      /\ UNCHANGED <<lock, due, want, rmw>>

FlagsOk ==
  LET f == wev[Current]
  IN  /\ Masked
      /\ CheckOk(Ready)
      /\ WaitReturn
      /\ bits' = [bits EXCEPT ![f] = Changed(@, want[Current])]
      /\ silent' = SilentAfterWait(f)
      /\ UNCHANGED <<lock, due, want, rmw>>

\* The same in two steps, in a wait that begins or goes on.
FlagsReadAtOnce(f, w) ==
  /\ ~Masked /\ MayLock
  /\ Running("none")
  /\ Holds(bits[f], w)
  /\ rmw' = [group |-> f, request |-> w, value |-> bits[f]]
  /\ UNCHANGED <<vars, lock, bits, due, want, silent>>

FlagsRead ==
  LET f == wev[Current]
  IN  /\ ~Masked /\ MayLock
      /\ CheckOk(Ready)
      /\ rmw' = [group |-> f, request |-> want[Current], value |-> bits[f]]
      /\ UNCHANGED <<vars, lock, bits, due, want, silent>>

FlagsWrite ==
  /\ rmw # NoRmw
  /\ bits' = [bits EXCEPT ![rmw.group] = Changed(rmw.value, rmw.request)]
  /\ IF wpc[Current] = "check" THEN WaitReturn ELSE UNCHANGED vars
  /\ rmw' = NoRmw
  /\ silent' = SilentAfterWait(rmw.group)
  /\ UNCHANGED <<lock, due, want>>

FlagsTimeout ==
  /\ MayLock
  /\ CheckTimeout(Ready)
  /\ WaitReturn
  /\ UNCHANGED flagsVars

FlagsSleep ==
  /\ MayLock
  /\ CheckSleep(Ready)
  /\ WaitSleep
  /\ UNCHANGED flagsVars

-----------------------------------------------------------------------------
FlagsNext ==
  \/ \E f \in Group, mask \in Masks :
       FlagsSet(f, mask) \/ FlagsClear(f, mask) \/ FlagsUpdate(f, mask)
  \/ \E f \in Group : FlagsNotify(f)
  \/ \E f \in Group : FlagsClean(f)
  \/ \E f \in Group : FlagsInit(f)
  \/ \E f \in Group, w \in Requests, timed \in BOOLEAN : FlagsWait(f, w, timed)
  \/ \E f \in Group, w \in Requests : FlagsAtOnce(f, w) \/ FlagsReadAtOnce(f, w)
  \/ FlagsAdd \/ FlagsError \/ FlagsOk \/ FlagsTimeout \/ FlagsSleep
  \/ FlagsRead \/ FlagsWrite
  \/ WalkStep /\ UNCHANGED flagsVars
  \/ MayLock /\ UNCHANGED flagsVars
     /\ (Yield \/ Kernel \/ \E t \in Task : TimerFire(t) \/ Create(t))

FlagsSpec == FlagsStart /\ [][FlagsNext]_allVars

-----------------------------------------------------------------------------
(***************************************************************************)
(* Properties.                                                             *)
(***************************************************************************)

\* No eh_event_flags_wait_bits_set or _clean is stranded: a task does not sleep while the bits it waits for are
\* as it wants them, unless a notification is due or reaches it in the loop of
\* a notifier, and however the change, the notification, the look at the bits
\* and the sleep interleave.  The exception is what the code leaves out: a bit
\* that another wait clears or sets on its way out is notified to nobody.
NoStrandedWait ==
  \A t \in Task :
    (/\ wpc[t] = "check" /\ state[t] = "WAIT"
     /\ Holds(bits[wev[t]], want[t]))
      => due[wev[t]] > 0 \/ InWalk(t) \/ "error" \in flags[t] \/ t \in silent

\* No bit is lost and none comes back: a bit of a group changes only by a call
\* that says so or by a wait that succeeds and was asked to change it.
WaitChanges(f, b) ==
  \/ FlagsWrite /\ rmw.group = f /\ b \in rmw.request.change
  \/ FlagsOk /\ wev[Current] = f /\ b \in want[Current].change
  \/ \E w \in Requests : b \in w.change /\ FlagsAtOnce(f, w)

Accounted ==
  \A f \in Group, b \in Bit :
    /\ (b \in bits[f] /\ b \notin bits'[f]) =>
         \/ WaitChanges(f, b)
         \/ FlagsInit(f)
         \/ \E mask \in Masks : (b \in mask /\ FlagsClear(f, mask))
                                \/ (b \notin mask /\ FlagsUpdate(f, mask))
    /\ (b \notin bits[f] /\ b \in bits'[f]) =>
         \/ WaitChanges(f, b)
         \/ \E mask \in Masks : b \in mask /\ (FlagsSet(f, mask) \/ FlagsUpdate(f, mask))

\* The loops of compare-exchange of eh_event_flags_set_bits_change_notify and its like
\* against the plain writes of the condition under the lock, when the lock is that of
\* a single core (interrupts masked).
BitsAreAccounted == [][Masked => Accounted]_allVars

\* The same whatever the lock is, as the functions that may be called by other
\* threads promise (`__safety`, eh_types.h:89); it does not hold: condition_event_flags
\* writes back what it has read over what another thread has set meanwhile.
BitsAreAccountedInThreads == [][Accounted]_allVars
=============================================================================
