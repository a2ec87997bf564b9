-------------------------------- MODULE EhLife --------------------------------
(***************************************************************************)
(* The life of the system (src/src/eh_core.c, eh_global_init to            *)
(* eh_global_exit): the modules the linker has collected are sorted by the  *)
(* names of their sections, initialised one after the other, unwound when   *)
(* one fails, and left in the reverse order; meanwhile detached tasks end    *)
(* and are destroyed by a poll task whose node outlives the system.          *)
(***************************************************************************)
EXTENDS Integers, SequencesExt

CONSTANTS
  LifeLevel,   \* the modules' sections: module -> place of the name in the order of names
  LifeOpens,   \* what the init of a module opens: module -> sequence of names
  LifeKeeps,   \* what its exit does not close: module -> set of names
  LifeMax      \* bound: detached tasks that have ended at a time

LifeModule == DOMAIN LifeLevel

ASSUME LifeAssumption ==
  /\ IsFiniteSet(LifeModule) /\ \A m \in LifeModule : LifeLevel[m] \in Nat
  /\ DOMAIN LifeOpens = LifeModule /\ DOMAIN LifeKeeps = LifeModule
  /\ LifeMax \in Nat

VARIABLES
  lifeLink,   \* history: the order of the linker
  lifeTable,  \* eh_init_fini_array
  lifePhase,  \* "down", "init", "unwind", "up" or "exit"
  lifeAt,     \* i: the entries up to it have been initialised, and not left yet
  lifeOpen,   \* what modules have opened and not closed
  lifeEnded,  \* task_finish_auto_destruct_list_head: how many tasks are on it
  lifeNode,   \* auto_destruct_task.list_node: "self", "linked", or "stale" when it still
              \* points to the list of an earlier life
  lifeTidy    \* history: the system has never been left with lifeNode linked

lifeVars == <<lifeLink, lifeTable, lifePhase, lifeAt, lifeOpen, lifeEnded, lifeNode, lifeTidy>>

-----------------------------------------------------------------------------
Permuted(S) == {s \in [1 .. Cardinality(S) -> S] : Range(s) = S}

\* One exchange of the bubble sort of eh_module_section_init.
Bubbled(s, j) ==
  IF LifeLevel[s[j]] > LifeLevel[s[j + 1]] THEN [s EXCEPT ![j] = s[j + 1], ![j + 1] = s[j]] ELSE s

\* One pass with m exchanges.
OnePass(s, m) ==
  LET after[j \in 0 .. m] == IF j = 0 THEN s ELSE Bubbled(after[j - 1], j)
  IN  after[m]

\* Mutant: the passes end one exchange early.
SortedMutant(s) ==
  LET after[i \in 0 .. Len(s) - 1] == IF i = 0 THEN s ELSE OnePass(after[i - 1], Len(s) - i - 1)
  IN  after[Len(s) - 1]

Sorted(s) ==
  LET after[i \in 0 .. Len(s)] == IF i = 0 THEN s ELSE OnePass(after[i - 1], Len(s) - i)
  IN  after[Len(s)]

LifeStart ==
  /\ lifeLink \in Permuted(LifeModule)
  /\ lifeTable = << >> /\ lifePhase = "down" /\ lifeAt = 0 /\ lifeOpen = {}
  /\ lifeEnded = 0 /\ lifeNode = "self" /\ lifeTidy = TRUE

-----------------------------------------------------------------------------
\* eh_global_init, interior_init: the lists are new.  When the sections cannot be read
\* (found = FALSE) the table stays empty, and eh_global_init goes on.
InteriorInit(found) ==
  /\ lifePhase = "down"
  /\ lifeTable' = IF found THEN Sorted(lifeLink) ELSE << >>
  /\ lifePhase' = "init" /\ lifeAt' = 0 /\ lifeEnded' = 0
  /\ lifeNode' = IF lifeNode = "linked" THEN "stale" ELSE lifeNode
  /\ lifeTidy' = (lifeTidy /\ lifeNode # "linked")
  /\ UNCHANGED <<lifeLink, lifeOpen>>

\* module_group_init: one module is initialised.
ModuleInit ==
  /\ lifePhase = "init" /\ lifeAt < Len(lifeTable)
  /\ lifeAt' = lifeAt + 1
  /\ lifeOpen' = lifeOpen \cup Range(LifeOpens[lifeTable[lifeAt + 1]])
  /\ UNCHANGED <<lifeLink, lifeTable, lifePhase, lifeEnded, lifeNode, lifeTidy>>

\* Its init fails, and has closed what it had opened.
ModuleFails ==
  /\ lifePhase = "init" /\ lifeAt < Len(lifeTable)
  /\ lifePhase' = "unwind"
  /\ UNCHANGED <<lifeLink, lifeTable, lifeAt, lifeOpen, lifeEnded, lifeNode, lifeTidy>>

ModulesDone ==
  /\ lifePhase = "init" /\ lifeAt = Len(lifeTable)
  /\ lifePhase' = "up"
  /\ UNCHANGED <<lifeLink, lifeTable, lifeAt, lifeOpen, lifeEnded, lifeNode, lifeTidy>>

\* One module is left: by init_error of module_group_init, or by module_group_exit.
ModuleExit ==
  /\ lifePhase \in {"unwind", "exit"} /\ lifeAt > 0
  /\ lifeAt' = lifeAt - 1
  /\ lifeOpen' = lifeOpen \ (Range(LifeOpens[lifeTable[lifeAt]]) \ LifeKeeps[lifeTable[lifeAt]])
  /\ UNCHANGED <<lifeLink, lifeTable, lifePhase, lifeEnded, lifeNode, lifeTidy>>

\* eh_global_init returns the error; nothing calls interior_exit.
InitFailed ==
  /\ lifePhase = "unwind" /\ lifeAt = 0
  /\ lifePhase' = "down"
  /\ UNCHANGED <<lifeLink, lifeTable, lifeAt, lifeOpen, lifeEnded, lifeNode, lifeTidy>>

\* eh_global_exit: _clear destroys the tasks that have ended.
GlobalExit ==
  /\ lifePhase = "up"
  /\ lifePhase' = "exit" /\ lifeEnded' = 0
  /\ UNCHANGED <<lifeLink, lifeTable, lifeAt, lifeOpen, lifeNode, lifeTidy>>

InteriorExit ==
  /\ lifePhase = "exit" /\ lifeAt = 0
  /\ lifePhase' = "down" /\ lifeTable' = << >>
  /\ UNCHANGED <<lifeLink, lifeAt, lifeOpen, lifeEnded, lifeNode, lifeTidy>>

-----------------------------------------------------------------------------
\* A detached task ends: eh_task_next moves it to the list, and eh_loop_poll_task_add
\* adds the poll task if its node is linked to nothing.
DetachedEnds ==
  /\ lifePhase = "up" /\ lifeTable # << >> /\ lifeEnded < LifeMax
  /\ lifeEnded' = lifeEnded + 1
  /\ lifeNode' = IF lifeNode = "self" THEN "linked" ELSE lifeNode
  /\ UNCHANGED <<lifeLink, lifeTable, lifePhase, lifeAt, lifeOpen, lifeTidy>>

\* _eh_poll_run calls _task_auto_destruct.
AutoDestruct ==
  /\ lifePhase = "up" /\ lifeNode = "linked"
  /\ lifeEnded' = 0
  /\ lifeNode' = "self"
  /\ UNCHANGED <<lifeLink, lifeTable, lifePhase, lifeAt, lifeOpen, lifeTidy>>

LifeNext ==
  \/ \E found \in BOOLEAN : InteriorInit(found)
  \/ ModuleInit \/ ModuleFails \/ ModulesDone \/ ModuleExit \/ InitFailed
  \/ GlobalExit \/ InteriorExit
  \/ DetachedEnds \/ AutoDestruct

LifeSpec == LifeStart /\ [][LifeNext]_lifeVars

-----------------------------------------------------------------------------
LifeOn == {lifeTable[i] : i \in 1 .. lifeAt}

\* Through eh_global_init, eh_global_exit and module_group_init with its roll-back, any
\* number of times: a module is initialised only when every module with a lower section name is, and
\* left before any of them is; modules with one name keep the order of the linker;
\* all of them are initialised while the system is up, if their sections have been
\* found; a system that is down has nothing open but what the exits do not close;
\* and a detached task that has ended is going to be destroyed, in a program that has
\* never left the system with the poll task waiting.
LifeInv ==
  /\ \A m \in LifeOn, l \in LifeModule : LifeLevel[l] < LifeLevel[m] => l \in LifeOn
  /\ \A i, j \in 1 .. Len(lifeTable) :
       i < j /\ LifeLevel[lifeTable[i]] = LifeLevel[lifeTable[j]] =>
         \E k, l \in 1 .. Len(lifeLink) :
           k < l /\ lifeLink[k] = lifeTable[i] /\ lifeLink[l] = lifeTable[j]
  /\ lifePhase = "up" /\ lifeTable # << >> => LifeOn = LifeModule
  /\ lifePhase = "down" =>
       LifeOn = {} /\ lifeEnded = 0 /\ lifeOpen \subseteq UNION Range(LifeKeeps)
  /\ lifePhase = "up" /\ lifeEnded > 0 /\ lifeTidy => lifeNode = "linked"
=============================================================================
