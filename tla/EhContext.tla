------------------------------ MODULE EhContext ------------------------------
(***************************************************************************)
(* Context switches: tasks that call co_context_swap, the operations of    *)
(* the port (EhPorts) one at a time, and interrupts between any two of     *)
(* them, which use the stack below the stack pointer in force.  A behaviour *)
(* is about one port.                                                      *)
(*                                                                         *)
(* Which registers a call keeps, what an exception stores and where a      *)
(* function expects its stack are conventions of the architectures.        *)
(***************************************************************************)
EXTENDS EhPorts, FiniteSets

CONSTANTS
  CtxPorts,  \* the ports that are checked
  CtxMain,   \* the main task, on the stack the program has been started on
  CtxNew,    \* the tasks that are created
  CtxWords   \* sizes of a stack, in words

CtxTask == {CtxMain} \cup CtxNew
CtxPendSv == {"m0-pendsv", "m3-pendsv", "m4", "m7", "m33"}
CtxX64 == {"linux", "windows"}
CtxFloat == {"m4", "m7", "m33"}
CtxConverts == CtxPendSv \cup {"m0-psp", "m3-psp"}

ASSUME CtxAssumption ==
  /\ CtxPorts \subseteq CtxConverts \cup CtxX64 \cup {"macos", "riscv", "m33-msp", "m33-msp-fpu"}
  /\ CtxMain \notin CtxNew /\ CtxWords \subseteq Nat

VARIABLES
  ctxPort,  \* history: the port and the size of the stacks
  cpu,      \* registers; the stack pointers psp and msp as pairs of a stack and a word; sel: the
            \* running code uses psp; handler: PendSV runs; fpEnter: its exception frame
  ctxMem,   \* the words of each stack that hold something
  context,  \* context_t of each task, where it has one
  ctxStep,  \* the operation that is next, 0 in a task
  ctxCur,   \* eh->current_task
  ctxWant   \* history: what each task is to find: its stack pointer, registers and words

ctxVars == <<ctxPort, cpu, ctxMem, context, ctxStep, ctxCur, ctxWant>>

-----------------------------------------------------------------------------
P == ctxPort.name
Align == IF P = "riscv" THEN 4 ELSE 2     \* words of 8 bytes on 64 bit, of 4 on 32 bit
TopWord(size) == (size \div Align) * Align

\* The registers a call keeps.
Keeps ==
  CASE P = "linux"   -> Range(LinuxRegs)
    [] P = "windows" -> Range(WindowsRegs)
    [] P = "macos"   -> Range(MacosRegs) \ {Lr}
    [] P = "riscv"   -> Range(RiscvRegs) \ {Lr}
    [] OTHER -> Range(Regs("r", 4, 11))
                \cup (IF P \in CtxFloat \cup {"m33-msp-fpu"} THEN Range(Regs("s", 16, 31)) ELSE {})

\* The registers a task computes with, and those that belong to its state besides.
Computes ==
  Keeps \cup {Arg, From, To, Lr, <<"r", 3>>, <<"r", 12>>}
        \cup (IF P = "riscv" THEN Range(RiscvSaved) ELSE {})
        \cup (IF P = "m33-msp-fpu" THEN Range(Regs("s", 0, 15)) \cup {Fpscr} ELSE {})

\* On a processor that stores them only for code that has used them, the floating point
\* registers of other code have no values.
Unused == IF P \in CtxFloat /\ cpu.regs[Fp] = Zero THEN Range(Regs("s", 16, 31)) ELSE {}

\* The limit of the stack in force; it is checked outside of handlers.
CtxLimit == cpu.regs[IF cpu.sel THEN PspLim ELSE MspLim]

SwapOf ==
  CASE P = "linux"   -> LinuxSwap
    [] P = "windows" -> WindowsSwap
    [] P = "macos"   -> MacosSwap
    [] P = "riscv"   -> RiscvSwap
    [] P = "m0-psp"  -> M0PspSwap
    [] P = "m3-psp"  -> M3PspSwap
    [] P = "m33-msp" -> M33MspSwap(FALSE)
    [] P = "m33-msp-fpu" -> M33MspSwap(TRUE)
    [] P = "m0-pendsv" -> PendSvSwap(M0PendSvHandler)
    [] P = "m3-pendsv" -> PendSvSwap(M3PendSvHandler)
    [] P = "m4"      -> PendSvSwap(M4PendSvHandler)
    [] P = "m7"      -> PendSvSwap(M7PendSvHandler)
    [] P = "m33"     -> PendSvSwap(M33PendSvHandler)

NewFrame(t) ==
  CASE P = "linux"   -> LinuxFrame(cpu.regs[FpCw])
    [] P = "windows" -> WindowsFrame(cpu.regs[FpCw])
    [] P = "macos"   -> MacosFrame
    [] P = "riscv"   -> RiscvFrame
    [] P = "m0-psp"  -> M0PspFrame
    [] P = "m3-psp"  -> M3PspFrame
    [] P = "m33-msp" -> M33MspFrame(FALSE, t)
    [] P = "m33-msp-fpu" -> M33MspFrame(TRUE, t)
    [] P = "m0-pendsv" -> M0PendSvFrame
    [] P = "m3-pendsv" -> M3PendSvFrame
    [] P = "m4"      -> M4PendSvFrame
    [] P = "m7"      -> M7PendSvFrame
    [] P = "m33"     -> M33PendSvFrame(t)

Convert(f, to, irq) ==
  CASE P \in {"m0-psp", "m0-pendsv"} -> M0Convert(f, to, irq)
    [] P \in {"m3-psp", "m3-pendsv"} -> M3Convert(f, to, irq)
    [] P = "m4"  -> M4Convert(f, to, irq)
    [] P = "m7"  -> M7Convert(f, to, irq)
    [] P = "m33" -> M33Convert(f, to, irq)

\* The register the entry of a new task finds _task_entry in.
EntryReg ==
  CASE P \in CtxX64 -> <<"rbx">> [] P = "macos" -> <<"x", 19>> [] P = "riscv" -> <<"x", 8>> [] OTHER -> <<"r", 7>>

-----------------------------------------------------------------------------
SpOf(c) == IF c.sel THEN c.psp ELSE c.msp
WithSp(c, s) == IF c.sel THEN [c EXCEPT !.psp = s] ELSE [c EXCEPT !.msp = s]
Sp == SpOf(cpu)
Moved(n) == WithSp(cpu, <<Sp[1], Sp[2] - n>>)
Words(rs, at) == [i \in at .. at + Len(rs) - 1 |-> cpu.regs[rs[i - at + 1]]]
Stored(mem, words) == [mem EXCEPT ![Sp[1]] = words @@ @]
ReadAt(i) == IF i \in DOMAIN ctxMem[Sp[1]] THEN ctxMem[Sp[1]][i] ELSE Junk
Loaded(rs, at) == [r \in Range(rs) |-> ReadAt(at + (CHOOSE i \in DOMAIN rs : rs[i] = r) - 1)]
\* What an exception leaves of the memory: nothing below a stack pointer.
Trashed(mem, s) ==
  IF s[1] \in CtxTask THEN [mem EXCEPT ![s[1]] = [i \in {j \in DOMAIN @ : j >= s[2]} |-> @[i]]] ELSE mem

\* Where a function called by nobody has its stack pointer: at the aligned end of the
\* stack, on x64 below the return address.
EntrySp == TopWord(ctxPort.words) - IF P \in CtxX64 THEN 1 ELSE 0

CtxStart ==
  /\ ctxPort \in [name : CtxPorts, words : CtxWords]
  /\ cpu = [regs |-> [r \in Computes \cup {Pc, Rax, FpCw, Fp, Exc, PriMask, <<"xpsr">>, <<"pad">>, Fpscr}
                             \cup Range(Regs("s", 0, 31)) |-> Zero]
                    @@ (PspLim :> Zero @@ MspLim :> Lim(CtxMain)),
            psp |-> <<IF P \in CtxConverts THEN "none" ELSE CtxMain, EntrySp>>,
            msp |-> <<IF P \in CtxX64 \cup {"macos", "riscv"} THEN "irq" ELSE CtxMain, EntrySp>>,
            sel |-> P \in CtxX64 \cup {"macos", "riscv"},
            handler |-> FALSE, frame |-> <<"none", 0>>]
  /\ ctxMem = [t \in CtxTask |-> << >>]
  /\ context = << >>
  /\ ctxStep = 0
  /\ ctxCur = CtxMain
  /\ ctxWant = [t \in CtxTask |-> [sp |-> EntrySp, regs |-> << >>, words |-> << >>, fresh |-> FALSE]]

-----------------------------------------------------------------------------
\* The task computes: it calls a function, which uses floating point, or returns from it,
\* and has its values in every register and in the words of the call.
CtxWork(g) ==
  LET sp    == EntrySp - g * Align
      used  == IF g = 1 THEN Computes ELSE Computes \ Unused
      float == IF P \in CtxFloat /\ g = 1 THEN One ELSE cpu.regs[Fp]
      regs  == [r \in used |-> <<"val", ctxCur, g>>] @@ (Fp :> float)
      words == [i \in sp .. EntrySp - 1 |-> <<"local", ctxCur, g>>]
      below == [i \in {j \in DOMAIN ctxWant[ctxCur].words : j >= EntrySp} |-> ctxWant[ctxCur].words[i]]
  IN  /\ ctxStep = 0
      /\ cpu' = WithSp([cpu EXCEPT !.regs = regs @@ @], <<Sp[1], sp>>)
      /\ ctxMem' = Stored(ctxMem, words)
      /\ ctxWant' = [ctxWant EXCEPT ![ctxCur] =
           [sp |-> sp, words |-> words @@ below,
            regs |-> [r \in used |-> regs[r]], fresh |-> FALSE]]
      /\ UNCHANGED <<ctxPort, context, ctxStep, ctxCur>>

\* co_context_make: a frame at the aligned end of the stack
CtxMake(t) ==
  LET frame == NewFrame(t)
      base  == TopWord(ctxPort.words) - Cardinality(DOMAIN frame)
  IN  /\ ctxStep = 0
      /\ t \notin DOMAIN context
      /\ P \in CtxConverts => cpu.sel
      /\ ctxMem' = [ctxMem EXCEPT ![t] = [i \in base .. TopWord(ctxPort.words) - 1 |-> frame[i - base]]]
      /\ context' = t :> <<t, base>> @@ context
      /\ ctxWant' = [ctxWant EXCEPT ![t] =
           [sp |-> EntrySp, regs |-> EntryReg :> Func, fresh |-> TRUE,
            words |-> IF P \in CtxX64 THEN EntrySp :> Finish ELSE << >>]]
      /\ UNCHANGED <<ctxPort, cpu, ctxStep, ctxCur>>

\* eh_task_next calls co_context_swap for the next task.
CtxCall(t) ==
  LET back == <<"back", ctxCur>>
      args == Arg :> <<"argument", ctxCur>> @@ From :> <<"context", ctxCur>> @@ To :> <<"context", t>>
              @@ Lr :> back
  IN  /\ ctxStep = 0
      /\ P \in CtxConverts => cpu.sel
      /\ t # ctxCur /\ t \in DOMAIN context \cup {CtxMain}
      /\ cpu' = WithSp([cpu EXCEPT !.regs = args @@ @], <<Sp[1], Sp[2] - IF P \in CtxX64 THEN 1 ELSE 0>>)
      /\ ctxMem' = IF P \in CtxX64 THEN Stored(ctxMem, (Sp[2] - 1) :> back) ELSE ctxMem
      /\ ctxStep' = 1
      /\ ctxCur' = t
      /\ ctxWant' = [ctxWant EXCEPT
           ![ctxCur].regs = [r \in Keeps \ Unused |-> cpu.regs[r]], ![ctxCur].fresh = FALSE,
           ![t].regs = (IF P \in CtxX64 /\ ~ctxWant[t].fresh THEN Rax ELSE Arg) :> <<"argument", ctxCur>> @@ @]
      /\ UNCHANGED <<ctxPort, context>>

-----------------------------------------------------------------------------
Continue == ctxStep' = ctxStep + 1
\* The processor has been sent where nothing is.
Astray == ctxStep' = -1

\* The operation that is next; with floating point in use, if it is to.
Op == LET o == SwapOf[ctxStep] IN IF o.op = "iffp" THEN o.of ELSE o
Skipped == SwapOf[ctxStep].op = "iffp" /\ cpu.regs[Exc] # Ext
Comes(kind) == ctxStep > 0 /\ ~Skipped /\ Op.op = kind

OpSkip ==
  /\ ctxStep > 0 /\ Skipped
  /\ Continue
  /\ UNCHANGED <<cpu, ctxMem, context>>

OpSub ==
  /\ Comes("sub")
  /\ cpu' = Moved(Op.n)
  /\ Continue
  /\ UNCHANGED <<ctxMem, context>>

OpStore ==
  /\ Comes("store")
  /\ ctxMem' = Stored(ctxMem, Words(Op.regs, Sp[2] + Op.n))
  /\ Continue
  /\ UNCHANGED <<cpu, context>>

OpLoad ==
  /\ Comes("load")
  /\ cpu' = [cpu EXCEPT !.regs = Loaded(Op.regs, Sp[2] + Op.n) @@ @]
  /\ Continue
  /\ UNCHANGED <<ctxMem, context>>

\* r1 has been left at the exception frame.
OpPeek ==
  /\ Comes("peek")
  /\ cpu' = [cpu EXCEPT !.regs = Op.regs[1] :> ctxMem[cpu.frame[1]][cpu.frame[2] + Op.n] @@ @]
  /\ Continue
  /\ UNCHANGED <<ctxMem, context>>

OpMove ==
  /\ Comes("move")
  /\ cpu' = [cpu EXCEPT !.regs =
               [r \in Range(Op.regs) |-> cpu.regs[Op.from[CHOOSE i \in DOMAIN Op.regs : Op.regs[i] = r]]] @@ @]
  /\ Continue
  /\ UNCHANGED <<ctxMem, context>>

OpSet ==
  /\ Comes("set")
  /\ cpu' = [cpu EXCEPT !.regs = Op.regs[1] :> Op.value @@ @]
  /\ Continue
  /\ UNCHANGED <<ctxMem, context>>

OpPublish ==
  /\ Comes("publish")
  /\ IF cpu.regs[From][1] = "context"
     THEN context' = cpu.regs[From][2] :> Sp @@ context /\ Continue
     ELSE UNCHANGED context /\ Astray
  /\ UNCHANGED <<cpu, ctxMem>>

OpAdopt ==
  /\ Comes("adopt")
  /\ IF cpu.regs[To][1] = "context"
     THEN cpu' = WithSp(cpu, context[cpu.regs[To][2]]) /\ Continue
     ELSE UNCHANGED cpu /\ Astray
  /\ UNCHANGED <<ctxMem, context>>

\* Back to the task that had called, or to the code that calls _task_entry; on x64
\* that pushes rbp first.
OpJump ==
  LET at == cpu.regs[Op.regs[1]]
      enters == at = Start /\ P \in CtxX64
  IN  /\ Comes("jump")
      /\ IF at \in {Start, <<"back", ctxCur>>} THEN ctxStep' = 0 ELSE Astray
      /\ cpu' = IF enters THEN Moved(1) ELSE cpu
      /\ ctxMem' = IF enters THEN Stored(ctxMem, (Sp[2] - 1) :> cpu.regs[<<"rbp">>]) ELSE ctxMem
      /\ UNCHANGED context

\* PendSV has the lowest priority and is taken when no interrupt runs.
OpHwEnter ==
  LET float == cpu.regs[Fp] = One
      frame == IF float THEN HwFrameF ELSE HwFrame
      sp    == <<Sp[1], Sp[2] - Len(frame)>>
  IN  /\ Comes("enter")
      /\ ctxMem' = Stored(ctxMem, [Words(frame, sp[2]) EXCEPT ![sp[2] + 6] = Mid])
      /\ cpu' = [WithSp(cpu, sp) EXCEPT !.handler = TRUE, !.frame = sp,
                 !.regs = Exc :> (IF float THEN Ext ELSE Std) @@ Fp :> Zero @@ @]
      /\ Continue
      /\ UNCHANGED context

OpHwReturn ==
  LET frame == IF cpu.regs[Exc] = Ext THEN HwFrameF ELSE HwFrame
      regs  == Loaded(frame, Sp[2])
  IN  /\ Comes("return")
      /\ cpu' = [Moved(-Len(frame)) EXCEPT !.handler = FALSE, !.frame = <<"none", 0>>,
                 !.regs = Fp :> (IF cpu.regs[Exc] = Ext THEN One ELSE Zero) @@ regs @@ @]
      /\ IF cpu.regs[Exc] \notin {Std, Ext} THEN Astray
         ELSE IF regs[Pc] = Mid THEN Continue ELSE IF regs[Pc] = Start THEN ctxStep' = 0 ELSE Astray
      /\ UNCHANGED <<ctxMem, context>>

CtxOp ==
  /\ OpSkip \/ OpSub \/ OpStore \/ OpLoad \/ OpPeek \/ OpMove \/ OpSet \/ OpPublish \/ OpAdopt
     \/ OpJump \/ OpHwEnter \/ OpHwReturn
  /\ UNCHANGED <<ctxPort, ctxCur, ctxWant>>

\* An interrupt, or a signal: its frame is below the stack pointer of the thread, its
\* handler's below that of the handlers.  On riscv both are on the interrupt stack.
CtxInterrupt ==
  LET saved    == [i \in DOMAIN RiscvSaved |-> cpu.regs[RiscvSaved[i]]]
      handled  == [r \in Range(RiscvSaved) |-> Junk]
      restored == [r \in Range(RiscvRestored) |-> saved[CHOOSE i \in DOMAIN saved : RiscvRestored[i] = r]]
  IN  /\ cpu.regs[PriMask] = Zero
      /\ IF P = "riscv"
         THEN /\ cpu' = [cpu EXCEPT !.regs = restored @@ handled @@ @]
              /\ UNCHANGED ctxMem
         ELSE /\ ctxMem' = Trashed(IF cpu.handler THEN ctxMem ELSE Trashed(ctxMem, Sp), cpu.msp)
              /\ UNCHANGED cpu
      /\ UNCHANGED <<ctxPort, context, ctxStep, ctxCur, ctxWant>>

\* coroutine_init and coroutine_deinit, in the main task: the system call of
\* context_convert_to_psp and context_convert_to_msp
CtxConvert ==
  LET f == [psp |-> cpu.psp, msp |-> cpu.msp, sel |-> cpu.sel,
            psplim |-> cpu.regs[PspLim], msplim |-> cpu.regs[MspLim]]
      g == Convert(f, IF cpu.sel THEN "msp" ELSE "psp", <<"irq", TopWord(ctxPort.words)>>)
  IN  /\ ctxStep = 0
      /\ P \in CtxConverts /\ ctxCur = CtxMain
      /\ cpu' = [cpu EXCEPT !.psp = g.psp, !.msp = g.msp, !.sel = g.sel,
                 !.regs = PspLim :> g.psplim @@ MspLim :> g.msplim @@ @]
      /\ ctxMem' = Trashed(ctxMem, Sp)
      /\ UNCHANGED <<ctxPort, context, ctxStep, ctxCur, ctxWant>>

CtxNext ==
  \/ \E g \in {0, 1} : CtxWork(g)
  \/ \E t \in CtxNew : CtxMake(t)
  \/ \E t \in CtxTask : CtxCall(t)
  \/ CtxOp
  \/ CtxInterrupt
  \/ CtxConvert

CtxSpec == CtxStart /\ [][CtxNext]_ctxVars

-----------------------------------------------------------------------------
\* co_context_make and co_context_swap, instruction by instruction where interrupts may
\* come in between: a task that is resumed finds its stack pointer, the words of its callers and the
\* registers of the calling convention as it left them, and the argument of the task
\* that went to it; a task that is new finds _task_entry and an aligned stack.  No
\* word outside of a stack is written, and the limit in force is that of the stack
\* in use, also between two instructions of a switch.
ContextInv ==
  /\ ctxStep >= 0
  /\ \A t \in CtxTask : DOMAIN ctxMem[t] \subseteq 0 .. ctxPort.words - 1
  /\ ctxStep = 0 =>
       /\ Sp = <<ctxCur, ctxWant[ctxCur].sp>>
       /\ \A r \in DOMAIN ctxWant[ctxCur].regs : cpu.regs[r] = ctxWant[ctxCur].regs[r]
       /\ \A i \in DOMAIN ctxWant[ctxCur].words : ReadAt(i) = ctxWant[ctxCur].words[i]
  /\ P \in {"m33", "m33-msp", "m33-msp-fpu"} /\ ~cpu.handler =>
       CtxLimit = Lim(Sp[1]) \/ (ctxStep > 0 /\ CtxLimit = Zero)
=============================================================================
