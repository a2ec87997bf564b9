------------------------------- MODULE EhPorts -------------------------------
(***************************************************************************)
(* What the ports' context switches do, instruction by instruction where   *)
(* an interrupt could tell the difference (src/src/coroutine/): each       *)
(* co_context_swap, PendSV_Handler and co_context_make as a list of        *)
(* operations on registers and words of the stack.  EhContext runs them.   *)
(***************************************************************************)
EXTENDS Integers, SequencesExt

(* Registers are tuples; Regs("r", 4, 11) is r4 to r11. *)
Regs(c, a, b) == [i \in 1 .. b - a + 1 |-> <<c, a + i - 1>>]
Arg  == <<"arg">>    \* the first argument, and the result but on x64
From == <<"from">>   \* the second argument: where the context is left
To   == <<"to">>     \* the third argument: the context to go to
Rax  == <<"rax">>
Lr   == <<"lr">>     \* the return address where a call leaves it in a register
Pc   == <<"pc">>     \* where to jump, with the name of its own
FpCw == <<"fpcw">>   \* mxcsr and the x87 control word, one word of the stack
Fpscr == <<"fpscr">>
Fp   == <<"fp">>     \* cortex-m: floating point has been used (CONTROL.FPCA)
Exc  == <<"exc">>    \* cortex-m: EXC_RETURN, the lr of a handler
PspLim == <<"psplim">>
MspLim == <<"msplim">>
PriMask == <<"primask">>

(* Values: 0 and 1, the addresses of code, the two kinds of exception frame, *)
(* and the lowest address of a stack.                                        *)
Zero   == <<"zero">>
One    == <<"one">>
Start  == <<"start">>    \* __start_task, trampoline
Func   == <<"func">>     \* _task_entry
Finish == <<"finish">>   \* what follows when that returns
Mid    == <<"mid">>      \* in co_context_swap, behind the request of PendSV
Std    == <<"std">>
Ext    == <<"ext">>
Lim(t) == <<"lim", t>>
Junk   == <<"junk">>     \* what has been left there

(* Operations.  Offsets count words from the stack pointer. *)
Sub(n)         == [op |-> "sub", n |-> n]
Add(n)         == [op |-> "sub", n |-> -n]
Store(rs, off) == [op |-> "store", regs |-> rs, n |-> off]
Load(rs, off)  == [op |-> "load", regs |-> rs, n |-> off]
Peek(r, off)   == [op |-> "peek", regs |-> <<r>>, n |-> off]  \* a word of the exception frame
Move(ds, ss)   == [op |-> "move", regs |-> ds, from |-> ss]
Set(r, v)      == [op |-> "set", regs |-> <<r>>, value |-> v]
Publish        == [op |-> "publish"]    \* *from = sp
Adopt          == [op |-> "adopt"]      \* sp = *to
Jump(r)        == [op |-> "jump", regs |-> <<r>>]
HwEnter        == [op |-> "enter"]      \* PendSV is taken
HwReturn       == [op |-> "return"]     \* bx with EXC_RETURN
IfFp(o)        == [op |-> "iffp", of |-> o]

Push(rs) == <<Sub(Len(rs)), Store(rs, 0)>>
Pop(rs)  == <<Load(rs, 0), Add(Len(rs))>>

(* The frame of a structure whose fields hold these values and else 0; some ports *)
(* leave what the memory held.                                                   *)
FrameWith(layout, values, rest) ==
  [i \in 0 .. Len(layout) - 1 |->
     IF layout[i + 1] \in DOMAIN values THEN values[layout[i + 1]] ELSE rest]
FrameOf(layout, values) == FrameWith(layout, values, Zero)

-----------------------------------------------------------------------------
\* x64; the call has pushed the return address.
LinuxRegs == <<FpCw>> \o Regs("r", 12, 15) \o <<<<"rbx">>, <<"rbp">>>>
LinuxSwap ==
  <<Sub(7), Store(LinuxRegs, 0), Publish, Adopt, Load(<<Pc>>, 7), Load(LinuxRegs, 0),
    Add(8), Move(<<Rax>>, <<Arg>>), Jump(Pc)>>
X64Values(cw) == FpCw :> cw @@ Pc :> Start @@ <<"rbp">> :> Finish @@ <<"rbx">> :> Func
LinuxFrame(cw) == FrameWith(LinuxRegs \o <<Pc>>, X64Values(cw), Junk)

(* Each of xmm6 to xmm15 takes two words. *)
Xmm == [i \in 1 .. 20 |-> <<"xmm", 6 + (i - 1) \div 2, (i - 1) % 2>>]
WindowsRegs ==
  Xmm \o <<FpCw>> \o Regs("r", 12, 15) \o <<<<"rbx">>, <<"rbp">>, <<"rsi">>, <<"rdi">>>>
WindowsSwap ==
  <<Sub(29), Store(WindowsRegs, 0), Publish, Adopt, Load(<<Pc>>, 29), Load(WindowsRegs, 0),
    Add(30), Move(<<Rax>>, <<Arg>>), Jump(Pc)>>
WindowsFrame(cw) ==
  FrameWith(WindowsRegs \o <<Pc>>, X64Values(cw) @@ [r \in Range(Xmm) |-> Zero], Junk)

MacosRegs == Regs("d", 8, 15) \o Regs("x", 19, 28) \o <<<<"x", 29>>, Lr>>
MacosSwap ==
  <<Sub(20), Store(MacosRegs, 0), Publish, Adopt, Load(MacosRegs, 0), Add(20), Jump(Lr)>>
MacosFrame == FrameWith(MacosRegs, <<"x", 19>> :> Func @@ Lr :> Start, Junk)

RiscvRegs == Regs("x", 8, 9) \o Regs("x", 18, 27) \o <<Lr>>
RiscvSwap ==
  <<Sub(13), Store(RiscvRegs, 0), Publish, Adopt, Load(RiscvRegs, 0), Add(13), Jump(Lr)>>
RiscvFrame == FrameOf(RiscvRegs, <<"x", 8>> :> Func @@ Lr :> Start)

\* What the entry of an interrupt stores on the interrupt stack (a0 to a2 are x10
\* to x12), and what its end loads; s0 to s11 are kept by the handlers.
RiscvSaved ==
  <<Lr>> \o Regs("x", 4, 7) \o <<Arg, From, To>> \o Regs("x", 13, 17) \o Regs("x", 28, 31)
  \o <<<<"mcause">>, <<"mepc">>, <<"msubm">>>>
RiscvRestored ==
  <<Lr>> \o Regs("x", 4, 7) \o <<Arg, From, To>> \o Regs("x", 13, 17) \o Regs("x", 28, 31)
  \o <<<<"mcause">>, <<"mepc">>, <<"msubm">>>>

-----------------------------------------------------------------------------
(* Cortex-M.  What the hardware stores when it takes an exception; with floating *)
(* point in use there is more of it.                                             *)
HwFrame  == <<Arg, From, To, <<"r", 3>>, <<"r", 12>>, Lr, Pc, <<"xpsr">>>>
HwFrameF == HwFrame \o Regs("s", 0, 15) \o <<Fpscr, <<"pad">>>>

(* Switches in thread mode. *)
M0PspLayout == <<<<"r", 12>>>> \o Regs("r", 8, 11) \o Regs("r", 4, 7) \o <<Lr>>
M0PspSwap ==
  Push(Regs("r", 4, 7) \o <<Lr>>) \o <<Move(Regs("r", 4, 7), Regs("r", 8, 11))>>
  \o Push(Regs("r", 4, 7)) \o <<Move(<<<<"r", 4>>>>, <<<<"r", 12>>>>)>> \o Push(<<<<"r", 4>>>>)
  \o <<Publish, Adopt>>
  \o Pop(<<<<"r", 4>>>>) \o <<Move(<<<<"r", 12>>>>, <<<<"r", 4>>>>)>>
  \o Pop(Regs("r", 4, 7)) \o <<Move(Regs("r", 8, 11), Regs("r", 4, 7))>>
  \o Pop(Regs("r", 4, 7) \o <<Pc>>) \o <<Jump(Pc)>>
M0PspFrame == FrameOf(M0PspLayout, <<"r", 7>> :> Func @@ Lr :> Start)

M3PspLayout == Regs("r", 4, 12) \o <<Lr>>
M3PspSwap ==
  Push(Regs("r", 4, 12) \o <<Lr>>) \o <<Publish, Adopt>> \o Pop(Regs("r", 4, 12) \o <<Pc>>) \o <<Jump(Pc)>>
M3PspFrame == FrameOf(M3PspLayout, <<"r", 7>> :> Func @@ Lr :> Start)

M33MspLayout(fp) ==
  (IF fp THEN <<Fpscr>> \o Regs("s", 0, 31) ELSE << >>) \o <<MspLim>> \o Regs("r", 4, 12) \o <<Lr>>
M33MspSwap(fp) ==
  <<Move(<<<<"r", 3>>>>, <<MspLim>>)>> \o Push(Regs("r", 3, 12) \o <<Lr>>) \o <<Set(MspLim, Zero)>>
  \o (IF fp THEN <<Move(<<<<"r", 4>>>>, <<PriMask>>), Set(PriMask, One)>> \o Push(Regs("s", 0, 31))
                 \o <<Move(<<<<"r", 3>>>>, <<Fpscr>>)>> \o Push(<<<<"r", 3>>>>)
      ELSE << >>)
  \o <<Publish, Adopt>>
  \o (IF fp THEN Pop(<<<<"r", 3>>>>) \o <<Move(<<Fpscr>>, <<<<"r", 3>>>>)>> \o Pop(Regs("s", 0, 31))
                 \o <<Move(<<PriMask>>, <<<<"r", 4>>>>)>>
      ELSE << >>)
  \o Pop(Regs("r", 3, 12) \o <<Lr>>) \o <<Move(<<MspLim>>, <<<<"r", 3>>>>), Jump(Lr)>>
M33MspFrame(fp, t) == FrameOf(M33MspLayout(fp), MspLim :> Lim(t) @@ <<"r", 7>> :> Func @@ Lr :> Start)

(* Switches by PendSV: co_context_swap around the handler. *)
PendSvSwap(handler) ==
  Push(Regs("r", 4, 5)) \o <<HwEnter>> \o handler \o <<HwReturn>> \o Pop(Regs("r", 4, 5)) \o <<Jump(Lr)>>

M0PendSvHandler ==
  <<Peek(From, 1), Sub(8), Publish, Store(Regs("r", 4, 7), 0), Move(Regs("r", 4, 7), Regs("r", 8, 11)),
    Store(Regs("r", 4, 7), 4), Peek(To, 2), Peek(Arg, 0), Adopt,
    Load(Regs("r", 4, 7), 4), Move(Regs("r", 8, 11), Regs("r", 4, 7)), Store(<<Arg>>, 8),
    Load(Regs("r", 4, 7), 0), Add(8)>>
M0PendSvFrame == FrameOf(Regs("r", 4, 11) \o HwFrame, <<"r", 7>> :> Func @@ Pc :> Start)

M3PendSvHandler ==
  <<Sub(8), Store(Regs("r", 4, 11), 0), Peek(From, 1), Publish, Peek(To, 2), Peek(Arg, 0), Adopt>>
  \o Pop(Regs("r", 4, 11)) \o <<Store(<<Arg>>, 0)>>
M3PendSvFrame == FrameOf(Regs("r", 4, 11) \o HwFrame, <<"r", 7>> :> Func @@ Pc :> Start)

\* Mutant: the floating point registers are pushed below the others.
M4PendSvHandlerMutant ==
  <<Sub(9), Store(Regs("r", 4, 11) \o <<Exc>>, 0), IfFp(Sub(16)), IfFp(Store(Regs("s", 16, 31), 0)),
    Peek(From, 1), Publish, Peek(To, 2), Peek(Arg, 0), Adopt>>
  \o Pop(Regs("r", 4, 11) \o <<Exc>>) \o <<IfFp(Load(Regs("s", 16, 31), 0)), IfFp(Add(16)), Store(<<Arg>>, 0)>>

M4PendSvHandler ==
  <<IfFp(Sub(16)), IfFp(Store(Regs("s", 16, 31), 0)), Sub(9), Store(Regs("r", 4, 11) \o <<Exc>>, 0),
    Peek(From, 1), Publish, Peek(To, 2), Peek(Arg, 0), Adopt>>
  \o Pop(Regs("r", 4, 11) \o <<Exc>>) \o <<IfFp(Load(Regs("s", 16, 31), 0)), IfFp(Add(16)), Store(<<Arg>>, 0)>>
M4PendSvFrame ==
  FrameOf(Regs("r", 4, 11) \o <<Exc>> \o HwFrame, <<"r", 7>> :> Func @@ Exc :> Std @@ Pc :> Start)
M7PendSvHandler == M4PendSvHandler
M7PendSvFrame == M4PendSvFrame

M33PendSvHandler ==
  <<IfFp(Sub(16)), IfFp(Store(Regs("s", 16, 31), 0)), Sub(10), Store(<<PspLim, Exc>> \o Regs("r", 4, 11), 0),
    Peek(From, 1), Publish, Peek(To, 2), Peek(Arg, 0), Adopt>>
  \o Pop(<<PspLim, Exc>> \o Regs("r", 4, 11))
  \o <<IfFp(Load(Regs("s", 16, 31), 0)), IfFp(Add(16)), Store(<<Arg>>, 0)>>
M33PendSvFrame(t) ==
  FrameOf(<<PspLim, Exc>> \o Regs("r", 4, 11) \o HwFrame,
          PspLim :> Lim(t) @@ <<"r", 7>> :> Func @@ Exc :> Std @@ Pc :> Start)

-----------------------------------------------------------------------------
(* The stack pointers, their limits and bit 2 of EXC_RETURN in the handler of SVC: *)
(* context_convert makes the running stack that of the process and the interrupt   *)
(* stack that of the handlers, and back.                                           *)
M0Convert(f, to, irq) ==
  IF to = "psp" THEN [f EXCEPT !.sel = TRUE, !.psp = f.msp, !.msp = irq]
  ELSE [f EXCEPT !.sel = FALSE, !.msp = f.psp]
M3Convert(f, to, irq) == M0Convert(f, to, irq)
M4Convert(f, to, irq) == M0Convert(f, to, irq)
M7Convert(f, to, irq) == M0Convert(f, to, irq)
M33Convert(f, to, irq) ==
  IF to = "psp"
  THEN [f EXCEPT !.sel = TRUE, !.psplim = f.msplim, !.psp = f.msp, !.msp = irq, !.msplim = Lim("irq")]
  ELSE [f EXCEPT !.sel = FALSE, !.msp = f.psp, !.msplim = f.psplim]
=============================================================================
