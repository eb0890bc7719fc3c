-------------------------------- MODULE Frame --------------------------------
(***************************************************************************)
(* A trap that returns to where it came from, register by register:        *)
(* SAVE_ALL and RESTORE_ALL (include/stackframe.h; kern/kexcentry.S and    *)
(* kern/genex.S have the same macros), around a C handler.  TrapSwitch has *)
(* the traps that end in another env.                                      *)
(*                                                                         *)
(* Interrupts are off from the trap to sret, so that nothing comes between *)
(* the steps.  A frame is named by the address of its first word.          *)
(***************************************************************************)
EXTENDS Integers, Sequences

CONSTANTS
  REGS,        \* what the registers may hold at a trap
  TRAPS,       \* what the control registers but sscratch may hold then
  LEFT,        \* what a C function may leave in the registers
  KSP, TFEND,  \* the kernel's stack pointer, the end of the env's env_tf
  STALE        \* whatever the kernel's stack held

SP == 2
S(n) == IF n < 2 THEN 8 + n ELSE 16 + n   \* s0, s1, s2, ...
Reg == 0 .. 31
Slot == 0 .. 35                           \* words of struct Trapframe
FRAME == 36                               \* TRAPFRAME_SIZE
SPP == 2^8
Csr == {"sscratch", "sstatus", "sepc", "stval", "scause"}

FrameBase == {KSP - FRAME, TFEND - FRAME}

ASSUME FrameAssumption ==
  /\ REGS \cup LEFT \subseteq [Reg -> Int]
  /\ TRAPS \subseteq [sstatus : Nat, sepc : Nat, stval : Nat, scause : Nat]
  /\ {KSP, TFEND} \subseteq Nat \ {0} /\ STALE \in Int

VARIABLES
  gpr,     \* the registers
  ctl,     \* the control registers of Csr
  frame,   \* memory: frames by their addresses
  fpc,     \* where the trap is
  shown,   \* the arguments print_tf has passed to printk
  before   \* auxiliary: registers and control registers at the trap

framevars == <<gpr, ctl, frame, fpc, shown, before>>

(* SPP says which mode a trap came from, and sret goes back to. *)
FromKernel(sstatus) == (sstatus \div SPP) % 2 # 0

(* A trap has just been taken, from user mode or from the kernel. *)
FrameStart(regs, c) ==
  LET kernel == FromKernel(c.sstatus)
  IN  /\ gpr = [regs EXCEPT ![0] = 0, ![SP] = IF kernel THEN KSP ELSE @]
      /\ ctl = [sscratch |-> IF kernel THEN 0 ELSE TFEND, sstatus |-> c.sstatus,
                sepc |-> c.sepc, stval |-> c.stval, scause |-> c.scause]
      /\ frame = [b \in FrameBase |-> [k \in Slot |-> STALE]]
      /\ fpc = "trap"
      /\ shown = <<>>
      /\ before = [gpr |-> gpr, ctl |-> ctl]

FrameInit == \E regs \in REGS, c \in TRAPS : FrameStart(regs, c)

Step(from, to) == fpc = from /\ fpc' = to /\ UNCHANGED before

STORE(f, k, v) == [f EXCEPT ![gpr[SP]][k] = v]
LOAD(k) == frame[gpr[SP]][k]
-----------------------------------------------------------------------------
(* sp and sscratch change places; in the kernel, where sscratch was 0, sp   *)
(* is taken back.  Then the frame is made room for.                         *)
SwapStack ==
  /\ Step("trap", "save")
  /\ ctl' = [ctl EXCEPT !.sscratch = gpr[SP]]
  /\ gpr' = [gpr EXCEPT ![SP] = (IF ctl.sscratch # 0 THEN ctl.sscratch ELSE gpr[SP]) - FRAME]
  /\ UNCHANGED <<frame, shown>>

(* All registers but x0 and sp. *)
SaveRegisters ==
  /\ Step("save", "save csrs")
  /\ frame' = [frame EXCEPT ![gpr[SP]] = [k \in Slot |-> IF k \in Reg \ {0, SP} THEN gpr[k] ELSE @[k]]]
  /\ UNCHANGED <<gpr, ctl, shown>>

(* The control registers go through s0 to s4; sscratch becomes 0. *)
SaveControl ==
  LET s == <<ctl.sscratch, ctl.sstatus, ctl.sepc, ctl.stval, ctl.scause>>
  IN  /\ Step("save csrs", "handler")
      /\ gpr' = [r \in Reg |-> IF \E n \in 0 .. 4 : r = S(n) THEN s[(CHOOSE n \in 0 .. 4 : r = S(n)) + 1]
                                                           ELSE gpr[r]]
      /\ ctl' = [ctl EXCEPT !.sscratch = 0]
      /\ frame' = [frame EXCEPT ![gpr[SP]] = [k \in Slot |-> CASE k = SP -> s[1]
                                                             [] k >= 32 -> s[k - 30]
                                                             [] OTHER -> @[k]]]
      /\ UNCHANGED shown

(* regs[], whose first word SAVE_ALL does not store, then the other words.  *)
print_tf(tf) == [k \in 1 .. 36 |-> tf[k - 1]]

(* handle_ebreak: the C function may leave anything in the registers, but   *)
(* sp is moved back; do_ebreak prints the frame and moves the saved sepc.   *)
Handle ==
  /\ Step("handler", "restore csrs")
  /\ shown' = print_tf(frame[gpr[SP]])
  /\ \E left \in LEFT : gpr' = [r \in Reg |-> IF r \in {0, SP} THEN gpr[r] ELSE left[r]]
  /\ frame' = STORE(frame, 33, LOAD(33) + 2)
  /\ UNCHANGED ctl

(* Mutant of RestoreControl: sscratch is set on the way to the kernel too. *)
RestoreControlAlways ==
  /\ Step("restore csrs", "restore")
  /\ gpr' = [gpr EXCEPT ![S(0)] = gpr[SP] + FRAME, ![S(1)] = LOAD(32), ![S(2)] = LOAD(33)]
  /\ ctl' = [ctl EXCEPT !.sscratch = gpr[SP] + FRAME, !.sepc = LOAD(33), !.sstatus = LOAD(32)]
  /\ UNCHANGED <<frame, shown>>

(* On the way to user mode sscratch is made the end of the frame. *)
RestoreControl ==
  LET kernel == FromKernel(LOAD(32))
  IN  /\ Step("restore csrs", "restore")
      /\ gpr' = [gpr EXCEPT ![S(0)] = IF kernel THEN SPP ELSE gpr[SP] + FRAME,
                        ![S(1)] = LOAD(32), ![S(2)] = LOAD(33)]
      /\ ctl' = [ctl EXCEPT !.sscratch = IF kernel THEN @ ELSE gpr[SP] + FRAME,
                            !.sepc = LOAD(33), !.sstatus = LOAD(32)]
      /\ UNCHANGED <<frame, shown>>

(* x31 down to x3, and x1; sp is needed until the end. *)
RestoreRegisters ==
  /\ Step("restore", "restore sp")
  /\ gpr' = [r \in Reg |-> IF r \in {0, SP} THEN gpr[r] ELSE LOAD(r)]
  /\ UNCHANGED <<ctl, frame, shown>>

RestoreSp ==
  /\ Step("restore sp", "sret")
  /\ gpr' = [gpr EXCEPT ![SP] = LOAD(SP)]
  /\ UNCHANGED <<ctl, frame, shown>>

FrameNext ==
  \/ SwapStack \/ SaveRegisters \/ SaveControl
  \/ Handle
  \/ RestoreControl \/ RestoreRegisters \/ RestoreSp

FrameSpec == FrameInit /\ [][FrameNext]_framevars
-----------------------------------------------------------------------------
(* After sret the interrupted program has all its registers back and goes   *)
(* on behind the breakpoint, sstatus included, and sscratch is ready for    *)
(* the next trap, from user mode and from the kernel (SAVE_ALL uses s0 to   *)
(* s4 only once they are saved, RESTORE_ALL loads sp last).  What print_tf  *)
(* passes to printk are the registers at the trap, but for $0 (%08x prints  *)
(* the low 32 bits of each).                                                *)
RegistersRestored ==
  fpc = "sret" =>
    /\ gpr = before.gpr
    /\ ctl = [before.ctl EXCEPT !.sepc = @ + 2]
    /\ \A r \in Reg \ {0} : shown[r + 1] = before.gpr[r]
    /\ SubSeq(shown, 33, 36) = <<before.ctl.sstatus, before.ctl.sepc, before.ctl.stval, before.ctl.scause>>
=============================================================================
